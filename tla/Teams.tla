------------------------------- MODULE Teams -------------------------------
(***************************************************************************)
(* Accounts, organizations and invitations: api/routes_org.py, register in *)
(* api/routes_auth.py and the permission table of api/deps.py.             *)
(*                                                                         *)
(* An organization is named after the person who registered it.  Accepting *)
(* an invitation reads the invitation, the account and its memberships     *)
(* before it commits; every other handler is one transaction.  Passwords,  *)
(* sessions and the wording of mails are left out.                         *)
(***************************************************************************)
EXTENDS Naturals, FiniteSets

CONSTANTS
  Person,     \* people, each with one mail address
  MaxInvites, \* bound of the model: invitations that are ever made
  TMOps,      \* bound of the model: role changes, removals and cancellations
  TMTimely    \* {"accept"}: a person accepts one invitation at a time

ASSUME TeamsAssumption ==
  /\ MaxInvites \in Nat \ {0} /\ TMOps \in Nat /\ TMTimely \subseteq {"accept"}

VARIABLES
  account,  \* users.role of each person; "none" without an account
  member,   \* organization_members: a person's role in each organization
  invite,   \* the invitations
  accept,   \* what a request that accepts an invitation has read
  tmops

tmVars == <<account, member, invite, accept, tmops>>

Invite == 1 .. MaxInvites
Assignable == {"admin", "member", "viewer"}
Role == Assignable \cup {"owner"}
NoInvite == [org |-> "none", to |-> "none", role |-> "none", status |-> "none"]

TMInit ==
  /\ account = [p \in Person |-> "none"]
  /\ member = [o \in Person |-> [p \in Person |-> "none"]]
  /\ invite = [i \in Invite |-> NoInvite]
  /\ accept = [i \in Invite |-> "none"]
  /\ tmops = 0

Belongs(p) == \E o \in Person : member[o][p] # "none"
Expected(i) == invite[i].status = "pending"
Status(i, s) == [invite EXCEPT ![i].status = s]
TMAsk == tmops < TMOps /\ tmops' = tmops + 1

\* PERMISSIONS, and has_permission of a caller whose membership is in org o
Allowed(action) ==
  CASE action = "user:invite" -> {"admin", "owner"}
    [] action = "member:manage" -> {"owner"}
May(p, o, action) == member[o][p] \in Allowed(action)

\* register: the account, its organization and its ownership; the address is unique
Register(p) ==
  /\ account[p] = "none"
  /\ account' = [account EXCEPT ![p] = "owner"]
  /\ member' = [member EXCEPT ![p][p] = "owner"]
  /\ UNCHANGED <<invite, accept, tmops>>

\* create_invitation: not to a person who is in an organization; it replaces the pending
\* invitations of this organization to that address
CreateInvitation(by, o, to, role) ==
  /\ May(by, o, "user:invite") /\ ~Belongs(to)
  /\ \E i \in Invite :
       /\ invite[i].status = "none" /\ \A j \in 1 .. i - 1 : invite[j].status # "none"
       /\ invite' = [j \in Invite |->
            IF j = i THEN [org |-> o, to |-> to, role |-> role, status |-> "pending"]
            ELSE IF invite[j].org = o /\ invite[j].to = to /\ Expected(j)
              THEN [invite[j] EXCEPT !.status = "revoked"] ELSE invite[j]]
  /\ UNCHANGED <<account, member, accept, tmops>>

\* cancel_invitation does not look at the status: an accepted one is revoked as well
CancelInvitation(by, i) ==
  /\ invite[i].status # "none" /\ May(by, invite[i].org, "user:invite") /\ TMAsk
  /\ invite' = Status(i, "revoked")
  /\ UNCHANGED <<account, member, accept>>

Expire(i) ==
  /\ Expected(i) /\ invite' = Status(i, "expired")
  /\ UNCHANGED <<account, member, accept, tmops>>

\* accept_invitation reads: a person who has an account must be in no organization
\* Wrong: only the organization of the invitation is looked at
AcceptReadHere(i) ==
  LET p == invite[i].to IN
  /\ Expected(i) /\ accept[i] = "none"
  /\ "accept" \in TMTimely => \A j \in Invite : invite[j].to = p => accept[j] = "none"
  /\ member[invite[i].org][p] = "none"
  /\ accept' = [accept EXCEPT ![i] = IF account[p] = "none" THEN "new" ELSE account[p]]
  /\ UNCHANGED <<account, member, invite, tmops>>

AcceptRead(i) ==
  LET p == invite[i].to IN
  /\ Expected(i) /\ accept[i] = "none"
  /\ "accept" \in TMTimely => \A j \in Invite : invite[j].to = p => accept[j] = "none"
  /\ ~Belongs(p)
  /\ accept' = [accept EXCEPT ![i] = IF account[p] = "none" THEN "new" ELSE account[p]]
  /\ UNCHANGED <<account, member, invite, tmops>>

\* ... and commits: the unique address and the unique membership refuse a second row; the
\* role of an account is written only when it differs from the one that was read
AcceptCommit(i) ==
  LET p == invite[i].to
      o == invite[i].org
      unique == (accept[i] = "new" => account[p] = "none") /\ member[o][p] = "none"
  IN
  /\ accept[i] # "none"
  /\ IF unique
       THEN /\ member' = [member EXCEPT ![o][p] = invite[i].role]
            /\ account' = IF accept[i] = invite[i].role THEN account
                          ELSE [account EXCEPT ![p] = invite[i].role]
            /\ invite' = Status(i, "accepted")
       ELSE UNCHANGED <<member, account, invite>>
  /\ accept' = [accept EXCEPT ![i] = "none"]
  /\ UNCHANGED tmops

\* update_member_role and remove_member: the owner of the organization, of anyone but itself
UpdateMemberRole(by, o, p, role) ==
  /\ May(by, o, "member:manage") /\ member[o][p] # "none" /\ p # o /\ TMAsk
  /\ member' = [member EXCEPT ![o][p] = role]
  /\ account' = [account EXCEPT ![p] = role]
  /\ UNCHANGED <<invite, accept>>

RemoveMember(by, o, p) ==
  /\ May(by, o, "member:manage") /\ member[o][p] # "none" /\ p # o /\ TMAsk
  /\ member' = [member EXCEPT ![o][p] = "none"]
  /\ UNCHANGED <<account, invite, accept>>

TMNext ==
  \/ \E p \in Person : Register(p)
  \/ \E by, o, to \in Person, role \in Assignable : CreateInvitation(by, o, to, role)
  \/ \E i \in Invite :
       \/ Expire(i) \/ AcceptRead(i) \/ AcceptCommit(i)
       \/ \E by \in Person : CancelInvitation(by, i)
  \/ \E by, o, p \in Person :
       \/ RemoveMember(by, o, p)
       \/ \E role \in Assignable : UpdateMemberRole(by, o, p, role)

TMSpec == TMInit /\ [][TMNext]_tmVars

-----------------------------------------------------------------------------
\* A user belongs to one organization (db/models.py OrganizationMember), whose membership
\* gives the role its account shows, and an organization is owned by whoever registered it.
MembershipSound ==
  /\ \A p \in Person : Cardinality({o \in Person : member[o][p] # "none"}) <= 1
  /\ \A o, p \in Person : member[o][p] # "none" =>
       /\ account[p] = member[o][p]
       /\ member[o][p] = "owner" <=> o = p
=============================================================================
