------------------------------ MODULE Accounts ------------------------------
(***************************************************************************)
(* One account with its sessions and the links that are mailed to it:       *)
(* api/routes_auth.py and the user actions of api/routes_admin.py.          *)
(*                                                                         *)
(* A request loads the rows it decides on and commits later; what it has    *)
(* loaded is kept in ask.  An assignment of the value that was loaded writes *)
(* nothing.  Access tokens live for minutes and are left out; a password is *)
(* the number of times it has been set.                                     *)
(***************************************************************************)
EXTENDS Naturals, Sequences

CONSTANTS
  Address,   \* mail addresses the person owns
  Registered,     \* the one the account was registered with
  ACCaller,  \* concurrent requests
  ACOps,     \* bound of the model: requests
  Apart      \* requests that do not overlap: sets of one or two kinds

Kind == {"login", "refresh", "reset", "verify", "address", "resend", "admin", "other"}
ASSUME AccountsAssumption == Registered \in Address /\ ACOps \in Nat /\ Apart \subseteq SUBSET Kind

VARIABLES
  user,      \* the row of users, and the addresses that were proven
  sessions,  \* sessions: the login each one stems from and the password that one gave
  links,     \* email_verifications
  resets,    \* password_resets: TRUE while the link can be used
  ask,       \* what each request has loaded
  acops

acVars == <<user, sessions, links, resets, ask, acops>>

NoAsk == [op |-> "none", row |-> 0, saw |-> [password |-> 0, verified |-> FALSE]]
ACInit ==
  /\ user = [here |-> TRUE, email |-> Registered, verified |-> FALSE, active |-> TRUE,
             password |-> 1, reset |-> 1, proven |-> {}]
  /\ sessions = <<[login |-> 1, password |-> 1, live |-> TRUE]>>
  /\ links = <<[to |-> Registered, open |-> TRUE]>>
  /\ resets = <<>>
  /\ ask = [c \in ACCaller |-> NoAsk]
  /\ acops = 0

\* A request of this kind may run beside the ones that are under way; the
\* second half of a refresh is still a refresh.
MayRun(op) ==
  \A d \in ACCaller : {op, IF ask[d].op = "issue" THEN "refresh" ELSE ask[d].op} \notin Apart
Load(c, op, row) ==
  /\ ask[c].op = "none" /\ MayRun(op) /\ acops < ACOps
  /\ ask' = [ask EXCEPT ![c] = [op |-> op, row |-> row,
              saw |-> [password |-> user.password, verified |-> user.verified]]]
  /\ acops' = acops + 1
Done(c, op) == ask[c].op = op /\ ask' = [ask EXCEPT ![c] = NoAsk] /\ UNCHANGED acops
AtOnce(op) == acops < ACOps /\ MayRun(op) /\ acops' = acops + 1 /\ UNCHANGED ask

Live == {s \in DOMAIN sessions : sessions[s].live}
Revoked(s) == [sessions EXCEPT ![s].live = FALSE]
AllRevoked == [s \in DOMAIN sessions |-> [sessions[s] EXCEPT !.live = FALSE]]
Rows == <<user, sessions, links, resets>>

\* A commit to a row that is gone matches nothing and raises.
Fails(c, op) == ~user.here /\ Done(c, op) /\ UNCHANGED Rows

----------------------------------------------------------------------------
(* Sessions.                                                               *)

\* login: the password is the present one
LoadLogin(c) == user.here /\ user.active /\ Load(c, "login", Len(sessions) + 1) /\ UNCHANGED Rows

\* refresh: the cookie names a live session
LoadRefresh(c, s) == s \in Live /\ user.here /\ user.active /\ Load(c, "refresh", s) /\ UNCHANGED Rows

\* Wrong: the session that was presented stays.
RotateNothing(c) ==
  /\ ask[c].op = "refresh" /\ ask' = [ask EXCEPT ![c].op = "issue"]
  /\ UNCHANGED <<user, sessions, links, resets, acops>>

\* The session that was presented ends, in a commit of its own.
Rotate(c) ==
  /\ ask[c].op = "refresh" /\ ask' = [ask EXCEPT ![c].op = "issue"]
  /\ sessions' = IF ask[c].row \in DOMAIN sessions THEN Revoked(ask[c].row) ELSE sessions
  /\ UNCHANGED <<user, links, resets, acops>>

\* _issue_session, which reads the user again after the commit before it
Issue(c) ==
  LET old == sessions[ask[c].row] IN
  \/ /\ ask[c].op \in {"login", "issue"} /\ user.here
     /\ sessions' = Append(sessions,
          IF ask[c].op = "login"
            THEN [login |-> Len(sessions) + 1, password |-> ask[c].saw.password, live |-> TRUE]
            ELSE [login |-> old.login, password |-> old.password, live |-> TRUE])
     /\ Done(c, ask[c].op) /\ UNCHANGED <<user, links, resets>>
  \/ ask[c].op \in {"login", "issue"} /\ Fails(c, ask[c].op)

\* logout and revoke_session end one session, logout_all each of them.
Logout == AtOnce("other") /\ (\E s \in Live : sessions' = Revoked(s)) /\ UNCHANGED <<user, links, resets>>
LogoutAll == AtOnce("other") /\ Live # {} /\ sessions' = AllRevoked /\ UNCHANGED <<user, links, resets>>

----------------------------------------------------------------------------
(* Passwords.                                                              *)

\* forgot_password and admin_reset_password
Forgot == AtOnce("other") /\ user.here /\ resets' = Append(resets, TRUE) /\ UNCHANGED <<user, sessions, links>>

LoadReset(c, r) == user.here /\ resets[r] /\ Load(c, "reset", r) /\ UNCHANGED Rows

\* Wrong: those who are signed in stay.
ResetQuietly(c) ==
  \/ /\ user.here /\ Done(c, "reset")
     /\ user' = [user EXCEPT !.password = @ + 1, !.reset = user.password + 1]
     /\ resets' = [resets EXCEPT ![ask[c].row] = FALSE]
     /\ UNCHANGED <<sessions, links>>
  \/ Fails(c, "reset")

Reset(c) ==
  \/ /\ user.here /\ Done(c, "reset")
     /\ user' = [user EXCEPT !.password = @ + 1, !.reset = user.password + 1]
     /\ resets' = [resets EXCEPT ![ask[c].row] = FALSE]
     /\ sessions' = AllRevoked
     /\ UNCHANGED links
  \/ Fails(c, "reset")

\* update_me with the present and a new password; nobody is signed out
ChangePassword ==
  /\ AtOnce("other") /\ user.here /\ user.active
  /\ user' = [user EXCEPT !.password = @ + 1] /\ UNCHANGED <<sessions, links, resets>>

----------------------------------------------------------------------------
(* Addresses.                                                              *)

LoadVerify(c, l) == user.here /\ links[l].open /\ Load(c, "verify", l) /\ UNCHANGED Rows
Verify(c) ==
  \/ /\ user.here /\ Done(c, "verify")
     /\ user' = [user EXCEPT !.verified = (@ \/ ~ask[c].saw.verified),
                             !.proven = @ \union {links[ask[c].row].to}]
     /\ links' = [links EXCEPT ![ask[c].row].open = FALSE]
     /\ UNCHANGED <<sessions, resets>>
  \/ Fails(c, "verify")

\* update_me with another address
LoadAddress(c, a) ==
  /\ user.here /\ user.active /\ a # user.email
  /\ Load(c, "address", a) /\ UNCHANGED Rows

\* Wrong: the links that were sent to the old address stay open.
AddressKeepsLinks(c) ==
  \/ /\ user.here /\ Done(c, "address")
     /\ user' = [user EXCEPT !.email = ask[c].row, !.verified = (@ /\ ~ask[c].saw.verified)]
     /\ links' = Append(links, [to |-> ask[c].row, open |-> TRUE])
     /\ UNCHANGED <<sessions, resets>>
  \/ Fails(c, "address")

ChangeAddress(c) ==
  \/ /\ user.here /\ Done(c, "address")
     /\ user' = [user EXCEPT !.email = ask[c].row, !.verified = (@ /\ ~ask[c].saw.verified)]
     /\ links' = Append([l \in DOMAIN links |-> [links[l] EXCEPT !.open = FALSE]],
                        [to |-> ask[c].row, open |-> TRUE])
     /\ UNCHANGED <<sessions, resets>>
  \/ Fails(c, "address")

\* resend_verification: the link goes to the address that was asked for
LoadResend(c) == user.here /\ ~user.verified /\ Load(c, "resend", user.email) /\ UNCHANGED Rows
Resend(c) ==
  /\ Done(c, "resend") /\ links' = Append(links, [to |-> ask[c].row, open |-> TRUE])
  /\ UNCHANGED <<user, sessions, resets>>

----------------------------------------------------------------------------
(* The administrator, and time.                                            *)

SetStatus == AtOnce("other") /\ user.here /\ user' = [user EXCEPT !.active = ~@] /\ UNCHANGED <<sessions, links, resets>>
VerifyByAdmin ==
  /\ AtOnce("admin") /\ user.here
  /\ user' = [user EXCEPT !.verified = TRUE, !.proven = @ \union {user.email}]
  /\ UNCHANGED <<sessions, links, resets>>
DeleteUser ==
  /\ AtOnce("admin") /\ user.here
  /\ user' = [user EXCEPT !.here = FALSE] /\ sessions' = AllRevoked
  /\ links' = [l \in DOMAIN links |-> [links[l] EXCEPT !.open = FALSE]]
  /\ resets' = [r \in DOMAIN resets |-> FALSE]
ExpireRow ==
  \/ (\E s \in Live : sessions' = Revoked(s)) /\ UNCHANGED <<user, links, resets, ask, acops>>
  \/ (\E l \in DOMAIN links : links[l].open /\ links' = [links EXCEPT ![l].open = FALSE])
     /\ UNCHANGED <<user, sessions, resets, ask, acops>>
  \/ (\E r \in DOMAIN resets : resets[r] /\ resets' = [resets EXCEPT ![r] = FALSE])
     /\ UNCHANGED <<user, sessions, links, ask, acops>>

ACNext ==
  \/ \E c \in ACCaller :
       \/ LoadLogin(c) \/ Rotate(c) \/ Issue(c) \/ Reset(c)
       \/ Verify(c) \/ ChangeAddress(c) \/ LoadResend(c) \/ Resend(c)
       \/ \E s \in DOMAIN sessions : LoadRefresh(c, s)
       \/ \E r \in DOMAIN resets : LoadReset(c, r)
       \/ \E l \in DOMAIN links : LoadVerify(c, l)
       \/ \E a \in Address : LoadAddress(c, a)
  \/ Logout \/ LogoutAll \/ Forgot \/ ChangePassword
  \/ SetStatus \/ VerifyByAdmin \/ DeleteUser \/ ExpireRow

ACSpec == ACInit /\ [][ACNext]_acVars

----------------------------------------------------------------------------

(***************************************************************************)
(* An address counts as verified when a link that was sent to that address *)
(* has been followed, whatever addresses the account has had before        *)
(* (routes_auth.py:348-350, "proof of owning the address it was SENT to"). *)
(***************************************************************************)
VerifiedProven == user.here /\ user.verified => user.email \in user.proven

(***************************************************************************)
(* After a password reset nobody is signed in who has not given a password *)
(* that is at least as new ("logs the user out everywhere").               *)
(***************************************************************************)
ResetSignsOut == \A s \in Live : sessions[s].password >= user.reset

\* A sign-in has one live session, however often it is refreshed.
Rotated == \A s, t \in Live : sessions[s].login = sessions[t].login => s = t

\* Sessions and verified addresses stand for what was proven (routes_auth.py).
AccountsSound == VerifiedProven /\ ResetSignsOut /\ Rotated
=============================================================================
