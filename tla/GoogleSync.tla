----------------------------- MODULE GoogleSync -----------------------------
(***************************************************************************)
(* The Google connections of an organization: Analytics ("ga4",            *)
(* services/integrations/google_analytics.py) and Search Console ("gsc",   *)
(* search_console.py), their endpoints, their jobs and the shared          *)
(* handling of failures (google_errors.py).                                *)
(*                                                                         *)
(* Every handler loads the one connection row, waits for Google, and then  *)
(* commits.  The session writes back only the columns whose value differs  *)
(* from what the handler loaded: Flush says so, and what another handler   *)
(* committed during the wait is kept or lost column by column.  Reports    *)
(* are kept by what property their rows measure.                           *)
(***************************************************************************)
EXTENDS Integers

CONSTANTS
  Props,      \* properties (or sites) the Google account can read
  Lookback,   \* ga4_sync_lookback_days
  History,    \* ga4_initial_sync_lookback_days
  GSHorizon,  \* bound of the model: days that pass
  GSOps,      \* bound of the model: requests
  GSFaults,   \* bound of the model: failed calls, crashes and revocations
  GSTimely    \* waits during which nothing else commits: "sync", "select"

ASSUME GoogleAssumption ==
  /\ {Lookback, History} \subseteq Nat \ {0} /\ Lookback <= History
  /\ {GSHorizon, GSOps, GSFaults} \subseteq Nat /\ GSTimely \subseteq {"sync", "select"}

VARIABLES
  kind,    \* which of the two connections this is
  day,     \* today
  conn,    \* its row
  rows,    \* traffic (or page) rows of a day: the property they measure, or "none"
  side,    \* the same of the best-effort reports (landing pages, events)
  grants,  \* refresh tokens that Google honours
  oauth,   \* the state row of the last connect: "none", "issued", "consumed"
  req,     \* the request under way: what it does, the row it loaded, its property
  sync,    \* the sync under way: its step, the row it loaded, its last day
  gjob,    \* the connection's job: "none", "pending", "running"
  gsops, gsfaults

gsVars == <<kind, day, conn, rows, side, grants, oauth, req, sync, gjob, gsops, gsfaults>>

Day == -History .. GSHorizon
Nowhere == [d \in Day |-> "none"]
Never == -History - 1
NoConn == [status |-> "none", token |-> 0, prop |-> "none", last |-> Never, next |-> Never,
           failures |-> 0, link |-> "none"]
NoReq == [op |-> "none", seen |-> NoConn, prop |-> "none"]
NoSync == [pc |-> "none", seen |-> NoConn, end |-> 0]

GSInit ==
  /\ kind \in {"ga4", "gsc"} /\ day = 0 /\ conn = NoConn
  /\ rows = Nowhere /\ side = Nowhere
  /\ grants = {} /\ oauth = "none" /\ req = NoReq /\ sync = NoSync /\ gjob = "none"
  /\ gsops = 0 /\ gsfaults = 0

\* What the row holds after a commit of a handler that loaded `seen` and changed it to `new`
Flush(seen, new) ==
  [f \in DOMAIN conn |-> IF new[f] # seen[f] THEN new[f] ELSE conn[f]]

Quiet(wait) == \/ wait \notin GSTimely
               \/ wait = "sync" /\ sync.pc = "none"
               \/ wait = "select" /\ req.op # "select"
GSAsk == gsops < GSOps /\ gsops' = gsops + 1
GSFault == gsfaults < GSFaults /\ gsfaults' = gsfaults + 1
Reports == <<rows, side>>

-----------------------------------------------------------------------------
\* Requests.  One that is refused changes nothing.

\* GET /connect: a single-use state
Connect ==
  /\ oauth # "issued" /\ req.op = "none" /\ GSAsk
  /\ oauth' = "issued"
  /\ UNCHANGED <<kind, day, conn, Reports, grants, req, sync, gjob, gsfaults>>

\* handle_oauth_callback takes the state before it asks Google for the tokens
Callback ==
  /\ oauth = "issued" /\ req.op = "none"
  /\ oauth' = "consumed" /\ req' = [NoReq EXCEPT !.op = "callback"]
  /\ UNCHANGED <<kind, day, conn, Reports, grants, sync, gjob, gsops, gsfaults>>

\* Wrong: a connection without a refresh token is active as well
ExchangedAnyhow ==
  /\ req.op = "callback" /\ Quiet("sync")
  /\ \E fresh \in {0, gsops} :
       /\ conn' = [conn EXCEPT !.token = IF fresh = 0 THEN @ ELSE fresh,
                               !.status = IF conn.prop = "none" THEN "pending" ELSE "active"]
       /\ grants' = IF fresh = 0 THEN grants ELSE grants \cup {fresh}
  /\ req' = NoReq
  /\ UNCHANGED <<kind, day, Reports, oauth, sync, gjob, gsops, gsfaults>>

\* It loads the connection after the exchange.  Google may send no refresh token, which
\* only a connection that has one survives; a failed exchange spends the state.
Exchanged ==
  /\ req.op = "callback" /\ Quiet("sync")
  /\ \E fresh \in {0, gsops} :
       LET token == IF fresh = 0 THEN conn.token ELSE fresh IN
       /\ token # 0
       /\ conn' = [conn EXCEPT !.token = token,
                               !.status = IF conn.prop = "none" THEN "pending" ELSE "active"]
       /\ grants' = IF fresh = 0 THEN grants ELSE grants \cup {fresh}
  /\ req' = NoReq
  /\ UNCHANGED <<kind, day, Reports, oauth, sync, gjob, gsops, gsfaults>>

ExchangeFails ==
  /\ req.op = "callback" /\ GSFault /\ req' = NoReq
  /\ UNCHANGED <<kind, day, conn, Reports, grants, oauth, sync, gjob, gsops>>

\* POST /select-property and /select-site, DELETE: they load the row, then ask Google
LoadConn(op) ==
  /\ req.op = "none" /\ conn.status # "none" /\ GSAsk
  /\ \E p \in (IF op = "select" THEN Props ELSE {"none"}) :
       req' = [op |-> op, seen |-> conn, prop |-> p]
  /\ UNCHANGED <<kind, day, conn, Reports, grants, oauth, sync, gjob, gsfaults>>

\* _mark_error by a handler that loaded `seen`
Mark(seen) == conn' = Flush(seen, [seen EXCEPT !.status = "error"])

\* get_valid_access_token finds no token, or Google refuses the one it loaded
SelectRefused ==
  /\ req.op = "select" /\ req.seen.token \notin grants
  /\ Mark(req.seen) /\ req' = NoReq
  /\ UNCHANGED <<kind, day, Reports, grants, oauth, sync, gjob, gsops, gsfaults>>

SelectFails ==
  /\ req.op = "select" /\ GSFault /\ req' = NoReq
  /\ UNCHANGED <<kind, day, conn, Reports, grants, oauth, sync, gjob, gsops>>

\* Wrong: only a connection that has synced holds anything of a property
SwitchesIfSynced == req.seen.prop # req.prop /\ req.seen.last # Never

\* Another property than the one loaded: its rows, cursor and link go (a first property
\* replaces nothing in Analytics; Search Console clears whatever there is)
Switches == IF kind = "ga4" THEN req.seen.prop \notin {"none", req.prop}
            ELSE req.seen.prop # req.prop

\* Wrong: the next sync of the new property goes on from the old one's cursor
ForgetLink(seen) == [seen EXCEPT !.link = "none"]

Forget(seen) == [seen EXCEPT !.last = Never, !.link = "none"]

SelectCommit ==
  /\ req.op = "select" /\ req.seen.token \in grants /\ Quiet("sync")
  /\ LET kept == IF Switches THEN Forget(req.seen) ELSE req.seen
     IN conn' = Flush(req.seen, [kept EXCEPT !.prop = req.prop, !.status = "active", !.next = day])
  /\ IF Switches THEN rows' = Nowhere /\ side' = Nowhere ELSE UNCHANGED Reports
  /\ gjob' = IF kind = "gsc" /\ gjob = "none" THEN "pending" ELSE gjob
  /\ req' = NoReq
  /\ UNCHANGED <<kind, day, grants, oauth, sync, gsops, gsfaults>>

\* disconnect revokes the token it loaded, then drops it whatever Google said
Disconnect ==
  /\ req.op = "disconnect" /\ Quiet("sync")
  /\ conn' = Flush(req.seen, [req.seen EXCEPT !.token = 0, !.status = "revoked", !.next = Never])
  /\ grants' \in {grants, grants \ {req.seen.token}}
  /\ gjob' = "none" /\ req' = NoReq
  /\ UNCHANGED <<kind, day, Reports, oauth, sync, gsops, gsfaults>>

\* POST /link-website: which website the selected property measures
LinkWebsite ==
  /\ kind = "ga4" /\ conn.prop # "none" /\ conn.link # conn.prop /\ Quiet("select") /\ GSAsk
  /\ conn' = [conn EXCEPT !.link = conn.prop]
  /\ UNCHANGED <<kind, day, Reports, grants, oauth, req, sync, gjob, gsfaults>>

TriggerSync ==
  /\ conn.status = "active" /\ conn.prop # "none" /\ gjob = "none" /\ GSAsk
  /\ gjob' = "pending"
  /\ UNCHANGED <<kind, day, conn, Reports, grants, oauth, req, sync, gsfaults>>

\* The user withdraws the grant at Google
Withdraw ==
  /\ GSFault /\ \E t \in grants : grants' = grants \ {t}
  /\ UNCHANGED <<kind, day, conn, Reports, oauth, req, sync, gjob, gsops>>

-----------------------------------------------------------------------------
\* Syncs

\* enqueue_due_ga4_syncs, enqueue_due_gsc_syncs
EnqueueDue ==
  /\ conn.status = "active" /\ conn.prop # "none" /\ conn.next # Never /\ conn.next <= day
  /\ gjob = "none"
  /\ gjob' = "pending"
  /\ UNCHANGED <<kind, day, conn, Reports, grants, oauth, req, sync, gsops, gsfaults>>

\* The executor loads the connection; one that is not ready ends the job
StartSync ==
  /\ gjob = "pending" /\ sync.pc = "none"
  /\ IF conn.status = "active" /\ conn.prop # "none"
       THEN gjob' = "running" /\ sync' = [pc |-> "token", seen |-> conn, end |-> day]
       ELSE gjob' = "none" /\ UNCHANGED sync
  /\ UNCHANGED <<kind, day, conn, Reports, grants, oauth, req, gsops, gsfaults>>

\* complete_job, which changes nothing for a job that disconnect ended
Finish == /\ sync' = NoSync
          /\ gjob' = IF gjob = "running" THEN "none" ELSE gjob

TokenKnown ==
  /\ sync.pc = "token" /\ sync.seen.token \in grants
  /\ sync' = [sync EXCEPT !.pc = "report", !.end = day]
  /\ UNCHANGED <<kind, day, conn, Reports, grants, oauth, req, gjob, gsops, gsfaults>>

\* No usable credential, or (as a fault) a property the account can no longer read: the
\* connection stops until a user acts
SyncStopped ==
  /\ \/ sync.pc = "token" /\ sync.seen.token \notin grants /\ UNCHANGED gsfaults
     \/ sync.pc = "report" /\ GSFault
  /\ Quiet("select")
  /\ Mark(sync.seen) /\ Finish
  /\ UNCHANGED <<kind, day, Reports, grants, oauth, req, gsops>>

\* record_transient: the connection stays active and tries again after its backoff
SyncDeferred ==
  /\ sync.pc # "none" /\ GSFault /\ Quiet("select")
  /\ \E wait \in {0, 1} :
       conn' = Flush(sync.seen, [sync.seen EXCEPT !.failures = @ + 1, !.next = day + wait])
  /\ Finish
  /\ UNCHANGED <<kind, day, Reports, grants, oauth, req, gsops>>

\* The days one sync replaces: Analytics' trailing window, all there is for Search Console
First(seen, end) == end - (IF kind = "gsc" \/ seen.last = Never THEN History ELSE Lookback)
Replaced(report, seen, end) ==
  [d \in Day |-> IF First(seen, end) <= d /\ d <= end THEN seen.prop
                 ELSE IF kind = "gsc" THEN "none" ELSE report[d]]

\* One transaction; the best-effort reports are replaced only when they were read
SyncCommit ==
  /\ sync.pc = "report" /\ Quiet("select")
  /\ rows' = Replaced(rows, sync.seen, sync.end)
  /\ IF kind = "ga4" THEN side' \in {side, Replaced(side, sync.seen, sync.end)}
                     ELSE UNCHANGED side
  /\ conn' = Flush(sync.seen, [sync.seen EXCEPT !.last = day, !.failures = 0, !.next = day + 1])
  /\ Finish
  /\ UNCHANGED <<kind, day, grants, oauth, req, gsops, gsfaults>>

\* The worker dies; the job is retried, or has used its attempts
SyncDies ==
  /\ sync.pc # "none" /\ GSFault
  /\ sync' = NoSync
  /\ gjob' \in (IF gjob = "running" THEN {"pending", "none"} ELSE {gjob})
  /\ UNCHANGED <<kind, day, conn, Reports, grants, oauth, req, gsops>>

\* At most one midnight falls within a sync, whose calls have timeouts
DayPasses ==
  /\ day < GSHorizon /\ day' = day + 1 /\ (sync.pc # "none" => day = sync.end)
  /\ UNCHANGED <<kind, conn, Reports, grants, oauth, req, sync, gjob, gsops, gsfaults>>

GSNext ==
  \/ Connect \/ Callback \/ Exchanged \/ ExchangeFails
  \/ \E op \in {"select", "disconnect"} : LoadConn(op)
  \/ SelectRefused \/ SelectFails \/ SelectCommit \/ Disconnect \/ LinkWebsite
  \/ TriggerSync \/ Withdraw
  \/ EnqueueDue \/ StartSync \/ TokenKnown \/ SyncStopped \/ SyncDeferred \/ SyncCommit
  \/ SyncDies \/ DayPasses

GSSpec == GSInit /\ [][GSNext]_gsVars

-----------------------------------------------------------------------------
\* Nothing of one property is shown as another's: every stored row measures the selected
\* property, and the website it is linked to was chosen for it (select_property, select_site).
OneProperty ==
  /\ \A d \in Day : {rows[d], side[d]} \subseteq {"none", conn.prop}
  /\ conn.link \in {"none", conn.prop}

\* A connection that claims a successful sync holds the property's rows for every full day
\* of the window that sync read (run_sync, and the cursor select_property resets).
WindowWhole ==
  conn.last # Never =>
    \A d \in Day : conn.last - Lookback <= d /\ d < conn.last => rows[d] = conn.prop

\* A connection that is active has the credential its syncs need: disconnect drops it and
\* the status together, whatever else commits meanwhile.
ActiveHasToken == conn.status = "active" => conn.token # 0

\* What a connection shows, claims and needs agree: no rows of another property, no hole in
\* the window of its last sync, and a credential while it is active.
ConnectionSound == OneProperty /\ WindowWhole /\ ActiveHasToken
=============================================================================
