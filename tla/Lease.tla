------------------------------- MODULE Lease -------------------------------
(***************************************************************************)
(* What a lease promises, whatever it is kept in: at most one contender    *)
(* acts under it, and it passes from one to another only through a time in *)
(* which nobody does.  LeaderLease implements it for the coordinator, and  *)
(* PhaseLease (monitoring/leader.py) is the same code for one phase.       *)
(***************************************************************************)
CONSTANT Contender   \* the processes that may hold the lease

VARIABLE holders     \* those that act under it

LeaseInit == holders = {}

\* Wrong: a lease that is held can be acquired.
AcquireHeld(p) == holders' = holders \union {p}

Acquire(p) == holders = {} /\ holders' = {p}

\* It is released, or it has not been renewed in time.
Lapse(p) == holders = {p} /\ holders' = {}

LeaseNext == \E p \in Contender : Acquire(p) \/ Lapse(p)

LeaseSpec == LeaseInit /\ [][LeaseNext]_holders
============================================================================
