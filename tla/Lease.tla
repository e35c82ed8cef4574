-------------------------------- MODULE Lease --------------------------------
(***************************************************************************)
(* What the lock of pkg/certcloset/lock.go promises: a lease that is read  *)
(* and written in one step.  Whoever takes it starts its run in that step, *)
(* only a run extends the lease and only the owner frees it.               *)
(***************************************************************************)
EXTENDS Integers

CONSTANTS
    Proc,       \* those that take it
    Token,      \* owner ids
    TTL,        \* how long it lasts
    None

VARIABLES
    lease,      \* None, or who owns it and the time it has left
    token,      \* the id a process has taken the lease under
    running     \* the processes inside a run

vars == <<lease, token, running>>

Init ==
    /\ lease = None
    /\ token = [p \in Proc |-> None]
    /\ running = {}

Free == lease = None \/ lease.left = 0
Owns(p) == lease # None /\ lease.owner = token[p]

(* A lease of an id that nobody has, nor had it last.                      *)
Grant(t) ==
    /\ Free
    /\ lease # None => lease.owner # t
    /\ \A p \in Proc : token[p] # t
    /\ \E left \in 1..TTL : lease' = [owner |-> t, left |-> left]

Take(p) ==
    /\ token[p] = None
    /\ \E t \in Token : Grant(t) /\ token' = [token EXCEPT ![p] = t]
    /\ running' = running \cup {p}

(* Taken by one that does not come to know.                                *)
Waste == (\E t \in Token : Grant(t)) /\ UNCHANGED <<token, running>>

Extend(p) ==
    /\ p \in running /\ Owns(p)
    /\ \E left \in lease.left..TTL : lease' = [lease EXCEPT !.left = left]
    /\ UNCHANGED <<token, running>>

Finish(p) ==
    /\ p \in running
    /\ running' = running \ {p}
    /\ UNCHANGED <<lease, token>>

GiveUp(p) ==
    /\ token[p] # None /\ p \notin running
    /\ \/ Owns(p) /\ lease' = None
       \/ UNCHANGED lease
    /\ token' = [token EXCEPT ![p] = None]
    /\ UNCHANGED running

Die(p) ==
    /\ token' = [token EXCEPT ![p] = None]
    /\ running' = running \ {p}
    /\ UNCHANGED lease

(* A run does not outlive its lease.                                       *)
Age ==
    /\ lease # None /\ lease.left > 0
    /\ lease' = [lease EXCEPT !.left = @ - 1]
    /\ \A p \in running : Owns(p) => lease'.left > 0
    /\ UNCHANGED <<token, running>>

Next ==
    \/ \E p \in Proc : Take(p) \/ Extend(p) \/ Finish(p) \/ GiveUp(p) \/ Die(p)
    \/ Waste \/ Age

Spec == Init /\ [][Next]_vars

-----------------------------------------------------------------------------
(* What makes it exclusive: a run owns the lease, unexpired, under an id   *)
(* that is no other process's.                                             *)
LeaseInv ==
    /\ lease \in [owner : Token, left : 0..TTL] \cup {None}
    /\ token \in [Proc -> Token \cup {None}]
    /\ running \subseteq Proc
    /\ \A p, q \in Proc : token[p] = token[q] => p = q \/ token[p] = None
    /\ \A p \in running : Owns(p) /\ lease.left > 0

(* At most one process is inside a run.                                    *)
Exclusive == \A p, q \in running : p = q
=============================================================================
