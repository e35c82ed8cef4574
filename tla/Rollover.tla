------------------------------ MODULE Rollover ------------------------------
(***************************************************************************)
(* The three-phase TLSA rollover as the renewer promises it (startRollover *)
(* and advanceRollover, app/renew.go), without runs, calls, failures or    *)
(* restarts: a new TLSA record is pre-published, the certificate switches  *)
(* after the wait, the old record is withdrawn after the sync lag.         *)
(*                                                                         *)
(* Renew implements it.  A step of a domain is one change of the           *)
(* certificate, of the TLSA RRset or of the stored rollover.               *)
(***************************************************************************)
EXTENDS Integers

CONSTANTS
    Domain,     \* the domains that are renewed through a rollover
    Key, None,
    TlsaWait, SyncLag,
    AgeCap      \* beyond it an age makes no difference

VARIABLES cert, tlsa, rollover

vars == <<cert, tlsa, rollover>>

Init ==
    /\ cert \in [Domain -> Key \cup {None}]
    /\ tlsa = [d \in Domain |-> {cert[d]} \ {None}]
    /\ rollover = [d \in Domain |-> None]

In(d, phase, wait) ==
    rollover[d] # None /\ rollover[d].phase = phase /\ rollover[d].age >= wait

(* A record is added beside the others.                                    *)
PrePublish(d) ==
    /\ rollover[d] = None
    /\ \E new \in Key : tlsa' = [tlsa EXCEPT ![d] = @ \cup {new}]
    /\ UNCHANGED <<cert, rollover>>

(* A rollover from the current key, or from one that could not be read, to *)
(* a key whose record is out.                                              *)
Begin(d) ==
    /\ rollover[d] = None
    /\ \E new \in tlsa[d], old \in {cert[d], None} :
        /\ old # new
        /\ rollover' = [rollover EXCEPT
                            ![d] = [phase |-> "pre", old |-> old, new |-> new, age |-> 0]]
    /\ UNCHANGED <<cert, tlsa>>

SwitchCert(d) ==
    /\ In(d, "pre", TlsaWait)
    /\ cert' = [cert EXCEPT ![d] = rollover[d].new]
    /\ UNCHANGED <<tlsa, rollover>>

Switched(d) ==
    /\ In(d, "pre", TlsaWait) /\ cert[d] = rollover[d].new
    /\ rollover' = [rollover EXCEPT
                        ![d] = [phase |-> "switched", old |-> @.old, new |-> @.new, age |-> 0]]
    /\ UNCHANGED <<cert, tlsa>>

Withdraw(d) ==
    /\ In(d, "switched", SyncLag)
    /\ tlsa' = [tlsa EXCEPT ![d] = @ \ {rollover[d].old}]
    /\ UNCHANGED <<cert, rollover>>

(* With or without the old record withdrawn.                               *)
Finish(d) ==
    /\ In(d, "switched", SyncLag)
    /\ rollover' = [rollover EXCEPT ![d] = None]
    /\ UNCHANGED <<cert, tlsa>>

(* Before the switch a rollover may be given up.                           *)
GiveUp(d) ==
    /\ In(d, "pre", 0)
    /\ rollover' = [rollover EXCEPT ![d] = None]
    /\ UNCHANGED <<cert, tlsa>>

CertLost(d) ==
    /\ cert' = [cert EXCEPT ![d] = None]
    /\ UNCHANGED <<tlsa, rollover>>

Older(r) == IF r # None /\ r.age < AgeCap THEN [r EXCEPT !.age = @ + 1] ELSE r

Tick ==
    /\ rollover' = [d \in Domain |-> Older(rollover[d])]
    /\ UNCHANGED <<cert, tlsa>>

Next ==
    \/ \E d \in Domain :
        \/ PrePublish(d) \/ Begin(d) \/ SwitchCert(d) \/ Switched(d)
        \/ Withdraw(d) \/ Finish(d) \/ GiveUp(d) \/ CertLost(d)
    \/ Tick

Spec == Init /\ [][Next]_vars

-----------------------------------------------------------------------------
(* What it guarantees: the record of the certificate is out, in all three  *)
(* phases.                                                                 *)
CertOut(d) == cert[d] # None => cert[d] \in tlsa[d]

State == [phase : {"pre", "switched"}, old : Key \cup {None}, new : Key, age : 0..AgeCap]

(* That holds because a rollover withdraws neither the record of its new   *)
(* key nor, before the certificate has switched, that of its old one.      *)
RolloverSound ==
    /\ cert \in [Domain -> Key \cup {None}] /\ tlsa \in [Domain -> SUBSET Key]
    /\ rollover \in [Domain -> State \cup {None}]
    /\ \A d \in Domain :
        /\ CertOut(d)
        /\ rollover[d] # None =>
            /\ rollover[d].new \in tlsa[d] /\ rollover[d].new # rollover[d].old
            /\ rollover[d].phase = "switched" => cert[d] \in {rollover[d].new, None}
=============================================================================
