-------------------------------- MODULE Dane --------------------------------
(***************************************************************************)
(* What a DANE client sees while the renewer rolls a key over: the key the *)
(* proxy serves, which sync takes from the bucket when the index says so,  *)
(* against the TLSA RRset a resolver has cached.                           *)
(*                                                                         *)
(* The renewer is Renew, step by step.  Sync is one step here, as it holds *)
(* the same lock: it runs only between runs of the renewer.                *)
(***************************************************************************)
EXTENDS Renew

CONSTANTS
    DnsTTL,         \* DNS_UPDATE_TTL: how long a resolver keeps an RRset
    SyncWithin      \* the rest of a run that changed the index, and the time
                    \* from its end to the sync that fetches the change

ASSUME DnsTTLAssumption == DnsTTL \in Nat /\ DnsTTL > 0
ASSUME SyncWithinAssumption == SyncWithin \in Nat /\ SyncWithin > 0

VARIABLES
    served,     \* the key of the certificate in the proxy's store, or None
    known,      \* the local index: the entry under which it was fetched
    cached,     \* an RRset in a resolver's cache and its time left, or None
    behind      \* for how long the index, a run's or the bucket's, is ahead of it

edge == <<served, known, behind>>
daneVars == <<vars, edge, cached>>

RRset == [rrs : SUBSET Key, left : 1..DnsTTL]

DaneTypeOK ==
    /\ TypeOK
    /\ served \in [Domain -> Key \cup {None}]
    /\ known \in [Domain -> Entry \cup {None}]
    /\ cached \in [Domain -> RRset \cup {None}]
    /\ behind \in 0..SyncWithin

EdgeInit ==
    /\ served = cert
    /\ known = certIndex
    /\ cached = [d \in Domain |-> None]
    /\ behind = 0

DaneInit == Init /\ EdgeInit

(* A new key is also none of those still served or cached.                 *)
InUse(d) == {served[d]} \cup (IF cached[d] = None THEN {} ELSE cached[d].rrs)
NewKeyIsNew ==
    pc' \in {"storekey", "store"} /\ pc = "obtain" => job'.new \notin InUse(job.domain)

Renewer ==
    /\ \/ \E domains \in SUBSET Domain : StartRun(domains)
       \/ Step
       \/ Restart
       \/ \E d \in Domain : CertVanishes(d)
    /\ NewKeyIsNew
    /\ UNCHANGED <<edge, cached>>

-----------------------------------------------------------------------------
(* syncCerts (run once): every entry that differs from the local index is  *)
(* fetched; an entry whose object is gone leaves both indexes and the      *)
(* store; what is not in the index leaves the store.  An entry that has    *)
(* been issued anew can look the same here, so any entry may be fetched.   *)
(* Mutant: sync fetches only what it does not have.                        *)
OnlyMissing(d) == certIndex[d] # None /\ known[d] = None
Differs(d) == certIndex[d] # None /\ certIndex[d] # known[d]

Sync ==
    /\ pc = "idle"
    /\ \E fetched \in SUBSET {d \in Domain : certIndex[d] # None} :
        LET gone == {d \in Domain : certIndex[d] = None \/ (d \in fetched /\ cert[d] = None)} IN
        /\ {d \in Domain : Differs(d)} \subseteq fetched
        /\ served' = [d \in Domain |-> IF d \in gone THEN None
                                       ELSE IF d \in fetched THEN cert[d] ELSE served[d]]
        /\ known' = [d \in Domain |-> IF d \in gone THEN None ELSE certIndex[d]]
        /\ certIndex' = known'
    /\ behind' = 0
    /\ UNCHANGED <<cert, failures, rollover, pendingKey, tlsa, memory, cached>>

(* A resolver with nothing in its cache asks for the TLSA RRset.           *)
Resolve(d) ==
    /\ cached[d] = None
    /\ cached' = [cached EXCEPT ![d] = [rrs |-> tlsa[d], left |-> DnsTTL]]
    /\ UNCHANGED <<vars, edge>>

(* Time passes, in a run as between runs.  What a run has changed in its   *)
(* index reaches the proxy within SyncWithin: the run's own end, where the *)
(* index is saved and the lock given back, is part of it.                  *)
RunIsAhead == pc # "idle" /\ dirty
UpToDate == known = certIndex /\ ~RunIsAhead

DaneTick ==
    /\ Tick
    /\ behind' = IF UpToDate THEN 0 ELSE behind + 1
    /\ UpToDate \/ behind + 1 < SyncWithin
    /\ cached' = [d \in Domain |->
                    IF cached[d] = None \/ cached[d].left = 1 THEN None
                    ELSE [cached[d] EXCEPT !.left = @ - 1]]
    /\ UNCHANGED <<served, known>>

(* A certificate becomes due long after the proxy has it.                  *)
DueAtEdge(d) ==
    /\ known[d] = certIndex[d]
    /\ BecomeDue(d)
    /\ known' = [known EXCEPT ![d] = certIndex'[d]]
    /\ UNCHANGED <<served, cached, behind>>

DaneNext ==
    \/ Renewer
    \/ Sync
    \/ DaneTick
    \/ \E d \in Domain : Resolve(d) \/ DueAtEdge(d)

DaneSpec == DaneInit /\ [][DaneNext]_daneVars

-----------------------------------------------------------------------------
(* "A 3-phase rollover prevents DANE verification gaps" (README): a client *)
(* whose resolver holds a TLSA RRset finds the served key in it.           *)
NoDaneGap ==
    \A d \in Domain :
        UseRollover(d) /\ served[d] # None /\ cached[d] # None /\ cached[d].rrs # {} =>
            served[d] \in cached[d].rrs
=============================================================================
