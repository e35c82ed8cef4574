----------------------------- MODULE DaneProofs -----------------------------
(***************************************************************************)
(* No DANE gap, for any domains, keys, waits and resolver TTL, as long as  *)
(* the settings fit together and the renewer is not cut off between the    *)
(* phase and the index.                                                    *)
(***************************************************************************)
EXTENDS Dane, RolloverProofs

(* What the passing runs of Dane leave out: a failing write of the bucket, *)
(* a crash in a run, a wait shorter than the TTL, and a lag that is too    *)
(* short for the rest of a run and the sync after it.                      *)
Fitting ==
    /\ "s3write" \notin Faults /\ "crash" \notin Faults
    /\ DnsTTL <= TlsaWait
    /\ SyncWithin <= SyncLag

(* What the proxy serves and what the bucket holds is published, and known *)
(* to every resolver that has the records; so is a pre-published key once  *)
(* it has been out for the TTL.                                            *)
Covered(d) ==
    /\ served[d] # None => served[d] \in tlsa[d]
    /\ cached[d] # None =>
        /\ served[d] # None => served[d] \in cached[d].rrs
        /\ cert[d] # None => cert[d] \in cached[d].rrs
        /\ rollover[d] # None =>
            \/ rollover[d].new \in cached[d].rrs
            \/ /\ rollover[d].phase = "pre"
               /\ rollover[d].age + cached[d].left <= DnsTTL

EdgeCovered == \A d \in Domain : UseRollover(d) => Covered(d)

(* A stored certificate that is listed as valid nowhere but in memory: its *)
(* run is going to save the index.                                         *)
Pending == dirty /\ (renewed \/ pc = "saveindex")

(* The index of the bucket, the renewer's copy and the proxy's.            *)
IndexesAgree ==
    /\ pc \in {"idle", "saveindex"} => ~renewed
    /\ pc = "heal" => dirty /\ cert[job.domain] = None
    /\ pc \in {"obtain", "storekey", "storestate", "heal"} => index[job.domain] # "valid"
    /\ pc = "switch" => index[job.domain] = "valid" /\ dirty /\ renewed
    /\ \A d \in Domain :
        /\ certIndex[d] = "valid" => index[d] = "valid" \/ (pc = "heal" /\ job.domain = d)
        /\ UseRollover(d) /\ known[d] = "valid" /\ cert[d] # None =>
            /\ index[d] = "valid"
            /\ certIndex[d] = "valid" \/ Pending

(* A proxy that still serves the key a rollover replaces will fetch the    *)
(* new certificate, and has not been behind for long.                      *)
OldIsServed(d) == served[d] # None /\ rollover[d].old = served[d]
BehindTracked ==
    /\ behind < SyncWithin
    /\ \A d \in Domain : rollover[d] # None =>
        /\ rollover[d].phase = "pre" =>
            index[d] # "valid" \/ (pc = "switch" /\ job.domain = d)
        /\ OldIsServed(d) => known[d] # "valid"
        /\ OldIsServed(d) /\ rollover[d].phase = "switched" =>
            /\ rollover[d].age <= behind
            /\ index[d] = "valid"
            /\ certIndex[d] = "valid" \/ Pending

DaneInv == RenewInv /\ DaneTypeOK /\ EdgeCovered /\ IndexesAgree /\ BehindTracked

-----------------------------------------------------------------------------
(* A renewer's step in Dane is one of Renew, and so is time.               *)
LEMMA RenewerStep == Renewer => [Next]_vars /\ UNCHANGED <<served, known, behind, cached>>
BY DEF Renewer, Next, edge

(* All but Sync is the renewer's or leaves its state alone; Sync changes   *)
(* no more of it than the index in the bucket.                             *)
LEMMA RenewInvKept == RenewInv /\ [DaneNext]_daneVars => RenewInv'
<1> SUFFICES ASSUME RenewInv, [DaneNext]_daneVars PROVE RenewInv'
    OBVIOUS
<1>1. CASE Renewer
    BY <1>1, RenewerStep, StepInv
<1>2. CASE Sync
    <2>1. UNCHANGED <<cert, failures, rollover, pendingKey, tlsa, memory>>
        BY <1>2 DEF Sync
    <2>2. certIndex' \in [Domain -> Entry \cup {None}]
        BY <1>2 DEF Sync, RenewInv, TypeOK
    <2>3. TypeOK'
        BY <2>1, <2>2 DEF RenewInv, TypeOK, memory
    <2>4. CertPublished' /\ PendingKeyMatches' /\ RolloverConsistent' /\ JobConsistent'
        BY <2>1 DEF RenewInv, CertPublished, PendingKeyMatches, RolloverConsistent,
            JobConsistent, memory
    <2> QED BY <2>3, <2>4 DEF RenewInv
<1>3. CASE DaneTick
    BY <1>3, StepInv DEF DaneTick, Next
<1>4. ASSUME NEW d \in Domain, Resolve(d) PROVE RenewInv'
    BY <1>4, StepInv DEF Resolve
<1>5. ASSUME NEW d \in Domain, DueAtEdge(d) PROVE RenewInv'
    BY <1>5, StepInv DEF DueAtEdge, Next
<1>6. CASE UNCHANGED daneVars
    BY <1>6, StepInv DEF daneVars
<1> QED BY <1>1, <1>2, <1>3, <1>4, <1>5, <1>6 DEF DaneNext

LEMMA TypeKept == RenewInv /\ DaneTypeOK /\ [DaneNext]_daneVars => DaneTypeOK'
<1> SUFFICES ASSUME RenewInv, DaneTypeOK, [DaneNext]_daneVars PROVE DaneTypeOK'
    OBVIOUS
<1>0. TypeOK'
    BY RenewInvKept DEF RenewInv
<1> USE DEF DaneTypeOK
<1>1. CASE Renewer
    BY <1>0, <1>1, RenewerStep
<1>2. CASE Sync
    <2>1. served' \in [Domain -> Key \cup {None}]
        BY <1>2 DEF Sync, TypeOK
    <2>2. known' \in [Domain -> Entry \cup {None}]
        BY <1>2 DEF Sync, TypeOK
    <2> QED BY <1>0, <1>2, <2>1, <2>2, SyncWithinAssumption DEF Sync
<1>3. CASE DaneTick
    <2>1. cached' \in [Domain -> RRset \cup {None}]
        <3>1. ASSUME NEW d \in Domain, cached[d] # None, cached[d].left # 1
              PROVE  [cached[d] EXCEPT !.left = @ - 1] \in RRset
            BY <3>1, DnsTTLAssumption DEF RRset
        <3> QED BY <1>3, <3>1 DEF DaneTick
    <2>2. behind' \in 0..SyncWithin
        BY <1>3, SyncWithinAssumption DEF DaneTick
    <2> QED BY <1>0, <1>3, <2>1, <2>2 DEF DaneTick
<1>4. ASSUME NEW d \in Domain, Resolve(d) PROVE DaneTypeOK'
    <2>1. [rrs |-> tlsa[d], left |-> DnsTTL] \in RRset
        BY DnsTTLAssumption DEF RRset, TypeOK
    <2> QED BY <1>0, <1>4, <2>1 DEF Resolve, edge
<1>5. ASSUME NEW d \in Domain, DueAtEdge(d) PROVE DaneTypeOK'
    <2>1. certIndex'[d] \in Entry \cup {None}
        BY <1>0 DEF TypeOK
    <2> QED BY <1>0, <1>5, <2>1 DEF DueAtEdge
<1>6. CASE UNCHANGED daneVars
    BY <1>0, <1>6 DEF daneVars, edge
<1> QED BY <1>1, <1>2, <1>3, <1>4, <1>5, <1>6 DEF DaneNext

LEMMA EdgeInitInv == Fitting /\ DaneInit => DaneInv
<1> SUFFICES ASSUME Fitting, DaneInit PROVE DaneInv
    OBVIOUS
<1>1. RenewInv
    BY InitInv DEF DaneInit
<1> USE DEF DaneInit, EdgeInit, Init, EmptyRun
<1>2. DaneTypeOK
    BY <1>1, SyncWithinAssumption DEF RenewInv, DaneTypeOK, TypeOK
<1>3. EdgeCovered
    BY DEF EdgeCovered, Covered, UseRollover
<1>4. IndexesAgree
    BY DEF IndexesAgree
<1>5. BehindTracked
    BY SyncWithinAssumption DEF BehindTracked
<1> QED BY <1>1, <1>2, <1>3, <1>4, <1>5 DEF DaneInv

-----------------------------------------------------------------------------
(* Which of the renewer's calls change a stored rollover.                  *)
LEMMA RolloverChanges ==
    Renewer => \/ rollover' = rollover
               \/ StoreRolloverState \/ SwitchPhase \/ ResetRollover \/ DeleteRolloverState
BY DEF Renewer, Step, bucket, memory, StartRun, Skip, Visit, Check, Heal, AddTLSA,
    StorePendingKey, RequestCert, Store, UpdateDNS, Wait, RequestCertWithKey, StoreNew,
    RemoveTLSA, DeletePendingKey, SaveFailureState, EndRun, SaveIndexAtEnd, Restart,
    CertVanishes, StoreCertificate

(* A record is withdrawn only when the proxy serves its key no more.       *)
LEMMA ServedStaysPublished ==
    ASSUME Fitting, RenewInv, BehindTracked, [Next]_vars, DaneTypeOK,
           NEW d \in Domain, UseRollover(d), served[d] # None, served[d] \in tlsa[d]
    PROVE  served[d] \in tlsa'[d]
<1>1. CASE tlsa' = tlsa
    BY <1>1
<1>2. CASE AddTLSA
    <2>1. PICK key, after : /\ after \in {tlsa[job.domain], tlsa[job.domain] \cup {key}}
                            /\ tlsa' = [tlsa EXCEPT ![job.domain] = after]
        BY <1>2 DEF AddTLSA, Written, Published
    <2> QED BY <2>1 DEF RenewInv, TypeOK
<1>3. CASE UpdateDNS
    <2>1. ~UseRollover(job.domain)
        BY <1>3 DEF UpdateDNS, RenewInv, JobConsistent
    <2>2. PICK after : tlsa' = [tlsa EXCEPT ![job.domain] = after]
        BY <1>3 DEF UpdateDNS
    <2> QED BY <2>1, <2>2 DEF RenewInv, TypeOK
<1>4. CASE RemoveTLSA
    <2>1. PICK after \in {tlsa[job.domain], tlsa[job.domain] \ {job.old}} :
            tlsa' = [tlsa EXCEPT ![job.domain] = after]
        BY <1>4 DEF RemoveTLSA, Written
    <2>2. CASE d # job.domain
        BY <2>1, <2>2 DEF RenewInv, TypeOK
    <2>3. CASE d = job.domain
        <3>1. /\ rollover[d] # None /\ rollover[d].phase = "switched"
              /\ job.old = rollover[d].old /\ ~(rollover[d].age < SyncLag)
            BY <1>4, <2>3 DEF RemoveTLSA, Waiting, RenewInv, JobConsistent
        <3>2. /\ rollover[d].age \in Int /\ behind \in Int
              /\ SyncLag \in Int /\ SyncWithin \in Int /\ SyncWithin <= SyncLag
            BY <3>1, AgeCapBound, TimeAssumption, SyncWithinAssumption
            DEF RenewInv, TypeOK, Rollover, DaneTypeOK, Fitting
        <3>3. ~OldIsServed(d)
            BY <3>1, <3>2 DEF BehindTracked
        <3>4. served[d] # job.old
            BY <3>1, <3>3 DEF OldIsServed
        <3> QED BY <2>1, <2>3, <3>4 DEF RenewInv, TypeOK
    <2> QED BY <2>2, <2>3
<1> QED BY <1>1, <1>2, <1>3, <1>4, TlsaChanges

(* After the wait every resolver has the pre-published key.                *)
LEMMA WaitSuffices ==
    ASSUME Fitting, RenewInv, DaneTypeOK, EdgeCovered,
           NEW d \in Domain, UseRollover(d), rollover[d] # None, cached[d] # None,
           rollover[d].age >= TlsaWait
    PROVE  rollover[d].new \in cached[d].rrs
<1>1. rollover[d].age \in Int /\ cached[d].left \in Int /\ cached[d].left > 0
    <2>1. rollover[d] \in Rollover /\ cached[d] \in RRset
        BY DEF RenewInv, TypeOK, DaneTypeOK
    <2> QED BY <2>1, AgeCapBound, DnsTTLAssumption DEF Rollover, RRset
<1> QED BY <1>1, TimeAssumption, DnsTTLAssumption DEF EdgeCovered, Covered, Fitting

LEMMA RenewerCovers ==
    Fitting /\ DaneInv /\ Renewer => EdgeCovered'
<1> SUFFICES ASSUME Fitting, DaneInv, Renewer, NEW d \in Domain, UseRollover(d)
             PROVE  Covered(d)'
    BY DEF EdgeCovered, Covered, UseRollover
<1>0. /\ [Next]_vars /\ UNCHANGED <<served, known, behind, cached>>
      /\ RenewInv /\ DaneTypeOK /\ EdgeCovered /\ BehindTracked
    BY RenewerStep DEF DaneInv
<1>1. served[d] # None => served[d] \in tlsa'[d]
    BY <1>0, ServedStaysPublished DEF EdgeCovered, Covered
<1>2. ASSUME cached[d] # None, cert'[d] # None PROVE cert'[d] \in cached[d].rrs
    <2>1. CASE cert'[d] = cert[d]
        BY <1>0, <1>2, <2>1 DEF EdgeCovered, Covered
    <2>2. CASE cert'[d] # cert[d]
        <3>1. rollover[d] # None /\ rollover[d].age >= TlsaWait /\ cert'[d] = rollover[d].new
            BY <1>0, <1>2, <2>2, StepSwitch DEF SwitchStep
        <3> QED BY <1>0, <1>2, <3>1, WaitSuffices
    <2> QED BY <2>1, <2>2
<1>3. ASSUME cached[d] # None, rollover'[d] # None
      PROVE  \/ rollover'[d].new \in cached[d].rrs
             \/ /\ rollover'[d].phase = "pre"
                /\ rollover'[d].age + cached[d].left <= DnsTTL
    <2>0. rollover \in [Domain -> Rollover \cup {None}]
        BY <1>0 DEF RenewInv, TypeOK
    <2>1. CASE rollover'[d] = rollover[d]
        BY <1>0, <1>3, <2>1 DEF EdgeCovered, Covered
    <2>2. CASE StoreRolloverState /\ rollover'[d] # rollover[d]
        <3> DEFINE started == [phase |-> "pre", old |-> job.old, new |-> job.new, age |-> 0]
        <3>1. PICK after \in {rollover[job.domain], started} :
                rollover' = [rollover EXCEPT ![job.domain] = after]
            BY <2>2 DEF StoreRolloverState, Written
        <3>2. rollover'[d] = started
            BY <2>0, <2>2, <3>1
        <3>3. cached[d].left \in 1..DnsTTL
            BY <1>0, <1>3 DEF DaneTypeOK, RRset
        <3> QED BY <3>2, <3>3, DnsTTLAssumption
    <2>3. CASE SwitchPhase /\ rollover'[d] # rollover[d]
        <3> DEFINE switched == [phase |-> "switched", old |-> job.old, new |-> job.new, age |-> 0]
        <3>1. PICK after \in {rollover[job.domain], switched} :
                rollover' = [rollover EXCEPT ![job.domain] = after]
            BY <2>3 DEF SwitchPhase, Written
        <3>2. rollover'[d] = switched /\ d = job.domain
            BY <2>0, <2>3, <3>1
        <3>3. /\ rollover[d] # None /\ rollover[d].age >= TlsaWait
              /\ job.new = rollover[d].new
            BY <1>0, <2>3, <3>2 DEF SwitchPhase, RenewInv, JobConsistent
        <3> QED BY <1>0, <1>3, <3>2, <3>3, WaitSuffices
    <2>4. CASE ResetRollover \/ DeleteRolloverState
        <3>1. PICK after \in {rollover[job.domain], None} :
                rollover' = [rollover EXCEPT ![job.domain] = after]
            BY <2>4 DEF ResetRollover, DeleteRolloverState, Written
        <3>2. rollover'[d] = rollover[d]
            BY <1>3, <2>0, <3>1
        <3> QED BY <2>1, <3>2
    <2> QED BY <2>1, <2>2, <2>3, <2>4, RolloverChanges
<1> QED BY <1>0, <1>1, <1>2, <1>3 DEF EdgeCovered, Covered

LEMMA CoveredKept ==
    Fitting /\ DaneInv /\ [DaneNext]_daneVars => EdgeCovered'
<1> SUFFICES ASSUME Fitting, DaneInv, [DaneNext]_daneVars PROVE EdgeCovered'
    OBVIOUS
<1>0. RenewInv /\ DaneTypeOK /\ EdgeCovered /\ TypeOK
    BY DEF DaneInv, RenewInv
<1>1. CASE Renewer
    BY <1>1, RenewerCovers
<1>2. CASE Sync
    <2>1. UNCHANGED <<cert, rollover, tlsa, cached>>
        BY <1>2 DEF Sync
    <2>2. \A d \in Domain : served'[d] \in {None, cert[d], served[d]}
        BY <1>2 DEF Sync
    <2>3. \A d \in Domain : UseRollover(d) /\ cert[d] # None => cert[d] \in tlsa[d]
        BY <1>0 DEF RenewInv, CertPublished
    <2> QED BY <1>0, <2>1, <2>2, <2>3 DEF EdgeCovered, Covered, UseRollover
<1>3. CASE DaneTick
    <2>1. UNCHANGED <<cert, tlsa, served>>
        BY <1>3 DEF DaneTick, Tick
    <2>2. SUFFICES ASSUME NEW d \in Domain, UseRollover(d), cached'[d] # None
                   PROVE  /\ cached[d] # None /\ cached'[d].rrs = cached[d].rrs
                          /\ rollover'[d] # None =>
                                \/ rollover'[d].new \in cached[d].rrs
                                \/ /\ rollover'[d].phase = "pre"
                                   /\ rollover'[d].age + cached'[d].left <= DnsTTL
        BY <1>0, <2>1 DEF EdgeCovered, Covered, UseRollover
    <2>3. cached[d] # None /\ cached'[d] = [cached[d] EXCEPT !.left = @ - 1]
        BY <1>3, <2>2 DEF DaneTick
    <2>4. cached[d] \in RRset
        BY <1>0, <2>3 DEF DaneTypeOK
    <2>5. cached'[d].rrs = cached[d].rrs /\ cached'[d].left = cached[d].left - 1
          /\ cached[d].left \in 1..DnsTTL
        BY <2>3, <2>4 DEF RRset
    <2>6. ASSUME rollover'[d] # None
          PROVE  \/ rollover'[d].new \in cached[d].rrs
                 \/ /\ rollover'[d].phase = "pre"
                    /\ rollover'[d].age + cached'[d].left <= DnsTTL
        <3>1. rollover'[d] = Older(rollover[d]) /\ rollover[d] # None
            BY <1>3, <2>6 DEF DaneTick, Tick, Older
        <3>2. rollover[d] \in Rollover
            BY <1>0, <3>1 DEF TypeOK
        <3>3. /\ rollover'[d].new = rollover[d].new /\ rollover'[d].phase = rollover[d].phase
              /\ rollover'[d].age = (IF rollover[d].age < AgeCap THEN rollover[d].age + 1
                                     ELSE rollover[d].age)
            BY <3>1, <3>2 DEF Older, Rollover
        <3>4. rollover[d].age \in Int /\ AgeCap \in Int /\ DnsTTL <= AgeCap
            BY <3>2, AgeCapBound, TimeAssumption, DnsTTLAssumption DEF Rollover, Fitting
        <3> QED BY <1>0, <2>2, <2>3, <2>5, <3>1, <3>3, <3>4, DnsTTLAssumption DEF EdgeCovered, Covered
    <2> QED BY <2>3, <2>5, <2>6
<1>4. ASSUME NEW e \in Domain, Resolve(e) PROVE EdgeCovered'
    <2>1. UNCHANGED <<cert, rollover, tlsa, served>>
        BY <1>4 DEF Resolve, vars, bucket, edge
    <2>2. \A d \in Domain : cached'[d] = cached[d] \/ cached'[d] = [rrs |-> tlsa[d], left |-> DnsTTL]
        BY <1>0, <1>4 DEF Resolve, DaneTypeOK
    <2>3. \A d \in Domain : UseRollover(d) =>
            /\ cert[d] # None => cert[d] \in tlsa[d]
            /\ rollover[d] # None => rollover[d].new \in tlsa[d]
        BY <1>0 DEF RenewInv, CertPublished, RolloverConsistent
    <2>4. ASSUME NEW d \in Domain, UseRollover(d) PROVE Covered(d)'
        <3>1. CASE cached'[d] = cached[d]
            BY <1>0, <2>1, <2>4, <3>1 DEF EdgeCovered, Covered
        <3>2. CASE cached'[d] = [rrs |-> tlsa[d], left |-> DnsTTL]
            <4>1. cached'[d].rrs = tlsa[d]
                BY <3>2
            <4>2. served[d] # None => served[d] \in tlsa[d]
                BY <1>0, <2>4 DEF EdgeCovered, Covered
            <4> QED BY <2>1, <2>3, <2>4, <4>1, <4>2 DEF Covered
        <3> QED BY <2>2, <3>1, <3>2
    <2> QED BY <2>4 DEF EdgeCovered, UseRollover
<1>5. ASSUME NEW e \in Domain, DueAtEdge(e) PROVE EdgeCovered'
    BY <1>0, <1>5 DEF DueAtEdge, BecomeDue, EdgeCovered, Covered, UseRollover
<1>6. CASE UNCHANGED daneVars
    BY <1>0, <1>6 DEF daneVars, vars, bucket, edge, EdgeCovered, Covered, UseRollover
<1> QED BY <1>1, <1>2, <1>3, <1>4, <1>5, <1>6 DEF DaneNext

-----------------------------------------------------------------------------
(* A step that leaves certificates and indexes alone and stores no         *)
(* rollover, and is not about the index.                                   *)
Quiet ==
    /\ UNCHANGED <<cert, certIndex, index, dirty, known, served, behind>>
    /\ renewed' \in {renewed, TRUE}
    /\ \A d \in Domain : rollover'[d] \in {rollover[d], None}
    /\ pc \notin {"heal", "switch", "saveindex"}
    /\ pc' \notin {"idle", "heal", "switch", "saveindex"}
    /\ pc' \in {"obtain", "storekey", "storestate"} => index[job'.domain] # "valid"

LEMMA QuietKeeps ==
    IndexesAgree /\ BehindTracked /\ Quiet => IndexesAgree' /\ BehindTracked'
<1> SUFFICES ASSUME IndexesAgree, BehindTracked, Quiet
             PROVE  IndexesAgree' /\ BehindTracked'
    OBVIOUS
<1>1. Pending => Pending'
    BY DEF Quiet, Pending
<1>2. IndexesAgree'
    BY <1>1 DEF Quiet, IndexesAgree, UseRollover
<1>3. ASSUME NEW d \in Domain, rollover'[d] # None
      PROVE  rollover'[d] = rollover[d] /\ (OldIsServed(d)' <=> OldIsServed(d))
    BY <1>3 DEF Quiet, OldIsServed
<1>4. BehindTracked'
    BY <1>1, <1>3 DEF Quiet, BehindTracked
<1> QED BY <1>2, <1>4

(* Most of the renewer's calls are such steps.                             *)
LEMMA QuietSteps ==
    ASSUME Fitting, DaneInv, UNCHANGED <<served, known, behind>>,
           \/ \E domains \in SUBSET Domain : StartRun(domains)
           \/ \E d \in Domain : Skip(d) \/ Visit(d)
           \/ (Check /\ pc' # "heal") \/ AddTLSA \/ StorePendingKey
           \/ RequestCert \/ UpdateDNS \/ Wait \/ RequestCertWithKey \/ RemoveTLSA
           \/ DeletePendingKey \/ SaveFailureState \/ ResetRollover \/ DeleteRolloverState
    PROVE  IndexesAgree' /\ BehindTracked'
<1>0. IndexesAgree /\ BehindTracked /\ TypeOK
    BY DEF DaneInv, RenewInv
<1> USE DEF Quiet, bucket
<1>1. CASE \E domains \in SUBSET Domain : StartRun(domains)
    <2>1. renewed \in BOOLEAN /\ ~renewed /\ renewed' = FALSE
        BY <1>0, <1>1 DEF StartRun, IndexesAgree, TypeOK
    <2>2. renewed' = renewed
        BY <2>1, Zenon
    <2>3. Quiet
        BY <1>1, <2>2 DEF StartRun
    <2> QED BY <1>0, <2>3, QuietKeeps
<1>2. CASE \E d \in Domain : Skip(d) \/ Visit(d)
    <2>1. UNCHANGED rollover /\ Quiet
        BY <1>2 DEF Skip, Visit, RecordFailure
    <2> QED BY <1>0, <2>1, QuietKeeps
<1>3. CASE Check /\ pc' # "heal"
    <2>1. Quiet
        BY <1>3 DEF Check, Continue, ClearFailure
    <2> QED BY <1>0, <2>1, QuietKeeps
<1>4. CASE AddTLSA \/ StorePendingKey
    <2>1. job'.domain = job.domain
        BY <1>0, <1>4 DEF AddTLSA, StorePendingKey, TypeOK, Job
    <2>2. UNCHANGED <<cert, certIndex, index, dirty, renewed, rollover>>
        BY <1>4 DEF AddTLSA, StorePendingKey
    <2>3. pc \in {"obtain", "storekey"} /\ pc' \in {"storekey", "storestate", "save"}
        BY <1>4 DEF AddTLSA, StorePendingKey, OrFail, RecordFailure
    <2>4. Quiet
        BY <1>0, <2>1, <2>2, <2>3 DEF IndexesAgree
    <2> QED BY <1>0, <2>4, QuietKeeps
<1>5. CASE RequestCert \/ UpdateDNS \/ Wait
    <2>1. Quiet
        BY <1>5 DEF RequestCert, UpdateDNS, Wait, RecordFailure, ClearFailure, Continue
    <2> QED BY <1>0, <2>1, QuietKeeps
<1>6. CASE RequestCertWithKey \/ RemoveTLSA \/ DeletePendingKey
    <2>1. Quiet
        BY <1>6 DEF RequestCertWithKey, RemoveTLSA, DeletePendingKey, RecordFailure
    <2> QED BY <1>0, <2>1, QuietKeeps
<1>7. CASE SaveFailureState
    <2>1. Quiet
        BY <1>7 DEF SaveFailureState, Continue
    <2> QED BY <1>0, <2>1, QuietKeeps
<1>8. CASE ResetRollover \/ DeleteRolloverState
    <2>1. PICK after \in {rollover[job.domain], None} :
            rollover' = [rollover EXCEPT ![job.domain] = after]
        BY <1>8 DEF ResetRollover, DeleteRolloverState, Written
    <2>2. \A d \in Domain : rollover'[d] \in {rollover[d], None}
        BY <1>0, <2>1 DEF TypeOK
    <2>3. Quiet
        BY <1>8, <2>2 DEF ResetRollover, DeleteRolloverState, Continue, RecordFailure
    <2> QED BY <1>0, <2>3, QuietKeeps
<1> QED BY <1>1, <1>2, <1>3, <1>4, <1>5, <1>6, <1>7, <1>8

(* Without failing writes a dirty index reaches the bucket.                *)
LEMMA SaveIndexSaves ==
    ASSUME Fitting, SaveIndex
    PROVE  /\ ~dirty'
           /\ certIndex' = index \/ (~dirty /\ certIndex' = certIndex)
<1>1. CASE ~dirty /\ UNCHANGED <<certIndex, dirty>>
    <2>1. dirty' = dirty /\ certIndex' = certIndex
        BY <1>1
    <2>2. ~dirty'
        BY <1>1, <2>1
    <2> QED BY <1>1, <2>1, <2>2
<1>2. CASE dirty /\ \E ok \in BOOLEAN :
            certIndex' \in Written(certIndex, index, ok, "s3write") /\ dirty' = ~ok
    BY <1>2 DEF Written, Fitting
<1> QED BY <1>1, <1>2 DEF SaveIndex

(* The steps that are about the index, or store a rollover.                *)
LEMMA LoudSteps ==
    ASSUME Fitting, DaneInv, UNCHANGED <<served, known, behind>>,
           \/ (Check /\ pc' = "heal") \/ Heal \/ StoreRolloverState \/ Store \/ StoreNew
           \/ SwitchPhase \/ EndRun \/ SaveIndexAtEnd \/ Restart
           \/ \E d \in Domain : CertVanishes(d)
    PROVE  IndexesAgree' /\ BehindTracked'
<1>0. /\ TypeOK /\ RolloverConsistent /\ JobConsistent /\ IndexesAgree /\ BehindTracked
      /\ dirty \in BOOLEAN /\ renewed \in BOOLEAN
    BY DEF DaneInv, RenewInv, TypeOK
<1>a. behind \in Nat
    BY SyncWithinAssumption DEF DaneInv, DaneTypeOK
<1> USE DEF bucket
<1>1. CASE Check /\ pc' = "heal"
    <2>1. PICK d \in Domain : d = job.domain
        BY <1>0, <1>1 DEF Check, TypeOK, Job
    <2>2. /\ index' = [index EXCEPT ![d] = None] /\ dirty' = TRUE /\ cert[d] = None
          /\ UNCHANGED <<cert, certIndex, rollover, renewed, job>> /\ pc = "check"
        BY <1>1, <2>1 DEF Check, Continue, ClearFailure
    <2>3. rollover[d] = None
        BY <1>0, <2>1, <2>2 DEF JobConsistent, RolloverConsistent, UseRollover
    <2>4. Pending => Pending'
        BY <1>1, <2>2 DEF Pending
    <2>5. index'[d] # "valid" /\ \A e \in Domain : e # d => index'[e] = index[e]
        BY <1>0, <2>2, NoneAssumption DEF TypeOK, Entry
    <2>6. IndexesAgree'
        BY <1>0, <1>1, <2>1, <2>2, <2>4, <2>5 DEF IndexesAgree, UseRollover
    <2>7. BehindTracked'
        BY <1>0, <2>2, <2>3, <2>4, <2>5 DEF BehindTracked, OldIsServed
    <2> QED BY <2>6, <2>7
<1>2. CASE Heal
    <2>1. /\ pc = "heal" /\ pc' = "obtain" /\ dirty
          /\ UNCHANGED <<cert, rollover, index, renewed, job>>
        BY <1>0, <1>2 DEF Heal, IndexesAgree
    <2>2. certIndex' = index /\ ~dirty'
        BY <1>2, <2>1, SaveIndexSaves DEF Heal
    <2>3. IndexesAgree'
        BY <1>0, <2>1, <2>2 DEF IndexesAgree, UseRollover
    <2>4. BehindTracked'
        BY <1>0, <2>1, <2>2 DEF BehindTracked, OldIsServed
    <2> QED BY <2>3, <2>4
<1>3. CASE StoreRolloverState
    <2>1. PICK d \in Domain : d = job.domain
        BY <1>0, <1>3 DEF StoreRolloverState, TypeOK, Job
    <2> DEFINE started == [phase |-> "pre", old |-> job.old, new |-> job.new, age |-> 0]
    <2>2. /\ rollover' = [rollover EXCEPT ![d] = started] /\ pc' = "next"
          /\ UNCHANGED <<cert, certIndex, index, dirty, renewed>> /\ pc = "storestate"
        BY <1>3, <2>1 DEF StoreRolloverState, Written, Fitting, Continue
    <2>3. /\ index[d] # "valid" /\ job.old \in {cert[d], None} /\ UseRollover(d)
        BY <1>0, <2>1, <2>2 DEF IndexesAgree, JobConsistent
    <2>4. Pending' <=> Pending
        BY <2>2 DEF Pending
    <2>5. IndexesAgree'
        BY <1>0, <2>2, <2>4 DEF IndexesAgree, UseRollover
    <2>6. /\ rollover'[d] = started /\ started.phase = "pre" /\ started.old = job.old
          /\ \A e \in Domain : e # d => rollover'[e] = rollover[e]
        BY <1>0, <2>2 DEF TypeOK
    <2> HIDE DEF started
    <2>7. served[d] # None /\ served[d] = job.old => known[d] # "valid"
        BY <1>0, <2>3 DEF IndexesAgree
    <2>8. BehindTracked'
        BY <1>0, <2>2, <2>3, <2>4, <2>6, <2>7 DEF BehindTracked, OldIsServed
    <2> QED BY <2>5, <2>8
<1>4. CASE Store
    <2>1. PICK d \in Domain : d = job.domain
        BY <1>0, <1>4 DEF Store, TypeOK, Job
    <2>2. /\ cert' = [cert EXCEPT ![d] = job.new]
          /\ index' = [index EXCEPT ![d] = "valid"]
          /\ dirty' = TRUE /\ pc = "store" /\ pc' = "dns"
          /\ UNCHANGED <<certIndex, rollover, renewed, job>>
        BY <1>0, <1>4, <2>1 DEF Store, StoreCertificate, Written, Fitting, OrFail
    <2>3. ~UseRollover(d) /\ rollover[d] = None
        BY <1>0, <2>1, <2>2 DEF JobConsistent, RolloverConsistent
    <2>4. Pending => Pending'
        BY <2>2 DEF Pending
    <2>5. /\ index'[d] = "valid"
          /\ \A e \in Domain : e # d => index'[e] = index[e] /\ cert'[e] = cert[e]
        BY <1>0, <2>2 DEF TypeOK
    <2>6. IndexesAgree'
        BY <1>0, <2>2, <2>3, <2>4, <2>5 DEF IndexesAgree, UseRollover
    <2>7. BehindTracked'
        BY <1>0, <2>2, <2>3, <2>4, <2>5 DEF BehindTracked, OldIsServed
    <2> QED BY <2>6, <2>7
<1>5. CASE StoreNew
    <2>1. PICK d \in Domain : d = job.domain
        BY <1>0, <1>5 DEF StoreNew, TypeOK, Job
    <2>2. /\ cert' = [cert EXCEPT ![d] = job.new]
          /\ index' = [index EXCEPT ![d] = "valid"]
          /\ dirty' = TRUE /\ renewed' = TRUE /\ pc = "storenew" /\ pc' = "switch"
          /\ UNCHANGED <<certIndex, rollover, job>>
        BY <1>0, <1>5, <2>1
        DEF StoreNew, StoreCertificate, Written, Fitting, OrFail, RenewedAfter
    <2>3. Pending'
        BY <2>2 DEF Pending
    <2>4. /\ index'[d] = "valid"
          /\ \A e \in Domain : e # d => index'[e] = index[e] /\ cert'[e] = cert[e]
        BY <1>0, <2>2 DEF TypeOK
    <2>5. IndexesAgree'
        BY <1>0, <2>1, <2>2, <2>3, <2>4 DEF IndexesAgree, UseRollover
    <2>6. BehindTracked'
        BY <1>0, <2>1, <2>2, <2>3, <2>4 DEF BehindTracked, OldIsServed
    <2> QED BY <2>5, <2>6
<1>6. CASE SwitchPhase
    <2>1. PICK d \in Domain : d = job.domain
        BY <1>0, <1>6 DEF SwitchPhase, TypeOK, Job
    <2> DEFINE switched == [phase |-> "switched", old |-> job.old, new |-> job.new, age |-> 0]
    <2>2. /\ rollover' = [rollover EXCEPT ![d] = switched] /\ pc' = "next"
          /\ UNCHANGED <<cert, certIndex, index, dirty, renewed>> /\ pc = "switch"
        BY <1>6, <2>1 DEF SwitchPhase, Written, Fitting, Continue
    <2>3. index[d] = "valid" /\ Pending'
        BY <1>0, <2>1, <2>2 DEF IndexesAgree, Pending
    <2>4. rollover[d] # None /\ job.old = rollover[d].old
        BY <1>0, <2>1, <2>2 DEF JobConsistent
    <2>5. /\ rollover'[d] = switched /\ switched.phase = "switched"
          /\ switched.old = job.old /\ switched.age = 0
          /\ \A e \in Domain : e # d => rollover'[e] = rollover[e]
        BY <1>0, <2>2 DEF TypeOK
    <2> HIDE DEF switched
    <2>6. IndexesAgree'
        BY <1>0, <2>2, <2>3 DEF IndexesAgree, UseRollover
    <2>7. BehindTracked'
        BY <1>0, <1>a, <2>1, <2>2, <2>3, <2>4, <2>5 DEF BehindTracked, OldIsServed
    <2> QED BY <2>6, <2>7
<1>7. CASE EndRun
    <2>1. /\ UNCHANGED <<cert, certIndex, rollover, index, dirty>> /\ ~renewed' /\ pc = "next"
          /\ pc' = (IF renewed THEN "saveindex" ELSE "idle")
        BY <1>7 DEF EndRun
    <2>2. Pending => Pending'
        BY <2>1 DEF Pending
    <2>3. IndexesAgree'
        BY <1>0, <2>1, <2>2 DEF IndexesAgree, UseRollover
    <2>4. BehindTracked'
        BY <1>0, <2>1, <2>2 DEF BehindTracked, OldIsServed
    <2> QED BY <2>3, <2>4
<1>8. CASE SaveIndexAtEnd
    <2>1. /\ UNCHANGED <<cert, rollover, index, renewed>> /\ pc = "saveindex" /\ pc' = "idle"
        BY <1>8 DEF SaveIndexAtEnd
    <2>2. certIndex' = index \/ (~dirty /\ certIndex' = certIndex)
        BY <1>8, SaveIndexSaves DEF SaveIndexAtEnd
    <2>3. ~dirty => ~Pending
        BY DEF Pending
    <2>4. IndexesAgree'
        BY <1>0, <2>1, <2>2, <2>3 DEF IndexesAgree, UseRollover
    <2>5. BehindTracked'
        BY <1>0, <2>1, <2>2, <2>3 DEF BehindTracked, OldIsServed
    <2> QED BY <2>4, <2>5
<1>9. CASE Restart
    <2>1. /\ UNCHANGED <<cert, certIndex, rollover>> /\ index' = certIndex
          /\ ~renewed' /\ pc = "idle" /\ pc' = "idle"
        BY <1>9 DEF Restart, Fitting
    <2>2. ~Pending
        BY <1>0, <2>1 DEF IndexesAgree, Pending
    <2>3. IndexesAgree'
        BY <1>0, <2>1, <2>2 DEF IndexesAgree, UseRollover
    <2>4. BehindTracked'
        BY <1>0, <2>1, <2>2 DEF BehindTracked, IndexesAgree, OldIsServed
    <2> QED BY <2>3, <2>4
<1>10. CASE \E d \in Domain : CertVanishes(d)
    <2>1. /\ UNCHANGED <<certIndex, rollover, index, dirty, renewed, job, pc>>
          /\ \A e \in Domain : cert'[e] \in {cert[e], None}
          /\ pc = "idle"
        BY <1>0, <1>10 DEF CertVanishes, TypeOK, memory
    <2>2. Pending' <=> Pending
        BY <2>1 DEF Pending
    <2>3. IndexesAgree'
        BY <1>0, <2>1, <2>2 DEF IndexesAgree, UseRollover
    <2>4. BehindTracked'
        BY <1>0, <2>1, <2>2 DEF BehindTracked, OldIsServed
    <2> QED BY <2>3, <2>4
<1> QED BY <1>1, <1>2, <1>3, <1>4, <1>5, <1>6, <1>7, <1>8, <1>9, <1>10

-----------------------------------------------------------------------------
(* Sync: an old key that is still served is not fetched again.             *)
LEMMA SyncKeeps ==
    Fitting /\ DaneInv /\ Sync => IndexesAgree' /\ BehindTracked'
<1> SUFFICES ASSUME Fitting, DaneInv, Sync PROVE IndexesAgree' /\ BehindTracked'
    OBVIOUS
<1>0. TypeOK /\ RolloverConsistent /\ IndexesAgree /\ BehindTracked
    BY DEF DaneInv, RenewInv
<1>1. /\ UNCHANGED <<cert, rollover, index, dirty, renewed, job, pc>> /\ pc = "idle"
      /\ behind' = 0 /\ certIndex' = known'
    BY DEF Sync, memory
<1>2. ~Pending
    BY <1>0, <1>1 DEF IndexesAgree, Pending
<1>3. ASSUME NEW d \in Domain
      PROVE  /\ known'[d] \in {None, certIndex[d]}
             /\ \/ served'[d] = None
                \/ served'[d] = cert[d]
                \/ served'[d] = served[d] /\ certIndex[d] = known[d]
    BY DEF Sync, Differs
<1>4. None # "valid"
    BY NoneAssumption DEF Entry
<1>5. IndexesAgree'
    BY <1>0, <1>1, <1>3, <1>4 DEF IndexesAgree, UseRollover
<1>6. ASSUME NEW d \in Domain, rollover[d] # None, OldIsServed(d)'
      PROVE  rollover[d].phase # "switched" /\ known'[d] # "valid"
    <2>1. rollover'[d].old = rollover[d].old /\ served'[d] # None /\ served'[d] = rollover[d].old
        BY <1>1, <1>6 DEF OldIsServed
    <2>2. CASE rollover[d].phase = "switched"
        <3>1. served'[d] # cert[d]
            BY <1>0, <1>6, <2>1, <2>2 DEF RolloverConsistent
        <3>2. OldIsServed(d) /\ certIndex[d] = known[d]
            BY <1>3, <2>1, <3>1 DEF OldIsServed
        <3>3. known[d] # "valid" /\ certIndex[d] = "valid"
            BY <1>0, <1>2, <1>6, <2>2, <3>2 DEF BehindTracked
        <3> QED BY <3>2, <3>3
    <2>3. CASE rollover[d].phase = "pre"
        <3>1. index[d] # "valid"
            BY <1>0, <1>1, <1>6, <2>3 DEF BehindTracked
        <3>2. certIndex[d] # "valid"
            BY <1>0, <1>1, <3>1 DEF IndexesAgree
        <3> QED BY <1>3, <1>4, <2>3, <3>2
    <2> QED BY <1>0, <1>6, <2>2, <2>3 DEF TypeOK, Rollover
<1>7. behind' < SyncWithin
    BY <1>1, SyncWithinAssumption
<1>8. ASSUME NEW d \in Domain, rollover[d] # None, rollover[d].phase = "pre"
      PROVE  index[d] # "valid"
    BY <1>0, <1>1, <1>8 DEF BehindTracked
<1>9. BehindTracked'
    BY <1>1, <1>6, <1>7, <1>8 DEF BehindTracked, OldIsServed
<1> QED BY <1>5, <1>9

(* Time: a proxy that still serves an old key of a switched rollover is    *)
(* behind the bucket's index or the run's, and that for less than          *)
(* SyncWithin.                                                             *)
LEMMA TickKeeps ==
    Fitting /\ DaneInv /\ DaneTick => IndexesAgree' /\ BehindTracked'
<1> SUFFICES ASSUME Fitting, DaneInv, DaneTick PROVE IndexesAgree' /\ BehindTracked'
    OBVIOUS
<1>0. /\ TypeOK /\ IndexesAgree /\ BehindTracked /\ behind \in Int /\ SyncWithin \in Int
      /\ AgeCap \in Int
    BY SyncWithinAssumption, AgeCapBound DEF DaneInv, RenewInv, DaneTypeOK
<1>1. UNCHANGED <<cert, certIndex, index, dirty, renewed, job, pc, served, known>>
    BY DEF DaneTick, Tick
<1>2. (Pending' <=> Pending) /\ (Pending => RunIsAhead)
    BY <1>0, <1>1 DEF IndexesAgree, Pending, RunIsAhead
<1>3. IndexesAgree'
    BY <1>0, <1>1, <1>2 DEF IndexesAgree, UseRollover
<1>4. ASSUME NEW d \in Domain, rollover'[d] # None
      PROVE  /\ rollover[d] # None /\ rollover[d].age \in Int
             /\ rollover'[d].phase = rollover[d].phase /\ rollover'[d].old = rollover[d].old
             /\ rollover'[d].age \in Int /\ rollover'[d].age <= rollover[d].age + 1
    <2>1. rollover'[d] = Older(rollover[d]) /\ rollover[d] # None
        BY <1>4 DEF DaneTick, Tick, Older
    <2>2. rollover[d] \in Rollover
        BY <1>0, <2>1 DEF TypeOK
    <2> QED BY <1>0, <2>1, <2>2 DEF Older, Rollover
<1>5. behind' < SyncWithin /\ (~UpToDate => behind' = behind + 1)
    BY <1>0, SyncWithinAssumption DEF DaneTick
<1>6. ASSUME NEW d \in Domain, rollover'[d] # None, OldIsServed(d)',
             rollover'[d].phase = "switched"
      PROVE  /\ rollover'[d].age <= behind' /\ index[d] = "valid"
             /\ certIndex[d] = "valid" \/ Pending
    <2>1. OldIsServed(d) /\ rollover[d] # None /\ rollover[d].phase = "switched"
        BY <1>1, <1>4, <1>6 DEF OldIsServed
    <2>2. /\ known[d] # "valid" /\ rollover[d].age <= behind
          /\ index[d] = "valid" /\ (certIndex[d] = "valid" \/ Pending)
        BY <1>0, <2>1 DEF BehindTracked
    <2>3. ~UpToDate
        BY <1>2, <2>2 DEF UpToDate
    <2> QED BY <1>0, <1>4, <1>5, <1>6, <2>2, <2>3
<1>7. BehindTracked'
    <2>1. ASSUME NEW d \in Domain, rollover'[d] # None
          PROVE  /\ rollover'[d].phase = "pre" => index[d] # "valid" \/ (pc = "switch" /\ job.domain = d)
                 /\ OldIsServed(d)' => known[d] # "valid"
        BY <1>0, <1>1, <1>4, <2>1 DEF BehindTracked, OldIsServed
    <2> QED BY <1>1, <1>2, <1>5, <1>6, <2>1 DEF BehindTracked, OldIsServed
<1> QED BY <1>3, <1>7

(* A certificate that becomes due was up to date at the proxy.             *)
LEMMA DueKeeps ==
    ASSUME Fitting, DaneInv, NEW d \in Domain, DueAtEdge(d)
    PROVE  IndexesAgree' /\ BehindTracked'
<1>0. TypeOK /\ DaneTypeOK /\ IndexesAgree /\ BehindTracked
    BY DEF DaneInv, RenewInv
<1>1. /\ UNCHANGED <<cert, rollover, dirty, renewed, job, pc, served, behind>>
      /\ pc = "idle" /\ known[d] = certIndex[d]
    BY DEF DueAtEdge, BecomeDue
<1>2. /\ index'[d] # "valid" /\ certIndex'[d] # "valid" /\ known'[d] # "valid"
      /\ \A e \in Domain : e # d =>
            index'[e] = index[e] /\ certIndex'[e] = certIndex[e] /\ known'[e] = known[e]
    BY <1>0 DEF DueAtEdge, BecomeDue, TypeOK, DaneTypeOK
<1>3. ~Pending /\ ~Pending'
    BY <1>0, <1>1 DEF IndexesAgree, Pending
<1>4. IndexesAgree'
    BY <1>0, <1>1, <1>2, <1>3 DEF IndexesAgree, UseRollover
<1>5. BehindTracked'
    BY <1>0, <1>1, <1>2, <1>3 DEF BehindTracked, OldIsServed
<1> QED BY <1>4, <1>5

LEMMA DaneStepInv == Fitting /\ DaneInv /\ [DaneNext]_daneVars => DaneInv'
<1> SUFFICES ASSUME Fitting, DaneInv, [DaneNext]_daneVars PROVE DaneInv'
    OBVIOUS
<1>1. RenewInv' /\ DaneTypeOK' /\ EdgeCovered'
    BY RenewInvKept, TypeKept, CoveredKept DEF DaneInv
<1>2. IndexesAgree' /\ BehindTracked'
    <2>1. CASE Renewer
        <3>1. UNCHANGED <<served, known, behind>>
            BY <2>1, RenewerStep
        <3> QED BY <2>1, <3>1, QuietSteps, LoudSteps DEF Renewer, Step
    <2>2. CASE Sync
        BY <2>2, SyncKeeps
    <2>3. CASE DaneTick
        BY <2>3, TickKeeps
    <2>4. ASSUME NEW d \in Domain, DueAtEdge(d) PROVE IndexesAgree' /\ BehindTracked'
        BY <2>4, DueKeeps
    <2>5. CASE UNCHANGED <<vars, edge>>
        BY <2>5 DEF DaneInv, IndexesAgree, BehindTracked, Pending, OldIsServed, UseRollover,
            vars, edge, bucket, memory
    <2>6. ASSUME NEW d \in Domain, Resolve(d) PROVE IndexesAgree' /\ BehindTracked'
        BY <2>5, <2>6 DEF Resolve
    <2>7. CASE UNCHANGED daneVars
        BY <2>5, <2>7 DEF daneVars
    <2> QED BY <2>1, <2>2, <2>3, <2>4, <2>6, <2>7 DEF DaneNext
<1> QED BY <1>1, <1>2 DEF DaneInv

-----------------------------------------------------------------------------
(* The state of renewer, proxy and resolvers is well-typed, whatever the   *)
(* settings.                                                               *)
THEOREM DaneTypeCorrect == DaneSpec => []DaneTypeOK
<1>1. DaneInit => RenewInv /\ DaneTypeOK
    <2>1. DaneInit => RenewInv
        BY InitInv DEF DaneInit
    <2> QED BY <2>1, SyncWithinAssumption
            DEF DaneInit, EdgeInit, RenewInv, DaneTypeOK, TypeOK
<1> QED BY <1>1, RenewInvKept, TypeKept, PTL DEF DaneSpec

(* Sync, resolvers and time are no step of the rollover or one of Renew's. *)
LEMMA DaneStepSeen ==
    RenewInv /\ [DaneNext]_daneVars =>
        [Phases!Next]_(Phases!vars) /\ SwitchStep /\ WithdrawStep
<1> SUFFICES ASSUME RenewInv, [DaneNext]_daneVars
             PROVE  [Phases!Next]_(Phases!vars) /\ SwitchStep /\ WithdrawStep
    OBVIOUS
<1>1. ASSUME [Next]_vars PROVE [Phases!Next]_(Phases!vars) /\ SwitchStep /\ WithdrawStep
    BY <1>1, StepSeen, StepSwitch, StepWithdraw
<1>2. CASE Sync
    <2>1. UNCHANGED <<cert, tlsa, rollover>>
        BY <1>2 DEF Sync
    <2> QED BY <2>1 DEF Phases!vars, OnRolled, SwitchStep, WithdrawStep
<1>3. CASE Renewer \/ DaneTick \/ (\E d \in Domain : Resolve(d) \/ DueAtEdge(d))
    BY <1>1, <1>3, RenewerStep DEF DaneTick, Resolve, DueAtEdge, Next
<1>4. CASE UNCHANGED daneVars
    BY <1>1, <1>4 DEF daneVars
<1> QED BY <1>2, <1>3, <1>4 DEF DaneNext

(* With sync changing the index behind the renewer's back, the rollover is *)
(* still the one in three phases.                                          *)
THEOREM DaneRollsOver == DaneSpec => ThreePhases
<1>1. DaneInit => RenewInv /\ Phases!Init
    BY InitInv, InitSeen DEF DaneInit
<1> QED BY <1>1, RenewInvKept, DaneStepSeen, PTL DEF DaneSpec, ThreePhases, Phases!Spec

(* It still switches and withdraws only after the waits.                   *)
THEOREM DaneWaits == DaneSpec => SwitchOnlyAfterWait /\ WithdrawOnlyAfterLag
<1>1. DaneInit => RenewInv
    BY InitInv DEF DaneInit
<1> QED
    BY <1>1, RenewInvKept, DaneStepSeen, PTL
    DEF DaneSpec, SwitchOnlyAfterWait, WithdrawOnlyAfterLag

(* The record of a bucket's certificate is always out, and a rollover's    *)
(* private key in the bucket as long as it is needed, with sync as well.   *)
THEOREM DaneStaysPublished == DaneSpec => [](CertPublished /\ PendingKeyMatches)
<1>1. DaneInit => RenewInv
    BY InitInv DEF DaneInit
<1>2. RenewInv => CertPublished /\ PendingKeyMatches
    BY DEF RenewInv
<1> QED BY <1>1, <1>2, RenewInvKept, PTL DEF DaneSpec

(* A client whose resolver holds TLSA records finds the served key in them,*)
(* however time passes in runs and between them, as long as the rest of a  *)
(* run that has switched and the sync after it fit in the lag (Fitting).   *)
THEOREM NoGap == ASSUME Fitting PROVE DaneSpec => []NoDaneGap
<1>1. DaneInit => DaneInv
    BY EdgeInitInv
<1>2. DaneInv /\ [DaneNext]_daneVars => DaneInv'
    BY DaneStepInv
<1>3. DaneInv => NoDaneGap
    BY DEF DaneInv, EdgeCovered, Covered, NoDaneGap
<1> QED BY <1>1, <1>2, <1>3, PTL DEF DaneSpec
=============================================================================
