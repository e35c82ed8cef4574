---------------------------- MODULE RenewProofs ----------------------------
(***************************************************************************)
(* Safety of the rollover for any domains, keys, waits and faults.         *)
(***************************************************************************)
EXTENDS Renew, TLAPS

(* The cap on a phase's age covers both waits.                             *)
LEMMA AgeCapBound == AgeCap \in Nat /\ TlsaWait <= AgeCap
<1>1. ForceFactor * SyncLag \in Nat
    BY TimeAssumption
<1> QED BY <1>1, TimeAssumption DEF AgeCap

(* The empty failure state.                                                *)
LEMMA NoBackoff == None0 \in [Domain -> 0..Backoff]
BY TimeAssumption DEF None0

LEMMA InitInv == Init => RenewInv
<1> SUFFICES ASSUME Init PROVE RenewInv
    OBVIOUS
<1> USE DEF Init, EmptyRun
<1>1. TypeOK
    <2>1. tlsa \in [Domain -> SUBSET Key]
        <3>1. ASSUME NEW d \in Domain PROVE {cert[d]} \ {None} \subseteq Key
            OBVIOUS
        <3> QED BY <3>1
    <2> QED BY <2>1, NoBackoff DEF TypeOK, Phase, NoJob, Entry
<1>2. CertPublished
    BY DEF CertPublished, UseRollover
<1>3. PendingKeyMatches /\ RolloverConsistent
    BY DEF PendingKeyMatches, RolloverConsistent
<1>4. JobConsistent
    BY DEF JobConsistent
<1> QED BY <1>1, <1>2, <1>3, <1>4 DEF RenewInv

(* A write leaves the old or the new value.                                *)
LEMMA WrittenOldOrNew ==
    ASSUME NEW old, NEW new, NEW ok, NEW fault
    PROVE  Written(old, new, ok, fault) \subseteq {old, new}
BY DEF Written

LEMMA SavedIndex ==
    ASSUME TypeOK, SaveIndex
    PROVE  certIndex' \in [Domain -> Entry \cup {None}] /\ dirty' \in BOOLEAN
<1>1. index \in [Domain -> Entry \cup {None}] /\ certIndex \in [Domain -> Entry \cup {None}]
      /\ dirty \in BOOLEAN
    BY DEF TypeOK
<1>2. CASE ~dirty /\ UNCHANGED <<certIndex, dirty>>
    BY <1>1, <1>2
<1>3. CASE \E ok \in BOOLEAN : certIndex' \in Written(certIndex, index, ok, "s3write")
                               /\ dirty' = ~ok
    <2>1. PICK ok \in BOOLEAN : certIndex' \in {certIndex, index} /\ dirty' = ~ok
        BY <1>3, WrittenOldOrNew
    <2>2. certIndex' \in [Domain -> Entry \cup {None}]
        BY <1>1, <2>1
    <2>3. dirty' \in BOOLEAN
        BY <2>1, Zenon
    <2> QED BY <2>2, <2>3
<1> QED BY <1>2, <1>3 DEF SaveIndex

(* Every step of the renewer, of time and of the environment keeps the     *)
(* invariant.                                                              *)
LEMMA StepInv == RenewInv /\ [Next]_vars => RenewInv'
<1> SUFFICES ASSUME RenewInv, [Next]_vars PROVE RenewInv'
    OBVIOUS
<1> USE NoBackoff DEF RenewInv, bucket, memory
<1>1. ASSUME NEW domains \in SUBSET Domain, StartRun(domains) PROVE RenewInv'
    BY <1>1, NoneAssumption
    DEF StartRun, LoadedFailures, TypeOK, CertPublished, PendingKeyMatches,
        RolloverConsistent, JobConsistent, UseRollover, Phase, Entry, NoJob, Job, Rollover
<1>2. ASSUME NEW d \in Domain, Skip(d) PROVE RenewInv'
    BY <1>2, TimeAssumption, NoneAssumption
    DEF Skip, TypeOK, CertPublished, PendingKeyMatches, RolloverConsistent, JobConsistent,
        UseRollover, Phase, Entry, NoJob, Job, Rollover
<1>3. ASSUME NEW d \in Domain, Visit(d) PROVE RenewInv'
    BY <1>3, TimeAssumption, NoneAssumption
    DEF Visit, RecordFailure, TypeOK, CertPublished, PendingKeyMatches,
        RolloverConsistent, JobConsistent, UseRollover, Phase, Entry, NoJob, Job, Rollover
<1>4. ASSUME NEW d \in Domain, BecomeDue(d) PROVE RenewInv'
    BY <1>4, NoneAssumption
    DEF BecomeDue, TypeOK, CertPublished, PendingKeyMatches, RolloverConsistent,
        JobConsistent, UseRollover, Phase, Entry, NoJob, Job, Rollover
<1>5. ASSUME NEW d \in Domain, CertVanishes(d) PROVE RenewInv'
    BY <1>5, NoneAssumption
    DEF CertVanishes, TypeOK, CertPublished, PendingKeyMatches, RolloverConsistent,
        JobConsistent, UseRollover, Phase, Entry, NoJob, Job, Rollover
<1>6. CASE Check
    <2>1. job \in Job /\ job.domain \in Domain
        BY <1>6 DEF Check, TypeOK, Job
    <2>2. PICK d \in Domain : d = job.domain
        BY <2>1
    <2>3. UNCHANGED <<cert, certIndex, failures, rollover, pendingKey, tlsa, renewed, todo>>
        BY <1>6 DEF Check
    <2>4. CASE index[d] # "valid" /\ pc' = "obtain" /\ UNCHANGED <<index, dirty, backoff,
        job>>
        BY <1>6, <2>1, <2>3, <2>4 DEF Check, TypeOK, CertPublished, PendingKeyMatches,
            RolloverConsistent, JobConsistent, NoJob, Phase
    <2>5. CASE index[d] = "valid" /\ Continue /\ UNCHANGED <<index, dirty>>
        BY <2>3, <2>5 DEF Continue, TypeOK, CertPublished, PendingKeyMatches,
            RolloverConsistent, JobConsistent, NoJob, Phase
    <2>6. CASE index[d] = "valid" /\ ClearFailure(d) /\ UNCHANGED <<index, dirty, job>>
        BY <2>1, <2>3, <2>6, TimeAssumption DEF ClearFailure, TypeOK, CertPublished,
            PendingKeyMatches,
            RolloverConsistent, JobConsistent, NoJob, Phase
    <2>7. CASE /\ index' = [index EXCEPT ![d] = None] /\ dirty' = TRUE
               /\ pc' = "heal" /\ UNCHANGED <<backoff, job>>
        BY <1>6, <2>1, <2>3, <2>7 DEF Check, TypeOK, CertPublished, PendingKeyMatches,
            RolloverConsistent, JobConsistent, NoJob, Phase
    <2> QED BY <1>6, <2>2, <2>4, <2>5, <2>6, <2>7 DEF Check
<1>7. CASE Heal
    <2>1. TypeOK /\ SaveIndex
        BY <1>7 DEF Heal
    <2>2. certIndex' \in [Domain -> Entry \cup {None}] /\ dirty' \in BOOLEAN
        BY <2>1, SavedIndex
    <2> QED BY <1>7, <2>2, NoneAssumption
        DEF Heal, TypeOK, CertPublished, PendingKeyMatches, RolloverConsistent,
            JobConsistent, UseRollover, Phase, NoJob, Job, Rollover
<1>8. CASE AddTLSA
    <2>1. job \in Job /\ job.domain \in Domain
        BY <1>8 DEF AddTLSA, TypeOK, Job
    <2>2. PICK d \in Domain : d = job.domain
        BY <2>1
    <2>3. UseRollover(d) /\ rollover[d] = None
        BY <1>8, <2>2 DEF AddTLSA, JobConsistent, UseRollover
    <2>4a. PICK key \in FreshKeys(d), ok \in BOOLEAN,
                old \in {cert[d]} \cup (IF "s3read" \in Faults THEN {None} ELSE {}) :
            /\ \E after \in Written(tlsa[d], Published(d, key), ok, "dns") :
                  tlsa' = [tlsa EXCEPT ![d] = after]
            /\ \/ /\ ok
                  /\ job' = [job EXCEPT !.old = old, !.new = key]
                  /\ pc' = "storekey" /\ UNCHANGED backoff
               \/ /\ ~ok
                  /\ RecordFailure(d) /\ UNCHANGED job
        BY <1>8, <2>2 DEF AddTLSA
    <2>4b. PICK after \in Written(tlsa[d], Published(d, key), ok, "dns") :
                  tlsa' = [tlsa EXCEPT ![d] = after]
        BY <2>4a
    <2>4. /\ key \in Key /\ old \in Key \cup {None}
          /\ after \in {tlsa[d], tlsa[d] \cup {key}}
          /\ key # cert[d] /\ old \in {cert[d], None}
          /\ ok => after = tlsa[d] \cup {key}
        BY <2>4a, <2>4b DEF FreshKeys, Published, Written, TypeOK
    <2>5. UNCHANGED <<bucket, index, dirty, renewed, todo>>
        BY <1>8 DEF AddTLSA
    <2>6. tlsa[d] \subseteq tlsa'[d] /\ \A e \in Domain : e # d => tlsa'[e] = tlsa[e]
        BY <2>4, <2>4b DEF TypeOK
    <2>7. TypeOK'
        <3>1. job' \in Job
            BY <2>1, <2>4, <2>4a DEF Job
        <3>2. tlsa' \in [Domain -> SUBSET Key]
            BY <2>4, <2>4b DEF TypeOK
        <3>3. backoff' \in [Domain -> 0..Backoff] /\ pc' \in {"storekey", "save"}
            BY <2>4a, TimeAssumption DEF TypeOK, RecordFailure
        <3> QED BY <2>5, <3>1, <3>2, <3>3 DEF TypeOK, Phase
    <2>8. CertPublished' /\ PendingKeyMatches' /\ RolloverConsistent'
        BY <2>5, <2>6 DEF CertPublished, PendingKeyMatches, RolloverConsistent
    <2>9. JobConsistent'
        <3>1. CASE ok
            <4>1. job'.domain = d /\ job'.new = key /\ job'.old = old /\ pc' = "storekey"
                BY <2>1, <2>2, <2>4, <2>4a, <3>1 DEF Job
            <4>2. key \in tlsa'[d]
                BY <2>4, <2>4b, <3>1 DEF TypeOK
            <4>3. old # key
                BY <2>4, NoneAssumption
            <4> QED BY <2>3, <2>5, <4>1, <4>2, <4>3 DEF JobConsistent, UseRollover
        <3>2. CASE ~ok
            BY <2>4a, <3>2 DEF JobConsistent, RecordFailure
        <3> QED BY <3>1, <3>2
    <2> QED BY <2>7, <2>8, <2>9
<1>9. CASE StorePendingKey
    <2>1. job \in Job /\ job.domain \in Domain
        BY <1>9 DEF StorePendingKey, TypeOK, Job
    <2>2. PICK d \in Domain : d = job.domain
        BY <2>1
    <2>3. /\ UseRollover(d) /\ rollover[d] = None /\ job.new \in tlsa[d]
          /\ job.old # job.new /\ job.old \in {cert[d], None}
        BY <1>9, <2>2 DEF StorePendingKey, JobConsistent, UseRollover
    <2>4. job.new \in Key
        BY <2>3 DEF TypeOK
    <2>5. PICK ok \in BOOLEAN, after \in {pendingKey[d], job.new} :
            /\ pendingKey' = [pendingKey EXCEPT ![d] = after]
            /\ ok => after = job.new
            /\ OrFail(ok, "storestate", d)
        BY <1>9, <2>2 DEF StorePendingKey, Written
    <2>6. UNCHANGED <<cert, certIndex, failures, rollover, tlsa, index, dirty, renewed,
        todo, job>>
        BY <1>9 DEF StorePendingKey
    <2>7. TypeOK'
        BY <2>1, <2>4, <2>5, <2>6, TimeAssumption DEF TypeOK, OrFail, RecordFailure, Phase
    <2>8. CertPublished' /\ RolloverConsistent'
        BY <2>6 DEF CertPublished, RolloverConsistent
    <2>9. PendingKeyMatches'
        BY <2>3, <2>5, <2>6 DEF PendingKeyMatches, TypeOK
    <2>10. JobConsistent'
        BY <2>2, <2>3, <2>5, <2>6 DEF JobConsistent, OrFail, RecordFailure, TypeOK
    <2> QED BY <2>7, <2>8, <2>9, <2>10
<1>10. CASE StoreRolloverState
    BY <1>10, WrittenOldOrNew, TimeAssumption, AgeCapBound, NoneAssumption
    DEF StoreRolloverState, RecordFailure, Continue, TypeOK, CertPublished,
        PendingKeyMatches, RolloverConsistent, JobConsistent, UseRollover, Phase, Entry,
        NoJob, Job, Rollover
<1>11. CASE RequestCert
    BY <1>11, TimeAssumption, NoneAssumption
    DEF RequestCert, RecordFailure, FreshKeys, TypeOK, CertPublished, PendingKeyMatches,
        RolloverConsistent, JobConsistent, UseRollover, Phase, Entry, NoJob, Job, Rollover
<1>12. CASE Store
    BY <1>12, WrittenOldOrNew, TimeAssumption, NoneAssumption
    DEF Store, OrFail, RecordFailure, StoreCertificate, TypeOK, CertPublished,
        PendingKeyMatches, RolloverConsistent, JobConsistent, UseRollover, Phase, Entry,
        NoJob, Job, Rollover
<1>13. CASE UpdateDNS
    BY <1>13, WrittenOldOrNew, TimeAssumption, NoneAssumption
    DEF UpdateDNS, ClearFailure, TypeOK, CertPublished, PendingKeyMatches,
        RolloverConsistent, JobConsistent, UseRollover, Phase, Entry, NoJob, Job, Rollover
<1>14. CASE ResetRollover
    BY <1>14, WrittenOldOrNew, NoneAssumption
    DEF ResetRollover, Continue, TypeOK, CertPublished, PendingKeyMatches,
        RolloverConsistent, JobConsistent, UseRollover, Phase, Entry, NoJob, Job, Rollover
<1>15. CASE Wait
    BY <1>15, AgeCapBound, NoneAssumption
    DEF Wait, Continue, Waiting, TypeOK, CertPublished, PendingKeyMatches,
        RolloverConsistent, JobConsistent, UseRollover, Phase, Entry, NoJob, Job, Rollover
<1>16. CASE RequestCertWithKey
    BY <1>16, TimeAssumption, AgeCapBound, NoneAssumption
    DEF RequestCertWithKey, RecordFailure, Waiting, TypeOK, CertPublished,
        PendingKeyMatches, RolloverConsistent, JobConsistent, UseRollover, Phase, Entry,
        NoJob, Job, Rollover
<1>17. CASE StoreNew
    <2>1. job \in Job /\ job.domain \in Domain
        BY <1>17 DEF StoreNew, TypeOK, Job
    <2>2. PICK d \in Domain : d = job.domain
        BY <2>1
    <2>3. /\ rollover[d] # None /\ rollover[d].phase = "pre" /\ rollover[d].age >= TlsaWait
          /\ job.old = rollover[d].old /\ job.new = rollover[d].new
        BY <1>17, <2>2 DEF StoreNew, JobConsistent
    <2>4. job.new \in tlsa[d] /\ job.new \in Key
        BY <2>3 DEF RolloverConsistent, TypeOK
    <2>5. PICK ok \in BOOLEAN, after \in {cert[d], job.new} :
            /\ cert' = [cert EXCEPT ![d] = after]
            /\ ok => after = job.new
            /\ index' = IF ok THEN [index EXCEPT ![d] = "valid"] ELSE index
            /\ dirty' \in BOOLEAN /\ renewed' \in BOOLEAN
            /\ OrFail(ok, "switch", d)
        BY <1>17, <2>2 DEF StoreNew, StoreCertificate, RenewedAfter, Written, TypeOK
    <2>6. UNCHANGED <<certIndex, failures, rollover, pendingKey, tlsa, todo, job>>
        BY <1>17 DEF StoreNew, StoreCertificate
    <2>7. TypeOK'
        BY <2>1, <2>4, <2>5, <2>6, TimeAssumption
        DEF TypeOK, OrFail, RecordFailure, Phase, Entry
    <2>8. CertPublished'
        BY <2>4, <2>5, <2>6 DEF CertPublished, UseRollover, TypeOK
    <2>9. PendingKeyMatches'
        BY <2>6 DEF PendingKeyMatches
    <2>10. RolloverConsistent'
        BY <2>3, <2>5, <2>6 DEF RolloverConsistent, UseRollover, TypeOK
    <2>11. JobConsistent'
        BY <2>2, <2>3, <2>5, <2>6 DEF JobConsistent, OrFail, RecordFailure, TypeOK
    <2> QED BY <2>7, <2>8, <2>9, <2>10, <2>11
<1>18. CASE SwitchPhase
    <2>1. job \in Job /\ job.domain \in Domain
        BY <1>18 DEF SwitchPhase, TypeOK, Job
    <2>2. PICK d \in Domain : d = job.domain
        BY <2>1
    <2> DEFINE switched == [phase |-> "switched", old |-> job.old, new |-> job.new, age
        |-> 0]
    <2>3. /\ rollover[d] # None /\ cert[d] = rollover[d].new
          /\ job.old = rollover[d].old /\ job.new = rollover[d].new
        BY <1>18, <2>2 DEF SwitchPhase, JobConsistent
    <2>4. rollover[d] \in Rollover
        BY <2>3 DEF TypeOK
    <2>5. /\ switched \in Rollover /\ switched.phase = "switched"
          /\ switched.old = rollover[d].old /\ switched.new = rollover[d].new
        <3>1. 0 \in 0..AgeCap
            BY AgeCapBound
        <3>2. rollover[d].old \in Key \cup {None} /\ rollover[d].new \in Key
            BY <2>4 DEF Rollover
        <3> QED BY <2>3, <3>1, <3>2 DEF Rollover
    <2>6a. PICK ok \in BOOLEAN :
            /\ \E v \in Written(rollover[d], switched, ok, "s3write") :
                  rollover' = [rollover EXCEPT ![d] = v]
            /\ \/ ok /\ Continue
               \/ ~ok /\ RecordFailure(d) /\ UNCHANGED job
        BY <1>18, <2>2 DEF SwitchPhase
    <2> HIDE DEF switched
    <2>6. PICK after \in {rollover[d], switched} : rollover' = [rollover EXCEPT ![d] =
        after]
        BY <2>6a DEF Written
    <2>6b. \/ pc' = "next" /\ job' = NoJob /\ backoff' = backoff
           \/ RecordFailure(d) /\ job' = job
        BY <2>6a DEF Continue
    <2>7. UNCHANGED <<cert, certIndex, failures, pendingKey, tlsa, index, dirty, renewed,
        todo>>
        BY <1>18 DEF SwitchPhase
    <2>8. rollover'[d] = after /\ \A e \in Domain : e # d => rollover'[e] = rollover[e]
        BY <2>6 DEF TypeOK
    <2>9. TypeOK'
        <3>1. rollover' \in [Domain -> Rollover \cup {None}]
            BY <2>4, <2>5, <2>6 DEF TypeOK
        <3>2. backoff' \in [Domain -> 0..Backoff]
            BY <2>6b, TimeAssumption DEF TypeOK, RecordFailure
        <3>3. \/ pc' = "next" /\ job' = NoJob
              \/ pc' = "save" /\ job' = job
            BY <2>6b DEF RecordFailure
        <3> QED BY <2>1, <2>7, <3>1, <3>2, <3>3 DEF TypeOK, Phase
    <2>10. CertPublished'
        BY <2>7 DEF CertPublished
    <2>11. PendingKeyMatches'
        BY <2>3, <2>5, <2>7, <2>8 DEF PendingKeyMatches
    <2>12. RolloverConsistent'
        BY <2>3, <2>5, <2>6, <2>7, <2>8 DEF RolloverConsistent
    <2>13. JobConsistent'
        BY <2>6b DEF JobConsistent, RecordFailure
    <2> QED BY <2>9, <2>10, <2>11, <2>12, <2>13
<1>19. CASE RemoveTLSA
    BY <1>19, WrittenOldOrNew, TimeAssumption, AgeCapBound, NoneAssumption
    DEF RemoveTLSA, RecordFailure, Waiting, Ancient, TypeOK, CertPublished,
        PendingKeyMatches, RolloverConsistent, JobConsistent, UseRollover, Phase, Entry,
        NoJob, Job, Rollover
<1>20. CASE DeletePendingKey
    BY <1>20, WrittenOldOrNew, NoneAssumption
    DEF DeletePendingKey, TypeOK, CertPublished, PendingKeyMatches, RolloverConsistent,
        JobConsistent, UseRollover, Phase, Entry, NoJob, Job, Rollover
<1>21. CASE DeleteRolloverState
    BY <1>21, WrittenOldOrNew, TimeAssumption, NoneAssumption
    DEF DeleteRolloverState, RecordFailure, Continue, TypeOK, CertPublished,
        PendingKeyMatches, RolloverConsistent, JobConsistent, UseRollover, Phase, Entry,
        NoJob, Job, Rollover
<1>22. CASE SaveFailureState
    BY <1>22, WrittenOldOrNew, NoneAssumption
    DEF SaveFailureState, Continue, TypeOK, CertPublished, PendingKeyMatches,
        RolloverConsistent, JobConsistent, UseRollover, Phase, Entry, NoJob, Job, Rollover
<1>23. CASE EndRun
    BY <1>23, NoneAssumption
    DEF EndRun, TypeOK, CertPublished, PendingKeyMatches, RolloverConsistent,
        JobConsistent, UseRollover, Phase, Entry, NoJob, Job, Rollover
<1>24. CASE SaveIndexAtEnd
    <2>1. TypeOK /\ SaveIndex
        BY <1>24 DEF SaveIndexAtEnd
    <2>2. certIndex' \in [Domain -> Entry \cup {None}] /\ dirty' \in BOOLEAN
        BY <2>1, SavedIndex
    <2> QED BY <1>24, <2>2, NoneAssumption
        DEF SaveIndexAtEnd, TypeOK, CertPublished, PendingKeyMatches, RolloverConsistent,
            JobConsistent, UseRollover, Phase, NoJob, Job, Rollover
<1>25. CASE Restart
    BY <1>25, NoneAssumption
    DEF Restart, TypeOK, CertPublished, PendingKeyMatches, RolloverConsistent,
        JobConsistent, UseRollover, Phase, Entry, NoJob, Job, Rollover
<1>26. CASE Tick
    BY <1>26, TimeAssumption, AgeCapBound, NoneAssumption
    DEF Tick, Aged, Older, TypeOK, CertPublished, PendingKeyMatches, RolloverConsistent,
        JobConsistent, UseRollover, Phase, Entry, NoJob, Job, Rollover
<1>27. CASE UNCHANGED vars
    BY <1>27 DEF vars, TypeOK, CertPublished, PendingKeyMatches, RolloverConsistent,
        JobConsistent, UseRollover
<1> QED
    BY <1>1, <1>2, <1>3, <1>4, <1>5, <1>6, <1>7, <1>8, <1>9, <1>10, <1>11, <1>12, <1>13,
        <1>14, <1>15, <1>16, <1>17, <1>18, <1>19, <1>20, <1>21, <1>22, <1>23, <1>24,
        <1>25, <1>26, <1>27 DEF Next, Step

(* Only three actions change a certificate, and only three the records.    *)
LEMMA CertChanges ==
    [Next]_vars => cert' = cert \/ Store \/ StoreNew \/ \E d \in Domain : CertVanishes(d)
BY DEF Next, Step, vars, bucket, memory, StartRun, Skip, Visit, Check, Heal, AddTLSA,
    StorePendingKey, StoreRolloverState, RequestCert, UpdateDNS, ResetRollover, Wait,
    RequestCertWithKey, SwitchPhase, RemoveTLSA, DeletePendingKey, DeleteRolloverState,
    SaveFailureState, EndRun, SaveIndexAtEnd, Restart, Tick, BecomeDue, StoreCertificate

LEMMA TlsaChanges ==
    [Next]_vars => tlsa' = tlsa \/ AddTLSA \/ UpdateDNS \/ RemoveTLSA
BY DEF Next, Step, vars, bucket, memory, StoreCertificate, StartRun, Skip, Visit, Check,
    Heal, StorePendingKey, StoreRolloverState, RequestCert, Store, ResetRollover, Wait,
    RequestCertWithKey, StoreNew, SwitchPhase, DeletePendingKey, DeleteRolloverState,
    SaveFailureState, EndRun, SaveIndexAtEnd, Restart, Tick, BecomeDue, CertVanishes

(* A rollover domain switches to the pre-published key after the wait: the *)
(* direct path never stores for such a domain (JobConsistent).             *)
LEMMA StepSwitch == RenewInv /\ [Next]_vars => SwitchStep
<1> SUFFICES ASSUME RenewInv, [Next]_vars, NEW d \in Domain,
                    UseRollover(d), cert'[d] # cert[d], cert'[d] # None
             PROVE  /\ rollover[d] # None
                    /\ rollover[d].phase = "pre" /\ rollover[d].age >= TlsaWait
                    /\ cert'[d] = rollover[d].new
    BY DEF SwitchStep
<1>1. CASE cert' = cert
    BY <1>1
<1>2. CASE \E e \in Domain : CertVanishes(e)
    BY <1>2 DEF CertVanishes, RenewInv, TypeOK
<1>3. CASE Store
    <2>1. job.domain \in Domain /\ ~UseRollover(job.domain)
        BY <1>3 DEF Store, RenewInv, TypeOK, Job, JobConsistent
    <2>2. PICK after : cert' = [cert EXCEPT ![job.domain] = after]
        BY <1>3 DEF Store, StoreCertificate
    <2> QED BY <2>1, <2>2 DEF RenewInv, TypeOK
<1>4. CASE StoreNew
    <2>1. PICK after \in {cert[job.domain], job.new} : cert' = [cert EXCEPT ![job.domain]
        = after]
        BY <1>4 DEF StoreNew, StoreCertificate, Written
    <2>2. d = job.domain /\ cert'[d] = job.new
        BY <2>1 DEF RenewInv, TypeOK
    <2> QED BY <1>4, <2>2 DEF StoreNew, RenewInv, JobConsistent
<1> QED BY <1>1, <1>2, <1>3, <1>4, CertChanges

(* Only retryRemoveTLSA withdraws, and only the old record.                *)
LEMMA StepWithdraw == RenewInv /\ [Next]_vars => WithdrawStep
<1> SUFFICES ASSUME RenewInv, [Next]_vars, NEW d \in Domain,
                    UseRollover(d), ~(tlsa[d] \subseteq tlsa'[d])
             PROVE  /\ rollover[d] # None
                    /\ rollover[d].phase = "switched" /\ rollover[d].age >= SyncLag
                    /\ cert[d] \notin tlsa[d] \ tlsa'[d]
    BY DEF WithdrawStep
<1>1. CASE tlsa' = tlsa
    BY <1>1
<1>2. CASE AddTLSA
    <2>1. PICK key, after : /\ after \in {tlsa[job.domain], tlsa[job.domain] \cup {key}}
                            /\ tlsa' = [tlsa EXCEPT ![job.domain] = after]
        BY <1>2 DEF AddTLSA, Written, Published
    <2> QED BY <2>1 DEF RenewInv, TypeOK
<1>3. CASE UpdateDNS
    <2>1. ~UseRollover(job.domain)
        BY <1>3 DEF UpdateDNS, RenewInv, JobConsistent
    <2>2. PICK after : tlsa' = [tlsa EXCEPT ![job.domain] = after]
        BY <1>3 DEF UpdateDNS
    <2> QED BY <2>1, <2>2 DEF RenewInv, TypeOK
<1>4. CASE RemoveTLSA
    <2>1. PICK after \in {tlsa[job.domain], tlsa[job.domain] \ {job.old}} :
            tlsa' = [tlsa EXCEPT ![job.domain] = after]
        BY <1>4 DEF RemoveTLSA, Written
    <2>2. d = job.domain /\ tlsa[d] \ tlsa'[d] \subseteq {job.old}
        BY <2>1 DEF RenewInv, TypeOK
    <2>3. /\ rollover[d] # None /\ rollover[d].phase = "switched" /\ ~Waiting(d)
          /\ job.old = rollover[d].old
        BY <1>4, <2>2 DEF RemoveTLSA, RenewInv, JobConsistent
    <2>4. rollover[d].age >= SyncLag
        <3>1. rollover[d].age \in Int
            BY <2>3, AgeCapBound DEF RenewInv, TypeOK, Rollover
        <3> QED BY <2>3, <3>1, TimeAssumption DEF Waiting
    <2>5. cert[d] # job.old
        <3>1. rollover[d].old # rollover[d].new /\ cert[d] \in {rollover[d].new, None}
            BY <2>3 DEF RenewInv, RolloverConsistent
        <3>2. CASE cert[d] = None
            BY <3>2, <2>2, NoneAssumption DEF RenewInv, TypeOK
        <3> QED BY <2>3, <3>1, <3>2
    <2> QED BY <2>2, <2>3, <2>4, <2>5
<1> QED BY <1>1, <1>2, <1>3, <1>4, TlsaChanges

(* The renewer keeps its state well-typed.                                 *)
THEOREM TypeCorrect == Spec => []TypeOK
<1>1. RenewInv => TypeOK
    BY DEF RenewInv
<1> QED BY InitInv, StepInv, <1>1, PTL DEF Spec

(* The TLSA record of the stored certificate is always in DNS.             *)
THEOREM CertAlwaysPublished == Spec => []CertPublished
<1>1. RenewInv => CertPublished
    BY DEF RenewInv
<1> QED BY InitInv, StepInv, <1>1, PTL DEF Spec

(* A rollover that waits for its TTL has its private key in the bucket.    *)
THEOREM PendingKeyKept == Spec => []PendingKeyMatches
<1>1. RenewInv => PendingKeyMatches
    BY DEF RenewInv
<1> QED BY InitInv, StepInv, <1>1, PTL DEF Spec

(* What a stored rollover state promises about DNS and the certificate     *)
(* holds whatever fails.                                                   *)
THEOREM RolloverStaysConsistent == Spec => []RolloverConsistent
<1>1. RenewInv => RolloverConsistent
    BY DEF RenewInv
<1> QED BY InitInv, StepInv, <1>1, PTL DEF Spec

(* What the renewer is doing agrees with what is stored.                   *)
THEOREM JobStaysConsistent == Spec => []JobConsistent
<1>1. RenewInv => JobConsistent
    BY DEF RenewInv
<1> QED BY InitInv, StepInv, <1>1, PTL DEF Spec

(* The certificate of a rollover domain changes only after the wait.       *)
THEOREM SwitchAfterWait == Spec => SwitchOnlyAfterWait
BY InitInv, StepInv, StepSwitch, PTL DEF Spec, SwitchOnlyAfterWait

(* A TLSA record is withdrawn only after the sync lag.                     *)
THEOREM WithdrawAfterLag == Spec => WithdrawOnlyAfterLag
BY InitInv, StepInv, StepWithdraw, PTL DEF Spec, WithdrawOnlyAfterLag

-----------------------------------------------------------------------------
(* What is unsaved stays tracked: the steps that write the bucket's index  *)
(* or the copy do it, and those that count, or end a visit or a run, follow*)
(* them.                                                                   *)
LEMMA StepUnsaved == TypeOK /\ UnsavedTracked /\ [Next]_vars => UnsavedTracked'
<1> SUFFICES ASSUME TypeOK, UnsavedTracked, [Next]_vars PROVE UnsavedTracked'
    OBVIOUS
<1> DEFINE Remembered ==
        /\ ~dirty' => index' = certIndex'
        /\ "s3write" \notin Faults => ~dirty'
<1>1. ASSUME SaveIndex, UNCHANGED index PROVE Remembered
    <2>1. CASE ~dirty /\ UNCHANGED <<certIndex, dirty>>
        BY <1>1, <2>1 DEF UnsavedTracked
    <2>2. ASSUME NEW ok \in BOOLEAN, certIndex' \in Written(certIndex, index, ok, "s3write"),
                 dirty' = ~ok
          PROVE  Remembered
        <3>1. CASE ok
            <4>1. certIndex' = index
                BY <2>2, <3>1 DEF Written
            <4> QED BY <1>1, <2>2, <3>1, <4>1, Zenon
        <3>2. CASE ~ok
            <4>1. "s3write" \in Faults
                BY <2>2, <3>2 DEF Written
            <4> QED BY <2>2, <3>2, <4>1, Zenon
        <3> QED BY <3>1, <3>2
    <2> QED BY <1>1, <2>1, <2>2, Zenon DEF SaveIndex
<1>2. ASSUME NEW ok \in BOOLEAN, StoreCertificate(ok)
      PROVE  /\ ok => dirty'
             /\ ~ok => UNCHANGED <<index, certIndex, dirty>>
    <2>1. CASE ok
        BY <1>2, <2>1, Zenon DEF StoreCertificate
    <2>2. CASE ~ok
        <3>1. dirty \in BOOLEAN /\ dirty' = (dirty \/ ok) /\ index' = index /\ certIndex' = certIndex
            BY <1>2, <2>2 DEF StoreCertificate, TypeOK
        <3>2. dirty' = dirty
            BY <2>2, <3>1
        <3> QED BY <2>2, <3>1, <3>2, Zenon
    <2> QED BY <2>1, <2>2
<1> USE DEF UnsavedTracked, bucket, memory, Continue, RecordFailure, ClearFailure, OrFail
<1>3. ASSUME NEW domains \in SUBSET Domain, StartRun(domains) PROVE UnsavedTracked'
    BY <1>3 DEF StartRun
<1>4. ASSUME NEW d \in Domain, Skip(d) \/ Visit(d) PROVE UnsavedTracked'
    BY <1>4 DEF Skip, Visit
<1>5. CASE Check
    BY <1>5 DEF Check
<1>6. CASE Heal
    <2>1. Remembered /\ pc' = "obtain" /\ renewed' = renewed
        BY <1>1, <1>6 DEF Heal
    <2> QED BY <2>1
<1>7. CASE AddTLSA \/ StorePendingKey \/ StoreRolloverState \/ RequestCert
    <2>1. /\ UNCHANGED <<index, certIndex, dirty, renewed>>
          /\ pc \in {"obtain", "storekey", "storestate"} /\ pc' \notin {"idle", "saveindex"}
        <3>1. CASE AddTLSA
            BY <3>1 DEF AddTLSA
        <3>2. CASE StorePendingKey \/ StoreRolloverState \/ RequestCert
            BY <3>2 DEF StorePendingKey, StoreRolloverState, RequestCert
        <3> QED BY <1>7, <3>1, <3>2
    <2> QED BY <2>1
<1>8. CASE Store
    <2>1. PICK ok \in BOOLEAN : StoreCertificate(ok) /\ OrFail(ok, "dns", job.domain)
        BY <1>8 DEF Store
    <2>2. CASE ok
        <3>1. dirty' /\ pc' = "dns"
            BY <1>2, <2>1, <2>2
        <3> QED BY <3>1
    <2>3. CASE ~ok
        <3>1. UNCHANGED <<index, certIndex, dirty, renewed>> /\ pc' = "save" /\ pc = "store"
            BY <1>2, <1>8, <2>1, <2>3 DEF Store
        <3> QED BY <3>1
    <2> QED BY <2>2, <2>3
<1>9. CASE UpdateDNS
    BY <1>9 DEF UpdateDNS
<1>10. CASE ResetRollover \/ Wait \/ RequestCertWithKey \/ SwitchPhase
    BY <1>10 DEF ResetRollover, Wait, RequestCertWithKey, SwitchPhase
<1>11. CASE StoreNew
    BY <1>2, <1>11 DEF StoreNew, RenewedAfter
<1>12. CASE RemoveTLSA \/ DeletePendingKey \/ DeleteRolloverState \/ SaveFailureState
    BY <1>12 DEF RemoveTLSA, DeletePendingKey, DeleteRolloverState, SaveFailureState
<1>13. CASE EndRun
    BY <1>13 DEF EndRun
<1>14. CASE SaveIndexAtEnd
    <2>1. Remembered /\ pc = "saveindex" /\ renewed' = renewed
        BY <1>1, <1>14 DEF SaveIndexAtEnd
    <2> QED BY <2>1
<1>15. CASE Restart \/ Tick
    BY <1>15 DEF Restart, Tick
<1>16. ASSUME NEW d \in Domain, BecomeDue(d) PROVE UnsavedTracked'
    BY <1>16 DEF BecomeDue, TypeOK
<1>17. ASSUME NEW d \in Domain, CertVanishes(d) PROVE UnsavedTracked'
    BY <1>17 DEF CertVanishes
<1>18. CASE UNCHANGED vars
    BY <1>18 DEF vars
<1> QED
    BY <1>3, <1>4, <1>5, <1>6, <1>7, <1>8, <1>9, <1>10, <1>11, <1>12, <1>13, <1>14,
       <1>15, <1>16, <1>17, <1>18 DEF Next, Step

(* What of the index is not in the bucket is remembered, whatever fails and*)
(* wherever the process is cut off; and a run that has ended leaves nothing*)
(* unsaved unless a write of the bucket can fail.                          *)
THEOREM NothingStaysUnsaved == Spec => []NothingUnsaved
<1>1. Init => UnsavedTracked
    BY DEF Init, EmptyRun, UnsavedTracked
<1>2. UnsavedTracked => NothingUnsaved
    BY DEF UnsavedTracked, NothingUnsaved
<1>3. RenewInv => TypeOK
    BY DEF RenewInv
<1> QED BY InitInv, StepInv, StepUnsaved, <1>1, <1>2, <1>3, PTL DEF Spec

=============================================================================
