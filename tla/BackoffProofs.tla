--------------------------- MODULE BackoffProofs ---------------------------
(***************************************************************************)
(* The failure backoff, when loading the failure state never fails: a run  *)
(* that cannot read it works on, and saves, an empty one.                  *)
(***************************************************************************)
EXTENDS RenewProofs

(* In a run, the copy of the failure state falls behind the stored one only*)
(* for domains that have their certificate.                                *)
BackoffInv ==
    /\ pc # "idle" => \A d \in Domain :
            backoff[d] < failures[d] => index[d] = "valid" /\ cert[d] # None
    /\ pc = "dns" => index[job.domain] = "valid" /\ cert[job.domain] # None

BackoffStep ==
    \/ failures' = Aged(failures)
    \/ \A d \in Domain : failures'[d] < failures[d] => index[d] = "valid" /\ cert[d] # None

(* Setting one domain's backoff, to the full one or to none.               *)
LEMMA BackoffSet ==
    ASSUME RenewInv, BackoffInv, pc # "idle", NEW d \in Domain, UNCHANGED <<failures, index, cert>>,
           \/ RecordFailure(d)
           \/ ClearFailure(d) /\ index[d] = "valid" /\ cert[d] # None
    PROVE  BackoffInv'
<1>1. backoff \in [Domain -> 0..Backoff] /\ failures \in [Domain -> 0..Backoff]
    BY DEF RenewInv, TypeOK
<1>2. pc' = "save"
    BY DEF RecordFailure, ClearFailure
<1>3. ASSUME NEW e \in Domain, backoff'[e] < failures[e]
      PROVE  index[e] = "valid" /\ cert[e] # None
    <2>1. CASE e # d
        BY <1>1, <1>3, <2>1 DEF RecordFailure, ClearFailure, BackoffInv
    <2>2. CASE e = d /\ RecordFailure(d)
        BY <1>1, <1>3, <2>2, TimeAssumption DEF RecordFailure
    <2>3. CASE e = d /\ ClearFailure(d)
        <3>1. CASE RecordFailure(d)
            BY <2>2, <2>3, <3>1
        <3> QED BY <2>3, <3>1
    <2> QED BY <2>1, <2>2, <2>3
<1> QED BY <1>2, <1>3 DEF BackoffInv

(* A step that touches neither side of the comparison.                     *)
LEMMA BackoffSame ==
    ASSUME BackoffInv, UNCHANGED <<failures, index, cert, backoff>>,
           pc # "idle", pc' # "dns"
    PROVE  BackoffInv'
BY DEF BackoffInv

LEMMA BackoffStored ==
    ASSUME RenewInv, BackoffInv, pc \in {"store", "storenew"}, NEW ok \in BOOLEAN,
           StoreCertificate(ok)
    PROVE  /\ UNCHANGED <<failures, job>>
           /\ \A d \in Domain : index[d] = "valid" /\ cert[d] # None =>
                    index'[d] = "valid" /\ cert'[d] # None
           /\ ok => index'[job.domain] = "valid" /\ cert'[job.domain] # None
<1>1. job.domain \in Domain /\ job.new \in Key
    <2>1. job \in Job
        BY DEF RenewInv, TypeOK
    <2>2. CASE pc = "store"
        BY <2>1, <2>2 DEF RenewInv, JobConsistent, Job
    <2>3. CASE pc = "storenew"
        BY <2>1, <2>3 DEF RenewInv, JobConsistent, TypeOK, Job, Rollover
    <2> QED BY <2>2, <2>3, <2>1 DEF Job
<1>2. PICK after \in {cert[job.domain], job.new} :
            cert' = [cert EXCEPT ![job.domain] = after] /\ (ok => after = job.new)
    BY DEF StoreCertificate, Written
<1>3. job.new # None
    BY <1>1, NoneAssumption
<1>4. cert \in [Domain -> Key \cup {None}] /\ index \in [Domain -> Entry \cup {None}]
    BY DEF RenewInv, TypeOK
<1> QED BY <1>1, <1>2, <1>3, <1>4 DEF StoreCertificate

LEMMA BackoffInit == Init => BackoffInv
BY DEF Init, EmptyRun, BackoffInv

LEMMA BackoffStepInv ==
    ASSUME "s3read" \notin Faults
    PROVE  RenewInv /\ BackoffInv /\ [Next]_vars => BackoffInv'
<1> SUFFICES ASSUME RenewInv, BackoffInv, [Next]_vars PROVE BackoffInv'
    OBVIOUS
<1>0. /\ backoff \in [Domain -> 0..Backoff] /\ failures \in [Domain -> 0..Backoff]
      /\ index \in [Domain -> Entry \cup {None}]
      /\ pc \notin {"idle", "next", "saveindex"} => job.domain \in Domain
    BY DEF RenewInv, TypeOK, Job
<1>1. ASSUME NEW domains \in SUBSET Domain, StartRun(domains) PROVE BackoffInv'
    <2>1. backoff' = failures /\ failures' = failures /\ pc' = "next"
        BY <1>1 DEF StartRun, LoadedFailures, bucket
    <2> QED BY <2>1, <1>0 DEF BackoffInv
<1>2. ASSUME NEW d \in Domain, Skip(d) \/ Visit(d) PROVE BackoffInv'
    <2>1. CASE Skip(d)
        BY <2>1, BackoffSame DEF Skip, bucket
    <2>2. CASE Visit(d)
        <3>1. pc # "idle" /\ UNCHANGED <<failures, index, cert>>
            BY <2>2 DEF Visit, bucket
        <3>2. UNCHANGED backoff /\ pc' # "dns"
            BY <2>2 DEF Visit
        <3> QED BY <3>1, <3>2, BackoffSame
    <2> QED BY <1>2, <2>1, <2>2
<1>3. ASSUME NEW d \in Domain, BecomeDue(d) \/ CertVanishes(d) PROVE BackoffInv'
    BY <1>3 DEF BecomeDue, CertVanishes, memory, BackoffInv
<1>4. CASE Restart
    BY <1>4 DEF Restart, BackoffInv
<1>5. CASE Tick
    <2>1. ASSUME NEW d \in Domain, backoff'[d] < failures'[d] PROVE backoff[d] < failures[d]
        BY <1>5, <1>0, <2>1, TimeAssumption DEF Tick, Aged
    <2> QED BY <1>5, <2>1 DEF Tick, BackoffInv
<1>6. CASE Check
    <2>1. pc = "check" /\ UNCHANGED <<failures, cert>>
        BY <1>6 DEF Check, bucket
    <2>2. CASE UNCHANGED <<index, backoff>> /\ pc' # "dns"
        BY <2>1, <2>2, BackoffSame
    <2>3. CASE index[job.domain] = "valid" /\ cert[job.domain] # None
                /\ ClearFailure(job.domain) /\ UNCHANGED index
        BY <2>1, <2>3, <1>0, BackoffSet
    <2>4. CASE cert[job.domain] = None /\ UNCHANGED backoff /\ pc' = "heal"
                /\ index' = [index EXCEPT ![job.domain] = None]
        BY <2>1, <2>4, <1>0 DEF BackoffInv
    <2> QED BY <1>6, <2>2, <2>3, <2>4 DEF Check
<1>7. CASE Heal \/ StoreRolloverState \/ ResetRollover \/ Wait \/ SwitchPhase
           \/ DeletePendingKey \/ DeleteRolloverState \/ AddTLSA \/ StorePendingKey
           \/ RequestCert \/ RequestCertWithKey \/ RemoveTLSA
    <2>1. pc \notin {"idle", "next", "saveindex"} /\ UNCHANGED <<failures, index, cert>>
        BY <1>7 DEF Heal, StoreRolloverState, ResetRollover, Wait, SwitchPhase,
            DeletePendingKey, DeleteRolloverState, AddTLSA, StorePendingKey, RequestCert,
            RequestCertWithKey, RemoveTLSA, bucket
    <2>2. RecordFailure(job.domain) \/ (UNCHANGED backoff /\ pc' # "dns")
        BY <1>7 DEF Heal, StoreRolloverState, ResetRollover, Wait, SwitchPhase,
            DeletePendingKey, DeleteRolloverState, AddTLSA, StorePendingKey, RequestCert,
            RequestCertWithKey, RemoveTLSA, OrFail, Continue
    <2>3. CASE RecordFailure(job.domain)
        BY <2>1, <2>3, <1>0, BackoffSet
    <2> QED BY <2>1, <2>2, <2>3, BackoffSame
<1>8. CASE Store \/ StoreNew
    <2>1. PICK ok \in BOOLEAN :
            /\ StoreCertificate(ok)
            /\ OrFail(ok, "dns", job.domain) \/ OrFail(ok, "switch", job.domain)
        BY <1>8 DEF Store, StoreNew
    <2>2. pc \in {"store", "storenew"}
        BY <1>8 DEF Store, StoreNew
    <2>3. job.domain \in Domain
        BY <2>2, <1>0
    <2>4. /\ UNCHANGED <<failures, job>>
          /\ \A d \in Domain : index[d] = "valid" /\ cert[d] # None =>
                    index'[d] = "valid" /\ cert'[d] # None
          /\ ok => index'[job.domain] = "valid" /\ cert'[job.domain] # None
        BY <2>1, <2>2, BackoffStored
    <2>5. ASSUME NEW d \in Domain, backoff'[d] < failures[d] PROVE backoff[d] < failures[d]
        BY <2>1, <2>3, <2>5, <1>0, TimeAssumption DEF OrFail, RecordFailure
    <2>6. pc' = "dns" => ok
        BY <2>1 DEF OrFail, RecordFailure
    <2> QED BY <2>2, <2>4, <2>5, <2>6 DEF BackoffInv
<1>9. CASE UpdateDNS
    <2>1. pc = "dns" /\ ClearFailure(job.domain) /\ UNCHANGED <<failures, index, cert>>
        BY <1>9 DEF UpdateDNS, bucket
    <2> QED BY <2>1, <1>0, BackoffSet DEF BackoffInv
<1>10. CASE SaveFailureState
    <2>1. UNCHANGED <<backoff, index, cert>> /\ pc # "idle" /\ pc' = "next"
        BY <1>10 DEF SaveFailureState, Continue
    <2>2. failures' = failures \/ failures' = backoff
        BY <1>10 DEF SaveFailureState, Written
    <2>3. CASE failures' = backoff
        BY <2>1, <2>3, <1>0 DEF BackoffInv
    <2> QED BY <2>1, <2>2, <2>3, BackoffSame
<1>11. CASE EndRun
    <2>1. pc' = "idle" \/ (UNCHANGED <<backoff, failures, index, cert>> /\ pc' = "saveindex")
        BY <1>11 DEF EndRun, bucket
    <2> QED BY <1>11, <2>1, BackoffSame DEF EndRun, BackoffInv
<1>12. CASE SaveIndexAtEnd
    BY <1>12 DEF SaveIndexAtEnd, BackoffInv
<1>13. CASE UNCHANGED vars
    BY <1>13 DEF vars, bucket, memory, BackoffInv
<1> QED BY <1>1, <1>2, <1>3, <1>4, <1>5, <1>6, <1>7, <1>8, <1>9, <1>10, <1>11, <1>12, <1>13
    DEF Next, Step

LEMMA BackoffShrinks ==
    ASSUME "s3read" \notin Faults
    PROVE  RenewInv /\ BackoffInv /\ [Next]_vars => [BackoffStep]_vars
<1> SUFFICES ASSUME RenewInv, BackoffInv, [Next]_vars PROVE BackoffStep \/ UNCHANGED vars
    OBVIOUS
<1>0. failures \in [Domain -> 0..Backoff]
    BY DEF RenewInv, TypeOK
<1>1. CASE failures' = failures
    BY <1>0, <1>1 DEF BackoffStep
<1>2. CASE Tick
    BY <1>2 DEF Tick, BackoffStep
<1>3. CASE SaveFailureState
    <2>1. pc # "idle" /\ (failures' = failures \/ failures' = backoff)
        BY <1>3 DEF SaveFailureState, Written
    <2> QED BY <1>1, <2>1 DEF BackoffInv, BackoffStep
<1>4. failures' = failures \/ Tick \/ SaveFailureState
    BY DEF Next, Step, vars, bucket, memory, StartRun, Skip, Visit, Check, Heal, AddTLSA,
        StorePendingKey, StoreRolloverState, RequestCert, Store, StoreCertificate, UpdateDNS,
        ResetRollover, Wait, RequestCertWithKey, StoreNew, SwitchPhase, RemoveTLSA,
        DeletePendingKey, DeleteRolloverState, EndRun, SaveIndexAtEnd, Restart, BecomeDue,
        CertVanishes
<1> QED BY <1>1, <1>2, <1>3, <1>4

(* A stored backoff shrinks by time only, or because the domain has a      *)
(* valid certificate again.                                                *)
THEOREM BackoffIsKept ==
    ASSUME "s3read" \notin Faults
    PROVE  Spec => BackoffKept
<1>1. BackoffStep <=> (\/ failures' = Aged(failures)
                       \/ \A d \in Domain :
                            failures'[d] < failures[d] => index[d] = "valid" /\ cert[d] # None)
    BY DEF BackoffStep
<1> QED BY InitInv, StepInv, BackoffInit, BackoffStepInv, BackoffShrinks, <1>1, PTL
        DEF Spec, BackoffKept
=============================================================================
