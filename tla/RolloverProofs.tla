--------------------------- MODULE RolloverProofs ---------------------------
(***************************************************************************)
(* Renew implements Rollover: seen through the certificates, the records   *)
(* and the stored rollovers of the domains renewed that way, every step of *)
(* the renewer is a step of the three-phase rollover or no step.           *)
(***************************************************************************)
EXTENDS RenewProofs

(* The domains of the abstract rollover.                                   *)
Rolled == {d \in Domain : UseRollover(d)}
view == <<OnRolled(cert), OnRolled(tlsa), OnRolled(rollover)>>

(* Renewal starts with every published record that of the certificate.     *)
LEMMA InitSeen == Init => Phases!Init
<1> SUFFICES ASSUME Init PROVE Phases!Init
    OBVIOUS
<1>1. \A d \in Rolled : d \in Domain /\ d \in Keyed \ Wildcard
    BY DEF Rolled, UseRollover
<1>2. OnRolled(cert) \in [Rolled -> Key \cup {None}]
    BY DEF Init, OnRolled, Rolled
<1>3. OnRolled(tlsa) = [d \in Rolled |-> {OnRolled(cert)[d]} \ {None}]
    BY <1>1 DEF Init, OnRolled, Rolled
<1>4. OnRolled(rollover) = [d \in Rolled |-> None]
    BY DEF Init, OnRolled, Rolled
<1> QED BY <1>2, <1>3, <1>4 DEF Phases!Init, Rolled

(* One step of the view per action that changes a certificate, a record or *)
(* a stored rollover.                                                      *)
LEMMA StepSeen == RenewInv /\ [Next]_vars => [Phases!Next]_(Phases!vars)
<1> SUFFICES ASSUME RenewInv, [Next]_vars PROVE Phases!Next \/ UNCHANGED view
    BY DEF view, Phases!vars
<1>0. /\ cert \in [Domain -> Key \cup {None}]
      /\ tlsa \in [Domain -> SUBSET Key]
      /\ rollover \in [Domain -> Rollover \cup {None}]
      /\ job \in Job => job.domain \in Domain
    BY DEF RenewInv, TypeOK, Job
<1>1. CASE UNCHANGED <<cert, tlsa, rollover>>
    BY <1>1 DEF view
<1>2. CASE AddTLSA
    <2>1. job.domain \in Rolled /\ rollover[job.domain] = None
        BY <1>0, <1>2 DEF AddTLSA, RenewInv, TypeOK, JobConsistent, Rolled, UseRollover
    <2>2. PICK d \in Rolled : d = job.domain
        BY <2>1
    <2>3. PICK key \in Key : \E after \in {tlsa[d], tlsa[d] \cup {key}} :
            tlsa' = [tlsa EXCEPT ![d] = after]
        BY <1>2, <2>2 DEF AddTLSA, FreshKeys, Written, Published
    <2>4. UNCHANGED <<cert, rollover>>
        BY <1>2 DEF AddTLSA, bucket
    <2>5. CASE tlsa' = [tlsa EXCEPT ![d] = tlsa[d]]
        BY <1>0, <2>4, <2>5 DEF view
    <2>6. CASE tlsa' = [tlsa EXCEPT ![d] = tlsa[d] \cup {key}]
        <3>1. OnRolled(tlsa)' = [OnRolled(tlsa) EXCEPT ![d] = @ \cup {key}]
            BY <1>0, <2>6 DEF OnRolled, Rolled
        <3>2. OnRolled(rollover)[d] = None
            BY <2>1, <2>2 DEF OnRolled, Rolled
        <3>3. UNCHANGED <<OnRolled(cert), OnRolled(rollover)>>
            BY <2>4
        <3>4. Phases!PrePublish(d)
            BY <3>1, <3>2, <3>3 DEF Phases!PrePublish
        <3> QED BY <3>4 DEF Phases!Next, Rolled
    <2> QED BY <2>3, <2>5, <2>6
<1>3. CASE StoreRolloverState
    <2>1. /\ job.domain \in Rolled /\ rollover[job.domain] = None
          /\ job.new \in tlsa[job.domain] /\ job.old # job.new
          /\ job.old \in {cert[job.domain], None}
        BY <1>0, <1>3
        DEF StoreRolloverState, RenewInv, TypeOK, JobConsistent, Rolled, UseRollover
    <2>2. PICK d \in Rolled : d = job.domain
        BY <2>1
    <2> DEFINE started == [phase |-> "pre", old |-> job.old, new |-> job.new, age |-> 0]
    <2>3. PICK after \in {rollover[d], started} : rollover' = [rollover EXCEPT ![d] = after]
        BY <1>3, <2>2 DEF StoreRolloverState, Written
    <2>4. UNCHANGED <<cert, tlsa>>
        BY <1>3 DEF StoreRolloverState
    <2>5. CASE after = rollover[d]
        BY <1>0, <2>3, <2>4, <2>5 DEF view
    <2>6. CASE after = started
        <3>1. OnRolled(rollover)' = [OnRolled(rollover) EXCEPT ![d] = started]
            BY <1>0, <2>3, <2>6 DEF OnRolled, Rolled
        <3>2. /\ OnRolled(rollover)[d] = None
              /\ job.new \in OnRolled(tlsa)[d] /\ job.old \in {OnRolled(cert)[d], None}
            BY <2>1, <2>2 DEF OnRolled, Rolled
        <3>3. UNCHANGED <<OnRolled(cert), OnRolled(tlsa)>>
            BY <2>4
        <3>4. Phases!Begin(d)
            BY <2>1, <3>1, <3>2, <3>3 DEF Phases!Begin
        <3> QED BY <3>4 DEF Phases!Next, Rolled
    <2> QED BY <2>3, <2>5, <2>6
<1>4. CASE Store \/ UpdateDNS
    <2>1. job.domain \in Domain /\ job.domain \notin Rolled
        BY <1>0, <1>4 DEF Store, UpdateDNS, RenewInv, TypeOK, JobConsistent, Rolled
    <2>2. \A d \in Rolled : cert'[d] = cert[d] /\ tlsa'[d] = tlsa[d]
        <3>1. CASE Store
            <4>1. PICK c : cert' = [cert EXCEPT ![job.domain] = c]
                BY <3>1 DEF Store, StoreCertificate
            <4>2. UNCHANGED tlsa
                BY <3>1 DEF Store, StoreCertificate
            <4> QED BY <1>0, <2>1, <4>1, <4>2 DEF Rolled
        <3>2. CASE UpdateDNS
            <4>1. PICK t : tlsa' = [tlsa EXCEPT ![job.domain] = t]
                BY <3>2 DEF UpdateDNS
            <4>2. UNCHANGED cert
                BY <3>2 DEF UpdateDNS, bucket
            <4> QED BY <1>0, <2>1, <4>1, <4>2 DEF Rolled
        <3> QED BY <1>4, <3>1, <3>2
    <2>3. UNCHANGED rollover
        BY <1>4 DEF Store, StoreCertificate, UpdateDNS, bucket
    <2>4. UNCHANGED <<OnRolled(cert), OnRolled(tlsa)>>
        BY <2>2 DEF OnRolled, Rolled
    <2> QED BY <2>3, <2>4 DEF view
<1>5. CASE ResetRollover \/ DeleteRolloverState
    <2>1. /\ job.domain \in Domain /\ rollover[job.domain] # None
          /\ \/ rollover[job.domain].phase = "pre"
             \/ rollover[job.domain].phase = "switched" /\ rollover[job.domain].age >= SyncLag
        BY <1>0, <1>5 DEF ResetRollover, DeleteRolloverState, RenewInv, TypeOK, JobConsistent
    <2>2. PICK d \in Rolled : d = job.domain
        BY <2>1 DEF RenewInv, RolloverConsistent, Rolled
    <2>3. PICK after \in {rollover[d], None} : rollover' = [rollover EXCEPT ![d] = after]
        BY <1>5, <2>2 DEF ResetRollover, DeleteRolloverState, Written
    <2>4. UNCHANGED <<cert, tlsa>>
        BY <1>5 DEF ResetRollover, DeleteRolloverState
    <2>5. CASE after = rollover[d]
        BY <1>0, <2>3, <2>4, <2>5 DEF view
    <2>6. CASE after = None
        <3>1. OnRolled(rollover)' = [OnRolled(rollover) EXCEPT ![d] = None]
            BY <1>0, <2>3, <2>6 DEF OnRolled, Rolled
        <3>2. OnRolled(rollover)[d] = rollover[d] /\ rollover[d].age >= 0
            BY <1>0, <2>1, <2>2, AgeCapBound DEF OnRolled, Rolled, Rollover
        <3>3. UNCHANGED <<OnRolled(cert), OnRolled(tlsa)>>
            BY <2>4
        <3>4. Phases!GiveUp(d) \/ Phases!Finish(d)
            BY <2>1, <2>2, <3>1, <3>2, <3>3 DEF Phases!GiveUp, Phases!Finish, Phases!In
        <3> QED BY <3>4 DEF Phases!Next, Rolled
    <2> QED BY <2>3, <2>5, <2>6
<1>6. CASE StoreNew
    <2>1. /\ job.domain \in Domain /\ rollover[job.domain] # None
          /\ rollover[job.domain].phase = "pre" /\ rollover[job.domain].age >= TlsaWait
          /\ job.new = rollover[job.domain].new
        BY <1>0, <1>6 DEF StoreNew, RenewInv, TypeOK, JobConsistent
    <2>2. PICK d \in Rolled : d = job.domain
        BY <2>1 DEF RenewInv, RolloverConsistent, Rolled
    <2>3. PICK after \in {cert[d], job.new} : cert' = [cert EXCEPT ![d] = after]
        BY <1>6, <2>2 DEF StoreNew, StoreCertificate, Written
    <2>4. UNCHANGED <<tlsa, rollover>>
        BY <1>6 DEF StoreNew, StoreCertificate
    <2>5. CASE after = cert[d]
        BY <1>0, <2>3, <2>4, <2>5 DEF view
    <2>6. CASE after = job.new
        <3>1. OnRolled(cert)' = [OnRolled(cert) EXCEPT ![d] = job.new]
            BY <1>0, <2>3, <2>6 DEF OnRolled, Rolled
        <3>2. OnRolled(rollover)[d] = rollover[d]
            BY <2>2 DEF OnRolled, Rolled
        <3>3. UNCHANGED <<OnRolled(tlsa), OnRolled(rollover)>>
            BY <2>4
        <3>4. Phases!SwitchCert(d)
            BY <2>1, <2>2, <3>1, <3>2, <3>3 DEF Phases!SwitchCert, Phases!In
        <3> QED BY <3>4 DEF Phases!Next, Rolled
    <2> QED BY <2>3, <2>5, <2>6
<1>7. CASE SwitchPhase
    <2>1. /\ job.domain \in Domain /\ rollover[job.domain] # None
          /\ rollover[job.domain].phase = "pre" /\ rollover[job.domain].age >= TlsaWait
          /\ cert[job.domain] = job.new
          /\ job.old = rollover[job.domain].old /\ job.new = rollover[job.domain].new
        BY <1>0, <1>7 DEF SwitchPhase, RenewInv, TypeOK, JobConsistent
    <2>2. PICK d \in Rolled : d = job.domain
        BY <2>1 DEF RenewInv, RolloverConsistent, Rolled
    <2> DEFINE switched == [phase |-> "switched", old |-> job.old, new |-> job.new, age |-> 0]
    <2>3. PICK after \in {rollover[d], switched} : rollover' = [rollover EXCEPT ![d] = after]
        BY <1>7, <2>2 DEF SwitchPhase, Written
    <2>4. UNCHANGED <<cert, tlsa>>
        BY <1>7 DEF SwitchPhase
    <2>5. CASE after = rollover[d]
        BY <1>0, <2>3, <2>4, <2>5 DEF view
    <2>6. CASE after = switched
        <3>1. OnRolled(rollover)[d] = rollover[d] /\ OnRolled(cert)[d] = cert[d]
            BY <2>2 DEF OnRolled, Rolled
        <3>2. OnRolled(rollover)' =
                [OnRolled(rollover) EXCEPT
                    ![d] = [phase |-> "switched", old |-> @.old, new |-> @.new, age |-> 0]]
            BY <1>0, <2>1, <2>2, <2>3, <2>6 DEF OnRolled, Rolled
        <3>3. UNCHANGED <<OnRolled(cert), OnRolled(tlsa)>>
            BY <2>4
        <3>4. Phases!Switched(d)
            BY <2>1, <2>2, <3>1, <3>2, <3>3 DEF Phases!Switched, Phases!In
        <3> QED BY <3>4 DEF Phases!Next, Rolled
    <2> QED BY <2>3, <2>5, <2>6
<1>8. CASE RemoveTLSA
    <2>1. /\ job.domain \in Domain /\ rollover[job.domain] # None
          /\ rollover[job.domain].phase = "switched" /\ ~Waiting(job.domain)
          /\ job.old = rollover[job.domain].old
        BY <1>0, <1>8 DEF RemoveTLSA, RenewInv, TypeOK, JobConsistent
    <2>2. PICK d \in Rolled : d = job.domain
        BY <2>1 DEF RenewInv, RolloverConsistent, Rolled
    <2>3. PICK after \in {tlsa[d], tlsa[d] \ {job.old}} : tlsa' = [tlsa EXCEPT ![d] = after]
        BY <1>8, <2>2 DEF RemoveTLSA, Written
    <2>4. UNCHANGED <<cert, rollover>>
        BY <1>8 DEF RemoveTLSA, bucket
    <2>5. CASE after = tlsa[d]
        BY <1>0, <2>3, <2>4, <2>5 DEF view
    <2>6. CASE after = tlsa[d] \ {job.old}
        <3>1. OnRolled(tlsa)' = [OnRolled(tlsa) EXCEPT ![d] = @ \ {rollover[d].old}]
            BY <1>0, <2>1, <2>2, <2>3, <2>6 DEF OnRolled, Rolled
        <3>2. OnRolled(rollover)[d] = rollover[d]
            BY <2>2 DEF OnRolled, Rolled
        <3>3. rollover[d].age >= SyncLag
            BY <1>0, <2>1, <2>2, TimeAssumption, AgeCapBound DEF Waiting, Rollover
        <3>4. UNCHANGED <<OnRolled(cert), OnRolled(rollover)>>
            BY <2>4
        <3>5. Phases!Withdraw(d)
            BY <2>1, <2>2, <3>1, <3>2, <3>3, <3>4 DEF Phases!Withdraw, Phases!In
        <3> QED BY <3>5 DEF Phases!Next, Rolled
    <2> QED BY <2>3, <2>5, <2>6
<1>9. CASE Tick
    <2>1. OnRolled(rollover)' = [d \in Rolled |-> Phases!Older(OnRolled(rollover)[d])]
        BY <1>9 DEF Tick, Older, Phases!Older, OnRolled, Rolled
    <2>2. UNCHANGED <<OnRolled(cert), OnRolled(tlsa)>>
        BY <1>9 DEF Tick
    <2> QED BY <2>1, <2>2 DEF Phases!Tick, Phases!Next, Rolled
<1>10. CASE \E d \in Domain : CertVanishes(d)
    <2>1. PICK d \in Domain : CertVanishes(d)
        BY <1>10
    <2>2. cert' = [cert EXCEPT ![d] = None] /\ UNCHANGED <<tlsa, rollover>>
        BY <2>1 DEF CertVanishes
    <2>3. CASE d \in Rolled
        <3>1. OnRolled(cert)' = [OnRolled(cert) EXCEPT ![d] = None]
            BY <1>0, <2>2, <2>3 DEF OnRolled, Rolled
        <3>2. UNCHANGED <<OnRolled(tlsa), OnRolled(rollover)>>
            BY <2>2
        <3>3. Phases!CertLost(d)
            BY <3>1, <3>2 DEF Phases!CertLost
        <3> QED BY <2>3, <3>3 DEF Phases!Next, Rolled
    <2>4. CASE d \notin Rolled
        <3>1. UNCHANGED OnRolled(cert)
            BY <1>0, <2>2, <2>4 DEF OnRolled, Rolled
        <3> QED BY <2>2, <3>1 DEF view
    <2> QED BY <2>3, <2>4
<1> QED
    BY <1>1, <1>2, <1>3, <1>4, <1>5, <1>6, <1>7, <1>8, <1>9, <1>10
    DEF Next, Step, vars, bucket, memory, StartRun, Skip, Visit, Check, Heal,
        StorePendingKey, RequestCert, Wait, RequestCertWithKey, DeletePendingKey,
        SaveFailureState, EndRun, SaveIndexAtEnd, Restart, BecomeDue

(* Whatever fails and wherever the renewer crashes, certificates, records  *)
(* and stored rollovers go through the three phases of the README.         *)
THEOREM ImplementsPhases == Spec => ThreePhases
BY InitInv, StepInv, InitSeen, StepSeen, PTL DEF Spec, ThreePhases, Phases!Spec
-----------------------------------------------------------------------------
(* What the three phases are worth by themselves, one case per phase.      *)
LEMMA PhasesStep ==
    Phases!RolloverSound /\ [Phases!Next]_(Phases!vars) => Phases!RolloverSound'
<1> SUFFICES ASSUME Phases!RolloverSound, [Phases!Next]_(Phases!vars)
             PROVE  Phases!RolloverSound'
    OBVIOUS
<1>0. Rolled = {d \in Domain : UseRollover(d)} /\ Phases!State = Rollover
    BY DEF Rolled, Phases!State, Rollover
<1> USE <1>0, NoneAssumption, AgeCapBound
    DEF Phases!RolloverSound, Phases!CertOut, Phases!In, Rollover
<1>1. ASSUME NEW d \in Rolled, Phases!PrePublish(d) PROVE Phases!RolloverSound'
    BY <1>1 DEF Phases!PrePublish
<1>2. ASSUME NEW d \in Rolled, Phases!Begin(d) PROVE Phases!RolloverSound'
    BY <1>2 DEF Phases!Begin
<1>3. ASSUME NEW d \in Rolled, Phases!SwitchCert(d) PROVE Phases!RolloverSound'
    BY <1>3 DEF Phases!SwitchCert
<1>4. ASSUME NEW d \in Rolled, Phases!Switched(d) PROVE Phases!RolloverSound'
    BY <1>4 DEF Phases!Switched
<1>5. ASSUME NEW d \in Rolled, Phases!Withdraw(d) PROVE Phases!RolloverSound'
    BY <1>5 DEF Phases!Withdraw
<1>6. ASSUME NEW d \in Rolled, Phases!Finish(d) \/ Phases!GiveUp(d) PROVE Phases!RolloverSound'
    BY <1>6 DEF Phases!Finish, Phases!GiveUp
<1>7. ASSUME NEW d \in Rolled, Phases!CertLost(d) PROVE Phases!RolloverSound'
    BY <1>7 DEF Phases!CertLost
<1>8. CASE Phases!Tick
    BY <1>8 DEF Phases!Tick, Phases!Older
<1>9. CASE UNCHANGED Phases!vars
    BY <1>9 DEF Phases!vars
<1> QED BY <1>1, <1>2, <1>3, <1>4, <1>5, <1>6, <1>7, <1>8, <1>9 DEF Phases!Next

(* A rollover in three phases always has the record of the certificate out.*)
THEOREM PhasesKeepCertOut == Phases!Spec => [](\A d \in Rolled : Phases!CertOut(d))
<1>1. Phases!Init => Phases!RolloverSound
    BY NoneAssumption DEF Phases!Init, Phases!RolloverSound, Phases!CertOut
<1>2. Phases!RolloverSound => \A d \in Rolled : Phases!CertOut(d)
    BY DEF Phases!RolloverSound, Rolled
<1> QED BY <1>1, <1>2, PhasesStep, PTL DEF Phases!Spec
=============================================================================
