------------------------------- MODULE Renew -------------------------------
(***************************************************************************)
(* The renewer (app/renew.go): one process that holds the distributed lock *)
(* walks its domains and, for each, skips it (failure backoff), advances   *)
(* its TLSA rollover, finds its certificate still valid, or renews it,     *)
(* directly or by starting a rollover.                                     *)
(*                                                                         *)
(* What outlives the process is the S3 bucket (certificates, the index,    *)
(* failures, rollover states, pending keys) and DNS (TLSA records).  One   *)
(* action is one remote call with the memory updates around it; the pc     *)
(* says which call comes next.  A failed write may or may not have taken   *)
(* effect.  Times are relative: how long a rollover phase has lasted, how  *)
(* much of a backoff is left.                                              *)
(***************************************************************************)
EXTENDS Integers

CONSTANTS
    Domain,             \* the domains configured or served by Traefik
    Wildcard,           \* those of the form "*.base"
    Keyed,              \* those whose base domain has a TSIG key (Enabled)
    RolloverEnabled,    \* DNS_UPDATE_ROLLOVER_ENABLED
    ForceRenew,         \* ForceRenewOnFailure
    Key,                \* private keys; a key also stands for its TLSA record
    TlsaWait,           \* DNS_UPDATE_TLSA_TTL_SECONDS
    SyncLag,            \* DNS_UPDATE_SYNC_LAG_SECONDS
    ForceFactor,        \* the 10 of "10x sync lag"
    Backoff,            \* TAS3_FAILURE_BACKOFF_MINUTES
    Faults,             \* what may go wrong, see FaultKinds
    None

FaultKinds == {"s3read", "s3write", "dns", "acme", "crash", "vanish"}

ASSUME DomainAssumption == Wildcard \subseteq Domain /\ Keyed \subseteq Domain
ASSUME SwitchAssumption == RolloverEnabled \in BOOLEAN /\ ForceRenew \in BOOLEAN
ASSUME TimeAssumption ==
    TlsaWait \in Nat /\ SyncLag \in Nat /\ ForceFactor \in Nat /\ Backoff \in Nat
ASSUME FaultAssumption == Faults \subseteq FaultKinds

VARIABLES
    (* the S3 bucket *)
    cert,           \* the key of the certificate object of a domain, or None
    certIndex,      \* cert_index.json: is the listed expiry > 2 months away?
    failures,       \* state/failures.json: what is left of a domain's backoff
    rollover,       \* state/rollover/<domain>.json, or None
    pendingKey,     \* state/pending/<domain>, or None
    (* authoritative DNS *)
    tlsa,           \* the TLSA records of a domain
    (* the process *)
    index, dirty,   \* the closet's copy of the index, and its dirty flag
    backoff,        \* the run's copy of the failure state
    renewed,        \* the run has stored a certificate
    todo,           \* domains the run has yet to visit
    job,            \* the domain being handled, its old and its new key
    pc

bucket == <<cert, certIndex, failures, rollover, pendingKey>>
memory == <<index, dirty, backoff, renewed, todo, job, pc>>
vars == <<bucket, tlsa, memory>>

Entry == {"valid", "due"}
AgeCap == IF TlsaWait > ForceFactor * SyncLag THEN TlsaWait ELSE ForceFactor * SyncLag
Rollover == [phase : {"pre", "switched"}, old : Key \cup {None}, new : Key, age : 0..AgeCap]
ASSUME NoneAssumption == None \notin Key \cup Domain \cup Rollover \cup Entry

NoJob == [domain |-> None, old |-> None, new |-> None]
Job == [domain : Domain, old : Key \cup {None}, new : Key \cup {None}]
Phase == {"idle", "next", "advance", "check", "heal", "obtain", "storekey", "storestate",
          "store", "dns", "storenew", "switch", "dropkey", "dropstate", "save", "saveindex"}

TypeOK ==
    /\ cert \in [Domain -> Key \cup {None}]
    /\ certIndex \in [Domain -> Entry \cup {None}]
    /\ failures \in [Domain -> 0..Backoff]
    /\ rollover \in [Domain -> Rollover \cup {None}]
    /\ pendingKey \in [Domain -> Key \cup {None}]
    /\ tlsa \in [Domain -> SUBSET Key]
    /\ index \in [Domain -> Entry \cup {None}]
    /\ dirty \in BOOLEAN
    /\ backoff \in [Domain -> 0..Backoff]
    /\ renewed \in BOOLEAN
    /\ todo \subseteq Domain
    /\ pc \in Phase
    /\ job \in Job \cup {NoJob}
    /\ pc \notin {"idle", "next", "saveindex"} => job \in Job

-----------------------------------------------------------------------------
(* useRollover: the domain is renewed through a TLSA rollover.             *)
UseRollover(d) == RolloverEnabled /\ d \notin Wildcard /\ d \in Keyed

None0 == [d \in Domain |-> 0]

(* A new key pair is random: it is none of the keys still in use.          *)
FreshKeys(d) == Key \ {cert[d], pendingKey[d]}

InBackoff(d) == ~ForceRenew /\ backoff[d] > 0

(* recordFailure and clearFailure; the failure state is then saved.        *)
(* Mutant: a new failure adds to the backoff that is left.                 *)
RecordFailureOnTop(d) == backoff' = [backoff EXCEPT ![d] = @ + Backoff] /\ pc' = "save"
RecordFailure(d) == backoff' = [backoff EXCEPT ![d] = Backoff] /\ pc' = "save"
ClearFailure(d) == backoff' = [backoff EXCEPT ![d] = 0] /\ pc' = "save"

(* Leave the loop body without touching the failure state.                 *)
Continue == pc' = "next" /\ job' = NoJob /\ UNCHANGED backoff

(* A DNS UPDATE or an S3 write that the caller sees succeed or fail; on    *)
(* failure the value is the old or the new one.                            *)
Written(old, new, ok, fault) ==
    IF ok THEN {new} ELSE IF fault \in Faults THEN {old, new} ELSE {}

(* The error check after a call: go on to the next one, or fail the domain.*)
(* Mutant: the error is ignored.                                           *)
IgnoreError(ok, next, d) == pc' = next /\ UNCHANGED backoff
OrFail(ok, next, d) ==
    \/ ok /\ pc' = next /\ UNCHANGED backoff
    \/ ~ok /\ RecordFailure(d)

-----------------------------------------------------------------------------
(* A domain starts without a certificate or with one whose TLSA record is  *)
(* in DNS and whose entry is in the index.                                 *)
EmptyRun ==
    /\ dirty = FALSE /\ renewed = FALSE
    /\ backoff = None0 /\ todo = {} /\ job = NoJob /\ pc = "idle"

Init ==
    /\ cert \in [Domain -> Key \cup {None}]
    /\ certIndex \in [Domain -> Entry \cup {None}]
    /\ \A d \in Domain : cert[d] = None <=> certIndex[d] = None
    /\ failures = None0
    /\ rollover = [d \in Domain |-> None]
    /\ pendingKey = [d \in Domain |-> None]
    /\ tlsa = [d \in Domain |-> IF d \in Keyed \ Wildcard THEN {cert[d]} \ {None} ELSE {}]
    /\ index = certIndex
    /\ EmptyRun

(* loadFailureState; on error the run goes on with an empty state.         *)
(* Mutant: the state is never loaded.                                      *)
NothingLoaded == {None0}
LoadedFailures == {failures} \cup (IF "s3read" \in Faults THEN {None0} ELSE {})

(* renew: the lock is held.  The configured domains, or only some when     *)
(* Traefik does not answer.                                                *)
StartRun(domains) ==
    /\ pc = "idle"
    /\ domains # {}
    /\ todo' = domains
    /\ backoff' \in LoadedFailures
    /\ renewed' = FALSE
    /\ pc' = "next"
    /\ UNCHANGED <<bucket, tlsa, index, dirty, job>>

Skip(d) ==
    /\ pc = "next" /\ d \in todo
    /\ InBackoff(d)
    /\ todo' = todo \ {d}
    /\ UNCHANGED <<bucket, tlsa, index, dirty, backoff, renewed, job, pc>>

(* LoadRolloverState: an error fails the domain, a state is advanced, and  *)
(* otherwise (or for a wildcard, never loaded) renewal is considered.      *)
Visit(d) ==
    /\ pc = "next" /\ d \in todo
    /\ ~InBackoff(d)
    /\ todo' = todo \ {d}
    /\ \/ /\ d \notin Wildcard /\ "s3read" \in Faults
          /\ job' = [domain |-> d, old |-> None, new |-> None]
          /\ RecordFailure(d)
       \/ /\ d \notin Wildcard /\ rollover[d] # None
          /\ job' = [domain |-> d, old |-> rollover[d].old, new |-> rollover[d].new]
          /\ pc' = "advance" /\ UNCHANGED backoff
       \/ /\ d \in Wildcard \/ rollover[d] = None
          /\ job' = [domain |-> d, old |-> None, new |-> None]
          /\ pc' = "check" /\ UNCHANGED backoff
    /\ UNCHANGED <<bucket, tlsa, index, dirty, renewed>>

-----------------------------------------------------------------------------
(* SaveIndex, a no-op unless dirty; its error is logged only, and dirty    *)
(* stays set.                                                              *)
(* Mutant: dirty is reset before the put.                                  *)
SaveIndexOnce ==
    \/ /\ dirty
       /\ \E ok \in BOOLEAN : certIndex' \in Written(certIndex, index, ok, "s3write")
       /\ dirty' = FALSE
    \/ ~dirty /\ UNCHANGED <<certIndex, dirty>>
SaveIndex ==
    \/ /\ dirty
       /\ \E ok \in BOOLEAN :
            /\ certIndex' \in Written(certIndex, index, ok, "s3write")
            /\ dirty' = ~ok
    \/ ~dirty /\ UNCHANGED <<certIndex, dirty>>

(* An index entry more than two months from expiry: is the object there?   *)
Check ==
    LET d == job.domain IN
    /\ pc = "check"
    /\ \/ /\ index[d] # "valid"
          /\ pc' = "obtain"
          /\ UNCHANGED <<index, dirty, backoff, job>>
       \/ /\ index[d] = "valid" /\ "s3read" \in Faults      \* cannot tell: skipped
          /\ Continue
          /\ UNCHANGED <<index, dirty>>
       \/ /\ index[d] = "valid" /\ cert[d] # None
          /\ ClearFailure(d)
          /\ UNCHANGED <<index, dirty, job>>
       \/ /\ index[d] = "valid" /\ cert[d] = None           \* stale entry
          /\ index' = [index EXCEPT ![d] = None]
          /\ dirty' = TRUE
          /\ pc' = "heal"
          /\ UNCHANGED <<backoff, job>>
    /\ UNCHANGED <<bucket, tlsa, renewed, todo>>

Heal ==
    /\ pc = "heal"
    /\ SaveIndex
    /\ pc' = "obtain"
    /\ UNCHANGED <<cert, failures, rollover, pendingKey, tlsa, index, backoff, renewed, todo, job>>

-----------------------------------------------------------------------------
(* The TLSA RRset of d once AddTLSA has added a record to it.              *)
(* Mutant: the RRset is replaced.                                          *)
PublishedAlone(d, key) == {key}
Published(d, key) == tlsa[d] \cup {key}

(* startRollover.  The old key comes from the stored certificate ("" when  *)
(* it cannot be read); the new key's TLSA record is published, then the    *)
(* key is stored, then the rollover state.                                 *)
AddTLSA ==
    LET d == job.domain IN
    /\ pc = "obtain" /\ UseRollover(d)
    /\ \E key \in FreshKeys(d), ok \in BOOLEAN,
          old \in {cert[d]} \cup (IF "s3read" \in Faults THEN {None} ELSE {}) :
        /\ \E after \in Written(tlsa[d], Published(d, key), ok, "dns") :
              tlsa' = [tlsa EXCEPT ![d] = after]
        /\ \/ /\ ok
              /\ job' = [job EXCEPT !.old = old, !.new = key]
              /\ pc' = "storekey" /\ UNCHANGED backoff
           \/ /\ ~ok
              /\ RecordFailure(d) /\ UNCHANGED job
    /\ UNCHANGED <<bucket, index, dirty, renewed, todo>>

StorePendingKey ==
    LET d == job.domain IN
    /\ pc = "storekey"
    /\ \E ok \in BOOLEAN :
        /\ \E after \in Written(pendingKey[d], job.new, ok, "s3write") :
              pendingKey' = [pendingKey EXCEPT ![d] = after]
        /\ OrFail(ok, "storestate", d)
    /\ UNCHANGED <<cert, certIndex, failures, rollover, tlsa, index, dirty, renewed, todo, job>>

StoreRolloverState ==
    LET d == job.domain
        started == [phase |-> "pre", old |-> job.old, new |-> job.new, age |-> 0]
    IN
    /\ pc = "storestate"
    /\ \E ok \in BOOLEAN :
        /\ \E after \in Written(rollover[d], started, ok, "s3write") :
              rollover' = [rollover EXCEPT ![d] = after]
        /\ \/ ok /\ Continue
           \/ ~ok /\ RecordFailure(d) /\ UNCHANGED job
    /\ UNCHANGED <<cert, certIndex, failures, pendingKey, tlsa, index, dirty, renewed, todo>>

-----------------------------------------------------------------------------
(* The direct path: RequestCert makes its own key, StoreCertificate, then  *)
(* UpdateDNS, whose failure is only logged.                                *)
RequestCert ==
    LET d == job.domain IN
    /\ pc = "obtain" /\ ~UseRollover(d)
    /\ \/ \E key \in FreshKeys(d) :
            /\ job' = [job EXCEPT !.new = key]
            /\ pc' = "store" /\ UNCHANGED backoff
       \/ /\ "acme" \in Faults
          /\ RecordFailure(d) /\ UNCHANGED job
    /\ UNCHANGED <<bucket, tlsa, index, dirty, renewed, todo>>

(* StoreCertificate: put the object, then note its expiry in the index.    *)
StoreCertificate(ok) ==
    LET d == job.domain IN
    /\ \E after \in Written(cert[d], job.new, ok, "s3write") :
          cert' = [cert EXCEPT ![d] = after]
    /\ index' = IF ok THEN [index EXCEPT ![d] = "valid"] ELSE index
    /\ dirty' = (dirty \/ ok)
    /\ UNCHANGED <<certIndex, failures, rollover, pendingKey, tlsa, todo, job>>

Store ==
    /\ pc = "store"
    /\ \E ok \in BOOLEAN :
        /\ StoreCertificate(ok)
        /\ OrFail(ok, "dns", job.domain)
    /\ UNCHANGED renewed

(* UpdateDNS replaces the TLSA RRset in one update; it does nothing for a  *)
(* domain without TSIG key and leaves TLSA alone for a wildcard.           *)
UpdateDNS ==
    LET d == job.domain
        replaced == IF d \in Keyed \ Wildcard THEN {job.new} ELSE tlsa[d]
    IN
    /\ pc = "dns"
    /\ \E ok \in BOOLEAN :
        \E after \in Written(tlsa[d], replaced, ok, "dns") :
            tlsa' = [tlsa EXCEPT ![d] = after]
    /\ renewed' = TRUE
    /\ ClearFailure(d)
    /\ UNCHANGED <<bucket, index, dirty, todo, job>>

-----------------------------------------------------------------------------
(* advanceRollover, pre-publishing.  Any error loading the pending key     *)
(* drops the rollover state; the error of that delete is only logged.      *)
ResetRollover ==
    LET d == job.domain IN
    /\ pc = "advance" /\ rollover[d].phase = "pre"
    /\ pendingKey[d] = None \/ "s3read" \in Faults
    /\ \E ok \in BOOLEAN :
        \E after \in Written(rollover[d], None, ok, "s3write") :
            rollover' = [rollover EXCEPT ![d] = after]
    /\ Continue
    /\ UNCHANGED <<cert, certIndex, failures, pendingKey, tlsa, index, dirty, renewed, todo>>

(* The wait of the current phase has not elapsed.                          *)
(* Mutants: only one of the two phases is waited for.                      *)
WaitingSwitchedOnly(d) == rollover[d].phase = "switched" /\ rollover[d].age < SyncLag
WaitingPreOnly(d) == rollover[d].phase = "pre" /\ rollover[d].age < TlsaWait
Waiting(d) == rollover[d].age < (IF rollover[d].phase = "pre" THEN TlsaWait ELSE SyncLag)

Wait ==
    LET d == job.domain IN
    /\ pc = "advance"
    /\ rollover[d].phase = "pre" => pendingKey[d] # None
    /\ Waiting(d)
    /\ Continue
    /\ UNCHANGED <<bucket, tlsa, index, dirty, renewed, todo>>

(* The pending key is loaded once more and a certificate requested for it. *)
RequestCertWithKey ==
    LET d == job.domain IN
    /\ pc = "advance" /\ rollover[d].phase = "pre"
    /\ pendingKey[d] # None /\ ~Waiting(d)
    /\ \/ /\ job' = [job EXCEPT !.new = pendingKey[d]]
          /\ pc' = "storenew" /\ UNCHANGED backoff
       \/ /\ {"s3read", "acme"} \cap Faults # {}
          /\ RecordFailure(d) /\ UNCHANGED job
    /\ UNCHANGED <<bucket, tlsa, index, dirty, renewed, todo>>

(* Mutant: a rollover's certificate is not counted as renewed.             *)
NotCounted(ok) == renewed
RenewedAfter(ok) == renewed \/ ok

StoreNew ==
    /\ pc = "storenew"
    /\ \E ok \in BOOLEAN :
        /\ StoreCertificate(ok)
        /\ renewed' = RenewedAfter(ok)
        /\ OrFail(ok, "switch", job.domain)

SwitchPhase ==
    LET d == job.domain
        switched == [phase |-> "switched", old |-> job.old, new |-> job.new, age |-> 0]
    IN
    /\ pc = "switch"
    /\ \E ok \in BOOLEAN :
        /\ \E after \in Written(rollover[d], switched, ok, "s3write") :
              rollover' = [rollover EXCEPT ![d] = after]
        /\ \/ ok /\ Continue
           \/ ~ok /\ RecordFailure(d) /\ UNCHANGED job
    /\ UNCHANGED <<cert, certIndex, failures, pendingKey, tlsa, index, dirty, renewed, todo>>

-----------------------------------------------------------------------------
(* advanceRollover, cert-switched.  retryRemoveTLSA gives up after three   *)
(* attempts; the rollover is then retried by a later run, or forced to its *)
(* end when it is older than ForceFactor sync lags.                        *)
(* Mutant: no forced end.                                                  *)
NeverAncient(d) == FALSE
Ancient(d) == rollover[d].age >= ForceFactor * SyncLag

RemoveTLSA ==
    LET d == job.domain IN
    /\ pc = "advance" /\ rollover[d].phase = "switched" /\ ~Waiting(d)
    /\ \E ok \in BOOLEAN :
        /\ job.old = None => ok
        /\ \E after \in Written(tlsa[d], tlsa[d] \ {job.old}, ok, "dns") :
              tlsa' = [tlsa EXCEPT ![d] = after]
        /\ \/ /\ ok \/ Ancient(d)
              /\ pc' = "dropkey" /\ UNCHANGED backoff
           \/ /\ ~ok /\ ~Ancient(d)
              /\ RecordFailure(d)
    /\ UNCHANGED <<bucket, index, dirty, renewed, todo, job>>

DeletePendingKey ==
    LET d == job.domain IN
    /\ pc = "dropkey"
    /\ \E ok \in BOOLEAN :
        \E after \in Written(pendingKey[d], None, ok, "s3write") :
            pendingKey' = [pendingKey EXCEPT ![d] = after]
    /\ pc' = "dropstate"
    /\ UNCHANGED <<cert, certIndex, failures, rollover, tlsa, index, dirty, backoff, renewed, todo, job>>

DeleteRolloverState ==
    LET d == job.domain IN
    /\ pc = "dropstate"
    /\ \E ok \in BOOLEAN :
        /\ \E after \in Written(rollover[d], None, ok, "s3write") :
              rollover' = [rollover EXCEPT ![d] = after]
        /\ \/ ok /\ Continue
           \/ ~ok /\ RecordFailure(d) /\ UNCHANGED job
    /\ UNCHANGED <<cert, certIndex, failures, pendingKey, tlsa, index, dirty, renewed, todo>>

-----------------------------------------------------------------------------
(* saveFailureState writes the whole map; its error is only logged.        *)
SaveFailureState ==
    /\ pc = "save"
    /\ \E ok \in BOOLEAN : failures' \in Written(failures, backoff, ok, "s3write")
    /\ Continue
    /\ UNCHANGED <<cert, certIndex, rollover, pendingKey, tlsa, index, dirty, renewed, todo>>

(* The end of the run: the index is saved only if a certificate was        *)
(* stored.  The lock is then released.                                     *)
EndRun ==
    /\ pc = "next" /\ todo = {}
    /\ IF renewed THEN pc' = "saveindex" /\ UNCHANGED backoff
                  ELSE pc' = "idle" /\ backoff' = None0
    /\ renewed' = FALSE
    /\ UNCHANGED <<bucket, tlsa, index, dirty, todo, job>>

SaveIndexAtEnd ==
    /\ pc = "saveindex"
    /\ SaveIndex
    /\ pc' = "idle"
    /\ backoff' = None0
    /\ UNCHANGED <<cert, failures, rollover, pendingKey, tlsa, index, renewed, todo, job>>

(* The process ends: a finished run without daemon mode, or a crash.  The  *)
(* next one starts from the index in S3 (retrieveIndex).                   *)
Restart ==
    /\ pc = "idle" \/ "crash" \in Faults
    /\ index' = certIndex
    /\ dirty' = FALSE /\ renewed' = FALSE
    /\ backoff' = None0 /\ todo' = {} /\ job' = NoJob /\ pc' = "idle"
    /\ UNCHANGED <<bucket, tlsa>>

-----------------------------------------------------------------------------
(* Time: waits and backoffs run, also in the middle of a run.              *)
Aged(left) == [d \in Domain |-> IF left[d] > 0 THEN left[d] - 1 ELSE 0]
Older(r) == IF r # None /\ r.age < AgeCap THEN [r EXCEPT !.age = @ + 1] ELSE r

Tick ==
    /\ failures' = Aged(failures)
    /\ backoff' = Aged(backoff)
    /\ rollover' = [d \in Domain |-> Older(rollover[d])]
    /\ UNCHANGED <<cert, certIndex, pendingKey, tlsa, index, dirty, renewed, todo, job, pc>>

(* The two-month mark passes.  It is looked at once per visit, so letting  *)
(* it pass between runs only loses nothing.                                *)
BecomeDue(d) ==
    LET due(e) == IF e = "valid" THEN "due" ELSE e IN
    /\ pc = "idle" /\ "valid" \in {index[d], certIndex[d]}
    /\ index' = [index EXCEPT ![d] = due(@)]
    /\ certIndex' = [certIndex EXCEPT ![d] = due(@)]
    /\ UNCHANGED <<cert, failures, rollover, pendingKey, tlsa, dirty, backoff, renewed, todo, job, pc>>

(* The certificate object is deleted from the bucket behind the renewer.   *)
CertVanishes(d) ==
    /\ pc = "idle" /\ "vanish" \in Faults
    /\ cert[d] # None
    /\ cert' = [cert EXCEPT ![d] = None]
    /\ UNCHANGED <<certIndex, failures, rollover, pendingKey, tlsa, memory>>

Step ==
    \/ \E d \in Domain : Skip(d) \/ Visit(d)
    \/ Check \/ Heal
    \/ AddTLSA \/ StorePendingKey \/ StoreRolloverState
    \/ RequestCert \/ Store \/ UpdateDNS
    \/ ResetRollover \/ Wait \/ RequestCertWithKey \/ StoreNew \/ SwitchPhase
    \/ RemoveTLSA \/ DeletePendingKey \/ DeleteRolloverState
    \/ SaveFailureState \/ EndRun \/ SaveIndexAtEnd

Next ==
    \/ \E domains \in SUBSET Domain : StartRun(domains)
    \/ Step
    \/ Restart
    \/ Tick
    \/ \E d \in Domain : BecomeDue(d) \/ CertVanishes(d)

Spec == Init /\ [][Next]_vars

(* The daemon's ticker starts runs for ever, a full one (Traefik answers)  *)
(* again and again; a run goes on to its end; time passes.                 *)
RunsGoOn == SF_vars(StartRun(Domain)) /\ WF_vars(Step) /\ WF_vars(Tick)

(* The CA does not refuse for ever, nor does DNS to publish a new record.  *)
(* (Nothing of the kind is assumed of withdrawing one.)                    *)
OthersAnswer ==
    /\ SF_vars(RequestCertWithKey /\ pc' = "storenew")
    /\ SF_vars(RequestCert /\ pc' = "store")
    /\ SF_vars(AddTLSA /\ pc' = "storekey")

Fairness == RunsGoOn /\ OthersAnswer

LiveSpec == Spec /\ Fairness

-----------------------------------------------------------------------------
(* The TLSA record of the certificate in the bucket is in DNS, whatever    *)
(* fails and wherever the renewer crashes: advanceRollover never withdraws *)
(* the record of the key it has switched to, and startRollover publishes   *)
(* beside the old one.                                                     *)
CertPublished ==
    \A d \in Domain : UseRollover(d) /\ cert[d] # None => cert[d] \in tlsa[d]

(* A rollover that waits for its TTL has its private key in the bucket:    *)
(* startRollover stores the key before the state, and nothing overwrites   *)
(* or deletes a key that a rollover still needs.                           *)
PendingKeyMatches ==
    \A d \in Domain :
        rollover[d] # None /\ rollover[d].phase = "pre" => pendingKey[d] = rollover[d].new

(* What a stored rollover state promises about DNS and the certificate:    *)
(* the new record is out, it is not the one to withdraw, and a state that  *)
(* says switched is backed by the new certificate (or none at all).        *)
RolloverConsistent ==
    \A d \in Domain : rollover[d] # None =>
        /\ UseRollover(d)
        /\ rollover[d].new \in tlsa[d]
        /\ rollover[d].old # rollover[d].new
        /\ rollover[d].phase = "switched" => cert[d] \in {rollover[d].new, None}

(* Where the renewer is in a rollover agrees with what is stored: it starts*)
(* one only where none is stored, works on the one it has loaded, requests *)
(* the certificate only after the wait, and cleans up only after the       *)
(* switch.                                                                 *)
JobConsistent ==
    LET d == job.domain
        r == rollover[d]
    IN
    /\ pc \in {"store", "dns"} => ~UseRollover(d) /\ job.new \in Key
    /\ pc \in {"check", "heal", "obtain", "storekey", "storestate"} /\ d \notin Wildcard =>
            r = None
    /\ pc \in {"storekey", "storestate"} =>
            /\ UseRollover(d) /\ job.new \in tlsa[d]
            /\ job.old # job.new /\ job.old \in {cert[d], None}
    /\ pc = "storestate" => pendingKey[d] = job.new
    /\ pc \in {"advance", "storenew", "switch", "dropkey", "dropstate"} =>
            r # None /\ job.old = r.old /\ job.new = r.new
    /\ pc \in {"storenew", "switch"} => r.phase = "pre" /\ r.age >= TlsaWait
    /\ pc = "switch" => cert[d] = job.new
    /\ pc \in {"dropkey", "dropstate"} => r.phase = "switched" /\ r.age >= SyncLag

(* The inductive invariant.                                                *)
RenewInv == TypeOK /\ CertPublished /\ PendingKeyMatches /\ RolloverConsistent /\ JobConsistent

(* The certificate of a rollover domain changes only to the pre-published  *)
(* key, and only after its TLSA record has been out for TlsaWait.          *)
SwitchStep ==
    \A d \in Domain : UseRollover(d) /\ cert'[d] # cert[d] /\ cert'[d] # None =>
        /\ rollover[d] # None
        /\ rollover[d].phase = "pre" /\ rollover[d].age >= TlsaWait
        /\ cert'[d] = rollover[d].new
SwitchOnlyAfterWait == [][SwitchStep]_vars

(* A TLSA record of a rollover domain is withdrawn only once another key   *)
(* has been in the bucket's certificate for SyncLag.                       *)
WithdrawStep ==
    \A d \in Domain : UseRollover(d) /\ ~(tlsa[d] \subseteq tlsa'[d]) =>
        /\ rollover[d] # None
        /\ rollover[d].phase = "switched" /\ rollover[d].age >= SyncLag
        /\ cert[d] \notin tlsa[d] \ tlsa'[d]
WithdrawOnlyAfterLag == [][WithdrawStep]_vars

(* "New TLSA is pre-published, the certificate is switched after the TLSA  *)
(* TTL expires, then the old TLSA is removed" (README): whatever fails,    *)
(* and wherever the renewer crashes, what happens to the certificate, the  *)
(* records and the stored rollover is a rollover in three phases.          *)
OnRolled(f) == [d \in {e \in Domain : UseRollover(e)} |-> f[d]]
Phases == INSTANCE Rollover WITH
    Domain <- {d \in Domain : UseRollover(d)},
    cert <- OnRolled(cert), tlsa <- OnRolled(tlsa), rollover <- OnRolled(rollover)
ThreePhases == Phases!Spec

(* A change of the index that is not in the bucket is remembered, whatever *)
(* fails and wherever the process is cut off, so that the next save has it.*)
(* As long as writes of the bucket succeed, a run that has ended leaves    *)
(* nothing unsaved: though only a stored certificate makes the end of a run*)
(* save the index, and a healed entry is saved at once.                    *)
NothingUnsaved ==
    /\ ~dirty => index = certIndex
    /\ pc = "idle" /\ "s3write" \notin Faults => ~dirty

(* Why: what is unsaved is about to be saved, or counted.                  *)
UnsavedTracked ==
    /\ ~dirty => index = certIndex
    /\ "s3write" \notin Faults /\ dirty => renewed \/ pc \in {"heal", "dns", "saveindex"}
    /\ pc \in {"idle", "saveindex"} => ~renewed

(* A failed domain is left alone for its backoff (README, TAS3_FAILURE_    *)
(* BACKOFF_MINUTES): other than by time, its stored backoff shrinks only   *)
(* when it has a valid certificate again.                                  *)
BackoffKept ==
    [][\/ failures' = Aged(failures)
       \/ \A d \in Domain :
            failures'[d] < failures[d] => index[d] = "valid" /\ cert[d] # None]_vars

(* A started rollover ends, even when withdrawing the old record never     *)
(* succeeds.                                                               *)
RolloverCompletes == \A d \in Domain : rollover[d] # None ~> rollover[d] = None

(* A domain whose certificate is due gets a new one.                       *)
DueIsRenewed == \A d \in Domain : index[d] # "valid" ~> index[d] = "valid"
=============================================================================
