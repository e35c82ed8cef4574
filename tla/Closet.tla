------------------------------- MODULE Closet -------------------------------
(***************************************************************************)
(* The certificate closet in S3 (pkg/certcloset) and sync (app/sync.go),   *)
(* which copies it to the disk of a proxy host.                            *)
(*                                                                         *)
(* Renewers and sync each keep a copy of the index (cert_index.json) in    *)
(* memory and write it back whole.  A renewer loads it once, at start;     *)
(* sync fetches it again in every run, into the copy it has.  The          *)
(* distributed lock serialises runs (DistributedLock says when it does),   *)
(* and a run may end in a crash.  What a renewer decides is left out       *)
(* (Renew has it): here it stores certificates and heals stale entries.    *)
(*                                                                         *)
(* A certificate is its version: its number among those issued for its     *)
(* domain, which its expiry date tells apart.  Absent stands for none.     *)
(***************************************************************************)
EXTENDS Integers

CONSTANTS
    Domain,
    Renewer,            \* renew processes on the bucket
    Sync,               \* the sync process of the host
    NoOne,
    Torn,               \* a local index file that is truncated
    MaxVersion,         \* bound: certificates issued for a domain
    MaxMishaps,         \* bound: crashes and vanished objects
    Outputs,            \* what the host's proxy reads, see OutputKinds
    Faults              \* what else may go wrong, see FaultKinds

FaultKinds == {"s3read", "s3write", "disk", "vanish"}
OutputKinds == {"traefik", "haproxy", "crtlist"}
Absent == 0
Version == 1..MaxVersion
Index == [Domain -> Version \cup {Absent}]
Process == Renewer \cup {Sync}

ASSUME ClosetAssumption ==
    /\ MaxVersion \in Nat /\ MaxMishaps \in Nat /\ Faults \subseteq FaultKinds
    /\ Outputs \subseteq OutputKinds /\ ("crtlist" \in Outputs => "haproxy" \in Outputs)
    /\ Sync \notin Renewer /\ NoOne \notin Process
    /\ Torn \notin Index

VARIABLES
    (* the S3 bucket *)
    object,         \* the certificate object of a domain
    remote,         \* the index
    issued,         \* how many certificates have been issued
    (* processes *)
    holder,         \* whose run it is: the distributed lock
    copy, dirty,    \* a process's copy of the index, and its dirty flag
    stored,         \* the renewer's run has stored a certificate
    mishaps,
    (* the host's disk *)
    certFile, keyFile,      \* <domain>/cert.pem and <domain>/key.pem
    local,                  \* the local index, or Torn
    listed,                 \* the domains in the Traefik file
    bundle,                 \* the HAProxy bundle of a domain: cert and key
    crtList,                \* the domains in the HAProxy crt-list
    (* a sync run *)
    pc,
    localIdx,       \* the local index in memory
    changed,        \* localChanged
    failed,         \* a certificate has failed
    todo,           \* the domains the current loop has yet to handle
    fetched,        \* the certificate that is being written, and its domain
    lines           \* crtListLines

bucket == <<object, remote, issued>>
files == <<certFile, keyFile>>
outputs == <<listed, bundle, crtList>>
run == <<pc, localIdx, changed, failed, todo, fetched, lines>>
vars == <<bucket, holder, copy, dirty, stored, mishaps, files, local, outputs, run>>

Nothing == [d \in Domain |-> Absent]
NoFetch == [domain |-> NoOne, version |-> Absent]
NoBundle == [cert |-> Absent, key |-> Absent]

ClosetTypeOK ==
    /\ object \in Index /\ remote \in Index /\ issued \in Index
    /\ certFile \in Index /\ keyFile \in Index /\ localIdx \in Index
    /\ holder \in Process \cup {NoOne}
    /\ copy \in [Process -> Index] /\ dirty \in [Process -> BOOLEAN]
    /\ stored \in BOOLEAN /\ changed \in BOOLEAN /\ failed \in BOOLEAN
    /\ mishaps \in 0..MaxMishaps
    /\ local \in Index \cup {Torn}
    /\ todo \subseteq Domain /\ lines \subseteq Domain
    /\ listed \subseteq Domain /\ crtList \subseteq Domain
    /\ bundle \in [Domain -> [cert : Version, key : Version] \cup {NoBundle}]
    /\ pc \in {"idle", "load", "prune", "fetch", "gone", "cert", "key", "truncate", "save",
               "traefik", "haproxy"}
    /\ pc = "idle" <=> holder # Sync
    /\ fetched = NoFetch \/ fetched \in [domain : Domain, version : Version \cup {Absent}]
    /\ pc \in {"gone", "cert", "key"} => fetched.domain \in Domain

Init ==
    /\ object = Nothing /\ remote = Nothing /\ issued = Nothing
    /\ holder = NoOne
    /\ copy = [p \in Process |-> Nothing] /\ dirty = [p \in Process |-> FALSE]
    /\ stored = FALSE /\ mishaps = 0
    /\ certFile = Nothing /\ keyFile = Nothing /\ local = Nothing
    /\ listed = {} /\ bundle = [d \in Domain |-> NoBundle] /\ crtList = {}
    /\ pc = "idle" /\ localIdx = Nothing /\ changed = FALSE /\ failed = FALSE
    /\ todo = {} /\ fetched = NoFetch /\ lines = {}

Has(index) == {d \in Domain : index[d] # Absent}

-----------------------------------------------------------------------------
(* SaveIndex: a no-op unless dirty; a failed put may have taken effect.    *)
SaveIndex(p, index, isDirty, ok) ==
    /\ ok \/ (isDirty /\ "s3write" \in Faults)
    /\ remote' \in IF ~isDirty THEN {remote} ELSE {index} \cup (IF ok THEN {} ELSE {remote})
    /\ dirty' = [dirty EXCEPT ![p] = ~ok]

(* A renewer's run: AcquireLock, then any of its domains, in any order.    *)
RenewStart(r) ==
    /\ holder = NoOne
    /\ holder' = r /\ stored' = FALSE
    /\ UNCHANGED <<bucket, copy, dirty, mishaps, files, local, outputs, run>>

(* StoreCertificate: put the object, then note it in the copy.             *)
StoreCertificate(r, d) ==
    /\ holder = r /\ issued[d] < MaxVersion
    /\ issued' = [issued EXCEPT ![d] = @ + 1]
    /\ \/ /\ object' = [object EXCEPT ![d] = issued[d] + 1]
          /\ copy' = [copy EXCEPT ![r][d] = issued[d] + 1]
          /\ dirty' = [dirty EXCEPT ![r] = TRUE]
          /\ stored' = TRUE
       \/ /\ "s3write" \in Faults
          /\ object' \in {object, [object EXCEPT ![d] = issued[d] + 1]}
          /\ UNCHANGED <<copy, dirty, stored>>
    /\ UNCHANGED <<remote, holder, mishaps, files, local, outputs, run>>

(* An entry whose object is gone: RemoveFromIndex and SaveIndex.           *)
Heal(r, d) ==
    LET healed == [copy[r] EXCEPT ![d] = Absent] IN
    /\ holder = r /\ copy[r][d] # Absent /\ object[d] = Absent
    /\ copy' = [copy EXCEPT ![r] = healed]
    /\ \E ok \in BOOLEAN : SaveIndex(r, healed, TRUE, ok)
    /\ UNCHANGED <<object, issued, holder, stored, mishaps, files, local, outputs, run>>

(* The end of a renewer's run: SaveIndex if it stored something.           *)
RenewEnd(r) ==
    /\ holder = r
    /\ IF stored THEN \E ok \in BOOLEAN : SaveIndex(r, copy[r], dirty[r], ok)
                 ELSE UNCHANGED <<remote, dirty>>
    /\ holder' = NoOne /\ stored' = FALSE
    /\ UNCHANGED <<object, issued, copy, mishaps, files, local, outputs, run>>

-----------------------------------------------------------------------------
(* The lock after a sync run (deferred ReleaseLock).                       *)
(* Mutant: it is not released.                                             *)
StillHeld == holder
Released == NoOne

SyncEnd ==
    /\ pc' = "idle" /\ holder' = Released
    /\ localIdx' = Nothing /\ changed' = FALSE /\ failed' = FALSE
    /\ todo' = {} /\ fetched' = NoFetch /\ lines' = {}

(* RefreshIndex: the JSON object is decoded into the map that is there, so *)
(* an entry that is no longer in S3 stays.                                 *)
(* Mutant: the copy is not refreshed.                                      *)
NotRefreshed == copy[Sync]
Refreshed == [d \in Domain |-> IF remote[d] # Absent THEN remote[d] ELSE copy[Sync][d]]

SyncStart ==
    /\ holder = NoOne
    /\ holder' = Sync /\ pc' = "load"
    /\ copy' = [copy EXCEPT ![Sync] = Refreshed]
    /\ UNCHANGED <<bucket, dirty, stored, mishaps, files, local, outputs>>
    /\ UNCHANGED <<localIdx, changed, failed, todo, fetched, lines>>

(* NewLocalCertCloset and CheckIntegrity: a local index that cannot be     *)
(* parsed ends the run; entries without both files are dropped from memory.*)
(* Then the entries that are not in the index are to be pruned.            *)
LoadLocal ==
    /\ pc = "load"
    /\ IF local = Torn THEN SyncEnd
       ELSE /\ localIdx' = [d \in Domain |-> IF Absent \in {certFile[d], keyFile[d]}
                                             THEN Absent ELSE local[d]]
            /\ changed' = (localIdx' # local)
            /\ todo' = Has(localIdx') \ Has(copy[Sync])
            /\ pc' = "prune"
            /\ UNCHANGED <<holder, failed, fetched, lines>>
    /\ UNCHANGED <<bucket, copy, dirty, stored, mishaps, files, local, outputs>>

(* os.RemoveAll of the directory of d; an error may leave either file.     *)
RemoveFiles(d, ok) ==
    /\ ok \/ "disk" \in Faults
    /\ certFile' \in {[certFile EXCEPT ![d] = Absent]} \cup (IF ok THEN {} ELSE {certFile})
    /\ keyFile' \in {[keyFile EXCEPT ![d] = Absent]} \cup (IF ok THEN {} ELSE {keyFile})

Prune(d) ==
    /\ pc = "prune" /\ d \in todo
    /\ todo' = todo \ {d}
    /\ \E ok \in BOOLEAN :
        /\ RemoveFiles(d, ok)
        /\ localIdx' = IF ok THEN [localIdx EXCEPT ![d] = Absent] ELSE localIdx
        /\ changed' = (changed \/ ok)
        /\ failed' = (failed \/ ~ok)
    /\ UNCHANGED <<bucket, holder, copy, dirty, stored, mishaps, local, outputs, pc, fetched, lines>>

(* GetDiff.  With nothing to fetch or to save syncCerts succeeds, even if  *)
(* a file could not be removed.                                            *)
(* Mutant: only what is missing is fetched.                                *)
OnlyMissing == {d \in Has(copy[Sync]) : localIdx[d] = Absent}
GetDiff == {d \in Has(copy[Sync]) : localIdx[d] # copy[Sync][d]}

Diff ==
    /\ pc = "prune" /\ todo = {}
    /\ todo' = GetDiff
    /\ pc' = IF GetDiff = {} /\ ~changed THEN "traefik" ELSE "fetch"
    /\ UNCHANGED <<bucket, holder, copy, dirty, stored, mishaps, files, local, outputs>>
    /\ UNCHANGED <<localIdx, changed, failed, fetched, lines>>

(* RetrieveCertificate: the object, 404, or another error.                 *)
Fetch(d) ==
    /\ pc = "fetch" /\ d \in todo
    /\ todo' = todo \ {d}
    /\ \/ /\ fetched' = [domain |-> d, version |-> object[d]]
          /\ pc' = IF object[d] = Absent THEN "gone" ELSE "cert"
          /\ UNCHANGED failed
       \/ /\ "s3read" \in Faults
          /\ failed' = TRUE
          /\ UNCHANGED <<fetched, pc>>
    /\ UNCHANGED <<bucket, holder, copy, dirty, stored, mishaps, files, local, outputs>>
    /\ UNCHANGED <<localIdx, changed, lines>>

(* 404: the entry leaves the index and the local index, the files go.      *)
DropStale ==
    LET d == fetched.domain
        rest == [copy[Sync] EXCEPT ![d] = Absent]
    IN
    /\ pc = "gone"
    /\ copy' = [copy EXCEPT ![Sync] = rest]
    /\ localIdx' = [localIdx EXCEPT ![d] = Absent]
    /\ changed' = TRUE
    /\ \E saved, removed \in BOOLEAN :
        /\ SaveIndex(Sync, rest, TRUE, saved)
        /\ RemoveFiles(d, removed)
        /\ failed' = (failed \/ ~saved \/ ~removed)
    /\ pc' = "fetch" /\ fetched' = NoFetch
    /\ UNCHANGED <<object, issued, holder, stored, mishaps, local, outputs, todo, lines>>

(* writeCertificate: cert.pem, then key.pem, each by a rename; then the    *)
(* entry of the index becomes the local one.                               *)
(* Mutant: it does so after an error, too.                                 *)
NotedAnyway == [localIdx EXCEPT ![fetched.domain] = copy[Sync][fetched.domain]]
NotNoted == localIdx

WriteFailed ==
    /\ "disk" \in Faults
    /\ failed' = TRUE /\ pc' = "fetch" /\ fetched' = NoFetch
    /\ localIdx' = NotNoted
    /\ UNCHANGED <<files, changed>>

WriteCert ==
    /\ pc = "cert"
    /\ \/ /\ certFile' = [certFile EXCEPT ![fetched.domain] = fetched.version]
          /\ pc' = "key"
          /\ UNCHANGED <<keyFile, localIdx, changed, failed, fetched>>
       \/ WriteFailed
    /\ UNCHANGED <<bucket, holder, copy, dirty, stored, mishaps, local, outputs, todo, lines>>

WriteKey ==
    LET d == fetched.domain IN
    /\ pc = "key"
    /\ \/ /\ keyFile' = [keyFile EXCEPT ![d] = fetched.version]
          /\ localIdx' = [localIdx EXCEPT ![d] = copy[Sync][d]]
          /\ changed' = TRUE
          /\ pc' = "fetch" /\ fetched' = NoFetch
          /\ UNCHANGED <<certFile, failed>>
       \/ WriteFailed
    /\ UNCHANGED <<bucket, holder, copy, dirty, stored, mishaps, local, outputs, todo, lines>>

(* syncCerts returns an error when a certificate has failed; the outputs   *)
(* are then left as they are.                                              *)
(* Mutant: the error is not returned.                                      *)
ErrorIgnored == FALSE
SyncFailed == failed

AfterCerts ==
    IF SyncFailed THEN SyncEnd
    ELSE pc' = "traefik" /\ UNCHANGED <<holder, localIdx, changed, failed, todo, fetched, lines>>

FetchEnd ==
    /\ pc = "fetch" /\ todo = {}
    /\ IF changed
       THEN pc' = "truncate" /\ UNCHANGED <<holder, localIdx, changed, failed, todo, fetched, lines>>
       ELSE AfterCerts
    /\ UNCHANGED <<bucket, copy, dirty, stored, mishaps, files, local, outputs>>

(* SaveIndex of the local closet: os.WriteFile truncates the file, then    *)
(* writes it.                                                              *)
TruncateLocal ==
    /\ pc = "truncate"
    /\ local' = Torn
    /\ pc' = "save"
    /\ UNCHANGED <<bucket, holder, copy, dirty, stored, mishaps, files, outputs>>
    /\ UNCHANGED <<localIdx, changed, failed, todo, fetched, lines>>

SaveLocal ==
    /\ pc = "save"
    /\ \/ local' = localIdx /\ AfterCerts
       \/ "disk" \in Faults /\ UNCHANGED local /\ SyncEnd
    /\ UNCHANGED <<bucket, copy, dirty, stored, mishaps, files, outputs>>

-----------------------------------------------------------------------------
(* The outputs, those that are configured: writeTraefikConfig, which lists *)
(* the domains of the copy, then writeHAProxyConfig.  Every file is        *)
(* replaced by a rename, and an error with a list ends the run.            *)
WriteTraefik ==
    /\ pc = "traefik"
    /\ \/ /\ listed' = IF "traefik" \in Outputs THEN Has(copy[Sync]) ELSE listed
          /\ IF "haproxy" \in Outputs
             THEN /\ pc' = "haproxy" /\ todo' = Has(copy[Sync])
                  /\ UNCHANGED <<holder, localIdx, changed, failed, fetched, lines>>
             ELSE SyncEnd
       \/ "traefik" \in Outputs /\ "disk" \in Faults /\ SyncEnd /\ UNCHANGED listed
    /\ UNCHANGED <<bucket, copy, dirty, stored, mishaps, files, local, bundle, crtList>>

(* A bundle is built from the files on disk; one that cannot be is skipped.*)
(* Mutant: it gets its line in the crt-list all the same.                  *)
LineAnyway(d) == lines \cup {d}
NoLine(d) == lines

WriteBundle(d) ==
    /\ pc = "haproxy" /\ d \in todo
    /\ todo' = todo \ {d}
    /\ \/ /\ Absent \notin {certFile[d], keyFile[d]}
          /\ bundle' = [bundle EXCEPT ![d] = [cert |-> certFile[d], key |-> keyFile[d]]]
          /\ lines' = IF "crtlist" \in Outputs THEN lines \cup {d} ELSE lines
       \/ /\ Absent \in {certFile[d], keyFile[d]} \/ "disk" \in Faults
          /\ lines' = NoLine(d)
          /\ UNCHANGED bundle
    /\ UNCHANGED <<bucket, holder, copy, dirty, stored, mishaps, files, local, listed, crtList>>
    /\ UNCHANGED <<pc, localIdx, changed, failed, fetched>>

WriteCrtList ==
    /\ pc = "haproxy" /\ todo = {}
    /\ \/ crtList' = IF "crtlist" \in Outputs THEN lines ELSE crtList
       \/ "crtlist" \in Outputs /\ "disk" \in Faults /\ UNCHANGED crtList
    /\ SyncEnd
    /\ UNCHANGED <<bucket, copy, dirty, stored, mishaps, files, local, listed, bundle>>

-----------------------------------------------------------------------------
(* A process ends, in a run or between two, and starts again with the      *)
(* index in S3; the lock it held expires.                                  *)
Crash(p) ==
    /\ mishaps < MaxMishaps
    /\ mishaps' = mishaps + 1
    /\ copy' = [copy EXCEPT ![p] = remote] /\ dirty' = [dirty EXCEPT ![p] = FALSE]
    /\ IF p = Sync
       THEN /\ UNCHANGED stored
            /\ pc' = "idle" /\ localIdx' = Nothing /\ changed' = FALSE /\ failed' = FALSE
            /\ todo' = {} /\ fetched' = NoFetch /\ lines' = {}
       ELSE stored' = (stored /\ holder # p) /\ UNCHANGED run
    /\ holder' = IF holder = p THEN NoOne ELSE holder
    /\ UNCHANGED <<bucket, files, local, outputs>>

(* A certificate object is deleted behind everyone's back.                 *)
Vanish(d) ==
    /\ "vanish" \in Faults /\ object[d] # Absent
    /\ mishaps < MaxMishaps /\ mishaps' = mishaps + 1
    /\ object' = [object EXCEPT ![d] = Absent]
    /\ UNCHANGED <<remote, issued, holder, copy, dirty, stored, files, local, outputs, run>>

SyncStep ==
    \/ LoadLocal \/ Diff \/ DropStale \/ WriteCert \/ WriteKey \/ FetchEnd
    \/ TruncateLocal \/ SaveLocal \/ WriteTraefik \/ WriteCrtList
    \/ \E d \in Domain : Prune(d) \/ Fetch(d) \/ WriteBundle(d)

RenewStep(r) ==
    \/ RenewStart(r) \/ RenewEnd(r)
    \/ \E d \in Domain : StoreCertificate(r, d) \/ Heal(r, d)

Next ==
    \/ SyncStart \/ SyncStep
    \/ \E r \in Renewer : RenewStep(r)
    \/ \E p \in Process : Crash(p)
    \/ \E d \in Domain : Vanish(d)

Spec == Init /\ [][Next]_vars

(* The daemon's ticker starts sync again and again, between the runs of    *)
(* others; every run goes on to its end.                                   *)
Fairness ==
    /\ SF_vars(SyncStart) /\ WF_vars(SyncStep)
    /\ \A r \in Renewer : WF_vars(RenewEnd(r))

LiveSpec == Spec /\ Fairness

-----------------------------------------------------------------------------
(* A bundle holds a certificate and the key that goes with it: sync writes *)
(* the two files one after the other, may fail or crash in between, and    *)
(* builds the bundle from what is on disk.                                 *)
BundleMatches == \A d \in Domain : bundle[d].cert = bundle[d].key

(* A local entry that agrees with the index will not be fetched again, so  *)
(* the files behind it, when both are there, belong together and are no    *)
(* older than the entry says.                                              *)
SettledPair ==
    local # Torn =>
        \A d \in Domain :
            /\ local[d] # Absent /\ local[d] = remote[d]
            /\ Absent \notin {certFile[d], keyFile[d]}
            => certFile[d] = keyFile[d] /\ certFile[d] >= local[d]

(* When a sync run has come to its outputs, every certificate in the index*)
(* is on disk, under its entry.                                            *)
SyncComplete ==
    pc \in {"traefik", "haproxy"} =>
        \A d \in Has(remote) :
            /\ local[d] = remote[d]
            /\ certFile[d] = keyFile[d] /\ certFile[d] >= remote[d]

(* The index does not forget the certificate that is stored: an entry for  *)
(* it is neither dropped nor overwritten by an older one.                  *)
IndexKept ==
    [][\A d \in Domain :
        remote[d] # Absent /\ remote[d] = object[d] => remote'[d] >= remote[d]]_vars

(* What the lists name is there for the proxy to load: a domain of the     *)
(* crt-list has a bundle, always; one of the Traefik file has its pair on  *)
(* disk when a run has written the file.  (A later run that fails may have *)
(* removed files of a domain and leaves the lists as they are.)            *)
ListedIsUsable ==
    /\ \A d \in crtList : bundle[d] # NoBundle
    /\ pc = "haproxy" /\ "traefik" \in Outputs =>
            \A d \in listed : certFile[d] = keyFile[d] /\ certFile[d] # Absent

(* A certificate in the index is served in the end, by both proxies: its   *)
(* pair is on disk and in its bundle, and the lists name its domain.  That *)
(* is, unless its object goes away or a crash has left the local index     *)
(* torn.                                                                   *)
Served(d, v) ==
    /\ certFile[d] = keyFile[d] /\ certFile[d] >= v /\ d \in listed
    /\ bundle[d].cert = bundle[d].key /\ bundle[d].cert >= v /\ d \in crtList
IndexedIsServed ==
    \A d \in Domain, v \in Version :
        remote[d] = v ~> Served(d, v) \/ object[d] = Absent \/ local = Torn
=============================================================================
