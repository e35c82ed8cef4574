---------------------------- MODULE ClosetProofs ----------------------------
(***************************************************************************)
(* The closet and sync with one renewer on the bucket, for any domains,    *)
(* faults and number of mishaps: what is on disk fits the indexes.         *)
(***************************************************************************)
EXTENDS Closet, TLAPS

OneRenewer == \A r, s \in Renewer : r = s

Below(x, y) == x # Absent /\ y # Absent => x <= y

(* What the indexes say of a domain only grows from the disk to the        *)
(* renewer, and no entry is newer than the object.                         *)
IndexesOrdered ==
    \A d \in Domain :
        /\ object[d] <= issued[d] /\ remote[d] <= issued[d]
        /\ Below(remote[d], object[d]) /\ Below(copy[Sync][d], remote[d])
        /\ \A p \in Process : copy[p][d] <= issued[d] /\ Below(copy[p][d], object[d])
        /\ \A r \in Renewer : Below(copy[Sync][d], copy[r][d]) /\ Below(remote[d], copy[r][d])

LocalOrdered(index) ==
    \A d \in Domain :
        /\ index[d] <= issued[d] /\ Below(index[d], remote[d])
        /\ \A p \in Process : Below(index[d], copy[p][d])

(* A local entry is attached when some process may still take it for the   *)
(* current one; then the files must live up to it.                         *)
Attached(index, d) ==
    index[d] # Absent /\ (index[d] = remote[d] \/ \E p \in Process : index[d] = copy[p][d])

Good(d, v) == certFile[d] = keyFile[d] /\ certFile[d] # Absent /\ certFile[d] >= v

Settled(index) == \A d \in Domain : Attached(index, d) => Good(d, index[d])

(* An entry that has left the index is not in the renewer's copy as it was.*)
NotBack(index) ==
    \A d \in Domain, r \in Renewer :
        remote[d] = Absent /\ copy[r][d] # Absent => copy[r][d] # index[d]

(* An entry for the stored object is in the index and in the renewer's copy*)
EntriesKept ==
    \A d \in Domain : object[d] # Absent =>
        /\ copy[Sync][d] = object[d] => remote[d] = object[d]
        /\ remote[d] = object[d] => \A r \in Renewer : copy[r][d] = object[d]

IndexInv ==
    /\ IndexesOrdered /\ EntriesKept
    /\ LocalOrdered(localIdx) /\ Settled(localIdx) /\ NotBack(localIdx)
    /\ local # Torn => LocalOrdered(local) /\ Settled(local) /\ NotBack(local)
    /\ NotBack(copy[Sync])

-----------------------------------------------------------------------------
Handling == {"gone", "cert", "key"}
Fetching == {"fetch", "truncate", "save"} \cup Handling

(* The domains whose files a run may still touch.                          *)
Waiting == IF pc \in Handling THEN todo \cup {fetched.domain} ELSE todo

(* The copy of sync is the index, but for an entry whose removal from the  *)
(* index has failed.                                                       *)
CopyIsIndex ==
    \A d \in Domain : remote[d] # Absent =>
        \/ copy[Sync][d] = remote[d]
        \/ /\ pc \in Fetching /\ failed /\ object[d] = Absent /\ copy[Sync][d] = Absent
           /\ localIdx[d] = Absent /\ (local # Torn => ~Attached(local, d))

PruneInv ==
    /\ \A d \in todo : copy[Sync][d] = Absent
    /\ \A d \in Domain :
        \/ localIdx[d] = local[d]
        \/ localIdx[d] = Absent /\ (copy[Sync][d] = Absent \/ Absent \in {certFile[d], keyFile[d]})

FetchInv ==
    /\ \A d \in Waiting : copy[Sync][d] # Absent /\ ~Attached(localIdx, d)
    /\ local # Torn => \A d \in Waiting : ~Attached(local, d)
    /\ \A d \in Domain : copy[Sync][d] # Absent =>
            failed \/ localIdx[d] = copy[Sync][d] \/ d \in Waiting
    /\ pc \in {"truncate", "save"} => todo = {}

HandlingInv ==
    /\ fetched.domain \notin todo
    /\ pc = "gone" => object[fetched.domain] = Absent
    /\ pc \in {"cert", "key"} => fetched.version \in Version /\ fetched.version >= copy[Sync][fetched.domain]
    /\ pc = "key" => certFile[fetched.domain] = fetched.version

OutputInv ==
    /\ \A d \in Domain : copy[Sync][d] # Absent => local[d] = copy[Sync][d]
    /\ pc = "haproxy" => \A d \in todo : copy[Sync][d] # Absent
    /\ pc = "haproxy" /\ "traefik" \in Outputs => listed = Has(copy[Sync])

RunInv ==
    /\ pc # "idle" => CopyIsIndex
    /\ local = Torn => pc \in {"idle", "load", "save"}
    /\ pc \in {"prune", "fetch"} \cup Handling => (changed \/ localIdx = local)
    /\ pc = "prune" => PruneInv
    /\ pc \in Fetching => FetchInv
    /\ pc \in Handling => HandlingInv
    /\ pc \in {"traefik", "haproxy"} => OutputInv

ListInv == \A d \in crtList \cup lines : bundle[d] # NoBundle

ClosetInv == ClosetTypeOK /\ IndexInv /\ RunInv /\ BundleMatches /\ ListInv

-----------------------------------------------------------------------------
LEMMA Versions == Version \subseteq Nat /\ Absent \notin Version /\ Absent \in Nat
    BY ClosetAssumption DEF Version, Absent

LEMMA ClosetInit == Init => ClosetInv
<1> SUFFICES ASSUME Init PROVE ClosetInv
    OBVIOUS
<1> USE ClosetAssumption DEF Init, Nothing, Absent
<1>1. ClosetTypeOK
    <2>1. /\ copy \in [Process -> Index] /\ dirty \in [Process -> BOOLEAN]
          /\ bundle \in [Domain -> [cert : Version, key : Version] \cup {NoBundle}]
        BY DEF Index
    <2>2. /\ stored \in BOOLEAN /\ changed \in BOOLEAN /\ failed \in BOOLEAN
          /\ fetched = NoFetch /\ pc = "idle" /\ holder # Sync /\ holder \in Process \cup {NoOne}
        BY DEF Process
    <2>3. /\ object \in Index /\ remote \in Index /\ issued \in Index /\ local \in Index
          /\ certFile \in Index /\ keyFile \in Index /\ localIdx \in Index
        BY DEF Index
    <2>4. /\ todo \subseteq Domain /\ lines \subseteq Domain /\ listed \subseteq Domain
          /\ crtList \subseteq Domain /\ mishaps \in 0..MaxMishaps
        OBVIOUS
    <2> QED BY <2>1, <2>2, <2>3, <2>4 DEF ClosetTypeOK
<1>2. IndexInv
    BY DEF IndexInv, IndexesOrdered, EntriesKept, LocalOrdered, Settled, NotBack, Below, Attached, Process
<1>3. RunInv
    BY DEF RunInv, Fetching, Handling, Index
<1>4. BundleMatches /\ ListInv
    BY DEF BundleMatches, ListInv, NoBundle
<1> QED BY <1>1, <1>2, <1>3, <1>4 DEF ClosetInv

LEMMA SaveIndexType ==
    ASSUME ClosetTypeOK, NEW p \in Process, NEW index \in Index,
           NEW isDirty, NEW ok \in BOOLEAN, SaveIndex(p, index, isDirty, ok)
    PROVE  remote' \in Index /\ dirty' \in [Process -> BOOLEAN]
<1>1. remote' \in {index, remote}
    BY DEF SaveIndex
<1>2. dirty' \in [Process -> BOOLEAN]
    <2>1. CASE ok = TRUE
        BY <2>1 DEF SaveIndex, ClosetTypeOK
    <2>2. CASE ok = FALSE
        BY <2>2 DEF SaveIndex, ClosetTypeOK
    <2> QED BY <2>1, <2>2
<1> QED BY <1>1, <1>2 DEF ClosetTypeOK

LEMMA SyncEndType ==
    ASSUME SyncEnd
    PROVE  /\ pc' = "idle" /\ holder' = NoOne /\ todo' = {} /\ lines' = {}
           /\ localIdx' = Nothing /\ Nothing \in Index
           /\ changed' \in BOOLEAN /\ failed' \in BOOLEAN /\ fetched' = NoFetch
    BY DEF SyncEnd, Released, Nothing, Index

LEMMA TypeStep == ClosetTypeOK /\ [Next]_vars => ClosetTypeOK'
<1> SUFFICES ASSUME ClosetTypeOK, [Next]_vars PROVE ClosetTypeOK'
    OBVIOUS
<1> USE ClosetAssumption DEF ClosetTypeOK, Index, Version, Absent, Process, Has, bucket, files, outputs, run
<1>1. ASSUME NEW r \in Renewer, RenewStart(r) PROVE ClosetTypeOK'
    BY <1>1 DEF RenewStart
<1>2. ASSUME NEW r \in Renewer, NEW d \in Domain, StoreCertificate(r, d) PROVE ClosetTypeOK'
    <2>1. issued[d] + 1 \in Version /\ r \in Process
        BY <1>2 DEF StoreCertificate
    <2>2. issued' \in Index /\ object' \in Index
        BY <1>2, <2>1 DEF StoreCertificate
    <2>3. copy' \in [Process -> Index]
        BY <1>2, <2>1 DEF StoreCertificate
    <2>4. dirty' \in [Process -> BOOLEAN] /\ stored' \in BOOLEAN
        BY <1>2, <2>1, Zenon DEF StoreCertificate
    <2> QED BY <1>2, <2>2, <2>3, <2>4 DEF StoreCertificate
<1>3. ASSUME NEW r \in Renewer, NEW d \in Domain, Heal(r, d) PROVE ClosetTypeOK'
    BY <1>3 DEF Heal, SaveIndex
<1>4. ASSUME NEW r \in Renewer, RenewEnd(r) PROVE ClosetTypeOK'
    <2>1. remote' \in Index /\ dirty' \in [Process -> BOOLEAN]
        <3>1. r \in Process /\ copy[r] \in Index
            OBVIOUS
        <3> QED BY <1>4, <3>1, SaveIndexType DEF RenewEnd
    <2> QED BY <1>4, <2>1 DEF RenewEnd
<1>5. CASE SyncStart
    BY <1>5 DEF SyncStart, Refreshed
<1>6. CASE LoadLocal
    <2>1. CASE local = Torn
        BY <1>6, <2>1, SyncEndType DEF LoadLocal
    <2>2. CASE local # Torn
        <3>1. localIdx' \in Index
            BY <1>6, <2>2 DEF LoadLocal
        <3>2. changed' \in BOOLEAN
            BY <1>6, <2>2 DEF LoadLocal
        <3> QED BY <1>6, <2>2, <3>1, <3>2 DEF LoadLocal
    <2> QED BY <2>1, <2>2
<1>7. ASSUME NEW d \in Domain, Prune(d) PROVE ClosetTypeOK'
    BY <1>7 DEF Prune, RemoveFiles
<1>8. CASE Diff
    BY <1>8 DEF Diff, GetDiff
<1>9. ASSUME NEW d \in Domain, Fetch(d) PROVE ClosetTypeOK'
    <2>1. CASE UNCHANGED <<fetched, pc>> /\ failed' = TRUE
        BY <1>9, <2>1 DEF Fetch
    <2>2. CASE /\ fetched' = [domain |-> d, version |-> object[d]]
               /\ pc' \in {"gone", "cert"} /\ UNCHANGED failed
        <3>1. fetched' \in [domain : Domain, version : Version \cup {Absent}] /\ fetched'.domain \in Domain
            BY <2>2
        <3> QED BY <1>9, <2>2, <3>1 DEF Fetch
    <2> QED BY <1>9, <2>1, <2>2 DEF Fetch
<1>10. CASE DropStale
    BY SMTT(30), <1>10 DEF DropStale, SaveIndex, RemoveFiles, NoFetch
<1>11. CASE WriteCert
    <2>1. CASE WriteFailed
        BY <1>11, <2>1 DEF WriteCert, WriteFailed, NotNoted
    <2>2. CASE ~WriteFailed
        <3>1. fetched \in [domain : Domain, version : Version \cup {Absent}] /\ fetched.domain \in Domain
            BY <1>11 DEF WriteCert, NoFetch
        <3>2. certFile' \in Index /\ keyFile' \in Index /\ localIdx' \in Index
            BY <1>11, <2>2, <3>1 DEF WriteCert
        <3> QED BY <1>11, <2>2, <3>2 DEF WriteCert
    <2> QED BY <2>1, <2>2
<1>12. CASE WriteKey
    <2>1. CASE WriteFailed
        BY <1>12, <2>1 DEF WriteKey, WriteFailed, NotNoted
    <2>2. CASE ~WriteFailed
        <3>1. fetched \in [domain : Domain, version : Version \cup {Absent}] /\ fetched.domain \in Domain
            BY <1>12 DEF WriteKey, NoFetch
        <3>2. certFile' \in Index /\ keyFile' \in Index /\ localIdx' \in Index
            BY <1>12, <2>2, <3>1 DEF WriteKey
        <3> QED BY <1>12, <2>2, <3>2 DEF WriteKey
    <2> QED BY <2>1, <2>2
<1>13. CASE FetchEnd
    BY ZenonT(40), <1>13 DEF FetchEnd, AfterCerts, SyncFailed, SyncEnd, Released, Nothing, NoFetch
<1>14. CASE TruncateLocal
    BY <1>14 DEF TruncateLocal
<1>15. CASE SaveLocal
    BY <1>15 DEF SaveLocal, AfterCerts, SyncFailed, SyncEnd, Released, Nothing, NoFetch
<1>16. CASE WriteTraefik
    BY <1>16 DEF WriteTraefik, SyncEnd, Released, Nothing, NoFetch
<1>17. ASSUME NEW d \in Domain, WriteBundle(d) PROVE ClosetTypeOK'
    BY <1>17 DEF WriteBundle, NoLine
<1>18. CASE WriteCrtList
    BY <1>18 DEF WriteCrtList, SyncEnd, Released, Nothing, NoFetch
<1>19. ASSUME NEW p \in Process, Crash(p) PROVE ClosetTypeOK'
    <2>1. copy' \in [Process -> Index] /\ dirty' \in [Process -> BOOLEAN]
        BY <1>19 DEF Crash
    <2>2. mishaps' \in 0..MaxMishaps /\ holder' \in Process \cup {NoOne}
        BY <1>19 DEF Crash
    <2>3. CASE p = Sync
        <3>1. Nothing \in Index /\ holder' # Sync
            BY <1>19, <2>3 DEF Crash, Nothing
        <3>2. /\ pc' = "idle" /\ localIdx' = Nothing /\ changed' = FALSE /\ failed' = FALSE
              /\ todo' = {} /\ fetched' = NoFetch /\ lines' = {} /\ UNCHANGED stored
            BY <1>19, <2>3 DEF Crash
        <3>3. UNCHANGED <<object, remote, issued, certFile, keyFile, local, listed, bundle, crtList>>
            BY <1>19 DEF Crash
        <3> QED BY <2>1, <2>2, <3>1, <3>2, <3>3
    <2>4. CASE p # Sync
        <3>1. stored' \in BOOLEAN
            BY <1>19, <2>4 DEF Crash
        <3> QED BY <1>19, <2>1, <2>2, <2>4, <3>1 DEF Crash
    <2> QED BY <2>3, <2>4
<1>20. ASSUME NEW d \in Domain, Vanish(d) PROVE ClosetTypeOK'
    BY <1>20 DEF Vanish
<1>21. CASE UNCHANGED vars
    BY <1>21 DEF vars
<1> QED
    BY <1>1, <1>2, <1>3, <1>4, <1>5, <1>6, <1>7, <1>8, <1>9, <1>10, <1>11, <1>12, <1>13, <1>14,
       <1>15, <1>16, <1>17, <1>18, <1>19, <1>20, <1>21
    DEF Next, SyncStep, RenewStep

-----------------------------------------------------------------------------
LEMMA Numbers ==
    ASSUME ClosetTypeOK
    PROVE  /\ \A d \in Domain :
                /\ object[d] \in Nat /\ remote[d] \in Nat /\ issued[d] \in Nat
                /\ certFile[d] \in Nat /\ keyFile[d] \in Nat /\ localIdx[d] \in Nat
                /\ local # Torn => local[d] \in Nat
                /\ \A p \in Process : copy[p][d] \in Nat
           /\ Renewer \subseteq Process /\ Sync \in Process /\ Sync \notin Renewer
           /\ \A p \in Process : p \in Renewer \/ p = Sync
           /\ Absent = 0
    BY Versions, ClosetAssumption DEF ClosetTypeOK, Index, Process, Absent

LEMMA IndexSame ==
    ASSUME IndexInv, UNCHANGED <<object, remote, issued, copy>>,
           UNCHANGED <<localIdx, local, certFile, keyFile>>
    PROVE  IndexInv'
<1>1. IndexesOrdered' /\ EntriesKept'
    BY DEF IndexInv, IndexesOrdered, EntriesKept, Below
<1>2. LocalOrdered(localIdx)' /\ Settled(localIdx)' /\ NotBack(localIdx)' /\ NotBack(copy[Sync])'
    BY DEF IndexInv, LocalOrdered, Settled, NotBack, Attached, Good, Below
<1>3. local' # Torn => LocalOrdered(local)' /\ Settled(local)' /\ NotBack(local)'
    BY DEF IndexInv, LocalOrdered, Settled, NotBack, Attached, Good, Below
<1> QED BY <1>1, <1>2, <1>3 DEF IndexInv

(* The renewer writes its copy back, having dropped entries without object.*)
LEMMA WriteBack ==
    ASSUME ClosetTypeOK, IndexInv, OneRenewer, NEW r \in Renewer, NEW D \in SUBSET Domain,
           \A d \in D : object[d] = Absent,
           \A p \in Process, e \in Domain :
                copy'[p][e] = IF p = r /\ e \in D THEN Absent ELSE copy[p][e],
           remote' = remote \/ \A e \in Domain : remote'[e] = copy'[r][e],
           UNCHANGED <<object, issued, localIdx, local, certFile, keyFile>>
    PROVE  IndexInv'
<1> USE Numbers
<1>1. IndexesOrdered'
    BY DEF IndexInv, IndexesOrdered, Below, OneRenewer
<1>2. EntriesKept'
    BY DEF IndexInv, EntriesKept, OneRenewer
<1>3. LocalOrdered(localIdx)' /\ Settled(localIdx)' /\ NotBack(localIdx)'
    BY DEF IndexInv, LocalOrdered, Settled, NotBack, Attached, Good, Below, OneRenewer
<1>4. local' # Torn => LocalOrdered(local)' /\ Settled(local)' /\ NotBack(local)'
    BY DEF IndexInv, LocalOrdered, Settled, NotBack, Attached, Good, Below, OneRenewer
<1>5. NotBack(copy[Sync])'
    BY DEF IndexInv, NotBack, OneRenewer
<1> QED BY <1>1, <1>2, <1>3, <1>4, <1>5 DEF IndexInv

(* The renewer's actions, while sync is idle.                              *)
LEMMA RenewerStep ==
    ASSUME ClosetInv, OneRenewer, NEW r \in Renewer, RenewStep(r)
    PROVE  IndexInv' /\ RunInv' /\ BundleMatches' /\ ListInv'
<1> USE Numbers DEF ClosetInv
<1>1. /\ pc = "idle" /\ holder # Sync /\ pc' = pc
      /\ UNCHANGED <<localIdx, local, bundle, crtList, lines, listed, certFile, keyFile>>
    BY ClosetAssumption DEF RenewStep, RenewStart, RenewEnd, StoreCertificate, Heal, ClosetTypeOK, outputs, run, files, bucket
<1>2. RunInv' /\ BundleMatches' /\ ListInv'
    BY <1>1 DEF RunInv, BundleMatches, ListInv, Fetching, Handling
<1>3. ASSUME RenewStart(r) PROVE IndexInv'
    <2>1. UNCHANGED <<object, remote, issued, copy>>
        BY <1>1, <1>3 DEF RenewStart, bucket
    <2>2. UNCHANGED <<localIdx, local, certFile, keyFile>>
        BY <1>1
    <2> QED BY <2>1, <2>2, IndexSame
<1>4. ASSUME NEW d \in Domain, StoreCertificate(r, d) PROVE IndexInv'
    <2>1. /\ \A e \in Domain : issued'[e] = IF e = d THEN issued[d] + 1 ELSE issued[e]
          /\ \A e \in Domain : object'[e] = object[e] \/ (e = d /\ object'[e] = issued[d] + 1)
          /\ \A p \in Process, e \in Domain :
                copy'[p][e] = copy[p][e] \/ (p = r /\ e = d /\ copy'[p][e] = issued[d] + 1 /\ object'[e] = issued[d] + 1)
          /\ remote' = remote
        BY <1>4 DEF StoreCertificate, ClosetTypeOK, Index
    <2>2. IndexesOrdered'
        BY <2>1 DEF IndexInv, IndexesOrdered, Below
    <2>3. EntriesKept'
        BY <2>1 DEF IndexInv, IndexesOrdered, EntriesKept
    <2>4. LocalOrdered(localIdx)' /\ Settled(localIdx)' /\ NotBack(localIdx)'
        BY <1>1, <2>1 DEF IndexInv, LocalOrdered, Settled, NotBack, Attached, Good, Below
    <2>5. local' # Torn => LocalOrdered(local)' /\ Settled(local)' /\ NotBack(local)'
        BY <1>1, <2>1 DEF IndexInv, LocalOrdered, Settled, NotBack, Attached, Good, Below
    <2>6. NotBack(copy[Sync])'
        BY <1>1, <2>1 DEF IndexInv, IndexesOrdered, NotBack
    <2> QED BY <2>2, <2>3, <2>4, <2>5, <2>6 DEF IndexInv
<1>5. ASSUME NEW d \in Domain, Heal(r, d) PROVE IndexInv'
    <2>1. \A p \in Process, e \in Domain :
                copy'[p][e] = IF p = r /\ e \in {d} THEN Absent ELSE copy[p][e]
        BY <1>5 DEF Heal, ClosetTypeOK, Index
    <2>2. remote' = remote \/ remote' = [copy[r] EXCEPT ![d] = Absent]
        BY <1>5 DEF Heal, SaveIndex
    <2>3. remote' = remote \/ \A e \in Domain : remote'[e] = copy'[r][e]
        BY <1>5, <2>2 DEF Heal, ClosetTypeOK
    <2>4. object[d] = Absent /\ UNCHANGED <<object, issued>>
        BY <1>5 DEF Heal
    <2>5. UNCHANGED <<object, issued, localIdx, local, certFile, keyFile>>
        BY <1>1, <2>4
    <2>6. {d} \in SUBSET Domain /\ \A e \in {d} : object[e] = Absent
        BY <2>4
    <2> HIDE DEF ClosetInv
    <2> QED BY ZenonT(40), <2>1, <2>3, <2>5, <2>6, WriteBack DEF ClosetInv
<1>6. ASSUME RenewEnd(r) PROVE IndexInv'
    <2>1. remote' = remote \/ remote' = copy[r]
        BY <1>6 DEF RenewEnd, SaveIndex
    <2>2. UNCHANGED <<copy, object, issued>>
        BY <1>6 DEF RenewEnd
    <2>3. \A p \in Process, e \in Domain :
                copy'[p][e] = IF p = r /\ e \in {} THEN Absent ELSE copy[p][e]
        BY <2>2
    <2>4. remote' = remote \/ \A e \in Domain : remote'[e] = copy'[r][e]
        BY <2>1, <2>2
    <2>5. UNCHANGED <<object, issued, localIdx, local, certFile, keyFile>>
        BY <1>1, <2>2
    <2>6. {} \in SUBSET Domain /\ \A e \in {} : object[e] = Absent
        OBVIOUS
    <2> HIDE DEF ClosetInv
    <2> QED BY <2>3, <2>4, <2>5, <2>6, WriteBack DEF ClosetInv
<1> QED BY <1>2, <1>3, <1>4, <1>5, <1>6 DEF RenewStep

-----------------------------------------------------------------------------
LEMMA IdleRun == pc' = "idle" => RunInv'
    BY DEF RunInv, Fetching, Handling

(* A step that changes no index but the local ones, and no file.           *)
LEMMA IndexLocal ==
    ASSUME ClosetTypeOK, IndexInv, UNCHANGED <<object, remote, issued, copy>>,
           UNCHANGED <<certFile, keyFile>>,
           \A d \in Domain : localIdx'[d] \in {Absent, localIdx[d]} \/ (local # Torn /\ localIdx'[d] = local[d]),
           local' \in {Torn, local, localIdx}
    PROVE  IndexInv'
<1> USE Numbers
<1>1. IndexesOrdered' /\ EntriesKept' /\ NotBack(copy[Sync])'
    BY DEF IndexInv, IndexesOrdered, EntriesKept, NotBack, Below
<1>2. LocalOrdered(localIdx)' /\ Settled(localIdx)' /\ NotBack(localIdx)'
    BY DEF IndexInv, LocalOrdered, Settled, NotBack, Attached, Good, Below
<1>3. local' # Torn => LocalOrdered(local)' /\ Settled(local)' /\ NotBack(local)'
    BY DEF IndexInv, LocalOrdered, Settled, NotBack, Attached, Good, Below
<1> QED BY <1>1, <1>2, <1>3 DEF IndexInv

(* The files of a domain change whose entries are not attached.            *)
LEMMA FilesChange ==
    ASSUME IndexInv, UNCHANGED <<object, remote, issued, copy>>, UNCHANGED <<localIdx, local>>,
           NEW d \in Domain, ~Attached(localIdx, d), local # Torn => ~Attached(local, d),
           \A e \in Domain : e # d => certFile'[e] = certFile[e] /\ keyFile'[e] = keyFile[e]
    PROVE  IndexInv'
<1>1. IndexesOrdered' /\ EntriesKept' /\ NotBack(copy[Sync])'
    BY DEF IndexInv, IndexesOrdered, EntriesKept, NotBack, Below
<1>2. LocalOrdered(localIdx)' /\ Settled(localIdx)' /\ NotBack(localIdx)'
    BY DEF IndexInv, LocalOrdered, Settled, NotBack, Attached, Good, Below
<1>3. local' # Torn => LocalOrdered(local)' /\ Settled(local)' /\ NotBack(local)'
    BY DEF IndexInv, LocalOrdered, Settled, NotBack, Attached, Good, Below
<1> QED BY <1>1, <1>2, <1>3 DEF IndexInv

LEMMA StartAndLoad ==
    ASSUME ClosetInv, OneRenewer, SyncStart \/ LoadLocal
    PROVE  IndexInv' /\ RunInv' /\ BundleMatches' /\ ListInv'
<1> USE Numbers DEF ClosetInv
<1>1. BundleMatches' /\ ListInv' /\ UNCHANGED <<certFile, keyFile, local>>
    BY DEF SyncStart, LoadLocal, SyncEnd, outputs, files, BundleMatches, ListInv
<1>2. ASSUME SyncStart PROVE IndexInv' /\ RunInv'
    <2>1. /\ \A d \in Domain : copy'[Sync][d] = IF remote[d] # Absent THEN remote[d] ELSE copy[Sync][d]
          /\ \A p \in Renewer : copy'[p] = copy[p]
          /\ UNCHANGED <<object, remote, issued, localIdx>>
        BY <1>2 DEF SyncStart, Refreshed, ClosetTypeOK, bucket
    <2>2. IndexesOrdered' /\ EntriesKept'
        BY <2>1 DEF IndexInv, IndexesOrdered, EntriesKept, Below
    <2>3. LocalOrdered(localIdx)' /\ Settled(localIdx)' /\ NotBack(localIdx)' /\ NotBack(copy[Sync])'
        BY <1>1, <2>1 DEF IndexInv, LocalOrdered, Settled, NotBack, Attached, Good, Below
    <2>4. local' # Torn => LocalOrdered(local)' /\ Settled(local)' /\ NotBack(local)'
        BY <1>1, <2>1 DEF IndexInv, LocalOrdered, Settled, NotBack, Attached, Good, Below
    <2>5. pc' = "load" /\ CopyIsIndex'
        BY <1>2, <2>1 DEF SyncStart, CopyIsIndex
    <2> QED BY <2>2, <2>3, <2>4, <2>5 DEF IndexInv, RunInv, Fetching, Handling
<1>3. ASSUME LoadLocal PROVE IndexInv' /\ RunInv'
    <2>1. UNCHANGED <<object, remote, issued, copy>>
        BY <1>3 DEF LoadLocal, bucket
    <2>2. CASE local = Torn
        <3>1. pc' = "idle" /\ \A d \in Domain : localIdx'[d] = Absent
            BY <1>3, <2>2 DEF LoadLocal, SyncEnd, Nothing
        <3>2. IndexInv'
            BY <1>1, <2>1, <3>1, IndexLocal
        <3> QED BY <3>1, <3>2, IdleRun
    <2>3. CASE local # Torn
        <3>1. /\ \A d \in Domain : localIdx'[d] = IF Absent \in {certFile[d], keyFile[d]} THEN Absent ELSE local[d]
              /\ changed' = (localIdx' # local) /\ todo' = Has(localIdx') \ Has(copy[Sync])
              /\ pc' = "prune" /\ pc = "load"
            BY <1>3, <2>3 DEF LoadLocal
        <3>2. IndexInv'
            <4>1. \A d \in Domain : localIdx'[d] \in {Absent, localIdx[d]} \/ (local # Torn /\ localIdx'[d] = local[d])
                BY <2>3, <3>1
            <4> QED BY <1>1, <2>1, <4>1, IndexLocal
        <3>3. CopyIsIndex'
            BY <2>1, <3>1 DEF RunInv, CopyIsIndex, Fetching, Handling
        <3>4. PruneInv'
            BY <1>1, <2>1, <3>1 DEF PruneInv, Has
        <3>5. changed' \/ localIdx' = local'
            BY <1>1, <3>1
        <3> QED BY <1>1, <2>3, <3>1, <3>2, <3>3, <3>4, <3>5 DEF RunInv, Fetching, Handling
    <2> QED BY <2>2, <2>3
<1> QED BY <1>1, <1>2, <1>3

LEMMA PruneAndDiff ==
    ASSUME ClosetInv, OneRenewer, Diff \/ \E d \in Domain : Prune(d)
    PROVE  IndexInv' /\ RunInv' /\ BundleMatches' /\ ListInv'
<1> USE Numbers DEF ClosetInv
<1>1. /\ BundleMatches' /\ ListInv' /\ UNCHANGED <<object, remote, issued, copy>>
      /\ pc = "prune" /\ UNCHANGED local /\ local # Torn /\ PruneInv /\ CopyIsIndex
      /\ \A d \in Domain : remote[d] # Absent => copy[Sync][d] = remote[d]
    BY DEF Diff, Prune, outputs, bucket, BundleMatches, ListInv, RunInv, CopyIsIndex, Fetching, Handling
<1>2. ASSUME NEW d \in Domain, Prune(d) PROVE IndexInv' /\ RunInv'
    <2>1. /\ \A e \in Domain : e # d => certFile'[e] = certFile[e] /\ keyFile'[e] = keyFile[e]
          /\ \A e \in Domain : localIdx'[e] = localIdx[e] \/ (e = d /\ localIdx'[e] = Absent)
          /\ todo' = todo \ {d} /\ d \in todo /\ pc' = "prune"
          /\ changed' \/ (changed' = changed /\ localIdx' = localIdx)
        BY <1>2, <1>1 DEF Prune, RemoveFiles, ClosetTypeOK, Index
    <2>2. remote[d] = Absent /\ copy[Sync][d] = Absent
        BY <1>1, <2>1 DEF PruneInv
    <2>3. ~Attached(localIdx, d) /\ ~Attached(local, d)
        BY <1>1, <2>2 DEF Attached, IndexInv, NotBack
    <2>4. IndexesOrdered' /\ EntriesKept' /\ NotBack(copy[Sync])'
        BY <1>1 DEF IndexInv, IndexesOrdered, EntriesKept, NotBack, Below
    <2>5. LocalOrdered(localIdx)' /\ Settled(localIdx)' /\ NotBack(localIdx)'
        BY <1>1, <2>1, <2>3 DEF IndexInv, LocalOrdered, Settled, NotBack, Attached, Good, Below
    <2>6. LocalOrdered(local)' /\ Settled(local)' /\ NotBack(local)'
        BY <1>1, <2>1, <2>3 DEF IndexInv, LocalOrdered, Settled, NotBack, Attached, Good, Below
    <2>7. CopyIsIndex'
        BY <1>1 DEF CopyIsIndex
    <2>8. PruneInv'
        BY <1>1, <2>1, <2>2 DEF PruneInv
    <2>9. changed' \/ localIdx' = local'
        BY <1>1, <2>1 DEF RunInv
    <2> QED BY <1>1, <2>1, <2>4, <2>5, <2>6, <2>7, <2>8, <2>9 DEF IndexInv, RunInv, Fetching, Handling
<1>3. ASSUME Diff PROVE IndexInv' /\ RunInv'
    <2>1. /\ UNCHANGED <<certFile, keyFile>> /\ UNCHANGED <<localIdx, changed>>
          /\ todo' = GetDiff /\ todo = {}
          /\ pc' = IF GetDiff = {} /\ ~changed THEN "traefik" ELSE "fetch"
        BY <1>3 DEF Diff, files
    <2>2. IndexInv'
        BY <1>1, <2>1, IndexSame
    <2>3. CopyIsIndex'
        BY <1>1 DEF CopyIsIndex
    <2>4. changed \/ localIdx = local
        BY <1>1 DEF RunInv
    <2>5. CASE pc' = "traefik"
        <3>1. OutputInv'
            BY <1>1, <2>1, <2>4, <2>5 DEF OutputInv, GetDiff, Has
        <3> QED BY <1>1, <2>2, <2>3, <2>5, <3>1 DEF RunInv, Fetching, Handling
    <2>6. CASE pc' = "fetch"
        <3>1. \A d \in GetDiff : ~Attached(localIdx, d) /\ ~Attached(local, d)
            <4> SUFFICES ASSUME NEW d \in GetDiff PROVE ~Attached(localIdx, d) /\ ~Attached(local, d)
                OBVIOUS
            <4>1. d \in Domain /\ copy[Sync][d] # Absent /\ localIdx[d] # copy[Sync][d]
                BY DEF GetDiff, Has
            <4>2. CASE localIdx[d] = local[d]
                BY <1>1, <4>1, <4>2 DEF Attached, IndexInv, IndexesOrdered, LocalOrdered, Below
            <4>3. CASE localIdx[d] = Absent /\ Absent \in {certFile[d], keyFile[d]}
                BY <1>1, <4>1, <4>3 DEF Attached, Good, IndexInv, Settled
            <4> QED BY <1>1, <4>1, <4>2, <4>3 DEF PruneInv
        <3>2. FetchInv'
            <4>1. Waiting' = GetDiff
                BY <2>1, <2>6 DEF Waiting, Handling
            <4>2. \A d \in Waiting' : copy[Sync][d] # Absent /\ ~Attached(localIdx, d)' /\ ~Attached(local, d)'
                BY <1>1, <2>1, <3>1, <4>1 DEF Attached, GetDiff, Has
            <4>3. \A d \in Domain : copy[Sync][d] # Absent => localIdx[d] = copy[Sync][d] \/ d \in Waiting'
                BY <4>1 DEF GetDiff, Has
            <4> QED BY <1>1, <2>1, <2>6, <4>2, <4>3 DEF FetchInv
        <3> QED BY <1>1, <2>1, <2>2, <2>3, <2>4, <2>6, <3>2 DEF RunInv, Fetching, Handling
    <2> QED BY <2>1, <2>5, <2>6
<1> QED BY <1>1, <1>2, <1>3

LEMMA FetchStep ==
    ASSUME ClosetInv, NEW d \in Domain, Fetch(d)
    PROVE  IndexInv' /\ RunInv' /\ BundleMatches' /\ ListInv'
<1> USE Numbers DEF ClosetInv
<1>1. /\ BundleMatches' /\ ListInv' /\ UNCHANGED <<object, remote, issued, copy>>
      /\ UNCHANGED <<certFile, keyFile>> /\ UNCHANGED <<localIdx, local, changed>>
    BY DEF Fetch, outputs, bucket, files, BundleMatches, ListInv
<1>2. /\ pc = "fetch" /\ d \in todo /\ todo' = todo \ {d} /\ CopyIsIndex /\ FetchInv
      /\ changed \/ localIdx = local
      /\ local # Torn /\ Waiting = todo
    BY DEF Fetch, RunInv, Fetching, Handling, Waiting
<1>3. IndexInv'
    BY <1>1, <1>2, IndexSame
<1>4. CASE failed' = TRUE /\ pc' = "fetch"
    <2>1. FetchInv'
        BY <1>1, <1>2, <1>4 DEF FetchInv, Waiting, Handling, Attached
    <2>2. CopyIsIndex'
        BY <1>1, <1>2, <1>4 DEF CopyIsIndex, Fetching, Handling, Attached
    <2> QED BY <1>1, <1>2, <1>3, <1>4, <2>1, <2>2 DEF RunInv, Fetching, Handling
<1>5. CASE /\ fetched' = [domain |-> d, version |-> object[d]] /\ failed' = failed
           /\ pc' = IF object[d] = Absent THEN "gone" ELSE "cert"
    <2>1. Waiting' = todo
        BY <1>2, <1>5 DEF Waiting, Handling
    <2>2. FetchInv'
        BY <1>1, <1>2, <1>5, <2>1 DEF FetchInv, Attached
    <2>3. CopyIsIndex'
        BY <1>1, <1>2, <1>5 DEF CopyIsIndex, Fetching, Handling, Attached
    <2>4. HandlingInv'
        BY <1>1, <1>2, <1>5, Versions DEF HandlingInv, IndexInv, IndexesOrdered, Below, ClosetTypeOK, Index
    <2> QED BY <1>1, <1>2, <1>3, <1>5, <2>2, <2>3, <2>4 DEF RunInv, Fetching, Handling
<1> QED BY <1>2, <1>4, <1>5 DEF Fetch

LEMMA DropStep ==
    ASSUME ClosetInv, OneRenewer, DropStale
    PROVE  IndexInv' /\ RunInv' /\ BundleMatches' /\ ListInv'
<1> DEFINE d == fetched.domain
<1> USE Numbers DEF ClosetInv
<1>1. /\ BundleMatches' /\ ListInv' /\ UNCHANGED <<object, issued, local, todo>>
      /\ pc = "gone" /\ pc' = "fetch" /\ local # Torn /\ changed' = TRUE
      /\ CopyIsIndex /\ FetchInv /\ HandlingInv /\ d \in Domain
    BY DEF DropStale, outputs, BundleMatches, ListInv, RunInv, Fetching, Handling, ClosetTypeOK
<1>2. /\ object[d] = Absent /\ d \notin todo /\ ~Attached(localIdx, d) /\ ~Attached(local, d)
    BY <1>1 DEF HandlingInv, FetchInv, Waiting, Handling
<1>3. /\ \A e \in Domain : localIdx'[e] = IF e = d THEN Absent ELSE localIdx[e]
      /\ \A e \in Domain : copy'[Sync][e] = IF e = d THEN Absent ELSE copy[Sync][e]
      /\ \A p \in Renewer : copy'[p] = copy[p]
      /\ \A e \in Domain : e # d => certFile'[e] = certFile[e] /\ keyFile'[e] = keyFile[e]
    BY DEF DropStale, RemoveFiles, ClosetTypeOK, Index
<1>4. \/ \A e \in Domain : remote'[e] = copy'[Sync][e]
      \/ remote' = remote /\ failed' = TRUE
    <2>1. \/ remote' = [copy[Sync] EXCEPT ![d] = Absent]
          \/ remote' = remote /\ failed' = TRUE
        BY DEF DropStale, SaveIndex
    <2> QED BY <2>1, <1>3 DEF ClosetTypeOK, Index
<1>5. failed => failed'
    BY DEF DropStale
<1>6. \A e \in Domain : remote'[e] = Absent =>
            remote[e] = Absent \/ e = d \/ (copy[Sync][e] = Absent /\ localIdx[e] = Absent /\ ~Attached(local, e))
    BY <1>1, <1>3, <1>4 DEF CopyIsIndex
<1> HIDE DEF d
<1>7. IndexesOrdered'
    BY <1>1, <1>3, <1>4 DEF IndexInv, IndexesOrdered, Below
<1>8. EntriesKept'
    BY <1>1, <1>2, <1>3, <1>4 DEF IndexInv, EntriesKept
<1>9. LocalOrdered(localIdx)' /\ LocalOrdered(local)'
    BY <1>1, <1>3, <1>4 DEF IndexInv, LocalOrdered, Below
<1>10. \A e \in Domain : Attached(local, e)' => Attached(local, e)
    BY <1>1, <1>3, <1>4 DEF Attached
<1>11. \A e \in Domain : Attached(localIdx, e)' => Attached(localIdx, e) /\ e # d
    BY <1>1, <1>3, <1>4 DEF Attached
<1>12. Settled(localIdx)' /\ Settled(local)'
    BY <1>1, <1>2, <1>3, <1>10, <1>11 DEF IndexInv, Settled, Good
<1>13. NotBack(localIdx)' /\ NotBack(local)' /\ NotBack(copy[Sync])'
    <2>1. NotBack(localIdx)' /\ NotBack(copy[Sync])'
        BY <1>1, <1>3, <1>6 DEF IndexInv, NotBack
    <2>2. NotBack(local)'
        BY <1>1, <1>2, <1>3, <1>6 DEF IndexInv, NotBack, Attached
    <2> QED BY <2>1, <2>2
<1>14. CopyIsIndex'
    BY <1>1, <1>2, <1>3, <1>4, <1>5, <1>10 DEF CopyIsIndex, Fetching, Handling
<1>15. FetchInv'
    <2>1. Waiting' = todo /\ Waiting = todo \cup {d}
        BY <1>1 DEF Waiting, Handling, d
    <2>2. ASSUME NEW e \in todo
          PROVE  copy'[Sync][e] # Absent /\ ~Attached(localIdx, e)' /\ ~Attached(local, e)'
        <3>1. e \in Domain /\ e # d /\ copy[Sync][e] # Absent /\ ~Attached(localIdx, e) /\ ~Attached(local, e)
            BY <1>1, <1>2, <2>1 DEF FetchInv, ClosetTypeOK
        <3> QED BY <1>3, <1>10, <1>11, <3>1
    <2>3. ASSUME NEW e \in Domain, copy'[Sync][e] # Absent
          PROVE  failed' \/ localIdx'[e] = copy'[Sync][e] \/ e \in Waiting'
        BY <1>1, <1>3, <1>5, <2>1, <2>3 DEF FetchInv
    <2> QED BY <1>1, <2>1, <2>2, <2>3 DEF FetchInv
<1> QED BY <1>1, <1>7, <1>8, <1>9, <1>12, <1>13, <1>14, <1>15 DEF IndexInv, RunInv, Fetching, Handling

LEMMA WriteStep ==
    ASSUME ClosetInv, WriteCert \/ WriteKey
    PROVE  IndexInv' /\ RunInv' /\ BundleMatches' /\ ListInv'
<1> DEFINE d == fetched.domain
<1> USE Numbers DEF ClosetInv
<1>1. /\ BundleMatches' /\ ListInv' /\ UNCHANGED <<object, remote, issued, copy>>
      /\ UNCHANGED <<local, todo>>
      /\ pc \in {"cert", "key"} /\ local # Torn /\ (changed \/ localIdx = local)
      /\ CopyIsIndex /\ FetchInv /\ HandlingInv /\ d \in Domain
    BY DEF WriteCert, WriteKey, outputs, bucket, BundleMatches, ListInv, RunInv, Fetching, Handling, ClosetTypeOK
<1>2. /\ d \notin todo /\ ~Attached(localIdx, d) /\ ~Attached(local, d)
      /\ copy[Sync][d] # Absent /\ Waiting = todo \cup {d}
    BY <1>1 DEF HandlingInv, FetchInv, Waiting, Handling
<1>3. CASE WriteFailed
    <2>1. /\ failed' = TRUE /\ pc' = "fetch" /\ UNCHANGED <<certFile, keyFile>> /\ UNCHANGED <<localIdx, local>>
          /\ changed' = changed
        BY <1>1, <1>3 DEF WriteFailed, NotNoted, files
    <2>2. IndexInv'
        BY <1>1, <2>1, IndexSame
    <2>3. CopyIsIndex'
        BY <1>1, <2>1 DEF CopyIsIndex, Fetching, Handling, Attached
    <2>4. FetchInv'
        BY <1>1, <1>2, <2>1 DEF FetchInv, Waiting, Handling, Attached
    <2> QED BY <1>1, <2>1, <2>2, <2>3, <2>4 DEF RunInv, Fetching, Handling
<1>4. CASE WriteCert /\ ~WriteFailed
    <2>1. /\ pc = "cert" /\ pc' = "key" /\ UNCHANGED <<localIdx, local>> /\ UNCHANGED <<failed, fetched, changed>>
          /\ keyFile' = keyFile /\ certFile' = [certFile EXCEPT ![d] = fetched.version]
        BY <1>4 DEF WriteCert
    <2>2. /\ \A e \in Domain : e # d => certFile'[e] = certFile[e] /\ keyFile'[e] = keyFile[e]
          /\ certFile'[d] = fetched.version
        BY <1>1, <2>1 DEF ClosetTypeOK, Index
    <2> HIDE DEF d
    <2>3. IndexInv'
        BY <1>1, <1>2, <2>1, <2>2, FilesChange
    <2>4. CopyIsIndex'
        BY <1>1, <2>1 DEF CopyIsIndex, Fetching, Handling, Attached
    <2>5. Waiting' = Waiting
        BY <1>1, <2>1 DEF Waiting, Handling
    <2>6. FetchInv'
        BY <1>1, <2>1, <2>5 DEF FetchInv, Attached
    <2>7. HandlingInv'
        BY <1>1, <2>1, <2>2 DEF HandlingInv, d
    <2> QED BY <1>1, <2>1, <2>3, <2>4, <2>6, <2>7 DEF RunInv, Fetching, Handling
<1>5. CASE WriteKey /\ ~WriteFailed
    <2>1. /\ pc = "key" /\ pc' = "fetch" /\ certFile' = certFile /\ failed' = failed /\ changed' = TRUE
          /\ \A e \in Domain : keyFile'[e] = IF e = d THEN fetched.version ELSE keyFile[e]
          /\ \A e \in Domain : localIdx'[e] = IF e = d THEN copy[Sync][d] ELSE localIdx[e]
        BY <1>1, <1>5 DEF WriteKey, ClosetTypeOK, Index
    <2>2. /\ certFile[d] = fetched.version /\ fetched.version \in Version
          /\ fetched.version >= copy[Sync][d]
        BY <1>1, <2>1 DEF HandlingInv
    <2> HIDE DEF d
    <2>3. IndexesOrdered' /\ EntriesKept' /\ NotBack(copy[Sync])'
        BY <1>1 DEF IndexInv, IndexesOrdered, EntriesKept, NotBack, Below
    <2>4. LocalOrdered(localIdx)' /\ LocalOrdered(local)'
        BY <1>1, <2>1 DEF IndexInv, IndexesOrdered, LocalOrdered, Below
    <2>5. Settled(localIdx)'
        <3>1. ASSUME NEW e \in Domain, e = d PROVE Good(e, localIdx[e])'
            BY <1>1, <1>2, <2>1, <2>2, <3>1, Versions DEF Good
        <3>2. ASSUME NEW e \in Domain, e # d, Attached(localIdx, e)' PROVE Good(e, localIdx[e])'
            BY <1>1, <2>1, <3>2 DEF IndexInv, Settled, Good, Attached
        <3> QED BY <3>1, <3>2 DEF Settled
    <2>6. Settled(local)'
        BY <1>1, <1>2, <2>1 DEF IndexInv, Settled, Good, Attached
    <2>7. NotBack(localIdx)' /\ NotBack(local)'
        BY <1>1, <2>1 DEF IndexInv, NotBack
    <2>8. CopyIsIndex'
        BY <1>1, <1>2, <2>1 DEF CopyIsIndex, Fetching, Handling, Attached
    <2>9. FetchInv'
        <3>1. Waiting' = todo
            BY <1>1, <2>1 DEF Waiting, Handling
        <3>2. ASSUME NEW e \in todo
              PROVE  copy'[Sync][e] # Absent /\ ~Attached(localIdx, e)' /\ ~Attached(local, e)'
            <4>1. e \in Domain /\ e # d /\ copy[Sync][e] # Absent /\ ~Attached(localIdx, e) /\ ~Attached(local, e)
                BY <1>1, <1>2 DEF FetchInv, ClosetTypeOK
            <4> QED BY <1>1, <2>1, <4>1 DEF Attached
        <3>3. ASSUME NEW e \in Domain, copy'[Sync][e] # Absent
              PROVE  failed' \/ localIdx'[e] = copy'[Sync][e] \/ e \in Waiting'
            BY <1>1, <1>2, <2>1, <3>1, <3>3 DEF FetchInv
        <3> QED BY <1>1, <2>1, <3>1, <3>2, <3>3 DEF FetchInv
    <2> QED BY <1>1, <2>1, <2>3, <2>4, <2>5, <2>6, <2>7, <2>8, <2>9 DEF IndexInv, RunInv, Fetching, Handling
<1> QED BY <1>3, <1>4, <1>5

(* A sync run comes to its outputs: nothing has failed, nothing is left.   *)
LEMMA OutputsReached ==
    ASSUME ClosetInv, pc \in {"fetch", "truncate", "save"}, todo = {}, ~failed,
           pc' = "traefik", local' = localIdx,
           UNCHANGED <<remote, copy>>
    PROVE  RunInv'
<1> USE Numbers DEF ClosetInv
<1>1. CopyIsIndex /\ FetchInv /\ localIdx \in Index /\ Waiting = {}
    BY DEF RunInv, Fetching, Handling, Waiting, ClosetTypeOK
<1>2. CopyIsIndex'
    BY <1>1 DEF CopyIsIndex
<1>3. OutputInv'
    BY <1>1 DEF OutputInv, FetchInv
<1>4. local' # Torn
    BY <1>1, ClosetAssumption
<1> QED BY <1>2, <1>3, <1>4 DEF RunInv, Fetching, Handling

LEMMA CertsEnd ==
    ASSUME ClosetInv, FetchEnd \/ TruncateLocal \/ SaveLocal
    PROVE  IndexInv' /\ RunInv' /\ BundleMatches' /\ ListInv'
<1> USE Numbers DEF ClosetInv
<1>1. /\ UNCHANGED <<object, remote, issued, copy>> /\ UNCHANGED <<certFile, keyFile>>
      /\ UNCHANGED <<bundle, crtList>> /\ lines' \in {lines, {}}
      /\ pc \in {"fetch", "truncate", "save"} /\ CopyIsIndex /\ FetchInv
    BY DEF FetchEnd, TruncateLocal, SaveLocal, AfterCerts, SyncEnd, bucket, files, outputs,
           RunInv, Fetching, Handling
<1>2. BundleMatches' /\ ListInv'
    BY <1>1 DEF BundleMatches, ListInv
<1>3. localIdx' \in {localIdx, Nothing} /\ local' \in {Torn, local, localIdx}
    BY DEF FetchEnd, TruncateLocal, SaveLocal, AfterCerts, SyncEnd
<1>4. \A d \in Domain : localIdx'[d] \in {Absent, localIdx[d]}
    BY <1>3 DEF Nothing
<1>5. IndexInv'
    BY <1>1, <1>3, <1>4, IndexLocal
<1>6. ASSUME FetchEnd PROVE RunInv'
    <2>1. pc = "fetch" /\ todo = {} /\ local' = local /\ (changed \/ localIdx = local)
        BY <1>6 DEF FetchEnd, RunInv, Fetching, Handling
    <2>2. CASE changed
        <3>1. /\ pc' = "truncate" /\ UNCHANGED <<localIdx, changed, failed, todo, fetched>>
              /\ local # Torn
            BY <1>6, <2>1, <2>2 DEF FetchEnd, RunInv
        <3>2. CopyIsIndex' /\ FetchInv'
            BY <1>1, <2>1, <3>1 DEF CopyIsIndex, FetchInv, Fetching, Handling, Attached, Waiting
        <3> QED BY <2>1, <3>1, <3>2 DEF RunInv, Fetching, Handling
    <2>3. CASE ~changed /\ failed
        BY <1>6, <2>3, SyncEndType, IdleRun DEF FetchEnd, AfterCerts, SyncFailed
    <2>4. CASE ~changed /\ ~failed
        BY <1>1, <1>6, <2>1, <2>4, OutputsReached DEF FetchEnd, AfterCerts, SyncFailed
    <2> QED BY <2>2, <2>3, <2>4
<1>7. ASSUME TruncateLocal PROVE RunInv'
    <2>1. /\ local' = Torn /\ pc = "truncate" /\ pc' = "save"
          /\ UNCHANGED <<localIdx, changed, failed, todo, fetched>>
        BY <1>7 DEF TruncateLocal
    <2>2. CopyIsIndex' /\ FetchInv'
        BY <1>1, <2>1 DEF CopyIsIndex, FetchInv, Fetching, Handling, Attached, Waiting
    <2> QED BY <2>1, <2>2 DEF RunInv, Fetching, Handling
<1>8. ASSUME SaveLocal PROVE RunInv'
    <2>1. pc = "save" /\ todo = {}
        BY <1>1, <1>8 DEF SaveLocal, FetchInv
    <2>2. CASE SyncEnd
        BY <2>2, SyncEndType, IdleRun
    <2>3. CASE ~SyncEnd
        <3>1. ~failed /\ pc' = "traefik" /\ local' = localIdx
            BY <1>8, <2>3 DEF SaveLocal, AfterCerts, SyncFailed
        <3> QED BY <1>1, <2>1, <3>1, OutputsReached
    <2> QED BY <2>2, <2>3
<1> QED BY <1>2, <1>5, <1>6, <1>7, <1>8

LEMMA OutputStep ==
    ASSUME ClosetInv, WriteTraefik \/ WriteCrtList \/ \E d \in Domain : WriteBundle(d)
    PROVE  IndexInv' /\ RunInv' /\ BundleMatches' /\ ListInv'
<1> USE Numbers DEF ClosetInv
<1>1. /\ UNCHANGED <<object, remote, issued, copy>> /\ UNCHANGED <<certFile, keyFile>>
      /\ local' = local /\ localIdx' \in {localIdx, Nothing}
      /\ pc \in {"traefik", "haproxy"} /\ CopyIsIndex /\ OutputInv /\ local # Torn
    BY DEF WriteTraefik, WriteCrtList, WriteBundle, SyncEnd, bucket, files, RunInv
<1>2. IndexInv'
    <2>1. \A d \in Domain : localIdx'[d] \in {Absent, localIdx[d]}
        BY <1>1 DEF Nothing
    <2> QED BY <1>1, <2>1, IndexLocal
<1>3. CopyIsIndex'
    BY <1>1 DEF CopyIsIndex, Fetching, Handling
<1>4. ASSUME WriteTraefik PROVE RunInv' /\ BundleMatches' /\ ListInv'
    <2>1. UNCHANGED <<bundle, crtList>> /\ lines' \in {lines, {}} /\ pc = "traefik"
        BY <1>4 DEF WriteTraefik, SyncEnd
    <2>2. BundleMatches' /\ ListInv'
        BY <2>1 DEF BundleMatches, ListInv
    <2>3. CASE SyncEnd
        BY <2>2, <2>3, SyncEndType, IdleRun
    <2>4. CASE ~SyncEnd
        <3>1. /\ pc' = "haproxy" /\ todo' = Has(copy[Sync])
              /\ "traefik" \in Outputs => listed' = Has(copy[Sync])
            BY <1>4, <2>4 DEF WriteTraefik
        <3>2. OutputInv'
            BY <1>1, <3>1 DEF OutputInv, Has
        <3> QED BY <1>1, <1>3, <2>2, <3>1, <3>2 DEF RunInv, Fetching, Handling
    <2> QED BY <2>3, <2>4
<1>5. ASSUME NEW d \in Domain, WriteBundle(d) PROVE RunInv' /\ BundleMatches' /\ ListInv'
    <2>1. /\ pc = "haproxy" /\ pc' = pc /\ d \in todo /\ todo' = todo \ {d}
          /\ UNCHANGED <<listed, crtList>>
        BY <1>5 DEF WriteBundle
    <2>2. OutputInv'
        BY <1>1, <2>1 DEF OutputInv
    <2>3. certFile[d] = keyFile[d] \/ Absent \in {certFile[d], keyFile[d]}
        BY <1>1, <2>1 DEF OutputInv, IndexInv, Settled, Attached, Good
    <2>4. CASE lines' = lines /\ bundle' = bundle
        BY <1>1, <1>3, <2>1, <2>2, <2>4 DEF RunInv, BundleMatches, ListInv, Fetching, Handling
    <2>5. CASE /\ Absent \notin {certFile[d], keyFile[d]}
               /\ bundle' = [bundle EXCEPT ![d] = [cert |-> certFile[d], key |-> keyFile[d]]]
               /\ lines' \subseteq lines \cup {d}
        <3>1. \A e \in Domain : bundle'[e] = IF e = d THEN [cert |-> certFile[d], key |-> keyFile[d]]
                                                     ELSE bundle[e]
            BY <2>5 DEF ClosetTypeOK
        <3>2. BundleMatches'
            BY <2>3, <2>5, <3>1 DEF BundleMatches
        <3>3. bundle'[d] # NoBundle
            BY <2>5, <3>1 DEF NoBundle
        <3>4. ListInv'
            BY <2>1, <2>5, <3>1, <3>3 DEF ListInv, ClosetTypeOK
        <3> QED BY <1>1, <1>3, <2>1, <2>2, <3>2, <3>4 DEF RunInv, Fetching, Handling
    <2> QED BY <1>5, <2>4, <2>5 DEF WriteBundle, NoLine
<1>6. ASSUME WriteCrtList PROVE RunInv' /\ BundleMatches' /\ ListInv'
    <2>1. UNCHANGED bundle /\ crtList' \in {lines, crtList} /\ lines' = {} /\ pc' = "idle"
        BY <1>6 DEF WriteCrtList, SyncEnd
    <2> QED BY <2>1, IdleRun DEF BundleMatches, ListInv
<1> QED BY <1>2, <1>4, <1>5, <1>6

-----------------------------------------------------------------------------
LEMMA CrashStep ==
    ASSUME ClosetInv, NEW p \in Process, Crash(p)
    PROVE  IndexInv' /\ RunInv' /\ BundleMatches' /\ ListInv'
<1> USE Numbers DEF ClosetInv
<1>1. /\ UNCHANGED <<object, remote, issued, local>> /\ UNCHANGED <<certFile, keyFile>>
      /\ UNCHANGED <<listed, bundle, crtList>> /\ lines' \in {lines, {}}
      /\ \A q \in Process, e \in Domain : copy'[q][e] = IF q = p THEN remote[e] ELSE copy[q][e]
      /\ localIdx' \in {localIdx, Nothing}
    BY DEF Crash, bucket, files, outputs, run, ClosetTypeOK
<1>2. BundleMatches' /\ ListInv'
    BY <1>1 DEF BundleMatches, ListInv
<1>3. IndexesOrdered' /\ EntriesKept' /\ NotBack(copy[Sync])'
    BY <1>1 DEF IndexInv, IndexesOrdered, EntriesKept, NotBack, Below
<1>4. LocalOrdered(localIdx)' /\ Settled(localIdx)' /\ NotBack(localIdx)'
    <2>1. \A d \in Domain : localIdx'[d] \in {Absent, localIdx[d]}
        BY <1>1 DEF Nothing
    <2>2. LocalOrdered(localIdx)' /\ NotBack(localIdx)'
        BY <1>1, <2>1 DEF IndexInv, LocalOrdered, NotBack, Below
    <2>3. Settled(localIdx)'
        BY <1>1, <2>1 DEF IndexInv, Settled, Attached, Good
    <2> QED BY <2>2, <2>3
<1>5. local' # Torn => LocalOrdered(local)' /\ Settled(local)' /\ NotBack(local)'
    BY <1>1 DEF IndexInv, LocalOrdered, Settled, NotBack, Attached, Good, Below
<1>6. CASE p = Sync
    BY <1>2, <1>3, <1>4, <1>5, <1>6, IdleRun DEF Crash, IndexInv
<1>7. CASE p # Sync
    <2>1. /\ UNCHANGED <<pc, localIdx, changed, failed, todo, fetched, lines>>
          /\ \A e \in Domain : copy'[Sync][e] = copy[Sync][e]
        BY <1>1, <1>7 DEF Crash, run
    <2>2. \A e \in Domain : /\ Attached(localIdx, e)' => Attached(localIdx, e)
                           /\ Attached(local, e)' => Attached(local, e)
        BY <1>1, <2>1 DEF Attached
    <2> HIDE DEF ClosetInv
    <2>3. CopyIsIndex => CopyIsIndex'
        <3> SUFFICES ASSUME CopyIsIndex, NEW e \in Domain, remote[e] # Absent, copy[Sync][e] # remote[e]
                     PROVE  /\ pc' \in Fetching /\ failed' /\ object'[e] = Absent /\ copy'[Sync][e] = Absent
                            /\ localIdx'[e] = Absent /\ (local' # Torn => ~Attached(local, e)')
            BY <1>1, <2>1 DEF CopyIsIndex, Fetching, Handling
        <3>1. /\ pc \in Fetching /\ failed /\ object[e] = Absent /\ copy[Sync][e] = Absent
              /\ localIdx[e] = Absent /\ (local # Torn => ~Attached(local, e))
            BY DEF CopyIsIndex
        <3> QED BY <1>1, <2>1, <2>2, <3>1 DEF Attached
    <2> USE DEF ClosetInv
    <2>4. PruneInv => PruneInv'
        BY <1>1, <2>1 DEF PruneInv, ClosetTypeOK
    <2>5. pc \in Fetching /\ FetchInv => FetchInv'
        <3>1. Waiting' = Waiting /\ (pc \in Fetching => Waiting \subseteq Domain)
            BY <2>1 DEF Waiting, Handling, ClosetTypeOK
        <3> SUFFICES ASSUME pc \in Fetching, FetchInv PROVE FetchInv'
            OBVIOUS
        <3>2. ASSUME NEW e \in Waiting
              PROVE  /\ copy'[Sync][e] # Absent /\ ~Attached(localIdx, e)'
                     /\ local' # Torn => ~Attached(local, e)'
            BY <1>1, <2>1, <2>2, <3>1 DEF FetchInv, Attached
        <3>3. ASSUME NEW e \in Domain, copy'[Sync][e] # Absent
              PROVE  failed' \/ localIdx'[e] = copy'[Sync][e] \/ e \in Waiting'
            BY <2>1, <3>1, <3>3 DEF FetchInv
        <3> QED BY <2>1, <3>1, <3>2, <3>3 DEF FetchInv
    <2>6. pc \in Handling /\ HandlingInv => HandlingInv'
        BY <1>1, <2>1 DEF HandlingInv, Handling, ClosetTypeOK
    <2>7. OutputInv => OutputInv'
        BY <1>1, <2>1 DEF OutputInv, Has, ClosetTypeOK
    <2>8. RunInv'
        BY <1>1, <2>1, <2>3, <2>4, <2>5, <2>6, <2>7 DEF RunInv, Fetching, Handling
    <2> QED BY <1>2, <1>3, <1>4, <1>5, <2>8 DEF IndexInv
<1> QED BY <1>6, <1>7

LEMMA VanishStep ==
    ASSUME ClosetInv, NEW d \in Domain, Vanish(d)
    PROVE  IndexInv' /\ RunInv' /\ BundleMatches' /\ ListInv'
<1> USE Numbers DEF ClosetInv
<1>1. /\ \A e \in Domain : object'[e] = IF e = d THEN Absent ELSE object[e]
      /\ UNCHANGED <<remote, issued, copy, certFile, keyFile>>
      /\ UNCHANGED <<local, listed, bundle, crtList>>
      /\ UNCHANGED <<pc, localIdx, changed, failed, todo, fetched, lines>>
    BY DEF Vanish, files, outputs, run, ClosetTypeOK, Index
<1>2. BundleMatches' /\ ListInv'
    BY <1>1 DEF BundleMatches, ListInv
<1>3. IndexesOrdered' /\ EntriesKept' /\ NotBack(copy[Sync])'
    BY <1>1 DEF IndexInv, IndexesOrdered, EntriesKept, NotBack, Below
<1>4. LocalOrdered(localIdx)' /\ Settled(localIdx)' /\ NotBack(localIdx)'
    BY <1>1 DEF IndexInv, LocalOrdered, Settled, NotBack, Attached, Good, Below
<1>5. local' # Torn => LocalOrdered(local)' /\ Settled(local)' /\ NotBack(local)'
    BY <1>1 DEF IndexInv, LocalOrdered, Settled, NotBack, Attached, Good, Below
<1>6. CopyIsIndex => CopyIsIndex'
    BY <1>1 DEF CopyIsIndex, Fetching, Handling, Attached
<1>7. PruneInv => PruneInv'
    BY <1>1 DEF PruneInv
<1>8. FetchInv => FetchInv'
    BY <1>1 DEF FetchInv, Waiting, Handling, Attached
<1>9. pc \in Handling /\ HandlingInv => HandlingInv'
    BY <1>1 DEF HandlingInv, Handling, ClosetTypeOK
<1>10. OutputInv => OutputInv'
    BY <1>1 DEF OutputInv, Has
<1>11. RunInv'
    BY <1>1, <1>6, <1>7, <1>8, <1>9, <1>10 DEF RunInv, Fetching, Handling
<1> QED BY <1>2, <1>3, <1>4, <1>5, <1>11 DEF IndexInv

LEMMA StutterStep ==
    ASSUME ClosetInv, UNCHANGED vars
    PROVE  ClosetInv'
<1> USE DEF ClosetInv, vars, bucket, files, outputs, run
<1>1. ClosetTypeOK'
    BY DEF ClosetTypeOK
<1>2. IndexInv'
    BY IndexSame
<1>3. RunInv'
    <2>1. CopyIsIndex => CopyIsIndex'
        BY DEF CopyIsIndex, Fetching, Handling, Attached
    <2>2. (PruneInv => PruneInv') /\ (HandlingInv => HandlingInv') /\ (OutputInv => OutputInv')
        BY DEF PruneInv, HandlingInv, OutputInv, Has
    <2>3. FetchInv => FetchInv'
        BY DEF FetchInv, Waiting, Handling, Attached
    <2> QED BY <2>1, <2>2, <2>3 DEF RunInv, Fetching, Handling
<1>4. BundleMatches' /\ ListInv'
    BY DEF BundleMatches, ListInv
<1> QED BY <1>1, <1>2, <1>3, <1>4

LEMMA ClosetInvStep ==
    ASSUME ClosetInv, OneRenewer, [Next]_vars
    PROVE  ClosetInv'
<1>1. ClosetTypeOK'
    BY TypeStep DEF ClosetInv
<1>2. ASSUME Next PROVE IndexInv' /\ RunInv' /\ BundleMatches' /\ ListInv'
    <2>1. ASSUME NEW r \in Renewer, RenewStep(r) PROVE IndexInv' /\ RunInv' /\ BundleMatches' /\ ListInv'
        BY <2>1, RenewerStep
    <2>2. CASE SyncStart \/ SyncStep
        <3>1. CASE SyncStart \/ LoadLocal
            BY <3>1, StartAndLoad
        <3>2. CASE Diff \/ \E d \in Domain : Prune(d)
            BY <3>2, PruneAndDiff
        <3>3. ASSUME NEW d \in Domain, Fetch(d) PROVE IndexInv' /\ RunInv' /\ BundleMatches' /\ ListInv'
            BY <3>3, FetchStep
        <3>4. CASE DropStale
            BY <3>4, DropStep
        <3>5. CASE WriteCert \/ WriteKey
            BY <3>5, WriteStep
        <3>6. CASE FetchEnd \/ TruncateLocal \/ SaveLocal
            BY <3>6, CertsEnd
        <3>7. CASE WriteTraefik \/ WriteCrtList \/ \E d \in Domain : WriteBundle(d)
            BY <3>7, OutputStep
        <3> QED BY <2>2, <3>1, <3>2, <3>3, <3>4, <3>5, <3>6, <3>7 DEF SyncStep
    <2>3. ASSUME NEW p \in Process, Crash(p) PROVE IndexInv' /\ RunInv' /\ BundleMatches' /\ ListInv'
        BY <2>3, CrashStep
    <2>4. ASSUME NEW d \in Domain, Vanish(d) PROVE IndexInv' /\ RunInv' /\ BundleMatches' /\ ListInv'
        BY <2>4, VanishStep
    <2> QED BY <1>2, <2>1, <2>2, <2>3, <2>4 DEF Next
<1>3. CASE UNCHANGED vars
    BY <1>3, StutterStep
<1> QED BY <1>1, <1>2, <1>3 DEF ClosetInv

LEMMA ClosetInvAlways ==
    ASSUME OneRenewer
    PROVE  Spec => []ClosetInv
<1>1. Init => ClosetInv
    BY ClosetInit
<1>2. ClosetInv /\ [Next]_vars => ClosetInv'
    BY ClosetInvStep
<1> QED BY <1>1, <1>2, PTL DEF Spec

-----------------------------------------------------------------------------
(* The variables of the closet and of sync keep their types, whatever the  *)
(* number of renewers.                                                     *)
THEOREM ClosetTypeCorrect == Spec => []ClosetTypeOK
<1>1. Init => ClosetTypeOK
    BY ClosetInit DEF ClosetInv
<1>2. ClosetTypeOK /\ [Next]_vars => ClosetTypeOK'
    BY TypeStep
<1> QED BY <1>1, <1>2, PTL DEF Spec

(* A bundle holds a certificate and its own key: sync (sync.go) writes the *)
(* two files one by one and builds the bundle from the disk.               *)
THEOREM BundlesMatch ==
    ASSUME OneRenewer
    PROVE  Spec => []BundleMatches
<1>1. ClosetInv => BundleMatches
    BY DEF ClosetInv
<1> QED BY <1>1, ClosetInvAlways, PTL

(* A local entry that agrees with the index has a pair of files behind it, *)
(* no older than it, or a file is missing (certcloset/local.go).           *)
THEOREM PairsSettled ==
    ASSUME OneRenewer
    PROVE  Spec => []SettledPair
<1>1. ClosetInv => SettledPair
    BY DEF ClosetInv, IndexInv, Settled, Attached, Good, SettledPair
<1> QED BY <1>1, ClosetInvAlways, PTL

(* A run that has come to its outputs has the whole index on disk.         *)
THEOREM SyncCompletes ==
    ASSUME OneRenewer
    PROVE  Spec => []SyncComplete
<1>1. ClosetInv => SyncComplete
    <2> SUFFICES ASSUME ClosetInv, pc \in {"traefik", "haproxy"}, NEW d \in Has(remote)
                 PROVE  local[d] = remote[d] /\ Good(d, remote[d])
        BY DEF SyncComplete, Good
    <2>1. CopyIsIndex /\ OutputInv /\ local # Torn /\ d \in Domain /\ remote[d] # Absent
        BY DEF ClosetInv, RunInv, Has
    <2>2. copy[Sync][d] = remote[d]
        BY <2>1 DEF CopyIsIndex, Fetching, Handling
    <2>3. local[d] = remote[d]
        BY <2>1, <2>2 DEF OutputInv
    <2> QED BY <2>1, <2>3 DEF ClosetInv, IndexInv, Settled, Attached
<1> QED BY <1>1, ClosetInvAlways, PTL

(* What the crt-list and, as it is written, the Traefik file name is there.*)
THEOREM ListsAreUsable ==
    ASSUME OneRenewer
    PROVE  Spec => []ListedIsUsable
<1>1. ClosetInv => ListedIsUsable
    <2> SUFFICES ASSUME ClosetInv PROVE ListedIsUsable
        OBVIOUS
    <2>1. \A d \in crtList : bundle[d] # NoBundle
        BY DEF ClosetInv, ListInv
    <2>2. ASSUME pc = "haproxy", "traefik" \in Outputs, NEW d \in listed
          PROVE  certFile[d] = keyFile[d] /\ certFile[d] # Absent
        <3>1. OutputInv /\ local # Torn /\ d \in Domain /\ copy[Sync][d] # Absent
            BY <2>2 DEF ClosetInv, RunInv, OutputInv, Has
        <3>2. local[d] = copy[Sync][d] /\ Sync \in Process
            BY <3>1 DEF OutputInv, Process
        <3> QED BY <3>1, <3>2 DEF ClosetInv, IndexInv, Settled, Attached, Good
    <2> QED BY <2>1, <2>2 DEF ListedIsUsable
<1> QED BY <1>1, ClosetInvAlways, PTL

(* No writer of the index, sync that drops a stale entry included, makes it*)
(* forget the certificate that is stored (state.go, SaveIndex).            *)
THEOREM IndexIsKept ==
    ASSUME OneRenewer
    PROVE  Spec => IndexKept
<1> DEFINE Kept == \A d \in Domain :
        remote[d] # Absent /\ remote[d] = object[d] => remote'[d] >= remote[d]
<1>1. ASSUME ClosetInv, ClosetInv', [Next]_vars PROVE [Kept]_vars
    <2> SUFFICES ASSUME NEW d \in Domain, remote[d] # Absent, remote[d] = object[d]
                 PROVE  remote'[d] >= remote[d]
        OBVIOUS
    <2> USE Numbers DEF ClosetInv
    <2>1. remote[d] \in Nat /\ \A r \in Renewer : copy[r][d] = remote[d]
        BY <1>1 DEF IndexInv, EntriesKept
    <2>2. ASSUME NEW r \in Renewer, RenewStep(r) PROVE remote'[d] >= remote[d]
        <3>1. \/ remote' \in {remote, copy[r]}
              \/ \E e \in Domain : object[e] = Absent /\ remote' \in {remote, [copy[r] EXCEPT ![e] = Absent]}
            BY <2>2 DEF RenewStep, RenewStart, RenewEnd, StoreCertificate, Heal, SaveIndex, bucket
        <3>2. copy \in [Process -> Index] /\ r \in Process
            BY <1>1 DEF ClosetTypeOK, Process
        <3>3. CASE remote' \in {remote, copy[r]}
            BY <2>1, <3>3
        <3>4. ASSUME NEW e \in Domain, object[e] = Absent, remote' = [copy[r] EXCEPT ![e] = Absent]
              PROVE  remote'[d] >= remote[d]
            <4>1. d # e /\ copy[r] \in Index
                BY <3>2, <3>4
            <4> QED BY <2>1, <3>4, <4>1 DEF Index
        <3> QED BY <3>1, <3>3, <3>4
    <2>3. CASE DropStale
        <3>1. /\ CopyIsIndex /\ HandlingInv /\ pc = "gone" /\ fetched.domain \in Domain
              /\ object[fetched.domain] = Absent
            BY <1>1, <2>3 DEF DropStale, RunInv, Fetching, Handling, HandlingInv, ClosetTypeOK
        <3>2. remote' \in {remote, [copy[Sync] EXCEPT ![fetched.domain] = Absent]}
            BY <2>3 DEF DropStale, SaveIndex
        <3>3. copy[Sync][d] = remote[d]
            BY <3>1 DEF CopyIsIndex
        <3>4. d # fetched.domain /\ copy[Sync] \in Index
            BY <1>1, <3>1 DEF ClosetTypeOK, Process
        <3> QED BY <2>1, <3>2, <3>3, <3>4 DEF Index
    <2>4. CASE UNCHANGED remote
        BY <2>1, <2>4
    <2> QED
        BY <1>1, <2>2, <2>3, <2>4
        DEF Next, SyncStep, SyncStart, LoadLocal, Prune, Diff, Fetch, WriteCert, WriteKey, FetchEnd,
            TruncateLocal, SaveLocal, WriteTraefik, WriteBundle, WriteCrtList, Crash, Vanish, vars, bucket
<1>2. Spec => []ClosetInv
    BY ClosetInvAlways
<1> HIDE DEF Kept
<1>3. Spec => [][Kept]_vars
    BY <1>1, <1>2, PTL DEF Spec
<1> QED BY <1>3 DEF IndexKept, Kept
=============================================================================
