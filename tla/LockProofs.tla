----------------------------- MODULE LockProofs -----------------------------
(***************************************************************************)
(* The lock for any set of processes, tokens, TTL and faults: release      *)
(* never removes another's lock, and where acquisitions do not overlap and *)
(* refreshes are timely at most one process is inside a run.               *)
(***************************************************************************)
EXTENDS DistributedLock, TLAPS

LEMMA LockInitInv == Init => LockInv
BY DEF Init, LockInv, TypeOK, MemoryConsistent, TokensDistinct, Holding, Acquiring

(* Every step keeps the types and what a process has in memory.            *)
LEMMA LockStepTypes == TypeOK /\ MemoryConsistent /\ [Next]_vars => TypeOK' /\ MemoryConsistent'
<1> SUFFICES ASSUME TypeOK, MemoryConsistent, [Next]_vars PROVE (TypeOK /\ MemoryConsistent)'
    OBVIOUS
<1> USE TTLAssumption, NoneAssumption
        DEF TypeOK, MemoryConsistent, Holding, Acquiring, LockRecord
<1>1. ASSUME NEW p \in Proc, LoadLock(p) PROVE (TypeOK /\ MemoryConsistent)'
    BY <1>1 DEF LoadLock
<1>2. ASSUME NEW p \in Proc, HeadLock(p) PROVE (TypeOK /\ MemoryConsistent)'
    BY <1>2 DEF HeadLock
<1>3. ASSUME NEW p \in Proc, PutLock(p) PROVE (TypeOK /\ MemoryConsistent)'
    BY <1>3 DEF PutLock
<1>4. ASSUME NEW p \in Proc, RefreshLoad(p) PROVE (TypeOK /\ MemoryConsistent)'
    BY <1>4 DEF RefreshLoad, OwnLock
<1>5. ASSUME NEW p \in Proc, RefreshPut(p) PROVE (TypeOK /\ MemoryConsistent)'
    BY <1>5 DEF RefreshPut
<1>6. ASSUME NEW p \in Proc, FinishRun(p) PROVE (TypeOK /\ MemoryConsistent)'
    BY <1>6 DEF FinishRun
<1>7. ASSUME NEW p \in Proc, StopRefresh(p) PROVE (TypeOK /\ MemoryConsistent)'
    BY <1>7 DEF StopRefresh
<1>8. ASSUME NEW p \in Proc, ReleaseLoad(p) PROVE (TypeOK /\ MemoryConsistent)'
    BY <1>8 DEF ReleaseLoad, OwnLock
<1>9. ASSUME NEW p \in Proc, DeleteLock(p) PROVE (TypeOK /\ MemoryConsistent)'
    BY <1>9 DEF DeleteLock
<1>10. ASSUME NEW p \in Proc, Crash(p) PROVE (TypeOK /\ MemoryConsistent)'
    BY <1>10 DEF Crash
<1>11. CASE Tick
    BY <1>11 DEF Tick, Older
<1>12. CASE UNCHANGED vars
    BY <1>12 DEF vars
<1> QED
    BY <1>1, <1>2, <1>3, <1>4, <1>5, <1>6, <1>7, <1>8, <1>9, <1>10, <1>11, <1>12
    DEF Next, Acquire, Refresh, Release

(* Every step keeps owner ids apart: a new one is unlike any in use, and   *)
(* whoever writes the lock writes its own.                                 *)
LEMMA LockStepInv == LockInv /\ [Next]_vars => LockInv'
<1> SUFFICES ASSUME LockInv, [Next]_vars PROVE TokensDistinct'
    BY LockStepTypes DEF LockInv
<1>0. TypeOK' /\ MemoryConsistent'
    BY LockStepTypes DEF LockInv
<1> USE <1>0, TTLAssumption, NoneAssumption
        DEF LockInv, TypeOK, MemoryConsistent, TokensDistinct, Holding, Acquiring, LockRecord
<1>1. ASSUME NEW p \in Proc, LoadLock(p) PROVE TokensDistinct'
    BY <1>1 DEF LoadLock, Used
<1>2. ASSUME NEW p \in Proc, HeadLock(p) PROVE TokensDistinct'
    BY <1>2 DEF HeadLock
<1>3. ASSUME NEW p \in Proc, PutLock(p) PROVE TokensDistinct'
    BY <1>3 DEF PutLock
<1>4. ASSUME NEW p \in Proc, RefreshLoad(p) PROVE TokensDistinct'
    BY <1>4 DEF RefreshLoad, OwnLock
<1>5. ASSUME NEW p \in Proc, RefreshPut(p) PROVE TokensDistinct'
    BY <1>5 DEF RefreshPut
<1>6. ASSUME NEW p \in Proc, FinishRun(p) \/ StopRefresh(p) PROVE TokensDistinct'
    BY <1>6 DEF FinishRun, StopRefresh
<1>7. ASSUME NEW p \in Proc, ReleaseLoad(p) PROVE TokensDistinct'
    BY <1>7 DEF ReleaseLoad, OwnLock
<1>8. ASSUME NEW p \in Proc, DeleteLock(p) PROVE TokensDistinct'
    BY <1>8 DEF DeleteLock
<1>9. ASSUME NEW p \in Proc, Crash(p) PROVE TokensDistinct'
    BY <1>9 DEF Crash
<1>10. CASE Tick
    BY <1>10 DEF Tick, Older
<1>11. CASE UNCHANGED vars
    BY <1>11 DEF vars
<1> QED
    BY <1>1, <1>2, <1>3, <1>4, <1>5, <1>6, <1>7, <1>8, <1>9, <1>10, <1>11
    DEF Next, Acquire, Refresh, Release

(* Every well-spaced step keeps tokens apart, holders in possession of a   *)
(* fresh lock and acquirers without one to overwrite.                      *)
LEMMA SpacedStepInv == SpacedInv /\ [Next /\ Timely /\ Apart]_vars => SpacedInv'
<1> SUFFICES ASSUME SpacedInv, [Next /\ Timely /\ Apart]_vars PROVE SpacedInv'
    OBVIOUS
<1>0. LockInv'
    BY LockStepInv DEF SpacedInv
<1> USE <1>0, TTLAssumption, NoneAssumption
        DEF SpacedInv, LockInv, TypeOK, MemoryConsistent, TokensDistinct, HolderOwns,
            AcquirerAlone, WritesFresh, Holding, Acquiring, OwnLock, StaleRecord, LockRecord
<1>1. ASSUME NEW p \in Proc, LoadLock(p), Apart PROVE SpacedInv'
    BY <1>1 DEF LoadLock, Apart, Used
<1>2. ASSUME NEW p \in Proc, HeadLock(p) PROVE SpacedInv'
    BY <1>2 DEF HeadLock
<1>3. ASSUME NEW p \in Proc, PutLock(p) PROVE SpacedInv'
    BY <1>3 DEF PutLock
<1>4. ASSUME NEW p \in Proc, RefreshLoad(p) PROVE SpacedInv'
    BY <1>4 DEF RefreshLoad
<1>5. ASSUME NEW p \in Proc, RefreshPut(p) PROVE SpacedInv'
    BY <1>5 DEF RefreshPut
<1>6. ASSUME NEW p \in Proc, FinishRun(p) PROVE SpacedInv'
    BY <1>6 DEF FinishRun
<1>7. ASSUME NEW p \in Proc, StopRefresh(p) PROVE SpacedInv'
    BY <1>7 DEF StopRefresh
<1>8. ASSUME NEW p \in Proc, ReleaseLoad(p) PROVE SpacedInv'
    BY <1>8 DEF ReleaseLoad
<1>9. ASSUME NEW p \in Proc, DeleteLock(p) PROVE SpacedInv'
    BY <1>9 DEF DeleteLock, ETagMatches
<1>10. ASSUME NEW p \in Proc, Crash(p) PROVE SpacedInv'
    BY <1>10 DEF Crash
<1>11. ASSUME Tick, Timely PROVE SpacedInv'
    BY <1>11 DEF Tick, Older, Timely
<1>12. CASE UNCHANGED vars
    BY <1>12 DEF vars
<1> QED
    BY <1>1, <1>2, <1>3, <1>4, <1>5, <1>6, <1>7, <1>8, <1>9, <1>10, <1>11, <1>12
    DEF Next, Acquire, Refresh, Release

(* What a process has in memory always fits the place it is at.            *)
THEOREM LockTypeCorrect == Spec => []LockInv
BY LockInitInv, LockStepInv, PTL DEF Spec

(* ReleaseLock removes only the caller's own lock, whatever the timing.    *)
LEMMA StepRelease ==
    LockInv /\ [Next]_vars =>
        (lock # None /\ lock' = None => \E p \in Proc : pc[p] = "delete" /\ token[p] = lock.owner)
<1> SUFFICES ASSUME LockInv, [Next]_vars, lock # None, lock' = None
             PROVE  \E p \in Proc : pc[p] = "delete" /\ token[p] = lock.owner
    OBVIOUS
<1> USE NoneAssumption DEF LockInv, TypeOK, MemoryConsistent, Acquiring, LockRecord
<1>1. ASSUME NEW p \in Proc, DeleteLock(p) PROVE pc[p] = "delete" /\ token[p] = lock.owner
    BY <1>1 DEF DeleteLock, ETagMatches
<1>2. ASSUME NEW p \in Proc, PutLock(p) PROVE FALSE
    BY <1>2 DEF PutLock
<1>3. ASSUME NEW p \in Proc, RefreshPut(p) PROVE FALSE
    BY <1>3 DEF RefreshPut
<1>4. ASSUME NEW p \in Proc, LoadLock(p) \/ HeadLock(p) \/ RefreshLoad(p) \/ FinishRun(p)
                             \/ StopRefresh(p) \/ ReleaseLoad(p) \/ Crash(p)
      PROVE FALSE
    BY <1>4
    DEF LoadLock, HeadLock, RefreshLoad, FinishRun, StopRefresh, ReleaseLoad, Crash
<1>5. CASE Tick
    <2>1. Older(lock) \in LockRecord
        BY TTLAssumption DEF Older
    <2> QED BY <1>5, <2>1 DEF Tick
<1>6. CASE UNCHANGED vars
    BY <1>6 DEF vars
<1> QED
    BY <1>1, <1>2, <1>3, <1>4, <1>5, <1>6 DEF Next, Acquire, Refresh, Release

(* Every step that makes the lock object disappear is its owner's delete.  *)
THEOREM ReleasesOnlyOwn == Spec => ReleaseOnlyOwn
BY LockInitInv, LockStepInv, StepRelease, PTL DEF Spec, ReleaseOnlyOwn

LEMMA SpacedInit == Init => SpacedInv
BY LockInitInv
DEF Init, SpacedInv, TokensDistinct, HolderOwns, AcquirerAlone, WritesFresh, Holding, Acquiring

(* A write to the lock that others still respect is its holder's refresh.  *)
LEMMA StepKeepsOwner ==
    SpacedInv /\ [Next]_vars =>
        (lock # None /\ lock.left > 0 /\ lock' # None => lock'.owner = lock.owner)
<1> SUFFICES ASSUME SpacedInv, [Next]_vars, lock # None, lock.left > 0, lock' # None
             PROVE  lock'.owner = lock.owner
    OBVIOUS
<1> USE DEF SpacedInv, LockInv, TypeOK, LockRecord
<1>1. ASSUME NEW p \in Proc, PutLock(p) PROVE lock' = lock
    <2>1. lock.left = 0
        BY <1>1, NoneAssumption DEF PutLock, AcquirerAlone, Acquiring, StaleRecord
    <2> QED BY <2>1
<1>2. ASSUME NEW p \in Proc, RefreshPut(p) PROVE lock'.owner = lock.owner
    <2>1. copy[p].owner = token[p] /\ lock.owner = token[p]
        BY <1>2 DEF RefreshPut, MemoryConsistent, HolderOwns, OwnLock
    <2> QED BY <1>2, <2>1 DEF RefreshPut
<1>3. ASSUME NEW p \in Proc, DeleteLock(p) PROVE lock' = lock
    BY <1>3 DEF DeleteLock
<1>4. ASSUME NEW p \in Proc, LoadLock(p) \/ HeadLock(p) \/ RefreshLoad(p) \/ FinishRun(p)
                             \/ StopRefresh(p) \/ ReleaseLoad(p) \/ Crash(p)
      PROVE lock' = lock
    BY <1>4
    DEF LoadLock, HeadLock, RefreshLoad, FinishRun, StopRefresh, ReleaseLoad, Crash
<1>5. CASE Tick
    BY <1>5 DEF Tick, Older
<1>6. CASE UNCHANGED vars
    BY <1>6 DEF vars
<1> QED
    BY <1>1, <1>2, <1>3, <1>4, <1>5, <1>6 DEF Next, Acquire, Refresh, Release

(* Tokens are apart, a holder owns the lock and an acquirer is alone.      *)
THEOREM SpacedInvHolds == SpacedSpec => []SpacedInv
BY SpacedInit, SpacedStepInv, PTL DEF SpacedSpec

(* Nobody overwrites a fresh lock, when no two processes acquire at once.  *)
THEOREM NoClobberHolds == SpacedSpec => NoClobber
BY SpacedInit, SpacedStepInv, StepKeepsOwner, PTL DEF SpacedSpec, NoClobber

(* Well-spaced acquisitions and timely refreshes: at most one run at a time*)
THEOREM MutualExclusionHolds == SpacedSpec => []MutualExclusion
<1>1. SpacedInv => MutualExclusion
    BY DEF SpacedInv, LockInv, TypeOK, MemoryConsistent, TokensDistinct, HolderOwns,
           MutualExclusion, Holding, OwnLock
<1> QED BY SpacedInit, <1>1, SpacedStepInv, PTL DEF SpacedSpec

-----------------------------------------------------------------------------
(* A write leaves a lock that is an orphan's as it is, or replaces it by a *)
(* process's own: only time changes it.                                    *)
LEMMA StepOrphan ==
    LockInv /\ [Next]_vars =>
        \A t \in Token : Orphaned(t) /\ lock' # None /\ lock'.owner = t =>
            lock'.left <= lock.left /\ Orphaned(t)'
<1> SUFFICES ASSUME LockInv, [Next]_vars, NEW t \in Token,
                    Orphaned(t), lock' # None, lock'.owner = t
             PROVE  lock'.left <= lock.left /\ \A q \in Proc : token'[q] # t
    BY DEF Orphaned
<1> USE NoneAssumption, TTLAssumption
        DEF LockInv, TypeOK, MemoryConsistent, TokensDistinct, Orphaned, Holding, Acquiring,
            LockRecord
<1>0. lock \in LockRecord /\ lock.left <= lock.left
    OBVIOUS
<1>1. ASSUME NEW p \in Proc, PutLock(p)
      PROVE  lock' = lock /\ \A q \in Proc : token'[q] # t
    <2>1. copy[p] \in LockRecord /\ copy[p].owner # t
        BY <1>1 DEF PutLock
    <2> QED BY <1>1, <2>1 DEF PutLock
<1>2. ASSUME NEW p \in Proc, RefreshPut(p)
      PROVE  lock' = lock /\ \A q \in Proc : token'[q] # t
    BY <1>2 DEF RefreshPut
<1>3. ASSUME NEW p \in Proc, DeleteLock(p)
      PROVE  lock' = lock /\ \A q \in Proc : token'[q] # t
    BY <1>3 DEF DeleteLock
<1>4. ASSUME NEW p \in Proc, LoadLock(p) \/ HeadLock(p) \/ RefreshLoad(p) \/ FinishRun(p)
                             \/ StopRefresh(p) \/ ReleaseLoad(p) \/ Crash(p)
      PROVE  lock' = lock /\ \A q \in Proc : token'[q] # t
    BY <1>4
    DEF LoadLock, HeadLock, RefreshLoad, FinishRun, StopRefresh, ReleaseLoad, Crash
<1>5. CASE Tick
    BY <1>0, <1>5 DEF Tick, Older
<1>6. CASE UNCHANGED vars
    BY <1>0, <1>6 DEF vars
<1> QED
    BY <1>0, <1>1, <1>2, <1>3, <1>4, <1>5, <1>6 DEF Next, Acquire, Refresh, Release

(* Nobody ever extends a lock whose owner is gone, or gets its id.         *)
THEOREM OrphansOnlyAge == Spec => OrphanOnlyAges
BY LockInitInv, LockStepInv, StepOrphan, PTL DEF Spec, OrphanOnlyAges

-----------------------------------------------------------------------------
(* The lease the S3 calls amount to.                                       *)
LEMMA LeaseInitSeen == Init => Atomic!Init
BY DEF Init, Atomic!Init, Runners, Holding

LEMMA PutLockSeen ==
    ASSUME SpacedInv, NEW p \in Proc, PutLock(p)
    PROVE  [Atomic!Next]_(Atomic!vars)
<1> USE NoneAssumption, TTLAssumption
        DEF SpacedInv, LockInv, TypeOK, MemoryConsistent, TokensDistinct, AcquirerAlone,
            WritesFresh, HolderOwns, Acquiring, LockRecord, StaleRecord
<1> DEFINE t == copy[p].owner
<1>1. /\ pc[p] = "put" /\ token[p] = None
      /\ copy[p] \in LockRecord /\ copy[p].left \in 1..LockTTL
      /\ copy[p] = [owner |-> t, left |-> copy[p].left]
      /\ t \in Token /\ (lock # None => lock.owner # t)
      /\ \A q \in Proc : token[q] # t
      /\ lock = None \/ lock.left = 0
    BY DEF PutLock, Holding
<1>2. ASSUME lock' = copy[p] PROVE Atomic!Grant(t)
    BY <1>1, <1>2 DEF Atomic!Grant, Atomic!Free
<1>3. CASE /\ lock' = copy[p]
           /\ token' = [token EXCEPT ![p] = copy[p].owner]
           /\ pc' = [pc EXCEPT ![p] = "run"]
    <2>1. Runners' = Runners \cup {p}
        BY <1>3 DEF Runners, Holding
    <2>2. Atomic!Take(p)
        BY <1>1, <1>2, <1>3, <2>1 DEF Atomic!Take
    <2> QED BY <2>2 DEF Atomic!Next
<1>4. CASE /\ lock' \in {lock, copy[p]}
           /\ pc' = [pc EXCEPT ![p] = "idle"]
           /\ UNCHANGED token
    <2>1. Runners' = Runners
        BY <1>1, <1>4 DEF Runners, Holding
    <2>2. CASE lock' = lock
        BY <1>4, <2>1, <2>2 DEF Atomic!vars
    <2>3. CASE lock' = copy[p]
        <3>1. Atomic!Waste
            BY <1>1, <1>2, <1>4, <2>1, <2>3 DEF Atomic!Waste
        <3> QED BY <3>1 DEF Atomic!Next
    <2> QED BY <1>4, <2>2, <2>3
<1> QED BY <1>3, <1>4 DEF PutLock

LEMMA RefreshPutSeen ==
    ASSUME SpacedInv, NEW p \in Proc, RefreshPut(p)
    PROVE  [Atomic!Next]_(Atomic!vars)
<1> USE NoneAssumption, TTLAssumption
        DEF SpacedInv, LockInv, TypeOK, MemoryConsistent, HolderOwns, WritesFresh, OwnLock,
            LockRecord
<1>1. /\ Holding(p) /\ copy[p] \in LockRecord /\ copy[p].owner = token[p]
      /\ lock \in LockRecord /\ lock.owner = token[p]
      /\ copy[p].left \in lock.left..LockTTL
    BY DEF RefreshPut
<1>2. Runners' = Runners /\ UNCHANGED token
    BY DEF RefreshPut, Runners, Holding
<1>3. CASE lock' = lock
    BY <1>2, <1>3 DEF Atomic!vars
<1>4. CASE lock' = copy[p]
    <2>1. copy[p] = [lock EXCEPT !.left = copy[p].left]
        BY <1>1
    <2>2. Atomic!Extend(p)
        BY <1>1, <1>2, <1>4, <2>1 DEF Atomic!Extend, Atomic!Owns, Runners
    <2> QED BY <2>2 DEF Atomic!Next
<1> QED BY <1>3, <1>4 DEF RefreshPut

LEMMA ReleaseSeen ==
    ASSUME SpacedInv, NEW p \in Proc, Release(p)
    PROVE  [Atomic!Next]_(Atomic!vars)
<1> USE NoneAssumption
        DEF SpacedInv, LockInv, TypeOK, MemoryConsistent, LockRecord
<1>1. CASE FinishRun(p)
    <2>1. Runners' = Runners
        BY <1>1 DEF FinishRun, Runners, Holding
    <2> QED BY <1>1, <2>1 DEF FinishRun, Atomic!vars
<1>2. CASE StopRefresh(p)
    <2>1. p \in Runners /\ Runners' = Runners \ {p}
        BY <1>2 DEF StopRefresh, Runners, Holding
    <2>2. Atomic!Finish(p)
        BY <1>2, <2>1 DEF StopRefresh, Atomic!Finish
    <2> QED BY <2>2 DEF Atomic!Next
<1>3. CASE ReleaseLoad(p)
    <2>1. Runners' = Runners /\ p \notin Runners
        BY <1>3 DEF ReleaseLoad, Runners, Holding
    <2>2. CASE UNCHANGED token
        BY <1>3, <2>1, <2>2 DEF ReleaseLoad, Atomic!vars
    <2>3. CASE token' = [token EXCEPT ![p] = None]
        <3>1. Atomic!GiveUp(p)
            BY <1>3, <2>1, <2>3 DEF ReleaseLoad, Atomic!GiveUp
        <3> QED BY <3>1 DEF Atomic!Next
    <2> QED BY <1>3, <2>2, <2>3 DEF ReleaseLoad
<1>4. CASE DeleteLock(p)
    <2>1. Runners' = Runners /\ p \notin Runners
        BY <1>4 DEF DeleteLock, Runners, Holding
    <2>2. Atomic!Owns(p) \/ UNCHANGED lock
        BY <1>4 DEF DeleteLock, ETagMatches, Atomic!Owns
    <2>3. Atomic!GiveUp(p)
        BY <1>4, <2>1, <2>2 DEF DeleteLock, Atomic!GiveUp
    <2> QED BY <2>3 DEF Atomic!Next
<1> QED BY <1>1, <1>2, <1>3, <1>4 DEF Release

LEMMA TickSeen ==
    ASSUME SpacedInv, Tick, Timely
    PROVE  [Atomic!Next]_(Atomic!vars)
<1> USE NoneAssumption DEF SpacedInv, LockInv, TypeOK, LockRecord
<1>1. Runners' = Runners /\ UNCHANGED token
    BY DEF Tick, Runners, Holding
<1>2. CASE lock # None /\ lock.left > 0
    <2>1. lock' = [lock EXCEPT !.left = @ - 1]
        BY <1>2 DEF Tick, Older
    <2>2. lock' # None
        BY <1>2, <2>1, TTLAssumption
    <2>3. \A p \in Runners : lock'.left > 0
        BY <2>2 DEF Timely, Runners
    <2>4. Atomic!Age
        BY <1>1, <1>2, <2>1, <2>3 DEF Atomic!Age
    <2> QED BY <2>4 DEF Atomic!Next
<1>3. CASE ~(lock # None /\ lock.left > 0)
    BY <1>1, <1>3 DEF Tick, Older, Atomic!vars
<1> QED BY <1>2, <1>3

LEMMA LeaseStepSeen ==
    SpacedInv /\ [Next /\ Timely /\ Apart]_vars => [Atomic!Next]_(Atomic!vars)
<1> SUFFICES ASSUME SpacedInv, [Next /\ Timely /\ Apart]_vars
             PROVE  [Atomic!Next]_(Atomic!vars)
    OBVIOUS
<1>1. ASSUME NEW p \in Proc, LoadLock(p) \/ HeadLock(p) \/ RefreshLoad(p)
      PROVE  UNCHANGED <<lock, token, Runners>>
    BY <1>1 DEF SpacedInv, LockInv, TypeOK, LoadLock, HeadLock, RefreshLoad, Runners, Holding
<1>2. ASSUME NEW p \in Proc, Crash(p) PROVE Atomic!Die(p)
    <2>1. Runners' = Runners \ {p}
        BY <1>2 DEF SpacedInv, LockInv, TypeOK, Crash, Runners, Holding
    <2> QED BY <1>2, <2>1 DEF Crash, Atomic!Die
<1>3. CASE UNCHANGED vars
    BY <1>3 DEF vars, Runners, Holding, Atomic!vars
<1> QED
    BY <1>1, <1>2, <1>3, PutLockSeen, RefreshPutSeen, ReleaseSeen, TickSeen
    DEF Next, Acquire, Refresh, Atomic!Next, Atomic!vars

(* The protocol of S3 calls implements a lease taken and kept atomically.  *)
THEOREM ImplementsLease == SpacedSpec => ActsAtomically
BY SpacedInit, SpacedStepInv, LeaseInitSeen, LeaseStepSeen, PTL
DEF SpacedSpec, ActsAtomically, Atomic!Spec
-----------------------------------------------------------------------------
LEMMA LeaseStep == Atomic!LeaseInv /\ [Atomic!Next]_(Atomic!vars) => Atomic!LeaseInv'
<1> SUFFICES ASSUME Atomic!LeaseInv, [Atomic!Next]_(Atomic!vars) PROVE Atomic!LeaseInv'
    OBVIOUS
<1> USE TTLAssumption, NoneAssumption
    DEF Atomic!LeaseInv, Atomic!Owns, Atomic!Free, Atomic!Grant, LockRecord
<1>1. ASSUME NEW p \in Proc, Atomic!Take(p) PROVE Atomic!LeaseInv'
    BY <1>1 DEF Atomic!Take
<1>2. ASSUME NEW p \in Proc, Atomic!Extend(p) PROVE Atomic!LeaseInv'
    BY <1>2 DEF Atomic!Extend
<1>3. ASSUME NEW p \in Proc, Atomic!Finish(p) PROVE Atomic!LeaseInv'
    BY <1>3 DEF Atomic!Finish
<1>4. ASSUME NEW p \in Proc, Atomic!GiveUp(p) PROVE Atomic!LeaseInv'
    BY <1>4 DEF Atomic!GiveUp
<1>5. ASSUME NEW p \in Proc, Atomic!Die(p) PROVE Atomic!LeaseInv'
    BY <1>5 DEF Atomic!Die
<1>6. CASE Atomic!Waste
    BY <1>6 DEF Atomic!Waste
<1>7. CASE Atomic!Age
    BY <1>7 DEF Atomic!Age
<1>8. CASE UNCHANGED Atomic!vars
    BY <1>8 DEF Atomic!vars
<1> QED BY <1>1, <1>2, <1>3, <1>4, <1>5, <1>6, <1>7, <1>8 DEF Atomic!Next

(* The lease alone already makes runs exclude each other.                  *)
THEOREM LeaseExcludes == Atomic!Spec => []Atomic!Exclusive
<1>1. Atomic!Init => Atomic!LeaseInv
    BY DEF Atomic!Init, Atomic!LeaseInv
<1>2. Atomic!LeaseInv => Atomic!Exclusive
    BY NoneAssumption DEF Atomic!LeaseInv, Atomic!Owns, Atomic!Exclusive, LockRecord
<1> QED BY <1>1, <1>2, LeaseStep, PTL DEF Atomic!Spec
=============================================================================
