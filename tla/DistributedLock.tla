-------------------------- MODULE DistributedLock --------------------------
(***************************************************************************)
(* The lock object state/lock.json (pkg/certcloset/lock.go), taken by      *)
(* renew and sync for the length of a run and kept fresh by a goroutine    *)
(* (app/lock.go).  Every S3 call is a step of its own: S3 offers the code  *)
(* no compare-and-swap except on delete, so what a process has read may be *)
(* out of date when it writes.                                             *)
(*                                                                         *)
(* An expiry is kept as the time left until it; a record and the copies of *)
(* it in memory age together, so equality of copies is equality of ETags.  *)
(***************************************************************************)
EXTENDS Integers

CONSTANTS
    Proc,       \* renew and sync processes sharing a bucket
    Token,      \* owner ids; a new one is random, unlike any in use
    LockTTL,    \* lockTTL
    Faults,     \* subset of {"s3read", "s3write", "crash"}
    None

ASSUME TTLAssumption == LockTTL \in Nat /\ LockTTL > 0
ASSUME FaultAssumption == Faults \subseteq {"s3read", "s3write", "crash"}

LockRecord == [owner : Token, left : 0..LockTTL]

ASSUME NoneAssumption == None \notin Token \cup LockRecord

VARIABLES
    lock,       \* the lock object in S3, or None
    token,      \* lockToken of a process: it believes it holds the lock
    pc,         \* where a process is
    refresher,  \* its refresh goroutine
    copy        \* the record it is about to write, or to delete if unchanged

vars == <<lock, token, pc, refresher, copy>>

TypeOK ==
    /\ lock \in LockRecord \cup {None}
    /\ token \in [Proc -> Token \cup {None}]
    /\ pc \in [Proc -> {"idle", "head", "put", "run", "stopping", "release", "delete"}]
    /\ refresher \in [Proc -> {"off", "wait", "put"}]
    /\ copy \in [Proc -> LockRecord \cup {None}]

Init ==
    /\ lock = None
    /\ token = [p \in Proc |-> None]
    /\ pc = [p \in Proc |-> "idle"]
    /\ refresher = [p \in Proc |-> "off"]
    /\ copy = [p \in Proc |-> None]

(* newLockOwnerID: 16 random bytes.                                        *)
Used(t) ==
    \/ lock # None /\ lock.owner = t
    \/ \E p \in Proc : token[p] = t \/ (copy[p] # None /\ copy[p].owner = t)

-----------------------------------------------------------------------------
(* AcquireLock.  A fresh record or a failed read skips the run: a stutter. *)
(* Mutant: a record of another owner is taken over whatever its age.       *)
AnyRecord == lock # None
StaleRecord == lock # None /\ lock.left = 0

LoadLock(p) ==
    /\ pc[p] = "idle" /\ token[p] = None
    /\ lock = None \/ StaleRecord
    /\ \E t \in Token :
        /\ ~Used(t)
        /\ copy' = [copy EXCEPT ![p] = [owner |-> t, left |-> LockTTL]]
    /\ pc' = [pc EXCEPT ![p] = IF lock = None THEN "head" ELSE "put"]
    /\ UNCHANGED <<lock, token, refresher>>

(* putLock with requireMissing: a HeadObject, then a plain PutObject.      *)
HeadLock(p) ==
    /\ pc[p] = "head"
    /\ \/ /\ lock = None
          /\ pc' = [pc EXCEPT ![p] = "put"] /\ UNCHANGED copy
       \/ /\ lock # None \/ "s3read" \in Faults
          /\ pc' = [pc EXCEPT ![p] = "idle"] /\ copy' = [copy EXCEPT ![p] = None]
    /\ UNCHANGED <<lock, token, refresher>>

PutLock(p) ==
    /\ pc[p] = "put"
    /\ \/ /\ lock' = copy[p]
          /\ token' = [token EXCEPT ![p] = copy[p].owner]
          /\ pc' = [pc EXCEPT ![p] = "run"]
          /\ refresher' = [refresher EXCEPT ![p] = "wait"]      \* startLockRefresh
       \/ /\ "s3write" \in Faults
          /\ lock' \in {lock, copy[p]}
          /\ pc' = [pc EXCEPT ![p] = "idle"]
          /\ UNCHANGED <<token, refresher>>
    /\ copy' = [copy EXCEPT ![p] = None]

-----------------------------------------------------------------------------
(* RefreshLock: a record that is gone, another's or unreadable is only     *)
(* logged, and so is a failed write.                                       *)
(* Mutant: the owner is not compared.                                      *)
AnyOwner(p) == lock # None
OwnLock(p) == lock # None /\ lock.owner = token[p]

RefreshLoad(p) ==
    /\ refresher[p] = "wait"
    /\ OwnLock(p)
    /\ refresher' = [refresher EXCEPT ![p] = "put"]
    /\ copy' = [copy EXCEPT ![p] = [lock EXCEPT !.left = LockTTL]]
    /\ UNCHANGED <<lock, token, pc>>

RefreshPut(p) ==
    /\ refresher[p] = "put"
    /\ lock' \in {copy[p]} \cup (IF "s3write" \in Faults THEN {lock} ELSE {})
    /\ refresher' = [refresher EXCEPT ![p] = "wait"]
    /\ copy' = [copy EXCEPT ![p] = None]
    /\ UNCHANGED <<token, pc>>

-----------------------------------------------------------------------------
(* The deferred calls: cancel the refresher and wait for it, then release. *)
FinishRun(p) ==
    /\ pc[p] = "run"
    /\ pc' = [pc EXCEPT ![p] = "stopping"]
    /\ UNCHANGED <<lock, token, refresher, copy>>

StopRefresh(p) ==
    /\ pc[p] = "stopping" /\ refresher[p] = "wait"
    /\ refresher' = [refresher EXCEPT ![p] = "off"]
    /\ pc' = [pc EXCEPT ![p] = "release"]
    /\ UNCHANGED <<lock, token, copy>>

(* ReleaseLock forgets the token whatever happens.                         *)
ReleaseLoad(p) ==
    /\ pc[p] = "release"
    /\ \/ /\ OwnLock(p)
          /\ copy' = [copy EXCEPT ![p] = lock]
          /\ pc' = [pc EXCEPT ![p] = "delete"] /\ UNCHANGED token
       \/ /\ ~OwnLock(p) \/ "s3read" \in Faults
          /\ token' = [token EXCEPT ![p] = None]
          /\ pc' = [pc EXCEPT ![p] = "idle"] /\ UNCHANGED copy
    /\ UNCHANGED <<lock, refresher>>

(* DeleteObject with If-Match.  Mutant: without.                           *)
Unconditional(p) == TRUE
ETagMatches(p) == lock = copy[p]

DeleteLock(p) ==
    /\ pc[p] = "delete"
    /\ lock' \in (IF ETagMatches(p) THEN {None} ELSE {lock})
                 \cup (IF "s3write" \in Faults THEN {lock} ELSE {})
    /\ token' = [token EXCEPT ![p] = None]
    /\ copy' = [copy EXCEPT ![p] = None]
    /\ pc' = [pc EXCEPT ![p] = "idle"]
    /\ UNCHANGED refresher

-----------------------------------------------------------------------------
Crash(p) ==
    /\ "crash" \in Faults
    /\ pc' = [pc EXCEPT ![p] = "idle"]
    /\ token' = [token EXCEPT ![p] = None]
    /\ refresher' = [refresher EXCEPT ![p] = "off"]
    /\ copy' = [copy EXCEPT ![p] = None]
    /\ UNCHANGED lock

Older(rec) == IF rec # None /\ rec.left > 0 THEN [rec EXCEPT !.left = @ - 1] ELSE rec

Tick ==
    /\ lock' = Older(lock)
    /\ copy' = [p \in Proc |-> Older(copy[p])]
    /\ UNCHANGED <<token, pc, refresher>>

Acquire(p) == LoadLock(p) \/ HeadLock(p) \/ PutLock(p)
Refresh(p) == RefreshLoad(p) \/ RefreshPut(p)
Release(p) == FinishRun(p) \/ StopRefresh(p) \/ ReleaseLoad(p) \/ DeleteLock(p)

Next ==
    \/ \E p \in Proc : Acquire(p) \/ Refresh(p) \/ Release(p) \/ Crash(p)
    \/ Tick

Spec == Init /\ [][Next]_vars

(* Time passes.                                                            *)
LiveSpec == Spec /\ WF_vars(Tick)

-----------------------------------------------------------------------------
(* What the lock relies on.  Timely: a holder gets its refresh through in  *)
(* time (every minute, for a TTL of five), and a write lands before what   *)
(* it writes has expired.  Apart: no process starts to acquire while       *)
(* another is between its read and its write.                              *)
Holding(p) == pc[p] \in {"run", "stopping"}
Acquiring(p) == pc[p] \in {"head", "put"}

Timely ==
    \A p \in Proc :
        /\ Holding(p) /\ lock' # None => lock'.left > 0
        /\ (Acquiring(p) \/ refresher[p] = "put") /\ copy'[p] # None => copy'[p].left > 0
Apart == \A p, q \in Proc : Acquiring(p)' /\ Acquiring(q)' => p = q

TimelySpec == Init /\ [][Next /\ Timely]_vars
SpacedSpec == Init /\ [][Next /\ Timely /\ Apart]_vars

-----------------------------------------------------------------------------
(* What a process has in memory fits the place it is at.                   *)
MemoryConsistent ==
    \A p \in Proc :
        /\ token[p] # None <=> pc[p] \in {"run", "stopping", "release", "delete"}
        /\ refresher[p] # "off" <=> Holding(p)
        /\ Acquiring(p) => copy[p] # None
        /\ pc[p] = "delete" \/ refresher[p] = "put" => copy[p] # None /\ copy[p].owner = token[p]

(* Owner ids are one process's own, and an acquirer's is new to the bucket.*)
TokensDistinct ==
    /\ \A p, q \in Proc : p # q =>
        /\ token[p] # None => token[p] # token[q]
        /\ Acquiring(p) => copy[p].owner # token[q]
        /\ Acquiring(p) /\ Acquiring(q) => copy[p].owner # copy[q].owner
    /\ \A p \in Proc : Acquiring(p) /\ lock # None => copy[p].owner # lock.owner

(* A holder's lock is in S3 and fresh, and an acquirer has still nothing   *)
(* fresh to overwrite: with both, no run starts during another.            *)
HolderOwns ==
    \A p \in Proc : Holding(p) => OwnLock(p) /\ lock.left > 0
AcquirerAlone ==
    \A p \in Proc : Acquiring(p) =>
        /\ lock = None \/ StaleRecord
        /\ \A q \in Proc : Acquiring(q) => p = q
WritesFresh ==
    \A p \in Proc :
        /\ Acquiring(p) \/ refresher[p] = "put" => copy[p].left > 0
        /\ refresher[p] = "put" => copy[p].left >= lock.left

LockInv == TypeOK /\ MemoryConsistent /\ TokensDistinct
SpacedInv == LockInv /\ HolderOwns /\ AcquirerAlone /\ WritesFresh

(* At most one process is inside a run.                                    *)
MutualExclusion == \A p, q \in Proc : Holding(p) /\ Holding(q) => p = q

(* Concurrent acquirers do not clobber each other (comment of AcquireLock):*)
(* a fresh lock is not overwritten with another owner's.                   *)
NoClobber ==
    [][lock # None /\ lock.left > 0 /\ lock' # None => lock'.owner = lock.owner]_vars

(* ReleaseLock removes the lock only if this process still owns it, even   *)
(* when the lock was taken over between its read and its delete.           *)
ReleaseOnlyOwn ==
    [][lock # None /\ lock' = None =>
        \E p \in Proc : pc[p] = "delete" /\ token[p] = lock.owner]_vars

(* Nobody extends a lock whose owner is gone, or takes its id: whatever is *)
(* refreshed, taken over or released meanwhile, such a lock only ages.     *)
Orphaned(t) == lock # None /\ lock.owner = t /\ \A p \in Proc : token[p] # t
OrphanOnlyAges ==
    [][\A t \in Token : Orphaned(t) /\ lock' # None /\ lock'.owner = t =>
           lock'.left <= lock.left /\ Orphaned(t)']_vars

(* A lock whose owner is gone blocks the others for a TTL at most.         *)
HeldBy(t) == lock # None /\ lock.owner = t /\ lock.left > 0
OrphanExpires ==
    \A t \in Token :
        HeldBy(t) /\ (\A p \in Proc : token[p] # t) ~> ~HeldBy(t)

(* With acquisitions apart and refreshes timely, the reads, writes and     *)
(* deletes of S3 amount to a lease that is taken, extended and given up    *)
(* atomically, lost answers and crashes included.                          *)
Runners == {p \in Proc : Holding(p)}
Atomic == INSTANCE Lease WITH TTL <- LockTTL, lease <- lock, running <- Runners
ActsAtomically == Atomic!Spec
=============================================================================
