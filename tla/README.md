# A formal model of traefik-acme-s3

traefik-acme-s3 renews Let's Encrypt certificates for the domains of a Traefik
installation, keeps them in an S3 bucket, and copies them to the hosts that serve them.
`renew` and `sync` are separate processes, on separate machines, that share nothing but
the bucket, the DNS zone and the clock. There is no database, no transaction, and S3
is used without compare-and-swap except for one delete. What makes the program correct is
the *order* of its remote calls, and what it does when one of them fails.

This directory holds TLA+ modules translated from the Go code, the TLC configurations that
check them on small instances, and theorems that TLAPS proves for every instance.

    tlc -workers 2 -config Renew_faults.cfg MCRenew.tla     # one run
    tlapm RenewProofs.tla                                   # one set of proofs

Symbols and lines of the source behind every definition are in `PROJECT.json`, `map`.

## 1. Inventory

| Part | Code | State | Operations | What is hard |
|---|---|---|---|---|
| Renewer | `app/renew.go`, `app/backoff.go` | in S3: failure state, rollover states, pending keys; in memory: the run's copy of the failures | a run over the domains: back off, advance or start a rollover, check, heal, request, store | a run is up to five remote calls per domain; any fails, half-succeeds, or is the last before a crash |
| Certificate closet | `pkg/certcloset/certcloset.go`, `index.go`, `store.go` | objects, `cert_index.json`; every process has a copy of the index with a dirty flag | load, refresh, store, remove, save the index | copies are written back whole; a refresh merges |
| Rollover, pending key, failure and account objects | `pkg/certcloset/state.go` | one object each | load (404 is "none"), store, delete | every error but 404 is passed up, and callers treat it differently |
| Distributed lock | `pkg/certcloset/lock.go`, `app/lock.go` | `state/lock.json`; the owner token; a goroutine that refreshes | acquire, refresh each minute, release | read and write are two calls without a condition |
| Sync | `app/sync.go`, `pkg/certcloset/localCloset.go` | `cert.pem`, `key.pem` per domain, local index, HAProxy bundles, crt-list, Traefik file | prune, diff, fetch, write, save, write the outputs | several files that belong together, crashes between them |
| DNS updater | `pkg/dnsupdate/` | the TLSA and CAA RRsets of the zone | AddTLSA, RemoveTLSA, UpdateDNS, finding zone and key | an update whose answer is lost |
| DANE view | across the three above | what clients see: served key against cached TLSA records | - | three independent delays (resolver TTL, rollover waits, sync) |
| ACME account | `pkg/buckcert/leUser.go`, `buckcert.go` | the account object, a local account file, the CA's accounts, CAA records that name one | load, import or create, register, save, publish | renewers that start at once, outside the lock; a crash between registering and saving |
| ACME requests | `pkg/buckcert/request.go` | none | request a certificate | the protocol is lego's |
| Daemon | `app/daemon.go`, `app/app.go`, `main.go` | ticker, a trigger channel of capacity one, rate limit, signals | loop, HTTP trigger, shutdown | which of several ready events is taken; goroutines nobody waits for |
| Encryption | `pkg/certcloset/crypt.go` | none | AES-GCM, reading legacy CBC | none (pure) |
| Domain sources | `pkg/traefikclient/`, `pkg/configserverclient/` | none | fetch and parse the domains | may answer with fewer domains than before |
| Configuration, metrics | `app/config.go`, `app/metrics.go`, `app/init.go` | counters | flags, wiring | settings that depend on each other are not validated |

How they interact. The daemon (or cron, with `--once`) starts a run; the run takes the lock,
does its work through the closet, and releases the lock. The renewer is the only
writer of certificates, rollover states and TLSA records; both renewer and sync write the
index. Sync learns of a certificate only through the index, and only because the expiry
listed there differs from that in its local index. The renewer in turn
never learns whether sync has run: it waits for `DNS_UPDATE_SYNC_LAG_SECONDS`.

What makes each part correct:

- *Renewer*: a rollover is resumable from what is stored, at every point where it can
  be cut off; the certificate switches only after the wait, the old record goes only after
  the lag; the current certificate always has its record; a rollover ends; a due certificate is renewed; a
  failed domain is left alone for its backoff.
- *Closet*: the index forgets no certificate that is there.
- *Lock*: one run at a time; releasing removes only one's own lock; a dead owner does not
  block the others.
- *Sync*: certificate and key always go together; what counts as settled is on disk;
  what the index lists is served in the end.
- *DANE view*: no client holds TLSA records without the served key.
- *ACME account*: all renewers come to use one account, it is never replaced, and the CAA
  records they publish shut none of them out.
- *Daemon*: an accepted trigger leads to a run that reads its inputs afterwards; the rate is
  bounded; the loop neither falls silent nor refuses to stop.

## 2. The modules

    Rollover <--implements-- Renew <--EXTENDS-- Dane
    Lease    <--implements-- DistributedLock

| Module | About | Proofs | Instances |
|---|---|---|---|
| `Renew` | the renewer, call by call | `RenewProofs`, `BackoffProofs` | `MCRenew` |
| `Rollover` | what the renewer promises of the three phases | `RolloverProofs` | (in `MCRenew`) |
| `Dane` | renewer, sync and resolver together | `DaneProofs` | `MCDane` |
| `DistributedLock` | the lock, one S3 call per step | `LockProofs` | `MCLock` |
| `Lease` | the atomic lock it amounts to | `LockProofs` | (in `MCLock`) |
| `Closet` | index, objects, sync and its outputs | `ClosetProofs` | `MCCloset` |
| `Account` | the ACME account and CAA records | `AccountProofs` | `MCAccount` |
| `Daemon` | one process: loop, server, signal | `DaemonProofs` | `MCDaemon` |

### Renew - the renewer, call by call

One process that holds the lock. The bucket is `cert`, `certIndex`, `failures`, `rollover`
and `pendingKey`; DNS is `tlsa`; `index`/`dirty` are the closet's copy, `backoff` is
the run's failure state, `todo`/`job`/`pc` say where the run is.

| Actions | Code |
|---|---|
| `StartRun`, `Skip`, `Visit`, `EndRun`, `SaveIndexAtEnd` | the loop of `renew` |
| `Check`, `Heal` | the index entry, `CertificateExists`, the stale entry |
| `AddTLSA`, `StorePendingKey`, `StoreRolloverState` | `startRollover` |
| `RequestCert`, `Store`, `UpdateDNS` | the direct path |
| `ResetRollover`, `Wait`, `RequestCertWithKey`, `StoreNew`, `SwitchPhase` | `advanceRollover`, pre-publishing |
| `RemoveTLSA`, `DeletePendingKey`, `DeleteRolloverState` | `advanceRollover`, cert-switched |
| `SaveFailureState` | `recordFailure`, `clearFailure` and the save after either |
| `Restart`, `Tick`, `BecomeDue`, `CertVanishes` | the environment |

Every action is one remote call with the memory updates around it, so a crash falls between
any two calls. A call that fails may or may not have taken effect (`Written`): this is what a
lost answer looks like. Keys, certificates and TLSA records are one set `Key`: a certificate is known
by its key, a record by the key it is computed from. An index entry is `"valid"`, `"due"` or
`None`, which is all `renew` looks at. Times are relative (how old a phase is, how much of a
backoff is left), and capped at `AgeCap`, beyond which no comparison of the code can change.

### Rollover - the abstract three-phase rollover

State per domain: the certificate, the TLSA RRset, the stored rollover with its age. A step is
one change of one of them: `PrePublish`, `Begin`, `SwitchCert`, `Switched`, `Withdraw`, `Finish`,
`GiveUp`. There are no runs, calls, failures or restarts. `Renew` instantiates it for its
rollover domains (`Phases == INSTANCE Rollover WITH ...`) and states `ThreePhases ==
Phases!Spec`: every remote call, whether it fails, half-succeeds or is cut off by a crash, is one
such step or changes nothing. What this rules out is not visible in any single state: a phase
skipped by a retry, a rollover that goes from one new key to another, an old record
withdrawn twice over under different rollovers.

### Dane - renewer, sync and resolver together

`Dane` EXTENDS `Renew` and adds the served key, the local index, one resolver cache per
domain, and how long the proxy has been behind. `Sync` is one step, since it holds the
lock; `Closet` looks into it. `DaneTick` lets time pass at any moment, in a run as well as between
runs. The proxy is behind (`UpToDate`) from the moment a run changes its index, in memory: the run has yet
to end and save it (`renew.go:263`), and only then can sync get the lock. That time, to the sync that fetches the
change, is below `SyncWithin`, a constant of its own; the phase's clock (`renew.go:372`) runs
meanwhile. Whether `SyncWithin` fits in `SyncLag` is up to the operator (see the known limits).

### DistributedLock - one S3 call per step

`AcquireLock` is `LoadLock`, `HeadLock`, `PutLock`; the goroutine is `RefreshLoad`,
`RefreshPut`; `FinishRun`, `StopRefresh`, `ReleaseLoad`, `DeleteLock` are the deferred calls.
A record and the copies of it in memory age together, so equality of copies is equality of
ETags. Three specifications: `Spec` (any timing), `TimelySpec` (refreshes and writes are in
time), `SpacedSpec` (in addition, no two processes acquire at the same moment).

### Lease - the lock as one would like to have it

A lease that is taken, extended and freed in one step each, by owner ids; `running` are those
inside a run. `DistributedLock` instantiates it (`Atomic`, with `Runners`, the processes between
acquiring and the end of the refresher, for `running`) and states `ActsAtomically ==
Atomic!Spec`: under `SpacedSpec` a HeadObject, a stale read, a refresh that crosses a release, a put
that landed although it failed (`Waste`) are lease steps or none. So the other modules may
take a run for something that begins and ends with the lock.

### Closet - index, objects and sync

The renewer is reduced to what it does to the bucket (`StoreCertificate`, `Heal`, `RenewEnd`),
sync is taken step by step: `SyncStart` (with the merging `RefreshIndex`), `LoadLocal`
(`NewLocalCertCloset`, `CheckIntegrity`), `Prune`, `Diff`, `Fetch`, `DropStale`, `WriteCert`,
`WriteKey`, `TruncateLocal`, `SaveLocal`, then the outputs that are configured (`Outputs`):
`WriteTraefik` (`listed`), `WriteBundle` (`bundle`, `lines`), `WriteCrtList` (`crtList`).
A certificate is its version: two certificates of a domain have different expiry dates, and
those are what the index lists. `Crash` may come at any step, `Vanish` too.

The lock appears as `holder`: one run at a time. That is what `DistributedLock` implements under
`SpacedSpec` (`ActsAtomically`, and `LeaseExcludes` of the lease), and what it refutes without it; the properties of `Renew`, `Dane` and `Closet`
are relative to it.

### Account - one account for all renewers

`initBuckcert` runs before the lock is asked for, so renewers do meet here. `Load`
(`LoadACMEUser`, `loadLocalOrNewUser`), `HeadUser` and `PutUser` (`StoreACMEUserIfNotExists`),
`Reload`, `Register` (`initClient`, `register`), `SaveUser` are the calls of a start, `Order` a
certificate with the CAA records it publishes, `Stop` a crash or an end. An account is a key and
the CA it is registered at. A `Stray` renewer has another `CLOSET_PASSWORD`, so it can read
nothing the others have stored, nor they what it has. The CA is modelled by what it does: it looks
for CAA records from the domain's zone upwards and obeys the first. `SpacedSpec` is the
assumption the comment of `StoreACMEUserIfNotExists` makes: no two processes between
its HeadObject and its PutObject.

### Daemon - one process

The attempt (`Initialise`, `Collect`, `AcquireLock`, `Work`), the loop's select (`SelectTick`,
`SelectTrigger`, `SelectDone`, `Exit`), the ticker, the signal, the trigger server
(`Listen`, `Shutdown`) and the handlers of a request (`Arrive`, `Unauthorized`, `Allow`,
`TooMany`, `Send`, `Reply`) interleave. Renew reads its domains before it asks for the lock, sync
reads the index under it, so the order of `Collect` and `AcquireLock` depends on the role.
Any one request is tracked from its 202 on. Time for the rate limiter goes in steps of a minute divided by the limit;
`recent[i]` counts the requests let through in the last `i` of them.

## 3. What the runs check

Passing runs.

| Run | Instance | Question |
|---|---|---|
| `Renew_faults` | 1 rollover domain, 3 keys, all six kinds of fault | safety of the rollover under everything that can go wrong, and that it is the abstract rollover |
| `Renew_progress` | a rollover domain and a wildcard, 2 keys, backoff 2, failing DNS and CA, fairness | backoffs, progress, index saved |
| `Lock_faults` | 2 processes, 4 tokens, TTL 2, faults, any timing | what holds of the lock always |
| `Lock_spaced` | 3 processes, 5 tokens, TTL 3, faults, `SpacedSpec` | that the lock excludes, and is an atomic lease |
| `Dane_rollover` | 1 domain, 4 keys, TTL and wait 2, lag 3, a run and its sync below 3; failing reads, DNS and CA, vanishing objects | no DANE gap |
| `Closet_faults` | 2 domains, 2 versions each, 1 renewer, 2 mishaps, all faults and outputs; 7.6 million states | consistency of index, disk and outputs |
| `Closet_served` | 1 domain, 2 versions, failing S3 writes, 2 mishaps, all outputs, fairness | what is indexed is served |
| `Daemon_life` | 2 clients, one without the token, limit 2, all faults, fairness | triggers, rate, loop, shutdown |
| `Account_spaced` | 3 renewers, one with another password, 3 keys, 2 CAs, 2 domains in nested zones, all faults but a CA changed under an account | one account for all |

Properties, by the hazard they are aimed at:

- `CertPublished`, `PendingKeyMatches`, `RolloverConsistent`, `JobConsistent`: the rollover is cut
  off anywhere, and what is stored still fits together.
- `SwitchOnlyAfterWait`, `WithdrawOnlyAfterLag`: no retry, restart or failed write shortens a
  phase.
- `BackoffKept`: a stored backoff only runs out by time or by success. The run has no
  failing reads: with them it is false, since `loadFailureState` continues with an empty
  state and the next save overwrites the others' backoffs.
- `NothingUnsaved`: only a run that counts a certificate as renewed saves the index at its end, so each
  path that changes an entry must count, or save at once; and a save that fails, perhaps after it has landed, must leave
  the change marked for the next save. The first is checked in `Renew_progress`, the second under all faults in `Renew_faults`.
- `RolloverCompletes`: even if the old record can never be withdrawn (the forced end after ten
  sync lags). `DueIsRenewed`.
- `MutualExclusion`, `SpacedInv`, `NoClobber`, `ReleaseOnlyOwn`, `ActsAtomically` (see Lease above).
  `OrphanOnlyAges`, `OrphanExpires`: a refresh or a takeover in flight does not bring a dead owner's lock back.
- `NoDaneGap`: the promise of the README, end to end, and so what the two waits are measured from: they start at a
  stored phase, while what they wait for starts later, at a resolver's query or at the end of the run.
- `BundleMatches`, `SettledPair`, `SyncComplete`: torn pairs. `SettledPair` is about
  entries that `GetDiff` will pass over: a wrong pair behind one would stay wrong.
- `ListedIsUsable`: an output list that names what is not there breaks the proxy's
  reload for every domain. The crt-list is always sound; the Traefik file when it is written
  (a later run that fails leaves it behind).
- `IndexKept`, `IndexedIsServed` (in both proxies' lists).
- `ThreePhases`: see Rollover above.
- `AcceptedIsQueued`, `AcceptedIsServed`: "already queued, skip" is right only because a
  queued request is taken out of the channel before the run reads its inputs. `LessThanTwice`: the true
  bound on requests in a minute (burst and refill together), not the documented one.
- `ShutsDown`, `RunsForever`: whatever the server, the lock and the triggers do.
- `OneAccount`, `NeverReplaced`, `NotLockedOut`: several steps of several renewers, a crash
  between registering and saving, an account saved over what another has stored.

Bounds. One domain is enough where domains do not interact; they do through the failure
state, the `todo` loop and the index, and there two are taken. Three keys are an old, a
new and one left over from an interrupted attempt; `Dane` needs a fourth for what is still
served or cached. In `Renew_faults` lag (1), wait (2) and forced end (3)
differ, so an age before, between and beyond each of them occurs. In `Dane_rollover` a lag of 3 lets time pass
both in the rest of a run and between its end and the sync. Two mishaps allow a crash in the recovery from a crash.
Three processes allow one holder, one that takes over, and one that acquires in between.
In `Account_spaced` a key is left over from a crash, one belongs to the stray, one is an imported file's; two
nested zones let one domain's CAA records stand above another's. In `Daemon_life` a limit of 2 and two
clients fill bucket and channel. Keys, tokens and domains are symmetric where no liveness is checked.

Runs that end in a counterexample, each against a statement of the repository:

| Run | What it shows |
|---|---|
| `Lock_race` | Two processes that both saw no lock (or the same stale one) both write it: the put has no condition (`lock.go:134`), against the comment of `AcquireLock` that concurrent acquirers do not clobber each other. |
| `Dane_crash` | The phase `cert-switched` is stored before the index. A crash between them leaves sync with the old entry and the old key, while the rollover goes on to withdraw the old record. |
| `Daemon_drain` | `ListenAndServe` returns when `Shutdown` is called, and nothing waits for `Shutdown` itself (`daemon.go:133-147`): the process exits under a request, against "waiting for HTTP servers to drain". |

Known limits: what the code does not keep and the passing runs therefore leave out, each at
the constant or the formula that leaves it out.

- *An index write that fails is not repeated* (`renew.go:258-265`): the index is written at the end
  of a run that stored a certificate; a daemon with nothing more to renew never
  writes it again, and sync does not see the certificate. The entry stays marked (`NothingUnsaved`, under all faults), so the
  next certificate that is renewed takes it along; that a run leaves nothing marked is stated without `"s3write"` only.
- *A run that is long against the lag* (`renew.go:372`, `263`, `387-398`): the lag is counted from the switch of one domain,
  but sync can see it only after the run's last domain, and then at its own next tick. With 3 s between requests
  and the time of an ACME order each, a run over tens of domains uses up the default of 300 s, and a
  run triggered soon after it withdraws the old record while the proxy still serves the old key. No crash and no failed
  call is needed. The instance has `SyncWithin <= SyncLag`, the proof assumes it (`Fitting`); with `SyncWithin = 4`,
  `SyncLag = 3` and no faults at all `NoDaneGap` is violated.
- *A failure state that cannot be read* (`renew.go:104`): the run goes on with an empty one, and its next save
  overwrites all stored backoffs. `Renew_progress` has no `"s3read"`; with it `BackoffKept` is violated.
- *A torn local index* (`localCloset.go:129`): the one file of sync that is not replaced by a
  rename. A crash while it is written leaves a file no later run can parse, until it is removed by hand.
  `IndexedIsServed` excepts `local = Torn`.
- *Two renew daemons* (`renew.go:106`): a renewer never refreshes its index, so two of them,
  perfectly serialised by the lock, erase each other's entries. `Renewer = {r1}` in the instances,
  `OneRenewer` in the proofs; with `{r1, r2}` `IndexKept` is violated.
- *A CA that is changed under an account* (`buckcert.go:78`): an account with a registration is taken for registered at
  whichever CA is configured, so after the move from staging to production every order is refused.
  `"switch"` is not in `Faults`; with it `NotLockedOut` is violated.
- *Two first starts in the same instant* (`state.go:126`): accepted by the code's comment, left
  out by `SpacedSpec`; under `Spec` `OneAccount` and `NeverReplaced` are violated.

## 4. Fairness

- `Renew`: the ticker of the daemon never stops, so a run over all domains starts again and
  again (`SF(StartRun(Domain))`: strong, since runs and restarts come in between); a run
  goes on (`WF(Step)`: a remote call returns in the end, with an answer or an error; the
  code sets no deadline of its own on S3 calls, so this is an assumption about the client
  library); time passes. The CA and the publication of
  a record do not fail for ever (`OthersAnswer`, strong, on the outcome). Nothing is
  assumed of withdrawing a record: the code has its forced end for this.
- `DistributedLock`: only that time passes.
- `Closet`: sync starts again and again (strong, since renewers take the lock), its steps and
  the end of a renewer's run are weakly fair. Faults are never fair; the crashes of a
  behaviour are bounded by `MaxMishaps`, failing writes are not.
- `Daemon`: goroutines go on (weak), a run ends, Go's select takes a ready branch at random,
  so one that is ready again and again is taken (strong), and the lock is not another's
  every time. Nothing is assumed of clients, of signals or, but in `RunsForever`, of the ticker.

## 5. What is proved

For all values of the constants (any domains, keys, waits, processes, tokens, faults), from
the named assumptions in the modules only (`TimeAssumption` and the like: that times are
naturals, that `None` is no value).

`RenewProofs`: `TypeCorrect`, `CertAlwaysPublished`, `PendingKeyKept`, `RolloverStaysConsistent`,
`JobStaysConsistent`, `SwitchAfterWait`, `WithdrawAfterLag`. The inductive invariant is `RenewInv`. `CertPublished` alone is not
inductive: withdrawing the old record keeps it only if the old key is not the current one,
which needs `RolloverConsistent` (a switched state is backed by the new certificate),
which in turn needs to know that a run that is about to store the phase has stored the
certificate (`JobConsistent`). There is one lemma per action; the two action properties follow
from the invariant and the few actions that touch `cert` or `tlsa`. `NothingStaysUnsaved` has an
invariant of its own, `UnsavedTracked`: what is marked as unsaved is counted, or about to be saved, unless a write of the bucket can fail.

`BackoffProofs`: `BackoffIsKept`, assuming `"s3read" \notin Faults`. It needs that the
run's copy is never behind the stored one except for the domain being handled, and why it is
ahead there.

`RolloverProofs`: `ImplementsPhases`. Under `RenewInv` each action of `Renew` is shown to be a step of
`Rollover` or to leave its three variables alone; the lost-answer writes give one case each. `PhasesKeepCertOut`
is about `Rollover` alone: its steps keep every certificate's record published (`RolloverSound`: both of
a rollover's keys stay out as long as they may be the certificate's). So this does not depend on
how the code goes about the phases.

`DaneProofs`: `DaneTypeCorrect`, and `NoGap` under `Fitting`: `DnsTTL <= TlsaWait`, `SyncWithin <= SyncLag` (the
rest of a run that has switched, and the time to the sync after it, are over before the lag is), no
failing write of the bucket, no crash within a run. The last three are what `Dane_crash` and the
known limits are about. The invariant `DaneInv` has two sides. Towards the resolvers (`EdgeCovered`):
whatever is served or stored is in every cached RRset, and for a pre-published key that is not in a cached RRset
yet, the age of the rollover and the time left in the cache add up to no more than the
TTL. Towards the proxy (`IndexesAgree`, `BehindTracked`): as long as it serves the key
that a switched rollover replaces, its local index differs from the bucket's, so sync will fetch, or the run that has switched is still going to save the
index (`Pending`); and the phase is no
older than the time the proxy has been behind, which is below `SyncWithin`, so the record is not withdrawn yet. For the index
to differ, the renewer's copy, the bucket's and the proxy's must be shown never to say "valid" of a certificate that is
about to be replaced.
`DaneRollsOver`, `DaneWaits` and `DaneStaysPublished` carry the renewer's theorems over to the composed system, where sync
takes entries out of the index behind the renewer's back: `RenewInv` is kept by that too, and a sync is a stutter of the rollover.

`LockProofs`: `LockTypeCorrect`, `ReleasesOnlyOwn` and `OrphansOnlyAge` under `Spec`, with `LockInv`;
`SpacedInvHolds`, `MutualExclusionHolds` and `NoClobberHolds` under `SpacedSpec`. Mutual
exclusion is not inductive: a second run is prevented because an acquirer is alone and has
nothing fresh before it (`AcquirerAlone`), and a holder's lock is in S3 and fresh
(`HolderOwns`), which needs distinct tokens and that no write lands expired. `ImplementsLease` is the
refinement, with one lemma per group of calls (`PutLockSeen`, `RefreshPutSeen`, `ReleaseSeen`, `TickSeen`): a put is a `Take`
or a `Waste`; a refresh is an `Extend`, since what it writes lasts no less than what is there
(`WritesFresh`); a delete is a `GiveUp` because of its condition. It needs that an acquirer's id is new not only among
the processes but also in the bucket, which is why `TokensDistinct` says both.
`LeaseExcludes` shows the lease itself exclusive: a run owns the lease, and ids are one process's own (`LeaseInv`).
Of the lock's promise this leaves that an orphan runs out: `OrphansOnlyAge` and the passage of time (`OrphanExpires`, by TLC).

`ClosetProofs`: `ClosetTypeCorrect` for any number of renewers; `BundlesMatch`, `PairsSettled`,
`SyncCompletes`, `ListsAreUsable` and `IndexIsKept` for one (`OneRenewer`, see the known limits). The
invariant `ClosetInv` says how the five copies of the index are ordered (local file, local memory,
sync's copy, the bucket, the renewer's copy: `IndexesOrdered`, `LocalOrdered`), that a local entry which
some process may still take for the current one has its pair on disk (`Attached`, `Settled`),
that an entry which has left the index does not come back as it was (`NotBack`), and
what each stage of a sync run has established so far (`RunInv`). `SettledPair` is not inductive without it: it
speaks of entries that agree with the bucket, and the bucket can move back towards an older copy.

`AccountProofs`: `AccountTypeCorrect` under `Spec`; `KeyIsKept` under `SpacedSpec`: the stored account keeps its
key and its password even when the CA is changed under it, so such a change costs no more than the registration.
`OneAccountHolds`, `AccountIsKept`, `NeverLockedOut` under `SpacedSpec`, for any renewers, passwords, zones and crashes,
if the CA is not changed under an account. The invariant says
what each place of a start knows of the stored account, and that a registration in anyone's memory is one of the CA.

`DaemonProofs`: `DaemonTypeCorrect`, `AcceptedStaysQueued`, `LessThanTwiceHolds` for any clients and limit. The last
rests on `RateBounded`: for every number of steps, what the bucket holds and what has passed in those steps are together
less than the burst and one request per step; a refill turns the bound for `i` steps into the one for `i + 1`.

Only model-checked: liveness (`RolloverCompletes`, `DueIsRenewed`, `OrphanExpires`, `IndexedIsServed`,
`AcceptedIsServed`, `ShutsDown`, `RunsForever`), which is beyond the prover's reach.

## 6. What is not modelled

- Domain names unsafe as file names (`isSafeDomainPathSegment`): no such name gets a certificate.
- Zone and key lookup (`keyFor`, `soa.go`): it depends on the answers of resolvers. DNS UPDATE
  appears as its effect on the TLSA RRset (`Renew`) and the CAA records (`Account`).
- The ACME protocol and DNS protocol themselves (libraries): they succeed or fail.
- Encryption but for who can read what, the parsing of Traefik rules, configuration: pure or plain I/O.
- `/health` and `/metrics`, which only read. (`lastRenew` is also set by an attempt that did not get
  the lock, `renew.go:76`.)
- A rollover started when DNS UPDATE is switched on for a domain already served without
  records: `Dane` starts with the records published. `startRollover` then publishes only the new
  key's record, so the code does not keep `NoDaneGap` from such a state.
- A wait shorter than the records' TTL: the settings are independent and not validated, the
  instances use a wait of at least the TTL, and `NoGap` assumes it (`Fitting`).
- Request delays, logging, metrics.

## 7. What could come next

1. The first rollover after DNS UPDATE is switched on, as an initial state of `Dane`.
2. `DnsTarget`: zone and key lookup as operators checked against a reference definition over small
   trees of names; the number of TLSA records that failed attempts leave behind.
3. `Closet` for several renewers that read the index when they get the lock, which is what the code would have to do. In an
   instance with two such renewers all invariants of `Closet` hold; those of the proof would speak of the holder's copy only.
