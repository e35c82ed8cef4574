------------------------------- MODULE Daemon -------------------------------
(***************************************************************************)
(* One process of the program (main.go, app/daemon.go): a renew or a sync  *)
(* that runs once, or a daemon whose loop waits for its ticker, for POST   *)
(* /trigger and for a signal.                                              *)
(*                                                                         *)
(* The loop, the HTTP server, the handler of each request and the ticker   *)
(* are goroutines; they share the trigger channel and the context that the *)
(* signal cancels.  A run is seen from outside: it gets the lock or not,   *)
(* reads its inputs (the domains, or the index), does its work.            *)
(*                                                                         *)
(* One request is tracked: which one is picked arbitrarily.                *)
(***************************************************************************)
EXTENDS Naturals

CONSTANTS
    Client,     \* whoever sends POST /trigger; one request at a time each
    Trusted,    \* those with the token (all of them when there is none)
    Limit,      \* TAS3_TRIGGER_RATE_LIMIT; 0 is unlimited
    Faults      \* what may go wrong, see FaultKinds

FaultKinds == {"init", "bind", "lock"}

ASSUME ClientAssumption == Trusted \subseteq Client
ASSUME LimitAssumption == Limit \in Nat
ASSUME FaultAssumption == Faults \subseteq FaultKinds

VARIABLES
    role,       \* renew or sync
    looping,    \* TAS3_INTERVAL > 0: the process is a daemon
    pc,         \* where the loop is
    ready,      \* the ACME client is set up (renew)
    trigger,    \* triggerCh, a channel of one
    ticking,    \* time.NewTicker has been called
    tick,       \* ticker.C, a channel of one
    stopping,   \* ctx is done: SIGINT or SIGTERM
    server,     \* the trigger server
    req,        \* the request of a client, or "none"
    tracked,    \* what has become of the tracked request
    tokens,     \* what the rate limiter has left
    recent      \* recent[i]: requests let through in the last i steps, this one included

loop == <<role, looping, pc, ready>>
ticker == <<ticking, tick>>
limiter == <<tokens, recent>>
vars == <<loop, trigger, ticker, stopping, server, req, tracked, limiter>>

Place == {"init", "lock", "collect", "work", "select", "drain", "exited"}

DaemonTypeOK ==
    /\ role \in {"renew", "sync"} /\ looping \in BOOLEAN
    /\ pc \in Place /\ ready \in BOOLEAN
    /\ trigger \in BOOLEAN /\ ticking \in BOOLEAN /\ tick \in BOOLEAN
    /\ stopping \in BOOLEAN
    /\ server \in {"off", "starting", "up", "failed", "closed"}
    /\ req \in [Client -> {"none", "arrived", "allowed", "queued"}]
    /\ tracked \in {"none", "accepted", "read", "served", "dropped"}
    /\ tokens \in 0..Limit
    /\ recent \in [1..Limit -> Nat]

-----------------------------------------------------------------------------
(* Renew starts with initBuckcert, which does nothing once it has          *)
(* succeeded; Sync starts with the lock.                                   *)
Attempt == IF role = "sync" THEN "lock" ELSE IF ready THEN "collect" ELSE "init"

(* The configuration is valid and the servers' goroutines are started      *)
(* (none without an address); then the first run starts at once.           *)
Init ==
    /\ role \in {"renew", "sync"} /\ looping \in BOOLEAN
    /\ ready = FALSE
    /\ pc = Attempt
    /\ trigger = FALSE /\ ticking = FALSE /\ tick = FALSE /\ stopping = FALSE
    /\ server \in (IF looping THEN {"off", "starting"} ELSE {"off"})
    /\ req = [c \in Client |-> "none"]
    /\ tracked = "none"
    /\ tokens = Limit
    /\ recent = [i \in 1..Limit |-> 0]

Alive == pc # "exited"

(* The attempt is over: the process ends, or its loop goes on with the     *)
(* ticker running.                                                         *)
(* Mutant: the ticker is not started.                                      *)
NoTicker == pc' = (IF looping THEN "select" ELSE "exited") /\ UNCHANGED ticking
EndAttempt == pc' = (IF looping THEN "select" ELSE "exited") /\ ticking' = looping

(* log.Fatal ends the process, servers and all.                            *)
Initialise ==
    /\ pc = "init"
    /\ \/ pc' = "collect" /\ ready' = TRUE
       \/ "init" \in Faults /\ pc' = "exited" /\ UNCHANGED ready
    /\ UNCHANGED <<role, looping, trigger, ticker, stopping, server, req, tracked, limiter>>

(* The inputs are read: by renew before it asks for the lock, by sync      *)
(* under it.  Renew ends here when it has no domains.                      *)
Read == tracked' = IF tracked = "accepted" THEN "read" ELSE tracked

Collect ==
    /\ pc = "collect"
    /\ \/ /\ Read
          /\ pc' = (IF role = "renew" THEN "lock" ELSE "work") /\ UNCHANGED ticking
       \/ /\ role = "renew"
          /\ tracked' = IF tracked = "accepted" THEN "served" ELSE tracked
          /\ EndAttempt
    /\ UNCHANGED <<role, looping, ready, trigger, tick, stopping, server, req, limiter>>

(* The lock is got, or is another's: this attempt is over, and a request   *)
(* it was made for is not made up for.                                     *)
AcquireLock ==
    /\ pc = "lock"
    /\ \/ /\ pc' = (IF role = "renew" THEN "work" ELSE "collect")
          /\ UNCHANGED <<ticking, tracked>>
       \/ /\ "lock" \in Faults
          /\ tracked' = IF tracked = "read" \/ (tracked = "accepted" /\ ~trigger)
                        THEN "dropped" ELSE tracked
          /\ EndAttempt
    /\ UNCHANGED <<role, looping, ready, trigger, tick, stopping, server, req, limiter>>

(* The rest of the run, and its end.                                       *)
Work ==
    /\ pc = "work"
    /\ tracked' = IF tracked = "read" THEN "served" ELSE tracked
    /\ EndAttempt
    /\ UNCHANGED <<role, looping, ready, trigger, tick, stopping, server, req, limiter>>

-----------------------------------------------------------------------------
(* The loop's select: any branch that is ready.                            *)
SelectTick ==
    /\ pc = "select" /\ tick
    /\ tick' = FALSE
    /\ pc' = Attempt
    /\ UNCHANGED <<role, looping, ready, trigger, ticking, stopping, server, req, tracked, limiter>>

SelectTrigger ==
    /\ pc = "select" /\ trigger
    /\ trigger' = FALSE
    /\ pc' = Attempt
    /\ UNCHANGED <<role, looping, ready, ticker, stopping, server, req, tracked, limiter>>

SelectDone ==
    /\ pc = "select" /\ stopping
    /\ pc' = "drain"
    /\ UNCHANGED <<role, looping, ready, trigger, ticker, stopping, server, req, tracked, limiter>>

(* wg.Wait: ListenAndServe has returned.  It returns as soon as Shutdown is*)
(* called, so nothing waits for the handlers that still run.               *)
(* Mutant: a server that could not listen is waited for.                   *)
ServerClosedOnly == server \in {"off", "closed"}
ServerReturned == server \in {"off", "failed", "closed"}

Exit ==
    /\ pc = "drain" /\ ServerReturned
    /\ pc' = "exited"
    /\ UNCHANGED <<role, looping, ready, trigger, ticker, stopping, server, req, tracked, limiter>>

-----------------------------------------------------------------------------
Signal ==
    /\ Alive /\ looping /\ ~stopping
    /\ stopping' = TRUE
    /\ UNCHANGED <<loop, trigger, ticker, server, req, tracked, limiter>>

(* A tick that finds the channel full is dropped.                          *)
TickerFires ==
    /\ Alive /\ ticking
    /\ tick' = TRUE
    /\ UNCHANGED <<loop, trigger, ticking, stopping, server, req, tracked, limiter>>

Listen ==
    /\ Alive /\ server = "starting" /\ ~stopping
    /\ server' \in {"up"} \cup (IF "bind" \in Faults THEN {"failed"} ELSE {})
    /\ UNCHANGED <<loop, trigger, ticker, stopping, req, tracked, limiter>>

(* The goroutine that waits for ctx calls Shutdown: no new connections.    *)
Shutdown ==
    /\ Alive /\ stopping /\ server \in {"starting", "up"}
    /\ server' = "closed"
    /\ UNCHANGED <<loop, trigger, ticker, stopping, req, tracked, limiter>>

-----------------------------------------------------------------------------
(* A request, handler by handler: the token, the rate, the channel.        *)
Arrive(c) ==
    /\ Alive /\ server = "up" /\ req[c] = "none"
    /\ req' = [req EXCEPT ![c] = "arrived"]
    /\ UNCHANGED <<loop, trigger, ticker, stopping, server, tracked, limiter>>

(* 401: before the limiter.                                                *)
Unauthorized(c) ==
    /\ Alive /\ req[c] = "arrived" /\ c \notin Trusted
    /\ req' = [req EXCEPT ![c] = "none"]
    /\ UNCHANGED <<loop, trigger, ticker, stopping, server, tracked, limiter>>

Allow(c) ==
    /\ Alive /\ req[c] = "arrived" /\ c \in Trusted
    /\ \/ Limit = 0 /\ UNCHANGED limiter
       \/ /\ tokens > 0
          /\ tokens' = tokens - 1
          /\ recent' = [i \in 1..Limit |-> recent[i] + 1]
    /\ req' = [req EXCEPT ![c] = "allowed"]
    /\ UNCHANGED <<loop, trigger, ticker, stopping, server, tracked>>

(* 429                                                                     *)
TooMany(c) ==
    /\ Alive /\ req[c] = "arrived" /\ c \in Trusted
    /\ Limit > 0 /\ tokens = 0
    /\ req' = [req EXCEPT ![c] = "none"]
    /\ UNCHANGED <<loop, trigger, ticker, stopping, server, tracked, limiter>>

(* The handler's select: a channel of one keeps what is sent during a run. *)
(* Mutant: an unbuffered channel, which takes it only while the loop waits.*)
Unbuffered == trigger \/ pc = "select"
Buffered == TRUE

Send(c) ==
    /\ Alive /\ req[c] = "allowed"
    /\ req' = [req EXCEPT ![c] = "queued"]
    /\ trigger' = Buffered
    /\ tracked' \in {tracked} \cup (IF tracked = "none" THEN {"accepted"} ELSE {})
    /\ UNCHANGED <<loop, ticker, stopping, server, limiter>>

(* 202                                                                     *)
Reply(c) ==
    /\ Alive /\ req[c] = "queued"
    /\ req' = [req EXCEPT ![c] = "none"]
    /\ UNCHANGED <<loop, trigger, ticker, stopping, server, tracked, limiter>>

(* Time, in steps of a minute divided by Limit: a bucket of Limit tokens   *)
(* gets one back.                                                          *)
(* Mutants: the whole allowance comes back at each step; or there is no cap*)
AllBack == Limit
NoCap == tokens + 1
OneBack == IF tokens < Limit THEN tokens + 1 ELSE tokens

Refill ==
    /\ Alive /\ Limit > 0
    /\ tokens' = OneBack
    /\ recent' = [i \in 1..Limit |-> IF i = 1 THEN 0 ELSE recent[i - 1]]
    /\ UNCHANGED <<loop, trigger, ticker, stopping, server, req, tracked>>

-----------------------------------------------------------------------------
Attend == Initialise \/ Collect \/ AcquireLock \/ Work

Next ==
    \/ Attend
    \/ SelectTick \/ SelectTrigger \/ SelectDone \/ Exit
    \/ Signal \/ TickerFires \/ Listen \/ Shutdown \/ Refill
    \/ \E c \in Client :
        Arrive(c) \/ Unauthorized(c) \/ Allow(c) \/ TooMany(c) \/ Send(c) \/ Reply(c)

Spec == Init /\ [][Next]_vars

(* Goroutines go on; a run ends; select takes a ready branch at random, so *)
(* one that is ready again and again is taken; the lock is not another's   *)
(* each time.  Nothing is assumed of the ticker (the interval may be a     *)
(* day), of clients or of signals.                                         *)
Fairness ==
    /\ WF_vars(Attend) /\ WF_vars(Exit) /\ WF_vars(Shutdown)
    /\ SF_vars(SelectTrigger) /\ SF_vars(SelectDone) /\ SF_vars(SelectTick)
    /\ SF_vars(AcquireLock /\ pc' \in {"collect", "work"})

LiveSpec == Spec /\ Fairness

-----------------------------------------------------------------------------
(* A request that was answered 202 and whose inputs have not been read yet *)
(* is in the channel, or the attempt that took it has not read its inputs: *)
(* "already queued, skip" drops only requests that the queued one stands   *)
(* for, whatever the loop does meanwhile.                                  *)
AcceptedIsQueued ==
    tracked = "accepted" =>
        trigger \/ pc \in {"init", "collect", "exited"} \/ (role = "sync" /\ pc = "lock")

(* The rate limiter lets a burst of Limit through, and one more per step:  *)
(* less than twice "Max POST /trigger requests per minute" in any minute.  *)
LessThanTwice == Limit > 0 => tokens + recent[Limit] < 2 * Limit

(* "POST /trigger (when HTTPAddr set) fires an immediate extra run": the   *)
(* request leads to a run that reads its inputs after it, without the help *)
(* of the ticker, unless the lock is another's or the daemon is stopped.   *)
AcceptedIsServed ==
    tracked = "accepted" ~> (tracked \in {"served", "dropped"} \/ stopping \/ pc = "exited")

(* The daemon stops when told to, whatever keeps it busy and whether or not*)
(* its server could listen.                                                *)
ShutsDown == stopping ~> pc = "exited"

(* A ticker that goes on makes runs for ever, until the process ends.      *)
RunsForever ==
    WF_ticker(TickerFires) =>
        []<>(pc \in {"collect", "lock"}) \/ <>(stopping \/ pc = "exited")

(* "Exits cleanly on SIGINT/SIGTERM, waiting for HTTP servers to drain":   *)
(* no handler is cut short by the exit.                                    *)
Drained == pc = "exited" /\ stopping => \A c \in Client : req[c] = "none"
=============================================================================
