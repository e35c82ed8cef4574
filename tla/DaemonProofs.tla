---------------------------- MODULE DaemonProofs ----------------------------
(***************************************************************************)
(* What a 202 means and how many requests the rate limiter lets through,   *)
(* for any clients and rate, whatever the loop does.                       *)
(***************************************************************************)
EXTENDS Daemon, TLAPS

DaemonInv == DaemonTypeOK /\ AcceptedIsQueued

LEMMA DaemonInit == Init => DaemonInv
<1> SUFFICES ASSUME Init PROVE DaemonInv
    OBVIOUS
<1>1. /\ ready \in BOOLEAN /\ looping \in BOOLEAN /\ trigger \in BOOLEAN
      /\ ticking \in BOOLEAN /\ tick \in BOOLEAN /\ stopping \in BOOLEAN
    BY Zenon DEF Init
<1>2. role \in {"renew", "sync"} /\ pc \in Place
    BY DEF Init, Attempt, Place
<1>3. tokens \in 0..Limit /\ recent \in [1..Limit -> Nat]
    BY LimitAssumption DEF Init
<1>4. /\ server \in {"off", "starting", "up", "failed", "closed"}
      /\ req \in [Client -> {"none", "arrived", "allowed", "queued"}]
      /\ tracked = "none"
    BY DEF Init
<1> QED BY <1>1, <1>2, <1>3, <1>4 DEF DaemonInv, DaemonTypeOK, AcceptedIsQueued

LEMMA DaemonStep == DaemonInv /\ [Next]_vars => DaemonInv'
<1> SUFFICES ASSUME DaemonInv, [Next]_vars PROVE DaemonInv'
    OBVIOUS
<1> USE LimitAssumption
    DEF DaemonInv, DaemonTypeOK, AcceptedIsQueued, Place, loop, ticker, limiter
<1>1. CASE Initialise
    <2>1. ready' \in BOOLEAN
        BY <1>1, Zenon DEF Initialise
    <2> QED BY <1>1, <2>1 DEF Initialise
<1>2. CASE Collect
    BY <1>2 DEF Collect, Read, EndAttempt
<1>3. CASE AcquireLock
    BY <1>3 DEF AcquireLock, EndAttempt
<1>4. CASE Work
    BY <1>4 DEF Work, EndAttempt
<1>5. CASE SelectTick \/ SelectTrigger
    <2>1. pc' = Attempt /\ Attempt \in Place
        BY <1>5 DEF SelectTick, SelectTrigger, Attempt
    <2>2. Attempt \in {"init", "collect"} \/ (role = "sync" /\ Attempt = "lock")
        BY DEF Attempt
    <2>3. trigger' \in BOOLEAN /\ tick' \in BOOLEAN
        BY <1>5, Zenon DEF SelectTick, SelectTrigger
    <2>4. UNCHANGED <<role, looping, ready, ticking, stopping, server, req, tracked, limiter>>
        BY <1>5 DEF SelectTick, SelectTrigger
    <2>5. DaemonTypeOK'
        BY <2>1, <2>3, <2>4
    <2>6. AcceptedIsQueued'
        BY <2>1, <2>2, <2>4
    <2> QED BY <2>5, <2>6
<1>6. CASE SelectDone \/ Exit
    BY <1>6 DEF SelectDone, Exit
<1>7. CASE Signal \/ TickerFires
    <2>1. stopping' \in BOOLEAN /\ tick' \in BOOLEAN
        BY <1>7, Zenon DEF Signal, TickerFires
    <2> QED BY <1>7, <2>1 DEF Signal, TickerFires
<1>8. CASE Listen \/ Shutdown
    BY <1>8 DEF Listen, Shutdown
<1>9. CASE Refill
    <2>1. \A i \in 1..Limit : i # 1 => i - 1 \in 1..Limit
        OBVIOUS
    <2>2. recent' \in [1..Limit -> Nat]
        BY <1>9, <2>1 DEF Refill
    <2>3. tokens' \in 0..Limit
        BY <1>9 DEF Refill, OneBack
    <2> QED BY <1>9, <2>2, <2>3 DEF Refill
<1>10. ASSUME NEW c \in Client, Arrive(c) \/ Unauthorized(c) \/ TooMany(c) \/ Reply(c)
       PROVE  DaemonInv'
    BY <1>10 DEF Arrive, Unauthorized, TooMany, Reply
<1>11. ASSUME NEW c \in Client, Allow(c) PROVE DaemonInv'
    <2>1. tokens' \in 0..Limit /\ recent' \in [1..Limit -> Nat]
        BY <1>11 DEF Allow
    <2> QED BY <1>11, <2>1 DEF Allow
<1>12. ASSUME NEW c \in Client, Send(c) PROVE DaemonInv'
    BY <1>12 DEF Send, Buffered
<1>13. CASE UNCHANGED vars
    BY <1>13 DEF vars
<1> QED
    BY <1>1, <1>2, <1>3, <1>4, <1>5, <1>6, <1>7, <1>8, <1>9, <1>10, <1>11, <1>12, <1>13
    DEF Next, Attend

(* The daemon's state is well-typed.                                       *)
THEOREM DaemonTypeCorrect == Spec => []DaemonTypeOK
<1>1. DaemonInv => DaemonTypeOK
    BY DEF DaemonInv
<1> QED BY DaemonInit, DaemonStep, <1>1, PTL DEF Spec

(* A request answered 202 is queued until a run has read its inputs.       *)
THEOREM AcceptedStaysQueued == Spec => []AcceptedIsQueued
<1>1. DaemonInv => AcceptedIsQueued
    BY DEF DaemonInv
<1> QED BY DaemonInit, DaemonStep, <1>1, PTL DEF Spec
-----------------------------------------------------------------------------
(* Over any number of steps up to a minute's, the limiter lets through what*)
(* the bucket held at the start and one request per step begun since.      *)
RateBounded ==
    \A i \in 1..Limit : tokens + recent[i] < Limit + i

LEMMA RateInit == Init => RateBounded
BY LimitAssumption DEF Init, RateBounded

(* A request moves one token to the count of every window; a refill adds a *)
(* token at most, and each window becomes the next longer one.             *)
LEMMA RateStep == DaemonTypeOK /\ RateBounded /\ [Next]_vars => RateBounded'
<1> SUFFICES ASSUME DaemonTypeOK, RateBounded, [Next]_vars PROVE RateBounded'
    OBVIOUS
<1>0. /\ Limit \in Nat /\ tokens \in 0..Limit
      /\ recent \in [1..Limit -> Nat]
      /\ \A i \in 1..Limit : tokens + recent[i] < Limit + i
    BY LimitAssumption DEF DaemonTypeOK, RateBounded
<1>1. ASSUME UNCHANGED limiter PROVE RateBounded'
    BY <1>0, <1>1 DEF RateBounded, limiter
<1>2. ASSUME NEW c \in Client, Allow(c) PROVE RateBounded'
    <2>1. CASE tokens' = tokens - 1 /\ recent' = [i \in 1..Limit |-> recent[i] + 1]
        <3> SUFFICES ASSUME NEW i \in 1..Limit PROVE tokens' + recent'[i] < Limit + i
            BY DEF RateBounded
        <3>1. recent'[i] = recent[i] + 1
            BY <2>1
        <3>2. recent[i] \in Nat /\ tokens + recent[i] < Limit + i
            BY <1>0
        <3> QED BY <1>0, <2>1, <3>1, <3>2
    <2> QED BY <1>1, <1>2, <2>1 DEF Allow
<1>3. CASE Refill
    <2> SUFFICES ASSUME NEW i \in 1..Limit PROVE tokens' + recent'[i] < Limit + i
        BY DEF RateBounded
    <2>1. tokens' \in 0..Limit /\ tokens' <= tokens + 1
        BY <1>0, <1>3 DEF Refill, OneBack
    <2>2. CASE i = 1
        <3>1. recent'[i] \in Nat /\ recent'[i] < i
            BY <1>3, <2>2 DEF Refill
        <3> QED BY LimitAssumption, <2>1, <3>1
    <2>3. CASE i # 1
        <3>1. i - 1 \in 1..Limit
            BY <1>0, <2>3
        <3>2. recent'[i] = recent[i - 1]
            BY <1>3, <2>3 DEF Refill
        <3>3. recent[i - 1] \in Nat /\ tokens + recent[i - 1] < Limit + (i - 1)
            BY <1>0, <3>1
        <3>4. recent'[i] \in Nat /\ tokens + recent'[i] < Limit + (i - 1)
            BY <3>2, <3>3
        <3>5. tokens \in Nat /\ tokens' \in Nat
            BY <1>0, <2>1
        <3> QED BY LimitAssumption, <2>1, <3>4, <3>5
    <2> QED BY <2>2, <2>3
<1>4. CASE Attend
    BY <1>1, <1>4 DEF Attend, Initialise, Collect, AcquireLock, Work
<1>5. CASE SelectTick \/ SelectTrigger \/ SelectDone \/ Exit
    BY <1>1, <1>5 DEF SelectTick, SelectTrigger, SelectDone, Exit
<1>6. CASE Signal \/ TickerFires \/ Listen \/ Shutdown
    BY <1>1, <1>6 DEF Signal, TickerFires, Listen, Shutdown
<1>7. ASSUME NEW c \in Client,
             Arrive(c) \/ Unauthorized(c) \/ TooMany(c) \/ Send(c) \/ Reply(c)
      PROVE  RateBounded'
    BY <1>1, <1>7 DEF Arrive, Unauthorized, TooMany, Send, Reply
<1>8. CASE UNCHANGED vars
    BY <1>1, <1>8 DEF vars
<1> QED BY <1>2, <1>3, <1>4, <1>5, <1>6, <1>7, <1>8 DEF Next

(* Less than twice the limit goes through in any minute, for every limit.  *)
THEOREM LessThanTwiceHolds == Spec => []LessThanTwice
<1>1. DaemonInv => DaemonTypeOK
    BY DEF DaemonInv
<1>2. RateBounded => LessThanTwice
    BY LimitAssumption DEF RateBounded, LessThanTwice
<1> QED BY DaemonInit, DaemonStep, RateInit, RateStep, <1>1, <1>2, PTL DEF Spec
=============================================================================
