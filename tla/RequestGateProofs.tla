-------------------------- MODULE RequestGateProofs --------------------------
(***************************************************************************)
(* Proofs about the gate of the web API client, for any number of callers  *)
(* and permits: the counter is the number of permits in use, there are     *)
(* never too many of them, no wake-up is lost, and pauses are kept.  Then, *)
(* about the cache of its answers (module WebCache): what is found was     *)
(* said to the request it is found for, and a refresh shows nothing old.   *)
(***************************************************************************)
EXTENDS MCWeb, FiniteSetTheorems, TLAPS

Count(f, S) == Cardinality({x \in Callers : f[x] \in S})

\* The inductive invariant: NoLostWakeup needs nothing but the counters to be
\* numbers, PermitsCounted nothing but itself.
Inv ==
  /\ pc \in [Callers -> Points] /\ inFlight \in Nat
  /\ inFlight = Count(pc, Holding) /\ inFlight <= MaxInFlight
  /\ (\E c \in Callers : pc[c] = "waiting") => inFlight + Count(pc, {"notified"}) >= MaxInFlight

LEMMA CountType ==
  ASSUME NEW f, NEW S
  PROVE  IsFiniteSet({x \in Callers : f[x] \in S}) /\ Count(f, S) \in Nat
<1>1. {x \in Callers : f[x] \in S} \in SUBSET Callers  OBVIOUS
<1>2. IsFiniteSet({x \in Callers : f[x] \in S})  BY <1>1, GateAssumption, FS_Subset
<1> QED  BY <1>2, FS_CardinalityType DEF Count

\* From f to g, caller c moves to p.
Moves(f, g, c, p) ==
  f \in [Callers -> Points] /\ c \in Callers /\ g = [f EXCEPT ![c] = p]
Same(f, g, S) == Count(g, S) = Count(f, S)
OneMore(f, g, S) == Count(g, S) = Count(f, S) + 1

\* How the count of the callers at some points changes when one of them moves.
LEMMA CountStays ==
  ASSUME NEW f, NEW g, NEW c, NEW p, NEW S, Moves(f, g, c, p), p \in S <=> f[c] \in S
  PROVE  Same(f, g, S)
<1>1. {x \in Callers : g[x] \in S} = {x \in Callers : f[x] \in S}  BY DEF Moves
<1> QED  BY <1>1 DEF Count, Same

LEMMA CountGains ==
  ASSUME NEW f, NEW g, NEW c, NEW p, NEW S, Moves(f, g, c, p), p \in S, f[c] \notin S
  PROVE  OneMore(f, g, S)
<1> DEFINE Old == {x \in Callers : f[x] \in S}
           New == {x \in Callers : g[x] \in S}
<1>1. IsFiniteSet(Old)  BY CountType
<1>2. New = Old \cup {c} /\ c \notin Old  BY DEF Moves
<1> HIDE DEF New, Old
<1>3. Cardinality(New) = Cardinality(Old) + 1  BY <1>1, <1>2, FS_AddElement
<1> QED  BY <1>3 DEF Count, New, Old, OneMore

LEMMA CountLoses ==
  ASSUME NEW f, NEW g, NEW c, NEW p, NEW S, Moves(f, g, c, p), p \notin S, f[c] \in S
  PROVE  OneMore(g, f, S)
<1> DEFINE Old == {x \in Callers : f[x] \in S}
           New == {x \in Callers : g[x] \in S}
<1>1. IsFiniteSet(Old)  BY CountType
<1>2. New = Old \ {c} /\ c \in Old  BY DEF Moves
<1> HIDE DEF New, Old
<1>3. Cardinality(New) = Cardinality(Old) - 1  BY <1>1, <1>2, FS_RemoveElement
<1>4. Cardinality(Old) \in Nat  BY <1>1, FS_CardinalityType
<1>5. Cardinality(Old) = Cardinality(New) + 1  BY <1>3, <1>4
<1> QED  BY <1>5 DEF Count, New, Old, OneMore

\* A step of a caller that neither takes nor gives back a permit, nor waits.
LEMMA GotoKeepsInv ==
  ASSUME Inv, NEW c \in Callers, NEW p \in Points, Goto(c, p), inFlight' = inFlight,
         pc[c] \in Holding <=> p \in Holding,
         pc[c] # "notified", p # "notified", p # "waiting"
  PROVE  Inv'
<1>1. Moves(pc, pc', c, p)  BY DEF Inv, Goto, Moves
<1>2. pc' \in [Callers -> Points]  BY <1>1 DEF Moves
<1>3. Same(pc, pc', Holding)  BY <1>1, CountStays, Zenon
<1>4. Same(pc, pc', {"notified"})
  <2>1. p \notin {"notified"} /\ pc[c] \notin {"notified"}  OBVIOUS
  <2> QED  BY <1>1, <2>1, CountStays, Zenon
<1>5. (\E x \in Callers : pc'[x] = "waiting") => \E x \in Callers : pc[x] = "waiting"
  BY <1>1 DEF Moves
<1> QED  BY <1>2, <1>3, <1>4, <1>5 DEF Inv, Same

\* The drop of a permit.
LEMMA ReleaseKeepsInv ==
  ASSUME Inv, NEW c \in Callers, pc[c] \in Holding, Release(c)
  PROVE  Inv'
<1> DEFINE f == [pc EXCEPT ![c] = "idle"]
<1>1. pc \in [Callers -> Points] /\ inFlight \in Nat  BY DEF Inv
<1>2. f \in [Callers -> Points] /\ Moves(pc, f, c, "idle")  BY <1>1 DEF Points, Moves
<1>3. "idle" \notin Holding /\ "waiting" \notin Holding /\ "notified" \notin Holding
  BY DEF Holding
<1>4. OneMore(f, pc, Holding)  BY <1>2, <1>3, CountLoses, Zenon
<1>5. Same(pc, f, {"notified"})
  <2>1. pc[c] \notin {"notified"} /\ "idle" \notin {"notified"}  BY <1>3
  <2> QED  BY <1>2, <2>1, CountStays, Zenon
<1>6. Count(f, Holding) \in Nat /\ Count(pc, {"notified"}) \in Nat /\ Count(pc, Holding) \in Nat
  BY CountType
<1>7. inFlight' = inFlight - 1 /\ inFlight' \in Nat
  BY <1>1, <1>4, <1>6 DEF Inv, Release, More, OneMore
<1>8. CASE At({"waiting"}) = {}
  <2>1. pc' = f  BY <1>8 DEF Release, Goto
  <2>2. ~ \E x \in Callers : pc'[x] = "waiting"  BY <1>1, <1>8, <2>1 DEF At
  <2> HIDE DEF f
  <2> QED  BY <1>2, <1>4, <1>6, <1>7, <2>1, <2>2, GateAssumption DEF Inv, OneMore
<1>9. CASE At({"waiting"}) # {}
  <2>1. PICK w \in At({"waiting"}) : pc' = [pc EXCEPT ![c] = "idle", ![w] = "notified"]
    BY <1>9 DEF Release
  <2>2. w \in Callers /\ pc[w] = "waiting" /\ w # c  BY <1>3, <2>1 DEF At
  <2>3. pc' = [f EXCEPT ![w] = "notified"] /\ f[w] = "waiting"  BY <1>1, <2>1, <2>2
  <2> HIDE DEF f
  <2>4. pc' \in [Callers -> Points] /\ Moves(f, pc', w, "notified")
    BY <1>2, <2>2, <2>3 DEF Points, Moves
  <2>5. Same(f, pc', Holding)
    <3>1. "notified" \notin Holding /\ f[w] \notin Holding  BY <1>3, <2>3
    <3> QED  BY <2>4, <3>1, CountStays, Zenon
  <2>6. OneMore(f, pc', {"notified"})
    <3>1. f[w] \notin {"notified"} /\ "notified" \in {"notified"}  BY <2>3
    <3> QED  BY <2>4, <3>1, CountGains, Zenon
  <2>7. inFlight + Count(pc, {"notified"}) >= MaxInFlight  BY <2>2 DEF Inv
  <2> QED  BY <1>1, <1>4, <1>5, <1>6, <1>7, <2>4, <2>5, <2>6, <2>7, GateAssumption
     DEF Inv, Same, OneMore
<1> QED  BY <1>8, <1>9

\* The loop of `acquire`.
LEMMA AcquireKeepsInv ==
  ASSUME Inv, NEW c \in Callers, Acquire(c)
  PROVE  Inv'
<1>1. pc \in [Callers -> Points] /\ inFlight \in Nat /\ pc[c] \in {"arriving", "notified"}
  BY DEF Inv, Acquire
<1>2. pc[c] \notin Holding /\ "waiting" \notin Holding /\ "checking" \in Holding
  BY <1>1 DEF Holding
<1>3. Count(pc, {"notified"}) \in Nat /\ Count(pc, Holding) \in Nat  BY CountType
<1>4. CASE inFlight >= MaxInFlight /\ Goto(c, "waiting") /\ UNCHANGED inFlight
  <2>1. pc' = [pc EXCEPT ![c] = "waiting"]  BY <1>4 DEF Goto
  <2>2. pc' \in [Callers -> Points] /\ Moves(pc, pc', c, "waiting")
    BY <1>1, <2>1 DEF Points, Moves
  <2>3. Same(pc, pc', Holding)  BY <1>2, <2>2, CountStays, Zenon
  <2>4. Count(pc', {"notified"}) \in Nat  BY CountType
  <2> QED  BY <1>1, <1>4, <2>2, <2>3, <2>4, GateAssumption DEF Inv, Same
<1>5. CASE inFlight < MaxInFlight /\ Goto(c, "checking") /\ inFlight' = inFlight + 1
  <2>1. pc' = [pc EXCEPT ![c] = "checking"]  BY <1>5 DEF Goto
  <2>2. pc' \in [Callers -> Points] /\ Moves(pc, pc', c, "checking")
    BY <1>1, <2>1 DEF Points, Holding, Moves
  <2>3. OneMore(pc, pc', Holding)  BY <1>2, <2>2, CountGains, Zenon
  <2>4. Count(pc', {"notified"}) \in Nat  BY CountType
  <2>5. Count(pc', {"notified"}) >= Count(pc, {"notified"}) - 1
    <3>1. "checking" \notin {"notified"}  OBVIOUS
    <3>2. CASE pc[c] \in {"notified"}
      <4>1. OneMore(pc', pc, {"notified"})  BY <2>2, <3>1, <3>2, CountLoses, Zenon
      <4> QED  BY <1>3, <2>4, <4>1 DEF OneMore
    <3>3. CASE pc[c] \notin {"notified"}
      <4>1. Same(pc, pc', {"notified"})  BY <2>2, <3>1, <3>3, CountStays, Zenon
      <4> QED  BY <1>3, <4>1 DEF Same
    <3> QED  BY <3>2, <3>3
  <2>6. (\E x \in Callers : pc'[x] = "waiting") => \E x \in Callers : pc[x] = "waiting"
    BY <1>1, <2>1
  <2> QED  BY <1>1, <1>3, <1>5, <2>2, <2>3, <2>4, <2>5, <2>6, GateAssumption
     DEF Inv, OneMore
<1> QED  BY <1>4, <1>5 DEF Acquire

\* An attempt more, or the end of the call.
LEMMA RetryKeepsInv ==
  ASSUME Inv, NEW c \in Callers, NEW p \in {"checking", "backoff"},
         pc[c] = "awaiting", Retry(c, p)
  PROVE  Inv'
<1>1. pc[c] \in Holding /\ p \in Holding /\ p \in Points  BY DEF Holding, Points
<1>2. CASE Release(c)  BY <1>1, <1>2, ReleaseKeepsInv
<1>3. CASE Goto(c, p) /\ UNCHANGED inFlight
  <2>1. pc[c] # "notified" /\ p # "notified" /\ p # "waiting"  OBVIOUS
  <2> QED  BY <1>1, <1>3, <2>1, GotoKeepsInv
<1> QED  BY <1>2, <1>3 DEF Retry

\* No caller holds a permit when all are idle.
LEMMA IdleInv ==
  ASSUME pc = [c \in Callers |-> "idle"], inFlight = 0
  PROVE  Inv
<1>1. {x \in Callers : pc[x] \in Holding} = {}  BY DEF Holding
<1>2. Count(pc, Holding) = 0  BY <1>1, FS_EmptySet DEF Count
<1>3. pc \in [Callers -> Points]  BY DEF Points
<1> QED  BY <1>2, <1>3, GateAssumption DEF Inv

LEMMA Invariance == Spec => []Inv
<1>1. Init => Inv  BY IdleInv DEF Init
<1>2. Inv /\ [Next]_vars => Inv'
  <2> SUFFICES ASSUME Inv, [Next]_vars PROVE Inv'  OBVIOUS
  <2>1. ASSUME NEW c \in Callers, NEW n \in {0, MaxAttempts}, Call(c, n) PROVE Inv'
    <3>1. pc[c] = "idle" /\ Goto(c, "arriving") /\ inFlight' = inFlight  BY <2>1 DEF Call
    <3>2. "idle" \notin Holding /\ "arriving" \notin Holding /\ "arriving" \in Points
      BY DEF Holding, Points
    <3>3. pc[c] # "notified" /\ "arriving" # "notified" /\ "arriving" # "waiting"  BY <3>1
    <3> QED  BY <3>1, <3>2, <3>3, GotoKeepsInv
  <2>2. ASSUME NEW c \in Callers, Step(c) PROVE Inv'
    <3>1. CASE Acquire(c)  BY <3>1, AcquireKeepsInv
    <3>2. CASE Check(c) \/ Cooled(c) \/ Send(c) \/ BackedOff(c)
      <4>1. PICK p \in {"cooling", "sending", "awaiting", "checking"} :
              Goto(c, p) /\ inFlight' = inFlight /\ pc[c] \in Holding
        BY <3>2 DEF Check, Cooled, Send, BackedOff, Holding
      <4>2. p \in Holding /\ p \in Points  BY DEF Holding, Points
      <4>3. pc[c] # "notified" /\ p # "notified" /\ p # "waiting"  BY <4>1 DEF Holding
      <4> QED  BY <4>1, <4>2, <4>3, GotoKeepsInv
    <3>3. CASE Succeed(c) \/ Fail(c)
      <4>1. pc[c] \in Holding /\ Release(c)  BY <3>3 DEF Succeed, Fail, Holding
      <4> QED  BY <4>1, ReleaseKeepsInv
    <3>4. CASE TimedOut(c) \/ \E r \in RetryAfters : RateLimited(c, r)
      <4>1. PICK p \in {"checking", "backoff"} : pc[c] = "awaiting" /\ Retry(c, p)
        BY <3>4 DEF TimedOut, RateLimited
      <4> QED  BY <4>1, RetryKeepsInv
    <3> QED  BY <2>2, <3>1, <3>2, <3>3, <3>4 DEF Step
  <2>3. CASE SignIn \/ Tick \/ UNCHANGED vars
    <3>1. UNCHANGED <<pc, inFlight>>  BY <2>3 DEF SignIn, Tick, vars
    <3> QED  BY <3>1 DEF Inv, Count
  <2>4. CASE Restart \/ \E c \in Callers, n \in RetryAfters : DiesRegistering(c, n)
    <3>1. pc' = [c \in Callers |-> "idle"] /\ inFlight' = 0
      BY <2>4 DEF Restart, DiesRegistering, Relaunched
    <3>2. {x \in Callers : pc'[x] \in Holding} = {}  BY <3>1 DEF Holding
    <3>3. Count(pc', Holding) = 0  BY <3>2, FS_EmptySet DEF Count
    <3>4. pc' \in [Callers -> Points]  BY <3>1 DEF Points
    <3> QED  BY <3>1, <3>3, <3>4, GateAssumption DEF Inv
  <2> QED  BY <2>1, <2>2, <2>3, <2>4 DEF Next
<1> QED  BY <1>1, <1>2, PTL DEF Spec

\* The gate counts the permits in use and never gives out more than it has
\* (acquire and the drop of RequestPermit).
THEOREM GateCounts == Spec => []PermitsCounted
<1>1. Inv => PermitsCounted  BY DEF Inv, PermitsCounted, Count, At
<1> QED  BY <1>1, Invariance, PTL

\* One notification for each permit that comes back is enough, although newcomers
\* may overtake a notified caller (notify_one in the drop of RequestPermit).
THEOREM GateLosesNoWakeup == Spec => []NoLostWakeup
<1>1. Inv => NoLostWakeup  BY DEF Inv, NoLostWakeup, Count, At
<1> QED  BY <1>1, Invariance, PTL
-----------------------------------------------------------------------------
(***************************************************************************)
(* The cooldown.  Every clock that stands for a pause Spotify asked for --  *)
(* the cooldown, its copy in the file, the sleep of a caller that found    *)
(* the cooldown running -- lasts as long as the pause, but for the part of *)
(* a second the file does not hold.                                        *)
(***************************************************************************)
Covers(clock) == announced < clock + Second

Clocks ==
  /\ cooldown \in 0..MaxDelay /\ file \in 0..MaxDelay /\ announced \in 0..MaxDelay
  /\ wake \in [Callers -> 0..MaxDelay]
  /\ consecutive \in 0..(MaxExp + 1)

Sleeps == \A c \in Callers : pc[c] = "cooling" /\ c \notin early => Covers(wake[c])

\* A file that was cut short has lost the pause, and with it everything is lost.
Paced == ~unreadable => Covers(cooldown) /\ Covers(file) /\ Sleeps /\ PauseIsKept

\* A power of two is a number: it counts the subsets of an interval.
LEMMA PowerType == ASSUME NEW n \in Nat PROVE 2 ^ n \in Nat
<1>1. IsFiniteSet(1..n) /\ Cardinality(1..n) = n  BY FS_Interval
<1>2. IsFiniteSet(SUBSET (1..n)) /\ Cardinality(SUBSET (1..n)) = 2 ^ Cardinality(1..n)
  BY <1>1, FS_SUBSET
<1> QED  BY <1>1, <1>2, FS_CardinalityType

\* The cooldown is at most an hour, and otherwise at least what was asked for.
LEMMA DelayBounds ==
  ASSUME NEW n \in Nat \ {0}, NEW r \in Nat
  PROVE  /\ Delay(n, r) \in 0..MaxDelay
         /\ r <= MaxDelay => r <= Delay(n, r)
<1> DEFINE e == Less(n - 1, MaxExp)
           d == MinDelay * 2 ^ e
<1>1. e \in Nat  BY LimiterAssumption DEF Less
<1>2. 2 ^ e \in Nat  BY <1>1, PowerType
<1>3. d \in Nat
  <2> HIDE DEF e
  <2>1. PICK x \in Nat : x = 2 ^ e  BY <1>2
  <2>2. MinDelay * x \in Nat  BY LimiterAssumption
  <2> QED  BY <2>1, <2>2
<1>4. Delay(n, r) = Less(More(d, r), MaxDelay)  BY DEF Delay
<1> HIDE DEF d
<1> QED  BY <1>3, <1>4, LimiterAssumption DEF Less, More

\* Where a call can be after a step that moves one or two callers.
LEMMA ReleaseGoes ==
  ASSUME pc \in [Callers -> Points], NEW c \in Callers, Release(c)
  PROVE  \A x \in Callers : pc'[x] = pc[x] \/ pc'[x] \in {"idle", "notified"}
<1>1. CASE At({"waiting"}) = {}  BY <1>1 DEF Release, Goto
<1>2. CASE At({"waiting"}) # {}
  <2>1. PICK w \in At({"waiting"}) : pc' = [pc EXCEPT ![c] = "idle", ![w] = "notified"]
    BY <1>2 DEF Release
  <2> QED  BY <2>1 DEF At
<1> QED  BY <1>1, <1>2

LEMMA ReleaseMoves ==
  ASSUME pc \in [Callers -> Points], NEW c \in Callers, Release(c)
  PROVE  pc'[c] \in {"idle", "notified"}
<1>1. CASE At({"waiting"}) = {}  BY <1>1 DEF Release, Goto
<1>2. CASE At({"waiting"}) # {}
  <2>1. PICK w \in At({"waiting"}) : pc' = [pc EXCEPT ![c] = "idle", ![w] = "notified"]
    BY <1>2 DEF Release
  <2> QED  BY <2>1 DEF At
<1> QED  BY <1>1, <1>2

\* Nobody starts to cool or to send, and who looked before the pause was asked for
\* is known as such until its request goes out.
Idles ==
  \A x \in Callers :
    pc'[x] \in {"cooling", "sending"} => pc'[x] = pc[x] /\ (x \in early => x \in early')

LEMMA IdlingIsPaced ==
  ASSUME Clocks, Paced, Idles, UNCHANGED <<wake, limiter>>
  PROVE  Clocks' /\ Paced'
BY DEF Clocks, Paced, Covers, Sleeps, PauseIsKept, Idles, limiter

LEMMA ClearingIsPaced ==
  ASSUME Clocks, Paced, ClearRateLimit, UNCHANGED wake
  PROVE  Clocks' /\ Paced'
BY LimiterAssumption
   DEF Clocks, Paced, Covers, Sleeps, PauseIsKept, ClearRateLimit

LEMMA RetryGoes ==
  ASSUME pc \in [Callers -> Points], NEW c \in Callers, NEW p \in {"checking", "backoff"},
         Retry(c, p)
  PROVE  \A x \in Callers : pc'[x] \in {"cooling", "sending"} => pc'[x] = pc[x]
<1>1. CASE Release(c)  BY <1>1, ReleaseGoes
<1>2. CASE Goto(c, p)  BY <1>2 DEF Goto
<1> QED  BY <1>1, <1>2 DEF Retry

\* A 429 comes: everybody who is asleep before its request, or about to send it, is
\* ahead of the pause.
LEMMA LimitingIsPaced ==
  ASSUME Inv, Clocks, Paced,
         NEW c \in Callers, NEW r \in RetryAfters, RateLimited(c, r)
  PROVE  Clocks' /\ Paced'
<1>1. PICK n : n = consecutive + 1  OBVIOUS
<1>2. PICK delay : delay = Delay(n, r)  OBVIOUS
<1>3. r \in Nat /\ n \in 1..(MaxExp + 2) /\ n \in Nat \ {0}
  BY <1>1, LimiterAssumption DEF Clocks
<1>4. delay \in 0..MaxDelay /\ (r <= MaxDelay => r <= delay)
  BY <1>2, <1>3, DelayBounds
<1>5. /\ consecutive' = Less(n, MaxExp + 1) /\ cooldown' = delay
      /\ announced' = IF r > MaxDelay THEN 0 ELSE r
      /\ \E lost \in 0..(Second - 1) : file' = More(delay - lost, 0)
      /\ wake' = wake /\ early' = At({"cooling", "sending"})
  BY <1>1, <1>2 DEF RateLimited, Register429, Pause
<1>6. Clocks'  BY <1>3, <1>4, <1>5, LimiterAssumption DEF Clocks, Less, More
<1>7. Covers(cooldown)' /\ Covers(file)'
  BY <1>3, <1>4, <1>5, LimiterAssumption DEF Covers, More
<1>8. \A x \in Callers : pc'[x] \in {"cooling", "sending"} => x \in early'
  <2>1. Retry(c, "checking")  BY DEF RateLimited
  <2>2. \A x \in Callers : pc'[x] \in {"cooling", "sending"} => pc'[x] = pc[x]
    BY <2>1, RetryGoes DEF Inv
  <2> QED  BY <1>5, <2>2 DEF At
<1> QED  BY <1>6, <1>7, <1>8 DEF Paced, Sleeps, PauseIsKept

\* Time passes for every clock alike.
LEMMA TickIsPaced ==
  ASSUME Clocks, Paced, Tick
  PROVE  Clocks' /\ Paced'
<1>1. /\ cooldown' = More(cooldown - 1, 0) /\ file' = More(file - 1, 0)
      /\ announced' = More(announced - 1, 0)
      /\ wake' = [x \in Callers |-> More(wake[x] - 1, 0)]
      /\ UNCHANGED <<pc, consecutive, unreadable, early>>
  BY DEF Tick
<1>2. \A t \in 0..MaxDelay : More(t - 1, 0) \in 0..MaxDelay
  BY LimiterAssumption DEF More
<1>3. Clocks'  BY <1>1, <1>2 DEF Clocks
<1>4. ASSUME NEW t \in 0..MaxDelay, announced < t + Second
      PROVE  announced' < More(t - 1, 0) + Second
  BY <1>1, <1>4, LimiterAssumption DEF Clocks, More
<1>5. ~unreadable => Covers(cooldown)' /\ Covers(file)'  BY <1>1, <1>4 DEF Clocks, Paced, Covers
<1>6. ~unreadable => Sleeps'
  <2> SUFFICES ASSUME ~unreadable, NEW x \in Callers, pc[x] = "cooling", x \notin early
               PROVE  announced' < wake'[x] + Second
    BY <1>1 DEF Sleeps, Covers
  <2>1. wake[x] \in 0..MaxDelay /\ announced < wake[x] + Second
    BY DEF Clocks, Paced, Sleeps, Covers
  <2> QED  BY <1>1, <1>4, <2>1
<1>7. ~unreadable => PauseIsKept'
  BY <1>1, LimiterAssumption DEF Clocks, Paced, PauseIsKept, More
<1> QED  BY <1>1, <1>3, <1>5, <1>6, <1>7 DEF Paced

LEMMA PacedStep ==
  ASSUME Inv, Clocks, Paced, [Next]_vars
  PROVE  Clocks' /\ Paced'
<1> USE DEF Inv
<1>1. ASSUME NEW c \in Callers, NEW n \in {0, MaxAttempts}, Call(c, n)
      PROVE Clocks' /\ Paced'
  <2>1. Goto(c, "arriving") /\ UNCHANGED <<wake, limiter, early>>  BY <1>1 DEF Call
  <2>2. Idles  BY <2>1 DEF Idles, Goto
  <2> QED  BY <2>1, <2>2, IdlingIsPaced
<1>2. ASSUME NEW c \in Callers, Acquire(c) \/ Send(c) \/ BackedOff(c)
      PROVE Clocks' /\ Paced'
  <2>1. PICK p \in {"waiting", "checking", "awaiting"} : Goto(c, p)
    BY <1>2 DEF Acquire, Send, BackedOff
  <2>2. UNCHANGED <<wake, limiter>> /\ (early' = early \/ early' = early \ {c})
    BY <1>2 DEF Acquire, Send, BackedOff
  <2>3. Idles  BY <2>1, <2>2 DEF Idles, Goto
  <2> QED  BY <2>2, <2>3, IdlingIsPaced
<1>3. ASSUME NEW c \in Callers, Check(c)  PROVE Clocks' /\ Paced'
  <2>1. /\ wake' = [wake EXCEPT ![c] = cooldown] /\ UNCHANGED <<limiter, early>>
        /\ pc' = [pc EXCEPT ![c] = IF cooldown > 0 THEN "cooling" ELSE "sending"]
    BY <1>3 DEF Check, Goto
  <2>2. Clocks'  BY <2>1 DEF Clocks, limiter
  <2>3. ~unreadable => Covers(cooldown)' /\ Covers(file)'  BY <2>1 DEF Paced, Covers, limiter
  <2>4. ~unreadable => Sleeps'
    <3> SUFFICES ASSUME ~unreadable, NEW x \in Callers, pc'[x] = "cooling", x \notin early
                 PROVE  announced < wake'[x] + Second
      BY <2>1 DEF Sleeps, Covers, limiter
    <3>1. CASE x = c  BY <2>1, <3>1 DEF Clocks, Paced, Covers
    <3>2. CASE x # c
      <4>1. pc[x] = "cooling" /\ wake'[x] = wake[x]  BY <2>1, <3>2 DEF Clocks
      <4> QED  BY <4>1 DEF Paced, Sleeps, Covers
    <3> QED  BY <3>1, <3>2
  <2>5. ~unreadable => PauseIsKept'
    <3> SUFFICES ASSUME ~unreadable, NEW x \in Callers, pc'[x] = "sending", x \notin early
                 PROVE  announced < Second
      BY <2>1 DEF PauseIsKept, limiter
    <3>1. CASE x = c
      <4>1. ~(cooldown > 0)  BY <2>1, <3>1
      <4>2. cooldown = 0  BY <4>1, LimiterAssumption DEF Clocks
      <4> QED  BY <4>2, LimiterAssumption DEF Clocks, Paced, Covers
    <3>2. CASE x # c
      <4>1. pc[x] = "sending"  BY <2>1, <3>2
      <4> QED  BY <4>1 DEF Paced, PauseIsKept
    <3> QED  BY <3>1, <3>2
  <2>6. unreadable' = unreadable  BY <2>1 DEF limiter
  <2> QED  BY <2>2, <2>3, <2>4, <2>5, <2>6 DEF Paced
<1>4. ASSUME NEW c \in Callers, Cooled(c)  PROVE Clocks' /\ Paced'
  <2>1. /\ pc[c] = "cooling" /\ wake[c] = 0 /\ pc' = [pc EXCEPT ![c] = "sending"]
        /\ UNCHANGED <<wake, limiter, early>>
    BY <1>4 DEF Cooled, Goto
  <2>2. ~unreadable /\ c \notin early => announced < Second
    BY <2>1, LimiterAssumption DEF Paced, Sleeps, Covers
  <2>3. Clocks'  BY <2>1 DEF Clocks, limiter
  <2> QED  BY <2>1, <2>2, <2>3 DEF Paced, Covers, Sleeps, PauseIsKept, limiter
<1>5. ASSUME NEW c \in Callers, Succeed(c)  PROVE Clocks' /\ Paced'
  <2>1. ClearRateLimit /\ UNCHANGED wake  BY <1>5 DEF Succeed
  <2> QED  BY <2>1, ClearingIsPaced
<1>6. ASSUME NEW c \in Callers, TimedOut(c) \/ Fail(c)  PROVE Clocks' /\ Paced'
  <2>1. UNCHANGED <<wake, limiter>>  BY <1>6 DEF TimedOut, Fail
  <2>2. CASE TimedOut(c)
    <3>1. early' = early /\ Retry(c, "backoff")  BY <2>2 DEF TimedOut
    <3> QED  BY <2>1, <3>1, RetryGoes, IdlingIsPaced DEF Idles
  <2>3. CASE Fail(c)
    <3>1. early' = early \ {c} /\ Release(c)  BY <2>3 DEF Fail
    <3>2. pc'[c] \in {"idle", "notified"}  BY <3>1, ReleaseMoves
    <3>3. Idles  BY <3>1, <3>2, ReleaseGoes DEF Idles
    <3> QED  BY <2>1, <3>3, IdlingIsPaced
  <2> QED  BY <1>6, <2>2, <2>3
<1>7. ASSUME NEW c \in Callers, NEW r \in RetryAfters, RateLimited(c, r)
      PROVE Clocks' /\ Paced'
  BY <1>7, LimitingIsPaced
<1>8. CASE SignIn  BY <1>8, ClearingIsPaced DEF SignIn
<1>9. CASE Restart
  <2>1. /\ pc' = [x \in Callers |-> "idle"] /\ wake' = [x \in Callers |-> 0]
        /\ cooldown' = file /\ consecutive' = 0 /\ UNCHANGED <<file, unreadable, announced>>
    BY <1>9 DEF Restart, Relaunched
  <2>2. Clocks'  BY <2>1, LimiterAssumption DEF Clocks
  <2>3. \A x \in Callers : pc'[x] \notin {"cooling", "sending"}  BY <2>1
  <2> QED  BY <2>1, <2>2, <2>3 DEF Paced, Covers, Sleeps, PauseIsKept
<1>10. CASE Tick  BY <1>10, TickIsPaced
<1>11. ASSUME NEW c \in Callers, NEW r \in RetryAfters, DiesRegistering(c, r)
       PROVE Clocks' /\ Paced'
  <2>1. /\ wake' = [x \in Callers |-> 0] /\ cooldown' = 0 /\ file' = 0 /\ consecutive' = 0
        /\ unreadable' = TRUE /\ announced' = IF r > MaxDelay THEN 0 ELSE r
    BY <1>11 DEF DiesRegistering, Relaunched, Pause
  <2>2. Clocks'  BY <2>1, LimiterAssumption DEF Clocks
  <2> QED  BY <2>1, <2>2 DEF Paced
<1>12. CASE UNCHANGED vars
  BY <1>12 DEF vars, limiter, Clocks, Paced, Covers, Sleeps, PauseIsKept
<1> QED
  BY <1>1, <1>2, <1>3, <1>4, <1>5, <1>6, <1>7, <1>8, <1>9, <1>10, <1>11, <1>12
  DEF Next, Step

LEMMA PacedInvariance == Spec => [](Inv /\ Clocks /\ Paced)
<1>1. Init => Inv /\ Clocks /\ Paced
  <2> SUFFICES ASSUME Init PROVE Inv /\ Clocks /\ Paced  OBVIOUS
  <2>1. Inv  BY IdleInv DEF Init
  <2>2. Clocks  BY LimiterAssumption DEF Init, Clocks
  <2>3. Paced  BY LimiterAssumption DEF Init, Paced, Covers, Sleeps, PauseIsKept
  <2> QED  BY <2>1, <2>2, <2>3
<1>2. Inv /\ Clocks /\ Paced /\ [Next]_vars => Clocks' /\ Paced'  BY PacedStep
<1> QED  BY <1>1, <1>2, Invariance, PTL DEF Spec

\* However many permits there are, no request goes out while the pause Spotify last
\* asked for lasts, but those whose callers had looked at the cooldown before, and but
\* in the part of a second that the file does not hold: whatever retries, clears,
\* logins and restarts come in between, as long as no death cuts the file short
\* (wait_for_rate_limit, register_429, from_cache).
THEOREM GateKeepsPauses == Spec => []PauseIsKept
<1>1. Paced => PauseIsKept  BY DEF Paced, PauseIsKept
<1> QED  BY <1>1, PacedInvariance, PTL
-----------------------------------------------------------------------------
(***************************************************************************)
(* The cache of the answers.  Whatever is loaded, saved, refreshed and     *)
(* torn, an entry that can be read holds what was said to the one request  *)
(* that has its key.                                                       *)
(***************************************************************************)
IsRequest(r) == r = [name |-> r.name, arg |-> r.arg, offset |-> r.offset]

\* What may be asked of the server, and what may be looked up in the cache: only
\* the lists that are cached page by page have more than one entry.
Asked(r) ==
  /\ IsRequest(r) /\ r.name \in DOMAIN C!Table
  /\ r.name \notin C!Paged => r.offset = 0
LookedUp(r) == Asked(r) /\ (r.name \notin C!PagedByKey => r.offset = 0)

Fields == {"at", "want", "began", "ask", "answer", "page", "items", "ats", "own"}
Busy(me) ==
  /\ me.at \in {"reading", "storing", "writing"} => LookedUp(me.ask)
  /\ me.at = "asking" => Asked(me.ask)
  /\ me.at \in {"storing", "writing"} => me.answer.to = me.ask
GoodCaller(me) ==
  DOMAIN me = Fields /\ me.own = TRUE /\ IsRequest(me.page.to) /\ Busy(me)

GoodFile(kept) == kept = [answer |-> kept.answer, torn |-> kept.torn, writers |-> kept.writers]
Holds(e, kept) == ~kept.torn => LookedUp(kept.answer.to) /\ C!Entry(kept.answer.to) = e

CacheInv ==
  /\ \A c \in CacheCallers : GoodCaller(caller[c])
  /\ DOMAIN caller = CacheCallers
  /\ \A e \in DOMAIN stored : GoodFile(stored[e]) /\ Holds(e, stored[e])

\* The endpoint that has a bucket.
OfBucket(b) ==
  CASE b = "user-profile" -> "get_user_profile" [] b = "user-top-tracks" -> "get_user_top_tracks"
    [] b = "user-top-artists" -> "get_user_top_artist" [] b = "artist" -> "get_artist"
    [] b = "artist-albums" -> "get_artist_albums" [] b = "artist-top-tracks" -> "get_artist_top_tracks"
    [] b = "artist-info" -> "get_artist_info" [] b = "album" -> "get_album" [] b = "show" -> "get_show"
    [] b = "episodes" -> "get_episodes" [] b = "episode" -> "get_episode"
    [] b = "show-episodes" -> "get_show_episodes" [] b = "track" -> "get_track"
    [] b = "track-credits" -> "get_track_credits" [] b = "lyrics" -> "get_lyrics"
    [] b = "saved-albums" -> "get_saved_albums" [] b = "saved-tracks" -> "get_saved_tracks"
    [] b = "saved-shows" -> "get_saved_shows" [] b = "user-info" -> "get_user_info"
    [] b = "home-section" -> "get_section" [] b = "playlists" -> "get_playlists"
    [] b = "playlist" -> "get_playlist" [] b = "playlist-tracks" -> "get_playlist_tracks"
    [] b = "search" -> "search" [] b = "recommendations" -> "get_recommendations"
    [] b = "images" -> "get_image"

Tells(group) == \A name \in DOMAIN group : OfBucket(group[name].bucket) = name

LEMMA JoinTells ==
  ASSUME NEW f, NEW g, Tells(f), Tells(g)
  PROVE  /\ Tells(C!Joined(f, g))
         /\ DOMAIN C!Joined(f, g) = DOMAIN f \cup DOMAIN g
BY DEF Tells, C!Joined

LEMMA BucketsApart ==
  /\ Tells(C!Table)
  /\ {"get_user_info", "get_section", "get_recommendations", "get_episodes", "get_artist_albums"}
       \cup C!PagedByKey \subseteq DOMAIN C!Table
<1> USE DEF Tells, OfBucket, C!Plain, C!Rspotify
<1>1. Tells(C!UserEndpoints)  BY DEF C!UserEndpoints
<1>2. Tells(C!ArtistEndpoints) /\ "get_artist_albums" \in DOMAIN C!ArtistEndpoints
  BY SMTT(30) DEF C!ArtistEndpoints
<1>3. Tells(C!ArtistInfo)  BY DEF C!ArtistInfo
<1>4. Tells(C!AlbumEndpoints)  BY DEF C!AlbumEndpoints
<1>5. Tells(C!EpisodeEndpoints) /\ {"get_episodes", "get_show_episodes"} \subseteq DOMAIN C!EpisodeEndpoints
  BY SMTT(30) DEF C!EpisodeEndpoints
<1>6. Tells(C!TrackEndpoints)  BY DEF C!TrackEndpoints
<1>7. /\ Tells(C!LibraryEndpoints)
      /\ {"get_saved_albums", "get_saved_tracks", "get_saved_shows"} \subseteq DOMAIN C!LibraryEndpoints
  BY DEF C!LibraryEndpoints
<1>8. Tells(C!ViewEndpoints) /\ {"get_user_info", "get_section"} \subseteq DOMAIN C!ViewEndpoints
  BY DEF C!ViewEndpoints
<1>9. Tells(C!PlaylistEndpoints) /\ "get_playlist_tracks" \in DOMAIN C!PlaylistEndpoints
  BY SMTT(30) DEF C!PlaylistEndpoints
<1>10. Tells(C!SearchEndpoint)  BY DEF C!SearchEndpoint
<1>11. Tells(C!RecommendationEndpoint) /\ "get_recommendations" \in DOMAIN C!RecommendationEndpoint
  BY DEF C!RecommendationEndpoint
<1>12. Tells(C!ImageEndpoint)  BY DEF C!ImageEndpoint
<1> HIDE DEF Tells, OfBucket, C!Plain, C!Rspotify
<1> DEFINE p1 == C!Joined(C!UserEndpoints, C!ArtistEndpoints)
           p2 == C!Joined(C!ArtistInfo, C!AlbumEndpoints)
           p3 == C!Joined(C!EpisodeEndpoints, C!TrackEndpoints)
           p4 == C!Joined(C!LibraryEndpoints, C!ViewEndpoints)
           p5 == C!Joined(C!PlaylistEndpoints, C!SearchEndpoint)
           p6 == C!Joined(C!RecommendationEndpoint, C!ImageEndpoint)
<1>13. /\ Tells(p1) /\ "get_artist_albums" \in DOMAIN p1
       /\ Tells(p2)
       /\ Tells(p3) /\ {"get_episodes", "get_show_episodes"} \subseteq DOMAIN p3
       /\ Tells(p4) /\ {"get_saved_albums", "get_saved_tracks", "get_saved_shows", "get_user_info",
                        "get_section"} \subseteq DOMAIN p4
       /\ Tells(p5) /\ "get_playlist_tracks" \in DOMAIN p5
       /\ Tells(p6) /\ "get_recommendations" \in DOMAIN p6
  <2>1. Tells(p1) /\ DOMAIN p1 = DOMAIN C!UserEndpoints \cup DOMAIN C!ArtistEndpoints
    BY <1>1, <1>2, JoinTells
  <2>2. Tells(p2)
    BY <1>3, <1>4, JoinTells
  <2>3. Tells(p3) /\ DOMAIN p3 = DOMAIN C!EpisodeEndpoints \cup DOMAIN C!TrackEndpoints
    BY <1>5, <1>6, JoinTells
  <2>4. Tells(p4) /\ DOMAIN p4 = DOMAIN C!LibraryEndpoints \cup DOMAIN C!ViewEndpoints
    BY <1>7, <1>8, JoinTells
  <2>5. Tells(p5) /\ DOMAIN p5 = DOMAIN C!PlaylistEndpoints \cup DOMAIN C!SearchEndpoint
    BY <1>9, <1>10, JoinTells
  <2>6. Tells(p6) /\ DOMAIN p6 = DOMAIN C!RecommendationEndpoint \cup DOMAIN C!ImageEndpoint
    BY <1>11, <1>12, JoinTells
  <2> HIDE DEF p1, p2, p3, p4, p5, p6
  <2> QED
    BY <1>2, <1>5, <1>7, <1>8, <1>9, <1>11, <2>1, <2>2, <2>3, <2>4, <2>5, <2>6
<1>14. C!Table = C!Joined(p1, C!Joined(p2, C!Joined(p3, C!Joined(p4, C!Joined(p5, p6)))))
  BY DEF C!Table
<1> HIDE DEF p1, p2, p3, p4, p5, p6
<1> DEFINE t5 == C!Joined(p5, p6)
           t4 == C!Joined(p4, t5)
           t3 == C!Joined(p3, t4)
           t2 == C!Joined(p2, t3)
<1>15. Tells(t5) /\ DOMAIN t5 = DOMAIN p5 \cup DOMAIN p6  BY <1>13, JoinTells
<1> HIDE DEF t5
<1>16. Tells(t4) /\ DOMAIN t4 = DOMAIN p4 \cup DOMAIN t5  BY <1>13, <1>15, JoinTells
<1> HIDE DEF t4
<1>17. Tells(t3) /\ DOMAIN t3 = DOMAIN p3 \cup DOMAIN t4  BY <1>13, <1>16, JoinTells
<1> HIDE DEF t3
<1>18. Tells(t2) /\ DOMAIN t2 = DOMAIN p2 \cup DOMAIN t3  BY <1>13, <1>17, JoinTells
<1> HIDE DEF t2
<1>19. Tells(C!Table) /\ DOMAIN C!Table = DOMAIN p1 \cup DOMAIN t2
  BY <1>13, <1>14, <1>18, JoinTells DEF t2, t3, t4, t5
<1> QED  BY <1>13, <1>15, <1>16, <1>17, <1>18, <1>19 DEF C!PagedByKey

\* Requests that are looked up are told apart by their entries.
LEMMA EntriesApart ==
  ASSUME NEW r, NEW q, LookedUp(r), LookedUp(q), C!Entry(r) = C!Entry(q)
  PROVE  r = q
<1>1. C!Table[r.name].bucket = C!Table[q.name].bucket /\ C!Key(r) = C!Key(q)
  BY DEF C!Entry
<1>2. r.name = q.name
  BY <1>1, BucketsApart DEF Tells, LookedUp, Asked
<1>3. r.arg = q.arg /\ r.offset = q.offset
  BY <1>1, <1>2 DEF C!Key, LookedUp
<1> QED  BY <1>2, <1>3 DEF LookedUp, Asked, IsRequest

\* What a change of some fields leaves of the others.
LEMMA FieldsChange ==
  ASSUME NEW me, DOMAIN me = Fields, NEW change, DOMAIN change \subseteq Fields
  PROVE  /\ DOMAIN C!Joined(change, me) = Fields
         /\ \A f \in DOMAIN change : C!Joined(change, me)[f] = change[f]
         /\ \A f \in Fields \ DOMAIN change : C!Joined(change, me)[f] = me[f]
BY DEF C!Joined

\* One caller changes, the others do not.
LEMMA OneChanges ==
  ASSUME CacheInv, NEW c \in CacheCallers, NEW me, GoodCaller(me),
         caller' = [caller EXCEPT ![c] = me]
  PROVE  (\A d \in CacheCallers : GoodCaller(caller'[d])) /\ DOMAIN caller' = CacheCallers
<1>1. DOMAIN caller = CacheCallers  BY DEF CacheInv
<1>2. caller'[c] = me /\ \A d \in CacheCallers \ {c} : caller'[d] = caller[d]  BY <1>1
<1> QED  BY <1>1, <1>2 DEF CacheInv

LEMMA IdleIsGood ==
  /\ GoodCaller(C!Idle) /\ C!Idle.at = "idle"
  /\ IsRequest(C!NoAnswer.to) /\ C!NoAnswer.to.name = "none"
BY DEF C!Idle, C!NoAnswer, C!Request, GoodCaller, Busy, Fields, IsRequest

\* The answer that is taken is one to the request; what follows it may be looked up.
LEMMA TakenIsGood ==
  ASSUME CacheInv, NEW c \in CacheCallers, caller[c].at \in {"reading", "writing"},
         NEW answer, answer.to = caller[c].ask, C!Took(c, answer)
  PROVE  (\A d \in CacheCallers : GoodCaller(caller'[d])) /\ DOMAIN caller' = CacheCallers
<1> DEFINE me == caller[c]
           ask == C!Follow(c, answer)
           episodes == ask.name = "get_episodes"
           change ==
             [at |-> IF ask = C!NoAnswer.to THEN "idle" ELSE "reading", ask |-> ask,
              answer |-> C!NoAnswer, page |-> IF episodes THEN answer ELSE C!NoAnswer,
              items |-> IF episodes THEN me.items ELSE me.items \o answer.items,
              ats |-> IF ask.name = "get_section" THEN {} ELSE me.ats \cup answer.ats,
              own |-> me.own /\ answer.to = me.ask]
<1>1. GoodCaller(me) /\ LookedUp(me.ask)
  BY DEF CacheInv, GoodCaller, Busy
<1>2. ask = C!NoAnswer.to \/ LookedUp(ask)
  <2>1. ASSUME NEW page, IsRequest(page.to), page.to.name \in C!PagedByKey
        PROVE  LookedUp([page.to EXCEPT !.offset = @ + Limit])
    <3>1. [page.to EXCEPT !.offset = @ + Limit]
            = [name |-> page.to.name, arg |-> page.to.arg, offset |-> page.to.offset + Limit]
      BY <2>1 DEF IsRequest
    <3>2. page.to.name \in DOMAIN C!Table  BY <2>1, BucketsApart
    <3> QED  BY <2>1, <3>1, <3>2 DEF LookedUp, Asked, IsRequest, C!Paged
  <2>2. IsRequest(answer.to) /\ IsRequest(me.page.to)
    BY <1>1 DEF LookedUp, Asked, GoodCaller
  <2>3. \A name \in DOMAIN C!Table : \A arg : LookedUp(C!Request(name, arg))
    BY DEF C!Request, LookedUp, Asked, IsRequest
  <2>4. LookedUp(C!Request("get_section", me.want.arg \o <<C!ToString(answer.ats)>>))
        /\ LookedUp(C!Request("get_episodes", answer.items))
    BY <2>3, BucketsApart
  <2> QED  BY <2>1, <2>2, <2>4 DEF C!Follow
<1>3. caller' = [caller EXCEPT ![c] = C!Joined(change, me)]
  BY DEF C!Took, C!Do
<1>4. DOMAIN change \subseteq Fields  BY DEF Fields
<1>5. /\ change.at \in {"idle", "reading"} /\ (change.at = "reading" => LookedUp(change.ask))
      /\ IsRequest(change.page.to) /\ change.own = TRUE
  BY <1>1, <1>2, IdleIsGood DEF LookedUp, Asked, GoodCaller
<1>6. {"at", "ask", "page", "own"} \subseteq DOMAIN change  OBVIOUS
<1> HIDE DEF change, me
<1>7. GoodCaller(C!Joined(change, me))
  <2>1. /\ DOMAIN C!Joined(change, me) = Fields
        /\ \A f \in DOMAIN change : C!Joined(change, me)[f] = change[f]
    BY <1>1, <1>4, FieldsChange DEF GoodCaller
  <2>2. /\ C!Joined(change, me).at = change.at /\ C!Joined(change, me).ask = change.ask
        /\ C!Joined(change, me).page = change.page /\ C!Joined(change, me).own = change.own
    BY <1>6, <2>1
  <2> QED  BY <1>5, <2>1, <2>2 DEF GoodCaller, Busy
<1> QED  BY <1>3, <1>7, OneChanges

\* Some fields of a caller change, to what is allowed there.
LEMMA GoodChange ==
  ASSUME CacheInv, NEW c \in CacheCallers, NEW change, C!Do(c, change),
         DOMAIN change \subseteq Fields, {"own", "page"} \cap DOMAIN change = {},
         Busy(C!Joined(change, caller[c]))
  PROVE  (\A d \in CacheCallers : GoodCaller(caller'[d])) /\ DOMAIN caller' = CacheCallers
<1> DEFINE me == C!Joined(change, caller[c])
<1>1. GoodCaller(caller[c])  BY DEF CacheInv
<1>2. DOMAIN me = Fields /\ me.own = caller[c].own /\ me.page = caller[c].page
  <2>1. DOMAIN caller[c] = Fields /\ {"own", "page"} \subseteq Fields \ DOMAIN change
    BY <1>1 DEF GoodCaller, Fields
  <2> QED  BY <2>1, FieldsChange
<1>3. GoodCaller(me)  BY <1>1, <1>2 DEF GoodCaller
<1>4. caller' = [caller EXCEPT ![c] = me]  BY DEF C!Do
<1> HIDE DEF me
<1> QED  BY <1>3, <1>4, OneChanges

LEMMA FailIsGood ==
  ASSUME CacheInv, NEW c \in CacheCallers, C!Fail(c)
  PROVE  (\A d \in CacheCallers : GoodCaller(caller'[d])) /\ DOMAIN caller' = CacheCallers
BY IdleIsGood, OneChanges DEF C!Fail

\* Fewer files are good files.
LEMMA FewerFiles ==
  ASSUME CacheInv, NEW entries, stored' = C!Without(entries)
  PROVE  \A e \in DOMAIN stored' : GoodFile(stored'[e]) /\ Holds(e, stored'[e])
BY DEF CacheInv, C!Without

LEMMA LoadHolds ==
  ASSUME C!CacheAssumption, CacheInv, NEW c \in CacheCallers, NEW want \in Wants, C!Load(c, want)
  PROVE  CacheInv'
<1>1. PICK r \in C!First(want) :
        caller' = [caller EXCEPT ![c] =
          [C!Idle EXCEPT !.at = "reading", !.want = want, !.ask = r, !.began = version]]
  BY DEF C!Load
<1>2. want.name \in DOMAIN C!Table  BY DEF C!CacheAssumption
<1>3. \A name \in DOMAIN C!Table : \A arg : LookedUp(C!Request(name, arg))
  BY DEF C!Request, LookedUp, Asked, IsRequest
<1>4. LookedUp(r)
  <2>1. CASE want.name = "get_section"
    BY <1>3, <2>1, BucketsApart DEF C!First
  <2>2. CASE want.name = "get_recommendations"
    <3>1. \E order \in {"one way", "the other"} : r = C!Request(want.name, want.arg \o <<order>>)
      BY <2>2 DEF C!First
    <3> QED  BY <1>2, <1>3, <3>1
  <2>3. CASE want.name \notin {"get_section", "get_recommendations"}
    BY <1>2, <1>3, <2>3 DEF C!First
  <2> QED  BY <2>1, <2>2, <2>3
<1> DEFINE me == [C!Idle EXCEPT !.at = "reading", !.want = want, !.ask = r, !.began = version]
<1>5. GoodCaller(me)
  <2>1. DOMAIN me = DOMAIN C!Idle /\ me.own = C!Idle.own /\ me.page = C!Idle.page
        /\ me.at = "reading" /\ me.ask = r
    BY DEF C!Idle
  <2> HIDE DEF me
  <2> QED  BY <1>4, <2>1, IdleIsGood DEF GoodCaller, Busy
<1> HIDE DEF me
<1>6. (\A d \in CacheCallers : GoodCaller(caller'[d])) /\ DOMAIN caller' = CacheCallers
  BY <1>1, <1>5, OneChanges DEF me
<1>7. stored' = stored  BY DEF C!Load
<1> QED  BY <1>6, <1>7 DEF CacheInv

LEMMA ReadImageHolds ==
  ASSUME CacheInv, NEW c \in CacheCallers, C!ReadImage(c)
  PROVE  CacheInv'
<1>1. PICK i \in C!Shown(caller[c].ask) : C!Took(c, images[i])
  BY DEF C!ReadImage
<1>2. images[i].to = caller[c].ask /\ caller[c].at = "reading" /\ stored' = stored
  BY <1>1 DEF C!ReadImage, C!Shown
<1>3. (\A d \in CacheCallers : GoodCaller(caller'[d])) /\ DOMAIN caller' = CacheCallers
  BY <1>1, <1>2, TakenIsGood
<1> QED  BY <1>2, <1>3 DEF CacheInv

\* A file that can be read holds the answer to the request it is read for; one that
\* cannot is not read.
LEMMA ReadHolds ==
  ASSUME CacheInv, NEW c \in CacheCallers, C!Read(c)
  PROVE  CacheInv'
<1> DEFINE r == caller[c].ask
           ask == [at |-> "asking"]
<1>1. LookedUp(r) /\ caller[c].at = "reading"
  BY DEF CacheInv, GoodCaller, Busy, C!Read
<1>2. ASSUME C!Do(c, ask)
      PROVE  (\A d \in CacheCallers : GoodCaller(caller'[d])) /\ DOMAIN caller' = CacheCallers
  <2>1. DOMAIN ask = {"at"} /\ ask.at = "asking"  OBVIOUS
  <2>2. GoodCaller(caller[c])  BY DEF CacheInv
  <2> HIDE DEF ask
  <2>3. C!Joined(ask, caller[c]).at = "asking" /\ C!Joined(ask, caller[c]).ask = r
    <3>1. DOMAIN caller[c] = Fields /\ DOMAIN ask \subseteq Fields /\ "ask" \in Fields \ DOMAIN ask
      BY <2>1, <2>2 DEF GoodCaller, Fields
    <3> QED  BY <2>1, <3>1, FieldsChange
  <2>4. Busy(C!Joined(ask, caller[c]))  BY <1>1, <2>3 DEF Busy, LookedUp
  <2>5. DOMAIN ask \subseteq Fields /\ {"own", "page"} \cap DOMAIN ask = {}
    BY <2>1 DEF Fields
  <2> QED  BY <1>2, <2>4, <2>5, GoodChange
<1>3. CASE C!Here(r) /\ ~C!File(r).torn /\ C!Took(c, C!File(r).answer) /\ stored' = stored
  <2>1. C!Entry(r) \in DOMAIN stored /\ C!File(r) = stored[C!Entry(r)]
    BY <1>3 DEF C!Here, C!File
  <2>2. LookedUp(C!File(r).answer.to) /\ C!Entry(C!File(r).answer.to) = C!Entry(r)
    BY <1>3, <2>1 DEF CacheInv, Holds
  <2>3. C!File(r).answer.to = r
    BY <1>1, <2>2, EntriesApart
  <2>4. (\A d \in CacheCallers : GoodCaller(caller'[d])) /\ DOMAIN caller' = CacheCallers
    BY <1>1, <1>3, <2>3, TakenIsGood
  <2> QED  BY <1>3, <2>4 DEF CacheInv
<1>4. CASE /\ C!Fail(c) \/ C!Do(c, ask)
           /\ stored' = C!Without({C!Entry(r)}) \/ stored' = stored
  <2>1. (\A d \in CacheCallers : GoodCaller(caller'[d])) /\ DOMAIN caller' = CacheCallers
    BY <1>2, <1>4, FailIsGood
  <2>2. \A e \in DOMAIN stored' : GoodFile(stored'[e]) /\ Holds(e, stored'[e])
    BY <1>4, FewerFiles DEF CacheInv
  <2> QED  BY <2>1, <2>2 DEF CacheInv
<1> QED  BY <1>3, <1>4 DEF C!Read

LEMMA AnsweredHolds ==
  ASSUME CacheInv, NEW c \in CacheCallers, NEW ok \in BOOLEAN, C!Answered(c, ok)
  PROVE  CacheInv'
<1> DEFINE r == caller[c].ask
           store == [at |-> "storing", answer |-> C!Says(r)]
           ahead == [ask |-> [r EXCEPT !.offset = @ + Limit], page |-> C!Gathered(c)]
           keep == [at |-> "storing", ask |-> C!Gathered(c).to, answer |-> C!Gathered(c),
                    page |-> C!NoAnswer]
<1>1. GoodCaller(caller[c]) /\ DOMAIN caller[c] = Fields
  BY DEF CacheInv, GoodCaller
<1>2. Asked(r) /\ caller[c].at = "asking"
  BY <1>1 DEF GoodCaller, Busy, C!Answered
<1>3. C!Says(r).to = r  BY DEF C!Says
<1>4. stored' = stored  BY DEF C!Answered
<1>5. ASSUME C!Do(c, store), r.name # "get_artist_albums"
      PROVE  (\A d \in CacheCallers : GoodCaller(caller'[d])) /\ DOMAIN caller' = CacheCallers
  <2>1. DOMAIN store = {"at", "answer"} /\ store.at = "storing" /\ store.answer = C!Says(r)
    OBVIOUS
  <2>2. LookedUp(r)  BY <1>2, <1>5 DEF LookedUp, Asked, C!Paged
  <2> HIDE DEF store
  <2>3. /\ C!Joined(store, caller[c]).at = "storing" /\ C!Joined(store, caller[c]).ask = r
        /\ C!Joined(store, caller[c]).answer = C!Says(r)
    <3>1. DOMAIN store \subseteq Fields /\ "ask" \in Fields \ DOMAIN store
      BY <2>1 DEF Fields
    <3> QED  BY <1>1, <2>1, <3>1, FieldsChange
  <2>4. Busy(C!Joined(store, caller[c]))  BY <1>3, <2>2, <2>3 DEF Busy
  <2>5. DOMAIN store \subseteq Fields /\ {"own", "page"} \cap DOMAIN store = {}
    BY <2>1 DEF Fields
  <2> QED  BY <1>5, <2>4, <2>5, GoodChange
<1>6. C!Gathered(c).to = C!Request(r.name, r.arg)
  BY <1>3 DEF C!Gathered, C!Says
<1>7. ASSUME NEW change, C!Do(c, change), DOMAIN change \subseteq Fields, "page" \in DOMAIN change,
             "own" \notin DOMAIN change, IsRequest(change.page.to), Busy(C!Joined(change, caller[c]))
      PROVE  (\A d \in CacheCallers : GoodCaller(caller'[d])) /\ DOMAIN caller' = CacheCallers
  <2> DEFINE me == C!Joined(change, caller[c])
  <2>1. DOMAIN me = Fields /\ me.own = caller[c].own /\ me.page = change.page
    <3>1. "own" \in Fields \ DOMAIN change  BY <1>7 DEF Fields
    <3> QED  BY <1>1, <1>7, <3>1, FieldsChange
  <2>2. caller' = [caller EXCEPT ![c] = me]  BY <1>7 DEF C!Do
  <2>3. Busy(me)  BY <1>7
  <2> HIDE DEF me
  <2>4. GoodCaller(me)  BY <1>1, <1>7, <2>1, <2>3 DEF GoodCaller
  <2> QED  BY <2>2, <2>4, OneChanges
<1>8. ASSUME C!Do(c, ahead), r.name = "get_artist_albums"
      PROVE  (\A d \in CacheCallers : GoodCaller(caller'[d])) /\ DOMAIN caller' = CacheCallers
  <2>1. /\ DOMAIN ahead = {"ask", "page"} /\ ahead.ask = [r EXCEPT !.offset = @ + Limit]
        /\ ahead.page.to = C!Request(r.name, r.arg)
    BY <1>6
  <2>2. ahead.ask = [name |-> r.name, arg |-> r.arg, offset |-> r.offset + Limit]
    BY <1>2, <2>1 DEF Asked, IsRequest
  <2> HIDE DEF ahead
  <2>3. Asked(ahead.ask)
    BY <1>2, <1>8, <2>2 DEF Asked, IsRequest, C!Paged
  <2>4. C!Joined(ahead, caller[c]).at = "asking" /\ C!Joined(ahead, caller[c]).ask = ahead.ask
    <3>1. DOMAIN ahead \subseteq Fields /\ "at" \in Fields \ DOMAIN ahead
      BY <2>1 DEF Fields
    <3> QED  BY <1>1, <1>2, <2>1, <3>1, FieldsChange
  <2>5. Busy(C!Joined(ahead, caller[c]))  BY <2>3, <2>4 DEF Busy
  <2>6. IsRequest(ahead.page.to)  BY <2>1 DEF C!Request, IsRequest
  <2>7. DOMAIN ahead \subseteq Fields /\ "page" \in DOMAIN ahead /\ "own" \notin DOMAIN ahead
    BY <2>1 DEF Fields
  <2> QED  BY <1>7, <1>8, <2>5, <2>6, <2>7
<1>9. ASSUME C!Do(c, keep), r.name = "get_artist_albums"
      PROVE  (\A d \in CacheCallers : GoodCaller(caller'[d])) /\ DOMAIN caller' = CacheCallers
  <2>1. /\ DOMAIN keep = {"at", "ask", "answer", "page"} /\ keep.at = "storing"
        /\ keep.ask = C!Request(r.name, r.arg) /\ keep.answer.to = C!Request(r.name, r.arg)
        /\ keep.page = C!NoAnswer
    BY <1>6
  <2> HIDE DEF keep
  <2>2. LookedUp(C!Request(r.name, r.arg))
    BY <1>2 DEF C!Request, LookedUp, Asked, IsRequest
  <2>3. /\ C!Joined(keep, caller[c]).at = "storing" /\ C!Joined(keep, caller[c]).ask = keep.ask
        /\ C!Joined(keep, caller[c]).answer = keep.answer
    <3>1. DOMAIN keep \subseteq Fields  BY <2>1 DEF Fields
    <3> QED  BY <1>1, <2>1, <3>1, FieldsChange
  <2>4. Busy(C!Joined(keep, caller[c]))  BY <2>1, <2>2, <2>3 DEF Busy
  <2>5. DOMAIN keep \subseteq Fields /\ "page" \in DOMAIN keep /\ "own" \notin DOMAIN keep
    BY <2>1 DEF Fields
  <2> QED  BY <1>7, <1>9, <2>1, <2>4, <2>5, IdleIsGood
<1>10. C!Fail(c) \/ (C!Do(c, store) /\ r.name # "get_artist_albums")
       \/ ((C!Do(c, ahead) \/ C!Do(c, keep)) /\ r.name = "get_artist_albums")
  BY DEF C!Answered
<1>11. (\A d \in CacheCallers : GoodCaller(caller'[d])) /\ DOMAIN caller' = CacheCallers
  BY <1>5, <1>8, <1>9, <1>10, FailIsGood
<1> QED  BY <1>4, <1>11 DEF CacheInv

\* While it is being written a file is torn.
LEMMA TruncateHolds ==
  ASSUME CacheInv, NEW c \in CacheCallers, C!Truncate(c)
  PROVE  CacheInv'
<1> DEFINE r == caller[c].ask
           write == [at |-> "writing"]
           opened == [e \in {C!Entry(r)} |->
                        [answer |-> caller[c].answer, torn |-> TRUE,
                         writers |-> {c} \cup IF C!Here(r) THEN C!File(r).writers ELSE {}]]
<1>1. GoodCaller(caller[c]) /\ DOMAIN caller[c] = Fields
  BY DEF CacheInv, GoodCaller
<1>2. LookedUp(r) /\ caller[c].answer.to = r /\ C!Do(c, write) /\ stored' = C!Joined(opened, stored)
  BY <1>1 DEF GoodCaller, Busy, C!Truncate
<1>3. DOMAIN write = {"at"} /\ write.at = "writing"  OBVIOUS
<1>4. DOMAIN opened = {C!Entry(r)} /\ GoodFile(opened[C!Entry(r)]) /\ opened[C!Entry(r)].torn
  BY DEF GoodFile
<1> HIDE DEF write, opened
<1>5. /\ C!Joined(write, caller[c]).at = "writing" /\ C!Joined(write, caller[c]).ask = r
      /\ C!Joined(write, caller[c]).answer = caller[c].answer
  <2>1. DOMAIN write \subseteq Fields /\ {"ask", "answer"} \subseteq Fields \ DOMAIN write
    BY <1>3 DEF Fields
  <2> QED  BY <1>1, <1>3, <2>1, FieldsChange
<1>6. Busy(C!Joined(write, caller[c]))  BY <1>2, <1>5 DEF Busy
<1>7. DOMAIN write \subseteq Fields /\ {"own", "page"} \cap DOMAIN write = {}
  BY <1>3 DEF Fields
<1>8. (\A d \in CacheCallers : GoodCaller(caller'[d])) /\ DOMAIN caller' = CacheCallers
  BY <1>2, <1>6, <1>7, GoodChange
<1>9. ASSUME NEW e \in DOMAIN stored'
      PROVE  GoodFile(stored'[e]) /\ Holds(e, stored'[e])
  <2>1. CASE e = C!Entry(r)
    <3>1. stored'[e] = opened[C!Entry(r)]  BY <1>2, <1>4, <2>1 DEF C!Joined
    <3> QED  BY <1>4, <3>1 DEF Holds
  <2>2. CASE e # C!Entry(r)
    <3>1. e \in DOMAIN stored /\ stored'[e] = stored[e]
      BY <1>2, <1>4, <1>9, <2>2 DEF C!Joined
    <3> QED  BY <3>1 DEF CacheInv
  <2> QED  BY <2>1, <2>2
<1> QED  BY <1>8, <1>9 DEF CacheInv

\* What is written is the answer to the request the file is for.
LEMMA WriteHolds ==
  ASSUME CacheInv, NEW c \in CacheCallers, C!Write(c)
  PROVE  CacheInv'
<1> DEFINE r == caller[c].ask
           a == caller[c].answer
<1>1. caller[c].at = "writing" /\ C!Took(c, a)  BY DEF C!Write
<1>2. LookedUp(r) /\ a.to = r  BY <1>1 DEF CacheInv, GoodCaller, Busy
<1>3. (\A d \in CacheCallers : GoodCaller(caller'[d])) /\ DOMAIN caller' = CacheCallers
  BY <1>1, <1>2, TakenIsGood
<1>4. CASE stored' = stored  BY <1>3, <1>4 DEF CacheInv
<1>5. CASE C!Here(r) /\ \E torn \in BOOLEAN :
             stored' = [stored EXCEPT ![C!Entry(r)] =
                          [answer |-> a, torn |-> torn, writers |-> @.writers \ {c}]]
  <2>1. PICK torn \in BOOLEAN :
          stored' = [stored EXCEPT ![C!Entry(r)] =
                       [answer |-> a, torn |-> torn, writers |-> @.writers \ {c}]]
    BY <1>5
  <2> DEFINE kept == [answer |-> a, torn |-> torn, writers |-> stored[C!Entry(r)].writers \ {c}]
  <2>2. stored' = [stored EXCEPT ![C!Entry(r)] = kept]  BY <2>1
  <2>3. GoodFile(kept) /\ kept.answer.to = r  BY <1>2 DEF GoodFile
  <2> HIDE DEF kept
  <2>4. Holds(C!Entry(r), kept)  BY <1>2, <2>3 DEF Holds
  <2>5. ASSUME NEW e \in DOMAIN stored'
        PROVE  GoodFile(stored'[e]) /\ Holds(e, stored'[e])
    BY <2>2, <2>3, <2>4 DEF CacheInv
  <2> QED  BY <1>3, <2>5 DEF CacheInv
<1> QED  BY <1>4, <1>5 DEF C!Write

LEMMA ChangeHolds ==
  ASSUME CacheInv, NEW c \in CacheCallers, NEW name, C!Change(c, name)
  PROVE  CacheInv'
<1> DEFINE me == [C!Idle EXCEPT !.at = "clearing", !.want.name = name]
<1>1. DOMAIN me = DOMAIN C!Idle /\ me.own = C!Idle.own /\ me.page = C!Idle.page /\ me.at = "clearing"
  BY DEF C!Idle
<1>2. caller' = [caller EXCEPT ![c] = me] /\ stored' = stored  BY DEF C!Change
<1> HIDE DEF me
<1>3. GoodCaller(me)  BY <1>1, IdleIsGood DEF GoodCaller, Busy
<1>4. (\A d \in CacheCallers : GoodCaller(caller'[d])) /\ DOMAIN caller' = CacheCallers
  BY <1>2, <1>3, OneChanges
<1> QED  BY <1>2, <1>4 DEF CacheInv

LEMMA ClearBucketHolds ==
  ASSUME CacheInv, NEW c \in CacheCallers, C!ClearBucket(c)
  PROVE  CacheInv'
<1>1. (\A d \in CacheCallers : GoodCaller(caller'[d])) /\ DOMAIN caller' = CacheCallers
  BY FailIsGood DEF C!ClearBucket
<1>2. \A e \in DOMAIN stored' : GoodFile(stored'[e]) /\ Holds(e, stored'[e])
  BY FewerFiles DEF C!ClearBucket
<1> QED  BY <1>1, <1>2 DEF CacheInv

\* A file torn when the program is killed stays torn.
LEMMA KillHolds ==
  ASSUME CacheInv, C!Kill
  PROVE  CacheInv'
<1>1. caller' = [c \in CacheCallers |-> C!Idle]
      /\ stored' = [e \in DOMAIN stored |-> [stored[e] EXCEPT !.writers = {}]]
  BY DEF C!Kill
<1>2. ASSUME NEW e \in DOMAIN stored'
      PROVE  GoodFile(stored'[e]) /\ Holds(e, stored'[e])
  <2>1. e \in DOMAIN stored /\ stored'[e] = [stored[e] EXCEPT !.writers = {}]
    BY <1>1
  <2>2. GoodFile(stored[e]) /\ Holds(e, stored[e])
    BY <2>1 DEF CacheInv
  <2>3. stored'[e] = [answer |-> stored[e].answer, torn |-> stored[e].torn, writers |-> {}]
    BY <2>1, <2>2 DEF GoodFile
  <2> QED  BY <2>2, <2>3 DEF GoodFile, Holds
<1> QED  BY <1>1, <1>2, IdleIsGood DEF CacheInv

LEMMA CacheStarts ==
  ASSUME C!Init
  PROVE  CacheInv
<1>1. caller = [c \in CacheCallers |-> C!Idle] /\ DOMAIN stored = {}  BY DEF C!Init
<1> QED  BY <1>1, IdleIsGood DEF CacheInv

LEMMA CacheStep ==
  ASSUME C!CacheAssumption, CacheInv, [C!Next]_C!vars
  PROVE  CacheInv'
<1>1. ASSUME NEW c \in CacheCallers,
             \/ C!ReadImage(c) \/ C!Read(c) \/ C!Truncate(c) \/ C!Write(c) \/ C!ClearBucket(c)
             \/ \E want \in Wants : C!Load(c, want)
             \/ \E name \in Edits : C!Change(c, name)
             \/ \E ok \in BOOLEAN : C!Answered(c, ok)
      PROVE  CacheInv'
  <2>1. ASSUME NEW want \in Wants, C!Load(c, want)  PROVE  CacheInv'
    BY <2>1, LoadHolds
  <2>2. ASSUME NEW name \in Edits, C!Change(c, name)  PROVE  CacheInv'
    BY <2>2, ChangeHolds
  <2>3. ASSUME NEW ok \in BOOLEAN, C!Answered(c, ok)  PROVE  CacheInv'
    BY <2>3, AnsweredHolds
  <2> QED
    BY <1>1, <2>1, <2>2, <2>3, ReadImageHolds, ReadHolds, TruncateHolds, WriteHolds, ClearBucketHolds
<1>2. CASE C!Elsewhere  BY <1>2 DEF C!Elsewhere, CacheInv
<1>3. CASE UNCHANGED C!vars  BY <1>3 DEF C!vars, CacheInv
<1> QED  BY <1>1, <1>2, <1>3, KillHolds DEF C!Next

\* Whatever a load finds in the cache, in memory or on the disk, was said by the server to
\* the very request it is found for (WebApiCache::get and set, load_cached, get_image):
\* whatever threads load, save and refresh at once, whenever a file is cleared or torn, and
\* however often the program is killed. Requests that differ have entries of their own, and
\* a file that two wrote at once, or that was never finished, is taken for no answer.
THEOREM AnswersAreOwn == C!Spec => []OwnAnswer
<1>1. C!Init => CacheInv  BY CacheStarts
<1>2. CacheInv /\ [C!Next]_C!vars => CacheInv'  BY CacheStep, WebCacheAssumption
<1>3. CacheInv => OwnAnswer  BY DEF CacheInv, GoodCaller, OwnAnswer, C!OwnAnswer
<1> QED  BY <1>1, <1>2, <1>3, PTL DEF C!Spec

\* The parts of a refresh: what is put together, and what is about to be.
Fresh(me, now) ==
  /\ me.began \in Nat /\ me.began <= now
  /\ me.ask.name = "get_image" => me.want.name = "get_image"
  /\ me.at = "idle" => me.ask.name # "get_user_info"
  /\ me.want.policy = "Refresh" => me.want.name # "get_image"
  /\ me.want.policy = "Refresh" /\ me.ask.name # "get_user_info" =>
       /\ \A v \in me.ats : v >= me.began
       /\ \A v \in me.page.ats : v >= me.began
       /\ me.at \in {"storing", "writing"} => \A v \in me.answer.ats : v >= me.began

FreshInv ==
  /\ CacheInv /\ version \in Nat
  /\ \A c \in CacheCallers : Fresh(caller[c], version)

LEMMA OneFresh ==
  ASSUME FreshInv, NEW c \in CacheCallers, NEW me, Fresh(me, version'),
         caller' = [caller EXCEPT ![c] = me], version' \in Nat, version' >= version
  PROVE  \A d \in CacheCallers : Fresh(caller'[d], version')
<1>1. DOMAIN caller = CacheCallers /\ version \in Nat  BY DEF FreshInv, CacheInv
<1>2. caller'[c] = me /\ \A d \in CacheCallers \ {c} : caller'[d] = caller[d]  BY <1>1
<1>3. ASSUME NEW d \in CacheCallers \ {c}  PROVE  Fresh(caller'[d], version')
  <2>1. Fresh(caller[d], version)  BY DEF FreshInv
  <2>2. caller[d].began <= version'  BY <1>1, <2>1 DEF Fresh
  <2> QED  BY <1>2, <2>1, <2>2 DEF Fresh
<1> QED  BY <1>2, <1>3

LEMMA IdleIsFresh ==
  ASSUME NEW now \in Nat
  PROVE  Fresh(C!Idle, now)
BY DEF C!Idle, C!NoAnswer, C!Request, Fresh

\* A change of what stands in a caller, its load being the same.
LEMMA FreshChange ==
  ASSUME FreshInv, NEW c \in CacheCallers, NEW change, C!Do(c, change), UNCHANGED version,
         DOMAIN change \subseteq Fields, {"want", "began"} \cap DOMAIN change = {},
         Fresh(C!Joined(change, caller[c]), version)
  PROVE  \A d \in CacheCallers : Fresh(caller'[d], version')
<1>1. caller' = [caller EXCEPT ![c] = C!Joined(change, caller[c])]  BY DEF C!Do
<1>2. version' = version /\ version \in Nat  BY DEF FreshInv
<1>3. version' >= version  BY <1>2
<1> HIDE DEF FreshInv
<1> QED  BY <1>1, <1>2, <1>3, OneFresh

\* What an answer is added to is as fresh as the answer.
LEMMA TakenIsFresh ==
  ASSUME FreshInv, NEW c \in CacheCallers, NEW answer, answer.to = caller[c].ask,
         C!Took(c, answer), UNCHANGED version,
         caller[c].want.policy = "Refresh" /\ caller[c].ask.name # "get_user_info" =>
           \A v \in answer.ats : v >= caller[c].began
  PROVE  \A d \in CacheCallers : Fresh(caller'[d], version')
<1> DEFINE me == caller[c]
           ask == C!Follow(c, answer)
           episodes == ask.name = "get_episodes"
           change ==
             [at |-> IF ask = C!NoAnswer.to THEN "idle" ELSE "reading", ask |-> ask,
              answer |-> C!NoAnswer, page |-> IF episodes THEN answer ELSE C!NoAnswer,
              items |-> IF episodes THEN me.items ELSE me.items \o answer.items,
              ats |-> IF ask.name = "get_section" THEN {} ELSE me.ats \cup answer.ats,
              own |-> me.own /\ answer.to = me.ask]
           new == C!Joined(change, me)
<1>1. GoodCaller(me) /\ DOMAIN me = Fields /\ Fresh(me, version)
  BY DEF FreshInv, CacheInv, GoodCaller
<1>2. /\ ask.name \notin {"get_image", "get_user_info"}
      /\ me.ask.name = "get_user_info" => ask.name = "get_section"
  <2>1. ASSUME NEW page, page.to.name \in C!PagedByKey, IsRequest(page.to)
        PROVE  [page.to EXCEPT !.offset = @ + Limit].name \in C!PagedByKey
    BY <2>1 DEF IsRequest
  <2>2. ASSUME me.ask.name = "get_user_info"
        PROVE  ask.name = "get_section"
    <3>1. caller[c].ask.name = "get_user_info"  BY <2>2
    <3> HIDE DEF me, change, new
    <3>2. ask = C!Request("get_section", caller[c].want.arg \o <<C!ToString(answer.ats)>>)
      BY <3>1 DEF C!Follow, C!PagedByKey
    <3> QED  BY <3>2 DEF C!Request
  <2>3. ask.name \notin {"get_image", "get_user_info"}
    BY <2>1 DEF C!Follow, C!Request, C!NoAnswer, C!PagedByKey
  <2> QED  BY <2>2, <2>3
<1>3. C!Do(c, change)  BY DEF C!Took
<1>4. /\ DOMAIN change = {"at", "ask", "answer", "page", "items", "ats", "own"}
      /\ change.at \in {"idle", "reading"} /\ change.ask = ask
      /\ change.page \in {C!NoAnswer, answer} /\ (change.page # C!NoAnswer => episodes)
      /\ change.ats = IF ask.name = "get_section" THEN {} ELSE me.ats \cup answer.ats
  OBVIOUS
<1> HIDE DEF change
<1>5. /\ new.at = change.at /\ new.ask = ask /\ new.page = change.page /\ new.ats = change.ats
      /\ new.want = me.want /\ new.began = me.began
  <2>1. DOMAIN change \subseteq Fields /\ {"want", "began"} \subseteq Fields \ DOMAIN change
    BY <1>4 DEF Fields
  <2>2. {"at", "ask", "page", "ats"} \subseteq DOMAIN change  BY <1>4
  <2> HIDE DEF ask, me
  <2>3. /\ \A f \in DOMAIN change : new[f] = change[f]
        /\ \A f \in Fields \ DOMAIN change : new[f] = me[f]
    BY <1>1, <2>1, FieldsChange
  <2> HIDE DEF new
  <2> QED  BY <1>4, <2>1, <2>2, <2>3
<1> HIDE DEF new, ask, me
<1>6. Fresh(new, version)
  <2>1. new.began \in Nat /\ new.began <= version /\ new.ask.name # "get_image"
        /\ (new.want.policy = "Refresh" => new.want.name # "get_image")
    BY <1>1, <1>2, <1>5 DEF Fresh
  <2>2. ASSUME new.want.policy = "Refresh"
        PROVE  \A v \in new.ats : v >= new.began
    BY <1>1, <1>2, <1>4, <1>5, <2>2 DEF Fresh, me
  <2>3. ASSUME new.want.policy = "Refresh"
        PROVE  \A v \in new.page.ats : v >= new.began
    <3>1. CASE new.page = C!NoAnswer  BY <3>1 DEF C!NoAnswer
    <3>2. CASE new.page # C!NoAnswer
      BY <1>2, <1>4, <1>5, <2>3, <3>2 DEF me
    <3> QED  BY <3>1, <3>2
  <2> QED  BY <1>2, <1>4, <1>5, <2>1, <2>2, <2>3 DEF Fresh
<1>7. DOMAIN change \subseteq Fields /\ {"want", "began"} \cap DOMAIN change = {}
  BY <1>4 DEF Fields
<1> QED  BY <1>3, <1>6, <1>7, FreshChange DEF new, me

\* A step of a load that only says where it is.
LEMMA PlaceIsFresh ==
  ASSUME FreshInv, NEW c \in CacheCallers, NEW place, C!Do(c, [at |-> place]), UNCHANGED version,
         place # "idle", place \in {"storing", "writing"} => caller[c].at \in {"storing", "writing"}
  PROVE  \A d \in CacheCallers : Fresh(caller'[d], version')
<1> DEFINE change == [at |-> place]
           new == C!Joined(change, caller[c])
<1>1. Fresh(caller[c], version) /\ DOMAIN caller[c] = Fields
  BY DEF FreshInv, CacheInv, GoodCaller
<1>2. DOMAIN change = {"at"} /\ change.at = place  OBVIOUS
<1>3. C!Do(c, change)  OBVIOUS
<1> HIDE DEF change
<1>4. DOMAIN change \subseteq Fields /\ {"want", "began"} \cap DOMAIN change = {}
      /\ {"ask", "want", "began", "ats", "page", "answer"} \subseteq Fields \ DOMAIN change
  BY <1>2 DEF Fields
<1>5. /\ new.at = place /\ new.ask = caller[c].ask /\ new.want = caller[c].want
      /\ new.began = caller[c].began /\ new.ats = caller[c].ats /\ new.page = caller[c].page
      /\ new.answer = caller[c].answer
  <2>1. /\ \A f \in DOMAIN change : new[f] = change[f]
        /\ \A f \in Fields \ DOMAIN change : new[f] = caller[c][f]
    BY <1>1, <1>4, FieldsChange
  <2> HIDE DEF new
  <2> QED  BY <1>2, <1>4, <2>1
<1>6. Fresh(new, version)
  <2> HIDE DEF new
  <2> QED  BY <1>1, <1>5 DEF Fresh
<1> QED  BY <1>3, <1>4, <1>6, FreshChange

LEMMA LoadIsFresh ==
  ASSUME C!CacheAssumption, FreshInv, NEW c \in CacheCallers, NEW want \in Wants, C!Load(c, want)
  PROVE  \A d \in CacheCallers : Fresh(caller'[d], version')
<1>1. PICK r \in C!First(want) :
        caller' = [caller EXCEPT ![c] =
          [C!Idle EXCEPT !.at = "reading", !.want = want, !.ask = r, !.began = version]]
  BY DEF C!Load
<1> DEFINE me == [C!Idle EXCEPT !.at = "reading", !.want = want, !.ask = r, !.began = version]
<1>2. r.name \in {"get_user_info", want.name}
  <2>1. CASE want.name = "get_section"
    BY <2>1 DEF C!First, C!Request
  <2>2. CASE want.name = "get_recommendations"
    <3>1. PICK order \in {"one way", "the other"} :
            r = C!Request(want.name, want.arg \o <<order>>)
      BY <2>2 DEF C!First
    <3>2. C!Request(want.name, want.arg \o <<order>>).name = want.name  BY DEF C!Request
    <3> QED  BY <3>1, <3>2
  <2>3. CASE want.name \notin {"get_section", "get_recommendations"}
    <3>1. r = C!Request(want.name, want.arg)  BY <2>3 DEF C!First
    <3>2. C!Request(want.name, want.arg).name = want.name  BY DEF C!Request
    <3> QED  BY <3>1, <3>2
  <2> QED  BY <2>1, <2>2, <2>3
<1>3. /\ me.began = version /\ me.want = want /\ me.ask = r /\ me.at = "reading"
      /\ me.ats = {} /\ me.page.ats = {}
  BY DEF C!Idle, C!NoAnswer
<1>4. version' = version /\ version' \in Nat /\ version' >= version  BY DEF C!Load, FreshInv
<1>5. want.policy = "Refresh" => want.name # "get_image"  BY DEF C!CacheAssumption
<1>6. caller' = [caller EXCEPT ![c] = me]  BY <1>1
<1> HIDE DEF me
<1>7. Fresh(me, version')  BY <1>2, <1>3, <1>4, <1>5 DEF Fresh
<1> QED  BY <1>4, <1>6, <1>7, OneFresh

LEMMA AnsweredIsFresh ==
  ASSUME FreshInv, NEW c \in CacheCallers, NEW ok \in BOOLEAN, C!Answered(c, ok)
  PROVE  \A d \in CacheCallers : Fresh(caller'[d], version')
<1> DEFINE me == caller[c]
           r == me.ask
           store == [at |-> "storing", answer |-> C!Says(r)]
           ahead == [ask |-> [r EXCEPT !.offset = @ + Limit], page |-> C!Gathered(c)]
           keep == [at |-> "storing", ask |-> C!Gathered(c).to, answer |-> C!Gathered(c),
                    page |-> C!NoAnswer]
<1>1. GoodCaller(me) /\ DOMAIN me = Fields /\ Fresh(me, version) /\ version \in Nat
  BY DEF FreshInv, CacheInv, GoodCaller
<1>2. me.at = "asking" /\ version' = version /\ Asked(r)
  BY <1>1 DEF C!Answered, GoodCaller, Busy
<1>3. C!Says(r).to = r /\ C!Says(r).ats = {version}  BY DEF C!Says
<1>4. /\ C!Gathered(c).to = C!Request(r.name, r.arg)
      /\ C!Gathered(c).ats = {version} \cup me.page.ats
  BY <1>3 DEF C!Gathered, C!Says
<1>5. ASSUME NEW change, C!Do(c, change), DOMAIN change \subseteq Fields,
             {"want", "began", "ats"} \cap DOMAIN change = {},
             "at" \in DOMAIN change => change.at = "storing",
             "ask" \in DOMAIN change => change.ask.name = r.name,
             "page" \in DOMAIN change => change.page.ats \subseteq {version} \cup me.page.ats,
             IF "answer" \in DOMAIN change THEN change.answer.ats \subseteq {version} \cup me.page.ats
             ELSE "at" \notin DOMAIN change
      PROVE  \A d \in CacheCallers : Fresh(caller'[d], version')
  <2> DEFINE new == C!Joined(change, me)
  <2>1. /\ \A f \in DOMAIN change : new[f] = change[f]
        /\ \A f \in Fields \ DOMAIN change : new[f] = me[f]
    BY <1>1, <1>5, FieldsChange
  <2> HIDE DEF new, me
  <2>2. new.want = me.want /\ new.began = me.began /\ new.ats = me.ats
    BY <1>5, <2>1 DEF Fields
  <2>3. new.ask.name = r.name
    BY <1>5, <2>1 DEF Fields
  <2>4. new.page.ats \subseteq {version} \cup me.page.ats
    BY <1>5, <2>1 DEF Fields
  <2>5. new.at \in {"storing", "writing"} => new.answer.ats \subseteq {version} \cup me.page.ats
    BY <1>2, <1>5, <2>1 DEF Fields
  <2>6. new.at # "idle"
    BY <1>2, <1>5, <2>1 DEF Fields
  <2>7. Fresh(new, version)
    BY <1>1, <2>2, <2>3, <2>4, <2>5, <2>6 DEF Fresh
  <2> QED  BY <1>2, <1>5, <2>7, FreshChange DEF new, me
<1>6. ASSUME C!Do(c, store)
      PROVE  \A d \in CacheCallers : Fresh(caller'[d], version')
  <2>1. DOMAIN store = {"at", "answer"} /\ store.at = "storing" /\ store.answer = C!Says(r)
    OBVIOUS
  <2> HIDE DEF store, me
  <2> QED  BY <1>3, <1>5, <1>6, <2>1 DEF Fields
<1>7. ASSUME C!Do(c, ahead)
      PROVE  \A d \in CacheCallers : Fresh(caller'[d], version')
  <2>1. DOMAIN ahead = {"ask", "page"} /\ ahead.ask = [r EXCEPT !.offset = @ + Limit]
        /\ ahead.page = C!Gathered(c)
    OBVIOUS
  <2>2. ahead.ask.name = r.name
    BY <1>2, <2>1 DEF Asked, IsRequest
  <2> HIDE DEF ahead, me
  <2> QED  BY <1>4, <1>5, <1>7, <2>1, <2>2 DEF Fields
<1>8. ASSUME C!Do(c, keep)
      PROVE  \A d \in CacheCallers : Fresh(caller'[d], version')
  <2>1. DOMAIN keep = {"at", "ask", "answer", "page"} /\ keep.at = "storing"
        /\ keep.ask.name = r.name /\ keep.answer = C!Gathered(c) /\ keep.page.ats = {}
    BY <1>4 DEF C!Request, C!NoAnswer
  <2> HIDE DEF keep, me
  <2> QED  BY <1>4, <1>5, <1>8, <2>1 DEF Fields
<1>9. ASSUME C!Fail(c)
      PROVE  \A d \in CacheCallers : Fresh(caller'[d], version')
  <2>1. version' \in Nat /\ version' >= version  BY <1>1, <1>2
  <2>2. caller' = [caller EXCEPT ![c] = C!Idle] /\ Fresh(C!Idle, version')
    BY <1>9, <2>1, IdleIsFresh DEF C!Fail
  <2> QED  BY <2>1, <2>2, OneFresh
<1>10. C!Fail(c) \/ C!Do(c, store) \/ C!Do(c, ahead) \/ C!Do(c, keep)
  BY DEF C!Answered
<1> QED  BY <1>6, <1>7, <1>8, <1>9, <1>10

\* What a refresh looks up is asked for, but where the user is.
LEMMA ReadIsFresh ==
  ASSUME FreshInv, NEW c \in CacheCallers, C!ReadImage(c) \/ C!Read(c)
  PROVE  \A d \in CacheCallers : Fresh(caller'[d], version')
<1> DEFINE r == caller[c].ask
<1>1. /\ GoodCaller(caller[c]) /\ Fresh(caller[c], version) /\ version' = version /\ version \in Nat
      /\ caller[c].at = "reading" /\ LookedUp(r)
  BY DEF FreshInv, CacheInv, GoodCaller, Busy, C!ReadImage, C!Read
<1>2. CASE C!ReadImage(c)
  <2>1. PICK i \in C!Shown(r) : C!Took(c, images[i])
    BY <1>2 DEF C!ReadImage
  <2>2. r.name = "get_image" /\ images[i].to = r  BY <2>1 DEF C!Shown
  <2>3. caller[c].want.policy # "Refresh"  BY <1>1, <2>2 DEF Fresh
  <2> QED  BY <1>1, <2>1, <2>2, <2>3, TakenIsFresh
<1>3. CASE C!Policy(c) = "Use" /\ C!Here(r) /\ ~C!File(r).torn /\ C!Took(c, C!File(r).answer)
  <2>1. C!Entry(r) \in DOMAIN stored /\ C!File(r) = stored[C!Entry(r)]
    BY <1>3 DEF C!Here, C!File
  <2>2. LookedUp(C!File(r).answer.to) /\ C!Entry(C!File(r).answer.to) = C!Entry(r)
    BY <1>3, <2>1 DEF FreshInv, CacheInv, Holds
  <2>3. C!File(r).answer.to = r
    BY <1>1, <2>2, EntriesApart
  <2>4. ~(caller[c].want.policy = "Refresh" /\ r.name # "get_user_info")
    BY <1>3 DEF C!Policy
  <2> QED  BY <1>1, <1>3, <2>3, <2>4, TakenIsFresh
<1>4. CASE C!Fail(c)
  <2>1. version' \in Nat /\ version' >= version  BY <1>1
  <2>2. caller' = [caller EXCEPT ![c] = C!Idle] /\ Fresh(C!Idle, version')
    BY <1>4, <2>1, IdleIsFresh DEF C!Fail
  <2> QED  BY <2>1, <2>2, OneFresh
<1>5. CASE C!Do(c, [at |-> "asking"])
  BY <1>1, <1>5, PlaceIsFresh
<1> QED  BY <1>2, <1>3, <1>4, <1>5 DEF C!Read

LEMMA FreshStep ==
  ASSUME C!CacheAssumption, FreshInv, [C!Next]_C!vars
  PROVE  FreshInv'
<1>1. CacheInv /\ version \in Nat /\ \A c \in CacheCallers : Fresh(caller[c], version)
  BY DEF FreshInv
<1>2. CacheInv'  BY <1>1, CacheStep
<1>3. version' \in Nat /\ version' >= version
  <2>1. version' \in {version, version + 1}
    <3>1. ASSUME NEW c \in CacheCallers,
                 \/ C!ReadImage(c) \/ C!Read(c) \/ C!Truncate(c) \/ C!Write(c) \/ C!ClearBucket(c)
                 \/ \E want \in Wants : C!Load(c, want)
                 \/ \E ok \in BOOLEAN : C!Answered(c, ok)
          PROVE  version' = version
      BY <3>1, Zenon
         DEF C!ReadImage, C!Read, C!Truncate, C!Write, C!ClearBucket, C!Load, C!Answered
    <3>2. ASSUME NEW c \in CacheCallers, NEW name \in Edits, C!Change(c, name)
          PROVE  version' = version + 1
      BY <3>2 DEF C!Change
    <3>3. C!Elsewhere => version' = version + 1  BY DEF C!Elsewhere
    <3>4. C!Kill \/ UNCHANGED C!vars => version' = version  BY DEF C!Kill, C!vars
    <3> QED  BY <3>1, <3>2, <3>3, <3>4 DEF C!Next
  <2> QED  BY <1>1, <2>1
<1>4. ASSUME NEW c \in CacheCallers,
             \/ C!ReadImage(c) \/ C!Read(c) \/ C!Truncate(c) \/ C!Write(c) \/ C!ClearBucket(c)
             \/ \E want \in Wants : C!Load(c, want)
             \/ \E name \in Edits : C!Change(c, name)
             \/ \E ok \in BOOLEAN : C!Answered(c, ok)
      PROVE  \A d \in CacheCallers : Fresh(caller'[d], version')
  <2>1. CASE C!Truncate(c)
    BY <2>1, PlaceIsFresh DEF C!Truncate
  <2>2. CASE C!Write(c)
    <3>1. C!Took(c, caller[c].answer) /\ caller[c].at = "writing" /\ version' = version
      BY <2>2 DEF C!Write
    <3>2. caller[c].answer.to = caller[c].ask /\ Fresh(caller[c], version)
      BY <1>1, <3>1 DEF CacheInv, GoodCaller, Busy
    <3>3. caller[c].want.policy = "Refresh" /\ caller[c].ask.name # "get_user_info" =>
            \A v \in caller[c].answer.ats : v >= caller[c].began
      BY <3>1, <3>2 DEF Fresh
    <3> QED  BY <3>1, <3>2, <3>3, TakenIsFresh
  <2>3. CASE C!ClearBucket(c)
    BY <1>3, <2>3, IdleIsFresh, OneFresh DEF C!ClearBucket, C!Fail
  <2>4. ASSUME NEW name \in Edits, C!Change(c, name)
        PROVE  \A d \in CacheCallers : Fresh(caller'[d], version')
    <3> DEFINE me == [C!Idle EXCEPT !.at = "clearing", !.want.name = name]
    <3>1. caller' = [caller EXCEPT ![c] = me]  BY <2>4 DEF C!Change
    <3>2. me.began = 0 /\ me.ask.name = "none" /\ me.want.policy = "Use"
      BY DEF C!Idle, C!NoAnswer, C!Request
    <3> HIDE DEF me
    <3>3. Fresh(me, version')  BY <1>3, <3>2 DEF Fresh
    <3> QED  BY <1>3, <3>1, <3>3, OneFresh
  <2> QED
    BY <1>4, <2>1, <2>2, <2>3, <2>4, ReadIsFresh, LoadIsFresh, AnsweredIsFresh
<1>5. ASSUME C!Elsewhere
      PROVE  \A d \in CacheCallers : Fresh(caller'[d], version')
  <2>1. caller' = caller  BY <1>5 DEF C!Elsewhere
  <2>2. \A c \in CacheCallers : caller[c].began <= version'
    BY <1>1, <1>3 DEF Fresh
  <2> QED  BY <1>1, <2>1, <2>2 DEF Fresh
<1>6. ASSUME C!Kill
      PROVE  \A d \in CacheCallers : Fresh(caller'[d], version')
  <2>1. caller' = [c \in CacheCallers |-> C!Idle]  BY <1>6 DEF C!Kill
  <2> QED  BY <1>3, <2>1, IdleIsFresh
<1>7. ASSUME UNCHANGED C!vars
      PROVE  \A d \in CacheCallers : Fresh(caller'[d], version')
  <2>1. caller' = caller /\ version' = version  BY <1>7 DEF C!vars
  <2> QED  BY <1>1, <2>1
<1>8. \A d \in CacheCallers : Fresh(caller'[d], version')
  BY <1>4, <1>5, <1>6, <1>7 DEF C!Next
<1> QED  BY <1>2, <1>3, <1>8 DEF FreshInv

\* A refresh shows nothing older than the moment it was asked for, in any page and in any
\* part of a page (refresh_show_episodes and refresh_artist_albums, through load_cached with
\* CachePolicy::Refresh): whatever else is loaded, cached and changed meanwhile.
THEOREM RefreshesAreFresh == C!Spec => []RefreshIsFresh
<1>1. C!Init => FreshInv
  <2>1. ASSUME C!Init  PROVE  CacheInv /\ version = 1 /\ caller = [c \in CacheCallers |-> C!Idle]
    BY <2>1, CacheStarts DEF C!Init
  <2> QED  BY <2>1, IdleIsFresh DEF FreshInv
<1>2. FreshInv /\ [C!Next]_C!vars => FreshInv'  BY FreshStep, WebCacheAssumption
<1>3. FreshInv => RefreshIsFresh
  <2> SUFFICES ASSUME FreshInv, NEW c \in CacheCallers, C!Done(c), caller[c].want.policy = "Refresh",
                      caller[c].at = "idle"
               PROVE  \A v \in caller[c].ats : v >= caller[c].began
    BY DEF RefreshIsFresh, C!RefreshIsFresh, C!Done
  <2> QED  BY DEF FreshInv, Fresh
<1> QED  BY <1>1, <1>2, <1>3, PTL DEF C!Spec
=============================================================================
