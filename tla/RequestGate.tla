---- MODULE RequestGate ----
(* How the web API client admits and repeats requests                        *)
(* (spotix-gui/src/webapi/client.rs).  Threads of the GUI call `request` or  *)
(* `rspotify_call`; each holds one of MaxInFlight permits from the gate      *)
(* until it returns, asleep or not.  A 429 answer starts a cooldown that all *)
(* callers share and that a file carries over a restart.                     *)
(*                                                                           *)
(* Durations count down: Tick takes one unit from every clock that runs, so  *)
(* time is unbounded and the state finite.  The monotonic and the wall clock *)
(* are taken to run at the same speed, which makes cooldown_until and        *)
(* cooldown_until_wall one value; 0 is `None` or passed.                     *)
EXTENDS Integers, FiniteSets

CONSTANTS Callers,      \* threads that call the web API
          MaxInFlight,  \* permits of the gate (8 in the code)
          MaxAttempts,  \* repetitions of with_retry (5)
          MinDelay,     \* MIN_429_DELAY (5 s)
          MaxExp,       \* largest exponent of the cooldown (6)
          MaxDelay,     \* MAX_DELAY_SECS (an hour)
          RetryAfters,  \* values of the Retry-After header, 0 when there is none
          Second,       \* units of time in a second, the precision of the file
          MaxCalls      \* bound on the calls made

ASSUME GateAssumption == IsFiniteSet(Callers) /\ MaxInFlight \in Nat \ {0}
ASSUME LimiterAssumption ==
    /\ MaxAttempts \in Nat /\ MinDelay \in Nat /\ MaxExp \in Nat /\ MaxDelay \in Nat
    /\ RetryAfters \subseteq Nat /\ Second \in Nat \ {0} /\ MaxCalls \in Nat

VARIABLES pc,          \* where each caller is
          inFlight,    \* RequestGateState::in_flight
          attempts,    \* repetitions each caller has left
          wake,        \* what is left of each caller's sleep
          cooldown,    \* RateLimiter: what is left of the cooldown
          consecutive, \* RateLimiter::consecutive_429, as far as it counts
          file,        \* what is left of the cooldown on disk
          unreadable,  \* has the file been cut short, so that it cannot be read?
          announced,   \* what is left of the pause Spotify last asked for
          early,       \* callers past their look at the cooldown as it was asked for
          calls        \* calls made so far
vars == <<pc, inFlight, attempts, wake, cooldown, consecutive, file, unreadable,
          announced, early, calls>>

limiter == <<cooldown, consecutive, file, unreadable, announced>>

\* The points of a call where another thread can step in.  From "checking" to
\* "backoff" the caller holds a permit.
Holding == {"checking", "cooling", "sending", "awaiting", "backoff"}
Points == {"idle", "arriving", "waiting", "notified"} \cup Holding
At(points) == {c \in Callers : pc[c] \in points}

Less(a, b) == IF a < b THEN a ELSE b
More(a, b) == IF a < b THEN b ELSE a

TypeOK ==
    /\ pc \in [Callers -> Points] /\ inFlight \in Nat
    /\ attempts \in [Callers -> 0..MaxAttempts] /\ wake \in [Callers -> 0..MaxDelay]
    /\ cooldown \in 0..MaxDelay /\ file \in 0..MaxDelay /\ announced \in 0..MaxDelay
    /\ consecutive \in 0..(MaxExp + 1) /\ calls \in 0..MaxCalls
    /\ unreadable \in BOOLEAN /\ early \subseteq Callers

Init ==
    /\ pc = [c \in Callers |-> "idle"] /\ inFlight = 0
    /\ attempts = [c \in Callers |-> 0] /\ wake = [c \in Callers |-> 0]
    /\ cooldown = 0 /\ consecutive = 0 /\ file = 0 /\ unreadable = FALSE
    /\ announced = 0 /\ early = {} /\ calls = 0

Goto(c, point) == pc' = [pc EXCEPT ![c] = point]

\* request, which may repeat the exchange, or rspotify_call, which may not.
Call(c, repeats) ==
    /\ pc[c] = "idle" /\ calls < MaxCalls
    /\ Goto(c, "arriving")
    /\ attempts' = [attempts EXCEPT ![c] = repeats]
    /\ calls' = calls + 1
    /\ UNCHANGED <<inFlight, wake, limiter, early>>

\* Mutant: the woken caller does not look at the counter again.
AcquireOnce(c) ==
    /\ \/ pc[c] = "arriving" /\ inFlight >= MaxInFlight /\ Goto(c, "waiting") /\ UNCHANGED inFlight
       \/ pc[c] = "arriving" /\ inFlight < MaxInFlight /\ Goto(c, "checking") /\ inFlight' = inFlight + 1
       \/ pc[c] = "notified" /\ Goto(c, "checking") /\ inFlight' = inFlight + 1
    /\ UNCHANGED <<attempts, wake, limiter, early, calls>>

\* The loop of `acquire`: a caller that was notified checks again, and may find
\* that a newcomer took the permit.
Acquire(c) ==
    /\ pc[c] \in {"arriving", "notified"}
    /\ \/ inFlight >= MaxInFlight /\ Goto(c, "waiting") /\ UNCHANGED inFlight
       \/ inFlight < MaxInFlight /\ Goto(c, "checking") /\ inFlight' = inFlight + 1
    /\ UNCHANGED <<attempts, wake, limiter, early, calls>>

\* Mutant: nobody is notified.
ReleaseQuietly(c) == inFlight' = More(inFlight - 1, 0) /\ Goto(c, "idle")

\* Drop of the permit as the call returns: one waiting caller is notified.
Release(c) ==
    /\ inFlight' = More(inFlight - 1, 0)
    /\ IF At({"waiting"}) = {} THEN Goto(c, "idle")
       ELSE \E w \in At({"waiting"}) : pc' = [pc EXCEPT ![c] = "idle", ![w] = "notified"]

\* wait_for_rate_limit looks at the cooldown once, then sleeps.
Check(c) ==
    /\ pc[c] = "checking"
    /\ Goto(c, IF cooldown > 0 THEN "cooling" ELSE "sending")
    /\ wake' = [wake EXCEPT ![c] = cooldown]
    /\ UNCHANGED <<inFlight, attempts, limiter, early, calls>>

Cooled(c) ==
    /\ pc[c] = "cooling" /\ wake[c] = 0
    /\ Goto(c, "sending")
    /\ UNCHANGED <<inFlight, attempts, wake, limiter, early, calls>>

Send(c) ==
    /\ pc[c] = "sending"
    /\ Goto(c, "awaiting")
    /\ early' = early \ {c}
    /\ UNCHANGED <<inFlight, attempts, wake, limiter, calls>>

\* clear_rate_limit, memory and file: the pause is lifted.
ClearRateLimit ==
    /\ cooldown' = 0 /\ consecutive' = 0 /\ file' = 0 /\ unreadable' = FALSE
    /\ announced' = 0 /\ early' = {}

Succeed(c) ==
    /\ pc[c] = "awaiting"
    /\ ClearRateLimit /\ Release(c)
    /\ UNCHANGED <<attempts, wake, calls>>

\* The cooldown after the n-th 429 in a row.
Delay(n, retryAfter) ==
    Less(More(MinDelay * 2 ^ Less(n - 1, MaxExp), retryAfter), MaxDelay)

\* A pause longer than MaxDelay is not kept.
Pause(retryAfter) == IF retryAfter > MaxDelay THEN 0 ELSE retryAfter

\* register_429, which holds the lock of the limiter until the file is written.
\* The file holds whole seconds: what is left of it falls short by a part of a
\* second.  The new cooldown takes the place of the old one, even of a longer one.
Register429(retryAfter) ==
    LET n == consecutive + 1
        delay == Delay(n, retryAfter)
    IN  /\ consecutive' = Less(n, MaxExp + 1)
        /\ cooldown' = delay
        /\ \E part \in 0..(Second - 1) : file' = More(delay - part, 0)
        /\ unreadable' = FALSE
        /\ announced' = Pause(retryAfter) /\ early' = At({"cooling", "sending"})

\* A caller with an attempt left goes to `point`, the others return.
Retry(c, point) ==
    \/ /\ attempts[c] > 0
       /\ attempts' = [attempts EXCEPT ![c] = @ - 1]
       /\ Goto(c, point) /\ UNCHANGED inFlight
    \/ attempts[c] = 0 /\ Release(c) /\ UNCHANGED attempts

RateLimited(c, retryAfter) ==
    /\ pc[c] = "awaiting"
    /\ Register429(retryAfter) /\ Retry(c, "checking")
    /\ UNCHANGED <<wake, calls>>

\* 408, 504 and the transport errors worth a repetition, after a sleep.
TimedOut(c) ==
    /\ pc[c] = "awaiting"
    /\ Retry(c, "backoff")
    /\ UNCHANGED <<wake, limiter, early, calls>>

\* The sleep between attempts lasts any time.
BackedOff(c) ==
    /\ pc[c] = "backoff"
    /\ Goto(c, "checking")
    /\ UNCHANGED <<inFlight, attempts, wake, limiter, early, calls>>

\* Mutant: an early return that keeps the permit.
FailHoldingPermit(c) ==
    /\ pc[c] \in {"sending", "awaiting"}
    /\ Goto(c, "idle")
    /\ early' = early \ {c}
    /\ UNCHANGED <<inFlight, attempts, wake, limiter, calls>>

\* Any other answer, or no access token to send with.
Fail(c) ==
    /\ pc[c] \in {"sending", "awaiting"}
    /\ Release(c)
    /\ early' = early \ {c}
    /\ UNCHANGED <<attempts, wake, limiter, calls>>

\* The user signs in again (clear_rate_limit_state).
SignIn ==
    /\ cooldown > 0
    /\ ClearRateLimit
    /\ UNCHANGED <<pc, inFlight, attempts, wake, calls>>

\* A new process, with the same file.
Relaunched ==
    /\ pc' = [c \in Callers |-> "idle"] /\ inFlight' = 0
    /\ attempts' = [c \in Callers |-> 0] /\ wake' = [c \in Callers |-> 0]
    /\ consecutive' = 0 /\ early' = {}
    /\ UNCHANGED calls

\* Mutant: the program starts without the file.
RestartAfresh == Relaunched /\ cooldown' = 0 /\ UNCHANGED <<file, unreadable, announced>>

\* The program ends at any point and starts again (RateLimiter::from_cache).
Restart == Relaunched /\ cooldown' = file /\ UNCHANGED <<file, unreadable, announced>>

\* The program dies in register_429, after WebApiCache::set has truncated the file
\* and before it is written: load_persisted_cooldown cannot read what is left.
DiesRegistering(c, retryAfter) ==
    /\ pc[c] = "awaiting"
    /\ Relaunched
    /\ cooldown' = 0 /\ file' = 0 /\ unreadable' = TRUE
    /\ announced' = Pause(retryAfter)

Tick ==
    /\ \/ cooldown > 0 \/ file > 0 \/ announced > 0 \/ \E c \in Callers : wake[c] > 0
    /\ cooldown' = More(cooldown - 1, 0) /\ file' = More(file - 1, 0)
    /\ announced' = More(announced - 1, 0)
    /\ wake' = [c \in Callers |-> More(wake[c] - 1, 0)]
    /\ UNCHANGED <<pc, inFlight, attempts, consecutive, unreadable, early, calls>>

Step(c) ==
    \/ Acquire(c) \/ Check(c) \/ Cooled(c) \/ Send(c) \/ Succeed(c) \/ TimedOut(c)
    \/ BackedOff(c) \/ Fail(c) \/ \E r \in RetryAfters : RateLimited(c, r)

Next ==
    \/ \E c \in Callers, repeats \in {0, MaxAttempts} : Call(c, repeats)
    \/ \E c \in Callers : Step(c)
    \/ \E c \in Callers, r \in RetryAfters : DiesRegistering(c, r)
    \/ SignIn \/ Restart \/ Tick

Spec == Init /\ [][Next]_vars

\* The threads run, requests have a timeout, sleeps end.
FairSpec == Spec /\ WF_vars(Tick) /\ \A c \in Callers : WF_vars(Step(c))

(* ---- properties ------------------------------------------------------- *)

\* The counter of the gate is the number of calls that hold a permit, and there
\* are never more than MaxInFlight of them, whoever slips in between a
\* notification and the wake-up of the caller it was meant for.
PermitsCounted == inFlight = Cardinality(At(Holding)) /\ inFlight <= MaxInFlight

\* No wake-up is lost: while a caller waits, the permits in use and the callers
\* notified for a free one account for every permit.
NoLostWakeup ==
    At({"waiting"}) # {} => inFlight + Cardinality(At({"notified"})) >= MaxInFlight

\* No request goes out while the pause that Spotify last asked for with Retry-After
\* lasts, across retries, other calls and restarts, but in the last fraction of a
\* second the file cannot express.  Callers that had looked at the cooldown before
\* the pause was asked for do not look again, and a death that cuts the file short
\* loses the pause; a success and a new login lift it.
PauseIsKept ==
    \A c \in Callers : pc[c] = "sending" /\ c \notin early /\ ~unreadable => announced < Second

\* Every call returns: permits held through cooldowns come back, waiting callers
\* are admitted, and repetitions end.
CallsReturn == \A c \in Callers : (pc[c] = "arriving") ~> (pc[c] = "idle")

====
