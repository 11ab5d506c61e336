------------------------------ MODULE Breaker ------------------------------
(***************************************************************************)
(* The circuit breaker of one scope (a Provider or a Channel) as it is     *)
(* kept in one Redis hash: what the scripts gate_and_acquire.lua,          *)
(* finish.lua and reset.lua read from it and write to it.  A scope is a    *)
(* value; the modules that keep scopes as state apply these operators.     *)
(* Times are ticks still to run, so "now < t" reads "ticks left > 0".      *)
(***************************************************************************)
EXTENDS Naturals, Sequences

CONSTANTS
    NoPermit,             \* the half_open_permit_id field is absent
    OpenDurations,        \* circuit_breaker.open_durations_ms, in ticks
    ConsecutiveFailures,  \* circuit_breaker.consecutive_failures
    MinRequests,          \* circuit_breaker.min_requests
    RatioNum, RatioDen,   \* circuit_breaker.failure_ratio as a fraction
    HalfOpenSuccesses     \* circuit_breaker.half_open_successes

ASSUME BreakerAssumption ==
    /\ OpenDurations \in Seq(Nat \ {0})
    /\ OpenDurations # << >>
    /\ ConsecutiveFailures \in Nat \ {0}
    /\ MinRequests \in Nat \ {0}
    /\ RatioNum \in Nat
    /\ RatioDen \in Nat \ {0}
    /\ HalfOpenSuccesses \in Nat \ {0}

BreakerStates == {"closed", "open", "half_open"}

Outcomes == {"eligible_success", "eligible_failure", "ignored"}

\* A closed scope without samples: what every reset, rotation and recovery writes.
FreshScope(gen) ==
    [state |-> "closed", gen |-> gen, openFor |-> 0, level |-> 0,
     holder |-> NoPermit, probeFor |-> 0, hos |-> 0,
     succ |-> 0, fail |-> 0, cef |-> 0]

ResetScope(s) == FreshScope(s.gen + 1)

(* The verdict of the gate: pass without a probe, take the probe, or one   *)
(* of the two denials.                                                     *)
Gate(s, enabled) ==
    CASE ~enabled \/ s.state = "closed"                  -> "pass"
      [] enabled /\ s.state = "open" /\ s.openFor > 0    -> "open"
      [] enabled /\ s.state = "half_open"
                 /\ s.holder # NoPermit /\ s.probeFor > 0 -> "half_open_busy"
      [] OTHER                                           -> "probe"

\* take_probe: only the step out of "open" advances the generation.
TakeProbe(s, p, ttl) ==
    LET h == IF s.state = "half_open" THEN s
             ELSE [s EXCEPT !.state = "half_open", !.gen = @ + 1, !.hos = 0]
    IN  [h EXCEPT !.holder = p, !.probeFor = ttl]

ReleaseProbe(s) == [s EXCEPT !.holder = NoPermit, !.probeFor = 0]

\* next_open_until and the write that opens the breaker.
Trip(s) ==
    LET n   == Len(OpenDurations)
        idx == IF s.level + 1 > n THEN n ELSE s.level + 1
    IN  [s EXCEPT !.state = "open", !.gen = @ + 1, !.hos = 0,
                  !.openFor = OpenDurations[idx],
                  !.level = IF s.level + 1 < n - 1 THEN s.level + 1 ELSE n - 1]

\* The outcome of the permit that still owns a live half-open lease.
ApplyProbe(s, outcome) ==
    CASE outcome = "eligible_success" /\ s.hos + 1 >= HalfOpenSuccesses -> ResetScope(s)
      [] outcome = "eligible_success" /\ s.hos + 1 < HalfOpenSuccesses ->
            ReleaseProbe([s EXCEPT !.hos = @ + 1])
      [] outcome = "eligible_failure" -> ReleaseProbe(Trip(s))
      [] outcome = "ignored"          -> ReleaseProbe(s)

Fires(s) ==
    \/ s.cef >= ConsecutiveFailures
    \/ /\ s.succ + s.fail >= MinRequests
       /\ s.fail * RatioDen >= RatioNum * (s.succ + s.fail)

(* The outcome of an ordinary permit.  windowOver: window_ms has passed    *)
(* since the window began; streakOver: the previous failure lies outside   *)
(* consecutive_window_ms.                                                  *)
ApplyWindow(s, outcome, windowOver, streakOver) ==
    LET w == IF windowOver THEN [s EXCEPT !.succ = 0, !.fail = 0] ELSE s
        f == [w EXCEPT !.fail = @ + 1, !.cef = IF streakOver THEN 1 ELSE @ + 1]
    IN  CASE outcome = "eligible_success" -> [w EXCEPT !.succ = @ + 1, !.cef = 0]
          [] outcome = "eligible_failure" -> IF Fires(f) THEN Trip(f) ELSE f
          [] outcome = "ignored"          -> w

\* Mutant: the generation of the permit is not compared.
ApplyAnyGeneration(s, p, gen, probe, outcome, windowOver, streakOver) ==
    IF probe
    THEN IF s.holder = p /\ s.probeFor > 0 THEN ApplyProbe(s, outcome) ELSE s
    ELSE IF s.state = "open" THEN s ELSE ApplyWindow(s, outcome, windowOver, streakOver)

(* apply_scope: a permit of another generation changes nothing, a probe    *)
(* whose lease was taken over or ran out changes nothing, and a scope that *)
(* is open counts nothing.                                                 *)
ApplyScope(s, p, gen, probe, outcome, windowOver, streakOver) ==
    CASE s.gen # gen -> s
      [] s.gen = gen /\ probe ->
            IF s.holder = p /\ s.probeFor > 0 THEN ApplyProbe(s, outcome) ELSE s
      [] s.gen = gen /\ ~probe ->
            IF s.state = "open" THEN s ELSE ApplyWindow(s, outcome, windowOver, streakOver)

Less(n) == IF n = 0 THEN 0 ELSE n - 1

\* One tick of the Redis clock.
TickScope(s) == [s EXCEPT !.openFor = Less(@), !.probeFor = Less(@)]
=============================================================================
