------------------------ MODULE AttemptPermitProofs ------------------------
(***************************************************************************)
(* Proofs about AttemptPermit, for every set of permits, channels and      *)
(* models and every limit, lifetime and breaker policy: permits are        *)
(* leases, every outcome counts once and where it belongs, and the         *)
(* concurrency sets implement pools of leased tickets.                     *)
(*                                                                         *)
(* The properties need one another and three facts that they do not state: *)
(* an unused id has no permit (OwnersHaveCalls), an admitted permit        *)
(* carries no later generation than its breakers have (TermsAreOld), and   *)
(* an active one no later fence than the control, nor the fence of a       *)
(* change under way (FencesAreOld): a result that was refused once for a   *)
(* moved generation, binding or fence is refused for good.  Movement says  *)
(* what every step but the loss of Redis has in common.                    *)
(***************************************************************************)
EXTENDS AttemptPermit, FiniteSetTheorems, TLAPS

-----------------------------------------------------------------------------
(* What the scripts do to one breaker hash.                                *)

\* What a script may do to the breaker while it is about permit p: the
\* generation never goes back, and while it stays so do the state and
\* whoever else holds the probe.
Touched(s, t, p) ==
    /\ t.gen \in {s.gen, s.gen + 1}
    /\ t.gen = s.gen => /\ t.state = s.state
                        /\ s.holder # p => t.holder = s.holder /\ t.probeFor = s.probeFor

\* What an outcome adds to the window of a closed breaker.
Counts(s, t) ==
    t.state = "closed" =>
        \/ t.succ + t.fail = 0
        \/ /\ s.state = "closed" /\ t.gen = s.gen
           /\ t.succ + t.fail <= s.succ + s.fail + 1

\* Writing one field of a breaker leaves a breaker.
LEMMA OneField ==
    ASSUME NEW s \in Breakers
    PROVE  /\ \A v \in BreakerStates : [s EXCEPT !.state = v] \in Breakers
           /\ \A v \in Permits \cup {NoPermit} : [s EXCEPT !.holder = v] \in Breakers
           /\ \A n \in 0 .. PermitTTL : [s EXCEPT !.probeFor = n] \in Breakers
           /\ \A n \in Nat : /\ [s EXCEPT !.gen = n] \in Breakers
                             /\ [s EXCEPT !.openFor = n] \in Breakers
                             /\ [s EXCEPT !.level = n] \in Breakers
                             /\ [s EXCEPT !.hos = n] \in Breakers
                             /\ [s EXCEPT !.succ = n] \in Breakers
                             /\ [s EXCEPT !.fail = n] \in Breakers
                             /\ [s EXCEPT !.cef = n] \in Breakers
<1>1. \A v \in BreakerStates : [s EXCEPT !.state = v] \in Breakers
    BY DEF Breakers
<1>2. \A v \in Permits \cup {NoPermit} : [s EXCEPT !.holder = v] \in Breakers
    BY DEF Breakers
<1>3. \A n \in 0 .. PermitTTL : [s EXCEPT !.probeFor = n] \in Breakers
    BY DEF Breakers
<1>4. \A n \in Nat : [s EXCEPT !.gen = n] \in Breakers
    BY DEF Breakers
<1>5. \A n \in Nat : [s EXCEPT !.openFor = n] \in Breakers
    BY DEF Breakers
<1>6. \A n \in Nat : [s EXCEPT !.level = n] \in Breakers
    BY DEF Breakers
<1>7. \A n \in Nat : [s EXCEPT !.hos = n] \in Breakers
    BY DEF Breakers
<1>8. \A n \in Nat : [s EXCEPT !.succ = n] \in Breakers
    BY DEF Breakers
<1>9. \A n \in Nat : [s EXCEPT !.fail = n] \in Breakers
    BY DEF Breakers
<1>10. \A n \in Nat : [s EXCEPT !.cef = n] \in Breakers
    BY DEF Breakers
<1> QED BY <1>1, <1>2, <1>3, <1>4, <1>5, <1>6, <1>7, <1>8, <1>9, <1>10

\* A reset or a rotation writes a fresh breaker of the next generation.
LEMMA ResetTypes ==
    ASSUME NEW s \in Breakers
    PROVE  /\ ResetScope(s) \in Breakers
           /\ ResetScope(s).gen = s.gen + 1
           /\ ResetScope(s).succ + ResetScope(s).fail = 0
    BY PermitAssumption, BreakerAssumption DEF ResetScope, FreshScope, Breakers, BreakerStates

\* A new or restored breaker.
LEMMA FreshTypes ==
    ASSUME NEW n \in Nat
    PROVE  /\ FreshScope(n) \in Breakers
           /\ FreshScope(n).gen = n
           /\ FreshScope(n).succ + FreshScope(n).fail = 0
    BY PermitAssumption, BreakerAssumption DEF FreshScope, Breakers, BreakerStates

\* take_probe: the probe holds a half-open breaker for a lease.
LEMMA TakeProbeFacts ==
    ASSUME NEW s \in Breakers, NEW p \in Permits
    PROVE  LET t == TakeProbe(s, p, PermitTTL)
           IN  /\ t \in Breakers
               /\ t.gen = IF s.state = "half_open" THEN s.gen ELSE s.gen + 1
               /\ t.state = "half_open" /\ t.holder = p /\ t.probeFor = PermitTTL
<1> DEFINE h == IF s.state = "half_open" THEN s
               ELSE [s EXCEPT !.state = "half_open", !.gen = @ + 1, !.hos = 0]
<1>1. h \in Breakers
    <2>1. s.gen + 1 \in Nat /\ "half_open" \in BreakerStates
        BY DEF Breakers, BreakerStates
    <2>2. [s EXCEPT !.state = "half_open"] \in Breakers
        BY <2>1, OneField
    <2>3. [s EXCEPT !.state = "half_open", !.gen = s.gen + 1] \in Breakers
        BY <2>1, <2>2, OneField
    <2>4. [s EXCEPT !.state = "half_open", !.gen = s.gen + 1, !.hos = 0] \in Breakers
        BY <2>3, OneField
    <2>5. h = s \/ h = [s EXCEPT !.state = "half_open", !.gen = s.gen + 1, !.hos = 0]
        BY DEF Breakers
    <2> QED BY <2>4, <2>5
<1>2. /\ h.gen = IF s.state = "half_open" THEN s.gen ELSE s.gen + 1
      /\ h.state = "half_open"
    BY DEF Breakers
<1> HIDE DEF h
<1> DEFINE t == [h EXCEPT !.holder = p, !.probeFor = PermitTTL]
<1>3. t \in Breakers
    <2>1. p \in Permits \cup {NoPermit} /\ PermitTTL \in 0 .. PermitTTL
        BY PermitAssumption
    <2>2. [h EXCEPT !.holder = p] \in Breakers
        BY <1>1, <2>1, OneField
    <2> QED BY <2>1, <2>2, OneField
<1>4. t.gen = h.gen /\ t.state = h.state /\ t.holder = p /\ t.probeFor = PermitTTL
    BY <1>1 DEF Breakers
<1>5. TakeProbe(s, p, PermitTTL) = t
    BY DEF TakeProbe, h
<1> QED BY <1>2, <1>3, <1>4, <1>5

\* The probe goes back without an outcome.
LEMMA ReleaseFacts ==
    ASSUME NEW s \in Breakers
    PROVE  LET t == ReleaseProbe(s)
           IN  /\ t \in Breakers /\ t.gen = s.gen /\ t.state = s.state
               /\ t.succ = s.succ /\ t.fail = s.fail
<1> DEFINE t == [s EXCEPT !.holder = NoPermit, !.probeFor = 0]
<1>1. NoPermit \in Permits \cup {NoPermit} /\ 0 \in 0 .. PermitTTL
    BY PermitAssumption
<1>2. [s EXCEPT !.holder = NoPermit] \in Breakers
    BY <1>1, OneField
<1>3. t \in Breakers
    BY <1>1, <1>2, OneField
<1>4. t.gen = s.gen /\ t.state = s.state /\ t.succ = s.succ /\ t.fail = s.fail
    BY DEF Breakers
<1> QED BY <1>3, <1>4 DEF ReleaseProbe

\* The breaker opens with a later generation.
LEMMA TripFacts ==
    ASSUME NEW s \in Breakers
    PROVE  Trip(s) \in Breakers /\ Trip(s).gen = s.gen + 1 /\ Trip(s).state = "open"
<1> DEFINE n == Len(OpenDurations)
           idx == IF s.level + 1 > n THEN n ELSE s.level + 1
           level == IF s.level + 1 < n - 1 THEN s.level + 1 ELSE n - 1
<1>1. n \in Nat \ {0} /\ DOMAIN OpenDurations = 1 .. n
    BY PermitAssumption, BreakerAssumption
<1>2. s.level \in Nat
    BY DEF Breakers
<1>3. idx \in 1 .. n /\ level \in Nat
    BY <1>1, <1>2
<1>4. OpenDurations[idx] \in Nat
    BY <1>1, <1>3, BreakerAssumption
<1> HIDE DEF n, idx, level
<1> DEFINE t == [s EXCEPT !.state = "open", !.gen = @ + 1, !.hos = 0,
                          !.openFor = OpenDurations[idx], !.level = level]
<1>5. t \in Breakers
    <2>1. s.gen + 1 \in Nat /\ "open" \in BreakerStates
        BY DEF Breakers, BreakerStates
    <2> DEFINE a == [s EXCEPT !.state = "open"]
               b == [a EXCEPT !.gen = s.gen + 1]
               c == [b EXCEPT !.hos = 0]
               d == [c EXCEPT !.openFor = OpenDurations[idx]]
               e == [d EXCEPT !.level = level]
    <2>2. a \in Breakers
        BY <2>1, OneField
    <2>3. b \in Breakers
        BY <2>1, <2>2, OneField
    <2>4. c \in Breakers
        BY <2>3, OneField
    <2>5. d \in Breakers
        BY <1>4, <2>4, OneField
    <2>6. e \in Breakers
        BY <1>3, <2>5, OneField
    <2>7. t = e
        BY DEF Breakers
    <2> QED BY <2>6, <2>7
<1>6. t.gen = s.gen + 1 /\ t.state = "open"
    BY DEF Breakers
<1>7. Trip(s) = t
    BY DEF Trip, n, idx, level
<1> QED BY <1>5, <1>6, <1>7

\* The outcome of the holder of the probe.
LEMMA ApplyProbeFacts ==
    ASSUME NEW s \in Breakers, NEW p \in Permits, NEW o \in Outcomes, s.holder = p
    PROVE  LET t == ApplyProbe(s, o)
           IN  /\ t \in Breakers /\ Touched(s, t, p)
               /\ t.state = "closed" => t.succ + t.fail = 0 \/ (t.gen = s.gen /\ t.succ = s.succ /\ t.fail = s.fail)
<1>0. s.hos \in Nat /\ HalfOpenSuccesses \in Nat /\ s.gen \in Nat
      /\ s.succ \in Nat /\ s.fail \in Nat
    BY PermitAssumption, BreakerAssumption DEF Breakers
<1>1. CASE o = "eligible_success" /\ s.hos + 1 >= HalfOpenSuccesses
    <2>1. ApplyProbe(s, o) = ResetScope(s)
        BY <1>0, <1>1 DEF ApplyProbe
    <2> QED BY <2>1, <1>0, ResetTypes DEF Touched
<1>2. CASE o = "eligible_success" /\ s.hos + 1 < HalfOpenSuccesses
    <2> DEFINE u == [s EXCEPT !.hos = @ + 1]
    <2>1. ApplyProbe(s, o) = ReleaseProbe(u)
        BY <1>0, <1>2 DEF ApplyProbe
    <2>2. u \in Breakers /\ u.gen = s.gen /\ u.state = s.state /\ u.succ = s.succ /\ u.fail = s.fail
        BY DEF Breakers
    <2> HIDE DEF u
    <2> QED BY <1>0, <2>1, <2>2, ReleaseFacts DEF Touched
<1>3. CASE o = "eligible_failure"
    <2>1. ApplyProbe(s, o) = ReleaseProbe(Trip(s))
        BY <1>3 DEF ApplyProbe
    <2>2. Trip(s) \in Breakers /\ Trip(s).gen = s.gen + 1 /\ Trip(s).state = "open"
        BY TripFacts
    <2>3. /\ ReleaseProbe(Trip(s)) \in Breakers /\ ReleaseProbe(Trip(s)).gen = s.gen + 1
          /\ ReleaseProbe(Trip(s)).state = "open"
        BY <2>2, ReleaseFacts
    <2> QED BY <2>1, <2>3, <1>0 DEF Touched
<1>4. CASE o = "ignored"
    <2>1. ApplyProbe(s, o) = ReleaseProbe(s)
        BY <1>4 DEF ApplyProbe
    <2> QED BY <1>0, <2>1, ReleaseFacts DEF Touched
<1> QED BY <1>0, <1>1, <1>2, <1>3, <1>4 DEF Outcomes

\* The outcome of an ordinary permit.
LEMMA ApplyWindowFacts ==
    ASSUME NEW s \in Breakers, NEW p \in Permits, NEW o \in Outcomes,
           NEW over \in BOOLEAN, NEW streak \in BOOLEAN
    PROVE  LET t == ApplyWindow(s, o, over, streak)
           IN  t \in Breakers /\ Touched(s, t, p) /\ Counts(s, t)
<1> DEFINE w == IF over THEN [s EXCEPT !.succ = 0, !.fail = 0] ELSE s
<1>1. /\ w \in Breakers /\ w.gen = s.gen /\ w.state = s.state /\ w.holder = s.holder
      /\ w.probeFor = s.probeFor /\ w.succ + w.fail <= s.succ + s.fail
    <2>1. [s EXCEPT !.succ = 0] \in Breakers
        BY OneField
    <2>2. w \in Breakers
        BY <2>1, OneField
    <2> QED BY <2>2 DEF Breakers
<1> DEFINE f == [w EXCEPT !.fail = @ + 1, !.cef = IF streak THEN 1 ELSE @ + 1]
           g == [w EXCEPT !.succ = @ + 1, !.cef = 0]
<1>2. ApplyWindow(s, o, over, streak) =
        CASE o = "eligible_success" -> g
          [] o = "eligible_failure" -> IF Fires(f) THEN Trip(f) ELSE f
          [] o = "ignored"          -> w
    BY DEF ApplyWindow
<1> HIDE DEF w
<1>3. /\ f \in Breakers /\ f.gen = w.gen /\ f.state = w.state /\ f.holder = w.holder
      /\ f.probeFor = w.probeFor /\ f.succ + f.fail = w.succ + w.fail + 1
    <2>1. w.fail + 1 \in Nat /\ w.cef + 1 \in Nat
        BY <1>1 DEF Breakers
    <2>2. [w EXCEPT !.fail = w.fail + 1] \in Breakers
        BY <1>1, <2>1, OneField
    <2>3. [[w EXCEPT !.fail = w.fail + 1] EXCEPT !.cef = IF streak THEN 1 ELSE w.cef + 1] \in Breakers
        BY <2>1, <2>2, OneField
    <2>4. f = [[w EXCEPT !.fail = w.fail + 1] EXCEPT !.cef = IF streak THEN 1 ELSE w.cef + 1]
        BY <1>1 DEF Breakers
    <2>5. f \in Breakers
        BY <2>3, <2>4
    <2> QED BY <1>1, <2>5 DEF Breakers
<1>4. /\ g \in Breakers /\ g.gen = w.gen /\ g.state = w.state /\ g.holder = w.holder
      /\ g.probeFor = w.probeFor /\ g.succ + g.fail = w.succ + w.fail + 1
    <2>1. w.succ + 1 \in Nat
        BY <1>1 DEF Breakers
    <2>2. [w EXCEPT !.succ = w.succ + 1] \in Breakers
        BY <1>1, <2>1, OneField
    <2>3. g \in Breakers
        BY <2>2, OneField
    <2> QED BY <1>1, <2>3 DEF Breakers
<1>5. s.gen \in Nat /\ s.succ + s.fail \in Nat /\ w.succ + w.fail \in Nat
    BY <1>1 DEF Breakers
<1> HIDE DEF f, g
<1>6. CASE o = "eligible_success"
    BY <1>1, <1>2, <1>4, <1>5, <1>6 DEF Touched, Counts
<1>7. CASE o = "eligible_failure" /\ Fires(f)
    BY <1>1, <1>2, <1>3, <1>5, <1>7, TripFacts DEF Touched, Counts
<1>8. CASE o = "eligible_failure" /\ ~Fires(f)
    BY <1>1, <1>2, <1>3, <1>5, <1>8 DEF Touched, Counts
<1>9. CASE o = "ignored"
    BY <1>1, <1>2, <1>5, <1>9 DEF Touched, Counts
<1> QED BY <1>6, <1>7, <1>8, <1>9 DEF Outcomes

\* apply_scope: an outcome of another generation changes nothing, any other
\* one counts at most once and leaves the probe of others alone.
LEMMA ApplyScopeFacts ==
    ASSUME NEW s \in Breakers, NEW p \in Permits, NEW gen \in Nat, NEW probe \in BOOLEAN,
           NEW o \in Outcomes, NEW over \in BOOLEAN, NEW streak \in BOOLEAN
    PROVE  LET t == ApplyScope(s, p, gen, probe, o, over, streak)
           IN  /\ t \in Breakers /\ Touched(s, t, p) /\ Counts(s, t)
               /\ s.gen # gen => t = s
<1>0. s.gen \in Nat /\ s.succ \in Nat /\ s.fail \in Nat
    BY DEF Breakers
<1>1. Touched(s, s, p) /\ Counts(s, s)
    BY <1>0 DEF Touched, Counts
<1>2. CASE s.gen # gen
    BY <1>1, <1>2 DEF ApplyScope
<1>3. CASE s.gen = gen /\ probe /\ s.holder = p /\ s.probeFor > 0
    <2> DEFINE t == ApplyProbe(s, o)
    <2>1. ApplyScope(s, p, gen, probe, o, over, streak) = t
        BY <1>3 DEF ApplyScope
    <2>2. /\ t \in Breakers /\ Touched(s, t, p)
          /\ t.state = "closed" =>
                t.succ + t.fail = 0 \/ (t.gen = s.gen /\ t.succ = s.succ /\ t.fail = s.fail)
        BY <1>3, ApplyProbeFacts
    <2> HIDE DEF t
    <2>3. Counts(s, t)
        BY <1>0, <2>2 DEF Touched, Counts
    <2> QED BY <1>3, <2>1, <2>2, <2>3
<1>4. CASE s.gen = gen /\ probe /\ ~(s.holder = p /\ s.probeFor > 0)
    BY <1>1, <1>4 DEF ApplyScope
<1>5. CASE s.gen = gen /\ ~probe /\ s.state = "open"
    BY <1>1, <1>5 DEF ApplyScope
<1>6. CASE s.gen = gen /\ ~probe /\ s.state # "open"
    <2>1. ApplyScope(s, p, gen, probe, o, over, streak) = ApplyWindow(s, o, over, streak)
        BY <1>6 DEF ApplyScope
    <2> QED BY <1>6, <2>1, ApplyWindowFacts
<1> QED BY <1>2, <1>3, <1>4, <1>5, <1>6

\* A tick touches only what runs out.
LEMMA TickTypes ==
    ASSUME NEW s \in Breakers
    PROVE  LET t == TickScope(s)
           IN  /\ t \in Breakers /\ t.gen = s.gen /\ t.state = s.state /\ t.holder = s.holder
               /\ t.succ = s.succ /\ t.fail = s.fail /\ t.probeFor = Less(s.probeFor)
<1> DEFINE t == [s EXCEPT !.openFor = Less(s.openFor), !.probeFor = Less(s.probeFor)]
<1>1. s.openFor \in Nat /\ s.probeFor \in 0 .. PermitTTL
    BY DEF Breakers
<1>2. Less(s.openFor) \in Nat /\ Less(s.probeFor) \in 0 .. PermitTTL
    BY <1>1, PermitAssumption DEF Less
<1>3. [s EXCEPT !.openFor = Less(s.openFor)] \in Breakers
    BY <1>2, OneField
<1>4. t \in Breakers
    BY <1>2, <1>3, OneField
<1>5. /\ t.gen = s.gen /\ t.state = s.state /\ t.holder = s.holder
      /\ t.succ = s.succ /\ t.fail = s.fail /\ t.probeFor = Less(s.probeFor)
    BY DEF Breakers
<1>6. TickScope(s) = t
    BY DEF TickScope, Breakers
<1> QED BY <1>4, <1>5, <1>6
-----------------------------------------------------------------------------
(* The inductive invariant.                                                *)

Admitted == {"active", "finished", "aborted"}

\* An unused id has no permit; an owner that may still call has calls left.
OwnersHaveCalls ==
    \A p \in Permits :
        /\ owner[p] = "idle" => permit[p].status = "none"
        /\ owner[p] \in {"idle", "held", "finish", "abort"} => tries[p] > 0

\* What was admitted carries the epoch, and no later generation than there is.
TermsAreOld ==
    \A p \in Permits : permit[p].status \in Admitted =>
        /\ permit[p].epoch = epoch
        /\ permit[p].gen["origin"] <= origin.gen
        /\ permit[p].gen["channel"] <= channel[permit[p].chan].gen

\* ... nor a later fence, and never the one of a change under way.
FencesAreOld ==
    \A p \in Permits : permit[p].status = "active" =>
        /\ permit[p].originFence <= control.originFence
        /\ permit[p].statusFence <= control.statusFence
        /\ control.pending = "origin" => permit[p].originFence < control.originFence
        /\ control.pending = "status" => permit[p].statusFence < control.statusFence

Leases == WithinChannelLimit /\ SlotLivesWithItsLease /\ LiveProbeOwnsTheLease

Story == OwnersHaveCalls /\ TermsAreOld /\ FencesAreOld /\ Leases /\ OutcomesCountOnce

IInv == TypeOK /\ Story

\* Nothing that a property reads has changed.
Quiet == UNCHANGED <<origin, channel, bound, control, slots, permit, rpd, epoch>>

\* The terms on which a permit was granted.
SameTerms(q) ==
    /\ permit'[q].gen = permit[q].gen /\ permit'[q].probe = permit[q].probe
    /\ permit'[q].chan = permit[q].chan /\ permit'[q].config = permit[q].config
    /\ permit'[q].originRev = permit[q].originRev /\ permit'[q].statusRev = permit[q].statusRev
    /\ permit'[q].originFence = permit[q].originFence
    /\ permit'[q].statusFence = permit[q].statusFence
    /\ permit'[q].epoch = permit[q].epoch

Others(p) == \A q \in Permits \ {p} : permit'[q] = permit[q]

\* The gate let p into breaker s, with or without its probe; t is what it wrote.
Let(s, t, p, probe) ==
    \/ ~probe /\ t = s
    \/ probe /\ Gate(s, enabled) = "probe" /\ t = TakeProbe(s, p, PermitTTL)

\* ... and what that means: a live probe of another permit is not taken over.
Granted(s, t, p, probe) ==
    /\ t \in Breakers
    /\ t.gen \in {s.gen, s.gen + 1}
    /\ t.state = "closed" => t = s
    /\ t.gen = s.gen =>
          /\ t.state = s.state
          /\ s.state = "half_open" /\ s.holder \in Permits /\ s.probeFor > 0 => t = s
    /\ probe => t.state = "half_open" /\ t.holder = p /\ t.probeFor = PermitTTL

LEMMA LetFacts ==
    ASSUME NEW s \in Breakers, NEW t, NEW p \in Permits, NEW probe \in BOOLEAN,
           Let(s, t, p, probe)
    PROVE  Granted(s, t, p, probe)
<1>0. s.gen \in Nat
    BY DEF Breakers
<1>1. CASE ~probe /\ t = s
    BY <1>0, <1>1 DEF Granted
<1>2. CASE probe /\ Gate(s, enabled) = "probe" /\ t = TakeProbe(s, p, PermitTTL)
    <2>1. /\ t \in Breakers /\ t.gen = IF s.state = "half_open" THEN s.gen ELSE s.gen + 1
          /\ t.state = "half_open" /\ t.holder = p /\ t.probeFor = PermitTTL
        BY <1>2, TakeProbeFacts
    <2>2. s.state = "half_open" => ~(s.holder \in Permits /\ s.probeFor > 0)
        BY <1>2, PermitAssumption DEF Gate
    <2> QED BY <1>0, <1>2, <2>1, <2>2 DEF Granted
<1> QED BY <1>1, <1>2 DEF Let

\* The channel's breaker as the candidate finds it: rotated under a new binding.
LEMMA RotatedFacts ==
    ASSUME TypeOK, NEW c \in Channels, NEW b
    PROVE  LET ch == Rotated(c, b)
           IN  /\ ch \in Breakers
               /\ \/ bound[c] = b /\ ch = channel[c]
                  \/ ch.gen = channel[c].gen + 1 /\ ch.succ + ch.fail = 0
<1>1. channel[c] \in Breakers
    BY DEF TypeOK, RedisTypeOK
<1> QED BY <1>1, ResetTypes DEF Rotated

\* What a step of gate_and_acquire.lua leaves.
LEMMA AcquireFacts ==
    ASSUME TypeOK, NEW p \in Permits, NEW c \in Channels, NEW m \in Models, NEW cfg \in Nat,
           NEW lost \in BOOLEAN, Acquire(p, c, m, cfg, lost)
    PROVE  LET b == Binding(cfg)
               ch == Rotated(c, b)
           IN  /\ owner[p] = "idle" /\ control.pending = "none"
               /\ ChannelLimit > 0 => Cardinality(Live(c)) < ChannelLimit
               /\ b \in Bindings
               /\ Granted(origin, origin', p, permit'[p].probe["origin"])
               /\ Granted(ch, channel'[c], p, permit'[p].probe["channel"])
               /\ \A d \in Channels \ {c} : channel'[d] = channel[d] /\ bound'[d] = bound[d]
               /\ channel' = [channel EXCEPT ![c] = channel'[c]]
               /\ bound' = [bound EXCEPT ![c] = b] /\ bound'[c] = b
               /\ slots' = [slots EXCEPT ![c][p] = PermitTTL]
               /\ permit'[p] \in Attempts /\ permit' = [permit EXCEPT ![p] = permit'[p]]
               /\ permit'[p].status = "active" /\ permit'[p].lease = PermitTTL
               /\ permit'[p].chan = c /\ permit'[p].epoch = epoch
               /\ permit'[p].gen["origin"] = origin'.gen
               /\ permit'[p].gen["channel"] = channel'[c].gen
               /\ permit'[p].originFence = control.originFence
               /\ permit'[p].statusFence = control.statusFence
               /\ Others(p)
               /\ UNCHANGED <<control, enabled, cooldown, evidence, rpd, epoch, tries, resets>>
<1> DEFINE b == Binding(cfg)
           ch == Rotated(c, b)
           og == Gate(origin, enabled)
           cg == Gate(ch, enabled)
           o1 == IF og = "probe" THEN TakeProbe(origin, p, PermitTTL) ELSE origin
           c1 == IF cg = "probe" THEN TakeProbe(ch, p, PermitTTL) ELSE ch
           new == [status |-> "active", kept |-> TRUE, lease |-> PermitTTL,
                   gen |-> [s \in Scopes |-> IF s = "origin" THEN o1.gen ELSE c1.gen],
                   probe |-> [s \in Scopes |-> (IF s = "origin" THEN og ELSE cg) = "probe"],
                   chan |-> c, model |-> m, config |-> cfg,
                   originRev |-> control.originRev, statusRev |-> control.statusRev,
                   originFence |-> control.originFence, statusFence |-> control.statusFence,
                   epoch |-> epoch]
<1>1. /\ owner[p] = "idle" /\ control.pending = "none"
      /\ ChannelLimit > 0 => Cardinality(Live(c)) < ChannelLimit
      /\ origin' = o1 /\ channel' = [channel EXCEPT ![c] = c1]
      /\ bound' = [bound EXCEPT ![c] = b]
      /\ slots' = [slots EXCEPT ![c][p] = PermitTTL]
      /\ permit' = [permit EXCEPT ![p] = new]
      /\ UNCHANGED <<control, enabled, cooldown, evidence, rpd, epoch, tries, resets>>
    BY DEF Acquire
<1>2. /\ origin \in Breakers /\ channel \in [Channels -> Breakers] /\ bound \in [Channels -> Bindings]
      /\ permit \in [Permits -> Attempts] /\ control \in Controls
    BY DEF TypeOK, RedisTypeOK
<1>3. b \in Bindings
    BY <1>2 DEF Binding, Bindings, Controls
<1> HIDE DEF b
<1>4. ch \in Breakers
    BY RotatedFacts
<1> HIDE DEF ch
<1>5. o1 \in Breakers /\ c1 \in Breakers
    BY <1>2, <1>4, TakeProbeFacts
<1>6. /\ new.status = "active" /\ new.lease = PermitTTL /\ new.chan = c /\ new.epoch = epoch
      /\ new.gen["origin"] = o1.gen /\ new.gen["channel"] = c1.gen
      /\ new.probe["origin"] = (og = "probe") /\ new.probe["channel"] = (cg = "probe")
      /\ new.originFence = control.originFence /\ new.statusFence = control.statusFence
    BY DEF Scopes
<1>7. new \in Attempts
    <2>1. o1.gen \in Nat /\ c1.gen \in Nat
        BY <1>5 DEF Breakers
    <2>2. new.gen \in [Scopes -> Nat] /\ new.probe \in [Scopes -> BOOLEAN]
        BY <2>1
    <2>3. epoch \in Nat
        BY DEF TypeOK, OwnerTypeOK
    <2> QED BY <1>2, <2>2, <2>3, PermitAssumption DEF Attempts, Controls
<1> HIDE DEF o1, c1
<1>8. Granted(origin, o1, p, og = "probe") /\ Granted(ch, c1, p, cg = "probe")
    <2>1. Let(origin, o1, p, og = "probe") /\ Let(ch, c1, p, cg = "probe")
        BY DEF Let, o1, c1
    <2> QED BY <1>2, <1>4, <2>1, LetFacts
<1> HIDE DEF og, cg, new
<1>9. permit'[p] = new /\ Others(p) /\ permit' = [permit EXCEPT ![p] = permit'[p]]
    BY <1>1, <1>2 DEF Others
<1>10. /\ channel'[c] = c1 /\ bound'[c] = b
       /\ \A d \in Channels \ {c} : channel'[d] = channel[d] /\ bound'[d] = bound[d]
    BY <1>1, <1>2
<1> QED BY <1>1, <1>3, <1>6, <1>7, <1>8, <1>9, <1>10 DEF b, ch

\* The script changed the leases of a breaker at most.
SameBreaker(s, t) ==
    /\ t \in Breakers /\ t.gen = s.gen /\ t.state = s.state /\ t.succ = s.succ /\ t.fail = s.fail

\* renew.lua on one breaker: it prolongs the probe that p still holds.
LEMMA RenewProbeFacts ==
    ASSUME NEW s \in Breakers, NEW p \in Permits, NEW scope \in Scopes, NEW current \in BOOLEAN
    PROVE  LET t == RenewProbe(s, p, scope, current)
           IN  /\ SameBreaker(s, t) /\ t.holder = s.holder
               /\ s.holder # p => t = s
               /\ current /\ permit[p].probe[scope] /\ s.gen = permit[p].gen[scope] /\ s.holder = p
                    => t.probeFor = PermitTTL
<1> DEFINE u == [s EXCEPT !.probeFor = PermitTTL]
<1>1. SameBreaker(s, s)
    BY DEF SameBreaker
<1>2. u \in Breakers
    BY OneField, PermitAssumption
<1>3. SameBreaker(s, u) /\ u.holder = s.holder /\ u.probeFor = PermitTTL
    BY <1>2 DEF SameBreaker, Breakers
<1> HIDE DEF u
<1>4. RenewProbe(s, p, scope, current) =
        IF current /\ permit[p].probe[scope] /\ s.gen = permit[p].gen[scope] /\ s.holder = p
        THEN u ELSE s
    BY DEF RenewProbe, u
<1> QED BY <1>1, <1>3, <1>4

\* A permit with another lease, or without its key, is a permit.
LEMMA LeaseTypes ==
    ASSUME NEW a \in Attempts
    PROVE  /\ \A n \in 0 .. PermitTTL : [a EXCEPT !.lease = n] \in Attempts
           /\ [a EXCEPT !.kept = FALSE] \in Attempts
<1>1. \A n \in 0 .. PermitTTL : [a EXCEPT !.lease = n] \in Attempts
    BY DEF Attempts
<1>2. [a EXCEPT !.kept = FALSE] \in Attempts
    BY DEF Attempts
<1> QED BY <1>1, <1>2

\* What renew.lua leaves.
LEMMA RenewFacts ==
    ASSUME TypeOK, NEW p \in Permits, Renew(p)
    PROVE  LET c == permit[p].chan
           IN  /\ c \in Channels /\ permit[p].status = "active" /\ permit[p].lease > 0
               /\ permit' \in [Permits -> Attempts] /\ Others(p)
               /\ \A q \in Permits : SameTerms(q) /\ permit'[q].status = permit[q].status
               /\ permit'[p].lease = PermitTTL
               /\ slots' \in [Channels -> [Permits -> 0 .. PermitTTL]]
               /\ \A d \in Channels, q \in Permits :
                    slots'[d][q] = IF d = c /\ q = p /\ slots[d][q] > 0 THEN PermitTTL ELSE slots[d][q]
               /\ origin' = RenewProbe(origin, p, "origin", FenceCurrent(p))
               /\ channel' = [channel EXCEPT ![c] =
                     RenewProbe(channel[c], p, "channel", FenceCurrent(p) /\ BindingCurrent(p))]
<1> DEFINE c == permit[p].chan
<1>1. /\ permit \in [Permits -> Attempts] /\ slots \in [Channels -> [Permits -> 0 .. PermitTTL]]
      /\ channel \in [Channels -> Breakers]
    BY DEF TypeOK, RedisTypeOK
<1>2. /\ permit[p].status = "active" /\ permit[p].lease > 0
      /\ permit' = [permit EXCEPT ![p].lease = PermitTTL]
      /\ slots' = IF slots[c][p] > 0 THEN [slots EXCEPT ![c][p] = PermitTTL] ELSE slots
      /\ origin' = RenewProbe(origin, p, "origin", FenceCurrent(p))
      /\ channel' = [channel EXCEPT ![c] =
             RenewProbe(@, p, "channel", FenceCurrent(p) /\ BindingCurrent(p))]
    BY DEF Renew
<1>3. c \in Channels
    BY <1>1 DEF Attempts
<1>4. /\ permit' \in [Permits -> Attempts] /\ Others(p) /\ permit'[p].lease = PermitTTL
      /\ \A q \in Permits : SameTerms(q) /\ permit'[q].status = permit[q].status
    <2>1. PermitTTL \in 0 .. PermitTTL
        BY PermitAssumption
    <2>2. permit' \in [Permits -> Attempts]
        BY <1>1, <1>2, <2>1, LeaseTypes
    <2> QED BY <1>1, <1>2, <2>2 DEF Others, SameTerms, Attempts
<1> HIDE DEF c
<1>5. /\ slots' \in [Channels -> [Permits -> 0 .. PermitTTL]]
      /\ \A d \in Channels, q \in Permits :
           slots'[d][q] = IF d = c /\ q = p /\ slots[d][q] > 0 THEN PermitTTL ELSE slots[d][q]
    BY <1>1, <1>2, <1>3, PermitAssumption
<1>6. channel' = [channel EXCEPT ![c] =
             RenewProbe(channel[c], p, "channel", FenceCurrent(p) /\ BindingCurrent(p))]
    BY <1>2
<1> QED BY <1>2, <1>3, <1>4, <1>5, <1>6 DEF c

\* The slot and the permit that a terminal call gives back.
Ended(p, status) ==
    /\ permit[p].status = "active" /\ permit[p].chan \in Channels
    /\ permit' \in [Permits -> Attempts] /\ Others(p)
    /\ \A q \in Permits : SameTerms(q) /\ permit'[q].lease = permit[q].lease
    /\ permit'[p].status = status
    /\ slots' \in [Channels -> [Permits -> 0 .. PermitTTL]]
    /\ \A d \in Channels, q \in Permits :
         slots'[d][q] = IF d = permit[p].chan /\ q = p THEN 0 ELSE slots[d][q]

LEMMA EndedFacts ==
    ASSUME TypeOK, NEW p \in Permits, NEW status \in {"finished", "aborted"},
           permit[p].status = "active",
           slots' = [slots EXCEPT ![permit[p].chan][p] = 0],
           permit' = [permit EXCEPT ![p].status = status]
    PROVE  Ended(p, status)
<1>1. permit \in [Permits -> Attempts] /\ slots \in [Channels -> [Permits -> 0 .. PermitTTL]]
    BY DEF TypeOK, RedisTypeOK
<1>2. permit[p].chan \in Channels
    BY <1>1 DEF Attempts
<1>3. /\ permit' \in [Permits -> Attempts] /\ Others(p) /\ permit'[p].status = status
      /\ \A q \in Permits : SameTerms(q) /\ permit'[q].lease = permit[q].lease
    BY <1>1 DEF Others, SameTerms, Attempts
<1>4. /\ slots' \in [Channels -> [Permits -> 0 .. PermitTTL]]
      /\ \A d \in Channels, q \in Permits :
           slots'[d][q] = IF d = permit[p].chan /\ q = p THEN 0 ELSE slots[d][q]
    BY <1>1, <1>2, PermitAssumption
<1> QED BY <1>2, <1>3, <1>4 DEF Ended

\* What finish.lua leaves when it ends a permit.
LEMMA FinishFacts ==
    ASSUME TypeOK, NEW p \in Permits, NEW a \in Attributions,
           NEW over \in BOOLEAN, NEW streak \in BOOLEAN,
           permit[p].status = "active", FinishActive(p, a, over, streak)
    PROVE  /\ Ended(p, "finished")
           /\ rpd' = rpd + 1
           /\ evidence' \in [channels : SUBSET Channels, models : SUBSET Models]
           /\ origin' \in Breakers /\ Touched(origin, origin', p) /\ Counts(origin, origin')
           /\ origin.gen # permit[p].gen["origin"] => origin' = origin
           /\ channel' \in [Channels -> Breakers]
           /\ \A c \in Channels :
                /\ Touched(channel[c], channel'[c], p) /\ Counts(channel[c], channel'[c])
                /\ c # permit[p].chan \/ channel[c].gen # permit[p].gen["channel"] \/ ~BindingCurrent(p)
                     => channel'[c] = channel[c]
           /\ UNCHANGED <<bound, control, cooldown>>
<1> DEFINE c       == permit[p].chan
           applies == enabled /\ FenceCurrent(p)
           collect == a.ambiguous /\ applies /\ origin.gen = permit[p].gen["origin"]
           e1      == IF collect THEN WithEvidence(c, permit[p].model) ELSE evidence
           oo1     == IF collect /\ Blames(e1) THEN "eligible_failure" ELSE a.origin
           Apply(s, scope, o) ==
               ApplyScope(s, p, permit[p].gen[scope], permit[p].probe[scope], o, over, streak)
           o1      == IF applies THEN Apply(origin, "origin", oo1) ELSE origin
           c1      == IF applies /\ BindingCurrent(p) THEN Apply(channel[c], "channel", a.channel)
                      ELSE channel[c]
<1>1. /\ permit \in [Permits -> Attempts] /\ origin \in Breakers
      /\ channel \in [Channels -> Breakers]
      /\ evidence \in [channels : SUBSET Channels, models : SUBSET Models]
    BY DEF TypeOK, RedisTypeOK
<1>2. /\ c \in Channels /\ permit[p].model \in Models
      /\ \A s \in Scopes : permit[p].gen[s] \in Nat /\ permit[p].probe[s] \in BOOLEAN
    BY <1>1 DEF Attempts
<1>3. /\ rpd' = rpd + 1 /\ evidence' = e1 /\ origin' = o1
      /\ channel' = IF applies /\ BindingCurrent(p)
                    THEN [channel EXCEPT ![c] = Apply(@, "channel", a.channel)] ELSE channel
      /\ slots' = [slots EXCEPT ![c][p] = 0]
      /\ permit' = [permit EXCEPT ![p].status = "finished"]
      /\ UNCHANGED <<bound, control, cooldown>>
    BY DEF FinishActive
<1>4. Ended(p, "finished")
    BY <1>3, EndedFacts
<1>5. a.origin \in Outcomes /\ a.channel \in Outcomes
    BY DEF Attributions, Attribution, Outcomes
<1>6. oo1 \in Outcomes
    BY <1>5 DEF Outcomes
<1>7. e1 \in [channels : SUBSET Channels, models : SUBSET Models]
    BY <1>1, <1>2 DEF WithEvidence
<1>8. \A s \in Breakers : Touched(s, s, p) /\ Counts(s, s)
    BY DEF Touched, Counts, Breakers
<1> HIDE DEF oo1, e1, collect
<1>9. /\ o1 \in Breakers /\ Touched(origin, o1, p) /\ Counts(origin, o1)
      /\ origin.gen # permit[p].gen["origin"] => o1 = origin
    <2>1. CASE applies
        BY <2>1, <1>1, <1>2, <1>6, ApplyScopeFacts DEF Scopes
    <2>2. CASE ~applies
        BY <2>2, <1>1, <1>8
    <2> QED BY <2>1, <2>2
<1>10. /\ c1 \in Breakers /\ Touched(channel[c], c1, p) /\ Counts(channel[c], c1)
       /\ (channel[c].gen # permit[p].gen["channel"] \/ ~BindingCurrent(p)) => c1 = channel[c]
    <2>0. channel[c] \in Breakers
        BY <1>1, <1>2
    <2>1. CASE applies /\ BindingCurrent(p)
        BY <2>0, <2>1, <1>1, <1>2, <1>5, ApplyScopeFacts DEF Scopes
    <2>2. CASE ~(applies /\ BindingCurrent(p))
        BY <2>0, <2>2, <1>1, <1>8
    <2> QED BY <2>1, <2>2
<1>11. channel' = [channel EXCEPT ![c] = c1]
    BY <1>1, <1>2, <1>3
<1> HIDE DEF c1, o1, c, applies, Apply
<1>12. /\ channel' \in [Channels -> Breakers] /\ channel'[c] = c1
       /\ \A d \in Channels \ {c} : channel'[d] = channel[d]
    BY <1>1, <1>2, <1>10, <1>11
<1>13. \A d \in Channels :
         /\ Touched(channel[d], channel'[d], p) /\ Counts(channel[d], channel'[d])
         /\ d # c \/ channel[d].gen # permit[p].gen["channel"] \/ ~BindingCurrent(p)
              => channel'[d] = channel[d]
    BY <1>1, <1>2, <1>8, <1>10, <1>12
<1> QED BY <1>3, <1>4, <1>7, <1>9, <1>12, <1>13 DEF c

\* What abort.lua leaves when it ends a permit.
LEMMA AbortFacts ==
    ASSUME TypeOK, NEW p \in Permits, permit[p].status = "active", AbortActive(p)
    PROVE  /\ Ended(p, "aborted")
           /\ SameBreaker(origin, origin') /\ (origin.holder # p => origin' = origin)
           /\ channel' \in [Channels -> Breakers]
           /\ \A c \in Channels : /\ SameBreaker(channel[c], channel'[c])
                                  /\ channel[c].holder # p => channel'[c] = channel[c]
           /\ UNCHANGED <<bound, control, cooldown, evidence, rpd>>
<1> DEFINE c == permit[p].chan
           Release(s, scope) == IF permit[p].probe[scope] /\ s.holder = p THEN ReleaseProbe(s) ELSE s
<1>1. /\ permit \in [Permits -> Attempts] /\ origin \in Breakers
      /\ channel \in [Channels -> Breakers]
    BY DEF TypeOK, RedisTypeOK
<1>2. c \in Channels
    BY <1>1 DEF Attempts
<1>3. /\ origin' = Release(origin, "origin")
      /\ channel' = [channel EXCEPT ![c] = Release(channel[c], "channel")]
      /\ Ended(p, "aborted")
      /\ UNCHANGED <<bound, control, cooldown, evidence, rpd>>
    BY EndedFacts DEF AbortActive
<1>4. \A s \in Breakers, scope \in Scopes :
        /\ SameBreaker(s, Release(s, scope))
        /\ s.holder # p => Release(s, scope) = s
    BY ReleaseFacts DEF SameBreaker
<1> HIDE DEF c, Release
<1>5. SameBreaker(origin, origin') /\ (origin.holder # p => origin' = origin)
    BY <1>1, <1>3, <1>4 DEF Scopes
<1>6. \A s \in Breakers : SameBreaker(s, s)
    BY DEF SameBreaker
<1>7. SameBreaker(channel[c], channel'[c]) /\ (channel[c].holder # p => channel'[c] = channel[c])
    BY <1>1, <1>2, <1>3, <1>4 DEF Scopes
<1>8. \A d \in Channels \ {c} : channel'[d] = channel[d]
    BY <1>1, <1>2, <1>3
<1>9. channel' \in [Channels -> Breakers]
    BY <1>1, <1>2, <1>3, <1>7 DEF SameBreaker
<1> QED BY <1>1, <1>3, <1>5, <1>6, <1>7, <1>8, <1>9

\* A change of the Provider's routing control.
FenceStep ==
    \/ \E kind \in {"origin", "status"} : PrepareFence(kind)
    \/ \E commit, serving \in BOOLEAN : SettleFence(commit, serving)
    \/ \E committed \in BOOLEAN : ReconcileControl(committed)

\* Writing one field of the control leaves a control.
LEMMA OneControlField ==
    ASSUME NEW r \in Controls
    PROVE  /\ \A k \in {"none", "origin", "status"} : [r EXCEPT !.pending = k] \in Controls
           /\ \A b \in BOOLEAN : [r EXCEPT !.serving = b] \in Controls
           /\ \A n \in Nat : /\ [r EXCEPT !.originFence = n] \in Controls
                             /\ [r EXCEPT !.statusFence = n] \in Controls
                             /\ [r EXCEPT !.originRev = n] \in Controls
                             /\ [r EXCEPT !.statusRev = n] \in Controls
    BY DEF Controls

\* prepare_origin(_status).lua
LEMMA PrepareFacts ==
    ASSUME TypeOK, NEW kind \in {"origin", "status"}, PrepareFence(kind)
    PROVE  /\ control' \in Controls /\ control'.pending = kind
           /\ control'.originFence = control.originFence + (IF kind = "origin" THEN 1 ELSE 0)
           /\ control'.statusFence = control.statusFence + (IF kind = "status" THEN 1 ELSE 0)
<1>1. control \in Controls
    BY DEF TypeOK, RedisTypeOK
<1>2. control.originFence + 1 \in Nat /\ control.statusFence + 1 \in Nat
      /\ control.originFence \in Nat /\ control.statusFence \in Nat
    BY <1>1 DEF Controls
<1> DEFINE r == [control EXCEPT !.pending = kind]
<1>3. r \in Controls
    BY <1>1, OneControlField
<1>4. /\ r.pending = kind /\ r.originFence = control.originFence
      /\ r.statusFence = control.statusFence
    BY <1>1 DEF Controls
<1>5. control' = [r EXCEPT ![FenceField(kind)] = control[FenceField(kind)] + 1]
    BY <1>1 DEF PrepareFence, FenceField, Controls
<1> HIDE DEF r
<1>6. CASE kind = "origin"
    <2>1. control' = [r EXCEPT !.originFence = control.originFence + 1]
        BY <1>5, <1>6 DEF FenceField
    <2>2. control' \in Controls
        BY <1>2, <1>3, <2>1, OneControlField
    <2> QED BY <1>2, <1>3, <1>4, <1>6, <2>1, <2>2 DEF Controls
<1>7. CASE kind = "status"
    <2>1. control' = [r EXCEPT !.statusFence = control.statusFence + 1]
        BY <1>5, <1>7 DEF FenceField
    <2>2. control' \in Controls
        BY <1>2, <1>3, <2>1, OneControlField
    <2> QED BY <1>2, <1>3, <1>4, <1>7, <2>1, <2>2 DEF Controls
<1> QED BY <1>6, <1>7

\* commit_origin(_status).lua and abort_origin(_status).lua
LEMMA SettleFacts ==
    ASSUME TypeOK, NEW commit \in BOOLEAN, NEW serving \in BOOLEAN, SettleFence(commit, serving)
    PROVE  /\ control' \in Controls /\ control'.pending = "none" /\ control.pending # "none"
           /\ control'.originFence = control.originFence
           /\ control'.statusFence = control.statusFence
<1>1. control \in Controls
    BY DEF TypeOK, RedisTypeOK
<1> DEFINE kind == control.pending
           one == [control EXCEPT !.pending = "none"]
           two == [one EXCEPT !.serving = serving]
           rev == IF commit THEN control[RevField(kind)] + 1 ELSE control[RevField(kind)]
<1>2. kind \in {"origin", "status"}
    BY <1>1 DEF SettleFence, Controls
<1>3. two \in Controls
    <2>1. one \in Controls
        BY <1>1, OneControlField
    <2> QED BY <2>1, OneControlField
<1>4. /\ two.pending = "none" /\ two.originFence = control.originFence
      /\ two.statusFence = control.statusFence
    BY <1>1 DEF Controls
<1>5. control' = [two EXCEPT ![RevField(kind)] = rev]
    BY <1>1, <1>2 DEF SettleFence, RevField, Controls
<1>6. rev \in Nat
    BY <1>1, <1>2 DEF RevField, Controls
<1> HIDE DEF two, rev, kind
<1>7. CASE kind = "origin"
    <2>1. control' = [two EXCEPT !.originRev = rev]
        BY <1>5, <1>7 DEF RevField
    <2>2. control' \in Controls
        BY <1>3, <1>6, <2>1, OneControlField
    <2> QED BY <1>3, <1>4, <1>7, <2>1, <2>2 DEF Controls, kind
<1>8. CASE kind = "status"
    <2>1. control' = [two EXCEPT !.statusRev = rev]
        BY <1>5, <1>8 DEF RevField
    <2>2. control' \in Controls
        BY <1>3, <1>6, <2>1, OneControlField
    <2> QED BY <1>3, <1>4, <1>8, <2>1, <2>2 DEF Controls, kind
<1> QED BY <1>2, <1>7, <1>8

\* reconcile_provider_control.lua
LEMMA ReconcileFacts ==
    ASSUME TypeOK, NEW committed \in BOOLEAN, ReconcileControl(committed)
    PROVE  /\ control' \in Controls /\ control'.pending = "none" /\ control.pending # "none"
           /\ control'.originFence = control.originFence + 1
           /\ control'.statusFence = control.statusFence + 1
<1>1. control \in Controls
    BY DEF TypeOK, RedisTypeOK
<1> DEFINE kind == control.pending
           one == [control EXCEPT !.pending = "none"]
           rev == IF committed THEN control[RevField(kind)] + 1 ELSE control[RevField(kind)]
<1>2. kind \in {"origin", "status"}
    BY <1>1 DEF ReconcileControl, Controls
<1>3. one \in Controls
    BY <1>1, OneControlField
<1>4. /\ one.pending = "none" /\ one.originFence = control.originFence
      /\ one.statusFence = control.statusFence
    BY <1>1 DEF Controls
<1>6. /\ rev \in Nat /\ control.originFence + 1 \in Nat /\ control.statusFence + 1 \in Nat
    BY <1>1, <1>2 DEF RevField, Controls
<1> DEFINE two == [one EXCEPT ![RevField(kind)] = rev]
           three == [two EXCEPT !.originFence = control.originFence + 1]
           four == [three EXCEPT !.statusFence = control.statusFence + 1]
<1>7. two \in Controls /\ two.pending = one.pending
    <2>1. CASE kind = "origin"
        <3>1. two = [one EXCEPT !.originRev = rev]
            BY <2>1 DEF RevField
        <3>2. two \in Controls
            BY <1>3, <1>6, <3>1, OneControlField
        <3> QED BY <1>3, <3>1, <3>2 DEF Controls
    <2>2. CASE kind = "status"
        <3>1. two = [one EXCEPT !.statusRev = rev]
            BY <2>2 DEF RevField
        <3>2. two \in Controls
            BY <1>3, <1>6, <3>1, OneControlField
        <3> QED BY <1>3, <3>1, <3>2 DEF Controls
    <2> QED BY <1>2, <2>1, <2>2
<1>8. control' = four
    BY <1>1, <1>2 DEF ReconcileControl, RevField, Controls
<1> HIDE DEF two
<1>9. three \in Controls
    BY <1>6, <1>7, OneControlField
<1>10. four \in Controls
    BY <1>6, <1>9, OneControlField
<1>11. /\ four.pending = "none" /\ four.originFence = control.originFence + 1
       /\ four.statusFence = control.statusFence + 1
    BY <1>4, <1>7 DEF Controls
<1> HIDE DEF three, four
<1> QED BY <1>2, <1>8, <1>10, <1>11

\* No attempt in flight has the fence of a change, before or after it.
LEMMA FencesMove ==
    ASSUME TypeOK, FencesAreOld, FenceStep
    PROVE  /\ FencesAreOld'
           /\ \A q \in Permits : permit[q].status = "active" => ~FenceCurrent(q)'
           /\ control' \in Controls
<1>1. UNCHANGED permit
    BY DEF FenceStep, PrepareFence, SettleFence, ReconcileControl
<1>2. control \in Controls /\ permit \in [Permits -> Attempts]
    BY DEF TypeOK, RedisTypeOK
<1>3. /\ control.originFence \in Nat /\ control.statusFence \in Nat
      /\ control.pending \in {"none", "origin", "status"}
      /\ \A q \in Permits : permit[q].originFence \in Nat /\ permit[q].statusFence \in Nat
    BY <1>2 DEF Controls, Attempts
<1>4. CASE \E kind \in {"origin", "status"} : PrepareFence(kind)
    <2> PICK kind \in {"origin", "status"} : PrepareFence(kind)
        BY <1>4
    <2> QED BY <1>1, <1>3, PrepareFacts DEF FencesAreOld, FenceCurrent
<1>5. CASE \E commit, serving \in BOOLEAN : SettleFence(commit, serving)
    <2> PICK commit \in BOOLEAN, serving \in BOOLEAN : SettleFence(commit, serving)
        BY <1>5
    <2> QED BY <1>1, <1>3, SettleFacts DEF FencesAreOld, FenceCurrent
<1>6. CASE \E committed \in BOOLEAN : ReconcileControl(committed)
    <2> PICK committed \in BOOLEAN : ReconcileControl(committed)
        BY <1>6
    <2> QED BY <1>1, <1>3, ReconcileFacts DEF FencesAreOld, FenceCurrent
<1> QED BY <1>4, <1>5, <1>6 DEF FenceStep

\* A tick: what is left of every lease is less by one.
LEMMA TickFacts ==
    ASSUME TypeOK, Tick
    PROVE  /\ permit' \in [Permits -> Attempts]
           /\ slots' \in [Channels -> [Permits -> 0 .. PermitTTL]]
           /\ channel' \in [Channels -> Breakers] /\ cooldown' \in [Channels -> Nat]
           /\ \A q \in Permits : /\ SameTerms(q) /\ permit'[q].status = permit[q].status
                                 /\ permit'[q].lease = Less(permit[q].lease)
           /\ \A c \in Channels, q \in Permits : slots'[c][q] = Less(slots[c][q])
           /\ \A c \in Channels : channel'[c] = TickScope(channel[c])
<1>1. /\ permit \in [Permits -> Attempts] /\ channel \in [Channels -> Breakers]
      /\ slots \in [Channels -> [Permits -> 0 .. PermitTTL]] /\ cooldown \in [Channels -> Nat]
    BY DEF TypeOK, RedisTypeOK
<1>2. /\ channel' = [c \in Channels |-> TickScope(channel[c])]
      /\ cooldown' = [c \in Channels |-> Less(cooldown[c])]
      /\ slots' = [c \in Channels |-> [p \in Permits |-> Less(slots[c][p])]]
      /\ permit' = [p \in Permits |-> [permit[p] EXCEPT !.lease = Less(permit[p].lease)]]
    BY <1>1 DEF Tick, Attempts
<1>3. \A n \in 0 .. PermitTTL : Less(n) \in 0 .. PermitTTL
    BY PermitAssumption DEF Less
<1>4. \A n \in Nat : Less(n) \in Nat
    BY DEF Less
<1>5. \A q \in Permits : permit[q].lease \in 0 .. PermitTTL
    BY <1>1 DEF Attempts
<1>6. permit' \in [Permits -> Attempts]
    BY <1>1, <1>2, <1>3, <1>5, LeaseTypes
<1>7. \A q \in Permits : /\ SameTerms(q) /\ permit'[q].status = permit[q].status
                         /\ permit'[q].lease = Less(permit[q].lease)
    BY <1>1, <1>2 DEF SameTerms, Attempts
<1>8. channel' \in [Channels -> Breakers]
    BY <1>1, <1>2, TickTypes
<1>9. slots' \in [Channels -> [Permits -> 0 .. PermitTTL]]
    BY <1>1, <1>2, <1>3
<1>10. cooldown' \in [Channels -> Nat]
    BY <1>1, <1>2, <1>4
<1> QED BY <1>2, <1>6, <1>7, <1>8, <1>9, <1>10

\* Redis lost: nothing that was admitted before is left.
LEMMA LossFacts ==
    ASSUME TypeOK, LoseState
    PROVE  /\ TypeOK'
           /\ \A q \in Permits : permit'[q].status \in {"none", "lost"}
           /\ \A q \in Permits : permit'[q].status = "none" <=> permit[q].status = "none"
           /\ \A c \in Channels, q \in Permits : slots'[c][q] = 0
           /\ origin'.succ + origin'.fail = 0
           /\ \A c \in Channels : channel'[c].succ + channel'[c].fail = 0
           /\ rpd' = 0
<1>1. /\ permit \in [Permits -> Attempts] /\ control \in Controls /\ epoch \in Nat
    BY DEF TypeOK, RedisTypeOK, OwnerTypeOK
<1>2. /\ \A q \in Permits : permit'[q].status \in {"none", "lost"}
      /\ \A q \in Permits : permit'[q].status = "none" <=> permit[q].status = "none"
      /\ permit' \in [Permits -> Attempts]
    <2> DEFINE left(q) == [[permit[q] EXCEPT !.status = "lost"] EXCEPT !.kept = FALSE]
    <2>1. \A q \in Permits : [permit[q] EXCEPT !.status = "lost"] \in Attempts
        BY <1>1 DEF Attempts
    <2>2. \A q \in Permits : left(q) \in Attempts
        BY <2>1, LeaseTypes
    <2>3. \A q \in Permits : left(q).status = "lost"
        BY <1>1 DEF Attempts
    <2>4. permit' = [q \in Permits |-> IF permit[q].status = "none" THEN permit[q] ELSE left(q)]
        BY DEF LoseState
    <2> HIDE DEF left
    <2> QED BY <1>1, <2>2, <2>3, <2>4
<1>3. control' \in Controls
    <2> DEFINE one == [control EXCEPT !.originFence = 1]
               two == [one EXCEPT !.statusFence = 1]
    <2>1. one \in Controls
        BY <1>1, OneControlField
    <2>2. two \in Controls
        BY <2>1, OneControlField
    <2>3. control' = [two EXCEPT !.pending = "none"]
        BY DEF LoseState
    <2> QED BY <2>2, <2>3, OneControlField
<1>4. /\ origin' \in Breakers /\ origin'.succ + origin'.fail = 0
      /\ channel' \in [Channels -> Breakers]
      /\ \A c \in Channels : channel'[c].succ + channel'[c].fail = 0
    BY FreshTypes DEF LoseState
<1>5. /\ bound' \in [Channels -> Bindings] /\ cooldown' \in [Channels -> Nat]
      /\ evidence' \in [channels : SUBSET Channels, models : SUBSET Models]
      /\ rpd' = 0 /\ epoch' \in Nat
    <2>1. /\ bound' = [c \in Channels |-> [config |-> 0, originRev |-> 0, statusRev |-> 0]]
          /\ cooldown' = [c \in Channels |-> 0] /\ evidence' = NoEvidence
          /\ rpd' = 0 /\ epoch' = epoch + 1
        BY DEF LoseState
    <2>2. [config |-> 0, originRev |-> 0, statusRev |-> 0] \in Bindings
        BY DEF Bindings
    <2> QED BY <1>1, <2>1, <2>2 DEF NoEvidence
<1>6. /\ slots' \in [Channels -> [Permits -> 0 .. PermitTTL]]
      /\ \A c \in Channels, q \in Permits : slots'[c][q] = 0
    <2>1. slots' = [c \in Channels |-> [p \in Permits |-> 0]]
        BY DEF LoseState
    <2>2. 0 \in 0 .. PermitTTL
        BY PermitAssumption
    <2> QED BY <2>1, <2>2
<1>7. OwnerTypeOK'
    BY <1>5 DEF LoseState, TypeOK, OwnerTypeOK
<1> QED BY <1>2, <1>3, <1>4, <1>5, <1>6, <1>7 DEF TypeOK, RedisTypeOK
-----------------------------------------------------------------------------
(* Types, and the calls the owners have left.                              *)

\* No step gives an owner back to idleness, and one that may call has calls.
OwnersMove ==
    /\ owner' \in [Permits -> Owners]
    /\ tries' \in [Permits -> 0 .. TerminalTries]
    /\ \A q \in Permits : owner'[q] = "idle" => owner[q] = "idle"
    /\ \A q \in Permits : owner'[q] \in {"idle", "held", "finish", "abort"} => tries'[q] > 0

\* attemptTerminalBounded: no call is made when none is left.
LEMMA AfterCallFacts ==
    ASSUME TypeOK, OwnersHaveCalls, NEW p \in Permits, NEW replied \in BOOLEAN,
           NEW next \in {"done", "feedback"},
           owner[p] \in {"finish", "abort"}, AfterCall(p, replied, next)
    PROVE  OwnersMove
<1>1. /\ owner \in [Permits -> Owners] /\ tries \in [Permits -> 0 .. TerminalTries]
      /\ \A q \in Permits : owner[q] \in {"idle", "held", "finish", "abort"} => tries[q] > 0
    BY DEF TypeOK, OwnerTypeOK, OwnersHaveCalls
<1> DEFINE left == IF replied THEN 0 ELSE tries[p] - 1
           now == IF replied THEN next ELSE IF tries[p] = 1 THEN "done" ELSE owner[p]
<1>2. tries' = [tries EXCEPT ![p] = left] /\ owner' = [owner EXCEPT ![p] = now]
    BY <1>1 DEF AfterCall
<1>3. /\ left \in 0 .. TerminalTries /\ now \in {"finish", "abort", "feedback", "done"}
      /\ now \in {"finish", "abort"} => left > 0
    BY <1>1, PermitAssumption
<1> HIDE DEF left, now
<1> QED BY <1>1, <1>2, <1>3 DEF OwnersMove, Owners

\* The owner moves on without a call.
LEMMA OwnerMoves ==
    ASSUME TypeOK, OwnersHaveCalls, NEW p \in Permits, NEW now \in Owners \ {"idle"},
           owner[p] \in {"idle", "held"} \/ now \in {"feedback", "done"},
           owner' = [owner EXCEPT ![p] = now], UNCHANGED tries
    PROVE  OwnersMove
    BY DEF TypeOK, OwnerTypeOK, OwnersHaveCalls, OwnersMove, Owners

LEMMA OwnersStay ==
    ASSUME TypeOK, OwnersHaveCalls, UNCHANGED <<owner, tries>>
    PROVE  OwnersMove
    BY DEF TypeOK, OwnerTypeOK, OwnersHaveCalls, OwnersMove

\* Types are kept and owners have calls left, whatever step is taken.
LEMMA TypeStep ==
    ASSUME TypeOK, OwnersHaveCalls, [Next]_vars
    PROVE  TypeOK' /\ OwnersHaveCalls'
<1> DEFINE Fresh == \A q \in Permits : owner'[q] = "idle" => permit'[q].status = "none"
<1>0. ASSUME RedisTypeOK', OwnersMove, Fresh,
             enabled' \in BOOLEAN, epoch' \in Nat, resets' \in Nat
      PROVE  TypeOK' /\ OwnersHaveCalls'
    BY <1>0 DEF TypeOK, OwnerTypeOK, OwnersMove, OwnersHaveCalls
<1>a. /\ RedisTypeOK /\ OwnerTypeOK
      /\ enabled \in BOOLEAN /\ epoch \in Nat /\ resets \in Nat
      /\ \A q \in Permits : owner[q] = "idle" => permit[q].status = "none"
    BY DEF TypeOK, OwnerTypeOK, OwnersHaveCalls
<1>b. ASSUME UNCHANGED redisVars PROVE RedisTypeOK'
    BY <1>a, <1>b DEF RedisTypeOK, redisVars
<1>c. ASSUME OwnersMove, UNCHANGED permit PROVE Fresh
    BY <1>a, <1>c DEF OwnersMove
<1>1. ASSUME NEW p \in Permits, NEW c \in Channels, NEW m \in Models, NEW cfg \in 1 .. MaxConfig,
             NEW lost \in BOOLEAN, Acquire(p, c, m, cfg, lost)
      PROVE  TypeOK' /\ OwnersHaveCalls'
    <2>1. cfg \in Nat /\ PermitTTL \in 0 .. PermitTTL
        BY PermitAssumption
    <2> DEFINE b == Binding(cfg)
               ch == Rotated(c, b)
    <2>2. /\ b \in Bindings /\ owner[p] = "idle"
          /\ Granted(origin, origin', p, permit'[p].probe["origin"])
          /\ Granted(ch, channel'[c], p, permit'[p].probe["channel"])
          /\ channel' = [channel EXCEPT ![c] = channel'[c]]
          /\ bound' = [bound EXCEPT ![c] = b]
          /\ slots' = [slots EXCEPT ![c][p] = PermitTTL]
          /\ permit'[p] \in Attempts /\ permit' = [permit EXCEPT ![p] = permit'[p]]
          /\ Others(p)
          /\ UNCHANGED <<control, enabled, cooldown, evidence, rpd, epoch, tries, resets>>
        BY <1>1, <2>1, AcquireFacts
    <2> HIDE DEF b, ch
    <2>5. origin' \in Breakers /\ channel'[c] \in Breakers
        BY <2>2 DEF Granted
    <2>6. RedisTypeOK'
        <3>1. channel' \in [Channels -> Breakers] /\ bound' \in [Channels -> Bindings]
            BY <1>a, <2>2, <2>5 DEF RedisTypeOK
        <3>2. slots' \in [Channels -> [Permits -> 0 .. PermitTTL]]
            BY <1>a, <2>1, <2>2 DEF RedisTypeOK
        <3>3. permit' \in [Permits -> Attempts]
            BY <1>a, <2>2 DEF RedisTypeOK
        <3> QED BY <1>a, <2>2, <2>5, <3>1, <3>2, <3>3 DEF RedisTypeOK
    <2> DEFINE now == IF lost THEN "done" ELSE "held"
    <2>7. owner' = [owner EXCEPT ![p] = now] /\ now \in Owners \ {"idle"}
        BY <1>1 DEF Acquire, Owners
    <2> HIDE DEF now
    <2>8. OwnersMove
        BY <2>2, <2>7, OwnerMoves
    <2>9. Fresh
        BY <1>a, <2>2, <2>7, <2>8 DEF OwnersMove, Others, OwnerTypeOK
    <2> QED BY <1>0, <1>a, <2>2, <2>6, <2>8, <2>9
<1>2. ASSUME NEW p \in Permits, Renew(p)
      PROVE  TypeOK' /\ OwnersHaveCalls'
    <2> DEFINE c == permit[p].chan
    <2>1. /\ c \in Channels
          /\ permit' \in [Permits -> Attempts]
          /\ \A q \in Permits : permit'[q].status = permit[q].status
          /\ slots' \in [Channels -> [Permits -> 0 .. PermitTTL]]
          /\ origin' = RenewProbe(origin, p, "origin", FenceCurrent(p))
          /\ channel' = [channel EXCEPT ![c] =
                RenewProbe(channel[c], p, "channel", FenceCurrent(p) /\ BindingCurrent(p))]
        BY <1>2, RenewFacts
    <2>2. UNCHANGED <<bound, control, enabled, cooldown, evidence, rpd, epoch, owner, tries, resets>>
        BY <1>2 DEF Renew
    <2>3. /\ FenceCurrent(p) \in BOOLEAN /\ (FenceCurrent(p) /\ BindingCurrent(p)) \in BOOLEAN
          /\ "origin" \in Scopes /\ "channel" \in Scopes
        BY DEF FenceCurrent, BindingCurrent, Scopes
    <2>4. origin \in Breakers /\ channel[c] \in Breakers
        BY <1>a, <2>1 DEF RedisTypeOK
    <2> HIDE DEF c
    <2>5. /\ origin' \in Breakers
          /\ RenewProbe(channel[c], p, "channel", FenceCurrent(p) /\ BindingCurrent(p)) \in Breakers
        BY <2>1, <2>3, <2>4, RenewProbeFacts DEF SameBreaker
    <2>6. RedisTypeOK'
        BY <1>a, <2>1, <2>2, <2>5 DEF RedisTypeOK
    <2>7. OwnersMove
        BY <2>2, OwnersStay
    <2>8. Fresh
        BY <1>a, <2>1, <2>7 DEF OwnersMove
    <2> QED BY <1>0, <1>a, <2>2, <2>6, <2>7, <2>8
<1>3. ASSUME NEW p \in Permits, NEW how \in {"finish", "abort"}, BeginEnd(p, how)
      PROVE  TypeOK' /\ OwnersHaveCalls'
    <2>1. UNCHANGED redisVars /\ UNCHANGED <<enabled, epoch, tries, resets, permit>>
        BY <1>3 DEF BeginEnd, redisVars
    <2>2. OwnersMove
        BY <1>3, OwnerMoves DEF BeginEnd, Owners
    <2> QED BY <1>0, <1>a, <1>b, <1>c, <2>1, <2>2
<1>4. ASSUME NEW p \in Permits, NEW a \in Attributions, NEW over \in Lapses, NEW streak \in Lapses,
             NEW replied \in BOOLEAN, Finish(p, a, over, streak, replied)
      PROVE  TypeOK' /\ OwnersHaveCalls'
    <2>1. /\ owner[p] = "finish" /\ UNCHANGED <<enabled, epoch, resets>>
          /\ AfterCall(p, replied, IF a.limited THEN "feedback" ELSE "done")
          /\ UNCHANGED redisVars \/ (permit[p].status = "active" /\ FinishActive(p, a, over, streak))
        BY <1>4 DEF Finish
    <2>2. OwnersMove
        BY <2>1, AfterCallFacts
    <2>3. CASE UNCHANGED redisVars
        <3>1. UNCHANGED permit
            BY <2>3 DEF redisVars
        <3> QED BY <1>0, <1>a, <1>b, <1>c, <2>1, <2>2, <2>3, <3>1
    <2>4. CASE permit[p].status = "active" /\ FinishActive(p, a, over, streak)
        <3>1. over \in BOOLEAN /\ streak \in BOOLEAN
            BY PermitAssumption
        <3>2. /\ Ended(p, "finished") /\ rpd' = rpd + 1
              /\ evidence' \in [channels : SUBSET Channels, models : SUBSET Models]
              /\ origin' \in Breakers /\ channel' \in [Channels -> Breakers]
              /\ UNCHANGED <<bound, control, cooldown>>
            BY <2>4, <3>1, FinishFacts
        <3>3. RedisTypeOK'
            BY <1>a, <3>2 DEF RedisTypeOK, Ended
        <3>4. Fresh
            BY <1>a, <2>2, <2>4, <3>2 DEF OwnersMove, Ended, Others
        <3> QED BY <1>0, <1>a, <2>1, <2>2, <3>3, <3>4
    <2> QED BY <2>1, <2>3, <2>4
<1>5. ASSUME NEW p \in Permits, NEW replied \in BOOLEAN, Abort(p, replied)
      PROVE  TypeOK' /\ OwnersHaveCalls'
    <2>1. /\ owner[p] = "abort" /\ UNCHANGED <<enabled, epoch, resets>>
          /\ AfterCall(p, replied, "done")
          /\ UNCHANGED redisVars \/ (permit[p].status = "active" /\ AbortActive(p))
        BY <1>5 DEF Abort
    <2>2. OwnersMove
        BY <2>1, AfterCallFacts
    <2>3. CASE UNCHANGED redisVars
        <3>1. UNCHANGED permit
            BY <2>3 DEF redisVars
        <3> QED BY <1>0, <1>a, <1>b, <1>c, <2>1, <2>2, <2>3, <3>1
    <2>4. CASE permit[p].status = "active" /\ AbortActive(p)
        <3>1. /\ Ended(p, "aborted") /\ origin' \in Breakers
              /\ channel' \in [Channels -> Breakers]
              /\ UNCHANGED <<bound, control, cooldown, evidence, rpd>>
            BY <2>4, AbortFacts DEF SameBreaker
        <3>2. RedisTypeOK'
            BY <1>a, <3>1 DEF RedisTypeOK, Ended
        <3>3. Fresh
            BY <1>a, <2>2, <2>4, <3>1 DEF OwnersMove, Ended, Others
        <3> QED BY <1>0, <1>a, <2>1, <2>2, <3>2, <3>3
    <2> QED BY <2>1, <2>3, <2>4
<1>6. ASSUME NEW p \in Permits, CallLost(p)
      PROVE  TypeOK' /\ OwnersHaveCalls'
    <2>1. UNCHANGED redisVars /\ UNCHANGED <<enabled, epoch, resets, permit>>
        BY <1>6 DEF CallLost, redisVars
    <2>2. OwnersMove
        BY <1>6, AfterCallFacts DEF CallLost
    <2> QED BY <1>0, <1>a, <1>b, <1>c, <2>1, <2>2
<1>7. ASSUME NEW p \in Permits, Crash(p)
      PROVE  TypeOK' /\ OwnersHaveCalls'
    <2>1. UNCHANGED redisVars /\ UNCHANGED <<enabled, epoch, resets, permit, tries>>
        BY <1>7 DEF Crash, redisVars
    <2>2. OwnersMove
        BY <1>7, <2>1, OwnerMoves DEF Crash, Owners
    <2> QED BY <1>0, <1>a, <1>b, <1>c, <2>1, <2>2
<1>8. ASSUME NEW p \in Permits, NEW ticks \in CooldownTicks, SetCooldown(p, ticks)
      PROVE  TypeOK' /\ OwnersHaveCalls'
    <2>1. /\ ticks \in Nat /\ owner' = [owner EXCEPT ![p] = "done"]
          /\ UNCHANGED <<origin, channel, bound, control, evidence, slots, permit, rpd,
                         enabled, epoch, tries, resets>>
        BY <1>8, PermitAssumption DEF SetCooldown
    <2>2. cooldown' \in [Channels -> Nat]
        BY <1>8, <1>a, <2>1 DEF SetCooldown, RedisTypeOK, Attempts
    <2>3. OwnersMove
        BY <2>1, OwnerMoves DEF Owners
    <2>4. RedisTypeOK'
        BY <1>a, <2>1, <2>2 DEF RedisTypeOK
    <2> QED BY <1>0, <1>a, <1>c, <2>1, <2>3, <2>4
<1>9. ASSUME NEW c \in Channels, ResetChannel(c)
      PROVE  TypeOK' /\ OwnersHaveCalls'
    <2>1. /\ channel' = [channel EXCEPT ![c] = ResetScope(channel[c])] /\ resets' = resets + 1
          /\ UNCHANGED <<origin, bound, control, cooldown, evidence, slots, permit, rpd,
                         enabled, epoch, owner, tries>>
        BY <1>9 DEF ResetChannel
    <2>2. channel' \in [Channels -> Breakers]
        BY <1>a, <2>1, ResetTypes DEF RedisTypeOK
    <2>3. RedisTypeOK'
        BY <1>a, <2>1, <2>2 DEF RedisTypeOK
    <2>4. OwnersMove
        BY <2>1, OwnersStay
    <2> QED BY <1>0, <1>a, <1>c, <2>1, <2>3, <2>4
<1>10. CASE ResetOrigin
    <2>1. /\ origin' = ResetScope(origin) /\ resets' = resets + 1 /\ evidence' = NoEvidence
          /\ UNCHANGED <<channel, bound, control, cooldown, slots, permit, rpd,
                         enabled, epoch, owner, tries>>
        BY <1>10 DEF ResetOrigin
    <2>2. RedisTypeOK'
        BY <1>a, <2>1, ResetTypes DEF RedisTypeOK, NoEvidence
    <2>3. OwnersMove
        BY <2>1, OwnersStay
    <2> QED BY <1>0, <1>a, <1>c, <2>1, <2>2, <2>3
<1>11. ASSUME NEW kind \in {"origin", "status"}, PrepareFence(kind)
       PROVE  TypeOK' /\ OwnersHaveCalls'
    <2>1. UNCHANGED <<origin, channel, bound, cooldown, evidence, slots, permit, rpd,
                      enabled, epoch, owner, tries, resets>>
        BY <1>11 DEF PrepareFence
    <2>2. RedisTypeOK'
        BY <1>11, <1>a, <2>1, PrepareFacts DEF RedisTypeOK
    <2>3. OwnersMove
        BY <2>1, OwnersStay
    <2> QED BY <1>0, <1>a, <1>c, <2>1, <2>2, <2>3
<1>12. ASSUME NEW commit \in BOOLEAN, NEW serving \in BOOLEAN, SettleFence(commit, serving)
       PROVE  TypeOK' /\ OwnersHaveCalls'
    <2>1. /\ origin' = ResetScope(origin) /\ evidence' = NoEvidence
          /\ UNCHANGED <<channel, bound, cooldown, slots, permit, rpd,
                         enabled, epoch, owner, tries, resets>>
        BY <1>12 DEF SettleFence
    <2>2. control' \in Controls
        BY <1>12, SettleFacts
    <2>3. RedisTypeOK'
        BY <1>a, <2>1, <2>2, ResetTypes DEF RedisTypeOK, NoEvidence
    <2>4. OwnersMove
        BY <2>1, OwnersStay
    <2> QED BY <1>0, <1>a, <1>c, <2>1, <2>3, <2>4
<1>13. ASSUME NEW committed \in BOOLEAN, ReconcileControl(committed)
       PROVE  TypeOK' /\ OwnersHaveCalls'
    <2>1. UNCHANGED <<origin, channel, bound, cooldown, evidence, slots, permit, rpd,
                      enabled, epoch, owner, tries, resets>>
        BY <1>13 DEF ReconcileControl
    <2>2. RedisTypeOK'
        BY <1>13, <1>a, <2>1, ReconcileFacts DEF RedisTypeOK
    <2>3. OwnersMove
        BY <2>1, OwnersStay
    <2> QED BY <1>0, <1>a, <1>c, <2>1, <2>2, <2>3
<1>14. CASE SwitchBreaker
    <2>1. /\ UNCHANGED redisVars /\ UNCHANGED <<epoch, owner, tries, resets, permit>>
          /\ enabled' \in BOOLEAN
        BY <1>14, <1>a DEF SwitchBreaker, redisVars
    <2>2. OwnersMove
        BY <2>1, OwnersStay
    <2> QED BY <1>0, <1>a, <1>b, <1>c, <2>1, <2>2
<1>15. CASE Tick
    <2>1. UNCHANGED <<bound, control, evidence, rpd, enabled, epoch, owner, tries, resets>>
        BY <1>15 DEF Tick
    <2>2. origin' \in Breakers
        BY <1>15, <1>a, TickTypes DEF Tick, RedisTypeOK
    <2>3. RedisTypeOK'
        BY <1>15, <1>a, <2>1, <2>2, TickFacts DEF RedisTypeOK
    <2>4. OwnersMove
        BY <2>1, OwnersStay
    <2>5. Fresh
        BY <1>15, <1>a, <2>4, TickFacts DEF OwnersMove
    <2> QED BY <1>0, <1>a, <2>1, <2>3, <2>4, <2>5
<1>16. CASE EvidenceLapses
    <2>1. /\ evidence' = NoEvidence
          /\ UNCHANGED <<origin, channel, bound, control, cooldown, slots, permit, rpd,
                         enabled, epoch, owner, tries, resets>>
        BY <1>16 DEF EvidenceLapses
    <2>2. RedisTypeOK'
        BY <1>a, <2>1 DEF RedisTypeOK, NoEvidence
    <2>3. OwnersMove
        BY <2>1, OwnersStay
    <2> QED BY <1>0, <1>a, <1>c, <2>1, <2>2, <2>3
<1>17. CASE LoseState
    <2>1. UNCHANGED <<enabled, owner, tries, resets>>
        BY <1>17 DEF LoseState
    <2>2. OwnersMove
        BY <2>1, OwnersStay
    <2>3. Fresh
        BY <1>17, <1>a, <2>2, LossFacts DEF OwnersMove
    <2>4. TypeOK'
        BY <1>17, LossFacts
    <2> QED BY <2>2, <2>3, <2>4 DEF OwnersMove, OwnersHaveCalls
<1>18. ASSUME NEW p \in Permits, PermitKeyExpires(p)
       PROVE  TypeOK' /\ OwnersHaveCalls'
    <2>1. /\ permit' = [permit EXCEPT ![p].kept = FALSE]
          /\ UNCHANGED <<origin, channel, bound, control, cooldown, evidence, slots, rpd,
                         enabled, epoch, owner, tries, resets>>
        BY <1>18 DEF PermitKeyExpires
    <2>2. permit' \in [Permits -> Attempts]
        BY <1>a, <2>1, LeaseTypes DEF RedisTypeOK
    <2>3. RedisTypeOK'
        BY <1>a, <2>1, <2>2 DEF RedisTypeOK
    <2>4. OwnersMove
        BY <2>1, OwnersStay
    <2>5. \A q \in Permits : permit'[q].status = permit[q].status
        BY <1>a, <2>1 DEF RedisTypeOK, Attempts
    <2>6. Fresh
        BY <1>a, <2>4, <2>5 DEF OwnersMove
    <2> QED BY <1>0, <1>a, <2>1, <2>3, <2>4, <2>6
<1>19. CASE UNCHANGED vars
    <2>1. UNCHANGED redisVars /\ UNCHANGED <<enabled, epoch, owner, tries, resets, permit>>
        BY <1>19 DEF vars, redisVars
    <2>2. OwnersMove
        BY <2>1, OwnersStay
    <2> QED BY <1>0, <1>a, <1>b, <1>c, <2>1, <2>2
<1> HIDE DEF Fresh
<1>20. CASE \E p \in Permits : OwnerStep(p)
    <2> PICK p \in Permits : OwnerStep(p)
        BY <1>20
    <2> QED BY <1>1, <1>2, <1>3, <1>4, <1>5, <1>6, <1>7, <1>8
            DEF OwnerStep, Admit, FinishCall, AbortCall, Feedback
<1>21. CASE Operator
    BY <1>9, <1>10, <1>11, <1>12, <1>13, <1>14, <1>21 DEF Operator
<1>22. CASE Redis
    BY <1>15, <1>16, <1>17, <1>18, <1>22 DEF Redis
<1> QED BY <1>19, <1>20, <1>21, <1>22 DEF Next
-----------------------------------------------------------------------------
(* What every step has in common.                                          *)

LEMMA NextCases ==
    ASSUME [Next]_vars
    PROVE  \/ Quiet
           \/ \E p \in Permits, c \in Channels, m \in Models, cfg \in Nat, lost \in BOOLEAN :
                 Acquire(p, c, m, cfg, lost)
           \/ \E p \in Permits : Renew(p)
           \/ \E p \in Permits, a \in Attributions, over, streak \in BOOLEAN :
                 permit[p].status = "active" /\ FinishActive(p, a, over, streak) /\ epoch' = epoch
           \/ \E p \in Permits :
                 permit[p].status = "active" /\ AbortActive(p) /\ epoch' = epoch
           \/ \E c \in Channels : ResetChannel(c)
           \/ ResetOrigin
           \/ FenceStep
           \/ Tick
           \/ LoseState
           \/ \E p \in Permits : PermitKeyExpires(p)
<1>1. CASE UNCHANGED vars
    BY <1>1 DEF vars, redisVars, Quiet
<1>2. CASE \E p \in Permits : OwnerStep(p)
    <2> PICK p \in Permits : OwnerStep(p)
        BY <1>2
    <2>1. CASE Admit(p)
        <3>1. 1 .. MaxConfig \subseteq Nat
            BY PermitAssumption
        <3> QED BY <2>1, <3>1 DEF Admit
    <2>2. CASE Renew(p)
        BY <2>2
    <2>3. CASE BeginEnd(p, "finish") \/ BeginEnd(p, "abort")
        BY <2>3 DEF BeginEnd, redisVars, Quiet
    <2>4. CASE FinishCall(p)
        <3>1. PICK a \in Attributions, over \in Lapses, streak \in Lapses, replied \in BOOLEAN :
                  Finish(p, a, over, streak, replied)
            BY <2>4 DEF FinishCall
        <3>2. /\ epoch' = epoch
              /\ UNCHANGED redisVars \/ (permit[p].status = "active" /\ FinishActive(p, a, over, streak))
            BY <3>1 DEF Finish
        <3>3. over \in BOOLEAN /\ streak \in BOOLEAN
            BY PermitAssumption
        <3>4. CASE UNCHANGED redisVars
            BY <3>2, <3>4 DEF redisVars, Quiet
        <3>5. CASE permit[p].status = "active" /\ FinishActive(p, a, over, streak)
            BY <3>2, <3>3, <3>5
        <3> QED BY <3>2, <3>4, <3>5
    <2>5. CASE AbortCall(p)
        <3>1. /\ epoch' = epoch
              /\ UNCHANGED redisVars \/ (permit[p].status = "active" /\ AbortActive(p))
            BY <2>5 DEF AbortCall, Abort
        <3> QED BY <3>1 DEF redisVars, Quiet
    <2>6. CASE CallLost(p) \/ Crash(p)
        BY <2>6 DEF CallLost, Crash, redisVars, Quiet
    <2>7. CASE Feedback(p)
        BY <2>7 DEF Feedback, SetCooldown, Quiet
    <2> QED BY <2>1, <2>2, <2>3, <2>4, <2>5, <2>6, <2>7 DEF OwnerStep
<1>3. CASE Operator
    BY <1>3 DEF Operator, FenceStep, SwitchBreaker, redisVars, Quiet
<1>4. CASE Redis
    BY <1>4 DEF Redis, EvidenceLapses, Quiet
<1> QED BY <1>1, <1>2, <1>3, <1>4 DEF Next

\* Generations and the epoch go on; a binding moves with its generation only.
Forward ==
    /\ epoch' = epoch
    /\ origin'.gen >= origin.gen
    /\ \A c \in Channels : /\ channel'[c].gen >= channel[c].gen
                           /\ channel'[c].gen = channel[c].gen => bound'[c] = bound[c]

\* A permit is granted on the terms of the day, and keeps them until it ends.
Started(q) ==
    /\ permit[q].status = "none" /\ permit'[q].status = "active"
    /\ permit'[q].epoch = epoch
    /\ permit'[q].gen["origin"] = origin'.gen
    /\ permit'[q].gen["channel"] = channel'[permit'[q].chan].gen
    /\ permit'[q].originFence = control.originFence
    /\ permit'[q].statusFence = control.statusFence
    /\ control.pending = "none" /\ UNCHANGED control

Onward(q) ==
    /\ SameTerms(q)
    /\ \/ permit'[q].status = permit[q].status
       \/ permit[q].status = "active" /\ permit'[q].status \in {"finished", "aborted"}

LEMMA Movement ==
    ASSUME TypeOK, TypeOK', OwnersHaveCalls, [Next]_vars, ~LoseState
    PROVE  /\ Forward
           /\ \A q \in Permits : Started(q) \/ Onward(q)
           /\ UNCHANGED control \/ FenceStep
<1>0. /\ origin \in Breakers /\ channel \in [Channels -> Breakers]
      /\ permit \in [Permits -> Attempts]
    BY DEF TypeOK, RedisTypeOK
<1>a. origin.gen \in Nat /\ \A c \in Channels : channel[c].gen \in Nat
    BY <1>0 DEF Breakers
<1>b. \A q \in Permits : permit'[q] = permit[q] => Onward(q)
    BY DEF Onward, SameTerms
<1>c. ASSUME UNCHANGED permit PROVE \A q \in Permits : Onward(q)
    BY <1>b, <1>c
<1>1. CASE Quiet
    BY <1>1, <1>a, <1>c DEF Quiet, Forward
<1>2. ASSUME NEW p \in Permits, NEW c \in Channels, NEW m \in Models, NEW cfg \in Nat,
             NEW lost \in BOOLEAN, Acquire(p, c, m, cfg, lost)
      PROVE  Forward /\ (\A q \in Permits : Started(q) \/ Onward(q)) /\ UNCHANGED control
    <2> DEFINE b == Binding(cfg)
               ch == Rotated(c, b)
    <2>1. /\ owner[p] = "idle" /\ control.pending = "none"
          /\ Granted(origin, origin', p, permit'[p].probe["origin"])
          /\ Granted(ch, channel'[c], p, permit'[p].probe["channel"])
          /\ \A d \in Channels \ {c} : channel'[d] = channel[d] /\ bound'[d] = bound[d]
          /\ bound'[c] = b
          /\ permit'[p].status = "active" /\ permit'[p].chan = c /\ permit'[p].epoch = epoch
          /\ permit'[p].gen["origin"] = origin'.gen
          /\ permit'[p].gen["channel"] = channel'[c].gen
          /\ permit'[p].originFence = control.originFence
          /\ permit'[p].statusFence = control.statusFence
          /\ Others(p) /\ UNCHANGED <<control, epoch>>
        BY <1>2, AcquireFacts
    <2>2. \/ bound[c] = b /\ ch = channel[c]
          \/ ch.gen = channel[c].gen + 1
        BY RotatedFacts
    <2>3. origin'.gen \in {origin.gen, origin.gen + 1} /\ channel'[c].gen \in {ch.gen, ch.gen + 1}
        BY <2>1 DEF Granted
    <2> HIDE DEF b, ch
    <2>4. Forward
        BY <1>a, <2>1, <2>2, <2>3 DEF Forward
    <2>5. Started(p)
        BY <2>1 DEF Started, OwnersHaveCalls
    <2>6. \A q \in Permits \ {p} : Onward(q)
        BY <1>b, <2>1 DEF Others
    <2> QED BY <2>1, <2>4, <2>5, <2>6
<1>3. ASSUME NEW p \in Permits, Renew(p)
      PROVE  Forward /\ (\A q \in Permits : Onward(q)) /\ UNCHANGED control
    <2> DEFINE c == permit[p].chan
    <2>1. /\ c \in Channels
          /\ \A q \in Permits : SameTerms(q) /\ permit'[q].status = permit[q].status
          /\ origin' = RenewProbe(origin, p, "origin", FenceCurrent(p))
          /\ channel' = [channel EXCEPT ![c] =
                RenewProbe(channel[c], p, "channel", FenceCurrent(p) /\ BindingCurrent(p))]
        BY <1>3, RenewFacts
    <2>2. UNCHANGED <<bound, control, epoch>>
        BY <1>3 DEF Renew
    <2>3. /\ FenceCurrent(p) \in BOOLEAN /\ (FenceCurrent(p) /\ BindingCurrent(p)) \in BOOLEAN
          /\ "origin" \in Scopes /\ "channel" \in Scopes
        BY DEF FenceCurrent, BindingCurrent, Scopes
    <2> HIDE DEF c
    <2>4. /\ origin'.gen = origin.gen
          /\ RenewProbe(channel[c], p, "channel", FenceCurrent(p) /\ BindingCurrent(p)).gen = channel[c].gen
        BY <1>0, <2>1, <2>3, RenewProbeFacts DEF SameBreaker
    <2>5. \A d \in Channels : channel'[d].gen = channel[d].gen
        BY <1>0, <2>1, <2>4
    <2>6. Forward
        BY <1>a, <2>2, <2>4, <2>5 DEF Forward
    <2> QED BY <2>1, <2>2, <2>6 DEF Onward
<1>4. ASSUME NEW p \in Permits, NEW st \in {"finished", "aborted"}, Ended(p, st)
      PROVE  \A q \in Permits : Onward(q)
    BY <1>4 DEF Ended, Others, Onward
<1>5. ASSUME NEW p \in Permits, NEW a \in Attributions, NEW over \in BOOLEAN, NEW streak \in BOOLEAN,
             permit[p].status = "active", FinishActive(p, a, over, streak), epoch' = epoch
      PROVE  Forward /\ (\A q \in Permits : Onward(q)) /\ UNCHANGED control
    <2>1. /\ Ended(p, "finished") /\ UNCHANGED <<bound, control>>
          /\ Touched(origin, origin', p)
          /\ \A c \in Channels : Touched(channel[c], channel'[c], p)
        BY <1>5, FinishFacts
    <2>2. Forward
        BY <1>5, <1>a, <2>1 DEF Forward, Touched
    <2> QED BY <1>4, <2>1, <2>2
<1>6. ASSUME NEW p \in Permits, permit[p].status = "active", AbortActive(p), epoch' = epoch
      PROVE  Forward /\ (\A q \in Permits : Onward(q)) /\ UNCHANGED control
    <2>1. /\ Ended(p, "aborted") /\ UNCHANGED <<bound, control>>
          /\ SameBreaker(origin, origin')
          /\ \A c \in Channels : SameBreaker(channel[c], channel'[c])
        BY <1>6, AbortFacts
    <2>2. Forward
        BY <1>6, <1>a, <2>1 DEF Forward, SameBreaker
    <2> QED BY <1>4, <2>1, <2>2
<1>7. ASSUME NEW c \in Channels, ResetChannel(c)
      PROVE  Forward /\ (\A q \in Permits : Onward(q)) /\ UNCHANGED control
    <2>1. /\ channel' = [channel EXCEPT ![c] = ResetScope(channel[c])]
          /\ UNCHANGED <<origin, bound, control, permit, epoch>>
        BY <1>7 DEF ResetChannel
    <2>2. ResetScope(channel[c]).gen = channel[c].gen + 1
        BY <1>0, ResetTypes
    <2>3. Forward
        BY <1>0, <1>a, <2>1, <2>2 DEF Forward
    <2> QED BY <1>c, <2>1, <2>3
<1>8. CASE ResetOrigin
    <2>1. origin' = ResetScope(origin) /\ UNCHANGED <<channel, bound, control, permit, epoch>>
        BY <1>8 DEF ResetOrigin
    <2>2. origin'.gen = origin.gen + 1
        BY <1>0, <2>1, ResetTypes
    <2>3. Forward
        BY <1>a, <2>1, <2>2 DEF Forward
    <2> QED BY <1>c, <2>1, <2>3
<1>9. CASE FenceStep
    <2>1. /\ origin' = origin \/ origin' = ResetScope(origin)
          /\ UNCHANGED <<channel, bound, permit, epoch>>
        BY <1>9 DEF FenceStep, PrepareFence, SettleFence, ReconcileControl
    <2>2. ResetScope(origin).gen = origin.gen + 1
        BY <1>0, ResetTypes
    <2>3. Forward
        BY <1>a, <2>1, <2>2 DEF Forward
    <2> QED BY <1>9, <1>c, <2>1, <2>3
<1>10. CASE Tick
    <2>1. /\ origin'.gen = origin.gen /\ \A c \in Channels : channel'[c].gen = channel[c].gen
          /\ UNCHANGED <<bound, control, epoch>>
        BY <1>10, <1>0, TickTypes, TickFacts DEF Tick
    <2>2. Forward
        BY <1>a, <2>1 DEF Forward
    <2> QED BY <1>10, <2>1, <2>2, TickFacts DEF Onward
<1>11. ASSUME NEW p \in Permits, PermitKeyExpires(p)
       PROVE  Forward /\ (\A q \in Permits : Onward(q)) /\ UNCHANGED control
    <2>1. /\ permit' = [permit EXCEPT ![p].kept = FALSE]
          /\ UNCHANGED <<origin, channel, bound, control, epoch>>
        BY <1>11 DEF PermitKeyExpires
    <2>2. \A q \in Permits : Onward(q)
        BY <1>0, <2>1 DEF Onward, SameTerms, Attempts
    <2> QED BY <1>a, <2>1, <2>2 DEF Forward
<1> QED BY <1>1, <1>2, <1>3, <1>5, <1>6, <1>7, <1>8, <1>9, <1>10, <1>11, NextCases

\* Terms stay old.
LEMMA TermsStep ==
    ASSUME TypeOK, TypeOK', OwnersHaveCalls, TermsAreOld, [Next]_vars
    PROVE  TermsAreOld'
<1>1. CASE LoseState
    BY <1>1, LossFacts DEF TermsAreOld, Admitted
<1>2. CASE ~LoseState
    <2>1. Forward /\ \A q \in Permits : Started(q) \/ Onward(q)
        BY <1>2, Movement
    <2>2. /\ origin.gen \in Nat /\ origin'.gen \in Nat
          /\ \A c \in Channels : channel[c].gen \in Nat /\ channel'[c].gen \in Nat
          /\ \A q \in Permits : /\ permit[q].chan \in Channels /\ permit'[q].chan \in Channels
                                /\ permit[q].gen["origin"] \in Nat /\ permit[q].gen["channel"] \in Nat
        BY DEF TypeOK, RedisTypeOK, Breakers, Attempts, Scopes
    <2>3. ASSUME NEW q \in Permits, permit'[q].status \in Admitted
          PROVE  /\ permit'[q].epoch = epoch'
                 /\ permit'[q].gen["origin"] <= origin'.gen
                 /\ permit'[q].gen["channel"] <= channel'[permit'[q].chan].gen
        <3>1. CASE Started(q)
            BY <2>1, <2>2, <3>1 DEF Started, Forward
        <3>2. CASE Onward(q)
            <4>1. permit[q].status \in Admitted
                BY <2>3, <3>2 DEF Onward, Admitted
            <4> QED BY <2>1, <2>2, <3>2, <4>1 DEF Onward, SameTerms, Forward, TermsAreOld
        <3> QED BY <2>1, <3>1, <3>2
    <2> QED BY <2>3 DEF TermsAreOld
<1> QED BY <1>1, <1>2

\* Fences stay old, and a fence that moved on is never current again.
LEMMA FencesStep ==
    ASSUME TypeOK, TypeOK', OwnersHaveCalls, FencesAreOld, [Next]_vars
    PROVE  /\ FencesAreOld'
           /\ ~LoseState => \A q \in Permits :
                 permit'[q].status = "active" /\ Onward(q) /\ FenceCurrent(q)' => FenceCurrent(q)
<1>1. CASE LoseState
    BY <1>1, LossFacts DEF FencesAreOld
<1>2. CASE ~LoseState /\ FenceStep
    <2>1. UNCHANGED permit
        BY <1>2 DEF FenceStep, PrepareFence, SettleFence, ReconcileControl
    <2> QED BY <1>2, <2>1, FencesMove
<1>3. CASE ~LoseState /\ UNCHANGED control
    <2>1. \A q \in Permits : Started(q) \/ Onward(q)
        BY <1>3, Movement
    <2>2. /\ control.originFence \in Nat /\ control.statusFence \in Nat
          /\ \A q \in Permits : permit[q].originFence \in Nat /\ permit[q].statusFence \in Nat
        BY DEF TypeOK, RedisTypeOK, Controls, Attempts
    <2>3. \A q \in Permits : Onward(q) /\ FenceCurrent(q)' => FenceCurrent(q)
        BY <1>3 DEF Onward, SameTerms, FenceCurrent
    <2>4. FencesAreOld'
        BY <1>3, <2>1, <2>2 DEF FencesAreOld, Started, Onward, SameTerms
    <2> QED BY <2>3, <2>4
<1> QED BY <1>1, <1>2, <1>3, Movement
-----------------------------------------------------------------------------
(* Permits are leases.                                                     *)

\* A slot goes with its attempt.
LEMMA SlotsStep ==
    ASSUME TypeOK, TypeOK', OwnersHaveCalls, SlotLivesWithItsLease, [Next]_vars
    PROVE  SlotLivesWithItsLease'
<1> DEFINE Fits(c, q) == slots'[c][q] > 0 =>
              permit'[q].status = "active" /\ permit'[q].chan = c /\ slots'[c][q] = permit'[q].lease
<1>0. /\ slots \in [Channels -> [Permits -> 0 .. PermitTTL]]
      /\ \A c \in Channels, q \in Permits : slots[c][q] \in Nat
      /\ \A q \in Permits : permit[q].lease \in Nat /\ permit[q].chan \in Channels
      /\ permit \in [Permits -> Attempts]
    BY PermitAssumption DEF TypeOK, RedisTypeOK, Attempts
<1>a. ASSUME NEW c \in Channels, NEW q \in Permits,
             permit'[q] = permit[q], slots'[c][q] = slots[c][q]
      PROVE  Fits(c, q)
    BY <1>a DEF SlotLivesWithItsLease
<1>b. ASSUME UNCHANGED <<permit, slots>> PROVE \A c \in Channels, q \in Permits : Fits(c, q)
    BY <1>b DEF SlotLivesWithItsLease
<1>1. ASSUME NEW p \in Permits, NEW c \in Channels, NEW m \in Models, NEW cfg \in Nat,
             NEW lost \in BOOLEAN, Acquire(p, c, m, cfg, lost)
      PROVE  \A d \in Channels, q \in Permits : Fits(d, q)
    <2>1. /\ permit[p].status = "none" /\ slots' = [slots EXCEPT ![c][p] = PermitTTL]
          /\ permit'[p].status = "active" /\ permit'[p].lease = PermitTTL /\ permit'[p].chan = c
          /\ Others(p)
        BY <1>1, AcquireFacts DEF OwnersHaveCalls
    <2>2. \A d \in Channels : slots[d][p] = 0
        BY <1>0, <2>1 DEF SlotLivesWithItsLease
    <2>3. \A d \in Channels : Fits(d, p)
        BY <1>0, <2>1, <2>2
    <2>4. \A d \in Channels, q \in Permits \ {p} : slots'[d][q] = slots[d][q]
        BY <1>0, <2>1
    <2>5. \A d \in Channels, q \in Permits \ {p} : Fits(d, q)
        BY <1>a, <2>1, <2>4 DEF Others
    <2> QED BY <2>3, <2>5
<1>2. ASSUME NEW p \in Permits, Renew(p)
      PROVE  \A d \in Channels, q \in Permits : Fits(d, q)
    <2>1. /\ permit[p].status = "active" /\ Others(p)
          /\ \A q \in Permits : SameTerms(q) /\ permit'[q].status = permit[q].status
          /\ permit'[p].lease = PermitTTL
          /\ \A d \in Channels, q \in Permits :
               slots'[d][q] = IF d = permit[p].chan /\ q = p /\ slots[d][q] > 0 THEN PermitTTL
                              ELSE slots[d][q]
        BY <1>2, RenewFacts
    <2>2. \A d \in Channels : Fits(d, p)
        BY <1>0, <2>1 DEF SlotLivesWithItsLease, SameTerms
    <2>3. \A d \in Channels, q \in Permits \ {p} : Fits(d, q)
        BY <1>a, <2>1 DEF Others
    <2> QED BY <2>2, <2>3
<1>3. ASSUME NEW p \in Permits, NEW st \in {"finished", "aborted"}, Ended(p, st)
      PROVE  \A d \in Channels, q \in Permits : Fits(d, q)
    <2>1. \A d \in Channels : slots'[d][p] = 0
        BY <1>0, <1>3 DEF Ended, SlotLivesWithItsLease
    <2>2. \A d \in Channels, q \in Permits \ {p} : Fits(d, q)
        BY <1>a, <1>3 DEF Ended, Others
    <2> QED BY <2>1, <2>2
<1>4. ASSUME Tick
      PROVE  \A d \in Channels, q \in Permits : Fits(d, q)
    <2>1. /\ \A q \in Permits : /\ SameTerms(q) /\ permit'[q].status = permit[q].status
                                /\ permit'[q].lease = Less(permit[q].lease)
          /\ \A c \in Channels, q \in Permits : slots'[c][q] = Less(slots[c][q])
        BY <1>4, TickFacts
    <2> QED BY <1>0, <2>1 DEF SlotLivesWithItsLease, SameTerms, Less
<1>5. ASSUME NEW p \in Permits, PermitKeyExpires(p)
      PROVE  \A d \in Channels, q \in Permits : Fits(d, q)
    <2>1. permit' = [permit EXCEPT ![p].kept = FALSE] /\ UNCHANGED slots
        BY <1>5 DEF PermitKeyExpires
    <2>2. \A q \in Permits : /\ permit'[q].status = permit[q].status
                             /\ permit'[q].chan = permit[q].chan /\ permit'[q].lease = permit[q].lease
        BY <1>0, <2>1 DEF Attempts
    <2> QED BY <2>1, <2>2 DEF SlotLivesWithItsLease
<1>6. ASSUME LoseState
      PROVE  \A d \in Channels, q \in Permits : Fits(d, q)
    BY <1>0, <1>6, LossFacts
<1>7. ASSUME Quiet
      PROVE  \A d \in Channels, q \in Permits : Fits(d, q)
    BY <1>7, <1>b DEF Quiet
<1>8. ASSUME FenceStep \/ ResetOrigin \/ \E c \in Channels : ResetChannel(c)
      PROVE  \A d \in Channels, q \in Permits : Fits(d, q)
    BY <1>8, <1>b DEF FenceStep, PrepareFence, SettleFence, ReconcileControl, ResetOrigin, ResetChannel
<1>9. \A c \in Channels, q \in Permits : Fits(c, q)
    <2>1. ASSUME NEW p \in Permits, NEW a \in Attributions, NEW over \in BOOLEAN,
                 NEW streak \in BOOLEAN, permit[p].status = "active", FinishActive(p, a, over, streak)
          PROVE  Ended(p, "finished")
        BY <2>1, FinishFacts
    <2>2. ASSUME NEW p \in Permits, permit[p].status = "active", AbortActive(p)
          PROVE  Ended(p, "aborted")
        BY <2>2, AbortFacts
    <2> HIDE DEF Fits
    <2> QED BY <1>1, <1>2, <1>3, <1>4, <1>5, <1>6, <1>7, <1>8, <2>1, <2>2, NextCases
<1> QED BY <1>9 DEF SlotLivesWithItsLease

\* Only an admission adds to the live slots of a channel, within its limit.
LEMMA LiveMoves ==
    ASSUME TypeOK, TypeOK', [Next]_vars
    PROVE  \/ /\ \A c \in Channels : Live(c)' \subseteq Live(c)
              /\ \A q \in Permits : permit'[q].status = "none" <=> permit[q].status = "none"
           \/ \E p \in Permits, c \in Channels :
                /\ owner[p] = "idle" /\ permit'[p].status # "none" /\ Others(p)
                /\ ChannelLimit > 0 => Cardinality(Live(c)) < ChannelLimit
                /\ Live(c)' = Live(c) \cup {p}
                /\ \A d \in Channels \ {c} : Live(d)' = Live(d)
<1>0. /\ slots \in [Channels -> [Permits -> 0 .. PermitTTL]] /\ PermitTTL > 0 /\ ~(0 > 0)
      /\ \A c \in Channels, q \in Permits : slots[c][q] \in Nat
      /\ permit \in [Permits -> Attempts]
    BY PermitAssumption DEF TypeOK, RedisTypeOK
<1> DEFINE Falls == /\ \A c \in Channels, q \in Permits : slots'[c][q] > 0 => slots[c][q] > 0
                    /\ \A q \in Permits : permit'[q].status = "none" <=> permit[q].status = "none"
<1>a. ASSUME Falls
      PROVE  /\ \A c \in Channels : Live(c)' \subseteq Live(c)
             /\ \A q \in Permits : permit'[q].status = "none" <=> permit[q].status = "none"
    BY <1>a DEF Live
<1>1. ASSUME NEW p \in Permits, NEW c \in Channels, NEW m \in Models, NEW cfg \in Nat,
             NEW lost \in BOOLEAN, Acquire(p, c, m, cfg, lost)
      PROVE  /\ owner[p] = "idle" /\ permit'[p].status # "none" /\ Others(p)
             /\ ChannelLimit > 0 => Cardinality(Live(c)) < ChannelLimit
             /\ Live(c)' = Live(c) \cup {p}
             /\ \A d \in Channels \ {c} : Live(d)' = Live(d)
    <2>1. /\ owner[p] = "idle" /\ permit'[p].status = "active" /\ Others(p)
          /\ ChannelLimit > 0 => Cardinality(Live(c)) < ChannelLimit
          /\ slots' = [slots EXCEPT ![c][p] = PermitTTL]
        BY <1>1, AcquireFacts
    <2>2. /\ slots'[c][p] = PermitTTL
          /\ \A d \in Channels, q \in Permits : d # c \/ q # p => slots'[d][q] = slots[d][q]
        BY <1>0, <2>1
    <2>3. Live(c)' = Live(c) \cup {p}
        BY <1>0, <2>2 DEF Live
    <2>4. \A d \in Channels \ {c} : Live(d)' = Live(d)
        BY <2>2 DEF Live
    <2> QED BY <2>1, <2>3, <2>4
<1>2. ASSUME NEW p \in Permits, Renew(p) PROVE Falls
    <2>1. /\ \A d \in Channels, q \in Permits :
               slots'[d][q] = IF d = permit[p].chan /\ q = p /\ slots[d][q] > 0 THEN PermitTTL
                              ELSE slots[d][q]
          /\ \A q \in Permits : permit'[q].status = permit[q].status
        BY <1>2, RenewFacts
    <2> QED BY <2>1
<1>3. ASSUME NEW p \in Permits, NEW st \in {"finished", "aborted"}, Ended(p, st) PROVE Falls
    BY <1>0, <1>3 DEF Ended, Others
<1>4. CASE Tick
    <2>1. /\ \A c \in Channels, q \in Permits : slots'[c][q] = Less(slots[c][q])
          /\ \A q \in Permits : permit'[q].status = permit[q].status
        BY <1>4, TickFacts
    <2>2. Falls
        BY <1>0, <2>1 DEF Less
    <2> QED BY <1>a, <2>2
<1>5. CASE LoseState
    <2>1. /\ \A c \in Channels, q \in Permits : slots'[c][q] = 0
          /\ \A q \in Permits : permit'[q].status = "none" <=> permit[q].status = "none"
        BY <1>5, LossFacts
    <2> QED BY <1>0, <1>a, <2>1
<1>6. ASSUME UNCHANGED slots, \A q \in Permits : permit'[q].status = permit[q].status PROVE Falls
    BY <1>6
<1> HIDE DEF Falls
<1>7. ASSUME NEW p \in Permits, NEW a \in Attributions, NEW over \in BOOLEAN,
             NEW streak \in BOOLEAN, permit[p].status = "active", FinishActive(p, a, over, streak)
      PROVE  Falls
    BY <1>3, <1>7, FinishFacts
<1>8. ASSUME NEW p \in Permits, permit[p].status = "active", AbortActive(p)
      PROVE  Falls
    BY <1>3, <1>8, AbortFacts
<1>9. CASE Quiet \/ FenceStep \/ ResetOrigin \/ \E c \in Channels : ResetChannel(c)
    <2>1. UNCHANGED <<permit, slots>>
        BY <1>9 DEF Quiet, FenceStep, PrepareFence, SettleFence, ReconcileControl, ResetOrigin,
                    ResetChannel
    <2> QED BY <1>6, <1>a, <2>1
<1>10. ASSUME NEW p \in Permits, PermitKeyExpires(p)
       PROVE  Falls
    <2>1. permit' = [permit EXCEPT ![p].kept = FALSE] /\ UNCHANGED slots
        BY <1>10 DEF PermitKeyExpires
    <2>2. \A q \in Permits : permit'[q].status = permit[q].status
        BY <1>0, <2>1 DEF Attempts
    <2> QED BY <1>6, <2>1, <2>2
<1>11. CASE \E p \in Permits, c \in Channels, m \in Models, cfg \in Nat, lost \in BOOLEAN :
                Acquire(p, c, m, cfg, lost)
    BY <1>1, <1>11
<1> QED BY <1>2, <1>4, <1>5, <1>7, <1>8, <1>9, <1>10, <1>11, <1>a, NextCases

\* gate_and_acquire.lua's count is enough.
LEMMA LimitStep ==
    ASSUME TypeOK, TypeOK', WithinChannelLimit, [Next]_vars
    PROVE  WithinChannelLimit'
<1> SUFFICES ASSUME ChannelLimit > 0, NEW d \in Channels
             PROVE  Cardinality(Live(d)') <= ChannelLimit
    BY DEF WithinChannelLimit
<1>1. /\ Cardinality(Live(d)) <= ChannelLimit /\ ChannelLimit \in Nat
      /\ \A c \in Channels : IsFiniteSet(Live(c)) /\ Cardinality(Live(c)) \in Nat
    <2>1. \A c \in Channels : IsFiniteSet(Live(c))
        BY PermitAssumption, FS_Subset DEF Live
    <2> QED BY <2>1, PermitAssumption, FS_CardinalityType DEF WithinChannelLimit
<1>2. CASE \A c \in Channels : Live(c)' \subseteq Live(c)
    <2>1. Cardinality(Live(d)') <= Cardinality(Live(d)) /\ Cardinality(Live(d)') \in Nat
        BY <1>1, <1>2, FS_Subset, FS_CardinalityType
    <2> QED BY <1>1, <2>1
<1>3. ASSUME NEW p \in Permits, NEW c \in Channels,
             Cardinality(Live(c)) < ChannelLimit, Live(c)' = Live(c) \cup {p},
             \A e \in Channels \ {c} : Live(e)' = Live(e)
      PROVE  Cardinality(Live(d)') <= ChannelLimit
    <2>1. CASE d = c
        <3>1. \/ Cardinality(Live(c) \cup {p}) = Cardinality(Live(c))
              \/ Cardinality(Live(c) \cup {p}) = Cardinality(Live(c)) + 1
            BY <1>1, FS_AddElement
        <3> QED BY <1>1, <1>3, <2>1, <3>1
    <2>2. CASE d # c
        BY <1>1, <1>3, <2>2
    <2> QED BY <2>1, <2>2
<1> QED BY <1>2, <1>3, LiveMoves

ProbeOn(q, s) ==
    /\ permit[q].status = "active" /\ permit[q].lease > 0
    /\ permit[q].probe[s] /\ CurrentFor(q, s)

ProbeHeld(q, s) ==
    /\ Scope(q, s).state = "half_open" /\ Scope(q, s).holder = q
    /\ Scope(q, s).probeFor = permit[q].lease

\* A probe whose result counts after a step counted before it, in the same generation.
LEMMA ProbeWasOn ==
    ASSUME TypeOK, TypeOK', TermsAreOld, NEW q \in Permits, NEW s \in Scopes,
           Forward, Onward(q), FenceCurrent(q)' => FenceCurrent(q),
           permit'[q].lease > 0 => permit[q].lease > 0, ProbeOn(q, s)'
    PROVE  ProbeOn(q, s) /\ Scope(q, s)'.gen = Scope(q, s).gen
<1>1. /\ origin.gen \in Nat /\ origin'.gen \in Nat
      /\ permit[q].chan \in Channels
      /\ permit[q].gen["origin"] \in Nat /\ permit[q].gen["channel"] \in Nat
      /\ \A c \in Channels : channel[c].gen \in Nat /\ channel'[c].gen \in Nat
    BY DEF TypeOK, RedisTypeOK, Breakers, Attempts, Scopes
<1>2. /\ permit'[q].status = "active" /\ permit'[q].lease > 0 /\ permit'[q].probe[s]
      /\ permit'[q].epoch = epoch' /\ FenceCurrent(q)'
      /\ s = "channel" => BindingCurrent(q)'
      /\ permit'[q].gen[s] = Scope(q, s)'.gen
    BY DEF ProbeOn, CurrentFor
<1>3. /\ permit[q].status = "active" /\ permit[q].lease > 0 /\ permit[q].probe[s]
      /\ permit[q].epoch = epoch /\ FenceCurrent(q)
      /\ permit'[q].gen[s] = permit[q].gen[s] /\ permit'[q].chan = permit[q].chan
    BY <1>2 DEF Onward, SameTerms, TermsAreOld, Admitted
<1>4. CASE s = "origin"
    <2>1. permit[q].gen["origin"] = origin'.gen /\ permit[q].gen["origin"] <= origin.gen
        BY <1>2, <1>3, <1>4 DEF Scope, TermsAreOld, Admitted
    <2>2. origin'.gen = origin.gen
        BY <1>1, <2>1 DEF Forward
    <2> QED BY <1>3, <1>4, <2>1, <2>2 DEF ProbeOn, CurrentFor, Scope
<1>5. CASE s = "channel"
    <2> DEFINE c == permit[q].chan
    <2>1. permit[q].gen["channel"] = channel'[c].gen /\ permit[q].gen["channel"] <= channel[c].gen
        BY <1>2, <1>3, <1>5 DEF Scope, TermsAreOld, Admitted
    <2>2. channel'[c].gen = channel[c].gen /\ bound'[c] = bound[c]
        BY <1>1, <2>1 DEF Forward
    <2>3. BindingCurrent(q)
        BY <1>2, <1>3, <1>5, <2>2 DEF BindingCurrent, Onward, SameTerms
    <2> QED BY <1>3, <1>5, <2>1, <2>2, <2>3 DEF ProbeOn, CurrentFor, Scope
<1> QED BY <1>4, <1>5 DEF Scopes

\* take_probe, renew_probe and release_probe hand the half-open lease on only
\* when its holder has lost it.
LEMMA ProbesStep ==
    ASSUME TypeOK, TypeOK', OwnersHaveCalls, TermsAreOld, FencesAreOld,
           LiveProbeOwnsTheLease, [Next]_vars
    PROVE  LiveProbeOwnsTheLease'
<1>0. \A q \in Permits, s \in Scopes : ProbeOn(q, s) => ProbeHeld(q, s)
    BY DEF LiveProbeOwnsTheLease, ProbeOn, ProbeHeld
<1> SUFFICES ASSUME NEW q \in Permits, NEW s \in Scopes, ProbeOn(q, s)'
             PROVE  ProbeHeld(q, s)'
    BY DEF LiveProbeOwnsTheLease, ProbeOn, ProbeHeld
<1>a. /\ permit'[q].status = "active" /\ permit'[q].lease > 0 /\ permit'[q].probe[s]
      /\ FenceCurrent(q)'
    BY DEF ProbeOn, CurrentFor
<1>b. s \in {"origin", "channel"}
    BY DEF Scopes
<1>c. /\ origin \in Breakers /\ channel \in [Channels -> Breakers]
      /\ permit \in [Permits -> Attempts] /\ permit[q].chan \in Channels
      /\ permit[q].lease \in Nat
      /\ origin.gen \in Nat /\ \A c \in Channels : channel[c].gen \in Nat
    BY PermitAssumption DEF TypeOK, RedisTypeOK, Attempts, Breakers
<1>1. CASE LoseState
    BY <1>1, <1>a, LossFacts
<1>d. ASSUME ~LoseState, Onward(q), permit'[q].lease > 0 => permit[q].lease > 0
      PROVE  /\ ProbeOn(q, s) /\ ProbeHeld(q, s) /\ permit'[q].chan = permit[q].chan
             /\ Scope(q, s)'.gen = Scope(q, s).gen
    <2>1. Forward /\ (FenceCurrent(q)' => FenceCurrent(q))
        BY <1>a, <1>d, Movement, FencesStep
    <2>2. ProbeOn(q, s) /\ Scope(q, s)'.gen = Scope(q, s).gen
        BY <1>d, <2>1, ProbeWasOn
    <2> QED BY <1>0, <1>d, <2>2 DEF Onward, SameTerms
<1>e. ASSUME permit'[q] = permit[q] PROVE Onward(q)
    BY <1>e DEF Onward, SameTerms
<1>2. ASSUME NEW p \in Permits, NEW c \in Channels, NEW m \in Models, NEW cfg \in Nat,
             NEW lost \in BOOLEAN, Acquire(p, c, m, cfg, lost), ~LoseState
      PROVE  ProbeHeld(q, s)'
    <2> DEFINE b == Binding(cfg)
               ch == Rotated(c, b)
    <2>1. /\ Granted(origin, origin', p, permit'[p].probe["origin"])
          /\ Granted(ch, channel'[c], p, permit'[p].probe["channel"])
          /\ \A d \in Channels \ {c} : channel'[d] = channel[d]
          /\ permit'[p].chan = c /\ permit'[p].lease = PermitTTL
          /\ Others(p)
        BY <1>2, AcquireFacts
    <2>2. (bound[c] = b /\ ch = channel[c]) \/ ch.gen = channel[c].gen + 1
        BY RotatedFacts
    <2> HIDE DEF ch
    <2>3. CASE q = p
        BY <1>a, <1>b, <2>1, <2>3 DEF Granted, ProbeHeld, Scope
    <2>4. CASE q # p
        <3>1. permit'[q] = permit[q]
            BY <2>1, <2>4 DEF Others
        <3>2. /\ ProbeOn(q, s) /\ ProbeHeld(q, s) /\ permit'[q].chan = permit[q].chan
              /\ Scope(q, s)'.gen = Scope(q, s).gen
            BY <1>2, <1>d, <1>e, <3>1
        <3>3. CASE s = "origin"
            BY <3>1, <3>2, <3>3, <2>1 DEF Granted, ProbeOn, ProbeHeld, Scope
        <3>4. CASE s = "channel" /\ permit[q].chan = c
            <4>1. channel'[c].gen = channel[c].gen
                BY <3>1, <3>2, <3>4 DEF Scope
            <4>2. ch = channel[c]
                BY <1>c, <2>1, <2>2, <3>4, <4>1 DEF Granted
            <4> QED BY <3>1, <3>2, <3>4, <4>1, <4>2, <2>1 DEF Granted, ProbeOn, ProbeHeld, Scope
        <3>5. CASE s = "channel" /\ permit[q].chan # c
            BY <1>c, <2>1, <3>1, <3>2, <3>5 DEF ProbeHeld, Scope
        <3> QED BY <1>b, <3>3, <3>4, <3>5
    <2> QED BY <2>3, <2>4
<1>3. ASSUME NEW p \in Permits, Renew(p), ~LoseState
      PROVE  ProbeHeld(q, s)'
    <2> DEFINE c == permit[p].chan
    <2>1. /\ c \in Channels /\ permit[p].lease > 0 /\ Others(p)
          /\ \A r \in Permits : SameTerms(r) /\ permit'[r].status = permit[r].status
          /\ permit'[p].lease = PermitTTL
          /\ origin' = RenewProbe(origin, p, "origin", FenceCurrent(p))
          /\ channel' = [channel EXCEPT ![c] =
                RenewProbe(channel[c], p, "channel", FenceCurrent(p) /\ BindingCurrent(p))]
        BY <1>3, RenewFacts
    <2>2. permit[q].lease > 0
        BY <1>a, <2>1 DEF Others
    <2>3. /\ ProbeOn(q, s) /\ ProbeHeld(q, s) /\ permit'[q].chan = permit[q].chan
        BY <1>3, <1>d, <2>1, <2>2 DEF Onward
    <2>4. /\ FenceCurrent(p) \in BOOLEAN /\ (FenceCurrent(p) /\ BindingCurrent(p)) \in BOOLEAN
          /\ "origin" \in Scopes /\ "channel" \in Scopes
        BY DEF FenceCurrent, BindingCurrent, Scopes
    <2> DEFINE c1 == RenewProbe(channel[c], p, "channel", FenceCurrent(p) /\ BindingCurrent(p))
    <2>5. /\ SameBreaker(origin, origin') /\ origin'.holder = origin.holder
          /\ origin.holder # p => origin' = origin
          /\ FenceCurrent(p) /\ permit[p].probe["origin"] /\ origin.gen = permit[p].gen["origin"]
                /\ origin.holder = p => origin'.probeFor = PermitTTL
        BY <1>c, <2>1, <2>4, RenewProbeFacts
    <2>6. /\ SameBreaker(channel[c], c1) /\ c1.holder = channel[c].holder
          /\ channel[c].holder # p => c1 = channel[c]
          /\ FenceCurrent(p) /\ BindingCurrent(p) /\ permit[p].probe["channel"]
                /\ channel[c].gen = permit[p].gen["channel"] /\ channel[c].holder = p
                => c1.probeFor = PermitTTL
        <3> DEFINE current == FenceCurrent(p) /\ BindingCurrent(p)
        <3>1. channel[c] \in Breakers /\ current \in BOOLEAN
            BY <1>c, <2>1, <2>4
        <3> HIDE DEF current, c
        <3>2. /\ SameBreaker(channel[c], c1) /\ c1.holder = channel[c].holder
              /\ channel[c].holder # p => c1 = channel[c]
              /\ current /\ permit[p].probe["channel"]
                    /\ channel[c].gen = permit[p].gen["channel"] /\ channel[c].holder = p
                    => c1.probeFor = PermitTTL
            <4>1. c1 = RenewProbe(channel[c], p, "channel", current)
                BY DEF current
            <4> HIDE DEF c1
            <4> QED BY <2>4, <3>1, <4>1, RenewProbeFacts
        <3> QED BY <3>2 DEF current
    <2> HIDE DEF c1
    <2>7. channel'[c] = c1 /\ \A d \in Channels \ {c} : channel'[d] = channel[d]
        BY <1>c, <2>1 DEF c1
    <2>8. CASE q = p /\ s = "origin"
        BY <2>1, <2>3, <2>5, <2>8 DEF ProbeOn, ProbeHeld, CurrentFor, Scope, SameBreaker
    <2>9. CASE q = p /\ s = "channel"
        BY <2>1, <2>3, <2>6, <2>7, <2>9 DEF ProbeOn, ProbeHeld, CurrentFor, Scope, SameBreaker
    <2>10. CASE q # p
        <3>1. permit'[q] = permit[q]
            BY <2>1, <2>10 DEF Others
        <3>2. CASE s = "origin"
            BY <2>3, <2>5, <2>10, <3>1, <3>2 DEF ProbeHeld, Scope
        <3>3. CASE s = "channel"
            BY <1>c, <2>3, <2>6, <2>7, <2>10, <3>1, <3>3 DEF ProbeHeld, Scope
        <3> QED BY <1>b, <3>2, <3>3
    <2> QED BY <1>b, <2>8, <2>9, <2>10
<1>4. ASSUME NEW p \in Permits, NEW st \in {"finished", "aborted"}, Ended(p, st), ~LoseState,
             Touched(origin, origin', p), \A c \in Channels : Touched(channel[c], channel'[c], p)
      PROVE  ProbeHeld(q, s)'
    <2>1. q # p /\ permit'[q] = permit[q]
        BY <1>4, <1>a DEF Ended, Others
    <2>2. /\ ProbeHeld(q, s) /\ permit'[q].chan = permit[q].chan
          /\ Scope(q, s)'.gen = Scope(q, s).gen
        BY <1>4, <1>d, <1>e, <2>1
    <2>3. CASE s = "origin"
        BY <1>4, <2>1, <2>2, <2>3 DEF Touched, ProbeHeld, Scope
    <2>4. CASE s = "channel"
        BY <1>4, <1>c, <2>1, <2>2, <2>4 DEF Touched, ProbeHeld, Scope
    <2> QED BY <1>b, <2>3, <2>4
<1>5. ASSUME NEW p \in Permits, NEW a \in Attributions, NEW over \in BOOLEAN, NEW streak \in BOOLEAN,
             permit[p].status = "active", FinishActive(p, a, over, streak), ~LoseState
      PROVE  ProbeHeld(q, s)'
    BY <1>4, <1>5, FinishFacts
<1>6. ASSUME NEW p \in Permits, permit[p].status = "active", AbortActive(p), ~LoseState
      PROVE  ProbeHeld(q, s)'
    <2>1. /\ Ended(p, "aborted")
          /\ SameBreaker(origin, origin') /\ (origin.holder # p => origin' = origin)
          /\ \A c \in Channels : /\ SameBreaker(channel[c], channel'[c])
                                 /\ channel[c].holder # p => channel'[c] = channel[c]
        BY <1>6, AbortFacts
    <2>2. Touched(origin, origin', p) /\ \A c \in Channels : Touched(channel[c], channel'[c], p)
        BY <1>c, <2>1 DEF Touched, SameBreaker
    <2> QED BY <1>4, <1>6, <2>1, <2>2
<1>7. ASSUME NEW c \in Channels, ResetChannel(c), ~LoseState
      PROVE  ProbeHeld(q, s)'
    <2>1. /\ channel' = [channel EXCEPT ![c] = ResetScope(channel[c])] /\ UNCHANGED <<origin, permit>>
        BY <1>7 DEF ResetChannel
    <2>2. ResetScope(channel[c]).gen = channel[c].gen + 1
        BY <1>c, ResetTypes
    <2>3. /\ ProbeHeld(q, s) /\ Scope(q, s)'.gen = Scope(q, s).gen
        BY <1>7, <1>d, <1>e, <2>1
    <2>4. s = "origin" \/ permit[q].chan # c
        BY <1>b, <1>c, <2>1, <2>2, <2>3 DEF Scope
    <2> QED BY <1>b, <1>c, <2>1, <2>3, <2>4 DEF ProbeHeld, Scope
<1>8. ASSUME ResetOrigin, ~LoseState
      PROVE  ProbeHeld(q, s)'
    <2>1. origin' = ResetScope(origin) /\ UNCHANGED <<channel, permit>>
        BY <1>8 DEF ResetOrigin
    <2>2. origin'.gen = origin.gen + 1
        BY <1>c, <2>1, ResetTypes
    <2>3. /\ ProbeHeld(q, s) /\ Scope(q, s)'.gen = Scope(q, s).gen
        BY <1>8, <1>d, <1>e, <2>1
    <2>4. s = "channel"
        BY <1>b, <1>c, <2>2, <2>3 DEF Scope
    <2> QED BY <2>1, <2>3, <2>4 DEF ProbeHeld, Scope
<1>9. CASE FenceStep
    <2>1. UNCHANGED permit
        BY <1>9 DEF FenceStep, PrepareFence, SettleFence, ReconcileControl
    <2> QED BY <1>9, <1>a, <2>1, FencesMove
<1>10. ASSUME Tick, ~LoseState
       PROVE  ProbeHeld(q, s)'
    <2>1. /\ SameTerms(q) /\ permit'[q].status = permit[q].status
          /\ permit'[q].lease = Less(permit[q].lease)
          /\ \A c \in Channels : channel'[c] = TickScope(channel[c])
          /\ origin' = TickScope(origin)
        BY <1>10, TickFacts DEF Tick
    <2>2. permit[q].lease > 0
        BY <1>a, <1>c, <2>1 DEF Less
    <2>3. ProbeHeld(q, s) /\ permit'[q].chan = permit[q].chan
        BY <1>10, <1>d, <2>1, <2>2 DEF Onward
    <2>4. /\ origin'.state = origin.state /\ origin'.holder = origin.holder
          /\ origin'.probeFor = Less(origin.probeFor)
        BY <1>c, <2>1, TickTypes
    <2>5. \A c \in Channels : /\ channel'[c].state = channel[c].state
                              /\ channel'[c].holder = channel[c].holder
                              /\ channel'[c].probeFor = Less(channel[c].probeFor)
        BY <1>c, <2>1, TickTypes
    <2> QED BY <1>b, <1>c, <2>1, <2>3, <2>4, <2>5 DEF ProbeHeld, Scope
<1>11. ASSUME NEW p \in Permits, PermitKeyExpires(p), ~LoseState
       PROVE  ProbeHeld(q, s)'
    <2>1. permit' = [permit EXCEPT ![p].kept = FALSE] /\ UNCHANGED <<origin, channel>>
        BY <1>11 DEF PermitKeyExpires
    <2>2. /\ SameTerms(q) /\ permit'[q].status = permit[q].status
          /\ permit'[q].lease = permit[q].lease
        BY <1>c, <2>1 DEF SameTerms, Attempts
    <2>3. ProbeHeld(q, s) /\ permit'[q].chan = permit[q].chan
        BY <1>11, <1>d, <2>2 DEF Onward
    <2> QED BY <2>1, <2>2, <2>3 DEF ProbeHeld, Scope
<1>12. ASSUME Quiet, ~LoseState
       PROVE  ProbeHeld(q, s)'
    <2>1. UNCHANGED <<origin, channel, permit>>
        BY <1>12 DEF Quiet
    <2>2. ProbeHeld(q, s)
        BY <1>12, <1>d, <1>e, <2>1
    <2> QED BY <2>1, <2>2 DEF ProbeHeld, Scope
<1> QED BY <1>1, <1>2, <1>3, <1>5, <1>6, <1>7, <1>8, <1>9, <1>10, <1>11, <1>12, NextCases
-----------------------------------------------------------------------------
(* Every outcome counts once.                                              *)

FinishedOnes == {p \in Permits : permit[p].status = "finished"}

\* The attribution bucket moves with the finished attempts.
LEMMA AttributedStep ==
    ASSUME TypeOK, TypeOK', OwnersHaveCalls, AttributedOnce, [Next]_vars
    PROVE  AttributedOnce'
<1>0. /\ rpd = Cardinality(FinishedOnes)
      /\ permit \in [Permits -> Attempts]
    BY DEF AttributedOnce, FinishedOnes, TypeOK, RedisTypeOK
<1>a. ASSUME FinishedOnes' = FinishedOnes, rpd' = rpd PROVE AttributedOnce'
    BY <1>0, <1>a DEF AttributedOnce, FinishedOnes
<1>b. ASSUME \A q \in Permits : permit'[q].status = permit[q].status, rpd' = rpd
      PROVE  AttributedOnce'
    BY <1>a, <1>b DEF FinishedOnes
<1>1. ASSUME NEW p \in Permits, NEW c \in Channels, NEW m \in Models, NEW cfg \in Nat,
             NEW lost \in BOOLEAN, Acquire(p, c, m, cfg, lost)
      PROVE  AttributedOnce'
    <2>1. /\ permit[p].status = "none" /\ permit'[p].status = "active" /\ Others(p) /\ rpd' = rpd
        BY <1>1, AcquireFacts DEF OwnersHaveCalls
    <2>2. FinishedOnes' = FinishedOnes
        BY <2>1 DEF FinishedOnes, Others
    <2> QED BY <1>a, <2>1, <2>2
<1>2. ASSUME NEW p \in Permits, NEW a \in Attributions, NEW over \in BOOLEAN, NEW streak \in BOOLEAN,
             permit[p].status = "active", FinishActive(p, a, over, streak)
      PROVE  AttributedOnce'
    <2>1. Ended(p, "finished") /\ rpd' = rpd + 1
        BY <1>2, FinishFacts
    <2>2. p \notin FinishedOnes /\ FinishedOnes' = FinishedOnes \cup {p}
        BY <2>1 DEF FinishedOnes, Ended, Others
    <2>3. IsFiniteSet(FinishedOnes)
        BY PermitAssumption, FS_Subset DEF FinishedOnes
    <2>4. Cardinality(FinishedOnes \cup {p}) = Cardinality(FinishedOnes) + 1
        BY <2>2, <2>3, FS_AddElement
    <2> QED BY <1>0, <2>1, <2>2, <2>4 DEF AttributedOnce, FinishedOnes
<1>3. ASSUME NEW p \in Permits, permit[p].status = "active", AbortActive(p)
      PROVE  AttributedOnce'
    <2>1. Ended(p, "aborted") /\ rpd' = rpd
        BY <1>3, AbortFacts
    <2>2. FinishedOnes' = FinishedOnes
        BY <2>1 DEF FinishedOnes, Ended, Others
    <2> QED BY <1>a, <2>1, <2>2
<1>4. CASE \E p \in Permits : Renew(p)
    BY <1>4, <1>b, RenewFacts DEF Renew
<1>5. CASE Tick
    BY <1>5, <1>b, TickFacts DEF Tick
<1>6. CASE LoseState
    <2>1. FinishedOnes' = {} /\ rpd' = 0
        BY <1>6, LossFacts DEF FinishedOnes
    <2> QED BY <2>1, FS_EmptySet DEF AttributedOnce, FinishedOnes
<1>7. CASE \E p \in Permits : PermitKeyExpires(p)
    <2> PICK p \in Permits : PermitKeyExpires(p)
        BY <1>7
    <2>1. permit' = [permit EXCEPT ![p].kept = FALSE] /\ rpd' = rpd
        BY DEF PermitKeyExpires
    <2>2. \A q \in Permits : permit'[q].status = permit[q].status
        BY <1>0, <2>1 DEF Attempts
    <2> QED BY <1>b, <2>1, <2>2
<1>8. CASE Quiet \/ FenceStep \/ ResetOrigin \/ \E c \in Channels : ResetChannel(c)
    <2>1. UNCHANGED <<permit, rpd>>
        BY <1>8 DEF Quiet, FenceStep, PrepareFence, SettleFence, ReconcileControl, ResetOrigin,
                    ResetChannel
    <2> QED BY <1>b, <2>1
<1> QED BY <1>1, <1>2, <1>3, <1>4, <1>5, <1>6, <1>7, <1>8, NextCases

\* While a breaker's generation stays, the attempts that it counted stay.
LEMMA CountedGrows ==
    ASSUME TypeOK, TypeOK', Forward, \A q \in Permits : Started(q) \/ Onward(q)
    PROVE  /\ origin'.gen = origin.gen => OriginCounted \subseteq OriginCounted'
           /\ \A c \in Channels : channel'[c].gen = channel[c].gen =>
                 ChannelCounted(c) \subseteq ChannelCounted(c)'
<1>1. \A q \in Permits : permit[q].status = "finished" =>
          SameTerms(q) /\ permit'[q].status = "finished"
    BY DEF Started, Onward
<1>2. origin'.gen = origin.gen => OriginCounted \subseteq OriginCounted'
    BY <1>1 DEF OriginCounted, SameTerms, Forward
<1>3. ASSUME NEW c \in Channels, channel'[c].gen = channel[c].gen
      PROVE  ChannelCounted(c) \subseteq ChannelCounted(c)'
    <2>1. bound'[c] = bound[c] /\ epoch' = epoch
        BY <1>3 DEF Forward
    <2>2. ASSUME NEW q \in ChannelCounted(c) PROVE q \in ChannelCounted(c)'
        <3>1. /\ q \in Permits /\ permit[q].status = "finished" /\ permit[q].epoch = epoch
              /\ permit[q].chan = c /\ permit[q].gen["channel"] = channel[c].gen
              /\ BindingCurrent(q)
            BY DEF ChannelCounted
        <3>2. SameTerms(q) /\ permit'[q].status = "finished"
            BY <1>1, <3>1
        <3>3. BindingCurrent(q)'
            BY <2>1, <3>1, <3>2 DEF BindingCurrent, SameTerms
        <3> QED BY <1>3, <2>1, <3>1, <3>2, <3>3 DEF ChannelCounted, SameTerms
    <2> QED BY <2>2
<1> QED BY <1>2, <1>3

\* The window of a breaker has not grown.
Quieter(s, t) ==
    t.state = "closed" =>
        \/ t.succ + t.fail = 0
        \/ /\ s.state = "closed" /\ t.gen = s.gen
           /\ t.succ + t.fail <= s.succ + s.fail

LEMMA WindowsKept ==
    ASSUME TypeOK, TypeOK', WindowCountsItsOwn, Forward, \A q \in Permits : Started(q) \/ Onward(q),
           Quieter(origin, origin'), \A c \in Channels : Quieter(channel[c], channel'[c])
    PROVE  WindowCountsItsOwn'
<1>1. /\ IsFiniteSet(OriginCounted) /\ IsFiniteSet(OriginCounted')
      /\ \A c \in Channels : IsFiniteSet(ChannelCounted(c)) /\ IsFiniteSet(ChannelCounted(c)')
    BY PermitAssumption, FS_Subset DEF OriginCounted, ChannelCounted
<1>2. /\ Cardinality(OriginCounted) \in Nat /\ Cardinality(OriginCounted') \in Nat
      /\ \A c \in Channels : /\ Cardinality(ChannelCounted(c)) \in Nat
                             /\ Cardinality(ChannelCounted(c)') \in Nat
    BY <1>1, FS_CardinalityType
<1>3. /\ origin.succ + origin.fail \in Nat /\ origin'.succ + origin'.fail \in Nat
      /\ \A c \in Channels : /\ channel[c].succ + channel[c].fail \in Nat
                             /\ channel'[c].succ + channel'[c].fail \in Nat
    BY DEF TypeOK, RedisTypeOK, Breakers
<1>4. origin'.gen = origin.gen => Cardinality(OriginCounted) <= Cardinality(OriginCounted')
    BY <1>1, CountedGrows, FS_Subset
<1>5. \A c \in Channels : channel'[c].gen = channel[c].gen =>
          Cardinality(ChannelCounted(c)) <= Cardinality(ChannelCounted(c)')
    BY <1>1, CountedGrows, FS_Subset
<1>6. origin'.state = "closed" => origin'.succ + origin'.fail <= Cardinality(OriginCounted')
    BY <1>2, <1>3, <1>4 DEF Quieter, WindowCountsItsOwn
<1>7. \A c \in Channels : channel'[c].state = "closed" =>
          channel'[c].succ + channel'[c].fail <= Cardinality(ChannelCounted(c)')
    BY <1>2, <1>3, <1>5 DEF Quieter, WindowCountsItsOwn
<1> QED BY <1>6, <1>7 DEF WindowCountsItsOwn

\* One more element, seen through cardinalities.
LEMMA OneMore ==
    ASSUME NEW S, NEW T, IsFiniteSet(T), S \subseteq T, NEW x \in T, x \notin S
    PROVE  Cardinality(S) + 1 <= Cardinality(T)
<1>1. IsFiniteSet(S)
    BY FS_Subset
<1>2. Cardinality(S \cup {x}) = Cardinality(S) + 1
    BY <1>1, FS_AddElement
<1>3. S \cup {x} \subseteq T
    OBVIOUS
<1>4. Cardinality(S \cup {x}) <= Cardinality(T)
    BY <1>3, FS_Subset
<1> QED BY <1>2, <1>4

\* finish.lua adds one sample, and the attempt that it is of.
LEMMA FinishCountsOnce ==
    ASSUME TypeOK, TypeOK', TermsAreOld, WindowCountsItsOwn, Forward,
           \A q \in Permits : Started(q) \/ Onward(q),
           NEW p \in Permits, NEW a \in Attributions, NEW over \in BOOLEAN, NEW streak \in BOOLEAN,
           permit[p].status = "active", FinishActive(p, a, over, streak)
    PROVE  WindowCountsItsOwn'
<1>1. /\ Ended(p, "finished") /\ UNCHANGED bound
      /\ Counts(origin, origin')
      /\ origin.gen # permit[p].gen["origin"] => origin' = origin
      /\ \A c \in Channels :
           /\ Counts(channel[c], channel'[c])
           /\ c # permit[p].chan \/ channel[c].gen # permit[p].gen["channel"] \/ ~BindingCurrent(p)
                => channel'[c] = channel[c]
    BY FinishFacts
<1>2. /\ IsFiniteSet(OriginCounted) /\ IsFiniteSet(OriginCounted')
      /\ \A c \in Channels : IsFiniteSet(ChannelCounted(c)) /\ IsFiniteSet(ChannelCounted(c)')
    BY PermitAssumption, FS_Subset DEF OriginCounted, ChannelCounted
<1>3. /\ Cardinality(OriginCounted) \in Nat /\ Cardinality(OriginCounted') \in Nat
      /\ \A c \in Channels : /\ Cardinality(ChannelCounted(c)) \in Nat
                             /\ Cardinality(ChannelCounted(c)') \in Nat
    BY <1>2, FS_CardinalityType
<1>4. /\ origin.succ + origin.fail \in Nat /\ origin'.succ + origin'.fail \in Nat
      /\ \A c \in Channels : /\ channel[c].succ + channel[c].fail \in Nat
                             /\ channel'[c].succ + channel'[c].fail \in Nat
    BY DEF TypeOK, RedisTypeOK, Breakers
<1>5. /\ permit'[p].status = "finished" /\ permit'[p].epoch = epoch' /\ SameTerms(p)
      /\ p \notin OriginCounted /\ \A c \in Channels : p \notin ChannelCounted(c)
    BY <1>1 DEF Ended, TermsAreOld, Admitted, SameTerms, Forward, OriginCounted, ChannelCounted
<1>6. origin'.state = "closed" => origin'.succ + origin'.fail <= Cardinality(OriginCounted')
    <2>1. origin'.gen = origin.gen => Cardinality(OriginCounted) <= Cardinality(OriginCounted')
        BY <1>2, CountedGrows, FS_Subset
    <2>2. CASE origin.gen # permit[p].gen["origin"]
        BY <1>1, <1>3, <1>4, <2>1, <2>2 DEF WindowCountsItsOwn
    <2>3. CASE origin.gen = permit[p].gen["origin"]
        <3>1. origin'.gen = origin.gen => Cardinality(OriginCounted) + 1 <= Cardinality(OriginCounted')
            <4>1. ASSUME origin'.gen = origin.gen PROVE p \in OriginCounted'
                BY <1>5, <2>3, <4>1 DEF OriginCounted, SameTerms
            <4> QED BY <1>2, <1>5, <4>1, CountedGrows, OneMore
        <3> QED BY <1>1, <1>3, <1>4, <3>1 DEF Counts, WindowCountsItsOwn
    <2> QED BY <2>2, <2>3
<1>7. ASSUME NEW c \in Channels, channel'[c].state = "closed"
      PROVE  channel'[c].succ + channel'[c].fail <= Cardinality(ChannelCounted(c)')
    <2>1. channel'[c].gen = channel[c].gen =>
              Cardinality(ChannelCounted(c)) <= Cardinality(ChannelCounted(c)')
        BY <1>2, CountedGrows, FS_Subset
    <2>2. CASE channel'[c] = channel[c]
        BY <1>3, <1>4, <1>7, <2>1, <2>2 DEF WindowCountsItsOwn
    <2>3. CASE c = permit[p].chan /\ channel[c].gen = permit[p].gen["channel"] /\ BindingCurrent(p)
        <3>1. BindingCurrent(p)'
            BY <1>1, <1>5, <2>3 DEF BindingCurrent, SameTerms
        <3>2. channel'[c].gen = channel[c].gen =>
                  Cardinality(ChannelCounted(c)) + 1 <= Cardinality(ChannelCounted(c)')
            <4>1. ASSUME channel'[c].gen = channel[c].gen PROVE p \in ChannelCounted(c)'
                BY <1>5, <2>3, <3>1, <4>1 DEF ChannelCounted, SameTerms
            <4> QED BY <1>2, <1>5, <4>1, CountedGrows, OneMore
        <3> QED BY <1>1, <1>3, <1>4, <1>7, <3>2 DEF Counts, WindowCountsItsOwn
    <2> QED BY <1>1, <2>2, <2>3
<1> QED BY <1>6, <1>7 DEF WindowCountsItsOwn

LEMMA WindowsStep ==
    ASSUME TypeOK, TypeOK', OwnersHaveCalls, TermsAreOld, WindowCountsItsOwn, [Next]_vars
    PROVE  WindowCountsItsOwn'
<1>0. /\ origin \in Breakers /\ channel \in [Channels -> Breakers]
    BY DEF TypeOK, RedisTypeOK
<1>a. \A s \in Breakers : Quieter(s, s)
    BY DEF Quieter, Breakers
<1>b. \A t : \A s \in Breakers : t.succ + t.fail = 0 => Quieter(s, t)
    BY DEF Quieter
<1>c. \A t : \A s \in Breakers : SameBreaker(s, t) => Quieter(s, t)
    BY DEF Quieter, SameBreaker, Breakers
<1>1. CASE LoseState
    <2>1. /\ origin'.succ + origin'.fail = 0
          /\ \A c \in Channels : channel'[c].succ + channel'[c].fail = 0
        BY <1>1, LossFacts
    <2>2. /\ Cardinality(OriginCounted') \in Nat
          /\ \A c \in Channels : Cardinality(ChannelCounted(c)') \in Nat
        <3>1. IsFiniteSet(OriginCounted') /\ \A c \in Channels : IsFiniteSet(ChannelCounted(c)')
            BY PermitAssumption, FS_Subset DEF OriginCounted, ChannelCounted
        <3> QED BY <3>1, FS_CardinalityType
    <2> QED BY <2>1, <2>2 DEF WindowCountsItsOwn
<1> SUFFICES ASSUME ~LoseState PROVE WindowCountsItsOwn'
    BY <1>1
<1>2. Forward /\ \A q \in Permits : Started(q) \/ Onward(q)
    BY Movement
<1>d. ASSUME Quieter(origin, origin'), \A c \in Channels : Quieter(channel[c], channel'[c])
      PROVE  WindowCountsItsOwn'
    BY <1>2, <1>d, WindowsKept
<1>e. ASSUME UNCHANGED channel PROVE \A c \in Channels : Quieter(channel[c], channel'[c])
    BY <1>0, <1>a, <1>e
<1>3. ASSUME NEW p \in Permits, NEW c \in Channels, NEW m \in Models, NEW cfg \in Nat,
             NEW lost \in BOOLEAN, Acquire(p, c, m, cfg, lost)
      PROVE  WindowCountsItsOwn'
    <2> DEFINE b == Binding(cfg)
               ch == Rotated(c, b)
    <2>1. /\ Granted(origin, origin', p, permit'[p].probe["origin"])
          /\ Granted(ch, channel'[c], p, permit'[p].probe["channel"])
          /\ \A d \in Channels \ {c} : channel'[d] = channel[d]
        BY <1>3, AcquireFacts
    <2>2. \/ bound[c] = b /\ ch = channel[c]
          \/ ch.gen = channel[c].gen + 1 /\ ch.succ + ch.fail = 0
        BY RotatedFacts
    <2> HIDE DEF b, ch
    <2>3. Quieter(origin, origin')
        BY <1>0, <1>a, <2>1 DEF Granted, Quieter
    <2>4. Quieter(channel[c], channel'[c])
        BY <1>0, <1>a, <2>1, <2>2 DEF Granted, Quieter
    <2> QED BY <1>0, <1>a, <1>d, <2>1, <2>3, <2>4
<1>4. ASSUME NEW p \in Permits, Renew(p)
      PROVE  WindowCountsItsOwn'
    <2> DEFINE c == permit[p].chan
               current == FenceCurrent(p) /\ BindingCurrent(p)
    <2>1. /\ c \in Channels
          /\ origin' = RenewProbe(origin, p, "origin", FenceCurrent(p))
          /\ channel' = [channel EXCEPT ![c] = RenewProbe(channel[c], p, "channel", current)]
        BY <1>4, RenewFacts
    <2>2. /\ FenceCurrent(p) \in BOOLEAN /\ current \in BOOLEAN
          /\ "origin" \in Scopes /\ "channel" \in Scopes
        BY DEF FenceCurrent, BindingCurrent, Scopes
    <2>3. channel[c] \in Breakers
        BY <1>0, <2>1
    <2> HIDE DEF c, current
    <2>4. Quieter(origin, origin')
        BY <1>0, <1>c, <2>1, <2>2, RenewProbeFacts
    <2>5. Quieter(channel[c], RenewProbe(channel[c], p, "channel", current))
        BY <1>c, <2>2, <2>3, RenewProbeFacts
    <2>6. \A d \in Channels : Quieter(channel[d], channel'[d])
        BY <1>0, <1>a, <2>1, <2>5
    <2> QED BY <1>d, <2>4, <2>6
<1>5. ASSUME NEW p \in Permits, NEW a \in Attributions, NEW over \in BOOLEAN, NEW streak \in BOOLEAN,
             permit[p].status = "active", FinishActive(p, a, over, streak)
      PROVE  WindowCountsItsOwn'
    BY <1>2, <1>5, FinishCountsOnce
<1>6. ASSUME NEW p \in Permits, permit[p].status = "active", AbortActive(p)
      PROVE  WindowCountsItsOwn'
    BY <1>0, <1>c, <1>d, <1>6, AbortFacts
<1>7. ASSUME NEW c \in Channels, ResetChannel(c)
      PROVE  WindowCountsItsOwn'
    <2>1. channel' = [channel EXCEPT ![c] = ResetScope(channel[c])] /\ UNCHANGED origin
        BY <1>7 DEF ResetChannel
    <2>2. Quieter(channel[c], ResetScope(channel[c]))
        BY <1>0, <1>b, ResetTypes
    <2> QED BY <1>0, <1>a, <1>d, <2>1, <2>2
<1>8. CASE ResetOrigin \/ FenceStep
    <2>1. (origin' = origin \/ origin' = ResetScope(origin)) /\ UNCHANGED channel
        BY <1>8 DEF ResetOrigin, FenceStep, PrepareFence, SettleFence, ReconcileControl
    <2>2. Quieter(origin, ResetScope(origin))
        BY <1>0, <1>b, ResetTypes
    <2> QED BY <1>0, <1>a, <1>d, <1>e, <2>1, <2>2
<1>9. CASE Tick
    <2>1. \A s \in Breakers : SameBreaker(s, TickScope(s))
        BY TickTypes DEF SameBreaker
    <2>2. origin' = TickScope(origin) /\ \A c \in Channels : channel'[c] = TickScope(channel[c])
        BY <1>9, TickFacts DEF Tick
    <2> QED BY <1>0, <1>c, <1>d, <2>1, <2>2
<1>10. CASE Quiet \/ \E p \in Permits : PermitKeyExpires(p)
    <2>1. UNCHANGED <<origin, channel>>
        BY <1>10 DEF Quiet, PermitKeyExpires
    <2> QED BY <1>0, <1>a, <1>d, <1>e, <2>1
<1> QED BY <1>3, <1>4, <1>5, <1>6, <1>7, <1>8, <1>9, <1>10, NextCases
-----------------------------------------------------------------------------
(* The theorems.                                                           *)

LEMMA InitHolds ==
    ASSUME Init PROVE IInv
<1>1. /\ \A n \in Nat : FreshScope(n) \in Breakers
      /\ origin = FreshScope(1) /\ channel = [c \in Channels |-> FreshScope(0)]
      /\ control = [originRev |-> 1, statusRev |-> 1, originFence |-> 1,
                    statusFence |-> 1, pending |-> "none", serving |-> TRUE]
      /\ bound = [c \in Channels |-> [config |-> 0, originRev |-> 0, statusRev |-> 0]]
      /\ permit = [p \in Permits |-> NoAttempt]
      /\ slots = [c \in Channels |-> [p \in Permits |-> 0]]
      /\ owner = [p \in Permits |-> "idle"] /\ tries = [p \in Permits |-> TerminalTries]
      /\ cooldown = [c \in Channels |-> 0] /\ evidence = NoEvidence
      /\ rpd = 0 /\ epoch = 1 /\ enabled \in BOOLEAN /\ resets = 0
    BY FreshTypes DEF Init
<1>2. 0 \in 0 .. PermitTTL /\ TerminalTries \in 0 .. TerminalTries
    BY PermitAssumption
<1>3. NoAttempt \in Attempts /\ NoAttempt.status = "none"
    <2>1. /\ (CHOOSE c \in Channels : TRUE) \in Channels
          /\ (CHOOSE m \in Models : TRUE) \in Models
        BY PermitAssumption
    <2> QED BY <1>2, <2>1 DEF NoAttempt, Attempts
<1>4. TypeOK
    <2>1. origin \in Breakers /\ channel \in [Channels -> Breakers]
        BY <1>1
    <2>2. bound \in [Channels -> Bindings] /\ control \in Controls
        BY <1>1 DEF Bindings, Controls
    <2>3. permit \in [Permits -> Attempts] /\ slots \in [Channels -> [Permits -> 0 .. PermitTTL]]
        BY <1>1, <1>2, <1>3
    <2>4. /\ cooldown \in [Channels -> Nat] /\ rpd \in Nat
          /\ evidence \in [channels : SUBSET Channels, models : SUBSET Models]
        BY <1>1 DEF NoEvidence
    <2>5. OwnerTypeOK
        BY <1>1, <1>2 DEF OwnerTypeOK, Owners
    <2> QED BY <2>1, <2>2, <2>3, <2>4, <2>5 DEF TypeOK, RedisTypeOK
<1>5. \A p \in Permits : permit[p].status = "none"
    BY <1>1, <1>3
<1>6. OwnersHaveCalls
    BY <1>1, <1>5, PermitAssumption DEF OwnersHaveCalls
<1>7. TermsAreOld /\ FencesAreOld
    BY <1>5 DEF TermsAreOld, Admitted, FencesAreOld
<1>8. Leases
    <2>1. \A c \in Channels : Live(c) = {}
        BY <1>1 DEF Live
    <2>2. WithinChannelLimit
        BY <2>1, FS_EmptySet, PermitAssumption DEF WithinChannelLimit
    <2>3. SlotLivesWithItsLease
        BY <1>1 DEF SlotLivesWithItsLease
    <2>4. LiveProbeOwnsTheLease
        BY <1>5 DEF LiveProbeOwnsTheLease
    <2> QED BY <2>2, <2>3, <2>4 DEF Leases
<1>9. OutcomesCountOnce
    <2>1. FinishedOnes = {} /\ rpd = 0
        BY <1>1, <1>5 DEF FinishedOnes
    <2>2. AttributedOnce
        BY <2>1, FS_EmptySet DEF AttributedOnce, FinishedOnes
    <2>3. OriginCounted = {} /\ \A c \in Channels : ChannelCounted(c) = {}
        BY <1>5 DEF OriginCounted, ChannelCounted
    <2>4. origin.succ + origin.fail = 0 /\ \A c \in Channels : channel[c].succ + channel[c].fail = 0
        BY <1>1, FreshTypes
    <2>5. WindowCountsItsOwn
        BY <2>3, <2>4, FS_EmptySet DEF WindowCountsItsOwn
    <2> QED BY <2>2, <2>5 DEF OutcomesCountOnce
<1> QED BY <1>4, <1>6, <1>7, <1>8, <1>9 DEF IInv, Story

LEMMA StepHolds ==
    ASSUME IInv, [Next]_vars PROVE IInv'
<1>1. /\ TypeOK /\ OwnersHaveCalls /\ TermsAreOld /\ FencesAreOld
      /\ WithinChannelLimit /\ SlotLivesWithItsLease /\ LiveProbeOwnsTheLease
      /\ AttributedOnce /\ WindowCountsItsOwn
    BY DEF IInv, Story, Leases, OutcomesCountOnce
<1>2. TypeOK' /\ OwnersHaveCalls'
    BY <1>1, TypeStep
<1>3. TermsAreOld' /\ FencesAreOld'
    BY <1>1, <1>2, TermsStep, FencesStep
<1>4. Leases'
    BY <1>1, <1>2, LimitStep, SlotsStep, ProbesStep DEF Leases
<1>5. OutcomesCountOnce'
    BY <1>1, <1>2, AttributedStep, WindowsStep DEF OutcomesCountOnce
<1> QED BY <1>2, <1>3, <1>4, <1>5 DEF IInv, Story

\* The inductive invariant of the permits' life.
THEOREM InvariantHolds == Spec => []IInv
<1>1. Init => IInv
    BY InitHolds
<1>2. IInv /\ [Next]_vars => IInv'
    BY StepHolds
<1> QED BY <1>1, <1>2, PTL DEF Spec

\* Permits are leases for every limit, lifetime and number of attempts: no
\* channel carries more than its limit, no slot outlives its attempt, and a
\* probe whose result still counts holds the half-open lease.
THEOREM PermitsAreLeasedTheorem == Spec => []PermitsAreLeased
<1>1. IInv => PermitsAreLeased
    BY DEF IInv, Story, Leases, PermitsAreLeased
<1> QED BY <1>1, InvariantHolds, PTL

\* Every outcome counts once, and only in the generation, binding and epoch
\* that its attempt was admitted in, for every breaker policy.
THEOREM OutcomesCountOnceTheorem == Spec => []OutcomesCountOnce
<1>1. IInv => OutcomesCountOnce
    BY DEF IInv, Story
<1> QED BY <1>1, InvariantHolds, PTL

\* The pools count what the channels count.
LEMMA SameCardinality == ASSUME NEW S PROVE Pool!Cardinality(S) = Cardinality(S)
    BY DEF Pool!Cardinality, Cardinality

\* The scripts implement pools of leased tickets: a step takes one ticket of
\* one channel within its limit, or gives some back.  A channel without a
\* limit (0) is no pool, hence the hypothesis.
THEOREM LeasePoolsTheorem ==
    ASSUME ChannelLimit > 0
    PROVE  Spec => ChannelsAreLeasePools
<1> DEFINE Out == [c \in Channels |-> Live(c)]
           Used == {p \in Permits : permit[p].status # "none"}
<1>1. Init => Pool!PoolInit
    <2> SUFFICES ASSUME Init PROVE Out = [c \in Channels |-> {}] /\ Used = {}
        BY DEF Pool!PoolInit
    <2>1. \A c \in Channels : Live(c) = {}
        BY DEF Init, Live
    <2>2. Used = {}
        BY DEF Init, NoAttempt
    <2> QED BY <2>1, <2>2
<1>2. IInv /\ IInv' /\ [Next]_vars => [Pool!PoolNext]_(Pool!poolVars)
    <2> SUFFICES ASSUME IInv, IInv', [Next]_vars PROVE [Pool!PoolNext]_(Pool!poolVars)
        OBVIOUS
    <2>1. TypeOK /\ TypeOK' /\ OwnersHaveCalls
        BY DEF IInv, Story
    <2>2. ASSUME \A c \in Channels : Live(c)' \subseteq Live(c),
                 \A q \in Permits : permit'[q].status = "none" <=> permit[q].status = "none"
          PROVE  Pool!GiveBack
        <3>1. Used' = Used
            BY <2>2
        <3>2. \A c \in Channels : Out'[c] \subseteq Out[c]
            BY <2>2
        <3>3. Out' = [c \in Channels |-> Out'[c]]
            OBVIOUS
        <3> QED BY <3>1, <3>2, <3>3 DEF Pool!GiveBack
    <2>3. ASSUME NEW p \in Permits, NEW c \in Channels, permit[p].status = "none",
                 permit'[p].status # "none", Others(p), Cardinality(Live(c)) < ChannelLimit,
                 Live(c)' = Live(c) \cup {p}, \A d \in Channels \ {c} : Live(d)' = Live(d)
          PROVE  Pool!Take(c, p)
        <3>1. p \notin Used /\ Used' = Used \cup {p}
            BY <2>3 DEF Others
        <3>2. Out' = [Out EXCEPT ![c] = @ \cup {p}]
            BY <2>3
        <3>3. Pool!Cardinality(Out[c]) < ChannelLimit
            BY <2>3, SameCardinality
        <3> QED BY <3>1, <3>2, <3>3 DEF Pool!Take
    <2>4. \/ /\ \A c \in Channels : Live(c)' \subseteq Live(c)
             /\ \A q \in Permits : permit'[q].status = "none" <=> permit[q].status = "none"
          \/ \E p \in Permits, c \in Channels :
               /\ owner[p] = "idle" /\ permit'[p].status # "none" /\ Others(p)
               /\ ChannelLimit > 0 => Cardinality(Live(c)) < ChannelLimit
               /\ Live(c)' = Live(c) \cup {p}
               /\ \A d \in Channels \ {c} : Live(d)' = Live(d)
        BY <2>1, LiveMoves
    <2>5. \A p \in Permits : owner[p] = "idle" => permit[p].status = "none"
        BY <2>1 DEF OwnersHaveCalls
    <2> HIDE DEF Out, Used
    <2> QED BY <2>2, <2>3, <2>4, <2>5 DEF Pool!PoolNext
<1> QED BY <1>1, <1>2, InvariantHolds, PTL DEF Spec, ChannelsAreLeasePools, Pool!PoolSpec
=============================================================================
