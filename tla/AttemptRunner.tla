--------------------------- MODULE AttemptRunner ---------------------------
(***************************************************************************)
(* The candidate loop of a request: resolve the sticky session, plan the   *)
(* candidates, scan them, call the first one that admits the request, fail *)
(* over, wait once for capacity and scan once more (RunNonStream), with    *)
(* the sticky writes it makes on the way.  Several requests of one session *)
(* run at once; permits are plain slots here (AttemptPermit has their      *)
(* leases), and a request's money is RequestSettlement's.                  *)
(***************************************************************************)
EXTENDS StickySession, Sequences, SequencesExt

CONSTANTS
    Limit,      \* [Channels -> Nat]: concurrency limit of each channel
    Policies,   \* the sets of channels that may be sticky
    MaxTurns    \* bound: changes of the channels' health

RunnerAssumption ==
    Limit \in [Channels -> Nat] /\ Policies \subseteq SUBSET Channels /\ MaxTurns \in Nat

VARIABLES
    pc,       \* where the request is
    run,      \* the loop's own state, see Runs
    result,   \* how the call in hand ended
    answer,   \* what the request ended with: the channel that served it, or an error
    permits,  \* requests holding a slot of each channel
    health,   \* what admission says of each channel besides its slots
    turns     \* changes of health so far

runner == <<pc, run, result, answer>>
weather == <<health, turns>>
vars == <<sticky, runner, permits, weather>>

Healths == {"ok", "open", "cooldown", "paused"}
Results == {"none", "success", "unsettled", "fatal", "broken", "limited", "ended", "replay"}

\* sticks   channels whose policy is sticky, as the request read it
\* cands    the plan's candidates; left: those this scan has not passed
\* pass     0, and 1 for the rescan after the wait
\* denials  the reasons this scan was denied for (attemptDenialSummary)
\* calls    upstream calls made to each channel (attemptedChannels)
\* failed   lastErr: a call failed and the scan went on
EmptyRun == [sticks |-> {}, cands |-> <<>>, left |-> <<>>, pass |-> 0, denials |-> {},
             calls |-> [c \in Channels |-> 0], failed |-> FALSE]

\* A channel is called at most once, and once more for the transparent fallback,
\* over both scans.
Runs == [sticks : SUBSET Channels, cands : Seq(Channels), left : Seq(Channels), pass : 0 .. 1,
         denials : SUBSET {"full", "open", "cooldown", "paused"}, calls : [Channels -> 0 .. 2],
         failed : BOOLEAN]

\* What a scan has left is the end of the plan, in its order and without repeats.
InPlan(u) == IsInjective(u.cands) /\ IsSuffix(u.left, u.cands)

Places == {"new", "policy", "plan", "scan", "attempt", "judge", "replay", "wait", "done"}

Answers == Channels \cup {"", "failed", "upstream", "capacity", "limited", "none", "runtime"}

TypeOK ==
    /\ StickyTypeOK
    /\ pc \in [Requests -> Places]
    /\ run \in [Requests -> Runs] /\ \A r \in Requests : InPlan(run[r])
    /\ result \in [Requests -> Results]
    /\ answer \in [Requests -> Answers]
    /\ permits \in [Channels -> SUBSET Requests]
    /\ health \in [Channels -> Healths] /\ turns \in 0 .. MaxTurns

Init ==
    /\ StickyInit
    /\ pc = [r \in Requests |-> "new"] /\ run = [r \in Requests |-> EmptyRun]
    /\ result = [r \in Requests |-> "none"] /\ answer = [r \in Requests |-> ""]
    /\ permits = [c \in Channels |-> {}] /\ health = [c \in Channels |-> "ok"] /\ turns = 0

Go(r, where) == pc' = [pc EXCEPT ![r] = where] /\ UNCHANGED answer
Done(r, what) ==
    /\ pc' = [pc EXCEPT ![r] = "done"] /\ answer' = [answer EXCEPT ![r] = what]
    /\ run' = [run EXCEPT ![r] = EmptyRun]
Channel(r) == Head(run[r].left)

(***************************************************************************)
(* StickyRouter.Resolve, PrepareCandidates, ApplyPlanOutcome.              *)
(***************************************************************************)
Resolve(r) ==
    /\ pc[r] = "new" /\ Lookup(r)
    /\ \E p \in Policies :
         /\ run' = [run EXCEPT ![r].sticks = p]
         /\ Go(r, IF bound'[r] # Unbound /\ bound'[r].channel \notin p THEN "policy" ELSE "plan")
    /\ UNCHANGED <<result, permits, weather>>

\* The bound channel's policy is off: Resolve clears the binding.
ClearDisabled(r) ==
    /\ pc[r] = "policy" /\ clearIfCurrent(r) /\ Go(r, "plan")
    /\ UNCHANGED <<run, result, permits, weather>>

\* pool: the channels that pass the hard filters.  Those that health excludes
\* drop out, the sticky channel goes first; a bound channel that is not in the
\* plan is cleared unless only its cooldown excluded it.
Plan(r) ==
    /\ pc[r] = "plan"
    /\ \E pool \in (SUBSET Channels) \ {{}} :
         LET usable == {c \in pool : health[c] = "ok"}
             b == bound[r].channel
         IN IF usable = {} THEN Done(r, "none") /\ UNCHANGED sticky
            ELSE /\ \E s \in SetToSeqs(usable) :
                      /\ b \in usable => s[1] = b
                      /\ run' = [run EXCEPT ![r].cands = s, ![r].left = s]
                 /\ IF b \in usable \/ (b \in pool /\ health[b] = "cooldown")
                    THEN UNCHANGED sticky ELSE clearIfCurrent(r)
                 /\ Go(r, "scan")
    /\ UNCHANGED <<result, permits, weather>>

(***************************************************************************)
(* The scan.                                                               *)
(***************************************************************************)
Denial(c) ==
    IF health[c] # "ok" THEN health[c]
    ELSE IF Cardinality(permits[c]) >= Limit[c] THEN "full" ELSE "admitted"

\* attemptedChannels: a scan calls no channel that this request has called.
Attempted(r) == pc[r] = "scan" /\ run[r].calls[Channel(r)] > 0

\* The candidate is passed over, or its admission is denied; an open breaker
\* clears its binding.
Denied(r) ==
    LET denials == IF Attempted(r) THEN {} ELSE {Denial(Channel(r))} IN
    /\ run' = [run EXCEPT ![r].denials = @ \cup denials, ![r].left = Tail(@)]
    /\ IF denials = {"open"} THEN ClearIfBound(r, Channel(r)) ELSE UNCHANGED sticky
    /\ Go(r, "scan") /\ UNCHANGED permits

\* The permit is taken, the attempt recorded, the upstream called.
Admitted(r) ==
    /\ permits' = [permits EXCEPT ![Channel(r)] = @ \cup {r}]
    /\ run' = [run EXCEPT ![r].calls[Channel(r)] = @ + 1]
    /\ Go(r, "attempt") /\ UNCHANGED sticky

\* The next candidate of the scan, or the second transport of the transparent
\* fallback, on the same channel, with an admission of its own.  When the
\* admission store is unavailable the request ends.
Acquire(r) ==
    /\ pc[r] = "replay" \/ (pc[r] = "scan" /\ run[r].left # <<>>)
    /\ \/ ~Attempted(r) /\ Denial(Channel(r)) = "admitted" /\ Admitted(r)
       \/ (Attempted(r) \/ Denial(Channel(r)) # "admitted") /\ Denied(r)
       \/ ~Attempted(r) /\ Done(r, "runtime") /\ UNCHANGED <<sticky, permits>>
    /\ UNCHANGED <<result, weather>>

\* The replay condition is asked again after the second transport.
OutcomesReplayed(r) == Results \ {"none"}

\* A call may end as
\*   fatal     401, 403, timeout, 5xx          broken    an unknown category
\*   limited   429                             replay    native endpoint missing
\*   unsettled a success that cannot settle    ended     cancel, 4xx, own fault
\* and is replayed once only.
Outcomes(r) ==
    Results \ IF run[r].calls[Channel(r)] = 1 THEN {"none"} ELSE {"none", "replay"}

\* The permit of a call that was cancelled is forgotten.
CallEndsLeaks(r) ==
    /\ pc[r] = "attempt"
    /\ \E res \in Outcomes(r) :
         /\ result' = [result EXCEPT ![r] = res]
         /\ permits' = IF res = "ended" THEN permits ELSE [permits EXCEPT ![Channel(r)] = @ \ {r}]
    /\ Go(r, "judge") /\ UNCHANGED <<sticky, run, weather>>

\* The permit ends with the call, before anything is made of the result.
CallEnds(r) ==
    /\ pc[r] = "attempt"
    /\ \E res \in Outcomes(r) : result' = [result EXCEPT ![r] = res]
    /\ permits' = [permits EXCEPT ![Channel(r)] = @ \ {r}] /\ Go(r, "judge")
    /\ UNCHANGED <<sticky, run, weather>>

\* applyStickyAttemptFailure sees the first transport's error only.
ClearsBinding(r) == result[r] \in {"fatal", "broken"} /\ run[r].calls[Channel(r)] = 1

\* ProviderErrorClassifier.IsRetryable
Retryable(r) == result[r] \in {"fatal", "limited"}

Judge(r) ==
    /\ pc[r] = "judge" /\ result' = [result EXCEPT ![r] = "none"]
    /\ CASE result[r] = "success" -> BindSuccess(r, Channel(r), Channel(r) \in run[r].sticks)
         [] ClearsBinding(r) -> ClearIfBound(r, Channel(r))
         [] OTHER -> UNCHANGED sticky
    /\ CASE Retryable(r) -> /\ run' = [run EXCEPT ![r].left = Tail(@), ![r].failed = TRUE]
                            /\ Go(r, "scan")
         [] result[r] = "replay" -> Go(r, "replay") /\ UNCHANGED run
         [] OTHER -> Done(r, IF result[r] = "success" THEN Channel(r) ELSE "failed")
    /\ UNCHANGED <<permits, weather>>

\* RunNonStream's last lines and attemptDenialSummary.FinalError
FinalError(r) ==
    CASE run[r].failed -> "upstream"
      [] ~run[r].failed /\ run[r].denials = {"full"} -> "capacity"
      [] ~run[r].failed /\ run[r].denials = {"cooldown"} -> "limited"
      [] OTHER -> "none"

\* One wait for the whole pool, if no permit was ever taken and every denial was
\* for concurrency.
MayWait(r) ==
    run[r].pass = 0 /\ run[r].denials = {"full"} /\ \A c \in Channels : run[r].calls[c] = 0

ScanEnds(r) ==
    /\ pc[r] = "scan" /\ run[r].left = <<>>
    /\ IF MayWait(r) THEN Go(r, "wait") /\ UNCHANGED run ELSE Done(r, FinalError(r))
    /\ UNCHANGED <<sticky, result, permits, weather>>

\* waitForChannelCapacity: the budget is spent, and the pool is scanned afresh;
\* or the wait is off or cancelled, and the request ends with what it has.
WaitEnds(r) ==
    /\ pc[r] = "wait"
    /\ \/ /\ run' = [run EXCEPT ![r].pass = 1, ![r].denials = {}, ![r].left = run[r].cands]
          /\ Go(r, "scan")
       \/ Done(r, FinalError(r))
    /\ UNCHANGED <<sticky, result, permits, weather>>

\* Breakers open and close, cooldowns start and end, permissions are paused.
Weather(c) ==
    /\ turns < MaxTurns /\ turns' = turns + 1
    /\ \E h \in Healths \ {health[c]} : health' = [health EXCEPT ![c] = h]
    /\ UNCHANGED <<sticky, runner, permits>>

StoreStep == (RunLate \/ Age) /\ UNCHANGED <<runner, permits, weather>>

Step(r) ==
    \/ Resolve(r) \/ ClearDisabled(r) \/ Plan(r) \/ Acquire(r)
    \/ CallEnds(r) \/ Judge(r) \/ ScanEnds(r) \/ WaitEnds(r)

Next == (\E r \in Requests : Step(r)) \/ (\E c \in Channels : Weather(c)) \/ StoreStep

Spec == Init /\ [][Next]_vars

(***************************************************************************)
(* Properties.                                                             *)
(***************************************************************************)
\* A slot of a channel is held by exactly the requests with a call in flight
\* there: a request that waits for the pool, fails over or has ended holds none
\* (waitForChannelCapacity waits without a permit).
PermitsAreCalls ==
    \A c \in Channels :
        permits[c] = {r \in Requests : pc[r] = "attempt" /\ Channel(r) = c}

\* r's own step: the scan moves or one of its late writes runs.
Acts(r) == pc'[r] # pc[r] \/ run'[r] # run[r] \/ \E op \in late \ late' : op.by = r

\* A binding is never replaced in place: a session moves to another channel, or
\* to another binding of the same channel, through the unbound state only,
\* whichever late refresh arrives (there is no Rebind(A, B)).
RebindsThroughUnbound ==
    [][binding # Unbound /\ binding' # Unbound => binding' = binding]_vars

\* A request takes away only the binding it found or one it made: a clear that
\* arrives after others cleared and bound again, even to the same channel,
\* leaves the newer binding alone.
NewerBindingSurvives ==
    [][\A r \in Requests :
         /\ binding # Unbound /\ binding' = Unbound /\ Acts(r)
         => binding = seen[r] \/ binding.by = r]_vars

\* Only a complete success on the bound channel gives the binding more time: a
\* request that was served elsewhere extends neither.
OnlySuccessExtends ==
    [][life' > life => \E r \in Requests : Acts(r) /\ answer'[r] = binding'.channel]_vars

\* Once a request has been told that its clear took effect, that binding is
\* gone for good: no refresh, however late, brings it back.
ClearedStaysCleared ==
    \A r \in Requests : seen[r] # Unbound /\ bound[r] # seen[r] => binding # seen[r]

\* What a session is bound to is what its requests last made of it: replaced
\* through the unbound state only, taken away only by those who saw it, kept
\* alive only by success, and gone for good once cleared.
BindingsAreCurrent ==
    /\ [](TypeOK /\ ClearedStaysCleared)
    /\ RebindsThroughUnbound /\ NewerBindingSurvives /\ OnlySuccessExtends
=============================================================================
