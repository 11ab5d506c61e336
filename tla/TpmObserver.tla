----------------------------- MODULE TpmObserver -----------------------------
(***************************************************************************)
(* The token observer of one gateway for one route.  Requests put what     *)
(* they observe (an estimated input, output chunk by chunk) into a bounded *)
(* queue and remember it by minute; a loop flushes the queue to minute     *)
(* buckets in Redis, in batches with an operation id of their own, and     *)
(* applies the corrections that replace the estimates of a request by its  *)
(* usage.  Flush and correction are two channels of one select: nothing    *)
(* orders them.  A request that fails over keeps its scope.                *)
(***************************************************************************)
EXTENDS Integers, Sequences, FiniteSets, SequencesExt

CONSTANTS
    Requests,
    MaxMinute,
    Estimate,        \* the estimated input of an attempt
    Actuals,         \* the usage upstream may report
    QueueCapacity, CorrectionCapacity,
    MaxBatch,        \* minutes of a batch
    NoWeights, NoBatch, NoBucket,
    MaxAttempts,     \* bound: attempts of a request
    MaxChunks,       \* bound: output chunks of an attempt
    MaxFaults        \* bound: calls to Redis that fail or whose reply is lost

ObserverAssumption ==
    /\ {MaxMinute, Estimate, QueueCapacity, CorrectionCapacity, MaxBatch} \subseteq Nat \ {0}
    /\ {MaxAttempts, MaxChunks, MaxFaults} \subseteq Nat
    /\ Actuals \subseteq [input : Nat, output : Nat]

VARIABLES
    minute,
    request,        \* where each request is
    tracked,        \* the weights of each scope
    queue, corrections,
    pending,        \* the batch whose flush is not known to have succeeded
    sequence,
    bucket, flushed,        \* Redis: the minute buckets and the markers of batches
    faults,
    observed,       \* history: tokens put into the queue, by minute
    truth,          \* history: tokens of the scopes finalized so far
    inputs,         \* history: inputs recorded for each request
    lost,           \* history: something was dropped or failed for good
    overtaken       \* history: a correction was applied before what it corrects

observer == <<tracked, queue, corrections, pending, sequence>>
redis == <<bucket, flushed>>
history == <<observed, truth, inputs, lost, overtaken>>
vars == <<minute, request, observer, redis, faults, history>>

Minutes == 1 .. MaxMinute
Zero == [input |-> 0, output |-> 0, provisional |-> 0]
New == [minute |-> 0, input |-> 0, out |-> [m \in Minutes |-> 0]]

Plus(a, b) == [f \in DOMAIN a |-> a[f] + b[f]]

TypeOK ==
    /\ minute \in Minutes
    /\ request \in [Requests -> [pc : {"new", "calling", "answering", "done"}, attempt : 0 .. MaxAttempts,
                                 start : 0 .. MaxMinute, chunks : 0 .. MaxChunks]]
    /\ \A r \in Requests :
           tracked[r] # NoWeights =>
               tracked[r] \in [minute : 0 .. MaxMinute, input : {0, Estimate},
                               out : [Minutes -> 0 .. MaxChunks]]
    /\ Len(queue) <= QueueCapacity /\ Len(corrections) <= CorrectionCapacity
    /\ pending # NoBatch => pending.attempts \in 1 .. 2 /\ pending.op \in 1 .. sequence
    /\ \A m \in Minutes : bucket[m] # NoBucket => bucket[m] \in [DOMAIN Zero -> Nat]
    /\ flushed \subseteq 1 .. sequence /\ faults \in 0 .. MaxFaults

Init ==
    /\ minute = 1
    /\ request = [r \in Requests |-> [pc |-> "new", attempt |-> 0, start |-> 0, chunks |-> 0]]
    /\ tracked = [r \in Requests |-> NoWeights]
    /\ queue = <<>> /\ corrections = <<>> /\ pending = NoBatch /\ sequence = 0
    /\ bucket = [m \in Minutes |-> NoBucket] /\ flushed = {} /\ faults = 0
    /\ observed = [m \in Minutes |-> 0] /\ truth = 0 /\ inputs = [r \in Requests |-> 0]
    /\ lost = FALSE /\ overtaken = FALSE

MinutePasses ==
    /\ minute < MaxMinute /\ minute' = minute + 1
    /\ UNCHANGED <<request, observer, redis, faults, history>>

(***************************************************************************)
(* The requests.                                                           *)
(***************************************************************************)

\* A full queue drops the observation: the client never waits for it.
Enqueue(r, m, delta) ==
    IF Len(queue) < QueueCapacity
    THEN /\ queue' = Append(queue, [req |-> r, minute |-> m, delta |-> delta])
         /\ observed' = [observed EXCEPT ![m] = @ + delta.provisional] /\ UNCHANGED lost
    ELSE lost' = TRUE /\ UNCHANGED <<queue, observed>>

Weights(r) == IF tracked[r] = NoWeights THEN New ELSE tracked[r]

Begin(r) ==
    /\ request[r].pc = "new"
    /\ request' = [request EXCEPT ![r] = [pc |-> "calling", attempt |-> 1, start |-> minute, chunks |-> 0]]
    /\ UNCHANGED <<minute, observer, redis, faults, history>>

\* Input, at the minute the request began: the first call for a scope counts.
ObserveInput(r) ==
    /\ request[r].pc = "calling" /\ request' = [request EXCEPT ![r].pc = "answering"]
    /\ IF Weights(r).minute # 0
       THEN UNCHANGED <<tracked, queue, observed, inputs, lost>>
       ELSE /\ tracked' = [tracked EXCEPT ![r] = [Weights(r) EXCEPT !.minute = request[r].start,
                                                                    !.input = Estimate]]
            /\ Enqueue(r, request[r].start, [input |-> Estimate, output |-> 0, provisional |-> Estimate])
            /\ inputs' = [inputs EXCEPT ![r] = @ + 1]
    /\ UNCHANGED <<minute, corrections, pending, sequence, redis, faults, truth, overtaken>>

\* Output of one token.
ObserveOutput(r) ==
    /\ request[r].pc = "answering" /\ request[r].chunks < MaxChunks
    /\ request' = [request EXCEPT ![r].chunks = @ + 1]
    /\ tracked' = [tracked EXCEPT ![r] = [Weights(r) EXCEPT !.out[minute] = @ + 1]]
    /\ Enqueue(r, minute, [input |-> 0, output |-> 1, provisional |-> 1])
    /\ UNCHANGED <<minute, corrections, pending, sequence, redis, faults, truth, inputs, overtaken>>

\* The actual output goes to the minutes by their weight, the rest of the
\* division to the last of them.
Total(w) == FoldFunction(LAMBDA a, b : a + b, 0, w.out)
Weighed(w) == {m \in Minutes : w.out[m] > 0}

\* Mutant: every minute gets the floor of its share.
FloorOf(w, output, m) == (output * w.out[m]) \div Total(w)

Share(w, output, m) ==
    LET last == CHOOSE l \in Weighed(w) : \A k \in Weighed(w) : k <= l
        floor(k) == (output * w.out[k]) \div Total(w) IN
    IF m # last THEN floor(m)
    ELSE output - FoldSet(LAMBDA k, sum : sum + floor(k), 0, Weighed(w) \ {last})

Correction(w, a, m) ==
    Plus(IF w.minute = m
         THEN [input |-> a.input - w.input, output |-> 0, provisional |-> -w.input] ELSE Zero,
         IF Total(w) > 0
         THEN IF m \in Weighed(w)
              THEN [input |-> 0, output |-> Share(w, a.output, m) - w.out[m], provisional |-> -w.out[m]]
              ELSE Zero
         ELSE IF m = minute THEN [Zero EXCEPT !.output = a.output] ELSE Zero)

\* Finalize with reliable usage: the estimates are to be replaced.
Settle(r, a) ==
    LET w == tracked[r]
        touched == {m \in Minutes : Correction(w, a, m) # Zero} IN
    /\ truth' = truth + a.input + a.output
    /\ IF touched = {}
       THEN UNCHANGED <<corrections, lost>>
       ELSE IF Len(corrections) < CorrectionCapacity
       THEN /\ corrections' = Append(corrections,
                   [req |-> r, entries |-> [m \in touched |-> Correction(w, a, m)]])
            /\ UNCHANGED lost
       ELSE lost' = TRUE /\ UNCHANGED corrections
    /\ UNCHANGED <<queue, observed>>

\* Finalize without: only the missing usage is counted, in this minute's bucket.
CountMissing(r) ==
    /\ Enqueue(r, minute, Zero) /\ UNCHANGED corrections
    /\ truth' = truth + tracked[r].input + Total(tracked[r])

\* Finalize takes the weights of the scope.  An attempt that failed without
\* output is finalized before the request fails over.
Finalize(r) ==
    /\ request[r].pc = "answering" /\ tracked' = [tracked EXCEPT ![r] = NoWeights]
    /\ \/ /\ \E a \in Actuals : Settle(r, a)
          /\ request' = [request EXCEPT ![r].pc = "done"]
       \/ CountMissing(r) /\ request' = [request EXCEPT ![r].pc = "done"]
       \/ /\ request[r].chunks = 0 /\ request[r].attempt < MaxAttempts /\ CountMissing(r)
          /\ request' = [request EXCEPT ![r].pc = "calling", ![r].attempt = @ + 1]
    /\ UNCHANGED <<minute, pending, sequence, redis, faults, inputs, overtaken>>

(***************************************************************************)
(* The loop.                                                               *)
(***************************************************************************)

\* drain: in the order of the queue, until the batch has its minutes.
Taken ==
    LET minutes(n) == {queue[i].minute : i \in 1 .. n}
        full == {n \in 1 .. Len(queue) : Cardinality(minutes(n)) = MaxBatch} IN
    IF full = {} THEN Len(queue) ELSE CHOOSE n \in full : \A k \in full : n <= k

Aggregate(obs) ==
    LET sums[i \in 0 .. Len(obs)] ==
            IF i = 0 THEN [m \in Minutes |-> Zero]
            ELSE [sums[i - 1] EXCEPT ![obs[i].minute] = Plus(@, obs[i].delta)] IN
    [m \in {obs[i].minute : i \in DOMAIN obs} |-> sums[Len(obs)][m]]

NewBatch(n) ==
    [op |-> sequence + 1, entries |-> Aggregate(SubSeq(queue, 1, n)), attempts |-> 0,
     reqs |-> {queue[i].req : i \in 1 .. n}]

\* record_tpm_observation.lua: a batch counts once.
Recorded(b) ==
    IF b.op \in flushed
    THEN UNCHANGED redis
    ELSE /\ flushed' = flushed \cup {b.op}
         /\ bucket' = [m \in Minutes |->
                IF m \notin DOMAIN b.entries THEN bucket[m]
                ELSE Plus(IF bucket[m] = NoBucket THEN Zero ELSE bucket[m], b.entries[m])]

\* Mutant: a retry is a new operation.
RetriedAsNew(b) == [b EXCEPT !.attempts = @ + 1, !.op = @ + 1]

Retried(b) == [b EXCEPT !.attempts = @ + 1]

GivesUp(b) == b.attempts + 1 >= 3

\* A flush that failed, or whose reply was lost, is retried with its id.
FlushFails(b) ==
    /\ Recorded(b) \/ UNCHANGED redis
    /\ IF GivesUp(b)
       THEN pending' = NoBatch /\ lost' = (lost \/ b.op \notin flushed')
       ELSE pending' = Retried(b) /\ UNCHANGED lost

\* Mutant: a batch that was retried stays pending.
FlushSucceedsAgain(b) == Recorded(b) /\ UNCHANGED <<pending, faults, lost>>

FlushSucceeds(b) == Recorded(b) /\ pending' = NoBatch /\ UNCHANGED <<faults, lost>>

Flush ==
    /\ pending # NoBatch \/ queue # <<>>
    /\ LET b == IF pending # NoBatch THEN pending ELSE NewBatch(Taken) IN
       /\ IF pending # NoBatch
          THEN UNCHANGED <<queue, sequence>>
          ELSE queue' = SubSeq(queue, Taken + 1, Len(queue)) /\ sequence' = sequence + 1
       /\ \/ FlushSucceeds(b)
          \/ faults < MaxFaults /\ faults' = faults + 1 /\ FlushFails(b)
    /\ UNCHANGED <<minute, request, tracked, corrections, observed, truth, inputs, overtaken>>

\* correct_tpm_observation.lua: only buckets that exist, and never below zero.
AtLeastZero(d) == [f \in DOMAIN d |-> IF d[f] < 0 THEN 0 ELSE d[f]]

\* Mutant: nothing keeps a field from going below zero.
CorrectedFreely(b, d) == Plus(b, d)

CorrectedBy(b, d) == AtLeastZero(Plus(b, d))

Corrected(c) ==
    bucket' = [m \in Minutes |->
        IF m \notin DOMAIN c.entries \/ bucket[m] = NoBucket THEN bucket[m]
        ELSE CorrectedBy(bucket[m], c.entries[m])]

Unflushed(r) ==
    \/ \E i \in DOMAIN queue : queue[i].req = r
    \/ pending # NoBatch /\ pending.op \notin flushed /\ r \in pending.reqs

\* applyCorrection: a failure is not retried.  Each scope has one correction;
\* its marker only guards against another process.
ApplyCorrection ==
    /\ corrections # <<>> /\ corrections' = Tail(corrections)
    /\ LET c == Head(corrections) IN
       /\ overtaken' = (overtaken \/ Unflushed(c.req) \/ \E m \in DOMAIN c.entries : bucket[m] = NoBucket)
       /\ \/ Corrected(c) /\ UNCHANGED <<faults, lost>>
          \/ /\ faults < MaxFaults /\ faults' = faults + 1 /\ lost' = TRUE
             /\ Corrected(c) \/ UNCHANGED bucket
    /\ UNCHANGED <<minute, request, tracked, queue, pending, sequence, flushed, observed, truth, inputs>>

Loop == Flush \/ ApplyCorrection

Next ==
    \/ MinutePasses
    \/ \E r \in Requests : Begin(r) \/ ObserveInput(r) \/ ObserveOutput(r) \/ Finalize(r)
    \/ Loop

Spec == Init /\ [][Next]_vars

\* The loop flushes every second and takes corrections as they come.
Fairness == WF_vars(Flush) /\ WF_vars(ApplyCorrection)

LiveSpec == Spec /\ Fairness

(***************************************************************************)
(* What the buckets tell.                                                  *)
(***************************************************************************)
SumOf(f) == FoldFunction(LAMBDA a, b : a + b, 0, f)

Held(m) == IF bucket[m] = NoBucket THEN Zero ELSE bucket[m]

Drained ==
    /\ queue = <<>> /\ corrections = <<>> /\ pending = NoBatch
    /\ \A r \in Requests : request[r].pc \in {"new", "done"}

Exact == SumOf([m \in Minutes |-> Held(m).input + Held(m).output]) = truth

\* However many replies of a flush are lost and however often it is retried, no
\* observation counts twice (the operation id of RecordTPMObservations).
CountedOnce == \A m \in Minutes : Held(m).provisional <= observed[m]

\* Once everything is drained the buckets hold exactly the usage of the requests,
\* with what was observed of those without usage: the shares of the minutes add
\* up, and nothing is clamped - unless something was dropped, or a correction
\* was applied before the observations it corrects.
ExactUnlessOvertaken == Drained /\ ~lost /\ ~overtaken => Exact

\* As weights.go has it: reliable usage makes the total accurate.
ExactOnceDrained == Drained /\ ~lost => Exact

\* As tpm_observation.go has it: a request that fails over records its input once.
RouteInputOnce == \A r \in Requests : inputs[r] <= 1

\* The loop never stays behind a batch: whatever Redis does, queue and
\* corrections become empty again.
Drains == []<>(queue = <<>> /\ pending = NoBatch) /\ []<>(corrections = <<>>)
=============================================================================
