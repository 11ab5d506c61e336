---------------------- MODULE RequestSettlementProofs ----------------------
(***************************************************************************)
(* Proofs about RequestSettlement, for every set of attempts and workers   *)
(* and every limit on the retries.                                         *)
(*                                                                         *)
(* None of the safety properties is inductive alone.  The gateway's        *)
(* program counter and its locals say what it has already done (Stage);    *)
(* the recovery job carries the facts the gateway settles with, and its    *)
(* workers and the sweepers act on what they read of it (JobShape,         *)
(* SweepShape); a hold that went back has a reason (ReleaseShape).         *)
(* Together with TypeOK and SettlementIsWhole these are inductive and give *)
(* every safety property of the module.                                    *)
(***************************************************************************)
EXTENDS RequestSettlement, TLAPS

Closed == {"failed", "canceled"}

\* What the gateway goroutine has done when it stands at pc.
Stage ==
    /\ pc = "authorizing" => rsv = "none"
    /\ pc = "upstream" => cur \in Attempts
    /\ pc \in {"recording", "settling", "marking"} => facts \in Facts
    /\ pc \in {"settling", "marking"} => job.status # "none" /\ job.facts = facts
    /\ pc = "marking" => settled
    /\ pc \in {"releasing", "closing"} => closing.status \in Closed
    /\ cost => pc \notin {"authorizing", "routing", "upstream"}
    /\ (cost /\ pc = "releasing") => risk

\* The job row holds facts from the moment it exists; nobody settles without
\* one, and whoever is about to close it as succeeded has seen a settlement.
JobShape ==
    /\ job.status # "none" => job.facts \in Facts
    /\ settled => job.status # "none"
    /\ \A w \in Workers : wk[w].pc # "idle" => job.status # "none"
    /\ \A w \in Workers : wk[w].pc = "replayed" => settled
    /\ job.status = "succeeded" => settled

\* A sweeper acts on a request that is closed, or closes it, without a job.
SweepShape ==
    /\ stranded = "listed" => req \in Closed /\ job.status = "none"
    /\ releasedBy \in {"orphan", "stranded"} => req \in Closed /\ job.status = "none"
    /\ releasedBy = "orphan" => req = "failed" /\ \A a \in Attempts : att[a] # "running"

\* Why a hold is back: it was settled for free, a risk exposure was booked,
\* the stranded sweeper found it, or there was no cost and the gateway has
\* nothing left to do that could make one.
ReleaseShape ==
    /\ exposed => rsv = "released"
    /\ rsv = "released" => \/ settled \/ exposed \/ releasedBy = "stranded"
                           \/ ~cost /\ pc \in {"closing", "done", "crashed"}

Story == SettlementIsWhole /\ Stage /\ JobShape /\ SweepShape /\ ReleaseShape

IInv == TypeOK /\ Story

USE SettlementAssumption

\* The terminal writes that a release is followed by, and none at all.
LEMMA ClosingTypes ==
    ASSUME cur \in Attempts \cup {NoAttempt}
    PROVE  /\ NoClosing \in Closings
           /\ FailRequest \in Closings /\ FailRequest.status = "failed"
           /\ \A b \in BOOLEAN : [FailRequest EXCEPT !.interrupts = b] \in Closings
           /\ \A s \in Closed : CloseBoth(s) \in Closings
  BY DEF NoClosing, FailRequest, CloseBoth, Closings, Closed

\* A new job carries the facts the gateway settles with.
LEMMA NewJobFacts ==
    ASSUME facts \in Facts
    PROVE  NewJob \in Jobs /\ NewJob.facts = facts /\ NewJob.status = "pending"
<1>1. 0 \in 0..MaxAttempts
  OBVIOUS
<1>2. NoJob \in Jobs
  BY <1>1 DEF NoJob, Jobs
<1> QED
  BY <1>2 DEF NewJob, Jobs

\* Closing a job keeps its facts and never makes one.
LEMMA JobSucceededFacts ==
    ASSUME TypeOK, JobSucceeded \/ UNCHANGED job
    PROVE  /\ job' \in Jobs /\ job'.facts = job.facts
           /\ job'.status = "none" <=> job.status = "none"
  BY DEF JobSucceeded, TypeOK, BackgroundTypeOK, Jobs

\* A claim uses up one attempt.
LEMMA ClaimFacts ==
    ASSUME TypeOK, NEW w \in Workers, Claim(w)
    PROVE  /\ job' \in Jobs /\ job'.facts = job.facts /\ job'.status = "running"
           /\ job.count + 1 \in 0..MaxAttempts
<1>1. job.count \in 0..MaxAttempts /\ job.count < MaxAttempts
  BY DEF TypeOK, BackgroundTypeOK, Jobs, Claim, RetriesLeft
<1>2. job.count + 1 \in 0..MaxAttempts
  BY <1>1
<1> QED
  BY <1>2 DEF TypeOK, BackgroundTypeOK, Claim, Jobs

\* What markExhausted and markFailed write.
LEMMA HandedBackFacts ==
    ASSUME TypeOK, NEW s \in {"pending", "dead"},
           job' = [job EXCEPT !.status = s, !.owner = NoWorker, !.lease = "none"]
    PROVE  job' \in Jobs /\ job'.facts = job.facts /\ job'.status = s
  BY DEF TypeOK, BackgroundTypeOK, Jobs

LEMMA MarkFailedFacts ==
    ASSUME TypeOK, NEW w \in Workers, MarkFailed(w)
    PROVE  /\ job' \in Jobs
           /\ \/ job' = job
              \/ /\ job'.facts = job.facts /\ job'.status \in {"pending", "dead"}
                 /\ HoldsClaim(w)
<1>1. CASE UNCHANGED job
  BY <1>1 DEF TypeOK, BackgroundTypeOK
<1>2. ASSUME HoldsClaim(w),
             job' = [job EXCEPT !.status = IF wk[w].claim >= MaxAttempts THEN "dead" ELSE "pending",
                                !.owner = NoWorker, !.lease = "none"]
      PROVE  job' \in Jobs /\ job'.facts = job.facts /\ job'.status \in {"pending", "dead"}
  <2>1. CASE wk[w].claim >= MaxAttempts
    BY <1>2, <2>1, HandedBackFacts
  <2>2. CASE ~(wk[w].claim >= MaxAttempts)
    BY <1>2, <2>2, HandedBackFacts
  <2> QED
    BY <2>1, <2>2
<1> QED
  BY <1>1, <1>2 DEF MarkFailed

LEMMA TypeStep == IInv /\ [Next]_vars => TypeOK'
<1> SUFFICES ASSUME IInv, [Next]_vars PROVE TypeOK'
  OBVIOUS
<1>0. ASSUME NEW w \in Workers, MarkFailed(w) PROVE job' \in Jobs
  BY <1>0, MarkFailedFacts DEF IInv
<1> USE DEF IInv, Story, TypeOK, GatewaySteps, Final
<1>1. ASSUME Authorize PROVE TypeOK'
  <2>1. GatewayTypeOK'
    BY <1>1, ClosingTypes DEF Authorize, GatewayTypeOK
  <2>2. RowsTypeOK'
    BY <1>1 DEF Authorize, requestVars, attemptVars, RowsTypeOK
  <2> QED
    BY <1>1, <2>1, <2>2 DEF Authorize, jobVars, sweepVars, BackgroundTypeOK
<1>2. ASSUME NoCandidate PROVE TypeOK'
  <2>1. GatewayTypeOK'
    BY <1>2, ClosingTypes DEF NoCandidate, LeaveBy, GatewayTypeOK
  <2> QED
    BY <1>2, <2>1 DEF NoCandidate, requestVars, attemptVars, holdVars, jobVars,
       sweepVars, RowsTypeOK, BackgroundTypeOK
<1>3. ASSUME NEW a \in Attempts, StartAttempt(a) PROVE TypeOK'
  <2>1. GatewayTypeOK'
    BY <1>3 DEF StartAttempt, GatewayTypeOK
  <2>2. RowsTypeOK'
    BY <1>3 DEF StartAttempt, requestVars, holdVars, RowsTypeOK
  <2> QED
    BY <1>3, <2>1, <2>2 DEF StartAttempt, jobVars, sweepVars, BackgroundTypeOK
<1>4. ASSUME NEW a \in Attempts, AttemptCreateFails(a) PROVE TypeOK'
  <2>1. GatewayTypeOK'
    BY <1>4, ClosingTypes DEF AttemptCreateFails, LeaveBy, GatewayTypeOK
  <2>2. RowsTypeOK'
    BY <1>4 DEF AttemptCreateFails, attemptVars, requestVars, holdVars,
       RowsTypeOK
  <2> QED
    BY <1>4, <2>1, <2>2 DEF AttemptCreateFails, jobVars, sweepVars,
       BackgroundTypeOK
<1>5. ASSUME Emit PROVE TypeOK'
  <2>1. GatewayTypeOK'
    BY <1>5 DEF Emit, GatewayTypeOK
  <2>2. RowsTypeOK'
    BY <1>5 DEF Emit, attemptVars, holdVars, RowsTypeOK
  <2> QED
    BY <1>5, <2>1, <2>2 DEF Emit, jobVars, sweepVars, BackgroundTypeOK
<1>6. ASSUME UpstreamRetryable PROVE TypeOK'
  <2>1. GatewayTypeOK'
    BY <1>6 DEF UpstreamRetryable, GatewayTypeOK
  <2>2. RowsTypeOK'
    BY <1>6 DEF UpstreamRetryable, FinishPermit, MarkAttemptFailed, requestVars,
       holdVars, RowsTypeOK
  <2> QED
    BY <1>6, <2>1, <2>2 DEF UpstreamRetryable, jobVars, sweepVars,
       BackgroundTypeOK
<1>7. ASSUME UpstreamFailed PROVE TypeOK'
  <2>1. GatewayTypeOK'
    BY <1>7, ClosingTypes DEF UpstreamFailed, LeaveBy, GatewayTypeOK
  <2>2. RowsTypeOK'
    BY <1>7 DEF UpstreamFailed, FinishPermit, MarkAttemptFailed, requestVars,
       holdVars, RowsTypeOK
  <2> QED
    BY <1>7, <2>1, <2>2 DEF UpstreamFailed, jobVars, sweepVars, BackgroundTypeOK
<1>8. ASSUME UpstreamUnreliableUsage PROVE TypeOK'
  <2>1. GatewayTypeOK'
    BY <1>8, ClosingTypes DEF UpstreamUnreliableUsage, LeaveBy, GatewayTypeOK
  <2>2. RowsTypeOK'
    BY <1>8 DEF UpstreamUnreliableUsage, FinishPermit, MarkAttemptFailed,
       requestVars, holdVars, RowsTypeOK
  <2> QED
    BY <1>8, <2>1, <2>2 DEF UpstreamUnreliableUsage, jobVars, sweepVars,
       BackgroundTypeOK
<1>9. ASSUME UpstreamMissingUsage PROVE TypeOK'
  <2>1. GatewayTypeOK'
    BY <1>9, ClosingTypes DEF UpstreamMissingUsage, LeaveBy, GatewayTypeOK,
       Closed
  <2>2. RowsTypeOK'
    BY <1>9 DEF UpstreamMissingUsage, FinishPermit, requestVars, holdVars,
       RowsTypeOK
  <2> QED
    BY <1>9, <2>1, <2>2 DEF UpstreamMissingUsage, jobVars, sweepVars,
       BackgroundTypeOK
<1>10. ASSUME UpstreamCanceled PROVE TypeOK'
  <2>1. GatewayTypeOK'
    BY <1>10, ClosingTypes DEF UpstreamCanceled, LeaveBy, GatewayTypeOK, Closed
  <2>2. RowsTypeOK'
    BY <1>10 DEF UpstreamCanceled, FinishPermit, requestVars, holdVars,
       RowsTypeOK
  <2> QED
    BY <1>10, <2>1, <2>2 DEF UpstreamCanceled, jobVars, sweepVars,
       BackgroundTypeOK
<1>11. ASSUME NEW target \in Final, NEW free \in BOOLEAN, UpstreamBillable(target, free) PROVE TypeOK'
  <2>1. GatewayTypeOK'
    BY <1>11 DEF UpstreamBillable, GatewayTypeOK, Facts, Stage
  <2>2. RowsTypeOK'
    BY <1>11 DEF UpstreamBillable, FinishPermit, requestVars, holdVars,
       RowsTypeOK
  <2> QED
    BY <1>11, <2>1, <2>2 DEF UpstreamBillable, jobVars, sweepVars,
       BackgroundTypeOK
<1>12. ASSUME CreateJob PROVE TypeOK'
  <2>1. GatewayTypeOK'
    BY <1>12, ClosingTypes DEF CreateJob, LeaveBy, GatewayTypeOK
  <2>2. BackgroundTypeOK'
    BY <1>12, NewJobFacts DEF CreateJob, sweepVars, BackgroundTypeOK, Stage
  <2> QED
    BY <1>12, <2>1, <2>2 DEF CreateJob, requestVars, attemptVars, holdVars,
       RowsTypeOK
<1>13. ASSUME CreateJobFails PROVE TypeOK'
  <2>1. GatewayTypeOK'
    BY <1>13, ClosingTypes DEF CreateJobFails, LeaveBy, GatewayTypeOK
  <2> QED
    BY <1>13, <2>1 DEF CreateJobFails, requestVars, attemptVars, holdVars,
       jobVars, sweepVars, RowsTypeOK, BackgroundTypeOK
<1>14. ASSUME InlineSettle PROVE TypeOK'
  <2>1. GatewayTypeOK'
    BY <1>14 DEF InlineSettle, GatewayTypeOK
  <2>2. RowsTypeOK'
    BY <1>14 DEF InlineSettle, Settle, ReleaseHold, RowsTypeOK, Facts, Stage
  <2> QED
    BY <1>14, <2>1, <2>2 DEF InlineSettle, jobVars, sweepVars, BackgroundTypeOK
<1>15. ASSUME InlineSettleElse PROVE TypeOK'
  <2>1. GatewayTypeOK'
    BY <1>15 DEF InlineSettleElse, GatewayTypeOK
  <2> QED
    BY <1>15, <2>1 DEF InlineSettleElse, requestVars, attemptVars, holdVars,
       jobVars, sweepVars, RowsTypeOK, BackgroundTypeOK
<1>16. ASSUME MarkInline PROVE TypeOK'
  <2>1. GatewayTypeOK'
    BY <1>16 DEF MarkInline, GatewayTypeOK
  <2>2. BackgroundTypeOK'
    BY <1>16, JobSucceededFacts DEF MarkInline, sweepVars, BackgroundTypeOK
  <2> QED
    BY <1>16, <2>1, <2>2 DEF MarkInline, requestVars, attemptVars, holdVars,
       RowsTypeOK
<1>17. ASSUME FinishDelivery PROVE TypeOK'
  <2>1. GatewayTypeOK'
    BY <1>17, ClosingTypes DEF FinishDelivery, Forget, GatewayTypeOK
  <2>2. RowsTypeOK'
    BY <1>17 DEF FinishDelivery, attemptVars, holdVars, RowsTypeOK
  <2> QED
    BY <1>17, <2>1, <2>2 DEF FinishDelivery, jobVars, sweepVars,
       BackgroundTypeOK
<1>18. ASSUME Release PROVE TypeOK'
  <2>1. GatewayTypeOK'
    BY <1>18, ClosingTypes DEF Release, GatewayTypeOK
  <2>2. RowsTypeOK'
    BY <1>18 DEF Release, ReleaseHold, requestVars, attemptVars, RowsTypeOK
  <2> QED
    BY <1>18, <2>1, <2>2 DEF Release, jobVars, sweepVars, BackgroundTypeOK
<1>19. ASSUME ReleaseFails PROVE TypeOK'
  <2>1. GatewayTypeOK'
    BY <1>19, ClosingTypes DEF ReleaseFails, GatewayTypeOK
  <2> QED
    BY <1>19, <2>1 DEF ReleaseFails, requestVars, attemptVars, holdVars,
       jobVars, sweepVars, RowsTypeOK, BackgroundTypeOK
<1>20. ASSUME Close PROVE TypeOK'
  <2>1. GatewayTypeOK'
    BY <1>20, ClosingTypes DEF Close, Forget, GatewayTypeOK
  <2>2. RowsTypeOK'
    BY <1>20 DEF Close, CloseRow, holdVars, RowsTypeOK, Stage, Closed
  <2> QED
    BY <1>20, <2>1, <2>2 DEF Close, jobVars, sweepVars, BackgroundTypeOK
<1>21. ASSUME Crash PROVE TypeOK'
  <2>1. GatewayTypeOK'
    BY <1>21, ClosingTypes DEF Crash, Forget, GatewayTypeOK
  <2>2. RowsTypeOK'
    BY <1>21 DEF Crash, attemptVars, holdVars, RowsTypeOK
  <2> QED
    BY <1>21, <2>1, <2>2 DEF Crash, jobVars, sweepVars, BackgroundTypeOK
<1>22. ASSUME AuditDelivery PROVE TypeOK'
  <2>1. RowsTypeOK'
    BY <1>22 DEF AuditDelivery, attemptVars, holdVars, RowsTypeOK
  <2> QED
    BY <1>22, <2>1 DEF AuditDelivery, gatewayVars, jobVars, sweepVars,
       GatewayTypeOK, BackgroundTypeOK
<1>23. ASSUME NEW a \in Attempts, PermitExpires(a) PROVE TypeOK'
  <2>1. RowsTypeOK'
    BY <1>23 DEF PermitExpires, requestVars, holdVars, RowsTypeOK
  <2> QED
    BY <1>23, <2>1 DEF PermitExpires, gatewayVars, jobVars, sweepVars,
       GatewayTypeOK, BackgroundTypeOK
<1>24. ASSUME Age PROVE TypeOK'
  <2>1. RowsTypeOK'
    BY <1>24 DEF Age, requestVars, attemptVars, RowsTypeOK
  <2> QED
    BY <1>24, <2>1 DEF Age, gatewayVars, jobVars, sweepVars, GatewayTypeOK,
       BackgroundTypeOK
<1>25. ASSUME LeaseExpires PROVE TypeOK'
  <2>1. BackgroundTypeOK'
    BY <1>25 DEF LeaseExpires, sweepVars, BackgroundTypeOK, Jobs
  <2> QED
    BY <1>25, <2>1 DEF LeaseExpires, gatewayVars, requestVars, attemptVars,
       holdVars, GatewayTypeOK, RowsTypeOK
<1>26. ASSUME NEW w \in Workers, Claim(w) PROVE TypeOK'
  <2>1. BackgroundTypeOK'
    BY <1>26, ClaimFacts DEF Claim, sweepVars, BackgroundTypeOK
  <2> QED
    BY <1>26, <2>1 DEF Claim, gatewayVars, requestVars, attemptVars, holdVars,
       GatewayTypeOK, RowsTypeOK
<1>27. ASSUME NEW w \in Workers, Replay(w) PROVE TypeOK'
  <2>1. RowsTypeOK'
    BY <1>27 DEF Replay, Settle, ReleaseHold, RowsTypeOK, Facts, JobShape
  <2>2. BackgroundTypeOK'
    BY <1>27 DEF Replay, sweepVars, BackgroundTypeOK
  <2> QED
    BY <1>27, <2>1, <2>2 DEF Replay, gatewayVars, GatewayTypeOK
<1>28. ASSUME NEW w \in Workers, ReplayElse(w) PROVE TypeOK'
  <2>1. BackgroundTypeOK'
    BY <1>28 DEF ReplayElse, sweepVars, BackgroundTypeOK
  <2> QED
    BY <1>28, <2>1 DEF ReplayElse, gatewayVars, requestVars, attemptVars,
       holdVars, GatewayTypeOK, RowsTypeOK
<1>29. ASSUME NEW w \in Workers, MarkReplayed(w) PROVE TypeOK'
  <2>1. BackgroundTypeOK'
    BY <1>29, JobSucceededFacts DEF MarkReplayed, Idle, sweepVars,
       BackgroundTypeOK
  <2> QED
    BY <1>29, <2>1 DEF MarkReplayed, gatewayVars, requestVars, attemptVars,
       holdVars, GatewayTypeOK, RowsTypeOK
<1>30. ASSUME NEW w \in Workers, MarkFailed(w) PROVE TypeOK'
  <2>1. /\ job' \in Jobs /\ wk' = [wk EXCEPT ![w] = Idle]
        /\ orphan' = orphan /\ stranded' = stranded
    BY <1>30, <1>0 DEF MarkFailed, sweepVars
  <2>2. BackgroundTypeOK'
    BY <2>1 DEF BackgroundTypeOK, Idle
  <2> QED
    BY <1>30, <2>2 DEF MarkFailed, gatewayVars, requestVars, attemptVars,
       holdVars, GatewayTypeOK, RowsTypeOK
<1>31. ASSUME NEW w \in Workers, MarkExhausted(w) PROVE TypeOK'
  <2>1. BackgroundTypeOK'
    BY <1>31, HandedBackFacts DEF MarkExhausted, sweepVars, BackgroundTypeOK
  <2> QED
    BY <1>31, <2>1 DEF MarkExhausted, gatewayVars, requestVars, attemptVars,
       holdVars, GatewayTypeOK, RowsTypeOK
<1>32. ASSUME NEW w \in Workers, FinalizeDead(w) PROVE TypeOK'
  <2>1. RowsTypeOK'
    BY <1>32 DEF FinalizeDead, ReleaseHold, RowsTypeOK
  <2> QED
    BY <1>32, <2>1 DEF FinalizeDead, gatewayVars, jobVars, sweepVars,
       GatewayTypeOK, BackgroundTypeOK
<1>33. ASSUME NEW w \in Workers, WorkerRestart(w) PROVE TypeOK'
  <2>1. BackgroundTypeOK'
    BY <1>33 DEF WorkerRestart, Idle, sweepVars, BackgroundTypeOK
  <2> QED
    BY <1>33, <2>1 DEF WorkerRestart, gatewayVars, requestVars, attemptVars,
       holdVars, GatewayTypeOK, RowsTypeOK
<1>34. ASSUME OrphanList PROVE TypeOK'
  <2>1. BackgroundTypeOK'
    BY <1>34 DEF OrphanList, RunningAttempts, jobVars, BackgroundTypeOK
  <2> QED
    BY <1>34, <2>1 DEF OrphanList, gatewayVars, requestVars, attemptVars,
       holdVars, GatewayTypeOK, RowsTypeOK
<1>35. ASSUME OrphanProve PROVE TypeOK'
  <2>1. BackgroundTypeOK'
    BY <1>35 DEF OrphanProve, jobVars, BackgroundTypeOK
  <2> QED
    BY <1>35, <2>1 DEF OrphanProve, gatewayVars, requestVars, attemptVars,
       holdVars, GatewayTypeOK, RowsTypeOK
<1>36. ASSUME FinalizeOrphan PROVE TypeOK'
  <2>1. RowsTypeOK'
    BY <1>36 DEF FinalizeOrphan, ReleaseHold, RowsTypeOK
  <2>2. BackgroundTypeOK'
    BY <1>36 DEF FinalizeOrphan, jobVars, BackgroundTypeOK
  <2> QED
    BY <1>36, <2>1, <2>2 DEF FinalizeOrphan, gatewayVars, GatewayTypeOK
<1>37. ASSUME OrphanSkip PROVE TypeOK'
  <2>1. BackgroundTypeOK'
    BY <1>37 DEF OrphanSkip, jobVars, BackgroundTypeOK
  <2> QED
    BY <1>37, <2>1 DEF OrphanSkip, gatewayVars, requestVars, attemptVars,
       holdVars, GatewayTypeOK, RowsTypeOK
<1>38. ASSUME StrandedList PROVE TypeOK'
  <2>1. BackgroundTypeOK'
    BY <1>38 DEF StrandedList, jobVars, BackgroundTypeOK
  <2> QED
    BY <1>38, <2>1 DEF StrandedList, gatewayVars, requestVars, attemptVars,
       holdVars, GatewayTypeOK, RowsTypeOK
<1>39. ASSUME FinalizeStranded PROVE TypeOK'
  <2>1. RowsTypeOK'
    BY <1>39 DEF FinalizeStranded, ReleaseHold, requestVars, attemptVars,
       RowsTypeOK
  <2>2. BackgroundTypeOK'
    BY <1>39 DEF FinalizeStranded, jobVars, BackgroundTypeOK
  <2> QED
    BY <1>39, <2>1, <2>2 DEF FinalizeStranded, gatewayVars, GatewayTypeOK
<1>40. ASSUME StrandedSkip PROVE TypeOK'
  <2>1. BackgroundTypeOK'
    BY <1>40 DEF StrandedSkip, jobVars, BackgroundTypeOK
  <2> QED
    BY <1>40, <2>1 DEF StrandedSkip, gatewayVars, requestVars, attemptVars,
       holdVars, GatewayTypeOK, RowsTypeOK
<1>41. CASE UNCHANGED vars
  BY <1>41 DEF vars, gatewayVars, requestVars, attemptVars, holdVars, jobVars,
     sweepVars, GatewayTypeOK, RowsTypeOK, BackgroundTypeOK
<1> QED
  BY <1>1, <1>2, <1>3, <1>4, <1>5, <1>6, <1>7, <1>8, <1>9, <1>10, <1>11,
     <1>12, <1>13, <1>14, <1>15, <1>16, <1>17, <1>18, <1>19, <1>20, <1>21,
     <1>22, <1>23, <1>24, <1>25, <1>26, <1>27, <1>28, <1>29, <1>30, <1>31,
     <1>32, <1>33, <1>34, <1>35, <1>36, <1>37, <1>38, <1>39, <1>40, <1>41 DEF
     Next, Gateway, Upstream, WorkerStep

LEMMA StoryStep == IInv /\ [Next]_vars => Story'
<1> SUFFICES ASSUME IInv, [Next]_vars PROVE Story'
  OBVIOUS
<1> DEFINE HandsBack == \/ job' = job
                       \/ /\ job' \in Jobs /\ job'.facts = job.facts
                          /\ job'.status \in {"pending", "dead"}
<1>0. ASSUME NEW w \in Workers, MarkFailed(w) PROVE HandsBack /\ job' \in Jobs
  BY <1>0, MarkFailedFacts DEF IInv
<1> USE DEF IInv, Story, SettlementIsWhole, Stage, JobShape, SweepShape, ReleaseShape,
     Final, Closed, Facts, Jobs, TypeOK,
     GatewayTypeOK, RowsTypeOK, BackgroundTypeOK
<1>1. ASSUME Authorize PROVE Story'
  BY <1>1 DEF Authorize, FailRequest, requestVars, attemptVars, jobVars,
     sweepVars
<1>2. ASSUME NoCandidate PROVE Story'
  BY <1>2 DEF NoCandidate, LeaveBy, FailRequest, requestVars, attemptVars,
     holdVars, jobVars, sweepVars
<1>3. ASSUME NEW a \in Attempts, StartAttempt(a) PROVE Story'
  BY <1>3 DEF StartAttempt, AttemptInsertable, requestVars, holdVars, jobVars,
     sweepVars
<1>4. ASSUME NEW a \in Attempts, AttemptCreateFails(a) PROVE Story'
  BY <1>4 DEF AttemptCreateFails, attemptVars, AttemptInsertable, LeaveBy,
     FailRequest, requestVars, holdVars, jobVars, sweepVars
<1>5. ASSUME Emit PROVE Story'
  BY <1>5 DEF Emit, attemptVars, holdVars, jobVars, sweepVars
<1>6. ASSUME UpstreamRetryable PROVE Story'
  BY <1>6 DEF UpstreamRetryable, MarkAttemptFailed, requestVars, holdVars,
     jobVars, sweepVars
<1>7. ASSUME UpstreamFailed PROVE Story'
  BY <1>7 DEF UpstreamFailed, MarkAttemptFailed, LeaveBy, FailRequest,
     requestVars, holdVars, jobVars, sweepVars
<1>8. ASSUME UpstreamUnreliableUsage PROVE Story'
  BY <1>8 DEF UpstreamUnreliableUsage, MarkAttemptFailed, LeaveBy, FailRequest,
     requestVars, holdVars, jobVars, sweepVars
<1>9. ASSUME UpstreamMissingUsage PROVE Story'
  BY <1>9 DEF UpstreamMissingUsage, LeaveBy, CloseBoth, requestVars, holdVars,
     jobVars, sweepVars
<1>10. ASSUME UpstreamCanceled PROVE Story'
  BY <1>10 DEF UpstreamCanceled, LeaveBy, CloseBoth, requestVars, holdVars,
     jobVars, sweepVars
<1>11. ASSUME NEW target \in Final, NEW free \in BOOLEAN, UpstreamBillable(target, free) PROVE Story'
  BY <1>11 DEF UpstreamBillable, requestVars, holdVars, jobVars, sweepVars
<1>12. ASSUME CreateJob PROVE Story'
  <2>1. job'.facts = facts /\ job'.status = "pending"
    BY <1>12, NewJobFacts DEF CreateJob
  <2> QED
    BY <1>12, <2>1 DEF CreateJob, JobInsertable, LeaveBy, FailRequest,
       requestVars, holdVars, sweepVars
<1>13. ASSUME CreateJobFails PROVE Story'
  BY <1>13 DEF CreateJobFails, LeaveBy, FailRequest, requestVars, attemptVars,
     holdVars, jobVars, sweepVars
<1>14. ASSUME InlineSettle PROVE Story'
  BY <1>14 DEF InlineSettle, Settle, jobVars, sweepVars, CanSettle, ReleaseHold
<1>15. ASSUME InlineSettleElse PROVE Story'
  BY <1>15 DEF InlineSettleElse, SettledAlready, requestVars, attemptVars,
     holdVars, jobVars, sweepVars
<1>16. ASSUME MarkInline PROVE Story'
  <2>1. job'.facts = job.facts /\ (job'.status = "none" <=> job.status = "none")
    BY <1>16, JobSucceededFacts DEF MarkInline
  <2> QED
    BY <1>16, <2>1 DEF MarkInline, requestVars, attemptVars, holdVars, sweepVars
<1>17. ASSUME FinishDelivery PROVE Story'
  BY <1>17 DEF FinishDelivery, attemptVars, holdVars, jobVars, sweepVars
<1>18. ASSUME Release PROVE Story'
  BY <1>18 DEF Release, Releasable, ReleaseHold, FailRequest, requestVars,
     attemptVars, jobVars, sweepVars
<1>19. ASSUME ReleaseFails PROVE Story'
  BY <1>19 DEF ReleaseFails, FailRequest, requestVars, attemptVars, holdVars,
     jobVars, sweepVars
<1>20. ASSUME Close PROVE Story'
  BY <1>20 DEF Close, CloseRow, holdVars, jobVars, sweepVars
<1>21. ASSUME Crash PROVE Story'
  BY <1>21 DEF Crash, attemptVars, holdVars, jobVars, sweepVars
<1>22. ASSUME AuditDelivery PROVE Story'
  BY <1>22 DEF AuditDelivery, gatewayVars, attemptVars, holdVars, jobVars,
     sweepVars
<1>23. ASSUME NEW a \in Attempts, PermitExpires(a) PROVE Story'
  BY <1>23 DEF PermitExpires, gatewayVars, requestVars, holdVars, jobVars,
     sweepVars
<1>24. ASSUME Age PROVE Story'
  BY <1>24 DEF Age, gatewayVars, requestVars, attemptVars, jobVars, sweepVars
<1>25. ASSUME LeaseExpires PROVE Story'
  BY <1>25 DEF LeaseExpires, gatewayVars, requestVars, attemptVars, holdVars,
     sweepVars
<1>26. ASSUME NEW w \in Workers, Claim(w) PROVE Story'
  <2>1. job'.facts = job.facts /\ job'.status = "running"
    BY <1>26, ClaimFacts
  <2> QED
    BY <1>26, <2>1 DEF Claim, Due, gatewayVars, requestVars, attemptVars,
       holdVars, sweepVars
<1>27. ASSUME NEW w \in Workers, Replay(w) PROVE Story'
  BY <1>27 DEF Replay, Settle, gatewayVars, sweepVars, CanSettle, ReleaseHold,
     Releasable
<1>28. ASSUME NEW w \in Workers, ReplayElse(w) PROVE Story'
  BY <1>28 DEF ReplayElse, SettledAlready, gatewayVars, requestVars,
     attemptVars, holdVars, sweepVars
<1>29. ASSUME NEW w \in Workers, MarkReplayed(w) PROVE Story'
  <2>1. job'.facts = job.facts /\ (job'.status = "none" <=> job.status = "none")
    BY <1>29, JobSucceededFacts DEF MarkReplayed
  <2> QED
    BY <1>29, <2>1 DEF MarkReplayed, gatewayVars, requestVars, attemptVars,
       holdVars, sweepVars
<1>30. ASSUME NEW w \in Workers, MarkFailed(w) PROVE Story'
  <2>1. HandsBack
    BY <1>30, <1>0
  <2> QED
    BY <1>30, <2>1 DEF MarkFailed, Idle, gatewayVars, requestVars, attemptVars,
       holdVars, sweepVars
<1>31. ASSUME NEW w \in Workers, MarkExhausted(w) PROVE Story'
  <2>1. job'.facts = job.facts /\ job'.status = "dead"
    BY <1>31, HandedBackFacts DEF MarkExhausted
  <2> QED
    BY <1>31, <2>1 DEF MarkExhausted, Due, gatewayVars, requestVars,
       attemptVars, holdVars, sweepVars
<1>32. ASSUME NEW w \in Workers, FinalizeDead(w) PROVE Story'
  BY <1>32 DEF FinalizeDead, DeadFinalizable, ReleaseHold, gatewayVars, jobVars,
     sweepVars, Releasable
<1>33. ASSUME NEW w \in Workers, WorkerRestart(w) PROVE Story'
  BY <1>33 DEF WorkerRestart, Idle, gatewayVars, requestVars, attemptVars,
     holdVars, sweepVars
<1>34. ASSUME OrphanList PROVE Story'
  BY <1>34 DEF OrphanList, OrphanCandidate, gatewayVars, requestVars, holdVars,
     jobVars
<1>35. ASSUME OrphanProve PROVE Story'
  BY <1>35 DEF OrphanProve, gatewayVars, requestVars, attemptVars, holdVars,
     jobVars
<1>36. ASSUME FinalizeOrphan PROVE Story'
  BY <1>36 DEF FinalizeOrphan, OrphanGate, Releasable, ReleaseHold, gatewayVars,
     jobVars
<1>37. ASSUME OrphanSkip PROVE Story'
  BY <1>37 DEF OrphanSkip, gatewayVars, requestVars, attemptVars, holdVars,
     jobVars
<1>38. ASSUME StrandedList PROVE Story'
  BY <1>38 DEF StrandedList, StrandedCandidate, gatewayVars, requestVars,
     attemptVars, holdVars, jobVars
<1>39. ASSUME FinalizeStranded PROVE Story'
  BY <1>39 DEF FinalizeStranded, Releasable, ReleaseHold, gatewayVars,
     requestVars, attemptVars, jobVars
<1>40. ASSUME StrandedSkip PROVE Story'
  BY <1>40 DEF StrandedSkip, gatewayVars, requestVars, attemptVars, holdVars,
     jobVars
<1>41. CASE UNCHANGED vars
  BY <1>41 DEF vars, gatewayVars, requestVars, attemptVars, holdVars, jobVars,
     sweepVars
<1> QED
  BY <1>1, <1>2, <1>3, <1>4, <1>5, <1>6, <1>7, <1>8, <1>9, <1>10, <1>11,
     <1>12, <1>13, <1>14, <1>15, <1>16, <1>17, <1>18, <1>19, <1>20, <1>21,
     <1>22, <1>23, <1>24, <1>25, <1>26, <1>27, <1>28, <1>29, <1>30, <1>31,
     <1>32, <1>33, <1>34, <1>35, <1>36, <1>37, <1>38, <1>39, <1>40, <1>41 DEF
     Next, Gateway, Upstream, WorkerStep

-----------------------------------------------------------------------------
\* The inductive invariant: Init establishes it and every step keeps it.
THEOREM InvariantHolds == Spec => []IInv
<1>1. Init => IInv
  <2> SUFFICES ASSUME Init PROVE IInv
    OBVIOUS
  <2>1. GatewayTypeOK /\ BackgroundTypeOK
    <3>1. 0 \in 0..MaxAttempts
      OBVIOUS
    <3> QED
      BY <3>1 DEF Init, GatewayTypeOK, BackgroundTypeOK, GatewaySteps,
         NoClosing, Closings, NoJob, Jobs, Idle
  <2>2. RowsTypeOK
    BY DEF Init, RowsTypeOK
  <2>3. Story
    BY DEF Init, Story, SettlementIsWhole, Stage, JobShape, SweepShape,
       ReleaseShape, NoJob, Idle
  <2> QED
    BY <2>1, <2>2, <2>3 DEF IInv, TypeOK
<1>2. IInv /\ [Next]_vars => IInv'
  BY TypeStep, StoryStep DEF IInv
<1> QED
  BY <1>1, <1>2, PTL DEF Spec

\* Type correctness of the rows, the gateway's locals and the background tasks.
THEOREM TypeCorrect == Spec => []TypeOK
  BY InvariantHolds, PTL DEF IInv

\* The settlement transaction is all or nothing across its rows, whichever of
\* the gateway and the workers commits it and whatever is written afterwards.
THEOREM SettlementIsWholeTheorem == Spec => []SettlementIsWhole
  BY InvariantHolds, PTL DEF IInv, Story

\* A job is closed as succeeded only over a committed settlement.
THEOREM SucceededJobTheorem == Spec => []SucceededJobIsSettled
<1>1. IInv => SucceededJobIsSettled
  BY DEF IInv, Story, JobShape, SucceededJobIsSettled
<1> QED
  BY <1>1, InvariantHolds, PTL

\* No risk exposure for a request the customer was charged for.
THEOREM NeverExposedAndChargedTheorem == Spec => []NeverExposedAndCharged
<1>1. IInv => NeverExposedAndCharged
  BY DEF IInv, Story, ReleaseShape, NeverExposedAndCharged
<1> QED
  BY <1>1, InvariantHolds, PTL

\* A hold taken back by a sweeper has no recovery job and never gets one.
THEOREM SweptHoldTheorem == Spec => []SweptHoldHasNoJob
<1>1. IInv => SweptHoldHasNoJob
  BY DEF IInv, Story, SweepShape, SweptHoldHasNoJob
<1> QED
  BY <1>1, InvariantHolds, PTL

\* After an orphan sweep the request is failed and no attempt runs.
THEOREM SweptRequestTheorem == Spec => []SweptRequestIsQuiet
<1>1. IInv => SweptRequestIsQuiet
  BY DEF IInv, Story, SweepShape, SweptRequestIsQuiet, RunningAttempts
<1> QED
  BY <1>1, InvariantHolds, PTL

\* Upstream cost is never written off in silence.
THEOREM CostIsAccountedTheorem == Spec => []CostIsAccounted
<1>1. IInv => CostIsAccounted
  BY DEF IInv, Story, ReleaseShape, CostIsAccounted
<1> QED
  BY <1>1, InvariantHolds, PTL

LEMMA TerminalStep == IInv /\ [Next]_vars => KeepsTerminalRows
<1> SUFFICES ASSUME IInv, [Next]_vars PROVE KeepsTerminalRows
  OBVIOUS
<1> USE DEF IInv, TypeOK, RowsTypeOK, Final, KeepsTerminalRows
<1>1. ASSUME Authorize PROVE KeepsTerminalRows
  BY <1>1 DEF Authorize, requestVars, attemptVars, jobVars, Story, Stage
<1>2. ASSUME NoCandidate PROVE KeepsTerminalRows
  BY <1>2 DEF NoCandidate, requestVars, attemptVars, holdVars, jobVars
<1>3. ASSUME NEW a \in Attempts, StartAttempt(a) PROVE KeepsTerminalRows
  BY <1>3 DEF StartAttempt, AttemptInsertable, holdVars, jobVars
<1>4. ASSUME NEW a \in Attempts, AttemptCreateFails(a) PROVE KeepsTerminalRows
  BY <1>4 DEF AttemptCreateFails, attemptVars, requestVars, holdVars, jobVars
<1>5. ASSUME Emit PROVE KeepsTerminalRows
  BY <1>5 DEF Emit, attemptVars, holdVars, jobVars
<1>6. ASSUME UpstreamRetryable PROVE KeepsTerminalRows
  BY <1>6 DEF UpstreamRetryable, MarkAttemptFailed, requestVars, holdVars,
     jobVars
<1>7. ASSUME UpstreamFailed PROVE KeepsTerminalRows
  BY <1>7 DEF UpstreamFailed, MarkAttemptFailed, requestVars, holdVars, jobVars
<1>8. ASSUME UpstreamUnreliableUsage PROVE KeepsTerminalRows
  BY <1>8 DEF UpstreamUnreliableUsage, MarkAttemptFailed, requestVars, holdVars,
     jobVars
<1>9. ASSUME UpstreamMissingUsage PROVE KeepsTerminalRows
  BY <1>9 DEF UpstreamMissingUsage, requestVars, holdVars, jobVars
<1>10. ASSUME UpstreamCanceled PROVE KeepsTerminalRows
  BY <1>10 DEF UpstreamCanceled, requestVars, holdVars, jobVars
<1>11. ASSUME NEW target \in Final, NEW free \in BOOLEAN, UpstreamBillable(target, free) PROVE KeepsTerminalRows
  BY <1>11 DEF UpstreamBillable, requestVars, holdVars, jobVars
<1>12. ASSUME CreateJob PROVE KeepsTerminalRows
  BY <1>12 DEF CreateJob, JobInsertable, attemptVars, holdVars
<1>13. ASSUME CreateJobFails PROVE KeepsTerminalRows
  BY <1>13 DEF CreateJobFails, requestVars, attemptVars, holdVars, jobVars
<1>14. ASSUME InlineSettle PROVE KeepsTerminalRows
  BY <1>14 DEF InlineSettle, Settle, jobVars, CanSettle, ReleaseHold, Releasable
<1>15. ASSUME InlineSettleElse PROVE KeepsTerminalRows
  BY <1>15 DEF InlineSettleElse, requestVars, attemptVars, holdVars, jobVars
<1>16. ASSUME MarkInline PROVE KeepsTerminalRows
  BY <1>16 DEF MarkInline, JobSucceeded, requestVars, attemptVars, holdVars
<1>17. ASSUME FinishDelivery PROVE KeepsTerminalRows
  BY <1>17 DEF FinishDelivery, attemptVars, holdVars, jobVars
<1>18. ASSUME Release PROVE KeepsTerminalRows
  BY <1>18 DEF Release, Releasable, ReleaseHold, requestVars, attemptVars,
     jobVars
<1>19. ASSUME ReleaseFails PROVE KeepsTerminalRows
  BY <1>19 DEF ReleaseFails, requestVars, attemptVars, holdVars, jobVars
<1>20. ASSUME Close PROVE KeepsTerminalRows
  BY <1>20 DEF Close, CloseRow, holdVars, jobVars
<1>21. ASSUME Crash PROVE KeepsTerminalRows
  BY <1>21 DEF Crash, attemptVars, holdVars, jobVars
<1>22. ASSUME AuditDelivery PROVE KeepsTerminalRows
  BY <1>22 DEF AuditDelivery, attemptVars, holdVars, jobVars
<1>23. ASSUME NEW a \in Attempts, PermitExpires(a) PROVE KeepsTerminalRows
  BY <1>23 DEF PermitExpires, requestVars, holdVars, jobVars
<1>24. ASSUME Age PROVE KeepsTerminalRows
  BY <1>24 DEF Age, requestVars, attemptVars, jobVars
<1>25. ASSUME LeaseExpires PROVE KeepsTerminalRows
  BY <1>25 DEF LeaseExpires, requestVars, attemptVars, holdVars
<1>26. ASSUME NEW w \in Workers, Claim(w) PROVE KeepsTerminalRows
  BY <1>26 DEF Claim, Due, requestVars, attemptVars, holdVars
<1>27. ASSUME NEW w \in Workers, Replay(w) PROVE KeepsTerminalRows
  BY <1>27 DEF Replay, Settle, CanSettle, ReleaseHold, Releasable
<1>28. ASSUME NEW w \in Workers, ReplayElse(w) PROVE KeepsTerminalRows
  BY <1>28 DEF ReplayElse, requestVars, attemptVars, holdVars
<1>29. ASSUME NEW w \in Workers, MarkReplayed(w) PROVE KeepsTerminalRows
  BY <1>29 DEF MarkReplayed, JobSucceeded, requestVars, attemptVars, holdVars
<1>30. ASSUME NEW w \in Workers, MarkFailed(w) PROVE KeepsTerminalRows
  BY <1>30 DEF MarkFailed, HoldsClaim, requestVars, attemptVars, holdVars
<1>31. ASSUME NEW w \in Workers, MarkExhausted(w) PROVE KeepsTerminalRows
  BY <1>31 DEF MarkExhausted, Due, requestVars, attemptVars, holdVars
<1>32. ASSUME NEW w \in Workers, FinalizeDead(w) PROVE KeepsTerminalRows
  BY <1>32 DEF FinalizeDead, DeadFinalizable, ReleaseHold, jobVars, Releasable
<1>33. ASSUME NEW w \in Workers, WorkerRestart(w) PROVE KeepsTerminalRows
  BY <1>33 DEF WorkerRestart, requestVars, attemptVars, holdVars
<1>34. ASSUME OrphanList PROVE KeepsTerminalRows
  BY <1>34 DEF OrphanList, requestVars, attemptVars, holdVars, jobVars
<1>35. ASSUME OrphanProve PROVE KeepsTerminalRows
  BY <1>35 DEF OrphanProve, requestVars, attemptVars, holdVars, jobVars
<1>36. ASSUME FinalizeOrphan PROVE KeepsTerminalRows
  BY <1>36 DEF FinalizeOrphan, OrphanGate, Releasable, ReleaseHold
<1>37. ASSUME OrphanSkip PROVE KeepsTerminalRows
  BY <1>37 DEF OrphanSkip, requestVars, attemptVars, holdVars, jobVars
<1>38. ASSUME StrandedList PROVE KeepsTerminalRows
  BY <1>38 DEF StrandedList, requestVars, attemptVars, holdVars, jobVars
<1>39. ASSUME FinalizeStranded PROVE KeepsTerminalRows
  BY <1>39 DEF FinalizeStranded, Releasable, ReleaseHold, requestVars,
     attemptVars, jobVars
<1>40. ASSUME StrandedSkip PROVE KeepsTerminalRows
  BY <1>40 DEF StrandedSkip, requestVars, attemptVars, holdVars, jobVars
<1>41. CASE UNCHANGED vars
  BY <1>41 DEF vars, requestVars, attemptVars, holdVars, jobVars
<1> QED
  BY <1>1, <1>2, <1>3, <1>4, <1>5, <1>6, <1>7, <1>8, <1>9, <1>10, <1>11,
     <1>12, <1>13, <1>14, <1>15, <1>16, <1>17, <1>18, <1>19, <1>20, <1>21,
     <1>22, <1>23, <1>24, <1>25, <1>26, <1>27, <1>28, <1>29, <1>30, <1>31,
     <1>32, <1>33, <1>34, <1>35, <1>36, <1>37, <1>38, <1>39, <1>40, <1>41 DEF
     Next, Gateway, Upstream, WorkerStep

LEMMA LeaseStep == IInv /\ [Next]_vars => RespectsLease
<1> SUFFICES ASSUME IInv, [Next]_vars PROVE RespectsLease
  OBVIOUS
<1> USE DEF RespectsLease
<1>1. ASSUME Authorize PROVE RespectsLease
  BY <1>1 DEF Authorize, jobVars
<1>2. ASSUME NoCandidate PROVE RespectsLease
  BY <1>2 DEF NoCandidate, jobVars
<1>3. ASSUME NEW a \in Attempts, StartAttempt(a) PROVE RespectsLease
  BY <1>3 DEF StartAttempt, jobVars
<1>4. ASSUME NEW a \in Attempts, AttemptCreateFails(a) PROVE RespectsLease
  BY <1>4 DEF AttemptCreateFails, jobVars
<1>5. ASSUME Emit PROVE RespectsLease
  BY <1>5 DEF Emit, jobVars
<1>6. ASSUME UpstreamRetryable PROVE RespectsLease
  BY <1>6 DEF UpstreamRetryable, jobVars
<1>7. ASSUME UpstreamFailed PROVE RespectsLease
  BY <1>7 DEF UpstreamFailed, jobVars
<1>8. ASSUME UpstreamUnreliableUsage PROVE RespectsLease
  BY <1>8 DEF UpstreamUnreliableUsage, jobVars
<1>9. ASSUME UpstreamMissingUsage PROVE RespectsLease
  BY <1>9 DEF UpstreamMissingUsage, jobVars
<1>10. ASSUME UpstreamCanceled PROVE RespectsLease
  BY <1>10 DEF UpstreamCanceled, jobVars
<1>11. ASSUME NEW target \in Final, NEW free \in BOOLEAN, UpstreamBillable(target, free) PROVE RespectsLease
  BY <1>11 DEF UpstreamBillable, jobVars
<1>12. ASSUME CreateJob PROVE RespectsLease
  BY <1>12 DEF CreateJob, JobInsertable
<1>13. ASSUME CreateJobFails PROVE RespectsLease
  BY <1>13 DEF CreateJobFails, jobVars
<1>14. ASSUME InlineSettle PROVE RespectsLease
  BY <1>14 DEF InlineSettle, jobVars
<1>15. ASSUME InlineSettleElse PROVE RespectsLease
  BY <1>15 DEF InlineSettleElse, jobVars
<1>16. ASSUME MarkInline PROVE RespectsLease
  BY <1>16 DEF MarkInline, JobSucceeded, IInv, TypeOK, BackgroundTypeOK, Jobs
<1>17. ASSUME FinishDelivery PROVE RespectsLease
  BY <1>17 DEF FinishDelivery, jobVars
<1>18. ASSUME Release PROVE RespectsLease
  BY <1>18 DEF Release, jobVars
<1>19. ASSUME ReleaseFails PROVE RespectsLease
  BY <1>19 DEF ReleaseFails, jobVars
<1>20. ASSUME Close PROVE RespectsLease
  BY <1>20 DEF Close, jobVars
<1>21. ASSUME Crash PROVE RespectsLease
  BY <1>21 DEF Crash, jobVars
<1>22. ASSUME AuditDelivery PROVE RespectsLease
  BY <1>22 DEF AuditDelivery, jobVars
<1>23. ASSUME NEW a \in Attempts, PermitExpires(a) PROVE RespectsLease
  BY <1>23 DEF PermitExpires, jobVars
<1>24. ASSUME Age PROVE RespectsLease
  BY <1>24 DEF Age, jobVars
<1>25. ASSUME LeaseExpires PROVE RespectsLease
  BY <1>25 DEF LeaseExpires
<1>26. ASSUME NEW w \in Workers, Claim(w) PROVE RespectsLease
  BY <1>26 DEF Claim
<1>27. ASSUME NEW w \in Workers, Replay(w) PROVE RespectsLease
  BY <1>27 DEF Replay
<1>28. ASSUME NEW w \in Workers, ReplayElse(w) PROVE RespectsLease
  BY <1>28 DEF ReplayElse
<1>29. ASSUME NEW w \in Workers, MarkReplayed(w) PROVE RespectsLease
  BY <1>29 DEF MarkReplayed, JobSucceeded, IInv, TypeOK, BackgroundTypeOK, Jobs
<1>30. ASSUME NEW w \in Workers, MarkFailed(w) PROVE RespectsLease
  BY <1>30 DEF MarkFailed, HoldsClaim, Idle, IInv, TypeOK, BackgroundTypeOK
<1>31. ASSUME NEW w \in Workers, MarkExhausted(w) PROVE RespectsLease
  BY <1>31 DEF MarkExhausted, Due
<1>32. ASSUME NEW w \in Workers, FinalizeDead(w) PROVE RespectsLease
  BY <1>32 DEF FinalizeDead, jobVars
<1>33. ASSUME NEW w \in Workers, WorkerRestart(w) PROVE RespectsLease
  BY <1>33 DEF WorkerRestart
<1>34. ASSUME OrphanList PROVE RespectsLease
  BY <1>34 DEF OrphanList, jobVars
<1>35. ASSUME OrphanProve PROVE RespectsLease
  BY <1>35 DEF OrphanProve, jobVars
<1>36. ASSUME FinalizeOrphan PROVE RespectsLease
  BY <1>36 DEF FinalizeOrphan, jobVars
<1>37. ASSUME OrphanSkip PROVE RespectsLease
  BY <1>37 DEF OrphanSkip, jobVars
<1>38. ASSUME StrandedList PROVE RespectsLease
  BY <1>38 DEF StrandedList, jobVars
<1>39. ASSUME FinalizeStranded PROVE RespectsLease
  BY <1>39 DEF FinalizeStranded, jobVars
<1>40. ASSUME StrandedSkip PROVE RespectsLease
  BY <1>40 DEF StrandedSkip, jobVars
<1>41. CASE UNCHANGED vars
  BY <1>41 DEF vars, jobVars
<1> QED
  BY <1>1, <1>2, <1>3, <1>4, <1>5, <1>6, <1>7, <1>8, <1>9, <1>10, <1>11,
     <1>12, <1>13, <1>14, <1>15, <1>16, <1>17, <1>18, <1>19, <1>20, <1>21,
     <1>22, <1>23, <1>24, <1>25, <1>26, <1>27, <1>28, <1>29, <1>30, <1>31,
     <1>32, <1>33, <1>34, <1>35, <1>36, <1>37, <1>38, <1>39, <1>40, <1>41 DEF
     Next, Gateway, Upstream, WorkerStep

\* No retry, replay, sweep or late audit moves a closed row again.
THEOREM TerminalRowsTheorem == Spec => TerminalRowsAreFinal
<1>1. IInv /\ [Next]_vars => [KeepsTerminalRows]_vars
  BY TerminalStep
<1> QED
  BY <1>1, InvariantHolds, PTL DEF Spec, TerminalRowsAreFinal

\* Only the holder of a live claim hands the job back or buries it.
THEOREM LeaseTheorem == Spec => LeaseIsRespected
<1>1. IInv /\ [Next]_vars => [RespectsLease]_vars
  BY LeaseStep
<1> QED
  BY <1>1, InvariantHolds, PTL DEF Spec, LeaseIsRespected

=============================================================================
