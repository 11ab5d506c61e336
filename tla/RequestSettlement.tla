-------------------------- MODULE RequestSettlement --------------------------
(***************************************************************************)
(* The life of one gateway request's money: the hold taken before the      *)
(* upstream call, the settlement that captures it, the recovery job that   *)
(* replays a settlement which failed, and the two sweepers that give back  *)
(* holds nobody owns.  The actors are the gateway goroutine that serves    *)
(* the request, its asynchronous delivery audit, the settlement recovery   *)
(* workers, the orphan sweeper and the stranded sweeper.  They share only  *)
(* database rows (and the attempt permits kept in Redis); every database   *)
(* transaction is one atomic step.                                         *)
(*                                                                         *)
(* A call whose answer is lost (a timeout after the commit) is a step that *)
(* takes effect and leaves the caller on its error path.  Time is          *)
(* abstracted to "the hold is older than the sweep threshold" and "the     *)
(* job's lease has run out"; both may happen as soon as they can.          *)
(***************************************************************************)
EXTENDS Naturals, FiniteSets

CONSTANTS
    Attempts,       \* the upstream attempts the candidate list allows
    Workers,        \* settlement recovery workers
    MaxAttempts,    \* max_attempts of a recovery job
    NoAttempt, NoWorker

ASSUME SettlementAssumption ==
    /\ IsFiniteSet(Attempts) /\ NoAttempt \notin Attempts
    /\ IsFiniteSet(Workers) /\ NoWorker \notin Workers
    /\ MaxAttempts \in Nat \ {0}

VARIABLES
    pc,         \* where the gateway goroutine is
    cur,        \* the attempt the gateway is running
    facts,      \* the ChatSettlementParams the gateway settles with
    risk,       \* the pending release records a billing exception
    closing,    \* the terminal write that follows the release
    sent,       \* what of the response the customer has received
    audit,      \* the asynchronous MarkDeliveryStarted
    req,        \* request_records.status
    delivery,   \* request_records.delivery_status
    att,        \* request_attempts.status of each attempt
    permit,     \* the attempt permit in Redis
    rsv,        \* ledger_reservations.status
    exposed,    \* a risk_exposure row exists for the reservation
    settled,    \* the usage record exists: a settlement has committed
    job,        \* the settlement_recovery_jobs row
    wk,         \* recovery workers: step and the attempt_count they claimed
    orphan,     \* the orphan sweeper: step and proof of death
    stranded,   \* the stranded sweeper's step
    old,        \* the hold is older than the sweep threshold
    cost,       \* history: the upstream produced a billable response
    releasedBy  \* history: who released the hold

gatewayVars == <<pc, cur, facts, risk, closing, sent>>
requestVars == <<req, delivery, audit>>
attemptVars == <<att, permit>>
holdVars    == <<rsv, exposed, releasedBy, old>>
jobVars     == <<job, wk>>
sweepVars   == <<orphan, stranded>>
vars == <<gatewayVars, requestVars, attemptVars, holdVars, jobVars, sweepVars,
          settled, cost>>

Final == {"succeeded", "failed", "canceled"}
Facts == [target : Final, free : BOOLEAN, attempt : Attempts]
NoFacts == [target |-> "none", free |-> FALSE, attempt |-> NoAttempt]
NoClosing == [status |-> "none", attempt |-> NoAttempt, interrupts |-> FALSE]
NoJob == [status |-> "none", count |-> 0, owner |-> NoWorker, lease |-> "none",
          facts |-> NoFacts]
Idle == [pc |-> "idle", claim |-> 0]

Closings == [status : {"none", "failed", "canceled"}, attempt : Attempts \cup {NoAttempt},
             interrupts : BOOLEAN]
Jobs == [status : {"none", "pending", "running", "succeeded", "dead"},
         count : 0..MaxAttempts, owner : Workers \cup {NoWorker},
         lease : {"none", "live", "expired"}, facts : Facts \cup {NoFacts}]

GatewaySteps == {"authorizing", "routing", "upstream", "recording", "settling",
                 "marking", "delivering", "releasing", "closing", "done", "crashed"}

GatewayTypeOK ==
    /\ pc \in GatewaySteps
    /\ cur \in Attempts \cup {NoAttempt}
    /\ facts \in Facts \cup {NoFacts}
    /\ risk \in BOOLEAN
    /\ closing \in Closings
    /\ sent \in {"nothing", "frames", "tokens"}

RowsTypeOK ==
    /\ audit \in {"none", "pending", "done"}
    /\ req \in {"running"} \cup Final
    /\ delivery \in {"not_started", "in_progress", "completed", "interrupted"}
    /\ att \in [Attempts -> {"none", "running"} \cup Final]
    /\ permit \in [Attempts -> {"none", "active", "gone"}]
    /\ rsv \in {"none", "authorized", "captured", "released"}
    /\ exposed \in BOOLEAN /\ settled \in BOOLEAN /\ old \in BOOLEAN /\ cost \in BOOLEAN
    /\ releasedBy \in {"nobody", "gateway", "settlement", "recovery", "orphan", "stranded"}

BackgroundTypeOK ==
    /\ job \in Jobs
    /\ wk \in [Workers -> [pc : {"idle", "replaying", "replayed", "failed"},
                           claim : 0..MaxAttempts]]
    /\ orphan \in [pc : {"idle", "listed", "proved"}, proof : SUBSET Attempts]
    /\ stranded \in {"idle", "listed"}

TypeOK == GatewayTypeOK /\ RowsTypeOK /\ BackgroundTypeOK

Init ==
    /\ pc = "authorizing" /\ cur = NoAttempt /\ facts = NoFacts /\ risk = FALSE
    /\ closing = NoClosing /\ sent = "nothing" /\ audit = "none"
    /\ req = "running" /\ delivery = "not_started"
    /\ att = [a \in Attempts |-> "none"] /\ permit = [a \in Attempts |-> "none"]
    /\ rsv = "none" /\ exposed = FALSE /\ settled = FALSE /\ old = FALSE
    /\ job = NoJob /\ wk = [w \in Workers |-> Idle]
    /\ orphan = [pc |-> "idle", proof |-> {}] /\ stranded = "idle"
    /\ cost = FALSE /\ releasedBy = "nobody"

-----------------------------------------------------------------------------
(* The gateway: authorization and the candidate loop.                      *)

\* Leave the loop through a release and then the terminal write c.
LeaveBy(c, withRisk) ==
    /\ pc' = "releasing" /\ closing' = c /\ risk' = withRisk

FailRequest == [status |-> "failed", attempt |-> NoAttempt, interrupts |-> FALSE]
CloseBoth(s) == [status |-> s, attempt |-> cur, interrupts |-> FALSE]

\* The goroutine's locals go out of scope when it returns or dies.
Forget ==
    /\ cur' = NoAttempt /\ facts' = NoFacts /\ risk' = FALSE /\ closing' = NoClosing
    /\ sent' = "nothing"

\* AuthorizeChat.  On an error nothing is released, even when the hold was
\* committed and only the answer was lost.
Authorize ==
    /\ pc = "authorizing"
    /\ \/ /\ rsv' = "authorized" /\ pc' = "routing" /\ UNCHANGED closing
       \/ /\ rsv' \in {"none", "authorized"}
          /\ pc' = "closing" /\ closing' = FailRequest
    /\ UNCHANGED <<cur, facts, risk, sent, requestVars, attemptVars, exposed, releasedBy,
                   old, jobVars, sweepVars, settled, cost>>

\* CreateRequestAttempt inserts only while the request row is running.
AttemptInsertableAlways(a) == att[a] = "none"
AttemptInsertable(a) == att[a] = "none" /\ req = "running"

\* A candidate grants a permit and the attempt row is created.
StartAttempt(a) ==
    /\ pc = "routing"
    /\ AttemptInsertable(a)
    /\ att' = [att EXCEPT ![a] = "running"]
    /\ permit' = [permit EXCEPT ![a] = "active"]
    /\ cur' = a /\ pc' = "upstream"
    /\ UNCHANGED <<facts, risk, closing, sent, requestVars, holdVars, jobVars, sweepVars,
                   settled, cost>>

\* Creating the attempt fails (or its answer is lost): the permit is aborted
\* and the request is released and failed.
AttemptCreateFails(a) ==
    /\ pc = "routing" /\ att[a] = "none"
    /\ \/ UNCHANGED attemptVars
       \/ /\ AttemptInsertable(a)
          /\ att' = [att EXCEPT ![a] = "running"]
          /\ permit' = [permit EXCEPT ![a] = "gone"]
    /\ LeaveBy(FailRequest, FALSE)
    /\ UNCHANGED <<cur, facts, sent, requestVars, holdVars, jobVars, sweepVars, settled, cost>>

\* No candidate is left, every candidate was denied, or the store is down.
NoCandidate ==
    /\ pc = "routing"
    /\ LeaveBy(FailRequest, FALSE)
    /\ UNCHANGED <<cur, facts, sent, requestVars, attemptVars, holdVars, jobVars, sweepVars,
                   settled, cost>>

-----------------------------------------------------------------------------
(* The gateway: one upstream attempt.                                      *)

\* A frame (and perhaps the first token) is written to the customer; the
\* first frame launches the asynchronous delivery audit.  A stream without
\* output writes its frames only after the settlement.
Emit ==
    /\ \/ pc \in {"upstream", "delivering"} /\ sent = "nothing" /\ sent' = "frames"
       \/ pc = "upstream" /\ sent # "tokens" /\ sent' = "tokens"
    /\ audit' = IF audit = "none" THEN "pending" ELSE audit
    /\ UNCHANGED <<pc, cur, facts, risk, closing, req, delivery, attemptVars, holdVars,
                   jobVars, sweepVars, settled, cost>>

\* MarkDeliveryStarted lands, or is lost.
AuditDelivery ==
    /\ audit = "pending" /\ audit' = "done"
    /\ \/ UNCHANGED delivery
       \/ /\ req \in {"running", "succeeded"} /\ delivery = "not_started"
          /\ delivery' = "in_progress"
    /\ UNCHANGED <<gatewayVars, req, attemptVars, holdVars, jobVars, sweepVars, settled, cost>>

\* The permit is finished right after the upstream returns, before any
\* settlement; a Finish whose result is unknown leaves it to expire.
FinishPermit ==
    \/ permit' = [permit EXCEPT ![cur] = "gone"]
    \/ UNCHANGED permit

\* MarkAttemptFailed is an audit write whose error is ignored.
MarkAttemptFailed ==
    \/ att' = [att EXCEPT ![cur] = IF @ = "running" THEN "failed" ELSE @]
    \/ UNCHANGED att

\* Adapter facts exist (a success, or a stream that broke after its final
\* usage), or tokens were delivered and partial facts are synthesised.
UpstreamBillable(target, free) ==
    /\ pc = "upstream"
    /\ FinishPermit
    /\ facts' = [target |-> target, free |-> free, attempt |-> cur]
    /\ cost' = TRUE /\ pc' = "recording"
    /\ UNCHANGED <<cur, risk, closing, sent, requestVars, att, holdVars, jobVars, sweepVars,
                   settled>>

\* A retryable error before anything was sent: on to the next candidate.
UpstreamRetryable ==
    /\ pc = "upstream" /\ sent = "nothing"
    /\ FinishPermit /\ MarkAttemptFailed
    /\ cur' = NoAttempt /\ pc' = "routing"
    /\ UNCHANGED <<facts, risk, closing, sent, requestVars, holdVars, jobVars, sweepVars,
                   settled, cost>>

\* An error that ends the request without charge; with frames already sent a
\* released request is then also marked interrupted.
UpstreamFailed ==
    /\ pc = "upstream" /\ sent # "tokens"
    /\ FinishPermit /\ MarkAttemptFailed
    /\ LeaveBy([FailRequest EXCEPT !.interrupts = (sent = "frames")], FALSE)
    /\ UNCHANGED <<cur, facts, sent, requestVars, holdVars, jobVars, sweepVars, settled, cost>>

\* A 2xx response without reliable usage: released with a billing exception.
UpstreamUnreliableUsage ==
    /\ pc = "upstream" /\ sent = "nothing"
    /\ FinishPermit /\ MarkAttemptFailed
    /\ cost' = TRUE
    /\ LeaveBy(FailRequest, TRUE)
    /\ UNCHANGED <<cur, facts, sent, requestVars, holdVars, jobVars, sweepVars, settled>>

\* A stream that ended without usage before anything was sent: the attempt
\* is marked only after the release, with the request.
UpstreamMissingUsage ==
    /\ pc = "upstream" /\ sent = "nothing"
    /\ FinishPermit
    /\ LeaveBy(CloseBoth("failed"), FALSE)
    /\ UNCHANGED <<cur, facts, sent, requestVars, att, holdVars, jobVars, sweepVars, settled,
                   cost>>

\* The client went away before the first token.
UpstreamCanceled ==
    /\ pc = "upstream" /\ sent # "tokens"
    /\ FinishPermit
    /\ LeaveBy(CloseBoth("canceled"), FALSE)
    /\ UNCHANGED <<cur, facts, sent, requestVars, att, holdVars, jobVars, sweepVars, settled,
                   cost>>

-----------------------------------------------------------------------------
(* The settlement transaction.                                             *)

\* What a release does to a hold; a second release changes nothing.
Releasable == rsv \in {"authorized", "released"}
ReleaseHold(who) ==
    /\ rsv' = "released"
    /\ releasedBy' = IF rsv = "authorized" THEN who ELSE releasedBy

\* A first settlement needs a running request, an attempt that can still
\* take the target status, and the hold (a free one may be released already).
CanSettleAnyHold(f) ==
    /\ req = "running"
    /\ att[f.attempt] \in {"running", f.target}
    /\ rsv \in {"authorized", "released"}
CanSettleAnyStatus(f) ==
    /\ att[f.attempt] \in {"running", f.target}
    /\ IF f.free THEN Releasable ELSE rsv = "authorized"
CanSettle(f) ==
    /\ req = "running"
    /\ att[f.attempt] \in {"running", f.target}
    /\ IF f.free THEN Releasable ELSE rsv = "authorized"

\* Attempt, usage, ledger and request move in one transaction; a zero charge
\* releases the hold instead of capturing it.
Settle(f) ==
    /\ CanSettle(f)
    /\ req' = f.target
    /\ att' = [att EXCEPT ![f.attempt] = f.target]
    /\ settled' = TRUE
    /\ IF f.free THEN ReleaseHold("settlement")
       ELSE rsv' = "captured" /\ UNCHANGED releasedBy
    /\ UNCHANGED <<delivery, audit, permit, exposed, old, cost>>

\* A replay is accepted only against the usage facts of the first settlement.
SettledAlreadyAnyClose(f) == req \in Final
SettledAlready(f) == req = f.target /\ settled

\* MarkSettlementRecoveryJobSucceeded, from pending or running.
JobSucceeded ==
    job' = IF job.status \in {"pending", "running"}
           THEN [job EXCEPT !.status = "succeeded", !.owner = NoWorker, !.lease = "none"]
           ELSE job

\* CreateSettlementRecoveryJob requires the request row to be running.  Any
\* error, a lost answer included, sends the gateway to a release with a
\* billing exception.
JobInsertable == job.status = "none" /\ req = "running"
NewJob == [NoJob EXCEPT !.status = "pending", !.facts = facts]

CreateJob ==
    /\ pc = "recording" /\ JobInsertable
    /\ job' = NewJob
    /\ \/ pc' = "settling" /\ UNCHANGED <<risk, closing>>
       \/ LeaveBy(FailRequest, TRUE)
    /\ UNCHANGED <<cur, facts, sent, requestVars, attemptVars, holdVars, wk, sweepVars,
                   settled, cost>>

CreateJobFails ==
    /\ pc = "recording"
    /\ LeaveBy(FailRequest, TRUE)
    /\ UNCHANGED <<cur, facts, sent, requestVars, attemptVars, holdVars, jobVars, sweepVars,
                   settled, cost>>

\* The inline settlement commits; if its answer is lost the gateway reports
\* "recovery scheduled", which the request treats as a success.
InlineSettle ==
    /\ pc = "settling"
    /\ Settle(facts)
    /\ pc' \in {"marking", "delivering"}
    /\ UNCHANGED <<cur, facts, risk, closing, sent, jobVars, sweepVars>>

\* The inline settlement is a replay, rolls back, or is refused.
InlineSettleElse ==
    /\ pc = "settling"
    /\ \/ SettledAlready(facts) /\ pc' = "marking"
       \/ pc' = "delivering"
    /\ UNCHANGED <<cur, facts, risk, closing, sent, requestVars, attemptVars, holdVars,
                   jobVars, sweepVars, settled, cost>>

\* The job is marked succeeded; an error is ignored.
MarkInline ==
    /\ pc = "marking" /\ pc' = "delivering"
    /\ JobSucceeded \/ UNCHANGED job
    /\ UNCHANGED <<cur, facts, risk, closing, sent, requestVars, attemptVars, holdVars, wk,
                   sweepVars, settled, cost>>

\* The rest of the response is written; the delivery audit may be lost.
FinishDelivery ==
    /\ pc = "delivering" /\ pc' = "done" /\ Forget
    /\ \/ UNCHANGED delivery
       \/ /\ delivery \in {"not_started", "in_progress"}
          /\ delivery' \in {"completed", "interrupted"}
    /\ UNCHANGED <<req, audit, attemptVars, holdVars,
                   jobVars, sweepVars, settled, cost>>

-----------------------------------------------------------------------------
(* The gateway: release, terminal write, crash.                            *)

\* ReleaseAuthorization or ReleaseAuthorizationForBillingException.  If the
\* answer is lost the request is failed whatever it was to become.
Release ==
    /\ pc = "releasing" /\ pc' = "closing"
    /\ Releasable /\ ReleaseHold("gateway")
    /\ exposed' = (exposed \/ risk)
    /\ closing' \in {closing, FailRequest}
    /\ UNCHANGED <<cur, facts, risk, sent, requestVars, attemptVars, old, jobVars,
                   sweepVars, settled, cost>>

\* The release fails or is refused (a captured hold).
ReleaseFails ==
    /\ pc = "releasing" /\ pc' = "closing"
    /\ closing' = FailRequest
    /\ UNCHANGED <<cur, facts, risk, sent, requestVars, attemptVars, holdVars, jobVars,
                   sweepVars, settled, cost>>

\* Terminal writes only move a running row.
CloseRowAlways(row, s) == s
CloseRow(row, s) == IF row = "running" THEN s ELSE row

\* MarkRequestFailed or MarkRequestCanceled, with the attempt where the code
\* closes both, then MarkDeliveryInterrupted; any of the writes may be lost.
Close ==
    /\ pc = "closing" /\ pc' = "done" /\ Forget
    /\ req' \in {req, CloseRow(req, closing.status)}
    /\ att' \in {att, [a \in Attempts |-> IF a = closing.attempt
                                          THEN CloseRow(att[a], closing.status)
                                          ELSE att[a]]}
    /\ \/ UNCHANGED delivery
       \/ /\ closing.interrupts /\ delivery \in {"not_started", "in_progress"}
          /\ delivery' = "interrupted"
    /\ UNCHANGED <<audit, permit, holdVars, jobVars, sweepVars, settled, cost>>

\* The gateway process dies (its audit goroutine with it), or the serving
\* goroutine panics (the audit goroutine survives).
Crash ==
    /\ pc \notin {"done", "crashed"} /\ pc' = "crashed" /\ Forget
    /\ audit' \in {audit, "done"}
    /\ UNCHANGED <<req, delivery, attemptVars, holdVars, jobVars, sweepVars, settled, cost>>

-----------------------------------------------------------------------------
(* Time and Redis.                                                         *)

\* A permit that is no longer renewed lapses.
PermitExpires(a) ==
    /\ permit[a] = "active"
    /\ permit' = [permit EXCEPT ![a] = "gone"]
    /\ UNCHANGED <<gatewayVars, requestVars, att, holdVars, jobVars, sweepVars, settled, cost>>

\* The hold passes the sweepers' age threshold.
Age ==
    /\ rsv = "authorized" /\ ~old /\ old' = TRUE
    /\ UNCHANGED <<gatewayVars, requestVars, attemptVars, rsv, exposed, releasedBy, jobVars,
                   sweepVars, settled, cost>>

\* locked_until passes.
LeaseExpires ==
    /\ job.status = "running" /\ job.lease = "live"
    /\ job' = [job EXCEPT !.lease = "expired"]
    /\ UNCHANGED <<gatewayVars, requestVars, attemptVars, holdVars, wk, sweepVars, settled,
                   cost>>

-----------------------------------------------------------------------------
(* Settlement recovery workers.                                            *)

\* Due: pending, or running under a lease that ran out.
DuePending == job.status = "pending"
Due == job.status = "pending" \/ (job.status = "running" /\ job.lease = "expired")
RetriesLeftOneMore == job.count <= MaxAttempts
RetriesLeft == job.count < MaxAttempts

Claim(w) ==
    /\ wk[w].pc = "idle"
    /\ Due /\ RetriesLeft
    /\ job' = [job EXCEPT !.status = "running", !.count = @ + 1, !.owner = w,
                          !.lease = "live"]
    /\ wk' = [wk EXCEPT ![w] = [pc |-> "replaying", claim |-> job.count + 1]]
    /\ UNCHANGED <<gatewayVars, requestVars, attemptVars, holdVars, sweepVars, settled, cost>>

\* RecoverChatSettlement commits; its answer may be lost.
Replay(w) ==
    /\ wk[w].pc = "replaying"
    /\ Settle(job.facts)
    /\ \E r \in {"replayed", "failed"} : wk' = [wk EXCEPT ![w].pc = r]
    /\ UNCHANGED <<gatewayVars, job, sweepVars>>

\* The replay finds its own settlement, or fails without effect.
ReplayElse(w) ==
    /\ wk[w].pc = "replaying"
    /\ \E r \in {"replayed", "failed"} :
          /\ r = "replayed" => SettledAlready(job.facts)
          /\ wk' = [wk EXCEPT ![w].pc = r]
    /\ UNCHANGED <<gatewayVars, requestVars, attemptVars, holdVars, job, sweepVars, settled,
                   cost>>

\* MarkSettlementRecoveryJobSucceeded needs no lease; its error ends the tick.
MarkReplayed(w) ==
    /\ wk[w].pc = "replayed"
    /\ JobSucceeded \/ UNCHANGED job
    /\ wk' = [wk EXCEPT ![w] = Idle]
    /\ UNCHANGED <<gatewayVars, requestVars, attemptVars, holdVars, sweepVars, settled, cost>>

\* Retry and Dead compare locked_by, locked_until and attempt_count with the
\* claimed row; each claim has its own attempt_count.
HoldsClaimByStatus(w) == job.status = "running"
HoldsClaim(w) == job.status = "running" /\ job.owner = w /\ job.count = wk[w].claim

\* markFailed: back to pending, or dead once the attempts are used up.
MarkFailed(w) ==
    /\ wk[w].pc = "failed"
    /\ \/ /\ HoldsClaim(w)
          /\ job' = [job EXCEPT !.status = IF wk[w].claim >= MaxAttempts THEN "dead" ELSE "pending",
                                !.owner = NoWorker, !.lease = "none"]
       \/ UNCHANGED job
    /\ wk' = [wk EXCEPT ![w] = Idle]
    /\ UNCHANGED <<gatewayVars, requestVars, attemptVars, holdVars, sweepVars, settled, cost>>

\* markExhausted: a due job without attempts left.
MarkExhausted(w) ==
    /\ wk[w].pc = "idle"
    /\ Due /\ job.count >= MaxAttempts
    /\ job' = [job EXCEPT !.status = "dead", !.owner = NoWorker, !.lease = "none"]
    /\ UNCHANGED <<gatewayVars, requestVars, attemptVars, holdVars, wk, sweepVars, settled,
                   cost>>

\* FinalizeDeadChatSettlement: only while the request is still running.
DeadFinalizable ==
    /\ job.status = "dead" /\ req = "running"
    /\ Releasable /\ att[job.facts.attempt] \in {"running", "failed"}

FinalizeDeadSilently(w) ==
    /\ wk[w].pc = "idle"
    /\ DeadFinalizable
    /\ ReleaseHold("recovery") /\ UNCHANGED exposed
    /\ att' = [att EXCEPT ![job.facts.attempt] = "failed"]
    /\ req' = "failed"
    /\ UNCHANGED <<gatewayVars, delivery, audit, permit, old, jobVars, sweepVars, settled,
                   cost>>
FinalizeDead(w) ==
    /\ wk[w].pc = "idle"
    /\ DeadFinalizable
    /\ ReleaseHold("recovery") /\ exposed' = TRUE
    /\ att' = [att EXCEPT ![job.facts.attempt] = "failed"]
    /\ req' = "failed"
    /\ UNCHANGED <<gatewayVars, delivery, audit, permit, old, jobVars, sweepVars, settled,
                   cost>>

\* The worker process restarts; its lease is left to expire.
WorkerRestart(w) ==
    /\ wk[w].pc # "idle"
    /\ wk' = [wk EXCEPT ![w] = Idle]
    /\ UNCHANGED <<gatewayVars, requestVars, attemptVars, holdVars, job, sweepVars, settled,
                   cost>>

-----------------------------------------------------------------------------
(* The orphan sweeper: dead gateway, running request.                      *)

RunningAttempts == {a \in Attempts : att[a] = "running"}

\* ListOrphanAuthorizedReservations.
OrphanCandidateIdle ==
    /\ rsv = "authorized" /\ old /\ req = "running" /\ delivery = "not_started"
    /\ job.status = "none" /\ RunningAttempts = {}
OrphanCandidate ==
    /\ rsv = "authorized" /\ old /\ req = "running" /\ delivery = "not_started"
    /\ job.status = "none"

OrphanList ==
    /\ orphan.pc = "idle" /\ OrphanCandidate
    /\ orphan' = [pc |-> "listed", proof |-> RunningAttempts]
    /\ UNCHANGED <<gatewayVars, requestVars, attemptVars, holdVars, jobVars, stranded,
                   settled, cost>>

\* Every listed attempt's permit is read and found inactive.
OrphanProve ==
    /\ orphan.pc = "listed"
    /\ \A a \in orphan.proof : permit[a] # "active"
    /\ orphan' = [orphan EXCEPT !.pc = "proved"]
    /\ UNCHANGED <<gatewayVars, requestVars, attemptVars, holdVars, jobVars, stranded,
                   settled, cost>>

\* FinalizeOrphanReservation rechecks everything under the request row lock.
OrphanGateNoJobCheck ==
    /\ req = "running" /\ delivery = "not_started"
    /\ RunningAttempts = orphan.proof
OrphanGate ==
    /\ req = "running" /\ delivery = "not_started"
    /\ job.status = "none"
    /\ RunningAttempts = orphan.proof

FinalizeOrphan ==
    /\ orphan.pc = "proved"
    /\ OrphanGate /\ Releasable
    /\ att' = [a \in Attempts |-> IF att[a] = "running" THEN "failed" ELSE att[a]]
    /\ ReleaseHold("orphan") /\ exposed' = TRUE
    /\ req' = "failed"
    /\ orphan' = [pc |-> "idle", proof |-> {}]
    /\ UNCHANGED <<gatewayVars, delivery, audit, permit, old, jobVars, stranded, settled,
                   cost>>

\* An active permit, a stale proof, a store error or a restart: next tick.
OrphanSkip ==
    /\ orphan.pc # "idle"
    /\ orphan' = [pc |-> "idle", proof |-> {}]
    /\ UNCHANGED <<gatewayVars, requestVars, attemptVars, holdVars, jobVars, stranded,
                   settled, cost>>

-----------------------------------------------------------------------------
(* The stranded sweeper: closed request, hold left behind.                 *)

\* ListStrandedAuthorizedReservations.
StrandedCandidateUndelivered ==
    /\ rsv = "authorized" /\ old /\ req \in {"failed", "canceled"} /\ job.status = "none"
    /\ delivery = "not_started"
StrandedCandidate ==
    /\ rsv = "authorized" /\ old /\ req \in {"failed", "canceled"} /\ job.status = "none"

StrandedList ==
    /\ stranded = "idle" /\ StrandedCandidate
    /\ stranded' = "listed"
    /\ UNCHANGED <<gatewayVars, requestVars, attemptVars, holdVars, jobVars, orphan,
                   settled, cost>>

\* FinalizeStrandedReservation: release, no exposure, no status write.
FinalizeStranded ==
    /\ stranded = "listed" /\ stranded' = "idle"
    /\ req \in {"failed", "canceled"} /\ Releasable
    /\ ReleaseHold("stranded")
    /\ UNCHANGED <<gatewayVars, requestVars, attemptVars, exposed, old, jobVars, orphan,
                   settled, cost>>

StrandedSkip ==
    /\ stranded = "listed" /\ stranded' = "idle"
    /\ UNCHANGED <<gatewayVars, requestVars, attemptVars, holdVars, jobVars, orphan,
                   settled, cost>>

-----------------------------------------------------------------------------
Upstream ==
    \/ Emit \/ UpstreamRetryable \/ UpstreamFailed \/ UpstreamUnreliableUsage
    \/ UpstreamMissingUsage \/ UpstreamCanceled
    \/ \E target \in Final, free \in BOOLEAN : UpstreamBillable(target, free)

Gateway ==
    \/ Authorize \/ NoCandidate
    \/ \E a \in Attempts : StartAttempt(a) \/ AttemptCreateFails(a)
    \/ Upstream
    \/ CreateJob \/ CreateJobFails \/ InlineSettle \/ InlineSettleElse \/ MarkInline
    \/ FinishDelivery \/ Release \/ ReleaseFails \/ Close

WorkerStep(w) ==
    \/ Claim(w) \/ Replay(w) \/ ReplayElse(w) \/ MarkReplayed(w) \/ MarkFailed(w)
    \/ MarkExhausted(w) \/ FinalizeDead(w)

Next ==
    \/ Gateway \/ Crash \/ AuditDelivery
    \/ \E a \in Attempts : PermitExpires(a)
    \/ Age \/ LeaseExpires
    \/ \E w \in Workers : WorkerStep(w) \/ WorkerRestart(w)
    \/ OrphanList \/ OrphanProve \/ FinalizeOrphan \/ OrphanSkip
    \/ StrandedList \/ FinalizeStranded \/ StrandedSkip

Spec == Init /\ [][Next]_vars

(***************************************************************************)
(* Fairness.  Workers and sweepers run on tickers and retry what failed,   *)
(* so their enabled steps are taken and a transaction that can commit      *)
(* again and again commits once.  Permits of a gateway that is gone, job   *)
(* leases and the age threshold run out by the clock.  Nothing is assumed  *)
(* of the gateway: it may crash or hang anywhere.                          *)
(***************************************************************************)
GatewayGone == pc \in {"done", "crashed"}

Fairness ==
    /\ \A w \in Workers : WF_vars(WorkerStep(w))
    /\ WF_vars(LeaseExpires) /\ WF_vars(Age)
    /\ \A a \in Attempts : WF_vars(GatewayGone /\ PermitExpires(a))
    /\ WF_vars(OrphanList) /\ WF_vars(OrphanSkip)
    /\ SF_vars(OrphanProve) /\ SF_vars(FinalizeOrphan)
    /\ WF_vars(StrandedList) /\ SF_vars(FinalizeStranded)

FairSpec == Spec /\ Fairness

-----------------------------------------------------------------------------
(* Safety.                                                                 *)

\* SettleSuccessfulChat is all or nothing across its four rows: a captured
\* hold, a succeeded request and a usage record are never seen without the
\* request, the attempt and the hold standing where that settlement puts them.
SettlementIsWhole ==
    /\ settled => /\ req = job.facts.target /\ att[job.facts.attempt] = job.facts.target
                  /\ rsv = IF job.facts.free THEN "released" ELSE "captured"
    /\ rsv = "captured" => settled
    /\ req = "succeeded" => settled

\* A recovery job is closed as succeeded only over a settlement that really
\* committed, whoever marks it: the inline path, the claim holder or a worker
\* whose lease was taken over.
SucceededJobIsSettled == job.status = "succeeded" => settled

\* The platform never books a risk exposure for a request the customer was
\* charged for, although the gateway's release, the worker's capture and the
\* sweepers race for the same reservation.
NeverExposedAndCharged == ~(exposed /\ rsv = "captured")

\* A hold taken back by a sweeper has no recovery job and never gets one: the
\* job insert and both finalizers serialise on the request row.
SweptHoldHasNoJob == releasedBy \in {"orphan", "stranded"} => job.status = "none"

\* After an orphan sweep no attempt is running, not even one the gateway was
\* about to insert: CreateRequestAttempt is guarded by the request row.
SweptRequestIsQuiet == releasedBy = "orphan" => req = "failed" /\ RunningAttempts = {}

\* Upstream cost is never written off in silence: once the upstream produced a
\* billable response, a hold that goes back to the customer goes back through
\* a (free) settlement or leaves a risk exposure.  The one way around it is the
\* stranded sweeper, see StrandedIsCostFree.
CostIsAccounted ==
    (cost /\ rsv = "released" /\ releasedBy # "stranded") => (settled \/ exposed)

\* Terminal rows are final: no retry, replay, sweep or late audit moves a
\* closed request, attempt, hold or job again.
KeepsTerminalRows ==
    /\ req \in Final => req' = req
    /\ \A a \in Attempts : att[a] \in Final => att'[a] = att[a]
    /\ rsv \in {"captured", "released"} => rsv' = rsv
    /\ job.status \in {"succeeded", "dead"} => job' = job
    /\ settled => settled'
TerminalRowsAreFinal == [][KeepsTerminalRows]_vars

\* A live lease is respected: only the worker that holds the claim hands the
\* job back or buries it; a worker with an older claim cannot.
RespectsLease ==
    (job.status = "running" /\ job.lease = "live" /\ job'.status \in {"pending", "dead"})
        => \E w \in Workers : /\ job.owner = w /\ wk[w].claim = job.count
                              /\ wk[w].pc = "failed" /\ wk'[w].pc = "idle"
LeaseIsRespected == [][RespectsLease]_vars

-----------------------------------------------------------------------------
(* Liveness.                                                               *)

\* Once a recovery job exists the request is closed, whatever the gateway
\* does: replayed, or finalized after the retries are used up.
RecordedSettlementEnds == (job.status # "none") ~> (req # "running")

\* A hold whose gateway died before the customer saw anything, and before a
\* job was written, is given back.
Abandoned ==
    /\ pc = "crashed" /\ rsv = "authorized" /\ req = "running" /\ job.status = "none"
    /\ delivery = "not_started" /\ audit # "pending"
AbandonedHoldIsReturned == Abandoned ~> (rsv # "authorized")

\* A hold left behind by a failed release on a closed request is given back.
LeftBehind == rsv = "authorized" /\ req \in {"failed", "canceled"} /\ job.status = "none"
LeftBehindHoldIsReturned == LeftBehind ~> (rsv # "authorized")

\* Every hold comes back, whoever has to return it.
HoldsComeBack == AbandonedHoldIsReturned /\ LeftBehindHoldIsReturned

-----------------------------------------------------------------------------
(* What comments of the code say, where the code does something else.      *)

\* settlement.go, FinalizeStrandedReservation: releases that reach the
\* stranded path all happened where the upstream had no billable success.
StrandedIsCostFree == releasedBy = "stranded" => ~cost

\* orphan_reservation_sweeper_worker.go: the sweeper never releases a hold
\* whose upstream may have succeeded and which waits for its capture.
SweepsOnlyTheDead == [][releasedBy' = "orphan" /\ releasedBy # "orphan" =>
                            ~(pc = "recording" /\ cost)]_vars

\* worker/ledger_reservations.sql: excluding holds with a job is strictly
\* complementary to the recovery worker, which is to finish them.
RecoveryOwnsItsHolds ==
    (rsv = "authorized" /\ job.status # "none") =>
        (job.status \in {"pending", "running"} \/ req = "running")
=============================================================================
