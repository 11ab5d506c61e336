----------------------------- MODULE MCProgress -----------------------------
(***************************************************************************)
(* What must happen in the end, for TLC: every component under the         *)
(* fairness its own scheduling justifies.  As in MCControl, the components *)
(* share no variables and "subject" chooses the one a behaviour is of; it  *)
(* never changes, and each property assumes the fairness of its own        *)
(* subject only.                                                           *)
(***************************************************************************)
EXTENDS Naturals, TLC

CONSTANTS t1, t2, r1, ca, none, foreign, va, vb

OneDuration == <<1>>
OneThenTwo == <<1, 2>>
MinuteOnly == [w \in {"minute"} |-> 1]
OneEach == [c \in {ca} |-> 1]
Usages == {[input |-> 1, output |-> 0], [input |-> 3, output |-> 5]}
target == [key |-> "k2", kind |-> "target", amount |-> 1]
cut    == [key |-> "k4", kind |-> "usage", amount |-> 1, partial |-> TRUE]
garbled == [key |-> "k6", kind |-> "probe", amount |-> 1, success |-> FALSE,
            twoxx |-> TRUE, usage |-> "none", priced |-> TRUE]

VARIABLES
    subject,   \* the component a behaviour is of; the others rest
    t_origin, t_channel, t_bound, t_control, t_enabled, t_cooldown,
    t_evidence, t_slots, t_permit, t_rpd, t_epoch, t_owner, t_tries, t_resets,
    f_binding, f_life, f_seen, f_bound, f_late, f_faults, f_pc, f_run,
    f_result, f_answer, f_permits, f_health, f_turns,
    a_token, a_slot, a_count, a_marker, a_epoch, a_rev, a_gate, a_session,
    a_late, a_turns, a_issued,
    c_channel, c_origin, c_rejected, c_gate, c_attempts, c_marking, c_probe,
    c_edits, c_probes, c_faults, c_streak, c_verdict, c_unseen,
    o_minute, o_request, o_tracked, o_queue, o_corrections, o_pending,
    o_sequence, o_bucket, o_flushed, o_faults, o_observed, o_truth, o_inputs,
    o_lost, o_overtaken,
    p_rev, p_serving, p_op, p_control, p_mark, p_pub, p_rec, p_faults,
    r_row, r_op, r_control, r_mark, r_pub, r_rec, r_faults, r_losses,
    e_row, e_op, e_marker, e_opKey, e_pc, e_seen, e_state, e_faults, e_losses,
    l_run, l_latch, l_proof, l_sound, l_fault, l_pass, l_serving, l_inflight,
    l_faults, l_unseen,
    s_row, s_mirror, s_local, s_reader, s_writer, s_faults, s_failed,
    s_overlapped,
    d_now, d_row, d_revision, d_mirror, d_operator, d_reader, d_applied,
    d_active, d_timer, d_faults,
    q_rev, q_row, q_granted, q_record, q_queue, q_attempt, q_worker,
    q_outdated, q_edits, q_toggles, q_faults,
    v_rev, v_row, v_runs, v_worker, v_admin, v_verified, v_writes, v_faults,
    y_rev, y_runs, y_created, y_worker, y_faults,
    m_balance, m_entries, m_probes, m_risks, m_tx, m_keyLock, m_rowLock,
    m_clock, m_faults

Permits == INSTANCE AttemptPermit WITH
    Permits <- {t1}, Channels <- {ca}, Models <- {va}, ChannelLimit <- 1,
    PermitTTL <- 1, CooldownTicks <- {1}, EvidenceLimit <- 1,
    TerminalTries <- 1, Lapses <- {FALSE}, MaxConfig <- 1, MaxFences <- 1,
    MaxResets <- 0, MaxLosses <- 0, NoPermit <- none,
    OpenDurations <- OneDuration, ConsecutiveFailures <- 1, MinRequests <- 2,
    RatioNum <- 1, RatioDen <- 2, HalfOpenSuccesses <- 1, origin <- t_origin,
    channel <- t_channel, bound <- t_bound, control <- t_control,
    enabled <- t_enabled, cooldown <- t_cooldown, evidence <- t_evidence,
    slots <- t_slots, permit <- t_permit, rpd <- t_rpd, epoch <- t_epoch,
    owner <- t_owner, tries <- t_tries, resets <- t_resets
Weather == INSTANCE AttemptRunner WITH
    Requests <- {t1}, Channels <- {ca}, NoChannel <- none,
    Versions <- 1 .. 1, TTL <- 1, Limit <- OneEach, Policies <- {{}},
    MaxTurns <- 1, MaxFaults <- 0, binding <- f_binding, life <- f_life,
    seen <- f_seen, bound <- f_bound, late <- f_late, faults <- f_faults,
    pc <- f_pc, run <- f_run, result <- f_result, answer <- f_answer,
    permits <- f_permits, health <- f_health, turns <- f_turns
Admission == INSTANCE RequestAdmission WITH
    Requests <- {t1}, Windows <- {"minute"}, RateLimit <- MinuteOnly,
    Limits <- OneThenTwo, LeaseTTL <- 2, Tries <- 2, MaxLosses <- 0,
    MaxTurns <- 0, token <- a_token, slot <- a_slot, count <- a_count,
    marker <- a_marker, epoch <- a_epoch, rev <- a_rev, gate <- a_gate,
    session <- a_session, late <- a_late, turns <- a_turns,
    issued <- a_issued
Credential == INSTANCE CredentialGate WITH
    Gateways <- {none}, Probes <- {t1}, Credentials <- {ca}, Threshold <- 2,
    NoRev <- foreign, NoCred <- none, MaxInFlight <- 1, MaxEdits <- 0,
    MaxProbes <- 1, MaxFaults <- 1, channel <- c_channel, origin <- c_origin,
    rejected <- c_rejected, gate <- c_gate, attempts <- c_attempts,
    marking <- c_marking, probe <- c_probe, edits <- c_edits,
    probes <- c_probes, faults <- c_faults, streak <- c_streak,
    verdict <- c_verdict, unseen <- c_unseen
Observer == INSTANCE TpmObserver WITH
    Requests <- {t1}, MaxMinute <- 2, Estimate <- 2, Actuals <- Usages,
    QueueCapacity <- 3, CorrectionCapacity <- 1, MaxBatch <- 1,
    NoWeights <- none, NoBatch <- none, NoBucket <- none, MaxAttempts <- 1,
    MaxChunks <- 1, MaxFaults <- 1, minute <- o_minute, request <- o_request,
    tracked <- o_tracked, queue <- o_queue, corrections <- o_corrections,
    pending <- o_pending, sequence <- o_sequence, bucket <- o_bucket,
    flushed <- o_flushed, faults <- o_faults, observed <- o_observed,
    truth <- o_truth, inputs <- o_inputs, lost <- o_lost,
    overtaken <- o_overtaken
Provider == INSTANCE ProviderControl WITH
    Ops <- {t1}, NoOp <- none, Reconcilers <- {r1}, StartUps <- {r1},
    MaxFaults <- 1, rev <- p_rev, serving <- p_serving, op <- p_op,
    control <- p_control, mark <- p_mark, pub <- p_pub, rec <- p_rec,
    faults <- p_faults
Runtime == INSTANCE RuntimeControl WITH
    Ops <- {t1}, NoOp <- none, Reconcilers <- {r1}, StartUps <- {},
    MaxFaults <- 1, MaxLosses <- 0, row <- r_row, op <- r_op,
    control <- r_control, mark <- r_mark, pub <- r_pub, rec <- r_rec,
    faults <- r_faults, losses <- r_losses
Starting == INSTANCE RuntimeControl WITH
    Ops <- {t1}, NoOp <- none, Reconcilers <- {r1}, StartUps <- {r1},
    MaxFaults <- 1, MaxLosses <- 0, row <- r_row, op <- r_op,
    control <- r_control, mark <- r_mark, pub <- r_pub, rec <- r_rec,
    faults <- r_faults, losses <- r_losses
Epoch == INSTANCE StateEpoch WITH
    Gateways <- {t1}, Nobody <- none, Foreign <- foreign, MaxFaults <- 1,
    MaxLosses <- 1, row <- e_row, op <- e_op, marker <- e_marker,
    opKey <- e_opKey, pc <- e_pc, seen <- e_seen, state <- e_state,
    faults <- e_faults, losses <- e_losses
Latch == INSTANCE FaultLatch WITH
    Gateways <- {t1}, NoToken <- none, MaxFaults <- 1, MaxLosses <- 1,
    MaxGen <- 3, run <- l_run, latch <- l_latch, proof <- l_proof,
    sound <- l_sound, fault <- l_fault, pass <- l_pass, serving <- l_serving,
    inflight <- l_inflight, faults <- l_faults, unseen <- l_unseen
Settings == INSTANCE SettingsCache WITH
    Processes <- {r1}, Admin <- r1, Writers <- {t1}, Values <- {va, vb},
    Default <- va, NoValue <- foreign, NoEntry <- foreign, LocalTTL <- 2,
    MaxFaults <- 2, row <- s_row, mirror <- s_mirror, local <- s_local,
    reader <- s_reader, writer <- s_writer, faults <- s_faults,
    failed <- s_failed, overlapped <- s_overlapped
Debug == INSTANCE DebugLogging WITH
    Gateways <- {r1}, Operators <- {t1, t2}, Duration <- 1,
    NoValue <- foreign, NoSession <- none, MaxTime <- 1, MaxFaults <- 0,
    MaxTries <- 1, now <- d_now, row <- d_row, revision <- d_revision,
    mirror <- d_mirror, operator <- d_operator, reader <- d_reader,
    applied <- d_applied, active <- d_active, timer <- d_timer,
    faults <- d_faults
Recheck == INSTANCE PermissionRecheck WITH
    Bindings <- {none}, Upstreams <- {va}, Attempts <- {r1}, Workers <- {t1},
    Lease <- 1, InitialBackoff <- 1, MaximumBackoff <- 1, MaxRev <- 2,
    MaxEdits <- 0, MaxToggles <- 1, MaxFaults <- 1, Prompt <- TRUE,
    rev <- q_rev, row <- q_row, granted <- q_granted, record <- q_record,
    queue <- q_queue, attempt <- q_attempt, worker <- q_worker,
    outdated <- q_outdated, edits <- q_edits, toggles <- q_toggles,
    faults <- q_faults
Verification == INSTANCE ModelVerification WITH
    Models <- 1 .. 2, Upstreams <- {va}, Workers <- {t1}, Admins <- {},
    MaxRuns <- 1, MaxRev <- 2, MaxWrites <- 1, MaxFaults <- 0, rev <- v_rev,
    row <- v_row, runs <- v_runs, worker <- v_worker, admin <- v_admin,
    verified <- v_verified, writes <- v_writes, faults <- v_faults
Discovery == INSTANCE ModelDiscovery WITH
    Workers <- {t1, t2}, MaxAttempts <- 2, Keep <- 1, MaxRuns <- 2,
    MaxRev <- 2, MaxFaults <- 0, rev <- y_rev, runs <- y_runs,
    created <- y_created, worker <- y_worker, faults <- y_faults
Ledger == INSTANCE ProviderLedger WITH
    None <- none, Procs <- {t1, t2}, Ops <- {target, cut}, MaxClock <- 1,
    MaxFaults <- 1, balance <- m_balance, entries <- m_entries,
    probes <- m_probes, risks <- m_risks, tx <- m_tx, keyLock <- m_keyLock,
    rowLock <- m_rowLock, clock <- m_clock, faults <- m_faults

t_vars == <<t_origin, t_channel, t_bound, t_control, t_enabled, t_cooldown,
            t_evidence, t_slots, t_permit, t_rpd, t_epoch, t_owner, t_tries,
            t_resets>>
f_vars == <<f_binding, f_life, f_seen, f_bound, f_late, f_faults, f_pc,
            f_run, f_result, f_answer, f_permits, f_health, f_turns>>
a_vars == <<a_token, a_slot, a_count, a_marker, a_epoch, a_rev, a_gate,
            a_session, a_late, a_turns, a_issued>>
c_vars == <<c_channel, c_origin, c_rejected, c_gate, c_attempts, c_marking,
            c_probe, c_edits, c_probes, c_faults, c_streak, c_verdict,
            c_unseen>>
o_vars == <<o_minute, o_request, o_tracked, o_queue, o_corrections,
            o_pending, o_sequence, o_bucket, o_flushed, o_faults, o_observed,
            o_truth, o_inputs, o_lost, o_overtaken>>
p_vars == <<p_rev, p_serving, p_op, p_control, p_mark, p_pub, p_rec, p_faults>>
r_vars == <<r_row, r_op, r_control, r_mark, r_pub, r_rec, r_faults, r_losses>>
e_vars == <<e_row, e_op, e_marker, e_opKey, e_pc, e_seen, e_state, e_faults,
            e_losses>>
l_vars == <<l_run, l_latch, l_proof, l_sound, l_fault, l_pass, l_serving,
            l_inflight, l_faults, l_unseen>>
s_vars == <<s_row, s_mirror, s_local, s_reader, s_writer, s_faults, s_failed,
            s_overlapped>>
d_vars == <<d_now, d_row, d_revision, d_mirror, d_operator, d_reader,
            d_applied, d_active, d_timer, d_faults>>
q_vars == <<q_rev, q_row, q_granted, q_record, q_queue, q_attempt, q_worker,
            q_outdated, q_edits, q_toggles, q_faults>>
v_vars == <<v_rev, v_row, v_runs, v_worker, v_admin, v_verified, v_writes,
            v_faults>>
y_vars == <<y_rev, y_runs, y_created, y_worker, y_faults>>
m_vars == <<m_balance, m_entries, m_probes, m_risks, m_tx, m_keyLock,
            m_rowLock, m_clock, m_faults>>
vars == <<subject, t_vars, f_vars, a_vars, c_vars, o_vars, p_vars, r_vars,
           e_vars, l_vars, s_vars, d_vars, q_vars, v_vars, y_vars, m_vars>>

Init ==
    /\ subject \in {"permits", "weather", "admission", "credential",
                   "observer", "provider", "runtime", "starting", "epoch",
                   "latch", "settings", "debug", "recheck", "verification",
                   "discovery", "ledger"}
    /\ Permits!Init
    /\ Weather!Init
    /\ subject \notin {"weather"} => f_binding.channel = none
    /\ Admission!Init
    /\ Credential!Init
    /\ subject \notin {"credential"} => c_rejected = {} /\ c_channel.cred = ca
    /\ Observer!Init
    /\ Provider!Init
    /\ CASE subject = "starting" -> Starting!Init
         [] OTHER -> Runtime!Init
    /\ Epoch!Init
    /\ subject \notin {"epoch"} => e_marker = Epoch!NoMarker
    /\ Latch!Init
    /\ Settings!Init
    /\ Debug!Init
    /\ Recheck!Init
    /\ Verification!Init
    /\ Discovery!Init
    /\ Ledger!Init

Next ==
    \/ /\ subject = "permits" /\ Permits!Next
       /\ UNCHANGED <<subject, f_vars, a_vars, c_vars, o_vars, p_vars, r_vars, e_vars, l_vars, s_vars, d_vars, q_vars, v_vars, y_vars, m_vars>>
    \/ /\ subject = "weather" /\ Weather!Next
       /\ UNCHANGED <<subject, t_vars, a_vars, c_vars, o_vars, p_vars, r_vars, e_vars, l_vars, s_vars, d_vars, q_vars, v_vars, y_vars, m_vars>>
    \/ /\ subject = "admission" /\ Admission!Next
       /\ UNCHANGED <<subject, t_vars, f_vars, c_vars, o_vars, p_vars, r_vars, e_vars, l_vars, s_vars, d_vars, q_vars, v_vars, y_vars, m_vars>>
    \/ /\ subject = "credential" /\ Credential!Next
       /\ UNCHANGED <<subject, t_vars, f_vars, a_vars, o_vars, p_vars, r_vars, e_vars, l_vars, s_vars, d_vars, q_vars, v_vars, y_vars, m_vars>>
    \/ /\ subject = "observer" /\ Observer!Next
       /\ UNCHANGED <<subject, t_vars, f_vars, a_vars, c_vars, p_vars, r_vars, e_vars, l_vars, s_vars, d_vars, q_vars, v_vars, y_vars, m_vars>>
    \/ /\ subject = "provider" /\ Provider!Next
       /\ UNCHANGED <<subject, t_vars, f_vars, a_vars, c_vars, o_vars, r_vars, e_vars, l_vars, s_vars, d_vars, q_vars, v_vars, y_vars, m_vars>>
    \/ /\ subject = "runtime" /\ Runtime!Next
       /\ UNCHANGED <<subject, t_vars, f_vars, a_vars, c_vars, o_vars, p_vars, e_vars, l_vars, s_vars, d_vars, q_vars, v_vars, y_vars, m_vars>>
    \/ /\ subject = "starting" /\ Starting!Next
       /\ UNCHANGED <<subject, t_vars, f_vars, a_vars, c_vars, o_vars, p_vars, e_vars, l_vars, s_vars, d_vars, q_vars, v_vars, y_vars, m_vars>>
    \/ /\ subject = "epoch" /\ Epoch!Next
       /\ UNCHANGED <<subject, t_vars, f_vars, a_vars, c_vars, o_vars, p_vars, r_vars, l_vars, s_vars, d_vars, q_vars, v_vars, y_vars, m_vars>>
    \/ /\ subject = "latch" /\ Latch!Next
       /\ UNCHANGED <<subject, t_vars, f_vars, a_vars, c_vars, o_vars, p_vars, r_vars, e_vars, s_vars, d_vars, q_vars, v_vars, y_vars, m_vars>>
    \/ /\ subject = "settings" /\ Settings!Next
       /\ UNCHANGED <<subject, t_vars, f_vars, a_vars, c_vars, o_vars, p_vars, r_vars, e_vars, l_vars, d_vars, q_vars, v_vars, y_vars, m_vars>>
    \/ /\ subject = "debug" /\ Debug!Next
       /\ UNCHANGED <<subject, t_vars, f_vars, a_vars, c_vars, o_vars, p_vars, r_vars, e_vars, l_vars, s_vars, q_vars, v_vars, y_vars, m_vars>>
    \/ /\ subject = "recheck" /\ Recheck!Next
       /\ UNCHANGED <<subject, t_vars, f_vars, a_vars, c_vars, o_vars, p_vars, r_vars, e_vars, l_vars, s_vars, d_vars, v_vars, y_vars, m_vars>>
    \/ /\ subject = "verification" /\ Verification!Next
       /\ UNCHANGED <<subject, t_vars, f_vars, a_vars, c_vars, o_vars, p_vars, r_vars, e_vars, l_vars, s_vars, d_vars, q_vars, y_vars, m_vars>>
    \/ /\ subject = "discovery" /\ Discovery!Next
       /\ UNCHANGED <<subject, t_vars, f_vars, a_vars, c_vars, o_vars, p_vars, r_vars, e_vars, l_vars, s_vars, d_vars, q_vars, v_vars, m_vars>>
    \/ /\ subject = "ledger" /\ Ledger!Next
       /\ UNCHANGED <<subject, t_vars, f_vars, a_vars, c_vars, o_vars, p_vars, r_vars, e_vars, l_vars, s_vars, d_vars, q_vars, v_vars, y_vars>>

Spec == Init /\ [][Next]_vars

-----------------------------------------------------------------------------
ASSUME Assumptions ==
    /\ Permits!PermitAssumption /\ Weather!RunnerAssumption /\ Admission!AdmissionAssumption
    /\ Credential!GateAssumption /\ Observer!ObserverAssumption
    /\ Provider!ControlAssumption /\ Runtime!RuntimeControlAssumption
    /\ Starting!RuntimeControlAssumption /\ Epoch!EpochAssumption /\ Latch!LatchAssumption
    /\ Settings!CacheAssumption /\ Debug!DebugAssumption /\ Recheck!RecheckAssumption
    /\ Verification!VerificationAssumption /\ Discovery!DiscoveryAssumption
    /\ Ledger!OpsAssumption

\* What is held is given back: the slots and leases of a permit and of an
\* admission however the call ends, the locks of a transaction on the
\* Provider's ledger, and, whatever the health of the channels turns to, the
\* slot of a candidate.
HeldIsGivenBack ==
    /\ <>[](subject = "permits") /\ Permits!Fairness => Permits!ResourcesComeBack
    /\ <>[](subject = "admission") /\ Admission!Fairness => Admission!SlotsComeBack
    /\ <>[](subject = "ledger") /\ Ledger!Fairness => Ledger!TransactionsEnd
    /\ [](subject = "weather" => Weather!PermitsAreCalls)

\* What keeps traffic out does not last: a start-up comes to an answer, the gate
\* reopens after a fault, a paused binding that upstream permits is released, a
\* DEBUG session ends, and a credential that upstream refuses leaves routing.
\* What is begun is finished: operations, start-ups' reconciles, inventory runs,
\* settings on their way to a process and counts on their way to Redis.
WorkIsFinished ==
    /\ <>[](subject = "provider") /\ Provider!Fairness
          => Provider!EveryOperationEnds /\ Provider!StartUpSettles
    /\ <>[](subject = "runtime") /\ Runtime!Fairness => Runtime!CurrentOperationsEnd
    /\ <>[](subject = "starting") /\ Starting!Fairness => Starting!StartUpSettles
    /\ <>[](subject = "epoch") /\ Epoch!Fairness => Epoch!StartUpsSucceed
    /\ <>[](subject = "latch") /\ Latch!Fairness => Latch!GateReopens
    /\ <>[](subject = "recheck") /\ Recheck!Fairness => Recheck!EveryPauseEnds
    /\ <>[](subject = "credential") /\ Credential!Fairness => Credential!RejectedIsTakenOut
    /\ <>[](subject = "debug") /\ Debug!Fairness => Debug!DebugEnds
    /\ <>[](subject = "settings") /\ Settings!Fairness => Settings!Propagates
    /\ <>[](subject = "observer") /\ Observer!Fairness => Observer!Drains
    /\ <>[](subject = "verification") /\ Verification!Fairness => Verification!RunsEnd
    /\ <>[](subject = "discovery") /\ Discovery!Fairness => Discovery!RunsEnd

=============================================================================
