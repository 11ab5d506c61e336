----------------------------- MODULE MCGateway -----------------------------
(***************************************************************************)
(* The components a gateway runs for its requests, for TLC: the admission  *)
(* of requests, the attempts of a sticky session, the credential gate and  *)
(* the observer of token rates.  As in MCControl, they share no variables  *)
(* and "subject" chooses the one a behaviour is of.                        *)
(***************************************************************************)
EXTENDS AttemptRunner, TLC

CONSTANTS t1, t2, c1, c2, none, norev

Symmetry == Permutations({t1, t2})

Rates == [w \in {"minute", "day"} |-> IF w = "minute" THEN 1 ELSE 2]
OneThenTwo == <<1, 2>>
OneEach == [c \in Channels |-> 1]
TheOther == {{c2}}
\* Less and more than the estimate, and an output that does not divide.
Usages == {[input |-> 1, output |-> 0], [input |-> 3, output |-> 5]}

VARIABLES
    subject,   \* the component a behaviour is of; the others rest
    a_token, a_slot, a_count, a_marker, a_epoch, a_rev, a_gate, a_session,
    a_late, a_turns, a_issued,
    c_channel, c_origin, c_rejected, c_gate, c_attempts, c_marking, c_probe,
    c_edits, c_probes, c_faults, c_streak, c_verdict, c_unseen,
    o_minute, o_request, o_tracked, o_queue, o_corrections, o_pending,
    o_sequence, o_bucket, o_flushed, o_faults, o_observed, o_truth, o_inputs,
    o_lost, o_overtaken

Admission == INSTANCE RequestAdmission WITH
    Requests <- {t1, t2}, Windows <- {"minute", "day"}, RateLimit <- Rates,
    Limits <- OneThenTwo, LeaseTTL <- 2, Tries <- 2, MaxLosses <- 0,
    MaxTurns <- 1, token <- a_token, slot <- a_slot, count <- a_count,
    marker <- a_marker, epoch <- a_epoch, rev <- a_rev, gate <- a_gate,
    session <- a_session, late <- a_late, turns <- a_turns,
    issued <- a_issued
Losses == INSTANCE RequestAdmission WITH
    Requests <- {t1, t2}, Windows <- {"minute", "day"}, RateLimit <- Rates,
    Limits <- OneThenTwo, LeaseTTL <- 1, Tries <- 1, MaxLosses <- 1,
    MaxTurns <- 0, token <- a_token, slot <- a_slot, count <- a_count,
    marker <- a_marker, epoch <- a_epoch, rev <- a_rev, gate <- a_gate,
    session <- a_session, late <- a_late, turns <- a_turns,
    issued <- a_issued
Credential == INSTANCE CredentialGate WITH
    Gateways <- {none}, Probes <- {t1, t2}, Credentials <- {c1, c2},
    Threshold <- 2, NoRev <- norev, NoCred <- none, MaxInFlight <- 1,
    MaxEdits <- 1, MaxProbes <- 2, MaxFaults <- 0, channel <- c_channel,
    origin <- c_origin, rejected <- c_rejected, gate <- c_gate,
    attempts <- c_attempts, marking <- c_marking, probe <- c_probe,
    edits <- c_edits, probes <- c_probes, faults <- c_faults,
    streak <- c_streak, verdict <- c_verdict, unseen <- c_unseen
Restarts == INSTANCE CredentialGate WITH
    Gateways <- {none}, Probes <- {t1, t2}, Credentials <- {c1, c2},
    Threshold <- 2, NoRev <- norev, NoCred <- none, MaxInFlight <- 2,
    MaxEdits <- 1, MaxProbes <- 1, MaxFaults <- 1, channel <- c_channel,
    origin <- c_origin, rejected <- c_rejected, gate <- c_gate,
    attempts <- c_attempts, marking <- c_marking, probe <- c_probe,
    edits <- c_edits, probes <- c_probes, faults <- c_faults,
    streak <- c_streak, verdict <- c_verdict, unseen <- c_unseen
Observer == INSTANCE TpmObserver WITH
    Requests <- {t1, t2}, MaxMinute <- 2, Estimate <- 2, Actuals <- Usages,
    QueueCapacity <- 3, CorrectionCapacity <- 2, MaxBatch <- 2,
    NoWeights <- none, NoBatch <- none, NoBucket <- none, MaxAttempts <- 1,
    MaxChunks <- 2, MaxFaults <- 0, minute <- o_minute, request <- o_request,
    tracked <- o_tracked, queue <- o_queue, corrections <- o_corrections,
    pending <- o_pending, sequence <- o_sequence, bucket <- o_bucket,
    flushed <- o_flushed, faults <- o_faults, observed <- o_observed,
    truth <- o_truth, inputs <- o_inputs, lost <- o_lost,
    overtaken <- o_overtaken
Retries == INSTANCE TpmObserver WITH
    Requests <- {t1, t2}, MaxMinute <- 2, Estimate <- 2, Actuals <- Usages,
    QueueCapacity <- 3, CorrectionCapacity <- 2, MaxBatch <- 2,
    NoWeights <- none, NoBatch <- none, NoBucket <- none, MaxAttempts <- 1,
    MaxChunks <- 1, MaxFaults <- 1, minute <- o_minute, request <- o_request,
    tracked <- o_tracked, queue <- o_queue, corrections <- o_corrections,
    pending <- o_pending, sequence <- o_sequence, bucket <- o_bucket,
    flushed <- o_flushed, faults <- o_faults, observed <- o_observed,
    truth <- o_truth, inputs <- o_inputs, lost <- o_lost,
    overtaken <- o_overtaken

a_vars == <<a_token, a_slot, a_count, a_marker, a_epoch, a_rev, a_gate,
            a_session, a_late, a_turns, a_issued>>
c_vars == <<c_channel, c_origin, c_rejected, c_gate, c_attempts, c_marking,
            c_probe, c_edits, c_probes, c_faults, c_streak, c_verdict,
            c_unseen>>
o_vars == <<o_minute, o_request, o_tracked, o_queue, o_corrections,
            o_pending, o_sequence, o_bucket, o_flushed, o_faults, o_observed,
            o_truth, o_inputs, o_lost, o_overtaken>>
suiteVars == <<subject, vars, a_vars, c_vars, o_vars>>

SuiteInit ==
    /\ subject \in {"attempts", "admission", "losses", "credential",
                   "restarts", "observer", "retries"}
    /\ Init
    /\ binding.channel \in {NoChannel} \cup (IF subject = "attempts" THEN {c2} ELSE {})
    /\ CASE subject = "losses" -> Losses!Init
         [] OTHER -> Admission!Init
    /\ CASE subject = "restarts" -> Restarts!Init
         [] OTHER -> Credential!Init
    /\ subject \notin {"credential", "restarts"} => c_rejected = {} /\ c_channel.cred = c1
    /\ CASE subject = "retries" -> Retries!Init
         [] OTHER -> Observer!Init

SuiteNext ==
    \/ /\ subject = "attempts" /\ Next
       /\ UNCHANGED <<subject, a_vars, c_vars, o_vars>>
    \/ /\ subject = "admission" /\ Admission!Next
       /\ UNCHANGED <<subject, vars, c_vars, o_vars>>
    \/ /\ subject = "losses" /\ Losses!Next
       /\ UNCHANGED <<subject, vars, c_vars, o_vars>>
    \/ /\ subject = "credential" /\ Credential!Next
       /\ UNCHANGED <<subject, vars, a_vars, o_vars>>
    \/ /\ subject = "restarts" /\ Restarts!Next
       /\ UNCHANGED <<subject, vars, a_vars, o_vars>>
    \/ /\ subject = "observer" /\ Observer!Next
       /\ UNCHANGED <<subject, vars, a_vars, c_vars>>
    \/ /\ subject = "retries" /\ Retries!Next
       /\ UNCHANGED <<subject, vars, a_vars, c_vars>>

SuiteSpec == SuiteInit /\ [][SuiteNext]_suiteVars

-----------------------------------------------------------------------------
ASSUME Assumptions ==
    /\ Admission!AdmissionAssumption /\ Losses!AdmissionAssumption
    /\ StickyAssumption /\ RunnerAssumption
    /\ Credential!GateAssumption /\ Restarts!GateAssumption
    /\ Observer!ObserverAssumption /\ Retries!ObserverAssumption

\* Of another subject the variables have their initial types only.
Of(name, Inv) == subject = name => Inv

\* A live slot of the route and user is that of a token still active, each
\* window counts the requests it admitted, once each and within its limit, and
\* the concurrency set is a pool of leased tickets.
AdmissionIsExact ==
    /\ [](Of("admission", Admission!TypeOK /\ Admission!SlotHasItsToken /\ Admission!RatesHold))
    /\ [](Of("losses", Losses!TypeOK /\ Losses!SlotHasItsToken /\ Losses!RatesHold))
    /\ Admission!RouteUserIsLeasePool

\* What the row says of the credential was learned of this credential: only a
\* full streak of 401s takes it out, and only later evidence brings it back.
StandingIsEarned ==
    /\ [](Of("credential", Credential!TypeOK /\ Credential!StandingIsOfTheCredential))
    /\ [](Of("restarts", Restarts!TypeOK /\ Restarts!StandingIsOfTheCredential))
    /\ Credential!OnlyLaterEvidenceRestores /\ Credential!OnlyAStreakInvalidates

\* Every token observed is in Redis or on its way to it, once, and the minutes
\* add up to the usage upstream reported.
TokensAreCounted ==
    /\ Of("observer", Observer!TypeOK /\ Observer!CountedOnce /\ Observer!ExactUnlessOvertaken)
    /\ Of("retries", Retries!TypeOK /\ Retries!CountedOnce /\ Retries!ExactUnlessOvertaken)

=============================================================================
