----------------------------- MODULE MCControl -----------------------------
(***************************************************************************)
(* The components that keep PostgreSQL, Redis and the workers in step, for *)
(* TLC: routing and runtime control, the readiness of Redis, settings,     *)
(* DEBUG logging, and the rechecks and inventories of the workers.  They   *)
(* share no variables and call none of each other's operations, so the     *)
(* behaviours of all of them together show no more than those of each one: *)
(* "subject" chooses one, the others rest.                                 *)
(***************************************************************************)
EXTENDS ProviderControl, TLC

CONSTANTS t1, t2, r1, none, foreign, va, vb

Symmetry == Permutations({t1, t2})

VARIABLES
    subject,   \* the component a behaviour is of; the others rest
    r_row, r_op, r_control, r_mark, r_pub, r_rec, r_faults, r_losses,
    e_row, e_op, e_marker, e_opKey, e_pc, e_seen, e_state, e_faults, e_losses,
    l_run, l_latch, l_proof, l_sound, l_fault, l_pass, l_serving, l_inflight,
    l_faults, l_unseen,
    s_row, s_mirror, s_local, s_reader, s_writer, s_faults, s_failed,
    s_overlapped,
    d_now, d_row, d_revision, d_mirror, d_operator, d_reader, d_applied,
    d_active, d_timer, d_faults,
    q_rev, q_row, q_granted, q_record, q_queue, q_attempt, q_worker,
    q_outdated, q_edits, q_toggles, q_faults,
    v_rev, v_row, v_runs, v_worker, v_admin, v_verified, v_writes, v_faults,
    y_rev, y_runs, y_created, y_worker, y_faults

Runtime == INSTANCE RuntimeControl WITH
    Ops <- {t1, t2}, NoOp <- none, Reconcilers <- {r1}, StartUps <- {},
    MaxFaults <- 2, MaxLosses <- 1, row <- r_row, op <- r_op,
    control <- r_control, mark <- r_mark, pub <- r_pub, rec <- r_rec,
    faults <- r_faults, losses <- r_losses
Epoch == INSTANCE StateEpoch WITH
    Gateways <- {t1, t2}, Nobody <- none, Foreign <- foreign, MaxFaults <- 2,
    MaxLosses <- 1, row <- e_row, op <- e_op, marker <- e_marker,
    opKey <- e_opKey, pc <- e_pc, seen <- e_seen, state <- e_state,
    faults <- e_faults, losses <- e_losses
Latch == INSTANCE FaultLatch WITH
    Gateways <- {t1, t2}, NoToken <- none, MaxFaults <- 1, MaxLosses <- 1,
    MaxGen <- 3, run <- l_run, latch <- l_latch, proof <- l_proof,
    sound <- l_sound, fault <- l_fault, pass <- l_pass, serving <- l_serving,
    inflight <- l_inflight, faults <- l_faults, unseen <- l_unseen
Settings == INSTANCE SettingsCache WITH
    Processes <- {r1, none}, Admin <- r1, Writers <- {t1, t2},
    Values <- {va, vb}, Default <- va, NoValue <- foreign,
    NoEntry <- foreign, LocalTTL <- 2, MaxFaults <- 2, row <- s_row,
    mirror <- s_mirror, local <- s_local, reader <- s_reader,
    writer <- s_writer, faults <- s_faults, failed <- s_failed,
    overlapped <- s_overlapped
Debug == INSTANCE DebugLogging WITH
    Gateways <- {r1}, Operators <- {t1, t2}, Duration <- 2,
    NoValue <- foreign, NoSession <- none, MaxTime <- 1, MaxFaults <- 1,
    MaxTries <- 2, now <- d_now, row <- d_row, revision <- d_revision,
    mirror <- d_mirror, operator <- d_operator, reader <- d_reader,
    applied <- d_applied, active <- d_active, timer <- d_timer,
    faults <- d_faults
Recheck == INSTANCE PermissionRecheck WITH
    Bindings <- {none}, Upstreams <- {va}, Lease <- 1, InitialBackoff <- 1,
    MaximumBackoff <- 1, MaxRev <- 2, MaxEdits <- 1, Prompt <- FALSE,
    Attempts <- {r1}, Workers <- {t1, t2}, MaxToggles <- 1, MaxFaults <- 0,
    rev <- q_rev, row <- q_row, granted <- q_granted, record <- q_record,
    queue <- q_queue, attempt <- q_attempt, worker <- q_worker,
    outdated <- q_outdated, edits <- q_edits, toggles <- q_toggles,
    faults <- q_faults
Feedback == INSTANCE PermissionRecheck WITH
    Bindings <- {none}, Upstreams <- {va}, Lease <- 1, InitialBackoff <- 1,
    MaximumBackoff <- 1, MaxRev <- 2, MaxEdits <- 1, Prompt <- FALSE,
    Attempts <- {t1, t2}, Workers <- {r1}, MaxToggles <- 0, MaxFaults <- 1,
    rev <- q_rev, row <- q_row, granted <- q_granted, record <- q_record,
    queue <- q_queue, attempt <- q_attempt, worker <- q_worker,
    outdated <- q_outdated, edits <- q_edits, toggles <- q_toggles,
    faults <- q_faults
Bindings == INSTANCE ModelVerification WITH
    Models <- 1 .. 1, Upstreams <- {va, vb}, Workers <- {t1, t2},
    Admins <- {r1}, MaxRuns <- 2, MaxRev <- 1, MaxWrites <- 2,
    MaxFaults <- 1, rev <- v_rev, row <- v_row, runs <- v_runs,
    worker <- v_worker, admin <- v_admin, verified <- v_verified,
    writes <- v_writes, faults <- v_faults
Verification == INSTANCE ModelVerification WITH
    Models <- 1 .. 2, Upstreams <- {va}, Workers <- {t1, t2}, Admins <- {r1},
    MaxRuns <- 2, MaxRev <- 2, MaxWrites <- 0, MaxFaults <- 1, rev <- v_rev,
    row <- v_row, runs <- v_runs, worker <- v_worker, admin <- v_admin,
    verified <- v_verified, writes <- v_writes, faults <- v_faults
Discovery == INSTANCE ModelDiscovery WITH
    Workers <- {t1, t2}, MaxAttempts <- 2, Keep <- 1, MaxRuns <- 4,
    MaxRev <- 2, MaxFaults <- 1, rev <- y_rev, runs <- y_runs,
    created <- y_created, worker <- y_worker, faults <- y_faults

r_vars == <<r_row, r_op, r_control, r_mark, r_pub, r_rec, r_faults, r_losses>>
e_vars == <<e_row, e_op, e_marker, e_opKey, e_pc, e_seen, e_state, e_faults,
            e_losses>>
l_vars == <<l_run, l_latch, l_proof, l_sound, l_fault, l_pass, l_serving,
            l_inflight, l_faults, l_unseen>>
s_vars == <<s_row, s_mirror, s_local, s_reader, s_writer, s_faults, s_failed,
            s_overlapped>>
d_vars == <<d_now, d_row, d_revision, d_mirror, d_operator, d_reader,
            d_applied, d_active, d_timer, d_faults>>
q_vars == <<q_rev, q_row, q_granted, q_record, q_queue, q_attempt, q_worker,
            q_outdated, q_edits, q_toggles, q_faults>>
v_vars == <<v_rev, v_row, v_runs, v_worker, v_admin, v_verified, v_writes,
            v_faults>>
y_vars == <<y_rev, y_runs, y_created, y_worker, y_faults>>
suiteVars == <<subject, vars, r_vars, e_vars, l_vars, s_vars, d_vars, q_vars,
                v_vars, y_vars>>

SuiteInit ==
    /\ subject \in {"provider", "runtime", "epoch", "latch", "settings",
                   "debug", "recheck", "feedback", "bindings",
                   "verification", "discovery"}
    /\ Init
    /\ Runtime!Init
    /\ Epoch!Init
    /\ subject \notin {"epoch"} => e_marker = Epoch!NoMarker
    /\ Latch!Init
    /\ Settings!Init
    /\ Debug!Init
    /\ CASE subject = "feedback" -> Feedback!Init
         [] OTHER -> Recheck!Init
    /\ subject \notin {"recheck", "feedback"} => q_granted = {}
    /\ CASE subject = "verification" -> Verification!Init
         [] OTHER -> Bindings!Init
    /\ Discovery!Init

SuiteNext ==
    \/ /\ subject = "provider" /\ Next
       /\ UNCHANGED <<subject, r_vars, e_vars, l_vars, s_vars, d_vars, q_vars, v_vars, y_vars>>
    \/ /\ subject = "runtime" /\ Runtime!Next
       /\ UNCHANGED <<subject, vars, e_vars, l_vars, s_vars, d_vars, q_vars, v_vars, y_vars>>
    \/ /\ subject = "epoch" /\ Epoch!Next
       /\ UNCHANGED <<subject, vars, r_vars, l_vars, s_vars, d_vars, q_vars, v_vars, y_vars>>
    \/ /\ subject = "latch" /\ Latch!Next
       /\ UNCHANGED <<subject, vars, r_vars, e_vars, s_vars, d_vars, q_vars, v_vars, y_vars>>
    \/ /\ subject = "settings" /\ Settings!Next
       /\ UNCHANGED <<subject, vars, r_vars, e_vars, l_vars, d_vars, q_vars, v_vars, y_vars>>
    \/ /\ subject = "debug" /\ Debug!Next
       /\ UNCHANGED <<subject, vars, r_vars, e_vars, l_vars, s_vars, q_vars, v_vars, y_vars>>
    \/ /\ subject = "recheck" /\ Recheck!Next
       /\ UNCHANGED <<subject, vars, r_vars, e_vars, l_vars, s_vars, d_vars, v_vars, y_vars>>
    \/ /\ subject = "feedback" /\ Feedback!Next
       /\ UNCHANGED <<subject, vars, r_vars, e_vars, l_vars, s_vars, d_vars, v_vars, y_vars>>
    \/ /\ subject = "bindings" /\ Bindings!Next
       /\ UNCHANGED <<subject, vars, r_vars, e_vars, l_vars, s_vars, d_vars, q_vars, y_vars>>
    \/ /\ subject = "verification" /\ Verification!Next
       /\ UNCHANGED <<subject, vars, r_vars, e_vars, l_vars, s_vars, d_vars, q_vars, y_vars>>
    \/ /\ subject = "discovery" /\ Discovery!Next
       /\ UNCHANGED <<subject, vars, r_vars, e_vars, l_vars, s_vars, d_vars, q_vars, v_vars>>

SuiteSpec == SuiteInit /\ [][SuiteNext]_suiteVars

-----------------------------------------------------------------------------
ASSUME Assumptions ==
    /\ ControlAssumption /\ Runtime!RuntimeControlAssumption
    /\ Epoch!EpochAssumption /\ Latch!LatchAssumption
    /\ Settings!CacheAssumption /\ Debug!DebugAssumption
    /\ Recheck!RecheckAssumption /\ Feedback!RecheckAssumption
    /\ Bindings!VerificationAssumption /\ Verification!VerificationAssumption
    /\ Discovery!DiscoveryAssumption

\* Of another subject the variables have their initial types only.
Of(name, Inv) == subject = name => Inv

\* What Redis has committed of a Provider's operation, and what the publisher
\* of a setting closes as committed, really was (as long as Redis loses
\* nothing), and Redis follows the setting's row.
OperationsAreTruthful ==
    /\ [](Of("provider", TypeOK /\ CommittedIsDurable))
    /\ [](Of("runtime", Runtime!TypeOK /\ Runtime!NeverAheadOfDatabase))
    /\ [](Of("runtime", r_losses = 0 => Runtime!CommittedIsActive))
    /\ Runtime!FollowsDatabase

\* Redis is called ready, and its controls proved, only when they are: one
\* epoch, its ready marker behind the committed row and backing it, a marker of
\* another deployment kept, and no pass clears a fault that came after it.
ReadinessIsEarned ==
    /\ [](Of("epoch", Epoch!TypeOK /\ Epoch!MarkerSpeaksForTheRow
                      /\ Epoch!ReadyRowIsBacked /\ Epoch!ReadyIsDurable))
    /\ Epoch!ForeignMarkerIsKept
    /\ [](Of("latch", Latch!TypeOK /\ Latch!ProvedIsSound))
    /\ Latch!FaultOutlivesOlderPass

\* The mirror of a setting is the row unless a call failed or a commit overlapped
\* another; a gateway logs DEBUG only for the one session its operators started,
\* and never goes back to an older setting.
SettingsAreAsAsked ==
    /\ [](Of("settings", Settings!TypeOK /\ Settings!MirrorsUnlessOverlapped))
    /\ [](Of("debug", Debug!TypeOK /\ Debug!ActiveWasStarted))
    /\ Debug!NeverGoesBack /\ Debug!OneSession

\* Every paused model is in the recheck queue, and its pause ends only by a
\* verdict that was not overtaken, on the binding as it is now; late feedback
\* replaces no newer pause.
PausesAreRechecked ==
    /\ [](Of("recheck", Recheck!TypeOK /\ Recheck!PendingIsQueued))
    /\ [](Of("feedback", Feedback!TypeOK /\ Feedback!PendingIsQueued))
    /\ [][/\ Of("recheck", Recheck!IgnoresTheOvertaken /\ Recheck!JudgesTheBinding)
          /\ Of("feedback", Feedback!IgnoresTheOvertaken /\ Feedback!JudgesTheBinding)]_q_vars
    /\ Feedback!PauseNeverGoesBack

\* Evidence that counts was probed at the current revisions, a binding is enabled
\* only on a verified model, and a discovery succeeds only with models of its
\* own revisions, whoever takes over, retries or prunes its run.
InventoriesAreFresh ==
    /\ [](Of("bindings", Bindings!TypeOK /\ Bindings!UsableEvidenceIsFresh
                         /\ Bindings!SucceededRunIsWhole /\ Bindings!EnabledWasVerified))
    /\ [](Of("verification", Verification!TypeOK /\ Verification!UsableEvidenceIsFresh
                             /\ Verification!SucceededRunIsWhole /\ Verification!EnabledWasVerified))
    /\ [](Of("discovery", Discovery!TypeOK /\ Discovery!SucceededIsOfItsRevision
                          /\ Discovery!WorkedOnIsRunning))
    /\ Discovery!LatestNeverGoesBack

=============================================================================
