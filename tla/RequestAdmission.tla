-------------------------- MODULE RequestAdmission --------------------------
(***************************************************************************)
(* The ingress admission of the requests of one user on one route: the     *)
(* scripts acquire/renew/finish_request_admission.lua, and the session     *)
(* that calls them (Manager.Acquire, the background renewer, Finalize).    *)
(* A caller gives up on a call after its timeout; Redis may have run the   *)
(* call, may never run it, or may run it later, after the caller has gone  *)
(* on.                                                                     *)
(***************************************************************************)
EXTENDS Naturals, FiniteSets, Sequences

CONSTANTS
    Requests,      \* admission ids (random: one per request)
    Windows,       \* the rate windows: minute (RPM), day (RPD)
    RateLimit,     \* [Windows -> Nat], 0 for none
    Limits,        \* concurrency limit under each revision of the settings
    LeaseTTL,      \* ticks of a lease
    Tries,         \* requestTerminalTries
    MaxLosses,     \* bound: losses of what Redis holds
    MaxTurns       \* bound: window turns

AdmissionAssumption ==
    /\ RateLimit \in [Windows -> Nat]
    /\ Len(Limits) > 0 /\ \A i \in 1 .. Len(Limits) : Limits[i] \in Nat \ {0}
    /\ LeaseTTL \in Nat \ {0} /\ Tries \in Nat \ {0} /\ MaxLosses \in Nat /\ MaxTurns \in Nat

VARIABLES
    token,   \* the request token hashes in Redis
    slot,    \* the route-user concurrency set: ticks left of each member, 0 if absent
    count,   \* the current counter of each window
    marker,  \* the integrity epoch Redis carries, 0 if it has none
    epoch,   \* the integrity epoch of PostgreSQL
    rev,     \* the active revision of the settings
    gate,    \* whether new tokens are issued: no fault latch, no pending control
    session, \* the request's own side
    late,    \* a call whose caller gave up and that Redis may still run
    turns,   \* window turns so far
    issued   \* history: the requests that were given a token

redis == <<token, slot, count, issued>>
vars == <<token, slot, count, issued, marker, epoch, rev, gate, session, late, turns>>

NoToken == [status |-> "none", epoch |-> 0]
NoCall == [call |-> "none", epoch |-> 0]

Sessions == {"idle", "arrived", "serving", "finalizing", "done"}

Init ==
    /\ token = [q \in Requests |-> NoToken]
    /\ slot = [q \in Requests |-> 0]
    /\ count = [w \in Windows |-> 0]
    /\ marker = 1 /\ epoch = 1 /\ rev = 1 /\ gate = TRUE
    /\ session = [q \in Requests |-> [pc |-> "idle", epoch |-> 0, rev |-> 1, tries |-> 0]]
    /\ late = [q \in Requests |-> NoCall]
    /\ turns = 0 /\ issued = {}
-----------------------------------------------------------------------------
(* The scripts                                                             *)

Active == {q \in Requests : slot[q] > 0}

\* What acquire_request_admission.lua answers to request q that read epoch e.
AcquireReply(q, e) ==
    CASE marker # e -> "runtime_state_lost"
      [] marker = e /\ token[q].status = "active" ->
            IF token[q].epoch = e THEN "idempotent" ELSE "conflict"
      [] marker = e /\ token[q].status = "finished" -> "conflict"
      [] OTHER ->
            IF ~gate \/ session[q].rev # rev THEN "runtime_sync_required"
            ELSE IF \E w \in Windows : RateLimit[w] > 0 /\ count[w] >= RateLimit[w]
                 THEN "limited"
            ELSE IF Cardinality(Active) >= Limits[rev] THEN "limited"
            ELSE "allowed"

DoAcquireTwice(q, e) ==
    IF AcquireReply(q, e) \in {"allowed", "idempotent"}
    THEN /\ count' = [w \in Windows |-> count[w] + 1]
         /\ slot' = [slot EXCEPT ![q] = LeaseTTL]
         /\ token' = [token EXCEPT ![q] = [status |-> "active", epoch |-> e]]
         /\ issued' = issued \cup {q}
    ELSE UNCHANGED redis

DoAcquire(q, e) ==
    IF AcquireReply(q, e) = "allowed"
    THEN /\ count' = [w \in Windows |-> count[w] + 1]
         /\ slot' = [slot EXCEPT ![q] = LeaseTTL]
         /\ token' = [token EXCEPT ![q] = [status |-> "active", epoch |-> e]]
         /\ issued' = issued \cup {q}
    ELSE UNCHANGED redis

Known(q, e) == marker = e /\ token[q].status # "none" /\ token[q].epoch = e

\* renew_request_admission.lua: a lapsed lease is not taken up again.
DoRenewTerminal(q, e) ==
    IF Known(q, e) THEN slot' = [slot EXCEPT ![q] = LeaseTTL] /\ UNCHANGED <<token, count, issued>>
    ELSE UNCHANGED redis

DoRenewLapsed(q, e) ==
    IF Known(q, e) /\ token[q].status = "active"
    THEN slot' = [slot EXCEPT ![q] = LeaseTTL] /\ UNCHANGED <<token, count, issued>>
    ELSE UNCHANGED redis

DoRenew(q, e) ==
    IF Known(q, e) /\ token[q].status = "active" /\ slot[q] > 0
    THEN slot' = [slot EXCEPT ![q] = LeaseTTL] /\ UNCHANGED <<token, count, issued>>
    ELSE UNCHANGED redis

\* finish_request_admission.lua: concurrency is released, the windows keep their count.
DoFinish(q, e) ==
    IF Known(q, e) /\ token[q].status = "active"
    THEN /\ slot' = [slot EXCEPT ![q] = 0]
         /\ token' = [token EXCEPT ![q].status = "finished"]
         /\ UNCHANGED <<count, issued>>
    ELSE UNCHANGED redis

Run(q, call, e) ==
    CASE call = "acquire" -> DoAcquire(q, e)
      [] call = "renew"   -> DoRenew(q, e)
      [] call = "finish"  -> DoFinish(q, e)

(* What becomes of a call: answered; run but not answered; never run; or   *)
(* not run before its caller gave up.                                      *)
Outcomes == {"answered", "lost", "failed", "late"}

Call(q, call, e, outcome) ==
    /\ IF outcome \in {"answered", "lost"} THEN Run(q, call, e) ELSE UNCHANGED redis
    /\ IF outcome = "late"
       THEN late[q] = NoCall /\ late' = [late EXCEPT ![q] = [call |-> call, epoch |-> e]]
       ELSE UNCHANGED late

RunLate(q) ==
    /\ late[q] # NoCall
    /\ Run(q, late[q].call, late[q].epoch)
    /\ late' = [late EXCEPT ![q] = NoCall]
    /\ UNCHANGED <<marker, epoch, rev, gate, session, turns>>
-----------------------------------------------------------------------------
(* The session                                                             *)

Enter(q, pc) == session' = [session EXCEPT ![q].pc = pc]

\* Manager.Acquire has read the epoch and the revisions from PostgreSQL.
Arrive(q) ==
    /\ session[q].pc = "idle"
    /\ session' = [session EXCEPT ![q].pc = "arrived", ![q].epoch = epoch, ![q].rev = rev]
    /\ UNCHANGED <<redis, marker, epoch, rev, gate, late, turns>>

(* The Redis client may send the script again when no answer came (again); *)
(* otherwise the request is refused and nobody finishes its token.         *)
Acquire(q, outcome, again) ==
    /\ session[q].pc = "arrived"
    /\ Call(q, "acquire", session[q].epoch, outcome)
    /\ IF outcome = "answered"
       THEN Enter(q, IF AcquireReply(q, session[q].epoch) \in {"allowed", "idempotent"}
                     THEN "serving" ELSE "done")
       ELSE Enter(q, IF again THEN "arrived" ELSE "done")
    /\ UNCHANGED <<marker, epoch, rev, gate, turns>>

\* startRenewer: whatever a renewal answers, the request goes on and the renewer too.
Renew(q, outcome) ==
    /\ session[q].pc = "serving"
    /\ Call(q, "renew", epoch, outcome)
    /\ UNCHANGED <<marker, epoch, rev, gate, session, turns>>

\* The handler has returned: Finalize joins the renewer first.
StopRenewer(q) ==
    /\ session[q].pc = "serving"
    /\ Enter(q, "finalizing")
    /\ UNCHANGED <<redis, marker, epoch, rev, gate, late, turns>>

FinalizeForever(q, outcome) ==
    /\ session[q].pc = "finalizing"
    /\ Call(q, "finish", epoch, outcome)
    /\ session' = [session EXCEPT
          ![q].tries = @ + 1, ![q].pc = IF outcome = "answered" THEN "done" ELSE @]
    /\ UNCHANGED <<marker, epoch, rev, gate, turns>>

Finalize(q, outcome) ==
    /\ session[q].pc = "finalizing"
    /\ Call(q, "finish", epoch, outcome)
    /\ session' = [session EXCEPT
          ![q].tries = @ + 1,
          ![q].pc = IF outcome = "answered" \/ session[q].tries + 1 = Tries THEN "done" ELSE @]
    /\ UNCHANGED <<marker, epoch, rev, gate, turns>>

\* The gateway process dies.
Crash(q) ==
    /\ session[q].pc \in {"arrived", "serving", "finalizing"}
    /\ Enter(q, "done")
    /\ UNCHANGED <<redis, marker, epoch, rev, gate, late, turns>>
-----------------------------------------------------------------------------
(* Time and operators                                                      *)

Less(n) == IF n = 0 THEN 0 ELSE n - 1

TickKeepsSlots ==
    /\ Active # {}
    /\ slot' = [q \in Requests |-> IF slot[q] = 1 THEN 1 ELSE Less(slot[q])]
    /\ slot' # slot
    /\ UNCHANGED <<token, count, issued, marker, epoch, rev, gate, session, late, turns>>

Tick ==
    /\ Active # {}
    /\ slot' = [q \in Requests |-> Less(slot[q])]
    /\ UNCHANGED <<token, count, issued, marker, epoch, rev, gate, session, late, turns>>

\* A counter is a key per minute or day: the next one starts at nothing.
WindowTurns(w) ==
    /\ turns < MaxTurns
    /\ turns' = turns + 1
    /\ count' = [count EXCEPT ![w] = 0]
    /\ UNCHANGED <<token, slot, issued, marker, epoch, rev, gate, session, late>>

\* The token's key outlives its lease and its terminal state, not for ever.
TokenExpires(q) ==
    /\ token[q].status = "finished" \/ (token[q].status = "active" /\ slot[q] = 0)
    /\ session[q].pc = "done" /\ late[q] = NoCall
    /\ token' = [token EXCEPT ![q] = NoToken]
    /\ UNCHANGED <<slot, count, issued, marker, epoch, rev, gate, session, late, turns>>

PublishSettings ==
    /\ rev < Len(Limits)
    /\ rev' = rev + 1
    /\ UNCHANGED <<redis, marker, epoch, gate, session, late, turns>>

Latch ==
    /\ gate' = ~gate
    /\ UNCHANGED <<redis, marker, epoch, rev, session, late, turns>>

LoseState ==
    /\ epoch <= MaxLosses /\ marker # 0
    /\ marker' = 0
    /\ token' = [q \in Requests |-> NoToken]
    /\ slot' = [q \in Requests |-> 0]
    /\ count' = [w \in Windows |-> 0]
    /\ UNCHANGED <<issued, epoch, rev, gate, session, late, turns>>

\* A new integrity epoch, in PostgreSQL and in Redis (StateEpoch).
Recover ==
    /\ marker = 0
    /\ epoch' = epoch + 1
    /\ marker' = epoch + 1
    /\ UNCHANGED <<redis, rev, gate, session, late, turns>>
-----------------------------------------------------------------------------
OwnerStep(q) ==
    \/ Arrive(q) \/ StopRenewer(q) \/ Crash(q)
    \/ \E outcome \in Outcomes :
          \/ \E again \in BOOLEAN : Acquire(q, outcome, again)
          \/ Renew(q, outcome) \/ Finalize(q, outcome)

Next ==
    \/ \E q \in Requests : OwnerStep(q) \/ RunLate(q) \/ TokenExpires(q)
    \/ Tick \/ (\E w \in Windows : WindowTurns(w))
    \/ PublishSettings \/ Latch \/ LoseState \/ Recover

Spec == Init /\ [][Next]_vars

(* Time passes, handlers return (every upstream call has a deadline) and   *)
(* Finalize makes its tries.                                               *)
Fairness ==
    /\ WF_vars(Tick)
    /\ \A q \in Requests :
          WF_vars(StopRenewer(q) \/ \E outcome \in Outcomes : Finalize(q, outcome))

LiveSpec == Spec /\ Fairness
-----------------------------------------------------------------------------
TypeOK ==
    /\ token \in [Requests -> [status: {"none", "active", "finished"}, epoch: Nat]]
    /\ slot \in [Requests -> 0 .. LeaseTTL]
    /\ count \in [Windows -> Nat]
    /\ marker \in 0 .. epoch /\ rev \in 1 .. Len(Limits) /\ gate \in BOOLEAN
    /\ session \in [Requests -> [pc: Sessions, epoch: Nat, rev: 1 .. Len(Limits), tries: 0 .. Tries]]
    /\ late \in [Requests -> [call: {"none", "acquire", "renew", "finish"}, epoch: Nat]]

(* A member of the concurrency set is the request of a live token of this  *)
(* epoch: neither a renewal that Redis runs after the request was finished, *)
(* nor an admission it runs after its state was lost, occupies a slot.      *)
SlotHasItsToken ==
    \A q \in Requests : slot[q] > 0 => token[q] = [status |-> "active", epoch |-> marker]

(* The rate limits hold per window, and a request is counted at most once  *)
(* although its script may run again after the answer was lost.            *)
RatesHold ==
    \A w \in Windows :
        /\ RateLimit[w] > 0 => count[w] <= RateLimit[w]
        /\ count[w] <= Cardinality(issued)

(* The concurrency set implements the abstract lease pool: at most the     *)
(* largest limit, and a request takes one slot once, not a second one by   *)
(* renewing a lease that had lapsed.                                       *)
LargestLimit == CHOOSE n \in {Limits[i] : i \in 1 .. Len(Limits)} :
                    \A i \in 1 .. Len(Limits) : Limits[i] <= n

Pool == INSTANCE LeasePool WITH
    Pools <- {"route-user"}, Tickets <- Requests, Limit <- LargestLimit,
    out <- [k \in {"route-user"} |-> Active], used <- issued
RouteUserIsLeasePool == Pool!PoolSpec

(* Every slot comes back: finished by its request, or lapsed when the      *)
(* gateway died, its finish was lost or its admission came too late.       *)
SlotsComeBack == \A q \in Requests : []<>(slot[q] = 0)
=============================================================================
