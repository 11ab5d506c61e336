---------------------------- MODULE DebugLogging -----------------------------
(***************************************************************************)
(* The temporary DEBUG session of the gateways.  Operators start, extend   *)
(* and stop it by compare-and-set on its app_settings row; gateways read   *)
(* the mirror of the row in Redis (which may be behind, see SettingsCache) *)
(* and apply what they read if its revision is news to them; a local timer *)
(* ends the session at its expiry.                                         *)
(***************************************************************************)
EXTENDS Naturals, FiniteSets

CONSTANTS
    Gateways,
    Operators,      \* calls of Start or Stop
    Duration,
    NoValue, NoSession,
    MaxTime,        \* bound: the last instant at which an operator calls
    MaxFaults,      \* bound: failed calls to Redis or PostgreSQL, restarts
    MaxTries        \* of a compare-and-set

DebugAssumption ==
    /\ IsFiniteSet(Operators)
    /\ {Duration, MaxTries} \subseteq Nat \ {0} /\ {MaxTime, MaxFaults} \subseteq Nat

VARIABLES
    now,
    row, revision,      \* the setting and the revision of its row
    mirror,             \* Redis
    operator,
    reader, applied, active, timer,     \* of each gateway
    faults

gateway == <<reader, applied, active, timer>>
vars == <<now, row, revision, mirror, operator, gateway, faults>>

End == MaxTime + Duration + 1

\* A call that begins a session draws an id of its own.
Default == [rev |-> 0, id |-> NoSession, expires |-> 0]

Settings == [rev : 0 .. Cardinality(Operators) + 1, id : Operators \cup {NoSession},
             expires : 0 .. MaxTime + Duration]

TypeOK ==
    /\ now \in 0 .. End /\ row \in Settings /\ mirror \in Settings \cup {NoValue}
    /\ revision \in 1 .. Cardinality(Operators) + 1
    /\ operator \in [Operators -> [pc : {"idle", "called", "read", "stored", "done"},
            kind : {"start", "stop"}, now : 0 .. MaxTime, tries : 0 .. MaxTries,
            value : Settings, revision : Nat]]
    /\ reader \in [Gateways -> [pc : {"idle", "missed", "loaded", "apply"}, value : Settings]]
    /\ applied \in [Gateways -> 0 .. Cardinality(Operators) + 1]
    /\ active \in [Gateways -> Settings \cup {NoSession}]
    /\ timer \in [Gateways -> Settings \cup {NoSession}]
    /\ faults \in 0 .. MaxFaults

Init ==
    /\ now = 0 /\ row = Default /\ revision = 1 /\ mirror = NoValue /\ faults = 0
    /\ operator = [o \in Operators |-> [pc |-> "idle", kind |-> "start", now |-> 0, tries |-> 0,
                                        value |-> Default, revision |-> 1]]
    /\ reader = [g \in Gateways |-> [pc |-> "idle", value |-> Default]]
    /\ applied = [g \in Gateways |-> 0]
    /\ active = [g \in Gateways |-> NoSession] /\ timer = [g \in Gateways |-> NoSession]

Fault == faults < MaxFaults /\ faults' = faults + 1

Tick == now < End /\ now' = now + 1 /\ UNCHANGED <<row, revision, mirror, operator, gateway, faults>>

(***************************************************************************)
(* The operators.                                                          *)
(***************************************************************************)

\* Stop looks first, outside its compare-and-set, whether there is a session.
Call(o, kind) ==
    /\ operator[o].pc = "idle" /\ now <= MaxTime
    /\ operator' = [operator EXCEPT
            ![o].pc = IF kind = "stop" /\ row.id = NoSession THEN "done" ELSE "called",
            ![o].kind = kind, ![o].now = now]
    /\ UNCHANGED <<now, row, revision, mirror, gateway, faults>>

ReadRecord(o) ==
    /\ operator[o].pc = "called"
    /\ operator' = [operator EXCEPT ![o].pc = "read", ![o].tries = @ + 1,
                                    ![o].value = row, ![o].revision = revision]
    /\ UNCHANGED <<now, row, revision, mirror, gateway, faults>>

\* A session that has not expired is extended and keeps its id.
Built(o) ==
    LET op == operator[o] next == op.revision + 1 IN
    IF op.kind = "start"
    THEN [rev |-> next, expires |-> op.now + Duration,
          id |-> IF op.value.id = NoSession \/ op.value.expires <= op.now THEN o ELSE op.value.id]
    ELSE [rev |-> next, id |-> NoSession, expires |-> op.now]

\* Mutant: the row is overwritten whatever its revision.
Unchanged(o) == TRUE

\* UpdateAppSettingAtRevision.
IsCurrent(o) == revision = operator[o].revision

\* Mutant: one try more than there should be.
TriesOnceMore(o) == operator[o].tries <= MaxTries

TriesAgain(o) == operator[o].tries < MaxTries

UpdateAtRevision(o) ==
    /\ operator[o].pc = "read"
    /\ IF IsCurrent(o)
       THEN /\ row' = Built(o) /\ revision' = operator[o].revision + 1
            /\ operator' = [operator EXCEPT ![o].pc = "stored", ![o].value = Built(o)]
       ELSE /\ operator' = [operator EXCEPT ![o].pc = IF TriesAgain(o) THEN "called" ELSE "done"]
            /\ UNCHANGED <<row, revision>>
    /\ UNCHANGED <<now, mirror, gateway, faults>>

\* PublishCache; it may fail, or the process die before it.
PublishCache(o) ==
    /\ operator[o].pc = "stored" /\ operator' = [operator EXCEPT ![o].pc = "done"]
    /\ \/ mirror' = operator[o].value /\ UNCHANGED faults
       \/ Fault /\ UNCHANGED mirror
    /\ UNCHANGED <<now, row, revision, gateway>>

(***************************************************************************)
(* The gateways.  The settings applier is the only reader of this key in   *)
(* its process, and it reads less often than a local copy lives.           *)
(***************************************************************************)
Ask(g) ==
    /\ reader[g].pc = "idle"
    /\ \/ /\ mirror # NoValue /\ UNCHANGED faults
          /\ reader' = [reader EXCEPT ![g] = [pc |-> "apply", value |-> mirror]]
       \/ /\ (mirror = NoValue /\ UNCHANGED faults) \/ Fault
          /\ reader' = [reader EXCEPT ![g].pc = "missed"]
    /\ UNCHANGED <<now, row, revision, mirror, operator, applied, active, timer>>

LoadRow(g) ==
    /\ reader[g].pc = "missed"
    /\ \/ reader' = [reader EXCEPT ![g] = [pc |-> "loaded", value |-> row]] /\ UNCHANGED faults
       \/ reader' = [reader EXCEPT ![g] = [pc |-> "loaded", value |-> Default]] /\ Fault
    /\ UNCHANGED <<now, row, revision, mirror, operator, applied, active, timer>>

Fill(g) ==
    /\ reader[g].pc = "loaded" /\ reader' = [reader EXCEPT ![g].pc = "apply"]
    /\ \/ mirror' = reader[g].value /\ UNCHANGED faults
       \/ Fault /\ UNCHANGED mirror
    /\ UNCHANGED <<now, row, revision, operator, applied, active, timer>>

News(g, v) == v.rev > applied[g]

\* Mutant: extending a session leaves the timer that runs.
TimerKept(g, v) == IF timer[g] = NoSession THEN v ELSE timer[g]

TimerOf(g, v) == v

ApplyDebugSession(g, v) ==
    /\ v.id # NoSession /\ v.expires > now
    /\ IF News(g, v)
       THEN /\ active' = [active EXCEPT ![g] = v] /\ applied' = [applied EXCEPT ![g] = v.rev]
            /\ timer' = [timer EXCEPT ![g] = TimerOf(g, v)]
       ELSE UNCHANGED <<active, applied, timer>>

\* Mutant: clearing does not look at the revision.
ClearableAlways(g, v) == TRUE

Clearable(g, v) == v.rev >= applied[g]

ClearDebugSession(g, v) ==
    /\ v.id = NoSession \/ v.expires <= now
    /\ IF Clearable(g, v)
       THEN /\ active' = [active EXCEPT ![g] = NoSession] /\ applied' = [applied EXCEPT ![g] = v.rev]
            /\ timer' = [timer EXCEPT ![g] = NoSession]
       ELSE UNCHANGED <<active, applied, timer>>

Apply(g) ==
    /\ reader[g].pc = "apply" /\ reader' = [reader EXCEPT ![g].pc = "idle"]
    /\ ApplyDebugSession(g, reader[g].value) \/ ClearDebugSession(g, reader[g].value)
    /\ UNCHANGED <<now, row, revision, mirror, operator, faults>>

\* The timer fires once, and only ends the session it was set for.
Expire(g) ==
    /\ timer[g] # NoSession /\ timer[g].expires <= now
    /\ timer' = [timer EXCEPT ![g] = NoSession]
    /\ active' = [active EXCEPT ![g] =
            IF @ # NoSession /\ @.id = timer[g].id /\ applied[g] = timer[g].rev THEN NoSession ELSE @]
    /\ UNCHANGED <<now, row, revision, mirror, operator, reader, applied, faults>>

Restart(g) ==
    /\ applied[g] > 0 /\ Fault
    /\ reader' = [reader EXCEPT ![g] = [pc |-> "idle", value |-> Default]]
    /\ applied' = [applied EXCEPT ![g] = 0]
    /\ active' = [active EXCEPT ![g] = NoSession] /\ timer' = [timer EXCEPT ![g] = NoSession]
    /\ UNCHANGED <<now, row, revision, mirror, operator>>

RedisRestarts ==
    /\ mirror # NoValue /\ mirror' = NoValue /\ Fault
    /\ UNCHANGED <<now, row, revision, operator, gateway>>

Operate(o) ==
    \/ \E kind \in {"start", "stop"} : Call(o, kind)
    \/ ReadRecord(o) \/ UpdateAtRevision(o) \/ PublishCache(o)

Gateway(g) == Ask(g) \/ LoadRow(g) \/ Fill(g) \/ Apply(g) \/ Expire(g) \/ Restart(g)

Next ==
    \/ Tick \/ RedisRestarts
    \/ \E o \in Operators : Operate(o)
    \/ \E g \in Gateways : Gateway(g)

Spec == Init /\ [][Next]_vars

\* Time passes and a timer that is due fires; nothing is assumed of the rest.
Fairness == WF_vars(Tick) /\ \A g \in Gateways : WF_vars(Expire(g))

LiveSpec == Spec /\ Fairness

(***************************************************************************)
(* What the session is worth.                                              *)
(***************************************************************************)

\* However far behind the mirror is, a gateway that runs on never goes back to an
\* older setting: what was stopped or extended stays so (appliedRevision).
NeverGoesBack ==
    [][\A g \in Gateways : applied'[g] < applied[g] => Restart(g)]_vars

\* Two operators who start at once share one session: a new one begins only
\* where none was running (UpdateAppSettingAtRevision and its retry).
OneSession == [][row'.id \notin {NoSession, row.id} => row.id = NoSession \/ row.expires <= now]_vars

\* A gateway that logs DEBUG does so for a session its operators started, no
\* longer than the last of them asked.
ActiveWasStarted ==
    \A g \in Gateways : active[g] # NoSession =>
        /\ active[g].rev = applied[g] /\ active[g].rev <= row.rev
        /\ active[g].rev = row.rev => active[g] = row

\* Whatever happens to the mirror, every gateway returns to its baseline.
DebugEnds == \A g \in Gateways : []<>(active[g] = NoSession)
=============================================================================
