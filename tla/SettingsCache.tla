---------------------------- MODULE SettingsCache ----------------------------
(***************************************************************************)
(* One ordinary setting of app_settings and the copies processes read it   *)
(* from: a mirror in Redis that never expires, and a local copy of a few   *)
(* seconds in each process.  A write commits to PostgreSQL and then        *)
(* refreshes the mirror; a read that misses the mirror fills it from       *)
(* PostgreSQL.  Neither compares what it overwrites.                       *)
(***************************************************************************)
EXTENDS Naturals, FiniteSets

CONSTANTS
    Processes,
    Admin,          \* the process operators write through
    Writers,        \* calls of Set, each of one value
    Values,
    Default,        \* of the registry
    NoValue, NoEntry,
    LocalTTL,
    MaxFaults       \* bound: failed calls, restarts of Redis, writers that die

CacheAssumption ==
    /\ Admin \in Processes /\ Default \in Values /\ NoValue \notin Values
    /\ LocalTTL \in Nat \ {0} /\ MaxFaults \in Nat

VARIABLES
    row,            \* app_settings
    mirror,         \* Redis
    local, reader,  \* of each process
    writer,
    faults,
    failed,         \* history: a write was not mirrored, or a default was read in an error
    overlapped      \* history: a commit met a read or a write under way

vars == <<row, mirror, local, reader, writer, faults, failed, overlapped>>

Entry(v) == [value |-> v, left |-> LocalTTL]

TypeOK ==
    /\ row \in Values /\ mirror \in Values \cup {NoValue}
    /\ local \in [Processes -> [value : Values, left : 1 .. LocalTTL] \cup {NoEntry}]
    /\ reader \in [Processes -> [pc : {"idle", "missed", "loaded"}, value : Values]]
    /\ writer \in [Writers -> [pc : {"idle", "committed", "done"}, value : Values]]
    /\ faults \in 0 .. MaxFaults /\ {failed, overlapped} \subseteq BOOLEAN

\* SeedDefaults has run, or the row is missing and reads fall back to the same.
Init ==
    /\ row = Default /\ mirror = NoValue
    /\ local = [p \in Processes |-> NoEntry]
    /\ reader = [p \in Processes |-> [pc |-> "idle", value |-> Default]]
    /\ writer = [w \in Writers |-> [pc |-> "idle", value |-> Default]]
    /\ faults = 0 /\ failed = FALSE /\ overlapped = FALSE

Fault == faults < MaxFaults /\ faults' = faults + 1

(***************************************************************************)
(* Raw: local copy, then the mirror, then the row.                         *)
(***************************************************************************)
Ask(p) ==
    /\ reader[p].pc = "idle" /\ local[p] = NoEntry
    /\ \/ /\ mirror # NoValue /\ local' = [local EXCEPT ![p] = Entry(mirror)]
          /\ UNCHANGED <<reader, faults>>
       \/ /\ (mirror = NoValue /\ UNCHANGED faults) \/ Fault
          /\ reader' = [reader EXCEPT ![p].pc = "missed"] /\ UNCHANGED local
    /\ UNCHANGED <<row, mirror, writer, failed, overlapped>>

\* readDBOrDefault: an error reads as the default.
LoadRow(p) ==
    /\ reader[p].pc = "missed"
    /\ \/ /\ reader' = [reader EXCEPT ![p] = [pc |-> "loaded", value |-> row]]
          /\ UNCHANGED <<faults, failed>>
       \/ /\ Fault /\ failed' = TRUE
          /\ reader' = [reader EXCEPT ![p] = [pc |-> "loaded", value |-> Default]]
    /\ UNCHANGED <<row, mirror, local, writer, overlapped>>

Fill(p) ==
    /\ reader[p].pc = "loaded" /\ reader' = [reader EXCEPT ![p].pc = "idle"]
    /\ local' = [local EXCEPT ![p] = Entry(reader[p].value)]
    /\ \/ mirror' = reader[p].value /\ UNCHANGED faults
       \/ Fault /\ UNCHANGED mirror
    /\ UNCHANGED <<row, writer, failed, overlapped>>

(***************************************************************************)
(* Set, and time.                                                          *)
(***************************************************************************)

\* UpsertAppSetting, after the value was validated.
Commit(w, v) ==
    /\ writer[w].pc = "idle" /\ writer' = [writer EXCEPT ![w] = [pc |-> "committed", value |-> v]]
    /\ row' = v
    /\ overlapped' = (overlapped \/ (\E o \in Writers : writer[o].pc = "committed")
                                 \/ \E p \in Processes : reader[p].pc = "loaded")
    /\ UNCHANGED <<mirror, local, reader, faults, failed>>

\* Mutant: only this process is told of the new value.
MirroredNowhere(v) == mirror' = mirror /\ UNCHANGED <<faults, failed>>

Mirrored(v) ==
    \/ mirror' = v /\ UNCHANGED <<faults, failed>>
    \/ Fault /\ failed' = TRUE /\ UNCHANGED mirror

Publish(w) ==
    /\ writer[w].pc = "committed" /\ writer' = [writer EXCEPT ![w].pc = "done"]
    /\ Mirrored(writer[w].value)
    /\ local' = [local EXCEPT ![Admin] = Entry(writer[w].value)]
    /\ UNCHANGED <<row, reader, overlapped>>

WriterDies(w) ==
    /\ writer[w].pc = "committed" /\ writer' = [writer EXCEPT ![w].pc = "done"]
    /\ Fault /\ failed' = TRUE
    /\ UNCHANGED <<row, mirror, local, reader, overlapped>>

RedisRestarts ==
    /\ mirror # NoValue /\ mirror' = NoValue /\ Fault
    /\ UNCHANGED <<row, local, reader, writer, failed, overlapped>>

\* Mutant: a local copy is kept as long as the process lives.
Kept(e) == e

\* Mutant: a copy is served once more when its time is over.
AgedPastZero(e) == IF e = NoEntry \/ e.left = 0 THEN NoEntry ELSE [e EXCEPT !.left = @ - 1]

Aged(e) == IF e = NoEntry \/ e.left = 1 THEN NoEntry ELSE [e EXCEPT !.left = @ - 1]

Tick ==
    /\ \E p \in Processes : local[p] # NoEntry
    /\ local' = [p \in Processes |-> Aged(local[p])]
    /\ UNCHANGED <<row, mirror, reader, writer, faults, failed, overlapped>>

Read == \E p \in Processes : Ask(p) \/ LoadRow(p) \/ Fill(p)

Next ==
    \/ Read \/ RedisRestarts \/ Tick
    \/ \E w \in Writers : (\E v \in Values : Commit(w, v)) \/ Publish(w) \/ WriterDies(w)

Spec == Init /\ [][Next]_vars

\* Settings are polled for ever, a call that began ends, time passes.
Fairness ==
    /\ WF_vars(Tick)
    /\ \A p \in Processes : WF_vars(Ask(p)) /\ WF_vars(LoadRow(p)) /\ WF_vars(Fill(p))

LiveSpec == Spec /\ Fairness

(***************************************************************************)
(* What the copies are worth.                                              *)
(***************************************************************************)
Quiet ==
    /\ \A w \in Writers : writer[w].pc # "committed"
    /\ \A p \in Processes : reader[p].pc # "loaded"

\* When nothing is under way and no call failed, the mirror is the row - unless a
\* commit overlapped another write or a fill (SettingsStore.Set, Raw).
MirrorsUnlessOverlapped == Quiet /\ ~failed /\ ~overlapped => mirror \in {NoValue, row}

\* As store.go has it: Redis holds the mirror of the authoritative row, and a
\* write that Redis missed is made good by the next read.
MirrorsTheRow == Quiet => mirror \in {NoValue, row}

\* Whatever the mirror settles on is what every process comes to serve: no local
\* copy outlives its few seconds (localCacheTTL).
Propagates ==
    \A v \in Values :
        <>[](mirror = v) => <>[](\A p \in Processes : local[p] # NoEntry => local[p].value = v)
=============================================================================
