--------------------------- MODULE StickySession ---------------------------
(***************************************************************************)
(* The sticky binding of one session key: the value Redis holds under it,  *)
(* the three compare-and-set writes (BindIfAbsent, RefreshIfCurrent,       *)
(* ClearIfCurrent), and the StickySession each request keeps.  A write     *)
(* gives up after opTimeout: Redis may have run it, may never run it, or   *)
(* may run it later.  Keys are independent, so one is enough.              *)
(***************************************************************************)
EXTENDS Naturals, FiniteSets

CONSTANTS
    Requests,    \* requests of the session
    Channels,    \* upstream channels
    NoChannel,   \* channel 0: unbound
    Versions,    \* binding versions: enough that a new one is always unused
    TTL,         \* ticks of a binding
    MaxFaults    \* bound: store calls that go wrong

StickyAssumption ==
    /\ NoChannel \notin Channels /\ 1 \in Versions /\ Versions \subseteq Nat \ {0}
    /\ TTL \in Nat \ {0} /\ MaxFaults \in Nat

VARIABLES
    binding,  \* what Redis holds; "by" is history: the request that made it
    life,     \* ticks left of it
    seen,     \* session.before: the binding the request found
    bound,    \* session.bound: the binding the request believes in
    late,     \* writes whose caller gave up and that Redis may still run
    faults    \* store calls gone wrong so far

store == <<binding, life>>
sticky == <<binding, life, seen, bound, late, faults>>

Unbound == [channel |-> NoChannel, version |-> 0, by |-> NoChannel]

\* The binding an earlier request of the session left behind, made by none of these.
Inherited == [channel : Channels, version : Versions, by : {NoChannel}]

Bindings == {Unbound} \cup Inherited \cup [channel : Channels, version : Versions, by : Requests]

Ops == [kind : {"bind", "refresh", "clear"}, channel : Channels,
        version : Versions, by : Requests]

StickyTypeOK ==
    /\ binding \in Bindings /\ life \in 0 .. TTL
    /\ seen \in [Requests -> Bindings] /\ bound \in [Requests -> Bindings]
    /\ late \subseteq Ops /\ faults \in 0 .. MaxFaults

StickyInit ==
    /\ \/ binding = Unbound /\ life = 0
       \/ binding \in {b \in Inherited : b.version = 1} /\ life = TTL
    /\ seen = [r \in Requests |-> Unbound] /\ bound = [r \in Requests |-> Unbound]
    /\ late = {} /\ faults = 0

\* A random number below 2^52: one that nobody remembers.
newBindingVersion ==
    CHOOSE v \in Versions :
        v \notin {binding.version} \cup {o.version : o \in late}
                 \cup {seen[r].version : r \in Requests} \cup {bound[r].version : r \in Requests}

Op(kind, r, c, v) == [kind |-> kind, channel |-> c, version |-> v, by |-> r]

\* The channel alone.
IsCurrentChannel(op) == binding.channel = op.channel

\* refreshIfCurrentLua and clearIfCurrentLua compare channel and version.
IsCurrent(op) == binding.channel = op.channel /\ binding.version = op.version

Applies(op) == IF op.kind = "bind" THEN binding = Unbound ELSE IsCurrent(op)

\* A refresh that writes its value whether or not the key is still there.
RunOpRevives(op) ==
    IF op.kind = "refresh" \/ Applies(op)
    THEN /\ binding' = IF op.kind = "clear" THEN Unbound
                       ELSE [channel |-> op.channel, version |-> op.version,
                             by |-> IF op.kind = "bind" THEN op.by ELSE bound[op.by].by]
         /\ life' = IF op.kind = "clear" THEN 0 ELSE TTL
    ELSE UNCHANGED store

\* One write as Redis runs it.
RunOp(op) ==
    IF Applies(op)
    THEN /\ binding' = CASE op.kind = "bind" -> [channel |-> op.channel, version |-> op.version, by |-> op.by]
                         [] op.kind = "refresh" -> [binding EXCEPT !.version = op.version]
                         [] op.kind = "clear" -> Unbound
         /\ life' = IF op.kind = "clear" THEN 0 ELSE TTL
    ELSE UNCHANGED store

\* A write of request r: answered (applied or a conflict), or a store that is
\* unavailable to the caller while the write ran, runs later or never runs.
\* Only an applied write changes what the session believes.
Write(r, op) ==
    /\ \/ /\ RunOp(op)
          /\ bound' = IF Applies(op) THEN [bound EXCEPT ![r] = binding'] ELSE bound
          /\ UNCHANGED <<late, faults>>
       \/ /\ faults < MaxFaults /\ faults' = faults + 1
          /\ \/ RunOp(op) /\ UNCHANGED late
             \/ late' = late \cup {op} /\ UNCHANGED store
             \/ UNCHANGED <<store, late>>
          /\ UNCHANGED bound
    /\ UNCHANGED seen

\* clearIfCurrent, when the session believes in a binding.
clearIfCurrent(r) ==
    IF bound[r] = Unbound THEN UNCHANGED sticky
    ELSE Write(r, Op("clear", r, bound[r].channel, bound[r].version))

\* Mutant: a failure of the bound channel keeps the binding alive.
RefreshIfBound(r, c) ==
    IF bound[r].channel = c THEN Write(r, Op("refresh", r, c, bound[r].version)) ELSE UNCHANGED sticky

\* ClearIfBound, and ClearOnPermanentFailure as applyStickyAttemptFailure calls it.
ClearIfBound(r, c) ==
    IF bound[r].channel = c THEN clearIfCurrent(r) ELSE UNCHANGED sticky

\* After a complete success on channel c, whose policy is on or off.
BindSuccess(r, c, enabled) ==
    CASE ~enabled -> clearIfCurrent(r)
      [] enabled /\ bound[r] = Unbound -> Write(r, Op("bind", r, c, newBindingVersion))
      [] enabled /\ bound[r].channel = c -> Write(r, Op("refresh", r, c, bound[r].version))
      [] OTHER -> UNCHANGED sticky

\* Lookup: what is there, or nothing when the store is unavailable.
Lookup(r) ==
    /\ \/ /\ seen' = [seen EXCEPT ![r] = binding] /\ bound' = [bound EXCEPT ![r] = binding]
          /\ UNCHANGED faults
       \/ /\ binding # Unbound /\ faults < MaxFaults
          /\ faults' = faults + 1 /\ UNCHANGED <<seen, bound>>
    /\ UNCHANGED <<store, late>>

\* Redis reaches a write whose caller has gone on.
RunLate ==
    \E op \in late :
        /\ RunOp(op) /\ late' = late \ {op}
        /\ UNCHANGED <<seen, bound, faults>>

\* The key's TTL.
Age ==
    /\ life > 0 /\ life' = life - 1
    /\ binding' = IF life = 1 THEN Unbound ELSE binding
    /\ UNCHANGED <<seen, bound, late, faults>>

=============================================================================
