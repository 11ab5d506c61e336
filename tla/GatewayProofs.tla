---------------------------- MODULE GatewayProofs ----------------------------
(***************************************************************************)
(* Proofs about what a gateway does with its channels, for every number of *)
(* requests, channels, gateways, workers, faults and for every policy: the *)
(* attempts of a sticky session (AttemptRunner) and, as instances on       *)
(* variables of their own, the credential gate of a channel, the recheck   *)
(* of its 403 pauses, the verification of its model bindings, the          *)
(* discovery of its upstream's models and the observer of tokens.          *)
(*                                                                         *)
(* A slot is held by exactly the calls in flight, and what a session is    *)
(* bound to is what its requests last made of it.  A binding is known by   *)
(* its version.  While no two bindings that anybody remembers share a      *)
(* version (VersionsName) and a late bind brings one that nobody remembers *)
(* (LateBindsAreNew), comparing versions is comparing bindings, and a late *)
(* write can only hit the binding its request believed in                  *)
(* (LateWritesAreTheirs).                                                  *)
(***************************************************************************)
EXTENDS AttemptRunner, FiniteSetTheorems, WellFoundedInduction, TLAPS

\* The bindings somebody holds or remembers.
Remembered == {binding} \cup {seen[r] : r \in Requests} \cup {bound[r] : r \in Requests}

VersionsName ==
    \A a, b \in Remembered : a.version = b.version => a = b

\* A bind that has not run yet has a version of its own.
LateBindsAreNew ==
    \A o \in late : o.kind = "bind" =>
        /\ \A b \in Remembered : b.version # o.version
        /\ \A p \in late : p.version = o.version => p = o

\* A request believes in nothing, in what it found, or in what it made.
OwnBeliefs ==
    \A r \in Requests : bound[r] # Unbound => bound[r] = seen[r] \/ bound[r].by = r

\* A late clear or refresh names a binding its request found or made.
LateWritesAreTheirs ==
    \A o \in late : o.kind # "bind" =>
        \A b \in Remembered : b.version = o.version => b = seen[o.by] \/ b.by = o.by

\* Who has not begun believes nothing and has no writes; a late bind or refresh
\* is that of a request that was served by its channel.
WritersWentOn ==
    /\ \A r \in Requests : pc[r] = "new" => seen[r] = Unbound /\ bound[r] = Unbound
    /\ \A o \in late :
         /\ pc[o.by] # "new"
         /\ o.kind # "clear" => pc[o.by] = "done" /\ answer[o.by] = o.channel

Beliefs ==
    /\ VersionsName /\ LateBindsAreNew /\ OwnBeliefs /\ LateWritesAreTheirs /\ WritersWentOn
    /\ ClearedStaysCleared /\ IsFiniteSet(late)

\* The candidate in hand: it exists, and was called as often as the fallback allows.
InHand ==
    \A r \in Requests :
        /\ pc[r] \in {"attempt", "judge", "replay"} =>
              run[r].left # <<>> /\ run[r].calls[Channel(r)] \in 1 .. 2
        /\ pc[r] = "replay" \/ (pc[r] = "judge" /\ result[r] = "replay") =>
              run[r].calls[Channel(r)] = 1

IInv == TypeOK /\ InHand /\ PermitsAreCalls /\ Beliefs

\* The hypotheses of the theorems.  A version is a random number below 2^52; that
\* a new one is never one somebody remembers is the unlimited supply of them.
Hypotheses ==
    /\ StickyAssumption /\ RunnerAssumption
    /\ IsFiniteSet(Requests) /\ IsFiniteSet(Channels) /\ ~IsFiniteSet(Versions)

-----------------------------------------------------------------------------
(* Bindings and the writes to them.                                        *)

LEMMA BindingFacts ==
    ASSUME StickyAssumption, NEW b \in Bindings
    PROVE  /\ b.version \in Nat
           /\ b.version = 0 <=> b = Unbound
           /\ b # Unbound => b.channel \in Channels /\ b.version \in Versions
           /\ [b EXCEPT !.version = b.version] = b
<1>1. CASE b = Unbound
    BY <1>1 DEF Unbound
<1>2. CASE b \in Inherited
    BY <1>2 DEF Inherited, Unbound, StickyAssumption
<1>3. CASE b \in [channel : Channels, version : Versions, by : Requests]
    BY <1>3 DEF Unbound, StickyAssumption
<1> QED BY <1>1, <1>2, <1>3 DEF Bindings

LEMMA OpFacts ==
    ASSUME NEW op \in Ops
    PROVE  /\ op.kind \in {"bind", "refresh", "clear"} /\ op.channel \in Channels
           /\ op.version \in Versions /\ op.by \in Requests
    BY DEF Ops

LEMMA MadeBinding ==
    ASSUME NEW op \in Ops, StickyAssumption
    PROVE  LET b == [channel |-> op.channel, version |-> op.version, by |-> op.by]
           IN  b \in Bindings /\ b # Unbound /\ b.version = op.version
               /\ b.channel = op.channel /\ b.by = op.by
    BY DEF Ops, Bindings, Unbound, StickyAssumption

\* The versions of a finite set of bindings or writes.
LEMMA FiniteVersions ==
    ASSUME NEW S, IsFiniteSet(S)
    PROVE  IsFiniteSet({x.version : x \in S})
<1> DEFINE T == {x.version : x \in S}
           f == [x \in S |-> x.version]
<1>1. f \in Surjection(S, T)
    BY DEF Surjection
<1> QED BY <1>1, FS_Surjection

LEMMA FiniteRemembered ==
    ASSUME IsFiniteSet(Requests) PROVE IsFiniteSet(Remembered)
<1> DEFINE f == [r \in Requests |-> seen[r]]
           g == [r \in Requests |-> bound[r]]
           A == {seen[r] : r \in Requests}
           B == {bound[r] : r \in Requests}
<1>1. f \in Surjection(Requests, A) /\ g \in Surjection(Requests, B)
    BY DEF Surjection
<1>2. IsFiniteSet(A) /\ IsFiniteSet(B)
    BY <1>1, FS_Surjection
<1>3. IsFiniteSet({binding})
    BY FS_Singleton
<1> HIDE DEF A, B
<1>4. IsFiniteSet({binding} \cup A \cup B)
    BY <1>2, <1>3, FS_Union
<1> QED BY <1>4 DEF Remembered, A, B

\* newBindingVersion is one that nobody remembers.
LEMMA NewVersion ==
    ASSUME Hypotheses, IsFiniteSet(late)
    PROVE  /\ newBindingVersion \in Versions
           /\ \A b \in Remembered : b.version # newBindingVersion
           /\ \A o \in late : o.version # newBindingVersion
<1> DEFINE R == {b.version : b \in Remembered}
           L == {o.version : o \in late}
           T == {binding.version} \cup L \cup {seen[r].version : r \in Requests}
                  \cup {bound[r].version : r \in Requests}
<1>1. IsFiniteSet(R) /\ IsFiniteSet(L)
    BY FiniteVersions, FiniteRemembered DEF Hypotheses
<1>2. T = R \cup L
    BY DEF Remembered
<1>3. IsFiniteSet(T)
  <2> HIDE DEF R, L, T
  <2> QED BY <1>1, <1>2, FS_Union
<1>4. \E v \in Versions : v \notin T
  <2>1. SUFFICES ASSUME \A v \in Versions : v \in T PROVE FALSE
    OBVIOUS
  <2> HIDE DEF T
  <2>2. Versions \in SUBSET T
    BY <2>1
  <2> QED BY <1>3, <2>2, FS_Subset DEF Hypotheses
<1>5. newBindingVersion \in Versions /\ newBindingVersion \notin T
  <2>1. newBindingVersion = CHOOSE v \in Versions : v \notin T
    BY Zenon DEF newBindingVersion
  <2> HIDE DEF T
  <2> QED BY <1>4, <2>1
<1> QED BY <1>2, <1>5

-----------------------------------------------------------------------------
(* What one step does to the session's binding.                            *)

\* A write that request r makes: what it names, and where the step leaves r.
OpFits(r, op) ==
    /\ op.by = r
    /\ op.kind = "bind" => bound[r] = Unbound /\ op.version = newBindingVersion
    /\ op.kind # "bind" => /\ bound[r] # Unbound
                           /\ op.channel = bound[r].channel /\ op.version = bound[r].version
    /\ op.kind # "clear" => pc'[r] = "done" /\ answer'[r] = op.channel

Looks(r) == pc[r] = "new" /\ pc'[r] # "new" /\ Lookup(r)

Moves(r) == pc'[r] # pc[r] \/ run'[r] # run[r]

Writes(r, op) ==
    pc[r] # "new" /\ Moves(r) /\ op \in Ops /\ OpFits(r, op) /\ Write(r, op)

\* No request moves back to its beginning, and a served one stays served.
GoesOn ==
    \A r \in Requests :
        /\ pc[r] # "new" => pc'[r] # "new"
        /\ pc[r] = "done" => pc'[r] = "done" /\ answer'[r] = answer[r]

\* Only r's place and loop move.
Alone(r) == \A q \in Requests \ {r} : pc'[q] = pc[q] /\ run'[q] = run[q]

StickyStep ==
    \/ \E r \in Requests : Alone(r) /\ Looks(r)
    \/ \E r \in Requests : Alone(r) /\ \E op \in Ops : Writes(r, op)
    \/ UNCHANGED <<pc, run, answer>> /\ (RunLate \/ Age)
    \/ UNCHANGED sticky

\* What Redis makes of one write.
Ran(op) ==
    \/ UNCHANGED store
    \/ /\ op.kind = "bind" /\ binding = Unbound /\ life' = TTL
       /\ binding' = [channel |-> op.channel, version |-> op.version, by |-> op.by]
    \/ /\ op.kind = "refresh" /\ binding # Unbound /\ binding' = binding /\ life' = TTL
       /\ binding.channel = op.channel /\ binding.version = op.version
    \/ /\ op.kind = "clear" /\ binding # Unbound /\ binding' = Unbound /\ life' = 0
       /\ binding.channel = op.channel /\ binding.version = op.version

LEMMA RunOpRan ==
    ASSUME StickyAssumption, StickyTypeOK, NEW op \in Ops, RunOp(op)
    PROVE  /\ Ran(op)
           /\ ~Applies(op) => UNCHANGED store
           /\ Applies(op) /\ op.kind = "bind" => binding'.version = op.version /\ binding' # Unbound
           /\ Applies(op) /\ op.kind # "bind" =>
                /\ binding # Unbound /\ binding.version = op.version
                /\ binding' = IF op.kind = "clear" THEN Unbound ELSE binding
<1>1. /\ binding \in Bindings
      /\ op.version \in Versions /\ op.version # 0 /\ op.kind \in {"bind", "refresh", "clear"}
    BY OpFacts DEF StickyTypeOK, StickyAssumption
<1>2. Unbound.version = 0
    BY DEF Unbound
<1>3. CASE ~Applies(op)
    BY <1>3 DEF RunOp, Ran
<1>4. CASE Applies(op) /\ op.kind = "bind"
  <2>1. /\ binding = Unbound /\ life' = TTL
        /\ binding' = [channel |-> op.channel, version |-> op.version, by |-> op.by]
    BY <1>4 DEF RunOp, Applies
  <2> QED BY <2>1, <1>4, MadeBinding DEF Ran
<1>5. CASE Applies(op) /\ op.kind = "refresh"
  <2>1. /\ binding.channel = op.channel /\ binding.version = op.version /\ life' = TTL
        /\ binding' = [binding EXCEPT !.version = op.version]
    BY <1>5 DEF RunOp, Applies, IsCurrent
  <2>2. binding' = binding /\ binding # Unbound
    BY <1>1, <1>2, <2>1, BindingFacts
  <2> QED BY <1>5, <2>1, <2>2 DEF Ran
<1>6. CASE Applies(op) /\ op.kind = "clear"
  <2>1. /\ binding.channel = op.channel /\ binding.version = op.version /\ life' = 0
        /\ binding' = Unbound
    BY <1>6 DEF RunOp, Applies, IsCurrent
  <2> QED BY <1>1, <1>2, <1>6, <2>1 DEF Ran
<1> QED BY <1>1, <1>3, <1>4, <1>5, <1>6

LEMMA RanTypes ==
    ASSUME StickyAssumption, StickyTypeOK, NEW op \in Ops, Ran(op)
    PROVE  binding' \in Bindings /\ life' \in 0 .. TTL
<1>1. Unbound \in Bindings /\ TTL \in Nat
    BY DEF Bindings, StickyAssumption
<1> QED BY <1>1, MadeBinding DEF Ran, StickyTypeOK, store

LEMMA StickyTypes ==
    ASSUME StickyAssumption, StickyTypeOK, StickyStep
    PROVE  StickyTypeOK'
<1>t. /\ binding \in Bindings /\ life \in 0 .. TTL
      /\ seen \in [Requests -> Bindings] /\ bound \in [Requests -> Bindings]
      /\ late \subseteq Ops /\ faults \in 0 .. MaxFaults /\ MaxFaults \in Nat /\ TTL \in Nat
      /\ Unbound \in Bindings
    BY DEF StickyTypeOK, StickyAssumption, Bindings
<1>1. CASE \E r \in Requests : Alone(r) /\ Looks(r)
    BY <1>1, <1>t DEF Looks, Lookup, StickyTypeOK, store
<1>2. ASSUME NEW r \in Requests, NEW op \in Ops, Writes(r, op) PROVE StickyTypeOK'
  <2>1. CASE /\ RunOp(op) /\ UNCHANGED <<late, faults, seen>>
             /\ bound' = IF Applies(op) THEN [bound EXCEPT ![r] = binding'] ELSE bound
    <3>1. binding' \in Bindings /\ life' \in 0 .. TTL
        BY <2>1, RunOpRan, RanTypes
    <3> QED BY <1>t, <2>1, <3>1 DEF StickyTypeOK
  <2>2. CASE /\ faults < MaxFaults /\ faults' = faults + 1 /\ UNCHANGED <<bound, seen>>
             /\ \/ RunOp(op) /\ UNCHANGED late
                \/ late' = late \cup {op} /\ UNCHANGED store
                \/ UNCHANGED <<store, late>>
    <3>1. binding' \in Bindings /\ life' \in 0 .. TTL
        BY <1>t, <2>2, RunOpRan, RanTypes DEF store
    <3>2. late' \subseteq Ops /\ faults' \in 0 .. MaxFaults
        BY <1>t, <2>2
    <3> QED BY <1>t, <2>2, <3>1, <3>2 DEF StickyTypeOK
  <2> QED BY <1>2, <2>1, <2>2 DEF Writes, Write
<1>3. CASE RunLate
  <2>1. PICK op \in late : RunOp(op) /\ late' = late \ {op} /\ UNCHANGED <<seen, bound, faults>>
    BY <1>3 DEF RunLate
  <2>2. binding' \in Bindings /\ life' \in 0 .. TTL
    BY <1>t, <2>1, RunOpRan, RanTypes
  <2> QED BY <1>t, <2>1, <2>2 DEF StickyTypeOK
<1>4. CASE Age
    BY <1>4, <1>t DEF Age, StickyTypeOK
<1>5. CASE UNCHANGED sticky
    BY <1>5, <1>t DEF sticky, StickyTypeOK
<1> QED BY <1>1, <1>2, <1>3, <1>4, <1>5 DEF StickyStep
-----------------------------------------------------------------------------
(* What requests believe, across a step.                                   *)

\* What Redis now holds is a binding nobody remembers and nobody still writes.
Fresh ==
    /\ \A a \in Remembered : a.version # binding'.version
    /\ \A o \in late' : o.version # binding'.version

LEMMA RememberedTypes ==
    ASSUME StickyTypeOK PROVE Remembered \subseteq Bindings
    BY DEF StickyTypeOK, Remembered

\* The store moves and no write is left behind.
LEMMA StoreMoves ==
    ASSUME StickyAssumption, StickyTypeOK, StickyTypeOK', Beliefs, GoesOn,
           seen' = seen, late' \subseteq late,
           binding' = binding \/ binding' = Unbound \/ Fresh,
           \A q \in Requests : bound'[q] # bound[q] =>
               /\ pc[q] # "new" /\ bound'[q] = binding'
               /\ binding' = Unbound \/ (Fresh /\ binding'.by = q)
    PROVE  Beliefs'
<1>1. \A b \in Remembered' : b \in Remembered \/ b = Unbound \/ (b = binding' /\ Fresh)
    BY DEF Remembered
<1>2. \A b \in Bindings : b.version = 0 <=> b = Unbound
    BY BindingFacts
<1>3. Remembered \subseteq Bindings /\ Remembered' \subseteq Bindings
    BY RememberedTypes DEF StickyTypeOK, Remembered
<1>4. \A o \in late : o.version # 0 /\ o.by \in Requests
    BY OpFacts DEF StickyTypeOK, StickyAssumption
<1>5. binding \in Remembered /\ \A q \in Requests : seen[q] \in Remembered /\ bound[q] \in Remembered
    BY DEF Remembered
<1>6. VersionsName'
  <2>1. SUFFICES ASSUME NEW a \in Remembered', NEW b \in Remembered', a.version = b.version
                 PROVE a = b
    BY DEF VersionsName
  <2>2. CASE a = Unbound \/ b = Unbound
    BY <1>2, <1>3, <2>1, <2>2
  <2>3. CASE a \in Remembered /\ b \in Remembered
    BY <2>1, <2>3 DEF Beliefs, VersionsName
  <2>4. CASE a = binding' /\ Fresh
    BY <1>1, <2>1, <2>2, <2>4 DEF Fresh
  <2>5. CASE b = binding' /\ Fresh
    BY <1>1, <2>1, <2>2, <2>5 DEF Fresh
  <2> QED BY <1>1, <2>2, <2>3, <2>4, <2>5
<1>7. LateBindsAreNew'
  <2>1. ASSUME NEW o \in late', o.kind = "bind"
        PROVE  /\ \A b \in Remembered' : b.version # o.version
               /\ \A p \in late' : p.version = o.version => p = o
    <3>1. o \in late /\ o.version # 0 /\ Unbound.version = 0
        BY <1>4, <2>1 DEF Unbound
    <3>2. /\ \A b \in Remembered : b.version # o.version
          /\ \A p \in late : p.version = o.version => p = o
        BY <2>1, <3>1 DEF Beliefs, LateBindsAreNew
    <3>3. Fresh => binding'.version # o.version
        BY DEF Fresh
    <3> QED BY <1>1, <3>1, <3>2, <3>3
  <2> QED BY <2>1 DEF LateBindsAreNew
<1>8. OwnBeliefs'
  <2>1. ASSUME NEW q \in Requests, bound'[q] # Unbound
        PROVE  bound'[q] = seen'[q] \/ bound'[q].by = q
    <3>1. CASE bound'[q] = bound[q]
        BY <2>1, <3>1 DEF Beliefs, OwnBeliefs
    <3>2. CASE bound'[q] # bound[q]
        BY <2>1, <3>2
    <3> QED BY <3>1, <3>2
  <2> QED BY <2>1 DEF OwnBeliefs
<1>9. LateWritesAreTheirs'
  <2>1. ASSUME NEW o \in late', o.kind # "bind", NEW b \in Remembered', b.version = o.version
        PROVE  b = seen'[o.by] \/ b.by = o.by
    <3>1. o \in late /\ o.version # 0 /\ Unbound.version = 0
        BY <1>4, <2>1 DEF Unbound
    <3>2. b # Unbound
        BY <2>1, <3>1
    <3>3. Fresh => binding'.version # o.version
        BY DEF Fresh
    <3>4. b \in Remembered
        BY <1>1, <2>1, <3>2, <3>3
    <3> QED BY <2>1, <3>1, <3>4 DEF Beliefs, LateWritesAreTheirs
  <2> QED BY <2>1 DEF LateWritesAreTheirs
<1>10. WritersWentOn'
  <2>1. ASSUME NEW q \in Requests, pc'[q] = "new" PROVE seen'[q] = Unbound /\ bound'[q] = Unbound
    <3>1. pc[q] = "new"
        BY <2>1 DEF GoesOn
    <3>2. seen[q] = Unbound /\ bound[q] = Unbound
        BY <3>1 DEF Beliefs, WritersWentOn
    <3> QED BY <2>1, <3>1, <3>2
  <2>2. ASSUME NEW o \in late'
        PROVE  /\ pc'[o.by] # "new"
               /\ o.kind # "clear" => pc'[o.by] = "done" /\ answer'[o.by] = o.channel
    <3>1. o \in late /\ o.by \in Requests
        BY <1>4, <2>2
    <3>2. /\ pc[o.by] # "new"
          /\ o.kind # "clear" => pc[o.by] = "done" /\ answer[o.by] = o.channel
        BY <3>1 DEF Beliefs, WritersWentOn
    <3> QED BY <3>1, <3>2 DEF GoesOn
  <2> QED BY <2>1, <2>2 DEF WritersWentOn
<1>11. ClearedStaysCleared'
  <2>1. ASSUME NEW q \in Requests, seen'[q] # Unbound, bound'[q] # seen'[q]
        PROVE  binding' # seen'[q]
    <3>1. CASE binding' = Unbound
        BY <2>1, <3>1
    <3>2. CASE Fresh
        BY <1>5, <3>2 DEF Fresh
    <3>3. CASE binding' = binding /\ binding' # Unbound /\ ~Fresh
      <4>1. bound'[q] = bound[q]
        BY <3>3
      <4> QED BY <2>1, <3>3, <4>1 DEF Beliefs, ClearedStaysCleared
    <3> QED BY <3>1, <3>2, <3>3
  <2> QED BY <2>1 DEF ClearedStaysCleared
<1>12. IsFiniteSet(late')
    BY FS_Subset DEF Beliefs
<1> QED BY <1>6, <1>7, <1>8, <1>9, <1>10, <1>11, <1>12 DEF Beliefs

\* A write of request r is left behind.
LEMMA WriteLeft ==
    ASSUME Hypotheses, StickyTypeOK, Beliefs, GoesOn,
           UNCHANGED <<store, seen, bound>>,
           NEW r \in Requests, NEW op \in Ops, pc[r] # "new", OpFits(r, op), late' = late \cup {op}
    PROVE  Beliefs'
<1>0. IsFiniteSet(late)
    BY DEF Beliefs
<1>1. /\ newBindingVersion \in Versions
      /\ \A b \in Remembered : b.version # newBindingVersion
      /\ \A o \in late : o.version # newBindingVersion
    BY <1>0, NewVersion
<1>2. /\ Remembered' = Remembered /\ binding' = binding /\ seen' = seen /\ bound' = bound
      /\ bound[r] \in Remembered /\ op.by = r
    BY DEF Remembered, store, OpFits
<1>3. /\ op.kind = "bind" => op.version = newBindingVersion
      /\ op.kind # "bind" => bound[r] # Unbound /\ op.version = bound[r].version
      /\ op.kind # "clear" => pc'[r] = "done" /\ answer'[r] = op.channel
    BY DEF OpFits
<1>4. VersionsName' /\ OwnBeliefs' /\ ClearedStaysCleared'
    BY <1>2 DEF Beliefs, VersionsName, OwnBeliefs, ClearedStaysCleared
<1>5. LateBindsAreNew'
  <2>1. ASSUME NEW o \in late', o.kind = "bind"
        PROVE  /\ \A b \in Remembered : b.version # o.version
               /\ \A p \in late' : p.version = o.version => p = o
    <3>1. CASE o = op
        BY <1>1, <1>3, <2>1, <3>1
    <3>2. CASE o \in late
      <4>1. /\ \A b \in Remembered : b.version # o.version
            /\ \A p \in late : p.version = o.version => p = o
        BY <2>1, <3>2 DEF Beliefs, LateBindsAreNew
      <4>2. op.version # o.version
        BY <1>1, <1>2, <1>3, <3>2, <4>1
      <4> QED BY <4>1, <4>2
    <3> QED BY <2>1, <3>1, <3>2
  <2> QED BY <1>2, <2>1 DEF LateBindsAreNew
<1>6. LateWritesAreTheirs'
  <2>1. ASSUME NEW o \in late', o.kind # "bind", NEW b \in Remembered, b.version = o.version
        PROVE  b = seen[o.by] \/ b.by = o.by
    <3>1. CASE o = op
      <4>1. b = bound[r] /\ bound[r] # Unbound
        BY <1>2, <1>3, <2>1, <3>1 DEF Beliefs, VersionsName
      <4> QED BY <1>2, <3>1, <4>1 DEF Beliefs, OwnBeliefs
    <3>2. CASE o \in late
        BY <2>1, <3>2 DEF Beliefs, LateWritesAreTheirs
    <3> QED BY <2>1, <3>1, <3>2
  <2> QED BY <1>2, <2>1 DEF LateWritesAreTheirs
<1>7. WritersWentOn'
  <2>1. ASSUME NEW q \in Requests, pc'[q] = "new" PROVE seen[q] = Unbound /\ bound[q] = Unbound
    BY <2>1 DEF GoesOn, Beliefs, WritersWentOn
  <2>2. ASSUME NEW o \in late'
        PROVE  /\ pc'[o.by] # "new"
               /\ o.kind # "clear" => pc'[o.by] = "done" /\ answer'[o.by] = o.channel
    <3>1. CASE o = op
        BY <1>2, <1>3, <3>1 DEF GoesOn
    <3>2. CASE o \in late
      <4>1. o.by \in Requests
        BY <3>2, OpFacts DEF StickyTypeOK
      <4> QED BY <3>2, <4>1 DEF GoesOn, Beliefs, WritersWentOn
    <3> QED BY <2>2, <3>1, <3>2
  <2> QED BY <1>2, <2>1, <2>2 DEF WritersWentOn
<1>8. IsFiniteSet(late')
    BY <1>0, FS_AddElement
<1> QED BY <1>4, <1>5, <1>6, <1>7, <1>8 DEF Beliefs

\* A request finds what is there, or nothing.
LEMMA LookFinds ==
    ASSUME StickyTypeOK, Beliefs, GoesOn, NEW r \in Requests, Looks(r)
    PROVE  Beliefs'
<1>1. /\ pc[r] = "new" /\ pc'[r] # "new" /\ binding' = binding /\ late' = late
      /\ \/ /\ seen' = [seen EXCEPT ![r] = binding] /\ bound' = [bound EXCEPT ![r] = binding]
         \/ seen' = seen /\ bound' = bound
    BY DEF Looks, Lookup, store
<1>t. seen \in [Requests -> Bindings] /\ bound \in [Requests -> Bindings]
    BY DEF StickyTypeOK
<1>2. /\ \A q \in Requests \ {r} : seen'[q] = seen[q] /\ bound'[q] = bound[q]
      /\ (seen'[r] = binding /\ bound'[r] = binding) \/ (seen' = seen /\ bound' = bound)
    BY <1>1, <1>t
<1>3. seen[r] = Unbound /\ bound[r] = Unbound
    BY <1>1 DEF Beliefs, WritersWentOn
<1>4. \A o \in late : o.by \in Requests \ {r}
    BY <1>1, OpFacts DEF Beliefs, WritersWentOn, StickyTypeOK
<1>5. \A b \in Remembered' : b \in Remembered
    BY <1>1, <1>2 DEF Remembered
<1>6. VersionsName'
    BY <1>5 DEF Beliefs, VersionsName
<1>7. LateBindsAreNew'
    BY <1>1, <1>5 DEF Beliefs, LateBindsAreNew
<1>8. OwnBeliefs'
    BY <1>2, <1>3 DEF Beliefs, OwnBeliefs
<1>9. LateWritesAreTheirs'
    BY <1>1, <1>2, <1>4, <1>5 DEF Beliefs, LateWritesAreTheirs
<1>10. WritersWentOn'
  <2>1. ASSUME NEW q \in Requests, pc'[q] = "new" PROVE seen'[q] = Unbound /\ bound'[q] = Unbound
    <3>1. pc[q] = "new" /\ q # r
        BY <1>1, <2>1 DEF GoesOn
    <3>2. seen[q] = Unbound /\ bound[q] = Unbound
        BY <3>1 DEF Beliefs, WritersWentOn
    <3> QED BY <1>2, <3>1, <3>2
  <2>2. ASSUME NEW o \in late'
        PROVE  /\ pc'[o.by] # "new"
               /\ o.kind # "clear" => pc'[o.by] = "done" /\ answer'[o.by] = o.channel
    BY <1>1, <1>4, <2>2 DEF GoesOn, Beliefs, WritersWentOn
  <2> QED BY <2>1, <2>2 DEF WritersWentOn
<1>11. ClearedStaysCleared'
    BY <1>1, <1>2, <1>3 DEF Beliefs, ClearedStaysCleared
<1> QED BY <1>1, <1>6, <1>7, <1>8, <1>9, <1>10, <1>11 DEF Beliefs

\* What a write that runs now makes of the binding.
LEMMA WriteRuns ==
    ASSUME Hypotheses, StickyTypeOK, Beliefs, NEW r \in Requests, NEW op \in Ops,
           OpFits(r, op), RunOp(op), late' = late
    PROVE  /\ binding' = binding \/ binding' = Unbound \/ Fresh
           /\ Applies(op) => \/ op.kind = "bind" /\ Fresh /\ binding'.by = r
                             \/ op.kind = "refresh" /\ binding' = binding /\ binding = bound[r]
                             \/ op.kind = "clear" /\ binding' = Unbound /\ binding = bound[r]
           /\ ~Applies(op) => UNCHANGED store
<1>0. IsFiniteSet(late) /\ StickyAssumption
    BY DEF Beliefs, Hypotheses
<1>1. /\ ~Applies(op) => UNCHANGED store
      /\ Applies(op) /\ op.kind = "bind" => binding'.version = op.version
      /\ Applies(op) /\ op.kind # "bind" =>
           /\ binding # Unbound /\ binding.version = op.version
           /\ binding' = IF op.kind = "clear" THEN Unbound ELSE binding
    BY <1>0, RunOpRan
<1>2. /\ op.kind \in {"bind", "refresh", "clear"} /\ op.by = r
      /\ op.kind = "bind" => op.version = newBindingVersion
      /\ op.kind # "bind" => op.version = bound[r].version
    BY OpFacts DEF OpFits
<1>3. CASE ~Applies(op)
    BY <1>1, <1>3 DEF store
<1>4. CASE Applies(op) /\ op.kind = "bind"
  <2>1. Fresh
    BY <1>0, <1>1, <1>2, <1>4, NewVersion DEF Fresh
  <2>2. binding'.by = r
    BY <1>2, <1>4 DEF RunOp, Applies
  <2> QED BY <1>4, <2>1, <2>2
<1>5. CASE Applies(op) /\ op.kind # "bind"
  <2>1. binding \in Remembered /\ bound[r] \in Remembered
    BY DEF Remembered
  <2>2. binding = bound[r]
    BY <1>1, <1>2, <1>5, <2>1 DEF Beliefs, VersionsName
  <2> QED BY <1>1, <1>2, <1>5, <2>2
<1> QED BY <1>3, <1>4, <1>5

LEMMA BeliefsStep ==
    ASSUME Hypotheses, StickyTypeOK, Beliefs, StickyStep, GoesOn
    PROVE  StickyTypeOK' /\ Beliefs'
<1>a. StickyAssumption
    BY DEF Hypotheses
<1>t. StickyTypeOK'
    BY <1>a, StickyTypes
<1>f. bound \in [Requests -> Bindings] /\ late \subseteq Ops
    BY DEF StickyTypeOK
<1>1. ASSUME NEW r \in Requests, Looks(r) PROVE Beliefs'
    BY <1>1, LookFinds
<1>2. ASSUME NEW r \in Requests, NEW op \in Ops, Writes(r, op) PROVE Beliefs'
  <2>0. pc[r] # "new" /\ OpFits(r, op) /\ seen' = seen
    BY <1>2 DEF Writes, Write
  <2>1. CASE /\ RunOp(op) /\ UNCHANGED <<late, faults>>
             /\ bound' = IF Applies(op) THEN [bound EXCEPT ![r] = binding'] ELSE bound
    <3>0. late' = late
        BY <2>1
    <3>1. /\ binding' = binding \/ binding' = Unbound \/ Fresh
          /\ Applies(op) => \/ op.kind = "bind" /\ Fresh /\ binding'.by = r
                            \/ op.kind = "refresh" /\ binding' = binding /\ binding = bound[r]
                            \/ op.kind = "clear" /\ binding' = Unbound /\ binding = bound[r]
        BY <2>0, <2>1, <3>0, WriteRuns
    <3>2. ASSUME NEW q \in Requests, bound'[q] # bound[q]
          PROVE  /\ pc[q] # "new" /\ bound'[q] = binding'
                 /\ binding' = Unbound \/ (Fresh /\ binding'.by = q)
      <4>1. Applies(op) /\ q = r /\ bound'[q] = binding'
        BY <1>f, <2>1, <3>2
      <4> QED BY <2>0, <3>1, <3>2, <4>1
    <3> QED BY <1>a, <1>t, <2>0, <3>0, <3>1, <3>2, StoreMoves
  <2>2. CASE RunOp(op) /\ UNCHANGED <<late, bound>>
    <3>0. late' = late /\ bound' = bound
        BY <2>2
    <3>1. binding' = binding \/ binding' = Unbound \/ Fresh
        BY <2>0, <2>2, <3>0, WriteRuns
    <3> QED BY <1>a, <1>t, <2>0, <3>0, <3>1, StoreMoves
  <2>3. CASE late' = late \cup {op} /\ UNCHANGED <<store, bound>>
    BY <2>0, <2>3, WriteLeft
  <2>4. CASE UNCHANGED <<store, late, bound>>
    <3>0. late' = late /\ bound' = bound /\ binding' = binding
        BY <2>4 DEF store
    <3> QED BY <1>a, <1>t, <2>0, <3>0, StoreMoves
  <2> QED BY <1>2, <2>1, <2>2, <2>3, <2>4 DEF Writes, Write
<1>3. CASE RunLate
  <2>1. PICK op \in late : RunOp(op) /\ late' = late \ {op} /\ UNCHANGED <<seen, bound, faults>>
    BY <1>3 DEF RunLate
  <2>2. op \in Ops /\ op.kind \in {"bind", "refresh", "clear"}
    BY <1>f, OpFacts
  <2>3. /\ ~Applies(op) => UNCHANGED store
        /\ Applies(op) /\ op.kind = "bind" => binding'.version = op.version
        /\ Applies(op) /\ op.kind # "bind" =>
              binding' = IF op.kind = "clear" THEN Unbound ELSE binding
    BY <1>a, <2>1, <2>2, RunOpRan
  <2>4. binding' = binding \/ binding' = Unbound \/ Fresh
    <3>1. CASE Applies(op) /\ op.kind = "bind"
      <4>1. /\ \A b \in Remembered : b.version # op.version
            /\ \A p \in late : p.version = op.version => p = op
        BY <3>1 DEF Beliefs, LateBindsAreNew
      <4> QED BY <2>1, <2>3, <3>1, <4>1 DEF Fresh
    <3> QED BY <2>2, <2>3, <3>1 DEF store
  <2> QED BY <1>a, <1>t, <2>1, <2>4, StoreMoves
<1>4. CASE Age
  <2>1. late' = late /\ bound' = bound /\ seen' = seen /\ (binding' = binding \/ binding' = Unbound)
    BY <1>4 DEF Age
  <2> QED BY <1>a, <1>t, <2>1, StoreMoves
<1>5. CASE UNCHANGED sticky
  <2>1. late' = late /\ bound' = bound /\ seen' = seen /\ binding' = binding
    BY <1>5 DEF sticky
  <2> QED BY <1>a, <1>t, <2>1, StoreMoves
<1> QED BY <1>t, <1>1, <1>2, <1>3, <1>4, <1>5 DEF StickyStep
-----------------------------------------------------------------------------
(* The writes the steps of the loop make.                                  *)

LEMMA ClearWrites ==
    ASSUME StickyAssumption, StickyTypeOK, NEW r \in Requests, pc[r] # "new", Moves(r),
           clearIfCurrent(r)
    PROVE  UNCHANGED sticky \/ \E op \in Ops : Writes(r, op)
<1>1. CASE bound[r] = Unbound
    BY <1>1 DEF clearIfCurrent
<1>2. CASE bound[r] # Unbound
  <2> DEFINE op == Op("clear", r, bound[r].channel, bound[r].version)
  <2>1. bound[r].channel \in Channels /\ bound[r].version \in Versions
    BY <1>2, BindingFacts DEF StickyTypeOK
  <2>2. op \in Ops
    BY <2>1 DEF Ops, Op
  <2>3. OpFits(r, op)
    BY <1>2 DEF OpFits, Op
  <2>4. Write(r, op)
    BY <1>2 DEF clearIfCurrent
  <2> HIDE DEF op
  <2> QED BY <2>2, <2>3, <2>4 DEF Writes
<1> QED BY <1>1, <1>2

LEMMA ClearIfBoundWrites ==
    ASSUME StickyAssumption, StickyTypeOK, NEW r \in Requests, NEW c, pc[r] # "new", Moves(r),
           ClearIfBound(r, c)
    PROVE  UNCHANGED sticky \/ \E op \in Ops : Writes(r, op)
    BY ClearWrites DEF ClearIfBound

LEMMA BindWrites ==
    ASSUME Hypotheses, StickyTypeOK, IsFiniteSet(late), NEW r \in Requests, NEW c \in Channels,
           NEW enabled \in BOOLEAN, pc[r] # "new", Moves(r), pc'[r] = "done", answer'[r] = c,
           BindSuccess(r, c, enabled)
    PROVE  UNCHANGED sticky \/ \E op \in Ops : Writes(r, op)
<1>0. StickyAssumption /\ newBindingVersion \in Versions
    BY NewVersion DEF Hypotheses
<1>1. CASE ~enabled
    BY <1>0, <1>1, ClearWrites DEF BindSuccess
<1>2. CASE enabled /\ bound[r] = Unbound
  <2> DEFINE op == Op("bind", r, c, newBindingVersion)
  <2>1. op \in Ops
    BY <1>0 DEF Ops, Op
  <2>2. OpFits(r, op)
    BY <1>2 DEF OpFits, Op
  <2>3. bound[r].channel # c
    BY <1>0, <1>2 DEF Unbound, StickyAssumption
  <2>4. Write(r, op)
    BY <1>2, <2>3 DEF BindSuccess
  <2> HIDE DEF op
  <2> QED BY <2>1, <2>2, <2>4 DEF Writes
<1>3. CASE enabled /\ bound[r] # Unbound /\ bound[r].channel = c
  <2> DEFINE op == Op("refresh", r, c, bound[r].version)
  <2>1. bound[r].version \in Versions
    BY <1>0, <1>3, BindingFacts DEF StickyTypeOK
  <2>2. op \in Ops
    BY <2>1 DEF Ops, Op
  <2>3. OpFits(r, op)
    BY <1>3 DEF OpFits, Op
  <2>4. Write(r, op)
    BY <1>3 DEF BindSuccess
  <2> HIDE DEF op
  <2> QED BY <2>2, <2>3, <2>4 DEF Writes
<1>4. CASE enabled /\ bound[r] # Unbound /\ bound[r].channel # c
    BY <1>4 DEF BindSuccess
<1> QED BY <1>1, <1>2, <1>3, <1>4

-----------------------------------------------------------------------------
(* What a scan has left of the plan.                                       *)

LEMMA SuffixFacts ==
    ASSUME NEW S, NEW s \in Seq(S), NEW t \in Seq(S)
    PROVE  IsSuffix(s, t) <=>
             Len(s) <= Len(t) /\ \A i \in 1 .. Len(s) : s[i] = t[Len(t) - Len(s) + i]
<1> DEFINE a == Reverse(s)
           b == Reverse(t)
           n == Len(s)
           m == Len(t)
<1>1. n \in Nat /\ m \in Nat /\ s \in [1 .. n -> S] /\ t \in [1 .. m -> S]
    OBVIOUS
<1>2. /\ a \in Seq(S) /\ Len(a) = n /\ \A i \in 1 .. n : a[i] = s[n - i + 1]
      /\ b \in Seq(S) /\ Len(b) = m /\ \A i \in 1 .. m : b[i] = t[m - i + 1]
    BY <1>1 DEF Reverse
<1>3. IsSuffix(s, t) <=> n <= m /\ SubSeq(a, 1, n) = SubSeq(b, 1, n)
    BY <1>2 DEF IsSuffix, IsPrefix
<1> HIDE DEF a, b
<1>4. n <= m => (SubSeq(a, 1, n) = SubSeq(b, 1, n) <=> \A i \in 1 .. n : a[i] = b[i])
  <2>1. SUFFICES ASSUME n <= m
                 PROVE  SubSeq(a, 1, n) = SubSeq(b, 1, n) <=> \A i \in 1 .. n : a[i] = b[i]
    OBVIOUS
  <2>2. SubSeq(a, 1, n) = [i \in 1 .. n |-> a[i]] /\ SubSeq(b, 1, n) = [i \in 1 .. n |-> b[i]]
    BY <1>1, <1>2, <2>1
  <2> QED BY <2>2
<1>5. n <= m => ((\A i \in 1 .. n : a[i] = b[i]) <=> \A i \in 1 .. n : s[i] = t[m - n + i])
  <2>1. SUFFICES ASSUME n <= m
                 PROVE  (\A i \in 1 .. n : a[i] = b[i]) <=> \A i \in 1 .. n : s[i] = t[m - n + i]
    OBVIOUS
  <2>2. ASSUME \A i \in 1 .. n : a[i] = b[i], NEW j \in 1 .. n PROVE s[j] = t[m - n + j]
    <3>1. n - j + 1 \in 1 .. n /\ n - (n - j + 1) + 1 = j /\ m - (n - j + 1) + 1 = m - n + j
        BY <1>1
    <3>2. a[n - j + 1] = b[n - j + 1] /\ n - j + 1 \in 1 .. m
        BY <1>1, <2>1, <2>2, <3>1
    <3> QED BY <1>2, <3>1, <3>2
  <2>3. ASSUME \A i \in 1 .. n : s[i] = t[m - n + i], NEW j \in 1 .. n PROVE a[j] = b[j]
    <3>1. n - j + 1 \in 1 .. n /\ m - n + (n - j + 1) = m - j + 1 /\ j \in 1 .. m
        BY <1>1, <2>1
    <3>2. s[n - j + 1] = t[m - n + (n - j + 1)]
        BY <2>3, <3>1
    <3> QED BY <1>2, <3>1, <3>2
  <2> QED BY <2>2, <2>3
<1> QED BY <1>3, <1>4, <1>5

LEMMA SuffixSelf ==
    ASSUME NEW s \in Seq(Channels) PROVE IsSuffix(s, s)
    BY SuffixFacts

\* Passing a candidate leaves a suffix of the plan.
LEMMA PassOne ==
    ASSUME NEW u \in Runs, InPlan(u), u.left # <<>>
    PROVE  /\ Head(u.left) \in Channels /\ Tail(u.left) \in Seq(Channels) /\ Tail(u.left) # u.left
           /\ IsSuffix(Tail(u.left), u.cands)
<1>1. u.left \in Seq(Channels) /\ u.cands \in Seq(Channels)
    BY DEF Runs
<1> DEFINE s == u.left
           t == u.cands
           w == Tail(u.left)
<1>2. /\ Len(s) <= Len(t) /\ \A i \in 1 .. Len(s) : s[i] = t[Len(t) - Len(s) + i]
    BY <1>1, SuffixFacts DEF InPlan
<1>3. Len(s) \in Nat \ {0} /\ Len(t) \in Nat
    BY <1>1
<1>4. /\ w \in Seq(Channels) /\ Len(w) = Len(s) - 1
      /\ \A i \in 1 .. Len(w) : w[i] = s[i + 1]
      /\ Head(s) \in Channels
    BY <1>1, <1>3
<1>5. \A i \in 1 .. Len(w) : w[i] = t[Len(t) - Len(w) + i]
  <2>1. SUFFICES ASSUME NEW i \in 1 .. Len(w) PROVE w[i] = t[Len(t) - Len(w) + i]
    OBVIOUS
  <2> HIDE DEF w, s, t
  <2>2. i + 1 \in 1 .. Len(s) /\ Len(t) - Len(s) + (i + 1) = Len(t) - Len(w) + i
    BY <1>3, <1>4
  <2>3. w[i] = s[i + 1]
    BY <1>4
  <2> QED BY <1>2, <2>2, <2>3
<1>6. Len(w) <= Len(t) /\ w # s
  <2> HIDE DEF w, s, t
  <2> QED BY <1>2, <1>3, <1>4
<1>7. IsSuffix(w, t)
  <2> HIDE DEF w, s, t
  <2>1. t \in Seq(Channels)
    BY <1>1 DEF t
  <2> QED BY <1>4, <1>5, <1>6, <2>1, SuffixFacts
<1> QED BY <1>4, <1>6, <1>7
-----------------------------------------------------------------------------
(* The steps of the loop.                                                  *)

\* The types of what is not sticky.
RunnerTypes ==
    /\ pc \in [Requests -> Places]
    /\ run \in [Requests -> Runs] /\ \A r \in Requests : InPlan(run[r])
    /\ result \in [Requests -> Results]
    /\ answer \in [Requests -> Answers]
    /\ permits \in [Channels -> SUBSET Requests]
    /\ health \in [Channels -> Healths] /\ turns \in 0 .. MaxTurns

\* What every step of a request keeps and does.
Follows == RunnerTypes' /\ InHand' /\ PermitsAreCalls' /\ GoesOn /\ StickyStep

LEMMA RunFields ==
    ASSUME NEW u \in Runs
    PROVE  /\ \A s \in Seq(Channels) : [u EXCEPT !.left = s] \in Runs
           /\ \A s \in Seq(Channels) : [u EXCEPT !.cands = s] \in Runs
           /\ \A p \in SUBSET Channels : [u EXCEPT !.sticks = p] \in Runs
           /\ \A n \in 0 .. 1 : [u EXCEPT !.pass = n] \in Runs
           /\ \A d \in SUBSET {"full", "open", "cooldown", "paused"} : [u EXCEPT !.denials = d] \in Runs
           /\ \A k \in [Channels -> 0 .. 2] : [u EXCEPT !.calls = k] \in Runs
           /\ [u EXCEPT !.failed = TRUE] \in Runs
           /\ u.left \in Seq(Channels) /\ u.cands \in Seq(Channels)
           /\ u.denials \subseteq {"full", "open", "cooldown", "paused"}
           /\ u.calls \in [Channels -> 0 .. 2]
    BY DEF Runs

LEMMA EmptyRunFits ==
    EmptyRun \in Runs /\ InPlan(EmptyRun) /\ EmptyRun.left = <<>>
<1>1. EmptyRun \in Runs /\ EmptyRun.left = <<>> /\ EmptyRun.cands = <<>>
    BY DEF EmptyRun, Runs
<1>2. IsSuffix(<<>>, <<>>)
  <2>1. <<>> \in Seq(Channels)
    OBVIOUS
  <2> QED BY <2>1, SuffixSelf
<1>3. IsInjective(<<>>)
    BY DEF IsInjective
<1> QED BY <1>1, <1>2, <1>3 DEF InPlan

\* A request goes to place w with loop state u and result x: its candidate, its slot.
Holds(w, u, x) ==
    /\ w \in {"attempt", "judge", "replay"} => u.left # <<>> /\ u.calls[Head(u.left)] \in 1 .. 2
    /\ w = "replay" \/ (w = "judge" /\ x = "replay") => u.calls[Head(u.left)] = 1

Slots(r, w, u) ==
    /\ permits' \in [Channels -> SUBSET Requests]
    /\ \A c \in Channels :
          permits'[c] = IF w = "attempt" /\ Head(u.left) = c THEN permits[c] \cup {r}
                        ELSE permits[c] \ {r}

\* A request moves to w with loop state u, result x and answer y.
LEMMA Moved ==
    ASSUME RunnerTypes, InHand, PermitsAreCalls, NEW r \in Requests, NEW w \in Places,
           NEW u \in Runs, InPlan(u), NEW x \in Results, NEW y \in Answers,
           pc' = [pc EXCEPT ![r] = w], run' = [run EXCEPT ![r] = u],
           result' = [result EXCEPT ![r] = x], answer' = [answer EXCEPT ![r] = y],
           UNCHANGED weather, pc[r] # "done", w # "new", Holds(w, u, x), Slots(r, w, u)
    PROVE  RunnerTypes' /\ InHand' /\ PermitsAreCalls' /\ GoesOn /\ Alone(r)
<1>1. /\ pc \in [Requests -> Places] /\ run \in [Requests -> Runs]
      /\ result \in [Requests -> Results] /\ answer \in [Requests -> Answers]
      /\ \A q \in Requests : InPlan(run[q])
      /\ health \in [Channels -> Healths] /\ turns \in 0 .. MaxTurns
      /\ health' = health /\ turns' = turns
    BY DEF RunnerTypes, weather
<1>2. /\ pc'[r] = w /\ run'[r] = u /\ result'[r] = x /\ answer'[r] = y
      /\ \A q \in Requests \ {r} : /\ pc'[q] = pc[q] /\ run'[q] = run[q]
                                   /\ result'[q] = result[q] /\ answer'[q] = answer[q]
    BY <1>1
<1>3. RunnerTypes'
  <2>0. permits' \in [Channels -> SUBSET Requests]
    BY DEF Slots
  <2>1. /\ pc' \in [Requests -> Places] /\ run' \in [Requests -> Runs]
        /\ result' \in [Requests -> Results] /\ answer' \in [Requests -> Answers]
    BY <1>1
  <2>2. \A q \in Requests : InPlan(run'[q])
    BY <1>1, <1>2
  <2> QED BY <1>1, <2>0, <2>1, <2>2 DEF RunnerTypes
<1>4. InHand'
    BY <1>2 DEF InHand, Channel, Holds
<1>5. PermitsAreCalls'
  <2>1. SUFFICES ASSUME NEW c \in Channels
                 PROVE  permits'[c] = {q \in Requests : pc'[q] = "attempt" /\ Head(run'[q].left) = c}
    BY DEF PermitsAreCalls, Channel
  <2>2. permits[c] = {q \in Requests : pc[q] = "attempt" /\ Head(run[q].left) = c}
    BY DEF PermitsAreCalls, Channel
  <2>3. permits'[c] = IF w = "attempt" /\ Head(u.left) = c THEN permits[c] \cup {r}
                      ELSE permits[c] \ {r}
    BY DEF Slots
  <2>4. ASSUME NEW q \in Requests
        PROVE  q \in permits'[c] <=> pc'[q] = "attempt" /\ Head(run'[q].left) = c
    <3>1. CASE q = r
        BY <1>2, <2>3, <3>1
    <3>2. CASE q # r
        BY <1>2, <2>2, <2>3, <3>2
    <3> QED BY <3>1, <3>2
  <2>5. permits'[c] \subseteq Requests
    BY <2>2, <2>3
  <2> QED BY <2>4, <2>5
<1>6. GoesOn
    BY <1>2 DEF GoesOn
<1>7. Alone(r)
    BY <1>2 DEF Alone
<1> QED BY <1>3, <1>4, <1>5, <1>6, <1>7

\* A step neither from nor to a call.
LEMMA MovedWithoutCall ==
    ASSUME RunnerTypes, InHand, PermitsAreCalls, NEW r \in Requests, NEW w \in Places,
           NEW u \in Runs, InPlan(u), NEW x \in Results, NEW y \in Answers,
           pc' = [pc EXCEPT ![r] = w], run' = [run EXCEPT ![r] = u],
           result' = [result EXCEPT ![r] = x], answer' = [answer EXCEPT ![r] = y],
           UNCHANGED <<permits, weather>>, pc[r] \notin {"done", "attempt"},
           w \notin {"new", "attempt", "judge"},
           w = "replay" => u.left # <<>> /\ u.calls[Head(u.left)] = 1
    PROVE  RunnerTypes' /\ InHand' /\ PermitsAreCalls' /\ GoesOn /\ Alone(r)
<1>1. Slots(r, w, u)
  <2>1. \A c \in Channels : permits'[c] = permits[c] \ {r}
    BY DEF PermitsAreCalls
  <2>2. permits' \in [Channels -> SUBSET Requests]
    BY DEF RunnerTypes
  <2> QED BY <2>1, <2>2 DEF Slots
<1>2. Holds(w, u, x)
    BY DEF Holds
<1>3. UNCHANGED weather /\ pc[r] # "done" /\ w # "new"
    OBVIOUS
<1> QED BY <1>1, <1>2, <1>3, Moved

\* What is not assigned stays.
LEMMA Kept ==
    ASSUME RunnerTypes, NEW r \in Requests
    PROVE  /\ run' = run => run' = [run EXCEPT ![r] = run[r]]
           /\ result' = result => result' = [result EXCEPT ![r] = result[r]]
           /\ answer' = answer => answer' = [answer EXCEPT ![r] = answer[r]]
           /\ run[r] \in Runs /\ InPlan(run[r]) /\ result[r] \in Results /\ answer[r] \in Answers
    BY DEF RunnerTypes

\* The request ends without a call in flight.
LEMMA Ends ==
    ASSUME RunnerTypes, InHand, PermitsAreCalls, NEW r \in Requests, NEW x \in Results,
           NEW what \in Answers, Done(r, what), result' = [result EXCEPT ![r] = x],
           UNCHANGED <<permits, weather>>, pc[r] \notin {"done", "attempt"}
    PROVE  RunnerTypes' /\ InHand' /\ PermitsAreCalls' /\ GoesOn /\ Alone(r)
<1>1. /\ pc' = [pc EXCEPT ![r] = "done"] /\ run' = [run EXCEPT ![r] = EmptyRun]
      /\ answer' = [answer EXCEPT ![r] = what] /\ "done" \in Places
    BY DEF Done, Places
<1> DEFINE w == "done"
<1> HIDE DEF w
<1> QED BY <1>1, EmptyRunFits, MovedWithoutCall

LEMMA ResolveFollows ==
    ASSUME Hypotheses, IInv, NEW r \in Requests, Resolve(r) PROVE Follows
<1>0. RunnerTypes /\ InHand /\ PermitsAreCalls
    BY DEF IInv, TypeOK, RunnerTypes
<1>1. pc[r] = "new" /\ Lookup(r) /\ UNCHANGED <<result, permits, weather>>
    BY DEF Resolve
<1>2. PICK p \in Policies :
        /\ run' = [run EXCEPT ![r].sticks = p]
        /\ Go(r, IF bound'[r] # Unbound /\ bound'[r].channel \notin p THEN "policy" ELSE "plan")
    BY DEF Resolve
<1> DEFINE u == [run[r] EXCEPT !.sticks = p]
<1>3. u \in Runs /\ InPlan(u) /\ run' = [run EXCEPT ![r] = u]
  <2>1. run[r] \in Runs /\ InPlan(run[r]) /\ p \subseteq Channels
    BY <1>0, Kept DEF Hypotheses, RunnerAssumption
  <2>2. u \in Runs
    BY <2>1, RunFields
  <2>3. u.cands = run[r].cands /\ u.left = run[r].left
    BY <2>1 DEF Runs
  <2>4. InPlan(u)
    BY <2>1, <2>3 DEF InPlan
  <2>5. run' = [run EXCEPT ![r] = u]
    BY <1>2
  <2> QED BY <2>2, <2>4, <2>5
<1>4. PICK w \in {"policy", "plan"} : pc' = [pc EXCEPT ![r] = w]
    BY <1>2 DEF Go
<1>5. answer' = answer /\ result' = result
    BY <1>1, <1>2 DEF Go
<1> HIDE DEF u
<1>6. RunnerTypes' /\ InHand' /\ PermitsAreCalls' /\ GoesOn /\ Alone(r)
    BY <1>0, <1>1, <1>3, <1>4, <1>5, Kept, MovedWithoutCall DEF Places
<1>7. pc'[r] # "new"
    BY <1>0, <1>4 DEF RunnerTypes
<1> QED BY <1>1, <1>6, <1>7 DEF Follows, StickyStep, Looks

LEMMA ClearDisabledFollows ==
    ASSUME Hypotheses, IInv, NEW r \in Requests, ClearDisabled(r) PROVE Follows
<1>0. RunnerTypes /\ InHand /\ PermitsAreCalls /\ StickyTypeOK /\ StickyAssumption
    BY DEF IInv, TypeOK, RunnerTypes, Hypotheses
<1>1. /\ pc[r] = "policy" /\ clearIfCurrent(r) /\ UNCHANGED <<run, result, permits, weather>>
      /\ pc' = [pc EXCEPT ![r] = "plan"] /\ UNCHANGED answer
    BY DEF ClearDisabled, Go
<1>2. RunnerTypes' /\ InHand' /\ PermitsAreCalls' /\ GoesOn /\ Alone(r)
  <2>1. /\ run[r] \in Runs /\ InPlan(run[r]) /\ result[r] \in Results /\ answer[r] \in Answers
        /\ run' = [run EXCEPT ![r] = run[r]] /\ result' = [result EXCEPT ![r] = result[r]]
        /\ answer' = [answer EXCEPT ![r] = answer[r]]
    BY <1>0, <1>1, Kept
  <2>2. UNCHANGED <<permits, weather>> /\ "plan" \in Places
    BY <1>1 DEF Places
  <2> QED BY <1>0, <1>1, <2>1, <2>2, MovedWithoutCall
<1>3. Moves(r)
    BY <1>0, <1>1 DEF Moves, RunnerTypes
<1>4. UNCHANGED sticky \/ \E op \in Ops : Writes(r, op)
    BY <1>0, <1>1, <1>3, ClearWrites
<1> QED BY <1>2, <1>4 DEF Follows, StickyStep

\* The candidates of a plan are channels, each once.
LEMMA PlanFits ==
    ASSUME NEW usable \in SUBSET Channels, IsFiniteSet(usable), NEW s \in SetToSeqs(usable)
    PROVE  s \in Seq(Channels) /\ IsInjective(s) /\ IsSuffix(s, s)
<1>1. Cardinality(usable) \in Nat
    BY FS_CardinalityType
<1> DEFINE n == Cardinality(usable)
<1>2. s \in [1 .. n -> usable] /\ \A i, j \in 1 .. n : i # j => s[i] # s[j]
    BY DEF SetToSeqs
<1> HIDE DEF n
<1>3. n \in Nat
    BY <1>1 DEF n
<1>4. s \in Seq(Channels)
    BY <1>2, <1>3
<1>5. IsInjective(s)
    BY <1>2 DEF IsInjective
<1> QED BY <1>4, <1>5, SuffixSelf

LEMMA PlanFollows ==
    ASSUME Hypotheses, IInv, NEW r \in Requests, Plan(r) PROVE Follows
<1>0. RunnerTypes /\ InHand /\ PermitsAreCalls /\ StickyTypeOK /\ StickyAssumption
    BY DEF IInv, TypeOK, RunnerTypes, Hypotheses
<1>1. pc[r] = "plan" /\ UNCHANGED <<result, permits, weather>>
    BY DEF Plan
<1> DEFINE b == bound[r].channel
<1>2. PICK pool \in (SUBSET Channels) \ {{}} :
        LET usable == {c \in pool : health[c] = "ok"}
        IN IF usable = {} THEN Done(r, "none") /\ UNCHANGED sticky
           ELSE /\ \E s \in SetToSeqs(usable) :
                     /\ b \in usable => s[1] = b
                     /\ run' = [run EXCEPT ![r].cands = s, ![r].left = s]
                /\ IF b \in usable \/ (b \in pool /\ health[b] = "cooldown")
                   THEN UNCHANGED sticky ELSE clearIfCurrent(r)
                /\ Go(r, "scan")
    BY DEF Plan
<1> DEFINE usable == {c \in pool : health[c] = "ok"}
<1>3. usable \subseteq Channels /\ IsFiniteSet(usable)
    BY FS_Subset DEF Hypotheses
<1>4. CASE usable = {}
  <2>1. Done(r, "none") /\ UNCHANGED sticky
    BY <1>2, <1>4
  <2>2. RunnerTypes' /\ InHand' /\ PermitsAreCalls' /\ GoesOn /\ Alone(r)
    BY <1>0, <1>1, <2>1, Kept, Ends DEF Answers
  <2> QED BY <2>1, <2>2 DEF Follows, StickyStep
<1>5. CASE usable # {}
  <2>1. PICK s \in SetToSeqs(usable) : run' = [run EXCEPT ![r].cands = s, ![r].left = s]
    BY <1>2, <1>5
  <2>2. UNCHANGED sticky \/ clearIfCurrent(r)
    BY <1>2, <1>5
  <2>3. pc' = [pc EXCEPT ![r] = "scan"] /\ UNCHANGED answer
    BY <1>2, <1>5 DEF Go
  <2> HIDE DEF usable
  <2>4. s \in Seq(Channels) /\ IsInjective(s) /\ IsSuffix(s, s)
    BY <1>3, PlanFits
  <2> DEFINE v == [run[r] EXCEPT !.cands = s]
             u == [v EXCEPT !.left = s]
  <2>5. run[r] \in Runs
    BY <1>0, Kept
  <2>6. v \in Runs
    BY <2>4, <2>5, RunFields
  <2>7. u \in Runs
    BY <2>4, <2>6, RunFields
  <2>8. u.cands = s /\ u.left = s
    BY <2>5 DEF Runs
  <2>9. InPlan(u)
    BY <2>4, <2>8 DEF InPlan
  <2>10. run' = [run EXCEPT ![r] = u]
    BY <2>1
  <2> HIDE DEF u, v
  <2>11. RunnerTypes' /\ InHand' /\ PermitsAreCalls' /\ GoesOn /\ Alone(r)
    BY <1>0, <1>1, <2>3, <2>7, <2>9, <2>10, Kept, MovedWithoutCall DEF Places
  <2>12. Moves(r)
    BY <1>0, <1>1, <2>3 DEF Moves, RunnerTypes
  <2>13. UNCHANGED sticky \/ \E op \in Ops : Writes(r, op)
    BY <1>0, <1>1, <2>2, <2>12, ClearWrites
  <2> QED BY <2>11, <2>13 DEF Follows, StickyStep
<1> QED BY <1>4, <1>5

LEMMA AdmittedFollows ==
    ASSUME Hypotheses, IInv, NEW r \in Requests, pc[r] \in {"scan", "replay"}, run[r].left # <<>>,
           ~Attempted(r), Admitted(r), UNCHANGED <<result, weather>>
    PROVE  Follows
<1>0. RunnerTypes /\ InHand /\ PermitsAreCalls
    BY DEF IInv, TypeOK, RunnerTypes
<1> DEFINE c == Channel(r)
           k == [run[r].calls EXCEPT ![c] = @ + 1]
           u == [run[r] EXCEPT !.calls = k]
<1>1. run[r] \in Runs /\ InPlan(run[r])
    BY <1>0, Kept
<1>2. c \in Channels /\ run[r].calls \in [Channels -> 0 .. 2]
    BY <1>1, PassOne, RunFields DEF Channel
<1>3. run[r].calls[c] \in 0 .. 1
    BY <1>0, <1>2 DEF Attempted, InHand
<1>4. k \in [Channels -> 0 .. 2] /\ k[c] \in 1 .. 2
    BY <1>2, <1>3
<1>5. /\ permits' = [permits EXCEPT ![c] = @ \cup {r}]
      /\ run' = [run EXCEPT ![r].calls[c] = @ + 1]
      /\ pc' = [pc EXCEPT ![r] = "attempt"] /\ UNCHANGED answer /\ UNCHANGED sticky
    BY DEF Admitted, Go
<1>6. run' = [run EXCEPT ![r] = u]
    BY <1>5
<1> HIDE DEF k
<1>7. u \in Runs
    BY <1>1, <1>4, RunFields
<1>8. u.left = run[r].left /\ u.cands = run[r].cands /\ u.calls = k
    BY <1>1 DEF Runs
<1> HIDE DEF u
<1>9. InPlan(u)
    BY <1>1, <1>8 DEF InPlan
<1>10. Head(u.left) = c
    BY <1>8 DEF Channel
<1>11. permits \in [Channels -> SUBSET Requests] /\ \A d \in Channels : r \notin permits[d]
    BY <1>0 DEF PermitsAreCalls, RunnerTypes
<1> HIDE DEF c
<1>12. permits' \in [Channels -> SUBSET Requests]
    BY <1>2, <1>5, <1>11
<1>13. Slots(r, "attempt", u)
    BY <1>2, <1>5, <1>10, <1>11, <1>12 DEF Slots
<1>14. Holds("attempt", u, result[r])
    BY <1>4, <1>8, <1>10 DEF Holds
<1>15. /\ result[r] \in Results /\ answer[r] \in Answers /\ "attempt" \in Places
       /\ result' = [result EXCEPT ![r] = result[r]] /\ answer' = [answer EXCEPT ![r] = answer[r]]
    BY <1>0, <1>5, Kept DEF Places
<1>16. UNCHANGED weather /\ pc[r] # "done" /\ "attempt" # "new"
    OBVIOUS
<1>17. RunnerTypes' /\ InHand' /\ PermitsAreCalls' /\ GoesOn /\ Alone(r)
    BY <1>0, <1>5, <1>6, <1>7, <1>9, <1>13, <1>14, <1>15, <1>16, Moved
<1> QED BY <1>5, <1>17 DEF Follows, StickyStep

LEMMA DeniedFollows ==
    ASSUME Hypotheses, IInv, NEW r \in Requests, pc[r] \in {"scan", "replay"}, run[r].left # <<>>,
           Attempted(r) \/ Denial(Channel(r)) # "admitted", Denied(r), UNCHANGED <<result, weather>>
    PROVE  Follows
<1>0. RunnerTypes /\ InHand /\ PermitsAreCalls /\ StickyTypeOK /\ StickyAssumption
    BY DEF IInv, TypeOK, RunnerTypes, Hypotheses
<1> DEFINE denials == IF Attempted(r) THEN {} ELSE {Denial(Channel(r))}
           d == run[r].denials \cup denials
           v == [run[r] EXCEPT !.denials = d]
           u == [v EXCEPT !.left = Tail(run[r].left)]
<1>1. run[r] \in Runs /\ InPlan(run[r])
    BY <1>0, Kept
<1>2. /\ Channel(r) \in Channels /\ Tail(run[r].left) \in Seq(Channels)
      /\ Tail(run[r].left) # run[r].left /\ IsSuffix(Tail(run[r].left), run[r].cands)
    BY <1>1, PassOne DEF Channel
<1>3. /\ run' = [run EXCEPT ![r].denials = @ \cup denials, ![r].left = Tail(@)]
      /\ UNCHANGED sticky \/ ClearIfBound(r, Channel(r))
      /\ pc' = [pc EXCEPT ![r] = "scan"] /\ UNCHANGED answer /\ UNCHANGED permits
    BY DEF Denied, Go
<1>4. denials \subseteq {"full", "open", "cooldown", "paused"}
    BY <1>0, <1>2 DEF Denial, RunnerTypes, Healths
<1> HIDE DEF denials
<1>5. run' = [run EXCEPT ![r] = u]
    BY <1>3
<1>6. d \in SUBSET {"full", "open", "cooldown", "paused"}
    BY <1>1, <1>4, RunFields
<1> HIDE DEF d
<1>7. v \in Runs /\ v.cands = run[r].cands /\ v.left = run[r].left
    BY <1>1, <1>6, RunFields DEF Runs
<1> HIDE DEF v
<1>8. u \in Runs
    BY <1>2, <1>7, RunFields
<1>9. u.cands = run[r].cands /\ u.left = Tail(run[r].left)
    BY <1>7 DEF Runs
<1> HIDE DEF u
<1>10. InPlan(u)
    BY <1>1, <1>2, <1>9 DEF InPlan
<1>11. RunnerTypes' /\ InHand' /\ PermitsAreCalls' /\ GoesOn /\ Alone(r)
  <2>1. /\ result[r] \in Results /\ answer[r] \in Answers /\ "scan" \in Places
        /\ result' = [result EXCEPT ![r] = result[r]] /\ answer' = [answer EXCEPT ![r] = answer[r]]
    BY <1>0, <1>3, Kept DEF Places
  <2>2. UNCHANGED <<permits, weather>>
    BY <1>3
  <2> QED BY <1>0, <1>3, <1>5, <1>8, <1>10, <2>1, <2>2, MovedWithoutCall
<1>12. Moves(r)
  <2>1. run'[r] = u
    BY <1>0, <1>5 DEF RunnerTypes
  <2> QED BY <1>2, <1>9, <2>1 DEF Moves
<1>13. UNCHANGED sticky \/ \E op \in Ops : Writes(r, op)
    BY <1>0, <1>3, <1>12, ClearIfBoundWrites
<1> QED BY <1>11, <1>13 DEF Follows, StickyStep

LEMMA AcquireFollows ==
    ASSUME Hypotheses, IInv, NEW r \in Requests, Acquire(r) PROVE Follows
<1>0. RunnerTypes /\ InHand /\ PermitsAreCalls
    BY DEF IInv, TypeOK, RunnerTypes
<1>1. /\ pc[r] \in {"scan", "replay"} /\ run[r].left # <<>> /\ UNCHANGED <<result, weather>>
      /\ \/ ~Attempted(r) /\ Admitted(r)
         \/ (Attempted(r) \/ Denial(Channel(r)) # "admitted") /\ Denied(r)
         \/ Done(r, "runtime") /\ UNCHANGED <<sticky, permits>>
    BY <1>0 DEF Acquire, InHand
<1>2. CASE ~Attempted(r) /\ Admitted(r)
    BY <1>1, <1>2, AdmittedFollows
<1>3. CASE (Attempted(r) \/ Denial(Channel(r)) # "admitted") /\ Denied(r)
    BY <1>1, <1>3, DeniedFollows
<1>4. CASE Done(r, "runtime") /\ UNCHANGED <<sticky, permits>>
  <2>1. /\ result[r] \in Results /\ result' = [result EXCEPT ![r] = result[r]]
        /\ "runtime" \in Answers /\ UNCHANGED <<permits, weather>>
    BY <1>0, <1>1, <1>4, Kept DEF Answers
  <2>2. RunnerTypes' /\ InHand' /\ PermitsAreCalls' /\ GoesOn /\ Alone(r)
    BY <1>0, <1>1, <1>4, <2>1, Ends
  <2> QED BY <1>4, <2>2 DEF Follows, StickyStep
<1> QED BY <1>1, <1>2, <1>3, <1>4

LEMMA CallEndsFollows ==
    ASSUME Hypotheses, IInv, NEW r \in Requests, CallEnds(r) PROVE Follows
<1>0. RunnerTypes /\ InHand /\ PermitsAreCalls
    BY DEF IInv, TypeOK, RunnerTypes
<1> DEFINE c == Channel(r)
<1>1. PICK res \in Outcomes(r) : result' = [result EXCEPT ![r] = res]
    BY DEF CallEnds
<1>2. /\ pc[r] = "attempt" /\ permits' = [permits EXCEPT ![c] = @ \ {r}]
      /\ pc' = [pc EXCEPT ![r] = "judge"] /\ UNCHANGED answer
      /\ UNCHANGED <<sticky, run, weather>>
    BY DEF CallEnds, Go
<1>3. /\ run[r] \in Runs /\ InPlan(run[r]) /\ answer[r] \in Answers
      /\ run' = [run EXCEPT ![r] = run[r]] /\ answer' = [answer EXCEPT ![r] = answer[r]]
    BY <1>0, <1>2, Kept
<1>4. run[r].left # <<>> /\ run[r].calls[c] \in 1 .. 2
    BY <1>0, <1>2 DEF InHand
<1>5. res \in Results /\ (res = "replay" => run[r].calls[c] = 1)
    BY DEF Outcomes
<1>6. Holds("judge", run[r], res)
    BY <1>4, <1>5 DEF Holds, Channel
<1>7. Slots(r, "judge", run[r])
  <2>1. permits \in [Channels -> SUBSET Requests] /\ \A d \in Channels \ {c} : r \notin permits[d]
    BY <1>0 DEF RunnerTypes, PermitsAreCalls
  <2>2. c \in Channels
    BY <1>3, <1>4, PassOne DEF Channel
  <2> HIDE DEF c
  <2>3. permits' \in [Channels -> SUBSET Requests]
    BY <1>2, <2>1, <2>2
  <2>4. \A d \in Channels : permits'[d] = permits[d] \ {r}
    BY <1>2, <2>1, <2>2
  <2> QED BY <2>3, <2>4 DEF Slots
<1>8. UNCHANGED weather /\ pc[r] # "done" /\ "judge" # "new" /\ "judge" \in Places
    BY <1>2 DEF Places
<1>9. RunnerTypes' /\ InHand' /\ PermitsAreCalls' /\ GoesOn /\ Alone(r)
    BY <1>0, <1>1, <1>2, <1>3, <1>5, <1>6, <1>7, <1>8, Moved
<1> QED BY <1>2, <1>9 DEF Follows, StickyStep

LEMMA JudgeFollows ==
    ASSUME Hypotheses, IInv, NEW r \in Requests, Judge(r) PROVE Follows
<1>0. /\ RunnerTypes /\ InHand /\ PermitsAreCalls /\ StickyTypeOK /\ StickyAssumption
      /\ IsFiniteSet(late)
    BY DEF IInv, TypeOK, RunnerTypes, Hypotheses, Beliefs
<1> DEFINE c == Channel(r)
           enabled == Channel(r) \in run[r].sticks
<1>1. /\ pc[r] = "judge" /\ result' = [result EXCEPT ![r] = "none"] /\ "none" \in Results
      /\ UNCHANGED <<permits, weather>>
    BY DEF Judge, Results
<1>2. /\ result[r] = "success" => BindSuccess(r, c, enabled)
      /\ result[r] # "success" => UNCHANGED sticky \/ ClearIfBound(r, c)
    BY DEF Judge, ClearsBinding
<1>3. /\ run[r] \in Runs /\ InPlan(run[r]) /\ answer[r] \in Answers /\ run[r].left # <<>>
    BY <1>0, <1>1, Kept DEF InHand
<1>4. /\ c \in Channels /\ Tail(run[r].left) \in Seq(Channels) /\ Tail(run[r].left) # run[r].left
      /\ IsSuffix(Tail(run[r].left), run[r].cands)
    BY <1>3, PassOne DEF Channel
<1>5. enabled \in BOOLEAN
    OBVIOUS
<1> HIDE DEF enabled, c
<1>6. CASE Retryable(r)
  <2> DEFINE v == [run[r] EXCEPT !.failed = TRUE]
             u == [v EXCEPT !.left = Tail(run[r].left)]
  <2>1. /\ run' = [run EXCEPT ![r].left = Tail(@), ![r].failed = TRUE]
        /\ pc' = [pc EXCEPT ![r] = "scan"] /\ UNCHANGED answer
    BY <1>6 DEF Judge, Go, Retryable
  <2>2. result[r] # "success"
    BY <1>6 DEF Retryable
  <2>3. run' = [run EXCEPT ![r] = u]
    BY <1>3, <2>1 DEF Runs
  <2>4. v \in Runs /\ v.cands = run[r].cands
    BY <1>3, RunFields DEF Runs
  <2> HIDE DEF v
  <2>5. u \in Runs
    BY <1>4, <2>4, RunFields
  <2>6. u.cands = run[r].cands /\ u.left = Tail(run[r].left)
    BY <2>4 DEF Runs
  <2> HIDE DEF u
  <2>7. InPlan(u)
    BY <1>3, <1>4, <2>6 DEF InPlan
  <2>8. RunnerTypes' /\ InHand' /\ PermitsAreCalls' /\ GoesOn /\ Alone(r)
    <3>1. answer' = [answer EXCEPT ![r] = answer[r]] /\ "scan" \in Places
        BY <1>0, <2>1, Kept DEF Places
    <3> QED BY <1>0, <1>1, <1>3, <2>1, <2>3, <2>5, <2>7, <3>1, MovedWithoutCall
  <2>9. Moves(r)
    BY <1>0, <1>1, <2>1 DEF Moves, RunnerTypes
  <2>10. UNCHANGED sticky \/ \E op \in Ops : Writes(r, op)
    BY <1>0, <1>1, <1>2, <2>2, <2>9, ClearIfBoundWrites
  <2> QED BY <2>8, <2>10 DEF Follows, StickyStep
<1>7. CASE result[r] = "replay"
  <2>1. pc' = [pc EXCEPT ![r] = "replay"] /\ UNCHANGED answer /\ UNCHANGED run
    BY <1>7 DEF Judge, Go, Retryable
  <2>2. UNCHANGED sticky
    BY <1>7 DEF Judge, ClearsBinding
  <2>3. run[r].calls[Head(run[r].left)] = 1
    BY <1>0, <1>1, <1>7 DEF InHand, Channel
  <2>4. RunnerTypes' /\ InHand' /\ PermitsAreCalls' /\ GoesOn /\ Alone(r)
    <3>1. /\ answer' = [answer EXCEPT ![r] = answer[r]] /\ run' = [run EXCEPT ![r] = run[r]]
          /\ "replay" \in Places
        BY <1>0, <2>1, Kept DEF Places
    <3> QED BY <1>0, <1>1, <1>3, <2>1, <2>3, <3>1, MovedWithoutCall
  <2> QED BY <2>2, <2>4 DEF Follows, StickyStep
<1>8. CASE ~Retryable(r) /\ result[r] # "replay"
  <2> DEFINE what == IF result[r] = "success" THEN Channel(r) ELSE "failed"
  <2>1. Done(r, what)
    BY <1>8 DEF Judge
  <2>2. what \in Answers /\ (result[r] = "success" => what = c)
    BY <1>4 DEF Answers, c
  <2> HIDE DEF what
  <2>3. RunnerTypes' /\ InHand' /\ PermitsAreCalls' /\ GoesOn /\ Alone(r)
    BY <1>0, <1>1, <2>1, <2>2, Ends
  <2>4. pc'[r] = "done" /\ answer'[r] = what /\ Moves(r)
    BY <1>0, <1>1, <2>1 DEF Done, Moves, RunnerTypes
  <2>5. UNCHANGED sticky \/ \E op \in Ops : Writes(r, op)
    <3>1. CASE result[r] = "success"
        BY <1>0, <1>1, <1>2, <1>4, <1>5, <2>2, <2>4, <3>1, BindWrites
    <3>2. CASE result[r] # "success"
        BY <1>0, <1>1, <1>2, <2>4, <3>2, ClearIfBoundWrites
    <3> QED BY <3>1, <3>2
  <2> QED BY <2>3, <2>5 DEF Follows, StickyStep
<1> QED BY <1>6, <1>7, <1>8

LEMMA FinalErrorIsAnAnswer ==
    ASSUME NEW r \in Requests PROVE FinalError(r) \in Answers
    BY DEF FinalError, Answers

LEMMA ScanEndsFollows ==
    ASSUME Hypotheses, IInv, NEW r \in Requests, ScanEnds(r) PROVE Follows
<1>0. RunnerTypes /\ InHand /\ PermitsAreCalls
    BY DEF IInv, TypeOK, RunnerTypes
<1>1. /\ pc[r] = "scan" /\ UNCHANGED sticky /\ UNCHANGED result /\ UNCHANGED <<permits, weather>>
      /\ \/ pc' = [pc EXCEPT ![r] = "wait"] /\ UNCHANGED answer /\ UNCHANGED run
         \/ Done(r, FinalError(r))
    BY DEF ScanEnds, Go
<1>2. /\ run[r] \in Runs /\ InPlan(run[r]) /\ answer[r] \in Answers /\ result[r] \in Results
      /\ result' = [result EXCEPT ![r] = result[r]] /\ "wait" \in Places
    BY <1>0, <1>1, Kept DEF Places
<1>3. RunnerTypes' /\ InHand' /\ PermitsAreCalls' /\ GoesOn /\ Alone(r)
  <2>1. CASE pc' = [pc EXCEPT ![r] = "wait"] /\ UNCHANGED answer /\ UNCHANGED run
    <3>1. run' = [run EXCEPT ![r] = run[r]] /\ answer' = [answer EXCEPT ![r] = answer[r]]
        BY <1>0, <2>1, Kept
    <3> QED BY <1>0, <1>1, <1>2, <2>1, <3>1, MovedWithoutCall
  <2>2. CASE Done(r, FinalError(r))
    BY <1>0, <1>1, <1>2, <2>2, FinalErrorIsAnAnswer, Ends
  <2> QED BY <1>1, <2>1, <2>2
<1> QED BY <1>1, <1>3 DEF Follows, StickyStep

LEMMA WaitEndsFollows ==
    ASSUME Hypotheses, IInv, NEW r \in Requests, WaitEnds(r) PROVE Follows
<1>0. RunnerTypes /\ InHand /\ PermitsAreCalls
    BY DEF IInv, TypeOK, RunnerTypes
<1>1. /\ pc[r] = "wait" /\ UNCHANGED sticky /\ UNCHANGED result /\ UNCHANGED <<permits, weather>>
      /\ \/ /\ run' = [run EXCEPT ![r].pass = 1, ![r].denials = {}, ![r].left = run[r].cands]
            /\ pc' = [pc EXCEPT ![r] = "scan"] /\ UNCHANGED answer
         \/ Done(r, FinalError(r))
    BY DEF WaitEnds, Go
<1>2. /\ run[r] \in Runs /\ InPlan(run[r]) /\ answer[r] \in Answers /\ result[r] \in Results
      /\ result' = [result EXCEPT ![r] = result[r]] /\ "scan" \in Places
    BY <1>0, <1>1, Kept DEF Places
<1>3. CASE /\ run' = [run EXCEPT ![r].pass = 1, ![r].denials = {}, ![r].left = run[r].cands]
           /\ pc' = [pc EXCEPT ![r] = "scan"] /\ UNCHANGED answer
  <2> DEFINE a == [run[r] EXCEPT !.pass = 1]
             v == [a EXCEPT !.denials = {}]
             u == [v EXCEPT !.left = run[r].cands]
  <2>1. run' = [run EXCEPT ![r] = u]
    BY <1>2, <1>3 DEF Runs
  <2>2. a \in Runs /\ a.cands = run[r].cands
    <3>1. \A n \in 0 .. 1 : [run[r] EXCEPT !.pass = n] \in Runs
        BY <1>2, RunFields
    <3>2. 1 \in 0 .. 1
        OBVIOUS
    <3>3. a.cands = run[r].cands
        BY <1>2 DEF Runs
    <3> QED BY <3>1, <3>2, <3>3
  <2> HIDE DEF a
  <2>3. v \in Runs /\ v.cands = run[r].cands
    BY <2>2, RunFields DEF Runs
  <2> HIDE DEF v
  <2>4. run[r].cands \in Seq(Channels)
    BY <1>2, RunFields
  <2>5. u \in Runs /\ u.cands = run[r].cands /\ u.left = run[r].cands
    BY <2>3, <2>4, RunFields DEF Runs
  <2> HIDE DEF u
  <2>6. InPlan(u)
    BY <1>2, <2>4, <2>5, SuffixSelf DEF InPlan
  <2>7. answer' = [answer EXCEPT ![r] = answer[r]]
    BY <1>0, <1>3, Kept
  <2>8. RunnerTypes' /\ InHand' /\ PermitsAreCalls' /\ GoesOn /\ Alone(r)
    BY <1>0, <1>1, <1>2, <1>3, <2>1, <2>5, <2>6, <2>7, MovedWithoutCall
  <2> QED BY <1>1, <2>8 DEF Follows, StickyStep
<1>4. CASE Done(r, FinalError(r))
  <2>1. RunnerTypes' /\ InHand' /\ PermitsAreCalls' /\ GoesOn /\ Alone(r)
    BY <1>0, <1>1, <1>2, <1>4, FinalErrorIsAnAnswer, Ends
  <2> QED BY <1>1, <2>1 DEF Follows, StickyStep
<1> QED BY <1>1, <1>3, <1>4

\* Nothing of a request changes unless it steps.
LEMMA RestFollows ==
    ASSUME Hypotheses, IInv, UNCHANGED <<runner, permits>>,
           health' \in [Channels -> Healths], turns' \in 0 .. MaxTurns,
           UNCHANGED sticky \/ RunLate \/ Age
    PROVE  Follows
<1>1. RunnerTypes'
    BY DEF IInv, TypeOK, RunnerTypes, runner
<1>2. InHand' /\ PermitsAreCalls'
    BY DEF IInv, InHand, PermitsAreCalls, Channel, runner
<1>3. GoesOn /\ StickyStep
    BY DEF GoesOn, StickyStep, runner
<1> QED BY <1>1, <1>2, <1>3 DEF Follows

LEMMA WeatherFollows ==
    ASSUME Hypotheses, IInv, NEW c \in Channels, Weather(c) PROVE Follows
<1>1. health \in [Channels -> Healths] /\ turns \in 0 .. MaxTurns /\ MaxTurns \in Nat
    BY DEF IInv, TypeOK, Hypotheses, RunnerAssumption
<1>2. health' \in [Channels -> Healths] /\ turns' \in 0 .. MaxTurns
    BY <1>1 DEF Weather
<1>3. UNCHANGED <<runner, permits>> /\ UNCHANGED sticky
    BY DEF Weather
<1> QED BY <1>2, <1>3, RestFollows

LEMMA NextFollows ==
    ASSUME Hypotheses, IInv, [Next]_vars PROVE Follows
<1>1. ASSUME NEW r \in Requests, Step(r) PROVE Follows
    BY <1>1, ResolveFollows, ClearDisabledFollows, PlanFollows, AcquireFollows, CallEndsFollows,
       JudgeFollows, ScanEndsFollows, WaitEndsFollows DEF Step
<1>2. ASSUME NEW c \in Channels, Weather(c) PROVE Follows
    BY <1>2, WeatherFollows
<1>3. health \in [Channels -> Healths] /\ turns \in 0 .. MaxTurns
    BY DEF IInv, TypeOK
<1>4. CASE StoreStep
  <2>1. UNCHANGED <<runner, permits>> /\ (RunLate \/ Age)
    BY <1>4 DEF StoreStep
  <2>2. health' \in [Channels -> Healths] /\ turns' \in 0 .. MaxTurns
    BY <1>3, <1>4 DEF StoreStep, weather
  <2> QED BY <2>1, <2>2, RestFollows
<1>5. CASE UNCHANGED vars
  <2>1. UNCHANGED <<runner, permits>> /\ UNCHANGED sticky
    BY <1>5 DEF vars
  <2>2. health' \in [Channels -> Healths] /\ turns' \in 0 .. MaxTurns
    BY <1>3, <1>5 DEF vars, weather
  <2> QED BY <2>1, <2>2, RestFollows
<1> QED BY <1>1, <1>2, <1>4, <1>5 DEF Next

-----------------------------------------------------------------------------
(* The invariant.                                                          *)

LEMMA InitHolds ==
    ASSUME Hypotheses, Init PROVE IInv
<1>1. /\ (binding = Unbound /\ life = 0) \/ (binding \in Inherited /\ life = TTL)
      /\ seen = [r \in Requests |-> Unbound] /\ bound = [r \in Requests |-> Unbound]
      /\ late = {} /\ faults = 0
    BY DEF Init, StickyInit
<1>2. StickyTypeOK
  <2>1. binding \in Bindings /\ Unbound \in Bindings
    BY <1>1 DEF Bindings
  <2>2. life \in 0 .. TTL /\ faults \in 0 .. MaxFaults
    BY <1>1 DEF Hypotheses, StickyAssumption
  <2> QED BY <1>1, <2>1, <2>2 DEF StickyTypeOK
<1>3. RunnerTypes
  <2>1. run \in [Requests -> Runs] /\ \A r \in Requests : InPlan(run[r])
    BY EmptyRunFits DEF Init
  <2>2. pc \in [Requests -> Places] /\ result \in [Requests -> Results]
    BY DEF Init, Places, Results
  <2>3. answer \in [Requests -> Answers] /\ permits \in [Channels -> SUBSET Requests]
    BY DEF Init, Answers
  <2>4. health \in [Channels -> Healths]
    BY DEF Init, Healths
  <2>5. turns \in 0 .. MaxTurns
    <3>1. turns = 0 /\ MaxTurns \in Nat
        BY DEF Init, Hypotheses, RunnerAssumption
    <3> QED BY <3>1
  <2> QED BY <2>1, <2>2, <2>3, <2>4, <2>5 DEF RunnerTypes
<1>4. TypeOK
    BY <1>2, <1>3 DEF TypeOK, RunnerTypes
<1>5. InHand /\ PermitsAreCalls
    BY DEF Init, InHand, PermitsAreCalls
<1>6. Beliefs
  <2>1. VersionsName
    <3>1. \A b \in Remembered : b = Unbound \/ b = binding
        BY <1>1 DEF Remembered
    <3>2. binding.version = 0 <=> binding = Unbound
        BY <1>2, BindingFacts DEF StickyTypeOK, Hypotheses
    <3>3. Unbound.version = 0
        BY DEF Unbound
    <3> QED BY <3>1, <3>2, <3>3 DEF VersionsName
  <2>2. LateBindsAreNew /\ LateWritesAreTheirs
    BY <1>1 DEF LateBindsAreNew, LateWritesAreTheirs
  <2>3. OwnBeliefs /\ WritersWentOn /\ ClearedStaysCleared
    BY <1>1 DEF OwnBeliefs, WritersWentOn, ClearedStaysCleared
  <2>4. IsFiniteSet(late)
    BY <1>1, FS_EmptySet
  <2> QED BY <2>1, <2>2, <2>3, <2>4 DEF Beliefs
<1> QED BY <1>4, <1>5, <1>6 DEF IInv

LEMMA StepHolds ==
    ASSUME Hypotheses, IInv, [Next]_vars PROVE IInv'
<1>1. RunnerTypes' /\ InHand' /\ PermitsAreCalls' /\ GoesOn /\ StickyStep
    BY NextFollows DEF Follows
<1>2. StickyTypeOK' /\ Beliefs'
    BY <1>1, BeliefsStep DEF IInv, TypeOK
<1>3. TypeOK'
    BY <1>1, <1>2 DEF TypeOK, RunnerTypes
<1> QED BY <1>1, <1>2, <1>3 DEF IInv

LEMMA InvariantHolds ==
    ASSUME Hypotheses PROVE Spec => []IInv
<1>1. Init => IInv
    BY InitHolds
<1>2. IInv /\ [Next]_vars => IInv'
    BY StepHolds
<1> QED BY <1>1, <1>2, PTL DEF Spec

\* A slot is held by exactly the calls in flight, for any number of requests,
\* channels and limits: a request that waits for the pool, fails over or has
\* ended holds none.
THEOREM PermitsAreCallsTheorem ==
    ASSUME Hypotheses PROVE Spec => []PermitsAreCalls
<1>1. IInv => PermitsAreCalls
    BY DEF IInv
<1> QED BY <1>1, InvariantHolds, PTL

-----------------------------------------------------------------------------
(* What a step does to the binding, and whose step it is.                  *)

\* Somebody's write reaches Redis, or the TTL runs out, or the binding rests.
LEMMA WhoTouches ==
    ASSUME Hypotheses, IInv, [Next]_vars
    PROVE  \/ UNCHANGED store
           \/ Age /\ UNCHANGED <<pc, run, late>>
           \/ \E op \in Ops :
                /\ Ran(op)
                /\ op.kind # "bind" /\ binding # Unbound /\ binding.version = op.version =>
                       binding = seen[op.by] \/ binding.by = op.by
                /\ op.kind # "clear" => answer'[op.by] = op.channel
                /\ Acts(op.by) /\ \A q \in Requests : Acts(q) => q = op.by
<1>1. StickyStep /\ GoesOn /\ StickyTypeOK /\ Beliefs /\ StickyAssumption
    BY NextFollows DEF Follows, IInv, TypeOK, Hypotheses
<1>2. binding \in Remembered /\ \A q \in Requests : bound[q] \in Remembered
    BY DEF Remembered
<1>3. CASE \E r \in Requests : Alone(r) /\ Looks(r)
    BY <1>3 DEF Looks, Lookup
<1>4. ASSUME NEW r \in Requests, Alone(r), NEW op \in Ops, Writes(r, op), ~UNCHANGED store
      PROVE  /\ Ran(op)
             /\ op.kind # "bind" /\ binding # Unbound /\ binding.version = op.version =>
                    binding = seen[op.by] \/ binding.by = op.by
             /\ op.kind # "clear" => answer'[op.by] = op.channel
             /\ Acts(op.by) /\ \A q \in Requests : Acts(q) => q = op.by
  <2>1. /\ OpFits(r, op) /\ Moves(r) /\ op.by = r /\ RunOp(op) /\ late' = late
    BY <1>4 DEF Writes, Write, OpFits
  <2>2. Ran(op)
    BY <1>1, <2>1, RunOpRan
  <2>3. op.kind # "bind" /\ binding # Unbound /\ binding.version = op.version =>
            binding = seen[r] \/ binding.by = r
    <3>1. SUFFICES ASSUME op.kind # "bind", binding # Unbound, binding.version = op.version
                   PROVE  binding = seen[r] \/ binding.by = r
        OBVIOUS
    <3>2. binding = bound[r]
        BY <1>1, <1>2, <2>1, <3>1 DEF OpFits, Beliefs, VersionsName
    <3> QED BY <1>1, <3>1, <3>2 DEF Beliefs, OwnBeliefs
  <2>4. op.kind # "clear" => answer'[r] = op.channel
    BY <2>1 DEF OpFits
  <2>5. Acts(r) /\ \A q \in Requests : Acts(q) => q = r
    BY <1>4, <2>1 DEF Acts, Moves, Alone
  <2> QED BY <2>1, <2>2, <2>3, <2>4, <2>5
<1>5. ASSUME RunLate, UNCHANGED <<pc, run, answer>>
      PROVE  \E op \in Ops :
                /\ Ran(op)
                /\ op.kind # "bind" /\ binding # Unbound /\ binding.version = op.version =>
                       binding = seen[op.by] \/ binding.by = op.by
                /\ op.kind # "clear" => answer'[op.by] = op.channel
                /\ Acts(op.by) /\ \A q \in Requests : Acts(q) => q = op.by
  <2>1. PICK op \in late : RunOp(op) /\ late' = late \ {op}
    BY <1>5 DEF RunLate
  <2>2. op \in Ops
    BY <1>1 DEF StickyTypeOK
  <2>3. Ran(op)
    BY <1>1, <2>1, <2>2, RunOpRan
  <2>4. op.kind # "bind" /\ binding # Unbound /\ binding.version = op.version =>
            binding = seen[op.by] \/ binding.by = op.by
    BY <1>1, <1>2 DEF Beliefs, LateWritesAreTheirs
  <2>5. op.kind # "clear" => answer'[op.by] = op.channel
    BY <1>1, <1>5 DEF Beliefs, WritersWentOn
  <2>6. late \ late' = {op}
    BY <2>1
  <2>7. Acts(op.by) /\ \A q \in Requests : Acts(q) => q = op.by
    BY <1>5, <2>6 DEF Acts
  <2> QED BY <2>2, <2>3, <2>4, <2>5, <2>7
<1>6. CASE Age /\ UNCHANGED <<pc, run, answer>>
    BY <1>6 DEF Age
<1>7. CASE UNCHANGED sticky
    BY <1>7 DEF sticky, store
<1> QED BY <1>1, <1>3, <1>4, <1>5, <1>6, <1>7 DEF StickyStep

\* A session moves to another binding through the unbound state only.
LEMMA Rebinds ==
    ASSUME Hypotheses, IInv, [Next]_vars, binding # Unbound, binding' # Unbound
    PROVE  binding' = binding
<1>1. CASE UNCHANGED store
    BY <1>1 DEF store
<1>2. CASE Age
    BY <1>2 DEF Age
<1>3. ASSUME NEW op \in Ops, Ran(op) PROVE binding' = binding
    BY <1>3 DEF Ran, store
<1> QED BY <1>1, <1>2, <1>3, WhoTouches

\* A request takes away only the binding it found or one it made.
LEMMA Survives ==
    ASSUME Hypotheses, IInv, [Next]_vars, NEW r \in Requests,
           binding # Unbound, binding' = Unbound, Acts(r)
    PROVE  binding = seen[r] \/ binding.by = r
<1>1. CASE UNCHANGED store
    BY <1>1 DEF store
<1>2. CASE Age /\ UNCHANGED <<pc, run, late>>
    BY <1>2 DEF Acts
<1>3. ASSUME NEW op \in Ops, Ran(op), \A q \in Requests : Acts(q) => q = op.by,
             op.kind # "bind" /\ binding # Unbound /\ binding.version = op.version =>
                 binding = seen[op.by] \/ binding.by = op.by
      PROVE  binding = seen[r] \/ binding.by = r
  <2>1. r = op.by /\ op.kind # "bind" /\ binding.version = op.version
    BY <1>3 DEF Ran, store
  <2> QED BY <1>3, <2>1
<1> QED BY <1>1, <1>2, <1>3, WhoTouches

\* Only a complete success on the bound channel gives the binding more time.
LEMMA Extends ==
    ASSUME Hypotheses, IInv, [Next]_vars, life' > life
    PROVE  \E r \in Requests : Acts(r) /\ answer'[r] = binding'.channel
<1>0. life \in Nat
    BY DEF IInv, TypeOK, StickyTypeOK
<1>1. CASE UNCHANGED store
    BY <1>0, <1>1 DEF store
<1>2. CASE Age
    BY <1>0, <1>2 DEF Age
<1>3. ASSUME NEW op \in Ops, Ran(op), op.kind # "clear" => answer'[op.by] = op.channel, Acts(op.by)
      PROVE  \E r \in Requests : Acts(r) /\ answer'[r] = binding'.channel
  <2>1. op.by \in Requests
    BY OpFacts
  <2>2. op.kind # "clear" /\ binding'.channel = op.channel
    BY <1>0, <1>3 DEF Ran, store
  <2> QED BY <1>3, <2>1, <2>2
<1> QED BY <1>1, <1>2, <1>3, WhoTouches

\* What a session is bound to is what its requests last made of it, for any
\* number of requests and channels and however many writes arrive late:
\* replaced through the unbound state only, taken away only by those who saw
\* it or made it, kept alive only by success, and gone for good once cleared.
THEOREM BindingsAreCurrentTheorem ==
    ASSUME Hypotheses PROVE Spec => BindingsAreCurrent
<1>1. IInv => TypeOK /\ ClearedStaysCleared
    BY DEF IInv, Beliefs
<1>2. IInv /\ [Next]_vars => [binding # Unbound /\ binding' # Unbound => binding' = binding]_vars
    BY Rebinds
<1>3. IInv /\ [Next]_vars =>
        [\A r \in Requests :
            /\ binding # Unbound /\ binding' = Unbound /\ Acts(r)
            => binding = seen[r] \/ binding.by = r]_vars
    BY Survives
<1>4. IInv /\ [Next]_vars =>
        [life' > life => \E r \in Requests : Acts(r) /\ answer'[r] = binding'.channel]_vars
    BY Extends
<1> QED
    BY <1>1, <1>2, <1>3, <1>4, InvariantHolds, PTL
    DEF Spec, BindingsAreCurrent, RebindsThroughUnbound, NewerBindingSurvives, OnlySuccessExtends

-----------------------------------------------------------------------------
(***************************************************************************)
(* The credential gate.  A verdict is taken only at the revision its       *)
(* evidence was gained on, and whatever changes the credential or the      *)
(* standing moves the revision: so what a probe holds at the revision of   *)
(* the row is of the row's credential, and began after the standing last   *)
(* changed (ProbesKnowTheRow).  A gateway never counts more than the       *)
(* streak it has seen (CountsAreStreaks).                                  *)
(***************************************************************************)
CONSTANTS Gateways, Probes, Credentials, Threshold, NoRev, NoCred, MaxInFlight,
          MaxEdits, MaxProbes
VARIABLES c_channel, c_origin, c_rejected, c_gate, c_attempts, c_marking, c_probe,
          c_edits, c_probes, c_faults, c_streak, c_verdict, c_unseen

Credential == INSTANCE CredentialGate WITH
    channel <- c_channel, origin <- c_origin, rejected <- c_rejected, gate <- c_gate,
    attempts <- c_attempts, marking <- c_marking, probe <- c_probe, edits <- c_edits,
    probes <- c_probes, faults <- c_faults, streak <- c_streak, verdict <- c_verdict,
    unseen <- c_unseen

CountsAreStreaks ==
    /\ c_streak \in [Gateways -> [Credential!Revs -> 0 .. Threshold]]
    /\ \A g \in Gateways :
         c_gate[g] # NoRev => c_gate[g].count <= c_streak[g][c_gate[g].rev]

\* A probe under way holds a revision the row has had; at the row's own, it holds
\* its credential, and has begun since the standing last changed.
ProbesKnowTheRow ==
    \A p \in Probes : c_probe[p].pc # "idle" =>
        /\ c_probe[p].rev \in Credential!Revs /\ c_probe[p].cred \in Credentials
        /\ c_probe[p].rev.config <= c_channel.config /\ c_probe[p].rev.origin <= c_origin
        /\ c_probe[p].rev = Credential!Current =>
             c_probe[p].cred = c_channel.cred /\ p \in c_unseen

\* Every probe changes the standing at most once, every standing is taken away
\* at most once, and the rest are edits: what the revisions are bounded by.
Outstanding == {p \in Probes : c_probe[p].pc # "idle"}
RevisionsAreSpent ==
    /\ IsFiniteSet(Outstanding)
    /\ c_channel.config + 2 * Cardinality(Outstanding) + (IF c_channel.valid THEN 1 ELSE 0)
         <= 2 + c_edits + 2 * (c_edits + c_probes)
    /\ c_origin <= 1 + c_edits

CredentialInv ==
    /\ Credential!TypeOK /\ Credential!StandingIsOfTheCredential
    /\ CountsAreStreaks /\ ProbesKnowTheRow /\ RevisionsAreSpent

CredentialProbes == [pc : {"idle", "probing", "applying"}, rev : Credential!Revs \cup {NoRev},
                     cred : Credentials \cup {NoCred},
                     result : {"none", "ok", "unauthorized", "other"}]
CredentialGates == {NoRev} \cup [rev : Credential!Revs, count : 0 .. Threshold - 1]

LEMMA WithinMore ==
    ASSUME NEW m \in Nat, NEW low \in Nat, NEW high \in Nat, m <= 1 + low, low <= high
    PROVE  m <= 1 + high
OBVIOUS

LEMMA CurrentIsARevision ==
    ASSUME Credential!TypeOK PROVE Credential!Current \in Credential!Revs
BY DEF Credential!TypeOK, Credential!Current, Credential!Revs

\* What a probe knows of the row, and how it goes on to.
KnowsTheRow(p) ==
    c_probe[p].pc # "idle" =>
        /\ c_probe[p].rev \in Credential!Revs /\ c_probe[p].cred \in Credentials
        /\ c_probe[p].rev.config <= c_channel.config /\ c_probe[p].rev.origin <= c_origin
        /\ c_probe[p].rev = Credential!Current =>
             c_probe[p].cred = c_channel.cred /\ p \in c_unseen

LEMMA StillKnows ==
    ASSUME CredentialInv, NEW p \in Probes, c_probe'[p] = c_probe[p],
           c_channel'.config \in Nat, c_origin' \in Nat,
           \/ c_channel'.config > c_channel.config /\ c_origin' >= c_origin
           \/ c_channel'.config >= c_channel.config /\ c_origin' > c_origin
           \/ /\ c_channel'.config = c_channel.config /\ c_origin' = c_origin
              /\ c_channel'.cred = c_channel.cred /\ (p \in c_unseen => p \in c_unseen')
    PROVE  KnowsTheRow(p)'
<1> SUFFICES ASSUME c_probe'[p].pc # "idle" PROVE KnowsTheRow(p)'
  BY DEF KnowsTheRow
<1>1. /\ c_probe[p].rev \in Credential!Revs /\ c_probe[p].cred \in Credentials
      /\ c_probe[p].rev.config <= c_channel.config /\ c_probe[p].rev.origin <= c_origin
      /\ c_probe[p].rev = Credential!Current =>
           c_probe[p].cred = c_channel.cred /\ p \in c_unseen
  BY DEF CredentialInv, ProbesKnowTheRow
<1>2. /\ c_channel.config \in Nat /\ c_origin \in Nat
      /\ c_probe[p].rev.config \in Nat /\ c_probe[p].rev.origin \in Nat
  BY <1>1 DEF CredentialInv, Credential!TypeOK, Credential!Configs, Credential!Revs
<1>3. c_probe'[p].rev.config <= c_channel'.config /\ c_probe'[p].rev.origin <= c_origin'
  BY <1>1, <1>2
<1>4. c_probe'[p].rev = Credential!Current' =>
        c_probe'[p].cred = c_channel'.cred /\ p \in c_unseen'
  BY <1>1, <1>2 DEF Credential!Current
<1> QED
  BY <1>1, <1>3, <1>4 DEF KnowsTheRow

\* The probes under way, when one begins and when one ends.
LEMMA ProbeBegins ==
    ASSUME IsFiniteSet(Outstanding), NEW p \in Probes,
           c_probe[p].pc = "idle", c_probe'[p].pc # "idle",
           \A q \in Probes \ {p} : c_probe'[q] = c_probe[q]
    PROVE  /\ IsFiniteSet(Outstanding)'
           /\ Cardinality(Outstanding)' = Cardinality(Outstanding) + 1
<1>1. Outstanding' = Outstanding \cup {p} /\ p \notin Outstanding
  BY DEF Outstanding
<1> QED
  BY <1>1, FS_AddElement

LEMMA ProbeEnds ==
    ASSUME IsFiniteSet(Outstanding), NEW p \in Probes,
           c_probe[p].pc # "idle", c_probe'[p].pc = "idle",
           \A q \in Probes \ {p} : c_probe'[q] = c_probe[q]
    PROVE  /\ IsFiniteSet(Outstanding)'
           /\ Cardinality(Outstanding)' = Cardinality(Outstanding) - 1
<1>1. Outstanding' = Outstanding \ {p} /\ p \in Outstanding
  BY DEF Outstanding
<1> QED
  BY <1>1, FS_RemoveElement

\* The row keeps within what the edits and probes allow.
LEMMA WithinBounds ==
    ASSUME Credential!GateAssumption, RevisionsAreSpent',
           c_channel'.config \in Nat \ {0}, c_origin' \in Nat \ {0},
           c_edits' \in 0 .. MaxEdits, c_probes' \in 0 .. MaxProbes
    PROVE  c_channel'.config \in Credential!Configs /\ c_origin' \in 1 .. 1 + MaxEdits
<1>1. /\ MaxEdits \in Nat /\ MaxProbes \in Nat
      /\ Cardinality(Outstanding)' \in Nat
  BY FS_CardinalityType DEF Credential!GateAssumption, RevisionsAreSpent
<1> DEFINE held == IF c_channel'.valid THEN 1 ELSE 0
<1>2. held \in 0 .. 1
  OBVIOUS
<1>3. /\ c_channel'.config + 2 * Cardinality(Outstanding)' + held
           <= 2 + c_edits' + 2 * (c_edits' + c_probes')
      /\ c_origin' <= 1 + c_edits'
  BY DEF RevisionsAreSpent
<1> HIDE DEF held
<1>4. c_channel'.config <= 2 + MaxEdits + 2 * (MaxEdits + MaxProbes)
  BY <1>1, <1>2, <1>3
<1>5. c_origin' <= 1 + MaxEdits
  <2>1. c_origin' <= 1 + c_edits'
    BY <1>3
  <2>2. c_origin' \in Nat /\ c_edits' \in Nat
    OBVIOUS
  <2>3. c_edits' <= MaxEdits
    BY <1>1
  <2> QED
    BY <1>1, <2>1, <2>2, <2>3, WithinMore
<1> QED
  BY <1>1, <1>4, <1>5 DEF Credential!Configs

\* A step of a gateway, or of upstream, touches neither the row nor the probes.
LEMMA GatewaySide ==
    ASSUME CredentialInv, Credential!TypeOK', CountsAreStreaks', c_edits' >= c_edits,
           UNCHANGED <<c_channel, c_origin, c_probe, c_verdict, c_unseen, c_probes>>
    PROVE  CredentialInv'
<1>1. Credential!StandingIsOfTheCredential'
  BY DEF CredentialInv, Credential!StandingIsOfTheCredential
<1>2. ProbesKnowTheRow'
  BY DEF CredentialInv, ProbesKnowTheRow, Credential!Current, Credential!Revs, Credential!Configs
<1>3. RevisionsAreSpent'
  <2>1. Outstanding' = Outstanding
    BY DEF Outstanding
  <2>2. c_edits \in Nat /\ c_edits' \in Nat /\ c_probes \in Nat /\ c_origin \in Nat
        /\ c_channel.config \in Nat
    BY DEF CredentialInv, Credential!TypeOK, Credential!Configs
  <2>3. IsFiniteSet(Outstanding) /\ Cardinality(Outstanding) \in Nat
    BY FS_CardinalityType DEF CredentialInv, RevisionsAreSpent
  <2> DEFINE held == IF c_channel.valid THEN 1 ELSE 0
  <2>4. held \in 0 .. 1 /\ held' = held
    OBVIOUS
  <2>5. c_channel.config + 2 * Cardinality(Outstanding) + held
          <= 2 + c_edits + 2 * (c_edits + c_probes)
    BY DEF CredentialInv, RevisionsAreSpent
  <2> HIDE DEF held
  <2>6. c_channel.config + 2 * Cardinality(Outstanding) + held
          <= 2 + c_edits' + 2 * (c_edits' + c_probes)
    BY <2>2, <2>3, <2>4, <2>5
  <2>7. c_origin <= 1 + c_edits
    BY DEF CredentialInv, RevisionsAreSpent
  <2> HIDE DEF held
  <2>8. c_origin <= 1 + c_edits'
    BY <2>2, <2>7, WithinMore
  <2> QED
    BY <2>1, <2>3, <2>4, <2>6, <2>8 DEF RevisionsAreSpent, held
<1> QED
  BY <1>1, <1>2, <1>3 DEF CredentialInv

\* What the count of a gateway and the streak become; the rest of its step.
LEMMA CountStep ==
    ASSUME Credential!GateAssumption, CredentialInv,
           NEW a \in c_attempts,
           Credential!RecordSuccess(a) \/ Credential!Record401(a) \/ Credential!RecordOther(a)
    PROVE  /\ c_gate' \in [Gateways -> CredentialGates]
           /\ c_marking' \in [Gateways -> Credential!Revs \cup {NoRev}]
           /\ CountsAreStreaks'
           /\ \A g \in Gateways : c_marking[g] = NoRev /\ c_marking'[g] # NoRev =>
                                    c_streak'[g][c_marking'[g]] >= Threshold
<1> DEFINE g == a.gateway
           r == a.rev
<1>0. /\ Threshold \in Nat \ {0} /\ g \in Gateways /\ r \in Credential!Revs
      /\ c_gate \in [Gateways -> CredentialGates]
      /\ c_marking \in [Gateways -> Credential!Revs \cup {NoRev}]
      /\ c_streak \in [Gateways -> [Credential!Revs -> 0 .. Threshold]]
      /\ \A h \in Gateways :
           c_gate[h] # NoRev => c_gate[h].count <= c_streak[h][c_gate[h].rev]
  BY DEF CredentialInv, Credential!TypeOK, CountsAreStreaks, CredentialGates,
     Credential!GateAssumption
<1>1. /\ Credential!Counted(g, r) \in 0 .. Threshold - 1
      /\ Credential!Counted(g, r) <= c_streak[g][r]
      /\ c_streak[g][r] \in 0 .. Threshold
  BY <1>0 DEF Credential!Counted, CredentialGates
<1>2. Credential!Accepts(g, r) \/ c_gate[g] = NoRev \/ c_gate[g].rev # r
  <2>1. ASSUME c_gate[g] # NoRev, c_gate[g].rev = r PROVE Credential!Accepts(g, r)
    <3>1. r.config \in Nat /\ r.origin \in Nat
      BY <1>0 DEF Credential!Revs, Credential!Configs
    <3> QED
      BY <2>1, <3>1 DEF Credential!Accepts, Credential!Older
  <2> QED
    BY <2>1
<1> HIDE DEF g, r
<1>3. CASE Credential!RecordSuccess(a)
  <2>1. /\ c_streak' = [c_streak EXCEPT ![g][r] = 0] /\ UNCHANGED c_marking
        /\ \/ c_gate' = [c_gate EXCEPT ![g] = [rev |-> r, count |-> 0]]
           \/ UNCHANGED c_gate /\ (c_gate[g] = NoRev \/ c_gate[g].rev # r)
    BY <1>2, <1>3 DEF Credential!RecordSuccess, Credential!SetGate, g, r
  <2>2. c_gate' \in [Gateways -> CredentialGates]
    BY <1>0, <2>1 DEF CredentialGates
  <2>3. c_streak' \in [Gateways -> [Credential!Revs -> 0 .. Threshold]]
    BY <1>0, <2>1
  <2>4. /\ c_streak'[g][r] = 0
        /\ \A h \in Gateways, s \in Credential!Revs : h # g \/ s # r => c_streak'[h][s] = c_streak[h][s]
    BY <1>0, <2>1
  <2>5. \A h \in Gateways : c_gate'[h] # NoRev => c_gate'[h].count <= c_streak'[h][c_gate'[h].rev]
    <3> SUFFICES ASSUME NEW h \in Gateways, c_gate'[h] # NoRev
                 PROVE  c_gate'[h].count <= c_streak'[h][c_gate'[h].rev]
      OBVIOUS
    <3>1. CASE h # g
      <4>1. c_gate'[h] = c_gate[h] /\ c_gate[h] \in CredentialGates
        BY <1>0, <2>1, <3>1
      <4>2. c_gate[h].rev \in Credential!Revs
        BY <4>1 DEF CredentialGates
      <4> QED
        BY <1>0, <2>4, <3>1, <4>1, <4>2
    <3>2. CASE h = g /\ c_gate' = [c_gate EXCEPT ![g] = [rev |-> r, count |-> 0]]
      BY <1>0, <2>4, <3>2
    <3>3. CASE h = g /\ UNCHANGED c_gate /\ (c_gate[g] = NoRev \/ c_gate[g].rev # r)
      <4>1. c_gate[g] \in CredentialGates /\ c_gate[g].rev \in Credential!Revs
        BY <1>0, <3>3 DEF CredentialGates
      <4> QED
        BY <1>0, <2>4, <3>3, <4>1
    <3> QED
      BY <2>1, <3>1, <3>2, <3>3
  <2> QED
    BY <1>0, <2>1, <2>2, <2>3, <2>5 DEF CountsAreStreaks
<1>4. CASE Credential!Record401(a)
  <2> DEFINE n == Credential!Counted(g, r)
             up == IF c_streak[g][r] < Threshold THEN c_streak[g][r] + 1 ELSE c_streak[g][r]
  <2>0. /\ n \in 0 .. Threshold - 1 /\ up \in 0 .. Threshold
        /\ n + 1 <= up \/ up = Threshold
        /\ c_streak[g][r] <= up
    BY <1>0, <1>1
  <2>1. /\ c_streak' = [c_streak EXCEPT ![g][r] = up]
        /\ \/ /\ n + 1 >= Threshold /\ c_gate' = [c_gate EXCEPT ![g] = [rev |-> r, count |-> 0]]
              /\ \/ UNCHANGED c_marking
                 \/ c_marking[g] = NoRev /\ c_marking' = [c_marking EXCEPT ![g] = r]
           \/ /\ n + 1 < Threshold /\ UNCHANGED c_marking
              /\ c_gate' = [c_gate EXCEPT ![g] = [rev |-> r, count |-> n + 1]]
           \/ UNCHANGED <<c_gate, c_marking>>
    <3>1. c_streak' = [c_streak EXCEPT ![g][r] = up]
      BY <1>4 DEF Credential!Record401, g, r
    <3>2. \/ /\ Credential!Reaches(g, r) /\ Credential!SetGate(g, r, 0)
             /\ Credential!StartMarking(g, r)
          \/ /\ ~Credential!Reaches(g, r) /\ Credential!SetGate(g, r, n + 1)
             /\ UNCHANGED c_marking
          \/ UNCHANGED <<c_gate, c_marking>>
      BY <1>4 DEF Credential!Record401, g, r
    <3> QED
      BY <1>0, <2>0, <3>1, <3>2 DEF Credential!SetGate, Credential!Reaches, Credential!StartMarking
  <2> HIDE DEF n, up
  <2>2. c_gate' \in [Gateways -> CredentialGates]
    <3>1. n + 1 < Threshold => n + 1 \in 0 .. Threshold - 1
      BY <1>0, <2>0
    <3>2. 0 \in 0 .. Threshold - 1
      BY <1>0
    <3>3. \A m \in 0 .. Threshold - 1 : [rev |-> r, count |-> m] \in CredentialGates
      BY <1>0 DEF CredentialGates
    <3> QED
      BY <1>0, <2>1, <3>1, <3>2, <3>3
  <2>3. c_streak' \in [Gateways -> [Credential!Revs -> 0 .. Threshold]]
    BY <1>0, <2>0, <2>1
  <2>4. /\ c_streak'[g][r] = up
        /\ \A h \in Gateways, s \in Credential!Revs : h # g \/ s # r => c_streak'[h][s] = c_streak[h][s]
    BY <1>0, <2>1
  <2>5. \A h \in Gateways : c_gate'[h] # NoRev => c_gate'[h].count <= c_streak'[h][c_gate'[h].rev]
    <3> SUFFICES ASSUME NEW h \in Gateways, c_gate'[h] # NoRev
                 PROVE  c_gate'[h].count <= c_streak'[h][c_gate'[h].rev]
      OBVIOUS
    <3>1. CASE c_gate'[h] = c_gate[h]
      <4>1. c_gate[h] \in CredentialGates /\ c_gate[h].rev \in Credential!Revs
        BY <1>0, <3>1 DEF CredentialGates
      <4>2. c_gate[h].count \in Nat
        BY <3>1, <4>1 DEF CredentialGates
      <4>3. c_streak[h][c_gate[h].rev] <= c_streak'[h][c_gate[h].rev]
        <5>1. CASE h = g /\ c_gate[h].rev = r
          BY <2>0, <2>4, <5>1
        <5>2. CASE h # g \/ c_gate[h].rev # r
          BY <1>0, <2>4, <4>1, <5>2
        <5> QED
          BY <5>1, <5>2
      <4>4. /\ c_streak[h][c_gate[h].rev] \in Nat /\ c_streak'[h][c_gate[h].rev] \in Nat
        BY <1>0, <2>3, <4>1
      <4> QED
        BY <1>0, <3>1, <4>2, <4>3, <4>4
    <3>2. CASE h = g /\ c_gate'[g] = [rev |-> r, count |-> 0]
      BY <1>0, <2>0, <2>4, <3>2
    <3>3. CASE h = g /\ c_gate'[g] = [rev |-> r, count |-> n + 1] /\ n + 1 < Threshold
      BY <1>0, <2>0, <2>4, <3>3
    <3> QED
      BY <1>0, <2>1, <3>1, <3>2, <3>3
  <2>6. /\ c_marking' \in [Gateways -> Credential!Revs \cup {NoRev}]
        /\ \A h \in Gateways : c_marking[h] = NoRev /\ c_marking'[h] # NoRev =>
                                 c_streak'[h][c_marking'[h]] >= Threshold
    <3>1. CASE UNCHANGED c_marking
      BY <1>0, <3>1
    <3>2. CASE n + 1 >= Threshold /\ c_marking' = [c_marking EXCEPT ![g] = r]
      <4>1. up = Threshold
        BY <1>0, <2>0, <3>2
      <4> QED
        BY <1>0, <2>4, <3>2, <4>1
    <3> QED
      BY <2>1, <3>1, <3>2
  <2> QED
    BY <2>2, <2>3, <2>5, <2>6 DEF CountsAreStreaks
<1>5. CASE Credential!RecordOther(a)
  <2>1. /\ UNCHANGED <<c_marking, c_streak>>
        /\ \/ c_gate' = [c_gate EXCEPT ![g] = [rev |-> r, count |-> Credential!Counted(g, r)]]
           \/ UNCHANGED c_gate
    BY <1>5 DEF Credential!RecordOther, Credential!SetGate, g, r
  <2>2. c_gate' \in [Gateways -> CredentialGates]
    <3>1. [rev |-> r, count |-> Credential!Counted(g, r)] \in CredentialGates
      BY <1>0, <1>1 DEF CredentialGates
    <3> QED
      BY <1>0, <2>1, <3>1
  <2>3. \A h \in Gateways : c_gate'[h] # NoRev => c_gate'[h].count <= c_streak'[h][c_gate'[h].rev]
    <3> SUFFICES ASSUME NEW h \in Gateways, c_gate'[h] # NoRev
                 PROVE  c_gate'[h].count <= c_streak[h][c_gate'[h].rev]
      BY <2>1
    <3>1. CASE c_gate'[h] = c_gate[h]
      BY <1>0, <3>1
    <3>2. CASE h = g /\ c_gate'[g] = [rev |-> r, count |-> Credential!Counted(g, r)]
      BY <1>1, <3>2
    <3> QED
      BY <1>0, <2>1, <3>1, <3>2
  <2> QED
    BY <1>0, <2>1, <2>2, <2>3 DEF CountsAreStreaks
<1> QED
  BY <1>3, <1>4, <1>5


LEMMA CredentialStep ==
    ASSUME Credential!GateAssumption, CredentialInv, [Credential!Next]_(Credential!vars)
    PROVE  CredentialInv'
<1> USE DEF Credential!row, Credential!gateway, Credential!bounds
<1>0. /\ Credential!TypeOK /\ Credential!StandingIsOfTheCredential
      /\ CountsAreStreaks /\ ProbesKnowTheRow /\ RevisionsAreSpent
      /\ Threshold \in Nat \ {0} /\ NoCred \notin Credentials
      /\ MaxInFlight \in Nat /\ MaxEdits \in Nat /\ MaxProbes \in Nat /\ MaxFaults \in Nat
  BY DEF CredentialInv, Credential!GateAssumption
<1>t. /\ c_channel \in [cred : Credentials, valid : BOOLEAN, config : Credential!Configs,
                        tested : {"none", "ok", "failed"}]
      /\ c_origin \in 1 .. 1 + MaxEdits /\ c_rejected \subseteq Credentials
      /\ c_gate \in [Gateways -> CredentialGates]
      /\ c_attempts \subseteq [gateway : Gateways, rev : Credential!Revs,
                               cred : Credentials, n : 1 .. MaxInFlight]
      /\ c_marking \in [Gateways -> Credential!Revs \cup {NoRev}]
      /\ c_probe \in [Probes -> CredentialProbes]
      /\ c_unseen \subseteq Probes
      /\ c_verdict \in [valid : Credential!Evidence, tested : Credential!Evidence]
      /\ c_edits \in 0 .. MaxEdits /\ c_probes \in 0 .. MaxProbes /\ c_faults \in 0 .. MaxFaults
  BY <1>0 DEF Credential!TypeOK, CredentialGates, CredentialProbes
<1>c. Credential!Current \in Credential!Revs
  BY <1>0, CurrentIsARevision
<1>n. /\ c_channel.config \in Nat \ {0} /\ c_origin \in Nat \ {0}
      /\ c_edits \in Nat /\ c_probes \in Nat
      /\ IsFiniteSet(Outstanding) /\ Cardinality(Outstanding) \in Nat
      /\ c_channel.config + 2 * Cardinality(Outstanding) + (IF c_channel.valid THEN 1 ELSE 0)
           <= 2 + c_edits + 2 * (c_edits + c_probes)
      /\ c_origin <= 1 + c_edits
  BY <1>0, <1>t, FS_CardinalityType DEF RevisionsAreSpent, Credential!Configs
<1>f. c_faults < MaxFaults => c_faults + 1 \in 0 .. MaxFaults
  BY <1>0, <1>t
<1>e. c_edits < MaxEdits => c_edits + 1 \in 0 .. MaxEdits
  BY <1>0, <1>t
<1>1. ASSUME NEW g \in Gateways, Credential!BeginAttempt(g) PROVE CredentialInv'
  <2>1. /\ UNCHANGED <<c_channel, c_origin, c_rejected, c_gate, c_marking, c_probe, c_edits,
                       c_probes, c_faults, c_streak, c_verdict, c_unseen>>
        /\ \E n \in 1 .. MaxInFlight : c_attempts' = c_attempts \cup
             {[gateway |-> g, rev |-> Credential!Current, cred |-> c_channel.cred, n |-> n]}
    BY <1>1 DEF Credential!BeginAttempt
  <2>2. c_attempts' \subseteq [gateway : Gateways, rev : Credential!Revs,
                               cred : Credentials, n : 1 .. MaxInFlight]
    BY <1>t, <1>c, <2>1
  <2>3. Credential!TypeOK'
    BY <1>0, <2>1, <2>2 DEF Credential!TypeOK
  <2>4. CountsAreStreaks'
    BY <1>0, <2>1 DEF CountsAreStreaks
  <2> QED
    BY <1>n, <2>1, <2>3, <2>4, GatewaySide
<1>2. ASSUME NEW a \in c_attempts, Credential!EndAttempt(a) PROVE CredentialInv'
  <2>1. /\ UNCHANGED <<c_channel, c_origin, c_rejected, c_probe, c_edits,
                       c_probes, c_faults, c_verdict, c_unseen>>
        /\ c_attempts' = c_attempts \ {a}
        /\ \/ Credential!RecordSuccess(a) \/ Credential!Record401(a)
           \/ Credential!RecordOther(a)
    BY <1>2 DEF Credential!EndAttempt
  <2>2. /\ c_gate' \in [Gateways -> CredentialGates]
        /\ c_marking' \in [Gateways -> Credential!Revs \cup {NoRev}]
        /\ CountsAreStreaks'
    BY <2>1, CountStep
  <2>3. Credential!TypeOK'
    BY <1>t, <2>1, <2>2 DEF Credential!TypeOK, CredentialGates, CredentialProbes
  <2> QED
    BY <1>n, <2>1, <2>2, <2>3, GatewaySide
<1>3. ASSUME NEW g \in Gateways, Credential!InvalidationFails(g) PROVE CredentialInv'
  <2>1. /\ UNCHANGED <<c_channel, c_origin, c_rejected, c_gate, c_attempts, c_probe, c_edits,
                       c_probes, c_streak, c_verdict, c_unseen>>
        /\ c_faults < MaxFaults /\ c_faults' = c_faults + 1
        /\ c_marking' = [c_marking EXCEPT ![g] = NoRev]
    BY <1>3 DEF Credential!InvalidationFails
  <2>2. Credential!TypeOK'
    BY <1>t, <1>f, <2>1 DEF Credential!TypeOK, CredentialGates, CredentialProbes
  <2>3. CountsAreStreaks'
    BY <1>0, <2>1 DEF CountsAreStreaks
  <2> QED
    BY <1>n, <2>1, <2>2, <2>3, GatewaySide
<1>4. ASSUME NEW g \in Gateways, Credential!GatewayRestarts(g) PROVE CredentialInv'
  <2>1. /\ UNCHANGED <<c_channel, c_origin, c_rejected, c_probe, c_edits,
                       c_probes, c_verdict, c_unseen>>
        /\ c_faults < MaxFaults /\ c_faults' = c_faults + 1
        /\ c_gate' = [c_gate EXCEPT ![g] = NoRev]
        /\ c_marking' = [c_marking EXCEPT ![g] = NoRev]
        /\ c_attempts' \subseteq c_attempts
        /\ c_streak' = [c_streak EXCEPT ![g] = [r \in Credential!Revs |-> 0]]
    BY <1>4 DEF Credential!GatewayRestarts
  <2>2. c_gate' \in [Gateways -> CredentialGates]
    BY <1>t, <2>1 DEF CredentialGates
  <2>3. Credential!TypeOK'
    BY <1>t, <1>f, <2>1, <2>2 DEF Credential!TypeOK, CredentialGates, CredentialProbes
  <2>4. CountsAreStreaks'
    <3>1. c_streak' \in [Gateways -> [Credential!Revs -> 0 .. Threshold]]
      BY <1>0, <2>1 DEF CountsAreStreaks
    <3>2. \A h \in Gateways : \/ c_gate'[h] = NoRev
                              \/ c_gate'[h] = c_gate[h] /\ c_streak'[h] = c_streak[h]
      BY <1>0, <1>t, <2>1 DEF CountsAreStreaks
    <3> QED
      BY <1>0, <3>1, <3>2 DEF CountsAreStreaks
  <2> QED
    BY <1>n, <2>1, <2>3, <2>4, GatewaySide
<1>5. ASSUME Credential!Revoke PROVE CredentialInv'
  <2>1. /\ UNCHANGED <<c_channel, c_origin, c_gate, c_attempts, c_marking, c_probe,
                       c_probes, c_faults, c_streak, c_verdict, c_unseen>>
        /\ c_edits < MaxEdits /\ c_edits' = c_edits + 1
        /\ \E c \in Credentials : c_rejected' \in {c_rejected \ {c}, c_rejected \cup {c}}
    BY <1>5 DEF Credential!Revoke
  <2>2. c_rejected' \subseteq Credentials
    BY <1>t, <2>1
  <2>3. Credential!TypeOK'
    BY <1>t, <1>e, <2>1, <2>2 DEF Credential!TypeOK, CredentialGates, CredentialProbes
  <2>4. CountsAreStreaks'
    BY <1>0, <2>1 DEF CountsAreStreaks
  <2> QED
    BY <1>n, <2>1, <2>3, <2>4, GatewaySide
<1>6. ASSUME NEW g \in Gateways, Credential!Invalidate(g) PROVE CredentialInv'
  <2>1. /\ UNCHANGED <<c_origin, c_rejected, c_gate, c_attempts, c_probe, c_edits,
                       c_probes, c_faults, c_streak>>
        /\ c_marking' = [c_marking EXCEPT ![g] = NoRev]
    BY <1>6 DEF Credential!Invalidate
  <2>2. \/ UNCHANGED <<c_channel, c_verdict, c_unseen>>
        \/ /\ c_channel.valid
           /\ c_channel' = [c_channel EXCEPT !.valid = FALSE, !.config = c_channel.config + 1]
           /\ c_verdict' = [c_verdict EXCEPT !.valid = [cred |-> c_channel.cred, ok |-> FALSE]]
           /\ c_unseen' = {}
    BY <1>6 DEF Credential!Invalidate
  <2>3. CountsAreStreaks'
    BY <1>0, <2>1 DEF CountsAreStreaks
  <2>4. CASE UNCHANGED <<c_channel, c_verdict, c_unseen>>
    <3>1. Credential!TypeOK'
      BY <1>t, <2>1, <2>4 DEF Credential!TypeOK, CredentialGates, CredentialProbes
    <3> QED
      BY <1>n, <2>1, <2>3, <2>4, <3>1, GatewaySide
  <2>5. CASE /\ c_channel.valid
             /\ c_channel' = [c_channel EXCEPT !.valid = FALSE, !.config = c_channel.config + 1]
             /\ c_verdict' = [c_verdict EXCEPT !.valid = [cred |-> c_channel.cred, ok |-> FALSE]]
             /\ c_unseen' = {}
    <3>1. /\ c_channel'.config = c_channel.config + 1 /\ c_channel'.valid = FALSE
          /\ c_channel'.cred = c_channel.cred /\ c_channel'.tested = c_channel.tested
          /\ c_verdict'.tested = c_verdict.tested
      BY <1>t, <2>5 DEF Credential!Evidence
    <3>2. RevisionsAreSpent'
      <4>1. Outstanding' = Outstanding
        BY <2>1 DEF Outstanding
      <4>2. c_channel.config + 2 * Cardinality(Outstanding) + 1
              <= 2 + c_edits + 2 * (c_edits + c_probes)
        BY <1>n, <2>5
      <4>3. c_channel'.config + 2 * Cardinality(Outstanding)
              <= 2 + c_edits + 2 * (c_edits + c_probes)
        BY <1>n, <3>1, <4>2
      <4>4. c_channel'.config + 2 * Cardinality(Outstanding) + 0
              <= 2 + c_edits + 2 * (c_edits + c_probes)
        BY <1>n, <3>1, <4>3
      <4> QED
        BY <1>n, <2>1, <3>1, <4>1, <4>4 DEF RevisionsAreSpent
    <3>3. c_channel'.config \in Credential!Configs
      BY <1>t, <1>n, <2>1, <3>1, <3>2, WithinBounds
    <3>4. Credential!TypeOK'
      <4>1. c_channel' \in [cred : Credentials, valid : BOOLEAN, config : Credential!Configs,
                            tested : {"none", "ok", "failed"}]
        BY <1>t, <2>5, <3>1, <3>3
      <4>2. c_verdict' \in [valid : Credential!Evidence, tested : Credential!Evidence]
        BY <1>t, <2>5 DEF Credential!Evidence
      <4> QED
        BY <1>t, <2>1, <2>5, <4>1, <4>2 DEF Credential!TypeOK, CredentialGates, CredentialProbes
    <3>5. Credential!StandingIsOfTheCredential'
      BY <1>0, <3>1 DEF Credential!StandingIsOfTheCredential
    <3>6. ProbesKnowTheRow'
      <4>1. \A p \in Probes : KnowsTheRow(p)'
        BY <1>n, <2>1, <3>1, StillKnows
      <4> QED
        BY <4>1 DEF KnowsTheRow, ProbesKnowTheRow
    <3> QED
      BY <2>3, <3>2, <3>4, <3>5, <3>6 DEF CredentialInv
  <2> QED
    BY <2>2, <2>4, <2>5
<1>7. ASSUME NEW p \in Probes, Credential!BeginTest(p) PROVE CredentialInv'
  <2> DEFINE begun == [pc |-> "probing", rev |-> Credential!Current,
                       cred |-> c_channel.cred, result |-> "none"]
  <2>1. /\ UNCHANGED <<c_channel, c_origin, c_rejected, c_gate, c_attempts, c_marking, c_edits,
                       c_faults, c_streak, c_verdict>>
        /\ c_probes < MaxProbes /\ c_probes' = c_probes + 1
        /\ c_probe[p] = Credential!Idle
        /\ c_probe' = [c_probe EXCEPT ![p] = begun]
        /\ c_unseen' = {p} \cup c_unseen
    BY <1>7 DEF Credential!BeginTest, Credential!StartProbe
  <2>2. /\ c_probe[p].pc = "idle" /\ c_probe'[p] = begun
        /\ \A q \in Probes \ {p} : c_probe'[q] = c_probe[q]
    BY <1>t, <2>1 DEF Credential!Idle
  <2>3. begun \in CredentialProbes
    BY <1>t, <1>c DEF CredentialProbes
  <2>4. c_probes' \in 0 .. MaxProbes
    BY <1>0, <1>t, <2>1
  <2>5. Credential!TypeOK'
    BY <1>t, <2>1, <2>3, <2>4 DEF Credential!TypeOK, CredentialGates, CredentialProbes
  <2>6. CountsAreStreaks' /\ Credential!StandingIsOfTheCredential'
    BY <1>0, <2>1 DEF CountsAreStreaks, Credential!StandingIsOfTheCredential
  <2>7. ProbesKnowTheRow'
    <3>1. \A q \in Probes \ {p} : KnowsTheRow(q)'
      BY <1>n, <2>1, <2>2, StillKnows
    <3>2. KnowsTheRow(p)'
      <4>1. /\ c_probe'[p].rev = Credential!Current /\ c_probe'[p].cred = c_channel.cred
            /\ p \in c_unseen'
        BY <2>1, <2>2
      <4>2. Credential!Current.config = c_channel.config /\ Credential!Current.origin = c_origin
        BY DEF Credential!Current
      <4> QED
        BY <1>t, <1>n, <1>c, <2>1, <4>1, <4>2 DEF KnowsTheRow
    <3> QED
      BY <3>1, <3>2 DEF KnowsTheRow, ProbesKnowTheRow
  <2>8. RevisionsAreSpent'
    <3>1. IsFiniteSet(Outstanding)' /\ Cardinality(Outstanding)' = Cardinality(Outstanding) + 1
      BY <1>n, <2>2, ProbeBegins
    <3> DEFINE held == IF c_channel.valid THEN 1 ELSE 0
    <3>2. held \in 0 .. 1 /\ held' = held
      BY <2>1
    <3>3. c_channel.config + 2 * Cardinality(Outstanding) + held
            <= 2 + c_edits + 2 * (c_edits + c_probes)
      BY <1>n
    <3> HIDE DEF held
    <3>4. c_channel.config + 2 * (Cardinality(Outstanding) + 1) + held
            <= 2 + c_edits + 2 * (c_edits + (c_probes + 1))
      BY <1>n, <3>2, <3>3
    <3> QED
      BY <1>n, <2>1, <3>1, <3>2, <3>4 DEF RevisionsAreSpent, held
  <2> QED
    BY <2>5, <2>6, <2>7, <2>8 DEF CredentialInv
<1>8. ASSUME NEW p \in Probes, Credential!Probed(p) PROVE CredentialInv'
  <2>1. /\ UNCHANGED <<c_channel, c_origin, c_rejected, c_gate, c_attempts, c_marking, c_edits,
                       c_probes, c_faults, c_streak, c_verdict, c_unseen>>
        /\ c_probe[p].pc = "probing"
        /\ \E r \in Credential!Answers(c_probe[p].cred) :
             c_probe' = [c_probe EXCEPT ![p].pc = "applying", ![p].result = r]
    BY <1>8 DEF Credential!Probed
  <2>2. PICK r \in {"other", "unauthorized", "ok"} :
             c_probe' = [c_probe EXCEPT ![p].pc = "applying", ![p].result = r]
    BY <2>1 DEF Credential!Answers
  <2> DEFINE moved == [c_probe EXCEPT ![p].pc = "applying"]
  <2>3. /\ moved \in [Probes -> CredentialProbes] /\ moved[p].pc = "applying"
        /\ moved[p].rev = c_probe[p].rev /\ moved[p].cred = c_probe[p].cred
        /\ \A q \in Probes \ {p} : moved[q] = c_probe[q]
    BY <1>t DEF CredentialProbes
  <2>4. c_probe' = [moved EXCEPT ![p].result = r]
    BY <2>2
  <2> HIDE DEF moved
  <2> DEFINE answered == [moved EXCEPT ![p].result = r]
  <2>5. /\ answered \in [Probes -> CredentialProbes] /\ answered[p].pc = "applying"
        /\ answered[p].rev = c_probe[p].rev /\ answered[p].cred = c_probe[p].cred
        /\ \A q \in Probes \ {p} : answered[q] = c_probe[q]
    BY <2>3 DEF CredentialProbes
  <2>6. c_probe' = answered
    BY <2>4
  <2> HIDE DEF answered
  <2>7. Credential!TypeOK'
    BY <1>t, <2>1, <2>5, <2>6 DEF Credential!TypeOK, CredentialGates, CredentialProbes
  <2>8. CountsAreStreaks' /\ Credential!StandingIsOfTheCredential'
    BY <1>0, <2>1 DEF CountsAreStreaks, Credential!StandingIsOfTheCredential
  <2>9. ProbesKnowTheRow'
    <3>1. \A q \in Probes : /\ c_probe'[q].pc # "idle" => c_probe[q].pc # "idle"
                            /\ c_probe'[q].rev = c_probe[q].rev /\ c_probe'[q].cred = c_probe[q].cred
      BY <2>1, <2>5, <2>6
    <3> QED
      BY <1>0, <2>1, <3>1 DEF ProbesKnowTheRow, Credential!Current, Credential!Revs,
         Credential!Configs
  <2>10. RevisionsAreSpent'
    <3>1. Outstanding' = Outstanding
      BY <2>1, <2>5, <2>6 DEF Outstanding
    <3> QED
      BY <1>0, <2>1, <3>1 DEF RevisionsAreSpent
  <2> QED
    BY <2>7, <2>8, <2>9, <2>10 DEF CredentialInv
<1>9. ASSUME NEW p \in Probes, Credential!ProbeFails(p) PROVE CredentialInv'
  <2>1. /\ UNCHANGED <<c_channel, c_origin, c_rejected, c_gate, c_attempts, c_marking, c_edits,
                       c_probes, c_streak, c_verdict, c_unseen>>
        /\ c_faults < MaxFaults /\ c_faults' = c_faults + 1
        /\ c_probe' = [c_probe EXCEPT ![p] = Credential!Idle]
    BY <1>9 DEF Credential!ProbeFails
  <2>2. Credential!Idle \in CredentialProbes /\ Credential!Idle.pc = "idle"
    BY DEF Credential!Idle, CredentialProbes
  <2>3. c_probe'[p].pc = "idle" /\ \A q \in Probes \ {p} : c_probe'[q] = c_probe[q]
    BY <1>t, <2>1, <2>2
  <2>4. Credential!TypeOK'
    BY <1>t, <1>f, <2>1, <2>2 DEF Credential!TypeOK, CredentialGates, CredentialProbes
  <2>5. CountsAreStreaks' /\ Credential!StandingIsOfTheCredential'
    BY <1>0, <2>1 DEF CountsAreStreaks, Credential!StandingIsOfTheCredential
  <2>6. ProbesKnowTheRow'
    <3>1. \A q \in Probes \ {p} : KnowsTheRow(q)'
      BY <1>n, <2>1, <2>3, StillKnows
    <3>2. KnowsTheRow(p)'
      BY <2>3 DEF KnowsTheRow
    <3> QED
      BY <3>1, <3>2 DEF KnowsTheRow, ProbesKnowTheRow
  <2>7. RevisionsAreSpent'
    <3> DEFINE held == IF c_channel.valid THEN 1 ELSE 0
    <3>1. held \in 0 .. 1 /\ held' = held
      BY <2>1
    <3>2. c_channel.config + 2 * Cardinality(Outstanding) + held
            <= 2 + c_edits + 2 * (c_edits + c_probes)
      BY <1>n
    <3>3. IsFiniteSet(Outstanding)' /\ Cardinality(Outstanding)' \in Nat
          /\ Cardinality(Outstanding)' <= Cardinality(Outstanding)
      <4>1. CASE c_probe[p].pc = "idle"
        <5>1. Outstanding' = Outstanding
          BY <2>3, <4>1 DEF Outstanding
        <5> QED
          BY <1>n, <5>1
      <4>2. CASE c_probe[p].pc # "idle"
        <5>1. IsFiniteSet(Outstanding)' /\ Cardinality(Outstanding)' = Cardinality(Outstanding) - 1
          BY <1>n, <2>3, <4>2, ProbeEnds
        <5>2. Cardinality(Outstanding)' \in Nat
          BY <5>1, FS_CardinalityType
        <5> QED
          BY <1>n, <5>1, <5>2
      <4> QED
        BY <4>1, <4>2
    <3> HIDE DEF held
    <3>4. c_channel.config + 2 * Cardinality(Outstanding)' + held
            <= 2 + c_edits + 2 * (c_edits + c_probes)
      BY <1>n, <3>1, <3>2, <3>3
    <3> QED
      BY <1>n, <2>1, <3>1, <3>3, <3>4 DEF RevisionsAreSpent, held
  <2> QED
    BY <2>4, <2>5, <2>6, <2>7 DEF CredentialInv
<1>10. ASSUME Credential!Configure PROVE CredentialInv'
  <2>1. /\ UNCHANGED <<c_rejected, c_gate, c_attempts, c_marking, c_probe,
                       c_probes, c_faults, c_streak, c_verdict, c_unseen>>
        /\ c_edits < MaxEdits /\ c_edits' = c_edits + 1
        /\ \/ c_channel' = [c_channel EXCEPT !.config = c_channel.config + 1] /\ c_origin' = c_origin
           \/ c_origin' = c_origin + 1 /\ c_channel' = c_channel
    BY <1>10 DEF Credential!Configure
  <2>2. /\ c_channel'.config \in {c_channel.config, c_channel.config + 1}
        /\ c_origin' \in {c_origin, c_origin + 1}
        /\ c_channel'.config = c_channel.config + 1 \/ c_origin' = c_origin + 1
        /\ c_channel'.valid = c_channel.valid /\ c_channel'.cred = c_channel.cred
        /\ c_channel'.tested = c_channel.tested
    BY <1>t, <2>1
  <2>3. CountsAreStreaks' /\ Credential!StandingIsOfTheCredential'
    BY <1>0, <2>1, <2>2 DEF CountsAreStreaks, Credential!StandingIsOfTheCredential
  <2>4. ProbesKnowTheRow'
    <3>1. \A q \in Probes : KnowsTheRow(q)'
      BY <1>n, <2>1, <2>2, StillKnows
    <3> QED
      BY <3>1 DEF KnowsTheRow, ProbesKnowTheRow
  <2>5. RevisionsAreSpent'
    <3>0. Outstanding' = Outstanding
      BY <2>1 DEF Outstanding
    <3> DEFINE held == IF c_channel.valid THEN 1 ELSE 0
    <3>1. held \in 0 .. 1 /\ held' = held
      BY <2>2
    <3>2. c_channel.config + 2 * Cardinality(Outstanding) + held
            <= 2 + c_edits + 2 * (c_edits + c_probes)
      BY <1>n
    <3> HIDE DEF held
    <3>3. c_channel'.config + 2 * Cardinality(Outstanding) + held
            <= 2 + (c_edits + 1) + 2 * ((c_edits + 1) + c_probes)
      BY <1>n, <2>2, <3>1, <3>2
    <3>4. c_origin' <= 1 + (c_edits + 1)
      BY <1>n, <2>2
    <3> QED
      BY <1>n, <2>1, <3>0, <3>1, <3>3, <3>4 DEF RevisionsAreSpent, held
  <2>6. c_channel'.config \in Credential!Configs /\ c_origin' \in 1 .. 1 + MaxEdits
    BY <1>t, <1>n, <1>e, <2>1, <2>2, <2>5, WithinBounds
  <2>7. Credential!TypeOK'
    <3>1. c_channel' \in [cred : Credentials, valid : BOOLEAN, config : Credential!Configs,
                          tested : {"none", "ok", "failed"}]
      BY <1>t, <2>1, <2>6
    <3> QED
      BY <1>t, <1>e, <2>1, <2>6, <3>1 DEF Credential!TypeOK, CredentialGates, CredentialProbes
  <2> QED
    BY <2>3, <2>4, <2>5, <2>7 DEF CredentialInv
<1>11. ASSUME NEW p \in Probes, Credential!Rotate(p) PROVE CredentialInv'
  <2> DEFINE after == [config |-> c_channel'.config, origin |-> c_origin]
             begun == [pc |-> "probing", rev |-> after, cred |-> c_channel'.cred, result |-> "none"]
  <2>1. /\ UNCHANGED <<c_origin, c_rejected, c_gate, c_attempts, c_marking, c_probes,
                       c_faults, c_streak, c_verdict>>
        /\ c_edits < MaxEdits /\ c_edits' = c_edits + 1
        /\ c_probe[p] = Credential!Idle
        /\ \E c \in Credentials : Credential!Rotated(c)
        /\ IF c_channel'.cred = c_channel.cred /\ c_channel.valid
           THEN UNCHANGED <<c_probe, c_unseen>>
           ELSE Credential!StartProbe(p, after, c_channel'.cred)
    BY <1>11 DEF Credential!Rotate
  <2>2. PICK c \in Credentials : Credential!Rotated(c)
    BY <2>1
  <2>3. /\ c_channel'.cred \in Credentials
        /\ \/ c_channel' = c_channel
           \/ /\ c_channel' = [c_channel EXCEPT !.cred = c, !.valid = FALSE, !.tested = "none",
                                                !.config = c_channel.config + 1]
              /\ c_channel'.cred # c_channel.cred /\ c_channel'.valid = FALSE
              /\ c_channel'.tested = "none" /\ c_channel'.config = c_channel.config + 1
    BY <1>t, <2>2 DEF Credential!Rotated
  <2>4. CountsAreStreaks' /\ Credential!StandingIsOfTheCredential'
    BY <1>0, <2>1, <2>3 DEF CountsAreStreaks, Credential!StandingIsOfTheCredential
  <2>5. CASE c_channel'.cred = c_channel.cred /\ c_channel.valid
    <3>1. UNCHANGED <<c_channel, c_probe, c_unseen>>
      BY <2>1, <2>3, <2>5
    <3>2. Credential!TypeOK'
      BY <1>t, <1>e, <2>1, <3>1 DEF Credential!TypeOK, CredentialGates, CredentialProbes
    <3> QED
      BY <1>n, <2>1, <2>4, <3>1, <3>2, GatewaySide
  <2>6. CASE ~(c_channel'.cred = c_channel.cred /\ c_channel.valid)
    <3>1. /\ c_probe' = [c_probe EXCEPT ![p] = begun] /\ p \in c_unseen'
          /\ c_unseen' \subseteq Probes
          /\ c_channel'.valid = c_channel.valid => c_unseen \subseteq c_unseen'
      BY <1>t, <2>1, <2>6 DEF Credential!StartProbe
    <3>2. c_probe[p].pc = "idle" /\ c_probe'[p] = begun
          /\ \A q \in Probes \ {p} : c_probe'[q] = c_probe[q]
      BY <1>t, <2>1, <3>1 DEF Credential!Idle
    <3>3. /\ c_channel'.config \in Nat \ {0} /\ c_channel'.valid = FALSE
          /\ c_channel'.config \in {c_channel.config, c_channel.config + 1}
      BY <1>t, <1>n, <2>3, <2>6
    <3>4. RevisionsAreSpent'
      <4>1. IsFiniteSet(Outstanding)' /\ Cardinality(Outstanding)' = Cardinality(Outstanding) + 1
        BY <1>n, <3>2, ProbeBegins
      <4> DEFINE held == IF c_channel.valid THEN 1 ELSE 0
      <4>2. held \in 0 .. 1 /\ held' = 0
        BY <3>3
      <4>3. c_channel.config + 2 * Cardinality(Outstanding) + held
              <= 2 + c_edits + 2 * (c_edits + c_probes)
        BY <1>n
      <4> HIDE DEF held
      <4>4. c_channel'.config + 2 * (Cardinality(Outstanding) + 1) + 0
              <= 2 + (c_edits + 1) + 2 * ((c_edits + 1) + c_probes)
        BY <1>n, <3>3, <4>2, <4>3
      <4>5. c_origin <= 1 + (c_edits + 1)
        BY <1>n
      <4> QED
        BY <1>n, <2>1, <3>3, <4>1, <4>4, <4>5 DEF RevisionsAreSpent
    <3>5. c_channel'.config \in Credential!Configs
      BY <1>t, <1>n, <1>e, <2>1, <3>3, <3>4, WithinBounds
    <3>6. after \in Credential!Revs
      BY <1>t, <3>5 DEF Credential!Revs
    <3>7. begun \in CredentialProbes
      BY <2>3, <3>6 DEF CredentialProbes
    <3>8. Credential!TypeOK'
      <4>1. c_channel' \in [cred : Credentials, valid : BOOLEAN, config : Credential!Configs,
                            tested : {"none", "ok", "failed"}]
        BY <1>t, <2>3, <3>5
      <4>2. c_probe' \in [Probes -> CredentialProbes]
        BY <1>t, <3>1, <3>7
      <4> QED
        BY <1>t, <1>e, <2>1, <3>1, <4>1, <4>2 DEF Credential!TypeOK, CredentialGates,
           CredentialProbes
    <3>9. ProbesKnowTheRow'
      <4>1. ASSUME NEW q \in Probes \ {p} PROVE KnowsTheRow(q)'
        <5>1. CASE c_channel' = c_channel
          BY <1>n, <2>1, <3>1, <3>2, <5>1, StillKnows
        <5>2. CASE c_channel'.config = c_channel.config + 1
          <6>1. c_channel'.config > c_channel.config /\ c_origin' >= c_origin /\ c_origin' \in Nat
            BY <1>n, <2>1, <5>2
          <6> QED
            BY <3>2, <3>3, <6>1, StillKnows
        <5> QED
          BY <2>3, <5>1, <5>2
      <4>2. KnowsTheRow(p)'
        BY <1>n, <2>1, <2>3, <3>1, <3>2, <3>3, <3>6 DEF KnowsTheRow, Credential!Revs,
           Credential!Configs
      <4> QED
        BY <4>1, <4>2 DEF KnowsTheRow, ProbesKnowTheRow
    <3> QED
      BY <2>4, <3>4, <3>8, <3>9 DEF CredentialInv
  <2> QED
    BY <2>5, <2>6
<1>12. ASSUME NEW p \in Probes, Credential!Apply(p) PROVE CredentialInv'
  <2> DEFINE r == c_probe[p].result
             valid == IF r = "other" THEN c_channel.valid ELSE r = "ok"
             here == [cred |-> c_probe[p].cred, ok |-> r = "ok"]
  <2>1. /\ UNCHANGED <<c_origin, c_rejected, c_gate, c_attempts, c_marking, c_edits, c_probes,
                       c_faults, c_streak>>
        /\ c_probe[p].pc = "applying"
        /\ c_probe' = [c_probe EXCEPT ![p] = Credential!Idle]
        /\ \/ UNCHANGED <<c_channel, c_verdict, c_unseen>>
           \/ /\ c_probe[p].rev = Credential!Current
              /\ c_channel' = [c_channel EXCEPT !.valid = valid,
                                   !.tested = IF r = "ok" THEN "ok" ELSE "failed",
                                   !.config = Credential!RevisionAfter(valid)]
              /\ c_verdict' = [valid |-> IF r = "other" THEN c_verdict.valid ELSE here,
                               tested |-> here]
              /\ c_unseen' = IF valid = c_channel.valid THEN c_unseen ELSE {}
    BY <1>12 DEF Credential!Apply, Credential!AtRevision
  <2>2. Credential!Idle \in CredentialProbes /\ Credential!Idle.pc = "idle"
    BY DEF Credential!Idle, CredentialProbes
  <2>3. /\ c_probe'[p].pc = "idle" /\ \A q \in Probes \ {p} : c_probe'[q] = c_probe[q]
        /\ c_probe' \in [Probes -> CredentialProbes]
    BY <1>t, <2>1, <2>2
  <2>4. /\ r \in {"none", "ok", "unauthorized", "other"} /\ valid \in BOOLEAN
        /\ c_probe[p].cred \in Credentials
        /\ c_probe[p].rev = Credential!Current =>
             c_probe[p].cred = c_channel.cred /\ p \in c_unseen
    BY <1>0, <1>t, <2>1 DEF CredentialProbes, ProbesKnowTheRow
  <2>5. here \in Credential!Evidence
    BY <2>4 DEF Credential!Evidence
  <2>6. /\ IsFiniteSet(Outstanding)' /\ Cardinality(Outstanding)' = Cardinality(Outstanding) - 1
        /\ Cardinality(Outstanding)' \in Nat
    <3>1. IsFiniteSet(Outstanding)' /\ Cardinality(Outstanding)' = Cardinality(Outstanding) - 1
      BY <1>n, <2>1, <2>3, ProbeEnds
    <3> QED
      BY <3>1, FS_CardinalityType
  <2>7. \/ UNCHANGED <<c_channel, c_verdict, c_unseen>>
        \/ /\ c_probe[p].rev = Credential!Current
           /\ c_channel'.valid = valid /\ c_channel'.cred = c_channel.cred
           /\ c_channel'.tested = (IF r = "ok" THEN "ok" ELSE "failed")
           /\ c_channel'.config = (IF valid = c_channel.valid THEN c_channel.config
                                   ELSE c_channel.config + 1)
           /\ c_verdict' = [valid |-> IF r = "other" THEN c_verdict.valid ELSE here,
                            tested |-> here]
           /\ c_unseen' = IF valid = c_channel.valid THEN c_unseen ELSE {}
    BY <1>t, <2>1 DEF Credential!RevisionAfter
  <2>8. CountsAreStreaks'
    BY <1>0, <2>1 DEF CountsAreStreaks
  <2>9. Credential!StandingIsOfTheCredential'
    <3>1. CASE UNCHANGED <<c_channel, c_verdict, c_unseen>>
      BY <1>0, <3>1 DEF Credential!StandingIsOfTheCredential
    <3>2. CASE ~UNCHANGED <<c_channel, c_verdict, c_unseen>>
      <4>1. /\ c_verdict'.tested = here
            /\ c_verdict'.valid = (IF r = "other" THEN c_verdict.valid ELSE here)
            /\ here.cred = c_channel.cred /\ (here.ok <=> r = "ok")
        <5>1. c_verdict' = [valid |-> IF r = "other" THEN c_verdict.valid ELSE here,
                            tested |-> here]
          BY <2>7, <3>2
        <5>2. here.cred = c_channel.cred /\ (here.ok <=> r = "ok")
          BY <2>4, <2>7, <3>2
        <5> HIDE DEF here, r
        <5> QED
          BY <5>1, <5>2
      <4>2. c_channel'.valid =>
              c_verdict'.valid.cred = c_channel'.cred /\ c_verdict'.valid.ok
        <5>1. CASE r = "other"
          BY <1>0, <2>7, <3>2, <4>1, <5>1 DEF Credential!StandingIsOfTheCredential
        <5>2. CASE r # "other"
          BY <2>7, <3>2, <4>1, <5>2
        <5> QED
          BY <5>1, <5>2
      <4>3. c_verdict'.tested.cred = c_channel'.cred
            /\ (c_verdict'.tested.ok <=> c_channel'.tested = "ok")
        BY <2>7, <3>2, <4>1
      <4> QED
        BY <4>2, <4>3 DEF Credential!StandingIsOfTheCredential
    <3> QED
      BY <3>1, <3>2
  <2>10. ProbesKnowTheRow'
    <3>1. ASSUME NEW q \in Probes \ {p} PROVE KnowsTheRow(q)'
      <4>1. /\ c_channel'.cred = c_channel.cred
            /\ \/ c_channel'.config = c_channel.config /\ c_unseen' = c_unseen
               \/ c_channel'.config = c_channel.config + 1
        BY <2>7
      <4>2. CASE c_channel'.config = c_channel.config /\ c_unseen' = c_unseen
        BY <1>n, <2>1, <2>3, <4>1, <4>2, StillKnows
      <4>3. CASE c_channel'.config = c_channel.config + 1
        <5>1. /\ c_channel'.config > c_channel.config /\ c_channel'.config \in Nat
              /\ c_origin' >= c_origin /\ c_origin' \in Nat
          BY <1>n, <2>1, <4>3
        <5> QED
          BY <2>3, <5>1, StillKnows
      <4> QED
        BY <4>1, <4>2, <4>3
    <3>2. KnowsTheRow(p)'
      BY <2>3 DEF KnowsTheRow
    <3> QED
      BY <3>1, <3>2 DEF KnowsTheRow, ProbesKnowTheRow
  <2>11. RevisionsAreSpent'
    <3> DEFINE held == IF c_channel.valid THEN 1 ELSE 0
    <3>1. /\ held \in 0 .. 1 /\ held' \in 0 .. 1
          /\ \/ c_channel'.config = c_channel.config /\ held' = held
             \/ c_channel'.config = c_channel.config + 1
      BY <2>7
    <3>2. c_channel.config + 2 * Cardinality(Outstanding) + held
            <= 2 + c_edits + 2 * (c_edits + c_probes)
      BY <1>n
    <3> DEFINE heldAfter == held'
    <3>3. heldAfter \in 0 .. 1 /\ (c_channel'.config = c_channel.config => heldAfter = held)
          /\ c_channel'.config \in {c_channel.config, c_channel.config + 1}
      BY <1>n, <3>1
    <3>4. heldAfter = IF c_channel'.valid THEN 1 ELSE 0
      OBVIOUS
    <3> HIDE DEF held, heldAfter
    <3>5. c_channel'.config + 2 * (Cardinality(Outstanding) - 1) + heldAfter
            <= 2 + c_edits + 2 * (c_edits + c_probes)
      BY <1>n, <3>1, <3>2, <3>3
    <3> QED
      BY <1>n, <2>1, <2>6, <3>4, <3>5 DEF RevisionsAreSpent
  <2>12. c_channel'.config \in Credential!Configs
    <3>1. c_channel'.config \in Nat \ {0}
      BY <1>n, <2>7
    <3> QED
      BY <1>t, <1>n, <2>1, <2>11, <3>1, WithinBounds
  <2>13. Credential!TypeOK'
    <3>1. c_channel' \in [cred : Credentials, valid : BOOLEAN, config : Credential!Configs,
                          tested : {"none", "ok", "failed"}]
      BY <1>t, <2>1, <2>4, <2>7, <2>12
    <3>2. c_verdict' \in [valid : Credential!Evidence, tested : Credential!Evidence]
      BY <1>t, <2>5, <2>7
    <3>3. c_unseen' \subseteq Probes
      BY <1>t, <2>7
    <3> QED
      BY <1>t, <2>1, <2>3, <3>1, <3>2, <3>3 DEF Credential!TypeOK, CredentialGates,
         CredentialProbes
  <2> QED
    BY <2>8, <2>9, <2>10, <2>11, <2>13 DEF CredentialInv
<1>13. CASE UNCHANGED Credential!vars
  <2>1. UNCHANGED <<c_channel, c_origin, c_rejected, c_gate, c_attempts, c_marking, c_probe,
                    c_edits, c_probes, c_faults, c_streak, c_verdict, c_unseen>>
    BY <1>13 DEF Credential!vars
  <2>2. Credential!TypeOK'
    BY <1>t, <2>1 DEF Credential!TypeOK, CredentialGates, CredentialProbes
  <2>3. CountsAreStreaks'
    BY <1>0, <2>1 DEF CountsAreStreaks
  <2> QED
    BY <1>n, <2>1, <2>2, <2>3, GatewaySide
<1> QED
  BY <1>1, <1>2, <1>3, <1>4, <1>5, <1>6, <1>7, <1>8, <1>9, <1>10, <1>11, <1>12, <1>13
  DEF Credential!Next

LEMMA CredentialInvHolds ==
    ASSUME Credential!GateAssumption PROVE Credential!Spec => []CredentialInv
<1>1. ASSUME Credential!Init PROVE CredentialInv
  <2>0. /\ Threshold \in Nat \ {0} /\ MaxEdits \in Nat /\ MaxProbes \in Nat /\ MaxFaults \in Nat
    BY DEF Credential!GateAssumption
  <2>1. PICK c \in Credentials :
          c_channel = [cred |-> c, valid |-> TRUE, config |-> 1, tested |-> "none"]
    BY <1>1 DEF Credential!Init
  <2>2. 1 \in Credential!Configs /\ 1 \in 1 .. 1 + MaxEdits
    BY <2>0 DEF Credential!Configs
  <2>3. Credential!Idle \in CredentialProbes /\ Credential!Idle.pc = "idle"
    BY DEF Credential!Idle, CredentialProbes
  <2>4. c_verdict = [valid |-> [cred |-> c, ok |-> TRUE],
                     tested |-> [cred |-> NoCred, ok |-> TRUE]]
    BY <1>1, <2>1 DEF Credential!Init
  <2>5. c_verdict \in [valid : Credential!Evidence, tested : Credential!Evidence]
    BY <2>4 DEF Credential!Evidence
  <2>6. c_probe \in [Probes -> CredentialProbes] /\ \A p \in Probes : c_probe[p].pc = "idle"
    BY <1>1, <2>3 DEF Credential!Init
  <2>7. Credential!TypeOK
    BY <1>1, <2>0, <2>1, <2>2, <2>5, <2>6 DEF Credential!Init, Credential!TypeOK,
       CredentialProbes
  <2>8. Credential!StandingIsOfTheCredential
    BY <2>1, <2>4 DEF Credential!StandingIsOfTheCredential
  <2>9. CountsAreStreaks
    BY <1>1, <2>0 DEF Credential!Init, CountsAreStreaks
  <2>10. ProbesKnowTheRow
    BY <2>6 DEF ProbesKnowTheRow
  <2>11. RevisionsAreSpent
    <3>1. Outstanding = {}
      BY <2>6 DEF Outstanding
    <3>2. IsFiniteSet(Outstanding) /\ Cardinality(Outstanding) = 0
      BY <3>1, FS_EmptySet
    <3> QED
      BY <1>1, <2>1, <3>2 DEF Credential!Init, RevisionsAreSpent
  <2> QED
    BY <2>7, <2>8, <2>9, <2>10, <2>11 DEF CredentialInv
<1>2. CredentialInv /\ [Credential!Next]_(Credential!vars) => CredentialInv'
  BY CredentialStep
<1> QED
  BY <1>1, <1>2, PTL DEF Credential!Spec

\* The standing of a channel, and the summary of its last test, speak of the
\* credential it has now: a verdict of ApplyChannelProbeResult or of
\* ApplyRuntime401CredentialInvalidation on an earlier one is not taken.
THEOREM StandingIsOfTheCredentialTheorem ==
    ASSUME Credential!GateAssumption
    PROVE  Credential!Spec => [](Credential!TypeOK /\ Credential!StandingIsOfTheCredential)
<1>1. CredentialInv => Credential!TypeOK /\ Credential!StandingIsOfTheCredential
  BY DEF CredentialInv
<1> QED
  BY <1>1, CredentialInvHolds, PTL

\* A gateway asks for an invalidation only behind an unbroken streak of as many
\* 401s of one revision as the threshold says (RecordCredentialOutcome).
THEOREM OnlyAStreakInvalidatesTheorem ==
    ASSUME Credential!GateAssumption
    PROVE  Credential!Spec => Credential!OnlyAStreakInvalidates
<1> DEFINE Asks == \A g \in Gateways :
             c_marking[g] = NoRev /\ c_marking'[g] # NoRev =>
               c_streak'[g][c_marking'[g]] >= Threshold
<1>1. ASSUME CredentialInv, [Credential!Next]_(Credential!vars)
      PROVE  [Asks]_(Credential!vars)
  <2> USE DEF Credential!row, Credential!gateway, Credential!bounds
  <2>1. ASSUME NEW a \in c_attempts, Credential!EndAttempt(a) PROVE Asks
    BY <1>1, <2>1, CountStep DEF Credential!EndAttempt
  <2>2. ASSUME \/ UNCHANGED c_marking
               \/ \E g \in Gateways : c_marking' = [c_marking EXCEPT ![g] = NoRev]
        PROVE  Asks
    <3>1. c_marking \in [Gateways -> Credential!Revs \cup {NoRev}]
      BY <1>1 DEF CredentialInv, Credential!TypeOK
    <3> QED
      BY <2>2, <3>1
  <2>3. \/ \E a \in c_attempts : Credential!EndAttempt(a)
        \/ UNCHANGED c_marking
        \/ \E g \in Gateways : c_marking' = [c_marking EXCEPT ![g] = NoRev]
        \/ UNCHANGED Credential!vars
    BY <1>1 DEF Credential!Next, Credential!BeginAttempt, Credential!Invalidate,
       Credential!InvalidationFails, Credential!GatewayRestarts, Credential!BeginTest,
       Credential!Rotate, Credential!Probed, Credential!ProbeFails, Credential!Apply,
       Credential!Configure, Credential!Revoke
  <2> QED
    BY <2>1, <2>2, <2>3
<1> QED
  BY <1>1, CredentialInvHolds, PTL DEF Credential!Spec, Credential!OnlyAStreakInvalidates

\* Only a probe begun after the channel was taken out brings it back: a success
\* measured before the 401s that took it out is at an earlier revision.
THEOREM OnlyLaterEvidenceRestoresTheorem ==
    ASSUME Credential!GateAssumption
    PROVE  Credential!Spec => Credential!OnlyLaterEvidenceRestores
<1> DEFINE Restores == ~c_channel.valid /\ c_channel'.valid =>
             \E p \in c_unseen : c_probe[p].pc = "applying" /\ c_probe'[p] = Credential!Idle
<1>1. ASSUME CredentialInv, [Credential!Next]_(Credential!vars)
      PROVE  [Restores]_(Credential!vars)
  <2> USE DEF Credential!row, Credential!gateway, Credential!bounds
  <2>1. /\ c_channel \in [cred : Credentials, valid : BOOLEAN, config : Credential!Configs,
                          tested : {"none", "ok", "failed"}]
        /\ c_probe \in [Probes -> CredentialProbes]
    BY <1>1 DEF CredentialInv, Credential!TypeOK, CredentialProbes
  <2>2. ASSUME NEW p \in Probes, Credential!Apply(p) PROVE Restores
    <3>1. /\ c_probe[p].pc = "applying" /\ c_probe' = [c_probe EXCEPT ![p] = Credential!Idle]
          /\ UNCHANGED c_channel \/ c_probe[p].rev = Credential!Current
      BY <2>2 DEF Credential!Apply, Credential!AtRevision
    <3>2. c_probe[p].rev = Credential!Current => p \in c_unseen
      BY <1>1, <3>1 DEF CredentialInv, ProbesKnowTheRow
    <3>3. c_probe'[p] = Credential!Idle
      BY <2>1, <3>1
    <3> QED
      BY <3>1, <3>2, <3>3
  <2>3. ASSUME UNCHANGED c_channel \/ c_channel'.valid = FALSE \/ c_channel'.valid = c_channel.valid
        PROVE  Restores
    BY <2>3
  <2>4. ASSUME NEW g \in Gateways, Credential!Invalidate(g)
        PROVE  UNCHANGED c_channel \/ c_channel'.valid = FALSE
    BY <2>1, <2>4 DEF Credential!Invalidate
  <2>5. ASSUME NEW p \in Probes, Credential!Rotate(p)
        PROVE  UNCHANGED c_channel \/ c_channel'.valid = FALSE
    BY <2>1, <2>5 DEF Credential!Rotate, Credential!Rotated
  <2>6. ASSUME Credential!Configure
        PROVE  UNCHANGED c_channel \/ c_channel'.valid = c_channel.valid
    BY <2>1, <2>6 DEF Credential!Configure
  <2>7. \/ \E p \in Probes : Credential!Apply(p) \/ Credential!Rotate(p)
        \/ \E g \in Gateways : Credential!Invalidate(g)
        \/ Credential!Configure
        \/ UNCHANGED c_channel
    BY <1>1 DEF Credential!Next, Credential!vars, Credential!BeginAttempt, Credential!EndAttempt,
       Credential!InvalidationFails, Credential!GatewayRestarts, Credential!BeginTest,
       Credential!Probed, Credential!ProbeFails, Credential!Revoke
  <2> QED
    BY <2>2, <2>3, <2>4, <2>5, <2>6, <2>7
<1> QED
  BY <1>1, CredentialInvHolds, PTL DEF Credential!Spec, Credential!OnlyLaterEvidenceRestores

-----------------------------------------------------------------------------
(***************************************************************************)
(* The recheck of 403 pauses.  The claim script takes a member out of the  *)
(* hands of whoever held it and a newer pause drops the token: a worker    *)
(* that was overtaken has lost its claim for good (OvertakenHaveLost).     *)
(***************************************************************************)
CONSTANTS ModelBindings, Upstreams, Attempts, Workers, Lease, InitialBackoff, MaximumBackoff,
          MaxRev, MaxToggles, Prompt
VARIABLES q_rev, q_row, q_granted, q_record, q_queue, q_attempt, q_worker, q_outdated,
          q_edits, q_toggles, q_faults

Recheck == INSTANCE PermissionRecheck WITH
    Bindings <- ModelBindings,
    rev <- q_rev, row <- q_row, granted <- q_granted, record <- q_record,
    queue <- q_queue, attempt <- q_attempt, worker <- q_worker,
    outdated <- q_outdated, edits <- q_edits, toggles <- q_toggles, faults <- q_faults

\* Who is at work is at work on a binding.
AtWorkOnABinding ==
    /\ \A a \in Attempts : q_attempt[a].pc # "idle" => q_attempt[a].b \in ModelBindings
    /\ \A w \in Workers : q_worker[w].pc # "idle" => q_worker[w].b \in ModelBindings

OvertakenHaveLost ==
    \A w \in Workers : q_outdated[w] => q_worker[w].pc # "idle" /\ ~Recheck!SameClaim(w)

RecheckInv ==
    /\ Recheck!TypeOK /\ Recheck!PendingIsQueued /\ AtWorkOnABinding /\ OvertakenHaveLost

RecheckAttempts ==
    [pc : {"idle", "candidate", "calling", "feedback"}, b : ModelBindings \cup {Recheck!NoBinding},
     rev : Recheck!Revisions, upstream : Upstreams]
RecheckWorkers ==
    [pc : {"idle", "claimed", "probing", "probed", "complete"},
     b : ModelBindings \cup {Recheck!NoBinding}, rev : Recheck!Revisions,
     attempts : 0 .. Recheck!AttemptCap, upstream : Upstreams,
     verdict : {"failed", "succeeded", "stale"}]

\* The constants, and what everybody starts from.
LEMMA RecheckFacts ==
    ASSUME Recheck!RecheckAssumption
    PROVE  /\ Lease \in Nat \ {0} /\ InitialBackoff \in Nat \ {0}
           /\ MaximumBackoff \in Nat \ {0} /\ MaxRev \in Nat \ {0}
           /\ MaxEdits \in Nat /\ MaxToggles \in Nat /\ MaxFaults \in Nat
           /\ Recheck!AnUpstream \in Upstreams
           /\ Recheck!First \in Recheck!Revisions
           /\ Recheck!NotQueued \in Nat /\ Lease < Recheck!NotQueued /\ 0 < Recheck!NotQueued
           /\ Recheck!AttemptCap \in Nat /\ 0 \in 0 .. Recheck!AttemptCap
           /\ \A u \in Upstreams : Recheck!IdleAttempt(u) \in RecheckAttempts
                                   /\ Recheck!IdleWorker(u) \in RecheckWorkers
<1>1. /\ Lease \in Nat \ {0} /\ InitialBackoff \in Nat \ {0}
      /\ MaximumBackoff \in Nat \ {0} /\ MaxRev \in Nat \ {0}
      /\ MaxEdits \in Nat /\ MaxToggles \in Nat /\ MaxFaults \in Nat
      /\ Upstreams # {}
  BY DEF Recheck!RecheckAssumption
<1>2. Recheck!AnUpstream \in Upstreams
  BY <1>1 DEF Recheck!AnUpstream
<1>3. Recheck!First \in Recheck!Revisions
  BY <1>1 DEF Recheck!First, Recheck!Revisions
<1>4. /\ Recheck!NotQueued \in Nat /\ Lease < Recheck!NotQueued /\ 0 < Recheck!NotQueued
      /\ Recheck!AttemptCap \in Nat /\ 0 \in 0 .. Recheck!AttemptCap
  BY <1>1 DEF Recheck!NotQueued, Recheck!AttemptCap
<1>5. \A u \in Upstreams : Recheck!IdleAttempt(u) \in RecheckAttempts
                           /\ Recheck!IdleWorker(u) \in RecheckWorkers
  BY <1>3, <1>4 DEF Recheck!IdleAttempt, Recheck!IdleWorker, RecheckAttempts, RecheckWorkers
<1> QED
  BY <1>1, <1>2, <1>3, <1>4, <1>5

\* The backoff is one the queue can hold.
LEMMA BackoffIsQueued ==
    ASSUME Recheck!RecheckAssumption, NEW n
    PROVE  Recheck!Backoff(n) \in 0 .. Recheck!NotQueued /\ Recheck!Backoff(n) # Recheck!NotQueued
<1> DEFINE doubled == InitialBackoff * 2^(IF n > 1 THEN n - 1 ELSE 0)
<1>1. Recheck!Backoff(n) = IF doubled \in 0 .. MaximumBackoff THEN doubled ELSE MaximumBackoff
  BY DEF Recheck!Backoff
<1> HIDE DEF doubled
<1>2. Recheck!Backoff(n) \in 0 .. MaximumBackoff
  BY <1>1, RecheckFacts
<1> QED
  BY <1>2, RecheckFacts DEF Recheck!NotQueued

\* A step that leaves the pauses and their workers alone.
LEMMA PausesUntouched ==
    ASSUME RecheckInv, Recheck!TypeOK',
           UNCHANGED <<q_record, q_queue, q_worker, q_outdated>>,
           \A a \in Attempts : q_attempt'[a].pc # "idle" => q_attempt'[a].b \in ModelBindings
    PROVE  RecheckInv'
<1>1. Recheck!PendingIsQueued'
  BY DEF RecheckInv, Recheck!PendingIsQueued, Recheck!Pending, Recheck!NotQueued
<1>2. OvertakenHaveLost'
  BY DEF RecheckInv, OvertakenHaveLost, Recheck!SameClaim
<1>3. AtWorkOnABinding'
  BY DEF RecheckInv, AtWorkOnABinding
<1> QED
  BY <1>1, <1>2, <1>3 DEF RecheckInv

\* A step of worker w by which no other worker gains or loses.
LEMMA WorkerGoesOn ==
    ASSUME RecheckInv, Recheck!TypeOK', NEW w \in Workers,
           UNCHANGED <<q_record, q_queue, q_attempt>>,
           \A v \in Workers \ {w} : q_worker'[v] = q_worker[v] /\ q_outdated'[v] = q_outdated[v],
           \/ /\ q_worker'[w].pc # "idle" /\ q_worker[w].pc # "idle"
              /\ q_worker'[w].b = q_worker[w].b /\ q_worker'[w].rev = q_worker[w].rev
              /\ q_outdated'[w] = q_outdated[w]
           \/ q_worker'[w].pc = "idle" /\ q_outdated'[w] = FALSE
    PROVE  RecheckInv'
<1>1. Recheck!PendingIsQueued'
  BY DEF RecheckInv, Recheck!PendingIsQueued, Recheck!Pending, Recheck!NotQueued
<1>2. OvertakenHaveLost'
  BY DEF RecheckInv, OvertakenHaveLost, Recheck!SameClaim
<1>3. AtWorkOnABinding'
  BY DEF RecheckInv, AtWorkOnABinding
<1> QED
  BY <1>1, <1>2, <1>3 DEF RecheckInv

LEMMA RecheckStep ==
    ASSUME Recheck!RecheckAssumption, RecheckInv, [Recheck!Next]_(Recheck!vars)
    PROVE  RecheckInv'
<1>t. /\ q_rev \in Recheck!Revisions /\ q_row \in [ModelBindings -> Recheck!Rows]
      /\ q_granted \subseteq Upstreams
      /\ q_record \in [ModelBindings -> Recheck!Records]
      /\ q_queue \in [ModelBindings -> 0 .. Recheck!NotQueued]
      /\ q_attempt \in [Attempts -> RecheckAttempts]
      /\ q_worker \in [Workers -> RecheckWorkers]
      /\ q_outdated \in [Workers -> BOOLEAN]
      /\ q_edits \in 0 .. MaxEdits /\ q_toggles \in 0 .. MaxToggles /\ q_faults \in 0 .. MaxFaults
  BY DEF RecheckInv, Recheck!TypeOK, RecheckAttempts, RecheckWorkers
<1>c. /\ Lease \in Nat \ {0} /\ MaxRev \in Nat \ {0}
      /\ MaxEdits \in Nat /\ MaxToggles \in Nat /\ MaxFaults \in Nat
      /\ Recheck!AnUpstream \in Upstreams /\ Recheck!First \in Recheck!Revisions
      /\ Recheck!NotQueued \in Nat /\ Lease < Recheck!NotQueued /\ 0 < Recheck!NotQueued
      /\ Recheck!AttemptCap \in Nat /\ 0 \in 0 .. Recheck!AttemptCap
      /\ Recheck!IdleAttempt(Recheck!AnUpstream) \in RecheckAttempts
      /\ Recheck!IdleWorker(Recheck!AnUpstream) \in RecheckWorkers
  BY RecheckFacts
<1>b. /\ \A a \in Attempts : q_attempt[a].pc # "idle" => q_attempt[a].b \in ModelBindings
      /\ \A w \in Workers : q_worker[w].pc # "idle" => q_worker[w].b \in ModelBindings
  BY DEF RecheckInv, AtWorkOnABinding
<1>f. q_faults < MaxFaults => q_faults + 1 \in 0 .. MaxFaults
  BY <1>t, <1>c
<1>1. ASSUME Recheck!Environment PROVE RecheckInv'
  <2>1. /\ UNCHANGED <<q_record, q_queue, q_attempt, q_worker, q_outdated, q_faults>>
        /\ \/ q_rev' = q_rev
           \/ q_rev.config < MaxRev /\ q_rev' = [q_rev EXCEPT !.config = q_rev.config + 1]
           \/ q_rev.provider < MaxRev /\ q_rev' = [q_rev EXCEPT !.provider = q_rev.provider + 1]
        /\ \/ q_row' = q_row
           \/ \E b \in ModelBindings, s \in {"absent", "disabled", "enabled"}, u \in Upstreams :
                q_row' = [q_row EXCEPT ![b] = [status |-> s, upstream |-> u]]
           \/ \E b \in ModelBindings : q_row' = [q_row EXCEPT ![b].status = "absent"]
        /\ q_granted' \subseteq Upstreams
        /\ q_edits' = q_edits \/ (q_edits < MaxEdits /\ q_edits' = q_edits + 1)
        /\ q_toggles' = q_toggles \/ (q_toggles < MaxToggles /\ q_toggles' = q_toggles + 1)
    BY <1>1, <1>t DEF Recheck!Environment, Recheck!Configure, Recheck!DeleteChannelModel,
       Recheck!CreateChannelModel, Recheck!UpdateChannelModel, Recheck!Toggle
  <2>2. q_rev' \in Recheck!Revisions
    BY <1>t, <1>c, <2>1 DEF Recheck!Revisions
  <2>3. q_row' \in [ModelBindings -> Recheck!Rows]
    BY <1>t, <2>1 DEF Recheck!Rows
  <2>4. q_edits' \in 0 .. MaxEdits /\ q_toggles' \in 0 .. MaxToggles
    BY <1>t, <1>c, <2>1
  <2>5. Recheck!TypeOK'
    BY <1>t, <2>1, <2>2, <2>3, <2>4 DEF Recheck!TypeOK, RecheckAttempts, RecheckWorkers
  <2> QED
    BY <1>b, <2>1, <2>5, PausesUntouched
<1>2. ASSUME Recheck!Tick PROVE RecheckInv'
  <2>1. /\ UNCHANGED <<q_rev, q_row, q_granted, q_record, q_attempt, q_worker, q_outdated,
                       q_edits, q_toggles, q_faults>>
        /\ q_queue' = [b \in ModelBindings |-> IF q_queue[b] # Recheck!NotQueued /\ q_queue[b] > 0
                                          THEN q_queue[b] - 1 ELSE q_queue[b]]
    BY <1>2 DEF Recheck!Tick
  <2>2. /\ q_queue' \in [ModelBindings -> 0 .. Recheck!NotQueued]
        /\ \A b \in ModelBindings : q_queue'[b] = Recheck!NotQueued <=> q_queue[b] = Recheck!NotQueued
    BY <1>t, <1>c, <2>1
  <2>3. Recheck!TypeOK'
    BY <1>t, <2>1, <2>2 DEF Recheck!TypeOK, RecheckAttempts, RecheckWorkers
  <2>4. Recheck!PendingIsQueued'
    BY <2>1, <2>2 DEF RecheckInv, Recheck!PendingIsQueued
  <2>5. AtWorkOnABinding' /\ OvertakenHaveLost'
    BY <2>1 DEF RecheckInv, AtWorkOnABinding, OvertakenHaveLost, Recheck!SameClaim
  <2> QED
    BY <2>3, <2>4, <2>5 DEF RecheckInv
<1>3. ASSUME NEW a \in Attempts,
             \/ \E b \in ModelBindings : Recheck!SelectCandidate(a, b)
             \/ Recheck!Admit(a) \/ Recheck!Answer(a) \/ Recheck!FeedbackLost(a)
      PROVE  RecheckInv'
  <2>1. /\ UNCHANGED <<q_rev, q_row, q_granted, q_record, q_queue, q_worker, q_outdated,
                       q_edits, q_toggles>>
        /\ q_faults' = q_faults \/ (q_faults < MaxFaults /\ q_faults' = q_faults + 1)
        /\ \/ \E b \in ModelBindings :
                q_attempt' = [q_attempt EXCEPT ![a] = [pc |-> "candidate", b |-> b, rev |-> q_rev,
                                                       upstream |-> q_row[b].upstream]]
           \/ q_attempt' = [q_attempt EXCEPT ![a] = Recheck!IdleAttempt(Recheck!AnUpstream)]
           \/ /\ q_attempt[a].pc # "idle"
              /\ \E s \in {"calling", "feedback"} :
                   q_attempt' = [q_attempt EXCEPT ![a] = [q_attempt[a] EXCEPT !.pc = s]]
    BY <1>3, <1>t DEF Recheck!SelectCandidate, Recheck!Admit, Recheck!Answer, Recheck!FeedbackLost
  <2>2. q_attempt' \in [Attempts -> RecheckAttempts]
    BY <1>t, <1>c, <2>1 DEF RecheckAttempts, Recheck!Rows
  <2>3. \A d \in Attempts : q_attempt'[d].pc # "idle" => q_attempt'[d].b \in ModelBindings
    <3>1. Recheck!IdleAttempt(Recheck!AnUpstream).pc = "idle"
      BY DEF Recheck!IdleAttempt
    <3>2. ASSUME NEW d \in Attempts, d # a, q_attempt'[d].pc # "idle"
          PROVE  q_attempt'[d].b \in ModelBindings
      <4>1. q_attempt'[d] = q_attempt[d]
        BY <1>t, <2>1, <3>2
      <4> QED
        BY <1>b, <3>2, <4>1
    <3>3. ASSUME q_attempt'[a].pc # "idle" PROVE q_attempt'[a].b \in ModelBindings
      <4>1. CASE \E b \in ModelBindings :
                   q_attempt' = [q_attempt EXCEPT ![a] = [pc |-> "candidate", b |-> b,
                                   rev |-> q_rev, upstream |-> q_row[b].upstream]]
        BY <1>t, <4>1
      <4>2. CASE q_attempt' = [q_attempt EXCEPT ![a] = Recheck!IdleAttempt(Recheck!AnUpstream)]
        BY <1>t, <3>1, <3>3, <4>2
      <4>3. CASE /\ q_attempt[a].pc # "idle"
                 /\ \E s \in {"calling", "feedback"} :
                      q_attempt' = [q_attempt EXCEPT ![a] = [q_attempt[a] EXCEPT !.pc = s]]
        <5>1. PICK s \in {"calling", "feedback"} :
                q_attempt' = [q_attempt EXCEPT ![a] = [q_attempt[a] EXCEPT !.pc = s]]
          BY <4>3
        <5>2. q_attempt'[a] = [q_attempt[a] EXCEPT !.pc = s] /\ q_attempt[a] \in RecheckAttempts
          BY <1>t, <5>1
        <5>3. q_attempt'[a].b = q_attempt[a].b
          BY <5>2 DEF RecheckAttempts
        <5> QED
          BY <1>b, <4>3, <5>3
      <4> QED
        BY <2>1, <4>1, <4>2, <4>3
    <3> QED
      BY <3>2, <3>3
  <2>4. Recheck!TypeOK'
    BY <1>t, <1>f, <2>1, <2>2 DEF Recheck!TypeOK, RecheckAttempts, RecheckWorkers
  <2>5. UNCHANGED <<q_record, q_queue, q_worker, q_outdated>>
    BY <2>1
  <2> QED
    BY <2>3, <2>4, <2>5, PausesUntouched
<1>4. ASSUME NEW a \in Attempts, Recheck!ApplyFeedback(a) PROVE RecheckInv'
  <2> DEFINE b == q_attempt[a].b
             r == q_attempt[a].rev
             fresh == [state |-> "queued", rev |-> r, attempts |-> 0, token |-> Recheck!NoBinding]
  <2>1. /\ UNCHANGED <<q_rev, q_row, q_granted, q_worker, q_edits, q_toggles, q_faults>>
        /\ q_attempt[a].pc = "feedback"
        /\ q_attempt' = [q_attempt EXCEPT ![a] = Recheck!IdleAttempt(Recheck!AnUpstream)]
        /\ Recheck!PauseChannelModelPermission(b, r)
    BY <1>4 DEF Recheck!ApplyFeedback
  <2>2. b \in ModelBindings /\ r \in Recheck!Revisions
    BY <1>t, <1>b, <2>1 DEF RecheckAttempts
  <2>3. /\ q_attempt' \in [Attempts -> RecheckAttempts]
        /\ \A d \in Attempts : q_attempt'[d].pc # "idle" => q_attempt'[d].b \in ModelBindings
    <3>1. Recheck!IdleAttempt(Recheck!AnUpstream).pc = "idle"
      BY DEF Recheck!IdleAttempt
    <3> QED
      BY <1>t, <1>c, <1>b, <2>1, <3>1
  <2>4. \/ UNCHANGED <<q_record, q_queue, q_outdated>>
        \/ /\ q_record[b].state \in Recheck!Pending /\ UNCHANGED <<q_record, q_outdated>>
           /\ q_queue' = [q_queue EXCEPT ![b] =
                            IF q_queue[b] = Recheck!NotQueued THEN 0 ELSE q_queue[b]]
        \/ /\ q_record' = [q_record EXCEPT ![b] = fresh] /\ q_queue' = [q_queue EXCEPT ![b] = 0]
           /\ q_outdated' = Recheck!Overtaken(b)
    <3> HIDE DEF b, r
    <3> QED
      BY <2>1 DEF Recheck!PauseChannelModelPermission
  <2> HIDE DEF b, r
  <2>5. CASE UNCHANGED <<q_record, q_queue, q_outdated>>
    <3>1. Recheck!TypeOK'
      BY <1>t, <2>1, <2>3, <2>5 DEF Recheck!TypeOK, RecheckAttempts, RecheckWorkers
    <3> QED
      BY <2>1, <2>3, <2>5, <3>1, PausesUntouched
  <2>6. CASE /\ q_record[b].state \in Recheck!Pending /\ UNCHANGED <<q_record, q_outdated>>
             /\ q_queue' = [q_queue EXCEPT ![b] =
                              IF q_queue[b] = Recheck!NotQueued THEN 0 ELSE q_queue[b]]
    <3>1. q_queue[b] # Recheck!NotQueued
      BY <2>2, <2>6 DEF RecheckInv, Recheck!PendingIsQueued
    <3>2. q_queue' = q_queue
      BY <1>t, <2>2, <2>6, <3>1
    <3>3. Recheck!TypeOK'
      BY <1>t, <2>1, <2>3, <2>6, <3>2 DEF Recheck!TypeOK, RecheckAttempts, RecheckWorkers
    <3> QED
      BY <2>1, <2>3, <2>6, <3>2, <3>3, PausesUntouched
  <2>7. CASE /\ q_record' = [q_record EXCEPT ![b] = fresh] /\ q_queue' = [q_queue EXCEPT ![b] = 0]
             /\ q_outdated' = Recheck!Overtaken(b)
    <3>1. fresh \in Recheck!Records /\ fresh.state = "queued"
      BY <1>c, <2>2 DEF Recheck!Records, Recheck!States
    <3> HIDE DEF fresh
    <3>2. /\ q_record' \in [ModelBindings -> Recheck!Records]
          /\ q_record'[b].state = "queued" /\ q_queue'[b] = 0
          /\ \A d \in ModelBindings \ {b} : q_record'[d] = q_record[d] /\ q_queue'[d] = q_queue[d]
          /\ q_queue' \in [ModelBindings -> 0 .. Recheck!NotQueued]
      BY <1>t, <1>c, <2>2, <2>7, <3>1
    <3>3. /\ q_outdated' \in [Workers -> BOOLEAN]
          /\ \A w \in Workers : q_outdated'[w] =>
               q_outdated[w] \/ (q_worker[w].pc # "idle" /\ q_worker[w].b = b)
      BY <1>t, <2>7 DEF Recheck!Overtaken
    <3>4. Recheck!TypeOK'
      BY <1>t, <2>1, <2>3, <3>2, <3>3 DEF Recheck!TypeOK, RecheckAttempts, RecheckWorkers
    <3>5. Recheck!PendingIsQueued'
      BY <1>c, <2>2, <3>2 DEF RecheckInv, Recheck!PendingIsQueued, Recheck!Pending,
         Recheck!NotQueued
    <3>6. OvertakenHaveLost'
      <4> SUFFICES ASSUME NEW w \in Workers, q_outdated'[w]
                   PROVE  q_worker'[w].pc # "idle" /\ ~Recheck!SameClaim(w)'
        BY DEF OvertakenHaveLost
      <4>1. q_worker[w].pc # "idle" /\ q_worker[w].b \in ModelBindings
        BY <1>b, <3>3 DEF RecheckInv, OvertakenHaveLost
      <4>2. CASE q_worker[w].b = b
        BY <2>1, <3>2, <4>1, <4>2 DEF Recheck!SameClaim
      <4>3. CASE q_worker[w].b # b
        BY <2>1, <3>2, <3>3, <4>1, <4>3 DEF RecheckInv, OvertakenHaveLost, Recheck!SameClaim
      <4> QED
        BY <4>2, <4>3
    <3>7. AtWorkOnABinding'
      BY <1>b, <2>1, <2>3 DEF AtWorkOnABinding
    <3> QED
      BY <3>4, <3>5, <3>6, <3>7 DEF RecheckInv
  <2> QED
    BY <2>4, <2>5, <2>6, <2>7
<1>5. ASSUME NEW w \in Workers, NEW b \in ModelBindings, Recheck!ClaimPermissionRecheck(w, b)
      PROVE  RecheckInv'
  <2> DEFINE n == IF q_record[b].attempts < Recheck!AttemptCap THEN q_record[b].attempts + 1
                  ELSE q_record[b].attempts
             taken == [state |-> "checking", rev |-> q_record[b].rev, attempts |-> n, token |-> w]
             task == [pc |-> "claimed", b |-> b, rev |-> q_record[b].rev, attempts |-> n,
                      upstream |-> Recheck!AnUpstream, verdict |-> "failed"]
  <2>1. /\ UNCHANGED <<q_rev, q_row, q_granted, q_attempt, q_edits, q_toggles, q_faults>>
        /\ q_worker[w].pc = "idle" /\ q_queue[b] = 0
        /\ q_record[b].state \notin {"cleared", "stale", "absent"}
        /\ q_record' = [q_record EXCEPT ![b].state = "checking", ![b].token = w,
                                        ![b].attempts = n]
        /\ \E passed \in SUBSET {c \in ModelBindings : Recheck!Due(c) /\ Recheck!Dead(c)} :
             q_queue' = [c \in ModelBindings |-> CASE c = b -> Lease
                                            [] c \in passed -> Recheck!NotQueued
                                            [] OTHER -> q_queue[c]]
        /\ q_worker' = [q_worker EXCEPT ![w] =
             [pc |-> "claimed", b |-> b, rev |-> q_record[b].rev,
              attempts |-> q_record'[b].attempts,
              upstream |-> Recheck!AnUpstream, verdict |-> "failed"]]
        /\ q_outdated' = [Recheck!Overtaken(b) EXCEPT ![w] = FALSE]
    BY <1>5, <1>t DEF Recheck!ClaimPermissionRecheck, Recheck!Due, Recheck!Dead, Recheck!Settled
  <2>2. /\ n \in 0 .. Recheck!AttemptCap /\ q_record[b].rev \in Recheck!Revisions
        /\ q_record[b].state \in {"queued", "checking", "retry_wait"}
    BY <1>t, <1>c, <2>1 DEF Recheck!Records, Recheck!States
  <2> HIDE DEF n
  <2>3. /\ q_record'[b] = taken /\ \A d \in ModelBindings \ {b} : q_record'[d] = q_record[d]
        /\ q_record' = [d \in ModelBindings |-> q_record'[d]]
    <3> DEFINE first == [q_record EXCEPT ![b].state = "checking"]
               second == [first EXCEPT ![b].token = w]
    <3>1. /\ first = [d \in ModelBindings |-> first[d]]
          /\ first[b] = [q_record[b] EXCEPT !.state = "checking"]
          /\ \A d \in ModelBindings \ {b} : first[d] = q_record[d]
      BY <1>t
    <3>2. second = [first EXCEPT ![b].token = w]
      OBVIOUS
    <3>3. q_record' = [second EXCEPT ![b].attempts = n]
      BY <2>1
    <3> HIDE DEF first
    <3>4. /\ second = [d \in ModelBindings |-> second[d]]
          /\ second[b] = [first[b] EXCEPT !.token = w]
          /\ \A d \in ModelBindings \ {b} : second[d] = q_record[d]
      BY <3>1
    <3> HIDE DEF second
    <3>5. /\ q_record' = [d \in ModelBindings |-> q_record'[d]]
          /\ q_record'[b] = [second[b] EXCEPT !.attempts = n]
          /\ \A d \in ModelBindings \ {b} : q_record'[d] = q_record[d]
      BY <3>3, <3>4
    <3>6. q_record[b] \in Recheck!Records
      BY <1>t
    <3>7. first[b] = [state |-> "checking", rev |-> q_record[b].rev,
                      attempts |-> q_record[b].attempts, token |-> q_record[b].token]
      BY <3>1, <3>6 DEF Recheck!Records
    <3>8. second[b] = [state |-> "checking", rev |-> q_record[b].rev,
                       attempts |-> q_record[b].attempts, token |-> w]
      BY <3>4, <3>7
    <3> QED
      BY <3>5, <3>8
  <2>4. taken \in Recheck!Records /\ task \in RecheckWorkers
    BY <1>c, <2>2 DEF Recheck!Records, Recheck!States, RecheckWorkers
  <2>5. q_record' \in [ModelBindings -> Recheck!Records]
    BY <1>t, <2>3, <2>4
  <2>6. PICK passed \in SUBSET {c \in ModelBindings : Recheck!Due(c) /\ Recheck!Dead(c)} :
             q_queue' = [c \in ModelBindings |-> CASE c = b -> Lease
                                            [] c \in passed -> Recheck!NotQueued
                                            [] OTHER -> q_queue[c]]
    BY <2>1
  <2>7. b \notin passed
    BY <2>1, <2>6 DEF Recheck!Dead, Recheck!Settled
  <2>8. /\ q_queue' \in [ModelBindings -> 0 .. Recheck!NotQueued] /\ q_queue'[b] = Lease
        /\ \A d \in ModelBindings \ {b} : q_queue'[d] = q_queue[d]
             \/ (q_queue'[d] = Recheck!NotQueued /\ Recheck!Dead(d))
    BY <1>t, <1>c, <2>6, <2>7
  <2>9. q_worker' = [q_worker EXCEPT ![w] = task]
    <3>1. q_record'[b].attempts = n
      BY <2>3
    <3> QED
      BY <2>1, <3>1
  <2>10. /\ q_outdated' \in [Workers -> BOOLEAN] /\ q_outdated'[w] = FALSE
         /\ \A v \in Workers : q_outdated'[v] =>
              q_outdated[v] \/ (q_worker[v].pc # "idle" /\ q_worker[v].b = b)
    BY <1>t, <2>1 DEF Recheck!Overtaken
  <2>11. Recheck!TypeOK'
    BY <1>t, <2>1, <2>4, <2>5, <2>8, <2>9, <2>10
    DEF Recheck!TypeOK, RecheckAttempts, RecheckWorkers
  <2>12. Recheck!PendingIsQueued'
    <3> SUFFICES ASSUME NEW d \in ModelBindings
                 PROVE  (q_record'[d].state \in Recheck!Pending) <=> (q_queue'[d] # Recheck!NotQueued)
      BY DEF Recheck!PendingIsQueued, Recheck!Pending, Recheck!NotQueued
    <3>1. CASE d = b
      BY <1>c, <2>3, <2>8, <3>1 DEF Recheck!Pending
    <3>2. CASE d # b
      BY <2>3, <2>8, <3>2
      DEF RecheckInv, Recheck!PendingIsQueued, Recheck!Pending, Recheck!Dead, Recheck!Settled
    <3> QED
      BY <3>1, <3>2
  <2>13. OvertakenHaveLost'
    <3> SUFFICES ASSUME NEW v \in Workers, q_outdated'[v]
                 PROVE  q_worker'[v].pc # "idle" /\ ~Recheck!SameClaim(v)'
      BY DEF OvertakenHaveLost
    <3>1. v # w /\ q_worker'[v] = q_worker[v]
      BY <1>t, <2>9, <2>10
    <3>2. q_worker[v].pc # "idle" /\ q_worker[v].b \in ModelBindings
      BY <1>b, <2>10 DEF RecheckInv, OvertakenHaveLost
    <3>3. CASE q_worker[v].b = b
      BY <2>3, <3>1, <3>2, <3>3 DEF Recheck!SameClaim
    <3>4. CASE q_worker[v].b # b
      BY <2>3, <2>10, <3>1, <3>2, <3>4 DEF RecheckInv, OvertakenHaveLost, Recheck!SameClaim
    <3> QED
      BY <3>3, <3>4
  <2>14. AtWorkOnABinding'
    BY <1>t, <1>b, <2>1, <2>9 DEF AtWorkOnABinding
  <2> QED
    BY <2>11, <2>12, <2>13, <2>14 DEF RecheckInv
<1>6. ASSUME NEW w \in Workers,
             \/ Recheck!BeginRecheck(w) \/ Recheck!Probe(w) \/ Recheck!JudgeProbe(w)
             \/ Recheck!RecheckErrs(w) \/ Recheck!WorkerLost(w)
      PROVE  RecheckInv'
  <2>1. /\ UNCHANGED <<q_rev, q_row, q_granted, q_record, q_queue, q_attempt, q_edits, q_toggles>>
        /\ q_faults' = q_faults \/ (q_faults < MaxFaults /\ q_faults' = q_faults + 1)
        /\ q_worker[w].pc # "idle"
    BY <1>6 DEF Recheck!BeginRecheck, Recheck!Probe, Recheck!JudgeProbe, Recheck!RecheckErrs,
       Recheck!WorkerLost
  <2>2. CASE Recheck!WorkerLost(w)
    <3>1. /\ q_worker' = [q_worker EXCEPT ![w] = Recheck!IdleWorker(Recheck!AnUpstream)]
          /\ q_outdated' = [q_outdated EXCEPT ![w] = FALSE]
      BY <2>2 DEF Recheck!WorkerLost
    <3>2. Recheck!IdleWorker(Recheck!AnUpstream).pc = "idle"
      BY DEF Recheck!IdleWorker
    <3>3. Recheck!TypeOK'
      BY <1>t, <1>c, <1>f, <2>1, <3>1 DEF Recheck!TypeOK, RecheckAttempts, RecheckWorkers
    <3>4. /\ q_worker'[w].pc = "idle" /\ q_outdated'[w] = FALSE
          /\ \A v \in Workers \ {w} : q_worker'[v] = q_worker[v] /\ q_outdated'[v] = q_outdated[v]
      BY <1>t, <3>1, <3>2
    <3>5. UNCHANGED <<q_record, q_queue, q_attempt>>
      BY <2>1
    <3> QED
      BY <3>3, <3>4, <3>5, WorkerGoesOn
  <2>3. CASE \/ Recheck!BeginRecheck(w) \/ Recheck!Probe(w) \/ Recheck!JudgeProbe(w)
             \/ Recheck!RecheckErrs(w)
    <3>0. /\ q_worker[w] \in RecheckWorkers /\ q_worker[w].b \in ModelBindings
          /\ q_row[q_worker[w].b].upstream \in Upstreams
      BY <1>t, <1>b, <2>1 DEF Recheck!Rows
    <3> DEFINE MovedOn(s, u, v) == [q_worker[w] EXCEPT !.pc = s, !.upstream = u, !.verdict = v]
               Goes(s, u, v) == q_worker' = [q_worker EXCEPT ![w] = MovedOn(s, u, v)]
               up == q_worker[w].upstream
               said == q_worker[w].verdict
    <3>1. /\ q_outdated' = q_outdated
          /\ \E s \in {"probing", "probed", "complete"}, u \in Upstreams,
                v \in {"failed", "succeeded", "stale"} : Goes(s, u, v)
      <4>1. up \in Upstreams /\ said \in {"failed", "succeeded", "stale"}
        BY <3>0 DEF RecheckWorkers
      <4>2. \A u : [q_worker[w] EXCEPT !.pc = "probing", !.upstream = u] = MovedOn("probing", u, said)
        BY <3>0 DEF RecheckWorkers
      <4>3. \A s, v : [q_worker[w] EXCEPT !.pc = s, !.verdict = v] = MovedOn(s, up, v)
        BY <3>0 DEF RecheckWorkers
      <4> HIDE DEF MovedOn, up, said
      <4>4. CASE Recheck!BeginRecheck(w)
        <5>1. \/ q_worker' = [q_worker EXCEPT ![w] = [q_worker[w] EXCEPT !.pc = "complete",
                                                                       !.verdict = "stale"]]
              \/ q_worker' = [q_worker EXCEPT ![w] = [q_worker[w] EXCEPT !.pc = "probing",
                                !.upstream = q_row[q_worker[w].b].upstream]]
          BY <4>4 DEF Recheck!BeginRecheck
        <5>2. \/ Goes("complete", up, "stale")
              \/ Goes("probing", q_row[q_worker[w].b].upstream, said)
          BY <4>2, <4>3, <5>1
        <5>3. q_outdated' = q_outdated
          BY <4>4 DEF Recheck!BeginRecheck
        <5> HIDE DEF Goes
        <5> QED
          BY <3>0, <4>1, <5>2, <5>3
      <4>5. CASE Recheck!Probe(w)
        <5>1. PICK v \in {"failed", "succeeded"} :
                q_worker' = [q_worker EXCEPT ![w] = [q_worker[w] EXCEPT !.pc = "probed",
                                                                        !.verdict = v]]
          BY <4>5 DEF Recheck!Probe
        <5>2. Goes("probed", up, v)
          BY <4>3, <5>1
        <5>3. q_outdated' = q_outdated
          BY <4>5 DEF Recheck!Probe
        <5> HIDE DEF Goes
        <5> QED
          BY <4>1, <5>2, <5>3
      <4>6. CASE Recheck!JudgeProbe(w)
        <5>1. PICK v \in {said, "stale"} :
                q_worker' = [q_worker EXCEPT ![w] = [q_worker[w] EXCEPT !.pc = "complete",
                                                                        !.verdict = v]]
          <6> DEFINE replaced == \/ Recheck!Stale(q_worker[w])
                                 \/ q_row[q_worker[w].b].upstream # q_worker[w].upstream
                     verdict == IF replaced THEN "stale" ELSE q_worker[w].verdict
          <6>1. q_worker' = [q_worker EXCEPT ![w] = [q_worker[w] EXCEPT !.pc = "complete",
                               !.verdict = verdict]]
            BY <4>6 DEF Recheck!JudgeProbe
          <6>2. verdict \in {said, "stale"}
            BY DEF said
          <6> HIDE DEF verdict
          <6> QED
            BY <6>1, <6>2
        <5>2. Goes("complete", up, v)
          BY <4>3, <5>1
        <5>3. q_outdated' = q_outdated
          BY <4>6 DEF Recheck!JudgeProbe
        <5> HIDE DEF Goes
        <5> QED
          BY <4>1, <5>2, <5>3
      <4>7. CASE Recheck!RecheckErrs(w)
        <5>1. q_worker' = [q_worker EXCEPT ![w] = [q_worker[w] EXCEPT !.pc = "complete",
                                                                      !.verdict = "failed"]]
          BY <4>7 DEF Recheck!RecheckErrs
        <5>2. Goes("complete", up, "failed")
          BY <4>3, <5>1
        <5>3. q_outdated' = q_outdated
          BY <4>7 DEF Recheck!RecheckErrs
        <5> HIDE DEF Goes
        <5> QED
          BY <4>1, <5>2, <5>3
      <4> QED
        BY <2>3, <4>4, <4>5, <4>6, <4>7
    <3>2. PICK s \in {"probing", "probed", "complete"}, u \in Upstreams,
               v \in {"failed", "succeeded", "stale"} : Goes(s, u, v)
      BY <3>1
    <3> DEFINE after == MovedOn(s, u, v)
    <3>21. after \in RecheckWorkers /\ after.pc # "idle" /\ after.b = q_worker[w].b
           /\ after.rev = q_worker[w].rev
      BY <3>0 DEF RecheckWorkers
    <3>22. q_worker' = [q_worker EXCEPT ![w] = after]
      BY <3>2
    <3> HIDE DEF after
    <3>3. /\ q_worker' \in [Workers -> RecheckWorkers] /\ q_worker'[w].pc # "idle"
          /\ q_worker'[w].b = q_worker[w].b /\ q_worker'[w].rev = q_worker[w].rev
          /\ \A v1 \in Workers \ {w} : q_worker'[v1] = q_worker[v1]
      BY <1>t, <3>21, <3>22
    <3>4. Recheck!TypeOK'
      BY <1>t, <1>f, <2>1, <3>1, <3>3 DEF Recheck!TypeOK, RecheckAttempts, RecheckWorkers
    <3>5. /\ UNCHANGED <<q_record, q_queue, q_attempt>>
          /\ \A v1 \in Workers : q_outdated'[v1] = q_outdated[v1]
      BY <2>1, <3>1
    <3> QED
      BY <2>1, <3>3, <3>4, <3>5, WorkerGoesOn
  <2> QED
    BY <1>6, <2>2, <2>3
<1>7. ASSUME NEW w \in Workers, Recheck!CompletePermissionRecheck(w) PROVE RecheckInv'
  <2> DEFINE b == q_worker[w].b
             verdict == q_worker[w].verdict
             after == CASE verdict = "succeeded" -> "cleared"
                        [] verdict = "stale" -> "stale"
                        [] OTHER -> "retry_wait"
             wait == IF verdict = "failed" THEN Recheck!Backoff(q_worker[w].attempts)
                     ELSE Recheck!NotQueued
  <2>1. /\ UNCHANGED <<q_rev, q_row, q_granted, q_attempt, q_edits, q_toggles, q_faults>>
        /\ q_worker[w].pc = "complete"
        /\ q_worker' = [q_worker EXCEPT ![w] = Recheck!IdleWorker(Recheck!AnUpstream)]
        /\ q_outdated' = [q_outdated EXCEPT ![w] = FALSE]
        /\ \/ UNCHANGED <<q_record, q_queue>>
           \/ /\ q_record' = [q_record EXCEPT ![b].token = Recheck!NoBinding, ![b].state = after]
              /\ q_queue' = [q_queue EXCEPT ![b] = wait]
    BY <1>7 DEF Recheck!CompletePermissionRecheck
  <2>2. b \in ModelBindings /\ verdict \in {"failed", "succeeded", "stale"}
    BY <1>t, <1>b, <2>1 DEF RecheckWorkers
  <2>3. /\ after \in {"cleared", "stale", "retry_wait"}
        /\ after = "retry_wait" <=> verdict = "failed"
    BY <2>2
  <2>4. /\ wait \in 0 .. Recheck!NotQueued
        /\ wait # Recheck!NotQueued <=> verdict = "failed"
    BY <1>c, <2>2, BackoffIsQueued
  <2> HIDE DEF b, verdict, after, wait
  <2>5. /\ q_worker' \in [Workers -> RecheckWorkers] /\ q_worker'[w].pc = "idle"
        /\ q_outdated' \in [Workers -> BOOLEAN] /\ q_outdated'[w] = FALSE
        /\ \A v \in Workers \ {w} : q_worker'[v] = q_worker[v] /\ q_outdated'[v] = q_outdated[v]
    <3>1. Recheck!IdleWorker(Recheck!AnUpstream).pc = "idle"
      BY DEF Recheck!IdleWorker
    <3> QED
      BY <1>t, <1>c, <2>1, <3>1
  <2>6. CASE UNCHANGED <<q_record, q_queue>>
    <3>1. Recheck!TypeOK'
      BY <1>t, <2>1, <2>5, <2>6 DEF Recheck!TypeOK, RecheckAttempts, RecheckWorkers
    <3>2. UNCHANGED <<q_record, q_queue, q_attempt>>
      BY <2>1, <2>6
    <3> QED
      BY <2>5, <3>1, <3>2, WorkerGoesOn
  <2>7. CASE /\ q_record' = [q_record EXCEPT ![b].token = Recheck!NoBinding, ![b].state = after]
             /\ q_queue' = [q_queue EXCEPT ![b] = wait]
    <3> DEFINE left == [state |-> after, rev |-> q_record[b].rev,
                        attempts |-> q_record[b].attempts, token |-> Recheck!NoBinding]
    <3>1. q_record'[b] = left /\ \A d \in ModelBindings \ {b} : q_record'[d] = q_record[d]
      BY <1>t, <2>2, <2>7 DEF Recheck!Records
    <3>2. left \in Recheck!Records
      BY <1>t, <2>2, <2>3 DEF Recheck!Records, Recheck!States
    <3>3. q_record' \in [ModelBindings -> Recheck!Records]
      <4>1. q_record' = [d \in ModelBindings |-> q_record'[d]]
        BY <1>t, <2>7
      <4> QED
        BY <1>t, <3>1, <3>2, <4>1
    <3>4. /\ q_queue' \in [ModelBindings -> 0 .. Recheck!NotQueued] /\ q_queue'[b] = wait
          /\ \A d \in ModelBindings \ {b} : q_queue'[d] = q_queue[d]
      BY <1>t, <2>2, <2>4, <2>7
    <3>5. Recheck!TypeOK'
      BY <1>t, <2>1, <2>5, <3>3, <3>4 DEF Recheck!TypeOK, RecheckAttempts, RecheckWorkers
    <3>6. Recheck!PendingIsQueued'
      <4> SUFFICES ASSUME NEW d \in ModelBindings
                   PROVE  (q_record'[d].state \in Recheck!Pending) <=> (q_queue'[d] # Recheck!NotQueued)
        BY DEF Recheck!PendingIsQueued, Recheck!Pending, Recheck!NotQueued
      <4>1. CASE d = b
        BY <2>3, <2>4, <3>1, <3>4, <4>1 DEF Recheck!Pending
      <4>2. CASE d # b
        BY <3>1, <3>4, <4>2 DEF RecheckInv, Recheck!PendingIsQueued
      <4> QED
        BY <4>1, <4>2
    <3>7. OvertakenHaveLost'
      <4> SUFFICES ASSUME NEW v \in Workers, q_outdated'[v]
                   PROVE  q_worker'[v].pc # "idle" /\ ~Recheck!SameClaim(v)'
        BY DEF OvertakenHaveLost
      <4>1. v # w /\ q_worker'[v] = q_worker[v] /\ q_outdated[v]
        BY <2>5
      <4>2. q_worker[v].pc # "idle" /\ q_worker[v].b \in ModelBindings
        BY <1>b, <4>1 DEF RecheckInv, OvertakenHaveLost
      <4>3. CASE q_worker[v].b = b
        BY <2>3, <3>1, <4>1, <4>2, <4>3 DEF Recheck!SameClaim
      <4>4. CASE q_worker[v].b # b
        BY <3>1, <4>1, <4>2, <4>4 DEF RecheckInv, OvertakenHaveLost, Recheck!SameClaim
      <4> QED
        BY <4>3, <4>4
    <3>8. AtWorkOnABinding'
      BY <1>b, <2>1, <2>5 DEF AtWorkOnABinding
    <3> QED
      BY <3>5, <3>6, <3>7, <3>8 DEF RecheckInv
  <2> QED
    BY <2>1, <2>6, <2>7
<1>8. CASE UNCHANGED Recheck!vars
  <2>1. UNCHANGED <<q_rev, q_row, q_granted, q_record, q_queue, q_attempt, q_worker, q_outdated,
                    q_edits, q_toggles, q_faults>>
    BY <1>8 DEF Recheck!vars
  <2>2. Recheck!TypeOK'
    BY <1>t, <2>1 DEF Recheck!TypeOK, RecheckAttempts, RecheckWorkers
  <2> QED
    BY <1>b, <2>1, <2>2, PausesUntouched
<1> QED
  BY <1>1, <1>2, <1>3, <1>4, <1>5, <1>6, <1>7, <1>8
  DEF Recheck!Next, Recheck!GatewayStep, Recheck!WorkerStep

LEMMA RecheckInvHolds ==
    ASSUME Recheck!RecheckAssumption PROVE Recheck!Spec => []RecheckInv
<1>1. ASSUME Recheck!Init PROVE RecheckInv
  <2>1. Recheck!TypeOK
    BY <1>1, RecheckFacts DEF Recheck!Init, Recheck!TypeOK, Recheck!Rows, Recheck!Records,
       Recheck!States, RecheckAttempts, RecheckWorkers
  <2>2. Recheck!PendingIsQueued
    BY <1>1 DEF Recheck!Init, Recheck!PendingIsQueued, Recheck!Pending
  <2>3. AtWorkOnABinding /\ OvertakenHaveLost
    BY <1>1 DEF Recheck!Init, AtWorkOnABinding, OvertakenHaveLost, Recheck!IdleAttempt,
       Recheck!IdleWorker
  <2> QED
    BY <2>1, <2>2, <2>3 DEF RecheckInv
<1>2. RecheckInv /\ [Recheck!Next]_(Recheck!vars) => RecheckInv'
  BY RecheckStep
<1> QED
  BY <1>1, <1>2, PTL DEF Recheck!Spec

\* No pause is forgotten: a record that still waits for a verdict has its member
\* in the queue, whoever died between claim and completion, and one with a
\* verdict has none (permission_recheck_claim.lua and _complete.lua).
THEOREM PendingIsQueuedTheorem ==
    ASSUME Recheck!RecheckAssumption
    PROVE  Recheck!Spec => [](Recheck!TypeOK /\ Recheck!PendingIsQueued)
<1>1. RecheckInv => Recheck!TypeOK /\ Recheck!PendingIsQueued
  BY DEF RecheckInv
<1> QED
  BY <1>1, RecheckInvHolds, PTL

\* The verdict of a worker whose claim was taken over, or whose pause a newer 403
\* replaced, changes nothing (permission_recheck_complete.lua).
THEOREM OvertakenVerdictIsIgnoredTheorem ==
    ASSUME Recheck!RecheckAssumption
    PROVE  Recheck!Spec => Recheck!OvertakenVerdictIsIgnored
<1>1. RecheckInv => Recheck!IgnoresTheOvertaken
  BY DEF RecheckInv, OvertakenHaveLost, Recheck!IgnoresTheOvertaken,
     Recheck!CompletePermissionRecheck
<1>2. RecheckInv => [Recheck!IgnoresTheOvertaken]_(Recheck!vars)
  BY <1>1
<1> QED
  BY <1>2, RecheckInvHolds, PTL DEF Recheck!OvertakenVerdictIsIgnored

\* A success is of the enabled binding, the upstream model and the revisions that
\* are read again after the probe (RecheckPermission).
THEOREM SuccessSpeaksOfTheBindingTheorem ==
    ASSUME Recheck!RecheckAssumption
    PROVE  Recheck!Spec => Recheck!SuccessSpeaksOfTheBinding
<1>1. ASSUME RecheckInv, [Recheck!Next]_(Recheck!vars)
      PROVE  Recheck!JudgesTheBinding
  <2> SUFFICES ASSUME NEW w \in Workers, q_worker[w].pc # "complete",
                      q_worker'[w].pc = "complete", q_worker'[w].verdict = "succeeded"
               PROVE  /\ q_row[q_worker[w].b] =
                           [status |-> "enabled", upstream |-> q_worker[w].upstream]
                      /\ q_rev = q_worker[w].rev
    BY DEF Recheck!JudgesTheBinding
  <2>1. /\ q_worker \in [Workers -> RecheckWorkers] /\ q_row \in [ModelBindings -> Recheck!Rows]
        /\ q_worker[w].pc # "idle" => q_worker[w].b \in ModelBindings
    BY <1>1 DEF RecheckInv, Recheck!TypeOK, RecheckWorkers, AtWorkOnABinding
  <2>2. Recheck!JudgeProbe(w)
    <3>1. ASSUME NEW v \in Workers, Recheck!WorkerStep(v) PROVE v = w /\ Recheck!JudgeProbe(w)
      <4>1. CASE \E b \in ModelBindings : Recheck!ClaimPermissionRecheck(v, b)
        BY <2>1, <4>1 DEF Recheck!ClaimPermissionRecheck
      <4>2. CASE Recheck!BeginRecheck(v)
        BY <2>1, <4>2 DEF Recheck!BeginRecheck, RecheckWorkers
      <4>3. CASE Recheck!Probe(v)
        BY <2>1, <4>3 DEF Recheck!Probe, RecheckWorkers
      <4>4. CASE Recheck!JudgeProbe(v)
        BY <2>1, <4>4 DEF Recheck!JudgeProbe
      <4>5. CASE Recheck!CompletePermissionRecheck(v) \/ Recheck!WorkerLost(v)
        BY <2>1, <4>5 DEF Recheck!CompletePermissionRecheck, Recheck!WorkerLost,
           Recheck!IdleWorker
      <4>6. CASE Recheck!RecheckErrs(v)
        BY <2>1, <4>6 DEF Recheck!RecheckErrs, RecheckWorkers
      <4> QED
        BY <3>1, <4>1, <4>2, <4>3, <4>4, <4>5, <4>6 DEF Recheck!WorkerStep
    <3>2. ASSUME UNCHANGED q_worker PROVE FALSE
      BY <3>2
    <3>3. (\E v \in Workers : Recheck!WorkerStep(v)) \/ UNCHANGED q_worker
      BY <1>1 DEF Recheck!Next, Recheck!vars, Recheck!Environment, Recheck!Configure,
         Recheck!DeleteChannelModel, Recheck!CreateChannelModel, Recheck!UpdateChannelModel,
         Recheck!Toggle, Recheck!Tick, Recheck!GatewayStep, Recheck!SelectCandidate,
         Recheck!Admit, Recheck!Answer, Recheck!ApplyFeedback, Recheck!FeedbackLost
    <3> QED
      BY <3>1, <3>2, <3>3
  <2>3. /\ q_worker[w].pc = "probed" /\ ~Recheck!Stale(q_worker[w])
        /\ q_row[q_worker[w].b].upstream = q_worker[w].upstream
    BY <2>1, <2>2 DEF Recheck!JudgeProbe, RecheckWorkers
  <2> QED
    BY <2>1, <2>3 DEF Recheck!Stale, Recheck!Rows
<1>2. RecheckInv /\ [Recheck!Next]_(Recheck!vars) => [Recheck!JudgesTheBinding]_(Recheck!vars)
  BY <1>1
<1> QED
  BY <1>2, RecheckInvHolds, PTL DEF Recheck!Spec, Recheck!SuccessSpeaksOfTheBinding

\* Late feedback on older revisions never replaces a newer pause
\* (pause_channel_model_permission.lua).
THEOREM PauseNeverGoesBackTheorem ==
    ASSUME Recheck!RecheckAssumption
    PROVE  Recheck!Spec => Recheck!PauseNeverGoesBack
<1> DEFINE Keeps == \A b \in ModelBindings : q_record[b].state # "absent" =>
                      ~Recheck!Behind(q_record'[b].rev, q_record[b].rev)
<1>1. ASSUME RecheckInv, [Recheck!Next]_(Recheck!vars) PROVE Keeps
  <2>1. /\ q_record \in [ModelBindings -> Recheck!Records]
        /\ \A b \in ModelBindings : q_record[b].rev.config \in Nat /\ q_record[b].rev.provider \in Nat
    BY <1>1 DEF RecheckInv, Recheck!TypeOK, Recheck!Records, Recheck!Revisions
  <2>2. ASSUME \A b \in ModelBindings : q_record'[b].rev = q_record[b].rev PROVE Keeps
    BY <2>1, <2>2 DEF Recheck!Behind
  <2>3. ASSUME NEW a \in Attempts, Recheck!ApplyFeedback(a) PROVE Keeps
    <3> DEFINE b == q_attempt[a].b
               r == q_attempt[a].rev
    <3>1. \/ UNCHANGED q_record
          \/ /\ q_record[b].state # "absent" => ~Recheck!Behind(r, q_record[b].rev)
             /\ q_record' = [q_record EXCEPT ![b] = [state |-> "queued", rev |-> r,
                               attempts |-> 0, token |-> Recheck!NoBinding]]
      BY <2>3 DEF Recheck!ApplyFeedback, Recheck!PauseChannelModelPermission
    <3> HIDE DEF b, r
    <3> QED
      BY <2>1, <2>2, <3>1 DEF Recheck!Behind
  <2>4. ASSUME NEW w \in Workers, Recheck!WorkerStep(w) PROVE Keeps
    <3>1. CASE UNCHANGED q_record
      BY <2>2, <3>1
    <3>2. CASE \E b \in ModelBindings : Recheck!ClaimPermissionRecheck(w, b)
      <4>1. PICK b \in ModelBindings, n \in Int : q_record' = [q_record EXCEPT
                 ![b].state = "checking", ![b].token = w, ![b].attempts = n]
        <5>1. PICK b \in ModelBindings : Recheck!ClaimPermissionRecheck(w, b)
          BY <3>2
        <5>2. (IF q_record[b].attempts < Recheck!AttemptCap THEN q_record[b].attempts + 1
               ELSE q_record[b].attempts) \in Int
          BY <2>1 DEF Recheck!Records
        <5> QED
          BY <2>1, <5>1, <5>2 DEF Recheck!ClaimPermissionRecheck
      <4> QED
        BY <2>1, <2>2, <4>1 DEF Recheck!Records
    <3>3. CASE Recheck!CompletePermissionRecheck(w)
      BY <2>1, <2>2, <3>3 DEF Recheck!CompletePermissionRecheck, Recheck!Records
    <3> QED
      BY <2>4, <3>1, <3>2, <3>3 DEF Recheck!WorkerStep, Recheck!BeginRecheck, Recheck!Probe,
         Recheck!JudgeProbe, Recheck!RecheckErrs, Recheck!WorkerLost
  <2>5. \/ \E a \in Attempts : Recheck!ApplyFeedback(a)
        \/ \E w \in Workers : Recheck!WorkerStep(w)
        \/ UNCHANGED q_record
    BY <1>1 DEF Recheck!Next, Recheck!vars, Recheck!Environment, Recheck!Configure,
       Recheck!DeleteChannelModel, Recheck!CreateChannelModel, Recheck!UpdateChannelModel,
       Recheck!Toggle, Recheck!Tick, Recheck!GatewayStep, Recheck!SelectCandidate,
       Recheck!Admit, Recheck!Answer, Recheck!FeedbackLost
  <2> QED
    BY <2>2, <2>3, <2>4, <2>5
<1>2. RecheckInv /\ [Recheck!Next]_(Recheck!vars) => [Keeps]_(Recheck!vars)
  BY <1>1
<1> QED
  BY <1>2, RecheckInvHolds, PTL DEF Recheck!Spec, Recheck!PauseNeverGoesBack

-----------------------------------------------------------------------------
(***************************************************************************)
(* The verification of bindings.  A running run belongs to one worker, and *)
(* the worker's next call says what its run has come to: items are left,   *)
(* one has failed, or the run is stale or done (WorkersOwnTheirRuns).  A   *)
(* pair once verified stays so: what an administrator's request has        *)
(* checked, or read from an enabled row, still holds when it is written    *)
(* (RequestsAreBacked).                                                    *)
(***************************************************************************)
CONSTANTS Models, Admins, MaxRuns, MaxWrites
VARIABLES v_rev, v_row, v_runs, v_worker, v_admin, v_verified, v_writes, v_faults

Verification == INSTANCE ModelVerification WITH
    rev <- v_rev, row <- v_row, runs <- v_runs, worker <- v_worker, admin <- v_admin,
    verified <- v_verified, writes <- v_writes, faults <- v_faults

RunStates == {"queued", "running", "succeeded", "failed", "stale"}
ItemMaps == UNION {[t -> Verification!Items] : t \in SUBSET Models}
RunRows == [status : RunStates, rev : 1 .. MaxRev, items : ItemMaps]
VerifyingWorkers ==
    [pc : {"idle", "claimed", "probe", "probed", "stop", "finish"}, run : 0 .. MaxRuns,
     used : 0 .. MaxRev, outcome : {"ok", "model", "channel"}]
BindingRows == [status : {"absent", "disabled", "enabled"}, upstream : Upstreams]
BindingRequests ==
    [pc : {"idle", "read", "write"}, model : Models \cup {0}, upstream : Upstreams,
     status : {"enabled", "disabled"}, run : 0 .. MaxRuns, needed : BOOLEAN]

VerificationTypes ==
    /\ v_rev \in 1 .. MaxRev /\ v_row \in [Models -> BindingRows]
    /\ v_runs \in Seq(RunRows) /\ Len(v_runs) <= MaxRuns
    /\ v_worker \in [Workers -> VerifyingWorkers] /\ v_admin \in [Admins -> BindingRequests]
    /\ v_verified \subseteq Models \X Upstreams
    /\ v_writes \in 0 .. MaxWrites /\ v_faults \in 0 .. MaxFaults

\* What one run may be at this revision, with these pairs verified.
IsHonest(x, n, pairs) ==
    /\ x.rev <= n
    /\ \A m \in DOMAIN x.items : x.items[m].status = "succeeded" =>
         x.items[m].used = x.rev /\ <<m, x.items[m].upstream>> \in pairs
    /\ x.status = "queued" =>
         DOMAIN x.items # {} /\ \A m \in DOMAIN x.items : x.items[m].status = "queued"
    /\ x.status = "succeeded" => \A m \in DOMAIN x.items : x.items[m].status = "succeeded"

RunsAreHonest == \A r \in DOMAIN v_runs : IsHonest(v_runs[r], v_rev, v_verified)

\* What its run has come to, for a worker's next call.
HasComeTo(t, x, n) ==
    /\ x.status = "running"
    /\ t.pc = "claimed" =>
         DOMAIN x.items # {} /\ \A m \in DOMAIN x.items : x.items[m].status = "queued"
    /\ t.pc \in {"probe", "probed"} =>
         t.used = x.rev /\ \E m \in DOMAIN x.items : x.items[m].status = "queued"
    /\ t.pc = "stop" => \E m \in DOMAIN x.items : x.items[m].status = "failed"
    /\ t.pc = "finish" =>
         \/ x.rev < n
         \/ \E m \in DOMAIN x.items : x.items[m].status = "failed"
         \/ \A m \in DOMAIN x.items : x.items[m].status # "queued"

WorkersOwnTheirRuns ==
    /\ \A w \in Workers : v_worker[w].pc # "idle" =>
         v_worker[w].run \in DOMAIN v_runs /\ HasComeTo(v_worker[w], v_runs[v_worker[w].run], v_rev)
    /\ \A v, w \in Workers :
         v # w /\ v_worker[v].pc # "idle" /\ v_worker[w].pc # "idle" =>
           v_worker[v].run # v_worker[w].run

RequestsAreBacked ==
    \A a \in Admins :
        v_admin[a].pc # "idle" =>
            /\ v_admin[a].model \in Models
            /\ (v_admin[a].pc = "write" \/ ~v_admin[a].needed) /\ v_admin[a].status = "enabled" =>
                 <<v_admin[a].model, v_admin[a].upstream>> \in v_verified

VerificationInv ==
    /\ VerificationTypes /\ Verification!EnabledWasVerified /\ RunsAreHonest
    /\ WorkersOwnTheirRuns /\ RequestsAreBacked

-----------------------------------------------------------------------------
(* What the actions of the verification are built from.                    *)

LEMMA LessOnNat == OpToRel(<, Nat) = {p \in Nat \X Nat : p[1] < p[2]}
  BY Zenon DEF OpToRel

\* A set of numbers that is not empty has a least one.
LEMMA LeastNumber ==
    ASSUME NEW T \in SUBSET Nat, T # {}
    PROVE  \E x \in T : \A y \in T : x <= y
<1> DEFINE R == OpToRel(<, Nat)
<1>1. IsWellFoundedOn(R, Nat)
  BY NatLessThanWellFounded, Zenon
<1>2. R = {p \in Nat \X Nat : p[1] < p[2]}
  BY LessOnNat, Zenon
<1> HIDE DEF R
<1>3. PICK x \in T : \A y \in T : ~(<<y, x>> \in R)
  BY <1>1, WFMin
<1>4. \A y \in T : x <= y
  <2> TAKE y \in T
  <2>1. <<y, x>> \in R <=> y < x
    BY <1>2
  <2> QED
    BY <1>3, <2>1
<1> QED
  BY <1>4

\* A map of items is over some of the models, each with an item.
LEMMA ItemMapIsTyped ==
    ASSUME NEW f \in ItemMaps
    PROVE  /\ DOMAIN f \subseteq Models /\ f = [m \in DOMAIN f |-> f[m]]
           /\ \A m \in DOMAIN f : f[m] \in Verification!Items
<1>1. PICK t \in SUBSET Models : f \in [t -> Verification!Items]
  BY DEF ItemMaps
<1> QED
  BY <1>1

LEMMA ItemMapFromItems ==
    ASSUME NEW t \in SUBSET Models, NEW f \in [t -> Verification!Items]
    PROVE  f \in ItemMaps
  BY DEF ItemMaps

LEMMA RunIsTyped ==
    ASSUME VerificationTypes, NEW r \in DOMAIN v_runs
    PROVE  /\ v_runs[r] \in RunRows
           /\ v_runs[r].status \in RunStates /\ v_runs[r].rev \in 1 .. MaxRev
           /\ v_runs[r].items \in ItemMaps
           /\ DOMAIN v_runs[r].items \subseteq Models
           /\ \A m \in DOMAIN v_runs[r].items : v_runs[r].items[m] \in Verification!Items
<1>1. v_runs[r] \in RunRows
  BY DEF VerificationTypes
<1>2. v_runs[r].items \in ItemMaps /\ v_runs[r].status \in RunStates /\ v_runs[r].rev \in 1 .. MaxRev
  BY <1>1 DEF RunRows
<1> QED
  BY <1>1, <1>2, ItemMapIsTyped

\* The item that is probed next is one that is left.
LEMMA NextItemIsLeft ==
    ASSUME Verification!VerificationAssumption, VerificationTypes,
           NEW r \in DOMAIN v_runs, Verification!Remaining(r) # {}
    PROVE  Verification!NextItem(r) \in Verification!Remaining(r)
<1>1. Verification!Remaining(r) \in SUBSET Nat
  BY RunIsTyped DEF Verification!VerificationAssumption, Verification!Remaining
<1>2. \E m \in Verification!Remaining(r) : \A n \in Verification!Remaining(r) : m <= n
  BY <1>1, LeastNumber
<1> QED
  BY <1>2 DEF Verification!NextItem

\* Skipping what is left of a run leaves what was probed as it is.
LEMMA SkippedLeavesTheRest ==
    ASSUME VerificationTypes, NEW r \in DOMAIN v_runs
    PROVE  /\ Verification!Skipped(r) \in ItemMaps
           /\ DOMAIN Verification!Skipped(r) = DOMAIN v_runs[r].items
           /\ \A m \in DOMAIN v_runs[r].items :
                IF v_runs[r].items[m].status = "queued"
                THEN Verification!Skipped(r)[m].status = "skipped"
                ELSE Verification!Skipped(r)[m] = v_runs[r].items[m]
<1> DEFINE f == v_runs[r].items
<1>1. DOMAIN f \subseteq Models /\ \A m \in DOMAIN f : f[m] \in Verification!Items
  BY RunIsTyped
<1>2. \A m \in DOMAIN f :
        [f[m] EXCEPT !.status = "skipped"] \in Verification!Items
        /\ [f[m] EXCEPT !.status = "skipped"].status = "skipped"
  BY <1>1 DEF Verification!Items
<1>3. Verification!Skipped(r) \in [DOMAIN f -> Verification!Items]
  BY <1>1, <1>2 DEF Verification!Skipped, Verification!Remaining
<1>4. Verification!Skipped(r) \in ItemMaps
  BY <1>1, <1>3, ItemMapFromItems
<1>5. \A m \in DOMAIN f :
        Verification!Skipped(r)[m] = IF f[m].status = "queued"
                                     THEN [f[m] EXCEPT !.status = "skipped"] ELSE f[m]
  BY DEF Verification!Skipped, Verification!Remaining
<1> QED
  BY <1>2, <1>3, <1>4, <1>5

\* What a run is, it stays when revisions and verified pairs grow.
LEMMA HonestStays ==
    ASSUME NEW x \in RunRows, NEW n \in Nat, NEW m \in Nat, n <= m, NEW p, NEW q, p \subseteq q,
           IsHonest(x, n, p)
    PROVE  IsHonest(x, m, q)
<1>1. x.rev \in Nat
  BY DEF RunRows
<1> QED
  BY <1>1 DEF IsHonest

LEMMA ComesToStays ==
    ASSUME NEW x \in RunRows, NEW n \in Nat, NEW m \in Nat, n <= m, NEW t, HasComeTo(t, x, n)
    PROVE  HasComeTo(t, x, m)
<1>1. x.rev \in Nat
  BY DEF RunRows
<1> QED
  BY <1>1 DEF HasComeTo

\* A step of worker w on its run r, of which it makes x.
LEMMA OneRunChanges ==
    ASSUME VerificationInv, NEW w \in Workers, NEW r \in DOMAIN v_runs, NEW x \in RunRows,
           NEW t \in VerifyingWorkers,
           v_runs' = [v_runs EXCEPT ![r] = x], v_worker' = [v_worker EXCEPT ![w] = t],
           \A v \in Workers \ {w} : v_worker[v].pc # "idle" => v_worker[v].run # r,
           UNCHANGED <<v_rev, v_row, v_admin, v_writes>>,
           v_verified' \subseteq Models \X Upstreams, v_verified \subseteq v_verified',
           v_faults' \in 0 .. MaxFaults,
           IsHonest(x, v_rev, v_verified'),
           t.pc # "idle" => t.run = r /\ HasComeTo(t, x, v_rev)
    PROVE  VerificationInv'
<1> USE DEF VerificationInv
<1>1. /\ v_runs \in Seq(RunRows) /\ Len(v_runs) <= MaxRuns /\ v_rev \in Nat
      /\ v_worker \in [Workers -> VerifyingWorkers]
  BY DEF VerificationTypes
<1>2. /\ v_runs' \in Seq(RunRows) /\ Len(v_runs') = Len(v_runs)
      /\ DOMAIN v_runs' = DOMAIN v_runs /\ v_runs'[r] = x
      /\ \A s \in DOMAIN v_runs \ {r} : v_runs'[s] = v_runs[s]
  BY <1>1
<1>3. /\ v_worker' \in [Workers -> VerifyingWorkers] /\ v_worker'[w] = t
      /\ \A v \in Workers \ {w} : v_worker'[v] = v_worker[v]
  BY <1>1
<1>4. VerificationTypes'
  BY <1>2, <1>3 DEF VerificationTypes
<1>5. RunsAreHonest'
  <2> SUFFICES ASSUME NEW s \in DOMAIN v_runs
               PROVE  IsHonest(v_runs'[s], v_rev, v_verified')
    BY <1>2 DEF RunsAreHonest
  <2>1. CASE s = r
    BY <2>1, <1>2
  <2>2. CASE s # r
    <3>1. v_runs[s] \in RunRows /\ IsHonest(v_runs[s], v_rev, v_verified)
      BY <1>1 DEF RunsAreHonest
    <3> QED
      BY <2>2, <3>1, <1>1, <1>2, HonestStays
  <2> QED
    BY <2>1, <2>2
<1>6. WorkersOwnTheirRuns'
  <2>1. ASSUME NEW v \in Workers, v_worker'[v].pc # "idle"
        PROVE  v_worker'[v].run \in DOMAIN v_runs'
               /\ HasComeTo(v_worker'[v], v_runs'[v_worker'[v].run], v_rev)
    <3>1. CASE v = w
      BY <2>1, <3>1, <1>2, <1>3
    <3>2. CASE v # w
      BY <2>1, <3>2, <1>2, <1>3 DEF WorkersOwnTheirRuns
    <3> QED
      BY <3>1, <3>2
  <2>2. ASSUME NEW u \in Workers, NEW v \in Workers, u # v,
               v_worker'[u].pc # "idle", v_worker'[v].pc # "idle"
        PROVE  v_worker'[u].run # v_worker'[v].run
    BY <2>2, <1>3 DEF WorkersOwnTheirRuns
  <2> QED
    BY <2>1, <2>2 DEF WorkersOwnTheirRuns
<1>7. Verification!EnabledWasVerified'
  BY DEF Verification!EnabledWasVerified
<1>8. RequestsAreBacked'
  BY DEF RequestsAreBacked
<1> QED
  BY <1>4, <1>5, <1>6, <1>7, <1>8

\* A step of worker w that leaves the runs alone.
LEMMA RunsStay ==
    ASSUME VerificationInv, NEW w \in Workers, NEW t \in VerifyingWorkers,
           v_worker[w].pc # "idle",
           v_worker' = [v_worker EXCEPT ![w] = t],
           UNCHANGED <<v_rev, v_row, v_runs, v_admin, v_verified, v_writes>>,
           v_faults' \in 0 .. MaxFaults,
           t.pc # "idle" => t.run = v_worker[w].run
                            /\ HasComeTo(t, v_runs[v_worker[w].run], v_rev)
    PROVE  VerificationInv'
<1> DEFINE r == v_worker[w].run
           x == v_runs[r]
<1>1. r \in DOMAIN v_runs
  BY DEF VerificationInv, WorkersOwnTheirRuns
<1>2. x \in RunRows /\ IsHonest(x, v_rev, v_verified)
  BY <1>1 DEF VerificationInv, VerificationTypes, RunsAreHonest
<1>3. \A v \in Workers \ {w} : v_worker[v].pc # "idle" => v_worker[v].run # r
  BY DEF VerificationInv, WorkersOwnTheirRuns
<1>4. v_runs' = [v_runs EXCEPT ![r] = x]
  BY <1>1 DEF VerificationInv, VerificationTypes
<1>5. v_verified' \subseteq Models \X Upstreams /\ v_verified \subseteq v_verified'
  BY DEF VerificationInv, VerificationTypes
<1>7. UNCHANGED <<v_rev, v_row, v_admin, v_writes>>
  OBVIOUS
<1> HIDE DEF r, x
<1>6. t.pc # "idle" => t.run = r /\ HasComeTo(t, x, v_rev)
  BY DEF r, x
<1>8. IsHonest(x, v_rev, v_verified')
  BY <1>2
<1> QED
  BY <1>1, <1>2, <1>3, <1>4, <1>5, <1>6, <1>7, <1>8, OneRunChanges

\* A step that skips what is left of the run of worker w, or fails to.
LEMMA SkipStep ==
    ASSUME Verification!VerificationAssumption, VerificationInv, NEW w \in Workers, NEW t \in VerifyingWorkers,
           v_worker[w].pc # "idle", Verification!SkipRemaining(v_worker[w].run),
           v_worker' = [v_worker EXCEPT ![w] = t], t.pc = "finish", t.run = v_worker[w].run,
           UNCHANGED <<v_rev, v_row, v_admin, v_verified, v_writes>>,
           \/ v_runs[v_worker[w].run].rev < v_rev
           \/ v_worker[w].pc = "stop"
    PROVE  VerificationInv'
<1> DEFINE r == v_worker[w].run
<1>1. r \in DOMAIN v_runs /\ HasComeTo(v_worker[w], v_runs[r], v_rev)
  BY DEF VerificationInv, WorkersOwnTheirRuns
<1>2. /\ v_runs[r] \in RunRows /\ IsHonest(v_runs[r], v_rev, v_verified)
      /\ v_runs[r].items \in ItemMaps
  BY <1>1, RunIsTyped DEF VerificationInv, RunsAreHonest
<1>3. \A v \in Workers \ {w} : v_worker[v].pc # "idle" => v_worker[v].run # r
  BY DEF VerificationInv, WorkersOwnTheirRuns
<1>4. v_verified' \subseteq Models \X Upstreams /\ v_verified \subseteq v_verified'
  BY DEF VerificationInv, VerificationTypes
<1>5. CASE v_runs' = [v_runs EXCEPT ![r].items = Verification!Skipped(r)] /\ UNCHANGED v_faults
  <2> DEFINE g == Verification!Skipped(r)
             x == [v_runs[r] EXCEPT !.items = g]
  <2>1. /\ g \in ItemMaps /\ DOMAIN g = DOMAIN v_runs[r].items
        /\ \A m \in DOMAIN v_runs[r].items :
             IF v_runs[r].items[m].status = "queued" THEN g[m].status = "skipped"
             ELSE g[m] = v_runs[r].items[m]
    BY <1>1, SkippedLeavesTheRest DEF VerificationInv
  <2>2. v_runs' = [v_runs EXCEPT ![r] = x]
    BY <1>5
  <2> HIDE DEF g
  <2>3. /\ x \in RunRows /\ x.items = g /\ x.status = v_runs[r].status
        /\ x.rev = v_runs[r].rev
    BY <1>2, <2>1 DEF RunRows
  <2>4. x.status = "running"
    BY <1>1, <2>3 DEF HasComeTo
  <2> HIDE DEF x
  <2>5. IsHonest(x, v_rev, v_verified')
    BY <1>2, <2>1, <2>3, <2>4 DEF IsHonest
  <2>6. \/ x.rev < v_rev
        \/ \E m \in DOMAIN x.items : x.items[m].status = "failed"
    BY <1>1, <2>1, <2>3 DEF HasComeTo
  <2>7. HasComeTo(t, x, v_rev)
    BY <2>4, <2>6 DEF HasComeTo
  <2>8. v_faults' \in 0 .. MaxFaults
    BY <1>5 DEF VerificationInv, VerificationTypes
  <2> HIDE DEF r
  <2>9. t.run = r
    BY DEF r
  <2> QED
    BY <1>1, <1>3, <1>4, <2>2, <2>3, <2>5, <2>7, <2>8, <2>9, OneRunChanges
<1>6. CASE v_faults < MaxFaults /\ v_faults' = v_faults + 1 /\ UNCHANGED v_runs
  <2>1. HasComeTo(t, v_runs[r], v_rev)
    BY <1>1 DEF HasComeTo
  <2>2. v_faults' \in 0 .. MaxFaults
    BY <1>6 DEF VerificationInv, VerificationTypes, Verification!VerificationAssumption
  <2>3. v_verified' = v_verified
    OBVIOUS
  <2> QED
    BY <1>6, <2>1, <2>2, <2>3, RunsStay
<1> QED
  BY <1>5, <1>6 DEF Verification!SkipRemaining

\* What administrators do to the bindings leaves the runs alone.
LEMMA BindingsChange ==
    ASSUME VerificationInv, UNCHANGED <<v_rev, v_runs, v_worker, v_verified, v_faults>>,
           v_row' \in [Models -> BindingRows], v_admin' \in [Admins -> BindingRequests],
           v_writes' \in 0 .. MaxWrites,
           Verification!EnabledWasVerified', RequestsAreBacked'
    PROVE  VerificationInv'
<1>1. VerificationTypes'
  BY DEF VerificationInv, VerificationTypes
<1>2. RunsAreHonest'
  BY DEF VerificationInv, RunsAreHonest
<1>3. WorkersOwnTheirRuns'
  BY DEF VerificationInv, WorkersOwnTheirRuns
<1> QED
  BY <1>1, <1>2, <1>3 DEF VerificationInv

LEMMA CreateVerificationStep ==
    ASSUME Verification!VerificationAssumption, VerificationInv,
           NEW t \in SUBSET Models, t # {}, NEW u \in [t -> Upstreams],
           Verification!CreateVerification(t, u)
    PROVE  VerificationInv'
<1> DEFINE items == [m \in t |-> [upstream |-> u[m], status |-> "queued", used |-> 0]]
           x == [status |-> "queued", rev |-> v_rev, items |-> items]
<1>0. /\ v_rev \in 1 .. MaxRev /\ MaxRev \in Nat /\ MaxRuns \in Nat
      /\ v_runs \in Seq(RunRows) /\ Len(v_runs) < MaxRuns
      /\ v_runs' = Append(v_runs, x)
      /\ UNCHANGED <<v_rev, v_row, v_worker, v_admin, v_verified, v_writes, v_faults>>
  BY DEF VerificationInv, VerificationTypes, Verification!VerificationAssumption,
         Verification!CreateVerification
<1>1. items \in [t -> Verification!Items]
  BY <1>0 DEF Verification!Items
<1>2. items \in ItemMaps
  BY <1>1, ItemMapFromItems
<1>3. DOMAIN items = t /\ \A m \in t : items[m].status = "queued"
  OBVIOUS
<1> HIDE DEF items
<1>4. x \in RunRows /\ x.status = "queued" /\ x.rev = v_rev /\ x.items = items
  BY <1>0, <1>2 DEF RunRows, RunStates
<1> HIDE DEF x
<1>5. IsHonest(x, v_rev, v_verified)
  BY <1>0, <1>3, <1>4 DEF IsHonest
<1>6. /\ v_runs' \in Seq(RunRows) /\ Len(v_runs') = Len(v_runs) + 1
      /\ v_runs'[Len(v_runs) + 1] = x
      /\ \A s \in DOMAIN v_runs : v_runs'[s] = v_runs[s] /\ s \in DOMAIN v_runs'
      /\ DOMAIN v_runs' = DOMAIN v_runs \cup {Len(v_runs) + 1}
  BY <1>0, <1>4
<1>7. VerificationTypes'
  BY <1>0, <1>6 DEF VerificationInv, VerificationTypes
<1>8. RunsAreHonest'
  BY <1>0, <1>5, <1>6 DEF VerificationInv, RunsAreHonest
<1>9. WorkersOwnTheirRuns'
  BY <1>0, <1>6 DEF VerificationInv, WorkersOwnTheirRuns
<1>10. Verification!EnabledWasVerified' /\ RequestsAreBacked'
  BY <1>0 DEF VerificationInv, Verification!EnabledWasVerified, RequestsAreBacked
<1> QED
  BY <1>7, <1>8, <1>9, <1>10 DEF VerificationInv

LEMMA ClaimStep ==
    ASSUME Verification!VerificationAssumption, VerificationInv, NEW w \in Workers,
           Verification!ClaimRun(w)
    PROVE  VerificationInv'
<1>1. PICK r \in DOMAIN v_runs :
        /\ v_runs[r].status = "queued"
        /\ v_runs' = [v_runs EXCEPT ![r].status = "running"]
        /\ v_worker' = [v_worker EXCEPT ![w] =
              [Verification!IdleWorker EXCEPT !.pc = "claimed", !.run = r]]
  BY DEF Verification!ClaimRun
<1> DEFINE x == [v_runs[r] EXCEPT !.status = "running"]
           t == [Verification!IdleWorker EXCEPT !.pc = "claimed", !.run = r]
<1>2. UNCHANGED <<v_rev, v_row, v_admin, v_verified, v_writes, v_faults>>
  BY DEF Verification!ClaimRun
<1>3. v_runs[r] \in RunRows /\ IsHonest(v_runs[r], v_rev, v_verified)
  BY RunIsTyped DEF VerificationInv, RunsAreHonest
<1>4. /\ x \in RunRows /\ x.status = "running" /\ x.items = v_runs[r].items
      /\ x.rev = v_runs[r].rev
  BY <1>3 DEF RunRows, RunStates
<1>5. r \in 0 .. MaxRuns /\ MaxRev \in Nat /\ MaxRuns \in Nat
  BY DEF VerificationInv, VerificationTypes, Verification!VerificationAssumption
<1>6. t \in VerifyingWorkers /\ t.pc = "claimed" /\ t.run = r
  <2>1. Verification!IdleWorker \in VerifyingWorkers
    BY <1>5 DEF VerifyingWorkers, Verification!IdleWorker
  <2> QED
    BY <1>5, <2>1 DEF VerifyingWorkers
<1>7. v_runs' = [v_runs EXCEPT ![r] = x] /\ v_worker' = [v_worker EXCEPT ![w] = t]
  BY <1>1
<1> HIDE DEF x, t
<1>8. IsHonest(x, v_rev, v_verified') /\ HasComeTo(t, x, v_rev)
  BY <1>1, <1>2, <1>3, <1>4, <1>6 DEF IsHonest, HasComeTo
<1>9. \A v \in Workers \ {w} : v_worker[v].pc # "idle" => v_worker[v].run # r
  BY <1>1 DEF VerificationInv, WorkersOwnTheirRuns, HasComeTo
<1>10. /\ v_verified' \subseteq Models \X Upstreams /\ v_verified \subseteq v_verified'
       /\ v_faults' \in 0 .. MaxFaults
  BY <1>2 DEF VerificationInv, VerificationTypes
<1> QED
  BY <1>2, <1>4, <1>6, <1>7, <1>8, <1>9, <1>10, OneRunChanges

LEMMA SnapshotStep ==
    ASSUME Verification!VerificationAssumption, VerificationInv, NEW w \in Workers,
           Verification!LoadSnapshot(w)
    PROVE  VerificationInv'
<1> DEFINE r == v_worker[w].run
<1>0. /\ v_worker[w] \in VerifyingWorkers /\ v_worker[w].pc = "claimed"
      /\ v_rev \in 1 .. MaxRev /\ MaxRev \in Nat
      /\ UNCHANGED <<v_rev, v_row, v_admin, v_verified, v_writes>>
  BY DEF VerificationInv, VerificationTypes, Verification!VerificationAssumption,
         Verification!LoadSnapshot
<1>1. r \in DOMAIN v_runs /\ HasComeTo(v_worker[w], v_runs[r], v_rev)
  BY <1>0 DEF VerificationInv, WorkersOwnTheirRuns
<1>2. v_runs[r].rev <= v_rev /\ v_runs[r].rev \in 1 .. MaxRev
  BY <1>1, RunIsTyped DEF VerificationInv, RunsAreHonest, IsHonest
<1>3. CASE v_runs[r].rev # v_rev
  <2> DEFINE t == [v_worker[w] EXCEPT !.pc = "finish"]
  <2>1. Verification!SkipRemaining(r) /\ v_worker' = [v_worker EXCEPT ![w] = t]
    BY <1>3 DEF Verification!LoadSnapshot
  <2>2. t \in VerifyingWorkers /\ t.pc = "finish" /\ t.run = r
    BY <1>0 DEF VerifyingWorkers
  <2>3. v_runs[r].rev < v_rev
    BY <1>0, <1>2, <1>3
  <2> HIDE DEF t
  <2> QED
    BY <1>0, <2>1, <2>2, <2>3, SkipStep
<1>4. CASE v_runs[r].rev = v_rev
  <2> DEFINE t == [v_worker[w] EXCEPT !.pc = "probe", !.used = v_rev]
  <2>1. v_worker' = [v_worker EXCEPT ![w] = t] /\ UNCHANGED <<v_runs, v_faults>>
    BY <1>4 DEF Verification!LoadSnapshot
  <2>2. t \in VerifyingWorkers /\ t.pc = "probe" /\ t.run = r /\ t.used = v_rev
    <3>1. v_rev \in 0 .. MaxRev
      BY <1>0
    <3>2. t \in VerifyingWorkers
      BY <1>0, <3>1 DEF VerifyingWorkers
    <3> QED
      BY <1>0, <3>2 DEF VerifyingWorkers
  <2> HIDE DEF t
  <2>3. HasComeTo(t, v_runs[r], v_rev)
    BY <1>0, <1>1, <1>4, <2>2 DEF HasComeTo
  <2>4. v_faults' \in 0 .. MaxFaults
    BY <2>1 DEF VerificationInv, VerificationTypes
  <2> QED
    BY <1>0, <2>1, <2>2, <2>3, <2>4, RunsStay
<1> QED
  BY <1>3, <1>4

LEMMA ProbeStep ==
    ASSUME VerificationInv, NEW w \in Workers, NEW o \in {"ok", "model", "channel"},
           Verification!ProbeItem(w, o)
    PROVE  VerificationInv'
<1> DEFINE r == v_worker[w].run
           t == [v_worker[w] EXCEPT !.outcome = o, !.pc = "probed"]
<1>1. /\ v_worker[w] \in VerifyingWorkers /\ v_worker[w].pc = "probe"
      /\ v_worker' = [v_worker EXCEPT ![w] = t] /\ v_faults' \in 0 .. MaxFaults
      /\ UNCHANGED <<v_rev, v_row, v_runs, v_admin, v_verified, v_writes>>
  BY DEF VerificationInv, VerificationTypes, Verification!ProbeItem
<1>2. HasComeTo(v_worker[w], v_runs[r], v_rev)
  BY <1>1 DEF VerificationInv, WorkersOwnTheirRuns
<1>3. t \in VerifyingWorkers /\ t.pc = "probed" /\ t.run = r /\ t.used = v_worker[w].used
  BY <1>1 DEF VerifyingWorkers
<1> HIDE DEF t
<1>4. HasComeTo(t, v_runs[r], v_rev)
  BY <1>1, <1>2, <1>3 DEF HasComeTo
<1> QED
  BY <1>1, <1>3, <1>4, RunsStay

LEMMA CompleteStep ==
    ASSUME Verification!VerificationAssumption, VerificationInv, NEW w \in Workers,
           Verification!CompleteItem(w)
    PROVE  VerificationInv'
<1> DEFINE r == v_worker[w].run
           m == Verification!NextItem(r)
           f == v_runs[r].items
<1>0. /\ v_worker[w] \in VerifyingWorkers /\ v_worker[w].pc = "probed"
      /\ UNCHANGED <<v_rev, v_row, v_admin, v_writes>>
  BY DEF VerificationInv, VerificationTypes, Verification!CompleteItem
<1>1. r \in DOMAIN v_runs /\ HasComeTo(v_worker[w], v_runs[r], v_rev)
  BY <1>0 DEF VerificationInv, WorkersOwnTheirRuns
<1>2. /\ v_runs[r] \in RunRows /\ IsHonest(v_runs[r], v_rev, v_verified)
      /\ f \in ItemMaps /\ DOMAIN f \subseteq Models
      /\ \A k \in DOMAIN f : f[k] \in Verification!Items
  BY <1>1, RunIsTyped DEF VerificationInv, RunsAreHonest
<1>3. Verification!Remaining(r) # {}
  BY <1>0, <1>1 DEF HasComeTo, Verification!Remaining
<1>4. m \in Verification!Remaining(r)
  BY <1>1, <1>3, NextItemIsLeft DEF VerificationInv
<1>5. m \in DOMAIN f /\ f[m].status = "queued"
  BY <1>4 DEF Verification!Remaining
<1>6. PICK accounted \in BOOLEAN :
        /\ accounted \/ v_faults < MaxFaults
        /\ v_faults' = IF accounted THEN v_faults ELSE v_faults + 1
        /\ v_runs' = [v_runs EXCEPT ![r].items[m] =
              [upstream |-> f[m].upstream, used |-> v_worker[w].used,
               status |-> IF Verification!Completed(w, accounted) THEN "succeeded" ELSE "failed"]]
        /\ v_worker' = [v_worker EXCEPT ![w].pc =
              IF ~accounted \/ v_worker[w].outcome = "channel" THEN "stop"
              ELSE IF Verification!Remaining(r) = {m} THEN "finish" ELSE "probe"]
        /\ v_verified' = IF v_worker[w].outcome = "ok" /\ accounted
                         THEN v_verified \cup {<<m, f[m].upstream>>} ELSE v_verified
  BY DEF Verification!CompleteItem
<1> DEFINE ok == v_worker[w].outcome = "ok" /\ accounted
           i == [upstream |-> f[m].upstream, used |-> v_worker[w].used,
                 status |-> IF ok THEN "succeeded" ELSE "failed"]
           g == [f EXCEPT ![m] = i]
           x == [v_runs[r] EXCEPT !.items = g]
           p == IF ~accounted \/ v_worker[w].outcome = "channel" THEN "stop"
                ELSE IF Verification!Remaining(r) = {m} THEN "finish" ELSE "probe"
           t == [v_worker[w] EXCEPT !.pc = p]
<1>7. v_runs' = [v_runs EXCEPT ![r] = x] /\ v_worker' = [v_worker EXCEPT ![w] = t]
  BY <1>6 DEF Verification!Completed
<1>8. i \in Verification!Items /\ i.status = (IF ok THEN "succeeded" ELSE "failed")
      /\ i.upstream = f[m].upstream /\ i.used = v_worker[w].used
  BY <1>0, <1>2, <1>5 DEF VerifyingWorkers, Verification!Items
<1> HIDE DEF i
<1>9. /\ g \in ItemMaps /\ DOMAIN g = DOMAIN f /\ g[m] = i
      /\ \A k \in DOMAIN f \ {m} : g[k] = f[k]
  <2>1. g \in [DOMAIN f -> Verification!Items]
    BY <1>2, <1>5, <1>8, ItemMapIsTyped
  <2>2. g \in ItemMaps
    BY <1>2, <2>1, ItemMapFromItems
  <2> QED
    BY <1>5, <2>2
<1> HIDE DEF g
<1>10. /\ x \in RunRows /\ x.items = g /\ x.status = v_runs[r].status
       /\ x.rev = v_runs[r].rev
  BY <1>2, <1>9 DEF RunRows
<1>11. t \in VerifyingWorkers /\ t.pc = p /\ t.run = r /\ t.used = v_worker[w].used
  BY <1>0 DEF VerifyingWorkers
<1>12. x.status = "running" /\ v_worker[w].used = x.rev
  BY <1>0, <1>1, <1>10 DEF HasComeTo
<1> HIDE DEF x, t
<1>13. /\ v_verified' \subseteq Models \X Upstreams /\ v_verified \subseteq v_verified'
       /\ ok => <<m, f[m].upstream>> \in v_verified'
  <2>1. f[m].upstream \in Upstreams /\ m \in Models
    BY <1>2, <1>5 DEF Verification!Items
  <2> QED
    BY <1>6, <2>1 DEF VerificationInv, VerificationTypes
<1>14. v_faults' \in 0 .. MaxFaults
  BY <1>6 DEF VerificationInv, VerificationTypes, Verification!VerificationAssumption
<1>15. IsHonest(x, v_rev, v_verified')
  <2>1. x.rev <= v_rev
    BY <1>2, <1>10 DEF IsHonest
  <2>2. ASSUME NEW k \in DOMAIN x.items, x.items[k].status = "succeeded"
        PROVE  x.items[k].used = x.rev /\ <<k, x.items[k].upstream>> \in v_verified'
    <3>1. CASE k = m
      BY <2>2, <3>1, <1>8, <1>9, <1>10, <1>12, <1>13
    <3>2. CASE k # m
      BY <2>2, <3>2, <1>2, <1>9, <1>10, <1>13 DEF IsHonest
    <3> QED
      BY <3>1, <3>2
  <2> QED
    BY <2>1, <2>2, <1>12 DEF IsHonest
<1>16. HasComeTo(t, x, v_rev)
  <2>1. CASE p = "stop"
    <3>1. ~ok
      BY <2>1
    <3>2. x.items[m].status = "failed" /\ m \in DOMAIN x.items
      BY <3>1, <1>5, <1>8, <1>9, <1>10
    <3> QED
      BY <2>1, <3>2, <1>11, <1>12 DEF HasComeTo
  <2>2. CASE p = "finish"
    <3>1. Verification!Remaining(r) = {m}
      BY <2>2
    <3>2. \A k \in DOMAIN x.items : x.items[k].status # "queued"
      BY <3>1, <1>8, <1>9, <1>10 DEF Verification!Remaining
    <3> QED
      BY <2>2, <3>2, <1>11, <1>12 DEF HasComeTo
  <2>3. CASE p = "probe"
    <3>1. Verification!Remaining(r) # {m}
      BY <2>3
    <3>2. PICK k \in Verification!Remaining(r) : k # m
      BY <3>1, <1>4
    <3>3. k \in DOMAIN x.items /\ x.items[k].status = "queued"
      BY <3>2, <1>9, <1>10 DEF Verification!Remaining
    <3> QED
      BY <2>3, <3>3, <1>11, <1>12 DEF HasComeTo
  <2> QED
    BY <2>1, <2>2, <2>3
<1>17. \A v \in Workers \ {w} : v_worker[v].pc # "idle" => v_worker[v].run # r
  BY <1>0 DEF VerificationInv, WorkersOwnTheirRuns
<1> HIDE DEF r, m, ok, f, p
<1> QED
  BY <1>0, <1>1, <1>7, <1>10, <1>11, <1>13, <1>14, <1>15, <1>16, <1>17, OneRunChanges

LEMMA FinishStep ==
    ASSUME VerificationInv, NEW w \in Workers, Verification!FinishRun(w),
           Verification!VerificationAssumption
    PROVE  VerificationInv'
<1> DEFINE r == v_worker[w].run
           x == [v_runs[r] EXCEPT !.status = Verification!Finished(r)]
           t == Verification!IdleWorker
<1>0. /\ v_worker[w].pc = "finish" /\ MaxRuns \in Nat /\ MaxRev \in Nat /\ v_rev \in Nat
      /\ v_runs' = [v_runs EXCEPT ![r] = x] /\ v_worker' = [v_worker EXCEPT ![w] = t]
      /\ UNCHANGED <<v_rev, v_row, v_admin, v_verified, v_writes, v_faults>>
  BY DEF VerificationInv, VerificationTypes, Verification!FinishRun,
         Verification!VerificationAssumption
<1>1. r \in DOMAIN v_runs /\ HasComeTo(v_worker[w], v_runs[r], v_rev)
  BY <1>0 DEF VerificationInv, WorkersOwnTheirRuns
<1>2. /\ v_runs[r] \in RunRows /\ IsHonest(v_runs[r], v_rev, v_verified)
      /\ v_runs[r].rev \in Nat /\ v_runs[r].items \in ItemMaps
      /\ \A m \in DOMAIN v_runs[r].items : v_runs[r].items[m] \in Verification!Items
  BY <1>1, RunIsTyped DEF VerificationInv, RunsAreHonest
<1>3. t \in VerifyingWorkers /\ t.pc = "idle"
  BY <1>0 DEF Verification!IdleWorker, VerifyingWorkers
<1>4. Verification!Finished(r) \in {"stale", "failed", "succeeded"}
  BY DEF Verification!Finished
<1>5. Verification!Finished(r) = "succeeded" =>
        \A m \in DOMAIN v_runs[r].items : v_runs[r].items[m].status = "succeeded"
  <2> SUFFICES ASSUME Verification!Finished(r) = "succeeded",
                      NEW m \in DOMAIN v_runs[r].items
               PROVE  v_runs[r].items[m].status = "succeeded"
    OBVIOUS
  <2>1. v_runs[r].rev = v_rev
        /\ \A k \in DOMAIN v_runs[r].items : v_runs[r].items[k].status \notin {"failed", "skipped"}
    BY DEF Verification!Finished
  <2>2. v_runs[r].items[m].status # "queued"
    BY <1>0, <1>1, <1>2, <2>1 DEF HasComeTo
  <2> QED
    BY <1>2, <2>1, <2>2 DEF Verification!Items
<1>6. /\ x \in RunRows /\ x.status = Verification!Finished(r) /\ x.rev = v_runs[r].rev
      /\ x.items = v_runs[r].items
  BY <1>2, <1>4 DEF RunRows, RunStates
<1> HIDE DEF x, t
<1>7. IsHonest(x, v_rev, v_verified')
  BY <1>0, <1>2, <1>4, <1>5, <1>6 DEF IsHonest
<1>8. /\ v_verified' \subseteq Models \X Upstreams /\ v_verified \subseteq v_verified'
      /\ v_faults' \in 0 .. MaxFaults
  BY <1>0 DEF VerificationInv, VerificationTypes
<1>9. \A v \in Workers \ {w} : v_worker[v].pc # "idle" => v_worker[v].run # r
  BY <1>0 DEF VerificationInv, WorkersOwnTheirRuns
<1> HIDE DEF r
<1> QED
  BY <1>0, <1>1, <1>3, <1>6, <1>7, <1>8, <1>9, OneRunChanges

LEMMA StopStep ==
    ASSUME Verification!VerificationAssumption, VerificationInv, NEW w \in Workers,
           Verification!StopBatch(w)
    PROVE  VerificationInv'
<1> DEFINE t == [v_worker[w] EXCEPT !.pc = "finish"]
<1>1. /\ v_worker[w] \in VerifyingWorkers /\ v_worker[w].pc = "stop"
      /\ Verification!SkipRemaining(v_worker[w].run)
      /\ v_worker' = [v_worker EXCEPT ![w] = t]
      /\ UNCHANGED <<v_rev, v_row, v_admin, v_verified, v_writes>>
  BY DEF VerificationInv, VerificationTypes, Verification!StopBatch
<1>2. t \in VerifyingWorkers /\ t.pc = "finish" /\ t.run = v_worker[w].run
  BY <1>1 DEF VerifyingWorkers
<1> HIDE DEF t
<1> QED
  BY <1>1, <1>2, SkipStep

LEMMA LostStep ==
    ASSUME Verification!VerificationAssumption, VerificationInv, NEW w \in Workers,
           Verification!WorkerLost(w)
    PROVE  VerificationInv'
<1>1. /\ v_worker[w].pc # "idle" /\ v_faults' \in 0 .. MaxFaults
      /\ v_worker' = [v_worker EXCEPT ![w] = Verification!IdleWorker]
      /\ UNCHANGED <<v_rev, v_row, v_runs, v_admin, v_verified, v_writes>>
      /\ MaxRuns \in Nat /\ MaxRev \in Nat
  BY DEF VerificationInv, VerificationTypes, Verification!VerificationAssumption,
         Verification!WorkerLost
<1>2. Verification!IdleWorker \in VerifyingWorkers /\ Verification!IdleWorker.pc = "idle"
  BY <1>1 DEF VerifyingWorkers, Verification!IdleWorker
<1> QED
  BY <1>1, <1>2, RunsStay

\* A request's step: admin a comes to have t, and the rows stay.
LEMMA RequestGoesOn ==
    ASSUME VerificationInv, NEW a \in Admins, NEW t \in BindingRequests,
           v_admin' = [v_admin EXCEPT ![a] = t],
           UNCHANGED <<v_rev, v_row, v_runs, v_worker, v_verified, v_writes, v_faults>>,
           t.pc # "idle" =>
               /\ t.model \in Models
               /\ (t.pc = "write" \/ ~t.needed) /\ t.status = "enabled" =>
                    <<t.model, t.upstream>> \in v_verified
    PROVE  VerificationInv'
<1>1. /\ v_row' \in [Models -> BindingRows] /\ v_writes' \in 0 .. MaxWrites
      /\ v_admin' \in [Admins -> BindingRequests] /\ v_admin'[a] = t
      /\ \A b \in Admins \ {a} : v_admin'[b] = v_admin[b]
  BY DEF VerificationInv, VerificationTypes
<1>2. RequestsAreBacked'
  <2> SUFFICES ASSUME NEW b \in Admins, v_admin'[b].pc # "idle"
               PROVE  /\ v_admin'[b].model \in Models
                      /\ (v_admin'[b].pc = "write" \/ ~v_admin'[b].needed)
                            /\ v_admin'[b].status = "enabled" =>
                           <<v_admin'[b].model, v_admin'[b].upstream>> \in v_verified
    BY DEF RequestsAreBacked
  <2>1. CASE b = a
    BY <2>1, <1>1
  <2>2. CASE b # a
    BY <2>2, <1>1 DEF VerificationInv, RequestsAreBacked
  <2> QED
    BY <2>1, <2>2
<1>3. Verification!EnabledWasVerified'
  BY DEF VerificationInv, Verification!EnabledWasVerified
<1> QED
  BY <1>1, <1>2, <1>3, BindingsChange

LEMMA IdleRequestIsTyped ==
    ASSUME Verification!VerificationAssumption
    PROVE  Verification!IdleAdmin \in BindingRequests /\ Verification!IdleAdmin.pc = "idle"
           /\ Verification!AnUpstream \in Upstreams
<1>1. Verification!AnUpstream \in Upstreams /\ MaxRuns \in Nat
  BY DEF Verification!VerificationAssumption, Verification!AnUpstream
<1> QED
  BY <1>1 DEF BindingRequests, Verification!IdleAdmin

LEMMA ReadStep ==
    ASSUME Verification!VerificationAssumption, VerificationInv, NEW a \in Admins,
           NEW m \in Models, NEW u \in Upstreams, NEW s \in {"enabled", "disabled"},
           NEW r \in 0 .. MaxRuns, Verification!ReadBinding(a, m, u, s, r)
    PROVE  VerificationInv'
<1> DEFINE n == Verification!RequiresVerification(m, u, s)
           t == [pc |-> "read", model |-> m, upstream |-> u, status |-> s, run |-> r,
                 needed |-> n]
<1>1. /\ v_row[m] \in BindingRows /\ v_row[m].status # "absent"
      /\ v_admin' = [v_admin EXCEPT ![a] = t]
      /\ UNCHANGED <<v_rev, v_row, v_runs, v_worker, v_verified, v_writes, v_faults>>
  BY DEF VerificationInv, VerificationTypes, Verification!ReadBinding
<1>2. n \in BOOLEAN
  BY DEF Verification!RequiresVerification
<1>3. ~n /\ s = "enabled" => <<m, u>> \in v_verified
  <2> SUFFICES ASSUME ~n, s = "enabled" PROVE <<m, u>> \in v_verified
    OBVIOUS
  <2>1. v_row[m].upstream = u /\ v_row[m].status = "enabled"
    BY <1>1 DEF Verification!RequiresVerification, BindingRows
  <2> QED
    BY <2>1 DEF VerificationInv, Verification!EnabledWasVerified
<1> HIDE DEF n
<1>4. t \in BindingRequests
  BY <1>2 DEF BindingRequests
<1> QED
  BY <1>1, <1>3, <1>4, RequestGoesOn

LEMMA CheckStep ==
    ASSUME Verification!VerificationAssumption, VerificationInv, NEW a \in Admins,
           Verification!CheckEvidence(a)
    PROVE  VerificationInv'
<1> DEFINE in == v_admin[a]
           t == [in EXCEPT !.pc = "write"]
<1>1. /\ in \in BindingRequests /\ in.pc = "read"
      /\ UNCHANGED <<v_rev, v_row, v_runs, v_worker, v_verified, v_writes, v_faults>>
  BY DEF VerificationInv, VerificationTypes, Verification!CheckEvidence
<1>2. CASE in.needed /\ ~(in.run \in DOMAIN v_runs
                          /\ Verification!Evidence(in.run, in.model, in.upstream))
  <2>1. v_admin' = [v_admin EXCEPT ![a] = Verification!IdleAdmin]
    BY <1>2 DEF Verification!CheckEvidence
  <2> QED
    BY <1>1, <2>1, IdleRequestIsTyped, RequestGoesOn
<1>3. CASE ~(in.needed /\ ~(in.run \in DOMAIN v_runs
                            /\ Verification!Evidence(in.run, in.model, in.upstream)))
  <2>1. v_admin' = [v_admin EXCEPT ![a] = t]
    BY <1>3 DEF Verification!CheckEvidence
  <2>2. /\ t \in BindingRequests /\ t.pc = "write" /\ t.model = in.model
        /\ t.upstream = in.upstream /\ t.status = in.status /\ t.needed = in.needed
    BY <1>1 DEF BindingRequests
  <2>3. in.model \in Models
    BY <1>1 DEF VerificationInv, RequestsAreBacked
  <2>4. in.status = "enabled" => <<in.model, in.upstream>> \in v_verified
    <3>1. CASE in.needed
      <4>1. /\ in.run \in DOMAIN v_runs
            /\ Verification!Evidence(in.run, in.model, in.upstream)
        BY <1>3, <3>1
      <4>2. IsHonest(v_runs[in.run], v_rev, v_verified)
        BY <4>1 DEF VerificationInv, RunsAreHonest
      <4> QED
        BY <4>1, <4>2 DEF IsHonest, Verification!Evidence
    <3>2. CASE ~in.needed
      BY <1>1, <3>2 DEF VerificationInv, RequestsAreBacked
    <3> QED
      BY <3>1, <3>2
  <2> HIDE DEF t
  <2>5. t.pc # "idle" =>
           /\ t.model \in Models
           /\ (t.pc = "write" \/ ~t.needed) /\ t.status = "enabled" =>
                <<t.model, t.upstream>> \in v_verified
    BY <2>2, <2>3, <2>4
  <2> HIDE DEF in
  <2> QED
    BY <1>1, <2>1, <2>2, <2>5, RequestGoesOn
<1> QED
  BY <1>2, <1>3

LEMMA WriteStep ==
    ASSUME Verification!VerificationAssumption, VerificationInv, NEW a \in Admins,
           Verification!WriteBinding(a)
    PROVE  VerificationInv'
<1> DEFINE in == v_admin[a]
           x == [status |-> in.status, upstream |-> in.upstream]
<1>1. /\ in \in BindingRequests /\ in.pc = "write"
      /\ v_row' = IF v_row[in.model].status = "absent" THEN v_row
                  ELSE [v_row EXCEPT ![in.model] = x]
      /\ v_admin' = [v_admin EXCEPT ![a] = Verification!IdleAdmin]
      /\ v_writes' \in 0 .. MaxWrites
      /\ UNCHANGED <<v_rev, v_runs, v_worker, v_verified, v_faults>>
  BY DEF VerificationInv, VerificationTypes, Verification!WriteBinding,
         Verification!VerificationAssumption
<1>2. in.model \in Models /\ (in.status = "enabled" => <<in.model, in.upstream>> \in v_verified)
  BY <1>1 DEF VerificationInv, RequestsAreBacked
<1>3. x \in BindingRows /\ x.status = in.status /\ x.upstream = in.upstream
  BY <1>1 DEF BindingRequests, BindingRows
<1> DEFINE k == in.model
<1> HIDE DEF x, in
<1>4. /\ v_row' \in [Models -> BindingRows]
      /\ \A m \in Models : v_row'[m] = v_row[m] \/ (m = k /\ v_row'[m] = x)
  BY <1>1, <1>2, <1>3 DEF VerificationInv, VerificationTypes
<1>5. Verification!EnabledWasVerified'
  <2> SUFFICES ASSUME NEW m \in Models, v_row'[m].status = "enabled"
               PROVE  <<m, v_row'[m].upstream>> \in v_verified
    BY <1>1 DEF Verification!EnabledWasVerified
  <2>1. CASE v_row'[m] = v_row[m]
    BY <2>1 DEF VerificationInv, Verification!EnabledWasVerified
  <2>2. CASE m = k /\ v_row'[m] = x
    BY <2>2, <1>2, <1>3
  <2> QED
    BY <2>1, <2>2, <1>4
<1>6. v_admin' \in [Admins -> BindingRequests]
  BY <1>1, IdleRequestIsTyped DEF VerificationInv, VerificationTypes
<1>7. RequestsAreBacked'
  <2>1. v_admin'[a].pc = "idle" /\ \A b \in Admins \ {a} : v_admin'[b] = v_admin[b]
    BY <1>1, IdleRequestIsTyped DEF VerificationInv, VerificationTypes
  <2> QED
    BY <1>1, <2>1 DEF VerificationInv, RequestsAreBacked
<1> QED
  BY <1>1, <1>4, <1>5, <1>6, <1>7, BindingsChange

LEMMA RowStep ==
    ASSUME VerificationInv, NEW m \in Models, NEW x \in BindingRows, x.status # "enabled",
           v_row' = [v_row EXCEPT ![m] = x], v_writes' \in 0 .. MaxWrites,
           UNCHANGED <<v_rev, v_runs, v_worker, v_admin, v_verified, v_faults>>
    PROVE  VerificationInv'
<1>1. /\ v_row' \in [Models -> BindingRows] /\ v_row'[m] = x
      /\ \A k \in Models \ {m} : v_row'[k] = v_row[k]
  BY DEF VerificationInv, VerificationTypes
<1>2. Verification!EnabledWasVerified'
  BY <1>1 DEF VerificationInv, Verification!EnabledWasVerified
<1>3. v_admin' \in [Admins -> BindingRequests]
  BY DEF VerificationInv, VerificationTypes
<1>4. RequestsAreBacked'
  BY DEF VerificationInv, RequestsAreBacked
<1> QED
  BY <1>1, <1>2, <1>3, <1>4, BindingsChange

LEMMA DeleteStep ==
    ASSUME Verification!VerificationAssumption, VerificationInv, NEW m \in Models,
           Verification!DeleteBinding(m)
    PROVE  VerificationInv'
<1> DEFINE x == [v_row[m] EXCEPT !.status = "absent"]
<1>1. /\ v_row[m] \in BindingRows /\ v_row' = [v_row EXCEPT ![m] = x]
      /\ v_writes' \in 0 .. MaxWrites
      /\ UNCHANGED <<v_rev, v_runs, v_worker, v_admin, v_verified, v_faults>>
  BY DEF VerificationInv, VerificationTypes, Verification!DeleteBinding,
         Verification!VerificationAssumption
<1>2. x \in BindingRows /\ x.status = "absent"
  BY <1>1 DEF BindingRows
<1> HIDE DEF x
<1> QED
  BY <1>1, <1>2, RowStep

LEMMA CreateStep ==
    ASSUME VerificationInv, NEW m \in Models, NEW u \in Upstreams,
           Verification!CreateBinding(m, u)
    PROVE  VerificationInv'
<1> DEFINE x == [status |-> "disabled", upstream |-> u]
<1>1. /\ v_row' = [v_row EXCEPT ![m] = x] /\ v_writes' \in 0 .. MaxWrites
      /\ UNCHANGED <<v_rev, v_runs, v_worker, v_admin, v_verified, v_faults>>
  BY DEF VerificationInv, VerificationTypes, Verification!CreateBinding
<1>2. x \in BindingRows /\ x.status = "disabled"
  BY DEF BindingRows
<1> HIDE DEF x
<1> QED
  BY <1>1, <1>2, RowStep

LEMMA ConfigureStep ==
    ASSUME Verification!VerificationAssumption, VerificationInv, Verification!Configure
    PROVE  VerificationInv'
<1>1. /\ v_rev \in Nat /\ v_rev' \in Nat /\ v_rev <= v_rev' /\ v_rev' \in 1 .. MaxRev
      /\ UNCHANGED <<v_row, v_runs, v_worker, v_admin, v_verified, v_writes, v_faults>>
  BY DEF VerificationInv, VerificationTypes, Verification!Configure,
         Verification!VerificationAssumption
<1>2. VerificationTypes'
  BY <1>1 DEF VerificationInv, VerificationTypes
<1>3. RunsAreHonest'
  <2> SUFFICES ASSUME NEW r \in DOMAIN v_runs
               PROVE  IsHonest(v_runs[r], v_rev', v_verified)
    BY <1>1 DEF RunsAreHonest
  <2>1. v_runs[r] \in RunRows /\ IsHonest(v_runs[r], v_rev, v_verified)
    BY RunIsTyped DEF VerificationInv, RunsAreHonest
  <2> QED
    BY <1>1, <2>1, HonestStays
<1>4. WorkersOwnTheirRuns'
  <2>1. ASSUME NEW w \in Workers, v_worker[w].pc # "idle"
        PROVE  /\ v_worker[w].run \in DOMAIN v_runs
               /\ HasComeTo(v_worker[w], v_runs[v_worker[w].run], v_rev')
    <3>1. /\ v_worker[w].run \in DOMAIN v_runs
          /\ HasComeTo(v_worker[w], v_runs[v_worker[w].run], v_rev)
      BY <2>1 DEF VerificationInv, WorkersOwnTheirRuns
    <3>2. v_runs[v_worker[w].run] \in RunRows
      BY <3>1, RunIsTyped DEF VerificationInv
    <3> QED
      BY <1>1, <3>1, <3>2, ComesToStays
  <2>2. \A v, w \in Workers :
          v # w /\ v_worker[v].pc # "idle" /\ v_worker[w].pc # "idle" =>
            v_worker[v].run # v_worker[w].run
    BY DEF VerificationInv, WorkersOwnTheirRuns
  <2> QED
    BY <1>1, <2>1, <2>2 DEF WorkersOwnTheirRuns
<1>5. Verification!EnabledWasVerified' /\ RequestsAreBacked'
  BY <1>1 DEF VerificationInv, Verification!EnabledWasVerified, RequestsAreBacked
<1> QED
  BY <1>2, <1>3, <1>4, <1>5 DEF VerificationInv

LEMMA VerificationStep ==
    ASSUME Verification!VerificationAssumption, VerificationInv,
           [Verification!Next]_(Verification!vars)
    PROVE  VerificationInv'
<1>1. ASSUME Verification!AdminStep PROVE VerificationInv'
  <2>1. ASSUME NEW t \in (SUBSET Models) \ {{}}, NEW u \in [t -> Upstreams],
               Verification!CreateVerification(t, u)
        PROVE  VerificationInv'
    <3>1. t \in SUBSET Models /\ t # {}
      OBVIOUS
    <3> QED
      BY <2>1, <3>1, CreateVerificationStep
  <2>2. ASSUME NEW a \in Admins, NEW m \in Models, NEW u \in Upstreams,
               NEW s \in {"enabled", "disabled"}, NEW r \in 0 .. MaxRuns,
               Verification!ReadBinding(a, m, u, s, r)
        PROVE  VerificationInv'
    BY <2>2, ReadStep
  <2>3. ASSUME NEW a \in Admins, Verification!CheckEvidence(a) \/ Verification!WriteBinding(a)
        PROVE  VerificationInv'
    BY <2>3, CheckStep, WriteStep
  <2>4. ASSUME NEW m \in Models, Verification!DeleteBinding(m) PROVE VerificationInv'
    BY <2>4, DeleteStep
  <2>5. ASSUME NEW m \in Models, NEW u \in Upstreams, Verification!CreateBinding(m, u)
        PROVE  VerificationInv'
    BY <2>5, CreateStep
  <2> QED
    BY <1>1, <2>1, <2>2, <2>3, <2>4, <2>5, ConfigureStep DEF Verification!AdminStep
<1>2. ASSUME NEW w \in Workers, Verification!RunStep(w) PROVE VerificationInv'
  BY <1>2, ClaimStep, SnapshotStep, ProbeStep, CompleteStep, StopStep, FinishStep
     DEF Verification!RunStep
<1>3. CASE UNCHANGED Verification!vars
  BY <1>3 DEF Verification!vars, VerificationInv, VerificationTypes, RunsAreHonest,
              WorkersOwnTheirRuns, Verification!EnabledWasVerified, RequestsAreBacked
<1> QED
  BY <1>1, <1>2, <1>3, LostStep DEF Verification!Next

LEMMA VerificationStarts ==
    ASSUME Verification!VerificationAssumption, Verification!Init
    PROVE  VerificationInv
<1> USE DEF Verification!Init
<1>1. MaxRuns \in Nat /\ MaxRev \in Nat /\ MaxRev > 0 /\ MaxWrites \in Nat /\ MaxFaults \in Nat
  BY DEF Verification!VerificationAssumption
<1>2. /\ v_runs \in Seq(RunRows) /\ Len(v_runs) = 0 /\ DOMAIN v_runs = {}
  OBVIOUS
<1>3. v_worker \in [Workers -> VerifyingWorkers] /\ \A w \in Workers : v_worker[w].pc = "idle"
  BY <1>1 DEF Verification!IdleWorker, VerifyingWorkers
<1>4. v_admin \in [Admins -> BindingRequests] /\ \A a \in Admins : v_admin[a].pc = "idle"
  BY IdleRequestIsTyped
<1>5. /\ v_row \in [Models -> BindingRows]
      /\ \A m \in Models : v_row[m].status = "disabled"
  BY IdleRequestIsTyped DEF BindingRows
<1>6. VerificationTypes
  BY <1>1, <1>2, <1>3, <1>4, <1>5 DEF VerificationTypes
<1> QED
  BY <1>2, <1>3, <1>4, <1>5, <1>6
     DEF VerificationInv, RunsAreHonest, WorkersOwnTheirRuns,
         Verification!EnabledWasVerified, RequestsAreBacked

LEMMA VerificationInvHolds ==
    ASSUME Verification!VerificationAssumption
    PROVE  Verification!Spec => []VerificationInv
<1>1. Verification!Init => VerificationInv
  BY VerificationStarts
<1>2. VerificationInv /\ [Verification!Next]_(Verification!vars) => VerificationInv'
  BY VerificationStep
<1> QED
  BY <1>1, <1>2, PTL DEF Verification!Spec

\* Evidence that would be accepted now was probed with the configuration of
\* now and is in the Provider's ledger, whatever changed under the batch and
\* wherever it stopped (service.go of the verification, GetCurrentChannelModel-
\* VerificationEvidence).
THEOREM UsableEvidenceIsFreshTheorem ==
    ASSUME Verification!VerificationAssumption
    PROVE  Verification!Spec => []Verification!UsableEvidenceIsFresh
<1>1. VerificationInv => Verification!UsableEvidenceIsFresh
  BY DEF VerificationInv, RunsAreHonest, IsHonest, Verification!UsableEvidenceIsFresh,
         Verification!Evidence
<1> QED
  BY <1>1, VerificationInvHolds, PTL

\* A run is called succeeded only when every one of its items is, also when
\* the statement that skips the rest of a stopped batch failed.
THEOREM SucceededRunIsWholeTheorem ==
    ASSUME Verification!VerificationAssumption
    PROVE  Verification!Spec => []Verification!SucceededRunIsWhole
<1>1. VerificationInv => Verification!SucceededRunIsWhole
  BY DEF VerificationInv, RunsAreHonest, IsHonest, Verification!SucceededRunIsWhole
<1> QED
  BY <1>1, VerificationInvHolds, PTL

\* An enabled binding points to an upstream model that a probe once found
\* usable for it, for every number of administrators whose updates, deletions
\* and re-creations race.
THEOREM EnabledWasVerifiedTheorem ==
    ASSUME Verification!VerificationAssumption
    PROVE  Verification!Spec => []Verification!EnabledWasVerified
<1>1. VerificationInv => Verification!EnabledWasVerified
  BY DEF VerificationInv
<1> QED
  BY <1>1, VerificationInvHolds, PTL

-----------------------------------------------------------------------------
(***************************************************************************)
(* The discovery of models.  A run that is worked on is one worker's, and  *)
(* listed with the revision the run froze; a run that waits has an attempt *)
(* left (WaitingHaveAttemptsLeft).  Ids are never given twice.             *)
(***************************************************************************)
CONSTANTS MaxAttempts, Keep
VARIABLES y_rev, y_runs, y_created, y_worker, y_faults

Discovery == INSTANCE ModelDiscovery WITH
    rev <- y_rev, runs <- y_runs, created <- y_created, worker <- y_worker,
    faults <- y_faults

AtWork == {"claimed", "listing"}
DiscoveryWorkers ==
    [pc : {"idle", "claimed", "listing", "sweep"}, id : 0 .. MaxRuns, used : 0 .. MaxRev]

RunsAreDistinct ==
    /\ \A r \in y_runs : r.id <= y_created
    /\ \A r, s \in y_runs : r.id = s.id => r = s

WaitingHaveAttemptsLeft ==
    \A r \in y_runs : r.status \in {"queued", "waiting"} => r.attempts < MaxAttempts

ListersOwnTheirRuns ==
    /\ \A w \in Workers : y_worker[w].pc \in AtWork =>
         \E r \in y_runs :
            /\ r.id = y_worker[w].id /\ r.status = "running"
            /\ y_worker[w].pc = "listing" => y_worker[w].used = r.rev
    /\ \A v, w \in Workers :
         v # w /\ y_worker[v].pc \in AtWork /\ y_worker[w].pc \in AtWork =>
           y_worker[v].id # y_worker[w].id

DiscoveryInv ==
    /\ Discovery!TypeOK /\ Discovery!SucceededIsOfItsRevision
    /\ RunsAreDistinct /\ WaitingHaveAttemptsLeft /\ ListersOwnTheirRuns

-----------------------------------------------------------------------------
(* What the actions of the discovery are built from.                       *)

\* A set of numbers up to n that is not empty has a greatest one.
LEMMA GreatestNumber ==
    ASSUME NEW n \in Nat, NEW T \in SUBSET (0 .. n), T # {}
    PROVE  \E x \in T : \A y \in T : y <= x
<1> DEFINE U == {n - x : x \in T}
<1>1. U \in SUBSET Nat /\ U # {}
  <2>1. \A x \in T : n - x \in Nat
    OBVIOUS
  <2>2. U \subseteq Nat
    BY <2>1
  <2>3. PICK x \in T : TRUE
    OBVIOUS
  <2>4. n - x \in U
    BY <2>3
  <2> QED
    BY <2>2, <2>4
<1>2. PICK u \in U : \A v \in U : u <= v
  BY <1>1, LeastNumber
<1>3. PICK x \in T : u = n - x
  BY <1>2
<1>4. \A y \in T : y <= x
  <2> TAKE y \in T
  <2>1. n - x <= n - y
    BY <1>2, <1>3
  <2> QED
    BY <2>1
<1> QED
  BY <1>3, <1>4

\* The run a worker is at work on.
LEMMA RunIsFound ==
    ASSUME DiscoveryInv, NEW w \in Workers, y_worker[w].pc \in AtWork
    PROVE  /\ Discovery!Run(y_worker[w].id) \in y_runs
           /\ Discovery!Run(y_worker[w].id) \in Discovery!RunOf
           /\ Discovery!Run(y_worker[w].id).id = y_worker[w].id
           /\ Discovery!Run(y_worker[w].id).status = "running"
           /\ y_worker[w].pc = "listing" =>
                y_worker[w].used = Discovery!Run(y_worker[w].id).rev
           /\ \A v \in Workers \ {w} :
                y_worker[v].pc \in AtWork => y_worker[v].id # y_worker[w].id
<1>1. PICK r \in y_runs :
        /\ r.id = y_worker[w].id /\ r.status = "running"
        /\ y_worker[w].pc = "listing" => y_worker[w].used = r.rev
  BY DEF DiscoveryInv, ListersOwnTheirRuns
<1>2. Discovery!Run(y_worker[w].id) \in y_runs /\ Discovery!Run(y_worker[w].id).id = y_worker[w].id
  BY <1>1 DEF Discovery!Run
<1>3. Discovery!Run(y_worker[w].id) = r
  BY <1>1, <1>2 DEF DiscoveryInv, RunsAreDistinct
<1>4. r \in Discovery!RunOf
  BY DEF DiscoveryInv, Discovery!TypeOK
<1>5. \A v \in Workers \ {w} : y_worker[v].pc \in AtWork => y_worker[v].id # y_worker[w].id
  BY DEF DiscoveryInv, ListersOwnTheirRuns
<1> QED
  BY <1>1, <1>3, <1>4, <1>5

\* Nobody is at work on a run that is not running.
LEMMA NobodyIsAtWork ==
    ASSUME DiscoveryInv, NEW r \in y_runs, r.status # "running"
    PROVE  \A v \in Workers : y_worker[v].pc \in AtWork => y_worker[v].id # r.id
  BY DEF DiscoveryInv, ListersOwnTheirRuns, RunsAreDistinct

\* A step that makes x of the run r; who is at work on it then is w.
LEMMA RunReplaced ==
    ASSUME DiscoveryInv, NEW r \in y_runs, NEW x \in Discovery!RunOf, x.id = r.id,
           y_runs' = Discovery!Change(r, x), UNCHANGED <<y_rev, y_created>>,
           x.status \in {"queued", "waiting"} => x.attempts < MaxAttempts,
           x.status = "succeeded" => x.listed = x.rev,
           y_worker' \in [Workers -> DiscoveryWorkers], NEW w,
           \A v \in Workers : y_worker'[v].pc \in AtWork =>
              \/ y_worker'[v] = y_worker[v] /\ y_worker[v].id # r.id
              \/ /\ v = w /\ x.status = "running" /\ y_worker'[v].id = r.id
                 /\ y_worker'[v].pc = "listing" => y_worker'[v].used = x.rev,
           y_faults' \in 0 .. MaxFaults
    PROVE  DiscoveryInv'
<1>1. y_runs' = (y_runs \ {r}) \cup {x} /\ x \in y_runs'
  BY DEF Discovery!Change
<1>2. Discovery!TypeOK'
  BY <1>1 DEF DiscoveryInv, Discovery!TypeOK, DiscoveryWorkers
<1>3. Discovery!SucceededIsOfItsRevision'
  BY <1>1 DEF DiscoveryInv, Discovery!SucceededIsOfItsRevision
<1>4. RunsAreDistinct'
  BY <1>1 DEF DiscoveryInv, RunsAreDistinct
<1>5. WaitingHaveAttemptsLeft'
  BY <1>1 DEF DiscoveryInv, WaitingHaveAttemptsLeft
<1>6. ASSUME NEW v \in Workers, y_worker'[v].pc \in AtWork
      PROVE  \E s \in y_runs' :
                /\ s.id = y_worker'[v].id /\ s.status = "running"
                /\ y_worker'[v].pc = "listing" => y_worker'[v].used = s.rev
  <2>1. CASE y_worker'[v] = y_worker[v] /\ y_worker[v].id # r.id
    <3>1. PICK s \in y_runs :
            /\ s.id = y_worker[v].id /\ s.status = "running"
            /\ y_worker[v].pc = "listing" => y_worker[v].used = s.rev
      BY <1>6, <2>1 DEF DiscoveryInv, ListersOwnTheirRuns
    <3>2. s \in y_runs'
      BY <1>1, <2>1, <3>1
    <3> QED
      BY <2>1, <3>1, <3>2
  <2>2. CASE /\ v = w /\ x.status = "running" /\ y_worker'[v].id = r.id
             /\ y_worker'[v].pc = "listing" => y_worker'[v].used = x.rev
    BY <1>1, <2>2
  <2> QED
    BY <1>6, <2>1, <2>2
<1>7. ASSUME NEW u \in Workers, NEW v \in Workers, u # v,
             y_worker'[u].pc \in AtWork, y_worker'[v].pc \in AtWork
      PROVE  y_worker'[u].id # y_worker'[v].id
  BY <1>7 DEF DiscoveryInv, ListersOwnTheirRuns
<1>8. ListersOwnTheirRuns'
  BY <1>6, <1>7 DEF ListersOwnTheirRuns
<1> QED
  BY <1>2, <1>3, <1>4, <1>5, <1>8 DEF DiscoveryInv

\* A step that may remove ended runs; no worker takes up a run.
LEMMA RunsRemoved ==
    ASSUME DiscoveryInv, y_runs' \subseteq y_runs,
           \A r \in y_runs : r.status = "running" => r \in y_runs',
           UNCHANGED <<y_rev, y_created>>, y_faults' \in 0 .. MaxFaults,
           y_worker' \in [Workers -> DiscoveryWorkers],
           \A v \in Workers : y_worker'[v].pc \in AtWork => y_worker'[v] = y_worker[v]
    PROVE  DiscoveryInv'
<1>1. Discovery!TypeOK'
  BY DEF DiscoveryInv, Discovery!TypeOK, DiscoveryWorkers
<1>2. Discovery!SucceededIsOfItsRevision'
  BY DEF DiscoveryInv, Discovery!SucceededIsOfItsRevision
<1>3. RunsAreDistinct' /\ WaitingHaveAttemptsLeft'
  BY DEF DiscoveryInv, RunsAreDistinct, WaitingHaveAttemptsLeft
<1>4. ListersOwnTheirRuns'
  BY DEF DiscoveryInv, ListersOwnTheirRuns
<1> QED
  BY <1>1, <1>2, <1>3, <1>4 DEF DiscoveryInv

-----------------------------------------------------------------------------
(* Each action of the discovery.                                           *)

LEMMA DiscoveryTypes ==
    ASSUME Discovery!DiscoveryAssumption, DiscoveryInv
    PROVE  /\ {MaxAttempts, Keep, MaxRuns, MaxRev} \subseteq Nat \ {0} /\ MaxFaults \in Nat
           /\ y_rev \in 1 .. MaxRev /\ y_created \in 0 .. MaxRuns
           /\ y_runs \subseteq Discovery!RunOf
           /\ y_worker \in [Workers -> DiscoveryWorkers] /\ y_faults \in 0 .. MaxFaults
           /\ Discovery!IdleWorker \in DiscoveryWorkers
           /\ Discovery!IdleWorker.pc = "idle"
<1>1. /\ {MaxAttempts, Keep, MaxRuns, MaxRev} \subseteq Nat \ {0} /\ MaxFaults \in Nat
      /\ y_rev \in 1 .. MaxRev /\ y_created \in 0 .. MaxRuns
      /\ y_runs \subseteq Discovery!RunOf
      /\ y_worker \in [Workers -> DiscoveryWorkers] /\ y_faults \in 0 .. MaxFaults
  BY DEF Discovery!DiscoveryAssumption, DiscoveryInv, Discovery!TypeOK, DiscoveryWorkers
<1>2. MaxRuns \in Nat /\ MaxRev \in Nat
  BY <1>1
<1> QED
  BY <1>1, <1>2 DEF Discovery!IdleWorker, DiscoveryWorkers

LEMMA CreateDiscoveryStep ==
    ASSUME Discovery!DiscoveryAssumption, DiscoveryInv, Discovery!CreateDiscovery
    PROVE  DiscoveryInv'
<1> DEFINE x == [id |-> y_created + 1, status |-> "queued", rev |-> y_rev, attempts |-> 0,
                 listed |-> 0]
<1>1. /\ y_created < MaxRuns /\ y_created' = y_created + 1
      /\ y_runs' = y_runs \cup {x}
      /\ UNCHANGED <<y_rev, y_worker, y_faults>>
  BY DEF Discovery!CreateDiscovery
<1>2. y_created \in Nat /\ y_created + 1 \in 1 .. MaxRuns /\ MaxAttempts \in Nat \ {0}
  BY <1>1, DiscoveryTypes
<1>3. /\ x \in Discovery!RunOf /\ x.id = y_created + 1 /\ x.status = "queued"
      /\ x.attempts < MaxAttempts
  <2>1. 0 \in 0 .. MaxAttempts /\ 0 \in 0 .. MaxRev /\ 0 < MaxAttempts
    BY DiscoveryTypes
  <2> QED
    BY <1>2, <2>1, DiscoveryTypes DEF Discovery!RunOf, Discovery!Active, Discovery!Ended
<1> HIDE DEF x
<1>4. \A r \in y_runs : r.id \in Nat /\ r.id <= y_created
  BY DEF DiscoveryInv, Discovery!TypeOK, Discovery!RunOf, RunsAreDistinct
<1>5. Discovery!TypeOK'
  BY <1>1, <1>2, <1>3 DEF DiscoveryInv, Discovery!TypeOK
<1>6. Discovery!SucceededIsOfItsRevision' /\ WaitingHaveAttemptsLeft'
  BY <1>1, <1>3 DEF DiscoveryInv, Discovery!SucceededIsOfItsRevision, WaitingHaveAttemptsLeft
<1>7. RunsAreDistinct'
  <2>1. \A r \in y_runs : r.id # x.id /\ r.id <= y_created + 1
    BY <1>2, <1>3, <1>4
  <2> QED
    BY <1>1, <1>2, <1>3, <2>1 DEF DiscoveryInv, RunsAreDistinct
<1>8. ListersOwnTheirRuns'
  BY <1>1 DEF DiscoveryInv, ListersOwnTheirRuns
<1> QED
  BY <1>5, <1>6, <1>7, <1>8 DEF DiscoveryInv

LEMMA ClaimDiscoveryStep ==
    ASSUME Discovery!DiscoveryAssumption, DiscoveryInv, NEW w \in Workers,
           Discovery!Claim(w)
    PROVE  DiscoveryInv'
<1>1. PICK r \in y_runs :
        /\ r.status = "queued"
        /\ y_runs' = Discovery!Change(r, [r EXCEPT !.status = "running",
                                                   !.attempts = r.attempts + 1])
        /\ y_worker' = [y_worker EXCEPT ![w] = [pc |-> "claimed", id |-> r.id, used |-> 0]]
  BY DEF Discovery!Claim
<1> DEFINE x == [r EXCEPT !.status = "running", !.attempts = r.attempts + 1]
           t == [pc |-> "claimed", id |-> r.id, used |-> 0]
<1>2. UNCHANGED <<y_rev, y_created, y_faults>>
  BY DEF Discovery!Claim
<1>3. r \in Discovery!RunOf /\ r.attempts < MaxAttempts
  BY <1>1 DEF DiscoveryInv, Discovery!TypeOK, WaitingHaveAttemptsLeft
<1>4. r.attempts + 1 \in 0 .. MaxAttempts
  BY <1>3, DiscoveryTypes DEF Discovery!RunOf
<1>5. /\ x \in Discovery!RunOf /\ x.id = r.id /\ x.status = "running"
  BY <1>3, <1>4 DEF Discovery!RunOf, Discovery!Active
<1>6. t \in DiscoveryWorkers /\ t.id = r.id /\ t.pc = "claimed"
  <2>1. r.id \in 0 .. MaxRuns /\ 0 \in 0 .. MaxRev
    BY <1>3, DiscoveryTypes DEF Discovery!RunOf
  <2> QED
    BY <2>1 DEF DiscoveryWorkers
<1> HIDE DEF x, t
<1>7. y_worker' \in [Workers -> DiscoveryWorkers] /\ y_worker'[w] = t
      /\ \A v \in Workers \ {w} : y_worker'[v] = y_worker[v]
  BY <1>1, <1>6, DiscoveryTypes DEF t
<1>8. \A v \in Workers : y_worker[v].pc \in AtWork => y_worker[v].id # r.id
  BY <1>1, NobodyIsAtWork
<1>9. \A v \in Workers : y_worker'[v].pc \in AtWork =>
              \/ y_worker'[v] = y_worker[v] /\ y_worker[v].id # r.id
              \/ /\ v = w /\ x.status = "running" /\ y_worker'[v].id = r.id
                 /\ y_worker'[v].pc = "listing" => y_worker'[v].used = x.rev
  BY <1>5, <1>6, <1>7, <1>8
<1>10. y_runs' = Discovery!Change(r, x) /\ y_faults' \in 0 .. MaxFaults
  BY <1>1, <1>2, DiscoveryTypes DEF x
<1> QED
  BY <1>2, <1>5, <1>7, <1>9, <1>10, RunReplaced

\* A step of a worker at work that makes x of its run and comes to be t.
LEMMA ListerGoesOn ==
    ASSUME Discovery!DiscoveryAssumption, DiscoveryInv, NEW w \in Workers,
           y_worker[w].pc \in AtWork, NEW x \in Discovery!RunOf, NEW t \in DiscoveryWorkers,
           x.id = y_worker[w].id,
           y_runs' = Discovery!Change(Discovery!Run(y_worker[w].id), x),
           y_worker' = [y_worker EXCEPT ![w] = t], UNCHANGED <<y_rev, y_created, y_faults>>,
           x.status \in {"queued", "waiting"} => x.attempts < MaxAttempts,
           x.status = "succeeded" => x.listed = x.rev,
           t.pc \in AtWork => /\ t.id = y_worker[w].id /\ x.status = "running"
                              /\ t.pc = "listing" => t.used = x.rev
    PROVE  DiscoveryInv'
<1> DEFINE r == Discovery!Run(y_worker[w].id)
<1>1. /\ r \in y_runs /\ r.id = y_worker[w].id
      /\ \A v \in Workers \ {w} : y_worker[v].pc \in AtWork => y_worker[v].id # r.id
  BY RunIsFound
<1>2. /\ y_worker' \in [Workers -> DiscoveryWorkers] /\ y_worker'[w] = t
      /\ \A v \in Workers \ {w} : y_worker'[v] = y_worker[v]
      /\ y_faults' \in 0 .. MaxFaults
  BY DiscoveryTypes
<1> HIDE DEF r
<1>3. \A v \in Workers : y_worker'[v].pc \in AtWork =>
              \/ y_worker'[v] = y_worker[v] /\ y_worker[v].id # r.id
              \/ /\ v = w /\ x.status = "running" /\ y_worker'[v].id = r.id
                 /\ y_worker'[v].pc = "listing" => y_worker'[v].used = x.rev
  BY <1>1, <1>2
<1>4. y_runs' = Discovery!Change(r, x) /\ x.id = r.id
  BY <1>1 DEF r
<1> QED
  BY <1>1, <1>2, <1>3, <1>4, RunReplaced

LEMMA LoadDiscoverySnapshotStep ==
    ASSUME Discovery!DiscoveryAssumption, DiscoveryInv, NEW w \in Workers,
           Discovery!LoadSnapshot(w)
    PROVE  DiscoveryInv'
<1> DEFINE r == Discovery!Run(y_worker[w].id)
<1>1. /\ y_worker[w].pc = "claimed" /\ y_worker[w] \in DiscoveryWorkers
      /\ UNCHANGED <<y_rev, y_created, y_faults>>
  BY DiscoveryTypes DEF Discovery!LoadSnapshot
<1>2. /\ r \in y_runs /\ r \in Discovery!RunOf /\ r.id = y_worker[w].id
      /\ r.status = "running"
  BY <1>1, RunIsFound DEF AtWork
<1>3. CASE r.rev # y_rev
  <2> DEFINE x == [r EXCEPT !.status = "stale"]
  <2>1. /\ y_runs' = Discovery!Change(r, x)
        /\ y_worker' = [y_worker EXCEPT ![w] = Discovery!IdleWorker]
    BY <1>3 DEF Discovery!LoadSnapshot, Discovery!Finish
  <2> HIDE DEF r
  <2>2. x \in Discovery!RunOf /\ x.id = r.id /\ x.status = "stale"
    BY <1>2 DEF Discovery!RunOf, Discovery!Ended
  <2> HIDE DEF x
  <2>3. y_runs' = Discovery!Change(Discovery!Run(y_worker[w].id), x)
    BY <2>1 DEF r
  <2> QED
    BY <1>1, <1>2, <2>1, <2>2, <2>3, DiscoveryTypes, ListerGoesOn DEF AtWork
<1>4. CASE r.rev = y_rev
  <2> DEFINE t == [y_worker[w] EXCEPT !.pc = "listing", !.used = y_rev]
  <2>1. y_worker' = [y_worker EXCEPT ![w] = t] /\ UNCHANGED y_runs
    BY <1>4 DEF Discovery!LoadSnapshot
  <2>2. y_rev \in 0 .. MaxRev
    BY DiscoveryTypes
  <2>3. t \in DiscoveryWorkers /\ t.pc = "listing" /\ t.id = y_worker[w].id /\ t.used = y_rev
    BY <1>1, <2>2 DEF DiscoveryWorkers
  <2>4. y_runs' = Discovery!Change(r, r)
    BY <1>2, <2>1 DEF Discovery!Change
  <2> HIDE DEF t
  <2>5. \E x \in Discovery!RunOf : x = r
    BY <1>2
  <2>6. r.status \notin {"queued", "waiting", "succeeded"}
    BY <1>2
  <2>7. y_worker[w].pc \in AtWork
    BY <1>1 DEF AtWork
  <2>8. t.pc \in AtWork => /\ t.id = y_worker[w].id /\ r.status = "running"
                           /\ t.pc = "listing" => t.used = r.rev
    BY <1>2, <1>4, <2>3
  <2> QED
    BY <1>1, <1>2, <2>1, <2>3, <2>4, <2>6, <2>7, <2>8, ListerGoesOn
<1> QED
  BY <1>3, <1>4

LEMMA CommitItemsStep ==
    ASSUME Discovery!DiscoveryAssumption, DiscoveryInv, NEW w \in Workers,
           Discovery!CommitItems(w)
    PROVE  DiscoveryInv'
<1> DEFINE r == Discovery!Run(y_worker[w].id)
           l == [r EXCEPT !.listed = y_worker[w].used]
           x == Discovery!Finish(l)
           t == [y_worker[w] EXCEPT !.pc = "sweep"]
<1>1. /\ y_worker[w].pc = "listing" /\ y_worker[w] \in DiscoveryWorkers
      /\ y_runs' = Discovery!Change(r, x) /\ y_worker' = [y_worker EXCEPT ![w] = t]
      /\ UNCHANGED <<y_rev, y_created, y_faults>>
  BY DiscoveryTypes DEF Discovery!CommitItems
<1>2. /\ r \in y_runs /\ r \in Discovery!RunOf /\ r.id = y_worker[w].id
      /\ r.status = "running" /\ y_worker[w].used = r.rev
  BY <1>1, RunIsFound DEF AtWork
<1>3. t \in DiscoveryWorkers /\ t.pc = "sweep"
  BY <1>1 DEF DiscoveryWorkers
<1> HIDE DEF r, t
<1>4. l \in Discovery!RunOf /\ l.id = r.id /\ l.listed = r.rev /\ l.rev = r.rev
  <2>1. y_worker[w].used \in 0 .. MaxRev
    BY <1>1 DEF DiscoveryWorkers
  <2> QED
    BY <1>2, <2>1 DEF Discovery!RunOf
<1> HIDE DEF l
<1>5. /\ x \in Discovery!RunOf /\ x.id = r.id /\ x.listed = x.rev
      /\ x.status \in {"succeeded", "stale"}
  BY <1>4 DEF Discovery!RunOf, Discovery!Finish, Discovery!Ended
<1> HIDE DEF x
<1>6. y_runs' = Discovery!Change(Discovery!Run(y_worker[w].id), x)
  BY <1>1 DEF r
<1> QED
  BY <1>1, <1>2, <1>3, <1>5, <1>6, ListerGoesOn DEF AtWork

LEMMA ListingFailsStep ==
    ASSUME Discovery!DiscoveryAssumption, DiscoveryInv, NEW w \in Workers,
           Discovery!ListingFails(w)
    PROVE  DiscoveryInv'
<1> DEFINE r == Discovery!Run(y_worker[w].id)
<1>1. PICK s \in {"waiting", "failed"} :
        /\ s = "waiting" => r.attempts < MaxAttempts
        /\ y_runs' = Discovery!Change(r, [r EXCEPT !.status = s])
  <2>1. PICK transient \in BOOLEAN :
          y_runs' = Discovery!Change(r, [r EXCEPT !.status =
                      IF transient /\ Discovery!MayRetry(r) THEN "waiting" ELSE "failed"])
    BY DEF Discovery!ListingFails
  <2> HIDE DEF r
  <2>2. CASE transient /\ Discovery!MayRetry(r)
    BY <2>1, <2>2 DEF Discovery!MayRetry
  <2>3. CASE ~(transient /\ Discovery!MayRetry(r))
    BY <2>1, <2>3
  <2> QED
    BY <2>2, <2>3
<1>2. /\ y_worker[w].pc = "listing" /\ y_worker' = [y_worker EXCEPT ![w] = Discovery!IdleWorker]
      /\ UNCHANGED <<y_rev, y_created, y_faults>>
  BY DEF Discovery!ListingFails
<1>3. r \in Discovery!RunOf /\ r.id = y_worker[w].id
  BY <1>2, RunIsFound DEF AtWork
<1> DEFINE x == [r EXCEPT !.status = s]
<1> HIDE DEF r
<1>4. x \in Discovery!RunOf /\ x.id = r.id /\ x.status = s /\ x.attempts = r.attempts
  BY <1>3 DEF Discovery!RunOf, Discovery!Active, Discovery!Ended
<1>5. y_runs' = Discovery!Change(Discovery!Run(y_worker[w].id), x)
  BY <1>1 DEF r
<1> HIDE DEF x
<1> QED
  BY <1>1, <1>2, <1>3, <1>4, <1>5, DiscoveryTypes, ListerGoesOn DEF AtWork

LEMMA BackoffPassesStep ==
    ASSUME Discovery!DiscoveryAssumption, DiscoveryInv, Discovery!BackoffPasses
    PROVE  DiscoveryInv'
<1>1. PICK r \in y_runs :
        r.status = "waiting" /\ y_runs' = Discovery!Change(r, [r EXCEPT !.status = "queued"])
  BY DEF Discovery!BackoffPasses
<1> DEFINE x == [r EXCEPT !.status = "queued"]
<1>2. UNCHANGED <<y_rev, y_created, y_worker, y_faults>>
  BY DEF Discovery!BackoffPasses
<1>3. r \in Discovery!RunOf /\ r.attempts < MaxAttempts
  BY <1>1 DEF DiscoveryInv, Discovery!TypeOK, WaitingHaveAttemptsLeft
<1>4. x \in Discovery!RunOf /\ x.id = r.id /\ x.status = "queued" /\ x.attempts = r.attempts
  BY <1>3 DEF Discovery!RunOf, Discovery!Active
<1>5. \A v \in Workers : y_worker[v].pc \in AtWork => y_worker[v].id # r.id
  BY <1>1, NobodyIsAtWork
<1>6. y_runs' = Discovery!Change(r, x) /\ y_worker' \in [Workers -> DiscoveryWorkers]
      /\ y_faults' \in 0 .. MaxFaults
  BY <1>1, <1>2, DiscoveryTypes
<1> HIDE DEF x
<1>7. \A v \in Workers : y_worker'[v].pc \in AtWork =>
              y_worker'[v] = y_worker[v] /\ y_worker[v].id # r.id
  BY <1>2, <1>5
<1> QED
  BY <1>2, <1>3, <1>4, <1>6, <1>7, RunReplaced

LEMMA DeleteOldStep ==
    ASSUME Discovery!DiscoveryAssumption, DiscoveryInv, NEW w \in Workers,
           Discovery!DeleteOld(w)
    PROVE  DiscoveryInv'
<1>1. /\ y_worker' = [y_worker EXCEPT ![w] = Discovery!IdleWorker]
      /\ UNCHANGED <<y_rev, y_created>>
      /\ \/ y_runs' = {r \in y_runs : Discovery!KeptByRetention(r)} /\ UNCHANGED y_faults
         \/ y_faults < MaxFaults /\ y_faults' = y_faults + 1 /\ UNCHANGED y_runs
  BY DEF Discovery!DeleteOld
<1>2. y_faults' \in 0 .. MaxFaults
  BY <1>1, DiscoveryTypes
<1>3. /\ y_runs' \subseteq y_runs
      /\ \A r \in y_runs : r.status = "running" => r \in y_runs'
  BY <1>1 DEF Discovery!KeptByRetention, Discovery!Active
<1>4. /\ y_worker' \in [Workers -> DiscoveryWorkers]
      /\ \A v \in Workers : y_worker'[v].pc \in AtWork => y_worker'[v] = y_worker[v]
  BY <1>1, DiscoveryTypes DEF AtWork
<1> QED
  BY <1>1, <1>2, <1>3, <1>4, RunsRemoved

LEMMA DiscoveryStep ==
    ASSUME Discovery!DiscoveryAssumption, DiscoveryInv, [Discovery!Next]_(Discovery!vars)
    PROVE  DiscoveryInv'
<1>1. ASSUME NEW w \in Workers, Discovery!WorkerLost(w) PROVE DiscoveryInv'
  <2>1. /\ y_worker' = [y_worker EXCEPT ![w] = Discovery!IdleWorker]
        /\ UNCHANGED <<y_rev, y_runs, y_created>> /\ y_faults' \in 0 .. MaxFaults
    BY <1>1, DiscoveryTypes DEF Discovery!WorkerLost
  <2>2. /\ y_worker' \in [Workers -> DiscoveryWorkers]
        /\ \A v \in Workers : y_worker'[v].pc \in AtWork => y_worker'[v] = y_worker[v]
    BY <2>1, DiscoveryTypes DEF AtWork
  <2> QED
    BY <2>1, <2>2, RunsRemoved
<1>2. CASE Discovery!Configure
  <2>1. /\ y_rev' \in 1 .. MaxRev
        /\ UNCHANGED <<y_runs, y_created, y_worker, y_faults>>
    BY <1>2, DiscoveryTypes DEF Discovery!Configure
  <2> QED
    BY <2>1 DEF DiscoveryInv, Discovery!TypeOK, Discovery!SucceededIsOfItsRevision,
                RunsAreDistinct, WaitingHaveAttemptsLeft, ListersOwnTheirRuns
<1>3. CASE UNCHANGED Discovery!vars
  BY <1>3 DEF Discovery!vars, DiscoveryInv, Discovery!TypeOK,
              Discovery!SucceededIsOfItsRevision, RunsAreDistinct, WaitingHaveAttemptsLeft,
              ListersOwnTheirRuns
<1>4. ASSUME NEW w \in Workers, Discovery!RunStep(w) PROVE DiscoveryInv'
  BY <1>4, ClaimDiscoveryStep, LoadDiscoverySnapshotStep, CommitItemsStep, ListingFailsStep,
     DeleteOldStep DEF Discovery!RunStep
<1> QED
  BY <1>1, <1>2, <1>3, <1>4, CreateDiscoveryStep, BackoffPassesStep DEF Discovery!Next

LEMMA DiscoveryInvHolds ==
    ASSUME Discovery!DiscoveryAssumption
    PROVE  Discovery!Spec => []DiscoveryInv
<1>1. Discovery!Init => DiscoveryInv
  <2> SUFFICES ASSUME Discovery!Init PROVE DiscoveryInv
    OBVIOUS
  <2> USE DEF Discovery!Init
  <2>1. /\ MaxRuns \in Nat \ {0} /\ MaxRev \in Nat \ {0} /\ MaxFaults \in Nat
    BY DEF Discovery!DiscoveryAssumption
  <2>2. /\ y_worker \in [Workers -> DiscoveryWorkers]
        /\ \A w \in Workers : y_worker[w].pc = "idle"
    BY <2>1 DEF Discovery!IdleWorker, DiscoveryWorkers
  <2>3. Discovery!TypeOK
    BY <2>1, <2>2 DEF Discovery!TypeOK, DiscoveryWorkers
  <2> QED
    BY <2>2, <2>3 DEF DiscoveryInv, Discovery!SucceededIsOfItsRevision, RunsAreDistinct,
                      WaitingHaveAttemptsLeft, ListersOwnTheirRuns, AtWork
<1>2. DiscoveryInv /\ [Discovery!Next]_(Discovery!vars) => DiscoveryInv'
  BY DiscoveryStep
<1> QED
  BY <1>1, <1>2, PTL DEF Discovery!Spec

\* Nothing changes a run that has succeeded, and the newest of them is kept.
LEMMA LatestIsKept ==
    ASSUME Discovery!DiscoveryAssumption, DiscoveryInv, [Discovery!Next]_(Discovery!vars),
           NEW r \in y_runs, r.status = "succeeded", r.id = Discovery!Latest
    PROVE  r \in y_runs'
<1>1. ASSUME NEW s \in y_runs, s.status # "succeeded", NEW x,
             y_runs' = Discovery!Change(s, x)
      PROVE  r \in y_runs'
  BY <1>1 DEF Discovery!Change
<1>2. ASSUME NEW w \in Workers, y_worker[w].pc \in AtWork
      PROVE  /\ Discovery!Run(y_worker[w].id) \in y_runs
             /\ Discovery!Run(y_worker[w].id).status # "succeeded"
  BY <1>2, RunIsFound
<1>3. ASSUME NEW w \in Workers, Discovery!RunStep(w) PROVE r \in y_runs'
  <2>1. CASE Discovery!Claim(w)
    BY <2>1, <1>1 DEF Discovery!Claim
  <2>2. CASE Discovery!LoadSnapshot(w)
    BY <2>2, <1>1, <1>2 DEF Discovery!LoadSnapshot, AtWork
  <2>3. CASE Discovery!CommitItems(w)
    BY <2>3, <1>1, <1>2 DEF Discovery!CommitItems, AtWork
  <2>4. CASE Discovery!ListingFails(w)
    BY <2>4, <1>1, <1>2 DEF Discovery!ListingFails, AtWork
  <2>5. CASE Discovery!DeleteOld(w)
    BY <2>5 DEF Discovery!DeleteOld, Discovery!KeptByRetention
  <2> QED
    BY <1>3, <2>1, <2>2, <2>3, <2>4, <2>5 DEF Discovery!RunStep
<1>4. CASE Discovery!BackoffPasses
  BY <1>4, <1>1 DEF Discovery!BackoffPasses
<1>5. CASE Discovery!CreateDiscovery
  BY <1>5 DEF Discovery!CreateDiscovery
<1>6. CASE Discovery!Configure \/ UNCHANGED Discovery!vars
      \/ \E w \in Workers : Discovery!WorkerLost(w)
  BY <1>6 DEF Discovery!Configure, Discovery!vars, Discovery!WorkerLost
<1> QED
  BY <1>3, <1>4, <1>5, <1>6 DEF Discovery!Next

\* The inventory of a succeeded run was listed with the revision the run froze,
\* whatever is reconfigured between snapshot, listing and commit (discovery.go,
\* FinishChannelModelDiscoveryRun).
THEOREM SucceededIsOfItsRevisionTheorem ==
    ASSUME Discovery!DiscoveryAssumption
    PROVE  Discovery!Spec => []Discovery!SucceededIsOfItsRevision
<1>1. DiscoveryInv => Discovery!SucceededIsOfItsRevision
  BY DEF DiscoveryInv
<1> QED
  BY <1>1, DiscoveryInvHolds, PTL

\* The run a worker works on is there, and running: no sweep removes it and no
\* other worker finishes it.
THEOREM WorkedOnIsRunningTheorem ==
    ASSUME Discovery!DiscoveryAssumption
    PROVE  Discovery!Spec => []Discovery!WorkedOnIsRunning
<1>1. DiscoveryInv => Discovery!WorkedOnIsRunning
  BY DEF DiscoveryInv, ListersOwnTheirRuns, AtWork, Discovery!WorkedOnIsRunning
<1> QED
  BY <1>1, DiscoveryInvHolds, PTL

\* The inventory that is shown never goes back to an older run and never
\* vanishes, whatever retention keeps and however late a sweep runs
\* (DeleteOldChannelModelDiscoveryRuns).
THEOREM LatestNeverGoesBackTheorem ==
    ASSUME Discovery!DiscoveryAssumption
    PROVE  Discovery!Spec => Discovery!LatestNeverGoesBack
<1>1. ASSUME NEW T \in SUBSET (0 .. MaxRuns), T # {}
      PROVE  LET i == CHOOSE i \in T : \A j \in T : j <= i
             IN  i \in T /\ \A j \in T : j <= i
  <2>1. MaxRuns \in Nat
    BY DEF Discovery!DiscoveryAssumption
  <2>2. \E i \in T : \A j \in T : j <= i
    BY <1>1, <2>1, GreatestNumber
  <2> QED
    BY <2>2
<1>2. DiscoveryInv /\ DiscoveryInv' /\ [Discovery!Next]_(Discovery!vars) =>
        [Discovery!Latest' >= Discovery!Latest]_(Discovery!vars)
  <2> SUFFICES ASSUME DiscoveryInv, DiscoveryInv', [Discovery!Next]_(Discovery!vars)
               PROVE  Discovery!Latest' >= Discovery!Latest
    OBVIOUS
  <2>1. Discovery!SucceededIds \in SUBSET (0 .. MaxRuns)
        /\ Discovery!SucceededIds' \in SUBSET (0 .. MaxRuns)
    BY DEF DiscoveryInv, Discovery!TypeOK, Discovery!SucceededIds, Discovery!RunOf
  <2>2. MaxRuns \in Nat
    BY DEF Discovery!DiscoveryAssumption
  <2>3. Discovery!Latest' \in Nat
    <3>1. CASE Discovery!SucceededIds' = {}
      BY <3>1 DEF Discovery!Latest
    <3>2. CASE Discovery!SucceededIds' # {}
      <4>1. Discovery!Latest' \in Discovery!SucceededIds'
        BY <3>2, <2>1, <1>1 DEF Discovery!Latest
      <4> QED
        BY <4>1, <2>1, <2>2
    <3> QED
      BY <3>1, <3>2
  <2>4. CASE Discovery!SucceededIds = {}
    BY <2>3, <2>4 DEF Discovery!Latest
  <2>5. CASE Discovery!SucceededIds # {}
    <3>1. Discovery!Latest \in Discovery!SucceededIds
      BY <2>1, <2>5, <1>1 DEF Discovery!Latest
    <3>2. PICK r \in y_runs : r.status = "succeeded" /\ r.id = Discovery!Latest
      BY <3>1 DEF Discovery!SucceededIds
    <3>3. Discovery!Latest \in Discovery!SucceededIds'
      BY <3>2, LatestIsKept DEF Discovery!SucceededIds
    <3>4. \A j \in Discovery!SucceededIds' : j <= Discovery!Latest'
      BY <3>3, <2>1, <1>1 DEF Discovery!Latest
    <3>5. Discovery!Latest \in Nat
      BY <3>1, <2>1, <2>2
    <3> QED
      BY <3>3, <3>4, <3>5, <2>3
  <2> QED
    BY <2>4, <2>5
<1> QED
  BY <1>2, DiscoveryInvHolds, PTL DEF Discovery!Spec, Discovery!LatestNeverGoesBack

-----------------------------------------------------------------------------
(***************************************************************************)
(* The observer of tokens.  What a batch holds, what the queue holds and   *)
(* what Redis holds are all told by running sums of what was observed:     *)
(* RunningSums(q, p) says that p is one, and the invariant says that there *)
(* is one with which queue, batch and buckets stay within the observed.    *)
(***************************************************************************)
CONSTANTS MaxMinute, Estimate, Actuals, QueueCapacity, CorrectionCapacity, MaxBatch,
          NoWeights, NoBatch, NoBucket, MaxChunks
VARIABLES o_minute, o_request, o_tracked, o_queue, o_corrections, o_pending, o_sequence,
          o_bucket, o_flushed, o_faults, o_observed, o_truth, o_inputs, o_lost, o_overtaken

Observer == INSTANCE TpmObserver WITH
    minute <- o_minute, request <- o_request, tracked <- o_tracked, queue <- o_queue,
    corrections <- o_corrections, pending <- o_pending, sequence <- o_sequence,
    bucket <- o_bucket, flushed <- o_flushed, faults <- o_faults,
    observed <- o_observed, truth <- o_truth, inputs <- o_inputs, lost <- o_lost,
    overtaken <- o_overtaken

Tokens == [input : Nat, output : Nat, provisional : Nat]
Observations == [req : Requests, minute : Observer!Minutes, delta : Tokens]
ObservedRequests ==
    [pc : {"new", "calling", "answering", "done"}, attempt : Nat, start : Nat, chunks : Nat]
WeightSet == [minute : Nat, input : Nat, out : [Observer!Minutes -> Nat]]

RunningSums(q, p) ==
    /\ p \in [0 .. Len(q) -> [Observer!Minutes -> Nat]]
    /\ \A i \in 1 .. Len(q) :
         p[i] = [p[i - 1] EXCEPT ![q[i].minute] = @ + q[i].delta.provisional]

-----------------------------------------------------------------------------
(* Sums.                                                                   *)

\* A function defined by its predecessor exists on any initial stretch.
LEMMA SumsExist ==
    ASSUME NEW obs \in Seq(Observations)
    PROVE  \E f : f = [i \in 0 .. Len(obs) |->
                        IF i = 0 THEN [m \in Observer!Minutes |-> Observer!Zero]
                        ELSE [f[i - 1] EXCEPT ![obs[i].minute] = Observer!Plus(@, obs[i].delta)]]
<1> DEFINE Z == [m \in Observer!Minutes |-> Observer!Zero]
           G(v, i) == [v EXCEPT ![obs[i].minute] = Observer!Plus(@, obs[i].delta)]
           Is(f, k) == f = [i \in 0 .. k |-> IF i = 0 THEN Z ELSE G(f[i - 1], i)]
           n == Len(obs)
<1>1. SUFFICES \E f : Is(f, n)
  OBVIOUS
<1> HIDE DEF Z, G
<1> DEFINE T == {k \in Nat : ~ \E f : Is(f, k)}
<1>2. SUFFICES ASSUME ~ \E f : Is(f, n) PROVE FALSE
  OBVIOUS
<1>3. n \in T
  <2>1. n \in Nat
    OBVIOUS
  <2> QED
    BY <1>2, <2>1
<1> HIDE DEF n
<1>4. PICK k \in T : \A j \in T : k <= j
  BY <1>3, LeastNumber
<1>5. CASE k = 0
  <2> DEFINE g == [i \in 0 .. 0 |-> Z]
  <2>1. g = [i \in 0 .. 0 |-> IF i = 0 THEN Z ELSE G(g[i - 1], i)]
    OBVIOUS
  <2> QED
    BY <1>4, <1>5, <2>1
<1>6. CASE k # 0
  <2>1. k - 1 \in Nat /\ k - 1 \notin T
    <3>1. k \in Nat /\ k - 1 \in Nat /\ ~(k <= k - 1)
      BY <1>4, <1>6
    <3> HIDE DEF T
    <3> QED
      BY <1>4, <3>1
  <2>2. PICK f : Is(f, k - 1)
    BY <2>1
  <2> DEFINE g == [i \in 0 .. k |-> IF i = k THEN G(f[k - 1], k) ELSE f[i]]
  <2>3. \A i \in 0 .. k : g[i] = IF i = 0 THEN Z ELSE G(g[i - 1], i)
    <3> TAKE i \in 0 .. k
    <3>1. CASE i = k
      BY <3>1, <1>6, <2>1
    <3>2. CASE i # k
      <4>1. i \in 0 .. (k - 1)
        BY <3>2, <2>1
      <4>2. g[i] = f[i]
        BY <3>2
      <4>3. f[i] = IF i = 0 THEN Z ELSE G(f[i - 1], i)
        BY <2>2, <4>1
      <4>4. i # 0 => g[i - 1] = f[i - 1]
        BY <4>1
      <4> QED
        BY <4>2, <4>3, <4>4
    <3> QED
      BY <3>1, <3>2
  <2>4. g = [i \in 0 .. k |-> g[i]]
    OBVIOUS
  <2> HIDE DEF g
  <2>5. Is(g, k)
    BY <2>3, <2>4
  <2> QED
    BY <1>4, <2>5
<1> QED
  BY <1>5, <1>6

\* What a batch holds of a minute is what the sums grew by over its observations.
LEMMA BatchHoldsTheGrowth ==
    ASSUME NEW q \in Seq(Observations), NEW p, RunningSums(q, p), NEW n \in 0 .. Len(q),
           NEW e, e = Observer!Aggregate(SubSeq(q, 1, n))
    PROVE  /\ DOMAIN e \subseteq Observer!Minutes
           /\ \A m \in DOMAIN e : e[m] \in Tokens /\ e[m].provisional = p[n][m] - p[0][m]
           /\ \A m \in Observer!Minutes \ DOMAIN e : p[n][m] = p[0][m]
<1>0. PICK obs : obs = SubSeq(q, 1, n) /\ e = Observer!Aggregate(obs)
  OBVIOUS
<1>1. n \in Nat /\ Len(obs) = n /\ DOMAIN obs = 1 .. n /\ \A i \in 1 .. n : obs[i] = q[i] /\ obs[i] \in Observations
  BY <1>0
<1> DEFINE Z == [m \in Observer!Minutes |-> Observer!Zero]
           G(v, i) == [v EXCEPT ![obs[i].minute] = Observer!Plus(@, obs[i].delta)]
           IsSum(g) == g = [i \in 0 .. Len(obs) |-> IF i = 0 THEN Z ELSE G(g[i - 1], i)]
           f == CHOOSE g : IsSum(g)
<1>2. IsSum(f)
  <2>1. obs \in Seq(Observations)
    BY <1>0
  <2>2. PICK g : g = [i \in 0 .. Len(obs) |->
                        IF i = 0 THEN [m \in Observer!Minutes |-> Observer!Zero]
                        ELSE [g[i - 1] EXCEPT ![obs[i].minute] = Observer!Plus(@, obs[i].delta)]]
    BY <2>1, SumsExist, Zenon
  <2>3. IsSum(g)
    BY <2>2
  <2> HIDE DEF IsSum
  <2> QED
    BY <2>3
<1>3. e = [m \in {obs[i].minute : i \in DOMAIN obs} |-> f[n][m]]
  <2>1. e = [m \in {obs[i].minute : i \in DOMAIN obs} |-> f[Len(obs)][m]]
    BY <1>0, Zenon DEF Observer!Aggregate
  <2> HIDE DEF f
  <2> QED
    BY <2>1, <1>1
<1> HIDE DEF f, Z, G
<1>4. f[0] = Z /\ \A i \in 1 .. n : f[i] = G(f[i - 1], i)
  BY <1>1, <1>2
<1>5. Z \in [Observer!Minutes -> Tokens] /\ \A m \in Observer!Minutes : Z[m].provisional = 0
  BY DEF Observer!Zero, Tokens, Z
<1> HIDE DEF IsSum
<1>6. p \in [0 .. Len(q) -> [Observer!Minutes -> Nat]]
      /\ \A i \in 1 .. n : p[i] = [p[i - 1] EXCEPT ![q[i].minute] = @ + q[i].delta.provisional]
  BY DEF RunningSums
<1> DEFINE Fits(i) ==
             /\ f[i] \in [Observer!Minutes -> Tokens]
             /\ \A m \in Observer!Minutes :
                  /\ f[i][m].provisional = p[i][m] - p[0][m]
                  /\ (\A j \in 1 .. i : obs[j].minute # m) => p[i][m] = p[0][m]
           Bad == {i \in 0 .. n : ~ Fits(i)}
<1>7. Bad = {}
  <2>1. SUFFICES ASSUME Bad # {} PROVE FALSE
    OBVIOUS
  <2>2. PICK k \in Bad : \A j \in Bad : k <= j
    BY <2>1, LeastNumber, Bad \in SUBSET Nat
  <2>3. k # 0
    <3>1. Fits(0)
      BY <1>4, <1>5, <1>6
    <3> QED
      BY <3>1, <2>2
  <2> DEFINE l == k - 1
             m0 == obs[k].minute
             d == obs[k].delta
  <2>4. k \in 1 .. n /\ l \in 0 .. n /\ l \in 0 .. Len(q) /\ k \in 0 .. Len(q)
    BY <2>2, <2>3
  <2>5. Fits(l)
    <3>1. l \notin Bad
      BY <2>2, <2>4
    <3> HIDE DEF Fits, l
    <3> QED
      BY <3>1, <2>4
  <2>6. m0 \in Observer!Minutes /\ d \in Tokens /\ d.provisional \in Nat
    BY <1>1, <2>4 DEF Observations, Tokens
  <2>7. f[k] = [f[l] EXCEPT ![m0] = Observer!Plus(@, d)]
    BY <1>4, <2>4 DEF G
  <2>8. p[k] = [p[l] EXCEPT ![m0] = @ + d.provisional]
    BY <1>1, <1>6, <2>4
  <2> HIDE DEF Fits, l, m0, d
  <2>9. f[l] \in [Observer!Minutes -> Tokens] /\ p[l] \in [Observer!Minutes -> Nat] /\ p[0] \in [Observer!Minutes -> Nat]
    BY <2>4, <2>5, <1>6 DEF Fits
  <2>10. \A a, b \in Tokens : Observer!Plus(a, b) \in Tokens
                               /\ Observer!Plus(a, b).provisional = a.provisional + b.provisional
    BY DEF Observer!Plus, Tokens
  <2>11. f[k] \in [Observer!Minutes -> Tokens]
    BY <2>6, <2>7, <2>9, <2>10
  <2>12. ASSUME NEW m \in Observer!Minutes
         PROVE  /\ f[k][m].provisional = p[k][m] - p[0][m]
                /\ (\A j \in 1 .. k : obs[j].minute # m) => p[k][m] = p[0][m]
    <3>1. f[l][m].provisional = p[l][m] - p[0][m]
          /\ ((\A j \in 1 .. l : obs[j].minute # m) => p[l][m] = p[0][m])
      BY <2>5 DEF Fits
    <3>2. p[l][m] \in Nat /\ p[0][m] \in Nat /\ f[l][m] \in Tokens
      BY <2>9
    <3>3. CASE m = m0
      <4>1. f[k][m] = Observer!Plus(f[l][m], d) /\ p[k][m] = p[l][m] + d.provisional
        BY <3>3, <2>6, <2>7, <2>8, <2>9
      <4>2. f[k][m].provisional = f[l][m].provisional + d.provisional /\ d.provisional \in Nat
        BY <4>1, <3>2, <2>6, <2>10 DEF Tokens
      <4>3. ~ \A j \in 1 .. k : obs[j].minute # m
        BY <3>3, <2>4 DEF m0
      <4> QED
        BY <4>1, <4>2, <4>3, <3>1, <3>2
    <3>4. CASE m # m0
      <4>1. f[k][m] = f[l][m] /\ p[k][m] = p[l][m]
        BY <3>4, <2>6, <2>7, <2>8, <2>9
      <4>2. (\A j \in 1 .. k : obs[j].minute # m) => \A j \in 1 .. l : obs[j].minute # m
        BY <2>4 DEF l
      <4> QED
        BY <4>1, <4>2, <3>1
    <3> QED
      BY <3>3, <3>4
  <2>13. Fits(k)
    BY <2>11, <2>12 DEF Fits
  <2> QED
    BY <2>2, <2>13
<1>8. Fits(n)
  <3> HIDE DEF Fits
  <3> QED
    BY <1>1, <1>7
<1>9. DOMAIN e = {obs[i].minute : i \in 1 .. n} /\ \A m \in DOMAIN e : e[m] = f[n][m]
  BY <1>1, <1>3
<1>10. DOMAIN e \subseteq Observer!Minutes
  BY <1>1, <1>9 DEF Observations
<1> QED
  BY <1>8, <1>9, <1>10

\* Sums only grow.
LEMMA SumsGrow ==
    ASSUME NEW q \in Seq(Observations), NEW p, RunningSums(q, p), NEW m \in Observer!Minutes
    PROVE  \A i \in 0 .. Len(q), j \in 0 .. Len(q) : i <= j => p[i][m] \in Nat /\ p[i][m] <= p[j][m]
<1>1. p \in [0 .. Len(q) -> [Observer!Minutes -> Nat]] /\ Len(q) \in Nat
  BY DEF RunningSums
<1>2. \A i \in 0 .. Len(q) : p[i][m] \in Nat
  BY <1>1
<1>3. \A i \in 1 .. Len(q) : p[i - 1][m] <= p[i][m]
  <2> TAKE i \in 1 .. Len(q)
  <2>1. p[i] = [p[i - 1] EXCEPT ![q[i].minute] = @ + q[i].delta.provisional]
    BY DEF RunningSums
  <2>2. q[i].minute \in Observer!Minutes /\ q[i].delta.provisional \in Nat
    <3>1. q[i] \in Observations
      OBVIOUS
    <3> QED
      BY <3>1 DEF Observations, Tokens
  <2>3. p[i - 1] \in [Observer!Minutes -> Nat]
    <3>1. i - 1 \in 0 .. Len(q)
      BY <1>1
    <3> QED
      BY <3>1, <1>1
  <2> QED
    BY <2>1, <2>2, <2>3
<1>4. SUFFICES ASSUME NEW i \in 0 .. Len(q) PROVE \A j \in 0 .. Len(q) : i <= j => p[i][m] <= p[j][m]
  BY <1>2
<1> DEFINE Bad == {j \in 0 .. Len(q) : i <= j /\ p[j][m] < p[i][m]}
<1>5. Bad = {}
  <2>1. SUFFICES ASSUME Bad # {} PROVE FALSE
    OBVIOUS
  <2>2. PICK k \in Bad : \A j \in Bad : k <= j
    BY <2>1, <1>1, LeastNumber, Bad \in SUBSET Nat
  <2>3. k # i
    BY <2>2, <1>2
  <2>4. k \in 1 .. Len(q) /\ k - 1 \in 0 .. Len(q) /\ i <= k - 1
    BY <2>2, <2>3, <1>1
  <2>5. k - 1 \notin Bad
    BY <2>2, <2>4
  <2>6. p[i][m] <= p[k - 1][m]
    BY <2>4, <2>5, <1>2
  <2> QED
    BY <2>2, <2>4, <2>6, <1>2, <1>3
<1> QED
  BY <1>5, <1>2

\* An observation put into the queue continues the sums.
LEMMA SumsContinue ==
    ASSUME NEW q \in Seq(Observations), NEW p, RunningSums(q, p), NEW o \in Observations,
           NEW r, r = [i \in 0 .. Len(q) + 1 |->
                        IF i \in 0 .. Len(q) THEN p[i]
                        ELSE [p[Len(q)] EXCEPT ![o.minute] = @ + o.delta.provisional]]
    PROVE  RunningSums(Append(q, o), r)
<1> DEFINE n == Len(q)
           q2 == Append(q, o)
<1>1. n \in Nat /\ Len(q2) = n + 1 /\ q2[n + 1] = o /\ \A i \in 1 .. n : q2[i] = q[i]
  OBVIOUS
<1>2. p \in [0 .. n -> [Observer!Minutes -> Nat]]
      /\ \A i \in 1 .. n : p[i] = [p[i - 1] EXCEPT ![q[i].minute] = @ + q[i].delta.provisional]
  BY DEF RunningSums
<1>3. p[n] \in [Observer!Minutes -> Nat] /\ o.minute \in Observer!Minutes /\ o.delta.provisional \in Nat
  BY <1>1, <1>2 DEF Observations, Tokens
<1> HIDE DEF q2
<1>4. [p[n] EXCEPT ![o.minute] = @ + o.delta.provisional] \in [Observer!Minutes -> Nat]
  <2>1. \A v \in [Observer!Minutes -> Nat], m \in Observer!Minutes, k \in Nat :
          [v EXCEPT ![m] = v[m] + k] \in [Observer!Minutes -> Nat]
    OBVIOUS
  <2> HIDE DEF n
  <2> QED
    BY <1>3, <2>1
<1>5. r \in [0 .. Len(q2) -> [Observer!Minutes -> Nat]]
  BY <1>1, <1>2, <1>4
<1>6. \A i \in 1 .. Len(q2) : r[i] = [r[i - 1] EXCEPT ![q2[i].minute] = @ + q2[i].delta.provisional]
  <2> TAKE i \in 1 .. Len(q2)
  <2>1. CASE i = n + 1
    <3>1. r[i] = [p[n] EXCEPT ![o.minute] = @ + o.delta.provisional] /\ r[i - 1] = p[n] /\ q2[i] = o
      BY <2>1, <1>1
    <3> QED
      BY <3>1
  <2>2. CASE i # n + 1
    <3>1. i \in 1 .. n /\ r[i] = p[i] /\ r[i - 1] = p[i - 1] /\ q2[i] = q[i]
      BY <2>2, <1>1
    <3> QED
      BY <3>1, <1>2
  <2> QED
    BY <2>1, <2>2
<1> QED
  BY <1>5, <1>6 DEF RunningSums, q2

\* What is left in the queue continues the sums of what was taken.
LEMMA SumsOfTheRest ==
    ASSUME NEW q \in Seq(Observations), NEW p, RunningSums(q, p), NEW n \in 0 .. Len(q),
           NEW r, r = [i \in 0 .. Len(q) - n |-> p[n + i]]
    PROVE  RunningSums(SubSeq(q, n + 1, Len(q)), r)
<1> DEFINE rest == SubSeq(q, n + 1, Len(q))
<1>1. Len(rest) = Len(q) - n /\ Len(rest) \in Nat /\ \A i \in 1 .. Len(rest) : rest[i] = q[n + i]
  OBVIOUS
<1>2. p \in [0 .. Len(q) -> [Observer!Minutes -> Nat]]
      /\ \A i \in 1 .. Len(q) : p[i] = [p[i - 1] EXCEPT ![q[i].minute] = @ + q[i].delta.provisional]
  BY DEF RunningSums
<1> HIDE DEF rest
<1>3. r \in [0 .. Len(rest) -> [Observer!Minutes -> Nat]]
  BY <1>1, <1>2
<1>4. \A i \in 1 .. Len(rest) : r[i] = [r[i - 1] EXCEPT ![rest[i].minute] = @ + rest[i].delta.provisional]
  <2> TAKE i \in 1 .. Len(rest)
  <2>1. n + i \in 1 .. Len(q) /\ (n + i) - 1 = n + (i - 1) /\ i - 1 \in 0 .. Len(rest)
    BY <1>1
  <2>2. r[i] = p[n + i] /\ r[i - 1] = p[(n + i) - 1] /\ rest[i] = q[n + i]
    BY <2>1, <1>1
  <2>3. p[n + i] = [p[(n + i) - 1] EXCEPT ![q[n + i].minute] = @ + q[n + i].delta.provisional]
    BY <2>1, <1>2
  <2> QED
    BY <2>2, <2>3
<1> QED
  BY <1>3, <1>4 DEF RunningSums, rest

-----------------------------------------------------------------------------
(* The invariant.                                                          *)

\* What a scope has observed is told by its weights as long as it is answered.
ScopesAreTracked ==
    /\ o_minute \in Observer!Minutes
    /\ o_request \in [Requests -> ObservedRequests]
    /\ o_tracked = [r \in Requests |-> o_tracked[r]]
    /\ \A r \in Requests :
         /\ o_request[r].pc \in {"calling", "answering"} => o_request[r].start \in Observer!Minutes
         /\ o_request[r].pc = "answering" => o_tracked[r] \in WeightSet
         /\ o_tracked[r] # NoWeights => o_tracked[r] \in WeightSet

IsBatch(b, last) ==
    /\ b = [op |-> b.op, entries |-> b.entries, attempts |-> b.attempts, reqs |-> b.reqs]
    /\ b.op \in 1 .. last
    /\ DOMAIN b.entries \subseteq Observer!Minutes
    /\ \A m \in DOMAIN b.entries : b.entries[m] \in Tokens

\* The ids in use are those given so far.
BatchesAreNumbered ==
    /\ o_sequence \in Nat /\ o_flushed \subseteq 1 .. o_sequence
    /\ o_pending # NoBatch => IsBatch(o_pending, o_sequence)

IsBucket(b) == "provisional" \in DOMAIN b /\ b.provisional \in Nat

BucketsAreCounts ==
    /\ DOMAIN o_bucket = Observer!Minutes
    /\ \A m \in Observer!Minutes : o_bucket[m] # NoBucket => IsBucket(o_bucket[m])

\* A correction takes estimates back, never adds to them.
Lowers(c) == \A m \in DOMAIN c.entries : c.entries[m].provisional \in Int /\ c.entries[m].provisional <= 0

CorrectionsLower == \E S : o_corrections \in Seq(S) /\ \A c \in S : Lowers(c)

\* What a batch will still add to a minute.
Due(b, m) == IF b.op \notin o_flushed /\ m \in DOMAIN b.entries THEN b.entries[m].provisional ELSE 0
InFlight(m) == IF o_pending = NoBatch THEN 0 ELSE Due(o_pending, m)

Growth(q, p, m) == p[Len(q)][m] - p[0][m]

\* What is in Redis, in flight and in the queue was observed.
AllWasObserved ==
    /\ o_queue \in Seq(Observations) /\ o_observed \in [Observer!Minutes -> Nat]
    /\ \E p : /\ RunningSums(o_queue, p)
              /\ \A m \in Observer!Minutes :
                   Observer!Held(m).provisional + InFlight(m) + Growth(o_queue, p, m) <= o_observed[m]

ObserverInv ==
    ScopesAreTracked /\ BatchesAreNumbered /\ BucketsAreCounts /\ CorrectionsLower /\ AllWasObserved

-----------------------------------------------------------------------------
(* What the actions of the observer are built from.                        *)

LEMMA HeldIsCount ==
    ASSUME BucketsAreCounts, NEW m \in Observer!Minutes
    PROVE  Observer!Held(m).provisional \in Nat
  BY DEF BucketsAreCounts, IsBucket, Observer!Held, Observer!Zero

LEMMA DueIsCount ==
    ASSUME NEW b, NEW l, IsBatch(b, l), NEW m
    PROVE  Due(b, m) \in Nat
  BY DEF IsBatch, Due, Tokens

LEMMA InFlightIsCount ==
    ASSUME BatchesAreNumbered, NEW m
    PROVE  InFlight(m) \in Nat
  BY DueIsCount DEF BatchesAreNumbered, InFlight

LEMMA GrowthIsCount ==
    ASSUME NEW q \in Seq(Observations), NEW p, RunningSums(q, p), NEW m \in Observer!Minutes
    PROVE  Growth(q, p, m) \in Nat
<1>1. 0 \in 0 .. Len(q) /\ Len(q) \in 0 .. Len(q)
  OBVIOUS
<1>2. p[0][m] \in Nat /\ p[Len(q)][m] \in Nat /\ p[0][m] <= p[Len(q)][m]
  BY <1>1, SumsGrow
<1> QED
  BY <1>2 DEF Growth

\* A batch takes some of the queue.
LEMMA TakenIsOfTheQueue ==
    ASSUME o_queue \in Seq(Observations)
    PROVE  Observer!Taken \in 0 .. Len(o_queue)
<1> DEFINE minutes(n) == {o_queue[i].minute : i \in 1 .. n}
           full == {n \in 1 .. Len(o_queue) : Observer!Cardinality(minutes(n)) = MaxBatch}
<1>1. Observer!Taken = IF full = {} THEN Len(o_queue) ELSE CHOOSE n \in full : \A k \in full : n <= k
  BY DEF Observer!Taken
<1>2. full \in SUBSET Nat /\ full \subseteq 0 .. Len(o_queue) /\ Len(o_queue) \in 0 .. Len(o_queue)
  OBVIOUS
<1> HIDE DEF full
<1>3. full # {} => \E n \in full : \A k \in full : n <= k
  BY <1>2, LeastNumber
<1> QED
  BY <1>1, <1>2, <1>3

LEMMA EnqueueKeeps ==
    ASSUME AllWasObserved, BucketsAreCounts, BatchesAreNumbered,
           NEW r \in Requests, NEW m \in Observer!Minutes, NEW delta \in Tokens,
           Observer!Enqueue(r, m, delta), UNCHANGED <<o_pending, o_flushed, o_bucket>>
    PROVE  AllWasObserved'
<1>1. /\ o_queue \in Seq(Observations) /\ o_observed \in [Observer!Minutes -> Nat]
  BY DEF AllWasObserved
<1>2. PICK p : /\ RunningSums(o_queue, p)
               /\ \A k \in Observer!Minutes :
                   Observer!Held(k).provisional + InFlight(k) + Growth(o_queue, p, k) <= o_observed[k]
  BY DEF AllWasObserved
<1>3. \A k \in Observer!Minutes : Observer!Held(k)' = Observer!Held(k) /\ InFlight(k)' = InFlight(k)
  BY DEF Observer!Held, InFlight, Due
<1>4. CASE UNCHANGED <<o_queue, o_observed>>
  BY <1>1, <1>2, <1>3, <1>4 DEF AllWasObserved
<1>5. CASE /\ o_queue' = Append(o_queue, [req |-> r, minute |-> m, delta |-> delta])
           /\ o_observed' = [o_observed EXCEPT ![m] = @ + delta.provisional]
  <2> DEFINE o == [req |-> r, minute |-> m, delta |-> delta]
             s == [i \in 0 .. Len(o_queue) + 1 |->
                        IF i \in 0 .. Len(o_queue) THEN p[i]
                        ELSE [p[Len(o_queue)] EXCEPT ![o.minute] = @ + o.delta.provisional]]
  <2>1. o \in Observations /\ o.minute = m /\ o.delta = delta /\ delta.provisional \in Nat
    BY DEF Observations, Tokens
  <2> HIDE DEF o
  <2>2. RunningSums(o_queue', s)
    BY <1>1, <1>2, <1>5, <2>1, SumsContinue DEF o
  <2>3. o_queue' \in Seq(Observations) /\ Len(o_queue') = Len(o_queue) + 1 /\ Len(o_queue) \in Nat
    BY <1>1, <1>5, <2>1 DEF o
  <2>4. o_observed' \in [Observer!Minutes -> Nat]
    BY <1>1, <1>5, <2>1
  <2>5. ASSUME NEW k \in Observer!Minutes
        PROVE  Observer!Held(k)'.provisional + InFlight(k)' + Growth(o_queue', s, k) <= o_observed'[k]
    <3>1. p[0] \in [Observer!Minutes -> Nat] /\ p[Len(o_queue)] \in [Observer!Minutes -> Nat]
      BY <1>2, <2>3 DEF RunningSums
    <3>2. s[0] = p[0] /\ s[Len(o_queue')] = [p[Len(o_queue)] EXCEPT ![m] = @ + delta.provisional]
      BY <2>1, <2>3
    <3> HIDE DEF s
    <3>3. CASE k = m
      <4>1. Growth(o_queue', s, k) = Growth(o_queue, p, k) + delta.provisional
        BY <3>1, <3>2, <3>3, <2>1 DEF Growth
      <4>2. o_observed'[k] = o_observed[k] + delta.provisional
        BY <1>1, <1>5, <3>3
      <4>3. Observer!Held(k).provisional \in Nat /\ InFlight(k) \in Nat
            /\ Growth(o_queue, p, k) \in Nat /\ o_observed[k] \in Nat
        BY <1>1, <1>2, HeldIsCount, InFlightIsCount, GrowthIsCount
      <4>4. Observer!Held(k).provisional + InFlight(k) + Growth(o_queue, p, k) <= o_observed[k]
        BY <1>2
      <4> QED
        BY <4>1, <4>2, <4>3, <4>4, <1>3, <2>1
    <3>4. CASE k # m
      <4>1. Growth(o_queue', s, k) = Growth(o_queue, p, k)
        BY <3>1, <3>2, <3>4 DEF Growth
      <4>2. o_observed'[k] = o_observed[k]
        BY <1>1, <1>5, <3>4
      <4> QED
        BY <4>1, <4>2, <1>2, <1>3
    <3> QED
      BY <3>3, <3>4
  <2> HIDE DEF s
  <2> QED
    BY <2>2, <2>3, <2>4, <2>5 DEF AllWasObserved
<1> QED
  BY <1>4, <1>5 DEF Observer!Enqueue


\* A new batch holds what the sums grew by, and the rest goes on from there.
LEMMA NewBatchHolds ==
    ASSUME AllWasObserved, BatchesAreNumbered, BucketsAreCounts, o_pending = NoBatch,
           NEW b, b = Observer!NewBatch(Observer!Taken),
           o_queue' = SubSeq(o_queue, Observer!Taken + 1, Len(o_queue)),
           o_sequence' = o_sequence + 1
    PROVE  /\ IsBatch(b, o_sequence') /\ o_queue' \in Seq(Observations)
           /\ \E p : /\ RunningSums(o_queue', p)
                     /\ \A m \in Observer!Minutes :
                          Observer!Held(m).provisional + Due(b, m) + Growth(o_queue', p, m) <= o_observed[m]
<1> DEFINE n == Observer!Taken
           e == Observer!Aggregate(SubSeq(o_queue, 1, n))
<1>1. o_queue \in Seq(Observations) /\ o_observed \in [Observer!Minutes -> Nat]
  BY DEF AllWasObserved
<1>2. n \in 0 .. Len(o_queue)
  BY <1>1, TakenIsOfTheQueue
<1>3. PICK p : /\ RunningSums(o_queue, p)
               /\ \A m \in Observer!Minutes :
                    Observer!Held(m).provisional + InFlight(m) + Growth(o_queue, p, m) <= o_observed[m]
  BY DEF AllWasObserved
<1>4. b = [op |-> o_sequence + 1, entries |-> e, attempts |-> 0,
           reqs |-> {o_queue[i].req : i \in 1 .. n}]
  BY DEF Observer!NewBatch
<1> HIDE DEF n, e
<1>5. /\ DOMAIN e \subseteq Observer!Minutes
      /\ \A m \in DOMAIN e : e[m] \in Tokens /\ e[m].provisional = p[n][m] - p[0][m]
      /\ \A m \in Observer!Minutes \ DOMAIN e : p[n][m] = p[0][m]
  <2>1. e = Observer!Aggregate(SubSeq(o_queue, 1, n)) /\ RunningSums(o_queue, p)
    BY <1>3 DEF e
  <2> QED
    BY <2>1, <1>1, <1>2, BatchHoldsTheGrowth
<1>6. IsBatch(b, o_sequence') /\ b.op = o_sequence + 1 /\ b.entries = e /\ b.op \notin o_flushed
  <2>1. o_sequence \in Nat /\ o_flushed \subseteq 1 .. o_sequence
    BY DEF BatchesAreNumbered
  <2>2. b.op = o_sequence + 1 /\ b.entries = e /\ b.attempts = 0 /\ b.reqs = {o_queue[i].req : i \in 1 .. n}
    BY <1>4
  <2>3. b = [op |-> b.op, entries |-> b.entries, attempts |-> b.attempts, reqs |-> b.reqs]
    BY <1>4, <2>2
  <2> QED
    BY <1>5, <2>1, <2>2, <2>3 DEF IsBatch
<1> DEFINE r == [i \in 0 .. Len(o_queue) - n |-> p[n + i]]
<1>7. o_queue' = SubSeq(o_queue, n + 1, Len(o_queue))
  BY DEF n
<1>8. RunningSums(o_queue', r) /\ o_queue' \in Seq(Observations) /\ Len(o_queue') = Len(o_queue) - n
  <2>1. RunningSums(o_queue', r)
    BY <1>1, <1>2, <1>3, <1>7, SumsOfTheRest
  <2>2. Len(o_queue) \in Nat /\ n \in Nat /\ n <= Len(o_queue)
    BY <1>1, <1>2
  <2>3. SubSeq(o_queue, n + 1, Len(o_queue)) \in Seq(Observations)
        /\ Len(SubSeq(o_queue, n + 1, Len(o_queue))) = Len(o_queue) - n
    BY <1>1, <2>2
  <2> QED
    BY <2>1, <2>3, <1>7
<1>9. ASSUME NEW m \in Observer!Minutes
      PROVE  Observer!Held(m).provisional + Due(b, m) + Growth(o_queue', r, m) <= o_observed[m]
  <2>1. r[0] = p[n] /\ r[Len(o_queue')] = p[Len(o_queue)]
    <3>1. Len(o_queue) \in Nat /\ n \in Nat /\ n <= Len(o_queue)
      BY <1>1, <1>2
    <3>2. 0 \in 0 .. Len(o_queue) - n /\ Len(o_queue') \in 0 .. Len(o_queue) - n
          /\ n + Len(o_queue') = Len(o_queue) /\ n + 0 = n
      BY <3>1, <1>8
    <3> QED
      BY <3>2
  <2>2. 0 \in 0 .. Len(o_queue) /\ Len(o_queue) \in 0 .. Len(o_queue)
    BY <1>1
  <2>3. p[0][m] \in Nat /\ p[n][m] \in Nat /\ p[Len(o_queue)][m] \in Nat
    BY <2>2, <1>1, <1>2, <1>3, SumsGrow
  <2>4. Due(b, m) = p[n][m] - p[0][m]
    <3>1. CASE m \in DOMAIN e
      BY <3>1, <1>5, <1>6 DEF Due
    <3>2. CASE m \notin DOMAIN e
      BY <3>2, <1>5, <1>6, <2>3 DEF Due
    <3> QED
      BY <3>1, <3>2
  <2>5. InFlight(m) = 0
    BY DEF InFlight
  <2>6. Observer!Held(m).provisional \in Nat /\ o_observed[m] \in Nat
    BY <1>1, HeldIsCount
  <2>7. Observer!Held(m).provisional + InFlight(m) + (p[Len(o_queue)][m] - p[0][m]) <= o_observed[m]
    BY <1>3 DEF Growth
  <2> HIDE DEF r
  <2>8. Growth(o_queue', r, m) = p[Len(o_queue)][m] - p[n][m]
    BY <2>1 DEF Growth
  <2> QED
    BY <2>3, <2>4, <2>5, <2>6, <2>7, <2>8
<1> HIDE DEF r
<1> QED
  BY <1>6, <1>8, <1>9

\* record_tpm_observation.lua adds what is due, once.
LEMMA RecordedAddsTheDue ==
    ASSUME BucketsAreCounts, NEW last, NEW b, IsBatch(b, last), o_flushed \subseteq 1 .. last,
           Observer!Recorded(b)
    PROVE  /\ BucketsAreCounts' /\ b.op \in o_flushed' /\ o_flushed' \subseteq 1 .. last
           /\ \A m \in Observer!Minutes :
                Observer!Held(m)'.provisional <= Observer!Held(m).provisional + Due(b, m)
<1>1. b.op \in 1 .. last
  BY DEF IsBatch
<1>2. CASE b.op \in o_flushed
  <2>1. UNCHANGED <<o_bucket, o_flushed>>
    BY <1>2 DEF Observer!Recorded, Observer!redis
  <2>2. BucketsAreCounts'
    BY <2>1 DEF BucketsAreCounts
  <2>3. ASSUME NEW m \in Observer!Minutes
        PROVE  Observer!Held(m)'.provisional <= Observer!Held(m).provisional + Due(b, m)
    <3>1. Due(b, m) = 0 /\ Observer!Held(m)' = Observer!Held(m)
      BY <1>2, <2>1 DEF Due, Observer!Held
    <3> QED
      BY <3>1, HeldIsCount
  <2> QED
    BY <1>2, <2>1, <2>2, <2>3
<1>3. CASE b.op \notin o_flushed
  <2>1. /\ o_flushed' = o_flushed \cup {b.op}
        /\ o_bucket' = [m \in Observer!Minutes |->
                IF m \notin DOMAIN b.entries THEN o_bucket[m]
                ELSE Observer!Plus(IF o_bucket[m] = NoBucket THEN Observer!Zero ELSE o_bucket[m],
                                   b.entries[m])]
    BY <1>3 DEF Observer!Recorded
  <2>2. ASSUME NEW m \in Observer!Minutes
        PROVE  /\ o_bucket'[m] # NoBucket => IsBucket(o_bucket'[m])
               /\ Observer!Held(m)'.provisional <= Observer!Held(m).provisional + Due(b, m)
    <3>1. Observer!Held(m).provisional \in Nat /\ Due(b, m) \in Nat
      BY HeldIsCount, DueIsCount
    <3>2. CASE m \notin DOMAIN b.entries
      <4>1. o_bucket'[m] = o_bucket[m] /\ Due(b, m) = 0
        BY <2>1, <3>2 DEF Due
      <4> QED
        BY <4>1, <3>1 DEF Observer!Held, BucketsAreCounts
    <3>3. CASE m \in DOMAIN b.entries
      <4> DEFINE h == Observer!Held(m)
      <4>1. o_bucket'[m] = Observer!Plus(h, b.entries[m]) /\ Due(b, m) = b.entries[m].provisional
        BY <1>3, <2>1, <3>3 DEF Due, Observer!Held
      <4>2. "provisional" \in DOMAIN h
        BY DEF Observer!Held, Observer!Zero, BucketsAreCounts, IsBucket
      <4> HIDE DEF h
      <4>3. /\ "provisional" \in DOMAIN Observer!Plus(h, b.entries[m])
            /\ Observer!Plus(h, b.entries[m]).provisional = h.provisional + b.entries[m].provisional
        BY <4>2 DEF Observer!Plus
      <4>4. o_bucket'[m].provisional = h.provisional + Due(b, m) /\ h.provisional \in Nat
        BY <4>1, <4>3, <3>1 DEF h
      <4>5. IsBucket(o_bucket'[m])
        BY <4>1, <4>3, <4>4, <3>1 DEF IsBucket
      <4>6. Observer!Held(m)' = IF o_bucket'[m] = NoBucket THEN Observer!Zero ELSE o_bucket'[m]
        BY DEF Observer!Held
      <4>7. Observer!Zero.provisional = 0
        BY DEF Observer!Zero
      <4>8. h.provisional + Due(b, m) \in Nat
        BY <4>4, <3>1
      <4> QED
        BY <4>4, <4>5, <4>6, <4>7, <4>8 DEF h
    <3> QED
      BY <3>2, <3>3
  <2>3. BucketsAreCounts'
    BY <2>1, <2>2 DEF BucketsAreCounts
  <2> QED
    BY <1>1, <2>1, <2>2, <2>3
<1> QED
  BY <1>2, <1>3


LEMMA RetriedIsTheBatch ==
    ASSUME NEW b, NEW last, IsBatch(b, last)
    PROVE  /\ IsBatch(Observer!Retried(b), last)
           /\ Observer!Retried(b).op = b.op /\ Observer!Retried(b).entries = b.entries
<1> DEFINE c == Observer!Retried(b)
<1>1. b = [op |-> b.op, entries |-> b.entries, attempts |-> b.attempts, reqs |-> b.reqs]
  BY DEF IsBatch
<1>2. c = [b EXCEPT !.attempts = b.attempts + 1]
  BY DEF Observer!Retried
<1>3. c = [op |-> b.op, entries |-> b.entries, attempts |-> b.attempts + 1, reqs |-> b.reqs]
  <2> HIDE DEF c
  <2> QED
    BY <1>1, <1>2
<1> HIDE DEF c
<1>4. /\ c.op = b.op /\ c.entries = b.entries
      /\ c = [op |-> c.op, entries |-> c.entries, attempts |-> c.attempts, reqs |-> c.reqs]
  BY <1>3
<1>5. IsBatch(c, last)
  BY <1>4 DEF IsBatch
<1> QED
  BY <1>4, <1>5 DEF c

\* What a flush leaves in flight and in Redis is no more than what was due.
LEMMA FlushMovesTheDue ==
    ASSUME BucketsAreCounts, NEW b, NEW last \in Nat, IsBatch(b, last), o_flushed \subseteq 1 .. last,
           Observer!Recorded(b) \/ UNCHANGED <<o_bucket, o_flushed>>,
           o_pending' = NoBatch \/ o_pending' = Observer!Retried(b)
    PROVE  /\ BucketsAreCounts' /\ o_flushed' \subseteq 1 .. last
           /\ o_pending' # NoBatch => IsBatch(o_pending', last)
           /\ \A m \in Observer!Minutes :
                Observer!Held(m)'.provisional + InFlight(m)' <= Observer!Held(m).provisional + Due(b, m)
<1>1. o_pending' # NoBatch =>
        IsBatch(o_pending', last) /\ o_pending'.op = b.op /\ o_pending'.entries = b.entries
  BY RetriedIsTheBatch
<1>2. \A m \in Observer!Minutes : Observer!Held(m).provisional \in Nat /\ Due(b, m) \in Nat
  BY HeldIsCount, DueIsCount
<1>3. CASE Observer!Recorded(b)
  <2>1. /\ BucketsAreCounts' /\ b.op \in o_flushed' /\ o_flushed' \subseteq 1 .. last
        /\ \A m \in Observer!Minutes :
             Observer!Held(m)'.provisional <= Observer!Held(m).provisional + Due(b, m)
    BY <1>3, RecordedAddsTheDue
  <2>2. \A m \in Observer!Minutes : InFlight(m)' = 0
    BY <1>1, <2>1 DEF InFlight, Due
  <2>3. \A m \in Observer!Minutes : Observer!Held(m)'.provisional \in Nat
    BY <2>1, HeldIsCount DEF BucketsAreCounts, IsBucket, Observer!Held, Observer!Zero
  <2> QED
    BY <1>1, <1>2, <2>1, <2>2, <2>3
<1>4. CASE UNCHANGED <<o_bucket, o_flushed>>
  <2>1. BucketsAreCounts'
    BY <1>4 DEF BucketsAreCounts
  <2>2. \A m \in Observer!Minutes : Observer!Held(m)' = Observer!Held(m)
    BY <1>4 DEF Observer!Held
  <2>3. \A m \in Observer!Minutes : InFlight(m)' = 0 \/ InFlight(m)' = Due(b, m)
    BY <1>1, <1>4 DEF InFlight, Due
  <2> QED
    BY <1>1, <1>2, <1>4, <2>1, <2>2, <2>3
<1> QED
  BY <1>3, <1>4

LEMMA FlushKeeps ==
    ASSUME ObserverInv, Observer!Flush
    PROVE  ObserverInv'
<1>0. ScopesAreTracked /\ BatchesAreNumbered /\ BucketsAreCounts /\ CorrectionsLower /\ AllWasObserved
  BY DEF ObserverInv
<1> DEFINE b == IF o_pending # NoBatch THEN o_pending ELSE Observer!NewBatch(Observer!Taken)
<1>1. /\ IF o_pending # NoBatch
         THEN UNCHANGED <<o_queue, o_sequence>>
         ELSE o_queue' = SubSeq(o_queue, Observer!Taken + 1, Len(o_queue)) /\ o_sequence' = o_sequence + 1
      /\ Observer!FlushSucceeds(b) \/ Observer!FlushFails(b)
      /\ UNCHANGED <<o_minute, o_request, o_tracked, o_corrections, o_observed>>
  BY DEF Observer!Flush
<1> HIDE DEF b
<1>2. /\ Observer!Recorded(b) \/ UNCHANGED <<o_bucket, o_flushed>>
      /\ o_pending' = NoBatch \/ o_pending' = Observer!Retried(b)
  BY <1>1 DEF Observer!FlushSucceeds, Observer!FlushFails, Observer!redis
<1>3. /\ o_sequence' \in Nat /\ o_flushed \subseteq 1 .. o_sequence'
      /\ IsBatch(b, o_sequence') /\ o_queue' \in Seq(Observations)
      /\ \E p : /\ RunningSums(o_queue', p)
                /\ \A m \in Observer!Minutes :
                     Observer!Held(m).provisional + Due(b, m) + Growth(o_queue', p, m) <= o_observed[m]
  <2>1. CASE o_pending # NoBatch
    <3>1. b = o_pending /\ UNCHANGED <<o_queue, o_sequence>>
      BY <1>1, <2>1 DEF b
    <3>2. \A m \in Observer!Minutes : InFlight(m) = Due(b, m)
      BY <2>1, <3>1 DEF InFlight
    <3>3. PICK p : /\ RunningSums(o_queue, p)
                   /\ \A m \in Observer!Minutes :
                        Observer!Held(m).provisional + InFlight(m) + Growth(o_queue, p, m) <= o_observed[m]
      BY <1>0 DEF AllWasObserved
    <3>4. RunningSums(o_queue', p)
          /\ \A m \in Observer!Minutes :
               Observer!Held(m).provisional + Due(b, m) + Growth(o_queue', p, m) <= o_observed[m]
      BY <3>1, <3>2, <3>3
    <3> QED
      BY <1>0, <2>1, <3>1, <3>4 DEF BatchesAreNumbered, AllWasObserved
  <2>2. CASE o_pending = NoBatch
    <3>1. /\ b = Observer!NewBatch(Observer!Taken) /\ o_sequence' = o_sequence + 1
          /\ o_queue' = SubSeq(o_queue, Observer!Taken + 1, Len(o_queue))
      BY <1>1, <2>2 DEF b
    <3>2. o_sequence' \in Nat /\ o_flushed \subseteq 1 .. o_sequence'
      BY <1>0, <3>1 DEF BatchesAreNumbered
    <3> QED
      BY <1>0, <2>2, <3>1, <3>2, NewBatchHolds
  <2> QED
    BY <2>1, <2>2
<1>4. /\ BucketsAreCounts' /\ o_flushed' \subseteq 1 .. o_sequence'
      /\ o_pending' # NoBatch => IsBatch(o_pending', o_sequence')
      /\ \A m \in Observer!Minutes :
           Observer!Held(m)'.provisional + InFlight(m)' <= Observer!Held(m).provisional + Due(b, m)
  BY <1>0, <1>2, <1>3, FlushMovesTheDue
<1>5. BatchesAreNumbered'
  BY <1>3, <1>4 DEF BatchesAreNumbered
<1>6. AllWasObserved'
  <2>1. PICK p : /\ RunningSums(o_queue', p)
                 /\ \A m \in Observer!Minutes :
                     Observer!Held(m).provisional + Due(b, m) + Growth(o_queue', p, m) <= o_observed[m]
    BY <1>3
  <2>2. ASSUME NEW m \in Observer!Minutes
        PROVE  Observer!Held(m)'.provisional + InFlight(m)' + Growth(o_queue', p, m) <= o_observed'[m]
    <3>1. Observer!Held(m).provisional \in Nat /\ Due(b, m) \in Nat
      BY <1>0, <1>3, HeldIsCount, DueIsCount
    <3>2. Growth(o_queue', p, m) \in Nat
      BY <1>3, <2>1, GrowthIsCount
    <3>3. Observer!Held(m)'.provisional \in Nat
      BY <1>4 DEF BucketsAreCounts, IsBucket, Observer!Held, Observer!Zero
    <3>4. InFlight(m)' \in Nat
      BY <1>5 DEF InFlight, Due, BatchesAreNumbered, IsBatch, Tokens
    <3>5. o_observed'[m] = o_observed[m] /\ o_observed[m] \in Nat
      BY <1>0, <1>1 DEF AllWasObserved
    <3>6. Observer!Held(m).provisional + Due(b, m) + Growth(o_queue', p, m) <= o_observed[m]
      BY <2>1
    <3>7. Observer!Held(m)'.provisional + InFlight(m)' <= Observer!Held(m).provisional + Due(b, m)
      BY <1>4
    <3> QED
      BY <3>1, <3>2, <3>3, <3>4, <3>5, <3>6, <3>7
  <2> QED
    BY <1>0, <1>1, <1>3, <2>1, <2>2 DEF AllWasObserved
<1>7. ScopesAreTracked' /\ CorrectionsLower'
  BY <1>0, <1>1 DEF ScopesAreTracked, CorrectionsLower
<1> QED
  BY <1>4, <1>5, <1>6, <1>7 DEF ObserverInv


\* correct_tpm_observation.lua only takes from a bucket, and leaves a count.
LEMMA CorrectedTakes ==
    ASSUME BucketsAreCounts, NEW c, Lowers(c), Observer!Corrected(c)
    PROVE  /\ BucketsAreCounts'
           /\ \A m \in Observer!Minutes : Observer!Held(m)'.provisional <= Observer!Held(m).provisional
<1>1. o_bucket' = [m \in Observer!Minutes |->
        IF m \notin DOMAIN c.entries \/ o_bucket[m] = NoBucket THEN o_bucket[m]
        ELSE Observer!CorrectedBy(o_bucket[m], c.entries[m])]
  BY DEF Observer!Corrected
<1>2. ASSUME NEW m \in Observer!Minutes
      PROVE  /\ o_bucket'[m] # NoBucket => IsBucket(o_bucket'[m])
             /\ Observer!Held(m)'.provisional <= Observer!Held(m).provisional
  <2>1. Observer!Held(m).provisional \in Nat
    BY HeldIsCount
  <2>2. CASE m \notin DOMAIN c.entries \/ o_bucket[m] = NoBucket
    <3>1. o_bucket'[m] = o_bucket[m]
      BY <1>1, <2>2
    <3> QED
      BY <3>1, <2>1 DEF Observer!Held, BucketsAreCounts
  <2>3. CASE m \in DOMAIN c.entries /\ o_bucket[m] # NoBucket
    <3> DEFINE h == o_bucket[m]
               d == c.entries[m]
               s == Observer!Plus(h, d)
    <3>1. Observer!Held(m) = h /\ "provisional" \in DOMAIN h /\ h.provisional \in Nat
      BY <2>3 DEF Observer!Held, BucketsAreCounts, IsBucket
    <3>2. d.provisional \in Int /\ d.provisional <= 0
      BY <2>3 DEF Lowers
    <3>3. o_bucket'[m] = Observer!AtLeastZero(s)
      BY <1>1, <2>3 DEF Observer!CorrectedBy
    <3> HIDE DEF h, d
    <3>4. "provisional" \in DOMAIN s /\ s.provisional = h.provisional + d.provisional
      BY <3>1 DEF Observer!Plus
    <3> HIDE DEF s
    <3>5. /\ "provisional" \in DOMAIN Observer!AtLeastZero(s)
          /\ Observer!AtLeastZero(s).provisional = IF s.provisional < 0 THEN 0 ELSE s.provisional
      BY <3>4 DEF Observer!AtLeastZero
    <3>6. IsBucket(o_bucket'[m]) /\ o_bucket'[m].provisional <= h.provisional
      BY <3>1, <3>2, <3>3, <3>4, <3>5 DEF IsBucket
    <3>7. Observer!Held(m)' = IF o_bucket'[m] = NoBucket THEN Observer!Zero ELSE o_bucket'[m]
      BY DEF Observer!Held
    <3>8. Observer!Zero.provisional = 0
      BY DEF Observer!Zero
    <3> QED
      BY <3>1, <3>6, <3>7, <3>8
  <2> QED
    BY <2>2, <2>3
<1>3. BucketsAreCounts'
  BY <1>1, <1>2 DEF BucketsAreCounts
<1> QED
  BY <1>2, <1>3

LEMMA ApplyCorrectionKeeps ==
    ASSUME ObserverInv, Observer!ApplyCorrection
    PROVE  ObserverInv'
<1>0. ScopesAreTracked /\ BatchesAreNumbered /\ BucketsAreCounts /\ CorrectionsLower /\ AllWasObserved
  BY DEF ObserverInv
<1>1. /\ o_corrections # <<>> /\ o_corrections' = Tail(o_corrections)
      /\ Observer!Corrected(Head(o_corrections)) \/ UNCHANGED o_bucket
      /\ UNCHANGED <<o_minute, o_request, o_tracked, o_queue, o_pending, o_sequence, o_flushed, o_observed>>
  BY DEF Observer!ApplyCorrection
<1>2. Lowers(Head(o_corrections)) /\ CorrectionsLower'
  <2>1. PICK S : o_corrections \in Seq(S) /\ \A c \in S : Lowers(c)
    BY <1>0 DEF CorrectionsLower
  <2>2. Head(o_corrections) \in S /\ o_corrections' \in Seq(S)
    BY <1>1, <2>1
  <2> QED
    BY <2>1, <2>2 DEF CorrectionsLower
<1>3. /\ BucketsAreCounts'
      /\ \A m \in Observer!Minutes : Observer!Held(m)'.provisional <= Observer!Held(m).provisional
  <2>1. CASE Observer!Corrected(Head(o_corrections))
    BY <1>0, <1>2, <2>1, CorrectedTakes
  <2>2. CASE UNCHANGED o_bucket
    <3>1. BucketsAreCounts' /\ \A m \in Observer!Minutes : Observer!Held(m)' = Observer!Held(m)
      BY <1>0, <2>2 DEF BucketsAreCounts, Observer!Held
    <3> QED
      BY <1>0, <3>1, HeldIsCount
  <2> QED
    BY <1>1, <2>1, <2>2
<1>4. ScopesAreTracked' /\ BatchesAreNumbered'
  BY <1>0, <1>1 DEF ScopesAreTracked, BatchesAreNumbered
<1>5. AllWasObserved'
  <2>1. PICK p : /\ RunningSums(o_queue, p)
                 /\ \A m \in Observer!Minutes :
                      Observer!Held(m).provisional + InFlight(m) + Growth(o_queue, p, m) <= o_observed[m]
    BY <1>0 DEF AllWasObserved
  <2>2. o_queue \in Seq(Observations) /\ o_observed \in [Observer!Minutes -> Nat]
    BY <1>0 DEF AllWasObserved
  <2>3. ASSUME NEW m \in Observer!Minutes
        PROVE  Observer!Held(m)'.provisional + InFlight(m)' + Growth(o_queue', p, m) <= o_observed'[m]
    <3>1. Observer!Held(m).provisional \in Nat /\ InFlight(m) \in Nat /\ Growth(o_queue, p, m) \in Nat
          /\ o_observed[m] \in Nat
      BY <1>0, <2>1, <2>2, HeldIsCount, InFlightIsCount, GrowthIsCount
    <3>2. Observer!Held(m)'.provisional \in Nat
      BY <1>3 DEF BucketsAreCounts, IsBucket, Observer!Held, Observer!Zero
    <3>3. InFlight(m)' = InFlight(m) /\ Growth(o_queue', p, m) = Growth(o_queue, p, m) /\ o_observed' = o_observed
      BY <1>1 DEF InFlight, Due
    <3>4. Observer!Held(m)'.provisional <= Observer!Held(m).provisional
      BY <1>3
    <3>5. Observer!Held(m).provisional + InFlight(m) + Growth(o_queue, p, m) <= o_observed[m]
      BY <2>1
    <3> QED
      BY <3>1, <3>2, <3>3, <3>4, <3>5
  <2> QED
    BY <1>1, <2>1, <2>2, <2>3 DEF AllWasObserved
<1> QED
  BY <1>2, <1>3, <1>4, <1>5 DEF ObserverInv

\* Finalize with usage takes the estimates back.
LEMMA CorrectionLowers ==
    ASSUME NEW w \in WeightSet, NEW a, NEW m \in Observer!Minutes
    PROVE  /\ Observer!Correction(w, a, m).provisional \in Int
           /\ Observer!Correction(w, a, m).provisional <= 0
<1> DEFINE A == IF w.minute = m
                THEN [input |-> a.input - w.input, output |-> 0, provisional |-> -w.input] ELSE Observer!Zero
           B == IF Observer!Total(w) > 0
                THEN IF m \in Observer!Weighed(w)
                     THEN [input |-> 0, output |-> Observer!Share(w, a.output, m) - w.out[m],
                           provisional |-> -w.out[m]]
                     ELSE Observer!Zero
                ELSE IF m = o_minute THEN [Observer!Zero EXCEPT !.output = a.output] ELSE Observer!Zero
<1>1. Observer!Correction(w, a, m) = Observer!Plus(A, B)
  BY DEF Observer!Correction
<1>2. w.input \in Nat /\ w.out[m] \in Nat
  BY DEF WeightSet
<1>3. "provisional" \in DOMAIN A /\ A.provisional \in Int /\ A.provisional <= 0
  <2>1. CASE w.minute = m
    BY <1>2, <2>1
  <2>2. CASE w.minute # m
    BY <2>2 DEF Observer!Zero
  <2> QED
    BY <2>1, <2>2
<1>4. B.provisional \in Int /\ B.provisional <= 0
  <2>1. CASE Observer!Total(w) > 0 /\ m \in Observer!Weighed(w)
    BY <1>2, <2>1
  <2>2. CASE Observer!Total(w) > 0 /\ m \notin Observer!Weighed(w)
    BY <2>2 DEF Observer!Zero
  <2>3. CASE ~(Observer!Total(w) > 0)
    BY <2>3 DEF Observer!Zero
  <2> QED
    BY <2>1, <2>2, <2>3
<1> HIDE DEF A, B
<1>5. Observer!Plus(A, B).provisional = A.provisional + B.provisional
  BY <1>3 DEF Observer!Plus
<1> QED
  BY <1>1, <1>3, <1>4, <1>5

\* What a step of a request leaves alone.
LEMMA RequestStepKeeps ==
    ASSUME ObserverInv, ScopesAreTracked', CorrectionsLower',
           UNCHANGED <<o_pending, o_sequence, o_flushed, o_bucket>>,
           \/ UNCHANGED <<o_queue, o_observed>>
           \/ \E r \in Requests, m \in Observer!Minutes, delta \in Tokens : Observer!Enqueue(r, m, delta)
    PROVE  ObserverInv'
<1>0. BatchesAreNumbered /\ BucketsAreCounts /\ AllWasObserved
  BY DEF ObserverInv
<1>1. BatchesAreNumbered' /\ BucketsAreCounts'
  BY <1>0 DEF BatchesAreNumbered, BucketsAreCounts
<1>2. CASE UNCHANGED <<o_queue, o_observed>>
  <2>1. \A m \in Observer!Minutes : Observer!Held(m)' = Observer!Held(m) /\ InFlight(m)' = InFlight(m)
    BY DEF Observer!Held, InFlight, Due
  <2>2. AllWasObserved'
    BY <1>0, <1>2, <2>1 DEF AllWasObserved
  <2> QED
    BY <1>1, <2>2 DEF ObserverInv
<1>3. CASE \E r \in Requests, m \in Observer!Minutes, delta \in Tokens : Observer!Enqueue(r, m, delta)
  <2>1. AllWasObserved'
    BY <1>0, <1>3, EnqueueKeeps
  <2> QED
    BY <1>1, <2>1 DEF ObserverInv
<1> QED
  BY <1>2, <1>3


\* One request moved; where it is and what its scope holds fit together.
LEMMA MovedScopes ==
    ASSUME ScopesAreTracked, NEW r \in Requests, NEW u, NEW w,
           u \in ObservedRequests,
           u.pc \in {"calling", "answering"} => u.start \in Observer!Minutes,
           u.pc = "answering" => w \in WeightSet, w # NoWeights => w \in WeightSet,
           o_request' = [o_request EXCEPT ![r] = u], o_tracked' = [o_tracked EXCEPT ![r] = w],
           o_minute' = o_minute
    PROVE  ScopesAreTracked'
<1>1. o_request' \in [Requests -> ObservedRequests]
      /\ o_tracked' = [s \in Requests |-> o_tracked'[s]]
  BY DEF ScopesAreTracked
<1>2. ASSUME NEW s \in Requests
      PROVE  /\ o_request'[s].pc \in {"calling", "answering"} => o_request'[s].start \in Observer!Minutes
             /\ o_request'[s].pc = "answering" => o_tracked'[s] \in WeightSet
             /\ o_tracked'[s] # NoWeights => o_tracked'[s] \in WeightSet
  <2>1. CASE s = r
    <3>1. o_request'[s] = u /\ o_tracked'[s] = w
      BY <2>1 DEF ScopesAreTracked
    <3> QED
      BY <3>1
  <2>2. CASE s # r
    <3>1. o_request'[s] = o_request[s] /\ o_tracked'[s] = o_tracked[s]
      BY <2>2 DEF ScopesAreTracked
    <3> QED
      BY <3>1 DEF ScopesAreTracked
  <2> QED
    BY <2>1, <2>2
<1> QED
  BY <1>1, <1>2 DEF ScopesAreTracked

LEMMA WeightsFit ==
    ASSUME ScopesAreTracked, NEW r \in Requests
    PROVE  /\ o_request[r] \in ObservedRequests
           /\ Observer!Weights(r) \in WeightSet /\ Observer!New.minute = 0
<1>1. Observer!New \in WeightSet /\ Observer!New.minute = 0
  BY DEF Observer!New, WeightSet
<1> QED
  BY <1>1 DEF ScopesAreTracked, Observer!Weights

LEMMA BeginKeeps ==
    ASSUME ObserverInv, Observer!ObserverAssumption, NEW r \in Requests, Observer!Begin(r)
    PROVE  ObserverInv'
<1>0. ScopesAreTracked /\ CorrectionsLower
  BY DEF ObserverInv
<1>1. /\ o_request' = [o_request EXCEPT ![r] = [pc |-> "calling", attempt |-> 1, start |-> o_minute, chunks |-> 0]]
      /\ UNCHANGED <<o_minute, o_tracked, o_queue, o_corrections, o_pending, o_sequence, o_bucket,
                     o_flushed, o_observed>>
  BY DEF Observer!Begin, Observer!observer, Observer!redis, Observer!history
<1> DEFINE u == [pc |-> "calling", attempt |-> 1, start |-> o_minute, chunks |-> 0]
<1>2. u \in ObservedRequests /\ u.start \in Observer!Minutes
      /\ u.pc = "calling"
  BY <1>0 DEF ScopesAreTracked, Observer!Minutes, Observer!ObserverAssumption, ObservedRequests
<1> HIDE DEF u
<1>3. o_tracked' = [o_tracked EXCEPT ![r] = o_tracked[r]] /\ o_request' = [o_request EXCEPT ![r] = u]
  BY <1>0, <1>1 DEF ScopesAreTracked, u
<1>4. o_tracked[r] # NoWeights => o_tracked[r] \in WeightSet
  BY <1>0 DEF ScopesAreTracked
<1>5. ScopesAreTracked'
  BY <1>0, <1>1, <1>2, <1>3, <1>4, MovedScopes
<1>6. CorrectionsLower'
  BY <1>0, <1>1 DEF CorrectionsLower
<1> QED
  BY <1>1, <1>5, <1>6, RequestStepKeeps

LEMMA ObserveInputKeeps ==
    ASSUME ObserverInv, Observer!ObserverAssumption, NEW r \in Requests, Observer!ObserveInput(r)
    PROVE  ObserverInv'
<1>0. ScopesAreTracked /\ CorrectionsLower
  BY DEF ObserverInv
<1>1. /\ o_request[r].pc = "calling" /\ o_request' = [o_request EXCEPT ![r].pc = "answering"]
      /\ UNCHANGED <<o_minute, o_corrections, o_pending, o_sequence, o_bucket, o_flushed>>
      /\ IF Observer!Weights(r).minute # 0
         THEN UNCHANGED <<o_tracked, o_queue, o_observed>>
         ELSE /\ o_tracked' = [o_tracked EXCEPT ![r] = [Observer!Weights(r) EXCEPT
                                   !.minute = o_request[r].start, !.input = Estimate]]
              /\ Observer!Enqueue(r, o_request[r].start,
                                  [input |-> Estimate, output |-> 0, provisional |-> Estimate])
  BY DEF Observer!ObserveInput, Observer!redis
<1>2. CorrectionsLower'
  BY <1>0, <1>1 DEF CorrectionsLower
<1> DEFINE u == [o_request[r] EXCEPT !.pc = "answering"]
           w == [Observer!Weights(r) EXCEPT !.minute = o_request[r].start, !.input = Estimate]
           d == [input |-> Estimate, output |-> 0, provisional |-> Estimate]
<1>3. u \in ObservedRequests /\ u.start \in Observer!Minutes
      /\ o_request' = [o_request EXCEPT ![r] = u] /\ o_request[r].start \in Observer!Minutes
      /\ o_request[r].start \in Nat
  <2>1. o_request[r] \in ObservedRequests
    BY <1>0, WeightsFit
  <2>2. o_request[r].start \in Observer!Minutes
    BY <1>0, <1>1 DEF ScopesAreTracked
  <2>3. o_request' = [o_request EXCEPT ![r] = u]
    BY <1>1
  <2> QED
    BY <2>1, <2>2, <2>3 DEF ObservedRequests
<1>4. Estimate \in Nat
  BY DEF Observer!ObserverAssumption
<1>5. w \in WeightSet /\ d \in Tokens
  <2>1. Observer!Weights(r) \in WeightSet
    BY <1>0, WeightsFit
  <2> QED
    BY <2>1, <1>3, <1>4 DEF WeightSet, Tokens
<1> HIDE DEF u, d, w
<1>6. CASE Observer!Weights(r).minute # 0
  <2>1. o_tracked[r] \in WeightSet
    BY <1>0, <1>6, WeightsFit DEF Observer!Weights, ScopesAreTracked
  <2>2. o_tracked' = [o_tracked EXCEPT ![r] = o_tracked[r]]
    BY <1>0, <1>1, <1>6 DEF ScopesAreTracked
  <2>3. ScopesAreTracked'
    BY <1>0, <1>1, <1>3, <2>1, <2>2, MovedScopes
  <2> QED
    BY <1>1, <1>2, <1>6, <2>3, RequestStepKeeps
<1>7. CASE Observer!Weights(r).minute = 0
  <2>1. o_tracked' = [o_tracked EXCEPT ![r] = w] /\ Observer!Enqueue(r, o_request[r].start, d)
    BY <1>1, <1>7 DEF w, d
  <2>2. ScopesAreTracked'
    BY <1>0, <1>1, <1>3, <1>5, <2>1, MovedScopes
  <2> QED
    BY <1>1, <1>2, <1>3, <1>5, <2>1, <2>2, RequestStepKeeps
<1> QED
  BY <1>6, <1>7

LEMMA ObserveOutputKeeps ==
    ASSUME ObserverInv, NEW r \in Requests, Observer!ObserveOutput(r)
    PROVE  ObserverInv'
<1>0. ScopesAreTracked /\ CorrectionsLower
  BY DEF ObserverInv
<1> DEFINE u == [o_request[r] EXCEPT !.chunks = @ + 1]
           w == [Observer!Weights(r) EXCEPT !.out[o_minute] = @ + 1]
           d == [input |-> 0, output |-> 1, provisional |-> 1]
<1>1. /\ o_request[r].pc = "answering" /\ o_request' = [o_request EXCEPT ![r].chunks = @ + 1]
      /\ o_tracked' = [o_tracked EXCEPT ![r] = w]
      /\ UNCHANGED <<o_minute, o_corrections, o_pending, o_sequence, o_bucket, o_flushed>>
      /\ Observer!Enqueue(r, o_minute, d)
  BY DEF Observer!ObserveOutput, Observer!redis
<1>2. CorrectionsLower'
  BY <1>0, <1>1 DEF CorrectionsLower
<1>3. o_request[r] \in ObservedRequests
      /\ Observer!Weights(r) \in WeightSet /\ o_minute \in Observer!Minutes
      /\ o_request[r].start \in Observer!Minutes
  BY <1>0, <1>1, WeightsFit DEF ScopesAreTracked
<1>4. u \in ObservedRequests /\ u.start \in Observer!Minutes
      /\ o_request' = [o_request EXCEPT ![r] = u]
  BY <1>1, <1>3 DEF ObservedRequests
<1>5. d \in Tokens
  BY DEF Tokens
<1>6. w \in WeightSet
  <2> DEFINE v == Observer!Weights(r)
             out == [v.out EXCEPT ![o_minute] = @ + 1]
  <2>1. v.out \in [Observer!Minutes -> Nat]
    BY <1>3 DEF WeightSet
  <2>2. out \in [Observer!Minutes -> Nat]
    BY <1>3, <2>1
  <2>3. w = [v EXCEPT !.out = out]
    OBVIOUS
  <2> HIDE DEF v, out, w
  <2> QED
    BY <1>3, <2>2, <2>3 DEF WeightSet, v
<1> HIDE DEF u, w, d
<1>7. ScopesAreTracked'
  BY <1>0, <1>1, <1>4, <1>6, MovedScopes
<1> QED
  BY <1>1, <1>2, <1>3, <1>5, <1>7, RequestStepKeeps

LEMMA FinalizeKeeps ==
    ASSUME ObserverInv, NEW r \in Requests, Observer!Finalize(r)
    PROVE  ObserverInv'
<1>0. ScopesAreTracked /\ CorrectionsLower
  BY DEF ObserverInv
<1>1. /\ o_request[r].pc = "answering" /\ o_tracked' = [o_tracked EXCEPT ![r] = NoWeights]
      /\ UNCHANGED <<o_minute, o_pending, o_sequence, o_bucket, o_flushed>>
  BY DEF Observer!Finalize, Observer!redis
<1>2. o_request[r] \in ObservedRequests
      /\ o_tracked[r] \in WeightSet /\ o_minute \in Observer!Minutes
      /\ o_request[r].start \in Observer!Minutes
  BY <1>0, <1>1, WeightsFit DEF ScopesAreTracked
<1>3. ScopesAreTracked'
  <2> DEFINE over == [o_request[r] EXCEPT !.pc = "done"]
             again == [o_request[r] EXCEPT !.pc = "calling", !.attempt = @ + 1]
  <2>1. o_request' = [o_request EXCEPT ![r] = over] \/ o_request' = [o_request EXCEPT ![r] = again]
    BY DEF Observer!Finalize
  <2>2. over \in ObservedRequests /\ over.pc = "done"
    BY <1>2 DEF ObservedRequests
  <2>3. again \in ObservedRequests /\ again.pc = "calling"
        /\ again.start \in Observer!Minutes
    <3> DEFINE v == [o_request[r] EXCEPT !.pc = "calling"]
    <3>1. v \in ObservedRequests /\ v.pc = "calling" /\ v.start \in Observer!Minutes
      BY <1>2 DEF ObservedRequests
    <3>2. again = [v EXCEPT !.attempt = v.attempt + 1]
      BY <1>2 DEF ObservedRequests
    <3> HIDE DEF v, again
    <3> QED
      BY <3>1, <3>2 DEF ObservedRequests
  <2> HIDE DEF over, again
  <2>4. CASE o_request' = [o_request EXCEPT ![r] = over]
    BY <1>0, <1>1, <2>2, <2>4, MovedScopes
  <2>5. CASE o_request' = [o_request EXCEPT ![r] = again]
    BY <1>0, <1>1, <2>3, <2>5, MovedScopes
  <2> QED
    BY <2>1, <2>4, <2>5
<1>4. CASE Observer!CountMissing(r)
  <2>1. Observer!Enqueue(r, o_minute, Observer!Zero) /\ UNCHANGED o_corrections
    BY <1>4 DEF Observer!CountMissing
  <2>2. Observer!Zero \in Tokens
    BY DEF Observer!Zero, Tokens
  <2>3. CorrectionsLower'
    BY <1>0, <2>1 DEF CorrectionsLower
  <2> QED
    BY <1>1, <1>2, <1>3, <2>1, <2>2, <2>3, RequestStepKeeps
<1>5. CASE \E a \in Actuals : Observer!Settle(r, a)
  <2>1. PICK a \in Actuals : Observer!Settle(r, a)
    BY <1>5
  <2> DEFINE w == o_tracked[r]
             touched == {m \in Observer!Minutes : Observer!Correction(w, a, m) # Observer!Zero}
             c == [req |-> r, entries |-> [m \in touched |-> Observer!Correction(w, a, m)]]
  <2>2. /\ UNCHANGED <<o_queue, o_observed>>
        /\ UNCHANGED o_corrections \/ o_corrections' = Append(o_corrections, c)
    BY <2>1 DEF Observer!Settle
  <2>3. Lowers(c)
    <3>1. c.entries = [m \in touched |-> Observer!Correction(w, a, m)]
      OBVIOUS
    <3>2. \A m \in Observer!Minutes : /\ Observer!Correction(w, a, m).provisional \in Int
                                      /\ Observer!Correction(w, a, m).provisional <= 0
      BY <1>2, CorrectionLowers
    <3>3. touched \subseteq Observer!Minutes
      OBVIOUS
    <3> HIDE DEF c, touched, w
    <3> QED
      BY <3>1, <3>2, <3>3 DEF Lowers
  <2> HIDE DEF c
  <2>4. CorrectionsLower'
    <3>1. PICK S : o_corrections \in Seq(S) /\ \A x \in S : Lowers(x)
      BY <1>0 DEF CorrectionsLower
    <3>2. o_corrections \in Seq(S \cup {c}) /\ o_corrections' \in Seq(S \cup {c})
      <4>1. o_corrections \in Seq(S \cup {c})
        BY <3>1
      <4> QED
        BY <2>2, <4>1
    <3>3. \A x \in S \cup {c} : Lowers(x)
      BY <2>3, <3>1
    <3> QED
      BY <3>2, <3>3 DEF CorrectionsLower
  <2> QED
    BY <1>1, <1>3, <2>2, <2>4, RequestStepKeeps
<1> QED
  BY <1>4, <1>5 DEF Observer!Finalize

-----------------------------------------------------------------------------
(* The theorem.                                                            *)

LEMMA ObserverInit == ASSUME Observer!ObserverAssumption, Observer!Init PROVE ObserverInv
<1>1. o_queue = <<>> /\ o_corrections = <<>> /\ o_pending = NoBatch /\ o_sequence = 0 /\ o_flushed = {}
      /\ o_bucket = [m \in Observer!Minutes |-> NoBucket] /\ o_observed = [m \in Observer!Minutes |-> 0]
      /\ o_minute = 1 /\ o_tracked = [r \in Requests |-> NoWeights]
      /\ o_request = [r \in Requests |-> [pc |-> "new", attempt |-> 0, start |-> 0, chunks |-> 0]]
  BY DEF Observer!Init
<1>2. ScopesAreTracked
  <2>1. MaxMinute \in Nat \ {0}
    BY DEF Observer!ObserverAssumption
  <2>2. 1 \in Observer!Minutes
    BY <2>1 DEF Observer!Minutes
  <2> QED
    BY <1>1, <2>2 DEF ScopesAreTracked, ObservedRequests
<1>3. BatchesAreNumbered /\ BucketsAreCounts
  BY <1>1 DEF BatchesAreNumbered, BucketsAreCounts
<1>4. CorrectionsLower
  <2>1. o_corrections \in Seq({}) /\ \A c \in {} : Lowers(c)
    BY <1>1
  <2> QED
    BY <2>1 DEF CorrectionsLower
<1>5. AllWasObserved
  <2> DEFINE p == [i \in 0 .. 0 |-> [m \in Observer!Minutes |-> 0]]
  <2>1. o_queue \in Seq(Observations) /\ Len(o_queue) = 0 /\ o_observed \in [Observer!Minutes -> Nat]
    BY <1>1
  <2>2. RunningSums(o_queue, p)
    BY <2>1 DEF RunningSums
  <2>3. ASSUME NEW m \in Observer!Minutes
        PROVE  Observer!Held(m).provisional + InFlight(m) + Growth(o_queue, p, m) <= o_observed[m]
    <3>1. Observer!Held(m).provisional = 0 /\ o_observed[m] = 0 /\ InFlight(m) = 0
      BY <1>1 DEF Observer!Held, Observer!Zero, InFlight
    <3>2. p[0][m] = 0
      OBVIOUS
    <3>3. Growth(o_queue, p, m) = 0
      BY <2>1, <3>2 DEF Growth
    <3> QED
      BY <3>1, <3>3
  <2> HIDE DEF p
  <2> QED
    BY <2>1, <2>2, <2>3 DEF AllWasObserved
<1> QED
  BY <1>2, <1>3, <1>4, <1>5 DEF ObserverInv

LEMMA ObserverStep ==
    ASSUME Observer!ObserverAssumption, ObserverInv, [Observer!Next]_(Observer!vars)
    PROVE  ObserverInv'
<1>1. CASE UNCHANGED Observer!vars
  <2>1. UNCHANGED <<o_minute, o_request, o_tracked, o_queue, o_corrections, o_pending, o_sequence,
                    o_bucket, o_flushed, o_observed>>
    BY <1>1 DEF Observer!vars, Observer!observer, Observer!redis, Observer!history
  <2>2. ScopesAreTracked' /\ CorrectionsLower'
    BY <2>1 DEF ObserverInv, ScopesAreTracked, CorrectionsLower
  <2> QED
    BY <2>1, <2>2, RequestStepKeeps
<1>2. CASE Observer!MinutePasses
  <2>1. /\ o_minute < MaxMinute /\ o_minute' = o_minute + 1
        /\ UNCHANGED <<o_request, o_tracked, o_queue, o_corrections, o_pending, o_sequence,
                       o_bucket, o_flushed, o_observed>>
    BY <1>2 DEF Observer!MinutePasses, Observer!observer, Observer!redis, Observer!history
  <2>2. MaxMinute \in Nat
    BY DEF Observer!ObserverAssumption
  <2>3. o_minute \in Observer!Minutes
    BY DEF ObserverInv, ScopesAreTracked
  <2>4. o_minute' \in Observer!Minutes
    BY <2>1, <2>2, <2>3 DEF Observer!Minutes
  <2>5. ScopesAreTracked' /\ CorrectionsLower'
    BY <2>1, <2>4 DEF ObserverInv, ScopesAreTracked, CorrectionsLower
  <2> QED
    BY <2>1, <2>5, RequestStepKeeps
<1>3. ASSUME NEW r \in Requests,
             Observer!Begin(r) \/ Observer!ObserveInput(r) \/ Observer!ObserveOutput(r) \/ Observer!Finalize(r)
      PROVE  ObserverInv'
  BY <1>3, BeginKeeps, ObserveInputKeeps, ObserveOutputKeeps, FinalizeKeeps
<1>4. CASE Observer!Loop
  BY <1>4, FlushKeeps, ApplyCorrectionKeeps DEF Observer!Loop
<1> QED
  BY <1>1, <1>2, <1>3, <1>4 DEF Observer!Next

LEMMA ObserverInvHolds ==
    ASSUME Observer!ObserverAssumption
    PROVE  Observer!Spec => []ObserverInv
<1>1. Observer!Init => ObserverInv
  BY ObserverInit
<1>2. ObserverInv /\ [Observer!Next]_(Observer!vars) => ObserverInv'
  BY ObserverStep
<1> QED
  BY <1>1, <1>2, PTL DEF Observer!Spec

\* CountedOnce, the half of the tokens' accounting that retries could break
\* (RecordTPMObservations): however often a flush is repeated, whatever answer is
\* lost and whenever a correction comes, no minute holds more provisional tokens
\* than were observed in it.
THEOREM CountedOnceTheorem ==
    ASSUME Observer!ObserverAssumption
    PROVE  Observer!Spec => []Observer!CountedOnce
<1>1. ObserverInv => Observer!CountedOnce
  <2> SUFFICES ASSUME ObserverInv, NEW m \in Observer!Minutes
               PROVE  Observer!Held(m).provisional <= o_observed[m]
    BY DEF Observer!CountedOnce
  <2>1. o_queue \in Seq(Observations) /\ o_observed \in [Observer!Minutes -> Nat]
        /\ BucketsAreCounts /\ BatchesAreNumbered
    BY DEF ObserverInv, AllWasObserved
  <2>2. PICK p : /\ RunningSums(o_queue, p)
                 /\ \A k \in Observer!Minutes :
                      Observer!Held(k).provisional + InFlight(k) + Growth(o_queue, p, k) <= o_observed[k]
    BY DEF ObserverInv, AllWasObserved
  <2>3. Observer!Held(m).provisional \in Nat /\ InFlight(m) \in Nat /\ Growth(o_queue, p, m) \in Nat
        /\ o_observed[m] \in Nat
    BY <2>1, <2>2, HeldIsCount, InFlightIsCount, GrowthIsCount
  <2>4. Observer!Held(m).provisional + InFlight(m) + Growth(o_queue, p, m) <= o_observed[m]
    BY <2>2
  <2> QED
    BY <2>3, <2>4
<1> QED
  BY <1>1, ObserverInvHolds, PTL

=============================================================================
