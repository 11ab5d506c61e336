--------------------------- MODULE AttemptPermit ---------------------------
(***************************************************************************)
(* The attempt permits of one Provider ("origin") and its Channels: the    *)
(* Redis scripts that admit an attempt, renew its lease and end it, and    *)
(* the AttemptPermitOwner of the gateway that calls them.  One permit is   *)
(* one concurrency slot of a Channel and, when a breaker is half open, its *)
(* probe.  Every script is one atomic action; the owner's calls, the lost  *)
(* replies, the crashes, the passing of time and what the operators do     *)
(* (resets, routing fences, configuration) interleave with them.           *)
(***************************************************************************)
EXTENDS Breaker, FiniteSets

CONSTANTS
    Permits,        \* permit ids (uuids: an id is used once)
    Channels,       \* the Provider's channels
    Models,         \* the models an attempt may ask for
    ChannelLimit,   \* effective concurrency of a channel, 0 = unlimited
    PermitTTL,      \* attempt_permit_ttl_ms in ticks
    CooldownTicks,  \* the 429 cooldowns the policy may resolve to
    EvidenceLimit,  \* distinct channels and distinct models that blame the Provider
    TerminalTries,  \* attemptPermitTerminalTries
    Lapses,         \* whether a failure window may have run out: subset of BOOLEAN
    MaxConfig,      \* bound: channel_config_revision
    MaxFences,      \* bound: routing fences taken
    MaxResets,      \* bound: breaker resets by an administrator
    MaxLosses       \* bound: losses of the Redis state

ASSUME PermitAssumption ==
    /\ NoPermit \notin Permits
    /\ IsFiniteSet(Permits)
    /\ Channels # {} /\ Models # {}
    /\ ChannelLimit \in Nat
    /\ PermitTTL \in Nat \ {0}
    /\ CooldownTicks \in SUBSET Nat
    /\ EvidenceLimit \in Nat \ {0}
    /\ TerminalTries \in Nat \ {0}
    /\ Lapses \in SUBSET BOOLEAN
    /\ {MaxConfig, MaxFences, MaxResets, MaxLosses} \subseteq Nat

VARIABLES
    origin,    \* the Provider's breaker
    channel,   \* the channels' breakers (generation 0: the hash does not exist)
    bound,     \* the revisions a channel's breaker is bound to
    control,   \* the Provider's routing control: revisions, fences, pending
    enabled,   \* gateway.circuit_breaker "enabled"
    cooldown,  \* the channels' 429 cooldown, ticks left
    evidence,  \* the ambiguous failures collected for the Provider
    slots,     \* the channels' concurrency sets: lease ticks of each member
    permit,    \* the permit hashes
    rpd,       \* the route/channel attribution bucket of the day
    epoch,     \* the integrity epoch of PostgreSQL and the Redis marker
    owner,     \* the gateway's AttemptPermitOwner of each permit
    tries,     \* terminal calls the owner has left
    resets     \* breaker resets so far

redisVars == <<origin, channel, bound, control, cooldown, evidence, slots, permit, rpd>>
vars == <<redisVars, enabled, epoch, owner, tries, resets>>

Scopes == {"origin", "channel"}

NoAttempt ==
    [status |-> "none", kept |-> FALSE, lease |-> 0,
     gen |-> [s \in Scopes |-> 0], probe |-> [s \in Scopes |-> FALSE],
     chan |-> CHOOSE c \in Channels : TRUE, model |-> CHOOSE m \in Models : TRUE,
     config |-> 0, originRev |-> 0, statusRev |-> 0,
     originFence |-> 0, statusFence |-> 0, epoch |-> 0]

NoEvidence == [channels |-> {}, models |-> {}]

Init ==
    /\ origin = FreshScope(1)
    /\ channel = [c \in Channels |-> FreshScope(0)]
    /\ bound = [c \in Channels |-> [config |-> 0, originRev |-> 0, statusRev |-> 0]]
    /\ control = [originRev |-> 1, statusRev |-> 1, originFence |-> 1,
                  statusFence |-> 1, pending |-> "none", serving |-> TRUE]
    /\ enabled \in BOOLEAN
    /\ cooldown = [c \in Channels |-> 0]
    /\ evidence = NoEvidence
    /\ slots = [c \in Channels |-> [p \in Permits |-> 0]]
    /\ permit = [p \in Permits |-> NoAttempt]
    /\ rpd = 0
    /\ epoch = 1
    /\ owner = [p \in Permits |-> "idle"]
    /\ tries = [p \in Permits |-> TerminalTries]
    /\ resets = 0

-----------------------------------------------------------------------------
(* Admission                                                               *)

Live(c) == {p \in Permits : slots[c][p] > 0}

Binding(cfg) == [config |-> cfg, originRev |-> control.originRev, statusRev |-> control.statusRev]

\* A candidate behind the channel's binding is denied; one ahead rotates the breaker.
BehindBinding(c, b) ==
    \/ bound[c].config > b.config
    \/ /\ bound[c].config = b.config
       /\ bound[c].originRev > b.originRev \/ bound[c].statusRev > b.statusRev

\* Mutant: a new binding keeps the samples of the old one.
RotatedWithoutReset(c, b) == IF channel[c].gen = 0 THEN ResetScope(channel[c]) ELSE channel[c]

Rotated(c, b) == IF bound[c] = b THEN channel[c] ELSE ResetScope(channel[c])

(* gate_and_acquire.lua, called by AttemptPermitManager.Acquire.  The      *)
(* candidate carries revisions read from PostgreSQL; those that differ     *)
(* from the routing control are denied, so an admitted one has the         *)
(* control's revisions.  A denial changes nothing.  The reply may be lost: *)
(* then nobody owns the permit that was taken.                             *)
Acquire(p, c, m, cfg, lost) ==
    LET b   == Binding(cfg)
        ch  == Rotated(c, b)
        og  == Gate(origin, enabled)
        cg  == Gate(ch, enabled)
        o1  == IF og = "probe" THEN TakeProbe(origin, p, PermitTTL) ELSE origin
        c1  == IF cg = "probe" THEN TakeProbe(ch, p, PermitTTL) ELSE ch
    IN  /\ owner[p] = "idle"
        /\ cooldown[c] = 0
        /\ control.pending = "none" /\ control.serving
        /\ ~BehindBinding(c, b)
        /\ og \in {"pass", "probe"} /\ cg \in {"pass", "probe"}
        /\ ChannelLimit > 0 => Cardinality(Live(c)) < ChannelLimit
        /\ origin' = o1
        /\ channel' = [channel EXCEPT ![c] = c1]
        /\ bound' = [bound EXCEPT ![c] = b]
        /\ slots' = [slots EXCEPT ![c][p] = PermitTTL]
        /\ permit' = [permit EXCEPT ![p] =
              [status |-> "active", kept |-> TRUE, lease |-> PermitTTL,
               gen |-> [s \in Scopes |-> IF s = "origin" THEN o1.gen ELSE c1.gen],
               probe |-> [s \in Scopes |-> (IF s = "origin" THEN og ELSE cg) = "probe"],
               chan |-> c, model |-> m, config |-> cfg,
               originRev |-> control.originRev, statusRev |-> control.statusRev,
               originFence |-> control.originFence, statusFence |-> control.statusFence,
               epoch |-> epoch]]
        /\ owner' = [owner EXCEPT ![p] = IF lost THEN "done" ELSE "held"]
        /\ UNCHANGED <<control, enabled, cooldown, evidence, rpd, epoch, tries, resets>>
-----------------------------------------------------------------------------
(* The life of a permit                                                    *)

\* validate_attempt_permit_lifecycle, and requireCurrentIntegrity before it.
Known(p) == permit[p].kept /\ permit[p].epoch = epoch

FenceCurrent(p) ==
    /\ control.pending = "none"
    /\ control.originFence = permit[p].originFence /\ control.originRev = permit[p].originRev
    /\ control.statusFence = permit[p].statusFence /\ control.statusRev = permit[p].statusRev

BindingCurrent(p) ==
    bound[permit[p].chan] = [config |-> permit[p].config, originRev |-> permit[p].originRev,
                             statusRev |-> permit[p].statusRev]

RenewProbe(s, p, scope, current) ==
    IF current /\ permit[p].probe[scope] /\ s.gen = permit[p].gen[scope] /\ s.holder = p
    THEN [s EXCEPT !.probeFor = PermitTTL] ELSE s

\* Mutant: a lease that ran out is revived.
RenewRevives(p) ==
    LET c == permit[p].chan IN
    /\ owner[p] = "held"
    /\ Known(p) /\ permit[p].status = "active"
    /\ permit' = [permit EXCEPT ![p].lease = PermitTTL]
    /\ slots' = [slots EXCEPT ![c][p] = PermitTTL]
    /\ UNCHANGED <<origin, channel, bound, control, enabled, cooldown, evidence, rpd, epoch,
                   owner, tries, resets>>

(* renew.lua from renewLoop: refused once the lease ran out or the permit  *)
(* is terminal.  It extends the slot it still has, never one it lost.      *)
Renew(p) ==
    LET c == permit[p].chan IN
    /\ owner[p] = "held"
    /\ Known(p) /\ permit[p].status = "active" /\ permit[p].lease > 0
    /\ permit' = [permit EXCEPT ![p].lease = PermitTTL]
    /\ slots' = IF slots[c][p] > 0 THEN [slots EXCEPT ![c][p] = PermitTTL] ELSE slots
    /\ origin' = RenewProbe(origin, p, "origin", FenceCurrent(p))
    /\ channel' = [channel EXCEPT ![c] =
                     RenewProbe(@, p, "channel", FenceCurrent(p) /\ BindingCurrent(p))]
    /\ UNCHANGED <<bound, control, enabled, cooldown, evidence, rpd, epoch, owner, tries, resets>>

\* The terminal call begins: terminalOnce is taken and the renewer is stopped.
BeginEnd(p, how) ==
    /\ owner[p] = "held"
    /\ owner' = [owner EXCEPT ![p] = how]
    /\ UNCHANGED <<redisVars, enabled, epoch, tries, resets>>

\* Mutant: the owner never stops calling.
AfterCallForever(p, replied, next) ==
    /\ tries' = [tries EXCEPT ![p] = @ - 1]
    /\ owner' = [owner EXCEPT ![p] = IF replied THEN next ELSE @]

\* After a call without a usable reply the owner tries again while it may.
AfterCall(p, replied, next) ==
    /\ tries' = [tries EXCEPT ![p] = IF replied THEN 0 ELSE @ - 1]
    /\ owner' = [owner EXCEPT ![p] = IF replied THEN next ELSE IF tries[p] = 1 THEN "done" ELSE @]

WithEvidence(c, m) ==
    LET Add(set, x) == IF Cardinality(set) < EvidenceLimit THEN set \cup {x} ELSE set
    IN  [channels |-> Add(evidence.channels, c), models |-> Add(evidence.models, m)]

Blames(e) ==
    Cardinality(e.channels) >= EvidenceLimit /\ Cardinality(e.models) >= EvidenceLimit

(* What nonStreamFinishOutcome and streamFinishOutcome make of a finished  *)
(* transport.  ambiguous: a 500 or a timeout in the body, which blames the *)
(* Provider only with evidence of others; limited: an upstream 429.        *)
Attribution(o, c, ambiguous, limited) ==
    [origin |-> o, channel |-> c, ambiguous |-> ambiguous, limited |-> limited]

Attributions ==
    {Attribution("eligible_success", "eligible_success", FALSE, FALSE),
     Attribution("eligible_failure", "eligible_failure", FALSE, FALSE),
     Attribution("ignored", "eligible_failure", FALSE, FALSE),
     Attribution("ignored", "eligible_failure", TRUE, FALSE),
     Attribution("ignored", "ignored", TRUE, FALSE),
     Attribution("ignored", "ignored", FALSE, FALSE),
     Attribution("ignored", "ignored", FALSE, TRUE)}

(* The write half of finish.lua for an active permit: the slot is always   *)
(* returned; an outcome behind a moved fence or binding reaches no         *)
(* breaker; an ambiguous failure is collected and becomes the Provider's   *)
(* failure when enough channels and models saw it.                         *)
FinishActive(p, a, windowOver, streakOver) ==
    LET c       == permit[p].chan
        applies == enabled /\ FenceCurrent(p)
        collect == a.ambiguous /\ applies /\ origin.gen = permit[p].gen["origin"]
        e1      == IF collect THEN WithEvidence(c, permit[p].model) ELSE evidence
        oo1     == IF collect /\ Blames(e1) THEN "eligible_failure" ELSE a.origin
        Apply(s, scope, o) ==
            ApplyScope(s, p, permit[p].gen[scope], permit[p].probe[scope], o, windowOver, streakOver)
    IN  /\ rpd' = rpd + 1
        /\ slots' = [slots EXCEPT ![c][p] = 0]
        /\ evidence' = e1
        /\ origin' = IF applies THEN Apply(origin, "origin", oo1) ELSE origin
        /\ channel' = IF applies /\ BindingCurrent(p)
                      THEN [channel EXCEPT ![c] = Apply(@, "channel", a.channel)] ELSE channel
        /\ permit' = [permit EXCEPT ![p].status = "finished"]
        /\ UNCHANGED <<bound, control, cooldown>>

\* Mutant: a repeated Finish is applied again.
FinishAgain(p, a, windowOver, streakOver, replied) ==
    /\ owner[p] = "finish"
    /\ IF Known(p) THEN FinishActive(p, a, windowOver, streakOver) ELSE UNCHANGED redisVars
    /\ AfterCall(p, replied, IF a.limited THEN "feedback" ELSE "done")
    /\ UNCHANGED <<enabled, epoch, resets>>

(* finish.lua: the first terminal call wins, a repeated one only reads the *)
(* tombstone.  A 429 is fed back as a cooldown once Finish is confirmed.   *)
Finish(p, a, windowOver, streakOver, replied) ==
    /\ owner[p] = "finish"
    /\ IF Known(p) /\ permit[p].status = "active"
       THEN FinishActive(p, a, windowOver, streakOver)
       ELSE UNCHANGED redisVars
    /\ AfterCall(p, replied, IF a.limited THEN "feedback" ELSE "done")
    /\ UNCHANGED <<enabled, epoch, resets>>

\* Mutant: the aborted permit's slot is left in the concurrency set.
AbortKeepsSlot(p, replied) ==
    /\ owner[p] = "abort"
    /\ Known(p) /\ permit[p].status = "active"
    /\ permit' = [permit EXCEPT ![p].status = "aborted"]
    /\ AfterCall(p, replied, "done")
    /\ UNCHANGED <<origin, channel, bound, control, cooldown, evidence, slots, rpd,
                   enabled, epoch, resets>>

\* Mutant: a probe that aborts releases the lease whoever holds it.
AbortReleasesAny(p, replied) ==
    LET c == permit[p].chan
        Release(s, scope) == IF permit[p].probe[scope] THEN ReleaseProbe(s) ELSE s
    IN  /\ owner[p] = "abort"
        /\ Known(p) /\ permit[p].status = "active"
        /\ slots' = [slots EXCEPT ![c][p] = 0]
        /\ origin' = Release(origin, "origin")
        /\ channel' = [channel EXCEPT ![c] = Release(@, "channel")]
        /\ permit' = [permit EXCEPT ![p].status = "aborted"]
        /\ AfterCall(p, replied, "done")
        /\ UNCHANGED <<bound, control, cooldown, evidence, rpd, enabled, epoch, resets>>

\* The write half of abort.lua: an attempt that never reached the upstream counts nowhere.
AbortActive(p) ==
    LET c == permit[p].chan
        Release(s, scope) == IF permit[p].probe[scope] /\ s.holder = p THEN ReleaseProbe(s) ELSE s
    IN  /\ slots' = [slots EXCEPT ![c][p] = 0]
        /\ origin' = Release(origin, "origin")
        /\ channel' = [channel EXCEPT ![c] = Release(@, "channel")]
        /\ permit' = [permit EXCEPT ![p].status = "aborted"]
        /\ UNCHANGED <<bound, control, cooldown, evidence, rpd>>

\* abort.lua: like finish.lua it acts on an active permit only.
Abort(p, replied) ==
    /\ owner[p] = "abort"
    /\ IF Known(p) /\ permit[p].status = "active" THEN AbortActive(p) ELSE UNCHANGED redisVars
    /\ AfterCall(p, replied, "done")
    /\ UNCHANGED <<enabled, epoch, resets>>

\* A terminal call that never reached Redis.
CallLost(p) ==
    /\ owner[p] \in {"finish", "abort"}
    /\ AfterCall(p, FALSE, "done")
    /\ UNCHANGED <<redisVars, enabled, epoch, resets>>

\* The gateway process dies: nobody renews or ends the permit any more.
Crash(p) ==
    /\ owner[p] \in {"held", "finish", "abort", "feedback"}
    /\ owner' = [owner EXCEPT ![p] = "done"]
    /\ UNCHANGED <<redisVars, enabled, epoch, tries, resets>>

\* recordRuntimeFeedback after an upstream 429: set_cooldown.lua never shortens one.
SetCooldown(p, ticks) ==
    LET c == permit[p].chan IN
    /\ owner[p] = "feedback"
    /\ cooldown' = [cooldown EXCEPT ![c] = IF ticks > @ THEN ticks ELSE @]
    /\ owner' = [owner EXCEPT ![p] = "done"]
    /\ UNCHANGED <<origin, channel, bound, control, evidence, slots, permit, rpd,
                   enabled, epoch, tries, resets>>
-----------------------------------------------------------------------------
(* What operators do meanwhile                                             *)

\* reset.lua on a channel, or on the Provider, whose evidence it drops as well.
ResetChannel(c) ==
    /\ resets < MaxResets
    /\ resets' = resets + 1
    /\ channel' = [channel EXCEPT ![c] = ResetScope(@)]
    /\ UNCHANGED <<origin, bound, control, cooldown, evidence, slots, permit, rpd,
                   enabled, epoch, owner, tries>>

ResetOrigin ==
    /\ resets < MaxResets
    /\ resets' = resets + 1
    /\ origin' = ResetScope(origin)
    /\ evidence' = NoEvidence
    /\ UNCHANGED <<channel, bound, control, cooldown, slots, permit, rpd,
                   enabled, epoch, owner, tries>>

FenceField(kind) == IF kind = "origin" THEN "originFence" ELSE "statusFence"
RevField(kind) == IF kind = "origin" THEN "originRev" ELSE "statusRev"

\* prepare_origin.lua, prepare_origin_status.lua: the fence moves for good.
PrepareFence(kind) ==
    /\ control.pending = "none"
    /\ control.originFence + control.statusFence < MaxFences + 2
    /\ control' = [control EXCEPT !.pending = kind, ![FenceField(kind)] = @ + 1]
    /\ UNCHANGED <<origin, channel, bound, cooldown, evidence, slots, permit, rpd,
                   enabled, epoch, owner, tries, resets>>

\* commit_origin(_status).lua and abort_origin(_status).lua both start the Provider afresh.
SettleFence(commit, serving) ==
    LET kind == control.pending IN
    /\ kind # "none"
    /\ serving # control.serving => commit /\ kind = "status"
    /\ control' = [control EXCEPT !.pending = "none", !.serving = serving,
                                  ![RevField(kind)] = IF commit THEN @ + 1 ELSE @]
    /\ origin' = ResetScope(origin)
    /\ evidence' = NoEvidence
    /\ UNCHANGED <<channel, bound, cooldown, slots, permit, rpd,
                   enabled, epoch, owner, tries, resets>>

(* reconcile_provider_control.lua at start-up: PostgreSQL's revisions are  *)
(* written over a pending fence; both fences move, the breaker stays.      *)
ReconcileControl(committed) ==
    LET kind == control.pending IN
    /\ kind # "none"
    /\ control.originFence + control.statusFence < MaxFences + 2
    /\ control' = [control EXCEPT !.pending = "none", ![RevField(kind)] = IF committed THEN @ + 1 ELSE @,
                                  !.originFence = @ + 1, !.statusFence = @ + 1]
    /\ UNCHANGED <<origin, channel, bound, cooldown, evidence, slots, permit, rpd,
                   enabled, epoch, owner, tries, resets>>

\* A new revision of gateway.circuit_breaker switches breaking on or off.
SwitchBreaker ==
    /\ enabled' = ~enabled
    /\ UNCHANGED <<redisVars, epoch, owner, tries, resets>>
-----------------------------------------------------------------------------
(* Time and Redis                                                          *)

\* Mutant: the members of the concurrency set never lapse.
TickKeepsSlots ==
    /\ origin' = TickScope(origin)
    /\ channel' = [c \in Channels |-> TickScope(channel[c])]
    /\ cooldown' = [c \in Channels |-> Less(cooldown[c])]
    /\ permit' = [p \in Permits |-> [permit[p] EXCEPT !.lease = Less(@)]]
    /\ UNCHANGED <<bound, control, evidence, slots, rpd, enabled, epoch, owner, tries, resets>>

Tick ==
    /\ origin' = TickScope(origin)
    /\ channel' = [c \in Channels |-> TickScope(channel[c])]
    /\ cooldown' = [c \in Channels |-> Less(cooldown[c])]
    /\ slots' = [c \in Channels |-> [p \in Permits |-> Less(slots[c][p])]]
    /\ permit' = [p \in Permits |-> [permit[p] EXCEPT !.lease = Less(@)]]
    /\ UNCHANGED <<bound, control, evidence, rpd, enabled, epoch, owner, tries, resets>>

\* The evidence sets live for one window.
EvidenceLapses ==
    /\ evidence # NoEvidence
    /\ evidence' = NoEvidence
    /\ UNCHANGED <<origin, channel, bound, control, cooldown, slots, permit, rpd,
                   enabled, epoch, owner, tries, resets>>

\* The key of a permit expires terminal_ttl_ms after its lease or its end.
PermitKeyExpires(p) ==
    /\ permit[p].kept
    /\ permit[p].status # "active" \/ permit[p].lease = 0
    /\ permit' = [permit EXCEPT ![p].kept = FALSE]
    /\ UNCHANGED <<origin, channel, bound, control, cooldown, evidence, slots, rpd,
                   enabled, epoch, owner, tries, resets>>

(* Redis comes back empty: the integrity epoch advances, the controls are  *)
(* restored from PostgreSQL, everything else starts over.                  *)
LoseState ==
    /\ epoch <= MaxLosses
    /\ epoch' = epoch + 1
    /\ origin' = FreshScope(1)
    /\ channel' = [c \in Channels |-> FreshScope(0)]
    /\ bound' = [c \in Channels |-> [config |-> 0, originRev |-> 0, statusRev |-> 0]]
    /\ control' = [control EXCEPT !.originFence = 1, !.statusFence = 1, !.pending = "none"]
    /\ cooldown' = [c \in Channels |-> 0]
    /\ evidence' = NoEvidence
    /\ slots' = [c \in Channels |-> [p \in Permits |-> 0]]
    /\ permit' = [p \in Permits |->
          IF permit[p].status = "none" THEN permit[p]
          ELSE [permit[p] EXCEPT !.status = "lost", !.kept = FALSE]]
    /\ rpd' = 0
    /\ UNCHANGED <<enabled, owner, tries, resets>>
-----------------------------------------------------------------------------
Admit(p) ==
    \E c \in Channels, m \in Models, cfg \in 1 .. MaxConfig, lost \in BOOLEAN :
        Acquire(p, c, m, cfg, lost)

FinishCall(p) ==
    \E a \in Attributions, windowOver, streakOver \in Lapses, replied \in BOOLEAN :
        Finish(p, a, windowOver, streakOver, replied)

AbortCall(p) == \E replied \in BOOLEAN : Abort(p, replied)

Feedback(p) == \E ticks \in CooldownTicks : SetCooldown(p, ticks)

OwnerStep(p) ==
    \/ Admit(p) \/ Renew(p)
    \/ BeginEnd(p, "finish") \/ BeginEnd(p, "abort")
    \/ FinishCall(p) \/ AbortCall(p) \/ CallLost(p) \/ Feedback(p) \/ Crash(p)

Operator ==
    \/ ResetOrigin \/ SwitchBreaker
    \/ \E c \in Channels : ResetChannel(c)
    \/ \E kind \in {"origin", "status"} : PrepareFence(kind)
    \/ \E commit, serving \in BOOLEAN : SettleFence(commit, serving)
    \/ \E committed \in BOOLEAN : ReconcileControl(committed)

Redis == Tick \/ EvidenceLapses \/ LoseState \/ \E p \in Permits : PermitKeyExpires(p)

Next == Operator \/ Redis \/ \E p \in Permits : OwnerStep(p)

Spec == Init /\ [][Next]_vars

(* Time passes, and an attempt ends: transport timeouts bound every        *)
(* upstream call, and the terminal call is made with its own deadline.     *)
Ends(p) ==
    BeginEnd(p, "finish") \/ BeginEnd(p, "abort") \/ FinishCall(p) \/ AbortCall(p)

Fairness == WF_vars(Tick) /\ \A p \in Permits : WF_vars(Ends(p))

LiveSpec == Spec /\ Fairness
-----------------------------------------------------------------------------
Owners == {"idle", "held", "finish", "abort", "feedback", "done"}

Breakers ==
    [state : BreakerStates, gen : Nat, openFor : Nat, level : Nat,
     holder : Permits \cup {NoPermit}, probeFor : 0 .. PermitTTL, hos : Nat,
     succ : Nat, fail : Nat, cef : Nat]

Bindings == [config : Nat, originRev : Nat, statusRev : Nat]

Controls ==
    [originRev : Nat, statusRev : Nat, originFence : Nat, statusFence : Nat,
     pending : {"none", "origin", "status"}, serving : BOOLEAN]

Attempts ==
    [status : {"none", "active", "finished", "aborted", "lost"}, kept : BOOLEAN,
     lease : 0 .. PermitTTL, gen : [Scopes -> Nat], probe : [Scopes -> BOOLEAN],
     chan : Channels, model : Models, config : Nat, originRev : Nat, statusRev : Nat,
     originFence : Nat, statusFence : Nat, epoch : Nat]

RedisTypeOK ==
    /\ origin \in Breakers
    /\ channel \in [Channels -> Breakers]
    /\ bound \in [Channels -> Bindings]
    /\ control \in Controls
    /\ cooldown \in [Channels -> Nat]
    /\ evidence \in [channels : SUBSET Channels, models : SUBSET Models]
    /\ slots \in [Channels -> [Permits -> 0 .. PermitTTL]]
    /\ permit \in [Permits -> Attempts]
    /\ rpd \in Nat

OwnerTypeOK ==
    /\ owner \in [Permits -> Owners]
    /\ tries \in [Permits -> 0 .. TerminalTries]
    /\ enabled \in BOOLEAN /\ epoch \in Nat /\ resets \in Nat

TypeOK == RedisTypeOK /\ OwnerTypeOK

(* A channel never carries more live attempts than its concurrency limit,  *)
(* whatever is renewed late, ended twice or abandoned by a dead gateway    *)
(* (gate_and_acquire.lua's count against renew.lua's extension).           *)
WithinChannelLimit ==
    ChannelLimit > 0 => \A c \in Channels : Cardinality(Live(c)) <= ChannelLimit

(* A slot is always the slot of an attempt that still has its lease, and   *)
(* lapses with it: nothing leaks when an owner dies or a reply is lost.    *)
SlotLivesWithItsLease ==
    \A c \in Channels, p \in Permits : slots[c][p] > 0 =>
        permit[p].status = "active" /\ permit[p].chan = c /\ slots[c][p] = permit[p].lease

Scope(p, s) == IF s = "origin" THEN origin ELSE channel[permit[p].chan]

CurrentFor(p, s) ==
    /\ permit[p].epoch = epoch /\ FenceCurrent(p)
    /\ s = "channel" => BindingCurrent(p)
    /\ permit[p].gen[s] = Scope(p, s).gen

(* While a probe's lease runs and no fence, binding or generation has      *)
(* moved, the probe still owns the half-open lease and keeps it as long as *)
(* its own: hence at most one probe of a scope is under way, and its       *)
(* result will count (take_probe, renew_probe, release_probe).             *)
LiveProbeOwnsTheLease ==
    \A p \in Permits, s \in Scopes :
        /\ permit[p].status = "active" /\ permit[p].lease > 0
        /\ permit[p].probe[s] /\ CurrentFor(p, s)
        => /\ Scope(p, s).state = "half_open"
           /\ Scope(p, s).holder = p
           /\ Scope(p, s).probeFor = permit[p].lease

\* The finished attempts of a breaker's own generation, binding and epoch.
OriginCounted ==
    {p \in Permits : /\ permit[p].status = "finished" /\ permit[p].epoch = epoch
                     /\ permit[p].gen["origin"] = origin.gen}

ChannelCounted(c) ==
    {p \in Permits :
        /\ permit[p].status = "finished" /\ permit[p].epoch = epoch /\ permit[p].chan = c
        /\ permit[p].gen["channel"] = channel[c].gen /\ BindingCurrent(p)}

(* The window of a closed breaker counts distinct finished attempts, all   *)
(* admitted in its own generation, binding and epoch: no retry counts      *)
(* twice, no result of an older generation or configuration counts at all. *)
WindowCountsItsOwn ==
    /\ origin.state = "closed" => origin.succ + origin.fail <= Cardinality(OriginCounted)
    /\ \A c \in Channels : channel[c].state = "closed" =>
          channel[c].succ + channel[c].fail <= Cardinality(ChannelCounted(c))

(* The attribution bucket counts every attempt that reached an upstream    *)
(* once, however often Finish is repeated.                                 *)
AttributedOnce == rpd = Cardinality({p \in Permits : permit[p].status = "finished"})

(* Permits are leases: the limit holds, a slot lives exactly as long as its  *)
(* permit and a half-open probe exactly as long as its own.                *)
PermitsAreLeased ==
    TypeOK /\ WithinChannelLimit /\ SlotLivesWithItsLease /\ LiveProbeOwnsTheLease

(* Every outcome counts once, and only where it belongs.                   *)
OutcomesCountOnce == AttributedOnce /\ WindowCountsItsOwn

\* Seen from outside, the channels' concurrency sets are pools of leased tickets.
Pool == INSTANCE LeasePool WITH
    Pools <- Channels, Tickets <- Permits, Limit <- ChannelLimit,
    out <- [c \in Channels |-> Live(c)],
    used <- {p \in Permits : permit[p].status # "none"}

(* The concurrency sets implement the lease pools: admitted within the     *)
(* limit, each permit once, and never counted again after it came back.    *)
ChannelsAreLeasePools == Pool!PoolSpec

(* Slots and probes come back: after a crash, a lost reply or a moved fence *)
(* no channel stays full and no half-open breaker stays busy.               *)
ResourcesComeBack ==
    \A p \in Permits :
        /\ \A c \in Channels : []<>(slots[c][p] = 0)
        /\ []<>(origin.probeFor = 0 \/ origin.holder # p)
        /\ \A c \in Channels : []<>(channel[c].probeFor = 0 \/ channel[c].holder # p)
=============================================================================
