--------------------------- MODULE CredentialGate ---------------------------
(***************************************************************************)
(* The credential of one channel and the two judges of it.  Each gateway   *)
(* counts the consecutive 401s of the channel and marks the credential     *)
(* invalid in PostgreSQL in the background; probes (manual, scheduled, or  *)
(* right after a rotation) mark it valid or invalid.  Both carry the       *)
(* revisions their evidence was gained on, and the row takes a verdict     *)
(* only at those revisions.  Answers of upstream arrive in any order and   *)
(* long after the revisions have moved on.                                 *)
(***************************************************************************)
EXTENDS Naturals, FiniteSets

CONSTANTS
    Gateways, Probes, Credentials,
    Threshold,      \* gateway.credential_401_threshold
    NoRev, NoCred,
    MaxInFlight,    \* bound: attempts in flight at once
    MaxEdits,       \* bound: rotations and other configuration changes
    MaxProbes,      \* bound: manual and scheduled probes
    MaxFaults       \* bound: lost invalidations, failed probes, gateway restarts

GateAssumption ==
    /\ Threshold \in Nat \ {0} /\ NoCred \notin Credentials
    /\ {MaxInFlight, MaxEdits, MaxProbes, MaxFaults} \subseteq Nat

VARIABLES
    channel,      \* the row: credential, whether it is held valid, summary, revision
    origin,       \* the provider's origin and status revision
    rejected,     \* the credentials upstream answers 401 for
    gate,         \* the counter of each gateway
    attempts,     \* attempts in flight, with what they froze
    marking,      \* the invalidation each gateway has under way
    probe,        \* the probes
    edits, probes, faults,
    streak,       \* history: 401s of each revision a gateway recorded since a success
    verdict,      \* history: the evidence behind channel.valid and channel.tested
    unseen        \* history: the probes begun since the standing last changed

row == <<channel, origin>>
gateway == <<gate, attempts, marking>>
bounds == <<edits, probes, faults>>
vars == <<row, rejected, gateway, probe, bounds, streak, verdict, unseen>>

Configs == 1 .. 1 + MaxEdits + 2 * (MaxEdits + MaxProbes) + 1
Revs == [config : Configs, origin : 1 .. 1 + MaxEdits]
Evidence == [cred : Credentials \cup {NoCred}, ok : BOOLEAN]
Idle == [pc |-> "idle", rev |-> NoRev, cred |-> NoCred, result |-> "none"]

Current == [config |-> channel.config, origin |-> origin]

TypeOK ==
    /\ channel \in [cred : Credentials, valid : BOOLEAN, config : Configs,
                    tested : {"none", "ok", "failed"}]
    /\ origin \in 1 .. 1 + MaxEdits /\ rejected \subseteq Credentials
    /\ gate \in [Gateways -> {NoRev} \cup [rev : Revs, count : 0 .. Threshold - 1]]
    /\ attempts \subseteq [gateway : Gateways, rev : Revs, cred : Credentials, n : 1 .. MaxInFlight]
    /\ marking \in [Gateways -> Revs \cup {NoRev}]
    /\ probe \in [Probes -> [pc : {"idle", "probing", "applying"}, rev : Revs \cup {NoRev},
                             cred : Credentials \cup {NoCred},
                             result : {"none", "ok", "unauthorized", "other"}]]
    /\ unseen \subseteq Probes /\ verdict \in [valid : Evidence, tested : Evidence]
    /\ edits \in 0 .. MaxEdits /\ probes \in 0 .. MaxProbes /\ faults \in 0 .. MaxFaults

\* A new channel is held valid before anything has tested it.
Init ==
    /\ \E c \in Credentials : channel = [cred |-> c, valid |-> TRUE, config |-> 1, tested |-> "none"]
    /\ origin = 1 /\ rejected \in SUBSET Credentials
    /\ gate = [g \in Gateways |-> NoRev] /\ attempts = {}
    /\ marking = [g \in Gateways |-> NoRev] /\ probe = [p \in Probes |-> Idle]
    /\ edits = 0 /\ probes = 0 /\ faults = 0
    /\ streak = [g \in Gateways |-> [r \in Revs |-> 0]]
    /\ verdict = [valid |-> [cred |-> channel.cred, ok |-> TRUE],
                  tested |-> [cred |-> NoCred, ok |-> TRUE]]
    /\ unseen = {}

\* What upstream may answer to a credential; anything else can go wrong too.
Answers(c) == {"other", IF c \in rejected THEN "unauthorized" ELSE "ok"}

(***************************************************************************)
(* The gateways.                                                           *)
(***************************************************************************)

\* A candidate is read whole, and only while its credential is held valid.
BeginAttempt(g) ==
    /\ channel.valid
    /\ \E n \in 1 .. MaxInFlight :
           /\ \A a \in attempts : a.n # n
           /\ attempts' = attempts \cup {[gateway |-> g, rev |-> Current, cred |-> channel.cred, n |-> n]}
    /\ UNCHANGED <<row, rejected, gate, marking, probe, bounds, streak, verdict, unseen>>

\* Mutant: the revision it counts for is refused as well.
NotNewer(r, s) == r.config <= s.config \/ r.origin < s.origin

Older(r, s) == r.config < s.config \/ r.origin < s.origin

\* Mutant: the count survives a change of the revision.
CountedOnAny(g, r) == IF gate[g] = NoRev THEN 0 ELSE gate[g].count

\* A new revision starts to count again.
Counted(g, r) == IF gate[g] # NoRev /\ gate[g].rev = r THEN gate[g].count ELSE 0

Accepts(g, r) == gate[g] = NoRev \/ ~Older(r, gate[g].rev)

SetGate(g, r, n) == gate' = [gate EXCEPT ![g] = [rev |-> r, count |-> n]]

\* Mutant: the threshold is passed, not reached.
ReachesLate(g, r) == Counted(g, r) >= Threshold

Reaches(g, r) == Counted(g, r) + 1 >= Threshold

\* MarkChannelCredentialInvalid: one at a time for a channel, else it is dropped.
StartMarking(g, r) ==
    marking' = IF marking[g] = NoRev THEN [marking EXCEPT ![g] = r] ELSE marking

RecordSuccess(a) ==
    /\ "ok" \in Answers(a.cred)
    /\ IF Accepts(a.gateway, a.rev) THEN SetGate(a.gateway, a.rev, 0) ELSE UNCHANGED gate
    /\ streak' = [streak EXCEPT ![a.gateway][a.rev] = 0]
    /\ UNCHANGED marking

Record401(a) ==
    /\ "unauthorized" \in Answers(a.cred)
    /\ IF Accepts(a.gateway, a.rev)
       THEN IF Reaches(a.gateway, a.rev)
            THEN SetGate(a.gateway, a.rev, 0) /\ StartMarking(a.gateway, a.rev)
            ELSE SetGate(a.gateway, a.rev, Counted(a.gateway, a.rev) + 1) /\ UNCHANGED marking
       ELSE UNCHANGED <<gate, marking>>
    /\ streak' = [streak EXCEPT ![a.gateway][a.rev] = IF @ < Threshold THEN @ + 1 ELSE @]

\* Another failure neither counts nor clears.
RecordOther(a) ==
    /\ IF Accepts(a.gateway, a.rev)
       THEN SetGate(a.gateway, a.rev, Counted(a.gateway, a.rev)) ELSE UNCHANGED gate
    /\ UNCHANGED <<marking, streak>>

EndAttempt(a) ==
    /\ a \in attempts /\ attempts' = attempts \ {a}
    /\ RecordSuccess(a) \/ Record401(a) \/ RecordOther(a)
    /\ UNCHANGED <<row, rejected, probe, bounds, verdict, unseen>>

\* Mutant: the verdict is taken at any revision.
AtAnyRevision(r) == TRUE

AtRevision(r) == r = Current

\* ApplyRuntime401CredentialInvalidation.
Invalidate(g) ==
    /\ marking[g] # NoRev /\ marking' = [marking EXCEPT ![g] = NoRev]
    /\ IF AtRevision(marking[g]) /\ channel.valid
       THEN /\ channel' = [channel EXCEPT !.valid = FALSE, !.config = @ + 1]
            /\ verdict' = [verdict EXCEPT !.valid = [cred |-> channel.cred, ok |-> FALSE]]
            /\ unseen' = {}
       ELSE UNCHANGED <<channel, verdict, unseen>>
    /\ UNCHANGED <<origin, rejected, gate, attempts, probe, bounds, streak>>

InvalidationFails(g) ==
    /\ faults < MaxFaults /\ faults' = faults + 1
    /\ marking[g] # NoRev /\ marking' = [marking EXCEPT ![g] = NoRev]
    /\ UNCHANGED <<row, rejected, gate, attempts, probe, edits, probes, streak, verdict, unseen>>

\* The counter, the attempts and the marking are the process's own.
GatewayRestarts(g) ==
    /\ faults < MaxFaults /\ faults' = faults + 1
    /\ gate' = [gate EXCEPT ![g] = NoRev] /\ marking' = [marking EXCEPT ![g] = NoRev]
    /\ attempts' = {a \in attempts : a.gateway # g}
    /\ streak' = [streak EXCEPT ![g] = [r \in Revs |-> 0]]
    /\ UNCHANGED <<row, rejected, probe, edits, probes, verdict, unseen>>

(***************************************************************************)
(* The probes and the administrator.                                       *)
(***************************************************************************)
StartProbe(p, rev, cred) ==
    /\ probe' = [probe EXCEPT ![p] = [pc |-> "probing", rev |-> rev, cred |-> cred, result |-> "none"]]
    /\ unseen' = {p} \cup (IF channel'.valid = channel.valid THEN unseen ELSE {})

\* Test: the snapshot is one read; the probe runs on it.
BeginTest(p) ==
    /\ probes < MaxProbes /\ probes' = probes + 1
    /\ probe[p] = Idle /\ UNCHANGED channel /\ StartProbe(p, Current, channel.cred)
    /\ UNCHANGED <<origin, rejected, gateway, edits, faults, streak, verdict>>

\* PrepareChannelCredentialRotation: a real change starts over as invalid.
Rotated(c) ==
    channel' = IF c = channel.cred THEN channel
               ELSE [channel EXCEPT !.cred = c, !.valid = FALSE, !.tested = "none", !.config = @ + 1]

\* RotateCredentialAndTest: unless nothing changed and all was well, the saved
\* credential is probed at once, at the revision that saved it.
Rotate(p) ==
    /\ edits < MaxEdits /\ edits' = edits + 1
    /\ probe[p] = Idle
    /\ \E c \in Credentials : Rotated(c)
    /\ IF channel'.cred = channel.cred /\ channel.valid
       THEN UNCHANGED <<probe, unseen>>
       ELSE StartProbe(p, [config |-> channel'.config, origin |-> origin], channel'.cred)
    /\ UNCHANGED <<origin, rejected, gateway, probes, faults, streak, verdict>>

\* executeProbe.  A 401 is credential_invalid.
Probed(p) ==
    /\ probe[p].pc = "probing"
    /\ \E r \in Answers(probe[p].cred) :
           probe' = [probe EXCEPT ![p].pc = "applying", ![p].result = r]
    /\ UNCHANGED <<row, rejected, gateway, bounds, streak, verdict, unseen>>

\* Accounting fails, the store fails or the process dies: nothing is applied.
ProbeFails(p) ==
    /\ faults < MaxFaults /\ faults' = faults + 1
    /\ probe[p] # Idle /\ probe' = [probe EXCEPT ![p] = Idle]
    /\ UNCHANGED <<row, rejected, gateway, edits, probes, streak, verdict, unseen>>

\* Mutant: only a rotation or an edit moves the revision.
RevisionKept(valid) == channel.config

RevisionAfter(valid) == IF valid = channel.valid THEN channel.config ELSE channel.config + 1

\* ApplyChannelProbeResult: a success or a 401 decides, any result is the
\* channel's summary; the revision moves only when the standing changes.
Apply(p) ==
    /\ probe[p].pc = "applying" /\ probe' = [probe EXCEPT ![p] = Idle]
    /\ IF ~AtRevision(probe[p].rev)
       THEN UNCHANGED <<channel, verdict, unseen>>
       ELSE LET r == probe[p].result
                valid == IF r = "other" THEN channel.valid ELSE r = "ok"
                here == [cred |-> probe[p].cred, ok |-> r = "ok"] IN
            /\ channel' = [channel EXCEPT !.valid = valid,
                               !.tested = IF r = "ok" THEN "ok" ELSE "failed",
                               !.config = RevisionAfter(valid)]
            /\ verdict' = [valid |-> IF r = "other" THEN verdict.valid ELSE here, tested |-> here]
            /\ unseen' = IF valid = channel.valid THEN unseen ELSE {}
    /\ UNCHANGED <<origin, rejected, gateway, bounds, streak>>

\* UpdateChannel and the provider's publisher.
Configure ==
    /\ edits < MaxEdits /\ edits' = edits + 1
    /\ \/ channel' = [channel EXCEPT !.config = @ + 1] /\ UNCHANGED origin
       \/ origin' = origin + 1 /\ UNCHANGED channel
    /\ UNCHANGED <<rejected, gateway, probe, probes, faults, streak, verdict, unseen>>

\* Upstream revokes a credential, or takes it again.
Revoke ==
    /\ edits < MaxEdits /\ edits' = edits + 1
    /\ \E c \in Credentials :
           rejected' = IF c \in rejected THEN rejected \ {c} ELSE rejected \cup {c}
    /\ UNCHANGED <<row, gateway, probe, probes, faults, streak, verdict, unseen>>

Next ==
    \/ \E g \in Gateways :
           BeginAttempt(g) \/ Invalidate(g) \/ InvalidationFails(g) \/ GatewayRestarts(g)
    \/ \E a \in attempts : EndAttempt(a)
    \/ \E p \in Probes : BeginTest(p) \/ Rotate(p) \/ Probed(p) \/ ProbeFails(p) \/ Apply(p)
    \/ Configure \/ Revoke

Spec == Init /\ [][Next]_vars

\* Requests keep coming to one gateway and end, some of them with the answer
\* upstream gives to the credential; the marking has a timeout of its own.
EndsWithAnswer ==
    \E a \in attempts :
        /\ attempts' = attempts \ {a} /\ EndAttempt(a)
        /\ RecordSuccess(a) \/ Record401(a)

Fairness ==
    /\ \A g \in Gateways : WF_vars(BeginAttempt(g)) /\ WF_vars(Invalidate(g))
    /\ WF_vars(\E a \in attempts : EndAttempt(a)) /\ SF_vars(EndsWithAnswer)

LiveSpec == Spec /\ Fairness

(***************************************************************************)
(* What the two judges promise together.                                   *)
(***************************************************************************)

\* The standing of the channel and its last test summary speak of the
\* credential it has now: no late verdict on an earlier credential decides
\* about the next (the revisions of ApplyChannelProbeResult and of
\* ApplyRuntime401CredentialInvalidation).
StandingIsOfTheCredential ==
    /\ channel.valid => verdict.valid.cred = channel.cred /\ verdict.valid.ok
    /\ channel.tested # "none" =>
           /\ verdict.tested.cred = channel.cred
           /\ verdict.tested.ok <=> channel.tested = "ok"

\* A gateway asks for an invalidation only behind an unbroken streak of 401s of
\* one revision: answers of different revisions never add up, and a late
\* success of an older revision saves nothing ("late 401 may invalidate only
\* while all three revisions are still current").
OnlyAStreakInvalidates ==
    [][\A g \in Gateways :
           marking[g] = NoRev /\ marking'[g] # NoRev => streak'[g][marking'[g]] >= Threshold]_vars

\* Only evidence gained after the channel was taken out of routing brings it
\* back: a success measured before the 401s that took it out is stale, also when
\* nothing but the standing itself has changed in between.
OnlyLaterEvidenceRestores ==
    [][~channel.valid /\ channel'.valid =>
           \E p \in unseen : probe[p].pc = "applying" /\ probe'[p] = Idle]_vars

\* While requests keep coming and upstream keeps refusing the credential, it is
\* taken out of routing, whatever invalidations were dropped, lost or stale.
RejectedIsTakenOut ==
    []<>(~channel.valid \/ channel.cred \notin rejected)
=============================================================================
