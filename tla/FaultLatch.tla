----------------------------- MODULE FaultLatch -----------------------------
(***************************************************************************)
(* The runtime infrastructure fault latch.  A gateway whose Redis call     *)
(* fails latches itself shut and publishes a token under a shared key; a   *)
(* Redis instance nobody has reconciled since it started (its run id is    *)
(* not the one the proof key holds) shuts everyone out.  Only a full       *)
(* reconciliation pass opens the gate again: it freezes the generations    *)
(* it saw, rebuilds the controls, has a script check them and store the    *)
(* proof, and compares and deletes the token.  The pass itself is          *)
(* ProviderControl's and RuntimeControl's; here it is one step.            *)
(***************************************************************************)
EXTENDS Naturals, FiniteSets

CONSTANTS
    Gateways,
    NoToken,      \* the latch key is absent
    MaxFaults,    \* bound: calls that fail, are lost or late; crashes
    MaxLosses,    \* bound: Redis restarts and flushes
    MaxGen        \* bound: fault generations of a gateway

LatchAssumption ==
    MaxFaults \in Nat /\ MaxLosses \in Nat /\ MaxGen \in Nat

VARIABLES
    run,       \* the Redis instance
    latch,     \* the shared fault token
    proof,     \* the instance the last complete pass proved
    sound,     \* whether Redis holds the marker and every control of PostgreSQL
    fault,     \* the local latch of each gateway
    pass,      \* the reconciliation pass of each gateway
    serving,   \* whether the gateway has started up
    inflight,  \* publications Redis may still run after their timeout
    faults,    \* calls gone wrong so far
    unseen     \* history: whether the pass in hand began after the last fault

shared == <<run, latch, proof, sound>>
vars == <<shared, fault, pass, serving, inflight, faults, unseen>>

Tokens == [by : Gateways, gen : 1 .. MaxGen]
Idle == [pc |-> "idle", gen |-> 0, token |-> NoToken, run |-> 0]

TypeOK ==
    /\ run \in 1 .. MaxLosses + 1 /\ proof \in 0 .. MaxLosses + 1 /\ sound \in BOOLEAN
    /\ latch \in Tokens \cup {NoToken}
    /\ fault \in [Gateways -> [gen : 0 .. MaxGen, latched : BOOLEAN]]
    /\ pass \in [Gateways -> [pc : {"idle", "local", "begun", "passed", "verified"},
                              gen : 0 .. MaxGen, token : Tokens \cup {NoToken},
                              run : 0 .. MaxLosses + 1]]
    /\ serving \in [Gateways -> BOOLEAN] /\ unseen \in [Gateways -> BOOLEAN]
    /\ inflight \subseteq [kind : {"set", "setnx"}, token : Tokens]
    /\ faults \in 0 .. MaxFaults

\* A namespace nobody has started on: no controls, no proof, no latch.
Init ==
    /\ run = 1 /\ latch = NoToken /\ proof = 0 /\ sound = FALSE
    /\ fault = [g \in Gateways |-> [gen |-> 0, latched |-> FALSE]]
    /\ pass = [g \in Gateways |-> Idle] /\ serving = [g \in Gateways |-> FALSE]
    /\ inflight = {} /\ faults = 0 /\ unseen = [g \in Gateways |-> TRUE]

Token(g) == [by |-> g, gen |-> fault[g].gen]

(***************************************************************************)
(* The local latch and its publication.                                    *)
(***************************************************************************)
Put(kind, tok) == latch' = IF kind = "setnx" /\ latch # NoToken THEN latch ELSE tok

\* A new fault replaces the token; a historical one only fills an absent key.
\* The publication has a timeout and its error is dropped.
Publish(kind, tok) ==
    \/ Put(kind, tok) /\ UNCHANGED <<inflight, faults>>
    \/ /\ faults < MaxFaults /\ faults' = faults + 1 /\ UNCHANGED latch
       /\ inflight' \in {inflight, inflight \cup {[kind |-> kind, token |-> tok]}}

\* A gateway that is starting up exits: its token stays, its latch goes with it.
Latched(g) == [fault EXCEPT ![g] = [gen |-> @.gen + 1, latched |-> serving[g]]]

\* latchRuntimeInfrastructureFault: always a new generation.  left is what the
\* shared latch may hold if the publication is lost.
LatchFault(g, left) ==
    /\ fault[g].gen < MaxGen
    /\ fault' = Latched(g) /\ unseen' = [unseen EXCEPT ![g] = FALSE]
    /\ LET tok == [by |-> g, gen |-> fault[g].gen + 1] IN
         \/ Put("set", tok) /\ UNCHANGED inflight
         \/ inflight' \in {inflight, inflight \cup {[kind |-> "set", token |-> tok]}} /\ latch' \in left

\* ensureRuntimeInfrastructureFault: a new generation only if none is latched.
EnsureFault(g) ==
    IF fault[g].latched
    THEN Publish("setnx", Token(g)) /\ UNCHANGED fault
    ELSE /\ fault[g].gen < MaxGen /\ fault' = Latched(g)
         /\ Publish("set", [by |-> g, gen |-> fault[g].gen + 1])

\* A Redis call of a request fails.
RequestFault(g) ==
    /\ serving[g] /\ faults < MaxFaults /\ faults' = faults + 1
    /\ LatchFault(g, {latch})
    /\ UNCHANGED <<run, proof, sound, pass, serving>>

\* A request finds its gateway latched and publishes the token again, or finds
\* an instance nobody has proved and latches.
Request(g) ==
    /\ serving[g]
    /\ \/ fault[g].latched /\ Publish("setnx", Token(g)) /\ UNCHANGED fault
       \/ ~fault[g].latched /\ proof # run /\ EnsureFault(g)
    /\ UNCHANGED <<run, proof, sound, pass, serving, unseen>>

(***************************************************************************)
(* The reconciliation pass.                                                *)
(***************************************************************************)
GoTo(g, pc) == pass' = [pass EXCEPT ![g].pc = pc]

\* The pass ends without clearing; a gateway that was starting up exits.
GiveUp(g) == pass' = [pass EXCEPT ![g] = Idle]

\* The local half of a pass that publishes whether or not anything is latched.
BeginLocalAlways(g) ==
    /\ pass[g].pc = "idle" /\ Publish("setnx", Token(g))
    /\ pass' = [pass EXCEPT ![g].pc = "local", ![g].gen = fault[g].gen]
    /\ unseen' = [unseen EXCEPT ![g] = TRUE]
    /\ UNCHANGED <<run, proof, sound, fault, serving>>

\* BeginRuntimeReconciliation, its local half: publish what is latched and
\* freeze the local generation.
BeginLocal(g) ==
    /\ pass[g].pc = "idle"
    /\ IF fault[g].latched THEN Publish("setnx", Token(g)) ELSE UNCHANGED <<latch, inflight, faults>>
    /\ pass' = [pass EXCEPT ![g].pc = "local", ![g].gen = fault[g].gen]
    /\ unseen' = [unseen EXCEPT ![g] = TRUE]
    /\ UNCHANGED <<run, proof, sound, fault, serving>>

\* Its script: the instance and the shared token.
BeginRead(g) ==
    /\ pass[g].pc = "local"
    /\ pass' = [pass EXCEPT ![g].pc = "begun", ![g].run = run, ![g].token = latch]
    /\ UNCHANGED <<shared, fault, serving, inflight, faults, unseen>>

\* reconcileAllRuntimeControls and captureRuntimeReconciliationProof.
Reconcile(g) ==
    /\ pass[g].pc = "begun" /\ sound' = TRUE /\ GoTo(g, "passed")
    /\ UNCHANGED <<run, latch, proof, fault, serving, inflight, faults, unseen>>

\* runtime_fault_clear_commit.lua, without the check of the controls.
VerifiesBlindly(g) == run = pass[g].run /\ latch = pass[g].token

\* runtime_fault_clear_proof.lua and runtime_fault_clear_commit.lua: the same
\* instance, the same token, the marker and every control as PostgreSQL has them.
Verifies(g) == run = pass[g].run /\ latch = pass[g].token /\ sound

\* The scripts store the proof, or the pass ends; on a changed instance the
\* gateway latches.
Commit(g) ==
    /\ pass[g].pc = "passed"
    /\ IF Verifies(g)
       THEN proof' = run /\ GoTo(g, "verified") /\ UNCHANGED <<latch, fault, inflight, faults>>
       ELSE /\ UNCHANGED proof
            /\ GiveUp(g)
            /\ IF run # pass[g].run THEN EnsureFault(g) ELSE UNCHANGED <<fault, latch, inflight, faults>>
    /\ UNCHANGED <<run, sound, serving, unseen>>

\* runtime_fault_latch_delete.lua
Deletable(g) == run = pass[g].run /\ proof = run /\ latch \in {pass[g].token, NoToken}

\* A fault found while the pass ran, by its generation.
LocalFaultChanged(g) == fault[g].latched /\ fault[g].gen # pass[g].gen

\* deleteRuntimeInfrastructureFaultIfLocalGeneration, without the generation.
DeleteAnyGeneration(g) ==
    /\ pass[g].pc = "verified"
    /\ IF Deletable(g)
       THEN /\ latch' = NoToken /\ fault' = [fault EXCEPT ![g].latched = FALSE]
            /\ serving' = [serving EXCEPT ![g] = TRUE] /\ pass' = [pass EXCEPT ![g] = Idle]
            /\ UNCHANGED <<inflight, faults>>
       ELSE GiveUp(g) /\ UNCHANGED <<latch, fault, serving, inflight, faults>>
    /\ UNCHANGED <<run, proof, sound, unseen>>

\* The delete that leaves the local latch as it is.
DeleteSharedOnly(g) ==
    /\ pass[g].pc = "verified" /\ GiveUp(g)
    /\ IF ~LocalFaultChanged(g) /\ Deletable(g)
       THEN latch' = NoToken /\ serving' = [serving EXCEPT ![g] = TRUE]
       ELSE UNCHANGED <<latch, serving>>
    /\ UNCHANGED <<run, proof, sound, fault, inflight, faults, unseen>>

\* deleteRuntimeInfrastructureFaultIfLocalGeneration, under the local lock: the
\* token goes, the local latch with it, and a gateway starting up starts to serve.
Delete(g) ==
    /\ pass[g].pc = "verified"
    /\ IF ~LocalFaultChanged(g) /\ Deletable(g)
       THEN /\ latch' = NoToken /\ fault' = [fault EXCEPT ![g].latched = FALSE]
            /\ serving' = [serving EXCEPT ![g] = TRUE] /\ pass' = [pass EXCEPT ![g] = Idle]
            /\ UNCHANGED <<inflight, faults>>
       ELSE /\ UNCHANGED serving
            /\ GiveUp(g)
            /\ CASE ~LocalFaultChanged(g) /\ run # pass[g].run -> EnsureFault(g)
                 [] fault[g].latched /\ (LocalFaultChanged(g) \/ run = pass[g].run) ->
                        Publish("setnx", Token(g)) /\ UNCHANGED fault
                 [] OTHER -> UNCHANGED <<latch, inflight, faults, fault>>
    /\ UNCHANGED <<run, proof, sound, unseen>>

\* A Redis call of the pass fails and the gateway latches; the script may have
\* run: its proof is stored, or its token deleted, and the gateway does not know.
PassFault(g) ==
    /\ pass[g].pc # "idle" /\ faults < MaxFaults /\ faults' = faults + 1
    /\ GiveUp(g)
    /\ proof' \in IF pass[g].pc = "passed" /\ Verifies(g) THEN {proof, run} ELSE {proof}
    /\ LatchFault(g, IF pass[g].pc = "verified" /\ ~LocalFaultChanged(g) /\ Deletable(g)
                       THEN {latch, NoToken} ELSE {latch})
    /\ UNCHANGED <<run, sound, serving>>

\* PostgreSQL fails the pass: it ends, and nothing is latched.
PassFails(g) ==
    /\ pass[g].pc \in {"begun", "passed"} /\ faults < MaxFaults /\ faults' = faults + 1
    /\ GiveUp(g)
    /\ UNCHANGED <<shared, fault, serving, inflight, unseen>>

(***************************************************************************)
(* The surroundings.                                                       *)
(***************************************************************************)
\* Redis reaches a publication after its timeout.
RunInflight ==
    \E op \in inflight :
        /\ Put(op.kind, op.token) /\ inflight' = inflight \ {op}
        /\ UNCHANGED <<run, proof, sound, fault, pass, serving, faults, unseen>>

\* The process dies; the next one has a new instance id.
Crash(g) ==
    /\ faults < MaxFaults /\ faults' = faults + 1
    /\ serving[g] \/ pass[g].pc # "idle"
    /\ serving' = [serving EXCEPT ![g] = FALSE] /\ pass' = [pass EXCEPT ![g] = Idle]
    /\ fault' = [fault EXCEPT ![g].latched = FALSE]
    /\ UNCHANGED <<shared, inflight, unseen>>

\* A new Redis instance: it may have lost anything it held.
Restart ==
    /\ run <= MaxLosses /\ run' = run + 1
    /\ latch' \in {latch, NoToken} /\ proof' \in {proof, 0} /\ sound' \in {sound, FALSE}
    /\ UNCHANGED <<fault, pass, serving, inflight, faults, unseen>>

\* The instance stays and loses everything.
Flush ==
    /\ faults < MaxFaults /\ faults' = faults + 1
    /\ latch' = NoToken /\ proof' = 0 /\ sound' = FALSE
    /\ UNCHANGED <<run, fault, pass, serving, inflight, unseen>>

Pass(g) == BeginLocal(g) \/ BeginRead(g) \/ Reconcile(g) \/ Commit(g) \/ Delete(g)

Next ==
    \/ \E g \in Gateways : Pass(g) \/ PassFault(g) \/ PassFails(g) \/ Crash(g) \/ RequestFault(g) \/ Request(g)
    \/ RunInflight \/ Restart \/ Flush

Spec == Init /\ [][Next]_vars

\* The reconciler's ticker never stops and start-ups are tried again; what Redis
\* received it runs.
Fairness == WF_vars(RunInflight) /\ \A g \in Gateways : WF_vars(Pass(g))

LiveSpec == Spec /\ Fairness

(***************************************************************************)
(* Properties.                                                             *)
(***************************************************************************)
\* Redis says "proved" of an instance only while it holds the marker and every
\* control of PostgreSQL, whatever was lost, restarted or cleared by whom.
ProvedIsSound == proof = run => sound

\* A gateway that found a fault stays shut until a pass that began after the
\* fault has succeeded: a fault found in the middle of a pass is never cleared
\* by it, up to the last lock (deleteRuntimeInfrastructureFaultIfLocalGeneration).
FaultOutlivesOlderPass ==
    [][\A g \in Gateways :
         serving[g] /\ serving'[g] /\ fault[g].latched /\ ~fault'[g].latched => unseen[g]]_vars

\* The gate is open to a gateway.
Open(g) == serving[g] /\ ~fault[g].latched /\ latch = NoToken /\ proof = run

\* Once calls stop failing every gateway is let in again and again.
GateReopens == \A g \in Gateways : []<>Open(g)

=============================================================================
