-------------------------- MODULE MCAttemptPermit --------------------------
(* Instances of AttemptPermit: permits are interchangeable.                *)
EXTENDS AttemptPermit, TLC

Durations == <<1, 2>>
OneDuration == <<1>>
PermitSymmetry == Permutations(Permits)

(* Earlier attempts may have opened a breaker, so that two permits of the  *)
(* instance are enough for a probe and a second probe after it.            *)
Opened == [FreshScope(1) EXCEPT !.state = "open", !.level = 1]

InitAfterFailures ==
    \/ Init
    \/ \E scope \in Scopes :
         /\ origin = IF scope = "origin" THEN Opened ELSE FreshScope(1)
         /\ channel = [c \in Channels |-> IF scope = "channel" THEN Opened ELSE FreshScope(1)]
         /\ bound = [c \in Channels |-> [config |-> 1, originRev |-> 1, statusRev |-> 1]]
         /\ control = [originRev |-> 1, statusRev |-> 1, originFence |-> 1,
                       statusFence |-> 1, pending |-> "none", serving |-> TRUE]
         /\ enabled = TRUE
         /\ cooldown = [c \in Channels |-> 0]
         /\ evidence = NoEvidence
         /\ slots = [c \in Channels |-> [p \in Permits |-> 0]]
         /\ permit = [p \in Permits |-> NoAttempt]
         /\ rpd = 0
         /\ epoch = 1
         /\ owner = [p \in Permits |-> "idle"]
         /\ tries = [p \in Permits |-> TerminalTries]
         /\ resets = 0

\* Bound: at a time one fence, reset, loss, new configuration, breaker switched
\* off or call under repetition.
OneDisturbance == \A c \in Channels :
    (control.originFence - 1) + (control.statusFence - 1) + resets + (epoch - 1)
        + (IF bound[c].config > 1 THEN 1 ELSE 0) + (IF enabled THEN 0 ELSE 1)
        + Cardinality({p \in Permits : tries[p] \in 1 .. TerminalTries - 1 /\ owner[p] # "done"}) <= 1

SpecAfterFailures == InitAfterFailures /\ [][Next]_vars
=============================================================================
