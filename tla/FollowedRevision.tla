-------------------------- MODULE FollowedRevision --------------------------
(***************************************************************************)
(* What a published revision promises its readers: PostgreSQL decides, the *)
(* control in Redis follows.  The active revision is never one that is not *)
(* durable and never goes back; only after a loss of the control may it    *)
(* come back older than it was.                                            *)
(***************************************************************************)
EXTENDS Naturals

VARIABLES
    durable,  \* the revision committed in PostgreSQL
    active,   \* the last revision Redis activated
    present   \* whether Redis has the control at all

followVars == <<durable, active, present>>

FollowInit == durable = 1 /\ active = 1 /\ present = TRUE

Decide == durable' = durable + 1 /\ UNCHANGED <<active, present>>

Follow ==
    /\ active' \in (IF present THEN active ELSE 1) .. durable
    /\ present' = TRUE
    /\ UNCHANGED durable

Lose == present' = FALSE /\ UNCHANGED <<durable, active>>

FollowNext == Decide \/ Follow \/ Lose

FollowSpec == FollowInit /\ [][FollowNext]_followVars
=============================================================================
