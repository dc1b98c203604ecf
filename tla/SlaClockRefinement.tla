------------------------- MODULE SlaClockRefinement -------------------------
(* The hook, the queue and the worker implement the escalation ladder, with
   one evaluation of the job at a time; everything but the job's SLA state,
   its Escalation rows and the announcement is hidden. *)
EXTENDS SlaClock

Ladder == INSTANCE EscalationLadder
  WITH slaState <- slaState, escalation <- escalation, announced <- announced

\* However an evaluation is armed, retried, stalled, handed out again or met by
\* its own row, readers of the job see one warning and one breach at most, in
\* the order they are evaluated, a state that never steps back, and no
\* announcement before the breach is on record (worker/handlers/sla-check.js).
ImplementsEscalationLadder == Ladder!Spec
=============================================================================
