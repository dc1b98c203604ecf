-------------------------- MODULE EscalationLadder --------------------------
(***************************************************************************)
(* What the SLA evaluations of one job promise its readers: each threshold *)
(* is escalated at most once, in either order, together with the state it  *)
(* leads to; the state never steps back; and a breach is announced after   *)
(* it is on record.  There are no queue, no worker and no redelivery.      *)
(***************************************************************************)
VARIABLES slaState, escalation, announced

vars == <<slaState, escalation, announced>>

Init == slaState = "OK" /\ escalation = {} /\ announced = FALSE

Record(threshold, state) ==
  /\ threshold \notin escalation
  /\ escalation' = escalation \cup {threshold}
  /\ slaState' = state
  /\ UNCHANGED announced

Warn == Record("WARNING", IF slaState = "BREACHED" THEN "BREACHED" ELSE "WARNING")
Breach == Record("BREACH", "BREACHED")

AnnounceBreach ==
  /\ "BREACH" \in escalation
  /\ announced' = TRUE
  /\ UNCHANGED <<slaState, escalation>>

Next == Warn \/ Breach \/ AnnounceBreach

Spec == Init /\ [][Next]_vars
=============================================================================
