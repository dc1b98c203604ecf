--------------------------- MODULE MCJobLifecycle ---------------------------
(* Small instances of the job services for TLC. *)
EXTENDS JobLifecycleRefinement, TLC

\* An admin switches a member between eligible with a cap of one and not
\* available (with the organization's default cap).
MCMemberRows ==
  {[role |-> "AGENT", isAvailable |-> TRUE,  concurrentJobCap |-> 1],
   [role |-> "AGENT", isAvailable |-> FALSE, concurrentJobCap |-> None]}

\* An admin caps an available AGENT at one, or takes the role away.
MCMixRows ==
  {[role |-> "AGENT", isAvailable |-> TRUE, concurrentJobCap |-> 1],
   [role |-> "OTHER", isAvailable |-> TRUE, concurrentJobCap |-> None]}

MCSymmetry == Permutations(Jobs) \cup Permutations(Agents) \cup Permutations(Requests)
=============================================================================
