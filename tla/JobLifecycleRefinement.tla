----------------------- MODULE JobLifecycleRefinement -----------------------
(* The services implement the atomic board under the identity on job and
   membership; requests, locks, assignment rows and timelines are hidden. *)
EXTENDS JobLifecycle

Board == INSTANCE AtomicDispatch
  WITH Jobs <- Jobs, Agents <- Agents, None <- None, DefaultCap <- DefaultCap,
       MemberRows <- MemberRows, job <- job, membership <- membership

\* Every interleaving of the services' transactions is a behaviour of the
\* atomic board: each commit acts on the state at that instant, although it
\* was decided on a row, a count and an offer read earlier.
ImplementsAtomicDispatch == Board!Spec
=============================================================================
