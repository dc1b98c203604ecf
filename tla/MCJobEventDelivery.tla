------------------------- MODULE MCJobEventDelivery -------------------------
(* A small instance of the job-events queue for TLC. *)
EXTENDS JobEventDelivery, TLC

\* The job on the second page has two versions.
MCLastVersion == <<1, 2>>
=============================================================================
