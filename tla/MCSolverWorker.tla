--------------------------- MODULE MCSolverWorker ---------------------------
(***************************************************************************)
(* Instances of SolverWorker for TLC.                                      *)
(***************************************************************************)
EXTENDS SolverWorker

CONSTANTS r1, r2

\* One recurrence of a single write and one of three: with the header, the
\* induction variable and QUIT, four writes and six.
MCSize == [r \in {r1, r2} |-> IF r = r1 THEN 1 ELSE 3]
=============================================================================
