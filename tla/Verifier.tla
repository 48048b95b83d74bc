------------------------------ MODULE Verifier ------------------------------
(***************************************************************************)
(* What a run of the verifier promises its caller: it is asked about one   *)
(* entry point at a time, and what it answers is true of the program.      *)
(***************************************************************************)
EXTENDS Program

VARIABLES
  prog,     \* the name of the program
  entry,    \* the entry point asked about
  phase,    \* "idle", "running", "done"
  verdict,  \* the answer
  crash     \* why there is no answer, "none" otherwise

vars == <<prog, entry, phase, verdict, crash>>

Init ==
  /\ prog \in DOMAIN Programs
  /\ entry \in Programs[prog].entries
  /\ phase = "idle"
  /\ verdict = "none"
  /\ crash = "none"

Ask(e) ==
  /\ phase # "running"
  /\ phase' = "running"
  /\ entry' = e
  /\ verdict' = "none"
  /\ crash' = "none"
  /\ UNCHANGED prog

\* HOLD only of a safe program, FAIL only of an unsafe one.
Answer(v) ==
  /\ phase = "running"
  /\ v = "HOLD" => Wrong(prog, entry) = {}
  /\ v = "FAIL" => Wrong(prog, entry) # {}
  /\ phase' = "done"
  /\ verdict' = v
  /\ UNCHANGED <<prog, entry, crash>>

\* The run stops without an answer.
Abandon(reason) ==
  /\ phase = "running"
  /\ phase' = "done"
  /\ crash' = reason
  /\ UNCHANGED <<prog, entry, verdict>>

Next == \/ \E e \in Programs[prog].entries : Ask(e)
        \/ \E v \in {"HOLD", "FAIL", "VERIUNKNOWN"} : Answer(v)
        \/ \E r \in {"status_not_running", "path_not_satisfiable",
                     "exception"} : Abandon(r)

Spec == Init /\ [][Next]_vars
=============================================================================
