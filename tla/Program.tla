------------------------------ MODULE Program ------------------------------
(***************************************************************************)
(* The programs that the engine verifies, as the engine sees them.         *)
(*                                                                         *)
(* A valuation of all the symbolic constants of a path is a Point.  A      *)
(* point of Input is a choice of the program's inputs; the other points    *)
(* are valuations that only an over-approximating summary admits.  A path  *)
(* condition is the set of points that satisfy it, so that a satisfiability*)
(* query is a test for emptiness.  A program is the graph of its symbolic  *)
(* positions; an instruction that neither branches, calls, nor summarises  *)
(* only rewrites terms and has no node of its own.                         *)
(***************************************************************************)
CONSTANTS
  Point,     \* valuations of the symbolic constants
  Input,     \* those that are choices of the program's real inputs
  Programs,  \* the programs that may be verified, by name
  NoNode     \* the null pc

ASSUME InputOK == Input \subseteq Point

(***************************************************************************)
(* Instructions.  Fields that an operation does not use are ignored.       *)
(*   branch, assert, assume: holds = the condition; def = it is defined.   *)
(*   call: a call of a defined function whose body is executed.            *)
(*   func: a call answered by a summary; loop: a legacy whole-loop summary.*)
(*     holds = the points that really get past it, out = the points that   *)
(*     the summary lets through for each point, inner = the points that    *)
(*     really violate an assertion inside, query = the valuations that     *)
(*     satisfy the query LoopSummarizer::prove_invariants asks.            *)
(*     hides = a nondet call inside cannot be reconstructed; oneExit = the *)
(*     loop has a unique exit block; cert = the certificate the summary    *)
(*     yields, whose closed form may mention values of the entry path.     *)
(*   accel, nested: the two path-expression accelerations; holds = the     *)
(*     source region they cover, alt = the loop body.                      *)
(*   call, func, unknown: scalar = no argument is a pointer.               *)
(***************************************************************************)
Op == {"branch", "assert", "assume", "error", "call", "func", "loop",
       "accel", "nested", "unknown", "return"}
Instr(node) ==
  [op: Op, next: node, alt: node, noundef: BOOLEAN, def: SUBSET Point,
   holds: SUBSET Point, out: [Point -> SUBSET Point], exact: BOOLEAN,
   hides: BOOLEAN, oneExit: BOOLEAN, cert: {"none", "any", "path"},
   scalar: BOOLEAN, query: SUBSET Point, inner: SUBSET Point]

\* The call's noundef attribute restricts a path to defined arguments.
Args(i) == IF i.noundef THEN i.def ELSE Point

\* Which points go wrong at instruction i, from those that go wrong after it.
\* An execution with an undefined operand is not counted as an error.
WrongAt(i, next, alt) ==
  CASE i.op = "branch" -> i.def \cap ((i.holds \cap next) \cup (alt \ i.holds))
    [] i.op = "assert" -> i.def \cap ((Point \ i.holds) \cup next)
    [] i.op = "assume" -> i.def \cap i.holds \cap next
    [] i.op = "error" -> Point
    [] i.op \in {"call", "unknown"} -> Args(i) \cap next
    [] i.op = "func" -> Args(i) \cap (i.inner \cup (i.holds \cap next))
    [] i.op = "loop" -> i.inner \cup (i.holds \cap next)
    [] i.op \in {"accel", "nested"} -> alt
    [] OTHER -> {}

(***************************************************************************)
(* What the summarisers promise of one summary: every point that really    *)
(* gets past it is let through, an input never turns into another input,   *)
(* and an exact summary lets nothing else through.  The assertion query of *)
(* a loop is posed over all valuations, so it finds every real violation.  *)
(***************************************************************************)
SummaryOK(i) ==
  /\ \A p \in i.holds : p \in i.out[p]
  /\ \A p \in Point : i.out[p] \cap Input \subseteq {p}
  /\ i.exact => \A p \in Point : i.out[p] = {p} \cap i.holds
  /\ i.op = "loop" => i.inner \subseteq i.query

\* The certificate of an acceleration: over the region it covers, the jump
\* goes wrong exactly when the loop body does.
CertifiedJump(i, next, alt) == i.holds \cap next = i.holds \cap alt

WellFormed(P) ==
  /\ P.entries \subseteq P.node
  /\ P.instr \in [P.node -> Instr(P.node)]
  /\ P.bad \in [P.node -> SUBSET Point]
  /\ \A n \in P.node :
       LET i == P.instr[n]
       IN  /\ P.bad[n] = WrongAt(i, P.bad[i.next], P.bad[i.alt])
           /\ i.op \in {"func", "loop"} => SummaryOK(i)
           /\ i.op \in {"accel", "nested"} =>
                CertifiedJump(i, P.bad[i.next], P.bad[i.alt])

ASSUME ProgramsOK == \A m \in DOMAIN Programs : WellFormed(Programs[m])
ASSUME NoNodeOK == \A m \in DOMAIN Programs : NoNode \notin Programs[m].node
-----------------------------------------------------------------------------
\* The inputs on which program m, started at e, goes wrong.
Wrong(m, e) == Input \cap Programs[m].bad[e]

(***************************************************************************)
(* Under which conditions on a program the engine's answers are correct.   *)
(* The first excludes the two ways in which it drops a path that may go    *)
(* wrong, the second the one in which it invents a failing path.           *)
(***************************************************************************)
NothingDropped(P) ==
  \A n \in P.node :
    LET i == P.instr[n]
    IN  /\ i.op = "loop" => i.oneExit
        /\ i.op = "func" => i.inner = {}
NothingInvented(P) ==
  \A n \in P.node :
    LET i == P.instr[n]
    IN  i.op = "loop" /\ i.exact /\ ~i.hides => i.query = {}
=============================================================================
