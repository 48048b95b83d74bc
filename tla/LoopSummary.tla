---------------------------- MODULE LoopSummary ----------------------------
(***************************************************************************)
(* One loop, executed symbolically for one iteration (LoopExecution) and   *)
(* then either summarised as a whole (LoopSummarizer, applied by           *)
(* AInstructionPhi::execute_if_summarizable) or turned into the            *)
(* transitions of lib/PathAccelerator.                                     *)
(*                                                                         *)
(* A value stands for the loop's header PHIs together.  The body may call  *)
(* __VERIFIER_nondet at one place; what it answers is a function of a      *)
(* counter.  A symbolic expression of the body is a function of a value    *)
(* and an answer, a path condition a set of such pairs.                    *)
(***************************************************************************)
EXTENDS Integers, Sequences, FiniteSets, SequencesExt, Functions

CONSTANTS
  Programs,     \* loops, see LoopOK
  GivesUp,      \* clients in whose runs Z3 may answer "unknown"
  MaxIterations \* bound: iterations of a run that leaves the loop

Exit == 0 \* the first instruction of the only exit block
Terminator(n) == n.op \in {"branch", "jump"}

\* node: the instructions of the body, the header's first one first; on: the
\* pairs for which a branch goes to "to", an assumption or assertion holds.
\* update: what the PHIs take at the back edge on a path through a "set".
\* answers[p][k]: the k-th answer in the run on the inputs p.  bool: the call
\* returns an i1.  linear: the linear solver may find the number of iterations.
LoopOK(l) ==
  /\ l.client \in {"summarizer", "accelerator"}
  /\ Len(l.node) \in Nat \ {0} /\ DOMAIN l.node = 1..Len(l.node)
  /\ l.initial \in [l.point -> l.value]
  /\ l.answers \in [l.point -> [0..MaxIterations -> l.answer]]
  /\ {l.bool, l.linear} \subseteq BOOLEAN
  /\ \A i \in DOMAIN l.node :
       LET n == l.node[i]
       IN  /\ n.op \in {"set", "call", "branch", "jump", "assume", "assert"}
           /\ {n.to, n.other} \subseteq DOMAIN l.node \cup {Exit}
           /\ n.on \subseteq l.value \X l.answer
           /\ n.update \in [l.value \X l.answer -> l.value]
           /\ \A j \in {n.to, n.other} : j > i \/ j \in {Exit, 1}
           /\ ~Terminator(n) => n.to = i + 1 /\ l.node[n.to].block = n.block
           /\ Terminator(n) => /\ \A j \in {n.to, n.other} \ {Exit, 1} :
                                    l.node[j - 1].block # l.node[j].block
                               /\ \A j \in DOMAIN l.node : j > i => l.node[j].block # n.block

ASSUME LoopAssumption == MaxIterations \in Nat /\ \A l \in Programs : LoopOK(l)

VARIABLES
  loop,         \* the loop
  states,       \* LoopExecution::states
  final_states, \* paths at the end of the latch
  exit_states,  \* paths at the exit block
  saw_unknown,
  stage,        \* "run", "traced", "done"
  outcome       \* what the client makes of it

vars == <<loop, states, final_states, exit_states, saw_unknown, stage, outcome>>

Pair == loop.value \X loop.answer
Node(state) == loop.node[state.pc]
Header == loop.node[1].block
cur_state == states[1]

(***************************************************************************)
(* LoopExecution                                                           *)
(***************************************************************************)
\* counted: unknown_call_counters has an entry, which the copies made by the
\* next step leave out (the copy constructor of LoopState does not name it).
InitialState ==
  [pc |-> 1, prev_pc |-> Exit, path_condition |-> Pair, path_condition_in_loop |-> Pair,
   update |-> [x \in Pair |-> x[1]], counted |-> FALSE, status |-> "RUNNING"]

back_edge_taken(state) ==
  /\ {state.pc, state.prev_pc} \subseteq DOMAIN loop.node
  /\ Node(state).block = Header
  /\ loop.node[state.prev_pc].block = loop.latch

is_final_state(state) ==
  /\ state.pc # Exit
  /\ Node(state).block = loop.latch
  /\ Terminator(Node(state))

is_exit_state(state) == state.pc = Exit

Moved(state, to) == [state EXCEPT !.pc = to, !.prev_pc = state.pc, !.counted = FALSE]

\* AInstructionBranch and LoopState::append_path_condition: a test that may
\* leave the loop is not part of the condition inside the loop.
Taken(state, to, on) ==
  [Moved(state, to) EXCEPT
     !.path_condition = @ \cap on,
     !.path_condition_in_loop =
        IF Exit \in {Node(state).to, Node(state).other} THEN @ ELSE @ \cap on,
     !.status = "TESTING"]

\* LoopExecution::step.  An assertion is collected in summary_invariants,
\* which nothing reads here.
step(state) ==
  LET n == Node(state) next == Moved(state, n.to)
  IN  CASE n.op = "branch" -> <<Taken(state, n.to, n.on), Taken(state, n.other, Pair \ n.on)>>
        [] n.op = "call"   -> <<[next EXCEPT !.counted = TRUE]>>
        [] n.op = "set"    -> <<[next EXCEPT !.update = n.update]>>
        [] n.op = "assume" -> <<[next EXCEPT !.path_condition = @ \cap n.on,
                                             !.status = "TESTING"]>>
        [] OTHER           -> <<next>>

Continue(more) == states' = Tail(states) \o more

DropBackEdge ==
  /\ back_edge_taken(cur_state)
  /\ Continue(<<>>)
  /\ UNCHANGED <<final_states, exit_states, saw_unknown>>

Finish ==
  /\ ~back_edge_taken(cur_state) /\ is_final_state(cur_state)
  /\ final_states' = final_states \cup {cur_state}
  /\ Continue(<<>>)
  /\ UNCHANGED <<exit_states, saw_unknown>>

Leave ==
  /\ is_exit_state(cur_state)
  /\ exit_states' = exit_states \cup {cur_state}
  /\ Continue(<<>>)
  /\ UNCHANGED <<final_states, saw_unknown>>

InBody == ~back_edge_taken(cur_state) /\ ~is_final_state(cur_state) /\ ~is_exit_state(cur_state)

\* Mutant: a path whose test was unknown is lost without a note.
TestQuietly ==
  /\ InBody /\ cur_state.status = "TESTING"
  /\ \/ /\ cur_state.path_condition # {}
        /\ Continue(<<[cur_state EXCEPT !.status = "RUNNING"]>>)
     \/ cur_state.path_condition = {} /\ Continue(<<>>)
     \/ loop.client \in GivesUp /\ Continue(<<>>)
  /\ UNCHANGED <<final_states, exit_states, saw_unknown>>

Test ==
  /\ InBody /\ cur_state.status = "TESTING"
  /\ \/ /\ cur_state.path_condition # {}
        /\ Continue(<<[cur_state EXCEPT !.status = "RUNNING"]>>)
        /\ UNCHANGED saw_unknown
     \/ cur_state.path_condition = {} /\ Continue(<<>>) /\ UNCHANGED saw_unknown
     \/ loop.client \in GivesUp /\ Continue(<<>>) /\ saw_unknown' = TRUE
  /\ UNCHANGED <<final_states, exit_states>>

Step ==
  /\ InBody /\ cur_state.status = "RUNNING"
  /\ Continue(step(cur_state))
  /\ UNCHANGED <<final_states, exit_states, saw_unknown>>

Run ==
  /\ stage = "run" /\ states # <<>>
  /\ DropBackEdge \/ Finish \/ Leave \/ Test \/ Step
  /\ UNCHANGED <<loop, stage, outcome>>

Traced ==
  /\ stage = "run" /\ states = <<>>
  /\ stage' = "traced"
  /\ UNCHANGED <<loop, states, final_states, exit_states, saw_unknown, outcome>>

(***************************************************************************)
(* LoopSummarizer                                                          *)
(***************************************************************************)
\* Whether an expression contains the call's answer.
Asks(condition) ==
  \E x \in condition : \E c \in loop.answer : <<x[1], c>> \notin condition

\* Mutant: an answer that no condition reads is not counted.
AdvancesIfRead(state) == ~loop.bool /\ Asks(state.path_condition_in_loop)

\* get_conditions_and_updates: the answer's counter goes on if the state still
\* carries it, or if the condition inside the loop has the answer, an integer.
Advances(state) ==
  state.counted \/ (~loop.bool /\ Asks(state.path_condition_in_loop))

\* The recurrence's first n values and counters for the inputs p.
Recurrence(p) ==
  LET rec[n \in 0..MaxIterations] ==
        IF n = 0 THEN [value |-> loop.initial[p], count |-> 0]
        ELSE LET before == rec[n - 1]
                 x == <<before.value, loop.answers[p][before.count]>>
                 cases == {s \in final_states : x \in s.path_condition_in_loop}
                 s == CHOOSE s \in cases : TRUE
             IN  IF cases = {} THEN before
                 ELSE [value |-> s.update[x],
                       count |-> before.count + IF Advances(s) THEN 1 ELSE 0]
  IN  rec

\* get_loop_guard_condition, at the n-th iteration.
loop_guard(p, n) ==
  LET at == Recurrence(p)[n]
  IN  \A s \in exit_states : <<at.value, loop.answers[p][at.count]>> \notin s.path_condition

\* Mutant: the guard of the last iteration is not asked for.
IterationsShort(p) ==
  {n \in 0..MaxIterations : \A m \in 0..n : loop_guard(p, m) <=> m < n - 1}

\* get_iterations_constraints: N satisfies them.
Iterations(p) ==
  {n \in 0..MaxIterations : \A m \in 0..n : loop_guard(p, m) <=> m < n}

\* The summary's value for N; where the constraints have no solution the
\* formula that solve_vars finds still has some value.
N(p) == IF Iterations(p) = {} THEN 0 ELSE CHOOSE n \in Iterations(p) : TRUE

(***************************************************************************)
(* The two clients                                                         *)
(***************************************************************************)
Calls == {i \in DOMAIN loop.node : loop.node[i].op = "call"}

\* Whether every way through the body goes through the block b.
Dominates(b) ==
  LET avoiding[i \in DOMAIN loop.node] ==
        i = 1 \/ \E j \in 1..(i - 1) : /\ avoiding[j] /\ loop.node[j].block # b
                                     /\ i \in {loop.node[j].to, loop.node[j].other}
  IN  \A i \in DOMAIN loop.node :
        loop.node[i].block = loop.latch /\ loop.node[i].block # b => ~avoiding[i]

\* Mutant: any call is taken for one per iteration.
EvidenceOfAny(approximate, known) ==
  [complete |-> Calls = {} \/ known \/ ~approximate,
   listed |-> [p \in loop.point |->
     IF Calls = {} THEN 0
     ELSE N(p) + IF \E i \in Calls : loop.node[i].block = Header THEN 2 ELSE 0]]

\* execute_if_summarizable: how many answers the state lists.  A call in the
\* header counts once more for the last test, and is listed again when the
\* header is executed behind the summary.
EvidenceOf(approximate, known) ==
  [complete |-> \A i \in Calls : (known \/ ~approximate) /\ Dominates(loop.node[i].block),
   listed |-> [p \in loop.point |->
     IF Calls = {} THEN 0
     ELSE N(p) + IF \E i \in Calls : loop.node[i].block = Header THEN 2 ELSE 0]]

\* Mutant: the constraints on N are dropped with an N that has no formula.
GoesOnUnconstrained(approximate, known) == {p \in loop.point : exit_states # {}}

\* get_constraints: the inputs at which the state goes on behind the loop.
GoesOn(approximate, known) ==
  IF known THEN loop.point
  ELSE {p \in loop.point : IF approximate THEN exit_states # {} ELSE Iterations(p) # {}}

\* The state behind the loop, with the values the PHIs may have there.
\* approximate: a PHI has no closed form; known: N has one.
Summarized(approximate, known) ==
  [over |-> approximate,
   evidence |-> EvidenceOf(approximate, known),
   cond |-> GoesOn(approximate, known),
   value |-> [p \in loop.point |->
     IF ~approximate THEN {Recurrence(p)[N(p)].value}
     ELSE IF known /\ N(p) = 0 THEN {loop.initial[p]} ELSE loop.value]]

Summarize ==
  /\ stage = "traced" /\ loop.client = "summarizer"
  /\ \E approximate, known \in BOOLEAN :
       /\ known => loop.linear /\ \E p \in loop.point : Iterations(p) # {}
       /\ outcome' = Summarized(approximate, known)
  /\ stage' = "done"
  /\ UNCHANGED <<loop, states, final_states, exit_states, saw_unknown>>

\* enumerate_transitions.
Enumerate ==
  /\ stage = "traced" /\ loop.client = "accelerator"
  /\ outcome' =
       [rejected |-> saw_unknown,
        transitions |-> {[guard |-> s.path_condition, update |-> s.update] : s \in final_states}]
  /\ stage' = "done"
  /\ UNCHANGED <<loop, states, final_states, exit_states, saw_unknown>>

Init ==
  /\ loop \in Programs
  /\ states = <<InitialState>>
  /\ final_states = {} /\ exit_states = {} /\ saw_unknown = FALSE
  /\ stage = "run" /\ outcome = [none |-> TRUE]

Next == Run \/ Traced \/ Summarize \/ Enumerate

Spec == Init /\ [][Next]_vars

(***************************************************************************)
(* What the loop does                                                      *)
(***************************************************************************)
\* What the instruction n makes of an iteration at the pair x.
Executed(n, x, before) ==
  LET to == IF n.op = "branch" /\ x \notin n.on THEN n.other ELSE n.to
  IN  [pc |-> to,
       next |-> IF n.op = "set" THEN n.update[x] ELSE before.next,
       calls |-> before.calls + IF n.op = "call" THEN 1 ELSE 0,
       end |-> IF n.op \in {"assume", "assert"} /\ x \notin n.on
               THEN IF n.op = "assume" THEN "blocked" ELSE "failed"
               ELSE IF to = Exit THEN "left" ELSE IF to = 1 THEN "again" ELSE "going"]

\* One iteration from the value v with the answer c, instruction by
\* instruction: "again" at the back edge, "left", "blocked" by an assumption,
\* or "failed" at an assertion.
Iteration(v, c) ==
  LET x == <<v, c>>
      at[i \in 0..Len(loop.node)] ==
        IF i = 0 THEN [pc |-> 1, next |-> v, calls |-> 0, end |-> "going"]
        ELSE IF at[i - 1].pc # i \/ at[i - 1].end # "going" THEN at[i - 1]
        ELSE Executed(loop.node[i], x, at[i - 1])
  IN  at[Len(loop.node)]

\* The run on the inputs p, for at most MaxIterations complete iterations.
RunOf(p) ==
  LET run[n \in 0..(MaxIterations + 1)] ==
        IF n = 0 THEN [value |-> loop.initial[p], calls |-> 0, end |-> "again"]
        ELSE LET before == run[n - 1]
             IN  IF before.end # "again" THEN before
                 ELSE LET i == Iteration(before.value, loop.answers[p][before.calls])
                      IN  [value |-> IF i.end = "again" THEN i.next ELSE before.value,
                           calls |-> before.calls + i.calls, end |-> i.end]
  IN  run[MaxIterations + 1]

Summary == stage = "done" /\ loop.client = "summarizer"

\* The recurrence's counter of answers moves on with a path exactly if the
\* iterations on that path ask for an answer.
CountersFollow ==
  Summary => \A s \in final_states : \A x \in s.path_condition :
    LET i == Iteration(x[1], x[2])
    IN  i.end = "again" => i.calls = IF Advances(s) THEN 1 ELSE 0

\* Every run that leaves the loop goes on behind the summary, with the values
\* it has there, whichever of its parts the solvers found.
RunsContinue ==
  Summary => \A p \in loop.point :
    RunOf(p).end = "left" => p \in outcome.cond /\ RunOf(p).value \in outcome.value[p]

\* An exact summary goes on behind the loop for no other runs, and with no
\* other values: a counterexample found there is one of the program.
ResultsReal ==
  Summary /\ ~outcome.over => \A p \in outcome.cond :
    RunOf(p).end = "left" /\ outcome.value[p] = {RunOf(p).value}

\* A state that calls itself complete lists as many answers as the run asks for.
EvidenceCounts ==
  Summary /\ ~outcome.over /\ outcome.evidence.complete =>
    \A p \in outcome.cond : outcome.evidence.listed[p] = RunOf(p).calls

\* The transitions are the iterations of the loop, no pair in two of them,
\* unless an unknown test has them rejected.
TransitionsExact ==
  stage = "done" /\ loop.client = "accelerator" /\ ~outcome.rejected =>
    \A x \in Pair :
      LET i == Iteration(x[1], x[2])
          of == {t \in outcome.transitions : x \in t.guard}
      IN  IF i.end = "again"
          THEN Cardinality(of) = 1 /\ \A t \in of : t.update[x] = i.next
          ELSE of = {}
=============================================================================
