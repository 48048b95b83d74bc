-------------------------- MODULE FunctionSummary --------------------------
(***************************************************************************)
(* lib/FunctionSummarizer.cpp: the paths of recursive functions            *)
(* (RecExecution), and what becomes of them: for a void function with      *)
(* pointer parameters a summary and its application to the calls of a path *)
(* (AInstructionCall::execute_normal), for functions of one integer the    *)
(* recurrence that is sent to the solver.                                  *)
(*                                                                         *)
(* A value is what the pointers point to, a tuple of integers, or the      *)
(* argument.  A symbolic expression is a function of the value on entry, a *)
(* path condition a set of such values.                                    *)
(***************************************************************************)
EXTENDS Integers, Sequences, FiniteSets, SequencesExt, Functions

CONSTANTS
  Programs, \* recursive functions and calls of them, see ProgramOK
  GivesUp,  \* kinds in whose runs Z3 may answer "unknown"
  Depth     \* bound: activations of a run

\* function: the members of the SCC, each a sequence of instructions, the
\* first one first; "to" is the next one, for a branch if the value is in "on";
\* an assumption or assertion holds on "on", a division is inexact there.
\* update: what a "set" makes of the value, or a call's argument.  A path
\* returns result + weight * the sum of what its calls returned.
\* A call passes the pointers on as they are.
InstructionOK(p, body, j) ==
  LET n == body[j]
  IN  /\ n.op \in {"set", "branch", "jump", "assume", "assert", "divide",
                   "call", "error", "return"}
      /\ {n.to, n.other} \subseteq DOMAIN body
      /\ n.on \subseteq p.value /\ n.update \in [p.value -> p.value]
      /\ n.op = "call" => n.callee \in DOMAIN p.function
      /\ n.op = "call" /\ p.kind = "pointers" => \A v \in p.value : n.update[v] = v
      /\ n.result \in [p.value -> Int] /\ n.weight \in Int

\* A block's instructions follow each other, and the last one goes to the first
\* ones of later blocks.
BlockOK(body, j) ==
  LET n == body[j]
      last == n.op \in {"branch", "jump", "error", "return"}
      first(k) == \A m \in 1..(k - 1) : body[m].block # body[k].block
  IN  /\ ~last => n.to = j + 1 /\ body[n.to].block = n.block
      /\ last => \A k \in DOMAIN body : k > j => body[k].block # n.block
      /\ n.op \in {"branch", "jump"} => \A k \in {n.to, n.other} : k > j /\ first(k)

\* calls: what the pointers point to when a path calls the function.
ProgramOK(p) ==
  /\ p.kind \in {"pointers", "scalar"}
  /\ Len(p.function) \in Nat \ {0} /\ DOMAIN p.function = 1..Len(p.function)
  /\ p.kind = "pointers" => Len(p.function) = 1
  /\ p.kind = "scalar" => 0 \in p.value
  /\ p.calls \in Seq(p.value)
  /\ \A i \in DOMAIN p.function :
       LET body == p.function[i]
       IN  /\ Len(body) \in Nat \ {0} /\ DOMAIN body = 1..Len(body)
           /\ \A j \in DOMAIN body : InstructionOK(p, body, j) /\ BlockOK(body, j)

ASSUME FunctionAssumption == Depth \in Nat /\ \A p \in Programs : ProgramOK(p)

VARIABLES
  program, \* the functions
  current, \* the one that is executed, F of RecExecution
  states,  \* RecExecution::states
  final,   \* final_states of each function
  stage,   \* "run", "traced", "summarized", "done"
  outcome  \* the summary or the recurrence

vars == <<program, current, states, final, stage, outcome>>

Value == program.value
Functions == DOMAIN program.function
Node(i, state) == program.function[i][state.pc]
cur_state == states[1]

(***************************************************************************)
(* RecExecution                                                            *)
(***************************************************************************)
InitialState ==
  [pc |-> 1, trace |-> <<>>, cond |-> Value, update |-> [v \in Value |-> v],
   calls |-> <<>>, checks |-> {}, result |-> [v \in Value |-> 0], weight |-> 0,
   status |-> "RUNNING"]

\* The values on entry at which the present ones are in "on".
Where(state, on) == {v \in Value : state.update[v] \in on}

Leave(state, to) ==
  [state EXCEPT !.pc = to, !.trace = Append(@, Node(current, state).block)]
Assume(state, on) ==
  [state EXCEPT !.cond = @ \cap Where(state, on), !.status = "TESTING"]
Composed(state, f) == [v \in Value |-> f[state.update[v]]]

\* RecExecution::step.  The call of a function with a body is a term without
\* effect on the memory (execute_naively); an assertion is collected; a call
\* of an error function stays where it is; an exact division has no successor.
step(state) ==
  LET n == Node(current, state)
      next == [state EXCEPT !.pc = n.to]
  IN  CASE n.op = "branch" -> <<Assume(Leave(state, n.to), n.on),
                                Assume(Leave(state, n.other), Value \ n.on)>>
        [] n.op = "jump"   -> <<Leave(state, n.to)>>
        [] n.op = "set"    -> <<[next EXCEPT !.update = Composed(state, n.update)]>>
        [] n.op = "call"   -> <<[next EXCEPT !.calls = Append(@,
                                   [callee |-> n.callee,
                                    argument |-> Composed(state, n.update)])]>>
        [] n.op = "assume" -> <<Assume(next, n.on)>>
        [] n.op = "assert" -> <<[next EXCEPT !.checks = @ \cup {Where(state, n.on)}]>>
        [] n.op = "divide" -> <<>>
        [] n.op = "error"  -> <<[state EXCEPT !.status = "REACH_ERROR"]>>
        [] n.op = "return" -> <<[state EXCEPT !.status = "TERMINATED",
                                              !.result = Composed(state, n.result),
                                              !.weight = n.weight]>>

Continue(more) == states' = Tail(states) \o more

Finish ==
  /\ cur_state.status = "TERMINATED"
  /\ final' = [final EXCEPT ![current] = Append(@, cur_state)]
  /\ Continue(<<>>)
  /\ UNCHANGED <<stage, outcome>>

\* Mutant: a feasible path is put back as it is.
TestAgain ==
  /\ cur_state.status = "TESTING"
  /\ \/ cur_state.cond # {} /\ Continue(<<cur_state>>)
     \/ cur_state.cond = {} /\ Continue(<<>>)
  /\ UNCHANGED <<final, stage, outcome>>

Test ==
  /\ cur_state.status = "TESTING"
  /\ \/ cur_state.cond # {} /\ Continue(<<[cur_state EXCEPT !.status = "RUNNING"]>>)
     \/ cur_state.cond = {} /\ Continue(<<>>)
     \/ program.kind \in GivesUp /\ Continue(<<>>)
  /\ UNCHANGED <<final, stage, outcome>>

Inexact(state) ==
  /\ Node(current, state).op = "divide"
  /\ state.cond \cap Where(state, Node(current, state).on) # {}

Step ==
  /\ cur_state.status \notin {"TERMINATED", "TESTING"}
  /\ ~Inexact(cur_state)
  /\ Continue(step(cur_state))
  /\ UNCHANGED <<final, stage, outcome>>

\* The exception ends the summarizer, FunctionSummarizer::summarize.
Throw ==
  /\ cur_state.status = "RUNNING"
  /\ Inexact(cur_state)
  /\ stage' = "done"
  /\ UNCHANGED <<states, final, outcome>>

Run ==
  /\ stage = "run" /\ states # <<>>
  /\ Finish \/ Test \/ Step \/ Throw
  /\ UNCHANGED <<program, current>>

\* prepare_rec_solver_naive executes one function of the SCC after the other.
Traced ==
  /\ stage = "run" /\ states = <<>>
  /\ IF current < Len(program.function)
     THEN current' = current + 1 /\ states' = <<InitialState>> /\ UNCHANGED stage
     ELSE stage' = "traced" /\ UNCHANGED <<current, states>>
  /\ UNCHANGED <<program, final, outcome>>

(***************************************************************************)
(* Base cases and tail calls, from the blocks that a path has left         *)
(***************************************************************************)
\* The instructions in these blocks.  A function goes from each block to later ones,
\* so that they stand in it in the order in which the path has come to them.
Left(i, state) ==
  {j \in DOMAIN program.function[i] : program.function[i][j].block \in Range(state.trace)}
CallsIn(i, state) == {j \in Left(i, state) : program.function[i][j].op = "call"}

\* Mutant: only the block that was left last.
BaseByLastBlock(i, state) ==
  \A j \in CallsIn(i, state) : program.function[i][j].block # Last(state.trace)

is_base_case_final_state(i, state) == CallsIn(i, state) = {}

\* Mutant: what follows the call is not looked at.
OneCall(i, state) == \E j \in Left(i, state) : CallsIn(i, state) = {j}

\* One call, and it is the last instruction that does something.
TailCall(i, state) ==
  \E j \in Left(i, state) :
    /\ CallsIn(i, state) = {j}
    /\ \A k \in Left(i, state) :
         k > j => program.function[i][k].op \in {"branch", "jump", "return"}

\* split_cases: where the base cases and the others stand in final[1].
base_states == {k \in DOMAIN final[1] : is_base_case_final_state(1, final[1][k])}
rec_states == DOMAIN final[1] \ base_states

(***************************************************************************)
(* summarize_pointers                                                      *)
(***************************************************************************)
\* Relations between the values on entry and those later on: kept residues,
\* pointers with equal values, assertions that hold on entry.
Places == 1..Len(CHOOSE v \in Value : TRUE)
Residue(k, m) == {x \in Value \X Value : x[1][k] % m = x[2][k] % m}
Equal(j, k) == {x \in Value \X Value : x[1][j] = x[1][k] => x[2][j] = x[2][k]}
Kept(c) == {x \in Value \X Value : x[1] \in c => x[2] \in c}

checks == UNION {s.checks : s \in Range(final[1])}
internal_invariants ==
  {Kept(c) : c \in checks} \cup IF Cardinality(checks) > 1
                                THEN {Kept({v \in Value : \A c \in checks : v \in c})}
                                ELSE {}
relation_candidates ==
  {Residue(k, m) : k \in Places, m \in {2, 4, 8, 16}}
    \cup {Equal(x[1], x[2]) : x \in {x \in Places \X Places : x[1] < x[2]}}
    \cup internal_invariants

Inductive(r) ==
  \A k \in rec_states : \A x \in r :
    x[2] \in final[1][k].cond => <<x[1], final[1][k].update[x[2]]>> \in r

\* The recurrence: the first case that applies, a single one without its
\* condition (rec_solver::set_eqs).
Next1(v) ==
  LET cases == {k \in rec_states : rec_states = {k} \/ v \in final[1][k].cond}
  IN  IF cases = {} THEN v
      ELSE final[1][CHOOSE k \in cases : \A j \in cases : k <= j].update[v]
Closed(v) ==
  LET form[n \in 0..Depth] == IF n = 0 THEN v ELSE Next1(form[n - 1])
  IN  form

\* There is a summary if a closed form is found, or a relation is proved.
SummarizePointers ==
  /\ stage = "traced" /\ program.kind = "pointers"
  /\ \E proved \in SUBSET {r \in relation_candidates : Inductive(r)}, solved \in BOOLEAN :
       /\ solved => proved \cap internal_invariants = {}
       /\ IF /\ \A k \in rec_states : TailCall(1, final[1][k])
             /\ solved \/ proved # {}
          THEN /\ stage' = "summarized"
               /\ outcome' = [exit |-> UNION {final[1][k].cond : k \in base_states},
                              proved |-> proved, solved |-> solved]
          ELSE stage' = "done" /\ UNCHANGED outcome
  /\ UNCHANGED <<program, current, states, final>>

\* Where a call from v may end after n steps of a summary's recurrence.  That one of
\* the cases applies at step n - 1 is asked of a term that occurs nowhere else.
Ends(summary, v, n) ==
  {u \in summary.exit : /\ summary.solved => u = Closed(v)[n]
                        /\ \A r \in summary.proved : <<v, u>> \in r}

\* execute_normal: the values behind the calls of a path.  The number of steps
\* is a constant of the program, ari_loop_n, the same one for all calls.
ends(summary) ==
  UNION {{e \in [DOMAIN program.calls -> Value] :
            \A k \in DOMAIN e : e[k] \in Ends(summary, program.calls[k], n)} : n \in 0..Depth}

Apply ==
  /\ stage = "summarized"
  /\ outcome' = [ends |-> ends(outcome)]
  /\ stage' = "done"
  /\ UNCHANGED <<program, current, states, final>>

(***************************************************************************)
(* summarize_scalar                                                        *)
(***************************************************************************)
Calls == UNION {Range(s.calls) : s \in UNION {Range(final[i]) : i \in Functions}}
Predecessor(f) == \A n \in Value : n - 1 \in Value => f[n] = n - 1
is_simple_app(f) == Predecessor(f) \/ \E k \in Value : \A n \in Value : f[n] = k

\* cartesian_product: a path of each function.
Products ==
  LET products[k \in 0..Len(program.function)] ==
        IF k = 0 THEN <<<<>>>>
        ELSE FlattenSeq([j \in DOMAIN products[k - 1] |->
               [l \in DOMAIN final[k] |-> Append(products[k - 1][j], final[k][l])]])
  IN  products[Len(program.function)]

Together(product) == {n \in Value : \A i \in DOMAIN product : n \in product[i].cond}

\* So is a product of paths that exclude each other.
is_base_case(product) == Together(product) \subseteq {0}

\* Where the base cases stand in Products.
bases == {k \in DOMAIN Products : is_base_case(Products[k])}

\* Mutant: a later base case replaces an earlier one.
LastInitialValues ==
  IF bases = {} THEN <<>> ELSE Products[CHOOSE k \in bases : \A j \in bases : k >= j]

\* rec_solver::add_initial_values keeps the first value of each function at 0.
initial_values ==
  IF bases = {} THEN <<>> ELSE Products[CHOOSE k \in bases : \A j \in bases : k <= j]

\* The naive recurrence steps from n - 1 to n; if an argument is of another
\* form, the paths of the one function are the equations, which are given by their
\* places in Products.
SummarizeScalar ==
  /\ stage = "traced" /\ program.kind = "scalar"
  /\ \/ /\ \A c \in Calls : is_simple_app(c.argument)
        /\ outcome' = [naive |-> TRUE, initial |-> initial_values,
                       equations |-> DOMAIN Products \ bases]
     \/ /\ ~\A c \in Calls : is_simple_app(c.argument)
        /\ Len(program.function) = 1
        /\ outcome' = [naive |-> FALSE, initial |-> <<>>, equations |-> DOMAIN Products]
  /\ stage' = "done"
  /\ UNCHANGED <<program, current, states, final>>

Init ==
  /\ program \in Programs
  /\ current = 1 /\ states = <<InitialState>> /\ final = [i \in Functions |-> <<>>]
  /\ stage = "run" /\ outcome = [none |-> TRUE]

Next == Run \/ Traced \/ SummarizePointers \/ Apply \/ SummarizeScalar

Spec == Init /\ [][Next]_vars

\* RecExecution::run is a plain sequential loop.
FairSpec == Spec /\ WF_vars(Run \/ Traced)

(***************************************************************************)
(* What the functions do                                                   *)
(***************************************************************************)
\* What the instruction n makes of an activation whose call, if n is one, does
\* what callee says.
Executed(kind, n, before, callee) ==
  LET w == before.value
  IN  [pc |-> IF n.op = "branch" /\ w \notin n.on THEN n.other ELSE n.to,
       value |-> IF n.op = "set" THEN n.update[w]
                 ELSE IF n.op = "call" /\ kind = "pointers" THEN callee.value ELSE w,
       calls |-> before.calls + IF n.op = "call" THEN 1 ELSE 0,
       sum |-> IF n.op = "call" THEN before.sum + callee.sum
               ELSE IF n.op = "return" THEN n.result[w] + n.weight * before.sum
               ELSE before.sum,
       end |-> IF n.op = "call" /\ callee.end # "returned" THEN callee.end
               ELSE IF n.op = "return" THEN "returned"
               ELSE IF n.op = "error" \/ (n.op = "assert" /\ w \notin n.on) THEN "failed"
               ELSE IF n.op = "assume" /\ w \notin n.on THEN "blocked" ELSE "going"]

\* The activation of function i at v, if a call of j at w does what Below(j, w)
\* says.
Activation(i, v, Below(_, _)) ==
  LET body == program.function[i]
      at[k \in 0..Len(body)] ==
        IF k = 0 THEN [pc |-> 1, value |-> v, sum |-> 0, calls |-> 0, end |-> "going"]
        ELSE LET before == at[k - 1] n == body[k]
             IN  IF before.pc # k \/ before.end # "going" THEN before
                 ELSE Executed(program.kind, n, before, Below(n.callee, n.update[before.value]))
  IN  at[Len(body)]

\* A run of at most Depth activations; "sum" is the value returned.
RunOf(i, v) ==
  LET runs[d \in 0..Depth] ==
        IF d = 0 THEN [j \in Functions |-> [w \in Value |-> [end |-> "deep", value |-> w, sum |-> 0]]]
        ELSE LET Below(j, w) == runs[d - 1][j][w]
             IN  [j \in Functions |-> [w \in Value |-> Activation(j, w, Below)]]
  IN  runs[Depth][i][v]

\* One activation whose calls return at once.
AtOnce(j, w) == [end |-> "returned", value |-> w, sum |-> 0]
Shallow(i, v) == Activation(i, v, AtOnce)

\* The paths of a function: a value on entry that gets to the return if calls
\* get back is in one of them, which leaves behind what is stored and counts as a
\* base case if and only if nothing is called; a value that an assumption stops is
\* in none (RecExecution::run, is_base_case_final_state).
CasesExact ==
  stage = "traced" => \A i \in Functions, v \in Value :
    LET run == Shallow(i, v)
        of == {s \in Range(final[i]) : v \in s.cond}
    IN  /\ run.end = "returned" =>
             /\ Cardinality(of) = 1
             /\ \A s \in of :
                  /\ s.update[v] = run.value
                  /\ program.kind = "pointers" =>
                       (is_base_case_final_state(i, s) <=> run.calls = 0)
        /\ run.end = "blocked" => of = {}

\* The values that calls on one path really leave behind are among those with
\* which the path goes on, whichever relations are proved and whether or not a
\* closed form is found.
CallsCovered ==
  stage = "done" /\ "ends" \in DOMAIN outcome =>
    LET run(k) == RunOf(1, program.calls[k])
    IN  (\A k \in DOMAIN program.calls : run(k).end = "returned")
          => [k \in DOMAIN program.calls |-> run(k).value] \in outcome.ends

\* What the run of i at m returns is what the path s says of it.
Says(i, s, m) ==
  LET run == RunOf(i, m)
      of(k) == RunOf(s.calls[k].callee, s.calls[k].argument[m])
      sum[k \in 0..Len(s.calls)] == IF k = 0 THEN 0 ELSE sum[k - 1] + of(k).sum
  IN  run.end = "returned" =>
        /\ \A k \in DOMAIN s.calls : of(k).end = "returned"
        /\ run.sum = s.result[m] + s.weight * sum[Len(s.calls)]

\* The recurrence and the initial values sent to the solver are true of the
\* functions: where one returns, a case applies, the first that does gives its
\* value, and so do the initial values at 0.
RequestTrue ==
  stage = "done" /\ "equations" \in DOMAIN outcome =>
    LET equations == outcome.equations
        applies(m) == {k \in equations :
                         equations = {k} \/ \A i \in Functions : m \in Products[k][i].cond}
        first(m) == Products[CHOOSE k \in applies(m) : \A j \in applies(m) : k <= j]
    IN  /\ outcome.initial # <<>> => \A i \in Functions : Says(i, outcome.initial[i], 0)
        /\ \A m \in Value, i \in Functions :
             (outcome.naive => m >= 1) /\ RunOf(i, m).end = "returned" =>
               /\ applies(m) # {}
               /\ Says(i, first(m)[i], m)

\* The execution of a function without loops comes to an end.
RunEnds == <>(stage # "run")
=============================================================================
