---------------------------- MODULE Accelerator ----------------------------
(***************************************************************************)
(* Symbolic exploration of one loop with the jumps of lib/PathAccelerator. *)
(*                                                                         *)
(* A point is one choice of all inputs.  A path holds at some points, its  *)
(* condition, and gives the loop's header PHIs a value at each of them; a  *)
(* value of the PHIs together is one member of program.value.  One         *)
(* iteration takes one of the paths of the body, named by its symbol, at   *)
(* the values that enable it.  Z3 and the recurrence solver may give up    *)
(* whenever they are asked; a closed form that is proposed may be wrong.   *)
(***************************************************************************)
EXTENDS Integers, Sequences, FiniteSets, SequencesExt, FiniteSetsExt

CONSTANTS
  Programs,                \* loops, see ProgramOK
  MaxRoot, Beam, Evidence, \* parameters of compress_path_prefix
  MaxIterations            \* bound: segments and trailing single iterations of a path

\* kind: "plain", a loop whose body is side-effect free; "oracle", one whose
\* header asks __VERIFIER_nondet_bool whether to go on; "family", a loop with
\* or inside another, with assertions, that may be completed on entry.
\* answers[p] is how often the oracle says "go on" at point p, at most as often
\* as a trajectory can be long without a repetition.  error: values
\* at which an iteration, or the exit, violates an assertion.  An update that
\* overflows, outside ok[a], leaves poison; a branch of path a reads it if
\* reads[a]; resets[a] if the path overwrites the variable that holds it.
\* A loop around it enters it p.entries times more, from again[v] after v.
ProgramOK(p) ==
  /\ IsFiniteSet(p.value) /\ IsFiniteSet(p.paths)
  /\ p.kind \in {"plain", "oracle", "family"}
  /\ p.initial \in [p.point -> p.value]
  /\ p.answers \in [p.point -> 0..Cardinality(p.value)]
  /\ p.error \subseteq p.value
  /\ \A f \in {p.enabled, p.ok} : f \in [p.paths -> SUBSET p.value]
  /\ p.update \in [p.paths -> [p.value -> p.value]]
  /\ p.reads \in [p.paths -> BOOLEAN] /\ p.resets \in [p.paths -> BOOLEAN]
  /\ \A a, b \in p.paths : a # b => p.enabled[a] \cap p.enabled[b] = {}
  /\ p.kind = "oracle" => p.error = {} /\ UNION {p.enabled[a] : a \in p.paths} = p.value
  /\ p.kind = "plain" => p.error = {}
  /\ p.counts \subseteq [p.value -> Int]
  /\ p.entries \in Nat /\ p.again \in [p.value -> p.value]
  /\ p.entries > 0 => p.kind = "family"

ASSUME AcceleratorAssumption ==
  /\ \A p \in Programs : ProgramOK(p)
  /\ {MaxRoot, Beam, Evidence, MaxIterations} \subseteq Nat \ {0}

VARIABLES
  program,    \* the loop
  worklist,   \* paths, the next one first
  finished,   \* paths that have left the loop, or violate an assertion
  summary     \* nested_path_summaries of the loop: a count, or none

vars == <<program, worklist, finished, summary>>

Compression == INSTANCE PathExpression

Value == program.value
Point == program.point
Top == worklist[1]
Replace(paths) == worklist' = paths \o Tail(worklist)

\* No trajectory through a finite set is longer without a repetition.
Horizon == Cardinality(Value) + 1

(***************************************************************************)
(* Maps of the loop                                                        *)
(***************************************************************************)
Identity == [v \in Value |-> v]

\* ScalarPathTransition: the path condition of an iteration and the
\* definedness of its updates.
Transition(a) ==
  [guard |-> program.enabled[a] \cap program.ok[a], update |-> program.update[a]]

\* solve_composite: the guards and updates along a word.
Composite(word) ==
  LET composite[n \in 0..Len(word)] ==
        IF n = 0 THEN [guard |-> Value, update |-> Identity]
        ELSE LET c == composite[n - 1] next == Transition(word[n])
             IN  [guard |-> {v \in c.guard : c.update[v] \in next.guard},
                  update |-> [v \in Value |-> next.update[c.update[v]]]]
  IN  composite[Len(word)]

Iterates(f) ==
  LET iterate[n \in 0..(Horizon + 1)] ==
        IF n = 0 THEN Identity
        ELSE LET before == iterate[n - 1] IN [v \in Value |-> f[before[v]]]
  IN  iterate

\* What may be proposed as the closed form of f: the iterates, or a sequence
\* that is wrong from its start, or from some index on.
ProposedForms(f) ==
  LET right == Iterates(f)
  IN  {right,
       [n \in 0..(Horizon + 1) |-> right[IF n <= Horizon THEN n + 1 ELSE n]],
       [n \in 0..(Horizon + 1) |-> right[IF n >= 2 THEN 1 ELSE n]],
       [n \in 0..(Horizon + 1) |-> f]}

\* Mutant: the base case is not asked for.
CertifyStep(closed, f) ==
  \A n \in 0..Horizon : closed[n + 1] = [v \in Value |-> f[closed[n][v]]]

\* certify_closed_forms: base and step.
certify_closed_forms(closed, f) ==
  /\ closed[0] = Identity
  /\ \A n \in 0..Horizon : closed[n + 1] = [v \in Value |-> f[closed[n][v]]]

CertifiedForms(f) == {c \in ProposedForms(f) : certify_closed_forms(c, f)}

\* The jump goes to the first break of the word's guard, after k >= 1 words.
FirstBreak(closed, guard, v, k) ==
  /\ k >= 1
  /\ \A t \in 0..(k - 1) : closed[t][v] \in guard
  /\ closed[k][v] \notin guard
FirstBreaks(closed, guard, v) ==
  {k \in 0..Horizon : FirstBreak(closed, guard, v, k)}

(***************************************************************************)
(* Paths                                                                   *)
(***************************************************************************)
\* "at" is where in the loop: before the PHIs on entry or after a back edge,
\* behind the PHIs, outside, or at a violated assertion.  value: the incoming
\* values, then the PHIs.  defined: points at which no PHI holds poison.
\* exponents in prefix depend on the point; candidates: the starred words, of
\* which any may be given up.  calls: answers of the oracle.
\* from, clean: values and defined points of this entry; entries: still to come.
InitialPath ==
  [at |-> "entry", cond |-> Point, value |-> program.initial, defined |-> Point,
   from |-> program.initial, clean |-> Point, entries |-> program.entries,
   prefix |-> <<>>, candidates |-> {}, calls |-> [p \in Point |-> <<>>]]

ExplicitSegment(word) ==
  [power |-> FALSE, word |-> word, exponent |-> [p \in Point |-> 1]]
SymbolicSegment(root, exponent) ==
  [power |-> TRUE, word |-> root, exponent |-> exponent]
Frontier(prefix) ==
  IF prefix = <<>> \/ Last(prefix).power THEN <<>> ELSE Last(prefix).word

\* An iteration by path a is recorded and compressed on arrival at the header.
Record(path, a) ==
  LET prefix == IF path.prefix = <<>> \/ Last(path.prefix).power
                THEN Append(path.prefix, ExplicitSegment(<<a>>))
                ELSE ReplaceAt(path.prefix, Len(path.prefix),
                               ExplicitSegment(Append(Last(path.prefix).word, a)))
  IN  [path EXCEPT
         !.prefix = prefix,
         !.candidates = {c.star : c \in Compression!compress_path_prefix(
                                           Frontier(prefix), MaxRoot, Beam, Evidence)}]

Only(path, points) == [path EXCEPT !.cond = @ \cap points]
Feasible(paths) == SetToSeq({path \in paths : path.cond # {}})

(***************************************************************************)
(* Ordinary execution of one iteration                                     *)
(***************************************************************************)
GoesOn(path, p) ==
  CASE program.kind = "oracle" -> Len(path.calls[p]) < program.answers[p]
    [] OTHER -> path.value[p] \in UNION {program.enabled[a] : a \in program.paths}
Asked(path, answer) ==
  IF program.kind = "oracle"
  THEN [path EXCEPT !.calls = [p \in Point |-> Append(@[p], answer)]]
  ELSE path

\* The points that take path a; where it branches on poison, none.
Along(path, a) ==
  {p \in path.cond : /\ GoesOn(path, p)
                     /\ path.value[p] \in program.enabled[a] \ program.error
                     /\ program.reads[a] => p \in path.defined}
Through(path, a) ==
  LET here == Only(Asked(path, TRUE), Along(path, a))
  IN  Record([here EXCEPT
                !.at = "backedge",
                !.value = [p \in Point |-> program.update[a][@[p]]],
                !.defined =
                   {p \in here.cond : /\ p \in @ \/ program.resets[a]
                                      /\ path.value[p] \in program.ok[a]}],
             a)
Leaving(path) ==
  [Only(Asked(path, FALSE),
            {p \in path.cond : ~GoesOn(path, p) /\ path.value[p] \notin program.error})
     EXCEPT !.at = "exit"]
Violating(path) ==
  [Only(path, {p \in path.cond : path.value[p] \in program.error})
     EXCEPT !.at = "error"]

Iterate ==
  /\ worklist # <<>> /\ Top.at = "body"
  /\ Len(Top.prefix) + Len(Frontier(Top.prefix)) < MaxIterations
  /\ Replace(Feasible({Through(Top, a) : a \in program.paths}
                        \cup {Leaving(Top), Violating(Top)}))
  /\ UNCHANGED <<program, finished, summary>>

\* The loop around it comes back to its entry.
Reenter ==
  /\ worklist # <<>> /\ Top.at = "exit" /\ Top.entries > 0
  /\ LET value == [p \in Point |-> program.again[Top.value[p]]]
     IN  Replace(<<[Top EXCEPT !.at = "entry", !.entries = @ - 1,
                      !.value = value, !.from = value, !.clean = Top.defined,
                      !.prefix = <<>>, !.candidates = {}]>>)
  /\ UNCHANGED <<program, finished, summary>>

Finish ==
  /\ worklist # <<>>
  /\ Top.at = "error" \/ (Top.at = "exit" /\ Top.entries = 0)
  /\ finished' = finished \cup {Top}
  /\ Replace(<<>>)
  /\ UNCHANGED <<program, summary>>

\* execute_phi_bundle
AfterPhis(path) == [path EXCEPT !.at = "body"]

\* Entry, no candidate, or none that is certified.
OrdinaryPhi ==
  /\ worklist # <<>> /\ Top.at \in {"entry", "backedge"}
  /\ Replace(<<AfterPhis(Top)>>)
  /\ UNCHANGED <<program, finished, summary>>

(***************************************************************************)
(* PathExpressionAccelerator::accelerate and the residual path             *)
(***************************************************************************)
JumpOver(path, star, exponent, closed) ==
  [path EXCEPT !.value = [p \in Point |-> closed[exponent[p]][@[p]]],
               !.defined = path.cond,
               !.prefix = Append(@, SymbolicSegment(star, exponent)),
               !.candidates = {}]

\* The points from which the word breaks, and the jump to where it does.
Covered(path, closed, guard) ==
  {p \in path.cond : FirstBreaks(closed, guard, path.value[p]) # {}}
FirstBreakJump(path, star, closed, guard) ==
  LET covered == Covered(path, closed, guard)
      count == [p \in Point |->
                  IF p \in covered
                  THEN CHOOSE k \in FirstBreaks(closed, guard, path.value[p]) : TRUE
                  ELSE 0]
  IN  AfterPhis(JumpOver(Only(path, covered), star, count, closed))

\* The residual path stays when Z3 does not refute it.
Accelerate ==
  /\ worklist # <<>> /\ Top.at = "backedge" /\ program.kind = "plain"
  /\ \E star \in Top.candidates :
       LET map == Composite(star)
       IN  \E closed \in CertifiedForms(map.update) :
             LET jump == FirstBreakJump(Top, star, closed, map.guard)
                 residual == AfterPhis(Only(Top, Point \ jump.cond))
             IN  /\ jump.cond # {}
                 /\ \/ Replace(<<jump, residual>>)
                    \/ residual.cond = {} /\ Replace(<<jump>>)
  /\ UNCHANGED <<program, finished, summary>>

(***************************************************************************)
(* accelerate_arbitrary_finite: the oracle may stop after any number of    *)
(* iterations, so that the path leaves the loop and nothing remains.       *)
(***************************************************************************)
\* Mutant: no other path is possible now, though one may be later.
StableNow(path, star, closed) ==
  \A p \in path.cond, a \in program.paths \ {star[1]} :
    path.value[p] \notin Transition(a).guard

Stable(path, star, closed) ==
  \A p \in path.cond, t \in 0..Horizon, a \in program.paths \ {star[1]} :
    closed[t][path.value[p]] \notin Transition(a).guard

Remaining(path, p) == program.answers[p] - Len(path.calls[p])

\* Mutant: the answer that leaves the loop is not recorded.
FiniteJumpWithoutExit(path, star, closed, guard) ==
  LET count == [p \in Point |-> IF p \in path.cond THEN Remaining(path, p) ELSE 0]
      allowed == {p \in path.cond :
                    \A t \in 0..(count[p] - 1) : closed[t][path.value[p]] \in guard}
  IN  [JumpOver(Only(path, allowed), star, count, closed) EXCEPT
         !.at = "exit",
         !.calls = [p \in Point |-> @[p] \o [i \in 1..count[p] |-> TRUE]]]

FiniteJump(path, star, closed, guard) ==
  LET count == [p \in Point |-> IF p \in path.cond THEN Remaining(path, p) ELSE 0]
      allowed == {p \in path.cond :
                    \A t \in 0..(count[p] - 1) : closed[t][path.value[p]] \in guard}
      jump == JumpOver(Only(path, allowed), star, count, closed)
  IN  [jump EXCEPT
         !.at = "exit",
         !.calls = [p \in Point |->
                      @[p] \o [i \in 1..(count[p] + 1) |-> i <= count[p]]]]

AccelerateFinite ==
  /\ worklist # <<>> /\ Top.at = "backedge" /\ program.kind = "oracle"
  /\ Top.cond \subseteq Top.defined
  /\ \E star \in Top.candidates :
       /\ Len(star) = 1
       /\ LET map == Composite(star)
          IN  \E closed \in CertifiedForms(map.update) :
                /\ Stable(Top, star, closed)
                /\ Replace(Feasible({FiniteJump(Top, star, closed, map.guard)}))
  /\ UNCHANGED <<program, finished, summary>>

(***************************************************************************)
(* build_nested_summary and accelerate_nested.  A summary is a count of    *)
(* iterations for each value on entry, guessed from the header's test      *)
(* (nested_count_template); where it is right is the summary's domain.     *)
(***************************************************************************)
NoSummary == <<>>

Domain(count, closed, guard) ==
  {v \in Value :
     /\ count[v] \in 0..Horizon
     /\ closed[count[v]][v] \notin UNION {program.enabled[a] : a \in program.paths}
     /\ \A t \in 0..(count[v] - 1) : closed[t][v] \in guard
     /\ \A t \in 0..count[v] : closed[t][v] \notin program.error}

\* One path returns to the header; errors are obligations of the domain and
\* not conditions of the path.
BuildNestedSummary ==
  /\ worklist # <<>> /\ Top.at = "entry" /\ program.kind = "family"
  /\ summary = NoSummary
  /\ \E a \in program.paths :
       /\ program.paths = {a}
       /\ LET map == Composite(<<a>>)
          IN  \E closed \in CertifiedForms(map.update), count \in program.counts :
                summary' = [word |-> <<a>>, count |-> count, closed |-> closed,
                            domain |-> Domain(count, closed, map.guard)]
  /\ UNCHANGED <<program, worklist, finished>>

\* Mutant: the incoming values may hold poison.
InDomainOfValues(path) ==
  \A p \in path.cond : path.value[p] \in summary.domain

\* The loop is completed if all points of the path are proved to be in the
\* domain, with incoming values that are defined.
InDomain(path) ==
  \A p \in path.cond : p \in path.defined /\ path.value[p] \in summary.domain
AccelerateNested ==
  /\ worklist # <<>> /\ Top.at = "entry"
  /\ summary # NoSummary
  /\ InDomain(Top)
  /\ LET count == [p \in Point |-> IF p \in Top.cond
                                   THEN summary.count[Top.value[p]] ELSE 0]
     IN  Replace(<<[Top EXCEPT
                      !.at = "exit",
                      !.value = [p \in Point |-> summary.closed[count[p]][@[p]]],
                      !.defined = Top.cond,
                      !.prefix = <<SymbolicSegment(summary.word, count)>>,
                      !.candidates = {}]>>)
  /\ UNCHANGED <<program, finished, summary>>

Init ==
  /\ program \in Programs
  /\ worklist = <<InitialPath>>
  /\ finished = {}
  /\ summary = NoSummary

Next ==
  \/ OrdinaryPhi \/ Accelerate \/ AccelerateFinite
  \/ BuildNestedSummary \/ AccelerateNested
  \/ Iterate \/ Reenter \/ Finish

Spec == Init /\ [][Next]_vars

(***************************************************************************)
(* What paths claim, against the runs of the loop                          *)
(***************************************************************************)
Power(word, exponent) == FlattenSeq([i \in 1..exponent |-> word])
Word(path, p) ==
  FlattenSeq([i \in DOMAIN path.prefix |->
                Power(path.prefix[i].word, path.prefix[i].exponent[p])])

\* The values at the header while the word is replayed, and whether the value
\* is poison.
Replay(path, p) ==
  LET word == Word(path, p)
      at[i \in 0..Len(word)] ==
        IF i = 0 THEN [value |-> path.from[p], defined |-> p \in path.clean]
        ELSE LET a == word[i]
                 before == at[i - 1]
             IN  [value |-> program.update[a][before.value],
                  defined |-> /\ before.defined \/ program.resets[a]
                              /\ before.value \in program.ok[a]]
  IN  at

Continues(value, i, p) ==
  CASE program.kind = "oracle" -> i < program.answers[p]
    [] OTHER -> value \in UNION {program.enabled[a] : a \in program.paths}

\* The recorded word, powers of jumps included, is what the loop does at each
\* point of the path, and the path's values are those of the loop: a jump
\* passes no exit, no other path and no violated assertion, and a path leaves
\* the loop where the loop does (first_break, iterations, domain, exit_guard).
Exact ==
  \A path \in Range(worklist) \cup finished : \A p \in path.cond :
    LET word == Word(path, p)
        at == Replay(path, p)
        end == at[Len(word)]
    IN  /\ \A i \in 1..Len(word) :
             /\ Continues(at[i - 1].value, i - 1, p)
             /\ at[i - 1].value \in program.enabled[word[i]] \ program.error
        /\ path.value[p] = end.value
        /\ path.at = "error" => end.value \in program.error
        /\ path.at = "exit" => /\ end.value \notin program.error
                              /\ ~Continues(end.value, Len(word), p)

\* A PHI that a path takes for defined is defined: a closed form holds a
\* mathematical value and forgets poison, so that a jump may start only where
\* there is none.
PoisonStays ==
  \A path \in Range(worklist) \cup finished : \A p \in path.cond \cap path.defined :
    Replay(path, p)[Len(Word(path, p))].defined

\* The values p may have at the header are all in a set without overflows.
Clean(p) ==
  \E S \in SUBSET {v \in Value : \A a \in program.paths :
                                   v \in program.enabled[a] => v \in program.ok[a]} :
    /\ program.initial[p] \in S
    /\ \A v \in S :
         /\ \A a \in program.paths :
              v \in program.enabled[a] \ program.error => program.update[a][v] \in S
         /\ program.entries > 0 /\ v \notin UNION {program.enabled[a] : a \in program.paths}
              => program.again[v] \in S

\* Each input that computes no poison is in exactly one path: a jump and the
\* residual path share the points of their source, and the jump over an oracle
\* needs no residual (PathAcceleration::covered).
EachPointOnce ==
  LET paths == Range(worklist) \cup finished
  IN  \A p \in Point :
        /\ Clean(p) => \E path \in paths : p \in path.cond
        /\ \A path, other \in paths :
             p \in path.cond \cap other.cond => path = other

\* A path that has left the loop carries the answers of the oracle that make
\* the program take it: what Witness.cpp prints.
EvidenceReplays ==
  program.kind = "oracle" =>
    \A path \in finished : \A p \in path.cond :
      path.calls[p] = [i \in 1..(program.answers[p] + 1) |-> i <= program.answers[p]]
=============================================================================
