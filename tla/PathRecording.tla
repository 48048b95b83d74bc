--------------------------- MODULE PathRecording ---------------------------
(***************************************************************************)
(* What the paths of one program record about the loops they go through:   *)
(* the decisions of a path (State::path_decisions), the words of completed *)
(* iterations of each loop (LoopPathExpressionState) over an alphabet that *)
(* all paths of a session share, and the symbolic powers that jumps of the *)
(* accelerator leave in them.  Values are left out: a branch goes either   *)
(* way, a jump may or may not be certified, for any number of iterations.  *)
(***************************************************************************)
EXTENDS Integers, Sequences, FiniteSets, SequencesExt

CONSTANTS
  Programs,       \* control flow graphs, see ProgramOK
  None,           \* no block, no symbol
  MaxRoot, Beam, Evidence,   \* ARITHEXE_PATH_MAX_ROOT, _BEAM, _EVIDENCE
  MaxCount        \* bound: iterations of one jump

\* PathDecisionEvent: where, and which way.  2 at a header is a child loop that
\* a jump has completed.
Event(block, part, choice) == [site |-> <<block, part>>, choice |-> choice]
Events(p) ==
  [site : p.block \X {"select", "branch", "header"}, choice : 0..2]

\* Loops are natural: entered through their header only, left or continued
\* from any block; a loop is nested in another or disjoint from it.  A loop
\* that may have a nested summary leaves from its header, to "exit", and
\* "returning" are the decisions of the one path that returns to it.
ProgramOK(p) ==
  /\ p.entry \in p.block
  /\ p.header \in [p.loop -> p.block]
  /\ p.body \in [p.loop -> SUBSET p.block]
  /\ p.latches \in [p.loop -> SUBSET p.block]
  /\ p.selects \subseteq p.block
  /\ p.succ \in [p.block -> Seq(p.block)]
  /\ p.exit \in [p.loop -> p.block]
  /\ p.iterations \in Nat   \* bound: iterations of a loop in a history
  /\ p.jumps \in Nat        \* bound: jumps of one path
  /\ p.paths \in Nat        \* bound: paths that wait at the same time
  /\ \A l \in p.loop :
       /\ p.header[l] \in p.body[l]
       /\ p.latches[l] = {b \in p.body[l] : p.header[l] \in Range(p.succ[b])}
       /\ p.entry \notin p.body[l]
       /\ p.returning[l] # None =>
            /\ p.returning[l] \in Seq(Events(p))
            /\ p.exit[l] \in Range(p.succ[p.header[l]]) \ p.body[l]
       /\ \A b \in p.block \ p.body[l] :
            Range(p.succ[b]) \cap p.body[l] \subseteq {p.header[l]}
  /\ \A l, m \in p.loop :
       l # m => /\ p.header[l] # p.header[m]
                /\ \/ p.body[l] \cap p.body[m] = {}
                   \/ p.body[l] \subseteq p.body[m]
                   \/ p.body[m] \subseteq p.body[l]

ASSUME PathAssumption ==
  /\ \A p \in Programs : ProgramOK(p) /\ None \notin p.block
  /\ {MaxRoot, Beam, Evidence, MaxCount} \subseteq Nat \ {0}

VARIABLES
  program,    \* the program at hand
  worklist,   \* the paths, the next one first
  alphabet,   \* loop_path_alphabets: words of decisions and their symbols
  nextSymbol, \* next_path_symbol
  summaries   \* nested_path_summaries: the macro symbol of a loop, or None

vars == <<program, worklist, alphabet, nextSymbol, summaries>>

Compression == INSTANCE PathExpression

Loop == program.loop
Header(l) == program.header[l]
Body(l) == program.body[l]
Latches(l) == program.latches[l]
Succ(b) == program.succ[b]

Innermost(l) == \A m \in Loop : Body(m) \subseteq Body(l) => m = l
Nested(l) ==
  \E m \in Loop \ {l} : Body(m) \subseteq Body(l) \/ Body(l) \subseteq Body(m)
Around(l) == {m \in Loop \ {l} : Header(l) \in Body(m)}

(***************************************************************************)
(* LoopPathExpressionState                                                 *)
(***************************************************************************)
ExplicitSegment(word) == [power |-> FALSE, word |-> word, exponent |-> 1]
SymbolicSegment(root, exponent) ==
  [power |-> TRUE, word |-> root, exponent |-> exponent]

NoHistory == [prefix |-> <<>>, candidates |-> {}, cursor |-> 0, started |-> FALSE]

AppendSymbol(prefix, symbol) ==
  IF prefix = <<>> \/ Last(prefix).power
  THEN Append(prefix, ExplicitSegment(<<symbol>>))
  ELSE ReplaceAt(prefix, Len(prefix),
                 ExplicitSegment(Append(Last(prefix).word, symbol)))

concrete_frontier(prefix) ==
  IF prefix = <<>> \/ Last(prefix).power THEN <<>> ELSE Last(prefix).word

\* The symbols of all iterations a prefix stands for.
Power(word, exponent) == FlattenSeq([i \in 1..exponent |-> word])
Expand(prefix) ==
  FlattenSeq([i \in 1..Len(prefix) |-> Power(prefix[i].word, prefix[i].exponent)])

(***************************************************************************)
(* The alphabet of a loop.  Symbols are unique over all loops.             *)
(***************************************************************************)
Interned(l, decisions) == \E e \in alphabet[l] : e.decisions = decisions
SymbolOf(table, l, decisions) ==
  (CHOOSE e \in table[l] : e.decisions = decisions).symbol
DecisionsOf(table, l, symbol) ==
  (CHOOSE e \in table[l] : e.symbol = symbol).decisions
\* The iterations that a word stands for.
Spelled(table, l, word) ==
  [j \in 1..Len(word) |-> DecisionsOf(table, l, word[j])]

\* Mutant: a numbering for each loop of its own.
InternPerLoop(l, decisions) ==
  IF Interned(l, decisions)
  THEN UNCHANGED <<alphabet, nextSymbol>>
  ELSE /\ alphabet' = [alphabet EXCEPT
                         ![l] = @ \cup {[decisions |-> decisions,
                                         symbol |-> Cardinality(@) + 1]}]
       /\ nextSymbol' = nextSymbol + 1

intern_loop_path(l, decisions) ==
  IF Interned(l, decisions)
  THEN UNCHANGED <<alphabet, nextSymbol>>
  ELSE /\ alphabet' = [alphabet EXCEPT ![l] = @ \cup {[decisions |-> decisions,
                                                       symbol |-> nextSymbol]}]
       /\ nextSymbol' = nextSymbol + 1

\* A branch-free iteration has one path all the same.
PathOf(l, decisions) ==
  IF decisions = <<>> THEN <<Event(Header(l), "header", 0)>> ELSE decisions

(***************************************************************************)
(* Paths.  "part" is how far the path is in its block: its PHIs, its       *)
(* select, its terminator.  trace is the last block left; "open" and       *)
(* "done" are history variables: the events since a loop's header was last *)
(* reached, and those of the iterations its invocation has completed.      *)
(***************************************************************************)
InitialPath ==
  [block |-> program.entry, part |-> "phi", trace |-> None,
   path_decisions |-> <<>>,
   loop_path_expressions |-> [l \in Loop |-> NoHistory],
   open |-> [l \in Loop |-> <<>>], done |-> [l \in Loop |-> <<>>],
   jumps |-> 0, skipped |-> {}]

Top == worklist[1]
Replace(paths) == worklist' = paths \o Tail(worklist)

\* Events happen in every loop around the block.
Happen(path, events) ==
  [path EXCEPT !.open = [l \in Loop |-> IF path.block \in Body(l)
                                        THEN @[l] \o events ELSE @[l]]]
Decide(path, event) ==
  [Happen(path, <<event>>) EXCEPT !.path_decisions = Append(@, event)]

\* What reaching the header of l means for its iterations.
Reached(path, l) ==
  IF path.trace \in Body(l)
  THEN [path EXCEPT !.done[l] = Append(@, PathOf(l, path.open[l])), !.open[l] = <<>>]
  ELSE [path EXCEPT !.done[l] = <<>>, !.open[l] = <<>>,
                    !.skipped = @ \ {l}]

LeaveTo(path, b) ==
  [path EXCEPT !.trace = path.block, !.block = b, !.part = "phi"]

\* Mutant: a new invocation goes on with the old history.
VisitedAgain(path, l) ==
  LET history == path.loop_path_expressions[l]
  IN  IF history.started THEN history
      ELSE [history EXCEPT !.cursor = Len(path.path_decisions), !.started = TRUE]
\* record_completed_loop_path, up to the symbol: a new invocation starts a new
\* history, and the first visit of the header only sets the cursor.
Visited(path, l) ==
  LET history == IF path.trace # None /\ path.trace \notin Body(l)
                 THEN NoHistory ELSE path.loop_path_expressions[l]
  IN  IF history.started THEN history
      ELSE [history EXCEPT !.cursor = Len(path.path_decisions), !.started = TRUE]

IsBackEdge(path, l) == path.trace # None /\ path.trace \in Latches(l)
Since(path, l) ==
  SubSeq(path.path_decisions, Visited(path, l).cursor + 1, Len(path.path_decisions))

\* The rest of it: the completed iteration has "symbol".
Recorded(path, l, symbol) ==
  LET prefix == AppendSymbol(Visited(path, l).prefix, symbol)
  IN  [Visited(path, l) EXCEPT
         !.cursor = Len(path.path_decisions),
         !.prefix = prefix,
         !.candidates = Compression!compress_path_prefix(
                          concrete_frontier(prefix), MaxRoot, Beam, Evidence)]

(***************************************************************************)
(* AInstructionPhi::execute at a loop header                               *)
(***************************************************************************)
AtHeader(l) ==
  /\ worklist # <<>>
  /\ Top.part = "phi" /\ Top.block = Header(l)

EntersFamily(l) ==
  AtHeader(l) /\ Nested(l) /\ Top.trace # None /\ Top.trace \notin Body(l)

\* build_nested_summary explores the one path that returns to the header; the
\* decisions of its branches and of the children it completes are the macro
\* symbol of the loop.  The first summary is kept for the session.
BuildNestedSummary(l) ==
  /\ EntersFamily(l)
  /\ summaries[l] = None
  /\ program.returning[l] # None
  /\ \A m \in Loop \ {l} : Body(m) \subseteq Body(l) => summaries[m] # None
  /\ intern_loop_path(l, PathOf(l, program.returning[l]))
  /\ \/ summaries' = [summaries EXCEPT
                        ![l] = SymbolOf(alphabet', l, PathOf(l, program.returning[l]))]
     \/ UNCHANGED summaries   \* not certified
  /\ UNCHANGED <<program, worklist>>

\* accelerate_nested: the loop is completed after k iterations, without a
\* history of its own and with one decision for the loops around it.
AccelerateNested(l) ==
  /\ EntersFamily(l)
  /\ Top.jumps < program.jumps
  /\ summaries[l] # None
  /\ \E k \in 0..MaxCount :
       LET word == <<summaries[l]>>
           history == [NoHistory EXCEPT !.prefix = <<SymbolicSegment(word, k)>>]
           entered == Reached(Top, l)
           ran == [entered EXCEPT
                     !.done[l] = [i \in 1..k |-> DecisionsOf(alphabet, l, summaries[l])],
                     !.loop_path_expressions[l] = history,
                     !.jumps = @ + 1]
           around == [ran EXCEPT
                        !.open = [m \in Loop |->
                                    IF m \in Around(l)
                                    THEN Append(@[m], Event(Header(l), "header", 2))
                                    ELSE @[m]],
                        !.path_decisions =
                           Append(@, Event(Header(l), "header", 2))]
       IN  Replace(<<LeaveTo(around, program.exit[l])>>)
  /\ UNCHANGED <<program, alphabet, nextSymbol, summaries>>

\* The path goes on with the first instruction after the PHIs.
AfterPhis(path) == [path EXCEPT !.part = "select"]

\* The first visit of the header in this invocation.
EnterLoop(l) ==
  /\ AtHeader(l) /\ ~IsBackEdge(Top, l)
  /\ Replace(<<AfterPhis([Reached(Top, l) EXCEPT
                            !.loop_path_expressions[l] = Visited(Top, l)])>>)
  /\ UNCHANGED <<program, alphabet, nextSymbol, summaries>>

\* PathExpressionAccelerator::accelerate on one candidate: the path that
\* repeats the starred word k times.
Jump(path, l, history, candidate, k) ==
  LET slices == Power(Spelled(alphabet', l, candidate.star), k)
  IN  [path EXCEPT
         !.loop_path_expressions[l] =
            [history EXCEPT !.prefix = Append(@, SymbolicSegment(candidate.star, k)),
                            !.candidates = {}],
         !.done[l] = @ \o slices,
         !.open = [m \in Loop |-> IF m \in Around(l)
                                  THEN @[m] \o FlattenSeq(slices) ELSE @[m]],
         !.jumps = @ + 1,
         !.skipped = @ \cup Around(l)]

\* An iteration is complete.  Candidates of a loop without children are tried
\* in order, so that any of them may be the first that is certified; then the
\* path that jumps and the residual path, unless it is infeasible, replace this
\* one.
CompleteIteration(l) ==
  /\ AtHeader(l) /\ IsBackEdge(Top, l)
  /\ Len(Top.done[l]) < program.iterations
  /\ intern_loop_path(l, PathOf(l, Since(Top, l)))
  /\ LET symbol == SymbolOf(alphabet', l, PathOf(l, Since(Top, l)))
         history == Recorded(Top, l, symbol)
         here == AfterPhis([Reached(Top, l) EXCEPT !.loop_path_expressions[l] = history])
     IN  \/ Replace(<<here>>)
         \/ /\ Innermost(l) /\ Top.jumps < program.jumps
            /\ \E c \in history.candidates, k \in 1..MaxCount :
                 \/ Replace(<<Jump(here, l, history, c, k)>>)
                 \/ /\ Len(worklist) < program.paths
                    /\ Replace(<<Jump(here, l, history, c, k), here>>)
  /\ UNCHANGED <<program, summaries>>

PlainBlock ==
  /\ worklist # <<>>
  /\ Top.part = "phi" /\ \A l \in Loop : Top.block # Header(l)
  /\ Replace(<<AfterPhis(Top)>>)
  /\ UNCHANGED <<program, alphabet, nextSymbol, summaries>>

(***************************************************************************)
(* AInstructionSelect, AInstructionBranch, AInstructionReturn              *)
(***************************************************************************)
\* The sides of a decision that are feasible.
Fork(sides) ==
  \/ Len(worklist) < program.paths /\ Replace(sides)
  \/ \E i \in 1..2 : Replace(<<sides[i]>>)

Select ==
  /\ worklist # <<>>
  /\ Top.part = "select"
  /\ LET next == [Top EXCEPT !.part = "branch"]
         side(i) == Decide(next, Event(Top.block, "select", i - 1))
     IN  IF Top.block \in program.selects
         THEN Fork(<<side(1), side(2)>>)
         ELSE Replace(<<next>>)
  /\ UNCHANGED <<program, alphabet, nextSymbol, summaries>>

Branch ==
  /\ worklist # <<>>
  /\ Top.part = "branch" /\ Succ(Top.block) # <<>>
  /\ LET side(i) == LeaveTo(Decide(Top, Event(Top.block, "branch", i - 1)),
                            Succ(Top.block)[i])
     IN  IF Len(Succ(Top.block)) = 1
         THEN Replace(<<LeaveTo(Top, Succ(Top.block)[1])>>)
         ELSE Fork(<<side(1), side(2)>>)
  /\ UNCHANGED <<program, alphabet, nextSymbol, summaries>>

Return ==
  /\ worklist # <<>>
  /\ Top.part = "branch" /\ Succ(Top.block) = <<>>
  /\ Replace(<<>>)
  /\ UNCHANGED <<program, alphabet, nextSymbol, summaries>>
Init ==
  /\ program \in Programs
  /\ worklist = <<InitialPath>>
  /\ alphabet = [l \in Loop |-> {}]
  /\ nextSymbol = 1
  /\ summaries = [l \in Loop |-> None]

Next ==
  \/ \E l \in Loop : \/ BuildNestedSummary(l) \/ AccelerateNested(l)
                     \/ EnterLoop(l) \/ CompleteIteration(l)
  \/ PlainBlock \/ Select \/ Branch \/ Return

Spec == Init /\ [][Next]_vars

-----------------------------------------------------------------------------
\* Whatever the order in which paths meet new iterations, a symbol names one
\* loop and one word of decisions, and a word of a loop has one symbol
\* (VerificationSession::intern_loop_path).
SymbolsIdentify ==
  \A l, m \in Loop : \A e \in alphabet[l], f \in alphabet[m] :
    /\ e.symbol = f.symbol => l = m
    /\ l = m => (e.symbol = f.symbol <=> e.decisions = f.decisions)

\* The prefix a path keeps for a loop stands for exactly the iterations that
\* its present invocation has completed, jumps included, and the decisions
\* behind the cursor are those of the iteration under way.  Not so for a loop
\* around one that a candidate has accelerated: that jump leaves no decision.
PrefixExact ==
  \A i \in 1..Len(worklist) : \A l \in Loop \ worklist[i].skipped :
    LET path == worklist[i]
        history == path.loop_path_expressions[l]
        word == Expand(history.prefix)
    IN  /\ path.done[l] = Spelled(alphabet, l, word)
        /\ path.part # "phi" /\ path.block \in Body(l)
             => path.open[l] = SubSeq(path.path_decisions, history.cursor + 1,
                                      Len(path.path_decisions))

\* A candidate Q w* has the evidence Q w^r: what the loop has done since the
\* last jump; w is primitive, no longer than the bound, and r reaches the
\* threshold unless no suffix does.
EvidenceExact ==
  \A i \in 1..Len(worklist) : \A l \in Loop :
    LET history == worklist[i].loop_path_expressions[l]
        frontier == concrete_frontier(history.prefix)
        repeated(k) == /\ Evidence * k <= Len(frontier)
                       /\ SubSeq(frontier, Len(frontier) - Evidence * k + 1, Len(frontier))
                            = Compression!Power(SubSeq(frontier, Len(frontier) - k + 1,
                                                       Len(frontier)), Evidence)
    IN  \A c \in history.candidates :
          /\ Compression!expand_path_powers(
                Append(c.closed_prefix,
                       [root |-> c.star, exponent |-> c.observed_star_exponent]))
               = frontier
          /\ Len(c.star) \in 1..MaxRoot
          /\ Compression!is_primitive_path_word(c.star)
          /\ \/ c.observed_star_exponent >= Evidence
             \/ \A k \in 1..MaxRoot : ~repeated(k)

\* Every way to write the first n symbols as powers of words.
Factorisations(word) ==
  LET Extended(powers, m, k, n) ==
        {Append(powers, [root |-> SubSeq(word, m + 1, m + k), exponent |-> r]) :
           r \in {r \in 1..n : /\ m + k * r = n
                              /\ SubSeq(word, m + 1, n)
                                   = Compression!Power(SubSeq(word, m + 1, m + k), r)}}
      splits[n \in 0..Len(word)] ==
        IF n = 0 THEN {<<>>}
        ELSE UNION {UNION {UNION {Extended(f, m, k, n) : f \in splits[m]} :
                             k \in 1..Min({MaxRoot, n - m})} : m \in 0..(n - 1)}
  IN  splits[Len(word)]
Cost(powers) ==
  FoldLeft(LAMBDA sum, p : sum + Compression!block_cost(p.root, p.exponent), 0, powers)

\* The compression is of least cost: no factorisation of what comes before the
\* repetitions of a starred word is cheaper than that of the candidate; and no
\* word that ends the frontier as often as the candidates' was left out for a
\* dearer one, nor for less than the beam.
MinimumCost ==
  \A i \in 1..Len(worklist) : \A l \in Loop :
    LET history == worklist[i].loop_path_expressions[l]
        frontier == concrete_frontier(history.prefix)
        found == history.candidates
        before(c) == SubSeq(frontier, 1, Len(frontier)
                              - Len(c.star) * c.observed_star_exponent)
        threshold == IF \E c \in found : c.observed_star_exponent >= Evidence
                     THEN Evidence ELSE 1
    IN  /\ \A c \in found :
             /\ \A f \in Factorisations(before(c)) :
                  Cost(c.closed_prefix) <= Cost(f)
             /\ c.score = Cost(c.closed_prefix)
                            + Compression!block_cost(c.star, c.observed_star_exponent)
        /\ Cardinality(found) <= Beam
        /\ found # {} =>
             \A d \in Compression!CandidatesWith(frontier, MaxRoot, threshold) \ found :
               /\ Cardinality(found) = Beam
               /\ \A c \in found : c.score <= d.score
=============================================================================
