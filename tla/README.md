# ArithExe: models, checks and proofs

ArithExe verifies C programs by symbolic execution over LLVM IR, with Z3 as
the decision procedure and a recurrence solver that turns loops and recursive
functions into closed forms. This directory holds TLA+ models of its parts,
the TLC configurations that check them on small instances, and proofs of the
results that matter most. Paths such as `lib/engine.cpp` are relative to the
repository.

## The system

| part | where | state it keeps | operations | what makes it correct |
|---|---|---|---|---|
| engine worklist | `lib/engine.cpp`, `include/engine.h` | a stack of path states, results, first issue, violation, counterexample, certificates, entry | `set_entry`, `verify`, `run`, `verify(state)`, `test` | TRUE, FALSE and the counterexample are right; no path is lost; it ends |
| path state | `lib/state.*` | pc, status, path condition, memory, decisions, nondet calls, imprecision flags, certificates | `append_path_condition`, `step_pc`, `execute_phi_bundle`, `get_model`, `is_concrete` | a path condition describes the executions of the path; flags never get lost |
| instructions | `lib/AInstruction.*` | none of their own (one object per LLVM instruction) | `execute` of each kind | successors cover the path and are disjoint |
| loop summariser | `lib/LoopSummarizer.*`, `lib/LoopSummary.*` | loop states, exit states, invariants, the summary | `get_summary`, `prove_invariants` | a summary is exact or marked as an over-approximation |
| function summariser | `lib/FunctionSummarizer.*`, `lib/FunctionSummary.*` | recursion paths, base cases, the summary | `get_summary` | as above |
| path expressions | `lib/PathExpression.*`, `PathRecording` in `AInstruction.cpp` | per-path decision prefix, per-loop alphabet | intern, record, compress | a compressed expression denotes the recorded prefix |
| path accelerator | `lib/PathAccelerator.*` | certified transformations, nested summaries | `accelerate`, `accelerate_nested` | a jump covers exactly its region |
| recurrence-solver client | `lib/rec_solver.cpp` | worker pid, two pipes, next id, cache | `solve`, `start`, `stop`, `send_solve_request` | an answer belongs to its request; no worker is left behind |
| solver worker | `solver_worker.py` | its two pipes | `serve`, `handle_solve` | one response per request |
| function cache | `lib/cache.*` | values by function and arguments, visited set | `get_func_value`, `cache_func_value`, `mark_visited` | a cached value is what the call would return |
| memory | `lib/Memory.*`, `lib/MStack.*`, `lib/MemoryObject.*` | globals, heap, frames, temporaries | `push_frame`, `pop_frame`, `put_temp`, `allocate`, read and write | a path reads what it wrote; copies do not share |
| expressions, logic | `lib/Expr.*`, `lib/logics.cpp` | piecewise terms | term algebra, `is_feasible` | term rewriting over Z3 |
| integer semantics | `lib/IntegerSemantics.h`, `lib/RelaxedIntegerSemantics.h` | none | encodings of width and overflow | defined exactly when C is |
| session | `lib/VerificationSession.*` | every cache that outlives a path, the active session | `activate`, `clear_module_state` | nested activations restore; nothing of an old module survives |
| frontend | `lib/AnalysisManager.*`, `lib/common.*` | LLVM analyses | parse, run passes | - |
| witness writer | `lib/Witness.cpp` | none | builds YAML | certificates in the witness are true |
| driver | `tools/arith_exe.cpp` | options | `main` | prints the verdict |
| Python solver | `solver.py`, `rec_solver/` | none | solves recurrences | computer algebra |

The engine pops a path state, acts on its status, and otherwise lets the
instruction at its pc produce the successors. A call instruction may start the
function summariser, a PHI node at a loop header the loop summariser or the
accelerator; these run symbolic execution of their own, ask the recurrence
solver for closed forms over a pair of pipes, and answer with a summary that is
applied to the path. The function cache and the other session tables are
shared by all paths.

Hard behaviour: early termination with paths left over; a solver that answers
"unknown"; imprecision that must follow every copy of a path; feasibility that
is not tested after some instructions; summaries that hide assertions, inputs
or exits; a worker process that dies, is slow, or answers late. The list in
`PROJECT.json` under `hazards` gives each at its line.

## Modules

`Program` says what the engine is run on. A *point* is a valuation of all
symbolic constants; a path condition is a set of points; a query is a test for
emptiness. A program is a graph of instructions; `bad[n]` is the set of points
that go wrong from node `n` on, and `WellFormed` requires it to be consistent
with the meaning of each instruction (`WrongAt`). What a summary and a jump
promise is in `SummaryOK` and `CertifiedJump`. `NothingDropped` and
`NothingInvented` name the programs on which the engine's shortcuts are sound.

`Verifier` is the abstract specification: a client asks, and the answer TRUE or
FALSE is right, or no answer comes.

`Engine` models `lib/engine.cpp` with the control effect of
`lib/AInstruction.cpp`. One action per status that `run` pops (`PopTerminated`
... `PopFail`), one per instruction kind (`Branch` ... `Terminate`), `Verify`
for the start of a run, `Exhausted` for its ordinary end, and `Throw` for an
exception that leaves `Engine::verify`. The variables are the fields of
`Engine`: `states`, `results`, `issue`, `violation`, `cex`
(counterexample_inputs), `certificates`, `entry`; `phase`, `verdict` and
`crash` say whether and how `verify` returned. A path state has the fields of
`State` the engine's decisions depend on: `pc`, `prev`, `status`, `cond`
(path_condition), `approx` (is_over_approx), `complete`
(counterexample_complete), `certs`. Switches: `Debug` (is `assert` compiled in),
`SolverGivesUp` and `ProbeGivesUp` (may Z3 answer unknown to the engine, and to
the `is_feasible` probe of a call), `MaxRuns` (bound on calls of `verify`).

`MCEngine` builds the programs for TLC; `EngineProofs` holds the proofs.

`SolverWorker` models `RecurrenceSolverWorker` of `lib/rec_solver.cpp` and
`solver_worker.py` as processes with two pipes between them. `pid`, `nextId` and
`cache` are the fields of the client; `step` is where its thread is inside
`solve` or `stop`, and `req`, `attempt`, `id`, `unsent`, `head`, `failure` are
the variables that live there. `procs` holds every worker started: what it is
doing, what is in its pipes, whether the client holds its ends and whether it
was sent SIGTERM. Each `poll`, read and write is an action, so that a worker can
answer, die or hang between any two of them. A pipe buffers `Capacity` writes; a
header line and the induction variable take one write each, a recurrence `Size`
of them. One thread calls `solve` at a time (the mutex `mu`, and sessions belong
to a thread). The translation between Z3 terms and text is left out: an answer
is the recurrence it solves, which is all that the protocol may confuse.
Tracing to files is left out. `MCSolverWorker` instantiates it,
`SolverWorkerProofs` proves about it.

In `Engine`, instructions that only rewrite terms (arithmetic, loads, stores,
casts, GEP) change neither status nor path condition and have no node. The
noundef operand of a call, the definedness of a branch or an assertion, and the
inputs a summary hides are kept, because the properties tell them apart.

`CallPrograms` is a small language of functions, with calls, branches, local,
heap and global objects and nondet inputs, and its semantics: `Outcome` is what
the program does on one choice of inputs, `OutcomeOfCall` what a call of one
function with given arguments returns. It knows nothing of frames that share a
vector, of path conditions or of a cache. `WellFormed` is what LLVM's verifier
guarantees of the module the frontend loads: operands have the type their
instruction asks for, and a name is used only where every way through the
function has given it a value (`Available`); and, as clang compiles locals, that
allocas stand in the entry block (`AllocaOK`). `Direct` programs are those that
`Calls` gets right for a reason that can be proved: nothing is ever cached
(`Uncached`: what is called takes a pointer or returns nothing), a name stands for
one object (`OneObjectEach`), and each access is defined (`AccessOK`: an index is
applied to the start of an object, a load or store hits one of its cells).

`Calls` is the symbolic machine for these programs. A path has a stack of
frames (`MStack::StackFrame`), one vector of stack objects for all frames, the
heap and the globals in a second one (`Memory::m_objects`); `prev`, `base` and
`temps` are `prev_pc`, `base` and `temp_objects` of a frame. `Alloca`, `Malloc`,
`Gep`, `Load`, `Store`, `Arithmetic` and `Input` are the instructions;
`CallCached`, `CallUnknown` and `CallBody` the ways `AInstructionCall` takes for
a defined function, `Return`, `ReturnThrows` and `ReturnMain` those of
`AInstructionReturn`. `cache` and `visited` are the fields of `Cache`, which all
paths share: a return on one path leaves a value that a call on another, explored
later, finds. `MCCalls` has the programs, `CallsProofs` the proofs.

`PathExpression` is `lib/PathExpression.cpp`: the costs, the table of cheapest
factorisations with its tie-breaks (`FactorTable`, a function from positions to
choices), the walk backwards and `compress_path_prefix`. It is a module of
operators that `PathRecording` and `Accelerator` instantiate.

`PathRecording` follows the paths of a control flow graph through nested loops
without values: a branch goes either way, and a jump may be certified for any
number of iterations. A path has `decisions` (`State::path_decisions`) and for
each loop the cursor and the prefix of `LoopPathExpressionState`; `alphabet`,
`nextSymbol` and `summaries` are the tables of the session that all paths share.
`Branch`, `Fork`, `Select`, `PlainBlock`, `Return` are the instructions;
`EnterLoop`, `CompleteIteration` and `Jump` what happens at a loop header. The
variable `open` of a path and its companions `done` and `skipped` are history
variables: what the loop really did in its present invocation, with which the
properties compare. The candidates of a history are a set: the code tries them in
an order, but any of them may be the first that is certified, so that the order is
not seen here. `MCPaths` has the graphs, `PathRecordingProofs` the proof.

`Accelerator` is the loop with its values: `accelerate`,
`accelerate_arbitrary_finite` and the nested summaries of
`lib/PathAccelerator.cpp`, and what `AInstructionPhi::execute` does with them. A
value stands for all header PHIs together, a path of the body is one symbol.
The recurrence solver may propose any closed form, also a wrong one
(`ProposedForms`), and certification (`certify_closed_forms`) decides; the
Z3 queries behind a first break, a stable path or a residual may all give up.
`from` and `clean` of a path are history: where this entry of the loop started and
at which points without poison. `candidates` of a path are the starred words of
`compress_path_prefix`, of which the code tries one after the other until one is
certified: that any may be given up makes their order immaterial, so that they
are a set. `answers[p]`, how often the oracle says "go on", is at most the number
of values, after which a trajectory repeats itself. `MCAccelerator` has the loops,
`AcceleratorProofs` the proofs.

`LoopSummary` is `lib/LoopSummarizer.cpp`: `LoopExecution::run` over one
iteration of a loop with its queue of states, and what its clients do with the
final and exit states: the scalar summary and its application in
`AInstructionPhi::execute_if_summarizable` (client "summarizer"), or the
transitions of the accelerator ("accelerator"). The body may ask
`__VERIFIER_nondet` once. `states`, `final_states`, `exit_states` and
`saw_unknown` are the fields of the code; `outcome` is what the client makes of
them. Closed forms, invariants and the number of iterations may each be found or
not. `Iteration` and `RunOf` are the loop itself, instruction by instruction.
`LoopOK` is what an LLVM function gives: a block's instructions follow each other,
its terminator is the last of them and goes to the first instruction of a block.
`MCLoops` has the loops, `LoopSummaryProofs` the proofs.

`FunctionSummary` is `lib/FunctionSummarizer.cpp`: `RecExecution::run` over the
members of an SCC, base cases and tail calls from the blocks a path has left,
`summarize_pointers` with its application to the calls of a path in
`AInstructionCall::execute_normal`, and the request that
`prepare_rec_solver_naive` or `_unfold` sends. A value is what the pointers
point to, or the argument. `states` and `final` are the code's `states` and
`final_states`; `outcome` is the summary, then what it lets through, or the
request. Which relations Z3 proves inductive, and whether the recurrence is
solved, is open. The guard that `summarize_pointers` builds for step N - 1 is
about an application that occurs nowhere else (its parameters have been replaced
before), and constrains nothing. Which instructions a path has left is read off the
blocks in its trace (`Left`, `CallsIn`), as in the code. The reference is `RunOf`, the
program's own recursion. `ProgramOK` is what LLVM gives of a function without loops, as
`LoopOK` of `LoopSummary`, with blocks that lead to later ones; a call of a function
of pointers hands the pointers on as they are. `MCFunctions` has the functions,
`FunctionSummaryProofs` the proofs.

`IntegerSemantics` is both headers of that name and the instructions of
`lib/AInstruction.cpp` that use them. A register holds what its Expression
evaluates to, a mathematical integer with a definedness flag, next to the bits
and the poison of the machine. One action per kind of instruction appends a
register; the mode is exact, summarising or relaxed. `execute` reads the flags before
it looks at the operation (`lib/AInstruction.cpp:576-578`): `isExact` is the bit of
the optional data that an operation without an exact flag has its nuw in, since the
cast behind it is checked in an LLVM with assertions only, where the program would
abort at the first addition.

Choices made in `Calls`:

- an integer of a path is the function from points (choices of all inputs) to
  values, so that a path condition is a set of points, and `is_concrete`,
  `is_numeral` and `get_model` are what they are for Z3;
- functions have no summary here (`Engine` has the calls a summary answers), so
  that a recursive function called with arguments that are no numerals is
  `UNKNOWN`; there are no PHI nodes, so that a loop counts in memory and is executed
  iteration by iteration; the test of both sides of a branch is part of `Branch`;
- `pop_frame` returns a reference into a frame it has just removed. With the
  deque of libstdc++ the storage stays and `prev_pc` is read as it was, which is
  the outcome the model takes;
- `ReturnThrows` is the exception that `as_expr` raises for a pointer parameter,
  which has no term;
- `IsConcrete` evaluates with model completion, as `execute_cache` does;
  `cache_func_value` evaluates without (`lib/AInstruction.cpp:1525`), which differs
  for terms the model says nothing of only;
- cells that were never written have one fixed value, and the programs write
  before they read; `memcpy`, objects of several dimensions, their sizes and the
  names of unknown contents are left out.

What the other modules leave out of the operations they model:

- `Jump` of `PathRecording`: `accelerate` interns every one-iteration path that it
  enumerates (`lib/PathAccelerator.cpp:233-241`, 291). The alphabet gets symbols
  that are not on any path yet, of which the invariants say nothing;
- `step` of `LoopSummary`: an assumption narrows the path condition. In the code a
  function that is only declared is an unknown call before it can be anything else
  (`lib/LoopSummarizer.cpp:178-200`), so that the condition of an assume is dropped, and
  `LoopState::append_path_condition` asserts that it is at a branch or a select
  (`lib/state.cpp:205-209`). No loop of a run assumes anything; `MCAssuming` shows what
  a summary would make of an assumption that is kept;
- `initial_` of `FunctionSummary`: the members of an SCC name their argument alike. The
  code substitutes the arguments of the last one only
  (`lib/FunctionSummarizer.cpp:486`, 514-521), and takes a path for a base case where Z3
  answers unknown (542);
- `TailCall` of `FunctionSummary`: the code counts each call whose name lacks
  `__VERIFIER` (636-642) and looks at the returned value alone (494-497); the
  functions here call nothing but each other;
- `Reap` of `SolverWorker`: a worker without the packages it needs becomes another
  interpreter (`solver_worker.py:84`), in the last resort `conda run` (46), a wrapper
  whose end need not be that of the computation it has started. `NoOrphan` is about the
  process that the client has the pid of.

## Runs

The engine runs use three instructions in a row (`n1`, `n2`, `n3`), each going
on to a later one, to an error call or to the return, and three points: two
inputs and one valuation that only an over-approximation admits. Two
instructions before the one that fails are needed for a first instruction to
make a path imprecise, infeasible or split, and a second to depend on it; two
inputs distinguish the two sides of a split; more of the same adds no new case,
because every action looks at one path and one instruction at a time.

| run | shows |
|---|---|
| `engine_sound` | every ordered pair of instruction kinds before an error, assertion or call: no failing input is lost (`Coverage`), precise paths hold real inputs (`PreciseReal`), verdicts (`TrueSound`, `FalseSound`) and counterexamples (`CounterexampleReal`) are right, and `Engine` implements `Verifier`. Z3 may give up, except in the probe |
| `engine_any` | two runs on one engine, everything may give up, every unsound summary allowed: no input is on the worklist twice (`EachInputOnce`), every UNKNOWN has an issue (`UnknownExplained`), each run ends (`Terminates`) |
| `solver_small` | three calls or resets, a recurrence that fits into the pipe with QUIT and one that does not, any number of deaths, failed starts and late answers: between calls the pipes are empty and the worker waits (`CleanWhenIdle`), a response that can be read is the current request's (`AnswersInStep`), answers and cache entries solve their recurrence (`AnswerFits`), at most the worker in use is alive (`NoOrphan`), a death between calls fails no call (`FailureIsFresh`), every call returns, or is in a write of a request too long for the pipe, or of the QUIT behind it, that no poll bounds (`ReturnsOrBlocks`) |
| `calls_pure` | 46 programs whose functions depend on their arguments alone: recursion, local arrays with symbolic indices, locals and globals passed by reference, heap objects, a loop that counts in a local, and a `main` that calls `f` with inputs, with values a branch has fixed, on both sides of a branch, and around a store to a global. Objects belong to the frame that can name them and pointers of waiting frames live (`FramesSound`), inputs are explored once (`EachPointOnce`), cached values are those the calls return (`CacheRight`), ended paths say what the program does (`ResultRight`), a run with nothing but terminated paths is of a safe program (`SafeIsSafe`) |
| `calls_global` | `f` reads a global; the second call gets the value the first one had before a store, and an error is missed |
| `paths` | six graphs: one loop with two back edges and up to seven iterations, jumps, forks and a select, an endless loop, two nested loops with and without a summary of the inner one. A symbol names one iteration (`SymbolsIdentify`), the prefix is what the invocation has done (`PrefixExact`), a candidate's evidence is what came since the last jump (`EvidenceExact`) and of least cost (`MinimumCost`) |
| `accel` | eleven loops: counting, two paths in turn, in phases, overflows, oracles, loops inside a loop with assertions. The path's values are those of the loop at each input (`Exact`), an input is in one path (`EachPointOnce`), poison is not forgotten (`PoisonStays`), the oracle's answers replay (`EvidenceReplays`) |
| `loops` | fourteen loops with up to three iterations: every run that leaves the loop goes on behind a summary (`RunsContinue`), an exact summary adds none (`ResultsReal`), a state that calls itself complete has all answers (`EvidenceCounts`), the recurrence's counter of answers moves on exactly on the paths that ask (`CountersFollow`), the accelerator's transitions are the iterations (`TransitionsExact`) |
| `loops_do_while` | a loop that is left from its latch has no exit state, and its summary lets no run go on (`RunsContinue`) |
| `ints` | runs of two instructions from two inputs of two or three bits, through every operation, flag, comparison and cast in all modes: the Expression stands for the machine's value (`Represents`), but for the instructions that `Included` names |
| `functions` | five functions of two pointers, called at five contents each, five of an integer, one of them a pair of mutually recursive ones: paths are exact and base cases are those without a call (`CasesExact`), what one call leaves behind is among what a summary lets through (`CallsCovered`), the recurrence and the initial values that are sent to the solver are true (`RequestTrue`), the execution ends (`RunEnds`) |
| `functions_tail` | a store behind the call, in the block of the return, goes unseen (`CallsCovered`) |

The engine takes four shortcuts, which `SoundPrograms` leaves out. They can be
seen by changing a run: `engine_sound` with `MultiExitPrograms` violates
`TrueSound`, because a summarised loop with several exit blocks ends the path
(`lib/AInstruction.cpp:1836`) and what follows is never explored; with `ProbeGivesUp = TRUE`, Z3 giving up in
`is_feasible` drops a path and violates `TrueSound`; with `InnerAssert` or `WideQuery` in place
of `MultiExit` in `MultiExitList`, an assertion inside a summarised function is
missed (`TrueSound`), and a loop's assertion is refuted for values the path
excludes (`FalseSound`). Likewise `MCCalls` has further sets of programs for
`calls_global`, each of which violates `SafeIsSafe`: `InputPrograms` (a cached
result that an input inside the callee decided), `WidePrograms` with `Width = 3`
(two arguments that are the same `int`), `InteriorPrograms` (an index applied
to a pointer into an array). `engine_any` allows all four shortcuts of the
engine.

More can be seen this way. It shows what the passing runs leave out, and each of
these is a property of a module that a run with other constants or programs
violates:

- A REACH_ERROR path that the solver refutes falls through to
  `lib/engine.cpp:162`, which expects RUNNING (`SteppedOnlyRunning` as an
  invariant of `engine_any`); with `Debug = FALSE` and `SolverGivesUp = FALSE` the
  engine then steps it for ever (`Terminates`), which may be what README.md:5-6
  of the repository calls weird behaviour in Release mode. Only a path that has become infeasible
  untested gets there.
- `execute_cache` takes a model of such a path and fails (`ModelExists`,
  `lib/state.cpp:153`).
- The certificate of the first completed path is kept for the loop
  (`lib/engine.cpp:336`) and can be false on another (`CertificatesCover` as a
  PROPERTY of `engine_any`).
- A `malloc` that is executed twice returns the first object
  (`lib/Memory.cpp:113`, `MallocReturnsNew` as a PROPERTY with `HeapPrograms`).
- `accel` with `Programs <- MCUndefined`: a second jump starts with poison and
  the closed form has none (`PoisonStays`; `lib/PathAccelerator.cpp:596-607`
  and 1252).
- `loops` with `MCUnread`, `MCHeaderCall`, `MCFailing`, `MCAssuming` or
  `MCSticking`: an answer that only the PHIs take, a call in the header, a failing
  assertion, an assumption, and a loop that the linear solver takes to end;
  with "summarizer" in `GivesUp`, a path that Z3 gives up on is missing from
  the summary.
- `ints` with `Included = {"shl"}`: `shl nuw 1, 1` is undefined in the fixed-width modes
  although the machine computes 2, and the inputs that get there are lost. Its nuw is
  read as exact (`lib/AInstruction.cpp:578`), and lines 777-780 demand
  `z3::shl(result_bv, rhs_bv) == lhs_bv` of every shift, where the relaxed mode says
  `exact && opcode != llvm::Instruction::Shl` (98); only a shift that changes nothing
  is left. No test shifts left with nuw in a fixed-width mode.
- `ints` with another member of `Included`: arithmetic of an i1
  (`lib/AInstruction.cpp:1577`), a value out of range that is passed on (322-332,
  1100), the least integer modulo -1 (716).
- `functions` with `MCTwice`: two calls on one path share the constant for their
  number of steps, `ari_loop_n` (`lib/AnalysisManager.cpp:16`), which
  `lib/AInstruction.cpp:1062-1070` does not rename, and real runs are lost
  (`CallsCovered`); with `MCFailing`: a path to an error call is stepped for ever
  (`RunEnds`, `lib/FunctionSummarizer.cpp:140`); with `MCBaseStores`: the stores
  of a base case are not part of a summary (`CallsCovered`); with `MCExactDivision`: a path with an exact division
  has no successor and the recurrence lacks a case (`CasesExact`,
  `lib/FunctionSummarizer.cpp:90-104`); with a member of `GivesUp`: a path
  that Z3 gives up on is dropped without a note
  (`lib/FunctionSummarizer.cpp:132-138`).

In the runs of `Calls`, two inputs of three values let one path fix an input
that another leaves open; an array of three cells has one that is not the first,
and one that is neither; a third activation of the recursive `f` has callers
below it that are its own function. `Steps = 60` bounds the reference semantics
only and is more than any of the programs takes. `Width = 8` is wide enough for all
values that occur. `MCCalls` assumes of `DirectPrograms`, ten of the programs of
`calls_pure`, that they are `Direct` and decided within these steps, so that the theorems on
direct programs speak of them. These runs do not check deadlock: the machine stops when
the worklist is empty, a violation is found or an exception is thrown.

In `paths`, a root of at most three symbols, two candidates and evidence of two
repetitions take all branches of the compression within seven symbols; the bounds
`iterations`, `jumps` and `paths` of each graph say how long its histories are.
`MaxCount` bounds the iterations of one jump. In `accel` values are in 0..7 and
`MaxIterations = 8` is more than a path can record before its values repeat; two
or three inputs put one at each side of a split. In `loops` the values are pairs
in 0..3 and `MaxIterations = 5` exceeds the iterations of each run that leaves.
`ints` has widths 2 and 3, so that extension and truncation between them and
shifts by the width occur; the second instruction consumes the result of the
first, which is where a missing reduction shows. A shift left with nuw occurs in it
where the code agrees with the machine: with an operand 0, by 0, or with poison; the
relaxed mode has all of them. In `functions`, `Depth = 7`
is more than the activations of any run that returns. None of these runs checks
deadlock: they stop when the worklist or the queue is empty, or at a bound.

In `solver_small` three calls are enough for a request to follow one that
failed after one that succeeded; a recurrence of one write and one of three tell
the first part of a write from its rest. `Capacity = 4` is the shorter request
plus QUIT, and less than the longer request.

Fairness: `WF_vars(Run)` in `FairSpec` only says that `Engine::run`, a plain
sequential loop, takes its next step. `Throw` and the caller's `Verify` are
not forced. `FairSpec` of `FunctionSummary` says the same of `RecExecution::run`.
`SolverWorker` assumes that the client's thread runs, that a poll
ends when its time is up, and that SIGTERM ends a worker, which does not catch
it; nothing else is assumed of a worker.

## Proofs

All theorems hold for every value of the constants; none relies on a bound of
the runs.

### The engine

`EngineProofs`:

- `TypeCorrect`: `Spec => []TypeOK`. The inductive invariant is `TypeInv`, which
  states the type of the worklist and the placement of each path (`StatusOK`: a
  VERIFYING path stands right after an assertion, a FAIL path at an exact loop
  summary, ...) as membership in one set, `Placed`, so that replacing the top of
  the stack is a fact about sequences over a set (`ReplaceTop`, `PushedTyped`).
- `UnknownsAreExplained`: `Spec => []UnknownExplained`. The invariant
  `ExplainedInv` says that an issue is on record exactly when an unknown result is
  (`Explained`), and that there is no verdict while a run goes on.
- `InputsAreApart`: `Spec => []EachInputOnce`. The conditions of the paths on the
  worklist are disjoint by position (`Apart`); each instruction's successors
  share out the condition of the path they replace (`SharesOut`), which the
  top of the stack may then be replaced by (`ApartAfter`).

The engine's answers:

- `NoFailingInputLost`: `Spec => []Coverage`, and from it `TrueIsRight`:
  `Spec => []TrueSound`. The invariant is `TrueInv`: while a run goes on, every
  input that fails is accounted for, by a path of the worklist on which it still
  fails, or by a recorded result other than HOLD (`Covers`). One lemma per
  instruction shows that its successors take over the failing inputs of the path
  it replaces (`Explored`), one per status that `run` pops that the inputs stay
  accounted for (`Outcome`).
- `PrecisePathsAreReal`: `Spec => []PreciseReal`, and from it
  `CounterexampleIsReal`: `Spec => []CounterexampleReal`, without a hypothesis.
  The invariant says that the condition of a precise path holds only inputs that
  fail from the entry whenever they fail from its pc (`Real`, `Narrows`).
- `FalseIsRight`: `Spec => []FalseSound`.

`TrueIsRight` and `NoFailingInputLost` assume `~ProbeGivesUp` and
`NothingDropped` of each program, `FalseIsRight` assumes `NothingInvented`. The
runs of the previous section without one of these hypotheses show that each is
needed. What the proofs take from the rest of the program are the assumptions on
`Programs`, above all `SummaryOK` and `CertifiedJump`: a summary lets through
every valuation that really gets past it, and a jump goes wrong exactly where the
loop body does.

`EngineImplementsVerifier`, `Spec => Implements`, from the
invariants above and under both hypotheses; a step that ends a run is an
`Answer` or an `Abandon` of `Verifier`, `Verify` is an `Ask`, and all others
are stuttering.

### The solver client and its worker

`SolverWorkerProofs`: `SolverTypeCorrect`, from `TypeInv` (types, and which
steps of the client have a worker), and `NoWorkerLeftBehind`,
`Spec => []NoOrphan`, because a worker never comes back to life (`WorkerTyped`),
`pid` is only given up when its process is dead, and a new one is only started
without a `pid`.

The protocol follows from one invariant, `ExchangeInv`, which says for each step
of the client what is in the two pipes of the worker in use and what the worker
is doing (`InStep`): it has not touched the request, reads as much of it as has
been written, works on it, or has answered in part or in full, each with the id
and the recurrence of this request (`Stage`); or it is dead and leaves at most
the rest of one response (`Remains`); and between calls the pipes are empty
(`Clean`). `AnswerFits` is part of it, because the answer that is read goes into
the cache. From it: `NextCallStartsClean` (`Spec => []CleanWhenIdle`),
`ResponsesInStep` (`Spec => []AnswersInStep`) and `AnswersAreRight`
(`Spec => []AnswerFits`). `FailuresAreFresh` (`Spec => []FailureIsFresh`) needs of
the protocol only that a retry starts a worker of its own (`RetryStarts`).

### Calls and memory

The assumptions on the constants of `Calls` are that each program is `WellFormed`,
which TLC checks of the programs of its runs, and that 2 ^ (Width - 1) is positive,
because the provers know no arithmetic of `^`. The machine reads no more than
`Inputs` inputs, which is a bound of the model in the guard of `Input`.

`CallsProofs`: `InputsPartitioned`, `Spec => []EachPointOnce`, for all programs,
inputs and widths. The invariant adds to `EachPointOnce` that the worklist is a
sequence of records with the fields of a path (`Worklist`), which is what the
EXCEPT expressions of the actions need; every action but `Branch` and `End`
replaces the top by one path with the same condition (`OneSuccessor`), and
these two are splits of the condition (`SplitKeepsIInv`, `EndKeepsIInv`).

`TypesHold`, `Spec => []TypeOK`, which no run needs to check any more, and `FramesAreSound`, `Spec => []FramesSound`, are
about memory: at any depth of recursion, `push_frame` and `pop_frame` keep the
objects of the activations apart, and no pointer outlives its object. Neither is
inductive. That a step is defined at all, let alone typed, depends on what the
code has done before: a load needs a pointer in the temporaries, a return puts
its value at the call that made the frame. The invariant, `MemoryInv`, therefore
says of each frame of each path (`FrameGood`)

- that it stands at an instruction of its function, and below the top at the call of
  the function above it (`OnTrack`);
- that bases go up with the frames (`BasesOK`);
- that its temporaries have the type of their name, and that an address among
  them is one of an object below the end of the frame, or on the heap (`TempsOK`);
- that what is available at its instruction is among its temporaries, or is a
  global or the memory of a `malloc` (`NamesOK`);
- that each object in its range was made by an alloca that lies behind it
  (`ObjectsOfFrame`), so that no alloca can be executed a second time and take
  the name of an object that is still there;

and of the cache that its keys and values are ints. TLC has checked it on all
sets of programs of `MCCalls`. `TopChanged` says that a step which only changes
the top frame, and lets memory grow, leaves the frames below good;
`NextInstruction` and `ValueKept` are about the top frame after an instruction,
`CallGood` about the frame that a call adds, `PopGood` about the path that a
return leaves, which stands at the call with the callee's objects gone and every
address that remains below the base of the popped frame. `ReturnGood` is then
the case of an instruction with a result.

`SafetyIsSound`, `Spec => [](Direct(prog) => SafeIsSafe)`, and `ResultsAreRight`, the
same of `ResultRight` for programs that no execution leaves undecided within `Steps`
steps, relate the machine to the semantics of `CallPrograms`: a simulation. `Alike` says that a
path is, on one of its inputs, where the execution on this input is. The path's frames and
the execution's activations stand at the same instructions; each name that an
activation can see means what it is there (`Meant`); and each object of the path is one of the
execution, with the same contents in each cell (`StoreMirrored`). The two number
their objects differently, for the execution never frees a local, while
`pop_frame` does: the relation has a map from places to objects, which is the identity for the
globals (`GlobalsFirst`), no two places are one object (`ObjectsApart`), and `FramesAreSound`'s
invariant is what lets it forget the places of a popped frame. The lemmas come in three layers:

- what one step of an execution does, without the EXCEPT expressions it is written in
  (`StepMakes` to `StepBack`), and that `Run` satisfies the recursion by which it is
  defined (`RunIs`);
- one lemma for each kind of instruction, that a step of the path and one of the execution
  lead from alike to alike (`ArithmeticAlike`, `GepAlike`, `LoadAlike`,
  `InputAlike`, `AllocaAlike`, `StoreAlike`, `BranchAlike`, `CallAlike`, `ReturnAlike`);
- that these keep the invariant (`ValuesAccompanied` to `EndsTell`).

The invariant, `DirectInv`, says that a running path is alike some configuration of the execution
on each of its inputs (`Accompanied`), that the cache is empty, and that a path that has
ended tells the truth; an input on which the bound leaves the execution undecided is
excepted. Then `InputsPartitioned` gives `SafeIsSafe`: an input is on a path
that has ended, and that path says that it returns.

The hypothesis leaves out what the findings and the hazards are about. A cached value is right only if
the callee depends on nothing but its arguments, which the code does not ask; the second object of a
`malloc` is not found by its name; an access out of bounds is undefined.

### Recorded paths

`PathRecordingProofs`: `IterationsIdentified`, `Spec => []SymbolsIdentify`, for all
graphs and bounds. That symbols differ is not inductive: the invariant adds that
all symbols in use are below `nextSymbol` (`SymbolsBefore`). One lemma is about
`intern_loop_path` (`InternKeepsIInv`), which three actions call; the others leave
the alphabet alone (`SameAlphabetKeepsIInv`).

`PrefixesAreExact`, `Spec => []PrefixExact`, is about every path that waits. By
itself the property is not inductive: at a header it says nothing of the iteration
under way, and a jump is only right if the starred word is over the alphabet of its
loop. The invariant (`PathsInv`) says of a path, in `PathOK`,

- that it has come along an edge of the graph (`Comes`), so that a path whose last
  block is outside a loop stands outside it or at its header, and a back edge comes
  from inside;
- that each of its histories is a word over the alphabet of its loop and that its
  candidates are those of the last segment (`HistoryOK`);
- that what the loop has done is what the prefix spells and, once the header is
  passed (`In`), that the history has started and what is open is what is behind
  the cursor (`Agrees`);

and of the nested summaries that each is a symbol of its loop (`SummariesOK`). TLC
has checked it on the graphs of `paths`. The lemmas are about the operators: what a
prefix spells after a symbol or a power has been appended (`AppendSymbolIs`,
`ExpandAppend`, `SpelledJoin`, `SpelledPower`), that a longer alphabet reads the
words of a shorter one alike (`SameWords`, by `Identifies`), and that a candidate's
star is over the alphabet of the word it ends (`StarType`); then one lemma for each
thing a path may do: `EnterOK`, `CompleteOK`, `JumpOK`, `NestedOK`, `DecideOK`,
`LeaveOK`, `PartOK`. `AccelerateNested` takes the path to `exit` of the loop, which
`ProgramOK` places among the successors of its header, as `build_nested_summary`
demands before it makes a summary.

### The accelerator

`AcceleratorProofs` states the correctness of a jump for every finite loop, every
closed form the recurrence solver may propose, every count a nested summary may
guess and every candidate the compression may find.

- `PathsAreExact`: `Spec => []Exact`. The invariant `Inv` says of each path
  (`PathOK`) that its word leads from the values on entry to those of the path
  (`Walk`), that it has left the loop where the loop ends (`Leaves`), that the
  oracle's answers are the word's (`Answered`), and of the nested summary that it
  is right on its domain (`SummaryOK`). The core is a chain of lemmas about the
  operators of the model: the composite of a word's transitions does what the
  word does (`CompositeWalks`), a closed form that passes base and step does what
  the powers of the word do (`PowerWalks`), so that the jump to the first break
  (`FirstBreakJumpOK`), over an oracle (`FiniteJumpOK`) and by a summary
  (`CompletedOK`) goes on where the path has come to; recording an iteration
  appends its symbol to the word (`RecordedIs`).
- `EachInputOnOnePath`: `Spec => []EachPointOnce`. The invariant `OnceInv`
  says that the conditions are disjoint, that an input which computes no poison
  (`Fresh`) is on some path, and that its path takes its PHIs for defined
  (`Tame`). Each action replaces the first path by paths that share its inputs
  (`Splits`): the paths of the body and the exit for an iteration
  (`IterateSplits`), jump and residual path (`AccelerateSplits`); for a jump over
  an oracle `StableCovers` shows that an input at which no other path is open at
  any step of the jump (`Stable`) cannot be left behind.
- `JumpsForgetNoPoison`: `Spec => []PoisonStays`, if every loop is `Forgiving`: a
  plain loop overwrites what overflows in each path of its body, or nothing in it
  overflows. `accel` with `MCUndefined` shows that the hypothesis is needed, and
  its own programs satisfy it.
- `AnswersReplay`: `Spec => []EvidenceReplays`.

What the model computes by recursion over data (the composite of a word, the
word of a prefix, the replay of a path, the iterates of a map) is reasoned about
with `InductionLemmas`. The library's induction rules take a predicate as a
parameter, which the provers here cannot instantiate; the lemmas go by the least
element of a set of naturals instead, which needs a set only: `InductionUpTo` is
the rule for a set, `Recursion` and `RecursionUnique` give a recursive function
its equations, `FlattenAppend` is what the proofs need of `FlattenSeq`.

### Loop summaries

`LoopSummaryProofs` is about every loop that is tested before its latch
(`WhileLoop`: the latch is a block of its own that jumps back, and nothing else
does), of any size, over any values and answers.

- `TransitionsAreExact`: `Spec => []TransitionsExact`, if the accelerator is given
  such loops without an assertion, as its check of the body admits them.
- `RunsContinueBehind`: every run that leaves the loop goes on behind the summary
  (`RunsContinue`), whichever parts of the summary the solvers found, where no
  feasibility test is unknown.
- `ResultsAreReal`: an exact summary adds no run and no value (`ResultsReal`), if in
  addition no assumption or assertion stops an iteration and the linear solver finds
  an `N` only for a loop that ends (`RunsEnd`). `loops` with `MCAssuming`, `MCFailing` and
  `MCSticking` shows that each of these is needed.
- `EvidenceIsComplete`: `EvidenceCounts`, for a loop that asks in its body and only
  in iterations that go back (`AsksInside`), which `MCHeaderCall` shows is needed.
- The last three take `CountersFollow`, that the recurrence's counter of answers moves
  on with the paths that ask. That is what the heuristic of
  `get_conditions_and_updates` has to get right, and `MCUnread` is a loop for which it
  does not. `loops` checks it of its loops; `CountersFollowCallFree` proves it of every
  loop that asks for nothing.

The inductive invariant, `IInv`, has one part about the execution of the body
(`PathsInv`) and one about what the client has made of it (`StageInv`). The first says
of each state that every pair of its condition stands, in the loop's own
iteration, at the state's instruction with the state's update (`Sound`, `Stands`),
that no pair is on two paths, neither by its condition nor by its condition inside
the loop (`Apart`; the second is what the recurrence chooses its case by), and that
every pair whose iteration completes is on some path, unless a test was unknown
(`Carried`). None of the three can be had without the others: a successor takes over
what its predecessor carried because its pairs stand where the instruction is. One lemma
per operation gives its successors (`Shares`, `Keeps`); `Unmoved` says that an iteration passes the instructions
that are not its turn.

With the paths followed to their ends (`Followed`), a run and the recurrence go
together, value and counter, up to the iteration that leaves (`Together`), by
induction over the number of iterations; an iteration that leaves is on an
exit state, one that goes back is on none, so that the guard of the loop holds
up to the last iteration and the constraints on `N` have that number as their only
solution. `EvidenceIsComplete` needs of `Dominates` that an iteration that goes back has
come through the block that dominates the latch, that the whole of the block is then
executed (`WholeBlock`), and that the calls are one. TLC has checked `IInv` and the
hypotheses on the loops of `loops`: all but `Endless`, whose header is its latch, are
`WhileLoop`s. A loop left from its latch is outside, and `loops_do_while` shows
what happens to it.

### Function summaries

`FunctionSummaryProofs` is about functions of any size without loops, over any
values, one function or an SCC of them.

- `PathsAreCases`: `Spec => []CasesExact`, under two hypotheses. `Decided`: Z3
  decides the feasibility tests, and no division is exact for a value that gets there.
  `ReturnsApart`, of functions of pointers only: no call stands in the block of a return,
  because that block is not in the trace. `functions` with a member of `GivesUp`,
  with `MCExactDivision` and with `MCStoreLast` shows what happens otherwise.
- `SummariesCoverCalls`: `Spec => []CallsCovered`, for every bound on the depth of
  the runs, every set of relations that Z3 proves and whether or not the recurrence is
  solved, under the hypotheses that the code makes without a test
  (`TakenForGranted`): stores and calls share no block with a return, nothing is tested
  behind a call, what calls nothing stores nothing; and that the calls of a path
  begin with the same values (`CallsAlike`), for example that there is one of them.
  `MCStoreLast`, `MCBaseStores` and `MCTwice` violate one of these each, and
  `CallsCovered` with it; TLC has checked that the functions of `functions` satisfy all
  of them.
- `RequestsAreTrue`: `Spec => []RequestTrue`, for every bound on the depth of the runs,
  under `Decided`. For one function that is all. For functions that call each other
  there are two hypotheses more: all of them return where one does (`ReturnTogether`),
  since an equation is one for all of them at once; and the first base case is not one of paths
  that exclude each other (`FirstHolds`), since `is_base_case` takes such a product for a
  base case and `add_initial_values` keeps the first. `MCTwoBases` violates the second
  one, and `RequestTrue` with it: an initial value is that of the path for 1. The
  functions of `functions` satisfy both.

The invariant `IInv` (`PathsInv`) says of each function that has been executed, and of
the one that is, what `LoopSummaryProofs` says of a loop: the values of a
path stand, in the function's own activation, at the path's instruction with the
path's update and number of calls (`ValuesOK`), no value is on two paths
(`AllApart`), and each value at which an activation returns is on some path (`Carried`). It adds
that the blocks of a path's trace are those that its activations have come
through, each instruction of them (`Passed`, `TraceOK`), without which base cases and
tail calls could not be told from the trace. The states that wait
(`Waiting`) belong to the function that is executed now.

`SummariesCoverCalls` then compares three things. The activation whose calls return at
once, which is what a path describes, and the activation whose calls do what deeper runs
do go side by side up to the call, and behind it only in control (`BehindCall`); the last
store lies before the call, so that the activation leaves what its call leaves
(`LeavesWhat`). So a run that returns is one of a base case, which leaves its value
as it is, or of a recursive case that leaves what the run from its update does
(`LeftBehind`). By induction over the depth of runs the value that a run leaves is reached
by the recurrence in some number of steps, is related as the proved relations demand
to whatever the value on entry is related to, and is in the exit condition
(`Reaches`, `RunReaches`).

`RequestsAreTrue` needs of a path its calls, too: the invariant says that the call an
activation comes to is in its place among those of the path, with the argument it has there
(`Noted`), and that the result is that of the return the activation comes to (`Returned`). An
activation that returns goes where the shallow one goes (`AlongShallow`), so that the sum
of what its calls return is the path's (`PathSays`), and what its calls return they also
return in runs that may go one call deeper (`CourseGrows`, `TableGrows`). A product that
applies exists because the products are all choices of one path of each function
(`ProductsAre`), and the initial values exist because a path that has been tested
has a value (`InhabitedHolds`).

What the proofs need of queues of states (`QueueContinued`, `QueuePlaces`,
`RangeAppended`) and of sequences of sequences (`FlattenElements`) is in
`InductionLemmas`, for these and for the loops.

### What stays with TLC

Liveness (`Terminates`, `ReturnsOrBlocks`, `RunEnds`) needs fairness and is out
of the prover's reach. `CacheRight` of `Calls`, and `ResultRight` and `SafeIsSafe` for
programs that are not direct, would need that a call's execution does not depend on
the activations below it and on the memory it does not use, so that it can be cut out
of one execution and put into another; `EvidenceExact` and
`MinimumCost` of `PathRecording` need the dynamic program of `FactorTable`, a
recursive function over the word; `Represents` of `IntegerSemantics` is bit
arithmetic of a fixed small width. These are only model-checked.

## Plan

Done: the engine, the solver client, calls and memory with the function cache,
path expressions and their recording, the accelerator, the execution and the scalar
summaries of loops, function summaries, integer semantics. Next, in this
order:

1. Proofs: `CacheRight` of `Calls`, for functions that use their arguments alone;
   `EvidenceExact` of `PathRecording`; the lemmas on ranges and reductions of
   `IntegerSemantics`.
2. Arrays and stores in loop summaries; a child loop that is completed while a
   nested summary is built, with values.
3. In function summaries: mutual recursion by inlining
   (`prepare_rec_solver_unfold`), several parameters, calls that swap or alias
   pointers, nondeterministic inputs.
4. Session activation, nested, and what `clear_module_state` forgets.
5. The driver and the witness: what is printed and exported for a result.
6. `memcpy` and objects of several dimensions in `Calls`.

The runs are a budget: those that only show a divergence give way when a
module of the plan needs one, and stay described above.

## Not modelled

Term rewriting (`lib/Expr.*`, `lib/logics.cpp`, the translation of recurrences in
`lib/rec_solver.cpp`), the frontend, the witness text and the Python computer
algebra: pure computations over data of unbounded
shape, or I/O. `PROJECT.json` gives the reason for each.
