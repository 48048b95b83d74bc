------------------------------- MODULE Engine -------------------------------
(***************************************************************************)
(* The worklist of the symbolic-execution engine: Engine::verify and       *)
(* Engine::run (lib/engine.cpp), together with the control effect of the   *)
(* instructions that change a path's status or condition                   *)
(* (lib/AInstruction.cpp).                                                 *)
(***************************************************************************)
EXTENDS Program, Integers, Sequences

CONSTANTS
  Debug,          \* TRUE: assert() is compiled in; FALSE: a Release build
  SolverGivesUp,  \* may a query to Z3 return z3::unknown?
  ProbeGivesUp,   \* may the is_feasible probe of a call get z3::unknown?
  MaxRuns         \* bound on the calls of Engine::verify on one engine

ASSUME ConstantsOK ==
  /\ Debug \in BOOLEAN
  /\ SolverGivesUp \in BOOLEAN
  /\ ProbeGivesUp \in BOOLEAN
  /\ MaxRuns \in Nat

Status == {"RUNNING", "TERMINATED", "VERIFYING", "TESTING", "REACH_ERROR",
           "UNKNOWN", "FAIL"}
VeriResult == {"HOLD", "FAIL", "VERIUNKNOWN"}
IssueKind == {"OverApproximation", "IncompleteCounterexample", "Z3Unknown",
              "UnknownState"}
CrashKind == {"none", "status_not_running", "path_not_satisfiable",
              "exception"}
-----------------------------------------------------------------------------
VARIABLES
  prog,          \* the name of the loaded module; never changes
  entry,         \* Engine::entry
  phase,         \* "idle", "running" (inside Engine::verify), "done"
  states,        \* Engine::states, the top of the stack last
  results,       \* the values in Engine::results
  issue,         \* the kind recorded by record_issue, {} when none
  violation,     \* Engine::violation_instruction
  cex,           \* the model kept in counterexample_inputs, {} when none
  certificates,  \* Engine::loop_certificates and function_certificates
  verdict,       \* what Engine::verify returned, "none" before
  crash,         \* how the run stopped short of a verdict
  runs           \* number of calls of Engine::verify

vars == <<prog, entry, phase, states, results, issue, violation, cex,
          certificates, verdict, crash, runs>>

\* A certificate: the loop or call it is about, and the points of which it
\* is a true statement.
Certificate(node) == [at: node, valid: SUBSET Point]

\* State and the fields of it that the engine's decisions depend on.
PathState(node) ==
  [pc: node, prev: node \cup {NoNode}, status: Status, cond: SUBSET Point,
   approx: BOOLEAN, complete: BOOLEAN, certs: SUBSET Certificate(node)]

Top == states[Len(states)]
Rest == SubSeq(states, 1, Len(states) - 1)
Node == Programs[prog].node
Bad == Programs[prog].bad
At(n) == Programs[prog].instr[n]
\* Mutant: over-approximation is forgotten.
ImpreciseInputsOnly(s) == ~s.complete
Imprecise(s) == s.approx \/ ~s.complete
IsTop(status) == /\ phase = "running"
                 /\ states # <<>>
                 /\ Top.status = status

\* The solver's answers on whether a set of points is inhabited.
Answers(S, mayGiveUp) ==
  (IF S = {} THEN {"unsat"} ELSE {"sat"})
    \cup (IF mayGiveUp THEN {"unknown"} ELSE {})

\* State::step_pc, with a new status and path condition.
Step(s, n, status, cond) ==
  [s EXCEPT !.prev = s.pc, !.pc = n, !.status = status, !.cond = cond]

\* Of two certificates about one loop or function the first is kept.
Merge(kept, new) == kept \cup {c \in new : \A k \in kept : k.at # c.at}

\* Engine::record_issue keeps the first issue of a run.
RecordIssue(kind) == issue' = IF issue = {} THEN {kind} ELSE issue

\* Mutant: any_of where all_of is meant.
VerdictOfAny(R) == CASE R = {} \/ "HOLD" \in R -> "HOLD"
                     [] "FAIL" \in R -> "FAIL"
                     [] OTHER -> "VERIUNKNOWN"
\* The result of Engine::verify for the recorded results.
VerdictOf(R) == CASE R \subseteq {"HOLD"} -> "HOLD"
                  [] "FAIL" \in R -> "FAIL"
                  [] OTHER -> "VERIUNKNOWN"

\* run() replaces the state it popped by the states new and goes on.
Continue(new) == states' = Rest \o new /\ UNCHANGED <<phase, verdict>>
\* run() returns and verify() answers; unexplored siblings stay behind.
Return == /\ phase' = "done"
          /\ verdict' = VerdictOf(results')
          /\ states' = Rest
\* The process aborts, or an exception leaves Engine::verify.
Crash(kind) == /\ phase' = "done"
               /\ crash' = kind
               /\ states' = Rest
               /\ UNCHANGED <<results, issue, violation, cex, certificates,
                              verdict>>
rigid == <<prog, entry, runs>>
findings == <<results, issue, violation, cex, certificates>>
-----------------------------------------------------------------------------
Init ==
  /\ prog \in DOMAIN Programs
  /\ entry \in Programs[prog].entries
  /\ phase = "idle"
  /\ states = <<>>
  /\ results = {}
  /\ issue = {}
  /\ violation = NoNode
  /\ cex = {}
  /\ certificates = {}
  /\ verdict = "none"
  /\ crash = "none"
  /\ runs = 0

InitialState(n) ==
  [pc |-> n, prev |-> NoNode, status |-> "RUNNING", cond |-> Input,
   approx |-> FALSE, complete |-> TRUE, certs |-> {}]

\* Mutant: the worklist is not cleared.
VerifyOnOldStack(e) ==
  /\ phase # "running"
  /\ runs < MaxRuns
  /\ entry' = e
  /\ phase' = "running"
  /\ states' = Append(states, InitialState(e))
  /\ results' = {}
  /\ issue' = {}
  /\ violation' = NoNode
  /\ cex' = {}
  /\ certificates' = {}
  /\ verdict' = "none"
  /\ crash' = "none"
  /\ runs' = runs + 1
  /\ UNCHANGED prog

\* Engine::set_entry, then Engine::verify up to the loop of Engine::run.
Verify(e) ==
  /\ phase # "running"
  /\ runs < MaxRuns
  /\ entry' = e
  /\ phase' = "running"
  /\ states' = <<InitialState(e)>>
  /\ results' = {}
  /\ issue' = {}
  /\ violation' = NoNode
  /\ cex' = {}
  /\ certificates' = {}
  /\ verdict' = "none"
  /\ crash' = "none"
  /\ runs' = runs + 1
  /\ UNCHANGED prog

\* The stack is empty: run() returns.
Exhausted ==
  /\ phase = "running"
  /\ states = <<>>
  /\ phase' = "done"
  /\ verdict' = VerdictOf(results)
  /\ UNCHANGED <<rigid, states, findings, crash>>

\* Mutant: return where continue is meant.
PopTerminatedReturns ==
  /\ IsTop("TERMINATED")
  /\ certificates' = Merge(certificates, Top.certs)
  /\ UNCHANGED <<rigid, results, issue, violation, cex, crash>>
  /\ Return

\* The certificates of a path that ran to its end are kept.
PopTerminated ==
  /\ IsTop("TERMINATED")
  /\ Continue(<<>>)
  /\ certificates' = Merge(certificates, Top.certs)
  /\ UNCHANGED <<rigid, results, issue, violation, cex, crash>>

\* Mutants: a solver that gives up counts as unsat, is not recorded; a
\* feasible state keeps its status.
PopTestingDrops ==
  /\ IsTop("TESTING")
  /\ \E answer \in Answers(Top.cond, SolverGivesUp) :
       \/ /\ answer = "sat"
          /\ Continue(<<[Top EXCEPT !.status = "RUNNING"]>>)
       \/ /\ answer # "sat"
          /\ Continue(<<>>)
  /\ UNCHANGED <<rigid, findings, crash>>
PopTestingUnrecorded ==
  /\ IsTop("TESTING")
  /\ \E answer \in Answers(Top.cond, SolverGivesUp) :
       \/ /\ answer = "sat"
          /\ Continue(<<[Top EXCEPT !.status = "RUNNING"]>>)
          /\ UNCHANGED results
       \/ /\ answer = "unsat"
          /\ Continue(<<>>)
          /\ UNCHANGED results
       \/ /\ answer = "unknown"
          /\ Continue(<<>>)
          /\ results' = results \cup {"VERIUNKNOWN"}
  /\ UNCHANGED <<rigid, issue, violation, cex, certificates, crash>>
PopTestingAgain ==
  /\ IsTop("TESTING")
  /\ Continue(IF Top.cond = {} THEN <<>> ELSE <<Top>>)
  /\ UNCHANGED <<rigid, findings, crash>>

\* A TESTING state runs on when feasible and is dropped when not; when the
\* solver gives up it is dropped too, and the result is unknown.
PopTesting ==
  /\ IsTop("TESTING")
  /\ \E answer \in Answers(Top.cond, SolverGivesUp) :
       \/ /\ answer = "sat"
          /\ Continue(<<[Top EXCEPT !.status = "RUNNING"]>>)
          /\ UNCHANGED <<results, issue>>
       \/ /\ answer = "unsat"
          /\ Continue(<<>>)
          /\ UNCHANGED <<results, issue>>
       \/ /\ answer = "unknown"
          /\ Continue(<<>>)
          /\ results' = results \cup {"VERIUNKNOWN"}
          /\ RecordIssue("Z3Unknown")
  /\ UNCHANGED <<rigid, violation, cex, certificates, crash>>

\* Mutant: the definedness of the assertion is not required.
FailingUndefined(s) == s.cond \ At(s.prev).holds
\* The points on which the assertion before the pc is defined and fails.
Failing(s) == (s.cond \cap At(s.prev).def) \ At(s.prev).holds
Assumed(s) == [s EXCEPT !.status = "RUNNING",
                        !.cond = @ \cap At(s.prev).def \cap At(s.prev).holds]
WhyImprecise(s) ==
  IF s.approx THEN "OverApproximation" ELSE "IncompleteCounterexample"

\* An assertion: proved, refuted, or left open.  Unless it is refuted it is
\* assumed from here on.
PopVerifying ==
  /\ IsTop("VERIFYING")
  /\ \E answer \in Answers(Failing(Top), SolverGivesUp) :
       \/ /\ answer = "unsat"
          /\ results' = results \cup {"HOLD"}
          /\ Continue(<<Assumed(Top)>>)
          /\ UNCHANGED <<issue, violation, cex>>
       \/ /\ answer = "sat" /\ Imprecise(Top)
          /\ results' = results \cup {"VERIUNKNOWN"}
          /\ RecordIssue(WhyImprecise(Top))
          /\ Continue(<<Assumed(Top)>>)
          /\ UNCHANGED <<violation, cex>>
       \/ /\ answer = "sat" /\ ~Imprecise(Top)
          /\ results' = results \cup {"FAIL"}
          /\ violation' = Top.prev
          /\ \E p \in Failing(Top) : cex' = {p}
          /\ Return
          /\ UNCHANGED issue
       \/ /\ answer = "unknown"
          /\ results' = results \cup {"VERIUNKNOWN"}
          /\ RecordIssue("Z3Unknown")
          /\ Continue(<<Assumed(Top)>>)
          /\ UNCHANGED <<violation, cex>>
  /\ UNCHANGED <<rigid, certificates, crash>>

\* reach_error() on a path that the solver does not refute ends the run.
PopReachError ==
  /\ IsTop("REACH_ERROR")
  /\ \E answer \in Answers(Top.cond, SolverGivesUp) :
       \/ /\ answer = "sat" /\ Imprecise(Top)
          /\ results' = results \cup {"VERIUNKNOWN"}
          /\ RecordIssue(WhyImprecise(Top))
          /\ UNCHANGED <<violation, cex>>
       \/ /\ answer = "sat" /\ ~Imprecise(Top)
          /\ results' = results \cup {"FAIL"}
          /\ violation' = Top.pc
          /\ \E p \in Top.cond : cex' = {p}
          /\ UNCHANGED issue
       \/ /\ answer = "unknown"
          /\ results' = results \cup {"VERIUNKNOWN"}
          /\ RecordIssue("Z3Unknown")
          /\ UNCHANGED <<violation, cex>>
  /\ Return
  /\ UNCHANGED <<rigid, certificates, crash>>

\* reach_error() on a path that the solver refutes: the branch has no
\* continue, so the code falls through to assert(status == RUNNING).  A Debug
\* build aborts; a Release build executes the call again, which puts the same
\* state back on the stack.
PopUnreachableError ==
  /\ IsTop("REACH_ERROR")
  /\ Top.cond = {}
  /\ IF Debug
     THEN Crash("status_not_running")
     ELSE Continue(<<Top>>) /\ UNCHANGED <<findings, crash>>
  /\ UNCHANGED rigid

PopUnknown ==
  /\ IsTop("UNKNOWN")
  /\ results' = results \cup {"VERIUNKNOWN"}
  /\ RecordIssue("UnknownState")
  /\ Return
  /\ UNCHANGED <<rigid, violation, cex, certificates, crash>>

\* A loop summary refuted an assertion inside the loop.
PopFail ==
  /\ IsTop("FAIL")
  /\ IF Top.complete
     THEN /\ results' = results \cup {"FAIL"}
          /\ violation' = Top.pc
          /\ UNCHANGED issue
     ELSE /\ results' = results \cup {"VERIUNKNOWN"}
          /\ RecordIssue("IncompleteCounterexample")
          /\ UNCHANGED violation
  /\ Return
  /\ UNCHANGED <<rigid, cex, certificates, crash>>
-----------------------------------------------------------------------------
(***************************************************************************)
(* step(): the instructions, each executed on a RUNNING state.             *)
(***************************************************************************)
IsInstr(op) == IsTop("RUNNING") /\ At(Top.pc).op = op
Push(new) == Continue(new) /\ UNCHANGED <<rigid, findings, crash>>

\* A conditional branch or select: both successors are to be tested.
Branch ==
  /\ IsInstr("branch")
  /\ LET i == At(Top.pc)
         c == Top.cond \cap i.def
     IN  Push(<<Step(Top, i.next, "TESTING", c \cap i.holds),
                Step(Top, i.alt, "TESTING", c \ i.holds)>>)

\* The prologue of every call: with noundef integer arguments the path is
\* restricted to defined arguments, and dropped unless is_feasible says yes.
CallDropped(i) ==
  /\ i.noundef
  /\ \E answer \in Answers(Top.cond \cap i.def, ProbeGivesUp) : answer # "sat"
  /\ Push(<<>>)
CallProceeds(i) == i.noundef => Top.cond \cap i.def # {}

\* Mutant: the state does not step past the assertion.
CallAssertInPlace ==
  /\ IsInstr("assert")
  /\ CallProceeds(At(Top.pc))
  /\ Push(<<[Top EXCEPT !.status = "VERIFYING",
                        !.cond = @ \cap Args(At(Top.pc))]>>)

CallAssert ==
  /\ IsInstr("assert")
  /\ LET i == At(Top.pc)
     IN  \/ CallDropped(i)
         \/ /\ CallProceeds(i)
            /\ Push(<<Step(Top, i.next, "VERIFYING", Top.cond \cap Args(i))>>)

CallAssume ==
  /\ IsInstr("assume")
  /\ LET i == At(Top.pc)
     IN  \/ CallDropped(i)
         \/ /\ CallProceeds(i)
            /\ Push(<<Step(Top, i.next, "TESTING",
                           Top.cond \cap i.def \cap i.holds)>>)

\* reach_error() takes no argument; the state does not move past the call.
CallReachError ==
  /\ IsInstr("error")
  /\ Push(<<[Top EXCEPT !.status = "REACH_ERROR"]>>)

\* With no pointer argument execute_cache asks for a model of the path
\* condition before anything else; State::get_model asserts there is one.
ModelMissing(i) == i.scalar /\ Top.cond \cap Args(i) = {}
CallWithoutModel ==
  /\ IsInstr("call") \/ IsInstr("func") \/ IsInstr("unknown")
  /\ CallProceeds(At(Top.pc))
  /\ ModelMissing(At(Top.pc))
  /\ Crash(IF Debug THEN "path_not_satisfiable" ELSE "exception")
  /\ UNCHANGED rigid

\* The body of the called function is executed.
CallDefined ==
  /\ IsInstr("call")
  /\ LET i == At(Top.pc)
     IN  \/ CallDropped(i)
         \/ /\ CallProceeds(i)
            /\ ~ModelMissing(i)
            /\ Push(<<Step(Top, i.next, "RUNNING", Top.cond \cap Args(i))>>)

\* The certificates of a path after an exact summary at its pc.
Certified(i, s) ==
  LET valid == IF i.cert = "path" THEN s.cond ELSE Point
  IN  IF i.exact /\ i.cert # "none"
      THEN Merge(s.certs, {[at |-> s.pc, valid |-> valid]})
      ELSE s.certs

\* The points a summary lets through, and the path after the summary.
Image(i, S) == UNION {i.out[p] : p \in S}
\* (Mutant: without marking an over-approximation.)
SummarisedAsExact(i, s, S) ==
  [Step(s, i.next, "RUNNING", Image(i, S))
     EXCEPT !.complete = @ /\ ~(i.exact /\ i.hides),
            !.certs = Certified(i, s)]
Summarised(i, s, S) ==
  [Step(s, i.next, "RUNNING", Image(i, S))
     EXCEPT !.approx = @ \/ ~i.exact,
            !.complete = @ /\ ~(i.exact /\ i.hides),
            !.certs = Certified(i, s)]

\* A recursive function is replaced by its summary.  The assertions inside it
\* are not among the successors: while summarising they are only collected.
CallSummarised ==
  /\ IsInstr("func")
  /\ LET i == At(Top.pc)
     IN  \/ CallDropped(i)
         \/ /\ CallProceeds(i)
            /\ ~ModelMissing(i)
            /\ Push(<<Summarised(i, Top, Top.cond \cap Args(i))>>)

\* A recursive call with symbolic arguments and no summary.
CallUnknown ==
  /\ IsInstr("unknown")
  /\ LET i == At(Top.pc)
     IN  \/ CallDropped(i)
         \/ /\ CallProceeds(i)
            /\ ~ModelMissing(i)
            /\ Push(<<[Top EXCEPT !.status = "UNKNOWN",
                                  !.cond = @ \cap Args(i)]>>)

\* A legacy whole-loop summary (execute_if_summarizable).  The query for the
\* assertions inside ignores the path condition; a loop without a unique exit
\* block ends the path.
LoopSummary ==
  /\ IsInstr("loop")
  /\ LET i == At(Top.pc)
         s == [Top EXCEPT !.complete = @ /\ ~i.hides,
                          !.certs = Certified(i, Top)]
         past == [Summarised(i, Top, Top.cond) EXCEPT !.complete = s.complete]
     IN  \E answer \in Answers(i.query, SolverGivesUp) :
           \/ /\ answer = "sat"
              /\ Push(<<[s EXCEPT !.status =
                           IF i.exact /\ ~Imprecise(s) THEN "FAIL"
                                                       ELSE "UNKNOWN"]>>)
           \/ /\ answer = "unknown"
              /\ Push(<<[s EXCEPT !.status = "UNKNOWN"]>>)
           \/ /\ answer = "unsat" /\ ~i.oneExit
              /\ Push(<<[s EXCEPT !.status = "TERMINATED"]>>)
           \/ /\ answer = "unsat" /\ i.oneExit
              /\ Push(<<past>>)

\* Ordinary execution of a loop header: its PHIs step into the body.
StepIntoLoop(i) == Push(<<Step(Top, i.alt, "RUNNING", Top.cond)>>)

\* A trace-driven acceleration: a jump, which the solver found feasible, and
\* the residual path unless the solver refutes it.
Accelerate ==
  /\ IsInstr("accel")
  /\ LET i == At(Top.pc)
         jump == Step(Top, i.next, "RUNNING", Top.cond \cap i.holds)
         residual == Step(Top, i.alt, "RUNNING", Top.cond \ i.holds)
     IN  \/ StepIntoLoop(i)
         \/ /\ jump.cond # {}
            /\ \E answer \in Answers(residual.cond, SolverGivesUp) :
                 Push(IF answer = "unsat" THEN <<jump>>
                                          ELSE <<jump, residual>>)

\* A nested summary applies only when the path entails its domain.
AccelerateNested ==
  /\ IsInstr("nested")
  /\ LET i == At(Top.pc)
     IN  \/ StepIntoLoop(i)
         \/ /\ Top.cond \subseteq i.holds
            /\ Push(<<Step(Top, i.next, "RUNNING", Top.cond)>>)

Terminate ==
  /\ IsInstr("return")
  /\ Push(<<[Top EXCEPT !.status = "TERMINATED"]>>)

\* A z3::exception, or an instruction that is not supported, ends the run.
Throw ==
  /\ \E s \in {"RUNNING", "VERIFYING", "TESTING", "REACH_ERROR"} : IsTop(s)
  /\ Crash("exception")
  /\ UNCHANGED rigid
-----------------------------------------------------------------------------
Pop == \/ PopTerminated \/ PopTesting \/ PopVerifying \/ PopReachError
       \/ PopUnreachableError \/ PopUnknown \/ PopFail
Execute == \/ Branch \/ CallAssert \/ CallAssume \/ CallReachError
           \/ CallWithoutModel \/ CallDefined \/ CallSummarised \/ CallUnknown
           \/ LoopSummary \/ Accelerate \/ AccelerateNested \/ Terminate
Run == Pop \/ Execute \/ Exhausted
\* The caller does not ask again.
Stop == phase = "done" /\ runs = MaxRuns /\ UNCHANGED vars
Next == Run \/ Throw \/ (\E e \in Programs[prog].entries : Verify(e)) \/ Stop

Spec == Init /\ [][Next]_vars
\* Engine::run is a plain loop: while it can take a step it takes one.
FairSpec == Spec /\ WF_vars(Run)
-----------------------------------------------------------------------------
\* A path in one of these states stands right after, or at, the instruction
\* that put it there.
StatusOK(s) ==
  /\ s.status = "VERIFYING" => s.prev \in Node /\ At(s.prev).op = "assert"
  /\ s.status = "REACH_ERROR" => At(s.pc).op = "error"
  /\ s.status = "FAIL" => /\ At(s.pc).op = "loop"
                          /\ At(s.pc).exact /\ ~At(s.pc).hides
                          /\ At(s.pc).query # {}

TypeOK ==
  /\ prog \in DOMAIN Programs
  /\ entry \in Programs[prog].entries
  /\ phase \in {"idle", "running", "done"}
  /\ states \in Seq(PathState(Node))
  /\ results \subseteq VeriResult
  /\ issue \subseteq IssueKind
  /\ violation \in Node \cup {NoNode}
  /\ cex \subseteq Point
  /\ certificates \subseteq Certificate(Node)
  /\ verdict \in VeriResult \cup {"none"}
  /\ crash \in CrashKind
  /\ runs \in 0..MaxRuns
  /\ \A k \in 1..Len(states) : StatusOK(states[k])

\* The points of a path that have still to go wrong: those that go wrong from
\* its pc on, or at the assertion that is being verified.
Pending(s) ==
  CASE s.status = "TERMINATED" -> {}
    [] s.status = "VERIFYING" ->
         (s.cond \cap At(s.prev).def)
           \cap ((Point \ At(s.prev).holds) \cup Bad[s.pc])
    [] OTHER -> s.cond \cap Bad[s.pc]

\* No failing input is lost: as long as the run has nothing but proved
\* assertions to show, every input on which the program goes wrong is on a
\* path that is still on the worklist, where it has yet to go wrong.
Coverage ==
  phase = "running" /\ results \subseteq {"HOLD"} =>
    \A p \in Wrong(prog, entry) :
      \E k \in 1..Len(states) : p \in Pending(states[k])

\* A path without an over-approximating summary behind it holds real inputs
\* only, and they go wrong from here only if the program goes wrong on them.
PreciseReal ==
  phase = "running" =>
    \A k \in 1..Len(states) :
      ~states[k].approx => /\ states[k].cond \subseteq Input
                           /\ Pending(states[k]) \subseteq Bad[entry]

\* TRUE is answered only of a program that no input makes go wrong, although
\* paths were dropped, summarised and cut short on the way (driver: "The
\* program is safe").
TrueSound == verdict = "HOLD" => Wrong(prog, entry) = {}

\* FALSE is answered only of a program that some input makes go wrong, however
\* imprecise the other paths were (driver: "The program is unsafe").
FalseSound == verdict = "FAIL" => Wrong(prog, entry) # {}

\* The model kept by capture_counterexample for the violation witness is an
\* input on which the program goes wrong, and it does so at
\* violation_instruction: reach_error is called, or a defined assertion fails.
CounterexampleReal ==
  \A p \in cex :
    /\ p \in Wrong(prog, entry)
    /\ violation \in Node
    /\ \/ At(violation).op = "error"
       \/ /\ At(violation).op = "assert"
          /\ p \in At(violation).def \ At(violation).holds

\* The worklist never holds one input twice: the splits at branches, selects
\* and accelerations are disjoint, and a run starts from an empty stack
\* although an earlier one may have returned with sibling paths unexplored.
EachInputOnce ==
  phase = "running" =>
    \A j, k \in 1..Len(states) :
      j # k => states[j].cond \cap states[k].cond \cap Input = {}

\* An UNKNOWN answer always comes with a recorded reason, and a TRUE answer
\* never does (record_issue is called wherever VERIUNKNOWN is pushed).
UnknownExplained ==
  /\ verdict = "VERIUNKNOWN" => issue # {}
  /\ verdict = "HOLD" => issue = {}

\* The certificate kept for a loop is a true statement of every path that is
\* completed through that loop.
CertificatesCover ==
  [][IsTop("TERMINATED") /\ states' = Rest =>
       \A c \in Top.certs :
         \A k \in certificates' : k.at = c.at => c.valid \subseteq k.valid]_vars

\* engine.cpp:162, assert(cur_state->status == State::RUNNING).
SteppedOnlyRunning == crash # "status_not_running"

\* state.cpp:153, "Path condition is not satisfiable, this state should not be
\* created".
ModelExists == crash # "path_not_satisfiable"

\* Engine::verify returns or throws, for a program without a cycle of
\* unsummarised paths.
Terminates == phase = "running" ~> phase = "done"

\* The engine implements the promise of Verifier: what a caller of
\* Engine::verify sees is the module, the entry, whether the call has
\* returned, and what it returned or threw; the rest is hidden.
Abs == INSTANCE Verifier WITH prog <- prog, entry <- entry, phase <- phase,
                              verdict <- verdict, crash <- crash
Implements == Abs!Spec
=============================================================================
