---------------------------- MODULE EngineProofs ----------------------------
(***************************************************************************)
(* Proofs about Engine, for every set of programs, every setting of the    *)
(* switches and every behaviour of the solver: types and the worklist, the *)
(* answers, and that Engine implements Verifier.                           *)
(***************************************************************************)
EXTENDS Engine, TLAPS, SequenceTheorems

(***************************************************************************)
(* The worklist: what replacing its top by other elements does.            *)
(***************************************************************************)
\* The stack that is left when the top gives way to the elements of new.
Replace(st, new) == SubSeq(st, 1, Len(st) - 1) \o new

\* Replacing the top of a stack (run: pop, then push what step returned)
\* leaves the rest in place and adds the new elements above it.
LEMMA ReplaceTop ==
  ASSUME NEW S, NEW st \in Seq(S), st # <<>>, NEW new \in Seq(S)
  PROVE  /\ Replace(st, new) \in Seq(S)
         /\ Len(Replace(st, new)) = (Len(st) - 1) + Len(new)
         /\ \A k \in 1..(Len(st) - 1) : Replace(st, new)[k] = st[k]
         /\ \A j \in 1..Len(new) :
              \E k \in 1..Len(Replace(st, new)) : Replace(st, new)[k] = new[j]
<1> DEFINE rest == SubSeq(st, 1, Len(st) - 1)
           r == rest \o new
<1>1. /\ Len(st) \in Nat /\ Len(st) >= 1
      /\ \A k \in 1..Len(st) : st[k] \in S
  BY EmptySeq, LenProperties
<1>2. /\ rest \in Seq(S)
      /\ Len(rest) = Len(st) - 1
      /\ \A k \in 1..(Len(st) - 1) : rest[k] = st[k]
  <2>1. 1 \in Int /\ Len(st) - 1 \in Int /\ \A k \in 1..(Len(st) - 1) : st[k] \in S
    BY <1>1
  <2>2. /\ rest \in Seq(S)
        /\ Len(rest) = IF 1 <= Len(st) - 1 THEN (Len(st) - 1) - 1 + 1 ELSE 0
        /\ \A k \in 1..((Len(st) - 1) - 1 + 1) : rest[k] = st[1 + k - 1]
    BY <2>1, SubSeqProperties
  <2> HIDE DEF rest
  <2>3. Len(rest) = Len(st) - 1
    <3> DEFINE n == Len(st)
    <3>1. n \in Nat /\ n >= 1
      BY <1>1
    <3>2. Len(rest) = IF 1 <= n - 1 THEN (n - 1) - 1 + 1 ELSE 0
      BY <2>2
    <3> HIDE DEF n
    <3>3. Len(rest) = n - 1
      BY <3>1, <3>2, Z3
    <3> QED
      BY <3>3 DEF n
  <2>4. ASSUME NEW k \in 1..(Len(st) - 1)
        PROVE  rest[k] = st[k]
    <3>1. k \in 1..((Len(st) - 1) - 1 + 1) /\ 1 + k - 1 = k
      BY <1>1
    <3>2. rest[k] = st[1 + k - 1]
      BY <2>2, <3>1
    <3> QED
      BY <3>1, <3>2
  <2> QED
    BY <2>2, <2>3, <2>4
<1>3. /\ r \in Seq(S)
      /\ Len(r) = Len(rest) + Len(new)
      /\ \A k \in 1..Len(rest) : r[k] = rest[k]
      /\ \A j \in 1..Len(new) : \E k \in 1..Len(r) : r[k] = new[j]
  <2>1. Len(new) \in Nat
    BY LenProperties
  <2>2. rest \in Seq(S) /\ Len(rest) \in Nat
    BY <1>2, LenProperties
  <2> HIDE DEF rest
  <2>3. /\ r \in Seq(S)
        /\ Len(r) = Len(rest) + Len(new)
        /\ \A i \in 1..(Len(rest) + Len(new)) :
             r[i] = IF i <= Len(rest) THEN rest[i] ELSE new[i - Len(rest)]
    BY <2>2, ConcatProperties
  <2> HIDE DEF r
  <2>4. ASSUME NEW k \in 1..Len(rest)
        PROVE  r[k] = rest[k]
    BY <2>1, <2>2, <2>3
  <2>5. ASSUME NEW j \in 1..Len(new)
        PROVE  \E k \in 1..Len(r) : r[k] = new[j]
    <3>1. /\ Len(rest) + j \in 1..(Len(rest) + Len(new))
          /\ ~(Len(rest) + j <= Len(rest))
          /\ (Len(rest) + j) - Len(rest) = j
      BY <2>1, <2>2
    <3> QED
      BY <2>3, <3>1
  <2> QED
    BY <2>3, <2>4, <2>5
<1> QED
  BY <1>2, <1>3 DEF Replace

\* The stacks that run() goes on with: no, one or two new states on the rest.
LEMMA PushedTyped ==
  ASSUME NEW S, NEW st \in Seq(S), st # <<>>
  PROVE  /\ st[Len(st)] \in S
         /\ SubSeq(st, 1, Len(st) - 1) \in Seq(S)
         /\ SubSeq(st, 1, Len(st) - 1) \o <<>> \in Seq(S)
         /\ \A x \in S : SubSeq(st, 1, Len(st) - 1) \o <<x>> \in Seq(S)
         /\ \A x, y \in S : SubSeq(st, 1, Len(st) - 1) \o <<x, y>> \in Seq(S)
<1>1. st[Len(st)] \in S
  BY EmptySeq, LenProperties
<1>2. <<>> \in Seq(S)
  BY EmptySeq
<1>3. \A x \in S : <<x>> \in Seq(S)
  OBVIOUS
<1>4. \A x, y \in S : <<x, y>> \in Seq(S)
  OBVIOUS
<1>5. SubSeq(st, 1, Len(st) - 1) \in Seq(S)
  <2>1. \A k \in 1..(Len(st) - 1) : st[k] \in S
    BY LenProperties
  <2> QED
    BY <2>1, LenProperties, SubSeqProperties
<1> QED
  BY <1>1, <1>2, <1>3, <1>4, <1>5, ReplaceTop DEF Replace
-----------------------------------------------------------------------------
(***************************************************************************)
(* Type correctness.                                                       *)
(***************************************************************************)
\* The paths that stand where their status says.
Placed == {s \in PathState(Node) : StatusOK(s)}

\* TypeOK, with its two statements about the worklist in one.
TypeInv ==
  /\ prog \in DOMAIN Programs
  /\ entry \in Programs[prog].entries
  /\ phase \in {"idle", "running", "done"}
  /\ states \in Seq(Placed)
  /\ results \subseteq VeriResult
  /\ issue \subseteq IssueKind
  /\ violation \in Node \cup {NoNode}
  /\ cex \subseteq Point
  /\ certificates \subseteq Certificate(Node)
  /\ verdict \in VeriResult \cup {"none"}
  /\ crash \in CrashKind
  /\ runs \in 0..MaxRuns

\* Instructions of the loaded program are instructions.
LEMMA InstrTyped ==
  ASSUME prog \in DOMAIN Programs, NEW n \in Node
  PROVE  /\ At(n) \in Instr(Node)
         /\ At(n).next \in Node
         /\ At(n).alt \in Node
  BY ProgramsOK DEF WellFormed, Node, At, Instr

\* The entry points of the loaded program are nodes; the null pc is none.
LEMMA EntriesTyped ==
  ASSUME prog \in DOMAIN Programs
  PROVE  Programs[prog].entries \subseteq Node /\ NoNode \notin Node
  BY ProgramsOK, NoNodeOK DEF WellFormed, Node

\* The element the loop pops is a placed path, and the rest are.
LEMMA TopTyped ==
  ASSUME TypeInv, states # <<>>
  PROVE  /\ Top \in Placed
         /\ Top \in PathState(Node)
         /\ StatusOK(Top)
         /\ Rest \in Seq(Placed)
         /\ Rest \o <<>> \in Seq(Placed)
         /\ \A x \in Placed : Rest \o <<x>> \in Seq(Placed)
         /\ \A x, y \in Placed : Rest \o <<x, y>> \in Seq(Placed)
<1>1. Top \in Placed
  BY PushedTyped DEF Top, TypeInv
<1> QED
  BY <1>1, PushedTyped DEF Rest, TypeInv, Placed

\* TypeInv is TypeOK.
LEMMA TypeInvIsTypeOK == TypeInv => TypeOK
<1> SUFFICES ASSUME TypeInv
             PROVE  TypeOK
  OBVIOUS
<1>1. states \in [1..Len(states) -> Placed]
  BY LenProperties DEF TypeInv
<1>2. \A k \in 1..Len(states) : states[k] \in PathState(Node) /\ StatusOK(states[k])
  BY <1>1 DEF Placed
<1>3. states \in Seq(PathState(Node))
  BY <1>2, LenProperties, SeqDef DEF TypeInv, Placed
<1> QED
  BY <1>2, <1>3 DEF TypeInv, TypeOK

\* What a path is depends on the loaded program only.
LEMMA PlacedRigid ==
  ASSUME prog' = prog
  PROVE  Placed' = Placed /\ Node' = Node
  BY DEF Placed, PathState, StatusOK, Certificate, At, Node

\* A path that moves to another instruction, to run or to be tested there.
LEMMA StepTyped ==
  ASSUME NEW s \in PathState(Node), NEW n \in Node, NEW c \in SUBSET Point,
         NEW status \in {"RUNNING", "TESTING"}
  PROVE  Step(s, n, status, c) \in Placed
  BY DEF Step, Placed, PathState, StatusOK, Status

\* A path that stays where it is, with a status that needs no placement.
LEMMA StayTyped ==
  ASSUME NEW s \in PathState(Node), NEW c \in SUBSET Point,
         NEW status \in {"RUNNING", "TERMINATED", "UNKNOWN"}
  PROVE  /\ [s EXCEPT !.status = status, !.cond = c] \in Placed
         /\ [s EXCEPT !.status = status] \in Placed
  BY DEF Placed, PathState, StatusOK, Status

\* No placement depends on whether the path's counterexample is complete.
LEMMA CompleteTyped ==
  ASSUME NEW s \in Placed, NEW b \in BOOLEAN
  PROVE  [s EXCEPT !.complete = b] \in Placed
  BY DEF Placed, PathState, StatusOK

\* Certificates are kept, filtered or added, and never made up.
LEMMA MergeTyped ==
  ASSUME NEW kept \in SUBSET Certificate(Node), NEW new \in SUBSET Certificate(Node)
  PROVE  Merge(kept, new) \subseteq Certificate(Node)
  BY DEF Merge

LEMMA CertifiedTyped ==
  ASSUME NEW i \in Instr(Node), NEW s \in PathState(Node)
  PROVE  Certified(i, s) \in SUBSET Certificate(Node)
<1>1. s.certs \in SUBSET Certificate(Node) /\ s.pc \in Node /\ s.cond \in SUBSET Point
  BY DEF PathState
<1> DEFINE c == [at |-> s.pc, valid |-> IF i.cert = "path" THEN s.cond ELSE Point]
<1>2. c \in Certificate(Node)
  BY <1>1 DEF Certificate
<1>3. Merge(s.certs, {c}) \subseteq Certificate(Node)
  BY <1>1, <1>2, MergeTyped
<1> QED
  BY <1>1, <1>3 DEF Certified

\* The path after a summary.
LEMMA SummarisedTyped ==
  ASSUME NEW i \in Instr(Node), NEW s \in PathState(Node), NEW S \in SUBSET Point
  PROVE  Summarised(i, s, S) \in Placed
<1>1. i.next \in Node /\ i.exact \in BOOLEAN /\ i.hides \in BOOLEAN
  BY DEF Instr
<1>2. Image(i, S) \in SUBSET Point
  BY DEF Instr, Image
<1>3. Certified(i, s) \in SUBSET Certificate(Node)
  BY CertifiedTyped
<1>4. Step(s, i.next, "RUNNING", Image(i, S)) \in PathState(Node)
  BY <1>1, <1>2, StepTyped DEF Placed
<1>5. Step(s, i.next, "RUNNING", Image(i, S)).status = "RUNNING"
  BY DEF Step, PathState
<1> HIDE DEF Image, Certified
<1> QED
  BY ZenonT(90), <1>1, <1>3, <1>4, <1>5 DEF Summarised, Placed, PathState, StatusOK, Status

\* The initial states are typed.
LEMMA InitTyped == Init => TypeInv
  BY ConstantsOK, EmptySeq DEF Init, TypeInv, CrashKind, VeriResult

\* A new run starts from a typed state.
LEMMA VerifyTyped ==
  ASSUME TypeInv, NEW e \in Programs[prog].entries, Verify(e)
  PROVE  TypeInv'
<1>1. Placed' = Placed /\ Node' = Node
  BY PlacedRigid DEF Verify
<1>2. InitialState(e) \in Placed
  <2>1. e \in Node
    BY EntriesTyped DEF TypeInv
  <2> QED
    BY <2>1, InputOK DEF InitialState, Placed, PathState, StatusOK, Status
<1>3. states' \in Seq(Placed')
  BY <1>1, <1>2 DEF Verify
<1>4. runs' \in 0..MaxRuns
  BY ConstantsOK DEF Verify, TypeInv
<1> QED
  BY <1>1, <1>3, <1>4 DEF Verify, TypeInv, CrashKind, VeriResult

\* What run() does to the variables other than the worklist.
LEMMA ReturnTyped ==
  ASSUME results' \subseteq VeriResult
  PROVE  VerdictOf(results') \in VeriResult
  BY DEF VerdictOf, VeriResult

LEMMA IssueTyped ==
  ASSUME TypeInv, NEW kind \in IssueKind, RecordIssue(kind)
  PROVE  issue' \subseteq IssueKind
  BY DEF RecordIssue, TypeInv

\* Each status other than RUNNING.
LEMMA PopTyped ==
  ASSUME TypeInv, Pop
  PROVE  TypeInv'
<1> USE DEF rigid, findings
<1>1. states # <<>> /\ phase = "running"
  BY DEF Pop, PopTerminated, PopTesting, PopVerifying, PopReachError,
         PopUnreachableError, PopUnknown, PopFail, IsTop
<1>2. prog' = prog /\ entry' = entry /\ runs' = runs
  BY DEF Pop, PopTerminated, PopTesting, PopVerifying, PopReachError,
         PopUnreachableError, PopUnknown, PopFail
<1>3. Placed' = Placed /\ Node' = Node
  BY <1>2, PlacedRigid
<1>4. /\ Top \in Placed
      /\ Top \in PathState(Node)
      /\ StatusOK(Top)
      /\ Rest \in Seq(Placed)
      /\ Rest \o <<>> \in Seq(Placed)
      /\ \A x \in Placed : Rest \o <<x>> \in Seq(Placed)
  BY <1>1, TopTyped
<1>5. Top.pc \in Node /\ Top.cond \subseteq Point /\ Top.certs \subseteq Certificate(Node)
  BY <1>4 DEF PathState
<1> HIDE DEF rigid, findings
<1>6. CASE PopTerminated
  <2>1. certificates' \subseteq Certificate(Node)
    BY <1>5, <1>6, MergeTyped DEF PopTerminated, TypeInv
  <2> QED
    BY <1>2, <1>3, <1>4, <1>6, <2>1 DEF PopTerminated, Continue, TypeInv
<1>7. CASE PopTesting
  <2>1. [Top EXCEPT !.status = "RUNNING"] \in Placed
    BY <1>4, <1>5, StayTyped
  <2>2. states' \in Seq(Placed)
    BY <1>4, <1>7, <2>1 DEF PopTesting, Continue
  <2>3. issue' \subseteq IssueKind
    BY <1>7, IssueTyped DEF PopTesting, IssueKind, TypeInv
  <2> QED
    BY <1>2, <1>3, <1>7, <2>2, <2>3 DEF PopTesting, Continue, TypeInv, VeriResult
<1>8. CASE PopVerifying
  <2>1. Top.prev \in Node /\ At(Top.prev) \in Instr(Node)
    BY <1>4, <1>8, InstrTyped DEF PopVerifying, IsTop, StatusOK, TypeInv
  <2>2. Assumed(Top) \in Placed
    BY <1>4, <1>5, <2>1, StayTyped DEF Assumed
  <2>3. Failing(Top) \subseteq Point
    BY <1>5 DEF Failing
  <2>4. states' \in Seq(Placed)
    BY <1>4, <1>8, <2>2 DEF PopVerifying, Continue, Return
  <2>5. WhyImprecise(Top) \in IssueKind /\ "Z3Unknown" \in IssueKind
    BY DEF WhyImprecise, IssueKind
  <2>6. issue' \subseteq IssueKind
    BY <1>8, <2>5, IssueTyped DEF PopVerifying, TypeInv
  <2>7. results' \subseteq VeriResult
    BY <1>8 DEF PopVerifying, TypeInv, VeriResult
  <2>8. verdict' \in VeriResult \cup {"none"} /\ phase' \in {"idle", "running", "done"}
    BY <1>8, <2>7, ReturnTyped DEF PopVerifying, TypeInv, Continue, Return
  <2>9. violation' \in Node \cup {NoNode} /\ cex' \subseteq Point
    BY <1>8, <2>1, <2>3 DEF PopVerifying, TypeInv
  <2> QED
    BY <1>2, <1>3, <1>8, <2>4, <2>6, <2>7, <2>8, <2>9 DEF PopVerifying, TypeInv
<1>9. CASE PopReachError
  <2>1. states' \in Seq(Placed)
    BY <1>4, <1>9 DEF PopReachError, Return
  <2>2. WhyImprecise(Top) \in IssueKind /\ "Z3Unknown" \in IssueKind
    BY DEF WhyImprecise, IssueKind
  <2>3. issue' \subseteq IssueKind
    BY <1>9, <2>2, IssueTyped DEF PopReachError, TypeInv
  <2>4. results' \subseteq VeriResult
    BY <1>9 DEF PopReachError, TypeInv, VeriResult
  <2>5. verdict' \in VeriResult /\ phase' = "done"
    BY <1>9, <2>4, ReturnTyped DEF PopReachError, Return
  <2>6. violation' \in Node \cup {NoNode} /\ cex' \subseteq Point
    BY <1>5, <1>9 DEF PopReachError, TypeInv
  <2> QED
    BY <1>2, <1>3, <1>9, <2>1, <2>3, <2>4, <2>5, <2>6 DEF PopReachError, TypeInv
<1>10. CASE PopUnreachableError
  BY <1>2, <1>3, <1>4, <1>10
     DEF PopUnreachableError, Continue, Crash, findings, TypeInv, CrashKind
<1>11. CASE PopUnknown
  <2>1. issue' \subseteq IssueKind
    BY <1>11, IssueTyped DEF PopUnknown, IssueKind
  <2>2. results' \subseteq VeriResult
    BY <1>11 DEF PopUnknown, TypeInv, VeriResult
  <2>3. verdict' \in VeriResult
    BY <1>11, <2>2, ReturnTyped DEF PopUnknown, Return
  <2> QED
    BY <1>2, <1>3, <1>4, <1>11, <2>1, <2>2, <2>3 DEF PopUnknown, Return, TypeInv
<1>12. CASE PopFail
  <2>1. issue' \subseteq IssueKind
    BY <1>12, IssueTyped DEF PopFail, IssueKind, TypeInv
  <2>2. results' \subseteq VeriResult
    BY <1>12 DEF PopFail, TypeInv, VeriResult
  <2>3. verdict' \in VeriResult
    BY <1>12, <2>2, ReturnTyped DEF PopFail, Return
  <2>4. violation' \in Node \cup {NoNode}
    BY <1>5, <1>12 DEF PopFail, TypeInv
  <2> QED
    BY <1>2, <1>3, <1>4, <1>12, <2>1, <2>2, <2>3, <2>4 DEF PopFail, Return, TypeInv
<1> QED
  BY <1>6, <1>7, <1>8, <1>9, <1>10, <1>11, <1>12 DEF Pop

\* Each instruction executed on a RUNNING path pushes placed paths, or throws.
LEMMA ExecuteTyped ==
  ASSUME TypeInv, Execute
  PROVE  TypeInv'
<1> DEFINE i == At(Top.pc)
           Pushes == /\ states' \in Seq(Placed)
                     /\ UNCHANGED <<rigid, findings, crash, phase, verdict>>
<1>1. states # <<>> /\ phase = "running"
  BY DEF Execute, Branch, CallAssert, CallAssume, CallReachError,
         CallWithoutModel, CallDefined, CallSummarised, CallUnknown,
         LoopSummary, Accelerate, AccelerateNested, Terminate, IsInstr, IsTop
<1>2. /\ Top \in PathState(Node)
      /\ StatusOK(Top)
      /\ Rest \in Seq(Placed)
      /\ Rest \o <<>> \in Seq(Placed)
      /\ \A x \in Placed : Rest \o <<x>> \in Seq(Placed)
      /\ \A x, y \in Placed : Rest \o <<x, y>> \in Seq(Placed)
  BY <1>1, TopTyped
<1>3. Top.pc \in Node /\ Top.cond \in SUBSET Point
  BY <1>2 DEF PathState
<1>4. i \in Instr(Node) /\ i.next \in Node /\ i.alt \in Node
  BY <1>3, InstrTyped DEF TypeInv
<1>5. /\ \A n \in Node, c \in SUBSET Point, status \in {"RUNNING", "TESTING"} :
           Step(Top, n, status, c) \in Placed
      /\ \A c \in SUBSET Point, status \in {"RUNNING", "TERMINATED", "UNKNOWN"} :
           /\ [Top EXCEPT !.status = status, !.cond = c] \in Placed
           /\ [Top EXCEPT !.status = status] \in Placed
      /\ \A S \in SUBSET Point : Summarised(i, Top, S) \in Placed
  BY <1>2, <1>4, StepTyped, StayTyped, SummarisedTyped
<1>6. ASSUME Pushes
      PROVE  TypeInv'
  <2>1. Placed' = Placed /\ Node' = Node /\ prog' = prog
    BY <1>6, PlacedRigid DEF rigid
  <2> QED
    BY <1>6, <2>1 DEF TypeInv, rigid, findings
<1>7. CallDropped(i) => Pushes
  BY <1>2 DEF CallDropped, Push, Continue
<1> HIDE DEF i
<1>8. CASE Branch
  <2>1. Pushes
    BY <1>2, <1>3, <1>4, <1>5, <1>8 DEF Branch, Push, Continue, i
  <2> QED
    BY <1>6, <2>1
<1>9. CASE CallAssert
  <2>1. i.op = "assert"
    BY <1>9 DEF CallAssert, IsInstr, i
  <2>2. Step(Top, i.next, "VERIFYING", Top.cond \cap Args(i)) \in Placed
    BY <1>2, <1>3, <1>4, <2>1 DEF Step, Placed, PathState, StatusOK, Status, i
  <2>3. Pushes
    BY <1>2, <1>7, <1>9, <2>2 DEF CallAssert, Push, Continue, i
  <2> QED
    BY <1>6, <2>3
<1>10. CASE CallAssume
  <2>1. Pushes
    BY <1>2, <1>3, <1>4, <1>5, <1>7, <1>10 DEF CallAssume, Push, Continue, i
  <2> QED
    BY <1>6, <2>1
<1>11. CASE CallReachError
  <2>1. [Top EXCEPT !.status = "REACH_ERROR"] \in Placed
    BY <1>2, <1>3, <1>11 DEF CallReachError, IsInstr, Placed, PathState, StatusOK, Status
  <2>2. Pushes
    BY <1>2, <1>11, <2>1 DEF CallReachError, Push, Continue
  <2> QED
    BY <1>6, <2>2
<1>12. CASE CallWithoutModel
  <2>1. Placed' = Placed /\ Node' = Node /\ prog' = prog
    BY <1>12, PlacedRigid DEF CallWithoutModel, rigid
  <2> QED
    BY <1>2, <1>12, <2>1 DEF CallWithoutModel, Crash, rigid, TypeInv, CrashKind
<1>13. CASE CallDefined
  <2>1. Pushes
    BY <1>2, <1>3, <1>4, <1>5, <1>7, <1>13 DEF CallDefined, Push, Continue, i
  <2> QED
    BY <1>6, <2>1
<1>14. CASE CallSummarised
  <2>1. Pushes
    BY <1>2, <1>3, <1>4, <1>5, <1>7, <1>14 DEF CallSummarised, Push, Continue, i
  <2> QED
    BY <1>6, <2>1
<1>15. CASE CallUnknown
  <2>1. Pushes
    BY <1>2, <1>3, <1>4, <1>5, <1>7, <1>15 DEF CallUnknown, Push, Continue, i
  <2> QED
    BY <1>6, <2>1
<1>16. CASE LoopSummary
  <2>1. i.op = "loop"
    BY <1>16 DEF LoopSummary, IsInstr, i
  <2> DEFINE s == [Top EXCEPT !.complete = @ /\ ~i.hides,
                              !.certs = Certified(i, Top)]
             past == [Summarised(i, Top, Top.cond) EXCEPT !.complete = s.complete]
  <2>2. Certified(i, Top) \in SUBSET Certificate(Node)
    BY <1>2, <1>4, CertifiedTyped
  <2>3. s \in PathState(Node) /\ s.pc = Top.pc /\ s.complete \in BOOLEAN
    BY <1>2, <1>4, <2>2 DEF PathState, Instr
  <2>4. past \in Placed
    <3>1. Summarised(i, Top, Top.cond) \in Placed
      BY <1>3, <1>5
    <3> HIDE DEF s
    <3> QED
      BY <2>3, <3>1, CompleteTyped
  <2>5. s.complete => ~i.hides
    BY <1>2, <1>4, <2>2 DEF PathState, Instr
  <2>6. /\ [s EXCEPT !.status = "TERMINATED"] \in Placed
        /\ [s EXCEPT !.status = "UNKNOWN"] \in Placed
    BY <2>3, StayTyped
  <2>7. i.query # {} /\ i.exact /\ ~Imprecise(s) => [s EXCEPT !.status = "FAIL"] \in Placed
    <3>1. ~Imprecise(s) => ~i.hides
      BY <2>3, <2>5 DEF Imprecise
    <3> HIDE DEF s
    <3> QED
      BY <2>1, <2>3, <3>1 DEF Placed, PathState, StatusOK, Status, i
  <2>8. \E x \in Placed : Push(<<x>>)
    <3> HIDE DEF s, past
    <3>1. PICK answer \in Answers(i.query, SolverGivesUp) :
            \/ /\ answer = "sat"
               /\ Push(<<[s EXCEPT !.status =
                            IF i.exact /\ ~Imprecise(s) THEN "FAIL"
                                                        ELSE "UNKNOWN"]>>)
            \/ /\ answer = "unknown"
               /\ Push(<<[s EXCEPT !.status = "UNKNOWN"]>>)
            \/ /\ answer = "unsat" /\ ~i.oneExit
               /\ Push(<<[s EXCEPT !.status = "TERMINATED"]>>)
            \/ /\ answer = "unsat" /\ i.oneExit
               /\ Push(<<past>>)
      BY <1>16 DEF LoopSummary, s, past, i
    <3>2. answer = "sat" => i.query # {}
      BY DEF Answers
    <3> QED
      BY <2>4, <2>6, <2>7, <3>1, <3>2
  <2>9. Pushes
    BY <1>2, <2>8 DEF Push, Continue
  <2> QED
    BY <1>6, <2>9
<1>17. CASE Accelerate
  <2>1. Step(Top, i.next, "RUNNING", Top.cond \cap i.holds) \in Placed
    BY <1>3, <1>4, <1>5
  <2>2. \A c \in SUBSET Point : Step(Top, i.alt, "RUNNING", c) \in Placed
    BY <1>4, <1>5
  <2>3. Pushes
    BY <1>2, <1>3, <1>17, <2>1, <2>2
       DEF Accelerate, StepIntoLoop, Push, Continue, i
  <2> QED
    BY <1>6, <2>3
<1>18. CASE AccelerateNested
  <2>1. Pushes
    BY <1>2, <1>3, <1>4, <1>5, <1>18
       DEF AccelerateNested, StepIntoLoop, Push, Continue, i
  <2> QED
    BY <1>6, <2>1
<1>19. CASE Terminate
  <2>1. Pushes
    BY <1>2, <1>5, <1>19 DEF Terminate, Push, Continue
  <2> QED
    BY <1>6, <2>1
<1> QED
  BY <1>8, <1>9, <1>10, <1>11, <1>12, <1>13, <1>14, <1>15, <1>16, <1>17,
     <1>18, <1>19 DEF Execute

\* The steps that leave no path behind, or a path on the stack.
LEMMA OtherTyped ==
  ASSUME TypeInv, Exhausted \/ Throw \/ UNCHANGED vars
  PROVE  TypeInv'
<1>1. prog' = prog
  BY DEF Exhausted, Throw, vars, rigid
<1>2. Placed' = Placed /\ Node' = Node
  BY <1>1, PlacedRigid
<1>3. CASE Exhausted
  BY <1>1, <1>2, <1>3
     DEF Exhausted, rigid, findings, TypeInv, VerdictOf, VeriResult
<1>4. CASE Throw
  <2>1. states # <<>>
    BY <1>4 DEF Throw, IsTop
  <2>2. Rest \in Seq(Placed)
    BY <2>1, TopTyped
  <2> QED
    BY <1>1, <1>2, <1>4, <2>2 DEF Throw, Crash, rigid, TypeInv, CrashKind
<1>5. CASE UNCHANGED vars
  BY <1>1, <1>2, <1>5 DEF vars, TypeInv
<1> QED
  BY <1>3, <1>4, <1>5

LEMMA AlwaysTyped == Spec => []TypeInv
<1>1. Init => TypeInv
  BY InitTyped
<1>2. TypeInv /\ [Next]_vars => TypeInv'
  BY VerifyTyped, PopTyped, ExecuteTyped, OtherTyped DEF Next, Run, Stop
<1> QED
  BY <1>1, <1>2, PTL DEF Spec

\* Every reachable state is typed: in particular a path that is VERIFYING has
\* just passed an assertion, and one that is to FAIL stands at a loop whose
\* exact summary refuted an assertion (Engine::run relies on both).
THEOREM TypeCorrect == Spec => []TypeOK
  BY AlwaysTyped, TypeInvIsTypeOK, PTL
-----------------------------------------------------------------------------
(***************************************************************************)
(* Every UNKNOWN is explained.                                             *)
(***************************************************************************)
\* A reason is on record exactly when an unknown result is.
Explained == issue # {} <=> "VERIUNKNOWN" \in results
ExplainedInv == /\ Explained
                /\ phase = "running" => verdict = "none"
                /\ UnknownExplained

\* Recording an unknown result together with a reason, or neither of them.
LEMMA ReasonRecorded ==
  ASSUME \/ UNCHANGED <<issue, results>>
         \/ results' = results \cup {"HOLD"} /\ issue' = issue
         \/ results' = results \cup {"FAIL"} /\ issue' = issue
         \/ /\ results' = results \cup {"VERIUNKNOWN"}
            /\ \E kind : RecordIssue(kind),
         Explained
  PROVE  Explained'
  BY DEF Explained, RecordIssue

\* A verdict that follows from explained results is explained.
LEMMA VerdictExplained ==
  ASSUME results' \subseteq VeriResult, Explained', verdict' = VerdictOf(results')
  PROVE  UnknownExplained'
<1>1. CASE results' \subseteq {"HOLD"}
  BY <1>1 DEF VerdictOf, Explained, UnknownExplained
<1>2. CASE ~(results' \subseteq {"HOLD"}) /\ "FAIL" \in results'
  BY <1>2 DEF VerdictOf, UnknownExplained
<1>3. CASE ~(results' \subseteq {"HOLD"}) /\ "FAIL" \notin results'
  <2>1. "VERIUNKNOWN" \in results'
    BY <1>3 DEF VeriResult
  <2>2. verdict' = "VERIUNKNOWN"
    BY <1>3 DEF VerdictOf
  <2> QED BY <2>1, <2>2 DEF Explained, UnknownExplained
<1> QED
  BY <1>1, <1>2, <1>3

\* What an iteration of run() does with the results and the reason.
LEMMA ReasonGiven ==
  ASSUME TypeInv, Run \/ Throw
  PROVE  /\ \/ UNCHANGED <<issue, results>>
            \/ results' = results \cup {"HOLD"} /\ issue' = issue
            \/ results' = results \cup {"FAIL"} /\ issue' = issue
            \/ /\ results' = results \cup {"VERIUNKNOWN"}
               /\ \E kind : RecordIssue(kind)
         /\ phase = "running"
         /\ \/ verdict' = verdict
            \/ phase' = "done" /\ verdict' = VerdictOf(results')
<1>1. CASE Pop
  <2>1. CASE PopTerminated
    BY <2>1 DEF PopTerminated, IsTop, Continue
  <2>2. CASE PopTesting
    BY <2>2 DEF PopTesting, IsTop, Continue
  <2>3. CASE PopVerifying
    BY <2>3 DEF PopVerifying, IsTop, Continue, Return
  <2>4. CASE PopReachError
    BY <2>4 DEF PopReachError, IsTop, Return
  <2>5. CASE PopUnreachableError
    BY <2>5 DEF PopUnreachableError, IsTop, Continue, Crash, findings
  <2>6. CASE PopUnknown
    BY <2>6 DEF PopUnknown, IsTop, Return
  <2>7. CASE PopFail
    BY <2>7 DEF PopFail, IsTop, Return
  <2> QED BY <1>1, <2>1, <2>2, <2>3, <2>4, <2>5, <2>6, <2>7 DEF Pop
<1>2. CASE Execute
  <2>1. CASE CallWithoutModel
    BY <2>1 DEF CallWithoutModel, IsInstr, IsTop, Crash
  <2>2. CASE ~CallWithoutModel
    BY <1>2, <2>2
       DEF Execute, Branch, CallAssert, CallAssume, CallReachError,
           CallDefined, CallSummarised, CallUnknown, LoopSummary, Accelerate,
           AccelerateNested, Terminate, CallDropped, StepIntoLoop, IsInstr,
           IsTop, Push, Continue, findings
  <2> QED BY <2>1, <2>2
<1>3. CASE Exhausted
  BY <1>3 DEF Exhausted, findings
<1>4. CASE Throw
  BY <1>4 DEF Throw, IsTop, Crash
<1> QED
  BY <1>1, <1>2, <1>3, <1>4 DEF Run

\* An UNKNOWN answer always comes with a recorded reason, and a TRUE answer
\* never does, on every program and whatever the solver gives up on.
THEOREM UnknownsAreExplained == Spec => []UnknownExplained
<1>1. Init => ExplainedInv
  BY DEF Init, ExplainedInv, Explained, UnknownExplained
<1>2. TypeInv /\ TypeInv' /\ ExplainedInv /\ [Next]_vars => ExplainedInv'
  <2> SUFFICES ASSUME TypeInv, TypeInv', ExplainedInv, [Next]_vars
               PROVE  ExplainedInv'
    OBVIOUS
  <2>1. CASE Run \/ Throw
    <3>1. Explained'
      BY <2>1, ReasonGiven, ReasonRecorded DEF ExplainedInv
    <3>2. CASE verdict' = verdict
      BY <2>1, <3>1, <3>2, ReasonGiven DEF ExplainedInv, UnknownExplained
    <3>3. CASE phase' = "done" /\ verdict' = VerdictOf(results')
      BY <3>1, <3>3, VerdictExplained DEF ExplainedInv, TypeInv
    <3> QED BY <2>1, <3>2, <3>3, ReasonGiven
  <2>2. CASE \E e \in Programs[prog].entries : Verify(e)
    BY <2>2 DEF Verify, ExplainedInv, Explained, UnknownExplained
  <2>3. CASE UNCHANGED vars
    BY <2>3 DEF vars, ExplainedInv, Explained, UnknownExplained
  <2> QED BY <2>1, <2>2, <2>3 DEF Next, Stop
<1>3. ExplainedInv => UnknownExplained
  BY DEF ExplainedInv
<1> QED
  BY <1>1, <1>2, <1>3, AlwaysTyped, PTL DEF Spec
-----------------------------------------------------------------------------
(***************************************************************************)
(* No input is on two paths.                                               *)
(***************************************************************************)
Inputs(s) == s.cond \cap Input
Apart(st) == \A j, k \in 1..Len(st) : j # k => Inputs(st[j]) \cap Inputs(st[k]) = {}

\* The top gives way to paths that share out its inputs, or part of them.
SharesOut ==
  \/ states' = Rest \o <<>>
  \/ \E x : /\ states' = Rest \o <<x>>
            /\ Inputs(x) \subseteq Inputs(Top)
  \/ \E x, y : /\ states' = Rest \o <<x, y>>
               /\ Inputs(x) \cup Inputs(y) \subseteq Inputs(Top)
               /\ Inputs(x) \cap Inputs(y) = {}

\* A path that only moves or changes its status keeps its inputs, and one
\* whose condition is strengthened has no new ones.
LEMMA StepInputs ==
  ASSUME NEW s \in PathState(Node), NEW n, NEW status, NEW cond
  PROVE  /\ Inputs(Step(s, n, status, cond)) = cond \cap Input
         /\ Inputs([s EXCEPT !.status = status]) = Inputs(s)
         /\ Inputs([s EXCEPT !.status = status, !.cond = cond]) = cond \cap Input
  BY DEF PathState, Step, Inputs

\* A summary makes no input out of another one.
LEMMA SummarisedInputs ==
  ASSUME TypeInv, NEW s \in PathState(Node), NEW S \in SUBSET s.cond,
         At(s.pc).op \in {"func", "loop"}
  PROVE  Inputs(Summarised(At(s.pc), s, S)) \subseteq Inputs(s)
<1> DEFINE i == At(s.pc)
<1>1. s.pc \in Node /\ s.cond \subseteq Point
  BY DEF PathState
<1>2. \A p \in Point : i.out[p] \cap Input \subseteq {p}
  BY <1>1, ProgramsOK DEF WellFormed, SummaryOK, At, Node, TypeInv
<1>3. Image(i, S) \cap Input \subseteq s.cond
  BY <1>1, <1>2 DEF Image
<1>4. Summarised(i, s, S).cond = Image(i, S)
  BY DEF Summarised, Step, PathState
<1> QED
  BY <1>3, <1>4 DEF Inputs

\* Each instruction shares out the inputs of the path it executes on.
LEMMA ExecuteSharesOut ==
  ASSUME TypeInv, Execute
  PROVE  phase' = "done" \/ SharesOut
<1>1. Top \in PathState(Node) /\ states # <<>>
  BY TopTyped
     DEF Execute, Branch, CallAssert, CallAssume, CallReachError,
         CallWithoutModel, CallDefined, CallSummarised, CallUnknown,
         LoopSummary, Accelerate, AccelerateNested, Terminate, IsInstr, IsTop,
         Placed
<1> DEFINE i == At(Top.pc)
<1>2. ASSUME NEW x, Inputs(x) \subseteq Inputs(Top), Push(<<x>>)
      PROVE  SharesOut
  BY <1>2 DEF Push, Continue, SharesOut
<1>3. ASSUME NEW x, NEW y, Push(<<x, y>>),
             Inputs(x) \cup Inputs(y) \subseteq Inputs(Top),
             Inputs(x) \cap Inputs(y) = {}
      PROVE  SharesOut
  BY <1>3 DEF Push, Continue, SharesOut
<1>4. ASSUME CallDropped(i)
      PROVE  SharesOut
  BY <1>4 DEF CallDropped, Push, Continue, SharesOut
<1>5. ASSUME NEW n, NEW status, NEW cond, cond \subseteq Top.cond
      PROVE  /\ Inputs(Step(Top, n, status, cond)) \subseteq Inputs(Top)
             /\ Inputs([Top EXCEPT !.status = status]) \subseteq Inputs(Top)
             /\ Inputs([Top EXCEPT !.status = status, !.cond = cond])
                  \subseteq Inputs(Top)
  BY <1>1, <1>5, StepInputs DEF Inputs
<1>6. ASSUME NEW n, NEW status, NEW cond
      PROVE  Inputs(Step(Top, n, status, cond)) = cond \cap Input
  BY <1>1 DEF PathState, Step, Inputs
<1>7. CASE Branch
  <2> DEFINE c == Top.cond \cap i.def
             x == Step(Top, i.next, "TESTING", c \cap i.holds)
             y == Step(Top, i.alt, "TESTING", c \ i.holds)
  <2>1. Push(<<x, y>>)
    BY <1>7 DEF Branch
  <2>2. Inputs(x) = c \cap i.holds \cap Input /\ Inputs(y) = (c \ i.holds) \cap Input
    BY <1>6
  <2>3. /\ Inputs(x) \cup Inputs(y) \subseteq Inputs(Top)
        /\ Inputs(x) \cap Inputs(y) = {}
    <3> HIDE DEF x, y
    <3> QED BY <2>2 DEF Inputs
  <2> HIDE DEF x, y
  <2> QED BY <1>3, <2>1, <2>3
<1>8. CASE CallAssert
  BY <1>2, <1>4, <1>5, <1>8 DEF CallAssert
<1>9. CASE CallAssume
  BY <1>2, <1>4, <1>5, <1>9 DEF CallAssume
<1>10. CASE CallReachError
  BY <1>2, <1>5, <1>10 DEF CallReachError
<1>11. CASE CallWithoutModel
  BY <1>11 DEF CallWithoutModel, Crash
<1>12. CASE CallDefined
  BY <1>2, <1>4, <1>5, <1>12 DEF CallDefined
<1>13. CASE CallSummarised
  <2>1. Inputs(Summarised(i, Top, Top.cond \cap Args(i))) \subseteq Inputs(Top)
    BY <1>1, <1>13, SummarisedInputs DEF CallSummarised, IsInstr
  <2> QED BY <1>2, <1>4, <1>13, <2>1 DEF CallSummarised
<1>14. CASE CallUnknown
  BY <1>2, <1>4, <1>5, <1>14 DEF CallUnknown
<1>15. CASE LoopSummary
  <2> DEFINE s == [Top EXCEPT !.complete = @ /\ ~i.hides,
                              !.certs = Certified(i, Top)]
             past == [Summarised(i, Top, Top.cond) EXCEPT !.complete = s.complete]
  <2>1. \A status : Inputs([s EXCEPT !.status = status]) = Inputs(Top)
    BY <1>1 DEF PathState, Inputs
  <2>2. Inputs(past) \subseteq Inputs(Top)
    <3>1. Inputs(Summarised(i, Top, Top.cond)) \subseteq Inputs(Top)
      BY <1>1, <1>15, SummarisedInputs DEF LoopSummary, IsInstr
    <3>2. past.cond = Summarised(i, Top, Top.cond).cond
      BY <1>1 DEF Summarised, Step, PathState
    <3> HIDE DEF past
    <3> QED BY <3>1, <3>2 DEF Inputs
  <2>3. \/ \E status : Push(<<[s EXCEPT !.status = status]>>)
        \/ Push(<<past>>)
    BY <1>15 DEF LoopSummary
  <2> HIDE DEF s, past
  <2> QED BY <1>2, <2>1, <2>2, <2>3
<1>16. ASSUME StepIntoLoop(i)
       PROVE  SharesOut
  BY <1>2, <1>5, <1>16 DEF StepIntoLoop
<1>17. CASE Accelerate
  <2> DEFINE x == Step(Top, i.next, "RUNNING", Top.cond \cap i.holds)
             y == Step(Top, i.alt, "RUNNING", Top.cond \ i.holds)
  <2>1. StepIntoLoop(i) \/ Push(<<x>>) \/ Push(<<x, y>>)
    BY <1>17 DEF Accelerate
  <2>2. Inputs(x) = Top.cond \cap i.holds \cap Input /\ Inputs(y) = (Top.cond \ i.holds) \cap Input
    BY <1>6
  <2>3. /\ Inputs(x) \subseteq Inputs(Top)
        /\ Inputs(x) \cup Inputs(y) \subseteq Inputs(Top)
        /\ Inputs(x) \cap Inputs(y) = {}
    <3> HIDE DEF x, y
    <3> QED BY <2>2 DEF Inputs
  <2> HIDE DEF x, y
  <2> QED BY <1>2, <1>3, <1>16, <2>1, <2>3
<1>18. CASE AccelerateNested
  BY <1>2, <1>5, <1>16, <1>18 DEF AccelerateNested
<1>19. CASE Terminate
  BY <1>2, <1>5, <1>19 DEF Terminate
<1> QED
  BY <1>7, <1>8, <1>9, <1>10, <1>11, <1>12, <1>13, <1>14, <1>15, <1>17, <1>18,
     <1>19 DEF Execute

\* So does what run() does with the other statuses.
LEMMA PopSharesOut ==
  ASSUME TypeInv, Pop
  PROVE  phase' = "done" \/ SharesOut
<1>1. Top \in PathState(Node) /\ states # <<>>
  BY TopTyped
     DEF Pop, PopTerminated, PopTesting, PopVerifying, PopReachError,
         PopUnreachableError, PopUnknown, PopFail, IsTop, Placed
<1>2. ASSUME NEW x, Inputs(x) \subseteq Inputs(Top), Continue(<<x>>)
      PROVE  SharesOut
  BY <1>2 DEF Continue, SharesOut
<1>3. Continue(<<>>) => SharesOut
  BY DEF Continue, SharesOut
<1>4. CASE PopTerminated
  BY <1>3, <1>4 DEF PopTerminated
<1>5. CASE PopTesting
  <2>1. Inputs([Top EXCEPT !.status = "RUNNING"]) \subseteq Inputs(Top)
    BY <1>1, StepInputs
  <2>2. Continue(<<>>) \/ Continue(<<[Top EXCEPT !.status = "RUNNING"]>>)
    BY <1>5 DEF PopTesting
  <2> QED BY <1>2, <1>3, <2>1, <2>2
<1>6. CASE PopVerifying
  <2>1. Inputs(Assumed(Top)) \subseteq Inputs(Top)
    BY <1>1 DEF Assumed, Inputs, PathState
  <2>2. Continue(<<Assumed(Top)>>) \/ phase' = "done"
    BY <1>6 DEF PopVerifying, Return
  <2> QED BY <1>2, <2>1, <2>2
<1>7. CASE PopReachError \/ PopUnknown \/ PopFail
  BY <1>7 DEF PopReachError, PopUnknown, PopFail, Return
<1>8. CASE PopUnreachableError
  <2>1. Continue(<<Top>>) \/ phase' = "done"
    BY <1>8 DEF PopUnreachableError, Crash
  <2> QED BY <1>2, <2>1
<1> QED
  BY <1>4, <1>5, <1>6, <1>7, <1>8 DEF Pop

\* Paths that share out the inputs of the top are apart from the rest.
LEMMA ApartAfter ==
  ASSUME NEW S, NEW st \in Seq(S), st # <<>>, Apart(st), NEW new \in Seq(S),
         \A j \in 1..Len(new) : Inputs(new[j]) \subseteq Inputs(st[Len(st)]),
         \A j, k \in 1..Len(new) :
           j # k => Inputs(new[j]) \cap Inputs(new[k]) = {}
  PROVE  Apart(Replace(st, new))
<1> DEFINE n == Len(st) - 1
           r == Replace(st, new)
           rest == SubSeq(st, 1, n)
<1>1. Len(st) \in Nat /\ Len(st) >= 1 /\ n \in Nat /\ Len(new) \in Nat
  BY EmptySeq, LenProperties
<1>2. rest \in Seq(S) /\ Len(rest) = n /\ \A k \in 1..n : rest[k] = st[k]
  <2>1. Replace(st, <<>>) = rest \o <<>> /\ <<>> \in Seq(S)
    BY DEF Replace
  <2>2. rest \in Seq(S)
    BY PushedTyped
  <2>3. rest \o <<>> = rest
    BY <2>2, ConcatEmptySeq
  <2>4. Len(<<>>) = 0
    OBVIOUS
  <2>5. /\ Len(Replace(st, <<>>)) = n + Len(<<>>)
        /\ \A k \in 1..n : Replace(st, <<>>)[k] = st[k]
    BY <2>1, ReplaceTop
  <2>6. Replace(st, <<>>) = rest
    BY <2>1, <2>3
  <2> HIDE DEF rest, n
  <2> QED BY <1>1, <2>2, <2>4, <2>5, <2>6
<1>3. /\ Len(r) = n + Len(new)
      /\ \A i \in 1..(n + Len(new)) :
           r[i] = IF i <= n THEN st[i] ELSE new[i - n]
  <2>1. r = rest \o new
    BY DEF Replace
  <2> HIDE DEF rest, r, n
  <2>2. /\ Len(rest \o new) = Len(rest) + Len(new)
        /\ \A i \in 1..(Len(rest) + Len(new)) :
             (rest \o new)[i] = IF i <= Len(rest) THEN rest[i]
                                ELSE new[i - Len(rest)]
    <3>1. rest \in Seq(S) /\ new \in Seq(S)
      BY <1>2
    <3> QED
      BY ONLY <3>1, ConcatProperties, SMTT(90)
  <2> QED BY <1>1, <1>2, <2>1, <2>2
<1> HIDE DEF r, rest
<1> SUFFICES ASSUME NEW j \in 1..Len(r), NEW k \in 1..Len(r), j < k
             PROVE  Inputs(r[j]) \cap Inputs(r[k]) = {}
  <2>1. Len(r) \in Nat
    BY <1>1, <1>3
  <2>2. \A j, k \in 1..Len(r) : j # k => Inputs(r[j]) \cap Inputs(r[k]) = {}
    <3> SUFFICES ASSUME NEW j \in 1..Len(r), NEW k \in 1..Len(r), j # k
                 PROVE  Inputs(r[j]) \cap Inputs(r[k]) = {}
      OBVIOUS
    <3>1. j < k \/ k < j
      BY <2>1
    <3>2. CASE j < k
      BY <3>2
    <3>3. CASE k < j
      <4>1. Inputs(r[k]) \cap Inputs(r[j]) = {}
        BY <3>3
      <4> QED BY <4>1
    <3> QED BY <3>1, <3>2, <3>3
  <2> QED BY <2>2 DEF Apart, r
<1>4. CASE k <= n
  <2>1. /\ r[j] = st[j] /\ r[k] = st[k]
        /\ j \in 1..Len(st) /\ k \in 1..Len(st) /\ j # k
    BY <1>1, <1>3, <1>4
  <2>2. Inputs(st[j]) \cap Inputs(st[k]) = {}
    BY <2>1 DEF Apart
  <2> QED BY <2>1, <2>2
<1>5. CASE j <= n /\ ~(k <= n)
  <2>1. /\ r[j] = st[j] /\ r[k] = new[k - n] /\ k - n \in 1..Len(new)
        /\ j \in 1..Len(st) /\ Len(st) \in 1..Len(st) /\ j # Len(st)
    BY <1>1, <1>3, <1>5
  <2>2. Inputs(st[j]) \cap Inputs(st[Len(st)]) = {}
    BY <2>1 DEF Apart
  <2> QED BY <2>1, <2>2
<1>6. CASE ~(j <= n)
  <2>1. /\ r[j] = new[j - n] /\ r[k] = new[k - n]
        /\ j - n \in 1..Len(new) /\ k - n \in 1..Len(new) /\ j - n # k - n
    BY <1>1, <1>3, <1>6
  <2> QED BY <2>1
<1> QED
  BY <1>1, <1>3, <1>4, <1>5, <1>6

LEMMA SharesOutApart ==
  ASSUME TypeInv, states # <<>>, SharesOut, Apart(states)
  PROVE  Apart(states')
<1>1. ASSUME NEW T, NEW st \in Seq(T), NEW S, T \subseteq S
      PROVE  st \in Seq(S)
  BY <1>1
<1>2. CASE states' = Rest \o <<>>
  <2>1. states' = Replace(states, <<>>) /\ <<>> \in Seq(Placed) /\ Len(<<>>) = 0
    BY <1>2 DEF Rest, Replace
  <2>2. 1..Len(<<>>) = {}
    BY <2>1
  <2> QED BY <2>1, <2>2, ApartAfter DEF TypeInv
<1>3. ASSUME NEW x, states' = Rest \o <<x>>, Inputs(x) \subseteq Inputs(Top)
      PROVE  Apart(states')
  <2> DEFINE S == Placed \cup {x}
  <2>1. states \in Seq(S)
    BY <1>1 DEF TypeInv
  <2>2. states' = Replace(states, <<x>>) /\ <<x>> \in Seq(S)
    BY <1>3 DEF Rest, Replace
  <2>3. \A j \in 1..Len(<<x>>) : j = 1 /\ <<x>>[j] = x
    OBVIOUS
  <2> HIDE DEF S
  <2> QED BY <1>3, <2>1, <2>2, <2>3, ApartAfter DEF Top
<1>4. ASSUME NEW x, NEW y, states' = Rest \o <<x, y>>,
             Inputs(x) \cup Inputs(y) \subseteq Inputs(Top),
             Inputs(x) \cap Inputs(y) = {}
      PROVE  Apart(states')
  <2> DEFINE S == Placed \cup {x, y}
  <2>1. states \in Seq(S)
    BY <1>1 DEF TypeInv
  <2>2. states' = Replace(states, <<x, y>>) /\ <<x, y>> \in Seq(S)
    BY <1>4 DEF Rest, Replace
  <2>3. \A j \in 1..Len(<<x, y>>) :
          j \in {1, 2} /\ <<x, y>>[j] = IF j = 1 THEN x ELSE y
    OBVIOUS
  <2>4. /\ \A j \in 1..Len(<<x, y>>) :
             Inputs(<<x, y>>[j]) \subseteq Inputs(states[Len(states)])
        /\ \A j, k \in 1..Len(<<x, y>>) :
             j # k => Inputs(<<x, y>>[j]) \cap Inputs(<<x, y>>[k]) = {}
    BY <1>4, <2>3 DEF Top
  <2> HIDE DEF S
  <2> QED BY <2>1, <2>2, <2>4, ApartAfter
<1> QED
  BY <1>2, <1>3, <1>4 DEF SharesOut

\* The worklist never holds one input twice: branches, selects and
\* accelerations split the inputs of a path, summaries let no input through as
\* another one, and Engine::verify clears the stack of an earlier run.
THEOREM InputsAreApart == Spec => []EachInputOnce
<1> DEFINE Inv == phase = "running" => Apart(states)
<1>1. Init => Inv
  BY DEF Init
<1>2. TypeInv /\ Inv /\ [Next]_vars => Inv'
  <2> SUFFICES ASSUME TypeInv, Inv, [Next]_vars, phase' = "running"
               PROVE  Apart(states')
    BY DEF Apart, Inputs
  <2>1. CASE Pop \/ Execute
    <3>1. phase = "running" /\ states # <<>>
      BY <2>1
         DEF Pop, PopTerminated, PopTesting, PopVerifying, PopReachError,
             PopUnreachableError, PopUnknown, PopFail, Execute, Branch,
             CallAssert, CallAssume, CallReachError, CallWithoutModel,
             CallDefined, CallSummarised, CallUnknown, LoopSummary,
             Accelerate, AccelerateNested, Terminate, IsInstr, IsTop
    <3> QED
      BY <2>1, <3>1, PopSharesOut, ExecuteSharesOut, SharesOutApart
  <2>2. CASE Exhausted \/ Throw
    BY <2>2 DEF Exhausted, Throw, Crash
  <2>3. CASE \E e \in Programs[prog].entries : Verify(e)
    <3>1. PICK x : states' = <<x>>
      BY <2>3 DEF Verify
    <3>2. Len(<<x>>) = 1
      OBVIOUS
    <3> QED BY <3>1, <3>2 DEF Apart
  <2>4. CASE UNCHANGED vars
    BY <2>4 DEF vars, Apart, Inputs
  <2> QED BY <2>1, <2>2, <2>3, <2>4 DEF Next, Run, Stop
<1>3. Inv => EachInputOnce
  BY DEF Apart, Inputs, EachInputOnce
<1> QED
  BY <1>1, <1>2, <1>3, AlwaysTyped, PTL DEF Spec

(***************************************************************************)
(* The answers are right.                                                  *)
(***************************************************************************)
\* Some element of the stack is in H.
OnStack(st, H) == \E k \in 1..Len(st) : st[k] \in H

\* When the top of a stack is replaced, an element of H stays unless it was
\* the top and none of the new elements is in H.
LEMMA StillOnStack ==
  ASSUME NEW S, NEW st \in Seq(S), st # <<>>, NEW H, OnStack(st, H),
         NEW new \in Seq(S),
         st[Len(st)] \in H => \E j \in 1..Len(new) : new[j] \in H
  PROVE  OnStack(Replace(st, new), H)
<1> DEFINE r == Replace(st, new)
<1>1. /\ r \in Seq(S)
      /\ Len(r) = (Len(st) - 1) + Len(new)
      /\ \A k \in 1..(Len(st) - 1) : r[k] = st[k]
      /\ \A j \in 1..Len(new) : \E k \in 1..Len(r) : r[k] = new[j]
  BY ReplaceTop
<1>2. Len(st) \in Nat /\ Len(st) >= 1 /\ Len(new) \in Nat
  BY EmptySeq, LenProperties
<1> HIDE DEF r
<1>3. PICK k \in 1..Len(st) : st[k] \in H
  BY DEF OnStack
<1>4. CASE k # Len(st)
  <2>1. k \in 1..(Len(st) - 1) /\ k \in 1..Len(r)
    BY <1>1, <1>2, <1>4
  <2> QED
    BY <1>1, <1>3, <2>1 DEF OnStack, r
<1>5. CASE k = Len(st)
  <2>1. PICK j \in 1..Len(new) : new[j] \in H
    BY <1>3, <1>5
  <2> QED
    BY <1>1, <2>1 DEF OnStack, r
<1> QED
  BY <1>4, <1>5

\* The three ways in which run() replaces the top.
LEMMA StillThere ==
  ASSUME NEW S, NEW st \in Seq(S), st # <<>>, NEW H, OnStack(st, H)
  PROVE  LET top == st[Len(st)]
         IN  /\ top \notin H => OnStack(Replace(st, <<>>), H)
             /\ \A x \in S : (top \in H => x \in H) =>
                             OnStack(Replace(st, <<x>>), H)
             /\ \A x, y \in S : (top \in H => x \in H \/ y \in H) =>
                                OnStack(Replace(st, <<x, y>>), H)
<1>1. st[Len(st)] \notin H => OnStack(Replace(st, <<>>), H)
  BY StillOnStack, EmptySeq
<1>2. ASSUME NEW x \in S, st[Len(st)] \in H => x \in H
      PROVE  OnStack(Replace(st, <<x>>), H)
  <2>1. <<x>> \in Seq(S) /\ 1 \in 1..Len(<<x>>) /\ <<x>>[1] = x
    OBVIOUS
  <2> QED
    BY <1>2, <2>1, StillOnStack
<1>3. ASSUME NEW x \in S, NEW y \in S, st[Len(st)] \in H => x \in H \/ y \in H
      PROVE  OnStack(Replace(st, <<x, y>>), H)
  <2>1. /\ <<x, y>> \in Seq(S)
        /\ 1 \in 1..Len(<<x, y>>) /\ <<x, y>>[1] = x
        /\ 2 \in 1..Len(<<x, y>>) /\ <<x, y>>[2] = y
    OBVIOUS
  <2> QED
    BY <1>3, <2>1, StillOnStack
<1> QED
  BY <1>1, <1>2, <1>3
-----------------------------------------------------------------------------
(***************************************************************************)
(* What the instructions mean.                                             *)
(***************************************************************************)
\* The failing points at a node are those its instruction accounts for.
LEMMA BadAt ==
  ASSUME prog \in DOMAIN Programs, NEW n \in Node
  PROVE  LET i == At(n)
         IN  /\ Bad[n] = WrongAt(i, Bad[i.next], Bad[i.alt])
             /\ Bad[n] \subseteq Point
             /\ i.op \in {"func", "loop"} => SummaryOK(i)
             /\ i.op \in {"accel", "nested"} =>
                  CertifiedJump(i, Bad[i.next], Bad[i.alt])
<1>1. WellFormed(Programs[prog])
  BY ProgramsOK
<1> QED
  BY <1>1 DEF WellFormed, Node, Bad, At

LEMMA PendingAt ==
  ASSUME NEW s \in PathState(Node)
  PROVE  /\ s.status \notin {"TERMINATED", "VERIFYING"} =>
              Pending(s) = s.cond \cap Bad[s.pc]
         /\ s.status = "TERMINATED" => Pending(s) = {}
         /\ s.status = "VERIFYING" =>
              Pending(s) = (s.cond \cap At(s.prev).def)
                             \cap ((Point \ At(s.prev).holds) \cup Bad[s.pc])
  BY DEF Pending

\* A path that moves on to another instruction.
LEMMA StepPending ==
  ASSUME NEW s \in PathState(Node), NEW n \in Node, NEW c \in SUBSET Point,
         NEW status \in {"RUNNING", "TESTING"}
  PROVE  LET x == Step(s, n, status, c)
         IN  /\ x \in Placed
             /\ x.approx = s.approx
             /\ x.cond = c
             /\ Pending(x) = c \cap Bad[n]
<1> DEFINE x == Step(s, n, status, c)
<1>1. x \in Placed
  BY StepTyped
<1>2. x.status = status /\ x.pc = n /\ x.cond = c /\ x.approx = s.approx
  BY DEF Step, PathState
<1>3. x \in PathState(Node)
  BY <1>1 DEF Placed
<1> HIDE DEF x
<1>4. Pending(x) = c \cap Bad[n]
  BY <1>2, <1>3, PendingAt
<1> QED
  BY <1>1, <1>2, <1>4 DEF x

\* A path that stays where it is with a new status.
LEMMA StayPending ==
  ASSUME NEW s \in PathState(Node), s.status = "RUNNING"
  PROVE  /\ Pending(s) = s.cond \cap Bad[s.pc]
         /\ \A status \in {"TERMINATED", "UNKNOWN"} :
              LET x == [s EXCEPT !.status = status]
              IN  x \in Placed /\ x.approx = s.approx /\ x.cond = s.cond
         /\ Pending([s EXCEPT !.status = "TERMINATED"]) = {}
         /\ \A c \in SUBSET Point :
              LET x == [s EXCEPT !.status = "UNKNOWN", !.cond = c]
              IN  /\ x \in Placed
                  /\ x.approx = s.approx
                  /\ x.cond = c
                  /\ Pending(x) = c \cap Bad[s.pc]
<1>1. Pending(s) = s.cond \cap Bad[s.pc]
  BY PendingAt
<1>2. ASSUME NEW status \in {"TERMINATED", "UNKNOWN"}
      PROVE  LET x == [s EXCEPT !.status = status]
             IN  x \in Placed /\ x.approx = s.approx /\ x.cond = s.cond
  BY StayTyped DEF PathState
<1>3. Pending([s EXCEPT !.status = "TERMINATED"]) = {}
  BY DEF Pending, PathState
<1>4. ASSUME NEW c \in SUBSET Point
      PROVE  LET x == [s EXCEPT !.status = "UNKNOWN", !.cond = c]
             IN  /\ x \in Placed
                 /\ x.approx = s.approx
                 /\ x.cond = c
                 /\ Pending(x) = c \cap Bad[s.pc]
  BY StayTyped DEF Pending, PathState
<1> QED
  BY <1>1, <1>2, <1>3, <1>4
-----------------------------------------------------------------------------
(***************************************************************************)
(* How one step of run() replaces the path it popped.                      *)
(***************************************************************************)
\* The successor x claims nothing that s does not: if it is precise then so
\* was s, and it has only points of s, failing only where s does.
Narrows(s, x) ==
  ~x.approx => /\ ~s.approx
               /\ x.cond \subseteq s.cond
               /\ Pending(x) \subseteq Pending(s)

\* The hypotheses under which nothing that may go wrong is dropped, as long
\* as the run has nothing but proved assertions to show.
Faithful == /\ ~ProbeGivesUp
            /\ NothingDropped(Programs[prog])
            /\ results' \subseteq {"HOLD"}

\* The top gives way to nothing, to one path or to two.
Dropped == states' = Rest \o <<>> /\ (Faithful => Pending(Top) = {})
Moved(x) == /\ states' = Rest \o <<x>>
            /\ Narrows(Top, x)
            /\ Faithful => Pending(Top) \subseteq Pending(x)
Split(x, y) == /\ states' = Rest \o <<x, y>>
               /\ Narrows(Top, x) /\ Narrows(Top, y)
               /\ Faithful => Pending(Top) \subseteq Pending(x) \cup Pending(y)
Explored == \/ Dropped
            \/ \E x \in Placed : Moved(x)
            \/ \E x, y \in Placed : Split(x, y)

\* What every instruction starts from.
LEMMA AtTop ==
  ASSUME TypeInv, NEW op, IsInstr(op)
  PROVE  LET i == At(Top.pc)
         IN  /\ states # <<>>
             /\ Top \in PathState(Node)
             /\ Top.status = "RUNNING"
             /\ Top.pc \in Node
             /\ Top.cond \in SUBSET Point
             /\ i.op = op
             /\ i \in Instr(Node)
             /\ i.next \in Node /\ i.alt \in Node
             /\ i.holds \in SUBSET Point /\ i.def \in SUBSET Point
             /\ i.inner \in SUBSET Point /\ i.query \in SUBSET Point
             /\ Bad[i.next] \subseteq Point /\ Bad[i.alt] \subseteq Point
             /\ Pending(Top) = Top.cond \cap WrongAt(i, Bad[i.next], Bad[i.alt])
<1>1. states # <<>> /\ Top.status = "RUNNING" /\ At(Top.pc).op = op
  BY DEF IsInstr, IsTop
<1>2. Top \in PathState(Node)
  BY <1>1, TopTyped
<1>3. Top.pc \in Node /\ Top.cond \in SUBSET Point /\ prog \in DOMAIN Programs
  BY <1>2 DEF PathState, TypeInv
<1> DEFINE i == At(Top.pc)
<1>4. i \in Instr(Node) /\ i.next \in Node /\ i.alt \in Node
  BY <1>3, InstrTyped
<1>5. /\ i.holds \in SUBSET Point /\ i.def \in SUBSET Point
      /\ i.inner \in SUBSET Point /\ i.query \in SUBSET Point
  BY <1>4 DEF Instr
<1>6. Bad[i.next] \subseteq Point /\ Bad[i.alt] \subseteq Point
  BY <1>3, <1>4, BadAt
<1>7. Pending(Top) = Top.cond \cap Bad[Top.pc]
  BY <1>1, <1>2, PendingAt
<1>8. Bad[Top.pc] = WrongAt(i, Bad[i.next], Bad[i.alt])
  BY <1>3, BadAt
<1> QED
  BY <1>1, <1>2, <1>3, <1>4, <1>5, <1>6, <1>7, <1>8

\* A conditional branch splits the defined points of the path.
LEMMA BranchExplored == TypeInv /\ Branch => Explored
<1> SUFFICES ASSUME TypeInv, Branch
             PROVE  Explored
  OBVIOUS
<1> DEFINE i == At(Top.pc)
           c == Top.cond \cap i.def
           x == Step(Top, i.next, "TESTING", c \cap i.holds)
           y == Step(Top, i.alt, "TESTING", c \ i.holds)
<1>1. IsInstr("branch") /\ states' = Rest \o <<x, y>>
  BY DEF Branch, Push, Continue
<1>2. /\ Top \in PathState(Node) /\ Top.cond \in SUBSET Point
      /\ i.next \in Node /\ i.alt \in Node
      /\ i.holds \in SUBSET Point /\ i.def \in SUBSET Point
      /\ i.op = "branch"
      /\ Pending(Top) = Top.cond \cap WrongAt(i, Bad[i.next], Bad[i.alt])
  BY <1>1, AtTop
<1>3. /\ x \in Placed /\ x.approx = Top.approx /\ x.cond = c \cap i.holds
      /\ Pending(x) = (c \cap i.holds) \cap Bad[i.next]
      /\ y \in Placed /\ y.approx = Top.approx /\ y.cond = c \ i.holds
      /\ Pending(y) = (c \ i.holds) \cap Bad[i.alt]
  BY <1>2, StepPending
<1>4. Pending(Top) = Top.cond \cap (i.def \cap ((i.holds \cap Bad[i.next])
                                             \cup (Bad[i.alt] \ i.holds)))
  BY <1>2 DEF WrongAt
<1> HIDE DEF x, y, i
<1>5. Split(x, y)
  BY <1>1, <1>3, <1>4 DEF Split, Narrows
<1> QED
  BY <1>3, <1>5 DEF Explored

\* A call whose arguments are undefined on the whole path is dropped, and
\* then nothing on it can go wrong, unless the probe gave up.
LEMMA CallDroppedExplored ==
  ASSUME TypeInv, NEW op \in {"assert", "assume", "call", "func", "unknown"},
         IsInstr(op), CallDropped(At(Top.pc))
  PROVE  Dropped
<1> DEFINE i == At(Top.pc)
<1>1. states' = Rest \o <<>>
  BY DEF CallDropped, Push, Continue
<1>2. /\ i.op = op
      /\ Pending(Top) = Top.cond \cap WrongAt(i, Bad[i.next], Bad[i.alt])
  BY AtTop
<1>3. i.noundef
  BY DEF CallDropped
<1> HIDE DEF i
<1>4. WrongAt(i, Bad[i.next], Bad[i.alt]) \subseteq i.def
  BY <1>2, <1>3 DEF WrongAt, Args
<1>5. Faithful => Top.cond \cap i.def = {}
  BY DEF CallDropped, Faithful, Answers, i
<1> QED
  BY <1>1, <1>2, <1>4, <1>5 DEF Dropped

LEMMA CallAssertExplored == TypeInv /\ CallAssert => Explored
<1> SUFFICES ASSUME TypeInv, CallAssert
             PROVE  Explored
  OBVIOUS
<1> DEFINE i == At(Top.pc)
           x == Step(Top, i.next, "VERIFYING", Top.cond \cap Args(i))
<1>1. IsInstr("assert")
  BY DEF CallAssert
<1>2. CASE CallDropped(i)
  BY <1>1, <1>2, CallDroppedExplored DEF Explored
<1>3. CASE CallProceeds(i) /\ Push(<<x>>)
  <2>1. /\ Top \in PathState(Node) /\ Top.cond \in SUBSET Point
        /\ i.next \in Node /\ Top.pc \in Node
        /\ i.holds \in SUBSET Point /\ i.def \in SUBSET Point
        /\ i.op = "assert"
        /\ Bad[i.next] \subseteq Point
        /\ Pending(Top) = Top.cond \cap WrongAt(i, Bad[i.next], Bad[i.alt])
    BY <1>1, AtTop
  <2>2. Args(i) \subseteq Point /\ i.def \cap Args(i) = i.def
    BY <2>1 DEF Args
  <2>3. x \in PathState(Node)
    BY <2>1, <2>2 DEF Step, PathState, Status
  <2>4. /\ x.approx = Top.approx /\ x.cond = Top.cond \cap Args(i)
        /\ x.status = "VERIFYING" /\ x.prev = Top.pc /\ x.pc = i.next
    BY <2>1 DEF Step, PathState
  <2>5. x \in Placed
    BY <2>1, <2>3, <2>4 DEF Placed, StatusOK
  <2> HIDE DEF x
  <2>6. Pending(x) = ((Top.cond \cap Args(i)) \cap i.def)
                       \cap ((Point \ i.holds) \cup Bad[i.next])
    BY <2>3, <2>4, PendingAt
  <2>7. Pending(Top) = Top.cond \cap (i.def \cap ((Point \ i.holds) \cup Bad[i.next]))
    BY <2>1 DEF WrongAt
  <2>8. states' = Rest \o <<x>>
    BY <1>3 DEF Push, Continue
  <2>9. Moved(x)
    BY <2>2, <2>4, <2>6, <2>7, <2>8 DEF Moved, Narrows
  <2> QED
    BY <2>5, <2>9 DEF Explored
<1> QED
  BY <1>2, <1>3 DEF CallAssert

LEMMA CallAssumeExplored == TypeInv /\ CallAssume => Explored
<1> SUFFICES ASSUME TypeInv, CallAssume
             PROVE  Explored
  OBVIOUS
<1> DEFINE i == At(Top.pc)
           x == Step(Top, i.next, "TESTING", Top.cond \cap i.def \cap i.holds)
<1>1. IsInstr("assume")
  BY DEF CallAssume
<1>2. CASE CallDropped(i)
  BY <1>1, <1>2, CallDroppedExplored DEF Explored
<1>3. CASE CallProceeds(i) /\ Push(<<x>>)
  <2>1. /\ Top \in PathState(Node) /\ Top.cond \in SUBSET Point
        /\ i.next \in Node
        /\ i.op = "assume"
        /\ Pending(Top) = Top.cond \cap WrongAt(i, Bad[i.next], Bad[i.alt])
    BY <1>1, AtTop
  <2>2. /\ x \in Placed /\ x.approx = Top.approx
        /\ x.cond = Top.cond \cap i.def \cap i.holds
        /\ Pending(x) = (Top.cond \cap i.def \cap i.holds) \cap Bad[i.next]
    BY <2>1, StepPending
  <2>3. Pending(Top) = Top.cond \cap (i.def \cap i.holds \cap Bad[i.next])
    BY <2>1 DEF WrongAt
  <2> HIDE DEF x
  <2>4. Moved(x)
    BY <1>3, <2>2, <2>3 DEF Moved, Narrows, Push, Continue
  <2> QED
    BY <2>2, <2>4 DEF Explored
<1> QED
  BY <1>2, <1>3 DEF CallAssume

LEMMA CallReachErrorExplored == TypeInv /\ CallReachError => Explored
<1> SUFFICES ASSUME TypeInv, CallReachError
             PROVE  Explored
  OBVIOUS
<1> DEFINE x == [Top EXCEPT !.status = "REACH_ERROR"]
<1>1. IsInstr("error") /\ states' = Rest \o <<x>>
  BY DEF CallReachError, Push, Continue
<1>2. /\ Top \in PathState(Node) /\ Top.status = "RUNNING" /\ Top.pc \in Node
      /\ At(Top.pc).op = "error"
  BY <1>1, AtTop
<1>3. x \in PathState(Node) /\ x.status = "REACH_ERROR" /\ x.pc = Top.pc
      /\ x.cond = Top.cond /\ x.approx = Top.approx
  BY <1>2 DEF PathState, Status
<1> HIDE DEF x
<1>4. x \in Placed
  BY <1>2, <1>3 DEF Placed, StatusOK
<1>5. Pending(x) = Pending(Top)
  BY <1>2, <1>3, PendingAt
<1>6. Moved(x)
  BY <1>1, <1>3, <1>5 DEF Moved, Narrows
<1> QED
  BY <1>4, <1>6 DEF Explored

LEMMA CallDefinedExplored == TypeInv /\ CallDefined => Explored
<1> SUFFICES ASSUME TypeInv, CallDefined
             PROVE  Explored
  OBVIOUS
<1> DEFINE i == At(Top.pc)
           x == Step(Top, i.next, "RUNNING", Top.cond \cap Args(i))
<1>1. IsInstr("call")
  BY DEF CallDefined
<1>2. CASE CallDropped(i)
  BY <1>1, <1>2, CallDroppedExplored DEF Explored
<1>3. CASE Push(<<x>>)
  <2>1. /\ Top \in PathState(Node) /\ Top.cond \in SUBSET Point
        /\ i.next \in Node
        /\ i.op = "call"
        /\ Pending(Top) = Top.cond \cap WrongAt(i, Bad[i.next], Bad[i.alt])
    BY <1>1, AtTop
  <2>2. /\ x \in Placed /\ x.approx = Top.approx
        /\ x.cond = Top.cond \cap Args(i)
        /\ Pending(x) = (Top.cond \cap Args(i)) \cap Bad[i.next]
    BY <2>1, StepPending
  <2>3. Pending(Top) = Top.cond \cap (Args(i) \cap Bad[i.next])
    BY <2>1 DEF WrongAt
  <2> HIDE DEF x
  <2>4. Moved(x)
    BY <1>3, <2>2, <2>3 DEF Moved, Narrows, Push, Continue
  <2> QED
    BY <2>2, <2>4 DEF Explored
<1> QED
  BY <1>2, <1>3 DEF CallDefined

LEMMA CallUnknownExplored == TypeInv /\ CallUnknown => Explored
<1> SUFFICES ASSUME TypeInv, CallUnknown
             PROVE  Explored
  OBVIOUS
<1> DEFINE i == At(Top.pc)
           c == Top.cond \cap Args(i)
           x == [Top EXCEPT !.status = "UNKNOWN", !.cond = c]
<1>1. IsInstr("unknown")
  BY DEF CallUnknown
<1>2. CASE CallDropped(i)
  BY <1>1, <1>2, CallDroppedExplored DEF Explored
<1>3. CASE Push(<<[Top EXCEPT !.status = "UNKNOWN", !.cond = @ \cap Args(i)]>>)
  <2>1. /\ Top \in PathState(Node) /\ Top.cond \in SUBSET Point
        /\ Top.status = "RUNNING"
        /\ i.op = "unknown"
        /\ Pending(Top) = Top.cond \cap WrongAt(i, Bad[i.next], Bad[i.alt])
    BY <1>1, AtTop
  <2>2. c \in SUBSET Point
    BY <2>1
  <2>3. /\ x \in Placed /\ x.approx = Top.approx /\ x.cond = c
        /\ Pending(x) = c \cap Bad[Top.pc]
        /\ Pending(Top) = Top.cond \cap Bad[Top.pc]
    BY ZenonT(90), <2>1, <2>2, StayPending
  <2>4. Pending(Top) = Top.cond \cap (Args(i) \cap Bad[i.next])
    BY <2>1 DEF WrongAt
  <2>5. states' = Rest \o <<x>>
    BY <1>3, <2>1 DEF Push, Continue, PathState
  <2> HIDE DEF x
  <2>6. Moved(x)
    BY <2>3, <2>4, <2>5 DEF Moved, Narrows
  <2> QED
    BY <2>3, <2>6 DEF Explored
<1> QED
  BY <1>2, <1>3 DEF CallUnknown

\* What a summary lets through: at least the points that really get past it,
\* and no others when it is exact.
LEMMA SummarisedPending ==
  ASSUME NEW i \in Instr(Node), SummaryOK(i), NEW s \in PathState(Node),
         NEW S \in SUBSET Point
  PROVE  LET x == Summarised(i, s, S)
         IN  /\ x \in Placed
             /\ x.approx = (s.approx \/ ~i.exact)
             /\ x.cond = Image(i, S)
             /\ Pending(x) = Image(i, S) \cap Bad[i.next]
             /\ S \cap i.holds \subseteq Image(i, S)
             /\ i.exact => Image(i, S) = S \cap i.holds
<1>1. /\ i.next \in Node /\ i.exact \in BOOLEAN /\ i.holds \in SUBSET Point
      /\ i.out \in [Point -> SUBSET Point]
  BY DEF Instr
<1>2. Image(i, S) \in SUBSET Point
  BY <1>1 DEF Image
<1>3. S \cap i.holds \subseteq Image(i, S)
  BY DEF Image, SummaryOK
<1>4. i.exact => Image(i, S) = S \cap i.holds
  BY DEF Image, SummaryOK
<1> DEFINE x == Summarised(i, s, S)
<1>5. x \in Placed
  BY SummarisedTyped
<1>6. /\ x.approx = (s.approx \/ ~i.exact)
      /\ x.cond = Image(i, S)
      /\ x.status = "RUNNING" /\ x.pc = i.next
  BY DEF Summarised, Step, PathState
<1> HIDE DEF x
<1>7. Pending(x) = Image(i, S) \cap Bad[i.next]
  BY <1>5, <1>6, PendingAt DEF Placed
<1> QED
  BY <1>3, <1>4, <1>5, <1>6, <1>7 DEF x

LEMMA CallSummarisedExplored == TypeInv /\ CallSummarised => Explored
<1> SUFFICES ASSUME TypeInv, CallSummarised
             PROVE  Explored
  OBVIOUS
<1> DEFINE i == At(Top.pc)
           S == Top.cond \cap Args(i)
           x == Summarised(i, Top, S)
<1>1. IsInstr("func")
  BY DEF CallSummarised
<1>2. CASE CallDropped(i)
  BY <1>1, <1>2, CallDroppedExplored DEF Explored
<1>3. CASE Push(<<x>>)
  <2>1. /\ Top \in PathState(Node) /\ Top.cond \in SUBSET Point
        /\ Top.pc \in Node /\ i \in Instr(Node)
        /\ i.op = "func"
        /\ Pending(Top) = Top.cond \cap WrongAt(i, Bad[i.next], Bad[i.alt])
    BY <1>1, AtTop
  <2>2. SummaryOK(i)
    BY <2>1, BadAt DEF TypeInv
  <2>3. /\ x \in Placed
        /\ x.approx = (Top.approx \/ ~i.exact)
        /\ x.cond = Image(i, S)
        /\ Pending(x) = Image(i, S) \cap Bad[i.next]
        /\ S \cap i.holds \subseteq Image(i, S)
        /\ i.exact => Image(i, S) = S \cap i.holds
    BY <2>1, <2>2, SummarisedPending
  <2>4. Pending(Top) = Top.cond \cap (Args(i) \cap (i.inner \cup (i.holds \cap Bad[i.next])))
    BY <2>1 DEF WrongAt
  <2>5. Faithful => i.inner = {}
    BY <2>1 DEF Faithful, NothingDropped, Node, At
  <2>6. states' = Rest \o <<x>>
    BY <1>3 DEF Push, Continue
  <2> HIDE DEF x, i
  <2>7. Moved(x)
    BY <2>3, <2>4, <2>5, <2>6 DEF Moved, Narrows
  <2> QED
    BY <2>3, <2>7 DEF Explored
<1> QED
  BY <1>2, <1>3 DEF CallSummarised

\* The four answers of a loop summary.
LEMMA LoopSummaryExplored == TypeInv /\ LoopSummary => Explored
<1> SUFFICES ASSUME TypeInv, LoopSummary
             PROVE  Explored
  OBVIOUS
<1> DEFINE i == At(Top.pc)
           s == [Top EXCEPT !.complete = @ /\ ~i.hides,
                            !.certs = Certified(i, Top)]
           w == Summarised(i, Top, Top.cond)
           past == [w EXCEPT !.complete = s.complete]
           stays(status) == [s EXCEPT !.status = status]
<1>1. IsInstr("loop")
  BY DEF LoopSummary
<1>2. /\ Top \in PathState(Node) /\ Top.cond \in SUBSET Point
      /\ Top.status = "RUNNING"
      /\ Top.pc \in Node /\ i \in Instr(Node)
      /\ i.op = "loop"
      /\ Pending(Top) = Top.cond \cap WrongAt(i, Bad[i.next], Bad[i.alt])
  BY <1>1, AtTop
<1>3. SummaryOK(i)
  BY <1>2, BadAt DEF TypeInv
<1>4. Pending(Top) = Top.cond \cap (i.inner \cup (i.holds \cap Bad[i.next]))
  BY <1>2 DEF WrongAt
<1>5. /\ s \in PathState(Node) /\ s.status = "RUNNING" /\ s.pc = Top.pc
      /\ s.cond = Top.cond /\ s.approx = Top.approx /\ s.complete \in BOOLEAN
      /\ s.complete => ~i.hides
  <2>1. Certified(i, Top) \in SUBSET Certificate(Node)
    BY <1>2, CertifiedTyped
  <2> QED
    BY <1>2, <2>1 DEF PathState, Instr
<1>6. Pending(s) = Pending(Top)
  BY <1>2, <1>5, PendingAt
<1>7. /\ w \in Placed
      /\ w.approx = (Top.approx \/ ~i.exact)
      /\ w.cond = Image(i, Top.cond)
      /\ Pending(w) = Image(i, Top.cond) \cap Bad[i.next]
      /\ Top.cond \cap i.holds \subseteq Image(i, Top.cond)
      /\ i.exact => Image(i, Top.cond) = Top.cond \cap i.holds
  BY <1>2, <1>3, SummarisedPending
<1>8. Faithful => i.oneExit
  BY <1>2 DEF Faithful, NothingDropped, Node, At
<1>9. i.inner \subseteq i.query
  BY <1>2, <1>3 DEF SummaryOK
<1> HIDE DEF s, w
<1>10. /\ past \in Placed /\ past.approx = w.approx /\ past.cond = w.cond
       /\ Pending(past) = Pending(w)
  BY <1>5, <1>7, CompleteTyped DEF Pending, Placed, PathState
<1>11. /\ stays("UNKNOWN") \in Placed /\ stays("UNKNOWN").approx = Top.approx
       /\ stays("UNKNOWN").cond = Top.cond
       /\ Pending(stays("UNKNOWN")) = Pending(Top)
  <2>1. /\ stays("UNKNOWN") \in Placed /\ stays("UNKNOWN").approx = s.approx
        /\ stays("UNKNOWN").cond = s.cond
    BY <1>5, StayPending
  <2>2. Pending(stays("UNKNOWN")) = s.cond \cap Bad[s.pc]
    BY <1>5 DEF Pending, PathState
  <2>3. Pending(s) = s.cond \cap Bad[s.pc]
    BY <1>5, StayPending
  <2> QED
    BY <1>5, <1>6, <2>1, <2>2, <2>3
<1>12. /\ stays("TERMINATED") \in Placed
       /\ stays("TERMINATED").approx = Top.approx
       /\ stays("TERMINATED").cond = Top.cond
       /\ Pending(stays("TERMINATED")) = {}
  BY <1>5, StayPending
<1>13. ASSUME i.exact, ~Imprecise(s), i.query # {}
       PROVE  /\ stays("FAIL") \in Placed /\ stays("FAIL").approx = Top.approx
              /\ stays("FAIL").cond = Top.cond
              /\ Pending(stays("FAIL")) = Pending(Top)
  <2>1. ~i.hides
    BY <1>5, <1>13 DEF Imprecise
  <2>2. /\ stays("FAIL") \in PathState(Node)
        /\ stays("FAIL").status = "FAIL" /\ stays("FAIL").pc = Top.pc
        /\ stays("FAIL").approx = Top.approx /\ stays("FAIL").cond = Top.cond
    BY <1>5 DEF PathState, Status
  <2> HIDE DEF stays
  <2>3. stays("FAIL") \in Placed
    BY <1>2, <1>13, <2>1, <2>2 DEF Placed, StatusOK
  <2>4. Pending(stays("FAIL")) = Pending(Top)
    BY <1>2, <2>2, PendingAt
  <2> QED
    BY <2>2, <2>3, <2>4
<1> HIDE DEF past, stays, i
<1>14. ASSUME NEW x \in Placed, x.approx = Top.approx, x.cond = Top.cond,
              Pending(x) = Pending(Top), states' = Rest \o <<x>>
       PROVE  Explored
  BY <1>14 DEF Explored, Moved, Narrows
<1>15. PICK answer \in Answers(i.query, SolverGivesUp) :
         \/ /\ answer = "sat"
            /\ states' = Rest \o <<stays(IF i.exact /\ ~Imprecise(s)
                                         THEN "FAIL" ELSE "UNKNOWN")>>
         \/ /\ answer = "unknown"
            /\ states' = Rest \o <<stays("UNKNOWN")>>
         \/ /\ answer = "unsat" /\ ~i.oneExit
            /\ states' = Rest \o <<stays("TERMINATED")>>
         \/ /\ answer = "unsat" /\ i.oneExit
            /\ states' = Rest \o <<past>>
  BY DEF LoopSummary, Push, Continue, i, s, w, past, stays
<1>16. /\ answer = "sat" => i.query # {}
       /\ answer = "unsat" => i.query = {}
  BY DEF Answers
<1>17. CASE answer = "sat"
  BY <1>11, <1>13, <1>14, <1>15, <1>16, <1>17
<1>18. CASE answer = "unknown"
  BY <1>11, <1>14, <1>15, <1>18
<1>19. CASE answer = "unsat" /\ ~i.oneExit
  <2>1. states' = Rest \o <<stays("TERMINATED")>>
    BY <1>15, <1>19
  <2>2. Moved(stays("TERMINATED"))
    BY <1>8, <1>12, <1>19, <2>1 DEF Moved, Narrows
  <2> QED
    BY <1>12, <2>2 DEF Explored
<1>20. CASE answer = "unsat" /\ i.oneExit
  <2>1. states' = Rest \o <<past>>
    BY <1>15, <1>20
  <2>2. i.inner = {}
    BY <1>9, <1>16, <1>20
  <2>3. Moved(past)
    BY <1>4, <1>7, <1>10, <2>1, <2>2 DEF Moved, Narrows
  <2> QED
    BY <1>10, <2>3 DEF Explored
<1> QED
  BY <1>15, <1>17, <1>18, <1>19, <1>20

\* A header that is executed in the ordinary way.
LEMMA StepIntoLoopExplored ==
  ASSUME TypeInv, NEW op \in {"accel", "nested"}, IsInstr(op),
         StepIntoLoop(At(Top.pc))
  PROVE  Explored
<1> DEFINE i == At(Top.pc)
           x == Step(Top, i.alt, "RUNNING", Top.cond)
<1>1. states' = Rest \o <<x>>
  BY DEF StepIntoLoop, Push, Continue
<1>2. /\ Top \in PathState(Node) /\ Top.cond \in SUBSET Point
      /\ i.alt \in Node /\ i.op = op
      /\ Pending(Top) = Top.cond \cap WrongAt(i, Bad[i.next], Bad[i.alt])
  BY AtTop
<1>3. /\ x \in Placed /\ x.approx = Top.approx /\ x.cond = Top.cond
      /\ Pending(x) = Top.cond \cap Bad[i.alt]
  BY <1>2, StepPending
<1>4. Pending(Top) = Top.cond \cap Bad[i.alt]
  BY <1>2 DEF WrongAt
<1> HIDE DEF x
<1>5. Moved(x)
  BY <1>1, <1>3, <1>4 DEF Moved, Narrows
<1> QED
  BY <1>3, <1>5 DEF Explored

\* A jump and its residual split the path, and the jump agrees with the body
\* on the region it covers.
LEMMA AccelerateExplored == TypeInv /\ Accelerate => Explored
<1> SUFFICES ASSUME TypeInv, Accelerate
             PROVE  Explored
  OBVIOUS
<1> DEFINE i == At(Top.pc)
           jump == Step(Top, i.next, "RUNNING", Top.cond \cap i.holds)
           residual == Step(Top, i.alt, "RUNNING", Top.cond \ i.holds)
<1>1. IsInstr("accel")
  BY DEF Accelerate
<1>2. CASE StepIntoLoop(i)
  BY <1>1, <1>2, StepIntoLoopExplored
<1>3. CASE \E answer \in Answers(residual.cond, SolverGivesUp) :
             Push(IF answer = "unsat" THEN <<jump>> ELSE <<jump, residual>>)
  <2>1. /\ Top \in PathState(Node) /\ Top.cond \in SUBSET Point
        /\ Top.pc \in Node
        /\ i.next \in Node /\ i.alt \in Node /\ i.op = "accel"
        /\ Pending(Top) = Top.cond \cap WrongAt(i, Bad[i.next], Bad[i.alt])
    BY <1>1, AtTop
  <2>2. Pending(Top) = Top.cond \cap Bad[i.alt]
    BY <2>1 DEF WrongAt
  <2>3. i.holds \cap Bad[i.next] = i.holds \cap Bad[i.alt]
    BY <2>1, BadAt DEF CertifiedJump, TypeInv
  <2>4. /\ jump \in Placed /\ jump.approx = Top.approx
        /\ jump.cond = Top.cond \cap i.holds
        /\ Pending(jump) = (Top.cond \cap i.holds) \cap Bad[i.next]
        /\ residual \in Placed /\ residual.approx = Top.approx
        /\ residual.cond = Top.cond \ i.holds
        /\ Pending(residual) = (Top.cond \ i.holds) \cap Bad[i.alt]
    BY <2>1, StepPending
  <2> HIDE DEF jump, residual
  <2>5. PICK answer \in Answers(residual.cond, SolverGivesUp) :
          states' = Rest \o (IF answer = "unsat" THEN <<jump>> ELSE <<jump, residual>>)
    BY <1>3 DEF Push, Continue
  <2>6. CASE answer = "unsat"
    <3>1. residual.cond = {}
      BY <2>5, <2>6 DEF Answers
    <3>2. Moved(jump)
      BY <2>2, <2>3, <2>4, <2>5, <2>6, <3>1 DEF Moved, Narrows
    <3> QED
      BY <2>4, <3>2 DEF Explored
  <2>7. CASE answer # "unsat"
    <3>1. Split(jump, residual)
      BY <2>2, <2>3, <2>4, <2>5, <2>7 DEF Split, Narrows
    <3> QED
      BY <2>4, <3>1 DEF Explored
  <2> QED
    BY <2>6, <2>7
<1> QED
  BY <1>2, <1>3 DEF Accelerate

LEMMA AccelerateNestedExplored == TypeInv /\ AccelerateNested => Explored
<1> SUFFICES ASSUME TypeInv, AccelerateNested
             PROVE  Explored
  OBVIOUS
<1> DEFINE i == At(Top.pc)
           x == Step(Top, i.next, "RUNNING", Top.cond)
<1>1. IsInstr("nested")
  BY DEF AccelerateNested
<1>2. CASE StepIntoLoop(i)
  BY <1>1, <1>2, StepIntoLoopExplored
<1>3. CASE Top.cond \subseteq i.holds /\ Push(<<x>>)
  <2>1. /\ Top \in PathState(Node) /\ Top.cond \in SUBSET Point
        /\ Top.pc \in Node
        /\ i.next \in Node /\ i.op = "nested"
        /\ Pending(Top) = Top.cond \cap WrongAt(i, Bad[i.next], Bad[i.alt])
    BY <1>1, AtTop
  <2>2. Pending(Top) = Top.cond \cap Bad[i.alt]
    BY <2>1 DEF WrongAt
  <2>3. i.holds \cap Bad[i.next] = i.holds \cap Bad[i.alt]
    BY <2>1, BadAt DEF CertifiedJump, TypeInv
  <2>4. /\ x \in Placed /\ x.approx = Top.approx /\ x.cond = Top.cond
        /\ Pending(x) = Top.cond \cap Bad[i.next]
    BY <2>1, StepPending
  <2> HIDE DEF x
  <2>5. Moved(x)
    BY <1>3, <2>2, <2>3, <2>4 DEF Moved, Narrows, Push, Continue
  <2> QED
    BY <2>4, <2>5 DEF Explored
<1> QED
  BY <1>2, <1>3 DEF AccelerateNested

LEMMA TerminateExplored == TypeInv /\ Terminate => Explored
<1> SUFFICES ASSUME TypeInv, Terminate
             PROVE  Explored
  OBVIOUS
<1> DEFINE i == At(Top.pc)
           x == [Top EXCEPT !.status = "TERMINATED"]
<1>1. IsInstr("return") /\ states' = Rest \o <<x>>
  BY DEF Terminate, Push, Continue
<1>2. /\ Top \in PathState(Node) /\ Top.status = "RUNNING"
      /\ i.op = "return"
      /\ Pending(Top) = Top.cond \cap WrongAt(i, Bad[i.next], Bad[i.alt])
  BY <1>1, AtTop
<1>3. /\ x \in Placed /\ x.approx = Top.approx /\ x.cond = Top.cond
      /\ Pending(x) = {}
  BY <1>2, StayPending
<1>4. Pending(Top) = {}
  BY <1>2 DEF WrongAt
<1> HIDE DEF x
<1>5. Moved(x)
  BY <1>1, <1>3, <1>4 DEF Moved, Narrows
<1> QED
  BY <1>3, <1>5 DEF Explored

\* Every instruction explores the path, or has the run crash.
LEMMA ExecuteExplored ==
  ASSUME TypeInv, Execute
  PROVE  /\ states # <<>> /\ phase = "running"
         /\ UNCHANGED <<rigid, findings, verdict>>
         /\ \/ phase' = "done" /\ crash' \in CrashKind \ {"none"}
            \/ phase' = "running" /\ crash' = crash /\ Explored
<1>1. states # <<>> /\ phase = "running"
  BY DEF Execute, Branch, CallAssert, CallAssume, CallReachError,
         CallWithoutModel, CallDefined, CallSummarised, CallUnknown,
         LoopSummary, Accelerate, AccelerateNested, Terminate, IsInstr, IsTop
<1>2. CASE CallWithoutModel
  BY <1>1, <1>2 DEF CallWithoutModel, Crash, findings, CrashKind
<1>3. CASE ~CallWithoutModel
  <2>1. UNCHANGED <<rigid, findings, verdict, phase, crash>>
    BY <1>3 DEF Execute, Branch, CallAssert, CallAssume, CallReachError,
           CallDefined, CallSummarised, CallUnknown, LoopSummary, Accelerate,
           AccelerateNested, Terminate, CallDropped, StepIntoLoop, Push, Continue
  <2>2. Explored
    BY <1>3, BranchExplored, CallAssertExplored, CallAssumeExplored,
       CallReachErrorExplored, CallDefinedExplored, CallSummarisedExplored,
       CallUnknownExplored, LoopSummaryExplored, AccelerateExplored,
       AccelerateNestedExplored, TerminateExplored DEF Execute
  <2> QED
    BY <1>1, <2>1, <2>2
<1> QED
  BY <1>2, <1>3
-----------------------------------------------------------------------------
(***************************************************************************)
(* What run() does with the other statuses.                                *)
(***************************************************************************)
\* A model is kept for a precise path, of a point at which it goes wrong.
Refuted ==
  \E p \in Top.cond :
    /\ cex' = {p}
    /\ ~Top.approx
    /\ p \in Pending(Top)
    /\ violation' \in Node
    /\ \/ At(violation').op = "error"
       \/ /\ At(violation').op = "assert"
          /\ p \in At(violation').def \ At(violation').holds

\* The ways in which run() goes on, gives up, or answers.
GoesOn == /\ phase' = "running" /\ verdict' = verdict /\ cex' = cex
          /\ crash' = crash
          /\ results \subseteq results'
          /\ results' \subseteq results \cup {"HOLD", "VERIUNKNOWN"}
          /\ Explored
Crashes == /\ phase' = "done" /\ verdict' = verdict /\ cex' = cex
           /\ crash' \in CrashKind \ {"none"}
GivesUp == /\ phase' = "done" /\ cex' = cex /\ crash' = crash
           /\ results' = results \cup {"VERIUNKNOWN"}
           /\ verdict' = VerdictOf(results')
Refutes == /\ phase' = "done" /\ crash' = crash
           /\ results' = results \cup {"FAIL"}
           /\ verdict' = VerdictOf(results')
           /\ Refuted \/ (Top.status = "FAIL" /\ cex' = cex)
Outcome == GoesOn \/ Crashes \/ GivesUp \/ Refutes

\* What every pop starts from.
LEMMA Popped ==
  ASSUME TypeInv, NEW status, IsTop(status)
  PROVE  /\ states # <<>> /\ phase = "running"
         /\ Top \in Placed /\ Top \in PathState(Node)
         /\ Top.status = status
         /\ Top.cond \in SUBSET Point /\ Top.pc \in Node
         /\ StatusOK(Top)
<1>1. states # <<>> /\ phase = "running" /\ Top.status = status
  BY DEF IsTop
<1>2. Top \in Placed
  BY <1>1, TopTyped
<1> QED
  BY <1>1, <1>2 DEF Placed, PathState

LEMMA PopTerminatedOutcome == TypeInv /\ PopTerminated => Outcome
<1> SUFFICES ASSUME TypeInv, PopTerminated
             PROVE  Outcome
  OBVIOUS
<1>1. Top \in PathState(Node) /\ Top.status = "TERMINATED" /\ phase = "running"
  BY Popped DEF PopTerminated
<1>2. Pending(Top) = {}
  BY <1>1, PendingAt
<1>3. Explored
  BY <1>2 DEF PopTerminated, Continue, Explored, Dropped
<1> QED
  BY <1>1, <1>3 DEF PopTerminated, Continue, Outcome, GoesOn

\* A path that is found feasible keeps its points, one that is found
\* infeasible has none.
LEMMA PopTestingOutcome == TypeInv /\ PopTesting => Outcome
<1> SUFFICES ASSUME TypeInv, PopTesting
             PROVE  Outcome
  OBVIOUS
<1>1. /\ Top \in PathState(Node) /\ Top.status = "TESTING" /\ phase = "running"
      /\ Top.cond \in SUBSET Point /\ Top.pc \in Node
  BY Popped DEF PopTesting
<1>2. Pending(Top) = Top.cond \cap Bad[Top.pc]
  BY <1>1, PendingAt
<1> DEFINE x == [Top EXCEPT !.status = "RUNNING"]
<1>3. x \in Placed
  BY <1>1, StayTyped
<1>4. x.approx = Top.approx /\ x.cond = Top.cond /\ x.status = "RUNNING" /\ x.pc = Top.pc
  BY <1>1 DEF PathState
<1> HIDE DEF x
<1>5. Pending(x) = Pending(Top)
  BY <1>2, <1>3, <1>4, PendingAt DEF Placed
<1>6. /\ phase' = "running" /\ verdict' = verdict /\ cex' = cex /\ crash' = crash
      /\ results \subseteq results'
      /\ results' \subseteq results \cup {"HOLD", "VERIUNKNOWN"}
  BY <1>1 DEF PopTesting, Continue
<1>7. PICK answer \in Answers(Top.cond, SolverGivesUp) :
        \/ answer = "sat" /\ states' = Rest \o <<x>>
        \/ answer = "unsat" /\ states' = Rest \o <<>>
        \/ /\ answer = "unknown" /\ states' = Rest \o <<>>
           /\ results' = results \cup {"VERIUNKNOWN"}
  BY DEF PopTesting, Continue, x
<1>8. CASE answer = "sat"
  <2>1. Moved(x)
    BY <1>4, <1>5, <1>7, <1>8 DEF Moved, Narrows
  <2> QED
    BY <1>3, <1>6, <2>1 DEF Outcome, GoesOn, Explored
<1>9. CASE answer = "unsat"
  <2>1. Dropped
    BY <1>2, <1>7, <1>9 DEF Dropped, Answers
  <2> QED
    BY <1>6, <2>1 DEF Outcome, GoesOn, Explored
<1>10. CASE answer = "unknown"
  <2>1. ~Faithful
    BY <1>7, <1>10 DEF Faithful
  <2>2. Dropped
    BY <1>7, <1>10, <2>1 DEF Dropped
  <2> QED
    BY <1>6, <2>2 DEF Outcome, GoesOn, Explored
<1> QED
  BY <1>7, <1>8, <1>9, <1>10

\* An assertion that is proved loses no point; one that is refuted on a
\* precise path has a failing input.
LEMMA PopVerifyingOutcome == TypeInv /\ PopVerifying => Outcome
<1> SUFFICES ASSUME TypeInv, PopVerifying
             PROVE  Outcome
  OBVIOUS
<1> DEFINE def == At(Top.prev).def
           holds == At(Top.prev).holds
           x == Assumed(Top)
<1>1. /\ Top \in PathState(Node) /\ Top.status = "VERIFYING" /\ phase = "running"
      /\ Top.cond \in SUBSET Point /\ Top.pc \in Node
      /\ Top.prev \in Node /\ At(Top.prev).op = "assert"
  BY Popped DEF PopVerifying, StatusOK
<1>2. def \in SUBSET Point /\ holds \in SUBSET Point
  BY <1>1, InstrTyped DEF Instr, TypeInv
<1>3. Pending(Top) = (Top.cond \cap def) \cap ((Point \ holds) \cup Bad[Top.pc])
  BY <1>1, PendingAt
<1>4. Failing(Top) = (Top.cond \cap def) \ holds
  BY DEF Failing
<1>5. /\ x \in Placed /\ x.approx = Top.approx
      /\ x.cond = Top.cond \cap def \cap holds
      /\ Pending(x) = (Top.cond \cap def \cap holds) \cap Bad[Top.pc]
  <2>1. x \in Placed
    BY <1>1, <1>2, StayTyped DEF Assumed
  <2>2. /\ x.approx = Top.approx /\ x.cond = Top.cond \cap def \cap holds
        /\ x.status = "RUNNING" /\ x.pc = Top.pc
    BY <1>1 DEF Assumed, PathState
  <2> HIDE DEF x
  <2>3. Pending(x) = x.cond \cap Bad[x.pc]
    BY <2>1, <2>2, PendingAt DEF Placed
  <2> QED
    BY <2>1, <2>2, <2>3
<1> HIDE DEF def, holds, x
<1>6. Narrows(Top, x)
  BY <1>3, <1>5 DEF Narrows
<1>7. PICK answer \in Answers(Failing(Top), SolverGivesUp) :
        \/ /\ answer = "unsat"
           /\ results' = results \cup {"HOLD"}
           /\ Continue(<<x>>)
           /\ cex' = cex
        \/ /\ answer \in {"sat", "unknown"}
           /\ results' = results \cup {"VERIUNKNOWN"}
           /\ Continue(<<x>>)
           /\ cex' = cex
        \/ /\ answer = "sat" /\ ~Imprecise(Top)
           /\ results' = results \cup {"FAIL"}
           /\ violation' = Top.prev
           /\ \E p \in Failing(Top) : cex' = {p}
           /\ Return
  BY DEF PopVerifying, x
<1>11. crash' = crash
  BY DEF PopVerifying
<1>8. CASE answer = "unsat" /\ results' = results \cup {"HOLD"} /\ Continue(<<x>>) /\ cex' = cex
  <2>1. Failing(Top) = {}
    BY <1>8 DEF Answers
  <2>2. Pending(Top) \subseteq Pending(x)
    BY <1>3, <1>4, <1>5, <2>1
  <2>3. Moved(x)
    BY <1>6, <1>8, <2>2 DEF Moved, Continue
  <2> QED
    BY <1>1, <1>5, <1>8, <1>11, <2>3 DEF Outcome, GoesOn, Explored, Continue
<1>9. CASE results' = results \cup {"VERIUNKNOWN"} /\ Continue(<<x>>) /\ cex' = cex
  <2>1. ~Faithful
    BY <1>9 DEF Faithful
  <2>2. Moved(x)
    BY <1>6, <1>9, <2>1 DEF Moved, Continue
  <2> QED
    BY <1>1, <1>5, <1>9, <1>11, <2>2 DEF Outcome, GoesOn, Explored, Continue
<1>10. CASE /\ answer = "sat" /\ ~Imprecise(Top)
            /\ results' = results \cup {"FAIL"}
            /\ violation' = Top.prev
            /\ \E p \in Failing(Top) : cex' = {p}
            /\ Return
  <2>1. PICK p \in Failing(Top) : cex' = {p}
    BY <1>10
  <2>2. p \in Top.cond /\ p \in Pending(Top) /\ p \in def \ holds
    BY <1>1, <1>3, <1>4, <2>1
  <2>3. ~Top.approx
    BY <1>10 DEF Imprecise
  <2>4. Refuted
    BY <1>1, <1>10, <2>1, <2>2, <2>3 DEF Refuted, def, holds
  <2> QED
    BY <1>10, <1>11, <2>4 DEF Outcome, Refutes, Return
<1> QED
  BY <1>7, <1>8, <1>9, <1>10

LEMMA PopReachErrorOutcome == TypeInv /\ PopReachError => Outcome
<1> SUFFICES ASSUME TypeInv, PopReachError
             PROVE  Outcome
  OBVIOUS
<1>1. /\ Top \in PathState(Node) /\ Top.status = "REACH_ERROR"
      /\ Top.cond \in SUBSET Point /\ Top.pc \in Node
      /\ At(Top.pc).op = "error"
  BY Popped DEF PopReachError, StatusOK
<1>2. Pending(Top) = Top.cond
  <2>1. Pending(Top) = Top.cond \cap Bad[Top.pc]
    BY <1>1, PendingAt
  <2>2. Bad[Top.pc] = WrongAt(At(Top.pc), Bad[At(Top.pc).next], Bad[At(Top.pc).alt])
    BY <1>1, BadAt DEF TypeInv
  <2>3. Bad[Top.pc] = Point
    BY <1>1, <2>2 DEF WrongAt
  <2> QED
    BY <1>1, <2>1, <2>3
<1>3. phase' = "done" /\ verdict' = VerdictOf(results') /\ crash' = crash
  BY DEF PopReachError, Return
<1>4. \/ results' = results \cup {"VERIUNKNOWN"} /\ cex' = cex
      \/ /\ ~Imprecise(Top) /\ results' = results \cup {"FAIL"}
         /\ violation' = Top.pc
         /\ \E p \in Top.cond : cex' = {p}
  BY DEF PopReachError
<1>5. CASE results' = results \cup {"VERIUNKNOWN"} /\ cex' = cex
  BY <1>3, <1>5 DEF Outcome, GivesUp
<1>6. CASE /\ ~Imprecise(Top) /\ results' = results \cup {"FAIL"}
           /\ violation' = Top.pc
           /\ \E p \in Top.cond : cex' = {p}
  <2>1. Refuted
    BY <1>1, <1>2, <1>6 DEF Refuted, Imprecise
  <2> QED
    BY <1>3, <1>6, <2>1 DEF Outcome, Refutes
<1> QED
  BY <1>4, <1>5, <1>6

LEMMA PopUnreachableErrorOutcome == TypeInv /\ PopUnreachableError => Outcome
<1> SUFFICES ASSUME TypeInv, PopUnreachableError
             PROVE  Outcome
  OBVIOUS
<1>1. /\ Top \in Placed /\ phase = "running"
      /\ Pending(Top) \subseteq Pending(Top)
  BY Popped DEF PopUnreachableError
<1>2. CASE Debug
  BY <1>2 DEF PopUnreachableError, Crash, Outcome, Crashes, CrashKind
<1>3. CASE ~Debug
  <2>1. Moved(Top)
    BY <1>1, <1>3 DEF PopUnreachableError, Continue, Moved, Narrows
  <2> QED
    BY <1>1, <1>3, <2>1
       DEF PopUnreachableError, Continue, findings, Outcome, GoesOn, Explored
<1> QED
  BY <1>2, <1>3

LEMMA PopUnknownOutcome == TypeInv /\ PopUnknown => Outcome
  BY DEF PopUnknown, Return, Outcome, GivesUp

LEMMA PopFailOutcome == TypeInv /\ PopFail => Outcome
<1> SUFFICES ASSUME TypeInv, PopFail
             PROVE  Outcome
  OBVIOUS
<1>1. /\ Top.status = "FAIL" /\ cex' = cex /\ phase' = "done"
      /\ verdict' = VerdictOf(results') /\ crash' = crash
  BY DEF PopFail, IsTop, Return
<1>2. results' = results \cup {"FAIL"} \/ results' = results \cup {"VERIUNKNOWN"}
  BY DEF PopFail
<1> QED
  BY <1>1, <1>2 DEF Outcome, GivesUp, Refutes

\* What Engine::run does in one iteration of its loop.
LEMMA RunOutcome ==
  ASSUME TypeInv, Pop \/ Execute
  PROVE  states # <<>> /\ phase = "running" /\ UNCHANGED rigid /\ Outcome
<1>1. CASE Pop
  <2>1. states # <<>> /\ phase = "running" /\ UNCHANGED rigid
    BY <1>1 DEF Pop, PopTerminated, PopTesting, PopVerifying, PopReachError,
           PopUnreachableError, PopUnknown, PopFail, IsTop, rigid
  <2> QED
    BY <1>1, <2>1, PopTerminatedOutcome, PopTestingOutcome,
       PopVerifyingOutcome, PopReachErrorOutcome, PopUnreachableErrorOutcome,
       PopUnknownOutcome, PopFailOutcome DEF Pop
<1>2. CASE Execute
  BY <1>2, ExecuteExplored DEF Outcome, GoesOn, Crashes, findings
<1> QED
  BY <1>1, <1>2
-----------------------------------------------------------------------------
(***************************************************************************)
(* TRUE is right.                                                          *)
(***************************************************************************)
\* The paths on which p has still to go wrong.
Unsettled(p) == {s \in Placed : p \in Pending(s)}

\* Coverage, with the paths in one set.
Covers ==
  phase = "running" /\ results \subseteq {"HOLD"} =>
    \A p \in Wrong(prog, entry) : OnStack(states, Unsettled(p))
TrueInv == /\ Covers
           /\ phase = "running" => verdict = "none"
           /\ TrueSound

\* What is pending on a path depends on the loaded program only.
LEMMA UnsettledRigid ==
  ASSUME prog' = prog, NEW p
  PROVE  Unsettled(p)' = Unsettled(p)
<1>1. Placed' = Placed
  BY PlacedRigid
<1>2. ASSUME NEW s
      PROVE  Pending(s)' = Pending(s)
  BY DEF Pending, At, Bad
<1> QED
  BY <1>1, <1>2 DEF Unsettled

\* A step that explores the top loses no failing input.
LEMMA ExploredCovers ==
  ASSUME TypeInv, states # <<>>, Explored, Faithful, prog' = prog,
         NEW p, OnStack(states, Unsettled(p))
  PROVE  OnStack(states', Unsettled(p)')
<1> DEFINE H == Unsettled(p)
<1>1. H' = H
  BY UnsettledRigid
<1>2. /\ Top = states[Len(states)]
      /\ \A new : Rest \o new = Replace(states, new)
      /\ states \in Seq(Placed)
  BY DEF Top, Rest, Replace, TypeInv
<1>3. Top \in Placed
  BY TopTyped
<1>4. /\ Top \notin H => OnStack(Replace(states, <<>>), H)
      /\ \A x \in Placed : (Top \in H => x \in H) =>
                           OnStack(Replace(states, <<x>>), H)
      /\ \A x, y \in Placed : (Top \in H => x \in H \/ y \in H) =>
                              OnStack(Replace(states, <<x, y>>), H)
  BY <1>2, StillThere
<1>5. CASE Dropped
  <2>1. Top \notin H
    BY <1>5 DEF Dropped, Unsettled
  <2> QED
    BY <1>1, <1>2, <1>4, <1>5, <2>1 DEF Dropped
<1>6. CASE \E x \in Placed : Moved(x)
  <2>1. PICK x \in Placed : Moved(x)
    BY <1>6
  <2>2. Top \in H => x \in H
    BY <2>1 DEF Moved, Unsettled
  <2> QED
    BY <1>1, <1>2, <1>4, <2>1, <2>2 DEF Moved
<1>7. CASE \E x, y \in Placed : Split(x, y)
  <2>1. PICK x \in Placed, y \in Placed : Split(x, y)
    BY <1>7
  <2>2. Top \in H => x \in H \/ y \in H
    BY <2>1 DEF Split, Unsettled
  <2> QED
    BY <1>1, <1>2, <1>4, <2>1, <2>2 DEF Split
<1> QED
  BY <1>5, <1>6, <1>7 DEF Explored

\* The path that a run starts with covers every failing input.
LEMMA VerifyCovers ==
  ASSUME TypeInv, NEW e \in Programs[prog].entries, Verify(e)
  PROVE  TrueInv'
<1>1. prog' = prog /\ entry' = e /\ states' = <<InitialState(e)>> /\ verdict' = "none"
  BY DEF Verify
<1>2. e \in Node
  BY EntriesTyped DEF TypeInv
<1>3. InitialState(e) \in Placed
  BY <1>2, InputOK DEF InitialState, Placed, PathState, StatusOK, Status
<1>4. Pending(InitialState(e)) = Wrong(prog, e)
  BY <1>3, PendingAt DEF Placed, InitialState, Wrong, Bad
<1>5. ASSUME NEW p \in Wrong(prog, e)
      PROVE  OnStack(states', Unsettled(p)')
  <2>1. Unsettled(p)' = Unsettled(p)
    BY <1>1, UnsettledRigid
  <2>2. InitialState(e) \in Unsettled(p)
    BY <1>3, <1>4 DEF Unsettled
  <2>3. 1 \in 1..Len(states') /\ states'[1] = InitialState(e)
    BY <1>1
  <2> QED
    BY <2>1, <2>2, <2>3 DEF OnStack
<1>6. Wrong(prog, entry)' = Wrong(prog, e)
  BY <1>1 DEF Wrong
<1> QED
  BY <1>1, <1>5, <1>6 DEF TrueInv, Covers, TrueSound

\* One step of the engine keeps the invariant.
LEMMA StepCovers ==
  ASSUME TypeInv, TrueInv, [Next]_vars,
         ~ProbeGivesUp, NothingDropped(Programs[prog])
  PROVE  TrueInv'
<1>1. CASE Pop \/ Execute
  <2>1. states # <<>> /\ phase = "running" /\ UNCHANGED rigid /\ Outcome
    BY <1>1, RunOutcome
  <2>2. prog' = prog /\ entry' = entry /\ Wrong(prog, entry)' = Wrong(prog, entry)
    BY <2>1 DEF rigid, Wrong
  <2>3. verdict = "none"
    BY <2>1 DEF TrueInv
  <2>4. CASE GoesOn
    <3>1. ASSUME results' \subseteq {"HOLD"}, NEW p \in Wrong(prog, entry)
          PROVE  OnStack(states', Unsettled(p)')
      <4>1. Faithful
        BY <3>1 DEF Faithful
      <4>2. OnStack(states, Unsettled(p))
        BY <2>1, <2>4, <3>1 DEF GoesOn, TrueInv, Covers
      <4> QED
        BY <2>1, <2>2, <2>4, <4>1, <4>2, ExploredCovers DEF GoesOn
    <3> QED
      BY <2>2, <2>3, <2>4, <3>1 DEF GoesOn, TrueInv, Covers, TrueSound
  <2>5. CASE Crashes
    BY <2>3, <2>5 DEF Crashes, TrueInv, Covers, TrueSound
  <2>6. CASE GivesUp \/ Refutes
    <3>1. phase' = "done" /\ verdict' = VerdictOf(results') /\ ~(results' \subseteq {"HOLD"})
      BY <2>6 DEF GivesUp, Refutes
    <3>2. verdict' # "HOLD"
      BY <3>1 DEF VerdictOf
    <3> QED
      BY <3>1, <3>2 DEF TrueInv, Covers, TrueSound
  <2> QED
    BY <2>1, <2>4, <2>5, <2>6 DEF Outcome
<1>2. CASE Exhausted
  <2>1. /\ phase = "running" /\ states = <<>> /\ phase' = "done"
        /\ verdict' = VerdictOf(results)
        /\ prog' = prog /\ entry' = entry
    BY <1>2 DEF Exhausted, rigid
  <2>2. results \subseteq {"HOLD"} => Wrong(prog, entry) = {}
    BY <2>1 DEF TrueInv, Covers, OnStack
  <2>3. VerdictOf(results) = "HOLD" => results \subseteq {"HOLD"}
    BY DEF VerdictOf
  <2> QED
    BY <2>1, <2>2, <2>3 DEF TrueInv, Covers, TrueSound, Wrong
<1>3. CASE Throw
  <2>1. phase' = "done" /\ verdict' = "none"
    BY <1>3 DEF Throw, IsTop, Crash, TrueInv
  <2> QED
    BY <2>1 DEF TrueInv, Covers, TrueSound
<1>4. CASE \E e \in Programs[prog].entries : Verify(e)
  BY <1>4, VerifyCovers
<1>5. CASE UNCHANGED vars
  <2>1. \A p : Unsettled(p)' = Unsettled(p)
    BY <1>5, UnsettledRigid DEF vars
  <2> QED
    BY <1>5, <2>1 DEF vars, TrueInv, Covers, TrueSound, Wrong
<1> QED
  BY <1>1, <1>2, <1>3, <1>4, <1>5 DEF Next, Run, Stop

LEMMA AlwaysCovered ==
  ASSUME ~ProbeGivesUp, \A m \in DOMAIN Programs : NothingDropped(Programs[m])
  PROVE  Spec => [](TypeInv /\ TrueInv)
<1>1. Init => TrueInv
  BY DEF Init, TrueInv, Covers, TrueSound
<1>2. TypeInv /\ TrueInv /\ [Next]_vars => TrueInv'
  <2>1. TypeInv => NothingDropped(Programs[prog])
    BY DEF TypeInv
  <2> QED
    BY <2>1, StepCovers
<1> QED
  BY <1>1, <1>2, AlwaysTyped, PTL DEF Spec

\* No failing input is ever lost: while a run has nothing but proved assertions
\* to show, each one is on a path of the worklist where it has yet to go wrong
\* (Engine::run), under the conditions of TrueIsRight.
THEOREM NoFailingInputLost ==
  ASSUME ~ProbeGivesUp, \A m \in DOMAIN Programs : NothingDropped(Programs[m])
  PROVE  Spec => []Coverage
<1>1. TypeInv /\ TrueInv => Coverage
  BY DEF TrueInv, Covers, OnStack, Unsettled, Coverage
<1> QED
  BY <1>1, AlwaysCovered, PTL

\* TRUE is answered only of a program that no input makes go wrong
\* (Engine::verify, HOLD), whatever the solver gives up on, provided that the
\* is_feasible probe of a call answers and no program has a summarised loop
\* with several exits or a summarised function with a failing assertion.
THEOREM TrueIsRight ==
  ASSUME ~ProbeGivesUp, \A m \in DOMAIN Programs : NothingDropped(Programs[m])
  PROVE  Spec => []TrueSound
<1>1. TypeInv /\ TrueInv => TrueSound
  BY DEF TrueInv
<1> QED
  BY <1>1, AlwaysCovered, PTL
-----------------------------------------------------------------------------
(***************************************************************************)
(* FALSE and the counterexample are right.                                 *)
(***************************************************************************)
\* The paths that, if precise, hold inputs only, and go wrong only where the
\* program does.
Real == {s \in Placed : ~s.approx => /\ s.cond \subseteq Input
                                     /\ Pending(s) \subseteq Bad[entry]}

FalseInv ==
  /\ phase = "running" => /\ states \in Seq(Real)
                          /\ verdict = "none"
                          /\ "FAIL" \notin results
                          /\ cex = {}
  /\ CounterexampleReal
  /\ NothingInvented(Programs[prog]) => FalseSound

LEMMA RealRigid ==
  ASSUME prog' = prog, entry' = entry
  PROVE  Real' = Real
<1>1. Placed' = Placed
  BY PlacedRigid
<1>2. ASSUME NEW s
      PROVE  Pending(s)' = Pending(s)
  BY DEF Pending, At, Bad
<1>3. Bad[entry]' = Bad[entry]
  BY DEF Bad
<1> QED
  BY <1>1, <1>2, <1>3 DEF Real

\* What narrows a real path is real.
LEMMA NarrowsReal ==
  ASSUME NEW s \in Real, NEW x \in Placed, Narrows(s, x)
  PROVE  x \in Real
  BY DEF Real, Narrows

\* A step that explores the top leaves real paths only.
LEMMA ExploredReal ==
  ASSUME states # <<>>, states \in Seq(Real), Explored
  PROVE  states' \in Seq(Real)
<1>1. /\ Top \in Real
      /\ Rest \o <<>> \in Seq(Real)
      /\ \A x \in Real : Rest \o <<x>> \in Seq(Real)
      /\ \A x, y \in Real : Rest \o <<x, y>> \in Seq(Real)
  BY PushedTyped DEF Top, Rest
<1>2. CASE Dropped
  BY <1>1, <1>2 DEF Dropped
<1>3. CASE \E x \in Placed : Moved(x)
  <2>1. PICK x \in Placed : Moved(x)
    BY <1>3
  <2>2. x \in Real
    BY <1>1, <2>1, NarrowsReal DEF Moved
  <2> QED
    BY <1>1, <2>1, <2>2 DEF Moved
<1>4. CASE \E x, y \in Placed : Split(x, y)
  <2>1. PICK x \in Placed, y \in Placed : Split(x, y)
    BY <1>4
  <2>2. x \in Real /\ y \in Real
    BY <1>1, <2>1, NarrowsReal DEF Split
  <2> QED
    BY <1>1, <2>1, <2>2 DEF Split
<1> QED
  BY <1>2, <1>3, <1>4 DEF Explored

\* The path that a run starts with is real.
LEMMA VerifyReal ==
  ASSUME TypeInv, NEW e \in Programs[prog].entries, Verify(e)
  PROVE  FalseInv'
<1>1. /\ prog' = prog /\ entry' = e /\ states' = <<InitialState(e)>>
      /\ verdict' = "none" /\ results' = {} /\ cex' = {}
  BY DEF Verify
<1>2. e \in Node
  BY EntriesTyped DEF TypeInv
<1> DEFINE x == InitialState(e)
<1>3. x \in Placed
  BY <1>2, InputOK DEF InitialState, Placed, PathState, StatusOK, Status
<1>4. x.cond = Input /\ Pending(x) = Input \cap Bad[e]
  BY <1>3, PendingAt DEF Placed, InitialState
<1> HIDE DEF x
<1>5. Placed' = Placed /\ Pending(x)' = Pending(x) /\ Bad[entry]' = Bad[e]
  BY <1>1, PlacedRigid DEF Pending, At, Bad
<1>6. x \in Real'
  BY <1>3, <1>4, <1>5 DEF Real
<1>7. states' \in Seq(Real')
  BY <1>1, <1>6 DEF x
<1> QED
  BY <1>1, <1>7 DEF FalseInv, CounterexampleReal, FalseSound

\* A refutation is one.
LEMMA RefutesReal ==
  ASSUME TypeInv, FalseInv, phase = "running", states # <<>>, UNCHANGED rigid,
         Refutes
  PROVE  FalseInv'
<1>1. Top \in Real
  BY PushedTyped DEF Top, FalseInv
<1>2. phase' = "done" /\ Wrong(prog, entry)' = Wrong(prog, entry) /\ prog' = prog
  BY DEF Refutes, rigid, Wrong
<1>3. CASE Refuted
  <2>1. PICK p \in Top.cond :
          /\ cex' = {p}
          /\ ~Top.approx
          /\ p \in Pending(Top)
          /\ violation' \in Node
          /\ \/ At(violation').op = "error"
             \/ /\ At(violation').op = "assert"
                /\ p \in At(violation').def \ At(violation').holds
    BY <1>3 DEF Refuted
  <2>2. p \in Wrong(prog, entry)
    BY <1>1, <2>1 DEF Real, Wrong, Bad
  <2>3. Node' = Node /\ At(violation)' = At(violation')
    BY <1>2, PlacedRigid DEF At
  <2>4. CounterexampleReal'
    BY <1>2, <2>1, <2>2, <2>3 DEF CounterexampleReal
  <2>5. FalseSound'
    BY <1>2, <2>2 DEF FalseSound
  <2> QED
    BY <1>2, <2>4, <2>5 DEF FalseInv
<1>4. CASE Top.status = "FAIL" /\ cex' = cex
  <2>1. cex' = {}
    BY <1>4 DEF FalseInv
  <2>2. ~NothingInvented(Programs[prog])
    <3>1. StatusOK(Top) /\ Top.pc \in Node
      BY TopTyped DEF PathState
    <3>2. /\ At(Top.pc).op = "loop" /\ At(Top.pc).exact /\ ~At(Top.pc).hides
          /\ At(Top.pc).query # {}
      BY <1>4, <3>1 DEF StatusOK
    <3> QED
      BY <3>1, <3>2 DEF NothingInvented, Node, At
  <2> QED
    BY <1>2, <2>1, <2>2 DEF FalseInv, CounterexampleReal
<1> QED
  BY <1>3, <1>4 DEF Refutes

\* One step of the engine keeps the invariant.
LEMMA StepReal ==
  ASSUME TypeInv, FalseInv, [Next]_vars
  PROVE  FalseInv'
<1>1. CASE Pop \/ Execute
  <2>1. states # <<>> /\ phase = "running" /\ UNCHANGED rigid /\ Outcome
    BY <1>1, RunOutcome
  <2>2. prog' = prog /\ entry' = entry /\ Real' = Real
    BY <2>1, RealRigid DEF rigid
  <2>3. states \in Seq(Real) /\ verdict = "none" /\ "FAIL" \notin results /\ cex = {}
    BY <2>1 DEF FalseInv
  <2>4. CASE GoesOn
    <3>1. states' \in Seq(Real)
      BY <2>1, <2>3, <2>4, ExploredReal DEF GoesOn
    <3> QED
      BY <2>2, <2>3, <2>4, <3>1
         DEF GoesOn, FalseInv, CounterexampleReal, FalseSound
  <2>5. CASE Crashes
    BY <2>3, <2>5 DEF Crashes, FalseInv, CounterexampleReal, FalseSound
  <2>6. CASE GivesUp
    <3>1. phase' = "done" /\ cex' = {} /\ "FAIL" \notin results'
          /\ verdict' = VerdictOf(results')
      BY <2>3, <2>6 DEF GivesUp
    <3>2. verdict' # "FAIL"
      BY <3>1 DEF VerdictOf
    <3> QED
      BY <3>1, <3>2 DEF FalseInv, CounterexampleReal, FalseSound
  <2>7. CASE Refutes
    BY <2>1, <2>7, RefutesReal
  <2> QED
    BY <2>1, <2>4, <2>5, <2>6, <2>7 DEF Outcome
<1>2. CASE Exhausted
  <2>1. /\ phase = "running" /\ phase' = "done" /\ cex' = {}
        /\ verdict' = VerdictOf(results) /\ "FAIL" \notin results
    BY <1>2 DEF Exhausted, FalseInv, findings
  <2>2. verdict' # "FAIL"
    BY <2>1 DEF VerdictOf
  <2> QED
    BY <2>1, <2>2 DEF FalseInv, CounterexampleReal, FalseSound
<1>3. CASE Throw
  <2>1. phase' = "done" /\ verdict' = "none" /\ cex' = {}
    BY <1>3 DEF Throw, IsTop, Crash, FalseInv
  <2> QED
    BY <2>1 DEF FalseInv, CounterexampleReal, FalseSound
<1>4. CASE \E e \in Programs[prog].entries : Verify(e)
  BY <1>4, VerifyReal
<1>5. CASE UNCHANGED vars
  <2>1. Real' = Real /\ Node' = Node
    BY <1>5, RealRigid, PlacedRigid DEF vars
  <2> QED
    BY <1>5, <2>1
       DEF vars, FalseInv, CounterexampleReal, FalseSound, Wrong, At
<1> QED
  BY <1>1, <1>2, <1>3, <1>4, <1>5 DEF Next, Run, Stop

LEMMA AlwaysReal == Spec => [](TypeInv /\ FalseInv)
<1>1. Init => FalseInv
  BY DEF Init, FalseInv, CounterexampleReal, FalseSound
<1>2. TypeInv /\ FalseInv /\ [Next]_vars => FalseInv'
  BY StepReal
<1> QED
  BY <1>1, <1>2, AlwaysTyped, PTL DEF Spec

\* A path without an over-approximating summary behind it holds real inputs
\* only, and goes wrong only where the program does: the premise on which
\* Engine::verify takes a model of a precise path for a counterexample.
THEOREM PrecisePathsAreReal == Spec => []PreciseReal
<1>1. TypeInv /\ FalseInv => PreciseReal
  <2> SUFFICES ASSUME TypeInv, FalseInv
               PROVE  PreciseReal
    OBVIOUS
  <2>1. ASSUME phase = "running", NEW k \in 1..Len(states)
        PROVE  states[k] \in Real
    BY <2>1, LenProperties DEF FalseInv
  <2> QED
    BY <2>1 DEF PreciseReal, Real
<1> QED
  BY <1>1, AlwaysReal, PTL

\* The model kept for the violation witness is one on which the program goes
\* wrong at violation_instruction (capture_counterexample), whatever summaries
\* other paths went through.
THEOREM CounterexampleIsReal == Spec => []CounterexampleReal
<1>1. FalseInv => CounterexampleReal
  BY DEF FalseInv
<1> QED
  BY <1>1, AlwaysReal, PTL

\* FALSE is answered only of a program that some input makes go wrong
\* (Engine::verify, FAIL), provided that no loop's assertion query, posed
\* without the path condition, refutes an assertion on an exact summary.
THEOREM FalseIsRight ==
  ASSUME \A m \in DOMAIN Programs : NothingInvented(Programs[m])
  PROVE  Spec => []FalseSound
<1>1. TypeInv /\ FalseInv => FalseSound
  BY DEF TypeInv, FalseInv
<1> QED
  BY <1>1, AlwaysReal, PTL

(***************************************************************************)
(* Engine implements Verifier.                                             *)
(***************************************************************************)
\* The engine promises what Verifier does: each call of Engine::verify is one
\* question, answered truly or given up, and nothing in between shows, under
\* the hypotheses of TrueIsRight and FalseIsRight.
THEOREM EngineImplementsVerifier ==
  ASSUME ~ProbeGivesUp,
         \A m \in DOMAIN Programs : NothingDropped(Programs[m]),
         \A m \in DOMAIN Programs : NothingInvented(Programs[m])
  PROVE  Spec => Implements
<1> DEFINE Inv == TypeInv /\ TrueInv /\ FalseInv
<1>0. Abs!Wrong(prog, entry) = Wrong(prog, entry)
  BY DEF Wrong, Abs!Wrong
<1>1. Init => TrueInv /\ Abs!Init
  BY DEF Init, TrueInv, Covers, TrueSound, Abs!Init
<1>2. TypeInv /\ TrueInv /\ [Next]_vars => TrueInv'
  BY StepCovers DEF TypeInv
<1>3. ASSUME Inv, Inv', [Next]_vars
      PROVE  [Abs!Next]_(Abs!vars)
  <2>1. CASE Pop \/ Execute
    <3>1. phase = "running" /\ prog' = prog /\ entry' = entry /\ Outcome
      BY <1>3, <2>1, RunOutcome DEF rigid
    <3>2. CASE GoesOn
      BY <3>1, <3>2 DEF GoesOn, Abs!vars
    <3>3. CASE Crashes
      BY <3>1, <3>3 DEF Crashes, CrashKind, Abs!Next, Abs!Abandon
    <3>4. CASE GivesUp \/ Refutes
      <4>1. phase' = "done" /\ verdict' = VerdictOf(results') /\ crash' = crash
        BY <3>4 DEF GivesUp, Refutes
      <4>2. verdict' \in {"HOLD", "FAIL", "VERIUNKNOWN"}
        BY <4>1 DEF VerdictOf
      <4>3. Wrong(prog, entry)' = Wrong(prog, entry)
        BY <3>1 DEF Wrong
      <4>4. TrueSound' /\ FalseSound'
        BY <1>3 DEF TypeInv, TrueInv, FalseInv
      <4> QED
        BY <1>0, <3>1, <4>1, <4>2, <4>3, <4>4
           DEF TrueSound, FalseSound, Abs!Next, Abs!Answer
    <3> QED
      BY <3>1, <3>2, <3>3, <3>4 DEF Outcome
  <2>2. CASE Exhausted
    <3>1. /\ phase = "running" /\ phase' = "done" /\ crash' = crash
          /\ verdict' = VerdictOf(results)
          /\ prog' = prog /\ entry' = entry
      BY <2>2 DEF Exhausted, rigid
    <3>2. verdict' \in {"HOLD", "FAIL", "VERIUNKNOWN"}
      BY <3>1 DEF VerdictOf
    <3>3. Wrong(prog, entry)' = Wrong(prog, entry)
      BY <3>1 DEF Wrong
    <3>4. TrueSound' /\ FalseSound'
      BY <1>3 DEF TypeInv, TrueInv, FalseInv
    <3> QED
      BY <1>0, <3>1, <3>2, <3>3, <3>4
         DEF TrueSound, FalseSound, Abs!Next, Abs!Answer
  <2>3. CASE Throw
    BY <2>3 DEF Throw, IsTop, Crash, rigid, Abs!Next, Abs!Abandon
  <2>4. CASE \E e \in Programs[prog].entries : Verify(e)
    BY <2>4 DEF Verify, Abs!Next, Abs!Ask
  <2>5. CASE UNCHANGED vars
    BY <2>5 DEF vars, Abs!vars
  <2> QED
    BY <1>3, <2>1, <2>2, <2>3, <2>4, <2>5 DEF Next, Run, Stop
<1> QED
  BY <1>1, <1>2, <1>3, AlwaysTyped, AlwaysReal, PTL DEF Spec, Implements, Abs!Spec
=============================================================================
