-------------------------- MODULE LoopSummaryProofs --------------------------
(***************************************************************************)
(* Proofs about LoopSummary: the paths that LoopExecution keeps are the    *)
(* iterations of the loop, for every loop that is tested before its latch. *)
(***************************************************************************)
EXTENDS LoopSummary, InductionLemmas, FiniteSetTheorems

(***************************************************************************)
(* One iteration, instruction by instruction                               *)
(***************************************************************************)
Size(l) == Len(l.node)

\* How far an iteration of the loop l has come.
Progress(l) ==
  [pc : 0..Size(l), next : l.value, calls : Nat,
   end : {"going", "again", "left", "blocked", "failed"}]
Pairs(l) == l.value \X l.answer
Began(x) == [pc |-> 1, next |-> x[1], calls |-> 0, end |-> "going"]
Turn(l, x, before, i) ==
  IF before.pc # i \/ before.end # "going" THEN before ELSE Executed(l.node[i], x, before)

\* The progress of the iteration at x behind each instruction.
Course(l, x) ==
  LET at[i \in 0..Size(l)] == IF i = 0 THEN Began(x) ELSE Turn(l, x, at[i - 1], i)
  IN  at
End(l, x) == Course(l, x)[Size(l)]

LEMMA LoopNodes ==
  ASSUME NEW l, LoopOK(l)
  PROVE  /\ Size(l) \in Nat /\ Size(l) >= 1 /\ DOMAIN l.node = 1..Size(l)
         /\ \A i \in 1..Size(l) :
              LET n == l.node[i]
              IN  /\ n.op \in {"set", "call", "branch", "jump", "assume", "assert"}
                  /\ n.to \in 0..Size(l) /\ n.other \in 0..Size(l)
                  /\ n.to > i \/ n.to \in {0, 1}
                  /\ n.other > i \/ n.other \in {0, 1}
                  /\ n.on \subseteq Pairs(l)
                  /\ n.update \in [Pairs(l) -> l.value]
                  /\ ~Terminator(n) => n.to = i + 1 /\ l.node[n.to].block = n.block
<1>1. Size(l) \in Nat /\ Size(l) >= 1 /\ DOMAIN l.node = 1..Size(l)
  BY DEF LoopOK, Size
<1>2. ASSUME NEW i \in 1..Size(l)
      PROVE  LET n == l.node[i]
             IN  /\ n.op \in {"set", "call", "branch", "jump", "assume", "assert"}
                 /\ n.to \in 0..Size(l) /\ n.other \in 0..Size(l)
                 /\ n.to > i \/ n.to \in {0, 1}
                 /\ n.other > i \/ n.other \in {0, 1}
                 /\ n.on \subseteq Pairs(l)
                 /\ n.update \in [Pairs(l) -> l.value]
                 /\ ~Terminator(n) => n.to = i + 1 /\ l.node[n.to].block = n.block
  <2> DEFINE n == l.node[i]
  <2>1. i \in DOMAIN l.node
    BY <1>1
  <2>2. /\ n.op \in {"set", "call", "branch", "jump", "assume", "assert"}
        /\ {n.to, n.other} \subseteq DOMAIN l.node \cup {Exit}
        /\ n.on \subseteq l.value \X l.answer
        /\ n.update \in [l.value \X l.answer -> l.value]
        /\ \A j \in {n.to, n.other} : j > i \/ j \in {Exit, 1}
        /\ ~Terminator(n) => n.to = i + 1 /\ l.node[n.to].block = n.block
    BY <2>1 DEF LoopOK
  <2>3. n.to \in 0..Size(l) /\ n.other \in 0..Size(l)
    BY <1>1, <2>2 DEF Exit
  <2>4. (n.to > i \/ n.to \in {0, 1}) /\ (n.other > i \/ n.other \in {0, 1})
    BY <2>2 DEF Exit
  <2> HIDE DEF n
  <2> QED
    BY <2>2, <2>3, <2>4 DEF Pairs, Exit, n
<1> QED
  BY <1>1, <1>2

LEMMA ExecutedType ==
  ASSUME NEW l, LoopOK(l), NEW x \in Pairs(l), NEW i \in 1..Size(l),
         NEW before \in Progress(l)
  PROVE  Executed(l.node[i], x, before) \in Progress(l)
<1> DEFINE n == l.node[i]
           to == IF n.op = "branch" /\ x \notin n.on THEN n.other ELSE n.to
           next == IF n.op = "set" THEN n.update[x] ELSE before.next
           calls == before.calls + IF n.op = "call" THEN 1 ELSE 0
           end == IF n.op \in {"assume", "assert"} /\ x \notin n.on
                  THEN IF n.op = "assume" THEN "blocked" ELSE "failed"
                  ELSE IF to = Exit THEN "left" ELSE IF to = 1 THEN "again" ELSE "going"
<1>1. to \in 0..Size(l)
  BY LoopNodes
<1>2. next \in l.value
  BY LoopNodes DEF Progress
<1>3. calls \in Nat
  <2>1. before.calls \in Nat
    BY DEF Progress
  <2> QED
    BY <2>1
<1>4. end \in {"going", "again", "left", "blocked", "failed"}
  OBVIOUS
<1>5. Executed(l.node[i], x, before) = [pc |-> to, next |-> next, calls |-> calls, end |-> end]
  BY DEF Executed
<1> HIDE DEF n, to, next, calls, end
<1>6. [pc |-> to, next |-> next, calls |-> calls, end |-> end] \in Progress(l)
  BY <1>1, <1>2, <1>3, <1>4 DEF Progress
<1> QED
  BY <1>5, <1>6

\* Course is the recursive function it is written as, and ends in Iteration.
LEMMA CourseIs ==
  ASSUME NEW l, LoopOK(l), NEW x \in Pairs(l)
  PROVE  /\ Course(l, x) \in [0..Size(l) -> Progress(l)]
         /\ Course(l, x)[0] = Began(x)
         /\ \A i \in 1..Size(l) : Course(l, x)[i] = Turn(l, x, Course(l, x)[i - 1], i)
<1> DEFINE n == Size(l)
           b == Began(x)
           X == Progress(l)
           go == [y \in X \X (1..n) |-> Turn(l, x, y[1], y[2])]
           Obeys(g) == g = [i \in 0..n |-> IF i = 0 THEN b ELSE Turn(l, x, g[i - 1], i)]
           chosen == CHOOSE g : Obeys(g)
<1>1. Course(l, x) = chosen
  BY DEF Course
<1>2. n \in Nat
  BY LoopNodes
<1>3. b \in X
  <2>1. 1 \in 0..Size(l) /\ x[1] \in l.value
    <3>1. Size(l) \in Nat /\ Size(l) >= 1
      BY LoopNodes
    <3>2. x[1] \in l.value
      BY DEF Pairs
    <3> QED
      BY <3>1, <3>2
  <2> QED
    BY <2>1 DEF Progress, Began
<1>4. \A y \in X, i \in 1..n : go[<<y, i>>] = Turn(l, x, y, i)
  OBVIOUS
<1>5. \A y \in X, i \in 1..n : Turn(l, x, y, i) \in X
  BY ExecutedType DEF Turn
<1> HIDE DEF n, b, go, X
<1>6. Steps(X, n, go)
  BY <1>4, <1>5 DEF Steps
<1>7. PICK f : Recursive(X, b, n, go, f)
  BY <1>2, <1>3, <1>6, Recursion
<1>8. /\ f \in [0..n -> X] /\ f[0] = b
      /\ \A i \in 1..n : f[i - 1] \in X /\ f[i] = Turn(l, x, f[i - 1], i)
  <2>1. \A i \in 1..n : i - 1 \in 0..n
    BY <1>2
  <2> QED
    BY <1>4, <1>7, <2>1 DEF Recursive
<1>9. Obeys(f)
  <2>1. f = [i \in 0..n |-> f[i]]
    BY <1>8
  <2>2. \A i \in 0..n : i # 0 => i \in 1..n
    BY <1>2
  <2>3. \A i \in 0..n : f[i] = IF i = 0 THEN b ELSE Turn(l, x, f[i - 1], i)
    BY <1>8, <2>2
  <2> QED
    BY <2>1, <2>3
<1>10. Obeys(chosen)
  <2> HIDE DEF Obeys
  <2> QED
    BY <1>9, Zenon
<1> HIDE DEF chosen
<1>11. chosen[0] = b /\ \A i \in 1..n : chosen[i] = Turn(l, x, chosen[i - 1], i)
  <2>1. 0 \in 0..n /\ \A i \in 1..n : i \in 0..n /\ i # 0
    BY <1>2
  <2>2. \A i \in 0..n : chosen[i] = IF i = 0 THEN b ELSE Turn(l, x, chosen[i - 1], i)
    BY <1>10
  <2> QED
    BY <2>1, <2>2
<1>12. \A i \in 1..n : chosen[i - 1] \in X => chosen[i] = go[<<chosen[i - 1], i>>]
  BY <1>4, <1>11
<1>13. \A i \in 0..n : chosen[i] = f[i]
  BY <1>2, <1>3, <1>7, <1>11, <1>12, RecursionUnique
<1>14. chosen = [i \in 0..n |-> chosen[i]]
  BY <1>10
<1>15. chosen \in [0..n -> X]
  BY <1>8, <1>13, <1>14
<1> QED
  BY <1>1, <1>11, <1>15 DEF n, b, X

LEMMA IterationIs ==
  ASSUME LoopOK(loop), NEW v, NEW c, <<v, c>> \in Pairs(loop)
  PROVE  Iteration(v, c) = End(loop, <<v, c>>)
<1>1. (<<v, c>>)[1] = v
  OBVIOUS
<1> QED
  BY <1>1 DEF Iteration, End, Course, Turn, Began, Size

(***************************************************************************)
(* The invariant                                                           *)
(***************************************************************************)
\* A loop that is tested before its latch: the latch is not the header, ends in
\* a jump back to it, and nothing else goes back.
WhileLoop(l) ==
  /\ l.node[1].block # l.latch
  /\ \A i \in DOMAIN l.node :
       LET n == l.node[i]
       IN  /\ n.block = l.latch /\ Terminator(n) => n.op = "jump" /\ n.to = 1
           /\ 1 \in {n.to, n.other} => n.block = l.latch /\ n.op = "jump"

PathState(l) ==
  [pc : 0..Size(l), prev_pc : 0..Size(l),
   path_condition : SUBSET Pairs(l), path_condition_in_loop : SUBSET Pairs(l),
   update : [Pairs(l) -> l.value], counted : BOOLEAN, status : {"RUNNING", "TESTING"}]

\* The iteration at x comes to the instruction k with the next value u.
Stands(l, x, k, u) ==
  LET before == Course(l, x)[k - 1]
  IN  before.pc = k /\ before.end = "going" /\ before.next = u

Ended(l, s) == s.pc # 0 /\ l.node[s.pc].block = l.latch /\ Terminator(l.node[s.pc])

\* What the state says of each of its pairs, but those that fail an assertion,
\* is where the iteration stands.
StateOK(l, s) ==
  /\ s.path_condition \subseteq s.path_condition_in_loop
  /\ s.pc # 0 /\ s.prev_pc # 0 /\ l.node[s.pc].block = l.node[1].block
       => l.node[s.prev_pc].block # l.latch
  /\ \A x \in s.path_condition :
       End(l, x).end # "failed" =>
         IF s.pc = 0 THEN End(l, x).end = "left" ELSE Stands(l, x, s.pc, s.update[x])
Sound(l) == {s \in PathState(l) : StateOK(l, s)}

\* No pair is on both paths, nor in what their conditions inside the loop say.
Within(s) == IF s.pc = 0 THEN {} ELSE s.path_condition_in_loop
Apart(s, t) == s.path_condition \cap t.path_condition = {} /\ Within(s) \cap Within(t) = {}
Narrower(t, s) == t.path_condition \subseteq s.path_condition /\ Within(t) \subseteq Within(s)
AllApart(st, kept) ==
  /\ \A i, j \in 1..Len(st) : i # j => Apart(st[i], st[j])
  /\ \A i \in 1..Len(st), t \in kept : Apart(st[i], t)
  /\ \A s, t \in kept : s # t => Apart(s, t)

Carried(x, st, kept) ==
  \/ \E i \in 1..Len(st) : x \in st[i].path_condition
  \/ \E s \in kept : x \in s.path_condition
Completes(l, x) == End(l, x).end \in {"again", "left"}

Transitions ==
  [rejected |-> saw_unknown,
   transitions |-> {[guard |-> s.path_condition, update |-> s.update] : s \in final_states}]

PathsInv ==
  /\ states \in Seq(Sound(loop))
  /\ final_states \subseteq {s \in Sound(loop) : Ended(loop, s)}
  /\ exit_states \subseteq {s \in Sound(loop) : s.pc = 0}
  /\ AllApart(states, final_states \cup exit_states)
  /\ saw_unknown \/ \A x \in Pairs(loop) :
       Completes(loop, x) => Carried(x, states, final_states \cup exit_states)
StageInv ==
  /\ stage # "run" => states = <<>>
  /\ stage = "done" /\ loop.client = "accelerator" => outcome = Transitions
  /\ stage = "done" /\ loop.client = "summarizer" =>
       \E approximate, known \in BOOLEAN :
         /\ known => loop.linear
         /\ outcome = Summarized(approximate, known)
  /\ saw_unknown => loop.client \in GivesUp
IInv == loop \in Programs /\ (WhileLoop(loop) => PathsInv) /\ StageInv

(***************************************************************************)
(* Where an iteration goes                                                 *)
(***************************************************************************)
\* Instructions that are not its turn leave the progress as it is.
LEMMA Unmoved ==
  ASSUME NEW l, LoopOK(l), NEW x \in Pairs(l),
         NEW k \in 0..Size(l), NEW j \in 0..Size(l), k <= j,
         Course(l, x)[k].end # "going" \/ \A i \in (k + 1)..j : Course(l, x)[k].pc # i
  PROVE  Course(l, x)[j] = Course(l, x)[k]
<1> DEFINE c == Course(l, x)
           S == {m \in 0..(j - k) : c[k + m] = c[k]}
<1>1. Size(l) \in Nat /\ j \in Nat /\ k \in Nat
  <2>1. Size(l) \in Nat
    BY LoopNodes
  <2> QED
    BY <2>1
<1>2. \A i \in 1..Size(l) : c[i] = Turn(l, x, c[i - 1], i)
  BY CourseIs
<1> HIDE DEF c
<1>3. 0 \in S
  BY <1>1
<1>4. ASSUME NEW m \in 0..(j - k - 1), m \in S
      PROVE  m + 1 \in S
  <2>1. k + m + 1 \in 1..Size(l) /\ k + m + 1 \in (k + 1)..j /\ (k + m + 1) - 1 = k + m
        /\ m + 1 \in 0..(j - k) /\ k + (m + 1) = k + m + 1
    BY <1>1
  <2>2. c[k + m] = c[k]
    BY <1>4
  <2>3. c[k + m + 1] = Turn(l, x, c[k], k + m + 1)
    BY <1>2, <2>1, <2>2
  <2>4. c[k].pc # k + m + 1 \/ c[k].end # "going"
    BY <2>1 DEF c
  <2> QED
    BY <2>1, <2>3, <2>4 DEF Turn
<1>5. j - k \in Nat
  BY <1>1
<1>6. 0..(j - k) \subseteq S
  <2> HIDE DEF S
  <2> QED
    BY <1>3, <1>4, <1>5, InductionUpTo
<1>7. j - k \in 0..(j - k) /\ k + (j - k) = j
  BY <1>1
<1> QED
  BY <1>6, <1>7 DEF c

\* The instruction that an iteration stands at either ends it or has it go on to a later one.
LEMMA NextStands ==
  ASSUME NEW l, LoopOK(l), NEW x \in Pairs(l), NEW k \in 1..Size(l),
         NEW u, Stands(l, x, k, u)
  PROVE  LET e == Executed(l.node[k], x, Course(l, x)[k - 1])
         IN  /\ e.end # "going" => End(l, x) = e
             /\ e.end = "going" => e.pc \in 1..Size(l) /\ Stands(l, x, e.pc, e.next)
<1> DEFINE c == Course(l, x)
           n == Size(l)
           e == Executed(l.node[k], x, c[k - 1])
<1>1. n \in Nat /\ k \in 0..n /\ k - 1 \in 0..n
  BY LoopNodes
<1>2. c[k] = e
  BY CourseIs DEF Stands, Turn
<1>3. ASSUME e.end # "going"
      PROVE  End(l, x) = e
  <2>1. c[n] = c[k]
    <3>1. n \in 0..n /\ k <= n
      BY <1>1
    <3> QED
      BY <1>1, <1>2, <1>3, <3>1, Unmoved
  <2> QED
    BY <1>2, <2>1 DEF End
<1>4. ASSUME e.end = "going"
      PROVE  e.pc \in 1..n /\ Stands(l, x, e.pc, e.next)
  <2> DEFINE m == l.node[k]
             to == IF m.op = "branch" /\ x \notin m.on THEN m.other ELSE m.to
  <2>1. e.pc = to /\ to # 0 /\ to # 1
    BY <1>4 DEF Executed, Exit
  <2>2. to \in 0..n /\ (to > k \/ to \in {0, 1})
    BY LoopNodes
  <2>3. to \in 1..n /\ to > k /\ to - 1 \in 0..n /\ k <= to - 1
    BY <1>1, <2>1, <2>2
  <2> HIDE DEF to, e
  <2>4. \A i \in (k + 1)..(to - 1) : c[k].pc # i
    BY <1>1, <1>2, <2>1, <2>3
  <2>5. c[to - 1] = c[k]
    BY <1>1, <2>3, <2>4, Unmoved
  <2> QED
    BY <1>2, <1>4, <2>1, <2>3, <2>5 DEF Stands
<1> QED
  BY <1>3, <1>4

\* At the first instruction.
LEMMA FirstStands ==
  ASSUME NEW l, LoopOK(l), NEW x \in Pairs(l)
  PROVE  Stands(l, x, 1, x[1])
<1>1. Course(l, x)[0] = Began(x) /\ 1 - 1 = 0
  BY CourseIs
<1> QED
  BY <1>1 DEF Stands, Began

(***************************************************************************)
(* One step                                                                *)
(***************************************************************************)
LEMMA LatchJumps ==
  ASSUME NEW l, LoopOK(l), WhileLoop(l), NEW i \in 1..Size(l)
  PROVE  LET n == l.node[i]
         IN  /\ n.block = l.latch /\ Terminator(n) => n.op = "jump" /\ n.to = 1
             /\ n.to = 1 \/ n.other = 1 => n.block = l.latch /\ n.op = "jump"
BY LoopNodes DEF WhileLoop

LEMMA SoundIs ==
  ASSUME NEW l, NEW s
  PROVE  s \in Sound(l) <=> s \in PathState(l) /\ StateOK(l, s)
BY DEF Sound

\* A state behind an instruction is right if its pairs are those for which the
\* instruction goes there and does not stop the iteration.
LEMMA SuccessorSound ==
  ASSUME NEW l, LoopOK(l), WhileLoop(l),
         NEW s \in Sound(l), s.pc # 0, ~Ended(l, s),
         NEW t \in PathState(l),
         t.path_condition \subseteq s.path_condition,
         t.path_condition \subseteq t.path_condition_in_loop,
         t.prev_pc = s.pc, t.pc \in {l.node[s.pc].to, l.node[s.pc].other},
         l.node[s.pc].op = "branch" \/ t.pc = l.node[s.pc].to,
         \A x \in t.path_condition :
           LET e == Executed(l.node[s.pc], x, Course(l, x)[s.pc - 1])
           IN  e.pc = t.pc /\ e.end # "blocked"
               /\ (Stands(l, x, s.pc, s.update[x]) => e.next = t.update[x])
  PROVE  t \in Sound(l)
<1> DEFINE n == l.node[s.pc]
<1>1. s.pc \in 1..Size(l) /\ s.path_condition \subseteq Pairs(l) /\ StateOK(l, s)
  <2>1. s.pc \in 0..Size(l) /\ s.path_condition \subseteq Pairs(l) /\ StateOK(l, s)
    BY SoundIs DEF PathState
  <2>2. Size(l) \in Nat
    BY LoopNodes
  <2> QED
    BY <2>1, <2>2
<1>2. ASSUME t.pc # 0, l.node[t.pc].block = l.node[1].block
      PROVE  n.block # l.latch
  <2> SUFFICES ASSUME n.block = l.latch
               PROVE  FALSE
    OBVIOUS
  <2>1. ~Terminator(n) /\ n.op # "branch"
    BY DEF Ended, Terminator
  <2>2. t.pc = n.to /\ l.node[n.to].block = n.block
    BY <1>1, <2>1, LoopNodes
  <2> QED
    BY <1>2, <2>2 DEF WhileLoop
<1>3. ASSUME NEW x \in t.path_condition, End(l, x).end # "failed"
      PROVE  IF t.pc = 0 THEN End(l, x).end = "left" ELSE Stands(l, x, t.pc, t.update[x])
  <2> DEFINE e == Executed(n, x, Course(l, x)[s.pc - 1])
  <2>1. x \in Pairs(l) /\ Stands(l, x, s.pc, s.update[x])
    BY <1>1, <1>3 DEF StateOK
  <2>2. e.pc = t.pc /\ e.end # "blocked" /\ e.next = t.update[x]
    BY <2>1
  <2>3. /\ e.end # "going" => End(l, x) = e
        /\ e.end = "going" => e.pc \in 1..Size(l) /\ Stands(l, x, e.pc, e.next)
    BY <1>1, <2>1, NextStands
  <2>4. \/ e.end \in {"failed", "blocked"}
        \/ e.end = IF e.pc = 0 THEN "left" ELSE IF e.pc = 1 THEN "again" ELSE "going"
    BY DEF Executed, Exit
  <2>5. e.pc # 1
    <3>1. n.to # 1 /\ n.other # 1
      BY SMTT(90), <1>1, LatchJumps DEF Ended, Terminator
    <3> QED
      BY <2>2, <3>1
  <2>6. e.end # "failed"
    BY <1>3, <2>3
  <2> HIDE DEF e
  <2>7. CASE t.pc = 0
    BY <2>2, <2>3, <2>4, <2>6, <2>7
  <2>8. CASE t.pc # 0
    <3>1. e.end = "going"
      BY <2>2, <2>4, <2>5, <2>6, <2>8
    <3> QED
      BY <2>2, <2>3, <2>8, <3>1
  <2> QED
    BY <2>7, <2>8
<1>4. StateOK(l, t)
  BY <1>2, <1>3 DEF StateOK
<1> QED
  BY <1>4, SoundIs

\* What a step leaves behind a state: paths that share what it holds.
Shares(more, s) ==
  /\ \A j \in 1..Len(more) : Narrower(more[j], s)
  /\ \A i, j \in 1..Len(more) : i # j => Apart(more[i], more[j])
Keeps(l, more, s) ==
  \A x \in s.path_condition :
    Completes(l, x) => \E j \in 1..Len(more) : x \in more[j].path_condition

LEMMA OneShares ==
  ASSUME NEW S, NEW t \in S, NEW s, Narrower(t, s)
  PROVE  <<t>> \in Seq(S) /\ Shares(<<t>>, s) /\ Len(<<t>>) = 1 /\ (<<t>>)[1] = t
BY DEF Shares

LEMMA TwoShare ==
  ASSUME NEW S, NEW a \in S, NEW b \in S, NEW s, Narrower(a, s), Narrower(b, s), Apart(a, b)
  PROVE  /\ <<a, b>> \in Seq(S) /\ Shares(<<a, b>>, s)
         /\ Len(<<a, b>>) = 2 /\ (<<a, b>>)[1] = a /\ (<<a, b>>)[2] = b
<1>1. Apart(b, a)
  BY DEF Apart
<1>2. <<a, b>> \in Seq(S) /\ Len(<<a, b>>) = 2 /\ (<<a, b>>)[1] = a /\ (<<a, b>>)[2] = b
  OBVIOUS
<1> DEFINE r == <<a, b>>
<1> HIDE DEF r
<1>3. \A j \in 1..2 : r[j] = a \/ r[j] = b
  BY <1>2 DEF r
<1>4. \A j \in 1..2 : Narrower(r[j], s)
  BY <1>3
<1>5. \A i, j \in 1..2 : i # j => (i = 1 /\ j = 2) \/ (i = 2 /\ j = 1)
  OBVIOUS
<1>6. \A i, j \in 1..2 : i # j => Apart(r[i], r[j])
  BY <1>1, <1>2, <1>5 DEF r
<1> QED
  BY <1>2, <1>4, <1>6 DEF Shares, r

LEMMA MovedIs ==
  ASSUME NEW s \in PathState(loop), NEW to \in 0..Size(loop)
  PROVE  LET t == Moved(s, to)
         IN  /\ t \in PathState(loop)
             /\ t.pc = to /\ t.prev_pc = s.pc /\ t.update = s.update
             /\ t.path_condition = s.path_condition
             /\ t.path_condition_in_loop = s.path_condition_in_loop
BY DEF Moved, PathState

LEMMA TakenIs ==
  ASSUME NEW s \in PathState(loop), NEW to \in 0..Size(loop), NEW on \in SUBSET Pairs(loop)
  PROVE  LET t == Taken(s, to, on)
         IN  /\ t \in PathState(loop)
             /\ t.pc = to /\ t.prev_pc = s.pc /\ t.update = s.update
             /\ t.path_condition = s.path_condition \cap on
             /\ Exit \in {Node(s).to, Node(s).other} =>
                  t.path_condition_in_loop = s.path_condition_in_loop
             /\ Exit \notin {Node(s).to, Node(s).other} =>
                  t.path_condition_in_loop = s.path_condition_in_loop \cap on
<1> DEFINE m == Moved(s, to)
           inside == IF Exit \in {Node(s).to, Node(s).other} THEN s.path_condition_in_loop
                     ELSE s.path_condition_in_loop \cap on
           t == [m EXCEPT !.path_condition = s.path_condition \cap on,
                          !.path_condition_in_loop = inside, !.status = "TESTING"]
<1>1. /\ m \in PathState(loop)
      /\ m.pc = to /\ m.prev_pc = s.pc /\ m.update = s.update
      /\ m.path_condition = s.path_condition
      /\ m.path_condition_in_loop = s.path_condition_in_loop
  BY MovedIs
<1> HIDE DEF m
<1>2. Taken(s, to, on) = t
  BY <1>1 DEF Taken, m, PathState
<1>3. s.path_condition \in SUBSET Pairs(loop) /\ inside \in SUBSET Pairs(loop)
  BY DEF PathState
<1> HIDE DEF inside
<1>4. /\ t \in PathState(loop) /\ t.pc = m.pc /\ t.prev_pc = m.prev_pc /\ t.update = m.update
      /\ t.path_condition = s.path_condition \cap on /\ t.path_condition_in_loop = inside
  BY <1>1, <1>3 DEF PathState
<1> HIDE DEF t
<1> QED
  BY <1>1, <1>2, <1>4 DEF inside

LEMMA ExecutedIs ==
  ASSUME NEW n, NEW x, NEW before
  PROVE  LET e == Executed(n, x, before)
         IN  /\ e.pc = IF n.op = "branch" /\ x \notin n.on THEN n.other ELSE n.to
             /\ e.next = IF n.op = "set" THEN n.update[x] ELSE before.next
             /\ e.end = "blocked" <=> n.op = "assume" /\ x \notin n.on
BY DEF Executed

LEMMA SoundFields ==
  ASSUME NEW l, LoopOK(l), NEW s \in Sound(l)
  PROVE  /\ s \in PathState(l) /\ s.pc \in 0..Size(l)
         /\ s.path_condition \subseteq Pairs(l)
         /\ s.path_condition \subseteq s.path_condition_in_loop
         /\ s.path_condition_in_loop \subseteq Pairs(l)
         /\ s.update \in [Pairs(l) -> l.value]
         /\ s.pc # 0 => s.pc \in 1..Size(l)
<1>1. s \in PathState(l) /\ StateOK(l, s)
  BY SoundIs
<1>2. s.pc \in 0..Size(l) /\ Size(l) \in Nat
  BY <1>1, LoopNodes DEF PathState
<1> QED
  BY <1>1, <1>2 DEF PathState, StateOK

LEMMA OneSuccessor ==
  ASSUME LoopOK(loop), WhileLoop(loop),
         NEW s \in Sound(loop), s.pc # 0, ~Ended(loop, s), Node(s).op # "branch",
         NEW t \in PathState(loop), step(s) = <<t>>,
         t.pc = Node(s).to, t.prev_pc = s.pc,
         t.path_condition_in_loop = s.path_condition_in_loop,
         t.path_condition = IF Node(s).op = "assume" THEN s.path_condition \cap Node(s).on
                            ELSE s.path_condition,
         t.update = IF Node(s).op = "set" THEN Node(s).update ELSE s.update
  PROVE  step(s) \in Seq(Sound(loop)) /\ Shares(step(s), s) /\ Keeps(loop, step(s), s)
<1> DEFINE n == loop.node[s.pc]
<1>1. n = Node(s)
  BY DEF Node
<1>2. s.pc \in 1..Size(loop) /\ s.path_condition \subseteq Pairs(loop)
      /\ s.path_condition \subseteq s.path_condition_in_loop
  BY SoundFields
<1>3. \A x \in t.path_condition :
        LET e == Executed(n, x, Course(loop, x)[s.pc - 1])
        IN  e.pc = t.pc /\ e.end # "blocked"
            /\ (Stands(loop, x, s.pc, s.update[x]) => e.next = t.update[x])
  <2> SUFFICES ASSUME NEW x \in t.path_condition
               PROVE  LET e == Executed(n, x, Course(loop, x)[s.pc - 1])
                      IN  e.pc = t.pc /\ e.end # "blocked"
                          /\ (Stands(loop, x, s.pc, s.update[x]) => e.next = t.update[x])
    OBVIOUS
  <2> DEFINE before == Course(loop, x)[s.pc - 1]
             e == Executed(n, x, before)
  <2>1. /\ e.pc = IF n.op = "branch" /\ x \notin n.on THEN n.other ELSE n.to
        /\ e.next = IF n.op = "set" THEN n.update[x] ELSE before.next
        /\ e.end = "blocked" <=> n.op = "assume" /\ x \notin n.on
    BY ExecutedIs
  <2>2. Stands(loop, x, s.pc, s.update[x]) => before.next = s.update[x]
    BY DEF Stands
  <2> HIDE DEF n, e, before
  <2>3. e.pc = t.pc
    BY <1>1, <2>1
  <2>4. e.end # "blocked"
    BY <1>1, <2>1
  <2>5. Stands(loop, x, s.pc, s.update[x]) => e.next = t.update[x]
    BY <1>1, <2>1, <2>2
  <2> QED
    BY <2>3, <2>4, <2>5 DEF e, before
<1>4. t \in Sound(loop)
  <2>1. t.path_condition \subseteq s.path_condition
    OBVIOUS
  <2>2. t.path_condition \subseteq t.path_condition_in_loop
    BY <1>2
  <2>3. t.pc \in {n.to, n.other} /\ (n.op = "branch" \/ t.pc = n.to)
    BY <1>1
  <2> QED
    BY <1>3, <2>1, <2>2, <2>3, SuccessorSound
<1>5. Narrower(t, s)
  BY DEF Narrower, Within
<1>6. step(s) \in Seq(Sound(loop)) /\ Shares(step(s), s) /\ Len(step(s)) = 1 /\ step(s)[1] = t
  BY <1>4, <1>5, OneShares
<1>7. ASSUME NEW x \in s.path_condition, Completes(loop, x)
      PROVE  x \in t.path_condition
  <2> SUFFICES ASSUME n.op = "assume", x \notin n.on
               PROVE  FALSE
    BY <1>1
  <2> DEFINE e == Executed(n, x, Course(loop, x)[s.pc - 1])
  <2>1. e.end = "blocked"
    BY ExecutedIs
  <2>2. End(loop, x).end # "failed"
    BY <1>7 DEF Completes
  <2>3. Stands(loop, x, s.pc, s.update[x])
    BY <2>2, SoundIs DEF StateOK
  <2>4. End(loop, x) = e
    BY <1>2, <2>1, <2>3, NextStands
  <2> QED
    BY <1>7, <2>1, <2>4 DEF Completes
<1>8. 1 \in 1..Len(step(s))
  BY <1>6
<1> QED
  BY <1>6, <1>7, <1>8 DEF Keeps

LEMMA BranchSound ==
  ASSUME LoopOK(loop), WhileLoop(loop),
         NEW s \in Sound(loop), s.pc # 0, ~Ended(loop, s), Node(s).op = "branch"
  PROVE  step(s) \in Seq(Sound(loop)) /\ Shares(step(s), s) /\ Keeps(loop, step(s), s)
<1> DEFINE n == loop.node[s.pc]
           a == Taken(s, n.to, n.on)
           b == Taken(s, n.other, Pairs(loop) \ n.on)
<1>1. n = Node(s)
  BY DEF Node
<1>2. /\ s \in PathState(loop) /\ s.pc \in 1..Size(loop)
      /\ s.path_condition \subseteq Pairs(loop)
      /\ s.path_condition \subseteq s.path_condition_in_loop
      /\ s.path_condition_in_loop \subseteq Pairs(loop)
  BY SoundFields
<1>3. /\ n.to \in 0..Size(loop) /\ n.other \in 0..Size(loop) /\ n.on \in SUBSET Pairs(loop)
      /\ Pairs(loop) \ n.on \in SUBSET Pairs(loop)
  BY <1>2, LoopNodes
<1>4. step(s) = <<a, b>>
  BY <1>1 DEF step, Pair, Pairs
<1>5. /\ a \in PathState(loop)
      /\ a.pc = n.to /\ a.prev_pc = s.pc /\ a.update = s.update
      /\ a.path_condition = s.path_condition \cap n.on
      /\ Exit \in {n.to, n.other} => a.path_condition_in_loop = s.path_condition_in_loop
      /\ Exit \notin {n.to, n.other} =>
           a.path_condition_in_loop = s.path_condition_in_loop \cap n.on
  <2> DEFINE on == n.on
             to == n.to
  <2> HIDE DEF on, to, n
  <2>1. on \in SUBSET Pairs(loop) /\ to \in 0..Size(loop)
    BY <1>3 DEF on, to
  <2>2. LET t == Taken(s, to, on)
        IN  /\ t \in PathState(loop)
            /\ t.pc = to /\ t.prev_pc = s.pc /\ t.update = s.update
            /\ t.path_condition = s.path_condition \cap on
            /\ Exit \in {Node(s).to, Node(s).other} =>
                 t.path_condition_in_loop = s.path_condition_in_loop
            /\ Exit \notin {Node(s).to, Node(s).other} =>
                 t.path_condition_in_loop = s.path_condition_in_loop \cap on
    BY <1>2, <2>1, TakenIs
  <2> QED
    BY <1>1, <2>2 DEF on, to
<1>6. /\ b \in PathState(loop)
      /\ b.pc = n.other /\ b.prev_pc = s.pc /\ b.update = s.update
      /\ b.path_condition = s.path_condition \cap (Pairs(loop) \ n.on)
      /\ Exit \in {n.to, n.other} => b.path_condition_in_loop = s.path_condition_in_loop
      /\ Exit \notin {n.to, n.other} =>
           b.path_condition_in_loop = s.path_condition_in_loop \cap (Pairs(loop) \ n.on)
  <2> DEFINE on == Pairs(loop) \ n.on
             to == n.other
  <2> HIDE DEF on, to, n
  <2>1. on \in SUBSET Pairs(loop) /\ to \in 0..Size(loop)
    BY <1>3 DEF on, to
  <2>2. LET t == Taken(s, to, on)
        IN  /\ t \in PathState(loop)
            /\ t.pc = to /\ t.prev_pc = s.pc /\ t.update = s.update
            /\ t.path_condition = s.path_condition \cap on
            /\ Exit \in {Node(s).to, Node(s).other} =>
                 t.path_condition_in_loop = s.path_condition_in_loop
            /\ Exit \notin {Node(s).to, Node(s).other} =>
                 t.path_condition_in_loop = s.path_condition_in_loop \cap on
    BY <1>2, <2>1, TakenIs
  <2> QED
    BY <1>1, <2>2 DEF on, to
<1>7. ASSUME NEW x
      PROVE  LET e == Executed(n, x, Course(loop, x)[s.pc - 1])
             IN  /\ e.pc = (IF x \in n.on THEN n.to ELSE n.other) /\ e.end # "blocked"
                 /\ Stands(loop, x, s.pc, s.update[x]) => e.next = s.update[x]
  <2> DEFINE before == Course(loop, x)[s.pc - 1]
             e == Executed(n, x, before)
  <2>1. /\ e.pc = IF n.op = "branch" /\ x \notin n.on THEN n.other ELSE n.to
        /\ e.next = IF n.op = "set" THEN n.update[x] ELSE before.next
        /\ e.end = "blocked" <=> n.op = "assume" /\ x \notin n.on
    BY ExecutedIs
  <2>2. Stands(loop, x, s.pc, s.update[x]) => before.next = s.update[x]
    BY DEF Stands
  <2> HIDE DEF n, e, before
  <2> QED
    BY <1>1, <2>1, <2>2 DEF e, before
<1> HIDE DEF a, b, n
<1>8. a \in Sound(loop)
  <2>1. \A x \in a.path_condition : x \in n.on
    BY <1>5
  <2>2. a.path_condition \subseteq s.path_condition
        /\ a.path_condition \subseteq a.path_condition_in_loop
    BY <1>2, <1>5
  <2> QED
    BY <1>1, <1>5, <1>7, <2>1, <2>2, SuccessorSound DEF n
<1>9. b \in Sound(loop)
  <2>1. \A x \in b.path_condition : x \notin n.on
    BY <1>6
  <2>2. b.path_condition \subseteq s.path_condition
        /\ b.path_condition \subseteq b.path_condition_in_loop
    BY <1>2, <1>6
  <2> QED
    BY <1>1, <1>6, <1>7, <2>1, <2>2, SuccessorSound DEF n
<1>10. Narrower(a, s)
  BY <1>5 DEF Narrower, Within
<1>11. Narrower(b, s)
  BY <1>6 DEF Narrower, Within
<1>12. Apart(a, b)
  <2>1. a.path_condition \cap b.path_condition = {}
    BY <1>5, <1>6
  <2>2. CASE a.pc = 0 \/ b.pc = 0
    BY <2>1, <2>2 DEF Apart, Within
  <2>3. CASE a.pc # 0 /\ b.pc # 0
    <3>1. Exit \notin {n.to, n.other}
      BY <1>5, <1>6, <2>3 DEF Exit
    <3> QED
      BY <1>5, <1>6, <2>1, <2>3, <3>1 DEF Apart, Within
  <2> QED
    BY <2>2, <2>3
<1>13. /\ step(s) \in Seq(Sound(loop)) /\ Shares(step(s), s)
       /\ Len(step(s)) = 2 /\ step(s)[1] = a /\ step(s)[2] = b
  BY <1>4, <1>8, <1>9, <1>10, <1>11, <1>12, TwoShare
<1>14. \A x \in s.path_condition : x \in a.path_condition \/ x \in b.path_condition
  BY <1>2, <1>5, <1>6
<1>15. 1 \in 1..Len(step(s)) /\ 2 \in 1..Len(step(s))
  BY <1>13
<1> QED
  BY <1>13, <1>14, <1>15 DEF Keeps

LEMMA StepSound ==
  ASSUME LoopOK(loop), WhileLoop(loop), NEW s \in Sound(loop), s.pc # 0, ~Ended(loop, s)
  PROVE  step(s) \in Seq(Sound(loop)) /\ Shares(step(s), s) /\ Keeps(loop, step(s), s)
<1> DEFINE n == loop.node[s.pc]
           next == Moved(s, n.to)
<1>1. n = Node(s)
  BY DEF Node
<1>2. s \in PathState(loop) /\ s.pc \in 1..Size(loop) /\ s.path_condition \subseteq Pairs(loop)
  BY SoundFields
<1>3. /\ n.op \in {"set", "call", "branch", "jump", "assume", "assert"}
      /\ n.to \in 0..Size(loop) /\ n.on \subseteq Pairs(loop)
      /\ n.update \in [Pairs(loop) -> loop.value]
  BY <1>2, LoopNodes
<1>4. /\ next \in PathState(loop)
      /\ next.pc = n.to /\ next.prev_pc = s.pc /\ next.update = s.update
      /\ next.path_condition = s.path_condition
      /\ next.path_condition_in_loop = s.path_condition_in_loop
  BY <1>2, <1>3, MovedIs
<1>5. /\ n.op = "call" => step(s) = <<[next EXCEPT !.counted = TRUE]>>
      /\ n.op = "set" => step(s) = <<[next EXCEPT !.update = n.update]>>
      /\ n.op = "assume" => step(s) = <<[next EXCEPT !.path_condition = @ \cap n.on,
                                                     !.status = "TESTING"]>>
      /\ n.op \in {"jump", "assert"} => step(s) = <<next>>
  BY <1>1 DEF step
<1> HIDE DEF n, next
<1>6. CASE n.op = "branch"
  BY <1>1, <1>6, BranchSound
<1>7. CASE n.op = "call"
  <2> DEFINE t == [next EXCEPT !.counted = TRUE]
  <2>1. /\ t \in PathState(loop) /\ t.pc = next.pc /\ t.prev_pc = next.prev_pc
        /\ t.update = next.update /\ t.path_condition = next.path_condition
        /\ t.path_condition_in_loop = next.path_condition_in_loop
    BY <1>4 DEF PathState
  <2>2. step(s) = <<t>>
    BY <1>5, <1>7
  <2> HIDE DEF t
  <2> QED
    BY <1>1, <1>4, <1>7, <2>1, <2>2, OneSuccessor
<1>8. CASE n.op = "set"
  <2> DEFINE t == [next EXCEPT !.update = n.update]
  <2>1. /\ t \in PathState(loop) /\ t.pc = next.pc /\ t.prev_pc = next.prev_pc
        /\ t.update = n.update /\ t.path_condition = next.path_condition
        /\ t.path_condition_in_loop = next.path_condition_in_loop
    BY <1>3, <1>4 DEF PathState
  <2>2. step(s) = <<t>>
    BY <1>5, <1>8
  <2> HIDE DEF t
  <2> QED
    BY <1>1, <1>4, <1>8, <2>1, <2>2, OneSuccessor
<1>9. CASE n.op = "assume"
  <2> DEFINE t == [next EXCEPT !.path_condition = @ \cap n.on, !.status = "TESTING"]
  <2>1. /\ t \in PathState(loop) /\ t.pc = next.pc /\ t.prev_pc = next.prev_pc
        /\ t.update = next.update /\ t.path_condition = next.path_condition \cap n.on
        /\ t.path_condition_in_loop = next.path_condition_in_loop
    BY <1>3, <1>4 DEF PathState
  <2>2. step(s) = <<t>>
    BY <1>5, <1>9
  <2> HIDE DEF t
  <2> QED
    BY <1>1, <1>4, <1>9, <2>1, <2>2, OneSuccessor
<1>10. CASE n.op \in {"jump", "assert"}
  BY <1>1, <1>4, <1>5, <1>10, OneSuccessor
<1> QED
  BY <1>3, <1>6, <1>7, <1>8, <1>9, <1>10

(***************************************************************************)
(* The queue                                                               *)
(***************************************************************************)
LEMMA NarrowerApart ==
  ASSUME NEW s, NEW t, NEW u, Narrower(t, s), Apart(s, u) \/ Apart(u, s)
  PROVE  Apart(t, u) /\ Apart(u, t)
BY DEF Narrower, Apart

LEMMA ReplaceHead ==
  ASSUME NEW S, NEW st \in Seq(S), st # <<>>, NEW more \in Seq(S), NEW kept,
         AllApart(st, kept), Shares(more, st[1])
  PROVE  AllApart(Tail(st) \o more, kept)
<1> DEFINE r == Tail(st) \o more
           n == Len(st) - 1
<1>1. Len(st) \in Nat /\ 1 \in 1..Len(st) /\ Len(more) \in Nat /\ Len(r) \in Nat
  BY QueueContinued
<1>2. \A k \in 1..Len(r) :
        \/ k \in 1..n /\ k + 1 \in 1..Len(st) /\ k + 1 # 1 /\ r[k] = st[k + 1]
        \/ k - n \in 1..Len(more) /\ k >= Len(st) /\ r[k] = more[k - n]
  BY QueuePlaces
<1> HIDE DEF r
<1>3. ASSUME NEW i \in 1..Len(r), NEW j \in 1..Len(r), i # j
      PROVE  Apart(r[i], r[j])
  <2>1. CASE i \in 1..n /\ i + 1 \in 1..Len(st) /\ i + 1 # 1 /\ r[i] = st[i + 1]
    <3>1. CASE j \in 1..n /\ j + 1 \in 1..Len(st) /\ j + 1 # 1 /\ r[j] = st[j + 1]
      <4>1. i + 1 # j + 1
        BY <1>3
      <4> QED
        BY <2>1, <3>1, <4>1 DEF AllApart
    <3>2. CASE j - n \in 1..Len(more) /\ j >= Len(st) /\ r[j] = more[j - n]
      <4>1. Narrower(more[j - n], st[1]) /\ Apart(st[1], st[i + 1])
        BY <1>1, <2>1, <3>2 DEF AllApart, Shares
      <4> QED
        BY <2>1, <3>2, <4>1, NarrowerApart
    <3> QED
      BY <1>2, <3>1, <3>2
  <2>2. CASE i - n \in 1..Len(more) /\ i >= Len(st) /\ r[i] = more[i - n]
    <3>1. CASE j \in 1..n /\ j + 1 \in 1..Len(st) /\ j + 1 # 1 /\ r[j] = st[j + 1]
      <4>1. Narrower(more[i - n], st[1]) /\ Apart(st[1], st[j + 1])
        BY <1>1, <2>2, <3>1 DEF AllApart, Shares
      <4> QED
        BY <2>2, <3>1, <4>1, NarrowerApart
    <3>2. CASE j - n \in 1..Len(more) /\ j >= Len(st) /\ r[j] = more[j - n]
      <4>1. i - n # j - n
        BY <1>1, <1>3
      <4> QED
        BY <2>2, <3>2, <4>1 DEF Shares
    <3> QED
      BY <1>2, <3>1, <3>2
  <2> QED
    BY <1>2, <2>1, <2>2
<1>4. ASSUME NEW i \in 1..Len(r), NEW t \in kept
      PROVE  Apart(r[i], t)
  <2>1. CASE i \in 1..n /\ i + 1 \in 1..Len(st) /\ i + 1 # 1 /\ r[i] = st[i + 1]
    BY <2>1 DEF AllApart
  <2>2. CASE i - n \in 1..Len(more) /\ i >= Len(st) /\ r[i] = more[i - n]
    <3>1. Narrower(more[i - n], st[1]) /\ Apart(st[1], t)
      BY <1>1, <2>2 DEF AllApart, Shares
    <3> QED
      BY <2>2, <3>1, NarrowerApart
  <2> QED
    BY <1>2, <2>1, <2>2
<1>5. \A s, t \in kept : s # t => Apart(s, t)
  BY DEF AllApart
<1> QED
  BY <1>3, <1>4, <1>5 DEF AllApart, r

LEMMA SetAside ==
  ASSUME NEW S, NEW st \in Seq(S), st # <<>>, NEW kept, AllApart(st, kept)
  PROVE  AllApart(Tail(st) \o <<>>, kept \cup {st[1]})
<1> DEFINE r == Tail(st) \o <<>>
           n == Len(st) - 1
<1>0. <<>> \in Seq(S) /\ Len(<<>>) = 0
  OBVIOUS
<1>1. Len(st) \in Nat /\ 1 \in 1..Len(st) /\ Len(r) = n
  BY <1>0, QueueContinued
<1>2. \A k \in 1..n : k + 1 \in 1..Len(st) /\ k + 1 # 1 /\ r[k] = st[k + 1]
  BY <1>0, <1>1, QueueContinued
<1> HIDE DEF r
<1>3. ASSUME NEW i \in 1..n, NEW j \in 1..n, i # j
      PROVE  Apart(r[i], r[j])
  <2>1. i + 1 # j + 1
    BY <1>3
  <2> QED
    BY <1>2, <2>1 DEF AllApart
<1>4. ASSUME NEW i \in 1..n, NEW t \in kept \cup {st[1]}
      PROVE  Apart(r[i], t)
  BY <1>1, <1>2 DEF AllApart
<1>5. ASSUME NEW t \in kept
      PROVE  Apart(st[1], t) /\ Apart(t, st[1])
  BY <1>1 DEF AllApart, Apart
<1>6. \A s, t \in kept : s # t => Apart(s, t)
  BY DEF AllApart
<1>7. \A s, t \in kept \cup {st[1]} : s # t => Apart(s, t)
  BY <1>5, <1>6
<1> QED
  BY <1>1, <1>3, <1>4, <1>7 DEF AllApart, r

\* A pair stays on some path unless it was only on the front and is not taken over.
LEMMA StillCarried ==
  ASSUME NEW S, NEW st \in Seq(S), st # <<>>, NEW more \in Seq(S), NEW kept, NEW also,
         NEW x, Carried(x, st, kept),
         x \in st[1].path_condition =>
           \/ \E j \in 1..Len(more) : x \in more[j].path_condition
           \/ \E s \in also : x \in s.path_condition
  PROVE  Carried(x, Tail(st) \o more, kept \cup also)
<1> DEFINE r == Tail(st) \o more
           n == Len(st) - 1
<1>1. /\ Len(r) = n + Len(more) /\ Len(st) \in Nat /\ Len(st) >= 1 /\ Len(more) \in Nat
      /\ \A k \in 1..n : r[k] = st[k + 1]
      /\ \A k \in 1..Len(more) : r[n + k] = more[k]
  BY QueueContinued
<1> HIDE DEF r
<1>2. CASE \E s \in kept : x \in s.path_condition
  BY <1>2 DEF Carried
<1>3. ASSUME NEW i \in 1..Len(st), i # 1, x \in st[i].path_condition
      PROVE  \E k \in 1..Len(r) : x \in r[k].path_condition
  <2>1. i - 1 \in 1..n /\ i - 1 \in 1..Len(r) /\ (i - 1) + 1 = i
    BY <1>1, <1>3
  <2>2. r[i - 1] = st[i]
    BY <1>1, <2>1
  <2> QED
    BY <1>3, <2>1, <2>2
<1>4. ASSUME NEW j \in 1..Len(more), x \in more[j].path_condition
      PROVE  \E k \in 1..Len(r) : x \in r[k].path_condition
  <2>1. n + j \in 1..Len(r)
    BY <1>1
  <2> QED
    BY <1>1, <1>4, <2>1
<1> QED
  BY <1>2, <1>3, <1>4 DEF Carried, r

(***************************************************************************)
(* The invariant holds                                                     *)
(***************************************************************************)
LEMMA FrontSound ==
  ASSUME PathsInv, states # <<>>
  PROVE  cur_state \in Sound(loop) /\ cur_state = states[1]
BY DEF PathsInv, cur_state

\* The front gives way to paths that share what it holds.
LEMMA ReplacedInv ==
  ASSUME PathsInv, states # <<>>, NEW more \in Seq(Sound(loop)), Continue(more),
         Shares(more, cur_state),
         saw_unknown' \/ (saw_unknown' = saw_unknown /\ Keeps(loop, more, cur_state)),
         UNCHANGED <<loop, final_states, exit_states>>
  PROVE  PathsInv'
<1> DEFINE kept == final_states \cup exit_states
           r == Tail(states) \o more
           S == Sound(loop)
<1>1. states' = r /\ cur_state = states[1] /\ states \in Seq(S) /\ more \in Seq(S)
  BY DEF Continue, PathsInv, cur_state
<1>2. AllApart(states, kept)
  BY DEF PathsInv
<1> HIDE DEF kept, S
<1>3. AllApart(r, kept)
  BY <1>1, <1>2, ReplaceHead
<1>4. r \in Seq(S)
  BY <1>1, QueueContinued
<1>5. ASSUME ~saw_unknown', NEW x \in Pairs(loop), Completes(loop, x)
      PROVE  Carried(x, r, kept)
  <2>1. Carried(x, states, kept)
    BY <1>5 DEF PathsInv, kept
  <2>2. x \in states[1].path_condition => \E j \in 1..Len(more) : x \in more[j].path_condition
    BY <1>1, <1>5 DEF Keeps
  <2>3. Carried(x, r, kept \cup {})
    BY <1>1, <2>1, <2>2, StillCarried
  <2>4. kept \cup {} = kept
    OBVIOUS
  <2> QED
    BY <2>3, <2>4
<1> HIDE DEF r
<1> QED
  BY <1>1, <1>3, <1>4, <1>5 DEF PathsInv, kept, S

\* The front is set aside.
LEMMA SetAsideInv ==
  ASSUME PathsInv, states # <<>>, Continue(<<>>),
         \/ /\ Ended(loop, cur_state)
            /\ final_states' = final_states \cup {cur_state} /\ exit_states' = exit_states
         \/ /\ cur_state.pc = 0
            /\ exit_states' = exit_states \cup {cur_state} /\ final_states' = final_states,
         UNCHANGED <<loop, saw_unknown>>
  PROVE  PathsInv'
<1> DEFINE kept == final_states \cup exit_states
           r == Tail(states) \o <<>>
           S == Sound(loop)
<1>0. <<>> \in Seq(S)
  OBVIOUS
<1>1. /\ states' = r /\ cur_state = states[1] /\ cur_state \in S
      /\ states \in Seq(S) /\ <<>> \in Seq(S)
  BY <1>0, FrontSound DEF Continue, PathsInv
<1>2. AllApart(states, kept)
  BY DEF PathsInv
<1>3. (final_states \cup exit_states)' = kept \cup {cur_state}
  OBVIOUS
<1> HIDE DEF kept, S
<1>4. AllApart(r, kept \cup {cur_state})
  BY <1>1, <1>2, SetAside
<1>5. r \in Seq(S)
  BY <1>1, QueueContinued
<1>6. ASSUME ~saw_unknown, NEW x \in Pairs(loop), Completes(loop, x)
      PROVE  Carried(x, r, kept \cup {cur_state})
  <2>1. Carried(x, states, kept)
    BY <1>6 DEF PathsInv, kept
  <2>2. x \in states[1].path_condition => \E s \in {cur_state} : x \in s.path_condition
    BY <1>1
  <2> QED
    BY <1>1, <2>1, <2>2, StillCarried
<1> HIDE DEF r
<1>7. final_states' \subseteq {s \in S : Ended(loop, s)} /\ exit_states' \subseteq {s \in S : s.pc = 0}
  BY <1>1 DEF PathsInv, S
<1> QED
  BY <1>1, <1>3, <1>4, <1>5, <1>6, <1>7 DEF PathsInv, S

LEMMA NothingLeft ==
  ASSUME NEW S, NEW s
  PROVE  <<>> \in Seq(S) /\ Shares(<<>>, s)
BY DEF Shares

\* A feasibility test lets a path go on, drops an infeasible one, or says nothing.
LEMMA TestInv ==
  ASSUME PathsInv, states # <<>>, Test, UNCHANGED loop
  PROVE  PathsInv'
<1>1. cur_state \in Sound(loop) /\ cur_state \in PathState(loop) /\ StateOK(loop, cur_state)
  BY FrontSound, SoundIs
<1>2. UNCHANGED <<loop, final_states, exit_states>>
  BY DEF Test
<1>3. CASE Continue(<<[cur_state EXCEPT !.status = "RUNNING"]>>) /\ UNCHANGED saw_unknown
  <2> DEFINE t == [cur_state EXCEPT !.status = "RUNNING"]
  <2>1. /\ t \in PathState(loop) /\ t.pc = cur_state.pc /\ t.prev_pc = cur_state.prev_pc
        /\ t.update = cur_state.update /\ t.path_condition = cur_state.path_condition
        /\ t.path_condition_in_loop = cur_state.path_condition_in_loop
    BY <1>1 DEF PathState
  <2>2. Continue(<<t>>)
    BY <1>3
  <2> HIDE DEF t
  <2>3. t \in Sound(loop)
    BY <1>1, <2>1, SoundIs DEF StateOK
  <2>4. Narrower(t, cur_state)
    BY <2>1 DEF Narrower, Within
  <2>5. /\ <<t>> \in Seq(Sound(loop)) /\ Shares(<<t>>, cur_state)
        /\ Len(<<t>>) = 1 /\ (<<t>>)[1] = t
    BY <2>3, <2>4, OneShares
  <2>6. Keeps(loop, <<t>>, cur_state)
    <3>1. 1 \in 1..Len(<<t>>)
      BY <2>5
    <3> QED
      BY <2>1, <2>5, <3>1 DEF Keeps
  <2> QED
    BY <1>2, <1>3, <2>2, <2>5, <2>6, ReplacedInv
<1>4. CASE cur_state.path_condition = {} /\ Continue(<<>>) /\ UNCHANGED saw_unknown
  <2>1. Keeps(loop, <<>>, cur_state)
    BY <1>4 DEF Keeps
  <2> QED
    BY <1>2, <1>4, <2>1, NothingLeft, ReplacedInv
<1>5. CASE Continue(<<>>) /\ saw_unknown' = TRUE
  BY <1>2, <1>5, NothingLeft, ReplacedInv
<1> QED
  BY <1>3, <1>4, <1>5 DEF Test

LEMMA RunInv ==
  ASSUME LoopOK(loop), WhileLoop(loop), PathsInv, Run
  PROVE  PathsInv'
<1>1. states # <<>> /\ UNCHANGED loop
  BY DEF Run
<1>2. /\ cur_state \in Sound(loop) /\ StateOK(loop, cur_state)
      /\ cur_state.pc \in 0..Size(loop) /\ cur_state.pc # 0 => cur_state.pc \in 1..Size(loop)
  BY <1>1, FrontSound, SoundIs, SoundFields
<1>3. is_final_state(cur_state) <=> Ended(loop, cur_state)
  BY DEF is_final_state, Ended, Node, Exit
<1>4. is_exit_state(cur_state) <=> cur_state.pc = 0
  BY DEF is_exit_state, Exit
<1>5. ~back_edge_taken(cur_state)
  <2> SUFFICES ASSUME back_edge_taken(cur_state)
               PROVE  FALSE
    OBVIOUS
  <2>1. 0 \notin DOMAIN loop.node
    BY LoopNodes
  <2> QED
    BY <1>2, <2>1 DEF back_edge_taken, StateOK, Node, Header
<1>6. CASE Finish
  BY <1>1, <1>3, <1>6, SetAsideInv DEF Finish
<1>7. CASE Leave
  BY <1>1, <1>4, <1>7, SetAsideInv DEF Leave
<1>8. CASE Test
  BY <1>1, <1>8, TestInv
<1>9. CASE Step
  <2>1. /\ ~Ended(loop, cur_state) /\ cur_state.pc # 0 /\ Continue(step(cur_state))
        /\ UNCHANGED <<loop, final_states, exit_states, saw_unknown>>
    BY <1>1, <1>3, <1>4, <1>9 DEF Step, InBody
  <2>2. /\ step(cur_state) \in Seq(Sound(loop)) /\ Shares(step(cur_state), cur_state)
        /\ Keeps(loop, step(cur_state), cur_state)
    BY <1>2, <2>1, StepSound
  <2> QED
    BY <1>1, <2>1, <2>2, ReplacedInv
<1> QED
  BY <1>5, <1>6, <1>7, <1>8, <1>9 DEF Run, DropBackEdge

LEMMA InitInv ==
  ASSUME LoopOK(loop), Init
  PROVE  PathsInv
<1> DEFINE s == InitialState
           P == Pairs(loop)
<1>1. Size(loop) \in Nat /\ Size(loop) >= 1 /\ P = Pair
  BY LoopNodes DEF Pair, Pairs
<1>2. \A x \in P : x[1] \in loop.value
  BY DEF Pairs
<1>3. s = [pc |-> 1, prev_pc |-> 0, path_condition |-> P, path_condition_in_loop |-> P,
           update |-> [x \in P |-> x[1]], counted |-> FALSE, status |-> "RUNNING"]
  BY <1>1 DEF InitialState, Exit
<1> HIDE DEF s, P
<1>4. s \in PathState(loop)
  <2>1. 1 \in 0..Size(loop) /\ 0 \in 0..Size(loop)
    BY <1>1
  <2> QED
    BY <1>2, <1>3, <2>1 DEF PathState, P
<1>5. StateOK(loop, s)
  <2>1. ASSUME NEW x \in P
        PROVE  Stands(loop, x, 1, s.update[x])
    BY <1>3, FirstStands DEF P
  <2> QED
    BY <1>3, <2>1 DEF StateOK
<1>6. states = <<s>> /\ final_states = {} /\ exit_states = {}
  BY DEF Init, s
<1>7. states \in Seq(Sound(loop)) /\ Len(states) = 1 /\ states[1] = s
  BY <1>4, <1>5, <1>6, SoundIs
<1>8. AllApart(states, final_states \cup exit_states)
  BY <1>6, <1>7 DEF AllApart
<1>9. \A x \in P : Carried(x, states, final_states \cup exit_states)
  <2>1. 1 \in 1..Len(states)
    BY <1>7
  <2> QED
    BY <1>3, <1>7, <2>1 DEF Carried
<1> QED
  BY <1>6, <1>7, <1>8, <1>9 DEF PathsInv, P

\* A summary reads nothing that changes behind the run.
LEMMA SameSummary ==
  ASSUME UNCHANGED <<loop, final_states, exit_states>>, NEW approximate, NEW known
  PROVE  Summarized(approximate, known)' = Summarized(approximate, known)
BY DEF Summarized, EvidenceOf, GoesOn, Recurrence, N, Iterations, loop_guard,
       Calls, Dominates, Advances, Asks, Header

LEMMA IInvHolds ==
  Spec => []IInv
<1>1. Init => IInv
  <2> SUFFICES ASSUME Init
               PROVE  IInv
    OBVIOUS
  <2>1. loop \in Programs /\ LoopOK(loop)
    BY LoopAssumption DEF Init
  <2>2. StageInv
    BY DEF Init, StageInv
  <2> QED
    BY <2>1, <2>2, InitInv DEF IInv
<1>2. IInv /\ [Next]_vars => IInv'
  <2> SUFFICES ASSUME IInv, [Next]_vars
               PROVE  IInv'
    OBVIOUS
  <2>1. LoopOK(loop)
    BY LoopAssumption DEF IInv
  <2>2. CASE Run
    <3>1. loop' = loop /\ stage = "run" /\ stage' = stage
      BY <2>2 DEF Run
    <3>2. saw_unknown' => saw_unknown \/ loop.client \in GivesUp
      BY <2>2 DEF Run, DropBackEdge, Finish, Leave, Test, Step
    <3>3. WhileLoop(loop)' => PathsInv'
      BY <2>1, <2>2, <3>1, RunInv DEF IInv
    <3> QED
      BY <3>1, <3>2, <3>3 DEF IInv, StageInv
  <2>3. CASE Traced
    BY <2>3 DEF Traced, IInv, StageInv, PathsInv
  <2>4. CASE Summarize
    <3>1. PICK approximate \in BOOLEAN, known \in BOOLEAN :
            /\ known => loop.linear
            /\ outcome' = Summarized(approximate, known)
      BY <2>4 DEF Summarize
    <3>2. /\ UNCHANGED <<loop, states, final_states, exit_states, saw_unknown>>
          /\ stage = "traced" /\ stage' = "done" /\ loop.client = "summarizer"
      BY <2>4 DEF Summarize
    <3>3. Summarized(approximate, known)' = Summarized(approximate, known)
      BY <3>2, SameSummary
    <3> QED
      BY <3>1, <3>2, <3>3 DEF IInv, StageInv, PathsInv
  <2>5. CASE Enumerate
    BY <2>5 DEF Enumerate, IInv, StageInv, PathsInv, Transitions
  <2>6. CASE UNCHANGED vars
    <3>1. UNCHANGED <<loop, states, final_states, exit_states, saw_unknown, stage, outcome>>
      BY <2>6 DEF vars
    <3>2. \A approximate, known \in BOOLEAN :
            Summarized(approximate, known)' = Summarized(approximate, known)
      BY <3>1, SameSummary
    <3>3. PathsInv' <=> PathsInv
      BY <3>1 DEF PathsInv
    <3>4. StageInv'
      BY <3>1, <3>2 DEF IInv, StageInv, Transitions
    <3> QED
      BY <3>1, <3>3, <3>4 DEF IInv
  <2> QED
    BY <2>2, <2>3, <2>4, <2>5, <2>6 DEF Next
<1> QED
  BY <1>1, <1>2, PTL DEF Spec

(***************************************************************************)
(* The transitions of an accelerated loop                                  *)
(***************************************************************************)
NoAssertion(l) == \A i \in DOMAIN l.node : l.node[i].op # "assert"

LEMMA NeverFails ==
  ASSUME NEW l, LoopOK(l), NoAssertion(l), NEW x \in Pairs(l)
  PROVE  End(l, x).end # "failed"
<1> DEFINE c == Course(l, x)
           n == Size(l)
           S == {k \in 0..n : c[k].end # "failed"}
<1>1. n \in Nat /\ DOMAIN l.node = 1..n
  BY LoopNodes
<1>2. c[0] = Began(x) /\ \A i \in 1..n : c[i] = Turn(l, x, c[i - 1], i)
  BY CourseIs
<1> HIDE DEF c, n
<1>3. 0 \in S
  BY <1>1, <1>2 DEF Began
<1>4. ASSUME NEW k \in 0..(n - 1), k \in S
      PROVE  k + 1 \in S
  <2>1. k + 1 \in 1..n /\ k + 1 \in 0..n /\ (k + 1) - 1 = k
    BY <1>1
  <2>2. c[k + 1] = Turn(l, x, c[k], k + 1) /\ l.node[k + 1].op # "assert"
    BY <1>1, <1>2, <2>1 DEF NoAssertion
  <2> QED
    BY <1>4, <2>1, <2>2 DEF Turn, Executed
<1>5. 0..n \subseteq S
  <2> HIDE DEF S
  <2> QED
    BY <1>1, <1>3, <1>4, InductionUpTo
<1>6. n \in 0..n
  BY <1>1
<1> QED
  BY <1>5, <1>6 DEF End, c, n

\* What a final state says of its pairs is what the iteration does.
LEMMA FinalEnds ==
  ASSUME NEW l, LoopOK(l), WhileLoop(l), NEW s \in Sound(l), Ended(l, s),
         NEW x \in s.path_condition, End(l, x).end # "failed"
  PROVE  x \in Pairs(l) /\ End(l, x).end = "again" /\ End(l, x).next = s.update[x]
<1> DEFINE n == l.node[s.pc]
           before == Course(l, x)[s.pc - 1]
           e == Executed(n, x, before)
<1>1. s.pc \in 1..Size(l) /\ x \in Pairs(l) /\ StateOK(l, s)
  <2>1. s.pc \in 0..Size(l) /\ s.path_condition \subseteq Pairs(l) /\ StateOK(l, s)
    BY SoundIs DEF PathState
  <2>2. Size(l) \in Nat /\ s.pc # 0
    BY LoopNodes DEF Ended
  <2> QED
    BY <2>1, <2>2
<1>2. Stands(l, x, s.pc, s.update[x])
  BY <1>1 DEF StateOK, Ended
<1>3. n.op = "jump" /\ n.to = 1
  BY <1>1, LatchJumps DEF Ended
<1>4. e.end = "again" /\ e.next = s.update[x]
  BY <1>2, <1>3 DEF Executed, Stands, Exit
<1>5. e.end # "going" => End(l, x) = e
  BY <1>1, <1>2, NextStands
<1> HIDE DEF e
<1> QED
  BY <1>1, <1>4, <1>5

LEMMA ExitEnds ==
  ASSUME NEW l, NEW s \in Sound(l), s.pc = 0,
         NEW x \in s.path_condition, End(l, x).end # "failed"
  PROVE  End(l, x).end = "left"
BY SoundIs DEF StateOK

\* enumerate_transitions: where no feasibility test was unknown, each complete
\* iteration of an accelerated loop is one transition, with the values it has at
\* the back edge, and no transition is anything else.  PathAccelerator's check of
\* the body admits no call but the header's oracle, so no assertion.
THEOREM TransitionsAreExact ==
  ASSUME \A l \in Programs : l.client = "accelerator" => WhileLoop(l) /\ NoAssertion(l)
  PROVE  Spec => []TransitionsExact
<1>1. IInv => TransitionsExact
  <2> SUFFICES ASSUME IInv, stage = "done", loop.client = "accelerator", ~outcome.rejected,
                      NEW x \in Pair
               PROVE  LET i == Iteration(x[1], x[2])
                          of == {t \in outcome.transitions : x \in t.guard}
                      IN  IF i.end = "again"
                          THEN Cardinality(of) = 1 /\ \A t \in of : t.update[x] = i.next
                          ELSE of = {}
    BY DEF TransitionsExact
  <2> DEFINE i == Iteration(x[1], x[2])
             of == {t \in outcome.transitions : x \in t.guard}
             T(s) == [guard |-> s.path_condition, update |-> s.update]
  <2>1. LoopOK(loop) /\ WhileLoop(loop) /\ NoAssertion(loop) /\ PathsInv /\ StageInv
    BY LoopAssumption DEF IInv
  <2>2. x \in Pairs(loop) /\ i = End(loop, x)
    <3>1. x \in Pairs(loop)
      BY DEF Pair, Pairs
    <3>2. x = <<x[1], x[2]>>
      BY DEF Pair
    <3> QED
      BY <2>1, <3>1, <3>2, IterationIs
  <2>3. ~saw_unknown /\ outcome.transitions = {T(s) : s \in final_states} /\ states = <<>>
    BY <2>1 DEF StageInv, Transitions
  <2>4. End(loop, x).end # "failed"
    BY <2>1, <2>2, NeverFails
  <2> HIDE DEF i
  <2>5. ASSUME NEW s \in final_states, x \in s.path_condition
        PROVE  i.end = "again" /\ i.next = s.update[x]
    <3>1. s \in Sound(loop) /\ Ended(loop, s)
      BY <2>1 DEF PathsInv
    <3> QED
      BY <2>1, <2>2, <2>4, <2>5, <3>1, FinalEnds
  <2>6. ASSUME NEW t \in of
        PROVE  \E s \in final_states : t = T(s) /\ x \in s.path_condition
    BY <2>3
  <2>7. ASSUME i.end # "again"
        PROVE  of = {}
    BY <2>5, <2>6, <2>7
  <2>8. ASSUME i.end = "again"
        PROVE  Cardinality(of) = 1 /\ \A t \in of : t.update[x] = i.next
    <3>1. PICK s \in final_states \cup exit_states : x \in s.path_condition
      <4>1. Carried(x, states, final_states \cup exit_states)
        BY <2>1, <2>2, <2>3, <2>8 DEF PathsInv, Completes
      <4>2. Len(states) = 0
        BY <2>3
      <4> QED
        BY <4>1, <4>2 DEF Carried
    <3>2. s \in final_states
      <4> SUFFICES ASSUME s \in exit_states
                   PROVE  FALSE
        OBVIOUS
      <4>1. s \in Sound(loop) /\ s.pc = 0
        BY <2>1 DEF PathsInv
      <4>2. End(loop, x).end = "left"
        BY <2>4, <3>1, <4>1, ExitEnds
      <4> QED
        BY <2>2, <2>8, <4>2
    <3>3. ASSUME NEW s2 \in final_states, x \in s2.path_condition
          PROVE  s2 = s
      BY <2>1, <3>1, <3>2, <3>3 DEF PathsInv, AllApart, Apart
    <3>4. of = {T(s)}
      <4>1. T(s) \in of
        BY <2>3, <3>1, <3>2
      <4>2. \A t \in of : t = T(s)
        BY <2>6, <3>3
      <4> HIDE DEF of, T
      <4> QED
        BY <4>1, <4>2
    <3>5. Cardinality({T(s)}) = 1
      BY FS_Singleton
    <3>6. \A t \in of : t.update[x] = i.next
      BY <2>5, <3>1, <3>2, <3>4
    <3> QED
      BY <3>4, <3>5, <3>6
  <2> QED
    BY <2>7, <2>8 DEF i
<1> QED
  BY <1>1, IInvHolds, PTL

(***************************************************************************)
(* Runs and their recurrences                                              *)
(***************************************************************************)
\* The run on the inputs p behind one more iteration.
Ran(p, before) ==
  IF before.end # "again" THEN before
  ELSE LET i == Iteration(before.value, loop.answers[p][before.calls])
       IN  [value |-> IF i.end = "again" THEN i.next ELSE before.value,
            calls |-> before.calls + i.calls, end |-> i.end]
AtEntry(p) == [value |-> loop.initial[p], calls |-> 0, end |-> "again"]
RunUpTo(p) ==
  LET run[n \in 0..(MaxIterations + 1)] ==
        IF n = 0 THEN AtEntry(p) ELSE Ran(p, run[n - 1])
  IN  run

LEMMA RunIs ==
  ASSUME NEW p
  PROVE  /\ RunOf(p) = RunUpTo(p)[MaxIterations + 1]
         /\ RunUpTo(p)[0] = AtEntry(p)
         /\ \A n \in 0..MaxIterations : RunUpTo(p)[n + 1] = Ran(p, RunUpTo(p)[n])
<1> DEFINE m == MaxIterations + 1
           b == AtEntry(p)
           Obeys(g) == g = [n \in 0..m |-> IF n = 0 THEN b ELSE Ran(p, g[n - 1])]
           chosen == CHOOSE g : Obeys(g)
           Up(k) == \E f : \A n \in 0..k : f[n] = IF n = 0 THEN b ELSE Ran(p, f[n - 1])
           S == {k \in 0..m : Up(k)}
<1>1. RunUpTo(p) = chosen
  BY DEF RunUpTo
<1>2. m \in Nat /\ MaxIterations \in Nat
  BY LoopAssumption
<1> HIDE DEF b
<1>3. 0 \in S
  <2> DEFINE f == [n \in 0..0 |-> b]
  <2>1. \A n \in 0..0 : f[n] = IF n = 0 THEN b ELSE Ran(p, f[n - 1])
    OBVIOUS
  <2> HIDE DEF f
  <2>2. Up(0)
    BY <2>1
  <2> QED
    BY <1>2, <2>2
<1>4. ASSUME NEW k \in 0..(m - 1), k \in S
      PROVE  k + 1 \in S
  <2>1. PICK f : \A n \in 0..k : f[n] = IF n = 0 THEN b ELSE Ran(p, f[n - 1])
    BY <1>4
  <2> DEFINE h == [n \in 0..(k + 1) |-> IF n <= k THEN f[n] ELSE Ran(p, f[k])]
  <2>2. \A n \in 0..(k + 1) : h[n] = IF n = 0 THEN b ELSE Ran(p, h[n - 1])
    <3> SUFFICES ASSUME NEW n \in 0..(k + 1)
                 PROVE  h[n] = IF n = 0 THEN b ELSE Ran(p, h[n - 1])
      OBVIOUS
    <3>1. CASE n = 0
      <4>1. h[0] = f[0] /\ f[0] = b
        BY <1>2, <2>1
      <4> QED
        BY <3>1, <4>1
    <3>2. CASE n # 0 /\ n <= k
      <4>1. h[n] = f[n] /\ h[n - 1] = f[n - 1]
        BY <1>2, <3>2
      <4>2. f[n] = Ran(p, f[n - 1])
        BY <1>2, <2>1, <3>2
      <4> HIDE DEF h
      <4> QED
        BY <3>2, <4>1, <4>2
    <3>3. CASE n = k + 1
      <4>1. h[n] = Ran(p, f[k]) /\ h[n - 1] = f[k] /\ n # 0
        BY <1>2, <3>3
      <4> HIDE DEF h
      <4> QED
        BY <4>1
    <3> QED
      BY <1>2, <3>1, <3>2, <3>3
  <2> HIDE DEF h
  <2>3. Up(k + 1)
    BY <2>2
  <2> HIDE DEF Up
  <2> QED
    BY <1>2, <2>3
<1>5. Up(m)
  <2> HIDE DEF S
  <2>1. 0..m \subseteq S
    BY <1>2, <1>3, <1>4, InductionUpTo
  <2>2. m \in S
    BY <1>2, <2>1
  <2> QED
    BY <2>2 DEF S
<1>6. PICK f : \A n \in 0..m : f[n] = IF n = 0 THEN b ELSE Ran(p, f[n - 1])
  BY <1>5
<1> DEFINE g == [n \in 0..m |-> f[n]]
<1>7. Obeys(g)
  <2>1. \A n \in 0..m : n # 0 => n - 1 \in 0..m
    BY <1>2
  <2>2. \A n \in 0..m : g[n] = IF n = 0 THEN b ELSE Ran(p, g[n - 1])
    BY <1>6, <2>1
  <2>3. g = [n \in 0..m |-> g[n]]
    OBVIOUS
  <2> HIDE DEF g, m
  <2> QED
    BY <2>2, <2>3
<1>8. Obeys(chosen)
  <2> HIDE DEF Obeys
  <2> QED
    BY <1>7, Zenon
<1> HIDE DEF chosen
<1>9. \A n \in 0..m : chosen[n] = IF n = 0 THEN b ELSE Ran(p, chosen[n - 1])
  BY <1>8
<1>10. chosen[0] = b
  BY <1>2, <1>9
<1>11. ASSUME NEW n \in 0..MaxIterations
       PROVE  chosen[n + 1] = Ran(p, chosen[n])
  <2>1. n + 1 \in 0..m /\ n + 1 # 0 /\ (n + 1) - 1 = n
    BY <1>2
  <2> QED
    BY <1>9, <2>1
<1>12. RunOf(p) = RunUpTo(p)[MaxIterations + 1]
  BY DEF RunOf, RunUpTo, Ran, AtEntry
<1> QED
  BY <1>1, <1>10, <1>11, <1>12 DEF b

\* The recurrence one value further on.
Recurred(p, before) ==
  LET x == <<before.value, loop.answers[p][before.count]>>
      cases == {s \in final_states : x \in s.path_condition_in_loop}
      s == CHOOSE s \in cases : TRUE
  IN  IF cases = {} THEN before
      ELSE [value |-> s.update[x],
            count |-> before.count + IF Advances(s) THEN 1 ELSE 0]
Unrolled(p) == [value |-> loop.initial[p], count |-> 0]

LEMMA RecurrenceIs ==
  ASSUME NEW p
  PROVE  /\ Recurrence(p)[0] = Unrolled(p)
         /\ \A n \in 0..(MaxIterations - 1) :
              Recurrence(p)[n + 1] = Recurred(p, Recurrence(p)[n])
<1> DEFINE m == MaxIterations
           b == Unrolled(p)
           Obeys(g) == g = [n \in 0..m |-> IF n = 0 THEN b ELSE Recurred(p, g[n - 1])]
           chosen == CHOOSE g : Obeys(g)
           Up(k) == \E f : \A n \in 0..k : f[n] = IF n = 0 THEN b ELSE Recurred(p, f[n - 1])
           S == {k \in 0..m : Up(k)}
<1>1. Recurrence(p) = chosen
  BY DEF Recurrence, Recurred, Unrolled
<1>2. m \in Nat
  BY LoopAssumption
<1> HIDE DEF b, m
<1>3. 0 \in S
  <2> DEFINE f == [n \in 0..0 |-> b]
  <2>1. \A n \in 0..0 : f[n] = IF n = 0 THEN b ELSE Recurred(p, f[n - 1])
    OBVIOUS
  <2> HIDE DEF f
  <2>2. Up(0)
    BY <2>1
  <2> QED
    BY <1>2, <2>2
<1>4. ASSUME NEW k \in 0..(m - 1), k \in S
      PROVE  k + 1 \in S
  <2>1. PICK f : \A n \in 0..k : f[n] = IF n = 0 THEN b ELSE Recurred(p, f[n - 1])
    BY <1>4
  <2> DEFINE h == [n \in 0..(k + 1) |-> IF n <= k THEN f[n] ELSE Recurred(p, f[k])]
  <2>2. \A n \in 0..(k + 1) : h[n] = IF n = 0 THEN b ELSE Recurred(p, h[n - 1])
    <3> SUFFICES ASSUME NEW n \in 0..(k + 1)
                 PROVE  h[n] = IF n = 0 THEN b ELSE Recurred(p, h[n - 1])
      OBVIOUS
    <3>1. CASE n = 0
      <4>1. h[0] = f[0] /\ f[0] = b
        BY <1>2, <2>1
      <4> QED
        BY <3>1, <4>1
    <3>2. CASE n # 0 /\ n <= k
      <4>1. h[n] = f[n] /\ h[n - 1] = f[n - 1]
        BY <1>2, <3>2
      <4>2. f[n] = Recurred(p, f[n - 1])
        BY <1>2, <2>1, <3>2
      <4> HIDE DEF h
      <4> QED
        BY <3>2, <4>1, <4>2
    <3>3. CASE n = k + 1
      <4>1. h[n] = Recurred(p, f[k]) /\ h[n - 1] = f[k] /\ n # 0
        BY <1>2, <3>3
      <4> HIDE DEF h
      <4> QED
        BY <4>1
    <3> QED
      BY <1>2, <3>1, <3>2, <3>3
  <2> HIDE DEF h
  <2>3. Up(k + 1)
    BY <2>2
  <2> HIDE DEF Up
  <2> QED
    BY <1>2, <2>3
<1>5. Up(m)
  <2> HIDE DEF S
  <2>1. 0..m \subseteq S
    BY <1>2, <1>3, <1>4, InductionUpTo
  <2>2. m \in S
    BY <1>2, <2>1
  <2> QED
    BY <2>2 DEF S
<1>6. PICK f : \A n \in 0..m : f[n] = IF n = 0 THEN b ELSE Recurred(p, f[n - 1])
  BY <1>5
<1> DEFINE g == [n \in 0..m |-> f[n]]
<1>7. Obeys(g)
  <2>1. \A n \in 0..m : n # 0 => n - 1 \in 0..m
    BY <1>2
  <2>2. \A n \in 0..m : g[n] = IF n = 0 THEN b ELSE Recurred(p, g[n - 1])
    BY <1>6, <2>1
  <2>3. g = [n \in 0..m |-> g[n]]
    OBVIOUS
  <2> HIDE DEF g
  <2> QED
    BY <2>2, <2>3
<1>8. Obeys(chosen)
  <2> HIDE DEF Obeys
  <2> QED
    BY <1>7, Zenon
<1> HIDE DEF chosen
<1>9. \A n \in 0..m : chosen[n] = IF n = 0 THEN b ELSE Recurred(p, chosen[n - 1])
  BY <1>8
<1>10. chosen[0] = b
  BY <1>2, <1>9
<1>11. ASSUME NEW n \in 0..(m - 1)
       PROVE  chosen[n + 1] = Recurred(p, chosen[n])
  <2>1. n + 1 \in 0..m /\ n + 1 # 0 /\ (n + 1) - 1 = n
    BY <1>2
  <2> QED
    BY <1>9, <2>1
<1> QED
  BY <1>1, <1>10, <1>11 DEF b, m

(***************************************************************************)
(* A run and its recurrence go together                                    *)
(***************************************************************************)
\* The paths of a loop of this shape have all been followed to their ends.
Followed ==
  /\ LoopOK(loop) /\ WhileLoop(loop) /\ PathsInv
  /\ states = <<>> /\ ~saw_unknown

Counted ==
  \A s \in final_states : \A x \in s.path_condition :
    End(loop, x).end = "again" => End(loop, x).calls = IF Advances(s) THEN 1 ELSE 0

PairAt(p, m) ==
  LET ran == RunUpTo(p)[m] IN <<ran.value, loop.answers[p][ran.calls]>>

Together(p, m) ==
  LET ran == RunUpTo(p)[m]
  IN  /\ ran.value \in loop.value /\ ran.calls \in 0..m
      /\ Recurrence(p)[m] = [value |-> ran.value, count |-> ran.calls]

\* A complete iteration is on one final path, alone, and on no path that leaves.
LEMMA CompleteTurn ==
  ASSUME Followed, NEW x \in Pairs(loop), End(loop, x).end = "again"
  PROVE  /\ \E s \in final_states :
              /\ x \in s.path_condition /\ s.update[x] = End(loop, x).next
              /\ {t \in final_states : x \in t.path_condition_in_loop} = {s}
         /\ \A t \in exit_states : x \notin t.path_condition
<1>1. ASSUME NEW t \in exit_states
      PROVE  x \notin t.path_condition
  <2>1. t \in Sound(loop) /\ t.pc = 0
    BY DEF Followed, PathsInv
  <2> QED
    BY <2>1, ExitEnds
<1>2. PICK s \in final_states : x \in s.path_condition
  <2>1. Carried(x, states, final_states \cup exit_states)
    BY DEF Followed, PathsInv, Completes
  <2>2. Len(states) = 0
    BY DEF Followed
  <2> QED
    BY <1>1, <2>1, <2>2 DEF Carried
<1>3. \A t \in final_states : t \in Sound(loop) /\ Ended(loop, t) /\ Within(t) = t.path_condition_in_loop
  BY DEF Followed, PathsInv, Within, Ended
<1>4. s.path_condition \subseteq s.path_condition_in_loop
  BY <1>3, SoundIs DEF StateOK
<1>5. ASSUME NEW t \in final_states, x \in t.path_condition_in_loop
      PROVE  t = s
  <2>1. t # s => Within(t) \cap Within(s) = {}
    BY DEF Followed, PathsInv, AllApart, Apart
  <2> QED
    BY <1>2, <1>3, <1>4, <1>5, <2>1
<1>6. {t \in final_states : x \in t.path_condition_in_loop} = {s}
  BY <1>2, <1>4, <1>5
<1>7. s.update[x] = End(loop, x).next
  BY <1>2, <1>3, FinalEnds DEF Followed
<1> QED
  BY <1>1, <1>2, <1>6, <1>7

\* An iteration that leaves is on a path that does.
LEMMA LastTurn ==
  ASSUME Followed, NEW x \in Pairs(loop), End(loop, x).end = "left"
  PROVE  \E s \in exit_states : x \in s.path_condition
<1>1. Carried(x, states, final_states \cup exit_states) /\ Len(states) = 0
  BY DEF Followed, PathsInv, Completes
<1>2. ASSUME NEW s \in final_states
      PROVE  x \notin s.path_condition
  <2>1. s \in Sound(loop) /\ Ended(loop, s)
    BY DEF Followed, PathsInv
  <2> QED
    BY <2>1, FinalEnds DEF Followed
<1> QED
  BY <1>1, <1>2 DEF Carried

LEMMA EndType ==
  ASSUME NEW l, LoopOK(l), NEW x \in Pairs(l)
  PROVE  End(l, x) \in Progress(l)
<1>1. Size(l) \in 0..Size(l)
  BY LoopNodes
<1> QED
  BY <1>1, CourseIs DEF End

LEMMA PairAtType ==
  ASSUME LoopOK(loop), NEW p \in loop.point, NEW m \in 0..MaxIterations, Together(p, m)
  PROVE  PairAt(p, m) \in Pairs(loop)
<1>1. RunUpTo(p)[m].calls \in 0..MaxIterations
  BY LoopAssumption DEF Together
<1>2. loop.answers[p] \in [0..MaxIterations -> loop.answer]
  BY DEF LoopOK
<1> QED
  BY <1>1, <1>2 DEF Together, PairAt, Pairs

\* The row behind a complete one.
LEMMA NextRow ==
  ASSUME LoopOK(loop), NEW p \in loop.point, NEW m \in 0..MaxIterations, Together(p, m),
         RunUpTo(p)[m].end = "again"
  PROVE  LET e == End(loop, PairAt(p, m)) before == RunUpTo(p)[m]
         IN  RunUpTo(p)[m + 1] =
               [value |-> IF e.end = "again" THEN e.next ELSE before.value,
                calls |-> before.calls + e.calls, end |-> e.end]
<1>1. PairAt(p, m) \in Pairs(loop)
  BY PairAtType
<1>2. Iteration(RunUpTo(p)[m].value, loop.answers[p][RunUpTo(p)[m].calls])
        = End(loop, PairAt(p, m))
  BY <1>1, IterationIs DEF PairAt
<1> QED
  BY ZenonT(90), <1>2, RunIs DEF Ran

LEMMA Onward ==
  ASSUME Followed, Counted, NEW p \in loop.point, NEW m \in 0..(MaxIterations - 1),
         Together(p, m), RunUpTo(p)[m].end = "again", RunUpTo(p)[m + 1].end = "again"
  PROVE  Together(p, m + 1) /\ loop_guard(p, m)
<1> DEFINE x == PairAt(p, m)
           e == End(loop, x)
           before == RunUpTo(p)[m]
           cases == {s \in final_states : x \in s.path_condition_in_loop}
<1>1. m \in 0..MaxIterations /\ LoopOK(loop)
  BY LoopAssumption DEF Followed
<1>2. x \in Pairs(loop) /\ e \in Progress(loop)
  BY <1>1, PairAtType, EndType
<1>3. RunUpTo(p)[m + 1] = [value |-> IF e.end = "again" THEN e.next ELSE before.value,
                            calls |-> before.calls + e.calls, end |-> e.end]
  BY <1>1, NextRow
<1>4. e.end = "again"
  BY <1>3
<1>5. RunUpTo(p)[m + 1].value = e.next /\ RunUpTo(p)[m + 1].calls = before.calls + e.calls
  BY <1>3, <1>4
<1>6. Recurrence(p)[m] = [value |-> before.value, count |-> before.calls]
  BY DEF Together
<1>7. x = <<Recurrence(p)[m].value, loop.answers[p][Recurrence(p)[m].count]>>
  BY <1>6 DEF PairAt
<1> HIDE DEF x, e
<1>8. PICK s \in final_states :
        x \in s.path_condition /\ s.update[x] = e.next /\ cases = {s}
  BY <1>2, <1>4, CompleteTurn DEF e
<1>9. \A t \in exit_states : x \notin t.path_condition
  BY <1>2, <1>4, CompleteTurn DEF e
<1>10. e.calls = IF Advances(s) THEN 1 ELSE 0
  BY <1>4, <1>8 DEF Counted, e
<1>11. Recurrence(p)[m + 1] = [value |-> e.next, count |-> before.calls + e.calls]
  <2>1. Recurrence(p)[m + 1] = Recurred(p, Recurrence(p)[m])
    BY RecurrenceIs
  <2>2. (CHOOSE t \in cases : TRUE) = s /\ cases # {}
    BY <1>8
  <2>3. Recurrence(p)[m].count = before.calls
    BY <1>6
  <2> QED
    BY <1>7, <1>8, <1>10, <2>1, <2>2, <2>3 DEF Recurred
<1>12. e.next \in loop.value /\ e.calls \in 0..1 /\ before.calls \in 0..m
  BY <1>2, <1>10 DEF Progress, Together
<1>13. loop_guard(p, m)
  BY <1>7, <1>9 DEF loop_guard
<1>14. before.calls + e.calls \in 0..(m + 1)
  BY <1>12
<1> QED
  BY <1>5, <1>11, <1>12, <1>13, <1>14 DEF Together

LEMMA Start ==
  ASSUME LoopOK(loop), NEW p \in loop.point
  PROVE  Together(p, 0) /\ RunUpTo(p)[0].end = "again"
<1>1. loop.initial[p] \in loop.value
  BY DEF LoopOK
<1>2. RunUpTo(p)[0] = [value |-> loop.initial[p], calls |-> 0, end |-> "again"]
  BY RunIs DEF AtEntry
<1>3. Recurrence(p)[0] = [value |-> loop.initial[p], count |-> 0]
  BY RecurrenceIs DEF Unrolled
<1>4. 0 \in 0..0
  OBVIOUS
<1> QED
  BY <1>1, <1>2, <1>3, <1>4 DEF Together

LEMMA Iterated ==
  ASSUME Followed, Counted, NEW p \in loop.point, NEW K \in 0..MaxIterations,
         \A m \in 0..K : RunUpTo(p)[m].end = "again"
  PROVE  /\ \A m \in 0..K : Together(p, m)
         /\ \A m \in 0..(K - 1) : loop_guard(p, m)
<1> DEFINE S == {m \in 0..K : Together(p, m)}
<1>1. K \in Nat /\ MaxIterations \in Nat /\ LoopOK(loop)
  BY LoopAssumption DEF Followed
<1>2. 0 \in S
  BY <1>1, Start
<1>3. ASSUME NEW m \in 0..(K - 1), Together(p, m)
      PROVE  Together(p, m + 1) /\ loop_guard(p, m)
  <2>1. m \in 0..(MaxIterations - 1) /\ m \in 0..K /\ m + 1 \in 0..K
    BY <1>1
  <2> QED
    BY <1>3, <2>1, Onward
<1>4. ASSUME NEW m \in 0..(K - 1), m \in S
      PROVE  m + 1 \in S
  BY <1>1, <1>3, <1>4
<1>5. 0..K \subseteq S
  <2> HIDE DEF S
  <2> QED
    BY <1>1, <1>2, <1>4, InductionUpTo
<1>6. \A m \in 0..(K - 1) : m \in 0..K
  BY <1>1
<1> QED
  BY <1>3, <1>5, <1>6

\* A run that does not go on stays as it is.
LEMMA Absorbed ==
  ASSUME NEW p, NEW m \in 0..(MaxIterations + 1), RunUpTo(p)[m].end # "again"
  PROVE  RunOf(p) = RunUpTo(p)[m]
<1> DEFINE r == RunUpTo(p)
           k == MaxIterations + 1 - m
           S == {j \in 0..k : r[m + j] = r[m]}
<1>1. MaxIterations \in Nat /\ k \in Nat /\ m \in Nat
  BY LoopAssumption
<1>2. \A n \in 0..MaxIterations : r[n + 1] = Ran(p, r[n])
  BY RunIs
<1>3. r[m].end # "again"
  OBVIOUS
<1> HIDE DEF r
<1>4. 0 \in S
  BY <1>1
<1>5. ASSUME NEW j \in 0..(k - 1), j \in S
      PROVE  j + 1 \in S
  <2>1. m + j \in 0..MaxIterations /\ j + 1 \in 0..k /\ m + (j + 1) = (m + j) + 1
    BY <1>1
  <2>2. r[(m + j) + 1] = Ran(p, r[m])
    BY <1>2, <1>5, <2>1
  <2> QED
    BY <1>3, <2>1, <2>2 DEF Ran
<1>6. 0..k \subseteq S
  <2> HIDE DEF S, k
  <2> QED
    BY <1>1, <1>4, <1>5, InductionUpTo
<1>7. k \in 0..k /\ m + k = MaxIterations + 1
  BY <1>1
<1>8. r[MaxIterations + 1] = r[m]
  BY <1>6, <1>7
<1> QED
  BY <1>8, RunIs DEF r

\* A run that leaves does so behind K complete iterations.
LEMMA RunLeaves ==
  ASSUME NEW p, RunOf(p).end = "left"
  PROVE  \E K \in 0..MaxIterations :
           /\ \A m \in 0..K : RunUpTo(p)[m].end = "again"
           /\ RunUpTo(p)[K + 1].end = "left" /\ RunOf(p) = RunUpTo(p)[K + 1]
<1> DEFINE r == RunUpTo(p)
           M1 == MaxIterations + 1
           T == {n \in 0..M1 : r[n].end # "again"}
<1>1. MaxIterations \in Nat /\ M1 \in 0..M1
  BY LoopAssumption
<1>2. T \in SUBSET Nat /\ M1 \in T
  BY <1>1, RunIs
<1>3. PICK n \in T : \A m \in T : n <= m
  <2> HIDE DEF T
  <2>1. T # {}
    BY <1>2
  <2> QED
    BY <1>2, <2>1, LeastElement
<1>4. RunOf(p) = r[n]
  BY Absorbed
<1>5. n # 0
  <2>1. r[0] = AtEntry(p)
    BY RunIs
  <2>2. AtEntry(p).end = "again"
    BY DEF AtEntry
  <2>3. r[n].end # "again"
    OBVIOUS
  <2> QED
    BY <2>1, <2>2, <2>3
<1>6. n - 1 \in 0..MaxIterations /\ (n - 1) + 1 = n
  BY <1>1, <1>5
<1>7. \A m \in 0..(n - 1) : r[m].end = "again"
  BY <1>1, <1>3
<1> QED
  BY <1>4, <1>6, <1>7

\* The loop guard holds up to the iteration that leaves: N is found, and only N.
LEMMA CountFound ==
  ASSUME NEW p, NEW K \in 0..MaxIterations,
         \A m \in 0..(K - 1) : loop_guard(p, m), ~loop_guard(p, K)
  PROVE  Iterations(p) = {K} /\ N(p) = K
<1>1. MaxIterations \in Nat /\ K \in Nat
  BY LoopAssumption
<1>2. K \in Iterations(p)
  <2>1. \A m \in 0..K : loop_guard(p, m) <=> m < K
    BY <1>1
  <2> QED
    BY <2>1 DEF Iterations
<1>3. ASSUME NEW n \in Iterations(p)
      PROVE  n = K
  <2>1. n \in 0..MaxIterations /\ \A m \in 0..n : loop_guard(p, m) <=> m < n
    BY DEF Iterations
  <2>2. CASE n < K
    <3>1. n \in 0..(K - 1) /\ n \in 0..n
      BY <1>1, <2>1, <2>2
    <3> QED
      BY <2>1, <3>1
  <2>3. CASE n > K
    <3>1. K \in 0..n /\ K < n
      BY <1>1, <2>1, <2>3
    <3> QED
      BY <2>1, <3>1
  <2> QED
    BY <1>1, <2>1, <2>2, <2>3
<1>4. Iterations(p) = {K}
  BY <1>2, <1>3
<1>5. (CHOOSE n \in {K} : TRUE) = K
  OBVIOUS
<1> QED
  BY <1>4, <1>5 DEF N

\* The row at which a run leaves.
LEMMA GuardFails ==
  ASSUME Followed, NEW p \in loop.point, NEW K \in 0..MaxIterations,
         Together(p, K), RunUpTo(p)[K].end = "again", RunUpTo(p)[K + 1].end = "left"
  PROVE  /\ ~loop_guard(p, K) /\ exit_states # {}
         /\ RunUpTo(p)[K + 1].value = RunUpTo(p)[K].value
<1> DEFINE x == PairAt(p, K)
           e == End(loop, x)
<1>1. x \in Pairs(loop) /\ LoopOK(loop)
  BY PairAtType DEF Followed
<1>2. RunUpTo(p)[K + 1] =
        [value |-> IF e.end = "again" THEN e.next ELSE RunUpTo(p)[K].value,
         calls |-> RunUpTo(p)[K].calls + e.calls, end |-> e.end]
  BY <1>1, NextRow
<1>3. e.end = "left"
  BY <1>2
<1>4. RunUpTo(p)[K + 1].value = RunUpTo(p)[K].value
  BY <1>2, <1>3
<1>5. x = <<Recurrence(p)[K].value, loop.answers[p][Recurrence(p)[K].count]>>
  BY DEF Together, PairAt
<1> HIDE DEF x, e
<1>6. PICK s \in exit_states : x \in s.path_condition
  BY <1>1, <1>3, LastTurn DEF e
<1> QED
  BY <1>4, <1>5, <1>6 DEF loop_guard

LEMMA SummaryFollowed ==
  ASSUME IInv, Summary, WhileLoop(loop), CountersFollow, "summarizer" \notin GivesUp
  PROVE  Followed /\ Counted
<1>1. LoopOK(loop) /\ PathsInv /\ StageInv
  BY LoopAssumption DEF IInv
<1>2. Followed
  BY <1>1 DEF Followed, StageInv, Summary
<1>3. ASSUME NEW s \in final_states, NEW x \in s.path_condition
      PROVE  Iteration(x[1], x[2]) = End(loop, x)
  <2>1. s \in Sound(loop)
    BY <1>1 DEF PathsInv
  <2>2. x \in Pairs(loop)
    BY <2>1, SoundIs DEF PathState
  <2>3. x = <<x[1], x[2]>>
    BY <2>2 DEF Pairs
  <2> QED
    BY <1>1, <2>2, <2>3, IterationIs
<1>4. Counted
  BY <1>3 DEF CountersFollow, Counted
<1> QED
  BY <1>2, <1>4

\* What the summary computes for a run that leaves.
LEMMA RunSummed ==
  ASSUME Followed, Counted, NEW p \in loop.point, RunOf(p).end = "left"
  PROVE  /\ exit_states # {} /\ Iterations(p) # {}
         /\ RunOf(p).value = Recurrence(p)[N(p)].value /\ RunOf(p).value \in loop.value
         /\ N(p) = 0 => RunOf(p).value = loop.initial[p]
<1>1. PICK K \in 0..MaxIterations :
        /\ \A m \in 0..K : RunUpTo(p)[m].end = "again"
        /\ RunUpTo(p)[K + 1].end = "left" /\ RunOf(p) = RunUpTo(p)[K + 1]
  BY RunLeaves
<1>2. K \in 0..K /\ 0 \in 0..K
  OBVIOUS
<1>3. /\ Together(p, K)
      /\ \A m \in 0..(K - 1) : loop_guard(p, m)
  BY <1>1, <1>2, Iterated
<1>4. ~loop_guard(p, K) /\ exit_states # {} /\ RunOf(p).value = RunUpTo(p)[K].value
  BY <1>1, <1>2, <1>3, GuardFails
<1>5. Iterations(p) = {K} /\ N(p) = K
  BY <1>3, <1>4, CountFound
<1>6. RunOf(p).value = Recurrence(p)[K].value /\ RunOf(p).value \in loop.value
  BY <1>3, <1>4 DEF Together
<1>7. K = 0 => RunOf(p).value = loop.initial[p]
  <2>1. Recurrence(p)[0] = Unrolled(p)
    BY RecurrenceIs
  <2>2. Unrolled(p).value = loop.initial[p]
    BY DEF Unrolled
  <2> QED
    BY <1>6, <2>1, <2>2
<1> QED
  BY <1>4, <1>5, <1>6, <1>7

\* Where nothing stops an iteration, N counts the iterations of a run that leaves.
LEMMA CountReal ==
  ASSUME Followed, Counted, \A x \in Pairs(loop) : Completes(loop, x),
         NEW p \in loop.point, NEW n \in Iterations(p)
  PROVE  RunOf(p).end = "left"
<1> DEFINE r == RunUpTo(p)
           S == {m \in 0..n : Together(p, m) /\ r[m].end = "again"}
<1>1. /\ n \in 0..MaxIterations /\ n \in Nat /\ MaxIterations \in Nat /\ LoopOK(loop)
      /\ \A m \in 0..n : loop_guard(p, m) <=> m < n
  BY LoopAssumption DEF Iterations, Followed
<1>2. ASSUME NEW m \in 0..n, Together(p, m), r[m].end = "again"
      PROVE  r[m + 1].end = IF m < n THEN "again" ELSE "left"
  <2> DEFINE x == PairAt(p, m)
             e == End(loop, x)
  <2>1. m \in 0..MaxIterations
    BY <1>1
  <2>2. x \in Pairs(loop) /\ r[m + 1].end = e.end
    <3>1. x \in Pairs(loop)
      BY <1>1, <1>2, <2>1, PairAtType
    <3>2. r[m + 1] = [value |-> IF e.end = "again" THEN e.next ELSE r[m].value,
                      calls |-> r[m].calls + e.calls, end |-> e.end]
      BY <1>1, <1>2, <2>1, NextRow
    <3> QED
      BY <3>1, <3>2
  <2>3. e.end \in {"again", "left"}
    BY <2>2 DEF Completes
  <2>4. x = <<Recurrence(p)[m].value, loop.answers[p][Recurrence(p)[m].count]>>
    BY <1>2 DEF Together, PairAt
  <2> HIDE DEF x, e, r
  <2>5. ASSUME m < n
        PROVE  e.end # "left"
    <3>1. \A s \in exit_states : x \notin s.path_condition
      BY <1>1, <2>4, <2>5 DEF loop_guard
    <3> QED
      BY <2>2, <3>1, LastTurn DEF e
  <2>6. ASSUME ~(m < n)
        PROVE  e.end # "again"
    <3>1. \E s \in exit_states : x \in s.path_condition
      BY <1>1, <2>4, <2>6 DEF loop_guard
    <3> QED
      BY <2>2, <3>1, CompleteTurn DEF e
  <2> QED
    BY <2>2, <2>3, <2>5, <2>6
<1>3. 0 \in S
  BY <1>1, Start
<1>4. ASSUME NEW m \in 0..(n - 1), m \in S
      PROVE  m + 1 \in S
  <2>1. m \in 0..n /\ m + 1 \in 0..n /\ m < n /\ m \in 0..(MaxIterations - 1)
    BY <1>1
  <2>2. r[m + 1].end = "again"
    BY <1>2, <1>4, <2>1
  <2>3. Together(p, m + 1)
    BY <1>4, <2>1, <2>2, Onward
  <2> QED
    BY <2>1, <2>2, <2>3
<1>5. 0..n \subseteq S
  <2> HIDE DEF S
  <2> QED
    BY <1>1, <1>3, <1>4, InductionUpTo
<1>6. n \in S /\ ~(n < n) /\ n + 1 \in 0..(MaxIterations + 1)
  BY <1>1, <1>5
<1>7. r[n + 1].end = "left"
  BY <1>1, <1>2, <1>6
<1> QED
  BY <1>6, <1>7, Absorbed

LEMMA SummaryIs ==
  ASSUME IInv, Summary
  PROVE  \E approximate, known \in BOOLEAN :
           outcome = Summarized(approximate, known) /\ (known => loop.linear)
BY DEF IInv, StageInv, Summary

\* LoopSummarizer: every run that leaves the loop goes on behind its summary, with
\* the values it has there, whether the values have closed forms and N one or not.
\* That is so of a loop tested before its latch, with the counter of answers in
\* step, where no feasibility test is unknown.
THEOREM RunsContinueBehind ==
  ASSUME "summarizer" \notin GivesUp
  PROVE  Spec => [](WhileLoop(loop) /\ CountersFollow => RunsContinue)
<1>1. IInv => (WhileLoop(loop) /\ CountersFollow => RunsContinue)
  <2> SUFFICES ASSUME IInv, WhileLoop(loop), CountersFollow, Summary,
                      NEW p \in loop.point, RunOf(p).end = "left"
               PROVE  p \in outcome.cond /\ RunOf(p).value \in outcome.value[p]
    BY DEF RunsContinue
  <2>1. Followed /\ Counted
    BY SummaryFollowed
  <2>2. /\ exit_states # {} /\ Iterations(p) # {}
        /\ RunOf(p).value = Recurrence(p)[N(p)].value /\ RunOf(p).value \in loop.value
        /\ N(p) = 0 => RunOf(p).value = loop.initial[p]
    BY <2>1, RunSummed
  <2>3. PICK approximate \in BOOLEAN, known \in BOOLEAN :
          outcome = Summarized(approximate, known) /\ (known => loop.linear)
    BY SummaryIs
  <2>4. p \in outcome.cond
    BY <2>2, <2>3 DEF Summarized, GoesOn
  <2>5. outcome.value[p] =
          IF ~approximate THEN {Recurrence(p)[N(p)].value}
          ELSE IF known /\ N(p) = 0 THEN {loop.initial[p]} ELSE loop.value
    BY <2>3 DEF Summarized
  <2> QED
    BY <2>2, <2>4, <2>5
<1> QED
  BY <1>1, IInvHolds, PTL

\* Nothing stops an iteration, and where the linear solver finds N every run ends.
RunsEnd ==
  /\ \A x \in Pairs(loop) : Completes(loop, x)
  /\ loop.linear => \A p \in loop.point : RunOf(p).end = "left"

\* The inputs at which an exact summary goes on.
LEMMA SummaryReal ==
  ASSUME IInv, WhileLoop(loop), RunsEnd, CountersFollow, Summary, ~outcome.over,
         NEW p \in outcome.cond, "summarizer" \notin GivesUp
  PROVE  /\ p \in loop.point /\ RunOf(p).end = "left"
         /\ outcome.value[p] = {RunOf(p).value}
<1>1. Followed /\ Counted
  BY SummaryFollowed
<1>2. PICK approximate \in BOOLEAN, known \in BOOLEAN :
        outcome = Summarized(approximate, known) /\ (known => loop.linear)
  BY SummaryIs
<1>3. ~approximate /\ p \in GoesOn(approximate, known) /\ p \in loop.point
  BY <1>2 DEF Summarized, GoesOn
<1>4. RunOf(p).end = "left"
  <2>1. CASE known
    <3>1. loop.linear
      BY <1>2, <2>1
    <3> QED
      BY <1>3, <3>1 DEF RunsEnd
  <2>2. CASE ~known
    <3>1. Iterations(p) # {}
      BY <1>3, <2>2 DEF GoesOn
    <3>2. PICK n \in Iterations(p) : TRUE
      BY <3>1
    <3>3. \A x \in Pairs(loop) : Completes(loop, x)
      BY DEF RunsEnd
    <3> QED
      BY <1>1, <1>3, <3>2, <3>3, CountReal
  <2> QED
    BY <2>1, <2>2
<1>5. RunOf(p).value = Recurrence(p)[N(p)].value
  BY <1>1, <1>3, <1>4, RunSummed
<1>6. outcome.value[p] = {Recurrence(p)[N(p)].value}
  BY <1>2, <1>3 DEF Summarized
<1> QED
  BY <1>3, <1>4, <1>5, <1>6

\* LoopSummarizer: an exact summary goes on behind the loop for the runs that leave
\* it, with their values and no others, if no assumption or assertion stops an
\* iteration and the linear solver speaks of N only where every run ends.
THEOREM ResultsAreReal ==
  ASSUME "summarizer" \notin GivesUp
  PROVE  Spec => [](WhileLoop(loop) /\ RunsEnd /\ CountersFollow => ResultsReal)
<1>1. IInv => (WhileLoop(loop) /\ RunsEnd /\ CountersFollow => ResultsReal)
  <2> SUFFICES ASSUME IInv, WhileLoop(loop), RunsEnd, CountersFollow, Summary,
                      ~outcome.over, NEW p \in outcome.cond
               PROVE  RunOf(p).end = "left" /\ outcome.value[p] = {RunOf(p).value}
    BY DEF ResultsReal
  <2> QED
    BY SummaryReal
<1> QED
  BY <1>1, IInvHolds, PTL

(***************************************************************************)
(* Loops that ask for no answer                                            *)
(***************************************************************************)
OfValue(l, condition) == \A x \in condition : \A c \in l.answer : <<x[1], c>> \in condition
CallFree(l) ==
  \A i \in DOMAIN l.node : l.node[i].op # "call" /\ OfValue(l, l.node[i].on)

\* States that neither carry a counter nor a condition with an answer.
Quiet(l) == {s \in PathState(l) : ~s.counted /\ OfValue(l, s.path_condition_in_loop)}
QuietInv == CallFree(loop) => states \in Seq(Quiet(loop)) /\ final_states \subseteq Quiet(loop)

LEMMA Independent ==
  ASSUME NEW l, NEW a \in SUBSET Pairs(l), NEW b \in SUBSET Pairs(l), OfValue(l, a), OfValue(l, b)
  PROVE  OfValue(l, a \cap b) /\ OfValue(l, a \cap (Pairs(l) \ b))
<1>1. OfValue(l, a \cap b)
  BY DEF OfValue
<1>2. ASSUME NEW x \in a \cap (Pairs(l) \ b), NEW c \in l.answer
      PROVE  <<x[1], c>> \in a \cap (Pairs(l) \ b)
  <2>1. <<x[1], c>> \in a /\ <<x[1], c>> \in Pairs(l)
    BY DEF OfValue
  <2>2. x \in Pairs(l) /\ x = <<x[1], x[2]>> /\ x[2] \in l.answer /\ (<<x[1], c>>)[1] = x[1]
    BY DEF Pairs
  <2>3. <<x[1], c>> \notin b
    <3> SUFFICES ASSUME <<x[1], c>> \in b
                 PROVE  FALSE
      OBVIOUS
    <3>1. <<(<<x[1], c>>)[1], x[2]>> \in b
      BY <2>2 DEF OfValue
    <3> QED
      BY <2>2, <3>1
  <2> QED
    BY <2>1, <2>3
<1> QED
  BY <1>1, <1>2 DEF OfValue

LEMMA TakenQuiet ==
  ASSUME NEW s \in Quiet(loop), NEW to \in 0..Size(loop), NEW on \in SUBSET Pairs(loop),
         OfValue(loop, s.path_condition_in_loop \cap on)
  PROVE  Taken(s, to, on) \in Quiet(loop)
<1> DEFINE inside == IF Exit \in {Node(s).to, Node(s).other} THEN s.path_condition_in_loop
                     ELSE s.path_condition_in_loop \cap on
           m == Moved(s, to)
           t == [m EXCEPT !.path_condition = s.path_condition \cap on,
                          !.path_condition_in_loop = inside, !.status = "TESTING"]
<1>1. s \in PathState(loop) /\ OfValue(loop, s.path_condition_in_loop)
  BY DEF Quiet
<1>2. m \in PathState(loop) /\ ~m.counted /\ m.path_condition = s.path_condition
      /\ m.path_condition_in_loop = s.path_condition_in_loop
  BY <1>1 DEF Moved, PathState
<1> HIDE DEF m
<1>3. Taken(s, to, on) = t
  BY <1>2 DEF Taken, m, PathState
<1>4. inside \in SUBSET Pairs(loop) /\ OfValue(loop, inside)
  BY <1>1 DEF PathState
<1> HIDE DEF inside
<1>5. s.path_condition \cap on \in SUBSET Pairs(loop)
  BY DEF PathState
<1>6. t \in PathState(loop) /\ ~t.counted /\ t.path_condition_in_loop = inside
  BY <1>2, <1>4, <1>5 DEF PathState
<1> QED
  BY <1>3, <1>4, <1>6 DEF Quiet

LEMMA StepQuiet ==
  ASSUME LoopOK(loop), CallFree(loop), NEW s \in Quiet(loop), s.pc # 0
  PROVE  step(s) \in Seq(Quiet(loop))
<1> DEFINE n == loop.node[s.pc]
           next == Moved(s, n.to)
<1>1. n = Node(s) /\ s \in PathState(loop) /\ OfValue(loop, s.path_condition_in_loop)
  BY DEF Node, Quiet
<1>2. s.pc \in 1..Size(loop) /\ Size(loop) \in Nat /\ DOMAIN loop.node = 1..Size(loop)
  BY <1>1, LoopNodes DEF PathState
<1>3. /\ n.op \in {"set", "branch", "jump", "assume", "assert"}
      /\ n.to \in 0..Size(loop) /\ n.other \in 0..Size(loop)
      /\ n.on \subseteq Pairs(loop) /\ n.update \in [Pairs(loop) -> loop.value]
      /\ OfValue(loop, n.on)
  BY SMTT(90), <1>2, LoopNodes DEF CallFree
<1>4. next \in PathState(loop) /\ ~next.counted
      /\ next.path_condition_in_loop = s.path_condition_in_loop
  BY <1>1, <1>3 DEF Moved, PathState
<1>5. /\ n.op = "branch" =>
           step(s) = <<Taken(s, n.to, n.on), Taken(s, n.other, Pairs(loop) \ n.on)>>
      /\ n.op = "set" => step(s) = <<[next EXCEPT !.update = n.update]>>
      /\ n.op = "assume" => step(s) = <<[next EXCEPT !.path_condition = @ \cap n.on,
                                                     !.status = "TESTING"]>>
      /\ n.op \in {"jump", "assert"} => step(s) = <<next>>
  BY <1>1 DEF step, Pair, Pairs
<1> HIDE DEF n, next
<1>6. CASE n.op = "branch"
  <2> DEFINE a == Taken(s, n.to, n.on)
             b == Taken(s, n.other, Pairs(loop) \ n.on)
  <2>1. s.path_condition_in_loop \in SUBSET Pairs(loop)
    BY <1>1 DEF PathState
  <2>2. /\ OfValue(loop, s.path_condition_in_loop \cap n.on)
        /\ OfValue(loop, s.path_condition_in_loop \cap (Pairs(loop) \ n.on))
    BY <1>1, <1>3, <2>1, Independent
  <2>3. a \in Quiet(loop)
    BY <1>3, <2>2, TakenQuiet
  <2>4. b \in Quiet(loop)
    <3> DEFINE on == Pairs(loop) \ n.on
    <3>1. on \in SUBSET Pairs(loop) /\ OfValue(loop, s.path_condition_in_loop \cap on)
      BY <2>2
    <3> HIDE DEF on
    <3>2. Taken(s, n.other, on) \in Quiet(loop)
      BY <1>3, <3>1, TakenQuiet
    <3> QED
      BY <3>2 DEF on
  <2> HIDE DEF a, b
  <2>5. <<a, b>> \in Seq(Quiet(loop))
    BY <2>3, <2>4
  <2> QED
    BY <1>5, <1>6, <2>5 DEF a, b
<1>7. CASE n.op = "set"
  <2> DEFINE t == [next EXCEPT !.update = n.update]
  <2>1. t \in Quiet(loop) /\ step(s) = <<t>>
    BY <1>1, <1>3, <1>4, <1>5, <1>7 DEF Quiet, PathState
  <2> HIDE DEF t
  <2> QED
    BY <2>1
<1>8. CASE n.op = "assume"
  <2> DEFINE t == [next EXCEPT !.path_condition = @ \cap n.on, !.status = "TESTING"]
  <2>1. t \in Quiet(loop)
    BY <1>1, <1>3, <1>4 DEF Quiet, PathState
  <2>2. step(s) = <<t>>
    BY <1>5, <1>8
  <2> HIDE DEF t
  <2> QED
    BY <2>1, <2>2
<1>9. CASE n.op \in {"jump", "assert"}
  <2>1. next \in Quiet(loop) /\ step(s) = <<next>>
    BY <1>1, <1>4, <1>5, <1>9 DEF Quiet
  <2> QED
    BY <2>1
<1> QED
  BY <1>3, <1>6, <1>7, <1>8, <1>9

LEMMA QuietHolds ==
  Spec => [](loop \in Programs /\ QuietInv)
<1>1. Init => loop \in Programs /\ QuietInv
  <2> SUFFICES ASSUME Init
               PROVE  loop \in Programs /\ QuietInv
    OBVIOUS
  <2>1. loop \in Programs /\ LoopOK(loop)
    BY LoopAssumption DEF Init
  <2>2. InitialState \in PathState(loop)
    <3>1. Size(loop) \in Nat /\ Size(loop) >= 1
      BY <2>1, LoopNodes
    <3>2. [x \in Pairs(loop) |-> x[1]] \in [Pairs(loop) -> loop.value]
      BY DEF Pairs
    <3>3. Pair = Pairs(loop)
      BY DEF Pair, Pairs
    <3> QED
      BY <3>1, <3>2, <3>3 DEF InitialState, PathState, Exit
  <2>3. OfValue(loop, InitialState.path_condition_in_loop)
    BY DEF InitialState, OfValue, Pair
  <2>4. InitialState \in Quiet(loop)
    BY <2>2, <2>3 DEF Quiet, InitialState
  <2>5. states \in Seq(Quiet(loop))
    BY <2>4 DEF Init
  <2> QED
    BY <2>1, <2>5 DEF Init, QuietInv
<1>2. loop \in Programs /\ QuietInv /\ [Next]_vars => (loop \in Programs /\ QuietInv)'
  <2> SUFFICES ASSUME loop \in Programs, QuietInv, [Next]_vars
               PROVE  loop' \in Programs /\ QuietInv'
    OBVIOUS
  <2>1. LoopOK(loop)
    BY LoopAssumption
  <2>2. CASE Run
    <3> SUFFICES ASSUME CallFree(loop)
                 PROVE  states' \in Seq(Quiet(loop)) /\ final_states' \subseteq Quiet(loop)
      BY <2>2 DEF Run, QuietInv
    <3>1. states # <<>> /\ states \in Seq(Quiet(loop)) /\ final_states \subseteq Quiet(loop)
      BY <2>2 DEF Run, QuietInv
    <3>2. cur_state \in Quiet(loop) /\ Tail(states) \in Seq(Quiet(loop))
      BY <3>1 DEF cur_state
    <3>3. ASSUME Continue(<<>>)
          PROVE  states' \in Seq(Quiet(loop))
      BY <3>2, <3>3 DEF Continue
    <3>4. CASE DropBackEdge
      BY <3>1, <3>3, <3>4 DEF DropBackEdge
    <3>5. CASE Finish
      BY <3>1, <3>2, <3>3, <3>5 DEF Finish
    <3>6. CASE Leave
      BY <3>1, <3>3, <3>6 DEF Leave
    <3>7. CASE Test
      <4>1. [cur_state EXCEPT !.status = "RUNNING"] \in Quiet(loop)
        BY <3>2 DEF Quiet, PathState
      <4>2. Continue(<<[cur_state EXCEPT !.status = "RUNNING"]>>) => states' \in Seq(Quiet(loop))
        BY <3>2, <4>1 DEF Continue
      <4> QED
        BY <3>1, <3>3, <3>7, <4>2 DEF Test
    <3>8. CASE Step
      <4>1. cur_state.pc # 0 /\ Continue(step(cur_state)) /\ final_states' = final_states
        BY <3>8 DEF Step, InBody, is_exit_state, Exit
      <4>2. step(cur_state) \in Seq(Quiet(loop))
        BY <2>1, <3>2, <4>1, StepQuiet
      <4> QED
        BY <3>1, <3>2, <4>1, <4>2 DEF Continue
    <3> QED
      BY <2>2, <3>4, <3>5, <3>6, <3>7, <3>8 DEF Run
  <2>3. CASE Traced \/ Summarize \/ Enumerate \/ UNCHANGED vars
    BY <2>3 DEF Traced, Summarize, Enumerate, vars, QuietInv
  <2> QED
    BY <2>2, <2>3 DEF Next
<1> QED
  BY <1>1, <1>2, PTL DEF Spec

LEMMA NoCalls ==
  ASSUME NEW l, LoopOK(l), \A i \in DOMAIN l.node : l.node[i].op # "call", NEW x \in Pairs(l)
  PROVE  End(l, x).calls = 0
<1> DEFINE c == Course(l, x)
           n == Size(l)
           S == {k \in 0..n : c[k].calls = 0}
<1>1. n \in Nat /\ DOMAIN l.node = 1..n
  BY LoopNodes
<1>2. c[0] = Began(x) /\ \A i \in 1..n : c[i] = Turn(l, x, c[i - 1], i)
  BY CourseIs
<1> HIDE DEF c, n
<1>3. 0 \in S
  BY <1>1, <1>2 DEF Began
<1>4. ASSUME NEW k \in 0..(n - 1), k \in S
      PROVE  k + 1 \in S
  <2>1. k + 1 \in 1..n /\ k + 1 \in 0..n /\ (k + 1) - 1 = k
    BY <1>1
  <2>2. c[k + 1] = Turn(l, x, c[k], k + 1) /\ l.node[k + 1].op # "call"
    BY <1>1, <1>2, <2>1
  <2> QED
    BY <1>4, <2>1, <2>2 DEF Turn, Executed
<1>5. 0..n \subseteq S
  <2> HIDE DEF S
  <2> QED
    BY <1>1, <1>3, <1>4, InductionUpTo
<1>6. n \in 0..n
  BY <1>1
<1> QED
  BY <1>5, <1>6 DEF End, c, n

\* get_conditions_and_updates: in a loop that asks for nothing the counter of
\* answers never moves.
THEOREM CountersFollowCallFree ==
  Spec => [](WhileLoop(loop) /\ CallFree(loop) => CountersFollow)
<1>1. IInv /\ loop \in Programs /\ QuietInv
        => (WhileLoop(loop) /\ CallFree(loop) => CountersFollow)
  <2> SUFFICES ASSUME IInv, QuietInv, WhileLoop(loop), CallFree(loop),
                      NEW s \in final_states, NEW x \in s.path_condition
               PROVE  Iteration(x[1], x[2]).calls = IF Advances(s) THEN 1 ELSE 0
    BY DEF CountersFollow
  <2>1. LoopOK(loop) /\ s \in Quiet(loop)
    BY LoopAssumption DEF IInv, QuietInv
  <2>2. x \in Pairs(loop)
    BY <2>1 DEF Quiet, PathState
  <2>3. x = <<x[1], x[2]>>
    BY <2>2 DEF Pairs
  <2>4. Iteration(x[1], x[2]).calls = 0
    BY <2>1, <2>2, <2>3, IterationIs, NoCalls DEF CallFree
  <2>5. ~Advances(s)
    BY <2>1 DEF Advances, Asks, Quiet, OfValue
  <2> QED
    BY <2>4, <2>5
<1> QED
  BY <1>1, IInvHolds, QuietHolds, PTL

(***************************************************************************)
(* The instructions that an iteration comes to                             *)
(***************************************************************************)
Comes(l, x, k) ==
  k \in 1..Size(l) /\ Course(l, x)[k - 1].pc = k /\ Course(l, x)[k - 1].end = "going"

LEMMA BlockNodes ==
  ASSUME NEW l, LoopOK(l), NEW i \in 1..Size(l)
  PROVE  LET n == l.node[i]
         IN  /\ ~Terminator(n) => n.to = i + 1 /\ i + 1 \in 1..Size(l)
                                  /\ l.node[i + 1].block = n.block
             /\ Terminator(n) => \A j \in 1..Size(l) : j > i => l.node[j].block # n.block
             /\ Terminator(n) => \A j \in {n.to, n.other} :
                                   j \in {0, 1} \/ l.node[j - 1].block # l.node[j].block
<1> DEFINE n == l.node[i]
<1>1. Size(l) \in Nat /\ i \in DOMAIN l.node /\ DOMAIN l.node = 1..Size(l) /\ n.to \in 0..Size(l)
  BY LoopNodes
<1>2. /\ ~Terminator(n) => n.to = i + 1 /\ l.node[n.to].block = n.block
      /\ Terminator(n) => /\ \A j \in {n.to, n.other} \ {Exit, 1} :
                               l.node[j - 1].block # l.node[j].block
                          /\ \A j \in DOMAIN l.node : j > i => l.node[j].block # n.block
  BY <1>1 DEF LoopOK
<1> HIDE DEF n
<1>3. ASSUME ~Terminator(n)
      PROVE  n.to = i + 1 /\ i + 1 \in 1..Size(l) /\ l.node[i + 1].block = n.block
  <2>1. n.to = i + 1 /\ l.node[n.to].block = n.block
    BY <1>2, <1>3
  <2>2. i + 1 \in 1..Size(l)
    BY <1>1, <2>1
  <2> QED
    BY <2>1, <2>2
<1>4. ASSUME Terminator(n)
      PROVE  /\ \A j \in 1..Size(l) : j > i => l.node[j].block # n.block
             /\ \A j \in {n.to, n.other} :
                  j \in {0, 1} \/ l.node[j - 1].block # l.node[j].block
  BY <1>1, <1>2, <1>4 DEF Exit
<1> QED
  BY <1>3, <1>4 DEF n

\* An instruction but the first is come to from an earlier one.
LEMMA ComesFrom ==
  ASSUME NEW l, LoopOK(l), NEW x \in Pairs(l), NEW k, Comes(l, x, k), k # 1
  PROVE  \E m \in 1..(k - 1) :
           Comes(l, x, m) /\ Executed(l.node[m], x, Course(l, x)[m - 1]).pc = k
<1> DEFINE c == Course(l, x)
           n == Size(l)
           T == {m \in 0..(k - 1) : c[m].pc = k}
<1>1. /\ n \in Nat /\ k \in 1..n
      /\ c[0] = Began(x) /\ \A i \in 1..n : c[i] = Turn(l, x, c[i - 1], i)
  BY LoopNodes, CourseIs DEF Comes
<1>2. c[k - 1].pc = k /\ c[k - 1].end = "going"
  BY DEF Comes
<1> HIDE DEF c, n
<1>3. k - 1 \in T /\ T \in SUBSET Nat
  BY <1>1, <1>2
<1>4. PICK m \in T : \A i \in T : m <= i
  <2> HIDE DEF T
  <2>1. T # {}
    BY <1>3
  <2> QED
    BY <1>3, <2>1, LeastElement
<1>5. m # 0
  <2>1. c[0].pc = 1
    BY <1>1 DEF Began
  <2> QED
    BY <1>4, <2>1
<1>6. m \in 1..(k - 1) /\ m \in 1..n /\ m - 1 \in 0..(k - 1) /\ m - 1 < m
  BY <1>1, <1>5
<1>7. c[m - 1].pc # k
  BY <1>4, <1>6
<1>8. c[m] = Turn(l, x, c[m - 1], m) /\ c[m].pc = k
  BY <1>1, <1>6
<1>9. c[m - 1].pc = m /\ c[m - 1].end = "going"
        /\ Executed(l.node[m], x, c[m - 1]).pc = k
  BY <1>7, <1>8 DEF Turn
<1> QED
  BY <1>6, <1>9 DEF Comes, c, n

\* One that does not end its block has a complete iteration go on to the next.
LEMMA ComesNext ==
  ASSUME NEW l, LoopOK(l), NEW x \in Pairs(l), End(l, x).end = "again",
         NEW k, Comes(l, x, k), ~Terminator(l.node[k])
  PROVE  Comes(l, x, k + 1) /\ l.node[k + 1].block = l.node[k].block
<1> DEFINE e == Executed(l.node[k], x, Course(l, x)[k - 1])
<1>1. k \in 1..Size(l) /\ Stands(l, x, k, Course(l, x)[k - 1].next) /\ Size(l) \in Nat
  BY LoopNodes DEF Comes, Stands
<1>2. l.node[k].to = k + 1 /\ k + 1 \in 1..Size(l) /\ l.node[k + 1].block = l.node[k].block
  BY <1>1, BlockNodes
<1>3. e.pc = k + 1
  BY <1>2 DEF Executed, Terminator
<1>4. e.end # "again"
  BY <1>1, <1>2 DEF Executed, Terminator, Exit
<1>5. /\ e.end # "going" => End(l, x) = e
      /\ e.end = "going" => e.pc \in 1..Size(l) /\ Stands(l, x, e.pc, e.next)
  BY <1>1, NextStands
<1> HIDE DEF e
<1>6. Stands(l, x, k + 1, e.next)
  BY <1>3, <1>4, <1>5
<1> QED
  BY <1>2, <1>6 DEF Stands, Comes

\* A complete iteration that comes to a block comes to all of it.
LEMMA WholeBlock ==
  ASSUME NEW l, LoopOK(l), NEW x \in Pairs(l), End(l, x).end = "again",
         NEW j, Comes(l, x, j), NEW i \in 1..Size(l), l.node[i].block = l.node[j].block
  PROVE  Comes(l, x, i)
<1> DEFINE b == l.node[j].block
<1>1. Size(l) \in Nat /\ j \in 1..Size(l)
  BY LoopNodes DEF Comes
<1>2. ASSUME j < i
      PROVE  Comes(l, x, i)
  <2> DEFINE S == {m \in 0..(i - j) : Comes(l, x, j + m) /\ l.node[j + m].block = b}
  <2>1. 0 \in S
    BY <1>1, <1>2
  <2>2. ASSUME NEW m \in 0..(i - j - 1), m \in S
        PROVE  m + 1 \in S
    <3>1. j + m \in 1..Size(l) /\ j + m < i /\ j + (m + 1) = (j + m) + 1 /\ m + 1 \in 0..(i - j)
      BY <1>1, <1>2
    <3>2. ~Terminator(l.node[j + m])
      BY <2>2, <3>1, BlockNodes
    <3>3. Comes(l, x, (j + m) + 1) /\ l.node[(j + m) + 1].block = l.node[j + m].block
      BY <2>2, <3>2, ComesNext
    <3> QED
      BY <2>2, <3>1, <3>3
  <2>3. i - j \in Nat
    BY <1>1, <1>2
  <2>4. 0..(i - j) \subseteq S
    <3> HIDE DEF S
    <3> QED
      BY <2>1, <2>2, <2>3, InductionUpTo
  <2>5. i - j \in 0..(i - j) /\ j + (i - j) = i
    BY <1>1, <2>3
  <2> QED
    BY <2>4, <2>5
<1>3. ASSUME i < j
      PROVE  Comes(l, x, i)
  <2> DEFINE C == {m \in 0..(j - i) : l.node[i + m].block = b}
  <2>1. j - i \in Nat
    BY <1>1, <1>3
  <2>2. 0 \in C
    BY <1>1, <2>1
  <2>3. ASSUME NEW m \in 0..(j - i - 1), m \in C
        PROVE  m + 1 \in C
    <3>1. i + m \in 1..Size(l) /\ i + m < j /\ i + (m + 1) = (i + m) + 1 /\ m + 1 \in 0..(j - i)
      BY <1>1, <1>3
    <3>2. ~Terminator(l.node[i + m])
      BY SMTT(90), <1>1, <2>3, <3>1, BlockNodes
    <3>3. l.node[(i + m) + 1].block = l.node[i + m].block
      BY <3>1, <3>2, BlockNodes
    <3> QED
      BY <2>3, <3>1, <3>3
  <2>4. 0..(j - i) \subseteq C
    <3> HIDE DEF C
    <3> QED
      BY <2>1, <2>2, <2>3, InductionUpTo
  <2>5. ASSUME NEW k \in i..j
        PROVE  l.node[k].block = b
    <3>1. k - i \in 0..(j - i) /\ i + (k - i) = k
      BY <1>1
    <3> QED
      BY <2>4, <3>1
  <2> DEFINE S == {m \in 0..(j - i) : Comes(l, x, j - m)}
  <2> HIDE DEF C
  <2>6. 0 \in S
    BY <1>1, <2>1
  <2>7. ASSUME NEW m \in 0..(j - i - 1), m \in S
        PROVE  m + 1 \in S
    <3> DEFINE k == j - m
    <3>1. k \in 1..Size(l) /\ k > i /\ k # 1 /\ k - 1 \in i..j /\ k \in i..j
          /\ j - (m + 1) = k - 1 /\ m + 1 \in 0..(j - i)
      BY <1>1, <1>3
    <3>2. Comes(l, x, k)
      BY <2>7
    <3> HIDE DEF k
    <3>3. PICK h \in 1..(k - 1) :
            Comes(l, x, h) /\ Executed(l.node[h], x, Course(l, x)[h - 1]).pc = k
      BY <3>1, <3>2, ComesFrom
    <3>4. k \in {l.node[h].to, l.node[h].other}
          /\ (l.node[h].op # "branch" => k = l.node[h].to)
      BY <3>3 DEF Executed
    <3>5. l.node[k - 1].block = l.node[k].block
      BY <2>5, <3>1
    <3>6. h \in 1..Size(l)
      BY <3>3 DEF Comes
    <3>7. ~Terminator(l.node[h])
      BY SMTT(90), ZenonT(90), <1>1, <3>1, <3>4, <3>5, <3>6, BlockNodes
    <3>8. k = h + 1
      <4>1. l.node[h].to = h + 1
        BY <3>6, <3>7, BlockNodes
      <4> QED
        BY <3>4, <3>7, <4>1 DEF Terminator
    <3>9. k - 1 = h
      BY <3>1, <3>6, <3>8
    <3> QED
      BY <3>1, <3>3, <3>9
  <2>8. 0..(j - i) \subseteq S
    <3> HIDE DEF S
    <3> QED
      BY <2>1, <2>6, <2>7, InductionUpTo
  <2>9. j - i \in 0..(j - i) /\ j - (j - i) = i
    BY <1>1, <2>1
  <2> QED
    BY <2>8, <2>9
<1>4. i = j \/ i < j \/ j < i
  BY <1>1
<1> QED
  BY <1>2, <1>3, <1>4

\* An iteration that comes to a call asks for an answer.
LEMMA CallAsks ==
  ASSUME NEW l, LoopOK(l), NEW x \in Pairs(l), NEW i, Comes(l, x, i), l.node[i].op = "call"
  PROVE  End(l, x).calls >= 1
<1> DEFINE c == Course(l, x)
           n == Size(l)
           S == {m \in 0..(n - i) : c[i + m].calls >= 1}
<1>1. /\ n \in Nat /\ i \in 1..n
      /\ \A k \in 1..n : c[k] = Turn(l, x, c[k - 1], k)
      /\ \A k \in 0..n : c[k].calls \in Nat
  <2>1. \A k \in 0..n : c[k] \in Progress(l)
    BY CourseIs
  <2> QED
    BY <2>1, LoopNodes, CourseIs DEF Comes, Progress
<1>2. c[i - 1].pc = i /\ c[i - 1].end = "going" /\ i - 1 \in 0..n
  BY <1>1 DEF Comes
<1> HIDE DEF c, n
<1>3. 0 \in S
  <2>1. c[i] = Executed(l.node[i], x, c[i - 1])
    BY <1>1, <1>2 DEF Turn
  <2>2. c[i].calls = c[i - 1].calls + 1
    BY <2>1 DEF Executed
  <2> QED
    BY <1>1, <1>2, <2>2
<1>4. ASSUME NEW m \in 0..(n - i - 1), m \in S
      PROVE  m + 1 \in S
  <2>1. i + m \in 0..n /\ (i + m) + 1 \in 1..n /\ ((i + m) + 1) - 1 = i + m
        /\ i + (m + 1) = (i + m) + 1 /\ m + 1 \in 0..(n - i)
    BY <1>1
  <2>2. c[(i + m) + 1] = Turn(l, x, c[i + m], (i + m) + 1)
    BY <1>1, <2>1
  <2>3. c[(i + m) + 1].calls \in {c[i + m].calls, c[i + m].calls + 1, c[i + m].calls + 0}
    BY SMTT(90), <2>2 DEF Turn, Executed
  <2>4. c[i + m].calls \in Nat /\ c[i + m].calls >= 1
    BY <1>1, <1>4, <2>1
  <2> QED
    BY <2>1, <2>3, <2>4
<1>5. n - i \in Nat
  BY <1>1
<1>6. 0..(n - i) \subseteq S
  <2> HIDE DEF S
  <2> QED
    BY <1>3, <1>4, <1>5, InductionUpTo
<1>7. n - i \in 0..(n - i) /\ i + (n - i) = n
  BY <1>1
<1>8. c[n].calls >= 1
  BY <1>6, <1>7
<1> QED
  BY <1>8 DEF End, c, n

\* A complete iteration comes to the jump at the end of the latch.
LEMMA ComesToLatch ==
  ASSUME NEW l, LoopOK(l), WhileLoop(l), NEW x \in Pairs(l), End(l, x).end = "again"
  PROVE  \E k : Comes(l, x, k) /\ l.node[k].block = l.latch
<1> DEFINE c == Course(l, x)
           n == Size(l)
           T == {m \in 0..n : c[m].end = "again"}
<1>1. /\ n \in Nat /\ n \in 0..n
      /\ c[0] = Began(x) /\ \A k \in 1..n : c[k] = Turn(l, x, c[k - 1], k)
  BY LoopNodes, CourseIs
<1>2. n \in T /\ T \in SUBSET Nat
  BY <1>1 DEF End
<1> HIDE DEF c, n
<1>3. PICK m \in T : \A i \in T : m <= i
  <2> HIDE DEF T
  <2>1. T # {}
    BY <1>2
  <2> QED
    BY <1>2, <2>1, LeastElement
<1>4. m # 0
  <2>1. c[0].end = "going"
    BY <1>1 DEF Began
  <2> QED
    BY <1>3, <2>1
<1>5. m \in 1..n /\ m - 1 \in 0..n /\ m - 1 < m
  BY <1>1, <1>4
<1>6. c[m - 1].end # "again"
  BY <1>3, <1>5
<1>7. c[m] = Turn(l, x, c[m - 1], m) /\ c[m].end = "again"
  BY <1>1, <1>5
<1>8. c[m - 1].pc = m /\ c[m - 1].end = "going"
        /\ Executed(l.node[m], x, c[m - 1]).end = "again"
  BY <1>6, <1>7 DEF Turn
<1>9. l.node[m].to = 1 \/ l.node[m].other = 1
  BY <1>8 DEF Executed
<1>10. l.node[m].block = l.latch
  BY <1>5, <1>9, LatchJumps DEF n
<1> QED
  BY <1>5, <1>8, <1>10 DEF Comes, c, n

\* The instructions that some way comes to without the block b.
Avoiding(b) ==
  LET avoiding[i \in DOMAIN loop.node] ==
        i = 1 \/ \E j \in 1..(i - 1) : /\ avoiding[j] /\ loop.node[j].block # b
                                     /\ i \in {loop.node[j].to, loop.node[j].other}
  IN  avoiding
Avoids(a, b, i) ==
  i = 1 \/ \E j \in 1..(i - 1) : /\ a[j] /\ loop.node[j].block # b
                               /\ i \in {loop.node[j].to, loop.node[j].other}

LEMMA AvoidsSame ==
  ASSUME NEW a, NEW h, NEW b, NEW i \in Nat, \A j \in 1..(i - 1) : a[j] = h[j]
  PROVE  Avoids(a, b, i) = Avoids(h, b, i)
BY DEF Avoids

LEMMA AvoidingIs ==
  ASSUME LoopOK(loop), NEW b
  PROVE  /\ \A i \in 1..Size(loop) : Avoiding(b)[i] = Avoids(Avoiding(b), b, i)
         /\ Dominates(b) <=> \A i \in 1..Size(loop) :
              loop.node[i].block = loop.latch /\ loop.node[i].block # b => ~Avoiding(b)[i]
<1> DEFINE n == Size(loop)
           Obeys(g) == g = [i \in DOMAIN loop.node |-> Avoids(g, b, i)]
           chosen == CHOOSE g : Obeys(g)
           Up(k) == \E f : \A i \in 1..k : f[i] = Avoids(f, b, i)
           S == {k \in 0..n : Up(k)}
<1>1. Avoiding(b) = chosen
  BY DEF Avoiding, Avoids
<1>2. n \in Nat /\ DOMAIN loop.node = 1..n
  BY LoopNodes
<1> HIDE DEF n
<1>3. 0 \in S
  <2>1. Up(0)
    OBVIOUS
  <2> QED
    BY <1>2, <2>1
<1>4. ASSUME NEW k \in 0..(n - 1), k \in S
      PROVE  k + 1 \in S
  <2>1. PICK f : \A i \in 1..k : f[i] = Avoids(f, b, i)
    BY <1>4
  <2> DEFINE h == [i \in 1..(k + 1) |-> IF i <= k THEN f[i] ELSE Avoids(f, b, i)]
  <2>2. \A i \in 1..(k + 1) : h[i] = Avoids(h, b, i)
    <3> SUFFICES ASSUME NEW i \in 1..(k + 1)
                 PROVE  h[i] = Avoids(h, b, i)
      OBVIOUS
    <3>1. \A j \in 1..(i - 1) : f[j] = h[j]
      BY <1>2
    <3>2. h[i] = Avoids(f, b, i)
      BY <1>2, <2>1
    <3> HIDE DEF h
    <3> QED
      BY <3>1, <3>2, AvoidsSame
  <2> HIDE DEF h
  <2>3. Up(k + 1)
    BY <2>2
  <2> HIDE DEF Up
  <2> QED
    BY <1>2, <2>3
<1>5. Up(n)
  <2> HIDE DEF S
  <2>1. 0..n \subseteq S
    BY <1>2, <1>3, <1>4, InductionUpTo
  <2>2. n \in S
    BY <1>2, <2>1
  <2> QED
    BY <2>2 DEF S
<1>6. PICK f : \A i \in 1..n : f[i] = Avoids(f, b, i)
  BY <1>5
<1> DEFINE g == [i \in 1..n |-> f[i]]
<1>7. Obeys(g)
  <2>1. ASSUME NEW i \in 1..n
        PROVE  g[i] = Avoids(g, b, i)
    <3>1. \A j \in 1..(i - 1) : f[j] = g[j]
      BY <1>2
    <3>2. g[i] = Avoids(f, b, i)
      BY <1>6
    <3> HIDE DEF g
    <3> QED
      BY <3>1, <3>2, AvoidsSame
  <2>2. g = [i \in 1..n |-> g[i]]
    OBVIOUS
  <2> HIDE DEF g
  <2> QED
    BY <1>2, <2>1, <2>2
<1>8. Obeys(chosen)
  <2> HIDE DEF Obeys
  <2> QED
    BY <1>7, Zenon
<1> HIDE DEF chosen
<1>9. \A i \in 1..n : chosen[i] = Avoids(chosen, b, i)
  BY <1>2, <1>8
<1>10. Dominates(b) <=> \A i \in DOMAIN loop.node :
         loop.node[i].block = loop.latch /\ loop.node[i].block # b => ~Avoiding(b)[i]
  BY DEF Dominates, Avoiding
<1> QED
  BY <1>1, <1>2, <1>9, <1>10 DEF n

\* An iteration that comes to an instruction without the block b avoids b.
LEMMA AvoidsOrPasses ==
  ASSUME LoopOK(loop), NEW x \in Pairs(loop), NEW b, NEW k, Comes(loop, x, k)
  PROVE  Avoiding(b)[k] \/ \E j : Comes(loop, x, j) /\ loop.node[j].block = b
<1> SUFFICES ASSUME \A j : Comes(loop, x, j) => loop.node[j].block # b,
                    ~Avoiding(b)[k]
             PROVE  FALSE
  OBVIOUS
<1> DEFINE T == {i \in 1..Size(loop) : Comes(loop, x, i) /\ ~Avoiding(b)[i]}
<1>1. k \in T /\ T \in SUBSET Nat
  BY DEF Comes
<1>2. PICK i \in T : \A j \in T : i <= j
  <2> HIDE DEF T
  <2>1. T # {}
    BY <1>1
  <2> QED
    BY <1>1, <2>1, LeastElement
<1>3. /\ i \in 1..Size(loop) /\ Size(loop) \in Nat
      /\ \A j \in 1..Size(loop) : Avoiding(b)[j] = Avoids(Avoiding(b), b, j)
  BY LoopNodes, AvoidingIs
<1>4. i # 1
  BY <1>2, <1>3 DEF Avoids
<1>5. PICK m \in 1..(i - 1) :
        Comes(loop, x, m) /\ Executed(loop.node[m], x, Course(loop, x)[m - 1]).pc = i
  BY <1>2, <1>4, ComesFrom
<1>6. m \in 1..Size(loop) /\ m < i
  BY <1>3
<1>7. Avoiding(b)[m]
  <2>1. m \in T => i <= m
    BY <1>2
  <2>2. m \notin T
    BY <1>3, <1>6, <2>1
  <2> QED
    BY <1>5, <1>6, <2>2
<1>8. i \in {loop.node[m].to, loop.node[m].other} /\ loop.node[m].block # b
  BY <1>5 DEF Executed
<1>9. Avoids(Avoiding(b), b, i)
  BY <1>5, <1>7, <1>8 DEF Avoids
<1> QED
  BY <1>2, <1>3, <1>9

LEMMA DominatedAsks ==
  ASSUME LoopOK(loop), WhileLoop(loop), NEW i \in Calls, Dominates(loop.node[i].block),
         NEW x \in Pairs(loop), End(loop, x).end = "again"
  PROVE  End(loop, x).calls >= 1
<1> DEFINE b == loop.node[i].block
<1>1. i \in 1..Size(loop) /\ loop.node[i].op = "call"
  BY LoopNodes DEF Calls
<1>2. PICK k : Comes(loop, x, k) /\ loop.node[k].block = loop.latch
  BY ComesToLatch
<1>3. \E j : Comes(loop, x, j) /\ loop.node[j].block = b
  <2>1. CASE b = loop.latch
    BY <1>2, <2>1
  <2>2. CASE b # loop.latch
    <3>1. ~Avoiding(b)[k]
      <4>1. k \in 1..Size(loop)
        BY <1>2 DEF Comes
      <4> QED
        BY <1>2, <2>2, <4>1, AvoidingIs
    <3> QED
      BY <1>2, <3>1, AvoidsOrPasses
  <2> QED
    BY <2>1, <2>2
<1>4. Comes(loop, x, i)
  BY <1>1, <1>3, WholeBlock
<1> QED
  BY <1>1, <1>4, CallAsks

\* The calls are in the body behind the header, and an iteration that leaves asks
\* for no answer.
AsksInside ==
  /\ \A i \in Calls : loop.node[i].block # Header
  /\ \A x \in Pairs(loop) : End(loop, x).end = "left" => End(loop, x).calls = 0

\* How often a complete iteration of the loop asks.
PerIteration == IF Calls = {} THEN 0 ELSE 1

LEMMA AsksOnce ==
  ASSUME Followed, Counted, \A i \in Calls : Dominates(loop.node[i].block),
         NEW x \in Pairs(loop), End(loop, x).end = "again"
  PROVE  End(loop, x).calls = PerIteration
<1>1. LoopOK(loop) /\ WhileLoop(loop)
  BY DEF Followed
<1>2. CASE Calls = {}
  BY <1>1, <1>2, NoCalls DEF Calls, PerIteration
<1>3. CASE Calls # {}
  <2>1. PICK i \in Calls : TRUE
    BY <1>3
  <2>2. End(loop, x).calls >= 1
    BY <1>1, <2>1, DominatedAsks
  <2>3. PICK s \in final_states : x \in s.path_condition
    BY CompleteTurn
  <2>4. End(loop, x).calls \in {0, 1}
    BY <2>3 DEF Counted
  <2> QED
    BY <1>3, <2>2, <2>4 DEF PerIteration
<1> QED
  BY <1>2, <1>3

\* What a run that leaves has asked for.
LEMMA RunAsks ==
  ASSUME Followed, Counted, AsksInside, \A i \in Calls : Dominates(loop.node[i].block),
         NEW p \in loop.point, RunOf(p).end = "left"
  PROVE  RunOf(p).calls = IF Calls = {} THEN 0 ELSE N(p)
<1> DEFINE r == RunUpTo(p)
<1>1. PICK K \in 0..MaxIterations :
        /\ \A m \in 0..K : r[m].end = "again"
        /\ r[K + 1].end = "left" /\ RunOf(p) = r[K + 1]
  BY RunLeaves
<1>2. K \in 0..K /\ 0 \in 0..K /\ K \in Nat /\ MaxIterations \in Nat /\ LoopOK(loop)
  BY LoopAssumption DEF Followed
<1>3. /\ \A m \in 0..K : Together(p, m)
      /\ \A m \in 0..(K - 1) : loop_guard(p, m)
  BY <1>1, Iterated
<1>4. ~loop_guard(p, K)
  BY <1>1, <1>2, <1>3, GuardFails
<1>5. N(p) = K
  BY <1>3, <1>4, CountFound
<1>6. ASSUME NEW m \in 0..K
      PROVE  /\ PairAt(p, m) \in Pairs(loop)
             /\ r[m + 1].calls = r[m].calls + End(loop, PairAt(p, m)).calls
             /\ r[m + 1].end = End(loop, PairAt(p, m)).end
  <2> DEFINE e == End(loop, PairAt(p, m))
  <2>1. m \in 0..MaxIterations /\ Together(p, m) /\ r[m].end = "again"
    BY <1>1, <1>2, <1>3
  <2>2. PairAt(p, m) \in Pairs(loop)
    BY <1>2, <2>1, PairAtType
  <2>3. r[m + 1] = [value |-> IF e.end = "again" THEN e.next ELSE r[m].value,
                    calls |-> r[m].calls + e.calls, end |-> e.end]
    BY <1>2, <2>1, NextRow
  <2> QED
    BY <2>2, <2>3
<1> HIDE DEF r
<1> DEFINE S == {m \in 0..K : r[m].calls = IF Calls = {} THEN 0 ELSE m}
<1>7. 0 \in S
  <2>1. r[0] = AtEntry(p)
    BY RunIs DEF r
  <2>2. r[0].calls = 0
    BY <2>1 DEF AtEntry
  <2> QED
    BY <1>2, <2>2
<1>8. ASSUME NEW m \in 0..(K - 1), m \in S
      PROVE  m + 1 \in S
  <2>1. m \in 0..K /\ m + 1 \in 0..K
    BY <1>2
  <2>2. End(loop, PairAt(p, m)).end = "again" /\ PairAt(p, m) \in Pairs(loop)
    BY <1>1, <1>6, <2>1
  <2>3. End(loop, PairAt(p, m)).calls = PerIteration
    BY <2>2, AsksOnce
  <2>4. r[m + 1].calls = r[m].calls + PerIteration
    BY <1>6, <2>1, <2>3
  <2> QED
    BY <1>8, <2>1, <2>4 DEF PerIteration
<1>9. 0..K \subseteq S
  <2> HIDE DEF S
  <2> QED
    BY <1>2, <1>7, <1>8, InductionUpTo
<1>10. r[K].calls = IF Calls = {} THEN 0 ELSE K
  BY <1>2, <1>9
<1>11. End(loop, PairAt(p, K)).calls = 0
  BY <1>1, <1>2, <1>6 DEF AsksInside
<1>12. RunOf(p).calls = r[K].calls + 0
  BY <1>1, <1>2, <1>6, <1>11
<1> QED
  BY <1>2, <1>5, <1>10, <1>12

\* execute_if_summarizable: the state behind an exact summary that calls itself
\* complete lists as many answers as the run asks for, if the calls are in the body
\* and an iteration that leaves asks for none.
THEOREM EvidenceIsComplete ==
  ASSUME "summarizer" \notin GivesUp
  PROVE  Spec => [](WhileLoop(loop) /\ RunsEnd /\ AsksInside /\ CountersFollow => EvidenceCounts)
<1>1. IInv => (WhileLoop(loop) /\ RunsEnd /\ AsksInside /\ CountersFollow => EvidenceCounts)
  <2> SUFFICES ASSUME IInv, WhileLoop(loop), RunsEnd, AsksInside, CountersFollow, Summary,
                      ~outcome.over, outcome.evidence.complete, NEW p \in outcome.cond
               PROVE  outcome.evidence.listed[p] = RunOf(p).calls
    BY DEF EvidenceCounts
  <2>1. Followed /\ Counted
    BY SummaryFollowed
  <2>2. RunOf(p).end = "left" /\ p \in loop.point
    BY SummaryReal
  <2>3. PICK approximate \in BOOLEAN, known \in BOOLEAN :
          outcome = Summarized(approximate, known) /\ (known => loop.linear)
    BY SummaryIs
  <2>4. outcome.evidence = EvidenceOf(approximate, known)
    BY <2>3 DEF Summarized
  <2>5. \A i \in Calls : Dominates(loop.node[i].block)
    BY <2>4 DEF EvidenceOf
  <2>6. RunOf(p).calls = IF Calls = {} THEN 0 ELSE N(p)
    BY <2>1, <2>2, <2>5, RunAsks
  <2>7. outcome.evidence.listed[p] =
          IF Calls = {} THEN 0
          ELSE N(p) + IF \E i \in Calls : loop.node[i].block = Header THEN 2 ELSE 0
    BY <2>2, <2>4 DEF EvidenceOf
  <2>8. N(p) \in Nat
    <3>1. N(p) \in 0..MaxIterations
      <4>1. Iterations(p) # {}
        BY <2>1, <2>2, RunSummed
      <4>2. (CHOOSE n \in Iterations(p) : TRUE) \in Iterations(p)
        BY <4>1
      <4> QED
        BY <4>1, <4>2 DEF N, Iterations
    <3> QED
      BY <3>1, LoopAssumption
  <2>9. ~\E i \in Calls : loop.node[i].block = Header
    BY DEF AsksInside
  <2> QED
    BY <2>6, <2>7, <2>8, <2>9
<1> QED
  BY <1>1, IInvHolds, PTL
=============================================================================
