------------------------ MODULE FunctionSummaryProofs ------------------------
(***************************************************************************)
(* Proofs about FunctionSummary: the paths that RecExecution keeps of a    *)
(* function are the cases of its activations.                              *)
(***************************************************************************)
EXTENDS FunctionSummary, InductionLemmas, FiniteSetTheorems

(***************************************************************************)
(* One activation, instruction by instruction                              *)
(***************************************************************************)
Size(p, i) == Len(p.function[i])
Body(p, i) == p.function[i]

\* How far an activation of function i of the program p has come.
Progress(p, i) ==
  [pc : 1..Size(p, i), value : p.value, calls : Nat, sum : Int,
   end : {"going", "returned", "blocked", "failed"}]
Began(v) == [pc |-> 1, value |-> v, sum |-> 0, calls |-> 0, end |-> "going"]

Turn(p, i, before, k) ==
  LET n == p.function[i][k]
  IN  IF before.pc # k \/ before.end # "going" THEN before
      ELSE Executed(p.kind, n, before, AtOnce(n.callee, n.update[before.value]))

\* The progress of the activation at v behind each instruction.
Course(p, i, v) ==
  LET at[k \in 0..Size(p, i)] == IF k = 0 THEN Began(v) ELSE Turn(p, i, at[k - 1], k)
  IN  at
End(p, i, v) == Course(p, i, v)[Size(p, i)]

LEMMA Instructions ==
  ASSUME NEW p, ProgramOK(p), NEW i \in DOMAIN p.function
  PROVE  /\ Size(p, i) \in Nat /\ Size(p, i) >= 1 /\ DOMAIN p.function[i] = 1..Size(p, i)
         /\ \A j \in 1..Size(p, i) :
              LET n == p.function[i][j]
              IN  /\ n.op \in {"set", "branch", "jump", "assume", "assert", "divide",
                               "call", "error", "return"}
                  /\ n.to \in 1..Size(p, i) /\ n.other \in 1..Size(p, i)
                  /\ n.on \subseteq p.value /\ n.update \in [p.value -> p.value]
                  /\ n.op = "call" => n.callee \in DOMAIN p.function
                  /\ n.op = "call" /\ p.kind = "pointers" => \A v \in p.value : n.update[v] = v
                  /\ n.result \in [p.value -> Int] /\ n.weight \in Int
                  /\ n.op \notin {"error", "return"} => n.to > j
                  /\ n.op = "branch" => n.other > j
<1>1. /\ Size(p, i) \in Nat /\ Size(p, i) >= 1 /\ DOMAIN p.function[i] = 1..Size(p, i)
      /\ \A j \in DOMAIN p.function[i] :
           InstructionOK(p, p.function[i], j) /\ BlockOK(p.function[i], j)
  BY DEF ProgramOK, Size
<1>2. ASSUME NEW j \in 1..Size(p, i)
      PROVE  LET n == p.function[i][j]
             IN  /\ n.op \in {"set", "branch", "jump", "assume", "assert", "divide",
                              "call", "error", "return"}
                 /\ n.to \in 1..Size(p, i) /\ n.other \in 1..Size(p, i)
                 /\ n.on \subseteq p.value /\ n.update \in [p.value -> p.value]
                 /\ n.op = "call" => n.callee \in DOMAIN p.function
                 /\ n.op = "call" /\ p.kind = "pointers" => \A v \in p.value : n.update[v] = v
                 /\ n.result \in [p.value -> Int] /\ n.weight \in Int
                 /\ n.op \notin {"error", "return"} => n.to > j
                 /\ n.op = "branch" => n.other > j
  <2> DEFINE n == p.function[i][j]
             body == p.function[i]
  <2>1. InstructionOK(p, body, j) /\ BlockOK(body, j)
    BY <1>1
  <2>2. /\ n.op \in {"set", "branch", "jump", "assume", "assert", "divide",
                     "call", "error", "return"}
        /\ {n.to, n.other} \subseteq 1..Size(p, i)
        /\ n.on \subseteq p.value /\ n.update \in [p.value -> p.value]
        /\ n.op = "call" => n.callee \in DOMAIN p.function
        /\ n.op = "call" /\ p.kind = "pointers" => \A v \in p.value : n.update[v] = v
        /\ n.result \in [p.value -> Int] /\ n.weight \in Int
    BY <1>1, <2>1 DEF InstructionOK
  <2>3. /\ n.op \notin {"branch", "jump", "error", "return"} => n.to = j + 1
        /\ n.op \in {"branch", "jump"} => n.to > j /\ n.other > j
    BY <2>1 DEF BlockOK
  <2> HIDE DEF n
  <2>4. n.op \notin {"error", "return"} => n.to > j
    BY <1>1, <2>2, <2>3
  <2> QED
    BY <2>2, <2>3, <2>4 DEF n
<1> QED
  BY <1>1, <1>2

LEMMA ExecutedType ==
  ASSUME NEW p, ProgramOK(p), NEW i \in DOMAIN p.function, NEW k \in 1..Size(p, i),
         NEW before \in Progress(p, i)
  PROVE  LET n == p.function[i][k]
         IN  Executed(p.kind, n, before, AtOnce(n.callee, n.update[before.value])) \in Progress(p, i)
<1> DEFINE n == p.function[i][k]
           w == before.value
           u == n.update[w]
           to == IF n.op = "branch" /\ w \notin n.on THEN n.other ELSE n.to
           value == IF n.op = "set" THEN u
                    ELSE IF n.op = "call" /\ p.kind = "pointers" THEN u ELSE w
           calls == before.calls + IF n.op = "call" THEN 1 ELSE 0
           sum == IF n.op = "call" THEN before.sum + 0
                  ELSE IF n.op = "return" THEN n.result[w] + n.weight * before.sum
                  ELSE before.sum
           end == IF n.op = "return" THEN "returned"
                  ELSE IF n.op = "error" \/ (n.op = "assert" /\ w \notin n.on) THEN "failed"
                  ELSE IF n.op = "assume" /\ w \notin n.on THEN "blocked" ELSE "going"
<1>1. w \in p.value /\ before.calls \in Nat /\ before.sum \in Int
  BY DEF Progress
<1>2. to \in 1..Size(p, i) /\ u \in p.value /\ n.result[w] \in Int /\ n.weight \in Int
  BY SMTT(90), <1>1, Instructions
<1>3. Executed(p.kind, n, before, AtOnce(n.callee, u)) =
        [pc |-> to, value |-> value, calls |-> calls, sum |-> sum, end |-> end]
  BY DEF Executed, AtOnce
<1> HIDE DEF n, w, u, to
<1>4. calls \in Nat /\ value \in p.value
  BY <1>1, <1>2
<1>5. sum \in Int
  <2>1. n.weight * before.sum \in Int
    BY <1>1, <1>2
  <2> QED
    BY <1>1, <1>2, <2>1
<1>6. end \in {"going", "returned", "blocked", "failed"}
  OBVIOUS
<1> HIDE DEF value, calls, sum, end
<1>7. [pc |-> to, value |-> value, calls |-> calls, sum |-> sum, end |-> end] \in Progress(p, i)
  BY <1>2, <1>4, <1>5, <1>6 DEF Progress
<1> QED
  BY <1>3, <1>7 DEF n, w, u

\* Course is the recursive function it is written as, and ends in Shallow.
LEMMA CourseIs ==
  ASSUME NEW p, ProgramOK(p), NEW i \in DOMAIN p.function, NEW v \in p.value
  PROVE  /\ Course(p, i, v) \in [0..Size(p, i) -> Progress(p, i)]
         /\ Course(p, i, v)[0] = Began(v)
         /\ \A k \in 1..Size(p, i) :
              Course(p, i, v)[k] = Turn(p, i, Course(p, i, v)[k - 1], k)
<1> DEFINE n == Size(p, i)
           b == Began(v)
           X == Progress(p, i)
           go == [y \in X \X (1..n) |-> Turn(p, i, y[1], y[2])]
           Obeys(g) == g = [k \in 0..n |-> IF k = 0 THEN b ELSE Turn(p, i, g[k - 1], k)]
           chosen == CHOOSE g : Obeys(g)
<1>1. Course(p, i, v) = chosen
  BY DEF Course
<1>2. n \in Nat /\ n >= 1
  BY Instructions
<1>3. b \in X
  <2>1. 1 \in 1..Size(p, i)
    BY <1>2
  <2> QED
    BY <2>1 DEF Progress, Began
<1>4. \A y \in X, k \in 1..n : go[<<y, k>>] = Turn(p, i, y, k)
  OBVIOUS
<1>5. \A y \in X, k \in 1..n : Turn(p, i, y, k) \in X
  BY ExecutedType DEF Turn
<1> HIDE DEF n, b, go, X
<1>6. Steps(X, n, go)
  BY <1>4, <1>5 DEF Steps
<1>7. PICK f : Recursive(X, b, n, go, f)
  BY <1>2, <1>3, <1>6, Recursion
<1>8. /\ f \in [0..n -> X] /\ f[0] = b
      /\ \A k \in 1..n : f[k - 1] \in X /\ f[k] = Turn(p, i, f[k - 1], k)
  <2>1. \A k \in 1..n : k - 1 \in 0..n
    BY <1>2
  <2> QED
    BY <1>4, <1>7, <2>1 DEF Recursive
<1>9. Obeys(f)
  <2>1. f = [k \in 0..n |-> f[k]]
    BY <1>8
  <2>2. \A k \in 0..n : k # 0 => k \in 1..n
    BY <1>2
  <2>3. \A k \in 0..n : f[k] = IF k = 0 THEN b ELSE Turn(p, i, f[k - 1], k)
    BY <1>8, <2>2
  <2> QED
    BY <2>1, <2>3
<1>10. Obeys(chosen)
  <2> HIDE DEF Obeys
  <2> QED
    BY <1>9, Zenon
<1> HIDE DEF chosen
<1>11. chosen[0] = b /\ \A k \in 1..n : chosen[k] = Turn(p, i, chosen[k - 1], k)
  <2>1. 0 \in 0..n /\ \A k \in 1..n : k \in 0..n /\ k # 0
    BY <1>2
  <2>2. \A k \in 0..n : chosen[k] = IF k = 0 THEN b ELSE Turn(p, i, chosen[k - 1], k)
    BY <1>10
  <2> QED
    BY <2>1, <2>2
<1>12. \A k \in 1..n : chosen[k - 1] \in X => chosen[k] = go[<<chosen[k - 1], k>>]
  BY <1>4, <1>11
<1>13. \A k \in 0..n : chosen[k] = f[k]
  BY <1>2, <1>3, <1>7, <1>11, <1>12, RecursionUnique
<1>14. chosen = [k \in 0..n |-> chosen[k]]
  BY <1>10
<1>15. chosen \in [0..n -> X]
  BY <1>8, <1>13, <1>14
<1> QED
  BY <1>1, <1>11, <1>15 DEF n, b, X

LEMMA ShallowIs ==
  ASSUME NEW i, NEW v
  PROVE  Shallow(i, v) = End(program, i, v)
BY DEF Shallow, Activation, End, Course, Turn, Began, Size

(***************************************************************************)
(* The invariant                                                           *)
(***************************************************************************)
CallsTo(p) == [callee : DOMAIN p.function, argument : [p.value -> p.value]]
Blocks(p, i) == {p.function[i][j].block : j \in 1..Size(p, i)}
PathState(p, i) ==
  [pc : 1..Size(p, i), trace : Seq(Blocks(p, i)), cond : SUBSET p.value,
   update : [p.value -> p.value],
   calls : Seq(CallsTo(p)),
   checks : SUBSET SUBSET p.value, result : [p.value -> Int], weight : Int,
   status : {"RUNNING", "TESTING", "TERMINATED", "REACH_ERROR"}]

\* The activation at v comes to the instruction k.
ComesTo(p, i, v, k) ==
  Course(p, i, v)[k - 1].pc = k /\ Course(p, i, v)[k - 1].end = "going"

\* The activation at v stands where the state s does, with its value, and has made
\* as many calls.
Stands(p, i, v, s) ==
  LET before == Course(p, i, v)[s.pc - 1]
  IN  /\ before.pc = s.pc /\ before.end = "going"
      /\ before.value = s.update[v] /\ before.calls = Len(s.calls)
Returned(p, i, v, s) ==
  LET end == End(p, i, v)
      n == p.function[i][s.pc]
  IN  /\ end.end = "returned" /\ end.value = s.update[v] /\ end.calls = Len(s.calls)
      /\ ComesTo(p, i, v, s.pc)
      /\ s.result[v] = n.result[s.update[v]] /\ s.weight = n.weight

\* The instruction k is in a block that s has left or in its present one.
InTrace(p, i, s, k) ==
  \/ p.function[i][k].block \in Range(s.trace)
  \/ p.function[i][k].block = p.function[i][s.pc].block
\* The call at k is in its place among those of s.
Noted(p, i, v, s, k) ==
  LET before == Course(p, i, v)[k - 1]
      call == s.calls[before.calls + 1]
  IN  /\ before.calls \in 0..(Len(s.calls) - 1)
      /\ call.callee = p.function[i][k].callee
      /\ call.argument[v] = p.function[i][k].update[before.value]
Passed(p, i, v, s) ==
  \A k \in 1..Size(p, i) :
    ComesTo(p, i, v, k) /\ (k < s.pc \/ s.status = "TERMINATED") =>
      InTrace(p, i, s, k) /\ (p.function[i][k].op = "call" => Noted(p, i, v, s, k))

\* What the state says of each of its values, but those that fail.
ValuesOK(p, i, s) ==
  \A v \in s.cond : End(p, i, v).end # "failed" =>
    /\ IF s.status = "TERMINATED" THEN Returned(p, i, v, s) ELSE Stands(p, i, v, s)
    /\ Passed(p, i, v, s)

\* The calls in the blocks that a state has left, and in the present one before pc.
CallsBehind(p, i, s) ==
  {j \in 1..Size(p, i) :
     /\ p.function[i][j].op = "call"
     /\ \/ p.function[i][j].block \in Range(s.trace)
        \/ p.function[i][j].block = p.function[i][s.pc].block /\ j < s.pc}
TraceOK(p, i, s) ==
  /\ s.status = "TERMINATED" => p.function[i][s.pc].op = "return"
  /\ Len(s.calls) = 0 <=> CallsBehind(p, i, s) = {}

\* The path t goes on where s has been.
Notes(p, i, s, t) ==
  LET n == p.function[i][s.pc]
  IN  IF n.op = "call"
      THEN \E call \in CallsTo(p) :
             /\ t.calls = Append(s.calls, call) /\ call.callee = n.callee
             /\ \A v \in t.cond : call.argument[v] = n.update[s.update[v]]
      ELSE t.calls = s.calls
Along(p, i, s, t) ==
  /\ TraceOK(p, i, t) /\ Notes(p, i, s, t)
  /\ \A k \in 1..Size(p, i) : InTrace(p, i, s, k) => InTrace(p, i, t, k)

Sound(p, i) == {s \in PathState(p, i) : ValuesOK(p, i, s) /\ TraceOK(p, i, s)}
Ended(p, i) == {s \in Sound(p, i) : s.status = "TERMINATED"}

\* No value is on both paths.
Apart(s, t) == s.cond \cap t.cond = {}
AllApart(st, kept) ==
  /\ \A j, k \in 1..Len(st) : j # k => Apart(st[j], st[k])
  /\ \A j \in 1..Len(st), t \in kept : Apart(st[j], t)
  /\ \A s, t \in kept : s # t => Apart(s, t)
Carried(v, st, kept) ==
  \/ \E j \in 1..Len(st) : v \in st[j].cond
  \/ \E s \in kept : v \in s.cond
Returns(p, i, v) == End(p, i, v).end = "returned"

\* The paths of a function that are waiting and those that have ended.
CasesOf(p, i, st, kept) ==
  /\ st \in Seq(Sound(p, i)) /\ kept \in Seq(Ended(p, i))
  /\ AllApart(st, Range(kept))
  /\ \A v \in p.value : Returns(p, i, v) => Carried(v, st, Range(kept))

\* A division that a value comes to is inexact there.
InexactDivisions(p) ==
  \A i \in DOMAIN p.function, v \in p.value : \A k \in 1..Size(p, i) :
    LET before == Course(p, i, v)[k - 1]
    IN  before.pc = k /\ before.end = "going" /\ p.function[i][k].op = "divide"
          => before.value \in p.function[i][k].on
\* Z3 decides the tests, and no path is lost at a division.
Decided(p) == p.kind \notin GivesUp /\ InexactDivisions(p)

Waiting(i) == IF i = current THEN states ELSE <<>>
PathsInv ==
  /\ current \in 1..Len(program.function)
  /\ DOMAIN final = Functions
  /\ \A i \in 1..current : CasesOf(program, i, Waiting(i), final[i])
  /\ \A i \in Functions : i > current => final[i] = <<>>
  /\ stage \in {"traced", "summarized"} => states = <<>> /\ current = Len(program.function)
IInv ==
  /\ program \in Programs
  /\ Decided(program) => PathsInv

(***************************************************************************)
(* Where an activation goes                                                *)
(***************************************************************************)
\* Instructions that are not its turn leave the progress as it is.
LEMMA Unmoved ==
  ASSUME NEW p, ProgramOK(p), NEW i \in DOMAIN p.function, NEW v \in p.value,
         NEW k \in 0..Size(p, i), NEW j \in 0..Size(p, i), k <= j,
         \/ Course(p, i, v)[k].end # "going"
         \/ \A m \in (k + 1)..j : Course(p, i, v)[k].pc # m
  PROVE  Course(p, i, v)[j] = Course(p, i, v)[k]
<1> DEFINE c == Course(p, i, v)
           S == {m \in 0..(j - k) : c[k + m] = c[k]}
<1>1. Size(p, i) \in Nat /\ j \in Nat /\ k \in Nat
  <2>1. Size(p, i) \in Nat
    BY Instructions
  <2> QED
    BY <2>1
<1>2. \A m \in 1..Size(p, i) : c[m] = Turn(p, i, c[m - 1], m)
  BY CourseIs
<1> HIDE DEF c
<1>3. 0 \in S
  BY <1>1
<1>4. ASSUME NEW m \in 0..(j - k - 1), m \in S
      PROVE  m + 1 \in S
  <2>1. k + m + 1 \in 1..Size(p, i) /\ k + m + 1 \in (k + 1)..j /\ (k + m + 1) - 1 = k + m
        /\ m + 1 \in 0..(j - k) /\ k + (m + 1) = k + m + 1
    BY <1>1
  <2>2. c[k + m] = c[k]
    BY <1>4
  <2>3. c[k + m + 1] = Turn(p, i, c[k], k + m + 1)
    BY <1>2, <2>1, <2>2
  <2>4. c[k].pc # k + m + 1 \/ c[k].end # "going"
    BY <2>1 DEF c
  <2> QED
    BY <2>1, <2>3, <2>4 DEF Turn
<1>5. j - k \in Nat
  BY <1>1
<1>6. 0..(j - k) \subseteq S
  <2> HIDE DEF S
  <2> QED
    BY <1>3, <1>4, <1>5, InductionUpTo
<1>7. j - k \in 0..(j - k) /\ k + (j - k) = j
  BY <1>1
<1> QED
  BY <1>6, <1>7 DEF c

\* The progress behind the instruction that the activation at v comes to at k.
Behind(p, i, v, k) ==
  LET before == Course(p, i, v)[k - 1]
      n == p.function[i][k]
  IN  Executed(p.kind, n, before, AtOnce(n.callee, n.update[before.value]))

LEMMA ExecutedIs ==
  ASSUME NEW p, ProgramOK(p), NEW i \in DOMAIN p.function, NEW v \in p.value,
         NEW k \in 1..Size(p, i)
  PROVE  LET before == Course(p, i, v)[k - 1]
             n == p.function[i][k]
             e == Behind(p, i, v, k)
         IN  /\ before \in Progress(p, i) /\ e \in Progress(p, i)
             /\ e.pc = IF n.op = "branch" /\ before.value \notin n.on THEN n.other ELSE n.to
             /\ e.value = IF n.op = "set" THEN n.update[before.value] ELSE before.value
             /\ e.calls = before.calls + IF n.op = "call" THEN 1 ELSE 0
             /\ e.end = "returned" <=> n.op = "return"
             /\ e.end = "blocked" <=> n.op = "assume" /\ before.value \notin n.on
             /\ e.end = "failed" <=>
                  n.op = "error" \/ (n.op = "assert" /\ before.value \notin n.on)
<1> DEFINE before == Course(p, i, v)[k - 1]
           n == p.function[i][k]
           e == Behind(p, i, v, k)
<1>1. before \in Progress(p, i)
  <2>1. k - 1 \in 0..Size(p, i)
    BY SMTT(90), Instructions
  <2> QED
    BY ZenonT(90), <2>1, CourseIs
<1>2. e \in Progress(p, i)
  BY <1>1, ExecutedType DEF Behind
<1>3. n.op = "call" /\ p.kind = "pointers" => n.update[before.value] = before.value
  <2>1. before.value \in p.value
    BY <1>1 DEF Progress
  <2> QED
    BY SMTT(90), <2>1, Instructions
<1>4. e = Executed(p.kind, n, before, AtOnce(n.callee, n.update[before.value]))
  BY DEF Behind
<1> HIDE DEF before, n, e
<1>5. /\ e.pc = IF n.op = "branch" /\ before.value \notin n.on THEN n.other ELSE n.to
      /\ e.value = IF n.op = "set" THEN n.update[before.value] ELSE before.value
      /\ e.calls = before.calls + IF n.op = "call" THEN 1 ELSE 0
      /\ e.end = IF n.op = "return" THEN "returned"
                 ELSE IF n.op = "error" \/ (n.op = "assert" /\ before.value \notin n.on)
                 THEN "failed"
                 ELSE IF n.op = "assume" /\ before.value \notin n.on THEN "blocked" ELSE "going"
  BY <1>3, <1>4 DEF Executed, AtOnce
<1>6. /\ e.end = "returned" <=> n.op = "return"
      /\ e.end = "blocked" <=> n.op = "assume" /\ before.value \notin n.on
      /\ e.end = "failed" <=> n.op = "error" \/ (n.op = "assert" /\ before.value \notin n.on)
  BY <1>5
<1> QED
  BY <1>1, <1>2, <1>5, <1>6 DEF before, n, e

\* The instruction that an activation comes to either ends it or has it go on to a
\* later one.
LEMMA ComesNext ==
  ASSUME NEW p, ProgramOK(p), NEW i \in DOMAIN p.function, NEW v \in p.value,
         NEW k \in 1..Size(p, i),
         Course(p, i, v)[k - 1].pc = k, Course(p, i, v)[k - 1].end = "going"
  PROVE  LET e == Behind(p, i, v, k)
         IN  /\ e.end # "going" => /\ End(p, i, v) = e
                                   /\ \A m \in (k + 1)..Size(p, i) : ~ComesTo(p, i, v, m)
             /\ e.end = "going" => /\ Course(p, i, v)[e.pc - 1] = e /\ e.pc > k
                                   /\ \A m \in (k + 1)..(e.pc - 1) : ~ComesTo(p, i, v, m)
<1> DEFINE c == Course(p, i, v)
           n == Size(p, i)
           m == p.function[i][k]
           e == Behind(p, i, v, k)
<1>1. n \in Nat /\ k \in 0..n /\ k - 1 \in 0..n
  BY SMTT(90), Instructions
<1>2. c[k] = e
  BY SMTT(90), CourseIs DEF Turn, Behind
<1>3. ASSUME e.end # "going"
      PROVE  /\ End(p, i, v) = e
             /\ \A j \in (k + 1)..n : ~ComesTo(p, i, v, j)
  <2>1. \A j \in 0..n : k <= j => c[j] = c[k]
    BY <1>1, <1>2, <1>3, Unmoved
  <2>2. ASSUME NEW j \in (k + 1)..n
        PROVE  ~ComesTo(p, i, v, j)
    <3>1. j - 1 \in 0..n /\ k <= j - 1
      BY <1>1
    <3>2. c[j - 1] = e
      BY <1>2, <2>1, <3>1
    <3> QED
      BY <1>3, <3>2 DEF ComesTo
  <2>3. n \in 0..n /\ k <= n
    BY <1>1
  <2> QED
    BY <1>2, <2>1, <2>2, <2>3 DEF End
<1>4. ASSUME e.end = "going"
      PROVE  /\ c[e.pc - 1] = e /\ e.pc > k
             /\ \A j \in (k + 1)..(e.pc - 1) : ~ComesTo(p, i, v, j)
  <2>1. /\ e \in Progress(p, i)
        /\ e.pc = IF m.op = "branch" /\ c[k - 1].value \notin m.on THEN m.other ELSE m.to
        /\ m.op # "return" /\ m.op # "error"
    BY <1>4, ExecutedIs
  <2>2. e.pc > k /\ e.pc \in 1..n
    <3>1. e.pc \in 1..n
      BY <2>1 DEF Progress
    <3>2. /\ m.op \notin {"error", "return"} => m.to > k
          /\ m.op = "branch" => m.other > k
      BY Instructions
    <3> QED
      BY <2>1, <3>1, <3>2
  <2>3. e.pc - 1 \in 0..n /\ k <= e.pc - 1 /\ \A j \in (k + 1)..(e.pc - 1) : e.pc # j
    BY <1>1, <2>2
  <2> HIDE DEF e
  <2>4. ASSUME NEW j \in k..(e.pc - 1)
        PROVE  c[j] = e
    <3>1. j \in 0..n /\ k <= j /\ \A l \in (k + 1)..j : l \in (k + 1)..(e.pc - 1)
      BY <1>1, <2>2
    <3> QED
      BY <1>1, <1>2, <2>3, <3>1, Unmoved
  <2>5. ASSUME NEW j \in (k + 1)..(e.pc - 1)
        PROVE  ~ComesTo(p, i, v, j)
    <3>1. j - 1 \in k..(e.pc - 1) /\ e.pc # j
      BY <1>1, <2>2
    <3>2. c[j - 1] = e
      BY <2>4, <3>1
    <3> QED
      BY <3>1, <3>2 DEF ComesTo
  <2>6. e.pc - 1 \in k..(e.pc - 1)
    BY <1>1, <2>2
  <2> QED
    BY <2>2, <2>4, <2>5, <2>6
<1> QED
  BY <1>3, <1>4

(***************************************************************************)
(* One step                                                                *)
(***************************************************************************)
LEMMA SoundFields ==
  ASSUME NEW p, ProgramOK(p), NEW i \in DOMAIN p.function, NEW s \in Sound(p, i)
  PROVE  /\ s \in PathState(p, i) /\ ValuesOK(p, i, s) /\ TraceOK(p, i, s)
         /\ s.pc \in 1..Size(p, i) /\ Size(p, i) \in Nat
         /\ s.cond \subseteq p.value /\ s.update \in [p.value -> p.value]
         /\ s.status \in {"RUNNING", "TESTING", "TERMINATED", "REACH_ERROR"}
         /\ s.calls \in Seq(CallsTo(p)) /\ Len(s.calls) \in Nat
         /\ s.trace \in Seq(Blocks(p, i))
<1>1. s.calls \in Seq(CallsTo(p))
  BY DEF Sound, PathState
<1> QED
  BY SMTT(90), <1>1, Instructions DEF Sound, PathState

\* The calls of a path that goes on.
Lengthened(p, i, s, t) ==
  LET n == p.function[i][s.pc]
      call == t.calls[Len(s.calls) + 1]
  IN  /\ Len(t.calls) = Len(s.calls) + IF n.op = "call" THEN 1 ELSE 0
      /\ \A k \in 1..Len(s.calls) : t.calls[k] = s.calls[k]
      /\ n.op = "call" => /\ call.callee = n.callee
                          /\ \A v \in t.cond : call.argument[v] = n.update[s.update[v]]
LEMMA NotesIs ==
  ASSUME NEW p, ProgramOK(p), NEW i \in DOMAIN p.function, NEW s \in Sound(p, i),
         NEW t, Notes(p, i, s, t)
  PROVE  Lengthened(p, i, s, t)
<1> DEFINE C == CallsTo(p)
           n == p.function[i][s.pc]
<1>1. s.calls \in Seq(C) /\ Len(s.calls) \in Nat
  BY SoundFields
<1>2. CASE n.op # "call"
  BY SMTT(90), <1>1, <1>2 DEF Notes, Lengthened
<1>3. CASE n.op = "call"
  <2>1. PICK call \in C :
          /\ t.calls = Append(s.calls, call) /\ call.callee = n.callee
          /\ \A v \in t.cond : call.argument[v] = n.update[s.update[v]]
    BY <1>3 DEF Notes
  <2> DEFINE before == s.calls
             more == Append(before, call)
  <2> HIDE DEF C, n, before
  <2>2. /\ Len(more) = Len(before) + 1 /\ more[Len(before) + 1] = call
        /\ \A k \in 1..Len(before) : more[k] = before[k]
    BY <1>1 DEF before
  <2> HIDE DEF more
  <2>3. t.calls = more
    BY <2>1 DEF more, before
  <2> QED
    BY <1>3, <2>1, <2>2, <2>3 DEF n, before, Lengthened
<1> QED
  BY <1>2, <1>3

\* What has been noted of a call stays.
LEMMA StaysNoted ==
  ASSUME NEW p, ProgramOK(p), NEW i \in DOMAIN p.function, NEW s \in Sound(p, i),
         NEW t, Notes(p, i, s, t), NEW v \in t.cond, NEW k
  PROVE  /\ Noted(p, i, v, s, k) => Noted(p, i, v, t, k)
         /\ p.function[i][s.pc].op = "call" /\ Stands(p, i, v, s) => Noted(p, i, v, t, s.pc)
<1> DEFINE n == p.function[i][s.pc]
           L == Len(s.calls)
<1>1. /\ L \in Nat /\ Len(t.calls) = L + IF n.op = "call" THEN 1 ELSE 0
      /\ \A j \in 1..L : t.calls[j] = s.calls[j]
      /\ n.op = "call" => LET call == t.calls[L + 1]
                          IN  call.callee = n.callee /\ call.argument[v] = n.update[s.update[v]]
  <2>1. L \in Nat
    BY SoundFields
  <2>2. Lengthened(p, i, s, t)
    BY NotesIs
  <2> QED
    BY <2>1, <2>2 DEF Lengthened
<1> HIDE DEF n, L
<1>2. ASSUME Noted(p, i, v, s, k)
      PROVE  Noted(p, i, v, t, k)
  <2> DEFINE m == Course(p, i, v)[k - 1].calls
  <2>1. m \in 0..(L - 1)
    BY <1>2 DEF Noted, L
  <2> HIDE DEF m
  <2>2. m \in 0..(Len(t.calls) - 1) /\ m + 1 \in 1..L
    BY <1>1, <2>1
  <2>3. t.calls[m + 1] = s.calls[m + 1]
    BY <1>1, <2>2
  <2> QED
    BY <1>2, <2>2, <2>3 DEF Noted, m
<1>3. ASSUME n.op = "call", Stands(p, i, v, s)
      PROVE  Noted(p, i, v, t, s.pc)
  <2>1. Course(p, i, v)[s.pc - 1].calls = L /\ Course(p, i, v)[s.pc - 1].value = s.update[v]
    BY <1>3 DEF Stands, L
  <2>2. L \in 0..(Len(t.calls) - 1)
    BY <1>1, <1>3
  <2> QED
    BY <1>1, <1>3, <2>1, <2>2 DEF Noted, n
<1> QED
  BY <1>2, <1>3 DEF n

\* Between two instructions of a block.
LEMMA TraceAlong ==
  ASSUME NEW p, ProgramOK(p), NEW i \in DOMAIN p.function, NEW s \in Sound(p, i),
         NEW t, LET n == p.function[i][s.pc]
                IN  /\ n.op \notin {"branch", "jump", "error", "return"}
                    /\ t.pc = n.to,
         Notes(p, i, s, t), t.trace = s.trace, t.status # "TERMINATED"
  PROVE  Along(p, i, s, t)
<1> DEFINE n == p.function[i][s.pc]
           body == p.function[i]
<1>1. /\ s.pc \in 1..Size(p, i) /\ Size(p, i) \in Nat /\ Len(s.calls) \in Nat
      /\ Len(s.calls) = 0 <=> CallsBehind(p, i, s) = {}
      /\ Len(t.calls) = Len(s.calls) + IF n.op = "call" THEN 1 ELSE 0
  <2>1. Lengthened(p, i, s, t)
    BY NotesIs
  <2> QED
    BY <2>1, SoundFields DEF TraceOK, Lengthened
<1>2. n.to = s.pc + 1 /\ body[n.to].block = n.block
  <2>1. BlockOK(body, s.pc)
    BY SMTT(90), ZenonT(90), <1>1, Instructions DEF ProgramOK
  <2> QED
    BY <2>1 DEF BlockOK
<1>3. \A j \in 1..Size(p, i) :
        j \in CallsBehind(p, i, t) <=> j \in CallsBehind(p, i, s) \/ (j = s.pc /\ n.op = "call")
  <2> SUFFICES ASSUME NEW j \in 1..Size(p, i)
               PROVE  j \in CallsBehind(p, i, t)
                        <=> j \in CallsBehind(p, i, s) \/ (j = s.pc /\ n.op = "call")
    OBVIOUS
  <2>1. body[t.pc].block = n.block
    BY <1>2
  <2>2. j < t.pc <=> j < s.pc \/ j = s.pc
    BY <1>1, <1>2
  <2> QED
    BY <2>1, <2>2 DEF CallsBehind
<1>4. CallsBehind(p, i, t) \subseteq 1..Size(p, i) /\ CallsBehind(p, i, s) \subseteq 1..Size(p, i)
  BY DEF CallsBehind
<1> HIDE DEF n, body
<1>5. ASSUME n.op = "call"
      PROVE  Len(t.calls) = 0 <=> CallsBehind(p, i, t) = {}
  <2>1. s.pc \in CallsBehind(p, i, t)
    BY <1>1, <1>3, <1>5
  <2>2. Len(t.calls) # 0
    BY <1>1, <1>5 DEF n
  <2> QED
    BY <2>1, <2>2
<1>6. ASSUME n.op # "call"
      PROVE  Len(t.calls) = 0 <=> CallsBehind(p, i, t) = {}
  <2>1. CallsBehind(p, i, t) = CallsBehind(p, i, s)
    BY <1>3, <1>4, <1>6
  <2>2. Len(t.calls) = Len(s.calls)
    BY <1>1, <1>6 DEF n
  <2> QED
    BY <1>1, <2>1, <2>2
<1>7. \A k \in 1..Size(p, i) : InTrace(p, i, s, k) => InTrace(p, i, t, k)
  BY <1>2 DEF InTrace, n, body
<1> QED
  BY <1>5, <1>6, <1>7 DEF Along, TraceOK

\* From a block to the next one.
LEMMA TraceJump ==
  ASSUME NEW p, ProgramOK(p), NEW i \in DOMAIN p.function, NEW s \in Sound(p, i),
         NEW t, LET n == p.function[i][s.pc]
                IN  /\ n.op \in {"branch", "jump"} /\ t.pc \in {n.to, n.other}
                    /\ t.trace = Append(s.trace, n.block),
         t.calls = s.calls, t.status # "TERMINATED"
  PROVE  Along(p, i, s, t)
<1> DEFINE n == p.function[i][s.pc]
           body == p.function[i]
<1>1. /\ s.pc \in 1..Size(p, i) /\ Size(p, i) \in Nat /\ DOMAIN body = 1..Size(p, i)
      /\ Len(s.calls) = 0 <=> CallsBehind(p, i, s) = {}
  BY SoundFields, Instructions DEF TraceOK
<1>2. /\ \A j \in 1..Size(p, i) : j > s.pc => body[j].block # n.block
      /\ \A m \in 1..(t.pc - 1) : body[m].block # body[t.pc].block
  <2>1. BlockOK(body, s.pc)
    BY <1>1 DEF ProgramOK
  <2> QED
    BY <1>1, <2>1 DEF BlockOK
<1>3. t.pc \in 1..Size(p, i)
  BY <1>1, Instructions
<1>4. \A b : b \in Range(t.trace) <=> b \in Range(s.trace) \/ b = n.block
  <2>1. s.trace \in Seq(Blocks(p, i)) /\ n.block \in Blocks(p, i)
    <3>1. n.block \in Blocks(p, i)
      BY <1>1 DEF Blocks
    <3> QED
      BY <3>1, SoundFields
  <2> QED
    BY SMTT(90), <2>1, RangeAppended
<1>5. \A j \in 1..Size(p, i) : j \in CallsBehind(p, i, t) <=> j \in CallsBehind(p, i, s)
  <2> SUFFICES ASSUME NEW j \in 1..Size(p, i), body[j].op = "call"
               PROVE  j \in CallsBehind(p, i, t) <=> j \in CallsBehind(p, i, s)
    BY DEF CallsBehind
  <2>1. j # s.pc
    OBVIOUS
  <2>2. body[j].block = n.block <=> body[j].block = n.block /\ j < s.pc
    BY <1>1, <1>2, <2>1
  <2>3. ~(body[j].block = body[t.pc].block /\ j < t.pc)
    BY SMTT(90), <1>2, <1>3
  <2>4. j \in CallsBehind(p, i, t) <=> body[j].block \in Range(s.trace) \/ body[j].block = n.block
    BY <1>4, <2>3 DEF CallsBehind
  <2>5. j \in CallsBehind(p, i, s)
          <=> body[j].block \in Range(s.trace) \/ (body[j].block = n.block /\ j < s.pc)
    BY DEF CallsBehind
  <2> QED
    BY <2>2, <2>4, <2>5
<1>6. CallsBehind(p, i, t) = CallsBehind(p, i, s)
  BY <1>5 DEF CallsBehind
<1>7. \A k \in 1..Size(p, i) : InTrace(p, i, s, k) => InTrace(p, i, t, k)
  BY <1>4 DEF InTrace
<1>8. Notes(p, i, s, t)
  BY DEF Notes
<1> QED
  BY <1>1, <1>6, <1>7, <1>8 DEF TraceOK, Along

\* A state behind an instruction is right if its values are those for which the
\* instruction goes there and does not stop the activation.
LEMMA SuccessorSound ==
  ASSUME NEW p, ProgramOK(p), NEW i \in DOMAIN p.function,
         NEW s \in Sound(p, i), s.status # "TERMINATED",
         NEW t \in PathState(p, i), t.status # "TERMINATED", Along(p, i, s, t),
         t.cond \subseteq s.cond,
         \A v \in t.cond :
           LET e == Behind(p, i, v, s.pc)
           IN  Stands(p, i, v, s) =>
                 /\ e.pc = t.pc /\ e.end \in {"going", "failed"}
                 /\ e.value = t.update[v] /\ e.calls = Len(t.calls)
  PROVE  t \in Sound(p, i)
<1>1. ValuesOK(p, i, s) /\ s.pc \in 1..Size(p, i) /\ s.cond \subseteq p.value
  BY SoundFields
<1>2. ASSUME NEW v \in t.cond, End(p, i, v).end # "failed"
      PROVE  Stands(p, i, v, t) /\ Passed(p, i, v, t)
  <2> DEFINE e == Behind(p, i, v, s.pc)
  <2>1. v \in p.value /\ Stands(p, i, v, s)
    BY <1>1, <1>2 DEF ValuesOK
  <2>2. /\ e.pc = t.pc /\ e.end \in {"going", "failed"}
        /\ e.value = t.update[v] /\ e.calls = Len(t.calls)
    BY <2>1
  <2>3. /\ e.end # "going" => End(p, i, v) = e
        /\ e.end = "going" => /\ Course(p, i, v)[e.pc - 1] = e /\ e.pc > s.pc
                              /\ \A m \in (s.pc + 1)..(e.pc - 1) : ~ComesTo(p, i, v, m)
    BY <1>1, <2>1, ComesNext DEF Stands
  <2>4. Passed(p, i, v, s)
    BY <1>1, <1>2 DEF ValuesOK
  <2> HIDE DEF e
  <2>5. /\ e.end = "going" /\ Course(p, i, v)[t.pc - 1] = e /\ t.pc > s.pc
        /\ \A m \in (s.pc + 1)..(t.pc - 1) : ~ComesTo(p, i, v, m)
    BY <1>2, <2>2, <2>3
  <2>6. Stands(p, i, v, t)
    BY <2>2, <2>5 DEF Stands
  <2>7. ASSUME NEW k \in 1..Size(p, i), ComesTo(p, i, v, k), k < t.pc
        PROVE  InTrace(p, i, t, k) /\ (p.function[i][k].op = "call" => Noted(p, i, v, t, k))
    <3>1. s.pc \in Nat /\ t.pc \in Nat
      BY SMTT(90), <1>1, Instructions DEF PathState
    <3>2. k < s.pc \/ k = s.pc
      BY <2>5, <2>7, <3>1
    <3>3. InTrace(p, i, s, k)
      BY <2>4, <2>7, <3>2 DEF Passed, InTrace
    <3>4. p.function[i][k].op = "call" /\ k < s.pc => Noted(p, i, v, s, k)
      BY <2>4, <2>7 DEF Passed
    <3> QED
      BY <2>1, <3>2, <3>3, <3>4, StaysNoted DEF Along
  <2> QED
    BY <2>6, <2>7 DEF Passed
<1> QED
  <2> TraceOK(p, i, t) /\ ValuesOK(p, i, t)
    BY <1>2 DEF ValuesOK, Along
  <2> QED
    BY DEF Sound

\* What a step leaves behind a state: paths that share what it holds.
Shares(more, s) ==
  /\ \A j \in 1..Len(more) : more[j].cond \subseteq s.cond
  /\ \A j, k \in 1..Len(more) : j # k => Apart(more[j], more[k])
Keeps(p, i, more, s) ==
  \A v \in s.cond : Returns(p, i, v) => \E j \in 1..Len(more) : v \in more[j].cond

LEMMA NothingLeft ==
  ASSUME NEW S, NEW s
  PROVE  <<>> \in Seq(S) /\ Shares(<<>>, s)
BY DEF Shares

LEMMA OneShares ==
  ASSUME NEW S, NEW t \in S, NEW s, t.cond \subseteq s.cond
  PROVE  <<t>> \in Seq(S) /\ Shares(<<t>>, s) /\ Len(<<t>>) = 1 /\ (<<t>>)[1] = t
BY DEF Shares

LEMMA TwoShare ==
  ASSUME NEW S, NEW a \in S, NEW b \in S, NEW s,
         a.cond \subseteq s.cond, b.cond \subseteq s.cond, Apart(a, b)
  PROVE  /\ <<a, b>> \in Seq(S) /\ Shares(<<a, b>>, s)
         /\ Len(<<a, b>>) = 2 /\ (<<a, b>>)[1] = a /\ (<<a, b>>)[2] = b
<1>1. Apart(b, a)
  BY DEF Apart
<1>2. <<a, b>> \in Seq(S) /\ Len(<<a, b>>) = 2 /\ (<<a, b>>)[1] = a /\ (<<a, b>>)[2] = b
  OBVIOUS
<1> DEFINE r == <<a, b>>
<1> HIDE DEF r
<1>3. \A j \in 1..2 : r[j].cond \subseteq s.cond
  BY <1>2 DEF r
<1>4. \A j, k \in 1..2 : j # k => (j = 1 /\ k = 2) \/ (j = 2 /\ k = 1)
  OBVIOUS
<1>5. \A j, k \in 1..2 : j # k => Apart(r[j], r[k])
  BY <1>1, <1>2, <1>4 DEF r
<1> QED
  BY <1>2, <1>3, <1>5 DEF Shares, r

\* One path goes on in the present function.
LEMMA OneSuccessor ==
  ASSUME ProgramOK(program), current \in DOMAIN program.function,
         NEW s \in Sound(program, current), s.status # "TERMINATED",
         Node(current, s).op \notin {"branch", "error", "return", "divide"},
         NEW t \in PathState(program, current), step(s) = <<t>>,
         t.status # "TERMINATED", Along(program, current, s, t),
         t.pc = Node(current, s).to,
         Len(t.calls) = Len(s.calls) + IF Node(current, s).op = "call" THEN 1 ELSE 0,
         t.cond = IF Node(current, s).op = "assume"
                  THEN s.cond \cap Where(s, Node(current, s).on) ELSE s.cond,
         t.update = IF Node(current, s).op = "set" THEN Composed(s, Node(current, s).update)
                    ELSE s.update
  PROVE  /\ step(s) \in Seq(Sound(program, current)) /\ Shares(step(s), s)
         /\ Keeps(program, current, step(s), s)
<1> DEFINE p == program
           i == current
           n == p.function[i][s.pc]
<1>1. n = Node(i, s) /\ Value = p.value
  BY DEF Node, Value
<1>2. /\ s.pc \in 1..Size(p, i) /\ s.cond \subseteq p.value
      /\ s.update \in [p.value -> p.value] /\ Len(s.calls) \in Nat /\ ValuesOK(p, i, s)
  BY SoundFields
<1>3. t.cond \subseteq s.cond
  OBVIOUS
<1>4. ASSUME NEW v \in s.cond, Stands(p, i, v, s)
      PROVE  LET e == Behind(p, i, v, s.pc)
             IN  /\ e.pc = t.pc
                 /\ e.value = t.update[v] /\ e.calls = Len(t.calls)
                 /\ e.end = "blocked" <=> n.op = "assume" /\ s.update[v] \notin n.on
                 /\ e.end \in {"going", "failed", "blocked"}
  <2> DEFINE before == Course(p, i, v)[s.pc - 1]
             e == Behind(p, i, v, s.pc)
  <2>1. /\ before \in Progress(p, i) /\ e \in Progress(p, i)
        /\ e.pc = IF n.op = "branch" /\ before.value \notin n.on THEN n.other ELSE n.to
        /\ e.value = IF n.op = "set" THEN n.update[before.value] ELSE before.value
        /\ e.calls = before.calls + IF n.op = "call" THEN 1 ELSE 0
        /\ e.end = "returned" <=> n.op = "return"
        /\ e.end = "blocked" <=> n.op = "assume" /\ before.value \notin n.on
    BY SMTT(90), ZenonT(90), <1>2, ExecutedIs
  <2>2. before.value = s.update[v] /\ before.calls = Len(s.calls)
    BY <1>4 DEF Stands
  <2>3. n.op = "set" => t.update[v] = n.update[s.update[v]]
    BY <1>1, <1>2 DEF Composed
  <2>4. e.end \in {"going", "failed", "blocked"}
    <3>1. e.end \in {"going", "returned", "blocked", "failed"}
      BY <2>1 DEF Progress
    <3> QED
      BY <1>1, <2>1, <3>1
  <2> HIDE DEF n, e, before, p, i
  <2> QED
    BY <1>1, <2>1, <2>2, <2>3, <2>4 DEF e, p, i
<1>5. \A v \in s.cond : v \in Where(s, n.on) <=> s.update[v] \in n.on
  BY <1>1, <1>2 DEF Where
<1>6. t \in Sound(p, i)
  <2>1. ASSUME NEW v \in t.cond, Stands(p, i, v, s)
        PROVE  LET e == Behind(p, i, v, s.pc)
               IN  /\ e.pc = t.pc /\ e.end \in {"going", "failed"}
                   /\ e.value = t.update[v] /\ e.calls = Len(t.calls)
    <3>1. v \in s.cond /\ (n.op = "assume" => s.update[v] \in n.on)
      BY <1>1, <1>3, <1>5
    <3> QED
      BY <1>4, <2>1, <3>1
  <2> QED
    BY <1>3, <2>1, SuccessorSound
<1>7. step(s) \in Seq(Sound(p, i)) /\ Shares(step(s), s) /\ Len(step(s)) = 1 /\ step(s)[1] = t
  BY <1>3, <1>6, OneShares
<1>8. ASSUME NEW v \in s.cond, Returns(p, i, v)
      PROVE  v \in t.cond
  <2> SUFFICES ASSUME n.op = "assume", s.update[v] \notin n.on
               PROVE  FALSE
    BY <1>1, <1>5
  <2>1. End(p, i, v).end = "returned"
    BY <1>8 DEF Returns
  <2>2. Stands(p, i, v, s)
    BY <1>2, <2>1 DEF ValuesOK
  <2>3. Behind(p, i, v, s.pc).end = "blocked"
    BY <1>4, <2>2
  <2>4. End(p, i, v) = Behind(p, i, v, s.pc)
    BY <1>2, <2>2, <2>3, ComesNext DEF Stands
  <2> QED
    BY <2>1, <2>3, <2>4
<1>9. 1 \in 1..Len(step(s))
  BY <1>7
<1> QED
  BY <1>7, <1>8, <1>9 DEF Keeps

LEMMA LeaveIs ==
  ASSUME ProgramOK(program), current \in DOMAIN program.function,
         NEW s \in Sound(program, current), s.status # "TERMINATED",
         NEW to \in 1..Size(program, current)
  PROVE  LET t == Leave(s, to)
         IN  /\ t \in PathState(program, current) /\ t.pc = to
             /\ t.trace = Append(s.trace, Node(current, s).block)
             /\ t.calls = s.calls /\ t.cond = s.cond /\ t.update = s.update
             /\ t.status = s.status
<1>1. /\ s \in PathState(program, current) /\ s.pc \in 1..Size(program, current)
      /\ s.trace \in Seq(Blocks(program, current))
  BY SoundFields
<1>2. Node(current, s).block \in Blocks(program, current)
  BY <1>1 DEF Blocks, Node
<1> DEFINE S == Blocks(program, current)
           r == Append(s.trace, Node(current, s).block)
<1>3. r \in Seq(S)
  BY <1>1, <1>2
<1>4. Leave(s, to) = [s EXCEPT !.pc = to, !.trace = r]
  BY DEF Leave
<1> HIDE DEF S, r
<1>5. LET t == [s EXCEPT !.pc = to, !.trace = r]
      IN  /\ t \in PathState(program, current) /\ t.pc = to /\ t.trace = r
          /\ t.calls = s.calls /\ t.cond = s.cond /\ t.update = s.update
          /\ t.status = s.status
  BY <1>1, <1>3 DEF PathState, S
<1> QED
  BY <1>4, <1>5 DEF r

LEMMA AssumeIs ==
  ASSUME NEW s \in PathState(program, current), NEW on
  PROVE  LET t == Assume(s, on)
         IN  /\ t \in PathState(program, current) /\ t.pc = s.pc /\ t.trace = s.trace
             /\ t.calls = s.calls /\ t.cond = s.cond \cap Where(s, on)
             /\ t.update = s.update /\ t.status = "TESTING"
<1> DEFINE c == s.cond \cap Where(s, on)
<1>1. c \in SUBSET program.value
  BY DEF PathState, Where, Value
<1> HIDE DEF c
<1>2. LET t == [s EXCEPT !.cond = c, !.status = "TESTING"]
      IN  /\ t \in PathState(program, current) /\ t.pc = s.pc /\ t.trace = s.trace
          /\ t.calls = s.calls /\ t.cond = c /\ t.update = s.update /\ t.status = "TESTING"
  BY <1>1 DEF PathState
<1> QED
  BY <1>2 DEF Assume, c

\* A branch shares the values of a path.
LEMMA BranchSound ==
  ASSUME ProgramOK(program), current \in DOMAIN program.function,
         NEW s \in Sound(program, current), s.status # "TERMINATED",
         Node(current, s).op = "branch"
  PROVE  /\ step(s) \in Seq(Sound(program, current)) /\ Shares(step(s), s)
         /\ Keeps(program, current, step(s), s)
<1> DEFINE p == program
           i == current
           n == p.function[i][s.pc]
           a == Assume(Leave(s, n.to), n.on)
           b == Assume(Leave(s, n.other), p.value \ n.on)
<1>1. n = Node(i, s) /\ Value = p.value
  BY DEF Node, Value
<1>2. /\ s.pc \in 1..Size(p, i) /\ s.cond \subseteq p.value
      /\ s.update \in [p.value -> p.value] /\ Len(s.calls) \in Nat
  BY SoundFields
<1>3. n.to \in 1..Size(p, i) /\ n.other \in 1..Size(p, i) /\ n.on \subseteq p.value
  BY <1>2, Instructions
<1>4. step(s) = <<a, b>>
  BY <1>1 DEF step
<1>5. /\ a \in PathState(p, i) /\ a.pc = n.to /\ a.trace = Append(s.trace, n.block)
      /\ a.calls = s.calls /\ a.cond = s.cond \cap Where(Leave(s, n.to), n.on)
      /\ a.update = s.update /\ a.status = "TESTING" /\ Leave(s, n.to).update = s.update
  BY <1>1, <1>3, LeaveIs, AssumeIs
<1>6. /\ b \in PathState(p, i) /\ b.pc = n.other /\ b.trace = Append(s.trace, n.block)
      /\ b.calls = s.calls /\ b.cond = s.cond \cap Where(Leave(s, n.other), p.value \ n.on)
      /\ b.update = s.update /\ b.status = "TESTING" /\ Leave(s, n.other).update = s.update
  BY <1>1, <1>3, LeaveIs, AssumeIs
<1>7. \A v \in s.cond : /\ v \in a.cond <=> s.update[v] \in n.on
                        /\ v \in b.cond <=> s.update[v] \notin n.on
  <2> HIDE DEF n, a, b, p
  <2> SUFFICES ASSUME NEW v \in s.cond
               PROVE  /\ v \in a.cond <=> s.update[v] \in n.on
                      /\ v \in b.cond <=> s.update[v] \notin n.on
    OBVIOUS
  <2>1. v \in p.value /\ s.update[v] \in p.value
    BY <1>2
  <2>2. v \in Where(Leave(s, n.to), n.on) <=> s.update[v] \in n.on
    BY <1>1, <1>5, <2>1 DEF Where
  <2>3. v \in Where(Leave(s, n.other), p.value \ n.on) <=> s.update[v] \notin n.on
    BY <1>1, <1>6, <2>1 DEF Where
  <2> QED
    BY <1>5, <1>6, <2>2, <2>3
<1>8. ASSUME NEW v \in s.cond, Stands(p, i, v, s)
      PROVE  LET e == Behind(p, i, v, s.pc)
             IN  /\ e.pc = IF s.update[v] \in n.on THEN n.to ELSE n.other
                 /\ e.value = s.update[v] /\ e.calls = Len(s.calls) /\ e.end = "going"
  <2> DEFINE before == Course(p, i, v)[s.pc - 1]
             e == Behind(p, i, v, s.pc)
  <2>1. /\ before \in Progress(p, i) /\ e \in Progress(p, i)
        /\ e.pc = IF n.op = "branch" /\ before.value \notin n.on THEN n.other ELSE n.to
        /\ e.value = IF n.op = "set" THEN n.update[before.value] ELSE before.value
        /\ e.calls = before.calls + IF n.op = "call" THEN 1 ELSE 0
        /\ e.end = "returned" <=> n.op = "return"
        /\ e.end = "blocked" <=> n.op = "assume" /\ before.value \notin n.on
        /\ e.end = "failed" <=> n.op = "error" \/ (n.op = "assert" /\ before.value \notin n.on)
    BY <1>2, ExecutedIs
  <2>2. before.value = s.update[v] /\ before.calls = Len(s.calls)
    BY <1>8 DEF Stands
  <2>3. e.end \in {"going", "returned", "blocked", "failed"}
    BY <2>1 DEF Progress
  <2>4. n.op = "branch"
    BY <1>1
  <2> HIDE DEF n, e, before, p, i
  <2>5. e.end = "going"
    BY <2>4, <2>1, <2>3
  <2>6. e.calls = Len(s.calls)
    BY <1>2, <2>4, <2>1, <2>2
  <2> QED
    BY <2>4, <2>1, <2>2, <2>5, <2>6 DEF e, p, i
<1>9. Along(p, i, s, a) /\ Along(p, i, s, b)
  <2>1. n.op = "branch"
    BY <1>1
  <2> HIDE DEF n, a, b
  <2>2. n = p.function[i][s.pc]
    BY DEF n
  <2>3. Along(p, i, s, a)
    BY <1>5, <2>1, <2>2, TraceJump
  <2>4. Along(p, i, s, b)
    BY <1>6, <2>1, <2>2, TraceJump
  <2> QED
    BY <2>3, <2>4
<1> HIDE DEF a, b, n
<1>10. a \in Sound(p, i)
  <2>1. a.cond \subseteq s.cond /\ \A v \in a.cond : s.update[v] \in n.on
    BY <1>5, <1>7
  <2> QED
    BY <1>5, <1>8, <1>9, <2>1, SuccessorSound
<1>11. b \in Sound(p, i)
  <2>1. b.cond \subseteq s.cond /\ \A v \in b.cond : s.update[v] \notin n.on
    BY <1>6, <1>7
  <2>2. ASSUME NEW v \in b.cond, Stands(p, i, v, s)
        PROVE  LET e == Behind(p, i, v, s.pc)
               IN  /\ e.pc = b.pc /\ e.end \in {"going", "failed"}
                   /\ e.value = b.update[v] /\ e.calls = Len(b.calls)
    BY <1>6, <1>8, <2>1, <2>2
  <2> QED
    BY <1>6, <1>9, <2>1, <2>2, SuccessorSound
<1>12. a.cond \subseteq s.cond /\ b.cond \subseteq s.cond /\ Apart(a, b)
  BY <1>5, <1>6, <1>7 DEF Apart
<1>13. /\ step(s) \in Seq(Sound(p, i)) /\ Shares(step(s), s)
       /\ Len(step(s)) = 2 /\ step(s)[1] = a /\ step(s)[2] = b
  BY <1>4, <1>10, <1>11, <1>12, TwoShare
<1>14. \A v \in s.cond : v \in a.cond \/ v \in b.cond
  BY <1>7
<1>15. 1 \in 1..Len(step(s)) /\ 2 \in 1..Len(step(s))
  BY <1>13
<1> QED
  BY <1>13, <1>14, <1>15 DEF Keeps

\* The paths that stay where they are: at a return, and at an error call.
LEMMA StaysSound ==
  ASSUME ProgramOK(program), current \in DOMAIN program.function,
         NEW s \in Sound(program, current), s.status # "TERMINATED",
         Node(current, s).op \in {"error", "return"}
  PROVE  /\ step(s) \in Seq(Sound(program, current)) /\ Shares(step(s), s)
         /\ Keeps(program, current, step(s), s)
<1> DEFINE p == program
           i == current
           n == p.function[i][s.pc]
           r == Composed(s, n.result)
           e == [s EXCEPT !.status = "REACH_ERROR"]
           t == [s EXCEPT !.status = "TERMINATED", !.result = r, !.weight = n.weight]
<1>1. n = Node(i, s) /\ Value = p.value
  BY DEF Node, Value
<1>2. /\ s \in PathState(p, i) /\ s.pc \in 1..Size(p, i) /\ s.cond \subseteq p.value
      /\ s.update \in [p.value -> p.value] /\ ValuesOK(p, i, s) /\ TraceOK(p, i, s)
  BY SoundFields
<1>3. n.result \in [p.value -> Int] /\ n.weight \in Int
  BY <1>2, Instructions
<1>4. r \in [p.value -> Int]
  BY <1>1, <1>2, <1>3 DEF Composed
<1>5. /\ n.op = "error" => step(s) = <<e>>
      /\ n.op = "return" => step(s) = <<t>>
  BY <1>1 DEF step
<1>6. /\ e \in PathState(p, i) /\ e.pc = s.pc /\ e.trace = s.trace /\ e.calls = s.calls
      /\ e.cond = s.cond /\ e.update = s.update /\ e.status = "REACH_ERROR"
  BY <1>2 DEF PathState
<1> HIDE DEF r
<1>7. /\ t \in PathState(p, i) /\ t.pc = s.pc /\ t.trace = s.trace /\ t.calls = s.calls
      /\ t.cond = s.cond /\ t.update = s.update /\ t.status = "TERMINATED"
      /\ t.result = r /\ t.weight = n.weight
  BY <1>2, <1>3, <1>4 DEF PathState
<1> HIDE DEF e, t, n
<1>8. e \in Sound(p, i)
  <2>1. TraceOK(p, i, e)
    BY <1>2, <1>6 DEF TraceOK, CallsBehind
  <2>2. ASSUME NEW v, Stands(p, i, v, s), Passed(p, i, v, s)
        PROVE  Stands(p, i, v, e) /\ Passed(p, i, v, e)
    BY SMTT(90), <1>2, <1>6, <2>2 DEF Stands, Passed, InTrace, Noted
  <2> QED
    BY <1>2, <1>6, <2>1, <2>2 DEF Sound, ValuesOK
<1>9. ASSUME n.op = "return"
      PROVE  t \in Sound(p, i)
  <2>1. ASSUME NEW v \in t.cond, End(p, i, v).end # "failed"
        PROVE  Returned(p, i, v, t) /\ Passed(p, i, v, t)
    <3> DEFINE before == Course(p, i, v)[s.pc - 1]
               b == Behind(p, i, v, s.pc)
    <3>1. Stands(p, i, v, s) /\ Passed(p, i, v, s) /\ v \in p.value
      BY <1>2, <1>7, <2>1 DEF ValuesOK
    <3>2. /\ before \in Progress(p, i)
          /\ b.value = IF n.op = "set" THEN n.update[before.value] ELSE before.value
          /\ b.calls = before.calls + IF n.op = "call" THEN 1 ELSE 0
          /\ b.end = "returned" <=> n.op = "return"
      BY SMTT(90), <1>2, <3>1, ExecutedIs DEF n
    <3>3. before.calls \in Nat
      BY <3>2 DEF Progress
    <3>4. b.end = "returned" /\ b.value = before.value /\ b.calls = before.calls
      BY <1>9, <3>2, <3>3
    <3>5. /\ End(p, i, v) = b
          /\ \A m \in (s.pc + 1)..Size(p, i) : ~ComesTo(p, i, v, m)
      BY <1>2, <3>1, <3>4, ComesNext DEF Stands
    <3> HIDE DEF b, before
    <3>6. ASSUME NEW k \in 1..Size(p, i), ComesTo(p, i, v, k)
          PROVE  InTrace(p, i, t, k) /\ (p.function[i][k].op = "call" => Noted(p, i, v, t, k))
      <4>1. k < s.pc \/ k = s.pc
        <5>1. k \notin (s.pc + 1)..Size(p, i) /\ Size(p, i) \in Nat
          BY <3>5, <3>6, Instructions
        <5> QED
          BY <1>2, <5>1
      <4>2. InTrace(p, i, s, k)
        BY <3>1, <3>6, <4>1 DEF Passed, InTrace
      <4>3. p.function[i][k].op = "call" => k < s.pc
        BY <1>9, <4>1 DEF n
      <4>4. p.function[i][k].op = "call" => Noted(p, i, v, s, k)
        BY <3>1, <3>6, <4>3 DEF Passed
      <4> QED
        BY <1>7, <4>2, <4>4 DEF InTrace, Noted
    <3>7. Returned(p, i, v, t)
      <4>1. t.result[v] = n.result[t.update[v]] /\ t.weight = n.weight
        BY <1>1, <1>7, <3>1 DEF r, Composed
      <4>2. ComesTo(p, i, v, t.pc)
        BY <1>7, <3>1 DEF Stands, ComesTo
      <4> QED
        BY <1>7, <3>1, <3>4, <3>5, <4>1, <4>2 DEF Returned, Stands, before, n
    <3> QED
      BY <3>6, <3>7 DEF Passed
  <2>2. TraceOK(p, i, t)
    BY <1>2, <1>7, <1>9 DEF TraceOK, CallsBehind, n
  <2> QED
    BY <1>7, <2>1, <2>2 DEF Sound, ValuesOK
<1>10. \E u \in Sound(p, i) : step(s) = <<u>> /\ u.cond = s.cond
  BY <1>1, <1>5, <1>6, <1>7, <1>8, <1>9
<1>11. PICK u \in Sound(p, i) : step(s) = <<u>> /\ u.cond = s.cond
  BY <1>10
<1>12. step(s) \in Seq(Sound(p, i)) /\ Shares(step(s), s) /\ Len(step(s)) = 1 /\ step(s)[1] = u
  BY <1>11, OneShares
<1>13. 1 \in 1..Len(step(s))
  BY <1>12
<1> QED
  BY <1>11, <1>12, <1>13 DEF Keeps

\* An exact division has no successor, but no value that returns comes to one.
LEMMA DivideSound ==
  ASSUME ProgramOK(program), current \in DOMAIN program.function, InexactDivisions(program),
         NEW s \in Sound(program, current), s.status # "TERMINATED",
         Node(current, s).op = "divide", ~Inexact(s)
  PROVE  /\ step(s) \in Seq(Sound(program, current)) /\ Shares(step(s), s)
         /\ Keeps(program, current, step(s), s)
<1>1. step(s) = <<>>
  BY DEF step
<1>2. /\ s.pc \in 1..Size(program, current) /\ s.cond \subseteq program.value
      /\ ValuesOK(program, current, s)
  BY SoundFields
<1>3. ASSUME NEW v \in s.cond, Returns(program, current, v)
      PROVE  FALSE
  <2>1. Stands(program, current, v, s) /\ v \in program.value
    BY <1>2, <1>3 DEF ValuesOK, Returns
  <2>2. s.update[v] \in Node(current, s).on
    BY <1>2, <2>1 DEF InexactDivisions, Stands, Node
  <2>3. v \in Where(s, Node(current, s).on)
    BY <2>1, <2>2 DEF Where, Value
  <2> QED
    BY <2>3 DEF Inexact
<1> QED
  BY <1>1, <1>3, NothingLeft DEF Keeps

LEMMA StepSound ==
  ASSUME ProgramOK(program), current \in DOMAIN program.function, InexactDivisions(program),
         NEW s \in Sound(program, current), s.status # "TERMINATED", ~Inexact(s)
  PROVE  /\ step(s) \in Seq(Sound(program, current)) /\ Shares(step(s), s)
         /\ Keeps(program, current, step(s), s)
<1> DEFINE p == program
           i == current
           n == Node(i, s)
           next == [s EXCEPT !.pc = n.to]
<1>1. n = p.function[i][s.pc] /\ n = Node(current, s) /\ Value = p.value
  BY DEF Node, Value
<1>2. /\ s \in PathState(p, i) /\ s.pc \in 1..Size(p, i) /\ Len(s.calls) \in Nat
      /\ s.update \in [p.value -> p.value]
  BY SoundFields
<1>3. /\ n.op \in {"set", "branch", "jump", "assume", "assert", "divide",
                   "call", "error", "return"}
      /\ n.to \in 1..Size(p, i) /\ n.on \subseteq p.value /\ n.update \in [p.value -> p.value]
      /\ n.op = "call" => n.callee \in DOMAIN p.function
  BY SMTT(90), <1>1, <1>2, Instructions
<1>4. /\ next \in PathState(p, i) /\ next.pc = n.to /\ next.trace = s.trace
      /\ next.calls = s.calls /\ next.cond = s.cond /\ next.update = s.update
      /\ next.status = s.status /\ next.checks = s.checks
  BY <1>2, <1>3 DEF PathState
<1>5. Composed(s, n.update) \in [p.value -> p.value]
  BY <1>1, <1>2, <1>3 DEF Composed
<1> DEFINE asked == [callee |-> n.callee, argument |-> Composed(s, n.update)]
           calls == Append(s.calls, asked)
           where == Where(s, n.on)
<1>6. /\ n.op = "jump" => step(s) = <<Leave(s, n.to)>>
      /\ n.op = "set" => step(s) = <<[next EXCEPT !.update = Composed(s, n.update)]>>
      /\ n.op = "call" => step(s) = <<[next EXCEPT !.calls = calls]>>
      /\ n.op = "assume" => step(s) = <<Assume(next, n.on)>>
      /\ n.op = "assert" => step(s) = <<[next EXCEPT !.checks = s.checks \cup {where}]>>
  BY <1>4 DEF step
<1>7. CASE n.op = "branch"
  BY <1>1, <1>7, BranchSound
<1>8. CASE n.op \in {"error", "return"}
  BY <1>1, <1>8, StaysSound
<1>9. CASE n.op = "divide"
  BY <1>1, <1>9, DivideSound
<1> HIDE DEF next, n, asked, calls, where
<1>10. CASE n.op = "jump"
  <2> DEFINE t == Leave(s, n.to)
  <2>1. /\ t \in PathState(p, i) /\ t.pc = n.to /\ t.trace = Append(s.trace, n.block)
        /\ t.calls = s.calls /\ t.cond = s.cond /\ t.update = s.update
        /\ t.status = s.status
    BY <1>1, <1>3, LeaveIs
  <2>2. step(s) = <<t>>
    BY <1>6, <1>10
  <2> HIDE DEF t
  <2>3. Len(t.calls) = Len(s.calls) + IF n.op = "call" THEN 1 ELSE 0
    BY <1>2, <1>10, <2>1
  <2>4. Along(p, i, s, t)
    <3>1. t.status # "TERMINATED" /\ n.op = "jump"
      BY <1>10, <2>1
    <3> QED
      BY <1>1, <2>1, <2>3, <3>1, TraceJump
  <2>5. t.cond = IF n.op = "assume" THEN s.cond \cap Where(s, n.on) ELSE s.cond
    BY <1>10, <2>1
  <2>6. t.update = IF n.op = "set" THEN Composed(s, n.update) ELSE s.update
    BY <1>10, <2>1
  <2> QED
    <3>1. t.status # "TERMINATED" /\ n.op = "jump"
      BY <1>10, <2>1
    <3> QED
      BY <1>1, <2>1, <2>2, <2>3, <2>4, <2>5, <2>6, <3>1, OneSuccessor
<1>11. CASE n.op = "set"
  <2> DEFINE u == Composed(s, n.update)
             t == [next EXCEPT !.update = u]
  <2> HIDE DEF u
  <2>1. /\ t \in PathState(p, i) /\ t.pc = n.to /\ t.trace = s.trace
        /\ t.calls = s.calls /\ t.cond = s.cond /\ t.update = u /\ t.status = s.status
    BY <1>4, <1>5 DEF PathState, u
  <2>2. step(s) = <<t>>
    BY <1>6, <1>11 DEF u
  <2> HIDE DEF t
  <2>3. Len(t.calls) = Len(s.calls) + IF n.op = "call" THEN 1 ELSE 0
    BY <1>2, <1>11, <2>1
  <2>4. Along(p, i, s, t)
    <3>1. t.status # "TERMINATED" /\ n.op = "set"
      BY <1>11, <2>1
    <3>2. Notes(p, i, s, t)
      BY <1>1, <2>1, <3>1 DEF Notes
    <3> QED
      BY <1>1, <2>1, <3>1, <3>2, TraceAlong
  <2>5. t.cond = IF n.op = "assume" THEN s.cond \cap Where(s, n.on) ELSE s.cond
    BY <1>11, <2>1
  <2>6. t.update = IF n.op = "set" THEN Composed(s, n.update) ELSE s.update
    BY <1>11, <2>1 DEF u
  <2> QED
    <3>1. t.status # "TERMINATED" /\ n.op = "set"
      BY <1>11, <2>1
    <3> QED
      BY <1>1, <2>1, <2>2, <2>3, <2>4, <2>5, <2>6, <3>1, OneSuccessor
<1>12. CASE n.op = "call"
  <2> DEFINE t == [next EXCEPT !.calls = calls]
             C == CallsTo(p)
  <2>1. asked \in C
    BY <1>3, <1>5, <1>12 DEF asked, CallsTo
  <2>2. s.calls \in Seq(C)
    BY <1>2 DEF PathState
  <2> HIDE DEF C
  <2>3. calls \in Seq(C) /\ Len(calls) = Len(s.calls) + 1
    BY <2>1, <2>2 DEF calls
  <2>4. /\ t \in PathState(p, i) /\ t.pc = n.to /\ t.trace = s.trace
        /\ t.calls = calls /\ t.cond = s.cond /\ t.update = s.update /\ t.status = s.status
    BY <1>4, <2>3 DEF PathState, C
  <2>5. step(s) = <<t>>
    BY <1>6, <1>12
  <2> HIDE DEF t
  <2>6. Len(t.calls) = Len(s.calls) + IF n.op = "call" THEN 1 ELSE 0
    BY <1>2, <1>12, <2>4, <2>3
  <2>7. Along(p, i, s, t)
    <3>1. t.status # "TERMINATED" /\ n.op = "call"
      BY <1>12, <2>4
    <3>2. /\ t.calls = Append(s.calls, asked) /\ asked.callee = n.callee
          /\ \A v \in t.cond : asked.argument[v] = n.update[s.update[v]]
      <4>1. t.cond \subseteq p.value
        BY <2>4 DEF PathState
      <4> QED
        BY <1>1, <2>4, <4>1 DEF asked, calls, Composed
    <3>3. Notes(p, i, s, t)
      BY <1>1, <2>1, <3>1, <3>2 DEF Notes, C
    <3> QED
      BY <1>1, <2>4, <3>1, <3>3, TraceAlong
  <2>8. t.cond = IF n.op = "assume" THEN s.cond \cap Where(s, n.on) ELSE s.cond
    BY <1>12, <2>4
  <2>9. t.update = IF n.op = "set" THEN Composed(s, n.update) ELSE s.update
    BY <1>12, <2>4
  <2> QED
    <3>1. t.status # "TERMINATED" /\ n.op = "call"
      BY <1>12, <2>4
    <3> QED
      BY <1>1, <2>4, <2>5, <2>6, <2>7, <2>8, <2>9, <3>1, OneSuccessor
<1>13. CASE n.op = "assume"
  <2> DEFINE t == Assume(next, n.on)
  <2>1. /\ t \in PathState(p, i) /\ t.pc = n.to /\ t.trace = s.trace
        /\ t.calls = s.calls /\ t.cond = s.cond \cap Where(next, n.on)
        /\ t.update = s.update /\ t.status = "TESTING"
    BY <1>4, AssumeIs
  <2>2. Where(next, n.on) = Where(s, n.on)
    BY <1>4 DEF Where
  <2>3. step(s) = <<t>>
    BY <1>6, <1>13
  <2> HIDE DEF t
  <2>4. Len(t.calls) = Len(s.calls) + IF n.op = "call" THEN 1 ELSE 0
    BY <1>2, <1>13, <2>1
  <2>5. Along(p, i, s, t)
    <3>1. t.status # "TERMINATED" /\ n.op = "assume"
      BY <1>13, <2>1
    <3>2. Notes(p, i, s, t)
      BY <1>1, <2>1, <3>1 DEF Notes
    <3> QED
      BY <1>1, <2>1, <3>1, <3>2, TraceAlong
  <2>6. t.cond = IF n.op = "assume" THEN s.cond \cap Where(s, n.on) ELSE s.cond
    BY <1>13, <2>1, <2>2
  <2>7. t.update = IF n.op = "set" THEN Composed(s, n.update) ELSE s.update
    BY <1>13, <2>1
  <2> QED
    <3>1. t.status # "TERMINATED" /\ n.op = "assume"
      BY <1>13, <2>1
    <3> QED
      BY <1>1, <2>1, <2>3, <2>4, <2>5, <2>6, <2>7, <3>1, OneSuccessor
<1>14. CASE n.op = "assert"
  <2> DEFINE c == s.checks \cup {where}
             t == [next EXCEPT !.checks = c]
  <2>1. c \in SUBSET SUBSET p.value
    BY <1>2 DEF PathState, Where, Value, where
  <2> HIDE DEF c
  <2>2. /\ t \in PathState(p, i) /\ t.pc = n.to /\ t.trace = s.trace
        /\ t.calls = s.calls /\ t.cond = s.cond /\ t.update = s.update /\ t.status = s.status
    BY <1>4, <2>1 DEF PathState
  <2>3. step(s) = <<t>>
    BY <1>6, <1>14 DEF c
  <2> HIDE DEF t
  <2>4. Len(t.calls) = Len(s.calls) + IF n.op = "call" THEN 1 ELSE 0
    BY <1>2, <1>14, <2>2
  <2>5. Along(p, i, s, t)
    <3>1. t.status # "TERMINATED" /\ n.op = "assert"
      BY <1>14, <2>2
    <3>2. Notes(p, i, s, t)
      BY <1>1, <2>2, <3>1 DEF Notes
    <3> QED
      BY <1>1, <2>2, <3>1, <3>2, TraceAlong
  <2>6. t.cond = IF n.op = "assume" THEN s.cond \cap Where(s, n.on) ELSE s.cond
    BY <1>14, <2>2
  <2>7. t.update = IF n.op = "set" THEN Composed(s, n.update) ELSE s.update
    BY <1>14, <2>2
  <2> QED
    <3>1. t.status # "TERMINATED" /\ n.op = "assert"
      BY <1>14, <2>2
    <3> QED
      BY <1>1, <2>2, <2>3, <2>4, <2>5, <2>6, <2>7, <3>1, OneSuccessor
<1> QED
  BY <1>3, <1>7, <1>8, <1>9, <1>10, <1>11, <1>12, <1>13, <1>14

(***************************************************************************)
(* The queue                                                               *)
(***************************************************************************)
LEMMA NarrowerApart ==
  ASSUME NEW s, NEW t, NEW u, t.cond \subseteq s.cond, Apart(s, u) \/ Apart(u, s)
  PROVE  Apart(t, u) /\ Apart(u, t)
BY DEF Apart

LEMMA ReplaceHead ==
  ASSUME NEW S, NEW st \in Seq(S), st # <<>>, NEW more \in Seq(S), NEW kept,
         AllApart(st, kept), Shares(more, st[1])
  PROVE  AllApart(Tail(st) \o more, kept)
<1> DEFINE r == Tail(st) \o more
           n == Len(st) - 1
<1>1. Len(st) \in Nat /\ 1 \in 1..Len(st) /\ Len(more) \in Nat /\ Len(r) \in Nat
  BY QueueContinued
<1>2. \A k \in 1..Len(r) :
        \/ k \in 1..n /\ k + 1 \in 1..Len(st) /\ k + 1 # 1 /\ r[k] = st[k + 1]
        \/ k - n \in 1..Len(more) /\ k >= Len(st) /\ r[k] = more[k - n]
  BY QueuePlaces
<1> HIDE DEF r
<1>3. ASSUME NEW i \in 1..Len(r), NEW j \in 1..Len(r), i # j
      PROVE  Apart(r[i], r[j])
  <2>1. CASE i \in 1..n /\ i + 1 \in 1..Len(st) /\ i + 1 # 1 /\ r[i] = st[i + 1]
    <3>1. CASE j \in 1..n /\ j + 1 \in 1..Len(st) /\ j + 1 # 1 /\ r[j] = st[j + 1]
      <4>1. i + 1 # j + 1
        BY <1>3
      <4> QED
        BY <2>1, <3>1, <4>1 DEF AllApart
    <3>2. CASE j - n \in 1..Len(more) /\ j >= Len(st) /\ r[j] = more[j - n]
      <4>1. more[j - n].cond \subseteq st[1].cond /\ Apart(st[1], st[i + 1])
        BY <1>1, <2>1, <3>2 DEF AllApart, Shares
      <4> QED
        BY <2>1, <3>2, <4>1, NarrowerApart
    <3> QED
      BY <1>2, <3>1, <3>2
  <2>2. CASE i - n \in 1..Len(more) /\ i >= Len(st) /\ r[i] = more[i - n]
    <3>1. CASE j \in 1..n /\ j + 1 \in 1..Len(st) /\ j + 1 # 1 /\ r[j] = st[j + 1]
      <4>1. more[i - n].cond \subseteq st[1].cond /\ Apart(st[1], st[j + 1])
        BY <1>1, <2>2, <3>1 DEF AllApart, Shares
      <4> QED
        BY <2>2, <3>1, <4>1, NarrowerApart
    <3>2. CASE j - n \in 1..Len(more) /\ j >= Len(st) /\ r[j] = more[j - n]
      <4>1. i - n # j - n
        BY <1>1, <1>3
      <4> QED
        BY <2>2, <3>2, <4>1 DEF Shares
    <3> QED
      BY <1>2, <3>1, <3>2
  <2> QED
    BY <1>2, <2>1, <2>2
<1>4. ASSUME NEW i \in 1..Len(r), NEW t \in kept
      PROVE  Apart(r[i], t)
  <2>1. CASE i \in 1..n /\ i + 1 \in 1..Len(st) /\ i + 1 # 1 /\ r[i] = st[i + 1]
    BY <2>1 DEF AllApart
  <2>2. CASE i - n \in 1..Len(more) /\ i >= Len(st) /\ r[i] = more[i - n]
    <3>1. more[i - n].cond \subseteq st[1].cond /\ Apart(st[1], t)
      BY <1>1, <2>2 DEF AllApart, Shares
    <3> QED
      BY <2>2, <3>1, NarrowerApart
  <2> QED
    BY <1>2, <2>1, <2>2
<1>5. \A s, t \in kept : s # t => Apart(s, t)
  BY DEF AllApart
<1> QED
  BY <1>3, <1>4, <1>5 DEF AllApart, r

LEMMA SetAside ==
  ASSUME NEW S, NEW st \in Seq(S), st # <<>>, NEW kept, AllApart(st, kept)
  PROVE  AllApart(Tail(st) \o <<>>, kept \cup {st[1]})
<1> DEFINE r == Tail(st) \o <<>>
           n == Len(st) - 1
<1>0. <<>> \in Seq(S) /\ Len(<<>>) = 0
  OBVIOUS
<1>1. Len(st) \in Nat /\ 1 \in 1..Len(st) /\ Len(r) = n
  BY <1>0, QueueContinued
<1>2. \A k \in 1..n : k + 1 \in 1..Len(st) /\ k + 1 # 1 /\ r[k] = st[k + 1]
  BY <1>0, <1>1, QueueContinued
<1> HIDE DEF r
<1>3. ASSUME NEW i \in 1..n, NEW j \in 1..n, i # j
      PROVE  Apart(r[i], r[j])
  <2>1. i + 1 # j + 1
    BY <1>3
  <2> QED
    BY <1>2, <2>1 DEF AllApart
<1>4. ASSUME NEW i \in 1..n, NEW t \in kept \cup {st[1]}
      PROVE  Apart(r[i], t)
  BY <1>1, <1>2 DEF AllApart
<1>5. ASSUME NEW t \in kept
      PROVE  Apart(st[1], t) /\ Apart(t, st[1])
  BY <1>1 DEF AllApart, Apart
<1>6. \A s, t \in kept : s # t => Apart(s, t)
  BY DEF AllApart
<1>7. \A s, t \in kept \cup {st[1]} : s # t => Apart(s, t)
  BY <1>5, <1>6
<1> QED
  BY <1>1, <1>3, <1>4, <1>7 DEF AllApart, r

\* A value stays on some path unless it was only on the front and is not taken over.
LEMMA StillCarried ==
  ASSUME NEW S, NEW st \in Seq(S), st # <<>>, NEW more \in Seq(S), NEW kept, NEW also,
         NEW v, Carried(v, st, kept),
         v \in st[1].cond =>
           \/ \E j \in 1..Len(more) : v \in more[j].cond
           \/ \E s \in also : v \in s.cond
  PROVE  Carried(v, Tail(st) \o more, kept \cup also)
<1> DEFINE r == Tail(st) \o more
           n == Len(st) - 1
<1>1. /\ Len(r) = n + Len(more) /\ Len(st) \in Nat /\ Len(st) >= 1 /\ Len(more) \in Nat
      /\ \A k \in 1..n : r[k] = st[k + 1]
      /\ \A k \in 1..Len(more) : r[n + k] = more[k]
  BY QueueContinued
<1> HIDE DEF r
<1>2. CASE \E s \in kept : v \in s.cond
  BY <1>2 DEF Carried
<1>3. ASSUME NEW i \in 1..Len(st), i # 1, v \in st[i].cond
      PROVE  \E k \in 1..Len(r) : v \in r[k].cond
  <2>1. i - 1 \in 1..n /\ i - 1 \in 1..Len(r) /\ (i - 1) + 1 = i
    BY <1>1, <1>3
  <2>2. r[i - 1] = st[i]
    BY <1>1, <2>1
  <2> QED
    BY <1>3, <2>1, <2>2
<1>4. ASSUME NEW j \in 1..Len(more), v \in more[j].cond
      PROVE  \E k \in 1..Len(r) : v \in r[k].cond
  <2>1. n + j \in 1..Len(r)
    BY <1>1
  <2> QED
    BY <1>1, <1>4, <2>1
<1> QED
  BY <1>2, <1>3, <1>4 DEF Carried, r

\* The front gives way to paths that share what it holds.
LEMMA CasesReplaced ==
  ASSUME NEW p, NEW i, NEW st, NEW kept, CasesOf(p, i, st, kept), st # <<>>,
         NEW more \in Seq(Sound(p, i)), Shares(more, st[1]), Keeps(p, i, more, st[1])
  PROVE  CasesOf(p, i, Tail(st) \o more, kept)
<1> DEFINE S == Sound(p, i)
           r == Tail(st) \o more
           K == Range(kept)
<1>1. st \in Seq(S) /\ more \in Seq(S) /\ kept \in Seq(Ended(p, i)) /\ AllApart(st, K)
  BY DEF CasesOf
<1>2. \A v \in p.value : Returns(p, i, v) => Carried(v, st, K)
  BY DEF CasesOf
<1> HIDE DEF S, K
<1>3. r \in Seq(S) /\ AllApart(r, K)
  BY <1>1, QueueContinued, ReplaceHead
<1>4. ASSUME NEW v \in p.value, Returns(p, i, v)
      PROVE  Carried(v, r, K)
  <2>1. v \in st[1].cond => \E j \in 1..Len(more) : v \in more[j].cond
    BY <1>4 DEF Keeps
  <2>2. Carried(v, r, K \cup {})
    BY <1>1, <1>2, <1>4, <2>1, StillCarried
  <2>3. K \cup {} = K
    OBVIOUS
  <2> QED
    BY <2>2, <2>3
<1> HIDE DEF r
<1> QED
  BY <1>1, <1>3, <1>4 DEF CasesOf, S, K, r

\* The front has ended and is kept.
LEMMA CasesKept ==
  ASSUME NEW p, NEW i, NEW st, NEW kept, CasesOf(p, i, st, kept), st # <<>>,
         st[1] \in Ended(p, i)
  PROVE  CasesOf(p, i, Tail(st) \o <<>>, Append(kept, st[1]))
<1> DEFINE S == Sound(p, i)
           E == Ended(p, i)
           r == Tail(st) \o <<>>
           K == Range(kept)
           e == st[1]
<1>0. <<>> \in Seq(S) /\ Len(<<>>) = 0
  OBVIOUS
<1>1. st \in Seq(S) /\ kept \in Seq(E) /\ AllApart(st, K) /\ e \in E
  BY DEF CasesOf
<1>2. \A v \in p.value : Returns(p, i, v) => Carried(v, st, K)
  BY DEF CasesOf
<1> HIDE DEF S, E, K
<1>3. r \in Seq(S) /\ AllApart(r, K \cup {e})
  BY <1>0, <1>1, QueueContinued, SetAside
<1>4. \A v \in p.value : Returns(p, i, v) => Carried(v, r, K \cup {e})
  <2> SUFFICES ASSUME NEW v \in p.value, Returns(p, i, v)
               PROVE  Carried(v, r, K \cup {e})
    OBVIOUS
  <2>1. v \in st[1].cond => \E s \in {e} : v \in s.cond
    OBVIOUS
  <2> QED
    BY <1>0, <1>1, <1>2, <2>1, StillCarried
<1> HIDE DEF r, e
<1>5. Append(kept, e) \in Seq(E)
  BY <1>1
<1>6. Range(Append(kept, e)) = K \cup {e}
  <2>1. \A b : b \in Range(Append(kept, e)) <=> b \in K \/ b = e
    BY <1>1, RangeAppended DEF K
  <2> QED
    BY <2>1
<1> QED
  BY <1>3, <1>4, <1>5, <1>6 DEF CasesOf, S, E, r, e

\* Every value is on the path that begins.
LEMMA CasesBegin ==
  ASSUME ProgramOK(program), NEW i \in DOMAIN program.function
  PROVE  CasesOf(program, i, <<InitialState>>, <<>>)
<1> DEFINE s == InitialState
           p == program
           C == [callee : DOMAIN p.function, argument : [p.value -> p.value]]
<1>1. Size(p, i) \in Nat /\ Size(p, i) >= 1
  BY Instructions
<1>2. s = [pc |-> 1, trace |-> <<>>, cond |-> p.value, update |-> [v \in p.value |-> v],
           calls |-> <<>>, checks |-> {}, result |-> [v \in p.value |-> 0], weight |-> 0,
           status |-> "RUNNING"]
  BY DEF InitialState, Value
<1> HIDE DEF s
<1>3. s \in PathState(p, i)
  <2>1. 1 \in 1..Size(p, i) /\ <<>> \in Seq(Blocks(p, i)) /\ <<>> \in Seq(C)
    BY <1>1
  <2>2. [v \in p.value |-> v] \in [p.value -> p.value] /\ {} \in SUBSET SUBSET p.value
        /\ [v \in p.value |-> 0] \in [p.value -> Int] /\ p.value \in SUBSET p.value
    OBVIOUS
  <2> HIDE DEF p
  <2> QED
    BY <1>2, <2>1, <2>2 DEF PathState
<1>4. ValuesOK(p, i, s)
  <2> SUFFICES ASSUME NEW v \in s.cond
               PROVE  Stands(p, i, v, s) /\ Passed(p, i, v, s)
    BY <1>2 DEF ValuesOK
  <2>1. v \in p.value /\ s.update[v] = v /\ Len(s.calls) = 0 /\ s.pc - 1 = 0 /\ s.pc = 1
    BY <1>2
  <2>2. Course(p, i, v)[0] = Began(v)
    BY <2>1, CourseIs
  <2>3. Passed(p, i, v, s)
    BY <1>1, <1>2 DEF Passed
  <2> QED
    BY <2>1, <2>2, <2>3 DEF Stands, Began
<1>5. TraceOK(p, i, s)
  <2>1. Range(s.trace) = {}
    BY <1>2 DEF Range
  <2>2. CallsBehind(p, i, s) = {}
    BY <1>2, <2>1 DEF CallsBehind
  <2> QED
    BY <1>2, <2>2 DEF TraceOK
<1>6. s \in Sound(p, i)
  BY <1>3, <1>4, <1>5 DEF Sound
<1> DEFINE st == <<s>>
<1>7. st \in Seq(Sound(p, i)) /\ Len(st) = 1 /\ st[1] = s
  BY <1>6
<1>8. Range(<<>>) = {} /\ <<>> \in Seq(Ended(p, i))
  BY DEF Range
<1> HIDE DEF st
<1>9. AllApart(st, {})
  BY <1>7 DEF AllApart
<1>10. \A v \in p.value : Carried(v, st, {})
  <2>1. 1 \in 1..Len(st)
    BY <1>7
  <2> QED
    BY <1>2, <1>7, <2>1 DEF Carried
<1> QED
  BY <1>7, <1>8, <1>9, <1>10 DEF CasesOf, st, s

(***************************************************************************)
(* The invariant holds                                                     *)
(***************************************************************************)
LEMMA FrontSound ==
  ASSUME PathsInv, states # <<>>
  PROVE  /\ CasesOf(program, current, states, final[current])
         /\ cur_state = states[1] /\ cur_state \in Sound(program, current)
<1>1. current \in 1..current
  BY DEF PathsInv
<1>2. CasesOf(program, current, states, final[current])
  BY <1>1 DEF PathsInv, Waiting
<1>3. states \in Seq(Sound(program, current))
  BY <1>2 DEF CasesOf
<1>4. states[1] \in Sound(program, current)
  BY <1>3
<1> QED
  BY <1>2, <1>4 DEF cur_state

\* A step of the execution only touches the present function.
LEMMA RunKeeps ==
  ASSUME PathsInv, stage = "run", stage' \notin {"traced", "summarized"}, UNCHANGED <<program, current>>,
         DOMAIN final' = DOMAIN final,
         \A i \in Functions : i # current => final'[i] = final[i],
         CasesOf(program, current, states', final'[current])
  PROVE  PathsInv'
<1>1. \A i \in 1..current : i \in Functions
  BY DEF PathsInv, Functions
<1>2. ASSUME NEW i \in 1..current
      PROVE  CasesOf(program, i, Waiting(i)', final'[i])
  <2>1. CASE i = current
    <3>1. Waiting(i)' = states'
      BY <2>1 DEF Waiting
    <3> QED
      BY <2>1, <3>1
  <2>2. CASE i # current
    <3>1. Waiting(i)' = Waiting(i) /\ final'[i] = final[i]
      BY <1>1, <2>2 DEF Waiting
    <3>2. CasesOf(program, i, Waiting(i), final[i])
      BY DEF PathsInv
    <3> QED
      BY <3>1, <3>2
  <2> QED
    BY <2>1, <2>2
<1>3. \A i \in Functions : i > current => final'[i] = <<>>
  BY DEF PathsInv
<1>4. current \in 1..Len(program.function) /\ DOMAIN final = Functions
  BY DEF PathsInv
<1> QED
  BY <1>2, <1>3, <1>4 DEF PathsInv, Functions

LEMMA RunInv ==
  ASSUME ProgramOK(program), Decided(program), PathsInv, Run
  PROVE  PathsInv'
<1>1. /\ stage = "run" /\ states # <<>> /\ UNCHANGED <<program, current>>
      /\ Finish \/ Test \/ Step \/ Throw
  BY DEF Run
<1>2. /\ CasesOf(program, current, states, final[current])
      /\ cur_state = states[1] /\ cur_state \in Sound(program, current)
      /\ states \in Seq(Sound(program, current))
  <2>1. /\ CasesOf(program, current, states, final[current])
        /\ cur_state = states[1] /\ cur_state \in Sound(program, current)
    BY <1>1, FrontSound
  <2> QED
    BY <2>1 DEF CasesOf
<1>3. current \in Functions /\ DOMAIN final = Functions /\ current \in DOMAIN program.function
  BY DEF PathsInv, Functions, ProgramOK
<1> DEFINE S == Sound(program, current)
           s == cur_state
<1>4. ASSUME NEW more \in Seq(S), Shares(more, s), Keeps(program, current, more, s),
             Continue(more), UNCHANGED <<final, stage>>
      PROVE  PathsInv'
  <2>1. states' = Tail(states) \o more
    BY <1>4 DEF Continue
  <2>2. CasesOf(program, current, states', final'[current])
    BY <1>1, <1>2, <1>4, <2>1, CasesReplaced
  <2> QED
    BY <1>1, <1>4, <2>2, RunKeeps
<1>5. CASE Finish
  <2>1. /\ s.status = "TERMINATED" /\ states' = Tail(states) \o <<>> /\ UNCHANGED stage
        /\ final' = [final EXCEPT ![current] = Append(final[current], s)]
    BY <1>5 DEF Finish, Continue
  <2>2. s \in Ended(program, current)
    BY <1>2, <2>1 DEF Ended
  <2>3. /\ DOMAIN final' = DOMAIN final /\ final'[current] = Append(final[current], s)
        /\ \A i \in Functions : i # current => final'[i] = final[i]
    BY <1>3, <2>1
  <2>4. CasesOf(program, current, states', final'[current])
    BY <1>1, <1>2, <2>1, <2>2, <2>3, CasesKept
  <2> QED
    BY <1>1, <2>1, <2>3, <2>4, RunKeeps
<1>6. CASE Test
  <2>1. s.status = "TESTING" /\ UNCHANGED <<final, stage>>
    BY <1>6 DEF Test
  <2>2. CASE Continue(<<[s EXCEPT !.status = "RUNNING"]>>)
    <3> DEFINE t == [s EXCEPT !.status = "RUNNING"]
    <3>1. s \in PathState(program, current) /\ ValuesOK(program, current, s)
          /\ TraceOK(program, current, s)
      BY <1>2 DEF Sound
    <3>2. /\ t \in PathState(program, current) /\ t.pc = s.pc /\ t.trace = s.trace
          /\ t.calls = s.calls /\ t.cond = s.cond /\ t.update = s.update
          /\ t.status = "RUNNING"
      BY <3>1 DEF PathState
    <3>3. Continue(<<t>>)
      BY <2>2
    <3> HIDE DEF t
    <3>4. t \in S
      <4>1. TraceOK(program, current, t)
        BY <3>1, <3>2 DEF TraceOK, CallsBehind
      <4>2. ASSUME NEW v
            PROVE  /\ Stands(program, current, v, s) = Stands(program, current, v, t)
                   /\ Passed(program, current, v, s) => Passed(program, current, v, t)
        <5>1. Stands(program, current, v, s) = Stands(program, current, v, t)
          BY <3>2 DEF Stands
        <5>2. Passed(program, current, v, s) => Passed(program, current, v, t)
          BY <3>2 DEF Passed, InTrace, Noted
        <5> QED
          BY <5>1, <5>2
      <4>3. ValuesOK(program, current, t)
        BY <2>1, <3>1, <3>2, <4>2 DEF ValuesOK
      <4> QED
        BY <3>2, <4>1, <4>3 DEF Sound
    <3>5. <<t>> \in Seq(S) /\ Shares(<<t>>, s) /\ Len(<<t>>) = 1 /\ (<<t>>)[1] = t
      BY <3>2, <3>4, OneShares
    <3>6. Keeps(program, current, <<t>>, s)
      <4>1. 1 \in 1..Len(<<t>>)
        BY <3>5
      <4> QED
        BY <3>2, <3>5, <4>1 DEF Keeps
    <3> QED
      BY <1>4, <2>1, <3>3, <3>5, <3>6
  <2>3. CASE s.cond = {} /\ Continue(<<>>)
    <3>1. Keeps(program, current, <<>>, s)
      BY <2>3 DEF Keeps
    <3> QED
      BY <1>4, <2>1, <2>3, <3>1, NothingLeft
  <2> QED
    BY <1>6, <2>2, <2>3 DEF Test, Decided
<1>7. CASE Step
  <2>1. /\ s.status # "TERMINATED" /\ ~Inexact(s) /\ Continue(step(s))
        /\ UNCHANGED <<final, stage>>
    BY <1>7 DEF Step
  <2>2. /\ step(s) \in Seq(S) /\ Shares(step(s), s)
        /\ Keeps(program, current, step(s), s)
    BY <1>2, <1>3, <2>1, StepSound DEF Decided
  <2> QED
    BY <1>4, <2>1, <2>2
<1>8. CASE Throw
  <2>1. stage' = "done" /\ UNCHANGED <<states, final>>
    BY <1>8 DEF Throw
  <2>2. CasesOf(program, current, states', final'[current])
    BY <1>2, <2>1
  <2> QED
    BY <1>1, <2>1, <2>2, RunKeeps
<1> QED
  BY <1>1, <1>5, <1>6, <1>7, <1>8

\* One function after the other.
LEMMA TracedInv ==
  ASSUME ProgramOK(program), PathsInv, Traced
  PROVE  PathsInv'
<1>1. /\ stage = "run" /\ states = <<>> /\ UNCHANGED <<program, final>>
  BY DEF Traced
<1>2. /\ current \in 1..Len(program.function) /\ DOMAIN final = Functions
      /\ Len(program.function) \in Nat /\ Functions = 1..Len(program.function)
      /\ \A i \in 1..current : CasesOf(program, i, Waiting(i), final[i])
      /\ \A i \in Functions : i > current => final[i] = <<>>
  BY DEF PathsInv, Functions, ProgramOK
<1>3. CASE current < Len(program.function)
  <2>1. current' = current + 1 /\ states' = <<InitialState>> /\ stage' = stage
    BY <1>1, <1>3 DEF Traced
  <2>2. current' \in 1..Len(program.function) /\ current' \in Functions
    BY <1>2, <1>3, <2>1
  <2>3. ASSUME NEW i \in 1..current'
        PROVE  CasesOf(program, i, Waiting(i)', final'[i])
    <3>1. CASE i = current'
      <4>1. final'[i] = <<>> /\ Waiting(i)' = <<InitialState>>
        <5>1. i \in Functions /\ i > current
          BY <1>2, <2>1, <2>2, <3>1
        <5> QED
          BY <1>1, <1>2, <2>1, <3>1, <5>1 DEF Waiting
      <4>2. i \in DOMAIN program.function
        BY <2>2, <3>1 DEF Functions
      <4> QED
        BY <4>1, <4>2, CasesBegin
    <3>2. CASE i # current'
      <4>1. i \in 1..current
        BY <1>2, <2>1, <3>2
      <4>2. Waiting(i)' = <<>> /\ Waiting(i) = <<>>
        BY <1>1, <3>2 DEF Waiting
      <4> QED
        BY <1>1, <1>2, <4>1, <4>2
    <3> QED
      BY <3>1, <3>2
  <2>4. \A i \in Functions : i > current' => final'[i] = <<>>
    BY <1>1, <1>2, <2>1
  <2>5. stage' \notin {"traced", "summarized"}
    BY <1>1, <2>1
  <2> QED
    BY <1>1, <1>2, <2>2, <2>3, <2>4, <2>5 DEF PathsInv, Functions
<1>4. CASE ~(current < Len(program.function))
  <2>1. UNCHANGED <<current, states>> /\ current = Len(program.function)
    BY <1>1, <1>2, <1>4 DEF Traced
  <2> QED
    BY <1>1, <1>2, <2>1 DEF PathsInv, Functions, Waiting
<1> QED
  BY <1>3, <1>4

LEMMA IInvHolds ==
  Spec => []IInv
<1>1. Init => IInv
  <2> SUFFICES ASSUME Init
               PROVE  IInv
    OBVIOUS
  <2>1. /\ program \in Programs /\ current = 1 /\ states = <<InitialState>> /\ stage = "run"
        /\ final = [i \in Functions |-> <<>>]
    BY DEF Init
  <2>2. ProgramOK(program)
    BY <2>1, FunctionAssumption
  <2>3. /\ 1 \in 1..Len(program.function) /\ 1 \in DOMAIN program.function
        /\ 1..current = {1}
    BY <2>1, <2>2 DEF ProgramOK
  <2>4. CasesOf(program, 1, <<InitialState>>, <<>>)
    BY <2>2, <2>3, CasesBegin
  <2>5. Waiting(1) = <<InitialState>> /\ final[1] = <<>>
    BY <2>1, <2>3 DEF Waiting, Functions
  <2>6. PathsInv
    BY <2>1, <2>3, <2>4, <2>5 DEF PathsInv
  <2> QED
    BY <2>1, <2>6 DEF IInv
<1>2. IInv /\ [Next]_vars => IInv'
  <2> SUFFICES ASSUME IInv, [Next]_vars
               PROVE  IInv'
    OBVIOUS
  <2>1. ProgramOK(program) /\ program' = program
    BY FunctionAssumption
       DEF IInv, Next, vars, Run, Traced, SummarizePointers, Apply, SummarizeScalar
  <2> SUFFICES ASSUME Decided(program), PathsInv
               PROVE  PathsInv'
    BY <2>1 DEF IInv
  <2>2. CASE Run
    BY <2>1, <2>2, RunInv
  <2>3. CASE Traced
    BY <2>1, <2>3, TracedInv
  <2>4. ASSUME UNCHANGED <<program, current, states, final>>,
               stage' \in {"traced", "summarized"} => stage \in {"traced", "summarized"}
        PROVE  PathsInv'
    <3>1. \A i : Waiting(i)' = Waiting(i)
      BY <2>4 DEF Waiting
    <3> QED
      BY <2>4, <3>1 DEF PathsInv, Functions
  <2>5. CASE SummarizePointers
    <3>1. stage = "traced"
      BY <2>5 DEF SummarizePointers
    <3>2. UNCHANGED <<program, current, states, final>>
      BY <2>5 DEF SummarizePointers
    <3> QED
      BY <2>4, <3>1, <3>2
  <2>6. CASE Apply
    BY <2>4, <2>6 DEF Apply
  <2>7. CASE SummarizeScalar
    BY <2>4, <2>7 DEF SummarizeScalar
  <2>8. CASE UNCHANGED vars
    BY <2>4, <2>8 DEF vars
  <2> QED
    BY <2>2, <2>3, <2>5, <2>6, <2>7, <2>8 DEF Next
<1> QED
  BY <1>1, <1>2, PTL DEF Spec

(***************************************************************************)
(* The cases                                                               *)
(***************************************************************************)
\* No call of a function of pointers stands in a block that returns.
ReturnsApart(p) ==
  p.kind = "pointers" =>
    \A i \in DOMAIN p.function : \A j, k \in DOMAIN p.function[i] :
      p.function[i][j].op = "call" /\ p.function[i][k].op = "return"
        => p.function[i][j].block # p.function[i][k].block

\* What a path that has ended says of its values.
LEMMA EndedSays ==
  ASSUME NEW p, ProgramOK(p), NEW i \in DOMAIN p.function, NEW s \in Ended(p, i),
         NEW v \in s.cond, End(p, i, v).end # "failed"
  PROVE  Returned(p, i, v, s)
BY DEF Ended, Sound, ValuesOK

\* The blocks that such a path has left have the calls that it has made.
LEMMA BaseCase ==
  ASSUME ProgramOK(program), ReturnsApart(program), program.kind = "pointers",
         NEW i \in DOMAIN program.function, NEW s \in Ended(program, i)
  PROVE  is_base_case_final_state(i, s) <=> Len(s.calls) = 0
<1> DEFINE body == program.function[i]
<1>1. /\ s \in Sound(program, i) /\ s.status = "TERMINATED" /\ TraceOK(program, i, s)
      /\ s.pc \in 1..Size(program, i) /\ DOMAIN body = 1..Size(program, i)
  BY SMTT(90), SoundFields, Instructions DEF Ended
<1>2. body[s.pc].op = "return"
  BY <1>1 DEF TraceOK
<1>3. ASSUME NEW j \in 1..Size(program, i)
      PROVE  j \in CallsBehind(program, i, s)
               <=> body[j].op = "call" /\ body[j].block \in Range(s.trace)
  <2>1. body[j].op = "call" => body[j].block # body[s.pc].block
    BY <1>1, <1>2 DEF ReturnsApart
  <2> QED
    BY <2>1 DEF CallsBehind
<1>4. is_base_case_final_state(i, s)
        <=> \A j \in 1..Size(program, i) : body[j].block \in Range(s.trace) => body[j].op # "call"
  BY <1>1 DEF is_base_case_final_state, CallsIn, Left
<1>5. CallsBehind(program, i, s) = {}
        <=> \A j \in 1..Size(program, i) : body[j].block \in Range(s.trace) => body[j].op # "call"
  <2>1. CallsBehind(program, i, s) \subseteq 1..Size(program, i)
    BY DEF CallsBehind
  <2> HIDE DEF body
  <2> QED
    BY <1>3, <2>1
<1> QED
  BY <1>1, <1>4, <1>5 DEF TraceOK

\* RecExecution::run: when the functions have been executed, their paths are the
\* cases of their activations, and is_base_case_final_state tells those without a
\* call, for all functions without loops, if Z3 decides the tests, divisions are
\* inexact and no call stands in the block of a return.
THEOREM PathsAreCases ==
  Spec => [](Decided(program) /\ ReturnsApart(program) => CasesExact)
<1>1. IInv => (Decided(program) /\ ReturnsApart(program) => CasesExact)
  <2> SUFFICES ASSUME IInv, Decided(program), ReturnsApart(program),
                      stage = "traced", NEW i \in Functions, NEW v \in Value
               PROVE  LET run == Shallow(i, v)
                          of == {s \in Range(final[i]) : v \in s.cond}
                      IN  /\ run.end = "returned" =>
                               /\ Cardinality(of) = 1
                               /\ \A s \in of :
                                    /\ s.update[v] = run.value
                                    /\ program.kind = "pointers" =>
                                         (is_base_case_final_state(i, s) <=> run.calls = 0)
                          /\ run.end = "blocked" => of = {}
    BY DEF CasesExact
  <2> DEFINE run == Shallow(i, v)
             K == Range(final[i])
             of == {s \in K : v \in s.cond}
  <2>1. ProgramOK(program) /\ PathsInv /\ i \in DOMAIN program.function /\ v \in program.value
    BY FunctionAssumption DEF IInv, Functions, Value
  <2>2. run = End(program, i, v)
    BY ShallowIs
  <2>3. CasesOf(program, i, <<>>, final[i])
    <3>1. states = <<>> /\ current = Len(program.function) /\ i \in 1..current
      BY <2>1 DEF PathsInv, ProgramOK
    <3>2. CasesOf(program, i, Waiting(i), final[i]) /\ Waiting(i) = <<>>
      BY <2>1, <3>1 DEF PathsInv, Waiting
    <3> QED
      BY <3>2
  <2>4. /\ \A s \in K : s \in Ended(program, i)
        /\ \A s, t \in K : s # t => Apart(s, t)
        /\ Returns(program, i, v) => \E s \in K : v \in s.cond
    <3>1. final[i] \in Seq(Ended(program, i))
      BY <2>3 DEF CasesOf
    <3>2. \A s \in K : s \in Ended(program, i)
      BY <3>1 DEF Range
    <3>3. AllApart(<<>>, K) /\ (Returns(program, i, v) => Carried(v, <<>>, K))
      BY <2>1, <2>3 DEF CasesOf
    <3>4. Len(<<>>) = 0
      OBVIOUS
    <3> HIDE DEF K
    <3> QED
      BY <3>2, <3>3, <3>4 DEF AllApart, Carried
  <2> HIDE DEF run, K
  <2>5. ASSUME NEW s \in of, run.end # "failed"
        PROVE  /\ run.end = "returned" /\ run.value = s.update[v]
               /\ run.calls = Len(s.calls)
    <3>1. s \in Ended(program, i) /\ v \in s.cond
      BY <2>4
    <3>2. Returned(program, i, v, s)
      BY <2>1, <2>2, <2>5, <3>1, EndedSays
    <3> QED
      BY <2>2, <3>2 DEF Returned
  <2>6. ASSUME run.end = "blocked"
        PROVE  of = {}
    BY <2>5, <2>6
  <2>7. ASSUME run.end = "returned"
        PROVE  Cardinality(of) = 1
    <3>1. PICK s \in K : v \in s.cond
      BY <2>2, <2>4, <2>7 DEF Returns
    <3>2. of = {s}
      BY <2>4, <3>1 DEF Apart
    <3> QED
      BY <3>2, FS_Singleton
  <2>8. ASSUME run.end = "returned", NEW s \in of, program.kind = "pointers"
        PROVE  is_base_case_final_state(i, s) <=> run.calls = 0
    <3>1. run.calls = Len(s.calls) /\ s \in Ended(program, i)
      BY <2>4, <2>5, <2>8
    <3>2. is_base_case_final_state(i, s) <=> Len(s.calls) = 0
      BY <2>1, <2>8, <3>1, BaseCase
    <3> QED
      BY <3>1, <3>2
  <2> HIDE DEF of
  <2>9. \A s \in of : run.end = "returned" => s.update[v] = run.value
    BY <2>5 DEF of
  <2> QED
    BY <2>6, <2>7, <2>8, <2>9 DEF run, of, K
<1> QED
  BY <1>1, IInvHolds, PTL

(***************************************************************************)
(* Runs                                                                    *)
(***************************************************************************)
\* What activations, and calls that did not even begin one, may have come to.
Ways == {"going", "returned", "blocked", "failed", "deep"}
Under(p, i) == [pc : 1..Size(p, i), value : p.value, calls : Nat, sum : Int, end : Ways]
Over(p) == [end : {"deep", "returned"}, value : p.value, sum : Int]
             \cup UNION {{x \in Under(p, i) : x.end # "going"} : i \in DOMAIN p.function}
Tables(p) == [DOMAIN p.function -> [p.value -> Over(p)]]

\* The activation at v if a call does what the table b says.
TurnBy(p, i, b, before, k) ==
  LET n == p.function[i][k]
  IN  IF before.pc # k \/ before.end # "going" THEN before
      ELSE Executed(p.kind, n, before, b[n.callee][n.update[before.value]])
CourseBy(p, i, v, b) ==
  LET body == p.function[i]
      at[k \in 0..Len(body)] ==
        IF k = 0 THEN Began(v)
        ELSE LET before == at[k - 1] n == body[k]
             IN  IF before.pc # k \/ before.end # "going" THEN before
                 ELSE Executed(p.kind, n, before, b[n.callee][n.update[before.value]])
  IN  at[Len(body)]

\* The runs of at most d activations, one table for each d.
Deep(p) == [j \in DOMAIN p.function |-> [w \in p.value |-> [end |-> "deep", value |-> w, sum |-> 0]]]
Deeper(p, b) == [j \in DOMAIN p.function |-> [w \in p.value |-> CourseBy(p, j, w, b)]]
Table(p) ==
  LET runs[d \in 0..Depth] == IF d = 0 THEN Deep(p) ELSE Deeper(p, runs[d - 1])
  IN  runs

LEMMA RunOfIs ==
  ASSUME NEW i, NEW v
  PROVE  RunOf(i, v) = Table(program)[Depth][i][v]
BY DEF RunOf, Activation, Table, Deep, Deeper, CourseBy, Began, Functions, Value

LEMMA OverFields ==
  ASSUME NEW p, NEW x \in Over(p)
  PROVE  /\ x.value \in p.value /\ x.sum \in Int
         /\ x.end \in Ways /\ x.end # "going"
BY DEF Over, Under, Ways

\* A call has something to call.
LEMMA CalleeIn ==
  ASSUME NEW p, ProgramOK(p), NEW i \in DOMAIN p.function, NEW b \in Tables(p),
         NEW k \in 1..Size(p, i), NEW w \in p.value, p.function[i][k].op = "call"
  PROVE  LET n == p.function[i][k]
         IN  n.callee \in DOMAIN p.function /\ n.update[w] \in p.value
             /\ b[n.callee][n.update[w]] \in Over(p)
<1>1. LET n == p.function[i][k] IN n.callee \in DOMAIN p.function /\ n.update[w] \in p.value
  BY SMTT(90), Instructions
<1> QED
  BY <1>1 DEF Tables

\* What an instruction makes of an activation whose calls do what b says.
Turned(p, i, b, before, k) ==
  LET n == p.function[i][k]
      w == before.value
      c == b[n.callee][n.update[w]]
      t == TurnBy(p, i, b, before, k)
  IN  /\ t \in Under(p, i)
      /\ t.pc = IF n.op = "branch" /\ w \notin n.on THEN n.other ELSE n.to
      /\ t.value = IF n.op = "set" THEN n.update[w]
                   ELSE IF n.op = "call" /\ p.kind = "pointers" THEN c.value ELSE w
      /\ t.calls = before.calls + IF n.op = "call" THEN 1 ELSE 0
      /\ t.sum = IF n.op = "call" THEN before.sum + c.sum
                 ELSE IF n.op = "return" THEN n.result[w] + n.weight * before.sum
                 ELSE before.sum
      /\ t.end = IF n.op = "call" /\ c.end # "returned" THEN c.end
                 ELSE IF n.op = "return" THEN "returned"
                 ELSE IF n.op = "error" \/ (n.op = "assert" /\ w \notin n.on) THEN "failed"
                 ELSE IF n.op = "assume" /\ w \notin n.on THEN "blocked" ELSE "going"
      /\ t.end = "going" => t.pc > k

LEMMA TurnIs ==
  ASSUME NEW p, ProgramOK(p), NEW i \in DOMAIN p.function, NEW b \in Tables(p),
         NEW k \in 1..Size(p, i), NEW before \in Under(p, i), before.pc = k,
         before.end = "going"
  PROVE  Turned(p, i, b, before, k)
<1> DEFINE n == p.function[i][k]
           w == before.value
           t == TurnBy(p, i, b, before, k)
           c == b[n.callee][n.update[w]]
           u == n.update[w]
           to == IF n.op = "branch" /\ w \notin n.on THEN n.other ELSE n.to
           value == IF n.op = "set" THEN u
                    ELSE IF n.op = "call" /\ p.kind = "pointers" THEN c.value ELSE w
           calls == before.calls + IF n.op = "call" THEN 1 ELSE 0
           sum == IF n.op = "call" THEN before.sum + c.sum
                  ELSE IF n.op = "return" THEN n.result[w] + n.weight * before.sum
                  ELSE before.sum
           end == IF n.op = "call" /\ c.end # "returned" THEN c.end
                  ELSE IF n.op = "return" THEN "returned"
                  ELSE IF n.op = "error" \/ (n.op = "assert" /\ w \notin n.on) THEN "failed"
                  ELSE IF n.op = "assume" /\ w \notin n.on THEN "blocked" ELSE "going"
<1>1. w \in p.value /\ before.calls \in Nat /\ before.sum \in Int
  BY DEF Under
<1>2. /\ to \in 1..Size(p, i) /\ u \in p.value /\ n.result[w] \in Int /\ n.weight \in Int
      /\ n.op \notin {"error", "return"} => to > k
  BY SMTT(90), <1>1, Instructions
<1>4. t = [pc |-> to, value |-> value, calls |-> calls, sum |-> sum, end |-> end]
  BY DEF TurnBy, Executed
<1>5. n.op = "call" => c \in Over(p)
  BY <1>1, CalleeIn
<1>6. n.op = "call" => c.value \in p.value /\ c.sum \in Int /\ c.end \in Ways /\ c.end # "going"
  BY <1>5, OverFields
<1> HIDE DEF n, w, u, to, c, t
<1>7. calls \in Nat /\ value \in p.value
  BY <1>1, <1>2, <1>6
<1>8. sum \in Int
  <2>1. n.weight * before.sum \in Int
    BY <1>1, <1>2
  <2>2. n.op = "call" => before.sum + c.sum \in Int
    BY <1>1, <1>6
  <2> QED
    BY <1>1, <1>2, <2>1, <2>2
<1>9. end \in Ways
  BY <1>6 DEF Ways
<1>10. end = "going" => n.op \notin {"error", "return"}
  BY <1>6
<1> HIDE DEF value, calls, sum, end
<1>11. t \in Under(p, i)
  BY <1>2, <1>4, <1>7, <1>8, <1>9 DEF Under
<1>12. t.pc = to /\ t.value = value /\ t.calls = calls /\ t.sum = sum /\ t.end = end
  BY <1>4
<1>13. t.end = "going" => t.pc > k
  BY <1>2, <1>10, <1>12
<1> QED
  BY <1>11, <1>12, <1>13 DEF Turned, t, n, w, c, u, to, value, calls, sum, end

\* The activation, instruction by instruction.
ComesBy(p, i, b, v, at) ==
  /\ at \in [0..Size(p, i) -> Under(p, i)] /\ at[0] = Began(v)
  /\ \A k \in 1..Size(p, i) : at[k] = TurnBy(p, i, b, at[k - 1], k)

LEMMA CourseByIs ==
  ASSUME NEW p, ProgramOK(p), NEW i \in DOMAIN p.function, NEW b \in Tables(p), NEW v \in p.value
  PROVE  \E at : ComesBy(p, i, b, v, at) /\ CourseBy(p, i, v, b) = at[Size(p, i)]
<1> DEFINE n == Size(p, i)
           y == Began(v)
           X == Under(p, i)
           go == [x \in X \X (1..n) |-> TurnBy(p, i, b, x[1], x[2])]
           Obeys(g) == g = [k \in 0..n |-> IF k = 0 THEN y ELSE TurnBy(p, i, b, g[k - 1], k)]
           chosen == CHOOSE g : Obeys(g)
<1>1. CourseBy(p, i, v, b) = chosen[n]
  BY DEF CourseBy, TurnBy, Size
<1>2. n \in Nat /\ n >= 1
  BY Instructions
<1>3. y \in X
  <2>1. 1 \in 1..Size(p, i)
    BY <1>2
  <2> QED
    BY <2>1 DEF Under, Began, Ways
<1>4. \A x \in X, k \in 1..n : go[<<x, k>>] = TurnBy(p, i, b, x, k)
  OBVIOUS
<1>5. \A x \in X, k \in 1..n : TurnBy(p, i, b, x, k) \in X
  <2> SUFFICES ASSUME NEW x \in X, NEW k \in 1..n
               PROVE  TurnBy(p, i, b, x, k) \in X
    OBVIOUS
  <2>1. CASE x.pc = k /\ x.end = "going"
    BY <2>1, TurnIs DEF Turned
  <2>2. CASE ~(x.pc = k /\ x.end = "going")
    BY <2>2 DEF TurnBy
  <2> QED
    BY <2>1, <2>2
<1> HIDE DEF n, y, go, X
<1>6. Steps(X, n, go)
  BY <1>4, <1>5 DEF Steps
<1>7. PICK f : Recursive(X, y, n, go, f)
  BY <1>2, <1>3, <1>6, Recursion
<1>8. /\ f \in [0..n -> X] /\ f[0] = y
      /\ \A k \in 1..n : f[k - 1] \in X /\ f[k] = TurnBy(p, i, b, f[k - 1], k)
  <2>1. \A k \in 1..n : k - 1 \in 0..n
    BY <1>2
  <2> QED
    BY <1>4, <1>7, <2>1 DEF Recursive
<1>9. Obeys(f)
  <2>1. f = [k \in 0..n |-> f[k]]
    BY <1>8
  <2>2. \A k \in 0..n : k # 0 => k \in 1..n
    BY <1>2
  <2>3. \A k \in 0..n : f[k] = IF k = 0 THEN y ELSE TurnBy(p, i, b, f[k - 1], k)
    BY <1>8, <2>2
  <2> QED
    BY <2>1, <2>3
<1>10. Obeys(chosen)
  <2> HIDE DEF Obeys
  <2> QED
    BY <1>9, Zenon
<1> HIDE DEF chosen
<1>11. chosen[0] = y /\ \A k \in 1..n : chosen[k] = TurnBy(p, i, b, chosen[k - 1], k)
  <2>1. 0 \in 0..n /\ \A k \in 1..n : k \in 0..n /\ k # 0
    BY <1>2
  <2>2. \A k \in 0..n : chosen[k] = IF k = 0 THEN y ELSE TurnBy(p, i, b, chosen[k - 1], k)
    BY <1>10
  <2> QED
    BY <2>1, <2>2
<1>12. \A k \in 1..n : chosen[k - 1] \in X => chosen[k] = go[<<chosen[k - 1], k>>]
  BY <1>4, <1>11
<1>13. \A k \in 0..n : chosen[k] = f[k]
  BY <1>2, <1>3, <1>7, <1>11, <1>12, RecursionUnique
<1>14. chosen = [k \in 0..n |-> chosen[k]]
  BY <1>10
<1>15. chosen \in [0..n -> X]
  BY <1>8, <1>13, <1>14
<1>16. ComesBy(p, i, b, v, chosen)
  BY <1>11, <1>15 DEF ComesBy, n, y, X
<1> QED
  BY <1>1, <1>16 DEF n

\* Behind the last instruction an activation is over.
LEMMA GoesOn ==
  ASSUME NEW p, ProgramOK(p), NEW i \in DOMAIN p.function, NEW b \in Tables(p), NEW v \in p.value, NEW at,
         ComesBy(p, i, b, v, at)
  PROVE  /\ \A k \in 0..Size(p, i) : at[k] \in Under(p, i) /\ (at[k].end = "going" => at[k].pc > k)
         /\ at[Size(p, i)] \in Over(p)
<1> DEFINE n == Size(p, i)
           S == {k \in 0..n : at[k].end = "going" => at[k].pc > k}
<1>1. /\ n \in Nat /\ n >= 1 /\ at[0] = Began(v)
      /\ \A k \in 0..n : at[k] \in Under(p, i)
      /\ \A k \in 1..n : at[k] = TurnBy(p, i, b, at[k - 1], k)
  BY Instructions DEF ComesBy
<1>2. 0 \in S
  BY <1>1 DEF Began
<1>3. ASSUME NEW k \in 0..(n - 1), k \in S
      PROVE  k + 1 \in S
  <2>1. k + 1 \in 1..n /\ (k + 1) - 1 = k /\ k + 1 \in 0..n /\ k \in 0..n
    BY <1>1
  <2>2. at[k + 1] = TurnBy(p, i, b, at[k], k + 1) /\ at[k] \in Under(p, i)
    BY <1>1, <2>1
  <2> HIDE DEF n
  <2>3. CASE at[k].pc = k + 1 /\ at[k].end = "going"
    <3>1. Turned(p, i, b, at[k], k + 1)
      BY <2>1, <2>2, <2>3, TurnIs DEF n
    <3> QED
      BY <2>1, <2>2, <3>1 DEF Turned
  <2>4. CASE ~(at[k].pc = k + 1 /\ at[k].end = "going")
    <3>1. at[k + 1] = at[k]
      BY <2>2, <2>4 DEF TurnBy
    <3>2. at[k].pc \in Nat
      BY SMTT(90), <2>2, Instructions DEF Under
    <3> QED
      BY <1>3, <2>1, <2>4, <3>1, <3>2
  <2> QED
    BY <2>3, <2>4
<1>4. 0..n \subseteq S
  <2> HIDE DEF S
  <2> QED
    BY <1>1, <1>2, <1>3, InductionUpTo
<1>5. \A k \in 0..n : at[k].end = "going" => at[k].pc > k
  BY <1>4
<1>6. at[n] \in Over(p)
  <2>1. n \in 0..n
    BY <1>1
  <2>2. at[n] \in Under(p, i) /\ at[n].pc \in 1..n
    BY <1>1, <2>1 DEF Under
  <2>3. at[n].end # "going"
    BY <1>1, <1>5, <2>1, <2>2
  <2> QED
    BY <2>2, <2>3 DEF Over
<1> QED
  BY <1>1, <1>5, <1>6

\* A run of at most d activations.
LEMMA TableIs ==
  ASSUME NEW p, ProgramOK(p)
  PROVE  /\ Table(p) \in [0..Depth -> Tables(p)]
         /\ Table(p)[0] = Deep(p)
         /\ \A d \in 1..Depth : Table(p)[d] = Deeper(p, Table(p)[d - 1])
<1> DEFINE n == Depth
           y == Deep(p)
           X == Tables(p)
           go == [x \in X \X (1..n) |-> Deeper(p, x[1])]
           Obeys(g) == g = [k \in 0..n |-> IF k = 0 THEN y ELSE Deeper(p, g[k - 1])]
           chosen == CHOOSE g : Obeys(g)
<1>1. Table(p) = chosen
  BY DEF Table
<1>2. n \in Nat
  BY FunctionAssumption
<1>3. y \in X
  BY DEF Deep, Tables, Over
<1>4. \A x \in X, k \in 1..n : go[<<x, k>>] = Deeper(p, x)
  OBVIOUS
<1>5. \A x \in X : Deeper(p, x) \in X
  <2> SUFFICES ASSUME NEW x \in X, NEW i \in DOMAIN p.function, NEW w \in p.value
               PROVE  CourseBy(p, i, w, x) \in Over(p)
    BY DEF Deeper, Tables
  <2> QED
    BY CourseByIs, GoesOn
<1> HIDE DEF n, y, go, X
<1>6. Steps(X, n, go)
  BY <1>4, <1>5 DEF Steps
<1>7. PICK f : Recursive(X, y, n, go, f)
  BY <1>2, <1>3, <1>6, Recursion
<1>8. /\ f \in [0..n -> X] /\ f[0] = y
      /\ \A k \in 1..n : f[k - 1] \in X /\ f[k] = Deeper(p, f[k - 1])
  <2>1. \A k \in 1..n : k - 1 \in 0..n
    BY <1>2
  <2> QED
    BY <1>4, <1>7, <2>1 DEF Recursive
<1>9. Obeys(f)
  <2>1. f = [k \in 0..n |-> f[k]]
    BY <1>8
  <2>2. \A k \in 0..n : k # 0 => k \in 1..n
    BY <1>2
  <2>3. \A k \in 0..n : f[k] = IF k = 0 THEN y ELSE Deeper(p, f[k - 1])
    BY <1>8, <2>2
  <2> QED
    BY <2>1, <2>3
<1>10. Obeys(chosen)
  <2> HIDE DEF Obeys
  <2> QED
    BY <1>9, Zenon
<1> HIDE DEF chosen
<1>11. chosen[0] = y /\ \A k \in 1..n : chosen[k] = Deeper(p, chosen[k - 1])
  <2>1. 0 \in 0..n /\ \A k \in 1..n : k \in 0..n /\ k # 0
    BY <1>2
  <2>2. \A k \in 0..n : chosen[k] = IF k = 0 THEN y ELSE Deeper(p, chosen[k - 1])
    BY <1>10
  <2> QED
    BY <2>1, <2>2
<1>12. \A k \in 1..n : chosen[k - 1] \in X => chosen[k] = go[<<chosen[k - 1], k>>]
  BY <1>4, <1>11
<1>13. \A k \in 0..n : chosen[k] = f[k]
  BY <1>2, <1>3, <1>7, <1>11, <1>12, RecursionUnique
<1>14. chosen = [k \in 0..n |-> chosen[k]]
  BY <1>10
<1>15. chosen \in [0..n -> X]
  BY <1>8, <1>13, <1>14
<1> QED
  BY <1>1, <1>11, <1>15 DEF n, y, X

\* The shallow activation is one of these.
AtOnceTable(p) == [j \in DOMAIN p.function |-> [w \in p.value |-> AtOnce(j, w)]]

LEMMA CourseComes ==
  ASSUME NEW p, ProgramOK(p), NEW i \in DOMAIN p.function, NEW v \in p.value
  PROVE  /\ AtOnceTable(p) \in Tables(p)
         /\ \A j \in DOMAIN p.function, w \in p.value : AtOnceTable(p)[j][w] = AtOnce(j, w)
         /\ ComesBy(p, i, AtOnceTable(p), v, Course(p, i, v))
<1> DEFINE c == Course(p, i, v)
           n == Size(p, i)
<1>1. n \in Nat
  BY Instructions
<1>2. AtOnceTable(p) \in Tables(p)
  BY DEF AtOnceTable, Tables, Over, AtOnce
<1>3. \A j \in DOMAIN p.function, w \in p.value : AtOnceTable(p)[j][w] = AtOnce(j, w)
  BY DEF AtOnceTable
<1>4. c \in [0..n -> Progress(p, i)] /\ c[0] = Began(v)
      /\ \A k \in 1..n : c[k] = Turn(p, i, c[k - 1], k)
  BY <1>1, CourseIs
<1>5. Progress(p, i) \subseteq Under(p, i)
  BY DEF Progress, Under, Ways
<1>6. ASSUME NEW k \in 1..n
      PROVE  c[k] = TurnBy(p, i, AtOnceTable(p), c[k - 1], k)
  <2> DEFINE m == p.function[i][k]
             x == c[k - 1]
  <2>1. k - 1 \in 0..n
    BY <1>1
  <2>2. x.value \in p.value
    BY <1>4, <2>1 DEF Progress
  <2>3. m.op = "call" => AtOnceTable(p)[m.callee][m.update[x.value]] = AtOnce(m.callee, m.update[x.value])
    <3>1. m.update[x.value] \in p.value /\ (m.op = "call" => m.callee \in DOMAIN p.function)
      BY SMTT(90), <1>1, <2>2, Instructions
    <3> QED
      BY <3>1 DEF AtOnceTable
  <2>4. c[k] = Turn(p, i, x, k)
    BY <1>4
  <2> HIDE DEF x, c
  <2> QED
    BY ZenonT(90), <2>3, <2>4 DEF Turn, TurnBy, Executed, x
<1>7. c \in [0..n -> Under(p, i)]
  BY <1>4, <1>5
<1> QED
  BY <1>2, <1>3, <1>4, <1>6, <1>7 DEF ComesBy

(***************************************************************************)
(* Functions of pointers                                                   *)
(***************************************************************************)
OnPointers(p) == ProgramOK(p) /\ p.kind = "pointers"

LEMMA OneFunction ==
  ASSUME NEW p, OnPointers(p)
  PROVE  /\ ProgramOK(p) /\ DOMAIN p.function = {1} /\ 1 \in DOMAIN p.function
         /\ Size(p, 1) \in Nat /\ Size(p, 1) >= 1
<1>1. ProgramOK(p) /\ DOMAIN p.function = {1}
  BY DEF OnPointers, ProgramOK
<1> QED
  BY <1>1, Instructions

\* The call of a function hands on the value that it finds.
LEMMA CalleeIs ==
  ASSUME NEW p, OnPointers(p), NEW b \in Tables(p), NEW k \in 1..Size(p, 1),
         NEW w \in p.value, p.function[1][k].op = "call"
  PROVE  LET n == p.function[1][k]
         IN  b[n.callee][n.update[w]] = b[1][w] /\ b[1][w] \in Over(p)
<1>1. LET n == p.function[1][k] IN n.callee \in DOMAIN p.function /\ n.update[w] = w
  BY OneFunction, Instructions DEF OnPointers
<1> QED
  BY <1>1, OneFunction DEF Tables

LEMMA TurnType ==
  ASSUME NEW p, OnPointers(p), NEW b \in Tables(p), NEW k \in 1..Size(p, 1),
         NEW before \in Under(p, 1), before.pc = k, before.end = "going"
  PROVE  LET n == p.function[1][k]
             w == before.value
             t == TurnBy(p, 1, b, before, k)
         IN  /\ t \in Under(p, 1) /\ b[1][w] \in Over(p)
             /\ t.pc = IF n.op = "branch" /\ w \notin n.on THEN n.other ELSE n.to
             /\ t.value = IF n.op = "set" THEN n.update[w]
                          ELSE IF n.op = "call" THEN b[1][w].value ELSE w
             /\ t.calls = before.calls + IF n.op = "call" THEN 1 ELSE 0
             /\ t.end = IF n.op = "call" /\ b[1][w].end # "returned" THEN b[1][w].end
                        ELSE IF n.op = "return" THEN "returned"
                        ELSE IF n.op = "error" \/ (n.op = "assert" /\ w \notin n.on) THEN "failed"
                        ELSE IF n.op = "assume" /\ w \notin n.on THEN "blocked" ELSE "going"
             /\ t.end = "going" => t.pc > k
<1> DEFINE n == p.function[1][k]
           w == before.value
           c == b[n.callee][n.update[w]]
           t == TurnBy(p, 1, b, before, k)
<1>1. w \in p.value /\ p.kind = "pointers"
  BY DEF Under, OnPointers
<1>2. b[1][w] \in Over(p) /\ (n.op = "call" => c = b[1][w])
  <2>1. b[1][w] \in Over(p)
    BY <1>1, OneFunction DEF Tables
  <2> QED
    BY SMTT(90), <1>1, <2>1, CalleeIs
<1>3. /\ t \in Under(p, 1)
      /\ t.pc = IF n.op = "branch" /\ w \notin n.on THEN n.other ELSE n.to
      /\ t.value = IF n.op = "set" THEN n.update[w]
                   ELSE IF n.op = "call" /\ p.kind = "pointers" THEN c.value ELSE w
      /\ t.calls = before.calls + IF n.op = "call" THEN 1 ELSE 0
      /\ t.end = IF n.op = "call" /\ c.end # "returned" THEN c.end
                 ELSE IF n.op = "return" THEN "returned"
                 ELSE IF n.op = "error" \/ (n.op = "assert" /\ w \notin n.on) THEN "failed"
                 ELSE IF n.op = "assume" /\ w \notin n.on THEN "blocked" ELSE "going"
      /\ t.end = "going" => t.pc > k
  <2>1. Turned(p, 1, b, before, k)
    BY OneFunction, TurnIs
  <2> QED
    BY <2>1 DEF Turned
<1> HIDE DEF n, w, c, t
<1> QED
  BY <1>1, <1>2, <1>3 DEF n, w, t

\* The instructions that a function may come to behind a call.
Straight(p, Q) ==
  \A j \in 1..Size(p, 1) :
    LET n == p.function[1][j]
    IN  /\ n.op = "call" => n.to \in Q
        /\ j \in Q => n.op \in {"set", "jump", "call", "return"}
        /\ j \in Q /\ n.op # "return" => n.to \in Q

\* One instruction more of an activation and of the shallow one at the same value.
LEMMA OneMoreTurn ==
  ASSUME NEW p, OnPointers(p), NEW b \in Tables(p), NEW v \in p.value, NEW at,
         ComesBy(p, 1, b, v, at), NEW k \in 0..(Size(p, 1) - 1)
  PROVE  LET c == Course(p, 1, v)
             n == p.function[1][k + 1]
             w == c[k].value
         IN  /\ c[k] \in Under(p, 1) /\ at[k] \in Under(p, 1) /\ w \in p.value
             /\ ComesTo(p, 1, v, k + 1) =>
                  /\ c[k + 1].pc = IF n.op = "branch" /\ w \notin n.on THEN n.other ELSE n.to
                  /\ c[k + 1].value = IF n.op = "set" THEN n.update[w] ELSE w
                  /\ c[k + 1].calls = c[k].calls + IF n.op = "call" THEN 1 ELSE 0
                  /\ c[k + 1].end = IF n.op = "return" THEN "returned"
                        ELSE IF n.op = "error" \/ (n.op = "assert" /\ w \notin n.on) THEN "failed"
                        ELSE IF n.op = "assume" /\ w \notin n.on THEN "blocked" ELSE "going"
             /\ ~ComesTo(p, 1, v, k + 1) => c[k + 1] = c[k]
             /\ at[k] = c[k] /\ n.op # "call" => at[k + 1] = c[k + 1]
             /\ at[k].pc = c[k].pc /\ at[k].end = c[k].end /\ ~ComesTo(p, 1, v, k + 1)
                  => at[k + 1] = at[k]
             /\ at[k].end # "going" => at[k + 1] = at[k]
             /\ at[k].pc = k + 1 /\ at[k].end = "going" /\ n.op \in {"call", "jump", "return"} =>
                  /\ at[k + 1].pc = n.to
                  /\ at[k + 1].value = IF n.op = "call" THEN b[1][at[k].value].value ELSE at[k].value
                  /\ at[k + 1].end = IF n.op = "call" /\ b[1][at[k].value].end # "returned"
                                     THEN b[1][at[k].value].end
                                     ELSE IF n.op = "return" THEN "returned" ELSE "going"
<1> DEFINE c == Course(p, 1, v)
           n == p.function[1][k + 1]
           w == c[k].value
           a == AtOnceTable(p)
<1>1. k + 1 \in 1..Size(p, 1) /\ (k + 1) - 1 = k /\ k \in 0..Size(p, 1)
  BY OneFunction
<1>2. /\ a \in Tables(p) /\ ComesBy(p, 1, a, v, c)
      /\ \A x \in p.value : a[1][x].end = "returned" /\ a[1][x].value = x
  <2>1. 1 \in DOMAIN p.function /\ ProgramOK(p)
    BY OneFunction
  <2>2. /\ a \in Tables(p) /\ ComesBy(p, 1, a, v, c)
        /\ \A x \in p.value : a[1][x] = AtOnce(1, x)
    BY <2>1, CourseComes
  <2>3. \A x \in p.value : AtOnce(1, x).end = "returned" /\ AtOnce(1, x).value = x
    BY DEF AtOnce
  <2> HIDE DEF a, c
  <2> QED
    BY <2>2, <2>3
<1>3. /\ c[k] \in Under(p, 1) /\ at[k] \in Under(p, 1)
      /\ c[k + 1] = TurnBy(p, 1, a, c[k], k + 1) /\ at[k + 1] = TurnBy(p, 1, b, at[k], k + 1)
  BY <1>1, <1>2 DEF ComesBy
<1>4. w \in p.value
  BY <1>3 DEF Under
<1>5. ComesTo(p, 1, v, k + 1) <=> c[k].pc = k + 1 /\ c[k].end = "going"
  BY <1>1 DEF ComesTo
<1> HIDE DEF c, a
<1>6. ASSUME ComesTo(p, 1, v, k + 1)
      PROVE  /\ c[k + 1].pc = IF n.op = "branch" /\ w \notin n.on THEN n.other ELSE n.to
             /\ c[k + 1].value = IF n.op = "set" THEN n.update[w] ELSE w
             /\ c[k + 1].calls = c[k].calls + IF n.op = "call" THEN 1 ELSE 0
             /\ c[k + 1].end = IF n.op = "return" THEN "returned"
                   ELSE IF n.op = "error" \/ (n.op = "assert" /\ w \notin n.on) THEN "failed"
                   ELSE IF n.op = "assume" /\ w \notin n.on THEN "blocked" ELSE "going"
  <2> DEFINE t == TurnBy(p, 1, a, c[k], k + 1)
  <2>1. /\ t.pc = IF n.op = "branch" /\ w \notin n.on THEN n.other ELSE n.to
        /\ t.value = IF n.op = "set" THEN n.update[w]
                     ELSE IF n.op = "call" THEN a[1][w].value ELSE w
        /\ t.calls = c[k].calls + IF n.op = "call" THEN 1 ELSE 0
        /\ t.end = IF n.op = "call" /\ a[1][w].end # "returned" THEN a[1][w].end
                   ELSE IF n.op = "return" THEN "returned"
                   ELSE IF n.op = "error" \/ (n.op = "assert" /\ w \notin n.on) THEN "failed"
                   ELSE IF n.op = "assume" /\ w \notin n.on THEN "blocked" ELSE "going"
    BY SMTT(90), <1>1, <1>2, <1>3, <1>5, <1>6, TurnType
  <2>2. t = c[k + 1] /\ a[1][w].end = "returned" /\ a[1][w].value = w
    BY <1>2, <1>3, <1>4
  <2> HIDE DEF t, n, w
  <2> QED
    BY <2>1, <2>2 DEF n, w
<1>7. ~ComesTo(p, 1, v, k + 1) => c[k + 1] = c[k]
  BY <1>3, <1>5 DEF TurnBy
<1>8. at[k] = c[k] /\ n.op # "call" => at[k + 1] = c[k + 1]
  BY <1>3 DEF TurnBy, Executed
<1>9. at[k].pc = c[k].pc /\ at[k].end = c[k].end /\ ~ComesTo(p, 1, v, k + 1) => at[k + 1] = at[k]
  BY <1>3, <1>5 DEF TurnBy
<1>10. at[k].end # "going" => at[k + 1] = at[k]
  BY <1>3 DEF TurnBy
<1>11. ASSUME at[k].pc = k + 1, at[k].end = "going", n.op \in {"call", "jump", "return"}
       PROVE  /\ at[k + 1].pc = n.to
              /\ at[k + 1].value = IF n.op = "call" THEN b[1][at[k].value].value ELSE at[k].value
              /\ at[k + 1].end = IF n.op = "call" /\ b[1][at[k].value].end # "returned"
                                 THEN b[1][at[k].value].end
                                 ELSE IF n.op = "return" THEN "returned" ELSE "going"
  <2> DEFINE t == TurnBy(p, 1, b, at[k], k + 1)
             x == at[k].value
  <2>1. /\ t.pc = IF n.op = "branch" /\ x \notin n.on THEN n.other ELSE n.to
        /\ t.value = IF n.op = "set" THEN n.update[x]
                     ELSE IF n.op = "call" THEN b[1][x].value ELSE x
        /\ t.end = IF n.op = "call" /\ b[1][x].end # "returned" THEN b[1][x].end
                   ELSE IF n.op = "return" THEN "returned"
                   ELSE IF n.op = "error" \/ (n.op = "assert" /\ x \notin n.on) THEN "failed"
                   ELSE IF n.op = "assume" /\ x \notin n.on THEN "blocked" ELSE "going"
    BY SMTT(90), <1>1, <1>3, <1>11, TurnType
  <2>2. t = at[k + 1]
    BY <1>3
  <2> HIDE DEF t, n, x
  <2> QED
    BY <1>11, <2>1, <2>2 DEF x
<1> QED
  BY <1>3, <1>4, <1>6, <1>7, <1>8, <1>9, <1>10, <1>11 DEF c

\* As long as nothing is called, an activation is the shallow one; behind a call the
\* shallow one goes straight to the return.
LEMMA BehindCall ==
  ASSUME NEW p, OnPointers(p), NEW b \in Tables(p), NEW v \in p.value, NEW at,
         ComesBy(p, 1, b, v, at), NEW Q, Straight(p, Q)
  PROVE  \A k \in 0..Size(p, 1) :
           LET s == Course(p, 1, v)[k]
           IN  \/ s.calls = 0 /\ at[k] = s
               \/ s.calls > 0 /\ (s.end = "returned" \/ (s.end = "going" /\ s.pc \in Q))
<1> DEFINE c == Course(p, 1, v)
           n == Size(p, 1)
           Alike(k) == c[k].calls = 0 /\ at[k] = c[k]
           Called(k) == c[k].calls > 0 /\ (c[k].end = "returned" \/ (c[k].end = "going" /\ c[k].pc \in Q))
           S == {k \in 0..n : Alike(k) \/ Called(k)}
<1>1. n \in Nat /\ n >= 1
  BY OneFunction
<1>2. 0 \in S
  BY <1>1, OneFunction, CourseComes DEF ComesBy, Began
<1>3. ASSUME NEW k \in 0..(n - 1), k \in S
      PROVE  k + 1 \in S
  <2> DEFINE i == p.function[1][k + 1]
             w == c[k].value
  <2>1. /\ c[k] \in Under(p, 1) /\ at[k] \in Under(p, 1)
        /\ ComesTo(p, 1, v, k + 1) =>
             /\ c[k + 1].pc = IF i.op = "branch" /\ w \notin i.on THEN i.other ELSE i.to
             /\ c[k + 1].calls = c[k].calls + IF i.op = "call" THEN 1 ELSE 0
             /\ c[k + 1].end = IF i.op = "return" THEN "returned"
                   ELSE IF i.op = "error" \/ (i.op = "assert" /\ w \notin i.on) THEN "failed"
                   ELSE IF i.op = "assume" /\ w \notin i.on THEN "blocked" ELSE "going"
        /\ ~ComesTo(p, 1, v, k + 1) => c[k + 1] = c[k]
        /\ at[k] = c[k] /\ i.op # "call" => at[k + 1] = c[k + 1]
        /\ at[k].pc = c[k].pc /\ at[k].end = c[k].end /\ ~ComesTo(p, 1, v, k + 1)
             => at[k + 1] = at[k]
    BY SMTT(90), OneMoreTurn
  <2>2. /\ k + 1 \in 1..n /\ k + 1 \in 0..n /\ (k + 1) - 1 = k
        /\ c[k].calls \in Nat
    BY <1>1, <2>1 DEF Under
  <2>3. /\ i.op = "call" => i.to \in Q
        /\ k + 1 \in Q => i.op \in {"set", "jump", "call", "return"}
        /\ k + 1 \in Q /\ i.op # "return" => i.to \in Q
    BY <2>2 DEF Straight
  <2>4. Alike(k) \/ Called(k)
    BY <1>3
  <2>5. ComesTo(p, 1, v, k + 1) => c[k].pc = k + 1 /\ c[k].end = "going"
    BY <2>2 DEF ComesTo
  <2> HIDE DEF c, i, w, n
  <2>6. CASE ~ComesTo(p, 1, v, k + 1)
    BY <2>1, <2>2, <2>4, <2>6
  <2>7. CASE ComesTo(p, 1, v, k + 1) /\ Alike(k) /\ i.op # "call"
    BY <2>1, <2>2, <2>7
  <2>8. CASE ComesTo(p, 1, v, k + 1) /\ Alike(k) /\ i.op = "call"
    <3>1. Called(k + 1)
      BY <2>1, <2>3, <2>8
    <3> QED
      BY <2>2, <3>1
  <2>9. CASE ComesTo(p, 1, v, k + 1) /\ Called(k)
    <3>1. c[k].pc \in Q /\ c[k].pc = k + 1
      BY <2>5, <2>9
    <3>2. i.op \in {"set", "jump", "call", "return"} /\ (i.op # "return" => i.to \in Q)
      BY <2>3, <3>1
    <3>3. c[k + 1].calls > 0
      BY <2>1, <2>2, <2>9
    <3>4. c[k + 1].end = "returned" \/ (c[k + 1].end = "going" /\ c[k + 1].pc \in Q)
      BY <2>1, <2>9, <3>2
    <3> QED
      BY <2>2, <3>3, <3>4
  <2> QED
    BY <2>4, <2>6, <2>7, <2>8, <2>9
<1>4. 0..n \subseteq S
  <2> HIDE DEF S
  <2> QED
    BY <1>1, <1>2, <1>3, InductionUpTo
<1> QED
  BY <1>4

\* An activation that returns calls nothing and is the shallow one, or leaves what its
\* one call leaves, if nothing is stored behind it.
LEMMA LeavesWhat ==
  ASSUME NEW p, OnPointers(p), NEW b \in Tables(p), NEW v \in p.value, NEW at,
         ComesBy(p, 1, b, v, at), NEW Q, Straight(p, Q), at[Size(p, 1)].end = "returned",
         NEW j \in Nat,
         \A k \in 1..Size(p, 1) : ComesTo(p, 1, v, k) =>
           /\ p.function[1][k].op = "call" => k = j
           /\ k > j => p.function[1][k].op # "set"
  PROVE  LET run == End(p, 1, v)
         IN  \/ run.calls = 0 /\ run.end = "returned" /\ at[Size(p, 1)].value = run.value
             \/ /\ run.calls > 0 /\ b[1][run.value].end = "returned"
                /\ at[Size(p, 1)].value = b[1][run.value].value
<1> DEFINE c == Course(p, 1, v)
           n == Size(p, 1)
           Alike(k) == c[k].calls = 0 /\ at[k] = c[k]
           Called(k) == /\ c[k].calls > 0 /\ k >= j
                        /\ b[1][c[k].value].end = "returned" /\ at[k].value = b[1][c[k].value].value
                        /\ at[k].pc = c[k].pc /\ at[k].end = c[k].end
           Stops(k) == at[k].end \notin {"going", "returned"}
           S == {k \in 0..n : Alike(k) \/ Called(k) \/ Stops(k)}
<1>1. n \in Nat /\ n >= 1 /\ n \in 0..n
  BY OneFunction
<1>2. 0 \in S
  BY <1>1, OneFunction, CourseComes DEF ComesBy, Began
<1>3. ASSUME NEW k \in 0..(n - 1), k \in S
      PROVE  k + 1 \in S
  <2> DEFINE i == p.function[1][k + 1]
             w == c[k].value
             x == at[k].value
             t == TurnBy(p, 1, b, at[k], k + 1)
  <2>1. /\ c[k] \in Under(p, 1) /\ at[k] \in Under(p, 1) /\ w \in p.value
        /\ ComesTo(p, 1, v, k + 1) =>
             /\ c[k + 1].pc = IF i.op = "branch" /\ w \notin i.on THEN i.other ELSE i.to
             /\ c[k + 1].value = IF i.op = "set" THEN i.update[w] ELSE w
             /\ c[k + 1].calls = c[k].calls + IF i.op = "call" THEN 1 ELSE 0
             /\ c[k + 1].end = IF i.op = "return" THEN "returned"
                   ELSE IF i.op = "error" \/ (i.op = "assert" /\ w \notin i.on) THEN "failed"
                   ELSE IF i.op = "assume" /\ w \notin i.on THEN "blocked" ELSE "going"
        /\ ~ComesTo(p, 1, v, k + 1) => c[k + 1] = c[k]
        /\ at[k] = c[k] /\ i.op # "call" => at[k + 1] = c[k + 1]
        /\ at[k].pc = c[k].pc /\ at[k].end = c[k].end /\ ~ComesTo(p, 1, v, k + 1)
             => at[k + 1] = at[k]
        /\ at[k].end # "going" => at[k + 1] = at[k]
        /\ at[k].pc = k + 1 /\ at[k].end = "going" /\ i.op \in {"call", "jump", "return"} =>
             /\ at[k + 1].pc = i.to
             /\ at[k + 1].value = IF i.op = "call" THEN b[1][x].value ELSE x
             /\ at[k + 1].end = IF i.op = "call" /\ b[1][x].end # "returned" THEN b[1][x].end
                                ELSE IF i.op = "return" THEN "returned" ELSE "going"
    BY SMTT(90), OneMoreTurn
  <2>2. /\ k + 1 \in 1..n /\ k + 1 \in 0..n /\ (k + 1) - 1 = k /\ k \in 0..n
        /\ c[k].calls \in Nat
    BY SMTT(90), <1>1, <2>1 DEF Under
  <2>3. /\ c[k].calls > 0 => c[k].end = "returned" \/ (c[k].end = "going" /\ c[k].pc \in Q)
        /\ c[k].calls > 0 /\ k + 1 \in Q => i.op \in {"set", "jump", "call", "return"}
    <3>1. \/ c[k].calls = 0 /\ at[k] = c[k]
          \/ c[k].calls > 0 /\ (c[k].end = "returned" \/ (c[k].end = "going" /\ c[k].pc \in Q))
      BY <2>2, BehindCall
    <3> QED
      BY <2>2, <3>1 DEF Straight
  <2>4. ComesTo(p, 1, v, k + 1) => /\ c[k].pc = k + 1 /\ c[k].end = "going"
                                   /\ i.op = "call" => k + 1 = j
                                   /\ k + 1 > j => i.op # "set"
    BY <2>2 DEF ComesTo
  <2>5. i.op = "call" => \A y \in p.value : b[1][y].end \in Ways /\ b[1][y].end # "going"
    BY OneFunction, OverFields DEF Tables
  <2>6. Alike(k) \/ Called(k) \/ Stops(k)
    BY <1>3
  <2> HIDE DEF c, i, n
  <2>7. CASE Stops(k)
    BY <2>1, <2>2, <2>7
  <2>8. CASE ~ComesTo(p, 1, v, k + 1) /\ ~Stops(k)
    <3>1. c[k + 1] = c[k] /\ at[k + 1] = at[k]
      BY <2>1, <2>6, <2>8
    <3>2. k >= j => k + 1 >= j
      BY <2>2, <2>6, <2>8
    <3> QED
      BY <2>2, <2>6, <2>8, <3>1, <3>2
  <2>9. CASE ComesTo(p, 1, v, k + 1) /\ Alike(k) /\ i.op # "call"
    BY <2>1, <2>2, <2>9
  <2>10. CASE ComesTo(p, 1, v, k + 1) /\ Alike(k) /\ i.op = "call"
    <3>1. /\ c[k + 1].pc = i.to /\ c[k + 1].value = w /\ c[k + 1].calls > 0 /\ c[k + 1].end = "going"
          /\ k + 1 >= j /\ x = w
      BY <2>1, <2>2, <2>4, <2>10
    <3>2. /\ at[k + 1].pc = i.to /\ at[k + 1].value = b[1][w].value
          /\ at[k + 1].end = IF b[1][w].end # "returned" THEN b[1][w].end ELSE "going"
      BY <2>1, <2>4, <2>10
    <3>3. b[1][w].end # "going"
      BY <2>1, <2>5, <2>10
    <3>4. b[1][w].end = "returned" => Called(k + 1)
      BY <3>1, <3>2
    <3>5. b[1][w].end # "returned" => Stops(k + 1)
      BY <3>2, <3>3
    <3> QED
      BY <2>2, <3>4, <3>5
  <2>11. CASE ComesTo(p, 1, v, k + 1) /\ Called(k)
    <3>1. i.op \in {"jump", "return"}
      <4>1. k + 1 \in Q /\ k + 1 # j /\ k + 1 > j
        BY <2>2, <2>3, <2>4, <2>11
      <4> QED
        BY <2>3, <2>4, <2>11, <4>1
    <3>2. /\ c[k + 1].pc = i.to /\ c[k + 1].value = w /\ c[k + 1].calls > 0
          /\ c[k + 1].end = IF i.op = "return" THEN "returned" ELSE "going"
      BY SMTT(90), <2>1, <2>2, <2>11, <3>1
    <3>3. /\ at[k + 1].pc = i.to /\ at[k + 1].value = x
          /\ at[k + 1].end = IF i.op = "return" THEN "returned" ELSE "going"
      BY <2>1, <2>4, <2>11, <3>1
    <3>4. k + 1 >= j
      BY <2>2, <2>4, <2>11
    <3>5. Called(k + 1)
      BY <2>11, <3>2, <3>3, <3>4
    <3> QED
      BY <2>2, <3>5
  <2> QED
    BY <2>6, <2>7, <2>8, <2>9, <2>10, <2>11
<1>4. 0..n \subseteq S
  <2> HIDE DEF S
  <2> QED
    BY <1>1, <1>2, <1>3, InductionUpTo
<1>5. Alike(n) \/ Called(n)
  BY <1>1, <1>4
<1> QED
  BY <1>5 DEF End

(***************************************************************************)
(* What a case leaves behind                                               *)
(***************************************************************************)
\* No store and no call stands in a block that returns.
ReturnsAlone(p) ==
  \A i \in DOMAIN p.function : \A j, k \in DOMAIN p.function[i] :
    p.function[i][j].op \in {"set", "call"} /\ p.function[i][k].op = "return"
      => p.function[i][j].block # p.function[i][k].block
\* Nothing is tested behind a call, up to the return.
StraightBehind(p) == \E Q \in SUBSET (1..Size(p, 1)) : Straight(p, Q)
\* What calls nothing stores nothing.
BasesKeep(p) ==
  \A v \in p.value : LET run == End(p, 1, v)
                     IN  run.end = "returned" /\ run.calls = 0 => run.value = v

\* The kept paths of a function, once all have been executed.
AllTraced == states = <<>> /\ current = Len(program.function) /\ PathsInv
LEMMA FinalCases ==
  ASSUME ProgramOK(program), AllTraced, NEW i \in DOMAIN program.function
  PROVE  /\ Len(final[i]) \in Nat /\ DOMAIN final[i] = 1..Len(final[i])
         /\ final[i] \in Seq(Ended(program, i))
         /\ \A k \in DOMAIN final[i] : final[i][k] \in Ended(program, i)
         /\ \A j, k \in DOMAIN final[i] : final[i][j] # final[i][k] => Apart(final[i][j], final[i][k])
         /\ \A v \in program.value : Returns(program, i, v) =>
              \E k \in DOMAIN final[i] : v \in final[i][k].cond
<1> DEFINE f == final[i]
           K == Range(f)
<1>1. CasesOf(program, i, <<>>, f)
  <2>1. states = <<>> /\ current = Len(program.function) /\ i \in 1..current
    BY DEF AllTraced, PathsInv, ProgramOK
  <2>2. CasesOf(program, i, Waiting(i), f) /\ Waiting(i) = <<>>
    BY <2>1 DEF AllTraced, PathsInv, Waiting
  <2> QED
    BY <2>2
<1>2. f \in Seq(Ended(program, i)) /\ AllApart(<<>>, K)
      /\ \A v \in program.value : Returns(program, i, v) => Carried(v, <<>>, K)
  BY <1>1 DEF CasesOf
<1>3. \A k \in DOMAIN f : f[k] \in K /\ f[k] \in Ended(program, i)
  BY <1>2 DEF Range
<1>4. \A s \in K : \E k \in DOMAIN f : s = f[k]
  BY DEF Range
<1>5. Len(f) \in Nat /\ DOMAIN f = 1..Len(f)
  BY <1>2
<1>6. Len(<<>>) = 0
  OBVIOUS
<1> HIDE DEF K, f
<1>7. \A s, t \in K : s # t => Apart(s, t)
  BY <1>2 DEF AllApart
<1>8. \A v \in program.value : Returns(program, i, v) => \E k \in DOMAIN f : v \in f[k].cond
  BY <1>2, <1>4, <1>6 DEF Carried
<1> QED
  BY <1>2, <1>3, <1>5, <1>7, <1>8 DEF f

\* Where an activation returns, the shallow one does.
LEMMA ReturnsToo ==
  ASSUME NEW p, OnPointers(p), NEW b \in Tables(p), NEW v \in p.value, NEW at,
         ComesBy(p, 1, b, v, at), NEW Q, Straight(p, Q), at[Size(p, 1)].end = "returned"
  PROVE  End(p, 1, v).end = "returned"
<1> DEFINE c == Course(p, 1, v)
           n == Size(p, 1)
<1>1. n \in 0..n
  BY OneFunction
<1>2. \/ c[n].calls = 0 /\ at[n] = c[n]
      \/ c[n].calls > 0 /\ (c[n].end = "returned" \/ (c[n].end = "going" /\ c[n].pc \in Q))
  BY <1>1, BehindCall
<1>3. c[n].end # "going"
  <2>1. c[n] \in Over(p)
    BY OneFunction, CourseComes, GoesOn
  <2> QED
    BY <2>1, OverFields
<1> QED
  BY <1>2, <1>3 DEF End

\* A value from which a run returns is one of a base case, which leaves it as it is, or
\* of a case that leaves behind what its call does.
LEMMA LeftBehind ==
  ASSUME OnPointers(program), AllTraced, ReturnsAlone(program), StraightBehind(program),
         BasesKeep(program), \A k \in rec_states : TailCall(1, final[1][k]),
         NEW b \in Tables(program), NEW v \in program.value,
         CourseBy(program, 1, v, b).end = "returned"
  PROVE  LET run == CourseBy(program, 1, v, b)
         IN  \/ run.value = v /\ \E k \in base_states : v \in final[1][k].cond
             \/ \E k \in rec_states :
                  LET w == final[1][k].update[v]
                  IN  /\ v \in final[1][k].cond /\ w \in program.value
                      /\ b[1][w].end = "returned" /\ run.value = b[1][w].value
<1> DEFINE p == program
           n == Size(p, 1)
           run == CourseBy(p, 1, v, b)
           body == p.function[1]
<1>1. ProgramOK(p) /\ 1 \in DOMAIN p.function /\ DOMAIN p.function = {1} /\ n \in Nat /\ n \in 0..n
      /\ DOMAIN body = 1..n /\ p.kind = "pointers"
  BY SMTT(90), OneFunction, Instructions DEF OnPointers
<1>2. PICK at : ComesBy(p, 1, b, v, at) /\ run = at[n]
  BY <1>1, CourseByIs
<1>3. PICK Q : Straight(p, Q)
  BY DEF StraightBehind
<1>4. End(p, 1, v).end = "returned"
  BY <1>2, <1>3, ReturnsToo
<1>5. PICK k \in DOMAIN final[1] : v \in final[1][k].cond
  BY <1>1, <1>4, FinalCases DEF Returns
<1> DEFINE s == final[1][k]
<1>6. s \in Ended(p, 1) /\ s \in Sound(p, 1) /\ s.status = "TERMINATED"
  BY <1>1, FinalCases DEF Ended
<1>7. /\ End(p, 1, v).value = s.update[v] /\ End(p, 1, v).calls = Len(s.calls)
      /\ Passed(p, 1, v, s)
  BY <1>4, <1>5, <1>6 DEF Sound, ValuesOK, Returned
<1>8. s.update[v] \in p.value /\ s.pc \in 1..n /\ body[s.pc].op = "return" /\ Len(s.calls) \in Nat
  BY <1>1, <1>6, SoundFields DEF TraceOK
<1>9. k \in base_states <=> Len(s.calls) = 0
  <2>1. ReturnsApart(p)
    BY DEF ReturnsAlone, ReturnsApart
  <2>2. is_base_case_final_state(1, s) <=> Len(s.calls) = 0
    BY <1>1, <1>6, <2>1, BaseCase
  <2> QED
    BY <2>2 DEF base_states
<1>10. CASE Len(s.calls) = 0
  <2>1. at[n] = Course(p, 1, v)[n]
    <3>1. \/ Course(p, 1, v)[n].calls = 0 /\ at[n] = Course(p, 1, v)[n]
          \/ Course(p, 1, v)[n].calls > 0
      BY <1>1, <1>2, <1>3, BehindCall
    <3> QED
      BY <1>7, <1>10, <3>1 DEF End
  <2>2. run.value = v
    BY <1>2, <1>4, <1>7, <1>10, <2>1 DEF BasesKeep, End
  <2> QED
    BY <1>5, <1>9, <1>10, <2>2
<1>11. CASE Len(s.calls) # 0
  <2>1. k \in rec_states /\ TailCall(1, s)
    BY <1>5, <1>9, <1>11 DEF rec_states
  <2>2. PICK j \in Left(1, s) :
          /\ CallsIn(1, s) = {j}
          /\ \A m \in Left(1, s) : m > j => body[m].op \in {"branch", "jump", "return"}
    BY <2>1 DEF TailCall
  <2>3. j \in Nat
    BY <1>1, <2>2 DEF Left
  <2>4. ASSUME NEW m \in 1..n, ComesTo(p, 1, v, m), body[m].op \in {"set", "call"}
        PROVE  m \in Left(1, s)
    <3>1. body[m].block # body[s.pc].block
      BY <1>1, <1>8, <2>4 DEF ReturnsAlone
    <3>2. InTrace(p, 1, s, m)
      BY <1>6, <1>7, <2>4 DEF Passed
    <3> QED
      BY <1>1, <3>1, <3>2 DEF InTrace, Left
  <2>5. ASSUME NEW m \in 1..n, ComesTo(p, 1, v, m)
        PROVE  /\ body[m].op = "call" => m = j
               /\ m > j => body[m].op # "set"
    BY <2>2, <2>4, <2>5 DEF CallsIn
  <2>6. \/ End(p, 1, v).calls = 0 /\ End(p, 1, v).end = "returned" /\ at[n].value = End(p, 1, v).value
        \/ /\ End(p, 1, v).calls > 0 /\ b[1][End(p, 1, v).value].end = "returned"
           /\ at[n].value = b[1][End(p, 1, v).value].value
    BY <1>2, <1>3, <2>3, <2>5, LeavesWhat
  <2>7. b[1][s.update[v]].end = "returned" /\ run.value = b[1][s.update[v]].value
    BY <1>2, <1>7, <1>11, <2>6
  <2> QED
    BY <1>5, <1>8, <2>1, <2>7
<1> QED
  BY <1>10, <1>11

(***************************************************************************)
(* The summary                                                             *)
(***************************************************************************)
\* The recurrence goes on with what the one case of a value makes of it.
LEMMA Next1Is ==
  ASSUME ProgramOK(program), AllTraced, 1 \in DOMAIN program.function, NEW v \in program.value
  PROVE  /\ Next1(v) \in program.value
         /\ \A k \in rec_states : v \in final[1][k].cond => Next1(v) = final[1][k].update[v]
<1> DEFINE cases == {k \in rec_states : rec_states = {k} \/ v \in final[1][k].cond}
           first == CHOOSE k \in cases : \A j \in cases : k <= j
<1>1. /\ rec_states \subseteq DOMAIN final[1] /\ DOMAIN final[1] \subseteq Nat
      /\ \A k \in DOMAIN final[1] : final[1][k].update \in [program.value -> program.value]
      /\ \A j, k \in DOMAIN final[1] : final[1][j] # final[1][k] => Apart(final[1][j], final[1][k])
  <2>1. \A k \in DOMAIN final[1] : final[1][k] \in Sound(program, 1)
    BY FinalCases DEF Ended
  <2> QED
    BY <2>1, FinalCases, SoundFields DEF rec_states
<1>2. Next1(v) = IF cases = {} THEN v ELSE final[1][first].update[v]
  BY DEF Next1
<1>3. ASSUME cases # {}
      PROVE  first \in cases
  <2>1. cases \in SUBSET Nat
    BY <1>1
  <2> HIDE DEF cases
  <2>2. \E k \in cases : \A j \in cases : k <= j
    BY <1>3, <2>1, LeastElement
  <2> QED
    BY <2>2
<1>4. Next1(v) \in program.value
  BY ZenonT(90), <1>1, <1>2, <1>3
<1>5. ASSUME NEW k \in rec_states, v \in final[1][k].cond
      PROVE  Next1(v) = final[1][k].update[v]
  <2>1. k \in cases
    BY <1>5
  <2>2. first \in cases /\ Next1(v) = final[1][first].update[v]
    BY <1>2, <1>3, <2>1
  <2>3. CASE rec_states = {first}
    BY <1>5, <2>2, <2>3
  <2>4. CASE v \in final[1][first].cond
    BY <1>1, <1>5, <2>2, <2>4 DEF Apart
  <2> QED
    BY <2>2, <2>3, <2>4
<1> QED
  BY <1>4, <1>5

LEMMA ClosedIs ==
  ASSUME ProgramOK(program), AllTraced, 1 \in DOMAIN program.function, NEW v \in program.value
  PROVE  /\ Closed(v)[0] = v
         /\ \A n \in 1..Depth : Closed(v)[n] = Next1(Closed(v)[n - 1])
<1> DEFINE n == Depth
           X == program.value
           go == [x \in X \X (1..n) |-> Next1(x[1])]
           Obeys(g) == g = [k \in 0..n |-> IF k = 0 THEN v ELSE Next1(g[k - 1])]
           chosen == CHOOSE g : Obeys(g)
<1>1. Closed(v) = chosen
  BY DEF Closed
<1>2. n \in Nat
  BY FunctionAssumption
<1>3. \A x \in X, k \in 1..n : go[<<x, k>>] = Next1(x)
  OBVIOUS
<1>4. \A x \in X : Next1(x) \in X
  BY Next1Is
<1> HIDE DEF n, go, X
<1>5. Steps(X, n, go)
  BY <1>3, <1>4 DEF Steps
<1>6. PICK f : Recursive(X, v, n, go, f)
  BY <1>2, <1>5, Recursion DEF X
<1>7. /\ f \in [0..n -> X] /\ f[0] = v
      /\ \A k \in 1..n : f[k - 1] \in X /\ f[k] = Next1(f[k - 1])
  <2>1. \A k \in 1..n : k - 1 \in 0..n
    BY <1>2
  <2> QED
    BY <1>3, <1>6, <2>1 DEF Recursive
<1>8. Obeys(f)
  <2>1. f = [k \in 0..n |-> f[k]]
    BY <1>7
  <2>2. \A k \in 0..n : k # 0 => k \in 1..n
    BY <1>2
  <2>3. \A k \in 0..n : f[k] = IF k = 0 THEN v ELSE Next1(f[k - 1])
    BY <1>7, <2>2
  <2> QED
    BY <2>1, <2>3
<1>9. Obeys(chosen)
  <2> HIDE DEF Obeys
  <2> QED
    BY <1>8, Zenon
<1> HIDE DEF chosen
<1>10. 0 \in 0..n /\ \A k \in 1..n : k \in 0..n /\ k # 0
  BY <1>2
<1>11. \A k \in 0..n : chosen[k] = IF k = 0 THEN v ELSE Next1(chosen[k - 1])
  BY <1>9
<1> QED
  BY <1>1, <1>10, <1>11 DEF n

\* A call from v may end at u after n steps of the summary o, wherever v stands in
\* a sequence of calls.
Reaches(o, v, n, u) ==
  /\ u \in o.exit
  /\ \A r \in o.proved, x \in program.value : <<x, v>> \in r => <<x, u>> \in r
  /\ \A x \in program.value, m \in 0..(Depth - n) : Closed(x)[m] = v => Closed(x)[m + n] = u

SummaryOf(o) ==
  /\ o.exit = UNION {final[1][k].cond : k \in base_states}
  /\ o.proved \in SUBSET {r \in relation_candidates : Inductive(r)}
  /\ \A k \in rec_states : TailCall(1, final[1][k])

LEMMA ReachesHere ==
  ASSUME NEW o, SummaryOf(o), NEW v \in program.value, NEW k \in base_states,
         v \in final[1][k].cond
  PROVE  Reaches(o, v, 0, v)
<1>1. v \in o.exit
  BY DEF SummaryOf
<1>2. \A m \in 0..(Depth - 0) : m + 0 = m
  BY FunctionAssumption
<1> QED
  BY <1>1, <1>2 DEF Reaches

LEMMA ReachesFurther ==
  ASSUME ProgramOK(program), AllTraced, 1 \in DOMAIN program.function,
         NEW o, SummaryOf(o), NEW v \in program.value, NEW k \in rec_states,
         v \in final[1][k].cond, final[1][k].update[v] \in program.value,
         NEW n \in 0..(Depth - 1), NEW u, Reaches(o, final[1][k].update[v], n, u)
  PROVE  Reaches(o, v, n + 1, u)
<1> DEFINE w == final[1][k].update[v]
<1>1. u \in o.exit
  BY DEF Reaches
<1>2. ASSUME NEW r \in o.proved, NEW x \in program.value, <<x, v>> \in r
      PROVE  <<x, u>> \in r
  <2>1. Inductive(r)
    BY DEF SummaryOf
  <2>2. <<x, w>> \in r
    BY <1>2, <2>1 DEF Inductive
  <2> QED
    BY <2>2 DEF Reaches
<1>3. ASSUME NEW x \in program.value, NEW m \in 0..(Depth - (n + 1)), Closed(x)[m] = v
      PROVE  Closed(x)[m + (n + 1)] = u
  <2>1. /\ m + 1 \in 1..Depth /\ (m + 1) - 1 = m /\ m + 1 \in 0..(Depth - n)
        /\ m + (n + 1) = (m + 1) + n
    BY FunctionAssumption
  <2>2. Closed(x)[m + 1] = Next1(v)
    BY <1>3, <2>1, ClosedIs
  <2>3. Closed(x)[m + 1] = w
    BY <2>2, Next1Is
  <2> QED
    BY <2>1, <2>3 DEF Reaches
<1> QED
  BY <1>1, <1>2, <1>3 DEF Reaches

\* What the summary takes for granted of a function and nothing tests.
TakenForGranted(p) == ReturnsAlone(p) /\ StraightBehind(p) /\ BasesKeep(p)

LEMMA RunReaches ==
  ASSUME OnPointers(program), AllTraced, TakenForGranted(program), NEW o, SummaryOf(o)
  PROVE  \A v \in program.value :
           LET run == Table(program)[Depth][1][v]
           IN  run.end = "returned" => \E n \in 0..Depth : Reaches(o, v, n, run.value)
<1> DEFINE T == Table(program)
           Right(d) == \A v \in program.value :
                         T[d][1][v].end = "returned" =>
                           \E n \in 0..d : Reaches(o, v, n, T[d][1][v].value)
           S == {d \in 0..Depth : Right(d)}
<1>1. /\ ProgramOK(program) /\ DOMAIN program.function = {1} /\ 1 \in DOMAIN program.function
      /\ Depth \in Nat
  BY OneFunction, FunctionAssumption
<1>2. /\ T \in [0..Depth -> Tables(program)] /\ T[0] = Deep(program)
      /\ \A d \in 1..Depth : T[d] = Deeper(program, T[d - 1])
  BY <1>1, TableIs
<1> HIDE DEF T
<1>3. 0 \in S
  BY <1>1, <1>2 DEF Deep
<1>4. ASSUME NEW d \in 0..(Depth - 1), d \in S
      PROVE  d + 1 \in S
  <2>1. d + 1 \in 1..Depth /\ d + 1 \in 0..Depth /\ (d + 1) - 1 = d /\ d \in 0..Depth
    BY <1>1
  <2>2. T[d] \in Tables(program) /\ T[d + 1] = Deeper(program, T[d])
    BY <1>2, <2>1
  <2>3. ASSUME NEW v \in program.value, T[d + 1][1][v].end = "returned"
        PROVE  \E n \in 0..(d + 1) : Reaches(o, v, n, T[d + 1][1][v].value)
    <3> DEFINE run == CourseBy(program, 1, v, T[d])
    <3>1. T[d + 1][1][v] = run
      BY <1>1, <2>2 DEF Deeper
    <3>2. \/ run.value = v /\ \E k \in base_states : v \in final[1][k].cond
          \/ \E k \in rec_states :
               LET w == final[1][k].update[v]
               IN  /\ v \in final[1][k].cond /\ w \in program.value
                   /\ T[d][1][w].end = "returned" /\ run.value = T[d][1][w].value
      BY <2>2, <2>3, <3>1, LeftBehind DEF TakenForGranted, SummaryOf
    <3> HIDE DEF run
    <3>3. CASE run.value = v /\ \E k \in base_states : v \in final[1][k].cond
      <4>1. Reaches(o, v, 0, v)
        BY <3>3, ReachesHere
      <4>2. 0 \in 0..(d + 1)
        BY <2>1
      <4> QED
        BY <3>1, <3>3, <4>1, <4>2
    <3>4. ASSUME NEW k \in rec_states, v \in final[1][k].cond,
                 final[1][k].update[v] \in program.value,
                 T[d][1][final[1][k].update[v]].end = "returned",
                 run.value = T[d][1][final[1][k].update[v]].value
          PROVE  \E n \in 0..(d + 1) : Reaches(o, v, n, T[d + 1][1][v].value)
      <4>1. PICK n \in 0..d : Reaches(o, final[1][k].update[v], n, run.value)
        BY <1>4, <3>4
      <4>2. n \in 0..(Depth - 1) /\ n + 1 \in 0..(d + 1)
        BY <1>1, <1>4
      <4>3. Reaches(o, v, n + 1, run.value)
        BY <1>1, <3>4, <4>1, <4>2, ReachesFurther
      <4> QED
        BY <3>1, <4>2, <4>3
    <3> QED
      BY <3>2, <3>3, <3>4
  <2> QED
    BY <2>1, <2>3
<1>5. 0..Depth \subseteq S
  <2> HIDE DEF S
  <2> QED
    BY <1>1, <1>3, <1>4, InductionUpTo
<1>6. Depth \in S
  BY <1>1, <1>5
<1> QED
  BY <1>6 DEF T

LEMMA Reflexive ==
  ASSUME NEW r \in relation_candidates, NEW v \in Value
  PROVE  <<v, v>> \in r
<1>1. \A k, m : <<v, v>> \in Residue(k, m)
  BY DEF Residue
<1>2. \A j, k : <<v, v>> \in Equal(j, k)
  BY DEF Equal
<1>3. \A c : <<v, v>> \in Kept(c)
  BY DEF Kept
<1>4. r \in internal_invariants => \E c : r = Kept(c)
  BY DEF internal_invariants
<1> QED
  BY <1>1, <1>2, <1>3, <1>4 DEF relation_candidates

\* Some number of steps of the summary o ends where the run from a value does.
CoversRuns(o) ==
  \A v \in Value : LET run == RunOf(1, v)
                   IN  run.end = "returned" =>
                         run.value \in Value /\ \E n \in 0..Depth : run.value \in Ends(o, v, n)

LEMMA SummaryCovers ==
  ASSUME OnPointers(program), AllTraced, TakenForGranted(program), NEW o, SummaryOf(o)
  PROVE  CoversRuns(o)
<1> SUFFICES ASSUME NEW v \in program.value, RunOf(1, v).end = "returned"
             PROVE  RunOf(1, v).value \in program.value
                    /\ \E n \in 0..Depth : RunOf(1, v).value \in Ends(o, v, n)
  BY DEF CoversRuns, Value
<1> DEFINE run == Table(program)[Depth][1][v]
<1>1. RunOf(1, v) = run
  BY RunOfIs
<1>2. PICK n \in 0..Depth : Reaches(o, v, n, run.value)
  BY <1>1, RunReaches
<1>3. ProgramOK(program) /\ 1 \in DOMAIN program.function /\ Depth \in Nat
  BY OneFunction, FunctionAssumption
<1>4. run \in Over(program)
  <2>1. Table(program) \in [0..Depth -> Tables(program)] /\ Depth \in 0..Depth
    BY <1>3, TableIs
  <2> QED
    BY <1>3, <2>1 DEF Tables
<1>5. run.value \in program.value
  BY <1>4, OverFields
<1>6. Closed(v)[n] = run.value
  <2>1. 0 \in 0..(Depth - n) /\ 0 + n = n
    BY <1>3
  <2>2. Closed(v)[0] = v
    BY <1>3, ClosedIs
  <2> QED
    BY <1>2, <2>1, <2>2 DEF Reaches
<1>7. \A r \in o.proved : <<v, run.value>> \in r
  <2>1. \A r \in o.proved : <<v, v>> \in r
    BY Reflexive DEF SummaryOf, Value
  <2> QED
    BY <1>2, <2>1 DEF Reaches
<1>8. run.value \in Ends(o, v, n)
  BY <1>2, <1>6, <1>7 DEF Ends, Reaches
<1> QED
  BY <1>1, <1>5, <1>8

\* All calls of a path begin with the same values.
CallsAlike(p) == \A j, k \in DOMAIN p.calls : p.calls[j] = p.calls[k]

LEMMA EndsCovered ==
  ASSUME ProgramOK(program), CallsAlike(program), NEW o, CoversRuns(o),
         \A k \in DOMAIN program.calls : RunOf(1, program.calls[k]).end = "returned"
  PROVE  [k \in DOMAIN program.calls |-> RunOf(1, program.calls[k]).value] \in ends(o)
<1> DEFINE K == DOMAIN program.calls
           e == [k \in K |-> RunOf(1, program.calls[k]).value]
<1>1. \A k \in K : program.calls[k] \in Value
  BY DEF ProgramOK, Value
<1>2. \A k \in K : /\ e[k] \in Value
                   /\ \E n \in 0..Depth : e[k] \in Ends(o, program.calls[k], n)
  BY <1>1 DEF CoversRuns
<1>3. e \in [K -> Value]
  BY <1>2
<1> HIDE DEF e
<1>4. \E n \in 0..Depth : \A k \in K : e[k] \in Ends(o, program.calls[k], n)
  <2>1. CASE K = {}
    BY <2>1, FunctionAssumption
  <2>2. ASSUME NEW j \in K
        PROVE  \E n \in 0..Depth : \A k \in K : e[k] \in Ends(o, program.calls[k], n)
    <3>1. PICK n \in 0..Depth : e[j] \in Ends(o, program.calls[j], n)
      BY <1>2, <2>2
    <3>2. \A k \in K : program.calls[k] = program.calls[j] /\ e[k] = e[j]
      BY <2>2 DEF CallsAlike, e
    <3> HIDE DEF K
    <3> QED
      BY <3>1, <3>2
  <2> QED
    BY <2>1, <2>2
<1>5. e \in ends(o)
  BY <1>3, <1>4 DEF ends
<1> QED
  BY <1>5 DEF e

LEMMA StaysCovered ==
  ASSUME program' = program, final' = final, NEW o
  PROVE  CoversRuns(o)' <=> CoversRuns(o)
<1>1. \A i, v : RunOf(i, v)' = RunOf(i, v)
  BY DEF RunOf, Activation, Functions, Value
<1>2. \A v : Closed(v)' = Closed(v)
  BY DEF Closed, Next1, rec_states, base_states, is_base_case_final_state, CallsIn, Left
<1>3. \A v, n : Ends(o, v, n)' = Ends(o, v, n)
  BY <1>2 DEF Ends
<1> QED
  BY <1>1, <1>3 DEF CoversRuns, Value

SummaryInv ==
  /\ stage \in {"run", "traced"} => outcome = [none |-> TRUE]
  /\ stage = "summarized" => CoversRuns(outcome)
  /\ CallsCovered

\* FunctionSummarizer::summarize_pointers, AInstructionCall::execute_normal: what a
\* call really leaves behind is among the values with which the path goes on,
\* for all functions of pointers without loops and however deep they go, if Z3
\* decides the tests, divisions are inexact, the blocks of stores and calls do not
\* return, nothing is tested behind a call, a path without a call stores
\* nothing, and all calls of the path begin with the same values.
THEOREM SummariesCoverCalls ==
  Spec => [](Decided(program) /\ TakenForGranted(program) /\ CallsAlike(program) => CallsCovered)
<1> DEFINE Hypotheses == Decided(program) /\ TakenForGranted(program) /\ CallsAlike(program)
           Inv == Hypotheses => SummaryInv
<1>1. Init => Inv
  <2>1. Init => stage = "run" /\ outcome = [none |-> TRUE]
    BY DEF Init
  <2> QED
    BY <2>1 DEF SummaryInv, CallsCovered
<1>2. IInv /\ Inv /\ [Next]_vars => Inv'
  <2> SUFFICES ASSUME IInv, Inv, [Next]_vars, Hypotheses'
               PROVE  SummaryInv'
    OBVIOUS
  <2>1. ProgramOK(program) /\ program' = program
    BY FunctionAssumption
       DEF IInv, Next, vars, Run, Traced, SummarizePointers, Apply, SummarizeScalar
  <2>2. Hypotheses /\ SummaryInv /\ PathsInv
    BY <2>1 DEF IInv
  <2> HIDE DEF Hypotheses, Inv
  <2>3. CASE stage \in {"run", "traced"} /\ UNCHANGED outcome /\ stage' # "summarized"
    <3>1. outcome' = [none |-> TRUE]
      BY <2>2, <2>3 DEF SummaryInv
    <3>2. "ends" \notin DOMAIN outcome'
      BY <3>1
    <3> QED
      BY <2>3, <3>1, <3>2 DEF SummaryInv, CallsCovered
  <2>4. CASE Run \/ Traced
    <3>1. stage \in {"run", "traced"} /\ UNCHANGED outcome /\ stage' # "summarized"
      BY <2>4 DEF Run, Traced, Finish, Test, Step, Throw
    <3> QED
      BY <2>3, <3>1
  <2>5. CASE SummarizePointers
    <3>1. /\ stage = "traced" /\ program.kind = "pointers"
          /\ UNCHANGED <<program, current, states, final>>
      BY <2>5 DEF SummarizePointers
    <3>2. CASE UNCHANGED outcome /\ stage' = "done"
      BY <2>3, <3>1, <3>2
    <3>3. CASE stage' = "summarized" /\ SummaryOf(outcome')
      <4>1. OnPointers(program) /\ AllTraced
        BY <2>1, <2>2, <3>1 DEF OnPointers, AllTraced, PathsInv
      <4>2. CoversRuns(outcome')
        BY <2>2, <3>3, <4>1, SummaryCovers DEF Hypotheses
      <4> QED
        BY <3>1, <3>3, <4>2, StaysCovered DEF SummaryInv, CallsCovered
    <3> QED
      BY <2>5, <3>2, <3>3 DEF SummarizePointers, SummaryOf
  <2>6. CASE Apply
    <3>1. stage = "summarized" /\ outcome' = [ends |-> ends(outcome)] /\ stage' = "done"
          /\ UNCHANGED <<program, current, states, final>>
      BY <2>6 DEF Apply
    <3>2. CoversRuns(outcome)
      BY <2>2, <3>1 DEF SummaryInv
    <3>3. (\A k \in DOMAIN program.calls : RunOf(1, program.calls[k]).end = "returned")
            => [k \in DOMAIN program.calls |-> RunOf(1, program.calls[k]).value] \in ends(outcome)
      BY <2>1, <2>2, <3>2, EndsCovered DEF Hypotheses
    <3>4. \A i, v : RunOf(i, v)' = RunOf(i, v)
      BY <3>1 DEF RunOf, Activation, Functions, Value
    <3>5. outcome'.ends = ends(outcome)
      BY <3>1
    <3>6. CallsCovered'
      BY <3>1, <3>3, <3>4, <3>5 DEF CallsCovered
    <3> QED
      BY <3>1, <3>6 DEF SummaryInv
  <2>7. CASE SummarizeScalar
    <3>1. /\ stage' = "done" /\ stage = "traced"
          /\ \E x, y, z : outcome' = [naive |-> x, initial |-> y, equations |-> z]
      BY <2>7 DEF SummarizeScalar
    <3>2. "ends" \notin DOMAIN outcome'
      BY <3>1
    <3> QED
      BY <3>1, <3>2 DEF SummaryInv, CallsCovered
  <2>8. CASE UNCHANGED vars
    <3>1. UNCHANGED <<program, final, stage, outcome>>
      BY <2>8 DEF vars
    <3>2. \A i, v : RunOf(i, v)' = RunOf(i, v)
      BY <3>1 DEF RunOf, Activation, Functions, Value
    <3>3. CallsCovered'
      BY <2>2, <3>1, <3>2 DEF SummaryInv, CallsCovered
    <3>4. CoversRuns(outcome') <=> CoversRuns(outcome)'
      BY <3>1, StaysCovered
    <3> QED
      BY <2>2, <3>1, <3>3, <3>4, StaysCovered DEF SummaryInv
  <2> QED
    BY <2>4, <2>5, <2>6, <2>7, <2>8 DEF Next
<1>3. Inv => (Decided(program) /\ TakenForGranted(program) /\ CallsAlike(program) => CallsCovered)
  BY DEF SummaryInv
<1> QED
  BY <1>1, <1>2, <1>3, IInvHolds, PTL DEF Spec


(***************************************************************************)
(* Functions of an integer                                                 *)
(***************************************************************************)
\* What returns according to the table b does the same according to c.
Grows(p, b, c) ==
  \A j \in DOMAIN p.function, w \in p.value :
    b[j][w].end = "returned" => c[j][w] = b[j][w]

\* What is over stays as it is.
LEMMA StaysOver ==
  ASSUME NEW p, ProgramOK(p), NEW i \in DOMAIN p.function, NEW b \in Tables(p),
         NEW v \in p.value, NEW at, ComesBy(p, i, b, v, at)
  PROVE  \A k \in 0..Size(p, i) : at[k].end # "going" => at[Size(p, i)] = at[k]
<1> DEFINE n == Size(p, i)
<1>1. n \in Nat
  BY Instructions
<1> SUFFICES ASSUME NEW k \in 0..n, at[k].end # "going"
             PROVE  at[n] = at[k]
  OBVIOUS
<1> DEFINE S == {m \in 0..n : m >= k => at[m] = at[k]}
<1>2. 0 \in S
  BY <1>1
<1>3. ASSUME NEW m \in 0..(n - 1), m \in S
      PROVE  m + 1 \in S
  <2>1. m + 1 \in 1..n /\ m + 1 \in 0..n /\ (m + 1) - 1 = m /\ m \in Nat /\ k \in Nat
    BY <1>1
  <2>2. at[m + 1] = TurnBy(p, i, b, at[m], m + 1)
    BY <2>1 DEF ComesBy
  <2>3. CASE m >= k
    BY <1>3, <2>1, <2>2, <2>3 DEF TurnBy
  <2>4. CASE ~(m >= k)
    BY <2>1, <2>4
  <2> QED
    BY <2>3, <2>4
<1> HIDE DEF S
<1>4. n \in S
  BY <1>1, <1>2, <1>3, InductionUpTo
<1> QED
  BY <1>1, <1>4 DEF S

\* An activation that returns does so whatever else returns.
LEMMA CourseGrows ==
  ASSUME NEW p, ProgramOK(p), NEW i \in DOMAIN p.function, NEW b \in Tables(p),
         NEW c \in Tables(p), Grows(p, b, c), NEW v \in p.value,
         CourseBy(p, i, v, b).end = "returned"
  PROVE  CourseBy(p, i, v, c) = CourseBy(p, i, v, b)
<1> DEFINE n == Size(p, i)
<1>1. PICK at : ComesBy(p, i, b, v, at) /\ CourseBy(p, i, v, b) = at[n]
  BY CourseByIs
<1>2. PICK ct : ComesBy(p, i, c, v, ct) /\ CourseBy(p, i, v, c) = ct[n]
  BY CourseByIs
<1>3. n \in Nat
  BY Instructions
<1> DEFINE S == {k \in 0..n : ct[k] = at[k] \/ at[k].end \notin {"going", "returned"}}
<1>4. 0 \in S
  BY <1>1, <1>2, <1>3 DEF ComesBy
<1>5. ASSUME NEW k \in 0..(n - 1), k \in S
      PROVE  k + 1 \in S
  <2>1. k + 1 \in 1..n /\ k + 1 \in 0..n /\ (k + 1) - 1 = k /\ k \in 0..n
    BY <1>3
  <2>2. at[k + 1] = TurnBy(p, i, b, at[k], k + 1) /\ ct[k + 1] = TurnBy(p, i, c, ct[k], k + 1)
    BY <1>1, <1>2, <2>1 DEF ComesBy
  <2>3. at[k] \in Under(p, i)
    BY <1>1, <2>1, GoesOn
  <2>4. CASE at[k].end \notin {"going", "returned"}
    BY <2>1, <2>2, <2>4 DEF TurnBy
  <2>5. CASE ct[k] = at[k] /\ (at[k].pc # k + 1 \/ at[k].end # "going")
    BY <2>1, <2>2, <2>5 DEF TurnBy
  <2>6. CASE ct[k] = at[k] /\ at[k].pc = k + 1 /\ at[k].end = "going"
    <3> DEFINE m == p.function[i][k + 1]
               w == at[k].value
               t == TurnBy(p, i, b, at[k], k + 1)
    <3>1. Turned(p, i, b, at[k], k + 1)
      BY <2>1, <2>3, <2>6, TurnIs
    <3>2. w \in p.value
      BY <2>3 DEF Under
    <3>3. CASE m.op = "call" /\ b[m.callee][m.update[w]].end = "returned"
      <4>1. m.callee \in DOMAIN p.function /\ m.update[w] \in p.value
        BY <2>1, <3>2, <3>3, CalleeIn
      <4>2. c[m.callee][m.update[w]] = b[m.callee][m.update[w]]
        BY <3>3, <4>1 DEF Grows
      <4>3. TurnBy(p, i, c, at[k], k + 1) = t
        BY <4>2 DEF TurnBy
      <4> QED
        BY <2>1, <2>2, <2>6, <4>3
    <3>4. CASE m.op = "call" /\ b[m.callee][m.update[w]].end # "returned"
      <4>1. b[m.callee][m.update[w]] \in Over(p)
        BY <2>1, <3>2, <3>4, CalleeIn
      <4>2. b[m.callee][m.update[w]].end # "going"
        BY <4>1, OverFields
      <4>3. t.end = b[m.callee][m.update[w]].end
        BY <3>1, <3>4 DEF Turned
      <4> QED
        BY <2>1, <2>2, <3>4, <4>2, <4>3
    <3>5. CASE m.op # "call"
      <4>1. TurnBy(p, i, c, at[k], k + 1) = t
        BY <2>6, <3>5 DEF TurnBy, Executed
      <4> QED
        BY <2>1, <2>2, <2>6, <4>1
    <3> QED
      BY <3>3, <3>4, <3>5
  <2> QED
    BY <1>5, <2>4, <2>5, <2>6
<1> HIDE DEF S
<1>6. n \in S
  BY <1>3, <1>4, <1>5, InductionUpTo
<1> QED
  BY <1>1, <1>2, <1>6 DEF S

\* What returns after at most d activations returns after one more.
LEMMA TableGrows ==
  ASSUME NEW p, ProgramOK(p), Depth \in Nat
  PROVE  \A d \in 0..(Depth - 1) : Grows(p, Table(p)[d], Table(p)[d + 1])
<1> DEFINE T == Table(p)
           S == {d \in 0..(Depth - 1) : Grows(p, T[d], T[d + 1])}
<1>1. CASE Depth = 0
  BY <1>1
<1>2. CASE Depth # 0
  <2>1. Depth - 1 \in Nat
    BY <1>2
  <2>2. 0 \in S
    <3>1. \A j \in DOMAIN p.function, w \in p.value : T[0][j][w].end = "deep"
      <4>1. T[0] = Deep(p)
        BY TableIs
      <4> HIDE DEF T
      <4> QED
        BY <4>1 DEF Deep
    <3>2. "deep" # "returned"
      OBVIOUS
    <3> QED
      BY <2>1, <3>1, <3>2 DEF Grows
  <2>3. ASSUME NEW d \in 0..((Depth - 1) - 1), d \in S
        PROVE  d + 1 \in S
    <3>1. /\ d + 1 \in 0..(Depth - 1) /\ d \in 0..Depth /\ d + 1 \in 0..Depth
          /\ d + 1 \in 1..Depth /\ (d + 1) + 1 \in 1..Depth
          /\ (d + 1) - 1 = d /\ ((d + 1) + 1) - 1 = d + 1
      BY <2>1
    <3>2. T[d] \in Tables(p) /\ T[d + 1] \in Tables(p)
      BY <3>1, TableIs
    <3>3. T[d + 1] = Deeper(p, T[d]) /\ T[(d + 1) + 1] = Deeper(p, T[d + 1])
      BY <3>1, TableIs
    <3>4. Grows(p, T[d], T[d + 1])
      BY <2>3
    <3> HIDE DEF T
    <3>5. ASSUME NEW j \in DOMAIN p.function, NEW w \in p.value, T[d + 1][j][w].end = "returned"
          PROVE  T[(d + 1) + 1][j][w] = T[d + 1][j][w]
      <4>1. T[d + 1][j][w] = CourseBy(p, j, w, T[d])
            /\ T[(d + 1) + 1][j][w] = CourseBy(p, j, w, T[d + 1])
        BY <3>3 DEF Deeper
      <4> QED
        BY <3>2, <3>4, <3>5, <4>1, CourseGrows
    <3> QED
      BY <3>1, <3>5 DEF Grows
  <2> HIDE DEF S
  <2>4. 0..(Depth - 1) \subseteq S
    BY <2>1, <2>2, <2>3, InductionUpTo
  <2> QED
    BY <2>4 DEF S
<1> QED
  BY <1>1, <1>2

\* As long as its calls return, an activation goes where the shallow one goes.
Alike(x, y) == x.pc = y.pc /\ x.value = y.value /\ x.calls = y.calls /\ x.end = y.end

LEMMA AtOnceReturns ==
  ASSUME NEW j, NEW w
  PROVE  AtOnce(j, w).end = "returned"
BY DEF AtOnce

LEMMA AlongShallow ==
  ASSUME NEW p, ProgramOK(p), p.kind = "scalar", NEW i \in DOMAIN p.function,
         NEW b \in Tables(p), NEW v \in p.value, NEW at, ComesBy(p, i, b, v, at),
         at[Size(p, i)].end = "returned"
  PROVE  \A k \in 0..Size(p, i) :
           Alike(at[k], Course(p, i, v)[k]) /\ at[k].end \in {"going", "returned"}
<1> DEFINE n == Size(p, i)
           c == Course(p, i, v)
           a == AtOnceTable(p)
           S == {k \in 0..n : at[k].end \in {"going", "returned"} => Alike(at[k], c[k])}
<1>1. n \in Nat
  BY Instructions
<1>2. a \in Tables(p) /\ ComesBy(p, i, a, v, c)
      /\ \A j \in DOMAIN p.function, w \in p.value : a[j][w] = AtOnce(j, w)
  BY CourseComes
<1> HIDE DEF c, a
<1>3. 0 \in S
  BY <1>1, <1>2 DEF ComesBy, Alike
<1>4. ASSUME NEW k \in 0..(n - 1), k \in S
      PROVE  k + 1 \in S
  <2>1. k + 1 \in 1..n /\ k + 1 \in 0..n /\ (k + 1) - 1 = k /\ k \in 0..n
    BY <1>1
  <2>2. at[k + 1] = TurnBy(p, i, b, at[k], k + 1) /\ c[k + 1] = TurnBy(p, i, a, c[k], k + 1)
    BY <1>2, <2>1 DEF ComesBy
  <2>3. at[k] \in Under(p, i) /\ c[k] \in Under(p, i)
    BY <1>2, <2>1, GoesOn
  <2>4. CASE at[k].end \notin {"going", "returned"}
    BY <2>1, <2>2, <2>4 DEF TurnBy
  <2>5. CASE Alike(at[k], c[k]) /\ (at[k].pc # k + 1 \/ at[k].end # "going")
    BY <2>1, <2>2, <2>5 DEF TurnBy, Alike
  <2>6. CASE Alike(at[k], c[k]) /\ at[k].pc = k + 1 /\ at[k].end = "going"
    <3> DEFINE m == p.function[i][k + 1]
               w == at[k].value
    <3>1. c[k].pc = k + 1 /\ c[k].end = "going" /\ c[k].value = w /\ c[k].calls = at[k].calls
      BY <2>6 DEF Alike
    <3>2. Turned(p, i, b, at[k], k + 1) /\ Turned(p, i, a, c[k], k + 1)
      BY <1>2, <2>1, <2>3, <2>6, <3>1, TurnIs
    <3>3. w \in p.value
      BY <2>3 DEF Under
    <3>4. CASE m.op = "call"
      <4>1. m.callee \in DOMAIN p.function /\ m.update[w] \in p.value
            /\ b[m.callee][m.update[w]] \in Over(p)
        BY <2>1, <3>3, <3>4, CalleeIn
      <4>2. b[m.callee][m.update[w]].end # "going"
        BY <4>1, OverFields
      <4>3. a[m.callee][m.update[w]].end = "returned"
        <5>1. a[m.callee][m.update[w]] = AtOnce(m.callee, m.update[w])
          BY <1>2, <4>1
        <5> HIDE DEF m, w
        <5> QED
          BY <5>1, AtOnceReturns
      <4>4. CASE b[m.callee][m.update[w]].end = "returned"
        <5>1. Alike(at[k + 1], c[k + 1])
          BY ZenonT(90), <2>2, <3>1, <3>2, <3>4, <4>3, <4>4 DEF Turned, Alike
        <5> QED
          BY <2>1, <5>1
      <4>5. CASE b[m.callee][m.update[w]].end # "returned"
        <5>1. at[k + 1].end = b[m.callee][m.update[w]].end
          BY <2>2, <3>2, <3>4, <4>5 DEF Turned
        <5> QED
          BY <2>1, <4>2, <4>5, <5>1
      <4> QED
        BY <4>4, <4>5
    <3>5. CASE m.op # "call"
      <4>1. Alike(at[k + 1], c[k + 1])
        BY ZenonT(90), <2>2, <3>1, <3>2, <3>5 DEF Turned, Alike
      <4> QED
        BY <2>1, <4>1
    <3> QED
      BY <3>4, <3>5
  <2> QED
    BY <1>4, <2>4, <2>5, <2>6
<1> HIDE DEF S
<1>5. 0..n \subseteq S
  BY <1>1, <1>3, <1>4, InductionUpTo
<1>6. \A k \in 0..n : at[k].end \in {"going", "returned"}
  BY StaysOver
<1> QED
  BY <1>5, <1>6 DEF S, c

\* The sum of what the calls of the path s return at v, if they do what b says.
Called(s, v, b, k) == b[s.calls[k].callee][s.calls[k].argument[v]]
SumOf(s, v, b) ==
  LET sum[k \in 0..Len(s.calls)] == IF k = 0 THEN 0 ELSE sum[k - 1] + Called(s, v, b, k).sum
  IN  sum

LEMMA SumIs ==
  ASSUME NEW p, ProgramOK(p), NEW i \in DOMAIN p.function, NEW s \in Sound(p, i),
         NEW b \in Tables(p), NEW v \in p.value
  PROVE  /\ SumOf(s, v, b) \in [0..Len(s.calls) -> Int] /\ SumOf(s, v, b)[0] = 0
         /\ \A k \in 1..Len(s.calls) :
              /\ Called(s, v, b, k) \in Over(p)
              /\ SumOf(s, v, b)[k] = SumOf(s, v, b)[k - 1] + Called(s, v, b, k).sum
<1> DEFINE n == Len(s.calls)
           X == Int
           of(k) == Called(s, v, b, k).sum
           go == [x \in X \X (1..n) |-> x[1] + of(x[2])]
           Obeys(g) == g = [k \in 0..n |-> IF k = 0 THEN 0 ELSE g[k - 1] + of(k)]
           chosen == CHOOSE g : Obeys(g)
<1>1. SumOf(s, v, b) = chosen
  BY DEF SumOf
<1>2. n \in Nat /\ s.calls \in Seq(CallsTo(p))
  BY SoundFields
<1>3. \A k \in 1..n : Called(s, v, b, k) \in Over(p)
  <2> SUFFICES ASSUME NEW k \in 1..n
               PROVE  Called(s, v, b, k) \in Over(p)
    OBVIOUS
  <2>1. s.calls[k] \in CallsTo(p)
    BY <1>2
  <2>2. s.calls[k].callee \in DOMAIN p.function /\ s.calls[k].argument[v] \in p.value
    BY <2>1 DEF CallsTo
  <2> QED
    BY <2>2 DEF Called, Tables
<1>4. \A k \in 1..n : of(k) \in Int
  BY <1>3, OverFields
<1> HIDE DEF n, of
<1>5. \A x \in X, k \in 1..n : go[<<x, k>>] = x + of(k) /\ x + of(k) \in X
  BY <1>4
<1> HIDE DEF go
<1>0. 0 \in X
  OBVIOUS
<1> HIDE DEF X
<1>6. Steps(X, n, go)
  BY <1>5 DEF Steps
<1>7. PICK f : Recursive(X, 0, n, go, f)
  BY <1>0, <1>2, <1>6, Recursion
<1>8. /\ f \in [0..n -> X] /\ f[0] = 0
      /\ \A k \in 1..n : f[k - 1] \in X /\ f[k] = f[k - 1] + of(k)
  <2>1. \A k \in 1..n : k - 1 \in 0..n
    BY <1>2
  <2> QED
    BY <1>5, <1>7, <2>1 DEF Recursive
<1>9. Obeys(f)
  <2>1. f = [k \in 0..n |-> f[k]]
    BY <1>8
  <2>2. \A k \in 0..n : k # 0 => k \in 1..n
    BY <1>2
  <2>3. \A k \in 0..n : f[k] = IF k = 0 THEN 0 ELSE f[k - 1] + of(k)
    BY <1>8, <2>2
  <2> QED
    BY <2>1, <2>3
<1>10. Obeys(chosen)
  <2> HIDE DEF Obeys
  <2> QED
    BY <1>9, Zenon
<1> HIDE DEF chosen
<1>11. chosen[0] = 0 /\ \A k \in 1..n : chosen[k] = chosen[k - 1] + of(k)
  <2>1. 0 \in 0..n /\ \A k \in 1..n : k \in 0..n /\ k # 0
    BY <1>2
  <2>2. \A k \in 0..n : chosen[k] = IF k = 0 THEN 0 ELSE chosen[k - 1] + of(k)
    BY <1>10
  <2> QED
    BY <2>1, <2>2
<1>12. \A k \in 1..n : chosen[k - 1] \in X => chosen[k] = go[<<chosen[k - 1], k>>]
  BY <1>5, <1>11
<1>13. \A k \in 0..n : chosen[k] = f[k]
  BY <1>0, <1>2, <1>7, <1>11, <1>12, RecursionUnique
<1>14. chosen = [k \in 0..n |-> chosen[k]]
  BY <1>10
<1>15. chosen \in [0..n -> X]
  BY <1>8, <1>13, <1>14
<1> QED
  BY <1>1, <1>3, <1>11, <1>15 DEF n, of, X

\* What an activation returns is what the path of its value says of it.
LEMMA PathSays ==
  ASSUME NEW p, ProgramOK(p), p.kind = "scalar", NEW i \in DOMAIN p.function,
         NEW s \in Ended(p, i), NEW v \in s.cond, NEW b \in Tables(p), NEW at,
         ComesBy(p, i, b, v, at), at[Size(p, i)].end = "returned"
  PROVE  /\ \A k \in 1..Len(s.calls) : Called(s, v, b, k).end = "returned"
         /\ at[Size(p, i)].sum = s.result[v] + s.weight * SumOf(s, v, b)[Len(s.calls)]
<1> DEFINE n == Size(p, i)
           c == Course(p, i, v)
           N == Len(s.calls)
           sum == SumOf(s, v, b)
           Counted(k) == /\ at[k].calls \in 0..N /\ at[k].sum = sum[at[k].calls]
                         /\ \A m \in 1..at[k].calls : Called(s, v, b, m).end = "returned"
           S == {k \in 0..n : at[k].end = "going" => Counted(k)}
<1>1. n \in Nat /\ s \in Sound(p, i) /\ s.status = "TERMINATED" /\ TraceOK(p, i, s)
      /\ N \in Nat /\ s.pc \in 1..n /\ v \in p.value
  BY Instructions, SoundFields DEF Ended
<1>2. /\ sum[0] = 0
      /\ \A k \in 1..N : /\ Called(s, v, b, k) \in Over(p)
                         /\ sum[k] = sum[k - 1] + Called(s, v, b, k).sum
  BY <1>1, SumIs
<1>3. \A k \in 0..n : Alike(at[k], c[k]) /\ at[k].end \in {"going", "returned"}
  BY <1>1, AlongShallow
<1>4. End(p, i, v).end = "returned"
  <2>1. n \in 0..n
    BY <1>1
  <2> QED
    BY <1>3, <2>1 DEF Alike, End
<1>5. Returned(p, i, v, s)
  BY <1>1, <1>4, EndedSays
<1>6. Passed(p, i, v, s)
  BY <1>1, <1>4, SoundFields DEF ValuesOK
<1> HIDE DEF sum
<1>7. 0 \in S
  BY <1>1, <1>2 DEF ComesBy, Began
<1>8. ASSUME NEW k \in 0..(n - 1), k \in S
      PROVE  k + 1 \in S
  <2>1. k + 1 \in 1..n /\ k + 1 \in 0..n /\ (k + 1) - 1 = k /\ k \in 0..n
    BY <1>1
  <2> SUFFICES ASSUME at[k + 1].end = "going"
               PROVE  Counted(k + 1)
    BY <2>1
  <2>2. at[k + 1] = TurnBy(p, i, b, at[k], k + 1)
    BY <2>1 DEF ComesBy
  <2>3. at[k] \in Under(p, i)
    BY <1>1, <2>1, GoesOn
  <2>4. CASE at[k].pc # k + 1 \/ at[k].end # "going"
    <3>1. at[k + 1] = at[k]
      BY <2>2, <2>4 DEF TurnBy
    <3> QED
      BY <1>8, <3>1
  <2>5. CASE at[k].pc = k + 1 /\ at[k].end = "going"
    <3> DEFINE m == p.function[i][k + 1]
               w == at[k].value
    <3>1. Turned(p, i, b, at[k], k + 1)
      BY <2>1, <2>3, <2>5, TurnIs
    <3>2. Counted(k)
      BY <1>8, <2>5
    <3>3. CASE m.op = "call"
      <4> DEFINE d == at[k].calls
      <4>1. ComesTo(p, i, v, k + 1) /\ c[k].calls = d /\ c[k].value = w
        BY <1>3, <2>1, <2>5 DEF ComesTo, Alike
      <4>2. Noted(p, i, v, s, k + 1)
        BY <1>1, <1>6, <2>1, <3>3, <4>1 DEF Passed
      <4>3. /\ d \in 0..(N - 1)
            /\ s.calls[d + 1].callee = m.callee /\ s.calls[d + 1].argument[v] = m.update[w]
        BY <2>1, <4>1, <4>2 DEF Noted
      <4>4. Called(s, v, b, d + 1) = b[m.callee][m.update[w]]
        BY <4>3 DEF Called
      <4>5. b[m.callee][m.update[w]].end = "returned"
        <5>1. b[m.callee][m.update[w]].end # "returned" => at[k + 1].end = b[m.callee][m.update[w]].end
          BY <2>2, <3>1, <3>3 DEF Turned
        <5>2. w \in p.value
          BY <2>3 DEF Under
        <5>3. b[m.callee][m.update[w]].end # "going"
          BY <2>1, <3>3, <5>2, CalleeIn, OverFields
        <5> QED
          BY <5>1, <5>3
      <4>6. at[k + 1].calls = d + 1 /\ at[k + 1].sum = at[k].sum + Called(s, v, b, d + 1).sum
        BY <2>2, <3>1, <3>3, <4>4 DEF Turned
      <4>7. d + 1 \in 1..N /\ d + 1 \in 0..N /\ (d + 1) - 1 = d /\ d \in Nat
        BY SMTT(90), <1>1, <4>3
      <4>8. at[k + 1].sum = sum[d + 1]
        BY <1>2, <3>2, <4>6, <4>7
      <4>9. \A x \in 1..(d + 1) : Called(s, v, b, x).end = "returned"
        <5>1. \A x \in 1..(d + 1) : x \in 1..d \/ x = d + 1
          BY <4>7
        <5> QED
          BY <3>2, <4>4, <4>5, <5>1
      <4> QED
        BY <4>6, <4>7, <4>8, <4>9
    <3>4. CASE m.op # "call"
      <4>1. m.op # "return"
        BY <2>2, <3>1, <3>4 DEF Turned
      <4>2. at[k].calls \in Nat
        BY <2>3 DEF Under
      <4>3. at[k + 1].calls = at[k].calls /\ at[k + 1].sum = at[k].sum
        <5>1. at[k + 1].calls = at[k].calls + 0
          BY <2>2, <3>1, <3>4 DEF Turned
        <5>2. at[k + 1].sum = at[k].sum
          BY <2>2, <3>1, <3>4, <4>1 DEF Turned
        <5> QED
          BY <4>2, <5>1, <5>2
      <4> QED
        BY <3>2, <4>3
    <3> QED
      BY <3>3, <3>4
  <2> QED
    BY <2>4, <2>5
<1> HIDE DEF S, c
<1>9. 0..n \subseteq S
  BY <1>1, <1>7, <1>8, InductionUpTo
<1> DEFINE k == s.pc - 1
           m == p.function[i][s.pc]
           w == at[k].value
<1>10. k \in 0..n /\ s.pc \in 0..n /\ n \in 0..n
  BY <1>1
<1>11. at[k].pc = s.pc /\ at[k].end = "going" /\ at[k] \in Under(p, i)
  <2>1. c[k].pc = s.pc /\ c[k].end = "going"
    BY <1>5 DEF Returned, ComesTo, c
  <2> QED
    BY <1>1, <1>3, <1>10, <2>1, GoesOn DEF Alike
<1>12. Turned(p, i, b, at[k], s.pc) /\ at[s.pc] = TurnBy(p, i, b, at[k], s.pc) /\ m.op = "return"
  BY <1>1, <1>11, TurnIs DEF TraceOK, ComesBy
<1>13. /\ at[s.pc].end = "returned" /\ at[s.pc].value = w /\ at[s.pc].calls = at[k].calls
       /\ at[s.pc].sum = m.result[w] + m.weight * at[k].sum
  <2>1. at[k].calls \in Nat
    BY <1>11 DEF Under
  <2> QED
    BY SMTT(90), <1>12, <2>1 DEF Turned
<1>14. at[n] = at[s.pc]
  BY SMTT(90), <1>1, <1>10, <1>13, StaysOver
<1>15. at[k].calls = N /\ w = s.update[v]
  <2>1. c[n].calls = N /\ c[n].value = s.update[v]
    BY <1>5 DEF Returned, End, c
  <2> QED
    BY <1>3, <1>10, <1>13, <1>14, <2>1 DEF Alike
<1>16. Counted(k)
  BY <1>9, <1>10, <1>11 DEF S
<1>17. s.result[v] = m.result[w] /\ s.weight = m.weight
  BY <1>5, <1>15 DEF Returned
<1> QED
  BY <1>13, <1>14, <1>15, <1>16, <1>17 DEF sum

\* The runs of a path's calls, and their sum.
LEMMA SaysIs ==
  ASSUME NEW i, NEW s, NEW m
  PROVE  LET b == Table(program)[Depth]
         IN  Says(i, s, m) <=>
               (b[i][m].end = "returned" =>
                  /\ \A k \in DOMAIN s.calls : Called(s, m, b, k).end = "returned"
                  /\ b[i][m].sum = s.result[m] + s.weight * SumOf(s, m, b)[Len(s.calls)])
<1> DEFINE b == Table(program)[Depth]
           sum1 == LET sum[k \in 0..Len(s.calls)] ==
                         IF k = 0 THEN 0
                         ELSE sum[k - 1] + RunOf(s.calls[k].callee, s.calls[k].argument[m]).sum
                   IN  sum
<1>1. sum1 = SumOf(s, m, b)
  BY DEF SumOf, Called, RunOf, Table, Deeper, Deep, CourseBy, Activation, Began, Functions, Value
<1>2. \A j, w : RunOf(j, w) = b[j][w]
  BY RunOfIs
<1>3. Says(i, s, m) <=>
        (RunOf(i, m).end = "returned" =>
           /\ \A k \in DOMAIN s.calls :
                RunOf(s.calls[k].callee, s.calls[k].argument[m]).end = "returned"
           /\ RunOf(i, m).sum = s.result[m] + s.weight * sum1[Len(s.calls)])
  BY DEF Says
<1> HIDE DEF sum1, b
<1> QED
  BY <1>1, <1>2, <1>3 DEF Called, b

\* What a path says of its values is true of the function.
LEMMA EndedSaysTrue ==
  ASSUME ProgramOK(program), program.kind = "scalar", NEW i \in DOMAIN program.function,
         NEW m \in program.value, RunOf(i, m).end = "returned"
  PROVE  /\ End(program, i, m).end = "returned"
         /\ \A s \in Ended(program, i) : m \in s.cond => Says(i, s, m)
<1> DEFINE p == program
           T == Table(p)
           n == Size(p, i)
<1>1. Depth \in Nat
  BY FunctionAssumption
<1>2. T \in [0..Depth -> Tables(p)] /\ T[0] = Deep(p)
      /\ \A d \in 1..Depth : T[d] = Deeper(p, T[d - 1])
  BY TableIs
<1>3. T[Depth][i][m].end = "returned"
  BY RunOfIs
<1>4. \A d \in 0..(Depth - 1) : Grows(p, T[d], T[d + 1])
  BY <1>1, TableGrows
<1> HIDE DEF T
<1>5. Depth # 0
  <2>1. Deep(p)[i][m].end = "deep"
    BY DEF Deep
  <2>2. "deep" # "returned"
    OBVIOUS
  <2> QED
    BY <1>2, <1>3, <2>1, <2>2
<1> DEFINE b == T[Depth - 1]
           a == T[Depth]
<1>6. Depth \in 1..Depth /\ Depth - 1 \in 0..Depth /\ Depth - 1 \in 0..(Depth - 1)
      /\ (Depth - 1) + 1 = Depth /\ Depth \in 0..Depth
  BY <1>1, <1>5
<1>7. b \in Tables(p) /\ a \in Tables(p) /\ a = Deeper(p, b) /\ Grows(p, b, a)
  BY <1>2, <1>4, <1>6
<1> HIDE DEF a, b
<1>8. a[i][m] = CourseBy(p, i, m, b)
  BY <1>7 DEF Deeper
<1>9. PICK at : ComesBy(p, i, b, m, at) /\ CourseBy(p, i, m, b) = at[n]
  BY <1>7, CourseByIs
<1>10. at[n].end = "returned"
  BY <1>3, <1>8, <1>9 DEF a
<1>11. End(p, i, m).end = "returned"
  <2>1. n \in 0..n
    BY Instructions
  <2>2. Alike(at[n], Course(p, i, m)[n])
    BY <1>7, <1>9, <1>10, <2>1, AlongShallow
  <2> QED
    BY <1>10, <2>2 DEF Alike, End
<1>12. ASSUME NEW s \in Ended(p, i), m \in s.cond
       PROVE  Says(i, s, m)
  <2> DEFINE N == Len(s.calls)
  <2>1. s \in Sound(p, i) /\ N \in Nat /\ DOMAIN s.calls = 1..N /\ s.calls \in Seq(CallsTo(p))
    BY SoundFields DEF Ended
  <2>2. /\ \A k \in 1..N : Called(s, m, b, k).end = "returned"
        /\ at[n].sum = s.result[m] + s.weight * SumOf(s, m, b)[N]
    BY <1>7, <1>9, <1>10, <1>12, PathSays
  <2>3. \A k \in 1..N : Called(s, m, a, k) = Called(s, m, b, k)
    <3> SUFFICES ASSUME NEW k \in 1..N
                 PROVE  Called(s, m, a, k) = Called(s, m, b, k)
      OBVIOUS
    <3>1. s.calls[k] \in CallsTo(p)
      BY <2>1
    <3>2. s.calls[k].callee \in DOMAIN p.function /\ s.calls[k].argument[m] \in p.value
      BY <3>1 DEF CallsTo
    <3> QED
      BY <1>7, <2>2, <3>2 DEF Grows, Called
  <2> DEFINE x == SumOf(s, m, a)
             y == SumOf(s, m, b)
             S == {k \in 0..N : x[k] = y[k]}
  <2>4. x[0] = 0 /\ \A k \in 1..N : x[k] = x[k - 1] + Called(s, m, a, k).sum
    BY <1>7, <2>1, SumIs
  <2>5. y[0] = 0 /\ \A k \in 1..N : y[k] = y[k - 1] + Called(s, m, b, k).sum
    BY <1>7, <2>1, SumIs
  <2> HIDE DEF x, y
  <2>6. 0 \in S
    BY <2>1, <2>4, <2>5
  <2>7. ASSUME NEW k \in 0..(N - 1), k \in S
        PROVE  k + 1 \in S
    <3>1. k + 1 \in 1..N /\ k + 1 \in 0..N /\ (k + 1) - 1 = k
      BY <2>1
    <3> QED
      BY <2>3, <2>4, <2>5, <2>7, <3>1
  <2> HIDE DEF S
  <2>8. N \in S
    <3>1. N \in Nat
      BY <2>1
    <3> HIDE DEF N
    <3>2. 0..N \subseteq S
      BY <2>6, <2>7, <3>1, InductionUpTo
    <3> QED
      BY <3>1, <3>2
  <2>9. x[N] = y[N]
    BY <2>8 DEF S
  <2>10. /\ \A k \in DOMAIN s.calls : Called(s, m, a, k).end = "returned"
         /\ a[i][m].sum = s.result[m] + s.weight * SumOf(s, m, a)[N]
    BY <1>8, <1>9, <2>1, <2>2, <2>3, <2>9 DEF x, y
  <2> QED
    BY <2>10, SaysIs DEF a, T
<1> QED
  BY <1>11, <1>12

\* Every one of the sequences x, followed by every element of f.
Row(x, f) == [j \in DOMAIN x |-> [l \in DOMAIN f |-> Append(x[j], f[l])]]
Times(x, f) == FlattenSeq(Row(x, f))

LEMMA TimesIs ==
  ASSUME NEW S, NEW x \in Seq(Seq(S)), NEW f \in Seq(S)
  PROVE  /\ Times(x, f) \in Seq(Seq(S))
         /\ \A t : t \in Range(Times(x, f)) <=> \E q \in Range(x), s \in Range(f) : t = Append(q, s)
<1> DEFINE A == Seq(S)
           n == Len(x)
           m == Len(f)
           row(j) == [l \in DOMAIN f |-> Append(x[j], f[l])]
           r == Row(x, f)
<1>1. n \in Nat /\ m \in Nat /\ DOMAIN x = 1..n /\ DOMAIN f = 1..m
      /\ (\A j \in 1..n : x[j] \in A) /\ \A l \in 1..m : f[l] \in S
  OBVIOUS
<1>2. \A j \in 1..n : row(j) \in Seq(A) /\ Range(row(j)) = {Append(x[j], f[l]) : l \in 1..m}
  <2> SUFFICES ASSUME NEW j \in 1..n
               PROVE  row(j) \in Seq(A) /\ Range(row(j)) = {Append(x[j], f[l]) : l \in 1..m}
    OBVIOUS
  <2>1. \A l \in 1..m : Append(x[j], f[l]) \in A
    BY <1>1
  <2>2. row(j) \in [1..m -> A]
    BY <1>1, <2>1
  <2>3. row(j) \in Seq(A)
    <3> HIDE DEF A, m, row
    <3> QED
      BY <1>1, <2>2
  <2>4. \A l \in 1..m : row(j)[l] = Append(x[j], f[l])
    BY <1>1
  <2>5. DOMAIN row(j) = 1..m
    BY <1>1
  <2> HIDE DEF row
  <2>6. Range(row(j)) = {Append(x[j], f[l]) : l \in 1..m}
    BY <2>4, <2>5 DEF Range
  <2> QED
    BY <2>3, <2>6
<1>3. r = [j \in 1..n |-> row(j)]
  BY <1>1 DEF Row
<1> HIDE DEF A, n, m, row, r
<1>4. r \in [1..n -> Seq(A)] /\ \A j \in 1..n : r[j] = row(j)
  BY <1>2, <1>3
<1>5. r \in Seq(Seq(A)) /\ Len(r) = n
  BY <1>1, <1>4
<1>6. Times(x, f) \in Seq(A)
  BY <1>5, FlattenType DEF Times, r
<1>7. \A t : t \in Range(Times(x, f)) <=> \E j \in 1..n : t \in Range(r[j])
  BY <1>5, FlattenElements DEF Times, r
<1>8. \A q : q \in Range(x) <=> \E j \in 1..n : q = x[j]
  BY <1>1 DEF Range
<1>9. \A s : s \in Range(f) <=> \E l \in 1..m : s = f[l]
  BY <1>1 DEF Range
<1>10. \A j \in 1..n : Range(r[j]) = {Append(x[j], f[l]) : l \in 1..m}
  BY <1>2, <1>4
<1> HIDE DEF Times
<1>11. ASSUME NEW t
       PROVE  t \in Range(Times(x, f)) <=> \E q \in Range(x), s \in Range(f) : t = Append(q, s)
  <2>1. t \in Range(Times(x, f)) <=> \E j \in 1..n, l \in 1..m : t = Append(x[j], f[l])
    BY SMTT(90), <1>7, <1>10
  <2>2. ASSUME NEW j \in 1..n, NEW l \in 1..m, t = Append(x[j], f[l])
        PROVE  \E q \in Range(x), s \in Range(f) : t = Append(q, s)
    <3>1. x[j] \in Range(x) /\ f[l] \in Range(f)
      BY <1>8, <1>9
    <3> QED
      BY <2>2, <3>1
  <2>3. ASSUME NEW q \in Range(x), NEW s \in Range(f), t = Append(q, s)
        PROVE  \E j \in 1..n, l \in 1..m : t = Append(x[j], f[l])
    <3>1. PICK j \in 1..n : q = x[j]
      BY <1>8
    <3>2. PICK l \in 1..m : s = f[l]
      BY <1>9
    <3> QED
      BY <2>3, <3>1, <3>2
  <2> QED
    BY <2>1, <2>2, <2>3
<1> QED
  BY <1>6, <1>11 DEF A

\* A product has a path of each of the first k functions.
OfEach(k, t) == Len(t) = k /\ \A i \in 1..k : t[i] \in Range(final[i])
Chosen(k, c, t) == Len(t) = k /\ \A i \in 1..k : t[i] = c[i]

LEMMA ProductsAre ==
  ASSUME ProgramOK(program), AllTraced
  PROVE  /\ Products \in Seq(Seq(UNION {Ended(program, i) : i \in Functions}))
         /\ \A t \in Range(Products) : OfEach(Len(program.function), t)
         /\ \A c : (\A i \in Functions : c[i] \in Range(final[i])) =>
              \E t \in Range(Products) : Chosen(Len(program.function), c, t)
<1> DEFINE n == Len(program.function)
           S == UNION {Ended(program, i) : i \in Functions}
           X == Seq(Seq(S))
           y == <<<<>>>>
           go == [x \in X \X (1..n) |-> Times(x[1], final[x[2]])]
           Obeys(g) == g = [k \in 0..n |-> IF k = 0 THEN y ELSE Times(g[k - 1], final[k])]
           chosen == CHOOSE g : Obeys(g)
<1>1. Products = chosen[n]
  BY DEF Products, Times, Row
<1>2. n \in Nat /\ Functions = 1..n
  BY DEF ProgramOK, Functions
<1>3. \A k \in 1..n : final[k] \in Seq(S)
  <2> SUFFICES ASSUME NEW k \in 1..n
               PROVE  final[k] \in Seq(S)
    OBVIOUS
  <2>1. final[k] \in Seq(Ended(program, k))
    BY <1>2, FinalCases DEF Functions
  <2>2. Ended(program, k) \subseteq S
    BY <1>2
  <2> QED
    BY <2>1, <2>2
<1>4. y \in X
  OBVIOUS
<1> HIDE DEF n, S, y
<1>5. \A x \in X, k \in 1..n : go[<<x, k>>] = Times(x, final[k])
  OBVIOUS
<1>6. \A x \in X, k \in 1..n :
        /\ Times(x, final[k]) \in X
        /\ \A t : t \in Range(Times(x, final[k])) <=>
                    \E q \in Range(x), s \in Range(final[k]) : t = Append(q, s)
  BY <1>3, TimesIs
<1> HIDE DEF go
<1>7. Steps(X, n, go)
  BY <1>5, <1>6 DEF Steps
<1> HIDE DEF X
<1>8. PICK f : Recursive(X, y, n, go, f)
  BY <1>2, <1>4, <1>7, Recursion
<1>9. /\ f \in [0..n -> X] /\ f[0] = y
      /\ \A k \in 1..n : f[k - 1] \in X /\ f[k] = Times(f[k - 1], final[k])
  <2>1. \A k \in 1..n : k - 1 \in 0..n
    BY <1>2
  <2> QED
    BY <1>5, <1>8, <2>1 DEF Recursive
<1>10. Obeys(f)
  <2>1. f = [k \in 0..n |-> f[k]]
    BY <1>9
  <2>2. \A k \in 0..n : k # 0 => k \in 1..n
    BY <1>2
  <2>3. \A k \in 0..n : f[k] = IF k = 0 THEN y ELSE Times(f[k - 1], final[k])
    BY <1>9, <2>2
  <2> QED
    BY <2>1, <2>3
<1>11. Obeys(chosen)
  <2> HIDE DEF Obeys
  <2> QED
    BY <1>10, Zenon
<1> HIDE DEF chosen
<1>12. chosen[0] = y /\ \A k \in 1..n : chosen[k] = Times(chosen[k - 1], final[k])
  <2>1. 0 \in 0..n /\ \A k \in 1..n : k \in 0..n /\ k # 0
    BY <1>2
  <2>2. \A k \in 0..n : chosen[k] = IF k = 0 THEN y ELSE Times(chosen[k - 1], final[k])
    BY <1>11
  <2> QED
    BY <2>1, <2>2
<1>13. \A k \in 1..n : chosen[k - 1] \in X => chosen[k] = go[<<chosen[k - 1], k>>]
  BY <1>5, <1>12
<1>14. \A k \in 0..n : chosen[k] = f[k]
  BY <1>2, <1>4, <1>8, <1>12, <1>13, RecursionUnique
<1>15. Products = f[n] /\ f[n] \in X
  BY <1>1, <1>2, <1>9, <1>14
<1>16. \A k \in 0..n : \A t \in Range(f[k]) : t \in Seq(S)
  BY <1>9 DEF X, Range
<1>17. Range(f[0]) = {<<>>}
  BY <1>9 DEF y, Range
<1> DEFINE C == {k \in 0..n :
                   /\ \A t \in Range(f[k]) : OfEach(k, t)
                   /\ \A c : (\A i \in 1..k : c[i] \in Range(final[i])) =>
                        \E t \in Range(f[k]) : Chosen(k, c, t)}
<1>18. 0 \in C
  <2>1. Len(<<>>) = 0
    OBVIOUS
  <2> QED
    BY <1>2, <1>17, <2>1 DEF OfEach, Chosen
<1>19. ASSUME NEW k \in 0..(n - 1), k \in C
       PROVE  k + 1 \in C
  <2>1. k + 1 \in 1..n /\ k + 1 \in 0..n /\ (k + 1) - 1 = k /\ k \in 0..n /\ k \in Nat
    BY <1>2
  <2>2. \A j \in 1..(k + 1) : j \in 1..k \/ j = k + 1
    BY <2>1
  <2>3. \A t : t \in Range(f[k + 1]) <=>
                 \E q \in Range(f[k]), s \in Range(final[k + 1]) : t = Append(q, s)
    BY <1>6, <1>9, <2>1
  <2>4. ASSUME NEW q \in Range(f[k]), NEW s, Len(q) = k
        PROVE  /\ Len(Append(q, s)) = k + 1 /\ Append(q, s)[k + 1] = s
               /\ \A i \in 1..k : Append(q, s)[i] = q[i]
    <3>1. q \in Seq(S)
      BY <1>16, <2>1
    <3> QED
      BY <2>1, <2>4, <3>1
  <2>5. ASSUME NEW t \in Range(f[k + 1])
        PROVE  OfEach(k + 1, t)
    <3>1. PICK q \in Range(f[k]), s \in Range(final[k + 1]) : t = Append(q, s)
      BY <2>3
    <3>2. OfEach(k, q)
      BY <1>19
    <3> QED
      BY <2>2, <2>4, <3>1, <3>2 DEF OfEach
  <2>6. ASSUME NEW c, \A i \in 1..(k + 1) : c[i] \in Range(final[i])
        PROVE  \E t \in Range(f[k + 1]) : Chosen(k + 1, c, t)
    <3>1. \A i \in 1..k : i \in 1..(k + 1)
      BY <2>1
    <3>2. PICK q \in Range(f[k]) : Chosen(k, c, q)
      BY <1>19, <2>6, <3>1
    <3>3. k + 1 \in 1..(k + 1)
      BY <2>1
    <3>4. c[k + 1] \in Range(final[k + 1])
      BY <2>6, <3>3
    <3>5. Append(q, c[k + 1]) \in Range(f[k + 1])
      BY <2>3, <3>4
    <3>6. Chosen(k + 1, c, Append(q, c[k + 1]))
      BY <2>2, <2>4, <3>2 DEF Chosen
    <3> QED
      BY <3>5, <3>6
  <2> QED
    BY <2>1, <2>5, <2>6
<1> HIDE DEF C
<1>20. 0..n \subseteq C
  BY <1>2, <1>18, <1>19, InductionUpTo
<1>21. n \in C
  BY <1>2, <1>20
<1> QED
  BY <1>2, <1>15, <1>21 DEF C, X, S, n

\* What is sent to the solver: base cases and equations, from the products.
Requested ==
  \/ outcome = [naive |-> TRUE, initial |-> initial_values, equations |-> DOMAIN Products \ bases]
  \/ /\ Len(program.function) = 1
     /\ outcome = [naive |-> FALSE, initial |-> <<>>, equations |-> DOMAIN Products]

\* Where one function returns, all of them do if their calls do.
ReturnTogether ==
  \A m \in Value, i, j \in Functions :
    m >= 1 /\ RunOf(i, m).end = "returned" => Shallow(j, m).end = "returned"
\* The first base case is not one of paths that exclude each other.
FirstHolds == initial_values # <<>> => Together(initial_values) # {}

LEMMA RequestHolds ==
  ASSUME ProgramOK(program), program.kind = "scalar", AllTraced, Requested,
         Len(program.function) > 1 => ReturnTogether, FirstHolds
  PROVE  RequestTrue
<1> DEFINE n == Len(program.function)
           P == Products
           D == DOMAIN P
<1>1. n \in Nat /\ n # 0 /\ Functions = 1..n /\ Functions = DOMAIN program.function /\ 0 \in Value
  BY DEF ProgramOK, Functions, Value
<1>2. D \in SUBSET Nat /\ \A k \in D : P[k] \in Range(P) /\ DOMAIN P[k] = 1..Len(P[k])
  <2>1. PICK S : P \in Seq(Seq(S))
    BY ProductsAre
  <2> HIDE DEF P
  <2>2. D = 1..Len(P) /\ \A k \in D : P[k] \in Seq(S)
    BY <2>1
  <2> QED
    BY <2>2 DEF Range
<1>3. \A k \in D : OfEach(n, P[k])
  BY <1>2, ProductsAre
<1>4. \A c : (\A i \in Functions : c[i] \in Range(final[i])) => \E k \in D : Chosen(n, c, P[k])
  <2> SUFFICES ASSUME NEW c, \A i \in Functions : c[i] \in Range(final[i])
               PROVE  \E k \in D : Chosen(n, c, P[k])
    OBVIOUS
  <2>1. PICK t \in Range(P) : Chosen(n, c, t)
    BY ProductsAre
  <2> HIDE DEF P
  <2>2. PICK k \in D : t = P[k]
    BY DEF Range
  <2> QED
    BY <2>1, <2>2
<1> HIDE DEF P
<1>5. \A i \in Functions : \A s \in Range(final[i]) : s \in Ended(program, i)
  <2> SUFFICES ASSUME NEW i \in Functions
               PROVE  \A s \in Range(final[i]) : s \in Ended(program, i)
    OBVIOUS
  <2>1. \A k \in DOMAIN final[i] : final[i][k] \in Ended(program, i)
    BY <1>1, FinalCases
  <2> QED
    BY <2>1 DEF Range
<1>6. \A k \in D, i \in Functions : DOMAIN P[k] = Functions /\ P[k][i] \in Ended(program, i)
  BY <1>1, <1>2, <1>3, <1>5 DEF OfEach
<1>7. ASSUME NEW i \in Functions, NEW s \in Ended(program, i), NEW m \in Value, m \in s.cond
      PROVE  Says(i, s, m)
  <2>1. CASE RunOf(i, m).end = "returned"
    BY <1>1, <1>7, <2>1, EndedSaysTrue DEF Value
  <2>2. CASE RunOf(i, m).end # "returned"
    BY <2>2 DEF Says
  <2> QED
    BY <2>1, <2>2
<1>8. ASSUME NEW B \in SUBSET D, B # {}
      PROVE  (CHOOSE k \in B : \A j \in B : k <= j) \in B
  <2>1. B \in SUBSET Nat
    BY <1>2
  <2>2. \E k \in B : \A j \in B : k <= j
    BY <1>8, <2>1, LeastElement
  <2> QED
    BY <2>2
<1>9. /\ outcome.equations \subseteq D
      /\ outcome.naive => outcome.equations = D \ bases
      /\ ~outcome.naive => n = 1 /\ outcome.equations = D
      /\ outcome.initial # <<>> => outcome.initial = initial_values
  BY DEF Requested, P
<1>10. ASSUME outcome.initial # <<>>, NEW i \in Functions
       PROVE  Says(i, outcome.initial[i], 0)
  <2>1. outcome.initial = initial_values /\ initial_values # <<>>
    BY <1>9, <1>10
  <2>2. bases # {} /\ initial_values = P[CHOOSE k \in bases : \A j \in bases : k <= j]
    BY <2>1 DEF initial_values, P
  <2>3. bases \in SUBSET D
    BY DEF bases, P
  <2>4. PICK k \in bases : initial_values = P[k]
    BY <1>8, <2>2, <2>3
  <2>5. k \in D /\ is_base_case(P[k])
    BY <2>3 DEF bases, P
  <2>6. Together(P[k]) # {}
    BY <2>1, <2>4 DEF FirstHolds
  <2>7. 0 \in Together(P[k])
    BY <2>5, <2>6 DEF is_base_case
  <2>8. 0 \in P[k][i].cond
    BY <1>6, <2>5, <2>7 DEF Together
  <2> QED
    BY <1>1, <1>6, <1>7, <2>1, <2>4, <2>5, <2>8
<1> DEFINE equations == outcome.equations
           applies(m) == {k \in equations :
                            equations = {k} \/ \A i \in Functions : m \in P[k][i].cond}
           first(m) == P[CHOOSE k \in applies(m) : \A j \in applies(m) : k <= j]
<1>11. ASSUME NEW m \in Value, NEW i \in Functions, outcome.naive => m >= 1,
              RunOf(i, m).end = "returned"
       PROVE  applies(m) # {} /\ Says(i, first(m)[i], m)
  <2>1. \A j \in Functions : Returns(program, j, m)
    <3> SUFFICES ASSUME NEW j \in Functions
                 PROVE  End(program, j, m).end = "returned"
      BY DEF Returns
    <3>1. CASE j = i
      BY <1>1, <1>11, <3>1, EndedSaysTrue DEF Value
    <3>2. CASE j # i
      <4>1. n > 1 /\ n # 1
        <5>1. i \in 1..n /\ j \in 1..n /\ n \in Nat
          BY <1>1
        <5> HIDE DEF n
        <5> QED
          BY <3>2, <5>1
      <4>2. outcome.naive
        BY <1>9, <4>1
      <4>3. Shallow(j, m).end = "returned"
        BY <1>11, <4>1, <4>2 DEF ReturnTogether
      <4> QED
        BY <4>3, ShallowIs
    <3> QED
      BY <3>1, <3>2
  <2>2. \A j \in Functions : \E s \in Range(final[j]) : m \in s.cond
    <3> SUFFICES ASSUME NEW j \in Functions
                 PROVE  \E s \in Range(final[j]) : m \in s.cond
      OBVIOUS
    <3>1. PICK k \in DOMAIN final[j] : m \in final[j][k].cond
      BY <1>1, <2>1, FinalCases DEF Value
    <3> QED
      BY <3>1 DEF Range
  <2> DEFINE c == [j \in Functions |-> CHOOSE s \in Range(final[j]) : m \in s.cond]
  <2>3. \A j \in Functions : c[j] \in Range(final[j]) /\ m \in c[j].cond
    BY <2>2
  <2> HIDE DEF c
  <2>4. PICK k \in D : Chosen(n, c, P[k])
    BY <1>4, <2>3
  <2>5. \A j \in Functions : m \in P[k][j].cond
    BY <1>1, <2>3, <2>4 DEF Chosen
  <2>6. k \in equations
    <3>1. CASE ~outcome.naive
      BY <1>9, <3>1
    <3>2. CASE outcome.naive
      <4>1. m \in Together(P[k])
        BY <1>6, <2>5 DEF Together
      <4>2. m # 0
        BY <1>11, <3>2
      <4>3. ~is_base_case(P[k])
        BY <4>1, <4>2 DEF is_base_case
      <4>4. k \notin bases
        BY <4>3 DEF bases, P
      <4> QED
        BY <1>9, <3>2, <4>4
    <3> QED
      BY <3>1, <3>2
  <2>7. k \in applies(m)
    BY <2>5, <2>6
  <2>8. applies(m) \in SUBSET D
    BY <1>9
  <2>9. \A x \in applies(m) : m \in P[x][i].cond
    <3>1. \A x \in applies(m) : equations = {x} => x = k
      BY <2>6
    <3> QED
      BY <2>5, <3>1
  <2> DEFINE x == CHOOSE y \in applies(m) : \A j \in applies(m) : y <= j
  <2>10. x \in applies(m)
    <3> DEFINE B == applies(m)
    <3>1. B \in SUBSET D /\ B # {}
      BY <2>7, <2>8
    <3> HIDE DEF B
    <3>2. (CHOOSE y \in B : \A j \in B : y <= j) \in B
      BY <1>8, <3>1
    <3> QED
      BY <3>2 DEF B
  <2>11. first(m) = P[x]
    OBVIOUS
  <2> HIDE DEF x
  <2>12. x \in D /\ m \in P[x][i].cond
    BY <2>8, <2>9, <2>10
  <2>13. Says(i, P[x][i], m)
    BY <1>6, <1>7, <2>12
  <2> QED
    BY <2>7, <2>11, <2>13
<1> QED
  BY <1>10, <1>11 DEF RequestTrue, P

\* A path that has been tested, or need not be, has a value.
Inhabited(s) == s.status # "TESTING" => s.cond # {}
AllInhabited(st) == \A k \in 1..Len(st) : Inhabited(st[k])

LEMMA StepInhabited ==
  ASSUME ProgramOK(program), current \in DOMAIN program.function,
         NEW s \in Sound(program, current), s.cond # {}
  PROVE  AllInhabited(step(s))
<1> DEFINE n == Node(current, s)
           next == [s EXCEPT !.pc = n.to]
<1>1. s \in PathState(program, current) /\ s.pc \in 1..Size(program, current)
  BY SoundFields
<1>2. n.op \in {"set", "branch", "jump", "assume", "assert", "divide", "call", "error", "return"}
  BY <1>1, Instructions DEF Node
<1>3. DOMAIN s = {"pc", "trace", "cond", "update", "calls", "checks", "result", "weight", "status"}
  BY <1>1 DEF PathState
<1>4. DOMAIN next = DOMAIN s /\ next.cond = s.cond
  BY <1>3
<1>5. ASSUME NEW t, DOMAIN t = DOMAIN s, NEW on
      PROVE  Inhabited(Assume(t, on))
  BY <1>3, <1>5 DEF Inhabited, Assume
<1>6. ASSUME NEW to
      PROVE  LET t == Leave(s, to) IN DOMAIN t = DOMAIN s /\ t.cond = s.cond
  BY <1>3 DEF Leave
<1>7. ASSUME NEW t, t.cond = s.cond \/ Inhabited(t)
      PROVE  AllInhabited(<<t>>)
  BY <1>7 DEF AllInhabited, Inhabited
<1>8. CASE n.op = "branch"
  <2> DEFINE a == Assume(Leave(s, n.to), n.on)
             b == Assume(Leave(s, n.other), Value \ n.on)
  <2>1. step(s) = <<a, b>>
    BY <1>8 DEF step
  <2>2. Inhabited(a) /\ Inhabited(b)
    BY <1>5, <1>6
  <2> HIDE DEF a, b
  <2> QED
    BY <2>1, <2>2 DEF AllInhabited
<1>9. CASE n.op = "jump"
  <2>1. step(s) = <<Leave(s, n.to)>>
    BY <1>9 DEF step
  <2> QED
    BY <1>6, <1>7, <2>1
<1>10. CASE n.op = "set"
  <2> DEFINE t == [next EXCEPT !.update = Composed(s, n.update)]
  <2>1. t.cond = s.cond
    BY <1>3, <1>4
  <2>2. step(s) = <<t>>
    BY <1>10 DEF step
  <2> QED
    BY <1>7, <2>1, <2>2
<1>11. CASE n.op = "call"
  <2> DEFINE c == Append(next.calls, [callee |-> n.callee, argument |-> Composed(s, n.update)])
             t == [next EXCEPT !.calls = c]
  <2>1. step(s) = <<t>>
    BY <1>11 DEF step
  <2> HIDE DEF c, next
  <2>2. t.cond = s.cond
    BY <1>3, <1>4
  <2> QED
    BY <1>7, <2>1, <2>2
<1>12. CASE n.op = "assume"
  <2>1. step(s) = <<Assume(next, n.on)>>
    BY <1>12 DEF step
  <2> QED
    BY <1>4, <1>5, <1>7, <2>1
<1>13. CASE n.op = "assert"
  <2> DEFINE c == next.checks \cup {Where(s, n.on)}
             t == [next EXCEPT !.checks = c]
  <2>1. step(s) = <<t>>
    BY <1>13 DEF step
  <2> HIDE DEF c, next
  <2>2. t.cond = s.cond
    BY <1>3, <1>4
  <2> QED
    BY <1>7, <2>1, <2>2
<1>14. CASE n.op = "divide"
  <2>1. step(s) = <<>>
    BY <1>14 DEF step
  <2> QED
    BY <2>1 DEF AllInhabited
<1>15. CASE n.op = "error"
  <2> DEFINE t == [s EXCEPT !.status = "REACH_ERROR"]
  <2>1. step(s) = <<t>>
    BY <1>15 DEF step
  <2>2. t.cond = s.cond
    BY <1>3
  <2> QED
    BY <1>7, <2>1, <2>2
<1>16. CASE n.op = "return"
  <2> DEFINE r == Composed(s, n.result)
             t == [s EXCEPT !.status = "TERMINATED", !.result = r, !.weight = n.weight]
  <2>1. step(s) = <<t>>
    BY <1>16 DEF step
  <2> HIDE DEF r
  <2>2. t.cond = s.cond
    BY <1>3
  <2> QED
    BY <1>7, <2>1, <2>2
<1> QED
  BY <1>2, <1>8, <1>9, <1>10, <1>11, <1>12, <1>13, <1>14, <1>15, <1>16

InhabitedInv ==
  /\ AllInhabited(states)
  /\ \A i \in DOMAIN program.function : \A k \in DOMAIN final[i] : final[i][k].cond # {}

LEMMA InhabitedHolds ==
  Spec => [](Decided(program) /\ program.kind = "scalar" => InhabitedInv)
<1> DEFINE Hypotheses == Decided(program) /\ program.kind = "scalar"
           Inv == Hypotheses => InhabitedInv
<1>1. ASSUME ProgramOK(program), program.kind = "scalar"
      PROVE  AllInhabited(<<InitialState>>)
  <2>1. InitialState.cond # {}
    BY <1>1 DEF InitialState, Value, ProgramOK
  <2> HIDE DEF InitialState
  <2> QED
    BY <2>1 DEF AllInhabited, Inhabited
<1>2. Init => Inv
  <2> SUFFICES ASSUME Init, Hypotheses
               PROVE  InhabitedInv
    OBVIOUS
  <2>1. ProgramOK(program)
    BY FunctionAssumption DEF Init
  <2>2. AllInhabited(states)
    BY <1>1, <2>1 DEF Init
  <2>3. \A i \in DOMAIN program.function : final[i] = <<>>
    BY DEF Init, Functions
  <2> QED
    BY <2>2, <2>3 DEF InhabitedInv
<1>3. IInv /\ Inv /\ [Next]_vars => Inv'
  <2> SUFFICES ASSUME IInv, Inv, [Next]_vars, Hypotheses'
               PROVE  InhabitedInv'
    OBVIOUS
  <2>1. ProgramOK(program) /\ program' = program
    BY FunctionAssumption
       DEF IInv, Next, vars, Run, Traced, SummarizePointers, Apply, SummarizeScalar
  <2>2. Hypotheses /\ InhabitedInv /\ PathsInv
    BY <2>1 DEF IInv
  <2>3. program.kind = "scalar"
    BY <2>2
  <2> HIDE DEF Hypotheses, Inv
  <2>4. CASE UNCHANGED <<states, final>>
    BY <2>1, <2>2, <2>4 DEF InhabitedInv, AllInhabited, Inhabited
  <2>5. CASE Traced
    <3>1. UNCHANGED final /\ (UNCHANGED states \/ states' = <<InitialState>>)
      BY <2>5 DEF Traced
    <3>2. CASE UNCHANGED states
      BY <2>4, <3>1, <3>2
    <3>3. CASE states' = <<InitialState>>
      <4>1. AllInhabited(states')
        BY <1>1, <2>1, <2>3, <3>3
      <4>2. AllInhabited(states)'
        BY <4>1 DEF AllInhabited, Inhabited
      <4> QED
        BY <2>1, <2>2, <3>1, <4>2 DEF InhabitedInv
    <3> QED
      BY <3>1, <3>2, <3>3
  <2>6. CASE Run
    <3> DEFINE S == Sound(program, current)
               s == cur_state
    <3>1. /\ states # <<>> /\ states \in Seq(S) /\ s = states[1] /\ s \in S
          /\ current \in DOMAIN program.function /\ final[current] \in Seq(Ended(program, current))
          /\ DOMAIN final = DOMAIN program.function
      BY <2>2, <2>6, FrontSound DEF Run, CasesOf, PathsInv, Functions, ProgramOK
    <3>2. Inhabited(s)
      <4>1. 1 \in 1..Len(states)
        BY <3>1
      <4> QED
        BY <2>2, <3>1, <4>1 DEF InhabitedInv, AllInhabited
    <3>3. ASSUME NEW X, S \subseteq X, NEW more \in Seq(X), Continue(more), AllInhabited(more)
          PROVE  AllInhabited(states)'
      <4>1. states' = Tail(states) \o more
        BY <3>3 DEF Continue
      <4>2. states \in Seq(X)
        BY <3>1, <3>3
      <4>3. ASSUME NEW k \in 1..Len(Tail(states) \o more)
            PROVE  Inhabited((Tail(states) \o more)[k])
        BY <2>2, <3>1, <3>3, <4>2, QueuePlaces DEF InhabitedInv, AllInhabited
      <4>4. AllInhabited(states')
        BY <4>1, <4>3 DEF AllInhabited
      <4> QED
        BY <4>4 DEF AllInhabited, Inhabited
    <3>4. AllInhabited(<<>>) /\ <<>> \in Seq(S)
      BY DEF AllInhabited
    <3>5. CASE Finish
      <4>1. s.status = "TERMINATED" /\ final' = [final EXCEPT ![current] = Append(final[current], s)]
            /\ Continue(<<>>)
        BY <2>6, <3>5 DEF Finish
      <4>2. s.cond # {}
        BY <3>2, <4>1 DEF Inhabited
      <4>3. \A k \in DOMAIN Append(final[current], s) : Append(final[current], s)[k].cond # {}
        <5>1. \A k \in DOMAIN final[current] : final[current][k].cond # {}
          BY <2>2, <3>1 DEF InhabitedInv
        <5> DEFINE f == final[current]
                   g == Append(f, s)
        <5>2. f \in Seq(Ended(program, current))
          BY <3>1
        <5> HIDE DEF f
        <5>3. \A k \in DOMAIN g : (k \in DOMAIN f /\ g[k] = f[k]) \/ g[k] = s
          BY <5>2
        <5> HIDE DEF g
        <5>4. \A k \in DOMAIN g : g[k].cond # {}
          BY <4>2, <5>1, <5>3 DEF f
        <5> QED
          BY <5>4 DEF f, g
      <4>4. \A i \in DOMAIN program.function : \A k \in DOMAIN final'[i] : final'[i][k].cond # {}
        <5> SUFFICES ASSUME NEW i \in DOMAIN program.function
                     PROVE  \A k \in DOMAIN final'[i] : final'[i][k].cond # {}
          OBVIOUS
        <5>1. final'[i] = IF i = current THEN Append(final[current], s) ELSE final[i]
          BY <3>1, <4>1
        <5> QED
          BY <2>2, <4>3, <5>1 DEF InhabitedInv
      <4>5. AllInhabited(states)'
        BY <3>3, <3>4, <4>1
      <4> QED
        BY <2>1, <4>4, <4>5 DEF InhabitedInv
    <3>6. CASE Test
      <4>1. UNCHANGED final
        BY <3>6 DEF Test
      <4>2. AllInhabited(states)'
        <5>1. CASE Continue(<<>>)
          BY <3>3, <3>4, <5>1
        <5>2. CASE s.cond # {} /\ Continue(<<[s EXCEPT !.status = "RUNNING"]>>)
          <6> DEFINE t == [s EXCEPT !.status = "RUNNING"]
          <6>1. t.cond = s.cond
            BY <3>1, SoundFields DEF PathState
          <6> HIDE DEF t
          <6>2. AllInhabited(<<t>>) /\ <<t>> \in Seq(S \cup {t})
            BY <5>2, <6>1 DEF AllInhabited, Inhabited
          <6> QED
            BY <3>3, <5>2, <6>2 DEF t
        <5> QED
          BY <3>6, <5>1, <5>2 DEF Test
      <4> QED
        BY <2>1, <2>2, <4>1, <4>2 DEF InhabitedInv
    <3>7. CASE Step
      <4>1. /\ s.status \notin {"TERMINATED", "TESTING"} /\ ~Inexact(s) /\ Continue(step(s))
            /\ UNCHANGED final
        BY <3>7 DEF Step
      <4>2. AllInhabited(step(s))
        BY <2>1, <3>1, <3>2, <4>1, StepInhabited DEF Inhabited
      <4>3. step(s) \in Seq(S)
        BY <2>1, <2>2, <3>1, <4>1, StepSound DEF Decided, Hypotheses
      <4>4. AllInhabited(states)'
        BY <3>3, <4>1, <4>2, <4>3
      <4> QED
        BY <2>1, <2>2, <4>1, <4>4 DEF InhabitedInv
    <3>8. CASE Throw
      BY <2>4, <3>8 DEF Throw
    <3> QED
      BY <2>6, <3>5, <3>6, <3>7, <3>8 DEF Run
  <2>7. CASE SummarizePointers \/ Apply \/ SummarizeScalar \/ UNCHANGED vars
    BY <2>4, <2>7 DEF SummarizePointers, Apply, SummarizeScalar, vars
  <2> QED
    BY <2>5, <2>6, <2>7 DEF Next
<1> QED
  BY <1>2, <1>3, IInvHolds, PTL DEF Spec

\* The request is made of all the paths of the functions.
RequestInv ==
  /\ stage \in {"run", "traced"} => outcome = [none |-> TRUE]
  /\ Decided(program) /\ "equations" \in DOMAIN outcome =>
       /\ program.kind = "scalar" /\ states = <<>> /\ current = Len(program.function)
       /\ Requested

LEMMA RequestKept ==
  ASSUME program' = program, final' = final
  PROVE  Products' = Products /\ bases' = bases /\ initial_values' = initial_values
<1>1. Products' = Products
  BY DEF Products
<1>2. bases' = bases
  BY <1>1 DEF bases, is_base_case, Together, Value
<1> QED
  BY <1>1, <1>2 DEF initial_values

LEMMA RequestMade ==
  Spec => []RequestInv
<1>1. Init => RequestInv
  <2>1. Init => outcome = [none |-> TRUE]
    BY DEF Init
  <2> QED
    BY <2>1 DEF RequestInv
<1>2. IInv /\ RequestInv /\ [Next]_vars => RequestInv'
  <2> SUFFICES ASSUME IInv, RequestInv, [Next]_vars
               PROVE  RequestInv'
    OBVIOUS
  <2>1. CASE stage \in {"run", "traced"} /\ UNCHANGED outcome
    <3>1. outcome' = [none |-> TRUE]
      BY <2>1 DEF RequestInv
    <3>2. "equations" \notin DOMAIN outcome'
      BY <3>1
    <3> QED
      BY <3>1, <3>2 DEF RequestInv
  <2>2. CASE Run \/ Traced
    <3>1. stage \in {"run", "traced"} /\ UNCHANGED outcome
      BY <2>2 DEF Run, Traced, Finish, Test, Step, Throw
    <3> QED
      BY <2>1, <3>1
  <2>3. CASE SummarizePointers
    <3>1. stage = "traced"
      BY <2>3 DEF SummarizePointers
    <3>2. CASE UNCHANGED outcome
      BY <2>1, <3>1, <3>2
    <3>3. CASE stage' = "summarized" /\ \E x, y, z : outcome' = [exit |-> x, proved |-> y, solved |-> z]
      <4>1. "equations" \notin DOMAIN outcome'
        BY <3>3
      <4> QED
        BY <3>3, <4>1 DEF RequestInv
    <3> QED
      BY <2>3, <3>2, <3>3 DEF SummarizePointers
  <2>4. CASE Apply
    <3>1. outcome' = [ends |-> ends(outcome)] /\ stage' = "done"
      BY <2>4 DEF Apply
    <3> HIDE DEF ends
    <3>2. "equations" \notin DOMAIN outcome'
      BY <3>1
    <3> QED
      BY <3>1, <3>2 DEF RequestInv
  <2>5. CASE SummarizeScalar
    <3>1. /\ stage = "traced" /\ program.kind = "scalar" /\ stage' = "done"
          /\ UNCHANGED <<program, current, states, final>>
      BY <2>5 DEF SummarizeScalar
    <3>2. Products' = Products /\ bases' = bases /\ initial_values' = initial_values
      BY <3>1, RequestKept
    <3>3. Requested'
      BY <2>5, <3>1, <3>2 DEF SummarizeScalar, Requested
    <3>4. Decided(program) => states = <<>> /\ current = Len(program.function)
      BY <3>1 DEF IInv, PathsInv
    <3> QED
      BY <3>1, <3>3, <3>4 DEF RequestInv
  <2>6. CASE UNCHANGED vars
    <3>1. UNCHANGED <<program, current, states, final, stage, outcome>>
      BY <2>6 DEF vars
    <3>2. Products' = Products /\ bases' = bases /\ initial_values' = initial_values
      BY <3>1, RequestKept
    <3>3. Requested' <=> Requested
      BY <3>1, <3>2 DEF Requested
    <3> QED
      BY <3>1, <3>3 DEF RequestInv
  <2> QED
    BY <2>2, <2>3, <2>4, <2>5, <2>6 DEF Next
<1> QED
  BY <1>1, <1>2, IInvHolds, PTL DEF Spec

\* FunctionSummarizer::summarize_scalar: the recurrence and the initial values that are
\* sent to the solver are true of the functions, for all functions of an integer
\* without loops and however deep they go, if Z3 decides the tests and divisions are
\* inexact; and, where several call each other, if all of them return where one does
\* and the first base case is not one of paths that exclude each other.
THEOREM RequestsAreTrue ==
  Spec => [](/\ Decided(program)
             /\ Len(program.function) > 1 => ReturnTogether /\ FirstHolds
             => RequestTrue)
<1> DEFINE Hypotheses == /\ Decided(program)
                         /\ Len(program.function) > 1 => ReturnTogether /\ FirstHolds
           Scalar == Decided(program) /\ program.kind = "scalar" => InhabitedInv
<1>1. ASSUME IInv, RequestInv, Scalar, Hypotheses
      PROVE  RequestTrue
  <2> SUFFICES ASSUME stage = "done", "equations" \in DOMAIN outcome
               PROVE  RequestTrue
    BY DEF RequestTrue
  <2>1. ProgramOK(program) /\ PathsInv
    BY <1>1, FunctionAssumption DEF IInv
  <2>2. program.kind = "scalar" /\ AllTraced /\ Requested
    BY <1>1, <2>1 DEF RequestInv, AllTraced
  <2>3. FirstHolds
    <3>1. CASE Len(program.function) > 1
      BY <1>1, <3>1
    <3>2. CASE ~(Len(program.function) > 1)
      <4>1. Len(program.function) = 1 /\ Functions = {1} /\ DOMAIN program.function = {1}
        <5>1. Len(program.function) \in Nat /\ Len(program.function) # 0
              /\ DOMAIN program.function = 1..Len(program.function)
          BY <2>1 DEF ProgramOK
        <5>2. Len(program.function) = 1
          <6> DEFINE n == Len(program.function)
          <6>1. n \in Nat /\ n # 0 /\ ~(n > 1)
            BY <3>2, <5>1
          <6> HIDE DEF n
          <6>2. n = 1
            BY <6>1
          <6> QED
            BY <6>2 DEF n
        <5> QED
          BY <5>1, <5>2 DEF Functions
      <4>2. ASSUME NEW t \in Range(Products)
            PROVE  Together(t) # {}
        <5>1. OfEach(1, t)
          BY <2>1, <2>2, <4>1, ProductsAre
        <5>2. \A i \in DOMAIN t : i = 1
          <6>1. PICK S : Products \in Seq(Seq(S))
            BY <2>1, <2>2, ProductsAre
          <6>2. t \in Seq(S)
            BY <6>1 DEF Range
          <6> QED
            BY <5>1, <6>2 DEF OfEach
        <5>3. t[1] \in Range(final[1])
          BY <5>1 DEF OfEach
        <5>4. PICK k \in DOMAIN final[1] : t[1] = final[1][k]
          BY <5>3 DEF Range
        <5>5. final[1] \in Seq(Ended(program, 1)) /\ final[1][k] \in Ended(program, 1)
          BY <2>1, <2>2, <4>1, FinalCases
        <5>6. t[1].cond # {} /\ t[1].cond \subseteq Value
          BY <1>1, <2>1, <2>2, <4>1, <5>4, <5>5, SoundFields DEF InhabitedInv, Ended, Value
        <5> QED
          BY <5>2, <5>6 DEF Together
      <4>3. initial_values # <<>> => initial_values \in Range(Products)
        <5> SUFFICES ASSUME initial_values # <<>>
                     PROVE  initial_values \in Range(Products)
          OBVIOUS
        <5> DEFINE B == bases
        <5>1. B # {} /\ initial_values = Products[CHOOSE k \in B : \A j \in B : k <= j]
          BY DEF initial_values
        <5>2. B \subseteq DOMAIN Products
          BY DEF bases
        <5>3. DOMAIN Products \in SUBSET Nat
          BY <2>1, <2>2, ProductsAre
        <5> HIDE DEF B
        <5>4. \E k \in B : \A j \in B : k <= j
          BY <5>1, <5>2, <5>3, LeastElement
        <5>5. (CHOOSE k \in B : \A j \in B : k <= j) \in DOMAIN Products
          BY <5>2, <5>4
        <5> QED
          BY <5>1, <5>5 DEF Range
      <4> QED
        BY <4>2, <4>3 DEF FirstHolds
    <3> QED
      BY <3>1, <3>2
  <2> QED
    BY <1>1, <2>1, <2>2, <2>3, RequestHolds
<1>2. IInv /\ RequestInv /\ Scalar => (Hypotheses => RequestTrue)
  BY <1>1
<1> QED
  BY <1>2, IInvHolds, RequestMade, InhabitedHolds, PTL
=============================================================================
