------------------------- MODULE AcceleratorProofs -------------------------
(***************************************************************************)
(* The jumps of the path accelerator, for all loops, closed forms, counts  *)
(* and answers of the solvers: a path claims what the loop does, its       *)
(* answers replay, and no input is on two paths or lost.                   *)
(***************************************************************************)
EXTENDS Accelerator, InductionLemmas, FiniteSetTheorems

(***************************************************************************)
(* Walks: the values at the header of the loop g while a word is replayed  *)
(* at the point p, after n iterations.                                     *)
(***************************************************************************)
State(g) == [value : g.value, defined : BOOLEAN]
After(g, a, s) ==
  [value |-> g.update[a][s.value],
   defined |-> (s.defined \/ g.resets[a]) /\ s.value \in g.ok[a]]
Enabled(g) == UNION {g.enabled[a] : a \in g.paths}
Goes(g, value, n, p) ==
  IF g.kind = "oracle" THEN n < g.answers[p] ELSE value \in Enabled(g)

Trace(g, word, at) ==
  /\ at \in [0..Len(word) -> State(g)]
  /\ \A i \in 1..Len(word) : at[i] = After(g, word[i], at[i - 1])
Takes(g, p, n, word, at) ==
  \A i \in 1..Len(word) :
    /\ Goes(g, at[i - 1].value, n + (i - 1), p)
    /\ at[i - 1].value \in g.enabled[word[i]] \ g.error
Walk(g, p, n, s, word, t) ==
  \E at : /\ Trace(g, word, at) /\ Takes(g, p, n, word, at)
          /\ at[0] = s /\ at[Len(word)] = t

LEMMA AfterType ==
  ASSUME NEW g, ProgramOK(g), NEW a \in g.paths, NEW s \in State(g)
  PROVE  After(g, a, s) \in State(g)
<1>1. g.update[a][s.value] \in g.value
  BY DEF ProgramOK, State
<1>2. ((s.defined \/ g.resets[a]) /\ s.value \in g.ok[a]) \in BOOLEAN
  OBVIOUS
<1> QED
  BY <1>1, <1>2 DEF After, State

LEMMA WalkType ==
  ASSUME NEW g, NEW p, NEW n, NEW s, NEW word \in Seq(g.paths), NEW t,
         Walk(g, p, n, s, word, t)
  PROVE  s \in State(g) /\ t \in State(g)
<1>1. 0 \in 0..Len(word) /\ Len(word) \in 0..Len(word)
  OBVIOUS
<1> QED
  BY <1>1 DEF Walk, Trace

LEMMA WalkEmpty ==
  ASSUME NEW g, NEW p, NEW n, NEW s \in State(g)
  PROVE  Walk(g, p, n, s, <<>>, s)
<1> DEFINE at == [i \in 0..0 |-> s]
<1>1. at \in [0..0 -> State(g)] /\ at[0] = s
  OBVIOUS
<1>2. Len(<<>>) = 0 /\ \A i \in 1..0 : FALSE
  OBVIOUS
<1> HIDE DEF at
<1> QED
  BY <1>1, <1>2 DEF Walk, Trace, Takes

\* One more iteration.
LEMMA WalkAppend ==
  ASSUME NEW g, ProgramOK(g), NEW p, NEW n \in Nat, NEW s, NEW word \in Seq(g.paths), NEW t,
         Walk(g, p, n, s, word, t), NEW a \in g.paths,
         Goes(g, t.value, n + Len(word), p), t.value \in g.enabled[a] \ g.error
  PROVE  Walk(g, p, n, s, Append(word, a), After(g, a, t))
<1> DEFINE k == Len(word)
           more == Append(word, a)
<1>1. PICK at : /\ Trace(g, word, at) /\ Takes(g, p, n, word, at)
                /\ at[0] = s /\ at[k] = t
  BY DEF Walk
<1>2. k \in Nat /\ Len(more) = k + 1 /\ more[k + 1] = a /\ \A i \in 1..k : more[i] = word[i]
  OBVIOUS
<1> DEFINE to == [i \in 0..(k + 1) |-> IF i <= k THEN at[i] ELSE After(g, a, t)]
<1>3. to[k + 1] = After(g, a, t) /\ \A i \in 0..k : to[i] = at[i]
  BY <1>2
<1>4. After(g, a, t) \in State(g)
  BY WalkType, AfterType
<1>5. to \in [0..(k + 1) -> State(g)]
  BY <1>1, <1>2, <1>4 DEF Trace
<1> HIDE DEF to, more
<1>6. ASSUME NEW i \in 1..(k + 1)
      PROVE  /\ to[i] = After(g, more[i], to[i - 1])
             /\ Goes(g, to[i - 1].value, n + (i - 1), p)
             /\ to[i - 1].value \in g.enabled[more[i]] \ g.error
  <2>1. CASE i \in 1..k
    <3>1. i - 1 \in 0..k /\ i \in 0..k
      BY <1>2, <2>1
    <3>2. to[i] = at[i] /\ to[i - 1] = at[i - 1] /\ more[i] = word[i]
      BY <1>2, <1>3, <2>1, <3>1
    <3> QED
      BY <1>1, <2>1, <3>2 DEF Trace, Takes
  <2>2. CASE i = k + 1
    <3>1. i - 1 = k /\ k \in 0..k
      BY <1>2, <2>2
    <3>2. to[i - 1] = t
      BY <1>1, <1>3, <3>1
    <3> QED
      BY <1>2, <1>3, <2>2, <3>1, <3>2
  <2> QED
    BY <1>2, <2>1, <2>2
<1>7. to[0] = s
  BY <1>1, <1>2, <1>3
<1> HIDE DEF k
<1>8. Trace(g, more, to) /\ Takes(g, p, n, more, to)
  BY <1>2, <1>5, <1>6 DEF Trace, Takes
<1> QED
  BY <1>2, <1>3, <1>7, <1>8 DEF Walk, more

\* One word after the other.
LEMMA WalkJoin ==
  ASSUME NEW g, ProgramOK(g), NEW p, NEW n \in Nat, NEW s, NEW t, NEW u,
         NEW word \in Seq(g.paths), NEW next \in Seq(g.paths),
         Walk(g, p, n, s, word, t), Walk(g, p, n + Len(word), t, next, u)
  PROVE  Walk(g, p, n, s, word \o next, u)
<1> DEFINE k == Len(word)
           l == Len(next)
           both == word \o next
<1>1. PICK at : /\ Trace(g, word, at) /\ Takes(g, p, n, word, at)
                /\ at[0] = s /\ at[k] = t
  BY DEF Walk
<1>2. PICK bt : /\ Trace(g, next, bt) /\ Takes(g, p, n + k, next, bt)
                /\ bt[0] = t /\ bt[l] = u
  BY DEF Walk
<1>3. /\ k \in Nat /\ l \in Nat /\ Len(both) = k + l
      /\ \A i \in 1..k : both[i] = word[i]
      /\ \A i \in 1..l : both[k + i] = next[i]
  OBVIOUS
<1> DEFINE to == [i \in 0..(k + l) |-> IF i <= k THEN at[i] ELSE bt[i - k]]
<1> HIDE DEF k, l, both
<1>4. /\ \A i \in 0..k : to[i] = at[i]
      /\ \A i \in 0..(k + l) : i > k => to[i] = bt[i - k]
  BY <1>3
<1>5. to \in [0..(k + l) -> State(g)]
  <2> SUFFICES ASSUME NEW i \in 0..(k + l)
               PROVE  to[i] \in State(g)
    OBVIOUS
  <2>1. CASE i <= k
    <3>1. i \in 0..k
      BY <1>3, <2>1
    <3> QED
      BY <1>1, <1>4, <3>1 DEF Trace, k
  <2>2. CASE i > k
    <3>1. i - k \in 0..l
      BY <1>3, <2>2
    <3> HIDE DEF to
    <3> QED
      BY <1>2, <1>4, <2>2, <3>1 DEF Trace, l
  <2> QED
    BY <1>3, <2>1, <2>2
<1> HIDE DEF to
<1>6. \A i \in 0..l : to[k + i] = bt[i]
  <2> SUFFICES ASSUME NEW i \in 0..l
               PROVE  to[k + i] = bt[i]
    OBVIOUS
  <2>1. CASE i = 0
    BY <1>1, <1>2, <1>3, <1>4, <2>1
  <2>2. CASE i > 0
    <3>1. k + i \in 0..(k + l) /\ k + i > k /\ (k + i) - k = i
      BY <1>3, <2>2
    <3> QED
      BY <1>4, <3>1
  <2> QED
    BY <2>1, <2>2
<1>7. ASSUME NEW i \in 1..(k + l)
      PROVE  /\ to[i] = After(g, both[i], to[i - 1])
             /\ Goes(g, to[i - 1].value, n + (i - 1), p)
             /\ to[i - 1].value \in g.enabled[both[i]] \ g.error
  <2>1. CASE i \in 1..k
    <3>1. i - 1 \in 0..k /\ i \in 0..k
      BY <1>3, <2>1
    <3>2. to[i] = at[i] /\ to[i - 1] = at[i - 1] /\ both[i] = word[i]
      BY <1>3, <1>4, <2>1, <3>1
    <3> QED
      BY <1>1, <2>1, <3>2 DEF Trace, Takes, k
  <2>2. CASE i > k
    <3> DEFINE j == i - k
    <3>1. j \in 1..l /\ j - 1 \in 0..l /\ j \in 0..l
      BY SMTT(90), <1>3, <2>2
    <3>2. i = k + j /\ i - 1 = k + (j - 1) /\ (n + k) + (j - 1) = n + (i - 1)
      BY <1>3, <2>2
    <3> HIDE DEF j
    <3>3. to[i] = bt[j] /\ to[i - 1] = bt[j - 1] /\ both[i] = next[j]
      BY <1>3, <1>6, <3>1, <3>2
    <3>4. /\ bt[j] = After(g, next[j], bt[j - 1])
          /\ Goes(g, bt[j - 1].value, (n + k) + (j - 1), p)
          /\ bt[j - 1].value \in g.enabled[next[j]] \ g.error
      BY <1>2, <3>1 DEF Trace, Takes, l
    <3> QED
      BY <3>2, <3>3, <3>4
  <2> QED
    BY <1>3, <2>1, <2>2
<1>8. to[0] = s /\ to[k + l] = u
  <2>1. 0 \in 0..k /\ l \in 0..l
    BY <1>3
  <2> QED
    BY <1>1, <1>2, <1>4, <1>6, <2>1
<1>9. Trace(g, both, to) /\ Takes(g, p, n, both, to)
  BY <1>3, <1>5, <1>7 DEF Trace, Takes
<1> QED
  BY <1>3, <1>8, <1>9 DEF Walk, both

\* What every iteration keeps, a walk keeps.
LEMMA WalkKeeps ==
  ASSUME NEW g, NEW p, NEW n, NEW s, NEW word \in Seq(g.paths), NEW t,
         Walk(g, p, n, s, word, t), NEW T, s \in T,
         \A u \in T, a \in g.paths :
           u.value \in g.enabled[a] \ g.error => After(g, a, u) \in T
  PROVE  t \in T
<1>1. PICK at : /\ Trace(g, word, at) /\ Takes(g, p, n, word, at)
                /\ at[0] = s /\ at[Len(word)] = t
  BY DEF Walk
<1> DEFINE k == Len(word)
           S == {i \in 0..k : at[i] \in T}
<1>2. k \in Nat
  OBVIOUS
<1>3. 0 \in S
  BY <1>1, <1>2
<1>4. ASSUME NEW i \in 0..(k - 1), i \in S
      PROVE  i + 1 \in S
  <2>1. i + 1 \in 1..k /\ (i + 1) - 1 = i
    BY <1>2
  <2>2. word[i + 1] \in g.paths
    BY <2>1
  <2>3. /\ at[i + 1] = After(g, word[i + 1], at[i])
        /\ at[i].value \in g.enabled[word[i + 1]] \ g.error
    BY <1>1, <2>1 DEF Trace, Takes
  <2> QED
    BY <1>4, <2>1, <2>2, <2>3
<1>5. k \in S
  <2> HIDE DEF S, k
  <2>1. 0..k \subseteq S
    BY <1>2, <1>3, <1>4, InductionUpTo
  <2> QED
    BY <1>2, <2>1
<1> QED
  BY <1>1, <1>5

\* A walk that brings no poison: the guards of transitions exclude overflows.
Resetting(g) == \A a \in g.paths : g.resets[a]
Safely(g, p, n, s, word, t) ==
  /\ Walk(g, p, n, s, word, t)
  /\ s.defined => t.defined
  /\ Resetting(g) /\ word # <<>> => t.defined

LEMMA SafelyEmpty ==
  ASSUME NEW g, NEW p, NEW n, NEW s \in State(g)
  PROVE  Safely(g, p, n, s, <<>>, s)
BY WalkEmpty DEF Safely

LEMMA SafelyAppend ==
  ASSUME NEW g, ProgramOK(g), NEW p, NEW n \in Nat, NEW s, NEW word \in Seq(g.paths), NEW t,
         Safely(g, p, n, s, word, t), NEW a \in g.paths,
         Goes(g, t.value, n + Len(word), p), t.value \in g.enabled[a] \ g.error,
         t.value \in g.ok[a]
  PROVE  Safely(g, p, n, s, Append(word, a), After(g, a, t))
<1>1. Walk(g, p, n, s, Append(word, a), After(g, a, t))
  BY WalkAppend DEF Safely
<1>2. After(g, a, t).defined = (t.defined \/ g.resets[a])
  BY DEF After
<1> QED
  BY <1>1, <1>2 DEF Safely, Resetting

LEMMA SafelyJoin ==
  ASSUME NEW g, ProgramOK(g), NEW p, NEW n \in Nat, NEW s, NEW t, NEW u,
         NEW word \in Seq(g.paths), NEW next \in Seq(g.paths),
         Safely(g, p, n, s, word, t), Safely(g, p, n + Len(word), t, next, u)
  PROVE  Safely(g, p, n, s, word \o next, u)
<1>1. Walk(g, p, n, s, word \o next, u)
  BY WalkJoin DEF Safely
<1>2. ASSUME word \o next # <<>>, Resetting(g)
      PROVE  u.defined
  <2>1. CASE next # <<>>
    BY <1>2, <2>1 DEF Safely
  <2>2. CASE next = <<>>
    <3>1. word # <<>>
      BY <1>2, <2>2
    <3> QED
      BY <1>2, <3>1 DEF Safely
  <2> QED
    BY <2>1, <2>2
<1> QED
  BY <1>1, <1>2 DEF Safely

(***************************************************************************)
(* Transitions and their composition along a word                          *)
(***************************************************************************)
LEMMA TransitionType ==
  ASSUME ProgramOK(program), NEW a \in program.paths
  PROVE  /\ Transition(a).guard = program.enabled[a] \cap program.ok[a]
         /\ Transition(a).guard \subseteq Value
         /\ Transition(a).update = program.update[a]
         /\ Transition(a).update \in [Value -> Value]
BY DEF ProgramOK, Transition, Value

Map == [guard : SUBSET Value, update : [Value -> Value]]
Then(c, a) ==
  [guard |-> {v \in c.guard : c.update[v] \in Transition(a).guard},
   update |-> [v \in Value |-> Transition(a).update[c.update[v]]]]

LEMMA ThenType ==
  ASSUME ProgramOK(program), NEW c \in Map, NEW a \in program.paths
  PROVE  Then(c, a) \in Map
<1>1. {v \in c.guard : c.update[v] \in Transition(a).guard} \in SUBSET Value
  BY DEF Map
<1>2. [v \in Value |-> Transition(a).update[c.update[v]]] \in [Value -> Value]
  BY TransitionType DEF Map
<1> QED
  BY <1>1, <1>2 DEF Then, Map

\* The maps of the beginnings of a word.
Composites(word, f) ==
  /\ f \in [0..Len(word) -> Map]
  /\ f[0] = [guard |-> Value, update |-> Identity]
  /\ \A i \in 1..Len(word) : f[i] = Then(f[i - 1], word[i])

LEMMA CompositeIs ==
  ASSUME ProgramOK(program), NEW word \in Seq(program.paths)
  PROVE  \E f : Composites(word, f) /\ Composite(word) = f[Len(word)]
<1> DEFINE n == Len(word)
           b == [guard |-> Value, update |-> Identity]
           step == [x \in Map \X (1..n) |-> Then(x[1], word[x[2]])]
           Obeys(g) == g = [i \in 0..n |->
             IF i = 0 THEN b
             ELSE LET c == g[i - 1] next == Transition(word[i])
                  IN  [guard |-> {v \in c.guard : c.update[v] \in next.guard},
                       update |-> [v \in Value |-> next.update[c.update[v]]]]]
           chosen == CHOOSE g : Obeys(g)
<1>1. Composite(word) = chosen[n]
  BY DEF Composite
<1>2. n \in Nat /\ \A i \in 1..n : word[i] \in program.paths
  OBVIOUS
<1>3. b \in Map
  BY DEF Map, Identity
<1>4. \A x \in Map, i \in 1..n : step[<<x, i>>] = Then(x, word[i])
  OBVIOUS
<1> HIDE DEF n, b, step
<1>5. Steps(Map, n, step)
  BY <1>2, <1>4, ThenType DEF Steps
<1>6. PICK f : Recursive(Map, b, n, step, f)
  BY <1>2, <1>3, <1>5, Recursion
<1>7. /\ f \in [0..n -> Map] /\ f[0] = b
      /\ \A i \in 1..n : f[i - 1] \in Map /\ f[i] = Then(f[i - 1], word[i])
  <2>1. \A i \in 1..n : i - 1 \in 0..n
    BY <1>2
  <2> QED
    BY <1>4, <1>6, <2>1 DEF Recursive
<1>8. Obeys(f)
  <2>1. f = [i \in 0..n |-> f[i]]
    BY <1>7
  <2>2. \A i \in 0..n : i # 0 => i \in 1..n
    BY <1>2
  <2>3. \A i \in 0..n : f[i] = IF i = 0 THEN b ELSE Then(f[i - 1], word[i])
    BY <1>7, <2>2
  <2> QED
    BY <2>1, <2>3 DEF Then
<1>9. Obeys(chosen)
  <2> HIDE DEF Obeys
  <2> QED
    BY <1>8, Zenon
<1> HIDE DEF chosen
<1>10. chosen[0] = b /\ \A i \in 1..n : chosen[i] = Then(chosen[i - 1], word[i])
  <2>1. 0 \in 0..n /\ \A i \in 1..n : i \in 0..n /\ i # 0
    BY <1>2
  <2>2. \A i \in 0..n : chosen[i] = IF i = 0 THEN b ELSE Then(chosen[i - 1], word[i])
    BY <1>9 DEF Then
  <2> QED
    BY <2>1, <2>2
<1>11. \A i \in 1..n : chosen[i - 1] \in Map => chosen[i] = step[<<chosen[i - 1], i>>]
  BY <1>4, <1>10
<1>12. \A i \in 0..n : chosen[i] = f[i]
  BY <1>2, <1>3, <1>6, <1>10, <1>11, RecursionUnique
<1>13. chosen[n] = f[n]
  BY <1>2, <1>12
<1> QED
  BY <1>1, <1>7, <1>13 DEF Composites, n, b

\* Where a word may be taken from the value v at the point p after n iterations.
Free(p, n, word, v) ==
  \/ program.kind = "plain"
  \/ /\ Len(word) = 1 /\ v \notin program.error
     /\ program.kind = "oracle" => n < program.answers[p]
At(v, d) == [value |-> v, defined |-> d]

\* A composite map does what the word does.
LEMMA CompositeWalks ==
  ASSUME ProgramOK(program), NEW p, NEW n \in Nat, NEW word \in Seq(program.paths),
         NEW v \in Composite(word).guard, NEW d \in BOOLEAN, Free(p, n, word, v)
  PROVE  \E e \in BOOLEAN :
           Safely(program, p, n, At(v, d), word, At(Composite(word).update[v], e))
<1>1. PICK f : Composites(word, f) /\ Composite(word) = f[Len(word)]
  BY CompositeIs
<1> DEFINE k == Len(word)
           Good(i) == v \in f[i].guard =>
                        \E e \in BOOLEAN :
                          Safely(program, p, n, At(v, d), SubSeq(word, 1, i),
                                 At(f[i].update[v], e))
           S == {i \in 0..k : Good(i)}
<1>2. k \in Nat /\ f \in [0..k -> Map] /\ \A i \in 1..k : word[i] \in program.paths
  BY <1>1 DEF Composites
<1>3. v \in Value
  <2>1. f[k] \in Map
    BY <1>2
  <2> QED
    BY <1>1, <2>1 DEF Map
<1>4. Good(0)
  <2>1. f[0].update[v] = v
    BY <1>1, <1>3 DEF Composites, Identity
  <2>2. At(v, d) \in State(program)
    BY <1>3 DEF At, State, Value
  <2>3. SubSeq(word, 1, 0) = <<>>
    OBVIOUS
  <2>4. Safely(program, p, n, At(v, d), <<>>, At(v, d))
    BY <2>2, SafelyEmpty
  <2> QED
    BY <2>1, <2>3, <2>4
<1>5. ASSUME NEW i \in 0..(k - 1), Good(i)
      PROVE  Good(i + 1)
  <2> SUFFICES ASSUME v \in f[i + 1].guard
               PROVE  \E e \in BOOLEAN :
                        Safely(program, p, n, At(v, d), SubSeq(word, 1, i + 1),
                               At(f[i + 1].update[v], e))
    OBVIOUS
  <2> DEFINE a == word[i + 1]
             u == f[i].update[v]
             w == SubSeq(word, 1, i)
  <2>1. i + 1 \in 1..k /\ (i + 1) - 1 = i /\ i \in 0..k /\ a \in program.paths
    BY <1>2
  <2>2. f[i + 1] = Then(f[i], a)
    BY <1>1, <2>1 DEF Composites
  <2>3. v \in f[i].guard /\ u \in Transition(a).guard /\ f[i + 1].update[v] = Transition(a).update[u]
    BY <1>3, <2>2 DEF Then
  <2>4. u \in program.enabled[a] /\ u \in program.ok[a] /\ Transition(a).update = program.update[a]
    BY <2>1, <2>3, TransitionType
  <2>5. PICK e \in BOOLEAN : Safely(program, p, n, At(v, d), w, At(u, e))
    BY <1>5, <2>3
  <2>6. w \in Seq(program.paths) /\ Len(w) = i /\ SubSeq(word, 1, i + 1) = Append(w, a)
    <3>1. i \in 0..(Len(word) - 1)
      OBVIOUS
    <3> QED
      BY <3>1, Beginnings
  <2>7. u \notin program.error /\ Goes(program, u, n + i, p)
    <3>1. u \in Enabled(program)
      BY <2>1, <2>4 DEF Enabled
    <3>2. CASE program.kind = "plain"
      BY <3>1, <3>2 DEF ProgramOK, Goes
    <3>3. CASE program.kind # "plain"
      <4>1. Len(word) = 1 /\ v \notin program.error
            /\ (program.kind = "oracle" => n < program.answers[p])
        BY <3>3 DEF Free
      <4>2. i = 0
        BY <4>1
      <4>3. u = v
        BY <1>1, <1>3, <4>2 DEF Composites, Identity
      <4> QED
        BY <3>1, <4>1, <4>2, <4>3 DEF Goes
    <3> QED
      BY <3>2, <3>3
  <2> HIDE DEF a, u, w
  <2>8. At(u, e).value = u
    BY DEF At
  <2>9. Safely(program, p, n, At(v, d), Append(w, a), After(program, a, At(u, e)))
    BY <2>1, <2>4, <2>5, <2>6, <2>7, <2>8, SafelyAppend
  <2>10. \E x \in BOOLEAN : After(program, a, At(u, e)) = At(f[i + 1].update[v], x)
    BY <2>3, <2>4, <2>8 DEF After, At
  <2> QED
    BY <2>6, <2>9, <2>10
<1>6. k \in S
  <2>1. 0 \in S
    BY <1>2, <1>4
  <2>2. \A i \in 0..(k - 1) : i \in S => i + 1 \in S
    BY <1>2, <1>5
  <2> HIDE DEF S, k
  <2>3. 0..k \subseteq S
    BY <1>2, <2>1, <2>2, InductionUpTo
  <2> QED
    BY <1>2, <2>3
<1>7. SubSeq(word, 1, k) = word
  OBVIOUS
<1> QED
  BY <1>1, <1>6, <1>7

(***************************************************************************)
(* Certified closed forms                                                  *)
(***************************************************************************)
LEMMA HorizonType ==
  ASSUME ProgramOK(program)
  PROVE  Horizon \in Nat \ {0} /\ Cardinality(Value) \in Nat /\ Horizon = Cardinality(Value) + 1
BY FS_CardinalityType DEF Horizon, ProgramOK, Value

LEMMA CompositeType ==
  ASSUME ProgramOK(program), NEW word \in Seq(program.paths)
  PROVE  Composite(word) \in Map
<1>1. PICK f : Composites(word, f) /\ Composite(word) = f[Len(word)]
  BY CompositeIs
<1>2. Len(word) \in 0..Len(word)
  OBVIOUS
<1> QED
  BY <1>1, <1>2 DEF Composites

LEMMA ClosedType ==
  ASSUME ProgramOK(program), NEW f \in [Value -> Value], NEW closed,
         certify_closed_forms(closed, f)
  PROVE  /\ \A t \in 0..(Horizon + 1) : closed[t] \in [Value -> Value]
         /\ \A v \in Value : closed[0][v] = v
         /\ \A t \in 0..Horizon, v \in Value : closed[t + 1][v] = f[closed[t][v]]
<1>1. Horizon \in Nat
  BY HorizonType
<1>2. closed[0] = [v \in Value |-> v]
  BY DEF certify_closed_forms, Identity
<1>3. \A t \in 0..Horizon : closed[t + 1] = [v \in Value |-> f[closed[t][v]]]
  BY DEF certify_closed_forms
<1> DEFINE S == {t \in 0..(Horizon + 1) : closed[t] \in [Value -> Value]}
<1>4. 0 \in S
  BY <1>1, <1>2
<1>5. ASSUME NEW t \in 0..((Horizon + 1) - 1), t \in S
      PROVE  t + 1 \in S
  <2>1. t \in 0..Horizon /\ t + 1 \in 0..(Horizon + 1)
    BY <1>1
  <2>2. closed[t + 1] = [v \in Value |-> f[closed[t][v]]]
    BY <1>3, <2>1
  <2>3. closed[t] \in [Value -> Value]
    BY <1>5
  <2>4. closed[t + 1] \in [Value -> Value]
    BY <2>2, <2>3
  <2> QED
    BY <2>1, <2>4
<1>6. 0..(Horizon + 1) \subseteq S
  <2>1. Horizon + 1 \in Nat
    BY <1>1
  <2> HIDE DEF S
  <2> QED
    BY <1>4, <1>5, <2>1, InductionUpTo
<1>7. ASSUME NEW t \in 0..Horizon, NEW v \in Value
      PROVE  closed[t + 1][v] = f[closed[t][v]]
  <2>1. closed[t + 1] = [x \in Value |-> f[closed[t][x]]]
    BY <1>3
  <2> QED
    BY <2>1
<1>8. \A v \in Value : closed[0][v] = v
  BY <1>2
<1>9. \A t \in 0..(Horizon + 1) : closed[t] \in [Value -> Value]
  BY <1>6
<1> QED
  BY <1>7, <1>8, <1>9

(***************************************************************************)
(* Powers of words                                                         *)
(***************************************************************************)
LEMMA PowerEmpty ==
  ASSUME NEW word
  PROVE  Power(word, 0) = <<>>
BY CopiesEmpty DEF Power, Copies

LEMMA PowerNext ==
  ASSUME NEW A, NEW word \in Seq(A), NEW k \in Nat
  PROVE  /\ Power(word, k) \in Seq(A)
         /\ Power(word, k + 1) = Power(word, k) \o word
BY CopiesNext DEF Power, Copies

LEMMA PowerOne ==
  ASSUME NEW A, NEW word \in Seq(A)
  PROVE  Power(word, 1) = word
BY CopiesOne DEF Power, Copies

\* How often a word may be taken: it is a single path where its values could
\* violate an assertion or the oracle ends the loop.
Repeats(p, n, word, closed, v, k) ==
  /\ \A t \in 0..(k - 1) : closed[t][v] \in Composite(word).guard
  /\ \/ program.kind = "plain"
     \/ /\ Len(word) = 1
        /\ \A t \in 0..(k - 1) : closed[t][v] \notin program.error
        /\ program.kind = "oracle" => n + k <= program.answers[p]

\* A certified closed form does what the powers of the word do.
JumpsTo(p, n, word, closed, v, k) ==
  /\ Power(word, k) \in Seq(program.paths)
  /\ closed[k][v] \in Value
  /\ Len(word) = 1 => Len(Power(word, k)) = k
  /\ k # 0 /\ word # <<>> => Power(word, k) # <<>>
  /\ \A d \in BOOLEAN : \E e \in BOOLEAN :
       Safely(program, p, n, At(v, d), Power(word, k), At(closed[k][v], e))

LEMMA PowerWalks ==
  ASSUME ProgramOK(program), NEW p \in Point, NEW n \in Nat, NEW word \in Seq(program.paths),
         NEW closed, certify_closed_forms(closed, Composite(word).update),
         NEW v \in Value, NEW k \in 0..Horizon,
         Repeats(p, n, word, closed, v, k)
  PROVE  JumpsTo(p, n, word, closed, v, k)
<1> SUFFICES ASSUME NEW d \in BOOLEAN
             PROVE  /\ Power(word, k) \in Seq(program.paths)
                    /\ closed[k][v] \in Value
                    /\ Len(word) = 1 => Len(Power(word, k)) = k
                    /\ k # 0 /\ word # <<>> => Power(word, k) # <<>>
                    /\ \E e \in BOOLEAN :
                         Safely(program, p, n, At(v, d), Power(word, k), At(closed[k][v], e))
  BY DEF JumpsTo
<1> DEFINE f == Composite(word).update
           Good(t) ==
             /\ Power(word, t) \in Seq(program.paths)
             /\ Len(word) = 1 => Len(Power(word, t)) = t
             /\ t # 0 /\ word # <<>> => Power(word, t) # <<>>
             /\ \E e \in BOOLEAN :
                  Safely(program, p, n, At(v, d), Power(word, t), At(closed[t][v], e))
           S == {t \in 0..k : Good(t)}
<1>1. Horizon \in Nat /\ k \in Nat
  BY HorizonType
<1>2. f \in [Value -> Value]
  BY CompositeType DEF Map
<1>3. /\ \A t \in 0..(Horizon + 1) : closed[t] \in [Value -> Value]
      /\ closed[0][v] = v
      /\ \A t \in 0..Horizon : closed[t + 1][v] = f[closed[t][v]]
  <2> HIDE DEF f
  <2> QED
    BY <1>2, ClosedType DEF f
<1>4. Good(0)
  <2>1. Power(word, 0) = <<>>
    BY PowerEmpty
  <2>2. At(v, d) \in State(program)
    BY DEF At, State, Value
  <2>3. Safely(program, p, n, At(v, d), <<>>, At(v, d))
    BY <2>2, SafelyEmpty
  <2>4. <<>> \in Seq(program.paths) /\ Len(<<>>) = 0
    OBVIOUS
  <2> QED
    BY <1>3, <2>1, <2>3, <2>4
<1>5. ASSUME NEW t \in 0..(k - 1), Good(t)
      PROVE  Good(t + 1)
  <2> DEFINE w == Power(word, t)
             u == closed[t][v]
  <2>1. t \in Nat /\ t \in 0..Horizon /\ t \in 0..(k - 1)
    BY <1>1
  <2>2. w \in Seq(program.paths) /\ Power(word, t + 1) = w \o word
    BY <2>1, PowerNext
  <2>3. PICK e \in BOOLEAN : Safely(program, p, n, At(v, d), w, At(u, e))
    BY <1>5
  <2>4. u \in Composite(word).guard /\ closed[t + 1][v] = f[u]
    BY <1>3, <2>1 DEF Repeats
  <2>5. n + Len(w) \in Nat
    BY <2>2
  <2>6. Free(p, n + Len(w), word, u)
    <3>1. CASE program.kind = "plain"
      BY <3>1 DEF Free
    <3>2. CASE program.kind # "plain"
      <4>1. Len(word) = 1 /\ u \notin program.error
            /\ (program.kind = "oracle" => n + k <= program.answers[p])
        BY <2>1, <3>2 DEF Repeats
      <4>2. Len(w) = t
        BY <1>5, <4>1
      <4>3. program.kind = "oracle" => n + t < program.answers[p]
        <5>1. program.answers[p] \in Int
          BY DEF ProgramOK, Point
        <5> QED
          BY <1>1, <2>1, <4>1, <5>1
      <4> QED
        BY <4>1, <4>2, <4>3 DEF Free
    <3> QED
      BY <3>1, <3>2
  <2> HIDE DEF w, u
  <2>7. PICK x \in BOOLEAN :
               Safely(program, p, n + Len(w), At(u, e), word, At(f[u], x))
    BY <2>4, <2>5, <2>6, CompositeWalks
  <2>8. Safely(program, p, n, At(v, d), w \o word, At(f[u], x))
    BY <2>2, <2>3, <2>7, SafelyJoin
  <2>9. Len(word) = 1 => Len(w \o word) = t + 1
    <3>1. Len(w \o word) = Len(w) + Len(word)
      BY <2>2
    <3>2. Len(word) = 1 => Len(w) = t
      BY <1>5 DEF w
    <3> QED
      BY <2>1, <3>1, <3>2
  <2>10. w \o word \in Seq(program.paths) /\ (word # <<>> => w \o word # <<>>)
    BY <2>2
  <2> QED
    BY <2>2, <2>4, <2>8, <2>9, <2>10
<1>6. k \in S
  <2>1. 0 \in S
    BY <1>1, <1>4
  <2>2. \A t \in 0..(k - 1) : t \in S => t + 1 \in S
    BY <1>1, <1>5
  <2> HIDE DEF S
  <2>3. 0..k \subseteq S
    BY <1>1, <2>1, <2>2, InductionUpTo
  <2> QED
    BY <1>1, <2>3
<1>7. closed[k][v] \in Value
  <2>1. k \in 0..(Horizon + 1)
    BY <1>1
  <2> QED
    BY <1>3, <2>1
<1> QED
  BY <1>6, <1>7

(***************************************************************************)
(* The word of a path                                                      *)
(***************************************************************************)
\* An explicit segment is taken once.
Segment(g) ==
  {s \in [power : BOOLEAN, word : Seq(g.paths), exponent : [g.point -> Nat]] :
     ~s.power => \A p \in g.point : s.exponent[p] = 1}

Powers(prefix, p) == [i \in DOMAIN prefix |-> Power(prefix[i].word, prefix[i].exponent[p])]
Flat(prefix, p) == FlattenSeq(Powers(prefix, p))

LEMMA WordIs ==
  ASSUME NEW path, NEW p
  PROVE  Word(path, p) = Flat(path.prefix, p)
BY DEF Word, Flat, Powers

LEMMA PowersType ==
  ASSUME NEW g, NEW prefix \in Seq(Segment(g)), NEW p \in g.point
  PROVE  /\ Powers(prefix, p) \in Seq(Seq(g.paths))
         /\ Len(Powers(prefix, p)) = Len(prefix)
<1>1. \A i \in 1..Len(prefix) : Power(prefix[i].word, prefix[i].exponent[p]) \in Seq(g.paths)
  <2> SUFFICES ASSUME NEW i \in 1..Len(prefix)
               PROVE  Power(prefix[i].word, prefix[i].exponent[p]) \in Seq(g.paths)
    OBVIOUS
  <2>1. prefix[i].word \in Seq(g.paths) /\ prefix[i].exponent[p] \in Nat
    BY DEF Segment
  <2> QED
    BY <2>1, PowerNext
<1>2. DOMAIN prefix = 1..Len(prefix) /\ Len(prefix) \in Nat
  OBVIOUS
<1>3. Powers(prefix, p) \in [1..Len(prefix) -> Seq(g.paths)]
  BY <1>1, <1>2 DEF Powers
<1> QED
  BY <1>2, <1>3

LEMMA FlatType ==
  ASSUME NEW g, NEW prefix \in Seq(Segment(g)), NEW p \in g.point
  PROVE  Flat(prefix, p) \in Seq(g.paths)
BY PowersType, FlattenType DEF Flat

LEMMA FlatEmpty ==
  ASSUME NEW p
  PROVE  Flat(<<>>, p) = <<>>
<1>1. Powers(<<>>, p) = <<>>
  BY DEF Powers
<1> QED
  BY <1>1, FlattenEmpty DEF Flat

LEMMA FlatAppend ==
  ASSUME NEW g, NEW prefix \in Seq(Segment(g)), NEW s \in Segment(g), NEW p \in g.point
  PROVE  Flat(Append(prefix, s), p) = Flat(prefix, p) \o Power(s.word, s.exponent[p])
<1> DEFINE more == Append(prefix, s)
<1>1. more \in Seq(Segment(g)) /\ Len(more) = Len(prefix) + 1
      /\ more[Len(prefix) + 1] = s /\ \A i \in 1..Len(prefix) : more[i] = prefix[i]
  OBVIOUS
<1>2. Power(s.word, s.exponent[p]) \in Seq(g.paths)
  <2>1. s.word \in Seq(g.paths) /\ s.exponent[p] \in Nat
    BY DEF Segment
  <2> QED
    BY <2>1, PowerNext
<1> HIDE DEF more
<1>3. Powers(more, p) = Append(Powers(prefix, p), Power(s.word, s.exponent[p]))
  <2>1. Powers(prefix, p) \in Seq(Seq(g.paths)) /\ Len(Powers(prefix, p)) = Len(prefix)
    BY PowersType
  <2>2. Powers(more, p) \in Seq(Seq(g.paths)) /\ Len(Powers(more, p)) = Len(prefix) + 1
    BY <1>1, PowersType
  <2>3. \A i \in 1..Len(prefix) : Powers(more, p)[i] = Powers(prefix, p)[i]
    BY <1>1 DEF Powers
  <2>4. Powers(more, p)[Len(prefix) + 1] = Power(s.word, s.exponent[p])
    BY <1>1 DEF Powers
  <2> QED
    BY <1>2, <2>1, <2>2, <2>3, <2>4
<1>4. Powers(prefix, p) \in Seq(Seq(g.paths))
  BY PowersType
<1> QED
  BY <1>2, <1>3, <1>4, FlattenAppend DEF Flat, more

(***************************************************************************)
(* The inductive invariant                                                 *)
(***************************************************************************)
Ats == {"entry", "body", "backedge", "exit", "error"}
PathType(g) ==
  [at : Ats, cond : SUBSET g.point, value : [g.point -> g.value], defined : SUBSET g.point,
   from : [g.point -> g.value], clean : SUBSET g.point, entries : Nat,
   prefix : Seq(Segment(g)), candidates : SUBSET (Seq(g.paths) \ {<<>>}),
   calls : [g.point -> Seq(BOOLEAN)]]

\* A path enters the loop with what it claims of this entry.
Entering(g, path) ==
  /\ path.at = "entry" =>
       path.prefix = <<>> /\ path.value = path.from /\ path.defined \subseteq path.clean
  /\ path.entries > 0 => g.kind = "family"

\* Updates that cannot overflow, or overflow only where a later one forgets it.
NeverOverflows(g) == \A a \in g.paths : g.enabled[a] \subseteq g.ok[a]
Forgiving(g) == g.kind = "plain" => Resetting(g) \/ NeverOverflows(g)

\* The word leads from the values on entry to those of the path, which has left
\* the loop where the loop ends.
Start(path, p) == At(path.from[p], p \in path.clean)
Follows(g, path, p) ==
  LET word == Flat(path.prefix, p)
  IN  \E d \in BOOLEAN :
        /\ Walk(g, p, 0, Start(path, p), word, At(path.value[p], d))
        /\ Forgiving(g) /\ p \in path.defined => d
        /\ g.kind = "plain" /\ NeverOverflows(g) => d
Leaves(g, path, p) ==
  /\ path.at = "error" => path.value[p] \in g.error
  /\ path.at = "exit" =>
       /\ path.value[p] \notin g.error
       /\ ~Goes(g, path.value[p], Len(Flat(path.prefix, p)), p)
Answered(g, path, p) ==
  g.kind = "oracle" =>
    path.calls[p] =
      IF path.at = "exit" THEN [i \in 1..(g.answers[p] + 1) |-> i <= g.answers[p]]
      ELSE [i \in 1..Len(Flat(path.prefix, p)) |-> TRUE]

PathOK(g, path) ==
  /\ path \in PathType(g)
  /\ Entering(g, path)
  /\ \A p \in path.cond : Follows(g, path, p) /\ Leaves(g, path, p) /\ Answered(g, path, p)

\* The summary is right on its domain.
SummaryOK(g, s) ==
  s # NoSummary =>
    /\ g.kind = "family"
    /\ \A v \in g.value : s.closed[0][v] \in g.value
    /\ \E a \in g.paths :
         /\ s.word = <<a>>
         /\ \A v \in s.domain, d \in BOOLEAN, p \in g.point :
              LET k == s.count[v]
              IN  /\ k \in Nat /\ v \in g.value /\ s.closed[k][v] \in g.value
                  /\ s.closed[k][v] \notin g.error /\ s.closed[k][v] \notin Enabled(g)
                  /\ \E e \in BOOLEAN :
                       Safely(g, p, 0, At(v, d), Power(s.word, k), At(s.closed[k][v], e))

Sound(g) == {path \in PathType(g) : PathOK(g, path)}
Inv ==
  /\ program \in Programs
  /\ worklist \in Seq(Sound(program))
  /\ finished \subseteq Sound(program)
  /\ \A path \in finished : path.at \in {"exit", "error"}
  /\ SummaryOK(program, summary)

\* What Replay computes is the walk.
LEMMA ReplayIs ==
  ASSUME ProgramOK(program), NEW path, path \in PathType(program), NEW p \in Point, NEW t,
         Walk(program, p, 0, Start(path, p), Word(path, p), t)
  PROVE  \E at : /\ Trace(program, Word(path, p), at)
                 /\ Takes(program, p, 0, Word(path, p), at)
                 /\ at[Len(Word(path, p))] = t
                 /\ \A i \in 0..Len(Word(path, p)) : Replay(path, p)[i] = at[i]
<1> DEFINE word == Word(path, p)
           n == Len(word)
           s == Start(path, p)
<1>1. PICK at : /\ Trace(program, word, at) /\ Takes(program, p, 0, word, at)
                /\ at[0] = s /\ at[n] = t
  BY DEF Walk
<1> DEFINE Obeys(h) == h = [i \in 0..n |->
             IF i = 0 THEN [value |-> path.from[p], defined |-> p \in path.clean]
             ELSE LET a == word[i]
                      before == h[i - 1]
                  IN  [value |-> program.update[a][before.value],
                       defined |-> /\ before.defined \/ program.resets[a]
                                   /\ before.value \in program.ok[a]]]
           chosen == CHOOSE h : Obeys(h)
<1>2. Replay(path, p) = chosen
  BY DEF Replay
<1>3. word \in Seq(program.paths) /\ n \in Nat
  <2>1. word \in Seq(program.paths)
    BY WordIs, FlatType DEF PathType, Point
  <2> QED
    BY <2>1
<1>4. Obeys(at)
  <2>1. at = [i \in 0..n |-> at[i]]
    BY <1>1 DEF Trace
  <2>2. \A i \in 0..n : i # 0 => i \in 1..n
    BY <1>3
  <2>3. at[0] = [value |-> path.from[p], defined |-> p \in path.clean]
    BY <1>1 DEF At, Start
  <2>4. \A i \in 1..n : at[i] = After(program, word[i], at[i - 1])
    BY <1>1 DEF Trace
  <2>5. \A i \in 0..n : at[i] =
          IF i = 0 THEN [value |-> path.from[p], defined |-> p \in path.clean]
          ELSE After(program, word[i], at[i - 1])
    BY <2>2, <2>3, <2>4
  <2> HIDE DEF n, word
  <2> QED
    BY <2>1, <2>5 DEF After
<1>5. Obeys(chosen)
  <2> HIDE DEF Obeys
  <2> QED
    BY <1>4, Zenon
<1> HIDE DEF chosen
<1>6. \A i \in 0..n : chosen[i] =
        IF i = 0 THEN s ELSE After(program, word[i], chosen[i - 1])
  <2> HIDE DEF n, word
  <2> QED
    BY <1>5 DEF After, At, Start
<1> HIDE DEF Obeys, word, n
<1> DEFINE S == {i \in 0..n : chosen[i] = at[i]}
<1>7. 0 \in S
  <2>1. 0 \in 0..n
    BY <1>3
  <2> QED
    BY <1>1, <1>6, <2>1
<1>8. ASSUME NEW i \in 0..(n - 1), i \in S
      PROVE  i + 1 \in S
  <2>1. i + 1 \in 1..n /\ i + 1 \in 0..n /\ (i + 1) - 1 = i /\ i + 1 # 0
    BY <1>3
  <2>2. chosen[i + 1] = After(program, word[i + 1], chosen[i])
    BY <1>6, <2>1
  <2>3. at[i + 1] = After(program, word[i + 1], at[i])
    BY <1>1, <2>1 DEF Trace, n
  <2> QED
    BY <1>8, <2>1, <2>2, <2>3
<1>9. 0..n \subseteq S
  <2> HIDE DEF S
  <2> QED
    BY <1>3, <1>7, <1>8, InductionUpTo
<1>10. \A i \in 0..n : chosen[i] = at[i]
  BY <1>9
<1> QED
  BY <1>1, <1>2, <1>10 DEF n, word

\* The properties, path by path.
LEMMA FollowsIsExact ==
  ASSUME ProgramOK(program), NEW path, PathOK(program, path), NEW p \in path.cond
  PROVE  LET word == Word(path, p)
             at == Replay(path, p)
             end == at[Len(word)]
         IN  /\ \A i \in 1..Len(word) :
                  /\ Continues(at[i - 1].value, i - 1, p)
                  /\ at[i - 1].value \in program.enabled[word[i]] \ program.error
             /\ path.value[p] = end.value
             /\ path.at = "error" => end.value \in program.error
             /\ path.at = "exit" => /\ end.value \notin program.error
                                    /\ ~Continues(end.value, Len(word), p)
             /\ Forgiving(program) /\ p \in path.defined => end.defined
<1> DEFINE word == Word(path, p)
<1>1. path \in PathType(program) /\ p \in Point
  BY DEF PathOK, PathType, Point
<1>2. word = Flat(path.prefix, p)
  BY WordIs
<1>3. PICK d \in BOOLEAN :
             /\ Walk(program, p, 0, Start(path, p), word, At(path.value[p], d))
             /\ Forgiving(program) /\ p \in path.defined => d
  BY <1>2 DEF PathOK, Follows
<1>4. PICK at : /\ Takes(program, p, 0, word, at)
                /\ at[Len(word)] = At(path.value[p], d)
                /\ \A i \in 0..Len(word) : Replay(path, p)[i] = at[i]
  BY <1>1, <1>3, ReplayIs
<1>5. Len(word) \in Nat
  <2>1. word \in Seq(program.paths)
    BY <1>1, <1>2, FlatType DEF PathType, Point
  <2> QED
    BY <2>1
<1> HIDE DEF word
<1>6. \A value, i : Continues(value, i, p) <=> Goes(program, value, i, p)
  BY DEF Continues, Goes, Enabled
<1>7. ASSUME NEW i \in 1..Len(word)
      PROVE  /\ Continues(Replay(path, p)[i - 1].value, i - 1, p)
             /\ Replay(path, p)[i - 1].value \in program.enabled[word[i]] \ program.error
  <2>1. i - 1 \in 0..Len(word) /\ 0 + (i - 1) = i - 1
    BY <1>5
  <2> QED
    BY <1>4, <1>6, <2>1 DEF Takes
<1>8. Replay(path, p)[Len(word)] = At(path.value[p], d)
  <2>1. Len(word) \in 0..Len(word)
    BY <1>5
  <2> QED
    BY <1>4, <2>1
<1>9. At(path.value[p], d).value = path.value[p] /\ At(path.value[p], d).defined = d
  BY DEF At
<1>10. Leaves(program, path, p)
  BY DEF PathOK
<1> QED
  BY <1>2, <1>3, <1>6, <1>7, <1>8, <1>9, <1>10 DEF Leaves, word

LEMMA OracleAnswers ==
  ASSUME ProgramOK(program), NEW path, PathOK(program, path), NEW p \in path.cond,
         program.kind = "oracle", path.at \in {"exit", "error"}
  PROVE  path.calls[p] = [i \in 1..(program.answers[p] + 1) |-> i <= program.answers[p]]
<1>1. Leaves(program, path, p) /\ Answered(program, path, p)
  <2>1. p \in path.cond /\ PathOK(program, path)
    OBVIOUS
  <2> QED
    BY <2>1 DEF PathOK
<1>2. program.error = {}
  BY DEF ProgramOK
<1>3. path.at = "exit"
  BY <1>1, <1>2 DEF Leaves
<1> QED
  BY <1>1, <1>3 DEF Answered

(***************************************************************************)
(* Feasible paths                                                          *)
(***************************************************************************)
\* They are in the sequence, each once.
LEMMA FeasibleIs ==
  ASSUME NEW paths, IsFiniteSet(paths)
  PROVE  LET feasible == Feasible(paths)
         IN  /\ feasible \in Seq(paths)
             /\ \A i \in 1..Len(feasible) : feasible[i] \in paths /\ feasible[i].cond # {}
             /\ \A i, j \in 1..Len(feasible) : feasible[i] = feasible[j] => i = j
             /\ \A path \in paths : path.cond # {} =>
                  \E i \in 1..Len(feasible) : feasible[i] = path
<1> DEFINE S == {path \in paths : path.cond # {}}
           n == Cardinality(S)
           f == Feasible(paths)
<1>1. IsFiniteSet(S)
  BY FS_Subset
<1>2. n \in Nat /\ ExistsBijection(1..n, S)
  BY <1>1, FS_CardinalityType
<1>3. f = CHOOSE g \in [1..n -> S] : IsInjective(g)
  BY DEF Feasible, SetToSeq
<1> HIDE DEF S, n, f
<1>4. \E g \in [1..n -> S] : IsInjective(g)
  BY <1>2 DEF ExistsBijection, Bijection, Injection
<1>5. f \in [1..n -> S] /\ IsInjective(f)
  BY <1>3, <1>4
<1>6. f \in Injection(1..n, S)
  BY <1>5 DEF Injection
<1>7. Cardinality(1..n) = n
  BY <1>2, FS_Interval
<1>8. f \in Surjection(1..n, S)
  BY <1>1, <1>6, <1>7, FS_Injection DEF n
<1>9. Len(f) = n /\ f \in Seq(S)
  BY <1>2, <1>5
<1>10. f \in Seq(paths)
  BY <1>2, <1>5 DEF S
<1>11. \A i \in 1..n : f[i] \in paths /\ f[i].cond # {}
  BY <1>5 DEF S
<1>12. \A i, j \in 1..n : f[i] = f[j] => i = j
  BY <1>5 DEF IsInjective
<1>13. \A path \in paths : path.cond # {} => \E i \in 1..n : f[i] = path
  BY <1>8 DEF Surjection, S
<1> QED
  BY <1>9, <1>10, <1>11, <1>12, <1>13 DEF f

(***************************************************************************)
(* Steps of a path                                                         *)
(***************************************************************************)
LEMMA PathFields ==
  ASSUME NEW path, path \in PathType(program)
  PROVE  /\ DOMAIN path = {"at", "cond", "value", "defined", "from", "clean", "entries",
                           "prefix", "candidates", "calls"}
         /\ path.at \in Ats /\ path.cond \subseteq Point /\ path.defined \subseteq Point
         /\ path.clean \subseteq Point
         /\ path.value \in [Point -> Value] /\ path.from \in [Point -> Value]
         /\ path.entries \in Nat /\ path.prefix \in Seq(Segment(program))
         /\ path.candidates \subseteq Seq(program.paths) \ {<<>>}
         /\ path.calls \in [Point -> Seq(BOOLEAN)]
BY DEF PathType, Point, Value

\* Fewer inputs, or the step over the PHIs.
LEMMA Narrower ==
  ASSUME NEW path, PathOK(program, path), NEW new, new \in PathType(program),
         new.cond \subseteq path.cond, new.defined \subseteq path.defined,
         new.from = path.from, new.clean = path.clean, new.prefix = path.prefix,
         new.value = path.value, new.calls = path.calls, new.entries = path.entries,
         \/ new.at = path.at
         \/ path.at \in {"entry", "backedge"} /\ new.at = "body"
  PROVE  PathOK(program, new)
<1>1. Entering(program, new)
  BY DEF PathOK, Entering
<1>2. ASSUME NEW p \in new.cond
      PROVE  Follows(program, new, p) /\ Leaves(program, new, p) /\ Answered(program, new, p)
  <2>1. Follows(program, path, p) /\ Leaves(program, path, p) /\ Answered(program, path, p)
    BY <1>2 DEF PathOK
  <2>2. Follows(program, new, p)
    <3>1. Start(new, p) = Start(path, p)
      BY DEF Start
    <3>2. p \in new.defined => p \in path.defined
      OBVIOUS
    <3> QED
      BY <2>1, <3>1, <3>2 DEF Follows
  <2>3. Leaves(program, new, p)
    BY <2>1 DEF Leaves
  <2>4. Answered(program, new, p)
    BY <2>1 DEF Answered
  <2> QED
    BY <2>2, <2>3, <2>4
<1> QED
  BY <1>1, <1>2 DEF PathOK

LEMMA OnlyOK ==
  ASSUME NEW path, PathOK(program, path), NEW points
  PROVE  /\ PathOK(program, Only(path, points))
         /\ Only(path, points) = [path EXCEPT !.cond = Only(path, points).cond]
         /\ Only(path, points).cond = path.cond \cap points
<1> DEFINE new == Only(path, points)
<1>1. path \in PathType(program)
  BY DEF PathOK
<1>2. /\ new.cond = path.cond \cap points
      /\ new.at = path.at /\ new.value = path.value /\ new.defined = path.defined
      /\ new.from = path.from /\ new.clean = path.clean /\ new.entries = path.entries
      /\ new.prefix = path.prefix /\ new.candidates = path.candidates
      /\ new.calls = path.calls
  BY <1>1, PathFields DEF Only
<1>3. new \in PathType(program)
  BY <1>1 DEF Only, PathType
<1>4. new = [path EXCEPT !.cond = path.cond \cap points]
  BY DEF Only
<1> HIDE DEF new
<1>5. PathOK(program, new)
  BY <1>2, <1>3, Narrower
<1> QED
  BY <1>2, <1>4, <1>5 DEF new

LEMMA AfterPhisOK ==
  ASSUME NEW path, PathOK(program, path), path.at \in {"entry", "backedge"}
  PROVE  /\ PathOK(program, AfterPhis(path))
         /\ AfterPhis(path).cond = path.cond /\ AfterPhis(path).value = path.value
         /\ AfterPhis(path).defined = path.defined /\ AfterPhis(path).at = "body"
         /\ AfterPhis(path).entries = path.entries /\ AfterPhis(path).from = path.from
<1> DEFINE new == AfterPhis(path)
<1>1. path \in PathType(program)
  BY DEF PathOK
<1>2. /\ new.cond = path.cond
      /\ new.at = "body" /\ new.value = path.value /\ new.defined = path.defined
      /\ new.from = path.from /\ new.clean = path.clean /\ new.entries = path.entries
      /\ new.prefix = path.prefix /\ new.candidates = path.candidates
      /\ new.calls = path.calls
  BY <1>1, PathFields DEF AfterPhis
<1>3. new \in PathType(program)
  BY <1>1 DEF AfterPhis, PathType, Ats
<1> HIDE DEF new
<1>4. PathOK(program, new)
  BY <1>2, <1>3, Narrower
<1> QED
  BY <1>2, <1>4 DEF new

LEMMA InitialPathOK ==
  ASSUME ProgramOK(program)
  PROVE  PathOK(program, InitialPath)
<1> DEFINE path == InitialPath
<1>1. /\ path.at = "entry" /\ path.cond = Point /\ path.value = program.initial
      /\ path.defined = Point /\ path.from = program.initial /\ path.clean = Point
      /\ path.entries = program.entries /\ path.prefix = <<>> /\ path.candidates = {}
      /\ path.calls = [p \in Point |-> <<>>]
  BY DEF InitialPath
<1>2. path \in PathType(program)
  <2>1. <<>> \in Seq(Segment(program)) /\ <<>> \in Seq(BOOLEAN)
    OBVIOUS
  <2>2. program.initial \in [program.point -> program.value] /\ program.entries \in Nat
    BY DEF ProgramOK
  <2> QED
    BY <2>1, <2>2 DEF InitialPath, PathType, Ats, Point
<1> HIDE DEF path
<1>3. Entering(program, path)
  BY <1>1 DEF Entering, ProgramOK
<1>4. ASSUME NEW p \in path.cond
      PROVE  Follows(program, path, p) /\ Leaves(program, path, p) /\ Answered(program, path, p)
  <2>1. Flat(<<>>, p) = <<>>
    BY FlatEmpty
  <2>2. At(path.from[p], TRUE) \in State(program)
    BY <1>1, <1>4 DEF At, State, ProgramOK, Point
  <2>3. Walk(program, p, 0, At(path.from[p], TRUE), <<>>, At(path.from[p], TRUE))
    BY <2>2, WalkEmpty
  <2>4. Start(path, p) = At(path.from[p], TRUE)
    BY <1>1, <1>4 DEF Start
  <2>5. Follows(program, path, p)
    BY <1>1, <2>1, <2>3, <2>4 DEF Follows
  <2>6. Leaves(program, path, p)
    BY <1>1 DEF Leaves
  <2>7. Answered(program, path, p)
    <3>1. path.calls[p] = <<>>
      BY <1>1, <1>4
    <3>2. <<>> = [i \in 1..Len(<<>>) |-> TRUE]
      OBVIOUS
    <3> QED
      BY <1>1, <2>1, <3>1, <3>2 DEF Answered
  <2> QED
    BY <2>5, <2>6, <2>7
<1> QED
  BY <1>2, <1>3, <1>4 DEF PathOK, path

\* Recording an iteration appends its symbol to the word.
LEMMA BestAreWords ==
  ASSUME NEW A, NEW frontier \in Seq(A), NEW c,
         c \in Compression!compress_path_prefix(frontier, MaxRoot, Beam, Evidence)
  PROVE  c.star \in Seq(A) \ {<<>>}
<1> DEFINE From(k) == Compression!CandidatesWith(frontier, MaxRoot, k)
<1>1. \E k : c \in From(k)
  BY DEF Compression!compress_path_prefix
<1>2. PICK k : c \in From(k)
  BY <1>1
<1>3. \E length \in 1..MaxRoot :
        /\ length <= Len(frontier)
        /\ c.star = Compression!Slice(frontier, Len(frontier) - length, Len(frontier))
  BY <1>2 DEF Compression!CandidatesWith
<1>4. PICK length \in 1..MaxRoot :
             /\ length <= Len(frontier)
             /\ c.star = Compression!Slice(frontier, Len(frontier) - length, Len(frontier))
  BY <1>3
<1> DEFINE n == Len(frontier)
<1>5. c.star = SubSeq(frontier, (n - length) + 1, n)
  BY <1>4 DEF Compression!Slice
<1>6. MaxRoot \in Nat
  BY AcceleratorAssumption
<1>7. n \in Nat /\ length \in 1..n
  BY <1>4, <1>6
<1>8. c.star \in Seq(A) /\ Len(c.star) = length
  BY <1>5, <1>7
<1> QED
  BY <1>7, <1>8

Recorded(prefix, a) ==
  IF prefix = <<>> \/ Last(prefix).power
  THEN Append(prefix, ExplicitSegment(<<a>>))
  ELSE ReplaceAt(prefix, Len(prefix), ExplicitSegment(Append(Last(prefix).word, a)))

LEMMA ExplicitType ==
  ASSUME NEW word \in Seq(program.paths)
  PROVE  /\ ExplicitSegment(word) \in Segment(program)
         /\ ExplicitSegment(word).word = word /\ ~ExplicitSegment(word).power
         /\ \A p \in Point : ExplicitSegment(word).exponent[p] = 1
BY DEF ExplicitSegment, Segment, Point

\* A further explicit segment.
LEMMA Extended ==
  ASSUME NEW front \in Seq(Segment(program)), NEW word \in Seq(program.paths)
  PROVE  LET new == Append(front, ExplicitSegment(word))
         IN  /\ new \in Seq(Segment(program))
             /\ Frontier(new) = word
             /\ \A p \in Point : Flat(new, p) = Flat(front, p) \o word
<1> DEFINE s == ExplicitSegment(word)
           new == Append(front, s)
<1>1. /\ s \in Segment(program) /\ s.word = word /\ ~s.power
      /\ \A p \in Point : s.exponent[p] = 1
  BY ExplicitType
<1> HIDE DEF s
<1>2. new \in Seq(Segment(program)) /\ new # <<>> /\ Last(new) = s
  BY <1>1, LastAppended
<1>3. Frontier(new) = word
  BY <1>1, <1>2 DEF Frontier
<1>4. ASSUME NEW p \in Point
      PROVE  Flat(new, p) = Flat(front, p) \o word
  <2>1. p \in program.point
    BY DEF Point
  <2>2. Flat(new, p) = Flat(front, p) \o Power(s.word, s.exponent[p])
    BY ZenonT(90), <1>1, <2>1, FlatAppend
  <2>3. Power(word, 1) = word
    BY PowerOne
  <2> QED
    BY <1>1, <2>2, <2>3
<1> QED
  BY <1>2, <1>3, <1>4 DEF s

LEMMA RecordedIs ==
  ASSUME NEW prefix \in Seq(Segment(program)), NEW a \in program.paths
  PROVE  /\ Recorded(prefix, a) \in Seq(Segment(program))
         /\ Frontier(Recorded(prefix, a)) \in Seq(program.paths)
         /\ \A p \in Point : Flat(Recorded(prefix, a), p) = Append(Flat(prefix, p), a)
<1>1. CASE prefix = <<>> \/ Last(prefix).power
  <2>1. Recorded(prefix, a) = Append(prefix, ExplicitSegment(<<a>>))
    BY <1>1 DEF Recorded
  <2>2. <<a>> \in Seq(program.paths)
    BY OneSymbol
  <2>3. /\ Append(prefix, ExplicitSegment(<<a>>)) \in Seq(Segment(program))
        /\ Frontier(Append(prefix, ExplicitSegment(<<a>>))) = <<a>>
        /\ \A p \in Point :
             Flat(Append(prefix, ExplicitSegment(<<a>>)), p) = Flat(prefix, p) \o <<a>>
    BY <2>2, Extended
  <2>4. ASSUME NEW p \in Point
        PROVE  Flat(prefix, p) \o <<a>> = Append(Flat(prefix, p), a)
    <3>1. Flat(prefix, p) \in Seq(program.paths)
      BY FlatType DEF Point
    <3> QED
      BY <3>1, OneMore
  <2> QED
    BY <2>1, <2>2, <2>3, <2>4
<1>2. CASE ~(prefix = <<>> \/ Last(prefix).power)
  <2> DEFINE last == Last(prefix)
             word == Append(last.word, a)
             front == SubSeq(prefix, 1, Len(prefix) - 1)
  <2>1. Recorded(prefix, a) = ReplaceAt(prefix, Len(prefix), ExplicitSegment(word))
    BY <1>2 DEF Recorded
  <2>2. /\ front \in Seq(Segment(program)) /\ last \in Segment(program)
        /\ prefix = Append(front, last)
    <3>1. ExplicitSegment(<<a>>) \in Segment(program)
      BY OneSymbol, ExplicitType
    <3> QED
      BY <1>2, <3>1, LastReplaced
  <2>3. last.word \in Seq(program.paths) /\ \A p \in Point : last.exponent[p] = 1
    BY <1>2, <2>2 DEF Segment, Point
  <2> HIDE DEF last
  <2>4. word \in Seq(program.paths)
    BY <2>3, OneMore
  <2>5. ExplicitSegment(word) \in Segment(program)
    BY <2>4, ExplicitType
  <2>6. Recorded(prefix, a) = Append(front, ExplicitSegment(word))
    BY <1>2, <2>1, <2>5, LastReplaced
  <2> HIDE DEF front
  <2>7. /\ Recorded(prefix, a) \in Seq(Segment(program))
        /\ Frontier(Recorded(prefix, a)) = word
        /\ \A p \in Point : Flat(Recorded(prefix, a), p) = Flat(front, p) \o word
    <3> HIDE DEF word
    <3> QED
      BY <2>2, <2>4, <2>6, Extended
  <2>8. ASSUME NEW p \in Point
        PROVE  Flat(front, p) \o word = Append(Flat(prefix, p), a)
    <3>1. p \in program.point
      BY DEF Point
    <3>2. Flat(prefix, p) = Flat(front, p) \o Power(last.word, last.exponent[p])
      BY <2>2, <3>1, FlatAppend
    <3>3. Power(last.word, 1) = last.word
      BY <2>3, PowerOne
    <3>4. Flat(front, p) \in Seq(program.paths)
      BY <2>2, <3>1, FlatType
    <3>5. Flat(front, p) \o word = Append(Flat(front, p) \o last.word, a)
      BY <2>3, <3>4, OneMoreJoined
    <3> QED
      BY <2>3, <3>2, <3>3, <3>5
  <2> QED
    BY <2>4, <2>7, <2>8
<1> QED
  BY <1>1, <1>2

(***************************************************************************)
(* One iteration                                                           *)
(***************************************************************************)
LEMMA AfterAt ==
  ASSUME NEW g, NEW a, NEW v, NEW d \in BOOLEAN
  PROVE  \E e \in BOOLEAN :
           /\ After(g, a, At(v, d)) = At(g.update[a][v], e)
           /\ e <=> (d \/ g.resets[a]) /\ v \in g.ok[a]
<1> DEFINE e == (d \/ g.resets[a]) /\ v \in g.ok[a]
<1>1. e \in BOOLEAN
  OBVIOUS
<1>2. At(v, d).value = v /\ At(v, d).defined = d
  BY DEF At
<1>3. After(g, a, At(v, d)) = At(g.update[a][v], e)
  BY <1>2 DEF After, At
<1> QED
  BY <1>1, <1>3

\* The oracle is asked once more than it has said "go on".
LEMMA WalkShort ==
  ASSUME NEW g, ProgramOK(g), NEW p \in g.point, NEW s, NEW word \in Seq(g.paths), NEW t,
         Walk(g, p, 0, s, word, t), g.kind = "oracle"
  PROVE  /\ Len(word) \in Nat /\ g.answers[p] \in 0..Cardinality(g.value)
         /\ Len(word) <= g.answers[p]
<1>1. Len(word) \in Nat
  OBVIOUS
<1>2. g.answers[p] \in 0..Cardinality(g.value)
  BY DEF ProgramOK
<1>3. Cardinality(g.value) \in Nat
  BY FS_CardinalityType DEF ProgramOK
<1>4. PICK at : Takes(g, p, 0, word, at)
  BY DEF Walk
<1>5. CASE Len(word) = 0
  BY <1>2, <1>3, <1>5
<1>6. CASE Len(word) # 0
  <2>1. Len(word) \in 1..Len(word)
    BY <1>1, <1>6
  <2>2. Goes(g, at[Len(word) - 1].value, 0 + (Len(word) - 1), p)
    BY <1>4, <2>1 DEF Takes
  <2>3. 0 + (Len(word) - 1) < g.answers[p]
    BY <2>2 DEF Goes
  <2> QED
    BY <1>1, <1>2, <1>3, <2>3
<1> QED
  BY <1>1, <1>2, <1>5, <1>6

\* A path in the loop is where its word leads.
LEMMA Standing ==
  ASSUME ProgramOK(program), NEW path, PathOK(program, path), NEW p \in path.cond
  PROVE  /\ p \in Point /\ path.value[p] \in Value
         /\ Flat(path.prefix, p) \in Seq(program.paths)
         /\ path.at # "exit" =>
              (GoesOn(path, p) <=>
                 Goes(program, path.value[p], 0 + Len(Flat(path.prefix, p)), p))
<1> DEFINE word == Flat(path.prefix, p)
<1>1. path \in PathType(program)
  BY DEF PathOK
<1>2. p \in Point /\ path.value[p] \in Value
  BY <1>1, PathFields
<1>3. word \in Seq(program.paths)
  BY <1>1, <1>2, PathFields, FlatType DEF Point
<1>4. ASSUME path.at # "exit", program.kind = "oracle"
      PROVE  Len(path.calls[p]) = 0 + Len(word)
  <2>1. path.calls[p] = [i \in 1..Len(word) |-> TRUE]
    BY <1>4 DEF PathOK, Answered
  <2>2. Len(word) \in Nat
    BY <1>3
  <2> HIDE DEF word
  <2>3. Len([i \in 1..Len(word) |-> TRUE]) = Len(word)
    BY <2>2
  <2> QED
    BY <2>1, <2>2, <2>3
<1> QED
  BY <1>2, <1>3, <1>4 DEF GoesOn, Goes, Enabled

LEMMA AskedFields ==
  ASSUME NEW path, path \in PathType(program), NEW answer \in BOOLEAN
  PROVE  LET new == Asked(path, answer)
         IN  /\ DOMAIN new = DOMAIN path
             /\ new.cond = path.cond
             /\ new.at = path.at /\ new.value = path.value /\ new.defined = path.defined
             /\ new.from = path.from /\ new.clean = path.clean /\ new.entries = path.entries
             /\ new.prefix = path.prefix /\ new.candidates = path.candidates
             /\ new.calls \in [Point -> Seq(BOOLEAN)]
             /\ program.kind = "oracle" =>
                  \A p \in Point : new.calls[p] = Append(path.calls[p], answer)
             /\ new \in PathType(program)
<1> DEFINE new == Asked(path, answer)
           calls == [p \in Point |-> Append(path.calls[p], answer)]
<1>1. CASE program.kind = "oracle"
  <2>1. new = [path EXCEPT !.calls = calls]
    BY <1>1 DEF Asked
  <2>2. calls \in [Point -> Seq(BOOLEAN)] /\ \A p \in Point : calls[p] = Append(path.calls[p], answer)
    BY PathFields
  <2> HIDE DEF calls
  <2>3. new \in PathType(program)
    BY <2>1, <2>2 DEF PathType, Point
  <2> QED
    BY <2>1, <2>2, <2>3, PathFields
<1>2. CASE program.kind # "oracle"
  BY <1>2, PathFields DEF Asked
<1> QED
  BY <1>1, <1>2

Stars(prefix) ==
  {c.star : c \in Compression!compress_path_prefix(Frontier(prefix), MaxRoot, Beam, Evidence)}

\* What a path that runs through the body on path a has become.
IsThrough(path, a, new) ==
  /\ new \in PathType(program)
  /\ new.at = "backedge" /\ new.cond = Along(path, a)
  /\ new.value = [p \in Point |-> program.update[a][path.value[p]]]
  /\ new.defined = {p \in Along(path, a) :
                      /\ p \in path.defined \/ program.resets[a]
                      /\ path.value[p] \in program.ok[a]}
  /\ new.from = path.from /\ new.clean = path.clean /\ new.entries = path.entries
  /\ new.prefix = Recorded(path.prefix, a)
  /\ program.kind = "oracle" =>
       \A p \in Point : new.calls[p] = Append(path.calls[p], TRUE)

LEMMA ThroughFields ==
  ASSUME ProgramOK(program), NEW path, path \in PathType(program), NEW a \in program.paths
  PROVE  IsThrough(path, a, Through(path, a))
<1> DEFINE asked == Asked(path, TRUE)
           here == Only(asked, Along(path, a))
           value == [p \in Point |-> program.update[a][path.value[p]]]
           defined == {p \in Along(path, a) : /\ p \in path.defined \/ program.resets[a]
                                              /\ path.value[p] \in program.ok[a]}
           moved == [here EXCEPT !.at = "backedge", !.value = value, !.defined = defined]
           prefix == Recorded(path.prefix, a)
           new == [moved EXCEPT !.prefix = prefix, !.candidates = Stars(prefix)]
<1>1. /\ DOMAIN asked = DOMAIN path
      /\ asked.cond = path.cond
      /\ asked.at = path.at /\ asked.value = path.value /\ asked.defined = path.defined
      /\ asked.from = path.from /\ asked.clean = path.clean /\ asked.entries = path.entries
      /\ asked.prefix = path.prefix /\ asked.candidates = path.candidates
      /\ asked.calls \in [Point -> Seq(BOOLEAN)]
      /\ program.kind = "oracle" =>
           \A p \in Point : asked.calls[p] = Append(path.calls[p], TRUE)
      /\ asked \in PathType(program)
  BY AskedFields
<1> HIDE DEF asked
<1>2. Along(path, a) \subseteq path.cond /\ path.cond \subseteq Point
  BY PathFields DEF Along
<1>3. here = [asked EXCEPT !.cond = Along(path, a)]
  BY <1>1, <1>2 DEF Only
<1>4. /\ here.cond = Along(path, a) /\ here.value = path.value /\ here.defined = path.defined
      /\ here.prefix = path.prefix /\ here.from = path.from /\ here.clean = path.clean
      /\ here.entries = path.entries /\ here.calls = asked.calls
      /\ DOMAIN here = DOMAIN path
  BY <1>1, <1>3, PathFields
<1> HIDE DEF here
<1>5. /\ moved.cond = Along(path, a) /\ moved.value = value /\ moved.defined = defined
      /\ moved.prefix = path.prefix /\ moved.from = path.from /\ moved.clean = path.clean
      /\ moved.entries = path.entries /\ moved.calls = asked.calls /\ moved.at = "backedge"
      /\ DOMAIN moved = DOMAIN path
  BY <1>4, PathFields
<1>6. value \in [Point -> Value]
  BY PathFields DEF ProgramOK, Value
<1>7. prefix \in Seq(Segment(program)) /\ Frontier(prefix) \in Seq(program.paths)
  BY PathFields, RecordedIs
<1>8. Stars(prefix) \subseteq Seq(program.paths) \ {<<>>}
  BY <1>7, BestAreWords DEF Stars
<1>9. Through(path, a) = new
  <2>1. [here EXCEPT !.at = "backedge",
                     !.value = [p \in Point |-> program.update[a][@[p]]],
                     !.defined = {p \in here.cond : /\ p \in @ \/ program.resets[a]
                                                    /\ path.value[p] \in program.ok[a]}]
        = moved
    BY <1>4
  <2>2. Record(moved, a) = new
    <3>1. moved.prefix = path.prefix
      BY <1>5
    <3> HIDE DEF moved
    <3>2. Record(moved, a) = [moved EXCEPT !.prefix = Recorded(moved.prefix, a),
                                           !.candidates = Stars(Recorded(moved.prefix, a))]
      BY DEF Record, Recorded, Stars
    <3> QED
      BY <3>1, <3>2
  <2> HIDE DEF moved, new
  <2>3. Through(path, a) =
          Record([here EXCEPT !.at = "backedge",
                     !.value = [p \in Point |-> program.update[a][@[p]]],
                     !.defined = {p \in here.cond : /\ p \in @ \/ program.resets[a]
                                                    /\ path.value[p] \in program.ok[a]}], a)
    BY DEF Through, here, asked
  <2> QED
    BY <2>1, <2>2, <2>3
<1>10. moved \in PathType(program)
  <2>1. defined \subseteq Point
    BY <1>2
  <2> HIDE DEF value, defined
  <2>2. here \in PathType(program)
    BY <1>1, <1>2, <1>3 DEF PathType, Point
  <2> QED
    BY <1>6, <2>1, <2>2 DEF PathType, Ats, Point, Value
<1> HIDE DEF moved, prefix, value, defined
<1>11. new \in PathType(program)
  BY <1>7, <1>8, <1>10 DEF PathType
<1>12. /\ new.cond = Along(path, a) /\ new.value = value /\ new.defined = defined
       /\ new.prefix = prefix /\ new.from = path.from /\ new.clean = path.clean
       /\ new.entries = path.entries /\ new.calls = asked.calls /\ new.at = "backedge"
  BY <1>5, PathFields
<1> HIDE DEF new
<1> QED
  BY <1>1, <1>9, <1>11, <1>12 DEF value, defined, prefix, IsThrough

\* Answers of the oracle: "go on" n times, and then the one that leaves.
Until(n, x, y) == [i \in 1..(n + 1) |-> IF i <= n THEN x ELSE y]

Constant(n, x) == [i \in 1..n |-> x]

LEMMA OtherAppended ==
  ASSUME NEW n \in Nat, NEW x, NEW y
  PROVE  Append([i \in 1..n |-> x], y) = Until(n, x, y)
BY DEF Until

LEMMA SameAppended ==
  ASSUME NEW n \in Nat, NEW x
  PROVE  Append([i \in 1..n |-> x], x) = [i \in 1..(n + 1) |-> x]
OBVIOUS

LEMMA OtherJoined ==
  ASSUME NEW n \in Nat, NEW k \in Nat, NEW x, NEW y
  PROVE  Constant(n, x) \o Until(k, x, y) = Until(n + k, x, y)
BY DEF Until, Constant

LEMMA UntilIs ==
  ASSUME NEW n \in Nat
  PROVE  Until(n, TRUE, FALSE) = [i \in 1..(n + 1) |-> i <= n]
<1>1. ASSUME NEW i \in 1..(n + 1)
      PROVE  (IF i <= n THEN TRUE ELSE FALSE) = (i <= n)
  <2>1. (i <= n) \in BOOLEAN
    OBVIOUS
  <2> QED
    BY <2>1, Zenon
<1> QED
  BY <1>1, Zenon DEF Until

LEMMA TrueAppended ==
  ASSUME NEW n \in Nat
  PROVE  /\ Append([i \in 1..n |-> TRUE], TRUE) = [i \in 1..(n + 1) |-> TRUE]
         /\ Append([i \in 1..n |-> TRUE], FALSE) = [i \in 1..(n + 1) |-> i <= n]
<1>1. Append([i \in 1..n |-> TRUE], TRUE) = [i \in 1..(n + 1) |-> TRUE]
  BY SameAppended, Zenon
<1>2. Append([i \in 1..n |-> TRUE], FALSE) = Until(n, TRUE, FALSE)
  BY OtherAppended, Zenon
<1> QED
  BY <1>1, <1>2, UntilIs, Zenon DEF Constant

LEMMA TrueJoined ==
  ASSUME NEW n \in Nat, NEW k \in Nat
  PROVE  [i \in 1..n |-> TRUE] \o [i \in 1..(k + 1) |-> i <= k]
           = [i \in 1..((n + k) + 1) |-> i <= n + k]
<1> DEFINE Same(x, y) == Constant(n, x) \o Until(k, x, y) = Until(n + k, x, y)
<1>1. \A x, y : Same(x, y)
  BY OtherJoined
<1>2. Constant(n, TRUE) \o Until(k, TRUE, FALSE) = Until(n + k, TRUE, FALSE)
  <2> HIDE DEF Same
  <2>1. Same(TRUE, FALSE)
    BY <1>1, Zenon
  <2> QED
    BY <2>1, Zenon DEF Same
<1>3. n + k \in Nat
  OBVIOUS
<1> QED
  BY <1>2, <1>3, UntilIs, Zenon DEF Constant

LEMMA AnswersType ==
  ASSUME NEW k \in Nat, NEW s \in Seq(BOOLEAN)
  PROVE  s \o [i \in 1..(k + 1) |-> i <= k] \in Seq(BOOLEAN)
<1>1. [i \in 1..(k + 1) |-> i <= k] \in Seq(BOOLEAN)
  OBVIOUS
<1>2. \A A : \A r, t \in Seq(A) : r \o t \in Seq(A)
  OBVIOUS
<1> QED
  BY <1>1, <1>2, Zenon

LEMMA ThroughOK ==
  ASSUME ProgramOK(program), NEW path, PathOK(program, path), path.at = "body",
         NEW a \in program.paths
  PROVE  PathOK(program, Through(path, a))
<1> DEFINE new == Through(path, a)
<1>1. path \in PathType(program)
  BY DEF PathOK
<1>2. /\ new \in PathType(program)
      /\ new.at = "backedge" /\ new.cond = Along(path, a)
      /\ new.value = [p \in Point |-> program.update[a][path.value[p]]]
      /\ new.defined = {p \in Along(path, a) :
                          /\ p \in path.defined \/ program.resets[a]
                          /\ path.value[p] \in program.ok[a]}
      /\ new.from = path.from /\ new.clean = path.clean /\ new.entries = path.entries
      /\ new.prefix = Recorded(path.prefix, a)
      /\ program.kind = "oracle" =>
           \A p \in Point : new.calls[p] = Append(path.calls[p], TRUE)
  <2>1. IsThrough(path, a, new)
    BY <1>1, ThroughFields
  <2> HIDE DEF new
  <2> QED
    BY <2>1 DEF IsThrough
<1> HIDE DEF new
<1>3. Entering(program, new)
  BY <1>2 DEF PathOK, Entering
<1>4. ASSUME NEW p \in new.cond
      PROVE  Follows(program, new, p) /\ Leaves(program, new, p) /\ Answered(program, new, p)
  <2> DEFINE word == Flat(path.prefix, p)
             v == path.value[p]
  <2>1. p \in path.cond /\ GoesOn(path, p) /\ v \in program.enabled[a] \ program.error
    <3>1. p \in Along(path, a)
      BY <1>2, <1>4
    <3> QED
      BY <3>1 DEF Along
  <2>2. /\ p \in Point /\ v \in Value /\ word \in Seq(program.paths)
        /\ Goes(program, v, 0 + Len(word), p)
    BY <2>1, Standing
  <2>3. Flat(new.prefix, p) = Append(word, a)
    <3>1. path.prefix \in Seq(Segment(program))
      BY <1>1, PathFields
    <3>2. Flat(Recorded(path.prefix, a), p) = Append(Flat(path.prefix, p), a)
      BY <2>2, <3>1, RecordedIs
    <3> QED
      BY <1>2, <3>2
  <2>4. new.value[p] = program.update[a][v] /\ Start(new, p) = Start(path, p)
    BY <1>2, <2>2 DEF Start
  <2>5. Follows(program, path, p) /\ Answered(program, path, p)
    BY <2>1 DEF PathOK
  <2>6. PICK d \in BOOLEAN :
               /\ Walk(program, p, 0, Start(path, p), word, At(v, d))
               /\ Forgiving(program) /\ p \in path.defined => d
               /\ program.kind = "plain" /\ NeverOverflows(program) => d
    BY <2>5 DEF Follows
  <2>7. PICK e \in BOOLEAN :
               /\ After(program, a, At(v, d)) = At(program.update[a][v], e)
               /\ e <=> (d \/ program.resets[a]) /\ v \in program.ok[a]
    BY AfterAt
  <2>8. At(v, d).value = v
    BY DEF At
  <2>9. Walk(program, p, 0, Start(path, p), Append(word, a), At(program.update[a][v], e))
    <3>1. Goes(program, At(v, d).value, 0 + Len(word), p)
          /\ At(v, d).value \in program.enabled[a] \ program.error
      BY <2>1, <2>2, <2>8
    <3> HIDE DEF word, v
    <3> QED
      BY <2>2, <2>6, <2>7, <3>1, WalkAppend
  <2>10. Forgiving(program) /\ p \in new.defined => e
    BY <1>2, <2>6, <2>7
  <2>11. program.kind = "plain" /\ NeverOverflows(program) => e
    BY <2>1, <2>6, <2>7 DEF NeverOverflows
  <2>12. Follows(program, new, p)
    BY <2>3, <2>4, <2>9, <2>10, <2>11 DEF Follows
  <2>13. Leaves(program, new, p)
    BY <1>2 DEF Leaves
  <2>14. Answered(program, new, p)
    <3> SUFFICES ASSUME program.kind = "oracle"
                 PROVE  new.calls[p] = [i \in 1..Len(Flat(new.prefix, p)) |-> TRUE]
      BY <1>2 DEF Answered
    <3>1. path.calls[p] = [i \in 1..Len(word) |-> TRUE]
      BY <2>5 DEF Answered
    <3>2. Len(word) \in Nat /\ Len(Append(word, a)) = Len(word) + 1
      BY <2>2
    <3>3. new.calls[p] = Append(path.calls[p], TRUE)
      BY <1>2, <2>2
    <3> HIDE DEF word
    <3> QED
      BY <2>3, <3>1, <3>2, <3>3, TrueAppended, Zenon
  <2> QED
    BY <2>12, <2>13, <2>14
<1> QED
  BY <1>2, <1>3, <1>4 DEF PathOK, new

\* The exit of the loop, and a violated assertion.
LEMMA LeavingFields ==
  ASSUME ProgramOK(program), NEW path, path \in PathType(program)
  PROVE  LET new == Leaving(path)
         IN  /\ new \in PathType(program)
             /\ new.at = "exit"
             /\ new.cond = {p \in path.cond : ~GoesOn(path, p) /\ path.value[p] \notin program.error}
             /\ new.value = path.value /\ new.defined = path.defined
             /\ new.from = path.from /\ new.clean = path.clean /\ new.entries = path.entries
             /\ new.prefix = path.prefix
             /\ program.kind = "oracle" =>
                  \A p \in Point : new.calls[p] = Append(path.calls[p], FALSE)
<1> DEFINE asked == Asked(path, FALSE)
           points == {p \in path.cond : ~GoesOn(path, p) /\ path.value[p] \notin program.error}
           here == Only(asked, points)
           new == [here EXCEPT !.at = "exit"]
<1>1. /\ DOMAIN asked = DOMAIN path
      /\ asked.cond = path.cond
      /\ asked.at = path.at /\ asked.value = path.value /\ asked.defined = path.defined
      /\ asked.from = path.from /\ asked.clean = path.clean /\ asked.entries = path.entries
      /\ asked.prefix = path.prefix /\ asked.candidates = path.candidates
      /\ asked.calls \in [Point -> Seq(BOOLEAN)]
      /\ program.kind = "oracle" =>
           \A p \in Point : asked.calls[p] = Append(path.calls[p], FALSE)
      /\ asked \in PathType(program)
  BY AskedFields
<1>2. points \subseteq path.cond /\ path.cond \subseteq Point
  BY PathFields
<1>3. Leaving(path) = new
  BY DEF Leaving
<1> HIDE DEF asked, points
<1>4. here = [asked EXCEPT !.cond = points]
  BY <1>1, <1>2 DEF Only
<1>5. /\ here.cond = points /\ here.value = path.value /\ here.defined = path.defined
      /\ here.prefix = path.prefix /\ here.from = path.from /\ here.clean = path.clean
      /\ here.entries = path.entries /\ here.calls = asked.calls
      /\ DOMAIN here = DOMAIN path /\ here \in PathType(program)
  <2>1. here \in PathType(program)
    BY <1>1, <1>2, <1>4 DEF PathType, Point
  <2> QED
    BY <1>1, <1>4, <2>1, PathFields
<1> HIDE DEF here
<1>6. /\ new.cond = points /\ new.value = path.value /\ new.defined = path.defined
      /\ new.prefix = path.prefix /\ new.from = path.from /\ new.clean = path.clean
      /\ new.entries = path.entries /\ new.calls = asked.calls /\ new.at = "exit"
  BY <1>5, PathFields
<1>7. new \in PathType(program)
  BY <1>5 DEF PathType, Ats
<1> HIDE DEF new
<1> QED
  BY <1>1, <1>3, <1>6, <1>7 DEF points

LEMMA LeavingOK ==
  ASSUME ProgramOK(program), NEW path, PathOK(program, path), path.at = "body"
  PROVE  PathOK(program, Leaving(path))
<1> DEFINE new == Leaving(path)
<1>1. path \in PathType(program)
  BY DEF PathOK
<1>2. /\ new \in PathType(program)
      /\ new.at = "exit"
      /\ new.cond = {p \in path.cond : ~GoesOn(path, p) /\ path.value[p] \notin program.error}
      /\ new.value = path.value /\ new.defined = path.defined
      /\ new.from = path.from /\ new.clean = path.clean /\ new.entries = path.entries
      /\ new.prefix = path.prefix
      /\ program.kind = "oracle" =>
           \A p \in Point : new.calls[p] = Append(path.calls[p], FALSE)
  BY <1>1, LeavingFields
<1> HIDE DEF new
<1>3. Entering(program, new)
  BY <1>2 DEF PathOK, Entering
<1>4. ASSUME NEW p \in new.cond
      PROVE  Follows(program, new, p) /\ Leaves(program, new, p) /\ Answered(program, new, p)
  <2> DEFINE word == Flat(path.prefix, p)
             v == path.value[p]
  <2>1. p \in path.cond /\ ~GoesOn(path, p) /\ v \notin program.error
    BY <1>2, <1>4
  <2>2. /\ p \in Point /\ v \in Value /\ word \in Seq(program.paths)
        /\ ~Goes(program, v, 0 + Len(word), p)
    BY <2>1, Standing
  <2>3. Follows(program, path, p) /\ Answered(program, path, p)
    BY <2>1 DEF PathOK
  <2>4. Follows(program, new, p)
    <3>1. Start(new, p) = Start(path, p)
      BY <1>2 DEF Start
    <3> QED
      BY <1>2, <2>3, <3>1 DEF Follows
  <2>5. Len(word) \in Nat /\ 0 + Len(word) = Len(word)
    BY <2>2
  <2>6. Leaves(program, new, p)
    BY <1>2, <2>1, <2>2, <2>5 DEF Leaves
  <2>7. Answered(program, new, p)
    <3> DEFINE n == program.answers[p]
    <3> SUFFICES ASSUME program.kind = "oracle"
                 PROVE  new.calls[p] = [i \in 1..(n + 1) |-> i <= n]
      BY <1>2 DEF Answered
    <3>1. PICK d : Walk(program, p, 0, Start(path, p), word, At(v, d))
      BY <2>3 DEF Follows
    <3>2. n \in 0..Cardinality(program.value) /\ Len(word) <= n
      <4> HIDE DEF word, v
      <4> QED
        BY <2>2, <3>1, WalkShort DEF Point
    <3>3. ~(Len(word) < n)
      BY <2>2, <2>5 DEF Goes
    <3>4. Len(word) = n
      BY <2>5, <3>2, <3>3
    <3>5. path.calls[p] = [i \in 1..Len(word) |-> TRUE]
      BY <2>3 DEF Answered
    <3>6. new.calls[p] = Append(path.calls[p], FALSE)
      BY <1>2, <2>2
    <3> HIDE DEF word, n
    <3> QED
      BY <2>5, <3>4, <3>5, <3>6, TrueAppended, Zenon
  <2> QED
    BY <2>4, <2>6, <2>7
<1> QED
  BY <1>2, <1>3, <1>4 DEF PathOK, new

LEMMA ViolatingFields ==
  ASSUME NEW path, path \in PathType(program)
  PROVE  LET new == Violating(path)
         IN  /\ new \in PathType(program)
             /\ new.at = "error"
             /\ new.cond = {p \in path.cond : path.value[p] \in program.error}
             /\ new.value = path.value /\ new.defined = path.defined
             /\ new.from = path.from /\ new.clean = path.clean /\ new.entries = path.entries
             /\ new.prefix = path.prefix /\ new.calls = path.calls
<1> DEFINE points == {p \in path.cond : path.value[p] \in program.error}
           here == Only(path, points)
           new == [here EXCEPT !.at = "error"]
<1>1. points \subseteq path.cond /\ path.cond \subseteq Point
  BY PathFields
<1>2. Violating(path) = new
  BY DEF Violating
<1> HIDE DEF points
<1>3. here = [path EXCEPT !.cond = points]
  BY <1>1, PathFields DEF Only
<1>4. /\ here.cond = points /\ here.value = path.value /\ here.defined = path.defined
      /\ here.prefix = path.prefix /\ here.from = path.from /\ here.clean = path.clean
      /\ here.entries = path.entries /\ here.calls = path.calls
      /\ DOMAIN here = DOMAIN path /\ here \in PathType(program)
  <2>1. here \in PathType(program)
    BY <1>1, <1>3 DEF PathType, Point
  <2> QED
    BY <1>3, <2>1, PathFields
<1> HIDE DEF here
<1>5. /\ new.cond = points /\ new.value = path.value /\ new.defined = path.defined
      /\ new.prefix = path.prefix /\ new.from = path.from /\ new.clean = path.clean
      /\ new.entries = path.entries /\ new.calls = path.calls /\ new.at = "error"
  BY <1>4, PathFields
<1>6. new \in PathType(program)
  BY <1>4 DEF PathType, Ats
<1> HIDE DEF new
<1> QED
  BY <1>2, <1>5, <1>6 DEF points

LEMMA ViolatingOK ==
  ASSUME NEW path, PathOK(program, path), path.at = "body"
  PROVE  PathOK(program, Violating(path))
<1> DEFINE new == Violating(path)
<1>1. path \in PathType(program)
  BY DEF PathOK
<1>2. /\ new \in PathType(program)
      /\ new.at = "error"
      /\ new.cond = {p \in path.cond : path.value[p] \in program.error}
      /\ new.value = path.value /\ new.defined = path.defined
      /\ new.from = path.from /\ new.clean = path.clean /\ new.entries = path.entries
      /\ new.prefix = path.prefix /\ new.calls = path.calls
  BY <1>1, ViolatingFields
<1> HIDE DEF new
<1>3. Entering(program, new)
  BY <1>2 DEF PathOK, Entering
<1>4. ASSUME NEW p \in new.cond
      PROVE  Follows(program, new, p) /\ Leaves(program, new, p) /\ Answered(program, new, p)
  <2>1. p \in path.cond /\ path.value[p] \in program.error
    BY <1>2, <1>4
  <2>2. Follows(program, path, p) /\ Answered(program, path, p)
    BY <2>1 DEF PathOK
  <2>3. Follows(program, new, p)
    <3>1. Start(new, p) = Start(path, p)
      BY <1>2 DEF Start
    <3> QED
      BY <1>2, <2>2, <3>1 DEF Follows
  <2>4. Leaves(program, new, p)
    BY <1>2, <2>1 DEF Leaves
  <2>5. Answered(program, new, p)
    BY <1>2, <2>2 DEF Answered
  <2> QED
    BY <2>3, <2>4, <2>5
<1> QED
  BY <1>2, <1>3, <1>4 DEF PathOK, new

\* The loop around it comes back.
Reentered(path) ==
  LET value == [p \in Point |-> program.again[path.value[p]]]
  IN  [path EXCEPT !.at = "entry", !.entries = @ - 1,
         !.value = value, !.from = value, !.clean = path.defined,
         !.prefix = <<>>, !.candidates = {}]

LEMMA ReenterOK ==
  ASSUME ProgramOK(program), NEW path, PathOK(program, path), path.at = "exit",
         path.entries > 0
  PROVE  LET new == Reentered(path)
         IN  /\ PathOK(program, new)
             /\ new.cond = path.cond /\ new.defined = path.defined
             /\ new.value = [p \in Point |-> program.again[path.value[p]]]
             /\ new.from = new.value /\ new.entries = path.entries - 1
<1> DEFINE new == Reentered(path)
           value == [p \in Point |-> program.again[path.value[p]]]
<1>1. path \in PathType(program) /\ program.kind = "family"
  BY DEF PathOK, Entering
<1>2. value \in [Point -> Value]
  BY <1>1, PathFields DEF ProgramOK, Value
<1>3. new = [path EXCEPT !.at = "entry", !.entries = path.entries - 1,
               !.value = value, !.from = value, !.clean = path.defined,
               !.prefix = <<>>, !.candidates = {}]
  BY DEF Reentered
<1> HIDE DEF value, new
<1>4. /\ new.at = "entry" /\ new.entries = path.entries - 1 /\ new.value = value
      /\ new.from = value /\ new.clean = path.defined /\ new.defined = path.defined
      /\ new.prefix = <<>> /\ new.cond = path.cond
  BY <1>1, <1>3, PathFields
<1>5. new \in PathType(program)
  <2>1. <<>> \in Seq(Segment(program))
    OBVIOUS
  <2>2. path.entries - 1 \in Nat
    BY <1>1, PathFields
  <2> QED
    BY <1>1, <1>2, <1>3, <2>1, <2>2 DEF PathType, Ats, Point, Value
<1>6. Entering(program, new)
  BY <1>1, <1>4 DEF Entering
<1>7. ASSUME NEW p \in new.cond
      PROVE  Follows(program, new, p) /\ Leaves(program, new, p) /\ Answered(program, new, p)
  <2>1. p \in Point /\ value[p] \in Value
    BY <1>1, <1>2, <1>4, PathFields
  <2>2. Flat(new.prefix, p) = <<>>
    BY <1>4, FlatEmpty
  <2>3. PICK d \in BOOLEAN : d = (p \in new.clean)
    <3>1. (p \in new.clean) \in BOOLEAN
      OBVIOUS
    <3> QED
      BY <3>1, Zenon
  <2>4. Start(new, p) = At(value[p], d)
    BY <1>4, <2>3 DEF Start
  <2>5. At(value[p], d) \in State(program)
    BY <2>1, <2>3 DEF At, State, Value
  <2>6. Walk(program, p, 0, At(value[p], d), <<>>, At(value[p], d))
    BY <2>5, WalkEmpty
  <2>7. Follows(program, new, p)
    BY <1>1, <1>4, <2>2, <2>3, <2>4, <2>6 DEF Follows
  <2>8. Leaves(program, new, p)
    BY <1>4 DEF Leaves
  <2>9. Answered(program, new, p)
    BY <1>1 DEF Answered
  <2> QED
    BY <2>7, <2>8, <2>9
<1> QED
  BY <1>4, <1>5, <1>6, <1>7 DEF PathOK, new, value

(***************************************************************************)
(* Jumps                                                                   *)
(***************************************************************************)
\* The jump goes on where the word of the path has led.
GoesFurther(path, p, star, closed, k) ==
  LET word == Flat(path.prefix, p)
  IN  \E e \in BOOLEAN :
        /\ Walk(program, p, 0, Start(path, p), word \o Power(star, k),
                At(closed[k][path.value[p]], e))
        /\ Forgiving(program) /\ p \in path.defined => e
        /\ program.kind = "plain" /\ NeverOverflows(program) => e
        /\ Resetting(program) /\ k # 0 => e
        /\ Len(star) = 1 => Len(word \o Power(star, k)) = Len(word) + k

LEMMA JumpFollows ==
  ASSUME ProgramOK(program), NEW path, PathOK(program, path), NEW p \in path.cond,
         NEW star \in Seq(program.paths) \ {<<>>}, NEW closed,
         certify_closed_forms(closed, Composite(star).update), NEW k \in 0..Horizon,
         Repeats(p, Len(Flat(path.prefix, p)), star, closed, path.value[p], k)
  PROVE  GoesFurther(path, p, star, closed, k)
<1> DEFINE word == Flat(path.prefix, p)
           v == path.value[p]
<1>1. /\ p \in Point /\ v \in Value /\ word \in Seq(program.paths)
  BY Standing
<1>2. Follows(program, path, p)
  BY DEF PathOK
<1>3. PICK d \in BOOLEAN :
             /\ Walk(program, p, 0, Start(path, p), word, At(v, d))
             /\ Forgiving(program) /\ p \in path.defined => d
             /\ program.kind = "plain" /\ NeverOverflows(program) => d
  BY <1>2 DEF Follows
<1>4. Len(word) \in Nat
  BY <1>1
<1>5. Repeats(p, Len(word), star, closed, v, k)
  OBVIOUS
<1> HIDE DEF word, v
<1>6. /\ Power(star, k) \in Seq(program.paths)
      /\ Len(star) = 1 => Len(Power(star, k)) = k
      /\ k # 0 /\ star # <<>> => Power(star, k) # <<>>
      /\ \E e \in BOOLEAN :
           Safely(program, p, Len(word), At(v, d), Power(star, k), At(closed[k][v], e))
  <2>1. star \in Seq(program.paths) /\ d \in BOOLEAN /\ k \in 0..Horizon
    OBVIOUS
  <2>2. JumpsTo(p, Len(word), star, closed, v, k)
    BY <1>5, <1>1, <1>4, <2>1, PowerWalks
  <2> QED
    BY <2>1, <2>2 DEF JumpsTo
<1>7. PICK e \in BOOLEAN :
             Safely(program, p, Len(word), At(v, d), Power(star, k), At(closed[k][v], e))
  BY <1>6
<1>8. /\ Walk(program, p, 0 + Len(word), At(v, d), Power(star, k), At(closed[k][v], e))
      /\ d => e
      /\ Resetting(program) /\ Power(star, k) # <<>> => e
  BY <1>4, <1>7 DEF Safely, At
<1>9. Walk(program, p, 0, Start(path, p), word \o Power(star, k), At(closed[k][v], e))
  BY <1>1, <1>3, <1>6, <1>8, WalkJoin
<1>10. Len(word \o Power(star, k)) = Len(word) + Len(Power(star, k))
  BY <1>1, <1>6
<1> QED
  BY <1>3, <1>6, <1>8, <1>9, <1>10 DEF word, v, GoesFurther

\* The path after the jump.
Lands(path, exponent, closed) ==
  \A p \in Point : closed[exponent[p]][path.value[p]] \in Value
Jumped(path, points, star, exponent, closed, new) ==
  /\ new \in PathType(program) /\ DOMAIN new = DOMAIN path
  /\ new.cond = points /\ new.defined = points /\ new.at = path.at
  /\ new.value = [p \in Point |-> closed[exponent[p]][path.value[p]]]
  /\ new.from = path.from /\ new.clean = path.clean /\ new.entries = path.entries
  /\ \A p \in Point : Flat(new.prefix, p) = Flat(path.prefix, p) \o Power(star, exponent[p])
  /\ new.calls = path.calls

LEMMA JumpOverFields ==
  ASSUME ProgramOK(program), NEW path, path \in PathType(program),
         NEW points, points \subseteq path.cond,
         NEW star \in Seq(program.paths), NEW exponent \in [Point -> Nat], NEW closed,
         Lands(path, exponent, closed)
  PROVE  Jumped(path, points, star, exponent, closed,
                JumpOver(Only(path, points), star, exponent, closed))
<1> DEFINE here == Only(path, points)
           value == [p \in Point |-> closed[exponent[p]][path.value[p]]]
           segment == SymbolicSegment(star, exponent)
           prefix == Append(path.prefix, segment)
           new == [here EXCEPT !.value = value, !.defined = points, !.prefix = prefix,
                               !.candidates = {}]
<1>1. points \subseteq Point /\ path.cond \cap points = points
  BY PathFields
<1>2. here = [path EXCEPT !.cond = points]
  BY <1>1 DEF Only
<1>3. /\ here.cond = points /\ here.value = path.value /\ here.defined = path.defined
      /\ here.prefix = path.prefix /\ here.from = path.from /\ here.clean = path.clean
      /\ here.entries = path.entries /\ here.calls = path.calls /\ here.at = path.at
      /\ DOMAIN here = DOMAIN path
  BY <1>2, PathFields
<1>4. here \in PathType(program)
  BY <1>1, <1>2 DEF PathType, Point
<1> HIDE DEF here
<1>5. JumpOver(here, star, exponent, closed) = new
  BY <1>3 DEF JumpOver
<1>6. value \in [Point -> Value]
  BY DEF Lands
<1>7. segment \in Segment(program) /\ segment.word = star /\ segment.exponent = exponent
  BY DEF SymbolicSegment, Segment, Point
<1> HIDE DEF segment
<1>8. path.prefix \in Seq(Segment(program))
  BY PathFields
<1>9. prefix \in Seq(Segment(program))
  BY <1>7, <1>8, OneMore
<1>10. \A p \in Point : Flat(prefix, p) = Flat(path.prefix, p) \o Power(star, exponent[p])
  <2> SUFFICES ASSUME NEW p \in Point
               PROVE  Flat(prefix, p) = Flat(path.prefix, p) \o Power(star, exponent[p])
    OBVIOUS
  <2>1. p \in program.point
    BY DEF Point
  <2>2. Flat(Append(path.prefix, segment), p) =
          Flat(path.prefix, p) \o Power(segment.word, segment.exponent[p])
    BY <1>7, <1>8, <2>1, FlatAppend
  <2> QED
    BY <1>7, <2>2
<1> HIDE DEF value, prefix
<1>11. new \in PathType(program)
  BY <1>1, <1>4, <1>6, <1>9 DEF PathType, Point, Value
<1>12. /\ new.cond = points /\ new.defined = points /\ new.at = path.at
       /\ new.value = value /\ new.from = path.from /\ new.clean = path.clean
       /\ new.entries = path.entries /\ new.prefix = prefix /\ new.calls = path.calls
       /\ DOMAIN new = DOMAIN path
  BY <1>3, PathFields
<1> HIDE DEF new
<1> QED
  BY <1>5, <1>9, <1>10, <1>11, <1>12 DEF here, value, Jumped

\* What is certified takes values to values.
LEMMA CertifiedType ==
  ASSUME ProgramOK(program), NEW star \in Seq(program.paths), NEW closed,
         closed \in CertifiedForms(Composite(star).update)
  PROVE  /\ certify_closed_forms(closed, Composite(star).update)
         /\ \A t \in 0..(Horizon + 1), v \in Value : closed[t][v] \in Value
         /\ \A v \in Value : closed[0][v] = v
<1> DEFINE f == Composite(star).update
<1>1. certify_closed_forms(closed, f)
  BY DEF CertifiedForms
<1>2. f \in [Value -> Value]
  BY CompositeType DEF Map
<1> HIDE DEF f
<1>3. \A t \in 0..(Horizon + 1) : closed[t] \in [Value -> Value]
  BY <1>1, <1>2, ClosedType
<1>4. \A v \in Value : closed[0][v] = v
  BY <1>1, <1>2, ClosedType
<1> QED
  BY <1>1, <1>3, <1>4 DEF f

\* The jump to the first break.
LEMMA FirstBreakJumpOK ==
  ASSUME ProgramOK(program), NEW path, PathOK(program, path), path.at = "backedge",
         program.kind = "plain", NEW star \in Seq(program.paths) \ {<<>>}, NEW closed,
         closed \in CertifiedForms(Composite(star).update)
  PROVE  LET new == FirstBreakJump(path, star, closed, Composite(star).guard)
         IN  /\ PathOK(program, new)
             /\ new.cond = Covered(path, closed, Composite(star).guard)
             /\ new.defined = new.cond /\ new.from = path.from /\ new.entries = path.entries
<1> DEFINE guard == Composite(star).guard
           covered == Covered(path, closed, guard)
           breaks(p) == FirstBreaks(closed, guard, path.value[p])
           count == [p \in Point |-> IF p \in covered THEN CHOOSE k \in breaks(p) : TRUE ELSE 0]
           jump == JumpOver(Only(path, covered), star, count, closed)
           new == AfterPhis(jump)
<1>1. path \in PathType(program)
  BY DEF PathOK
<1>2. FirstBreakJump(path, star, closed, guard) = new
  BY DEF FirstBreakJump
<1>3. /\ certify_closed_forms(closed, Composite(star).update)
      /\ \A t \in 0..(Horizon + 1), v \in Value : closed[t][v] \in Value
      /\ \A v \in Value : closed[0][v] = v
  BY CertifiedType
<1>4. Horizon \in Nat
  BY HorizonType
<1>5. covered \subseteq path.cond /\ \A p \in covered : breaks(p) # {}
  BY DEF Covered
<1>6. \A p \in covered : count[p] \in breaks(p)
  BY <1>1, <1>5, PathFields
<1>7. \A p \in covered : /\ count[p] \in 0..Horizon /\ count[p] >= 1
                         /\ \A t \in 0..(count[p] - 1) : closed[t][path.value[p]] \in guard
  BY <1>6 DEF FirstBreaks, FirstBreak
<1>8. \A p \in Point : p \notin covered => count[p] = 0
  OBVIOUS
<1>9. \A p \in Point : count[p] \in 0..Horizon
  <2> HIDE DEF count, covered
  <2> QED
    BY <1>4, <1>7, <1>8
<1>10. count \in [Point -> Nat]
  <2>1. \A p \in Point : count[p] \in Nat
    BY <1>4, <1>9
  <2> QED
    BY <2>1
<1> HIDE DEF count, covered, guard
<1>11. Lands(path, count, closed)
  <2> SUFFICES ASSUME NEW p \in Point
               PROVE  closed[count[p]][path.value[p]] \in Value
    BY DEF Lands
  <2>1. count[p] \in 0..(Horizon + 1) /\ path.value[p] \in Value
    BY <1>1, <1>4, <1>9, PathFields
  <2> QED
    BY <1>3, <2>1
<1>12. /\ jump \in PathType(program) /\ DOMAIN jump = DOMAIN path
       /\ jump.cond = covered /\ jump.defined = covered
       /\ jump.value = [p \in Point |-> closed[count[p]][path.value[p]]]
       /\ jump.from = path.from /\ jump.clean = path.clean /\ jump.entries = path.entries
       /\ \A p \in Point : Flat(jump.prefix, p) =
                             Flat(path.prefix, p) \o Power(star, count[p])
  <2>1. star \in Seq(program.paths) /\ covered \subseteq path.cond
    BY <1>5
  <2>2. Jumped(path, covered, star, count, closed, jump)
    BY <1>1, <1>10, <1>11, <2>1, JumpOverFields
  <2> QED
    BY <2>2 DEF Jumped
<1> HIDE DEF jump
<1>13. /\ new.cond = covered /\ new.defined = covered /\ new.at = "body"
       /\ new.value = jump.value /\ new.from = path.from /\ new.clean = path.clean
       /\ new.entries = path.entries /\ new.prefix = jump.prefix
  BY <1>1, <1>12, PathFields DEF AfterPhis
<1>14. new \in PathType(program)
  BY <1>12 DEF AfterPhis, PathType, Ats
<1> HIDE DEF new
<1>15. Entering(program, new)
  BY <1>13 DEF PathOK, Entering
<1>16. ASSUME NEW p \in new.cond
       PROVE  Follows(program, new, p) /\ Leaves(program, new, p) /\ Answered(program, new, p)
  <2> DEFINE word == Flat(path.prefix, p)
             k == count[p]
             v == path.value[p]
  <2>1. p \in covered /\ p \in path.cond /\ p \in Point
    BY <1>1, <1>5, <1>13, <1>16, PathFields
  <2>2. k \in 0..Horizon /\ k >= 1 /\ \A t \in 0..(k - 1) : closed[t][v] \in guard
    BY <1>7, <2>1
  <2>3. Repeats(p, Len(word), star, closed, v, k)
    BY <2>2 DEF Repeats, guard
  <2>4. Flat(new.prefix, p) = word \o Power(star, k)
    BY <1>12, <1>13, <2>1
  <2>5. new.value[p] = closed[k][v] /\ Start(new, p) = Start(path, p)
    BY <1>12, <1>13, <2>1 DEF Start
  <2> HIDE DEF k
  <2>6. GoesFurther(path, p, star, closed, k)
    BY <1>3, <2>1, <2>2, <2>3, JumpFollows
  <2>7. PICK e \in BOOLEAN :
               /\ Walk(program, p, 0, Start(path, p), word \o Power(star, k), At(closed[k][v], e))
               /\ program.kind = "plain" /\ NeverOverflows(program) => e
               /\ Resetting(program) /\ k # 0 => e
    BY <2>6 DEF GoesFurther
  <2>8. k # 0
    BY <1>4, <2>2
  <2>9. Forgiving(program) => e
    BY <2>7, <2>8 DEF Forgiving
  <2>10. Follows(program, new, p)
    BY <2>4, <2>5, <2>7, <2>9 DEF Follows
  <2>11. Leaves(program, new, p)
    BY <1>13 DEF Leaves
  <2>12. Answered(program, new, p)
    BY DEF Answered
  <2> QED
    BY <2>10, <2>11, <2>12
<1> QED
  BY <1>2, <1>13, <1>14, <1>15, <1>16 DEF PathOK, covered, guard

\* The residual path.
LEMMA ResidualOK ==
  ASSUME ProgramOK(program), NEW path, PathOK(program, path), path.at = "backedge", NEW points
  PROVE  LET new == AfterPhis(Only(path, points))
         IN  /\ PathOK(program, new)
             /\ new.cond = path.cond \cap points
             /\ new.value = path.value /\ new.defined = path.defined
             /\ new.entries = path.entries /\ new.at = "body" /\ new.from = path.from
<1> DEFINE here == Only(path, points)
<1>1. /\ PathOK(program, here) /\ here = [path EXCEPT !.cond = path.cond \cap points]
      /\ here.cond = path.cond \cap points
  BY OnlyOK
<1>2. path \in PathType(program)
  BY DEF PathOK
<1>3. /\ here.at = "backedge" /\ here.value = path.value /\ here.defined = path.defined
      /\ here.entries = path.entries /\ here.from = path.from
  BY <1>1, <1>2, PathFields
<1> HIDE DEF here
<1> QED
  BY <1>1, <1>3, AfterPhisOK DEF here

\* The jump over an oracle leaves the loop.
Onward(n) == [i \in 1..n |-> TRUE]
FiniteCount(path) == [p \in Point |-> IF p \in path.cond THEN Remaining(path, p) ELSE 0]
Allowed(path, closed, guard) ==
  {p \in path.cond : \A t \in 0..(FiniteCount(path)[p] - 1) : closed[t][path.value[p]] \in guard}

LEMMA FiniteCountIs ==
  ASSUME ProgramOK(program), NEW path, PathOK(program, path), path.at = "backedge",
         program.kind = "oracle", NEW p \in Point
  PROVE  /\ FiniteCount(path)[p] \in 0..Horizon
         /\ p \in path.cond =>
              /\ FiniteCount(path)[p] = program.answers[p] - Len(Flat(path.prefix, p))
              /\ path.calls[p] = Onward(Len(Flat(path.prefix, p)))
              /\ Len(Flat(path.prefix, p)) \in Nat /\ program.answers[p] \in Nat
<1> DEFINE word == Flat(path.prefix, p)
<1>1. /\ Horizon \in Nat /\ Cardinality(program.value) \in Nat
      /\ Horizon = Cardinality(program.value) + 1
  BY HorizonType DEF Value
<1>2. CASE p \notin path.cond
  BY <1>1, <1>2 DEF FiniteCount
<1>3. CASE p \in path.cond
  <2>1. Follows(program, path, p) /\ Answered(program, path, p)
    BY <1>3 DEF PathOK
  <2>2. PICK d : Walk(program, p, 0, Start(path, p), word, At(path.value[p], d))
    BY <2>1 DEF Follows
  <2>3. word \in Seq(program.paths) /\ p \in program.point
    BY <1>3, Standing DEF Point
  <2>4. path.calls[p] = [i \in 1..Len(word) |-> TRUE]
    BY <2>1 DEF Answered
  <2> HIDE DEF word
  <2>5. /\ Len(word) \in Nat /\ program.answers[p] \in 0..Cardinality(program.value)
        /\ Len(word) <= program.answers[p]
    BY <2>2, <2>3, WalkShort
  <2>6. Len(path.calls[p]) = Len(word)
    BY <2>4, <2>5
  <2>7. FiniteCount(path)[p] = program.answers[p] - Len(word)
    BY <1>3, <2>6 DEF FiniteCount, Remaining
  <2> QED
    BY <1>1, <2>4, <2>5, <2>7 DEF word, Onward
<1> QED
  BY <1>2, <1>3

LEMMA FiniteJumpOK ==
  ASSUME ProgramOK(program), NEW path, PathOK(program, path), path.at = "backedge",
         program.kind = "oracle", path.cond \subseteq path.defined,
         NEW star \in Seq(program.paths) \ {<<>>}, Len(star) = 1, NEW closed,
         closed \in CertifiedForms(Composite(star).update)
  PROVE  LET new == FiniteJump(path, star, closed, Composite(star).guard)
         IN  /\ PathOK(program, new)
             /\ new.cond = Allowed(path, closed, Composite(star).guard)
             /\ new.defined = new.cond /\ new.from = path.from /\ new.entries = path.entries
<1> DEFINE guard == Composite(star).guard
           allowed == Allowed(path, closed, guard)
           count == FiniteCount(path)
           jump == JumpOver(Only(path, allowed), star, count, closed)
           calls == [p \in Point |-> path.calls[p] \o [i \in 1..(count[p] + 1) |-> i <= count[p]]]
           new == [jump EXCEPT !.at = "exit", !.calls = calls]
<1>1. path \in PathType(program) /\ program.error = {}
  BY DEF PathOK, ProgramOK
<1>2. /\ certify_closed_forms(closed, Composite(star).update)
      /\ \A t \in 0..(Horizon + 1), v \in Value : closed[t][v] \in Value
      /\ \A v \in Value : closed[0][v] = v
  BY CertifiedType
<1>3. Horizon \in Nat
  BY HorizonType
<1>4. allowed \subseteq path.cond
      /\ \A p \in allowed : \A t \in 0..(count[p] - 1) : closed[t][path.value[p]] \in guard
  BY DEF Allowed
<1>5. ASSUME NEW p \in Point
      PROVE  /\ count[p] \in 0..Horizon
             /\ p \in path.cond =>
                  /\ count[p] = program.answers[p] - Len(Flat(path.prefix, p))
                  /\ path.calls[p] = Onward(Len(Flat(path.prefix, p)))
                  /\ Len(Flat(path.prefix, p)) \in Nat /\ program.answers[p] \in Nat
  BY FiniteCountIs
<1>6. \A p \in Point : count[p] \in Nat
  BY <1>3, <1>5
<1>7. count \in [Point -> Nat]
  <2>1. \A p \in Point : (IF p \in path.cond THEN Remaining(path, p) ELSE 0) \in Nat
    BY <1>6 DEF FiniteCount
  <2> QED
    BY <2>1 DEF FiniteCount
<1> HIDE DEF count, allowed, guard
<1>8. Lands(path, count, closed)
  <2> SUFFICES ASSUME NEW p \in Point
               PROVE  closed[count[p]][path.value[p]] \in Value
    BY DEF Lands
  <2>1. count[p] \in 0..(Horizon + 1) /\ path.value[p] \in Value
    BY <1>1, <1>3, <1>5, PathFields
  <2> QED
    BY <1>2, <2>1
<1>9. Jumped(path, allowed, star, count, closed, jump)
  <2>1. star \in Seq(program.paths) /\ allowed \subseteq path.cond
    BY <1>4
  <2> QED
    BY <1>1, <1>7, <1>8, <2>1, JumpOverFields
<1>10. FiniteJump(path, star, closed, guard) = new
  <2>1. jump.calls = path.calls
    BY <1>9 DEF Jumped
  <2>2. FiniteJump(path, star, closed, guard) =
          [jump EXCEPT !.at = "exit",
             !.calls = [p \in Point |->
                          @[p] \o [i \in 1..(count[p] + 1) |-> i <= count[p]]]]
    BY DEF FiniteJump, jump, allowed, Allowed, count, FiniteCount
  <2> HIDE DEF jump
  <2> QED
    BY <2>1, <2>2
<1>11. calls \in [Point -> Seq(BOOLEAN)]
  <2>1. ASSUME NEW p \in Point
        PROVE  path.calls[p] \o [i \in 1..(count[p] + 1) |-> i <= count[p]] \in Seq(BOOLEAN)
    <3>1. path.calls[p] \in Seq(BOOLEAN)
      BY <1>1, PathFields
    <3> QED
      BY <1>6, <3>1, AnswersType, Zenon
  <2> QED
    BY <2>1, Zenon
<1>12. \A p \in Point :
         calls[p] = path.calls[p] \o [i \in 1..(count[p] + 1) |-> i <= count[p]]
  BY Zenon
<1> HIDE DEF jump, calls
<1>13. /\ jump \in PathType(program) /\ DOMAIN jump = DOMAIN path
       /\ jump.cond = allowed /\ jump.defined = allowed
       /\ jump.value = [p \in Point |-> closed[count[p]][path.value[p]]]
       /\ jump.from = path.from /\ jump.clean = path.clean /\ jump.entries = path.entries
       /\ \A p \in Point : Flat(jump.prefix, p) =
                             Flat(path.prefix, p) \o Power(star, count[p])
  BY <1>9 DEF Jumped
<1>14. /\ new.cond = allowed /\ new.defined = allowed /\ new.at = "exit"
       /\ new.value = jump.value /\ new.from = path.from /\ new.clean = path.clean
       /\ new.entries = path.entries /\ new.prefix = jump.prefix /\ new.calls = calls
  BY <1>1, <1>13, PathFields
<1>15. new \in PathType(program)
  BY <1>11, <1>13 DEF PathType, Ats, Point
<1> HIDE DEF new
<1>16. Entering(program, new)
  BY <1>14 DEF PathOK, Entering
<1>17. ASSUME NEW p \in new.cond
       PROVE  Follows(program, new, p) /\ Leaves(program, new, p) /\ Answered(program, new, p)
  <2> DEFINE word == Flat(path.prefix, p)
             k == count[p]
             v == path.value[p]
  <2>1. p \in allowed /\ p \in path.cond /\ p \in Point /\ p \in path.defined
    BY <1>1, <1>4, <1>14, <1>17, PathFields
  <2>2. /\ k \in 0..Horizon /\ \A t \in 0..(k - 1) : closed[t][v] \in guard
        /\ k = program.answers[p] - Len(word) /\ path.calls[p] = Onward(Len(word))
        /\ Len(word) \in Nat /\ program.answers[p] \in Nat
    BY <1>4, <1>5, <2>1
  <2>3. Len(word) + k = program.answers[p] /\ k \in Nat
    BY <1>3, <2>2
  <2>4. Repeats(p, Len(word), star, closed, v, k)
    BY <1>1, <2>2, <2>3 DEF Repeats, guard
  <2>5. Flat(new.prefix, p) = word \o Power(star, k)
    BY <1>13, <1>14, <2>1
  <2>6. new.value[p] = closed[k][v] /\ Start(new, p) = Start(path, p)
    BY <1>13, <1>14, <2>1 DEF Start
  <2>7. calls[p] = path.calls[p] \o [i \in 1..(k + 1) |-> i <= k]
    BY <1>12, <2>1, Zenon
  <2>8. PICK e \in BOOLEAN :
               /\ Walk(program, p, 0, Start(path, p), word \o Power(star, k), At(closed[k][v], e))
               /\ Forgiving(program) /\ p \in path.defined => e
               /\ Len(star) = 1 => Len(word \o Power(star, k)) = Len(word) + k
    <3> HIDE DEF k
    <3>1. GoesFurther(path, p, star, closed, k)
      BY <1>2, <2>1, <2>2, <2>4, JumpFollows
    <3> QED
      BY <3>1 DEF GoesFurther
  <2>9. Follows(program, new, p)
    <3> HIDE DEF k, word, v
    <3> QED
      BY <2>1, <2>5, <2>6, <2>8 DEF Follows
  <2>10. Leaves(program, new, p)
    <3>1. Len(Flat(new.prefix, p)) = program.answers[p]
      BY <2>3, <2>5, <2>8
    <3>2. ~(program.answers[p] < program.answers[p])
      BY <2>2
    <3> QED
      BY <1>1, <1>14, <3>1, <3>2 DEF Leaves, Goes
  <2>11. Answered(program, new, p)
    <3> HIDE DEF k, word
    <3> DEFINE Continued(n, m) ==
                 [i \in 1..n |-> TRUE] \o [i \in 1..(m + 1) |-> i <= m]
                   = [i \in 1..((n + m) + 1) |-> i <= n + m]
    <3>1. \A n, m \in Nat : Continued(n, m)
      BY TrueJoined, Zenon
    <3>2. Continued(Len(word), k)
      <4> HIDE DEF Continued
      <4> QED
        BY <2>2, <2>3, <3>1
    <3>3. calls[p] = [i \in 1..((Len(word) + k) + 1) |-> i <= Len(word) + k]
      BY <2>2, <2>7, <3>2, Zenon DEF Onward
    <3> QED
      BY <1>14, <2>3, <3>3, Zenon DEF Answered
  <2> QED
    BY <2>9, <2>10, <2>11
<1> QED
  BY <1>10, <1>14, <1>15, <1>16, <1>17 DEF PathOK, allowed, guard

(***************************************************************************)
(* The summary of a nested loop                                            *)
(***************************************************************************)
LEMMA SummaryBuilt ==
  ASSUME ProgramOK(program), program.kind = "family", NEW a \in program.paths, NEW closed,
         closed \in CertifiedForms(Composite(<<a>>).update), NEW count
  PROVE  SummaryOK(program,
           [word |-> <<a>>, count |-> count, closed |-> closed,
            domain |-> Domain(count, closed, Composite(<<a>>).guard)])
<1> DEFINE word == <<a>>
           guard == Composite(word).guard
           domain == Domain(count, closed, guard)
           s == [word |-> word, count |-> count, closed |-> closed, domain |-> domain]
<1>1. word \in Seq(program.paths) /\ Len(word) = 1
  BY OneSymbol
<1>2. s.word = <<a>> /\ s.count = count /\ s.closed = closed /\ s.domain = domain
  OBVIOUS
<1> HIDE DEF word, s
<1>3. /\ certify_closed_forms(closed, Composite(word).update)
      /\ \A t \in 0..(Horizon + 1), v \in Value : closed[t][v] \in Value
      /\ \A v \in Value : closed[0][v] = v
  BY <1>1, CertifiedType DEF word
<1>4. Horizon \in Nat
  BY HorizonType
<1> HIDE DEF guard
<1>5. ASSUME NEW v \in domain
      PROVE  LET k == count[v]
             IN  /\ k \in 0..Horizon /\ v \in Value
                 /\ closed[k][v] \notin Enabled(program)
                 /\ \A t \in 0..(k - 1) : closed[t][v] \in guard
                 /\ \A t \in 0..k : closed[t][v] \notin program.error
  BY DEF Domain, Enabled
<1> HIDE DEF domain
<1>6. ASSUME NEW v \in domain, NEW d \in BOOLEAN, NEW p \in program.point
      PROVE  LET k == s.count[v]
             IN  /\ k \in Nat /\ v \in program.value /\ s.closed[k][v] \in program.value
                 /\ s.closed[k][v] \notin program.error /\ s.closed[k][v] \notin Enabled(program)
                 /\ \E e \in BOOLEAN :
                      Safely(program, p, 0, At(v, d), Power(s.word, k), At(s.closed[k][v], e))
  <2> DEFINE k == count[v]
  <2>1. /\ k \in 0..Horizon /\ v \in Value
        /\ closed[k][v] \notin Enabled(program)
        /\ \A t \in 0..(k - 1) : closed[t][v] \in guard
        /\ \A t \in 0..k : closed[t][v] \notin program.error
    BY <1>5
  <2> HIDE DEF k
  <2>2. k \in Nat /\ k \in 0..k /\ k \in 0..(Horizon + 1)
    BY <1>4, <2>1
  <2>3. Repeats(p, 0, word, closed, v, k)
    <3>1. \A t \in 0..(k - 1) : t \in 0..k
      BY <2>2
    <3> QED
      BY <1>1, <2>1, <3>1 DEF Repeats, guard
  <2>4. JumpsTo(p, 0, word, closed, v, k)
    <3>1. p \in Point /\ 0 \in Nat
      BY DEF Point
    <3> QED
      BY <1>1, <1>3, <2>1, <2>3, <3>1, PowerWalks
  <2>5. \E e \in BOOLEAN :
          Safely(program, p, 0, At(v, d), Power(word, k), At(closed[k][v], e))
    BY <2>4 DEF JumpsTo
  <2>6. closed[k][v] \in program.value /\ v \in program.value
    BY <1>3, <2>1, <2>2 DEF Value
  <2> QED
    BY <1>2, <2>1, <2>2, <2>5, <2>6 DEF k, word
<1>7. \A v \in program.value : s.closed[0][v] \in program.value
  BY <1>2, <1>3 DEF Value
<1> QED
  BY <1>2, <1>6, <1>7 DEF SummaryOK, s, word, domain, guard

\* The loop is completed by its summary.
NestedCount(path) ==
  [p \in Point |-> IF p \in path.cond THEN summary.count[path.value[p]] ELSE 0]
Completed(path) ==
  [path EXCEPT
     !.at = "exit",
     !.value = [p \in Point |-> summary.closed[NestedCount(path)[p]][@[p]]],
     !.defined = path.cond,
     !.prefix = <<SymbolicSegment(summary.word, NestedCount(path))>>,
     !.candidates = {}]

LEMMA CompletedOK ==
  ASSUME ProgramOK(program), SummaryOK(program, summary), summary # NoSummary,
         NEW path, PathOK(program, path), path.at = "entry", InDomain(path)
  PROVE  /\ PathOK(program, Completed(path))
         /\ Completed(path).cond = path.cond /\ Completed(path).defined = path.cond
         /\ Completed(path).from = path.from /\ Completed(path).entries = path.entries
<1> DEFINE count == NestedCount(path)
           value == [p \in Point |-> summary.closed[count[p]][path.value[p]]]
           segment == SymbolicSegment(summary.word, count)
           prefix == <<segment>>
           new == [path EXCEPT !.at = "exit", !.value = value, !.defined = path.cond,
                               !.prefix = prefix, !.candidates = {}]
<1>1. path \in PathType(program) /\ program.kind = "family"
  BY DEF PathOK, SummaryOK
<1>2. Completed(path) = new
  BY DEF Completed
<1>3. PICK a \in program.paths :
             /\ summary.word = <<a>>
             /\ \A v \in summary.domain, d \in BOOLEAN, p \in program.point :
                  LET k == summary.count[v]
                  IN  /\ k \in Nat /\ v \in program.value /\ summary.closed[k][v] \in program.value
                      /\ summary.closed[k][v] \notin program.error
                      /\ summary.closed[k][v] \notin Enabled(program)
                      /\ \E e \in BOOLEAN :
                           Safely(program, p, 0, At(v, d), Power(summary.word, k),
                                  At(summary.closed[k][v], e))
  BY DEF SummaryOK
<1>4. \A v \in Value : summary.closed[0][v] \in Value
  BY DEF SummaryOK, Value
<1>5. ASSUME NEW p \in path.cond
      PROVE  /\ p \in Point /\ p \in path.defined /\ path.value[p] \in summary.domain
             /\ count[p] = summary.count[path.value[p]]
  BY <1>1, PathFields DEF InDomain, NestedCount
<1>6. \A p \in Point : p \notin path.cond => count[p] = 0
  BY DEF NestedCount
<1>7. ASSUME NEW p \in path.cond
      PROVE  LET k == count[p] v == path.value[p]
             IN  /\ k \in Nat /\ summary.closed[k][v] \in Value
                 /\ summary.closed[k][v] \notin program.error
                 /\ summary.closed[k][v] \notin Enabled(program)
                 /\ \E e \in BOOLEAN :
                      Safely(program, p, 0, At(v, TRUE), Power(summary.word, k),
                             At(summary.closed[k][v], e))
  <2> DEFINE v == path.value[p]
             k == summary.count[v]
  <2>1. v \in summary.domain /\ p \in program.point /\ count[p] = k
    BY <1>5 DEF Point
  <2> HIDE DEF v, count
  <2>2. /\ k \in Nat /\ summary.closed[k][v] \in Value
        /\ summary.closed[k][v] \notin program.error
        /\ summary.closed[k][v] \notin Enabled(program)
    BY <1>3, <2>1 DEF Value
  <2>3. \E e \in BOOLEAN :
          Safely(program, p, 0, At(v, TRUE), Power(summary.word, k), At(summary.closed[k][v], e))
    <3>1. \A d \in BOOLEAN : \E e \in BOOLEAN :
            Safely(program, p, 0, At(v, d), Power(summary.word, k), At(summary.closed[k][v], e))
      BY <1>3, <2>1
    <3> QED
      BY <3>1, Zenon
  <2> QED
    BY <2>1, <2>2, <2>3, Zenon DEF v
<1>8. \A p \in Point : count[p] \in Nat
  <2> HIDE DEF count
  <2>1. \A p \in path.cond : count[p] \in Nat
    BY <1>7, Zenon
  <2> QED
    BY <1>6, <2>1
<1>9. count \in [Point -> Nat]
  <2>1. \A p \in Point :
          (IF p \in path.cond THEN summary.count[path.value[p]] ELSE 0) \in Nat
    BY <1>8 DEF NestedCount
  <2> QED
    BY <2>1 DEF NestedCount
<1> HIDE DEF count
<1>10. value \in [Point -> Value]
  <2> SUFFICES ASSUME NEW p \in Point
               PROVE  summary.closed[count[p]][path.value[p]] \in Value
    OBVIOUS
  <2>1. path.value[p] \in Value
    BY <1>1, PathFields
  <2> QED
    BY <1>4, <1>6, <1>7, <2>1
<1>11. summary.word \in Seq(program.paths)
  BY <1>3, OneSymbol
<1>12. segment \in Segment(program) /\ segment.word = summary.word /\ segment.exponent = count
  BY <1>9, <1>11 DEF SymbolicSegment, Segment, Point
<1> HIDE DEF segment
<1>13. prefix \in Seq(Segment(program))
  BY <1>12, OneSymbol
<1>14. ASSUME NEW p \in Point
       PROVE  Flat(prefix, p) = Power(summary.word, count[p])
  <2>1. <<>> \in Seq(Segment(program)) /\ Append(<<>>, segment) = prefix
    OBVIOUS
  <2>2. Flat(Append(<<>>, segment), p) = Flat(<<>>, p) \o Power(segment.word, segment.exponent[p])
    BY <1>12, <2>1, FlatAppend DEF Point
  <2>3. Power(summary.word, count[p]) \in Seq(program.paths)
    BY <1>8, <1>11, PowerNext
  <2>4. <<>> \o Power(summary.word, count[p]) = Power(summary.word, count[p])
    BY <2>3
  <2> QED
    BY <1>12, <2>1, <2>2, <2>4, FlatEmpty
<1> HIDE DEF value, prefix
<1>15. /\ new.at = "exit" /\ new.value = value /\ new.defined = path.cond
       /\ new.prefix = prefix /\ new.cond = path.cond /\ new.from = path.from
       /\ new.clean = path.clean /\ new.entries = path.entries
  BY <1>1, PathFields
<1>16. new \in PathType(program)
  <2>1. path.cond \subseteq Point
    BY <1>1, PathFields
  <2> QED
    BY <1>1, <1>10, <1>13, <2>1 DEF PathType, Ats, Point, Value
<1> HIDE DEF new
<1>17. Entering(program, new)
  BY <1>15 DEF PathOK, Entering
<1>18. ASSUME NEW p \in new.cond
       PROVE  Follows(program, new, p) /\ Leaves(program, new, p) /\ Answered(program, new, p)
  <2> DEFINE k == count[p]
             v == path.value[p]
  <2>1. p \in path.cond /\ p \in Point /\ p \in path.defined
    BY <1>5, <1>15, <1>18
  <2>2. path.value = path.from /\ path.defined \subseteq path.clean
    BY DEF PathOK, Entering
  <2>3. Start(new, p) = At(v, TRUE)
    <3>1. (p \in new.clean) = TRUE
      BY <1>15, <2>1, <2>2
    <3>2. new.from[p] = v
      BY <1>15, <2>2
    <3> QED
      BY <3>1, <3>2, Zenon DEF Start
  <2>4. new.value[p] = summary.closed[k][v]
    BY <1>15, <2>1 DEF value
  <2>5. Flat(new.prefix, p) = Power(summary.word, k)
    BY <1>14, <1>15, <2>1
  <2>6. /\ k \in Nat /\ summary.closed[k][v] \in Value
        /\ summary.closed[k][v] \notin program.error
        /\ summary.closed[k][v] \notin Enabled(program)
        /\ \E e \in BOOLEAN :
             Safely(program, p, 0, At(v, TRUE), Power(summary.word, k),
                    At(summary.closed[k][v], e))
    BY <1>7, <2>1, Zenon
  <2> HIDE DEF k, v
  <2>7. PICK e \in BOOLEAN : Safely(program, p, 0, At(v, TRUE), Power(summary.word, k),
                                    At(summary.closed[k][v], e))
    BY <2>6, Zenon
  <2>8. Walk(program, p, 0, Start(new, p), Power(summary.word, k), At(summary.closed[k][v], e))
    BY <2>3, <2>7, Zenon DEF Safely
  <2>9. e
    <3>1. At(v, TRUE).defined /\ At(summary.closed[k][v], e).defined = e
      BY DEF At
    <3> QED
      BY <2>7, <3>1, Zenon DEF Safely
  <2>10. Follows(program, new, p)
    BY <2>4, <2>5, <2>8, <2>9 DEF Follows
  <2>11. Leaves(program, new, p)
    BY <1>1, <1>15, <2>4, <2>6 DEF Leaves, Goes
  <2>12. Answered(program, new, p)
    BY <1>1 DEF Answered
  <2> QED
    BY <2>10, <2>11, <2>12
<1> QED
  BY <1>2, <1>15, <1>16, <1>17, <1>18 DEF PathOK

(***************************************************************************)
(* Every step keeps the invariant                                          *)
(***************************************************************************)
LEMMA Replaced ==
  ASSUME NEW A, NEW s \in Seq(A), s # <<>>, NEW r \in Seq(A)
  PROVE  r \o Tail(s) \in Seq(A)
OBVIOUS

LEMMA FirstOf ==
  ASSUME NEW A, NEW s \in Seq(A), s # <<>>
  PROVE  s[1] \in A /\ Tail(s) \in Seq(A)
OBVIOUS

LEMMA TwoSymbols ==
  ASSUME NEW A, NEW a \in A, NEW b \in A
  PROVE  <<a, b>> \in Seq(A)
OBVIOUS

LEMMA SoundIs ==
  ASSUME NEW path
  PROVE  path \in Sound(program) <=> PathOK(program, path)
BY DEF Sound, PathOK

Successors(path) ==
  {Through(path, a) : a \in program.paths} \cup {Leaving(path), Violating(path)}

LEMMA SuccessorsFinite ==
  ASSUME ProgramOK(program), NEW path
  PROVE  IsFiniteSet(Successors(path))
<1> DEFINE T == {Through(path, a) : a \in program.paths}
           f == [a \in program.paths |-> Through(path, a)]
<1>1. IsFiniteSet(program.paths)
  BY DEF ProgramOK
<1>2. f \in Surjection(program.paths, T)
  BY DEF Surjection
<1>3. IsFiniteSet(T)
  <2> HIDE DEF f, T
  <2> QED
    BY <1>1, <1>2, FS_Surjection
<1>4. Successors(path) = (T \cup {Leaving(path)}) \cup {Violating(path)}
  BY DEF Successors
<1> HIDE DEF T
<1>5. IsFiniteSet(T \cup {Leaving(path)})
  BY <1>3, FS_AddElement
<1> DEFINE U == T \cup {Leaving(path)}
<1>6. Successors(path) = U \cup {Violating(path)} /\ IsFiniteSet(U)
  BY <1>4, <1>5
<1> HIDE DEF U
<1> QED
  BY <1>6, FS_AddElement

LEMMA SuccessorsSound ==
  ASSUME ProgramOK(program), NEW path, PathOK(program, path), path.at = "body"
  PROVE  Feasible(Successors(path)) \in Seq(Sound(program))
<1>1. Successors(path) \subseteq Sound(program)
  <2>1. \A a \in program.paths : PathOK(program, Through(path, a))
    BY ThroughOK
  <2>2. PathOK(program, Leaving(path)) /\ PathOK(program, Violating(path))
    BY LeavingOK, ViolatingOK
  <2> QED
    BY <2>1, <2>2, SoundIs DEF Successors
<1>2. Feasible(Successors(path)) \in Seq(Successors(path))
  BY SuccessorsFinite, FeasibleIs
<1> QED
  BY <1>1, <1>2

LEMMA InitInv ==
  Init => Inv
<1> SUFFICES ASSUME Init
             PROVE  Inv
  OBVIOUS
<1>1. program \in Programs /\ ProgramOK(program)
  BY AcceleratorAssumption DEF Init
<1>2. InitialPath \in Sound(program)
  BY <1>1, InitialPathOK, SoundIs
<1>3. worklist \in Seq(Sound(program))
  BY <1>2, OneSymbol DEF Init
<1>4. SummaryOK(program, summary)
  BY DEF Init, SummaryOK
<1> QED
  BY <1>1, <1>3, <1>4 DEF Inv, Init

\* What is at hand in every step.
LEMMA Taken ==
  ASSUME Inv
  PROVE  /\ ProgramOK(program)
         /\ worklist # <<>> => PathOK(program, Top)
         /\ worklist # <<>> => worklist \in Seq(Sound(program)) /\ Top \in Sound(program)
<1>1. ProgramOK(program)
  BY AcceleratorAssumption DEF Inv
<1>2. worklist # <<>> => Top \in Sound(program)
  BY FirstOf DEF Inv, Top
<1> QED
  BY <1>1, <1>2, SoundIs DEF Inv

\* A path is replaced by others.
LEMMA ReplaceInv ==
  ASSUME Inv, worklist # <<>>, NEW paths \in Seq(Sound(program)), Replace(paths),
         UNCHANGED <<program, finished, summary>>
  PROVE  Inv'
<1>1. paths \o Tail(worklist) \in Seq(Sound(program))
  BY Replaced DEF Inv
<1>2. worklist' \in Seq(Sound(program))
  BY <1>1 DEF Replace
<1> QED
  BY <1>2 DEF Inv

LEMMA NextInv ==
  Inv /\ [Next]_vars => Inv'
<1> SUFFICES ASSUME Inv, [Next]_vars
             PROVE  Inv'
  OBVIOUS
<1> USE Taken
<1>1. CASE OrdinaryPhi
  <2>1. worklist # <<>> /\ Top.at \in {"entry", "backedge"} /\ Replace(<<AfterPhis(Top)>>)
        /\ UNCHANGED <<program, finished, summary>>
    BY <1>1 DEF OrdinaryPhi
  <2>2. PathOK(program, AfterPhis(Top))
    BY <2>1, AfterPhisOK
  <2>3. <<AfterPhis(Top)>> \in Seq(Sound(program))
    BY <2>2, SoundIs, OneSymbol
  <2> QED
    BY <2>1, <2>3, ReplaceInv
<1>2. CASE Accelerate
  <2>1. /\ worklist # <<>> /\ Top.at = "backedge" /\ program.kind = "plain"
        /\ UNCHANGED <<program, finished, summary>>
    BY <1>2 DEF Accelerate
  <2>2. PICK star \in Top.candidates : \E closed \in CertifiedForms(Composite(star).update) :
               LET jump == FirstBreakJump(Top, star, closed, Composite(star).guard)
                   residual == AfterPhis(Only(Top, Point \ jump.cond))
               IN  /\ jump.cond # {}
                   /\ \/ Replace(<<jump, residual>>)
                      \/ residual.cond = {} /\ Replace(<<jump>>)
    BY <1>2 DEF Accelerate
  <2>3. PICK closed \in CertifiedForms(Composite(star).update) :
               LET jump == FirstBreakJump(Top, star, closed, Composite(star).guard)
                   residual == AfterPhis(Only(Top, Point \ jump.cond))
               IN  /\ jump.cond # {}
                   /\ \/ Replace(<<jump, residual>>)
                      \/ residual.cond = {} /\ Replace(<<jump>>)
    BY <2>2
  <2> DEFINE jump == FirstBreakJump(Top, star, closed, Composite(star).guard)
             residual == AfterPhis(Only(Top, Point \ jump.cond))
  <2>4. star \in Seq(program.paths) \ {<<>>}
    BY <2>1, <2>2 DEF PathOK, PathType
  <2>5. PathOK(program, jump)
    BY <2>1, <2>3, <2>4, FirstBreakJumpOK
  <2>6. PathOK(program, residual)
    <3> HIDE DEF jump
    <3> QED
      BY <2>1, ResidualOK
  <2>7. Replace(<<jump, residual>>) \/ Replace(<<jump>>)
    BY <2>3
  <2> HIDE DEF jump, residual
  <2>8. <<jump, residual>> \in Seq(Sound(program)) /\ <<jump>> \in Seq(Sound(program))
    BY <2>5, <2>6, SoundIs, OneSymbol, TwoSymbols
  <2> QED
    BY <2>1, <2>7, <2>8, ReplaceInv
<1>3. CASE AccelerateFinite
  <2>1. /\ worklist # <<>> /\ Top.at = "backedge" /\ program.kind = "oracle"
        /\ Top.cond \subseteq Top.defined
        /\ UNCHANGED <<program, finished, summary>>
    BY <1>3 DEF AccelerateFinite
  <2>2. PICK star \in Top.candidates :
          /\ Len(star) = 1
          /\ \E closed \in CertifiedForms(Composite(star).update) :
               Replace(Feasible({FiniteJump(Top, star, closed, Composite(star).guard)}))
    BY <1>3 DEF AccelerateFinite
  <2>3. PICK closed \in CertifiedForms(Composite(star).update) :
               Replace(Feasible({FiniteJump(Top, star, closed, Composite(star).guard)}))
    BY <2>2
  <2> DEFINE jump == FiniteJump(Top, star, closed, Composite(star).guard)
  <2>4. star \in Seq(program.paths) \ {<<>>}
    BY <2>1, <2>2 DEF PathOK, PathType
  <2>5. PathOK(program, jump)
    BY <2>1, <2>2, <2>3, <2>4, FiniteJumpOK
  <2>6. Replace(Feasible({jump}))
    BY <2>3
  <2> HIDE DEF jump
  <2>7. Feasible({jump}) \in Seq(Sound(program))
    <3>1. IsFiniteSet({jump})
      BY FS_Singleton
    <3>2. Feasible({jump}) \in Seq({jump})
      BY <3>1, FeasibleIs
    <3>3. {jump} \subseteq Sound(program)
      BY <2>5, SoundIs
    <3> QED
      BY <3>2, <3>3
  <2> QED
    BY <2>1, <2>6, <2>7, ReplaceInv
<1>4. CASE BuildNestedSummary
  <2>1. /\ program.kind = "family" /\ UNCHANGED <<program, worklist, finished>>
        /\ \E a \in program.paths :
             \E closed \in CertifiedForms(Composite(<<a>>).update) : \E count :
               summary' = [word |-> <<a>>, count |-> count, closed |-> closed,
                           domain |-> Domain(count, closed, Composite(<<a>>).guard)]
    BY <1>4 DEF BuildNestedSummary
  <2>2. SummaryOK(program, summary')
    BY <2>1, SummaryBuilt
  <2> QED
    BY <2>1, <2>2 DEF Inv
<1>5. CASE AccelerateNested
  <2>1. /\ worklist # <<>> /\ Top.at = "entry" /\ summary # NoSummary /\ InDomain(Top)
        /\ UNCHANGED <<program, finished, summary>>
        /\ Replace(<<Completed(Top)>>)
    BY <1>5 DEF AccelerateNested, Completed, NestedCount
  <2>2. PathOK(program, Completed(Top))
    BY <2>1, CompletedOK DEF Inv
  <2>3. <<Completed(Top)>> \in Seq(Sound(program))
    BY <2>2, SoundIs, OneSymbol
  <2> QED
    BY <2>1, <2>3, ReplaceInv
<1>6. CASE Iterate
  <2>1. /\ worklist # <<>> /\ Top.at = "body"
        /\ Replace(Feasible(Successors(Top)))
        /\ UNCHANGED <<program, finished, summary>>
    BY <1>6 DEF Iterate, Successors
  <2>2. Feasible(Successors(Top)) \in Seq(Sound(program))
    BY <2>1, SuccessorsSound
  <2> QED
    BY <2>1, <2>2, ReplaceInv
<1>7. CASE Reenter
  <2>1. /\ worklist # <<>> /\ Top.at = "exit" /\ Top.entries > 0
        /\ Replace(<<Reentered(Top)>>)
        /\ UNCHANGED <<program, finished, summary>>
    BY <1>7 DEF Reenter, Reentered
  <2>2. PathOK(program, Reentered(Top))
    BY <2>1, ReenterOK
  <2>3. <<Reentered(Top)>> \in Seq(Sound(program))
    BY <2>2, SoundIs, OneSymbol
  <2> QED
    BY <2>1, <2>3, ReplaceInv
<1>8. CASE Finish
  <2>1. /\ worklist # <<>> /\ Top.at \in {"exit", "error"}
        /\ finished' = finished \cup {Top} /\ Replace(<<>>)
        /\ UNCHANGED <<program, summary>>
    BY <1>8 DEF Finish
  <2>2. worklist' \in Seq(Sound(program))
    <3>1. <<>> \in Seq(Sound(program))
      OBVIOUS
    <3>2. <<>> \o Tail(worklist) \in Seq(Sound(program))
      BY <2>1, <3>1, Replaced
    <3> QED
      BY <2>1, <3>2 DEF Replace
  <2>3. finished' \subseteq Sound(program)
    BY <2>1 DEF Inv
  <2> QED
    BY <2>1, <2>2, <2>3 DEF Inv
<1>9. CASE UNCHANGED vars
  BY <1>9 DEF vars, Inv
<1> QED
  BY <1>1, <1>2, <1>3, <1>4, <1>5, <1>6, <1>7, <1>8, <1>9 DEF Next

LEMMA Invariance ==
  Spec => []Inv
BY InitInv, NextInv, PTL DEF Spec

(***************************************************************************)
(* What paths claim                                                        *)
(***************************************************************************)
LEMMA EveryPath ==
  ASSUME Inv, NEW path \in Range(worklist) \cup finished
  PROVE  ProgramOK(program) /\ PathOK(program, path)
<1>1. path \in Sound(program)
  <2>1. CASE path \in finished
    BY <2>1 DEF Inv
  <2>2. CASE path \in Range(worklist)
    <3>1. PICK i \in DOMAIN worklist : path = worklist[i]
      BY <2>2 DEF Range
    <3> QED
      BY <3>1 DEF Inv
  <2> QED
    BY <2>1, <2>2
<1> QED
  BY <1>1, SoundIs, Taken

\* Every path, powers of jumps included, is what the loop does at each of its
\* points, and leaves it where the loop does; whatever closed forms, counts and
\* candidates are proposed (PathExpressionAccelerator::accelerate,
\* accelerate_arbitrary_finite, accelerate_nested).
THEOREM PathsAreExact == Spec => []Exact
<1>1. Inv => Exact
  <2> SUFFICES ASSUME Inv, NEW path \in Range(worklist) \cup finished, NEW p \in path.cond
               PROVE  LET word == Word(path, p)
                          at == Replay(path, p)
                          end == at[Len(word)]
                      IN  /\ \A i \in 1..Len(word) :
                               /\ Continues(at[i - 1].value, i - 1, p)
                               /\ at[i - 1].value \in program.enabled[word[i]] \ program.error
                          /\ path.value[p] = end.value
                          /\ path.at = "error" => end.value \in program.error
                          /\ path.at = "exit" => /\ end.value \notin program.error
                                                 /\ ~Continues(end.value, Len(word), p)
    BY DEF Exact
  <2>1. ProgramOK(program) /\ PathOK(program, path)
    BY EveryPath
  <2> QED
    BY <2>1, FollowsIsExact
<1> QED
  BY <1>1, Invariance, PTL

\* Where a plain loop forgets what overflowed, or nothing overflows, a PHI that
\* a path takes for defined is defined; so it is in every other loop
\* (AcceleratedState: a jump makes all PHIs defined).
THEOREM JumpsForgetNoPoison ==
  ASSUME \A g \in Programs : Forgiving(g)
  PROVE  Spec => []PoisonStays
<1>1. Inv => PoisonStays
  <2> SUFFICES ASSUME Inv, NEW path \in Range(worklist) \cup finished,
                      NEW p \in path.cond \cap path.defined
               PROVE  Replay(path, p)[Len(Word(path, p))].defined
    BY DEF PoisonStays
  <2>1. ProgramOK(program) /\ PathOK(program, path) /\ Forgiving(program)
    BY EveryPath DEF Inv
  <2>2. p \in path.cond /\ p \in path.defined
    OBVIOUS
  <2> QED
    BY <2>1, <2>2, FollowsIsExact
<1> QED
  BY <1>1, Invariance, PTL

\* The answers recorded for the oracle make the program take the path
\* (what Witness.cpp prints).
THEOREM AnswersReplay == Spec => []EvidenceReplays
<1>1. Inv => EvidenceReplays
  <2> SUFFICES ASSUME Inv, program.kind = "oracle", NEW path \in finished, NEW p \in path.cond
               PROVE  path.calls[p] = [i \in 1..(program.answers[p] + 1) |->
                                         i <= program.answers[p]]
    BY DEF EvidenceReplays
  <2>1. ProgramOK(program) /\ PathOK(program, path) /\ path.at \in {"exit", "error"}
    BY EveryPath DEF Inv
  <2> QED
    BY <2>1, OracleAnswers
<1> QED
  BY <1>1, Invariance, PTL

(***************************************************************************)
(* Each input is on one path                                               *)
(***************************************************************************)
\* The values p may have at the header are in S, which has no overflows.
Home(g, S, p) ==
  /\ S \subseteq g.value
  /\ \A v \in S, a \in g.paths : v \in g.enabled[a] => v \in g.ok[a]
  /\ g.initial[p] \in S
  /\ \A v \in S, a \in g.paths : v \in g.enabled[a] \ g.error => g.update[a][v] \in S
  /\ g.entries > 0 => \A v \in S : v \notin Enabled(g) => g.again[v] \in S
Fresh(g, p) == \E S : Home(g, S, p)

LEMMA CleanIs ==
  ASSUME NEW p, Clean(p)
  PROVE  Fresh(program, p)
<1>1. PICK S \in SUBSET {v \in Value : \A a \in program.paths :
                                   v \in program.enabled[a] => v \in program.ok[a]} :
        /\ program.initial[p] \in S
        /\ \A v \in S :
             /\ \A a \in program.paths :
                  v \in program.enabled[a] \ program.error => program.update[a][v] \in S
             /\ program.entries > 0 /\ v \notin UNION {program.enabled[a] : a \in program.paths}
                  => program.again[v] \in S
  BY DEF Clean
<1>2. Home(program, S, p)
  BY <1>1 DEF Home, Enabled, Value
<1> QED
  BY <1>2 DEF Fresh

\* What a path has of the inputs that compute no poison.
Holds(g, path, S, p) == path.from[p] \in S /\ p \in path.defined
Tame(g, path) ==
  /\ path.entries > 0 => g.entries > 0
  /\ \A p \in path.cond : \A S : Home(g, S, p) => Holds(g, path, S, p)

Meets(path, other) == path.cond \cap other.cond # {}
IsOn(p, paths) == \E i \in 1..Len(paths) : p \in paths[i].cond
Single(paths) == \A i, j \in 1..Len(paths) : i # j => ~Meets(paths[i], paths[j])

Once(g, w, f) ==
  /\ Single(w)
  /\ \A i \in 1..Len(w), path \in f : ~Meets(w[i], path)
  /\ \A path, other \in f : path # other => ~Meets(path, other)
  /\ \A p \in g.point : Fresh(g, p) => IsOn(p, w) \/ \E path \in f : p \in path.cond
  /\ \A i \in 1..Len(w) : Tame(g, w[i])

\* The paths that replace one share its inputs.
Splits(g, path, paths) ==
  /\ Single(paths)
  /\ \A i \in 1..Len(paths) : paths[i].cond \subseteq path.cond /\ Tame(g, paths[i])
  /\ \A p \in path.cond : Fresh(g, p) => IsOn(p, paths)

ReplacesFirst(w, r, new) ==
  /\ \A i \in 1..Len(new) :
       \/ i \in 1..Len(r) /\ new[i] = r[i]
       \/ (i - Len(r)) + 1 \in 2..Len(w) /\ new[i] = w[(i - Len(r)) + 1]
  /\ \A i \in 1..Len(r) : i \in 1..Len(new) /\ new[i] = r[i]
  /\ \A i \in 2..Len(w) : (i - 1) + Len(r) \in 1..Len(new) /\ new[(i - 1) + Len(r)] = w[i]

LEMMA JoinedTail ==
  ASSUME NEW A, NEW w \in Seq(A), w # <<>>, NEW r \in Seq(A)
  PROVE  ReplacesFirst(w, r, r \o Tail(w))
<1> DEFINE new == r \o Tail(w)
           n == Len(w)
           k == Len(r)
<1>1. n \in Nat \ {0} /\ k \in Nat /\ Len(new) = k + (n - 1)
  OBVIOUS
<1>2. \A i \in 1..k : new[i] = r[i]
  OBVIOUS
<1>3. Tail(w) \in Seq(A) /\ Len(Tail(w)) = n - 1 /\ \A j \in 1..(n - 1) : Tail(w)[j] = w[j + 1]
  OBVIOUS
<1>4. ASSUME NEW i \in 2..n
      PROVE  (i - 1) + k \in 1..Len(new) /\ new[(i - 1) + k] = w[i]
  <2>1. i - 1 \in 1..(n - 1) /\ (i - 1) + 1 = i
    BY <1>1
  <2>2. \A j \in 1..Len(Tail(w)) : new[k + j] = Tail(w)[j]
    BY <1>1, <1>3
  <2>3. new[k + (i - 1)] = Tail(w)[i - 1]
    BY <1>3, <2>1, <2>2
  <2> QED
    BY <1>1, <1>3, <2>1, <2>3
<1> HIDE DEF new, n, k
<1>5. ASSUME NEW i \in 1..Len(new), i \notin 1..k
      PROVE  (i - k) + 1 \in 2..n /\ new[i] = w[(i - k) + 1]
  <2>1. (i - k) + 1 \in 2..n /\ (((i - k) + 1) - 1) + k = i
    BY <1>1, <1>5
  <2> QED
    BY <1>4, <2>1
<1>6. \A i \in 1..k : i \in 1..Len(new)
  BY <1>1
<1> QED
  BY <1>2, <1>4, <1>5, <1>6 DEF ReplacesFirst, new, n, k

LEMMA SplitOnce ==
  ASSUME NEW A, NEW g, NEW w \in Seq(A), w # <<>>, NEW f, Once(g, w, f),
         NEW r \in Seq(A), Splits(g, w[1], r)
  PROVE  Once(g, r \o Tail(w), f)
<1> DEFINE new == r \o Tail(w)
           n == Len(w)
           k == Len(r)
<1>1. /\ \A i \in 1..Len(new) :
           \/ i \in 1..k /\ new[i] = r[i]
           \/ (i - k) + 1 \in 2..n /\ new[i] = w[(i - k) + 1]
      /\ \A i \in 1..k : i \in 1..Len(new) /\ new[i] = r[i]
      /\ \A i \in 2..n : (i - 1) + k \in 1..Len(new) /\ new[(i - 1) + k] = w[i]
  <2>1. ReplacesFirst(w, r, new)
    BY JoinedTail
  <2> QED
    BY <2>1 DEF ReplacesFirst
<1>2. n \in Nat \ {0} /\ k \in Nat /\ Len(new) \in Nat
  OBVIOUS
<1>3. /\ \A i \in 1..k : r[i].cond \subseteq w[1].cond /\ Tame(g, r[i])
      /\ \A i, j \in 1..k : i # j => ~Meets(r[i], r[j])
  BY DEF Splits, Single
<1>4. /\ \A i, j \in 1..n : i # j => ~Meets(w[i], w[j])
      /\ \A i \in 1..n, path \in f : ~Meets(w[i], path)
      /\ \A i \in 1..n : Tame(g, w[i])
  BY DEF Once, Single
<1>5. \A i \in 1..k : \A other : Meets(r[i], other) => Meets(w[1], other)
  BY <1>3 DEF Meets
<1>6. \A path, other : Meets(path, other) => Meets(other, path)
  BY DEF Meets
<1> HIDE DEF new, n, k
<1>7. Single(new)
  <2> SUFFICES ASSUME NEW i \in 1..Len(new), NEW j \in 1..Len(new), i # j
               PROVE  ~Meets(new[i], new[j])
    BY DEF Single
  <2>1. CASE i \in 1..k /\ new[i] = r[i] /\ j \in 1..k /\ new[j] = r[j]
    BY <1>3, <2>1
  <2>2. ASSUME NEW x \in 1..Len(new), NEW y \in 1..Len(new),
               x \in 1..k /\ new[x] = r[x], (y - k) + 1 \in 2..n /\ new[y] = w[(y - k) + 1]
        PROVE  ~Meets(new[x], new[y])
    <3>1. (y - k) + 1 \in 1..n /\ 1 \in 1..n /\ (y - k) + 1 # 1
      BY <1>2, <2>2
    <3>2. ~Meets(w[1], w[(y - k) + 1])
      BY <1>4, <3>1
    <3> QED
      BY <1>5, <2>2, <3>2
  <2>3. CASE (i - k) + 1 \in 2..n /\ new[i] = w[(i - k) + 1]
             /\ (j - k) + 1 \in 2..n /\ new[j] = w[(j - k) + 1]
    <3>1. (i - k) + 1 \in 1..n /\ (j - k) + 1 \in 1..n /\ (i - k) + 1 # (j - k) + 1
      BY <1>2, <2>3
    <3> QED
      BY <1>4, <2>3, <3>1
  <2> QED
    BY <1>1, <1>6, <2>1, <2>2, <2>3
<1>8. ASSUME NEW i \in 1..Len(new), NEW path \in f
      PROVE  ~Meets(new[i], path)
  <2>1. CASE i \in 1..k /\ new[i] = r[i]
    <3>1. 1 \in 1..n
      BY <1>2
    <3> QED
      BY <1>4, <1>5, <2>1, <3>1
  <2>2. CASE (i - k) + 1 \in 2..n /\ new[i] = w[(i - k) + 1]
    <3>1. (i - k) + 1 \in 1..n
      BY <1>2, <2>2
    <3> QED
      BY <1>4, <2>2, <3>1
  <2> QED
    BY <1>1, <2>1, <2>2
<1>9. ASSUME NEW p \in g.point, Fresh(g, p)
      PROVE  IsOn(p, new) \/ \E path \in f : p \in path.cond
  <2> SUFFICES ASSUME IsOn(p, w)
               PROVE  IsOn(p, new)
    BY <1>9 DEF Once
  <2>1. PICK i \in 1..n : p \in w[i].cond
    BY DEF IsOn, n
  <2>2. CASE i = 1
    <3>1. IsOn(p, r)
      BY <1>9, <2>1, <2>2 DEF Splits
    <3>2. PICK j \in 1..k : p \in r[j].cond
      BY <3>1 DEF IsOn, k
    <3> QED
      BY <1>1, <3>2 DEF IsOn
  <2>3. CASE i # 1
    <3>1. i \in 2..n
      BY <1>2, <2>3
    <3> QED
      BY <1>1, <2>1, <3>1 DEF IsOn
  <2> QED
    BY <2>2, <2>3
<1>10. ASSUME NEW i \in 1..Len(new)
       PROVE  Tame(g, new[i])
  <2>1. CASE i \in 1..k /\ new[i] = r[i]
    BY <1>3, <2>1
  <2>2. CASE (i - k) + 1 \in 2..n /\ new[i] = w[(i - k) + 1]
    <3>1. (i - k) + 1 \in 1..n
      BY <1>2, <2>2
    <3> QED
      BY <1>4, <2>2, <3>1
  <2> QED
    BY <1>1, <2>1, <2>2
<1>11. \A path, other \in f : path # other => ~Meets(path, other)
  BY DEF Once
<1> QED
  BY <1>7, <1>8, <1>9, <1>10, <1>11 DEF Once, new

\* One path for another.
LEMMA OneSplit ==
  ASSUME NEW g, NEW path, NEW new, new.cond \subseteq path.cond, Tame(g, new),
         \A p \in path.cond : Fresh(g, p) => p \in new.cond
  PROVE  Splits(g, path, <<new>>)
<1> DEFINE paths == <<new>>
<1>1. Len(paths) = 1 /\ \A i \in 1..Len(paths) : i = 1 /\ paths[i] = new
  OBVIOUS
<1>2. 1 \in 1..Len(paths) /\ paths[1] = new
  OBVIOUS
<1> HIDE DEF paths
<1> QED
  BY <1>1, <1>2 DEF Splits, Single, IsOn, paths

\* The feasible ones among paths that share the inputs.
LEMMA FeasibleSplits ==
  ASSUME NEW g, NEW path, NEW paths, IsFiniteSet(paths),
         \A new \in paths : new.cond \subseteq path.cond /\ Tame(g, new),
         \A new, other \in paths : new # other => ~Meets(new, other),
         \A p \in path.cond : Fresh(g, p) => \E new \in paths : p \in new.cond
  PROVE  Splits(g, path, Feasible(paths))
<1> DEFINE f == Feasible(paths)
<1>1. /\ \A i \in 1..Len(f) : f[i] \in paths
      /\ \A i, j \in 1..Len(f) : f[i] = f[j] => i = j
      /\ \A new \in paths : new.cond # {} => \E i \in 1..Len(f) : f[i] = new
  BY FeasibleIs
<1> HIDE DEF f
<1>2. Single(f)
  BY <1>1 DEF Single
<1>3. ASSUME NEW p \in path.cond, Fresh(g, p)
      PROVE  IsOn(p, f)
  <2>1. PICK new \in paths : p \in new.cond
    BY <1>3
  <2>2. PICK i \in 1..Len(f) : f[i] = new
    BY <1>1, <2>1
  <2> QED
    BY <2>1, <2>2 DEF IsOn
<1> QED
  BY <1>1, <1>2, <1>3 DEF Splits, f

\* The values of a path that starts without overflows stay so.
LEMMA StaysHome ==
  ASSUME ProgramOK(program), NEW path, PathOK(program, path), Tame(program, path),
         NEW p \in path.cond, NEW S, Home(program, S, p)
  PROVE  path.value[p] \in S /\ p \in path.defined
<1> DEFINE T == {s \in State(program) : s.value \in S}
           word == Flat(path.prefix, p)
<1>1. Holds(program, path, S, p)
  BY DEF Tame
<1>2. Follows(program, path, p) /\ word \in Seq(program.paths)
  BY Standing DEF PathOK
<1>3. PICK d : Walk(program, p, 0, Start(path, p), word, At(path.value[p], d))
  BY <1>2 DEF Follows
<1>4. Start(path, p).value = path.from[p] /\ At(path.value[p], d).value = path.value[p]
  BY DEF Start, At
<1>5. Start(path, p) \in T
  <2> HIDE DEF word
  <2>1. Start(path, p) \in State(program)
    BY <1>2, <1>3, WalkType
  <2> QED
    BY <1>1, <1>4, <2>1 DEF Holds
<1>6. ASSUME NEW u \in T, NEW a \in program.paths, u.value \in program.enabled[a] \ program.error
      PROVE  After(program, a, u) \in T
  <2>1. After(program, a, u) \in State(program)
    BY AfterType
  <2>2. After(program, a, u).value = program.update[a][u.value]
    BY DEF After
  <2>3. program.update[a][u.value] \in S
    BY <1>6 DEF Home
  <2> QED
    BY <2>1, <2>2, <2>3
<1>7. At(path.value[p], d) \in T
  <2> HIDE DEF T, word
  <2> QED
    BY <1>2, <1>3, <1>5, <1>6, WalkKeeps
<1> QED
  BY <1>1, <1>4, <1>7 DEF Holds

\* A step within the entry.
LEMMA StillTame ==
  ASSUME NEW g, NEW path, Tame(g, path), NEW new, new.cond \subseteq path.cond,
         new.from = path.from, new.entries = path.entries,
         path.defined \cap new.cond \subseteq new.defined
  PROVE  Tame(g, new)
BY DEF Tame, Holds

LEMMA IterateSplits ==
  ASSUME ProgramOK(program), NEW path, PathOK(program, path), path.at = "body",
         Tame(program, path)
  PROVE  Splits(program, path, Feasible(Successors(path)))
<1> DEFINE leaving == Leaving(path)
           violating == Violating(path)
           paths == Successors(path)
           v(p) == path.value[p]
<1>1. path \in PathType(program)
  BY DEF PathOK
<1>2. \A a \in program.paths :
        LET new == Through(path, a)
        IN  /\ new.cond = Along(path, a)
            /\ new.defined = {p \in Along(path, a) :
                                /\ p \in path.defined \/ program.resets[a]
                                /\ path.value[p] \in program.ok[a]}
            /\ new.from = path.from /\ new.entries = path.entries
  <2>1. \A a \in program.paths : IsThrough(path, a, Through(path, a))
    BY <1>1, ThroughFields
  <2> QED
    BY <2>1 DEF IsThrough
<1>3. /\ leaving.cond = {p \in path.cond : ~GoesOn(path, p) /\ v(p) \notin program.error}
      /\ leaving.defined = path.defined
      /\ leaving.from = path.from /\ leaving.entries = path.entries
  BY <1>1, LeavingFields
<1>4. /\ violating.cond = {p \in path.cond : v(p) \in program.error}
      /\ violating.defined = path.defined
      /\ violating.from = path.from /\ violating.entries = path.entries
  BY <1>1, ViolatingFields
<1>5. \A a \in program.paths : \A p \in Along(path, a) :
        /\ p \in path.cond /\ GoesOn(path, p)
        /\ v(p) \in program.enabled[a] /\ v(p) \notin program.error
  BY DEF Along
<1> HIDE DEF leaving, violating
<1>6. ASSUME NEW a \in program.paths
      PROVE  Through(path, a).cond \subseteq path.cond /\ Tame(program, Through(path, a))
  <2> DEFINE new == Through(path, a)
  <2>1. ASSUME NEW p \in new.cond, NEW S, Home(program, S, p)
        PROVE  Holds(program, new, S, p)
    <3>1. p \in path.cond /\ p \in Along(path, a) /\ v(p) \in program.enabled[a]
      BY <1>2, <1>5, <2>1
    <3>2. v(p) \in S /\ p \in path.defined
      BY <2>1, <3>1, StaysHome
    <3>3. v(p) \in program.ok[a]
      BY <2>1, <3>1, <3>2 DEF Home
    <3>4. path.from[p] \in S
      BY <2>1, <3>1 DEF Tame, Holds
    <3> QED
      BY <1>2, <3>1, <3>2, <3>3, <3>4 DEF Holds
  <2>2. new.entries > 0 => program.entries > 0
    BY <1>2 DEF Tame
  <2> QED
    BY <1>2, <1>5, <2>1, <2>2 DEF Tame
<1>7. /\ leaving.cond \subseteq path.cond /\ Tame(program, leaving)
      /\ violating.cond \subseteq path.cond /\ Tame(program, violating)
  BY <1>3, <1>4, StillTame
<1>8. ASSUME NEW a \in program.paths, NEW b \in program.paths, a # b
      PROVE  ~Meets(Through(path, a), Through(path, b))
  <2>1. program.enabled[a] \cap program.enabled[b] = {}
    BY <1>8 DEF ProgramOK
  <2> QED
    BY <1>2, <1>5, <2>1 DEF Meets
<1>9. ASSUME NEW a \in program.paths
      PROVE  /\ ~Meets(Through(path, a), leaving) /\ ~Meets(leaving, Through(path, a))
             /\ ~Meets(Through(path, a), violating) /\ ~Meets(violating, Through(path, a))
  BY <1>2, <1>3, <1>4, <1>5 DEF Meets
<1>10. ~Meets(leaving, violating) /\ ~Meets(violating, leaving)
  BY <1>3, <1>4 DEF Meets
<1>11. ASSUME NEW p \in path.cond, Fresh(program, p)
       PROVE  \E new \in paths : p \in new.cond
  <2>1. PICK S : Home(program, S, p)
    BY <1>11 DEF Fresh
  <2>2. v(p) \in S /\ p \in path.defined /\ v(p) \in program.value
    BY <2>1, StaysHome DEF Home
  <2>3. CASE v(p) \in program.error
    BY <1>4, <2>3 DEF Successors, violating
  <2>4. CASE v(p) \notin program.error /\ ~GoesOn(path, p)
    BY <1>3, <2>4 DEF Successors, leaving
  <2>5. CASE v(p) \notin program.error /\ GoesOn(path, p)
    <3>1. v(p) \in Enabled(program)
      BY <2>2, <2>5 DEF GoesOn, Enabled, ProgramOK
    <3>2. PICK a \in program.paths : v(p) \in program.enabled[a]
      BY <3>1 DEF Enabled
    <3>3. p \in Along(path, a)
      BY <2>2, <2>5, <3>2 DEF Along
    <3> QED
      BY <1>2, <3>2, <3>3 DEF Successors
  <2> QED
    BY <2>3, <2>4, <2>5
<1>12. IsFiniteSet(paths)
  BY SuccessorsFinite
<1>13. \A new \in paths : \/ \E a \in program.paths : new = Through(path, a)
                          \/ new = leaving \/ new = violating
  BY DEF Successors, leaving, violating
<1> HIDE DEF paths, v
<1>14. \A new \in paths : new.cond \subseteq path.cond /\ Tame(program, new)
  BY <1>6, <1>7, <1>13
<1>15. \A new, other \in paths : new # other => ~Meets(new, other)
  <2> SUFFICES ASSUME NEW new \in paths, NEW other \in paths, new # other
               PROVE  ~Meets(new, other)
    OBVIOUS
  <2>1. CASE new \in {leaving, violating} /\ other \in {leaving, violating}
    BY <1>10, <2>1
  <2>2. CASE new \in {leaving, violating} /\ other \notin {leaving, violating}
    BY <1>9, <1>13, <2>2
  <2>3. CASE new \notin {leaving, violating} /\ other \in {leaving, violating}
    BY <1>9, <1>13, <2>3
  <2>4. CASE new \notin {leaving, violating} /\ other \notin {leaving, violating}
    BY <1>8, <1>13, <2>4
  <2> QED
    BY <2>1, <2>2, <2>3, <2>4
<1>16. Splits(program, path, Feasible(paths))
  BY <1>11, <1>12, <1>14, <1>15, FeasibleSplits
<1> QED
  BY <1>16 DEF paths

\* The jump to the first break and the residual path.
LEMMA AccelerateSplits ==
  ASSUME ProgramOK(program), NEW path, PathOK(program, path), path.at = "backedge",
         program.kind = "plain", NEW star \in Seq(program.paths) \ {<<>>}, NEW closed,
         closed \in CertifiedForms(Composite(star).update), Tame(program, path)
  PROVE  LET jump == FirstBreakJump(path, star, closed, Composite(star).guard)
             residual == AfterPhis(Only(path, Point \ jump.cond))
         IN  /\ Splits(program, path, <<jump, residual>>)
             /\ residual.cond = {} => Splits(program, path, <<jump>>)
<1> DEFINE jump == FirstBreakJump(path, star, closed, Composite(star).guard)
           residual == AfterPhis(Only(path, Point \ jump.cond))
           paths == <<jump, residual>>
<1>1. path \in PathType(program)
  BY DEF PathOK
<1>2. /\ jump.cond = Covered(path, closed, Composite(star).guard)
      /\ jump.defined = jump.cond /\ jump.from = path.from /\ jump.entries = path.entries
  BY FirstBreakJumpOK
<1>3. jump.cond \subseteq path.cond
  BY <1>2 DEF Covered
<1> HIDE DEF jump
<1>4. /\ residual.cond = path.cond \cap (Point \ jump.cond)
      /\ residual.defined = path.defined /\ residual.from = path.from
      /\ residual.entries = path.entries
  BY ResidualOK
<1> HIDE DEF residual
<1>5. Tame(program, jump) /\ Tame(program, residual)
  BY <1>2, <1>3, <1>4, StillTame
<1>6. \A p \in path.cond : p \in jump.cond \/ p \in residual.cond
  BY <1>1, <1>4, PathFields
<1>7. ~Meets(jump, residual) /\ ~Meets(residual, jump)
  BY <1>4 DEF Meets
<1>8. /\ Len(paths) = 2 /\ paths[1] = jump /\ paths[2] = residual
      /\ \A i \in 1..2 : i = 1 \/ i = 2
      /\ 1 \in 1..2 /\ 2 \in 1..2
  OBVIOUS
<1> HIDE DEF paths
<1>9. Splits(program, path, paths)
  <2>1. Single(paths)
    BY <1>7, <1>8 DEF Single
  <2>2. \A i \in 1..Len(paths) : paths[i].cond \subseteq path.cond /\ Tame(program, paths[i])
    BY <1>3, <1>4, <1>5, <1>8
  <2>3. \A p \in path.cond : IsOn(p, paths)
    BY <1>6, <1>8 DEF IsOn
  <2> QED
    BY <2>1, <2>2, <2>3 DEF Splits
<1>10. ASSUME residual.cond = {}
       PROVE  Splits(program, path, <<jump>>)
  BY <1>3, <1>5, <1>6, <1>10, OneSplit
<1> QED
  BY <1>9, <1>10 DEF paths, residual, jump

LEMMA CompositeOne ==
  ASSUME ProgramOK(program), NEW a \in program.paths
  PROVE  /\ Composite(<<a>>).guard = program.enabled[a] \cap program.ok[a]
         /\ Composite(<<a>>).update \in [Value -> Value]
         /\ \A v \in Value : Composite(<<a>>).update[v] = program.update[a][v]
<1> DEFINE word == <<a>>
<1>1. word \in Seq(program.paths) /\ Len(word) = 1 /\ word[1] = a
  OBVIOUS
<1> HIDE DEF word
<1>2. PICK f : Composites(word, f) /\ Composite(word) = f[Len(word)]
  BY <1>1, CompositeIs
<1>3. f[1] = Then(f[0], a) /\ f[0] = [guard |-> Value, update |-> Identity]
  <2>1. 1 \in 1..Len(word) /\ 1 - 1 = 0
    BY <1>1
  <2> QED
    BY <1>1, <1>2, <2>1 DEF Composites
<1>4. /\ Transition(a).guard = program.enabled[a] \cap program.ok[a]
      /\ Transition(a).guard \subseteq Value
      /\ Transition(a).update = program.update[a]
      /\ Transition(a).update \in [Value -> Value]
  BY TransitionType
<1>5. \A v \in Value : f[0].update[v] = v
  BY <1>3 DEF Identity
<1>6. f[1].guard = {v \in Value : v \in Transition(a).guard}
  BY <1>3, <1>5 DEF Then
<1>7. f[1].update = [v \in Value |-> Transition(a).update[v]]
  BY <1>3, <1>5 DEF Then
<1>8. Composite(word) = f[1]
  BY <1>1, <1>2
<1> QED
  BY <1>4, <1>6, <1>7, <1>8 DEF word

LEMMA OnlySymbol ==
  ASSUME NEW A, NEW s \in Seq(A), Len(s) = 1
  PROVE  s[1] \in A /\ s = <<s[1]>>
<1>1. s[1] \in A
  OBVIOUS
<1> DEFINE a == s[1]
           t == <<a>>
<1>2. t \in Seq(A) /\ Len(t) = 1 /\ t[1] = a
  BY <1>1
<1>3. \A i \in 1..1 : s[i] = t[i]
  BY <1>2
<1> HIDE DEF t
<1>4. s = t
  BY <1>2, <1>3
<1> QED
  BY <1>1, <1>4 DEF t

\* The other paths of the body are closed to the values of the jump, and one of
\* them all is open.
LEMMA StableCovers ==
  ASSUME ProgramOK(program), NEW path, PathOK(program, path), path.at = "backedge",
         program.kind = "oracle", Tame(program, path),
         NEW star \in Seq(program.paths), Len(star) = 1, NEW closed,
         closed \in CertifiedForms(Composite(star).update), Stable(path, star, closed),
         NEW p \in path.cond, Fresh(program, p)
  PROVE  p \in Allowed(path, closed, Composite(star).guard)
<1> DEFINE a == star[1]
           guard == Composite(star).guard
           f == Composite(star).update
           v == path.value[p]
           n == FiniteCount(path)[p]
<1>1. a \in program.paths /\ star = <<a>>
  BY OnlySymbol
<1>2. PICK S : Home(program, S, p)
  BY DEF Fresh
<1>3. v \in S
  BY <1>2, StaysHome
<1>4. p \in Point /\ S \subseteq Value /\ program.error = {}
      /\ \A u \in Value : u \in Enabled(program)
  BY <1>2, Standing DEF Home, ProgramOK, Value, Enabled
<1>5. n \in 0..Horizon /\ Horizon \in Nat
  BY <1>4, FiniteCountIs, HorizonType
<1>6. /\ guard = program.enabled[a] \cap program.ok[a]
      /\ f \in [Value -> Value]
      /\ \A u \in Value : f[u] = program.update[a][u]
  BY <1>1, CompositeOne
<1>7. /\ \A u \in Value : closed[0][u] = u
      /\ \A t \in 0..Horizon, u \in Value : closed[t + 1][u] = f[closed[t][u]]
  <2>1. certify_closed_forms(closed, f)
    BY DEF CertifiedForms
  <2> HIDE DEF f
  <2> QED
    BY <1>6, <2>1, ClosedType
<1>8. \A t \in 0..Horizon, b \in program.paths \ {a} : closed[t][v] \notin Transition(b).guard
  BY DEF Stable
<1> HIDE DEF a, guard, f, v, n
<1>9. ASSUME NEW t \in 0..Horizon, closed[t][v] \in S
      PROVE  closed[t][v] \in guard /\ closed[t + 1][v] \in S
  <2> DEFINE u == closed[t][v]
  <2>1. u \in Value /\ u \in Enabled(program)
    BY <1>4, <1>9
  <2>2. PICK b \in program.paths : u \in program.enabled[b]
    BY <2>1 DEF Enabled
  <2>3. u \in program.ok[b]
    BY <1>2, <1>9, <2>2 DEF Home
  <2>4. u \in Transition(b).guard
    BY <2>2, <2>3, TransitionType
  <2>5. b = a
    BY <1>8, <2>4
  <2>6. program.update[b][u] \in S
    BY <1>2, <1>4, <1>9, <2>2 DEF Home
  <2>7. closed[t + 1][v] = f[u]
    BY <1>3, <1>4, <1>7
  <2> QED
    BY <1>6, <2>1, <2>2, <2>3, <2>5, <2>6, <2>7
<1> DEFINE T == {t \in 0..Horizon : closed[t][v] \in S}
<1>10. 0 \in T
  BY <1>3, <1>4, <1>5, <1>7
<1>11. \A t \in 0..(Horizon - 1) : t \in T => t + 1 \in T
  BY <1>5, <1>9
<1>12. 0..Horizon \subseteq T
  <2> HIDE DEF T
  <2> QED
    BY <1>5, <1>10, <1>11, InductionUpTo
<1>13. \A t \in 0..(n - 1) : closed[t][v] \in guard
  BY <1>5, <1>9, <1>12
<1> QED
  BY <1>13 DEF Allowed, n, v, guard

LEMMA FiniteSplits ==
  ASSUME ProgramOK(program), NEW path, PathOK(program, path), path.at = "backedge",
         program.kind = "oracle", path.cond \subseteq path.defined, Tame(program, path),
         NEW star \in Seq(program.paths) \ {<<>>}, Len(star) = 1, NEW closed,
         closed \in CertifiedForms(Composite(star).update), Stable(path, star, closed)
  PROVE  Splits(program, path, Feasible({FiniteJump(path, star, closed, Composite(star).guard)}))
<1> DEFINE jump == FiniteJump(path, star, closed, Composite(star).guard)
<1>1. /\ jump.cond = Allowed(path, closed, Composite(star).guard)
      /\ jump.defined = jump.cond /\ jump.from = path.from /\ jump.entries = path.entries
  BY FiniteJumpOK
<1>2. jump.cond \subseteq path.cond
  BY <1>1 DEF Allowed
<1>3. \A p \in path.cond : Fresh(program, p) => p \in jump.cond
  <2>1. star \in Seq(program.paths)
    OBVIOUS
  <2> HIDE DEF jump
  <2> QED
    BY <1>1, <2>1, StableCovers
<1> HIDE DEF jump
<1>4. Tame(program, jump)
  BY <1>1, <1>2, StillTame
<1>5. IsFiniteSet({jump})
  BY FS_Singleton
<1>6. Splits(program, path, Feasible({jump}))
  BY <1>2, <1>3, <1>4, <1>5, FeasibleSplits
<1> QED
  BY <1>6 DEF jump

\* A completed loop, and one that is entered again.
LEMMA CompletedSplits ==
  ASSUME ProgramOK(program), SummaryOK(program, summary), summary # NoSummary,
         NEW path, PathOK(program, path), path.at = "entry", InDomain(path),
         Tame(program, path)
  PROVE  Splits(program, path, <<Completed(path)>>)
<1> DEFINE new == Completed(path)
<1>1. new.cond = path.cond /\ new.defined = path.cond /\ new.from = path.from
      /\ new.entries = path.entries
  BY CompletedOK
<1> HIDE DEF new
<1>2. Tame(program, new)
  BY <1>1, StillTame
<1>3. Splits(program, path, <<new>>)
  BY <1>1, <1>2, OneSplit
<1> QED
  BY <1>3 DEF new

LEMMA ReenterSplits ==
  ASSUME ProgramOK(program), NEW path, PathOK(program, path), path.at = "exit",
         path.entries > 0, Tame(program, path)
  PROVE  Splits(program, path, <<Reentered(path)>>)
<1> DEFINE new == Reentered(path)
<1>1. path \in PathType(program) /\ program.kind = "family"
  BY DEF PathOK, Entering
<1>2. /\ new.cond = path.cond /\ new.defined = path.defined
      /\ new.value = [p \in Point |-> program.again[path.value[p]]]
      /\ new.from = new.value /\ new.entries = path.entries - 1
  BY ReenterOK
<1> HIDE DEF new
<1>3. program.entries > 0
  BY DEF Tame
<1>4. ASSUME NEW p \in new.cond, NEW S, Home(program, S, p)
      PROVE  Holds(program, new, S, p)
  <2>1. p \in path.cond /\ p \in Point
    BY <1>1, <1>2, <1>4, PathFields
  <2>2. path.value[p] \in S /\ p \in path.defined
    BY <1>4, <2>1, StaysHome
  <2>3. path.value[p] \notin Enabled(program)
    <3>1. Leaves(program, path, p)
      BY <2>1 DEF PathOK
    <3> QED
      BY <1>1, <3>1 DEF Leaves, Goes
  <2>4. program.again[path.value[p]] \in S
    BY <1>3, <1>4, <2>2, <2>3 DEF Home
  <2> QED
    BY <1>2, <2>1, <2>2, <2>4 DEF Holds
<1>5. Tame(program, new)
  BY <1>3, <1>4 DEF Tame
<1>6. Splits(program, path, <<new>>)
  BY <1>2, <1>5, OneSplit
<1> QED
  BY <1>6 DEF new

OnceInv == Once(program, worklist, finished)

LEMMA InitOnce ==
  Init => OnceInv
<1> SUFFICES ASSUME Init
             PROVE  Once(program, <<InitialPath>>, {})
  BY DEF Init, OnceInv
<1> DEFINE path == InitialPath
           w == <<path>>
<1>1. ProgramOK(program)
  BY AcceleratorAssumption DEF Init
<1>2. /\ path.cond = Point /\ path.defined = Point /\ path.from = program.initial
      /\ path.entries = program.entries
  BY DEF InitialPath
<1>3. Len(w) = 1 /\ w[1] = path /\ 1 \in 1..1 /\ \A i \in 1..1 : i = 1
  OBVIOUS
<1> HIDE DEF path, w
<1>4. Tame(program, path)
  BY <1>2 DEF Tame, Holds, Home
<1>5. \A p \in program.point : IsOn(p, w)
  BY <1>2, <1>3 DEF IsOn, Point
<1>6. Once(program, w, {})
  BY <1>3, <1>4, <1>5 DEF Once, Single
<1> QED
  BY <1>6 DEF w, path

LEMMA ReplaceOnce ==
  ASSUME Inv, OnceInv, worklist # <<>>, NEW paths \in Seq(Sound(program)),
         Splits(program, Top, paths), Replace(paths), UNCHANGED <<program, finished, summary>>
  PROVE  OnceInv'
<1>1. Once(program, paths \o Tail(worklist), finished)
  <2>1. worklist \in Seq(Sound(program))
    BY DEF Inv
  <2> QED
    BY <2>1, SplitOnce DEF OnceInv, Top
<1> QED
  BY <1>1 DEF OnceInv, Replace

\* A path that has left the loop.
LEMMA FinishOnce ==
  ASSUME NEW A, NEW g, NEW w \in Seq(A), w # <<>>, NEW f, Once(g, w, f)
  PROVE  Once(g, <<>> \o Tail(w), f \cup {w[1]})
<1> DEFINE new == <<>> \o Tail(w)
           done == f \cup {w[1]}
           n == Len(w)
<1>1. n \in Nat \ {0} /\ Len(new) = n - 1 /\ \A i \in 1..(n - 1) : new[i] = w[i + 1]
  OBVIOUS
<1>2. /\ \A i, j \in 1..n : i # j => ~Meets(w[i], w[j])
      /\ \A i \in 1..n, path \in f : ~Meets(w[i], path)
      /\ \A path, other \in f : path # other => ~Meets(path, other)
      /\ \A i \in 1..n : Tame(g, w[i])
  BY DEF Once, Single
<1>3. \A path, other : Meets(path, other) => Meets(other, path)
  BY DEF Meets
<1> HIDE DEF new, n
<1>4. \A i \in 1..Len(new) : i + 1 \in 1..n /\ i + 1 # 1 /\ new[i] = w[i + 1]
  BY <1>1
<1>5. 1 \in 1..n
  BY <1>1
<1>6. Single(new)
  <2> SUFFICES ASSUME NEW i \in 1..Len(new), NEW j \in 1..Len(new), i # j
               PROVE  ~Meets(new[i], new[j])
    BY DEF Single
  <2>1. i + 1 # j + 1
    BY <1>1
  <2> QED
    BY <1>2, <1>4, <2>1
<1>7. \A i \in 1..Len(new), path \in done : ~Meets(new[i], path)
  BY <1>2, <1>4, <1>5
<1>8. \A path, other \in done : path # other => ~Meets(path, other)
  BY <1>2, <1>3, <1>5
<1>9. \A i \in 1..Len(new) : Tame(g, new[i])
  BY <1>2, <1>4
<1>10. ASSUME NEW p \in g.point, Fresh(g, p)
       PROVE  IsOn(p, new) \/ \E path \in done : p \in path.cond
  <2> SUFFICES ASSUME IsOn(p, w)
               PROVE  IsOn(p, new) \/ \E path \in done : p \in path.cond
    BY <1>10 DEF Once
  <2>1. PICK i \in 1..n : p \in w[i].cond
    BY DEF IsOn, n
  <2>2. CASE i = 1
    BY <2>1, <2>2
  <2>3. CASE i # 1
    <3>1. i - 1 \in 1..(n - 1) /\ (i - 1) + 1 = i
      BY <1>1, <2>3
    <3>2. i - 1 \in 1..Len(new) /\ new[i - 1] = w[i]
      BY <1>1, <3>1
    <3> QED
      BY <2>1, <3>2 DEF IsOn
  <2> QED
    BY <2>2, <2>3
<1> HIDE DEF done
<1>11. Once(g, new, done)
  BY <1>6, <1>7, <1>8, <1>9, <1>10 DEF Once
<1> QED
  BY <1>11 DEF new, done

LEMMA NextOnce ==
  Inv /\ OnceInv /\ [Next]_vars => OnceInv'
<1> SUFFICES ASSUME Inv, OnceInv, [Next]_vars
             PROVE  OnceInv'
  OBVIOUS
<1> USE Taken
<1>1. worklist # <<>> => Tame(program, Top)
  <2> SUFFICES ASSUME worklist # <<>>
               PROVE  Tame(program, worklist[1])
    BY DEF Top
  <2>1. worklist \in Seq(Sound(program))
    OBVIOUS
  <2>2. 1 \in 1..Len(worklist)
    BY <2>1
  <2> QED
    BY <2>2 DEF OnceInv, Once
<1>2. CASE OrdinaryPhi
  <2>1. worklist # <<>> /\ Top.at \in {"entry", "backedge"} /\ Replace(<<AfterPhis(Top)>>)
        /\ UNCHANGED <<program, finished, summary>>
    BY <1>2 DEF OrdinaryPhi
  <2> DEFINE new == AfterPhis(Top)
  <2>2. /\ PathOK(program, new)
        /\ new.cond = Top.cond /\ new.defined = Top.defined
        /\ new.from = Top.from /\ new.entries = Top.entries
    BY <2>1, AfterPhisOK
  <2> HIDE DEF new
  <2>3. Tame(program, new)
    BY <1>1, <2>1, <2>2, StillTame
  <2>4. Splits(program, Top, <<new>>)
    BY <2>2, <2>3, OneSplit
  <2>5. <<new>> \in Seq(Sound(program))
    BY <2>2, SoundIs, OneSymbol
  <2> QED
    BY <2>1, <2>4, <2>5, ReplaceOnce DEF new
<1>3. CASE Accelerate
  <2>1. /\ worklist # <<>> /\ Top.at = "backedge" /\ program.kind = "plain"
        /\ UNCHANGED <<program, finished, summary>>
    BY <1>3 DEF Accelerate
  <2>2. PICK star \in Top.candidates : \E closed \in CertifiedForms(Composite(star).update) :
               LET jump == FirstBreakJump(Top, star, closed, Composite(star).guard)
                   residual == AfterPhis(Only(Top, Point \ jump.cond))
               IN  \/ Replace(<<jump, residual>>)
                   \/ residual.cond = {} /\ Replace(<<jump>>)
    BY <1>3 DEF Accelerate
  <2>3. PICK closed \in CertifiedForms(Composite(star).update) :
               LET jump == FirstBreakJump(Top, star, closed, Composite(star).guard)
                   residual == AfterPhis(Only(Top, Point \ jump.cond))
               IN  \/ Replace(<<jump, residual>>)
                   \/ residual.cond = {} /\ Replace(<<jump>>)
    BY <2>2
  <2> DEFINE jump == FirstBreakJump(Top, star, closed, Composite(star).guard)
             residual == AfterPhis(Only(Top, Point \ jump.cond))
  <2>4. star \in Seq(program.paths) \ {<<>>}
    BY <2>1, <2>2 DEF PathOK, PathType
  <2>5. PathOK(program, jump)
    BY <2>1, <2>3, <2>4, FirstBreakJumpOK
  <2>6. PathOK(program, residual)
    <3> HIDE DEF jump
    <3> QED
      BY <2>1, ResidualOK
  <2>7. /\ Splits(program, Top, <<jump, residual>>)
        /\ residual.cond = {} => Splits(program, Top, <<jump>>)
    BY <1>1, <2>1, <2>3, <2>4, AccelerateSplits
  <2>8. Replace(<<jump, residual>>) \/ (residual.cond = {} /\ Replace(<<jump>>))
    BY <2>3
  <2> HIDE DEF jump, residual
  <2>9. <<jump, residual>> \in Seq(Sound(program)) /\ <<jump>> \in Seq(Sound(program))
    BY <2>5, <2>6, SoundIs, OneSymbol, TwoSymbols
  <2> QED
    BY <2>1, <2>7, <2>8, <2>9, ReplaceOnce
<1>4. CASE AccelerateFinite
  <2>1. /\ worklist # <<>> /\ Top.at = "backedge" /\ program.kind = "oracle"
        /\ Top.cond \subseteq Top.defined
        /\ UNCHANGED <<program, finished, summary>>
    BY <1>4 DEF AccelerateFinite
  <2>2. PICK star \in Top.candidates :
          /\ Len(star) = 1
          /\ \E closed \in CertifiedForms(Composite(star).update) :
               /\ Stable(Top, star, closed)
               /\ Replace(Feasible({FiniteJump(Top, star, closed, Composite(star).guard)}))
    BY <1>4 DEF AccelerateFinite
  <2>3. PICK closed \in CertifiedForms(Composite(star).update) :
               /\ Stable(Top, star, closed)
               /\ Replace(Feasible({FiniteJump(Top, star, closed, Composite(star).guard)}))
    BY <2>2
  <2> DEFINE jump == FiniteJump(Top, star, closed, Composite(star).guard)
  <2>4. star \in Seq(program.paths) \ {<<>>}
    BY <2>1, <2>2 DEF PathOK, PathType
  <2>5. PathOK(program, jump)
    BY <2>1, <2>2, <2>3, <2>4, FiniteJumpOK
  <2>6. Replace(Feasible({jump}))
    BY <2>3
  <2>7. Splits(program, Top, Feasible({jump}))
    BY <1>1, <2>1, <2>2, <2>3, <2>4, FiniteSplits
  <2> HIDE DEF jump
  <2>8. Feasible({jump}) \in Seq(Sound(program))
    <3>1. IsFiniteSet({jump})
      BY FS_Singleton
    <3>2. Feasible({jump}) \in Seq({jump})
      BY <3>1, FeasibleIs
    <3>3. {jump} \subseteq Sound(program)
      BY <2>5, SoundIs
    <3> QED
      BY <3>2, <3>3
  <2> QED
    BY <2>1, <2>6, <2>7, <2>8, ReplaceOnce
<1>5. CASE BuildNestedSummary
  BY <1>5 DEF BuildNestedSummary, OnceInv
<1>6. CASE AccelerateNested
  <2>1. /\ worklist # <<>> /\ Top.at = "entry" /\ summary # NoSummary /\ InDomain(Top)
        /\ UNCHANGED <<program, finished, summary>>
        /\ Replace(<<Completed(Top)>>)
    BY <1>6 DEF AccelerateNested, Completed, NestedCount
  <2>2. SummaryOK(program, summary)
    BY DEF Inv
  <2>3. PathOK(program, Completed(Top))
    BY <2>1, <2>2, CompletedOK
  <2>4. <<Completed(Top)>> \in Seq(Sound(program))
    BY <2>3, SoundIs, OneSymbol
  <2>5. Splits(program, Top, <<Completed(Top)>>)
    BY <1>1, <2>1, <2>2, CompletedSplits
  <2> QED
    BY <2>1, <2>4, <2>5, ReplaceOnce
<1>7. CASE Iterate
  <2>1. /\ worklist # <<>> /\ Top.at = "body"
        /\ Replace(Feasible(Successors(Top)))
        /\ UNCHANGED <<program, finished, summary>>
    BY <1>7 DEF Iterate, Successors
  <2>2. Feasible(Successors(Top)) \in Seq(Sound(program))
    BY <2>1, SuccessorsSound
  <2>3. Splits(program, Top, Feasible(Successors(Top)))
    BY <1>1, <2>1, IterateSplits
  <2> QED
    BY <2>1, <2>2, <2>3, ReplaceOnce
<1>8. CASE Reenter
  <2>1. /\ worklist # <<>> /\ Top.at = "exit" /\ Top.entries > 0
        /\ Replace(<<Reentered(Top)>>)
        /\ UNCHANGED <<program, finished, summary>>
    BY <1>8 DEF Reenter, Reentered
  <2>2. PathOK(program, Reentered(Top))
    BY <2>1, ReenterOK
  <2>3. <<Reentered(Top)>> \in Seq(Sound(program))
    BY <2>2, SoundIs, OneSymbol
  <2>4. Splits(program, Top, <<Reentered(Top)>>)
    BY <1>1, <2>1, ReenterSplits
  <2> QED
    BY <2>1, <2>3, <2>4, ReplaceOnce
<1>9. CASE Finish
  <2>1. /\ worklist # <<>> /\ finished' = finished \cup {Top} /\ Replace(<<>>)
        /\ program' = program
    BY <1>9 DEF Finish
  <2>2. worklist \in Seq(Sound(program)) /\ Once(program, worklist, finished)
    BY <2>1 DEF Inv, OnceInv
  <2>3. Once(program, <<>> \o Tail(worklist), finished \cup {worklist[1]})
    BY <2>1, <2>2, FinishOnce
  <2> QED
    BY <2>1, <2>3 DEF OnceInv, Replace, Top
<1>10. CASE UNCHANGED vars
  BY <1>10 DEF vars, OnceInv
<1> QED
  BY <1>2, <1>3, <1>4, <1>5, <1>6, <1>7, <1>8, <1>9, <1>10 DEF Next

\* No input is on two paths, and each that computes no poison is on one: a jump
\* and the residual path share what they replace, a completed loop and a jump
\* over an oracle leave nothing behind (residual_constraints, exit_guard,
\* PathAcceleration::covered).
THEOREM EachInputOnOnePath == Spec => []EachPointOnce
<1>1. Spec => []OnceInv
  BY Invariance, InitOnce, NextOnce, PTL DEF Spec
<1>2. Inv /\ OnceInv => EachPointOnce
  <2> SUFFICES ASSUME Inv, Once(program, worklist, finished)
               PROVE  EachPointOnce
    BY DEF OnceInv
  <2> DEFINE paths == Range(worklist) \cup finished
  <2>1. worklist \in Seq(Sound(program)) /\ DOMAIN worklist = 1..Len(worklist)
    BY DEF Inv
  <2>2. \A i \in 1..Len(worklist) : worklist[i] \in paths
    BY <2>1 DEF Range
  <2>3. ASSUME NEW p \in Point, Clean(p)
        PROVE  \E path \in paths : p \in path.cond
    <3>1. Fresh(program, p)
      BY <2>3, CleanIs
    <3>2. IsOn(p, worklist) \/ \E path \in finished : p \in path.cond
      BY <3>1 DEF Once, Point
    <3> QED
      BY <2>2, <3>2 DEF IsOn
  <2>4. ASSUME NEW path \in paths, NEW other \in paths, path # other
        PROVE  ~Meets(path, other)
    <3>1. \A x \in paths : x \in finished \/ \E i \in 1..Len(worklist) : x = worklist[i]
      BY <2>1 DEF Range
    <3>2. \A x, y : Meets(x, y) => Meets(y, x)
      BY DEF Meets
    <3> QED
      BY <2>4, <3>1, <3>2 DEF Once, Single
  <2> HIDE DEF paths
  <2>5. \A p \in Point, path, other \in paths : p \in path.cond \cap other.cond => path = other
    BY <2>4 DEF Meets
  <2> QED
    BY <2>3, <2>5 DEF EachPointOnce, paths
<1> QED
  BY <1>1, <1>2, Invariance, PTL
=============================================================================
