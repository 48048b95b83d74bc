-------------------------- MODULE InductionLemmas --------------------------
(***************************************************************************)
(* Induction over the natural numbers for sets, recursive functions on an  *)
(* interval, and what SequencesExt!FlattenSeq does to a longer sequence.   *)
(***************************************************************************)
EXTENDS Integers, Sequences, SequencesExt, WellFoundedInduction, TLAPS

(***************************************************************************)
(* Induction                                                               *)
(***************************************************************************)
\* A nonempty set of natural numbers has a least element.
LEMMA LeastElement ==
  ASSUME NEW T \in SUBSET Nat, T # {}
  PROVE  \E n \in T : \A m \in T : n <= m
<1> DEFINE R == OpToRel(<, Nat)
<1>1. IsWellFoundedOn(R, Nat)
  BY NatLessThanWellFounded
<1>2. \A x, y \in Nat : <<y, x>> \in R <=> y < x
  BY DEF OpToRel
<1> HIDE DEF R
<1>3. PICK n \in T : \A y \in T : ~(<<y, n>> \in R)
  BY <1>1, WFMin
<1>4. \A m \in T : ~(m < n)
  BY <1>2, <1>3
<1>5. \A m \in T : m \in Nat /\ n \in Nat
  OBVIOUS
<1> QED
  BY <1>4, <1>5

\* What holds of 0, and of n + 1 where it holds of n < k, holds up to k.
LEMMA InductionUpTo ==
  ASSUME NEW k \in Nat, NEW S, 0 \in S, \A n \in 0..(k - 1) : n \in S => n + 1 \in S
  PROVE  0..k \subseteq S
<1> SUFFICES ASSUME (0..k) \ S # {}
             PROVE  FALSE
  OBVIOUS
<1>1. PICK n \in (0..k) \ S : \A m \in (0..k) \ S : n <= m
  <2> DEFINE T == (0..k) \ S
  <2>1. T \in SUBSET Nat /\ T # {}
    OBVIOUS
  <2> HIDE DEF T
  <2>2. \E n \in T : \A m \in T : n <= m
    BY <2>1, LeastElement
  <2> QED
    BY <2>2 DEF T
<1>2. n # 0 /\ n - 1 \in 0..(k - 1)
  BY <1>1
<1>3. n - 1 \in S
  BY <1>1, <1>2
<1>4. (n - 1) + 1 \in S
  BY <1>2, <1>3
<1> QED
  BY <1>1, <1>2, <1>4

(***************************************************************************)
(* Functions f[i \in 0..n] == IF i = 0 THEN b ELSE step[<<f[i - 1], i>>]   *)
(***************************************************************************)
Steps(X, n, step) == \A x \in X, i \in 1..n : step[<<x, i>>] \in X
Recursive(X, b, n, step, f) ==
  /\ f \in [0..n -> X]
  /\ f[0] = b
  /\ \A i \in 1..n : f[i] = step[<<f[i - 1], i>>]

\* There is such a function.
LEMMA Recursion ==
  ASSUME NEW X, NEW b \in X, NEW n \in Nat, NEW step, Steps(X, n, step)
  PROVE  \E f : Recursive(X, b, n, step, f)
<1> USE DEF Steps, Recursive
<1> DEFINE Up(k) == \E f \in [0..k -> X] :
                      f[0] = b /\ \A i \in 1..k : f[i] = step[<<f[i - 1], i>>]
           S == {k \in 0..n : Up(k)}
<1>1. 0 \in S
  <2> DEFINE h == [i \in 0..0 |-> b]
  <2>1. h \in [0..0 -> X] /\ h[0] = b
    OBVIOUS
  <2>2. \A i \in 1..0 : FALSE
    OBVIOUS
  <2> HIDE DEF h
  <2>3. Up(0)
    BY <2>1, <2>2
  <2> QED
    BY <2>3
<1>2. ASSUME NEW k \in 0..(n - 1), k \in S
      PROVE  k + 1 \in S
  <2>1. PICK f \in [0..k -> X] :
               f[0] = b /\ \A i \in 1..k : f[i] = step[<<f[i - 1], i>>]
    BY <1>2
  <2> DEFINE h == [i \in 0..(k + 1) |-> IF i <= k THEN f[i] ELSE step[<<f[k], i>>]]
  <2>2. h \in [0..(k + 1) -> X]
    BY <1>2, <2>1
  <2>3. h[0] = b
    BY <2>1
  <2>4. \A i \in 1..(k + 1) : h[i] = step[<<h[i - 1], i>>]
    BY <2>1
  <2>5. Up(k + 1)
    BY <2>2, <2>3, <2>4
  <2> QED
    BY <2>5
<1>3. n \in S
  <2> HIDE DEF S
  <2>1. 0..n \subseteq S
    BY <1>1, <1>2, InductionUpTo
  <2> QED
    BY <2>1
<1> QED
  BY <1>3

\* Two of them agree; so does anything that only obeys the equation on X.
LEMMA RecursionUnique ==
  ASSUME NEW X, NEW b \in X, NEW n \in Nat, NEW step, NEW f, NEW c,
         Recursive(X, b, n, step, f),
         c[0] = b, \A i \in 1..n : c[i - 1] \in X => c[i] = step[<<c[i - 1], i>>]
  PROVE  \A i \in 0..n : c[i] = f[i]
<1> USE DEF Recursive
<1> DEFINE S == {i \in 0..n : c[i] = f[i]}
<1>1. 0 \in S
  OBVIOUS
<1>2. ASSUME NEW k \in 0..(n - 1), k \in S
      PROVE  k + 1 \in S
  <2>1. k + 1 \in 1..n /\ (k + 1) - 1 = k
    OBVIOUS
  <2>2. c[k] = f[k] /\ f[k] \in X
    BY <1>2
  <2>3. c[k + 1] = step[<<c[k], k + 1>>]
    BY <2>1, <2>2
  <2>4. f[k + 1] = step[<<f[k], k + 1>>]
    BY <2>1
  <2> QED
    BY <2>2, <2>3, <2>4
<1>3. 0..n \subseteq S
  <2> HIDE DEF S
  <2> QED
    BY <1>1, <1>2, InductionUpTo
<1> QED
  BY <1>3

(***************************************************************************)
(* FlattenSeq                                                              *)
(***************************************************************************)
\* The function that gives the first i sequences, one after the other.
Joins(A, ss, f) ==
  /\ f \in [0..Len(ss) -> Seq(A)]
  /\ f[0] = <<>>
  /\ \A i \in 1..Len(ss) : f[i] = f[i - 1] \o ss[i]

LEMMA JoinsExist ==
  ASSUME NEW A, NEW ss \in Seq(Seq(A))
  PROVE  \E f : Joins(A, ss, f)
<1> DEFINE n == Len(ss)
           X == Seq(A)
           b == <<>>
           step == [x \in X \X (1..n) |-> x[1] \o ss[x[2]]]
<1>1. n \in Nat /\ b \in X /\ \A i \in 1..n : ss[i] \in X
  OBVIOUS
<1>2. \A x \in X, i \in 1..n : step[<<x, i>>] \in X
  BY <1>1
<1>3. \A x \in X, i \in 1..n : step[<<x, i>>] = x \o ss[i]
  OBVIOUS
<1> HIDE DEF n, X, b, step
<1>4. PICK f : Recursive(X, b, n, step, f)
  <2>1. Steps(X, n, step)
    BY <1>2 DEF Steps
  <2> QED
    BY <1>1, <2>1, Recursion
<1>5. \A i \in 1..n : f[i - 1] \in X
  <2>1. \A i \in 1..n : i - 1 \in 0..n
    BY <1>1
  <2> QED
    BY <1>4, <2>1 DEF Recursive
<1>6. \A i \in 1..n : f[i] = f[i - 1] \o ss[i]
  BY <1>3, <1>4, <1>5 DEF Recursive
<1> QED
  BY <1>4, <1>6 DEF Joins, Recursive, n, X, b

LEMMA JoinUnique ==
  ASSUME NEW n \in Nat \ {0}, NEW ss, NEW c, NEW h,
         \A i \in 1..n : c[i] = IF i = 1 THEN ss[i] ELSE c[i - 1] \o ss[i],
         \A i \in 1..n : h[i] = IF i = 1 THEN ss[i] ELSE h[i - 1] \o ss[i]
  PROVE  c[n] = h[n]
<1> DEFINE S == {i \in 0..n : i = 0 \/ c[i] = h[i]}
<1>1. 0 \in S
  OBVIOUS
<1>2. ASSUME NEW k \in 0..(n - 1), k \in S
      PROVE  k + 1 \in S
  <2>1. k + 1 \in 1..n /\ (k + 1) - 1 = k
    OBVIOUS
  <2>2. CASE k = 0
    <3>1. c[1] = ss[1] /\ h[1] = ss[1]
      OBVIOUS
    <3> QED
      BY <2>1, <2>2, <3>1
  <2>3. CASE k # 0
    <3>1. c[k] = h[k]
      BY <1>2, <2>3
    <3>2. k + 1 # 1
      BY <2>3
    <3>3. c[k + 1] = c[k] \o ss[k + 1] /\ h[k + 1] = h[k] \o ss[k + 1]
      BY <2>1, <3>2
    <3> QED
      BY <2>1, <3>1, <3>3
  <2> QED
    BY <2>2, <2>3
<1>3. 0..n \subseteq S
  <2> HIDE DEF S
  <2> QED
    BY <1>1, <1>2, InductionUpTo
<1>4. n \in S /\ n # 0
  BY <1>3
<1> QED
  BY <1>4

LEMMA FlattenIs ==
  ASSUME NEW A, NEW ss \in Seq(Seq(A)), NEW f, Joins(A, ss, f)
  PROVE  FlattenSeq(ss) = f[Len(ss)]
<1>1. CASE Len(ss) = 0
  <2>1. ss = <<>>
    BY <1>1
  <2> QED
    BY <1>1, <2>1 DEF FlattenSeq, Joins
<1>2. CASE Len(ss) # 0
  <2> DEFINE n == Len(ss)
             Obeys(g) == g = [i \in 1..n |-> IF i = 1 THEN ss[i] ELSE g[i - 1] \o ss[i]]
             c == CHOOSE g : Obeys(g)
             h == [i \in 1..n |-> f[i]]
  <2>1. FlattenSeq(ss) = c[n]
    BY <1>2 DEF FlattenSeq
  <2>2. n \in Nat /\ n # 0
    BY <1>2
  <2>3. \A i \in 1..n : h[i] = IF i = 1 THEN ss[i] ELSE h[i - 1] \o ss[i]
    <3> SUFFICES ASSUME NEW i \in 1..n
                 PROVE  h[i] = IF i = 1 THEN ss[i] ELSE h[i - 1] \o ss[i]
      OBVIOUS
    <3>1. f[i] = f[i - 1] \o ss[i] /\ ss[i] \in Seq(A)
      BY DEF Joins
    <3>2. CASE i = 1
      <4>1. f[i - 1] = <<>>
        BY <3>2 DEF Joins
      <4>2. <<>> \o ss[i] = ss[i]
        BY <3>1
      <4> QED
        BY <3>1, <3>2, <4>1, <4>2
    <3>3. CASE i # 1
      <4>1. i - 1 \in 1..n
        BY <2>2, <3>3
      <4>2. h[i] = f[i] /\ h[i - 1] = f[i - 1]
        BY <4>1
      <4> HIDE DEF h
      <4> QED
        BY <3>1, <3>3, <4>2
    <3> QED
      BY <3>2, <3>3
  <2>4. Obeys(h)
    <3>1. h = [i \in 1..n |-> h[i]]
      OBVIOUS
    <3> HIDE DEF h, n
    <3> QED
      BY <2>3, <3>1
  <2>5. Obeys(c)
    <3> HIDE DEF Obeys
    <3> QED
      BY <2>4, Zenon
  <2> HIDE DEF c
  <2>6. \A i \in 1..n : c[i] = IF i = 1 THEN ss[i] ELSE c[i - 1] \o ss[i]
    BY <2>5
  <2>7. h[n] = f[n]
    BY <2>2
  <2>8. c[n] = h[n]
    <3> HIDE DEF h, n
    <3> QED
      BY <2>2, <2>3, <2>6, JoinUnique
  <2> QED
    BY <2>1, <2>7, <2>8
<1> QED
  BY <1>1, <1>2

LEMMA FlattenType ==
  ASSUME NEW A, NEW ss \in Seq(Seq(A))
  PROVE  FlattenSeq(ss) \in Seq(A)
<1>1. PICK f : Joins(A, ss, f)
  BY JoinsExist
<1>2. FlattenSeq(ss) = f[Len(ss)]
  BY <1>1, FlattenIs
<1> QED
  BY <1>1, <1>2 DEF Joins

LEMMA FlattenEmpty ==
  ASSUME NEW ss, ss = <<>>
  PROVE  FlattenSeq(ss) = <<>>
BY DEF FlattenSeq

LEMMA FlattenAppend ==
  ASSUME NEW A, NEW ss \in Seq(Seq(A)), NEW s \in Seq(A)
  PROVE  FlattenSeq(Append(ss, s)) = FlattenSeq(ss) \o s
<1> DEFINE n == Len(ss)
           more == Append(ss, s)
<1>1. PICK f : Joins(A, ss, f)
  BY JoinsExist
<1> DEFINE g == [i \in 0..(n + 1) |-> IF i <= n THEN f[i] ELSE f[n] \o s]
<1>2. more \in Seq(Seq(A)) /\ Len(more) = n + 1 /\ n \in Nat
  OBVIOUS
<1>3. more[n + 1] = s /\ \A i \in 1..n : more[i] = ss[i]
  OBVIOUS
<1>4. /\ f \in [0..n -> Seq(A)] /\ f[0] = <<>>
      /\ \A i \in 1..n : f[i] = f[i - 1] \o ss[i]
  BY <1>1 DEF Joins
<1>5. FlattenSeq(ss) = f[n]
  BY <1>1, FlattenIs
<1> HIDE DEF more, n
<1>6. g \in [0..(n + 1) -> Seq(A)]
  BY <1>2, <1>4
<1>7. g[n + 1] = f[n] \o s /\ \A i \in 0..n : g[i] = f[i]
  BY <1>2
<1> HIDE DEF g
<1>8. \A i \in 1..(n + 1) : g[i] = g[i - 1] \o more[i]
  <2> SUFFICES ASSUME NEW i \in 1..(n + 1)
               PROVE  g[i] = g[i - 1] \o more[i]
    OBVIOUS
  <2>1. CASE i <= n
    <3>1. i \in 1..n /\ i \in 0..n /\ i - 1 \in 0..n
      BY <1>2, <2>1
    <3>2. f[i] = f[i - 1] \o ss[i] /\ more[i] = ss[i]
      BY <1>3, <1>4, <3>1
    <3> QED
      BY <1>7, <3>1, <3>2
  <2>2. CASE i = n + 1
    <3>1. i - 1 = n /\ n \in 0..n
      BY <1>2, <2>2
    <3> QED
      BY <1>3, <1>7, <2>2, <3>1
  <2> QED
    BY <1>2, <2>1, <2>2
<1>9. Joins(A, more, g)
  <2>1. 0 \in 0..n
    BY <1>2
  <2> QED
    BY <1>2, <1>4, <1>6, <1>7, <1>8, <2>1 DEF Joins
<1>10. FlattenSeq(more) = g[n + 1]
  BY <1>2, <1>9, FlattenIs
<1> QED
  BY <1>5, <1>7, <1>10 DEF more

(***************************************************************************)
(* Sequences                                                               *)
(***************************************************************************)
LEMMA Beginnings ==
  ASSUME NEW A, NEW word \in Seq(A), NEW i \in 0..(Len(word) - 1)
  PROVE  /\ SubSeq(word, 1, i) \in Seq(A)
         /\ Len(SubSeq(word, 1, i)) = i
         /\ SubSeq(word, 1, i + 1) = Append(SubSeq(word, 1, i), word[i + 1])
OBVIOUS

LEMMA OneSymbol ==
  ASSUME NEW A, NEW a \in A
  PROVE  <<a>> \in Seq(A) /\ <<a>> # <<>>
OBVIOUS

LEMMA OneMore ==
  ASSUME NEW A, NEW a \in A, NEW s \in Seq(A)
  PROVE  Append(s, a) \in Seq(A) /\ s \o <<a>> = Append(s, a)
OBVIOUS

LEMMA OneMoreJoined ==
  ASSUME NEW A, NEW a \in A, NEW r \in Seq(A), NEW s \in Seq(A)
  PROVE  r \o Append(s, a) = Append(r \o s, a)
OBVIOUS

LEMMA LastAppended ==
  ASSUME NEW A, NEW a \in A, NEW s \in Seq(A)
  PROVE  Append(s, a) \in Seq(A) /\ Append(s, a) # <<>> /\ Last(Append(s, a)) = a
BY DEF Last

LEMMA LastReplaced ==
  ASSUME NEW A, NEW a \in A, NEW s \in Seq(A), s # <<>>
  PROVE  LET front == SubSeq(s, 1, Len(s) - 1)
         IN  /\ front \in Seq(A) /\ Last(s) \in A
             /\ s = Append(front, Last(s))
             /\ ReplaceAt(s, Len(s), a) = Append(front, a)
<1> DEFINE n == Len(s)
           front == SubSeq(s, 1, n - 1)
<1>1. n \in Nat \ {0}
  OBVIOUS
<1>2. front \in Seq(A) /\ Len(front) = n - 1 /\ \A i \in 1..(n - 1) : front[i] = s[i]
  <2>1. n - 1 \in 0..(Len(s) - 1)
    BY <1>1
  <2>2. front \in Seq(A) /\ Len(front) = n - 1
    BY <2>1, Beginnings
  <2>3. \A i \in 1..(n - 1) : front[i] = s[i]
    BY <1>1
  <2> QED
    BY <2>2, <2>3
<1>3. Last(s) = s[n] /\ s[n] \in A
  BY DEF Last
<1>4. s = Append(front, s[n])
  OBVIOUS
<1>5. ReplaceAt(s, n, a) = [s EXCEPT ![n] = a]
  BY DEF ReplaceAt
<1>6. [s EXCEPT ![n] = a] = Append(front, a)
  <2> DEFINE new == [s EXCEPT ![n] = a]
             more == Append(front, a)
  <2>1. new \in Seq(A) /\ Len(new) = n /\ new[n] = a /\ \A i \in 1..(n - 1) : new[i] = s[i]
    BY <1>1
  <2>2. more \in Seq(A) /\ Len(more) = n /\ more[n] = a /\ \A i \in 1..(n - 1) : more[i] = s[i]
    BY <1>1, <1>2
  <2> HIDE DEF new, more, n
  <2>3. \A i \in 1..n : new[i] = more[i]
    BY <1>1, <2>1, <2>2
  <2> QED
    BY <2>1, <2>2, <2>3 DEF new, more
<1> QED
  BY <1>1, <1>2, <1>3, <1>4, <1>5, <1>6

(***************************************************************************)
(* A word taken several times                                              *)
(***************************************************************************)
Copies(word, k) == FlattenSeq([i \in 1..k |-> word])

LEMMA CopiesEmpty ==
  ASSUME NEW word
  PROVE  Copies(word, 0) = <<>>
<1> DEFINE ss == [i \in 1..0 |-> word]
<1>1. ss = <<>>
  OBVIOUS
<1>2. FlattenSeq(ss) = <<>>
  BY <1>1, FlattenEmpty
<1> QED
  BY <1>2 DEF Copies

LEMMA CopiesNext ==
  ASSUME NEW A, NEW word \in Seq(A), NEW k \in Nat
  PROVE  /\ Copies(word, k) \in Seq(A)
         /\ Copies(word, k + 1) = Copies(word, k) \o word
<1> DEFINE ss == [i \in 1..k |-> word]
           more == [i \in 1..(k + 1) |-> word]
<1>1. ss \in Seq(Seq(A))
  OBVIOUS
<1>2. more = Append(ss, word)
  OBVIOUS
<1>3. FlattenSeq(ss) \in Seq(A)
  BY <1>1, FlattenType
<1>4. FlattenSeq(more) = FlattenSeq(ss) \o word
  BY <1>1, <1>2, FlattenAppend
<1> QED
  BY <1>3, <1>4 DEF Copies

LEMMA CopiesOne ==
  ASSUME NEW A, NEW word \in Seq(A)
  PROVE  Copies(word, 1) = word
<1>1. Copies(word, 0 + 1) = Copies(word, 0) \o word
  BY CopiesNext
<1>2. <<>> \o word = word
  OBVIOUS
<1> QED
  BY <1>1, <1>2, CopiesEmpty

LEMMA RangeAppended ==
  ASSUME NEW A, NEW a \in A, NEW s \in Seq(A)
  PROVE  \A b : b \in Range(Append(s, a)) <=> b \in Range(s) \/ b = a
<1> DEFINE r == Append(s, a)
           n == Len(s)
<1>1. /\ n \in Nat /\ DOMAIN s = 1..n /\ DOMAIN r = 1..(n + 1)
      /\ \A k \in 1..n : r[k] = s[k]
      /\ r[n + 1] = a
  OBVIOUS
<1> HIDE DEF r, n
<1> SUFFICES ASSUME NEW b
             PROVE  b \in Range(r) <=> b \in Range(s) \/ b = a
  BY DEF r
<1>2. ASSUME b \in Range(r)
      PROVE  b \in Range(s) \/ b = a
  <2>1. PICK k \in 1..(n + 1) : r[k] = b
    BY <1>1, <1>2 DEF Range
  <2>2. k \in 1..n \/ k = n + 1
    BY <1>1
  <2> QED
    BY <1>1, <2>1, <2>2 DEF Range
<1>3. ASSUME b \in Range(s)
      PROVE  b \in Range(r)
  <2>1. PICK k \in 1..n : s[k] = b
    BY <1>1, <1>3 DEF Range
  <2>2. k \in 1..(n + 1)
    BY <1>1
  <2> QED
    BY <1>1, <2>1, <2>2 DEF Range
<1>4. a \in Range(r)
  <2>1. n + 1 \in 1..(n + 1)
    BY <1>1
  <2> QED
    BY <1>1, <2>1 DEF Range
<1> QED
  BY <1>2, <1>3, <1>4

\* A queue whose front is popped, and what becomes of it goes to the back.
LEMMA QueueContinued ==
  ASSUME NEW S, NEW st \in Seq(S), st # <<>>, NEW more \in Seq(S)
  PROVE  LET r == Tail(st) \o more
         IN  /\ r \in Seq(S) /\ Len(r) = (Len(st) - 1) + Len(more)
             /\ Len(st) \in Nat /\ Len(st) >= 1 /\ Len(more) \in Nat
             /\ \A k \in 1..(Len(st) - 1) : r[k] = st[k + 1]
             /\ \A k \in 1..Len(more) : r[(Len(st) - 1) + k] = more[k]
<1>1. Len(st) \in Nat /\ Len(st) >= 1 /\ Len(more) \in Nat
  OBVIOUS
<1>2. Tail(st) \in Seq(S) /\ Len(Tail(st)) = Len(st) - 1
  OBVIOUS
<1>3. \A k \in 1..(Len(st) - 1) : Tail(st)[k] = st[k + 1]
  OBVIOUS
<1> QED
  BY <1>1, <1>2, <1>3

\* Each place of the new queue has a state of the old one or a new one.
LEMMA QueuePlaces ==
  ASSUME NEW S, NEW st \in Seq(S), st # <<>>, NEW more \in Seq(S),
         NEW k \in 1..Len(Tail(st) \o more)
  PROVE  \/ /\ k \in 1..(Len(st) - 1) /\ k + 1 \in 1..Len(st) /\ k + 1 # 1
            /\ (Tail(st) \o more)[k] = st[k + 1]
         \/ /\ k - (Len(st) - 1) \in 1..Len(more) /\ k >= Len(st)
            /\ (Tail(st) \o more)[k] = more[k - (Len(st) - 1)]
<1> DEFINE r == Tail(st) \o more
           n == Len(st) - 1
           m == Len(more)
<1>1. /\ Len(r) = n + m /\ n \in Nat /\ m \in Nat /\ Len(st) = n + 1
      /\ \A i \in 1..n : r[i] = st[i + 1]
      /\ \A i \in 1..m : r[n + i] = more[i]
  <2>1. /\ Len(r) = (Len(st) - 1) + Len(more)
        /\ Len(st) \in Nat /\ Len(st) >= 1 /\ Len(more) \in Nat
        /\ \A i \in 1..(Len(st) - 1) : r[i] = st[i + 1]
        /\ \A i \in 1..Len(more) : r[(Len(st) - 1) + i] = more[i]
    BY QueueContinued
  <2> HIDE DEF r
  <2> QED
    BY <2>1
<1>2. k \in 1..Len(r)
  OBVIOUS
<1> HIDE DEF r, n, m
<1>3. CASE k <= n
  <2>1. k \in 1..n /\ k + 1 \in 1..Len(st) /\ k + 1 # 1
    BY <1>1, <1>2, <1>3
  <2> QED
    BY <1>1, <2>1 DEF r, n
<1>4. CASE ~(k <= n)
  <2>1. k - n \in 1..m /\ n + (k - n) = k /\ k >= Len(st)
    BY <1>1, <1>2, <1>4
  <2>2. r[n + (k - n)] = more[k - n]
    BY <1>1, <2>1
  <2> QED
    BY <2>1, <2>2 DEF r, n, m
<1> QED
  BY <1>3, <1>4

\* The elements of sequences one behind the other.
LEMMA RangeJoined ==
  ASSUME NEW A, NEW s \in Seq(A), NEW t \in Seq(A)
  PROVE  \A a : a \in Range(s \o t) <=> a \in Range(s) \/ a \in Range(t)
<1> DEFINE r == s \o t
           n == Len(s)
           m == Len(t)
<1>1. n \in Nat /\ m \in Nat /\ DOMAIN s = 1..n /\ DOMAIN t = 1..m /\ DOMAIN r = 1..(n + m)
      /\ (\A k \in 1..n : r[k] = s[k]) /\ \A k \in 1..(n + m) : k > n => r[k] = t[k - n]
  OBVIOUS
<1> HIDE DEF r, n, m
<1>2. \A k \in 1..n : k \in 1..(n + m)
  BY <1>1
<1>3. \A k \in 1..m : n + k \in 1..(n + m) /\ n + k > n /\ (n + k) - n = k
  BY <1>1
<1>4. \A k \in 1..(n + m) : k \in 1..n \/ (k > n /\ k - n \in 1..m)
  BY <1>1
<1>5. \A k \in 1..m : r[n + k] = t[k]
  BY <1>1, <1>3
<1>6. ASSUME NEW a
      PROVE  a \in Range(r) <=> a \in Range(s) \/ a \in Range(t)
  <2>1. a \in Range(r) <=> \E k \in 1..(n + m) : a = r[k]
    BY <1>1 DEF Range
  <2>2. a \in Range(s) <=> \E k \in 1..n : a = s[k]
    BY <1>1 DEF Range
  <2>3. a \in Range(t) <=> \E k \in 1..m : a = t[k]
    BY <1>1 DEF Range
  <2>4. ASSUME NEW k \in 1..(n + m), a = r[k]
        PROVE  (\E j \in 1..n : a = s[j]) \/ \E j \in 1..m : a = t[j]
    BY <1>1, <1>4, <2>4
  <2>5. ASSUME NEW k \in 1..n, a = s[k]
        PROVE  \E j \in 1..(n + m) : a = r[j]
    BY <1>1, <1>2, <2>5
  <2>6. ASSUME NEW k \in 1..m, a = t[k]
        PROVE  \E j \in 1..(n + m) : a = r[j]
    BY <1>3, <1>5, <2>6
  <2> QED
    BY <2>1, <2>2, <2>3, <2>4, <2>5, <2>6
<1> QED
  BY <1>6 DEF r

LEMMA FlattenElements ==
  ASSUME NEW A, NEW ss \in Seq(Seq(A))
  PROVE  \A a : a \in Range(FlattenSeq(ss)) <=> \E j \in 1..Len(ss) : a \in Range(ss[j])
<1> DEFINE n == Len(ss)
           front(k) == SubSeq(ss, 1, k)
           In(k) == \A a : a \in Range(FlattenSeq(front(k))) <=> \E j \in 1..k : a \in Range(ss[j])
           S == {k \in 0..n : In(k)}
<1>1. n \in Nat
  OBVIOUS
<1>2. 0 \in S
  <2>1. front(0) = <<>>
    OBVIOUS
  <2>2. FlattenSeq(front(0)) = <<>>
    BY <2>1, FlattenEmpty
  <2>3. Range(<<>>) = {}
    BY DEF Range
  <2>4. \A j \in 1..0 : FALSE
    OBVIOUS
  <2> HIDE DEF front
  <2> QED
    BY <1>1, <2>2, <2>3, <2>4
<1>3. ASSUME NEW k \in 0..(n - 1), k \in S
      PROVE  k + 1 \in S
  <2>1. k + 1 \in 1..n /\ k + 1 \in 0..n /\ \A j \in 1..(k + 1) : j \in 1..k \/ j = k + 1
    BY <1>1
  <2>2. \A j \in 1..k : j \in 1..(k + 1)
    BY <1>1
  <2>3. k + 1 \in 1..(k + 1)
    BY <1>1
  <2>4. front(k) \in Seq(Seq(A)) /\ front(k + 1) = Append(front(k), ss[k + 1])
    BY Beginnings
  <2>5. ss[k + 1] \in Seq(A)
    BY <2>1
  <2> HIDE DEF front
  <2>6. FlattenSeq(front(k + 1)) = FlattenSeq(front(k)) \o ss[k + 1]
    BY <2>4, <2>5, FlattenAppend
  <2>7. FlattenSeq(front(k)) \in Seq(A)
    BY <2>4, FlattenType
  <2>8. \A a : a \in Range(FlattenSeq(front(k + 1)))
                 <=> a \in Range(FlattenSeq(front(k))) \/ a \in Range(ss[k + 1])
    BY <2>5, <2>6, <2>7, RangeJoined
  <2>9. In(k)
    BY <1>3
  <2>10. In(k + 1)
    BY <2>1, <2>2, <2>3, <2>8, <2>9
  <2> QED
    BY <2>1, <2>10
<1>4. n \in S
  <2> HIDE DEF S, n
  <2>1. 0..n \subseteq S
    BY <1>1, <1>2, <1>3, InductionUpTo
  <2> QED
    BY <1>1, <2>1
<1>5. front(n) = ss
  OBVIOUS
<1> QED
  <2> HIDE DEF front
  <2> QED
    BY <1>4, <1>5
=============================================================================
