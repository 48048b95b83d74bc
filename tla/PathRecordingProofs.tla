------------------------ MODULE PathRecordingProofs ------------------------
(***************************************************************************)
(* The numbering of completed iterations that all paths of a session share *)
(* identifies them, and the prefix that a path keeps for a loop stands for *)
(* what the loop has done, for all control flow graphs and bounds.         *)
(***************************************************************************)
EXTENDS PathRecording, InductionLemmas

\* All symbols in use come before the next one.
SymbolsBefore ==
  \A l \in Loop : \A e \in alphabet[l] : e.symbol \in Nat /\ e.symbol < nextSymbol

\* The inductive invariant.
IInv ==
  /\ nextSymbol \in Nat
  /\ DOMAIN alphabet = Loop
  /\ alphabet = [l \in Loop |-> alphabet[l]]
  /\ SymbolsBefore
  /\ SymbolsIdentify

\* Interning an iteration, known or not, keeps the invariant
\* (VerificationSession::intern_loop_path).
LEMMA InternKeepsIInv ==
  ASSUME NEW l \in Loop, NEW decisions,
         IInv, intern_loop_path(l, decisions), UNCHANGED program
  PROVE  IInv'
<1>1. Loop' = Loop
  BY DEF Loop
<1>2. CASE Interned(l, decisions)
  <2>1. UNCHANGED <<alphabet, nextSymbol>>
    BY <1>2 DEF intern_loop_path
  <2>2. QED
    BY <2>1, <1>1 DEF IInv, SymbolsBefore, SymbolsIdentify
<1>3. CASE ~Interned(l, decisions)
  <2> DEFINE new == [decisions |-> decisions, symbol |-> nextSymbol]
  <2>1. /\ alphabet' = [alphabet EXCEPT ![l] = @ \cup {new}]
        /\ nextSymbol' = nextSymbol + 1
    BY <1>3 DEF intern_loop_path
  <2>2. new.symbol = nextSymbol /\ new.decisions = decisions
    OBVIOUS
  <2>3. \A e \in alphabet[l] : e.decisions # decisions
    BY <1>3 DEF Interned
  <2> HIDE DEF new
  <2>4. /\ DOMAIN alphabet' = Loop
        /\ alphabet' = [m \in Loop |-> alphabet'[m]]
        /\ alphabet'[l] = alphabet[l] \cup {new}
        /\ \A m \in Loop \ {l} : alphabet'[m] = alphabet[m]
    BY <2>1 DEF IInv
  <2>5. nextSymbol \in Nat /\ nextSymbol' \in Nat /\ nextSymbol < nextSymbol'
    BY <2>1 DEF IInv
  <2>6. SymbolsBefore'
    <3> SUFFICES ASSUME NEW m \in Loop, NEW e \in alphabet'[m]
                 PROVE  e.symbol \in Nat /\ e.symbol < nextSymbol'
      BY <1>1 DEF SymbolsBefore
    <3>1. CASE e \in alphabet[m]
      BY <3>1, <2>1, <2>5 DEF IInv, SymbolsBefore
    <3>2. CASE e = new
      BY <3>2, <2>2, <2>5
    <3>3. QED
      BY <3>1, <3>2, <2>4
  <2>7. SymbolsIdentify'
    <3> SUFFICES ASSUME NEW m \in Loop, NEW n \in Loop,
                        NEW e \in alphabet'[m], NEW f \in alphabet'[n]
                 PROVE  /\ e.symbol = f.symbol => m = n
                        /\ m = n => (e.symbol = f.symbol <=> e.decisions = f.decisions)
      BY <1>1 DEF SymbolsIdentify
    <3>1. e \in alphabet[m] \/ (m = l /\ e = new)
      BY <2>4
    <3>2. f \in alphabet[n] \/ (n = l /\ f = new)
      BY <2>4
    <3>3. CASE e \in alphabet[m] /\ f \in alphabet[n]
      BY <3>3 DEF IInv, SymbolsIdentify
    <3>4. ASSUME NEW k \in Loop, NEW g \in alphabet[k]
          PROVE  /\ g.symbol # new.symbol
                 /\ k = l => g.decisions # new.decisions
      <4>1. g.symbol \in Nat /\ g.symbol < nextSymbol
        BY <3>4 DEF IInv, SymbolsBefore
      <4>2. QED
        BY <4>1, <2>2, <2>3, <2>5
    <3>5. QED
      BY <3>1, <3>2, <3>3, <3>4
  <2>8. QED
    BY <1>1, <2>4, <2>5, <2>6, <2>7 DEF IInv
<1>4. QED
  BY <1>2, <1>3

\* A step that leaves the alphabets alone keeps it.
LEMMA SameAlphabetKeepsIInv ==
  ASSUME IInv, UNCHANGED <<program, alphabet, nextSymbol>>
  PROVE  IInv'
<1>1. Loop' = Loop
  BY DEF Loop
<1>2. SymbolsBefore' /\ SymbolsIdentify'
  BY <1>1 DEF IInv, SymbolsBefore, SymbolsIdentify
<1>3. QED
  BY <1>1, <1>2 DEF IInv

LEMMA InitIInv ==
  ASSUME Init
  PROVE  IInv
<1>1. alphabet = [l \in Loop |-> {}] /\ nextSymbol = 1
  BY DEF Init
<1>2. QED
  BY <1>1 DEF IInv, SymbolsBefore, SymbolsIdentify

LEMMA NextKeepsIInv ==
  ASSUME IInv, [Next]_vars
  PROVE  IInv'
<1>1. ASSUME NEW l \in Loop, BuildNestedSummary(l)
      PROVE  IInv'
  BY <1>1, InternKeepsIInv DEF BuildNestedSummary
<1>2. ASSUME NEW l \in Loop, AccelerateNested(l)
      PROVE  IInv'
  BY <1>2, SameAlphabetKeepsIInv DEF AccelerateNested
<1>3. ASSUME NEW l \in Loop, EnterLoop(l)
      PROVE  IInv'
  BY <1>3, SameAlphabetKeepsIInv DEF EnterLoop
<1>4. ASSUME NEW l \in Loop, CompleteIteration(l)
      PROVE  IInv'
  BY <1>4, InternKeepsIInv DEF CompleteIteration
<1>5. CASE PlainBlock
  BY <1>5, SameAlphabetKeepsIInv DEF PlainBlock
<1>6. CASE Select
  BY <1>6, SameAlphabetKeepsIInv DEF Select
<1>7. CASE Branch
  BY <1>7, SameAlphabetKeepsIInv DEF Branch
<1>8. CASE Return
  BY <1>8, SameAlphabetKeepsIInv DEF Return
<1>9. CASE UNCHANGED vars
  BY <1>9, SameAlphabetKeepsIInv DEF vars
<1>10. QED
  BY <1>1, <1>2, <1>3, <1>4, <1>5, <1>6, <1>7, <1>8, <1>9 DEF Next

\* Two paths that complete iterations in any order, jumps and nested summaries
\* between them, never confuse two iterations nor give one two names.
THEOREM IterationsIdentified == Spec => []SymbolsIdentify
<1>1. Init => IInv
  BY InitIInv
<1>2. IInv /\ [Next]_vars => IInv'
  BY NextKeepsIInv
<1>3. IInv => SymbolsIdentify
  BY DEF IInv
<1>4. QED
  BY <1>1, <1>2, <1>3, PTL DEF Spec

(***************************************************************************)
(* Prefixes and the iterations they stand for                              *)
(***************************************************************************)
Symbols(table, l) == {e.symbol : e \in table[l]}
Segment(table, l) ==
  {s \in [power : BOOLEAN, word : Seq(Symbols(table, l)), exponent : Nat] :
     ~s.power => s.exponent = 1}

LEMMA ExpandType ==
  ASSUME NEW table, NEW l, NEW prefix \in Seq(Segment(table, l))
  PROVE  Expand(prefix) \in Seq(Symbols(table, l))
<1> DEFINE A == Symbols(table, l)
           ss == [i \in 1..Len(prefix) |-> Power(prefix[i].word, prefix[i].exponent)]
<1>1. ASSUME NEW i \in 1..Len(prefix)
      PROVE  Power(prefix[i].word, prefix[i].exponent) \in Seq(A)
  <2>1. prefix[i].word \in Seq(A) /\ prefix[i].exponent \in Nat
    BY DEF Segment
  <2> HIDE DEF A
  <2> QED
    BY <2>1, CopiesNext DEF Power, Copies
<1>2. Len(prefix) \in Nat
  OBVIOUS
<1>3. ss \in Seq(Seq(A))
  BY <1>1, <1>2
<1>4. FlattenSeq(ss) \in Seq(A)
  <2> HIDE DEF A, ss
  <2> QED
    BY <1>3, FlattenType
<1> QED
  BY <1>4 DEF Expand

LEMMA ExpandAppend ==
  ASSUME NEW table, NEW l, NEW prefix \in Seq(Segment(table, l)),
         NEW s \in Segment(table, l)
  PROVE  Expand(Append(prefix, s)) = Expand(prefix) \o Power(s.word, s.exponent)
<1> DEFINE A == Symbols(table, l)
           n == Len(prefix)
           more == Append(prefix, s)
           ss == [i \in 1..n |-> Power(prefix[i].word, prefix[i].exponent)]
           tt == [i \in 1..(n + 1) |-> Power(more[i].word, more[i].exponent)]
<1>1. /\ n \in Nat /\ Len(more) = n + 1
      /\ more[n + 1] = s /\ \A i \in 1..n : more[i] = prefix[i]
  OBVIOUS
<1>2. ASSUME NEW t \in Segment(table, l)
      PROVE  Power(t.word, t.exponent) \in Seq(A)
  <2>1. t.word \in Seq(A) /\ t.exponent \in Nat
    BY DEF Segment
  <2> HIDE DEF A
  <2> QED
    BY <2>1, CopiesNext DEF Power, Copies
<1>3. \A i \in 1..n : prefix[i] \in Segment(table, l)
  OBVIOUS
<1> HIDE DEF A, n, more
<1>4. ss \in Seq(Seq(A)) /\ Len(ss) = n
  <2>1. \A i \in 1..n : Power(prefix[i].word, prefix[i].exponent) \in Seq(A)
    BY <1>2, <1>3
  <2> QED
    BY <1>1, <2>1
<1>5. tt = Append(ss, Power(s.word, s.exponent))
  BY SMTT(90), <1>1, <1>2, <1>4
<1>6. FlattenSeq(tt) = FlattenSeq(ss) \o Power(s.word, s.exponent)
  <2>1. Power(s.word, s.exponent) \in Seq(A)
    BY <1>2
  <2> HIDE DEF ss, tt
  <2> QED
    BY <1>4, <1>5, <2>1, FlattenAppend
<1> QED
  BY <1>1, <1>6 DEF Expand, n, more

LEMMA ExpandEmpty ==
  Expand(<<>>) = <<>>
<1>1. [i \in 1..Len(<<>>) |-> Power(<<>>[i].word, <<>>[i].exponent)] = <<>>
  OBVIOUS
<1> QED
  BY <1>1, FlattenEmpty DEF Expand

LEMMA ExplicitIs ==
  ASSUME NEW table, NEW l, NEW word \in Seq(Symbols(table, l))
  PROVE  /\ ExplicitSegment(word) \in Segment(table, l)
         /\ ExplicitSegment(word).word = word
         /\ ExplicitSegment(word).exponent = 1
BY DEF ExplicitSegment, Segment

LEMMA SymbolicIs ==
  ASSUME NEW table, NEW l, NEW word \in Seq(Symbols(table, l)), NEW k \in Nat
  PROVE  /\ SymbolicSegment(word, k) \in Segment(table, l)
         /\ SymbolicSegment(word, k).word = word
         /\ SymbolicSegment(word, k).exponent = k
BY DEF SymbolicSegment, Segment

LEMMA ExtendedBy ==
  ASSUME NEW table, NEW l, NEW front \in Seq(Segment(table, l)),
         NEW word \in Seq(Symbols(table, l))
  PROVE  LET new == Append(front, ExplicitSegment(word))
         IN  /\ new \in Seq(Segment(table, l))
             /\ Expand(new) = Expand(front) \o word
<1> DEFINE s == ExplicitSegment(word)
<1>1. s \in Segment(table, l) /\ s.word = word /\ s.exponent = 1
  BY ExplicitIs
<1> HIDE DEF s
<1>2. Append(front, s) \in Seq(Segment(table, l))
  BY <1>1, LastAppended
<1>3. Expand(Append(front, s)) = Expand(front) \o Power(word, 1)
  BY SMTT(90), <1>1, ExpandAppend
<1>4. Power(word, 1) = word
  BY CopiesOne DEF Power, Copies
<1> QED
  BY <1>2, <1>3, <1>4 DEF s

\* Appending a symbol to a prefix, whether it opens a segment or goes on with
\* the last, appends it to the word (LoopPathExpressionState::append).
LEMMA AppendSymbolIs ==
  ASSUME NEW table, NEW l, NEW prefix \in Seq(Segment(table, l)),
         NEW a \in Symbols(table, l)
  PROVE  /\ AppendSymbol(prefix, a) \in Seq(Segment(table, l))
         /\ Expand(AppendSymbol(prefix, a)) = Append(Expand(prefix), a)
<1> DEFINE A == Symbols(table, l)
<1>1. <<a>> \in Seq(A)
  BY OneSymbol
<1>2. Expand(prefix) \in Seq(A)
  BY ExpandType
<1>3. CASE prefix = <<>> \/ Last(prefix).power
  <2> DEFINE one == <<a>>
             new == Append(prefix, ExplicitSegment(one))
  <2>1. AppendSymbol(prefix, a) = new
    BY <1>3 DEF AppendSymbol
  <2>2. Expand(prefix) \o one = Append(Expand(prefix), a)
    BY <1>2, OneMore
  <2> HIDE DEF one
  <2>3. new \in Seq(Segment(table, l)) /\ Expand(new) = Expand(prefix) \o one
    <3>1. one \in Seq(Symbols(table, l))
      BY <1>1 DEF one
    <3> QED
      BY <3>1, ExtendedBy
  <2> HIDE DEF new
  <2> QED
    BY <2>1, <2>2, <2>3
<1>4. CASE ~(prefix = <<>> \/ Last(prefix).power)
  <2> DEFINE last == Last(prefix)
             word == Append(last.word, a)
             front == SubSeq(prefix, 1, Len(prefix) - 1)
             s == ExplicitSegment(word)
  <2>1. AppendSymbol(prefix, a) = ReplaceAt(prefix, Len(prefix), s)
    BY <1>4 DEF AppendSymbol
  <2>2. /\ front \in Seq(Segment(table, l)) /\ last \in Segment(table, l)
        /\ prefix = Append(front, last)
        /\ s \in Segment(table, l) =>
             ReplaceAt(prefix, Len(prefix), s) = Append(front, s)
    <3>1. ExplicitSegment(<<a>>) \in Segment(table, l)
      BY <1>1, ExplicitIs
    <3> HIDE DEF s
    <3> QED
      BY <1>4, <3>1, LastReplaced
  <2>3. last.word \in Seq(A) /\ last.exponent = 1
    BY <1>4, <2>2 DEF Segment
  <2> HIDE DEF last
  <2>4. word \in Seq(A)
    BY <2>3, OneMore
  <2>5. s \in Segment(table, l)
    BY <2>4, ExplicitIs
  <2> HIDE DEF word, front, A
  <2>6. Expand(Append(front, s)) = Expand(front) \o word
    BY <2>2, <2>4, ExtendedBy DEF A
  <2>7. Expand(prefix) = Expand(front) \o last.word
    <3>1. Expand(prefix) = Expand(front) \o Power(last.word, 1)
      BY SMTT(90), <2>2, <2>3, ExpandAppend
    <3>2. Power(last.word, 1) = last.word
      BY <2>3, CopiesOne DEF Power, Copies
    <3> QED
      BY <3>1, <3>2
  <2>8. Expand(front) \o word = Append(Expand(front) \o last.word, a)
    <3>1. Expand(front) \in Seq(A)
      BY <2>2, ExpandType DEF A
    <3> QED
      BY <2>3, <3>1, OneMoreJoined DEF word, A
  <2>9. Append(front, s) \in Seq(Segment(table, l))
    BY <2>2, <2>5, LastAppended
  <2> HIDE DEF s
  <2> QED
    BY <2>1, <2>2, <2>5, <2>6, <2>7, <2>8, <2>9
<1> QED
  BY <1>3, <1>4

(***************************************************************************)
(* The decisions of a word                                                 *)
(***************************************************************************)
\* In the alphabet of l a symbol and its decisions determine each other.
Identifies(table, l) ==
  \A e, f \in table[l] : e.symbol = f.symbol <=> e.decisions = f.decisions

LEMMA DecisionsAre ==
  ASSUME NEW table, NEW l, Identifies(table, l), NEW e \in table[l]
  PROVE  DecisionsOf(table, l, e.symbol) = e.decisions
<1>1. \E f \in table[l] : f.symbol = e.symbol
  OBVIOUS
<1>2. \A f \in table[l] : f.symbol = e.symbol => f.decisions = e.decisions
  BY DEF Identifies
<1> QED
  BY <1>1, <1>2 DEF DecisionsOf

LEMMA SymbolIs ==
  ASSUME NEW table, NEW l, Identifies(table, l), NEW e \in table[l]
  PROVE  SymbolOf(table, l, e.decisions) = e.symbol
<1>1. \E f \in table[l] : f.decisions = e.decisions
  OBVIOUS
<1>2. \A f \in table[l] : f.decisions = e.decisions => f.symbol = e.symbol
  BY DEF Identifies
<1> QED
  BY <1>1, <1>2 DEF SymbolOf

\* A longer alphabet reads the words of a shorter one in the same way.
LEMMA SameWords ==
  ASSUME NEW t, NEW u, NEW l, t[l] \subseteq u[l], Identifies(u, l)
  PROVE  \A word \in Seq(Symbols(t, l)) :
           word \in Seq(Symbols(u, l)) /\ Spelled(u, l, word) = Spelled(t, l, word)
<1>1. Symbols(t, l) \subseteq Symbols(u, l)
  BY DEF Symbols
<1>2. \A a \in Symbols(t, l) : DecisionsOf(u, l, a) = DecisionsOf(t, l, a)
  <2> SUFFICES ASSUME NEW a \in Symbols(t, l)
               PROVE  DecisionsOf(u, l, a) = DecisionsOf(t, l, a)
    OBVIOUS
  <2>1. PICK e \in t[l] : e.symbol = a
    BY DEF Symbols
  <2>2. Identifies(t, l)
    BY DEF Identifies
  <2> QED
    BY <2>1, <2>2, DecisionsAre
<1> TAKE word \in Seq(Symbols(t, l))
<1>3. \A j \in 1..Len(word) : word[j] \in Symbols(t, l)
  OBVIOUS
<1>4. word \in Seq(Symbols(u, l))
  <2> DEFINE A == Symbols(t, l)
             B == Symbols(u, l)
  <2>1. word \in Seq(A) /\ A \subseteq B
    BY <1>1
  <2> HIDE DEF A, B
  <2>2. word \in Seq(B)
    BY <2>1
  <2> QED
    BY <2>2 DEF B
<1> QED
  BY <1>2, <1>3, <1>4 DEF Spelled

LEMMA SpelledType ==
  ASSUME NEW table, NEW l, NEW word \in Seq(Symbols(table, l))
  PROVE  /\ Spelled(table, l, word) \in Seq({DecisionsOf(table, l, a) : a \in Symbols(table, l)})
         /\ Len(Spelled(table, l, word)) = Len(word)
<1>1. \A j \in 1..Len(word) : word[j] \in Symbols(table, l)
  OBVIOUS
<1>2. Len(word) \in Nat
  OBVIOUS
<1> QED
  BY <1>1, <1>2 DEF Spelled

LEMMA SpelledEmpty ==
  ASSUME NEW table, NEW l
  PROVE  Spelled(table, l, <<>>) = <<>>
BY DEF Spelled

LEMMA SpelledAppend ==
  ASSUME NEW table, NEW l, NEW word \in Seq(Symbols(table, l)), NEW a \in Symbols(table, l)
  PROVE  Spelled(table, l, Append(word, a))
           = Append(Spelled(table, l, word), DecisionsOf(table, l, a))
<1> DEFINE D == {DecisionsOf(table, l, b) : b \in Symbols(table, l)}
           s == Spelled(table, l, word)
           t == Spelled(table, l, Append(word, a))
           u == Append(s, DecisionsOf(table, l, a))
           n == Len(word)
<1>1. s \in Seq(D) /\ Len(s) = n /\ DecisionsOf(table, l, a) \in D
  BY SpelledType
<1>2. t \in Seq(D) /\ Len(t) = n + 1
  <2>1. Append(word, a) \in Seq(Symbols(table, l)) /\ Len(Append(word, a)) = n + 1
    OBVIOUS
  <2> QED
    BY <2>1, SpelledType
<1>3. n \in Nat /\ \A j \in 1..n : t[j] = s[j]
  BY DEF Spelled
<1>4. t[n + 1] = DecisionsOf(table, l, a)
  BY DEF Spelled
<1> HIDE DEF s, t, n, D
<1>5. u \in Seq(D) /\ Len(u) = n + 1 /\ u[n + 1] = DecisionsOf(table, l, a)
      /\ \A j \in 1..n : u[j] = s[j]
  BY <1>1
<1>6. \A j \in 1..(n + 1) : u[j] = t[j]
  BY <1>3, <1>4, <1>5
<1> HIDE DEF u
<1>7. u = t
  BY <1>2, <1>5, <1>6
<1> QED
  BY <1>7 DEF s, t, u

LEMMA SpelledJoin ==
  ASSUME NEW table, NEW l,
         NEW v \in Seq(Symbols(table, l)), NEW w \in Seq(Symbols(table, l))
  PROVE  Spelled(table, l, v \o w) = Spelled(table, l, v) \o Spelled(table, l, w)
<1> DEFINE D == {DecisionsOf(table, l, b) : b \in Symbols(table, l)}
           s == Spelled(table, l, v)
           t == Spelled(table, l, w)
           r == Spelled(table, l, v \o w)
           u == s \o t
           m == Len(v)
           n == Len(w)
<1>1. s \in Seq(D) /\ Len(s) = m /\ t \in Seq(D) /\ Len(t) = n
  BY SpelledType
<1>2. r \in Seq(D) /\ Len(r) = m + n
  <2>1. v \o w \in Seq(Symbols(table, l)) /\ Len(v \o w) = m + n
    OBVIOUS
  <2> QED
    BY <2>1, SpelledType
<1>3. m \in Nat /\ n \in Nat
  OBVIOUS
<1>4. \A j \in 1..m : r[j] = s[j]
  BY DEF Spelled
<1>5. \A j \in (m + 1)..(m + n) : r[j] = t[j - m]
  <2> SUFFICES ASSUME NEW j \in (m + 1)..(m + n)
               PROVE  r[j] = t[j - m]
    OBVIOUS
  <2>1. j - m \in 1..n /\ j \in 1..Len(v \o w) /\ (v \o w)[j] = w[j - m]
    OBVIOUS
  <2> QED
    BY <2>1 DEF Spelled
<1> HIDE DEF s, t, r, m, n, D
<1>6. /\ u \in Seq(D) /\ Len(u) = m + n
      /\ \A j \in 1..m : u[j] = s[j]
      /\ \A j \in (m + 1)..(m + n) : u[j] = t[j - m]
  <2>1. u \in Seq(D) /\ Len(u) = m + n
    BY SMTT(90), <1>1
  <2>2. \A j \in 1..m : u[j] = s[j]
    BY <1>1, <1>3
  <2>3. ASSUME NEW j \in (m + 1)..(m + n)
        PROVE  u[j] = t[j - m]
    <3>1. j \in 1..(m + n) /\ ~(j <= m)
      BY <1>3
    <3> QED
      BY SMTT(90), <1>1, <3>1
  <2> QED
    BY <2>1, <2>2, <2>3
<1>7. \A j \in 1..(m + n) : u[j] = r[j]
  BY <1>3, <1>4, <1>5, <1>6
<1> HIDE DEF u
<1>8. u = r
  BY <1>2, <1>6, <1>7
<1> QED
  BY <1>8 DEF s, t, r, u

LEMMA SpelledPower ==
  ASSUME NEW table, NEW l, NEW word \in Seq(Symbols(table, l)), NEW k \in Nat
  PROVE  /\ Power(word, k) \in Seq(Symbols(table, l))
         /\ Spelled(table, l, Power(word, k)) = Power(Spelled(table, l, word), k)
<1> DEFINE A == Symbols(table, l)
           D == {DecisionsOf(table, l, b) : b \in A}
           S == {i \in 0..k : Spelled(table, l, Power(word, i))
                                = Power(Spelled(table, l, word), i)}
<1>1. \A i \in Nat : /\ Power(word, i) \in Seq(A)
                     /\ Power(word, i + 1) = Power(word, i) \o word
  BY CopiesNext DEF Power, Copies
<1>2. Spelled(table, l, word) \in Seq(D)
  BY SpelledType
<1>3. \A i \in Nat : Power(Spelled(table, l, word), i + 1)
                       = Power(Spelled(table, l, word), i) \o Spelled(table, l, word)
  <2> HIDE DEF D
  <2> QED
    BY <1>2, CopiesNext DEF Power, Copies
<1>4. 0 \in S
  <2>1. Power(word, 0) = <<>> /\ Power(Spelled(table, l, word), 0) = <<>>
    BY CopiesEmpty DEF Power, Copies
  <2> QED
    BY <2>1, SpelledEmpty
<1>5. ASSUME NEW i \in 0..(k - 1), i \in S
      PROVE  i + 1 \in S
  <2>0. i \in Nat /\ Power(word, i) \in Seq(A)
    BY <1>1
  <2>1. Spelled(table, l, Power(word, i) \o word)
          = Spelled(table, l, Power(word, i)) \o Spelled(table, l, word)
    BY <2>0, SpelledJoin
  <2>2. Spelled(table, l, Power(word, i)) = Power(Spelled(table, l, word), i)
    BY <1>5
  <2>3. /\ Power(word, i + 1) = Power(word, i) \o word
        /\ Power(Spelled(table, l, word), i + 1)
             = Power(Spelled(table, l, word), i) \o Spelled(table, l, word)
    <3> HIDE DEF A, D, S
    <3> QED
      BY <2>0, <1>1, <1>3
  <2>4. Spelled(table, l, Power(word, i + 1)) = Power(Spelled(table, l, word), i + 1)
    BY <2>1, <2>2, <2>3
  <2> QED
    BY <2>4
<1> HIDE DEF S
<1>6. 0..k \subseteq S
  BY <1>4, <1>5, InductionUpTo
<1>7. k \in S
  BY <1>6
<1> QED
  BY <1>1, <1>7 DEF S

(***************************************************************************)
(* What holds of a path, given the graph p and the alphabets in table.     *)
(***************************************************************************)
Fields(path) ==
  path = [block |-> path.block, part |-> path.part, trace |-> path.trace,
          path_decisions |-> path.path_decisions,
          loop_path_expressions |-> path.loop_path_expressions,
          open |-> path.open, done |-> path.done,
          jumps |-> path.jumps, skipped |-> path.skipped]
Shape(p, path) ==
  /\ Fields(path)
  /\ path.path_decisions \in Seq(Events(p))
  /\ path.loop_path_expressions = [l \in p.loop |-> path.loop_path_expressions[l]]
  /\ path.open = [l \in p.loop |-> path.open[l]]
  /\ path.done = [l \in p.loop |-> path.done[l]]

\* The path has come along an edge of the graph.
Comes(p, path) ==
  /\ path.block \in p.block
  /\ path.part \in {"phi", "select", "branch"}
  /\ IF path.trace = None THEN path.block = p.entry
     ELSE path.trace \in p.block /\ path.block \in Range(p.succ[path.trace])

HistoryFields(h) ==
  h = [prefix |-> h.prefix, candidates |-> h.candidates,
       cursor |-> h.cursor, started |-> h.started]
HistoryOK(table, l, h) ==
  /\ HistoryFields(h)
  /\ h.prefix \in Seq(Segment(table, l))
  /\ h.candidates \subseteq Compression!compress_path_prefix(
                              concrete_frontier(h.prefix), MaxRoot, Beam, Evidence)
  /\ h.cursor \in Nat

\* The path is in an invocation of l whose header it has passed.
In(p, path, l) ==
  /\ path.block \in p.body[l]
  /\ path.block # p.header[l] \/ path.part # "phi" \/ path.trace \in p.body[l]

\* What the loop has done is what the prefix says, and what it is doing is
\* behind the cursor.
Agrees(p, table, path, l) ==
  LET h == path.loop_path_expressions[l]
      n == Len(path.path_decisions)
  IN  /\ h.cursor <= n
      /\ l \notin path.skipped => path.done[l] = Spelled(table, l, Expand(h.prefix))
      /\ In(p, path, l) =>
           /\ h.started
           /\ l \notin path.skipped =>
                path.open[l] = SubSeq(path.path_decisions, h.cursor + 1, n)

LoopOK(p, table, path, l) ==
  HistoryOK(table, l, path.loop_path_expressions[l]) /\ Agrees(p, table, path, l)
PathOK(p, table, path) ==
  /\ Shape(p, path)
  /\ Comes(p, path)
  /\ \A l \in p.loop : LoopOK(p, table, path, l)

\* A longer alphabet does not matter.
LEMMA LongerAlphabet ==
  ASSUME NEW p, NEW t, NEW u, NEW path, PathOK(p, t, path),
         \A l \in p.loop : t[l] \subseteq u[l] /\ Identifies(u, l)
  PROVE  PathOK(p, u, path)
<1> SUFFICES ASSUME NEW l \in p.loop
             PROVE  LoopOK(p, u, path, l)
  BY DEF PathOK
<1> DEFINE h == path.loop_path_expressions[l]
<1>1. HistoryOK(t, l, h) /\ Agrees(p, t, path, l)
  BY DEF PathOK, LoopOK
<1>2. /\ \A word \in Seq(Symbols(t, l)) : word \in Seq(Symbols(u, l))
      /\ \A word \in Seq(Symbols(t, l)) : Spelled(u, l, word) = Spelled(t, l, word)
  <2> HIDE DEF h
  <2> QED
    BY SameWords
<1>3. h.prefix \in Seq(Segment(u, l))
  <2>1. Segment(t, l) \subseteq Segment(u, l)
    BY <1>2 DEF Segment
  <2>2. h.prefix \in Seq(Segment(t, l))
    BY <1>1 DEF HistoryOK
  <2> DEFINE A == Segment(t, l)
             B == Segment(u, l)
  <2>3. A \subseteq B /\ h.prefix \in Seq(A)
    BY <2>1, <2>2
  <2> HIDE DEF A, B, h
  <2>4. h.prefix \in Seq(B)
    BY <2>3
  <2> QED
    BY <2>4 DEF B
<1>4. HistoryOK(u, l, h)
  BY <1>1, <1>3 DEF HistoryOK
<1>5. Spelled(u, l, Expand(h.prefix)) = Spelled(t, l, Expand(h.prefix))
  <2>1. Expand(h.prefix) \in Seq(Symbols(t, l))
    BY <1>1, ExpandType DEF HistoryOK
  <2> QED
    BY <1>2, <2>1
<1>6. Agrees(p, u, path, l)
  BY <1>1, <1>5 DEF Agrees
<1> QED
  BY <1>4, <1>6 DEF LoopOK

\* A loop that a step leaves alone.
LEMMA LoopKept ==
  ASSUME NEW p, NEW table, NEW path, NEW new, NEW l, LoopOK(p, table, path, l),
         new.loop_path_expressions[l] = path.loop_path_expressions[l],
         new.done[l] = path.done[l],
         l \in path.skipped => l \in new.skipped,
         new.path_decisions = path.path_decisions,
         In(p, new, l) => In(p, path, l) /\ new.open[l] = path.open[l]
  PROVE  LoopOK(p, table, new, l)
BY DEF LoopOK, Agrees

LEMMA SubSeqAppend ==
  ASSUME NEW A, NEW s \in Seq(A), NEW e \in A, NEW c \in Nat, c <= Len(s)
  PROVE  /\ Append(s, e) \in Seq(A) /\ Len(Append(s, e)) = Len(s) + 1
         /\ SubSeq(Append(s, e), c + 1, Len(s) + 1) = Append(SubSeq(s, c + 1, Len(s)), e)
<1> DEFINE n == Len(s)
           v == SubSeq(Append(s, e), c + 1, n + 1)
           w == Append(SubSeq(s, c + 1, n), e)
<1>1. n \in Nat /\ Append(s, e) \in Seq(A) /\ Len(Append(s, e)) = n + 1
  OBVIOUS
<1>2. v \in Seq(A) /\ Len(v) = n + 1 - c
  BY <1>1
<1>3. w \in Seq(A) /\ Len(w) = n + 1 - c
  BY <1>1
<1>4. \A j \in 1..(n + 1 - c) : v[j] = Append(s, e)[c + j]
  BY <1>1
<1>5. \A j \in 1..(n - c) : w[j] = s[c + j] /\ Append(s, e)[c + j] = s[c + j]
  BY <1>1
<1>6. w[n + 1 - c] = e /\ Append(s, e)[n + 1] = e
  BY <1>1
<1> HIDE DEF v, w, n
<1>7. \A j \in 1..(n + 1 - c) : v[j] = w[j]
  <2> SUFFICES ASSUME NEW j \in 1..(n + 1 - c)
               PROVE  v[j] = w[j]
    OBVIOUS
  <2>1. CASE j \in 1..(n - c)
    BY <1>4, <1>5, <2>1
  <2>2. CASE j = n + 1 - c
    <3>1. c + j = n + 1
      BY <1>1, <2>2
    <3> QED
      BY <1>4, <1>6, <2>2, <3>1
  <2> QED
    BY <1>1, <2>1, <2>2
<1>8. v = w
  BY <1>2, <1>3, <1>7
<1> QED
  BY <1>1, <1>8 DEF v, w, n

\* A loop in which something is decided, or around which.
LEMMA LoopDecides ==
  ASSUME NEW p, NEW table, NEW path, NEW new, NEW l, NEW e \in Events(p),
         LoopOK(p, table, path, l), path.path_decisions \in Seq(Events(p)),
         new.loop_path_expressions[l] = path.loop_path_expressions[l],
         new.done[l] = path.done[l],
         l \in path.skipped => l \in new.skipped,
         new.path_decisions = Append(path.path_decisions, e),
         In(p, new, l) => /\ In(p, path, l)
                          /\ \/ new.open[l] = path.open[l] \o <<e>>
                             \/ new.open[l] = Append(path.open[l], e)
  PROVE  LoopOK(p, table, new, l)
<1> DEFINE h == path.loop_path_expressions[l]
           s == path.path_decisions
           now == SubSeq(s, h.cursor + 1, Len(s))
<1>1. h.cursor \in Nat /\ h.cursor <= Len(s) /\ Len(s) \in Nat
  BY SMTT(90) DEF LoopOK, HistoryOK, Agrees
<1>2. /\ Len(new.path_decisions) = Len(s) + 1
      /\ SubSeq(new.path_decisions, h.cursor + 1, Len(s) + 1) = Append(now, e)
  <2> DEFINE A == Events(p)
             c == h.cursor
             more == Append(s, e)
  <2>1. s \in Seq(A) /\ e \in A /\ c \in Nat /\ c <= Len(s)
    BY <1>1
  <2> HIDE DEF A, c, s, h
  <2>2. Len(more) = Len(s) + 1
        /\ SubSeq(more, c + 1, Len(s) + 1) = Append(SubSeq(s, c + 1, Len(s)), e)
    BY ZenonT(90), <2>1, SubSeqAppend
  <2> QED
    BY <2>2 DEF c, s
<1>3. now \o <<e>> = Append(now, e)
  <2>1. now \in Seq(Events(p))
    BY SMTT(90), <1>1
  <2> QED
    BY <2>1, OneMore
<1>4. h.cursor <= Len(s) + 1
  BY <1>1
<1> HIDE DEF now
<1>5. In(p, new, l) => /\ h.started
                       /\ l \notin new.skipped => new.open[l] = Append(now, e)
  BY <1>3 DEF LoopOK, Agrees, now
<1>6. l \notin new.skipped => new.done[l] = Spelled(table, l, Expand(h.prefix))
  BY DEF LoopOK, Agrees
<1> QED
  BY <1>2, <1>4, <1>5, <1>6 DEF LoopOK, Agrees

\* A symbol that ends a word, or stands at the end of a candidate.
LEMMA FrontierType ==
  ASSUME NEW table, NEW l, NEW prefix \in Seq(Segment(table, l))
  PROVE  concrete_frontier(prefix) \in Seq(Symbols(table, l))
<1>1. CASE prefix = <<>> \/ Last(prefix).power
  <2>1. <<>> \in Seq(Symbols(table, l))
    OBVIOUS
  <2> QED
    BY <1>1, <2>1 DEF concrete_frontier
<1>2. CASE ~(prefix = <<>> \/ Last(prefix).power)
  <2>1. Last(prefix) \in Segment(table, l)
    BY <1>2 DEF Last
  <2>2. Last(prefix).word \in Seq(Symbols(table, l))
    BY <2>1 DEF Segment
  <2> QED
    BY <1>2, <2>2 DEF concrete_frontier
<1> QED
  BY <1>1, <1>2

LEMMA StarType ==
  ASSUME NEW A, NEW frontier \in Seq(A), NEW c,
         c \in Compression!compress_path_prefix(frontier, MaxRoot, Beam, Evidence)
  PROVE  c.star \in Seq(A)
<1> DEFINE From(k) == Compression!CandidatesWith(frontier, MaxRoot, k)
           n == Len(frontier)
<1>1. \E k : c \in From(k)
  BY DEF Compression!compress_path_prefix
<1>2. PICK k : c \in From(k)
  BY <1>1
<1>3. \E length \in 1..MaxRoot :
        length <= n /\ c.star = Compression!Slice(frontier, n - length, n)
  BY <1>2 DEF Compression!CandidatesWith
<1>4. PICK length \in 1..MaxRoot :
             length <= n /\ c.star = Compression!Slice(frontier, n - length, n)
  BY <1>3
<1>5. c.star = SubSeq(frontier, (n - length) + 1, n)
  BY <1>4 DEF Compression!Slice
<1>6. n \in Nat /\ MaxRoot \in Nat
  BY PathAssumption
<1>7. length \in 1..n
  BY <1>4, <1>6
<1> QED
  BY <1>5, <1>7

(***************************************************************************)
(* At the header of a loop                                                 *)
(***************************************************************************)
LEMMA ReachedIs ==
  ASSUME NEW path, Shape(program, path), NEW l \in Loop
  PROVE  LET reached == Reached(path, l)
         IN  /\ Shape(program, reached)
             /\ reached.block = path.block /\ reached.trace = path.trace
             /\ reached.path_decisions = path.path_decisions
             /\ reached.loop_path_expressions = path.loop_path_expressions
             /\ path.trace \in Body(l) =>
                  /\ reached.done[l] = Append(path.done[l], PathOf(l, path.open[l]))
                  /\ reached.skipped = path.skipped
             /\ path.trace \notin Body(l) =>
                  /\ reached.done[l] = <<>>
                  /\ reached.skipped = path.skipped \ {l}
             /\ reached.open[l] = <<>>
             /\ \A m \in Loop \ {l} : /\ reached.done[m] = path.done[m]
                                      /\ reached.open[m] = path.open[m]
<1> DEFINE reached == Reached(path, l)
<1>1. l \in program.loop
  BY DEF Loop
<1>2. CASE path.trace \in Body(l)
  <2> DEFINE next == PathOf(l, path.open[l])
  <2>1. reached = [path EXCEPT !.done[l] = Append(path.done[l], next), !.open[l] = <<>>]
    BY <1>2 DEF Reached
  <2> HIDE DEF reached, next
  <2>2. /\ Fields(reached)
        /\ reached.block = path.block /\ reached.trace = path.trace
        /\ reached.path_decisions = path.path_decisions
        /\ reached.loop_path_expressions = path.loop_path_expressions
        /\ reached.skipped = path.skipped
        /\ reached.done = [path.done EXCEPT ![l] = Append(path.done[l], next)]
        /\ reached.open = [path.open EXCEPT ![l] = <<>>]
    BY <2>1 DEF Shape, Fields
  <2>3. /\ Shape(program, reached)
        /\ reached.done[l] = Append(path.done[l], next)
        /\ reached.open[l] = <<>>
        /\ \A m \in Loop \ {l} : /\ reached.done[m] = path.done[m]
                                 /\ reached.open[m] = path.open[m]
    BY <1>1, <2>2 DEF Shape, Loop
  <2> QED
    BY <1>2, <2>2, <2>3 DEF reached, next
<1>3. CASE path.trace \notin Body(l)
  <2>1. reached = [path EXCEPT !.done[l] = <<>>, !.open[l] = <<>>,
                               !.skipped = path.skipped \ {l}]
    BY <1>3 DEF Reached
  <2> HIDE DEF reached
  <2>2. /\ Fields(reached)
        /\ reached.block = path.block /\ reached.trace = path.trace
        /\ reached.path_decisions = path.path_decisions
        /\ reached.loop_path_expressions = path.loop_path_expressions
        /\ reached.skipped = path.skipped \ {l}
        /\ reached.done = [path.done EXCEPT ![l] = <<>>]
        /\ reached.open = [path.open EXCEPT ![l] = <<>>]
    BY <2>1 DEF Shape, Fields
  <2>3. /\ Shape(program, reached)
        /\ reached.done[l] = <<>> /\ reached.open[l] = <<>>
        /\ \A m \in Loop \ {l} : /\ reached.done[m] = path.done[m]
                                 /\ reached.open[m] = path.open[m]
    BY <1>1, <2>2 DEF Shape, Loop
  <2> QED
    BY <1>3, <2>2, <2>3 DEF reached
<1> QED
  BY <1>2, <1>3

\* The path that goes on from the header with the history h.
Here(path, l, h) ==
  AfterPhis([Reached(path, l) EXCEPT !.loop_path_expressions[l] = h])

LEMMA HereIs ==
  ASSUME NEW path, Shape(program, path), NEW l \in Loop, NEW h
  PROVE  LET new == Here(path, l, h)
         IN  /\ Shape(program, new)
             /\ new.block = path.block /\ new.part = "select" /\ new.trace = path.trace
             /\ new.path_decisions = path.path_decisions
             /\ new.loop_path_expressions[l] = h
             /\ path.trace \in Body(l) =>
                  /\ new.done[l] = Append(path.done[l], PathOf(l, path.open[l]))
                  /\ new.skipped = path.skipped
             /\ path.trace \notin Body(l) =>
                  /\ new.done[l] = <<>>
                  /\ new.skipped = path.skipped \ {l}
             /\ new.open[l] = <<>>
             /\ \A m \in Loop \ {l} :
                  /\ new.loop_path_expressions[m] = path.loop_path_expressions[m]
                  /\ new.done[m] = path.done[m]
                  /\ new.open[m] = path.open[m]
<1> DEFINE reached == Reached(path, l)
           with == [reached EXCEPT !.loop_path_expressions[l] = h]
           new == AfterPhis(with)
<1>1. l \in program.loop
  BY DEF Loop
<1>2. /\ Shape(program, reached)
      /\ reached.block = path.block /\ reached.trace = path.trace
      /\ reached.path_decisions = path.path_decisions
      /\ reached.loop_path_expressions = path.loop_path_expressions
      /\ path.trace \in Body(l) =>
           /\ reached.done[l] = Append(path.done[l], PathOf(l, path.open[l]))
           /\ reached.skipped = path.skipped
      /\ path.trace \notin Body(l) =>
           /\ reached.done[l] = <<>>
           /\ reached.skipped = path.skipped \ {l}
      /\ reached.open[l] = <<>>
      /\ \A m \in Loop \ {l} : /\ reached.done[m] = path.done[m]
                               /\ reached.open[m] = path.open[m]
  BY ReachedIs
<1> HIDE DEF reached
<1>3. /\ Shape(program, with)
      /\ with.block = reached.block /\ with.trace = reached.trace
      /\ with.path_decisions = reached.path_decisions
      /\ with.done = reached.done /\ with.open = reached.open
      /\ with.skipped = reached.skipped
      /\ with.loop_path_expressions[l] = h
      /\ \A m \in Loop \ {l} :
           with.loop_path_expressions[m] = reached.loop_path_expressions[m]
  <2>0. Fields(reached)
    BY <1>2 DEF Shape
  <2>1. /\ Fields(with)
        /\ with.block = reached.block /\ with.trace = reached.trace
        /\ with.path_decisions = reached.path_decisions
        /\ with.done = reached.done /\ with.open = reached.open
        /\ with.skipped = reached.skipped
        /\ with.loop_path_expressions
             = [reached.loop_path_expressions EXCEPT ![l] = h]
    BY <2>0 DEF Fields
  <2> HIDE DEF with
  <2> QED
    BY <1>1, <1>2, <2>1 DEF Shape, Loop
<1> HIDE DEF with
<1>4. /\ Fields(new)
      /\ new.block = with.block /\ new.trace = with.trace /\ new.part = "select"
      /\ new.path_decisions = with.path_decisions
      /\ new.loop_path_expressions = with.loop_path_expressions
      /\ new.done = with.done /\ new.open = with.open
      /\ new.skipped = with.skipped
  BY SMTT(90), <1>3 DEF AfterPhis, Shape, Fields
<1>5. new = Here(path, l, h)
  BY DEF Here, reached, with
<1> HIDE DEF new
<1>6. Shape(program, new)
  BY <1>3, <1>4 DEF Shape
<1> QED
  BY <1>2, <1>3, <1>4, <1>5, <1>6

\* The graph's facts that the proofs use.
LEMMA Graph ==
  ASSUME ProgramOK(program), None \notin program.block, NEW l \in Loop
  PROVE  /\ l \in program.loop
         /\ Header(l) \in Body(l) /\ Body(l) \subseteq program.block
         /\ None \notin Body(l) /\ program.entry \notin Body(l)
         /\ \A b \in program.block :
              Header(l) \in Range(Succ(b)) /\ b \in Body(l) <=> b \in Latches(l)
         /\ \A b \in program.block, c \in Body(l) :
              b \notin Body(l) /\ c \in Range(Succ(b)) => c = Header(l)
         /\ \A m \in Loop \ {l} : Header(m) # Header(l)
         /\ program.returning[l] # None =>
              /\ program.returning[l] \in Seq(Events(program))
              /\ program.exit[l] \in Range(Succ(Header(l))) \ Body(l)
<1>1. l \in program.loop
  BY DEF Loop
<1>2. /\ program.body[l] \subseteq program.block
      /\ program.latches[l] = {b \in program.body[l] :
                                 program.header[l] \in Range(program.succ[b])}
      /\ program.header[l] \in program.body[l]
      /\ program.entry \notin program.body[l]
      /\ program.returning[l] # None =>
           /\ program.returning[l] \in Seq(Events(program))
           /\ program.exit[l] \in Range(program.succ[program.header[l]]) \ program.body[l]
      /\ \A b \in program.block \ program.body[l] :
           Range(program.succ[b]) \cap program.body[l] \subseteq {program.header[l]}
  BY <1>1 DEF ProgramOK
<1>3. \A m \in program.loop \ {l} : program.header[m] # program.header[l]
  BY <1>1 DEF ProgramOK
<1> QED
  BY <1>1, <1>2, <1>3 DEF Header, Body, Latches, Succ, Loop

\* In a header that has not been passed, only the other loops go on.
LEMMA OthersAtHeader ==
  ASSUME ProgramOK(program), None \notin program.block,
         NEW path, path.part = "phi", NEW l \in Loop, path.block = Header(l),
         NEW new, new.block = path.block,
         NEW m \in Loop \ {l}, In(program, new, m)
  PROVE  In(program, path, m)
<1>1. Header(m) # Header(l)
  BY Graph
<1> QED
  BY <1>1 DEF In, Header

\* A path that passes a header, with a history of it that agrees.
LEMMA HereOK ==
  ASSUME ProgramOK(program), None \notin program.block,
         NEW table, NEW path, PathOK(program, table, path), path.part = "phi",
         NEW l \in Loop, path.block = Header(l),
         NEW h, LoopOK(program, table, Here(path, l, h), l)
  PROVE  PathOK(program, table, Here(path, l, h))
<1> DEFINE new == Here(path, l, h)
<1>1. Shape(program, path) /\ Comes(program, path)
  BY DEF PathOK
<1>2. /\ Shape(program, new)
      /\ new.block = path.block /\ new.part = "select" /\ new.trace = path.trace
      /\ new.path_decisions = path.path_decisions
      /\ path.trace \in Body(l) => new.skipped = path.skipped
      /\ path.trace \notin Body(l) => new.skipped = path.skipped \ {l}
      /\ \A m \in Loop \ {l} :
           /\ new.loop_path_expressions[m] = path.loop_path_expressions[m]
           /\ new.done[m] = path.done[m]
           /\ new.open[m] = path.open[m]
  BY <1>1, HereIs
<1>3. LoopOK(program, table, new, l)
  OBVIOUS
<1> HIDE DEF new
<1>4. Comes(program, new)
  BY <1>1, <1>2 DEF Comes
<1>5. ASSUME NEW m \in Loop \ {l}
      PROVE  LoopOK(program, table, new, m)
  <2>1. LoopOK(program, table, path, m)
    BY DEF PathOK, Loop
  <2>2. m \in path.skipped => m \in new.skipped
    BY <1>2
  <2>3. In(program, new, m) => In(program, path, m)
    BY <1>2, OthersAtHeader
  <2> QED
    BY <1>2, <2>1, <2>2, <2>3, LoopKept
<1> QED
  BY <1>2, <1>3, <1>4, <1>5 DEF PathOK, new, Loop

\* Entering a loop: nothing is done yet, and nothing is open.
LEMMA EnterOK ==
  ASSUME ProgramOK(program), None \notin program.block,
         NEW table, NEW path, PathOK(program, table, path), path.part = "phi",
         NEW l \in Loop, path.block = Header(l), path.trace \notin Latches(l)
  PROVE  PathOK(program, table, Here(path, l, Visited(path, l)))
<1> DEFINE s == path.path_decisions
           h == [NoHistory EXCEPT !.cursor = Len(s), !.started = TRUE]
           new == Here(path, l, Visited(path, l))
<1>1. Shape(program, path) /\ Comes(program, path)
  BY DEF PathOK
<1>2. path.trace # None /\ path.trace \notin Body(l)
  <2>1. path.block # program.entry
    BY Graph
  <2>2. path.trace \in program.block /\ path.block \in Range(Succ(path.trace))
    BY <1>1, <2>1 DEF Comes, Succ
  <2> QED
    BY <2>2, Graph
<1>3. Visited(path, l) = h
  BY <1>2 DEF Visited, NoHistory
<1>4. /\ HistoryFields(h)
      /\ h.prefix = <<>> /\ h.candidates = {} /\ h.cursor = Len(s) /\ h.started
  <2> DEFINE n == Len(s)
             none == NoHistory
             yes == TRUE
             first == [none EXCEPT !.cursor = n]
             after == [first EXCEPT !.started = yes]
  <2>1. h = after
    OBVIOUS
  <2>2. none.prefix = <<>> /\ none.candidates = {}
    BY DEF NoHistory
  <2>3. HistoryFields(none)
    BY Zenon DEF HistoryFields, NoHistory
  <2> HIDE DEF n, none, yes
  <2>4. first = [prefix |-> none.prefix, candidates |-> none.candidates,
                 cursor |-> n, started |-> none.started]
    BY <2>3 DEF HistoryFields
  <2> HIDE DEF first
  <2>5. after = [prefix |-> none.prefix, candidates |-> none.candidates,
                 cursor |-> n, started |-> yes]
    BY <2>4
  <2> HIDE DEF h, after
  <2>6. HistoryFields(h) /\ h.prefix = <<>> /\ h.candidates = {} /\ h.cursor = n
    BY <2>1, <2>2, <2>5 DEF HistoryFields
  <2>7. h.started
    <3>1. h.started = yes
      BY <2>1, <2>5
    <3> QED
      BY <3>1 DEF yes
  <2> QED
    BY <2>6, <2>7 DEF n
<1>5. /\ new.path_decisions = s
      /\ new.loop_path_expressions[l] = h
      /\ new.done[l] = <<>> /\ new.open[l] = <<>>
  BY <1>1, <1>2, <1>3, HereIs
<1>6. Len(s) \in Nat /\ SubSeq(s, Len(s) + 1, Len(s)) = <<>>
  <2>1. s \in Seq(Events(program))
    BY <1>1 DEF Shape
  <2> QED
    BY <2>1
<1> HIDE DEF h, s, new
<1>7. HistoryOK(table, l, h)
  <2>1. <<>> \in Seq(Segment(table, l))
    OBVIOUS
  <2> QED
    BY <1>4, <1>6, <2>1 DEF HistoryOK
<1>8. Spelled(table, l, Expand(<<>>)) = <<>>
  BY ExpandEmpty, SpelledEmpty
<1>9. LoopOK(program, table, new, l)
  BY <1>4, <1>5, <1>6, <1>7, <1>8 DEF LoopOK, Agrees
<1> QED
  BY <1>9, HereOK DEF new

\* Completing an iteration whose decisions the alphabet knows: the symbol is
\* appended to the prefix, the decisions to what the loop has done.
LEMMA CompleteOK ==
  ASSUME ProgramOK(program), None \notin program.block,
         NEW table, NEW path, PathOK(program, table, path), path.part = "phi",
         NEW l \in Loop, path.block = Header(l), IsBackEdge(path, l),
         Identifies(table, l),
         NEW e \in table[l], e.decisions = PathOf(l, Since(path, l))
  PROVE  PathOK(program, table, Here(path, l, Recorded(path, l, e.symbol)))
<1> DEFINE s == path.path_decisions
           old == path.loop_path_expressions[l]
           prefix == AppendSymbol(old.prefix, e.symbol)
           found == Compression!compress_path_prefix(
                      concrete_frontier(prefix), MaxRoot, Beam, Evidence)
           h == [old EXCEPT !.cursor = Len(s), !.prefix = prefix, !.candidates = found]
           new == Here(path, l, Recorded(path, l, e.symbol))
<1>1. /\ Shape(program, path) /\ Comes(program, path)
      /\ HistoryOK(table, l, old) /\ Agrees(program, table, path, l)
  BY DEF PathOK, LoopOK, Loop
<1>2. path.trace # None /\ path.trace \in Body(l)
  <2>1. path.trace # None /\ path.trace \in Latches(l)
    BY DEF IsBackEdge
  <2>2. path.trace \in program.block
    BY <1>1, <2>1 DEF Comes
  <2> QED
    BY <2>1, <2>2, Graph
<1>3. In(program, path, l)
  <2>1. Header(l) \in Body(l)
    BY Graph
  <2> QED
    BY <1>2, <2>1 DEF In, Header, Body
<1>4. old.started
  BY <1>1, <1>3 DEF Agrees
<1>5. Visited(path, l) = old
  BY <1>2, <1>4 DEF Visited
<1>6. Recorded(path, l, e.symbol) = h
  BY <1>5 DEF Recorded
<1>7. Since(path, l) = SubSeq(s, old.cursor + 1, Len(s))
  BY <1>5 DEF Since
<1>8. /\ new.path_decisions = s
      /\ new.loop_path_expressions[l] = h
      /\ new.done[l] = Append(path.done[l], PathOf(l, path.open[l]))
      /\ new.open[l] = <<>>
      /\ new.skipped = path.skipped
  <2> HIDE DEF h
  <2> QED
    BY <1>1, <1>2, <1>6, HereIs
<1>9. Len(s) \in Nat /\ SubSeq(s, Len(s) + 1, Len(s)) = <<>>
  <2>1. s \in Seq(Events(program))
    BY <1>1 DEF Shape
  <2> QED
    BY <2>1
<1>10. /\ HistoryFields(h)
       /\ h.prefix = prefix /\ h.candidates = found /\ h.cursor = Len(s)
       /\ h.started = old.started
  <2> DEFINE n == Len(s)
             first == [old EXCEPT !.cursor = n]
             second == [first EXCEPT !.prefix = prefix]
             after == [second EXCEPT !.candidates = found]
  <2>1. HistoryFields(old)
    BY <1>1 DEF HistoryOK
  <2>2. h = after
    OBVIOUS
  <2> HIDE DEF n, prefix, found, old, s
  <2>3. first = [prefix |-> old.prefix, candidates |-> old.candidates,
                 cursor |-> n, started |-> old.started]
    BY <2>1 DEF HistoryFields
  <2> HIDE DEF first
  <2>4. second = [prefix |-> prefix, candidates |-> old.candidates,
                  cursor |-> n, started |-> old.started]
    BY <2>3
  <2> HIDE DEF second
  <2>5. after = [prefix |-> prefix, candidates |-> found,
                cursor |-> n, started |-> old.started]
    BY <2>4
  <2> HIDE DEF h, after
  <2> QED
    BY <2>2, <2>5 DEF HistoryFields, n
<1>11. /\ prefix \in Seq(Segment(table, l))
       /\ Expand(prefix) = Append(Expand(old.prefix), e.symbol)
  <2>1. old.prefix \in Seq(Segment(table, l)) /\ e.symbol \in Symbols(table, l)
    BY <1>1 DEF HistoryOK, Symbols
  <2> HIDE DEF old
  <2> QED
    BY SMTT(90), <2>1, AppendSymbolIs
<1>12. /\ DecisionsOf(table, l, e.symbol) = PathOf(l, Since(path, l))
       /\ Spelled(table, l, Expand(prefix))
            = Append(Spelled(table, l, Expand(old.prefix)), PathOf(l, Since(path, l)))
  <2>1. DecisionsOf(table, l, e.symbol) = PathOf(l, Since(path, l))
    BY DecisionsAre
  <2>2. Expand(old.prefix) \in Seq(Symbols(table, l)) /\ e.symbol \in Symbols(table, l)
    BY <1>1, ExpandType DEF HistoryOK, Symbols
  <2>3. Spelled(table, l, Append(Expand(old.prefix), e.symbol))
          = Append(Spelled(table, l, Expand(old.prefix)), DecisionsOf(table, l, e.symbol))
    BY <2>2, SpelledAppend
  <2> HIDE DEF prefix, old
  <2> QED
    BY <1>11, <2>1, <2>3
<1>13. l \notin path.skipped =>
         /\ path.done[l] = Spelled(table, l, Expand(old.prefix))
         /\ path.open[l] = Since(path, l)
  BY <1>1, <1>3, <1>7 DEF Agrees
<1> HIDE DEF h, s, new, prefix, found, old
<1>14. HistoryOK(table, l, h)
  BY <1>9, <1>10, <1>11 DEF HistoryOK, found
<1>15. LoopOK(program, table, new, l)
  <2>1. l \notin new.skipped => new.done[l] = Spelled(table, l, Expand(prefix))
    BY <1>8, <1>12, <1>13
  <2>2. h.cursor <= Len(s) /\ h.started
    BY <1>4, <1>9, <1>10
  <2> QED
    BY <1>8, <1>9, <1>10, <1>14, <2>1, <2>2 DEF LoopOK, Agrees
<1> QED
  BY <1>15, HereOK DEF new

(***************************************************************************)
(* Jumps                                                                   *)
(***************************************************************************)
\* The path behind the header of l jumps over k repetitions of a candidate.
JumpTo(table, path, l, history, candidate, k) ==
  LET slices == Power(Spelled(table, l, candidate.star), k)
  IN  [path EXCEPT
         !.loop_path_expressions[l] =
            [history EXCEPT !.prefix = Append(@, SymbolicSegment(candidate.star, k)),
                            !.candidates = {}],
         !.done[l] = @ \o slices,
         !.open = [m \in Loop |-> IF m \in Around(l)
                                  THEN @[m] \o FlattenSeq(slices) ELSE @[m]],
         !.jumps = @ + 1,
         !.skipped = @ \cup Around(l)]

LEMMA JumpOK ==
  ASSUME ProgramOK(program), None \notin program.block,
         NEW table, NEW path, PathOK(program, table, path), path.part = "select",
         NEW l \in Loop, path.block = Header(l),
         NEW c \in path.loop_path_expressions[l].candidates, NEW k \in Nat
  PROVE  PathOK(program, table, JumpTo(table, path, l, path.loop_path_expressions[l], c, k))
<1> DEFINE old == path.loop_path_expressions[l]
           word == c.star
           slices == Power(Spelled(table, l, word), k)
           prefix == Append(old.prefix, SymbolicSegment(word, k))
           h == [old EXCEPT !.prefix = prefix, !.candidates = {}]
           open == [m \in Loop |-> IF m \in Around(l)
                                   THEN path.open[m] \o FlattenSeq(slices) ELSE path.open[m]]
           skipped == path.skipped \cup Around(l)
           new == JumpTo(table, path, l, old, c, k)
<1>1. /\ Shape(program, path) /\ Comes(program, path)
      /\ HistoryOK(table, l, old) /\ Agrees(program, table, path, l)
  BY DEF PathOK, LoopOK, Loop
<1>2. In(program, path, l)
  <2>1. Header(l) \in Body(l)
    BY Graph
  <2> QED
    BY <2>1 DEF In, Header, Body
<1>3. word \in Seq(Symbols(table, l))
  <2>1. concrete_frontier(old.prefix) \in Seq(Symbols(table, l))
    BY <1>1, FrontierType DEF HistoryOK
  <2>2. c \in Compression!compress_path_prefix(
                concrete_frontier(old.prefix), MaxRoot, Beam, Evidence)
    BY <1>1 DEF HistoryOK
  <2> QED
    BY <2>1, <2>2, StarType
<1>4. /\ prefix \in Seq(Segment(table, l))
      /\ Expand(prefix) = Expand(old.prefix) \o Power(word, k)
  <2>1. old.prefix \in Seq(Segment(table, l))
    BY <1>1 DEF HistoryOK
  <2> DEFINE s == SymbolicSegment(word, k)
  <2>2. s \in Segment(table, l) /\ s.word = word /\ s.exponent = k
    BY <1>3, SymbolicIs
  <2> HIDE DEF s, old, word
  <2>3. Append(old.prefix, s) \in Seq(Segment(table, l))
    BY <2>1, <2>2, LastAppended
  <2> DEFINE front == old.prefix
  <2>4. front \in Seq(Segment(table, l))
    BY <2>1
  <2> HIDE DEF front
  <2>5. Expand(Append(front, s)) = Expand(front) \o Power(s.word, s.exponent)
    BY SMTT(90), <2>2, <2>4, ExpandAppend
  <2>6. Expand(Append(old.prefix, s)) = Expand(old.prefix) \o Power(word, k)
    BY <2>2, <2>5 DEF front
  <2> QED
    BY <2>3, <2>6 DEF s
<1>5. Spelled(table, l, Expand(prefix)) = Spelled(table, l, Expand(old.prefix)) \o slices
  <2>1. Expand(old.prefix) \in Seq(Symbols(table, l))
    BY <1>1, ExpandType DEF HistoryOK
  <2>2. /\ Power(word, k) \in Seq(Symbols(table, l))
        /\ Spelled(table, l, Power(word, k)) = slices
    <3> HIDE DEF word
    <3> QED
      BY <1>3, SpelledPower
  <2> DEFINE before == Expand(old.prefix)
             more == Power(word, k)
  <2>3. before \in Seq(Symbols(table, l)) /\ more \in Seq(Symbols(table, l))
    BY <2>1, <2>2
  <2> HIDE DEF before, more
  <2>4. Spelled(table, l, before \o more)
          = Spelled(table, l, before) \o Spelled(table, l, more)
    BY <2>3, SpelledJoin
  <2> HIDE DEF slices, prefix, old, word
  <2> QED
    BY <1>4, <2>2, <2>4 DEF before, more
<1>6. /\ HistoryFields(h)
      /\ h.prefix = prefix /\ h.candidates = {} /\ h.cursor = old.cursor
      /\ h.started = old.started
  <2> DEFINE first == [old EXCEPT !.prefix = prefix]
             after == [first EXCEPT !.candidates = {}]
  <2>1. HistoryFields(old)
    BY <1>1 DEF HistoryOK
  <2>2. h = after
    OBVIOUS
  <2> HIDE DEF prefix, old
  <2>3. first = [prefix |-> prefix, candidates |-> old.candidates,
                 cursor |-> old.cursor, started |-> old.started]
    BY <2>1 DEF HistoryFields
  <2> HIDE DEF first
  <2>4. after = [prefix |-> prefix, candidates |-> {},
                cursor |-> old.cursor, started |-> old.started]
    BY <2>3
  <2> HIDE DEF h, after
  <2> QED
    BY <2>2, <2>4 DEF HistoryFields
<1>7. /\ Fields(new)
      /\ new.block = path.block /\ new.part = path.part /\ new.trace = path.trace
      /\ new.path_decisions = path.path_decisions
      /\ new.loop_path_expressions = [path.loop_path_expressions EXCEPT ![l] = h]
      /\ new.done = [path.done EXCEPT ![l] = path.done[l] \o slices]
      /\ new.open = open
      /\ new.skipped = skipped
  <2>1. Fields(path)
    BY <1>1 DEF Shape
  <2>2. new = [path EXCEPT !.loop_path_expressions[l] = h,
                           !.done[l] = path.done[l] \o slices,
                           !.open = open,
                           !.jumps = path.jumps + 1,
                           !.skipped = skipped]
    BY DEF JumpTo
  <2> HIDE DEF h, slices, open, skipped, new, old
  <2> QED
    BY <2>1, <2>2 DEF Fields
<1>8. /\ new.loop_path_expressions[l] = h /\ new.done[l] = path.done[l] \o slices
      /\ \A m \in Loop \ {l} :
           /\ new.loop_path_expressions[m] = path.loop_path_expressions[m]
           /\ new.done[m] = path.done[m]
      /\ \A m \in Loop \ Around(l) : new.open[m] = path.open[m]
      /\ new.skipped = path.skipped \cup Around(l)
      /\ Shape(program, new)
  <2> HIDE DEF h, slices, new, old
  <2>1. /\ path.loop_path_expressions = [m \in program.loop |-> path.loop_path_expressions[m]]
        /\ path.done = [m \in program.loop |-> path.done[m]]
        /\ path.path_decisions \in Seq(Events(program))
    BY <1>1 DEF Shape
  <2>2. open = [m \in program.loop |-> open[m]]
    BY DEF Loop
  <2>3. l \in program.loop
    BY DEF Loop
  <2>4. Shape(program, new)
    <3> HIDE DEF open
    <3> QED
      BY <1>7, <2>1, <2>2, <2>3 DEF Shape
  <2> QED
    BY <1>7, <2>1, <2>3, <2>4 DEF Loop
<1>9. l \notin Around(l)
  BY DEF Around
<1> HIDE DEF new, h, prefix, slices, old, word, open, skipped
<1>10. LoopOK(program, table, new, l)
  <2>1. HistoryOK(table, l, h)
    BY <1>1, <1>4, <1>6 DEF HistoryOK
  <2>2. l \notin new.skipped =>
          /\ new.done[l] = Spelled(table, l, Expand(prefix))
          /\ new.open[l] = SubSeq(path.path_decisions, old.cursor + 1,
                                  Len(path.path_decisions))
    BY <1>1, <1>2, <1>5, <1>8, <1>9 DEF Agrees, old
  <2>3. old.started /\ old.cursor <= Len(path.path_decisions)
    BY <1>1, <1>2 DEF Agrees, old
  <2> QED
    BY <1>6, <1>7, <1>8, <2>1, <2>2, <2>3 DEF LoopOK, Agrees
<1>11. ASSUME NEW m \in Loop \ {l}
       PROVE  LoopOK(program, table, new, m)
  <2>1. LoopOK(program, table, path, m)
    BY DEF PathOK, Loop
  <2>2. m \in path.skipped => m \in new.skipped
    BY <1>8
  <2>3. In(program, new, m) => In(program, path, m)
    BY <1>7 DEF In
  <2>4. CASE m \notin Around(l)
    BY <1>7, <1>8, <2>1, <2>2, <2>3, <2>4, LoopKept
  <2>5. CASE m \in Around(l)
    <3>1. m \in new.skipped
      BY <1>8, <2>5
    <3> QED
      BY <1>7, <1>8, <2>1, <2>3, <3>1 DEF LoopOK, Agrees
  <2> QED
    BY <2>4, <2>5
<1>12. Comes(program, new)
  BY <1>1, <1>7 DEF Comes
<1> QED
  BY <1>8, <1>10, <1>11, <1>12 DEF PathOK, new, old, Loop

(***************************************************************************)
(* Elsewhere                                                               *)
(***************************************************************************)
\* The path is past the PHIs of its block, or on its way past them without a
\* header.
LEMMA PartOK ==
  ASSUME NEW table, NEW path, PathOK(program, table, path),
         path.part # "phi" \/ \A l \in Loop : path.block # Header(l),
         NEW part \in {"select", "branch"}
  PROVE  PathOK(program, table, [path EXCEPT !.part = part])
<1> DEFINE new == [path EXCEPT !.part = part]
<1>1. Shape(program, path) /\ Comes(program, path)
  BY DEF PathOK
<1>2. /\ Fields(new) /\ new.part = part
      /\ new.block = path.block /\ new.trace = path.trace
      /\ new.path_decisions = path.path_decisions
      /\ new.loop_path_expressions = path.loop_path_expressions
      /\ new.done = path.done /\ new.open = path.open
      /\ new.skipped = path.skipped
  <2>1. Fields(path)
    BY <1>1 DEF Shape
  <2> QED
    BY <2>1 DEF Fields
<1> HIDE DEF new
<1>3. Shape(program, new) /\ Comes(program, new)
  BY <1>1, <1>2 DEF Shape, Comes
<1>4. ASSUME NEW l \in Loop
      PROVE  LoopOK(program, table, new, l)
  <2>1. LoopOK(program, table, path, l)
    BY DEF PathOK, Loop
  <2>2. In(program, new, l) => In(program, path, l)
    BY <1>2 DEF In, Header
  <2> QED
    BY <1>2, <2>1, <2>2, LoopKept
<1> QED
  BY <1>3, <1>4 DEF PathOK, new, Loop

LEMMA LeaveIs ==
  ASSUME NEW path, Fields(path), NEW b
  PROVE  LET new == LeaveTo(path, b)
         IN  /\ Fields(new) /\ new.part = "phi"
             /\ new.block = b /\ new.trace = path.block
             /\ new.path_decisions = path.path_decisions
             /\ new.loop_path_expressions = path.loop_path_expressions
             /\ new.done = path.done /\ new.open = path.open
             /\ new.skipped = path.skipped
<1> DEFINE first == [path EXCEPT !.trace = path.block]
           second == [first EXCEPT !.block = b]
           phi == "phi"
           new == [second EXCEPT !.part = phi]
<1>1. LeaveTo(path, b) = new
  BY DEF LeaveTo
<1>2. /\ Fields(first) /\ first.trace = path.block
      /\ first.path_decisions = path.path_decisions
      /\ first.loop_path_expressions = path.loop_path_expressions
      /\ first.done = path.done /\ first.open = path.open
      /\ first.skipped = path.skipped
  BY DEF Fields
<1> HIDE DEF first, phi
<1>3. /\ Fields(second) /\ second.trace = path.block /\ second.block = b
      /\ second.path_decisions = path.path_decisions
      /\ second.loop_path_expressions = path.loop_path_expressions
      /\ second.done = path.done /\ second.open = path.open
      /\ second.skipped = path.skipped
  BY <1>2 DEF Fields
<1> HIDE DEF second
<1>4. /\ Fields(new) /\ new.trace = path.block /\ new.block = b /\ new.part = phi
      /\ new.path_decisions = path.path_decisions
      /\ new.loop_path_expressions = path.loop_path_expressions
      /\ new.done = path.done /\ new.open = path.open
      /\ new.skipped = path.skipped
  BY <1>3 DEF Fields
<1> HIDE DEF new
<1> QED
  BY <1>1, <1>4 DEF phi

\* Leaving a block by one of its edges (the end of an AInstructionBranch).
LEMMA LeaveOK ==
  ASSUME ProgramOK(program), None \notin program.block,
         NEW table, NEW path, PathOK(program, table, path), path.part # "phi",
         NEW b \in Range(Succ(path.block))
  PROVE  PathOK(program, table, LeaveTo(path, b))
<1> DEFINE new == LeaveTo(path, b)
<1>1. Shape(program, path) /\ Comes(program, path)
  BY DEF PathOK
<1>2. /\ Fields(new) /\ new.part = "phi"
      /\ new.block = b /\ new.trace = path.block
      /\ new.path_decisions = path.path_decisions
      /\ new.loop_path_expressions = path.loop_path_expressions
      /\ new.done = path.done /\ new.open = path.open
      /\ new.skipped = path.skipped
  <2>1. Fields(path)
    BY <1>1 DEF Shape
  <2> QED
    BY <2>1, LeaveIs
<1> HIDE DEF new
<1>3. path.block \in program.block /\ b \in program.block
  <2>1. path.block \in program.block
    BY <1>1 DEF Comes
  <2>2. Succ(path.block) \in Seq(program.block)
    BY <2>1 DEF ProgramOK, Succ
  <2> QED
    BY <2>1, <2>2 DEF Range
<1>4. Shape(program, new) /\ Comes(program, new)
  BY <1>1, <1>2, <1>3 DEF Shape, Comes, Succ
<1>5. ASSUME NEW l \in Loop
      PROVE  LoopOK(program, table, new, l)
  <2>1. LoopOK(program, table, path, l)
    BY DEF PathOK, Loop
  <2>2. In(program, new, l) => In(program, path, l)
    <3>1. In(program, new, l) => path.block \in Body(l)
      BY <1>2, <1>3, Graph DEF In, Header, Body
    <3> QED
      BY <3>1 DEF In, Body
  <2> QED
    BY <1>2, <2>1, <2>2, LoopKept
<1> QED
  BY <1>4, <1>5 DEF PathOK, new, Loop

\* A decision is added to those of the path, and to those of the iteration
\* under way of every loop around the block (State::record_decision).
LEMMA DecideOK ==
  ASSUME NEW table, NEW path, PathOK(program, table, path),
         NEW e \in Events(program)
  PROVE  LET new == Decide(path, e)
         IN  /\ PathOK(program, table, new)
             /\ new.block = path.block /\ new.part = path.part
<1> DEFINE happened == Happen(path, <<e>>)
           more == Append(path.path_decisions, e)
           new == Decide(path, e)
<1>1. Shape(program, path) /\ Comes(program, path)
  BY DEF PathOK
<1>2. /\ Fields(happened) /\ happened.part = path.part
      /\ happened.block = path.block /\ happened.trace = path.trace
      /\ happened.path_decisions = path.path_decisions
      /\ happened.loop_path_expressions = path.loop_path_expressions
      /\ happened.done = path.done
      /\ happened.skipped = path.skipped
      /\ happened.open = [l \in Loop |-> IF path.block \in Body(l)
                                        THEN path.open[l] \o <<e>>
                                        ELSE path.open[l]]
  <2>1. Fields(path)
    BY <1>1 DEF Shape
  <2> QED
    BY SMTT(90), <2>1 DEF Happen, Fields
<1> HIDE DEF happened
<1>3. /\ Fields(new) /\ new.part = path.part
      /\ new.block = path.block /\ new.trace = path.trace
      /\ new.path_decisions = more
      /\ new.loop_path_expressions = path.loop_path_expressions
      /\ new.done = path.done
      /\ new.skipped = path.skipped
      /\ new.open = happened.open
  <2>1. new = [happened EXCEPT !.path_decisions = more]
    BY <1>2 DEF Decide, happened
  <2> HIDE DEF new, more
  <2> QED
    BY <1>2, <2>1 DEF Fields
<1> HIDE DEF new
<1>4. Shape(program, new) /\ Comes(program, new)
  <2>1. more \in Seq(Events(program))
    BY <1>1 DEF Shape
  <2>2. new.open = [l \in program.loop |-> new.open[l]]
    BY <1>2, <1>3 DEF Loop
  <2>3. Comes(program, new)
    BY <1>1, <1>3 DEF Comes
  <2> HIDE DEF more
  <2> QED
    BY <1>1, <1>3, <2>1, <2>2, <2>3 DEF Shape
<1>5. ASSUME NEW l \in Loop
      PROVE  LoopOK(program, table, new, l)
  <2>1. LoopOK(program, table, path, l)
    BY DEF PathOK, Loop
  <2>2. In(program, new, l) => /\ In(program, path, l)
                               /\ new.open[l] = path.open[l] \o <<e>>
    BY <1>2, <1>3 DEF In, Body
  <2>3. path.path_decisions \in Seq(Events(program))
    BY <1>1 DEF Shape
  <2>4. /\ new.loop_path_expressions[l] = path.loop_path_expressions[l]
        /\ new.done[l] = path.done[l]
        /\ l \in path.skipped => l \in new.skipped
        /\ new.path_decisions = Append(path.path_decisions, e)
    BY <1>3
  <2> QED
    BY <2>1, <2>2, <2>3, <2>4, LoopDecides
<1> QED
  BY <1>3, <1>4, <1>5 DEF PathOK, new, Loop

(***************************************************************************)
(* Nested jumps                                                            *)
(***************************************************************************)
\* The path that completes the loop l in k iterations, each of which has the
\* decisions that the symbol a stands for.
NestedHistory(a, k) == [NoHistory EXCEPT !.prefix = <<SymbolicSegment(<<a>>, k)>>]
NestedDecision(l) == Event(Header(l), "header", 2)
NestedJump(table, path, l, a, k) ==
  LET entered == Reached(path, l)
      ran == [entered EXCEPT
                !.done[l] = [i \in 1..k |-> DecisionsOf(table, l, a)],
                !.loop_path_expressions[l] = NestedHistory(a, k),
                !.jumps = @ + 1]
      around == [ran EXCEPT
                   !.open = [m \in Loop |-> IF m \in Around(l)
                                            THEN Append(@[m], NestedDecision(l))
                                            ELSE @[m]],
                   !.path_decisions = Append(@, NestedDecision(l))]
  IN  LeaveTo(around, program.exit[l])

\* k copies of one symbol.
LEMMA OneSymbolPower ==
  ASSUME NEW table, NEW l, NEW a \in Symbols(table, l), NEW k \in Nat
  PROVE  /\ <<SymbolicSegment(<<a>>, k)>> \in Seq(Segment(table, l))
         /\ Spelled(table, l, Expand(<<SymbolicSegment(<<a>>, k)>>))
              = [i \in 1..k |-> DecisionsOf(table, l, a)]
<1> DEFINE A == Symbols(table, l)
           d == DecisionsOf(table, l, a)
           word == <<a>>
           none == <<>>
           s == SymbolicSegment(word, k)
           S == {i \in 0..k : Power(word, i) = [j \in 1..i |-> a]}
<1>1. word \in Seq(A)
  BY OneSymbol
<1>2. s \in Segment(table, l) /\ s.word = word /\ s.exponent = k
  <2>1. word \in Seq(Symbols(table, l))
    BY <1>1
  <2> HIDE DEF word
  <2> QED
    BY <2>1, SymbolicIs
<1>3. <<s>> = Append(none, s)
  OBVIOUS
<1>4. Expand(<<s>>) = Power(word, k)
  <2>1. Power(word, k) \in Seq(A)
    <3> HIDE DEF word, A
    <3> QED
      BY <1>1, CopiesNext DEF Power, Copies
  <2>2. Expand(none) = <<>>
    BY ExpandEmpty
  <2>3. Expand(Append(none, s)) = Expand(none) \o Power(s.word, s.exponent)
    <3>1. none \in Seq(Segment(table, l))
      OBVIOUS
    <3>2. s \in Segment(table, l)
      BY <1>2
    <3> HIDE DEF none, s
    <3> QED
      BY <3>1, <3>2, ExpandAppend
  <2> HIDE DEF none, s, word
  <2>4. Expand(<<s>>) = <<>> \o Power(word, k)
    BY <1>2, <1>3, <2>2, <2>3
  <2> DEFINE powered == Power(word, k)
  <2>5. powered \in Seq(A)
    BY <2>1
  <2> HIDE DEF powered, A
  <2>6. <<>> \o powered = powered
    BY <2>5
  <2> QED
    BY <2>4, <2>6 DEF powered
<1>5. Power(word, k) = [j \in 1..k |-> a]
  <2>1. 0 \in S
    <3>1. Power(word, 0) = <<>>
      BY CopiesEmpty DEF Power, Copies
    <3> QED
      BY <3>1
  <2>2. ASSUME NEW i \in 0..(k - 1), i \in S
        PROVE  i + 1 \in S
    <3>1. i \in Nat /\ Power(word, i) = [j \in 1..i |-> a]
      BY <2>2
    <3>2. Power(word, i + 1) = Power(word, i) \o word
      <4> HIDE DEF word, A
      <4> QED
        BY <1>1, <3>1, CopiesNext DEF Power, Copies
    <3>3. [j \in 1..i |-> a] \o <<a>> = [j \in 1..(i + 1) |-> a]
      BY <3>1
    <3>4. Power(word, i + 1) = [j \in 1..(i + 1) |-> a]
      BY <3>1, <3>2, <3>3
    <3> QED
      BY <3>4
  <2> HIDE DEF S
  <2>3. 0..k \subseteq S
    BY <2>1, <2>2, InductionUpTo
  <2>4. k \in S
    BY <2>3
  <2> QED
    BY <2>4 DEF S
<1>6. Spelled(table, l, [j \in 1..k |-> a]) = [j \in 1..k |-> d]
  BY DEF Spelled
<1>7. <<s>> \in Seq(Segment(table, l))
  BY <1>2
<1> QED
  BY <1>4, <1>5, <1>6, <1>7

\* What it leaves behind.
NestedResult(table, path, l, a, k, new) ==
  /\ Fields(new)
  /\ new.part = "phi" /\ new.trace = path.block
  /\ new.block = program.exit[l]
  /\ new.path_decisions = Append(path.path_decisions, NestedDecision(l))
  /\ new.loop_path_expressions
       = [path.loop_path_expressions EXCEPT ![l] = NestedHistory(a, k)]
  /\ new.done[l] = [i \in 1..k |-> DecisionsOf(table, l, a)]
  /\ new.done = [m \in Loop |-> new.done[m]]
  /\ new.open = [m \in Loop |-> new.open[m]]
  /\ \A m \in Loop \ {l} : /\ new.done[m] = path.done[m]
                           /\ m \in path.skipped => m \in new.skipped
  /\ \A m \in Around(l) : new.open[m] = Append(path.open[m], NestedDecision(l))

LEMMA NestedIs ==
  ASSUME NEW table, NEW path, Shape(program, path), NEW l \in Loop,
         path.trace \notin Body(l), NEW a, NEW k \in Nat
  PROVE  NestedResult(table, path, l, a, k, NestedJump(table, path, l, a, k))
<1> DEFINE e == NestedDecision(l)
           history == NestedHistory(a, k)
           slices == [i \in 1..k |-> DecisionsOf(table, l, a)]
           entered == Reached(path, l)
           more == entered.jumps + 1
           histories == [entered.loop_path_expressions EXCEPT ![l] = history]
           done == [entered.done EXCEPT ![l] = slices]
           first == [entered EXCEPT !.done = done]
           second == [first EXCEPT !.loop_path_expressions = histories]
           ran == [second EXCEPT !.jumps = more]
           open == [m \in Loop |-> IF m \in Around(l) THEN Append(ran.open[m], e)
                                                      ELSE ran.open[m]]
           decisions == Append(ran.path_decisions, e)
           third == [ran EXCEPT !.open = open]
           around == [third EXCEPT !.path_decisions = decisions]
           new == LeaveTo(around, program.exit[l])
<1>1. /\ Shape(program, entered)
      /\ entered.block = path.block
      /\ entered.path_decisions = path.path_decisions
      /\ entered.loop_path_expressions = path.loop_path_expressions
      /\ entered.skipped = path.skipped \ {l}
      /\ \A m \in Loop \ {l} : /\ entered.done[m] = path.done[m]
                               /\ entered.open[m] = path.open[m]
  BY ReachedIs
<1>2. NestedJump(table, path, l, a, k) = new
  BY DEF NestedJump
<1> HIDE DEF entered, e, history, slices
<1>3. /\ Fields(first) /\ first.block = path.block
      /\ first.done = done /\ first.open = entered.open
      /\ first.path_decisions = path.path_decisions
      /\ first.loop_path_expressions = entered.loop_path_expressions
      /\ first.skipped = entered.skipped
  <2>1. Fields(entered)
    BY <1>1 DEF Shape
  <2> HIDE DEF done
  <2> QED
    BY <1>1, <2>1 DEF Fields
<1> HIDE DEF first, done
<1>4. /\ Fields(second) /\ second.block = path.block
      /\ second.done = done /\ second.open = entered.open
      /\ second.path_decisions = path.path_decisions
      /\ second.loop_path_expressions = histories
      /\ second.skipped = entered.skipped
  <2> HIDE DEF histories
  <2> QED
    BY <1>3 DEF Fields
<1> HIDE DEF second, more, histories
<1>5. /\ Fields(ran) /\ ran.block = path.block
      /\ ran.done = done /\ ran.open = entered.open
      /\ ran.path_decisions = path.path_decisions
      /\ ran.loop_path_expressions = histories
      /\ ran.skipped = entered.skipped
  BY <1>4 DEF Fields
<1> HIDE DEF ran
<1>6. /\ Fields(third) /\ third.block = path.block
      /\ third.done = done /\ third.open = open
      /\ third.path_decisions = path.path_decisions
      /\ third.loop_path_expressions = histories
      /\ third.skipped = entered.skipped
  <2> HIDE DEF open
  <2> QED
    BY <1>5 DEF Fields
<1> HIDE DEF third
<1>7. /\ Fields(around) /\ around.block = path.block
      /\ around.done = done /\ around.open = open
      /\ around.path_decisions = decisions
      /\ around.loop_path_expressions = histories
      /\ around.skipped = entered.skipped
  <2> HIDE DEF open, decisions
  <2> QED
    BY <1>6 DEF Fields
<1> HIDE DEF around
<1>8. /\ Fields(new) /\ new.part = "phi"
      /\ new.trace = path.block /\ new.block = program.exit[l]
      /\ new.done = done /\ new.open = open
      /\ new.path_decisions = decisions
      /\ new.loop_path_expressions = histories
      /\ new.skipped = entered.skipped
  <2> DEFINE b == program.exit[l]
  <2> HIDE DEF open, decisions, b
  <2>1. LET n == LeaveTo(around, b)
        IN  /\ Fields(n) /\ n.part = "phi"
            /\ n.trace = around.block /\ n.block = b
            /\ n.done = around.done /\ n.open = around.open
            /\ n.path_decisions = around.path_decisions
            /\ n.loop_path_expressions = around.loop_path_expressions
            /\ n.skipped = around.skipped
    BY <1>7, LeaveIs
  <2> QED
    BY <1>7, <2>1 DEF b
<1> HIDE DEF new
<1>9. l \in program.loop /\ \A m \in Around(l) : m \in Loop \ {l}
  BY DEF Around, Loop
<1>10. entered.done = [m \in Loop |-> entered.done[m]]
  BY <1>1 DEF Shape, Loop
<1>11. /\ done[l] = slices /\ done = [m \in Loop |-> done[m]]
       /\ \A m \in Loop \ {l} : done[m] = path.done[m]
  BY <1>1, <1>9, <1>10 DEF done, Loop
<1>12. /\ open = [m \in Loop |-> open[m]]
       /\ \A m \in Around(l) : open[m] = Append(path.open[m], e)
  BY <1>1, <1>5, <1>9
<1>13. decisions = Append(path.path_decisions, e)
  BY <1>5
<1>14. histories = [path.loop_path_expressions EXCEPT ![l] = history]
  BY <1>1 DEF histories
<1>15. \A m \in Loop \ {l} : m \in path.skipped => m \in new.skipped
  BY <1>1, <1>8
<1> HIDE DEF decisions, open
<1>16. /\ Fields(new) /\ new.part = "phi"
       /\ new.trace = path.block /\ new.block = program.exit[l]
       /\ new.path_decisions = Append(path.path_decisions, e)
       /\ new.loop_path_expressions = [path.loop_path_expressions EXCEPT ![l] = history]
       /\ new.done[l] = slices
       /\ new.done = [m \in Loop |-> new.done[m]]
       /\ new.open = [m \in Loop |-> new.open[m]]
       /\ \A m \in Loop \ {l} : /\ new.done[m] = path.done[m]
                                /\ m \in path.skipped => m \in new.skipped
       /\ \A m \in Around(l) : new.open[m] = Append(path.open[m], e)
  BY <1>8, <1>11, <1>12, <1>13, <1>14, <1>15
<1> QED
  BY <1>2, <1>16 DEF NestedResult, e, history, slices

\* A loop that is completed by a nested jump has a history of its own and leaves
\* one decision in the loops around it
\* (PathExpressionAccelerator::accelerate_nested).
LEMMA NestedOK ==
  ASSUME ProgramOK(program), None \notin program.block,
         NEW table, NEW path, PathOK(program, table, path), path.part = "phi",
         NEW l \in Loop, path.block = Header(l), path.trace \notin Body(l),
         program.returning[l] # None,
         NEW a \in Symbols(table, l), NEW k \in Nat
  PROVE  PathOK(program, table, NestedJump(table, path, l, a, k))
<1> DEFINE e == NestedDecision(l)
           history == NestedHistory(a, k)
           new == NestedJump(table, path, l, a, k)
           exit == program.exit[l]
<1>1. Shape(program, path) /\ Comes(program, path)
  BY DEF PathOK
<1>2. /\ Fields(new)
      /\ new.part = "phi" /\ new.trace = path.block
      /\ new.block = exit
      /\ new.path_decisions = Append(path.path_decisions, e)
      /\ new.loop_path_expressions = [path.loop_path_expressions EXCEPT ![l] = history]
      /\ new.done[l] = [i \in 1..k |-> DecisionsOf(table, l, a)]
      /\ new.done = [m \in Loop |-> new.done[m]]
      /\ new.open = [m \in Loop |-> new.open[m]]
      /\ \A m \in Loop \ {l} :
           /\ new.done[m] = path.done[m]
           /\ m \in path.skipped => m \in new.skipped
      /\ \A m \in Around(l) : new.open[m] = Append(path.open[m], e)
  <2>1. NestedResult(table, path, l, a, k, new)
    BY <1>1, NestedIs
  <2> HIDE DEF new
  <2> QED
    BY <2>1 DEF NestedResult
<1>3. /\ path.block \in program.block /\ path.block \in Body(l)
      /\ exit \in Range(Succ(path.block)) /\ exit \notin Body(l)
      /\ exit \in program.block
  <2>1. path.block \in program.block
    BY <1>1 DEF Comes
  <2>2. /\ path.block \in Body(l)
        /\ exit \in Range(Succ(path.block)) /\ exit \notin Body(l)
    BY Graph
  <2>3. Succ(path.block) \in Seq(program.block)
    BY <2>1 DEF ProgramOK, Succ
  <2> QED
    BY <2>1, <2>2, <2>3 DEF Range
<1>4. e \in Events(program)
  BY <1>3 DEF NestedDecision, Event, Events
<1> HIDE DEF new, exit, e
<1>5. /\ history.prefix = <<SymbolicSegment(<<a>>, k)>>
      /\ history.candidates = {} /\ history.cursor = 0
      /\ HistoryFields(history)
  <2> DEFINE none == NoHistory
             prefix == <<SymbolicSegment(<<a>>, k)>>
             h == [none EXCEPT !.prefix = prefix]
  <2>1. none.candidates = {} /\ none.cursor = 0
    BY DEF NoHistory
  <2>2. HistoryFields(none)
    BY Zenon DEF HistoryFields, NoHistory
  <2> HIDE DEF none, prefix
  <2>3. h = [prefix |-> prefix, candidates |-> none.candidates,
             cursor |-> none.cursor, started |-> none.started]
    BY <2>2 DEF HistoryFields
  <2>4. h = history
    BY DEF none, prefix, NestedHistory
  <2> HIDE DEF h, history
  <2> QED
    BY <2>1, <2>3, <2>4 DEF HistoryFields, prefix
<1> HIDE DEF history
<1>6. Shape(program, new)
  <2>1. new.path_decisions \in Seq(Events(program))
    BY <1>1, <1>2, <1>4 DEF Shape
  <2>2. new.loop_path_expressions = [m \in program.loop |-> new.loop_path_expressions[m]]
    BY <1>1, <1>2 DEF Shape
  <2> QED
    BY <1>2, <2>1, <2>2 DEF Shape, Loop
<1>7. Comes(program, new)
  BY <1>2, <1>3 DEF Comes, Succ
<1>8. /\ new.loop_path_expressions[l] = history
      /\ \A m \in Loop \ {l} :
           new.loop_path_expressions[m] = path.loop_path_expressions[m]
  BY <1>1, <1>2 DEF Shape, Loop
<1>9. LoopOK(program, table, new, l)
  <2>1. /\ history.prefix \in Seq(Segment(table, l))
        /\ Spelled(table, l, Expand(history.prefix))
             = [i \in 1..k |-> DecisionsOf(table, l, a)]
    BY <1>5, OneSymbolPower
  <2>2. HistoryOK(table, l, history)
    BY <1>5, <2>1 DEF HistoryOK
  <2>3. ~In(program, new, l)
    BY <1>2, <1>3 DEF In, Body
  <2>4. new.path_decisions \in Seq(Events(program))
    BY <1>6 DEF Shape
  <2>5. Len(new.path_decisions) \in Nat
    BY <2>4
  <2>6. new.done[l] = Spelled(table, l, Expand(history.prefix))
    BY <1>2, <2>1
  <2>7. history.cursor <= Len(new.path_decisions)
    BY <1>5, <2>5
  <2> QED
    BY <1>8, <2>2, <2>3, <2>6, <2>7 DEF LoopOK, Agrees
<1>10. ASSUME NEW m \in Loop \ {l}
       PROVE  LoopOK(program, table, new, m)
  <2>1. LoopOK(program, table, path, m)
    BY DEF PathOK, Loop
  <2>2. In(program, new, m) => /\ In(program, path, m)
                               /\ new.open[m] = Append(path.open[m], e)
    <3> SUFFICES ASSUME In(program, new, m)
                 PROVE  /\ In(program, path, m)
                        /\ new.open[m] = Append(path.open[m], e)
      OBVIOUS
    <3>1. path.block \in Body(m)
      BY <1>2, <1>3, Graph DEF In, Header, Body
    <3>2. Header(m) # Header(l)
      BY Graph
    <3>3. m \in Around(l)
      BY <3>1 DEF Around
    <3> QED
      BY <1>2, <3>1, <3>2, <3>3 DEF In, Header, Body
  <2>3. path.path_decisions \in Seq(Events(program))
    BY <1>1 DEF Shape
  <2>4. /\ new.loop_path_expressions[m] = path.loop_path_expressions[m]
        /\ new.done[m] = path.done[m]
        /\ m \in path.skipped => m \in new.skipped
        /\ new.path_decisions = Append(path.path_decisions, e)
    BY <1>2, <1>8
  <2> QED
    BY <1>4, <2>1, <2>2, <2>3, <2>4, LoopDecides
<1> QED
  BY <1>6, <1>7, <1>9, <1>10 DEF PathOK, new, Loop

(***************************************************************************)
(* All paths that wait                                                     *)
(***************************************************************************)
AllOK(p, table, paths) ==
  \E S : paths \in Seq(S) /\ \A path \in S : PathOK(p, table, path)

LEMMA FewOK ==
  ASSUME NEW p, NEW table
  PROVE  /\ AllOK(p, table, <<>>)
         /\ \A path : PathOK(p, table, path) => AllOK(p, table, <<path>>)
         /\ \A path, other : PathOK(p, table, path) /\ PathOK(p, table, other)
                               => AllOK(p, table, <<path, other>>)
<1>1. AllOK(p, table, <<>>)
  <2> DEFINE S == {}
             paths == <<>>
  <2>1. paths \in Seq(S) /\ \A path \in S : PathOK(p, table, path)
    OBVIOUS
  <2> HIDE DEF S, paths
  <2>2. AllOK(p, table, paths)
    BY <2>1 DEF AllOK
  <2> QED
    BY <2>2 DEF paths
<1>2. ASSUME NEW path, PathOK(p, table, path)
      PROVE  AllOK(p, table, <<path>>)
  <2> DEFINE S == {path}
             paths == <<path>>
  <2>1. paths \in Seq(S) /\ \A x \in S : PathOK(p, table, x)
    BY <1>2
  <2> HIDE DEF S, paths
  <2>2. AllOK(p, table, paths)
    BY <2>1 DEF AllOK
  <2> QED
    BY <2>2 DEF paths
<1>3. ASSUME NEW path, NEW other, PathOK(p, table, path), PathOK(p, table, other)
      PROVE  AllOK(p, table, <<path, other>>)
  <2> DEFINE S == {path, other}
             paths == <<path, other>>
  <2>1. paths \in Seq(S) /\ \A x \in S : PathOK(p, table, x)
    BY <1>3
  <2> HIDE DEF S, paths
  <2>2. AllOK(p, table, paths)
    BY <2>1 DEF AllOK
  <2> QED
    BY <2>2 DEF paths
<1> QED
  BY <1>1, <1>2, <1>3

LEMMA TopOK ==
  ASSUME NEW table, AllOK(program, table, worklist), worklist # <<>>
  PROVE  PathOK(program, table, Top)
<1>1. PICK S : worklist \in Seq(S) /\ \A path \in S : PathOK(program, table, path)
  BY DEF AllOK
<1>2. Top \in S
  BY <1>1 DEF Top
<1> QED
  BY <1>1, <1>2

LEMMA ReplaceOK ==
  ASSUME NEW table, AllOK(program, table, worklist), worklist # <<>>,
         NEW paths, AllOK(program, table, paths), Replace(paths)
  PROVE  AllOK(program, table, worklist')
<1>1. PICK S : worklist \in Seq(S) /\ \A path \in S : PathOK(program, table, path)
  BY DEF AllOK
<1>2. PICK T : paths \in Seq(T) /\ \A path \in T : PathOK(program, table, path)
  BY DEF AllOK
<1> DEFINE U == S \cup T
<1>3. \A path \in U : PathOK(program, table, path)
  BY <1>1, <1>2
<1>4. S \subseteq U /\ T \subseteq U
  OBVIOUS
<1> HIDE DEF U
<1>5. paths \in Seq(U) /\ Tail(worklist) \in Seq(U)
  <2>1. Tail(worklist) \in Seq(S)
    BY <1>1
  <2> QED
    BY <1>2, <1>4, <2>1
<1>6. worklist' = paths \o Tail(worklist)
  BY DEF Replace
<1>7. worklist' \in Seq(U)
  BY <1>5, <1>6
<1> QED
  BY <1>3, <1>7 DEF AllOK

LEMMA AllLonger ==
  ASSUME NEW p, NEW t, NEW u, NEW paths, AllOK(p, t, paths),
         \A l \in p.loop : t[l] \subseteq u[l] /\ Identifies(u, l)
  PROVE  AllOK(p, u, paths)
<1>1. PICK S : paths \in Seq(S) /\ \A path \in S : PathOK(p, t, path)
  BY DEF AllOK
<1>2. \A path \in S : PathOK(p, u, path)
  BY <1>1, LongerAlphabet
<1> QED
  BY <1>1, <1>2 DEF AllOK

\* A summary is a symbol of its loop, and only a loop with a path that returns
\* has one.
SummariesOK ==
  /\ summaries = [l \in Loop |-> summaries[l]]
  /\ \A l \in Loop : summaries[l] # None =>
       summaries[l] \in Symbols(alphabet, l) /\ program.returning[l] # None

\* The inductive invariant of the recorded paths.
PathsInv ==
  /\ IInv
  /\ program \in Programs
  /\ AllOK(program, alphabet, worklist)
  /\ SummariesOK

LEMMA ProgramsOK ==
  ASSUME PathsInv
  PROVE  ProgramOK(program) /\ None \notin program.block
BY PathAssumption DEF PathsInv

LEMMA Identified ==
  ASSUME IInv
  PROVE  \A l \in Loop : Identifies(alphabet, l)
BY DEF IInv, SymbolsIdentify, Identifies

\* After an iteration has been interned the alphabet knows it, and all that it
\* knew before.
LEMMA InternIs ==
  ASSUME IInv, NEW l \in Loop, NEW decisions, intern_loop_path(l, decisions),
         UNCHANGED program
  PROVE  /\ \A m \in Loop : alphabet[m] \subseteq alphabet'[m]
                            /\ Identifies(alphabet', m)
         /\ \E e \in alphabet'[l] : e.decisions = decisions
<1>1. IInv'
  BY InternKeepsIInv
<1>2. Loop' = Loop
  BY DEF Loop
<1>3. \A m \in Loop : Identifies(alphabet', m)
  BY <1>1, <1>2 DEF IInv, SymbolsIdentify, Identifies
<1>4. CASE Interned(l, decisions)
  <2>1. alphabet' = alphabet
    BY <1>4 DEF intern_loop_path
  <2> QED
    BY <1>3, <1>4, <2>1 DEF Interned
<1>5. CASE ~Interned(l, decisions)
  <2> DEFINE new == [decisions |-> decisions, symbol |-> nextSymbol]
  <2>1. alphabet' = [alphabet EXCEPT ![l] = @ \cup {new}]
    BY <1>5 DEF intern_loop_path
  <2>2. new.decisions = decisions
    OBVIOUS
  <2> HIDE DEF new
  <2>3. /\ alphabet'[l] = alphabet[l] \cup {new}
        /\ \A m \in Loop \ {l} : alphabet'[m] = alphabet[m]
    BY <2>1 DEF IInv
  <2> QED
    BY <1>3, <2>2, <2>3
<1> QED
  BY <1>4, <1>5

\* Steps that neither intern nor summarise.
LEMMA OnlyWorklist ==
  ASSUME PathsInv, UNCHANGED <<program, alphabet, nextSymbol, summaries>>,
         AllOK(program, alphabet, worklist')
  PROVE  PathsInv'
<1>1. IInv'
  BY SameAlphabetKeepsIInv DEF PathsInv
<1>2. SummariesOK'
  BY DEF PathsInv, SummariesOK, Loop
<1> QED
  BY <1>1, <1>2 DEF PathsInv

LEMMA OnlyTop ==
  ASSUME PathsInv, worklist # <<>>,
         UNCHANGED <<program, alphabet, nextSymbol, summaries>>,
         NEW paths, AllOK(program, alphabet, paths), Replace(paths)
  PROVE  PathsInv'
<1>1. AllOK(program, alphabet, worklist)
  BY DEF PathsInv
<1>2. AllOK(program, alphabet, worklist')
  BY <1>1, ReplaceOK
<1> QED
  BY <1>2, OnlyWorklist

LEMMA InitPathsInv ==
  ASSUME Init
  PROVE  PathsInv
<1> DEFINE path == InitialPath
<1>1. program \in Programs /\ worklist = <<path>>
      /\ alphabet = [l \in Loop |-> {}] /\ summaries = [l \in Loop |-> None]
  BY DEF Init
<1>2. ProgramOK(program) /\ None \notin program.block
  BY <1>1, PathAssumption
<1>3. Shape(program, path)
  BY DEF InitialPath, Shape, Fields, Loop
<1>4. Comes(program, path)
  BY <1>2 DEF InitialPath, Comes, ProgramOK
<1>5. ASSUME NEW l \in Loop
      PROVE  LoopOK(program, alphabet, path, l)
  <2>1. /\ path.block = program.entry /\ path.path_decisions = <<>>
        /\ path.loop_path_expressions[l] = NoHistory
        /\ path.done[l] = <<>> /\ path.open[l] = <<>>
    BY DEF InitialPath
  <2>2. ~In(program, path, l)
    BY <1>2, <2>1, Graph DEF In, Body
  <2>3. Spelled(alphabet, l, Expand(<<>>)) = <<>>
    BY ExpandEmpty, SpelledEmpty
  <2>4. NoHistory.prefix = <<>> /\ NoHistory.candidates = {} /\ NoHistory.cursor = 0
    BY DEF NoHistory
  <2>5. HistoryFields(NoHistory)
    BY Zenon DEF HistoryFields, NoHistory
  <2>6. HistoryOK(alphabet, l, NoHistory)
    <3>1. <<>> \in Seq(Segment(alphabet, l))
      OBVIOUS
    <3> QED
      BY <2>4, <2>5, <3>1 DEF HistoryOK
  <2>7. Len(path.path_decisions) = 0
    BY <2>1
  <2>8. Agrees(program, alphabet, path, l)
    BY <2>1, <2>2, <2>3, <2>4, <2>7 DEF Agrees
  <2> QED
    BY <2>1, <2>6, <2>8 DEF LoopOK
<1>6. PathOK(program, alphabet, path)
  BY <1>3, <1>4, <1>5 DEF PathOK, Loop
<1>7. AllOK(program, alphabet, worklist)
  <2> HIDE DEF path
  <2> QED
    BY <1>1, <1>6, FewOK
<1>8. SummariesOK
  BY <1>1 DEF SummariesOK
<1> QED
  BY <1>1, <1>7, <1>8, InitIInv DEF PathsInv

LEMMA BuildNestedSummaryKeepsPathsInv ==
  ASSUME PathsInv, NEW l \in Loop, BuildNestedSummary(l)
  PROVE  PathsInv'
<1> DEFINE decisions == PathOf(l, program.returning[l])
<1>1. /\ intern_loop_path(l, decisions) /\ UNCHANGED <<program, worklist>>
      /\ program.returning[l] # None
      /\ \/ summaries' = [summaries EXCEPT ![l] = SymbolOf(alphabet', l, decisions)]
         \/ UNCHANGED summaries
  BY DEF BuildNestedSummary
<1> HIDE DEF decisions
<1>2. IInv' /\ Loop' = Loop /\ program' = program
  BY <1>1, InternKeepsIInv DEF PathsInv, Loop
<1>3. /\ \A m \in Loop : alphabet[m] \subseteq alphabet'[m] /\ Identifies(alphabet', m)
      /\ \E e \in alphabet'[l] : e.decisions = decisions
  BY <1>1, InternIs DEF PathsInv
<1>4. AllOK(program, alphabet', worklist)
  BY <1>3, AllLonger DEF PathsInv, Loop
<1>5. SymbolOf(alphabet', l, decisions) \in Symbols(alphabet', l)
  <2>1. PICK e \in alphabet'[l] : e.decisions = decisions
    BY <1>3
  <2>2. SymbolOf(alphabet', l, e.decisions) = e.symbol
    BY <1>3, SymbolIs
  <2> QED
    BY <2>1, <2>2 DEF Symbols
<1>6. \A m \in Loop : Symbols(alphabet, m) \subseteq Symbols(alphabet', m)
  BY <1>3 DEF Symbols
<1>7. summaries' = [m \in Loop |-> summaries'[m]]
  BY <1>1 DEF PathsInv, SummariesOK
<1>8. ASSUME NEW m \in Loop, summaries'[m] # None
      PROVE  summaries'[m] \in Symbols(alphabet', m) /\ program.returning[m] # None
  <2>1. CASE summaries'[m] = summaries[m]
    BY <1>6, <1>8, <2>1 DEF PathsInv, SummariesOK
  <2>2. CASE summaries'[m] # summaries[m]
    <3>1. m = l /\ summaries'[l] = SymbolOf(alphabet', l, decisions)
      BY <1>1, <2>2 DEF PathsInv, SummariesOK
    <3> QED
      BY <1>1, <1>5, <3>1
  <2> QED
    BY <2>1, <2>2
<1>9. SummariesOK'
  BY <1>2, <1>7, <1>8 DEF SummariesOK
<1> QED
  BY <1>1, <1>2, <1>4, <1>9 DEF PathsInv

LEMMA AccelerateNestedKeepsPathsInv ==
  ASSUME PathsInv, NEW l \in Loop, AccelerateNested(l)
  PROVE  PathsInv'
<1>1. ProgramOK(program) /\ None \notin program.block
  BY ProgramsOK
<1>2. /\ worklist # <<>> /\ Top.part = "phi" /\ Top.block = Header(l)
      /\ Top.trace \notin Body(l) /\ summaries[l] # None
      /\ UNCHANGED <<program, alphabet, nextSymbol, summaries>>
  BY DEF AccelerateNested, EntersFamily, AtHeader
<1>3. PICK k \in 0..MaxCount :
             Replace(<<NestedJump(alphabet, Top, l, summaries[l], k)>>)
  BY DEF AccelerateNested, NestedJump, NestedHistory, NestedDecision
<1>4. k \in Nat
  BY PathAssumption
<1>5. PathOK(program, alphabet, Top)
  BY <1>2, TopOK DEF PathsInv
<1>6. summaries[l] \in Symbols(alphabet, l) /\ program.returning[l] # None
  BY <1>2 DEF PathsInv, SummariesOK
<1>7. PathOK(program, alphabet, NestedJump(alphabet, Top, l, summaries[l], k))
  BY <1>1, <1>2, <1>4, <1>5, <1>6, NestedOK
<1>8. AllOK(program, alphabet, <<NestedJump(alphabet, Top, l, summaries[l], k)>>)
  BY <1>7, FewOK
<1> QED
  BY <1>2, <1>3, <1>8, OnlyTop

LEMMA EnterLoopKeepsPathsInv ==
  ASSUME PathsInv, NEW l \in Loop, EnterLoop(l)
  PROVE  PathsInv'
<1>1. ProgramOK(program) /\ None \notin program.block
  BY ProgramsOK
<1>2. /\ worklist # <<>> /\ Top.part = "phi" /\ Top.block = Header(l)
      /\ ~IsBackEdge(Top, l)
      /\ Replace(<<Here(Top, l, Visited(Top, l))>>)
      /\ UNCHANGED <<program, alphabet, nextSymbol, summaries>>
  BY DEF EnterLoop, AtHeader, Here
<1>3. Top.trace \notin Latches(l)
  <2>1. Latches(l) \subseteq Body(l) /\ None \notin Body(l)
    BY <1>1, Graph DEF ProgramOK, Latches, Body, Loop
  <2> QED
    BY <1>2, <2>1 DEF IsBackEdge
<1>4. PathOK(program, alphabet, Top)
  BY <1>2, TopOK DEF PathsInv
<1>5. PathOK(program, alphabet, Here(Top, l, Visited(Top, l)))
  BY <1>1, <1>2, <1>3, <1>4, EnterOK
<1>6. AllOK(program, alphabet, <<Here(Top, l, Visited(Top, l))>>)
  BY <1>5, FewOK
<1> QED
  BY <1>2, <1>6, OnlyTop

LEMMA CompleteIterationKeepsPathsInv ==
  ASSUME PathsInv, NEW l \in Loop, CompleteIteration(l)
  PROVE  PathsInv'
<1> DEFINE decisions == PathOf(l, Since(Top, l))
           symbol == SymbolOf(alphabet', l, decisions)
           history == Recorded(Top, l, symbol)
           here == Here(Top, l, history)
<1>1. ProgramOK(program) /\ None \notin program.block
  BY ProgramsOK
<1>2. /\ worklist # <<>> /\ Top.part = "phi" /\ Top.block = Header(l)
      /\ IsBackEdge(Top, l)
      /\ intern_loop_path(l, decisions)
      /\ program' = program /\ summaries' = summaries
  BY DEF CompleteIteration, AtHeader
<1>3. \/ Replace(<<here>>)
      \/ \E c \in history.candidates, k \in 1..MaxCount :
           \/ Replace(<<JumpTo(alphabet', here, l, history, c, k)>>)
           \/ Replace(<<JumpTo(alphabet', here, l, history, c, k), here>>)
  BY DEF CompleteIteration, Jump, JumpTo, Here
<1> HIDE DEF decisions, history
<1>4. /\ \A m \in Loop : alphabet[m] \subseteq alphabet'[m] /\ Identifies(alphabet', m)
      /\ \E e \in alphabet'[l] : e.decisions = decisions
  BY <1>2, InternIs DEF PathsInv
<1>5. AllOK(program, alphabet', worklist)
  BY <1>4, AllLonger DEF PathsInv, Loop
<1>6. PathOK(program, alphabet', Top)
  BY <1>2, <1>5, TopOK
<1>7. PathOK(program, alphabet', here)
  <2>1. PICK e \in alphabet'[l] : e.decisions = decisions
    BY <1>4
  <2>2. SymbolOf(alphabet', l, e.decisions) = e.symbol
    BY <1>4, SymbolIs
  <2>3. history = Recorded(Top, l, e.symbol)
    BY <2>1, <2>2 DEF history
  <2>4. e.decisions = PathOf(l, Since(Top, l)) /\ Identifies(alphabet', l)
    BY <1>4, <2>1 DEF decisions
  <2>5. PathOK(program, alphabet', Here(Top, l, Recorded(Top, l, e.symbol)))
    BY <1>1, <1>2, <1>6, <2>4, CompleteOK
  <2> QED
    BY <2>3, <2>5
<1>8. /\ here.part = "select" /\ here.block = Header(l)
      /\ here.loop_path_expressions[l] = history
  <2>1. Shape(program, Top)
    BY <1>6 DEF PathOK
  <2> QED
    BY <1>2, <2>1, HereIs
<1> HIDE DEF here
<1>9. ASSUME NEW c \in history.candidates, NEW k \in 1..MaxCount
      PROVE  PathOK(program, alphabet', JumpTo(alphabet', here, l, history, c, k))
  <2>1. k \in Nat
    BY PathAssumption
  <2>2. c \in here.loop_path_expressions[l].candidates
    BY <1>8
  <2>3. PathOK(program, alphabet',
               JumpTo(alphabet', here, l, here.loop_path_expressions[l], c, k))
    BY <1>1, <1>7, <1>8, <2>1, <2>2, JumpOK
  <2> QED
    BY <1>8, <2>3
<1>10. \E paths : AllOK(program, alphabet', paths) /\ Replace(paths)
  <2>1. CASE Replace(<<here>>)
    BY <1>7, <2>1, FewOK
  <2>2. ASSUME NEW c \in history.candidates, NEW k \in 1..MaxCount,
               \/ Replace(<<JumpTo(alphabet', here, l, history, c, k)>>)
               \/ Replace(<<JumpTo(alphabet', here, l, history, c, k), here>>)
        PROVE  \E paths : AllOK(program, alphabet', paths) /\ Replace(paths)
    <3> DEFINE jump == JumpTo(alphabet', here, l, history, c, k)
    <3>1. PathOK(program, alphabet', jump)
      BY <1>9
    <3>2. Replace(<<jump>>) \/ Replace(<<jump, here>>)
      BY <2>2
    <3> HIDE DEF jump
    <3>3. AllOK(program, alphabet', <<jump>>) /\ AllOK(program, alphabet', <<jump, here>>)
      BY <1>7, <3>1, FewOK
    <3> QED
      BY <3>2, <3>3
  <2> QED
    BY <1>3, <2>1, <2>2
<1>11. AllOK(program, alphabet', worklist')
  BY <1>2, <1>5, <1>10, ReplaceOK
<1>12. IInv' /\ Loop' = Loop
  BY <1>2, InternKeepsIInv DEF PathsInv, Loop
<1>13. SummariesOK'
  <2>1. \A m \in Loop : Symbols(alphabet, m) \subseteq Symbols(alphabet', m)
    BY <1>4 DEF Symbols
  <2> QED
    BY <1>2, <1>12, <2>1 DEF PathsInv, SummariesOK
<1> QED
  BY <1>2, <1>11, <1>12, <1>13 DEF PathsInv

\* One or both sides of a decision.
LEMMA ForkOK ==
  ASSUME PathsInv, worklist # <<>>,
         UNCHANGED <<program, alphabet, nextSymbol, summaries>>,
         NEW first, NEW second,
         PathOK(program, alphabet, first), PathOK(program, alphabet, second),
         Fork(<<first, second>>)
  PROVE  PathsInv'
<1>1. Replace(<<first, second>>) \/ Replace(<<first>>) \/ Replace(<<second>>)
  <2>1. CASE Replace(<<first, second>>)
    BY <2>1
  <2>2. ASSUME NEW i \in 1..2, Replace(<<(<<first, second>>)[i]>>)
        PROVE  Replace(<<first>>) \/ Replace(<<second>>)
    <3>1. i = 1 \/ i = 2
      OBVIOUS
    <3> QED
      BY <2>2, <3>1
  <2> QED
    BY <2>1, <2>2 DEF Fork
<1>2. /\ AllOK(program, alphabet, <<first, second>>)
      /\ AllOK(program, alphabet, <<first>>) /\ AllOK(program, alphabet, <<second>>)
  BY FewOK
<1> QED
  BY <1>1, <1>2, OnlyTop

LEMMA PlainBlockKeepsPathsInv ==
  ASSUME PathsInv, PlainBlock
  PROVE  PathsInv'
<1>1. /\ worklist # <<>> /\ \A l \in Loop : Top.block # Header(l)
      /\ Replace(<<[Top EXCEPT !.part = "select"]>>)
      /\ UNCHANGED <<program, alphabet, nextSymbol, summaries>>
  BY DEF PlainBlock, AfterPhis
<1>2. PathOK(program, alphabet, Top)
  BY <1>1, TopOK DEF PathsInv
<1>3. PathOK(program, alphabet, [Top EXCEPT !.part = "select"])
  BY <1>1, <1>2, PartOK
<1>4. AllOK(program, alphabet, <<[Top EXCEPT !.part = "select"]>>)
  BY <1>3, FewOK
<1> QED
  BY <1>1, <1>4, OnlyTop

LEMMA SelectKeepsPathsInv ==
  ASSUME PathsInv, Select
  PROVE  PathsInv'
<1> DEFINE next == [Top EXCEPT !.part = "branch"]
           event(i) == Event(Top.block, "select", i - 1)
           first == Decide(next, event(1))
           second == Decide(next, event(2))
<1>1. /\ worklist # <<>> /\ Top.part = "select"
      /\ Replace(<<next>>) \/ Fork(<<first, second>>)
      /\ UNCHANGED <<program, alphabet, nextSymbol, summaries>>
  BY DEF Select
<1>2. PathOK(program, alphabet, Top)
  BY <1>1, TopOK DEF PathsInv
<1>3. event(1) \in Events(program) /\ event(2) \in Events(program)
  <2>1. Top.block \in program.block
    BY <1>2 DEF PathOK, Comes
  <2> QED
    BY <2>1 DEF Event, Events
<1>4. PathOK(program, alphabet, next)
  BY <1>1, <1>2, PartOK
<1> HIDE DEF next, event
<1>5. PathOK(program, alphabet, first) /\ PathOK(program, alphabet, second)
  BY <1>3, <1>4, DecideOK
<1> HIDE DEF first, second
<1>6. CASE Replace(<<next>>)
  <2>1. AllOK(program, alphabet, <<next>>)
    BY <1>4, FewOK
  <2> QED
    BY <1>1, <1>6, <2>1, OnlyTop
<1>7. CASE Fork(<<first, second>>)
  BY <1>1, <1>5, <1>7, ForkOK
<1> QED
  BY <1>1, <1>6, <1>7

LEMMA BranchKeepsPathsInv ==
  ASSUME PathsInv, Branch
  PROVE  PathsInv'
<1> DEFINE event(i) == Event(Top.block, "branch", i - 1)
           succ == Succ(Top.block)
           first == LeaveTo(Decide(Top, event(1)), succ[1])
           second == LeaveTo(Decide(Top, event(2)), succ[2])
           only == LeaveTo(Top, succ[1])
<1>1. /\ worklist # <<>> /\ Top.part = "branch" /\ succ # <<>>
      /\ IF Len(succ) = 1 THEN Replace(<<only>>) ELSE Fork(<<first, second>>)
      /\ UNCHANGED <<program, alphabet, nextSymbol, summaries>>
  BY DEF Branch
<1>2. ProgramOK(program) /\ None \notin program.block
  BY ProgramsOK
<1>3. PathOK(program, alphabet, Top)
  BY <1>1, TopOK DEF PathsInv
<1>4. Top.block \in program.block
  BY <1>3 DEF PathOK, Comes
<1>5. event(1) \in Events(program) /\ event(2) \in Events(program)
  BY <1>4 DEF Event, Events
<1>6. succ \in Seq(program.block)
  BY <1>2, <1>4 DEF ProgramOK, Succ
<1>7. /\ PathOK(program, alphabet, Decide(Top, event(1)))
      /\ Decide(Top, event(1)).block = Top.block
      /\ Decide(Top, event(1)).part = Top.part
      /\ PathOK(program, alphabet, Decide(Top, event(2)))
      /\ Decide(Top, event(2)).block = Top.block
      /\ Decide(Top, event(2)).part = Top.part
  <2> HIDE DEF event
  <2> QED
    BY <1>3, <1>5, DecideOK
<1> HIDE DEF event
<1>8. CASE Len(succ) = 1
  <2>1. succ[1] \in Range(Succ(Top.block))
    BY <1>1, <1>6 DEF Range
  <2>2. PathOK(program, alphabet, only)
    BY <1>1, <1>2, <1>3, <2>1, LeaveOK
  <2> HIDE DEF only, first, second, succ
  <2>3. AllOK(program, alphabet, <<only>>)
    BY <2>2, FewOK
  <2> QED
    BY <1>1, <1>8, <2>3, OnlyTop
<1>9. CASE Len(succ) # 1
  <2>1. 1 \in DOMAIN succ /\ 2 \in DOMAIN succ
    <3>1. succ # <<>>
      BY <1>1
    <3>2. Len(succ) \in Nat /\ DOMAIN succ = 1..Len(succ)
      BY <1>6
    <3>3. Len(succ) # 0
      <4> HIDE DEF succ
      <4> QED
        BY <1>6, <3>1
    <3> DEFINE n == Len(succ)
    <3>4. n \in Nat /\ n # 0 /\ n # 1 /\ DOMAIN succ = 1..n
      BY <1>9, <3>2, <3>3
    <3> HIDE DEF n, succ
    <3>5. 1 \in 1..n /\ 2 \in 1..n
      BY <3>4
    <3> QED
      BY <3>4, <3>5
  <2>2. /\ succ[1] \in Range(Succ(Top.block))
        /\ succ[2] \in Range(Succ(Top.block))
    BY <2>1 DEF Range
  <2>3. PathOK(program, alphabet, first)
    BY <1>1, <1>2, <1>7, <2>2, LeaveOK
  <2>4. PathOK(program, alphabet, second)
    BY <1>1, <1>2, <1>7, <2>2, LeaveOK
  <2> HIDE DEF only, first, second, succ
  <2> QED
    BY <1>1, <1>9, <2>3, <2>4, ForkOK
<1> QED
  BY <1>8, <1>9

LEMMA ReturnKeepsPathsInv ==
  ASSUME PathsInv, Return
  PROVE  PathsInv'
<1>1. /\ worklist # <<>> /\ Replace(<<>>)
      /\ UNCHANGED <<program, alphabet, nextSymbol, summaries>>
  BY DEF Return
<1>2. AllOK(program, alphabet, <<>>)
  BY FewOK
<1> QED
  BY <1>1, <1>2, OnlyTop

LEMMA NextKeepsPathsInv ==
  ASSUME PathsInv, [Next]_vars
  PROVE  PathsInv'
<1>1. CASE UNCHANGED vars
  BY <1>1, OnlyWorklist DEF vars, PathsInv
<1>2. CASE Next
  BY <1>2, BuildNestedSummaryKeepsPathsInv, AccelerateNestedKeepsPathsInv,
     EnterLoopKeepsPathsInv, CompleteIterationKeepsPathsInv,
     PlainBlockKeepsPathsInv, SelectKeepsPathsInv, BranchKeepsPathsInv,
     ReturnKeepsPathsInv DEF Next
<1> QED
  BY <1>1, <1>2

LEMMA PathsInvGivesPrefixExact ==
  ASSUME PathsInv
  PROVE  PrefixExact
<1> SUFFICES ASSUME NEW i \in 1..Len(worklist), NEW l \in Loop \ worklist[i].skipped
             PROVE  LET path == worklist[i]
                        history == path.loop_path_expressions[l]
                        word == Expand(history.prefix)
                    IN  /\ path.done[l] = Spelled(alphabet, l, word)
                        /\ path.part # "phi" /\ path.block \in Body(l)
                             => path.open[l] = SubSeq(path.path_decisions,
                                                      history.cursor + 1,
                                                      Len(path.path_decisions))
  BY DEF PrefixExact
<1> DEFINE path == worklist[i]
<1>1. PICK S : worklist \in Seq(S) /\ \A s \in S : PathOK(program, alphabet, s)
  BY DEF PathsInv, AllOK
<1>2. path \in S
  BY <1>1
<1>3. PathOK(program, alphabet, path)
  BY <1>1, <1>2
<1> HIDE DEF path
<1>4. Agrees(program, alphabet, path, l)
  BY <1>3 DEF PathOK, LoopOK, Loop
<1>5. l \notin path.skipped
  BY DEF path
<1>6. path.part # "phi" /\ path.block \in Body(l) => In(program, path, l)
  BY DEF In, Body
<1> QED
  BY <1>4, <1>5, <1>6 DEF Agrees, path

\* The prefix that a path keeps for a loop spells the iterations that its
\* present invocation has completed, those of its jumps included, and the
\* decisions behind the cursor are those of the iteration under way, for all
\* control flow graphs, all candidates and any number of iterations.
THEOREM PrefixesAreExact == Spec => []PrefixExact
<1>1. Init => PathsInv
  BY InitPathsInv
<1>2. PathsInv /\ [Next]_vars => PathsInv'
  BY NextKeepsPathsInv
<1>3. PathsInv => PrefixExact
  BY PathsInvGivesPrefixExact
<1>4. QED
  BY <1>1, <1>2, <1>3, PTL DEF Spec
=============================================================================
