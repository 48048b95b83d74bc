----------------------------- MODULE CallsProofs ----------------------------
(***************************************************************************)
(* Theorems about module Calls, for all programs, inputs and object sizes. *)
(***************************************************************************)
EXTENDS Calls, SequenceTheorems, TLAPS

Induction == INSTANCE InductionLemmas

\* A path has the fields of a State, whatever they hold.
Shaped(s) ==
  s = [pc |-> s.pc, status |-> s.status, cond |-> s.cond, read |-> s.read,
       frames |-> s.frames, objects |-> s.objects, heap |-> s.heap,
       result |-> s.result]

\* The states on the worklist: a sequence of paths.
Worklist == /\ \E S : states \in Seq(S)
            /\ \A i \in DOMAIN states : Shaped(states[i])

IInv == Worklist /\ EachPointOnce

\* The top of a worklist that is not empty, and what lies under it.
LEMMA TopAndRest ==
  ASSUME Worklist, states # <<>>
  PROVE  /\ Len(states) \in Nat \ {0}
         /\ Top = states[Len(states)]
         /\ Shaped(Top)
         /\ Len(ButLast(states)) = Len(states) - 1
         /\ \A i \in 1..(Len(states) - 1) : ButLast(states)[i] = states[i]
         /\ \A S : states \in Seq(S) => ButLast(states) \in Seq(S)
<1> PICK S : states \in Seq(S)
  BY DEF Worklist
<1>1. Len(states) \in Nat \ {0} /\ DOMAIN states = 1..Len(states)
  BY EmptySeq, LenProperties
<1>2. \A T : states \in Seq(T) => ButLast(states) \in Seq(T)
  BY <1>1, SubSeqProperties DEF ButLast
<1>3. /\ Len(ButLast(states)) = Len(states) - 1
      /\ \A i \in 1..(Len(states) - 1) : ButLast(states)[i] = states[i]
  BY <1>1, SubSeqProperties DEF ButLast
<1> QED
  BY <1>1, <1>2, <1>3 DEF Top, Last, Worklist

(***************************************************************************)
(* What a step does to the worklist: the top makes way for the paths new,  *)
(* which share its points.                                                 *)
(***************************************************************************)
Splits(new, s) ==
  /\ \A k \in DOMAIN new : Shaped(new[k]) /\ new[k].cond \subseteq s.cond
  /\ \A k, l \in DOMAIN new : k # l => new[k].cond \cap new[l].cond = {}
  /\ \A pt \in s.cond : \E k \in DOMAIN new : pt \in new[k].cond

\* The paths after a step are those below the top, and the new ones.
LEMMA Replaced ==
  ASSUME Worklist, states # <<>>, NEW T, NEW new \in Seq(T), Push(new)
  PROVE  /\ \E S : states' \in Seq(S)
         /\ DOMAIN states' = 1..(Len(states) - 1 + Len(new))
         /\ \A i \in DOMAIN states' :
              states'[i] = IF i < Len(states) THEN states[i]
                                              ELSE new[i - Len(states) + 1]
<1> PICK S : states \in Seq(S)
  BY DEF Worklist
<1> DEFINE below == ButLast(states)
           U == S \cup T
<1>1. /\ Len(states) \in Nat \ {0}
      /\ Len(below) = Len(states) - 1
      /\ \A i \in 1..(Len(states) - 1) : below[i] = states[i]
      /\ below \in Seq(S)
  BY TopAndRest
<1>2. Len(new) \in Nat
  BY LenProperties
<1>3. below \in Seq(U) /\ new \in Seq(U)
  BY <1>1, SeqMonotonic
<1>4. /\ below \o new \in Seq(U)
      /\ Len(below \o new) = Len(below) + Len(new)
      /\ \A i \in 1..(Len(below) + Len(new)) :
           (below \o new)[i] = IF i <= Len(below) THEN below[i]
                                                  ELSE new[i - Len(below)]
  BY <1>3, ConcatProperties
<1>5. DOMAIN (below \o new) = 1..Len(below \o new)
  BY <1>4, LenProperties
<1> HIDE DEF below, U
<1>6. states' = below \o new
  BY DEF Push, below
<1> QED
  BY SMTT(90), <1>1, <1>2, <1>4, <1>5, <1>6

LEMMA Covered ==
  ASSUME NEW P, NEW Q, NEW E,
         \A pt : (\E s \in P : pt \in s.cond) <=> (\E s \in Q : pt \in s.cond)
  PROVE  UNION ({s.cond : s \in P} \cup {e.cond : e \in E})
           = UNION ({s.cond : s \in Q} \cup {e.cond : e \in E})
OBVIOUS

\* A path that makes way for parts of itself.
LEMMA SplitKeepsIInv ==
  ASSUME IInv, states # <<>>, NEW T, NEW new \in Seq(T),
         Push(new), Splits(new, Top), ended' = ended
  PROVE  IInv'
<1>1. /\ Worklist
      /\ EachPointOnce
  BY DEF IInv
<1> DEFINE n == Len(states)
           OldAt(i) == i \in 1..(n - 1) /\ states'[i] = states[i]
           NewAt(i) == /\ i \in Nat /\ i - n + 1 \in DOMAIN new
                       /\ states'[i] = new[i - n + 1]
<1>2. n \in Nat \ {0} /\ Top = states[n] /\ DOMAIN states = 1..n
  BY <1>1, TopAndRest, LenProperties DEF Worklist
<1>3. Len(new) \in Nat /\ DOMAIN new = 1..Len(new)
  BY LenProperties
<1>4. /\ \E S : states' \in Seq(S)
      /\ DOMAIN states' = 1..(n - 1 + Len(new))
      /\ \A i \in DOMAIN states' :
           states'[i] = IF i < n THEN states[i] ELSE new[i - n + 1]
  BY <1>1, Replaced
<1>5. \A i \in DOMAIN states' : OldAt(i) \/ NewAt(i)
  BY <1>2, <1>3, <1>4
<1>6. Worklist'
  BY <1>1, <1>2, <1>4, <1>5 DEF Worklist, Splits
<1>7. \A i, j \in DOMAIN states' :
        i # j => states'[i].cond \cap states'[j].cond = {}
  <2> TAKE i, j \in DOMAIN states'
  <2> HAVE i # j
  <2>1. \A a, b \in 1..n : a # b => states[a].cond \cap states[b].cond = {}
    BY <1>1, <1>2 DEF EachPointOnce
  <2>2. CASE OldAt(i) /\ OldAt(j)
    BY <2>1, <2>2, <1>2, <1>5
  <2>3. CASE OldAt(i) /\ NewAt(j)
    <3>1. states[i].cond \cap Top.cond = {} /\ states'[i] = states[i]
      BY <2>1, <2>3, <1>2, <1>5
    <3>2. states'[j].cond \subseteq Top.cond
      BY <2>3, <1>2, <1>5 DEF Splits
    <3> QED
      BY <3>1, <3>2
  <2>4. CASE NewAt(i) /\ OldAt(j)
    <3>1. states[j].cond \cap Top.cond = {} /\ states'[j] = states[j]
      BY <2>1, <2>4, <1>2, <1>5
    <3>2. states'[i].cond \subseteq Top.cond
      BY <2>4, <1>2, <1>5 DEF Splits
    <3> QED
      BY <3>1, <3>2
  <2>5. CASE NewAt(i) /\ NewAt(j)
    <3>1. i - n + 1 # j - n + 1
      BY <1>2, <1>4
    <3> QED
      BY <2>5, <3>1, <1>2, <1>5 DEF Splits
  <2> QED
    BY <2>2, <2>3, <2>4, <2>5, <1>5
<1>8. \A i \in DOMAIN states' : \A e \in ended :
        states'[i].cond \cap e.cond = {}
  <2> TAKE i \in DOMAIN states'
  <2> TAKE e \in ended
  <2>1. \A a \in 1..n : states[a].cond \cap e.cond = {}
    BY <1>1, <1>2 DEF EachPointOnce, Paths
  <2>2. CASE OldAt(i)
    BY <2>1, <2>2, <1>2, <1>5
  <2>3. CASE NewAt(i)
    <3>1. states'[i].cond \subseteq Top.cond
      BY <2>3, <1>2, <1>5 DEF Splits
    <3> QED
      BY <2>1, <3>1, <1>2
  <2> QED
    BY <2>2, <2>3, <1>5
<1>9. \A pt : (\E i \in DOMAIN states : pt \in states[i].cond)
              <=> (\E i \in DOMAIN states' : pt \in states'[i].cond)
  <2> TAKE pt
  <2>1. ASSUME NEW i \in DOMAIN states, pt \in states[i].cond
        PROVE  \E j \in DOMAIN states' : pt \in states'[j].cond
    <3>1. CASE i < n
      BY <2>1, <3>1, <1>2, <1>3, <1>4
    <3>2. CASE i = n
      <4>1. PICK k \in DOMAIN new : pt \in new[k].cond
        BY <2>1, <3>2, <1>2 DEF Splits
      <4>2. n - 1 + k \in DOMAIN states' /\ states'[n - 1 + k] = new[k]
        BY SMTT(90), <1>2, <1>3, <1>4
      <4> QED
        BY <4>1, <4>2
    <3> QED
      BY <3>1, <3>2, <1>2
  <2>2. ASSUME NEW i \in DOMAIN states', pt \in states'[i].cond
        PROVE  \E j \in DOMAIN states : pt \in states[j].cond
    <3>1. CASE OldAt(i)
      BY <2>2, <3>1, <1>2, <1>5
    <3>2. CASE NewAt(i)
      <4>1. pt \in Top.cond
        BY <2>2, <3>2 DEF Splits
      <4> QED
        BY <4>1, <1>2
    <3> QED
      BY <3>1, <3>2, <1>5
  <2> QED
    BY <2>1, <2>2
<1> QED
  <2>1. Point = UNION ({s.cond : s \in Paths} \cup {e.cond : e \in ended})'
    <3>1. \A pt : (\E s \in Paths : pt \in s.cond)
                  <=> (\E i \in DOMAIN states : pt \in states[i].cond)
      BY DEF Paths
    <3>2. \A pt : (\E s \in Paths' : pt \in s.cond)
                  <=> (\E i \in DOMAIN states' : pt \in states'[i].cond)
      BY DEF Paths
    <3>3. \A pt : (\E s \in Paths : pt \in s.cond)
                  <=> (\E s \in Paths' : pt \in s.cond)
      BY <3>1, <3>2, <1>9
    <3>4. UNION ({s.cond : s \in Paths} \cup {e.cond : e \in ended})
            = UNION ({s.cond : s \in Paths'} \cup {e.cond : e \in ended})
      BY ZenonT(90), <3>3, Covered
    <3> QED
      BY <3>4, <1>1 DEF EachPointOnce
  <2>2. \A s \in Paths', e \in ended' : s.cond \cap e.cond = {}
    BY <1>8 DEF Paths
  <2>3. \A e, d \in ended' : e # d => e.cond \cap d.cond = {}
    BY <1>1 DEF EachPointOnce
  <2> QED
    BY <1>6, <1>7, <2>1, <2>2, <2>3 DEF IInv, EachPointOnce

\* A path that ends leaves the worklist with its points.
LEMMA EndKeepsIInv ==
  ASSUME IInv, End
  PROVE  IInv'
<1>1. /\ Worklist
      /\ EachPointOnce
      /\ states # <<>>
  BY DEF IInv, End, Done
<1> DEFINE n == Len(states)
           final == [cond |-> Top.cond, status |-> Top.status,
                     result |-> Top.result]
<1>2. n \in Nat \ {0} /\ Top = states[n] /\ DOMAIN states = 1..n
  BY <1>1, TopAndRest, LenProperties DEF Worklist
<1>3. /\ \E S : states' \in Seq(S)
      /\ DOMAIN states' = 1..(n - 1)
      /\ \A i \in DOMAIN states' : states'[i] = states[i]
  <2>1. <<>> \in Seq({}) /\ Len(<<>>) = 0
    BY EmptySeq
  <2>2. Push(<<>>)
    BY DEF End
  <2> HIDE DEF n
  <2>3. /\ \E S : states' \in Seq(S)
        /\ DOMAIN states' = 1..(Len(states) - 1 + Len(<<>>))
        /\ \A i \in DOMAIN states' :
             states'[i] = IF i < Len(states) THEN states[i]
                                             ELSE <<>>[i - Len(states) + 1]
    BY <1>1, <2>1, <2>2, Replaced
  <2> QED
    BY <2>1, <2>3, <1>2 DEF n
<1>4. ended' = ended \cup {final} /\ final.cond = states[n].cond
  BY <1>2 DEF End
<1>5. Worklist'
  BY <1>1, <1>2, <1>3 DEF Worklist
<1>6. \A i, j \in DOMAIN states' :
        i # j => states'[i].cond \cap states'[j].cond = {}
  BY <1>1, <1>2, <1>3 DEF EachPointOnce
<1>7. \A e, d \in ended' : e # d => e.cond \cap d.cond = {}
  BY <1>1, <1>2, <1>4 DEF EachPointOnce, Paths
<1>8. \A i \in DOMAIN states' : \A e \in ended' :
        states'[i].cond \cap e.cond = {}
  BY <1>1, <1>2, <1>3, <1>4 DEF EachPointOnce, Paths
<1>9. Point = UNION ({s.cond : s \in Paths'} \cup {e.cond : e \in ended'})
  <2>1. Paths = Paths' \cup {Top}
    BY <1>2, <1>3 DEF Paths
  <2>2. {s.cond : s \in Paths} = {s.cond : s \in Paths'} \cup {Top.cond}
    BY <2>1
  <2>3. {e.cond : e \in ended'} = {e.cond : e \in ended} \cup {Top.cond}
    BY <1>2, <1>4
  <2> QED
    BY <2>2, <2>3, <1>1 DEF EachPointOnce
<1>10. \A s \in Paths', e \in ended' : s.cond \cap e.cond = {}
  BY <1>8 DEF Paths
<1>11. Point' = Point
  BY DEF Point
<1> QED
  BY <1>5, <1>6, <1>7, <1>9, <1>10 DEF IInv, EachPointOnce

(***************************************************************************)
(* The actions.                                                            *)
(***************************************************************************)
\* s has the shape of a path and the path condition of t.
SamePoints(s, t) == Shaped(s) /\ s.cond = t.cond

LEMMA OneSuccessor ==
  ASSUME IInv, ~Done, NEW s, SamePoints(s, Top), Push(<<s>>), ended' = ended
  PROVE  IInv'
<1>1. <<s>> \in Seq({s}) /\ DOMAIN <<s>> = {1} /\ <<s>>[1] = s
  OBVIOUS
<1>2. Splits(<<s>>, Top)
  BY <1>1 DEF Splits, SamePoints
<1> QED
  BY <1>1, <1>2, SplitKeepsIInv DEF Done

\* What the instructions do to a path leaves its condition alone.
LEMMA Updates ==
  ASSUME NEW s, Shaped(s)
  PROVE  /\ \A k : SamePoints(Jump(s, k), s)
         /\ SamePoints(Advance(s), s)
         /\ \A v : SamePoints(Result(s, v), s)
<1>0. \A k : SamePoints(Jump(s, k), s)
  BY DEF SamePoints, Jump, Shaped
<1>1. SamePoints(Advance(s), s)
  BY <1>0 DEF Advance
<1>2. ASSUME NEW v
      PROVE  SamePoints(Result(s, v), s)
  <2> DEFINE a == Advance(s)
  <2>1. Shaped(a) /\ a.cond = s.cond
    BY <1>1 DEF SamePoints
  <2> HIDE DEF a
  <2>2. \A fs : SamePoints([a EXCEPT !.frames = fs], s)
    BY <2>1 DEF SamePoints, Shaped
  <2> QED
    BY <2>2 DEF Result, a
<1> QED
  BY <1>0, <1>1, <1>2

LEMMA FieldUpdates ==
  ASSUME NEW s, NEW t, SamePoints(s, t), NEW v
  PROVE  /\ SamePoints([s EXCEPT !.pc = v], t)
         /\ SamePoints([s EXCEPT !.status = v], t)
         /\ SamePoints([s EXCEPT !.read = v], t)
         /\ SamePoints([s EXCEPT !.frames = v], t)
         /\ SamePoints([s EXCEPT !.objects = v], t)
         /\ SamePoints([s EXCEPT !.heap = v], t)
         /\ SamePoints([s EXCEPT !.result = v], t)
BY DEF SamePoints, Shaped

LEMMA SeveralUpdates ==
  ASSUME NEW s, NEW t, SamePoints(s, t), NEW v, NEW w, NEW x
  PROVE  /\ SamePoints([s EXCEPT !.status = v, !.result = w], t)
         /\ SamePoints([s EXCEPT !.pc = v, !.frames = w], t)
         /\ SamePoints([s EXCEPT !.pc = v, !.frames = w, !.objects = x], t)
<1>1. SamePoints([s EXCEPT !.status = v, !.result = w], t)
  <2> DEFINE a == [s EXCEPT !.status = v]
  <2>1. SamePoints(a, t)
    BY FieldUpdates
  <2>2. [s EXCEPT !.status = v, !.result = w] = [a EXCEPT !.result = w]
    OBVIOUS
  <2> HIDE DEF a
  <2> QED
    BY <2>1, <2>2, FieldUpdates
<1> DEFINE a == [s EXCEPT !.pc = v]
           b == [s EXCEPT !.pc = v, !.frames = w]
<1>2. SamePoints(b, t)
  <2>1. SamePoints(a, t)
    BY FieldUpdates
  <2>2. b = [a EXCEPT !.frames = w]
    OBVIOUS
  <2> HIDE DEF a, b
  <2> QED
    BY <2>1, <2>2, FieldUpdates
<1>3. SamePoints([s EXCEPT !.pc = v, !.frames = w, !.objects = x], t)
  <2>1. [s EXCEPT !.pc = v, !.frames = w, !.objects = x]
          = [b EXCEPT !.objects = x]
    OBVIOUS
  <2> HIDE DEF b
  <2> QED
    BY <1>2, <2>1, FieldUpdates
<1> QED
  BY <1>1, <1>2, <1>3

LEMMA ConcatTwo ==
  ASSUME NEW s, NEW t
  PROVE  <<s>> \o <<t>> = <<s, t>>
<1>1. <<s>> \in Seq({s, t}) /\ <<t>> \in Seq({s, t}) /\ <<s, t>> \in Seq({s, t})
  OBVIOUS
<1>2. Len(<<s>>) = 1 /\ Len(<<t>>) = 1 /\ Len(<<s, t>>) = 2
  OBVIOUS
<1>3. /\ <<s>> \o <<t>> \in Seq({s, t})
      /\ Len(<<s>> \o <<t>>) = 2
      /\ (<<s>> \o <<t>>)[1] = s
      /\ (<<s>> \o <<t>>)[2] = t
  BY <1>1, <1>2, ConcatProperties
<1>4. \A i \in 1..2 : (<<s>> \o <<t>>)[i] = <<s, t>>[i]
  BY <1>3
<1> QED
  BY <1>1, <1>2, <1>3, <1>4, SeqEqual

\* Both sides of a branch, or the one that is feasible, share its points.
LEMMA BranchKeepsIInv ==
  ASSUME IInv, Branch
  PROVE  IInv'
<1> DEFINE yes == [Advance(Top) EXCEPT !.cond = TrueSide(Top)]
           no == [Jump(Top, Ins(Top).to) EXCEPT !.cond = FalseSide(Top)]
           new == Feasible(yes) \o Feasible(no)
<1>1. ~Done /\ Push(new) /\ ended' = ended /\ states # <<>> /\ Shaped(Top)
  BY TopAndRest DEF Branch, On, UnchangedButStates, Done, IInv
<1>2. Shaped(yes) /\ yes.cond = TrueSide(Top)
  <2>1. Shaped(Advance(Top))
    BY <1>1, Updates DEF SamePoints
  <2> QED
    BY <2>1 DEF Shaped
<1>3. Shaped(no) /\ no.cond = FalseSide(Top)
  <2>1. Shaped(Jump(Top, Ins(Top).to))
    BY <1>1, Updates DEF SamePoints
  <2> QED
    BY <2>1 DEF Shaped
<1>4. /\ TrueSide(Top) \cap FalseSide(Top) = {}
      /\ TrueSide(Top) \cup FalseSide(Top) = Top.cond
  BY DEF TrueSide, FalseSide
<1> HIDE DEF yes, no
<1>5. new \in Seq({yes, no}) /\ Splits(new, Top)
  <2>1. CASE yes.cond = {} /\ no.cond = {}
    <3>1. new = <<>>
      BY <2>1 DEF Feasible
    <3> QED
      BY <3>1, <2>1, <1>2, <1>3, <1>4 DEF Splits
  <2>2. CASE yes.cond = {} /\ no.cond # {}
    <3>1. new = <<no>>
      BY <2>2 DEF Feasible
    <3> QED
      BY <3>1, <2>2, <1>2, <1>3, <1>4 DEF Splits
  <2>3. CASE yes.cond # {} /\ no.cond = {}
    <3>1. new = <<yes>>
      BY <2>3 DEF Feasible
    <3> QED
      BY <3>1, <2>3, <1>2, <1>3, <1>4 DEF Splits
  <2>4. CASE yes.cond # {} /\ no.cond # {}
    <3>1. new = <<yes, no>>
      BY <2>4, ConcatTwo DEF Feasible
    <3>2. DOMAIN new = {1, 2} /\ new[1] = yes /\ new[2] = no
      BY <3>1
    <3> QED
      BY <3>1, <3>2, <1>2, <1>3, <1>4 DEF Splits
  <2> QED
    BY <2>1, <2>2, <2>3, <2>4
<1> HIDE DEF new
<1> QED
  BY <1>1, <1>5, SplitKeepsIInv

\* The actions with one successor.
LEMMA StepKeepsIInv ==
  ASSUME IInv, ~Done, ended' = ended,
         Input \/ Arithmetic \/ Alloca \/ Malloc \/ Gep \/ Load \/ Store
  PROVE  IInv'
<1>1. states # <<>> /\ Shaped(Top)
  BY TopAndRest DEF Done, IInv
<1>2. SamePoints(Advance(Top), Top) /\ \A v : SamePoints(Result(Top, v), Top)
  BY <1>1, Updates
<1>3. \A v : Push(<<Result(Top, v)>>) => IInv'
  BY <1>2, OneSuccessor
<1>4. CASE Input
  <2> DEFINE s == Result(Top, [p \in Point |-> p[Top.read + 1]])
  <2>1. SamePoints([s EXCEPT !.read = s.read + 1], Top)
    BY <1>2, FieldUpdates
  <2> QED
    BY <1>4, <2>1, OneSuccessor DEF Input
<1>5. CASE Arithmetic
  BY <1>3, <1>5 DEF Arithmetic
<1>6. CASE Alloca
  <2> DEFINE addr == [loc |-> "STACK", base |-> Len(Top.objects) + 1,
                      off |-> Const(0)]
             s == Result(Top, addr)
  <2>1. SamePoints([s EXCEPT !.objects = Append(s.objects, NewObject(Ins(Top).dst))],
                   Top)
    BY <1>2, FieldUpdates
  <2> QED
    BY <1>6, <2>1, OneSuccessor DEF Alloca
<1>7. CASE Malloc
  <2> DEFINE s == Advance(Top)
  <2>1. SamePoints([s EXCEPT !.heap = Append(s.heap, NewObject(Ins(Top).dst))], Top)
    BY <1>2, FieldUpdates
  <2> QED
    BY <1>7, <2>1, OneSuccessor DEF Malloc
<1>8. CASE Gep
  BY <1>3, <1>8 DEF Gep
<1>9. CASE Load
  BY <1>3, <1>9 DEF Load
<1>10. CASE Store
  <2> DEFINE a == Target(Top)
             s == Advance(Top)
             onStack == [s EXCEPT !.objects[a.base].cells =
                           Write(@, a.off, Arg(Top, 2))]
             onHeap == [s EXCEPT !.heap[a.base].cells =
                          Write(@, a.off, Arg(Top, 2))]
  <2>1. SamePoints(onStack, Top) /\ SamePoints(onHeap, Top)
    BY <1>2, FieldUpdates
  <2>2. Push(<<IF a.loc = "STACK" THEN onStack ELSE onHeap>>)
    BY <1>10 DEF Store
  <2> HIDE DEF onStack, onHeap
  <2> QED
    BY <2>1, <2>2, OneSuccessor
<1> QED
  BY <1>4, <1>5, <1>6, <1>7, <1>8, <1>9, <1>10

\* Calls and returns leave the path condition alone, too.
LEMMA CallKeepsIInv ==
  ASSUME IInv, ~Done, ended' = ended, CallCached \/ CallUnknown \/ CallBody
  PROVE  IInv'
<1>1. Shaped(Top) /\ SamePoints(Top, Top)
  BY TopAndRest DEF Done, IInv, SamePoints
<1>2. CASE CallCached
  BY <1>1, <1>2, Updates, OneSuccessor DEF CallCached
<1>3. CASE CallUnknown
  BY <1>1, <1>3, FieldUpdates, OneSuccessor DEF CallUnknown
<1>4. CASE CallBody
  <2>1. \A v, fs : SamePoints([Top EXCEPT !.pc = v, !.frames = fs], Top)
    BY <1>1, SeveralUpdates
  <2>2. PICK v, fs : Push(<<[Top EXCEPT !.pc = v, !.frames = fs]>>)
    BY <1>4 DEF CallBody
  <2> QED
    BY <2>1, <2>2, OneSuccessor
<1> QED
  BY <1>2, <1>3, <1>4

LEMMA ReturnKeepsIInv ==
  ASSUME IInv, ~Done, ended' = ended,
         Return \/ ReturnThrows \/ ReturnMain \/ ReachError
  PROVE  IInv'
<1>1. Shaped(Top) /\ SamePoints(Top, Top)
  BY TopAndRest DEF Done, IInv, SamePoints
<1>2. CASE Return
  <2> DEFINE back == [Top EXCEPT !.pc = Fun(Top).prev,
                                 !.frames = ButLast(@),
                                 !.objects = Kept(Top)]
  <2>1. \A v, fs, os :
          SamePoints([Top EXCEPT !.pc = v, !.frames = fs, !.objects = os], Top)
    BY <1>1, SeveralUpdates
  <2>2. SamePoints(back, Top)
    BY <2>1
  <2>3. Push(<<IF Returned(Top) THEN Result(back, Arg(Top, 1))
                                ELSE Advance(back)>>)
    BY <1>2 DEF Return
  <2> HIDE DEF back
  <2>4. SamePoints(Advance(back), Top) /\ \A v : SamePoints(Result(back, v), Top)
    BY <2>2, Updates DEF SamePoints
  <2> QED
    BY <2>3, <2>4, OneSuccessor
<1>3. CASE ReturnThrows
  BY <1>1, <1>3, FieldUpdates, OneSuccessor DEF ReturnThrows
<1>4. CASE ReturnMain
  <2>1. \A v, r : SamePoints([Top EXCEPT !.status = v, !.result = r], Top)
    BY <1>1, SeveralUpdates
  <2>2. PICK v, r : Push(<<[Top EXCEPT !.status = v, !.result = r]>>)
    BY <1>4 DEF ReturnMain
  <2> QED
    BY <2>1, <2>2, OneSuccessor
<1>5. CASE ReachError
  BY <1>1, <1>5, FieldUpdates, OneSuccessor DEF ReachError
<1> QED
  BY <1>2, <1>3, <1>4, <1>5

LEMMA InitIInv ==
  ASSUME Init
  PROVE  IInv
<1> DEFINE s == InitialState(prog)
<1>1. states = <<s>> /\ ended = {}
  BY DEF Init
<1>2. Shaped(s) /\ s.cond = Point
  BY DEF InitialState, Shaped
<1> HIDE DEF s
<1>3. states \in Seq({s}) /\ DOMAIN states = {1} /\ states[1] = s
  BY <1>1
<1>4. Paths = {s}
  BY <1>3 DEF Paths
<1> QED
  BY <1>1, <1>2, <1>3, <1>4 DEF IInv, Worklist, EachPointOnce

LEMMA NextKeepsIInv ==
  ASSUME IInv, [Next]_vars
  PROVE  IInv'
<1>1. CASE UNCHANGED vars
  <2>1. states' = states /\ ended' = ended
    BY <1>1 DEF vars
  <2>2. Worklist'
    BY <2>1 DEF IInv, Worklist
  <2>3. Paths' = Paths
    BY <2>1 DEF Paths
  <2> QED
    BY <2>1, <2>2, <2>3 DEF IInv, EachPointOnce
<1>2. CASE Input \/ Arithmetic \/ Alloca \/ Malloc \/ Gep \/ Load \/ Store
  <2>1. ~Done /\ ended' = ended
    BY <1>2 DEF Input, Arithmetic, Alloca, Malloc, Gep, Load, Store, On,
                UnchangedButStates
  <2> QED
    BY <1>2, <2>1, StepKeepsIInv
<1>3. CASE Branch
  BY <1>3, BranchKeepsIInv
<1>4. CASE CallCached \/ CallUnknown \/ CallBody
  <2>1. ~Done /\ ended' = ended
    BY <1>4 DEF CallCached, CallUnknown, CallBody, On, UnchangedButStates
  <2> QED
    BY <1>4, <2>1, CallKeepsIInv
<1>5. CASE Return \/ ReturnThrows \/ ReturnMain \/ ReachError
  <2>1. ~Done /\ ended' = ended
    BY <1>5 DEF Return, ReturnThrows, ReturnMain, ReachError, On,
                UnchangedButStates
  <2> QED
    BY <1>5, <2>1, ReturnKeepsIInv
<1>6. CASE End
  BY <1>6, EndKeepsIInv
<1> QED
  BY <1>1, <1>2, <1>3, <1>4, <1>5, <1>6 DEF Next

\* No branch, call or return of the symbolic execution drops an input or puts
\* it on two paths (Engine::run, AInstructionBranch::_execute, AInstructionCall,
\* AInstructionReturn), for all programs and inputs.
THEOREM InputsPartitioned == Spec => []EachPointOnce
<1>1. Init => IInv
  BY InitIInv
<1>2. IInv /\ [Next]_vars => IInv'
  BY NextKeepsIInv
<1>3. IInv => EachPointOnce
  BY DEF IInv
<1> QED
  BY <1>1, <1>2, <1>3, PTL DEF Spec

(***************************************************************************)
(* Types, objects and pointers: what holds of each path.                   *)
(***************************************************************************)
\* Where frame i executes, or waits for the return of the frame above it.
Place(s, i) == IF i = Len(s.frames) THEN s.pc ELSE s.frames[i + 1].prev
Code(s, i) == prog.code[s.frames[i].fn]
Pointers(s, i) == PointerNames(prog, s.frames[i].fn)

\* A frame is at an instruction of its function; below the top, at the call
\* that made the next frame.
OnTrack(s, i) ==
  /\ Place(s, i).fn = s.frames[i].fn
  /\ Place(s, i).at \in DOMAIN Code(s, i)
  /\ i < Len(s.frames) => LET ins == Code(s, i)[Place(s, i).at]
                          IN  ins.op = "call" /\ ins.fn = s.frames[i + 1].fn
\* The bases go up with the frames.
BasesOK(s, i) ==
  /\ s.frames[i].base <= Len(s.objects)
  /\ \A j \in DOMAIN s.frames : i <= j => s.frames[i].base <= s.frames[j].base
\* An address of an object that frame i may refer to.
Reaches(s, i, v) ==
  v.base \in 1..(IF v.loc = "STACK" THEN EndOf(s, i) ELSE Len(s.heap))
\* Temporaries have the type of their name.
TempsOK(s, i) ==
  \A x \in DOMAIN s.frames[i].temps :
    LET v == s.frames[i].temps[x]
    IN  IF x \in Pointers(s, i) THEN v \in Address /\ Reaches(s, i, v)
                                ELSE v \in Scalar
HasObject(s, i, x) == /\ x \in HeapNames(prog, s.frames[i].fn)
                   /\ \E j \in DOMAIN s.heap : s.heap[j].owner = x
\* What a frame may use is there.
NamesOK(s, i) ==
  \A x \in Name :
    Available(prog, s.frames[i].fn, Place(s, i).at, x)
      => x \in DOMAIN s.frames[i].temps \/ HasObject(s, i, x)
\* Instruction c of frame i is the alloca that made object k, and the frame
\* has the address.
Allocated(s, i, c, k) ==
  LET x == s.objects[k].owner
      temps == s.frames[i].temps
  IN  /\ c \in DOMAIN Code(s, i)
      /\ c < Place(s, i).at
      /\ Code(s, i)[c].op = "alloca"
      /\ Code(s, i)[c].dst = x
      /\ x \in DOMAIN temps
      /\ temps[x] = [loc |-> "STACK", base |-> k, off |-> Const(0)]
ObjectsOfFrame(s, i) ==
  \A k \in (s.frames[i].base + 1)..EndOf(s, i) : \E c \in Nat : Allocated(s, i, c, k)

FrameGood(s, i) == /\ OnTrack(s, i) /\ BasesOK(s, i) /\ TempsOK(s, i)
                   /\ NamesOK(s, i) /\ ObjectsOfFrame(s, i)
GlobalsKept(s) ==
  \A x \in GlobalNames(prog) : \E j \in DOMAIN s.heap : s.heap[j].owner = x
PathGood(s) ==
  /\ s \in PathState
  /\ s.read \in 0..Inputs
  /\ s.cond # {}
  /\ s.frames # <<>>
  /\ GlobalsKept(s)
  /\ \A i \in DOMAIN s.frames : FrameGood(s, i)
Ints == -(2 ^ (Width - 1)) .. (2 ^ (Width - 1)) - 1
CacheOK == \A k \in DOMAIN cache : k \in Key /\ cache[k] \in Ints
EndedOK == \A e \in ended : e.status \in Status \ {"RUNNING"} /\ e.result \in Scalar

MemoryInv ==
  /\ prog \in Programs
  /\ visited \subseteq Func
  /\ CacheOK
  /\ EndedOK
  /\ \A s \in Paths : PathGood(s)

(***************************************************************************)
(* Programs and their types.                                               *)
(***************************************************************************)
LEMMA ProgramTypes ==
  ASSUME NEW P \in Programs, NEW f \in Func
  PROVE  /\ P.code[f] \in Seq(Instr)
         /\ P.params[f] \in Seq(Name)
         /\ P.globals \in Seq(Name)
         /\ \A i \in DOMAIN P.code[f] :
              /\ P.code[f][i] \in Instr
              /\ P.code[f][i].fn \in Func
              /\ P.code[f][i].dst \in Name
              /\ P.code[f][i].op \in Op
              /\ P.code[f][i].args \in Seq(Operand)
              /\ P.code[f][i].to \in Nat
<1>1. P \in Program
  BY CallsConstantsOK
<1>2. P.code \in [Func -> Seq(Instr)] /\ P.params \in [Func -> Seq(Name)] /\ P.globals \in Seq(Name)
  BY <1>1 DEF Program
<1>3. \A i \in DOMAIN P.code[f] : P.code[f][i] \in Instr
  BY <1>2
<1> QED
  BY <1>2, <1>3 DEF Instr

LEMMA ProgramForm ==
  ASSUME NEW P \in Programs
  PROVE  /\ P.params["main"] = <<>>
         /\ \A f \in Func :
              /\ P.code[f] # <<>>
              /\ \A k \in DOMAIN P.params[f] :
                   P.params[f][k] \in PointerNames(P, f)
                     <=> P.params[f][k] \in P.pointers
              /\ \A i \in DOMAIN P.code[f] :
                   /\ Successors(P, f, i) \subseteq DOMAIN P.code[f]
                   /\ OperandsOK(P, f, i)
                   /\ P.code[f][i].op = "alloca" => AllocaOK(P, f, i)
                   /\ P.code[f][i].op \in {"input", "add", "sub", "load", "call"}
                        => P.code[f][i].dst \notin PointerNames(P, f)
                   /\ P.code[f][i].op \in {"alloca", "gep", "malloc"}
                        => P.code[f][i].dst \in PointerNames(P, f)
                   /\ P.code[f][i].op = "malloc"
                        => P.code[f][i].dst \in HeapNames(P, f)
<1>1. WellFormed(P)
  BY CallsConstantsOK
<1>2. /\ P.params["main"] = <<>>
      /\ \A f \in Func : P.code[f] # <<>>
  BY <1>1 DEF WellFormed
<1>3. ASSUME NEW f \in Func, NEW k \in DOMAIN P.params[f]
      PROVE  P.params[f][k] \in PointerNames(P, f)
               <=> P.params[f][k] \in P.pointers
  <2>1. P.params[f][k] \in Takes(P, f)
    BY DEF Takes
  <2>2. P.params[f][k] \in PointerNames(P, f) => P.params[f][k] \in P.pointers
    BY <1>1 DEF WellFormed
  <2> QED
    BY <2>1, <2>2 DEF PointerNames
<1>4. ASSUME NEW f \in Func, NEW i \in DOMAIN P.code[f]
      PROVE  /\ Successors(P, f, i) \subseteq DOMAIN P.code[f]
             /\ OperandsOK(P, f, i)
             /\ P.code[f][i].op = "alloca" => AllocaOK(P, f, i)
  BY <1>1 DEF WellFormed
<1>5. \A f, ops : \A i \in DOMAIN P.code[f] :
        P.code[f][i].op \in ops => P.code[f][i].dst \in Results(P, f, ops)
  BY DEF Results
<1>6. ASSUME NEW f \in Func, NEW i \in DOMAIN P.code[f]
      PROVE  /\ P.code[f][i].op \in {"input", "add", "sub", "load", "call"}
                   => P.code[f][i].dst \notin PointerNames(P, f)
             /\ P.code[f][i].op \in {"alloca", "gep"}
                   => P.code[f][i].dst \in PointerNames(P, f)
             /\ P.code[f][i].op = "malloc"
                   => P.code[f][i].dst \in HeapNames(P, f)
  <2>1. Results(P, f, {"input", "add", "sub", "load", "call"})
          \cap PointerNames(P, f) = {}
    BY <1>1 DEF WellFormed
  <2>2. P.code[f][i].op = "malloc" => P.code[f][i].op \in {"malloc"}
    OBVIOUS
  <2> QED
    BY <1>5, <2>1, <2>2 DEF PointerNames, HeapNames
<1>7. \A f : HeapNames(P, f) \subseteq PointerNames(P, f)
  BY DEF PointerNames
<1> QED
  BY <1>2, <1>3, <1>4, <1>6, <1>7

\* What is available behind an instruction is available before it, or made by it.
LEMMA AvailableStep ==
  ASSUME NEW P, NEW f, NEW i \in DOMAIN P.code[f], NEW k \in Successors(P, f, i),
         NEW x, Available(P, f, k, x)
  PROVE  Available(P, f, i, x) \/ Defines(P, f, i, x)
<1>1. CASE x \in Takes(P, f) \cup GlobalNames(P)
  BY <1>1 DEF Available
<1>2. CASE x \notin Takes(P, f) \cup GlobalNames(P)
  <2>1. PICK S \in SUBSET DOMAIN P.code[f] :
          /\ 1 \in S
          /\ \A j \in S : ~Defines(P, f, j, x) => Successors(P, f, j) \subseteq S
          /\ k \notin S
    BY <1>2 DEF Available
  <2>2. CASE i \in S
    BY <2>1, <2>2
  <2>3. CASE i \notin S
    BY <2>1, <2>3 DEF Available
  <2> QED
    BY <2>2, <2>3
<1> QED
  BY <1>1, <1>2

\* At the start of a function there are its parameters and the globals.
LEMMA AvailableFirst ==
  ASSUME NEW P, NEW f, NEW x, Available(P, f, 1, x)
  PROVE  x \in Takes(P, f) \cup GlobalNames(P)
BY DEF Available

LEMMA ConstScalar ==
  ASSUME NEW k \in Int
  PROVE  Const(k) \in Scalar
BY DEF Const, Scalar

(***************************************************************************)
(* The frame in which a path executes.                                     *)
(***************************************************************************)
LEMMA TopFrame ==
  ASSUME prog \in Programs, NEW s, PathGood(s), NEW n, n = Len(s.frames)
  PROVE  /\ n \in Nat \ {0}
         /\ DOMAIN s.frames = 1..n
         /\ Fun(s) = s.frames[n]
         /\ \A i \in 1..n : s.frames[i] \in Frame
         /\ Place(s, n) = s.pc
         /\ EndOf(s, n) = Len(s.objects)
         /\ s.pc \in Pc
         /\ s.pc.fn = s.frames[n].fn
         /\ s.pc.fn \in Func
         /\ s.pc.at \in DOMAIN prog.code[s.pc.fn]
         /\ Code(s, n) = prog.code[s.pc.fn]
         /\ Pointers(s, n) = PointerNames(prog, s.pc.fn)
         /\ Ins(s) = prog.code[s.pc.fn][s.pc.at]
         /\ Ins(s) \in Instr
         /\ FrameGood(s, n)
         /\ s.objects \in Seq(Object)
         /\ s.heap \in Seq(Object)
         /\ Len(s.objects) \in Nat
         /\ Len(s.heap) \in Nat
<1>1. s \in PathState /\ s.frames # <<>>
  BY DEF PathGood
<1>2. /\ s.frames \in Seq(Frame) /\ s.pc \in Pc
      /\ s.objects \in Seq(Object) /\ s.heap \in Seq(Object)
  BY <1>1 DEF PathState
<1>3. n \in Nat \ {0} /\ DOMAIN s.frames = 1..n
  BY <1>1, <1>2, EmptySeq, LenProperties
<1>4. FrameGood(s, n)
  BY <1>3 DEF PathGood
<1>5. Fun(s) = s.frames[n] /\ \A i \in 1..n : s.frames[i] \in Frame
  BY <1>2, <1>3 DEF Fun, Last
<1>6. Place(s, n) = s.pc /\ EndOf(s, n) = Len(s.objects)
  BY DEF Place, EndOf
<1>7. s.pc.fn = s.frames[n].fn /\ s.pc.at \in DOMAIN prog.code[s.pc.fn]
  BY <1>4, <1>6 DEF FrameGood, OnTrack, Code
<1>8. s.pc.fn \in Func
  BY <1>2 DEF Pc
<1>9. Ins(s) = prog.code[s.pc.fn][s.pc.at] /\ Ins(s) \in Instr
  BY <1>7, <1>8, ProgramTypes DEF Ins
<1>10. Len(s.objects) \in Nat /\ Len(s.heap) \in Nat
  BY <1>2, LenProperties
<1> QED
  BY <1>2, <1>3, <1>4, <1>5, <1>6, <1>7, <1>8, <1>9, <1>10 DEF Code, Pointers

\* An integer operand has a value, a pointer operand refers to an object.
LEMMA IntegerValue ==
  ASSUME prog \in Programs, NEW s, PathGood(s), NEW x,
         IntegerAt(prog, s.pc.fn, s.pc.at, x)
  PROVE  Evaluate(s, x) \in Scalar
<1> DEFINE n == Len(s.frames)
<1>1. /\ Fun(s) = s.frames[n] /\ s.pc.fn = s.frames[n].fn /\ Place(s, n) = s.pc
      /\ Pointers(s, n) = PointerNames(prog, s.pc.fn)
      /\ FrameGood(s, n)
  BY TopFrame
<1> HIDE DEF n
<1>2. CASE x \in Name
  <2>1. x \notin PointerNames(prog, s.pc.fn) /\ Available(prog, s.pc.fn, s.pc.at, x)
    BY <1>2 DEF IntegerAt
  <2>2. ~HasObject(s, n, x)
    BY <2>1, <1>1 DEF HasObject, PointerNames
  <2>3. x \in DOMAIN Fun(s).temps
    BY <2>1, <2>2, <1>1, <1>2 DEF FrameGood, NamesOK
  <2>4. Fun(s).temps[x] \in Scalar
    BY <2>1, <2>3, <1>1 DEF FrameGood, TempsOK
  <2> QED
    BY <2>4, <1>2 DEF Evaluate
<1>3. CASE x \notin Name
  BY <1>3, ConstScalar DEF IntegerAt, Evaluate
<1> QED
  BY <1>2, <1>3

LEMMA FirstVariable ==
  ASSUME NEW heap \in Seq(Object), NEW x, \E j \in DOMAIN heap : heap[j].owner = x
  PROVE  Find(heap, x) \in 1..Len(heap)
<1> DEFINE T == {j \in DOMAIN heap : heap[j].owner = x}
<1>1. DOMAIN heap = 1..Len(heap)
  BY LenProperties
<1>2. T \in SUBSET Nat /\ T # {}
  BY <1>1
<1>3. \E i \in T : \A j \in T : i <= j
  <2> HIDE DEF T
  <2> QED
    BY <1>2, Induction!LeastElement
<1>4. \E i \in DOMAIN heap : /\ heap[i].owner = x
                             /\ \A j \in DOMAIN heap : heap[j].owner = x => i <= j
  BY <1>3
<1> QED
  BY <1>1, <1>4 DEF Find

LEMMA PointerValue ==
  ASSUME prog \in Programs, NEW s, PathGood(s), NEW x,
         PointerAt(prog, s.pc.fn, s.pc.at, x)
  PROVE  /\ PointerOf(s, x) \in Address
         /\ PointerOf(s, x).base
              \in 1..(IF PointerOf(s, x).loc = "STACK" THEN Len(s.objects)
                                                       ELSE Len(s.heap))
<1> DEFINE n == Len(s.frames)
           a == PointerOf(s, x)
<1>1. /\ Fun(s) = s.frames[n] /\ s.pc.fn = s.frames[n].fn /\ Place(s, n) = s.pc
      /\ EndOf(s, n) = Len(s.objects)
      /\ Pointers(s, n) = PointerNames(prog, s.pc.fn)
      /\ s.heap \in Seq(Object) /\ Len(s.heap) \in Nat
      /\ FrameGood(s, n)
  BY TopFrame
<1> HIDE DEF n
<1>2. /\ x \in Name /\ x \in PointerNames(prog, s.pc.fn)
      /\ Available(prog, s.pc.fn, s.pc.at, x)
  BY DEF PointerAt
<1>3. CASE x \in DOMAIN Fun(s).temps
  <2>1. a = s.frames[n].temps[x] /\ x \in DOMAIN s.frames[n].temps
    BY <1>1, <1>3 DEF PointerOf
  <2>2. a \in Address /\ Reaches(s, n, a)
    BY <2>1, <1>1, <1>2 DEF FrameGood, TempsOK
  <2> QED
    BY <2>2, <1>1 DEF Reaches
<1>4. CASE x \notin DOMAIN Fun(s).temps
  <2>1. HasObject(s, n, x)
    BY <1>1, <1>2, <1>4 DEF FrameGood, NamesOK
  <2>2. Find(s.heap, x) \in 1..Len(s.heap)
    BY <2>1, <1>1, FirstVariable DEF HasObject
  <2>3. a = [loc |-> "HEAP", base |-> Find(s.heap, x), off |-> Const(0)]
    BY <1>4 DEF PointerOf
  <2>4. Const(0) \in Scalar
    BY ConstScalar
  <2>5. a.loc = "HEAP" /\ a.base = Find(s.heap, x)
    BY <2>3
  <2> HIDE DEF a
  <2>6. a \in Address
    BY <2>2, <2>3, <2>4, <1>1 DEF Address, Loc
  <2> QED
    BY <2>2, <2>5, <2>6 DEF a
<1> QED
  BY <1>3, <1>4

(***************************************************************************)
(* An instruction changes the top frame and may add objects.               *)
(***************************************************************************)
Grows(a, b) ==
  Len(a) <= Len(b) /\ \A k \in DOMAIN a : b[k].owner = a[k].owner
SameBelow(s, t) ==
  LET n == Len(s.frames)
  IN  /\ Len(t.frames) = n
      /\ \A i \in 1..(n - 1) : t.frames[i] = s.frames[i]
      /\ t.frames[n].prev = s.frames[n].prev
      /\ t.frames[n].base = s.frames[n].base
      /\ t.frames[n].fn = s.frames[n].fn
      /\ Grows(s.objects, t.objects)
      /\ Grows(s.heap, t.heap)
\* A path that may follow s, apart from its frames.
Follows(s, t) ==
  t \in PathState /\ t.read \in 0..Inputs /\ t.cond # {} /\ SameBelow(s, t)

LEMMA TopChanged ==
  ASSUME prog \in Programs, NEW s, PathGood(s), NEW t, Follows(s, t),
         FrameGood(t, Len(s.frames))
  PROVE  PathGood(t)
<1> DEFINE n == Len(s.frames)
<1>1. /\ n \in Nat \ {0} /\ DOMAIN s.frames = 1..n
      /\ \A i \in 1..n : s.frames[i] \in Frame
      /\ s.objects \in Seq(Object) /\ s.heap \in Seq(Object)
      /\ Len(s.objects) \in Nat /\ Len(s.heap) \in Nat
  BY TopFrame
<1>2. /\ t \in PathState /\ SameBelow(s, t) /\ Len(t.frames) = n
      /\ t.read \in 0..Inputs /\ t.cond # {}
  BY DEF Follows, SameBelow
<1>3. /\ t.frames \in Seq(Frame) /\ t.objects \in Seq(Object)
      /\ t.heap \in Seq(Object)
  BY <1>2 DEF PathState
<1>4. /\ DOMAIN t.frames = 1..n /\ t.frames # <<>>
      /\ Len(t.objects) \in Nat /\ Len(t.heap) \in Nat
  BY <1>1, <1>2, <1>3, LenProperties, EmptySeq
<1> HIDE DEF n
<1>5. \A i \in 1..n : /\ t.frames[i].fn = s.frames[i].fn
                      /\ t.frames[i].base = s.frames[i].base
                      /\ t.frames[i].prev = s.frames[i].prev
                      /\ i < n => t.frames[i] = s.frames[i]
  BY <1>1, <1>2 DEF SameBelow, n
<1>6. \A k \in 1..Len(s.objects) : t.objects[k].owner = s.objects[k].owner
  BY <1>1, <1>2, LenProperties DEF SameBelow, Grows
<1>7. \A k \in 1..Len(s.heap) : t.heap[k].owner = s.heap[k].owner
  BY <1>1, <1>2, LenProperties DEF SameBelow, Grows
<1>8. Len(s.objects) <= Len(t.objects) /\ Len(s.heap) <= Len(t.heap)
  BY <1>2 DEF SameBelow, Grows
<1>12. \A j \in DOMAIN s.heap : j \in DOMAIN t.heap /\ t.heap[j].owner = s.heap[j].owner
  <2>1. DOMAIN s.heap = 1..Len(s.heap) /\ DOMAIN t.heap = 1..Len(t.heap)
    BY <1>1, <1>3, LenProperties
  <2> QED
    BY <2>1, <1>1, <1>4, <1>7, <1>8
<1>9. ASSUME NEW i \in 1..(n - 1)
      PROVE  FrameGood(t, i)
  <2>1. FrameGood(s, i) /\ i \in 1..n /\ i + 1 \in 1..n /\ i < n /\ i # n
    BY <1>1 DEF PathGood
  <2>2. Place(t, i) = Place(s, i) /\ EndOf(t, i) = EndOf(s, i)
    BY <2>1, <1>2, <1>5 DEF Place, EndOf, n
  <2>3. t.frames[i] = s.frames[i] /\ t.frames[i + 1].fn = s.frames[i + 1].fn
    BY <2>1, <1>5
  <2>4. Code(t, i) = Code(s, i) /\ Pointers(t, i) = Pointers(s, i)
    BY <2>3 DEF Code, Pointers
  <2>5. OnTrack(t, i)
    BY <2>1, <2>2, <2>3, <2>4, <1>2 DEF FrameGood, OnTrack, n
  <2>6. BasesOK(t, i)
    <3>1. s.frames[i].base \in Nat
      BY <1>1, <2>1 DEF Frame
    <3> QED
      BY SMTT(90), <2>1, <2>3, <3>1, <1>1, <1>4, <1>5, <1>8 DEF FrameGood, BasesOK
  <2>7. TempsOK(t, i)
    <3> SUFFICES ASSUME NEW x \in DOMAIN s.frames[i].temps, x \in Pointers(s, i)
                 PROVE  Reaches(t, i, s.frames[i].temps[x])
      BY <2>1, <2>3, <2>4 DEF FrameGood, TempsOK
    <3>1. Reaches(s, i, s.frames[i].temps[x])
      BY <2>1 DEF FrameGood, TempsOK
    <3> QED
      BY SMTT(90), <3>1, <2>2, <1>1, <1>4, <1>8 DEF Reaches
  <2>8. NamesOK(t, i)
    <3>1. \A x : HasObject(s, i, x) => HasObject(t, i, x)
      BY <2>3, <1>12 DEF HasObject
    <3> QED
      BY <3>1, <2>1, <2>2, <2>3 DEF FrameGood, NamesOK
  <2>9. ObjectsOfFrame(t, i)
    <3> SUFFICES ASSUME NEW k \in (s.frames[i].base + 1)..EndOf(s, i)
                 PROVE  \E c \in Nat : Allocated(t, i, c, k)
      BY <2>2, <2>3 DEF ObjectsOfFrame
    <3>1. PICK c \in Nat : Allocated(s, i, c, k)
      BY <2>1 DEF FrameGood, ObjectsOfFrame
    <3>2. k \in 1..Len(s.objects)
      <4>1. EndOf(s, i) = s.frames[i + 1].base /\ FrameGood(s, i + 1)
        BY <2>1, <1>1 DEF EndOf, n, PathGood
      <4>2. s.frames[i].base \in Nat /\ s.frames[i + 1].base \in Nat
        BY <1>1, <2>1 DEF Frame
      <4> QED
        BY SMTT(90), <4>1, <4>2, <1>1 DEF FrameGood, BasesOK
    <3>3. Allocated(t, i, c, k)
      BY <3>1, <3>2, <2>2, <2>3, <2>4, <1>6 DEF Allocated
    <3> QED
      BY <3>3
  <2> QED
    BY <2>5, <2>6, <2>7, <2>8, <2>9 DEF FrameGood
<1>10. FrameGood(t, n)
  BY DEF n
<1>11. \A i \in 1..n : i \in 1..(n - 1) \/ i = n
  BY <1>1
<1>13. GlobalsKept(t)
  BY <1>12 DEF PathGood, GlobalsKept
<1> QED
  BY <1>2, <1>4, <1>9, <1>10, <1>11, <1>13 DEF PathGood

\* The names of the top frame after an instruction: those it had, and dst.
Keeps(s, temps) ==
  LET old == Fun(s).temps
  IN  \A x \in DOMAIN old :
        x \in DOMAIN temps /\ (x # Ins(s).dst => temps[x] = old[x])
\* The objects of the top frame after an instruction.
NewObjects(s, t) ==
  \A k \in (Len(s.objects) + 1)..Len(t.objects) :
    Allocated(t, Len(s.frames), s.pc.at, k)

LEMMA NextInstruction ==
  ASSUME prog \in Programs, NEW s, PathGood(s), NEW t, Follows(s, t),
         NEW n, n = Len(s.frames),
         t.pc.fn = s.pc.fn, t.pc.at \in Successors(prog, s.pc.fn, s.pc.at),
         Keeps(s, t.frames[n].temps), TempsOK(t, n),
         \A x \in Name : Defines(prog, s.pc.fn, s.pc.at, x)
                           => x \in DOMAIN t.frames[n].temps \/ HasObject(t, n, x),
         \/ t.frames[n].temps = Fun(s).temps
         \/ Ins(s).op \in {"input", "add", "sub", "alloca", "gep", "load", "call"},
         NewObjects(s, t)
  PROVE  PathGood(t)
<1> DEFINE old == s.frames[n].temps
           temps == t.frames[n].temps
<1>0. /\ n \in Nat \ {0} /\ DOMAIN s.frames = 1..n
      /\ Len(s.objects) \in Nat /\ Len(s.heap) \in Nat
  BY TopFrame
<1>17. s.frames[n] \in Frame /\ s.objects \in Seq(Object) /\ s.heap \in Seq(Object)
  BY SMTT(90), <1>0, TopFrame
<1>1. /\ Fun(s) = s.frames[n]
      /\ Place(s, n) = s.pc /\ EndOf(s, n) = Len(s.objects)
      /\ s.pc.fn = s.frames[n].fn /\ s.pc.fn \in Func
      /\ s.pc.at \in DOMAIN prog.code[s.pc.fn]
      /\ Code(s, n) = prog.code[s.pc.fn]
      /\ Ins(s) = prog.code[s.pc.fn][s.pc.at]
      /\ FrameGood(s, n)
  BY TopFrame
<1>2. /\ t \in PathState /\ SameBelow(s, t) /\ Len(t.frames) = n
  BY DEF Follows, SameBelow
<1>3. /\ t.frames \in Seq(Frame) /\ t.objects \in Seq(Object)
      /\ t.heap \in Seq(Object)
  BY <1>2 DEF PathState
<1>4. /\ DOMAIN t.frames = 1..n
      /\ Len(t.objects) \in Nat /\ Len(t.heap) \in Nat
  BY <1>0, <1>2, <1>3, LenProperties
<1>5. /\ t.frames[n].fn = s.frames[n].fn /\ t.frames[n].base = s.frames[n].base
      /\ Len(s.objects) <= Len(t.objects) /\ Len(s.heap) <= Len(t.heap)
  BY <1>2 DEF SameBelow, Grows
<1>6. Place(t, n) = t.pc /\ EndOf(t, n) = Len(t.objects)
  BY <1>2 DEF Place, EndOf
<1>7. Code(t, n) = prog.code[s.pc.fn]
  BY <1>1, <1>5 DEF Code
<1>8. /\ Successors(prog, s.pc.fn, s.pc.at) \subseteq DOMAIN prog.code[s.pc.fn]
      /\ prog.code[s.pc.fn] \in Seq(Instr)
      /\ \A i \in DOMAIN prog.code[s.pc.fn] :
           /\ prog.code[s.pc.fn][i].op = "alloca" => AllocaOK(prog, s.pc.fn, i)
           /\ prog.code[s.pc.fn][i].to \in Nat
  BY <1>1, ProgramForm, ProgramTypes
<1>14. s.frames[n].base \in Nat /\ s.frames[n].base <= Len(s.objects)
  <2>2. s.frames[n].base \in Nat
    BY <1>17 DEF Frame
  <2>3. BasesOK(s, n)
    BY <1>1 DEF FrameGood
  <2> QED
    BY <2>2, <2>3 DEF BasesOK
<1>15. s.pc.at \in Nat /\ \A c \in DOMAIN prog.code[s.pc.fn] : c \in Nat
  <2>1. /\ DOMAIN prog.code[s.pc.fn] = 1..Len(prog.code[s.pc.fn])
        /\ Len(prog.code[s.pc.fn]) \in Nat
    BY <1>8, LenProperties
  <2>2. s.pc.at \in DOMAIN prog.code[s.pc.fn]
    BY <1>1
  <2> QED
    BY <2>1, <2>2
<1>16. DOMAIN s.objects = 1..Len(s.objects) /\ DOMAIN s.heap = 1..Len(s.heap)
       /\ DOMAIN t.heap = 1..Len(t.heap)
  BY <1>17, <1>3, LenProperties
<1>9. OnTrack(t, n)
  <2>2. t.pc.at \in DOMAIN prog.code[s.pc.fn]
    BY <1>8
  <2>3. t.pc.fn = t.frames[n].fn
    BY <1>1, <1>5
  <2>4. ~(n < Len(t.frames))
    BY <1>0, <1>2
  <2> QED
    BY <2>2, <2>3, <2>4, <1>6, <1>7 DEF OnTrack
<1>10. BasesOK(t, n)
  <2>1. t.frames[n].base <= Len(t.objects)
    BY <1>14, <1>0, <1>4, <1>5
  <2>2. \A j \in 1..n : n <= j => j = n
    BY <1>0
  <2> QED
    BY <2>1, <2>2, <1>4, <1>5, <1>14 DEF BasesOK
<1>11. NamesOK(t, n)
  <2> SUFFICES ASSUME NEW x \in Name, Available(prog, s.pc.fn, t.pc.at, x)
               PROVE  x \in DOMAIN temps \/ HasObject(t, n, x)
    BY <1>1, <1>5, <1>6 DEF NamesOK
  <2>1. CASE Defines(prog, s.pc.fn, s.pc.at, x)
    BY <2>1
  <2>2. CASE Available(prog, s.pc.fn, s.pc.at, x)
    <3>1. x \in DOMAIN old \/ HasObject(s, n, x)
      BY <2>2, <1>1 DEF FrameGood, NamesOK
    <3>2. HasObject(s, n, x) => HasObject(t, n, x)
      <4>1. \A j \in DOMAIN s.heap :
              j \in DOMAIN t.heap /\ t.heap[j].owner = s.heap[j].owner
        <5>1. \A j \in DOMAIN s.heap : t.heap[j].owner = s.heap[j].owner
          BY <1>2 DEF SameBelow, Grows
        <5> QED
          BY <5>1, <1>0, <1>4, <1>5, <1>16
      <4> QED
        BY <4>1, <1>5 DEF HasObject
    <3>3. x \in DOMAIN old => x \in DOMAIN temps
      BY <1>1 DEF Keeps
    <3> QED
      BY <3>1, <3>2, <3>3
  <2> QED
    BY <2>1, <2>2, <1>1, AvailableStep
<1>12. ObjectsOfFrame(t, n)
  <2> SUFFICES ASSUME NEW k \in (s.frames[n].base + 1)..Len(t.objects)
               PROVE  \E c \in Nat : Allocated(t, n, c, k)
    BY <1>5, <1>6 DEF ObjectsOfFrame
  <2>1. CASE k > Len(s.objects)
    <3>1. Allocated(t, n, s.pc.at, k)
      <4>1. k \in (Len(s.objects) + 1)..Len(t.objects)
        BY <2>1, <1>0, <1>4, <1>14
      <4> QED
        BY <4>1 DEF NewObjects
    <3> QED
      BY <3>1, <1>15
  <2>2. CASE k <= Len(s.objects)
    <3>1. k \in DOMAIN s.objects /\ k \in (s.frames[n].base + 1)..EndOf(s, n)
      <4>1. k \in Nat /\ 1 <= k /\ s.frames[n].base + 1 <= k
        BY <1>4, <1>14
      <4>2. EndOf(s, n) = Len(s.objects) /\ Len(s.objects) \in Nat
        BY <1>0, <1>1
      <4> QED
        BY <4>1, <4>2, <2>2, <1>14, <1>16
    <3>2. PICK c \in Nat : Allocated(s, n, c, k)
      BY <3>1, <1>1 DEF FrameGood, ObjectsOfFrame
    <3> DEFINE x == s.objects[k].owner
    <3>3. /\ c \in DOMAIN prog.code[s.pc.fn] /\ c < s.pc.at
          /\ prog.code[s.pc.fn][c].op = "alloca"
          /\ prog.code[s.pc.fn][c].dst = x
          /\ x \in DOMAIN old
          /\ old[x] = [loc |-> "STACK", base |-> k, off |-> Const(0)]
      BY ZenonT(90), <3>2, <1>1 DEF Allocated
    <3>4. AllocaOK(prog, s.pc.fn, c) /\ s.pc.at # c /\ s.pc.at \in Nat
      <4>1. AllocaOK(prog, s.pc.fn, c)
        BY <3>3, <1>8
      <4>2. c \in Nat /\ c < s.pc.at /\ s.pc.at \in Nat
        BY <3>3, <1>15
      <4>3. s.pc.at # c
        BY <4>2
      <4> QED
        BY <4>1, <4>2, <4>3
    <3>5. temps[x] = old[x] /\ x \in DOMAIN temps
      <4>1. CASE temps = old
        BY <4>1, <3>3
      <4>2. CASE temps # old
        <5>1. Ins(s).dst # x
          BY <4>2, <3>3, <3>4, <1>1 DEF AllocaOK
        <5> QED
          BY <5>1, <3>3, <1>1 DEF Keeps
      <4> QED
        BY <4>1, <4>2
    <3>6. c < t.pc.at
      <4>1. CASE Ins(s).op = "branch"
        <5>1. t.pc.at \in {s.pc.at + 1, Ins(s).to}
          BY <4>1, <1>1 DEF Successors
        <5>2. Ins(s).to > c
          BY <4>1, <3>4, <1>1 DEF AllocaOK
        <5> QED
          BY SMTT(90), <5>1, <5>2, <3>3, <3>4
      <4>2. CASE Ins(s).op # "branch"
        <5>1. t.pc.at = s.pc.at + 1
          BY <4>2, <1>1 DEF Successors
        <5> QED
          BY SMTT(90), <5>1, <3>3, <3>4
      <4> QED
        BY <4>1, <4>2
    <3>7. t.objects[k].owner = x
      BY <3>1, <1>2 DEF SameBelow, Grows
    <3>8. Allocated(t, n, c, k)
      BY <3>3, <3>5, <3>6, <3>7, <1>6, <1>7 DEF Allocated
    <3> QED
      BY <3>8
  <2>3. k > Len(s.objects) \/ k <= Len(s.objects)
    BY <1>0, <1>4, <1>14
  <2> QED
    BY <2>1, <2>2, <2>3
<1>13. FrameGood(t, n)
  BY <1>9, <1>10, <1>11, <1>12 DEF FrameGood
<1> QED
  BY <1>13, TopChanged

(***************************************************************************)
(* put_temp.                                                               *)
(***************************************************************************)
Temps == UNION {[D -> Scalar \cup Address] : D \in SUBSET Name}

LEMMA FrameSet == Frame = [prev: Pc, base: Nat, fn: Func, temps: Temps]
BY DEF Frame, Temps

LEMMA FrameFields ==
  ASSUME NEW f \in Frame
  PROVE  /\ f.prev \in Pc
         /\ f.base \in Nat
         /\ f.fn \in Func
         /\ DOMAIN f.temps \in SUBSET Name
         /\ f.temps \in [DOMAIN f.temps -> Scalar \cup Address]
<1> DEFINE U == UNION {[E -> Scalar \cup Address] : E \in SUBSET Name}
<1>1. f.prev \in Pc /\ f.base \in Nat /\ f.fn \in Func /\ f.temps \in U
  BY DEF Frame
<1>2. PICK E \in SUBSET Name : f.temps \in [E -> Scalar \cup Address]
  BY <1>1
<1>3. DOMAIN f.temps = E
  BY <1>2
<1> QED
  BY <1>1, <1>2, <1>3

LEMMA OneMore ==
  ASSUME NEW D \in SUBSET Name, NEW R, NEW T \in [D -> R], NEW x \in Name,
         NEW v \in R, NEW U, U = Put(T, x, v)
  PROVE  /\ U \in [D \cup {x} -> R]
         /\ U[x] = v
         /\ \A z \in D : z # x => U[z] = T[z]
BY DEF Put

\* r is s after the result v of an instruction was put in its frame n.
IsResult(r, s, v, n) ==
  /\ r \in PathState
  /\ r.pc = [fn |-> s.pc.fn, at |-> s.pc.at + 1]
  /\ r.status = s.status
  /\ r.cond = s.cond
  /\ r.read = s.read
  /\ r.objects = s.objects
  /\ r.heap = s.heap
  /\ r.result = s.result
  /\ Len(r.frames) = n
  /\ \A i \in 1..(n - 1) : r.frames[i] = s.frames[i]
  /\ r.frames[n].prev = s.frames[n].prev
  /\ r.frames[n].base = s.frames[n].base
  /\ r.frames[n].fn = s.frames[n].fn
  /\ r.frames[n].temps = Put(s.frames[n].temps, Ins(s).dst, v)

LEMMA ResultFields ==
  ASSUME prog \in Programs, NEW s, PathGood(s), NEW v \in Scalar \cup Address
  PROVE  IsResult(Result(s, v), s, v, Len(s.frames))
<1> SUFFICES ASSUME NEW n, n = Len(s.frames), NEW r, r = Result(s, v)
             PROVE  IsResult(r, s, v, n)
  OBVIOUS
<1> DEFINE dst == Ins(s).dst
           T == Put(s.frames[n].temps, dst, v)
           f == [s.frames[n] EXCEPT !.temps = T]
<1>1. n \in Nat \ {0} /\ DOMAIN s.frames = 1..n
  BY TopFrame
<1>2. s.frames[n] \in Frame /\ s.pc \in Pc /\ s.pc.fn \in Func /\ Ins(s) \in Instr
  BY <1>1, TopFrame
<1>3. s \in PathState /\ s.frames \in Seq(Frame)
  BY DEF PathGood, PathState
<1>4. dst \in Name
  BY <1>2 DEF Instr
<1>5. T \in [DOMAIN s.frames[n].temps \cup {dst} -> Scalar \cup Address]
  <2> HIDE DEF dst
  <2> QED
    BY <1>2, <1>4, FrameFields, OneMore
<1>6. DOMAIN s.frames[n].temps \cup {dst} \in SUBSET Name
  BY <1>2, <1>4, FrameFields
<1> HIDE DEF T, dst
<1>7. /\ f \in Frame /\ f.temps = T /\ f.prev = s.frames[n].prev
      /\ f.base = s.frames[n].base /\ f.fn = s.frames[n].fn
  <2>1. s.frames[n] \in Frame
    BY <1>2
  <2> HIDE DEF f
  <2>2. T \in Temps
    BY <1>5, <1>6 DEF Temps
  <2> QED
    BY <2>1, <2>2, FrameSet DEF f
<1> DEFINE fs == [s.frames EXCEPT ![n] = f]
           pc == [fn |-> s.pc.fn, at |-> s.pc.at + 1]
<1>8. pc \in Pc
  BY <1>2 DEF Pc
<1>9. [s.pc EXCEPT !.at = s.pc.at + 1] = pc
  BY <1>2 DEF Pc
<1>10. Advance(s) = [s EXCEPT !.pc = pc]
  <2>1. Advance(s) = [s EXCEPT !.pc = [s.pc EXCEPT !.at = s.pc.at + 1]]
    BY <1>3 DEF Advance, Jump, PathState
  <2> QED
    BY <2>1, <1>9
<1>11. Advance(s).frames = s.frames
  BY <1>10, <1>3 DEF PathState
<1>12. Result(s, v) = [Advance(s) EXCEPT !.frames =
                         [Advance(s).frames EXCEPT ![n] =
                            [Advance(s).frames[n] EXCEPT !.temps =
                               Put(Advance(s).frames[n].temps, Ins(s).dst, v)]]]
  BY DEF Result
<1>13. r = [Advance(s) EXCEPT !.frames = fs]
  BY <1>11, <1>12 DEF T, dst
<1>14. fs \in Seq(Frame) /\ Len(fs) = n /\ fs[n] = f
       /\ \A i \in 1..(n - 1) : fs[i] = s.frames[i]
  <2> HIDE DEF f
  <2>1. DOMAIN fs = 1..n
    BY <1>1
  <2>2. \A i \in 1..n : fs[i] = IF i = n THEN f ELSE s.frames[i]
    BY <1>1
  <2>3. \A i \in 1..n : s.frames[i] \in Frame
    BY <1>1, <1>3
  <2>4. fs \in [1..n -> Frame]
    BY <2>1, <2>2, <2>3, <1>7
  <2>5. fs \in Seq(Frame)
    <3> HIDE DEF fs
    <3>1. n \in Nat
      BY <1>1
    <3> QED
      BY <2>4, <3>1, SeqDef
  <2> QED
    BY <2>1, <2>2, <2>5, <1>1, LenProperties
<1> HIDE DEF fs, pc, f
<1>15. r = [pc |-> pc, status |-> s.status, cond |-> s.cond, read |-> s.read,
            frames |-> fs, objects |-> s.objects, heap |-> s.heap,
            result |-> s.result]
  BY ZenonT(90), <1>10, <1>13, <1>3 DEF PathState
<1>16. r \in PathState
  BY <1>15, <1>3, <1>8, <1>14 DEF PathState
<1> QED
  BY <1>7, <1>14, <1>15, <1>16 DEF pc, T, dst, IsResult

\* The instructions that make a value put it in the top frame.
LEMMA ValueKept ==
  ASSUME prog \in Programs, NEW s, PathGood(s), NEW v \in Scalar \cup Address,
         NEW t \in PathState,
         t.frames = Result(s, v).frames, t.pc = Result(s, v).pc,
         t.read \in 0..Inputs, t.cond = s.cond,
         Grows(s.objects, t.objects), Grows(s.heap, t.heap),
         Ins(s).op \in {"input", "add", "sub", "alloca", "gep", "load", "call"},
         IF Ins(s).dst \in PointerNames(prog, s.pc.fn)
         THEN /\ v \in Address
              /\ v.base \in 1..(IF v.loc = "STACK" THEN Len(t.objects)
                                                   ELSE Len(t.heap))
         ELSE v \in Scalar,
         NewObjects(s, t),
         NEW n, n = Len(s.frames)
  PROVE  PathGood(t)
<1> DEFINE dst == Ins(s).dst
           old == s.frames[n].temps
           T == t.frames[n].temps
<1>0. n \in Nat \ {0} /\ Len(s.objects) \in Nat /\ Len(s.heap) \in Nat
  BY TopFrame
<1>1. /\ Fun(s) = s.frames[n] /\ s.pc.fn = s.frames[n].fn /\ s.pc.fn \in Func
      /\ EndOf(s, n) = Len(s.objects)
      /\ Pointers(s, n) = PointerNames(prog, s.pc.fn)
      /\ Ins(s) = prog.code[s.pc.fn][s.pc.at]
      /\ FrameGood(s, n)
  BY SMTT(90), TopFrame
<1>2. s.frames[n] \in Frame /\ Ins(s) \in Instr
  BY <1>0, TopFrame
<1>3. /\ t.pc = [fn |-> s.pc.fn, at |-> s.pc.at + 1]
      /\ Len(t.frames) = n
      /\ \A i \in 1..(n - 1) : t.frames[i] = s.frames[i]
      /\ t.frames[n].prev = s.frames[n].prev
      /\ t.frames[n].base = s.frames[n].base
      /\ t.frames[n].fn = s.frames[n].fn
      /\ T = Put(old, dst, v)
  <2> DEFINE r == Result(s, v)
  <2>1. /\ r.pc = [fn |-> s.pc.fn, at |-> s.pc.at + 1]
        /\ Len(r.frames) = n
        /\ \A i \in 1..(n - 1) : r.frames[i] = s.frames[i]
        /\ r.frames[n].prev = s.frames[n].prev
        /\ r.frames[n].base = s.frames[n].base
        /\ r.frames[n].fn = s.frames[n].fn
        /\ r.frames[n].temps = Put(old, dst, v)
    BY ResultFields DEF IsResult
  <2>2. t.pc = r.pc /\ t.frames = r.frames
    OBVIOUS
  <2> HIDE DEF r
  <2> QED
    BY <2>1, <2>2
<1>4. dst \in Name
  BY <1>2 DEF Instr
<1>5. /\ T \in [DOMAIN old \cup {dst} -> Scalar \cup Address]
      /\ T[dst] = v
      /\ \A z \in DOMAIN old : z # dst => T[z] = old[z]
  <2>1. DOMAIN old \in SUBSET Name /\ old \in [DOMAIN old -> Scalar \cup Address]
    BY <1>2, FrameFields
  <2> HIDE DEF dst, old, T
  <2>2. T = Put(old, dst, v)
    BY <1>3
  <2> DEFINE D == DOMAIN old
             R == Scalar \cup Address
  <2>3. D \in SUBSET Name /\ old \in [D -> R] /\ v \in R
    BY <2>1
  <2> HIDE DEF R, D
  <2>4. T \in [D \cup {dst} -> R] /\ T[dst] = v
        /\ \A z \in D : z # dst => T[z] = old[z]
    BY <2>2, <2>3, <1>4 DEF Put
  <2> QED
    BY <2>4 DEF R, D
<1>6. SameBelow(s, t)
  BY <1>3 DEF SameBelow
<1>7. s.cond # {}
  BY DEF PathGood
<1>8. Follows(s, t)
  <2>1. t.cond # {}
    BY <1>7
  <2> QED
    BY <2>1, <1>6 DEF Follows
<1>9. t.pc.fn = s.pc.fn /\ t.pc.at \in Successors(prog, s.pc.fn, s.pc.at)
  <2>1. Successors(prog, s.pc.fn, s.pc.at) = {s.pc.at + 1}
    BY <1>1 DEF Successors
  <2> QED
    BY <2>1, <1>3
<1>10. Keeps(s, T)
  BY <1>1, <1>5 DEF Keeps
<1>11. TempsOK(t, n)
  <2>1. /\ Pointers(t, n) = PointerNames(prog, s.pc.fn)
        /\ EndOf(t, n) = Len(t.objects)
    BY <1>1, <1>3 DEF Pointers, EndOf
  <2> SUFFICES ASSUME NEW x \in DOMAIN old \cup {dst}
               PROVE  IF x \in PointerNames(prog, s.pc.fn)
                      THEN T[x] \in Address /\ Reaches(t, n, T[x])
                      ELSE T[x] \in Scalar
    BY SMTT(90), <2>1, <1>5 DEF TempsOK
  <2>2. CASE x = dst
    BY <2>1, <2>2, <1>5 DEF Reaches
  <2>3. CASE x # dst
    <3>1. T[x] = old[x] /\ x \in DOMAIN old
      BY <2>3, <1>5
    <3>2. IF x \in PointerNames(prog, s.pc.fn)
          THEN old[x] \in Address /\ Reaches(s, n, old[x])
          ELSE old[x] \in Scalar
      BY <3>1, <1>1 DEF FrameGood, TempsOK
    <3>3. Reaches(s, n, old[x]) => Reaches(t, n, old[x])
      <4>1. Len(s.objects) <= Len(t.objects) /\ Len(s.heap) <= Len(t.heap)
        BY DEF Grows
      <4>2. Len(t.objects) \in Nat /\ Len(t.heap) \in Nat
        BY LenProperties DEF PathState
      <4>3. EndOf(s, n) = Len(s.objects)
        BY <1>1
      <4> DEFINE u == old[x]
      <4> HIDE DEF old, u
      <4>4. CASE u.loc = "STACK"
        <5>1. Reaches(s, n, u) <=> u.base \in 1..Len(s.objects)
          BY <4>3, <4>4 DEF Reaches
        <5>2. Reaches(t, n, u) <=> u.base \in 1..Len(t.objects)
          BY <2>1, <4>4 DEF Reaches
        <5> QED
          BY <4>1, <4>2, <5>1, <5>2, <1>0 DEF u
      <4>5. CASE u.loc # "STACK"
        <5>1. Reaches(s, n, u) <=> u.base \in 1..Len(s.heap)
          BY <4>5 DEF Reaches
        <5>2. Reaches(t, n, u) <=> u.base \in 1..Len(t.heap)
          BY <4>5 DEF Reaches
        <5> QED
          BY <4>1, <4>2, <5>1, <5>2, <1>0 DEF u
      <4> QED
        BY <4>4, <4>5
    <3> QED
      BY <3>1, <3>2, <3>3
  <2> QED
    BY <2>2, <2>3
<1>12. \A x \in Name : Defines(prog, s.pc.fn, s.pc.at, x) => x \in DOMAIN T
  BY <1>1, <1>5 DEF Defines
<1> QED
  BY <1>8, <1>9, <1>10, <1>11, <1>12, NextInstruction

LEMMA GrowsItself ==
  ASSUME NEW objects \in Seq(Object)
  PROVE  Grows(objects, objects)
BY LenProperties DEF Grows

(***************************************************************************)
(* The instructions that stay in their frame.                              *)
(***************************************************************************)
LEMMA Instruction ==
  ASSUME prog \in Programs, NEW s, PathGood(s), NEW op, op = Ins(s).op
  PROVE  /\ OperandsOK(prog, s.pc.fn, s.pc.at)
         /\ Successors(prog, s.pc.fn, s.pc.at) \subseteq DOMAIN prog.code[s.pc.fn]
         /\ op \in {"input", "add", "sub", "load", "call"}
              => Ins(s).dst \notin PointerNames(prog, s.pc.fn)
         /\ op \in {"alloca", "gep", "malloc"}
              => Ins(s).dst \in PointerNames(prog, s.pc.fn)
         /\ op = "malloc" => Ins(s).dst \in HeapNames(prog, s.pc.fn)
         /\ Ins(s).dst \in Name
         /\ Ins(s).fn \in Func
         /\ Ins(s).args \in Seq(Operand)
<1>1. /\ s.pc.fn \in Func /\ s.pc.at \in DOMAIN prog.code[s.pc.fn]
      /\ Ins(s) = prog.code[s.pc.fn][s.pc.at]
      /\ Ins(s) \in Instr
  BY TopFrame
<1>2. /\ OperandsOK(prog, s.pc.fn, s.pc.at)
      /\ Successors(prog, s.pc.fn, s.pc.at) \subseteq DOMAIN prog.code[s.pc.fn]
  BY <1>1, ProgramForm
<1>3. /\ op \in {"input", "add", "sub", "load", "call"}
           => Ins(s).dst \notin PointerNames(prog, s.pc.fn)
      /\ op \in {"alloca", "gep", "malloc"}
           => Ins(s).dst \in PointerNames(prog, s.pc.fn)
      /\ op = "malloc" => Ins(s).dst \in HeapNames(prog, s.pc.fn)
  BY SMTT(90), ZenonT(90), <1>1, ProgramForm
<1> QED
  BY <1>1, <1>2, <1>3 DEF Instr

\* An address of an object of the path.
AddressIn(s, a) ==
  /\ a \in Address
  /\ a.base \in 1..(IF a.loc = "STACK" THEN Len(s.objects) ELSE Len(s.heap))

LEMMA Arguments ==
  ASSUME prog \in Programs, NEW s, PathGood(s), NEW op, op = Ins(s).op
  PROVE  /\ op \in {"add", "sub", "branch"} => Arg(s, 1) \in Scalar
         /\ op \in {"add", "sub", "gep", "store"} => Arg(s, 2) \in Scalar
         /\ op \in {"gep", "store", "load"} => AddressIn(s, Target(s))
         /\ op = "return" /\ Returned(s) => Arg(s, 1) \in Scalar
         /\ op = "return" => Len(Ins(s).args) \in {0, 1}
         /\ op = "call" =>
              /\ Len(Ins(s).args) = Len(prog.params[Ins(s).fn])
              /\ \A k \in DOMAIN Ins(s).args :
                   IF k \in PointerArgs(s)
                   THEN AddressIn(s, PointerOf(s, Ins(s).args[k]))
                   ELSE Arg(s, k) \in Scalar
<1> DEFINE f == s.pc.fn
           i == s.pc.at
           args == Ins(s).args
           OK(k) == IntegerAt(prog, f, i, args[k])
<1>1. OperandsOK(prog, f, i) /\ Ins(s) = prog.code[f][i]
  BY Instruction, TopFrame
<1>2. \A k : OK(k) => Arg(s, k) \in Scalar
  BY IntegerValue DEF Arg
<1>3. \A x : PointerAt(prog, f, i, x) => AddressIn(s, PointerOf(s, x))
  BY PointerValue DEF AddressIn
<1> HIDE DEF f, i
<1>4. op \in {"add", "sub"} => OK(1) /\ OK(2)
  BY <1>1 DEF OperandsOK
<1>5. op \in {"gep", "store"} => PointerAt(prog, f, i, args[1]) /\ OK(2)
  BY <1>1 DEF OperandsOK
<1>6. op = "load" => PointerAt(prog, f, i, args[1])
  BY <1>1 DEF OperandsOK
<1>7. op = "branch" => OK(1)
  BY <1>1 DEF OperandsOK
<1>8. op = "return" => Len(args) \in {0, 1} /\ (args # <<>> => OK(1))
  BY <1>1 DEF OperandsOK
<1>9. op = "call" =>
        /\ Len(args) = Len(prog.params[Ins(s).fn])
        /\ \A k \in DOMAIN args :
             IF prog.params[Ins(s).fn][k] \in prog.pointers
             THEN PointerAt(prog, f, i, args[k]) ELSE OK(k)
  BY <1>1 DEF OperandsOK
<1>10. \A k \in DOMAIN args :
         k \in PointerArgs(s) <=> prog.params[Ins(s).fn][k] \in prog.pointers
  BY DEF PointerArgs, Callee
<1> HIDE DEF OK
<1>11. op \in {"gep", "store", "load"} => AddressIn(s, Target(s))
  BY <1>3, <1>5, <1>6 DEF Target
<1>12. op = "return" /\ Returned(s) => OK(1)
  BY <1>8 DEF Returned
<1>13. op = "call" => \A k \in DOMAIN args :
         IF k \in PointerArgs(s) THEN AddressIn(s, PointerOf(s, args[k]))
                                 ELSE Arg(s, k) \in Scalar
  BY <1>2, <1>3, <1>9, <1>10
<1> QED
  BY <1>2, <1>4, <1>5, <1>7, <1>8, <1>9, <1>11, <1>12, <1>13

\* The instructions that make a value and leave memory alone.
LEMMA ResultGood ==
  ASSUME prog \in Programs, NEW s, PathGood(s), NEW v,
         \/ Ins(s).op \in {"add", "sub", "load", "call"} /\ v \in Scalar
         \/ Ins(s).op = "gep" /\ AddressIn(s, v)
  PROVE  PathGood(Result(s, v))
<1> DEFINE r == Result(s, v)
<1>0. v \in Scalar \cup Address
  BY DEF AddressIn
<1>1. /\ r \in PathState /\ r.read = s.read /\ r.cond = s.cond
      /\ r.objects = s.objects /\ r.heap = s.heap
  BY <1>0, ResultFields DEF IsResult
<1>2. s.objects \in Seq(Object) /\ s.heap \in Seq(Object) /\ Len(s.objects) \in Nat
  BY TopFrame
<1>3. Grows(s.objects, r.objects) /\ Grows(s.heap, r.heap) /\ NewObjects(s, r)
  <2>1. (Len(s.objects) + 1)..Len(s.objects) = {}
    BY <1>2
  <2> QED
    BY <2>1, <1>1, <1>2, GrowsItself DEF NewObjects
<1>4. r.read \in 0..Inputs
  BY <1>1 DEF PathGood
<1>5. IF Ins(s).dst \in PointerNames(prog, s.pc.fn)
      THEN /\ v \in Address
           /\ v.base \in 1..(IF v.loc = "STACK" THEN Len(r.objects)
                                                ELSE Len(r.heap))
      ELSE v \in Scalar
  <2>1. CASE Ins(s).op \in {"add", "sub", "load", "call"}
    BY <2>1, Instruction
  <2>2. CASE Ins(s).op = "gep"
    BY <2>2, <1>1, Instruction DEF AddressIn
  <2> QED
    BY <2>1, <2>2
<1> QED
  BY <1>0, <1>1, <1>3, <1>4, <1>5, ValueKept

LEMMA SumsScalar ==
  ASSUME NEW a \in Scalar, NEW b \in Scalar
  PROVE  /\ [p \in Point |-> a[p] + b[p]] \in Scalar
         /\ [p \in Point |-> a[p] - b[p]] \in Scalar
BY DEF Scalar

LEMMA CellsTyped ==
  ASSUME NEW cells \in [Index -> Scalar], NEW off \in Scalar, NEW v \in Scalar
  PROVE  Read(cells, off) \in Scalar /\ Write(cells, off, v) \in [Index -> Scalar]
<1>1. Undef \in Int
  BY ProgramConstantsOK
<1>2. \A i \in Index, p \in Point : cells[i][p] \in Int
  BY DEF Scalar
<1>3. \A p \in Point : off[p] \in Int /\ v[p] \in Int
  BY DEF Scalar
<1>4. Read(cells, off) \in Scalar
  BY <1>1, <1>2 DEF Read, Scalar
<1>5. \A i \in Index : [p \in Point |-> IF off[p] = i THEN v[p] ELSE cells[i][p]] \in Scalar
  BY <1>2, <1>3 DEF Scalar
<1> QED
  BY <1>4, <1>5 DEF Write

LEMMA ArithmeticGood ==
  ASSUME prog \in Programs, NEW s, PathGood(s)
  PROVE  /\ Ins(s).op = "add" =>
              PathGood(Result(s, [p \in Point |-> Arg(s, 1)[p] + Arg(s, 2)[p]]))
         /\ Ins(s).op = "sub" =>
              PathGood(Result(s, [p \in Point |-> Arg(s, 1)[p] - Arg(s, 2)[p]]))
<1>1. CASE Ins(s).op = "add"
  <2>1. [p \in Point |-> Arg(s, 1)[p] + Arg(s, 2)[p]] \in Scalar
    BY <1>1, Arguments, SumsScalar
  <2> QED
    BY <1>1, <2>1, ResultGood
<1>2. CASE Ins(s).op = "sub"
  <2>1. [p \in Point |-> Arg(s, 1)[p] - Arg(s, 2)[p]] \in Scalar
    BY <1>2, Arguments, SumsScalar
  <2> QED
    BY <1>2, <2>1, ResultGood
<1> QED
  BY <1>1, <1>2

LEMMA InputGood ==
  ASSUME prog \in Programs, NEW s, PathGood(s), Ins(s).op = "input",
         s.read < Inputs,
         NEW v, v = [p \in Point |-> p[s.read + 1]]
  PROVE  PathGood([Result(s, v) EXCEPT !.read = @ + 1])
<1> DEFINE r == Result(s, v)
           t == [r EXCEPT !.read = r.read + 1]
<1>1. s.read \in 0..Inputs /\ s.read + 1 \in 1..Inputs /\ s.read + 1 \in 0..Inputs
  BY ProgramConstantsOK DEF PathGood
<1>2. v \in Scalar
  BY <1>1, ProgramConstantsOK DEF Scalar, Point
<1>3. /\ r \in PathState /\ r.read = s.read /\ r.cond = s.cond
      /\ r.objects = s.objects /\ r.heap = s.heap
  BY ZenonT(90), <1>2, ResultFields DEF IsResult
<1> HIDE DEF r
<1>4. /\ t \in PathState /\ t.read = s.read + 1 /\ t.cond = s.cond
      /\ t.objects = s.objects /\ t.heap = s.heap /\ t.frames = r.frames
      /\ t.pc = r.pc
  BY SMTT(90), <1>1, <1>3 DEF PathState
<1> HIDE DEF t
<1>5. s.objects \in Seq(Object) /\ s.heap \in Seq(Object) /\ Len(s.objects) \in Nat
  BY TopFrame
<1>6. Grows(s.objects, t.objects) /\ Grows(s.heap, t.heap) /\ NewObjects(s, t)
  <2>1. (Len(s.objects) + 1)..Len(s.objects) = {}
    BY <1>5
  <2> QED
    BY <2>1, <1>4, <1>5, GrowsItself DEF NewObjects
<1>7. Ins(s).dst \notin PointerNames(prog, s.pc.fn)
  BY Instruction
<1>8. PathGood(t)
  BY <1>1, <1>2, <1>4, <1>6, <1>7, ValueKept DEF r
<1> QED
  BY <1>8 DEF t, r

LEMMA LoadGood ==
  ASSUME prog \in Programs, NEW s, PathGood(s), Ins(s).op = "load",
         NEW a, a = Target(s),
         NEW pool, pool = IF a.loc = "STACK" THEN s.objects ELSE s.heap
  PROVE  PathGood(Result(s, Read(pool[a.base].cells, a.off)))
<1>1. a \in Address /\ a.base \in 1..Len(pool) /\ pool \in Seq(Object)
  BY Arguments, TopFrame DEF AddressIn
<1>2. pool[a.base] \in Object /\ a.off \in Scalar
  BY <1>1 DEF Address
<1>3. pool[a.base].cells \in [Index -> Scalar]
  BY <1>2 DEF Object
<1>4. Read(pool[a.base].cells, a.off) \in Scalar
  BY <1>2, <1>3, CellsTyped
<1> QED
  BY <1>4, ResultGood

LEMMA GepGood ==
  ASSUME prog \in Programs, NEW s, PathGood(s), Ins(s).op = "gep"
  PROVE  PathGood(Result(s, [Target(s) EXCEPT !.off = Arg(s, 2)]))
<1> DEFINE a == Target(s)
           b == [a EXCEPT !.off = Arg(s, 2)]
<1>1. AddressIn(s, a) /\ Arg(s, 2) \in Scalar
  BY Arguments
<1> HIDE DEF a
<1>2. b \in Address /\ b.base = a.base /\ b.loc = a.loc
  BY <1>1 DEF AddressIn, Address
<1>3. AddressIn(s, b)
  BY <1>1, <1>2 DEF AddressIn
<1> HIDE DEF b
<1>4. PathGood(Result(s, b))
  BY <1>3, ResultGood
<1> QED
  BY <1>4 DEF a, b

\* The instructions that put no value in the frame.
LEMMA Moved ==
  ASSUME prog \in Programs, NEW s, PathGood(s), NEW t \in PathState,
         t.frames = s.frames, t.read = s.read, t.cond # {},
         t.pc.fn = s.pc.fn, t.pc.at \in Successors(prog, s.pc.fn, s.pc.at),
         Len(t.objects) = Len(s.objects),
         Grows(s.objects, t.objects), Grows(s.heap, t.heap),
         \A x \in Name : Defines(prog, s.pc.fn, s.pc.at, x)
                           => HasObject(t, Len(s.frames), x)
  PROVE  PathGood(t)
<1> SUFFICES ASSUME NEW n, n = Len(s.frames)
             PROVE  PathGood(t)
  OBVIOUS
<1> DEFINE temps == s.frames[n].temps
<1>0. n \in Nat \ {0} /\ Len(s.objects) \in Nat /\ Len(s.heap) \in Nat
  BY TopFrame
<1>1. /\ Fun(s) = s.frames[n]
      /\ EndOf(s, n) = Len(s.objects)
      /\ FrameGood(s, n)
  BY TopFrame
<1>2. SameBelow(s, t)
  BY DEF SameBelow
<1>3. t.read \in 0..Inputs
  BY DEF PathGood
<1>4. Follows(s, t)
  BY <1>2, <1>3 DEF Follows
<1>5. Keeps(s, t.frames[n].temps)
  BY <1>1 DEF Keeps
<1>6. TempsOK(t, n)
  <2>1. EndOf(t, n) = EndOf(s, n) /\ Pointers(t, n) = Pointers(s, n)
    BY DEF EndOf, Pointers
  <2>2. Len(s.heap) <= Len(t.heap) /\ Len(t.heap) \in Nat
    BY LenProperties DEF Grows, PathState
  <2>3. \A a : Reaches(s, n, a) => Reaches(t, n, a)
    BY <2>1, <2>2, <1>0 DEF Reaches
  <2> QED
    BY <2>1, <2>3, <1>1 DEF FrameGood, TempsOK
<1>7. NewObjects(s, t)
  <2>1. (Len(s.objects) + 1)..Len(t.objects) = {}
    BY <1>0
  <2> QED
    BY <2>1 DEF NewObjects
<1>8. t.frames[n].temps = Fun(s).temps
  BY <1>1
<1> QED
  BY <1>4, <1>5, <1>6, <1>7, <1>8, NextInstruction

\* s with its program counter at k.
IsJump(r, s, k) ==
  /\ r = [s EXCEPT !.pc = [fn |-> s.pc.fn, at |-> k]]
  /\ r \in PathState
  /\ r.pc = [fn |-> s.pc.fn, at |-> k]
  /\ r.status = s.status
  /\ r.cond = s.cond
  /\ r.read = s.read
  /\ r.frames = s.frames
  /\ r.objects = s.objects
  /\ r.heap = s.heap
  /\ r.result = s.result

LEMMA JumpFields ==
  ASSUME NEW s \in PathState, NEW k \in Nat
  PROVE  IsJump(Jump(s, k), s, k)
<1> DEFINE pc == [fn |-> s.pc.fn, at |-> k]
<1>1. s.pc \in Pc
  BY DEF PathState
<1>2. [s.pc EXCEPT !.at = k] = pc /\ pc \in Pc
  BY <1>1 DEF Pc
<1>3. Jump(s, k) = [s EXCEPT !.pc = [s.pc EXCEPT !.at = k]]
  BY DEF Jump, PathState
<1> HIDE DEF pc
<1>4. Jump(s, k) = [s EXCEPT !.pc = pc]
  BY <1>2, <1>3
<1>5. [s EXCEPT !.pc = pc] \in PathState
  BY <1>2 DEF PathState
<1> QED
  BY <1>4, <1>5 DEF IsJump, PathState, pc

LEMMA AdvanceFields ==
  ASSUME prog \in Programs, NEW s, PathGood(s)
  PROVE  IsJump(Advance(s), s, s.pc.at + 1)
<1>1. s \in PathState /\ s.pc \in Pc
  BY TopFrame DEF PathGood
<1>2. s.pc.at + 1 \in Nat
  BY <1>1 DEF Pc
<1> QED
  BY <1>1, <1>2, JumpFields DEF Advance

\* One cell of an object changes.
LEMMA CellChanged ==
  ASSUME NEW pool \in Seq(Object), NEW b \in 1..Len(pool),
         NEW cells \in [Index -> Scalar],
         NEW new, new = [pool EXCEPT ![b] = [pool[b] EXCEPT !.cells = cells]]
  PROVE  new \in Seq(Object) /\ Len(new) = Len(pool) /\ Grows(pool, new)
<1> DEFINE o == [pool[b] EXCEPT !.cells = cells]
<1>1. Len(pool) \in Nat /\ DOMAIN pool = 1..Len(pool)
  BY LenProperties
<1>2. \A i \in 1..Len(pool) : pool[i] \in Object
  BY <1>1
<1>3. o \in Object /\ o.owner = pool[b].owner
  BY <1>2 DEF Object
<1> HIDE DEF o
<1>4. DOMAIN new = 1..Len(pool)
      /\ \A i \in 1..Len(pool) : new[i] = IF i = b THEN o ELSE pool[i]
  BY <1>1 DEF o
<1>5. new \in [1..Len(pool) -> Object]
  <2>1. new = [i \in 1..Len(pool) |-> IF i = b THEN o ELSE pool[i]]
    BY <1>1 DEF o
  <2> QED
    BY <2>1, <1>2, <1>3
<1>6. new \in Seq(Object)
  BY <1>1, <1>5, SeqDef
<1>7. Len(new) = Len(pool)
  BY <1>1, <1>4, <1>6, LenProperties
<1> QED
  BY <1>1, <1>3, <1>4, <1>6, <1>7 DEF Grows

LEMMA StoreGood ==
  ASSUME prog \in Programs, NEW s, PathGood(s), Ins(s).op = "store",
         NEW a, a = Target(s), NEW v, v = Arg(s, 2)
  PROVE  PathGood(IF a.loc = "STACK"
                  THEN [Advance(s) EXCEPT !.objects[a.base].cells = Write(@, a.off, v)]
                  ELSE [Advance(s) EXCEPT !.heap[a.base].cells = Write(@, a.off, v)])
<1> DEFINE r == Advance(s)
           Changed(pool) == [pool EXCEPT ![a.base] =
                              [pool[a.base] EXCEPT !.cells =
                                 Write(pool[a.base].cells, a.off, v)]]
<1>1. AddressIn(s, a) /\ v \in Scalar
  BY Arguments
<1>2. a \in Address /\ a.off \in Scalar /\ a.base \in Nat
  BY <1>1 DEF AddressIn, Address
<1>3. IsJump(r, s, s.pc.at + 1)
  BY AdvanceFields
<1>4. /\ s.objects \in Seq(Object) /\ s.heap \in Seq(Object)
      /\ Len(s.objects) \in Nat /\ Len(s.heap) \in Nat
  BY TopFrame
<1>5. s.pc.at + 1 \in Successors(prog, s.pc.fn, s.pc.at)
  <2>1. Ins(s) = prog.code[s.pc.fn][s.pc.at]
    BY TopFrame
  <2> QED
    BY <2>1 DEF Successors
<1>6. \A x : ~Defines(prog, s.pc.fn, s.pc.at, x)
  <2>1. Ins(s) = prog.code[s.pc.fn][s.pc.at]
    BY TopFrame
  <2> QED
    BY <2>1 DEF Defines
<1>7. ASSUME NEW pool \in Seq(Object), a.base \in 1..Len(pool)
      PROVE  /\ Changed(pool) \in Seq(Object)
             /\ Len(Changed(pool)) = Len(pool)
             /\ Grows(pool, Changed(pool))
  <2>1. pool[a.base] \in Object
    BY <1>7
  <2>2. pool[a.base].cells \in [Index -> Scalar]
    BY <2>1 DEF Object
  <2>3. Write(pool[a.base].cells, a.off, v) \in [Index -> Scalar]
    BY ZenonT(90), <2>2, <1>1, <1>2, CellsTyped
  <2> QED
    BY SMTT(90), <2>3, <1>7, CellChanged
<1>8. s.cond # {}
  BY DEF PathGood
<1> HIDE DEF r, Changed
<1>9. CASE a.loc = "STACK"
  <2> DEFINE t == [r EXCEPT !.objects = Changed(s.objects)]
  <2>1. /\ Changed(s.objects) \in Seq(Object)
        /\ Len(Changed(s.objects)) = Len(s.objects)
        /\ Grows(s.objects, Changed(s.objects))
    BY <1>1, <1>4, <1>7, <1>9 DEF AddressIn
  <2>2. /\ t \in PathState /\ t.frames = s.frames /\ t.read = s.read
        /\ t.cond = s.cond /\ t.pc = [fn |-> s.pc.fn, at |-> s.pc.at + 1]
        /\ t.objects = Changed(s.objects) /\ t.heap = s.heap
    BY <2>1, <1>3 DEF IsJump, PathState
  <2> HIDE DEF t
  <2>3. PathGood(t)
    BY <2>1, <2>2, <1>4, <1>5, <1>6, <1>8, GrowsItself, Moved
  <2>4. [Advance(s) EXCEPT !.objects[a.base].cells = Write(@, a.off, v)] = t
    <3>1. r.objects = s.objects
      BY <1>3 DEF IsJump
    <3> QED
      BY <3>1 DEF t, r, Changed
  <2> QED
    BY <2>3, <2>4, <1>9
<1>10. CASE a.loc # "STACK"
  <2> DEFINE t == [r EXCEPT !.heap = Changed(s.heap)]
  <2>1. /\ Changed(s.heap) \in Seq(Object)
        /\ Len(Changed(s.heap)) = Len(s.heap)
        /\ Grows(s.heap, Changed(s.heap))
    BY <1>1, <1>4, <1>7, <1>10 DEF AddressIn
  <2>2. /\ t \in PathState /\ t.frames = s.frames /\ t.read = s.read
        /\ t.cond = s.cond /\ t.pc = [fn |-> s.pc.fn, at |-> s.pc.at + 1]
        /\ t.heap = Changed(s.heap) /\ t.objects = s.objects
    BY <2>1, <1>3 DEF IsJump, PathState
  <2> HIDE DEF t
  <2>3. PathGood(t)
    BY <2>1, <2>2, <1>4, <1>5, <1>6, <1>8, GrowsItself, Moved
  <2>4. [Advance(s) EXCEPT !.heap[a.base].cells = Write(@, a.off, v)] = t
    <3>1. r.heap = s.heap
      BY <1>3 DEF IsJump
    <3> QED
      BY <3>1 DEF t, r, Changed
  <2> QED
    BY <2>3, <2>4, <1>10
<1> QED
  BY <1>9, <1>10

LEMMA BranchGood ==
  ASSUME prog \in Programs, NEW s, PathGood(s), Ins(s).op = "branch",
         NEW k \in Successors(prog, s.pc.fn, s.pc.at),
         NEW C \in SUBSET s.cond, C # {}
  PROVE  PathGood([Jump(s, k) EXCEPT !.cond = C])
<1> DEFINE r == Jump(s, k)
           t == [r EXCEPT !.cond = C]
<1>1. /\ Ins(s) = prog.code[s.pc.fn][s.pc.at]
      /\ s.pc \in Pc /\ Ins(s) \in Instr
      /\ s.objects \in Seq(Object) /\ s.heap \in Seq(Object)
  BY TopFrame
<1>2. k \in Nat
  BY SMTT(90), <1>1 DEF Successors, Pc, Instr
<1>3. s \in PathState
  BY DEF PathGood
<1>4. IsJump(r, s, k)
  BY <1>2, <1>3, JumpFields
<1>5. s.cond \in SUBSET Point
  BY <1>3 DEF PathState
<1> HIDE DEF r
<1>6. /\ t \in PathState /\ t.frames = s.frames /\ t.read = s.read
      /\ t.cond = C /\ t.pc = [fn |-> s.pc.fn, at |-> k]
      /\ t.heap = s.heap /\ t.objects = s.objects
  BY <1>4, <1>5 DEF IsJump, PathState
<1> HIDE DEF t
<1>7. \A x : ~Defines(prog, s.pc.fn, s.pc.at, x)
  BY <1>1 DEF Defines
<1>8. PathGood(t)
  BY <1>1, <1>6, <1>7, GrowsItself, Moved
<1> QED
  BY <1>8 DEF t, r

LEMMA NewObjectTyped ==
  ASSUME NEW x \in Name
  PROVE  NewObject(x) \in Object /\ NewObject(x).owner = x
BY ConstScalar, ProgramConstantsOK DEF NewObject, Object

LEMMA OneObjectMore ==
  ASSUME NEW pool \in Seq(Object), NEW o \in Object, NEW new, new = Append(pool, o)
  PROVE  /\ new \in Seq(Object) /\ Len(new) = Len(pool) + 1
         /\ new[Len(pool) + 1] = o /\ Grows(pool, new)
<1>1. Len(pool) \in Nat /\ DOMAIN pool = 1..Len(pool)
  BY LenProperties
<1>2. /\ new \in Seq(Object) /\ Len(new) = Len(pool) + 1
      /\ \A i \in 1..Len(pool) : new[i] = pool[i]
      /\ new[Len(pool) + 1] = o
  BY AppendProperties
<1> QED
  BY <1>1, <1>2 DEF Grows

LEMMA AllocaGood ==
  ASSUME prog \in Programs, NEW s, PathGood(s), Ins(s).op = "alloca",
         NEW addr, addr = [loc |-> "STACK", base |-> Len(s.objects) + 1,
                           off |-> Const(0)]
  PROVE  PathGood([Result(s, addr) EXCEPT
                     !.objects = Append(@, NewObject(Ins(s).dst))])
<1> SUFFICES ASSUME NEW n, n = Len(s.frames)
             PROVE  PathGood([Result(s, addr) EXCEPT
                                !.objects = Append(@, NewObject(Ins(s).dst))])
  OBVIOUS
<1> DEFINE r == Result(s, addr)
           dst == Ins(s).dst
           objects == Append(s.objects, NewObject(dst))
           t == [r EXCEPT !.objects = objects]
<1>1. /\ s.objects \in Seq(Object) /\ s.heap \in Seq(Object)
      /\ Len(s.objects) \in Nat /\ n \in Nat \ {0}
  BY TopFrame
<1>2. /\ Ins(s) = prog.code[s.pc.fn][s.pc.at] /\ s.pc.at \in DOMAIN prog.code[s.pc.fn]
      /\ s.pc.fn = s.frames[n].fn /\ s.pc \in Pc
  BY TopFrame
<1>3. dst \in Name /\ dst \in PointerNames(prog, s.pc.fn)
  BY Instruction
<1>4. addr \in Address /\ addr.loc = "STACK" /\ addr.base = Len(s.objects) + 1
  BY <1>1, ConstScalar DEF Address, Loc
<1>5. IsResult(r, s, addr, n)
  BY <1>4, ResultFields
<1>6. /\ objects \in Seq(Object) /\ Len(objects) = Len(s.objects) + 1
      /\ objects[Len(s.objects) + 1].owner = dst
      /\ Grows(s.objects, objects)
  <2> DEFINE o == NewObject(dst)
  <2>1. o \in Object /\ o.owner = dst
    BY <1>3, NewObjectTyped
  <2>2. objects = Append(s.objects, o) /\ s.objects \in Seq(Object)
    BY <1>1
  <2> HIDE DEF o, objects
  <2>3. /\ objects \in Seq(Object) /\ Len(objects) = Len(s.objects) + 1
        /\ objects[Len(s.objects) + 1] = o /\ Grows(s.objects, objects)
    BY ZenonT(120), <2>1, <2>2, OneObjectMore
  <2> QED
    BY <2>1, <2>3
<1> HIDE DEF r, objects
<1>7. /\ t \in PathState /\ t.pc = r.pc /\ t.frames = r.frames
      /\ t.read = s.read /\ t.cond = s.cond /\ t.heap = s.heap
      /\ t.objects = objects
  BY <1>5, <1>6 DEF IsResult, PathState
<1> HIDE DEF t
<1>8. t.read \in 0..Inputs
  BY <1>7 DEF PathGood
<1>9. NewObjects(s, t)
  <2> SUFFICES Allocated(t, n, s.pc.at, Len(s.objects) + 1)
    <3>1. \A k \in (Len(s.objects) + 1)..Len(t.objects) : k = Len(s.objects) + 1
      BY <1>1, <1>6, <1>7
    <3> QED
      BY <3>1 DEF NewObjects
  <2>1. /\ t.frames[n].fn = s.pc.fn
        /\ t.frames[n].temps = Put(s.frames[n].temps, dst, addr)
        /\ Len(t.frames) = n
        /\ t.pc.at = s.pc.at + 1
    <3>1. t.frames = r.frames /\ t.pc = r.pc
      BY <1>7
    <3>2. /\ r.frames[n].fn = s.frames[n].fn
          /\ r.frames[n].temps = Put(s.frames[n].temps, dst, addr)
          /\ Len(r.frames) = n
          /\ r.pc = [fn |-> s.pc.fn, at |-> s.pc.at + 1]
      BY <1>5 DEF IsResult
    <3> HIDE DEF dst
    <3> QED
      BY SMTT(90), <3>1, <3>2, <1>2
  <2>2. dst \in DOMAIN t.frames[n].temps /\ t.frames[n].temps[dst] = addr
    BY <2>1 DEF Put
  <2>3. s.pc.at < t.pc.at
    <3>1. s.pc.at \in Nat
      BY <1>2 DEF Pc
    <3> QED
      BY <3>1, <2>1
  <2> QED
    BY <2>1, <2>2, <2>3, <1>2, <1>6, <1>7 DEF Allocated, Code, Place
<1>10. addr.base \in 1..Len(t.objects)
  BY <1>1, <1>4, <1>6, <1>7
<1>11. Grows(s.objects, t.objects) /\ Grows(s.heap, t.heap)
  BY <1>1, <1>6, <1>7, GrowsItself
<1>12. PathGood(t)
  BY <1>3, <1>4, <1>7, <1>8, <1>9, <1>10, <1>11, ValueKept DEF r
<1>13. r.objects = s.objects
  BY <1>5 DEF IsResult
<1> QED
  BY <1>12, <1>13 DEF t, r, objects

LEMMA MallocGood ==
  ASSUME prog \in Programs, NEW s, PathGood(s), Ins(s).op = "malloc"
  PROVE  PathGood([Advance(s) EXCEPT !.heap = Append(@, NewObject(Ins(s).dst))])
<1> DEFINE n == Len(s.frames)
           r == Advance(s)
           dst == Ins(s).dst
           heap == Append(s.heap, NewObject(dst))
           t == [r EXCEPT !.heap = heap]
<1>1. /\ s.objects \in Seq(Object) /\ s.heap \in Seq(Object)
      /\ Len(s.heap) \in Nat
  BY TopFrame
<1>2. Ins(s) = prog.code[s.pc.fn][s.pc.at] /\ s.pc.fn = s.frames[n].fn
  BY TopFrame
<1>3. dst \in Name /\ dst \in HeapNames(prog, s.pc.fn)
  BY Instruction
<1>4. /\ heap \in Seq(Object) /\ Len(heap) = Len(s.heap) + 1
      /\ heap[Len(s.heap) + 1].owner = dst
      /\ Grows(s.heap, heap)
  <2> DEFINE o == NewObject(dst)
  <2>1. o \in Object /\ o.owner = dst
    BY <1>3, NewObjectTyped
  <2>2. heap = Append(s.heap, o) /\ s.heap \in Seq(Object)
    BY <1>1
  <2> HIDE DEF o, heap
  <2>3. /\ heap \in Seq(Object) /\ Len(heap) = Len(s.heap) + 1
        /\ heap[Len(s.heap) + 1] = o /\ Grows(s.heap, heap)
    BY ZenonT(120), <2>1, <2>2, OneObjectMore
  <2> QED
    BY <2>1, <2>3
<1>5. IsJump(r, s, s.pc.at + 1)
  BY AdvanceFields
<1> HIDE DEF r, heap
<1>6. /\ t \in PathState /\ t.pc = [fn |-> s.pc.fn, at |-> s.pc.at + 1]
      /\ t.frames = s.frames /\ t.read = s.read /\ t.cond = s.cond
      /\ t.objects = s.objects /\ t.heap = heap
  BY <1>4, <1>5 DEF IsJump, PathState
<1> HIDE DEF t
<1>7. s.pc.at + 1 \in Successors(prog, s.pc.fn, s.pc.at)
  BY <1>2 DEF Successors
<1>8. \A x \in Name : Defines(prog, s.pc.fn, s.pc.at, x) => HasObject(t, n, x)
  <2>1. \A x : Defines(prog, s.pc.fn, s.pc.at, x) => x = dst
    BY <1>2 DEF Defines
  <2>2. Len(s.heap) + 1 \in DOMAIN t.heap
    BY <1>1, <1>4, <1>6, LenProperties
  <2>3. HasObject(t, n, dst)
    BY <2>2, <1>2, <1>3, <1>4, <1>6 DEF HasObject
  <2> QED
    BY <2>1, <2>3
<1>9. s.cond # {}
  BY DEF PathGood
<1>10. PathGood(t)
  BY <1>1, <1>4, <1>6, <1>7, <1>8, <1>9, GrowsItself, Moved DEF n
<1>11. r.heap = s.heap
  BY <1>5 DEF IsJump
<1> QED
  BY <1>10, <1>11 DEF t, r, heap

\* Only the status or the result changes.
LEMMA Stays ==
  ASSUME NEW s, PathGood(s), NEW t \in PathState,
         t.pc = s.pc, t.frames = s.frames, t.objects = s.objects,
         t.heap = s.heap, t.read = s.read, t.cond = s.cond
  PROVE  PathGood(t)
<1>1. ASSUME NEW i \in DOMAIN s.frames
      PROVE  FrameGood(t, i)
  <2>1. FrameGood(s, i)
    BY DEF PathGood
  <2>2. /\ Place(t, i) = Place(s, i) /\ EndOf(t, i) = EndOf(s, i)
        /\ Code(t, i) = Code(s, i) /\ Pointers(t, i) = Pointers(s, i)
    BY DEF Place, EndOf, Code, Pointers
  <2>3. OnTrack(t, i) /\ BasesOK(t, i)
    BY <2>1, <2>2 DEF FrameGood, OnTrack, BasesOK
  <2>4. TempsOK(t, i)
    BY <2>1, <2>2 DEF FrameGood, TempsOK, Reaches
  <2>5. NamesOK(t, i)
    BY <2>1, <2>2 DEF FrameGood, NamesOK, HasObject
  <2>6. ObjectsOfFrame(t, i)
    <3>1. \A c, k : Allocated(s, i, c, k) => Allocated(t, i, c, k)
      BY <2>2 DEF Allocated
    <3> QED
      BY <3>1, <2>1, <2>2 DEF FrameGood, ObjectsOfFrame
  <2> QED
    BY <2>3, <2>4, <2>5, <2>6 DEF FrameGood
<1> QED
  BY <1>1 DEF PathGood, GlobalsKept

LEMMA StatusGood ==
  ASSUME NEW s, PathGood(s), NEW st \in Status, NEW v \in Scalar
  PROVE  /\ PathGood([s EXCEPT !.status = st])
         /\ PathGood([s EXCEPT !.status = st, !.result = v])
<1>1. s \in PathState
  BY DEF PathGood
<1>2. ASSUME NEW t, t = [s EXCEPT !.status = st]
      PROVE  PathGood(t)
  <2>1. /\ t \in PathState /\ t.pc = s.pc /\ t.frames = s.frames
        /\ t.objects = s.objects /\ t.heap = s.heap /\ t.read = s.read
        /\ t.cond = s.cond
    BY <1>1, <1>2 DEF PathState
  <2> QED
    BY <2>1, Stays
<1>3. ASSUME NEW t, t = [s EXCEPT !.status = st, !.result = v]
      PROVE  PathGood(t)
  <2>1. /\ t \in PathState /\ t.pc = s.pc /\ t.frames = s.frames
        /\ t.objects = s.objects /\ t.heap = s.heap /\ t.read = s.read
        /\ t.cond = s.cond
    BY <1>1, <1>3 DEF PathState
  <2> QED
    BY <2>1, Stays
<1> QED
  BY <1>2, <1>3

(***************************************************************************)
(* Calls and returns.                                                      *)
(***************************************************************************)
\* The frames below the one that a call makes or a return removes.
LEMMA FrameKept ==
  ASSUME NEW s, NEW t, NEW i, FrameGood(s, i), t.frames[i] = s.frames[i],
         Place(t, i) = Place(s, i), EndOf(t, i) = EndOf(s, i),
         t.heap = s.heap,
         \A k \in (s.frames[i].base + 1)..EndOf(s, i) : t.objects[k] = s.objects[k],
         OnTrack(t, i), BasesOK(t, i)
  PROVE  FrameGood(t, i)
<1>1. Code(t, i) = Code(s, i) /\ Pointers(t, i) = Pointers(s, i)
  BY DEF Code, Pointers
<1>2. TempsOK(t, i)
  BY <1>1 DEF FrameGood, TempsOK, Reaches
<1>3. NamesOK(t, i)
  BY DEF FrameGood, NamesOK, HasObject
<1>4. ObjectsOfFrame(t, i)
  <2>1. \A k \in (s.frames[i].base + 1)..EndOf(s, i) :
          \A c : Allocated(s, i, c, k) => Allocated(t, i, c, k)
    BY <1>1 DEF Allocated
  <2> QED
    BY <2>1 DEF FrameGood, ObjectsOfFrame
<1> QED
  BY <1>2, <1>3, <1>4 DEF FrameGood

\* What AInstructionCall passes to the callee.
PassedTo(s, f) ==
  LET Passed(i) == IF i \in PointerArgs(s) THEN PointerOf(s, Ins(s).args[i])
                                           ELSE Arg(s, i)
      position(x) == CHOOSE i \in DOMAIN prog.params[f] : prog.params[f][i] = x
  IN  [x \in Takes(prog, f) |-> Passed(position(x))]

LEMMA PassedTyped ==
  ASSUME prog \in Programs, NEW s, PathGood(s), Ins(s).op = "call",
         NEW f, f = Callee(s), NEW x \in Takes(prog, f)
  PROVE  LET v == PassedTo(s, f)[x]
         IN  IF x \in PointerNames(prog, f) THEN AddressIn(s, v) ELSE v \in Scalar
<1> DEFINE params == prog.params[f]
           k == CHOOSE i \in DOMAIN params : params[i] = x
<1>1. f = Ins(s).fn /\ f \in Func
  BY Instruction DEF Callee
<1>2. k \in DOMAIN params /\ params[k] = x
  <2>1. \E i \in DOMAIN params : params[i] = x
    BY DEF Takes
  <2> QED
    BY <2>1
<1>3. DOMAIN Ins(s).args = DOMAIN params
  <2>1. Ins(s).args \in Seq(Operand) /\ params \in Seq(Name)
    BY <1>1, Instruction, ProgramTypes
  <2>2. Len(Ins(s).args) = Len(params)
    BY <1>1, Arguments
  <2> QED
    BY <2>1, <2>2, LenProperties
<1>4. x \in PointerNames(prog, f) <=> k \in PointerArgs(s)
  <2>1. params[k] \in PointerNames(prog, f) <=> params[k] \in prog.pointers
    BY <1>1, <1>2, ProgramForm
  <2>2. k \in PointerArgs(s) <=> params[k] \in prog.pointers
    BY <1>2, <1>3 DEF PointerArgs
  <2> HIDE DEF k, params
  <2> QED
    BY <2>1, <2>2, <1>2
<1>5. PassedTo(s, f)[x] = IF k \in PointerArgs(s) THEN PointerOf(s, Ins(s).args[k])
                                                  ELSE Arg(s, k)
  BY DEF PassedTo
<1>6. IF k \in PointerArgs(s) THEN AddressIn(s, PointerOf(s, Ins(s).args[k]))
                              ELSE Arg(s, k) \in Scalar
  BY <1>2, <1>3, Arguments
<1> HIDE DEF k
<1> QED
  BY <1>4, <1>5, <1>6

LEMMA PassedTemps ==
  ASSUME prog \in Programs, NEW s, PathGood(s), Ins(s).op = "call",
         NEW f, f = Callee(s)
  PROVE  PassedTo(s, f) \in Temps /\ DOMAIN PassedTo(s, f) = Takes(prog, f)
<1> DEFINE T == PassedTo(s, f)
<1>1. T = [x \in Takes(prog, f) |-> T[x]] /\ DOMAIN T = Takes(prog, f)
  BY DEF PassedTo
<1>2. \A x \in Takes(prog, f) : T[x] \in Scalar \cup Address
  BY PassedTyped DEF AddressIn
<1>3. Takes(prog, f) \in SUBSET Name
  <2>1. f \in Func
    BY Instruction DEF Callee
  <2> QED
    BY <2>1, ProgramTypes DEF Takes
<1> HIDE DEF T
<1>4. T \in [Takes(prog, f) -> Scalar \cup Address]
  BY <1>1, <1>2
<1>5. T \in Temps
  BY <1>3, <1>4 DEF Temps
<1> QED
  BY <1>1, <1>5 DEF T

LEMMA CallGood ==
  ASSUME prog \in Programs, NEW s, PathGood(s), Ins(s).op = "call",
         NEW f, f = Callee(s),
         NEW frame, frame = [prev |-> s.pc, base |-> NewBase(s), fn |-> f,
                             temps |-> PassedTo(s, f)]
  PROVE  PathGood([s EXCEPT !.pc = [fn |-> f, at |-> 1],
                            !.frames = Append(@, frame)])
<1> DEFINE n == Len(s.frames)
           pc == [fn |-> f, at |-> 1]
           frames == Append(s.frames, frame)
           t == [s EXCEPT !.pc = pc, !.frames = frames]
<1>1. /\ n \in Nat \ {0} /\ DOMAIN s.frames = 1..n
      /\ Len(s.objects) \in Nat /\ Len(s.heap) \in Nat
  BY TopFrame
<1>2. /\ Place(s, n) = s.pc /\ EndOf(s, n) = Len(s.objects) /\ s.pc \in Pc
      /\ Code(s, n) = prog.code[s.pc.fn] /\ Ins(s) = prog.code[s.pc.fn][s.pc.at]
  BY TopFrame
<1>3. s \in PathState /\ s.frames \in Seq(Frame)
  BY DEF PathGood, PathState
<1>4. f = Ins(s).fn /\ f \in Func
  BY Instruction DEF Callee
<1>5. /\ PassedTo(s, f) \in Temps /\ DOMAIN PassedTo(s, f) = Takes(prog, f)
      /\ frame.prev = s.pc /\ frame.base = Len(s.objects) /\ frame.fn = f
      /\ frame.temps = PassedTo(s, f)
  BY PassedTemps DEF NewBase
<1>6. frame \in Frame
  BY <1>1, <1>2, <1>4, <1>5, FrameSet DEF NewBase
<1>7. /\ frames \in Seq(Frame) /\ Len(frames) = n + 1
      /\ \A i \in 1..n : frames[i] = s.frames[i]
      /\ frames[n + 1] = frame
  BY <1>3, <1>6, AppendProperties
<1>8. pc \in Pc
  BY <1>4 DEF Pc
<1> HIDE DEF frames
<1>9. /\ t \in PathState /\ t.pc = pc /\ t.frames = frames /\ t.read = s.read
      /\ t.cond = s.cond /\ t.heap = s.heap /\ t.objects = s.objects
  BY <1>3, <1>7, <1>8 DEF PathState
<1> HIDE DEF t, n, pc
<1>10. DOMAIN t.frames = 1..(n + 1) /\ t.frames # <<>>
  BY <1>1, <1>7, <1>9, LenProperties, EmptySeq
<1>11. ASSUME NEW i \in 1..n
       PROVE  FrameGood(t, i)
  <2>1. /\ i \in DOMAIN s.frames /\ FrameGood(s, i) /\ t.frames[i] = s.frames[i]
        /\ i # n + 1 /\ i + 1 \in 1..(n + 1)
    BY <1>1, <1>7, <1>9 DEF PathGood
  <2>2. Place(t, i) = Place(s, i)
    <3>1. CASE i = n
      BY <3>1, <2>1, <1>2, <1>5, <1>7, <1>9 DEF Place
    <3>2. CASE i # n
      <4>1. i + 1 \in 1..n
        BY <3>2, <1>1
      <4> QED
        BY <4>1, <3>2, <2>1, <1>7, <1>9 DEF Place, n
    <3> QED
      BY <3>1, <3>2
  <2>3. EndOf(t, i) = EndOf(s, i)
    <3>1. CASE i = n
      BY <3>1, <2>1, <1>2, <1>5, <1>7, <1>9 DEF EndOf
    <3>2. CASE i # n
      <4>1. i + 1 \in 1..n
        BY <3>2, <1>1
      <4> QED
        BY <4>1, <3>2, <2>1, <1>7, <1>9 DEF EndOf, n
    <3> QED
      BY <3>1, <3>2
  <2>4. OnTrack(t, i)
    <3>1. Code(t, i) = Code(s, i)
      BY <2>1 DEF Code
    <3>2. OnTrack(s, i)
      BY <2>1 DEF FrameGood
    <3>3. CASE i = n
      BY ZenonT(120), <3>1, <3>2, <3>3, <2>1, <2>2, <1>2, <1>4, <1>5, <1>7, <1>9
         DEF OnTrack
    <3>4. CASE i # n
      <4>1. i + 1 \in 1..n /\ i < n /\ t.frames[i + 1] = s.frames[i + 1]
        BY <3>4, <1>1, <1>7, <1>9
      <4> QED
        BY <4>1, <3>1, <3>2, <2>1, <2>2 DEF OnTrack, n
    <3> QED
      BY <3>3, <3>4
  <2>5. BasesOK(t, i)
    <3>1. BasesOK(s, i)
      BY <2>1 DEF FrameGood
    <3>2. \A j \in 1..(n + 1) : j \in 1..n \/ j = n + 1
      BY <1>1
    <3> QED
      BY <3>1, <3>2, <2>1, <1>1, <1>5, <1>7, <1>9, <1>10 DEF BasesOK
  <2> QED
    BY <2>1, <2>2, <2>3, <2>4, <2>5, <1>9, FrameKept
<1>12. FrameGood(t, n + 1)
  <2>1. /\ t.frames[n + 1] = frame /\ Place(t, n + 1) = pc
        /\ EndOf(t, n + 1) = Len(s.objects)
        /\ Code(t, n + 1) = prog.code[f]
        /\ Pointers(t, n + 1) = PointerNames(prog, f)
    BY <1>5, <1>7, <1>9 DEF Place, EndOf, Code, Pointers
  <2>2. pc.fn = f /\ pc.at = 1
    BY DEF pc
  <2>3. OnTrack(t, n + 1)
    <3>1. 1 \in DOMAIN prog.code[f]
      BY SMTT(90), <1>4, ProgramForm, ProgramTypes, EmptySeq, LenProperties
    <3>2. ~(n + 1 < Len(t.frames))
      BY <1>1, <1>7, <1>9
    <3> QED
      BY <3>1, <3>2, <2>1, <2>2, <1>5 DEF OnTrack
  <2>4. BasesOK(t, n + 1)
    <3>1. \A j \in 1..(n + 1) : n + 1 <= j => j = n + 1
      BY <1>1
    <3> QED
      BY <3>1, <2>1, <1>1, <1>5, <1>9, <1>10 DEF BasesOK
  <2>5. TempsOK(t, n + 1)
    <3> SUFFICES ASSUME NEW x \in Takes(prog, f)
                 PROVE  LET v == PassedTo(s, f)[x]
                        IN  IF x \in PointerNames(prog, f)
                            THEN v \in Address /\ Reaches(t, n + 1, v)
                            ELSE v \in Scalar
      BY <2>1, <1>5 DEF TempsOK
    <3>1. \A a : AddressIn(s, a) => a \in Address /\ Reaches(t, n + 1, a)
      BY <2>1, <1>9 DEF AddressIn, Reaches
    <3> QED
      BY <3>1, PassedTyped
  <2>6. NamesOK(t, n + 1)
    <3> SUFFICES ASSUME NEW x \in Name, Available(prog, f, 1, x)
                 PROVE  x \in Takes(prog, f) \/ HasObject(t, n + 1, x)
      BY <2>1, <2>2, <1>5 DEF NamesOK
    <3>1. x \in Takes(prog, f) \/ x \in GlobalNames(prog)
      BY AvailableFirst
    <3>2. x \in GlobalNames(prog) => HasObject(t, n + 1, x)
      BY <2>1, <1>5, <1>9 DEF PathGood, GlobalsKept, HasObject, HeapNames
    <3> QED
      BY <3>1, <3>2
  <2>7. ObjectsOfFrame(t, n + 1)
    <3>1. (frame.base + 1)..Len(s.objects) = {}
      BY <1>1, <1>5
    <3> QED
      BY <3>1, <2>1 DEF ObjectsOfFrame
  <2> QED
    BY <2>3, <2>4, <2>5, <2>6, <2>7 DEF FrameGood
<1>13. \A i \in 1..(n + 1) : i \in 1..n \/ i = n + 1
  BY <1>1
<1>14. GlobalsKept(t)
  BY <1>9 DEF PathGood, GlobalsKept
<1>15. t.read \in 0..Inputs /\ t.cond # {}
  BY <1>9 DEF PathGood
<1>16. PathGood(t)
  BY <1>9, <1>10, <1>11, <1>12, <1>13, <1>14, <1>15 DEF PathGood
<1> QED
  BY <1>16 DEF t, pc, frames

\* pop_frame leaves the path at the call, as if the callee had never been.
LEMMA PopGood ==
  ASSUME prog \in Programs, NEW s, PathGood(s), Len(s.frames) > 1,
         NEW b, b = [s EXCEPT !.pc = Fun(s).prev,
                              !.frames = ButLast(@),
                              !.objects = Kept(s)]
  PROVE  /\ PathGood(b)
         /\ Ins(b).op = "call"
         /\ Ins(b).fn = Fun(s).fn
<1> DEFINE n == Len(s.frames)
           m == n - 1
           base == s.frames[n].base
           frames == ButLast(s.frames)
           objects == Kept(s)
<1>1. /\ n \in Nat \ {0} /\ DOMAIN s.frames = 1..n
      /\ Len(s.objects) \in Nat
  BY TopFrame
<1>2. /\ Fun(s) = s.frames[n] /\ FrameGood(s, n)
      /\ \A i \in 1..n : s.frames[i] \in Frame
      /\ s.objects \in Seq(Object)
  BY TopFrame
<1>3. s \in PathState /\ s.frames \in Seq(Frame)
  BY DEF PathGood, PathState
<1>4. n > 1 /\ m \in Nat \ {0} /\ m + 1 = n /\ m < n /\ n \in 1..n /\ m \in 1..n
  <2>1. n > 1 /\ n \in Nat
    BY <1>1
  <2> HIDE DEF n
  <2> QED
    BY <2>1
<1> HIDE DEF n, m
<1>5. base \in Nat /\ base <= Len(s.objects) /\ s.frames[n].prev \in Pc
  <2>1. s.frames[n] \in Frame
    BY <1>2, <1>4
  <2>2. base <= Len(s.objects)
    BY <1>2 DEF FrameGood, BasesOK
  <2> QED
    BY <2>1, <2>2, FrameFields
<1> HIDE DEF base
<1>6. /\ frames \in Seq(Frame) /\ Len(frames) = m
      /\ \A i \in 1..m : frames[i] = s.frames[i]
  <2>1. frames = SubSeq(s.frames, 1, m)
    BY DEF ButLast, m, n
  <2>2. \A i \in 1..m : 1 + i - 1 = i /\ i \in Int
    BY <1>4
  <2> HIDE DEF frames
  <2>3. 1 \in 1..(n + 1) /\ m \in 0..n
    BY <1>1, <1>4
  <2> QED
    BY <2>1, <2>2, <2>3, <1>3, <1>4, SubSeqProperties DEF n
<1>7. /\ objects \in Seq(Object) /\ Len(objects) = base
      /\ \A k \in 1..base : objects[k] = s.objects[k]
  <2>1. objects = SubSeq(s.objects, 1, base)
    BY <1>2 DEF Kept, base
  <2>2. 1 \in 1..(Len(s.objects) + 1) /\ base \in 0..Len(s.objects)
    BY <1>1, <1>5
  <2> HIDE DEF objects
  <2>3. objects \in Seq(Object)
    BY <2>1, <2>2, <1>2, SubSeqProperties
  <2>4. Len(objects) = base
    <3>1. Len(objects) = IF 1 <= base THEN base - 1 + 1 ELSE 0
      BY <2>1, <2>2, <1>2, SubSeqProperties
    <3> QED
      BY <3>1, <1>5
  <2>5. \A k \in 1..base : objects[k] = s.objects[k]
    <3>1. \A k \in 1..(base - 1 + 1) : objects[k] = s.objects[1 + k - 1]
      BY <2>1, <2>2, <1>2, SubSeqProperties
    <3>2. \A k \in 1..base : k \in 1..(base - 1 + 1) /\ 1 + k - 1 = k
      BY <1>5
    <3> QED
      BY <3>1, <3>2
  <2> QED
    BY <2>3, <2>4, <2>5
<1>8. b = [s EXCEPT !.pc = s.frames[n].prev, !.frames = frames, !.objects = objects]
  BY <1>2
<1> HIDE DEF frames, objects
<1>9. /\ b \in PathState /\ b.pc = s.frames[n].prev /\ b.frames = frames
      /\ b.read = s.read /\ b.cond = s.cond /\ b.heap = s.heap
      /\ b.objects = objects
  BY <1>3, <1>5, <1>6, <1>7, <1>8 DEF PathState
<1>10. DOMAIN b.frames = 1..m /\ b.frames # <<>> /\ Len(b.frames) = m
  BY <1>4, <1>6, <1>9, LenProperties, EmptySeq
<1>11. ASSUME NEW i \in 1..m
       PROVE  /\ FrameGood(s, i) /\ FrameGood(s, i + 1)
              /\ b.frames[i] = s.frames[i]
              /\ i \in 1..n /\ i + 1 \in 1..n /\ i # n /\ i < n
              /\ Place(b, i) = Place(s, i)
              /\ EndOf(b, i) = EndOf(s, i)
              /\ EndOf(s, i) = s.frames[i + 1].base
  <2>1. /\ i \in 1..n /\ i + 1 \in 1..n /\ i # n /\ i < n
    BY <1>1, <1>4
  <2>2. FrameGood(s, i) /\ FrameGood(s, i + 1) /\ b.frames[i] = s.frames[i]
    BY <2>1, <1>1, <1>6, <1>9 DEF PathGood
  <2>3. EndOf(s, i) = s.frames[i + 1].base /\ Place(s, i) = s.frames[i + 1].prev
    BY <2>1 DEF EndOf, Place, n
  <2>4. CASE i = m
    BY <2>3, <2>4, <1>4, <1>7, <1>9, <1>10, <2>1, <2>2 DEF EndOf, Place, base
  <2>5. CASE i # m
    <3>1. i + 1 \in 1..m
      BY <2>5, <1>4
    <3> QED
      BY <3>1, <2>1, <2>2, <2>3, <2>5, <1>6, <1>9, <1>10 DEF EndOf, Place
  <2> QED
    BY <2>4, <2>5
<1>12. \A i \in 1..n : s.frames[i].base \in Nat
  BY <1>2, FrameFields
<1>13. \A i, j \in 1..n : i <= j => s.frames[i].base <= s.frames[j].base
  BY <1>1 DEF PathGood, FrameGood, BasesOK
<1>14. ASSUME NEW i \in 1..m
       PROVE  FrameGood(b, i)
  <2>1. /\ FrameGood(s, i)
        /\ b.frames[i] = s.frames[i]
        /\ i \in 1..n /\ i + 1 \in 1..n /\ i # n /\ i < n
        /\ Place(b, i) = Place(s, i)
        /\ EndOf(b, i) = EndOf(s, i)
        /\ EndOf(s, i) = s.frames[i + 1].base
    BY <1>11
  <2>2. OnTrack(b, i)
    <3>1. OnTrack(s, i) /\ Code(b, i) = Code(s, i)
      BY <2>1 DEF FrameGood, Code
    <3>2. i < m => b.frames[i + 1] = s.frames[i + 1]
      <4> SUFFICES ASSUME i < m
                   PROVE  i + 1 \in 1..m
        BY <1>6, <1>9
      <4> QED
        BY <1>4
    <3> QED
      BY <3>1, <3>2, <2>1, <1>10 DEF OnTrack, n
  <2>3. BasesOK(b, i)
    <3>1. \A j \in 1..m : j \in 1..n /\ j <= n /\ b.frames[j] = s.frames[j]
      BY <1>4, <1>6, <1>9
    <3>2. s.frames[i].base <= base
      BY <2>1, <1>4, <1>13 DEF base
    <3>3. \A j \in 1..m : i <= j => b.frames[i].base <= b.frames[j].base
      BY <3>1, <2>1, <1>13
    <3> QED
      BY <3>2, <3>3, <2>1, <1>7, <1>9, <1>10 DEF BasesOK
  <2>4. \A k \in (s.frames[i].base + 1)..EndOf(s, i) : b.objects[k] = s.objects[k]
    <3>1. s.frames[i + 1].base <= base /\ s.frames[i + 1].base \in Nat
          /\ s.frames[i].base \in Nat
      BY <2>1, <1>4, <1>12, <1>13 DEF base
    <3>2. \A k \in (s.frames[i].base + 1)..s.frames[i + 1].base : k \in 1..base
      BY SMTT(90), <3>1, <1>5
    <3> QED
      BY <3>2, <2>1, <1>7, <1>9
  <2> QED
    BY ZenonT(90), <2>1, <2>2, <2>3, <2>4, <1>9, FrameKept
<1>15. PathGood(b)
  <2>1. b.read \in 0..Inputs /\ b.cond # {}
    BY <1>9 DEF PathGood
  <2>2. GlobalsKept(b)
    BY <1>9 DEF PathGood, GlobalsKept
  <2> QED
    BY <2>1, <2>2, <1>9, <1>10, <1>14 DEF PathGood
<1>16. Ins(b).op = "call" /\ Ins(b).fn = s.frames[n].fn
  <2>1. m \in 1..m
    BY <1>4
  <2>2. OnTrack(s, m) /\ b.frames[m] = s.frames[m] /\ Place(b, m) = Place(s, m)
    BY <2>1, <1>11 DEF FrameGood
  <2>3. Place(b, m) = b.pc
    BY <1>10 DEF Place
  <2>4. LET ins == Code(s, m)[Place(s, m).at]
        IN  ins.op = "call" /\ ins.fn = s.frames[n].fn
    <3>1. m < Len(s.frames) /\ s.frames[m + 1] = s.frames[n]
      BY <1>4 DEF n
    <3> QED
      BY <3>1, <2>2 DEF OnTrack
  <2>5. Ins(b) = Code(s, m)[Place(s, m).at]
    <3>1. b.pc.fn = s.frames[m].fn
      BY <2>2, <2>3 DEF OnTrack
    <3> QED
      BY <3>1, <2>2, <2>3 DEF Ins, Code
  <2> QED
    BY <2>4, <2>5
<1> QED
  BY <1>2, <1>15, <1>16

LEMMA ReturnGood ==
  ASSUME prog \in Programs, NEW s, PathGood(s), Len(s.frames) > 1,
         Ins(s).op = "return",
         NEW b, b = [s EXCEPT !.pc = Fun(s).prev,
                              !.frames = ButLast(@),
                              !.objects = Kept(s)]
  PROVE  PathGood(IF Returned(s) THEN Result(b, Arg(s, 1)) ELSE Advance(b))
<1>1. PathGood(b) /\ Ins(b).op = "call" /\ Ins(b).fn = Fun(s).fn
  BY PopGood
<1>2. CASE Returned(s)
  <2>1. Arg(s, 1) \in Scalar
    BY <1>2, Arguments
  <2> QED
    BY <2>1, <1>1, <1>2, ResultGood
<1>3. CASE ~Returned(s)
  <2> DEFINE t == Advance(b)
  <2>1. IsJump(t, b, b.pc.at + 1)
    BY <1>1, AdvanceFields
  <2>2. /\ Ins(b) = prog.code[b.pc.fn][b.pc.at]
        /\ b.objects \in Seq(Object) /\ b.heap \in Seq(Object)
    BY <1>1, TopFrame
  <2>3. b.pc.at + 1 \in Successors(prog, b.pc.fn, b.pc.at)
    BY <2>2, <1>1 DEF Successors
  <2>4. ~ReturnsValue(prog, Fun(s).fn)
    <3>1. /\ Ins(s) = prog.code[Fun(s).fn][s.pc.at]
          /\ s.pc.at \in DOMAIN prog.code[Fun(s).fn]
      BY ZenonT(90), TopFrame
    <3> QED
      BY <3>1, <1>3 DEF ReturnsValue, Returned
  <2>5. \A x : ~Defines(prog, b.pc.fn, b.pc.at, x)
    BY <2>2, <2>4, <1>1 DEF Defines
  <2>6. b.cond # {}
    BY <1>1 DEF PathGood
  <2> HIDE DEF t
  <2>7. /\ t \in PathState /\ t.frames = b.frames /\ t.read = b.read
        /\ t.cond # {} /\ t.pc.fn = b.pc.fn /\ t.pc.at = b.pc.at + 1
        /\ t.objects = b.objects /\ t.heap = b.heap
    BY <2>1, <2>6 DEF IsJump
  <2>8. Grows(b.objects, t.objects) /\ Grows(b.heap, t.heap)
    BY <2>2, <2>7, GrowsItself
  <2>9. PathGood(t)
    BY <2>3, <2>5, <2>7, <2>8, <1>1, Moved
  <2> QED
    BY <2>9, <1>3 DEF t
<1> QED
  BY <1>2, <1>3

(***************************************************************************)
(* The cache.                                                              *)
(***************************************************************************)
LEMMA NarrowInt ==
  ASSUME NEW k \in Int
  PROVE  Narrow(k) \in Ints
<1> DEFINE half == 2 ^ (Width - 1)
<1>1. half \in Int
  BY CallsConstantsOK
<1>2. half > 0
  BY CallsConstantsOK
<1>3. Narrow(k) = ((k + half) % (2 * half)) - half /\ Ints = -half .. half - 1
  BY DEF Narrow, Ints
<1> HIDE DEF half
<1>4. (k + half) % (2 * half) \in 0..(2 * half - 1)
  BY <1>1, <1>2
<1> QED
  BY <1>1, <1>2, <1>3, <1>4

LEMMA ModelValue ==
  ASSUME NEW s, PathGood(s), NEW v \in Scalar
  PROVE  InModel(s, v) \in Int
<1>1. s.cond \in SUBSET Point /\ s.cond # {}
  BY DEF PathGood, PathState
<1>2. (CHOOSE p \in s.cond : TRUE) \in Point
  BY <1>1
<1> QED
  BY <1>2 DEF InModel, Scalar

LEMMA CachedTyped ==
  ASSUME CacheOK, NEW k \in DOMAIN cache
  PROVE  Const(cache[k]) \in Scalar
<1>1. 2 ^ (Width - 1) \in Int
  BY CallsConstantsOK
<1>2. cache[k] \in Int
  BY <1>1 DEF CacheOK, Ints
<1> QED
  BY <1>2, ConstScalar

\* An argument of a function without pointers is still there at its return.
LEMMA EntryTyped ==
  ASSUME prog \in Programs, NEW s, PathGood(s), Ins(s).op = "return", Caches(s)
  PROVE  EntryKey(s) \in Key /\ EntryValue(s) \in Ints
<1> DEFINE n == Len(s.frames)
           Value(i) == Narrow(InModel(s, Fun(s).temps[Params(s)[i]]))
           args == [i \in DOMAIN Params(s) |-> Value(i)]
<1>1. /\ Fun(s) = s.frames[n] /\ FrameGood(s, n) /\ Place(s, n) = s.pc
      /\ s.pc.fn = s.frames[n].fn /\ s.pc.fn \in Func
      /\ Pointers(s, n) = PointerNames(prog, s.pc.fn)
  BY TopFrame
<1>2. Params(s) = prog.params[s.pc.fn] /\ Params(s) \in Seq(Name)
  BY <1>1, ProgramTypes DEF Params
<1> HIDE DEF n
<1>3. ASSUME NEW i \in DOMAIN Params(s)
      PROVE  Value(i) \in Int
  <2> DEFINE x == Params(s)[i]
  <2>1. x \in Name /\ x \in Takes(prog, s.pc.fn) /\ x \notin prog.pointers
    BY SMTT(90), <1>2 DEF Takes, Caches, ConcreteParam, ScalarParam
  <2>2. x \notin PointerNames(prog, s.pc.fn)
    BY <2>1, <1>1, <1>2, ProgramForm
  <2>3. ~HasObject(s, n, x)
    BY <2>2, <1>1 DEF HasObject, PointerNames
  <2>4. Available(prog, s.pc.fn, s.pc.at, x)
    BY <2>1 DEF Available
  <2> HIDE DEF x
  <2>5. x \in DOMAIN Fun(s).temps
    BY <2>1, <2>3, <2>4, <1>1 DEF FrameGood, NamesOK
  <2>6. Fun(s).temps[x] \in Scalar
    BY <2>2, <2>5, <1>1 DEF FrameGood, TempsOK
  <2>7. InModel(s, Fun(s).temps[x]) \in Int
    BY <2>6, ModelValue
  <2>8. Narrow(InModel(s, Fun(s).temps[x])) \in Ints
    BY <2>7, NarrowInt
  <2>9. 2 ^ (Width - 1) \in Int
    BY CallsConstantsOK
  <2> QED
    BY <2>8, <2>9 DEF x, Ints
<1> HIDE DEF Value
<1>4. args \in Seq(Int)
  <2>1. DOMAIN Params(s) = 1..Len(Params(s)) /\ Len(Params(s)) \in Nat
    BY <1>2, LenProperties
  <2>2. args \in [1..Len(Params(s)) -> Int]
    BY <2>1, <1>3
  <2> HIDE DEF args
  <2> QED
    BY <2>1, <2>2, SeqDef
<1>5. EntryKey(s) = [fn |-> s.pc.fn, args |-> args]
  BY <1>1 DEF EntryKey, Value
<1>6. EntryKey(s) \in Key
  <2> HIDE DEF args
  <2> QED
    BY <1>1, <1>4, <1>5 DEF Key
<1>7. Arg(s, 1) \in Scalar
  BY Arguments DEF Caches
<1>8. EntryValue(s) \in Ints
  BY <1>7, ModelValue, NarrowInt DEF EntryValue
<1> QED
  BY <1>6, <1>8

(***************************************************************************)
(* The steps.                                                              *)
(***************************************************************************)
LEMMA SameProgram ==
  ASSUME prog' = prog, NEW s
  PROVE  PathGood(s)' <=> PathGood(s)
<1>1. GlobalsKept(s)' <=> GlobalsKept(s)
  BY DEF GlobalsKept
<1>2. \A i : Place(s, i)' = Place(s, i) /\ Code(s, i)' = Code(s, i)
             /\ Pointers(s, i)' = Pointers(s, i)
  BY DEF Place, Code, Pointers
<1>3. \A i : OnTrack(s, i)' <=> OnTrack(s, i)
  BY <1>2 DEF OnTrack
<1>4. \A i : TempsOK(s, i)' <=> TempsOK(s, i)
  BY <1>2 DEF TempsOK
<1>5. \A i : NamesOK(s, i)' <=> NamesOK(s, i)
  BY <1>2 DEF NamesOK, HasObject
<1>6. \A i : ObjectsOfFrame(s, i)' <=> ObjectsOfFrame(s, i)
  <2>1. \A i, c, k : Allocated(s, i, c, k)' <=> Allocated(s, i, c, k)
    BY SMTT(90), <1>2 DEF Allocated
  <2> QED
    BY <2>1 DEF ObjectsOfFrame
<1>7. \A i : FrameGood(s, i)' <=> FrameGood(s, i)
  BY <1>3, <1>4, <1>5, <1>6 DEF FrameGood
<1> QED
  BY <1>1, <1>7 DEF PathGood

\* The paths after a step are the old ones and those that were pushed.
LEMMA PushedPaths ==
  ASSUME Worklist, states # <<>>, NEW T, NEW new \in Seq(T), Push(new),
         NEW s \in Paths'
  PROVE  s \in Paths \/ \E k \in DOMAIN new : s = new[k]
<1>1. Len(states) \in Nat \ {0} /\ DOMAIN states = 1..Len(states)
  BY TopAndRest, LenProperties DEF Worklist
<1>2. Len(new) \in Nat /\ DOMAIN new = 1..Len(new)
  BY LenProperties
<1>3. PICK i \in DOMAIN states' : s = states'[i]
  BY DEF Paths
<1>4. /\ DOMAIN states' = 1..(Len(states) - 1 + Len(new))
      /\ \A j \in DOMAIN states' :
           states'[j] = IF j < Len(states) THEN states[j]
                                           ELSE new[j - Len(states) + 1]
  BY Replaced
<1>5. CASE i < Len(states)
  BY <1>1, <1>2, <1>3, <1>4, <1>5 DEF Paths
<1>6. CASE i >= Len(states)
  BY <1>1, <1>2, <1>3, <1>4, <1>6
<1> QED
  BY <1>1, <1>2, <1>4, <1>5, <1>6

AllGood == \A s \in Paths : PathGood(s)

LEMMA GoodTop ==
  ASSUME Worklist, AllGood, ~Done
  PROVE  states # <<>> /\ Top \in Paths /\ PathGood(Top)
<1>1. states # <<>>
  BY DEF Done
<1>2. Len(states) \in DOMAIN states /\ Top = states[Len(states)]
  BY <1>1, TopAndRest, LenProperties DEF Worklist
<1> QED
  BY <1>1, <1>2 DEF AllGood, Paths

LEMMA PushedGood ==
  ASSUME Worklist, AllGood, ~Done, prog' = prog, NEW T, NEW new \in Seq(T),
         Push(new), \A k \in DOMAIN new : PathGood(new[k])
  PROVE  AllGood'
<1>1. states # <<>>
  BY DEF Done
<1> SUFFICES ASSUME NEW s \in Paths'
             PROVE  PathGood(s)'
  BY DEF AllGood
<1>2. s \in Paths \/ \E k \in DOMAIN new : s = new[k]
  BY <1>1, PushedPaths
<1>3. PathGood(s)
  BY <1>2 DEF AllGood
<1> QED
  BY <1>3, SameProgram

LEMMA OneGood ==
  ASSUME Worklist, AllGood, ~Done, prog' = prog, NEW s, PathGood(s), Push(<<s>>)
  PROVE  AllGood'
<1>1. <<s>> \in Seq({s}) /\ DOMAIN <<s>> = {1} /\ <<s>>[1] = s
  OBVIOUS
<1> QED
  BY <1>1, PushedGood

LEMMA StepsGood ==
  ASSUME prog \in Programs, Worklist, AllGood,
         Input \/ Arithmetic \/ Alloca \/ Malloc \/ Gep \/ Load \/ Store
  PROVE  AllGood'
<1>1. ~Done /\ prog' = prog
  BY DEF Input, Arithmetic, Alloca, Malloc, Gep, Load, Store, On,
         UnchangedButStates
<1>2. PathGood(Top)
  BY <1>1, GoodTop
<1>3. \A s : PathGood(s) /\ Push(<<s>>) => AllGood'
  BY <1>1, OneGood
<1>4. CASE Input
  BY <1>2, <1>3, <1>4, InputGood DEF Input, On
<1>5. CASE Arithmetic
  BY <1>2, <1>3, <1>5, ArithmeticGood DEF Arithmetic, On
<1>6. CASE Alloca
  BY <1>2, <1>3, <1>6, AllocaGood DEF Alloca, On
<1>7. CASE Malloc
  BY <1>2, <1>3, <1>7, MallocGood DEF Malloc, On
<1>8. CASE Gep
  BY <1>2, <1>3, <1>8, GepGood DEF Gep, On
<1>9. CASE Load
  BY <1>2, <1>3, <1>9, LoadGood DEF Load, On
<1>10. CASE Store
  BY <1>2, <1>3, <1>10, StoreGood DEF Store, On
<1> QED
  BY <1>4, <1>5, <1>6, <1>7, <1>8, <1>9, <1>10

LEMMA BranchesGood ==
  ASSUME prog \in Programs, Worklist, AllGood, Branch
  PROVE  AllGood'
<1> DEFINE yes == [Advance(Top) EXCEPT !.cond = TrueSide(Top)]
           no == [Jump(Top, Ins(Top).to) EXCEPT !.cond = FalseSide(Top)]
           new == Feasible(yes) \o Feasible(no)
<1>1. ~Done /\ prog' = prog /\ Push(new) /\ Ins(Top).op = "branch"
  BY DEF Branch, On, UnchangedButStates
<1>2. PathGood(Top)
  BY <1>1, GoodTop
<1>3. Successors(prog, Top.pc.fn, Top.pc.at) = {Top.pc.at + 1, Ins(Top).to}
  BY <1>1, <1>2, TopFrame DEF Successors
<1>4. TrueSide(Top) \in SUBSET Top.cond /\ FalseSide(Top) \in SUBSET Top.cond
  BY DEF TrueSide, FalseSide
<1>5. TrueSide(Top) # {} => PathGood(yes)
  BY <1>1, <1>2, <1>3, <1>4, BranchGood DEF Advance
<1>6. FalseSide(Top) # {} => PathGood(no)
  BY <1>1, <1>2, <1>3, <1>4, BranchGood
<1>7. yes.cond = TrueSide(Top) /\ no.cond = FalseSide(Top)
  <2>1. Shaped(Top)
    BY <1>1, TopAndRest DEF Done
  <2>2. Shaped(Advance(Top)) /\ Shaped(Jump(Top, Ins(Top).to))
    BY <2>1, Updates DEF SamePoints
  <2> QED
    BY <2>2 DEF Shaped
<1> HIDE DEF yes, no
<1>8. new \in Seq({yes, no}) /\ \A k \in DOMAIN new : PathGood(new[k])
  <2>1. CASE yes.cond = {} /\ no.cond = {}
    <3>1. new = <<>>
      BY <2>1 DEF Feasible
    <3> QED
      BY <3>1
  <2>2. CASE yes.cond = {} /\ no.cond # {}
    <3>1. new = <<no>>
      BY <2>2 DEF Feasible
    <3>2. DOMAIN new = {1} /\ new[1] = no
      BY <3>1
    <3> QED
      BY <3>1, <3>2, <2>2, <1>6, <1>7
  <2>3. CASE yes.cond # {} /\ no.cond = {}
    <3>1. new = <<yes>>
      BY <2>3 DEF Feasible
    <3>2. DOMAIN new = {1} /\ new[1] = yes
      BY <3>1
    <3> QED
      BY <3>1, <3>2, <2>3, <1>5, <1>7
  <2>4. CASE yes.cond # {} /\ no.cond # {}
    <3>1. new = <<yes, no>>
      BY <2>4, ConcatTwo DEF Feasible
    <3>2. DOMAIN new = {1, 2} /\ new[1] = yes /\ new[2] = no
      BY <3>1
    <3> QED
      BY <3>1, <3>2, <2>4, <1>5, <1>6, <1>7
  <2> QED
    BY <2>1, <2>2, <2>3, <2>4
<1> HIDE DEF new
<1> QED
  BY <1>1, <1>8, PushedGood

LEMMA CallsGood ==
  ASSUME prog \in Programs, Worklist, AllGood, CacheOK,
         CallCached \/ CallUnknown \/ CallBody
  PROVE  AllGood'
<1>1. ~Done /\ prog' = prog /\ Ins(Top).op = "call"
  BY DEF CallCached, CallUnknown, CallBody, On, UnchangedButStates
<1>2. PathGood(Top)
  BY <1>1, GoodTop
<1>3. \A s : PathGood(s) /\ Push(<<s>>) => AllGood'
  BY <1>1, OneGood
<1>4. CASE CallCached
  <2>1. Const(cache[ArgKey(Top)]) \in Scalar
    BY <1>4, CachedTyped DEF CallCached, Cached
  <2>2. PathGood(Result(Top, Const(cache[ArgKey(Top)])))
    BY <2>1, <1>1, <1>2, ResultGood
  <2> QED
    BY <2>2, <1>3, <1>4 DEF CallCached
<1>5. CASE CallUnknown
  <2>1. Const(0) \in Scalar /\ "UNKNOWN" \in Status
    BY ConstScalar DEF Status
  <2>2. PathGood([Top EXCEPT !.status = "UNKNOWN"])
    BY <2>1, <1>2, StatusGood
  <2> QED
    BY <2>2, <1>3, <1>5 DEF CallUnknown
<1>6. CASE CallBody
  <2> DEFINE f == Callee(Top)
             frame == [prev |-> Top.pc, base |-> NewBase(Top), fn |-> f,
                       temps |-> PassedTo(Top, f)]
             t == [Top EXCEPT !.pc = [fn |-> f, at |-> 1],
                              !.frames = Append(@, frame)]
  <2>1. PathGood(t)
    BY <1>1, <1>2, CallGood
  <2>2. Push(<<t>>)
    BY <1>6 DEF CallBody, PassedTo
  <2> QED
    BY <2>1, <2>2, <1>3
<1> QED
  BY <1>4, <1>5, <1>6

LEMMA ReturnsGood ==
  ASSUME prog \in Programs, Worklist, AllGood,
         Return \/ ReturnThrows \/ ReturnMain \/ ReachError
  PROVE  AllGood'
<1>1. ~Done /\ prog' = prog
  BY DEF Return, ReturnThrows, ReturnMain, ReachError, On, UnchangedButStates
<1>2. PathGood(Top) /\ Top \in PathState
  BY <1>1, GoodTop DEF PathGood
<1>3. \A s : PathGood(s) /\ Push(<<s>>) => AllGood'
  BY <1>1, OneGood
<1>4. /\ "exception" \in Status /\ "TERMINATED" \in Status
      /\ "REACH_ERROR" \in Status /\ Const(0) \in Scalar
      /\ Top.result \in Scalar
  BY <1>2, ConstScalar DEF Status, PathState
<1>5. CASE Return
  <2> DEFINE b == [Top EXCEPT !.pc = Fun(Top).prev,
                              !.frames = ButLast(@),
                              !.objects = Kept(Top)]
             t == IF Returned(Top) THEN Result(b, Arg(Top, 1)) ELSE Advance(b)
  <2>1. Len(Top.frames) > 1 /\ Ins(Top).op = "return" /\ Push(<<t>>)
    BY <1>5 DEF Return, On
  <2>2. PathGood(t)
    BY <2>1, <1>2, ReturnGood
  <2> QED
    BY <2>1, <2>2, <1>3
<1>6. CASE ReturnThrows
  BY <1>2, <1>3, <1>4, <1>6, StatusGood DEF ReturnThrows
<1>7. CASE ReturnMain
  <2> DEFINE v == IF Returned(Top) THEN Arg(Top, 1) ELSE Top.result
  <2>1. v \in Scalar
    BY <1>2, <1>4, <1>7, Arguments DEF ReturnMain, On
  <2>2. PathGood([Top EXCEPT !.status = "TERMINATED", !.result = v])
    <3> HIDE DEF v
    <3> QED
      BY <2>1, <1>2, <1>4, StatusGood
  <2>3. Push(<<[Top EXCEPT !.status = "TERMINATED", !.result = v]>>)
    BY <1>7 DEF ReturnMain
  <2> QED
    BY <2>2, <2>3, <1>3
<1>8. CASE ReachError
  BY <1>2, <1>3, <1>4, <1>8, StatusGood DEF ReachError
<1> QED
  BY <1>5, <1>6, <1>7, <1>8

LEMMA EndsGood ==
  ASSUME Worklist, AllGood, EndedOK, End
  PROVE  AllGood' /\ EndedOK'
<1>1. ~Done /\ prog' = prog /\ Push(<<>>) /\ Top.status # "RUNNING"
  BY DEF End
<1>2. <<>> \in Seq({}) /\ DOMAIN <<>> = {}
  OBVIOUS
<1>3. AllGood'
  BY <1>1, <1>2, PushedGood
<1>4. Top \in PathState
  BY <1>1, GoodTop DEF PathGood
<1>5. Top.status \in Status \ {"RUNNING"} /\ Top.result \in Scalar
  BY <1>1, <1>4 DEF PathState
<1>6. Status' = Status /\ Scalar' = Scalar
  BY DEF Status, Scalar, Point
<1> HIDE DEF Status, Scalar
<1>7. EndedOK'
  BY <1>5, <1>6 DEF EndedOK, End
<1> QED
  BY <1>3, <1>7

\* Only a return puts a value in the cache.
LEMMA ReturnKeepsCache ==
  ASSUME prog \in Programs, Worklist, AllGood, CacheOK, Return
  PROVE  CacheOK'
<1>1. ~Done /\ Ins(Top).op = "return"
  BY DEF Return, On
<1>2. PathGood(Top)
  BY <1>1, GoodTop
<1>3. CASE Caches(Top)
  <2> DEFINE k == EntryKey(Top)
             v == EntryValue(Top)
  <2>1. k \in Key /\ v \in Ints
    BY <1>1, <1>2, <1>3, EntryTyped
  <2>2. cache' = Put(cache, k, v)
    BY <1>3 DEF Return
  <2> HIDE DEF k, v
  <2>3. \A j \in DOMAIN cache' :
          IF j = k THEN cache'[j] = v ELSE j \in DOMAIN cache /\ cache'[j] = cache[j]
    BY <2>2 DEF Put
  <2>4. \A j \in DOMAIN cache' : j \in Key /\ cache'[j] \in Ints
    BY <2>1, <2>3 DEF CacheOK
  <2> QED
    BY <2>4 DEF CacheOK
<1>4. CASE ~Caches(Top)
  BY <1>4 DEF Return, CacheOK
<1> QED
  BY <1>3, <1>4

LEMMA VisitTyped ==
  ASSUME prog \in Programs, Worklist, AllGood, visited \subseteq Func,
         CallUnknown \/ CallBody
  PROVE  visited' \subseteq Func
<1>1. ~Done /\ Visit
  BY DEF CallUnknown, CallBody, On
<1>2. PathGood(Top)
  BY <1>1, GoodTop
<1>3. Callee(Top) \in Func
  BY <1>2, Instruction DEF Callee
<1> QED
  BY <1>1, <1>3 DEF Visit

LEMMA NextKeepsMemory ==
  ASSUME Worklist, MemoryInv, [Next]_vars
  PROVE  MemoryInv'
<1>1. /\ prog \in Programs /\ visited \subseteq Func /\ CacheOK /\ EndedOK
      /\ AllGood
  BY DEF MemoryInv, AllGood
<1>2. SUFFICES prog' = prog /\ visited' \subseteq Func /\ CacheOK' /\ EndedOK'
               /\ AllGood'
  BY <1>1 DEF MemoryInv, AllGood
<1>3. cache' = cache => CacheOK'
  BY <1>1 DEF CacheOK
<1>4. ended' = ended => EndedOK'
  BY <1>1 DEF EndedOK
<1>5. CASE UNCHANGED vars
  <2>1. prog' = prog /\ states' = states /\ ended' = ended /\ cache' = cache
        /\ visited' = visited
    BY <1>5 DEF vars
  <2>2. Paths' = Paths
    BY <2>1 DEF Paths
  <2>3. AllGood'
    BY <1>1, <2>1, <2>2, SameProgram DEF AllGood
  <2> QED
    BY <1>1, <1>3, <1>4, <2>1, <2>3
<1>6. CASE Input \/ Arithmetic \/ Alloca \/ Malloc \/ Gep \/ Load \/ Store
  <2>1. UnchangedButStates
    BY <1>6 DEF Input, Arithmetic, Alloca, Malloc, Gep, Load, Store
  <2>2. AllGood'
    BY <1>1, <1>6, StepsGood
  <2> QED
    BY <1>1, <1>3, <1>4, <2>1, <2>2 DEF UnchangedButStates
<1>7. CASE Branch
  <2>1. UnchangedButStates
    BY <1>7 DEF Branch
  <2>2. AllGood'
    BY <1>1, <1>7, BranchesGood
  <2> QED
    BY <1>1, <1>3, <1>4, <2>1, <2>2 DEF UnchangedButStates
<1>8. CASE CallCached \/ CallUnknown \/ CallBody
  <2>1. prog' = prog /\ ended' = ended /\ cache' = cache
    BY <1>8 DEF CallCached, CallUnknown, CallBody, UnchangedButStates
  <2>2. visited' \subseteq Func
    BY <1>1, <1>8, VisitTyped DEF CallCached, UnchangedButStates
  <2>3. AllGood'
    BY <1>1, <1>8, CallsGood
  <2> QED
    BY <1>3, <1>4, <2>1, <2>2, <2>3
<1>9. CASE Return \/ ReturnThrows \/ ReturnMain \/ ReachError
  <2>1. prog' = prog /\ ended' = ended /\ visited' = visited
    BY <1>9 DEF Return, ReturnThrows, ReturnMain, ReachError, UnchangedButStates
  <2>2. CacheOK'
    BY <1>1, <1>3, <1>9, ReturnKeepsCache
       DEF ReturnThrows, ReturnMain, ReachError, UnchangedButStates
  <2>3. AllGood'
    BY <1>1, <1>9, ReturnsGood
  <2> QED
    BY <1>1, <1>4, <2>1, <2>2, <2>3
<1>10. CASE End
  <2>1. prog' = prog /\ cache' = cache /\ visited' = visited
    BY <1>10 DEF End
  <2> QED
    BY <1>1, <1>3, <1>10, <2>1, EndsGood
<1> QED
  BY <1>5, <1>6, <1>7, <1>8, <1>9, <1>10 DEF Next

LEMMA InitialPathTyped ==
  ASSUME prog \in Programs, NEW s, s = InitialState(prog)
  PROVE  /\ s \in PathState
         /\ s.frames = <<[prev |-> [fn |-> "main", at |-> 0], base |-> 0,
                          fn |-> "main", temps |-> <<>>]>>
         /\ s.pc = [fn |-> "main", at |-> 1]
         /\ s.objects = <<>> /\ s.read = 0 /\ s.cond = Point
         /\ s.heap = InitialHeap(prog)
<1>1. /\ s.frames = <<[prev |-> [fn |-> "main", at |-> 0], base |-> 0,
                       fn |-> "main", temps |-> <<>>]>>
      /\ s.pc = [fn |-> "main", at |-> 1]
      /\ s.objects = <<>> /\ s.read = 0 /\ s.cond = Point
      /\ s.heap = InitialHeap(prog)
  BY DEF InitialState
<1>2. InitialHeap(prog) \in Seq(Object)
  <2>1. prog.globals \in Seq(Name)
    BY ProgramTypes, ProgramConstantsOK
  <2>2. Const(0) \in Scalar
    BY ConstScalar
  <2>3. \A x \in Name :
          [owner |-> x, cells |-> [j \in Index |-> Const(0)]] \in Object
    BY <2>2 DEF Object
  <2>4. Len(prog.globals) \in Nat /\ DOMAIN prog.globals = 1..Len(prog.globals)
        /\ \A i \in 1..Len(prog.globals) : prog.globals[i] \in Name
    BY <2>1
  <2>5. InitialHeap(prog) \in [1..Len(prog.globals) -> Object]
    BY <2>3, <2>4 DEF InitialHeap
  <2> QED
    BY <2>4, <2>5, SeqDef
<1>3. s.frames \in Seq(Frame)
  <2> DEFINE f == [prev |-> [fn |-> "main", at |-> 0], base |-> 0,
                   fn |-> "main", temps |-> <<>>]
             none == <<>>
  <2>1. none \in [{} -> Scalar \cup Address]
    OBVIOUS
  <2>2. none \in Temps
    <3> HIDE DEF none
    <3> QED
      BY <2>1 DEF Temps
  <2>3. [fn |-> "main", at |-> 0] \in Pc
    BY ProgramConstantsOK DEF Pc
  <2>4. f \in Frame
    <3> HIDE DEF Temps
    <3> QED
      BY <2>2, <2>3, ProgramConstantsOK, FrameSet
  <2> HIDE DEF f
  <2>5. <<f>> \in Seq(Frame)
    BY <2>4
  <2> QED
    BY <1>1, <2>5 DEF f
<1>4. Const(0) \in Scalar /\ [fn |-> "main", at |-> 1] \in Pc
      /\ "RUNNING" \in Status
  BY ConstScalar, ProgramConstantsOK DEF Pc, Status
<1>5. <<>> \in Seq(Object)
  OBVIOUS
<1>6. s = [pc |-> s.pc, status |-> "RUNNING", cond |-> Point, read |-> 0,
           frames |-> s.frames, objects |-> <<>>, heap |-> s.heap,
           result |-> Const(0)]
  BY DEF InitialState
<1>7. s \in PathState
  <2> DEFINE pc == s.pc
             frames == s.frames
             heap == s.heap
  <2>1. /\ pc \in Pc /\ "RUNNING" \in Status /\ Point \in SUBSET Point
        /\ frames \in Seq(Frame) /\ <<>> \in Seq(Object)
        /\ heap \in Seq(Object) /\ Const(0) \in Scalar
    BY <1>1, <1>2, <1>3, <1>4, <1>5
  <2>2. s = [pc |-> pc, status |-> "RUNNING", cond |-> Point, read |-> 0,
             frames |-> frames, objects |-> <<>>, heap |-> heap,
             result |-> Const(0)]
    BY <1>6
  <2> HIDE DEF pc, frames, heap
  <2> QED
    BY <2>1, <2>2 DEF PathState
<1> QED
  BY <1>1, <1>7

LEMMA InitialPathGood ==
  ASSUME prog \in Programs, NEW s, s = InitialState(prog)
  PROVE  PathGood(s)
<1> DEFINE f == [prev |-> [fn |-> "main", at |-> 0], base |-> 0,
                 fn |-> "main", temps |-> <<>>]
<1>1. /\ s \in PathState /\ s.frames = <<f>> /\ s.pc = [fn |-> "main", at |-> 1]
      /\ s.objects = <<>> /\ s.read = 0 /\ s.cond = Point
      /\ s.heap = InitialHeap(prog)
  BY InitialPathTyped
<1>2. Len(s.frames) = 1 /\ DOMAIN s.frames = {1} /\ s.frames[1] = f
      /\ s.frames # <<>> /\ Len(s.objects) = 0
  BY <1>1
<1>3. f.fn = "main" /\ f.base = 0 /\ f.temps = <<>> /\ DOMAIN f.temps = {}
  OBVIOUS
<1> HIDE DEF f
<1>4. Point # {}
  <2>1. PICK v \in Val : TRUE
    BY ProgramConstantsOK
  <2>2. [k \in 1..Inputs |-> v] \in Point
    BY <2>1 DEF Point
  <2> QED
    BY <2>2
<1>5. GlobalsKept(s)
  BY <1>1 DEF GlobalsKept, GlobalNames, InitialHeap
<1>6. Place(s, 1) = s.pc /\ EndOf(s, 1) = 0
  BY <1>2 DEF Place, EndOf
<1>7. 1 \in DOMAIN prog.code["main"] /\ prog.params["main"] = <<>>
  <2>1. prog.code["main"] \in Seq(Instr) /\ prog.code["main"] # <<>>
        /\ prog.params["main"] = <<>>
    BY ProgramTypes, ProgramForm, ProgramConstantsOK
  <2>2. Len(prog.code["main"]) \in Nat \ {0}
    BY <2>1, EmptySeq, LenProperties
  <2> QED
    BY <2>1, <2>2, LenProperties
<1>8. OnTrack(s, 1)
  BY <1>1, <1>2, <1>3, <1>6, <1>7 DEF OnTrack, Code
<1>9. BasesOK(s, 1)
  BY <1>2, <1>3 DEF BasesOK
<1>10. TempsOK(s, 1)
  BY <1>2, <1>3 DEF TempsOK
<1>11. NamesOK(s, 1)
  <2> SUFFICES ASSUME NEW x \in Name,
                      Available(prog, s.frames[1].fn, Place(s, 1).at, x)
               PROVE  HasObject(s, 1, x)
    BY DEF NamesOK
  <2>1. Available(prog, "main", 1, x)
    BY <1>1, <1>2, <1>3, <1>6
  <2>2. x \in Takes(prog, "main") \cup GlobalNames(prog)
    BY <2>1, AvailableFirst
  <2>3. Takes(prog, "main") = {}
    BY <1>7 DEF Takes
  <2> QED
    BY <2>2, <2>3, <1>5 DEF HasObject, HeapNames, GlobalsKept
<1>12. ObjectsOfFrame(s, 1)
  BY <1>2, <1>3, <1>6 DEF ObjectsOfFrame
<1>13. FrameGood(s, 1)
  BY <1>8, <1>9, <1>10, <1>11, <1>12 DEF FrameGood
<1> QED
  BY <1>1, <1>2, <1>4, <1>5, <1>13, ProgramConstantsOK DEF PathGood

LEMMA InitMemory ==
  ASSUME Init
  PROVE  MemoryInv
<1>1. prog \in Programs /\ states = <<InitialState(prog)>>
      /\ ended = {} /\ cache = <<>> /\ visited = {}
  BY DEF Init
<1>2. Paths = {InitialState(prog)}
  <2> DEFINE s == InitialState(prog)
  <2>1. states = <<s>>
    BY <1>1
  <2> HIDE DEF s
  <2>2. DOMAIN states = {1} /\ states[1] = s
    BY <2>1
  <2> QED
    BY <2>2 DEF Paths, s
<1>3. PathGood(InitialState(prog))
  BY <1>1, InitialPathGood
<1>4. CacheOK /\ EndedOK
  BY <1>1 DEF CacheOK, EndedOK
<1> QED
  BY <1>1, <1>2, <1>3, <1>4 DEF MemoryInv

(***************************************************************************)
(* What the invariant says.                                                *)
(***************************************************************************)
LEMMA MemoryTyped ==
  ASSUME MemoryInv
  PROVE  TypeOK
<1>1. ASSUME NEW s \in Paths
      PROVE  PathOK(s)
  <2>1. s \in PathState /\ s.read \in 0..Inputs /\ s.frames # <<>>
    BY DEF MemoryInv, PathGood
  <2>2. /\ s.pc \in Pc /\ s.status \in Status /\ s.cond \in SUBSET Point
        /\ s.frames \in Seq(Frame) /\ s.objects \in Seq(Object)
        /\ s.heap \in Seq(Object) /\ s.result \in Scalar
    BY <2>1 DEF PathState
  <2>3. ASSUME NEW f \in Frame
        PROVE  FrameOK(f)
    <3>1. /\ f.prev \in Pc /\ f.base \in Nat /\ f.fn \in Func
          /\ DOMAIN f.temps \in SUBSET Name
          /\ f.temps \in [DOMAIN f.temps -> Scalar \cup Address]
      BY FrameFields
    <3> HIDE DEF Scalar, Address
    <3>2. \A x \in DOMAIN f.temps : f.temps[x] \in Scalar \cup Address
      BY <3>1
    <3> QED
      BY <3>1, <3>2 DEF FrameOK
  <2>4. \A i \in DOMAIN s.frames : FrameOK(s.frames[i])
    <3>1. \A i \in DOMAIN s.frames : s.frames[i] \in Frame
      BY <2>2, LenProperties, ElementOfSeq
    <3> QED
      BY <3>1, <2>3
  <2>5. \A objects \in Seq(Object) : ObjectsOK(objects)
    <3> SUFFICES ASSUME NEW objects \in Seq(Object), NEW k \in DOMAIN objects
                 PROVE  /\ objects[k].owner \in Name
                        /\ objects[k].cells \in [Index -> Scalar]
      BY DEF ObjectsOK
    <3>1. objects[k] \in Object
      BY LenProperties, ElementOfSeq
    <3> QED
      BY <3>1 DEF Object
  <2> QED
    BY <2>1, <2>2, <2>4, <2>5 DEF PathOK
<1> QED
  BY <1>1 DEF MemoryInv, TypeOK, EndedOK, CacheOK, Ints

LEMMA MemorySound ==
  ASSUME MemoryInv
  PROVE  FramesSound
<1> SUFFICES ASSUME NEW s \in Paths, NEW i \in DOMAIN s.frames
             PROVE  LET f == s.frames[i]
                    IN  /\ f.base <= EndOf(s, i)
                        /\ \A k \in (f.base + 1)..EndOf(s, i) :
                             LET x == s.objects[k].owner
                             IN  /\ x \in DOMAIN f.temps
                                 /\ f.temps[x] = [loc |-> "STACK", base |-> k,
                                                  off |-> Const(0)]
                        /\ \A x \in DOMAIN f.temps :
                             LET v == f.temps[x]
                             IN  v \notin Scalar =>
                                   v.base <= IF v.loc = "STACK" THEN EndOf(s, i)
                                                                ELSE Len(s.heap)
  BY DEF FramesSound, LocalsOfFrames, NoDanglingPointer
<1> DEFINE f == s.frames[i]
<1>1. PathGood(s) /\ FrameGood(s, i) /\ prog \in Programs
  BY DEF MemoryInv, PathGood
<1>2. DOMAIN s.frames = 1..Len(s.frames) /\ Len(s.frames) \in Nat
  BY <1>1, TopFrame
<1>3. f.base <= EndOf(s, i)
  BY <1>1, <1>2 DEF FrameGood, BasesOK, EndOf
<1>4. \A k \in (f.base + 1)..EndOf(s, i) :
        LET x == s.objects[k].owner
        IN  /\ x \in DOMAIN f.temps
            /\ f.temps[x] = [loc |-> "STACK", base |-> k, off |-> Const(0)]
  BY <1>1 DEF FrameGood, ObjectsOfFrame, Allocated
<1>5. ASSUME NEW x \in DOMAIN f.temps, f.temps[x] \notin Scalar
      PROVE  f.temps[x].base <= IF f.temps[x].loc = "STACK" THEN EndOf(s, i)
                                                            ELSE Len(s.heap)
  <2>1. Reaches(s, i, f.temps[x])
    BY <1>1, <1>5 DEF FrameGood, TempsOK
  <2> QED
    BY <2>1 DEF Reaches
<1> HIDE DEF f
<1>6. \A x \in DOMAIN f.temps :
        LET v == f.temps[x]
        IN  v \notin Scalar => v.base <= IF v.loc = "STACK" THEN EndOf(s, i)
                                                            ELSE Len(s.heap)
  BY <1>5
<1> QED
  BY <1>3, <1>4, <1>6 DEF f

THEOREM MemoryIsSound == Spec => [](Worklist /\ MemoryInv)
<1>1. Init => Worklist /\ MemoryInv
  BY InitIInv, InitMemory DEF IInv
<1>2. Spec => []IInv
  <2>1. Init => IInv
    BY InitIInv
  <2>2. IInv /\ [Next]_vars => IInv'
    BY NextKeepsIInv
  <2> QED
    BY <2>1, <2>2, PTL DEF Spec
<1>3. IInv => Worklist
  BY DEF IInv
<1>4. Worklist /\ MemoryInv /\ [Next]_vars => MemoryInv'
  BY NextKeepsMemory
<1> QED
  BY <1>1, <1>2, <1>3, <1>4, PTL DEF Spec

\* Whatever program is verified, the engine keeps each variable within its
\* type: every instruction leaves a program counter inside the function of
\* the top frame, temporaries that are integers or addresses, and whole
\* objects in MStack and Memory (AInstruction.cpp), and what
\* AInstructionReturn::cache_func_value puts in the cache is an int.
THEOREM TypesHold == Spec => []TypeOK
<1>1. Worklist /\ MemoryInv => TypeOK
  BY MemoryTyped
<1> QED
  BY <1>1, MemoryIsSound, PTL

\* For all programs, recursive ones too, and however deep the calls:
\* push_frame and pop_frame of MStack keep the objects of each activation
\* apart, each one within the range of the activation whose alloca made it and
\* which still has its address, and no activation holds a pointer to an object
\* that a return removed.
THEOREM FramesAreSound == Spec => []FramesSound
<1>1. Worklist /\ MemoryInv => FramesSound
  BY MemorySound
<1> QED
  BY <1>1, MemoryIsSound, PTL

(***************************************************************************)
(* The semantics: sequences, runs, and what one step of an execution does. *)
(***************************************************************************)
\* A sequence of whatever.
IsSeq(s) == \E T : s \in Seq(T)

LEMMA SeqAppended ==
  ASSUME NEW s, IsSeq(s), NEW x
  PROVE  LET t == Append(s, x)
         IN  /\ IsSeq(t) /\ Len(s) \in Nat /\ Len(t) = Len(s) + 1
             /\ \A i \in 1..Len(s) : t[i] = s[i]
             /\ t[Len(s) + 1] = x
<1> DEFINE t == Append(s, x)
<1>1. PICK T : s \in Seq(T)
  BY DEF IsSeq
<1> DEFINE U == T \cup {x}
<1>2. s \in Seq(U) /\ x \in U
  BY <1>1, SeqMonotonic
<1> HIDE DEF U
<1>3. /\ t \in Seq(U) /\ Len(s) \in Nat /\ Len(t) = Len(s) + 1
      /\ \A i \in 1..Len(s) : t[i] = s[i]
      /\ t[Len(s) + 1] = x
  BY <1>2, AppendProperties, LenProperties
<1> QED
  BY <1>3 DEF IsSeq

\* The sequence s with x at k.
Changed(s, k, x) == [s EXCEPT ![k] = x]
LEMMA SeqChanged ==
  ASSUME NEW s, IsSeq(s), NEW x, NEW k \in 1..Len(s)
  PROVE  LET t == Changed(s, k, x)
         IN  /\ IsSeq(t) /\ Len(t) = Len(s)
             /\ \A i \in 1..Len(s) : t[i] = IF i = k THEN x ELSE s[i]
<1> DEFINE t == [s EXCEPT ![k] = x]
<1>1. PICK T : s \in Seq(T)
  BY DEF IsSeq
<1> DEFINE U == T \cup {x}
<1>2. s \in Seq(U) /\ x \in U
  BY <1>1, SeqMonotonic
<1> HIDE DEF U
<1>3. t \in Seq(U) /\ Len(t) = Len(s)
      /\ \A i \in 1..Len(s) : t[i] = IF i = k THEN x ELSE s[i]
  BY <1>2, ExceptSeq, LenProperties
<1>4. Changed(s, k, x) = t
  BY DEF Changed
<1> HIDE DEF t
<1> QED
  BY <1>3, <1>4 DEF IsSeq

LEMMA SeqFront ==
  ASSUME NEW s, IsSeq(s), NEW n, n = Len(s), n \in Nat \ {0}
  PROVE  LET t == SubSeq(s, 1, n - 1)
         IN  IsSeq(t) /\ Len(t) = n - 1 /\ \A i \in 1..(n - 1) : t[i] = s[i]
<1>1. PICK T : s \in Seq(T)
  BY DEF IsSeq
<1> DEFINE t == SubSeq(s, 1, n - 1)
<1>2. 1 \in 1..(n + 1) /\ n - 1 \in 1..n \cup {0} /\ n - 1 \in 0..n
  OBVIOUS
<1>3. t \in Seq(T) /\ Len(t) = n - 1 /\ \A i \in 1..(n - 1) : t[i] = s[i]
  BY <1>1, <1>2, SubSeqProperties
<1> QED
  BY <1>3 DEF IsSeq

LEMMA SeqShape ==
  ASSUME NEW s, IsSeq(s)
  PROVE  Len(s) \in Nat /\ DOMAIN s = 1..Len(s)
BY LenProperties DEF IsSeq

\* What follows the configuration d of an execution.
After(P, p, d) == IF d.how = "runs" THEN Execute(P, p, d) ELSE d

\* Run is the recursive function it is written as.
LEMMA RunIs ==
  ASSUME NEW P, NEW p, NEW c
  PROVE  /\ Run(P, p, c)[0] = c
         /\ \A k \in 1..Steps : Run(P, p, c)[k] = After(P, p, Run(P, p, c)[k - 1])
<1> DEFINE Follow(d) == IF d.how = "runs" THEN Execute(P, p, d) ELSE d
           Obeys(k, g) == g = [n \in 0..k |-> IF n = 0 THEN c ELSE Follow(g[n - 1])]
           S == {k \in 0..Steps : \E g : Obeys(k, g)}
           chosen == CHOOSE g : Obeys(Steps, g)
<1>1. Run(P, p, c) = chosen
  BY DEF Run
<1>2. Steps \in Nat
  BY ProgramConstantsOK
<1> HIDE DEF Follow
<1>3. 0 \in S
  <2> DEFINE h == [n \in 0..0 |-> c]
  <2>1. Obeys(0, h)
    OBVIOUS
  <2> HIDE DEF h, Obeys
  <2> QED
    BY <2>1, <1>2
<1>4. ASSUME NEW k \in 0..(Steps - 1), k \in S
      PROVE  k + 1 \in S
  <2>1. PICK g : Obeys(k, g)
    BY <1>4
  <2> DEFINE h == [n \in 0..(k + 1) |-> IF n <= k THEN g[n] ELSE Follow(g[k])]
  <2>2. \A n \in 0..k : h[n] = g[n]
    BY <1>2
  <2>3. \A n \in 0..k : g[n] = IF n = 0 THEN c ELSE Follow(g[n - 1])
    BY <2>1
  <2>4. ASSUME NEW n \in 0..(k + 1)
        PROVE  h[n] = IF n = 0 THEN c ELSE Follow(h[n - 1])
    <3>1. CASE n <= k
      <4>1. n \in 0..k /\ (n # 0 => n - 1 \in 0..k)
        BY <3>1, <1>2
      <4> HIDE DEF h
      <4> QED
        BY <4>1, <2>2, <2>3
    <3>2. CASE n = k + 1
      <4>1. h[n] = Follow(g[k]) /\ n # 0 /\ n - 1 = k /\ k \in 0..k
        BY <3>2, <1>2
      <4>2. h[n - 1] = g[k]
        BY <4>1, <2>2
      <4> HIDE DEF h
      <4> QED
        BY <4>1, <4>2
    <3> QED
      BY <3>1, <3>2, <1>2
  <2>5. h = [n \in 0..(k + 1) |-> IF n = 0 THEN c ELSE Follow(h[n - 1])]
    <3>1. h = [n \in 0..(k + 1) |-> h[n]]
      OBVIOUS
    <3> HIDE DEF h
    <3> QED
      BY <3>1, <2>4
  <2> HIDE DEF h
  <2>6. Obeys(k + 1, h) /\ k + 1 \in 0..Steps
    BY <2>5, <1>2
  <2> QED
    BY <2>6
<1>5. Steps \in S
  <2> HIDE DEF S
  <2>1. 0..Steps \subseteq S
    BY <1>2, <1>3, <1>4, Induction!InductionUpTo
  <2> QED
    BY <2>1, <1>2
<1>6. Obeys(Steps, chosen)
  <2>1. \E g : Obeys(Steps, g)
    BY <1>5
  <2> HIDE DEF Obeys
  <2> QED
    BY <2>1
<1>7. \A k \in 0..Steps : chosen[k] = IF k = 0 THEN c ELSE Follow(chosen[k - 1])
  <2> HIDE DEF chosen
  <2> QED
    BY <1>6
<1>8. 0 \in 0..Steps /\ \A k \in 1..Steps : k \in 0..Steps /\ k # 0
  BY <1>2
<1> HIDE DEF chosen
<1> QED
  BY <1>1, <1>7, <1>8 DEF After, Follow

\* An execution that has ended stays as it is.
LEMMA RunStays ==
  ASSUME NEW P, NEW p, NEW c, NEW k \in 0..Steps,
         Run(P, p, c)[k].how # "runs"
  PROVE  Final(P, p, c) = Run(P, p, c)[k]
<1> DEFINE run == Run(P, p, c)
           n == Steps - k
           S == {j \in 0..n : run[k + j] = run[k]}
<1>1. n \in Nat /\ Steps \in Nat /\ k + n = Steps /\ k + 0 = k
  BY ProgramConstantsOK
<1>2. 0 \in S
  BY <1>1
<1>3. ASSUME NEW j \in 0..(n - 1), j \in S
      PROVE  j + 1 \in S
  <2>1. k + (j + 1) \in 1..Steps /\ (k + (j + 1)) - 1 = k + j /\ j + 1 \in 0..n
    BY <1>1
  <2>2. run[k + (j + 1)] = After(P, p, run[k + j])
    BY <2>1, RunIs
  <2>3. run[k + j] = run[k]
    BY <1>3
  <2> HIDE DEF run
  <2>4. run[k + (j + 1)] = run[k]
    BY <2>2, <2>3 DEF After, run
  <2> QED
    BY <2>1, <2>4
<1>4. n \in S
  <2> HIDE DEF S, n
  <2>1. 0..n \subseteq S
    BY <1>1, <1>2, <1>3, Induction!InductionUpTo
  <2> QED
    BY <2>1, <1>1
<1> QED
  BY <1>1, <1>4 DEF Final

(***************************************************************************)
(* One step of an execution.                                               *)
(***************************************************************************)
Configuration(F, r, S) ==
  [frames |-> F, read |-> r, how |-> "runs", value |-> 0, store |-> S]
\* An activation has its fields.
Active(f) == f = [fn |-> f.fn, at |-> f.at, env |-> f.env]
Activations(F) == /\ IsSeq(F) /\ Len(F) \in 1..Len(F)
                  /\ \A i \in 1..Len(F) : Active(F[i])
\* What an operand is worth: a name, or a constant.
Value(env, x) == IF x \in Name THEN env[x] ELSE x
\* The instruction at which the last of the activations F is, and its operands.
Current(P, F) == P.code[F[Len(F)].fn][F[Len(F)].at]
OperandIn(P, F, k) == Value(F[Len(F)].env, Current(P, F).args[k])
\* The last activation goes on at k; or after x got the value w.
GoneTo(F, k) ==
  [F EXCEPT ![Len(F)] = [fn |-> F[Len(F)].fn, at |-> k, env |-> F[Len(F)].env]]
Given(F, x, w) ==
  [F EXCEPT ![Len(F)] = [fn |-> F[Len(F)].fn, at |-> F[Len(F)].at + 1,
                         env |-> Put(F[Len(F)].env, x, w)]]
\* A call starts an activation; a store changes the object of an address.
Called(P, F) ==
  Append(F, Activation(P, Current(P, F).fn,
                       [i \in DOMAIN Current(P, F).args |-> OperandIn(P, F, i)]))
Written(S, a, v) == [S EXCEPT ![a.obj] = [S[a.obj] EXCEPT ![a.off] = v]]

\* The same for the configuration c and its activation n.
MovedAt(c, n, k) == [c EXCEPT !.frames[n].at = k]
SetAt(c, n, x, w) ==
  [c EXCEPT !.frames[n].at = @ + 1, !.frames[n].env = Put(@, x, w)]

LEMMA ActivationAt ==
  ASSUME NEW F, NEW r, NEW S, Activations(F), NEW x, NEW w
  PROVE  /\ SetAt(Configuration(F, r, S), Len(F), x, w) = Configuration(Given(F, x, w), r, S)
         /\ \A k : MovedAt(Configuration(F, r, S), Len(F), k) = Configuration(GoneTo(F, k), r, S)
<1> SUFFICES ASSUME NEW c, c = Configuration(F, r, S), NEW n, n = Len(F)
             PROVE  /\ SetAt(c, n, x, w) = Configuration(Given(F, x, w), r, S)
                    /\ \A k : MovedAt(c, n, k) = Configuration(GoneTo(F, k), r, S)
  OBVIOUS
<1> DEFINE f == F[n]
           Go(k) == [F EXCEPT ![n] = [fn |-> f.fn, at |-> k, env |-> f.env]]
           G == [F EXCEPT ![n] = [fn |-> f.fn, at |-> f.at + 1, env |-> Put(f.env, x, w)]]
<1>0. Given(F, x, w) = G /\ \A k : GoneTo(F, k) = Go(k)
  BY DEF Given, GoneTo
<1>1. n \in DOMAIN F
  BY SeqShape DEF Activations
<1>2. c.frames = F
  BY DEF Configuration
<1>3. f = [fn |-> f.fn, at |-> f.at, env |-> f.env]
  BY DEF Activations, Active
<1> DEFINE With(H) == [c EXCEPT !.frames = H]
<1>4. \A H : With(H) = Configuration(H, r, S)
  BY DEF Configuration
<1>5. \A k : MovedAt(c, n, k) = With([F EXCEPT ![n] = [f EXCEPT !.at = k]])
  BY <1>2 DEF MovedAt
<1> HIDE DEF With
<1>6. \A k : [f EXCEPT !.at = k] = [fn |-> f.fn, at |-> k, env |-> f.env]
  BY <1>3
<1>7. \A k : MovedAt(c, n, k) = Configuration(Go(k), r, S)
  <2> TAKE k
  <2>1. [F EXCEPT ![n] = [f EXCEPT !.at = k]] = Go(k)
    BY <1>6
  <2>2. MovedAt(c, n, k) = With(Go(k))
    BY <1>5, <2>1
  <2> HIDE DEF Go
  <2>3. With(Go(k)) = Configuration(Go(k), r, S)
    BY <1>4
  <2> QED
    BY <2>2, <2>3
<1>9. [c EXCEPT !.frames[n].at = @ + 1, !.frames[n].env = Put(@, x, w)]
        = Configuration(G, r, S)
  <2> DEFINE k == f.at + 1
             e == Put(f.env, x, w)
             H == Go(k)
             d == Configuration(H, r, S)
  <2>1. d.frames = H /\ H[n] = [fn |-> f.fn, at |-> k, env |-> f.env] /\ H[n].env = f.env
    BY <1>1 DEF Configuration
  <2>2. [c EXCEPT !.frames[n].at = @ + 1, !.frames[n].env = Put(@, x, w)]
          = [c EXCEPT !.frames[n].at = k, !.frames[n].env = e]
    BY <1>2
  <2>3. [c EXCEPT !.frames[n].at = k] = d
    BY <1>7 DEF MovedAt
  <2> HIDE DEF k, e, d
  <2>4. [c EXCEPT !.frames[n].at = k, !.frames[n].env = e] = [d EXCEPT !.frames[n].env = e]
    BY <2>3
  <2> HIDE DEF H
  <2>5. [d EXCEPT !.frames[n].env = e]
          = [d EXCEPT !.frames = [H EXCEPT ![n] = [H[n] EXCEPT !.env = e]]]
    BY <2>1
  <2>6. [H[n] EXCEPT !.env = e] = [fn |-> f.fn, at |-> k, env |-> e]
    BY <2>1
  <2>7. \A v : [H EXCEPT ![n] = v] = [F EXCEPT ![n] = v]
    BY DEF H
  <2>8. \A K : [d EXCEPT !.frames = K] = Configuration(K, r, S)
    BY DEF Configuration, d
  <2>9. [H EXCEPT ![n] = [H[n] EXCEPT !.env = e]] = G
    BY <2>6, <2>7 DEF k, e
  <2> HIDE DEF G
  <2> QED
    BY <2>2, <2>4, <2>5, <2>8, <2>9
<1>10. SetAt(c, n, x, w) = [c EXCEPT !.frames[n].at = @ + 1, !.frames[n].env = Put(@, x, w)]
  BY DEF SetAt
<1> HIDE DEF Go, G, f
<1> QED
  BY <1>0, <1>7, <1>9, <1>10

\* The instruction makes the value w and leaves memory alone.
Makes(P, F, S, w) ==
  LET op == Current(P, F).op
      A(k) == OperandIn(P, F, k)
  IN  \/ op = "add" /\ w = A(1) + A(2)
      \/ op = "sub" /\ w = A(1) - A(2)
      \/ op = "gep" /\ w = Pointer(A(1).obj, A(1).off + A(2))
      \/ op = "load" /\ w = S[A(1).obj][A(1).off]

LEMMA ExecuteMakes ==
  ASSUME NEW P, NEW p, NEW c, NEW w, Makes(P, c.frames, c.store, w)
  PROVE  Execute(P, p, c) = SetAt(c, Len(c.frames), Current(P, c.frames).dst, w)
<1> DEFINE F == c.frames
           op == Current(P, F).op
           A(k) == OperandIn(P, F, k)
<1>1. CASE op = "add" /\ w = A(1) + A(2)
  BY <1>1 DEF Execute, OperandIn, Value, Current, SetAt
<1>2. CASE op = "sub" /\ w = A(1) - A(2)
  BY <1>2 DEF Execute, OperandIn, Value, Current, SetAt
<1>3. CASE op = "gep" /\ w = Pointer(A(1).obj, A(1).off + A(2))
  BY <1>3 DEF Execute, OperandIn, Value, Current, SetAt
<1>4. CASE op = "load" /\ w = c.store[A(1).obj][A(1).off]
  BY <1>4 DEF Execute, OperandIn, Value, Current, SetAt
<1> QED
  BY <1>1, <1>2, <1>3, <1>4 DEF Makes

LEMMA StepMakes ==
  ASSUME NEW P, NEW p, NEW F, NEW r, NEW S, Activations(F), NEW w, Makes(P, F, S, w)
  PROVE  Execute(P, p, Configuration(F, r, S))
           = Configuration(Given(F, Current(P, F).dst, w), r, S)
<1> DEFINE c == Configuration(F, r, S)
<1>1. c.frames = F /\ c.store = S
  BY DEF Configuration
<1>2. SetAt(c, Len(F), Current(P, F).dst, w) = Configuration(Given(F, Current(P, F).dst, w), r, S)
  BY ActivationAt
<1> HIDE DEF c
<1>3. Makes(P, c.frames, c.store, w)
  BY <1>1
<1>4. Execute(P, p, c) = SetAt(c, Len(c.frames), Current(P, c.frames).dst, w)
  BY <1>3, ExecuteMakes
<1> QED
  BY <1>1, <1>2, <1>4 DEF c

\* The instructions that make a value and change more than the activation.
LEMMA ExecuteInput ==
  ASSUME NEW P, NEW p, NEW c, Current(P, c.frames).op = "input"
  PROVE  Execute(P, p, c) =
           [SetAt(c, Len(c.frames), Current(P, c.frames).dst, p[c.read + 1]) EXCEPT
              !.read = @ + 1]
BY DEF Execute, Current, SetAt

LEMMA StepInput ==
  ASSUME NEW P, NEW p, NEW F, NEW r, NEW S, Activations(F), Current(P, F).op = "input"
  PROVE  Execute(P, p, Configuration(F, r, S))
           = Configuration(Given(F, Current(P, F).dst, p[r + 1]), r + 1, S)
<1> DEFINE c == Configuration(F, r, S)
           G == Given(F, Current(P, F).dst, p[r + 1])
<1>1. c.frames = F /\ c.read = r
  BY DEF Configuration
<1>2. SetAt(c, Len(F), Current(P, F).dst, p[r + 1]) = Configuration(G, r, S)
  BY ActivationAt
<1>3. [Configuration(G, r, S) EXCEPT !.read = @ + 1] = Configuration(G, r + 1, S)
  <2> HIDE DEF G
  <2> QED
    BY DEF Configuration
<1> HIDE DEF c, G
<1>4. Current(P, c.frames).op = "input"
  BY <1>1
<1>5. Execute(P, p, c) =
        [SetAt(c, Len(c.frames), Current(P, c.frames).dst, p[c.read + 1]) EXCEPT
           !.read = @ + 1]
  BY <1>4, ExecuteInput
<1>6. Execute(P, p, c) = [Configuration(G, r, S) EXCEPT !.read = @ + 1]
  BY <1>1, <1>2, <1>5
<1> QED
  BY <1>3, <1>6 DEF c, G

LEMMA ExecuteAlloca ==
  ASSUME NEW P, NEW p, NEW c, Current(P, c.frames).op = "alloca"
  PROVE  Execute(P, p, c) =
           [SetAt(c, Len(c.frames), Current(P, c.frames).dst,
                 Pointer(Len(c.store) + 1, 0)) EXCEPT !.store = Append(@, Fresh)]
BY DEF Execute, Current, SetAt

LEMMA StepAlloca ==
  ASSUME NEW P, NEW p, NEW F, NEW r, NEW S, Activations(F), Current(P, F).op = "alloca"
  PROVE  Execute(P, p, Configuration(F, r, S))
           = Configuration(Given(F, Current(P, F).dst, Pointer(Len(S) + 1, 0)), r,
                           Append(S, Fresh))
<1> DEFINE c == Configuration(F, r, S)
           w == Pointer(Len(S) + 1, 0)
           G == Given(F, Current(P, F).dst, w)
<1>1. c.frames = F /\ c.store = S
  BY DEF Configuration
<1>2. SetAt(c, Len(F), Current(P, F).dst, w) = Configuration(G, r, S)
  BY ActivationAt
<1>3. [Configuration(G, r, S) EXCEPT !.store = Append(@, Fresh)]
        = Configuration(G, r, Append(S, Fresh))
  <2> HIDE DEF G
  <2> QED
    BY SMTT(90) DEF Configuration
<1> HIDE DEF c, G
<1>4. Current(P, c.frames).op = "alloca"
  BY <1>1
<1>5. Execute(P, p, c) =
        [SetAt(c, Len(c.frames), Current(P, c.frames).dst,
              Pointer(Len(c.store) + 1, 0)) EXCEPT !.store = Append(@, Fresh)]
  BY <1>4, ExecuteAlloca
<1>6. Execute(P, p, c) = [Configuration(G, r, S) EXCEPT !.store = Append(@, Fresh)]
  BY <1>1, <1>2, <1>5
<1> QED
  BY <1>3, <1>6 DEF c, G

\* The instructions that move the activation; a store also changes a cell.
StoredAt(c, a, v) == [c EXCEPT !.store[a.obj][a.off] = v]
LEMMA ExecuteStore ==
  ASSUME NEW P, NEW p, NEW c, Current(P, c.frames).op = "store"
  PROVE  Execute(P, p, c) =
           StoredAt(MovedAt(c, Len(c.frames), c.frames[Len(c.frames)].at + 1),
                    OperandIn(P, c.frames, 1), OperandIn(P, c.frames, 2))
BY DEF Execute, OperandIn, Value, Current, MovedAt, StoredAt

LEMMA StepStore ==
  ASSUME NEW P, NEW p, NEW F, NEW r, NEW S, Activations(F), Current(P, F).op = "store"
  PROVE  Execute(P, p, Configuration(F, r, S))
           = Configuration(GoneTo(F, F[Len(F)].at + 1), r,
                           Written(S, OperandIn(P, F, 1), OperandIn(P, F, 2)))
<1> DEFINE c == Configuration(F, r, S)
           k == F[Len(F)].at + 1
           G == GoneTo(F, k)
           a == OperandIn(P, F, 1)
           b == OperandIn(P, F, 2)
<1>1. c.frames = F /\ c.store = S
  BY DEF Configuration
<1>2. MovedAt(c, Len(F), k) = Configuration(G, r, S)
  BY ActivationAt
<1>3. StoredAt(Configuration(G, r, S), a, b) = Configuration(G, r, Written(S, a, b))
  <2> DEFINE d == Configuration(G, r, S)
             W == Written(S, a, b)
             With(V) == [d EXCEPT !.store = V]
  <2> HIDE DEF G, a, b
  <2>1. d.store = S /\ \A V : With(V) = Configuration(G, r, V)
    BY DEF Configuration
  <2> HIDE DEF d
  <2>2. StoredAt(d, a, b) = With(W)
    BY <2>1 DEF StoredAt, Written
  <2> HIDE DEF W, With
  <2>3. With(W) = Configuration(G, r, W)
    BY <2>1
  <2>4. StoredAt(d, a, b) = Configuration(G, r, W)
    BY <2>2, <2>3
  <2> QED
    BY <2>4 DEF d, W
<1> HIDE DEF c
<1>4. Current(P, c.frames).op = "store"
  BY <1>1
<1>5. Execute(P, p, c) =
        StoredAt(MovedAt(c, Len(c.frames), c.frames[Len(c.frames)].at + 1),
                 OperandIn(P, c.frames, 1), OperandIn(P, c.frames, 2))
  BY <1>4, ExecuteStore
<1>6. Execute(P, p, c) = StoredAt(Configuration(G, r, S), a, b)
  BY <1>1, <1>2, <1>5
<1> QED
  BY <1>3, <1>6 DEF c

LEMMA ExecuteBranch ==
  ASSUME NEW P, NEW p, NEW c, Current(P, c.frames).op = "branch"
  PROVE  Execute(P, p, c) =
           MovedAt(c, Len(c.frames), IF OperandIn(P, c.frames, 1) # 0
                                    THEN c.frames[Len(c.frames)].at + 1
                                    ELSE Current(P, c.frames).to)
<1>1. CASE OperandIn(P, c.frames, 1) # 0
  BY <1>1 DEF Execute, OperandIn, Value, Current, MovedAt
<1>2. CASE OperandIn(P, c.frames, 1) = 0
  BY <1>2 DEF Execute, OperandIn, Value, Current, MovedAt
<1> QED
  BY <1>1, <1>2

LEMMA StepBranch ==
  ASSUME NEW P, NEW p, NEW F, NEW r, NEW S, Activations(F), Current(P, F).op = "branch"
  PROVE  Execute(P, p, Configuration(F, r, S))
           = Configuration(GoneTo(F, IF OperandIn(P, F, 1) # 0 THEN F[Len(F)].at + 1
                                                             ELSE Current(P, F).to), r, S)
<1> DEFINE c == Configuration(F, r, S)
<1>1. c.frames = F
  BY DEF Configuration
<1>2. \A k : MovedAt(c, Len(F), k) = Configuration(GoneTo(F, k), r, S)
  BY ActivationAt
<1> HIDE DEF c
<1>3. Execute(P, p, c) =
        MovedAt(c, Len(F), IF OperandIn(P, F, 1) # 0 THEN F[Len(F)].at + 1
                                                   ELSE Current(P, F).to)
  BY <1>1, ExecuteBranch
<1> QED
  BY <1>2, <1>3 DEF c

LEMMA StepCall ==
  ASSUME NEW P, NEW p, NEW F, NEW r, NEW S, Activations(F), Current(P, F).op = "call"
  PROVE  Execute(P, p, Configuration(F, r, S)) = Configuration(Called(P, F), r, S)
<1> DEFINE c == Configuration(F, r, S)
<1>1. c.frames = F /\ \A H : [c EXCEPT !.frames = H] = Configuration(H, r, S)
  BY DEF Configuration
<1> HIDE DEF c
<1>2. Current(P, c.frames).op = "call"
  BY <1>1
<1>3. Execute(P, p, c) = [c EXCEPT !.frames = Called(P, c.frames)]
  BY <1>2 DEF Execute, Called, OperandIn, Value, Current
<1> QED
  BY <1>1, <1>3 DEF c

LEMMA StepError ==
  ASSUME NEW P, NEW p, NEW F, NEW r, NEW S, Activations(F), Current(P, F).op = "error"
  PROVE  Execute(P, p, Configuration(F, r, S)).how = "error"
<1> DEFINE c == Configuration(F, r, S)
<1>1. c.frames = F /\ [c EXCEPT !.how = "error"].how = "error"
  BY DEF Configuration
<1> HIDE DEF c
<1>2. Current(P, c.frames).op = "error"
  BY <1>1
<1>3. Execute(P, p, c) = [c EXCEPT !.how = "error"]
  BY <1>2 DEF Execute, Current
<1> QED
  BY <1>1, <1>3 DEF c

LEMMA ExecuteLast ==
  ASSUME NEW P, NEW p, NEW c, Current(P, c.frames).op = "return", Len(c.frames) = 1,
         ~(Len(c.frames) > 1)
  PROVE  Execute(P, p, c) =
           EndedWith(c, IF Current(P, c.frames).args = <<>> THEN 0
                        ELSE OperandIn(P, c.frames, 1))
BY DEF Execute, OperandIn, Value, Current

LEMMA StepLast ==
  ASSUME NEW P, NEW p, NEW F, NEW r, NEW S, Activations(F), Current(P, F).op = "return",
         Len(F) = 1
  PROVE  /\ Execute(P, p, Configuration(F, r, S)).how = "returns"
         /\ Execute(P, p, Configuration(F, r, S)).value
              = IF Current(P, F).args = <<>> THEN 0 ELSE OperandIn(P, F, 1)
<1> DEFINE c == Configuration(F, r, S)
           v == IF Current(P, F).args = <<>> THEN 0 ELSE OperandIn(P, F, 1)
<1>1. c.frames = F /\ \A w : EndedWith(c, w).how = "returns" /\ EndedWith(c, w).value = w
  BY DEF Configuration, EndedWith
<1> HIDE DEF c
<1>2. Current(P, c.frames).op = "return" /\ Len(c.frames) = 1 /\ ~(Len(c.frames) > 1)
  <2>1. ~(1 > 1)
    OBVIOUS
  <2> QED
    BY <1>1, <2>1, ZenonT(90)
<1>3. Execute(P, p, c) =
        EndedWith(c, IF Current(P, c.frames).args = <<>> THEN 0
                     ELSE OperandIn(P, c.frames, 1))
  BY <1>2, ExecuteLast
<1>4. Execute(P, p, c) = EndedWith(c, v)
  BY <1>1, <1>3
<1> HIDE DEF v
<1>5. Execute(P, p, c).how = "returns" /\ Execute(P, p, c).value = v
  BY <1>1, <1>4
<1> QED
  BY <1>5 DEF c, v

\* The activation m goes on behind its call, and its name gets the value v.
BackAt(G, m) == [G EXCEPT ![m].at = @ + 1]
BackWith(G, m, x, v) == [[G EXCEPT ![m].at = @ + 1] EXCEPT ![m].env = Put(@, x, v)]
LEMMA BackIs ==
  ASSUME NEW G, Activations(G), NEW x, NEW v
  PROVE  /\ BackAt(G, Len(G)) = GoneTo(G, G[Len(G)].at + 1)
         /\ BackWith(G, Len(G), x, v) = Given(G, x, v)
<1> SUFFICES ASSUME NEW m, m = Len(G)
             PROVE  /\ BackAt(G, m) = GoneTo(G, G[m].at + 1)
                    /\ BackWith(G, m, x, v) = Given(G, x, v)
  OBVIOUS
<1> DEFINE g == G[m]
           k == g.at + 1
           B == [G EXCEPT ![m] = [fn |-> g.fn, at |-> k, env |-> g.env]]
           e == Put(g.env, x, v)
           W == [G EXCEPT ![m] = [fn |-> g.fn, at |-> k, env |-> e]]
<1>0. GoneTo(G, k) = B /\ Given(G, x, v) = W
  BY DEF GoneTo, Given
<1>1. m \in DOMAIN G
  BY SeqShape DEF Activations
<1>2. g = [fn |-> g.fn, at |-> g.at, env |-> g.env]
  BY DEF Activations, Active
<1>3. [g EXCEPT !.at = k] = [fn |-> g.fn, at |-> k, env |-> g.env]
  <2> HIDE DEF k
  <2> QED
    BY <1>2
<1>4. [G EXCEPT ![m].at = @ + 1] = B
  <2>1. [G EXCEPT ![m].at = @ + 1] = [G EXCEPT ![m] = [g EXCEPT !.at = k]]
    OBVIOUS
  <2> QED
    BY <2>1, <1>3
<1>5. B[m] = [fn |-> g.fn, at |-> k, env |-> g.env]
  BY <1>1
<1>6. \A u : [B EXCEPT ![m] = u] = [G EXCEPT ![m] = u]
  OBVIOUS
<1>7. [B EXCEPT ![m].env = Put(@, x, v)] = W
  <2> HIDE DEF B, k
  <2>1. [B EXCEPT ![m].env = Put(@, x, v)] = [B EXCEPT ![m] = [B[m] EXCEPT !.env = Put(B[m].env, x, v)]]
    OBVIOUS
  <2>2. [B[m] EXCEPT !.env = Put(B[m].env, x, v)] = [fn |-> g.fn, at |-> k, env |-> e]
    BY <1>5
  <2> QED
    BY <2>1, <2>2, <1>6
<1>8. BackWith(G, m, x, v) = W
  <2>1. BackWith(G, m, x, v) = [[G EXCEPT ![m].at = @ + 1] EXCEPT ![m].env = Put(@, x, v)]
    BY DEF BackWith
  <2> HIDE DEF W, B
  <2> QED
    BY <2>1, <1>4, <1>7
<1>9. BackAt(G, m) = B
  BY <1>4 DEF BackAt
<1> HIDE DEF B, W
<1> QED
  BY <1>0, <1>8, <1>9

\* The configuration c with other activations.
Standing(c, F) == [c EXCEPT !.frames = F]
LEMMA ExecuteBack ==
  ASSUME NEW P, NEW p, NEW c, Len(c.frames) # 1, Len(c.frames) > 1,
         Current(P, c.frames).op = "return"
  PROVE  Execute(P, p, c) =
           Standing(c, LET n == Len(c.frames)
                           G == SubSeq(c.frames, 1, n - 1)
                           site == P.code[c.frames[n - 1].fn][c.frames[n - 1].at]
                       IN  IF Current(P, c.frames).args = <<>> THEN BackAt(G, n - 1)
                           ELSE BackWith(G, n - 1, site.dst, OperandIn(P, c.frames, 1)))
BY DEF Execute, OperandIn, Value, Current, BackAt, BackWith, Standing

Caller(F) == SubSeq(F, 1, Len(F) - 1)
LEMMA StepBack ==
  ASSUME NEW P, NEW p, NEW F, NEW r, NEW S, Activations(F), Current(P, F).op = "return",
         Len(F) > 1
  PROVE  LET G == Caller(F)
         IN  /\ Activations(G) /\ Len(G) = Len(F) - 1
             /\ \A i \in 1..Len(G) : G[i] = F[i]
             /\ Current(P, F).args = <<>> =>
                  Execute(P, p, Configuration(F, r, S))
                    = Configuration(GoneTo(G, G[Len(G)].at + 1), r, S)
             /\ Current(P, F).args # <<>> =>
                  Execute(P, p, Configuration(F, r, S))
                    = Configuration(Given(G, Current(P, G).dst, OperandIn(P, F, 1)), r, S)
<1> DEFINE c == Configuration(F, r, S)
           n == Len(F)
           m == n - 1
           G == Caller(F)
<1>1. c.frames = F /\ \A H : Standing(c, H) = Configuration(H, r, S)
  BY DEF Configuration, Standing
<1>2. n \in Nat /\ IsSeq(F)
  BY SeqShape DEF Activations
<1>3. IsSeq(G) /\ Len(G) = m /\ \A i \in 1..m : G[i] = F[i]
  <2>1. n \in Nat \ {0}
    BY <1>2
  <2> QED
    BY <1>2, <2>1, SeqFront DEF Caller
<1>4. Activations(G) /\ m \in 1..m
  BY <1>2, <1>3 DEF Activations
<1>5. G = SubSeq(F, 1, n - 1)
  BY DEF Caller
<1> HIDE DEF c, G
<1>6. Len(c.frames) # 1 /\ Len(c.frames) > 1 /\ Current(P, c.frames).op = "return"
  <2>1. n # 1 /\ n > 1
    <3>1. n > 1
      OBVIOUS
    <3> HIDE DEF n
    <3> QED
      BY <3>1, <1>2
  <2> HIDE DEF n
  <2> QED
    BY <2>1, <1>1 DEF n
<1>7. Execute(P, p, c) =
        Standing(c, LET site == P.code[F[m].fn][F[m].at]
                    IN  IF Current(P, F).args = <<>> THEN BackAt(G, m)
                        ELSE BackWith(G, m, site.dst, OperandIn(P, F, 1)))
  BY <1>1, <1>5, <1>6, ExecuteBack, SMTT(90)
<1>8. Current(P, G) = P.code[F[m].fn][F[m].at]
  BY <1>3, <1>4 DEF Current
<1>9. \A v : /\ BackAt(G, m) = GoneTo(G, G[m].at + 1)
             /\ BackWith(G, m, Current(P, G).dst, v) = Given(G, Current(P, G).dst, v)
  BY <1>3, <1>4, BackIs
<1>10. Execute(P, p, c) =
         Configuration(IF Current(P, F).args = <<>> THEN BackAt(G, m)
                       ELSE BackWith(G, m, Current(P, G).dst, OperandIn(P, F, 1)), r, S)
  BY <1>1, <1>7, <1>8
<1> QED
  BY <1>3, <1>4, <1>9, <1>10 DEF c, G

(***************************************************************************)
(* A path and the execution of its program on one of its inputs.           *)
(***************************************************************************)
\* The objects of a path are objects of the execution: its globals are the
\* first ones, and m numbers the local ones.
Pool(s, loc) == IF loc = "STACK" THEN s.objects ELSE s.heap
Slot(m, loc, k) == IF loc = "STACK" THEN m[k] ELSE k
\* The pointer that the address a is on input p.
Refers(a, p, m) == Pointer(Slot(m, a.loc, a.base), a.off[p])
\* What x is on input p in activation i.
Meant(s, p, i, x, m) ==
  LET temps == s.frames[i].temps
  IN  IF x \notin DOMAIN temps THEN Global(prog, x)
      ELSE IF x \in Pointers(s, i) THEN Refers(temps[x], p, m) ELSE temps[x][p]
\* The names an activation can use have the values their expressions denote,
\* and each cell of an object has the value of its expression.
Visible(s, i) == DOMAIN s.frames[i].temps \cup GlobalNames(prog)
FrameMirrored(s, p, i, f, m) ==
  /\ f.fn = s.frames[i].fn
  /\ f.at = Place(s, i).at
  /\ \A x \in Visible(s, i) : x \in DOMAIN f.env /\ f.env[x] = Meant(s, p, i, x, m)
ObjectMirrored(s, p, S, m, loc, k) ==
  LET o == Slot(m, loc, k)
  IN  /\ o \in 1..Len(S)
      /\ DOMAIN S[o] = Index
      /\ \A i \in Index : S[o][i] = Pool(s, loc)[k].cells[i][p]
Places(s, loc) == 1..Len(Pool(s, loc))
\* No two objects of the path are one of the execution.
ObjectsApart(s, m) ==
  \A l1, l2 \in Loc : \A k1 \in Places(s, l1), k2 \in Places(s, l2) :
    Slot(m, l1, k1) = Slot(m, l2, k2) => l1 = l2 /\ k1 = k2
StoreMirrored(s, p, S, m) ==
  /\ IsSeq(S)
  /\ \A loc \in Loc : \A k \in Places(s, loc) : ObjectMirrored(s, p, S, m, loc, k)
  /\ ObjectsApart(s, m)
\* Memory starts with the globals, in their order.
GlobalsFirst(s) == /\ Len(s.heap) = Len(prog.globals)
                   /\ \A j \in 1..Len(s.heap) : s.heap[j].owner = prog.globals[j]
\* The path s is, on input p, the execution with the activations F and the
\* memory S; result_value is as it was.
Mirrored(s, p, F, S, m) ==
  /\ Activations(F)
  /\ Len(F) = Len(s.frames)
  /\ \A i \in 1..Len(F) : FrameMirrored(s, p, i, F[i], m)
  /\ StoreMirrored(s, p, S, m)
  /\ GlobalsFirst(s)
  /\ s.result[p] = 0
\* The path s is in the configuration c on input p.
Alike(s, p, c) ==
  \E F, S, m : c = Configuration(F, s.read, S) /\ Mirrored(s, p, F, S, m)

\* The kinds of the operands.
LEMMA Kinds ==
  ASSUME prog \in Programs, NEW s, PathGood(s), NEW op, op = Ins(s).op
  PROVE  LET OK(k) == IntegerAt(prog, s.pc.fn, s.pc.at, Ins(s).args[k])
             At(k) == PointerAt(prog, s.pc.fn, s.pc.at, Ins(s).args[k])
         IN  /\ op \in {"add", "sub", "branch"} => OK(1)
             /\ op \in {"add", "sub", "gep", "store"} => OK(2)
             /\ op \in {"gep", "store", "load"} => At(1)
             /\ op = "return" /\ Returned(s) => OK(1)
             /\ op = "call" => \A k \in DOMAIN Ins(s).args :
                                 IF k \in PointerArgs(s) THEN At(k) ELSE OK(k)
<1> DEFINE f == s.pc.fn
           i == s.pc.at
           args == Ins(s).args
           OK(k) == IntegerAt(prog, f, i, args[k])
           At(k) == PointerAt(prog, f, i, args[k])
<1>1. OperandsOK(prog, f, i) /\ Ins(s) = prog.code[f][i]
  BY Instruction, TopFrame
<1> HIDE DEF f, i
<1>2. op \in {"add", "sub", "branch"} => OK(1)
  BY <1>1 DEF OperandsOK
<1>3. op \in {"add", "sub", "gep", "store"} => OK(2)
  BY <1>1 DEF OperandsOK
<1>4. op \in {"gep", "store", "load"} => At(1)
  BY <1>1 DEF OperandsOK
<1>5. op = "return" /\ Returned(s) => OK(1)
  BY <1>1 DEF OperandsOK, Returned
<1>6. op = "call" => \A k \in DOMAIN args :
         IF prog.params[Ins(s).fn][k] \in prog.pointers THEN At(k) ELSE OK(k)
  BY <1>1 DEF OperandsOK
<1>7. \A k \in DOMAIN args :
         k \in PointerArgs(s) <=> prog.params[Ins(s).fn][k] \in prog.pointers
  BY DEF PointerArgs, Callee
<1> QED
  BY <1>2, <1>3, <1>4, <1>5, <1>6, <1>7 DEF f, i

\* The activation in which the path executes is the last one.
LEMMA TopMirrored ==
  ASSUME prog \in Programs, NEW s, PathGood(s), NEW p, NEW F, NEW S, NEW m,
         Mirrored(s, p, F, S, m), NEW n, n = Len(F)
  PROVE  /\ n = Len(s.frames)
         /\ n \in 1..n
         /\ FrameMirrored(s, p, n, F[n], m)
         /\ F[n].fn = s.pc.fn
         /\ F[n].at = s.pc.at
         /\ Current(prog, F) = Ins(s)
<1>1. n = Len(s.frames) /\ Activations(F)
  BY DEF Mirrored
<1>2. n \in Nat \ {0} /\ Place(s, n) = s.pc /\ s.pc.fn = s.frames[n].fn
  BY <1>1, TopFrame
<1>3. FrameMirrored(s, p, n, F[n], m)
  BY <1>2 DEF Mirrored
<1>4. F[n].fn = s.pc.fn /\ F[n].at = s.pc.at
  BY <1>2, <1>3 DEF FrameMirrored
<1> QED
  BY <1>1, <1>2, <1>3, <1>4 DEF Current, Ins

\* A global of a direct program is one object.
LEMMA GlobalFound ==
  ASSUME NEW s, GlobalsFirst(s), OneObjectEach(prog), s.heap \in Seq(Object),
         prog.globals \in Seq(Name), NEW x \in GlobalNames(prog)
  PROVE  Global(prog, x) = Pointer(Find(s.heap, x), 0)
<1> DEFINE G == prog.globals
           j == CHOOSE i \in DOMAIN G : G[i] = x
           Owns(i) == s.heap[i].owner = x /\ \A l \in DOMAIN s.heap : s.heap[l].owner = x => i <= l
           k == CHOOSE i \in DOMAIN s.heap : Owns(i)
<1>1. DOMAIN G = 1..Len(G) /\ DOMAIN s.heap = 1..Len(s.heap) /\ Len(G) \in Nat
  BY LenProperties
<1>2. DOMAIN s.heap = DOMAIN G /\ \A i \in DOMAIN G : s.heap[i].owner = G[i]
  BY <1>1 DEF GlobalsFirst
<1>3. j \in DOMAIN G /\ G[j] = x
  BY DEF GlobalNames
<1>4. \A i \in DOMAIN G : G[i] = x => i = j
  <2> HIDE DEF j
  <2> QED
    BY <1>3 DEF OneObjectEach
<1>5. Owns(j)
  <2> HIDE DEF j
  <2> QED
    BY <1>1, <1>2, <1>3, <1>4
<1>6. k \in DOMAIN s.heap /\ Owns(k)
  <2>1. \E i \in DOMAIN s.heap : Owns(i)
    BY <1>2, <1>3, <1>5
  <2> HIDE DEF Owns
  <2> QED
    BY <2>1
<1>7. k = j
  <2> HIDE DEF k, j
  <2> QED
    BY <1>2, <1>4, <1>6
<1>8. Find(s.heap, x) = k /\ Global(prog, x) = Pointer(j, 0)
  BY DEF Find, Global
<1> HIDE DEF k, j
<1> QED
  BY <1>7, <1>8

\* In a direct program only globals are found on the heap by name.
LEMMA HeapIsGlobals ==
  ASSUME prog \in Programs, OneObjectEach(prog), NEW f \in Func
  PROVE  HeapNames(prog, f) = GlobalNames(prog)
<1>1. \A i \in DOMAIN prog.code[f] : prog.code[f][i].op # "malloc"
  BY DEF OneObjectEach
<1>2. Results(prog, f, {"malloc"}) = {}
  BY <1>1 DEF Results
<1> QED
  BY <1>2 DEF HeapNames

\* A name that the path may use has the same value in the execution.
LEMMA NamesMean ==
  ASSUME prog \in Programs, OneObjectEach(prog), NEW s, PathGood(s),
         NEW p \in Point, NEW F, NEW S, NEW m, Mirrored(s, p, F, S, m), NEW x
  PROVE  /\ IntegerAt(prog, s.pc.fn, s.pc.at, x) =>
              Value(F[Len(F)].env, x) = Evaluate(s, x)[p]
         /\ PointerAt(prog, s.pc.fn, s.pc.at, x) =>
              Value(F[Len(F)].env, x) = Refers(PointerOf(s, x), p, m)
<1> DEFINE n == Len(F)
           temps == s.frames[n].temps
<1>1. n = Len(s.frames) /\ FrameMirrored(s, p, n, F[n], m)
  BY TopMirrored
<1>2. /\ Fun(s) = s.frames[n] /\ s.pc.fn = s.frames[n].fn /\ Place(s, n) = s.pc
      /\ Pointers(s, n) = PointerNames(prog, s.pc.fn)
      /\ FrameGood(s, n) /\ s.pc.fn \in Func
      /\ s.heap \in Seq(Object)
  BY <1>1, TopFrame
<1>3. HeapNames(prog, s.pc.fn) = GlobalNames(prog)
  BY <1>2, HeapIsGlobals
<1> HIDE DEF n
<1>4. \A z \in DOMAIN temps \cup GlobalNames(prog) : F[n].env[z] = Meant(s, p, n, z, m)
  BY <1>1 DEF FrameMirrored, Visible
<1>5. ASSUME IntegerAt(prog, s.pc.fn, s.pc.at, x)
      PROVE  Value(F[n].env, x) = Evaluate(s, x)[p]
  <2>1. CASE x \in Name
    <3>1. x \notin PointerNames(prog, s.pc.fn) /\ Available(prog, s.pc.fn, s.pc.at, x)
      BY <1>5, <2>1 DEF IntegerAt
    <3>2. ~HasObject(s, n, x)
      BY <3>1, <1>2 DEF HasObject, PointerNames
    <3>3. x \in DOMAIN temps
      BY <3>1, <3>2, <1>2, <2>1 DEF FrameGood, NamesOK
    <3>4. F[n].env[x] = temps[x][p]
      BY <3>1, <3>3, <1>2, <1>4 DEF Meant
    <3> QED
      BY <3>4, <2>1, <1>2 DEF Value, Evaluate
  <2>2. CASE x \notin Name
    BY <2>2 DEF Value, Evaluate, Const
  <2> QED
    BY <2>1, <2>2
<1>6. ASSUME PointerAt(prog, s.pc.fn, s.pc.at, x)
      PROVE  Value(F[n].env, x) = Refers(PointerOf(s, x), p, m)
  <2>1. /\ x \in Name /\ x \in PointerNames(prog, s.pc.fn)
        /\ Available(prog, s.pc.fn, s.pc.at, x)
    BY <1>6 DEF PointerAt
  <2>2. CASE x \in DOMAIN temps
    <3>1. F[n].env[x] = Refers(temps[x], p, m)
      BY <2>1, <2>2, <1>2, <1>4 DEF Meant
    <3>2. PointerOf(s, x) = temps[x]
      BY <2>2, <1>2 DEF PointerOf
    <3> QED
      BY <3>1, <3>2, <2>1 DEF Value
  <2>3. CASE x \notin DOMAIN temps
    <3>1. HasObject(s, n, x)
      BY <1>2, <2>1, <2>3 DEF FrameGood, NamesOK
    <3>2. x \in GlobalNames(prog)
      BY <3>1, <1>2, <1>3 DEF HasObject
    <3>3. F[n].env[x] = Global(prog, x)
      BY <2>3, <3>2, <1>4 DEF Meant
    <3>4. Global(prog, x) = Pointer(Find(s.heap, x), 0)
      <4>1. GlobalsFirst(s)
        BY DEF Mirrored
      <4>2. prog.globals \in Seq(Name)
        BY <1>2, ProgramTypes
      <4> QED
        BY <3>2, <4>1, <4>2, <1>2, GlobalFound
    <3>5. PointerOf(s, x) = [loc |-> "HEAP", base |-> Find(s.heap, x), off |-> Const(0)]
      BY <2>3, <1>2 DEF PointerOf
    <3>6. Const(0)[p] = 0
      BY DEF Const
    <3>7. Refers(PointerOf(s, x), p, m) = Pointer(Find(s.heap, x), 0)
      BY <3>5, <3>6 DEF Refers, Slot
    <3> QED
      BY <2>1, <3>3, <3>4, <3>7 DEF Value
  <2> QED
    BY <2>2, <2>3
<1> QED
  BY <1>5, <1>6 DEF n

\* The operands of the next instruction have the same values.
LEMMA OperandsMean ==
  ASSUME prog \in Programs, OneObjectEach(prog), NEW s, PathGood(s),
         NEW p \in Point, NEW F, NEW S, NEW m, Mirrored(s, p, F, S, m),
         NEW op, op = Ins(s).op
  PROVE  /\ op \in {"add", "sub", "branch"} => OperandIn(prog, F, 1) = Arg(s, 1)[p]
         /\ op \in {"add", "sub", "gep", "store"} => OperandIn(prog, F, 2) = Arg(s, 2)[p]
         /\ op \in {"gep", "store", "load"} => OperandIn(prog, F, 1) = Refers(Target(s), p, m)
         /\ op = "return" /\ Returned(s) => OperandIn(prog, F, 1) = Arg(s, 1)[p]
         /\ op = "call" => \A k \in DOMAIN Ins(s).args :
              OperandIn(prog, F, k) = IF k \in PointerArgs(s)
                                     THEN Refers(PointerOf(s, Ins(s).args[k]), p, m)
                                     ELSE Arg(s, k)[p]
<1>1. \A k : /\ IntegerAt(prog, s.pc.fn, s.pc.at, Ins(s).args[k]) =>
                  OperandIn(prog, F, k) = Arg(s, k)[p]
             /\ PointerAt(prog, s.pc.fn, s.pc.at, Ins(s).args[k]) =>
                  OperandIn(prog, F, k) = Refers(PointerOf(s, Ins(s).args[k]), p, m)
  <2> TAKE k
  <2>1. Current(prog, F) = Ins(s)
    BY TopMirrored
  <2>2. OperandIn(prog, F, k) = Value(F[Len(F)].env, Ins(s).args[k])
    BY <2>1 DEF OperandIn
  <2> QED
    BY <2>2, NamesMean DEF Arg
<1> QED
  BY <1>1, Kinds DEF Target

\* The activations G are F with another last one.
LastIs(G, F, g) ==
  /\ Activations(G) /\ Len(G) = Len(F)
  /\ \A i \in 1..Len(F) : i # Len(F) => G[i] = F[i]
  /\ G[Len(F)] = g
\* An activation with these fields.
Activated(fn, at, env) == [fn |-> fn, at |-> at, env |-> env]

LEMMA ActivatedFields ==
  ASSUME NEW fn, NEW at, NEW env
  PROVE  LET f == Activated(fn, at, env)
         IN  Active(f) /\ f.fn = fn /\ f.at = at /\ f.env = env
BY DEF Activated, Active

LEMMA LastChanged ==
  ASSUME NEW F, Activations(F), NEW g, Active(g),
         NEW G, G = Changed(F, Len(F), g)
  PROVE  LastIs(G, F, g)
<1>1. IsSeq(F) /\ Len(F) \in 1..Len(F) /\ \A i \in 1..Len(F) : Active(F[i])
  BY DEF Activations
<1>2. IsSeq(G) /\ Len(G) = Len(F) /\ \A i \in 1..Len(F) : G[i] = IF i = Len(F) THEN g ELSE F[i]
  BY <1>1, SeqChanged
<1>3. \A i \in 1..Len(F) : Active(G[i])
  BY <1>1, <1>2
<1> QED
  BY <1>1, <1>2, <1>3 DEF LastIs, Activations

LEMMA GivenIs ==
  ASSUME NEW F, Activations(F), NEW x, NEW w
  PROVE  LastIs(Given(F, x, w), F,
                Activated(F[Len(F)].fn, F[Len(F)].at + 1, Put(F[Len(F)].env, x, w)))
<1> DEFINE g == Activated(F[Len(F)].fn, F[Len(F)].at + 1, Put(F[Len(F)].env, x, w))
<1>1. Given(F, x, w) = Changed(F, Len(F), g)
  BY DEF Given, Activated, Changed
<1>2. Active(g)
  BY ActivatedFields
<1> HIDE DEF g
<1> QED
  BY <1>1, <1>2, LastChanged DEF g

LEMMA GoneToIs ==
  ASSUME NEW F, Activations(F), NEW k
  PROVE  LastIs(GoneTo(F, k), F, Activated(F[Len(F)].fn, k, F[Len(F)].env))
<1> DEFINE g == Activated(F[Len(F)].fn, k, F[Len(F)].env)
<1>1. GoneTo(F, k) = Changed(F, Len(F), g)
  BY DEF GoneTo, Activated, Changed
<1>2. Active(g)
  BY ActivatedFields
<1> HIDE DEF g
<1> QED
  BY <1>1, <1>2, LastChanged DEF g

\* The numbers of the first b local objects are the same.
SameUpTo(m, k, b) == \A i \in 1..b : k[i] = m[i]

LEMMA SameMeaning ==
  ASSUME NEW s, NEW t, NEW p, NEW i, NEW m, NEW l, TempsOK(s, i),
         SameUpTo(m, l, EndOf(s, i)), Pointers(t, i) = Pointers(s, i),
         NEW x, x \in DOMAIN s.frames[i].temps,
         x \in DOMAIN t.frames[i].temps,
         t.frames[i].temps[x] = s.frames[i].temps[x]
  PROVE  Meant(t, p, i, x, l) = Meant(s, p, i, x, m)
<1> DEFINE v == s.frames[i].temps[x]
<1>1. CASE x \in Pointers(s, i)
  <2>1. v \in Address /\ Reaches(s, i, v)
    BY <1>1 DEF TempsOK
  <2>2. v.loc = "STACK" => l[v.base] = m[v.base]
    BY <2>1 DEF Reaches, SameUpTo
  <2>3. Refers(v, p, l) = Refers(v, p, m)
    BY <2>2 DEF Refers, Slot
  <2> QED
    BY <1>1, <2>3 DEF Meant
<1>2. CASE x \notin Pointers(s, i)
  BY <1>2 DEF Meant
<1> QED
  BY <1>1, <1>2

\* An activation that a step leaves alone.
LEMMA FrameStays ==
  ASSUME NEW s, NEW t, NEW p, NEW i, NEW f, NEW m, NEW l,
         FrameMirrored(s, p, i, f, m), TempsOK(s, i), SameUpTo(m, l, EndOf(s, i)),
         t.frames[i].fn = s.frames[i].fn, t.frames[i].temps = s.frames[i].temps,
         NEW g, g.fn = f.fn, g.env = f.env, g.at = Place(t, i).at
  PROVE  FrameMirrored(t, p, i, g, l)
<1>1. Pointers(t, i) = Pointers(s, i) /\ Visible(t, i) = Visible(s, i)
  BY DEF Pointers, Visible
<1>2. \A x \in Visible(s, i) : x \in DOMAIN f.env /\ f.env[x] = Meant(s, p, i, x, m)
  BY DEF FrameMirrored
<1>3. \A x \in Visible(s, i) : Meant(t, p, i, x, l) = Meant(s, p, i, x, m)
  <2> TAKE x \in Visible(s, i)
  <2>1. CASE x \in DOMAIN s.frames[i].temps
    BY <1>1, <2>1, SameMeaning
  <2>2. CASE x \notin DOMAIN s.frames[i].temps
    BY <2>2 DEF Meant
  <2> QED
    BY <2>1, <2>2
<1> QED
  BY <1>1, <1>2, <1>3 DEF FrameMirrored

\* An activation whose name x got a value.
LEMMA FrameSetBy ==
  ASSUME NEW s, NEW t, NEW p, NEW i, NEW f, NEW m, NEW l,
         FrameMirrored(s, p, i, f, m), TempsOK(s, i), SameUpTo(m, l, EndOf(s, i)),
         NEW x, NEW v, NEW w,
         t.frames[i].fn = s.frames[i].fn,
         t.frames[i].temps = Put(s.frames[i].temps, x, v),
         x \in Pointers(s, i) => w = Refers(v, p, l),
         x \notin Pointers(s, i) => w = v[p],
         NEW g, g.fn = f.fn, g.env = Put(f.env, x, w), g.at = Place(t, i).at
  PROVE  FrameMirrored(t, p, i, g, l)
<1> DEFINE old == s.frames[i].temps
           new == t.frames[i].temps
<1>1. Pointers(t, i) = Pointers(s, i)
  BY DEF Pointers
<1>2. \A z \in Visible(s, i) : z \in DOMAIN f.env /\ f.env[z] = Meant(s, p, i, z, m)
  BY DEF FrameMirrored
<1>3. /\ DOMAIN new = DOMAIN old \cup {x} /\ new[x] = v
      /\ \A z \in DOMAIN old : z # x => new[z] = old[z]
  BY DEF Put
<1>4. /\ DOMAIN g.env = DOMAIN f.env \cup {x} /\ g.env[x] = w
      /\ \A z \in DOMAIN f.env : z # x => g.env[z] = f.env[z]
  BY DEF Put
<1>5. Visible(t, i) = Visible(s, i) \cup {x}
  BY <1>3 DEF Visible
<1>6. \A z \in Visible(s, i) : z # x => Meant(t, p, i, z, l) = Meant(s, p, i, z, m)
  <2> TAKE z \in Visible(s, i)
  <2> HAVE z # x
  <2>1. CASE z \in DOMAIN old
    BY <1>1, <1>3, <2>1, SameMeaning
  <2>2. CASE z \notin DOMAIN old
    <3>1. z \notin DOMAIN new
      BY <1>3, <2>2
    <3> QED
      BY <2>2, <3>1 DEF Meant
  <2> QED
    BY <2>1, <2>2
<1>7. Meant(t, p, i, x, l) = w
  BY <1>1, <1>3 DEF Meant
<1>8. g.fn = t.frames[i].fn /\ g.at = Place(t, i).at
  BY DEF FrameMirrored
<1> HIDE DEF old, new
<1>9. \A z \in Visible(t, i) : z \in DOMAIN g.env /\ g.env[z] = Meant(t, p, i, z, l)
  <2> TAKE z \in Visible(t, i)
  <2>1. CASE z = x
    BY <2>1, <1>4, <1>7
  <2>2. CASE z # x
    <3>1. z \in Visible(s, i)
      BY <2>2, <1>5
    <3> QED
      BY <2>2, <3>1, <1>2, <1>4, <1>6
  <2> QED
    BY <2>1, <2>2
<1> QED
  BY <1>8, <1>9 DEF FrameMirrored

\* The objects that an activation can name are among those of the path.
LEMMA EndsWithin ==
  ASSUME prog \in Programs, NEW s, PathGood(s), NEW i \in 1..Len(s.frames)
  PROVE  /\ TempsOK(s, i)
         /\ \A m, l : SameUpTo(m, l, Len(s.objects)) => SameUpTo(m, l, EndOf(s, i))
<1> DEFINE n == Len(s.frames)
<1>1. /\ n \in Nat \ {0} /\ DOMAIN s.frames = 1..n /\ \A j \in 1..n : s.frames[j] \in Frame
      /\ Len(s.objects) \in Nat
  BY TopFrame
<1>2. \A j \in 1..n : FrameGood(s, j)
  BY <1>1 DEF PathGood
<1>3. EndOf(s, i) \in Nat /\ EndOf(s, i) <= Len(s.objects)
  <2>1. CASE i = n
    BY <2>1, <1>1 DEF EndOf
  <2>2. CASE i # n
    <3>1. i + 1 \in 1..n
      BY <2>2, <1>1
    <3>2. s.frames[i + 1].base <= Len(s.objects) /\ s.frames[i + 1].base \in Nat
      BY <3>1, <1>1, <1>2 DEF FrameGood, BasesOK, Frame
    <3> QED
      BY <3>2, <2>2 DEF EndOf
  <2> QED
    BY <2>1, <2>2
<1>4. TempsOK(s, i)
  BY <1>2 DEF FrameGood
<1>5. \A m, l : SameUpTo(m, l, Len(s.objects)) => SameUpTo(m, l, EndOf(s, i))
  <2> TAKE m, l
  <2> HAVE SameUpTo(m, l, Len(s.objects))
  <2>1. \A k \in 1..EndOf(s, i) : k \in 1..Len(s.objects)
    BY <1>1, <1>3
  <2> QED
    BY <2>1 DEF SameUpTo
<1> QED
  BY <1>4, <1>5

\* In the path t the name x of the top frame of s got the value v.
SetBy(s, t, x, v) ==
  LET n == Len(s.frames)
  IN  /\ Len(t.frames) = n
      /\ \A i \in 1..n : i # n => t.frames[i] = s.frames[i]
      /\ t.frames[n].fn = s.frames[n].fn
      /\ t.frames[n].prev = s.frames[n].prev
      /\ t.frames[n].temps = Put(s.frames[n].temps, x, v)
      /\ t.pc.at = s.pc.at + 1
      /\ t.result = s.result
\* The path t goes on at k.
MovedTo(s, t, k) == t.frames = s.frames /\ t.pc.at = k /\ t.result = s.result

LEMMA MirroredSet ==
  ASSUME prog \in Programs, NEW s, PathGood(s), NEW p, NEW F, NEW S, NEW m,
         Mirrored(s, p, F, S, m), NEW t, NEW x, NEW v, SetBy(s, t, x, v),
         NEW T, NEW l, SameUpTo(m, l, Len(s.objects)), StoreMirrored(t, p, T, l),
         GlobalsFirst(t), NEW w,
         x \in PointerNames(prog, s.pc.fn) => w = Refers(v, p, l),
         x \notin PointerNames(prog, s.pc.fn) => w = v[p]
  PROVE  Mirrored(t, p, Given(F, x, w), T, l)
<1> DEFINE n == Len(F)
           G == Given(F, x, w)
           f == F[n]
<1>1. Activations(F) /\ n = Len(s.frames) /\ s.result[p] = 0
      /\ \A i \in 1..n : FrameMirrored(s, p, i, F[i], m)
  BY DEF Mirrored
<1>2. n \in 1..n /\ n \in Nat
  BY <1>1, SeqShape DEF Activations
<1>3. /\ Activations(G) /\ Len(G) = n
      /\ \A i \in 1..n : i # n => G[i] = F[i]
      /\ G[n].fn = f.fn /\ G[n].at = f.at + 1 /\ G[n].env = Put(f.env, x, w)
  BY <1>1, GivenIs, ActivatedFields DEF LastIs
<1> HIDE DEF G
<1>4. /\ Len(t.frames) = n
      /\ \A i \in 1..n : i # n => t.frames[i] = s.frames[i]
      /\ t.frames[n].fn = s.frames[n].fn
      /\ t.frames[n].prev = s.frames[n].prev
      /\ t.frames[n].temps = Put(s.frames[n].temps, x, v)
      /\ t.pc.at = s.pc.at + 1
      /\ t.result = s.result
  BY <1>1 DEF SetBy
<1>5. Pointers(s, n) = PointerNames(prog, s.pc.fn) /\ f.at = s.pc.at
  BY <1>1, <1>2, TopFrame, TopMirrored
<1>6. \A i \in 1..n : TempsOK(s, i) /\ SameUpTo(m, l, EndOf(s, i))
  BY <1>1, EndsWithin
<1> HIDE DEF n
<1>7. FrameMirrored(t, p, n, G[n], l)
  <2>1. G[n].at = Place(t, n).at
    BY <1>3, <1>4, <1>5 DEF Place
  <2>2. /\ x \in Pointers(s, n) => w = Refers(v, p, l)
        /\ x \notin Pointers(s, n) => w = v[p]
    BY <1>5
  <2>4. G[n].fn = f.fn /\ G[n].env = Put(f.env, x, w)
    BY <1>3
  <2>5. /\ t.frames[n].fn = s.frames[n].fn
        /\ t.frames[n].temps = Put(s.frames[n].temps, x, v)
    BY <1>4
  <2>3. FrameMirrored(s, p, n, f, m) /\ TempsOK(s, n) /\ SameUpTo(m, l, EndOf(s, n))
    BY <1>1, <1>2, <1>6
  <2> HIDE DEF f
  <2> QED
    BY <2>1, <2>2, <2>3, <2>4, <2>5, FrameSetBy
<1>8. \A i \in 1..n : i # n => FrameMirrored(t, p, i, G[i], l)
  <2> TAKE i \in 1..n
  <2> HAVE i # n
  <2>1. i + 1 \in 1..n
    BY <1>2
  <2>2. t.frames[i + 1].prev = s.frames[i + 1].prev
    BY <2>1, <1>4
  <2>3. Place(t, i) = Place(s, i)
    BY <2>2, <1>1, <1>4 DEF Place
  <2>4. FrameMirrored(s, p, i, F[i], m) /\ F[i].at = Place(t, i).at /\ G[i] = F[i]
    BY <2>3, <1>1, <1>3 DEF FrameMirrored
  <2>5. t.frames[i].fn = s.frames[i].fn /\ t.frames[i].temps = s.frames[i].temps
    BY <1>4
  <2> QED
    BY <2>4, <2>5, <1>6, FrameStays
<1>9. t.result[p] = 0
  BY <1>1, <1>4
<1> QED
  BY <1>3, <1>4, <1>7, <1>8, <1>9 DEF Mirrored, G, n

LEMMA MirroredMoves ==
  ASSUME prog \in Programs, NEW s, PathGood(s), NEW p, NEW F, NEW S, NEW m,
         Mirrored(s, p, F, S, m), NEW t, NEW k, MovedTo(s, t, k),
         NEW T, StoreMirrored(t, p, T, m), GlobalsFirst(t)
  PROVE  Mirrored(t, p, GoneTo(F, k), T, m)
<1> DEFINE n == Len(F)
           G == GoneTo(F, k)
           f == F[n]
<1>1. Activations(F) /\ n = Len(s.frames) /\ s.result[p] = 0
      /\ \A i \in 1..n : FrameMirrored(s, p, i, F[i], m)
  BY DEF Mirrored
<1>2. n \in 1..n /\ n \in Nat
  BY <1>1, SeqShape DEF Activations
<1>3. /\ Activations(G) /\ Len(G) = n
      /\ \A i \in 1..n : i # n => G[i] = F[i]
      /\ G[n].fn = f.fn /\ G[n].at = k /\ G[n].env = f.env
  BY <1>1, GoneToIs, ActivatedFields DEF LastIs
<1> HIDE DEF G
<1>4. t.frames = s.frames /\ t.pc.at = k /\ t.result = s.result
  BY DEF MovedTo
<1>5. \A i \in 1..n : TempsOK(s, i) /\ SameUpTo(m, m, EndOf(s, i))
  BY <1>1, EndsWithin DEF SameUpTo
<1> HIDE DEF n
<1>6. FrameMirrored(t, p, n, G[n], m)
  <2>1. G[n].at = Place(t, n).at
    BY <1>1, <1>3, <1>4 DEF Place
  <2>2. FrameMirrored(s, p, n, f, m) /\ TempsOK(s, n) /\ SameUpTo(m, m, EndOf(s, n))
    BY <1>1, <1>2, <1>5
  <2>3. t.frames[n].fn = s.frames[n].fn /\ t.frames[n].temps = s.frames[n].temps
    BY <1>4
  <2>4. G[n].fn = f.fn /\ G[n].env = f.env
    BY <1>3
  <2> HIDE DEF f
  <2> QED
    BY <2>1, <2>2, <2>3, <2>4, FrameStays
<1>7. \A i \in 1..n : i # n => FrameMirrored(t, p, i, G[i], m)
  <2> TAKE i \in 1..n
  <2> HAVE i # n
  <2>1. Place(t, i) = Place(s, i)
    BY <1>1, <1>4 DEF Place
  <2>2. FrameMirrored(s, p, i, F[i], m) /\ F[i].at = Place(t, i).at /\ G[i] = F[i]
    BY <2>1, <1>1, <1>3 DEF FrameMirrored
  <2> QED
    BY <2>2, <1>4, <1>5, FrameStays
<1>8. t.result[p] = 0
  BY <1>1, <1>4
<1> QED
  BY <1>1, <1>3, <1>4, <1>6, <1>7, <1>8 DEF Mirrored, G, n

LEMMA StoreSame ==
  ASSUME NEW s, NEW t, NEW p, NEW S, NEW m, StoreMirrored(s, p, S, m), GlobalsFirst(s),
         t.objects = s.objects, t.heap = s.heap
  PROVE  StoreMirrored(t, p, S, m) /\ GlobalsFirst(t)
<1>1. \A loc : Pool(t, loc) = Pool(s, loc) /\ Places(t, loc) = Places(s, loc)
  BY DEF Pool, Places
<1> QED
  BY <1>1 DEF StoreMirrored, ObjectMirrored, ObjectsApart, GlobalsFirst

\* What one input makes of a path and of the execution on it.
Together(s, p, F, S, m) ==
  /\ prog \in Programs /\ OneObjectEach(prog) /\ PathGood(s) /\ p \in Point
  /\ Mirrored(s, p, F, S, m)
  /\ AccessOK(prog, Configuration(F, s.read, S))
NextOf(s, p, F, S) == Execute(prog, p, Configuration(F, s.read, S))

LEMMA TogetherFacts ==
  ASSUME NEW s, NEW p, NEW F, NEW S, NEW m, Together(s, p, F, S, m)
  PROVE  /\ Activations(F) /\ StoreMirrored(s, p, S, m) /\ GlobalsFirst(s)
         /\ SameUpTo(m, m, Len(s.objects))
         /\ Current(prog, F) = Ins(s)
         /\ \A op : op = Ins(s).op =>
              /\ op \in {"gep", "load", "store"} => OperandIn(prog, F, 1) = Refers(Target(s), p, m)
              /\ op = "gep" => Target(s).off[p] = 0
              /\ op \in {"load", "store"} => Target(s).off[p] \in Index
<1>1. Activations(F) /\ StoreMirrored(s, p, S, m) /\ GlobalsFirst(s)
  BY DEF Mirrored, Together
<1>2. SameUpTo(m, m, Len(s.objects))
  BY DEF SameUpTo
<1>3. Current(prog, F) = Ins(s)
  BY TopMirrored DEF Together
<1>4. ASSUME NEW op, op = Ins(s).op, op \in {"gep", "load", "store"}
      PROVE  OperandIn(prog, F, 1) = Refers(Target(s), p, m)
  BY <1>4, OperandsMean DEF Together
<1>5. ASSUME NEW op, op = Ins(s).op, op \in {"gep", "load", "store"}
      PROVE  AddressUsed(prog, Configuration(F, s.read, S)) = Refers(Target(s), p, m)
  <2>1. PointerAt(prog, s.pc.fn, s.pc.at, Ins(s).args[1])
    BY <1>5, Kinds DEF Together
  <2>2. Ins(s).args[1] \in Name
    BY <2>1 DEF PointerAt
  <2>3. Configuration(F, s.read, S).frames = F
    BY DEF Configuration
  <2>4. AddressUsed(prog, Configuration(F, s.read, S)) = F[Len(F)].env[Current(prog, F).args[1]]
    BY <2>3 DEF AddressUsed, Current
  <2>5. OperandIn(prog, F, 1) = F[Len(F)].env[Current(prog, F).args[1]]
    BY <2>2, <1>3 DEF OperandIn, Value
  <2> QED
    BY <2>4, <2>5, <1>4, <1>5
<1>6. /\ Ins(s).op = "gep" => AddressUsed(prog, Configuration(F, s.read, S)).off = 0
      /\ Ins(s).op \in {"load", "store"}
           => AddressUsed(prog, Configuration(F, s.read, S)).off \in Index
  <2>1. Configuration(F, s.read, S).frames = F
    BY DEF Configuration
  <2>2. AccessOK(prog, Configuration(F, s.read, S))
    BY DEF Together
  <2> HIDE <1>3
  <2>3. /\ Current(prog, F).op = "gep" => AddressUsed(prog, Configuration(F, s.read, S)).off = 0
        /\ Current(prog, F).op \in {"load", "store"}
             => AddressUsed(prog, Configuration(F, s.read, S)).off \in Index
    BY <2>1, <2>2 DEF AccessOK, Current
  <2> QED
    BY <2>3, <1>3
<1>7. Refers(Target(s), p, m).off = Target(s).off[p]
  BY DEF Refers, Pointer
<1> QED
  BY <1>1, <1>2, <1>3, <1>4, <1>5, <1>6, <1>7

\* The instructions that only make a value.
LEMMA ResultSets ==
  ASSUME prog \in Programs, NEW s, PathGood(s), NEW v \in Scalar \cup Address,
         NEW r, r = Result(s, v)
  PROVE  /\ SetBy(s, r, Ins(s).dst, v)
         /\ r.objects = s.objects /\ r.heap = s.heap /\ r.read = s.read
<1>1. IsResult(r, s, v, Len(s.frames))
  BY ResultFields
<1>2. Len(s.frames) \in Nat \ {0}
  BY TopFrame
<1> QED
  BY <1>1, <1>2 DEF IsResult, SetBy

LEMMA ResultAlike ==
  ASSUME NEW s, NEW p, NEW F, NEW S, NEW m, Together(s, p, F, S, m),
         NEW v \in Scalar \cup Address, NEW w, Makes(prog, F, S, w),
         Ins(s).dst \in PointerNames(prog, s.pc.fn) => w = Refers(v, p, m),
         Ins(s).dst \notin PointerNames(prog, s.pc.fn) => w = v[p]
  PROVE  Alike(Result(s, v), p, NextOf(s, p, F, S))
<1> DEFINE r == Result(s, v)
           G == Given(F, Ins(s).dst, w)
<1>1. /\ Activations(F) /\ StoreMirrored(s, p, S, m) /\ GlobalsFirst(s)
      /\ SameUpTo(m, m, Len(s.objects))
      /\ Current(prog, F) = Ins(s)
  BY TogetherFacts
<1>2. SetBy(s, r, Ins(s).dst, v) /\ r.objects = s.objects /\ r.heap = s.heap /\ r.read = s.read
  BY ResultSets DEF Together
<1> HIDE DEF r
<1>3. StoreMirrored(r, p, S, m) /\ GlobalsFirst(r)
  BY <1>1, <1>2, StoreSame
<1>4. Mirrored(r, p, G, S, m)
  BY <1>1, <1>2, <1>3, MirroredSet DEF Together
<1>5. NextOf(s, p, F, S) = Configuration(G, s.read, S)
  BY <1>1, StepMakes DEF NextOf
<1> QED
  BY <1>2, <1>4, <1>5 DEF Alike, r

LEMMA ArithmeticAlike ==
  ASSUME NEW s, NEW p, NEW F, NEW S, NEW m, Together(s, p, F, S, m)
  PROVE  /\ Ins(s).op = "add" =>
              Alike(Result(s, [q \in Point |-> Arg(s, 1)[q] + Arg(s, 2)[q]]), p, NextOf(s, p, F, S))
         /\ Ins(s).op = "sub" =>
              Alike(Result(s, [q \in Point |-> Arg(s, 1)[q] - Arg(s, 2)[q]]), p, NextOf(s, p, F, S))
<1> DEFINE sum == [q \in Point |-> Arg(s, 1)[q] + Arg(s, 2)[q]]
           rest == [q \in Point |-> Arg(s, 1)[q] - Arg(s, 2)[q]]
<1> SUFFICES ASSUME Ins(s).op \in {"add", "sub"}
             PROVE  /\ Ins(s).op = "add" => Alike(Result(s, sum), p, NextOf(s, p, F, S))
                    /\ Ins(s).op = "sub" => Alike(Result(s, rest), p, NextOf(s, p, F, S))
  OBVIOUS
<1>1. Arg(s, 1) \in Scalar /\ Arg(s, 2) \in Scalar
  BY Arguments DEF Together
<1>2. OperandIn(prog, F, 1) = Arg(s, 1)[p] /\ OperandIn(prog, F, 2) = Arg(s, 2)[p]
  BY OperandsMean DEF Together
<1>3. Current(prog, F) = Ins(s)
  BY TogetherFacts
<1>4. Ins(s).dst \notin PointerNames(prog, s.pc.fn)
  BY Instruction DEF Together
<1>5. sum \in Scalar /\ rest \in Scalar
  BY <1>1, SumsScalar
<1>6. sum[p] = Arg(s, 1)[p] + Arg(s, 2)[p] /\ rest[p] = Arg(s, 1)[p] - Arg(s, 2)[p]
  BY DEF Together
<1> HIDE DEF sum, rest
<1>7. /\ Ins(s).op = "add" => Makes(prog, F, S, sum[p])
      /\ Ins(s).op = "sub" => Makes(prog, F, S, rest[p])
  BY <1>2, <1>3, <1>6 DEF Makes
<1> QED
  BY <1>4, <1>5, <1>7, ResultAlike

LEMMA GepAlike ==
  ASSUME NEW s, NEW p, NEW F, NEW S, NEW m, Together(s, p, F, S, m), Ins(s).op = "gep"
  PROVE  Alike(Result(s, [Target(s) EXCEPT !.off = Arg(s, 2)]), p, NextOf(s, p, F, S))
<1> DEFINE a == Target(s)
           v == [a EXCEPT !.off = Arg(s, 2)]
<1>1. Arg(s, 2) \in Scalar /\ AddressIn(s, a)
  BY Arguments DEF Together
<1>2. OperandIn(prog, F, 2) = Arg(s, 2)[p]
  BY OperandsMean DEF Together
<1>3. Current(prog, F) = Ins(s) /\ OperandIn(prog, F, 1) = Refers(a, p, m) /\ a.off[p] = 0
  BY TogetherFacts
<1>4. Ins(s).dst \in PointerNames(prog, s.pc.fn)
  BY Instruction DEF Together
<1>5. a \in Address /\ p \in Point
  BY <1>1 DEF AddressIn, Together
<1> HIDE DEF a
<1>6. v \in Address /\ v.loc = a.loc /\ v.base = a.base /\ v.off = Arg(s, 2)
  BY <1>1, <1>5 DEF Address
<1> HIDE DEF v
<1>7. Refers(v, p, m) = Pointer(Slot(m, a.loc, a.base), Arg(s, 2)[p])
  BY <1>6 DEF Refers
<1>8. /\ Refers(a, p, m).obj = Slot(m, a.loc, a.base) /\ Refers(a, p, m).off = 0
  BY <1>3 DEF Refers, Pointer
<1>9. 0 + Arg(s, 2)[p] = Arg(s, 2)[p]
  BY <1>1, <1>5 DEF Scalar
<1>10. Makes(prog, F, S, Refers(v, p, m))
  BY <1>2, <1>3, <1>7, <1>8, <1>9 DEF Makes
<1> QED
  BY <1>4, <1>6, <1>10, ResultAlike DEF v, a

LEMMA LoadAlike ==
  ASSUME NEW s, NEW p, NEW F, NEW S, NEW m, Together(s, p, F, S, m), Ins(s).op = "load",
         NEW a, a = Target(s)
  PROVE  Alike(Result(s, Read(Pool(s, a.loc)[a.base].cells, a.off)), p, NextOf(s, p, F, S))
<1> DEFINE pool == Pool(s, a.loc)
           cells == pool[a.base].cells
           v == Read(cells, a.off)
           o == Slot(m, a.loc, a.base)
<1>1. AddressIn(s, a)
  BY Arguments DEF Together
<1>2. Current(prog, F) = Ins(s) /\ OperandIn(prog, F, 1) = Refers(a, p, m)
      /\ a.off[p] \in Index /\ StoreMirrored(s, p, S, m)
  BY TogetherFacts
<1>3. Ins(s).dst \notin PointerNames(prog, s.pc.fn)
  BY Instruction DEF Together
<1>4. a.loc \in Loc /\ a.off \in Scalar /\ a.base \in Places(s, a.loc) /\ p \in Point
  BY <1>1 DEF AddressIn, Address, Places, Pool, Together
<1>5. cells \in [Index -> Scalar]
  <2>1. pool \in Seq(Object)
    BY TopFrame DEF Pool, Together
  <2>2. pool[a.base] \in Object
    BY <2>1, <1>4 DEF Places
  <2> QED
    BY <2>2 DEF Object
<1>6. ObjectMirrored(s, p, S, m, a.loc, a.base)
  BY <1>2, <1>4 DEF StoreMirrored
<1>7. S[o][a.off[p]] = cells[a.off[p]][p]
  BY <1>2, <1>6 DEF ObjectMirrored
<1> HIDE DEF cells
<1>8. v \in Scalar /\ v[p] = cells[a.off[p]][p]
  BY <1>2, <1>4, <1>5, CellsTyped DEF Read
<1> HIDE DEF v
<1>9. OperandIn(prog, F, 1).obj = o /\ OperandIn(prog, F, 1).off = a.off[p]
  BY <1>2 DEF Refers, Pointer
<1> HIDE DEF o
<1>10. Makes(prog, F, S, v[p])
  BY <1>2, <1>7, <1>8, <1>9 DEF Makes
<1> QED
  BY <1>3, <1>8, <1>10, ResultAlike DEF v, cells

LEMMA InputAlike ==
  ASSUME NEW s, NEW p, NEW F, NEW S, NEW m, Together(s, p, F, S, m), Ins(s).op = "input",
         s.read < Inputs, NEW v, v = [q \in Point |-> q[s.read + 1]],
         NEW t, t = [Result(s, v) EXCEPT !.read = @ + 1]
  PROVE  Alike(t, p, NextOf(s, p, F, S))
<1> DEFINE r == Result(s, v)
           w == p[s.read + 1]
           G == Given(F, Ins(s).dst, w)
<1>1. /\ Activations(F) /\ StoreMirrored(s, p, S, m) /\ GlobalsFirst(s)
      /\ SameUpTo(m, m, Len(s.objects))
      /\ Current(prog, F) = Ins(s)
  BY TogetherFacts
<1>2. Ins(s).dst \notin PointerNames(prog, s.pc.fn)
  BY Instruction DEF Together
<1>3. v \in Scalar
  <2>1. s.read + 1 \in 1..Inputs
    BY ProgramConstantsOK DEF Together, PathGood
  <2> QED
    BY <2>1, ProgramConstantsOK DEF Point, Scalar
<1>4. v[p] = w
  BY DEF Together
<1>5. SetBy(s, r, Ins(s).dst, v) /\ r.objects = s.objects /\ r.heap = s.heap /\ r.read = s.read
  BY <1>3, ResultSets DEF Together
<1>6. r \in PathState
  BY <1>3, ResultFields DEF Together, IsResult
<1> HIDE DEF r, w
<1>7. /\ t.pc = r.pc /\ t.frames = r.frames /\ t.result = r.result
      /\ t.objects = r.objects /\ t.heap = r.heap /\ t.read = r.read + 1
  BY <1>6 DEF PathState, r
<1>8. SetBy(s, t, Ins(s).dst, v)
  BY <1>5, <1>7 DEF SetBy
<1>9. StoreMirrored(t, p, S, m) /\ GlobalsFirst(t)
  <2>1. t.objects = s.objects /\ t.heap = s.heap
    BY <1>5, <1>7
  <2>2. StoreMirrored(s, p, S, m) /\ GlobalsFirst(s)
    BY <1>1
  <2> QED
    BY ONLY <2>1, <2>2, StoreSame
<1>10. Mirrored(t, p, G, S, m)
  BY <1>1, <1>2, <1>4, <1>8, <1>9, MirroredSet DEF Together
<1>11. NextOf(s, p, F, S) = Configuration(G, s.read + 1, S)
  BY <1>1, StepInput DEF NextOf, w
<1> QED
  BY <1>5, <1>7, <1>10, <1>11 DEF Alike

\* One more object: t has it as the last local one of s, under the number d.
Extended(s, t, p, m, l, d) ==
  LET n == Len(s.objects)
  IN  /\ n \in Nat /\ Len(t.objects) = n + 1 /\ t.heap = s.heap
      /\ \A i \in 1..n : t.objects[i] = s.objects[i]
      /\ \A i \in Index : t.objects[n + 1].cells[i][p] = Undef
      /\ SameUpTo(m, l, n)
      /\ l[n + 1] = d
LEMMA StoreExtended ==
  ASSUME NEW s, NEW t, NEW p, NEW S, NEW m, NEW l, StoreMirrored(s, p, S, m),
         Extended(s, t, p, m, l, Len(S) + 1)
  PROVE  StoreMirrored(t, p, Append(S, Fresh), l)
<1> DEFINE n == Len(s.objects)
           T == Append(S, Fresh)
<1>0. /\ n \in Nat /\ Len(t.objects) = n + 1 /\ t.heap = s.heap
      /\ \A i \in 1..n : t.objects[i] = s.objects[i]
      /\ \A i \in Index : t.objects[n + 1].cells[i][p] = Undef
      /\ SameUpTo(m, l, n)
      /\ l[n + 1] = Len(S) + 1
  BY DEF Extended
<1>1. /\ IsSeq(S) /\ IsSeq(T) /\ Len(S) \in Nat /\ Len(T) = Len(S) + 1
      /\ \A i \in 1..Len(S) : T[i] = S[i]
      /\ T[Len(S) + 1] = Fresh
  BY SeqAppended DEF StoreMirrored
<1>2. DOMAIN Fresh = Index /\ \A i \in Index : Fresh[i] = Undef
  BY DEF Fresh
<1> HIDE DEF T, n
<1> DEFINE Old(loc, k) == /\ k \in Places(s, loc)
                          /\ Slot(l, loc, k) = Slot(m, loc, k)
                          /\ Pool(t, loc)[k] = Pool(s, loc)[k]
                          /\ ObjectMirrored(s, p, S, m, loc, k)
                          /\ Slot(l, loc, k) \in 1..Len(S)
           New(loc, k) == /\ loc = "STACK" /\ k = n + 1
                          /\ Slot(l, loc, k) = Len(S) + 1
<1>3. ASSUME NEW loc \in Loc, NEW k \in Places(t, loc)
      PROVE  Old(loc, k) \/ New(loc, k)
  <2>1. CASE loc = "STACK" /\ k = n + 1
    BY <2>1, <1>0 DEF Slot
  <2>2. CASE loc = "STACK" /\ k # n + 1
    <3>1. k \in 1..n
      BY <2>2, <1>0 DEF Places, Pool
    <3>2. k \in Places(s, loc) /\ Slot(l, loc, k) = Slot(m, loc, k)
          /\ Pool(t, loc)[k] = Pool(s, loc)[k]
      BY <2>2, <3>1, <1>0 DEF Places, Pool, Slot, SameUpTo, n
    <3>3. ObjectMirrored(s, p, S, m, loc, k)
      BY <3>2 DEF StoreMirrored
    <3> QED
      BY <3>2, <3>3 DEF ObjectMirrored
  <2>3. CASE loc # "STACK"
    <3>1. k \in Places(s, loc) /\ Slot(l, loc, k) = Slot(m, loc, k)
          /\ Pool(t, loc)[k] = Pool(s, loc)[k]
      BY <2>3, <1>0 DEF Places, Pool, Slot
    <3>2. ObjectMirrored(s, p, S, m, loc, k)
      BY <3>1 DEF StoreMirrored
    <3> QED
      BY <3>1, <3>2 DEF ObjectMirrored
  <2> QED
    BY <2>1, <2>2, <2>3
<1>4. ASSUME NEW loc \in Loc, NEW k \in Places(t, loc)
      PROVE  ObjectMirrored(t, p, T, l, loc, k)
  <2> DEFINE o == Slot(l, loc, k)
  <2>1. CASE Old(loc, k)
    <3>1. DOMAIN S[o] = Index /\ \A i \in Index : S[o][i] = Pool(t, loc)[k].cells[i][p]
      BY <2>1 DEF ObjectMirrored
    <3>2. o \in 1..Len(T) /\ T[o] = S[o]
      <4>1. o \in 1..Len(S)
        BY <2>1
      <4> HIDE DEF o
      <4> QED
        BY <4>1, <1>1
    <3> HIDE DEF o
    <3> QED
      BY <3>1, <3>2 DEF ObjectMirrored, o
  <2>2. CASE New(loc, k)
    <3>1. o \in 1..Len(T) /\ T[o] = Fresh
      BY <2>2, <1>1
    <3>2. \A i \in Index : Pool(t, loc)[k].cells[i][p] = Undef
      BY <2>2, <1>0 DEF Pool
    <3> HIDE DEF o
    <3> QED
      BY <3>1, <3>2, <1>2 DEF ObjectMirrored, o
  <2> QED
    BY <2>1, <2>2, <1>3
<1>5. ASSUME NEW l1 \in Loc, NEW l2 \in Loc, NEW k1 \in Places(t, l1), NEW k2 \in Places(t, l2),
             Slot(l, l1, k1) = Slot(l, l2, k2)
      PROVE  l1 = l2 /\ k1 = k2
  <2>1. CASE Old(l1, k1) /\ Old(l2, k2)
    <3>1. Slot(m, l1, k1) = Slot(m, l2, k2)
      BY <1>5, <2>1
    <3> QED
      BY <3>1, <2>1 DEF StoreMirrored, ObjectsApart
  <2>2. CASE New(l1, k1) /\ New(l2, k2)
    BY <2>2
  <2>3. ~(Old(l1, k1) /\ New(l2, k2)) /\ ~(New(l1, k1) /\ Old(l2, k2))
    <3>1. Len(S) + 1 \notin 1..Len(S)
      BY <1>1
    <3>2. \A loc, k : /\ Old(loc, k) => Slot(l, loc, k) \in 1..Len(S)
                      /\ New(loc, k) => Slot(l, loc, k) = Len(S) + 1
      OBVIOUS
    <3> HIDE DEF Old, New
    <3> QED
      BY <3>1, <3>2, <1>5
  <2>4. (Old(l1, k1) \/ New(l1, k1)) /\ (Old(l2, k2) \/ New(l2, k2))
    BY <1>3
  <2> HIDE DEF Old, New
  <2> QED
    BY <1>3, <2>1, <2>2, <2>3, <2>4
<1> QED
  BY <1>1, <1>4, <1>5 DEF StoreMirrored, ObjectsApart, T

LEMMA AllocaAlike ==
  ASSUME NEW s, NEW p, NEW F, NEW S, NEW m, Together(s, p, F, S, m), Ins(s).op = "alloca",
         NEW addr, addr = [loc |-> "STACK", base |-> Len(s.objects) + 1, off |-> Const(0)],
         NEW t, t = [Result(s, addr) EXCEPT !.objects = Append(@, NewObject(Ins(s).dst))]
  PROVE  Alike(t, p, NextOf(s, p, F, S))
<1> DEFINE r == Result(s, addr)
           dst == Ins(s).dst
           o == NewObject(dst)
           n == Len(s.objects)
           objects == Append(s.objects, o)
           l == [j \in Nat |-> IF j = n + 1 THEN Len(S) + 1 ELSE m[j]]
           T == Append(S, Fresh)
           w == Pointer(Len(S) + 1, 0)
           G == Given(F, dst, w)
<1>1. /\ Activations(F) /\ StoreMirrored(s, p, S, m) /\ GlobalsFirst(s)
      /\ Current(prog, F) = Ins(s)
  BY TogetherFacts
<1>2. s.objects \in Seq(Object) /\ n \in Nat
  BY TopFrame DEF Together
<1>3. dst \in Name /\ dst \in PointerNames(prog, s.pc.fn)
  BY Instruction DEF Together
<1>4. addr \in Address /\ addr.loc = "STACK" /\ addr.base = n + 1 /\ addr.off = Const(0)
  BY <1>2, ConstScalar DEF Address, Loc
<1>5. SetBy(s, r, dst, addr) /\ r.objects = s.objects /\ r.heap = s.heap /\ r.read = s.read
  BY <1>4, ResultSets DEF Together
<1>6. r \in PathState
  BY <1>4, ResultFields DEF Together, IsResult
<1>7. o \in Object /\ \A i \in Index : o.cells[i][p] = Undef
  <2>1. o \in Object
    BY <1>3, NewObjectTyped
  <2>2. \A i \in Index : o.cells[i][p] = Undef
    BY DEF NewObject, Const, Together
  <2> QED
    BY <2>1, <2>2
<1>8. /\ objects \in Seq(Object) /\ Len(objects) = n + 1 /\ objects[n + 1] = o
      /\ \A i \in 1..n : objects[i] = s.objects[i]
  <2> HIDE DEF o
  <2> QED
    BY <1>2, <1>7, AppendProperties
<1>9. SameUpTo(m, l, n) /\ l[n + 1] = Len(S) + 1
  BY <1>2 DEF SameUpTo
<1>10. Refers(addr, p, l) = w
  <2>1. Const(0)[p] = 0
    BY DEF Const, Together
  <2> HIDE DEF n, l
  <2> QED
    BY <2>1, <1>4, <1>9 DEF Refers, Slot
<1> HIDE DEF r, l, w, o, objects
<1>11. /\ t.pc = r.pc /\ t.frames = r.frames /\ t.result = r.result
       /\ t.objects = objects /\ t.heap = r.heap /\ t.read = r.read
  <2>1. t = [r EXCEPT !.objects = objects]
    BY <1>5 DEF r, objects, o
  <2> QED
    BY <2>1, <1>6 DEF PathState
<1>12. SetBy(s, t, dst, addr)
  BY <1>5, <1>11 DEF SetBy
<1>13. GlobalsFirst(t)
  BY <1>1, <1>5, <1>11 DEF GlobalsFirst
<1> HIDE DEF T, n
<1>14. StoreMirrored(t, p, T, l)
  <2>1. t.heap = s.heap /\ Len(t.objects) = n + 1
        /\ (\A i \in 1..n : t.objects[i] = s.objects[i])
        /\ t.objects[n + 1] = o
    BY <1>5, <1>8, <1>11
  <2>2. \A i \in Index : t.objects[n + 1].cells[i][p] = Undef
    BY <2>1, <1>7
  <2>3. Extended(s, t, p, m, l, Len(S) + 1)
    BY <2>1, <2>2, <1>2, <1>9 DEF Extended, n
  <2> QED
    BY <2>3, <1>1, StoreExtended DEF T
<1>15. Mirrored(t, p, G, T, l)
  <2> HIDE DEF dst
  <2>1. SameUpTo(m, l, Len(s.objects))
    BY <1>9 DEF n
  <2> QED
    BY <2>1, <1>3, <1>10, <1>12, <1>13, <1>14, MirroredSet DEF Together
<1>16. NextOf(s, p, F, S) = Configuration(G, s.read, T)
  BY <1>1, StepAlloca DEF NextOf, w, T
<1> QED
  BY <1>5, <1>11, <1>15, <1>16 DEF Alike

\* In the path t the object of the address a has the value v at its offset.
Overwrites(s, t, a, v) ==
  \A loc \in Loc :
    /\ Len(Pool(t, loc)) = Len(Pool(s, loc))
    /\ \A k \in Places(s, loc) :
         /\ Pool(t, loc)[k].owner = Pool(s, loc)[k].owner
         /\ loc = a.loc /\ k = a.base
              => Pool(t, loc)[k].cells = Write(Pool(s, loc)[k].cells, a.off, v)
         /\ ~(loc = a.loc /\ k = a.base)
              => Pool(t, loc)[k].cells = Pool(s, loc)[k].cells

LEMMA WrittenIs ==
  ASSUME NEW S, IsSeq(S), NEW a, NEW w, a.obj \in 1..Len(S),
         DOMAIN S[a.obj] = Index, a.off \in Index
  PROVE  LET T == Written(S, a, w)
         IN  /\ IsSeq(T) /\ Len(T) = Len(S)
             /\ \A o \in 1..Len(S) : o # a.obj => T[o] = S[o]
             /\ DOMAIN T[a.obj] = Index
             /\ \A i \in Index : T[a.obj][i] = IF i = a.off THEN w ELSE S[a.obj][i]
<1> DEFINE d == [S[a.obj] EXCEPT ![a.off] = w]
<1>1. Written(S, a, w) = Changed(S, a.obj, d)
  BY DEF Written, Changed
<1>2. DOMAIN d = Index /\ \A i \in Index : d[i] = IF i = a.off THEN w ELSE S[a.obj][i]
  OBVIOUS
<1> HIDE DEF d
<1>3. LET T == Changed(S, a.obj, d)
      IN  /\ IsSeq(T) /\ Len(T) = Len(S)
          /\ \A i \in 1..Len(S) : T[i] = IF i = a.obj THEN d ELSE S[i]
  BY SeqChanged
<1> QED
  BY <1>1, <1>2, <1>3

LEMMA OverwrittenAlike ==
  ASSUME NEW s, NEW t, NEW p \in Point, NEW S, NEW m, NEW a, NEW v,
         StoreMirrored(s, p, S, m), GlobalsFirst(s), Overwrites(s, t, a, v),
         a.loc \in Loc, a.base \in Places(s, a.loc), a.off[p] \in Index
  PROVE  StoreMirrored(t, p, Written(S, Refers(a, p, m), v[p]), m) /\ GlobalsFirst(t)
<1> DEFINE b == Refers(a, p, m)
           T == Written(S, b, v[p])
<1>1. b.obj = Slot(m, a.loc, a.base) /\ b.off = a.off[p]
  BY DEF Refers, Pointer
<1>2. IsSeq(S) /\ ObjectsApart(s, m)
      /\ \A loc \in Loc : \A k \in Places(s, loc) : ObjectMirrored(s, p, S, m, loc, k)
  BY DEF StoreMirrored
<1>3. /\ IsSeq(T) /\ Len(T) = Len(S)
      /\ \A o \in 1..Len(S) : o # b.obj => T[o] = S[o]
      /\ DOMAIN T[b.obj] = Index
      /\ \A i \in Index : T[b.obj][i] = IF i = b.off THEN v[p] ELSE S[b.obj][i]
  <2>1. b.obj \in 1..Len(S) /\ DOMAIN S[b.obj] = Index
    BY <1>1, <1>2 DEF ObjectMirrored
  <2> HIDE DEF b
  <2> QED
    BY <2>1, <1>1, <1>2, WrittenIs
<1> HIDE DEF b, T
<1>4. ASSUME NEW loc \in Loc, NEW k \in Places(t, loc)
      PROVE  ObjectMirrored(t, p, T, m, loc, k)
  <2> DEFINE o == Slot(m, loc, k)
             old == Pool(s, loc)[k].cells
             new == Pool(t, loc)[k].cells
  <2>1. k \in Places(s, loc)
    BY DEF Overwrites, Places
  <2>2. o \in 1..Len(S) /\ DOMAIN S[o] = Index /\ \A i \in Index : S[o][i] = old[i][p]
    BY <2>1, <1>2 DEF ObjectMirrored
  <2>3. CASE loc = a.loc /\ k = a.base
    <3>1. o = b.obj
      BY <2>3, <1>1
    <3>2. new = Write(old, a.off, v)
      BY <2>1, <2>3 DEF Overwrites
    <3> HIDE DEF o, old, new
    <3>3. \A i \in Index : new[i][p] = IF i = b.off THEN v[p] ELSE old[i][p]
      BY <3>2, <1>1 DEF Write
    <3>4. \A i \in Index : T[o][i] = new[i][p]
      BY <3>1, <3>3, <2>2, <1>3
    <3>5. o \in 1..Len(T) /\ DOMAIN T[o] = Index
      BY <3>1, <2>2, <1>3
    <3> QED
      BY <3>4, <3>5 DEF ObjectMirrored, o, new
  <2>4. CASE ~(loc = a.loc /\ k = a.base)
    <3>1. o # b.obj
      BY <2>1, <2>4, <1>1, <1>2 DEF ObjectsApart
    <3>2. new = old
      BY <2>1, <2>4 DEF Overwrites
    <3> HIDE DEF o, old, new
    <3>3. T[o] = S[o] /\ o \in 1..Len(T)
      BY <3>1, <2>2, <1>3
    <3>4. DOMAIN T[o] = Index /\ \A i \in Index : T[o][i] = new[i][p]
      BY <3>2, <3>3, <2>2
    <3> QED
      BY <3>3, <3>4 DEF ObjectMirrored, o, new
  <2> QED
    BY <2>3, <2>4
<1>5. ObjectsApart(t, m)
  <2>1. \A loc \in Loc : Places(t, loc) = Places(s, loc)
    BY DEF Overwrites, Places
  <2> QED
    BY <2>1, <1>2 DEF ObjectsApart
<1>6. GlobalsFirst(t)
  <2>1. Len(Pool(t, "HEAP")) = Len(Pool(s, "HEAP"))
        /\ \A k \in Places(s, "HEAP") : Pool(t, "HEAP")[k].owner = Pool(s, "HEAP")[k].owner
    BY DEF Overwrites, Loc
  <2>2. Len(t.heap) = Len(s.heap)
        /\ \A k \in 1..Len(s.heap) : t.heap[k].owner = s.heap[k].owner
    BY <2>1 DEF Places, Pool
  <2> QED
    BY <2>2 DEF GlobalsFirst
<1> QED
  BY <1>3, <1>4, <1>5, <1>6 DEF StoreMirrored, T, b

Overwriting(s, a, v) ==
  IF a.loc = "STACK"
  THEN [Advance(s) EXCEPT !.objects[a.base].cells = Write(@, a.off, v)]
  ELSE [Advance(s) EXCEPT !.heap[a.base].cells = Write(@, a.off, v)]
CellsWritten(pool, a, v) ==
  [pool EXCEPT ![a.base] =
     [pool[a.base] EXCEPT !.cells = Write(pool[a.base].cells, a.off, v)]]

LEMMA CellsWrittenIs ==
  ASSUME NEW pool \in Seq(Object), NEW a, NEW v, a.base \in 1..Len(pool)
  PROVE  LET new == CellsWritten(pool, a, v)
         IN  /\ Len(new) = Len(pool)
             /\ \A i \in 1..Len(pool) : /\ new[i].owner = pool[i].owner
                                        /\ i # a.base => new[i].cells = pool[i].cells
             /\ new[a.base].cells = Write(pool[a.base].cells, a.off, v)
<1> DEFINE w == Write(pool[a.base].cells, a.off, v)
           o == [pool[a.base] EXCEPT !.cells = w]
           new == Changed(pool, a.base, o)
<1>1. pool[a.base] \in Object /\ IsSeq(pool)
  BY DEF IsSeq
<1>2. o.cells = w /\ o.owner = pool[a.base].owner
  <2> HIDE DEF w
  <2> QED
    BY <1>1 DEF Object
<1>3. CellsWritten(pool, a, v) = new
  BY DEF Changed, CellsWritten
<1> HIDE DEF o, w
<1>4. Len(new) = Len(pool) /\ \A i \in 1..Len(pool) : new[i] = IF i = a.base THEN o ELSE pool[i]
  BY <1>1, SeqChanged
<1> HIDE DEF new
<1>5. \A i \in 1..Len(pool) : new[i].owner = pool[i].owner
                              /\ (i # a.base => new[i].cells = pool[i].cells)
  BY <1>2, <1>4
<1>6. new[a.base].cells = w
  BY <1>2, <1>4
<1> QED
  BY <1>3, <1>4, <1>5, <1>6 DEF w

LEMMA OverwritingIs ==
  ASSUME prog \in Programs, NEW s, PathGood(s), NEW a, NEW v,
         a.loc \in Loc, a.base \in Places(s, a.loc)
  PROVE  LET t == Overwriting(s, a, v)
         IN  /\ MovedTo(s, t, s.pc.at + 1) /\ t.read = s.read
             /\ Overwrites(s, t, a, v)
<1> DEFINE r == Advance(s)
           t == Overwriting(s, a, v)
           new == CellsWritten(Pool(s, a.loc), a, v)
<1>1. IsJump(r, s, s.pc.at + 1)
  BY AdvanceFields
<1>2. s.objects \in Seq(Object) /\ s.heap \in Seq(Object)
  BY TopFrame
<1>3. /\ Len(new) = Len(Pool(s, a.loc))
      /\ \A i \in 1..Len(Pool(s, a.loc)) :
           /\ new[i].owner = Pool(s, a.loc)[i].owner
           /\ i # a.base => new[i].cells = Pool(s, a.loc)[i].cells
      /\ new[a.base].cells = Write(Pool(s, a.loc)[a.base].cells, a.off, v)
  <2>1. Pool(s, a.loc) \in Seq(Object) /\ a.base \in 1..Len(Pool(s, a.loc))
    BY <1>2 DEF Pool, Places
  <2> QED
    BY <2>1, CellsWrittenIs
<1> HIDE DEF r
<1>4. /\ t.frames = s.frames /\ t.pc = r.pc /\ t.result = s.result /\ t.read = s.read
      /\ Pool(t, a.loc) = new
      /\ \A loc \in Loc : loc # a.loc => Pool(t, loc) = Pool(s, loc)
  <2>1. CASE a.loc = "STACK"
    <3>1. t = [r EXCEPT !.objects = CellsWritten(s.objects, a, v)]
      BY <2>1, <1>1 DEF r, Overwriting, CellsWritten, IsJump
    <3>2. t.objects = CellsWritten(s.objects, a, v) /\ t.heap = s.heap
          /\ t.frames = s.frames /\ t.pc = r.pc /\ t.result = s.result /\ t.read = s.read
      BY <3>1, <1>1 DEF IsJump, PathState
    <3> HIDE DEF t
    <3>3. new = CellsWritten(s.objects, a, v)
      BY <2>1 DEF Pool
    <3> QED
      BY <3>2, <3>3, <2>1 DEF Pool, Loc
  <2>2. CASE a.loc # "STACK"
    <3>1. t = [r EXCEPT !.heap = CellsWritten(s.heap, a, v)]
      BY <2>2, <1>1 DEF r, Overwriting, CellsWritten, IsJump
    <3>2. t.heap = CellsWritten(s.heap, a, v) /\ t.objects = s.objects
          /\ t.frames = s.frames /\ t.pc = r.pc /\ t.result = s.result /\ t.read = s.read
      BY <3>1, <1>1 DEF IsJump, PathState
    <3> HIDE DEF t
    <3>3. new = CellsWritten(s.heap, a, v)
      BY <2>2 DEF Pool
    <3> QED
      BY <3>2, <3>3, <2>2 DEF Pool, Loc
  <2> QED
    BY <2>1, <2>2
<1> HIDE DEF t, new
<1>5. Overwrites(s, t, a, v)
  <2> SUFFICES ASSUME NEW loc \in Loc
               PROVE  /\ Len(Pool(t, loc)) = Len(Pool(s, loc))
                      /\ \A k \in 1..Len(Pool(s, loc)) :
                           /\ Pool(t, loc)[k].owner = Pool(s, loc)[k].owner
                           /\ loc = a.loc /\ k = a.base
                                => Pool(t, loc)[k].cells
                                     = Write(Pool(s, loc)[k].cells, a.off, v)
                           /\ ~(loc = a.loc /\ k = a.base)
                                => Pool(t, loc)[k].cells = Pool(s, loc)[k].cells
    BY DEF Overwrites, Places
  <2>1. CASE loc = a.loc
    BY <2>1, <1>3, <1>4
  <2>2. CASE loc # a.loc
    BY <2>2, <1>4
  <2> QED
    BY <2>1, <2>2
<1>6. t.pc.at = s.pc.at + 1
  BY <1>1, <1>4 DEF IsJump
<1> QED
  BY <1>4, <1>5, <1>6 DEF MovedTo, t

LEMMA StoreAlike ==
  ASSUME NEW s, NEW p, NEW F, NEW S, NEW m, Together(s, p, F, S, m), Ins(s).op = "store"
  PROVE  Alike(Overwriting(s, Target(s), Arg(s, 2)), p, NextOf(s, p, F, S))
<1> DEFINE a == Target(s)
           v == Arg(s, 2)
           t == Overwriting(s, a, v)
           k == s.pc.at + 1
           G == GoneTo(F, k)
           T == Written(S, Refers(a, p, m), v[p])
<1>1. /\ Activations(F) /\ StoreMirrored(s, p, S, m) /\ GlobalsFirst(s)
      /\ Current(prog, F) = Ins(s) /\ OperandIn(prog, F, 1) = Refers(a, p, m)
      /\ a.off[p] \in Index
  BY TogetherFacts
<1>2. OperandIn(prog, F, 2) = v[p] /\ F[Len(F)].at = s.pc.at
  BY OperandsMean, TopMirrored DEF Together
<1>3. a.loc \in Loc /\ a.base \in Places(s, a.loc)
  <2>1. AddressIn(s, a)
    BY Arguments DEF Together
  <2> QED
    BY <2>1 DEF AddressIn, Address, Places, Pool
<1> HIDE DEF a, v
<1>4. MovedTo(s, t, k) /\ t.read = s.read /\ Overwrites(s, t, a, v)
  BY <1>3, OverwritingIs DEF Together
<1> HIDE DEF T, k, t
<1>5. StoreMirrored(t, p, T, m) /\ GlobalsFirst(t)
  BY <1>1, <1>3, <1>4, OverwrittenAlike DEF T, Together
<1>6. Mirrored(t, p, G, T, m)
  BY <1>4, <1>5, MirroredMoves DEF Together
<1>7. NextOf(s, p, F, S) = Configuration(G, s.read, T)
  <2>1. F[Len(F)].at + 1 = k /\ Written(S, OperandIn(prog, F, 1), OperandIn(prog, F, 2)) = T
    BY <1>1, <1>2 DEF k, T
  <2>2. NextOf(s, p, F, S)
          = Configuration(GoneTo(F, F[Len(F)].at + 1), s.read,
                          Written(S, OperandIn(prog, F, 1), OperandIn(prog, F, 2)))
    BY <1>1, StepStore DEF NextOf
  <2> QED
    BY <2>1, <2>2
<1>8. Alike(t, p, NextOf(s, p, F, S))
  BY <1>4, <1>6, <1>7 DEF Alike
<1> QED
  BY <1>8 DEF t, a, v

LEMMA BranchAlike ==
  ASSUME NEW s, NEW p, NEW F, NEW S, NEW m, Together(s, p, F, S, m), Ins(s).op = "branch",
         NEW C \in SUBSET s.cond, NEW k \in Successors(prog, s.pc.fn, s.pc.at),
         Arg(s, 1)[p] # 0 => k = s.pc.at + 1, Arg(s, 1)[p] = 0 => k = Ins(s).to,
         NEW t, t = [Jump(s, k) EXCEPT !.cond = C]
  PROVE  Alike(t, p, NextOf(s, p, F, S))
<1> DEFINE r == Jump(s, k)
           G == GoneTo(F, k)
<1>1. /\ Activations(F) /\ StoreMirrored(s, p, S, m) /\ GlobalsFirst(s)
      /\ Current(prog, F) = Ins(s)
  BY TogetherFacts
<1>2. OperandIn(prog, F, 1) = Arg(s, 1)[p] /\ F[Len(F)].at = s.pc.at
  BY OperandsMean, TopMirrored DEF Together
<1>3. s \in PathState /\ k \in Nat
  <2>1. s \in PathState
    BY DEF Together, PathGood
  <2>2. Ins(s) = prog.code[s.pc.fn][s.pc.at] /\ s.pc \in Pc /\ Ins(s) \in Instr
    BY TopFrame DEF Together
  <2>3. s.pc.at + 1 \in Nat /\ Ins(s).to \in Nat
    BY SMTT(90), <2>2 DEF Pc, Instr
  <2>4. k \in {s.pc.at + 1, Ins(s).to}
    BY <2>2 DEF Successors
  <2> QED
    BY <2>1, <2>3, <2>4
<1>4. IsJump(r, s, k)
  BY <1>3, JumpFields
<1> HIDE DEF r
<1>5. t.pc = r.pc /\ t.frames = s.frames /\ t.result = s.result /\ t.read = s.read
      /\ t.objects = s.objects /\ t.heap = s.heap
  <2>1. t = [r EXCEPT !.cond = C]
    BY DEF r
  <2> QED
    BY <2>1, <1>4 DEF IsJump, PathState
<1>6. MovedTo(s, t, k)
  BY <1>4, <1>5 DEF MovedTo, IsJump
<1>7. StoreMirrored(t, p, S, m) /\ GlobalsFirst(t)
  BY <1>1, <1>5, StoreSame
<1>8. Mirrored(t, p, G, S, m)
  BY <1>6, <1>7, MirroredMoves DEF Together
<1>9. NextOf(s, p, F, S) = Configuration(G, s.read, S)
  <2> DEFINE j == IF OperandIn(prog, F, 1) # 0 THEN F[Len(F)].at + 1 ELSE Current(prog, F).to
  <2>1. j = k
    BY <1>1, <1>2
  <2>2. NextOf(s, p, F, S) = Configuration(GoneTo(F, j), s.read, S)
    BY <1>1, StepBranch DEF NextOf
  <2> HIDE DEF j
  <2> QED
    BY <2>1, <2>2
<1> QED
  BY <1>5, <1>8, <1>9 DEF Alike

\* The arguments of the call are passed alike.
CallArguments(P, F) == [i \in DOMAIN Current(P, F).args |-> OperandIn(P, F, i)]
LEMMA PassedMeans ==
  ASSUME NEW s, NEW p, NEW F, NEW S, NEW m, Together(s, p, F, S, m), Ins(s).op = "call",
         NEW x \in Takes(prog, Callee(s))
  PROVE  LET f == Callee(s)
             w == Activation(prog, f, CallArguments(prog, F)).env[x]
         IN  /\ x \in PointerNames(prog, f) => w = Refers(PassedTo(s, f)[x], p, m)
             /\ x \notin PointerNames(prog, f) => w = PassedTo(s, f)[x][p]
<1> DEFINE f == Callee(s)
           params == prog.params[f]
           values == CallArguments(prog, F)
           w == Activation(prog, f, values).env[x]
           k == CHOOSE i \in DOMAIN params : params[i] = x
           args == Ins(s).args
<1>1. f = Ins(s).fn /\ f \in Func
  BY Instruction DEF Callee, Together
<1>2. k \in DOMAIN params /\ params[k] = x
  <2>1. \E i \in DOMAIN params : params[i] = x
    BY DEF Takes
  <2> QED
    BY <2>1
<1>3. DOMAIN args = DOMAIN params
  <2>1. args \in Seq(Operand) /\ params \in Seq(Name)
    BY <1>1, Instruction, ProgramTypes DEF Together
  <2>2. Len(args) = Len(params)
    BY <1>1, Arguments DEF Together
  <2> QED
    BY <2>1, <2>2, LenProperties
<1>4. x \in PointerNames(prog, f) <=> k \in PointerArgs(s)
  <2>1. params[k] \in PointerNames(prog, f) <=> params[k] \in prog.pointers
    BY <1>1, <1>2, ProgramForm DEF Together
  <2>2. k \in PointerArgs(s) <=> params[k] \in prog.pointers
    BY <1>2, <1>3 DEF PointerArgs
  <2> HIDE DEF k, params
  <2> QED
    BY <2>1, <2>2, <1>2
<1>5. PassedTo(s, f)[x] = IF k \in PointerArgs(s) THEN PointerOf(s, args[k])
                                                  ELSE Arg(s, k)
  BY DEF PassedTo
<1>6. Current(prog, F) = Ins(s)
  BY TogetherFacts
<1>7. DOMAIN values = DOMAIN params /\ \A i \in DOMAIN params : values[i] = OperandIn(prog, F, i)
  BY <1>3, <1>6 DEF CallArguments
<1>8. w = values[k]
  <2> HIDE DEF values
  <2>1. w = values[CHOOSE i \in DOMAIN values : prog.params[f][i] = x]
    BY DEF Activation
  <2> QED
    BY <2>1, <1>7
<1> HIDE DEF k, values, w, params, f
<1>9. w = OperandIn(prog, F, k) /\ k \in DOMAIN args
  BY <1>2, <1>3, <1>7, <1>8
<1>10. /\ k \in PointerArgs(s) => OperandIn(prog, F, k) = Refers(PointerOf(s, args[k]), p, m)
       /\ k \notin PointerArgs(s) => OperandIn(prog, F, k) = Arg(s, k)[p]
  BY <1>9, OperandsMean DEF Together
<1>11. CASE k \in PointerArgs(s)
  BY <1>4, <1>5, <1>9, <1>10, <1>11 DEF w, f, values
<1>12. CASE k \notin PointerArgs(s)
  BY <1>4, <1>5, <1>9, <1>10, <1>12 DEF w, f, values
<1> QED
  BY <1>11, <1>12

\* The path t has entered the function f, with these temporaries.
Entered(s, t, f, temps) ==
  LET n == Len(s.frames)
  IN  /\ Len(t.frames) = n + 1
      /\ \A i \in 1..n : t.frames[i] = s.frames[i]
      /\ t.frames[n + 1].prev = s.pc
      /\ t.frames[n + 1].fn = f
      /\ t.frames[n + 1].temps = temps
      /\ t.pc.at = 1
      /\ t.read = s.read /\ t.result = s.result
      /\ t.objects = s.objects /\ t.heap = s.heap
\* The frame of the call, and the path that has entered it.
CallFrame(s) == [prev |-> s.pc, base |-> NewBase(s), fn |-> Callee(s),
                 temps |-> PassedTo(s, Callee(s))]
Entering(s) == [s EXCEPT !.pc = [fn |-> Callee(s), at |-> 1],
                         !.frames = Append(@, CallFrame(s))]

LEMMA EnteringIs ==
  ASSUME NEW s \in PathState
  PROVE  Entered(s, Entering(s), Callee(s), PassedTo(s, Callee(s)))
<1> DEFINE f == Callee(s)
           temps == PassedTo(s, f)
           frame == CallFrame(s)
           frames == Append(s.frames, frame)
           t == Entering(s)
           n == Len(s.frames)
<1>1. /\ t.frames = frames /\ t.pc.at = 1
      /\ t.read = s.read /\ t.result = s.result
      /\ t.objects = s.objects /\ t.heap = s.heap
  BY DEF PathState, Entering
<1>2. frame.prev = s.pc /\ frame.fn = f /\ frame.temps = temps
  BY DEF CallFrame
<1>3. Len(frames) = n + 1 /\ (\A i \in 1..n : frames[i] = s.frames[i])
      /\ frames[n + 1] = frame
  <2>1. IsSeq(s.frames)
    BY DEF IsSeq, PathState
  <2> HIDE DEF frame
  <2> QED
    BY <2>1, SeqAppended
<1> HIDE DEF f, temps, frame, frames, t
<1> QED
  BY <1>1, <1>2, <1>3 DEF Entered, f, temps, t

LEMMA CallAlike ==
  ASSUME NEW s, NEW p, NEW F, NEW S, NEW m, Together(s, p, F, S, m), Ins(s).op = "call"
  PROVE  Alike(Entering(s), p, NextOf(s, p, F, S))
<1> DEFINE n == Len(F)
           f == Callee(s)
           t == Entering(s)
           g == Activation(prog, f, CallArguments(prog, F))
           G == Append(F, g)
           temps == PassedTo(s, f)
<1>1. /\ Activations(F) /\ StoreMirrored(s, p, S, m) /\ GlobalsFirst(s)
      /\ Current(prog, F) = Ins(s)
  BY TogetherFacts
<1>2. Entered(s, t, f, temps)
  BY EnteringIs DEF Together, PathGood
<1>3. n = Len(s.frames) /\ n \in 1..n /\ n \in Nat /\ s.result[p] = 0
      /\ \A i \in 1..n : FrameMirrored(s, p, i, F[i], m)
  BY <1>1, SeqShape DEF Together, Mirrored, Activations
<1>4. Active(g) /\ g.fn = f /\ g.at = 1 /\ DOMAIN g.env = Takes(prog, f) \cup GlobalNames(prog)
      /\ \A x \in GlobalNames(prog) : x \notin Takes(prog, f) => g.env[x] = Global(prog, x)
  BY DEF Activation, Active
<1>5. /\ IsSeq(G) /\ Len(G) = n + 1 /\ G[n + 1] = g
      /\ \A i \in 1..n : G[i] = F[i]
  <2> HIDE DEF g
  <2> QED
    BY <1>1, SeqAppended DEF Activations
<1>6. \A x \in Takes(prog, f) :
        /\ x \in PointerNames(prog, f) => g.env[x] = Refers(temps[x], p, m)
        /\ x \notin PointerNames(prog, f) => g.env[x] = temps[x][p]
  BY PassedMeans
<1>7. DOMAIN temps = Takes(prog, f)
  BY DEF PassedTo
<1> HIDE DEF n, f, t, g, G, temps
<1>8. Activations(G)
  <2>1. \A i \in 1..n : Active(G[i])
    BY <1>1, <1>5 DEF Activations, n
  <2>2. \A i \in 1..(n + 1) : Active(G[i])
    BY <2>1, <1>3, <1>4, <1>5
  <2> QED
    BY <2>2, <1>3, <1>5 DEF Activations
<1>9. FrameMirrored(t, p, n + 1, g, m)
  <2>1. /\ Len(t.frames) = n + 1 /\ t.frames[n + 1].fn = f
        /\ t.frames[n + 1].temps = temps /\ t.pc.at = 1
    BY <1>2, <1>3 DEF Entered
  <2>2. Place(t, n + 1) = t.pc /\ Pointers(t, n + 1) = PointerNames(prog, f)
        /\ Visible(t, n + 1) = Takes(prog, f) \cup GlobalNames(prog)
    BY <2>1, <1>7 DEF Place, Pointers, Visible
  <2>3. \A x \in Takes(prog, f) \cup GlobalNames(prog) : g.env[x] = Meant(t, p, n + 1, x, m)
    BY <2>1, <2>2, <1>4, <1>6, <1>7 DEF Meant
  <2> QED
    BY <2>1, <2>2, <2>3, <1>4 DEF FrameMirrored
<1>10. \A i \in 1..n : FrameMirrored(t, p, i, G[i], m)
  <2> TAKE i \in 1..n
  <2>1. t.frames[i] = s.frames[i] /\ Len(t.frames) = n + 1 /\ i # n + 1
    BY <1>2, <1>3 DEF Entered
  <2>2. Place(t, i) = Place(s, i)
    <3>1. CASE i = n
      BY <3>1, <2>1, <1>2, <1>3 DEF Place, Entered
    <3>2. CASE i # n
      <4>1. i + 1 \in 1..n
        BY <3>2, <1>3
      <4>2. t.frames[i + 1] = s.frames[i + 1]
        BY <4>1, <1>2, <1>3 DEF Entered
      <4> QED
        BY <4>2, <3>2, <2>1, <1>3 DEF Place
    <3> QED
      BY <3>1, <3>2
  <2>3. FrameMirrored(s, p, i, F[i], m) /\ F[i].at = Place(t, i).at /\ G[i] = F[i]
    BY <2>2, <1>3, <1>5 DEF FrameMirrored
  <2>4. TempsOK(s, i) /\ SameUpTo(m, m, EndOf(s, i))
    BY <1>3, EndsWithin DEF SameUpTo, Together
  <2>5. t.frames[i].fn = s.frames[i].fn /\ t.frames[i].temps = s.frames[i].temps
    BY <2>1
  <2> QED
    BY <2>3, <2>4, <2>5, FrameStays
<1>11. StoreMirrored(t, p, S, m) /\ GlobalsFirst(t)
  <2>1. t.objects = s.objects /\ t.heap = s.heap
    BY <1>2 DEF Entered
  <2> QED
    BY <2>1, <1>1, StoreSame
<1>12. Mirrored(t, p, G, S, m)
  <2>1. \A i \in 1..(n + 1) : FrameMirrored(t, p, i, G[i], m)
    BY <1>3, <1>5, <1>9, <1>10
  <2>2. Len(G) = Len(t.frames) /\ t.result[p] = 0
    BY <1>2, <1>3, <1>5 DEF Entered
  <2> QED
    BY <2>1, <2>2, <1>5, <1>8, <1>11 DEF Mirrored
<1>13. NextOf(s, p, F, S) = Configuration(G, s.read, S)
  <2>1. Current(prog, F).op = "call" /\ Current(prog, F).fn = f
    BY <1>1 DEF f, Callee
  <2>2. Called(prog, F) = G
    BY <2>1 DEF Called, G, g, CallArguments
  <2> QED
    BY <2>1, <2>2, <1>1, StepCall DEF NextOf
<1>14. t.read = s.read
  BY <1>2 DEF Entered
<1> QED
  BY <1>12, <1>13, <1>14 DEF Alike, t

\* The path when the top frame is gone.
Popped(s) == [s EXCEPT !.pc = Fun(s).prev, !.frames = ButLast(@), !.objects = Kept(s)]
\* The path b has left the top frame of s.
Left(s, b) ==
  LET n == Len(s.frames)
  IN  /\ Len(b.frames) = n - 1
      /\ \A i \in 1..(n - 1) : b.frames[i] = s.frames[i]
      /\ b.pc = s.frames[n].prev
      /\ b.heap = s.heap
      /\ Len(b.objects) \in Nat /\ Len(b.objects) <= Len(s.objects)
      /\ \A k \in 1..Len(b.objects) : b.objects[k] = s.objects[k]
      /\ b.read = s.read /\ b.result = s.result

LEMMA PoppedIs ==
  ASSUME prog \in Programs, NEW s, PathGood(s), Len(s.frames) > 1
  PROVE  Left(s, Popped(s))
<1> DEFINE n == Len(s.frames)
           base == s.frames[n].base
           frames == ButLast(s.frames)
           objects == Kept(s)
           b == Popped(s)
<1>1. /\ n \in Nat \ {0} /\ Len(s.objects) \in Nat
      /\ Fun(s) = s.frames[n] /\ FrameGood(s, n) /\ s.frames[n] \in Frame
      /\ s.objects \in Seq(Object)
  BY TopFrame
<1>2. s \in PathState /\ s.frames \in Seq(Frame)
  BY DEF PathGood, PathState
<1>3. base \in Nat /\ base <= Len(s.objects)
  <2>1. base \in Nat
    BY <1>1, FrameFields
  <2>2. base <= Len(s.objects)
    BY <1>1 DEF FrameGood, BasesOK
  <2> QED
    BY <2>1, <2>2
<1>4. Len(frames) = n - 1 /\ \A i \in 1..(n - 1) : frames[i] = s.frames[i]
  BY <1>1, <1>2, SeqFront DEF ButLast, IsSeq
<1> HIDE DEF base
<1>5. /\ Len(objects) = base
      /\ \A k \in 1..base : objects[k] = s.objects[k]
  <2>1. objects = SubSeq(s.objects, 1, base)
    BY <1>1 DEF Kept, base
  <2>2. 1 \in 1..(Len(s.objects) + 1) /\ base \in 0..Len(s.objects)
    BY <1>1, <1>3
  <2> HIDE DEF objects
  <2>3. Len(objects) = base
    <3>1. Len(objects) = IF 1 <= base THEN base - 1 + 1 ELSE 0
      BY <2>1, <2>2, <1>1, SubSeqProperties
    <3> QED
      BY <3>1, <1>3
  <2>4. \A k \in 1..base : objects[k] = s.objects[k]
    <3>1. \A k \in 1..(base - 1 + 1) : objects[k] = s.objects[1 + k - 1]
      BY <2>1, <2>2, <1>1, SubSeqProperties
    <3>2. \A k \in 1..base : k \in 1..(base - 1 + 1) /\ 1 + k - 1 = k
      BY <1>3
    <3> QED
      BY <3>1, <3>2
  <2> QED
    BY <2>3, <2>4
<1>6. b = [s EXCEPT !.pc = s.frames[n].prev, !.frames = frames, !.objects = objects]
  BY <1>1 DEF Popped
<1> HIDE DEF frames, objects, b, n
<1>7. /\ b.pc = s.frames[n].prev /\ b.frames = frames /\ b.objects = objects
      /\ b.read = s.read /\ b.heap = s.heap /\ b.result = s.result
  BY <1>2, <1>6 DEF PathState
<1> QED
  BY <1>1, <1>3, <1>4, <1>5, <1>7 DEF Left, b, n

LEMMA PoppedMirrored ==
  ASSUME NEW s, NEW p, NEW F, NEW S, NEW m, Together(s, p, F, S, m), Len(s.frames) > 1,
         NEW G, Activations(G), Len(G) = Len(F) - 1, \A i \in 1..Len(G) : G[i] = F[i]
  PROVE  Mirrored(Popped(s), p, G, S, m)
<1> DEFINE n == Len(F)
           b == Popped(s)
<1>1. Left(s, b)
  BY PoppedIs DEF Together
<1>2. /\ n = Len(s.frames) /\ s.result[p] = 0
      /\ StoreMirrored(s, p, S, m) /\ GlobalsFirst(s)
      /\ \A i \in 1..n : FrameMirrored(s, p, i, F[i], m)
  BY DEF Together, Mirrored
<1>3. n \in Nat \ {0} /\ n > 1 /\ Len(G) = n - 1
  <2>1. n \in Nat \ {0}
    BY <1>2, TopFrame DEF Together
  <2> QED
    BY <2>1, <1>2
<1> HIDE DEF n, b
<1>4. \A i \in 1..(n - 1) : FrameMirrored(b, p, i, G[i], m)
  <2> TAKE i \in 1..(n - 1)
  <2>1. i \in 1..n /\ i # n /\ Len(b.frames) = n - 1 /\ b.frames[i] = s.frames[i]
    BY <1>1, <1>2, <1>3 DEF Left
  <2>2. Place(b, i) = Place(s, i)
    <3>1. CASE i = n - 1
      <4>1. Place(b, i) = b.pc /\ i + 1 = n
        BY <3>1, <2>1, <1>3 DEF Place
      <4>2. Place(s, i) = s.frames[n].prev
        BY <4>1, <2>1, <1>2 DEF Place
      <4> QED
        BY <4>1, <4>2, <1>1, <1>2 DEF Left
    <3>2. CASE i # n - 1
      <4>1. i + 1 \in 1..(n - 1)
        BY <3>2, <1>3
      <4>2. b.frames[i + 1] = s.frames[i + 1]
        BY <4>1, <1>1, <1>2 DEF Left
      <4> QED
        BY <4>2, <3>2, <2>1, <1>2 DEF Place
    <3> QED
      BY <3>1, <3>2
  <2>3. FrameMirrored(s, p, i, F[i], m) /\ F[i].at = Place(b, i).at /\ G[i] = F[i]
    BY <2>1, <2>2, <1>2, <1>3 DEF FrameMirrored
  <2>4. TempsOK(s, i) /\ SameUpTo(m, m, EndOf(s, i))
    BY <2>1, <1>2, EndsWithin DEF SameUpTo, Together
  <2>5. b.frames[i].fn = s.frames[i].fn /\ b.frames[i].temps = s.frames[i].temps
    BY <2>1
  <2> QED
    BY <2>3, <2>4, <2>5, FrameStays
<1>5. ASSUME NEW loc \in Loc, NEW k \in Places(b, loc)
      PROVE  k \in Places(s, loc) /\ Pool(b, loc)[k] = Pool(s, loc)[k]
  <2>1. CASE loc = "STACK"
    <3>1. k \in 1..Len(b.objects)
      BY <2>1 DEF Places, Pool
    <3>2. Len(s.objects) \in Nat /\ Len(b.objects) \in Nat /\ Len(b.objects) <= Len(s.objects)
          /\ b.objects[k] = s.objects[k]
      BY <3>1, <1>1, TopFrame DEF Left, Together
    <3> QED
      BY <3>1, <3>2, <2>1 DEF Places, Pool
  <2>2. CASE loc # "STACK"
    BY <2>2, <1>1 DEF Places, Pool, Left
  <2> QED
    BY <2>1, <2>2
<1>6. StoreMirrored(b, p, S, m)
  <2>1. \A loc \in Loc : \A k \in Places(b, loc) : ObjectMirrored(b, p, S, m, loc, k)
    BY <1>2, <1>5 DEF StoreMirrored, ObjectMirrored
  <2>2. ObjectsApart(b, m)
    BY <1>2, <1>5 DEF StoreMirrored, ObjectsApart
  <2> QED
    BY <2>1, <2>2, <1>2 DEF StoreMirrored
<1>7. GlobalsFirst(b) /\ b.result[p] = 0 /\ Len(b.frames) = Len(G)
  BY <1>1, <1>2, <1>3 DEF GlobalsFirst, Left
<1> QED
  BY <1>3, <1>4, <1>6, <1>7 DEF Mirrored, b

LEMMA ReturnAlike ==
  ASSUME NEW s, NEW p, NEW F, NEW S, NEW m, Together(s, p, F, S, m), Ins(s).op = "return",
         Len(s.frames) > 1
  PROVE  Alike(IF Returned(s) THEN Result(Popped(s), Arg(s, 1)) ELSE Advance(Popped(s)),
               p, NextOf(s, p, F, S))
<1> DEFINE b == Popped(s)
           G == Caller(F)
           v == Arg(s, 1)
           w == OperandIn(prog, F, 1)
<1>1. /\ Activations(F) /\ Current(prog, F) = Ins(s) /\ Len(F) = Len(s.frames)
  BY TogetherFacts, TopMirrored DEF Together
<1>2. /\ Activations(G) /\ Len(G) = Len(F) - 1
      /\ \A i \in 1..Len(G) : G[i] = F[i]
      /\ ~Returned(s) => NextOf(s, p, F, S)
                           = Configuration(GoneTo(G, G[Len(G)].at + 1), s.read, S)
      /\ Returned(s) => NextOf(s, p, F, S)
                          = Configuration(Given(G, Current(prog, G).dst, w), s.read, S)
  <2>1. Activations(F) /\ Current(prog, F).op = "return" /\ Len(F) > 1
    BY <1>1
  <2>2. Returned(s) <=> Current(prog, F).args # <<>>
    BY <1>1 DEF Returned
  <2> HIDE <1>1
  <2> QED
    BY <2>1, <2>2, StepBack DEF NextOf
<1>3. Returned(s) => v \in Scalar /\ w = v[p]
  BY OperandsMean, Arguments DEF Together
<1> HIDE DEF G, w
<1>4. Mirrored(b, p, G, S, m)
  BY <1>2, PoppedMirrored
<1>5. PathGood(b) /\ Ins(b).op = "call" /\ prog \in Programs
  BY PopGood DEF Popped, Together
<1>6. b.read = s.read
  BY PoppedIs DEF Left, Together
<1> HIDE DEF b
<1>7. Current(prog, G) = Ins(b) /\ G[Len(G)].at = b.pc.at
  BY <1>4, <1>5, TopMirrored
<1>8. StoreMirrored(b, p, S, m) /\ GlobalsFirst(b) /\ SameUpTo(m, m, Len(b.objects))
  BY <1>4 DEF Mirrored, SameUpTo
<1>9. CASE Returned(s)
  <2> DEFINE t == Result(b, v)
             x == Ins(b).dst
  <2>1. v \in Scalar \cup Address /\ w = v[p]
    BY <1>3, <1>9
  <2> HIDE DEF v
  <2>2. SetBy(b, t, x, v) /\ t.objects = b.objects /\ t.heap = b.heap /\ t.read = b.read
    BY <2>1, <1>5, ResultSets
  <2>3. x \notin PointerNames(prog, b.pc.fn)
    BY <1>5, Instruction
  <2> HIDE DEF t, x
  <2>4. StoreMirrored(t, p, S, m) /\ GlobalsFirst(t)
    BY <2>2, <1>8, StoreSame
  <2>5. Mirrored(t, p, Given(G, x, w), S, m)
    <3>1. SetBy(b, t, x, v) /\ x \notin PointerNames(prog, b.pc.fn)
          /\ SameUpTo(m, m, Len(b.objects))
      BY <2>2, <2>3, <1>8
    <3>2. x \notin PointerNames(prog, b.pc.fn) => w = v[p]
      BY <2>1
    <3> QED
      BY <3>1, <3>2, <2>4, <1>4, <1>5, MirroredSet
  <2>6. NextOf(s, p, F, S) = Configuration(Given(G, x, w), s.read, S)
    BY <1>2, <1>7, <1>9 DEF x
  <2>7. t.read = s.read
    BY <2>2, <1>6
  <2>8. Alike(t, p, NextOf(s, p, F, S))
    BY <2>5, <2>6, <2>7 DEF Alike
  <2> QED
    BY <2>8, <1>9 DEF t, b, v
<1>10. CASE ~Returned(s)
  <2> DEFINE t == Advance(b)
             k == b.pc.at + 1
  <2>1. IsJump(t, b, k)
    BY <1>5, AdvanceFields
  <2> HIDE DEF t
  <2>2. MovedTo(b, t, k) /\ t.objects = b.objects /\ t.heap = b.heap /\ t.read = s.read
    BY <2>1, <1>6 DEF IsJump, MovedTo
  <2>3. StoreMirrored(t, p, S, m) /\ GlobalsFirst(t)
    BY <2>2, <1>8, StoreSame
  <2>4. Mirrored(t, p, GoneTo(G, k), S, m)
    BY <2>2, <2>3, <1>4, <1>5, MirroredMoves
  <2>5. NextOf(s, p, F, S) = Configuration(GoneTo(G, k), s.read, S)
    BY <1>2, <1>7, <1>10
  <2>6. Alike(t, p, NextOf(s, p, F, S))
    BY <2>2, <2>4, <2>5 DEF Alike
  <2> QED
    BY <2>6, <1>10 DEF t, b
<1> QED
  BY <1>9, <1>10

\* What the execution says when the path ends.
LEMMA EndsAlike ==
  ASSUME NEW s, NEW p, NEW F, NEW S, NEW m, Together(s, p, F, S, m)
  PROVE  LET d == NextOf(s, p, F, S)
         IN  /\ Ins(s).op = "error" => d.how = "error"
             /\ Ins(s).op = "return" /\ Len(s.frames) = 1 =>
                  /\ d.how = "returns"
                  /\ Returned(s) => d.value = Arg(s, 1)[p]
                  /\ ~Returned(s) => d.value = s.result[p]
<1> DEFINE d == NextOf(s, p, F, S)
<1>1. Activations(F) /\ Current(prog, F) = Ins(s) /\ Len(F) = Len(s.frames)
      /\ s.result[p] = 0
  BY TogetherFacts, TopMirrored DEF Together, Mirrored
<1>2. ASSUME Ins(s).op = "error"
      PROVE  d.how = "error"
  BY <1>1, <1>2, StepError DEF NextOf
<1>3. ASSUME Ins(s).op = "return", Len(s.frames) = 1
      PROVE  /\ d.how = "returns"
             /\ Returned(s) => d.value = Arg(s, 1)[p]
             /\ ~Returned(s) => d.value = s.result[p]
  <2>1. /\ d.how = "returns"
        /\ d.value = IF Current(prog, F).args = <<>> THEN 0 ELSE OperandIn(prog, F, 1)
    BY <1>1, <1>3, StepLast DEF NextOf
  <2>2. Returned(s) => OperandIn(prog, F, 1) = Arg(s, 1)[p]
    BY <1>3, OperandsMean DEF Together
  <2>3. Returned(s) <=> Current(prog, F).args # <<>>
    BY <1>1 DEF Returned
  <2> HIDE DEF d
  <2> QED
    BY <2>1, <2>2, <2>3, <1>1
<1> QED
  BY <1>2, <1>3

\* The path at the start.
LEMMA InitialAlike ==
  ASSUME prog \in Programs, NEW p \in Point
  PROVE  Alike(InitialState(prog), p, Begin(prog, "main", <<>>))
<1> DEFINE s == InitialState(prog)
           g == Activation(prog, "main", <<>>)
           F == <<g>>
           S == [o \in DOMAIN prog.globals |-> [i \in Index |-> 0]]
           m == <<>>
<1>1. Begin(prog, "main", <<>>) = Configuration(F, 0, S)
  BY DEF Begin, Configuration
<1>2. /\ s.pc = [fn |-> "main", at |-> 1]
      /\ s.objects = <<>> /\ s.read = 0
      /\ s.heap = InitialHeap(prog)
  BY InitialPathTyped
<1>3. /\ Len(s.frames) = 1 /\ s.frames[1].fn = "main" /\ s.frames[1].temps = <<>>
      /\ s.result[p] = 0
  <2>1. s.result = Const(0)
    BY DEF InitialState
  <2>2. s.frames = <<[prev |-> [fn |-> "main", at |-> 0], base |-> 0,
                      fn |-> "main", temps |-> <<>>]>>
    BY InitialPathTyped
  <2> HIDE DEF s
  <2> QED
    BY <2>1, <2>2 DEF Const
<1>4. Takes(prog, "main") = {} /\ prog.globals \in Seq(Name)
  <2>1. prog.params["main"] = <<>> /\ prog.globals \in Seq(Name)
    BY ProgramForm, ProgramTypes, ProgramConstantsOK
  <2> QED
    BY <2>1 DEF Takes
<1>5. /\ g.fn = "main" /\ g.at = 1 /\ Active(g) /\ DOMAIN g.env = GlobalNames(prog)
      /\ \A x \in GlobalNames(prog) : g.env[x] = Global(prog, x)
  BY <1>4 DEF Activation, Active
<1> HIDE DEF g, s
<1>6. F[1] = g /\ Len(F) = 1 /\ Activations(F)
  <2>1. F \in Seq({g}) /\ F[1] = g /\ Len(F) = 1
    OBVIOUS
  <2> HIDE DEF F
  <2> QED
    BY <2>1, <1>5 DEF Activations, IsSeq
<1> HIDE DEF F
<1>7. FrameMirrored(s, p, 1, g, m)
  <2>1. Place(s, 1) = s.pc /\ Visible(s, 1) = GlobalNames(prog)
    BY <1>3 DEF Place, Visible
  <2>2. \A x \in GlobalNames(prog) : Meant(s, p, 1, x, m) = Global(prog, x)
    BY <1>3 DEF Meant
  <2> QED
    BY <2>1, <2>2, <1>2, <1>3, <1>5 DEF FrameMirrored
<1>8. /\ DOMAIN prog.globals = 1..Len(prog.globals) /\ Len(prog.globals) \in Nat
      /\ DOMAIN S = DOMAIN prog.globals
      /\ \A o \in DOMAIN S : DOMAIN S[o] = Index /\ \A i \in Index : S[o][i] = 0
  BY <1>4, LenProperties
<1>9. S \in Seq([Index -> Int]) /\ Len(S) = Len(prog.globals)
  <2>1. S \in [1..Len(prog.globals) -> [Index -> Int]]
    BY <1>8
  <2> HIDE DEF S
  <2>2. S \in Seq([Index -> Int])
    BY <2>1, <1>8, SeqDef
  <2> QED
    BY <2>2, <1>8, LenProperties
<1> HIDE DEF S, m
<1>10. /\ Len(s.heap) = Len(prog.globals)
       /\ \A j \in 1..Len(s.heap) : /\ s.heap[j].owner = prog.globals[j]
                                    /\ \A i \in Index : s.heap[j].cells[i] = Const(0)
  <2>1. s.heap = InitialHeap(prog) /\ s.heap \in Seq(Object)
    BY <1>2, InitialPathTyped DEF PathState, s
  <2>2. DOMAIN s.heap = 1..Len(prog.globals)
        /\ \A j \in 1..Len(prog.globals) :
             /\ s.heap[j].owner = prog.globals[j]
             /\ \A i \in Index : s.heap[j].cells[i] = Const(0)
    BY <2>1, <1>8 DEF InitialHeap
  <2>3. Len(s.heap) = Len(prog.globals)
    BY <2>1, <2>2, <1>8, LenProperties
  <2> QED
    BY <2>2, <2>3
<1>11. GlobalsFirst(s)
  BY <1>10 DEF GlobalsFirst
<1>12. ASSUME NEW loc \in Loc, NEW k \in Places(s, loc)
       PROVE  loc = "HEAP" /\ k \in 1..Len(s.heap) /\ Slot(m, loc, k) = k
  <2>1. Len(s.objects) = 0
    BY <1>2
  <2>2. loc # "STACK"
    BY <2>1 DEF Places, Pool
  <2> QED
    BY <2>2 DEF Places, Pool, Slot, Loc
<1>13. StoreMirrored(s, p, S, m)
  <2>1. ASSUME NEW loc \in Loc, NEW k \in Places(s, loc)
        PROVE  ObjectMirrored(s, p, S, m, loc, k)
    <3>1. loc = "HEAP" /\ k \in 1..Len(s.heap) /\ Slot(m, loc, k) = k
      BY <1>12
    <3>2. k \in 1..Len(S) /\ DOMAIN S[k] = Index /\ \A i \in Index : S[k][i] = 0
      BY <3>1, <1>8, <1>9, <1>10
    <3>3. \A i \in Index : Pool(s, loc)[k].cells[i][p] = 0
      BY <3>1, <1>10 DEF Pool, Const
    <3> QED
      BY <3>1, <3>2, <3>3 DEF ObjectMirrored
  <2>2. ObjectsApart(s, m)
    BY <1>12 DEF ObjectsApart
  <2> QED
    BY <2>1, <2>2, <1>9 DEF StoreMirrored, IsSeq
<1>14. Mirrored(s, p, F, S, m)
  BY <1>3, <1>6, <1>7, <1>11, <1>13 DEF Mirrored
<1> QED
  BY <1>1, <1>2, <1>14 DEF Alike, s

(***************************************************************************)
(* The steps of a path and of the executions on its inputs.                *)
(***************************************************************************)
\* The execution of the program that is verified, on input p.
Execution(p) == Run(prog, p, Begin(prog, "main", <<>>))
\* The bound on its length leaves open what the execution comes to.
Undecided(p) == Outcome(prog, p).how = "runs"
\* What the path e says of the input p is what the program does on it.
Tells(e, p) ==
  /\ e.status = "TERMINATED" => /\ Outcome(prog, p).how = "returns"
                                /\ Outcome(prog, p).value = e.result[p]
  /\ e.status = "REACH_ERROR" => Outcome(prog, p).how = "error"
\* A running path is somewhere on the execution on each of its inputs.
Accompanied(s, p) ==
  \/ Undecided(p)
  \/ /\ Tells(s, p)
     /\ s.status = "RUNNING" => \E k \in 0..Steps : Alike(s, p, Execution(p)[k])

\* A step of a running path, and what the execution does next.
LEMMA NextOfExecution ==
  ASSUME prog \in Programs, Direct(prog), NEW s, PathGood(s), s.status = "RUNNING",
         NEW p \in s.cond, Accompanied(s, p), ~Undecided(p)
  PROVE  \E F, S, m : \E k \in 1..Steps :
           Together(s, p, F, S, m) /\ Execution(p)[k] = NextOf(s, p, F, S)
<1>1. p \in Point
  <2>1. s.cond \in SUBSET Point
    BY DEF PathGood, PathState
  <2> QED
    BY <2>1
<1>2. PICK k \in 0..Steps : Alike(s, p, Execution(p)[k])
  BY DEF Accompanied
<1>3. PICK F, S, m : Execution(p)[k] = Configuration(F, s.read, S) /\ Mirrored(s, p, F, S, m)
  BY <1>2 DEF Alike
<1>4. Execution(p)[k].how = "runs"
  BY <1>3 DEF Configuration
<1>5. AccessOK(prog, Configuration(F, s.read, S))
  <2>1. Defined(prog, p)
    BY <1>1 DEF Direct
  <2>2. AccessOK(prog, Execution(p)[k])
    BY <2>1, <1>4 DEF Defined, Execution
  <2> QED
    BY <2>2, <1>3
<1>6. Together(s, p, F, S, m)
  BY <1>1, <1>3, <1>5 DEF Together, Direct
<1>7. k # Steps
  <2>1. Execution(p)[Steps].how # "runs"
    BY DEF Undecided, Outcome, Final, Execution
  <2> QED
    BY <2>1, <1>4
<1>8. k + 1 \in 1..Steps /\ (k + 1) - 1 = k
  BY <1>7, ProgramConstantsOK
<1>9. Execution(p)[k + 1] = After(prog, p, Execution(p)[k])
  BY <1>8, RunIs DEF Execution
<1>10. Execution(p)[k + 1] = NextOf(s, p, F, S)
  BY <1>3, <1>4, <1>9 DEF After, NextOf
<1> QED
  BY <1>6, <1>8, <1>10

LEMMA GoesOn ==
  ASSUME prog \in Programs, Direct(prog), NEW s, PathGood(s), s.status = "RUNNING",
         NEW p \in s.cond, Accompanied(s, p), NEW t, t.status = "RUNNING",
         \A F, S, m : Together(s, p, F, S, m) => Alike(t, p, NextOf(s, p, F, S))
  PROVE  Accompanied(t, p)
<1> SUFFICES ASSUME ~Undecided(p)
             PROVE  Accompanied(t, p)
  BY DEF Accompanied
<1>1. PICK F, S, m : \E k \in 1..Steps :
        Together(s, p, F, S, m) /\ Execution(p)[k] = NextOf(s, p, F, S)
  BY NextOfExecution
<1>2. PICK k \in 1..Steps :
        Together(s, p, F, S, m) /\ Execution(p)[k] = NextOf(s, p, F, S)
  BY <1>1
<1>3. Alike(t, p, Execution(p)[k]) /\ k \in 0..Steps
  BY <1>2, ProgramConstantsOK
<1> QED
  BY <1>3 DEF Accompanied, Tells

LEMMA ComesToEnd ==
  ASSUME prog \in Programs, Direct(prog), NEW s, PathGood(s), s.status = "RUNNING",
         NEW p \in s.cond, Accompanied(s, p), NEW t, t.status # "RUNNING",
         t.status = "TERMINATED" => Ins(s).op = "return" /\ Len(s.frames) = 1,
         t.status = "TERMINATED" /\ Returned(s) => t.result = Arg(s, 1),
         t.status = "TERMINATED" /\ ~Returned(s) => t.result = s.result,
         t.status = "REACH_ERROR" => Ins(s).op = "error"
  PROVE  Accompanied(t, p)
<1> SUFFICES ASSUME ~Undecided(p)
             PROVE  Tells(t, p)
  BY DEF Accompanied
<1>1. PICK F, S, m : \E k \in 1..Steps :
        Together(s, p, F, S, m) /\ Execution(p)[k] = NextOf(s, p, F, S)
  BY NextOfExecution
<1>2. PICK k \in 1..Steps :
        Together(s, p, F, S, m) /\ Execution(p)[k] = NextOf(s, p, F, S)
  BY <1>1
<1> DEFINE d == NextOf(s, p, F, S)
<1>3. /\ Ins(s).op = "error" => d.how = "error"
      /\ Ins(s).op = "return" /\ Len(s.frames) = 1 =>
           /\ d.how = "returns"
           /\ Returned(s) => d.value = Arg(s, 1)[p]
           /\ ~Returned(s) => d.value = s.result[p]
  BY <1>2, EndsAlike
<1>4. d.how # "runs" => Outcome(prog, p) = d
  <2>1. k \in 0..Steps
    BY ProgramConstantsOK
  <2>2. Execution(p)[k] = d
    BY <1>2
  <2> HIDE DEF d
  <2> QED
    BY <2>1, <2>2, RunStays DEF Outcome, Execution
<1> HIDE DEF d
<1> QED
  BY <1>3, <1>4 DEF Tells

\* No value is ever cached.
LEMMA NothingCached ==
  ASSUME prog \in Programs, Direct(prog), NEW s, PathGood(s), Ins(s).op = "return",
         Len(s.frames) > 1
  PROVE  ~Caches(s)
<1> DEFINE f == Fun(s).fn
           b == Popped(s)
<1>1. PathGood(b) /\ Ins(b).op = "call" /\ Ins(b).fn = f
  BY PopGood DEF Popped
<1> HIDE DEF b, f
<1>2. b.pc.fn \in Func /\ b.pc.at \in DOMAIN prog.code[b.pc.fn]
      /\ Ins(b) = prog.code[b.pc.fn][b.pc.at]
  BY <1>1, TopFrame
<1>3. \/ Takes(prog, f) \cap prog.pointers # {}
      \/ \A j \in DOMAIN prog.code[f] : prog.code[f][j].op = "return"
                                          => prog.code[f][j].args = <<>>
  BY <1>1, <1>2 DEF Direct, Uncached
<1>4. CASE Takes(prog, f) \cap prog.pointers # {}
  <2>1. PICK i \in DOMAIN prog.params[f] : prog.params[f][i] \in prog.pointers
    BY <1>4 DEF Takes
  <2>2. i \in DOMAIN Params(s) /\ ~ConcreteParam(s, i)
    BY <2>1 DEF Params, ConcreteParam, ScalarParam, f
  <2> QED
    BY <2>2 DEF Caches
<1>5. CASE \A j \in DOMAIN prog.code[f] : prog.code[f][j].op = "return"
                                            => prog.code[f][j].args = <<>>
  <2>1. s.pc.fn = f /\ s.pc.at \in DOMAIN prog.code[f] /\ Ins(s) = prog.code[f][s.pc.at]
    <3>1. /\ s.pc.fn = Fun(s).fn /\ s.pc.at \in DOMAIN prog.code[s.pc.fn]
          /\ Ins(s) = prog.code[s.pc.fn][s.pc.at]
      BY TopFrame
    <3> QED
      BY <3>1 DEF f
  <2>2. ~Returned(s)
    BY <2>1, <1>5 DEF Returned
  <2> QED
    BY <2>2 DEF Caches
<1> QED
  BY <1>3, <1>4, <1>5

LEMMA SameExecutions ==
  ASSUME prog' = prog, NEW s, NEW p
  PROVE  /\ Accompanied(s, p)' <=> Accompanied(s, p)
         /\ Tells(s, p)' <=> Tells(s, p)
         /\ Undecided(p)' <=> Undecided(p)
<1>1. /\ \A i : Place(s, i)' = Place(s, i) /\ Pointers(s, i)' = Pointers(s, i)
                /\ Visible(s, i)' = Visible(s, i)
      /\ GlobalsFirst(s)' <=> GlobalsFirst(s)
  BY DEF Place, Pointers, Visible, GlobalsFirst
<1>2. \A i, x, m : Meant(s, p, i, x, m)' = Meant(s, p, i, x, m)
  BY <1>1 DEF Meant
<1>3. \A i, f, m : FrameMirrored(s, p, i, f, m)' <=> FrameMirrored(s, p, i, f, m)
  BY <1>1, <1>2 DEF FrameMirrored
<1>4. \A F, S, m : Mirrored(s, p, F, S, m)' <=> Mirrored(s, p, F, S, m)
  BY <1>1, <1>3 DEF Mirrored
<1>5. \A c : Alike(s, p, c)' <=> Alike(s, p, c)
  BY <1>4 DEF Alike
<1>6. Execution(p)' = Execution(p) /\ Outcome(prog, p)' = Outcome(prog, p)
  BY DEF Execution
<1>7. (Tells(s, p)' <=> Tells(s, p)) /\ (Undecided(p)' <=> Undecided(p))
  BY <1>6 DEF Tells, Undecided
<1> QED
  BY <1>5, <1>6, <1>7 DEF Accompanied

AllAccompanied == \A s \in Paths : \A p \in s.cond : Accompanied(s, p)

LEMMA PushedAccompanied ==
  ASSUME Worklist, AllAccompanied, ~Done, prog' = prog, NEW T, NEW new \in Seq(T),
         Push(new), \A k \in DOMAIN new : \A p \in new[k].cond : Accompanied(new[k], p)
  PROVE  AllAccompanied'
<1>1. states # <<>>
  BY DEF Done
<1> SUFFICES ASSUME NEW s \in Paths', NEW p \in s.cond
             PROVE  Accompanied(s, p)'
  BY DEF AllAccompanied
<1>2. s \in Paths \/ \E k \in DOMAIN new : s = new[k]
  BY <1>1, PushedPaths
<1>3. Accompanied(s, p)
  BY <1>2 DEF AllAccompanied
<1> QED
  BY <1>3, SameExecutions

LEMMA OneAccompanied ==
  ASSUME Worklist, AllAccompanied, ~Done, prog' = prog, NEW t, Push(<<t>>),
         \A p \in t.cond : Accompanied(t, p)
  PROVE  AllAccompanied'
<1>1. <<t>> \in Seq({t}) /\ DOMAIN <<t>> = {1} /\ <<t>>[1] = t
  OBVIOUS
<1> QED
  BY <1>1, PushedAccompanied

\* What holds before a step of a running path.
BeforeStep ==
  /\ prog \in Programs /\ Direct(prog) /\ Worklist /\ AllGood /\ AllAccompanied
  /\ cache = <<>> /\ ~Done /\ Top.status = "RUNNING" /\ prog' = prog

LEMMA TopRuns ==
  ASSUME BeforeStep
  PROVE  /\ PathGood(Top) /\ Top \in PathState
         /\ \A p \in Top.cond : Accompanied(Top, p)
<1>1. Top \in Paths /\ PathGood(Top)
  BY GoodTop DEF BeforeStep
<1> QED
  BY <1>1 DEF BeforeStep, AllAccompanied, PathGood

\* A path that goes on from the top one, on some of its inputs.
Follower(t) == t.status = "RUNNING" /\ t.cond \subseteq Top.cond

LEMMA OneGoesOn ==
  ASSUME BeforeStep, NEW t, Follower(t), Push(<<t>>),
         \A p, F, S, m : Together(Top, p, F, S, m) => Alike(t, p, NextOf(Top, p, F, S))
  PROVE  AllAccompanied'
<1>1. \A p \in t.cond : Accompanied(t, p)
  BY TopRuns, GoesOn DEF BeforeStep, Follower
<1> QED
  BY <1>1, OneAccompanied DEF BeforeStep

LEMMA ResultFollows ==
  ASSUME BeforeStep, NEW v \in Scalar \cup Address
  PROVE  Result(Top, v) \in PathState /\ Follower(Result(Top, v))
<1>1. PathGood(Top) /\ prog \in Programs /\ Top.status = "RUNNING"
  BY TopRuns DEF BeforeStep
<1> DEFINE s == Top
           r == Result(s, v)
<1> HIDE DEF s
<1>2. IsResult(r, s, v, Len(s.frames))
  BY <1>1, ResultFields DEF s
<1> HIDE DEF r
<1>3. r \in PathState /\ r.status = s.status /\ r.cond = s.cond
  BY <1>2 DEF IsResult
<1> QED
  BY <1>1, <1>3 DEF Follower, r, s

LEMMA JumpFollows ==
  ASSUME BeforeStep, NEW k \in Nat
  PROVE  Jump(Top, k) \in PathState /\ Follower(Jump(Top, k))
<1>1. Top \in PathState /\ Top.status = "RUNNING"
  BY TopRuns DEF BeforeStep
<1> DEFINE s == Top
           r == Jump(s, k)
<1> HIDE DEF s
<1>2. IsJump(r, s, k)
  BY <1>1, JumpFields DEF s
<1> HIDE DEF r
<1>3. r \in PathState /\ r.status = s.status /\ r.cond = s.cond
  BY <1>2 DEF IsJump
<1> QED
  BY <1>1, <1>3 DEF Follower, r, s

LEMMA ValuesAccompanied ==
  ASSUME BeforeStep, Input \/ Arithmetic \/ Gep \/ Load
  PROVE  AllAccompanied'
<1>1. PathGood(Top) /\ prog \in Programs
  BY TopRuns DEF BeforeStep
<1>2. \A v \in Scalar \cup Address : Follower(Result(Top, v))
  BY ResultFollows
<1>3. CASE Input
  <2> DEFINE v == [p \in Point |-> p[Top.read + 1]]
             r == Result(Top, v)
             t == [r EXCEPT !.read = @ + 1]
  <2>1. Ins(Top).op = "input" /\ Top.read < Inputs /\ Push(<<t>>)
    BY <1>3 DEF Input, On
  <2>2. v \in Scalar
    <3>1. Top.read + 1 \in 1..Inputs
      BY <2>1, <1>1, ProgramConstantsOK DEF PathGood
    <3> QED
      BY <3>1, ProgramConstantsOK DEF Point, Scalar
  <2>3. r \in PathState /\ Follower(r)
    BY <2>2, ResultFollows
  <2>4. Follower(t)
    <3> HIDE DEF r
    <3> QED
      BY <2>3 DEF Follower, PathState
  <2>5. \A p, F, S, m : Together(Top, p, F, S, m) => Alike(t, p, NextOf(Top, p, F, S))
    BY <2>1, InputAlike
  <2> HIDE DEF t
  <2> QED
    BY <2>1, <2>4, <2>5, OneGoesOn
<1>4. CASE Arithmetic
  <2> DEFINE sum == [p \in Point |-> Arg(Top, 1)[p] + Arg(Top, 2)[p]]
             rest == [p \in Point |-> Arg(Top, 1)[p] - Arg(Top, 2)[p]]
  <2>1. \/ Ins(Top).op = "add" /\ Push(<<Result(Top, sum)>>)
        \/ Ins(Top).op = "sub" /\ Push(<<Result(Top, rest)>>)
    BY <1>4 DEF Arithmetic, On
  <2>2. \A p, F, S, m : Together(Top, p, F, S, m) =>
          /\ Ins(Top).op = "add" => Alike(Result(Top, sum), p, NextOf(Top, p, F, S))
          /\ Ins(Top).op = "sub" => Alike(Result(Top, rest), p, NextOf(Top, p, F, S))
    BY ArithmeticAlike
  <2>3. Arg(Top, 1) \in Scalar /\ Arg(Top, 2) \in Scalar
    BY <1>1, <2>1, Arguments
  <2>4. sum \in Scalar /\ rest \in Scalar
    BY <2>3, SumsScalar
  <2> HIDE DEF sum, rest
  <2> QED
    BY <2>1, <2>2, <2>4, <1>2, OneGoesOn
<1>5. CASE Gep
  <2> DEFINE v == [Target(Top) EXCEPT !.off = Arg(Top, 2)]
  <2>1. Ins(Top).op = "gep" /\ Push(<<Result(Top, v)>>)
    BY <1>5 DEF Gep, On
  <2>2. Arg(Top, 2) \in Scalar /\ Target(Top) \in Address
    BY <1>1, <2>1, Arguments DEF AddressIn
  <2>3. v \in Address
    BY <2>2 DEF Address
  <2>4. \A p, F, S, m : Together(Top, p, F, S, m) =>
          Alike(Result(Top, v), p, NextOf(Top, p, F, S))
    BY <2>1, GepAlike
  <2> HIDE DEF v
  <2> QED
    BY <2>1, <2>3, <2>4, <1>2, OneGoesOn
<1>6. CASE Load
  <2> DEFINE a == Target(Top)
             cells == Pool(Top, a.loc)[a.base].cells
             v == Read(cells, a.off)
  <2>1. Ins(Top).op = "load" /\ Push(<<Result(Top, v)>>)
    BY <1>6 DEF Load, On, Pool
  <2>2. v \in Scalar
    <3>1. AddressIn(Top, a) /\ Top.objects \in Seq(Object) /\ Top.heap \in Seq(Object)
      BY <1>1, <2>1, Arguments, TopFrame
    <3>2. Pool(Top, a.loc)[a.base] \in Object
      BY <3>1 DEF AddressIn, Pool
    <3>3. cells \in [Index -> Scalar] /\ a.off \in Scalar
      BY <3>1, <3>2 DEF AddressIn, Address, Object
    <3> HIDE DEF cells, a
    <3> QED
      BY <3>3, CellsTyped
  <2>3. \A p, F, S, m : Together(Top, p, F, S, m) =>
          Alike(Result(Top, v), p, NextOf(Top, p, F, S))
    BY <2>1, LoadAlike
  <2> HIDE DEF v
  <2> QED
    BY <2>1, <2>2, <2>3, <1>2, OneGoesOn
<1> QED
  BY <1>3, <1>4, <1>5, <1>6

LEMMA MemoryAccompanied ==
  ASSUME BeforeStep, Alloca \/ Malloc \/ Store
  PROVE  AllAccompanied'
<1>1. PathGood(Top) /\ prog \in Programs
  BY TopRuns DEF BeforeStep
<1>2. CASE Alloca
  <2> DEFINE addr == [loc |-> "STACK", base |-> Len(Top.objects) + 1, off |-> Const(0)]
             r == Result(Top, addr)
             t == [r EXCEPT !.objects = Append(@, NewObject(Ins(Top).dst))]
  <2>1. Ins(Top).op = "alloca" /\ Push(<<t>>)
    BY <1>2 DEF Alloca, On
  <2>2. addr \in Address
    <3>1. Len(Top.objects) \in Nat
      BY <1>1, TopFrame
    <3> QED
      BY <3>1, ConstScalar DEF Address, Loc
  <2>3. r \in PathState /\ Follower(r)
    BY <2>2, ResultFollows
  <2>4. Follower(t)
    <3> HIDE DEF r
    <3> QED
      BY <2>3 DEF Follower, PathState
  <2>5. \A p, F, S, m : Together(Top, p, F, S, m) => Alike(t, p, NextOf(Top, p, F, S))
    BY <2>1, AllocaAlike
  <2> HIDE DEF t
  <2> QED
    BY <2>1, <2>4, <2>5, OneGoesOn
<1>3. ~Malloc
  <2>1. /\ Ins(Top) = prog.code[Top.pc.fn][Top.pc.at]
        /\ Top.pc.fn \in Func /\ Top.pc.at \in DOMAIN prog.code[Top.pc.fn]
    BY <1>1, TopFrame
  <2> QED
    BY <2>1 DEF BeforeStep, Direct, OneObjectEach, Malloc, On
<1>4. CASE Store
  <2> DEFINE a == Target(Top)
             v == Arg(Top, 2)
             r == Advance(Top)
             t == Overwriting(Top, a, v)
  <2>1. Ins(Top).op = "store" /\ Push(<<t>>)
    BY <1>4 DEF Store, On, Overwriting
  <2>2. r \in PathState /\ Follower(r)
    <3>1. Top.pc \in Pc
      BY <1>1, TopFrame
    <3>2. Top.pc.at + 1 \in Nat
      BY <3>1 DEF Pc
    <3> QED
      BY <3>2, JumpFollows DEF Advance
  <2>3. Follower(t)
    <3>1. t = IF a.loc = "STACK"
              THEN [r EXCEPT !.objects[a.base].cells = Write(@, a.off, v)]
              ELSE [r EXCEPT !.heap[a.base].cells = Write(@, a.off, v)]
      BY DEF Overwriting
    <3> HIDE DEF r, t, a, v
    <3> QED
      BY <3>1, <2>2 DEF Follower, PathState
  <2>4. \A p, F, S, m : Together(Top, p, F, S, m) => Alike(t, p, NextOf(Top, p, F, S))
    BY <2>1, StoreAlike
  <2> HIDE DEF t
  <2> QED
    BY <2>1, <2>3, <2>4, OneGoesOn
<1> QED
  BY <1>2, <1>3, <1>4

LEMMA CallsAccompanied ==
  ASSUME BeforeStep, CallCached \/ CallUnknown \/ CallBody
  PROVE  AllAccompanied'
<1>1. PathGood(Top) /\ prog \in Programs /\ Top \in PathState /\ Ins(Top).op = "call"
  BY TopRuns DEF BeforeStep, CallCached, CallUnknown, CallBody, On
<1>2. ~CallCached
  BY DEF BeforeStep, CallCached, Cached
<1>3. CASE CallUnknown
  <2> DEFINE t == [Top EXCEPT !.status = "UNKNOWN"]
  <2>1. Push(<<t>>)
    BY <1>3 DEF CallUnknown
  <2>2. t.status = "UNKNOWN" /\ t.cond = Top.cond
    BY <1>1 DEF PathState
  <2> HIDE DEF t
  <2>3. \A p \in t.cond : Accompanied(t, p)
    BY <2>2 DEF Accompanied, Tells
  <2> QED
    BY <2>1, <2>3, OneAccompanied DEF BeforeStep
<1>4. CASE CallBody
  <2> DEFINE t == Entering(Top)
  <2>1. Push(<<t>>)
    BY <1>4 DEF CallBody, Entering, CallFrame, PassedTo
  <2>2. Follower(t)
    BY <1>1 DEF BeforeStep, Follower, Entering, PathState
  <2>3. \A p, F, S, m : Together(Top, p, F, S, m) => Alike(t, p, NextOf(Top, p, F, S))
    BY <1>1, CallAlike
  <2> HIDE DEF t
  <2> QED
    BY <2>1, <2>2, <2>3, OneGoesOn
<1> QED
  BY <1>2, <1>3, <1>4

LEMMA BranchAccompanied ==
  ASSUME BeforeStep, Branch
  PROVE  AllAccompanied'
<1> DEFINE next == Top.pc.at + 1
           to == Ins(Top).to
           yes == [Jump(Top, next) EXCEPT !.cond = TrueSide(Top)]
           no == [Jump(Top, to) EXCEPT !.cond = FalseSide(Top)]
           new == Feasible(yes) \o Feasible(no)
<1>1. Push(new) /\ Ins(Top).op = "branch" /\ PathGood(Top) /\ Top.status = "RUNNING"
  BY TopRuns DEF Branch, On, BeforeStep, Advance
<1>2. Successors(prog, Top.pc.fn, Top.pc.at) = {next, to} /\ next \in Nat /\ to \in Nat
  <2>1. Ins(Top) = prog.code[Top.pc.fn][Top.pc.at] /\ Top.pc \in Pc /\ Ins(Top) \in Instr
    BY <1>1, TopFrame DEF BeforeStep
  <2>2. ASSUME NEW f, NEW i, prog.code[f][i].op = "branch"
        PROVE  Successors(prog, f, i) = {i + 1, prog.code[f][i].to}
    BY <2>2 DEF Successors
  <2>3. Ins(Top).op = "branch"
    BY <1>1
  <2>4. Successors(prog, Top.pc.fn, Top.pc.at) = {Top.pc.at + 1, Ins(Top).to}
    BY <2>1, <2>2, <2>3
  <2>5. Top.pc.at \in Nat /\ Ins(Top).to \in Nat
    BY <2>1 DEF Pc, Instr
  <2>6. Top.pc.at + 1 \in Nat
    BY <2>5
  <2> QED
    BY <2>4, <2>5, <2>6
<1>3. yes.status = "RUNNING" /\ no.status = "RUNNING"
      /\ yes.cond = TrueSide(Top) /\ no.cond = FalseSide(Top)
  <2> DEFINE a == Jump(Top, next)
             b == Jump(Top, to)
  <2>1. a \in PathState /\ b \in PathState /\ a.status = "RUNNING" /\ b.status = "RUNNING"
    BY <1>2, JumpFollows DEF Follower
  <2>2. \A s \in PathState : \A C : [s EXCEPT !.cond = C].cond = C
                                  /\ [s EXCEPT !.cond = C].status = s.status
    BY DEF PathState
  <2> QED
    BY <2>1, <2>2
<1>4. \A p \in yes.cond : Accompanied(yes, p)
  <2> TAKE p \in yes.cond
  <2>1. p \in Top.cond /\ Arg(Top, 1)[p] # 0 /\ TrueSide(Top) \in SUBSET Top.cond
    BY <1>3 DEF TrueSide
  <2>2. \A F, S, m : Together(Top, p, F, S, m) => Alike(yes, p, NextOf(Top, p, F, S))
    BY <1>1, <1>2, <2>1, BranchAlike
  <2>3. Accompanied(Top, p)
    BY <2>1, TopRuns
  <2> HIDE DEF yes
  <2> QED
    BY <1>1, <1>3, <2>1, <2>2, <2>3, GoesOn DEF BeforeStep
<1>5. \A p \in no.cond : Accompanied(no, p)
  <2> TAKE p \in no.cond
  <2>1. p \in Top.cond /\ Arg(Top, 1)[p] = 0 /\ FalseSide(Top) \in SUBSET Top.cond
    BY <1>3 DEF FalseSide
  <2>2. \A F, S, m : Together(Top, p, F, S, m) => Alike(no, p, NextOf(Top, p, F, S))
    BY <1>1, <1>2, <2>1, BranchAlike
  <2>3. Accompanied(Top, p)
    BY <2>1, TopRuns
  <2> HIDE DEF no
  <2> QED
    BY <1>1, <1>3, <2>1, <2>2, <2>3, GoesOn DEF BeforeStep
<1> HIDE DEF yes, no
<1>6. new \in Seq({yes, no})
      /\ \A k \in DOMAIN new : \A p \in new[k].cond : Accompanied(new[k], p)
  <2>1. CASE yes.cond = {} /\ no.cond = {}
    <3>1. new = <<>>
      BY <2>1 DEF Feasible
    <3> QED
      BY <3>1
  <2>2. CASE yes.cond = {} /\ no.cond # {}
    <3>1. new = <<no>>
      BY <2>2 DEF Feasible
    <3>2. DOMAIN new = {1} /\ new[1] = no /\ new \in Seq({yes, no})
      BY <3>1
    <3> QED
      BY <3>2, <1>5
  <2>3. CASE yes.cond # {} /\ no.cond = {}
    <3>1. new = <<yes>>
      BY <2>3 DEF Feasible
    <3>2. DOMAIN new = {1} /\ new[1] = yes /\ new \in Seq({yes, no})
      BY <3>1
    <3> QED
      BY <3>2, <1>4
  <2>4. CASE yes.cond # {} /\ no.cond # {}
    <3>1. new = <<yes, no>>
      BY <2>4, ConcatTwo DEF Feasible
    <3>2. DOMAIN new = {1, 2} /\ new[1] = yes /\ new[2] = no /\ new \in Seq({yes, no})
      BY <3>1
    <3> QED
      BY <3>2, <1>4, <1>5
  <2> QED
    BY <2>1, <2>2, <2>3, <2>4
<1> HIDE DEF new
<1> QED
  BY <1>1, <1>6, PushedAccompanied DEF BeforeStep

LEMMA ReturnsAccompanied ==
  ASSUME BeforeStep, Return \/ ReturnThrows \/ ReturnMain \/ ReachError
  PROVE  AllAccompanied'
<1>1. /\ PathGood(Top) /\ prog \in Programs /\ Top \in PathState
      /\ Direct(prog) /\ Top.status = "RUNNING"
      /\ \A p \in Top.cond : Accompanied(Top, p)
  BY TopRuns DEF BeforeStep
<1>2. \A s \in PathState : \A x, v :
        /\ [s EXCEPT !.status = x].status = x /\ [s EXCEPT !.status = x].cond = s.cond
        /\ [s EXCEPT !.status = x, !.result = v].status = x
        /\ [s EXCEPT !.status = x, !.result = v].cond = s.cond
        /\ [s EXCEPT !.status = x, !.result = v].result = v
  BY DEF PathState
<1>3. CASE Return
  <2> DEFINE b == Popped(Top)
             v == Arg(Top, 1)
             t == IF Returned(Top) THEN Result(b, v) ELSE Advance(b)
  <2>1. Ins(Top).op = "return" /\ Len(Top.frames) > 1 /\ Push(<<t>>)
    BY <1>3 DEF Return, On, Popped
  <2>2. PathGood(b) /\ b.status = "RUNNING" /\ b.cond = Top.cond
    <3>1. PathGood(b)
      BY <1>1, <2>1, PopGood DEF Popped
    <3>2. b.status = Top.status /\ b.cond = Top.cond
      BY <1>1 DEF Popped, PathState
    <3> QED
      BY <3>1, <3>2, <1>1
  <2>3. Returned(Top) => v \in Scalar
    BY <1>1, <2>1, Arguments
  <2> HIDE DEF b, v
  <2>4. Follower(t)
    <3>1. CASE Returned(Top)
      <4> DEFINE r == Result(b, v)
      <4>1. IsResult(r, b, v, Len(b.frames))
        BY <3>1, <2>2, <2>3, <1>1, ResultFields
      <4> HIDE DEF r
      <4>2. r.status = "RUNNING" /\ r.cond = Top.cond
        BY <4>1, <2>2 DEF IsResult
      <4> QED
        BY <4>2, <3>1 DEF Follower, r
    <3>2. CASE ~Returned(Top)
      <4> DEFINE r == Advance(b)
      <4>1. IsJump(r, b, b.pc.at + 1)
        BY <2>2, <1>1, AdvanceFields
      <4> HIDE DEF r
      <4>2. r.status = "RUNNING" /\ r.cond = Top.cond
        BY <4>1, <2>2 DEF IsJump
      <4> QED
        BY <4>2, <3>2 DEF Follower, r
    <3> QED
      BY <3>1, <3>2
  <2>5. \A p, F, S, m : Together(Top, p, F, S, m) => Alike(t, p, NextOf(Top, p, F, S))
    BY <2>1, ReturnAlike DEF b, v
  <2> HIDE DEF t
  <2> QED
    BY <2>1, <2>4, <2>5, OneGoesOn
<1>4. CASE ReturnThrows
  <2> DEFINE t == [Top EXCEPT !.status = "exception"]
  <2>1. Push(<<t>>)
    BY <1>4 DEF ReturnThrows
  <2>2. t.status = "exception" /\ t.cond = Top.cond
    BY <1>1, <1>2
  <2> HIDE DEF t
  <2>3. \A p \in t.cond : Accompanied(t, p)
    BY <2>2 DEF Accompanied, Tells
  <2> QED
    BY <2>1, <2>3, OneAccompanied DEF BeforeStep
<1>5. CASE ReturnMain
  <2> DEFINE v == IF Returned(Top) THEN Arg(Top, 1) ELSE Top.result
             t == [Top EXCEPT !.status = "TERMINATED", !.result = v]
  <2>1. Ins(Top).op = "return" /\ Len(Top.frames) = 1 /\ Push(<<t>>)
    BY <1>5 DEF ReturnMain, On
  <2>2. t.status = "TERMINATED" /\ t.cond = Top.cond /\ t.result = v
    <3> HIDE DEF v
    <3> QED
      BY <1>1, <1>2
  <2> HIDE DEF t
  <2>3. \A p \in t.cond : Accompanied(t, p)
    BY <1>1, <2>1, <2>2, ComesToEnd
  <2> QED
    BY <2>1, <2>3, OneAccompanied DEF BeforeStep
<1>6. CASE ReachError
  <2> DEFINE t == [Top EXCEPT !.status = "REACH_ERROR"]
  <2>1. Ins(Top).op = "error" /\ Push(<<t>>)
    BY <1>6 DEF ReachError, On
  <2>2. t.status = "REACH_ERROR" /\ t.cond = Top.cond
    BY <1>1, <1>2
  <2> HIDE DEF t
  <2>3. \A p \in t.cond : Accompanied(t, p)
    BY <1>1, <2>1, <2>2, ComesToEnd
  <2> QED
    BY <2>1, <2>3, OneAccompanied DEF BeforeStep
<1> QED
  BY <1>3, <1>4, <1>5, <1>6

EndedTell == \A e \in ended : \A p \in e.cond : Undecided(p) \/ Tells(e, p)

LEMMA EndsTell ==
  ASSUME Worklist, AllAccompanied, EndedTell, AllGood, End
  PROVE  AllAccompanied' /\ EndedTell'
<1>1. ~Done /\ prog' = prog /\ Push(<<>>) /\ Top.status # "RUNNING"
  BY DEF End
<1>2. <<>> \in Seq({}) /\ DOMAIN <<>> = {}
  OBVIOUS
<1>3. AllAccompanied'
  BY <1>1, <1>2, PushedAccompanied
<1>4. \A p \in Top.cond : Accompanied(Top, p)
  BY <1>1, GoodTop DEF AllAccompanied
<1> DEFINE e == [cond |-> Top.cond, status |-> Top.status, result |-> Top.result]
<1>5. \A p \in e.cond : Undecided(p) \/ Tells(e, p)
  BY <1>4 DEF Accompanied, Tells
<1>6. ended' = ended \cup {e}
  BY DEF End
<1> HIDE DEF e
<1> SUFFICES ASSUME NEW d \in ended', NEW p \in d.cond
             PROVE  Undecided(p)' \/ Tells(d, p)'
  BY <1>3 DEF EndedTell
<1>7. Undecided(p) \/ Tells(d, p)
  BY <1>5, <1>6 DEF EndedTell
<1> QED
  BY <1>1, <1>7, SameExecutions

\* The inductive invariant: on a direct program nothing is cached, every path
\* accompanies its executions, and those that ended told the truth.
DirectInv == Direct(prog) => cache = <<>> /\ AllAccompanied /\ EndedTell

LEMMA InitDirect ==
  ASSUME Init
  PROVE  DirectInv
<1> SUFFICES ASSUME NEW s \in Paths, NEW p \in s.cond
             PROVE  Accompanied(s, p)
  BY DEF DirectInv, AllAccompanied, EndedTell, Init
<1>1. prog \in Programs /\ states = <<InitialState(prog)>>
  BY DEF Init
<1>2. s = InitialState(prog)
  <2> DEFINE t == InitialState(prog)
  <2> HIDE DEF t
  <2>1. DOMAIN states = {1} /\ states[1] = t
    BY <1>1 DEF t
  <2> QED
    BY <2>1 DEF Paths, t
<1>3. s.cond = Point /\ s.status = "RUNNING"
  BY <1>2 DEF InitialState
<1>4. Execution(p)[0] = Begin(prog, "main", <<>>)
  BY RunIs DEF Execution
<1>5. Alike(s, p, Execution(p)[0])
  BY <1>1, <1>2, <1>3, <1>4, InitialAlike
<1> QED
  BY <1>3, <1>5, ProgramConstantsOK DEF Accompanied, Tells

LEMMA NextKeepsDirect ==
  ASSUME Worklist, MemoryInv, DirectInv, [Next]_vars
  PROVE  DirectInv'
<1>1. prog' = prog
  BY DEF Next, vars, Input, Arithmetic, Alloca, Malloc, Gep, Load, Store, Branch,
         CallCached, CallUnknown, CallBody, Return, ReturnThrows, ReturnMain,
         ReachError, End, UnchangedButStates
<1> SUFFICES ASSUME Direct(prog)
             PROVE  cache' = <<>> /\ AllAccompanied' /\ EndedTell'
  BY <1>1 DEF DirectInv
<1>2. cache = <<>> /\ AllAccompanied /\ EndedTell /\ prog \in Programs /\ AllGood
  BY DEF DirectInv, MemoryInv, AllGood
<1>3. ended' = ended => EndedTell'
  BY <1>1, <1>2, SameExecutions DEF EndedTell
<1> DEFINE Running == ~Done /\ Top.status = "RUNNING"
<1>4. Running => BeforeStep
  BY <1>1, <1>2 DEF BeforeStep
<1>5. CASE UNCHANGED vars
  <2>1. states' = states /\ ended' = ended /\ cache' = cache
    BY <1>5 DEF vars
  <2>2. Paths' = Paths
    BY <2>1 DEF Paths
  <2>3. AllAccompanied'
    BY <1>1, <1>2, <2>2, SameExecutions DEF AllAccompanied
  <2> QED
    BY <1>2, <1>3, <2>1, <2>3
<1>6. CASE Input \/ Arithmetic \/ Gep \/ Load
  <2>1. Running /\ UnchangedButStates
    BY <1>6 DEF Input, Arithmetic, Gep, Load, On
  <2>2. AllAccompanied'
    BY <1>4, <1>6, <2>1, ValuesAccompanied
  <2> QED
    BY <1>2, <1>3, <2>1, <2>2 DEF UnchangedButStates
<1>7. CASE Alloca \/ Malloc \/ Store
  <2>1. Running /\ UnchangedButStates
    BY <1>7 DEF Alloca, Malloc, Store, On
  <2>2. AllAccompanied'
    BY <1>4, <1>7, <2>1, MemoryAccompanied
  <2> QED
    BY <1>2, <1>3, <2>1, <2>2 DEF UnchangedButStates
<1>8. CASE Branch
  <2>1. Running /\ UnchangedButStates
    BY <1>8 DEF Branch, On
  <2>2. AllAccompanied'
    BY <1>4, <1>8, <2>1, BranchAccompanied
  <2> QED
    BY <1>2, <1>3, <2>1, <2>2 DEF UnchangedButStates
<1>9. CASE CallCached \/ CallUnknown \/ CallBody
  <2>1. Running /\ cache' = cache /\ ended' = ended
    BY <1>9 DEF CallCached, CallUnknown, CallBody, On, UnchangedButStates
  <2>2. AllAccompanied'
    BY <1>4, <1>9, <2>1, CallsAccompanied
  <2> QED
    BY <1>2, <1>3, <2>1, <2>2
<1>10. CASE Return \/ ReturnThrows \/ ReturnMain \/ ReachError
  <2>1. Running /\ ended' = ended
    BY <1>10 DEF Return, ReturnThrows, ReturnMain, ReachError, On, UnchangedButStates
  <2>2. AllAccompanied'
    BY <1>4, <1>10, <2>1, ReturnsAccompanied
  <2>3. cache' = cache
    <3>1. CASE Return
      <4>1. PathGood(Top) /\ Ins(Top).op = "return" /\ Len(Top.frames) > 1
        BY <3>1, <1>4, <2>1, TopRuns DEF Return, On
      <4>2. ~Caches(Top)
        BY <4>1, <1>2, NothingCached
      <4> QED
        BY <3>1, <4>2 DEF Return
    <3>2. CASE ~Return
      BY <3>2, <1>10 DEF ReturnThrows, ReturnMain, ReachError, UnchangedButStates
    <3> QED
      BY <3>1, <3>2
  <2> QED
    BY <1>2, <1>3, <2>1, <2>2, <2>3
<1>11. CASE End
  <2>1. cache' = cache
    BY <1>11 DEF End
  <2> QED
    BY <1>2, <1>11, <2>1, EndsTell
<1> QED
  BY <1>5, <1>6, <1>7, <1>8, <1>9, <1>10, <1>11 DEF Next

LEMMA DirectHolds == Spec => []DirectInv
<1>1. Init => DirectInv
  BY InitDirect
<1>2. Worklist /\ MemoryInv /\ DirectInv /\ [Next]_vars => DirectInv'
  BY NextKeepsDirect
<1> QED
  BY <1>1, <1>2, MemoryIsSound, PTL DEF Spec

\* On a direct program - one where cache_func_value never applies, no malloc
\* lets a name stand for two objects, and every access is defined - whose
\* executions are short enough to be seen, the path that Engine::run ends for
\* an input returns what the program returns on it, and reaches an error only
\* where the program does: the instructions of AInstruction.cpp, frames and
\* objects in MStack and Memory and the splitting of path conditions at
\* branches and calls lose nothing and mix nothing up.
THEOREM ResultsAreRight ==
  Spec => [](Direct(prog) /\ (\A p \in Point : Outcome(prog, p).how # "runs")
               => ResultRight)
<1>1. DirectInv /\ EachPointOnce =>
        (Direct(prog) /\ (\A p \in Point : Outcome(prog, p).how # "runs") => ResultRight)
  <2> SUFFICES ASSUME DirectInv, EachPointOnce, Direct(prog),
                      NEW e \in ended, NEW p \in e.cond,
                      \A q \in Point : Outcome(prog, q).how # "runs"
               PROVE  Tells(e, p)
    BY DEF ResultRight, Tells
  <2>1. Undecided(p) \/ Tells(e, p)
    BY DEF DirectInv, EndedTell
  <2>2. p \in Point
    BY DEF EachPointOnce
  <2> QED
    BY <2>1, <2>2 DEF Undecided
<1> QED
  BY <1>1, DirectHolds, InputsPartitioned, PTL

\* On every direct program, long executions or not: when Engine::run has no
\* state left and reports SAFE, because every path ended without an error,
\* the program reaches no error on any input.
THEOREM SafetyIsSound == Spec => [](Direct(prog) => SafeIsSafe)
<1>1. DirectInv /\ EachPointOnce => (Direct(prog) => SafeIsSafe)
  <2> SUFFICES ASSUME DirectInv, EachPointOnce, Direct(prog), states = <<>>,
                      \A e \in ended : e.status = "TERMINATED", NEW p \in Point
               PROVE  Outcome(prog, p).how # "error"
    BY DEF SafeIsSafe
  <2>1. Paths = {}
    BY DEF Paths
  <2>2. PICK e \in ended : p \in e.cond
    BY <2>1 DEF EachPointOnce
  <2>3. Undecided(p) \/ Tells(e, p)
    BY <2>2 DEF DirectInv, EndedTell
  <2>4. Outcome(prog, p).how \in {"runs", "returns"}
    BY <2>2, <2>3 DEF Undecided, Tells
  <2> QED
    BY <2>4
<1> QED
  BY <1>1, DirectHolds, InputsPartitioned, PTL
=============================================================================
