------------------------------ MODULE MCEngine ------------------------------
(***************************************************************************)
(* Small programs for the engine: three instructions in a row, n1, n2 and  *)
(* n3, each of which goes on to a later one, to an error call, or to the   *)
(* return; a and b are the inputs, g is a valuation that no input gives.   *)
(***************************************************************************)
EXTENDS Engine, FiniteSetsExt, TLC

CONSTANTS a, b, g, n1, n2, n3, err, ret

MCPoint == {a, b, g}
MCInput == {a, b}
MCNode == {n1, n2, n3, err, ret}

Same == [p \in MCPoint |-> {p}]
Nothing == [p \in MCPoint |-> {}]
Havoc == [p \in MCPoint |-> {p, g}]

\* An instruction of which only some fields matter.
Plain(op, next, alt) ==
  [op |-> op, next |-> next, alt |-> alt, noundef |-> FALSE, def |-> MCPoint,
   holds |-> MCPoint, out |-> Same, exact |-> TRUE, hides |-> FALSE,
   oneExit |-> TRUE, cert |-> "none", scalar |-> TRUE, query |-> {},
   inner |-> {}]
ErrorCall == Plain("error", err, err)
ReturnMain == Plain("return", ret, ret)

Branches(next, alt) ==
  {[Plain("branch", next, alt) EXCEPT !.holds = h, !.def = d] :
     h \in {{a}, {a, b}}, d \in {MCPoint, {b}}}
Asserts(next) ==
  {[Plain("assert", next, next) EXCEPT !.holds = h, !.def = d, !.noundef = u] :
     h \in {{}, {b}, MCInput, MCPoint}, d \in {MCPoint, {a}}, u \in BOOLEAN}
Assumes(next) ==
  {[Plain("assume", next, next) EXCEPT !.holds = h] : h \in {{}, {a}}}
Calls(next) ==
  {[Plain("call", next, next) EXCEPT !.def = d, !.noundef = u, !.scalar = s] :
     d \in {{}, {a}}, u \in BOOLEAN, s \in BOOLEAN}
Jumps(next, alt) ==
  {[Plain(op, next, alt) EXCEPT !.holds = h] :
     op \in {"accel", "nested"}, h \in {{a, g}, MCPoint}}

\* Summaries that are exact, or that let g through as well.
ExactSummary(i, h) ==
  [i EXCEPT !.holds = h, !.out = [p \in MCPoint |-> {p} \cap h]]
LooseSummary(i) == [i EXCEPT !.exact = FALSE, !.out = Havoc]
Funcs(next) ==
  LET f == Plain("func", next, next)
  IN  {[ExactSummary(f, h) EXCEPT !.hides = c, !.cert = "any"] :
         h \in {MCPoint, {b}}, c \in BOOLEAN}
        \cup {[LooseSummary(f) EXCEPT !.scalar = FALSE]}
Loops(next) ==
  LET l == Plain("loop", next, next)
  IN  {[ExactSummary(l, h) EXCEPT !.hides = c, !.cert = "any"] :
         h \in {MCPoint, {b}}, c \in BOOLEAN}
        \cup {LooseSummary(l)}

\* Loops with assertions inside: refuted by the solver, rightly or wrongly.
Suspects(next) ==
  LET l == Plain("loop", next, next)
  IN  {[LooseSummary(l) EXCEPT !.query = {a}, !.inner = {a}],
       [l EXCEPT !.query = {a}, !.inner = {a}, !.hides = TRUE]}
Unknowns(next) == {Plain("unknown", next, next)}

Instrs(next, alt) ==
  UNION {Branches(next, alt), Asserts(next), Assumes(next), Calls(next),
         Jumps(next, alt), Funcs(next), Loops(next), Suspects(next),
         Unknowns(next)}

\* The program n1: i, n2: j, n3: k, with the points that go wrong.
Program3(i, j, k) ==
  LET b0 == [n \in MCNode |-> IF n = err THEN MCPoint ELSE {}]
      b3 == [b0 EXCEPT ![n3] = WrongAt(k, b0[k.next], b0[k.alt])]
      b2 == [b3 EXCEPT ![n2] = WrongAt(j, b3[j.next], b3[j.alt])]
      b1 == [b2 EXCEPT ![n1] = WrongAt(i, b2[i.next], b2[i.alt])]
  IN  [node |-> MCNode, entries |-> {n1},
       instr |-> [n \in MCNode |-> CASE n = n1 -> i [] n = n2 -> j [] n = n3 -> k
                                   [] n = err -> ErrorCall
                                   [] OTHER -> ReturnMain],
       bad |-> b1]

Certified3(P) ==
  \A n \in MCNode :
    P.instr[n].op \in {"accel", "nested"} =>
      CertifiedJump(P.instr[n], P.bad[P.instr[n].next], P.bad[P.instr[n].alt])

\* All of them, numbered.
Listed(S) == FoldSet(LAMBDA x, list : Append(list, x), <<>>, S)
Programs3(I, J, K) ==
  LET pairs == Len(I) * Len(J)
      Numbered(m) == Program3(I[1 + (m % Len(I))],
                              J[1 + ((m \div Len(I)) % Len(J))],
                              K[1 + (m \div pairs)])
  IN  SelectSeq([m \in 1..(pairs * Len(K)) |-> Numbered(m - 1)], Certified3)

\* The last instruction: one that may fail, or that needs a feasible path.
Last == Listed({ErrorCall, Plain("call", ret, ret),
                CHOOSE i \in Branches(err, ret) : i.holds = {a},
                CHOOSE i \in Asserts(ret) : i.holds = {b}})

\* Every kind of instruction before every other.  (TLC keeps the value of a
\* definition, not that of a substituted constant: hence the second name.)
SoundList == Programs3(Listed(Instrs(n2, n3)), Listed(Instrs(n3, n3)), Last)
SoundPrograms == SoundList
ASSUME SoundHypotheses ==
  \A m \in DOMAIN SoundList :
    NothingDropped(SoundList[m]) /\ NothingInvented(SoundList[m])

(***************************************************************************)
(* Instructions on which the engine answers wrongly, one kind for each     *)
(* way, and programs of which they are a part.                             *)
(***************************************************************************)
OneByOne(I) == Programs3(Listed(I), Listed(Assumes(n3)), <<ErrorCall>>)

\* A loop without a unique exit block.
MultiExit(next) == {[Plain("loop", next, next) EXCEPT !.oneExit = FALSE]}
MultiExitList == OneByOne(MultiExit(n2))
MultiExitPrograms == MultiExitList

\* A summarised recursive function that violates an assertion inside it.
InnerAssert(next) == {[Plain("func", next, next) EXCEPT !.inner = {b}]}

\* A loop whose assertion fails for valuations that the path excludes.
WideQuery(next) == {[Plain("loop", next, next) EXCEPT !.query = {b}]}

\* A loop reached along two paths, of which the closed form keeps the values.
PathForms(next) ==
  {[Plain("loop", next, next) EXCEPT !.cert = "path"],
   [Plain("func", next, next) EXCEPT !.cert = "any"]}
PathFormList == Programs3(Listed(Branches(n2, n3)), Listed(Assumes(n3)),
                          Listed(PathForms(ret)))
PathFormPrograms == PathFormList

\* All of these together, each entered at n1 or at n2.
Wild(next, alt) ==
  UNION {MultiExit(next), InnerAssert(next), WideQuery(next), PathForms(next),
         Branches(next, alt), Asserts(next), Jumps(next, alt), Suspects(next),
         Unknowns(next), {LooseSummary(Plain("loop", next, next))}}
AnyList ==
  LET list == Programs3(Listed(Wild(n2, n3)), Listed(Wild(n3, n3)),
                        Last \o Listed(PathForms(ret)))
  IN  [m \in DOMAIN list |-> [list[m] EXCEPT !.entries = {n1, n2}]]
AnyPrograms == AnyList
=============================================================================
