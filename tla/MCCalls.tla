------------------------------- MODULE MCCalls ------------------------------
(***************************************************************************)
(* Small programs for module Calls: main calls f twice, in several ways,   *)
(* and f is one of several functions.                                      *)
(***************************************************************************)
EXTENDS Calls

CONSTANTS n, m, t, u, y, w, p, q, r, g

MCFunc == {"main", "f", "h"}
MCName == {n, m, t, u, y, w, p, q, r, g}
MCVal == 0..2

I(op, dst, args) == [op |-> op, dst |-> dst, args |-> args, fn |-> "f", to |-> 0]
CallOf(dst, fn, args) == [I("call", dst, args) EXCEPT !.fn = fn]
IfZero(x, to) == [I("branch", n, <<x>>) EXCEPT !.to = to]
Ret(x) == I("return", n, <<x>>)
RetVoid == I("return", n, <<>>)
Error == I("error", n, <<>>)
-----------------------------------------------------------------------------
\* Bodies of f(n) that depend on n alone.

Successor == <<I("add", t, <<n, 1>>), Ret(t)>>
\* Reads nothing but its argument, and tests it.
Decide == <<IfZero(n, 3), Ret(7), Ret(0)>>
\* f(n) = n = 0 ? 0 : f(n - 1) + n, with n kept in a local array meanwhile.
Sum == <<I("alloca", p, <<>>), I("gep", q, <<p, 1>>), I("store", t, <<q, n>>),
         IfZero(n, 10), I("sub", t, <<n, 1>>), CallOf(u, "f", <<t>>),
         I("load", y, <<q>>), I("add", w, <<u, y>>), Ret(w), Ret(0)>>
\* Looks n up in a local array whose cells are written in turn.
Table == <<I("alloca", p, <<>>), I("store", t, <<p, 4>>),
           I("gep", q, <<p, 1>>), I("store", t, <<q, 5>>),
           I("gep", q, <<p, 2>>), I("store", t, <<q, 6>>),
           I("gep", r, <<p, n>>), I("load", t, <<r>>), Ret(t)>>
\* Writes to an unknown cell and reads another.
Scatter == <<I("alloca", p, <<>>), I("store", t, <<p, 4>>),
             I("gep", r, <<p, n>>), I("store", t, <<r, 8>>),
             I("load", t, <<p>>), Ret(t)>>
\* Lets h write to its local.
ByReference == <<I("alloca", p, <<>>), I("store", t, <<p, n>>),
                 CallOf(t, "h", <<p, n>>), I("load", t, <<p>>), Ret(t)>>
\* Uses an object on the heap.
OnHeap == <<I("malloc", p, <<>>), I("store", t, <<p, n>>),
            I("load", t, <<p>>), I("add", u, <<t, 2>>), Ret(u)>>
PureBodies == {Successor, Decide, Sum, Table, Scatter, ByReference, OnHeap}

\* Bodies of f that depend on more, or that the engine reads otherwise than
\* the semantics does.
ReadsGlobal == <<I("load", t, <<g>>), Ret(t)>>
AsksInput == <<I("input", t, <<>>), IfZero(t, 4), Ret(7), Ret(0)>>
InteriorPointer == <<I("alloca", p, <<>>), I("gep", q, <<p, 1>>),
                     I("store", t, <<q, 5>>), I("gep", r, <<q, 1>>),
                     I("store", t, <<r, 6>>), I("load", t, <<q>>), Ret(t)>>
HeapSum == <<I("malloc", p, <<>>)>> \o SubSeq(Sum, 2, 10)

\* h(m, n): *m = n + 2, with a local of its own.
WriteThrough == <<I("alloca", q, <<>>), I("store", t, <<q, n>>),
                  I("load", t, <<q>>), I("add", u, <<t, 2>>),
                  I("store", t, <<m, u>>), RetVoid>>
\* The same, and returns a constant although a parameter is a pointer.
WriteAndReturn == SubSeq(WriteThrough, 1, 5) \o <<Ret(0)>>
\* The same, and returns what it wrote.
WriteAndGive == SubSeq(WriteThrough, 1, 5) \o <<Ret(u)>>
-----------------------------------------------------------------------------
\* Bodies of main.

\* f(x) - f(1) for an input x, where an error is reached if f(x) = f(1) + k.
Compare(k) == <<I("input", t, <<>>), CallOf(u, "f", <<t>>), CallOf(y, "f", <<1>>),
                I("sub", w, <<u, y>>), I("sub", r, <<w, k>>), IfZero(r, 8),
                Ret(w), Error>>
\* One side of a branch calls f first; then both call it with the same
\* argument, or with an input.
AfterBranch == <<I("input", t, <<>>), IfZero(t, 5), CallOf(u, "f", <<2>>),
                 Ret(u), I("input", y, <<>>), CallOf(u, "f", <<2>>),
                 CallOf(w, "f", <<y>>), I("sub", r, <<w, u>>), Ret(r)>>
\* The argument is an input that a branch has fixed.
Known == <<I("input", t, <<>>), IfZero(t, 6), I("sub", u, <<t, 1>>), IfZero(u, 6),
           Ret(t), CallOf(y, "f", <<t>>), CallOf(w, "f", <<t>>),
           I("sub", r, <<y, w>>), Ret(r)>>
\* f(1) is called before and after a store to the global.
AroundStore == <<I("store", n, <<g, 1>>), CallOf(u, "f", <<1>>),
                 I("store", n, <<g, 2>>), CallOf(y, "f", <<1>>),
                 I("sub", w, <<u, y>>), IfZero(w, 8), Error, Ret(0)>>
\* An error is reached if f(j) = f(i) + k.
Differ(i, j, k) == <<CallOf(u, "f", <<i>>), CallOf(y, "f", <<j>>),
                     I("sub", w, <<y, u>>), I("sub", r, <<w, k>>), IfZero(r, 7),
                     Ret(w), Error>>
\* An error is reached if f(0) = k.
Yields(k) == <<CallOf(u, "f", <<0>>), I("sub", w, <<u, k>>), IfZero(w, 5),
               Ret(u), Error>>
\* h writes t + 2 to x; an error is reached if that is k.
Passing(x, k) == <<I("input", t, <<>>), I("alloca", p, <<>>), I("store", t, <<p, t>>),
                   CallOf(w, "h", <<x, t>>), I("load", y, <<x>>), I("sub", r, <<y, k>>),
                   IfZero(r, 9), Ret(y), Error>>
\* Counts to the input t in a local; an error is reached if t is k.
Counting(k) == <<I("input", t, <<>>), I("alloca", p, <<>>), I("gep", q, <<p, 1>>),
                 I("store", n, <<q, 0>>), I("load", y, <<q>>), I("sub", u, <<y, t>>),
                 IfZero(u, 11), I("add", w, <<y, 1>>), I("store", n, <<q, w>>),
                 IfZero(0, 5), I("sub", r, <<y, k>>), IfZero(r, 14), Ret(y), Error>>
PureMains == {Compare(k) : k \in {0, 1}} \cup {AfterBranch, Known, AroundStore}

Prog(main, f, h) ==
  [code |-> [x \in MCFunc |-> CASE x = "main" -> main
                                [] x = "f" -> f [] x = "h" -> h],
   params |-> [x \in MCFunc |-> CASE x = "main" -> <<>>
                                  [] x = "f" -> <<n>> [] x = "h" -> <<m, n>>],
   pointers |-> {m, g}, globals |-> <<g>>]

PurePrograms ==
  {Prog(main, f, WriteThrough) : main \in PureMains, f \in PureBodies}
    \cup {Prog(Known, ByReference, WriteAndReturn)}
DirectPrograms ==
  {Prog(Passing(x, k), Table, h) : x \in {p, g}, k \in {3, 9},
                                   h \in {WriteThrough, WriteAndGive}}
    \cup {Prog(Counting(k), Table, WriteThrough) : k \in {2, 9}}
ASSUME DirectProgramsAreDirect ==
  \A P \in DirectPrograms :
    Direct(P) /\ \A x \in Point : Outcome(P, x).how # "runs"
RightPrograms == PurePrograms \cup DirectPrograms
\* Programs on which a cached value or a pointer is wrong.
GlobalPrograms == {Prog(AroundStore, ReadsGlobal, WriteThrough)}
InputPrograms == {Prog(Differ(1, 1, 7), AsksInput, WriteThrough)}
\* One and 2^Width + 1 are the same int.
WidePrograms == {Prog(Differ(1, 9, 8), Successor, WriteThrough)}
InteriorPrograms == {Prog(Yields(5), InteriorPointer, WriteThrough)}
HeapPrograms == {Prog(Known, HeapSum, WriteThrough),
                 Prog(Differ(1, 2, 2), HeapSum, WriteThrough)}
=============================================================================
