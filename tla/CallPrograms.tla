---------------------------- MODULE CallPrograms ----------------------------
(***************************************************************************)
(* Programs of functions that call each other and use local, global and    *)
(* heap objects, and what executing them means.  A program is what the     *)
(* frontend leaves for the engine: every operand is a constant or an SSA   *)
(* name, and a name of pointer type is the result of an alloca, a malloc,  *)
(* or a getelementptr, a pointer parameter, or a global.                   *)
(*                                                                         *)
(* The semantics runs one choice of inputs at a time; the symbolic machine *)
(* of module Calls is compared with it.                                    *)
(***************************************************************************)
EXTENDS Integers, Sequences

CONSTANTS
  Func,    \* the functions, "main" among them
  Name,    \* the SSA names and the globals
  Val,     \* the values an input may have
  Inputs,  \* how many inputs an execution reads at most
  Size,    \* how many cells an object has
  Undef,   \* what a cell holds that was never written
  Steps    \* bound on the length of an execution

ASSUME ProgramConstantsOK ==
  /\ "main" \in Func
  /\ Val \subseteq Int
  /\ Val # {}
  /\ Inputs \in Nat
  /\ Size \in Nat \ {0}
  /\ Undef \in Int
  /\ Steps \in Nat

\* A point decides all inputs: p[k] is what the k-th nondet call returns.
Point == [1..Inputs -> Val]
Index == 0..(Size - 1)
Operand == Name \cup Int
Op == {"input", "add", "sub", "alloca", "malloc", "gep", "load", "store",
       "branch", "call", "return", "error"}

\* dst names the result; args are the operands; fn is the callee of a call;
\* to is where a branch goes when its operand is zero.
Instr == [op: Op, dst: Name, args: Seq(Operand), fn: Func, to: Nat]
Program ==
  [code: [Func -> Seq(Instr)], params: [Func -> Seq(Name)],
   pointers: SUBSET Name, globals: Seq(Name)]

Callees(P, f) ==
  {P.code[f][i].fn : i \in {j \in DOMAIN P.code[f] : P.code[f][j].op = "call"}}
Takes(P, f) == {P.params[f][i] : i \in DOMAIN P.params[f]}
-----------------------------------------------------------------------------
(***************************************************************************)
(* What LLVM's verifier guarantees of a module and of its allocas.         *)
(***************************************************************************)
\* Where execution may go from i.
Successors(P, f, i) ==
  LET ins == P.code[f][i]
  IN  CASE ins.op \in {"return", "error"} -> {}
        [] ins.op = "branch" -> {i + 1, ins.to}
        [] OTHER -> {i + 1}

ReturnsValue(P, f) ==
  \A i \in DOMAIN P.code[f] :
    P.code[f][i].op = "return" => P.code[f][i].args # <<>>
\* The instruction i makes a value for the name x.
Defines(P, f, i, x) ==
  LET ins == P.code[f][i]
  IN  /\ x = ins.dst
      /\ \/ ins.op \in {"input", "add", "sub", "alloca", "malloc", "gep", "load"}
         \/ ins.op = "call" /\ ReturnsValue(P, ins.fn)
GlobalNames(P) == {P.globals[i] : i \in DOMAIN P.globals}
\* On every way to i the name x gets a value: without the instructions that
\* define x, not all of them can be followed.
Available(P, f, i, x) ==
  \/ x \in Takes(P, f) \cup GlobalNames(P)
  \/ \E S \in SUBSET DOMAIN P.code[f] :
       /\ 1 \in S
       /\ \A j \in S : ~Defines(P, f, j, x) => Successors(P, f, j) \subseteq S
       /\ i \notin S

Results(P, f, ops) ==
  {P.code[f][i].dst : i \in {j \in DOMAIN P.code[f] : P.code[f][j].op \in ops}}
\* The names whose object is found on the heap, and all of pointer type.
HeapNames(P, f) == GlobalNames(P) \cup Results(P, f, {"malloc"})
PointerNames(P, f) == (Takes(P, f) \cap P.pointers) \cup HeapNames(P, f)
                        \cup Results(P, f, {"alloca", "gep"})

IntegerAt(P, f, i, x) ==
  IF x \in Name THEN x \notin PointerNames(P, f) /\ Available(P, f, i, x)
                ELSE x \in Int
PointerAt(P, f, i, x) == /\ x \in Name
                         /\ x \in PointerNames(P, f)
                         /\ Available(P, f, i, x)
\* The operands of i have the types that its kind asks for.
OperandsOK(P, f, i) ==
  LET ins == P.code[f][i]
      Integer(k) == IntegerAt(P, f, i, ins.args[k])
  IN  /\ ins.op \in {"add", "sub"} =>
           Len(ins.args) = 2 /\ Integer(1) /\ Integer(2)
      /\ ins.op \in {"gep", "store"} =>
           Len(ins.args) = 2 /\ PointerAt(P, f, i, ins.args[1]) /\ Integer(2)
      /\ ins.op = "load" =>
           Len(ins.args) = 1 /\ PointerAt(P, f, i, ins.args[1])
      /\ ins.op = "branch" => Len(ins.args) = 1 /\ Integer(1)
      /\ ins.op = "return" => Len(ins.args) \in {0, 1}
      /\ ins.op = "return" /\ ins.args # <<>> => Integer(1)
      /\ ins.op = "call" =>
           /\ Len(ins.args) = Len(P.params[ins.fn])
           /\ \A k \in DOMAIN ins.args :
                IF P.params[ins.fn][k] \in P.pointers
                THEN PointerAt(P, f, i, ins.args[k]) ELSE Integer(k)
\* An alloca is in the entry block, which no branch enters, and no other
\* instruction defines its name.
AllocaOK(P, f, i) ==
  /\ \A j \in DOMAIN P.code[f] : P.code[f][j].op = "branch" => P.code[f][j].to > i
  /\ \A j \in DOMAIN P.code[f] \ {i} :
       P.code[f][j].op \in {"input", "add", "sub", "alloca", "gep", "load", "call"}
         => P.code[f][j].dst # P.code[f][i].dst

WellFormed(P) ==
  /\ P.params["main"] = <<>>
  /\ \A f \in Func :
       /\ P.code[f] # <<>>
       /\ \A k \in DOMAIN P.params[f] :
            P.params[f][k] \in PointerNames(P, f) => P.params[f][k] \in P.pointers
       /\ Results(P, f, {"input", "add", "sub", "load", "call"})
            \cap PointerNames(P, f) = {}
       /\ \A i \in DOMAIN P.code[f] :
            /\ Successors(P, f, i) \subseteq DOMAIN P.code[f]
            /\ OperandsOK(P, f, i)
            /\ P.code[f][i].op = "alloca" => AllocaOK(P, f, i)
-----------------------------------------------------------------------------
(***************************************************************************)
(* The semantics.  Objects are numbered in the order of their creation and *)
(* never reused; a pointer is an object and an index; each activation has  *)
(* an environment of its own.                                              *)
(***************************************************************************)
Fresh == [i \in Index |-> Undef]
Pointer(o, i) == [obj |-> o, off |-> i]
Global(P, x) == Pointer(CHOOSE i \in DOMAIN P.globals : P.globals[i] = x, 0)
\* f with the value v for k (insert_or_assign).
Put(f, k, v) == [j \in DOMAIN f \cup {k} |-> IF j = k THEN v ELSE f[j]]

Activation(P, f, values) ==
  [fn |-> f, at |-> 1,
   env |-> [x \in Takes(P, f) \cup GlobalNames(P) |->
              IF x \in Takes(P, f)
              THEN values[CHOOSE i \in DOMAIN values : P.params[f][i] = x]
              ELSE Global(P, x)]]

\* An execution that starts with a call of f.
Begin(P, f, values) ==
  [frames |-> <<Activation(P, f, values)>>, read |-> 0, how |-> "runs",
   value |-> 0,
   store |-> [o \in DOMAIN P.globals |-> [i \in Index |-> 0]]]

\* main returns the value v.
EndedWith(c, v) == [c EXCEPT !.how = "returns", !.value = v]
\* What the next instruction makes of the execution c on inputs p.
Execute(P, p, c) ==
  LET depth == Len(c.frames)
      top == c.frames[depth]
      ins == P.code[top.fn][top.at]
      V(i) == IF ins.args[i] \in Name THEN top.env[ins.args[i]]
                                      ELSE ins.args[i]
      \* The result of the instruction is v.
      Set(v) == [c EXCEPT !.frames[depth].at = @ + 1,
                          !.frames[depth].env = Put(@, ins.dst, v)]
      Skip == [c EXCEPT !.frames[depth].at = @ + 1]
      New == [Set(Pointer(Len(c.store) + 1, 0)) EXCEPT
                !.store = Append(@, Fresh)]
      caller == c.frames[depth - 1]
      site == P.code[caller.fn][caller.at]
      Back == [SubSeq(c.frames, 1, depth - 1) EXCEPT ![depth - 1].at = @ + 1]
  IN CASE ins.op = "input" -> [Set(p[c.read + 1]) EXCEPT !.read = @ + 1]
       [] ins.op = "add" -> Set(V(1) + V(2))
       [] ins.op = "sub" -> Set(V(1) - V(2))
       [] ins.op \in {"alloca", "malloc"} -> New
       [] ins.op = "gep" -> Set(Pointer(V(1).obj, V(1).off + V(2)))
       [] ins.op = "load" -> Set(c.store[V(1).obj][V(1).off])
       [] ins.op = "store" -> [Skip EXCEPT !.store[V(1).obj][V(1).off] = V(2)]
       [] ins.op = "branch" ->
            IF V(1) # 0 THEN Skip
                        ELSE [c EXCEPT !.frames[depth].at = ins.to]
       [] ins.op = "call" ->
            [c EXCEPT !.frames =
               Append(@, Activation(P, ins.fn,
                                    [i \in DOMAIN ins.args |-> V(i)]))]
       [] ins.op = "error" -> [c EXCEPT !.how = "error"]
       [] ins.op = "return" /\ depth = 1 ->
            EndedWith(c, IF ins.args = <<>> THEN 0 ELSE V(1))
       [] ins.op = "return" /\ depth > 1 ->
            [c EXCEPT !.frames =
               IF ins.args = <<>> THEN Back
               ELSE [Back EXCEPT ![depth - 1].env = Put(@, site.dst, V(1))]]

\* The execution from c on inputs p, step by step, and what becomes of it.
Run(P, p, c) ==
  LET run[n \in 0..Steps] ==
        IF n = 0 THEN c
        ELSE LET d == run[n - 1]
             IN IF d.how = "runs" THEN Execute(P, p, d) ELSE d
  IN  run
Final(P, p, c) == Run(P, p, c)[Steps]

Outcome(P, p) == Final(P, p, Begin(P, "main", <<>>))
OutcomeOfCall(P, p, f, values) == Final(P, p, Begin(P, f, values))
-----------------------------------------------------------------------------
(***************************************************************************)
(* Programs on which symbolic execution is held to be right without more:  *)
(* no value is ever cached, a name stands for one object, and every        *)
(* execution is defined.                                                   *)
(***************************************************************************)
\* Every function that is called takes a pointer or returns no value.
Uncached(P) ==
  \A f \in Func : \A i \in DOMAIN P.code[f] :
    LET callee == P.code[f][i].fn
    IN  P.code[f][i].op = "call" =>
          \/ Takes(P, callee) \cap P.pointers # {}
          \/ \A j \in DOMAIN P.code[callee] :
               P.code[callee][j].op = "return" => P.code[callee][j].args = <<>>
\* There is no malloc, and no two globals have one name.
OneObjectEach(P) ==
  /\ \A f \in Func : \A i \in DOMAIN P.code[f] : P.code[f][i].op # "malloc"
  /\ \A i, j \in DOMAIN P.globals : P.globals[i] = P.globals[j] => i = j

\* The address that the next instruction uses.
AddressUsed(P, c) ==
  LET top == c.frames[Len(c.frames)]
  IN  top.env[P.code[top.fn][top.at].args[1]]
\* It takes addresses from the start of an object, and accesses its cells.
AccessOK(P, c) ==
  LET top == c.frames[Len(c.frames)]
      op == P.code[top.fn][top.at].op
  IN  /\ op = "gep" => AddressUsed(P, c).off = 0
      /\ op \in {"load", "store"} => AddressUsed(P, c).off \in Index
Defined(P, p) ==
  LET run == Run(P, p, Begin(P, "main", <<>>))
  IN  \A k \in 0..Steps : run[k].how = "runs" => AccessOK(P, run[k])

Direct(P) == Uncached(P) /\ OneObjectEach(P) /\ \A p \in Point : Defined(P, p)
=============================================================================
