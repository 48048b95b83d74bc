------------------------------- MODULE Calls -------------------------------
(***************************************************************************)
(* Calls, returns and memory of the symbolic execution: the stack of       *)
(* frames and objects (lib/MStack), the heap and globals (lib/Memory), the *)
(* contents of objects (lib/MemoryObject), the instructions that use them  *)
(* (lib/AInstruction.cpp), and the cache of concrete function values that  *)
(* all paths of a session share (lib/cache).                               *)
(*                                                                         *)
(* An integer of the path is the function from points to its values, so    *)
(* that the path condition is a set of points; a test of satisfiability is *)
(* a test for emptiness.  Functions here have no summary: module Engine    *)
(* models the calls that a summary answers.                                *)
(***************************************************************************)
EXTENDS CallPrograms

CONSTANTS
  Programs,  \* the programs that may be verified
  Width      \* the bits of the int that the cache keeps values in

ASSUME CallsConstantsOK ==
  /\ Programs \subseteq Program
  /\ \A P \in Programs : WellFormed(P)
  /\ Width \in Nat \ {0}
  /\ 2 ^ (Width - 1) > 0  \* arithmetic that the provers do not know

VARIABLES
  prog,     \* the loaded module; never changes
  states,   \* Engine::states, the top of the stack last
  ended,    \* the paths that run() has popped for good
  cache,    \* Cache::cache: the value for a function and its arguments
  visited   \* Cache::visited_funcs

vars == <<prog, states, ended, cache, visited>>

Scalar == [Point -> Int]
Loc == {"STACK", "HEAP"}
\* MemoryAddress_ty with a concrete base.  Objects have one dimension; an
\* address without an offset is one with offset zero.
Address == [loc: Loc, base: Nat, off: Scalar]
\* MemoryObject: the value that created it and its contents.
Object == [owner: Name, cells: [Index -> Scalar]]
Pc == [fn: Func, at: Nat]
\* MStack::StackFrame.
Frame ==
  [prev: Pc, base: Nat, fn: Func,
   temps: UNION {[D -> Scalar \cup Address] : D \in SUBSET Name}]
Status == {"RUNNING", "TERMINATED", "UNKNOWN", "REACH_ERROR", "exception"}
\* State and its Memory: heap holds m_objects, whose entries and those of
\* m_variables are made together.
PathState ==
  [pc: Pc, status: Status, cond: SUBSET Point, read: Nat,
   frames: Seq(Frame), objects: Seq(Object), heap: Seq(Object),
   result: Scalar]
Key == [fn: Func, args: Seq(Int)]

Last(s) == s[Len(s)]
ButLast(s) == SubSeq(s, 1, Len(s) - 1)
Const(k) == [p \in Point |-> k]
\* int64_t stored in an int.
Narrow(k) == LET half == 2 ^ (Width - 1)
             IN  ((k + half) % (2 * half)) - half
-----------------------------------------------------------------------------
\* Contents of objects.

\* MemoryObject::read; indices are not checked.
Read(cells, off) ==
  [p \in Point |-> IF off[p] \in Index THEN cells[off[p]][p] ELSE Undef]
\* Mutant: the condition on the index is lost.
WriteAnywhere(cells, off, v) == [i \in Index |-> v]
\* MemoryObject::write: a new case in front of the old ones.
Write(cells, off, v) ==
  [i \in Index |->
     [p \in Point |-> IF off[p] = i THEN v[p] ELSE cells[i][p]]]
NewObject(x) == [owner |-> x, cells |-> [i \in Index |-> Const(Undef)]]

\* Paths.

Fun(s) == Last(s.frames)
Ins(s) == prog.code[s.pc.fn][s.pc.at]
\* State::step_pc.
Jump(s, k) == [s EXCEPT !.pc.at = k]
Advance(s) == Jump(s, s.pc.at + 1)
\* put_temp in the top frame, then step_pc.
Result(s, v) ==
  [Advance(s) EXCEPT
     !.frames[Len(s.frames)].temps = Put(@, Ins(s).dst, v)]
\* State::evaluate of an integer.
Evaluate(s, x) == IF x \in Name THEN Fun(s).temps[x] ELSE Const(x)
Arg(s, i) == Evaluate(s, Ins(s).args[i])
\* find_if in m_variables.
Find(heap, x) ==
  CHOOSE i \in DOMAIN heap : /\ heap[i].owner = x
                             /\ \A j \in DOMAIN heap : heap[j].owner = x => i <= j
\* Memory::get_object of a pointer: a temporary of the top frame, otherwise
\* a variable.  Every alloca has its temporary.
PointerOf(s, x) ==
  IF x \in DOMAIN Fun(s).temps THEN Fun(s).temps[x]
  ELSE [loc |-> "HEAP", base |-> Find(s.heap, x), off |-> Const(0)]
Target(s) == PointerOf(s, Ins(s).args[1])

\* Mutant: the value in one model is taken for the value in all.
InSomeModel(s, v) == s.cond # {}
\* State::is_concrete: under the path condition v has one value.
IsConcrete(s, v) == \A p, q \in s.cond : v[p] = v[q]
\* Its value in State::get_model.
InModel(s, v) == v[CHOOSE p \in s.cond : TRUE]
\* z3::expr::is_numeral after simplify: the same value everywhere.
IsNumeral(v) == \A p, q \in Point : v[p] = v[q]
-----------------------------------------------------------------------------
InitialHeap(P) ==
  [i \in DOMAIN P.globals |->
     [owner |-> P.globals[i], cells |-> [j \in Index |-> Const(0)]]]

\* Engine::build_initial_state.
InitialState(P) ==
  [pc |-> [fn |-> "main", at |-> 1], status |-> "RUNNING", cond |-> Point,
   read |-> 0,
   frames |-> <<[prev |-> [fn |-> "main", at |-> 0], base |-> 0,
                 fn |-> "main", temps |-> <<>>]>>,
   objects |-> <<>>, heap |-> InitialHeap(P), result |-> Const(0)]

Init ==
  /\ prog \in Programs
  /\ states = <<InitialState(prog)>>
  /\ ended = {}
  /\ cache = <<>>
  /\ visited = {}

\* Engine::run returns, or is left by an exception, with paths unexplored.
Stopped == \E e \in ended : e.status \in {"REACH_ERROR", "exception"}
Done == states = <<>> \/ Stopped

Top == Last(states)
\* run() pops the top and pushes its successors.
Push(new) == states' = ButLast(states) \o new
On(op) == /\ ~Done
          /\ Top.status = "RUNNING"
          /\ Ins(Top).op = op
UnchangedButStates == UNCHANGED <<prog, ended, cache, visited>>

\* A call of __VERIFIER_nondet_*: a fresh constant.
Input == /\ On("input")
         /\ Top.read < Inputs
         /\ LET v == [p \in Point |-> p[Top.read + 1]]
            IN  Push(<<[Result(Top, v) EXCEPT !.read = @ + 1]>>)
         /\ UnchangedButStates

Arithmetic ==
  /\ \/ On("add") /\ Push(<<Result(Top, [p \in Point |->
                               Arg(Top, 1)[p] + Arg(Top, 2)[p]])>>)
     \/ On("sub") /\ Push(<<Result(Top, [p \in Point |->
                               Arg(Top, 1)[p] - Arg(Top, 2)[p]])>>)
  /\ UnchangedButStates

\* MStack::allocate.
Alloca ==
  /\ On("alloca")
  /\ LET addr == [loc |-> "STACK", base |-> Len(Top.objects) + 1,
                  off |-> Const(0)]
     IN  Push(<<[Result(Top, addr) EXCEPT
                   !.objects = Append(@, NewObject(Ins(Top).dst))]>>)
  /\ UnchangedButStates

\* Memory::heap_alloca: an object and a variable, but no temporary.
Malloc ==
  /\ On("malloc")
  /\ Push(<<[Advance(Top) EXCEPT !.heap = Append(@, NewObject(Ins(Top).dst))]>>)
  /\ UnchangedButStates

\* parse_gep appends the index, and AInstructionGEP::execute drops an offset
\* that was there already, for there is one dimension.
Gep ==
  /\ On("gep")
  /\ Push(<<Result(Top, [Target(Top) EXCEPT !.off = Arg(Top, 2)])>>)
  /\ UnchangedButStates

Load ==
  /\ On("load")
  /\ LET a == Target(Top)
         pool == IF a.loc = "STACK" THEN Top.objects ELSE Top.heap
     IN  Push(<<Result(Top, Read(pool[a.base].cells, a.off))>>)
  /\ UnchangedButStates

Store ==
  /\ On("store")
  /\ LET a == Target(Top)
         v == Arg(Top, 2)
     IN  Push(<<IF a.loc = "STACK"
                THEN [Advance(Top) EXCEPT
                        !.objects[a.base].cells = Write(@, a.off, v)]
                ELSE [Advance(Top) EXCEPT
                        !.heap[a.base].cells = Write(@, a.off, v)]>>)
  /\ UnchangedButStates

\* Mutant: the false side keeps the condition of the whole path.
BothSides(s) == s.cond
\* Mutant: the false successor tests the condition itself.
NoFalseSide(s) == {p \in s.cond : Arg(s, 1)[p] # 0 /\ Arg(s, 1)[p] = 0}
\* The points on which the branch is not taken.
FalseSide(s) == {p \in s.cond : Arg(s, 1)[p] = 0}

TrueSide(s) == {p \in s.cond : Arg(s, 1)[p] # 0}
Feasible(s) == IF s.cond = {} THEN <<>> ELSE <<s>>
\* AInstructionBranch::_execute and the test() of both successors.
Branch ==
  /\ On("branch")
  /\ LET yes == [Advance(Top) EXCEPT !.cond = TrueSide(Top)]
         no == [Jump(Top, Ins(Top).to) EXCEPT !.cond = FalseSide(Top)]
     IN  Push(Feasible(yes) \o Feasible(no))
  /\ UnchangedButStates
-----------------------------------------------------------------------------
\* Calls.

Callee(s) == Ins(s).fn
PointerArgs(s) ==
  {i \in DOMAIN Ins(s).args : prog.params[Callee(s)][i] \in prog.pointers}
\* The arguments as Cache keeps them.
ArgKey(s) == [fn |-> Callee(s),
              args |-> [i \in DOMAIN Ins(s).args |->
                          Narrow(InModel(s, Arg(s, i)))]]
\* AInstructionCall::execute_cache has an answer.
Cached(s) == /\ PointerArgs(s) = {}
             /\ \A i \in DOMAIN Ins(s).args : IsConcrete(s, Arg(s, i))
             /\ ArgKey(s) \in DOMAIN cache
\* AInstructionCall::is_recursive: the callee reaches itself.
Recursive(f) ==
  \A S \in SUBSET Func :
    /\ Callees(prog, f) \subseteq S
    /\ \A h \in S : Callees(prog, h) \subseteq S
    => f \in S
ConcreteScalarCall(s) == /\ PointerArgs(s) = {}
                         /\ \A i \in DOMAIN Ins(s).args : IsNumeral(Arg(s, i))
Unsupported(s) == Recursive(Callee(s)) /\ ~ConcreteScalarCall(s)
\* A recursive callee is marked when the summariser has seen it.
Visit == visited' = visited \cup {f \in {Callee(Top)} : Recursive(f)}

CallCached ==
  /\ On("call")
  /\ Cached(Top)
  /\ Push(<<Result(Top, Const(cache[ArgKey(Top)]))>>)
  /\ UnchangedButStates

CallUnknown ==
  /\ On("call")
  /\ ~Cached(Top)
  /\ Unsupported(Top)
  /\ Push(<<[Top EXCEPT !.status = "UNKNOWN"]>>)
  /\ Visit
  /\ UNCHANGED <<prog, ended, cache>>

\* MStack::push_frame.
NewBase(s) == Len(s.objects)

CallBody ==
  /\ On("call")
  /\ ~Cached(Top)
  /\ ~Unsupported(Top)
  /\ LET f == Callee(Top)
         Passed(i) == IF i \in PointerArgs(Top)
                      THEN PointerOf(Top, Ins(Top).args[i])
                      ELSE Arg(Top, i)
         position(x) == CHOOSE i \in DOMAIN prog.params[f] :
                          prog.params[f][i] = x
         frame == [prev |-> Top.pc, base |-> NewBase(Top), fn |-> f,
                   temps |-> [x \in Takes(prog, f) |-> Passed(position(x))]]
     IN  Push(<<[Top EXCEPT !.pc = [fn |-> f, at |-> 1],
                            !.frames = Append(@, frame)]>>)
  /\ Visit
  /\ UNCHANGED <<prog, ended, cache>>
-----------------------------------------------------------------------------
\* Returns.

Returned(s) == Ins(s).args # <<>>
Params(s) == prog.params[Fun(s).fn]
ScalarParam(s, i) == Params(s)[i] \notin prog.pointers
ConcreteParam(s, i) == /\ ScalarParam(s, i)
                       /\ IsConcrete(s, Fun(s).temps[Params(s)[i]])
\* AInstructionReturn::cache_func_value, which looks at the result and then
\* at the parameters in turn.
Caches(s) == /\ Returned(s)
             /\ IsConcrete(s, Arg(s, 1))
             /\ \A i \in DOMAIN Params(s) : ConcreteParam(s, i)
\* A pointer parameter has no term to evaluate: as_expr of it throws.
Throws(s) == /\ Returned(s)
             /\ IsConcrete(s, Arg(s, 1))
             /\ \E i \in DOMAIN Params(s) :
                  /\ ~ScalarParam(s, i)
                  /\ \A j \in 1..(i - 1) : ConcreteParam(s, j)
EntryKey(s) ==
  [fn |-> Fun(s).fn,
   args |-> [i \in DOMAIN Params(s) |->
               Narrow(InModel(s, Fun(s).temps[Params(s)[i]]))]]
EntryValue(s) == Narrow(InModel(s, Arg(s, 1)))

\* Mutant: the objects of the callee stay.
KeepObjects(s) == s.objects
\* MStack::pop_frame.
Kept(s) == SubSeq(s.objects, 1, Fun(s).base)

Return ==
  /\ On("return")
  /\ Len(Top.frames) > 1
  /\ ~Throws(Top)
  /\ LET back == [Top EXCEPT !.pc = Fun(Top).prev,
                             !.frames = ButLast(@),
                             !.objects = Kept(Top)]
     IN  Push(<<IF Returned(Top) THEN Result(back, Arg(Top, 1))
                                 ELSE Advance(back)>>)
  /\ cache' = IF Caches(Top) THEN Put(cache, EntryKey(Top), EntryValue(Top))
                             ELSE cache
  /\ UNCHANGED <<prog, ended, visited>>

ReturnThrows ==
  /\ On("return")
  /\ Len(Top.frames) > 1
  /\ Throws(Top)
  /\ Push(<<[Top EXCEPT !.status = "exception"]>>)
  /\ UnchangedButStates

ReturnMain ==
  /\ On("return")
  /\ Len(Top.frames) = 1
  /\ Push(<<[Top EXCEPT !.status = "TERMINATED",
                        !.result = IF Returned(Top) THEN Arg(Top, 1) ELSE @]>>)
  /\ UnchangedButStates

ReachError ==
  /\ On("error")
  /\ Push(<<[Top EXCEPT !.status = "REACH_ERROR"]>>)
  /\ UnchangedButStates

\* run() pops a path that does not go on.
End ==
  /\ ~Done
  /\ Top.status # "RUNNING"
  /\ Push(<<>>)
  /\ ended' = ended \cup {[cond |-> Top.cond, status |-> Top.status,
                           result |-> Top.result]}
  /\ UNCHANGED <<prog, cache, visited>>

Next ==
  \/ Input \/ Arithmetic \/ Alloca \/ Malloc \/ Gep \/ Load \/ Store
  \/ Branch \/ CallCached \/ CallUnknown \/ CallBody
  \/ Return \/ ReturnThrows \/ ReturnMain \/ ReachError \/ End

Spec == Init /\ [][Next]_vars
-----------------------------------------------------------------------------
(***************************************************************************)
(* Properties.                                                             *)
(***************************************************************************)
Paths == {states[i] : i \in DOMAIN states}

\* Where the objects of frame i end.
EndOf(s, i) == IF i = Len(s.frames) THEN Len(s.objects)
                                    ELSE s.frames[i + 1].base

ObjectsOK(objects) ==
  \A k \in DOMAIN objects :
    /\ objects[k].owner \in Name
    /\ objects[k].cells \in [Index -> Scalar]
FrameOK(f) ==
  /\ f.prev \in Pc
  /\ f.base \in Nat
  /\ f.fn \in Func
  /\ DOMAIN f.temps \subseteq Name
  /\ \A x \in DOMAIN f.temps : f.temps[x] \in Scalar \cup Address
PathOK(s) ==
  /\ s.pc \in Pc
  /\ s.status \in Status
  /\ s.cond \in SUBSET Point
  /\ s.read \in 0..Inputs
  /\ s.frames # <<>>
  /\ \A i \in DOMAIN s.frames : FrameOK(s.frames[i])
  /\ ObjectsOK(s.objects)
  /\ ObjectsOK(s.heap)
  /\ s.result \in Scalar

\* Every variable has its type; the cache holds ints of the session's width.
TypeOK ==
  /\ prog \in Programs
  /\ \A s \in Paths : PathOK(s)
  /\ \A e \in ended : e.status \in Status \ {"RUNNING"} /\ e.result \in Scalar
  /\ \A k \in DOMAIN cache :
       /\ k \in Key
       /\ cache[k] \in -(2 ^ (Width - 1)) .. (2 ^ (Width - 1)) - 1
  /\ visited \subseteq Func

\* MStack keeps the locals of all activations in one vector.  Every object
\* lies in the range of the activation that allocated it, which can still
\* name it, also when the same function is active several times: pop_frame
\* must remove the callee's objects, all of them and no other.
LocalsOfFrames ==
  \A s \in Paths : \A i \in DOMAIN s.frames :
    LET f == s.frames[i]
    IN  /\ f.base <= EndOf(s, i)
        /\ \A k \in (f.base + 1)..EndOf(s, i) :
             LET x == s.objects[k].owner
             IN  /\ x \in DOMAIN f.temps
                 /\ f.temps[x] = [loc |-> "STACK", base |-> k, off |-> Const(0)]

\* A pointer that a waiting activation holds, passed to it or its own, refers
\* to an object that lives at least as long as the activation does.
NoDanglingPointer ==
  \A s \in Paths : \A i \in DOMAIN s.frames :
    \A x \in DOMAIN s.frames[i].temps :
      LET v == s.frames[i].temps[x]
      IN  v \notin Scalar => v.base <= IF v.loc = "STACK" THEN EndOf(s, i)
                                                          ELSE Len(s.heap)

\* Neither a call nor a return confuses the objects of the activations
\* (push_frame, pop_frame).
FramesSound == LocalsOfFrames /\ NoDanglingPointer

\* The points of the paths at hand and of the ended ones are the inputs,
\* each once: no branch drops an input or explores it on two paths.
EachPointOnce ==
  /\ \A i, j \in DOMAIN states :
       i # j => states[i].cond \cap states[j].cond = {}
  /\ \A e, d \in ended : e # d => e.cond \cap d.cond = {}
  /\ \A s \in Paths, e \in ended : s.cond \cap e.cond = {}
  /\ Point = UNION ({s.cond : s \in Paths} \cup {e.cond : e \in ended})

\* What the cache answers for a function and arguments is what a call of the
\* function with these arguments returns, on any inputs and whichever path
\* put the value there (AInstructionReturn::cache_func_value).
CacheRight ==
  \A k \in DOMAIN cache : \A p \in Point :
    LET o == OutcomeOfCall(prog, p, k.fn, k.args)
    IN  o.how = "returns" => o.value = cache[k]

\* A path that ends says of each of its points what the program does on it:
\* it returns this value, or it reaches the error call.
ResultRight ==
  \A e \in ended : \A p \in e.cond :
    /\ e.status = "TERMINATED" => /\ Outcome(prog, p).how = "returns"
                                  /\ Outcome(prog, p).value = e.result[p]
    /\ e.status = "REACH_ERROR" => Outcome(prog, p).how = "error"

\* When the run is over and every path has terminated, which the engine
\* reports as safe, no input reaches an error call.
SafeIsSafe ==
  /\ states = <<>>
  /\ \A e \in ended : e.status = "TERMINATED"
  => \A p \in Point : Outcome(prog, p).how # "error"

\* malloc returns the memory it allocated: the pointer that names the call
\* refers to the object just made (AInstructionCall::execute_malloc).
MallocReturnsNew ==
  [][Malloc => LET s == Last(states')
               IN  PointerOf(s, Ins(Top).dst).base = Len(s.heap)]_vars
=============================================================================
