-------------------------- MODULE IntegerSemantics --------------------------
(***************************************************************************)
(* Integer instructions as AInstruction.cpp executes them, over the        *)
(* mathematical integers of Z3, next to what the machine computes.         *)
(*                                                                         *)
(* A register is one SSA value at one choice of the inputs.  n, defined:   *)
(* what its Expression evaluates to; an i1 is a Boolean, 0 or 1.  n need   *)
(* not be in any range: an addition without nsw is not reduced.            *)
(* canonical: has_canonical_signed_representation, decided from the        *)
(* instruction alone.  bits, poison: the machine's value.                  *)
(***************************************************************************)
EXTENDS Integers, Sequences, FiniteSets, SequencesExt, FiniteSetsExt

CONSTANTS
  Widths,    \* widths of the inputs
  MaxLength, \* bound: instructions of a run
  Included   \* the instructions the code is known to get wrong that may occur:
             \* "i1": arithmetic, signed order and sign extension of an i1;
             \* "argument": a value outside the range of its width is passed on;
             \* "remainder": the least integer % -1, undefined in LLVM;
             \* "shl": a shift left with nuw that changes its operand

ASSUME IntegerAssumption ==
  /\ Widths \subseteq Nat \ {0, 1} /\ MaxLength \in Nat
  /\ Included \subseteq {"i1", "argument", "remainder", "shl"}

VARIABLES
  mode,      \* "exact", "summarizing", or "relaxed" (uses_integer_relaxation)
  registers  \* the values so far, two inputs first

vars == <<mode, registers>>

Relaxed == mode = "relaxed"
Abs(x) == IF x < 0 THEN -x ELSE x
ToInt(b) == IF b THEN 1 ELSE 0

(***************************************************************************)
(* IntegerSemantics.h                                                      *)
(***************************************************************************)
power_of_two(w) == 2 ^ w
as_unsigned(x, w) == x % power_of_two(w)
as_signed(x, w) ==
  LET u == as_unsigned(x, w)
  IN  IF u >= power_of_two(w - 1) THEN u - power_of_two(w) ELSE u
signed_min(w) == -power_of_two(w - 1)
in_signed_range(x, w) == x \in signed_min(w)..(power_of_two(w - 1) - 1)

\* Z3's division and remainder by 0 are some integers.
signed_div(x, y) ==
  IF y = 0 THEN 0
  ELSE LET q == Abs(x) \div Abs(y) IN IF (x < 0) # (y < 0) THEN -q ELSE q
signed_rem(x, y) ==
  IF y = 0 THEN x ELSE IF x < 0 THEN -(Abs(x) % Abs(y)) ELSE Abs(x) % Abs(y)
DivFloor(x, y) ==
  IF y = 0 THEN 0 ELSE IF y > 0 THEN x \div y ELSE -(x \div (-y))
ModPositive(x, y) == IF y = 0 THEN x ELSE x % Abs(y)

(***************************************************************************)
(* The machine: two's complement, on sets of bits                          *)
(***************************************************************************)
Bits(x, w) == {i \in 0..(w - 1) : (x \div 2 ^ i) % 2 = 1}
Number(set) == MapThenSumSet(LAMBDA i : 2 ^ i, set)

MachineBits(op, x, y, w) ==
  LET sx == as_signed(x, w) sy == as_signed(y, w)
      shifted(by) == {i + by : i \in Bits(x, w)} \cap 0..(w - 1)
  IN  CASE op = "add" -> (x + y) % 2 ^ w
        [] op = "sub" -> (x - y) % 2 ^ w
        [] op = "mul" -> (x * y) % 2 ^ w
        [] op = "sdiv" -> signed_div(sx, sy) % 2 ^ w
        [] op = "srem" -> signed_rem(sx, sy) % 2 ^ w
        [] op = "udiv" -> IF y = 0 THEN 0 ELSE x \div y
        [] op = "urem" -> IF y = 0 THEN 0 ELSE x % y
        [] op = "and" -> Number(Bits(x, w) \cap Bits(y, w))
        [] op = "or"  -> Number(Bits(x, w) \cup Bits(y, w))
        [] op = "xor" -> Number((Bits(x, w) \cup Bits(y, w)) \ (Bits(x, w) \cap Bits(y, w)))
        [] op = "shl" -> Number(shifted(y))
        [] op = "lshr" -> Number(shifted(-y))
        [] op = "ashr" -> Number(shifted(-y) \cup
                                 IF w - 1 \in Bits(x, w)
                                 THEN {i \in 0..(w - 1) : i >= w - y} ELSE {})

\* Undefined behaviour is taken for poison.
MachinePoison(op, flags, x, y, w) ==
  LET sx == as_signed(x, w) sy == as_signed(y, w)
      signed == CASE op = "add" -> sx + sy [] op = "sub" -> sx - sy
                  [] op = "mul" -> sx * sy [] op = "shl" -> sx * 2 ^ y [] OTHER -> 0
      unsigned == CASE op = "add" -> x + y [] op = "sub" -> x - y
                    [] op = "mul" -> x * y [] op = "shl" -> x * 2 ^ y [] OTHER -> 0
  IN  \/ op \in {"sdiv", "udiv", "srem", "urem"} /\ y = 0
      \/ op \in {"sdiv", "srem"} /\ sx = signed_min(w) /\ sy = -1
      \/ op \in {"shl", "lshr", "ashr"} /\ y >= w
      \/ "nsw" \in flags /\ ~in_signed_range(signed, w)
      \/ "nuw" \in flags /\ unsigned \notin 0..(2 ^ w - 1)
      \/ "exact" \in flags /\ op = "sdiv" /\ signed_rem(sx, sy) # 0
      \/ "exact" \in flags /\ op = "udiv" /\ ModPositive(x, y) # 0
      \/ "exact" \in flags /\ op \in {"lshr", "ashr"} /\ x % 2 ^ y # 0

(***************************************************************************)
(* AInstructionBinary                                                      *)
(***************************************************************************)
FlagSets(op) ==
  IF op \in {"add", "sub", "mul", "shl"} THEN SUBSET {"nsw", "nuw"}
  ELSE IF op \in {"sdiv", "udiv", "lshr", "ashr"} THEN {{}, {"exact"}} ELSE {{}}

\* execute asks every operation.  One that has no such flag answers with the same
\* bit of its optional data, which is its nuw.
isExact(flags) == flags \cap {"exact", "nuw"} # {}

\* signed_value: where the path condition implies the range, n is in it.
signed_value(r) ==
  IF (Relaxed /\ r.width > 1) \/ r.canonical THEN r.n ELSE as_signed(r.n, r.width)
unsigned_value(r) ==
  IF Relaxed /\ r.width > 1 THEN r.n ELSE as_unsigned(r.n, r.width)

from_bv(x, w) == IF w = 1 THEN x % 2 ELSE as_signed(x, w)

\* The solutions for the fresh quotient of a division by a constant; the
\* equation for it is part of the definedness.
Quotients(x, y) ==
  {q \in -Abs(x)..Abs(x) :
     LET r == x - q * y
     IN  Abs(r) < Abs(y) /\ (r = 0 \/ (x < 0 /\ r < 0) \/ (x > 0 /\ r > 0))}

Quotient(x, y) == IF Quotients(x, y) = {} THEN 0 ELSE CHOOSE q \in Quotients(x, y) : TRUE

\* What an operation on bitvectors gives, for operations without arithmetic.
OnBits(op, a, b) ==
  MachineBits(op, as_unsigned(a.n, a.width), as_unsigned(b.n, a.width), a.width)

binary_value(op, flags, a, b) ==
  LET w == a.width
      x == signed_value(a)             y == signed_value(b)
      ux == as_unsigned(a.n, w)        uy == as_unsigned(b.n, w)
  IN  CASE op = "add" -> IF "nsw" \in flags THEN x + y ELSE a.n + b.n
        [] op = "sub" -> IF "nsw" \in flags THEN x - y ELSE a.n - b.n
        [] op = "mul" -> IF "nsw" \in flags THEN x * y ELSE a.n * b.n
        [] op = "sdiv" -> IF mode = "summarizing" THEN signed_div(x, y)
                          ELSE IF b.constant THEN Quotient(x, y)
                          ELSE from_bv(OnBits(op, a, b), w)
        [] op = "srem" -> IF mode = "summarizing" THEN signed_rem(x, y)
                          ELSE IF b.constant THEN x - Quotient(x, y) * y
                          ELSE from_bv(OnBits(op, a, b), w)
        [] op = "udiv" -> DivFloor(ux, uy)
        [] op = "urem" -> ModPositive(ux, uy)
        [] OTHER -> from_bv(OnBits(op, a, b), w)

binary_defined(op, flags, a, b) ==
  LET w == a.width
      x == signed_value(a)             y == signed_value(b)
      ux == as_unsigned(a.n, w)        uy == as_unsigned(b.n, w)
      asks == mode = "exact" /\ b.constant \* for a quotient
      bits == OnBits(op, a, b)
  IN  /\ "nsw" \in flags =>
           /\ op = "add" => in_signed_range(x + y, w)
           /\ op = "sub" => in_signed_range(x - y, w)
           /\ op = "mul" => in_signed_range(x * y, w)
           /\ op = "shl" => MachineBits("ashr", bits, uy, w) = ux
      /\ "nuw" \in flags =>
           /\ op = "add" => ux + uy < power_of_two(w)
           /\ op = "sub" => ux >= uy
           /\ op = "mul" => ux * uy < power_of_two(w)
           /\ op = "shl" => MachineBits("lshr", bits, uy, w) = ux
      /\ op = "sdiv" => ~(x = signed_min(w) /\ y = -1)
      /\ op \in {"sdiv", "srem"} => y # 0 /\ (asks => Quotients(x, y) # {})
      /\ op \in {"udiv", "urem"} => uy # 0
      /\ op \in {"shl", "lshr", "ashr"} => uy < w
      /\ isExact(flags) =>
           /\ op = "sdiv" => signed_rem(x, y) = 0
           /\ op = "udiv" => ModPositive(ux, uy) = 0
           /\ op \in {"shl", "lshr", "ashr"} => MachineBits("shl", bits, uy, w) = ux

\* has_canonical_signed_representation of the result.
binary_canonical(op, flags) ==
  op \in {"sdiv", "srem", "and", "or", "xor", "shl", "lshr", "ashr"} \/ "nsw" \in flags

(***************************************************************************)
(* RelaxedIntegerSemantics.h and relaxed_integer_binary                    *)
(***************************************************************************)
\* And, or, xor of infinite two's complements, for a constant mask.
integer_bitwise(op, x, mask) ==
  LET places == Bits(IF mask < 0 THEN -mask - 1 ELSE mask, Max(Widths))
      common == MapThenSumSet(LAMBDA i : ((x \div 2 ^ i) % 2) * 2 ^ i, places)
      intersection == IF mask < 0 THEN x - common ELSE common
  IN  CASE op = "and" -> intersection
        [] op = "or"  -> x + mask - intersection
        [] op = "xor" -> x + mask - 2 * intersection

integer_shift_factor(amount) == IF amount < 0 THEN 1 ELSE 2 ^ amount

\* Otherwise it throws UnsupportedSemantics.
relaxed_supports(op, a, b) ==
  /\ a.width = 1 => op \in {"add", "sub", "mul", "and", "or", "xor"}
  /\ a.width > 1 =>
       /\ op \in {"and", "or", "xor"} => a = b \/ a.constant \/ b.constant
       /\ op \in {"shl", "lshr", "ashr"} => b.constant

relaxed_value(op, a, b) ==
  IF a.width = 1
  THEN ToInt(CASE op \in {"add", "sub", "xor"} -> a.n # b.n
               [] op \in {"mul", "and"} -> a.n = 1 /\ b.n = 1
               [] op = "or" -> a.n = 1 \/ b.n = 1)
  ELSE CASE op = "add" -> a.n + b.n
         [] op = "sub" -> a.n - b.n
         [] op = "mul" -> a.n * b.n
         [] op = "sdiv" -> signed_div(a.n, b.n)
         [] op = "udiv" -> DivFloor(a.n, b.n)
         [] op = "srem" -> signed_rem(a.n, b.n)
         [] op = "urem" -> ModPositive(a.n, b.n)
         [] op \in {"and", "or", "xor"} ->
              IF a = b THEN IF op = "xor" THEN 0 ELSE a.n
              ELSE IF b.constant THEN integer_bitwise(op, a.n, b.n)
              ELSE integer_bitwise(op, b.n, a.n)
         [] op = "shl" -> a.n * integer_shift_factor(b.n)
         [] OTHER -> a.n \div integer_shift_factor(b.n)

relaxed_defined(op, flags, a, b) ==
  /\ op \in {"sdiv", "udiv", "srem", "urem"} => b.n # 0
  /\ op \in {"shl", "lshr", "ashr"} /\ a.width > 1 => b.n >= 0
  /\ isExact(flags) =>
       /\ op = "sdiv" => signed_rem(a.n, b.n) = 0
       /\ op = "udiv" => ModPositive(a.n, b.n) = 0
       /\ op \in {"lshr", "ashr"} => a.n % integer_shift_factor(b.n) = 0

(***************************************************************************)
(* Instructions                                                            *)
(***************************************************************************)
\* fits: the machine takes the same integers as long as nothing overflows and
\* nothing negative is read as unsigned.
In(x, w) == IF w = 1 THEN x \in {0, 1} ELSE in_signed_range(x, w)
Operands == {x \in (DOMAIN registers) \X (DOMAIN registers) :
               Len(registers) \in {2, x[1], x[2]}}
Put(r) == registers' = Append(registers, r) /\ UNCHANGED mode
Room == Len(registers) < 2 + MaxLength

\* map_integer_binary: defined where both operands and the operation are.
Binary(op, flags, a, b) ==
  /\ Room /\ a.width = b.width
  /\ a.width = 1 /\ "i1" \notin Included => op \in {"and", "or", "xor"} /\ flags = {}
  /\ op = "srem" /\ "remainder" \notin Included =>
       ~(as_signed(a.bits, a.width) = signed_min(a.width) /\ as_signed(b.bits, b.width) = -1)
  /\ op = "shl" /\ "nuw" \in flags /\ ~Relaxed /\ "shl" \notin Included =>
       a.bits = 0 \/ b.bits = 0 \/ MachinePoison(op, flags, a.bits, b.bits, a.width)
  /\ Relaxed => relaxed_supports(op, a, b)
  /\ LET w == a.width
         n == IF Relaxed THEN relaxed_value(op, a, b) ELSE binary_value(op, flags, a, b)
         unsigned == op \in {"udiv", "urem", "lshr"}
     IN  Put([width |-> w, n |-> n, constant |-> FALSE,
              canonical |-> binary_canonical(op, flags),
              defined |-> /\ a.defined /\ b.defined
                          /\ IF Relaxed THEN relaxed_defined(op, flags, a, b)
                             ELSE binary_defined(op, flags, a, b),
              fits |-> /\ a.fits /\ b.fits /\ In(n, w)
                       /\ unsigned => a.n >= 0 /\ b.n >= 0,
              bits |-> MachineBits(op, a.bits, b.bits, w),
              poison |-> \/ a.poison \/ b.poison
                         \/ MachinePoison(op, flags, a.bits, b.bits, w)])

\* Constants are evaluated as signed or unsigned, as the predicate has it.
Compared(r, unsigned) ==
  IF r.constant /\ unsigned THEN [r EXCEPT !.n = as_unsigned(r.n, r.width)] ELSE r

\* Mutant: equality does not look past the width.
EqualAsIs(a, b) == a.n = b.n

icmp_eq(a, b) ==
  IF a.width = 1 \/ Relaxed \/ (a.canonical /\ b.canonical) THEN a.n = b.n
  ELSE (a.n - b.n) % power_of_two(a.width) = 0

\* The predicates gt and ge are lt and le with the operands exchanged.
ICmp(pred, a, b) ==
  /\ Room /\ a.width = b.width
  /\ a.width = 1 /\ "i1" \notin Included => pred \in {"eq", "ne"}
  /\ LET unsigned == pred \in {"ult", "ule"}
         x == Compared(a, unsigned)          y == Compared(b, unsigned)
         sx == as_signed(a.bits, a.width)    sy == as_signed(b.bits, b.width)
     IN  Put([width |-> 1, constant |-> FALSE, canonical |-> TRUE,
              n |-> ToInt(CASE pred = "eq" -> icmp_eq(x, y)
                            [] pred = "ne" -> ~icmp_eq(x, y)
                            [] pred = "slt" -> signed_value(x) < signed_value(y)
                            [] pred = "sle" -> signed_value(x) <= signed_value(y)
                            [] pred = "ult" -> unsigned_value(x) < unsigned_value(y)
                            [] pred = "ule" -> unsigned_value(x) <= unsigned_value(y)),
              defined |-> a.defined /\ b.defined,
              fits |-> a.fits /\ b.fits /\ (unsigned => x.n >= 0 /\ y.n >= 0),
              bits |-> ToInt(CASE pred = "eq" -> a.bits = b.bits
                               [] pred = "ne" -> a.bits # b.bits
                               [] pred = "slt" -> sx < sy
                               [] pred = "sle" -> sx <= sy
                               [] pred = "ult" -> a.bits < b.bits
                               [] pred = "ule" -> a.bits <= b.bits),
              poison |-> a.poison \/ b.poison])

ZExt(r, w) ==
  /\ Room /\ w > r.width
  /\ LET x == Compared(r, TRUE)
     IN  Put([r EXCEPT !.width = w, !.canonical = TRUE, !.constant = FALSE,
                       !.n = IF Relaxed THEN x.n ELSE as_unsigned(x.n, r.width),
                       !.fits = @ /\ x.n >= 0 /\ In(x.n, w)])

\* The value of a canonical operand is taken over, that of an i1 too.
SExt(r, w) ==
  /\ Room /\ w > r.width
  /\ r.width = 1 /\ "i1" \notin Included => Relaxed
  /\ Put([r EXCEPT !.width = w, !.canonical = TRUE, !.constant = FALSE,
                   !.n = IF Relaxed THEN IF r.width = 1 THEN -@ ELSE @
                         ELSE IF r.canonical THEN @ ELSE as_signed(@, r.width),
                   !.bits = as_signed(@, r.width) % 2 ^ w])

Trunc(r, w) ==
  /\ Room /\ w < r.width
  /\ Put([r EXCEPT !.width = w, !.canonical = TRUE, !.constant = FALSE,
                   !.n = IF Relaxed THEN IF w = 1 THEN @ % 2 ELSE @ ELSE from_bv(@, w),
                   !.fits = @ /\ (w = 1 \/ In(r.n, w)),
                   !.bits = @ % 2 ^ w])

\* A store, which canonicalizes, and a load of it.
StoreLoad(r) ==
  /\ Room /\ r.width > 1
  /\ Put([r EXCEPT !.canonical = TRUE, !.constant = FALSE,
                   !.n = IF Relaxed \/ r.canonical THEN @ ELSE as_signed(@, r.width)])

\* An argument or a returned value is the operand as it is, and canonical.
Pass(r) ==
  /\ Room
  /\ "argument" \notin Included => r.canonical \/ In(r.n, r.width)
  /\ Put([r EXCEPT !.canonical = TRUE, !.constant = FALSE])

Input(w, n, constant) ==
  [width |-> w, n |-> n, constant |-> constant, canonical |-> TRUE, defined |-> TRUE,
   fits |-> TRUE, bits |-> n % 2 ^ w, poison |-> FALSE]

Init ==
  /\ mode \in {"exact", "summarizing", "relaxed"}
  /\ \E w \in Widths, constant \in BOOLEAN :
       \E x, y \in signed_min(w)..(power_of_two(w - 1) - 1) :
         registers = <<Input(w, x, FALSE), Input(w, y, constant)>>

Next ==
  \/ \E x \in Operands :
       LET a == registers[x[1]] b == registers[x[2]]
       IN  \/ \E op \in {"add", "sub", "mul", "sdiv", "srem", "udiv", "urem",
                         "and", "or", "xor", "shl", "lshr", "ashr"} :
               \E flags \in FlagSets(op) : Binary(op, flags, a, b)
           \/ \E pred \in {"eq", "ne", "slt", "sle", "ult", "ule"} : ICmp(pred, a, b)
  \/ \E w \in Widths \cup {1} :
       \/ ZExt(Last(registers), w)
       \/ SExt(Last(registers), w)
       \/ Trunc(Last(registers), w)
  \/ StoreLoad(Last(registers))
  \/ Pass(Last(registers))

Spec == Init /\ [][Next]_vars

(***************************************************************************)
(* Properties                                                              *)
(***************************************************************************)
\* The Expression of an SSA value stands for the machine's value through any
\* sequence of instructions: it is defined where the machine has no poison
\* and then equal to it modulo 2^width, exactly so if it counts as canonical.
\* In relaxed mode it is the machine's value unless something overflowed.
Represents ==
  \A r \in Range(registers) :
    IF Relaxed
    THEN r.fits /\ ~r.poison =>
           /\ r.defined
           /\ r.n = IF r.width = 1 THEN r.bits ELSE as_signed(r.bits, r.width)
    ELSE /\ r.defined = ~r.poison
         /\ r.defined =>
              /\ (r.n - r.bits) % power_of_two(r.width) = 0
              /\ r.canonical =>
                   r.n = IF r.width = 1 THEN r.bits ELSE as_signed(r.bits, r.width)
=============================================================================
