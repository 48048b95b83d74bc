---------------------------- MODULE MCFunctions ----------------------------
(***************************************************************************)
(* Recursive functions for FunctionSummary.  Pointers are a and b, with    *)
(* contents in 0..4 and 0..3, where b is reduced modulo 4; an integer      *)
(* argument n is in -2..5.                                                 *)
(***************************************************************************)
EXTENDS FunctionSummary

Pairs == (0..4) \X (0..3)
Numbers == -2..5
Cap(k) == IF k > 4 THEN 4 ELSE k

Instruction(value, op, block, to, other, on, update) ==
  [op |-> op, block |-> block, to |-> to, other |-> other, on |-> on,
   update |-> update, callee |-> 1, result |-> [v \in value |-> 0], weight |-> 0]

\* on pairs
Id == [v \in Pairs |-> v]
Store(block, to, F(_, _)) ==
  Instruction(Pairs, "set", block, to, to, {}, [v \in Pairs |-> F(v[1], v[2])])
Test2(op, block, to, other, P(_, _)) ==
  Instruction(Pairs, op, block, to, other, {v \in Pairs : P(v[1], v[2])}, Id)
If2(block, to, other, P(_, _)) == Test2("branch", block, to, other, P)
Jump2(block, to) == Instruction(Pairs, "jump", block, to, to, {}, Id)
Self(block, to) == Instruction(Pairs, "call", block, to, to, {}, Id)
Error2(block) == Instruction(Pairs, "error", block, 1, 1, {}, Id)
Ret2(block) == Instruction(Pairs, "return", block, 1, 1, {}, Id)
Pointers(body, calls) ==
  [kind |-> "pointers", value |-> Pairs, function |-> <<body>>, calls |-> calls]

Below(a, b) == a < 3
\* if (*a < 3) { ++*a; f(a, b); }
Counting == <<If2("h", 2, 5, Below), Store("t", 3, LAMBDA a, b : <<Cap(a + 1), b>>),
              Self("t", 4), Jump2("t", 5), Ret2("x")>>
\* both, with an assertion that a is at most b
BothUp == <<If2("h", 2, 6, Below), Test2("assert", "t", 3, 3, LAMBDA a, b : a <= b),
            Store("t", 4, LAMBDA a, b : <<Cap(a + 1), (b + 1) % 4>>),
            Self("t", 5), Jump2("t", 6), Ret2("x")>>
\* two recursive cases: b goes up by 2 where a is 1, else not
TwoWays == <<If2("h", 2, 10, Below), If2("b", 3, 6, LAMBDA a, b : a = 1),
             Store("o", 4, LAMBDA a, b : <<Cap(a + 1), (b + 2) % 4>>), Self("o", 5), Jump2("o", 9),
             Store("e", 7, LAMBDA a, b : <<Cap(a + 1), b>>), Self("e", 8), Jump2("e", 9),
             Jump2("j", 10), Ret2("x")>>
\* an assumption on the way
Assuming == <<If2("h", 2, 6, Below), Test2("assume", "t", 3, 3, LAMBDA a, b : b # 2),
              Store("t", 4, LAMBDA a, b : <<Cap(a + 1), b>>),
              Self("t", 5), Jump2("t", 6), Ret2("x")>>
\* a store behind the call, in its block or in the last one
LastUp(a, b) == <<a, IF a = 3 THEN (b + 1) % 4 ELSE b>>
StoreAfter == <<If2("h", 2, 6, Below), Store("t", 3, LAMBDA a, b : <<Cap(a + 1), b>>),
                Self("t", 4), Store("t", 5, LastUp),
                Jump2("t", 6), Ret2("x")>>
StoreLast == <<If2("h", 2, 5, Below), Store("t", 3, LAMBDA a, b : <<Cap(a + 1), b>>),
               Self("t", 4), Jump2("t", 5),
               Store("x", 6, LastUp), Ret2("x")>>
\* the base case stores
BaseStores == <<If2("h", 2, 5, Below), Store("t", 3, LAMBDA a, b : <<Cap(a + 1), b>>),
                Self("t", 4), Jump2("t", 7),
                Store("e", 6, LAMBDA a, b : <<a, (b + 1) % 4>>), Jump2("e", 7), Ret2("x")>>
\* an error call that is not a noreturn function
Failing == <<If2("h", 2, 6, Below), If2("t", 3, 4, LAMBDA a, b : b = 3),
             Error2("r"), Self("u", 5), Jump2("u", 6), Ret2("x")>>

\* on numbers
Same == [n \in Numbers |-> n]
Minus(k) == [n \in Numbers |-> IF n - k < -2 THEN -2 ELSE n - k]
If1(block, to, other, P(_)) ==
  Instruction(Numbers, "branch", block, to, other, {n \in Numbers : P(n)}, Same)
Call1(block, to, callee, argument) ==
  [Instruction(Numbers, "call", block, to, to, {}, argument) EXCEPT !.callee = callee]
Divide(block, to, P(_)) ==
  Instruction(Numbers, "divide", block, to, to, {n \in Numbers : P(n)}, Same)
Ret1(block, R(_), weight) ==
  [Instruction(Numbers, "return", block, 1, 1, {}, Same)
     EXCEPT !.result = [n \in Numbers |-> R(n)], !.weight = weight]
Scalar(bodies) ==
  [kind |-> "scalar", value |-> Numbers, function |-> bodies, calls |-> <<>>]

Zero(n) == n = 0
\* n == 0 ? 0 : n + f(n - 1)
Sum == <<If1("h", 2, 3, Zero), Ret1("z", LAMBDA n : 0, 0),
         Call1("r", 4, 1, Minus(1)), Ret1("r", LAMBDA n : n, 1)>>
\* n <= 0 ? 0 : odd ? 1 + f(n - 1) : 2 * f(n - 1)
ByParity == <<If1("h", 2, 3, LAMBDA n : n <= 0), Ret1("z", LAMBDA n : 0, 0),
              If1("r", 4, 6, LAMBDA n : n % 2 = 1),
              Call1("o", 5, 1, Minus(1)), Ret1("o", LAMBDA n : 1, 1),
              Call1("e", 7, 1, Minus(1)), Ret1("e", LAMBDA n : 0, 2)>>
Fibo == <<If1("h", 2, 3, LAMBDA n : n < 1), Ret1("z", LAMBDA n : 0, 0),
          If1("b", 4, 5, LAMBDA n : n = 1), Ret1("o", LAMBDA n : 1, 0),
          Call1("r", 6, 1, Minus(1)), Call1("r", 7, 1, Minus(2)), Ret1("r", LAMBDA n : 0, 1)>>
\* even calls odd, odd calls even
Even(other) == <<If1("h", 2, 3, Zero), Ret1("z", LAMBDA n : 1, 0),
                 Call1("r", 4, other, Minus(1)), Ret1("r", LAMBDA n : 0, 1)>>
Odd(other) == <<If1("h", 2, 3, Zero), Ret1("z", LAMBDA n : 0, 0),
                Call1("r", 4, other, Minus(1)), Ret1("r", LAMBDA n : 0, 1)>>
\* n == 1 ? 7 : n == 0 ? 3 : other(n - 1), with two paths on which it calls nothing
TwoBases(other) == <<If1("h", 2, 3, LAMBDA n : n = 1), Ret1("o", LAMBDA n : 7, 0),
                     If1("k", 4, 5, Zero), Ret1("z", LAMBDA n : 3, 0),
                     Call1("r", 6, other, Minus(1)), Ret1("r", LAMBDA n : 0, 1)>>
\* (n / 2) in a recursive case
Dividing(P(_)) == <<If1("h", 2, 3, Zero), Ret1("z", LAMBDA n : 0, 0),
                    If1("b", 4, 7, LAMBDA n : n % 2 = 0), Divide("d", 5, P),
                    Call1("d", 6, 1, Minus(1)), Ret1("d", LAMBDA n : n, 1),
                    Call1("r", 8, 1, Minus(1)), Ret1("r", LAMBDA n : 0, 1)>>

Starts == {<<0, 0>>, <<1, 2>>, <<2, 0>>, <<3, 1>>, <<4, 3>>}
OneCallEach == {Pointers(body, <<v>>) :
                  body \in {Counting, BothUp, TwoWays, Assuming, StoreAfter}, v \in Starts}
MCPrograms ==
  OneCallEach \cup {Scalar(<<Sum>>), Scalar(<<ByParity>>), Scalar(<<Fibo>>),
                    Scalar(<<Even(2), Odd(1)>>), Scalar(<<Dividing(LAMBDA n : n # 0)>>)}

\* What goes wrong: two calls on one path, a store in the last block, an error
\* call; with other programs in their place, stores of the base case, exact
\* divisions, and base cases of paths that exclude each other.
MCTwice == {Pointers(Counting, <<<<1, 0>>, <<2, 0>>>>)}
MCStoreLast == {Pointers(StoreLast, <<v>>) : v \in Starts}
MCFailing == {Pointers(Failing, <<v>>) : v \in Starts}
MCBaseStores == {Pointers(BaseStores, <<v>>) : v \in Starts}
MCExactDivision == {Scalar(<<Dividing(LAMBDA n : FALSE)>>)}
MCTwoBases == {Scalar(<<TwoBases(2), Even(1)>>)}
=============================================================================
