------------------------------ MODULE MCLoops ------------------------------
(***************************************************************************)
(* Loops for LoopSummary.  A value is <<i, s>>; the header's test is i < 3 *)
(* unless said otherwise; an input is an initial i, s and a row of answers.*)
(***************************************************************************)
EXTENDS LoopSummary

Values == (0..3) \X (0..3)
Answer == {0, 1}
Pairs == Values \X Answer
Cap(k) == IF k > 3 THEN 3 ELSE k
Where(P(_, _, _)) == {x \in Pairs : P(x[1][1], x[1][2], x[2])}
To(F(_, _, _)) == [x \in Pairs |-> F(x[1][1], x[1][2], x[2])]

Instruction(op, block, to, other, on, update) ==
  [op |-> op, block |-> block, to |-> to, other |-> other, on |-> on, update |-> update]
Keep == To(LAMBDA i, s, c : <<i, s>>)
Set(block, to, update) == Instruction("set", block, to, to, {}, update)
Call(block, to) == Instruction("call", block, to, to, {}, Keep)
Branch(block, to, other, on) == Instruction("branch", block, to, other, on, Keep)
Jump(block, to) == Instruction("jump", block, to, to, {}, Keep)
Check(op, block, to, on) == Instruction(op, block, to, to, on, Keep)

More == Where(LAMBDA i, s, c : i < 3)
One == Where(LAMBDA i, s, c : c = 1)
Odd == Where(LAMBDA i, s, c : i % 2 = 1)
Up == To(LAMBDA i, s, c : <<Cap(i + 1), s>>)
UpBoth == To(LAMBDA i, s, c : <<Cap(i + 1), Cap(s + 1)>>)
UpAnswer == To(LAMBDA i, s, c : <<Cap(i + 1), c>>)
StuckAtTwo == To(LAMBDA i, s, c : <<IF s = 2 THEN i ELSE Cap(i + 1), s>>)

Rows == {<<0, 1, 1, 0>>, <<1, 0, 1, 1>>, <<1, 1, 0, 0>>}
Points == {[i |-> i, s |-> s, row |-> r] : i \in 0..3, s \in {0, 2}, r \in Rows}
Loop(client, node, latch) ==
  [client |-> client, value |-> Values, answer |-> Answer, point |-> Points,
   initial |-> [p \in Points |-> <<p.i, p.s>>],
   answers |-> [p \in Points |-> [k \in 0..MaxIterations |->
                 IF k < 4 THEN p.row[k + 1] ELSE 0]],
   node |-> node, latch |-> latch, bool |-> FALSE, linear |-> TRUE]

Counting == <<Branch("h", 2, Exit, More), Set("l", 3, Up), Jump("l", 1)>>
TwoPaths == <<Branch("h", 2, Exit, More), Branch("b", 3, 5, Odd), Set("t", 4, UpBoth),
              Jump("t", 7), Set("e", 6, Up), Jump("e", 7), Jump("l", 1)>>
Breaking == <<Branch("h", 2, Exit, More), Set("b", 3, UpBoth),
              Branch("b", Exit, 4, Where(LAMBDA i, s, c : s = 3)), Jump("l", 1)>>
TestedCall == <<Branch("h", 2, Exit, More), Call("b", 3), Branch("b", 4, 6, One),
                Set("t", 5, UpBoth), Jump("t", 8), Set("e", 7, Up), Jump("e", 8),
                Jump("l", 1)>>
LastCall == <<Branch("h", 2, Exit, More), Set("l", 3, UpAnswer), Call("l", 4), Jump("l", 1)>>
SomeCall == <<Branch("h", 2, Exit, More), Branch("b", 3, 9, Odd), Call("c", 4),
              Branch("c", 5, 7, One), Set("t", 6, UpBoth), Jump("t", 11),
              Set("j", 8, Up), Jump("j", 11), Set("e", 10, Up), Jump("e", 11),
              Jump("l", 1)>>
Asserting == <<Branch("h", 2, Exit, More), Check("assert", "l", 3, More),
               Set("l", 4, Up), Jump("l", 1)>>
Assuming == <<Branch("h", 2, Exit, More),
              Check("assume", "l", 3, Where(LAMBDA i, s, c : s = 0)),
              Set("l", 4, Up), Jump("l", 1)>>
Asking == <<Call("h", 2), Branch("h", 3, Exit, One), Set("l", 4, Up), Jump("l", 1)>>
Sticking == <<Branch("h", 2, Exit, More), Set("l", 3, StuckAtTwo), Jump("l", 1)>>

Endless == <<Set("h", 2, Up), Jump("h", 1)>>

MCPrograms ==
  {Loop("summarizer", body, "l") :
     body \in {Counting, TwoPaths, Breaking, TestedCall, LastCall, SomeCall, Asserting}}
  \cup {[Loop("summarizer", Sticking, "l") EXCEPT !.linear = FALSE],
        Loop("summarizer", Endless, "h")}
  \cup {Loop("accelerator", body, "l") :
          body \in {Counting, TwoPaths, Breaking, Assuming, Asking}}

\* do { .. } while (i < 3) with a body of one block, and of two.
DoWhile == <<Branch("h", 2, 3, Odd), Jump("t", 3), Set("l", 4, Up), Branch("l", 1, Exit, More)>>
DoWhileBlock == <<Set("h", 2, Up), Branch("h", 1, Exit, More)>>
MCDoWhile == {Loop("summarizer", DoWhile, "l"), Loop("summarizer", DoWhileBlock, "h"),
              Loop("summarizer", Counting, "l"), Loop("summarizer", TwoPaths, "l")}

\* An answer that the PHIs take and no test reads; a call in the header; an
\* assertion that fails, an assumption; no end for some inputs.
MCUnread == {Loop("summarizer", <<Branch("h", 2, Exit, More), Call("l", 3),
                                  Set("l", 4, UpAnswer), Jump("l", 1)>>, "l")}
MCHeaderCall == {Loop("summarizer", Asking, "l")}
MCFailing == {Loop("summarizer", [Asserting EXCEPT ![2].on = Odd], "l")}
MCAssuming == {Loop("summarizer", Assuming, "l")}
MCSticking == {Loop("summarizer", Sticking, "l")}
=============================================================================
