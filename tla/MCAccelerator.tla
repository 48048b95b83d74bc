--------------------------- MODULE MCAccelerator ---------------------------
(***************************************************************************)
(* Loops for Accelerator.  A value is a number; a path is a number.        *)
(***************************************************************************)
EXTENDS Accelerator

Values == 0..7
Up(v) == IF v < 7 THEN v + 1 ELSE v
NoCounts == {[v \in Values |-> 0]}
Fixed(x) == [v \in Values |-> x]

\* A loop with one path: from initial[p], while v is in enabled.
Counting(kind, initial, answers, enabled) ==
  [kind |-> kind, value |-> Values, point |-> DOMAIN initial, paths |-> {1},
   initial |-> initial, answers |-> answers, error |-> {},
   enabled |-> <<enabled>>, ok |-> <<Values>>, update |-> <<[v \in Values |-> Up(v)]>>,
   reads |-> <<FALSE>>, resets |-> <<FALSE>>, counts |-> NoCounts,
   entries |-> 0, again |-> Fixed(0)]

\* Two paths, in turn up to 5, then the second one for ever; point 3 leaves at
\* once.
InTurn ==
  [Counting("plain", <<0, 1, 4>>, <<0, 0, 0>>, {}) EXCEPT
     !.paths = {1, 2}, !.enabled = <<{0, 2, 6}, {1, 3, 5, 7}>>,
     !.ok = <<Values, Values>>, !.reads = <<FALSE, FALSE>>, !.resets = <<FALSE, FALSE>>,
     !.update = <<[v \in Values |-> Up(v)], [v \in Values |-> IF v = 3 THEN 6 ELSE Up(v)]>>]

\* A phase of each path; the sum overflows at 5, and nothing reads it.
Overflowing ==
  [Counting("plain", <<0, 1>>, <<0, 0>>, 0..6) EXCEPT !.ok = <<Values \ {5}>>,
                                                      !.resets = <<TRUE>>]
Phases ==
  [Counting("plain", <<0, 4>>, <<0, 0>>, {}) EXCEPT
     !.paths = {1, 2}, !.enabled = <<0..2, 3..5>>, !.ok = <<Values, Values>>,
     !.update = <<[v \in Values |-> Up(v)], [v \in Values |-> Up(v)]>>,
     !.reads = <<FALSE, FALSE>>, !.resets = <<FALSE, FALSE>>]

\* An oracle: with a second path from 4 on, and one that overflows at 5, or
\* that branches on what overflowed before the loop.
Asking(initial, answers) == Counting("oracle", initial, answers, Values)
AskingTwo ==
  [Asking(<<0, 0, 4>>, <<2, 6, 3>>) EXCEPT
     !.paths = {1, 2}, !.enabled = <<0..3, 4..7>>, !.ok = <<Values, Values>>,
     !.update = <<[v \in Values |-> Up(v)], [v \in Values |-> Up(v)]>>,
     !.reads = <<FALSE, FALSE>>, !.resets = <<FALSE, FALSE>>]
AskingOverflow == [Asking(<<0, 0>>, <<2, 7>>) EXCEPT !.ok = <<Values \ {3}>>]

\* Inside another loop that comes back with half the value; an assertion that
\* only value 1 violates; counts by the distance to 4, as the header's test
\* has it, and one too many.
Distance(v) == IF v < 4 THEN 4 - v ELSE 0
InLoop(initial, error, ok) ==
  [Counting("family", initial, [p \in DOMAIN initial |-> 0], 0..3) EXCEPT
     !.error = error, !.ok = <<ok>>, !.entries = 1,
     !.counts = {[v \in Values |-> Distance(v)], [v \in Values |-> Distance(v) + 1]},
     !.again = [v \in Values |-> v \div 2]]

\* Poison from 3 on, which a second jump starts with and a branch reads.
MCUndefined ==
  {[Counting("plain", <<0, 1>>, <<0, 0>>, 0..6) EXCEPT
      !.ok = <<Values \ {3}>>, !.reads = <<r>>] : r \in BOOLEAN}

MCPrograms ==
  {Counting("plain", <<0, 3, 7>>, <<0, 0, 0>>, 0..5), InTurn, Overflowing, Phases,
   Asking(<<0, 3, 0>>, <<0, 2, 5>>), AskingTwo, AskingOverflow,
   InLoop(<<0, 2, 6>>, {}, Values), InLoop(<<0, 2, 5>>, {1}, Values),
   InLoop(<<0, 3>>, {4}, Values),
   [InLoop(<<0, 3>>, {}, Values \ {3}) EXCEPT !.again = [v \in Values |-> v]]}
=============================================================================
