--------------------------- MODULE PathExpression ---------------------------
(***************************************************************************)
(* lib/PathExpression.cpp: compression of the word of paths that a loop    *)
(* has taken into powers of primitive words.  A candidate Q w* has the     *)
(* evidence Q w^r: the factors of Q and the last, starred, word.           *)
(* Positions count the symbols before them, as in the code.                *)
(***************************************************************************)
LOCAL INSTANCE Naturals
LOCAL INSTANCE Sequences
LOCAL INSTANCE FiniteSets
LOCAL INSTANCE SequencesExt
LOCAL INSTANCE FiniteSetsExt

block_weight == 2
star_weight == 2

\* std::bit_width
exponent_bits(exponent) ==
  CHOOSE n \in 0..exponent : exponent < 2 ^ n /\ (n = 0 \/ 2 ^ (n - 1) <= exponent)
block_cost(root, exponent) == block_weight + Len(root) + exponent_bits(exponent)

is_primitive_path_word(word) ==
  /\ word # <<>>
  /\ \A period \in 1..(Len(word) - 1) :
       Len(word) % period = 0 =>
         \E i \in 1..Len(word) : word[i] # word[((i - 1) % period) + 1]

Power(root, exponent) == FlattenSeq([i \in 1..exponent |-> root])
expand_path_powers(powers) ==
  FlattenSeq([i \in 1..Len(powers) |-> Power(powers[i].root, powers[i].exponent)])

Slice(prefix, from, to) == SubSeq(prefix, from + 1, to)

\* The blocks root^exponent that may end the factorisation of the first
\* "end" symbols.
BlocksEndingAt(prefix, max_root_length, end) ==
  LET Block(i, length) == [predecessor |-> i, root |-> Slice(prefix, i, i + length),
                           exponent |-> (end - i) \div length]
      blocks == UNION {{Block(i, length) : length \in 1..Min({max_root_length, end - i})} :
                         i \in 0..(end - 1)}
  IN  {b \in blocks :
         /\ b.predecessor + Len(b.root) * b.exponent = end
         /\ is_primitive_path_word(b.root)
         /\ Slice(prefix, b.predecessor, end) = Power(b.root, b.exponent)}

\* Mutant: the earliest predecessor, whatever it costs.
EarlierChoice(c, d) ==
  \/ c.predecessor < d.predecessor
  \/ c.predecessor = d.predecessor /\ Len(c.root) < Len(d.root)

\* ChoiceKey: cost, then predecessor, then length.  Two blocks that agree in
\* these agree in root and exponent, the rest of the key.
BetterChoice(c, d) ==
  \/ c.cost < d.cost
  \/ /\ c.cost = d.cost
     /\ \/ c.predecessor < d.predecessor
        \/ /\ c.predecessor = d.predecessor
           /\ Len(c.root) < Len(d.root)

\* A position is reached through its best block; position 0 costs nothing.
FactorTable(prefix, max_root_length) ==
  LET table[end \in 0..Len(prefix)] ==
        IF end = 0
        THEN [cost |-> 0, predecessor |-> 0, root |-> <<>>, exponent |-> 0]
        ELSE LET choices == {[cost |-> table[b.predecessor].cost
                                         + block_cost(b.root, b.exponent),
                              predecessor |-> b.predecessor,
                              root |-> b.root, exponent |-> b.exponent] :
                               b \in BlocksEndingAt(prefix, max_root_length, end)}
             IN  CHOOSE c \in choices : \A d \in choices \ {c} : BetterChoice(c, d)
  IN  table

\* Mutant: without the final std::reverse.
BacktrackReversed(table, from) ==
  LET powers[end \in DOMAIN table] ==
        IF end = 0 THEN <<>>
        ELSE <<[root |-> table[end].root, exponent |-> table[end].exponent]>>
               \o powers[table[end].predecessor]
  IN  powers[from]

Backtrack(table, from) ==
  LET powers[end \in DOMAIN table] ==
        IF end = 0 THEN <<>>
        ELSE Append(powers[table[end].predecessor],
                    [root |-> table[end].root, exponent |-> table[end].exponent])
  IN  powers[from]

\* How often the word ends with its last "length" symbols.
SuffixExponent(prefix, length) ==
  LET n == Len(prefix)
      root == Slice(prefix, n - length, n)
  IN  Max({r \in 1..(n \div length) :
             Slice(prefix, n - r * length, n) = Power(root, r)})

\* One candidate for each length of the starred word.
CandidatesWith(prefix, max_root_length, evidence_threshold) ==
  LET n == Len(prefix)
      table == FactorTable(prefix, max_root_length)
      Candidate(length) ==
        LET exponent == SuffixExponent(prefix, length)
            start == n - exponent * length
        IN  [closed_prefix |-> Backtrack(table, start),
             star |-> Slice(prefix, n - length, n),
             observed_star_exponent |-> exponent,
             score |-> table[start].cost + star_weight + length
                         + exponent_bits(exponent)]
  IN  {c \in {Candidate(length) :
                length \in {k \in 1..max_root_length :
                              /\ k <= n
                              /\ is_primitive_path_word(Slice(prefix, n - k, n))}} :
         c.observed_star_exponent >= evidence_threshold}

\* CandidateOrder; stars of one word differ in length, which decides the order.
CandidateBefore(c, d) ==
  \/ c.score < d.score
  \/ /\ c.score = d.score
     /\ \/ c.observed_star_exponent > d.observed_star_exponent
        \/ /\ c.observed_star_exponent = d.observed_star_exponent
           /\ Len(c.star) < Len(d.star)

\* At most beam_width of the candidates, the first in CandidateOrder; with too
\* little evidence for any, of those with evidence 1.  The code returns them in
\* this order.
compress_path_prefix(prefix, max_root_length, beam_width, evidence_threshold) ==
  LET wanted == CandidatesWith(prefix, max_root_length, Max({evidence_threshold, 1}))
      found == IF wanted # {} THEN wanted
               ELSE CandidatesWith(prefix, max_root_length, 1)
  IN  {c \in found : Cardinality({d \in found : CandidateBefore(d, c)}) < beam_width}
=============================================================================
