--------------------------- MODULE MCForwardGas ----------------------------
(***************************************************************************)
(* ForwardGas with words of 30 bits, at the boundaries of its test: where  *)
(* the two sides of the maximum meet, where the shift leaves the word, and *)
(* where the sums do.                                                      *)
(***************************************************************************)
EXTENDS ForwardGas

Word == 1073741824

\* 157437 \div 63 is just less than 2500.
Targets == {0, 1, 62, 63, 64, 49000, 157436, 157437, 157500, 1000000,
            Word \div 64 - 1, Word \div 64, Word \div 64 + 1,
            Word - 10001, Word - 10000, Word - 2500, Word - 1}

\* Just enough for one of the targets, or one unit away from it.
Gas == {g \in {Required(t) + d : t \in Targets, d \in {-1, 0, 1}} : g \in 0 .. Word - 1}
=============================================================================
