----------------------------- MODULE MCTrading -----------------------------
(* Instances of Trading for TLC. *)
EXTENDS Trading

\* Nothing, or a lot of a share or of what is left of one, at the lowest price.
MCHoldings == {<< >>} \cup {<<[price |-> 1, quantity |-> n]>> : n \in 0..1}

\* Stocks are interchangeable.
Symmetry == Permutations(Symbols)

=============================================================================
