--------------------------- MODULE MCTrentSolver ---------------------------
(***************************************************************************)
(* Instances of TrentSolver for TLC.                                       *)
(***************************************************************************)
EXTENDS TrentSolver, TLC

\* The parties are interchangeable: Trent does not order them.
Symmetry == Permutations(Party)

\* ABORT, a vector that is too short, and the promises of all of rounds 1 and 2.
AllTexts == {"ABORT", "short", "promises1", "promises2"}
Complete == {"promises1", "promises2"}

OfRound(r) == IF r = 1 THEN "promises1" ELSE "promises2"

\* The checks of Trent.resolve: with a positive round, the promises that there are
\* must be of that round.
Passes(c) == c.round > 0 => c.text \in {"short", OfRound(c.round)}

\* The claims of round -1 to 2 that pass.
AnyArrivals == {c \in [sender : Party, round : -1..2, text : Texts] : Passes(c)}

\* What those who run this code send in the first round.
HonestArrivals ==
  {c \in [sender : Party, round : 0..1, text : {"ABORT", "promises1"}] :
     c.text = "ABORT" <=> c.round = 0}

\* Bound of the search: the number of different claims that Trent looks at.
FewFound == Cardinality(Found) <= 3
=============================================================================
