--------------------------- MODULE MCChooseTrent ---------------------------
(***************************************************************************)
(* Instances of ChooseTrent for TLC: what the parties know at first.       *)
(***************************************************************************)
EXTENDS ChooseTrent

\* Lists without repetition of the given users.
Distinct == {s \in UNION {[1..n -> Users] : n \in 0..3} :
               \A i, j \in DOMAIN s : i # j => s[i] # s[j]}

\* Each party knows users of its own, in its own order.
AnyLists == [Party -> Distinct]

\* Each of the parties knows nobody, one user, two users in one order or the
\* other, or one that only shares the first of them.
SomeLists == [Party -> {<< >>, <<1>>, <<1, 2>>, <<2, 1>>, <<1, 3>>}]
=============================================================================
