---------------------------- MODULE MCItemSearch ----------------------------
EXTENDS ItemSearch

\* The node has one of the titles, its peers have all.
MCHolds == [n \in Peers \cup {Here} |->
              IF n = Here THEN {CHOOSE t \in Texts : TRUE} ELSE Texts]
=============================================================================
