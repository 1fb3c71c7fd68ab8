-------------------------- MODULE MCContractRows --------------------------
EXTENDS ContractRows

\* All the contracts have the same title.  One user is a party to all of them,
\* with any one other.
MCTitleOf == [k \in Contracts |-> "Contract"]
MCAlways == CHOOSE u \in Users : TRUE
MCPartySets == {{MCAlways, u} : u \in Users \ {MCAlways}}

\* Two users come to the node.
MCLocal == CHOOSE s \in MCPartySets : TRUE
=============================================================================
