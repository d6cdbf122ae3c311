---------------------------- MODULE MCComposition ----------------------------
\* The inputs that exist: the sample of each module, with either consensus
\* client for ethereum, and a module the catalog does not know.
EXTENDS Composition

Sample(module, clNode) == [module |-> module, chain |-> "mainnet", clNode |-> clNode]

AllInputs ==
    {Sample("ethereum", "prysm"), Sample("ethereum", "lighthouse")}
    \cup {Sample(m, "prysm") : m \in {"polygon", "berachain", "tempo", "solana"}}

\* No name of the catalog goes on from another; this pair is for the form.
LongerNames == {<<"database", "data">>}
=============================================================================
