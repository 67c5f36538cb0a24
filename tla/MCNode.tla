------------------------------- MODULE MCNode -------------------------------
(***************************************************************************)
(* Instances of NodeImpl for TLC: names over two components, a route       *)
(* nested in another, and interests below one, both or the bare prefix.    *)
(***************************************************************************)
EXTENDS NodeImpl

CONSTANTS n, a, b, i1, i2, v1

\* Prefixes: one, or one nested in the other.
MCPrefix == {<<n>>}
MCPrefixes == {<<n>>, <<n, a>>}

\* Paths "/"; "/" and "/a".
MCRoot == {Root}
MCFlat == {Root, <<a>>}

MCNames == [i \in Interest |-> IF i = i1 THEN <<n, a, b>> ELSE <<n, b>>]
MCNoRejects == {}
MCRejectsFirst == {<<v1, i1>>}

Nack == [type |-> "nack", fresh |-> FALSE, sig |-> "none"]
Bare == [type |-> "blob", fresh |-> FALSE, sig |-> "none"]
Fresh == [type |-> "blob", fresh |-> TRUE, sig |-> "none"]
PreSigned == [type |-> "blob", fresh |-> TRUE, sig |-> "valid"]
MCData == {Nack, Bare, Fresh, PreSigned}
MCFreshOnly == {Fresh}
=============================================================================
