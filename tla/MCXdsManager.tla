---------------------------- MODULE MCXdsManager ----------------------------
(***************************************************************************)
(* Instances of XdsManager for TLC.                                        *)
(***************************************************************************)
EXTENDS XdsManagerRefinement, TLC

CONSTANTS n1, n2

\* Add and Replace are called with every map from names to values.
AllBatches == Store

\* Add and Replace are called with all the resources there can be.
FullBatches == [Names -> Values]

\* Both names at once, or one of them.
FullOrOne == {b \in Store : b[n1] # Absent}

\* All resources (CDS), or one of them by name (EDS).
WildcardOrOne == {<<>>, <<n1>>}

\* The same two names in both orders, and one name alone.
OrderedPairs == {<<n1>>, <<n1, n2>>, <<n2, n1>>}

WildcardOnly == {<<>>}

StreamSymmetry == Permutations(Streams)
WriterSymmetry == Permutations(Writers)
=============================================================================
