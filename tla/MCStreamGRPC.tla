---------------------------- MODULE MCStreamGRPC ----------------------------
(***************************************************************************)
(* Instances of StreamGRPC for TLC.                                        *)
(***************************************************************************)
EXTENDS StreamGRPC, TLC

\* Add and Replace are called with every map from names to values.
AllBatches == Store

\* Add and Replace are called with all the resources there can be.
FullBatches == [Names -> Values]

\* Clients of CDS ask for everything.
WildcardOnly == {<<>>}

\* Two processes whose pods have different names.
TwoPods == <<"pod-1", "pod-2">>
OnePod == <<"pod-1">>

StreamSymmetry == Permutations(Streams)
=============================================================================
