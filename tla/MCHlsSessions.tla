--------------------------- MODULE MCHlsSessions ---------------------------
(* Instances of HlsSessions for TLC.                                       *)
EXTENDS HlsSessions, TLC

\* All URLs are on one CDN host.
OneHost == [u \in Urls |-> CHOOSE h \in Hosts : TRUE]

\* Requests differ only in name (used by runs without liveness).
RequestSymmetry == Permutations(Requests)
=============================================================================
