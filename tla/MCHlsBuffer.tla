---------------------------- MODULE MCHlsBuffer ----------------------------
(* Instances of HlsBuffer for TLC.                                         *)
EXTENDS HlsBuffer, TLC

\* Readers differ only in name (used by runs without liveness).
ReaderSymmetry == Permutations(Readers)
=============================================================================
