------------------------ MODULE MCConfigTransaction -------------------------
(* Two texts and two manifests are enough to tell a pair from a mixture.   *)
EXTENDS ConfigTransaction
=============================================================================
