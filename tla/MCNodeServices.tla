--------------------------- MODULE MCNodeServices ---------------------------
(* Finite instances of NodeServices: the contents of files are alike.       *)
EXTENDS NodeServices, TLC

AlikeVersions == Permutations(Versions)
=============================================================================
