--------------------------- MODULE MCStreamDialog ---------------------------
(* StreamDialog on small instances: the goroutines of each pool and the    *)
(* streams are interchangeable.                                            *)
EXTENDS StreamDialog, TLC

Perms ==
  Permutations(Stream) \cup Permutations(Handler) \cup Permutations(Inviter)
    \cup Permutations(Stopper) \cup Permutations(Byer)
=============================================================================
