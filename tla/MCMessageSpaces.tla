-------------------------- MODULE MCMessageSpaces ---------------------------
(* Three forms and addresses; two or three threads, with or without URLs    *)
(* that customers write.                                                    *)
EXTENDS MessageSpaces, TLC

CONSTANTS w1, w2, w3, f1, f2, f3, a1, a2, a3

Symmetry == Permutations(Workers) \cup Permutations(Forms)
            \cup Permutations(Addresses)
=============================================================================
