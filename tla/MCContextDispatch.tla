------------------------- MODULE MCContextDispatch -------------------------
(* Small instances of ContextDispatch.                                     *)
EXTENDS ContextDispatch, TLC

CONSTANTS t1, t2, na, nb, st, pa

MCThreads == {t1, t2}
TwoNames  == {na, nb}
Symmetry == {p @@ q : p \in Permutations({t1, t2}), q \in Permutations({na, nb})}
=============================================================================
