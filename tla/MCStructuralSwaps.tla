------------------------- MODULE MCStructuralSwaps -------------------------
(* One rate whose cabinet builds and one whose build fails, a width under  *)
(* the minimum, a factor the scratch cannot hold.                          *)
EXTENDS StructuralSwaps

MCRates == {48, 96}
MCBadRates == {96}
MCWidths == {2, 8}
MCTooFew == {2}
MCFactors == {2, 4}
MCOversized == {4}
=============================================================================
