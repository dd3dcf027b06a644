------------------------------ MODULE MCWriter ------------------------------
(***************************************************************************)
(* Writer with small sizes: the ratios are those of the code.               *)
(***************************************************************************)
EXTENDS Writer

SmallBlobs == {0, 1, 6, 40}
=============================================================================
