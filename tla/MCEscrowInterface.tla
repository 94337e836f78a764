------------------------- MODULE MCEscrowInterface -------------------------
(***************************************************************************)
(* The interface over the rules and the bindings of MCMovieEscrow, bad and *)
(* good ones.                                                              *)
(***************************************************************************)
EXTENDS MCMovieEscrow, EscrowInterface
=============================================================================
