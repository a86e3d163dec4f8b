---------------------------- MODULE MCIlaFifo ----------------------------
(***************************************************************************)
(* IlaFifo for TLC.                                                        *)
(***************************************************************************)
EXTENDS IlaFifo
=============================================================================
