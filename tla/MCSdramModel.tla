---------------------------- MODULE MCSdramModel ----------------------------
(***************************************************************************)
(* SdramModel for TLC.                                                     *)
(***************************************************************************)
EXTENDS SdramModel
=============================================================================
