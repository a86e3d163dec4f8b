--------------------------- MODULE MCLineFraming ---------------------------
(***************************************************************************)
(* LineFraming for TLC.                                                    *)
(***************************************************************************)
EXTENDS LineFraming
=============================================================================
