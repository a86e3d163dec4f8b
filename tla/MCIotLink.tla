----------------------------- MODULE MCIotLink -----------------------------
(***************************************************************************)
(* IotLink and its inductive invariant on small instances.  Every cfg has  *)
(* Bits = 2 and a small Half, so that few messages take the identifiers    *)
(* once round: with Half = 1 they run 0, 1, 2, 3, 1, 2, ...                *)
(***************************************************************************)
EXTENDS IotLinkInv
=============================================================================
