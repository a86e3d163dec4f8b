------------------------- MODULE MCRequestResponse -------------------------
(***************************************************************************)
(* RequestResponse for TLC.                                                *)
(***************************************************************************)
EXTENDS RequestResponse

\* The LEDs are dark, a button of the board is held.
LedsAndButtons == [r \in Readable \cup Writable |-> IF r = Leds THEN 0 ELSE 3]
=============================================================================
