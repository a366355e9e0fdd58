--------------------------- MODULE MCProviderWire ---------------------------
(* Two overlapping runs of any trials. *)
EXTENDS ProviderWire

CONSTANTS r1, r2
=============================================================================
