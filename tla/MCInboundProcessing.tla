------------------------- MODULE MCInboundProcessing -------------------------
(* Small instances of InboundProcessing for TLC: the configurations give all. *)
EXTENDS InboundProcessing
=============================================================================
