--------------------------- MODULE MCFeeExchange ---------------------------
(* Instances of FeeExchange for TLC.                                       *)
EXTENDS FeeExchange

EveryCall == {"eth_submitLogin", "eth_getWork", "eth_submitHashrate"}
=============================================================================
