--------------------------- MODULE MCIrLinkClock ---------------------------
(* An instance of IrLinkClock for TLC.                                        *)
EXTENDS IrLinkClock

PeerBehind == -7
=============================================================================
