--------------------------- MODULE MCChannelHandover ---------------------------
(* Two channels that may be added, changed and removed. *)
EXTENDS ChannelHandover

CONSTANTS tg, qq
TwoNames == {tg, qq}
=============================================================================
