----------------------------- MODULE MCProactive -----------------------------
(* A role bound to two channels, and one whose only target is the desktop.*)
EXTENDS Proactive

Channels == <<"telegram", "qq">>
Desktop == <<"desktop">>
=============================================================================
