------------------------------- MODULE MCVoice -------------------------------
(* Two voice turns of two sentences; each behaviour meets one of the listed *)
(* mixes of disturbances.                                                   *)
EXTENDS Voice

Mixes == {{"timeout", "window"}, {"test"}, {"late", "stop"}, {"escape"}}
Late == {{"late"}}
Escape == {{"escape"}}
Stop == {{"stop"}}
Undisturbed == {{}}

\* Every voice task ends that was not overtaken by the end of its own reply.
OthersEnd == []<>(ctl.ui \in Resting \/ Overtaken)
=============================================================================
