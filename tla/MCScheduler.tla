---------------------------- MODULE MCScheduler -----------------------------
(* Instances of Scheduler for TLC.                                         *)
EXTENDS Scheduler, TLC

Once == [kind |-> "once", soft |-> FALSE]
SoftOnce == [kind |-> "once", soft |-> TRUE]
SoftInterval == [kind |-> "interval", soft |-> TRUE]
Cron == [kind |-> "cron", soft |-> FALSE]
SoftCron == [kind |-> "cron", soft |-> TRUE]

EveryKind == {Once, SoftInterval, Cron, SoftCron}
SoftKinds == {SoftOnce, SoftCron}

SomeFaults == {{"save", "restart", "interrupt"}, {"load", "restart"}}
=============================================================================
