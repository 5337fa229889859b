---------------------------- MODULE MCScheduler ----------------------------
EXTENDS Scheduler

CONSTANTS digest,     \* fires by cron
          patrol      \* fires every two minutes

MCPeriod == [s \in Sched |-> IF s = patrol THEN 2 ELSE 0]
MCCron == [s \in Sched |-> IF s = digest THEN {1, 3} \cap Time ELSE {}]

=============================================================================
