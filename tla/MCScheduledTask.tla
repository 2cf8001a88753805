---------------------------- MODULE MCScheduledTask ----------------------------
EXTENDS ScheduledTask

CONSTANTS t1

MCExecution == 1..1
MCHappens == EventKinds
===============================================================================
