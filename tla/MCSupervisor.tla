----------------------------- MODULE MCSupervisor -----------------------------
(* Small instances of Supervisor: one or two subtests, a few ticks.          *)
EXTENDS Supervisor

CONSTANTS t1, t2

One == <<t1>>
Two == <<t1, t2>>
===============================================================================
