---------------------------- MODULE MCSupervisor ------------------------------
EXTENDS SupervisorProps

TwoFaults == [s \in Strategies |-> 2]

\* Two under OneForOne; AllForOne, which starts every child again, has one.
Faults == [s \in Strategies |-> IF s = "OneForOne" THEN 2 ELSE 1]
=============================================================================
