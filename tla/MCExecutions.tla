---------------------------- MODULE MCExecutions ----------------------------
(* Model checking of Executions by itself: a poll that gives a run up        *)
(* against the longest time the kind of run may take.                        *)
EXTENDS Executions, TLC

ByKind(t, b, c) == [k \in RunKinds |-> IF k = "task" THEN t ELSE IF k = "backup" THEN b ELSE c]

\* systemd starts every unit at once; a task ends within the time a poll waits, a backup
\* does not have to.
MCStartDelay == ByKind(0, 0, 0)
MCLongestRun == ByKind(1, 3, 1)
MCGiveUp == ByKind(2, 2, 2)
=============================================================================
