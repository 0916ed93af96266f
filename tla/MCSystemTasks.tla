---------------------------- MODULE MCSystemTasks ----------------------------
\* SystemTasks for TLC: two workers, and one row more than one overrun can
\* leave active; max_retries is 3 in the code, 1 here.
EXTENDS SystemTasks, TLC

CONSTANTS w1, w2
=============================================================================
