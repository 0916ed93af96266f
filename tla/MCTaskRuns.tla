----------------------------- MODULE MCTaskRuns ----------------------------
\* TaskRuns for TLC.
EXTENDS TaskRuns

\* None, the real 0/1/3/5 and one large enough to reach the exponent clamp.
MCMaxRetries == {NoRetries, 0, 1, 3, 5, 12}
=============================================================================
