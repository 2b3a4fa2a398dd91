--------------------------- MODULE MCScheduledJobs ---------------------------
\* ScheduledJobs for two files of the same bytes.
EXTENDS ScheduledJobs

SameContent == [f \in 1..Files |-> 1]
=============================================================================
