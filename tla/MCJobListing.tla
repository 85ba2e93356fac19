---------------------------- MODULE MCJobListing ---------------------------
EXTENDS JobListing

\* No filter, one that jobs only enter, one that they never leave, and one
\* that they enter and leave.
ListFilters == {{}, {"DONE", "FAILED", "CANCELED"}, {"RUNNING"}}
Ids == 1 .. 3
Clock == {1}

\* Both ways to a terminal status: from QUEUED and from RUNNING.
ListTargets == {"RUNNING", "CANCELED"}
=============================================================================
