---------------------------- MODULE MCJobManager ----------------------------
(***************************************************************************)
(* Instances of JobManager for TLC.                                        *)
(***************************************************************************)
EXTENDS JobManager, FiniteSetsExt

CONSTANT s1     \* a subscription

\* Bound: MaxUpdates progress reports over all the jobs.
FewReports == MapThenSumSet(LAMBDA j : progress[j], Jobs) <= MaxUpdates

=============================================================================
