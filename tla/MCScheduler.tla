---------------------------- MODULE MCScheduler ----------------------------
EXTENDS SchedulerInvariant

\* Two workers with different periods (2 and 3 ticks), as kmain's 300 and 500 ms.
TwoJobs == <<20, 30>>
\* A sleep below one tick, which the code rounds up to one.
ShortJobs == <<5, 20>>
\* Periods of 6 and 10 ticks, which end inside a slice of 5 as well as with it (those of
\* kmain, 30 and 50, end with it).
UnevenJobs == <<60, 100>>

=============================================================================
