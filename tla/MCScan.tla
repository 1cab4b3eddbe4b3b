------------------------------- MODULE MCScan -------------------------------
(* Scans for TLC; a morsel is the sequence of its chunks.                   *)
EXTENDS ScanSource

ScanJob(ds, ms, n) ==
    [drivers |-> ds, first |-> ms, more |-> FALSE, later |-> <<>>, tasks |-> n, limit |-> 0,
     rejects |-> 0, stops |-> 0]

OneDriver == ScanJob({1}, << <<1>>, <<2, 3>> >>, 1)
TwoTasks == ScanJob({1}, << <<1, 2>>, <<3>> >>, 2)

\* One driver, with a refused submission and a stop, with a limit, with ranges that
\* follow, and with two tasks for more than the buffer holds; two drivers for one morsel.
MostJobs ==
    {[OneDriver EXCEPT !.rejects = 1, !.stops = 1],
     [OneDriver EXCEPT !.limit = 2],
     [OneDriver EXCEPT !.first = << <<1>> >>, !.more = TRUE,
                       !.later = << [morsels |-> << <<2>> >>, more |-> TRUE],
                                    [morsels |-> << <<3>> >>, more |-> FALSE] >>],
     TwoTasks,
     ScanJob({1, 2}, << <<1>> >>, 1)}

\* One driver with one task and one chunk, and with two tasks.
LossyJobs == {ScanJob({1}, << <<1>> >>, 1), TwoTasks}
=============================================================================
