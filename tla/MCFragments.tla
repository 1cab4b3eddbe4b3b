----------------------------- MODULE MCFragments ----------------------------
(***************************************************************************)
(* Fragments on a compute node: the life of a query's instances, and a     *)
(* scan node within one.  The modules share no variable (what the scan     *)
(* sees of the query context is in ScanSource), so in a behaviour one of   *)
(* them has something to do: any of its workloads.                         *)
(***************************************************************************)
EXTENDS MCScan, QueryLifecycle

NoJob == ScanJob({}, <<>>, 1)
SomeJobs == MostJobs \cup {NoJob}

OneBatch(fs, isCached) == [finsts |-> fs, batch |-> TRUE, cached |-> isCached]
OneFragment(f, isCached) == [finsts |-> <<f>>, batch |-> FALSE, cached |-> isCached]
NoPlan == [reqs |-> <<>>, batches |-> 0, cancels |-> {}, fails |-> 0, invalid |-> 0]

\* A batch with a cancel; a cancel, and a cancel and a failing fragment, while the
\* instances arrive one by one; two batches of which one may be
\* invalid; two requests, and a failing fragment.
SomePlans ==
    {NoPlan,
     [NoPlan EXCEPT !.reqs = <<OneBatch(<<1, 2>>, FALSE)>>, !.batches = 1, !.cancels = {1}],
     [NoPlan EXCEPT !.reqs = <<OneFragment(1, FALSE), OneFragment(2, TRUE)>>,
                    !.cancels = {1}],
     [NoPlan EXCEPT !.reqs = <<OneFragment(2, FALSE), OneBatch(<<1>>, TRUE)>>,
                    !.cancels = {2}, !.fails = 1],
     [NoPlan EXCEPT !.reqs = <<OneBatch(<<2>>, FALSE), OneBatch(<<1>>, FALSE)>>,
                    !.batches = 1, !.invalid = 1],
     [NoPlan EXCEPT !.reqs = <<OneFragment(1, FALSE), OneFragment(2, FALSE)>>,
                    !.batches = 2, !.fails = 1]}

FragmentsInit == ScanInit /\ QInit /\ ((job = NoJob) # (plan = NoPlan))

FragmentsNext ==
    \/ ScanNext /\ UNCHANGED queryVars
    \/ QNext /\ UNCHANGED scanVars

FragmentsSpec ==
    /\ FragmentsInit /\ [][FragmentsNext]_<<scanVars, queryVars>>
    /\ ScanFairness /\ QFairness
=============================================================================
