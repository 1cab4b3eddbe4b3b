---------------------------- MODULE MCManagedLake ---------------------------
(***************************************************************************)
(* TLC instances of ManagedLake: two tablets, one or two sessions.         *)
(***************************************************************************)
EXTENDS ManagedLake, TLC

CONSTANTS a, b, w1, w2

\* The tablets of a partition are interchangeable, and so are the sessions.
Symmetry == Permutations(Tablets) \cup Permutations(Writers)

NoFaults(t, p) == [txns |-> t, parts |-> p, obj |-> 0, sql |-> 0, drops |-> 0,
                   crashes |-> 0, reopens |-> 0]

\* Two INSERTs and a TRUNCATE, with a failure of each kind and a crash; two INSERTs,
\* a DROP of another table, a failing object-store call, a crash and a reopen.
TruncateBudget == [NoFaults(2, 2) EXCEPT !.obj = 1, !.sql = 1, !.crashes = 1]
DropBudget == [NoFaults(2, 1) EXCEPT !.obj = 1, !.drops = 1, !.crashes = 1, !.reopens = 1]
SerialBudgets == {TruncateBudget, DropBudget}

\* An engine closed and opened again in its process, with transactions left
\* behind; a TRUNCATE and a DROP of another table; a failing object-store call.
ReopenBudget == [NoFaults(2, 1) EXCEPT !.obj = 1, !.sql = 1, !.reopens = 1]
EraseBudget == [NoFaults(1, 2) EXCEPT !.obj = 1, !.drops = 1]
LiveBudgets == {ReopenBudget, EraseBudget}

\* Two INSERTs; one INSERT and a crash.
PairBudget == {NoFaults(2, 1)}
CrashBudget == {[NoFaults(1, 1) EXCEPT !.crashes = 1]}
=============================================================================
