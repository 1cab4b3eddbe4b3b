------------------------------ MODULE MCTables ------------------------------
(***************************************************************************)
(* The two kinds of table that a standalone server writes, for TLC: the    *)
(* managed-lake table of ManagedLake and the Iceberg table of Iceberg.     *)
(* They share neither state nor locks, so in a behaviour one of them has   *)
(* something to do: a workload of the Iceberg table, or the managed-lake   *)
(* table within one of its budgets.                                        *)
(***************************************************************************)
EXTENDS MCManagedLake, MCIceberg

NoLoad == Workload("rest", 2, {}, 0, 0)
NoBudget == NoFaults(0, 1)
SomeWorkloads == MostWorkloads \cup {NoLoad}
SomeBudgets == LiveBudgets \cup {NoBudget}

TablesInit == Init /\ IceInit /\ ((load = NoLoad) # (budget = NoBudget))
TablesNext ==
    \/ Next /\ UNCHANGED iceVars
    \/ IceNext /\ UNCHANGED vars
TablesSpec == TablesInit /\ [][TablesNext]_<<vars, iceVars>> /\ Fairness
=============================================================================
