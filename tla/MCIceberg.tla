------------------------------ MODULE MCIceberg -----------------------------
(* Workloads of Iceberg for TLC: three statements on a table made by two.   *)
EXTENDS Iceberg

Workload(c, f, ks, n, faults) ==
    [cat |-> c, fmt |-> f, kinds |-> ks, sessions |-> n, slips |-> faults]

\* One committing session through the Hadoop catalog: DML, and branches with
\* maintenance, each with a fault; OPTIMIZE and orphan removal with two faults, of
\* which one leaves orphans; OPTIMIZE and INSERT among other statements without a
\* fault, since after a failed hint write both read metadata that is not committed.
\* Two sessions through the REST catalog, with a fault and without.
MostWorkloads ==
    {Workload("hadoop", 2, {"append", "overwrite", "delete"}, 1, 1),
     Workload("hadoop", 3, {"append", "delete", "truncate"}, 1, 1)}
    \cup {Workload("hadoop", f, {"append", "create", "drop", "expire", "orphan"}, 1, 1) :
             f \in {2, 3}}
    \cup {Workload("hadoop", f, {"insert", "delete", "rewrite"}, 1, 0) : f \in {2, 3}}
    \cup {Workload("hadoop", f, {"rewrite", "orphan"}, 1, 2) : f \in {2, 3}}
    \cup {Workload("hadoop", 2, {"truncate", "orphan"}, 1, 2)}
    \cup {Workload("rest", 2, {"insert", "append", "overwrite", "create", "drop"}, 2, 0),
          Workload("rest", 3, {"append", "create", "drop"}, 2, 0),
          Workload("rest", 3, {"insert", "overwrite"}, 2, 0),
          Workload("rest", 2, {"insert", "append"}, 2, 1),
          Workload("rest", 3, {"append"}, 2, 1)}

\* Two sessions append through the Hadoop catalog.
HadoopPair == {Workload("hadoop", f, {"append"}, 2, 0) : f \in {2, 3}}
=============================================================================
