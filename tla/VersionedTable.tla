--------------------------- MODULE VersionedTable ---------------------------
(***************************************************************************)
(* What a table promises the clients that change it: every statement takes *)
(* effect at most once and in one step, whole; it is acknowledged only     *)
(* after its effect; and a statement that was refused never has one.  A    *)
(* statement whose outcome its client does not learn may take effect at    *)
(* any time or never.                                                      *)
(***************************************************************************)
EXTENDS Integers

CONSTANTS Statements, Fresh(_)   \* Fresh(s): the rows s brings with it

VARIABLES
    rows,      \* the committed rows: what the next statement builds on
    kind,      \* kind[s]: what statement s was asked to do
    done,      \* the statements that took effect
    acked,     \* the statements that returned Ok
    refused    \* the statements that returned an error and say they did nothing

tv == <<rows, kind, done, acked, refused>>

TInit == kind = [s \in Statements |-> "none"] /\ done = {} /\ acked = {} /\ refused = {}

\* A statement arrives.
Ask(s) ==
    /\ kind[s] = "none"
    /\ \E k \in {"append", "overwrite", "delete", "rewrite", "truncate"} :
          kind' = [kind EXCEPT ![s] = k]
    /\ UNCHANGED <<rows, done, acked>> /\ refused' \in {refused, refused \cup {s}}

\* The effect of a statement of kind k on the rows.
Effect(s, k) ==
    CASE k = "append" -> rows' = rows \cup Fresh(s)
      [] k = "overwrite" -> rows' = Fresh(s)
      [] k = "delete" -> rows' \subseteq rows
      [] k = "rewrite" -> rows' = rows
      [] k = "truncate" -> rows' = {}

\* It takes effect, and returns or not.
Take(s) ==
    /\ kind[s] # "none" /\ s \notin done \cup refused
    /\ Effect(s, kind[s])
    /\ done' = done \cup {s} /\ acked' \in {acked, acked \cup {s}}
    /\ UNCHANGED <<kind, refused>>

\* It returns some time after its effect.
Acknowledge(s) ==
    /\ s \in done
    /\ acked' = acked \cup {s}
    /\ UNCHANGED <<rows, kind, done, refused>>

\* Nothing to do: asked and answered in one step.
Nothing(s) ==
    /\ kind[s] = "none"
    /\ \E k \in {"delete", "rewrite"} : kind' = [kind EXCEPT ![s] = k]
    /\ done' = done \cup {s} /\ acked' = acked \cup {s}
    /\ UNCHANGED <<rows, refused>>

Refuse(s) ==
    /\ kind[s] # "none" /\ s \notin done \cup refused
    /\ refused' = refused \cup {s}
    /\ UNCHANGED <<rows, kind, done, acked>>

TNext == \E s \in Statements : Ask(s) \/ Take(s) \/ Acknowledge(s) \/ Nothing(s) \/ Refuse(s)

TSpec == TInit /\ [][TNext]_tv
=============================================================================
