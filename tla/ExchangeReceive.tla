--------------------------- MODULE ExchangeReceive ---------------------------
(***************************************************************************)
(* The receiving half of one exchange: the global map from exchange keys   *)
(* to receivers, here for one key; the tombstones of cancelled keys; and   *)
(* the ExchangeSource drivers that read from the receiver.                 *)
(*                                                                         *)
(* A receiver is shared by reference: a source or a request in progress    *)
(* keeps the one it looked up although the map has dropped or replaced it. *)
(* Receivers are therefore numbered, in the order of their creation.       *)
(***************************************************************************)
EXTENDS ExchangeSetup

VARIABLES
    entry,  \* EXCHANGE[key]: the receiver in the map, 0 when there is none
    made,   \* receivers created so far
    rcv,    \* ReceiverState of each receiver
    tomb,   \* key \in CANCELED_KEYS
    frag,   \* life of the receiving fragment
    src,    \* life of each source driver
    hnd,    \* the receiver each source driver holds
    got     \* history: chunks popped, in order

mapVars == <<entry, made, tomb>>
sourceVars == <<frag, src, hnd, got>>
recvVars == <<mapVars, rcv, sourceVars>>

FreshReceiver == [chunks |-> <<>>, finished |-> {}, metas |-> {}, canceled |-> FALSE]

ReceiveInit ==
    /\ entry = 0 /\ made = 0 /\ tomb = FALSE
    /\ rcv = [g \in 1 .. MaxReceivers |-> FreshReceiver]
    /\ frag = "planned"
    /\ src = [r \in Sources |-> "new"]
    /\ hnd = [r \in Sources |-> 0]
    /\ got = <<>>

\* get_or_create: the receiver it returns, and its effect on the map.
Receiver == IF entry = 0 THEN made + 1 ELSE entry
GetOrCreate ==
    /\ Receiver <= MaxReceivers
    /\ entry' = Receiver
    /\ made' = IF entry = 0 THEN made + 1 ELSE made
    /\ UNCHANGED tomb
-----------------------------------------------------------------------------
(* Removing the key; only a key that is in the map gets a tombstone.        *)

RemoveFragment ==
    /\ entry' = 0 /\ UNCHANGED <<made, rcv>>
    /\ tomb' = (tomb \/ entry # 0)

CancelFragment ==
    /\ entry' = 0 /\ UNCHANGED made
    /\ tomb' = (tomb \/ entry # 0)
    /\ rcv' = IF entry = 0 THEN rcv ELSE [rcv EXCEPT ![entry].canceled = TRUE]

\* cleanup_canceled_keys_locked: the TTL has passed or the table overflowed.
ForgetTombstone ==
    /\ tomb /\ tomb' = FALSE
    /\ UNCHANGED <<entry, made, rcv, sourceVars>>
-----------------------------------------------------------------------------
(* The receiving fragment *)

SourceOver == {"finished", "stopped", "failed"}

\* ExchangeSourceFactory::new registers the schema and the sender count.
RegisterExchange ==
    /\ frag = "planned"
    /\ IF tomb THEN frag' = "failed" /\ UNCHANGED mapVars
               ELSE frag' = "building" /\ GetOrCreate
    /\ UNCHANGED <<rcv, src, hnd, got>>

\* prepare, driver by driver: the tombstone first ...
PrepareCheck(r) ==
    /\ frag = "building" /\ src[r] = "new"
    /\ \A q \in Sources : src[q] # "checked"
    /\ IF tomb THEN frag' = "failed" /\ UNCHANGED src
               ELSE src' = [src EXCEPT ![r] = "checked"] /\ UNCHANGED frag
    /\ UNCHANGED <<mapVars, rcv, hnd, got>>

\* ... then the map. The drivers start when all of them are prepared.
PrepareGet(r) ==
    /\ src[r] = "checked"
    /\ GetOrCreate
    /\ hnd' = [hnd EXCEPT ![r] = Receiver]
    /\ src' = [src EXCEPT ![r] = "ready"]
    /\ frag' = IF \A q \in Sources \ {r} : src[q] = "ready" THEN "running" ELSE frag
    /\ UNCHANGED <<rcv, got>>

\* Mutant: one sender's end-of-stream ends the exchange.
AnyFinished(g) == rcv[g].finished # {}

AllFinished(g) == Cardinality(rcv[g].finished) >= Expected
HasOutputOrFinished(g) == rcv[g].canceled \/ rcv[g].chunks # <<>> \/ AllFinished(g)

\* pull_chunk: try_pop_next looks for cancellation, a chunk, the end.
PullChunk(r) ==
    LET g == hnd[r] IN
    /\ frag = "running" /\ src[r] \in {"ready", "started"} /\ HasOutputOrFinished(g)
    /\ IF rcv[g].canceled
       THEN src' = [src EXCEPT ![r] = "failed"] /\ UNCHANGED <<rcv, got>>
       ELSE IF rcv[g].chunks # <<>>
       THEN /\ got' = Append(got, Head(rcv[g].chunks))
            /\ rcv' = [rcv EXCEPT ![g].chunks = Tail(@)]
            /\ src' = [src EXCEPT ![r] = "started"]
       ELSE src' = [src EXCEPT ![r] = "finished"] /\ UNCHANGED <<rcv, got>>
    /\ UNCHANGED <<mapVars, frag, hnd>>

\* The timeout runs from the first pull and fails the next one.
PullTimeout(r) ==
    /\ frag = "running" /\ src[r] = "started"
    /\ src' = [src EXCEPT ![r] = "failed"]
    /\ UNCHANGED <<mapVars, rcv, frag, hnd, got>>

\* A LIMIT downstream is reached: the driver ends without draining the source.
StopEarly(r) ==
    /\ frag = "running" /\ src[r] \in {"ready", "started"}
    /\ src' = [src EXCEPT ![r] = "stopped"]
    /\ UNCHANGED <<mapVars, rcv, frag, hnd, got>>

\* A driver of the fragment failed: the others are aborted.
AbortSource(r) ==
    /\ frag = "running" /\ src[r] \in {"ready", "started"}
    /\ \E q \in Sources : src[q] = "failed"
    /\ src' = [src EXCEPT ![r] = "failed"]
    /\ UNCHANGED <<mapVars, rcv, frag, hnd, got>>

FragmentEnds ==
    /\ frag = "running" /\ \A r \in Sources : src[r] \in SourceOver
    /\ frag' = IF \E r \in Sources : src[r] = "failed" THEN "failed" ELSE "ok"
    /\ UNCHANGED <<mapVars, rcv, src, hnd, got>>

FragmentOver == frag \in {"ok", "failed", "canceled", "removed"}
=============================================================================
