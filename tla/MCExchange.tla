----------------------------- MODULE MCExchange -----------------------------
(* Instances of Exchange for TLC: one or two senders of one or two drivers. *)
EXTENDS Exchange

CONSTANTS s1, s2, a, b, r1, r2

\* Two drivers of one sender compete for room; two sources share a receiver.
Crowd ==
    [senderOf |-> [d \in {a, b} |-> s1], chunks |-> 2, inflight |-> 1, sources |-> {r1},
     receivers |-> 1, standalone |-> TRUE, faults |-> {}, cancels |-> 0]
Readers == [Crowd EXCEPT !.chunks = 1, !.sources = {r1, r2}]

\* Two senders of a standalone query share the room; either may fail and cancel
\* the exchange.
Pair ==
    [senderOf |-> [d \in {a, b} |-> IF d = a THEN s1 ELSE s2], chunks |-> 1, inflight |-> 1,
     sources |-> {r1}, receivers |-> 3, standalone |-> TRUE, faults |-> {"operator"},
     cancels |-> 0]

\* The receiver may be cancelled, removed, stopped or never come; calls and
\* operators may fail.
Rough ==
    [senderOf |-> [d \in {a} |-> s1], chunks |-> 2, inflight |-> 2, sources |-> {r1},
     receivers |-> 5, standalone |-> FALSE, faults |-> Faults, cancels |-> 1]

\* One driver, one chunk, calls that may fail.
Lossy ==
    [senderOf |-> [d \in {a} |-> s1], chunks |-> 1, inflight |-> 1, sources |-> {r1},
     receivers |-> 1, standalone |-> TRUE, faults |-> {"call", "answer"}, cancels |-> 0]

SomeSetups == {Crowd, Readers, Pair, Rough}
LossySetup == {Lossy}
=============================================================================
