---------------------------- MODULE ExchangeSetup ---------------------------
(***************************************************************************)
(* The shape of one exchange: which sink drivers belong to which sender    *)
(* fragments, how many source drivers read it, who tears it down, what     *)
(* may go wrong, and the bounds.  A behaviour has one of the Setups.       *)
(***************************************************************************)
EXTENDS Naturals, Sequences, FiniteSets, Functions

CONSTANTS
    AllSinks,     \* DataStreamSink drivers
    AllSenders,   \* sender fragment instances
    AllSources,   \* ExchangeSource drivers
    BatchBytes,   \* max_transmit_batched_bytes
    NoPayload,    \* an empty pending_payloads_per_dest slot
    Setups        \* the exchanges a behaviour may be about

\* A call may fail on its way there, or its answer on its way back; an operator
\* above a sink may fail; a LIMIT above the sources may end them early; the
\* exchange timeout may pass; tombstones may expire.
Faults == {"call", "answer", "operator", "limit", "timeout", "expiry"}

\* With BatchBytes > inflight need_input would ask for more than the queue can
\* ever reserve; the defaults (256 KiB and 64 MiB) are far from it.
ASSUME ExchangeSetupAssumption ==
    /\ IsFiniteSet(AllSinks) /\ IsFiniteSet(AllSenders) /\ IsFiniteSet(AllSources)
    /\ BatchBytes \in Nat \ {0}
    /\ \A x \in Setups :
         /\ DOMAIN x.senderOf \subseteq AllSinks /\ Range(x.senderOf) \subseteq AllSenders
         /\ x.sources \subseteq AllSources /\ x.sources # {}
         /\ x.inflight \in Nat /\ BatchBytes <= x.inflight
         /\ x.chunks \in Nat /\ x.receivers \in Nat /\ x.cancels \in Nat
         /\ x.standalone \in BOOLEAN /\ x.faults \subseteq Faults

VARIABLE setup   \* the exchange of this behaviour

SenderOf == setup.senderOf        \* SenderOf[d]: the fragment of sink driver d
Sinks == DOMAIN SenderOf
Senders == Range(SenderOf)
ChunksPerSink == setup.chunks     \* bound: chunks that upstream pushes into each sink
MaxInflight == setup.inflight     \* ExchangeSendQueue.max_inflight_bytes
Sources == setup.sources
Expected == Cardinality(Senders)  \* expected_senders of the exchange
MaxReceivers == setup.receivers   \* bound: receivers ever created for the key
MaxCancels == setup.cancels       \* bound: cancel requests of the FE
Standalone == setup.standalone    \* the standalone coordinator, or the backend service
May(fault) == fault \in setup.faults
=============================================================================
