------------------------------ MODULE Exchange ------------------------------
(***************************************************************************)
(* One exchange from end to end: the sink drivers and the send queue       *)
(* (ExchangeSend), the receiver and the source drivers (ExchangeReceive),  *)
(* the transmit_chunk call between them, and the two ways its fragments    *)
(* are torn down: by the standalone coordinator, or by the backend         *)
(* service on behalf of a StarRocks FE.                                    *)
(*                                                                         *)
(* A call decodes its payload under one look-up of the receiver and pushes *)
(* the chunks under another, with the tombstone tested in between; each of *)
(* these is a critical section of its own, so the key can be cancelled or  *)
(* removed between any two.                                                *)
(***************************************************************************)
EXTENDS ExchangeSend, ExchangeReceive, FiniteSetsExt

VARIABLES
    told,     \* senders whose failure has been passed on to the other fragments
    aborted,  \* the receiving fragment's drivers were aborted from the query
    cancels,  \* cancel requests so far
    lost      \* history: senders that had a call fail

lifeVars == <<setup, told, aborted, cancels, lost>>
vars == <<sendVars, recvVars, lifeVars>>

Init ==
    /\ setup \in Setups
    /\ SendInit /\ ReceiveInit
    /\ told = {} /\ aborted = FALSE /\ cancels = 0 /\ lost = {}
-----------------------------------------------------------------------------
(* The call: where task t goes next, with the receiver it has looked up.    *)

Goes(t, pc, g) == io' = (io \ {t}) \cup {[t EXCEPT !.pc = pc, !.at = g]}
CallVars == <<setup, sinkVars, err, inflight, track, lane, busy, sourceVars, told, aborted,
              cancels>>

\* An envelope without Arrow data (end-of-stream) decodes to no chunks.
Arrive(t) ==
    /\ t \in io /\ t.pc = "send"
    /\ Goes(t, IF t.chunks = <<>> THEN "check" ELSE "decode", 0)
    /\ UNCHANGED <<CallVars, mapVars, rcv, lost>>

SendFails(t) ==
    /\ May("call") /\ t \in io /\ t.pc = "send"
    /\ Goes(t, "refused", 0)
    /\ lost' = lost \cup {SenderOf[t.drv]}
    /\ UNCHANGED <<CallVars, mapVars, rcv>>

\* decode_chunks_for_sender looks the receiver up without the tombstone ...
DecodeLookup(t) ==
    /\ t \in io /\ t.pc = "decode"
    /\ GetOrCreate
    /\ Goes(t, "meta", Receiver)
    /\ UNCHANGED <<CallVars, rcv, lost>>

\* ... and needs the slot ids of the sender's first payload.
DecodeMeta(t) ==
    LET s == SenderOf[t.drv]
        metas == rcv[t.at].metas \cup (IF t.meta THEN {s} ELSE {})
        ok == s \in metas /\ ~rcv[t.at].canceled
    IN
    /\ t \in io /\ t.pc = "meta"
    /\ rcv' = [rcv EXCEPT ![t.at].metas = metas]
    /\ Goes(t, IF ok THEN "check" ELSE "refused", 0)
    /\ lost' = IF ok THEN lost ELSE lost \cup {s}
    /\ UNCHANGED <<CallVars, mapVars>>

\* push_chunks drops the chunks of a cancelled key and answers OK.
PushCheck(t) ==
    /\ t \in io /\ t.pc = "check"
    /\ Goes(t, IF tomb THEN "acked" ELSE "lookup", 0)
    /\ UNCHANGED <<CallVars, mapVars, rcv, lost>>

PushLookup(t) ==
    /\ t \in io /\ t.pc = "lookup"
    /\ GetOrCreate
    /\ Goes(t, "push", Receiver)
    /\ UNCHANGED <<CallVars, rcv, lost>>

PushChunks(t) ==
    /\ t \in io /\ t.pc = "push"
    /\ rcv' = IF rcv[t.at].canceled THEN rcv
              ELSE [rcv EXCEPT ![t.at].chunks = @ \o t.chunks,
                               ![t.at].finished = IF t.eos THEN @ \cup {SenderOf[t.drv]} ELSE @]
    /\ Goes(t, "acked", t.at)
    /\ UNCHANGED <<CallVars, mapVars, lost>>

\* The call was served but its answer is lost.
ResponseLost(t) ==
    /\ May("answer") /\ t \in io /\ t.pc = "acked"
    /\ Goes(t, "refused", t.at)
    /\ lost' = lost \cup {SenderOf[t.drv]}
    /\ UNCHANGED <<CallVars, mapVars, rcv>>
-----------------------------------------------------------------------------
(* Teardown *)

\* A sender fragment that ended in an error cancels the exchanges of the query:
\* the standalone coordinator's background thread, or cancel_query, which
\* aborts the drivers of the node's other fragments as well.
CancelPeers(s) ==
    /\ SenderFailed(s) /\ s \notin told
    /\ told' = told \cup {s}
    /\ CancelFragment
    /\ aborted' = (aborted \/ ~Standalone)
    /\ UNCHANGED <<sendVars, sourceVars, cancels, lost>>

\* A cancel request of the FE, before, while or after the fragment runs.
FeCancel ==
    /\ ~Standalone /\ cancels < MaxCancels
    /\ cancels' = cancels + 1
    /\ CancelFragment
    /\ aborted' = TRUE
    /\ UNCHANGED <<sendVars, sourceVars, told, lost>>

AbortFromQuery(r) ==
    /\ aborted /\ frag = "running" /\ src[r] \in {"ready", "started"}
    /\ src' = [src EXCEPT ![r] = "failed"]
    /\ UNCHANGED <<sendVars, mapVars, rcv, frag, hnd, got, lifeVars>>

\* The tail of the backend's fragment thread: cancel after an error, ...
TailCancel ==
    /\ ~Standalone /\ frag = "failed" /\ frag' = "canceled"
    /\ CancelFragment
    /\ UNCHANGED <<sendVars, src, hnd, got, lifeVars>>

\* ... and remove in any case.
TailRemove ==
    /\ ~Standalone /\ frag \in {"ok", "canceled"} /\ frag' = "removed"
    /\ RemoveFragment
    /\ UNCHANGED <<sendVars, src, hnd, got, lifeVars>>
-----------------------------------------------------------------------------
SinkStep(d) ==
    /\ \/ AskInput(d) \/ PushChunk(d) \/ SetFinishing(d) \/ CountDown(d)
       \/ FailOnError(d) \/ CheckError(d) \/ MaybeMarkFinished(d)
    /\ UNCHANGED <<recvVars, lifeVars>>

SinkFailure(d) == May("operator") /\ UpstreamFails(d) /\ UNCHANGED <<recvVars, lifeVars>>

CallStep(t) ==
    \/ Arrive(t) \/ DecodeLookup(t) \/ DecodeMeta(t)
    \/ PushCheck(t) \/ PushLookup(t) \/ PushChunks(t)
    \/ (CompleteSend(t) \/ OnTaskComplete(t)) /\ UNCHANGED <<recvVars, lifeVars>>

CallFailure(t) == SendFails(t) \/ ResponseLost(t)

SourceStep(r) ==
    \/ /\ PrepareCheck(r) \/ PrepareGet(r) \/ PullChunk(r) \/ AbortSource(r)
       /\ UNCHANGED <<sendVars, lifeVars>>
    \/ AbortFromQuery(r)

SourceEnds(r) ==
    /\ (May("limit") /\ StopEarly(r)) \/ (May("timeout") /\ PullTimeout(r))
    /\ UNCHANGED <<sendVars, lifeVars>>

FragmentStep ==
    \/ (RegisterExchange \/ FragmentEnds) /\ UNCHANGED <<sendVars, lifeVars>>
    \/ TailCancel \/ TailRemove

Forget == May("expiry") /\ ForgetTombstone /\ UNCHANGED <<sendVars, lifeVars>>

Next ==
    \/ \E d \in Sinks : SinkStep(d) \/ SinkFailure(d)
    \/ \E t \in io : CallStep(t) \/ CallFailure(t)
    \/ \E s \in Senders : CancelPeers(s)
    \/ \E r \in Sources : SourceStep(r) \/ SourceEnds(r)
    \/ FragmentStep \/ FeCancel \/ Forget

\* Every thread of the exchange keeps running; failures, cancellations, LIMITs
\* and timeouts may but need not happen.
Spec == Init /\ [][Next]_vars
FairSpec ==
    /\ Spec
    /\ \A d \in AllSinks : WF_vars(d \in Sinks /\ SinkStep(d))
    /\ \A s \in AllSenders :
         /\ WF_vars(s \in Senders /\ CancelPeers(s))
         /\ WF_vars(\E t \in io : SenderOf[t.drv] = s /\ CallStep(t))
    /\ \A r \in AllSources : WF_vars(r \in Sources /\ SourceStep(r))
    /\ WF_vars(FragmentStep)
-----------------------------------------------------------------------------
(* Properties *)

Places == {"send", "decode", "meta", "check", "lookup", "push", "acked", "refused", "next"}
Tasks == io \cup UNION {{lane[s][i] : i \in DOMAIN lane[s]} : s \in Senders}
Reserved == {t \in Tasks : t.pc # "next"}
Canceled == aborted \/ told # {}
Popped == {got[i] : i \in DOMAIN got}

\* The sets the variables range over.
TypeOK ==
    /\ setup \in Setups
    /\ pushed \in [Sinks -> 0 .. ChunksPerSink] /\ sink \in [Sinks -> SinkStates]
    /\ left \in [Senders -> Nat] /\ err \in [Senders -> BOOLEAN]
    /\ inflight \in Nat /\ track \in [Sinks -> Nat] /\ busy \subseteq Senders
    /\ \A t \in Tasks : t.pc \in Places /\ t.at \in 0 .. made
    /\ made \in 0 .. MaxReceivers /\ entry \in 0 .. made
    /\ hnd \in [Sources -> 0 .. made]
    /\ \A g \in 1 .. MaxReceivers :
         rcv[g].finished \cup rcv[g].metas \subseteq Senders

\* A source sees the end of the exchange only when every chunk of every sender
\* has been popped, unless a call failed or the query was cancelled: the last
\* driver's end-of-stream never overtakes the data of another driver
\* (data_stream_sink.rs set_finishing, exchange_sender.rs enqueue_task).
EndMeansAll ==
    \A r \in Sources : src[r] = "finished" =>
        Canceled \/ \A s \in Senders : s \in lost \/ AllChunks(s) \subseteq Popped

\* The chunks of one sink driver are popped in the order in which they were
\* pushed, each at most once, although batches wait for capacity, queue in
\* lanes and travel as separate calls.
PerSinkOrder ==
    \A i, j \in DOMAIN got : i < j /\ got[i][1] = got[j][1] => got[i][2] < got[j][2]

\* The reserved bytes and every driver's tracker are exactly the sum and the
\* number of the tasks that are queued or being sent, on success and failure:
\* a leak would close the queue or keep a driver from finishing.
AccountingExact ==
    /\ inflight = MapThenSumSet(Size, Reserved)
    /\ \A d \in Sinks : track[d] = Cardinality({t \in Reserved : t.drv = d})

\* Payloads that respect the limit never occupy more than the queue's capacity,
\* whatever several drivers reserve at once.
Backpressure == MapThenSumSet(Size, {t \in Reserved : ~t.over}) <= MaxInflight

\* A lane has one task on the I/O executor exactly while its key is in the map;
\* a task enqueued while a lane retires starts it again.
OneSendPerLane ==
    \A s \in Senders :
        Cardinality({t \in io : SenderOf[t.drv] = s}) = IF s \in busy THEN 1 ELSE 0

\* Whatever happens to the receiver, every sender ends and gives back all it
\* had reserved: a receiver that is cancelled, removed or not there never blocks
\* a sender.  And where nothing fails, every driver finishes and the receiving
\* fragment ends well: neither backpressure nor the hand-over of the last
\* end-of-stream can hang.
Settles ==
    <>[](/\ inflight = 0 /\ \A s \in Senders : SenderOver(s)
         /\ setup.faults = {} /\ MaxCancels = 0 =>
              frag = "ok" /\ \A d \in Sinks : sink[d] = "finished")

\* What docs/superpowers/specs/2026-04-10-standalone-exchange-sender-deadlock.md
\* says of maybe_mark_finished: a sink is finished only when its sends have
\* completed. A fragment that ends well has had no failed call.
SendsReported ==
    \A s \in Senders : SenderOver(s) /\ s \in lost => SenderFailed(s)

\* What the comment of remove_fragment says: the entries of a fragment that
\* has ended are removed and late data is rejected.
RemovedForGood == frag = "removed" => entry = 0

\* What the comment in the coordinator says: when a background fragment fails,
\* blocked receivers unblock.
FailureUnblocks == (told # {}) ~> FragmentOver
=============================================================================
