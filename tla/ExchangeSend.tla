---------------------------- MODULE ExchangeSend ----------------------------
(***************************************************************************)
(* The sending half of one exchange: the DataStreamSink drivers of every   *)
(* sender fragment and the process-wide ExchangeSendQueue they share.      *)
(*                                                                         *)
(* A sink driver buffers chunks, encodes them into payloads of at most     *)
(* BatchBytes and reserves space for a payload before it enqueues it. The  *)
(* queue keeps one serial lane per sender: a lane has at most one task on  *)
(* the I/O executor, and the task's completion starts the next one. The    *)
(* driver that counts the finish state down to zero sends end-of-stream.   *)
(*                                                                         *)
(* Every chunk has size one and there is one destination. What a task on   *)
(* the I/O executor does at the receiver is module Exchange.               *)
(***************************************************************************)
EXTENDS ExchangeSetup

VARIABLES
    pushed,   \* chunks pushed into each sink so far
    pend,     \* pending_per_dest: chunks not yet encoded
    pay,      \* pending_payloads_per_dest: an encoded payload without capacity
    meta,     \* wire_meta_sent_per_dest
    sink,     \* where each sink driver is in its life
    left,     \* DataStreamSinkFinishState.remaining_drivers
    err,      \* RuntimeErrorState of each sender fragment
    inflight, \* ExchangeSendQueue.inflight_bytes
    track,    \* ExchangeSendTracker.inflight_tasks of each sink driver
    lane,     \* ExchangeSendQueue.queues: tasks that wait in each lane
    busy,     \* senders whose key is in ExchangeSendQueue.queues
    io        \* tasks handed to the I/O executor

sinkVars == <<pushed, pend, pay, meta, sink, left>>
queueVars == <<inflight, track, lane, busy, io>>
sendVars == <<setup, sinkVars, err, queueVars>>

SinksOf(s) == {d \in Sinks : SenderOf[d] = s}
SinkStates == {"open", "asked", "flushed", "finishing", "checked", "finished", "failed"}
AllChunks(s) == SinksOf(s) \X (1 .. ChunksPerSink)

\* A payload and, once enqueued, the send task: pc is the task's place in the
\* call, at the receiver it has looked up, over whether it bypassed the limit.
Payload(d, cs, m, e) == [drv |-> d, chunks |-> cs, meta |-> m, eos |-> e,
                         over |-> FALSE, pc |-> "send", at |-> 0]
Payloads == [drv : AllSinks, chunks : Seq(AllSinks \X Nat), meta : BOOLEAN,
             eos : BOOLEAN, over : BOOLEAN, pc : {"send"}, at : {0}]

\* An empty slot is told from a payload.
ASSUME NoPayloadAssumption == NoPayload \notin Payloads

Size(p) == IF p.chunks = <<>> THEN 1 ELSE Len(p.chunks)

SendInit ==
    /\ pushed = [d \in Sinks |-> 0]
    /\ pend = [d \in Sinks |-> <<>>]
    /\ pay = [d \in Sinks |-> NoPayload]
    /\ meta = [d \in Sinks |-> FALSE]
    /\ sink = [d \in Sinks |-> "open"]
    /\ left = [s \in Senders |-> Cardinality(SinksOf(s))]
    /\ err = [s \in Senders |-> FALSE]
    /\ inflight = 0
    /\ track = [d \in Sinks |-> 0]
    /\ lane = [s \in Senders |-> <<>>]
    /\ busy = {}
    /\ io = {}
-----------------------------------------------------------------------------
(* Flushing: f is the sink's buffers, the reserved bytes and the payloads   *)
(* that have been enqueued, in order.                                       *)

Buffers(d) == [pend |-> pend[d], pay |-> pay[d], meta |-> meta[d],
               inflight |-> inflight, out |-> <<>>]

\* Mutant: the bytes asked for are not counted.
CanReserveLoosely(f, bytes) == f.inflight <= MaxInflight

CanReserve(f, bytes) == f.inflight + bytes <= MaxInflight

TryEnqueuePayload(f, p, overflow) ==
    LET free == overflow \/ Size(p) > MaxInflight IN
    IF free \/ CanReserve(f, Size(p))
    THEN [f EXCEPT !.pay = NoPayload, !.inflight = @ + Size(p),
                   !.out = Append(@, [p EXCEPT !.over = free])]
    ELSE [f EXCEPT !.pay = p]

\* drain_pending_batch and transmit_partition: the first payload of a driver
\* carries the slot ids, and counts as having done so even while it waits.
TransmitBatch(d, f, overflow) ==
    LET n == IF Len(f.pend) < BatchBytes THEN Len(f.pend) ELSE BatchBytes
        p == Payload(d, SubSeq(f.pend, 1, n), ~f.meta, FALSE)
    IN  TryEnqueuePayload([f EXCEPT !.pend = SubSeq(@, n + 1, Len(@)), !.meta = TRUE],
                          p, overflow)

FlushWaiting(f, overflow) ==
    IF f.pay = NoPayload THEN f ELSE TryEnqueuePayload(f, f.pay, overflow)

\* flush_pending(false, false): at most one full batch.
FlushPending(d, f) ==
    LET g == FlushWaiting(f, FALSE) IN
    IF g.pay # NoPayload \/ Len(g.pend) < BatchBytes THEN g
    ELSE TransmitBatch(d, g, FALSE)

\* flush_pending(true, true): everything, past the limit.
FlushForced(d, f) ==
    LET g == FlushWaiting(f, TRUE)
        after[k \in 0 .. Len(g.pend)] ==
            IF k = 0 THEN g
            ELSE IF after[k - 1].pend = <<>> THEN after[k - 1]
            ELSE TransmitBatch(d, after[k - 1], TRUE)
    IN  after[Len(g.pend)]

\* Mutant: a task starts at once although its lane is busy.
StartAlways(d, out) ==
    /\ track' = [track EXCEPT ![d] = @ + Len(out)]
    /\ io' = io \cup {out[i] : i \in DOMAIN out}
    /\ busy' = IF out = <<>> THEN busy ELSE busy \cup {SenderOf[d]}
    /\ UNCHANGED lane

\* enqueue_task for each payload: an idle lane starts the first at once.
EnqueueTasks(d, out) ==
    LET s == SenderOf[d] IN
    /\ track' = [track EXCEPT ![d] = @ + Len(out)]
    /\ IF out = <<>> THEN UNCHANGED <<lane, busy, io>>
       ELSE IF s \in busy
       THEN /\ lane' = [lane EXCEPT ![s] = @ \o out]
            /\ UNCHANGED <<busy, io>>
       ELSE /\ lane' = [lane EXCEPT ![s] = Tail(out)]
            /\ busy' = busy \cup {s}
            /\ io' = io \cup {Head(out)}

Store(d, f) ==
    /\ pend' = [pend EXCEPT ![d] = f.pend]
    /\ pay' = [pay EXCEPT ![d] = f.pay]
    /\ meta' = [meta EXCEPT ![d] = f.meta]
    /\ inflight' = f.inflight
    /\ EnqueueTasks(d, f.out)
-----------------------------------------------------------------------------
(* The sink driver *)

NeedInput(d) ==
    LET f == Buffers(d)
        batch == IF Len(pend[d]) < BatchBytes THEN Len(pend[d]) ELSE BatchBytes IN
    /\ pay[d] # NoPayload => Size(pay[d]) > MaxInflight \/ CanReserve(f, Size(pay[d]))
    /\ pend[d] # <<>> => CanReserve(f, batch)

\* The driver asks need_input before it pushes; other drivers may take the
\* capacity in between, so push_chunk flushes again and keeps what has no room.
AskInput(d) ==
    /\ sink[d] = "open" /\ pushed[d] < ChunksPerSink /\ NeedInput(d)
    /\ sink' = [sink EXCEPT ![d] = "asked"]
    /\ UNCHANGED <<pushed, pend, pay, meta, left, err, queueVars>>

PushChunk(d) ==
    /\ sink[d] = "asked" /\ ~err[SenderOf[d]]
    /\ LET f == FlushPending(d, Buffers(d))
           chunk == <<d, pushed[d] + 1>>
       IN  Store(d, FlushPending(d, [f EXCEPT !.pend = Append(@, chunk)]))
    /\ pushed' = [pushed EXCEPT ![d] = @ + 1]
    /\ sink' = [sink EXCEPT ![d] = "open"]
    /\ UNCHANGED <<left, err>>

\* set_finishing flushes everything first ...
SetFinishing(d) ==
    /\ sink[d] = "open" /\ ~err[SenderOf[d]] /\ pushed[d] = ChunksPerSink
    /\ sink' = [sink EXCEPT ![d] = "flushed"]
    /\ Store(d, FlushForced(d, Buffers(d)))
    /\ UNCHANGED <<pushed, left, err>>

\* ... and then counts down; the last driver sends end-of-stream.
CountDown(d) ==
    LET s == SenderOf[d] IN
    /\ sink[d] = "flushed"
    /\ sink' = [sink EXCEPT ![d] = "finishing"]
    /\ left' = [left EXCEPT ![s] = @ - 1]
    /\ IF left[s] = 1
       THEN LET eos == Payload(d, <<>>, FALSE, TRUE)
            IN  Store(d, TryEnqueuePayload(Buffers(d), eos, TRUE))
       ELSE UNCHANGED <<pend, pay, meta, queueVars>>
    /\ UNCHANGED <<pushed, err>>

\* The top of process_inner and of push_chunk: an error fails the driver ...
FailOnError(d) ==
    /\ sink[d] \in {"open", "asked", "finishing"} /\ err[SenderOf[d]]
    /\ sink' = [sink EXCEPT ![d] = "failed"]
    /\ UNCHANGED <<pushed, pend, pay, meta, left, err, queueVars>>

\* ... and without one the driver goes on to ask whether it is finished.
CheckError(d) ==
    /\ sink[d] = "finishing" /\ ~err[SenderOf[d]]
    /\ sink' = [sink EXCEPT ![d] = "checked"]
    /\ UNCHANGED <<pushed, pend, pay, meta, left, err, queueVars>>

SendsIdle(d) == pend[d] = <<>> /\ pay[d] = NoPayload /\ track[d] = 0

MaybeMarkFinished(d) ==
    /\ sink[d] = "checked"
    /\ sink' = [sink EXCEPT ![d] = IF SendsIdle(d) THEN "finished" ELSE "finishing"]
    /\ UNCHANGED <<pushed, pend, pay, meta, left, err, queueVars>>

\* An operator above the sink fails; set_final_status sets the fragment's error.
UpstreamFails(d) ==
    /\ sink[d] = "open"
    /\ sink' = [sink EXCEPT ![d] = "failed"]
    /\ err' = [err EXCEPT ![SenderOf[d]] = TRUE]
    /\ UNCHANGED <<pushed, pend, pay, meta, left, queueVars>>

SenderOver(s) == \A d \in SinksOf(s) : sink[d] \in {"finished", "failed"}
SenderFailed(s) == SenderOver(s) /\ \E d \in SinksOf(s) : sink[d] = "failed"
-----------------------------------------------------------------------------
(* The end of a task on the I/O executor *)

\* Mutant: a failed call returns before it releases.
FailedSendLeaks(t) ==
    /\ t \in io /\ t.pc \in {"acked", "refused"}
    /\ err' = [err EXCEPT ![SenderOf[t.drv]] = @ \/ t.pc = "refused"]
    /\ IF t.pc = "refused" THEN UNCHANGED <<inflight, track>>
       ELSE /\ inflight' = inflight - Size(t)
            /\ track' = [track EXCEPT ![t.drv] = @ - 1]
    /\ io' = (io \ {t}) \cup {[t EXCEPT !.pc = "next"]}
    /\ UNCHANGED <<sinkVars, lane, busy>>

\* The tail of run_send_task: a failed call sets the error before it releases.
CompleteSend(t) ==
    /\ t \in io /\ t.pc \in {"acked", "refused"}
    /\ err' = [err EXCEPT ![SenderOf[t.drv]] = @ \/ t.pc = "refused"]
    /\ inflight' = inflight - Size(t)
    /\ track' = [track EXCEPT ![t.drv] = @ - 1]
    /\ io' = (io \ {t}) \cup {[t EXCEPT !.pc = "next"]}
    /\ UNCHANGED <<sinkVars, lane, busy>>

\* Mutant: the key is removed although the lane has a next task.
RetireAlways(t) ==
    LET s == SenderOf[t.drv] IN
    /\ t \in io /\ t.pc = "next"
    /\ busy' = busy \ {s}
    /\ IF lane[s] = <<>> THEN io' = io \ {t} /\ UNCHANGED lane
       ELSE /\ io' = (io \ {t}) \cup {Head(lane[s])}
            /\ lane' = [lane EXCEPT ![s] = Tail(@)]
    /\ UNCHANGED <<sinkVars, err, inflight, track>>

\* Mutant: the reservation is given back a second time.
ReleaseTwice(t) ==
    LET s == SenderOf[t.drv] IN
    /\ t \in io /\ t.pc = "next"
    /\ IF lane[s] = <<>>
       THEN busy' = busy \ {s} /\ io' = io \ {t} /\ UNCHANGED lane
       ELSE /\ io' = (io \ {t}) \cup {Head(lane[s])}
            /\ lane' = [lane EXCEPT ![s] = Tail(@)]
            /\ UNCHANGED busy
    /\ inflight' = inflight - Size(t)
    /\ UNCHANGED <<sinkVars, err, track>>

\* Mutant: the lane ends without its key being removed.
NeverRetire(t) ==
    LET s == SenderOf[t.drv] IN
    /\ t \in io /\ t.pc = "next"
    /\ IF lane[s] = <<>> THEN io' = io \ {t} /\ UNCHANGED lane
       ELSE /\ io' = (io \ {t}) \cup {Head(lane[s])}
            /\ lane' = [lane EXCEPT ![s] = Tail(@)]
    /\ UNCHANGED <<sinkVars, err, inflight, track, busy>>

\* on_task_complete: start the lane's next task or retire the lane.
OnTaskComplete(t) ==
    LET s == SenderOf[t.drv] IN
    /\ t \in io /\ t.pc = "next"
    /\ IF lane[s] = <<>>
       THEN /\ busy' = busy \ {s} /\ io' = io \ {t}
            /\ UNCHANGED lane
       ELSE /\ io' = (io \ {t}) \cup {Head(lane[s])}
            /\ lane' = [lane EXCEPT ![s] = Tail(@)]
            /\ UNCHANGED busy
    /\ UNCHANGED <<sinkVars, err, inflight, track>>
=============================================================================
