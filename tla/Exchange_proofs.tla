-------------------------- MODULE Exchange_proofs ---------------------------
(***************************************************************************)
(* Proofs about one exchange: what a source pops is in order and, when a   *)
(* source sees the end, complete; and a lane sends one task at a time.     *)
(* They hold for any sinks, senders, sources, chunks, batch size, capacity *)
(* and number of receivers, and with every fault.                          *)
(***************************************************************************)
EXTENDS Exchange, Integers, SequenceTheorems, FiniteSetTheorems,
        WellFoundedInduction, TLAPS

-----------------------------------------------------------------------------
(* The inductive invariant *)

Chunks == Sinks \X (1 .. ChunksPerSink)
TaskRecs == [drv : Sinks, chunks : Seq(Chunks), meta : BOOLEAN, eos : BOOLEAN,
             over : BOOLEAN, pc : Places, at : Nat]
RcvRecs == [chunks : Seq(Chunks), finished : SUBSET Senders, metas : SUBSET Senders,
            canceled : BOOLEAN]

\* The sets that the variables of the sending half range over.
SendShape ==
    /\ setup \in Setups
    /\ pushed \in [Sinks -> 0 .. ChunksPerSink] /\ sink \in [Sinks -> SinkStates]
    /\ pend \in [Sinks -> Seq(Chunks)] /\ pay \in [Sinks -> TaskRecs \cup {NoPayload}]
    /\ meta \in [Sinks -> BOOLEAN]
    /\ left \in [Senders -> Nat] /\ err \in [Senders -> BOOLEAN]
    /\ inflight \in Int /\ track \in [Sinks -> Int] /\ busy \subseteq Senders
    /\ lane \in [Senders -> Seq(TaskRecs)] /\ io \subseteq TaskRecs

\* A run of chunks of one sink: the numbers lo + 1, lo + 2, ... in order. A
\* data task carries the run from Lo(t) to Hi(t).
Run(d, cs, lo) == \A i \in 1 .. Len(cs) : cs[i] = <<d, lo + i>>
Lo(t) == t.chunks[1][2] - 1
Hi(t) == Lo(t) + Len(t.chunks)

\* What sink d has handed to the send queue is the run from 0 to Sent(d).
PayLen(p) == IF p = NoPayload THEN 0 ELSE Len(p.chunks)
SentBy(n, cs, p) == n - Len(cs) - PayLen(p)
Sent(d) == SentBy(pushed[d], pend[d], pay[d])
PayOK(d, p, lo) ==
    p # NoPayload =>
        /\ p.drv = d /\ p.pc = "send" /\ p.at = 0 /\ ~p.eos
        /\ p.chunks # <<>> /\ Run(d, p.chunks, lo)
Drained(d) == pushed[d] = ChunksPerSink /\ pend[d] = <<>> /\ pay[d] = NoPayload
Buffered == {"open", "asked", "flushed"}
Uncounted(s) == {d \in SinksOf(s) : sink[d] \in Buffered \/ ~Drained(d)}

\* The buffers of a sink hold the run after Sent(d). A sink past set_finishing
\* has nothing left, and the count of a sender is never below the number of its
\* sinks that may still send.
BuffersOK(d) ==
    /\ Sent(d) >= 0
    /\ Run(d, pend[d], pushed[d] - Len(pend[d]))
    /\ PayOK(d, pay[d], Sent(d))
    /\ sink[d] \in {"flushed", "finishing", "checked", "finished"} => Drained(d)
    /\ sink[d] = "asked" => pushed[d] < ChunksPerSink
SinkOK ==
    /\ \A d \in Sinks : BuffersOK(d)
    /\ \A s \in Senders : Cardinality(Uncounted(s)) <= left[s]

\* A data task is a run that has been sent; an end-of-stream exists only when
\* no sink of its sender is left, and nothing comes after it.
TaskOK(t) ==
    /\ t.eos => t.chunks = <<>> /\ left[SenderOf[t.drv]] = 0
    /\ ~t.eos => t.chunks # <<>> /\ Run(t.drv, t.chunks, Lo(t)) /\ Hi(t) <= Sent(t.drv)
TasksOK == \A t \in Tasks : TaskOK(t)

\* A lane has one task on the I/O executor while its key is in the map, and the
\* tasks that wait come after it and after each other.
Before(t, u) == ~t.eos /\ (t.drv = u.drv /\ ~u.eos => Hi(t) <= Lo(u))
LaneOK(s) ==
    \A i \in 1 .. Len(lane[s]) :
        /\ lane[s][i].pc = "send" /\ lane[s][i].at = 0 /\ SenderOf[lane[s][i].drv] = s
        /\ \A t \in io : SenderOf[t.drv] = s => Before(t, lane[s][i])
        /\ \A j \in 1 .. Len(lane[s]) : i < j => Before(lane[s][i], lane[s][j])
QueueOK ==
    /\ \A t, u \in io : SenderOf[t.drv] = SenderOf[u.drv] => t = u
    /\ \A t \in io : SenderOf[t.drv] \in busy
    /\ \A s \in busy : \E t \in io : SenderOf[t.drv] = s
    /\ \A s \in Senders \ busy : lane[s] = <<>>
    /\ \A s \in Senders : LaneOK(s)

\* The receiving half. While the fragment is up, every receiver but the one in
\* the map is cancelled: a source that holds an old one fails on it.
Up == frag \in {"planned", "building", "running"}
RecvShape ==
    /\ made \in 0 .. MaxReceivers /\ entry \in 0 .. made /\ tomb \in BOOLEAN
    /\ frag \in {"planned", "building", "running", "ok", "failed", "canceled", "removed"}
    /\ src \in [Sources -> {"new", "checked", "ready", "started"} \cup SourceOver]
    /\ hnd \in [Sources -> 0 .. made]
    /\ rcv \in [1 .. MaxReceivers -> RcvRecs] /\ got \in Seq(Chunks)
    /\ told \subseteq Senders /\ lost \subseteq Senders /\ aborted \in BOOLEAN
RecvOK ==
    /\ RecvShape
    /\ \A r \in Sources : /\ src[r] \in {"ready", "started"} => hnd[r] >= 1
                          /\ src[r] = "checked" => frag = "building"
    /\ \A g \in 1 .. MaxReceivers : g > made => rcv[g] = FreshReceiver
    /\ Up => \A g \in 1 .. made : g # entry => rcv[g].canceled
    /\ \A t \in io : t.at <= made /\ (t.pc \in {"meta", "push"} => t.at >= 1)

\* A chunk that has arrived is behind every task that has not: the order of
\* arrival is the order of the runs. What was popped is behind what waits in the
\* receiver of the map.
Pending(t) == t.pc \in {"send", "decode", "meta", "check", "lookup", "push"}
Past(c) == /\ c[2] <= Sent(c[1])
           /\ \A t \in Tasks : Pending(t) /\ ~t.eos /\ t.drv = c[1] => c[2] <= Lo(t)
InOrder(cs) == \A i, j \in 1 .. Len(cs) : i < j /\ cs[i][1] = cs[j][1] => cs[i][2] < cs[j][2]
Follows(cs, ds) ==
    \A i \in 1 .. Len(cs) : \A j \in 1 .. Len(ds) : cs[i][1] = ds[j][1] => cs[i][2] < ds[j][2]
AllPast(cs) == \A c \in Chunks : (\E i \in 1 .. Len(cs) : cs[i] = c) => Past(c)
OrderOK ==
    /\ AllPast(got)
    /\ InOrder(got)
    /\ \A g \in 1 .. MaxReceivers :
         /\ AllPast(rcv[g].chunks)
         /\ InOrder(rcv[g].chunks)
         /\ Up /\ ~rcv[g].canceled => Follows(got, rcv[g].chunks)

\* Until the query is cancelled or the receiving fragment ends, there is at most
\* one receiver, and every chunk handed to the send queue has arrived there, was
\* popped, or is in a task on its way, unless a call of its sender failed. A
\* sender counted as finished has delivered everything.
Live == ~Canceled /\ Up
Arrived(c) == \/ \E i \in 1 .. Len(got) : got[i] = c
              \/ \E g \in 1 .. made : \E i \in 1 .. Len(rcv[g].chunks) : rcv[g].chunks[i] = c
OnItsWay(d, k) ==
    \E t \in Tasks : Pending(t) /\ ~t.eos /\ t.drv = d /\ Lo(t) < k /\ k <= Hi(t)
OneReceiver ==
    /\ tomb = FALSE /\ made <= 1 /\ entry = made
    /\ \A g \in 1 .. MaxReceivers : ~rcv[g].canceled
NothingLost ==
    \A d \in Sinks : SenderOf[d] \notin lost =>
        \A k \in 1 .. Sent(d) : Arrived(<<d, k>>) \/ OnItsWay(d, k)
FinishedArrived ==
    \A g \in 1 .. made : \A s \in rcv[g].finished :
        s \in lost \/ \A c \in AllChunks(s) : Arrived(c)
LiveOK == Live => OneReceiver /\ NothingLost /\ FinishedArrived

ExInv == /\ SendShape /\ SinkOK /\ TasksOK /\ QueueOK
         /\ RecvOK /\ OrderOK /\ LiveOK /\ EndMeansAll

-----------------------------------------------------------------------------
(* Naturals *)

\* Induction, in the form the provers can use: a set of naturals has a least one.
LEMMA LeastNat ==
    ASSUME NEW S, S \subseteq Nat, S # {}
    PROVE  \E n \in S : \A m \in Nat : m < n => m \notin S
<1>1. PICK x \in S : \A y \in S : <<y, x>> \notin OpToRel(<, Nat)
    BY NatLessThanWellFounded, WFMin
<1> QED BY <1>1 DEF OpToRel
-----------------------------------------------------------------------------
(* Flushing: f holds the buffers of sink d, into which n chunks have been   *)
(* pushed and of which the first m had been sent before the flush.          *)

FlushRecs == [pend : Seq(Chunks), pay : TaskRecs \cup {NoPayload}, meta : BOOLEAN,
              inflight : Int, out : Seq(TaskRecs)]
OutTask(d, t, lo, hi) ==
    /\ t \in TaskRecs /\ t.drv = d /\ t.pc = "send" /\ t.at = 0 /\ ~t.eos
    /\ t.chunks # <<>> /\ Run(d, t.chunks, Lo(t)) /\ lo <= Lo(t) /\ Hi(t) <= hi
OutOK(d, out, lo, hi) ==
    /\ \A i \in 1 .. Len(out) : OutTask(d, out[i], lo, hi)
    /\ \A i, j \in 1 .. Len(out) : i < j => Hi(out[i]) <= Lo(out[j])
    /\ \A k \in (lo + 1) .. hi : \E i \in 1 .. Len(out) : Lo(out[i]) < k /\ k <= Hi(out[i])
PartsOK(d, n, m, cs, p, out) ==
    /\ m <= SentBy(n, cs, p)
    /\ Run(d, cs, n - Len(cs))
    /\ PayOK(d, p, SentBy(n, cs, p))
    /\ OutOK(d, out, m, SentBy(n, cs, p))
FlushOK(d, n, m, f) == f \in FlushRecs /\ PartsOK(d, n, m, f.pend, f.pay, f.out)

\* What the assumptions say of this behaviour's exchange.
LEMMA SetupFacts ==
    ASSUME setup \in Setups
    PROVE  /\ Sinks \subseteq AllSinks /\ IsFiniteSet(Sinks)
           /\ (\A d \in Sinks : SenderOf[d] \in Senders) /\ IsFiniteSet(Senders)
           /\ Sources # {}
           /\ ChunksPerSink \in Nat /\ MaxReceivers \in Nat /\ MaxInflight \in Nat
           /\ BatchBytes \in Nat \ {0} /\ BatchBytes <= MaxInflight
<1>0. /\ DOMAIN setup.senderOf \subseteq AllSinks /\ Range(setup.senderOf) \subseteq AllSenders
      /\ setup.sources # {} /\ setup.inflight \in Nat /\ BatchBytes <= setup.inflight
      /\ setup.chunks \in Nat /\ setup.receivers \in Nat
      /\ IsFiniteSet(AllSinks) /\ IsFiniteSet(AllSenders) /\ BatchBytes \in Nat \ {0}
    BY ExchangeSetupAssumption
<1>1. Sinks \subseteq AllSinks /\ Senders \subseteq AllSenders
    BY <1>0 DEF Sinks, Senders, SenderOf
<1>2. IsFiniteSet(Sinks) /\ IsFiniteSet(Senders) BY <1>0, <1>1, FS_Subset
<1>3. \A d \in Sinks : SenderOf[d] \in Senders BY DEF Sinks, Senders, Range
<1> QED BY <1>0, <1>1, <1>2, <1>3
        DEF Sources, ChunksPerSink, MaxReceivers, MaxInflight

\* The payload of a driver is never the empty slot.
LEMMA SomePayload ==
    ASSUME setup \in Setups, NEW p \in TaskRecs, p.pc = "send", p.at = 0
    PROVE  p # NoPayload
<1>1. p.chunks \in Seq(AllSinks \X Nat)
    <2>1. Chunks \subseteq AllSinks \X Nat BY SetupFacts DEF Chunks
    <2>2. p.chunks \in Seq(Chunks) BY DEF TaskRecs
    <2> QED BY <2>1, <2>2, SeqMonotonic
<1>2. p = [drv |-> p.drv, chunks |-> p.chunks, meta |-> p.meta, eos |-> p.eos,
           over |-> p.over, pc |-> p.pc, at |-> p.at]
    BY DEF TaskRecs
<1>3. /\ p.drv \in AllSinks /\ p.meta \in BOOLEAN /\ p.eos \in BOOLEAN
      /\ p.over \in BOOLEAN
    BY SetupFacts DEF TaskRecs
<1>4. p \in Payloads BY <1>1, <1>2, <1>3 DEF Payloads
<1> QED BY <1>4, NoPayloadAssumption

\* Where a run begins and ends.
LEMMA RunBounds ==
    ASSUME NEW p \in TaskRecs, NEW d, NEW lo \in Int, p.chunks # <<>>, Run(d, p.chunks, lo)
    PROVE  /\ Len(p.chunks) \in Nat \ {0}
           /\ Lo(p) = lo /\ Hi(p) = lo + Len(p.chunks)
<1>1. p.chunks \in Seq(Chunks) BY DEF TaskRecs
<1>2. Len(p.chunks) \in Nat \ {0} BY <1>1, EmptySeq
<1>3. p.chunks[1] = <<d, lo + 1>> BY <1>2 DEF Run
<1> QED BY <1>2, <1>3 DEF Lo, Hi

LEMMA TaskBounds ==
    ASSUME setup \in Setups, NEW t \in TaskRecs, t.chunks # <<>>
    PROVE  /\ Len(t.chunks) \in Nat \ {0}
           /\ Lo(t) \in Nat /\ Hi(t) \in Nat /\ Lo(t) < Hi(t)
<1>1. t.chunks \in Seq(Chunks) BY DEF TaskRecs
<1>2. Len(t.chunks) \in Nat \ {0} BY <1>1, EmptySeq
<1>3. t.chunks[1] \in Sinks \X (1 .. ChunksPerSink)
    BY <1>1, <1>2, ElementOfSeq DEF Chunks
<1>4. t.chunks[1][2] \in 1 .. ChunksPerSink BY <1>3
<1>5. ChunksPerSink \in Nat BY SetupFacts
<1> QED BY <1>2, <1>4, <1>5 DEF Lo, Hi

\* One more task at the end of what a flush enqueues.
LEMMA OutAppend ==
    ASSUME setup \in Setups, NEW d, NEW lo \in Int, NEW hi \in Int, lo <= hi,
           NEW out \in Seq(TaskRecs), OutOK(d, out, lo, hi),
           NEW p \in TaskRecs, p.drv = d, p.pc = "send", p.at = 0, ~p.eos, p.chunks # <<>>,
           Run(d, p.chunks, hi), NEW b \in BOOLEAN
    PROVE  /\ Append(out, [p EXCEPT !.over = b]) \in Seq(TaskRecs)
           /\ OutOK(d, Append(out, [p EXCEPT !.over = b]), lo, hi + Len(p.chunks))
<1> DEFINE q == [p EXCEPT !.over = b]
           new == Append(out, q)
           to == hi + Len(p.chunks)
<1>1. /\ q \in TaskRecs /\ q.drv = d /\ q.pc = "send" /\ q.at = 0 /\ ~q.eos
      /\ q.chunks = p.chunks /\ q.chunks # <<>> /\ Run(d, q.chunks, hi)
    BY DEF TaskRecs
<1> HIDE DEF q
<1>2. Len(q.chunks) \in Nat \ {0} /\ Lo(q) = hi /\ Hi(q) = to BY <1>1, RunBounds
<1>3. to \in Int /\ hi < to BY <1>1, <1>2
<1>4. /\ new \in Seq(TaskRecs) /\ Len(new) = Len(out) + 1
      /\ \A i \in 1 .. Len(out) : new[i] = out[i]
      /\ new[Len(out) + 1] = q
    BY <1>1, AppendProperties
<1>5. Len(out) \in Nat /\ \A i \in 1 .. Len(out) : out[i] \in TaskRecs
    BY LenProperties, ElementOfSeq
<1> HIDE DEF new, to
<1>6. \A i \in 1 .. Len(out) : Lo(out[i]) \in Int /\ Hi(out[i]) \in Int
    BY <1>5, TaskBounds DEF OutOK, OutTask
<1>7. \A i \in 1 .. Len(new) : OutTask(d, new[i], lo, to)
    <2> SUFFICES ASSUME NEW i \in 1 .. Len(new) PROVE OutTask(d, new[i], lo, to)
        OBVIOUS
    <2>1. CASE i = Len(out) + 1
        <3>1. OutTask(d, q, lo, to) BY <1>1, <1>2, <1>3 DEF OutTask
        <3> QED BY <2>1, <3>1, <1>4
    <2>2. CASE i \in 1 .. Len(out)
        <3>1. OutTask(d, out[i], lo, hi) BY <2>2 DEF OutOK
        <3>2. OutTask(d, out[i], lo, to) BY <2>2, <3>1, <1>3, <1>6 DEF OutTask
        <3> QED BY <2>2, <3>2, <1>4
    <2> QED BY <2>1, <2>2, <1>4, <1>5
<1>8. \A i, j \in 1 .. Len(new) : i < j => Hi(new[i]) <= Lo(new[j])
    <2> SUFFICES ASSUME NEW i \in 1 .. Len(new), NEW j \in 1 .. Len(new), i < j
                 PROVE  Hi(new[i]) <= Lo(new[j])
        OBVIOUS
    <2>1. i \in 1 .. Len(out) /\ new[i] = out[i] BY <1>4, <1>5
    <2>2. CASE j = Len(out) + 1
        <3>1. Hi(out[i]) <= hi BY <2>1 DEF OutOK, OutTask
        <3> QED BY <2>1, <2>2, <3>1, <1>2, <1>4
    <2>3. CASE j \in 1 .. Len(out) BY <2>1, <2>3, <1>4 DEF OutOK
    <2> QED BY <2>2, <2>3, <1>4, <1>5
<1>9. \A k \in (lo + 1) .. to : \E i \in 1 .. Len(new) : Lo(new[i]) < k /\ k <= Hi(new[i])
    <2> SUFFICES ASSUME NEW k \in (lo + 1) .. to
                 PROVE  \E i \in 1 .. Len(new) : Lo(new[i]) < k /\ k <= Hi(new[i])
        OBVIOUS
    <2>1. CASE k > hi
        <3>1. Len(out) + 1 \in 1 .. Len(new) BY <1>4, <1>5
        <3> QED BY <2>1, <3>1, <1>2, <1>3, <1>4
    <2>2. CASE k <= hi
        <3>1. PICK i \in 1 .. Len(out) : Lo(out[i]) < k /\ k <= Hi(out[i])
            BY <2>2, <1>3 DEF OutOK
        <3>2. i \in 1 .. Len(new) /\ new[i] = out[i] BY <1>4, <1>5
        <3> QED BY <3>1, <3>2
    <2> QED BY <2>1, <2>2, <1>3
<1> QED BY <1>4, <1>7, <1>8, <1>9 DEF OutOK, q, new, to

\* A payload is enqueued, within the capacity or past it, or it waits.
Enqueued(f, p, over) ==
    [f EXCEPT !.pay = NoPayload, !.inflight = @ + Size(p),
              !.out = Append(@, [p EXCEPT !.over = over])]

LEMMA TryCases ==
    ASSUME NEW f, NEW p, NEW overflow \in BOOLEAN
    PROVE  \/ \E over \in BOOLEAN :
                /\ TryEnqueuePayload(f, p, overflow) = Enqueued(f, p, over)
                /\ over \/ f.inflight + Size(p) <= MaxInflight
           \/ ~overflow /\ TryEnqueuePayload(f, p, overflow) = [f EXCEPT !.pay = p]
<1>1. CASE overflow \/ Size(p) > MaxInflight
    <2>1. TryEnqueuePayload(f, p, overflow) = Enqueued(f, p, TRUE)
        BY <1>1 DEF TryEnqueuePayload, Enqueued
    <2> QED BY <2>1
<1>2. CASE ~(overflow \/ Size(p) > MaxInflight) /\ CanReserve(f, Size(p))
    <2>1. TryEnqueuePayload(f, p, overflow) = Enqueued(f, p, FALSE)
        BY <1>2 DEF TryEnqueuePayload, Enqueued
    <2> QED BY <2>1, <1>2 DEF CanReserve
<1>3. CASE ~(overflow \/ Size(p) > MaxInflight) /\ ~CanReserve(f, Size(p))
    BY <1>3 DEF TryEnqueuePayload
<1> QED BY <1>1, <1>2, <1>3

LEMMA SizeNat ==
    ASSUME NEW p \in TaskRecs
    PROVE  Size(p) \in Nat \ {0}
<1>1. p.chunks \in Seq(Chunks) BY DEF TaskRecs
<1>2. p.chunks # <<>> => Len(p.chunks) \in Nat \ {0} BY <1>1, EmptySeq
<1> QED BY <1>2 DEF Size

LEMMA EnqueuedOK ==
    ASSUME setup \in Setups, NEW d, NEW n \in Nat, NEW m \in Nat,
           NEW f \in FlushRecs, NEW p \in TaskRecs, NEW over \in BOOLEAN,
           p.pc = "send", p.at = 0, PartsOK(d, n, m, f.pend, p, f.out)
    PROVE  FlushOK(d, n, m, Enqueued(f, p, over))
<1> DEFINE h == Enqueued(f, p, over)
           q == [p EXCEPT !.over = over]
           hi == n - Len(f.pend) - Len(p.chunks)
<1>1. p # NoPayload BY SomePayload
<1>2. /\ f.pend \in Seq(Chunks) /\ f.out \in Seq(TaskRecs) /\ f.inflight \in Int
      /\ f.meta \in BOOLEAN
    BY DEF FlushRecs
<1>3. h.pend = f.pend /\ h.pay = NoPayload /\ h.out = Append(f.out, q)
    BY DEF FlushRecs, Enqueued
<1>4. PayLen(p) = Len(p.chunks) /\ PayLen(NoPayload) = 0 BY <1>1 DEF PayLen
<1>5. /\ m <= hi /\ Run(d, f.pend, n - Len(f.pend))
      /\ PayOK(d, p, hi) /\ OutOK(d, f.out, m, hi)
    BY <1>4 DEF PartsOK, SentBy
<1>6. Len(f.pend) \in Nat /\ Len(p.chunks) \in Nat
    <2>1. p.chunks \in Seq(Chunks) BY DEF TaskRecs
    <2> QED BY <1>2, <2>1, LenProperties
<1>7. /\ p.drv = d /\ ~p.eos /\ p.chunks # <<>> /\ Run(d, p.chunks, hi)
    BY <1>1, <1>5 DEF PayOK
<1>8. h.out \in Seq(TaskRecs) /\ OutOK(d, h.out, m, hi + Len(p.chunks))
    <2>1. hi \in Int /\ m \in Int BY <1>6
    <2> HIDE DEF hi, h
    <2>2. /\ Append(f.out, q) \in Seq(TaskRecs)
          /\ OutOK(d, Append(f.out, q), m, hi + Len(p.chunks))
        BY <1>2, <1>5, <1>7, <2>1, OutAppend, Zenon
    <2> QED BY <1>3, <2>2
<1>9. SentBy(n, h.pend, h.pay) = hi + Len(p.chunks) BY <1>3, <1>4, <1>6 DEF SentBy
<1>10. h \in FlushRecs
    <2>1. Size(p) \in Nat BY SizeNat
    <2>2. f.inflight + Size(p) \in Int BY <1>2, <2>1
    <2>3. \A a \in TaskRecs \cup {NoPayload}, b \in Int, c \in Seq(TaskRecs) :
              [f EXCEPT !.pay = a, !.inflight = b, !.out = c] \in FlushRecs
        BY DEF FlushRecs
    <2>4. Append(f.out, q) \in Seq(TaskRecs) BY <1>3, <1>8
    <2> HIDE DEF q
    <2>5. [f EXCEPT !.pay = NoPayload, !.inflight = f.inflight + Size(p),
                    !.out = Append(f.out, q)] \in FlushRecs
        BY <2>2, <2>3, <2>4
    <2> QED BY <2>5 DEF Enqueued, q
<1>11. Run(d, h.pend, n - Len(h.pend)) BY <1>3, <1>5
<1>12. PayOK(d, h.pay, SentBy(n, h.pend, h.pay)) BY <1>3 DEF PayOK
<1> HIDE DEF h
<1>13. m <= SentBy(n, h.pend, h.pay)
    <2>0. hi \in Int BY <1>6
    <2>1. m <= hi BY <1>5, Zenon
    <2> HIDE DEF hi
    <2>2. m <= hi + Len(p.chunks) BY <2>0, <2>1, <1>6
    <2> QED BY <1>9, <2>2
<1> HIDE DEF hi
<1>14. OutOK(d, h.out, m, SentBy(n, h.pend, h.pay)) BY <1>8, <1>9
<1>15. FlushOK(d, n, m, h) BY <1>10, <1>11, <1>12, <1>13, <1>14 DEF FlushOK, PartsOK
<1> QED BY <1>15 DEF h

LEMMA TryOK ==
    ASSUME setup \in Setups, NEW d, NEW n \in Nat, NEW m \in Nat,
           NEW f \in FlushRecs, NEW p \in TaskRecs, NEW overflow \in BOOLEAN,
           p.pc = "send", p.at = 0, PartsOK(d, n, m, f.pend, p, f.out)
    PROVE  /\ FlushOK(d, n, m, TryEnqueuePayload(f, p, overflow))
           /\ TryEnqueuePayload(f, p, overflow).pend = f.pend
           /\ overflow => TryEnqueuePayload(f, p, overflow).pay = NoPayload
<1> DEFINE g == TryEnqueuePayload(f, p, overflow)
<1>1. CASE \E over \in BOOLEAN : g = Enqueued(f, p, over)
    <2>1. PICK over \in BOOLEAN : g = Enqueued(f, p, over) BY <1>1
    <2>2. FlushOK(d, n, m, Enqueued(f, p, over)) BY EnqueuedOK
    <2>3. Enqueued(f, p, over).pend = f.pend /\ Enqueued(f, p, over).pay = NoPayload
        BY DEF Enqueued, FlushRecs
    <2> QED BY <2>1, <2>2, <2>3
<1>2. CASE ~overflow /\ g = [f EXCEPT !.pay = p]
    <2> DEFINE h == [f EXCEPT !.pay = p]
    <2>1. h.pend = f.pend /\ h.pay = p /\ h.out = f.out /\ h \in FlushRecs
        BY DEF FlushRecs
    <2> HIDE DEF h
    <2>2. FlushOK(d, n, m, h) BY <2>1 DEF FlushOK
    <2> QED BY <1>2, <2>1, <2>2 DEF h
<1> HIDE DEF g
<1>3. (\E over \in BOOLEAN : g = Enqueued(f, p, over)) \/ (~overflow /\ g = [f EXCEPT !.pay = p])
    BY TryCases, Zenon DEF g
<1> QED BY <1>1, <1>2, <1>3 DEF g

LEMMA WaitingOK ==
    ASSUME setup \in Setups, NEW d, NEW n \in Nat, NEW m \in Nat,
           NEW f, FlushOK(d, n, m, f), NEW overflow \in BOOLEAN
    PROVE  /\ FlushOK(d, n, m, FlushWaiting(f, overflow))
           /\ FlushWaiting(f, overflow).pend = f.pend
           /\ overflow => FlushWaiting(f, overflow).pay = NoPayload
<1>1. CASE f.pay = NoPayload BY <1>1 DEF FlushWaiting
<1>2. CASE f.pay # NoPayload
    <2>1. f \in FlushRecs /\ f.pay \in TaskRecs BY <1>2 DEF FlushOK, FlushRecs
    <2>2. PartsOK(d, n, m, f.pend, f.pay, f.out) BY DEF FlushOK
    <2>3. f.pay.pc = "send" /\ f.pay.at = 0 BY <1>2, <2>2 DEF PartsOK, PayOK
    <2>4. FlushWaiting(f, overflow) = TryEnqueuePayload(f, f.pay, overflow)
        BY <1>2 DEF FlushWaiting
    <2> QED BY <2>1, <2>2, <2>3, <2>4, TryOK
<1> QED BY <1>1, <1>2

\* The next batch is taken off the front of the pending chunks.
LEMMA TransmitParts ==
    ASSUME setup \in Setups, NEW d \in Sinks, NEW n \in Nat, NEW m \in Nat,
           NEW f, FlushOK(d, n, m, f), f.pay = NoPayload, f.pend # <<>>,
           NEW overflow \in BOOLEAN
    PROVE  \E g \in FlushRecs, p \in TaskRecs :
               /\ TransmitBatch(d, f, overflow) = TryEnqueuePayload(g, p, overflow)
               /\ g.out = f.out /\ g.inflight = f.inflight /\ Len(g.pend) < Len(f.pend)
               /\ p.pc = "send" /\ p.at = 0 /\ PartsOK(d, n, m, g.pend, p, g.out)
<1> DEFINE b == IF Len(f.pend) < BatchBytes THEN Len(f.pend) ELSE BatchBytes
           front == SubSeq(f.pend, 1, b)
           rest == SubSeq(f.pend, b + 1, Len(f.pend))
           p == Payload(d, front, ~f.meta, FALSE)
           g == [f EXCEPT !.pend = rest, !.meta = TRUE]
<1>1. /\ f \in FlushRecs /\ f.pend \in Seq(Chunks) /\ f.out \in Seq(TaskRecs)
      /\ f.meta \in BOOLEAN
    BY DEF FlushOK, FlushRecs
<1>2. Len(f.pend) \in Nat \ {0} /\ \A i \in 1 .. Len(f.pend) : f.pend[i] \in Chunks
    BY <1>1, EmptySeq, ElementOfSeq
<1>3. b \in Nat \ {0} /\ b <= Len(f.pend) BY <1>2, SetupFacts
<1>4. TransmitBatch(d, f, overflow) = TryEnqueuePayload(g, p, overflow)
    BY <1>1 DEF TransmitBatch, FlushRecs
<1> HIDE DEF b
<1>5. /\ front \in Seq(Chunks) /\ Len(front) = b
      /\ \A i \in 1 .. b : front[i] = f.pend[i]
    <2>1. \A i \in 1 .. b : f.pend[i] \in Chunks BY <1>2, <1>3
    <2> QED BY <1>3, <2>1, SubSeqProperties
<1>6. /\ rest \in Seq(Chunks) /\ Len(rest) = Len(f.pend) - b
      /\ \A i \in 1 .. Len(rest) : rest[i] = f.pend[b + i]
    <2>1. \A i \in (b + 1) .. Len(f.pend) : f.pend[i] \in Chunks BY <1>2, <1>3
    <2> QED BY <1>2, <1>3, <2>1, SubSeqProperties
<1> HIDE DEF front, rest
<1>7. /\ p \in TaskRecs /\ p.drv = d /\ p.pc = "send" /\ p.at = 0 /\ ~p.eos
      /\ p.chunks = front
    BY <1>1, <1>5 DEF Payload, TaskRecs, Places
<1>8. p.chunks # <<>> BY <1>3, <1>5, <1>7, EmptySeq
<1>9. /\ g \in FlushRecs /\ g.pend = rest /\ g.pay = NoPayload /\ g.out = f.out
      /\ g.inflight = f.inflight
    BY <1>1, <1>6 DEF FlushRecs
<1> HIDE DEF p, g
<1>10. PartsOK(d, n, m, g.pend, p, g.out)
    <2>0. p # NoPayload BY <1>7, SomePayload
    <2>1. SentBy(n, g.pend, p) = n - Len(f.pend) /\ SentBy(n, f.pend, f.pay) = n - Len(f.pend)
        <3>1. PayLen(p) = b /\ PayLen(f.pay) = 0 BY <1>5, <1>7, <2>0 DEF PayLen
        <3>2. Len(g.pend) = Len(f.pend) - b BY <1>6, <1>9
        <3> QED BY <1>2, <1>3, <3>1, <3>2 DEF SentBy
    <2>2. Run(d, f.pend, n - Len(f.pend)) BY DEF FlushOK, PartsOK
    <2>3. Run(d, g.pend, n - Len(g.pend))
        <3> SUFFICES ASSUME NEW i \in 1 .. Len(rest)
                     PROVE  rest[i] = <<d, (n - Len(rest)) + i>>
            BY <1>9 DEF Run
        <3>1. b + i \in 1 .. Len(f.pend) BY <1>2, <1>3, <1>6
        <3>2. rest[i] = <<d, (n - Len(f.pend)) + (b + i)>> BY <3>1, <1>6, <2>2 DEF Run
        <3>3. (n - Len(f.pend)) + (b + i) = (n - Len(rest)) + i BY <1>2, <1>3, <1>6
        <3> QED BY <3>2, <3>3
    <2>4. Run(d, p.chunks, n - Len(f.pend))
        <3>1. \A i \in 1 .. b : i \in 1 .. Len(f.pend) BY <1>2, <1>3
        <3>2. \A i \in 1 .. b : f.pend[i] = <<d, (n - Len(f.pend)) + i>> BY <3>1, <2>2 DEF Run
        <3> QED BY <1>5, <1>7, <3>2 DEF Run
    <2>5. PayOK(d, p, n - Len(f.pend)) BY <1>7, <1>8, <2>4 DEF PayOK
    <2>6. m <= n - Len(f.pend) /\ OutOK(d, g.out, m, n - Len(f.pend))
        BY <1>9, <2>1 DEF FlushOK, PartsOK
    <2> QED BY <2>1, <2>3, <2>5, <2>6 DEF PartsOK
<1>11. Len(g.pend) < Len(f.pend) BY <1>2, <1>3, <1>6, <1>9
<1> QED BY <1>4, <1>7, <1>9, <1>10, <1>11

LEMMA TransmitOK ==
    ASSUME setup \in Setups, NEW d \in Sinks, NEW n \in Nat, NEW m \in Nat,
           NEW f, FlushOK(d, n, m, f), f.pay = NoPayload, f.pend # <<>>,
           NEW overflow \in BOOLEAN
    PROVE  /\ FlushOK(d, n, m, TransmitBatch(d, f, overflow))
           /\ Len(TransmitBatch(d, f, overflow).pend) < Len(f.pend)
           /\ overflow => TransmitBatch(d, f, overflow).pay = NoPayload
<1>1. PICK g \in FlushRecs, p \in TaskRecs :
          /\ TransmitBatch(d, f, overflow) = TryEnqueuePayload(g, p, overflow)
          /\ g.out = f.out /\ g.inflight = f.inflight /\ Len(g.pend) < Len(f.pend)
          /\ p.pc = "send" /\ p.at = 0 /\ PartsOK(d, n, m, g.pend, p, g.out)
    BY TransmitParts
<1>2. /\ FlushOK(d, n, m, TryEnqueuePayload(g, p, overflow))
      /\ TryEnqueuePayload(g, p, overflow).pend = g.pend
      /\ overflow => TryEnqueuePayload(g, p, overflow).pay = NoPayload
    BY <1>1, TryOK
<1> QED BY <1>1, <1>2

LEMMA PendingOK ==
    ASSUME setup \in Setups, NEW d \in Sinks, NEW n \in Nat, NEW m \in Nat,
           NEW f, FlushOK(d, n, m, f)
    PROVE  FlushOK(d, n, m, FlushPending(d, f))
<1> DEFINE g == FlushWaiting(f, FALSE)
<1>1. FlushOK(d, n, m, g) BY WaitingOK
<1>2. FlushPending(d, f) = IF g.pay # NoPayload \/ Len(g.pend) < BatchBytes THEN g
                           ELSE TransmitBatch(d, g, FALSE)
    BY DEF FlushPending
<1> HIDE DEF g
<1>3. CASE g.pay # NoPayload \/ Len(g.pend) < BatchBytes BY <1>1, <1>2, <1>3
<1>4. CASE g.pay = NoPayload /\ ~(Len(g.pend) < BatchBytes)
    <2>1. g.pend # <<>> BY <1>4, SetupFacts, EmptySeq
    <2> QED BY <1>1, <1>2, <1>4, <2>1, TransmitOK
<1> QED BY <1>3, <1>4

\* flush_pending(true, true) as a sequence of steps.
ForceStep(d, h) == IF h.pend = <<>> THEN h ELSE TransmitBatch(d, h, TRUE)
Steps(d, g, n, h) ==
    /\ DOMAIN h = 0 .. n /\ h[0] = g
    /\ \A k \in 1 .. n : h[k] = ForceStep(d, h[k - 1])

LEMMA StepsExist ==
    ASSUME NEW d, NEW g
    PROVE  \A n \in Nat : \E h : Steps(d, g, n, h)
<1> DEFINE S == {n \in Nat : ~ \E h : Steps(d, g, n, h)}
<1> SUFFICES ASSUME S # {} PROVE FALSE
    OBVIOUS
<1>1. PICK n \in S : \A m \in Nat : m < n => m \notin S BY LeastNat
<1>2. CASE n = 0
    <2>1. Steps(d, g, 0, [k \in 0 .. 0 |-> g]) BY DEF Steps
    <2> QED BY <1>1, <1>2, <2>1
<1>3. CASE n # 0
    <2>1. n \in Nat /\ n - 1 \in Nat /\ n - 1 < n BY <1>1, <1>3
    <2>2. PICK h : Steps(d, g, n - 1, h) BY <1>1, <2>1
    <2> DEFINE j == [k \in 0 .. n |-> IF k = n THEN ForceStep(d, h[n - 1]) ELSE h[k]]
    <2>3. DOMAIN j = 0 .. n /\ j[0] = g BY <1>3, <2>1, <2>2 DEF Steps
    <2>4. \A k \in 1 .. n : j[k] = ForceStep(d, j[k - 1])
        <3> SUFFICES ASSUME NEW k \in 1 .. n PROVE j[k] = ForceStep(d, j[k - 1])
            OBVIOUS
        <3>1. k - 1 \in 0 .. n /\ k - 1 # n BY <2>1
        <3>2. j[k - 1] = h[k - 1] BY <3>1
        <3>3. CASE k = n BY <3>2, <3>3
        <3>4. CASE k # n
            <4>1. k \in 1 .. (n - 1) BY <2>1, <3>4
            <4> QED BY <2>2, <3>2, <3>4, <4>1 DEF Steps
        <3> QED BY <3>3, <3>4
    <2>5. Steps(d, g, n, j) BY <2>3, <2>4 DEF Steps
    <2> QED BY <1>1, <2>5
<1> QED BY <1>2, <1>3

LEMMA ForcedSteps ==
    ASSUME NEW d, NEW f, Len(FlushWaiting(f, TRUE).pend) \in Nat
    PROVE  \E h : /\ Steps(d, FlushWaiting(f, TRUE), Len(FlushWaiting(f, TRUE).pend), h)
                  /\ FlushForced(d, f) = h[Len(FlushWaiting(f, TRUE).pend)]
<1> DEFINE g == FlushWaiting(f, TRUE)
           n == Len(g.pend)
           F(a) == [k \in 0 .. n |-> IF k = 0 THEN g
                                     ELSE IF a[k - 1].pend = <<>> THEN a[k - 1]
                                     ELSE TransmitBatch(d, a[k - 1], TRUE)]
           after == CHOOSE a : a = F(a)
<1>1. FlushForced(d, f) = after[n] BY Zenon DEF FlushForced
<1> HIDE DEF g
<1>2. PICK h : Steps(d, g, n, h) /\ h = [k \in DOMAIN h |-> h[k]]
    <2>0. n \in Nat BY DEF g
    <2>1. PICK h : Steps(d, g, n, h) BY <2>0, StepsExist
    <2> DEFINE j == [k \in 0 .. n |-> h[k]]
    <2>2. Steps(d, g, n, j) BY <2>0, <2>1 DEF Steps
    <2>3. j = [k \in DOMAIN j |-> j[k]] BY <2>2 DEF Steps
    <2> QED BY <2>2, <2>3
<1>6. n \in Nat BY DEF g
<1> HIDE DEF n
<1>3. h = F(h)
    <2>1. \A k \in 0 .. n : h[k] = F(h)[k] BY <1>2, <1>6 DEF Steps, ForceStep
    <2> QED BY <1>2, <2>1 DEF Steps
<1>4. after = F(after) BY <1>3
<1> HIDE DEF after
<1>5. Steps(d, g, n, after)
    <2>1. DOMAIN after = 0 .. n /\ after[0] = g BY <1>4, <1>6
    <2>2. \A k \in 1 .. n : after[k] = ForceStep(d, after[k - 1]) BY <1>4, <1>6 DEF ForceStep
    <2> QED BY <2>1, <2>2 DEF Steps
<1> QED BY <1>1, <1>5 DEF g, n

\* Every step leaves the buffers consistent and nothing waiting for capacity.
LEMMA StepsOK ==
    ASSUME setup \in Setups, NEW d \in Sinks, NEW n \in Nat, NEW m \in Nat,
           NEW g, FlushOK(d, n, m, g), g.pay = NoPayload,
           NEW len \in Nat, len = Len(g.pend), NEW h, Steps(d, g, len, h)
    PROVE  \A k \in 0 .. len :
               FlushOK(d, n, m, h[k]) /\ h[k].pay = NoPayload /\ Len(h[k].pend) <= len - k
<1>1. len \in Nat OBVIOUS
<1> DEFINE Good(k) == FlushOK(d, n, m, h[k]) /\ h[k].pay = NoPayload /\ Len(h[k].pend) <= len - k
           Bad == {k \in 0 .. len : ~Good(k)}
<1>2. Bad = {}
    <2> SUFFICES ASSUME Bad # {} PROVE FALSE
        OBVIOUS
    <2>0. Bad \subseteq Nat BY <1>1
    <2>1. PICK k \in Bad : \A j \in Nat : j < k => j \notin Bad BY <2>0, LeastNat
    <2>2. CASE k = 0
        <3>1. h[0] = g BY DEF Steps
        <3>2. len <= len - 0 BY <1>1
        <3>3. Good(0) BY <3>1, <3>2
        <3> QED BY <2>1, <2>2, <3>3
    <2>3. CASE k # 0
        <3>1. k \in 1 .. len /\ k - 1 \in Nat /\ k - 1 < k /\ k - 1 \in 0 .. len
            BY <1>1, <2>1, <2>3
        <3>2. Good(k - 1) BY <2>1, <3>1
        <3>3. h[k] = ForceStep(d, h[k - 1]) BY <3>1 DEF Steps
        <3>4. h[k - 1].pend \in Seq(Chunks) BY <3>2 DEF FlushOK, FlushRecs
        <3>5. Len(h[k - 1].pend) \in Nat BY <3>4, LenProperties
        <3>6. CASE h[k - 1].pend = <<>>
            <4>1. h[k] = h[k - 1] /\ Len(h[k].pend) = 0 BY <3>3, <3>6, EmptySeq DEF ForceStep
            <4>2. 0 <= len - k BY <1>1, <3>1
            <4>3. Good(k) BY <3>2, <4>1, <4>2
            <4> QED BY <2>1, <4>3
        <3>7. CASE h[k - 1].pend # <<>>
            <4>1. h[k] = TransmitBatch(d, h[k - 1], TRUE) BY <3>3, <3>7 DEF ForceStep
            <4>2. /\ FlushOK(d, n, m, h[k]) /\ Len(h[k].pend) < Len(h[k - 1].pend)
                  /\ h[k].pay = NoPayload
                <5> DEFINE u == h[k - 1]
                <5>1. FlushOK(d, n, m, u) /\ u.pay = NoPayload /\ u.pend # <<>>
                    BY <3>2, <3>7
                <5> HIDE DEF u
                <5>2. /\ FlushOK(d, n, m, TransmitBatch(d, u, TRUE))
                      /\ Len(TransmitBatch(d, u, TRUE).pend) < Len(u.pend)
                      /\ TransmitBatch(d, u, TRUE).pay = NoPayload
                    BY <5>1, TransmitOK
                <5> QED BY <4>1, <5>2 DEF u
            <4>3. Len(h[k].pend) \in Nat
                <5>1. h[k].pend \in Seq(Chunks) BY <4>2 DEF FlushOK, FlushRecs
                <5> QED BY <5>1, LenProperties
            <4>4. Len(h[k].pend) <= len - k
                <5>1. Len(h[k - 1].pend) <= len - (k - 1) BY <3>2
                <5>2. \A a, b \in Nat : a < b /\ b <= len - (k - 1) => a <= len - k
                    BY <1>1, <3>1
                <5> QED BY <3>5, <4>2, <4>3, <5>1, <5>2
            <4>5. Good(k) BY <4>2, <4>4
            <4> QED BY <2>1, <4>5
        <3> QED BY <3>6, <3>7
    <2> QED BY <2>2, <2>3
<1> QED BY <1>2

LEMMA ForcedOK ==
    ASSUME setup \in Setups, NEW d \in Sinks, NEW n \in Nat, NEW m \in Nat,
           NEW f, FlushOK(d, n, m, f)
    PROVE  /\ FlushOK(d, n, m, FlushForced(d, f))
           /\ FlushForced(d, f).pend = <<>> /\ FlushForced(d, f).pay = NoPayload
<1> DEFINE g == FlushWaiting(f, TRUE)
           len == Len(g.pend)
<1>1. FlushOK(d, n, m, g) /\ g.pay = NoPayload BY WaitingOK
<1>2. g.pend \in Seq(Chunks) BY <1>1 DEF FlushOK, FlushRecs
<1>3. len \in Nat BY <1>2, LenProperties
<1>4. PICK h : Steps(d, g, len, h) /\ FlushForced(d, f) = h[len] BY <1>3, ForcedSteps
<1>5. len = Len(g.pend) OBVIOUS
<1> HIDE DEF g, len
<1>6. len \in 0 .. len BY <1>3
<1>7. FlushOK(d, n, m, h[len]) /\ h[len].pay = NoPayload /\ Len(h[len].pend) <= len - len
    BY <1>1, <1>3, <1>4, <1>5, <1>6, StepsOK
<1>8. h[len].pend \in Seq(Chunks) BY <1>7 DEF FlushOK, FlushRecs
<1>9. Len(h[len].pend) \in Nat /\ Len(h[len].pend) <= 0 BY <1>3, <1>7, <1>8, LenProperties
<1>10. h[len].pend = <<>> BY <1>8, <1>9, EmptySeq
<1> QED BY <1>4, <1>7, <1>10

-----------------------------------------------------------------------------
(* The send queue *)

\* The tasks of a queue with executor I and lanes L.
LEMMA InQueue ==
    ASSUME NEW S, NEW Q, NEW L \in [S -> Seq(Q)], NEW I, NEW t
    PROVE  t \in I \cup UNION {{L[s][i] : i \in DOMAIN L[s]} : s \in S}
             <=> t \in I \/ \E s \in S : \E i \in 1 .. Len(L[s]) : t = L[s][i]
<1>1. \A s \in S : DOMAIN L[s] = 1 .. Len(L[s]) BY LenProperties
<1> QED BY <1>1

LEMMA InTasks ==
    ASSUME lane \in [Senders -> Seq(TaskRecs)], NEW t
    PROVE  t \in Tasks <=> t \in io \/ \E s \in Senders : \E i \in 1 .. Len(lane[s]) : t = lane[s][i]
BY InQueue DEF Tasks

LEMMA InTasksNext ==
    ASSUME setup' = setup, lane' \in [Senders -> Seq(TaskRecs)], NEW t
    PROVE  t \in Tasks' <=> t \in io' \/ \E s \in Senders : \E i \in 1 .. Len(lane'[s]) : t = lane'[s][i]
<1>1. Senders' = Senders BY DEF Senders, SenderOf
<1>2. Tasks' = io' \cup UNION {{lane'[s][i] : i \in DOMAIN lane'[s]} : s \in Senders}
    BY <1>1 DEF Tasks
<1> QED BY <1>2, InQueue

\* A task's place, and what the queue knows of it.
LEMMA TaskFacts ==
    ASSUME SendShape, TasksOK, QueueOK, NEW t \in Tasks
    PROVE  /\ t \in TaskRecs /\ TaskOK(t) /\ t.drv \in Sinks /\ SenderOf[t.drv] \in Senders
           /\ t \notin io => t.pc = "send" /\ t.at = 0
<1>0. lane \in [Senders -> Seq(TaskRecs)] /\ io \subseteq TaskRecs /\ setup \in Setups
    BY DEF SendShape
<1>1. CASE t \in io
    <2>1. t \in TaskRecs /\ TaskOK(t) BY <1>0, <1>1 DEF TasksOK
    <2>2. t.drv \in Sinks BY <2>1 DEF TaskRecs
    <2> QED BY <1>0, <1>1, <2>1, <2>2, SetupFacts
<1>2. CASE t \notin io
    <2>1. PICK s \in Senders : \E i \in 1 .. Len(lane[s]) : t = lane[s][i]
        BY <1>0, <1>2, InTasks
    <2>2. PICK i \in 1 .. Len(lane[s]) : t = lane[s][i] BY <2>1
    <2>3. t \in TaskRecs BY <1>0, <2>2, ElementOfSeq
    <2>4. TaskOK(t) /\ t.pc = "send" /\ t.at = 0 BY <2>2 DEF TasksOK, QueueOK, LaneOK
    <2>5. t.drv \in Sinks BY <2>3 DEF TaskRecs
    <2> QED BY <1>0, <2>3, <2>4, <2>5, SetupFacts
<1> QED BY <1>1, <1>2

\* What an enqueue adds to the tasks.
LEMMA EnqueuedTasks ==
    ASSUME SendShape, QueueOK, setup' = setup, NEW d \in Sinks,
           NEW out \in Seq(TaskRecs), EnqueueTasks(d, out)
    PROVE  \A t : t \in Tasks' <=> t \in Tasks \/ \E i \in 1 .. Len(out) : t = out[i]
<1> PICK s : s = SenderOf[d] OBVIOUS
<1>0. /\ lane \in [Senders -> Seq(TaskRecs)] /\ io \subseteq TaskRecs /\ setup \in Setups
      /\ busy \subseteq Senders
    BY DEF SendShape
<1>1. s \in Senders BY <1>0, SetupFacts
<1>2. Senders' = Senders /\ SenderOf' = SenderOf BY DEF Senders, SenderOf
<1>3. \A q \in Senders : Len(lane[q]) \in Nat BY <1>0, LenProperties
<1>4. Len(out) \in Nat BY LenProperties
<1>5. CASE out = <<>>
    <2>1. UNCHANGED <<lane, busy, io>> BY <1>5 DEF EnqueueTasks
    <2>4. Len(out) = 0 BY <1>5, EmptySeq
    <2>5. Tasks' = Tasks BY <1>2, <2>1 DEF Tasks
    <2> QED BY <2>4, <2>5
<1>6. CASE out # <<>> /\ s \in busy
    <2>1. lane' = [lane EXCEPT ![s] = @ \o out] /\ UNCHANGED <<busy, io>>
        BY <1>6 DEF EnqueueTasks
    <2> PICK long : long = lane[s] \o out OBVIOUS
    <2>2. /\ long \in Seq(TaskRecs) /\ Len(long) = Len(lane[s]) + Len(out)
          /\ \A i \in 1 .. Len(lane[s]) + Len(out) :
                long[i] = IF i <= Len(lane[s]) THEN lane[s][i] ELSE out[i - Len(lane[s])]
        <3>1. lane[s] \in Seq(TaskRecs) BY <1>0, <1>1
        <3> QED BY <3>1, ConcatProperties
    <2>3. \A q \in Senders : lane'[q] = IF q = s THEN long ELSE lane[q]
        BY <1>0, <2>1
    <2>4. lane' \in [Senders -> Seq(TaskRecs)] BY <1>0, <2>1, <2>2
    <2>5. \A i \in 1 .. Len(long) :
             \/ i \in 1 .. Len(lane[s]) /\ long[i] = lane[s][i]
             \/ i - Len(lane[s]) \in 1 .. Len(out) /\ long[i] = out[i - Len(lane[s])] /\ i > Len(lane[s])
        BY <1>1, <1>3, <1>4, <2>2
    <2>9. \A t : t \in Tasks' <=> t \in Tasks \/ \E i \in 1 .. Len(out) : t = out[i]
        <3> SUFFICES ASSUME NEW t
                     PROVE  t \in Tasks' <=> t \in Tasks \/ \E i \in 1 .. Len(out) : t = out[i]
            OBVIOUS
        <3>1. t \in Tasks' <=> t \in io \/ \E q \in Senders : \E i \in 1 .. Len(lane'[q]) : t = lane'[q][i]
            BY <2>1, <2>4, InTasksNext
        <3>2. t \in Tasks <=> t \in io \/ \E q \in Senders : \E i \in 1 .. Len(lane[q]) : t = lane[q][i]
            BY <1>0, InTasks
        <3>3. (\E i \in 1 .. Len(long) : t = long[i])
                <=> (\E i \in 1 .. Len(lane[s]) : t = lane[s][i]) \/ \E i \in 1 .. Len(out) : t = out[i]
            <4>1. ASSUME NEW i \in 1 .. Len(lane[s]) PROVE i \in 1 .. Len(long) /\ long[i] = lane[s][i]
                BY <1>1, <1>3, <1>4, <2>2
            <4>2. ASSUME NEW i \in 1 .. Len(out)
                  PROVE  Len(lane[s]) + i \in 1 .. Len(long) /\ long[Len(lane[s]) + i] = out[i]
                BY <1>1, <1>3, <1>4, <2>2
            <4>3. ASSUME NEW i \in 1 .. Len(long)
                  PROVE  (\E k \in 1 .. Len(lane[s]) : long[i] = lane[s][k])
                           \/ \E k \in 1 .. Len(out) : long[i] = out[k]
                BY <2>5
            <4>4. ASSUME NEW i \in 1 .. Len(lane[s]), t = lane[s][i] PROVE \E k \in 1 .. Len(long) : t = long[k]
                BY <4>1, <4>4
            <4>5. ASSUME NEW i \in 1 .. Len(out), t = out[i] PROVE \E k \in 1 .. Len(long) : t = long[k]
                BY <4>2, <4>5
            <4> QED BY <4>3, <4>4, <4>5
        <3>4. (\E q \in Senders : \E i \in 1 .. Len(lane'[q]) : t = lane'[q][i])
                <=> \/ \E i \in 1 .. Len(long) : t = long[i]
                    \/ \E q \in Senders \ {s} : \E i \in 1 .. Len(lane[q]) : t = lane[q][i]
            <4>1. lane'[s] = long /\ \A q \in Senders \ {s} : lane'[q] = lane[q] BY <1>1, <2>3
            <4> QED BY <1>1, <4>1, Zenon
        <3>5. (\E q \in Senders : \E i \in 1 .. Len(lane[q]) : t = lane[q][i])
                <=> \/ \E i \in 1 .. Len(lane[s]) : t = lane[s][i]
                    \/ \E q \in Senders \ {s} : \E i \in 1 .. Len(lane[q]) : t = lane[q][i]
            BY <1>1
        <3> QED BY <3>1, <3>2, <3>3, <3>4, <3>5, Zenon
    <2> QED BY <2>9
<1>7. CASE out # <<>> /\ s \notin busy
    <2>1. /\ lane' = [lane EXCEPT ![s] = Tail(out)] /\ busy' = busy \cup {s}
          /\ io' = io \cup {Head(out)}
        BY <1>7 DEF EnqueueTasks
    <2>2. /\ Head(out) = out[1] /\ Len(out) >= 1 /\ Tail(out) \in Seq(TaskRecs)
          /\ Len(Tail(out)) = Len(out) - 1
          /\ \A i \in 1 .. Len(Tail(out)) : Tail(out)[i] = out[i + 1]
        BY <1>4, <1>7, HeadTailProperties, EmptySeq
    <2>3. \A q \in Senders : lane'[q] = IF q = s THEN Tail(out) ELSE lane[q]
        BY <1>0, <2>1
    <2>4. lane' \in [Senders -> Seq(TaskRecs)] BY <1>0, <2>1, <2>2
    <2>5. lane[s] = <<>> BY <1>1, <1>7 DEF QueueOK
    <2>6. \A i \in 1 .. Len(Tail(out)) : i + 1 \in 1 .. Len(out) BY <1>4, <2>2
    <2>7. 1 \in 1 .. Len(out) BY <1>4, <2>2
    <2>11. \A t : t \in Tasks' <=> t \in Tasks \/ \E i \in 1 .. Len(out) : t = out[i]
        <3> SUFFICES ASSUME NEW t
                     PROVE  t \in Tasks' <=> t \in Tasks \/ \E i \in 1 .. Len(out) : t = out[i]
            OBVIOUS
        <3>1. t \in Tasks' <=> t \in io' \/ \E q \in Senders : \E i \in 1 .. Len(lane'[q]) : t = lane'[q][i]
            BY <2>4, InTasksNext
        <3>2. t \in Tasks <=> t \in io \/ \E q \in Senders : \E i \in 1 .. Len(lane[q]) : t = lane[q][i]
            BY <1>0, InTasks
        <3>3. Len(lane[s]) = 0 BY <2>5, EmptySeq
        <3>4. (\E i \in 1 .. Len(out) : t = out[i])
                <=> t = out[1] \/ \E i \in 1 .. Len(Tail(out)) : t = Tail(out)[i]
            <4>1. ASSUME NEW i \in 1 .. Len(out), i # 1
                  PROVE  i - 1 \in 1 .. Len(Tail(out)) /\ Tail(out)[i - 1] = out[i]
                <5>1. i - 1 \in 1 .. Len(Tail(out)) /\ (i - 1) + 1 = i BY <1>4, <2>2, <4>1
                <5> QED BY <2>2, <5>1
            <4> QED BY <2>2, <2>6, <2>7, <4>1
        <3>5. (\E q \in Senders : \E i \in 1 .. Len(lane'[q]) : t = lane'[q][i])
                <=> \/ \E i \in 1 .. Len(Tail(out)) : t = Tail(out)[i]
                    \/ \E q \in Senders \ {s} : \E i \in 1 .. Len(lane[q]) : t = lane[q][i]
            BY <1>1, <2>3
        <3>6. (\E q \in Senders : \E i \in 1 .. Len(lane[q]) : t = lane[q][i])
                <=> \E q \in Senders \ {s} : \E i \in 1 .. Len(lane[q]) : t = lane[q][i]
            <4>1. ~ \E i \in 1 .. Len(lane[s]) : t = lane[s][i] BY <3>3
            <4> QED BY <1>1, <4>1, Zenon
        <3>7. t \in io' <=> t \in io \/ t = out[1] BY <2>1, <2>2
        <3> QED BY <3>1, <3>2, <3>4, <3>5, <3>6, <3>7, Zenon
    <2> QED BY <2>11
<1> QED BY <1>5, <1>6, <1>7

\* New tasks of one sender that come after every task of that sender.
LEMMA EnqueueKeeps ==
    ASSUME SendShape, QueueOK, setup' = setup, NEW d \in Sinks,
           NEW out \in Seq(TaskRecs), EnqueueTasks(d, out),
           \A i \in 1 .. Len(out) : out[i].drv = d /\ out[i].pc = "send" /\ out[i].at = 0,
           \A i, j \in 1 .. Len(out) : i < j => Before(out[i], out[j]),
           \A t \in Tasks : SenderOf[t.drv] = SenderOf[d] =>
               \A i \in 1 .. Len(out) : Before(t, out[i])
    PROVE  /\ QueueOK'
           /\ lane' \in [Senders -> Seq(TaskRecs)] /\ io' \subseteq TaskRecs /\ busy' \subseteq Senders
           /\ \A t : t \in Tasks' <=> t \in Tasks \/ \E i \in 1 .. Len(out) : t = out[i]
           /\ \A t \in io' : t \in io \/ (t.at = 0 /\ t.pc = "send")
<1> PICK s : s = SenderOf[d] OBVIOUS
<1>0. /\ lane \in [Senders -> Seq(TaskRecs)] /\ io \subseteq TaskRecs /\ setup \in Setups
      /\ busy \subseteq Senders
    BY DEF SendShape
<1>1. s \in Senders BY <1>0, SetupFacts
<1>2. Senders' = Senders /\ SenderOf' = SenderOf BY DEF Senders, SenderOf
<1>3. \A q \in Senders : \A i \in 1 .. Len(lane[q]) :
         /\ lane[q][i] \in Tasks /\ lane[q][i] \in TaskRecs
         /\ lane[q][i].pc = "send" /\ lane[q][i].at = 0 /\ SenderOf[lane[q][i].drv] = q
    <2> SUFFICES ASSUME NEW q \in Senders, NEW i \in 1 .. Len(lane[q])
                 PROVE  /\ lane[q][i] \in Tasks /\ lane[q][i] \in TaskRecs
                        /\ lane[q][i].pc = "send" /\ lane[q][i].at = 0
                        /\ SenderOf[lane[q][i].drv] = q
        OBVIOUS
    <2>1. lane[q] \in Seq(TaskRecs) BY <1>0
    <2>2. lane[q][i] \in TaskRecs BY <2>1, ElementOfSeq
    <2>3. lane[q][i] \in Tasks BY <1>0, InTasks
    <2> QED BY <2>2, <2>3 DEF QueueOK, LaneOK
<1>4. \A t \in io : t \in Tasks BY <1>0, InTasks
<1>5. \A q \in Senders : Len(lane[q]) \in Nat BY <1>0, LenProperties
<1>6. Len(out) \in Nat /\ \A i \in 1 .. Len(out) : out[i] \in TaskRecs
    BY LenProperties, ElementOfSeq
<1>7. \A t : t \in Tasks' <=> t \in Tasks \/ \E i \in 1 .. Len(out) : t = out[i]
    BY EnqueuedTasks
<1>8. CASE out = <<>>
    <2>1. UNCHANGED <<lane, busy, io>> BY <1>8 DEF EnqueueTasks
    <2>2. \A q \in Senders : LaneOK(q)'
        BY <1>2, <1>3, <2>1 DEF QueueOK, LaneOK
    <2>3. QueueOK' BY <1>2, <1>4, <2>1, <2>2 DEF QueueOK
    <2>7. lane' \in [Senders -> Seq(TaskRecs)] /\ io' \subseteq TaskRecs /\ busy' \subseteq Senders
        BY <1>0, <2>1
    <2>8. \A t \in io' : t \in io BY <2>1
    <2> QED BY <1>7, <2>3, <2>7, <2>8, Zenon
<1>9. CASE out # <<>> /\ s \in busy
    <2>1. lane' = [lane EXCEPT ![s] = @ \o out] /\ UNCHANGED <<busy, io>>
        BY <1>9 DEF EnqueueTasks
    <2> PICK long : long = lane[s] \o out OBVIOUS
    <2>2. /\ long \in Seq(TaskRecs) /\ Len(long) = Len(lane[s]) + Len(out)
          /\ \A i \in 1 .. Len(lane[s]) + Len(out) :
                long[i] = IF i <= Len(lane[s]) THEN lane[s][i] ELSE out[i - Len(lane[s])]
        <3>1. lane[s] \in Seq(TaskRecs) BY <1>0, <1>1
        <3> QED BY <3>1, ConcatProperties
    <2>3. \A q \in Senders : lane'[q] = IF q = s THEN long ELSE lane[q]
        BY <1>0, <2>1
    <2>4. lane' \in [Senders -> Seq(TaskRecs)] BY <1>0, <2>1, <2>2
    <2>5. \A i \in 1 .. Len(long) :
             \/ i \in 1 .. Len(lane[s]) /\ long[i] = lane[s][i]
             \/ i - Len(lane[s]) \in 1 .. Len(out) /\ long[i] = out[i - Len(lane[s])] /\ i > Len(lane[s])
        BY <1>1, <1>5, <1>6, <2>2
    <2>6. LaneOK(s)'
        <3> SUFFICES ASSUME NEW i \in 1 .. Len(long)
                     PROVE  /\ long[i].pc = "send" /\ long[i].at = 0 /\ SenderOf[long[i].drv] = s
                            /\ \A t \in io : SenderOf[t.drv] = s => Before(t, long[i])
                            /\ \A j \in 1 .. Len(long) : i < j => Before(long[i], long[j])
            BY <1>1, <1>2, <2>1, <2>3 DEF LaneOK
        <3>1. long[i].pc = "send" /\ long[i].at = 0 /\ SenderOf[long[i].drv] = s
            BY <1>1, <1>3, <2>5
        <3>2. \A t \in io : SenderOf[t.drv] = s => Before(t, long[i])
            <4>1. \A t \in io : SenderOf[t.drv] = s => \A k \in 1 .. Len(lane[s]) : Before(t, lane[s][k])
                BY <1>1 DEF QueueOK, LaneOK
            <4> QED BY <1>4, <2>5, <4>1
        <3>3. ASSUME NEW j \in 1 .. Len(long), i < j PROVE Before(long[i], long[j])
            <4>1. CASE i \in 1 .. Len(lane[s]) /\ long[i] = lane[s][i]
                <5>1. CASE j \in 1 .. Len(lane[s]) /\ long[j] = lane[s][j]
                    BY <1>1, <3>3, <4>1, <5>1 DEF QueueOK, LaneOK
                <5>2. CASE j - Len(lane[s]) \in 1 .. Len(out) /\ long[j] = out[j - Len(lane[s])]
                    <6>1. lane[s][i] \in Tasks /\ SenderOf[lane[s][i].drv] = s BY <1>1, <1>3, <4>1
                    <6> QED BY <4>1, <5>2, <6>1
                <5> QED BY <2>5, <5>1, <5>2
            <4>2. CASE i - Len(lane[s]) \in 1 .. Len(out) /\ long[i] = out[i - Len(lane[s])]
                       /\ i > Len(lane[s])
                <5>1. j > Len(lane[s]) BY <1>1, <1>5, <2>2, <3>3, <4>2, <1>6
                <5>2. j - Len(lane[s]) \in 1 .. Len(out) /\ long[j] = out[j - Len(lane[s])]
                    BY <2>5, <5>1, <1>1, <1>5
                <5>3. i - Len(lane[s]) < j - Len(lane[s]) BY <1>1, <1>5, <1>6, <2>2, <3>3
                <5> QED BY <4>2, <5>2, <5>3
            <4> QED BY <2>5, <4>1, <4>2
        <3> QED BY <3>1, <3>2, <3>3
    <2>7. ASSUME NEW q \in Senders, q # s PROVE LaneOK(q)'
        <3>1. lane'[q] = lane[q] BY <2>3, <2>7
        <3>2. LaneOK(q) BY DEF QueueOK
        <3> QED BY <1>2, <2>1, <3>1, <3>2 DEF LaneOK
    <2>8. QueueOK' BY <1>2, <1>4, <1>9, <2>1, <2>3, <2>6, <2>7 DEF QueueOK
    <2>10. io' \subseteq TaskRecs /\ busy' \subseteq Senders /\ \A t \in io' : t \in io
        BY <1>0, <2>1
    <2> QED BY <1>7, <2>4, <2>8, <2>10, Zenon
<1>10. CASE out # <<>> /\ s \notin busy
    <2>1. /\ lane' = [lane EXCEPT ![s] = Tail(out)] /\ busy' = busy \cup {s}
          /\ io' = io \cup {Head(out)}
        BY <1>10 DEF EnqueueTasks
    <2>2. /\ Head(out) = out[1] /\ Len(out) >= 1 /\ Tail(out) \in Seq(TaskRecs)
          /\ Len(Tail(out)) = Len(out) - 1
          /\ \A i \in 1 .. Len(Tail(out)) : Tail(out)[i] = out[i + 1]
        BY <1>6, <1>10, HeadTailProperties, EmptySeq
    <2>3. \A q \in Senders : lane'[q] = IF q = s THEN Tail(out) ELSE lane[q]
        BY <1>0, <2>1
    <2>4. lane' \in [Senders -> Seq(TaskRecs)] BY <1>0, <2>1, <2>2
    <2>5. lane[s] = <<>> /\ \A t \in io : SenderOf[t.drv] # s BY <1>1, <1>10 DEF QueueOK
    <2>6. \A i \in 1 .. Len(Tail(out)) : i + 1 \in 1 .. Len(out) BY <1>6, <2>2
    <2>7. 1 \in 1 .. Len(out) /\ out[1] \in TaskRecs /\ SenderOf[out[1].drv] = s BY <1>6, <2>2
    <2>8. LaneOK(s)'
        <3> DEFINE rest == Tail(out)
        <3>0. /\ Len(rest) = Len(out) - 1 /\ \A i \in 1 .. Len(rest) : rest[i] = out[i + 1]
              /\ \A i \in 1 .. Len(rest) : i + 1 \in 1 .. Len(out)
              /\ lane'[s] = rest
            BY <1>1, <2>2, <2>3, <2>6
        <3> HIDE DEF rest
        <3> SUFFICES ASSUME NEW i \in 1 .. Len(rest)
                     PROVE  /\ rest[i].pc = "send" /\ rest[i].at = 0 /\ SenderOf[rest[i].drv] = s
                            /\ \A t \in io' : SenderOf[t.drv] = s => Before(t, rest[i])
                            /\ \A j \in 1 .. Len(rest) : i < j => Before(rest[i], rest[j])
            BY <1>2, <3>0 DEF LaneOK
        <3>1. rest[i].pc = "send" /\ rest[i].at = 0 /\ SenderOf[rest[i].drv] = s BY <3>0
        <3>2. \A t \in io' : SenderOf[t.drv] = s => Before(t, rest[i])
            <4>1. 1 < i + 1 /\ i + 1 \in 1 .. Len(out) BY <3>0
            <4>2. Before(out[1], out[i + 1]) BY <2>7, <4>1
            <4> QED BY <2>1, <2>2, <2>5, <3>0, <4>2
        <3>3. \A j \in 1 .. Len(rest) : i < j => Before(rest[i], rest[j])
            <4> SUFFICES ASSUME NEW j \in 1 .. Len(rest), i < j PROVE Before(rest[i], rest[j])
                OBVIOUS
            <4>1. i + 1 < j + 1 OBVIOUS
            <4> QED BY <3>0, <4>1
        <3> QED BY <3>1, <3>2, <3>3
    <2>9. ASSUME NEW q \in Senders, q # s PROVE LaneOK(q)'
        <3>1. \A t \in io' : SenderOf[t.drv] = q => t \in io BY <2>1, <2>2, <2>7, <2>9
        <3> QED BY <1>2, <1>3, <2>3, <2>9, <3>1 DEF QueueOK, LaneOK
    <2>10. QueueOK'
        <3>1. \A t, u \in io' : SenderOf[t.drv] = SenderOf[u.drv] => t = u
            BY <2>1, <2>2, <2>5, <2>7 DEF QueueOK
        <3>2. \A t \in io' : SenderOf[t.drv] \in busy'
            BY <1>4, <2>1, <2>2, <2>7 DEF QueueOK
        <3>3. \A q \in busy' : \E t \in io' : SenderOf[t.drv] = q
            BY <2>1, <2>2, <2>7 DEF QueueOK
        <3>4. \A q \in Senders \ busy' : lane'[q] = <<>> BY <2>1, <2>3 DEF QueueOK
        <3> QED BY <1>2, <2>8, <2>9, <3>1, <3>2, <3>3, <3>4 DEF QueueOK
    <2>12. io' \subseteq TaskRecs /\ busy' \subseteq Senders BY <1>0, <1>1, <2>1, <2>2, <2>7
    <2>13. \A t \in io' : t \in io \/ (t.at = 0 /\ t.pc = "send") BY <2>1, <2>2, <2>7
    <2> QED BY <1>7, <2>4, <2>10, <2>12, <2>13, Zenon
<1> QED BY <1>8, <1>9, <1>10

\* The setup of a behaviour never changes.
LEMMA SameSets ==
    ASSUME setup' = setup
    PROVE  /\ Sinks' = Sinks /\ Senders' = Senders /\ SenderOf' = SenderOf /\ Sources' = Sources
           /\ ChunksPerSink' = ChunksPerSink /\ MaxReceivers' = MaxReceivers
           /\ Chunks' = Chunks /\ TaskRecs' = TaskRecs /\ RcvRecs' = RcvRecs
           /\ MaxInflight' = MaxInflight /\ Expected' = Expected
<1>1. /\ Sinks' = Sinks /\ Senders' = Senders /\ SenderOf' = SenderOf /\ Sources' = Sources
      /\ ChunksPerSink' = ChunksPerSink /\ MaxReceivers' = MaxReceivers /\ MaxInflight' = MaxInflight
    BY DEF Sinks, Senders, SenderOf, Sources, ChunksPerSink, MaxReceivers, MaxInflight
<1>2. Chunks' = Chunks BY <1>1 DEF Chunks
<1> QED BY <1>1, <1>2 DEF TaskRecs, RcvRecs, Expected

LEMMA SentByInt ==
    ASSUME NEW n \in Int, NEW cs \in Seq(Chunks), NEW p \in TaskRecs \cup {NoPayload}
    PROVE  SentBy(n, cs, p) \in Int
<1>1. Len(cs) \in Nat BY LenProperties
<1>2. PayLen(p) \in Nat
    <2>1. CASE p = NoPayload BY <2>1 DEF PayLen
    <2>2. CASE p # NoPayload
        <3>1. p.chunks \in Seq(Chunks) BY <2>2 DEF TaskRecs
        <3> QED BY <2>2, <3>1, LenProperties DEF PayLen
    <2> QED BY <2>1, <2>2
<1> QED BY <1>1, <1>2 DEF SentBy

LEMMA SentInt ==
    ASSUME SendShape
    PROVE  \A d \in Sinks : Sent(d) \in Int
<1>1. \A d \in Sinks : pushed[d] \in Int /\ pend[d] \in Seq(Chunks) /\ pay[d] \in TaskRecs \cup {NoPayload}
    BY DEF SendShape
<1> QED BY <1>1, SentByInt DEF Sent

\* An arrived chunk stays behind the tasks on their way, when the sinks send on.
LEMMA PastKeep ==
    ASSUME setup \in Setups, setup' = setup,
           \A d \in Sinks : Sent(d) \in Int /\ Sent(d)' \in Int /\ Sent(d) <= Sent(d)',
           \A u \in Tasks' : u \in TaskRecs /\ (~u.eos => u.chunks # <<>>),
           \A u \in Tasks' : Pending(u) /\ ~u.eos =>
               \/ Sent(u.drv) <= Lo(u)
               \/ \E t \in Tasks : Pending(t) /\ ~t.eos /\ t.drv = u.drv /\ Lo(t) = Lo(u)
    PROVE  \A c \in Chunks : Past(c) => Past(c)'
<1> SUFFICES ASSUME NEW c \in Chunks, Past(c) PROVE Past(c)'
    OBVIOUS
<1>1. c[1] \in Sinks /\ c[2] \in Int BY SetupFacts DEF Chunks
<1>2. c[2] <= Sent(c[1])'
    <2>1. c[2] <= Sent(c[1]) BY DEF Past
    <2> PICK x : x = c[1] OBVIOUS
    <2>2. x \in Sinks /\ c[2] <= Sent(x) BY <1>1, <2>1
    <2>3. c[2] <= Sent(x)' BY <1>1, <2>2
    <2> QED BY <2>3
<1>3. ASSUME NEW u \in Tasks', Pending(u), ~u.eos, u.drv = c[1] PROVE c[2] <= Lo(u)
    <2>1. Lo(u) \in Int BY <1>3, TaskBounds
    <2>2. CASE Sent(u.drv) <= Lo(u)
        <3>1. c[2] <= Sent(c[1]) /\ Sent(c[1]) \in Int BY <1>1 DEF Past
        <3> QED BY <1>1, <1>3, <2>1, <2>2, <3>1
    <2>3. CASE \E t \in Tasks : Pending(t) /\ ~t.eos /\ t.drv = u.drv /\ Lo(t) = Lo(u)
        BY <1>3, <2>3 DEF Past
    <2> QED BY <1>3, <2>2, <2>3
<1> QED BY <1>2, <1>3 DEF Past

\* The order is kept while the receiving half stands still ...
LEMMA OrderKeep ==
    ASSUME OrderOK, setup' = setup, UNCHANGED <<got, rcv, frag>>,
           \A c \in Chunks : Past(c) => Past(c)'
    PROVE  OrderOK'
<1>1. Chunks' = Chunks /\ MaxReceivers' = MaxReceivers BY SameSets
<1>2. AllPast(got)' BY <1>1 DEF OrderOK, AllPast
<1>3. InOrder(got)' BY DEF OrderOK, InOrder
<1>4. ASSUME NEW g \in 1 .. MaxReceivers
      PROVE  /\ AllPast(rcv[g].chunks)' /\ InOrder(rcv[g].chunks)'
             /\ (Up /\ ~rcv[g].canceled => Follows(got, rcv[g].chunks))'
    <2>1. AllPast(rcv[g].chunks)' BY <1>1 DEF OrderOK, AllPast
    <2>2. InOrder(rcv[g].chunks)' BY DEF OrderOK, InOrder
    <2>3. (Up /\ ~rcv[g].canceled => Follows(got, rcv[g].chunks))' BY DEF OrderOK, Follows, Up
    <2> QED BY <2>1, <2>2, <2>3
<1> QED BY <1>1, <1>2, <1>3, <1>4 DEF OrderOK

\* ... and nothing is lost while every task on its way stays on its way.
LEMMA LiveKeep ==
    ASSUME LiveOK, setup' = setup,
           UNCHANGED <<entry, made, tomb, rcv, frag, got, told, aborted, lost>>,
           \A d \in Sinks : \A k \in 1 .. Sent(d)' : k \in 1 .. Sent(d) \/ OnItsWay(d, k)',
           \A d \in Sinks : \A k \in Nat : OnItsWay(d, k) => OnItsWay(d, k)',
           \A d \in Sinks : Sent(d)' \in Int
    PROVE  LiveOK'
<1> SUFFICES ASSUME Live' PROVE (OneReceiver /\ NothingLost /\ FinishedArrived)'
    BY DEF LiveOK
<1>0. Sinks' = Sinks /\ SenderOf' = SenderOf /\ MaxReceivers' = MaxReceivers
      /\ ChunksPerSink' = ChunksPerSink
    BY SameSets
<1>1. Live /\ OneReceiver /\ NothingLost /\ FinishedArrived BY DEF LiveOK, Live, Canceled, Up
<1>2. \A c : Arrived(c)' <=> Arrived(c) BY DEF Arrived
<1>3. OneReceiver' BY <1>0, <1>1 DEF OneReceiver
<1>4. NothingLost'
    <2> SUFFICES ASSUME NEW d \in Sinks, SenderOf[d] \notin lost, NEW k \in 1 .. Sent(d)'
                 PROVE  Arrived(<<d, k>>)' \/ OnItsWay(d, k)'
        BY <1>0 DEF NothingLost
    <2>1. k \in Nat OBVIOUS
    <2>2. CASE k \in 1 .. Sent(d)
        <3>1. Arrived(<<d, k>>) \/ OnItsWay(d, k) BY <1>1, <2>2 DEF NothingLost
        <3> QED BY <1>2, <2>1, <3>1
    <2> QED BY <2>2
<1>5. FinishedArrived'
    <2>1. \A s : AllChunks(s)' = AllChunks(s) BY <1>0 DEF AllChunks, SinksOf
    <2> QED BY <1>1, <1>2, <2>1 DEF FinishedArrived
<1> QED BY <1>3, <1>4, <1>5

RecvSame == UNCHANGED <<entry, made, tomb, rcv, frag, src, hnd, got, told, aborted, lost>>

LEMMA EndKeep ==
    ASSUME EndMeansAll, setup' = setup, RecvSame
    PROVE  EndMeansAll'
<1>1. Sources' = Sources /\ Senders' = Senders /\ Sinks' = Sinks /\ SenderOf' = SenderOf
      /\ ChunksPerSink' = ChunksPerSink
    BY SameSets
<1>2. \A s : AllChunks(s)' = AllChunks(s) BY <1>1 DEF AllChunks, SinksOf
<1>3. Popped' = Popped /\ Canceled' = Canceled BY DEF Popped, Canceled, RecvSame
<1> QED BY <1>1, <1>2, <1>3 DEF EndMeansAll, RecvSame

\* Sink d hands the tasks out to the queue, after everything it sent before.
LEMMA SendsKeep ==
    ASSUME ExInv, setup' = setup, RecvSame, NEW d \in Sinks,
           NEW out \in Seq(TaskRecs), EnqueueTasks(d, out), left[SenderOf[d]] # 0,
           \A x \in Sinks : x # d => Sent(x)' = Sent(x),
           Sent(d)' \in Int, Sent(d) <= Sent(d)',
           \A s \in Senders : s # SenderOf[d] => left'[s] = left[s],
           \A i \in 1 .. Len(out) :
               /\ out[i].drv = d /\ out[i].pc = "send" /\ out[i].at = 0
               /\ ~out[i].eos => Sent(d) <= Lo(out[i]),
           \A t \in TaskRecs : (\E i \in 1 .. Len(out) : t = out[i]) => TaskOK(t)',
           \A i, j \in 1 .. Len(out) : i < j => Before(out[i], out[j]),
           \A k \in Nat : Sent(d) < k /\ k <= Sent(d)' =>
               \E i \in 1 .. Len(out) : ~out[i].eos /\ Lo(out[i]) < k /\ k <= Hi(out[i])
    PROVE  /\ lane' \in [Senders -> Seq(TaskRecs)] /\ io' \subseteq TaskRecs /\ busy' \subseteq Senders
           /\ TasksOK' /\ QueueOK' /\ RecvOK' /\ OrderOK' /\ LiveOK' /\ EndMeansAll'
<1>0. /\ SendShape /\ SinkOK /\ TasksOK /\ QueueOK /\ RecvOK /\ OrderOK /\ LiveOK /\ EndMeansAll
      /\ setup \in Setups
    BY DEF ExInv, SendShape
<1>1. \A x \in Sinks : Sent(x) \in Int /\ Sent(x)' \in Int /\ Sent(x) <= Sent(x)'
    BY <1>0, SentInt
<1>2. \A t \in Tasks : /\ t \in TaskRecs /\ TaskOK(t) /\ t.drv \in Sinks /\ SenderOf[t.drv] \in Senders
                       /\ t \notin io => t.pc = "send" /\ t.at = 0
    BY <1>0, TaskFacts
<1>3. \A i \in 1 .. Len(out) : out[i] \in TaskRecs BY ElementOfSeq
<1>4. Sinks' = Sinks /\ SenderOf' = SenderOf /\ TaskRecs' = TaskRecs /\ Senders' = Senders BY SameSets
<1>5. \A t \in Tasks : TaskOK(t)'
    <2> SUFFICES ASSUME NEW t \in Tasks PROVE TaskOK(t)'
        OBVIOUS
    <2>1. t \in TaskRecs /\ TaskOK(t) /\ t.drv \in Sinks /\ SenderOf[t.drv] \in Senders BY <1>2
    <2>2. CASE t.eos
        <3>1. t.chunks = <<>> /\ left[SenderOf[t.drv]] = 0 BY <2>1, <2>2 DEF TaskOK
        <3>2. left'[SenderOf[t.drv]] = 0 BY <2>1, <3>1
        <3> QED BY <1>4, <2>2, <3>1, <3>2 DEF TaskOK
    <2>3. CASE ~t.eos
        <3>1. t.chunks # <<>> /\ Run(t.drv, t.chunks, Lo(t)) /\ Hi(t) <= Sent(t.drv)
            BY <2>1, <2>3 DEF TaskOK
        <3>2. Hi(t) \in Int BY <1>0, <2>1, <3>1, TaskBounds
        <3> PICK x : x = t.drv OBVIOUS
        <3>3. Hi(t) <= Sent(x)' BY <1>1, <2>1, <3>1, <3>2
        <3> QED BY <2>3, <3>1, <3>3 DEF TaskOK
    <2> QED BY <2>2, <2>3
<1>6. \A t \in Tasks : SenderOf[t.drv] = SenderOf[d] => \A i \in 1 .. Len(out) : Before(t, out[i])
    <2> SUFFICES ASSUME NEW t \in Tasks, SenderOf[t.drv] = SenderOf[d], NEW i \in 1 .. Len(out)
                 PROVE  Before(t, out[i])
        OBVIOUS
    <2>1. ~t.eos BY <1>2 DEF TaskOK
    <2>2. ASSUME t.drv = out[i].drv, ~out[i].eos PROVE Hi(t) <= Lo(out[i])
        <3>1. t.drv = d /\ Sent(d) <= Lo(out[i]) BY <2>2
        <3>2. t.chunks # <<>> /\ Hi(t) <= Sent(d) BY <1>2, <2>1, <3>1 DEF TaskOK
        <3>3. Hi(t) \in Int BY <1>0, <1>2, <3>2, TaskBounds
        <3>4. out[i].chunks # <<>>
            <4> PICK u : u = out[i] OBVIOUS
            <4>1. TaskOK(u)' BY <1>3
            <4> QED BY <2>2, <4>1 DEF TaskOK
        <3>5. Lo(out[i]) \in Int BY <1>0, <1>3, <3>4, TaskBounds
        <3> QED BY <1>1, <3>1, <3>2, <3>3, <3>5
    <2> QED BY <2>1, <2>2 DEF Before
<1>7. /\ QueueOK'
      /\ lane' \in [Senders -> Seq(TaskRecs)] /\ io' \subseteq TaskRecs /\ busy' \subseteq Senders
      /\ \A t : t \in Tasks' <=> t \in Tasks \/ \E i \in 1 .. Len(out) : t = out[i]
      /\ \A t \in io' : t \in io \/ (t.at = 0 /\ t.pc = "send")
    BY <1>0, <1>6, EnqueueKeeps
<1>8. \A t \in Tasks' : t \in TaskRecs /\ TaskOK(t)'
    BY <1>2, <1>3, <1>5, <1>7
<1>9. TasksOK' BY <1>8 DEF TasksOK
<1>10. RecvOK'
    <2>1. /\ Sources' = Sources /\ Senders' = Senders /\ RcvRecs' = RcvRecs /\ Chunks' = Chunks
          /\ MaxReceivers' = MaxReceivers
        BY SameSets
    <2>2. RecvShape' BY <1>0, <2>1 DEF RecvOK, RecvShape, RecvSame
    <2>3. made \in Nat BY <1>0, SetupFacts DEF RecvOK, RecvShape
    <2>4. \A t \in io' : t.at <= made /\ (t.pc \in {"meta", "push"} => t.at >= 1)
        BY <1>0, <1>7, <2>3 DEF RecvOK
    <2> QED BY <1>0, <2>1, <2>2, <2>4 DEF RecvOK, Up, RecvSame
<1>11. OrderOK'
    <2>1. \A u \in Tasks' : u \in TaskRecs /\ (~u.eos => u.chunks # <<>>)
        BY <1>8 DEF TaskOK
    <2>2. \A u \in Tasks' : Pending(u) /\ ~u.eos =>
             \/ Sent(u.drv) <= Lo(u)
             \/ \E t \in Tasks : Pending(t) /\ ~t.eos /\ t.drv = u.drv /\ Lo(t) = Lo(u)
        BY <1>7
    <2>3. \A c \in Chunks : Past(c) => Past(c)' BY <1>0, <1>1, <2>1, <2>2, PastKeep
    <2> QED BY <1>0, <2>3, OrderKeep DEF RecvSame
<1>12. LiveOK'
    <2>1. \A x \in Sinks : \A k \in Nat : OnItsWay(x, k) => OnItsWay(x, k)'
        BY <1>7 DEF OnItsWay
    <2>2. ASSUME NEW x \in Sinks, NEW k \in 1 .. Sent(x)'
          PROVE  k \in 1 .. Sent(x) \/ OnItsWay(x, k)'
        <3>1. CASE x # d BY <3>1
        <3>2. CASE x = d
            <4>1. SUFFICES ASSUME Sent(d) < k PROVE OnItsWay(x, k)'
                BY <1>1, <3>2
            <4>2. k \in Nat /\ k <= Sent(d)' BY <1>1, <3>2
            <4>3. PICK i \in 1 .. Len(out) : ~out[i].eos /\ Lo(out[i]) < k /\ k <= Hi(out[i])
                BY <4>1, <4>2
            <4>4. out[i] \in Tasks' /\ Pending(out[i]) /\ out[i].drv = x BY <1>7, <3>2 DEF Pending
            <4> QED BY <4>3, <4>4 DEF OnItsWay
        <3> QED BY <3>1, <3>2
    <2> QED BY <1>0, <1>1, <2>1, <2>2, LiveKeep DEF RecvSame
<1>13. EndMeansAll' BY <1>0, EndKeep
<1> QED BY <1>7, <1>9, <1>10, <1>11, <1>12, <1>13

-----------------------------------------------------------------------------
(* The sinks *)

LEMMA UncountedFinite ==
    ASSUME setup \in Setups, NEW s
    PROVE  IsFiniteSet(Uncounted(s)) /\ Cardinality(Uncounted(s)) \in Nat
<1>1. Uncounted(s) \subseteq Sinks BY DEF Uncounted, SinksOf
<1>2. IsFiniteSet(Uncounted(s)) BY <1>1, SetupFacts, FS_Subset
<1> QED BY <1>2, FS_CardinalityType

\* While a sink may still send, its sender's count has not reached zero.
LEMMA StillCounted ==
    ASSUME SendShape, SinkOK, NEW d \in Sinks, sink[d] \in Buffered
    PROVE  left[SenderOf[d]] # 0 /\ SenderOf[d] \in Senders
<1>0. setup \in Setups /\ left \in [Senders -> Nat] BY DEF SendShape
<1>1. SenderOf[d] \in Senders BY <1>0, SetupFacts
<1>2. d \in Uncounted(SenderOf[d]) BY DEF Uncounted, SinksOf
<1>3. /\ IsFiniteSet(Uncounted(SenderOf[d]))
      /\ Cardinality(Uncounted(SenderOf[d])) \in Nat
    BY <1>0, UncountedFinite
<1>4. Cardinality(Uncounted(SenderOf[d])) # 0 BY <1>2, <1>3, FS_EmptySet
<1>5. Cardinality(Uncounted(SenderOf[d])) <= left[SenderOf[d]] BY <1>1 DEF SinkOK
<1> QED BY <1>0, <1>1, <1>3, <1>4, <1>5

LEMMA FewerUncounted ==
    ASSUME SendShape, SinkOK, setup' = setup, NEW s \in Senders, left'[s] = left[s],
           Uncounted(s)' \subseteq Uncounted(s)
    PROVE  Cardinality(Uncounted(s))' <= left'[s]
<1>0. setup \in Setups /\ left \in [Senders -> Nat] BY DEF SendShape
<1>1. IsFiniteSet(Uncounted(s)) /\ Cardinality(Uncounted(s)) \in Nat BY <1>0, UncountedFinite
<1> PICK U, V : U = Uncounted(s) /\ V = Uncounted(s)' OBVIOUS
<1>2. IsFiniteSet(V) /\ Cardinality(V) <= Cardinality(U) BY <1>1, FS_Subset
<1>3. Cardinality(V) \in Nat BY <1>2, FS_CardinalityType
<1>4. Cardinality(U) <= left[s] BY DEF SinkOK
<1> QED BY <1>0, <1>1, <1>2, <1>3, <1>4

LEMMA StartFlush ==
    ASSUME SendShape, SinkOK, NEW d \in Sinks
    PROVE  Sent(d) \in Nat /\ FlushOK(d, pushed[d], Sent(d), Buffers(d))
<1>1. /\ pend[d] \in Seq(Chunks) /\ pay[d] \in TaskRecs \cup {NoPayload} /\ meta[d] \in BOOLEAN
      /\ inflight \in Int
    BY DEF SendShape
<1>2. Sent(d) \in Nat BY SentInt DEF SinkOK, BuffersOK
<1>3. /\ Buffers(d).pend = pend[d] /\ Buffers(d).pay = pay[d] /\ Buffers(d).out = <<>>
      /\ Buffers(d) \in FlushRecs
    BY <1>1, EmptySeq DEF Buffers, FlushRecs
<1>4. BuffersOK(d) BY DEF SinkOK
<1>5. SentBy(pushed[d], pend[d], pay[d]) = Sent(d) BY DEF Sent
<1>6. OutOK(d, <<>>, Sent(d), Sent(d)) BY <1>2, EmptySeq DEF OutOK
<1>7. PartsOK(d, pushed[d], Sent(d), pend[d], pay[d], <<>>)
    BY <1>2, <1>4, <1>5, <1>6 DEF PartsOK, BuffersOK
<1> QED BY <1>2, <1>3, <1>7 DEF FlushOK

\* push_chunk puts the next chunk behind the pending ones.
LEMMA PushOnto ==
    ASSUME setup \in Setups, NEW d \in Sinks, NEW n \in Nat, NEW m \in Nat,
           n + 1 <= ChunksPerSink, NEW f, FlushOK(d, n, m, f)
    PROVE  FlushOK(d, n + 1, m, [f EXCEPT !.pend = Append(@, <<d, n + 1>>)])
<1> DEFINE long == Append(f.pend, <<d, n + 1>>)
           g == [f EXCEPT !.pend = long]
<1>1. /\ f \in FlushRecs /\ f.pend \in Seq(Chunks) /\ f.pay \in TaskRecs \cup {NoPayload}
    BY DEF FlushOK, FlushRecs
<1>2. <<d, n + 1>> \in Chunks BY SetupFacts DEF Chunks
<1>3. /\ long \in Seq(Chunks) /\ Len(long) = Len(f.pend) + 1
      /\ \A i \in 1 .. Len(f.pend) : long[i] = f.pend[i]
      /\ long[Len(f.pend) + 1] = <<d, n + 1>>
    BY <1>1, <1>2, AppendProperties
<1>4. Len(f.pend) \in Nat BY <1>1, LenProperties
<1> HIDE DEF long
<1>5. g \in FlushRecs /\ g.pend = long /\ g.pay = f.pay /\ g.out = f.out
    BY <1>1, <1>3 DEF FlushRecs
<1>6. SentBy(n + 1, long, f.pay) = SentBy(n, f.pend, f.pay)
    <2>1. SentBy(n, f.pend, f.pay) \in Int BY <1>1, SentByInt
    <2>2. CASE f.pay = NoPayload BY <1>3, <1>4, <2>2 DEF SentBy, PayLen
    <2>3. CASE f.pay # NoPayload
        <3>1. f.pay.chunks \in Seq(Chunks) BY <1>1, <2>3 DEF TaskRecs
        <3>2. PayLen(f.pay) \in Nat BY <2>3, <3>1, LenProperties DEF PayLen
        <3>3. \A a, b \in Nat : (n + 1) - (a + 1) - b = n - a - b OBVIOUS
        <3> QED BY <1>3, <1>4, <3>2, <3>3 DEF SentBy
    <2> QED BY <2>2, <2>3
<1>7. Run(d, long, (n + 1) - Len(long))
    <2>1. Run(d, f.pend, n - Len(f.pend)) BY DEF FlushOK, PartsOK
    <2>2. (n + 1) - Len(long) = n - Len(f.pend) BY <1>3, <1>4
    <2>3. (n - Len(f.pend)) + (Len(f.pend) + 1) = n + 1
        <3>1. \A a \in Nat : (n - a) + (a + 1) = n + 1 OBVIOUS
        <3> QED BY <1>4, <3>1
    <2> SUFFICES ASSUME NEW i \in 1 .. Len(long) PROVE long[i] = <<d, (n - Len(f.pend)) + i>>
        BY <2>2 DEF Run
    <2>4. CASE i \in 1 .. Len(f.pend) BY <1>3, <2>1, <2>4 DEF Run
    <2>5. CASE i = Len(f.pend) + 1 BY <1>3, <2>3, <2>5
    <2>6. i \in 1 .. Len(f.pend) \/ i = Len(f.pend) + 1
        <3>1. \A a \in Nat : \A j \in 1 .. (a + 1) : j \in 1 .. a \/ j = a + 1 OBVIOUS
        <3> QED BY <1>3, <1>4, <3>1
    <2> QED BY <2>4, <2>5, <2>6
<1>8. PartsOK(d, n + 1, m, long, f.pay, f.out)
    BY <1>6, <1>7 DEF FlushOK, PartsOK
<1>9. FlushOK(d, n + 1, m, g) BY <1>5, <1>8 DEF FlushOK
<1> QED BY <1>9 DEF g, long

\* A flush step of a sink that has not counted down yet.
LEMMA FlushStep ==
    ASSUME ExInv, setup' = setup, RecvSame, NEW d \in Sinks, NEW n \in 0 .. ChunksPerSink,
           NEW f, FlushOK(d, n, Sent(d), f), Store(d, f),
           pushed' = [pushed EXCEPT ![d] = n], UNCHANGED <<left, err>>,
           NEW v \in {"open", "flushed"}, sink' = [sink EXCEPT ![d] = v],
           sink[d] \in Buffered,
           v = "flushed" => n = ChunksPerSink /\ f.pend = <<>> /\ f.pay = NoPayload
    PROVE  ExInv'
<1>0. /\ SendShape /\ SinkOK /\ setup \in Setups BY DEF ExInv, SendShape
<1> PICK out : out = f.out OBVIOUS
<1>1. /\ f.pend \in Seq(Chunks) /\ f.pay \in TaskRecs \cup {NoPayload} /\ f.meta \in BOOLEAN
      /\ f.inflight \in Int /\ out \in Seq(TaskRecs)
    BY DEF FlushOK, FlushRecs
<1>2. /\ pushed \in [Sinks -> 0 .. ChunksPerSink] /\ sink \in [Sinks -> SinkStates]
      /\ pend \in [Sinks -> Seq(Chunks)] /\ pay \in [Sinks -> TaskRecs \cup {NoPayload}]
      /\ meta \in [Sinks -> BOOLEAN] /\ track \in [Sinks -> Int]
      /\ left \in [Senders -> Nat] /\ err \in [Senders -> BOOLEAN]
    BY <1>0 DEF SendShape
<1>3. /\ pend' = [pend EXCEPT ![d] = f.pend] /\ pay' = [pay EXCEPT ![d] = f.pay]
      /\ meta' = [meta EXCEPT ![d] = f.meta] /\ inflight' = f.inflight
      /\ track' = [track EXCEPT ![d] = @ + Len(out)] /\ EnqueueTasks(d, out)
    BY DEF Store, EnqueueTasks
<1>4. /\ Sinks' = Sinks /\ SenderOf' = SenderOf /\ TaskRecs' = TaskRecs /\ Senders' = Senders
      /\ Chunks' = Chunks /\ ChunksPerSink' = ChunksPerSink
    BY SameSets
<1>5. \A x \in Sinks : x # d =>
         /\ pushed'[x] = pushed[x] /\ pend'[x] = pend[x] /\ pay'[x] = pay[x] /\ sink'[x] = sink[x]
    BY <1>2, <1>3
<1>6. pushed'[d] = n /\ pend'[d] = f.pend /\ pay'[d] = f.pay /\ sink'[d] = v
    BY <1>2, <1>3
<1>7. \A x \in Sinks : x # d => Sent(x)' = Sent(x) BY <1>5 DEF Sent
<1>8. Sent(d)' = SentBy(n, f.pend, f.pay) BY <1>6 DEF Sent
<1>9. n \in Int /\ n \in Nat BY SetupFacts, <1>0
<1>10. Sent(d)' \in Int /\ Sent(d) \in Nat /\ Sent(d) <= Sent(d)'
    BY <1>0, <1>1, <1>8, <1>9, SentByInt, StartFlush DEF FlushOK, PartsOK
<1>11. PartsOK(d, n, Sent(d), f.pend, f.pay, out) BY DEF FlushOK
<1>12. OutOK(d, out, Sent(d), Sent(d)') BY <1>8, <1>11 DEF PartsOK
<1>13. left[SenderOf[d]] # 0 BY <1>0, StillCounted
<1>14. \A i \in 1 .. Len(out) : out[i] \in TaskRecs /\ OutTask(d, out[i], Sent(d), Sent(d)')
    BY <1>1, <1>12, ElementOfSeq DEF OutOK
<1>15. \A i \in 1 .. Len(out) :
         /\ out[i].drv = d /\ out[i].pc = "send" /\ out[i].at = 0
         /\ ~out[i].eos => Sent(d) <= Lo(out[i])
    BY <1>14 DEF OutTask
<1>16. \A t \in TaskRecs : (\E i \in 1 .. Len(out) : t = out[i]) => TaskOK(t)'
    <2> SUFFICES ASSUME NEW t \in TaskRecs, OutTask(d, t, Sent(d), Sent(d)') PROVE TaskOK(t)'
        BY <1>14
    <2> QED BY DEF OutTask, TaskOK
<1>17. \A i, j \in 1 .. Len(out) : i < j => Before(out[i], out[j])
    BY <1>12, <1>14 DEF OutOK, OutTask, Before
<1>18. \A k \in Nat : Sent(d) < k /\ k <= Sent(d)' =>
          \E i \in 1 .. Len(out) : ~out[i].eos /\ Lo(out[i]) < k /\ k <= Hi(out[i])
    <2> SUFFICES ASSUME NEW k \in Nat, Sent(d) < k, k <= Sent(d)'
                 PROVE  \E i \in 1 .. Len(out) : ~out[i].eos /\ Lo(out[i]) < k /\ k <= Hi(out[i])
        OBVIOUS
    <2>1. k \in (Sent(d) + 1) .. Sent(d)' BY <1>10
    <2> QED BY <1>12, <1>14, <2>1 DEF OutOK, OutTask
<1>19. /\ lane' \in [Senders -> Seq(TaskRecs)] /\ io' \subseteq TaskRecs /\ busy' \subseteq Senders
       /\ TasksOK' /\ QueueOK' /\ RecvOK' /\ OrderOK' /\ LiveOK' /\ EndMeansAll'
    BY <1>1, <1>3, <1>7, <1>10, <1>13, <1>15, <1>16, <1>17, <1>18, SendsKeep
<1>20. SendShape'
    <2>1. pushed' \in [Sinks -> 0 .. ChunksPerSink] /\ sink' \in [Sinks -> SinkStates]
        BY <1>2 DEF SinkStates
    <2>2. /\ pend' \in [Sinks -> Seq(Chunks)] /\ pay' \in [Sinks -> TaskRecs \cup {NoPayload}]
          /\ meta' \in [Sinks -> BOOLEAN] /\ inflight' \in Int
        BY <1>1, <1>2, <1>3
    <2>3. track' \in [Sinks -> Int]
        <3>1. Len(out) \in Int BY <1>1, LenProperties
        <3> QED BY <1>2, <1>3, <3>1
    <2> QED BY <1>0, <1>2, <1>4, <1>19, <2>1, <2>2, <2>3 DEF SendShape
<1>21. SinkOK'
    <2>1. BuffersOK(d)'
        BY <1>4, <1>6, <1>8, <1>10, <1>11 DEF BuffersOK, PartsOK, Drained
    <2>2. ASSUME NEW x \in Sinks, x # d PROVE BuffersOK(x)'
        <3>1. BuffersOK(x) BY <1>0 DEF SinkOK
        <3> QED BY <1>4, <1>5, <1>7, <2>2, <3>1 DEF BuffersOK, Drained
    <2>3. ASSUME NEW s \in Senders PROVE Cardinality(Uncounted(s))' <= left'[s]
        <3>1. Uncounted(s)' \subseteq Uncounted(s)
            BY <1>4, <1>5 DEF Uncounted, SinksOf, Drained
        <3> QED BY <1>0, <3>1, FewerUncounted
    <2> QED BY <1>4, <2>1, <2>2, <2>3 DEF SinkOK
<1> QED BY <1>19, <1>20, <1>21 DEF ExInv

\* The queue and what the sinks have sent stay as they are.
SendSame == UNCHANGED <<setup, pushed, pend, pay, left, lane, busy, io>>

LEMMA SendFrame ==
    ASSUME SendShape, TasksOK, QueueOK, SendSame
    PROVE  /\ TasksOK' /\ QueueOK' /\ Tasks' = Tasks
           /\ \A d : Sent(d)' = Sent(d)
           /\ \A c : Past(c) => Past(c)'
           /\ \A d, k : OnItsWay(d, k) => OnItsWay(d, k)'
<1>1. /\ Sinks' = Sinks /\ SenderOf' = SenderOf /\ Senders' = Senders
    BY SameSets DEF SendSame
<1>2. Tasks' = Tasks BY <1>1 DEF Tasks, SendSame
<1>3. \A d : Sent(d)' = Sent(d) BY DEF Sent, SendSame
<1>4. \A t : TaskOK(t) => TaskOK(t)' BY <1>1, <1>3 DEF TaskOK, SendSame
<1>5. TasksOK' BY <1>2, <1>4 DEF TasksOK
<1>6. QueueOK'
    <2>1. \A s \in Senders : LaneOK(s)' BY <1>1 DEF QueueOK, LaneOK, SendSame
    <2> QED BY <1>1, <2>1 DEF QueueOK, SendSame
<1>7. \A c : Past(c) => Past(c)'
    <2> SUFFICES ASSUME NEW c, Past(c) PROVE Past(c)'
        OBVIOUS
    <2> PICK x : x = c[1] OBVIOUS
    <2>1. Sent(x)' = Sent(x) BY <1>3
    <2> QED BY <1>2, <2>1 DEF Past
<1>8. \A d, k : OnItsWay(d, k) => OnItsWay(d, k)' BY <1>2 DEF OnItsWay
<1> QED BY <1>2, <1>3, <1>5, <1>6, <1>7, <1>8

\* A driver moves on and touches nothing that others see.
LEMMA SinkMoves ==
    ASSUME ExInv, SendSame, RecvSame, NEW d \in Sinks, NEW v \in SinkStates,
           sink' = [sink EXCEPT ![d] = v], UNCHANGED <<meta, inflight, track>>,
           err' \in [Senders -> BOOLEAN],
           v \in Buffered => sink[d] \in Buffered,
           v \in {"flushed", "finishing", "checked", "finished"} => Drained(d),
           v = "asked" => pushed[d] < ChunksPerSink
    PROVE  ExInv'
<1>0. /\ SendShape /\ SinkOK /\ TasksOK /\ QueueOK /\ RecvOK /\ OrderOK /\ LiveOK /\ EndMeansAll
      /\ setup \in Setups /\ setup' = setup
    BY DEF ExInv, SendShape, SendSame
<1>1. /\ Sinks' = Sinks /\ SenderOf' = SenderOf /\ Senders' = Senders /\ TaskRecs' = TaskRecs
      /\ Chunks' = Chunks /\ ChunksPerSink' = ChunksPerSink /\ Sources' = Sources
      /\ RcvRecs' = RcvRecs /\ MaxReceivers' = MaxReceivers
    BY <1>0, SameSets
<1>2. /\ TasksOK' /\ QueueOK' /\ Tasks' = Tasks
      /\ \A x : Sent(x)' = Sent(x)
      /\ \A c : Past(c) => Past(c)'
      /\ \A x, k : OnItsWay(x, k) => OnItsWay(x, k)'
    BY <1>0, SendFrame
<1>3. sink \in [Sinks -> SinkStates] BY <1>0 DEF SendShape
<1>4. SendShape'
    <2>1. sink' \in [Sinks -> SinkStates] BY <1>3
    <2> QED BY <1>0, <1>1, <2>1 DEF SendShape, SendSame
<1>5. SinkOK'
    <2>1. ASSUME NEW x \in Sinks PROVE BuffersOK(x)'
        <3>1. BuffersOK(x) /\ Sent(x)' = Sent(x) /\ (Drained(x)' <=> Drained(x))
            BY <1>0, <1>1, <1>2 DEF SinkOK, Drained, SendSame
        <3>2. sink'[x] = IF x = d THEN v ELSE sink[x] BY <1>3
        <3> QED BY <1>1, <3>1, <3>2 DEF BuffersOK, SendSame
    <2>2. ASSUME NEW s \in Senders PROVE Cardinality(Uncounted(s))' <= left'[s]
        <3>1. Uncounted(s)' \subseteq Uncounted(s)
            BY <1>1, <1>3 DEF Uncounted, SinksOf, Drained, SendSame
        <3> QED BY <1>0, <3>1, FewerUncounted DEF SendSame
    <2> QED BY <1>1, <2>1, <2>2 DEF SinkOK
<1>6. RecvOK'
    <2>1. RecvShape' BY <1>0, <1>1 DEF RecvOK, RecvShape, RecvSame
    <2> QED BY <1>0, <1>1, <2>1 DEF RecvOK, Up, RecvSame, SendSame
<1>7. OrderOK' BY <1>0, <1>2, OrderKeep DEF RecvSame
<1>8. LiveOK'
    <2>1. \A x \in Sinks : Sent(x)' \in Int BY <1>0, <1>2, SentInt
    <2>2. \A x \in Sinks : \A k \in 1 .. Sent(x)' : k \in 1 .. Sent(x) BY <1>2
    <2> QED BY <1>0, <1>2, <2>1, <2>2, LiveKeep DEF RecvSame
<1>9. EndMeansAll' BY <1>0, EndKeep
<1> QED BY <1>2, <1>4, <1>5, <1>6, <1>7, <1>8, <1>9 DEF ExInv

LEMMA PushChunkStep ==
    ASSUME ExInv, setup' = setup, RecvSame, NEW d \in Sinks, PushChunk(d)
    PROVE  ExInv'
<1>0. SendShape /\ SinkOK /\ setup \in Setups BY DEF ExInv, SendShape
<1>1. pushed[d] \in Nat /\ ChunksPerSink \in Nat BY <1>0, SetupFacts DEF SendShape
<1>2. sink[d] = "asked" /\ pushed[d] + 1 <= ChunksPerSink
    BY <1>0, <1>1 DEF PushChunk, SinkOK, BuffersOK
<1> PICK n, m, b : n = pushed[d] /\ m = Sent(d) /\ b = Buffers(d) OBVIOUS
<1>3. m \in Nat /\ FlushOK(d, n, m, b) BY <1>0, StartFlush
<1> PICK f : f = FlushPending(d, b) OBVIOUS
<1>4. FlushOK(d, n, m, f) BY <1>0, <1>1, <1>3, PendingOK
<1> PICK g : g = [f EXCEPT !.pend = Append(@, <<d, n + 1>>)] OBVIOUS
<1>5. FlushOK(d, n + 1, m, g) BY <1>0, <1>1, <1>2, <1>3, <1>4, PushOnto
<1> PICK h : h = FlushPending(d, g) OBVIOUS
<1>6. FlushOK(d, n + 1, m, h)
    <2>1. n + 1 \in Nat BY <1>1
    <2> QED BY <1>0, <1>3, <1>5, <2>1, PendingOK
<1>7. /\ Store(d, h) /\ pushed' = [pushed EXCEPT ![d] = n + 1]
      /\ sink' = [sink EXCEPT ![d] = "open"] /\ UNCHANGED <<left, err>>
    BY DEF PushChunk
<1>8. n + 1 \in 0 .. ChunksPerSink BY <1>1, <1>2
<1> QED BY <1>2, <1>6, <1>7, <1>8, FlushStep DEF Buffered

LEMMA SetFinishingStep ==
    ASSUME ExInv, setup' = setup, RecvSame, NEW d \in Sinks, SetFinishing(d)
    PROVE  ExInv'
<1>0. SendShape /\ SinkOK /\ setup \in Setups BY DEF ExInv, SendShape
<1>1. pushed[d] \in Nat /\ pushed[d] \in 0 .. ChunksPerSink BY <1>0, SetupFacts DEF SendShape
<1> PICK n, m, b : n = pushed[d] /\ m = Sent(d) /\ b = Buffers(d) OBVIOUS
<1>2. m \in Nat /\ FlushOK(d, n, m, b) BY <1>0, StartFlush
<1> PICK f : f = FlushForced(d, b) OBVIOUS
<1>3. FlushOK(d, n, m, f) /\ f.pend = <<>> /\ f.pay = NoPayload
    BY <1>0, <1>1, <1>2, ForcedOK
<1>4. /\ Store(d, f) /\ sink' = [sink EXCEPT ![d] = "flushed"] /\ UNCHANGED <<left, err>>
      /\ sink[d] = "open" /\ n = ChunksPerSink /\ UNCHANGED pushed
    BY DEF SetFinishing
<1>5. pushed' = [pushed EXCEPT ![d] = n]
    <2>1. pushed \in [Sinks -> 0 .. ChunksPerSink] BY <1>0 DEF SendShape
    <2> QED BY <1>4, <2>1
<1> QED BY <1>1, <1>3, <1>4, <1>5, FlushStep DEF Buffered

\* The driver that counts down to zero sends end-of-stream, the others nothing.
LEMMA CountDownSends ==
    ASSUME ExInv, setup' = setup, NEW d \in Sinks, CountDown(d)
    PROVE  /\ UNCHANGED <<pushed, pend, pay, err>> /\ meta' \in [Sinks -> BOOLEAN]
           /\ inflight' \in Int
           /\ \E out \in Seq(TaskRecs) :
                /\ EnqueueTasks(d, out) /\ Len(out) \in {0, 1}
                /\ \A i \in 1 .. Len(out) :
                      /\ out[i].drv = d /\ out[i].pc = "send" /\ out[i].at = 0
                      /\ out[i].eos /\ out[i].chunks = <<>> /\ left[SenderOf[d]] = 1
<1>0. SendShape /\ SinkOK /\ setup \in Setups BY DEF ExInv, SendShape
<1>1. /\ pend \in [Sinks -> Seq(Chunks)] /\ pay \in [Sinks -> TaskRecs \cup {NoPayload}]
      /\ meta \in [Sinks -> BOOLEAN] /\ track \in [Sinks -> Int] /\ inflight \in Int
    BY <1>0 DEF SendShape
<1>2. pay[d] = NoPayload BY <1>0 DEF CountDown, SinkOK, BuffersOK, Drained
<1>3. CASE left[SenderOf[d]] # 1
    <2>1. UNCHANGED <<pushed, pend, pay, meta, err, queueVars>> BY <1>3 DEF CountDown
    <2>2. Len(<<>>) = 0 /\ <<>> \in Seq(TaskRecs) BY EmptySeq
    <2>3. track' = [track EXCEPT ![d] = @ + Len(<<>>)] BY <1>1, <2>1, <2>2 DEF queueVars
    <2>4. EnqueueTasks(d, <<>>) BY <2>1, <2>3 DEF EnqueueTasks, queueVars
    <2>5. inflight' \in Int /\ meta' \in [Sinks -> BOOLEAN] BY <1>1, <2>1 DEF queueVars
    <2>6. \E out \in Seq(TaskRecs) :
                /\ EnqueueTasks(d, out) /\ Len(out) \in {0, 1}
                /\ \A i \in 1 .. Len(out) :
                      /\ out[i].drv = d /\ out[i].pc = "send" /\ out[i].at = 0
                      /\ out[i].eos /\ out[i].chunks = <<>> /\ left[SenderOf[d]] = 1
        <3> WITNESS <<>> \in Seq(TaskRecs)
        <3> QED BY <2>2, <2>4
    <2> QED BY <2>1, <2>5, <2>6
<1>4. CASE left[SenderOf[d]] = 1
    <2> DEFINE b == Buffers(d)
               p == Payload(d, <<>>, FALSE, TRUE)
               f == TryEnqueuePayload(b, p, TRUE)
    <2>1. Store(d, f) /\ UNCHANGED <<pushed, err>> BY <1>4 DEF CountDown
    <2>2. f = Enqueued(b, p, TRUE) BY DEF TryEnqueuePayload, Enqueued
    <2>3. /\ b.pend = pend[d] /\ b.pay = NoPayload /\ b.meta = meta[d] /\ b.inflight = inflight
          /\ b.out = <<>> /\ b \in FlushRecs
        BY <1>1, <1>2, EmptySeq DEF Buffers, FlushRecs
    <2>4. /\ p \in TaskRecs /\ p.drv = d /\ p.pc = "send" /\ p.at = 0 /\ p.eos /\ p.chunks = <<>>
        BY EmptySeq DEF Payload, TaskRecs, Places
    <2> HIDE DEF b, p
    <2> DEFINE q == [p EXCEPT !.over = TRUE]
    <2>5. /\ f.pend = pend[d] /\ f.pay = NoPayload /\ f.meta = meta[d]
          /\ f.inflight = inflight + Size(p) /\ f.out = Append(<<>>, q)
        BY <2>2, <2>3 DEF Enqueued, FlushRecs
    <2>6. Size(p) \in Nat BY <2>4, SizeNat
    <2>7. /\ q \in TaskRecs /\ q.drv = d /\ q.pc = "send" /\ q.at = 0 /\ q.eos /\ q.chunks = <<>>
        BY <2>4 DEF TaskRecs
    <2> HIDE DEF f, q
    <2>8. /\ f.out \in Seq(TaskRecs) /\ Len(f.out) = 1 /\ f.out[1] = q
        <3>1. <<>> \in Seq(TaskRecs) /\ Len(<<>>) = 0 BY EmptySeq
        <3>2. /\ Append(<<>>, q) \in Seq(TaskRecs) /\ Len(Append(<<>>, q)) = 0 + 1
              /\ Append(<<>>, q)[0 + 1] = q
            BY <2>7, <3>1, AppendProperties
        <3> QED BY <2>5, <3>2
    <2>9. /\ pend' = pend /\ pay' = pay /\ meta' \in [Sinks -> BOOLEAN] /\ inflight' \in Int
          /\ EnqueueTasks(d, f.out)
        BY <1>1, <1>2, <2>1, <2>5, <2>6 DEF Store
    <2>10. \E out \in Seq(TaskRecs) :
                /\ EnqueueTasks(d, out) /\ Len(out) \in {0, 1}
                /\ \A i \in 1 .. Len(out) :
                      /\ out[i].drv = d /\ out[i].pc = "send" /\ out[i].at = 0
                      /\ out[i].eos /\ out[i].chunks = <<>> /\ left[SenderOf[d]] = 1
        <3>1. \A i \in 1 .. Len(f.out) : f.out[i] = q BY <2>8
        <3> USE <2>8
        <3> WITNESS f.out \in Seq(TaskRecs)
        <3> QED BY <1>4, <2>7, <2>9, <3>1
    <2> QED BY <2>1, <2>9, <2>10
<1> QED BY <1>3, <1>4

LEMMA CountDownStep ==
    ASSUME ExInv, setup' = setup, RecvSame, NEW d \in Sinks, CountDown(d)
    PROVE  ExInv'
<1>0. SendShape /\ SinkOK /\ setup \in Setups BY DEF ExInv, SendShape
<1>1. PICK out \in Seq(TaskRecs) :
         /\ EnqueueTasks(d, out) /\ Len(out) \in {0, 1}
         /\ \A i \in 1 .. Len(out) :
               /\ out[i].drv = d /\ out[i].pc = "send" /\ out[i].at = 0
               /\ out[i].eos /\ out[i].chunks = <<>> /\ left[SenderOf[d]] = 1
    BY CountDownSends
<1>2. UNCHANGED <<pushed, pend, pay, err>> /\ meta' \in [Sinks -> BOOLEAN] /\ inflight' \in Int
    BY CountDownSends
<1> PICK s : s = SenderOf[d] OBVIOUS
<1>3. /\ sink[d] = "flushed" /\ sink' = [sink EXCEPT ![d] = "finishing"]
      /\ left' = [left EXCEPT ![s] = @ - 1]
    BY DEF CountDown
<1>4. left[s] # 0 /\ s \in Senders BY <1>0, <1>3, StillCounted DEF Buffered
<1>5. /\ left \in [Senders -> Nat] /\ sink \in [Sinks -> SinkStates] /\ track \in [Sinks -> Int]
    BY <1>0 DEF SendShape
<1>6. /\ left'[s] = left[s] - 1 /\ left[s] \in Nat
      /\ \A q \in Senders : q # s => left'[q] = left[q]
    BY <1>3, <1>4, <1>5
<1>7. /\ Sinks' = Sinks /\ SenderOf' = SenderOf /\ TaskRecs' = TaskRecs /\ Senders' = Senders
      /\ Chunks' = Chunks /\ ChunksPerSink' = ChunksPerSink
    BY SameSets
<1>8. \A x : Sent(x)' = Sent(x) BY <1>2 DEF Sent
<1>9. Sent(d) \in Int BY <1>0, SentInt
<1>10. \A t \in TaskRecs : (\E i \in 1 .. Len(out) : t = out[i]) => TaskOK(t)'
    <2> SUFFICES ASSUME NEW t \in TaskRecs, NEW i \in 1 .. Len(out), t = out[i] PROVE TaskOK(t)'
        OBVIOUS
    <2>1. t.eos /\ t.chunks = <<>> /\ t.drv = d /\ left[s] = 1 BY <1>1
    <2> QED BY <1>6, <1>7, <2>1 DEF TaskOK
<1>11. /\ lane' \in [Senders -> Seq(TaskRecs)] /\ io' \subseteq TaskRecs /\ busy' \subseteq Senders
       /\ TasksOK' /\ QueueOK' /\ RecvOK' /\ OrderOK' /\ LiveOK' /\ EndMeansAll'
    <2>1. \A i, j \in 1 .. Len(out) : i < j => Before(out[i], out[j]) BY <1>1
    <2>2. \A k \in Nat : ~(Sent(d) < k /\ k <= Sent(d)') BY <1>8, <1>9
    <2>3. Sent(d)' \in Int /\ Sent(d) <= Sent(d)' BY <1>8, <1>9
    <2>4. \A i \in 1 .. Len(out) :
               /\ out[i].drv = d /\ out[i].pc = "send" /\ out[i].at = 0
               /\ ~out[i].eos => Sent(d) <= Lo(out[i])
        BY <1>1
    <2> QED BY <1>1, <1>4, <1>6, <1>8, <1>10, <2>1, <2>2, <2>3, <2>4, SendsKeep
<1>12. SendShape'
    <2>1. sink' \in [Sinks -> SinkStates] /\ left' \in [Senders -> Nat]
        BY <1>3, <1>4, <1>5 DEF SinkStates
    <2>2. track' \in [Sinks -> Int]
        <3>1. Len(out) \in Int BY LenProperties
        <3> QED BY <1>1, <1>5, <3>1 DEF EnqueueTasks
    <2> QED BY <1>0, <1>2, <1>7, <1>11, <2>1, <2>2 DEF SendShape
<1>13. SinkOK'
    <2>1. \A x \in Sinks : sink'[x] = IF x = d THEN "finishing" ELSE sink[x] BY <1>3, <1>5
    <2>2. \A x : Drained(x)' <=> Drained(x) BY <1>2, <1>7 DEF Drained
    <2>3. \A x \in Sinks : BuffersOK(x) BY <1>0 DEF SinkOK
    <2>4. ASSUME NEW x \in Sinks PROVE BuffersOK(x)'
        <3>1. BuffersOK(x) /\ Sent(x)' = Sent(x) /\ (Drained(x)' <=> Drained(x)) BY <1>8, <2>2, <2>3
        <3>2. sink'[x] = "finishing" => Drained(x) BY <1>3, <2>1, <3>1 DEF BuffersOK
        <3> QED BY <1>2, <1>7, <2>1, <3>1, <3>2 DEF BuffersOK
    <2>5. ASSUME NEW q \in Senders, q # s PROVE Cardinality(Uncounted(q))' <= left'[q]
        <3>1. Uncounted(q)' \subseteq Uncounted(q)
            BY <1>7, <2>1, <2>2, <2>5 DEF Uncounted, SinksOf
        <3> QED BY <1>0, <1>6, <2>5, <3>1, FewerUncounted
    <2>6. Cardinality(Uncounted(s))' <= left'[s]
        <3>1. Drained(d) BY <1>3, <2>3 DEF BuffersOK
        <3> PICK U, V : U = Uncounted(s) /\ V = Uncounted(s)' OBVIOUS
        <3>2. d \in U BY <1>3 DEF Uncounted, SinksOf, Buffered
        <3>3. V = U \ {d}
            <4>1. \A x : x \in V <=> x \in Sinks /\ SenderOf[x] = s
                                     /\ (sink'[x] \in Buffered \/ ~Drained(x))
                BY <1>7, <2>2 DEF Uncounted, SinksOf
            <4>2. \A x : x \in U <=> x \in Sinks /\ SenderOf[x] = s
                                     /\ (sink[x] \in Buffered \/ ~Drained(x))
                BY DEF Uncounted, SinksOf
            <4> QED BY <2>1, <3>1, <4>1, <4>2 DEF Buffered
        <3>4. IsFiniteSet(U) /\ Cardinality(U) \in Nat BY <1>0, UncountedFinite
        <3>5. Cardinality(V) = Cardinality(U) - 1 BY <3>2, <3>3, <3>4, FS_RemoveElement
        <3>6. Cardinality(U) <= left[s] BY <1>0, <1>4 DEF SinkOK
        <3> QED BY <1>6, <3>4, <3>5, <3>6
    <2> QED BY <1>7, <2>4, <2>5, <2>6 DEF SinkOK
<1> QED BY <1>11, <1>12, <1>13 DEF ExInv

-----------------------------------------------------------------------------
(* The call *)

\* Task t goes on as u: a new place in the call, the same chunks.
SameTask(t, u) == u.drv = t.drv /\ u.chunks = t.chunks /\ u.eos = t.eos
QueueStill == UNCHANGED <<setup, pushed, pend, pay, left, lane, busy>>

LEMMA GoesQueue ==
    ASSUME SendShape, TasksOK, QueueOK, QueueStill,
           NEW t \in io, NEW u \in TaskRecs, SameTask(t, u), io' = (io \ {t}) \cup {u}
    PROVE  /\ TasksOK' /\ QueueOK' /\ io' \subseteq TaskRecs
           /\ \A d : Sent(d)' = Sent(d)
           /\ t \in Tasks /\ u \in Tasks' /\ t \in TaskRecs /\ TaskOK(t)
           /\ \A x \in Tasks' : x = u \/ x \in Tasks
           /\ \A x \in Tasks : x = t \/ x \in Tasks'
           /\ \A x \in Tasks' : x # u /\ SenderOf[x.drv] = SenderOf[t.drv] => Before(t, x)
<1>0. /\ lane \in [Senders -> Seq(TaskRecs)] /\ io \subseteq TaskRecs /\ setup \in Setups
      /\ setup' = setup /\ lane' = lane
    BY DEF SendShape, QueueStill
<1>1. Sinks' = Sinks /\ SenderOf' = SenderOf /\ Senders' = Senders BY <1>0, SameSets
<1>2. \A d : Sent(d)' = Sent(d) BY DEF Sent, QueueStill
<1>3. \A x : TaskOK(x) => TaskOK(x)' BY <1>1, <1>2 DEF TaskOK, QueueStill
<1>4. \A x : x \in Tasks <=> x \in io \/ \E s \in Senders : \E i \in 1 .. Len(lane[s]) : x = lane[s][i]
    BY <1>0, InTasks
<1>5. \A x : x \in Tasks' <=> x \in io' \/ \E s \in Senders : \E i \in 1 .. Len(lane[s]) : x = lane[s][i]
    BY <1>0, InTasksNext
<1>6. /\ t \in Tasks /\ u \in Tasks' /\ t \in TaskRecs /\ TaskOK(t)
      /\ \A x \in Tasks' : x = u \/ x \in Tasks
      /\ \A x \in Tasks : x = t \/ x \in Tasks'
    BY <1>0, <1>4, <1>5 DEF TasksOK
<1>7. TaskOK(u)
    BY <1>6 DEF TaskOK, SameTask, Lo, Hi
<1>8. TasksOK' BY <1>3, <1>6, <1>7 DEF TasksOK
<1>9. QueueOK'
    <2>1. \A x, y \in io' : SenderOf[x.drv] = SenderOf[y.drv] => x = y
        BY DEF QueueOK, SameTask
    <2>2. \A x \in io' : SenderOf[x.drv] \in busy BY DEF QueueOK, SameTask
    <2>3. \A s \in busy : \E x \in io' : SenderOf[x.drv] = s
        <3> SUFFICES ASSUME NEW s \in busy PROVE \E x \in io' : SenderOf[x.drv] = s
            OBVIOUS
        <3>1. PICK y \in io : SenderOf[y.drv] = s BY DEF QueueOK
        <3>2. CASE y = t BY <3>1, <3>2 DEF SameTask
        <3>3. CASE y # t BY <3>1, <3>3
        <3> QED BY <3>2, <3>3
    <2>4. ASSUME NEW s \in Senders PROVE LaneOK(s)'
        <3>1. LaneOK(s) BY DEF QueueOK
        <3>2. \A y : Before(t, y) => Before(u, y) BY DEF Before, SameTask, Lo, Hi
        <3>3. \A x \in io' : SenderOf[x.drv] = s =>
                 \A i \in 1 .. Len(lane[s]) : Before(x, lane[s][i])
            <4> SUFFICES ASSUME NEW x \in io', SenderOf[x.drv] = s, NEW i \in 1 .. Len(lane[s])
                         PROVE  Before(x, lane[s][i])
                OBVIOUS
            <4>1. CASE x = u
                <5>1. SenderOf[t.drv] = s BY <4>1 DEF SameTask
                <5>2. Before(t, lane[s][i]) BY <3>1, <5>1 DEF LaneOK
                <5> QED BY <3>2, <4>1, <5>2
            <4>2. CASE x \in io BY <3>1, <4>2 DEF LaneOK
            <4> QED BY <4>1, <4>2
        <3> QED BY <1>0, <1>1, <3>1, <3>3 DEF LaneOK
    <2> QED BY <1>0, <1>1, <2>1, <2>2, <2>3, <2>4 DEF QueueOK, QueueStill
<1>10. \A x \in Tasks' : x # u /\ SenderOf[x.drv] = SenderOf[t.drv] => Before(t, x)
    <2> SUFFICES ASSUME NEW x \in Tasks', x # u, SenderOf[x.drv] = SenderOf[t.drv]
                 PROVE  Before(t, x)
        OBVIOUS
    <2>1. x \notin io' BY DEF QueueOK
    <2>2. PICK s \in Senders : \E i \in 1 .. Len(lane[s]) : x = lane[s][i] BY <1>5, <2>1
    <2>3. LaneOK(s) BY DEF QueueOK
    <2> QED BY <2>2, <2>3 DEF LaneOK
<1>11. io' \subseteq TaskRecs BY <1>0
<1> QED BY <1>2, <1>6, <1>8, <1>9, <1>10, <1>11

\* get_or_create returns a receiver and keeps the others as they are.
LEMMA GetFacts ==
    ASSUME setup \in Setups, RecvShape, GetOrCreate
    PROVE  /\ made \in Nat /\ made' \in 0 .. MaxReceivers /\ made <= made'
           /\ entry' = Receiver /\ Receiver \in 1 .. made' /\ entry' \in 0 .. made'
           /\ (entry # 0 /\ entry' = entry /\ made' = made)
                \/ (entry = 0 /\ entry' = made + 1 /\ made' = made + 1)
<1>1. made \in Nat /\ entry \in 0 .. made /\ made <= MaxReceivers /\ MaxReceivers \in Nat
    BY SetupFacts DEF RecvShape
<1> QED BY <1>1 DEF GetOrCreate, Receiver

\* What a call does to the receivers, short of delivering chunks.
Looks ==
    /\ (entry' = entry /\ made' = made) \/ GetOrCreate
    /\ UNCHANGED <<setup, tomb, frag, src, hnd, got, told, aborted>>
    /\ rcv' \in [1 .. MaxReceivers -> RcvRecs]
    /\ \A g \in 1 .. MaxReceivers :
          /\ rcv'[g].chunks = rcv[g].chunks /\ rcv'[g].finished = rcv[g].finished
          /\ rcv'[g].canceled = rcv[g].canceled
          /\ g > made' => rcv'[g] = FreshReceiver
    /\ lost \subseteq lost' /\ lost' \subseteq Senders

LEMMA LooksKeep ==
    ASSUME SendShape, RecvOK, Looks
    PROVE  /\ made \in Nat /\ made' \in Nat /\ made <= made' /\ RecvShape'
           /\ \A r \in Sources : /\ src'[r] \in {"ready", "started"} => hnd'[r] >= 1
                                 /\ src'[r] = "checked" => frag' = "building"
           /\ Up' => \A g \in 1 .. made' : g # entry' => rcv'[g].canceled
           /\ (Up' <=> Up) /\ (Live' <=> Live) /\ (Canceled' <=> Canceled)
           /\ \A c : Arrived(c) => Arrived(c)'
           /\ OneReceiver => OneReceiver'
           /\ \A g \in 1 .. made' : g > made => rcv'[g].finished = {}
<1>0. /\ setup \in Setups /\ RecvShape /\ setup' = setup
    BY DEF SendShape, RecvOK, Looks
<1>1. /\ Sources' = Sources /\ Senders' = Senders /\ RcvRecs' = RcvRecs /\ Chunks' = Chunks
      /\ MaxReceivers' = MaxReceivers /\ MaxReceivers \in Nat
    BY <1>0, SameSets, SetupFacts
<1>2. /\ made \in Nat /\ made <= MaxReceivers /\ entry \in 0 .. made /\ hnd \in [Sources -> 0 .. made]
    BY <1>0, <1>1 DEF RecvShape
<1>3. /\ made' \in 0 .. MaxReceivers /\ made <= made' /\ entry' \in 0 .. made'
      /\ \/ entry' = entry /\ made' = made
         \/ entry = 0 /\ entry' = made + 1 /\ made' = made + 1
    <2>1. CASE entry' = entry /\ made' = made BY <1>2, <2>1
    <2>2. CASE GetOrCreate BY <1>0, <2>2, GetFacts
    <2> QED BY <2>1, <2>2 DEF Looks
<1>4. made' \in Nat /\ hnd' \in [Sources -> 0 .. made']
    <2>1. \A r \in Sources : hnd[r] \in 0 .. made' BY <1>1, <1>2, <1>3
    <2> QED BY <1>1, <1>2, <1>3, <2>1 DEF Looks
<1>5. RecvShape' BY <1>0, <1>1, <1>3, <1>4 DEF RecvShape, Looks
<1>6. (Up' <=> Up) /\ (Live' <=> Live) /\ (Canceled' <=> Canceled)
    BY DEF Up, Live, Canceled, Looks
<1>7. Up' => \A g \in 1 .. made' : g # entry' => rcv'[g].canceled
    <2> SUFFICES ASSUME Up, NEW g \in 1 .. made', g # entry' PROVE rcv'[g].canceled
        BY <1>6
    <2>1. g \in 1 .. MaxReceivers BY <1>1, <1>3
    <2>2. g \in 1 .. made /\ g # entry BY <1>2, <1>3
    <2> QED BY <2>1, <2>2 DEF RecvOK, Looks
<1>8. \A c : Arrived(c) => Arrived(c)'
    <2> SUFFICES ASSUME NEW c, Arrived(c) PROVE Arrived(c)'
        OBVIOUS
    <2>1. CASE \E i \in 1 .. Len(got) : got[i] = c BY <2>1 DEF Arrived, Looks
    <2>2. CASE \E g \in 1 .. made : \E i \in 1 .. Len(rcv[g].chunks) : rcv[g].chunks[i] = c
        <3>1. PICK g \in 1 .. made : \E i \in 1 .. Len(rcv[g].chunks) : rcv[g].chunks[i] = c BY <2>2
        <3>2. g \in 1 .. made' /\ g \in 1 .. MaxReceivers BY <1>1, <1>2, <1>3
        <3>3. rcv'[g].chunks = rcv[g].chunks BY <3>2 DEF Looks
        <3> QED BY <3>1, <3>2, <3>3 DEF Arrived
    <2> QED BY <2>1, <2>2 DEF Arrived
<1>9. OneReceiver => OneReceiver'
    <2> SUFFICES ASSUME OneReceiver PROVE OneReceiver'
        OBVIOUS
    <2>1. tomb' = FALSE /\ made' <= 1 /\ entry' = made' BY <1>2, <1>3 DEF OneReceiver, Looks
    <2> QED BY <1>1, <2>1 DEF OneReceiver, Looks
<1>10. \A g \in 1 .. made' : g > made => rcv'[g].finished = {}
    <2> SUFFICES ASSUME NEW g \in 1 .. made', g > made PROVE rcv'[g].finished = {}
        OBVIOUS
    <2>1. g \in 1 .. MaxReceivers BY <1>1, <1>3
    <2>2. rcv[g] = FreshReceiver BY <2>1 DEF RecvOK
    <2> QED BY <2>1, <2>2 DEF Looks, FreshReceiver
<1>11. \A r \in Sources : /\ src'[r] \in {"ready", "started"} => hnd'[r] >= 1
                          /\ src'[r] = "checked" => frag' = "building"
    BY DEF RecvOK, Looks
<1> QED BY <1>2, <1>3, <1>4, <1>5, <1>6, <1>7, <1>8, <1>9, <1>10, <1>11

\* Arrived chunks stay behind, when no task starts to be on its way.
LEMMA GoesPast ==
    ASSUME setup \in Setups, setup' = setup, SendShape, TasksOK', io' \subseteq TaskRecs,
           \A d : Sent(d)' = Sent(d), lane' \in [Senders -> Seq(TaskRecs)],
           \A x \in Tasks' : Pending(x) =>
               \E y \in Tasks : Pending(y) /\ SameTask(y, x)
    PROVE  \A c \in Chunks : Past(c) => Past(c)'
<1>1. \A d \in Sinks : Sent(d) \in Int /\ Sent(d)' \in Int /\ Sent(d) <= Sent(d)' BY SentInt
<1>2. \A x \in Tasks' : x \in TaskRecs /\ (~x.eos => x.chunks # <<>>)
    <2> SUFFICES ASSUME NEW x \in Tasks' PROVE x \in TaskRecs /\ (~x.eos => x.chunks # <<>>)
        OBVIOUS
    <2>1. x \in io' \/ \E s \in Senders : \E i \in 1 .. Len(lane'[s]) : x = lane'[s][i]
        BY InTasksNext
    <2>2. x \in TaskRecs BY <2>1, ElementOfSeq
    <2>3. TaskOK(x)' BY DEF TasksOK
    <2> QED BY <2>2, <2>3 DEF TaskOK
<1>3. \A x \in Tasks' : Pending(x) /\ ~x.eos =>
         \E y \in Tasks : Pending(y) /\ ~y.eos /\ y.drv = x.drv /\ Lo(y) = Lo(x)
    BY DEF SameTask, Lo
<1> QED BY <1>1, <1>2, <1>3, PastKeep

\* The receivers keep their chunks, so the order is kept.
LEMMA LooksOrder ==
    ASSUME OrderOK, setup' = setup, Looks, \A c \in Chunks : Past(c) => Past(c)'
    PROVE  OrderOK'
<1>1. Chunks' = Chunks /\ MaxReceivers' = MaxReceivers BY SameSets
<1>2. AllPast(got)' BY <1>1 DEF OrderOK, AllPast, Looks
<1>3. InOrder(got)' BY DEF OrderOK, InOrder, Looks
<1>4. ASSUME NEW g \in 1 .. MaxReceivers
      PROVE  /\ AllPast(rcv[g].chunks)' /\ InOrder(rcv[g].chunks)'
             /\ (Up /\ ~rcv[g].canceled => Follows(got, rcv[g].chunks))'
    <2>0. rcv'[g].chunks = rcv[g].chunks /\ rcv'[g].canceled = rcv[g].canceled BY DEF Looks
    <2>1. AllPast(rcv[g].chunks)' BY <1>1, <2>0 DEF OrderOK, AllPast
    <2>2. InOrder(rcv[g].chunks)' BY <2>0 DEF OrderOK, InOrder
    <2>3. (Up /\ ~rcv[g].canceled => Follows(got, rcv[g].chunks))'
        BY <2>0 DEF OrderOK, Follows, Up, Looks
    <2> QED BY <2>1, <2>2, <2>3
<1> QED BY <1>1, <1>2, <1>3, <1>4 DEF OrderOK

LEMMA LooksEnd ==
    ASSUME EndMeansAll, Looks
    PROVE  EndMeansAll'
<1>1. Sources' = Sources /\ Senders' = Senders /\ Sinks' = Sinks /\ SenderOf' = SenderOf
      /\ ChunksPerSink' = ChunksPerSink
    BY SameSets DEF Looks
<1>2. \A s : AllChunks(s)' = AllChunks(s) BY <1>1 DEF AllChunks, SinksOf
<1>3. Popped' = Popped /\ Canceled' = Canceled BY DEF Popped, Canceled, Looks
<1> QED BY <1>1, <1>2, <1>3 DEF EndMeansAll, Looks

\* The sinks and the queue's counters, when only the executor changes.
LEMMA SendKeep ==
    ASSUME SendShape, SinkOK, UNCHANGED <<setup, sinkVars>>, io' \subseteq TaskRecs,
           lane' \in [Senders -> Seq(TaskRecs)], busy' \subseteq Senders,
           err' \in [Senders -> BOOLEAN], inflight' \in Int, track' \in [Sinks -> Int]
    PROVE  SendShape' /\ SinkOK'
<1>1. /\ Sinks' = Sinks /\ SenderOf' = SenderOf /\ Senders' = Senders /\ TaskRecs' = TaskRecs
      /\ Chunks' = Chunks /\ ChunksPerSink' = ChunksPerSink
    BY SameSets
<1>2. SendShape' BY <1>1 DEF SendShape, sinkVars
<1>3. \A d \in Sinks : BuffersOK(d)'
    <2>1. \A d : Sent(d)' = Sent(d) /\ (Drained(d)' <=> Drained(d)) BY <1>1 DEF Sent, Drained, sinkVars
    <2> QED BY <1>1, <2>1 DEF SinkOK, BuffersOK, sinkVars
<1>4. \A s \in Senders : Uncounted(s)' = Uncounted(s)
    BY <1>1 DEF Uncounted, SinksOf, Drained, sinkVars
<1>5. ASSUME NEW s \in Senders PROVE Cardinality(Uncounted(s))' <= left'[s]
    BY <1>4, FewerUncounted DEF sinkVars
<1> QED BY <1>1, <1>2, <1>3, <1>5 DEF SinkOK

\* A step of a call that delivers nothing. If the exchange is live, the task is
\* still on its way, or was no longer, or its sender has lost a call.
LEMMA CallMoves ==
    ASSUME ExInv, Looks, UNCHANGED <<sinkVars, lane, busy>>,
           err' \in [Senders -> BOOLEAN], inflight' \in Int, track' \in [Sinks -> Int],
           NEW t \in io, NEW u \in TaskRecs, SameTask(t, u), io' = (io \ {t}) \cup {u},
           Pending(u) => Pending(t),
           u.at <= made', u.pc \in {"meta", "push"} => u.at >= 1,
           Live => Pending(u) \/ ~Pending(t) \/ SenderOf[t.drv] \in lost'
    PROVE  ExInv'
<1>0. /\ SendShape /\ SinkOK /\ TasksOK /\ QueueOK /\ RecvOK /\ OrderOK /\ LiveOK /\ EndMeansAll
      /\ setup \in Setups /\ setup' = setup
    BY DEF ExInv, SendShape, Looks
<1>1. /\ Sinks' = Sinks /\ SenderOf' = SenderOf /\ Senders' = Senders /\ Sources' = Sources
      /\ MaxReceivers' = MaxReceivers /\ ChunksPerSink' = ChunksPerSink
    BY <1>0, SameSets
<1>2. QueueStill BY DEF QueueStill, sinkVars, Looks
<1>3. /\ TasksOK' /\ QueueOK' /\ io' \subseteq TaskRecs
      /\ \A d : Sent(d)' = Sent(d)
      /\ t \in Tasks /\ u \in Tasks' /\ t \in TaskRecs /\ TaskOK(t)
      /\ \A x \in Tasks' : x = u \/ x \in Tasks
      /\ \A x \in Tasks : x = t \/ x \in Tasks'
    BY <1>0, <1>2, GoesQueue
<1>4. /\ made \in Nat /\ made' \in Nat /\ made <= made' /\ RecvShape'
      /\ \A r \in Sources : /\ src'[r] \in {"ready", "started"} => hnd'[r] >= 1
                            /\ src'[r] = "checked" => frag' = "building"
      /\ Up' => \A g \in 1 .. made' : g # entry' => rcv'[g].canceled
      /\ (Up' <=> Up) /\ (Live' <=> Live)
      /\ \A c : Arrived(c) => Arrived(c)'
      /\ OneReceiver => OneReceiver'
      /\ \A g \in 1 .. made' : g > made => rcv'[g].finished = {}
    BY <1>0, LooksKeep
<1>5. /\ lane' \in [Senders -> Seq(TaskRecs)] /\ busy' \subseteq Senders
    BY <1>0 DEF SendShape
<1>6. SendShape' /\ SinkOK' BY <1>0, <1>3, <1>5, SendKeep
<1>7. RecvOK'
    <2>1. \A x \in io' : x.at <= made' /\ (x.pc \in {"meta", "push"} => x.at >= 1)
        <3> SUFFICES ASSUME NEW x \in io
                     PROVE  x.at <= made' /\ (x.pc \in {"meta", "push"} => x.at >= 1)
            OBVIOUS
        <3>1. x.at \in Nat BY <1>0 DEF SendShape, TaskRecs
        <3> QED BY <1>0, <1>4, <3>1 DEF RecvOK
    <2>2. \A g \in 1 .. MaxReceivers : g > made' => rcv'[g] = FreshReceiver BY DEF Looks
    <2> QED BY <1>1, <1>4, <2>1, <2>2 DEF RecvOK
<1>8. OrderOK'
    <2>1. \A x \in Tasks' : Pending(x) => \E y \in Tasks : Pending(y) /\ SameTask(y, x)
        BY <1>3 DEF SameTask
    <2>2. \A c \in Chunks : Past(c) => Past(c)'
        BY <1>0, <1>3, <1>5, <2>1, GoesPast
    <2> QED BY <1>0, <2>2, LooksOrder
<1>9. LiveOK'
    <2> SUFFICES ASSUME Live PROVE (OneReceiver /\ NothingLost /\ FinishedArrived)'
        BY <1>4 DEF LiveOK
    <2>1. OneReceiver /\ NothingLost /\ FinishedArrived BY <1>0 DEF LiveOK
    <2>2. NothingLost'
        <3> SUFFICES ASSUME NEW d \in Sinks, SenderOf[d] \notin lost', NEW k \in 1 .. Sent(d)
                     PROVE  Arrived(<<d, k>>)' \/ OnItsWay(d, k)'
            BY <1>1, <1>3 DEF NothingLost
        <3>1. Arrived(<<d, k>>) \/ OnItsWay(d, k) BY <2>1 DEF NothingLost, Looks
        <3>2. CASE Arrived(<<d, k>>) BY <1>4, <3>2
        <3>3. CASE OnItsWay(d, k)
            <4>1. PICK x \in Tasks : Pending(x) /\ ~x.eos /\ x.drv = d /\ Lo(x) < k /\ k <= Hi(x)
                BY <3>3 DEF OnItsWay
            <4>2. CASE x # t BY <1>3, <4>1, <4>2 DEF OnItsWay
            <4>3. CASE x = t
                <5>1. Pending(u) BY <4>1, <4>3
                <5>2. ~u.eos /\ u.drv = d /\ Lo(u) < k /\ k <= Hi(u)
                    BY <4>1, <4>3 DEF SameTask, Lo, Hi
                <5> QED BY <1>3, <5>1, <5>2 DEF OnItsWay
            <4> QED BY <4>2, <4>3
        <3> QED BY <3>1, <3>2, <3>3
    <2>3. FinishedArrived'
        <3>1. \A s : AllChunks(s)' = AllChunks(s) BY <1>1 DEF AllChunks, SinksOf
        <3> SUFFICES ASSUME NEW g \in 1 .. made', NEW s \in rcv'[g].finished, s \notin lost',
                            NEW c \in AllChunks(s)
                     PROVE  Arrived(c)'
            BY <3>1 DEF FinishedArrived
        <3>2. g \in 1 .. made BY <1>4
        <3>3. g \in 1 .. MaxReceivers BY <1>0, <1>1, <1>4, SetupFacts DEF RecvShape
        <3>4. s \in rcv[g].finished /\ s \notin lost BY <3>3 DEF Looks
        <3>5. Arrived(c) BY <2>1, <3>2, <3>4 DEF FinishedArrived
        <3> QED BY <1>4, <3>5
    <2> QED BY <1>4, <2>1, <2>2, <2>3
<1>10. EndMeansAll' BY <1>0, LooksEnd
<1> QED BY <1>3, <1>6, <1>7, <1>8, <1>9, <1>10 DEF ExInv

\* The steps of a call that leave the receivers alone.
LEMMA LooksStill ==
    ASSUME RecvOK, setup' = setup,
           UNCHANGED <<entry, made, tomb, rcv, frag, src, hnd, got, told, aborted>>,
           lost \subseteq lost', lost' \subseteq Senders
    PROVE  Looks
BY DEF RecvOK, RecvShape, Looks

LEMMA CallFacts ==
    ASSUME ExInv, NEW t \in io
    PROVE  /\ t \in TaskRecs /\ SenderOf[t.drv] \in Senders /\ lost \subseteq Senders
           /\ made \in Nat /\ 0 <= made /\ t.at \in Nat /\ t.at <= made /\ setup \in Setups
           /\ RecvOK /\ RecvShape /\ SendShape
           /\ err \in [Senders -> BOOLEAN] /\ inflight \in Int /\ track \in [Sinks -> Int]
<1>0. SendShape /\ TasksOK /\ QueueOK /\ RecvOK BY DEF ExInv
<1>1. t \in Tasks BY DEF Tasks
<1>2. t \in TaskRecs /\ SenderOf[t.drv] \in Senders BY <1>0, <1>1, TaskFacts
<1>3. t.at \in Nat BY <1>2 DEF TaskRecs
<1>4. made \in Nat /\ lost \subseteq Senders /\ RecvShape /\ t.at <= made BY <1>0 DEF RecvOK, RecvShape
<1> QED BY <1>0, <1>2, <1>3, <1>4 DEF SendShape

LEMMA ArriveStep ==
    ASSUME ExInv, NEW t \in io, Arrive(t)
    PROVE  ExInv'
<1>0. /\ t \in TaskRecs /\ made \in Nat /\ 0 <= made /\ RecvOK /\ lost \subseteq Senders
      /\ err \in [Senders -> BOOLEAN] /\ inflight \in Int /\ track \in [Sinks -> Int]
    BY CallFacts
<1> PICK pc : pc = IF t.chunks = <<>> THEN "check" ELSE "decode" OBVIOUS
<1> PICK u : u = [t EXCEPT !.pc = pc, !.at = 0] OBVIOUS
<1>1. pc \in Places BY DEF Places
<1>2. u \in TaskRecs /\ SameTask(t, u) /\ u.pc = pc /\ u.at = 0 BY <1>0, <1>1 DEF TaskRecs, SameTask
<1>3. /\ t.pc = "send" /\ io' = (io \ {t}) \cup {u} /\ UNCHANGED <<CallVars, mapVars, rcv, lost>>
    BY DEF Arrive, Goes
<1>4. /\ Looks /\ UNCHANGED <<sinkVars, lane, busy, err, inflight, track>> /\ made' = made
    BY <1>0, <1>3, LooksStill DEF CallVars, mapVars, sourceVars
<1>5. Pending(t) /\ Pending(u) BY <1>2, <1>3 DEF Pending
<1>6. u.at <= made' /\ u.pc \notin {"meta", "push"} BY <1>0, <1>2, <1>4
<1> QED BY <1>0, <1>2, <1>3, <1>4, <1>5, <1>6, CallMoves

LEMMA SendFailsStep ==
    ASSUME ExInv, NEW t \in io, SendFails(t)
    PROVE  ExInv'
<1>0. /\ t \in TaskRecs /\ made \in Nat /\ 0 <= made /\ RecvOK /\ lost \subseteq Senders
      /\ SenderOf[t.drv] \in Senders
      /\ err \in [Senders -> BOOLEAN] /\ inflight \in Int /\ track \in [Sinks -> Int]
    BY CallFacts
<1> PICK u : u = [t EXCEPT !.pc = "refused", !.at = 0] OBVIOUS
<1>2. u \in TaskRecs /\ SameTask(t, u) /\ u.pc = "refused" /\ u.at = 0
    BY <1>0 DEF TaskRecs, SameTask, Places
<1>3. /\ io' = (io \ {t}) \cup {u} /\ lost' = lost \cup {SenderOf[t.drv]}
      /\ UNCHANGED <<CallVars, mapVars, rcv>>
    BY DEF SendFails, Goes
<1>4. /\ Looks /\ UNCHANGED <<sinkVars, lane, busy, err, inflight, track>> /\ made' = made
    BY <1>0, <1>3, LooksStill DEF CallVars, mapVars, sourceVars
<1>5. ~Pending(u) /\ SenderOf[t.drv] \in lost' BY <1>2, <1>3 DEF Pending
<1>6. u.at <= made' /\ u.pc \notin {"meta", "push"} BY <1>0, <1>2, <1>4
<1> QED BY <1>0, <1>2, <1>3, <1>4, <1>5, <1>6, CallMoves

LEMMA ResponseLostStep ==
    ASSUME ExInv, NEW t \in io, ResponseLost(t)
    PROVE  ExInv'
<1>0. /\ t \in TaskRecs /\ made \in Nat /\ RecvOK /\ lost \subseteq Senders
      /\ SenderOf[t.drv] \in Senders /\ t.at \in Nat /\ t.at <= made
      /\ err \in [Senders -> BOOLEAN] /\ inflight \in Int /\ track \in [Sinks -> Int]
    BY CallFacts
<1> PICK u : u = [t EXCEPT !.pc = "refused", !.at = t.at] OBVIOUS
<1>2. u \in TaskRecs /\ SameTask(t, u) /\ u.pc = "refused" /\ u.at = t.at
    BY <1>0 DEF TaskRecs, SameTask, Places
<1>3. /\ io' = (io \ {t}) \cup {u} /\ lost' = lost \cup {SenderOf[t.drv]}
      /\ UNCHANGED <<CallVars, mapVars, rcv>>
    BY DEF ResponseLost, Goes
<1>4. /\ Looks /\ UNCHANGED <<sinkVars, lane, busy, err, inflight, track>> /\ made' = made
    BY <1>0, <1>3, LooksStill DEF CallVars, mapVars, sourceVars
<1>5. ~Pending(u) /\ SenderOf[t.drv] \in lost' BY <1>2, <1>3 DEF Pending
<1>6. u.at <= made' /\ u.pc \notin {"meta", "push"} BY <1>0, <1>2, <1>4
<1> QED BY <1>0, <1>2, <1>3, <1>4, <1>5, <1>6, CallMoves

LEMMA PushCheckStep ==
    ASSUME ExInv, NEW t \in io, PushCheck(t)
    PROVE  ExInv'
<1>0. /\ t \in TaskRecs /\ made \in Nat /\ 0 <= made /\ RecvOK /\ lost \subseteq Senders
      /\ err \in [Senders -> BOOLEAN] /\ inflight \in Int /\ track \in [Sinks -> Int]
    BY CallFacts
<1> PICK pc : pc = IF tomb THEN "acked" ELSE "lookup" OBVIOUS
<1> PICK u : u = [t EXCEPT !.pc = pc, !.at = 0] OBVIOUS
<1>1. pc \in Places BY DEF Places
<1>2. u \in TaskRecs /\ SameTask(t, u) /\ u.pc = pc /\ u.at = 0 BY <1>0, <1>1 DEF TaskRecs, SameTask
<1>3. /\ t.pc = "check" /\ io' = (io \ {t}) \cup {u} /\ UNCHANGED <<CallVars, mapVars, rcv, lost>>
    BY DEF PushCheck, Goes
<1>4. /\ Looks /\ UNCHANGED <<sinkVars, lane, busy, err, inflight, track>> /\ made' = made
    BY <1>0, <1>3, LooksStill DEF CallVars, mapVars, sourceVars
<1>5. Pending(t) /\ (Live => Pending(u))
    BY <1>2, <1>3 DEF Pending, ExInv, LiveOK, OneReceiver
<1>6. u.at <= made' /\ u.pc \notin {"meta", "push"} BY <1>0, <1>2, <1>4
<1> QED BY <1>0, <1>2, <1>3, <1>4, <1>5, <1>6, CallMoves

\* A look-up may create the receiver.
LEMMA LooksUp ==
    ASSUME RecvOK, setup \in Setups, setup' = setup, GetOrCreate,
           UNCHANGED <<rcv, frag, src, hnd, got, told, aborted, lost>>
    PROVE  Looks /\ Receiver \in 1 .. made' /\ Receiver \in Nat /\ made' \in Nat
<1>0. RecvShape BY DEF RecvOK
<1>1. /\ made \in Nat /\ made' \in 0 .. MaxReceivers /\ made <= made' /\ Receiver \in 1 .. made'
    BY <1>0, GetFacts
<1>2. MaxReceivers \in Nat BY SetupFacts
<1>3. \A g \in 1 .. MaxReceivers : g > made' => rcv'[g] = FreshReceiver
    BY <1>1, <1>2 DEF RecvOK
<1>4. made' \in Nat BY <1>1, <1>2
<1>5. Receiver \in Nat BY <1>1, <1>4
<1>6. Looks BY <1>0, <1>3 DEF Looks, RecvShape, GetOrCreate
<1> QED BY <1>1, <1>4, <1>5, <1>6

LEMMA DecodeLookupStep ==
    ASSUME ExInv, NEW t \in io, DecodeLookup(t)
    PROVE  ExInv'
<1>0. /\ t \in TaskRecs /\ RecvOK /\ lost \subseteq Senders /\ setup \in Setups
      /\ err \in [Senders -> BOOLEAN] /\ inflight \in Int /\ track \in [Sinks -> Int]
    BY CallFacts
<1> PICK g : g = Receiver OBVIOUS
<1> PICK u : u = [t EXCEPT !.pc = "meta", !.at = g] OBVIOUS
<1>1. /\ t.pc = "decode" /\ io' = (io \ {t}) \cup {u} /\ GetOrCreate
      /\ UNCHANGED <<CallVars, rcv, lost>>
    BY DEF DecodeLookup, Goes
<1>2. /\ Looks /\ UNCHANGED <<sinkVars, lane, busy, err, inflight, track>>
      /\ g \in 1 .. made' /\ g \in Nat /\ made' \in Nat
    BY <1>0, <1>1, LooksUp DEF CallVars, sourceVars
<1>3. u \in TaskRecs /\ SameTask(t, u) /\ u.pc = "meta" /\ u.at = g
    BY <1>0, <1>2 DEF TaskRecs, SameTask, Places
<1>4. Pending(t) /\ Pending(u) BY <1>1, <1>3 DEF Pending
<1>5. u.at <= made' /\ u.at >= 1 BY <1>2, <1>3
<1> QED BY <1>0, <1>1, <1>2, <1>3, <1>4, <1>5, CallMoves

LEMMA PushLookupStep ==
    ASSUME ExInv, NEW t \in io, PushLookup(t)
    PROVE  ExInv'
<1>0. /\ t \in TaskRecs /\ RecvOK /\ lost \subseteq Senders /\ setup \in Setups
      /\ err \in [Senders -> BOOLEAN] /\ inflight \in Int /\ track \in [Sinks -> Int]
    BY CallFacts
<1> PICK g : g = Receiver OBVIOUS
<1> PICK u : u = [t EXCEPT !.pc = "push", !.at = g] OBVIOUS
<1>1. /\ t.pc = "lookup" /\ io' = (io \ {t}) \cup {u} /\ GetOrCreate
      /\ UNCHANGED <<CallVars, rcv, lost>>
    BY DEF PushLookup, Goes
<1>2. /\ Looks /\ UNCHANGED <<sinkVars, lane, busy, err, inflight, track>>
      /\ g \in 1 .. made' /\ g \in Nat /\ made' \in Nat
    BY <1>0, <1>1, LooksUp DEF CallVars, sourceVars
<1>3. u \in TaskRecs /\ SameTask(t, u) /\ u.pc = "push" /\ u.at = g
    BY <1>0, <1>2 DEF TaskRecs, SameTask, Places
<1>4. Pending(t) /\ Pending(u) BY <1>1, <1>3 DEF Pending
<1>5. u.at <= made' /\ u.at >= 1 BY <1>2, <1>3
<1> QED BY <1>0, <1>1, <1>2, <1>3, <1>4, <1>5, CallMoves

LEMMA DecodeMetaStep ==
    ASSUME ExInv, NEW t \in io, DecodeMeta(t)
    PROVE  ExInv'
<1>0. /\ t \in TaskRecs /\ made \in Nat /\ 0 <= made /\ RecvOK /\ lost \subseteq Senders
      /\ SenderOf[t.drv] \in Senders /\ t.at \in Nat /\ t.at <= made
      /\ err \in [Senders -> BOOLEAN] /\ inflight \in Int /\ track \in [Sinks -> Int]
      /\ setup \in Setups /\ RecvShape
    BY CallFacts
<1> PICK s, g : s = SenderOf[t.drv] /\ g = t.at OBVIOUS
<1> PICK metas : metas = rcv[g].metas \cup (IF t.meta THEN {s} ELSE {}) OBVIOUS
<1> PICK pc : pc = IF s \in metas /\ ~rcv[g].canceled THEN "check" ELSE "refused" OBVIOUS
<1> PICK u : u = [t EXCEPT !.pc = pc, !.at = 0] OBVIOUS
<1>1. pc \in Places BY DEF Places
<1>2. u \in TaskRecs /\ SameTask(t, u) /\ u.pc = pc /\ u.at = 0 BY <1>0, <1>1 DEF TaskRecs, SameTask
<1>3. /\ t.pc = "meta" /\ io' = (io \ {t}) \cup {u} /\ UNCHANGED <<CallVars, mapVars>>
      /\ rcv' = [rcv EXCEPT ![g].metas = metas]
    BY DEF DecodeMeta, Goes
<1>4. lost' = IF pc = "check" THEN lost ELSE lost \cup {s} BY DEF DecodeMeta
<1>5. /\ g \in 1 .. made /\ g \in 1 .. MaxReceivers /\ MaxReceivers \in Nat
      /\ rcv \in [1 .. MaxReceivers -> RcvRecs]
    BY <1>0, <1>3, SetupFacts DEF RecvOK, RecvShape
<1>6. metas \in SUBSET Senders BY <1>0, <1>5 DEF RcvRecs
<1>7. rcv' \in [1 .. MaxReceivers -> RcvRecs]
    <2>1. [rcv[g] EXCEPT !.metas = metas] \in RcvRecs BY <1>5, <1>6 DEF RcvRecs
    <2> QED BY <1>3, <1>5, <2>1
<1>8. \A x \in 1 .. MaxReceivers :
         /\ rcv'[x].chunks = rcv[x].chunks /\ rcv'[x].finished = rcv[x].finished
         /\ rcv'[x].canceled = rcv[x].canceled
         /\ x # g => rcv'[x] = rcv[x]
    BY <1>3, <1>5 DEF RcvRecs
<1>9. \A x \in 1 .. MaxReceivers : x > made => rcv'[x] = FreshReceiver
    BY <1>0, <1>5, <1>8 DEF RecvOK
<1>10. /\ Looks /\ UNCHANGED <<sinkVars, lane, busy, err, inflight, track>> /\ made' = made
    BY <1>0, <1>3, <1>4, <1>7, <1>8, <1>9 DEF Looks, CallVars, mapVars, sourceVars
<1>11. Pending(t) /\ (Pending(u) \/ SenderOf[t.drv] \in lost')
    BY <1>2, <1>3, <1>4 DEF Pending
<1>12. u.at <= made' /\ u.pc \notin {"meta", "push"} BY <1>0, <1>2, <1>10
<1> QED BY <1>0, <1>2, <1>3, <1>10, <1>11, <1>12, CallMoves

LEMMA CompleteSendStep ==
    ASSUME ExInv, NEW t \in io, CompleteSend(t), UNCHANGED <<recvVars, lifeVars>>
    PROVE  ExInv'
<1>0. /\ t \in TaskRecs /\ made \in Nat /\ RecvOK /\ lost \subseteq Senders
      /\ SenderOf[t.drv] \in Senders /\ t.at \in Nat /\ t.at <= made
      /\ err \in [Senders -> BOOLEAN] /\ inflight \in Int /\ track \in [Sinks -> Int]
    BY CallFacts
<1> PICK u : u = [t EXCEPT !.pc = "next"] OBVIOUS
<1>1. u \in TaskRecs /\ SameTask(t, u) /\ u.pc = "next" /\ u.at = t.at
    BY <1>0 DEF TaskRecs, Places, SameTask
<1>2. /\ t.pc \in {"acked", "refused"} /\ io' = (io \ {t}) \cup {u}
      /\ UNCHANGED <<sinkVars, lane, busy>>
      /\ err' = [err EXCEPT ![SenderOf[t.drv]] = @ \/ t.pc = "refused"]
      /\ inflight' = inflight - Size(t) /\ track' = [track EXCEPT ![t.drv] = @ - 1]
    BY DEF CompleteSend
<1>3. err' \in [Senders -> BOOLEAN] /\ inflight' \in Int /\ track' \in [Sinks -> Int]
    <2>1. Size(t) \in Nat BY <1>0, SizeNat
    <2>2. inflight' \in Int /\ track' \in [Sinks -> Int]
        <3>1. t.drv \in Sinks BY <1>0 DEF TaskRecs
        <3>2. track[t.drv] - 1 \in Int BY <1>0, <3>1
        <3>3. inflight - Size(t) \in Int BY <1>0, <2>1
        <3> QED BY <1>0, <1>2, <3>2, <3>3
    <2>3. err' \in [Senders -> BOOLEAN] BY <1>0, <1>2
    <2> QED BY <2>2, <2>3
<1>4. Looks /\ made' = made BY <1>0, LooksStill DEF recvVars, lifeVars, mapVars, sourceVars
<1>5. ~Pending(t) /\ ~Pending(u) BY <1>1, <1>2 DEF Pending
<1>6. u.at <= made' /\ u.pc \notin {"meta", "push"} BY <1>0, <1>1, <1>4
<1> QED BY <1>1, <1>2, <1>3, <1>4, <1>5, <1>6, CallMoves

\* on_task_complete: the lane's first task takes the place of the one that ended.
LEMMA RetireQueue ==
    ASSUME SendShape, QueueOK, setup' = setup, NEW t \in io, OnTaskComplete(t)
    PROVE  /\ QueueOK' /\ io' \subseteq TaskRecs /\ busy' \subseteq Senders
           /\ lane' \in [Senders -> Seq(TaskRecs)]
           /\ \A x \in Tasks' : x \in Tasks
           /\ \A x \in Tasks : x = t \/ x \in Tasks'
           /\ \A x \in io' : x \in io \/ (x.at = 0 /\ x.pc = "send")
<1> PICK s : s = SenderOf[t.drv] OBVIOUS
<1>0. /\ lane \in [Senders -> Seq(TaskRecs)] /\ io \subseteq TaskRecs /\ setup \in Setups
      /\ busy \subseteq Senders
    BY DEF SendShape
<1>1. s \in Senders
    <2>1. t.drv \in Sinks BY <1>0 DEF TaskRecs
    <2> QED BY <1>0, <2>1, SetupFacts
<1>2. Senders' = Senders /\ SenderOf' = SenderOf BY SameSets
<1>3. \A x : x \in Tasks <=> x \in io \/ \E q \in Senders : \E i \in 1 .. Len(lane[q]) : x = lane[q][i]
    BY <1>0, InTasks
<1>4. LaneOK(s) BY <1>1 DEF QueueOK
<1>5. \A x \in io : x # t => SenderOf[x.drv] # s BY DEF QueueOK
<1>6. CASE lane[s] = <<>>
    <2>1. busy' = busy \ {s} /\ io' = io \ {t} /\ lane' = lane BY <1>6 DEF OnTaskComplete
    <2>2. \A q \in Senders : LaneOK(q)' BY <1>2, <2>1 DEF QueueOK, LaneOK
    <2>3. QueueOK'
        <3>1. \A x, y \in io' : SenderOf[x.drv] = SenderOf[y.drv] => x = y BY <2>1 DEF QueueOK
        <3>2. \A x \in io' : SenderOf[x.drv] \in busy' BY <1>5, <2>1 DEF QueueOK
        <3>3. \A q \in busy' : \E x \in io' : SenderOf[x.drv] = q BY <2>1 DEF QueueOK
        <3>4. \A q \in Senders \ busy' : lane'[q] = <<>> BY <1>6, <2>1 DEF QueueOK
        <3> QED BY <1>2, <2>2, <3>1, <3>2, <3>3, <3>4 DEF QueueOK
    <2>4. \A x : x \in Tasks' <=> x \in io' \/ \E q \in Senders : \E i \in 1 .. Len(lane[q]) : x = lane[q][i]
        BY <1>0, <2>1, InTasksNext
    <2> QED BY <1>0, <1>3, <2>1, <2>3, <2>4
<1>7. CASE lane[s] # <<>>
    <2> PICK h, rest : h = Head(lane[s]) /\ rest = Tail(lane[s]) OBVIOUS
    <2>1. busy' = busy /\ io' = (io \ {t}) \cup {h} /\ lane' = [lane EXCEPT ![s] = rest]
        BY <1>7 DEF OnTaskComplete
    <2>2. lane[s] \in Seq(TaskRecs) BY <1>0, <1>1
    <2>3. /\ h = lane[s][1] /\ Len(lane[s]) \in Nat \ {0} /\ rest \in Seq(TaskRecs)
          /\ Len(rest) = Len(lane[s]) - 1 /\ \A i \in 1 .. Len(rest) : rest[i] = lane[s][i + 1]
        BY <1>7, <2>2, HeadTailProperties, EmptySeq
    <2>4. 1 \in 1 .. Len(lane[s]) /\ \A i \in 1 .. Len(rest) : i + 1 \in 1 .. Len(lane[s]) BY <2>3
    <2>5. h \in TaskRecs BY <2>2, <2>3, <2>4, ElementOfSeq
    <2>6. h.pc = "send" /\ h.at = 0 /\ SenderOf[h.drv] = s BY <1>4, <2>3, <2>4 DEF LaneOK
    <2>7. \A q \in Senders : lane'[q] = IF q = s THEN rest ELSE lane[q] BY <1>0, <2>1
    <2>8. lane' \in [Senders -> Seq(TaskRecs)] BY <1>0, <2>1, <2>3
    <2>9. LaneOK(s)'
        <3> SUFFICES ASSUME NEW i \in 1 .. Len(rest)
                     PROVE  /\ rest[i].pc = "send" /\ rest[i].at = 0 /\ SenderOf[rest[i].drv] = s
                            /\ \A x \in io' : SenderOf[x.drv] = s => Before(x, rest[i])
                            /\ \A j \in 1 .. Len(rest) : i < j => Before(rest[i], rest[j])
            BY <1>1, <1>2, <2>7 DEF LaneOK
        <3>1. i + 1 \in 1 .. Len(lane[s]) /\ 1 < i + 1 /\ rest[i] = lane[s][i + 1] BY <2>3, <2>4
        <3>2. rest[i].pc = "send" /\ rest[i].at = 0 /\ SenderOf[rest[i].drv] = s
            BY <1>4, <3>1 DEF LaneOK
        <3>3. Before(h, rest[i]) BY <1>4, <2>3, <2>4, <3>1 DEF LaneOK
        <3>4. \A x \in io' : SenderOf[x.drv] = s => Before(x, rest[i]) BY <1>5, <2>1, <3>3
        <3>5. ASSUME NEW j \in 1 .. Len(rest), i < j PROVE Before(rest[i], rest[j])
            <4>1. i + 1 < j + 1 /\ j + 1 \in 1 .. Len(lane[s]) /\ rest[j] = lane[s][j + 1]
                BY <2>3, <2>4, <3>5
            <4> QED BY <1>4, <3>1, <4>1 DEF LaneOK
        <3> QED BY <3>2, <3>4, <3>5
    <2>10. ASSUME NEW q \in Senders, q # s PROVE LaneOK(q)'
        <3>1. lane'[q] = lane[q] /\ LaneOK(q) BY <2>7, <2>10 DEF QueueOK
        <3>2. \A x \in io' : SenderOf[x.drv] = q => x \in io BY <2>1, <2>6, <2>10
        <3> QED BY <1>2, <3>1, <3>2 DEF LaneOK
    <2>11. QueueOK'
        <3>1. \A x, y \in io' : SenderOf[x.drv] = SenderOf[y.drv] => x = y
            BY <1>5, <2>1, <2>6 DEF QueueOK
        <3>2. \A x \in io' : SenderOf[x.drv] \in busy' BY <2>1, <2>6 DEF QueueOK
        <3>3. \A q \in busy' : \E x \in io' : SenderOf[x.drv] = q BY <2>1, <2>6 DEF QueueOK
        <3>4. s \in busy BY DEF QueueOK
        <3>5. \A q \in Senders \ busy' : lane'[q] = <<>> BY <2>1, <2>7, <3>4 DEF QueueOK
        <3> QED BY <1>2, <2>9, <2>10, <3>1, <3>2, <3>3, <3>5 DEF QueueOK
    <2>12. \A x : x \in Tasks' <=> x \in io' \/ \E q \in Senders : \E i \in 1 .. Len(lane'[q]) : x = lane'[q][i]
        BY <2>8, InTasksNext
    <2>13. ASSUME NEW x \in Tasks' PROVE x \in Tasks
        <3>1. CASE x \in io' BY <1>1, <1>3, <2>1, <2>3, <2>4, <3>1
        <3>2. CASE \E q \in Senders : \E i \in 1 .. Len(lane'[q]) : x = lane'[q][i]
            <4>1. PICK q \in Senders : \E i \in 1 .. Len(lane'[q]) : x = lane'[q][i] BY <3>2
            <4>2. CASE q # s BY <1>3, <2>7, <4>1, <4>2
            <4>3. CASE q = s
                <5>1. PICK i \in 1 .. Len(rest) : x = rest[i] BY <2>7, <4>1, <4>3
                <5>2. x = lane[s][i + 1] /\ i + 1 \in 1 .. Len(lane[s]) BY <2>3, <2>4, <5>1
                <5> QED BY <1>1, <1>3, <5>2
            <4> QED BY <4>2, <4>3
        <3> QED BY <2>12, <3>1, <3>2
    <2>14. ASSUME NEW x \in Tasks, x # t PROVE x \in Tasks'
        <3>1. CASE x \in io BY <2>1, <2>12, <2>14, <3>1
        <3>2. CASE \E q \in Senders : \E i \in 1 .. Len(lane[q]) : x = lane[q][i]
            <4>1. PICK q \in Senders : \E i \in 1 .. Len(lane[q]) : x = lane[q][i] BY <3>2
            <4>2. CASE q # s
                <5>1. lane'[q] = lane[q] BY <2>7, <4>2
                <5> QED BY <2>12, <4>1, <5>1
            <4>3. CASE q = s
                <5>1. PICK i \in 1 .. Len(lane[s]) : x = lane[s][i] BY <4>1, <4>3
                <5>2. CASE i = 1 BY <2>1, <2>3, <2>12, <5>1, <5>2
                <5>3. CASE i # 1
                    <6>1. i - 1 \in 1 .. Len(rest) /\ (i - 1) + 1 = i BY <2>3, <5>3
                    <6>2. x = rest[i - 1] BY <2>3, <5>1, <6>1
                    <6>3. lane'[s] = rest BY <1>1, <2>7
                    <6> QED BY <1>1, <2>12, <6>1, <6>2, <6>3
                <5> QED BY <5>2, <5>3
            <4> QED BY <4>2, <4>3
        <3> QED BY <1>3, <3>1, <3>2
    <2>15. io' \subseteq TaskRecs /\ busy' \subseteq Senders BY <1>0, <2>1, <2>5
    <2>16. \A x \in io' : x \in io \/ (x.at = 0 /\ x.pc = "send") BY <2>1, <2>6
    <2> QED BY <2>8, <2>11, <2>13, <2>14, <2>15, <2>16
<1> QED BY <1>6, <1>7

LEMMA OnTaskCompleteStep ==
    ASSUME ExInv, NEW t \in io, OnTaskComplete(t), UNCHANGED <<recvVars, lifeVars>>
    PROVE  ExInv'
<1>0. /\ SendShape /\ SinkOK /\ TasksOK /\ QueueOK /\ RecvOK /\ OrderOK /\ LiveOK /\ EndMeansAll
      /\ setup \in Setups /\ setup' = setup /\ RecvSame
    BY DEF ExInv, SendShape, lifeVars, recvVars, mapVars, sourceVars, RecvSame
<1>1. UNCHANGED <<sinkVars, err, inflight, track>> /\ t.pc = "next" BY DEF OnTaskComplete
<1>2. /\ QueueOK' /\ io' \subseteq TaskRecs /\ busy' \subseteq Senders
      /\ lane' \in [Senders -> Seq(TaskRecs)]
      /\ \A x \in Tasks' : x \in Tasks
      /\ \A x \in Tasks : x = t \/ x \in Tasks'
      /\ \A x \in io' : x \in io \/ (x.at = 0 /\ x.pc = "send")
    BY <1>0, RetireQueue
<1>3. /\ Sinks' = Sinks /\ SenderOf' = SenderOf /\ Senders' = Senders /\ Sources' = Sources
      /\ MaxReceivers' = MaxReceivers /\ RcvRecs' = RcvRecs /\ Chunks' = Chunks
    BY <1>0, SameSets
<1>4. \A d : Sent(d)' = Sent(d) BY <1>1 DEF Sent, sinkVars
<1>5. TasksOK'
    <2>1. \A x : TaskOK(x) => TaskOK(x)' BY <1>1, <1>3, <1>4 DEF TaskOK, sinkVars
    <2> QED BY <1>0, <1>2, <2>1 DEF TasksOK
<1>6. SendShape' /\ SinkOK'
    <2>1. err' \in [Senders -> BOOLEAN] /\ inflight' \in Int /\ track' \in [Sinks -> Int]
        BY <1>0, <1>1 DEF SendShape
    <2> QED BY <1>0, <1>1, <1>2, <2>1, SendKeep
<1>7. RecvOK'
    <2>1. RecvShape' BY <1>0, <1>3 DEF RecvOK, RecvShape, RecvSame
    <2>2. made \in Nat BY <1>0, SetupFacts DEF RecvOK, RecvShape
    <2>3. \A x \in io' : x.at <= made /\ (x.pc \in {"meta", "push"} => x.at >= 1)
        BY <1>0, <1>2, <2>2 DEF RecvOK
    <2> QED BY <1>0, <1>3, <2>1, <2>3 DEF RecvOK, Up, RecvSame
<1>8. OrderOK'
    <2>1. \A x \in Tasks' : Pending(x) => \E y \in Tasks : Pending(y) /\ SameTask(y, x)
        BY <1>2 DEF SameTask
    <2>2. \A c \in Chunks : Past(c) => Past(c)' BY <1>0, <1>2, <1>4, <1>5, <2>1, GoesPast
    <2> QED BY <1>0, <2>2, OrderKeep DEF RecvSame
<1>9. LiveOK'
    <2>1. \A d, k : OnItsWay(d, k) => OnItsWay(d, k)' BY <1>1, <1>2 DEF OnItsWay, Pending
    <2>2. \A d \in Sinks : Sent(d)' \in Int BY <1>0, <1>4, SentInt
    <2>3. \A d \in Sinks : \A k \in 1 .. Sent(d)' : k \in 1 .. Sent(d) BY <1>4
    <2> QED BY <1>0, <2>1, <2>2, <2>3, LiveKeep DEF RecvSame
<1>10. EndMeansAll' BY <1>0, EndKeep
<1> QED BY <1>2, <1>5, <1>6, <1>7, <1>8, <1>9, <1>10 DEF ExInv

\* Chunks put behind others that they follow.
LEMMA JoinOrder ==
    ASSUME NEW cs \in Seq(Chunks), NEW ds \in Seq(Chunks), NEW es \in Seq(Chunks),
           InOrder(cs), InOrder(ds), Follows(cs, ds)
    PROVE  /\ cs \o ds \in Seq(Chunks) /\ Len(cs \o ds) = Len(cs) + Len(ds)
           /\ \A i \in 1 .. Len(cs \o ds) :
                 \/ i \in 1 .. Len(cs) /\ (cs \o ds)[i] = cs[i]
                 \/ i - Len(cs) \in 1 .. Len(ds) /\ (cs \o ds)[i] = ds[i - Len(cs)]
           /\ InOrder(cs \o ds)
           /\ Follows(es, cs) /\ Follows(es, ds) => Follows(es, cs \o ds)
<1> PICK n, m, all : n = Len(cs) /\ m = Len(ds) /\ all = cs \o ds OBVIOUS
<1>1. /\ all \in Seq(Chunks) /\ Len(all) = n + m /\ n \in Nat /\ m \in Nat
      /\ \A i \in 1 .. n + m : all[i] = IF i <= n THEN cs[i] ELSE ds[i - n]
    BY ConcatProperties, LenProperties
<1>2. \A i \in 1 .. Len(all) : \/ i \in 1 .. n /\ all[i] = cs[i]
                               \/ i - n \in 1 .. m /\ all[i] = ds[i - n]
    BY <1>1
<1>3. InOrder(all)
    <2> SUFFICES ASSUME NEW i \in 1 .. Len(all), NEW j \in 1 .. Len(all), i < j,
                        all[i][1] = all[j][1]
                 PROVE  all[i][2] < all[j][2]
        BY DEF InOrder
    <2>1. CASE j \in 1 .. n
        <3>1. i \in 1 .. n /\ all[i] = cs[i] /\ all[j] = cs[j] BY <1>1, <2>1
        <3> QED BY <2>1, <3>1 DEF InOrder
    <2>2. CASE i \in 1 .. n /\ ~(j \in 1 .. n)
        <3>1. j - n \in 1 .. m /\ all[j] = ds[j - n] /\ all[i] = cs[i] BY <1>1, <2>2
        <3> QED BY <2>2, <3>1 DEF Follows
    <2>3. CASE ~(i \in 1 .. n) /\ ~(j \in 1 .. n)
        <3>1. /\ i - n \in 1 .. m /\ j - n \in 1 .. m /\ i - n < j - n
              /\ all[i] = ds[i - n] /\ all[j] = ds[j - n]
            BY <1>1, <2>3
        <3> QED BY <3>1 DEF InOrder
    <2> QED BY <2>1, <2>2, <2>3
<1>4. Follows(es, cs) /\ Follows(es, ds) => Follows(es, all)
    BY <1>2 DEF Follows
<1> QED BY <1>1, <1>2, <1>3, <1>4

Contains(all, cs) == \A i \in 1 .. Len(cs) : \E j \in 1 .. Len(all) : all[j] = cs[i]

LEMMA JoinKeeps ==
    ASSUME NEW cs \in Seq(Chunks), NEW ds \in Seq(Chunks)
    PROVE  Contains(cs \o ds, cs) /\ Contains(cs \o ds, ds)
<1> PICK n, m, all : n = Len(cs) /\ m = Len(ds) /\ all = cs \o ds OBVIOUS
<1>1. /\ Len(all) = n + m /\ n \in Nat /\ m \in Nat
      /\ \A i \in 1 .. n + m : all[i] = IF i <= n THEN cs[i] ELSE ds[i - n]
    BY ConcatProperties, LenProperties
<1>2. ASSUME NEW i \in 1 .. n PROVE \E j \in 1 .. Len(all) : all[j] = cs[i]
    <2>1. i \in 1 .. n + m /\ i <= n BY <1>1
    <2> QED BY <1>1, <2>1
<1>3. ASSUME NEW i \in 1 .. m PROVE \E j \in 1 .. Len(all) : all[j] = ds[i]
    <2>1. n + i \in 1 .. n + m /\ ~(n + i <= n) /\ (n + i) - n = i BY <1>1
    <2>2. all[n + i] = ds[i] BY <1>1, <2>1
    <2> QED BY <1>1, <2>1, <2>2
<1>4. Contains(all, cs) /\ Contains(all, ds) BY <1>2, <1>3 DEF Contains
<1> QED BY <1>4

\* The chunks of a task that is on its way come after everything that arrived.
LEMMA DeliverFollows ==
    ASSUME SendShape, TasksOK, NEW t \in Tasks, t \in TaskRecs, Pending(t)
    PROVE  /\ \A i \in 1 .. Len(t.chunks) : ~t.eos /\ t.chunks[i] = <<t.drv, Lo(t) + i>>
           /\ Len(t.chunks) # 0 => Lo(t) \in Nat
           /\ InOrder(t.chunks)
           /\ \A cs \in Seq(Chunks) : AllPast(cs) => Follows(cs, t.chunks)
<1>0. setup \in Setups /\ t.chunks \in Seq(Chunks) /\ TaskOK(t) BY DEF SendShape, TaskRecs, TasksOK
<1>1. CASE t.chunks = <<>>
    <2>1. Len(t.chunks) = 0 BY <1>1, EmptySeq
    <2> QED BY <2>1 DEF InOrder, Follows
<1>2. CASE t.chunks # <<>>
    <2>1. ~t.eos /\ Run(t.drv, t.chunks, Lo(t)) BY <1>0, <1>2 DEF TaskOK
    <2>2. Lo(t) \in Nat /\ Len(t.chunks) \in Nat BY <1>0, <1>2, TaskBounds
    <2>3. \A i \in 1 .. Len(t.chunks) : t.chunks[i] = <<t.drv, Lo(t) + i>> BY <2>1 DEF Run
    <2>4. InOrder(t.chunks)
        <3> SUFFICES ASSUME NEW i \in 1 .. Len(t.chunks), NEW j \in 1 .. Len(t.chunks), i < j
                     PROVE  t.chunks[i][2] < t.chunks[j][2]
            BY DEF InOrder
        <3>1. t.chunks[i] = <<t.drv, Lo(t) + i>> /\ t.chunks[j] = <<t.drv, Lo(t) + j>> BY <2>3
        <3> QED BY <2>2, <3>1
    <2>5. ASSUME NEW cs \in Seq(Chunks), AllPast(cs) PROVE Follows(cs, t.chunks)
        <3> SUFFICES ASSUME NEW i \in 1 .. Len(cs), NEW j \in 1 .. Len(t.chunks),
                            cs[i][1] = t.chunks[j][1]
                     PROVE  cs[i][2] < t.chunks[j][2]
            BY DEF Follows
        <3>1. cs[i] \in Chunks BY ElementOfSeq
        <3>2. cs[i][2] \in Int BY <1>0, <3>1, SetupFacts DEF Chunks
        <3>3. t.chunks[j] = <<t.drv, Lo(t) + j>> BY <2>3
        <3>4. Past(cs[i]) BY <2>5, <3>1 DEF AllPast
        <3>5. cs[i][1] = t.drv BY <3>3
        <3>6. cs[i][2] <= Lo(t) BY <2>1, <3>4, <3>5 DEF Past
        <3> QED BY <2>2, <3>2, <3>3, <3>6
    <2> QED BY <2>1, <2>2, <2>3, <2>4, <2>5
<1> QED BY <1>1, <1>2

\* An end-of-stream is alone: its sender has no data left anywhere.
LEMMA EosIsLast ==
    ASSUME SendShape, SinkOK, TasksOK, NEW t \in Tasks, t \in TaskRecs, t.eos
    PROVE  \A d \in SinksOf(SenderOf[t.drv]) : Sent(d) = ChunksPerSink
<1> PICK s : s = SenderOf[t.drv] OBVIOUS
<1>0. setup \in Setups /\ t.drv \in Sinks /\ s \in Senders /\ ChunksPerSink \in Nat
    BY SetupFacts DEF SendShape, TaskRecs
<1>1. left[s] = 0 BY DEF TasksOK, TaskOK
<1>2. IsFiniteSet(Uncounted(s)) /\ Cardinality(Uncounted(s)) \in Nat BY <1>0, UncountedFinite
<1>3. Cardinality(Uncounted(s)) <= 0 BY <1>0, <1>1 DEF SinkOK
<1>4. Uncounted(s) = {} BY <1>2, <1>3, FS_EmptySet
<1> SUFFICES ASSUME NEW d \in SinksOf(s) PROVE Sent(d) = ChunksPerSink
    OBVIOUS
<1>5. Drained(d) BY <1>4 DEF Uncounted
<1>6. Len(<<>>) = 0 BY EmptySeq
<1> QED BY <1>0, <1>5, <1>6 DEF Drained, Sent, SentBy, PayLen

\* push_chunks delivers to a receiver that is not cancelled.
LEMMA DeliverStep ==
    ASSUME ExInv, NEW t \in io, PushChunks(t), ~rcv[t.at].canceled
    PROVE  ExInv'
<1>0. /\ SendShape /\ SinkOK /\ TasksOK /\ QueueOK /\ RecvOK /\ OrderOK /\ LiveOK /\ EndMeansAll
      /\ t \in TaskRecs /\ made \in Nat /\ lost \subseteq Senders
      /\ SenderOf[t.drv] \in Senders /\ t.at \in Nat /\ t.at <= made
      /\ setup \in Setups /\ RecvShape
    BY CallFacts DEF ExInv
<1> PICK s, a : s = SenderOf[t.drv] /\ a = t.at OBVIOUS
<1> PICK u : u = [t EXCEPT !.pc = "acked", !.at = a] OBVIOUS
<1>1. u \in TaskRecs /\ SameTask(t, u) /\ u.pc = "acked" /\ u.at = a /\ ~Pending(u)
    BY <1>0 DEF TaskRecs, SameTask, Places, Pending
<1>2. /\ t.pc = "push" /\ io' = (io \ {t}) \cup {u} /\ UNCHANGED <<CallVars, mapVars, lost>>
      /\ rcv' = [rcv EXCEPT ![a].chunks = @ \o t.chunks,
                            ![a].finished = IF t.eos THEN @ \cup {s} ELSE @]
    BY DEF PushChunks, Goes
<1>3. /\ setup' = setup /\ UNCHANGED <<sinkVars, lane, busy, err, inflight, track>>
      /\ UNCHANGED <<entry, made, tomb, frag, src, hnd, got, told, aborted, lost>>
    BY <1>2 DEF CallVars, mapVars, sourceVars
<1>4. /\ a \in 1 .. made /\ a \in 1 .. MaxReceivers /\ MaxReceivers \in Nat
      /\ rcv \in [1 .. MaxReceivers -> RcvRecs] /\ got \in Seq(Chunks) /\ made <= MaxReceivers
    BY <1>0, <1>2, SetupFacts DEF RecvOK, RecvShape
<1> PICK cs, ds : cs = rcv[a].chunks /\ ds = t.chunks OBVIOUS
<1>5. /\ rcv[a] \in RcvRecs /\ cs \in Seq(Chunks) /\ ds \in Seq(Chunks)
      /\ rcv[a].finished \subseteq Senders
    BY <1>0, <1>4 DEF RcvRecs, TaskRecs
<1>6. /\ rcv'[a].chunks = cs \o ds /\ rcv'[a].canceled = rcv[a].canceled
      /\ rcv'[a].finished = IF t.eos THEN rcv[a].finished \cup {s} ELSE rcv[a].finished
      /\ \A g \in 1 .. MaxReceivers : g # a => rcv'[g] = rcv[g]
    BY <1>2, <1>4, <1>5 DEF RcvRecs
<1>7. Pending(t) /\ t \in Tasks BY <1>2 DEF Pending, Tasks
<1>8. /\ \A i \in 1 .. Len(ds) : ~t.eos /\ ds[i] = <<t.drv, Lo(t) + i>>
      /\ Len(ds) # 0 => Lo(t) \in Nat
      /\ InOrder(ds)
      /\ \A es \in Seq(Chunks) : AllPast(es) => Follows(es, ds)
    BY <1>0, <1>7, DeliverFollows
<1>9. AllPast(cs) /\ InOrder(cs) /\ AllPast(got) /\ InOrder(got) BY <1>0, <1>4 DEF OrderOK
<1>10. Follows(cs, ds) /\ Follows(got, ds) BY <1>4, <1>5, <1>8, <1>9
<1>25. PICK all : all = cs \o ds OBVIOUS
<1>11. /\ all \in Seq(Chunks) /\ Len(all) = Len(cs) + Len(ds)
       /\ \A i \in 1 .. Len(all) : \/ i \in 1 .. Len(cs) /\ all[i] = cs[i]
                                   \/ i - Len(cs) \in 1 .. Len(ds) /\ all[i] = ds[i - Len(cs)]
       /\ InOrder(all)
       /\ Follows(got, cs) => Follows(got, all)
    <2>1. /\ InOrder(cs \o ds) /\ Len(cs \o ds) = Len(cs) + Len(ds) /\ cs \o ds \in Seq(Chunks)
          /\ \A i \in 1 .. Len(cs \o ds) :
                 \/ i \in 1 .. Len(cs) /\ (cs \o ds)[i] = cs[i]
                 \/ i - Len(cs) \in 1 .. Len(ds) /\ (cs \o ds)[i] = ds[i - Len(cs)]
        BY <1>5, <1>8, <1>9, <1>10, JoinOrder
    <2>2. Follows(got, cs) => Follows(got, cs \o ds)
        BY <1>4, <1>5, <1>8, <1>9, <1>10, JoinOrder
    <2> QED BY <1>25, <2>1, <2>2
<1>26. rcv'[a].chunks = all BY <1>6, <1>25
<1>27. /\ \A i \in 1 .. Len(cs) : \E j \in 1 .. Len(all) : all[j] = cs[i]
       /\ \A i \in 1 .. Len(ds) : \E j \in 1 .. Len(all) : all[j] = ds[i]
    <2>1. Contains(all, cs) /\ Contains(all, ds) BY <1>5, <1>25, JoinKeeps
    <2> QED BY <2>1 DEF Contains
<1>12. /\ Sinks' = Sinks /\ SenderOf' = SenderOf /\ Senders' = Senders /\ Sources' = Sources
       /\ MaxReceivers' = MaxReceivers /\ ChunksPerSink' = ChunksPerSink
       /\ Chunks' = Chunks /\ RcvRecs' = RcvRecs
    BY <1>3, SameSets
<1>13. QueueStill BY <1>3 DEF QueueStill, sinkVars
<1>14. /\ TasksOK' /\ QueueOK' /\ io' \subseteq TaskRecs
       /\ \A d : Sent(d)' = Sent(d)
       /\ u \in Tasks' /\ TaskOK(t)
       /\ \A x \in Tasks' : x = u \/ x \in Tasks
       /\ \A x \in Tasks : x = t \/ x \in Tasks'
       /\ \A x \in Tasks' : x # u /\ SenderOf[x.drv] = SenderOf[t.drv] => Before(t, x)
    BY <1>0, <1>1, <1>2, <1>13, GoesQueue
<1>15. SendShape' /\ SinkOK'
    <2>1. /\ lane' \in [Senders -> Seq(TaskRecs)] /\ busy' \subseteq Senders
          /\ err' \in [Senders -> BOOLEAN] /\ inflight' \in Int /\ track' \in [Sinks -> Int]
        BY <1>0, <1>3 DEF SendShape
    <2> QED BY <1>0, <1>3, <1>14, <2>1, SendKeep
<1>16. rcv' \in [1 .. MaxReceivers -> RcvRecs]
    <2> DEFINE fin == IF t.eos THEN rcv[a].finished \cup {s} ELSE rcv[a].finished
    <2>1. fin \subseteq Senders BY <1>0, <1>5
    <2> HIDE DEF fin
    <2>2. rcv' = [rcv EXCEPT ![a] = [rcv[a] EXCEPT !.chunks = all, !.finished = fin]]
        BY <1>2, <1>4, <1>5, <1>25 DEF RcvRecs, fin
    <2>3. [rcv[a] EXCEPT !.chunks = all, !.finished = fin] \in RcvRecs
        BY <1>5, <1>11, <2>1 DEF RcvRecs
    <2> QED BY <1>4, <2>2, <2>3
<1>17. RecvOK'
    <2>1. RecvShape' BY <1>0, <1>3, <1>12, <1>16 DEF RecvShape
    <2>2. \A g \in 1 .. MaxReceivers : g > made => rcv'[g] = FreshReceiver
        BY <1>0, <1>4, <1>6 DEF RecvOK
    <2>3. Up => \A g \in 1 .. made : g # entry => rcv'[g].canceled
        <3> SUFFICES ASSUME Up, NEW g \in 1 .. made, g # entry PROVE rcv'[g].canceled
            OBVIOUS
        <3>1. g \in 1 .. MaxReceivers BY <1>0, <1>4
        <3>2. rcv[g].canceled BY <1>0 DEF RecvOK
        <3> QED BY <1>6, <3>1, <3>2
    <2>4. \A x \in io' : x.at <= made /\ (x.pc \in {"meta", "push"} => x.at >= 1)
        BY <1>0, <1>1, <1>2 DEF RecvOK
    <2> QED BY <1>0, <1>3, <1>12, <2>1, <2>2, <2>3, <2>4 DEF RecvOK, Up
<1>18. \A c \in Chunks : Past(c) => Past(c)'
    <2>1. \A x \in Tasks' : Pending(x) => \E y \in Tasks : Pending(y) /\ SameTask(y, x)
        BY <1>1, <1>14 DEF SameTask
    <2>2. lane' \in [Senders -> Seq(TaskRecs)] BY <1>0, <1>3 DEF SendShape
    <2> QED BY <1>0, <1>3, <1>14, <2>1, <2>2, GoesPast
<1>19. ASSUME NEW c \in Chunks, NEW i \in 1 .. Len(ds), ds[i] = c PROVE Past(c)'
    <2>1. ~t.eos /\ c = <<t.drv, Lo(t) + i>> /\ t.chunks # <<>>
        <3>1. ~t.eos /\ c = <<t.drv, Lo(t) + i>> BY <1>8, <1>19
        <3> QED BY <1>14, <3>1 DEF TaskOK
    <2>2. Lo(t) \in Nat /\ Hi(t) \in Nat /\ Len(ds) \in Nat BY <1>0, <2>1, TaskBounds
    <2>3. c[1] = t.drv /\ c[2] = Lo(t) + i /\ c[2] <= Hi(t) /\ c[2] \in Int BY <2>1, <2>2 DEF Hi
    <2>4. c[2] <= Sent(c[1])'
        <3> PICK d : d = c[1] OBVIOUS
        <3>1. d \in Sinks /\ Sent(d) \in Int BY <1>0, <1>19, SentInt DEF Chunks
        <3>2. Hi(t) <= Sent(d) BY <1>14, <2>1, <2>3 DEF TaskOK
        <3>3. c[2] <= Sent(d)' BY <1>14, <2>2, <2>3, <3>1, <3>2
        <3> QED BY <3>3
    <2>5. ASSUME NEW x \in Tasks', Pending(x), ~x.eos, x.drv = c[1] PROVE c[2] <= Lo(x)
        <3>1. x # u /\ x \in Tasks BY <1>1, <1>14, <2>5
        <3>2. Before(t, x) BY <1>14, <2>3, <2>5, <3>1
        <3>3. Hi(t) <= Lo(x) BY <2>3, <2>5, <3>2 DEF Before
        <3>4. x \in TaskRecs /\ x.chunks # <<>>
            BY <1>0, <2>5, <3>1, TaskFacts DEF TaskOK
        <3>5. Lo(x) \in Nat BY <1>0, <3>4, TaskBounds
        <3> QED BY <2>2, <2>3, <3>3, <3>5
    <2> QED BY <2>4, <2>5 DEF Past
<1>20. OrderOK'
    <2>1. AllPast(got)' BY <1>3, <1>9, <1>12, <1>18 DEF AllPast
    <2>2. InOrder(got)' BY <1>3, <1>9 DEF InOrder
    <2>3. AllPast(rcv[a].chunks)'
        <3> SUFFICES ASSUME NEW c \in Chunks, NEW i \in 1 .. Len(all), all[i] = c PROVE Past(c)'
            BY <1>3, <1>12, <1>26 DEF AllPast
        <3>1. CASE i \in 1 .. Len(cs) /\ all[i] = cs[i] BY <1>9, <1>18, <3>1 DEF AllPast
        <3>2. CASE i - Len(cs) \in 1 .. Len(ds) /\ all[i] = ds[i - Len(cs)] BY <1>19, <3>2
        <3> QED BY <1>11, <3>1, <3>2
    <2>4. InOrder(rcv[a].chunks)' BY <1>11, <1>26 DEF InOrder
    <2>5. (Up /\ ~rcv[a].canceled => Follows(got, rcv[a].chunks))'
        <3>1. Up' => Up BY <1>3 DEF Up
        <3>2. Up => Follows(got, cs) BY <1>0, <1>4 DEF OrderOK
        <3>3. Up => Follows(got, all) BY <1>11, <3>2
        <3> QED BY <1>3, <1>26, <3>1, <3>3 DEF Follows
    <2>6. ASSUME NEW g \in 1 .. MaxReceivers, g # a
          PROVE  /\ AllPast(rcv[g].chunks)' /\ InOrder(rcv[g].chunks)'
                 /\ (Up /\ ~rcv[g].canceled => Follows(got, rcv[g].chunks))'
        <3>0. rcv'[g] = rcv[g] BY <1>6, <2>6
        <3>1. AllPast(rcv[g].chunks)' BY <1>0, <1>12, <1>18, <3>0 DEF OrderOK, AllPast
        <3>2. InOrder(rcv[g].chunks)' BY <1>0, <3>0 DEF OrderOK, InOrder
        <3>3. (Up /\ ~rcv[g].canceled => Follows(got, rcv[g].chunks))'
            BY <1>0, <1>3, <3>0 DEF OrderOK, Follows, Up
        <3> QED BY <3>1, <3>2, <3>3
    <2>7. ASSUME NEW g \in 1 .. MaxReceivers
          PROVE  /\ AllPast(rcv[g].chunks)' /\ InOrder(rcv[g].chunks)'
                 /\ (Up /\ ~rcv[g].canceled => Follows(got, rcv[g].chunks))'
        <3>1. CASE g = a BY <1>3, <2>3, <2>4, <2>5, <3>1
        <3>2. CASE g # a BY <2>6, <3>2
        <3> QED BY <3>1, <3>2
    <2> QED BY <1>12, <2>1, <2>2, <2>7 DEF OrderOK
<1>21. \A c : Arrived(c) => Arrived(c)'
    <2> SUFFICES ASSUME NEW c, Arrived(c) PROVE Arrived(c)'
        OBVIOUS
    <2>1. CASE \E i \in 1 .. Len(got) : got[i] = c BY <1>3, <2>1 DEF Arrived
    <2>2. CASE \E g \in 1 .. made : \E i \in 1 .. Len(rcv[g].chunks) : rcv[g].chunks[i] = c
        <3>1. PICK g \in 1 .. made : \E i \in 1 .. Len(rcv[g].chunks) : rcv[g].chunks[i] = c BY <2>2
        <3>2. g \in 1 .. MaxReceivers BY <1>0, <1>4
        <3>3. \E i \in 1 .. Len(rcv'[g].chunks) : rcv'[g].chunks[i] = c
            <4>1. CASE g # a BY <1>6, <3>1, <3>2, <4>1
            <4>2. CASE g = a
                <5>1. PICK i \in 1 .. Len(cs) : cs[i] = c BY <3>1, <4>2
                <5> QED BY <1>26, <1>27, <4>2, <5>1
            <4> QED BY <4>1, <4>2
        <3> QED BY <1>3, <3>1, <3>3 DEF Arrived
    <2> QED BY <2>1, <2>2 DEF Arrived
<1>22. \A i \in 1 .. Len(ds) : Arrived(ds[i])'
    <2> SUFFICES ASSUME NEW i \in 1 .. Len(ds) PROVE Arrived(ds[i])'
        OBVIOUS
    <2>4. \E k \in 1 .. Len(rcv'[a].chunks) : rcv'[a].chunks[k] = ds[i] BY <1>26, <1>27
    <2> PICK c : c = ds[i] OBVIOUS
    <2>5. Arrived(c)' BY <1>3, <1>4, <2>4 DEF Arrived
    <2> QED BY <2>5
<1>23. LiveOK'
    <2>0. Live' => Live BY <1>3 DEF Live, Canceled, Up
    <2> SUFFICES ASSUME Live PROVE (OneReceiver /\ NothingLost /\ FinishedArrived)'
        BY <2>0 DEF LiveOK
    <2>1. OneReceiver /\ NothingLost /\ FinishedArrived BY <1>0 DEF LiveOK
    <2>2. OneReceiver' BY <1>3, <1>6, <1>12, <2>1 DEF OneReceiver
    <2>3. NothingLost'
        <3> SUFFICES ASSUME NEW d \in Sinks, SenderOf[d] \notin lost, NEW k \in 1 .. Sent(d)
                     PROVE  Arrived(<<d, k>>)' \/ OnItsWay(d, k)'
            BY <1>3, <1>12, <1>14 DEF NothingLost
        <3>1. Arrived(<<d, k>>) \/ OnItsWay(d, k) BY <2>1 DEF NothingLost
        <3>2. CASE Arrived(<<d, k>>) BY <1>21, <3>2
        <3>3. CASE OnItsWay(d, k)
            <4>1. PICK x \in Tasks : Pending(x) /\ ~x.eos /\ x.drv = d /\ Lo(x) < k /\ k <= Hi(x)
                BY <3>3 DEF OnItsWay
            <4>2. CASE x # t BY <1>14, <4>1, <4>2 DEF OnItsWay
            <4>3. CASE x = t
                <5>1. t.chunks # <<>> BY <1>14, <4>1, <4>3 DEF TaskOK
                <5>2. Lo(t) \in Nat /\ Hi(t) = Lo(t) + Len(ds) /\ Len(ds) \in Nat
                    BY <1>0, <5>1, TaskBounds DEF Hi
                <5> PICK i : i = k - Lo(t) OBVIOUS
                <5>3. i \in 1 .. Len(ds) /\ Lo(t) + i = k BY <4>1, <4>3, <5>2
                <5>4. ds[i] = <<d, k>> BY <1>8, <4>1, <4>3, <5>3
                <5> PICK c : c = ds[i] OBVIOUS
                <5>5. Arrived(c)' BY <1>22, <5>3
                <5> QED BY <5>4, <5>5
            <4> QED BY <4>2, <4>3
        <3> QED BY <3>1, <3>2, <3>3
    <2>4. FinishedArrived'
        <3>1. \A q : AllChunks(q)' = AllChunks(q) BY <1>12 DEF AllChunks, SinksOf
        <3> SUFFICES ASSUME NEW g \in 1 .. made, NEW q \in rcv'[g].finished, q \notin lost,
                            NEW c \in AllChunks(q)
                     PROVE  Arrived(c)'
            BY <1>3, <3>1 DEF FinishedArrived
        <3>2. g \in 1 .. MaxReceivers BY <1>0, <1>4
        <3>3. CASE q \in rcv[g].finished
            <4>1. Arrived(c) BY <2>1, <3>3 DEF FinishedArrived
            <4> QED BY <1>21, <4>1
        <3>4. CASE q \notin rcv[g].finished
            <4>1. t.eos /\ q = s BY <1>6, <3>2, <3>4
            <4>2. \A d \in SinksOf(s) : Sent(d) = ChunksPerSink BY <1>0, <1>7, <4>1, EosIsLast
            <4>3. PICK d \in SinksOf(s), k \in 1 .. ChunksPerSink : c = <<d, k>>
                BY <4>1 DEF AllChunks
            <4>4. d \in Sinks /\ SenderOf[d] = s /\ Sent(d) = ChunksPerSink BY <4>2 DEF SinksOf
            <4>5. Arrived(<<d, k>>) \/ OnItsWay(d, k) BY <2>1, <4>1, <4>4 DEF NothingLost
            <4>6. ~OnItsWay(d, k)
                <5> SUFFICES ASSUME OnItsWay(d, k) PROVE FALSE
                    OBVIOUS
                <5>1. PICK x \in Tasks : ~x.eos /\ x.drv = d BY DEF OnItsWay
                <5>2. x # t /\ x # u /\ x \in Tasks' BY <1>1, <1>14, <4>1, <5>1 DEF SameTask
                <5>3. Before(t, x) BY <1>14, <4>4, <5>1, <5>2
                <5> QED BY <4>1, <5>3 DEF Before
            <4> QED BY <1>21, <4>3, <4>5, <4>6
        <3> QED BY <3>3, <3>4
    <2> QED BY <2>2, <2>3, <2>4
<1>24. EndMeansAll'
    <2>1. \A q : AllChunks(q)' = AllChunks(q) BY <1>12 DEF AllChunks, SinksOf
    <2>2. Popped' = Popped /\ Canceled' = Canceled BY <1>3 DEF Popped, Canceled
    <2> QED BY <1>0, <1>3, <1>12, <2>1, <2>2 DEF EndMeansAll
<1> QED BY <1>14, <1>15, <1>17, <1>20, <1>23, <1>24 DEF ExInv

LEMMA PushChunksStep ==
    ASSUME ExInv, NEW t \in io, PushChunks(t)
    PROVE  ExInv'
<1>1. CASE ~rcv[t.at].canceled BY <1>1, DeliverStep
<1>2. CASE rcv[t.at].canceled
    <2>0. /\ t \in TaskRecs /\ made \in Nat /\ RecvOK /\ lost \subseteq Senders
          /\ t.at \in Nat /\ t.at <= made /\ setup \in Setups /\ RecvShape
          /\ err \in [Senders -> BOOLEAN] /\ inflight \in Int /\ track \in [Sinks -> Int]
        BY CallFacts
    <2> PICK u : u = [t EXCEPT !.pc = "acked", !.at = t.at] OBVIOUS
    <2>1. u \in TaskRecs /\ SameTask(t, u) /\ u.pc = "acked" /\ u.at = t.at
        BY <2>0 DEF TaskRecs, SameTask, Places
    <2>2. /\ t.pc = "push" /\ io' = (io \ {t}) \cup {u}
          /\ UNCHANGED <<CallVars, mapVars, rcv, lost>>
        BY <1>2 DEF PushChunks, Goes
    <2>3. /\ Looks /\ UNCHANGED <<sinkVars, lane, busy, err, inflight, track>> /\ made' = made
        BY <2>0, <2>2, LooksStill DEF CallVars, mapVars, sourceVars
    <2>4. ~Pending(u) /\ ~Live
        <3>1. t.at \in 1 .. MaxReceivers BY <2>0, <2>2, SetupFacts DEF RecvOK, RecvShape
        <3> QED BY <1>2, <2>1, <3>1 DEF Pending, ExInv, LiveOK, OneReceiver
    <2>5. u.at <= made' /\ u.pc \notin {"meta", "push"} BY <2>0, <2>1, <2>3
    <2> QED BY <2>0, <2>1, <2>2, <2>3, <2>4, <2>5, CallMoves
<1> QED BY <1>1, <1>2

-----------------------------------------------------------------------------
(* The other steps of the sinks *)

LEMMA QuietSinkStep ==
    ASSUME ExInv, UNCHANGED <<recvVars, lifeVars>>, NEW d \in Sinks,
           \/ AskInput(d) \/ FailOnError(d) \/ CheckError(d) \/ MaybeMarkFinished(d)
           \/ UpstreamFails(d)
    PROVE  ExInv'
<1>0. /\ SendShape /\ SinkOK /\ setup \in Setups /\ RecvSame /\ setup' = setup
    BY DEF ExInv, SendShape, recvVars, lifeVars, mapVars, sourceVars, RecvSame
<1>1. BuffersOK(d) /\ err \in [Senders -> BOOLEAN] /\ SenderOf[d] \in Senders
    BY <1>0, SetupFacts DEF SinkOK, SendShape
<1>2. /\ UNCHANGED <<pushed, pend, pay, meta, left, queueVars>>
      /\ err' = err \/ err' = [err EXCEPT ![SenderOf[d]] = TRUE]
    BY DEF AskInput, FailOnError, CheckError, MaybeMarkFinished, UpstreamFails
<1>3. /\ SendSame /\ UNCHANGED <<meta, inflight, track>> /\ err' \in [Senders -> BOOLEAN]
    BY <1>0, <1>1, <1>2 DEF SendSame, queueVars
<1>4. \E v \in SinkStates :
         /\ sink' = [sink EXCEPT ![d] = v]
         /\ v \in Buffered => sink[d] \in Buffered
         /\ v \in {"flushed", "finishing", "checked", "finished"} => Drained(d)
         /\ v = "asked" => pushed[d] < ChunksPerSink
    <2>1. CASE AskInput(d)
        <3>1. /\ sink' = [sink EXCEPT ![d] = "asked"] /\ sink[d] = "open"
              /\ pushed[d] < ChunksPerSink /\ "asked" \in SinkStates
            BY <2>1 DEF AskInput, SinkStates
        <3> QED BY <3>1 DEF Buffered
    <2>2. CASE FailOnError(d) \/ UpstreamFails(d)
        <3>1. sink' = [sink EXCEPT ![d] = "failed"] /\ "failed" \in SinkStates
            BY <2>2 DEF FailOnError, UpstreamFails, SinkStates
        <3> QED BY <3>1 DEF Buffered
    <2>3. CASE CheckError(d)
        <3>1. /\ sink' = [sink EXCEPT ![d] = "checked"] /\ "checked" \in SinkStates /\ Drained(d)
            BY <1>1, <2>3 DEF CheckError, SinkStates, BuffersOK
        <3> QED BY <3>1 DEF Buffered
    <2>4. CASE MaybeMarkFinished(d)
        <3> PICK v : v = IF SendsIdle(d) THEN "finished" ELSE "finishing" OBVIOUS
        <3>1. /\ sink' = [sink EXCEPT ![d] = v] /\ v \in SinkStates /\ Drained(d)
              /\ v \notin Buffered
            BY <1>1, <2>4 DEF MaybeMarkFinished, SinkStates, BuffersOK, Buffered
        <3> QED BY <3>1 DEF Buffered
    <2> QED BY <2>1, <2>2, <2>3, <2>4
<1> QED BY <1>0, <1>3, <1>4, SinkMoves

-----------------------------------------------------------------------------
(* The receiving fragment *)

LEMMA SendStill ==
    ASSUME ExInv, UNCHANGED sendVars
    PROVE  /\ SendShape' /\ SinkOK' /\ TasksOK' /\ QueueOK' /\ Tasks' = Tasks /\ io' = io
           /\ setup' = setup /\ setup \in Setups
           /\ \A d : Sent(d)' = Sent(d)
           /\ \A c : Past(c) => Past(c)'
           /\ \A d, k : OnItsWay(d, k) => OnItsWay(d, k)'
<1>0. SendShape /\ SinkOK /\ TasksOK /\ QueueOK /\ setup \in Setups BY DEF ExInv, SendShape
<1>1. SendSame /\ io' = io /\ UNCHANGED <<setup, sinkVars, err, inflight, track, lane, busy>>
    BY DEF sendVars, sinkVars, queueVars, SendSame
<1>2. /\ TasksOK' /\ QueueOK' /\ Tasks' = Tasks
      /\ \A d : Sent(d)' = Sent(d)
      /\ \A c : Past(c) => Past(c)'
      /\ \A d, k : OnItsWay(d, k) => OnItsWay(d, k)'
    BY <1>0, <1>1, SendFrame
<1>3. SendShape' /\ SinkOK'
    <2>1. /\ io' \subseteq TaskRecs /\ lane' \in [Senders -> Seq(TaskRecs)] /\ busy' \subseteq Senders
          /\ err' \in [Senders -> BOOLEAN] /\ inflight' \in Int /\ track' \in [Sinks -> Int]
        BY <1>0, <1>1 DEF SendShape
    <2> QED BY <1>0, <1>1, <2>1, SendKeep
<1> QED BY <1>0, <1>1, <1>2, <1>3

FragStates == {"planned", "building", "running", "ok", "failed", "canceled", "removed"}
SrcStates == {"new", "checked", "ready", "started"} \cup SourceOver

\* The fragment or a source moves on; the receivers stay as they are, one may
\* be created, and the tombstone may be forgotten. A source that is newly
\* finished has seen everything.
LEMMA FragmentMoves ==
    ASSUME ExInv, UNCHANGED sendVars, UNCHANGED <<rcv, got, told, aborted, lost>>,
           (entry' = entry /\ made' = made) \/ GetOrCreate,
           tomb' \in BOOLEAN, tomb' => tomb, frag' \in FragStates, Up' => Up,
           src' \in [Sources -> SrcStates], hnd' \in [Sources -> 0 .. made'],
           \A r \in Sources : /\ src'[r] \in {"ready", "started"} => hnd'[r] >= 1
                              /\ src'[r] = "checked" => frag' = "building",
           \A r \in Sources : src'[r] = "finished" =>
               \/ src[r] = "finished"
               \/ Canceled \/ \A s \in Senders : s \in lost \/ AllChunks(s) \subseteq Popped
    PROVE  ExInv'
<1>0. /\ RecvOK /\ RecvShape /\ OrderOK /\ LiveOK /\ EndMeansAll BY DEF ExInv, RecvOK
<1>1. /\ SendShape' /\ SinkOK' /\ TasksOK' /\ QueueOK' /\ Tasks' = Tasks /\ io' = io
      /\ setup' = setup /\ setup \in Setups
      /\ \A d : Sent(d)' = Sent(d)
      /\ \A c : Past(c) => Past(c)'
      /\ \A d, k : OnItsWay(d, k) => OnItsWay(d, k)'
    BY SendStill
<1>2. /\ Sinks' = Sinks /\ SenderOf' = SenderOf /\ Senders' = Senders /\ Sources' = Sources
      /\ MaxReceivers' = MaxReceivers /\ ChunksPerSink' = ChunksPerSink
      /\ Chunks' = Chunks /\ RcvRecs' = RcvRecs /\ MaxReceivers \in Nat
    BY <1>1, SameSets, SetupFacts
<1>3. /\ made \in Nat /\ made <= MaxReceivers /\ entry \in 0 .. made BY <1>0, <1>2 DEF RecvShape
<1>4. /\ made' \in 0 .. MaxReceivers /\ made <= made' /\ entry' \in 0 .. made' /\ made' \in Nat
      /\ \/ entry' = entry /\ made' = made
         \/ entry = 0 /\ entry' = made + 1 /\ made' = made + 1
    <2>1. CASE entry' = entry /\ made' = made BY <1>2, <1>3, <2>1
    <2>2. CASE GetOrCreate BY <1>0, <1>1, <1>2, <2>2, GetFacts
    <2> QED BY <2>1, <2>2
<1>5. RecvShape'
    BY <1>0, <1>2, <1>4 DEF RecvShape, FragStates, SrcStates
<1>6. RecvOK'
    <2>1. Up' => \A g \in 1 .. made' : g # entry' => rcv[g].canceled
        <3> SUFFICES ASSUME Up, NEW g \in 1 .. made', g # entry' PROVE rcv[g].canceled
            OBVIOUS
        <3>1. g \in 1 .. made /\ g # entry BY <1>3, <1>4
        <3> QED BY <1>0, <3>1 DEF RecvOK
    <2>2. \A g \in 1 .. MaxReceivers : g > made' => rcv[g] = FreshReceiver
        BY <1>0, <1>2, <1>3, <1>4 DEF RecvOK
    <2>3. \A x \in io : x.at <= made' /\ (x.pc \in {"meta", "push"} => x.at >= 1)
        <3> SUFFICES ASSUME NEW x \in io
                     PROVE  x.at <= made' /\ (x.pc \in {"meta", "push"} => x.at >= 1)
            OBVIOUS
        <3>1. x.at \in Nat /\ x.at <= made BY CallFacts
        <3> QED BY <1>0, <1>3, <1>4, <3>1 DEF RecvOK
    <2> QED BY <1>1, <1>2, <1>5, <2>1, <2>2, <2>3 DEF RecvOK
<1>7. OrderOK'
    <2>1. AllPast(got)' BY <1>0, <1>1, <1>2 DEF OrderOK, AllPast
    <2>2. InOrder(got)' BY <1>0 DEF OrderOK, InOrder
    <2>3. ASSUME NEW g \in 1 .. MaxReceivers
          PROVE  /\ AllPast(rcv[g].chunks)' /\ InOrder(rcv[g].chunks)'
                 /\ (Up /\ ~rcv[g].canceled => Follows(got, rcv[g].chunks))'
        <3>1. AllPast(rcv[g].chunks)' BY <1>0, <1>1, <1>2 DEF OrderOK, AllPast
        <3>2. InOrder(rcv[g].chunks)' BY <1>0 DEF OrderOK, InOrder
        <3>3. (Up /\ ~rcv[g].canceled => Follows(got, rcv[g].chunks))'
            BY <1>0 DEF OrderOK, Follows
        <3> QED BY <3>1, <3>2, <3>3
    <2> QED BY <1>2, <2>1, <2>2, <2>3 DEF OrderOK
<1>8. LiveOK'
    <2> SUFFICES ASSUME Live' PROVE (OneReceiver /\ NothingLost /\ FinishedArrived)'
        BY DEF LiveOK
    <2>1. OneReceiver /\ NothingLost /\ FinishedArrived BY <1>0 DEF LiveOK, Live, Canceled
    <2>2. \A c : Arrived(c) => Arrived(c)' BY <1>3, <1>4 DEF Arrived
    <2>3. OneReceiver' BY <1>2, <1>3, <1>4, <2>1 DEF OneReceiver
    <2>4. NothingLost' BY <1>1, <1>2, <2>1, <2>2 DEF NothingLost
    <2>5. FinishedArrived'
        <3>1. \A q : AllChunks(q)' = AllChunks(q) BY <1>2 DEF AllChunks, SinksOf
        <3> SUFFICES ASSUME NEW g \in 1 .. made', NEW s \in rcv[g].finished, s \notin lost,
                            NEW c \in AllChunks(s)
                     PROVE  Arrived(c)'
            BY <3>1 DEF FinishedArrived
        <3>2. g \in 1 .. MaxReceivers BY <1>2, <1>4
        <3>3. g \in 1 .. made
            <4>1. CASE g > made BY <1>0, <3>2, <4>1 DEF RecvOK, FreshReceiver
            <4> QED BY <1>3, <1>4, <4>1
        <3>4. Arrived(c) BY <2>1, <3>3 DEF FinishedArrived
        <3> QED BY <2>2, <3>4
    <2> QED BY <2>3, <2>4, <2>5
<1>9. EndMeansAll'
    <2>1. \A q : AllChunks(q)' = AllChunks(q) BY <1>2 DEF AllChunks, SinksOf
    <2>2. Popped' = Popped /\ Canceled' = Canceled BY DEF Popped, Canceled
    <2> QED BY <1>0, <1>2, <2>1, <2>2 DEF EndMeansAll
<1> QED BY <1>1, <1>6, <1>7, <1>8, <1>9 DEF ExInv

LEMMA FragmentFacts ==
    ASSUME ExInv
    PROVE  /\ RecvOK /\ RecvShape /\ setup \in Setups /\ made \in Nat
           /\ src \in [Sources -> SrcStates] /\ hnd \in [Sources -> 0 .. made]
           /\ frag \in FragStates /\ tomb \in BOOLEAN
           /\ \A r \in Sources : /\ src[r] \in {"ready", "started"} => hnd[r] >= 1
                                 /\ src[r] = "checked" => frag = "building"
BY SetupFacts DEF ExInv, SendShape, RecvOK, RecvShape, SrcStates, FragStates

\* A source ends without having seen the end of the exchange.
LEMMA SourceGivesUp ==
    ASSUME ExInv, UNCHANGED sendVars, UNCHANGED <<mapVars, rcv, frag, hnd, got, told, aborted, lost>>,
           NEW r \in Sources, NEW v \in {"failed", "stopped"}, src' = [src EXCEPT ![r] = v]
    PROVE  ExInv'
<1>0. /\ src \in [Sources -> SrcStates] /\ hnd \in [Sources -> 0 .. made] /\ frag \in FragStates
      /\ tomb \in BOOLEAN
      /\ \A q \in Sources : /\ src[q] \in {"ready", "started"} => hnd[q] >= 1
                            /\ src[q] = "checked" => frag = "building"
    BY FragmentFacts
<1>1. /\ src' \in [Sources -> SrcStates] /\ \A q \in Sources : src'[q] = src[q] \/ src'[q] = v
    BY <1>0 DEF SrcStates, SourceOver
<1>2. Up' => Up BY DEF Up
<1>3. /\ entry' = entry /\ made' = made /\ tomb' = tomb /\ hnd' \in [Sources -> 0 .. made']
    BY <1>0 DEF mapVars
<1> QED BY <1>0, <1>1, <1>2, <1>3, FragmentMoves

LEMMA RegisterExchangeStep ==
    ASSUME ExInv, UNCHANGED <<sendVars, lifeVars>>, RegisterExchange
    PROVE  ExInv'
<1>0. /\ src \in [Sources -> SrcStates] /\ hnd \in [Sources -> 0 .. made] /\ tomb \in BOOLEAN
      /\ \A q \in Sources : /\ src[q] \in {"ready", "started"} => hnd[q] >= 1
                            /\ src[q] = "checked" => frag = "building"
      /\ setup \in Setups /\ RecvShape /\ made \in Nat
    BY FragmentFacts
<1>1. /\ frag = "planned" /\ UNCHANGED <<rcv, src, hnd, got, told, aborted, lost, tomb>>
      /\ (frag' = "failed" /\ entry' = entry /\ made' = made) \/ (frag' = "building" /\ GetOrCreate)
    BY DEF RegisterExchange, lifeVars, mapVars, GetOrCreate
<1>2. hnd' \in [Sources -> 0 .. made']
    <2>1. made' \in Nat /\ made <= made'
        <3>1. CASE GetOrCreate BY <1>0, <3>1, GetFacts, SetupFacts
        <3> QED BY <1>0, <1>1, <3>1
    <2> QED BY <1>0, <1>1, <2>1
<1>3. Up' => Up BY <1>1 DEF Up
<1>4. frag' \in FragStates /\ \A q \in Sources : src[q] # "checked" BY <1>0, <1>1 DEF FragStates
<1> QED BY <1>0, <1>1, <1>2, <1>3, <1>4, FragmentMoves

LEMMA PrepareCheckStep ==
    ASSUME ExInv, UNCHANGED <<sendVars, lifeVars>>, NEW r \in Sources, PrepareCheck(r)
    PROVE  ExInv'
<1>0. /\ src \in [Sources -> SrcStates] /\ hnd \in [Sources -> 0 .. made] /\ tomb \in BOOLEAN
      /\ \A q \in Sources : /\ src[q] \in {"ready", "started"} => hnd[q] >= 1
                            /\ src[q] = "checked" => frag = "building"
    BY FragmentFacts
<1>1. /\ frag = "building" /\ src[r] = "new" /\ \A q \in Sources : src[q] # "checked"
      /\ UNCHANGED <<entry, made, tomb, rcv, hnd, got, told, aborted, lost>>
      /\ \/ frag' = "failed" /\ src' = src
         \/ frag' = "building" /\ src' = [src EXCEPT ![r] = "checked"]
    BY DEF PrepareCheck, lifeVars, mapVars
<1>2. /\ src' \in [Sources -> SrcStates] /\ frag' \in FragStates
      /\ hnd' \in [Sources -> 0 .. made']
      /\ \A q \in Sources : src'[q] = src[q] \/ (src'[q] = "checked" /\ frag' = "building")
    BY <1>0, <1>1 DEF SrcStates, FragStates
<1>3. Up' => Up BY <1>1 DEF Up
<1> QED BY <1>0, <1>1, <1>2, <1>3, FragmentMoves

LEMMA PrepareGetStep ==
    ASSUME ExInv, UNCHANGED <<sendVars, lifeVars>>, NEW r \in Sources, PrepareGet(r)
    PROVE  ExInv'
<1>0. /\ src \in [Sources -> SrcStates] /\ hnd \in [Sources -> 0 .. made] /\ tomb \in BOOLEAN
      /\ \A q \in Sources : /\ src[q] \in {"ready", "started"} => hnd[q] >= 1
                            /\ src[q] = "checked" => frag = "building"
      /\ setup \in Setups /\ RecvShape /\ made \in Nat
    BY FragmentFacts
<1> PICK g : g = Receiver OBVIOUS
<1>1. /\ src[r] = "checked" /\ GetOrCreate /\ UNCHANGED <<tomb, rcv, got, told, aborted, lost>>
      /\ hnd' = [hnd EXCEPT ![r] = g] /\ src' = [src EXCEPT ![r] = "ready"]
      /\ frag' = IF \A q \in Sources \ {r} : src[q] = "ready" THEN "running" ELSE frag
    BY DEF PrepareGet, lifeVars, GetOrCreate
<1>2. made' \in Nat /\ made <= made' /\ g \in 1 .. made' BY <1>0, <1>1, GetFacts, SetupFacts
<1>3. frag = "building" BY <1>0, <1>1
<1>4. /\ frag' \in FragStates /\ Up' /\ Up BY <1>1, <1>3 DEF FragStates, Up
<1>5. /\ src' \in [Sources -> SrcStates] /\ src'[r] = "ready"
      /\ \A q \in Sources : q # r => src'[q] = src[q]
    BY <1>0, <1>1 DEF SrcStates
<1>6. /\ hnd' \in [Sources -> 0 .. made'] /\ hnd'[r] = g
      /\ \A q \in Sources : q # r => hnd'[q] = hnd[q]
    <2>1. \A q \in Sources : hnd[q] \in 0 .. made' BY <1>0, <1>2
    <2>2. g \in 0 .. made' BY <1>2
    <2> QED BY <1>0, <1>1, <2>1, <2>2
<1>7. \A q \in Sources : /\ src'[q] \in {"ready", "started"} => hnd'[q] >= 1
                         /\ src'[q] = "checked" => frag' = "building"
    <2> SUFFICES ASSUME NEW q \in Sources
                 PROVE  /\ src'[q] \in {"ready", "started"} => hnd'[q] >= 1
                        /\ src'[q] = "checked" => frag' = "building"
        OBVIOUS
    <2>1. CASE q = r BY <1>2, <1>5, <1>6, <2>1
    <2>2. CASE q # r
        <3>1. src'[q] = src[q] /\ hnd'[q] = hnd[q] BY <1>5, <1>6, <2>2
        <3>2. src[q] = "checked" => frag' = "building" BY <1>1, <1>3, <2>2
        <3> QED BY <1>0, <3>1, <3>2
    <2> QED BY <2>1, <2>2
<1>8. \A q \in Sources : src'[q] = "finished" => src[q] = "finished" BY <1>5
<1>9. tomb' \in BOOLEAN /\ (tomb' => tomb) BY <1>0, <1>1
<1> QED BY <1>1, <1>4, <1>5, <1>6, <1>7, <1>8, <1>9, FragmentMoves

LEMMA FragmentEndsStep ==
    ASSUME ExInv, UNCHANGED <<sendVars, lifeVars>>, FragmentEnds
    PROVE  ExInv'
<1>0. /\ src \in [Sources -> SrcStates] /\ hnd \in [Sources -> 0 .. made] /\ tomb \in BOOLEAN
      /\ \A q \in Sources : /\ src[q] \in {"ready", "started"} => hnd[q] >= 1
                            /\ src[q] = "checked" => frag = "building"
    BY FragmentFacts
<1>1. /\ frag = "running" /\ frag' \in {"failed", "ok"}
      /\ UNCHANGED <<entry, made, tomb, rcv, src, hnd, got, told, aborted, lost>>
    BY DEF FragmentEnds, lifeVars, mapVars
<1>2. frag' \in FragStates /\ (Up' => Up) /\ hnd' \in [Sources -> 0 .. made']
      /\ \A q \in Sources : src[q] # "checked"
    BY <1>0, <1>1 DEF FragStates, Up
<1> QED BY <1>0, <1>1, <1>2, FragmentMoves

LEMMA ForgetStep ==
    ASSUME ExInv, Forget
    PROVE  ExInv'
<1>0. /\ src \in [Sources -> SrcStates] /\ hnd \in [Sources -> 0 .. made] /\ frag \in FragStates
      /\ \A q \in Sources : /\ src[q] \in {"ready", "started"} => hnd[q] >= 1
                            /\ src[q] = "checked" => frag = "building"
    BY FragmentFacts
<1>1. /\ tomb' = FALSE /\ UNCHANGED sendVars
      /\ UNCHANGED <<entry, made, rcv, frag, src, hnd, got, told, aborted, lost>>
    BY DEF Forget, ForgetTombstone, lifeVars, sourceVars
<1>2. (Up' => Up) /\ hnd' \in [Sources -> 0 .. made'] BY <1>0, <1>1 DEF Up
<1> QED BY <1>0, <1>1, <1>2, FragmentMoves

LEMMA QuitStep ==
    ASSUME ExInv, NEW r \in Sources,
           \/ (AbortSource(r) \/ StopEarly(r) \/ PullTimeout(r)) /\ UNCHANGED <<sendVars, lifeVars>>
           \/ AbortFromQuery(r)
    PROVE  ExInv'
<1>1. /\ UNCHANGED sendVars /\ UNCHANGED <<mapVars, rcv, frag, hnd, got, told, aborted, lost>>
      /\ \/ src' = [src EXCEPT ![r] = "failed"]
         \/ src' = [src EXCEPT ![r] = "stopped"]
    BY DEF AbortSource, StopEarly, PullTimeout, AbortFromQuery, lifeVars
<1> QED BY <1>1, SourceGivesUp

\* A source that finds every sender finished and nothing left has seen it all.
LEMMA EndSeen ==
    ASSUME ExInv, NEW g \in 1 .. made, frag = "running", ~Canceled,
           rcv[g].chunks = <<>>, AllFinished(g)
    PROVE  \A s \in Senders : s \in lost \/ AllChunks(s) \subseteq Popped
<1>0. /\ RecvOK /\ RecvShape /\ setup \in Setups /\ made \in Nat /\ got \in Seq(Chunks)
    BY FragmentFacts DEF RecvShape
<1>1. OneReceiver /\ FinishedArrived BY DEF ExInv, LiveOK, Live, Up
<1>2. \A x \in 1 .. made : x = g BY <1>0, <1>1 DEF OneReceiver
<1>3. g \in 1 .. MaxReceivers BY <1>0, SetupFacts DEF RecvShape
<1>4. rcv[g].finished = Senders
    <2> PICK F, S : F = rcv[g].finished /\ S = Senders OBVIOUS
    <2>1. IsFiniteSet(S) /\ F \subseteq S BY <1>0, <1>3, SetupFacts DEF RecvShape, RcvRecs
    <2>2. /\ IsFiniteSet(F) /\ Cardinality(F) <= Cardinality(S)
          /\ (Cardinality(S) = Cardinality(F) => S = F)
        BY <2>1, FS_Subset
    <2>3. Cardinality(F) \in Nat /\ Cardinality(S) \in Nat BY <2>1, <2>2, FS_CardinalityType
    <2>4. Cardinality(F) >= Cardinality(S) BY DEF AllFinished, Expected
    <2> QED BY <2>2, <2>3, <2>4
<1> SUFFICES ASSUME NEW s \in Senders, s \notin lost, NEW c \in AllChunks(s) PROVE c \in Popped
    OBVIOUS
<1>5. Arrived(c) BY <1>1, <1>4 DEF FinishedArrived
<1>6. Len(<<>>) = 0 BY EmptySeq
<1>7. \E i \in 1 .. Len(got) : got[i] = c BY <1>2, <1>5, <1>6 DEF Arrived
<1>8. DOMAIN got = 1 .. Len(got) BY <1>0, LenProperties
<1> QED BY <1>7, <1>8 DEF Popped

\* What a pop does to two sequences of chunks.
Mixes(all, es, cs) ==
    \A i \in 1 .. Len(all) : \/ \E j \in 1 .. Len(es) : es[j] = all[i]
                             \/ \E j \in 1 .. Len(cs) : cs[j] = all[i]

LEMMA PopOrder ==
    ASSUME NEW es \in Seq(Chunks), NEW cs \in Seq(Chunks), cs # <<>>,
           InOrder(es), InOrder(cs), Follows(es, cs)
    PROVE  /\ Append(es, Head(cs)) \in Seq(Chunks) /\ Tail(cs) \in Seq(Chunks)
           /\ InOrder(Append(es, Head(cs))) /\ InOrder(Tail(cs))
           /\ Follows(Append(es, Head(cs)), Tail(cs))
           /\ Contains(Append(es, Head(cs)), es)
           /\ Contains(cs, Tail(cs))
           /\ Mixes(Append(es, Head(cs)), es, cs)
           /\ Mixes(cs, Append(es, Head(cs)), Tail(cs))
<1> PICK h, rest, all : h = Head(cs) /\ rest = Tail(cs) /\ all = Append(es, Head(cs)) OBVIOUS
<1> PICK n, m : n = Len(es) /\ m = Len(cs) OBVIOUS
<1>1. /\ h = cs[1] /\ m \in Nat \ {0} /\ rest \in Seq(Chunks)
      /\ Len(rest) = m - 1 /\ \A i \in 1 .. Len(rest) : rest[i] = cs[i + 1]
    BY HeadTailProperties, EmptySeq
<1>2. h \in Chunks BY <1>1, ElementOfSeq
<1>3. /\ all \in Seq(Chunks) /\ Len(all) = n + 1 /\ all[n + 1] = h
      /\ \A i \in 1 .. n : all[i] = es[i]
    BY <1>2, AppendProperties
<1>4. n \in Nat /\ 1 \in 1 .. m /\ \A i \in 1 .. Len(rest) : i + 1 \in 1 .. m /\ 1 < i + 1
    BY <1>1, LenProperties
<1>5. InOrder(all)
    <2> SUFFICES ASSUME NEW i \in 1 .. Len(all), NEW j \in 1 .. Len(all), i < j,
                        all[i][1] = all[j][1]
                 PROVE  all[i][2] < all[j][2]
        BY DEF InOrder
    <2>1. i \in 1 .. n /\ all[i] = es[i] BY <1>3, <1>4
    <2>2. CASE j \in 1 .. n BY <1>3, <2>1, <2>2 DEF InOrder
    <2>3. CASE j = n + 1 BY <1>1, <1>3, <1>4, <2>1, <2>3 DEF Follows
    <2> QED BY <1>3, <1>4, <2>2, <2>3
<1>6. InOrder(rest)
    <2> SUFFICES ASSUME NEW i \in 1 .. Len(rest), NEW j \in 1 .. Len(rest), i < j,
                        rest[i][1] = rest[j][1]
                 PROVE  rest[i][2] < rest[j][2]
        BY DEF InOrder
    <2>1. i + 1 < j + 1 BY <1>1
    <2> QED BY <1>1, <1>4, <2>1 DEF InOrder
<1>7. Follows(all, rest)
    <2> SUFFICES ASSUME NEW i \in 1 .. Len(all), NEW j \in 1 .. Len(rest), all[i][1] = rest[j][1]
                 PROVE  all[i][2] < rest[j][2]
        BY DEF Follows
    <2>1. rest[j] = cs[j + 1] /\ j + 1 \in 1 .. m /\ 1 < j + 1 BY <1>1, <1>4
    <2>2. CASE i \in 1 .. n BY <1>3, <2>1, <2>2 DEF Follows
    <2>3. CASE i = n + 1 BY <1>1, <1>3, <1>4, <2>1, <2>3 DEF InOrder
    <2> QED BY <1>3, <1>4, <2>2, <2>3
<1>8. \A i \in 1 .. n : i \in 1 .. Len(all) BY <1>3, <1>4
<1>9. Contains(all, es) BY <1>3, <1>8 DEF Contains
<1>10. Contains(cs, rest) BY <1>1, <1>4 DEF Contains
<1>11. ASSUME NEW i \in 1 .. Len(all)
       PROVE  \/ \E j \in 1 .. n : es[j] = all[i]
              \/ \E j \in 1 .. m : cs[j] = all[i]
    <2>1. CASE i \in 1 .. n BY <1>3, <2>1
    <2>2. CASE i = n + 1 BY <1>1, <1>3, <1>4, <2>2
    <2> QED BY <1>3, <1>4, <2>1, <2>2
<1>12. ASSUME NEW i \in 1 .. m
       PROVE  \/ \E j \in 1 .. Len(all) : all[j] = cs[i]
              \/ \E j \in 1 .. Len(rest) : rest[j] = cs[i]
    <2>1. CASE i = 1
        <3>1. n + 1 \in 1 .. Len(all) BY <1>3, <1>4
        <3> QED BY <1>1, <1>3, <2>1, <3>1
    <2>2. CASE i # 1
        <3>1. i - 1 \in 1 .. Len(rest) /\ (i - 1) + 1 = i BY <1>1, <2>2
        <3>2. rest[i - 1] = cs[i] BY <1>1, <3>1
        <3> QED BY <3>1, <3>2
    <2> QED BY <2>1, <2>2
<1>13. Mixes(all, es, cs) /\ Mixes(cs, all, rest) BY <1>11, <1>12 DEF Mixes
<1> QED BY <1>1, <1>3, <1>5, <1>6, <1>7, <1>9, <1>10, <1>13

\* pull_chunk takes the first chunk of the receiver.
LEMMA PopStep ==
    ASSUME ExInv, UNCHANGED <<sendVars, lifeVars>>, NEW r \in Sources, PullChunk(r),
           ~rcv[hnd[r]].canceled, rcv[hnd[r]].chunks # <<>>
    PROVE  ExInv'
<1>0. /\ RecvOK /\ RecvShape /\ OrderOK /\ LiveOK /\ EndMeansAll /\ made \in Nat
      /\ src \in [Sources -> SrcStates] /\ hnd \in [Sources -> 0 .. made]
      /\ \A q \in Sources : /\ src[q] \in {"ready", "started"} => hnd[q] >= 1
                            /\ src[q] = "checked" => frag = "building"
    BY FragmentFacts DEF ExInv
<1>1. /\ SendShape' /\ SinkOK' /\ TasksOK' /\ QueueOK' /\ Tasks' = Tasks /\ io' = io
      /\ setup' = setup /\ setup \in Setups
      /\ \A d : Sent(d)' = Sent(d)
      /\ \A c : Past(c) => Past(c)'
      /\ \A d, k : OnItsWay(d, k) => OnItsWay(d, k)'
    BY SendStill
<1>2. /\ Sinks' = Sinks /\ SenderOf' = SenderOf /\ Senders' = Senders /\ Sources' = Sources
      /\ MaxReceivers' = MaxReceivers /\ ChunksPerSink' = ChunksPerSink
      /\ Chunks' = Chunks /\ RcvRecs' = RcvRecs /\ MaxReceivers \in Nat
    BY <1>1, SameSets, SetupFacts
<1> PICK g, cs, es : g = hnd[r] /\ cs = rcv[g].chunks /\ es = got OBVIOUS
<1>3. PICK all, rest : all = Append(es, Head(cs)) /\ rest = Tail(cs) OBVIOUS
<1>4. /\ frag = "running" /\ src[r] \in {"ready", "started"}
      /\ UNCHANGED <<entry, made, tomb, frag, hnd, told, aborted, lost>>
      /\ src' = [src EXCEPT ![r] = "started"]
      /\ rcv' = [rcv EXCEPT ![g].chunks = rest]
      /\ got' = all
    BY <1>3 DEF PullChunk, mapVars, lifeVars
<1>5. /\ g \in 1 .. made /\ g \in 1 .. MaxReceivers /\ made <= MaxReceivers
      /\ rcv \in [1 .. MaxReceivers -> RcvRecs] /\ es \in Seq(Chunks)
    BY <1>0, <1>2, <1>4 DEF RecvShape
<1>6. rcv[g] \in RcvRecs /\ cs \in Seq(Chunks) /\ cs # <<>> BY <1>5 DEF RcvRecs
<1>7. Up BY <1>4 DEF Up
<1>8. /\ AllPast(es) /\ InOrder(es) /\ AllPast(cs) /\ InOrder(cs) /\ Follows(es, cs)
    BY <1>0, <1>5, <1>7 DEF OrderOK
<1>9. /\ all \in Seq(Chunks) /\ rest \in Seq(Chunks)
      /\ InOrder(all) /\ InOrder(rest) /\ Follows(all, rest)
      /\ Contains(all, es) /\ Contains(cs, rest)
      /\ Mixes(all, es, cs) /\ Mixes(cs, all, rest)
    BY <1>3, <1>5, <1>6, <1>8, PopOrder
<1>10. /\ rcv' \in [1 .. MaxReceivers -> RcvRecs] /\ rcv'[g].chunks = rest
       /\ \A x \in 1 .. MaxReceivers : /\ x # g => rcv'[x] = rcv[x]
                                       /\ rcv'[x].canceled = rcv[x].canceled
                                       /\ rcv'[x].finished = rcv[x].finished
    <2>1. [rcv[g] EXCEPT !.chunks = rest] \in RcvRecs BY <1>6, <1>9 DEF RcvRecs
    <2>2. rcv' \in [1 .. MaxReceivers -> RcvRecs] BY <1>4, <1>5, <2>1
    <2>3. /\ rcv'[g].chunks = rest
          /\ \A x \in 1 .. MaxReceivers : /\ x # g => rcv'[x] = rcv[x]
                                          /\ rcv'[x].canceled = rcv[x].canceled
                                          /\ rcv'[x].finished = rcv[x].finished
        BY <1>4, <1>5, <1>6 DEF RcvRecs
    <2> QED BY <2>2, <2>3
<1>11. /\ src' \in [Sources -> SrcStates] /\ src'[r] = "started"
       /\ \A q \in Sources : q # r => src'[q] = src[q]
    BY <1>0, <1>4 DEF SrcStates
<1>12. RecvOK'
    <2>1. RecvShape' BY <1>0, <1>2, <1>4, <1>9, <1>10, <1>11 DEF RecvShape, SrcStates
    <2>2. \A x \in 1 .. MaxReceivers : x > made => rcv'[x] = FreshReceiver
        BY <1>0, <1>5, <1>10 DEF RecvOK
    <2>3. \A x \in 1 .. made : x # entry => rcv'[x].canceled
        <3> SUFFICES ASSUME NEW x \in 1 .. made, x # entry PROVE rcv'[x].canceled
            OBVIOUS
        <3>1. x \in 1 .. MaxReceivers /\ rcv[x].canceled BY <1>0, <1>2, <1>5, <1>7 DEF RecvOK
        <3> QED BY <1>10, <3>1
    <2>4. \A q \in Sources : /\ src'[q] \in {"ready", "started"} => hnd'[q] >= 1
                             /\ src'[q] = "checked" => frag' = "building"
        BY <1>0, <1>4, <1>11
    <2>5. \A x \in io' : x.at <= made' /\ (x.pc \in {"meta", "push"} => x.at >= 1)
        BY <1>0, <1>1, <1>4 DEF RecvOK
    <2> QED BY <1>2, <1>4, <2>1, <2>2, <2>3, <2>4, <2>5 DEF RecvOK
<1>13. g = entry BY <1>0, <1>5, <1>7 DEF RecvOK
<1>14. OrderOK'
    <2>1. \A c \in Chunks : (\E i \in 1 .. Len(all) : all[i] = c) => Past(c)'
        BY <1>1, <1>8, <1>9 DEF AllPast, Mixes
    <2>2. \A c \in Chunks : (\E i \in 1 .. Len(rest) : rest[i] = c) => Past(c)'
        BY <1>1, <1>8, <1>9 DEF AllPast, Contains
    <2>3. AllPast(got)' BY <1>2, <1>4, <2>1 DEF AllPast
    <2>4. InOrder(got)' BY <1>4, <1>9 DEF InOrder
    <2>5. AllPast(rcv[g].chunks)' BY <1>2, <1>10, <2>2 DEF AllPast
    <2>6. InOrder(rcv[g].chunks)' BY <1>9, <1>10 DEF InOrder
    <2>7. (Up /\ ~rcv[g].canceled => Follows(got, rcv[g].chunks))'
        BY <1>4, <1>9, <1>10 DEF Follows
    <2>8. ASSUME NEW x \in 1 .. MaxReceivers, x # g
          PROVE  /\ AllPast(rcv[x].chunks)' /\ InOrder(rcv[x].chunks)'
                 /\ (Up /\ ~rcv[x].canceled => Follows(got, rcv[x].chunks))'
        <3>0. rcv'[x] = rcv[x] BY <1>10, <2>8
        <3>1. AllPast(rcv[x].chunks)' BY <1>0, <1>1, <1>2, <3>0 DEF OrderOK, AllPast
        <3>2. InOrder(rcv[x].chunks)' BY <1>0, <3>0 DEF OrderOK, InOrder
        <3>3. ~rcv[x].canceled => rcv[x].chunks = <<>>
            <4>1. CASE x > made BY <1>0, <4>1 DEF RecvOK, FreshReceiver
            <4>2. CASE ~(x > made)
                <5>1. x \in 1 .. made BY <1>0, <1>2, <4>2
                <5> QED BY <1>0, <1>7, <1>13, <2>8, <5>1 DEF RecvOK
            <4> QED BY <4>1, <4>2
        <3>4. Len(<<>>) = 0 BY EmptySeq
        <3>5. (Up /\ ~rcv[x].canceled => Follows(got, rcv[x].chunks))'
            BY <3>0, <3>3, <3>4 DEF Follows
        <3> QED BY <3>1, <3>2, <3>5
    <2>9. ASSUME NEW x \in 1 .. MaxReceivers
          PROVE  /\ AllPast(rcv[x].chunks)' /\ InOrder(rcv[x].chunks)'
                 /\ (Up /\ ~rcv[x].canceled => Follows(got, rcv[x].chunks))'
        <3>1. CASE x = g BY <2>5, <2>6, <2>7, <3>1
        <3>2. CASE x # g BY <2>8, <3>2
        <3> QED BY <3>1, <3>2
    <2> QED BY <1>2, <2>3, <2>4, <2>9 DEF OrderOK
<1>15. \A c : Arrived(c) => Arrived(c)'
    <2> SUFFICES ASSUME NEW c, Arrived(c) PROVE Arrived(c)'
        OBVIOUS
    <2>1. CASE \E i \in 1 .. Len(got) : got[i] = c
        <3>1. \E i \in 1 .. Len(all) : all[i] = c BY <1>9, <2>1 DEF Contains
        <3> QED BY <1>4, <3>1 DEF Arrived
    <2>2. CASE \E x \in 1 .. made : \E i \in 1 .. Len(rcv[x].chunks) : rcv[x].chunks[i] = c
        <3>1. PICK x \in 1 .. made : \E i \in 1 .. Len(rcv[x].chunks) : rcv[x].chunks[i] = c BY <2>2
        <3>2. x \in 1 .. MaxReceivers BY <1>0, <1>2, <1>5
        <3>3. CASE x # g
            <4>1. rcv'[x] = rcv[x] BY <1>10, <3>2, <3>3
            <4> QED BY <1>4, <3>1, <4>1 DEF Arrived
        <3>4. CASE x = g
            <4>0. Mixes(cs, all, rest) BY <1>9
            <4>2. PICK i \in 1 .. Len(cs) : cs[i] = c BY <3>1, <3>4
            <4>1. \/ \E j \in 1 .. Len(all) : all[j] = c
                  \/ \E j \in 1 .. Len(rest) : rest[j] = c
                BY <4>0, <4>2 DEF Mixes
            <4> QED BY <1>4, <1>5, <1>10, <4>1 DEF Arrived
        <3> QED BY <3>3, <3>4
    <2> QED BY <2>1, <2>2 DEF Arrived
<1>16. LiveOK'
    <2> SUFFICES ASSUME Live' PROVE (OneReceiver /\ NothingLost /\ FinishedArrived)'
        BY DEF LiveOK
    <2>1. OneReceiver /\ NothingLost /\ FinishedArrived
        BY <1>0, <1>4, <1>7 DEF LiveOK, Live, Canceled
    <2>2. OneReceiver' BY <1>2, <1>4, <1>10, <2>1 DEF OneReceiver
    <2>3. NothingLost' BY <1>1, <1>2, <1>4, <1>15, <2>1 DEF NothingLost
    <2>4. FinishedArrived'
        <3>1. \A q : AllChunks(q)' = AllChunks(q) BY <1>2 DEF AllChunks, SinksOf
        <3> SUFFICES ASSUME NEW x \in 1 .. made, NEW s \in rcv'[x].finished, s \notin lost,
                            NEW c \in AllChunks(s)
                     PROVE  Arrived(c)'
            BY <1>4, <3>1 DEF FinishedArrived
        <3>2. x \in 1 .. MaxReceivers BY <1>0, <1>2, <1>5
        <3>3. Arrived(c) BY <1>10, <2>1, <3>2 DEF FinishedArrived
        <3> QED BY <1>15, <3>3
    <2> QED BY <2>2, <2>3, <2>4
<1>17. EndMeansAll'
    <2>1. \A q : AllChunks(q)' = AllChunks(q) BY <1>2 DEF AllChunks, SinksOf
    <2>2. Canceled' = Canceled BY <1>4 DEF Canceled
    <2>3. Popped \subseteq Popped'
        <3>1. DOMAIN es = 1 .. Len(es) /\ DOMAIN all = 1 .. Len(all) BY <1>5, <1>9, LenProperties
        <3> QED BY <1>4, <1>9, <3>1 DEF Popped, Contains
    <2>4. \A q \in Sources : src'[q] = "finished" => src[q] = "finished" BY <1>11
    <2> QED BY <1>0, <1>2, <1>4, <2>1, <2>2, <2>3, <2>4 DEF EndMeansAll
<1> QED BY <1>1, <1>12, <1>14, <1>16, <1>17 DEF ExInv

LEMMA PullChunkStep ==
    ASSUME ExInv, UNCHANGED <<sendVars, lifeVars>>, NEW r \in Sources, PullChunk(r)
    PROVE  ExInv'
<1>0. /\ src \in [Sources -> SrcStates] /\ hnd \in [Sources -> 0 .. made] /\ frag \in FragStates
      /\ tomb \in BOOLEAN /\ made \in Nat
      /\ \A q \in Sources : /\ src[q] \in {"ready", "started"} => hnd[q] >= 1
                            /\ src[q] = "checked" => frag = "building"
    BY FragmentFacts
<1> PICK g : g = hnd[r] OBVIOUS
<1>1. /\ frag = "running" /\ src[r] \in {"ready", "started"} /\ HasOutputOrFinished(g)
      /\ UNCHANGED <<mapVars, entry, made, tomb, frag, hnd, told, aborted, lost, sendVars>>
    BY DEF PullChunk, mapVars, lifeVars
<1>2. CASE rcv[g].canceled
    <2>1. src' = [src EXCEPT ![r] = "failed"] /\ UNCHANGED <<rcv, got>> BY <1>2 DEF PullChunk
    <2> QED BY <1>1, <2>1, SourceGivesUp
<1>3. CASE ~rcv[g].canceled /\ rcv[g].chunks # <<>> BY <1>3, PopStep
<1>4. CASE ~rcv[g].canceled /\ rcv[g].chunks = <<>>
    <2>1. src' = [src EXCEPT ![r] = "finished"] /\ UNCHANGED <<rcv, got>> BY <1>4 DEF PullChunk
    <2>2. AllFinished(g) BY <1>1, <1>4 DEF HasOutputOrFinished
    <2>3. g \in 1 .. made BY <1>0, <1>1
    <2>4. Canceled \/ \A s \in Senders : s \in lost \/ AllChunks(s) \subseteq Popped
        BY <1>1, <1>4, <2>2, <2>3, EndSeen
    <2>5. /\ src' \in [Sources -> SrcStates]
          /\ \A q \in Sources : src'[q] = src[q] \/ src'[q] = "finished"
        BY <1>0, <2>1 DEF SrcStates, SourceOver
    <2>6. (Up' => Up) /\ hnd' \in [Sources -> 0 .. made'] BY <1>0, <1>1 DEF Up
    <2> QED BY <1>0, <1>1, <2>1, <2>4, <2>5, <2>6, FragmentMoves
<1> QED BY <1>2, <1>3, <1>4

-----------------------------------------------------------------------------
(* Teardown *)

\* The key is taken out of the map, its receiver cancelled or not. Afterwards
\* the query is cancelled or the receiving fragment has ended.
LEMMA TeardownMoves ==
    ASSUME ExInv, UNCHANGED sendVars, UNCHANGED <<made, src, hnd, got, lost>>,
           entry' = 0, tomb' \in BOOLEAN, frag' \in FragStates,
           \/ rcv' = rcv
           \/ entry # 0 /\ rcv' = [rcv EXCEPT ![entry].canceled = TRUE],
           told' \subseteq Senders, aborted' \in BOOLEAN,
           Canceled => Canceled', ~Live',
           Up' => Up /\ (entry # 0 => rcv' = [rcv EXCEPT ![entry].canceled = TRUE]),
           \A r \in Sources : src[r] = "checked" => frag' = "building"
    PROVE  ExInv'
<1>0. /\ RecvOK /\ RecvShape /\ OrderOK /\ EndMeansAll /\ made \in Nat
      /\ \A q \in Sources : src[q] \in {"ready", "started"} => hnd[q] >= 1
    BY FragmentFacts DEF ExInv
<1>1. /\ SendShape' /\ SinkOK' /\ TasksOK' /\ QueueOK' /\ Tasks' = Tasks /\ io' = io
      /\ setup' = setup /\ setup \in Setups
      /\ \A c : Past(c) => Past(c)'
    BY SendStill
<1>2. /\ Sinks' = Sinks /\ SenderOf' = SenderOf /\ Senders' = Senders /\ Sources' = Sources
      /\ MaxReceivers' = MaxReceivers /\ ChunksPerSink' = ChunksPerSink
      /\ Chunks' = Chunks /\ RcvRecs' = RcvRecs /\ MaxReceivers \in Nat
    BY <1>1, SameSets, SetupFacts
<1>3. /\ made <= MaxReceivers /\ entry \in 0 .. made /\ rcv \in [1 .. MaxReceivers -> RcvRecs]
    BY <1>0, <1>2 DEF RecvShape
<1>4. /\ rcv' \in [1 .. MaxReceivers -> RcvRecs]
      /\ \A g \in 1 .. MaxReceivers :
            /\ rcv'[g].chunks = rcv[g].chunks
            /\ rcv[g].canceled => rcv'[g].canceled
            /\ g # entry => rcv'[g] = rcv[g]
    <2>1. CASE rcv' = rcv BY <1>3, <2>1
    <2>2. CASE entry # 0 /\ rcv' = [rcv EXCEPT ![entry].canceled = TRUE]
        <3>1. entry \in 1 .. MaxReceivers BY <1>0, <1>2, <1>3, <2>2
        <3>2. rcv[entry] \in RcvRecs BY <1>3, <3>1
        <3>3. /\ [rcv[entry] EXCEPT !.canceled = TRUE] \in RcvRecs
              /\ [rcv[entry] EXCEPT !.canceled = TRUE].chunks = rcv[entry].chunks
              /\ [rcv[entry] EXCEPT !.canceled = TRUE].canceled = TRUE
            BY <3>2 DEF RcvRecs
        <3> QED BY <1>3, <2>2, <3>1, <3>3
    <2> QED BY <2>1, <2>2
<1>5. RecvOK'
    <2>1. RecvShape'
        <3>1. 0 \in 0 .. made BY <1>0
        <3> QED BY <1>0, <1>2, <1>4, <3>1 DEF RecvShape, FragStates
    <2>2. \A g \in 1 .. MaxReceivers : g > made => rcv'[g] = FreshReceiver
        BY <1>0, <1>2, <1>3, <1>4 DEF RecvOK
    <2>3. Up' => \A g \in 1 .. made : rcv'[g].canceled
        <3> SUFFICES ASSUME Up', NEW g \in 1 .. made PROVE rcv'[g].canceled
            OBVIOUS
        <3>1. g \in 1 .. MaxReceivers BY <1>0, <1>2, <1>3
        <3>2. CASE g # entry
            <4>1. rcv[g].canceled BY <1>0, <3>2 DEF RecvOK
            <4> QED BY <1>4, <3>1, <3>2, <4>1
        <3>3. CASE g = entry
            <4>1. rcv' = [rcv EXCEPT ![g].canceled = TRUE] BY <3>3
            <4>2. rcv[g] \in RcvRecs BY <1>3, <3>1
            <4> QED BY <1>3, <3>1, <4>1, <4>2 DEF RcvRecs
        <3> QED BY <3>2, <3>3
    <2>4. \A x \in io' : x.at <= made' /\ (x.pc \in {"meta", "push"} => x.at >= 1)
        BY <1>0, <1>1 DEF RecvOK
    <2> QED BY <1>0, <1>2, <2>1, <2>2, <2>3, <2>4 DEF RecvOK
<1>6. OrderOK'
    <2>1. AllPast(got)' BY <1>0, <1>1, <1>2 DEF OrderOK, AllPast
    <2>2. InOrder(got)' BY <1>0 DEF OrderOK, InOrder
    <2>3. ASSUME NEW g \in 1 .. MaxReceivers
          PROVE  /\ AllPast(rcv[g].chunks)' /\ InOrder(rcv[g].chunks)'
                 /\ (Up /\ ~rcv[g].canceled => Follows(got, rcv[g].chunks))'
        <3>0. rcv'[g].chunks = rcv[g].chunks /\ (rcv[g].canceled => rcv'[g].canceled) BY <1>4
        <3>1. AllPast(rcv[g].chunks)' BY <1>0, <1>1, <1>2, <3>0 DEF OrderOK, AllPast
        <3>2. InOrder(rcv[g].chunks)' BY <1>0, <3>0 DEF OrderOK, InOrder
        <3>3. (Up /\ ~rcv[g].canceled => Follows(got, rcv[g].chunks))'
            BY <1>0, <3>0 DEF OrderOK, Follows
        <3> QED BY <3>1, <3>2, <3>3
    <2> QED BY <1>2, <2>1, <2>2, <2>3 DEF OrderOK
<1>7. LiveOK' BY DEF LiveOK
<1>8. EndMeansAll'
    <2>1. \A q : AllChunks(q)' = AllChunks(q) BY <1>2 DEF AllChunks, SinksOf
    <2>2. Popped' = Popped BY DEF Popped
    <2> QED BY <1>0, <1>2, <2>1, <2>2 DEF EndMeansAll
<1> QED BY <1>1, <1>5, <1>6, <1>7, <1>8 DEF ExInv

LEMMA CancelStep ==
    ASSUME ExInv, (\E s \in Senders : CancelPeers(s)) \/ FeCancel \/ TailCancel \/ TailRemove
    PROVE  ExInv'
<1>0. /\ tomb \in BOOLEAN /\ frag \in FragStates /\ RecvShape
      /\ \A r \in Sources : src[r] = "checked" => frag = "building"
    BY FragmentFacts
<1>1. told \subseteq Senders /\ aborted \in BOOLEAN BY <1>0 DEF RecvShape
<1>2. CASE (\E s \in Senders : CancelPeers(s)) \/ FeCancel
    <2>1. /\ CancelFragment /\ UNCHANGED sendVars /\ UNCHANGED <<frag, src, hnd, got, lost>>
          /\ told' \subseteq Senders /\ aborted' \in BOOLEAN /\ (aborted => aborted')
          /\ told \subseteq told' /\ (aborted' \/ told' # {})
        BY <1>1, <1>2 DEF CancelPeers, FeCancel, sourceVars
    <2>2. Canceled' /\ ~Live' BY <2>1 DEF Canceled, Live
    <2>3. /\ entry' = 0 /\ made' = made /\ tomb' \in BOOLEAN
          /\ rcv' = IF entry = 0 THEN rcv ELSE [rcv EXCEPT ![entry].canceled = TRUE]
        BY <1>0, <2>1 DEF CancelFragment
    <2>4. Up' => Up BY <2>1 DEF Up
    <2> QED BY <1>0, <2>1, <2>2, <2>3, <2>4, TeardownMoves
<1>3. CASE TailCancel \/ TailRemove
    <2>1. /\ frag' \in {"canceled", "removed"} /\ frag \in {"failed", "ok", "canceled"}
          /\ UNCHANGED sendVars /\ UNCHANGED <<src, hnd, got, told, aborted, lost>>
          /\ CancelFragment \/ RemoveFragment
        BY <1>3 DEF TailCancel, TailRemove, lifeVars
    <2>2. frag' \in FragStates /\ ~Up' /\ ~Live' /\ (Canceled' <=> Canceled)
        BY <2>1 DEF FragStates, Up, Live, Canceled
    <2>3. /\ entry' = 0 /\ made' = made /\ tomb' \in BOOLEAN
          /\ rcv' = rcv \/ (entry # 0 /\ rcv' = [rcv EXCEPT ![entry].canceled = TRUE])
        BY <1>0, <2>1 DEF CancelFragment, RemoveFragment
    <2>4. \A r \in Sources : src[r] # "checked" BY <1>0, <2>1
    <2> QED BY <1>1, <2>1, <2>2, <2>3, <2>4, TeardownMoves
<1> QED BY <1>2, <1>3

-----------------------------------------------------------------------------
(* The invariant holds at first and is kept by every step *)

LEMMA ExInvInit ==
    ASSUME Init
    PROVE  ExInv
<1>0. setup \in Setups /\ SendInit /\ ReceiveInit /\ told = {} /\ aborted = FALSE /\ lost = {}
    BY DEF Init
<1>1. /\ IsFiniteSet(Sinks) /\ (\A d \in Sinks : SenderOf[d] \in Senders)
      /\ ChunksPerSink \in Nat /\ MaxReceivers \in Nat
    BY <1>0, SetupFacts
<1>2. \A S : <<>> \in Seq(S) /\ Len(<<>>) = 0 BY EmptySeq
<1>3. \A s : IsFiniteSet(SinksOf(s)) /\ Cardinality(SinksOf(s)) \in Nat
    <2> SUFFICES ASSUME NEW s PROVE IsFiniteSet(SinksOf(s)) /\ Cardinality(SinksOf(s)) \in Nat
        OBVIOUS
    <2>1. SinksOf(s) \subseteq Sinks BY DEF SinksOf
    <2> QED BY <1>1, <2>1, FS_Subset, FS_CardinalityType
<1>4. SendShape
    <2>1. /\ pushed \in [Sinks -> 0 .. ChunksPerSink] /\ sink \in [Sinks -> SinkStates]
          /\ pend \in [Sinks -> Seq(Chunks)] /\ pay \in [Sinks -> TaskRecs \cup {NoPayload}]
          /\ meta \in [Sinks -> BOOLEAN]
        BY <1>0, <1>1, <1>2 DEF SendInit, SinkStates
    <2>2. left \in [Senders -> Nat] BY <1>0, <1>3 DEF SendInit
    <2>3. /\ err \in [Senders -> BOOLEAN] /\ inflight \in Int /\ track \in [Sinks -> Int]
          /\ busy \subseteq Senders /\ lane \in [Senders -> Seq(TaskRecs)] /\ io \subseteq TaskRecs
        BY <1>0, <1>2 DEF SendInit
    <2> QED BY <1>0, <2>1, <2>2, <2>3 DEF SendShape
<1>5. \A d \in Sinks : /\ pushed[d] = 0 /\ pend[d] = <<>> /\ pay[d] = NoPayload
                       /\ sink[d] = "open" /\ Sent(d) = 0
    BY <1>0, <1>2 DEF SendInit, Sent, SentBy, PayLen
<1>6. SinkOK
    <2>1. \A d \in Sinks : BuffersOK(d) BY <1>2, <1>5 DEF BuffersOK, Run, PayOK
    <2>2. ASSUME NEW s \in Senders PROVE Cardinality(Uncounted(s)) <= left[s]
        <3>1. Uncounted(s) = SinksOf(s) BY <1>5 DEF Uncounted, SinksOf, Buffered
        <3>2. left[s] = Cardinality(SinksOf(s)) BY <1>0 DEF SendInit
        <3> QED BY <1>3, <3>1, <3>2
    <2> QED BY <2>1, <2>2 DEF SinkOK
<1>7. /\ io = {} /\ busy = {} /\ \A s \in Senders : lane[s] = <<>> BY <1>0 DEF SendInit
<1>8. Tasks = {}
    <2>1. lane \in [Senders -> Seq(TaskRecs)] BY <1>4 DEF SendShape
    <2>2. \A t : t \in Tasks <=> t \in io \/ \E s \in Senders : \E i \in 1 .. Len(lane[s]) : t = lane[s][i]
        BY <2>1, InTasks
    <2> QED BY <1>2, <1>7, <2>2
<1>9. TasksOK BY <1>8 DEF TasksOK
<1>10. QueueOK BY <1>2, <1>7 DEF QueueOK, LaneOK
<1>11. /\ entry = 0 /\ made = 0 /\ tomb = FALSE /\ frag = "planned" /\ got = <<>>
       /\ rcv = [g \in 1 .. MaxReceivers |-> FreshReceiver]
       /\ src = [r \in Sources |-> "new"] /\ hnd = [r \in Sources |-> 0]
    BY <1>0 DEF ReceiveInit
<1>12. /\ FreshReceiver \in RcvRecs /\ FreshReceiver.chunks = <<>> /\ ~FreshReceiver.canceled
    BY <1>2 DEF FreshReceiver, RcvRecs
<1>13. RecvOK
    <2>2. made \in 0 .. MaxReceivers /\ entry \in 0 .. made BY <1>1, <1>11
    <2>6. tomb \in BOOLEAN BY <1>11, Zenon
    <2>7. frag \in {"planned", "building", "running", "ok", "failed", "canceled", "removed"}
        BY <1>11, Zenon
    <2>3. /\ src \in [Sources -> {"new", "checked", "ready", "started"} \cup SourceOver]
          /\ hnd \in [Sources -> 0 .. made]
        BY <1>11
    <2>4. rcv \in [1 .. MaxReceivers -> RcvRecs] /\ got \in Seq(Chunks) BY <1>2, <1>11, <1>12
    <2>5. told \subseteq Senders /\ lost \subseteq Senders /\ aborted \in BOOLEAN BY <1>0
    <2>1. RecvShape BY <2>2, <2>3, <2>4, <2>5, <2>6, <2>7 DEF RecvShape
    <2> QED BY <1>1, <1>7, <1>11, <2>1 DEF RecvOK
<1>14. OrderOK
    <2>1. AllPast(<<>>) /\ InOrder(<<>>) /\ \A cs : Follows(<<>>, cs)
        BY <1>2 DEF AllPast, InOrder, Follows
    <2> QED BY <1>11, <1>12, <2>1 DEF OrderOK
<1>15. LiveOK
    <2>1. OneReceiver BY <1>11, <1>12 DEF OneReceiver
    <2>2. NothingLost BY <1>5 DEF NothingLost
    <2>3. FinishedArrived BY <1>11 DEF FinishedArrived
    <2> QED BY <2>1, <2>2, <2>3 DEF LiveOK
<1>16. EndMeansAll BY <1>11 DEF EndMeansAll
<1> QED BY <1>4, <1>6, <1>9, <1>10, <1>13, <1>14, <1>15, <1>16 DEF ExInv

LEMMA SinkStepKeeps ==
    ASSUME ExInv, NEW d \in Sinks, SinkStep(d) \/ SinkFailure(d)
    PROVE  ExInv'
<1>1. UNCHANGED <<recvVars, lifeVars>> BY DEF SinkStep, SinkFailure
<1>2. RecvSame /\ setup' = setup BY <1>1 DEF recvVars, lifeVars, mapVars, sourceVars, RecvSame
<1>3. CASE PushChunk(d) BY <1>2, <1>3, PushChunkStep
<1>4. CASE SetFinishing(d) BY <1>2, <1>4, SetFinishingStep
<1>5. CASE CountDown(d) BY <1>2, <1>5, CountDownStep
<1>6. CASE \/ AskInput(d) \/ FailOnError(d) \/ CheckError(d) \/ MaybeMarkFinished(d)
           \/ UpstreamFails(d)
    BY <1>1, <1>6, QuietSinkStep
<1> QED BY <1>3, <1>4, <1>5, <1>6 DEF SinkStep, SinkFailure

LEMMA CallStepKeeps ==
    ASSUME ExInv, NEW t \in io, CallStep(t) \/ CallFailure(t)
    PROVE  ExInv'
<1>1. CASE Arrive(t) BY <1>1, ArriveStep
<1>2. CASE DecodeLookup(t) BY <1>2, DecodeLookupStep
<1>3. CASE DecodeMeta(t) BY <1>3, DecodeMetaStep
<1>4. CASE PushCheck(t) BY <1>4, PushCheckStep
<1>5. CASE PushLookup(t) BY <1>5, PushLookupStep
<1>6. CASE PushChunks(t) BY <1>6, PushChunksStep
<1>7. CASE CompleteSend(t) /\ UNCHANGED <<recvVars, lifeVars>> BY <1>7, CompleteSendStep
<1>8. CASE OnTaskComplete(t) /\ UNCHANGED <<recvVars, lifeVars>> BY <1>8, OnTaskCompleteStep
<1>9. CASE SendFails(t) BY <1>9, SendFailsStep
<1>10. CASE ResponseLost(t) BY <1>10, ResponseLostStep
<1> QED BY <1>1, <1>2, <1>3, <1>4, <1>5, <1>6, <1>7, <1>8, <1>9, <1>10 DEF CallStep, CallFailure

LEMMA SourceStepKeeps ==
    ASSUME ExInv, NEW r \in Sources, SourceStep(r) \/ SourceEnds(r)
    PROVE  ExInv'
<1>1. CASE PrepareCheck(r) /\ UNCHANGED <<sendVars, lifeVars>> BY <1>1, PrepareCheckStep
<1>2. CASE PrepareGet(r) /\ UNCHANGED <<sendVars, lifeVars>> BY <1>2, PrepareGetStep
<1>3. CASE PullChunk(r) /\ UNCHANGED <<sendVars, lifeVars>> BY <1>3, PullChunkStep
<1>4. CASE \/ (AbortSource(r) \/ StopEarly(r) \/ PullTimeout(r)) /\ UNCHANGED <<sendVars, lifeVars>>
           \/ AbortFromQuery(r)
    BY <1>4, QuitStep
<1> QED BY <1>1, <1>2, <1>3, <1>4 DEF SourceStep, SourceEnds

LEMMA FragmentStepKeeps ==
    ASSUME ExInv, FragmentStep \/ FeCancel \/ Forget \/ (\E s \in Senders : CancelPeers(s))
    PROVE  ExInv'
<1>1. CASE RegisterExchange /\ UNCHANGED <<sendVars, lifeVars>> BY <1>1, RegisterExchangeStep
<1>2. CASE FragmentEnds /\ UNCHANGED <<sendVars, lifeVars>> BY <1>2, FragmentEndsStep
<1>3. CASE (\E s \in Senders : CancelPeers(s)) \/ FeCancel \/ TailCancel \/ TailRemove
    BY <1>3, CancelStep
<1>4. CASE Forget BY <1>4, ForgetStep
<1> QED BY <1>1, <1>2, <1>3, <1>4 DEF FragmentStep

LEMMA StutterKeeps ==
    ASSUME ExInv, UNCHANGED vars
    PROVE  ExInv'
<1>0. /\ src \in [Sources -> SrcStates] /\ hnd \in [Sources -> 0 .. made] /\ frag \in FragStates
      /\ tomb \in BOOLEAN
      /\ \A q \in Sources : /\ src[q] \in {"ready", "started"} => hnd[q] >= 1
                            /\ src[q] = "checked" => frag = "building"
    BY FragmentFacts
<1>1. /\ UNCHANGED sendVars
      /\ UNCHANGED <<entry, made, tomb, rcv, frag, src, hnd, got, told, aborted, lost>>
    BY DEF vars, recvVars, lifeVars, mapVars, sourceVars
<1>2. (Up' => Up) /\ hnd' \in [Sources -> 0 .. made'] BY <1>0, <1>1 DEF Up
<1> QED BY <1>0, <1>1, <1>2, FragmentMoves

\* The invariant of the exchange, from the sinks' buffers over the lanes and the
\* calls to the receivers, holds in every state.
THEOREM ExchangeInvariance == Spec => []ExInv
<1>1. Init => ExInv BY ExInvInit
<1>2. ExInv /\ [Next]_vars => ExInv'
    <2> SUFFICES ASSUME ExInv, [Next]_vars PROVE ExInv'
        OBVIOUS
    <2>1. CASE \E d \in Sinks : SinkStep(d) \/ SinkFailure(d) BY <2>1, SinkStepKeeps
    <2>2. CASE \E t \in io : CallStep(t) \/ CallFailure(t) BY <2>2, CallStepKeeps
    <2>3. CASE \E r \in Sources : SourceStep(r) \/ SourceEnds(r) BY <2>3, SourceStepKeeps
    <2>4. CASE FragmentStep \/ FeCancel \/ Forget \/ (\E s \in Senders : CancelPeers(s))
        BY <2>4, FragmentStepKeeps
    <2>5. CASE UNCHANGED vars BY <2>5, StutterKeeps
    <2> QED BY <2>1, <2>2, <2>3, <2>4, <2>5 DEF Next
<1> QED BY <1>1, <1>2, PTL DEF Spec

\* For any exchange and with every fault: a source sees the end only when every
\* chunk of every sender has been popped, unless a call of the sender failed or
\* the query was cancelled (set_finishing counts down after its flush, and the
\* lanes keep the order of enqueue_task).
THEOREM EndIsComplete == Spec => []EndMeansAll
<1>1. ExInv => EndMeansAll BY DEF ExInv
<1> QED BY <1>1, ExchangeInvariance, PTL

\* For any exchange and with every fault: the chunks of a sink driver are popped
\* in the order in which upstream pushed them, none twice, across batches that
\* wait for capacity, lanes, calls and receivers.
THEOREM SinkOrderKept == Spec => []PerSinkOrder
<1>1. ExInv => PerSinkOrder
    <2> SUFFICES ASSUME ExInv PROVE PerSinkOrder
        OBVIOUS
    <2>1. got \in Seq(Chunks) /\ InOrder(got) BY DEF ExInv, RecvOK, RecvShape, OrderOK
    <2>2. DOMAIN got = 1 .. Len(got) BY <2>1, LenProperties
    <2> QED BY <2>1, <2>2 DEF PerSinkOrder, InOrder
<1> QED BY <1>1, ExchangeInvariance, PTL

\* For any exchange: a lane has one task on the I/O executor while its key is in
\* the queue's map and none otherwise (enqueue_task and on_task_complete hand the
\* lane over without a gap and without a second sender).
THEOREM OneSendAtATime == Spec => []OneSendPerLane
<1>1. ExInv => OneSendPerLane
    <2> SUFFICES ASSUME ExInv, NEW s \in Senders
                 PROVE  Cardinality({t \in io : SenderOf[t.drv] = s}) = IF s \in busy THEN 1 ELSE 0
        BY DEF OneSendPerLane
    <2> PICK mine : mine = {t \in io : SenderOf[t.drv] = s} OBVIOUS
    <2>1. QueueOK BY DEF ExInv
    <2>2. CASE s \in busy
        <3>1. PICK t \in io : SenderOf[t.drv] = s BY <2>1, <2>2 DEF QueueOK
        <3>2. mine = {t} BY <2>1, <3>1 DEF QueueOK
        <3> QED BY <2>2, <3>2, FS_Singleton
    <2>3. CASE s \notin busy
        <3>1. mine = {} BY <2>1, <2>3 DEF QueueOK
        <3> QED BY <2>3, <3>1, FS_EmptySet
    <2> QED BY <2>2, <2>3
<1> QED BY <1>1, ExchangeInvariance, PTL
=============================================================================
