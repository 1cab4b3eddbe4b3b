---------------------- MODULE PipelineScheduler_proofs ----------------------
(***************************************************************************)
(* Proofs about PipelineScheduler, for every set of drivers and workers.   *)
(* IInv is preserved by every action: one lemma per action, on top of      *)
(* frame lemmas for its three parts (who owns a task, what the countdown   *)
(* says, which wake-ups are owed).  Outcome, on top of it, says that every *)
(* task is somewhere and in which state drivers are let go.                *)
(***************************************************************************)
EXTENDS PipelineScheduler, FiniteSetTheorems, TLAPS

USE DEF Sched, Poller, Canceller, schedVars, threadVars, driverVars, complVars

\* Pushing the members of a set in any order (the HashMap iteration of
\* enqueue_all_blocked) yields a sequence of exactly
\* those keys.
LEMMA OrderingsType ==
    ASSUME NEW S, S \subseteq Drivers, NEW f \in Orderings(S)
    PROVE  f \in Seq(Drivers) /\ Keys(f) = S
<1>1. IsFiniteSet(S) BY FS_Subset, SchedulerAssumption
<1>2. Cardinality(S) \in Nat BY <1>1, FS_CardinalityType
<1>3. f \in [1..Cardinality(S) -> S] BY DEF Orderings
<1>4. f \in Seq(S) BY <1>2, <1>3
<1>5. f \in Seq(Drivers) BY <1>4
<1> QED BY <1>5 DEF Orderings

\* push_back adds one key and keeps distinct keys distinct.
LEMMA KeysAppend ==
    ASSUME NEW q \in Seq(Drivers), NEW x \in Drivers
    PROVE  /\ Append(q, x) \in Seq(Drivers)
           /\ Keys(Append(q, x)) = Keys(q) \cup {x}
           /\ Distinct(q) /\ x \notin Keys(q) => Distinct(Append(q, x))
<1>1. Append(q, x) \in Seq(Drivers) /\ DOMAIN Append(q, x) = 1..(Len(q) + 1)
      /\ DOMAIN q = 1..Len(q) /\ Len(q) \in Nat
    OBVIOUS
<1>2. \A i \in 1..Len(q) : Append(q, x)[i] = q[i]
    OBVIOUS
<1>3. Append(q, x)[Len(q) + 1] = x
    OBVIOUS
<1>4. Keys(Append(q, x)) = Keys(q) \cup {x}
    BY <1>1, <1>2, <1>3 DEF Keys
<1>5. Distinct(q) /\ x \notin Keys(q) => Distinct(Append(q, x))
    BY <1>1, <1>2, <1>3 DEF Keys, Distinct
<1> QED BY <1>1, <1>4, <1>5

\* pop_front removes one key; of distinct keys it removes every copy.
LEMMA KeysTail ==
    ASSUME NEW q \in Seq(Drivers), q # << >>
    PROVE  /\ Tail(q) \in Seq(Drivers) /\ Head(q) \in Drivers
           /\ Keys(q) = Keys(Tail(q)) \cup {Head(q)}
           /\ Distinct(q) => Distinct(Tail(q)) /\ Head(q) \notin Keys(Tail(q))
<1>1. /\ Tail(q) \in Seq(Drivers) /\ Head(q) \in Drivers /\ Head(q) = q[1]
      /\ Len(q) \in Nat /\ Len(q) # 0 /\ DOMAIN q = 1..Len(q)
      /\ DOMAIN Tail(q) = 1..(Len(q) - 1)
    OBVIOUS
<1>2. \A i \in 1..(Len(q) - 1) : Tail(q)[i] = q[i + 1]
    OBVIOUS
<1>3. \A j \in 1..Len(q) : j = 1 \/ (j - 1 \in 1..(Len(q) - 1) /\ q[j] = Tail(q)[j - 1])
    BY <1>1, <1>2
<1>4. \A i \in 1..(Len(q) - 1) : i + 1 \in 1..Len(q) /\ i + 1 # 1
    BY <1>1
<1>5. Keys(q) \subseteq Keys(Tail(q)) \cup {Head(q)}
    BY <1>1, <1>3 DEF Keys
<1>6. Keys(Tail(q)) \cup {Head(q)} \subseteq Keys(q)
    BY <1>1, <1>2, <1>4 DEF Keys
<1>7. Distinct(q) => Distinct(Tail(q))
    BY <1>1, <1>2, <1>4 DEF Distinct
<1>8. Distinct(q) => Head(q) \notin Keys(Tail(q))
    BY <1>1, <1>2, <1>4 DEF Distinct, Keys
<1> QED BY <1>1, <1>5, <1>6, <1>7, <1>8

\* Pushing a batch adds exactly its keys.
LEMMA KeysConcat ==
    ASSUME NEW p \in Seq(Drivers), NEW q \in Seq(Drivers)
    PROVE  p \o q \in Seq(Drivers) /\ Keys(p \o q) = Keys(p) \cup Keys(q)
<1>1. /\ p \o q \in Seq(Drivers) /\ DOMAIN (p \o q) = 1..(Len(p) + Len(q))
      /\ Len(p) \in Nat /\ Len(q) \in Nat
      /\ DOMAIN p = 1..Len(p) /\ DOMAIN q = 1..Len(q)
    OBVIOUS
<1>2. \A i \in 1..Len(p) : (p \o q)[i] = p[i]
    OBVIOUS
<1>3. \A i \in 1..Len(q) : (p \o q)[Len(p) + i] = q[i]
    OBVIOUS
<1>4. \A k \in 1..(Len(p) + Len(q)) : k \in 1..Len(p) \/ (k - Len(p) \in 1..Len(q) /\ k = Len(p) + (k - Len(p)))
    BY <1>1
<1>5. Keys(p \o q) \subseteq Keys(p) \cup Keys(q)
    BY <1>1, <1>2, <1>3, <1>4 DEF Keys
<1>6. \A i \in 1..Len(q) : Len(p) + i \in 1..(Len(p) + Len(q))
    BY <1>1
<1>7. Keys(p) \subseteq Keys(p \o q)
    BY <1>1, <1>2 DEF Keys
<1>8. Keys(q) \subseteq Keys(p \o q)
    BY <1>1, <1>3, <1>6 DEF Keys
<1> QED BY <1>1, <1>5, <1>7, <1>8

-----------------------------------------------------------------------------
(* Frame lemmas. *)

\* A driver's wake-up obligations survive a step that leaves the driver's own
\* state alone, only adds keys, events and waiters, and moves no thread that
\* owes the driver a wake-up.
LEMMA WakeFrame ==
    ASSUME NEW e \in Drivers, WakeFor(e),
           events[e] \in Nat, events'[e] \in Nat,
           dstate'[e] = dstate[e],
           dstate[e] # "Dependency" => /\ src'[e].avail = src[e].avail
                                       /\ src'[e].eos = src[e].eos
                                       /\ sink'[e] = sink[e],
           inBlocked[e] => inBlocked'[e],
           events'[e] >= events[e], Keys(rq) \subseteq Keys(rq'),
           BuildOf[e] \in Drivers =>
              /\ dep'[BuildOf[e]].ready = dep[BuildOf[e]].ready
              /\ dep[BuildOf[e]].waiters \subseteq dep'[BuildOf[e]].waiters,
           \A w \in Workers : pc[w] = "depnotify" => task[w] \in Drivers,
           \A w \in Workers : (task[w] = e /\ pc[w] \in ParkingPCs) \/ pc[w] = "depnotify" =>
                                 pc'[w] = pc[w] /\ task'[w] = task[w],
           Probing(e) => Probing(e)'
    PROVE  WakeFor(e)'
<1>1. \A S \in SUBSET ParkingPCs : ParkedBy(e, S) => ParkedBy(e, S)'
    BY DEF ParkedBy
<1>2. CheckIsReady(e)' => CheckIsReady(e)
  <2>1. dstate[e] # "Dependency" =>
          /\ HasOutput(e)' = HasOutput(e) /\ SourceFinished(e)' = SourceFinished(e)
          /\ SinkFinished(e)' = SinkFinished(e) /\ NeedInput(e)' = NeedInput(e)
    BY DEF HasOutput, SourceFinished, SinkFinished, NeedInput
  <2>2. CASE dstate[e] = "InputEmpty"
    BY <2>1, <2>2 DEF CheckIsReady
  <2>3. CASE dstate[e] = "OutputFull"
    BY <2>1, <2>3 DEF CheckIsReady
  <2>4. CASE dstate[e] = "Dependency"
    <3>1. DepBlocked(e)' = DepBlocked(e)
      BY <2>4 DEF WakeFor, DepBlocked
    <3> QED BY <3>1, <2>4 DEF CheckIsReady
  <2> QED BY <2>2, <2>3, <2>4 DEF WakeFor, BlockedReasons
<1>3. WakeupDue(e) => WakeupDue(e)'
  <2>1. ASSUME e \in Keys(rq) PROVE WakeupDue(e)'
    BY <2>1 DEF WakeupDue
  <2>2. ASSUME events[e] > 0, inBlocked[e] PROVE WakeupDue(e)'
    BY <2>2 DEF WakeupDue
  <2>3. ASSUME NEW w \in Workers, task[w] = e, pc[w] \in ParkingPCs PROVE WakeupDue(e)'
    BY <2>3 DEF WakeupDue
  <2>4. ASSUME NEW w \in Workers, pc[w] = "depnotify", task[w] = BuildOf[e],
               e \in dep[BuildOf[e]].waiters
        PROVE  WakeupDue(e)'
    BY <2>4 DEF WakeupDue
  <2> QED BY <2>1, <2>2, <2>3, <2>4 DEF WakeupDue
<1>4. {"mark", "markdep"} \in SUBSET ParkingPCs /\ {"markdep", "wait"} \in SUBSET ParkingPCs
    BY DEF ParkingPCs
<1> QED BY <1>1, <1>2, <1>3, <1>4 DEF WakeFor

\* A parked driver that has been notified has a wake-up under way: its event is
\* kept if it is in_blocked, and the thread that parks it owes a key otherwise.
LEMMA WakeNotified ==
    ASSUME NEW e \in Drivers, WakeFor(e), events'[e] \in Nat, events'[e] > 0,
           dstate'[e] = dstate[e], inBlocked'[e] = inBlocked[e], dep' = dep,
           \A w \in Workers : task[w] = e /\ pc[w] \in ParkingPCs =>
                                 pc'[w] = pc[w] /\ task'[w] = task[w]
    PROVE  WakeFor(e)'
<1>1. \A S \in SUBSET ParkingPCs : ParkedBy(e, S) => ParkedBy(e, S)'
    BY DEF ParkedBy
<1>2. {"mark", "markdep"} \in SUBSET ParkingPCs /\ {"markdep", "wait"} \in SUBSET ParkingPCs
    BY DEF ParkingPCs
<1>3. inBlocked'[e] \/ ParkedBy(e, {"mark", "markdep"})'
    BY <1>1, <1>2 DEF WakeFor
<1>4. WakeupDue(e)'
    BY <1>2, <1>3 DEF WakeupDue, ParkedBy
<1> QED BY <1>1, <1>2, <1>3, <1>4 DEF WakeFor

\* A thread that owned its task goes on with it, or drops to a step in which
\* it owns nothing.
LEMMA OwnKeep ==
    ASSUME TypeOK, OwnedApart, NEW t \in Threads, NEW x, Goto(t, x),
           pc[t] \in OwningPCs \/ x \notin OwningPCs,
           UNCHANGED <<task, runq, blocked, poll, done>>
    PROVE  OwnedApart'
<1>1. \A u \in Threads, e \in Drivers : Owns(u, e)' => Owns(u, e)
    BY DEF TypeOK, Goto, Owns
<1>2. \A e \in Drivers : Apart(e)'
    BY <1>1 DEF OwnedApart, Apart
<1> QED BY <1>2 DEF OwnedApart, Distinct

\* A thread takes driver d out of one place.
LEMMA OwnTake ==
    ASSUME TypeOK, OwnedApart, NEW t \in Threads, NEW x, Goto(t, x), NEW d \in Drivers,
           task' = [task EXCEPT ![t] = d], pc[t] \notin OwningPCs,
           d \in Keys(runq) \/ d \in blocked \/ d \in poll.aborted,
           d \notin Keys(runq'), d \notin blocked', d \notin poll'.aborted,
           Distinct(runq'), Keys(runq') \subseteq Keys(runq), blocked' \subseteq blocked,
           poll'.aborted \subseteq poll.aborted, poll'.pending = poll.pending,
           poll'.ready = poll.ready, done' = done
    PROVE  OwnedApart'
<1>1. \A u \in Threads, e \in Drivers : Owns(u, e)' => (u = t /\ e = d) \/ (u # t /\ Owns(u, e))
    BY DEF TypeOK, Goto, Owns
<1>2. Apart(d)'
    BY <1>1 DEF OwnedApart, Apart
<1>3. ASSUME NEW e \in Drivers, e # d PROVE Apart(e)'
    BY <1>1, <1>3 DEF OwnedApart, Apart
<1> QED BY <1>2, <1>3 DEF OwnedApart

\* A thread puts the driver it owns in one place and forgets it.
LEMMA OwnPut ==
    ASSUME TypeOK, OwnedApart, NEW t \in Threads, NEW x, Goto(t, x), x \notin OwningPCs,
           NEW d \in Drivers, Owns(t, d),
           \A u \in Threads \ {t} : task'[u] = task[u],
           Distinct(runq'), Keys(runq') \subseteq Keys(runq) \cup {d},
           blocked' \subseteq blocked \cup {d}, done' \subseteq done \cup {d},
           poll'.pending \subseteq poll.pending \cup {d},
           poll'.aborted = poll.aborted, poll'.ready = poll.ready,
           d \in Keys(runq') => d \notin blocked' /\ d \notin poll'.pending /\ d \notin done',
           d \in blocked' => d \notin poll'.pending /\ d \notin done',
           d \in poll'.pending => d \notin done'
    PROVE  OwnedApart'
<1>1. \A u \in Threads, e \in Drivers : Owns(u, e)' => u # t /\ Owns(u, e)
    BY DEF TypeOK, Goto, Owns
<1>2. Apart(d)'
  <2>1. \A u \in Threads : ~Owns(u, d)'
    BY <1>1 DEF OwnedApart, Apart
  <2>2. /\ d \notin Keys(runq) /\ d \notin blocked /\ d \notin poll.pending
        /\ d \notin poll.aborted /\ d \notin poll.ready /\ d \notin done
    BY DEF OwnedApart, Apart
  <2> QED BY <2>1, <2>2 DEF Apart
<1>3. ASSUME NEW e \in Drivers, e # d PROVE Apart(e)'
    BY <1>1, <1>3 DEF OwnedApart, Apart
<1> QED BY <1>2, <1>3 DEF OwnedApart

\* A parked driver is owned by no worker and is in no other place.
LEMMA ParkedApart ==
    ASSUME TypeOK, PcOK, OwnedApart, NEW e \in Drivers, Parked(e)
    PROVE  /\ \A w \in Workers : ~Owns(w, e)
           /\ e \notin Keys(runq) /\ e \notin poll.pending /\ e \notin poll.aborted
           /\ e \notin poll.ready /\ e \notin done
BY SchedulerAssumption DEF OwnedApart, Apart, Parked, Probing, Owns, OwningPCs, Threads

-----------------------------------------------------------------------------
(* A worker that keeps its task, or hands it over. *)

\* A worker is none of the three named threads.
LEMMA WorkerThread ==
    ASSUME NEW w \in Workers
    PROVE  /\ w \in Threads /\ w # Sched /\ w # Poller /\ w # Canceller
           /\ Workers \subseteq Threads
           /\ Sched \in Threads /\ Poller \in Threads /\ Canceller \in Threads
BY SchedulerAssumption DEF Threads

\* A worker in a step that handles a task owns that task.
LEMMA WorkerOwns ==
    ASSUME IInv, NEW w \in Workers, pc[w] \in OwningPCs
    PROVE  task[w] \in Drivers /\ Owns(w, task[w])
BY WorkerThread DEF IInv, PcOK, Owns

\* Worker w moves to step x, holding what that step needs.
LEMMA PcWorker ==
    ASSUME TypeOK, PcOK, NEW w \in Workers, NEW x, Goto(w, x),
           x \notin {"probe", "reinsert", "exit"},
           \A u \in Threads \ {w} : task'[u] = task[u],
           x \in OwningPCs \cup ParkingPCs => task'[w] \in Drivers,
           x \in {"markdep", "wait", "recheck"} => BuildOf[task'[w]] \in Drivers,
           x = "park" => /\ dstate'[task'[w]] \in BlockedReasons
                         /\ dstate'[task'[w]] = "Dependency" => BuildOf[task'[w]] \in Drivers,
           \A v \in Workers \ {w} : pc[v] = "park" => dstate'[task[v]] = dstate[task[v]]
    PROVE  PcOK'
<1>1. w \in Threads /\ w # Sched /\ w # Poller /\ w # Canceller /\ Workers \subseteq Threads
      /\ Sched \in Threads /\ Poller \in Threads /\ Canceller \in Threads
    BY SchedulerAssumption DEF Threads
<1>2. pc'[w] = x /\ \A u \in Threads \ {w} : pc'[u] = pc[u]
    BY <1>1 DEF TypeOK, Goto
<1>3. /\ pc'[Sched] = pc[Sched] /\ pc'[Poller] = pc[Poller] /\ pc'[Canceller] = pc[Canceller]
      /\ task'[Canceller] = task[Canceller]
    BY <1>1, <1>2
<1>4. \A v \in Workers : pc'[v] \notin {"probe", "reinsert", "exit"}
    BY <1>1, <1>2 DEF PcOK
<1>5. \A t \in Threads \ {Canceller} :
         pc'[t] \in OwningPCs \cup ParkingPCs => task'[t] \in Drivers
    BY <1>1, <1>2 DEF PcOK
<1>6. \A v \in Workers :
         pc'[v] \in {"markdep", "wait", "recheck"} => BuildOf[task'[v]] \in Drivers
    BY <1>1, <1>2 DEF PcOK
<1>7. \A v \in Workers :
         pc'[v] = "park" => /\ dstate'[task'[v]] \in BlockedReasons
                            /\ dstate'[task'[v]] = "Dependency" => BuildOf[task'[v]] \in Drivers
    BY <1>1, <1>2 DEF PcOK
<1> QED BY <1>3, <1>4, <1>5, <1>6, <1>7 DEF PcOK

\* The invariant survives a step of a worker that keeps the task it owns and
\* changes only that task's own state.
LEMMA WorkerKeeps ==
    ASSUME IInv, TypeOK', NEW w \in Workers, NEW x, Goto(w, x),
           pc[w] \in OwningPCs, pc[w] # "depnotify",
           x \in OwningPCs, x \notin {"probe", "reinsert"},
           x = "park" => /\ dstate'[task[w]] \in BlockedReasons
                         /\ dstate'[task[w]] = "Dependency" => BuildOf[task[w]] \in Drivers,
           UNCHANGED <<runq, blocked, shutdown, inBlocked, events, task, poll, done, dep>>,
           Keys(rq) \subseteq Keys(rq'), compl'.remaining = compl.remaining,
           \A e \in Drivers : e # task[w] => /\ dstate'[e] = dstate[e] /\ src'[e] = src[e]
                                             /\ sink'[e] = sink[e]
    PROVE  IInv'
<1> DEFINE d == task[w]
<1>1. /\ w \in Threads /\ w # Canceller /\ w # Sched /\ Workers \subseteq Threads
      /\ Sched \in Threads
    BY SchedulerAssumption DEF Threads
<1>2. d \in Drivers /\ Owns(w, d)
    BY <1>1 DEF IInv, PcOK, Owns
<1>3. \A v \in Workers \ {w} : pc[v] = "park" => task[v] \in Drivers /\ task[v] # d
    BY <1>1, <1>2, SchedulerAssumption DEF IInv, PcOK, OwnedApart, Apart, Owns, OwningPCs, Threads
<1>4. x \notin {"markdep", "wait", "recheck"} /\ x # "exit" /\ x # "shut"
    BY DEF OwningPCs
<1>5. PcOK'
    BY <1>1, <1>2, <1>3, <1>4, PcWorker DEF IInv
<1>6. OwnedApart'
    BY <1>1, OwnKeep DEF IInv
<1>7. CountOK'
    BY <1>1, <1>4 DEF IInv, TypeOK, CountOK, RemainingExact, ShutdownLast, Goto
<1>8. WakeOK'
  <2> SUFFICES ASSUME NEW e \in Drivers, Parked(e)' PROVE WakeFor(e)'
    BY DEF WakeOK
  <2>1. pc'[Sched] = pc[Sched]
    BY <1>1 DEF IInv, TypeOK, Goto
  <2>2. Parked(e) /\ WakeFor(e) /\ (Probing(e) => Probing(e)')
    BY <2>1 DEF Parked, Probing, IInv, WakeOK
  <2>3. e # d
    BY <2>2, <1>2, ParkedApart DEF IInv
  <2>4. \A v \in Workers : pc[v] \in ParkingPCs \cup {"depnotify"} =>
                              pc'[v] = pc[v] /\ task'[v] = task[v]
    BY <1>1 DEF IInv, TypeOK, Goto, OwningPCs, ParkingPCs
  <2>5. events[e] \in Nat /\ events'[e] = events[e]
    BY DEF IInv, TypeOK
  <2>6. \A v \in Workers : pc[v] = "depnotify" => task[v] \in Drivers
    BY WorkerOwns DEF OwningPCs
  <2> QED BY <2>2, <2>3, <2>4, <2>5, <2>6, WakeFrame
<1> QED BY <1>5, <1>6, <1>7, <1>8 DEF IInv

\* The invariant survives a worker handing its task to the run queue or to the
\* poller.
LEMMA WorkerReleases ==
    ASSUME IInv, TypeOK', NEW w \in Workers, Goto(w, "idle"),
           pc[w] \in OwningPCs, pc[w] # "depnotify",
           task' = [task EXCEPT ![w] = NoDriver],
           UNCHANGED <<rq, blocked, shutdown, inBlocked, events, done, dep, src, sink>>,
           compl'.remaining = compl.remaining,
           \/ runq' = Append(runq, task[w]) /\ poll' = poll
           \/ runq' = runq /\ poll' = [poll EXCEPT !.pending = @ \cup {task[w]}],
           \A e \in Drivers : e # task[w] => dstate'[e] = dstate[e]
    PROVE  IInv'
<1> DEFINE d == task[w]
<1>1. /\ w \in Threads /\ w # Canceller /\ w # Sched /\ Workers \subseteq Threads
      /\ Sched \in Threads
    BY SchedulerAssumption DEF Threads
<1>2. d \in Drivers /\ Owns(w, d)
    BY <1>1 DEF IInv, PcOK, Owns
<1>3. \A v \in Workers \ {w} : pc[v] = "park" => task[v] \in Drivers /\ task[v] # d
    BY <1>1, <1>2, SchedulerAssumption DEF IInv, PcOK, OwnedApart, Apart, Owns, OwningPCs, Threads
<1>4. "idle" \notin OwningPCs /\ "idle" \notin ParkingPCs
    BY DEF OwningPCs, ParkingPCs
<1>5. /\ task'[w] = NoDriver
      /\ \A u \in Threads \ {w} : task'[u] = task[u]
    BY <1>1 DEF IInv, TypeOK
<1>6. PcOK'
    BY <1>1, <1>3, <1>4, <1>5, PcWorker DEF IInv
<1>7. OwnedApart'
  <2>1. /\ d \notin Keys(runq) /\ d \notin blocked /\ d \notin poll.pending
        /\ d \notin poll.aborted /\ d \notin poll.ready /\ d \notin done
    BY <1>1, <1>2 DEF IInv, OwnedApart, Apart
  <2>2. CASE runq' = Append(runq, d) /\ poll' = poll
    <3>1. Keys(runq') = Keys(runq) \cup {d} /\ Distinct(runq')
      BY <2>1, <2>2, <1>2, KeysAppend DEF IInv, TypeOK, OwnedApart
    <3> QED BY <2>1, <2>2, <3>1, <1>1, <1>2, <1>4, <1>5, OwnPut DEF IInv
  <2>3. CASE runq' = runq /\ poll' = [poll EXCEPT !.pending = @ \cup {d}]
    <3>1. /\ poll'.pending = poll.pending \cup {d} /\ poll'.aborted = poll.aborted
          /\ poll'.ready = poll.ready
      BY <2>3 DEF IInv, TypeOK
    <3>2. Distinct(runq') /\ Keys(runq') = Keys(runq)
      BY <2>3 DEF IInv, OwnedApart
    <3> QED BY <2>1, <3>1, <3>2, <1>1, <1>2, <1>4, <1>5, OwnPut DEF IInv
  <2> QED BY <2>2, <2>3
<1>8. CountOK'
    BY <1>1 DEF IInv, TypeOK, CountOK, RemainingExact, ShutdownLast, Goto
<1>9. WakeOK'
  <2> SUFFICES ASSUME NEW e \in Drivers, Parked(e)' PROVE WakeFor(e)'
    BY DEF WakeOK
  <2>1. pc'[Sched] = pc[Sched]
    BY <1>1 DEF IInv, TypeOK, Goto
  <2>2. Parked(e) /\ WakeFor(e) /\ (Probing(e) => Probing(e)')
    BY <2>1, <1>1, <1>5 DEF Parked, Probing, IInv, WakeOK
  <2>3. e # d
    BY <2>2, <1>2, ParkedApart DEF IInv
  <2>4. \A v \in Workers : pc[v] \in ParkingPCs \cup {"depnotify"} =>
                              pc'[v] = pc[v] /\ task'[v] = task[v]
    BY <1>1, <1>5 DEF IInv, TypeOK, Goto, OwningPCs, ParkingPCs
  <2>5. events[e] \in Nat /\ events'[e] = events[e]
    BY DEF IInv, TypeOK
  <2>6. \A v \in Workers : pc[v] = "depnotify" => task[v] \in Drivers
    BY WorkerOwns DEF OwningPCs
  <2> QED BY <2>2, <2>3, <2>4, <2>5, <2>6, WakeFrame
<1> QED BY <1>6, <1>7, <1>8, <1>9 DEF IInv

-----------------------------------------------------------------------------
(* The steps of a worker. *)

\* finish_with_state keeps the invariant: the task goes to the poller while an
\* operator has pending I/O, and stays with the worker otherwise.
LEMMA FinishStep ==
    ASSUME IInv, NEW w \in Workers, pc[w] \in {"run", "slice"},
           NEW s \in {"Finished", "Failed"}, FinishWithState(w, task[w], s),
           UNCHANGED <<schedVars, snap, first, src, edge, sink, io, dep, complVars>>
    PROVE  IInv'
<1> DEFINE d == task[w]
<1>1. d \in Drivers /\ pc[w] \in OwningPCs /\ pc[w] # "depnotify"
    BY WorkerOwns DEF OwningPCs
<1>2. w \in Threads
    BY WorkerThread
<1>3. \A e \in Drivers : e # d => dstate'[e] = dstate[e]
    BY <1>1 DEF FinishWithState, SetState, IInv, TypeOK
<1>4. CASE io[d] /\ final[d] = "none"
  <2>1. /\ final' = [final EXCEPT ![d] = s] /\ dstate' = [dstate EXCEPT ![d] = "PendingFinish"]
        /\ poll' = [poll EXCEPT !.pending = @ \cup {d}]
        /\ task' = [task EXCEPT ![w] = NoDriver] /\ Goto(w, "idle")
    BY <1>4 DEF FinishWithState, SetState
  <2>2. final' \in [Drivers -> {"none", "Finished", "Failed"}]
    BY <2>1 DEF IInv, TypeOK
  <2>3. dstate' \in [Drivers -> DriverStates]
    BY <2>1 DEF IInv, TypeOK, DriverStates
  <2>4. poll' \in [pending : SUBSET Drivers, aborted : SUBSET Drivers, ready : SUBSET Drivers]
    BY <2>1, <1>1 DEF IInv, TypeOK
  <2>5. pc' \in [Threads -> PCs] /\ task' \in [Threads -> Drivers \cup {NoDriver}]
    BY <2>1 DEF IInv, TypeOK, Goto, PCs
  <2>6. TypeOK'
    BY <2>2, <2>3, <2>4, <2>5 DEF IInv, TypeOK
  <2> QED BY <2>1, <2>6, <1>1, <1>3, WorkerReleases
<1>5. CASE ~(io[d] /\ final[d] = "none")
  <2>1. PICK x \in {"fin", "status"} : Goto(w, x)
    BY <1>5 DEF FinishWithState
  <2>2. /\ final' = [final EXCEPT ![d] = "none"] /\ dstate' = [dstate EXCEPT ![d] = s]
        /\ UNCHANGED <<poll, task>>
    BY <1>5 DEF FinishWithState, SetState
  <2>3. final' \in [Drivers -> {"none", "Finished", "Failed"}]
    BY <2>2 DEF IInv, TypeOK
  <2>4. dstate' \in [Drivers -> DriverStates]
    BY <2>2 DEF IInv, TypeOK, DriverStates
  <2>5. pc' \in [Threads -> PCs]
    BY <2>1 DEF IInv, TypeOK, Goto, PCs
  <2>6. TypeOK'
    BY <2>2, <2>3, <2>4, <2>5 DEF IInv, TypeOK
  <2>7. x \in OwningPCs /\ x \notin {"probe", "reinsert"} /\ x # "park"
    BY DEF OwningPCs
  <2> QED BY <2>1, <2>2, <2>6, <2>7, <1>1, <1>3, WorkerKeeps
<1> QED BY <1>4, <1>5

\* A step that sets the driver's state and keeps everything else.
LEMMA StateStep ==
    ASSUME IInv, NEW w \in Workers, pc[w] \in OwningPCs, pc[w] # "depnotify",
           NEW x \in OwningPCs, x \notin {"probe", "reinsert"}, Goto(w, x),
           NEW s \in DriverStates, SetState(task[w], s),
           x = "park" => s \in BlockedReasons
                         /\ (s = "Dependency" => BuildOf[task[w]] \in Drivers),
           UNCHANGED <<schedVars, task, snap, first, poll, final, src, edge, sink,
                       io, dep, complVars>>
    PROVE  IInv'
<1>1. task[w] \in Drivers /\ w \in Threads
    BY WorkerOwns, WorkerThread
<1>2. x \in PCs
    BY DEF OwningPCs, PCs
<1>3. TypeOK'
    BY <1>2 DEF IInv, TypeOK, Goto, SetState
<1>4. dstate'[task[w]] = s /\ \A e \in Drivers : e # task[w] => dstate'[e] = dstate[e]
    BY <1>1 DEF IInv, TypeOK, SetState
<1> QED BY <1>3, <1>4, WorkerKeeps

\* The abort test before process() keeps the invariant.
LEMMA WorkerCheckStep ==
    ASSUME IInv, NEW w \in Workers, WorkerCheck(w)
    PROVE  IInv'
<1>1. PICK x \in {"fin", "run"} : Goto(w, x)
    BY DEF WorkerCheck
<1>2. /\ pc[w] \in OwningPCs /\ pc[w] # "depnotify" /\ x \in OwningPCs
      /\ x \notin {"probe", "reinsert"} /\ x # "park" /\ x \in PCs
    BY DEF WorkerCheck, OwningPCs, PCs
<1>3. UNCHANGED <<schedVars, task, snap, first, poll, driverVars, complVars>>
    BY DEF WorkerCheck
<1>4. TypeOK'
    BY <1>1, <1>2, <1>3 DEF IInv, TypeOK, Goto
<1> QED BY <1>1, <1>2, <1>3, <1>4, WorkerKeeps

\* Re-entering process() after PendingFinish keeps the invariant.
LEMMA ProcessPendingFinishStep ==
    ASSUME IInv, NEW w \in Workers, ProcessPendingFinish(w)
    PROVE  IInv'
<1> DEFINE d == task[w]
<1>1. d \in Drivers /\ pc[w] \in OwningPCs /\ pc[w] # "depnotify" /\ w \in Threads
    BY WorkerOwns, WorkerThread DEF ProcessPendingFinish, OwningPCs
<1>2. CASE io[d]
  <2>1. /\ dstate' = [dstate EXCEPT ![d] = "PendingFinish"]
        /\ poll' = [poll EXCEPT !.pending = @ \cup {d}]
        /\ task' = [task EXCEPT ![w] = NoDriver] /\ Goto(w, "idle")
        /\ UNCHANGED <<schedVars, snap, first, final, src, edge, sink, io, dep, complVars>>
    BY <1>2 DEF ProcessPendingFinish, SetState
  <2>2. dstate' \in [Drivers -> DriverStates]
    BY <2>1 DEF IInv, TypeOK, DriverStates
  <2>3. poll' \in [pending : SUBSET Drivers, aborted : SUBSET Drivers, ready : SUBSET Drivers]
    BY <2>1, <1>1 DEF IInv, TypeOK
  <2>4. pc' \in [Threads -> PCs] /\ task' \in [Threads -> Drivers \cup {NoDriver}]
    BY <2>1 DEF IInv, TypeOK, Goto, PCs
  <2>5. TypeOK'
    BY <2>1, <2>2, <2>3, <2>4 DEF IInv, TypeOK
  <2>6. \A e \in Drivers : e # d => dstate'[e] = dstate[e]
    BY <2>1 DEF IInv, TypeOK
  <2> QED BY <1>1, <2>1, <2>5, <2>6, WorkerReleases
<1>3. CASE ~io[d]
  <2>1. FinishWithState(w, d, final[d]) /\ final[d] \in {"Finished", "Failed"}
    BY <1>1, <1>3 DEF ProcessPendingFinish, IInv, TypeOK
  <2> QED BY <2>1, FinishStep DEF ProcessPendingFinish
<1> QED BY <1>2, <1>3

\* The early returns of process_inner keep the invariant; a driver that parks on
\* its dependency has one.
LEMMA ProcessTopStep ==
    ASSUME IInv, NEW w \in Workers, ProcessTop(w)
    PROVE  IInv'
<1> DEFINE d == task[w]
<1>1. pc[w] \in {"run", "slice"} /\ pc[w] \in OwningPCs /\ pc[w] # "depnotify"
    BY DEF ProcessTop, OwningPCs
<1>2. CASE FinishWithState(w, d, "Failed") \/ FinishWithState(w, d, "Finished")
    BY <1>1, <1>2, FinishStep DEF ProcessTop
<1>3. CASE SetState(d, "Ready") /\ Goto(w, "requeue") /\ UNCHANGED <<final, poll, task>>
    BY <1>1, <1>3, StateStep DEF ProcessTop, OwningPCs, DriverStates
<1>4. CASE DepBlocked(d) /\ SetState(d, "Dependency") /\ Goto(w, "park")
           /\ UNCHANGED <<final, poll, task>>
  <2>1. BuildOf[d] \in Drivers
    BY <1>1, <1>4, WorkerOwns, SchedulerAssumption DEF DepBlocked
  <2>2. "park" \in OwningPCs /\ "Dependency" \in DriverStates /\ "Dependency" \in BlockedReasons
    BY DEF OwningPCs, DriverStates, BlockedReasons
  <2> QED BY <1>1, <1>4, <2>1, <2>2, StateStep DEF ProcessTop
<1> QED BY <1>2, <1>3, <1>4 DEF ProcessTop

\* Moving a chunk through drive_dataflow keeps the invariant.
LEMMA DriveDataflowStep ==
    ASSUME IInv, NEW w \in Workers, DriveDataflow(w)
    PROVE  IInv'
<1> DEFINE d == task[w]
<1>1. pc[w] = "run" /\ pc[w] \in OwningPCs /\ pc[w] # "depnotify" /\ d \in Drivers
      /\ w \in Threads
    BY WorkerOwns, WorkerThread DEF DriveDataflow, Runs, OwningPCs
<1>2. PICK x \in {"run", "slice"} : Goto(w, x)
    BY DEF DriveDataflow
<1>3. x \in OwningPCs /\ x \notin {"probe", "reinsert"} /\ x # "park" /\ x \in PCs
    BY DEF OwningPCs, PCs
<1>4. \E b \in BOOLEAN : edge' = [edge EXCEPT ![d] = b]
    BY DEF DriveDataflow
<1>5. \E b \in BOOLEAN : sink' = [sink EXCEPT ![d].full = b]
    BY DEF DriveDataflow
<1>6. io' \in [Drivers -> BOOLEAN]
  <2>1. CASE UNCHANGED io
    BY <2>1 DEF IInv, TypeOK
  <2>2. ASSUME NEW b \in BOOLEAN, io' = [io EXCEPT ![d] = @ \/ b]
        PROVE  io' \in [Drivers -> BOOLEAN]
    BY <2>2 DEF IInv, TypeOK
  <2> QED BY <2>1, <2>2 DEF DriveDataflow
<1>7. src' \in [Drivers -> [left : Nat, avail : Nat, eos : BOOLEAN]]
      /\ \A e \in Drivers : e # d => src'[e] = src[e]
  <2>1. CASE UNCHANGED src
    BY <2>1 DEF IInv, TypeOK
  <2>2. CASE CanPull(d) /\ src' = [src EXCEPT ![d].avail = @ - 1]
    <3>1. src[d] \in [left : Nat, avail : Nat, eos : BOOLEAN] /\ src[d].avail > 0
      BY <1>1, <2>2 DEF IInv, TypeOK, CanPull, HasOutput
    <3>2. src[d].avail - 1 \in Nat
      BY <3>1
    <3> QED BY <2>2, <3>1, <3>2 DEF IInv, TypeOK
  <2> QED BY <2>1, <2>2 DEF DriveDataflow
<1>8. edge' \in [Drivers -> BOOLEAN]
    BY <1>4 DEF IInv, TypeOK
<1>9. sink' \in [Drivers -> [full : BOOLEAN, finishing : BOOLEAN]]
      /\ \A e \in Drivers : e # d => sink'[e] = sink[e]
  <2>1. PICK b \in BOOLEAN : sink' = [sink EXCEPT ![d].full = b]
    BY <1>5
  <2>2. sink[d] \in [full : BOOLEAN, finishing : BOOLEAN]
    BY <1>1 DEF IInv, TypeOK
  <2>3. [sink[d] EXCEPT !.full = b] \in [full : BOOLEAN, finishing : BOOLEAN]
    BY <2>2
  <2>4. sink' = [sink EXCEPT ![d] = [sink[d] EXCEPT !.full = b]]
    BY <2>1
  <2>5. sink \in [Drivers -> [full : BOOLEAN, finishing : BOOLEAN]]
    BY DEF IInv, TypeOK
  <2> QED BY <2>3, <2>4, <2>5
<1>10. dstate' \in [Drivers -> DriverStates]
       /\ \A e \in Drivers : e # d => dstate'[e] = dstate[e]
    BY DEF IInv, TypeOK, DriveDataflow, SetState, DriverStates
<1>11. pc' \in [Threads -> PCs]
    BY <1>2, <1>3 DEF IInv, TypeOK, Goto
<1>12. TypeOK'
    BY <1>6, <1>7, <1>8, <1>9, <1>10, <1>11 DEF IInv, TypeOK, DriveDataflow
<1> QED BY <1>1, <1>2, <1>3, <1>7, <1>9, <1>10, <1>12, WorkerKeeps DEF DriveDataflow

\* An iteration without progress keeps the invariant.
LEMMA NoProgressStep ==
    ASSUME IInv, NEW w \in Workers, NoProgress(w)
    PROVE  IInv'
<1>1. pc[w] \in OwningPCs /\ pc[w] # "depnotify"
    BY DEF NoProgress, Runs, OwningPCs
<1>2. "classify" \in OwningPCs /\ "Running" \in DriverStates
    BY DEF OwningPCs, DriverStates
<1> QED BY <1>1, <1>2, StateStep DEF NoProgress

\* Classifying why nothing moved keeps the invariant.
LEMMA ClassifyStep ==
    ASSUME IInv, NEW w \in Workers, Classify(w)
    PROVE  IInv'
<1> DEFINE r == Reason(task[w])
<1>1. pc[w] \in OwningPCs /\ pc[w] # "depnotify"
    BY DEF Classify, OwningPCs
<1>2. r \in {"InputEmpty", "OutputFull", "Ready"}
    BY DEF Reason
<1>3. r \in DriverStates /\ (r # "Ready" => r \in BlockedReasons /\ r # "Dependency")
    BY <1>2 DEF DriverStates, BlockedReasons
<1>4. CASE r = "Ready"
  <2>1. Goto(w, "requeue") /\ SetState(task[w], "Ready") /\ "requeue" \in OwningPCs
    BY <1>4 DEF Classify, OwningPCs
  <2> QED BY <1>1, <1>3, <1>4, <2>1, StateStep DEF Classify
<1>5. CASE r # "Ready"
  <2>1. Goto(w, "park") /\ SetState(task[w], r) /\ "park" \in OwningPCs
    BY <1>5 DEF Classify, OwningPCs
  <2> QED BY <1>1, <1>3, <1>5, <2>1, StateStep DEF Classify
<1> QED BY <1>4, <1>5

\* A failing or panicking operator keeps the invariant.
LEMMA OperatorFailsStep ==
    ASSUME IInv, NEW w \in Workers, OperatorFails(w)
    PROVE  IInv'
<1> DEFINE d == task[w]
<1>1. pc[w] = "run" /\ pc[w] \in OwningPCs /\ pc[w] # "depnotify"
    BY DEF OperatorFails, Runs, OwningPCs
<1>2. CASE FinishWithState(w, d, "Failed")
    BY <1>1, <1>2, FinishStep DEF OperatorFails
<1>3. CASE SetState(d, "Failed") /\ Goto(w, "status") /\ UNCHANGED <<final, poll, task>>
  <2>1. "status" \in OwningPCs /\ "Failed" \in DriverStates
    BY DEF OwningPCs, DriverStates
  <2> QED BY <1>1, <1>3, <2>1, StateStep DEF OperatorFails
<1> QED BY <1>2, <1>3 DEF OperatorFails

\* Requeueing a ready task in worker_loop keeps the invariant.
LEMMA RequeueStep ==
    ASSUME IInv, NEW w \in Workers, Requeue(w)
    PROVE  IInv'
<1> DEFINE d == task[w]
<1>1. pc[w] = "requeue" /\ pc[w] \in OwningPCs /\ pc[w] # "depnotify" /\ d \in Drivers
      /\ w \in Threads
    BY WorkerOwns, WorkerThread DEF Requeue, OwningPCs
<1>2. CASE ShouldAbortImmediately(d)
  <2>1. Goto(w, "fin") /\ UNCHANGED <<runq, task>> /\ "fin" \in OwningPCs /\ "fin" \in PCs
    BY <1>2 DEF Requeue, OwningPCs, PCs
  <2>2. TypeOK'
    BY <2>1 DEF IInv, TypeOK, Goto, Requeue
  <2> QED BY <1>1, <2>1, <2>2, WorkerKeeps DEF Requeue
<1>3. CASE ~ShouldAbortImmediately(d)
  <2>1. /\ runq' = Append(runq, d) /\ task' = [task EXCEPT ![w] = NoDriver]
        /\ Goto(w, "idle") /\ "idle" \in PCs
    BY <1>3 DEF Requeue, PCs
  <2>2. runq' \in Seq(Drivers)
    BY <1>1, <2>1, KeysAppend DEF IInv, TypeOK
  <2>3. TypeOK'
    BY <2>1, <2>2 DEF IInv, TypeOK, Goto, Requeue
  <2> QED BY <1>1, <2>1, <2>3, WorkerReleases DEF Requeue
<1> QED BY <1>2, <1>3

\* The countdown is untouched.
LEMMA CountKeep ==
    ASSUME CountOK, UNCHANGED <<done, shutdown>>, compl'.remaining = compl.remaining,
           \A t \in Threads : pc'[t] = "shut" => pc[t] = "shut"
    PROVE  CountOK'
BY DEF CountOK, RemainingExact, ShutdownLast

\* While a driver is parked the event scheduler has not been shut down.
LEMMA ParkedNoShutdown ==
    ASSUME IInv, NEW e \in Drivers, Parked(e)
    PROVE  ~shutdown
BY ParkedApart DEF IInv, CountOK, ShutdownLast

\* Every parked driver keeps its wake-up when no parked driver is touched.
LEMMA WakeKeep ==
    ASSUME IInv, TypeOK',
           \A e \in Drivers : Parked(e)' =>
              /\ Parked(e) /\ dstate'[e] = dstate[e] /\ src'[e] = src[e]
              /\ sink'[e] = sink[e] /\ (inBlocked[e] => inBlocked'[e])
              /\ events'[e] >= events[e],
           Keys(rq) \subseteq Keys(rq'), dep' = dep,
           \A w \in Workers : pc[w] \in ParkingPCs \cup {"depnotify"} =>
                                 pc'[w] = pc[w] /\ task'[w] = task[w],
           \A e \in Drivers : Parked(e)' /\ Probing(e) => Probing(e)'
    PROVE  WakeOK'
<1> SUFFICES ASSUME NEW e \in Drivers, Parked(e)' PROVE WakeFor(e)'
    BY DEF WakeOK
<1>1. WakeFor(e)
    BY DEF IInv, WakeOK
<1>2. events[e] \in Nat /\ events'[e] \in Nat
    BY DEF IInv, TypeOK
<1>3. \A w \in Workers : pc[w] = "depnotify" => task[w] \in Drivers
    BY WorkerOwns DEF OwningPCs
<1> QED BY <1>1, <1>2, <1>3, WakeFrame

\* Popping the run queue in worker_loop keeps the invariant.
LEMMA WorkerPopStep ==
    ASSUME IInv, NEW w \in Workers, WorkerPop(w)
    PROVE  IInv'
<1> DEFINE d == Head(runq)
<1>1. /\ w \in Threads /\ w # Sched /\ Workers \subseteq Threads /\ Sched \in Threads
      /\ pc[w] = "idle" /\ "idle" \notin OwningPCs /\ "idle" \notin ParkingPCs
      /\ "check" \in OwningPCs /\ "check" \in PCs
    BY WorkerThread DEF WorkerPop, OwningPCs, ParkingPCs, PCs
<1>2. /\ Tail(runq) \in Seq(Drivers) /\ d \in Drivers /\ d \in Keys(runq)
      /\ Keys(Tail(runq)) \subseteq Keys(runq) /\ Distinct(Tail(runq))
      /\ d \notin Keys(Tail(runq))
    BY KeysTail DEF WorkerPop, IInv, TypeOK, OwnedApart
<1>3. /\ task' = [task EXCEPT ![w] = d] /\ runq' = Tail(runq) /\ Goto(w, "check")
      /\ UNCHANGED <<blocked, rq, shutdown, inBlocked, events, snap, first, poll,
                     driverVars, complVars>>
    BY DEF WorkerPop
<1>4. task'[w] = d /\ \A u \in Threads \ {w} : task'[u] = task[u]
    BY <1>1, <1>3 DEF IInv, TypeOK
<1>5. pc'[w] = "check" /\ \A u \in Threads \ {w} : pc'[u] = pc[u]
    BY <1>1, <1>3 DEF IInv, TypeOK, Goto
<1>6. TypeOK'
    BY <1>1, <1>2, <1>3 DEF IInv, TypeOK, Goto
<1>7. PcOK'
    BY <1>1, <1>2, <1>3, <1>4, PcWorker DEF IInv
<1>8. OwnedApart'
  <2>1. d \notin blocked /\ d \notin poll.aborted
    BY <1>2 DEF IInv, OwnedApart, Apart
  <2> QED BY <2>1, <1>1, <1>2, <1>3, OwnTake DEF IInv
<1>9. CountOK'
    BY <1>3, <1>5, CountKeep DEF IInv
<1>10. WakeOK'
  <2>1. \A e \in Drivers : Parked(e)' => Parked(e) /\ events[e] \in Nat /\ (Probing(e) => Probing(e)')
    BY <1>1, <1>3, <1>4, <1>5 DEF Parked, Probing, IInv, TypeOK
  <2> QED BY <2>1, <1>1, <1>3, <1>4, <1>5, <1>6, WakeKeep
<1> QED BY <1>6, <1>7, <1>8, <1>9, <1>10 DEF IInv

\* Readying a dependency keeps the invariant: a driver that waits for it is
\* registered, and then its wake-up is owed by this thread, or is still parking.
LEMMA DriveSetFinishingStep ==
    ASSUME IInv, NEW w \in Workers, DriveSetFinishing(w)
    PROVE  IInv'
<1> DEFINE d == task[w]
<1>1. /\ pc[w] = "run" /\ pc[w] \in OwningPCs /\ pc[w] \notin ParkingPCs
      /\ d \in Drivers /\ Owns(w, d)
      /\ w \in Threads /\ w # Sched /\ Workers \subseteq Threads /\ Sched \in Threads
    BY WorkerOwns, WorkerThread DEF DriveSetFinishing, Runs, OwningPCs, ParkingPCs
<1>2. /\ sink' = [sink EXCEPT ![d].finishing = TRUE]
      /\ dep' = [dep EXCEPT ![d].ready = TRUE]
      /\ dstate' = [dstate EXCEPT ![d] = "Running"]
      /\ UNCHANGED <<schedVars, task, snap, first, poll, final, src, edge, io, complVars>>
    BY DEF DriveSetFinishing, SetState
<1>3. PICK x \in {"run", "depnotify"} : Goto(w, x) /\ (x = "run" => dep[d].ready)
    BY DEF DriveSetFinishing
<1>4. pc'[w] = x /\ \A u \in Threads \ {w} : pc'[u] = pc[u]
    BY <1>1, <1>3 DEF IInv, TypeOK, Goto
<1>5. /\ x \in OwningPCs /\ x \notin {"probe", "reinsert", "exit", "markdep", "wait", "recheck"}
      /\ x # "park" /\ x # "shut" /\ x \in PCs /\ "Running" \in DriverStates
    BY DEF OwningPCs, PCs, DriverStates
<1>6. TypeOK'
  <2>1. /\ sink \in [Drivers -> [full : BOOLEAN, finishing : BOOLEAN]]
        /\ dep \in [Drivers -> [ready : BOOLEAN, waiters : SUBSET Drivers]]
    BY DEF IInv, TypeOK
  <2>2. sink' \in [Drivers -> [full : BOOLEAN, finishing : BOOLEAN]]
    BY <1>1, <1>2, <2>1
  <2>3. dep' \in [Drivers -> [ready : BOOLEAN, waiters : SUBSET Drivers]]
    BY <1>1, <1>2, <2>1
  <2> QED BY <2>2, <2>3, <1>2, <1>3, <1>5 DEF IInv, TypeOK, Goto
<1>7. \A e \in Drivers : e # d => dstate'[e] = dstate[e] /\ sink'[e] = sink[e] /\ dep'[e] = dep[e]
    BY <1>2 DEF IInv, TypeOK
<1>8. dep'[d].ready /\ dep'[d].waiters = dep[d].waiters
    BY <1>1, <1>2 DEF IInv, TypeOK
<1>9. \A v \in Workers \ {w} : pc[v] = "park" => task[v] \in Drivers /\ task[v] # d
    BY <1>1, WorkerOwns DEF IInv, OwnedApart, Apart, Owns, OwningPCs
<1>10. PcOK'
    BY <1>1, <1>2, <1>3, <1>5, <1>7, <1>9, PcWorker DEF IInv
<1>11. OwnedApart'
    BY <1>1, <1>2, <1>3, OwnKeep DEF IInv
<1>12. CountOK'
    BY <1>2, <1>4, <1>5, CountKeep DEF IInv
<1>13. WakeOK'
  <2> SUFFICES ASSUME NEW e \in Drivers, Parked(e)' PROVE WakeFor(e)'
    BY DEF WakeOK
  <2>1. Parked(e) /\ WakeFor(e) /\ e # d /\ (Probing(e) => Probing(e)')
    <3>1. Parked(e) /\ (Probing(e) => Probing(e)')
      BY <1>1, <1>2, <1>4 DEF Parked, Probing
    <3> QED BY <3>1, <1>1, ParkedApart DEF IInv, WakeOK
  <2>2. /\ dstate'[e] = dstate[e] /\ sink'[e] = sink[e] /\ src'[e] = src[e]
        /\ events'[e] = events[e] /\ events[e] \in Nat /\ inBlocked' = inBlocked
    BY <2>1, <1>2, <1>7 DEF IInv, TypeOK
  <2>3. \A v \in Workers : (task[v] = e /\ pc[v] \in ParkingPCs) \/ pc[v] = "depnotify" =>
                              pc'[v] = pc[v] /\ task'[v] = task[v]
    BY <1>1, <1>2, <1>4
  <2>4. \A v \in Workers : pc[v] = "depnotify" => task[v] \in Drivers
    BY WorkerOwns DEF OwningPCs
  <2>5. CASE dstate[e] = "Dependency" /\ BuildOf[e] = d /\ ~dep[d].ready
    <3>1. x = "depnotify" /\ pc'[w] = "depnotify" /\ task'[w] = d
      BY <1>2, <1>3, <1>4, <2>5
    <3>2. e \in dep[d].waiters \/ ParkedBy(e, {"markdep", "wait"})
      BY <2>1, <2>5 DEF WakeFor
    <3>3. WakeupDue(e)'
      <4>1. CASE e \in dep[d].waiters
        BY <4>1, <3>1, <2>5, <1>8 DEF WakeupDue
      <4>2. CASE ParkedBy(e, {"markdep", "wait"})
        BY <4>2, <2>3 DEF WakeupDue, ParkedBy, ParkingPCs
      <4> QED BY <3>2, <4>1, <4>2
    <3>4. inBlocked'[e] \/ ParkedBy(e, {"mark", "markdep"})'
      BY <2>1, <2>2, <2>3 DEF WakeFor, ParkedBy, ParkingPCs
    <3> QED BY <2>1, <2>2, <2>5, <3>3, <3>4, <1>8 DEF WakeFor
  <2>6. CASE dstate[e] # "Dependency"
    <3>1. CheckIsReady(e)' => CheckIsReady(e)
      BY <2>1, <2>2, <2>6 DEF WakeFor, BlockedReasons, CheckIsReady, HasOutput,
            SourceFinished, SinkFinished, NeedInput
    <3>2. WakeupDue(e) => WakeupDue(e)'
      <4>1. ASSUME NEW v \in Workers, pc[v] = "depnotify", task[v] = BuildOf[e],
                   e \in dep[BuildOf[e]].waiters
            PROVE  e \in dep'[BuildOf[e]].waiters
        BY <4>1, <2>4, <1>7, <1>8
      <4>2. rq' = rq
        BY <1>2
      <4>3. ASSUME NEW v \in Workers, task[v] = e, pc[v] \in ParkingPCs PROVE WakeupDue(e)'
        BY <4>3, <2>3 DEF WakeupDue
      <4>4. ASSUME NEW v \in Workers, pc[v] = "depnotify", task[v] = BuildOf[e],
                   e \in dep[BuildOf[e]].waiters
            PROVE  WakeupDue(e)'
        BY <4>4, <4>1, <2>3 DEF WakeupDue
      <4>5. ASSUME e \in Keys(rq) \/ (events[e] > 0 /\ inBlocked[e]) PROVE WakeupDue(e)'
        BY <4>5, <4>2, <2>2 DEF WakeupDue
      <4> QED BY <4>3, <4>4, <4>5 DEF WakeupDue
    <3>3. inBlocked'[e] \/ ParkedBy(e, {"mark", "markdep"})'
      BY <2>1, <2>2, <2>3 DEF WakeFor, ParkedBy, ParkingPCs
    <3> QED BY <2>1, <2>2, <2>6, <3>1, <3>2, <3>3 DEF WakeFor
  <2>7. CASE dstate[e] = "Dependency" /\ ~(BuildOf[e] = d /\ ~dep[d].ready)
    <3>1. /\ dep'[BuildOf[e]].ready = dep[BuildOf[e]].ready
          /\ dep[BuildOf[e]].waiters \subseteq dep'[BuildOf[e]].waiters
      BY <2>7, <2>1, <1>7, <1>8 DEF WakeFor, IInv, TypeOK
    <3>2. Keys(rq) \subseteq Keys(rq') /\ events'[e] >= events[e]
          /\ (inBlocked[e] => inBlocked'[e]) /\ events'[e] \in Nat
      BY <1>2, <2>2
    <3> QED BY <3>1, <3>2, <2>1, <2>2, <2>3, <2>4, WakeFrame
  <2> QED BY <2>5, <2>6, <2>7
<1> QED BY <1>6, <1>10, <1>11, <1>12, <1>13 DEF IInv

\* What EnqueueEach does to the reschedule queue.
LEMMA EnqueueEachKeys ==
    ASSUME rq \in Seq(Drivers), NEW S, S \subseteq Drivers, EnqueueEach(S)
    PROVE  /\ rq' \in Seq(Drivers) /\ Keys(rq) \subseteq Keys(rq')
           /\ ~shutdown => S \subseteq Keys(rq')
<1>1. CASE shutdown
    BY <1>1 DEF EnqueueEach
<1>2. CASE ~shutdown
  <2>1. PICK s \in Orderings(S) : rq' = rq \o s
    BY <1>2 DEF EnqueueEach
  <2>2. s \in Seq(Drivers) /\ Keys(s) = S
    BY OrderingsType
  <2> QED BY <2>1, <2>2, KeysConcat
<1> QED BY <1>1, <1>2

\* EventScheduler::enqueue adds the key unless the scheduler is shut down.
LEMMA EnqueueKeys ==
    ASSUME rq \in Seq(Drivers), NEW k \in Drivers, Enqueue(k)
    PROVE  /\ rq' \in Seq(Drivers) /\ Keys(rq) \subseteq Keys(rq')
           /\ ~shutdown => k \in Keys(rq')
BY KeysAppend DEF Enqueue

\* Dependency::set_ready enqueues every registered waiter, so the wake-ups this
\* thread owed become keys.
LEMMA DepNotifyStep ==
    ASSUME IInv, NEW w \in Workers, DepNotify(w)
    PROVE  IInv'
<1> DEFINE d == task[w]
<1>1. /\ pc[w] = "depnotify" /\ pc[w] \in OwningPCs /\ pc[w] \notin ParkingPCs
      /\ d \in Drivers /\ Owns(w, d)
      /\ w \in Threads /\ w # Sched /\ Workers \subseteq Threads /\ Sched \in Threads
    BY WorkerOwns, WorkerThread DEF DepNotify, OwningPCs, ParkingPCs
<1>2. /\ EnqueueEach(dep[d].waiters) /\ Goto(w, "run")
      /\ UNCHANGED <<runq, blocked, shutdown, inBlocked, events, task, snap, first,
                     poll, driverVars, complVars>>
    BY DEF DepNotify
<1>3. pc'[w] = "run" /\ \A u \in Threads \ {w} : pc'[u] = pc[u]
    BY <1>1, <1>2 DEF IInv, TypeOK, Goto
<1>4. "run" \in OwningPCs /\ "run" \in PCs
    BY DEF OwningPCs, PCs
<1>5. dep[d].waiters \subseteq Drivers /\ rq \in Seq(Drivers)
    BY <1>1 DEF IInv, TypeOK
<1>6. /\ rq' \in Seq(Drivers) /\ Keys(rq) \subseteq Keys(rq')
      /\ ~shutdown => dep[d].waiters \subseteq Keys(rq')
    BY <1>2, <1>5, EnqueueEachKeys
<1>7. TypeOK'
    BY <1>2, <1>4, <1>6 DEF IInv, TypeOK, Goto
<1>8. PcOK'
    BY <1>1, <1>2, PcWorker DEF IInv
<1>9. OwnedApart'
    BY <1>1, <1>2, OwnKeep DEF IInv
<1>10. CountOK'
    BY <1>2, <1>3, CountKeep DEF IInv
<1>11. WakeOK'
  <2> SUFFICES ASSUME NEW e \in Drivers, Parked(e)' PROVE WakeFor(e)'
    BY DEF WakeOK
  <2>1. Parked(e) /\ (Probing(e) => Probing(e)')
    BY <1>1, <1>2, <1>3 DEF Parked, Probing
  <2>2. WakeFor(e) /\ ~shutdown /\ events[e] \in Nat
    BY <2>1, ParkedNoShutdown DEF IInv, WakeOK, TypeOK
  <2>3. \A v \in Workers : (task[v] = e /\ pc[v] \in ParkingPCs) => pc'[v] = pc[v] /\ task'[v] = task[v]
    BY <1>1, <1>2, <1>3
  <2>4. ASSUME ~(BuildOf[e] = d /\ e \in dep[d].waiters) PROVE WakeupDue(e) => WakeupDue(e)'
    <3>1. CASE e \in Keys(rq) \/ (events[e] > 0 /\ inBlocked[e])
      BY <3>1, <1>2, <1>6 DEF WakeupDue
    <3>2. ASSUME NEW v \in Workers, task[v] = e, pc[v] \in ParkingPCs PROVE WakeupDue(e)'
      BY <3>2, <2>3 DEF WakeupDue
    <3>3. ASSUME NEW v \in Workers, pc[v] = "depnotify", task[v] = BuildOf[e],
                 e \in dep[BuildOf[e]].waiters
          PROVE  WakeupDue(e)'
      <4>1. v # w
        BY <3>3, <2>4
      <4> QED BY <4>1, <3>3, <1>1, <1>2, <1>3 DEF WakeupDue
    <3> QED BY <3>1, <3>2, <3>3 DEF WakeupDue
  <2>5. ASSUME e \in dep[d].waiters PROVE WakeupDue(e)'
    BY <2>2, <2>5, <1>6 DEF WakeupDue
  <2>6. CheckIsReady(e)' = CheckIsReady(e)
    BY <1>2 DEF CheckIsReady, HasOutput, SourceFinished, SinkFinished, NeedInput, DepBlocked
  <2>7. /\ ParkedBy(e, {"mark", "markdep"}) => ParkedBy(e, {"mark", "markdep"})'
        /\ ParkedBy(e, {"markdep", "wait"}) => ParkedBy(e, {"markdep", "wait"})'
    BY <2>3 DEF ParkedBy, ParkingPCs
  <2> QED BY <2>1, <2>2, <2>4, <2>5, <2>6, <2>7, <1>2 DEF WakeFor
<1> QED BY <1>7, <1>8, <1>9, <1>10, <1>11 DEF IInv

\* Publishing a task in the blocked map keeps the invariant: the parking thread
\* owes the key until it has enqueued it.
LEMMA ParkInsertStep ==
    ASSUME IInv, NEW w \in Workers, ParkInsert(w)
    PROVE  IInv'
<1> DEFINE d == task[w]
<1>1. /\ pc[w] = "park" /\ pc[w] \in OwningPCs /\ pc[w] \notin ParkingPCs
      /\ d \in Drivers /\ Owns(w, d)
      /\ w \in Threads /\ w # Sched /\ Workers \subseteq Threads /\ Sched \in Threads
    BY WorkerOwns, WorkerThread DEF ParkInsert, OwningPCs, ParkingPCs
<1>2. UNCHANGED <<runq, rq, shutdown, inBlocked, events, task, snap, first, poll,
                  driverVars, complVars>>
    BY DEF ParkInsert
<1>3. ASSUME NEW x \in {"fin", "status"}, Goto(w, x), UNCHANGED blocked PROVE IInv'
  <2>1. x \in OwningPCs /\ x \in PCs
    BY DEF OwningPCs, PCs
  <2>2. TypeOK'
    BY <1>2, <1>3, <2>1 DEF IInv, TypeOK, Goto
  <2> QED BY <1>1, <1>2, <1>3, <2>1, <2>2, WorkerKeeps
<1>4. ASSUME dstate[d] = "Dependency" \/ d \in Observed,
             Goto(w, IF dstate[d] = "Dependency" THEN "markdep" ELSE "mark"),
             blocked' = blocked \cup {d}
      PROVE  IInv'
  <2>1. PICK x \in {"mark", "markdep"} : Goto(w, x) /\ (dstate[d] = "Dependency" => x = "markdep")
                                         /\ (x = "markdep" => dstate[d] = "Dependency")
    BY <1>4
  <2>2. pc'[w] = x /\ \A u \in Threads \ {w} : pc'[u] = pc[u]
    BY <1>1, <2>1 DEF IInv, TypeOK, Goto
  <2>3. /\ x \notin OwningPCs /\ x \in ParkingPCs /\ x \in PCs /\ x # "park"
    BY DEF OwningPCs, PCs, ParkingPCs
  <2>4. TypeOK'
    BY <1>1, <1>2, <1>4, <2>1, <2>3 DEF IInv, TypeOK, Goto
  <2>5. dstate[d] \in BlockedReasons /\ (dstate[d] = "Dependency" => BuildOf[d] \in Drivers)
    BY <1>1 DEF IInv, PcOK
  <2>6. PcOK'
    BY <1>1, <1>2, <2>1, <2>3, <2>5, PcWorker DEF IInv
  <2>7. OwnedApart'
    <3>1. /\ d \notin Keys(runq) /\ d \notin poll.pending /\ d \notin poll.aborted
          /\ d \notin poll.ready /\ d \notin done
      BY <1>1 DEF IInv, OwnedApart, Apart
    <3> QED BY <3>1, <1>1, <1>2, <1>4, <2>1, <2>3, OwnPut DEF IInv, OwnedApart
  <2>8. CountOK'
    BY <1>2, <2>2, CountKeep DEF IInv
  <2>9. WakeOK'
    <3> SUFFICES ASSUME NEW e \in Drivers, Parked(e)' PROVE WakeFor(e)'
      BY DEF WakeOK
    <3>1. CASE e = d
      <4>1. pc'[w] \in ParkingPCs /\ pc'[w] \in {"mark", "markdep"} /\ task'[w] = e
        BY <3>1, <1>2, <2>2, <2>3
      <4>2. WakeupDue(e)' /\ ParkedBy(e, {"mark", "markdep"})'
        BY <4>1 DEF WakeupDue, ParkedBy
      <4>3. dstate[e] = "Dependency" => ParkedBy(e, {"markdep", "wait"})'
        BY <4>1, <3>1, <2>1, <2>2 DEF ParkedBy
      <4>4. dstate[e] # "Dependency" => e \in Observed
        BY <3>1, <1>4
      <4> QED BY <4>2, <4>3, <4>4, <3>1, <2>5, <1>2 DEF WakeFor
    <3>2. CASE e # d
      <4>1. Parked(e) /\ WakeFor(e) /\ events[e] \in Nat /\ (Probing(e) => Probing(e)')
        BY <3>2, <1>1, <1>2, <1>4, <2>2 DEF Parked, Probing, IInv, WakeOK, TypeOK
      <4>2. \A v \in Workers : pc[v] = "depnotify" => task[v] \in Drivers
        BY WorkerOwns DEF OwningPCs
      <4>3. \A v \in Workers : pc[v] \in ParkingPCs \/ pc[v] = "depnotify" =>
                                  pc'[v] = pc[v] /\ task'[v] = task[v]
        BY <1>1, <1>2, <2>2
      <4> QED BY <4>1, <4>2, <4>3, <1>2, WakeFrame
    <3> QED BY <3>1, <3>2
  <2> QED BY <2>4, <2>6, <2>7, <2>8, <2>9 DEF IInv
<1> QED BY <1>3, <1>4 DEF ParkInsert, MissingObservable

\* Facts shared by the steps of a worker that has published its task and now
\* holds only the key.
LEMMA ParkingWorker ==
    ASSUME IInv, NEW w \in Workers, pc[w] \in ParkingPCs
    PROVE  /\ task[w] \in Drivers /\ pc[w] \notin OwningPCs /\ pc[w] # "depnotify"
           /\ w \in Threads /\ w # Sched /\ Workers \subseteq Threads /\ Sched \in Threads
BY WorkerThread DEF IInv, PcOK, ParkingPCs, OwningPCs

\* The invariant survives a parking worker's step that leaves every task where
\* it is, if the parked drivers keep their wake-ups.
LEMMA ParkingStep ==
    ASSUME IInv, TypeOK', NEW w \in Workers, pc[w] \in ParkingPCs,
           NEW x \in {"wait", "recheck", "self"}, Goto(w, x),
           x \in {"wait", "recheck"} => BuildOf[task[w]] \in Drivers,
           UNCHANGED <<runq, blocked, shutdown, task, poll, dstate, done, compl>>,
           \A e \in Drivers : Parked(e) /\ WakeFor(e) => WakeFor(e)'
    PROVE  IInv'
<1>1. /\ task[w] \in Drivers /\ w \in Threads /\ w # Sched /\ Workers \subseteq Threads
      /\ Sched \in Threads
    BY ParkingWorker
<1>2. x \notin OwningPCs /\ x \notin {"probe", "reinsert", "exit", "park", "shut", "markdep"}
    BY DEF OwningPCs
<1>3. pc'[w] = x /\ \A u \in Threads \ {w} : pc'[u] = pc[u]
    BY <1>1 DEF IInv, TypeOK, Goto
<1>4. PcOK'
    BY <1>1, <1>2, PcWorker DEF IInv
<1>5. OwnedApart'
    BY <1>1, <1>2, OwnKeep DEF IInv
<1>6. CountOK'
    BY <1>2, <1>3, CountKeep DEF IInv
<1>7. \A e \in Drivers : Parked(e)' => Parked(e)
    BY <1>1, <1>3 DEF Parked, Probing
<1>8. WakeOK'
    BY <1>7 DEF IInv, WakeOK
<1> QED BY <1>4, <1>5, <1>6, <1>8 DEF IInv

\* Setting in_blocked keeps the invariant.
LEMMA ParkMarkStep ==
    ASSUME IInv, NEW w \in Workers, ParkMark(w)
    PROVE  IInv'
<1> DEFINE d == task[w]
<1>1. pc[w] \in {"mark", "markdep"} /\ pc[w] \in ParkingPCs
    BY DEF ParkMark, ParkingPCs
<1>2. /\ d \in Drivers /\ w \in Threads /\ w # Sched /\ Workers \subseteq Threads
      /\ Sched \in Threads
    BY <1>1, ParkingWorker
<1>3. /\ inBlocked' = [inBlocked EXCEPT ![d] = TRUE]
      /\ UNCHANGED <<runq, blocked, rq, shutdown, events, task, snap, first, poll,
                     driverVars, complVars>>
    BY DEF ParkMark
<1>4. PICK x \in {"self", "wait"} : /\ Goto(w, x)
                                    /\ (x = "wait" <=> pc[w] = "markdep")
    BY <1>1 DEF ParkMark
<1>5. pc'[w] = x /\ \A u \in Threads \ {w} : pc'[u] = pc[u]
    BY <1>2, <1>4 DEF IInv, TypeOK, Goto
<1>6. x \in PCs /\ x \in ParkingPCs
    BY DEF PCs, ParkingPCs
<1>7. TypeOK'
    BY <1>3, <1>4, <1>6 DEF IInv, TypeOK, Goto
<1>8. x = "wait" => BuildOf[d] \in Drivers
    BY <1>4 DEF IInv, PcOK
<1>9. ASSUME NEW e \in Drivers, Parked(e), WakeFor(e) PROVE WakeFor(e)'
  <2>1. CASE e = d
    <3>1. inBlocked'[e]
      BY <1>3, <2>1 DEF IInv, TypeOK
    <3>2. WakeupDue(e)'
      BY <1>3, <1>5, <1>6, <2>1 DEF WakeupDue
    <3>3. ParkedBy(e, {"markdep", "wait"}) => ParkedBy(e, {"markdep", "wait"})'
      BY <1>1, <1>2, <1>3, <1>4, <1>5 DEF ParkedBy
    <3> QED BY <3>1, <3>2, <3>3, <1>3, <1>9 DEF WakeFor
  <2>2. CASE e # d
    <3>1. inBlocked'[e] = inBlocked[e] /\ events[e] \in Nat
      BY <1>3, <2>2 DEF IInv, TypeOK
    <3>2. \A v \in Workers : pc[v] = "depnotify" => task[v] \in Drivers
      BY WorkerOwns DEF OwningPCs
    <3>3. \A v \in Workers : (task[v] = e /\ pc[v] \in ParkingPCs) \/ pc[v] = "depnotify" =>
                                pc'[v] = pc[v] /\ task'[v] = task[v]
      BY <1>1, <1>2, <1>3, <1>5, <2>2
    <3>4. Probing(e) => Probing(e)'
      BY <1>2, <1>3, <1>5 DEF Probing
    <3> QED BY <3>1, <3>2, <3>3, <3>4, <1>3, <1>9, WakeFrame
  <2> QED BY <2>1, <2>2
<1> QED BY <1>1, <1>3, <1>4, <1>7, <1>8, <1>9, ParkingStep

\* Dependency::add_waiter keeps the invariant: the driver is registered or the
\* dependency is ready.
LEMMA AddWaiterStep ==
    ASSUME IInv, NEW w \in Workers, AddWaiter(w)
    PROVE  IInv'
<1> DEFINE d == task[w]
           b == BuildOf[d]
<1>1. pc[w] = "wait" /\ pc[w] \in ParkingPCs
    BY DEF AddWaiter, ParkingPCs
<1>2. /\ d \in Drivers /\ w \in Threads /\ w # Sched /\ Workers \subseteq Threads
      /\ Sched \in Threads
    BY <1>1, ParkingWorker
<1>3. b \in Drivers
    BY <1>1 DEF IInv, PcOK
<1>4. UNCHANGED <<runq, blocked, shutdown, inBlocked, events, task, snap, first,
                  poll, dstate, final, src, edge, sink, io, complVars>>
    BY DEF AddWaiter
<1>5. \A v \in Workers : pc[v] = "depnotify" => task[v] \in Drivers
    BY WorkerOwns DEF OwningPCs
<1>6. ASSUME NEW x \in {"self", "recheck"}, Goto(w, x), TypeOK',
             Keys(rq) \subseteq Keys(rq'),
             \A c \in Drivers : /\ dep'[c].ready = dep[c].ready
                                /\ dep[c].waiters \subseteq dep'[c].waiters,
             dep[b].ready \/ d \in dep'[b].waiters
      PROVE  IInv'
  <2>1. pc'[w] = x /\ \A u \in Threads \ {w} : pc'[u] = pc[u]
    BY <1>2, <1>6 DEF IInv, TypeOK, Goto
  <2>2. x \in ParkingPCs
    BY DEF ParkingPCs
  <2>3. ASSUME NEW e \in Drivers, Parked(e), WakeFor(e) PROVE WakeFor(e)'
    <3>1. CASE e = d
      <4>1. WakeupDue(e)'
        BY <1>4, <2>1, <2>2, <3>1 DEF WakeupDue
      <4>2. dep'[BuildOf[e]].ready \/ e \in dep'[BuildOf[e]].waiters
        BY <3>1, <1>3, <1>6
      <4>3. inBlocked'[e] \/ ParkedBy(e, {"mark", "markdep"})'
        BY <1>1, <1>2, <1>4, <2>1, <2>3 DEF WakeFor, ParkedBy
      <4> QED BY <4>1, <4>2, <4>3, <1>4, <2>3 DEF WakeFor
    <3>2. CASE e # d
      <4>1. \A v \in Workers : (task[v] = e /\ pc[v] \in ParkingPCs) \/ pc[v] = "depnotify" =>
                                  pc'[v] = pc[v] /\ task'[v] = task[v]
        BY <1>1, <1>2, <1>4, <2>1, <3>2
      <4>2. events[e] \in Nat
        BY DEF IInv, TypeOK
      <4>3. Probing(e) => Probing(e)'
        BY <1>2, <1>4, <2>1 DEF Probing
      <4> QED BY <4>1, <4>2, <4>3, <1>4, <1>5, <1>6, <2>3, WakeFrame
    <3> QED BY <3>1, <3>2
  <2> QED BY <1>1, <1>3, <1>4, <1>6, <2>3, ParkingStep
<1>7. CASE dep[b].ready
  <2>1. Enqueue(d) /\ Goto(w, "self") /\ UNCHANGED dep
    BY <1>7 DEF AddWaiter
  <2>2. rq' \in Seq(Drivers) /\ Keys(rq) \subseteq Keys(rq')
    BY <1>2, <2>1, EnqueueKeys DEF IInv, TypeOK
  <2>3. TypeOK'
    BY <1>4, <2>1, <2>2 DEF IInv, TypeOK, Goto, PCs
  <2> QED BY <1>6, <1>7, <2>1, <2>2, <2>3
<1>8. CASE ~dep[b].ready
  <2>1. /\ dep' = [dep EXCEPT ![b].waiters = @ \cup {d}]
        /\ Goto(w, "recheck") /\ UNCHANGED rq
    BY <1>8 DEF AddWaiter
  <2>2. dep \in [Drivers -> [ready : BOOLEAN, waiters : SUBSET Drivers]]
    BY DEF IInv, TypeOK
  <2>3. /\ dep' \in [Drivers -> [ready : BOOLEAN, waiters : SUBSET Drivers]]
        /\ d \in dep'[b].waiters
        /\ \A c \in Drivers : /\ dep'[c].ready = dep[c].ready
                              /\ dep[c].waiters \subseteq dep'[c].waiters
    BY <1>2, <1>3, <2>1, <2>2
  <2>4. TypeOK'
    BY <1>4, <2>1, <2>3 DEF IInv, TypeOK, Goto, PCs
  <2> QED BY <1>6, <2>1, <2>3, <2>4
<1> QED BY <1>7, <1>8

\* The second look of Dependency::add_waiter keeps the invariant.
LEMMA RecheckWaiterStep ==
    ASSUME IInv, NEW w \in Workers, RecheckWaiter(w)
    PROVE  IInv'
<1> DEFINE d == task[w]
           b == BuildOf[d]
<1>1. pc[w] = "recheck" /\ pc[w] \in ParkingPCs
    BY DEF RecheckWaiter, ParkingPCs
<1>2. /\ d \in Drivers /\ w \in Threads /\ w # Sched /\ Workers \subseteq Threads
      /\ Sched \in Threads
    BY <1>1, ParkingWorker
<1>3. b \in Drivers
    BY <1>1 DEF IInv, PcOK
<1>4. /\ Goto(w, "self")
      /\ UNCHANGED <<runq, blocked, shutdown, inBlocked, events, task, snap, first,
                     poll, driverVars, complVars>>
    BY DEF RecheckWaiter
<1>5. rq' \in Seq(Drivers) /\ Keys(rq) \subseteq Keys(rq')
  <2>1. rq \in Seq(Drivers) /\ dep[b].waiters \subseteq Drivers
    BY <1>3 DEF IInv, TypeOK
  <2>2. EnqueueEach(dep[b].waiters) \/ UNCHANGED rq
    BY DEF RecheckWaiter
  <2> QED BY <2>1, <2>2, EnqueueEachKeys
<1>6. pc'[w] = "self" /\ \A u \in Threads \ {w} : pc'[u] = pc[u]
    BY <1>2, <1>4 DEF IInv, TypeOK, Goto
<1>7. TypeOK'
    BY <1>4, <1>5 DEF IInv, TypeOK, Goto, PCs
<1>8. ASSUME NEW e \in Drivers, Parked(e), WakeFor(e) PROVE WakeFor(e)'
  <2>1. CASE e = d
    <3>1. WakeupDue(e)'
      BY <1>4, <1>6, <2>1 DEF WakeupDue, ParkingPCs
    <3>2. /\ ParkedBy(e, {"mark", "markdep"}) => ParkedBy(e, {"mark", "markdep"})'
          /\ ParkedBy(e, {"markdep", "wait"}) => ParkedBy(e, {"markdep", "wait"})'
      BY <1>1, <1>2, <1>4, <1>6 DEF ParkedBy
    <3> QED BY <3>1, <3>2, <1>4, <1>8 DEF WakeFor
  <2>2. CASE e # d
    <3>1. \A v \in Workers : (task[v] = e /\ pc[v] \in ParkingPCs) \/ pc[v] = "depnotify" =>
                                pc'[v] = pc[v] /\ task'[v] = task[v]
      BY <1>1, <1>2, <1>4, <1>6, <2>2
    <3>2. \A v \in Workers : pc[v] = "depnotify" => task[v] \in Drivers
      BY WorkerOwns DEF OwningPCs
    <3>3. events[e] \in Nat /\ events' = events
      BY <1>4 DEF IInv, TypeOK
    <3>4. Probing(e) => Probing(e)'
      BY <1>2, <1>4, <1>6 DEF Probing
    <3> QED BY <3>1, <3>2, <3>3, <3>4, <1>4, <1>5, <1>8, WakeFrame
  <2> QED BY <2>1, <2>2
<1> QED BY <1>1, <1>4, <1>7, <1>8, ParkingStep

\* The key a parking thread enqueues for itself keeps the invariant: what the
\* thread owed is in the reschedule queue.
LEMMA ParkSelfEnqueueStep ==
    ASSUME IInv, NEW w \in Workers, ParkSelfEnqueue(w)
    PROVE  IInv'
<1> DEFINE d == task[w]
<1>1. pc[w] = "self" /\ pc[w] \in ParkingPCs /\ "idle" \notin OwningPCs /\ "idle" \notin ParkingPCs
    BY DEF ParkSelfEnqueue, ParkingPCs, OwningPCs
<1>2. /\ d \in Drivers /\ w \in Threads /\ w # Sched /\ Workers \subseteq Threads
      /\ Sched \in Threads /\ pc[w] \notin OwningPCs
    BY <1>1, ParkingWorker
<1>3. /\ Enqueue(d) /\ task' = [task EXCEPT ![w] = NoDriver] /\ Goto(w, "idle")
      /\ UNCHANGED <<runq, blocked, shutdown, inBlocked, events, snap, first, poll,
                     driverVars, complVars>>
    BY DEF ParkSelfEnqueue
<1>4. rq' \in Seq(Drivers) /\ Keys(rq) \subseteq Keys(rq') /\ (~shutdown => d \in Keys(rq'))
    BY <1>2, <1>3, EnqueueKeys DEF IInv, TypeOK
<1>5. /\ pc'[w] = "idle" /\ \A u \in Threads \ {w} : pc'[u] = pc[u]
      /\ task'[w] = NoDriver /\ \A u \in Threads \ {w} : task'[u] = task[u]
    BY <1>2, <1>3 DEF IInv, TypeOK, Goto
<1>6. TypeOK'
    BY <1>3, <1>4 DEF IInv, TypeOK, Goto, PCs
<1>7. PcOK'
    BY <1>1, <1>2, <1>3, <1>5, PcWorker DEF IInv
<1>8. OwnedApart'
  <2>1. \A u \in Threads, e \in Drivers : Owns(u, e)' => Owns(u, e)
    BY <1>1, <1>5 DEF Owns
  <2>2. \A e \in Drivers : Apart(e)'
    BY <2>1, <1>3 DEF IInv, OwnedApart, Apart
  <2> QED BY <2>2, <1>3 DEF IInv, OwnedApart, Distinct
<1>9. CountOK'
    BY <1>3, <1>5, CountKeep DEF IInv
<1>10. WakeOK'
  <2> SUFFICES ASSUME NEW e \in Drivers, Parked(e)' PROVE WakeFor(e)'
    BY DEF WakeOK
  <2>1. Parked(e) /\ (Probing(e) => Probing(e)')
    BY <1>2, <1>3, <1>5 DEF Parked, Probing
  <2>2. WakeFor(e) /\ ~shutdown /\ events[e] \in Nat
    BY <2>1, ParkedNoShutdown DEF IInv, WakeOK, TypeOK
  <2>3. CASE e = d
    <3>1. WakeupDue(e)'
      BY <2>2, <2>3, <1>4 DEF WakeupDue
    <3>2. /\ ParkedBy(e, {"mark", "markdep"}) => ParkedBy(e, {"mark", "markdep"})'
          /\ ParkedBy(e, {"markdep", "wait"}) => ParkedBy(e, {"markdep", "wait"})'
      BY <1>1, <1>2, <1>5 DEF ParkedBy
    <3> QED BY <3>1, <3>2, <2>2, <1>3 DEF WakeFor
  <2>4. CASE e # d
    <3>1. \A v \in Workers : (task[v] = e /\ pc[v] \in ParkingPCs) \/ pc[v] = "depnotify" =>
                                pc'[v] = pc[v] /\ task'[v] = task[v]
      BY <1>1, <1>2, <1>5, <2>4
    <3>2. \A v \in Workers : pc[v] = "depnotify" => task[v] \in Drivers
      BY WorkerOwns DEF OwningPCs
    <3> QED BY <3>1, <3>2, <2>1, <2>2, <1>3, <1>4, WakeFrame
  <2> QED BY <2>3, <2>4
<1> QED BY <1>6, <1>7, <1>8, <1>9, <1>10 DEF IInv

-----------------------------------------------------------------------------
(* Failing: a worker whose driver failed, or the cancelling thread. *)

FailPCs == {"status", "snap", "push", "abort", "query"}

\* A failing thread is a worker or the canceller.
LEMMA FailThread ==
    ASSUME NEW t \in Workers \cup {Canceller}
    PROVE  /\ t \in Threads /\ t # Sched /\ t # Poller /\ Sched \in Threads
           /\ Poller \in Threads /\ Canceller \in Threads /\ Workers \subseteq Threads
           /\ Canceller \notin Workers
BY SchedulerAssumption DEF Threads

\* A failing thread moves on; nothing but the failure's own state changes.
LEMMA FailKeeps ==
    ASSUME IInv, TypeOK', NEW t \in Workers \cup {Canceller}, pc[t] \in FailPCs,
           NEW x \in FailPCs \cup {"fin", "exit"}, Goto(t, x),
           t \in Workers => x # "exit", t = Canceller => x # "fin",
           UNCHANGED <<runq, blocked, shutdown, task, poll, done, dstate>>,
           compl'.remaining = compl.remaining,
           \A e \in Drivers : Parked(e) /\ WakeFor(e) => WakeFor(e)'
    PROVE  IInv'
<1>1. /\ t \in Threads /\ t # Sched /\ t # Poller /\ Sched \in Threads
      /\ Poller \in Threads /\ Canceller \in Threads /\ Workers \subseteq Threads
      /\ Canceller \notin Workers
    BY FailThread
<1>2. pc'[t] = x /\ \A u \in Threads \ {t} : pc'[u] = pc[u]
    BY <1>1 DEF IInv, TypeOK, Goto
<1>3. /\ pc[t] \in OwningPCs /\ pc[t] \notin ParkingPCs
      /\ x \notin {"probe", "reinsert", "park", "markdep", "wait", "recheck", "shut"}
    BY DEF FailPCs, OwningPCs, ParkingPCs
<1>4. PcOK'
  <2>1. CASE t \in Workers
    <3>1. task[t] \in Drivers
      BY <2>1, <1>3, WorkerOwns
    <3> QED BY <2>1, <3>1, <1>3, PcWorker DEF IInv
  <2>2. CASE t = Canceller
    BY <2>2, <1>1, <1>2, <1>3 DEF IInv, PcOK, FailPCs
  <2> QED BY <2>1, <2>2
<1>5. OwnedApart'
    BY <1>1, <1>3, OwnKeep DEF IInv
<1>6. CountOK'
    BY <1>2, <1>3, CountKeep DEF IInv
<1>7. \A e \in Drivers : Parked(e)' => Parked(e)
    BY <1>1, <1>2 DEF Parked, Probing
<1>8. WakeOK'
    BY <1>7 DEF IInv, WakeOK
<1> QED BY <1>4, <1>5, <1>6, <1>8 DEF IInv

\* The same when the drivers' state and the notifications are left alone.
LEMMA FailQuiet ==
    ASSUME IInv, TypeOK', NEW t \in Workers \cup {Canceller}, pc[t] \in FailPCs,
           NEW x \in FailPCs \cup {"fin", "exit"}, Goto(t, x),
           t \in Workers => x # "exit", t = Canceller => x # "fin",
           UNCHANGED <<runq, blocked, shutdown, inBlocked, events, task, poll, done, driverVars>>,
           Keys(rq) \subseteq Keys(rq'), compl'.remaining = compl.remaining
    PROVE  IInv'
<1>1. t \in Threads /\ Workers \subseteq Threads
    BY FailThread
<1>2. /\ \A u \in Threads : pc[u] \in ParkingPCs \cup {"depnotify"} => pc'[u] = pc[u]
      /\ \A e \in Drivers : Probing(e) => Probing(e)'
    BY <1>1, FailThread DEF IInv, TypeOK, Goto, FailPCs, ParkingPCs, Probing
<1>3. \A v \in Workers : pc[v] = "depnotify" => task[v] \in Drivers
    BY WorkerOwns DEF OwningPCs
<1>4. ASSUME NEW e \in Drivers, WakeFor(e) PROVE WakeFor(e)'
  <2>1. events[e] \in Nat
    BY DEF IInv, TypeOK
  <2> QED BY <2>1, <1>1, <1>2, <1>3, <1>4, WakeFrame
<1> QED BY <1>4, FailKeeps

\* FragmentContext::set_final_status keeps the invariant.
LEMMA SetFinalStatusStep ==
    ASSUME IInv, NEW t \in Workers \cup {Canceller}, SetFinalStatus(t)
    PROVE  IInv'
<1>1. PICK x \in {"abort", "snap"} : Goto(t, x)
    BY DEF SetFinalStatus
<1>2. pc[t] \in FailPCs /\ x \in FailPCs /\ x \in PCs
    BY DEF SetFinalStatus, FailPCs, PCs
<1>3. /\ first' = [first EXCEPT ![t] = ~ctxError] /\ ctxError' = TRUE
      /\ UNCHANGED <<schedVars, task, snap, poll, driverVars, compl, done, result>>
    BY DEF SetFinalStatus
<1>4. first' \in [Threads -> BOOLEAN]
  <2>1. first \in [Threads -> BOOLEAN] /\ (~ctxError) \in BOOLEAN
    BY DEF IInv, TypeOK
  <2> QED BY <1>3, <2>1
<1>5. TypeOK'
    BY <1>1, <1>2, <1>3, <1>4 DEF IInv, TypeOK, Goto
<1> QED BY <1>1, <1>2, <1>3, <1>5, FailQuiet

\* Copying the blocked keys in enqueue_all_blocked keeps the invariant.
LEMMA SnapBlockedStep ==
    ASSUME IInv, NEW t \in Workers \cup {Canceller}, SnapBlocked(t)
    PROVE  IInv'
<1>1. PICK x \in {"abort", "push"} : Goto(t, x)
    BY DEF SnapBlocked
<1>2. pc[t] \in FailPCs /\ x \in FailPCs /\ x \in PCs
    BY DEF SnapBlocked, FailPCs, PCs
<1>3. /\ snap' = [snap EXCEPT ![t] = blocked]
      /\ UNCHANGED <<schedVars, task, first, poll, driverVars, complVars>>
    BY DEF SnapBlocked
<1>4. TypeOK'
    BY <1>1, <1>2, <1>3 DEF IInv, TypeOK, Goto
<1> QED BY <1>1, <1>2, <1>3, <1>4, FailQuiet

\* Pushing the copied keys only adds keys, stale ones included.
LEMMA PushBlockedStep ==
    ASSUME IInv, NEW t \in Workers \cup {Canceller}, PushBlocked(t)
    PROVE  IInv'
<1>1. /\ Goto(t, "abort") /\ snap' = [snap EXCEPT ![t] = {}]
      /\ UNCHANGED <<runq, blocked, shutdown, inBlocked, events, task, first, poll,
                     driverVars, complVars>>
    BY DEF PushBlocked
<1>2. pc[t] \in FailPCs /\ "abort" \in FailPCs /\ "abort" \in PCs
    BY DEF PushBlocked, FailPCs, PCs
<1>3. PICK s \in Orderings(snap[t]) : rq' = rq \o s
    BY DEF PushBlocked
<1>4. snap[t] \subseteq Drivers /\ rq \in Seq(Drivers)
    BY FailThread DEF IInv, TypeOK
<1>5. s \in Seq(Drivers)
    BY <1>4, OrderingsType
<1>6. rq' \in Seq(Drivers) /\ Keys(rq) \subseteq Keys(rq')
    BY <1>3, <1>4, <1>5, KeysConcat
<1>7. TypeOK'
    BY <1>1, <1>2, <1>6 DEF IInv, TypeOK, Goto
<1> QED BY <1>1, <1>2, <1>6, <1>7, FailQuiet

\* Setting the abort flag keeps the invariant.
LEMMA SetAbortingStep ==
    ASSUME IInv, NEW t \in Workers \cup {Canceller}, SetAborting(t)
    PROVE  IInv'
<1>1. PICK x \in {"query", "fin"} : Goto(t, x) /\ (t = Canceller => x = "query")
    BY DEF SetAborting
<1>2. pc[t] \in FailPCs /\ x \in FailPCs \cup {"fin", "exit"} /\ x \in PCs /\ x # "exit"
    BY DEF SetAborting, FailPCs, PCs
<1>3. /\ compl' = [compl EXCEPT !.aborting = TRUE] /\ first' = [first EXCEPT ![t] = FALSE]
      /\ UNCHANGED <<schedVars, task, snap, poll, driverVars, ctxError, done, result>>
    BY DEF SetAborting
<1>4. compl' \in [remaining : Nat, aborting : BOOLEAN] /\ compl'.remaining = compl.remaining
    BY <1>3 DEF IInv, TypeOK
<1>5. TypeOK'
    BY <1>1, <1>2, <1>3, <1>4 DEF IInv, TypeOK, Goto
<1> QED BY <1>1, <1>2, <1>3, <1>4, <1>5, FailQuiet

\* A notification never takes an event away, and gives one to every observed
\* driver it reaches.
LEMMA NotifyType ==
    ASSUME TypeOK, NEW S, Notify(S)
    PROVE  /\ events' \in [Drivers -> Nat]
           /\ \A e \in Drivers : /\ events'[e] >= events[e]
                                 /\ e \in S \cap Observed => events'[e] > 0
BY DEF TypeOK, Notify

\* Cancelling the exchange receivers keeps the invariant: a source that ends
\* notifies its parked driver.
LEMMA CancelExchangesStep ==
    ASSUME IInv, NEW t \in Workers \cup {Canceller}, CancelExchanges(t)
    PROVE  IInv'
<1>1. PICK x \in {"exit", "fin"} : Goto(t, x) /\ (x = "exit" <=> t = Canceller)
    BY DEF CancelExchanges
<1>2. pc[t] \in FailPCs /\ x \in FailPCs \cup {"fin", "exit"} /\ x \in PCs
    BY DEF CancelExchanges, FailPCs, PCs
<1>3. t \in Threads /\ Workers \subseteq Threads /\ Canceller \notin Workers
    BY FailThread
<1>4. /\ Notify({d \in ExchangeSourced : ~src[d].eos})
      /\ UNCHANGED <<runq, blocked, rq, shutdown, inBlocked, task, snap, first, poll,
                     dstate, final, edge, sink, io, dep, complVars>>
    BY DEF CancelExchanges
<1>5. /\ events' \in [Drivers -> Nat]
      /\ \A e \in Drivers : /\ events'[e] >= events[e]
                            /\ e \in ExchangeSourced /\ ~src[e].eos /\ e \in Observed =>
                                  events'[e] > 0
    BY <1>4, NotifyType DEF IInv
<1>6. /\ src' \in [Drivers -> [left : Nat, avail : Nat, eos : BOOLEAN]]
      /\ \A e \in Drivers : e \notin ExchangeSourced \/ src[e].eos =>
                               src'[e].avail = src[e].avail /\ src'[e].eos = src[e].eos
  <2>1. src \in [Drivers -> [left : Nat, avail : Nat, eos : BOOLEAN]]
    BY DEF IInv, TypeOK
  <2>2. src' = [d \in Drivers |->
                  IF d \in ExchangeSourced THEN [src[d] EXCEPT !.left = 0, !.eos = TRUE]
                                           ELSE src[d]]
    BY DEF CancelExchanges
  <2>3. ASSUME NEW d \in Drivers
        PROVE  /\ src'[d] \in [left : Nat, avail : Nat, eos : BOOLEAN]
               /\ d \notin ExchangeSourced \/ src[d].eos =>
                     src'[d].avail = src[d].avail /\ src'[d].eos = src[d].eos
    <3>1. src[d] \in [left : Nat, avail : Nat, eos : BOOLEAN]
      BY <2>1
    <3>2. CASE d \in ExchangeSourced
      BY <3>1, <3>2, <2>2
    <3>3. CASE d \notin ExchangeSourced
      BY <3>1, <3>3, <2>2
    <3> QED BY <3>2, <3>3
  <2> QED BY <2>2, <2>3
<1>7. TypeOK'
    BY <1>1, <1>2, <1>4, <1>5, <1>6 DEF IInv, TypeOK, Goto
<1>8. /\ \A u \in Threads : pc[u] \in ParkingPCs \cup {"depnotify"} => pc'[u] = pc[u]
      /\ \A e \in Drivers : Probing(e) => Probing(e)'
    BY <1>1, <1>2, <1>3, <1>4, FailThread DEF IInv, TypeOK, Goto, FailPCs, ParkingPCs, Probing
<1>9. \A v \in Workers : pc[v] = "depnotify" => task[v] \in Drivers
    BY WorkerOwns DEF OwningPCs
<1>10. ASSUME NEW e \in Drivers, WakeFor(e) PROVE WakeFor(e)'
  <2>1. events[e] \in Nat /\ events'[e] \in Nat
    BY <1>5 DEF IInv, TypeOK
  <2>2. CASE dstate[e] # "Dependency" /\ e \in ExchangeSourced /\ ~src[e].eos
    <3>1. events'[e] > 0
      BY <2>2, <1>5, <1>10 DEF WakeFor
    <3> QED BY <3>1, <2>1, <1>3, <1>4, <1>8, <1>10, WakeNotified
  <2>3. CASE ~(dstate[e] # "Dependency" /\ e \in ExchangeSourced /\ ~src[e].eos)
    <3>1. dstate[e] # "Dependency" => /\ src'[e].avail = src[e].avail
                                      /\ src'[e].eos = src[e].eos
                                      /\ sink'[e] = sink[e]
      BY <2>3, <1>4, <1>6
    <3> QED BY <3>1, <2>1, <1>3, <1>4, <1>5, <1>8, <1>9, <1>10, WakeFrame
  <2> QED BY <2>2, <2>3
<1> QED BY <1>1, <1>2, <1>3, <1>4, <1>7, <1>10, FailKeeps

-----------------------------------------------------------------------------
(* Counting a driver down. *)

\* A completing thread is a worker, the scheduler or the poller.
LEMMA CompleteThread ==
    ASSUME NEW t \in Workers \cup {Sched, Poller}
    PROVE  /\ t \in Threads /\ t # Canceller /\ Sched \in Threads /\ Poller \in Threads
           /\ Canceller \in Threads /\ Workers \subseteq Threads
           /\ Sched \notin Workers /\ Poller \notin Workers /\ Canceller \notin Workers
BY SchedulerAssumption DEF Threads

\* A thread that has let its task go moves between steps in which it owns
\* nothing.
LEMMA CompletePc ==
    ASSUME IInv, NEW t \in Workers \cup {Sched, Poller},
           pc[t] \in {"fin", "shut", "join"}, NEW x \in {"idle", "shut", "join"},
           Goto(t, x), t = Sched => x # "join", UNCHANGED dstate,
           \A u \in Threads \ {t} : task'[u] = task[u]
    PROVE  PcOK'
<1>1. /\ t \in Threads /\ t # Canceller /\ Sched \in Threads /\ Poller \in Threads
      /\ Canceller \in Threads /\ Workers \subseteq Threads
      /\ Sched \notin Workers /\ Poller \notin Workers /\ Canceller \notin Workers
    BY CompleteThread
<1>2. pc'[t] = x /\ \A u \in Threads \ {t} : pc'[u] = pc[u]
    BY <1>1 DEF IInv, TypeOK, Goto
<1>3. x \notin OwningPCs \cup ParkingPCs
    BY DEF OwningPCs, ParkingPCs
<1>4. \A u \in Threads \ {Canceller} :
         pc'[u] \in OwningPCs \cup ParkingPCs => task'[u] \in Drivers
    BY <1>1, <1>2, <1>3 DEF IInv, PcOK
<1>5. /\ pc'[Sched] \in {"idle", "check", "probe", "reinsert", "fin", "shut", "exit"}
      /\ pc'[Poller] \in {"idle", "fin", "shut", "join"}
      /\ pc'[Canceller] \in {"idle", "status", "snap", "push", "abort", "query", "exit"}
      /\ task'[Canceller] = NoDriver
    BY <1>1, <1>2 DEF IInv, PcOK
<1>6. /\ \A w \in Workers : pc'[w] \notin {"probe", "reinsert", "exit"}
      /\ \A w \in Workers :
            pc'[w] \in {"markdep", "wait", "recheck"} => BuildOf[task'[w]] \in Drivers
      /\ \A w \in Workers :
            pc'[w] = "park" => /\ dstate'[task'[w]] \in BlockedReasons
                               /\ dstate'[task'[w]] = "Dependency" =>
                                     BuildOf[task'[w]] \in Drivers
    BY <1>1, <1>2 DEF IInv, PcOK
<1> QED BY <1>4, <1>5, <1>6 DEF PcOK

\* Parked drivers do not depend on a thread that completes.
LEMMA CompleteWake ==
    ASSUME IInv, TypeOK', NEW t \in Workers \cup {Sched, Poller},
           pc[t] \in {"fin", "shut", "join"}, NEW x \in {"idle", "shut", "join"},
           Goto(t, x), \A u \in Threads \ {t} : task'[u] = task[u],
           UNCHANGED <<blocked, rq, inBlocked, events, driverVars>>
    PROVE  WakeOK'
<1>1. t \in Threads /\ Sched \in Threads /\ Workers \subseteq Threads
    BY CompleteThread
<1>2. pc'[t] = x /\ \A u \in Threads \ {t} : pc'[u] = pc[u]
    BY <1>1 DEF IInv, TypeOK, Goto
<1>3. pc[t] \notin ParkingPCs /\ pc[t] # "depnotify"
    BY DEF ParkingPCs
<1>4. \A e \in Drivers : Parked(e)' => Parked(e) /\ events[e] \in Nat /\ (Probing(e) => Probing(e)')
    BY <1>1, <1>2 DEF Parked, Probing, IInv, TypeOK
<1>5. \A w \in Workers : pc[w] \in ParkingPCs \cup {"depnotify"} =>
                            pc'[w] = pc[w] /\ task'[w] = task[w]
    BY <1>1, <1>2, <1>3
<1> QED BY <1>4, <1>5, WakeKeep

\* driver_finished keeps the invariant: the driver counted down was not counted
\* before, so the counter drops by one and reaches zero with the last driver.
LEMMA DriverFinishedStep ==
    ASSUME IInv, NEW t \in Workers \cup {Sched, Poller}, DriverFinished(t)
    PROVE  IInv'
<1> DEFINE d == task[t]
<1>1. /\ t \in Threads /\ t # Canceller /\ Sched \in Threads /\ Workers \subseteq Threads
    BY CompleteThread
<1>2. pc[t] = "fin" /\ pc[t] \in OwningPCs /\ d \in Drivers /\ Owns(t, d)
    BY <1>1 DEF DriverFinished, OwningPCs, IInv, PcOK, Owns
<1>3. /\ compl' = [compl EXCEPT !.remaining = IF @ = 0 THEN 0 ELSE @ - 1]
      /\ done' = done \cup {d} /\ task' = [task EXCEPT ![t] = NoDriver]
      /\ UNCHANGED <<schedVars, snap, first, poll, driverVars, ctxError, result>>
    BY DEF DriverFinished
<1>4. PICK x \in {"shut", "idle"} : Goto(t, x) /\ (x = "shut" <=> compl.remaining = 1)
    BY DEF DriverFinished
<1>5. /\ pc'[t] = x /\ \A u \in Threads \ {t} : pc'[u] = pc[u]
      /\ \A u \in Threads \ {t} : task'[u] = task[u]
    BY <1>1, <1>3, <1>4 DEF IInv, TypeOK, Goto
<1>6. /\ d \notin Keys(runq) /\ d \notin blocked /\ d \notin poll.pending
      /\ d \notin poll.aborted /\ d \notin poll.ready /\ d \notin done
    BY <1>1, <1>2 DEF IInv, OwnedApart, Apart
<1>7. /\ compl.remaining \in Nat /\ Cardinality(Drivers \ done') = compl.remaining - 1
      /\ compl.remaining # 0 /\ IsFiniteSet(Drivers \ done')
  <2>1. IsFiniteSet(Drivers \ done) /\ d \in Drivers \ done
    BY <1>2, <1>6, FS_Subset, SchedulerAssumption
  <2>2. Drivers \ done' = (Drivers \ done) \ {d}
    BY <1>3
  <2>3. Cardinality((Drivers \ done) \ {d}) = Cardinality(Drivers \ done) - 1
        /\ IsFiniteSet((Drivers \ done) \ {d})
    BY <2>1, FS_RemoveElement
  <2>4. Cardinality(Drivers \ done) = compl.remaining
    BY DEF IInv, CountOK, RemainingExact
  <2>5. Cardinality(Drivers \ done) # 0
    BY <2>1, FS_EmptySet
  <2>6. compl.remaining \in Nat
    BY DEF IInv, TypeOK
  <2> QED BY <2>2, <2>3, <2>4, <2>5, <2>6
<1>8. compl'.remaining = compl.remaining - 1
      /\ compl' \in [remaining : Nat, aborting : BOOLEAN]
  <2>1. compl \in [remaining : Nat, aborting : BOOLEAN]
    BY DEF IInv, TypeOK
  <2>2. compl' = [compl EXCEPT !.remaining = compl.remaining - 1]
    BY <1>3, <1>7
  <2>3. compl.remaining - 1 \in Nat
    BY <1>7
  <2> QED BY <2>1, <2>2, <2>3
<1>9. TypeOK'
  <2>1. pc' \in [Threads -> PCs] /\ task' \in [Threads -> Drivers \cup {NoDriver}]
    BY <1>3, <1>4 DEF IInv, TypeOK, Goto, PCs
  <2>2. done' \subseteq Drivers
    BY <1>2, <1>3 DEF IInv, TypeOK
  <2> QED BY <2>1, <2>2, <1>3, <1>8 DEF IInv, TypeOK
<1>10. PcOK'
    BY <1>2, <1>3, <1>4, <1>5, CompletePc
<1>11. OwnedApart'
  <2>1. x \notin OwningPCs
    BY DEF OwningPCs
  <2>2. Distinct(runq') /\ Keys(runq') = Keys(runq) /\ blocked' = blocked /\ poll' = poll
    BY <1>3 DEF IInv, OwnedApart, Distinct
  <2> QED BY <2>1, <2>2, <1>1, <1>2, <1>3, <1>4, <1>5, <1>6, OwnPut DEF IInv
<1>12. CountOK'
  <2>1. RemainingExact'
    BY <1>7, <1>8 DEF RemainingExact
  <2>2. x = "shut" => done' = Drivers
    <3>1. x = "shut" => Cardinality(Drivers \ done') = 0
      BY <1>4, <1>7
    <3>2. x = "shut" => Drivers \ done' = {}
      BY <3>1, <1>7, FS_EmptySet
    <3>3. done' \subseteq Drivers
      BY <1>9 DEF TypeOK
    <3> QED BY <3>2, <3>3
  <2>3. \A u \in Threads : pc'[u] = "shut" => done' = Drivers
    <3>1. \A u \in Threads : pc[u] = "shut" => done = Drivers
      BY DEF IInv, CountOK
    <3>2. done # Drivers
      BY <1>2, <1>6
    <3> QED BY <1>1, <1>5, <2>2, <3>1, <3>2
  <2>4. ShutdownLast'
    BY <1>2, <1>3, <1>6 DEF IInv, CountOK, ShutdownLast
  <2> QED BY <2>1, <2>3, <2>4 DEF CountOK
<1>13. WakeOK'
    BY <1>2, <1>3, <1>4, <1>5, <1>9, CompleteWake
<1> QED BY <1>9, <1>10, <1>11, <1>12, <1>13 DEF IInv

\* EventScheduler::shutdown keeps the invariant: every driver is done.
LEMMA ShutdownStep ==
    ASSUME IInv, NEW t \in Workers \cup {Sched, Poller}, Shutdown(t)
    PROVE  IInv'
<1>1. t \in Threads
    BY CompleteThread
<1>2. PICK x \in {"idle", "join"} : Goto(t, x) /\ (t = Sched => x = "idle")
    BY DEF Shutdown
<1>3. /\ pc[t] = "shut" /\ shutdown' = TRUE
      /\ UNCHANGED <<runq, blocked, rq, inBlocked, events, task, snap, first, poll,
                     driverVars, complVars>>
    BY DEF Shutdown
<1>4. pc'[t] = x /\ \A u \in Threads \ {t} : pc'[u] = pc[u]
    BY <1>1, <1>2 DEF IInv, TypeOK, Goto
<1>5. TypeOK'
    BY <1>2, <1>3 DEF IInv, TypeOK, Goto, PCs
<1>6. PcOK'
    BY <1>2, <1>3, CompletePc
<1>7. OwnedApart'
    BY <1>1, <1>2, <1>3, OwnKeep DEF IInv, OwningPCs
<1>8. CountOK'
    BY <1>1, <1>3, <1>4 DEF IInv, CountOK, RemainingExact, ShutdownLast
<1>9. WakeOK'
    BY <1>2, <1>3, <1>5, CompleteWake
<1> QED BY <1>5, <1>6, <1>7, <1>8, <1>9 DEF IInv

\* Joining the scheduler thread keeps the invariant.
LEMMA JoinStep ==
    ASSUME IInv, NEW t \in Workers \cup {Sched, Poller}, Join(t)
    PROVE  IInv'
<1>1. t \in Threads
    BY CompleteThread
<1>2. /\ pc[t] = "join" /\ Goto(t, "idle")
      /\ UNCHANGED <<schedVars, task, snap, first, poll, driverVars, complVars>>
    BY DEF Join
<1>3. pc'[t] = "idle" /\ \A u \in Threads \ {t} : pc'[u] = pc[u]
    BY <1>1, <1>2 DEF IInv, TypeOK, Goto
<1>4. TypeOK'
    BY <1>2 DEF IInv, TypeOK, Goto, PCs
<1>5. PcOK'
    BY <1>2, CompletePc
<1>6. OwnedApart'
    BY <1>1, <1>2, OwnKeep DEF IInv, OwningPCs
<1>7. CountOK'
    BY <1>2, <1>3, CountKeep DEF IInv
<1>8. WakeOK'
    BY <1>2, <1>4, CompleteWake
<1> QED BY <1>4, <1>5, <1>6, <1>7, <1>8 DEF IInv

-----------------------------------------------------------------------------
(* The event scheduler thread. *)

\* The named threads are distinct threads.
LEMMA SchedThread ==
    /\ Sched \in Threads /\ Poller \in Threads /\ Canceller \in Threads
    /\ Workers \subseteq Threads /\ Sched \notin Workers /\ Poller \notin Workers
    /\ Sched # Poller /\ Sched # Canceller /\ Poller # Canceller
BY SchedulerAssumption DEF Threads

\* The scheduler thread moves to step x, holding what that step needs.
LEMMA PcSched ==
    ASSUME IInv, NEW x \in {"idle", "check", "probe", "reinsert", "fin", "exit"},
           Goto(Sched, x), \A u \in Threads \ {Sched} : task'[u] = task[u],
           x \notin {"idle", "exit"} => task'[Sched] \in Drivers,
           \A v \in Workers : pc[v] = "park" => dstate'[task[v]] = dstate[task[v]]
    PROVE  PcOK' /\ pc'[Sched] = x /\ (\A u \in Threads \ {Sched} : pc'[u] = pc[u])
<1>1. pc'[Sched] = x /\ \A u \in Threads \ {Sched} : pc'[u] = pc[u]
    BY SchedThread DEF IInv, TypeOK, Goto
<1>2. x \in {"idle", "exit"} => x \notin OwningPCs \cup ParkingPCs
    BY DEF OwningPCs, ParkingPCs
<1>3. \A u \in Threads \ {Canceller} :
         pc'[u] \in OwningPCs \cup ParkingPCs => task'[u] \in Drivers
    BY <1>1, <1>2, SchedThread DEF IInv, PcOK
<1>4. /\ pc'[Sched] \in {"idle", "check", "probe", "reinsert", "fin", "shut", "exit"}
      /\ pc'[Poller] \in {"idle", "fin", "shut", "join"}
      /\ pc'[Canceller] \in {"idle", "status", "snap", "push", "abort", "query", "exit"}
      /\ task'[Canceller] = NoDriver
    BY <1>1, SchedThread DEF IInv, PcOK
<1>5. /\ \A w \in Workers : pc'[w] \notin {"probe", "reinsert", "exit"}
      /\ \A w \in Workers :
            pc'[w] \in {"markdep", "wait", "recheck"} => BuildOf[task'[w]] \in Drivers
    BY <1>1, SchedThread DEF IInv, PcOK
<1>6. \A w \in Workers :
         pc'[w] = "park" => /\ dstate'[task'[w]] \in BlockedReasons
                            /\ dstate'[task'[w]] = "Dependency" => BuildOf[task'[w]] \in Drivers
  <2> SUFFICES ASSUME NEW w \in Workers, pc'[w] = "park"
               PROVE  /\ dstate'[task'[w]] \in BlockedReasons
                      /\ dstate'[task'[w]] = "Dependency" => BuildOf[task'[w]] \in Drivers
    OBVIOUS
  <2>1. pc[w] = "park" /\ task'[w] = task[w]
    BY <1>1, SchedThread
  <2>2. /\ dstate[task[w]] \in BlockedReasons
        /\ dstate[task[w]] = "Dependency" => BuildOf[task[w]] \in Drivers
    BY <2>1 DEF IInv, PcOK
  <2> QED BY <2>1, <2>2
<1> QED BY <1>1, <1>3, <1>4, <1>5, <1>6 DEF PcOK

\* try_schedule_key keeps the invariant: the key it pops belongs to the task it
\* now probes, or to no parked task.
LEMMA SchedTakeStep ==
    ASSUME IInv, SchedTake
    PROVE  IInv'
<1> DEFINE d == Head(rq)
<1>1. /\ pc[Sched] = "idle" /\ rq # << >> /\ rq' = Tail(rq) /\ "idle" \notin OwningPCs
      /\ UNCHANGED <<runq, shutdown, inBlocked, events, snap, first, poll,
                     driverVars, complVars>>
    BY DEF SchedTake, OwningPCs
<1>2. /\ rq' \in Seq(Drivers) /\ d \in Drivers /\ Keys(rq) = Keys(rq') \cup {d}
    BY <1>1, KeysTail DEF IInv, TypeOK
<1>3. ASSUME NEW e \in Drivers, WakeFor(e), e # d \/ Probing(e)',
             Probing(e) => Probing(e)',
             \A v \in Workers : pc'[v] = pc[v] /\ task'[v] = task[v]
      PROVE  WakeFor(e)'
  <2>1. CheckIsReady(e)' = CheckIsReady(e)
    BY <1>1 DEF CheckIsReady, HasOutput, SourceFinished, SinkFinished, NeedInput, DepBlocked
  <2>2. e # d /\ e \in Keys(rq) => e \in Keys(rq')
    BY <1>2
  <2>3. WakeupDue(e) => WakeupDue(e)' \/ Probing(e)'
    BY <2>2, <1>1, <1>3 DEF WakeupDue
  <2>4. /\ ParkedBy(e, {"mark", "markdep"}) => ParkedBy(e, {"mark", "markdep"})'
        /\ ParkedBy(e, {"markdep", "wait"}) => ParkedBy(e, {"markdep", "wait"})'
    BY <1>3 DEF ParkedBy
  <2> QED BY <2>1, <2>3, <2>4, <1>1, <1>3 DEF WakeFor
<1>4. CASE d \in blocked
  <2>1. /\ blocked' = blocked \ {d} /\ task' = [task EXCEPT ![Sched] = d] /\ Goto(Sched, "check")
    BY <1>4 DEF SchedTake
  <2>2. task'[Sched] = d /\ \A u \in Threads \ {Sched} : task'[u] = task[u]
    BY <2>1, SchedThread DEF IInv, TypeOK
  <2>3. TypeOK'
    BY <1>1, <1>2, <2>1 DEF IInv, TypeOK, Goto, PCs
  <2>4. PcOK' /\ pc'[Sched] = "check" /\ (\A u \in Threads \ {Sched} : pc'[u] = pc[u])
    BY <1>1, <1>2, <2>1, <2>2, PcSched
  <2>5. OwnedApart'
    <3>1. d \notin Keys(runq) /\ d \notin poll.aborted
      BY <1>2, <1>4 DEF IInv, OwnedApart, Apart
    <3>2. Distinct(runq') /\ Keys(runq') = Keys(runq) /\ poll' = poll
      BY <1>1 DEF IInv, OwnedApart
    <3> QED BY <3>1, <3>2, <1>1, <1>2, <1>4, <2>1, SchedThread, OwnTake DEF IInv
  <2>6. CountOK'
    BY <1>1, <2>4, CountKeep DEF IInv
  <2>7. WakeOK'
    <3> SUFFICES ASSUME NEW e \in Drivers, Parked(e)' PROVE WakeFor(e)'
      BY DEF WakeOK
    <3>1. e \in blocked /\ (e # d \/ Probing(e)') /\ ~Probing(e)
      BY <1>1, <1>4, <2>1, <2>2, <2>4 DEF Parked, Probing
    <3>2. WakeFor(e)
      BY <3>1 DEF IInv, WakeOK, Parked
    <3> QED BY <3>1, <3>2, <1>3, <2>2, <2>4, SchedThread
  <2> QED BY <2>3, <2>4, <2>5, <2>6, <2>7 DEF IInv
<1>5. CASE d \notin blocked
  <2>1. UNCHANGED <<blocked, task, pc>>
    BY <1>5 DEF SchedTake
  <2>2. TypeOK'
    BY <1>1, <1>2, <2>1 DEF IInv, TypeOK
  <2>3. PcOK'
    BY <1>1, <2>1 DEF IInv, PcOK
  <2>4. OwnedApart'
    BY <1>1, <2>1 DEF IInv, OwnedApart, Apart, Owns, Distinct, Keys
  <2>5. CountOK'
    BY <1>1, <2>1, CountKeep DEF IInv
  <2>6. WakeOK'
    <3> SUFFICES ASSUME NEW e \in Drivers, Parked(e)' PROVE WakeFor(e)'
      BY DEF WakeOK
    <3>1. e \in blocked /\ e # d /\ ~Probing(e)
      BY <1>1, <1>5, <2>1 DEF Parked, Probing
    <3>2. WakeFor(e)
      BY <3>1 DEF IInv, WakeOK, Parked
    <3> QED BY <3>1, <3>2, <1>3, <2>1
  <2> QED BY <2>2, <2>3, <2>4, <2>5, <2>6 DEF IInv
<1> QED BY <1>4, <1>5

\* The abort test of try_schedule_key keeps the invariant.
LEMMA SchedAbortCheckStep ==
    ASSUME IInv, SchedAbortCheck
    PROVE  IInv'
<1> DEFINE d == task[Sched]
<1>1. /\ pc[Sched] = "check" /\ pc[Sched] \in OwningPCs
      /\ UNCHANGED <<runq, blocked, rq, shutdown, events, task, snap, first, poll,
                     driverVars, complVars>>
    BY DEF SchedAbortCheck, OwningPCs
<1>2. d \in Drivers /\ Owns(Sched, d)
    BY <1>1, SchedThread DEF IInv, PcOK, Owns
<1>3. PICK x \in {"fin", "probe"} : Goto(Sched, x) /\ (x = "probe" => UNCHANGED inBlocked)
    BY DEF SchedAbortCheck
<1>4. x \in PCs
    BY DEF PCs
<1>5. inBlocked' = [inBlocked EXCEPT ![d] = FALSE] \/ inBlocked' = inBlocked
    BY DEF SchedAbortCheck
<1>6. inBlocked' \in [Drivers -> BOOLEAN] /\ \A e \in Drivers : e # d => inBlocked'[e] = inBlocked[e]
    BY <1>5 DEF IInv, TypeOK
<1>7. TypeOK'
    BY <1>1, <1>3, <1>4, <1>6 DEF IInv, TypeOK, Goto
<1>8. PcOK' /\ pc'[Sched] = x /\ (\A u \in Threads \ {Sched} : pc'[u] = pc[u])
    BY <1>1, <1>2, <1>3, PcSched
<1>9. OwnedApart'
    BY <1>1, <1>3, SchedThread, OwnKeep DEF IInv
<1>10. CountOK'
    BY <1>1, <1>8, CountKeep DEF IInv
<1>11. WakeOK'
  <2>1. ASSUME NEW e \in Drivers, Parked(e)'
        PROVE  /\ Parked(e) /\ (Probing(e) => Probing(e)')
               /\ inBlocked[e] => inBlocked'[e]
    <3>1. CASE e \in blocked
      <4>1. e # d
        BY <3>1, <1>2, SchedThread DEF IInv, OwnedApart, Apart
      <4> QED BY <4>1, <3>1, <1>6 DEF Parked, Probing
    <3>2. CASE e \notin blocked
      <4>1. x = "probe" /\ e = d
        BY <3>2, <2>1, <1>1, <1>8 DEF Parked, Probing
      <4> QED BY <4>1, <1>1, <1>3, <1>8 DEF Parked, Probing
    <3> QED BY <3>1, <3>2
  <2>2. \A e \in Drivers : events[e] \in Nat
    BY DEF IInv, TypeOK
  <2>3. /\ events' = events /\ rq' = rq /\ dep' = dep /\ dstate' = dstate /\ src' = src
        /\ sink' = sink
    BY <1>1
  <2>4. \A v \in Workers : pc'[v] = pc[v] /\ task'[v] = task[v]
    BY <1>1, <1>8, SchedThread
  <2> QED BY <2>1, <2>2, <2>3, <2>4, <1>7, WakeKeep
<1> QED BY <1>7, <1>8, <1>9, <1>10, <1>11 DEF IInv

\* Probing keeps the invariant: a ready task is queued, and one that is put back
\* was not ready, so it was owed no wake-up yet.
LEMMA SchedProbeStep ==
    ASSUME IInv, SchedProbe
    PROVE  IInv'
<1> DEFINE d == task[Sched]
<1>1. /\ pc[Sched] = "probe" /\ pc[Sched] \in OwningPCs /\ "idle" \notin OwningPCs
      /\ "reinsert" \in OwningPCs
      /\ UNCHANGED <<blocked, rq, shutdown, events, snap, first, poll, final, src,
                     edge, sink, io, dep, complVars>>
    BY DEF SchedProbe, OwningPCs
<1>2. d \in Drivers /\ Owns(Sched, d)
    BY <1>1, SchedThread DEF IInv, PcOK, Owns
<1>3. /\ d \notin Keys(runq) /\ d \notin blocked /\ d \notin poll.pending
      /\ d \notin poll.aborted /\ d \notin poll.ready /\ d \notin done
    BY <1>2, SchedThread DEF IInv, OwnedApart, Apart
<1>4. CASE CheckIsReady(d)
  <2>1. /\ dstate' = [dstate EXCEPT ![d] = "Ready"]
        /\ inBlocked' = [inBlocked EXCEPT ![d] = FALSE]
        /\ runq' = Append(runq, d) /\ task' = [task EXCEPT ![Sched] = NoDriver]
        /\ Goto(Sched, "idle")
    BY <1>4 DEF SchedProbe, SetState
  <2>2. runq' \in Seq(Drivers) /\ Keys(runq') = Keys(runq) \cup {d} /\ Distinct(runq')
    BY <1>2, <1>3, <2>1, KeysAppend DEF IInv, TypeOK, OwnedApart
  <2>3. /\ \A u \in Threads \ {Sched} : task'[u] = task[u]
        /\ \A e \in Drivers : e # d => dstate'[e] = dstate[e] /\ inBlocked'[e] = inBlocked[e]
    BY <2>1 DEF IInv, TypeOK
  <2>4. TypeOK'
    <3>1. dstate' \in [Drivers -> DriverStates] /\ inBlocked' \in [Drivers -> BOOLEAN]
      BY <2>1 DEF IInv, TypeOK, DriverStates
    <3>2. pc' \in [Threads -> PCs] /\ task' \in [Threads -> Drivers \cup {NoDriver}]
      BY <2>1 DEF IInv, TypeOK, Goto, PCs
    <3> QED BY <3>1, <3>2, <1>1, <2>2 DEF IInv, TypeOK
  <2>5. \A v \in Workers : pc[v] = "park" => task[v] \in Drivers /\ task[v] # d
    BY <1>2, WorkerOwns, SchedThread DEF IInv, OwnedApart, Apart, OwningPCs
  <2>6. PcOK' /\ pc'[Sched] = "idle" /\ (\A u \in Threads \ {Sched} : pc'[u] = pc[u])
    BY <2>1, <2>3, <2>5, PcSched
  <2>7. OwnedApart'
    BY <1>1, <1>2, <1>3, <2>1, <2>2, <2>3, SchedThread, OwnPut DEF IInv
  <2>8. CountOK'
    BY <1>1, <2>6, CountKeep DEF IInv
  <2>9. WakeOK'
    <3>1. \A e \in Drivers : Parked(e)' => /\ Parked(e) /\ e # d /\ events[e] \in Nat
                                          /\ ~Probing(e)
      BY <1>1, <1>3, <2>6 DEF Parked, Probing, IInv, TypeOK
    <3> QED BY <3>1, <1>1, <2>3, <2>4, <2>6, SchedThread, WakeKeep
  <2> QED BY <2>4, <2>6, <2>7, <2>8, <2>9 DEF IInv
<1>5. CASE ~CheckIsReady(d)
  <2>1. Goto(Sched, "reinsert") /\ UNCHANGED <<dstate, inBlocked, runq, task>>
    BY <1>5 DEF SchedProbe
  <2>2. TypeOK'
    BY <1>1, <2>1 DEF IInv, TypeOK, Goto, PCs
  <2>3. PcOK' /\ pc'[Sched] = "reinsert" /\ (\A u \in Threads \ {Sched} : pc'[u] = pc[u])
    BY <1>2, <2>1, PcSched
  <2>4. OwnedApart'
    BY <1>1, <2>1, SchedThread, OwnKeep DEF IInv
  <2>5. CountOK'
    BY <1>1, <2>3, CountKeep DEF IInv
  <2>6. WakeOK'
    <3> SUFFICES ASSUME NEW e \in Drivers, Parked(e)' PROVE WakeFor(e)'
      BY DEF WakeOK
    <3>1. Parked(e) /\ WakeFor(e) /\ (e # d => ~Probing(e))
      BY <1>1, <2>1, <2>3 DEF Parked, Probing, IInv, WakeOK
    <3>2. \A v \in Workers : pc'[v] = pc[v] /\ task'[v] = task[v]
      BY <2>1, <2>3, SchedThread
    <3>3. CheckIsReady(e)' = CheckIsReady(e)
      BY <1>1, <2>1 DEF CheckIsReady, HasOutput, SourceFinished, SinkFinished, NeedInput,
            DepBlocked
    <3>4. WakeupDue(e) => WakeupDue(e)'
      BY <3>2, <1>1, <2>1 DEF WakeupDue
    <3>5. /\ ParkedBy(e, {"mark", "markdep"}) => ParkedBy(e, {"mark", "markdep"})'
          /\ ParkedBy(e, {"markdep", "wait"}) => ParkedBy(e, {"markdep", "wait"})'
      BY <3>2 DEF ParkedBy
    <3>6. CheckIsReady(e)' => WakeupDue(e)'
      BY <3>1, <3>3, <3>4, <1>5 DEF WakeFor
    <3> QED BY <3>1, <3>5, <3>6, <1>1, <2>1 DEF WakeFor
  <2> QED BY <2>2, <2>3, <2>4, <2>5, <2>6 DEF IInv
<1> QED BY <1>4, <1>5

\* Putting a task back keeps the invariant: an event that fired since the probe
\* left a key or an event behind.
LEMMA SchedReinsertStep ==
    ASSUME IInv, SchedReinsert
    PROVE  IInv'
<1> DEFINE d == task[Sched]
<1>1. /\ pc[Sched] = "reinsert" /\ pc[Sched] \in OwningPCs /\ "idle" \notin OwningPCs
      /\ blocked' = blocked \cup {d} /\ task' = [task EXCEPT ![Sched] = NoDriver]
      /\ Goto(Sched, "idle")
      /\ UNCHANGED <<runq, rq, shutdown, inBlocked, events, snap, first, poll,
                     driverVars, complVars>>
    BY DEF SchedReinsert, OwningPCs
<1>2. d \in Drivers /\ Owns(Sched, d)
    BY <1>1, SchedThread DEF IInv, PcOK, Owns
<1>3. \A u \in Threads \ {Sched} : task'[u] = task[u]
    BY <1>1 DEF IInv, TypeOK
<1>4. TypeOK'
    BY <1>1, <1>2 DEF IInv, TypeOK, Goto, PCs
<1>5. PcOK' /\ pc'[Sched] = "idle" /\ (\A u \in Threads \ {Sched} : pc'[u] = pc[u])
    BY <1>1, <1>3, PcSched
<1>6. OwnedApart'
  <2>1. /\ d \notin Keys(runq) /\ d \notin poll.pending /\ d \notin poll.aborted
        /\ d \notin poll.ready /\ d \notin done
    BY <1>2, SchedThread DEF IInv, OwnedApart, Apart
  <2>2. Distinct(runq') /\ Keys(runq') = Keys(runq) /\ poll' = poll /\ done' = done
    BY <1>1 DEF IInv, OwnedApart
  <2> QED BY <2>1, <2>2, <1>1, <1>2, <1>3, SchedThread, OwnPut DEF IInv
<1>7. CountOK'
    BY <1>1, <1>5, CountKeep DEF IInv
<1>8. WakeOK'
  <2>1. \A e \in Drivers : Parked(e)' => Parked(e) /\ ~Probing(e) /\ events[e] \in Nat
    BY <1>1, <1>5 DEF Parked, Probing, IInv, TypeOK
  <2> QED BY <2>1, <1>1, <1>3, <1>4, <1>5, SchedThread, WakeKeep
<1> QED BY <1>4, <1>5, <1>6, <1>7, <1>8 DEF IInv

\* The exit of the scheduler thread keeps the invariant.
LEMMA SchedExitStep ==
    ASSUME IInv, SchedExit
    PROVE  IInv'
<1>1. /\ pc[Sched] = "idle" /\ Goto(Sched, "exit") /\ "exit" \notin OwningPCs
      /\ UNCHANGED <<schedVars, task, snap, first, poll, driverVars, complVars>>
    BY DEF SchedExit, OwningPCs
<1>2. TypeOK'
    BY <1>1 DEF IInv, TypeOK, Goto, PCs
<1>3. PcOK' /\ pc'[Sched] = "exit" /\ (\A u \in Threads \ {Sched} : pc'[u] = pc[u])
    BY <1>1, PcSched
<1>4. OwnedApart'
    BY <1>1, SchedThread, OwnKeep DEF IInv
<1>5. CountOK'
    BY <1>1, <1>3, CountKeep DEF IInv
<1>6. WakeOK'
  <2>1. \A e \in Drivers : Parked(e)' => Parked(e) /\ ~Probing(e) /\ events[e] \in Nat
    BY <1>1, <1>3 DEF Parked, Probing, IInv, TypeOK
  <2> QED BY <2>1, <1>1, <1>2, <1>3, SchedThread, WakeKeep
<1> QED BY <1>2, <1>3, <1>4, <1>5, <1>6 DEF IInv

-----------------------------------------------------------------------------
(* The poller, the caller that waits, and the environment. *)

\* No thread moves and only drivers that no thread owns change state.
LEMMA PcStill ==
    ASSUME PcOK, UNCHANGED <<pc, task>>,
           \A v \in Workers : pc[v] = "park" => dstate'[task[v]] = dstate[task[v]]
    PROVE  PcOK'
BY DEF PcOK

\* No thread moves and the parked drivers are left alone.
LEMMA WakeStill ==
    ASSUME IInv, TypeOK', UNCHANGED <<pc, task, blocked, inBlocked, src, sink, dep, rq, events>>,
           \A e \in Drivers : Parked(e) => dstate'[e] = dstate[e]
    PROVE  WakeOK'
<1>1. \A e \in Drivers : /\ Parked(e)' => Parked(e)
                         /\ Probing(e) => Probing(e)'
                         /\ events[e] \in Nat
    BY DEF Parked, Probing, IInv, TypeOK
<1> QED BY <1>1, WakeKeep

\* drain_blocked keeps the invariant.
LEMMA PollDrainStep ==
    ASSUME IInv, PollDrain
    PROVE  IInv'
<1>1. UNCHANGED <<schedVars, pc, task, snap, first, final, src, edge, sink, io, dep, complVars>>
    BY DEF PollDrain
<1>2. PICK A \in SUBSET poll.pending, R \in SUBSET poll.pending :
        /\ A \cap R = {}
        /\ poll' = [pending |-> poll.pending \ (A \cup R), aborted |-> A, ready |-> R]
        /\ dstate' = [d \in Drivers |-> IF d \in R THEN "Ready" ELSE dstate[d]]
  <2>1. PICK due \in SUBSET poll.pending :
          LET aborted == {d \in poll.pending : ShouldAbortImmediately(d)}
              ready == {d \in due \ aborted : CheckIsReady(d)}
          IN  /\ poll' = [pending |-> poll.pending \ (aborted \cup ready),
                          aborted |-> aborted, ready |-> ready]
              /\ dstate' = [d \in Drivers |->
                               IF d \in ready THEN "Ready" ELSE dstate[d]]
    BY DEF PollDrain
  <2> DEFINE A == {d \in poll.pending : ShouldAbortImmediately(d)}
             R == {d \in due \ A : CheckIsReady(d)}
  <2>2. A \in SUBSET poll.pending /\ R \in SUBSET poll.pending /\ A \cap R = {}
    OBVIOUS
  <2> QED BY <2>1, <2>2
<1>3. poll.aborted = {} /\ poll.ready = {} /\ poll.pending \subseteq Drivers
    BY DEF PollDrain, IInv, TypeOK
<1>4. /\ poll'.pending = poll.pending \ (A \cup R) /\ poll'.aborted = A /\ poll'.ready = R
    BY <1>2
<1>5. TypeOK'
  <2>1. poll' \in [pending : SUBSET Drivers, aborted : SUBSET Drivers, ready : SUBSET Drivers]
    BY <1>2, <1>3
  <2>2. dstate' \in [Drivers -> DriverStates]
    BY <1>2 DEF IInv, TypeOK, DriverStates
  <2> QED BY <2>1, <2>2, <1>1 DEF IInv, TypeOK
<1>6. \A e \in Drivers : e \notin poll.pending => dstate'[e] = dstate[e]
    BY <1>2
<1>7. PcOK'
  <2>1. \A v \in Workers : pc[v] = "park" => task[v] \in Drivers /\ task[v] \notin poll.pending
    BY WorkerOwns, SchedThread DEF OwningPCs, IInv, OwnedApart, Apart
  <2> QED BY <2>1, <1>1, <1>6, PcStill DEF IInv
<1>8. OwnedApart'
  <2>1. \A u \in Threads, e \in Drivers : Owns(u, e)' => Owns(u, e)
    BY <1>1 DEF Owns
  <2>2. runq' = runq /\ blocked' = blocked /\ done' = done
    BY <1>1
  <2>3. ASSUME NEW e \in Drivers PROVE Apart(e)'
    <3>1. Apart(e)
      BY DEF IInv, OwnedApart
    <3>2. /\ e \in poll'.pending => e \in poll.pending /\ e \notin poll'.aborted
                                    /\ e \notin poll'.ready
          /\ e \in poll'.aborted => e \in poll.pending /\ e \notin poll'.ready
          /\ e \in poll'.ready => e \in poll.pending
      BY <1>2, <1>4
    <3>3. e \in poll.pending => /\ e \notin Keys(runq') /\ e \notin blocked' /\ e \notin done'
                                /\ \A u \in Threads : ~Owns(u, e)'
      BY <3>1, <2>1, <2>2 DEF Apart
    <3>4. CASE e \in poll.pending
      BY <3>2, <3>3, <3>4 DEF Apart
    <3>5. CASE e \notin poll.pending
      BY <3>1, <3>2, <3>5, <2>1, <2>2 DEF Apart
    <3> QED BY <3>4, <3>5
  <2> QED BY <2>2, <2>3 DEF IInv, OwnedApart, Distinct
<1>9. CountOK'
    BY <1>1, CountKeep DEF IInv
<1>10. WakeOK'
  <2>1. \A e \in Drivers : Parked(e) => dstate'[e] = dstate[e]
    BY <1>6, ParkedApart DEF IInv
  <2>2. UNCHANGED <<pc, task, blocked, inBlocked, src, sink, dep, rq, events>>
    BY <1>1
  <2> QED BY <2>1, <2>2, <1>5, WakeStill
<1> QED BY <1>5, <1>7, <1>8, <1>9, <1>10 DEF IInv

\* Handing an aborted task to driver_finished keeps the invariant.
LEMMA PollFinishAbortedStep ==
    ASSUME IInv, PollFinishAborted
    PROVE  IInv'
<1>1. PICK d \in poll.aborted : /\ poll' = [poll EXCEPT !.aborted = @ \ {d}]
                                /\ task' = [task EXCEPT ![Poller] = d]
    BY DEF PollFinishAborted
<1>2. /\ pc[Poller] = "idle" /\ Goto(Poller, "fin") /\ "idle" \notin OwningPCs
      /\ UNCHANGED <<schedVars, snap, first, driverVars, complVars>>
    BY DEF PollFinishAborted, OwningPCs
<1>3. d \in Drivers
    BY DEF IInv, TypeOK
<1>4. /\ pc'[Poller] = "fin" /\ \A u \in Threads \ {Poller} : pc'[u] = pc[u]
      /\ task'[Poller] = d /\ \A u \in Threads \ {Poller} : task'[u] = task[u]
    BY <1>1, <1>2, SchedThread DEF IInv, TypeOK, Goto
<1>5. /\ poll'.aborted = poll.aborted \ {d} /\ poll'.pending = poll.pending
      /\ poll'.ready = poll.ready
    BY <1>1 DEF IInv, TypeOK
<1>6. TypeOK'
  <2>1. poll' \in [pending : SUBSET Drivers, aborted : SUBSET Drivers, ready : SUBSET Drivers]
    BY <1>1 DEF IInv, TypeOK
  <2>2. pc' \in [Threads -> PCs] /\ task' \in [Threads -> Drivers \cup {NoDriver}]
    BY <1>1, <1>2, <1>3 DEF IInv, TypeOK, Goto, PCs
  <2> QED BY <2>1, <2>2, <1>2 DEF IInv, TypeOK
<1>7. PcOK'
    BY <1>2, <1>3, <1>4, SchedThread, SchedulerAssumption DEF IInv, PcOK, Threads
<1>8. OwnedApart'
  <2>1. d \notin Keys(runq) /\ d \notin blocked
    BY <1>3 DEF IInv, OwnedApart, Apart
  <2>2. Distinct(runq') /\ Keys(runq') = Keys(runq) /\ blocked' = blocked /\ done' = done
    BY <1>2 DEF IInv, OwnedApart
  <2> QED BY <2>1, <2>2, <1>1, <1>2, <1>3, <1>5, SchedThread, OwnTake DEF IInv
<1>9. CountOK'
    BY <1>2, <1>4, CountKeep DEF IInv
<1>10. WakeOK'
  <2>1. \A e \in Drivers : Parked(e)' => /\ Parked(e) /\ events[e] \in Nat
                                         /\ Probing(e) => Probing(e)'
    BY <1>2, <1>4, SchedThread DEF Parked, Probing, IInv, TypeOK
  <2> QED BY <2>1, <1>2, <1>4, <1>6, SchedThread, WakeKeep
<1> QED BY <1>6, <1>7, <1>8, <1>9, <1>10 DEF IInv

\* Requeueing a task whose I/O is over keeps the invariant.
LEMMA PollRequeueStep ==
    ASSUME IInv, PollRequeue
    PROVE  IInv'
<1>1. PICK d \in poll.ready : /\ poll' = [poll EXCEPT !.ready = @ \ {d}]
                              /\ runq' = Append(runq, d)
    BY DEF PollRequeue
<1>2. UNCHANGED <<blocked, rq, shutdown, inBlocked, events, pc, task, snap, first,
                  driverVars, complVars>>
    BY DEF PollRequeue
<1>3. d \in Drivers
    BY DEF IInv, TypeOK
<1>4. /\ poll'.ready = poll.ready \ {d} /\ poll'.pending = poll.pending
      /\ poll'.aborted = poll.aborted
    BY <1>1 DEF IInv, TypeOK
<1>5. /\ d \notin Keys(runq) /\ d \notin blocked /\ d \notin poll.pending
      /\ d \notin poll.aborted /\ d \notin done /\ \A u \in Threads : ~Owns(u, d)
    BY <1>3 DEF IInv, OwnedApart, Apart
<1>6. runq' \in Seq(Drivers) /\ Keys(runq') = Keys(runq) \cup {d} /\ Distinct(runq')
    BY <1>1, <1>3, <1>5, KeysAppend DEF IInv, TypeOK, OwnedApart
<1>7. TypeOK'
  <2>1. poll' \in [pending : SUBSET Drivers, aborted : SUBSET Drivers, ready : SUBSET Drivers]
    BY <1>1 DEF IInv, TypeOK
  <2> QED BY <2>1, <1>2, <1>6 DEF IInv, TypeOK
<1>8. PcOK'
    BY <1>2, PcStill DEF IInv
<1>9. OwnedApart'
  <2>1. \A u \in Threads, e \in Drivers : Owns(u, e)' => Owns(u, e)
    BY <1>2 DEF Owns
  <2>2. blocked' = blocked /\ done' = done
    BY <1>2
  <2>3. Apart(d)'
    <3>1. /\ d \notin blocked' /\ d \notin poll'.pending /\ d \notin poll'.aborted
          /\ d \notin poll'.ready /\ d \notin done' /\ \A u \in Threads : ~Owns(u, d)'
      BY <1>4, <1>5, <2>1, <2>2, <1>3
    <3> QED BY <3>1 DEF Apart
  <2>4. ASSUME NEW e \in Drivers, e # d PROVE Apart(e)'
    BY <2>1, <2>2, <2>4, <1>4, <1>6 DEF IInv, OwnedApart, Apart
  <2> QED BY <2>3, <2>4, <1>6 DEF OwnedApart
<1>10. CountOK'
    BY <1>2, CountKeep DEF IInv
<1>11. WakeOK'
  <2>1. UNCHANGED <<pc, task, blocked, inBlocked, src, sink, dep, rq, events, dstate>>
    BY <1>2
  <2> QED BY <2>1, <1>7, WakeStill
<1> QED BY <1>7, <1>8, <1>9, <1>10, <1>11 DEF IInv

\* A cancellation from outside keeps the invariant.
LEMMA StartCancelStep ==
    ASSUME IInv, StartCancel
    PROVE  IInv'
<1>1. /\ pc[Canceller] = "idle" /\ Goto(Canceller, "status")
      /\ UNCHANGED <<schedVars, task, snap, first, poll, driverVars, complVars>>
    BY DEF StartCancel
<1>2. /\ pc'[Canceller] = "status" /\ \A u \in Threads \ {Canceller} : pc'[u] = pc[u]
    BY <1>1, SchedThread DEF IInv, TypeOK, Goto
<1>3. TypeOK'
    BY <1>1 DEF IInv, TypeOK, Goto, PCs
<1>4. PcOK'
    BY <1>1, <1>2, SchedThread, SchedulerAssumption DEF IInv, PcOK, Threads
<1>5. OwnedApart'
  <2>1. \A u \in Threads, e \in Drivers : Owns(u, e)' => Owns(u, e)
    BY <1>1, <1>2, SchedulerAssumption DEF Owns, IInv, PcOK
  <2>2. UNCHANGED <<runq, blocked, poll, done>>
    BY <1>1
  <2>3. ASSUME NEW e \in Drivers PROVE Apart(e)'
    BY <2>1, <2>2 DEF IInv, OwnedApart, Apart
  <2> QED BY <2>2, <2>3 DEF IInv, OwnedApart, Distinct
<1>6. CountOK'
    BY <1>1, <1>2, CountKeep DEF IInv
<1>7. WakeOK'
  <2>1. Canceller \notin Workers
    BY SchedulerAssumption
  <2>2. \A e \in Drivers : /\ Parked(e)' => Parked(e) /\ events[e] \in Nat
                           /\ Probing(e) => Probing(e)'
    BY <1>1, <1>2, SchedThread DEF Parked, Probing, IInv, TypeOK
  <2> QED BY <2>1, <2>2, <1>1, <1>2, <1>3, SchedThread, WakeKeep
<1> QED BY <1>3, <1>4, <1>5, <1>6, <1>7 DEF IInv

\* FragmentCompletion::wait keeps the invariant.
LEMMA WaitStep ==
    ASSUME IInv, Wait
    PROVE  IInv'
<1>1. UNCHANGED <<schedVars, threadVars, driverVars, ctxError, compl, done>>
    BY DEF Wait
<1>2. TypeOK'
    BY <1>1 DEF Wait, IInv, TypeOK
<1>3. PcOK'
    BY <1>1, PcStill DEF IInv
<1>4. OwnedApart'
    BY <1>1 DEF IInv, OwnedApart, Apart, Owns, Distinct, Keys
<1>5. CountOK'
    BY <1>1, CountKeep DEF IInv
<1>6. WakeOK'
    BY <1>1, <1>2, WakeStill
<1> QED BY <1>2, <1>3, <1>4, <1>5, <1>6 DEF IInv

\* A change of one driver's source or sink that notifies the driver.
LEMMA NotifiedChange ==
    ASSUME IInv, TypeOK', NEW d \in Drivers, Notify({d}),
           \A e \in Drivers : e # d => src'[e] = src[e] /\ sink'[e] = sink[e],
           UNCHANGED <<runq, blocked, rq, shutdown, inBlocked, threadVars, dstate, dep, complVars>>
    PROVE  IInv'
<1>1. PcOK'
    BY PcStill DEF IInv
<1>2. OwnedApart'
    BY DEF IInv, OwnedApart, Apart, Owns, Distinct, Keys
<1>3. CountOK'
    BY CountKeep DEF IInv
<1>4. WakeOK'
  <2> SUFFICES ASSUME NEW e \in Drivers, Parked(e)' PROVE WakeFor(e)'
    BY DEF WakeOK
  <2>1. WakeFor(e) /\ (Probing(e) => Probing(e)')
    BY DEF IInv, WakeOK, Parked, Probing
  <2>2. /\ events[e] \in Nat /\ events'[e] \in Nat /\ events'[e] >= events[e]
        /\ e = d /\ e \in Observed => events'[e] > 0
    BY NotifyType DEF IInv, TypeOK
  <2>3. \A v \in Workers : pc[v] = "depnotify" => task[v] \in Drivers
    BY WorkerOwns DEF OwningPCs
  <2>4. CASE e = d /\ dstate[e] # "Dependency"
    <3>1. events'[e] > 0
      BY <2>1, <2>2, <2>4 DEF WakeFor
    <3> QED BY <3>1, <2>1, <2>2, WakeNotified
  <2>5. CASE ~(e = d /\ dstate[e] # "Dependency")
    BY <2>1, <2>2, <2>3, <2>5, WakeFrame
  <2> QED BY <2>4, <2>5
<1> QED BY <1>1, <1>2, <1>3, <1>4 DEF IInv

\* A chunk pushed to a source keeps the invariant.
LEMMA ProduceStep ==
    ASSUME IInv, NEW d \in Drivers, Produce(d)
    PROVE  IInv'
<1>1. /\ src[d].left > 0 /\ Notify({d})
      /\ src' = [src EXCEPT ![d].left = @ - 1, ![d].avail = @ + 1]
      /\ UNCHANGED <<runq, blocked, rq, shutdown, inBlocked, threadVars, dstate,
                     final, edge, sink, io, dep, complVars>>
    BY DEF Produce
<1>2. src \in [Drivers -> [left : Nat, avail : Nat, eos : BOOLEAN]]
    BY DEF IInv, TypeOK
<1>3. src[d].left - 1 \in Nat /\ src[d].avail + 1 \in Nat
    BY <1>1, <1>2
<1>4. src' = [src EXCEPT ![d] = [src[d] EXCEPT !.left = @ - 1, !.avail = @ + 1]]
    BY <1>1
<1>5. src' \in [Drivers -> [left : Nat, avail : Nat, eos : BOOLEAN]]
    BY <1>2, <1>3, <1>4
<1>6. events' \in [Drivers -> Nat]
    BY <1>1, NotifyType DEF IInv
<1>7. TypeOK'
    BY <1>1, <1>5, <1>6 DEF IInv, TypeOK
<1>8. \A e \in Drivers : e # d => src'[e] = src[e]
    BY <1>2, <1>4
<1> QED BY <1>1, <1>7, <1>8, NotifiedChange

\* The end of a source keeps the invariant.
LEMMA EndOfStreamStep ==
    ASSUME IInv, NEW d \in Drivers, EndOfStream(d)
    PROVE  IInv'
<1>1. /\ Notify({d}) /\ src' = [src EXCEPT ![d].eos = TRUE]
      /\ UNCHANGED <<runq, blocked, rq, shutdown, inBlocked, threadVars, dstate,
                     final, edge, sink, io, dep, complVars>>
    BY DEF EndOfStream
<1>2. src \in [Drivers -> [left : Nat, avail : Nat, eos : BOOLEAN]]
    BY DEF IInv, TypeOK
<1>3. /\ src' \in [Drivers -> [left : Nat, avail : Nat, eos : BOOLEAN]]
      /\ \A e \in Drivers : e # d => src'[e] = src[e]
    BY <1>1, <1>2
<1>4. events' \in [Drivers -> Nat]
    BY <1>1, NotifyType DEF IInv
<1>5. TypeOK'
    BY <1>1, <1>3, <1>4 DEF IInv, TypeOK
<1> QED BY <1>1, <1>3, <1>5, NotifiedChange

\* A sink that drains keeps the invariant.
LEMMA DrainStep ==
    ASSUME IInv, NEW d \in Drivers, Drain(d)
    PROVE  IInv'
<1>1. /\ Notify({d}) /\ sink' = [sink EXCEPT ![d].full = FALSE]
      /\ UNCHANGED <<runq, blocked, rq, shutdown, inBlocked, threadVars, dstate,
                     final, src, edge, io, dep, complVars>>
    BY DEF Drain
<1>2. sink \in [Drivers -> [full : BOOLEAN, finishing : BOOLEAN]]
    BY DEF IInv, TypeOK
<1>3. /\ sink' \in [Drivers -> [full : BOOLEAN, finishing : BOOLEAN]]
      /\ \A e \in Drivers : e # d => sink'[e] = sink[e]
    BY <1>1, <1>2
<1>4. events' \in [Drivers -> Nat]
    BY <1>1, NotifyType DEF IInv
<1>5. TypeOK'
    BY <1>1, <1>3, <1>4 DEF IInv, TypeOK
<1> QED BY <1>1, <1>3, <1>5, NotifiedChange

\* I/O that completes keeps the invariant.
LEMMA IoDoneStep ==
    ASSUME IInv, NEW d \in Drivers, IoDone(d)
    PROVE  IInv'
<1>1. /\ io' = [io EXCEPT ![d] = FALSE]
      /\ UNCHANGED <<schedVars, threadVars, dstate, final, src, edge, sink, dep, complVars>>
    BY DEF IoDone
<1>2. TypeOK'
    BY <1>1 DEF IInv, TypeOK
<1>3. PcOK'
    BY <1>1, PcStill DEF IInv
<1>4. OwnedApart'
    BY <1>1 DEF IInv, OwnedApart, Apart, Owns, Distinct, Keys
<1>5. CountOK'
    BY <1>1, CountKeep DEF IInv
<1>6. WakeOK'
    BY <1>1, <1>2, WakeStill
<1> QED BY <1>2, <1>3, <1>4, <1>5, <1>6 DEF IInv

\* do_update: the key of a driver that is in_blocked replaces its event; an
\* event of another driver was not the wake-up of a parked one.
LEMMA DoUpdateStep ==
    ASSUME IInv, NEW d \in Drivers, DoUpdate(d)
    PROVE  IInv'
<1>1. /\ events[d] > 0 /\ events' = [events EXCEPT ![d] = @ - 1]
      /\ IF inBlocked[d] THEN Enqueue(d) ELSE UNCHANGED rq
      /\ UNCHANGED <<runq, blocked, shutdown, inBlocked, threadVars, driverVars, complVars>>
    BY DEF DoUpdate
<1>2. /\ rq' \in Seq(Drivers) /\ Keys(rq) \subseteq Keys(rq')
      /\ inBlocked[d] /\ ~shutdown => d \in Keys(rq')
    BY <1>1, EnqueueKeys DEF IInv, TypeOK
<1>3. events' \in [Drivers -> Nat] /\ \A e \in Drivers : e # d => events'[e] = events[e]
  <2>1. events \in [Drivers -> Nat]
    BY DEF IInv, TypeOK
  <2> QED BY <2>1, <1>1
<1>4. TypeOK'
    BY <1>1, <1>2, <1>3 DEF IInv, TypeOK
<1>5. PcOK'
    BY <1>1, PcStill DEF IInv
<1>6. OwnedApart'
    BY <1>1 DEF IInv, OwnedApart, Apart, Owns, Distinct, Keys
<1>7. CountOK'
    BY <1>1, CountKeep DEF IInv
<1>8. WakeOK'
  <2> SUFFICES ASSUME NEW e \in Drivers, Parked(e)' PROVE WakeFor(e)'
    BY DEF WakeOK
  <2>1. Parked(e) /\ WakeFor(e) /\ (Probing(e) => Probing(e)')
    BY <1>1 DEF IInv, WakeOK, Parked, Probing
  <2>2. ~shutdown
    BY <2>1, ParkedNoShutdown
  <2>3. CheckIsReady(e)' = CheckIsReady(e)
    BY <1>1 DEF CheckIsReady, HasOutput, SourceFinished, SinkFinished, NeedInput, DepBlocked
  <2>4. WakeupDue(e) => WakeupDue(e)'
    <3>1. CASE events[e] > 0 /\ inBlocked[e]
      BY <3>1, <1>1, <1>2, <1>3, <2>2 DEF WakeupDue
    <3>2. CASE ~(events[e] > 0 /\ inBlocked[e])
      BY <3>2, <1>1, <1>2 DEF WakeupDue
    <3> QED BY <3>1, <3>2
  <2>5. /\ ParkedBy(e, {"mark", "markdep"}) => ParkedBy(e, {"mark", "markdep"})'
        /\ ParkedBy(e, {"markdep", "wait"}) => ParkedBy(e, {"markdep", "wait"})'
    BY <1>1 DEF ParkedBy
  <2> QED BY <2>1, <2>3, <2>4, <2>5, <1>1 DEF WakeFor
<1> QED BY <1>4, <1>5, <1>6, <1>7, <1>8 DEF IInv

-----------------------------------------------------------------------------
(* The invariant holds initially and is preserved. *)

\* submit() queues every task once.
LEMMA OrderingsDistinct ==
    ASSUME NEW f \in Orderings(Drivers)
    PROVE  Distinct(f)
<1> DEFINE n == Cardinality(Drivers)
<1>1. n \in Nat
    BY FS_CardinalityType, SchedulerAssumption
<1>2. IsFiniteSet(1..n) /\ Cardinality(1..n) = n
    BY <1>1, FS_Interval
<1>3. f \in [1..n -> Drivers] /\ Keys(f) = Drivers
    BY DEF Orderings
<1>4. f \in Surjection(1..n, Drivers)
    BY <1>3 DEF Surjection, Keys
<1>5. f \in Injection(1..n, Drivers)
    BY <1>2, <1>4, FS_SurjSameCardinalityImpliesInj
<1> QED BY <1>3, <1>5 DEF Injection, IsInjective, Distinct

\* The state after submit() satisfies the invariant.
LEMMA InitIInv ==
    ASSUME Init
    PROVE  IInv
<1>1. runq \in Seq(Drivers) /\ Keys(runq) = Drivers /\ Distinct(runq)
    BY OrderingsType, OrderingsDistinct DEF Init
<1>2. /\ pc = [t \in Threads |-> "idle"] /\ task = [t \in Threads |-> NoDriver]
      /\ blocked = {} /\ rq = << >> /\ shutdown = FALSE /\ done = {}
      /\ poll = [pending |-> {}, aborted |-> {}, ready |-> {}]
      /\ dstate = [d \in Drivers |-> "Ready"] /\ compl.remaining = Cardinality(Drivers)
    BY DEF Init
<1>3. TypeOK
  <2>1. Cardinality(Drivers) \in Nat
    BY FS_CardinalityType, SchedulerAssumption
  <2>2. compl \in [remaining : Nat, aborting : BOOLEAN]
    BY <2>1 DEF Init
  <2>3. /\ src \in [Drivers -> [left : Nat, avail : Nat, eos : BOOLEAN]]
        /\ sink \in [Drivers -> [full : BOOLEAN, finishing : BOOLEAN]]
        /\ dep \in [Drivers -> [ready : BOOLEAN, waiters : SUBSET Drivers]]
    BY SchedulerAssumption DEF Init
  <2>4. pc \in [Threads -> PCs] /\ dstate \in [Drivers -> DriverStates]
    BY <1>2 DEF PCs, DriverStates
  <2>5. /\ final \in [Drivers -> {"none", "Finished", "Failed"}]
        /\ events \in [Drivers -> Nat] /\ result \in {"waiting", "ok", "error"}
        /\ snap \in [Threads -> SUBSET Drivers] /\ rq \in Seq(Drivers)
        /\ poll \in [pending : SUBSET Drivers, aborted : SUBSET Drivers, ready : SUBSET Drivers]
        /\ task \in [Threads -> Drivers \cup {NoDriver}]
    BY <1>2 DEF Init
  <2>6. /\ first \in [Threads -> BOOLEAN] /\ inBlocked \in [Drivers -> BOOLEAN]
        /\ edge \in [Drivers -> BOOLEAN] /\ io \in [Drivers -> BOOLEAN]
        /\ ctxError \in BOOLEAN /\ shutdown \in BOOLEAN
    BY DEF Init
  <2> QED BY <1>1, <1>2, <2>2, <2>3, <2>4, <2>5, <2>6 DEF TypeOK
<1>4. \A t \in Threads : pc[t] = "idle" /\ task[t] = NoDriver
    BY <1>2
<1>5. "idle" \notin OwningPCs /\ "idle" \notin ParkingPCs
    BY DEF OwningPCs, ParkingPCs
<1>6. PcOK
    BY <1>4, <1>5, SchedThread DEF PcOK
<1>7. OwnedApart
  <2>1. \A t \in Threads, d \in Drivers : ~Owns(t, d)
    BY <1>4, <1>5 DEF Owns
  <2>2. poll.pending = {} /\ poll.aborted = {} /\ poll.ready = {}
    BY <1>2
  <2>3. \A d \in Drivers : Apart(d)
    BY <1>2, <2>1, <2>2 DEF Apart
  <2> QED BY <1>1, <2>3 DEF OwnedApart
<1>8. CountOK
  <2>1. Drivers \ done = Drivers
    BY <1>2
  <2> QED BY <1>2, <1>4, <2>1 DEF CountOK, RemainingExact, ShutdownLast
<1>9. WakeOK
    BY <1>2, <1>4, SchedThread DEF WakeOK, Parked, Probing
<1> QED BY <1>3, <1>6, <1>7, <1>8, <1>9 DEF IInv

\* A step of another fragment leaves the invariant alone.
LEMMA StutterIInv ==
    ASSUME IInv, UNCHANGED vars
    PROVE  IInv'
<1>1. UNCHANGED <<runq, blocked, rq, shutdown, inBlocked, events, pc, task, snap, first,
                  poll, dstate, final, src, edge, sink, io, dep, ctxError, compl, done,
                  result>>
    BY DEF vars
<1>2. TypeOK'
    BY <1>1 DEF IInv, TypeOK
<1>3. PcOK'
    BY <1>1, PcStill DEF IInv
<1>4. OwnedApart'
    BY <1>1 DEF IInv, OwnedApart, Apart, Owns, Distinct, Keys
<1>5. CountOK'
    BY <1>1, CountKeep DEF IInv
<1>6. WakeOK'
    BY <1>1, <1>2, WakeStill
<1> QED BY <1>2, <1>3, <1>4, <1>5, <1>6 DEF IInv

\* Every step of a worker keeps the invariant.
LEMMA WorkerStep ==
    ASSUME IInv, NEW w \in Workers, Worker(w) \/ OperatorFails(w)
    PROVE  IInv'
<1>1. CASE WorkerPop(w)
    BY <1>1, WorkerPopStep
<1>2. CASE WorkerCheck(w)
    BY <1>2, WorkerCheckStep
<1>3. CASE Process(w)
    BY <1>3, ProcessPendingFinishStep, ProcessTopStep, DriveDataflowStep,
       DriveSetFinishingStep, DepNotifyStep, NoProgressStep, ClassifyStep DEF Process
<1>4. CASE Requeue(w)
    BY <1>4, RequeueStep
<1>5. CASE Park(w)
    BY <1>5, ParkInsertStep, ParkMarkStep, AddWaiterStep, RecheckWaiterStep,
       ParkSelfEnqueueStep DEF Park
<1>6. CASE Fail(w)
    BY <1>6, SetFinalStatusStep, SnapBlockedStep, PushBlockedStep, SetAbortingStep,
       CancelExchangesStep DEF Fail
<1>7. CASE Complete(w)
    BY <1>7, DriverFinishedStep, ShutdownStep, JoinStep DEF Complete
<1>8. CASE OperatorFails(w)
    BY <1>8, OperatorFailsStep
<1> QED BY <1>1, <1>2, <1>3, <1>4, <1>5, <1>6, <1>7, <1>8 DEF Worker

\* Every step keeps the invariant.
LEMMA NextIInv ==
    ASSUME IInv, Next
    PROVE  IInv'
<1>1. ASSUME NEW w \in Workers, Worker(w) \/ OperatorFails(w) PROVE IInv'
    BY <1>1, WorkerStep
<1>2. ASSUME NEW t \in {Sched, Poller}, Complete(t) PROVE IInv'
    BY <1>2, DriverFinishedStep, ShutdownStep, JoinStep DEF Complete
<1>3. CASE EventScheduler
    BY <1>2, <1>3, SchedTakeStep, SchedAbortCheckStep, SchedProbeStep, SchedReinsertStep,
       SchedExitStep DEF EventScheduler
<1>4. CASE PollerThread
    BY <1>2, <1>4, PollDrainStep, PollFinishAbortedStep, PollRequeueStep DEF PollerThread
<1>5. CASE StartCancel
    BY <1>5, StartCancelStep
<1>6. CASE Fail(Canceller)
    BY <1>6, SetFinalStatusStep, SnapBlockedStep, PushBlockedStep, SetAbortingStep,
       CancelExchangesStep DEF Fail
<1>7. CASE Wait
    BY <1>7, WaitStep
<1>8. ASSUME NEW d \in Drivers, Environment(d) \/ DoUpdate(d) PROVE IInv'
    BY <1>8, ProduceStep, EndOfStreamStep, DrainStep, IoDoneStep, DoUpdateStep DEF Environment
<1> QED BY <1>1, <1>3, <1>4, <1>5, <1>6, <1>7, <1>8 DEF Next

(* IInv is an invariant of the scheduler, for any drivers, workers, wiring and*)
(* failures.                                                                *)
THEOREM Invariance == Spec => []IInv
<1>1. Init => IInv
    BY InitIInv
<1>2. IInv /\ [Next]_vars => IInv'
    BY NextIInv, StutterIInv
<1> QED BY <1>1, <1>2, PTL DEF Spec

-----------------------------------------------------------------------------
(* What follows from the invariant. *)

(* Every variable keeps its type; in particular no chunk is pulled from a source*)
(* that has none (drive_dataflow asks has_output first).                    *)
THEOREM TypeCorrect == Spec => []TypeOK
<1>1. IInv => TypeOK
    BY DEF IInv
<1> QED BY <1>1, Invariance, PTL

(* No wake-up is lost: whatever the interleaving of park_blocked, do_update,*)
(* set_ready, enqueue_all_blocked and try_schedule_key, a driver in the blocked*)
(* map that could run has a key queued or owed.                             *)
THEOREM WakeupNeverLost == Spec => []NoLostWakeup
<1>1. IInv => NoLostWakeup
  <2> SUFFICES ASSUME IInv, NEW d \in blocked, CheckIsReady(d) PROVE WakeupDue(d)
    BY DEF NoLostWakeup
  <2>1. d \in Drivers /\ Parked(d)
    BY DEF IInv, TypeOK, Parked
  <2>2. ~Probing(d)
    BY <2>1, SchedThread DEF IInv, OwnedApart, Apart, Probing, Owns, OwningPCs
  <2> QED BY <2>1, <2>2 DEF IInv, WakeOK, WakeFor
<1> QED BY <1>1, Invariance, PTL

(* FragmentCompletion.remaining is exact: driver_finished is called at most once*)
(* per driver, on whichever of the four paths.                              *)
THEOREM CountdownExact == Spec => []RemainingExact
<1>1. IInv => RemainingExact
    BY DEF IInv, CountOK
<1> QED BY <1>1, Invariance, PTL

(* The event scheduler is shut down only after the last driver.             *)
THEOREM ShutdownComesLast == Spec => []ShutdownLast
<1>1. IInv => ShutdownLast
    BY DEF IInv, CountOK
<1> QED BY <1>1, Invariance, PTL

-----------------------------------------------------------------------------
(* What else follows: every task is somewhere (with the exclusion in IInv,  *)
(* in exactly one place), and in which state drivers are let go, hence what *)
(* wait() may report.                                                       *)

\* The task of driver d has not been dropped.
Somewhere(d) ==
    \/ \E t \in Threads : Owns(t, d)
    \/ d \in Keys(runq) \/ d \in blocked
    \/ d \in poll.pending \/ d \in poll.aborted \/ d \in poll.ready
    \/ d \in done
AllPlaced == \A d \in Drivers : Somewhere(d)

\* A driver may be let go: it has finished or the fragment aborts, and a finished or
\* pending driver has no I/O under way.
Quiet == {"Finished", "PendingFinish"}
LetGo(d) ==
    /\ compl.aborting \/ dstate[d] = "Finished"
    /\ dstate[d] \in Quiet => ~io[d]

\* The steps of fail_internal, made for a driver that is not quiet.
FailingPCs == {"status", "snap", "push", "abort", "query"}
Holding(t) ==
    /\ pc[t] = "fin" => LetGo(task[t])
    /\ pc[t] \in FailingPCs => dstate[task[t]] \notin Quiet

FinalOK ==
    /\ \A t \in Threads \ {Canceller} : Holding(t)
    /\ \A t \in Threads : pc[t] = "query" => compl.aborting
    /\ \A d \in poll.aborted : compl.aborting /\ ~io[d]
    /\ \A d \in done : LetGo(d)
    /\ result = "ok" => done = Drivers /\ \A d \in Drivers : dstate[d] = "Finished"

Outcome == AllPlaced /\ FinalOK

-----------------------------------------------------------------------------
(* Frames.                                                                 *)

\* Goto moves one thread.
LEMMA GotoOne ==
    ASSUME TypeOK, NEW t \in Threads, NEW x, Goto(t, x)
    PROVE  pc'[t] = x /\ \A u \in Threads : u # t => pc'[u] = pc[u]
BY DEF TypeOK, Goto

\* A thread keeps the task it owns and may change that driver's state.
LEMMA OutcomeKeeps ==
    ASSUME IInv, Outcome, NEW t \in Threads \ {Canceller}, NEW x \in OwningPCs,
           pc[t] \in OwningPCs, Goto(t, x),
           UNCHANGED <<runq, blocked, task, poll, done, result>>,
           compl.aborting => compl'.aborting,
           \A d \in Drivers : d # task[t] => dstate'[d] = dstate[d] /\ (io'[d] => io[d]),
           Holding(t)', x = "query" => compl'.aborting
    PROVE  Outcome'
<1>1. pc'[t] = x /\ \A u \in Threads : u # t => pc'[u] = pc[u]
    BY GotoOne DEF IInv
<1>2. Owns(t, task[t]) /\ task[t] \in Drivers
    BY DEF Owns, IInv, PcOK
<1>3. \A u \in Threads, d \in Drivers : Owns(u, d) => Owns(u, d)'
    BY <1>1 DEF Owns
<1>4. AllPlaced'
    BY <1>3 DEF AllPlaced, Somewhere, Outcome
<1>5. task[t] \notin done /\ task[t] \notin poll.aborted
    BY <1>2 DEF IInv, OwnedApart, Apart
<1>6. \A u \in Threads \ {Canceller} : u # t /\ pc[u] \in FailingPCs \cup {"fin"} =>
            task[u] \in Drivers /\ task[u] # task[t]
    BY <1>2 DEF IInv, OwnedApart, Apart, PcOK, Owns, FailingPCs, OwningPCs
<1>7. \A u \in Threads \ {Canceller} : u # t => Holding(u)'
    BY <1>1, <1>6 DEF Outcome, FinalOK, Holding, LetGo, Quiet
<1>8. \A u \in Threads : pc'[u] = "query" => compl'.aborting
    BY <1>1 DEF Outcome, FinalOK
<1>9. /\ \A d \in poll'.aborted : compl'.aborting /\ ~io'[d]
      /\ \A d \in done' : LetGo(d)'
    <2>1. \A d \in done \cup poll.aborted : d \in Drivers /\ d # task[t]
        BY <1>5 DEF IInv, TypeOK
    <2> QED BY <2>1 DEF Outcome, FinalOK, LetGo, Quiet
<1>10. result' # "ok"
    BY <1>2, <1>5 DEF Outcome, FinalOK
<1> QED BY <1>4, <1>7, <1>8, <1>9, <1>10 DEF Outcome, FinalOK

\* A thread hands the task it owns over to a place, and may change the driver's state.
LEMMA OutcomeGives ==
    ASSUME IInv, Outcome, NEW t \in Threads \ {Canceller}, NEW x, x \notin OwningPCs,
           pc[t] \in OwningPCs, Goto(t, x),
           \A u \in Threads : u # t => task'[u] = task[u],
           UNCHANGED <<done, result>>, compl.aborting => compl'.aborting,
           \A d \in Drivers : d # task[t] => dstate'[d] = dstate[d] /\ (io'[d] => io[d]),
           Keys(runq) \subseteq Keys(runq'), blocked \subseteq blocked',
           poll.pending \subseteq poll'.pending, poll'.aborted = poll.aborted,
           poll'.ready = poll.ready,
           task[t] \in Keys(runq') \cup blocked' \cup poll'.pending
    PROVE  Outcome'
<1>1. pc'[t] = x /\ \A u \in Threads : u # t => pc'[u] = pc[u]
    BY GotoOne DEF IInv
<1>2. Owns(t, task[t]) /\ task[t] \in Drivers
    BY DEF Owns, IInv, PcOK
<1>3. \A u \in Threads, d \in Drivers : d # task[t] /\ Owns(u, d) => Owns(u, d)'
    BY <1>1 DEF Owns
<1>4. AllPlaced'
    BY <1>3 DEF AllPlaced, Somewhere, Outcome
<1>5. task[t] \notin done /\ task[t] \notin poll.aborted
    BY <1>2 DEF IInv, OwnedApart, Apart
<1>6. \A u \in Threads \ {Canceller} : u # t /\ pc[u] \in FailingPCs \cup {"fin"} =>
            task[u] \in Drivers /\ task[u] # task[t]
    BY <1>2 DEF IInv, OwnedApart, Apart, PcOK, Owns, FailingPCs, OwningPCs
<1>7. \A u \in Threads \ {Canceller} : Holding(u)'
    BY <1>1, <1>6 DEF Outcome, FinalOK, Holding, LetGo, Quiet, FailingPCs, OwningPCs
<1>8. \A u \in Threads : pc'[u] = "query" => compl'.aborting
    BY <1>1 DEF Outcome, FinalOK, OwningPCs
<1>9. /\ \A d \in poll'.aborted : compl'.aborting /\ ~io'[d]
      /\ \A d \in done' : LetGo(d)'
    <2>1. \A d \in done \cup poll.aborted : d \in Drivers /\ d # task[t]
        BY <1>5 DEF IInv, TypeOK
    <2> QED BY <2>1 DEF Outcome, FinalOK, LetGo, Quiet
<1>10. result' # "ok"
    BY <1>2, <1>5 DEF Outcome, FinalOK
<1> QED BY <1>4, <1>7, <1>8, <1>9, <1>10 DEF Outcome, FinalOK

\* A step that leaves drivers' states and the countdown alone and starts no I/O, in
\* which a thread that owns nothing may take the driver e from a place.
LEMMA OutcomeTakes ==
    ASSUME IInv, Outcome, NEW t \in Threads, NEW e, e \in Drivers => Somewhere(e)',
           \A u \in Threads : u # t => pc'[u] = pc[u] /\ task'[u] = task[u],
           pc'[t] \notin FailingPCs \cup {"fin"} \/ t = Canceller,
           pc'[t] = "query" => compl.aborting,
           \A d \in Drivers : ~Owns(t, d) \/ Owns(t, d)',
           UNCHANGED <<done, result, dstate>>, compl.aborting => compl'.aborting,
           \A d \in Drivers : io'[d] => io[d],
           \A d \in Drivers \ {e} :
              /\ d \in Keys(runq) => d \in Keys(runq')
              /\ d \in blocked => d \in blocked',
           UNCHANGED poll
    PROVE  Outcome'
<1>1. \A u \in Threads, d \in Drivers : Owns(u, d) => Owns(u, d)'
    BY DEF Owns
<1>2. AllPlaced'
    BY <1>1 DEF AllPlaced, Somewhere, Outcome
<1>3. \A u \in Threads \ {Canceller} : pc[u] \in {"fin"} => task[u] \in Drivers
    BY DEF IInv, PcOK, OwningPCs
<1>4. \A u \in Threads \ {Canceller} : Holding(u)'
    BY <1>3 DEF Outcome, FinalOK, Holding, LetGo, Quiet, FailingPCs
<1>5. \A u \in Threads : pc'[u] = "query" => compl'.aborting
    BY DEF Outcome, FinalOK
<1>6. /\ \A d \in poll'.aborted : compl'.aborting /\ ~io'[d]
      /\ \A d \in done' : LetGo(d)'
    BY DEF Outcome, FinalOK, LetGo, Quiet, IInv, TypeOK
<1> QED BY <1>2, <1>4, <1>5, <1>6 DEF Outcome, FinalOK

-----------------------------------------------------------------------------
(* The worker threads.                                                     *)

\* A worker is a thread, and not one of the others.
LEMMA WorkerIs ==
    ASSUME NEW w \in Workers
    PROVE  w \in Threads \ {Canceller} /\ w # Sched /\ w # Poller
BY SchedulerAssumption DEF Threads

\* A worker's driver is its own.
LEMMA WorkerHas ==
    ASSUME IInv, NEW w \in Workers, pc[w] \in OwningPCs
    PROVE  task[w] \in Drivers /\ task[w] \notin done
<1>1. w \in Threads \ {Canceller} BY WorkerIs
<1>2. task[w] \in Drivers BY <1>1 DEF IInv, PcOK
<1> QED BY <1>1, <1>2 DEF IInv, OwnedApart, Apart, Owns

LEMMA PopOutcome ==
    ASSUME IInv, Outcome, NEW w \in Workers, WorkerPop(w)
    PROVE  Outcome'
<1>1. w \in Threads \ {Canceller} BY WorkerIs
<1>2. pc'[w] = "check" /\ \A u \in Threads : u # w => pc'[u] = pc[u]
    BY <1>1, GotoOne DEF IInv, WorkerPop
<1>3. PICK e \in Drivers : e = Head(runq)
    BY KeysTail DEF IInv, TypeOK, WorkerPop
<1>4. Keys(runq) = Keys(runq') \cup {e}
    BY <1>3, KeysTail DEF IInv, TypeOK, WorkerPop
<1>5. task'[w] = e /\ \A u \in Threads : u # w => task'[u] = task[u]
    BY <1>1, <1>3 DEF IInv, TypeOK, WorkerPop
<1>6. Somewhere(e)'
    BY <1>1, <1>2, <1>5 DEF Somewhere, Owns, OwningPCs
<1>7. \A d \in Drivers : ~Owns(w, d) BY DEF WorkerPop, Owns, OwningPCs
<1>8. pc'[w] \notin FailingPCs \cup {"fin"} /\ pc'[w] # "query" BY <1>2 DEF FailingPCs
<1>9. UNCHANGED <<blocked, poll, done, result, compl, dstate, io>> BY DEF WorkerPop
<1> QED BY <1>1, <1>2, <1>4, <1>5, <1>6, <1>7, <1>8, <1>9, OutcomeTakes

LEMMA CheckOutcome ==
    ASSUME IInv, Outcome, NEW w \in Workers, WorkerCheck(w)
    PROVE  Outcome'
<1>1. w \in Threads \ {Canceller} BY WorkerIs
<1>2. PICK x \in {"fin", "run"} : Goto(w, x) /\ (x = "fin" => ShouldAbortImmediately(task[w]))
    BY DEF WorkerCheck
<1>3. pc'[w] = x BY <1>1, <1>2, GotoOne DEF IInv
<1>4. UNCHANGED <<runq, blocked, task, poll, done, result, compl, dstate, io>>
    BY DEF WorkerCheck
<1>5. Holding(w)'
    BY <1>2, <1>3, <1>4 DEF Holding, LetGo, ShouldAbortImmediately, FailingPCs
<1>6. x \in OwningPCs /\ pc[w] \in OwningPCs /\ x # "query"
    BY <1>2 DEF WorkerCheck, OwningPCs
<1> QED BY <1>1, <1>2, <1>4, <1>5, <1>6, OutcomeKeeps

\* finish_with_state: a driver that is let go at once has no I/O, or has failed.
LEMMA FinishOutcome ==
    ASSUME IInv, Outcome, NEW w \in Workers, pc[w] \in OwningPCs,
           NEW s \in {"Finished", "Failed"}, FinishWithState(w, task[w], s),
           final[task[w]] = "none" \/ ~io[task[w]],
           UNCHANGED <<runq, blocked, done, result, compl, io>>
    PROVE  Outcome'
<1>1. w \in Threads \ {Canceller} /\ task[w] \in Drivers BY WorkerIs, WorkerHas
<1>2. CASE io[task[w]] /\ final[task[w]] = "none"
    <2>1. /\ Goto(w, "idle") /\ task' = [task EXCEPT ![w] = NoDriver]
          /\ poll' = [poll EXCEPT !.pending = @ \cup {task[w]}]
          /\ SetState(task[w], "PendingFinish")
        BY <1>2 DEF FinishWithState
    <2>2. \A u \in Threads : u # w => task'[u] = task[u]
        BY <1>1, <2>1 DEF IInv, TypeOK
    <2>3. /\ poll'.pending = poll.pending \cup {task[w]} /\ poll'.aborted = poll.aborted
          /\ poll'.ready = poll.ready
        BY <2>1 DEF IInv, TypeOK
    <2>4. \A d \in Drivers : d # task[w] => dstate'[d] = dstate[d]
        BY <2>1, <1>1 DEF IInv, TypeOK, SetState
    <2>5. "idle" \notin OwningPCs BY DEF OwningPCs
    <2> QED BY <1>1, <2>1, <2>2, <2>3, <2>4, <2>5, OutcomeGives
<1>3. CASE ~(io[task[w]] /\ final[task[w]] = "none")
    <2>1. ~io[task[w]] BY <1>3
    <2>2. PICK x \in {"fin", "status"} : Goto(w, x) /\ (x = "fin" <=> s = "Finished")
        BY <1>3 DEF FinishWithState
    <2>3. SetState(task[w], s) /\ UNCHANGED <<poll, task>>
        BY <1>3 DEF FinishWithState
    <2>4. dstate'[task[w]] = s /\ \A d \in Drivers : d # task[w] => dstate'[d] = dstate[d]
        BY <2>3, <1>1 DEF IInv, TypeOK, SetState
    <2>5. pc'[w] = x BY <1>1, <2>2, GotoOne DEF IInv
    <2>6. Holding(w)'
        BY <2>1, <2>2, <2>3, <2>4, <2>5 DEF Holding, LetGo, Quiet, FailingPCs
    <2>7. x \in OwningPCs /\ x # "query" BY <2>2 DEF OwningPCs
    <2> QED BY <1>1, <2>2, <2>3, <2>4, <2>6, <2>7, OutcomeKeeps
<1> QED BY <1>2, <1>3

\* The worker goes on with its driver.
LEMMA StateOutcome ==
    ASSUME IInv, Outcome, NEW w \in Workers, pc[w] \in OwningPCs,
           NEW x \in OwningPCs \ (FailingPCs \cup {"fin"}), Goto(w, x),
           \A d \in Drivers : d # task[w] => dstate'[d] = dstate[d] /\ (io'[d] => io[d]),
           UNCHANGED <<runq, blocked, task, poll, done, result, compl>>
    PROVE  Outcome'
<1>1. w \in Threads \ {Canceller} BY WorkerIs
<1>2. pc'[w] = x BY <1>1, GotoOne DEF IInv
<1>3. Holding(w)' /\ x # "query" BY <1>2 DEF Holding, FailingPCs
<1> QED BY <1>1, <1>3, OutcomeKeeps

\* A driver that has failed starts fail_internal.
LEMMA FailOutcome ==
    ASSUME IInv, Outcome, NEW w \in Workers, pc[w] \in OwningPCs, Goto(w, "status"),
           dstate'[task[w]] \notin Quiet,
           \A d \in Drivers : d # task[w] => dstate'[d] = dstate[d],
           UNCHANGED <<runq, blocked, task, poll, done, result, compl, io>>
    PROVE  Outcome'
<1>1. w \in Threads \ {Canceller} BY WorkerIs
<1>2. pc'[w] = "status" BY <1>1, GotoOne DEF IInv
<1>3. Holding(w)' /\ "status" \in OwningPCs BY <1>2 DEF Holding, OwningPCs
<1> QED BY <1>1, <1>3, OutcomeKeeps

\* SetState writes one driver's state.
LEMMA SetStateOne ==
    ASSUME TypeOK, NEW d \in Drivers, NEW s, SetState(d, s)
    PROVE  dstate'[d] = s /\ \A e \in Drivers : e # d => dstate'[e] = dstate[e]
BY DEF TypeOK, SetState

LEMMA PendingFinishOutcome ==
    ASSUME IInv, Outcome, NEW w \in Workers, ProcessPendingFinish(w)
    PROVE  Outcome'
<1>1. w \in Threads \ {Canceller} /\ pc[w] \in OwningPCs
    BY WorkerIs DEF ProcessPendingFinish, OwningPCs
<1>2. task[w] \in Drivers BY <1>1, WorkerHas
<1>3. UNCHANGED <<runq, blocked, done, result, compl, io>>
    BY DEF ProcessPendingFinish
<1>4. CASE io[task[w]]
    <2>1. /\ Goto(w, "idle") /\ task' = [task EXCEPT ![w] = NoDriver]
          /\ poll' = [poll EXCEPT !.pending = @ \cup {task[w]}]
          /\ SetState(task[w], "PendingFinish")
        BY <1>4 DEF ProcessPendingFinish
    <2>2. \A u \in Threads : u # w => task'[u] = task[u]
        BY <1>1, <2>1 DEF IInv, TypeOK
    <2>3. /\ poll'.pending = poll.pending \cup {task[w]} /\ poll'.aborted = poll.aborted
          /\ poll'.ready = poll.ready
        BY <2>1 DEF IInv, TypeOK
    <2>4. \A d \in Drivers : d # task[w] => dstate'[d] = dstate[d]
        BY <2>1, <1>2, SetStateOne DEF IInv
    <2>5. "idle" \notin OwningPCs BY DEF OwningPCs
    <2> QED BY <1>1, <1>3, <2>1, <2>2, <2>3, <2>4, <2>5, OutcomeGives
<1>5. CASE ~io[task[w]]
    <2>1. FinishWithState(w, task[w], final[task[w]]) BY <1>5 DEF ProcessPendingFinish
    <2>2. final[task[w]] \in {"Finished", "Failed"}
        BY <1>2 DEF IInv, TypeOK, ProcessPendingFinish
    <2> QED BY <1>1, <1>3, <1>5, <2>1, <2>2, FinishOutcome
<1> QED BY <1>4, <1>5

LEMMA TopOutcome ==
    ASSUME IInv, Outcome, NEW w \in Workers, ProcessTop(w)
    PROVE  Outcome'
<1>1. pc[w] \in OwningPCs /\ final[task[w]] = "none"
    BY DEF ProcessTop, OwningPCs
<1>2. task[w] \in Drivers BY <1>1, WorkerHas
<1>3. UNCHANGED <<runq, blocked, done, result, compl, io>> BY DEF ProcessTop
<1>4. CASE FinishWithState(w, task[w], "Failed")
    BY <1>1, <1>3, <1>4, FinishOutcome
<1>5. CASE FinishWithState(w, task[w], "Finished")
    BY <1>1, <1>3, <1>5, FinishOutcome
<1>6. CASE SetState(task[w], "Ready") /\ Goto(w, "requeue") /\ UNCHANGED <<poll, task>>
    BY <1>1, <1>2, <1>3, <1>6, SetStateOne, StateOutcome DEF IInv, OwningPCs, FailingPCs
<1>7. CASE SetState(task[w], "Dependency") /\ Goto(w, "park") /\ UNCHANGED <<poll, task>>
    BY <1>1, <1>2, <1>3, <1>7, SetStateOne, StateOutcome DEF IInv, OwningPCs, FailingPCs
<1> QED BY <1>4, <1>5, <1>6, <1>7 DEF ProcessTop

LEMMA DataflowOutcome ==
    ASSUME IInv, Outcome, NEW w \in Workers, DriveDataflow(w)
    PROVE  Outcome'
<1>1. pc[w] \in OwningPCs BY DEF DriveDataflow, Runs, OwningPCs
<1>2. task[w] \in Drivers BY <1>1, WorkerHas
<1>3. UNCHANGED <<runq, blocked, task, poll, done, result, compl>> BY DEF DriveDataflow
<1>4. SetState(task[w], "Running") BY DEF DriveDataflow
<1>5. \A d \in Drivers : d # task[w] => dstate'[d] = dstate[d]
    BY <1>2, <1>4, SetStateOne DEF IInv
<1>6. \A d \in Drivers : d # task[w] => io'[d] = io[d]
    BY <1>2 DEF DriveDataflow, IInv, TypeOK
<1>7. PICK x \in {"run", "slice"} : Goto(w, x) BY DEF DriveDataflow
<1>8. x \in OwningPCs \ (FailingPCs \cup {"fin"}) BY <1>7 DEF OwningPCs, FailingPCs
<1> QED BY <1>1, <1>3, <1>5, <1>6, <1>7, <1>8, StateOutcome

LEMMA SetFinishingOutcome ==
    ASSUME IInv, Outcome, NEW w \in Workers, DriveSetFinishing(w)
    PROVE  Outcome'
<1>1. pc[w] \in OwningPCs BY DEF DriveSetFinishing, Runs, OwningPCs
<1>2. task[w] \in Drivers BY <1>1, WorkerHas
<1>3. UNCHANGED <<runq, blocked, task, poll, done, result, compl, io>>
    BY DEF DriveSetFinishing
<1>4. SetState(task[w], "Running") BY DEF DriveSetFinishing
<1>5. \A d \in Drivers : d # task[w] => dstate'[d] = dstate[d]
    BY <1>2, <1>4, SetStateOne DEF IInv
<1>6. PICK x \in {"run", "depnotify"} : Goto(w, x) BY DEF DriveSetFinishing
<1>7. x \in OwningPCs \ (FailingPCs \cup {"fin"}) BY <1>6 DEF OwningPCs, FailingPCs
<1> QED BY <1>1, <1>3, <1>5, <1>6, <1>7, StateOutcome

LEMMA DepNotifyOutcome ==
    ASSUME IInv, Outcome, NEW w \in Workers, DepNotify(w)
    PROVE  Outcome'
<1>1. pc[w] \in OwningPCs /\ Goto(w, "run") BY DEF DepNotify, OwningPCs
<1>2. "run" \in OwningPCs \ (FailingPCs \cup {"fin"}) BY DEF OwningPCs, FailingPCs
<1> QED BY <1>1, <1>2, StateOutcome DEF DepNotify

LEMMA NoProgressOutcome ==
    ASSUME IInv, Outcome, NEW w \in Workers, NoProgress(w)
    PROVE  Outcome'
<1>1. pc[w] \in OwningPCs BY DEF NoProgress, Runs, OwningPCs
<1>2. task[w] \in Drivers BY <1>1, WorkerHas
<1>3. \A d \in Drivers : d # task[w] => dstate'[d] = dstate[d]
    BY <1>2, SetStateOne DEF IInv, NoProgress
<1>4. "classify" \in OwningPCs \ (FailingPCs \cup {"fin"}) BY DEF OwningPCs, FailingPCs
<1> QED BY <1>1, <1>3, <1>4, StateOutcome DEF NoProgress

LEMMA ClassifyOutcome ==
    ASSUME IInv, Outcome, NEW w \in Workers, Classify(w)
    PROVE  Outcome'
<1>1. pc[w] \in OwningPCs BY DEF Classify, OwningPCs
<1>2. task[w] \in Drivers BY <1>1, WorkerHas
<1>3. \A d \in Drivers : d # task[w] => dstate'[d] = dstate[d]
    BY <1>2, SetStateOne DEF IInv, Classify
<1>4. PICK x \in {"requeue", "park"} : Goto(w, x) BY DEF Classify
<1>5. x \in OwningPCs \ (FailingPCs \cup {"fin"}) BY <1>4 DEF OwningPCs, FailingPCs
<1> QED BY <1>1, <1>3, <1>4, <1>5, StateOutcome DEF Classify

LEMMA OperatorFailsOutcome ==
    ASSUME IInv, Outcome, NEW w \in Workers, OperatorFails(w)
    PROVE  Outcome'
<1>1. pc[w] \in OwningPCs /\ final[task[w]] = "none" BY DEF OperatorFails, Runs, OwningPCs
<1>2. task[w] \in Drivers BY <1>1, WorkerHas
<1>3. UNCHANGED <<runq, blocked, done, result, compl, io>> BY DEF OperatorFails
<1>4. CASE FinishWithState(w, task[w], "Failed")
    BY <1>1, <1>3, <1>4, FinishOutcome
<1>5. CASE SetState(task[w], "Failed") /\ Goto(w, "status") /\ UNCHANGED <<poll, task>>
    <2>1. dstate'[task[w]] \notin Quiet /\ \A d \in Drivers : d # task[w] => dstate'[d] = dstate[d]
        BY <1>2, <1>5, SetStateOne DEF IInv, Quiet
    <2> QED BY <1>1, <1>3, <1>5, <2>1, FailOutcome
<1> QED BY <1>4, <1>5 DEF OperatorFails

LEMMA RequeueOutcome ==
    ASSUME IInv, Outcome, NEW w \in Workers, Requeue(w)
    PROVE  Outcome'
<1>1. w \in Threads \ {Canceller} /\ pc[w] \in OwningPCs
    BY WorkerIs DEF Requeue, OwningPCs
<1>2. task[w] \in Drivers BY <1>1, WorkerHas
<1>3. UNCHANGED <<blocked, poll, done, result, compl, dstate, io>> BY DEF Requeue
<1>4. CASE ShouldAbortImmediately(task[w])
    <2>1. Goto(w, "fin") /\ UNCHANGED <<runq, task>> BY <1>4 DEF Requeue
    <2>2. pc'[w] = "fin" BY <1>1, <2>1, GotoOne DEF IInv
    <2>3. Holding(w)'
        BY <1>3, <1>4, <2>1, <2>2 DEF Holding, LetGo, ShouldAbortImmediately, FailingPCs
    <2>4. "fin" \in OwningPCs BY DEF OwningPCs
    <2> QED BY <1>1, <1>3, <2>1, <2>3, <2>4, OutcomeKeeps
<1>5. CASE ~ShouldAbortImmediately(task[w])
    <2>1. /\ runq' = Append(runq, task[w]) /\ task' = [task EXCEPT ![w] = NoDriver]
          /\ Goto(w, "idle")
        BY <1>5 DEF Requeue
    <2>2. Keys(runq') = Keys(runq) \cup {task[w]}
        BY <1>2, <2>1, KeysAppend DEF IInv, TypeOK
    <2>3. \A u \in Threads : u # w => task'[u] = task[u]
        BY <1>1, <2>1 DEF IInv, TypeOK
    <2>4. "idle" \notin OwningPCs BY DEF OwningPCs
    <2> QED BY <1>1, <1>3, <2>1, <2>2, <2>3, <2>4, OutcomeGives
<1> QED BY <1>4, <1>5

-----------------------------------------------------------------------------
(* Parking.                                                                *)

LEMMA ParkInsertOutcome ==
    ASSUME IInv, Outcome, NEW w \in Workers, ParkInsert(w)
    PROVE  Outcome'
<1>1. w \in Threads \ {Canceller} /\ pc[w] \in OwningPCs
    BY WorkerIs DEF ParkInsert, OwningPCs
<1>2. task[w] \in Drivers BY <1>1, WorkerHas
<1>3. UNCHANGED <<runq, task, poll, done, result, compl, dstate, io>> BY DEF ParkInsert
<1>4. CASE ShouldAbortImmediately(task[w])
    <2>1. Goto(w, "fin") /\ UNCHANGED blocked BY <1>4 DEF ParkInsert
    <2>2. pc'[w] = "fin" BY <1>1, <2>1, GotoOne DEF IInv
    <2>3. Holding(w)'
        BY <1>3, <1>4, <2>2 DEF Holding, LetGo, ShouldAbortImmediately, FailingPCs
    <2>4. "fin" \in OwningPCs BY DEF OwningPCs
    <2> QED BY <1>1, <1>3, <2>1, <2>3, <2>4, OutcomeKeeps
<1>5. CASE ~ShouldAbortImmediately(task[w]) /\ MissingObservable(task[w])
    <2>1. Goto(w, "status") /\ UNCHANGED blocked BY <1>5 DEF ParkInsert
    <2>2. dstate'[task[w]] \notin Quiet
        BY <1>3 DEF ParkInsert, IInv, PcOK, BlockedReasons, Quiet
    <2> QED BY <1>1, <1>3, <2>1, <2>2, FailOutcome
<1>6. CASE ~ShouldAbortImmediately(task[w]) /\ ~MissingObservable(task[w])
    <2>1. PICK x \in {"mark", "markdep"} : Goto(w, x) BY <1>6 DEF ParkInsert
    <2>2. blocked' = blocked \cup {task[w]} BY <1>6 DEF ParkInsert
    <2>3. x \notin OwningPCs BY <2>1 DEF OwningPCs
    <2> QED BY <1>1, <1>3, <2>1, <2>2, <2>3, OutcomeGives
<1> QED BY <1>4, <1>5, <1>6

\* A thread that owns no task takes a step that gives it none and changes nothing a
\* driver's end depends on.
LEMMA OutcomeIdles ==
    ASSUME IInv, Outcome, NEW t \in Threads, NEW x, Goto(t, x),
           pc[t] \notin OwningPCs, x \notin OwningPCs,
           \A u \in Threads : u # t => task'[u] = task[u],
           UNCHANGED <<runq, blocked, poll, done, result, compl, dstate, io>>
    PROVE  Outcome'
<1>1. pc'[t] = x /\ \A u \in Threads : u # t => pc'[u] = pc[u] BY GotoOne DEF IInv
<1>2. \A d \in Drivers : ~Owns(t, d) BY DEF Owns
<1>3. x \notin FailingPCs \cup {"fin"} /\ x # "query" BY DEF FailingPCs, OwningPCs
<1>4. NoDriver \notin Drivers BY SchedulerAssumption
<1> QED BY <1>1, <1>2, <1>3, <1>4, OutcomeTakes

LEMMA ParkingOutcome ==
    ASSUME IInv, Outcome, NEW w \in Workers,
           ParkMark(w) \/ AddWaiter(w) \/ RecheckWaiter(w) \/ ParkSelfEnqueue(w)
    PROVE  Outcome'
<1>1. w \in Threads BY WorkerIs
<1>2. UNCHANGED <<runq, blocked, poll, done, result, compl, dstate, io>>
    BY DEF ParkMark, AddWaiter, RecheckWaiter, ParkSelfEnqueue
<1>3. pc[w] \notin OwningPCs
    BY DEF ParkMark, AddWaiter, RecheckWaiter, ParkSelfEnqueue, OwningPCs
<1>4. PICK x \in {"self", "wait", "recheck", "idle"} : Goto(w, x)
    BY DEF ParkMark, AddWaiter, RecheckWaiter, ParkSelfEnqueue
<1>5. x \notin OwningPCs BY <1>4 DEF OwningPCs
<1>6. \A u \in Threads : u # w => task'[u] = task[u]
    BY <1>1 DEF ParkMark, AddWaiter, RecheckWaiter, ParkSelfEnqueue, IInv, TypeOK
<1> QED BY <1>1, <1>2, <1>3, <1>4, <1>5, <1>6, OutcomeIdles

-----------------------------------------------------------------------------
(* Failure and completion.                                                 *)

LEMMA FailStepOutcome ==
    ASSUME IInv, Outcome, NEW w \in Workers, Fail(w)
    PROVE  Outcome'
<1>1. w \in Threads \ {Canceller} BY WorkerIs
<1>2. pc[w] \in FailingPCs /\ pc[w] \in OwningPCs
    BY DEF Fail, SetFinalStatus, SnapBlocked, PushBlocked, SetAborting, CancelExchanges,
           FailingPCs, OwningPCs
<1>3. task[w] \in Drivers BY <1>2, WorkerHas
<1>4. dstate[task[w]] \notin Quiet BY <1>1, <1>2 DEF Outcome, FinalOK, Holding
<1>5. /\ UNCHANGED <<runq, blocked, task, poll, done, result, dstate, io>>
      /\ compl.aborting => compl'.aborting
    BY DEF Fail, SetFinalStatus, SnapBlocked, PushBlocked, SetAborting, CancelExchanges,
           IInv, TypeOK
<1>6. PICK x \in {"abort", "snap", "push", "query", "fin"} : Goto(w, x)
    <2>1. SetFinalStatus(w) => Goto(w, "abort") \/ Goto(w, "snap") BY DEF SetFinalStatus
    <2>2. SnapBlocked(w) => Goto(w, "abort") \/ Goto(w, "push") BY DEF SnapBlocked
    <2>3. PushBlocked(w) => Goto(w, "abort") BY DEF PushBlocked
    <2>4. SetAborting(w) => Goto(w, "query") \/ Goto(w, "fin")
        BY <1>1 DEF SetAborting
    <2>5. CancelExchanges(w) => Goto(w, "fin") BY <1>1 DEF CancelExchanges
    <2> QED BY <2>1, <2>2, <2>3, <2>4, <2>5 DEF Fail
<1>7. pc'[w] = x BY <1>1, <1>6, GotoOne DEF IInv
<1>8. x \in {"query", "fin"} => compl'.aborting
    <2>1. CASE SetAborting(w) BY <2>1 DEF SetAborting, IInv, TypeOK
    <2>2. CASE CancelExchanges(w)
        BY <2>2, <1>1 DEF CancelExchanges, Outcome, FinalOK
    <2>3. CASE SetFinalStatus(w) \/ SnapBlocked(w) \/ PushBlocked(w)
        <3>1. pc'[w] \in {"abort", "snap", "push"}
            BY <2>3, <1>1, GotoOne DEF SetFinalStatus, SnapBlocked, PushBlocked, IInv
        <3> QED BY <3>1, <1>7
    <2> QED BY <2>1, <2>2, <2>3 DEF Fail
<1>9. Holding(w)' BY <1>4, <1>5, <1>7, <1>8 DEF Holding, LetGo
<1>10. x \in OwningPCs BY <1>6 DEF OwningPCs
<1> QED BY <1>1, <1>2, <1>5, <1>6, <1>8, <1>9, <1>10, OutcomeKeeps

\* The thread that cancels the query owns no driver.
LEMMA CancellerOutcome ==
    ASSUME IInv, Outcome, StartCancel \/ Fail(Canceller)
    PROVE  Outcome'
<1>1. Canceller \in Threads BY DEF Threads
<1>2. NoDriver \notin Drivers /\ \A d \in Drivers : ~Owns(Canceller, d)
    BY SchedulerAssumption DEF IInv, PcOK, Owns
<1>3. /\ UNCHANGED <<runq, blocked, task, poll, done, result, dstate, io>>
      /\ compl.aborting => compl'.aborting
    BY DEF StartCancel, Fail, SetFinalStatus, SnapBlocked, PushBlocked, SetAborting,
           CancelExchanges, IInv, TypeOK
<1>4. \A u \in Threads : u # Canceller => pc'[u] = pc[u]
    BY <1>1, GotoOne DEF StartCancel, Fail, SetFinalStatus, SnapBlocked, PushBlocked,
           SetAborting, CancelExchanges, IInv
<1>5. AllPlaced'
    BY <1>2, <1>3, <1>4 DEF AllPlaced, Somewhere, Owns, Outcome
<1>6. \A u \in Threads \ {Canceller} : Holding(u)'
    BY <1>3, <1>4 DEF Outcome, FinalOK, Holding, LetGo
<1>7. pc'[Canceller] = "query" => compl'.aborting
    <2>1. CASE SetAborting(Canceller) BY <2>1 DEF SetAborting, IInv, TypeOK
    <2>2. CASE ~SetAborting(Canceller)
        <3>1. pc'[Canceller] \in {"status", "abort", "snap", "push", "exit"}
            BY <2>2, <1>1, GotoOne DEF StartCancel, Fail, SetFinalStatus, SnapBlocked,
                  PushBlocked, CancelExchanges, IInv
        <3> QED BY <3>1
    <2> QED BY <2>1, <2>2
<1> QED BY <1>3, <1>4, <1>5, <1>6, <1>7 DEF Outcome, FinalOK, LetGo

\* driver_finished lets the driver go.
LEMMA DriverFinishedOutcome ==
    ASSUME IInv, Outcome, NEW t \in Threads \ {Canceller}, DriverFinished(t)
    PROVE  Outcome'
<1>1. pc[t] = "fin" /\ task[t] \in Drivers /\ LetGo(task[t])
    BY DEF DriverFinished, IInv, PcOK, OwningPCs, Outcome, FinalOK, Holding
<1>2. PICK x \in {"shut", "idle"} : Goto(t, x) BY DEF DriverFinished
<1>3. pc'[t] = x /\ \A u \in Threads : u # t => pc'[u] = pc[u]
    BY <1>2, GotoOne DEF IInv
<1>4. \A u \in Threads : u # t => task'[u] = task[u]
    BY DEF DriverFinished, IInv, TypeOK
<1>5. /\ UNCHANGED <<runq, blocked, poll, result, dstate, io>>
      /\ done' = done \cup {task[t]} /\ compl'.aborting = compl.aborting
    BY DEF DriverFinished, IInv, TypeOK
<1>6. AllPlaced'
    <2>1. \A u \in Threads, d \in Drivers : d # task[t] /\ Owns(u, d) => Owns(u, d)'
        BY <1>3, <1>4 DEF Owns
    <2> QED BY <2>1, <1>5 DEF AllPlaced, Somewhere, Outcome
<1>7. \A u \in Threads \ {Canceller} : Holding(u)'
    BY <1>2, <1>3, <1>4, <1>5 DEF Outcome, FinalOK, Holding, LetGo, FailingPCs
<1>8. \A u \in Threads : pc'[u] = "query" => compl'.aborting
    BY <1>2, <1>3, <1>5 DEF Outcome, FinalOK
<1>9. \A d \in done' : LetGo(d)' BY <1>1, <1>5 DEF Outcome, FinalOK, LetGo
<1>10. result' # "ok"
    <2>1. task[t] \notin done
        BY <1>1 DEF IInv, OwnedApart, Apart, Owns, OwningPCs
    <2> QED BY <1>1, <1>5, <2>1 DEF Outcome, FinalOK
<1> QED BY <1>5, <1>6, <1>7, <1>8, <1>9, <1>10 DEF Outcome, FinalOK

LEMMA CompleteOutcome ==
    ASSUME IInv, Outcome, NEW t \in Threads \ {Canceller}, Complete(t)
    PROVE  Outcome'
<1>1. CASE DriverFinished(t) BY <1>1, DriverFinishedOutcome
<1>2. CASE Shutdown(t) \/ Join(t)
    <2>1. /\ UNCHANGED <<runq, blocked, task, poll, done, result, compl, dstate, io>>
          /\ pc[t] \notin OwningPCs
        BY <1>2 DEF Shutdown, Join, OwningPCs
    <2>2. PICK x \in {"idle", "join"} : Goto(t, x) BY <1>2 DEF Shutdown, Join
    <2>3. x \notin OwningPCs BY <2>2 DEF OwningPCs
    <2> QED BY <2>1, <2>2, <2>3, OutcomeIdles
<1> QED BY <1>1, <1>2 DEF Complete

\* wait() returns ok when every driver has been let go without an abort.
LEMMA WaitOutcome ==
    ASSUME IInv, Outcome, Wait
    PROVE  Outcome'
<1>1. UNCHANGED <<runq, blocked, pc, task, poll, done, compl, dstate, io>>
    BY DEF Wait
<1>2. AllPlaced' BY <1>1 DEF Outcome, AllPlaced, Somewhere, Owns
<1>3. done = Drivers
    <2>1. IsFiniteSet(Drivers \ done) BY SchedulerAssumption, FS_Difference
    <2>2. Cardinality(Drivers \ done) = 0 BY DEF Wait, IInv, CountOK, RemainingExact
    <2>3. Drivers \ done = {} BY <2>1, <2>2, FS_EmptySet
    <2> QED BY <2>3 DEF IInv, TypeOK
<1>4. result' = "ok" => \A d \in Drivers : dstate[d] = "Finished"
    BY <1>3 DEF Wait, Outcome, FinalOK, LetGo
<1> QED BY <1>1, <1>2, <1>3, <1>4 DEF Outcome, FinalOK, Holding, LetGo

-----------------------------------------------------------------------------
(* The event scheduler, the poller and the operators' own threads.         *)

LEMMA SchedOutcome ==
    ASSUME IInv, Outcome, SchedTake \/ SchedAbortCheck \/ SchedProbe \/ SchedReinsert \/ SchedExit
    PROVE  Outcome'
<1>1. Sched \in Threads \ {Canceller} BY DEF Threads
<1>2. UNCHANGED <<poll, done, result, compl, io>>
    BY DEF SchedTake, SchedAbortCheck, SchedProbe, SchedReinsert, SchedExit
<1>3. CASE SchedTake
    <2>1. CASE Head(rq) \in blocked
        <3>1. PICK e \in Drivers : e = Head(rq) BY <2>1 DEF IInv, TypeOK
        <3>2. pc'[Sched] = "check" /\ \A u \in Threads : u # Sched => pc'[u] = pc[u]
            BY <1>1, <1>3, <2>1, GotoOne DEF IInv, SchedTake
        <3>3. /\ task'[Sched] = e /\ \A u \in Threads : u # Sched => task'[u] = task[u]
              /\ blocked' = blocked \ {e} /\ UNCHANGED <<runq, dstate>>
            BY <1>1, <1>3, <2>1, <3>1 DEF IInv, TypeOK, SchedTake
        <3>4. Somewhere(e)' BY <1>1, <3>2, <3>3 DEF Somewhere, Owns, OwningPCs
        <3>5. \A d \in Drivers : ~Owns(Sched, d) BY <1>3 DEF SchedTake, Owns, OwningPCs
        <3>6. pc'[Sched] \notin FailingPCs \cup {"fin"} /\ pc'[Sched] # "query"
            BY <3>2 DEF FailingPCs
        <3> QED BY <1>1, <1>2, <3>2, <3>3, <3>4, <3>5, <3>6, OutcomeTakes
    <2>2. CASE Head(rq) \notin blocked
        <3>1. UNCHANGED <<runq, blocked, pc, task, dstate>> BY <1>3, <2>2 DEF SchedTake
        <3> QED BY <1>2, <3>1 DEF Outcome, AllPlaced, Somewhere, Owns, FinalOK, Holding, LetGo
    <2> QED BY <2>1, <2>2
<1>4. CASE SchedAbortCheck
    <2>1. UNCHANGED <<runq, blocked, task, dstate>> /\ pc[Sched] \in OwningPCs
        BY <1>4 DEF SchedAbortCheck, OwningPCs
    <2>2. PICK x \in {"fin", "probe"} :
                Goto(Sched, x) /\ (x = "fin" => ShouldAbortImmediately(task[Sched]))
        BY <1>4 DEF SchedAbortCheck
    <2>3. pc'[Sched] = x BY <1>1, <2>2, GotoOne DEF IInv
    <2>4. Holding(Sched)'
        BY <1>2, <2>1, <2>2, <2>3 DEF Holding, LetGo, ShouldAbortImmediately, FailingPCs
    <2>5. x \in OwningPCs /\ x # "query" BY <2>2 DEF OwningPCs
    <2> QED BY <1>1, <1>2, <2>1, <2>2, <2>4, <2>5, OutcomeKeeps
<1>5. CASE SchedProbe
    <2>1. pc[Sched] \in OwningPCs BY <1>5 DEF SchedProbe, OwningPCs
    <2>2. task[Sched] \in Drivers BY <1>1, <2>1 DEF IInv, PcOK
    <2>3. CASE CheckIsReady(task[Sched])
        <3>1. /\ SetState(task[Sched], "Ready") /\ runq' = Append(runq, task[Sched])
              /\ task' = [task EXCEPT ![Sched] = NoDriver] /\ Goto(Sched, "idle")
              /\ UNCHANGED blocked
            BY <1>5, <2>3 DEF SchedProbe
        <3>2. Keys(runq') = Keys(runq) \cup {task[Sched]}
            BY <2>2, <3>1, KeysAppend DEF IInv, TypeOK
        <3>3. \A u \in Threads : u # Sched => task'[u] = task[u]
            BY <1>1, <3>1 DEF IInv, TypeOK
        <3>4. \A d \in Drivers : d # task[Sched] => dstate'[d] = dstate[d]
            BY <2>2, <3>1, SetStateOne DEF IInv
        <3>5. "idle" \notin OwningPCs BY DEF OwningPCs
        <3> QED BY <1>1, <1>2, <2>1, <3>1, <3>2, <3>3, <3>4, <3>5, OutcomeGives
    <2>4. CASE ~CheckIsReady(task[Sched])
        <3>1. Goto(Sched, "reinsert") /\ UNCHANGED <<dstate, runq, blocked, task>>
            BY <1>5, <2>4 DEF SchedProbe
        <3>2. pc'[Sched] = "reinsert" BY <1>1, <3>1, GotoOne DEF IInv
        <3>3. Holding(Sched)' /\ "reinsert" \in OwningPCs
            BY <3>2 DEF Holding, FailingPCs, OwningPCs
        <3> QED BY <1>1, <1>2, <2>1, <3>1, <3>3, OutcomeKeeps
    <2> QED BY <2>3, <2>4
<1>6. CASE SchedReinsert
    <2>1. /\ pc[Sched] \in OwningPCs /\ blocked' = blocked \cup {task[Sched]}
          /\ task' = [task EXCEPT ![Sched] = NoDriver] /\ Goto(Sched, "idle")
          /\ UNCHANGED <<runq, dstate>>
        BY <1>6 DEF SchedReinsert, OwningPCs
    <2>2. \A u \in Threads : u # Sched => task'[u] = task[u]
        BY <1>1, <2>1 DEF IInv, TypeOK
    <2>3. "idle" \notin OwningPCs BY DEF OwningPCs
    <2> QED BY <1>1, <1>2, <2>1, <2>2, <2>3, OutcomeGives
<1>7. CASE SchedExit
    <2>1. /\ pc[Sched] \notin OwningPCs /\ Goto(Sched, "exit")
          /\ UNCHANGED <<runq, blocked, task, dstate>>
        BY <1>7 DEF SchedExit, OwningPCs
    <2>2. "exit" \notin OwningPCs BY DEF OwningPCs
    <2> QED BY <1>1, <1>2, <2>1, <2>2, OutcomeIdles
<1> QED BY <1>3, <1>4, <1>5, <1>6, <1>7

\* drain_blocked sorts the pending tasks; those it aborts have no I/O under way.
LEMMA PollDrainOutcome ==
    ASSUME IInv, Outcome, PollDrain
    PROVE  Outcome'
<1>1. UNCHANGED <<runq, blocked, pc, task, done, result, compl, io>> BY DEF PollDrain
<1>2. PICK aborted \in SUBSET poll.pending, ready \in SUBSET poll.pending :
        /\ \A d \in aborted : ShouldAbortImmediately(d)
        /\ poll' = [pending |-> poll.pending \ (aborted \cup ready),
                    aborted |-> aborted, ready |-> ready]
        /\ dstate' = [d \in Drivers |-> IF d \in ready THEN "Ready" ELSE dstate[d]]
    <2>1. PICK due \in SUBSET poll.pending :
            LET aborted == {d \in poll.pending : ShouldAbortImmediately(d)}
                ready == {d \in due \ aborted : CheckIsReady(d)}
            IN  /\ poll' = [pending |-> poll.pending \ (aborted \cup ready),
                            aborted |-> aborted, ready |-> ready]
                /\ dstate' = [d \in Drivers |-> IF d \in ready THEN "Ready" ELSE dstate[d]]
        BY DEF PollDrain
    <2> DEFINE aborted == {d \in poll.pending : ShouldAbortImmediately(d)}
               ready == {d \in due \ aborted : CheckIsReady(d)}
    <2>2. /\ aborted \in SUBSET poll.pending /\ ready \in SUBSET poll.pending
          /\ \A d \in aborted : ShouldAbortImmediately(d)
        OBVIOUS
    <2>3. /\ poll' = [pending |-> poll.pending \ (aborted \cup ready),
                      aborted |-> aborted, ready |-> ready]
          /\ dstate' = [d \in Drivers |-> IF d \in ready THEN "Ready" ELSE dstate[d]]
        BY <2>1
    <2> HIDE DEF aborted, ready
    <2> QED BY <2>2, <2>3
<1>3. /\ poll.aborted = {} /\ poll.ready = {} /\ poll.pending \subseteq Drivers
      /\ poll'.pending = poll.pending \ (aborted \cup ready)
      /\ poll'.aborted = aborted /\ poll'.ready = ready
    BY <1>2 DEF PollDrain, IInv, TypeOK
<1>4. AllPlaced'
    BY <1>1, <1>3 DEF Outcome, AllPlaced, Somewhere, Owns
<1>5. \A d \in Drivers : d \notin poll.pending => dstate'[d] = dstate[d]
    BY <1>2
<1>6. \A u \in Threads \ {Canceller} : pc[u] \in FailingPCs \cup {"fin"} =>
            task[u] \in Drivers /\ task[u] \notin poll.pending
    BY DEF IInv, OwnedApart, Apart, PcOK, Owns, FailingPCs, OwningPCs
<1>7. \A u \in Threads \ {Canceller} : Holding(u)'
    BY <1>1, <1>5, <1>6 DEF Outcome, FinalOK, Holding, LetGo
<1>8. \A d \in poll'.aborted : compl'.aborting /\ ~io'[d]
    BY <1>1, <1>2, <1>3 DEF ShouldAbortImmediately
<1>9. \A d \in done : d \in Drivers /\ d \notin poll.pending
    BY DEF IInv, TypeOK, OwnedApart, Apart
<1>10. \A d \in done' : LetGo(d)'
    BY <1>1, <1>5, <1>9 DEF Outcome, FinalOK, LetGo
<1>11. result' = "ok" => done' = Drivers /\ \A d \in Drivers : dstate'[d] = "Finished"
    BY <1>1, <1>5, <1>9 DEF Outcome, FinalOK
<1> QED BY <1>1, <1>4, <1>7, <1>8, <1>10, <1>11 DEF Outcome, FinalOK

LEMMA PollFinishOutcome ==
    ASSUME IInv, Outcome, PollFinishAborted
    PROVE  Outcome'
<1>1. Poller \in Threads \ {Canceller} BY DEF Threads
<1>2. UNCHANGED <<runq, blocked, done, result, compl, dstate, io>> BY DEF PollFinishAborted
<1>3. pc'[Poller] = "fin" /\ \A u \in Threads : u # Poller => pc'[u] = pc[u]
    BY <1>1, GotoOne DEF IInv, PollFinishAborted
<1>4. PICK e \in poll.aborted : /\ poll' = [poll EXCEPT !.aborted = @ \ {e}]
                                /\ task' = [task EXCEPT ![Poller] = e]
    BY DEF PollFinishAborted
<1>5. /\ task'[Poller] = e /\ \A u \in Threads : u # Poller => task'[u] = task[u]
      /\ poll'.pending = poll.pending /\ poll'.aborted = poll.aborted \ {e}
      /\ poll'.ready = poll.ready
    BY <1>1, <1>4 DEF IInv, TypeOK
<1>6. pc[Poller] = "idle" BY DEF PollFinishAborted
<1>7. \A u \in Threads, d \in Drivers : Owns(u, d) => Owns(u, d)'
    BY <1>3, <1>5, <1>6 DEF Owns, OwningPCs
<1>8. Owns(Poller, e)' BY <1>3, <1>5 DEF Owns, OwningPCs
<1>9. AllPlaced' BY <1>1, <1>2, <1>5, <1>7, <1>8 DEF Outcome, AllPlaced, Somewhere
<1>10. compl.aborting /\ ~io[e] BY DEF Outcome, FinalOK
<1>11. \A u \in Threads \ {Canceller} : Holding(u)'
    BY <1>2, <1>3, <1>5, <1>10 DEF Outcome, FinalOK, Holding, LetGo, FailingPCs
<1> QED BY <1>2, <1>3, <1>5, <1>9, <1>11 DEF Outcome, FinalOK, LetGo

LEMMA PollRequeueOutcome ==
    ASSUME IInv, Outcome, PollRequeue
    PROVE  Outcome'
<1>1. UNCHANGED <<blocked, pc, task, done, result, compl, dstate, io>> BY DEF PollRequeue
<1>2. PICK e \in poll.ready : poll' = [poll EXCEPT !.ready = @ \ {e}] /\ runq' = Append(runq, e)
    BY DEF PollRequeue
<1>3. e \in Drivers BY DEF IInv, TypeOK
<1>4. Keys(runq') = Keys(runq) \cup {e} BY <1>2, <1>3, KeysAppend DEF IInv, TypeOK
<1>5. /\ poll'.pending = poll.pending /\ poll'.aborted = poll.aborted
      /\ poll'.ready = poll.ready \ {e}
    BY <1>2 DEF IInv, TypeOK
<1>6. AllPlaced' BY <1>1, <1>4, <1>5 DEF Outcome, AllPlaced, Somewhere, Owns
<1> QED BY <1>1, <1>5, <1>6 DEF Outcome, FinalOK, Holding, LetGo

\* Producers, consumers and I/O threads end I/O and start none.
LEMMA EnvironmentOutcome ==
    ASSUME IInv, Outcome, NEW d \in Drivers, Environment(d) \/ DoUpdate(d)
    PROVE  Outcome'
<1>1. UNCHANGED <<runq, blocked, pc, task, poll, done, result, compl, dstate>>
    BY DEF Environment, Produce, EndOfStream, Drain, IoDone, DoUpdate
<1>2. \A e \in Drivers : io'[e] => io[e]
    BY DEF Environment, Produce, EndOfStream, Drain, IoDone, DoUpdate, IInv, TypeOK
<1>3. AllPlaced' BY <1>1 DEF Outcome, AllPlaced, Somewhere, Owns
<1>4. \A t \in Threads \ {Canceller} : pc[t] = "fin" => task[t] \in Drivers
    BY DEF IInv, PcOK, OwningPCs
<1>5. \A t \in Threads \ {Canceller} : Holding(t)'
    BY <1>1, <1>2, <1>4 DEF Outcome, FinalOK, Holding, LetGo
<1>6. /\ \A e \in poll'.aborted : compl'.aborting /\ ~io'[e]
      /\ \A e \in done' : LetGo(e)'
    BY <1>1, <1>2 DEF Outcome, FinalOK, LetGo, IInv, TypeOK
<1> QED BY <1>1, <1>3, <1>5, <1>6 DEF Outcome, FinalOK

-----------------------------------------------------------------------------
(* Outcome holds initially and is kept by every step.                       *)

LEMMA InitOutcome ==
    ASSUME Init
    PROVE  Outcome
<1>1. Keys(runq) = Drivers BY OrderingsType DEF Init
<1>2. /\ \A t \in Threads : pc[t] = "idle"
      /\ poll.aborted = {} /\ done = {} /\ result = "waiting"
    BY DEF Init
<1>3. AllPlaced BY <1>1 DEF AllPlaced, Somewhere
<1>4. FinalOK BY <1>2 DEF FinalOK, Holding, FailingPCs
<1> QED BY <1>3, <1>4 DEF Outcome

LEMMA StutterOutcome ==
    ASSUME Outcome, UNCHANGED vars
    PROVE  Outcome'
<1>1. UNCHANGED <<runq, blocked, pc, task, poll, dstate, io, compl, done, result>>
    BY DEF vars
<1> QED BY <1>1 DEF Outcome, AllPlaced, Somewhere, Owns, Keys, FinalOK, Holding, LetGo

LEMMA WorkerOutcome ==
    ASSUME IInv, Outcome, NEW w \in Workers, Worker(w) \/ OperatorFails(w)
    PROVE  Outcome'
<1>1. CASE Process(w)
    BY <1>1, PendingFinishOutcome, TopOutcome, DataflowOutcome, SetFinishingOutcome,
       DepNotifyOutcome, NoProgressOutcome, ClassifyOutcome DEF Process
<1>2. CASE Park(w)
    BY <1>2, ParkInsertOutcome, ParkingOutcome DEF Park
<1>3. CASE Complete(w)
    BY <1>3, CompleteOutcome, WorkerIs
<1> QED BY <1>1, <1>2, <1>3, PopOutcome, CheckOutcome, RequeueOutcome, FailStepOutcome,
           OperatorFailsOutcome DEF Worker

LEMMA NextOutcome ==
    ASSUME IInv, Outcome, Next
    PROVE  Outcome'
<1>1. ASSUME NEW w \in Workers, Worker(w) \/ OperatorFails(w) PROVE Outcome'
    BY <1>1, WorkerOutcome
<1>2. ASSUME NEW t \in {Sched, Poller}, Complete(t) PROVE Outcome'
    BY <1>2, CompleteOutcome DEF Threads
<1>3. CASE EventScheduler
    BY <1>2, <1>3, SchedOutcome DEF EventScheduler
<1>4. CASE PollerThread
    BY <1>2, <1>4, PollDrainOutcome, PollFinishOutcome, PollRequeueOutcome DEF PollerThread
<1>5. CASE StartCancel \/ Fail(Canceller)
    BY <1>5, CancellerOutcome
<1>6. CASE Wait
    BY <1>6, WaitOutcome
<1>7. ASSUME NEW d \in Drivers, Environment(d) \/ DoUpdate(d) PROVE Outcome'
    BY <1>7, EnvironmentOutcome
<1> QED BY <1>1, <1>3, <1>4, <1>5, <1>6, <1>7 DEF Next

(* IInv and Outcome hold in every reachable state.                          *)
THEOREM OutcomeInvariance == Spec => [](IInv /\ Outcome)
<1>1. Init => IInv /\ Outcome
    BY InitIInv, InitOutcome
<1>2. IInv /\ Outcome /\ [Next]_vars => (IInv /\ Outcome)'
    BY NextIInv, StutterIInv, NextOutcome, StutterOutcome
<1> QED BY <1>1, <1>2, PTL DEF Spec

-----------------------------------------------------------------------------
(* What follows.                                                            *)

\* Apart is exclusion between the kinds of place, Somewhere that one of them holds d.
LEMMA OnePlace ==
    ASSUME IInv, Outcome, NEW d \in Drivers
    PROVE  \E p \in Places(d) : Places(d) = {p}
<1>1. Apart(d) /\ Distinct(runq) /\ Somewhere(d)
    BY DEF IInv, OwnedApart, Outcome, AllPlaced
<1>2. CASE d \in Keys(runq)
    <2>1. PICK i \in DOMAIN runq : runq[i] = d BY <1>2 DEF Keys
    <2>2. {j \in DOMAIN runq : runq[j] = d} = {i} BY <1>1, <2>1 DEF Distinct
    <2>3. Places(d) = {<<"runq", i>>} BY <1>1, <1>2, <2>2 DEF Apart, Places
    <2> QED BY <2>3
<1>3. CASE \E t \in Threads : Owns(t, d)
    <2>1. PICK t \in Threads : Owns(t, d) BY <1>3
    <2>2. {u \in Threads : Owns(u, d)} = {t} BY <1>1, <2>1 DEF Apart
    <2>3. {j \in DOMAIN runq : runq[j] = d} = {} BY <1>1, <1>3 DEF Apart, Keys
    <2>4. Places(d) = {<<"thread", t>>} BY <1>1, <1>3, <2>2, <2>3 DEF Apart, Places
    <2> QED BY <2>4
<1>4. CASE d \notin Keys(runq) /\ ~\E t \in Threads : Owns(t, d)
    <2>1. {j \in DOMAIN runq : runq[j] = d} = {} BY <1>4 DEF Keys
    <2>2. {u \in Threads : Owns(u, d)} = {} BY <1>4
    <2>3. CASE d \in blocked
        <3>1. Places(d) = {<<"map", 0>>} BY <1>1, <2>1, <2>2, <2>3 DEF Apart, Places
        <3> QED BY <3>1
    <2>4. CASE d \in poll.pending
        <3>1. Places(d) = {<<"pending", 0>>} BY <1>1, <2>1, <2>2, <2>4 DEF Apart, Places
        <3> QED BY <3>1
    <2>5. CASE d \in poll.aborted
        <3>1. Places(d) = {<<"aborted", 0>>} BY <1>1, <2>1, <2>2, <2>5 DEF Apart, Places
        <3> QED BY <3>1
    <2>6. CASE d \in poll.ready
        <3>1. Places(d) = {<<"ready", 0>>} BY <1>1, <2>1, <2>2, <2>6 DEF Apart, Places
        <3> QED BY <3>1
    <2>7. CASE d \in done
        <3>1. Places(d) = {<<"done", 0>>} BY <1>1, <2>1, <2>2, <2>7 DEF Apart, Places
        <3> QED BY <3>1
    <2> QED BY <1>1, <1>4, <2>3, <2>4, <2>5, <2>6, <2>7 DEF Somewhere
<1> QED BY <1>2, <1>3, <1>4

(* A driver task is in exactly one place, whatever the interleaving of the  *)
(* workers, park_blocked, try_schedule_key, the poller and the failure      *)
(* path: never run by two threads, never lost before driver_finished().     *)
THEOREM TaskOwnedOnce == Spec => []OwnedOnce
<1>1. IInv /\ Outcome => OwnedOnce
    BY OnePlace DEF OwnedOnce
<1> QED BY <1>1, OutcomeInvariance, PTL

(* A driver that finished, or that an abort took out of pending-finish, was *)
(* let go only when its operators had no I/O under way.                     *)
THEOREM ReleasedIsQuiescent == Spec => []ReleasedQuiescent
<1>1. IInv /\ Outcome => ReleasedQuiescent
    BY DEF Outcome, FinalOK, LetGo, Quiet, ReleasedQuiescent
<1> QED BY <1>1, OutcomeInvariance, PTL

(* wait() returns Ok only when every driver reached Finished: neither a     *)
(* failed driver nor one that an abort dropped is reported as success.      *)
THEOREM OkIsFinished == Spec => []OkMeansFinished
<1>1. IInv /\ Outcome => OkMeansFinished
    BY DEF Outcome, FinalOK, OkMeansFinished
<1> QED BY <1>1, OutcomeInvariance, PTL
=============================================================================
