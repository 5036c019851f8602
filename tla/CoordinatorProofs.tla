-------------------------- MODULE CoordinatorProofs --------------------------
(* Proofs about Coordinator, for every set of nodes and workers. *)
EXTENDS Coordinator, FiniteSetTheorems, SequenceTheorems, TLAPS

-----------------------------------------------------------------------------
(* Type correctness. *)

\* What TypeOK leaves open: a worker that runs a job has a node of the bundle, a
\* worker that sends has a status of its node, and a download has a node.
Typed ==
  /\ TypeOK
  /\ \A w \in Workers : Holds(w) => wnode[w] \in Nodes
  /\ \A w \in Workers : wpc[w] = "send" => /\ wstatus[w] \in BundleStatus
                                           /\ wstatus[w].node = wnode[w]
  /\ cpc = "download" => cnode \in Nodes

\* Every action keeps the types; RunJob and Collect are split into their
\* disjuncts.
LEMMA TypedStep == Typed /\ [Next]_vars => Typed'
<1> SUFFICES ASSUME Typed, [Next]_vars PROVE Typed'
  OBVIOUS
<1> USE NodesAssumption DEF Typed, TypeOK, Holds, Job, BundleStatus, NoStatus,
                            work, worker, collector, env
<1>0. \A n \in Nodes : NodeCreates(n) =>
        /\ remote' \in [Nodes -> {"none", "Started", "Done", "Deleted"}]
        /\ running' \subseteq Nodes /\ gone' \subseteq Nodes
  BY DEF NodeCreates
<1>14. \A n \in Nodes : \A written \in BOOLEAN : NodeDeletes(n, written) =>
        /\ remote' \in [Nodes -> {"none", "Started", "Done", "Deleted"}]
        /\ running' \subseteq Nodes /\ gone' \subseteq Nodes
  BY DEF NodeDeletes
<1>1. ASSUME NEW n \in Nodes, EnqueueCreate(n) PROVE Typed'
  <2>1. CreateJob(n) \in Job
    BY DEF CreateJob
  <2>2. jobs' \in Seq(Job)
    BY <1>1, <2>1, AppendProperties DEF EnqueueCreate, Enqueue
  <2>3. QED
    BY <1>1, <2>2 DEF EnqueueCreate
<1>2. ASSUME NEW n \in Nodes, TimerFires(n) PROVE Typed'
  <2>1. WaitJob(n) \in Job
    BY DEF WaitJob
  <2>2. jobs' \in Seq(Job)
    BY <1>2, <2>1, AppendProperties DEF TimerFires, Enqueue
  <2>3. QED
    BY <1>2, <2>2 DEF TimerFires
<1>3. ASSUME NEW n \in Nodes, LateCreate(n) PROVE Typed'
  <2>1. /\ remote' \in [Nodes -> {"none", "Started", "Done", "Deleted"}]
        /\ running' \subseteq Nodes /\ gone' \subseteq Nodes
    BY <1>0, <1>3 DEF LateCreate
  <2>2. QED
    BY <1>3, <2>1 DEF LateCreate
<1>4. ASSUME NEW n \in Nodes, NodeFinishes(n) PROVE Typed'
  BY <1>4 DEF NodeFinishes
<1>15. ASSUME NEW n \in Meddled, NEW written \in BOOLEAN, DeletedThere(n, written) PROVE Typed'
  <2>1. /\ remote' \in [Nodes -> {"none", "Started", "Done", "Deleted"}]
        /\ running' \subseteq Nodes /\ gone' \subseteq Nodes
    BY <1>14, <1>15, MeddledAssumption DEF DeletedThere
  <2>2. QED
    BY <1>15, <2>1 DEF DeletedThere
<1>5. ASSUME NEW w \in Workers, TakeJob(w) PROVE Typed'
  <2>1. Head(jobs) \in Job /\ jobs' \in Seq(Job)
    BY <1>5, HeadTailProperties DEF TakeJob
  <2>2. Head(jobs).node \in Nodes
    BY <2>1
  <2>3. QED
    BY <1>5, <2>1, <2>2 DEF TakeJob
<1>6. ASSUME NEW w \in Workers, StartFlush(w) PROVE Typed'
  BY <1>6 DEF StartFlush
<1>7. ASSUME NEW w \in Workers, RunJob(w) PROVE Typed'
  <2>1. CASE CreateOk(w)
    <3>1. /\ remote' \in [Nodes -> {"none", "Started", "Done", "Deleted"}]
          /\ running' \subseteq Nodes /\ gone' \subseteq Nodes
      BY <1>0, <2>1 DEF CreateOk
    <3>2. QED
      BY <2>1, <3>1 DEF CreateOk
  <2>2. CASE CreateFails(w)
    <3>1. Finished(wnode[w], TRUE) \in BundleStatus /\ Finished(wnode[w], TRUE).node = wnode[w]
      BY <2>2 DEF CreateFails, Finished
    <3> wnode[w] \in Nodes
      BY <2>2 DEF CreateFails
    <3>2. /\ remote' \in [Nodes -> {"none", "Started", "Done", "Deleted"}]
          /\ running' \subseteq Nodes /\ gone' \subseteq Nodes
      BY <1>0, <2>2 DEF CreateFails
    <3>4. inflight' \subseteq Nodes
      BY <2>2 DEF CreateFails
    <3>3. QED
      BY <2>2, <3>1, <3>2, <3>4 DEF CreateFails, Return
  <2>3. CASE ScheduleCheck(w)
    <3>1. WaitJob(wnode[w]) \in Job
      BY <2>3 DEF ScheduleCheck, WaitJob
    <3>2. jobs' \in Seq(Job)
      BY <2>3, <3>1, AppendProperties DEF ScheduleCheck, Enqueue
    <3>3. QED
      BY <2>3, <3>2 DEF ScheduleCheck, Return, Undone
  <2>4. CASE CheckContext(w)
    <3>1. Finished(wnode[w], TRUE) \in BundleStatus /\ Finished(wnode[w], TRUE).node = wnode[w]
      BY <2>4 DEF CheckContext, Finished
    <3>2. CASE ctxDone
      <4>1. /\ wstatus' = [wstatus EXCEPT ![w] = Finished(wnode[w], TRUE)]
            /\ wpc' = [wpc EXCEPT ![w] = "send"]
        BY <2>4, <3>2 DEF CheckContext, Return
      <4>2. QED
        BY <2>4, <3>1, <4>1 DEF CheckContext
    <3>3. CASE ~ctxDone
      BY <2>4, <3>3 DEF CheckContext
    <3>4. QED
      BY <3>2, <3>3
  <2>5. CASE PollDone(w)
    BY <2>5 DEF PollDone, Return, Finished
  <2>6. ASSUME NEW err \in BOOLEAN, PollUndone(w, err) PROVE Typed'
    BY <2>6 DEF PollUndone, PollAgain, Return, Undone
  <2>7. QED
    BY <1>7, <2>1, <2>2, <2>3, <2>4, <2>5, <2>6 DEF RunJob
<1>8. ASSUME NEW w \in Workers, SendStatus(w) PROVE Typed'
  <2>1. statuses' \in Seq(BundleStatus)
    BY <1>8, AppendProperties DEF SendStatus
  <2>2. QED
    BY <1>8, <2>1 DEF SendStatus
<1>9. CASE Collect
  <2>1. CASE StartCollect
    BY <2>1 DEF StartCollect
  <2>2. CASE Receive
    <3>1. Head(statuses) \in BundleStatus /\ statuses' \in Seq(BundleStatus)
      BY <2>2, HeadTailProperties DEF Receive
    <3>2. Head(statuses).node \in Nodes /\ Append(toDelete, Head(statuses).node) \in Seq(Nodes)
      BY <3>1, AppendProperties
    <3>3. CASE ~Counts(Head(statuses))
      BY <2>2, <3>1, <3>3 DEF Receive
    <3>4. CASE Counts(Head(statuses)) /\ Head(statuses).err
      <4>1. /\ report' = [report EXCEPT ![Head(statuses).node] = "Failed"]
            /\ finished' = finished + 1 /\ toDelete' = Append(toDelete, Head(statuses).node)
            /\ UNCHANGED <<cpc, cnode, paths>>
        BY <2>2, <3>4 DEF Receive
      <4>2. QED
        BY <2>2, <3>1, <3>2, <4>1 DEF Receive
    <3>5. CASE Counts(Head(statuses)) /\ ~Head(statuses).err
      <4>1. /\ cpc' = "download" /\ cnode' = Head(statuses).node
            /\ finished' = finished + 1 /\ toDelete' = Append(toDelete, Head(statuses).node)
            /\ UNCHANGED <<report, paths>>
        BY <2>2, <3>5 DEF Receive
      <4>2. QED
        BY <2>2, <3>1, <3>2, <4>1 DEF Receive
    <3>6. QED
      BY <3>3, <3>4, <3>5
  <2>3. ASSUME NEW ok \in BOOLEAN, Download(ok) PROVE Typed'
    BY <2>3 DEF Download
  <2>4. ASSUME NEW ok \in BOOLEAN, Merge(ok) PROVE Typed'
    BY <2>4 DEF Merge
  <2>5. QED
    BY <1>9, <2>1, <2>2, <2>3, <2>4 DEF Collect
<1>10. ASSUME NEW ok \in BOOLEAN, Cleanup(ok) PROVE Typed'
  <2>1. Len(toDelete) \in Nat /\ toDelete \in [1..Len(toDelete) -> Nodes]
    BY LenProperties
  <2>2. toDelete[cleaned + 1] \in Nodes
    BY <1>10, <2>1 DEF Cleanup
  <2>3. /\ remote' \in [Nodes -> {"none", "Started", "Done", "Deleted"}]
        /\ running' \subseteq Nodes /\ gone' \subseteq Nodes /\ undeleted' \subseteq Nodes
    BY <1>10, <1>14, <2>2 DEF Cleanup
  <2>4. QED
    BY <1>10, <2>3 DEF Cleanup
<1>11. CASE Expire
  BY <1>11 DEF Expire
<1>12. CASE UNCHANGED vars
  BY <1>12 DEF vars
<1>13. QED
  BY <1>1, <1>2, <1>3, <1>4, <1>5, <1>6, <1>7, <1>8, <1>9, <1>10, <1>11, <1>12,
     <1>15 DEF Next

LEMMA TypedInit == Init => Typed
<1> SUFFICES ASSUME Init PROVE Typed
  OBVIOUS
<1>1. jobs \in Seq(Job) /\ statuses \in Seq(BundleStatus) /\ toDelete \in Seq(Nodes)
  BY DEF Init
<1>2. TypeOK
  BY <1>1 DEF Init, TypeOK
<1>3. QED
  BY <1>2 DEF Init, Typed, Holds

LEMMA TypedAlways == Spec => []Typed
<1>1. QED
  BY TypedInit, TypedStep, PTL DEF Spec

\* The variables keep their types, for any number of nodes and workers.
THEOREM TypeCorrect == Spec => []TypeOK
<1>1. Typed => TypeOK
  BY DEF Typed
<1>2. QED
  BY <1>1, TypedAlways, PTL

-----------------------------------------------------------------------------
(* Every node is in one place. The invariant says it with a function at that   *)
(* names the place of each node; a step moves at most one node, so the function *)
(* after it is at or [at EXCEPT ![n] = place].                                  *)

Kinds == {"new", "job", "worker", "timer", "sending", "status", "received"}

\* Worker w is about to send a done status.
SendsDone(w) == wpc[w] = "send" /\ wstatus[w].done

NewAt(at) == \A n \in Nodes : n \in toEnqueue <=> at[n] = "new"

TimerAt(at) == \A n \in Nodes : timers[n] = IF at[n] = "timer" THEN 1 ELSE 0

JobAt(at) ==
  /\ \A i \in 1..Len(jobs) : at[jobs[i].node] = "job"
  /\ \A i, j \in 1..Len(jobs) : jobs[i].node = jobs[j].node => i = j
  /\ \A n \in Nodes : at[n] = "job" => \E i \in 1..Len(jobs) : jobs[i].node = n

WorkerAt(at) ==
  /\ \A w \in Workers : Holds(w) => at[wnode[w]] = "worker"
  /\ \A v, w \in Workers : Holds(v) /\ Holds(w) /\ wnode[v] = wnode[w] => v = w
  /\ \A n \in Nodes : at[n] = "worker" => \E w \in Workers : Holds(w) /\ wnode[w] = n

SendingAt(at) ==
  /\ \A w \in Workers : SendsDone(w) => at[wnode[w]] = "sending"
  /\ \A v, w \in Workers : SendsDone(v) /\ SendsDone(w) /\ wnode[v] = wnode[w] => v = w
  /\ \A n \in Nodes : at[n] = "sending" => \E w \in Workers : SendsDone(w) /\ wnode[w] = n

StatusAt(at) ==
  /\ \A i \in 1..Len(statuses) : statuses[i].done => at[statuses[i].node] = "status"
  /\ \A i, j \in 1..Len(statuses) :
       statuses[i].done /\ statuses[j].done /\ statuses[i].node = statuses[j].node => i = j
  /\ \A n \in Nodes :
       at[n] = "status" => \E i \in 1..Len(statuses) : statuses[i].done /\ statuses[i].node = n

ReceivedAt(at) ==
  /\ \A i \in 1..Len(toDelete) : at[toDelete[i]] = "received"
  /\ \A i, j \in 1..Len(toDelete) : toDelete[i] = toDelete[j] => i = j
  /\ \A n \in Nodes : at[n] = "received" => \E i \in 1..Len(toDelete) : toDelete[i] = n

Placed(at) ==
  /\ NewAt(at) /\ TimerAt(at) /\ JobAt(at) /\ WorkerAt(at)
  /\ SendingAt(at) /\ StatusAt(at) /\ ReceivedAt(at)

\* The channels, as index facts.

LEMMA ChannelTypes ==
  ASSUME TypeOK
  PROVE  /\ Len(jobs) \in Nat /\ \A i \in 1..Len(jobs) : jobs[i].node \in Nodes
         /\ Len(statuses) \in Nat
         /\ \A i \in 1..Len(statuses) : /\ statuses[i].node \in Nodes
                                         /\ statuses[i].done \in BOOLEAN
         /\ Len(toDelete) \in Nat /\ \A i \in 1..Len(toDelete) : toDelete[i] \in Nodes
<1>1. Len(jobs) \in Nat /\ jobs \in [1..Len(jobs) -> Job]
  BY LenProperties DEF TypeOK
<1>2. Len(statuses) \in Nat /\ statuses \in [1..Len(statuses) -> BundleStatus]
  BY LenProperties DEF TypeOK
<1>3. Len(toDelete) \in Nat /\ toDelete \in [1..Len(toDelete) -> Nodes]
  BY LenProperties DEF TypeOK
<1>4. \A j \in Job : j.node \in Nodes
  BY DEF Job
<1>5. \A s \in BundleStatus : s.node \in Nodes /\ s.done \in BOOLEAN
  BY DEF BundleStatus
<1>6. QED
  BY <1>1, <1>2, <1>3, <1>4, <1>5

\* A job of a node that is in no other job is appended.
LEMMA JobAppended ==
  ASSUME TypeOK, NEW at \in [Nodes -> Kinds], JobAt(at), NEW n \in Nodes, at[n] # "job",
         NEW j \in Job, j.node = n, jobs' = Append(jobs, j)
  PROVE  JobAt([at EXCEPT ![n] = "job"])'
<1> DEFINE at2 == [at EXCEPT ![n] = "job"]
<1>1. /\ Len(jobs) \in Nat /\ Len(jobs') = Len(jobs) + 1
      /\ \A i \in 1..Len(jobs) : jobs'[i] = jobs[i]
      /\ jobs'[Len(jobs) + 1] = j
  BY AppendProperties, LenProperties DEF TypeOK
<1>2. \A i \in 1..Len(jobs) : jobs[i].node \in Nodes
  BY ChannelTypes
<1>3. \A i \in 1..Len(jobs) : jobs[i].node # n
  BY DEF JobAt
<1>4. \A i \in 1..Len(jobs') : at2[jobs'[i].node] = "job"
  BY <1>1, <1>2 DEF JobAt
<1>5. \A i, k \in 1..Len(jobs') : jobs'[i].node = jobs'[k].node => i = k
  BY <1>1, <1>3 DEF JobAt
<1>6. ASSUME NEW m \in Nodes, at2[m] = "job" PROVE \E i \in 1..Len(jobs') : jobs'[i].node = m
  <2>1. CASE m = n
    BY <2>1, <1>1
  <2>2. CASE m # n
    <3>1. PICK i \in 1..Len(jobs) : jobs[i].node = m
      BY <1>6, <2>2 DEF JobAt
    <3>2. QED
      BY <3>1, <1>1
  <2>3. QED
    BY <2>1, <2>2
<1>7. QED
  BY <1>4, <1>5, <1>6 DEF JobAt

\* The first job is taken.
LEMMA JobTaken ==
  ASSUME TypeOK, NEW at \in [Nodes -> Kinds], JobAt(at), jobs # <<>>, jobs' = Tail(jobs),
         NEW n, n = Head(jobs).node, NEW k \in Kinds, k # "job"
  PROVE  n \in Nodes /\ at[n] = "job" /\ JobAt([at EXCEPT ![n] = k])'
<1> DEFINE at2 == [at EXCEPT ![n] = k]
<1>1. /\ Len(jobs) \in Nat /\ Len(jobs) > 0 /\ Len(jobs') = Len(jobs) - 1
      /\ \A i \in 1..Len(jobs') : jobs'[i] = jobs[i + 1]
      /\ Head(jobs) = jobs[1]
  BY HeadTailProperties, LenProperties, EmptySeq DEF TypeOK
<1>2. \A i \in 1..Len(jobs) : jobs[i].node \in Nodes
  BY ChannelTypes
<1>3. n \in Nodes /\ at[n] = "job"
  BY <1>1, <1>2 DEF JobAt
<1>4. \A i \in 1..Len(jobs') : i + 1 \in 1..Len(jobs) /\ jobs'[i].node # n
  BY <1>1 DEF JobAt
<1>5. \A i \in 1..Len(jobs') : at2[jobs'[i].node] = "job"
  BY <1>1, <1>2, <1>4 DEF JobAt
<1>6. \A i, j \in 1..Len(jobs') : jobs'[i].node = jobs'[j].node => i = j
  <2> SUFFICES ASSUME NEW i \in 1..Len(jobs'), NEW j \in 1..Len(jobs'),
                      jobs'[i].node = jobs'[j].node
               PROVE  i = j
    OBVIOUS
  <2>1. jobs[i + 1].node = jobs[j + 1].node /\ i + 1 \in 1..Len(jobs) /\ j + 1 \in 1..Len(jobs)
    BY <1>1, <1>4
  <2>2. i + 1 = j + 1
    BY <2>1 DEF JobAt
  <2>3. QED
    BY <2>2, <1>1
<1>7. ASSUME NEW m \in Nodes, at2[m] = "job" PROVE \E i \in 1..Len(jobs') : jobs'[i].node = m
  <2>1. m # n /\ at[m] = "job"
    BY <1>7, <1>3
  <2>2. PICK i \in 1..Len(jobs) : jobs[i].node = m
    BY <2>1 DEF JobAt
  <2>3. i # 1
    BY <2>1, <2>2, <1>1
  <2>4. i - 1 \in 1..Len(jobs') /\ jobs'[i - 1] = jobs[i]
    BY <2>2, <2>3, <1>1
  <2>5. QED
    BY <2>2, <2>4
<1>8. QED
  BY <1>3, <1>5, <1>6, <1>7 DEF JobAt

\* A status is sent.
LEMMA StatusAppended ==
  ASSUME TypeOK, NEW at \in [Nodes -> Kinds], StatusAt(at),
         NEW s \in BundleStatus, at[s.node] # "status", statuses' = Append(statuses, s)
  PROVE  StatusAt(IF s.done THEN [at EXCEPT ![s.node] = "status"] ELSE at)'
<1> DEFINE at2 == IF s.done THEN [at EXCEPT ![s.node] = "status"] ELSE at
<1>1. /\ Len(statuses) \in Nat /\ Len(statuses') = Len(statuses) + 1
      /\ \A i \in 1..Len(statuses) : statuses'[i] = statuses[i]
      /\ statuses'[Len(statuses) + 1] = s
  BY AppendProperties, LenProperties DEF TypeOK
<1>2. \A i \in 1..Len(statuses) : statuses[i].node \in Nodes
  BY ChannelTypes
<1>3. s.node \in Nodes /\ s.done \in BOOLEAN
  BY DEF BundleStatus
<1>4. \A i \in 1..Len(statuses) : statuses[i].done => statuses[i].node # s.node
  BY DEF StatusAt
<1>5. \A i \in 1..Len(statuses') : statuses'[i].done => at2[statuses'[i].node] = "status"
  BY <1>1, <1>2, <1>3, <1>4 DEF StatusAt
<1>6. \A i, j \in 1..Len(statuses') :
        statuses'[i].done /\ statuses'[j].done /\ statuses'[i].node = statuses'[j].node => i = j
  BY <1>1, <1>4 DEF StatusAt
<1>7. ASSUME NEW m \in Nodes, at2[m] = "status"
      PROVE  \E i \in 1..Len(statuses') : statuses'[i].done /\ statuses'[i].node = m
  <2>1. CASE s.done /\ m = s.node
    BY <2>1, <1>1
  <2>2. CASE ~(s.done /\ m = s.node)
    <3>1. at[m] = "status"
      BY <1>7, <2>2, <1>3
    <3>2. PICK i \in 1..Len(statuses) : statuses[i].done /\ statuses[i].node = m
      BY <3>1 DEF StatusAt
    <3>3. QED
      BY <3>2, <1>1
  <2>3. QED
    BY <2>1, <2>2
<1>8. QED
  BY <1>5, <1>6, <1>7 DEF StatusAt

\* A status is received.
LEMMA StatusTaken ==
  ASSUME TypeOK, NEW at \in [Nodes -> Kinds], StatusAt(at),
         statuses # <<>>, statuses' = Tail(statuses), NEW s, s = Head(statuses)
  PROVE  /\ s.node \in Nodes /\ s.done \in BOOLEAN
         /\ s.done => at[s.node] = "status"
         /\ StatusAt(IF s.done THEN [at EXCEPT ![s.node] = "received"] ELSE at)'
<1> DEFINE at2 == IF s.done THEN [at EXCEPT ![s.node] = "received"] ELSE at
<1>1. /\ Len(statuses) \in Nat /\ Len(statuses) > 0 /\ Len(statuses') = Len(statuses) - 1
      /\ \A i \in 1..Len(statuses') : statuses'[i] = statuses[i + 1]
      /\ s = statuses[1]
  BY HeadTailProperties, LenProperties, EmptySeq DEF TypeOK
<1>2. \A i \in 1..Len(statuses) : statuses[i].node \in Nodes
  BY ChannelTypes
<1>3. s.node \in Nodes /\ s.done \in BOOLEAN
  BY <1>1, ChannelTypes
<1>4. s.done => at[s.node] = "status"
  BY <1>1 DEF StatusAt
<1>5. \A i \in 1..Len(statuses') :
        i + 1 \in 1..Len(statuses) /\ (s.done /\ statuses'[i].done => statuses'[i].node # s.node)
  BY <1>1 DEF StatusAt
<1>6. \A i \in 1..Len(statuses') : statuses'[i].done => at2[statuses'[i].node] = "status"
  BY <1>1, <1>2, <1>5 DEF StatusAt
<1>7. \A i, j \in 1..Len(statuses') :
        statuses'[i].done /\ statuses'[j].done /\ statuses'[i].node = statuses'[j].node => i = j
  <2> SUFFICES ASSUME NEW i \in 1..Len(statuses'), NEW j \in 1..Len(statuses'),
                      statuses'[i].done, statuses'[j].done, statuses'[i].node = statuses'[j].node
               PROVE  i = j
    OBVIOUS
  <2>1. /\ statuses[i + 1].done /\ statuses[j + 1].done
        /\ statuses[i + 1].node = statuses[j + 1].node
        /\ i + 1 \in 1..Len(statuses) /\ j + 1 \in 1..Len(statuses)
    BY <1>1, <1>5
  <2>2. i + 1 = j + 1
    BY <2>1 DEF StatusAt
  <2>3. QED
    BY <2>2, <1>1
<1>8. ASSUME NEW m \in Nodes, at2[m] = "status"
      PROVE  \E i \in 1..Len(statuses') : statuses'[i].done /\ statuses'[i].node = m
  <2>1. at[m] = "status" /\ ~(s.done /\ m = s.node)
    BY <1>8, <1>3
  <2>2. PICK i \in 1..Len(statuses) : statuses[i].done /\ statuses[i].node = m
    BY <2>1 DEF StatusAt
  <2>3. i # 1
    BY <2>1, <2>2, <1>1
  <2>4. i - 1 \in 1..Len(statuses') /\ statuses'[i - 1] = statuses[i]
    BY <2>2, <2>3, <1>1
  <2>5. QED
    BY <2>2, <2>4
<1>9. QED
  BY <1>3, <1>4, <1>6, <1>7, <1>8 DEF StatusAt

\* A node is added to bundlesToDelete.
LEMMA ReceivedAppended ==
  ASSUME TypeOK, NEW at \in [Nodes -> Kinds], ReceivedAt(at), NEW n \in Nodes,
         at[n] # "received", toDelete' = Append(toDelete, n)
  PROVE  ReceivedAt([at EXCEPT ![n] = "received"])'
<1> DEFINE at2 == [at EXCEPT ![n] = "received"]
<1>1. /\ Len(toDelete) \in Nat /\ Len(toDelete') = Len(toDelete) + 1
      /\ \A i \in 1..Len(toDelete) : toDelete'[i] = toDelete[i]
      /\ toDelete'[Len(toDelete) + 1] = n
  BY AppendProperties, LenProperties DEF TypeOK
<1>2. \A i \in 1..Len(toDelete) : toDelete[i] \in Nodes /\ toDelete[i] # n
  BY ChannelTypes DEF ReceivedAt
<1>3. \A i \in 1..Len(toDelete') : at2[toDelete'[i]] = "received"
  BY <1>1, <1>2 DEF ReceivedAt
<1>4. \A i, j \in 1..Len(toDelete') : toDelete'[i] = toDelete'[j] => i = j
  BY <1>1, <1>2 DEF ReceivedAt
<1>5. ASSUME NEW m \in Nodes, at2[m] = "received" PROVE \E i \in 1..Len(toDelete') : toDelete'[i] = m
  <2>1. CASE m = n
    BY <2>1, <1>1
  <2>2. CASE m # n
    <3>1. PICK i \in 1..Len(toDelete) : toDelete[i] = m
      BY <1>5, <2>2 DEF ReceivedAt
    <3>2. QED
      BY <3>1, <1>1
  <2>3. QED
    BY <2>1, <2>2
<1>6. QED
  BY <1>3, <1>4, <1>5 DEF ReceivedAt

\* at and at2 agree on who is in a place of kind k.
Agree(at, at2, k) == \A n \in Nodes : at[n] = k <=> at2[n] = k

\* A place that a step leaves alone still holds the same nodes.
LEMMA JobKept ==
  ASSUME TypeOK, NEW at, NEW at2, JobAt(at), Agree(at, at2, "job"), UNCHANGED jobs
  PROVE  JobAt(at2)'
  BY ChannelTypes DEF JobAt, Agree

LEMMA StatusKept ==
  ASSUME TypeOK, NEW at, NEW at2, StatusAt(at), Agree(at, at2, "status"), UNCHANGED statuses
  PROVE  StatusAt(at2)'
  BY ChannelTypes DEF StatusAt, Agree

LEMMA ReceivedKept ==
  ASSUME TypeOK, NEW at, NEW at2, ReceivedAt(at), Agree(at, at2, "received"), UNCHANGED toDelete
  PROVE  ReceivedAt(at2)'
  BY ChannelTypes DEF ReceivedAt, Agree

LEMMA NewKept ==
  ASSUME NEW at, NEW at2, NewAt(at), Agree(at, at2, "new"), UNCHANGED toEnqueue
  PROVE  NewAt(at2)'
  BY DEF NewAt, Agree

LEMMA TimerKept ==
  ASSUME NEW at, NEW at2, TimerAt(at), Agree(at, at2, "timer"), UNCHANGED timers
  PROVE  TimerAt(at2)'
  BY DEF TimerAt, Agree

LEMMA WorkerKept ==
  ASSUME Typed, NEW at, NEW at2, WorkerAt(at), Agree(at, at2, "worker"),
         \A v \in Workers : Holds(v)' <=> Holds(v),
         \A v \in Workers : Holds(v) => wnode'[v] = wnode[v]
  PROVE  WorkerAt(at2)'
<1>1. \A v \in Workers : Holds(v) => wnode[v] \in Nodes
  BY DEF Typed
<1>2. \A v \in Workers : Holds(v)' => at2[wnode'[v]] = "worker"
  BY <1>1 DEF WorkerAt, Agree
<1>3. \A v, w \in Workers : Holds(v)' /\ Holds(w)' /\ wnode'[v] = wnode'[w] => v = w
  BY DEF WorkerAt
<1>4. \A n \in Nodes : at2[n] = "worker" => \E w \in Workers : Holds(w)' /\ wnode'[w] = n
  BY DEF WorkerAt, Agree
<1>5. QED
  BY <1>2, <1>3, <1>4 DEF WorkerAt

LEMMA SendingKept ==
  ASSUME Typed, NEW at, NEW at2, SendingAt(at), Agree(at, at2, "sending"),
         \A v \in Workers : SendsDone(v)' <=> SendsDone(v),
         \A v \in Workers : SendsDone(v) => wnode'[v] = wnode[v]
  PROVE  SendingAt(at2)'
<1>1. \A v \in Workers : SendsDone(v) => wnode[v] \in Nodes
  BY DEF Typed, SendsDone, BundleStatus
<1>2. \A v \in Workers : SendsDone(v)' => at2[wnode'[v]] = "sending"
  BY <1>1 DEF SendingAt, Agree
<1>3. \A v, w \in Workers : SendsDone(v)' /\ SendsDone(w)' /\ wnode'[v] = wnode'[w] => v = w
  BY DEF SendingAt
<1>4. \A n \in Nodes : at2[n] = "sending" => \E w \in Workers : SendsDone(w)' /\ wnode'[w] = n
  BY DEF SendingAt, Agree
<1>5. QED
  BY <1>2, <1>3, <1>4 DEF SendingAt

\* Worker w gives up node n, which moves on to a place of kind k.
LEMMA WorkerReleases ==
  ASSUME Typed, NEW at \in [Nodes -> Kinds], WorkerAt(at), NEW w \in Workers, Holds(w),
         NEW k \in Kinds, k # "worker", NEW n, n = wnode[w],
         ~Holds(w)', \A v \in Workers : v # w => (Holds(v)' <=> Holds(v)),
         UNCHANGED wnode
  PROVE  WorkerAt([at EXCEPT ![n] = k])'
<1>1. \A v \in Workers : Holds(v) => wnode[v] \in Nodes
  BY DEF Typed
<1>2. \A v \in Workers : Holds(v)' => Holds(v) /\ v # w /\ wnode[v] # n
  BY DEF WorkerAt
<1>3. \A v \in Workers : Holds(v)' => [at EXCEPT ![n] = k][wnode'[v]] = "worker"
  BY <1>1, <1>2 DEF WorkerAt
<1>4. \A u, v \in Workers : Holds(u)' /\ Holds(v)' /\ wnode'[u] = wnode'[v] => u = v
  BY <1>2 DEF WorkerAt
<1>5. ASSUME NEW m \in Nodes, [at EXCEPT ![n] = k][m] = "worker"
      PROVE  \E v \in Workers : Holds(v)' /\ wnode'[v] = m
  <2>1. m # n /\ at[m] = "worker"
    BY <1>5, <1>1
  <2>2. PICK v \in Workers : Holds(v) /\ wnode[v] = m
    BY <2>1 DEF WorkerAt
  <2>3. QED
    BY <2>1, <2>2
<1>6. QED
  BY <1>3, <1>4, <1>5 DEF WorkerAt

\* Worker w is about to send a done status of node n.
LEMMA SendingStarts ==
  ASSUME Typed, NEW at \in [Nodes -> Kinds], SendingAt(at), NEW w \in Workers, ~SendsDone(w),
         NEW n \in Nodes, at[n] # "sending", n = wnode[w], UNCHANGED wnode,
         SendsDone(w)', \A v \in Workers : v # w => (SendsDone(v)' <=> SendsDone(v))
  PROVE  SendingAt([at EXCEPT ![n] = "sending"])'
<1>1. \A v \in Workers : SendsDone(v) => wnode[v] \in Nodes /\ wnode[v] # n
  BY DEF Typed, SendsDone, BundleStatus, SendingAt
<1>2. \A v \in Workers : SendsDone(v)' => [at EXCEPT ![n] = "sending"][wnode'[v]] = "sending"
  BY <1>1 DEF SendingAt
<1>3. \A u, v \in Workers : SendsDone(u)' /\ SendsDone(v)' /\ wnode'[u] = wnode'[v] => u = v
  BY <1>1 DEF SendingAt
<1>4. ASSUME NEW m \in Nodes, [at EXCEPT ![n] = "sending"][m] = "sending"
      PROVE  \E v \in Workers : SendsDone(v)' /\ wnode'[v] = m
  <2>1. CASE m = n
    BY <2>1
  <2>2. CASE m # n
    <3>1. PICK v \in Workers : SendsDone(v) /\ wnode[v] = m
      BY <1>4, <2>2 DEF SendingAt
    <3>2. QED
      BY <3>1
  <2>3. QED
    BY <2>1, <2>2
<1>5. QED
  BY <1>2, <1>3, <1>4 DEF SendingAt

\* Moving one node changes who is in the places it leaves and enters only.
LEMMA MoveAgrees ==
  ASSUME NEW at \in [Nodes -> Kinds], NEW n \in Nodes, NEW to \in Kinds,
         NEW k \in Kinds, k # at[n], k # to
  PROVE  Agree(at, [at EXCEPT ![n] = to], k)
  BY DEF Agree

\* A step that touches neither channels, timers nor the jobs workers hold.
LEMMA NobodyMoves ==
  ASSUME Typed, NEW at \in [Nodes -> Kinds], Placed(at),
         UNCHANGED <<toEnqueue, timers, jobs, statuses, toDelete>>,
         \A v \in Workers : Holds(v)' <=> Holds(v),
         \A v \in Workers : SendsDone(v)' <=> SendsDone(v),
         UNCHANGED wnode
  PROVE  Placed(at)'
<1>1. \A k : Agree(at, at, k)
  BY DEF Agree
<1>2. TypeOK
  BY DEF Typed
<1>3. QED
  BY <1>1, <1>2, JobKept, StatusKept, ReceivedKept, NewKept, TimerKept, WorkerKept, SendingKept
     DEF Placed

\* A job ends with a done status: its node moves from the worker to the status.
LEMMA JobEndsDone ==
  ASSUME Typed, NEW at \in [Nodes -> Kinds], Placed(at), NEW w \in Workers, Holds(w),
         NEW err \in BOOLEAN, Return(w, Finished(wnode[w], err)),
         UNCHANGED <<work, wnode, toDelete>>
  PROVE  \E at2 \in [Nodes -> Kinds] : Placed(at2)'
<1>1. PICK n \in Nodes : n = wnode[w]
  BY DEF Typed
<1>2. at[n] = "worker"
  BY <1>1 DEF Placed, WorkerAt
<1> DEFINE at2 == [at EXCEPT ![n] = "sending"]
<1>3. at2 \in [Nodes -> Kinds]
  BY DEF Kinds
<1>4. \A k \in Kinds : k \notin {"worker", "sending"} => Agree(at, at2, k)
  BY <1>2, MoveAgrees DEF Kinds
<1>5. TypeOK /\ UNCHANGED <<toEnqueue, timers, jobs, statuses, toDelete, wnode>>
  BY DEF Typed, work
<1>6. /\ wpc'[w] = "send" /\ wstatus'[w].done
      /\ \A v \in Workers : v # w => wpc'[v] = wpc[v] /\ wstatus'[v] = wstatus[v]
  BY <1>5 DEF Return, Finished, TypeOK
<1>7. /\ ~Holds(w)' /\ SendsDone(w)' /\ ~SendsDone(w)
      /\ \A v \in Workers : v # w => /\ Holds(v)' <=> Holds(v)
                                     /\ SendsDone(v)' <=> SendsDone(v)
  BY <1>6 DEF Holds, SendsDone
<1>8. WorkerAt(at2)'
  BY <1>1, <1>5, <1>7, WorkerReleases DEF Placed, Kinds
<1>9. SendingAt(at2)'
  BY <1>1, <1>2, <1>5, <1>7, SendingStarts DEF Placed
<1>10. NewAt(at2)' /\ TimerAt(at2)' /\ JobAt(at2)' /\ StatusAt(at2)' /\ ReceivedAt(at2)'
  BY <1>4, <1>5, NewKept, TimerKept, JobKept, StatusKept, ReceivedKept DEF Placed, Kinds
<1>11. QED
  BY <1>3, <1>8, <1>9, <1>10 DEF Placed

\* A job of node n, which is new or comes from a timer, enters the channel.
LEMMA NodeEnqueued ==
  ASSUME Typed, NEW at \in [Nodes -> Kinds], Placed(at), NEW n \in Nodes,
         at[n] \in {"new", "timer"}, NEW j \in Job, j.node = n, jobs' = Append(jobs, j),
         UNCHANGED <<statuses, worker, toDelete>>,
         toEnqueue' = toEnqueue \ {n},
         timers' = [timers EXCEPT ![n] = 0]
  PROVE  \E at2 \in [Nodes -> Kinds] : Placed(at2)'
<1> DEFINE at2 == [at EXCEPT ![n] = "job"]
<1>1. at2 \in [Nodes -> Kinds] /\ at[n] \in Kinds
  BY DEF Kinds
<1>2. \A k \in Kinds : k \notin {"new", "timer", "job"} => Agree(at, at2, k)
  BY MoveAgrees DEF Kinds
<1>3. TypeOK /\ UNCHANGED <<statuses, wpc, wnode, wstatus, toDelete>>
  BY DEF Typed, worker
<1>4. JobAt(at2)'
  BY <1>3, JobAppended DEF Placed
<1>5. NewAt(at2)'
  BY DEF Placed, NewAt
<1>6. TimerAt(at2)'
  BY <1>3 DEF Placed, TimerAt, TypeOK
<1>7. \A v \in Workers : (Holds(v)' <=> Holds(v)) /\ (SendsDone(v)' <=> SendsDone(v))
  BY <1>3 DEF Holds, SendsDone
<1>8. WorkerAt(at2)' /\ SendingAt(at2)'
  BY <1>2, <1>3, <1>7, WorkerKept, SendingKept DEF Placed, Kinds
<1>9. StatusAt(at2)' /\ ReceivedAt(at2)'
  BY <1>2, <1>3, StatusKept, ReceivedKept DEF Placed, Kinds
<1>10. QED
  BY <1>1, <1>4, <1>5, <1>6, <1>8, <1>9 DEF Placed

\* A worker takes the job of a node.
LEMMA JobStarts ==
  ASSUME Typed, NEW at \in [Nodes -> Kinds], Placed(at), NEW w \in Workers, TakeJob(w)
  PROVE  \E at2 \in [Nodes -> Kinds] : Placed(at2)'
<1>1. PICK n : n = Head(jobs).node
  OBVIOUS
<1> DEFINE at2 == [at EXCEPT ![n] = "worker"]
<1>2. TypeOK /\ jobs # <<>> /\ jobs' = Tail(jobs) /\ "worker" \in Kinds
  BY DEF Typed, TakeJob, Kinds
<1>3. n \in Nodes /\ at[n] = "job" /\ JobAt(at2)'
  BY <1>1, <1>2, JobTaken DEF Placed
<1>4. at2 \in [Nodes -> Kinds]
  BY <1>2
<1>5. \A k \in Kinds : k \notin {"job", "worker"} => Agree(at, at2, k)
  BY <1>2, <1>3, MoveAgrees
<1>6. /\ UNCHANGED <<toEnqueue, timers, statuses, toDelete, wstatus>>
      /\ wpc[w] = "select" /\ wpc'[w] \in {"create", "ctx"} /\ wnode'[w] = n
      /\ \A v \in Workers : v # w => wpc'[v] = wpc[v] /\ wnode'[v] = wnode[v]
  BY <1>1, <1>2 DEF TakeJob, TypeOK, collector
<1>7. /\ Holds(w)' /\ ~Holds(w) /\ ~SendsDone(w)' /\ ~SendsDone(w)
      /\ \A v \in Workers : v # w => /\ Holds(v)' <=> Holds(v)
                                     /\ SendsDone(v)' <=> SendsDone(v)
  BY <1>6 DEF Holds, SendsDone
<1>8. \A v \in Workers : Holds(v) => wnode[v] \in Nodes /\ wnode[v] # n /\ v # w
  BY <1>3, <1>7 DEF Typed, Placed, WorkerAt
<1>9. WorkerAt(at2)'
  <2>1. \A v \in Workers : Holds(v)' => at2[wnode'[v]] = "worker"
    BY <1>3, <1>6, <1>7, <1>8 DEF Placed, WorkerAt
  <2>2. \A u, v \in Workers : Holds(u)' /\ Holds(v)' /\ wnode'[u] = wnode'[v] => u = v
    BY <1>6, <1>7, <1>8 DEF Placed, WorkerAt
  <2>3. ASSUME NEW m \in Nodes, at2[m] = "worker"
        PROVE  \E v \in Workers : Holds(v)' /\ wnode'[v] = m
    <3>1. CASE m = n
      BY <3>1, <1>6, <1>7
    <3>2. CASE m # n
      <4>1. PICK v \in Workers : Holds(v) /\ wnode[v] = m
        BY <2>3, <3>2 DEF Placed, WorkerAt
      <4>2. QED
        BY <4>1, <1>6, <1>7, <1>8
    <3>3. QED
      BY <3>1, <3>2
  <2>4. QED
    BY <2>1, <2>2, <2>3 DEF WorkerAt
<1>10. SendingAt(at2)'
  <2>1. \A v \in Workers : SendsDone(v)' <=> SendsDone(v)
    BY <1>7
  <2>2. \A v \in Workers : SendsDone(v) => wnode'[v] = wnode[v]
    BY <1>6, <1>7
  <2>3. QED
    BY <1>5, <2>1, <2>2, SendingKept DEF Placed, Kinds
<1>11. NewAt(at2)' /\ TimerAt(at2)' /\ StatusAt(at2)' /\ ReceivedAt(at2)'
  BY <1>2, <1>5, <1>6, NewKept, TimerKept, StatusKept, ReceivedKept DEF Placed, Kinds
<1>12. QED
  BY <1>3, <1>4, <1>9, <1>10, <1>11 DEF Placed

\* A job ends with an undone status after it has handed its node to the channel
\* (createBundle) or to a timer (waitForDone).
LEMMA JobHandsOn ==
  ASSUME Typed, NEW at \in [Nodes -> Kinds], Placed(at), NEW w \in Workers, Holds(w),
         NEW err \in BOOLEAN, Return(w, Undone(wnode[w], err)),
         UNCHANGED <<toEnqueue, statuses, wnode, toDelete>>,
         \/ jobs' = Append(jobs, WaitJob(wnode[w])) /\ UNCHANGED timers
         \/ PollAgain(wnode[w]) /\ UNCHANGED jobs
  PROVE  \E at2 \in [Nodes -> Kinds] : Placed(at2)'
<1>1. PICK n \in Nodes : n = wnode[w]
  BY DEF Typed
<1>2. at[n] = "worker" /\ TypeOK
  BY <1>1 DEF Placed, WorkerAt, Typed
<1>3. /\ wpc'[w] = "send" /\ ~wstatus'[w].done
      /\ \A v \in Workers : v # w => wpc'[v] = wpc[v] /\ wstatus'[v] = wstatus[v]
  BY <1>2 DEF Return, Undone, TypeOK
<1>4. /\ ~Holds(w)' /\ \A v \in Workers : v # w => (Holds(v)' <=> Holds(v))
      /\ \A v \in Workers : SendsDone(v)' <=> SendsDone(v)
  BY <1>3 DEF Holds, SendsDone
<1>5. ASSUME NEW k \in {"job", "timer"}
      PROVE  LET at2 == [at EXCEPT ![n] = k] IN
               /\ at2 \in [Nodes -> Kinds]
               /\ \A l \in Kinds : l \notin {"worker", k} => Agree(at, at2, l)
               /\ WorkerAt(at2)' /\ SendingAt(at2)' /\ NewAt(at2)'
               /\ StatusAt(at2)' /\ ReceivedAt(at2)'
  <2> DEFINE at2 == [at EXCEPT ![n] = k]
  <2>1. k \in Kinds /\ at2 \in [Nodes -> Kinds]
    BY DEF Kinds
  <2>2. \A l \in Kinds : l \notin {"worker", k} => Agree(at, at2, l)
    BY <1>2, <2>1, MoveAgrees
  <2>3. WorkerAt(at2)'
    BY <1>1, <1>4, <2>1, WorkerReleases DEF Placed
  <2>4. SendingAt(at2)'
    BY <1>4, <2>2, SendingKept DEF Placed, Kinds
  <2>5. NewAt(at2)' /\ StatusAt(at2)' /\ ReceivedAt(at2)'
    BY <1>2, <2>2, NewKept, StatusKept, ReceivedKept DEF Placed, Kinds
  <2>6. QED
    BY <2>1, <2>2, <2>3, <2>4, <2>5
<1>6. CASE jobs' = Append(jobs, WaitJob(wnode[w])) /\ UNCHANGED timers
  <2> DEFINE at2 == [at EXCEPT ![n] = "job"]
  <2>1. WaitJob(n) \in Job /\ WaitJob(n).node = n
    BY DEF WaitJob, Job
  <2>2. JobAt(at2)'
    BY <1>1, <1>2, <1>6, <2>1, JobAppended DEF Placed
  <2>3. TimerAt(at2)'
    BY <1>5, <1>6, TimerKept DEF Placed, Kinds
  <2>4. QED
    BY <1>5, <2>2, <2>3 DEF Placed
<1>7. CASE PollAgain(wnode[w]) /\ UNCHANGED jobs
  <2> DEFINE at2 == [at EXCEPT ![n] = "timer"]
  <2>1. JobAt(at2)'
    BY <1>2, <1>5, <1>7, JobKept DEF Placed, Kinds
  <2>2. TimerAt(at2)'
    BY <1>1, <1>2, <1>7 DEF PollAgain, Placed, TimerAt, TypeOK
  <2>3. QED
    BY <1>5, <2>1, <2>2 DEF Placed
<1>8. QED
  BY <1>6, <1>7

\* A worker sends its status.
LEMMA StatusSent ==
  ASSUME Typed, NEW at \in [Nodes -> Kinds], Placed(at), NEW w \in Workers, SendStatus(w)
  PROVE  \E at2 \in [Nodes -> Kinds] : Placed(at2)'
<1>1. PICK s \in BundleStatus : s = wstatus[w] /\ s.node = wnode[w]
  BY DEF Typed, SendStatus
<1>2. PICK n \in Nodes : n = s.node
  BY DEF BundleStatus
<1> DEFINE at2 == IF s.done THEN [at EXCEPT ![n] = "status"] ELSE at
<1>3. /\ TypeOK /\ s.done \in BOOLEAN /\ statuses' = Append(statuses, s)
      /\ UNCHANGED <<toEnqueue, timers, jobs, toDelete>>
      /\ wpc[w] = "send" /\ wpc'[w] = "select"
      /\ \A v \in Workers : v # w => wpc'[v] = wpc[v] /\ wstatus'[v] = wstatus[v] /\ wnode'[v] = wnode[v]
  BY <1>1 DEF Typed, TypeOK, SendStatus, collector, BundleStatus
<1>4. /\ ~Holds(w) /\ ~Holds(w)' /\ ~SendsDone(w)' /\ (SendsDone(w) <=> s.done)
      /\ \A v \in Workers : v # w => /\ Holds(v)' <=> Holds(v)
                                     /\ SendsDone(v)' <=> SendsDone(v)
  BY <1>1, <1>3 DEF Holds, SendsDone
<1>5. s.done => at[n] = "sending"
  BY <1>1, <1>2, <1>4 DEF Placed, SendingAt
<1>6. at2 \in [Nodes -> Kinds]
  BY DEF Kinds
<1>7. \A k \in Kinds : k \notin {"sending", "status"} => Agree(at, at2, k)
  BY <1>5, MoveAgrees DEF Kinds, Agree
<1>8. StatusAt(at2)'
  <2>1. CASE s.done
    BY <2>1, <1>2, <1>3, <1>5, StatusAppended DEF Placed
  <2>2. CASE ~s.done
    <3>1. /\ Len(statuses) \in Nat /\ Len(statuses') = Len(statuses) + 1
          /\ \A i \in 1..Len(statuses) : statuses'[i] = statuses[i]
          /\ statuses'[Len(statuses) + 1] = s
      BY <1>3, AppendProperties, LenProperties DEF TypeOK
    <3>2. \A i \in 1..Len(statuses') : statuses'[i].done => i \in 1..Len(statuses)
      BY <2>2, <3>1
    <3>3. at2 = at
      BY <2>2
    <3>4. \A i \in 1..Len(statuses') : statuses'[i].done => at[statuses'[i].node] = "status"
      BY <3>1, <3>2 DEF Placed, StatusAt
    <3>5. \A i, j \in 1..Len(statuses') :
            statuses'[i].done /\ statuses'[j].done /\ statuses'[i].node = statuses'[j].node => i = j
      BY <3>1, <3>2 DEF Placed, StatusAt
    <3>6. \A m \in Nodes : at[m] = "status" =>
            \E i \in 1..Len(statuses') : statuses'[i].done /\ statuses'[i].node = m
      BY <3>1 DEF Placed, StatusAt
    <3>7. QED
      BY <3>3, <3>4, <3>5, <3>6 DEF StatusAt
  <2>3. QED
    BY <2>1, <2>2, <1>3
<1>9. WorkerAt(at2)'
  <2>1. \A v \in Workers : Holds(v)' <=> Holds(v)
    BY <1>4
  <2>2. \A v \in Workers : Holds(v) => wnode'[v] = wnode[v]
    BY <1>3, <1>4
  <2>3. QED
    BY <1>7, <2>1, <2>2, WorkerKept DEF Placed, Kinds
<1>10. SendingAt(at2)'
  <2>1. \A v \in Workers : SendsDone(v)' => SendsDone(v) /\ v # w /\ wnode'[v] = wnode[v]
    BY <1>3, <1>4
  <2>2. \A v \in Workers : SendsDone(v)' => wnode[v] \in Nodes /\ at[wnode[v]] = "sending"
    BY <2>1 DEF Typed, SendsDone, BundleStatus, Placed, SendingAt
  <2>3. \A v \in Workers : SendsDone(v)' => at2[wnode'[v]] = "sending"
    <3> SUFFICES ASSUME NEW v \in Workers, SendsDone(v)' PROVE at2[wnode'[v]] = "sending"
      OBVIOUS
    <3>1. s.done => wnode[v] # n
      BY <1>1, <1>2, <1>4, <2>1 DEF Placed, SendingAt
    <3>2. QED
      BY <2>1, <2>2, <3>1
  <2>4. \A u, v \in Workers : SendsDone(u)' /\ SendsDone(v)' /\ wnode'[u] = wnode'[v] => u = v
    BY <2>1 DEF Placed, SendingAt
  <2>5. ASSUME NEW m \in Nodes, at2[m] = "sending"
        PROVE  \E v \in Workers : SendsDone(v)' /\ wnode'[v] = m
    <3>1. at[m] = "sending" /\ ~(s.done /\ m = n)
      BY <2>5
    <3>2. PICK v \in Workers : SendsDone(v) /\ wnode[v] = m
      BY <3>1 DEF Placed, SendingAt
    <3>3. v # w
      BY <3>1, <3>2, <1>1, <1>2, <1>4
    <3>4. QED
      BY <3>2, <3>3, <1>3, <1>4
  <2>6. QED
    BY <2>3, <2>4, <2>5 DEF SendingAt
<1>11. NewAt(at2)' /\ TimerAt(at2)' /\ JobAt(at2)' /\ ReceivedAt(at2)'
  BY <1>3, <1>7, NewKept, TimerKept, JobKept, ReceivedKept DEF Placed, Kinds
<1>12. QED
  BY <1>6, <1>8, <1>9, <1>10, <1>11 DEF Placed

\* CollectBundle receives a status.
LEMMA StatusReceived ==
  ASSUME Typed, NEW at \in [Nodes -> Kinds], Placed(at), Receive
  PROVE  \E at2 \in [Nodes -> Kinds] : Placed(at2)'
<1>1. PICK s : s = Head(statuses)
  OBVIOUS
<1> DEFINE at2 == IF s.done THEN [at EXCEPT ![s.node] = "received"] ELSE at
<1>2. /\ TypeOK /\ statuses # <<>> /\ statuses' = Tail(statuses)
      /\ UNCHANGED <<toEnqueue, timers, jobs, wpc, wnode, wstatus>>
      /\ IF s.done THEN toDelete' = Append(toDelete, s.node) ELSE UNCHANGED toDelete
  BY <1>1 DEF Typed, Receive, Counts, worker, collector
<1>3. /\ s.node \in Nodes /\ s.done \in BOOLEAN
      /\ s.done => at[s.node] = "status"
      /\ StatusAt(at2)'
  BY <1>1, <1>2, StatusTaken DEF Placed
<1>4. at2 \in [Nodes -> Kinds]
  BY <1>3 DEF Kinds
<1>5. \A k \in Kinds : k \notin {"status", "received"} => Agree(at, at2, k)
  BY <1>3, MoveAgrees DEF Kinds, Agree
<1>6. ReceivedAt(at2)'
  <2>1. CASE s.done
    BY <2>1, <1>2, <1>3, ReceivedAppended DEF Placed
  <2>2. CASE ~s.done
    BY <2>2, <1>2, ReceivedKept DEF Placed, Agree
  <2>3. QED
    BY <2>1, <2>2, <1>3
<1>7. \A v \in Workers : (Holds(v)' <=> Holds(v)) /\ (SendsDone(v)' <=> SendsDone(v))
  BY <1>2 DEF Holds, SendsDone
<1>8. WorkerAt(at2)' /\ SendingAt(at2)'
  BY <1>2, <1>5, <1>7, WorkerKept, SendingKept DEF Placed, Kinds
<1>9. NewAt(at2)' /\ TimerAt(at2)' /\ JobAt(at2)'
  BY <1>2, <1>5, NewKept, TimerKept, JobKept DEF Placed, Kinds
<1>10. QED
  BY <1>3, <1>4, <1>6, <1>8, <1>9 DEF Placed

\* Every step keeps every node in one place.
LEMMA PlacedStep ==
  ASSUME Typed, [Next]_vars, NEW at \in [Nodes -> Kinds], Placed(at)
  PROVE  \E at2 \in [Nodes -> Kinds] : Placed(at2)'
<1> DEFINE Goal == \E at2 \in [Nodes -> Kinds] : Placed(at2)'
<1> SUFFICES Goal
  OBVIOUS
<1>0. TypeOK
  BY DEF Typed
<1>1. ASSUME NEW n \in Nodes, EnqueueCreate(n) PROVE Goal
  <2>1. at[n] = "new" /\ timers[n] = 0
    BY <1>1 DEF EnqueueCreate, Placed, NewAt, TimerAt
  <2>2. CreateJob(n) \in Job /\ CreateJob(n).node = n
    BY DEF CreateJob, Job
  <2>3. timers' = [timers EXCEPT ![n] = 0]
    BY <1>0, <1>1, <2>1 DEF EnqueueCreate, TypeOK
  <2>4. QED
    BY <1>1, <2>1, <2>2, <2>3, NodeEnqueued DEF EnqueueCreate, Enqueue, collector
<1>2. ASSUME NEW n \in Nodes, TimerFires(n) PROVE Goal
  <2>1. at[n] = "timer" /\ timers[n] = 1
    BY <1>2 DEF TimerFires, Placed, TimerAt
  <2>2. WaitJob(n) \in Job /\ WaitJob(n).node = n
    BY DEF WaitJob, Job
  <2>3. timers' = [timers EXCEPT ![n] = 0] /\ toEnqueue' = toEnqueue \ {n}
    BY <1>2, <2>1 DEF TimerFires, Placed, NewAt
  <2>4. QED
    BY <1>2, <2>1, <2>2, <2>3, NodeEnqueued DEF TimerFires, Enqueue, collector
<1>3. ASSUME UNCHANGED <<work, worker, toDelete>> PROVE Goal
  <2>1. \A v \in Workers : (Holds(v)' <=> Holds(v)) /\ (SendsDone(v)' <=> SendsDone(v))
    BY <1>3 DEF Holds, SendsDone, worker
  <2>2. Placed(at)'
    BY <1>3, <2>1, NobodyMoves DEF work, worker
  <2>3. QED
    BY <2>2
<1>4. ASSUME NEW w \in Workers, StartFlush(w) PROVE Goal
  <2>1. \A v \in Workers : (Holds(v)' <=> Holds(v)) /\ (SendsDone(v)' <=> SendsDone(v))
    BY <1>4 DEF StartFlush, Holds, SendsDone
  <2>2. Placed(at)'
    BY <1>4, <2>1, NobodyMoves DEF StartFlush, work, collector
  <2>3. QED
    BY <2>2
<1>5. ASSUME NEW w \in Workers, NEW to \in {"enqueue", "poll"}, Holds(w),
             wpc' = [wpc EXCEPT ![w] = to], UNCHANGED <<work, wnode, wstatus, toDelete>>
      PROVE  Goal
  <2>1. \A v \in Workers : (Holds(v)' <=> Holds(v)) /\ (SendsDone(v)' <=> SendsDone(v))
    BY <1>0, <1>5 DEF Holds, SendsDone, TypeOK
  <2>2. Placed(at)'
    BY <1>5, <2>1, NobodyMoves DEF work
  <2>3. QED
    BY <2>2
<1>6. ASSUME NEW w \in Workers, RunJob(w) PROVE Goal
  <2>1. CASE CreateOk(w)
    BY <2>1, <1>5 DEF CreateOk, Holds, collector
  <2>2. CASE CreateFails(w)
    BY <2>2, JobEndsDone DEF CreateFails, Holds, collector
  <2>3. CASE ScheduleCheck(w)
    BY <2>3, JobHandsOn DEF ScheduleCheck, Enqueue, Holds, collector
  <2>4. CASE CheckContext(w) /\ ctxDone
    BY <2>4, JobEndsDone DEF CheckContext, Holds, collector
  <2>5. CASE CheckContext(w) /\ ~ctxDone
    BY <2>5, <1>5 DEF CheckContext, Holds, collector
  <2>6. CASE PollDone(w)
    BY <2>6, JobEndsDone DEF PollDone, Holds, collector
  <2>7. ASSUME NEW err \in BOOLEAN, PollUndone(w, err) PROVE Goal
    BY <2>7, JobHandsOn DEF PollUndone, Holds, collector
  <2>8. QED
    BY <1>6, <2>1, <2>2, <2>3, <2>4, <2>5, <2>6, <2>7 DEF RunJob
<1>7. CASE Collect
  <2>1. CASE StartCollect
    BY <2>1, <1>3 DEF StartCollect
  <2>2. ASSUME NEW ok \in BOOLEAN, Download(ok) PROVE Goal
    BY <2>2, <1>3 DEF Download
  <2>3. ASSUME NEW ok \in BOOLEAN, Merge(ok) PROVE Goal
    BY <2>3, <1>3 DEF Merge
  <2>4. QED
    BY <1>7, <2>1, <2>2, <2>3, StatusReceived DEF Collect
<1>8. ASSUME NEW n, NEW written, LateCreate(n) \/ NodeFinishes(n) \/ DeletedThere(n, written)
      PROVE  Goal
  BY <1>8, <1>3 DEF LateCreate, NodeFinishes, DeletedThere, collector
<1>9. ASSUME NEW ok \in BOOLEAN, Cleanup(ok) PROVE Goal
  BY <1>9, <1>3 DEF Cleanup, collector
<1>10. CASE Expire
  BY <1>10, <1>3 DEF Expire, collector
<1>11. CASE UNCHANGED vars
  BY <1>11, <1>3 DEF vars, collector
<1>12. ASSUME NEW w \in Workers, TakeJob(w) \/ SendStatus(w) PROVE Goal
  BY <1>12, JobStarts, StatusSent
<1> HIDE DEF Goal
<1>13. ASSUME NEW n \in Nodes, LateCreate(n) \/ NodeFinishes(n) PROVE Goal
  BY <1>8, <1>13
<1>14. ASSUME NEW w \in Workers, TakeJob(w) \/ StartFlush(w) \/ RunJob(w) \/ SendStatus(w)
       PROVE  Goal
  BY <1>4, <1>6, <1>12, <1>14
<1>15. CASE Next
  BY <1>1, <1>2, <1>7, <1>8, <1>9, <1>10, <1>13, <1>14, <1>15 DEF Next
<1>16. QED
  BY <1>11, <1>15

OnePlace == \E at \in [Nodes -> Kinds] : Placed(at)

LEMMA OnePlaceInit == Init => OnePlace
<1> SUFFICES ASSUME Init PROVE OnePlace
  OBVIOUS
<1> DEFINE at == [n \in Nodes |-> "new"]
<1>1. at \in [Nodes -> Kinds]
  BY DEF Kinds
<1>2. Len(jobs) = 0 /\ Len(statuses) = 0 /\ Len(toDelete) = 0
  BY EmptySeq DEF Init
<1>3. \A w \in Workers : ~Holds(w) /\ ~SendsDone(w)
  BY DEF Init, Holds, SendsDone
<1>4. NewAt(at) /\ TimerAt(at)
  BY DEF Init, NewAt, TimerAt
<1>5. JobAt(at) /\ StatusAt(at) /\ ReceivedAt(at)
  BY <1>2 DEF JobAt, StatusAt, ReceivedAt
<1>6. WorkerAt(at) /\ SendingAt(at)
  BY <1>3 DEF WorkerAt, SendingAt
<1>7. QED
  BY <1>1, <1>4, <1>5, <1>6 DEF OnePlace, Placed

LEMMA OnePlaceAlways == Spec => []OnePlace
<1>1. Typed /\ OnePlace /\ [Next]_vars => OnePlace'
  BY PlacedStep DEF OnePlace
<1>2. QED
  BY OnePlaceInit, TypedAlways, <1>1, PTL DEF Spec

-----------------------------------------------------------------------------
\* A sequence of k different elements of S has at most Cardinality(S) of them,
\* and if it has that many they are all there.
LEMMA DistinctElements ==
  ASSUME NEW S, IsFiniteSet(S), NEW k \in Nat, NEW f \in [1..k -> S],
         \A i, j \in 1..k : f[i] = f[j] => i = j
  PROVE  /\ k <= Cardinality(S)
         /\ k = Cardinality(S) => \A x \in S : \E i \in 1..k : f[i] = x
<1>1. f \in Injection(1..k, S)
  BY DEF Injection, IsInjective
<1>2. Cardinality(1..k) = k
  BY FS_Interval
<1>3. k <= Cardinality(S) /\ (k = Cardinality(S) => f \in Surjection(1..k, S))
  BY <1>1, <1>2, FS_Injection
<1>4. f \in Surjection(1..k, S) => \A x \in S : \E i \in 1..k : f[i] = x
  BY DEF Surjection
<1>5. QED
  BY <1>3, <1>4

\* A node that is not in a job leaves room for its job.
LEMMA RoomForOneMore ==
  ASSUME Typed, NEW at \in [Nodes -> Kinds], Placed(at), NEW n \in Nodes, at[n] # "job"
  PROVE  HasRoom(jobs)
<1> DEFINE f == [i \in 1..Len(jobs) |-> jobs[i].node]
<1>1. Len(jobs) \in Nat /\ \A i \in 1..Len(jobs) : jobs[i].node \in Nodes
  BY ChannelTypes DEF Typed
<1>2. \A i \in 1..Len(jobs) : jobs[i].node # n
  BY DEF Placed, JobAt
<1>3. f \in [1..Len(jobs) -> Nodes \ {n}]
  BY <1>1, <1>2
<1>4. \A i, j \in 1..Len(jobs) : f[i] = f[j] => i = j
  BY DEF Placed, JobAt
<1>5. IsFiniteSet(Nodes \ {n}) /\ Cardinality(Nodes \ {n}) = Cardinality(Nodes) - 1
  BY NodesAssumption, FS_RemoveElement
<1>6. Cardinality(Nodes) \in Nat
  BY NodesAssumption, FS_CardinalityType
<1> HIDE DEF f
<1>7. Len(jobs) <= Cardinality(Nodes \ {n})
  BY <1>1, <1>3, <1>4, <1>5, DistinctElements
<1>8. QED
  BY <1>1, <1>5, <1>6, <1>7 DEF HasRoom, Capacity, N

\* Whatever the number of nodes and workers, nobody who enqueues a job ever
\* waits: the pool cannot deadlock on its own job channel.
THEOREM EnqueueNeverWaits == Spec => []EnqueueNeverBlocks
<1>1. Typed /\ OnePlace => EnqueueNeverBlocks
  <2> SUFFICES ASSUME Typed, NEW at \in [Nodes -> Kinds], Placed(at)
               PROVE  EnqueueNeverBlocks
    BY DEF OnePlace
  <2>1. ASSUME NEW n \in Nodes, n \in toEnqueue \/ timers[n] > 0 PROVE HasRoom(jobs)
    <3>1. at[n] # "job"
      BY <2>1 DEF Placed, NewAt, TimerAt
    <3>2. QED
      BY <3>1, RoomForOneMore
  <2>2. ASSUME NEW w \in Workers, wpc[w] = "enqueue" PROVE HasRoom(jobs)
    <3>1. wnode[w] \in Nodes /\ at[wnode[w]] # "job"
      BY <2>2 DEF Typed, Holds, Placed, WorkerAt
    <3>2. QED
      BY <3>1, RoomForOneMore
  <2>3. QED
    BY <2>1, <2>2 DEF EnqueueNeverBlocks
<1>2. QED
  BY <1>1, TypedAlways, OnePlaceAlways, PTL

-----------------------------------------------------------------------------
(* OnePlacePerNode counts what Placed says with a function. *)

LEMMA PlaceIsSingleton ==
  ASSUME Typed, NEW at \in [Nodes -> Kinds], Placed(at), NEW n \in Nodes
  PROVE  \E p : Places(n) = {p}
<1> DEFINE New == {<<"new">> : x \in toEnqueue \cap {n}}
           InJob == {<<"job", i>> : i \in {i \in DOMAIN jobs : jobs[i].node = n}}
           InWorker == {<<"worker", w>> : w \in {w \in Workers : Holds(w) /\ wnode[w] = n}}
           InTimer == {<<"timer", i>> : i \in 1..timers[n]}
           Sending == {<<"sending", w>> : w \in {w \in Workers : /\ wpc[w] = "send"
                                                                /\ wnode[w] = n
                                                                /\ wstatus[w].done}}
           InStatus == {<<"status", i>> : i \in {i \in DOMAIN statuses :
                                                   /\ statuses[i].node = n
                                                   /\ statuses[i].done}}
           Received == {<<"received", i>> : i \in {i \in DOMAIN toDelete : toDelete[i] = n}}
<1>1. Places(n) = New \cup InJob \cup InWorker \cup InTimer \cup Sending
                    \cup InStatus \cup Received
  BY Zenon DEF Places
<1>2. /\ DOMAIN jobs = 1..Len(jobs) /\ DOMAIN statuses = 1..Len(statuses)
      /\ DOMAIN toDelete = 1..Len(toDelete) /\ at[n] \in Kinds
  BY DEF Typed, TypeOK
<1>3. /\ at[n] = "new" => New = {<<"new">>}
      /\ at[n] # "new" => New = {}
  BY DEF Placed, NewAt
<1>4. /\ at[n] = "job" => \E p : InJob = {p}
      /\ at[n] # "job" => InJob = {}
  <2>1. CASE at[n] = "job"
    <3>1. PICK k \in 1..Len(jobs) : jobs[k].node = n
      BY <2>1 DEF Placed, JobAt
    <3>2. {i \in DOMAIN jobs : jobs[i].node = n} = {k}
      BY <1>2, <3>1 DEF Placed, JobAt
    <3>3. InJob = {<<"job", k>>}
      BY <3>2
    <3>4. QED
      BY <2>1, <3>3
  <2>2. CASE at[n] # "job"
    <3>1. {i \in DOMAIN jobs : jobs[i].node = n} = {}
      BY <1>2, <2>2 DEF Placed, JobAt
    <3>2. QED
      BY <2>2, <3>1
  <2>3. QED
    BY <2>1, <2>2
<1>5. /\ at[n] = "worker" => \E p : InWorker = {p}
      /\ at[n] # "worker" => InWorker = {}
  <2>1. CASE at[n] = "worker"
    <3>1. PICK v \in Workers : Holds(v) /\ wnode[v] = n
      BY <2>1 DEF Placed, WorkerAt
    <3>2. {w \in Workers : Holds(w) /\ wnode[w] = n} = {v}
      BY <3>1 DEF Placed, WorkerAt
    <3>3. InWorker = {<<"worker", v>>}
      BY <3>2
    <3>4. QED
      BY <2>1, <3>3
  <2>2. CASE at[n] # "worker"
    <3>1. {w \in Workers : Holds(w) /\ wnode[w] = n} = {}
      BY <2>2 DEF Placed, WorkerAt
    <3>2. QED
      BY <2>2, <3>1
  <2>3. QED
    BY <2>1, <2>2
<1>6. /\ at[n] = "timer" => \E p : InTimer = {p}
      /\ at[n] # "timer" => InTimer = {}
  <2>1. CASE at[n] = "timer"
    <3>1. 1..timers[n] = {1}
      BY <2>1 DEF Placed, TimerAt
    <3>2. InTimer = {<<"timer", 1>>}
      BY <3>1
    <3>3. QED
      BY <2>1, <3>2
  <2>2. CASE at[n] # "timer"
    <3>1. 1..timers[n] = {}
      BY <2>2 DEF Placed, TimerAt
    <3>2. QED
      BY <2>2, <3>1
  <2>3. QED
    BY <2>1, <2>2
<1>7. /\ at[n] = "sending" => \E p : Sending = {p}
      /\ at[n] # "sending" => Sending = {}
  <2> DEFINE Senders == {w \in Workers : wpc[w] = "send" /\ wnode[w] = n /\ wstatus[w].done}
  <2>1. CASE at[n] = "sending"
    <3>1. PICK v \in Workers : SendsDone(v) /\ wnode[v] = n
      BY <2>1 DEF Placed, SendingAt
    <3>2. Senders = {v}
      BY <3>1 DEF Placed, SendingAt, SendsDone
    <3>3. Sending = {<<"sending", v>>}
      BY <3>2
    <3>4. QED
      BY <2>1, <3>3
  <2>2. CASE at[n] # "sending"
    <3>1. Senders = {}
      BY <2>2 DEF Placed, SendingAt, SendsDone
    <3>2. QED
      BY <2>2, <3>1
  <2>3. QED
    BY <2>1, <2>2
<1>8. /\ at[n] = "status" => \E p : InStatus = {p}
      /\ at[n] # "status" => InStatus = {}
  <2> DEFINE Done == {i \in DOMAIN statuses : statuses[i].node = n /\ statuses[i].done}
  <2>1. CASE at[n] = "status"
    <3>1. PICK k \in 1..Len(statuses) : statuses[k].done /\ statuses[k].node = n
      BY <2>1 DEF Placed, StatusAt
    <3>2. Done = {k}
      BY <1>2, <3>1 DEF Placed, StatusAt
    <3>3. InStatus = {<<"status", k>>}
      BY <3>2
    <3>4. QED
      BY <2>1, <3>3
  <2>2. CASE at[n] # "status"
    <3>1. Done = {}
      BY <1>2, <2>2 DEF Placed, StatusAt
    <3>2. QED
      BY <2>2, <3>1
  <2>3. QED
    BY <2>1, <2>2
<1>9. /\ at[n] = "received" => \E p : Received = {p}
      /\ at[n] # "received" => Received = {}
  <2>1. CASE at[n] = "received"
    <3>1. PICK k \in 1..Len(toDelete) : toDelete[k] = n
      BY <2>1 DEF Placed, ReceivedAt
    <3>2. {i \in DOMAIN toDelete : toDelete[i] = n} = {k}
      BY <1>2, <3>1 DEF Placed, ReceivedAt
    <3>3. Received = {<<"received", k>>}
      BY <3>2
    <3>4. QED
      BY <2>1, <3>3
  <2>2. CASE at[n] # "received"
    <3>1. {i \in DOMAIN toDelete : toDelete[i] = n} = {}
      BY <1>2, <2>2 DEF Placed, ReceivedAt
    <3>2. QED
      BY <2>2, <3>1
  <2>3. QED
    BY <2>1, <2>2
<1> HIDE DEF New, InJob, InWorker, InTimer, Sending, InStatus, Received
<1>10. QED
  BY <1>1, <1>2, <1>3, <1>4, <1>5, <1>6, <1>7, <1>8, <1>9 DEF Kinds

\* Whatever the number of nodes and workers, no node is ever forgotten by the
\* pool or handled twice.
THEOREM NodeKeepsOnePlace == Spec => []OnePlacePerNode
<1>1. Typed /\ OnePlace => OnePlacePerNode
  <2> SUFFICES ASSUME Typed, NEW at \in [Nodes -> Kinds], Placed(at), NEW n \in Nodes
               PROVE  Cardinality(Places(n)) = 1
    BY DEF OnePlace, OnePlacePerNode
  <2>1. PICK p : Places(n) = {p}
    BY PlaceIsSingleton
  <2>2. QED
    BY <2>1, FS_Singleton
<1>2. QED
  BY <1>1, TypedAlways, OnePlaceAlways, PTL

-----------------------------------------------------------------------------
(* What CollectBundle has done with the nodes it received. *)

\* The local bundle of node n was deleted, even if its watcher wrote Done since.
Removed(n) == n \in gone /\ remote[n] \in {"Done", "Deleted"}

\* Every received node has an entry in the report or is being downloaded, and
\* only received nodes have one; the archive follows the report. A Deleted bundle has
\* lost its data file. The cleanup has dealt with a prefix of the received nodes.
Reported ==
  /\ finished = Len(toDelete)
  /\ \A i \in 1..Len(toDelete) :
       report[toDelete[i]] # "none" \/ (cpc = "download" /\ cnode = toDelete[i])
  /\ \A n \in Nodes : report[n] # "none" => \E i \in 1..Len(toDelete) : toDelete[i] = n
  /\ cpc = "download" =>
       report[cnode] = "none" /\ \E i \in 1..Len(toDelete) : toDelete[i] = cnode
  /\ paths = {n \in Nodes : report[n] = "Done"}
  /\ \A n \in paths : remote[n] \in {"Done", "Deleted"}
  /\ cpc \in {"merged", "failed"} => finished >= N
  /\ \A n \in Nodes : remote[n] = "Deleted" => n \in gone
  /\ cleaned <= Len(toDelete)
  /\ \A i \in 1..cleaned : toDelete[i] \in undeleted \/ Removed(toDelete[i])

\* A node whose done status is received was not in the report before.
LEMMA ReportedReceive ==
  ASSUME Typed, Reported, OnePlace, Receive
  PROVE  Reported'
<1>1. PICK at \in [Nodes -> Kinds] : Placed(at)
  BY DEF OnePlace
<1>2. PICK s : s = Head(statuses)
  OBVIOUS
<1>3. /\ TypeOK /\ statuses # <<>> /\ cpc = "receive"
      /\ UNCHANGED <<cleaned, remote, gone, undeleted, paths>>
  BY DEF Typed, Receive, collector, env
<1>4. s.node \in Nodes /\ s.done \in BOOLEAN /\ (s.done => at[s.node] = "status")
  BY <1>1, <1>2, <1>3, StatusTaken DEF Placed, Typed, Receive
<1>5. CASE ~s.done
  BY <1>2, <1>3, <1>5 DEF Receive, Counts, collector, Reported, Removed
<1>6. CASE s.done
  <2>1. \A i \in 1..Len(toDelete) : toDelete[i] # s.node
    BY <1>1, <1>4, <1>6 DEF Placed, ReceivedAt
  <2>2. report[s.node] = "none"
    BY <2>1, <1>4 DEF Reported
  <2>3. /\ toDelete' = Append(toDelete, s.node) /\ finished' = finished + 1
        /\ \/ report' = [report EXCEPT ![s.node] = "Failed"] /\ UNCHANGED <<cpc, cnode>>
           \/ cpc' = "download" /\ cnode' = s.node /\ UNCHANGED report
    BY <1>2, <1>6 DEF Receive, Counts, collector
  <2>4. /\ Len(toDelete) \in Nat /\ Len(toDelete') = Len(toDelete) + 1
        /\ \A i \in 1..Len(toDelete) : toDelete'[i] = toDelete[i] /\ toDelete[i] \in Nodes
        /\ toDelete'[Len(toDelete) + 1] = s.node
        /\ report \in [Nodes -> {"none", "Done", "Failed"}] /\ cleaned \in Nat
    BY <1>3, <1>4, <2>3 DEF TypeOK
  <2>5. /\ finished' = Len(toDelete') /\ cleaned' <= Len(toDelete')
        /\ cpc' \in {"receive", "download"}
    BY <1>3, <2>3, <2>4 DEF Reported
  <2>6. \A i \in 1..Len(toDelete') :
           report'[toDelete'[i]] # "none" \/ (cpc' = "download" /\ cnode' = toDelete'[i])
    <3> SUFFICES ASSUME NEW i \in 1..Len(toDelete')
                 PROVE  \/ report'[toDelete'[i]] # "none"
                        \/ cpc' = "download" /\ cnode' = toDelete'[i]
      OBVIOUS
    <3>1. CASE i = Len(toDelete) + 1
      BY <3>1, <1>4, <2>3, <2>4
    <3>2. CASE i \in 1..Len(toDelete)
      BY <3>2, <1>3, <1>4, <2>1, <2>3, <2>4 DEF Reported
    <3>3. QED
      BY <3>1, <3>2, <2>4
  <2>7. \A n \in Nodes : report'[n] # "none" => \E i \in 1..Len(toDelete') : toDelete'[i] = n
    <3> SUFFICES ASSUME NEW n \in Nodes, report'[n] # "none"
                 PROVE  \E i \in 1..Len(toDelete') : toDelete'[i] = n
      OBVIOUS
    <3>1. CASE n = s.node
      BY <3>1, <2>4
    <3>2. CASE n # s.node
      <4>1. report[n] # "none"
        BY <3>2, <2>3, <2>4
      <4>2. PICK i \in 1..Len(toDelete) : toDelete[i] = n
        BY <4>1 DEF Reported
      <4>3. QED
        BY <4>2, <2>4
    <3>3. QED
      BY <3>1, <3>2
  <2>8. /\ cpc' = "download" =>
             report'[cnode'] = "none" /\ \E i \in 1..Len(toDelete') : toDelete'[i] = cnode'
        /\ paths' = {n \in Nodes : report'[n] = "Done"}
    BY <1>3, <1>4, <2>2, <2>3, <2>4 DEF Reported
  <2>9. /\ \A n \in paths' : remote'[n] \in {"Done", "Deleted"}
        /\ \A n \in Nodes : remote'[n] = "Deleted" => n \in gone'
        /\ \A i \in 1..cleaned' :
             (toDelete[i] \in undeleted \/ Removed(toDelete[i]))'
    BY <1>3, <2>4 DEF Reported, Removed
  <2>10. QED
    BY <2>5, <2>6, <2>7, <2>8, <2>9 DEF Reported
<1>7. QED
  BY <1>4, <1>5, <1>6

\* The steps that leave CollectBundle and its cleanup alone keep a node's local
\* bundle finished, and deleted.
LEMMA ReportedElsewhere ==
  ASSUME Typed, Reported, UNCHANGED <<collector, cleaned, undeleted>>,
         gone \subseteq gone',
         \A n \in Nodes : /\ remote[n] \in {"Done", "Deleted"} => remote'[n] \in {"Done", "Deleted"}
                          /\ remote'[n] = "Deleted" => remote[n] = "Deleted" \/ n \in gone'
  PROVE  Reported'
<1>1. \A i \in 1..cleaned : toDelete[i] \in Nodes
  BY ChannelTypes DEF Typed, TypeOK, Reported
<1>2. paths \subseteq Nodes
  BY DEF Typed, TypeOK
<1>3. \A i \in 1..cleaned : toDelete[i] \in undeleted \/ Removed(toDelete[i])'
  BY <1>1 DEF Reported, Removed, collector
<1>4. /\ \A n \in paths : remote'[n] \in {"Done", "Deleted"}
      /\ \A n \in Nodes : remote'[n] = "Deleted" => n \in gone'
  BY <1>2 DEF Reported
<1>5. QED
  BY <1>3, <1>4 DEF Reported, collector

LEMMA ReportedStep == Typed /\ OnePlace /\ Reported /\ [Next]_vars => Reported'
<1> SUFFICES ASSUME Typed, OnePlace, Reported, [Next]_vars PROVE Reported'
  OBVIOUS
<1>0. TypeOK
  BY DEF Typed
<1>1. CASE UNCHANGED <<remote, gone>> /\ UNCHANGED <<collector, cleaned, undeleted>>
  BY <1>1, ReportedElsewhere
<1>2. ASSUME NEW n \in Nodes, EnqueueCreate(n) \/ TimerFires(n) PROVE Reported'
  BY <1>1, <1>2 DEF EnqueueCreate, TimerFires, env
<1>3. ASSUME NEW n \in Nodes, LateCreate(n) PROVE Reported'
  BY <1>0, <1>3, ReportedElsewhere DEF LateCreate, NodeCreates, TypeOK
<1>4. ASSUME NEW n \in Nodes, NodeFinishes(n) PROVE Reported'
  BY <1>0, <1>4, ReportedElsewhere DEF NodeFinishes, TypeOK
<1>15. ASSUME NEW n \in Meddled, NEW written \in BOOLEAN, DeletedThere(n, written)
       PROVE  Reported'
  BY <1>0, <1>15, ReportedElsewhere, MeddledAssumption DEF DeletedThere, NodeDeletes, TypeOK
<1>5. ASSUME NEW w \in Workers, TakeJob(w) \/ StartFlush(w) \/ SendStatus(w) PROVE Reported'
  BY <1>1, <1>5 DEF TakeJob, StartFlush, SendStatus, env
<1>6. ASSUME NEW w \in Workers, RunJob(w) PROVE Reported'
  <2>1. CASE CreateOk(w)
    BY <1>0, <2>1, ReportedElsewhere DEF CreateOk, NodeCreates, TypeOK
  <2>2. CASE CreateFails(w)
    BY <1>0, <2>2, ReportedElsewhere DEF CreateFails, NodeCreates, TypeOK, env
  <2>3. CASE ScheduleCheck(w) \/ CheckContext(w) \/ PollDone(w)
    BY <1>1, <2>3 DEF ScheduleCheck, CheckContext, PollDone, env
  <2>4. ASSUME NEW err \in BOOLEAN, PollUndone(w, err) PROVE Reported'
    BY <1>1, <2>4 DEF PollUndone, env
  <2>5. QED
    BY <1>6, <2>1, <2>2, <2>3, <2>4 DEF RunJob
<1>7. CASE StartCollect
  BY <1>7 DEF StartCollect, Reported, Removed, env
<1>8. ASSUME NEW ok \in BOOLEAN, Download(ok) PROVE Reported'
  <2>1. cnode \in Nodes /\ report[cnode] = "none"
    BY <1>8 DEF Download, Typed, Reported
  <2>2. /\ UNCHANGED <<finished, toDelete, cleaned, remote, gone, undeleted>>
        /\ cpc' = "receive" /\ cpc = "download" /\ (ok => remote[cnode] = "Done")
        /\ report' = [report EXCEPT ![cnode] = IF ok THEN "Done" ELSE "Failed"]
        /\ paths' = IF ok THEN paths \cup {cnode} ELSE paths
    BY <1>8 DEF Download, env
  <2>3. /\ report \in [Nodes -> {"none", "Done", "Failed"}]
        /\ \A i \in 1..Len(toDelete) : toDelete[i] \in Nodes
    BY <1>0, ChannelTypes DEF TypeOK, Typed
  <2>4. \A i \in 1..Len(toDelete) : report'[toDelete[i]] # "none"
    BY <2>1, <2>2, <2>3 DEF Reported
  <2>5. \A n \in Nodes : report'[n] # "none" => \E i \in 1..Len(toDelete) : toDelete[i] = n
    <3>1. \E i \in 1..Len(toDelete) : toDelete[i] = cnode
      BY <1>8, <2>1 DEF Download, Reported
    <3>2. QED
      BY <3>1, <2>1, <2>2, <2>3 DEF Reported
  <2>6. /\ paths' = {n \in Nodes : report'[n] = "Done"}
        /\ \A n \in paths' : remote[n] \in {"Done", "Deleted"}
    BY <2>1, <2>2, <2>3 DEF Reported
  <2>7. QED
    BY <2>2, <2>4, <2>5, <2>6 DEF Reported, Removed
<1>9. ASSUME NEW ok \in BOOLEAN, Merge(ok) PROVE Reported'
  BY <1>9 DEF Merge, AllFinished, Reported, Removed, env
<1>10. ASSUME NEW ok \in BOOLEAN, Cleanup(ok) PROVE Reported'
  <2>1. PICK m \in Nodes : m = toDelete[cleaned + 1]
    BY <1>0, <1>10, ChannelTypes DEF Cleanup, TypeOK, Typed
  <2>2. /\ UNCHANGED <<collector>> /\ cleaned' = cleaned + 1 /\ cleaned \in Nat
        /\ cleaned < Len(toDelete) /\ undeleted \subseteq undeleted'
        /\ gone \subseteq gone'
        /\ \/ remote' = [remote EXCEPT ![m] = "Deleted"] /\ m \in gone'
           \/ remote' = remote /\ (m \in undeleted' \/ Removed(m))
    BY <1>0, <1>10, <2>1 DEF Cleanup, NodeDeletes, TypeOK, Removed, Reported
  <2>3. /\ remote \in [Nodes -> {"none", "Started", "Done", "Deleted"}] /\ paths \subseteq Nodes
        /\ Len(toDelete) \in Nat /\ \A i \in 1..Len(toDelete) : toDelete[i] \in Nodes
    BY <1>0, ChannelTypes DEF TypeOK, Typed
  <2>4. \A n \in Nodes : remote'[n] = remote[n] \/ remote'[n] = "Deleted"
    BY <2>2, <2>3
  <2>5. \A i \in 1..cleaned' : toDelete[i] \in undeleted' \/ Removed(toDelete[i])'
    <3> SUFFICES ASSUME NEW i \in 1..cleaned'
                 PROVE  toDelete[i] \in undeleted' \/ Removed(toDelete[i])'
      OBVIOUS
    <3>1. CASE i = cleaned + 1
      BY <3>1, <2>1, <2>2, <2>3 DEF Removed, collector
    <3>2. CASE i \in 1..cleaned
      BY <3>2, <2>2, <2>3, <2>4 DEF Reported, Removed, collector
    <3>3. QED
      BY <3>1, <3>2, <2>2
  <2>6. /\ \A n \in paths : remote'[n] \in {"Done", "Deleted"}
        /\ \A n \in Nodes : remote'[n] = "Deleted" => n \in gone'
    BY <2>2, <2>3, <2>4 DEF Reported
  <2>7. cleaned' <= Len(toDelete)
    BY <2>2, <2>3
  <2>8. QED
    BY <2>2, <2>5, <2>6, <2>7 DEF Reported, collector
<1>11. CASE Expire
  BY <1>1, <1>11 DEF Expire, env
<1>12. CASE UNCHANGED vars
  BY <1>1, <1>12 DEF vars, env
<1>13. CASE Collect
  BY <1>7, <1>8, <1>9, <1>13, ReportedReceive DEF Collect
<1>14. QED
  BY <1>2, <1>3, <1>4, <1>5, <1>6, <1>10, <1>11, <1>12, <1>13, <1>15 DEF Next

LEMMA ReportedInit == Init => Reported
<1> SUFFICES ASSUME Init PROVE Reported
  OBVIOUS
<1>1. Len(toDelete) = 0
  BY EmptySeq DEF Init
<1>2. QED
  BY <1>1 DEF Init, Reported

LEMMA ReportedAlways == Spec => []Reported
<1>1. QED
  BY ReportedInit, ReportedStep, TypedAlways, OnePlaceAlways, PTL DEF Spec

\* When the loop is over every node was received.
LEMMA AllReceived ==
  ASSUME Typed, OnePlace, Reported, cpc \in {"merged", "failed"}
  PROVE  /\ Len(toDelete) = Cardinality(Nodes)
         /\ \A n \in Nodes : \E i \in 1..Len(toDelete) : toDelete[i] = n
<1>1. PICK at \in [Nodes -> Kinds] : Placed(at)
  BY DEF OnePlace
<1>2. Len(toDelete) \in Nat /\ toDelete \in [1..Len(toDelete) -> Nodes]
  BY DEF Typed, TypeOK
<1>3. \A i, j \in 1..Len(toDelete) : toDelete[i] = toDelete[j] => i = j
  BY <1>1 DEF Placed, ReceivedAt
<1>4. IsFiniteSet(Nodes) /\ Cardinality(Nodes) \in Nat
  BY NodesAssumption, FS_CardinalityType
<1>5. Len(toDelete) >= Cardinality(Nodes)
  BY DEF Reported, N
<1>6. /\ Len(toDelete) <= Cardinality(Nodes)
      /\ Len(toDelete) = Cardinality(Nodes) =>
           \A n \in Nodes : \E i \in 1..Len(toDelete) : toDelete[i] = n
  BY <1>2, <1>3, <1>4, DistinctElements
<1>7. QED
  BY <1>2, <1>4, <1>5, <1>6

\* Whatever the number of nodes and workers, and however their statuses overtake
\* each other, no node is missing from the report of a merged bundle and the
\* archive holds what the report says.
THEOREM ReportCoversNodes == Spec => []ReportIsComplete
<1>1. Typed /\ OnePlace /\ Reported => ReportIsComplete
  <2> SUFFICES ASSUME Typed, OnePlace, Reported, cpc \in {"merged", "failed"}
               PROVE  /\ \A n \in Nodes : report[n] # "none"
                      /\ paths = {n \in Nodes : report[n] = "Done"}
                      /\ \A n \in paths : remote[n] \in {"Done", "Deleted"}
    BY DEF ReportIsComplete
  <2>1. \A n \in Nodes : report[n] # "none"
    BY AllReceived DEF Reported
  <2>2. QED
    BY <2>1 DEF Reported
<1>2. QED
  BY <1>1, TypedAlways, OnePlaceAlways, ReportedAlways, PTL

\* Whatever the number of nodes and workers, once the cleanup is over the archive of
\* a local bundle is left only where deleting it failed, although the watcher of a
\* bundle deleted too early writes Done over Deleted.
THEOREM CleanupIsComplete == Spec => []CleanupCoversAll
<1>1. Typed /\ OnePlace /\ Reported => CleanupCoversAll
  <2> SUFFICES ASSUME Typed, OnePlace, Reported, cpc \in {"merged", "failed"},
                      cleaned = Len(toDelete), NEW n \in Nodes
               PROVE  n \in undeleted \/ Removed(n)
    BY DEF CleanupCoversAll, Removed
  <2>1. PICK i \in 1..Len(toDelete) : toDelete[i] = n
    BY AllReceived
  <2>2. QED
    BY <2>1 DEF Reported
<1>2. QED
  BY <1>1, TypedAlways, OnePlaceAlways, ReportedAlways, PTL

=============================================================================
