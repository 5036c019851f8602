--------------------------- MODULE FetchJobProofs ---------------------------
(* Proofs about FetchJob, for every cluster, every configuration of its nodes, *)
(* every request of an operator and any number of fetchers.                    *)
EXTENDS FetchJob, FiniteSetTheorems, SequenceTheorems, WellFoundedInduction, TLAPS

-----------------------------------------------------------------------------
(* The inductive invariant. *)

\* The phases of a job: before there are requests to fetch; when all fetchers have
\* come to their end; from the choice of the nodes on, unless the job failed before
\* its fetchers were started.
Early == jpc \in {"find", "create", "list"}
Late == jpc \in {"append", "end"} /\ toStart = {}
Asking == jpc \notin {"find", "end"} \/ Late

\* What a phase has not touched is as it was at first, and what it has done stays.
Staged ==
  /\ jpc = "find" => nodes = <<>> /\ toList = {} /\ errors = {}
  /\ jpc \in {"find", "create"} => requested = {}
  /\ jpc \notin {"append", "end"} => archive = {}
  /\ jpc # "end" => ~unclosed
  /\ Asking => nodes = matchRequestedNodes(input.wanted, MasterNodes, AgentNodes)
  /\ Asking /\ ~Early => toList = {}
  /\ Early => toStart = Fetchers /\ queue = {}
  /\ jpc \in {"wait", "gather"} => toStart = {}

\* The fetchers that have handed over their archive.
Ended == {f \in Fetchers : fpc[f] = "end"}

\* The archives gathered are those of the fetchers that have ended, which are all of
\* them when the archives are appended.
Gathered ==
  /\ gathered = Cardinality(Ended)
  /\ jpc \notin {"gather", "append", "end"} => Ended = {}
  /\ zips \subseteq Ended
  /\ jpc = "gather" => zips = Ended
  /\ jpc = "end" => zips = {}
  /\ Late => Ended = Fetchers
  /\ Late => \A f \in temp : f \in zips \/ About("remove", f) \in errors

\* A fetcher has a request only while it works on it, and one at a time. Before it
\* reports a mandatory one as fetched it has stored the answer. Nobody leaves
\* requests behind unless the job is cancelled.
Working ==
  \A f \in Fetchers :
    /\ f \in toStart <=> fpc[f] = "off"
    /\ fpc[f] = "off" => fzip[f] = {}
    /\ fpc[f] \notin {"get", "check", "send"} => freq[f] = {}
    /\ \A r, s \in freq[f] : r = s
    /\ fpc[f] \in {"check", "send"} =>
         \A r \in freq[f] : r \in Mandatory => r \in fzip[f] \/ ferr[f]
    /\ fpc[f] \in {"close", "result", "end"} => cancelled \/ queue = {}

\* What became of request r: some fetcher has its answer.
Fetched(r) == \E f \in Fetchers : r \in fzip[f]
\* Some fetcher has it at hand.
AtHand(r) == \E f \in Fetchers : r \in freq[f]
\* Its answer is in the bundle, on its way, or lost with its archive or the bundle.
Delivered(r) ==
  \E f \in Fetchers :
    r \in fzip[f] /\ (f \in zips \/ r \in archive \/ unclosed \/ About("append", f) \in errors)
\* An error says why there is none.
Excused(r) ==
  \/ About("node", r[1]) \in errors
  \/ About("get", r) \in errors
  \/ About("job", "cancelled") \in errors

\* No request is forgotten.
Accounted ==
  /\ \A r \in Requests :
       r \in requested \/ r[1] \in toList \/ About("node", r[1]) \in errors \/ cancelled
  /\ ~Early /\ ~cancelled =>
       \A r \in requested : r \in Mandatory =>
         r \in queue \/ AtHand(r) \/ Fetched(r) \/ About("get", r) \in errors
  /\ Late => \A r \in Mandatory : Excused(r) \/ Delivered(r)
  /\ status = "success" => Late /\ \A r \in Mandatory : Fetched(r)

IInv == TypeOK /\ Staged /\ Gathered /\ Working /\ Accounted

-----------------------------------------------------------------------------
(* The types. *)

\* What there is to be fetched is settled with the nodes.
LEMMA SameRequests ==
  ASSUME UNCHANGED <<input, nodes>>
  PROVE  /\ Requests' = Requests /\ Mandatory' = Mandatory /\ Subjects' = Subjects
         /\ \A i : Of(i)' = Of(i)
<1>1. Files' = Files
  BY DEF Files
<1>2. Requests' = Requests
  BY <1>1 DEF Requests
<1>3. \A r : EndpointSpec(r)' = EndpointSpec(r)
  BY DEF EndpointSpec
<1>4. QED
  BY <1>2, <1>3 DEF Mandatory, Subjects, Of

\* What an error may be about.
LEMMA SubjectsOfErrors ==
  /\ \A i \in DOMAIN nodes : About("node", i) \in Subjects
  /\ \A r \in Requests : About("get", r) \in Subjects
  /\ \A f \in Fetchers : About("append", f) \in Subjects /\ About("remove", f) \in Subjects
  /\ \A x \in {"zip", "results", "cancelled", "report"} : About("job", x) \in Subjects
BY DEF Subjects, About

\* Errors of one subject are not those of another.
LEMMA ErrorsDiffer ==
  ASSUME NEW k, NEW x, NEW l, NEW y
  PROVE  About(k, x) = About(l, y) <=> k = l /\ x = y
<1>1. /\ About(k, x).kind = k /\ About(k, x).of = x
      /\ About(l, y).kind = l /\ About(l, y).of = y
  BY DEF About
<1>2. QED
  BY <1>1

\* The nodes of a job are nodes of the cluster.
LEMMA NodesAreNodes ==
  ASSUME NEW wanted, NEW i \in DOMAIN matchRequestedNodes(wanted, MasterNodes, AgentNodes)
  PROVE  matchRequestedNodes(wanted, MasterNodes, AgentNodes)[i] \in Nodes
<1> DEFINE all == MasterNodes \o AgentNodes
<1>1. \A k \in DOMAIN all : all[k] \in Nodes
  BY DEF Nodes, Range
<1>2. i[2] \in DOMAIN all /\ matchRequestedNodes(wanted, MasterNodes, AgentNodes)[i] = all[i[2]]
  BY DEF matchRequestedNodes
<1>3. QED
  BY <1>1, <1>2

\* At first there is nothing.
LEMMA TypedInit == Init => TypeOK
<1> SUFFICES ASSUME Init PROVE TypeOK
  OBVIOUS
<1>1. ferr \in [Fetchers -> BOOLEAN] /\ cancelled \in BOOLEAN
  BY Zenon DEF Init
<1>2. Range(nodes) \subseteq Nodes
  BY DEF Init, Range
<1>3. QED
  BY <1>1, <1>2 DEF Init, TypeOK

\* Requests, archives and errors stay of endpoints the nodes list.
LEMMA TypedStep == TypeOK /\ Staged /\ Working /\ [Next]_vars => TypeOK'
<1> SUFFICES ASSUME TypeOK, Staged, Working, [Next]_vars PROVE TypeOK'
  OBVIOUS
<1>0. /\ ferr \in [Fetchers -> BOOLEAN] /\ cancelled \in BOOLEAN
      /\ input \in Inputs /\ Range(nodes) \subseteq Nodes
  BY DEF TypeOK
<1>1. ASSUME NEW ok \in BOOLEAN, FindNodes(ok) PROVE TypeOK'
  <2>1. Range(nodes)' \subseteq Nodes
    BY <1>1, NodesAreNodes DEF FindNodes, Range
  <2>2. /\ jpc = "find" /\ jpc' \in {"end", "create"} /\ status' \in {"refused", status}
        /\ toList' = DOMAIN nodes'
        /\ UNCHANGED <<input, requested, toStart, fetching, bundle, temp, cancelled, counted,
                       zips, gathered, errors, bundle>>
    BY <1>1 DEF FindNodes
  <2>3. /\ requested = {} /\ queue = {} /\ errors = {} /\ archive = {} /\ toStart = Fetchers
        /\ \A f \in Fetchers : fzip[f] = {} /\ freq[f] = {}
    BY <2>2 DEF Staged, Working, Early
  <2>4. freq' \in [Fetchers -> SUBSET Requests'] /\ fzip' \in [Fetchers -> SUBSET Requests']
    BY <2>2, <2>3 DEF TypeOK, fetching, bundle
  <2>5. ferr' \in [Fetchers -> BOOLEAN] /\ cancelled' \in BOOLEAN
    BY <1>0, <2>2, Zenon DEF fetching, bundle
  <2>6. QED
    BY <2>1, <2>2, <2>3, <2>4, <2>5 DEF TypeOK, fetching, bundle
<1>2. ASSUME UNCHANGED <<input, nodes>>
      PROVE  /\ Range(nodes)' \subseteq Nodes /\ input' \in Inputs
             /\ Requests' = Requests /\ Subjects' = Subjects
  BY <1>0, <1>2, SameRequests
<1>3. ASSUME NEW ok \in BOOLEAN, NEW closed \in BOOLEAN,
             CreateZip(ok) \/ FlushReports(ok, closed)
      PROVE  TypeOK'
  <2>1. ferr' \in [Fetchers -> BOOLEAN] /\ cancelled' \in BOOLEAN
    BY <1>0, <1>3, Zenon DEF CreateZip, FlushReports, fetching, bundle
  <2>2. QED
    BY <1>2, <1>3, <2>1, SubjectsOfErrors DEF CreateZip, FlushReports, TypeOK, fetching, bundle
<1>4. ASSUME NEW i \in DOMAIN nodes, ListNode(i) PROVE TypeOK'
  <2>1. ferr' \in [Fetchers -> BOOLEAN] /\ cancelled' \in BOOLEAN
    BY <1>0, <1>4, Zenon DEF ListNode, fetching, bundle
  <2>2. /\ requested' \subseteq Requests /\ requested \subseteq requested'
        /\ toList' \subseteq toList /\ errors' \subseteq Subjects
    BY <1>4, SubjectsOfErrors DEF ListNode, Of, TypeOK
  <2>3. QED
    BY <1>2, <1>4, <2>1, <2>2 DEF ListNode, TypeOK, fetching, bundle
<1>5. ASSUME NEW f \in Fetchers, NEW ok \in BOOLEAN, StartFetcher(f, ok) PROVE TypeOK'
  <2>1. ferr' \in [Fetchers -> BOOLEAN] /\ cancelled' \in BOOLEAN
    BY <1>0, <1>5, Zenon DEF StartFetcher
  <2>2. QED
    BY <1>2, <1>5, <2>1 DEF StartFetcher, TypeOK, bundle
<1>6. ASSUME NEW f \in Fetchers, NEW ok \in BOOLEAN, NEW removed \in BOOLEAN,
             AppendToZip(f, ok, removed)
      PROVE  TypeOK'
  <2>1. ferr' \in [Fetchers -> BOOLEAN] /\ cancelled' \in BOOLEAN
    BY <1>0, <1>6, Zenon DEF AppendToZip, fetching, bundle
  <2>2. archive' \subseteq Requests /\ errors' \subseteq Subjects
    BY <1>6, SubjectsOfErrors DEF AppendToZip, TypeOK
  <2>3. QED
    BY <1>2, <1>6, <2>1, <2>2 DEF AppendToZip, TypeOK, fetching, bundle
<1>7. ASSUME EnqueueAll \/ StartWaiting \/ StopWaiting \/ Conclude PROVE TypeOK'
  <2>1. ferr' \in [Fetchers -> BOOLEAN] /\ cancelled' \in BOOLEAN
    BY <1>0, <1>7, Zenon DEF EnqueueAll, StartWaiting, StopWaiting, Conclude, fetching, bundle
  <2>2. QED
    BY <1>2, <1>7, <2>1, SubjectsOfErrors
       DEF EnqueueAll, StartWaiting, StopWaiting, Conclude, Interrupted, TypeOK, fetching, bundle, result
<1>8. ASSUME NEW f \in Fetchers, Take(f) \/ Leave(f) PROVE TypeOK'
  <2>1. ferr' \in [Fetchers -> BOOLEAN] /\ cancelled' \in BOOLEAN
    BY <1>0, <1>8, Zenon DEF Take, Leave
  <2>2. QED
    BY <1>2, <1>8, <2>1 DEF Take, Leave, TypeOK, result, bundle
<1>9. ASSUME NEW f \in Fetchers, GetDataToZip(f) PROVE TypeOK'
  <2>1. cancelled' \in BOOLEAN
    BY <1>0, <1>9, Zenon DEF GetDataToZip
  <2>2. ferr' \in [Fetchers -> BOOLEAN]
    <3>1. \A outcome : Reports(f, outcome) \in BOOLEAN
      BY DEF Reports
    <3>2. QED
      BY <1>0, <1>9, <3>1, Zenon DEF GetDataToZip
  <2>3. fzip' \in [Fetchers -> SUBSET Requests]
    BY <1>9 DEF GetDataToZip, TypeOK
  <2>4. QED
    BY <1>2, <1>9, <2>1, <2>2, <2>3 DEF GetDataToZip, TypeOK, result, bundle
<1>10. ASSUME NEW f \in Fetchers, CheckContext(f) PROVE TypeOK'
  <2>1. ferr' \in [Fetchers -> BOOLEAN] /\ cancelled' \in BOOLEAN
    BY <1>0, <1>10, Zenon DEF CheckContext, Forget
  <2>2. QED
    BY <1>2, <1>10, <2>1 DEF CheckContext, Forget, TypeOK, result, bundle
<1>11. ASSUME NEW f \in Fetchers, NEW err \in BOOLEAN, Close(f, err) PROVE TypeOK'
  <2>1. ferr' \in [Fetchers -> BOOLEAN] /\ cancelled' \in BOOLEAN
    BY <1>0, <1>11, Zenon DEF Close
  <2>2. QED
    BY <1>2, <1>11, <2>1 DEF Close, TypeOK, result, bundle
<1>12. ASSUME NEW f \in Fetchers, ReceiveStatus(f) PROVE TypeOK'
  <2>1. ferr' \in [Fetchers -> BOOLEAN] /\ cancelled' \in BOOLEAN
    BY <1>0, <1>12, Zenon DEF ReceiveStatus, Forget
  <2>2. errors' \subseteq Subjects
    BY <1>12, SubjectsOfErrors DEF ReceiveStatus, TypeOK
  <2>3. QED
    BY <1>2, <1>12, <2>1, <2>2 DEF ReceiveStatus, Forget, TypeOK, bundle
<1>13. ASSUME NEW f \in Fetchers, ReceiveResult(f) PROVE TypeOK'
  <2>1. ferr' \in [Fetchers -> BOOLEAN] /\ cancelled' \in BOOLEAN
    BY <1>0, <1>13, Zenon DEF ReceiveResult, Forget
  <2>2. QED
    BY <1>2, <1>13, <2>1, SubjectsOfErrors DEF ReceiveResult, Forget, TypeOK, bundle
<1>14. ASSUME Cancel PROVE TypeOK'
  <2>1. ferr' \in [Fetchers -> BOOLEAN] /\ cancelled' \in BOOLEAN
    BY <1>0, <1>14, Zenon DEF Cancel, fetching, bundle
  <2>2. QED
    BY <1>2, <1>14, <2>1 DEF Cancel, TypeOK, fetching, bundle, result
<1>15. ASSUME UNCHANGED vars PROVE TypeOK'
  <2>1. ferr' \in [Fetchers -> BOOLEAN] /\ cancelled' \in BOOLEAN
    BY <1>0, <1>15, Zenon DEF vars, fetching, bundle
  <2>2. QED
    BY <1>2, <1>15, <2>1 DEF vars, TypeOK, fetching, bundle, result
<1>16. QED
  BY <1>1, <1>3, <1>4, <1>5, <1>6, <1>7, <1>8, <1>9, <1>10, <1>11, <1>12, <1>13, <1>14, <1>15
     DEF Next, JobStep, FetcherStep, Meet

-----------------------------------------------------------------------------
(* The phases, and the archives. *)

\* The steps of a fetcher, and its meetings with the job, change nothing but the
\* fetcher, the queue, and what the job has received.
LEMMA FetchersWork ==
  ASSUME NEW f \in Fetchers, FetcherStep(f) \/ Meet(f)
  PROVE  /\ UNCHANGED <<input, nodes, jpc, toList, requested, toStart, temp, cancelled,
                        status, bundle>>
         /\ queue' \subseteq queue
         /\ fpc[f] \notin {"off", "end"}
         /\ fpc[f] = "result" => jpc = "gather"
         /\ errors \subseteq errors'
         /\ jpc \notin {"wait", "gather"} => UNCHANGED <<errors, zips, gathered>>
BY DEF FetcherStep, Meet, Take, Leave, GetDataToZip, CheckContext, Close, ReceiveStatus,
       ReceiveResult, result

LEMMA StagedStep == TypeOK /\ Staged /\ Working /\ [Next]_vars => Staged'
<1> SUFFICES ASSUME TypeOK, Staged, Working, [Next]_vars PROVE Staged'
  OBVIOUS
<1>1. ASSUME NEW ok \in BOOLEAN, FindNodes(ok) PROVE Staged'
  <2>1. jpc = "find" /\ toStart = Fetchers /\ queue = {} /\ requested = {} /\ archive = {} /\ ~unclosed
    BY <1>1 DEF FindNodes, Staged, Early
  <2>2. nodes' = matchRequestedNodes(input.wanted, MasterNodes, AgentNodes) \/ jpc' = "end"
    BY <1>1 DEF FindNodes
  <2>3. /\ jpc' \in {"create", "end"}
        /\ UNCHANGED <<input, requested, toStart, queue, archive, unclosed>>
    BY <1>1 DEF FindNodes, fetching, bundle
  <2>4. QED
    BY <2>1, <2>2, <2>3, FetchersAssumption DEF Staged, Early, Late, Asking
<1>2. ASSUME NEW ok \in BOOLEAN, NEW closed \in BOOLEAN,
             CreateZip(ok) \/ FlushReports(ok, closed)
      PROVE  Staged'
  BY <1>2, FetchersAssumption DEF CreateZip, FlushReports, Staged, Early, Late, Asking, fetching, bundle
<1>3. ASSUME NEW i \in DOMAIN nodes, ListNode(i) PROVE Staged'
  BY <1>3 DEF ListNode, Staged, Early, Late, Asking, fetching, bundle
<1>4. ASSUME NEW f \in Fetchers, NEW ok \in BOOLEAN, StartFetcher(f, ok) PROVE Staged'
  BY <1>4 DEF StartFetcher, Staged, Early, Late, Asking, bundle
<1>5. ASSUME NEW f \in Fetchers, NEW ok \in BOOLEAN, NEW removed \in BOOLEAN,
             AppendToZip(f, ok, removed)
      PROVE  Staged'
  BY <1>5 DEF AppendToZip, Staged, Early, Late, Asking, fetching, bundle
<1>6. ASSUME EnqueueAll \/ StartWaiting \/ StopWaiting \/ Conclude PROVE Staged'
  BY <1>6 DEF EnqueueAll, StartWaiting, StopWaiting, Conclude, Staged, Early, Late, Asking,
              fetching, bundle, result
<1>7. ASSUME NEW f \in Fetchers, FetcherStep(f) \/ Meet(f) PROVE Staged'
  <2>1. ~Early
    BY <1>7, FetchersWork DEF Staged, Working, Early
  <2>2. QED
    BY <1>7, <2>1, FetchersWork DEF Staged, Early, Late, Asking, bundle
<1>8. ASSUME Cancel \/ UNCHANGED vars PROVE Staged'
  BY <1>8 DEF Cancel, vars, Staged, Early, Late, Asking, fetching, bundle, result
<1>9. QED
  BY <1>1, <1>2, <1>3, <1>4, <1>5, <1>6, <1>7, <1>8 DEF Next, JobStep

\* Counting those that have ended tells whether all have.
LEMMA EndedCounted ==
  /\ IsFiniteSet(Ended) /\ Cardinality(Ended) \in Nat
  /\ Cardinality(Ended) >= Cardinality(Fetchers) => Ended = Fetchers
<1>1. Ended \subseteq Fetchers /\ IsFiniteSet(Fetchers)
  BY FetchersAssumption DEF Ended
<1>2. IsFiniteSet(Ended) /\ Cardinality(Ended) \in Nat /\ Cardinality(Fetchers) \in Nat
  BY <1>1, FS_Subset, FS_CardinalityType
<1>3. Cardinality(Ended) = Cardinality(Fetchers) => Ended = Fetchers
  BY <1>1, FS_Subset
<1>4. Cardinality(Ended) <= Cardinality(Fetchers)
  BY <1>1, FS_Subset
<1>5. QED
  BY <1>2, <1>3, <1>4

LEMMA GatheredStep == TypeOK /\ Staged /\ Working /\ Gathered /\ [Next]_vars => Gathered'
<1> SUFFICES ASSUME TypeOK, Staged, Working, Gathered, [Next]_vars PROVE Gathered'
  OBVIOUS
<1>1. ASSUME UNCHANGED fpc PROVE Ended' = Ended
  BY <1>1 DEF Ended
<1>2. ASSUME NEW ok \in BOOLEAN, FindNodes(ok) PROVE Gathered'
  BY <1>1, <1>2, FetchersAssumption DEF FindNodes, Gathered, Staged, Early, Late, fetching, bundle
<1>3. ASSUME NEW ok \in BOOLEAN, NEW closed \in BOOLEAN,
             CreateZip(ok) \/ FlushReports(ok, closed)
      PROVE  Gathered'
  BY <1>1, <1>3, FetchersAssumption DEF CreateZip, FlushReports, Gathered, Staged, Early, Late, fetching, bundle
<1>4. ASSUME NEW i \in DOMAIN nodes, ListNode(i) PROVE Gathered'
  BY <1>1, <1>4 DEF ListNode, Gathered, Late, fetching, bundle
<1>5. ASSUME NEW f \in Fetchers, NEW ok \in BOOLEAN, StartFetcher(f, ok) PROVE Gathered'
  <2>1. Ended' = Ended
    BY <1>5 DEF StartFetcher, Ended, Working, TypeOK
  <2>2. QED
    BY <1>5, <2>1 DEF StartFetcher, Gathered, Late
<1>6. ASSUME NEW f \in Fetchers, NEW ok \in BOOLEAN, NEW removed \in BOOLEAN,
             AppendToZip(f, ok, removed)
      PROVE  Gathered'
  BY <1>1, <1>6 DEF AppendToZip, Gathered, Late, fetching, bundle
<1>7. ASSUME EnqueueAll \/ StartWaiting \/ StopWaiting PROVE Gathered'
  BY <1>1, <1>7 DEF EnqueueAll, StartWaiting, StopWaiting, Gathered, Late, fetching, bundle, result
<1>8. ASSUME Conclude PROVE Gathered'
  <2>1. Ended = Fetchers
    BY <1>8, EndedCounted DEF Conclude, AllGathered, Gathered
  <2>2. QED
    BY <1>1, <1>8, <2>1 DEF Conclude, Gathered, Late, TypeOK, fetching, bundle
<1>9. ASSUME NEW f \in Fetchers, FetcherStep(f) \/ ReceiveStatus(f) PROVE Gathered'
  <2>1. fpc[f] # "end" /\ UNCHANGED <<jpc, zips, gathered, temp, toStart>> /\ errors \subseteq errors'
    BY <1>9 DEF FetcherStep, Take, Leave, GetDataToZip, CheckContext, Close, ReceiveStatus, result
  <2>2. \E l \in {"select", "get", "check", "send", "close", "result"} : fpc' = [fpc EXCEPT ![f] = l]
    BY <1>9 DEF FetcherStep, Take, Leave, GetDataToZip, CheckContext, Close, ReceiveStatus
  <2>3. Ended' = Ended
    BY <2>1, <2>2 DEF Ended, TypeOK
  <2>4. QED
    BY <2>1, <2>3 DEF Gathered, Late
<1>10. ASSUME NEW f \in Fetchers, ReceiveResult(f) PROVE Gathered'
  <2>1. f \notin Ended /\ Ended' = Ended \cup {f}
    BY <1>10 DEF ReceiveResult, Ended, TypeOK
  <2>2. Cardinality(Ended') = Cardinality(Ended) + 1
    BY <2>1, EndedCounted, FS_AddElement
  <2>3. QED
    BY <1>10, <2>1, <2>2 DEF ReceiveResult, Gathered, Late
<1>11. ASSUME Cancel \/ UNCHANGED vars PROVE Gathered'
  BY <1>1, <1>11 DEF Cancel, vars, Gathered, Late, fetching, bundle, result
<1>12. QED
  BY <1>2, <1>3, <1>4, <1>5, <1>6, <1>7, <1>8, <1>9, <1>10, <1>11 DEF Next, JobStep, Meet

-----------------------------------------------------------------------------
(* The requests. *)

\* What Working says of one fetcher.
Works(f) ==
  /\ f \in toStart <=> fpc[f] = "off"
  /\ fpc[f] = "off" => fzip[f] = {}
  /\ fpc[f] \notin {"get", "check", "send"} => freq[f] = {}
  /\ \A r, s \in freq[f] : r = s
  /\ fpc[f] \in {"check", "send"} =>
       \A r \in freq[f] : r \in Mandatory => r \in fzip[f] \/ ferr[f]
  /\ fpc[f] \in {"close", "result", "end"} => cancelled \/ queue = {}

\* A fetcher that does nothing keeps what is said of it.
LEMMA OthersWork ==
  ASSUME TypeOK, NEW f \in Fetchers, Works(f), UNCHANGED <<input, nodes>>,
         fpc'[f] = fpc[f], freq'[f] = freq[f], ferr'[f] = ferr[f], fzip'[f] = fzip[f],
         f \in toStart' <=> f \in toStart, cancelled => cancelled',
         queue' \subseteq queue \/ fpc[f] = "off"
  PROVE  Works(f)'
<1>1. Mandatory' = Mandatory
  BY SameRequests
<1>2. fpc[f] \in {"close", "result", "end"} => cancelled' \/ queue' = {}
  <2>1. fpc[f] \in {"close", "result", "end"} => cancelled \/ queue = {}
    BY DEF Works
  <2>2. fpc[f] = "off" => fpc[f] \notin {"close", "result", "end"}
    OBVIOUS
  <2>3. QED
    BY <2>1, <2>2, Zenon
<1>3. QED
  BY <1>1, <1>2, Zenon DEF Works

\* A request that is reported as fetched was stored, or need not be there.
LEMMA StoredOrReported ==
  ASSUME TypeOK, NEW f \in Fetchers, Works(f), GetDataToZip(f),
         NEW r \in freq[f], r \in Mandatory
  PROVE  r \in fzip'[f] \/ ferr'[f]
<1>1. PICK outcome \in Outcomes :
        /\ fzip' = [fzip EXCEPT ![f] = IF outcome = "stored" THEN @ \cup freq[f] ELSE @]
        /\ ferr' = [ferr EXCEPT ![f] = Reports(f, outcome)]
  BY DEF GetDataToZip
<1>2. outcome \in {"not got", "not stored", "stored"}
  BY DEF Outcomes
<1>3. freq[f] \subseteq Mandatory
  BY DEF Works
<1>4. CASE outcome = "stored"
  BY <1>1, <1>4 DEF TypeOK
<1>5. CASE outcome # "stored"
  <2>1. Reports(f, outcome)
    BY <1>2, <1>3, <1>5 DEF Reports
  <2>2. ferr'[f] = Reports(f, outcome)
    BY <1>1, Zenon DEF TypeOK
  <2>3. QED
    BY <2>1, <2>2
<1>6. QED
  BY <1>4, <1>5

LEMMA WorkingStep == TypeOK /\ Staged /\ Working /\ [Next]_vars => Working'
<1> SUFFICES ASSUME TypeOK, Staged, Working, [Next]_vars, NEW f \in Fetchers PROVE Works(f)'
  BY DEF Working, Works
<1>0. Works(f) /\ UNCHANGED Fetchers
  BY DEF Working, Works
<1>1. ASSUME UNCHANGED <<input, nodes, toStart, fetching>>, cancelled => cancelled' PROVE Works(f)'
  BY <1>0, <1>1, OthersWork DEF fetching, bundle
<1>2. ASSUME NEW ok \in BOOLEAN, FindNodes(ok) PROVE Works(f)'
  <2>1. jpc = "find" /\ fpc[f] = "off" /\ freq[f] = {} /\ f \in toStart /\ fzip[f] = {}
    BY <1>0, <1>2 DEF FindNodes, Staged, Early, Works
  <2>2. fpc' = fpc /\ freq' = freq /\ toStart' = toStart /\ fzip' = fzip
    BY <1>2 DEF FindNodes, fetching, bundle
  <2>3. QED
    BY <2>1, <2>2 DEF Works
<1>3. ASSUME NEW ok \in BOOLEAN, NEW closed \in BOOLEAN,
             CreateZip(ok) \/ FlushReports(ok, closed)
      PROVE  Works(f)'
  BY <1>1, <1>3 DEF CreateZip, FlushReports
<1>4. ASSUME NEW i \in DOMAIN nodes, ListNode(i) PROVE Works(f)'
  BY <1>1, <1>4 DEF ListNode
<1>5. ASSUME NEW g \in Fetchers, NEW ok \in BOOLEAN, StartFetcher(g, ok) PROVE Works(f)'
  <2>1. CASE ok /\ f = g
    <3>1. /\ f \notin toStart' /\ fpc'[f] = "select" /\ freq'[f] = freq[f]
          /\ freq[f] = {}
      BY <1>0, <1>5, <2>1 DEF StartFetcher, TypeOK, Works
    <3>2. QED
      BY <3>1 DEF Works
  <2>2. CASE ~ok \/ f # g
    <3>1. /\ UNCHANGED <<input, nodes, queue, freq, ferr, fzip, cancelled>>
          /\ fpc'[f] = fpc[f] /\ (f \in toStart' <=> f \in toStart)
      BY <1>5, <2>2 DEF StartFetcher, TypeOK
    <3>2. QED
      BY <1>0, <3>1, OthersWork
  <2>3. QED
    BY <2>1, <2>2
<1>6. ASSUME NEW g \in Fetchers, NEW ok \in BOOLEAN, NEW removed \in BOOLEAN,
             AppendToZip(g, ok, removed)
      PROVE  Works(f)'
  BY <1>1, <1>6 DEF AppendToZip
<1>7. ASSUME EnqueueAll PROVE Works(f)'
  <2>1. fpc[f] = "off"
    BY <1>0, <1>7 DEF EnqueueAll, Staged, Early, Works
  <2>2. QED
    BY <1>0, <1>7, <2>1, OthersWork DEF EnqueueAll
<1>8. ASSUME StartWaiting \/ StopWaiting \/ Conclude PROVE Works(f)'
  BY <1>1, <1>8 DEF StartWaiting, StopWaiting, Conclude
<1>9. ASSUME NEW g \in Fetchers, FetcherStep(g) \/ Meet(g), g # f PROVE Works(f)'
  <2>1. /\ UNCHANGED <<input, nodes, toStart, cancelled>> /\ queue' \subseteq queue
    BY <1>9, FetchersWork
  <2>2. fpc'[f] = fpc[f] /\ freq'[f] = freq[f] /\ fzip'[f] = fzip[f]
    BY <1>9 DEF FetcherStep, Meet, Take, Leave, GetDataToZip, CheckContext, Close, ReceiveStatus,
                ReceiveResult, Forget, TypeOK
  <2>3. ferr'[f] = ferr[f]
    <3>1. ferr' = ferr \/ \E b : ferr' = [ferr EXCEPT ![g] = b]
      BY <1>9, Zenon DEF FetcherStep, Meet, Take, Leave, GetDataToZip, CheckContext, Close, ReceiveStatus,
                  ReceiveResult, Forget
    <3>2. QED
      BY <1>9, <3>1, Zenon DEF TypeOK
  <2>4. QED
    BY <1>0, <2>1, <2>2, <2>3, OthersWork
<1>10. ASSUME FetcherStep(f) \/ Meet(f) PROVE Works(f)'
  <2>0. /\ UNCHANGED <<input, nodes, toStart, cancelled>>
        /\ fpc[f] # "off" /\ f \notin toStart' /\ Mandatory' = Mandatory
    BY <1>0, <1>10, FetchersWork, SameRequests DEF Works
  <2>1. CASE Take(f)
    <3>1. fpc'[f] = "get" /\ \E r : freq'[f] = {r}
      BY <2>1 DEF Take, TypeOK
    <3>2. QED
      BY <2>0, <3>1 DEF Works
  <2>2. CASE Leave(f)
    <3>1. /\ fpc'[f] = "close" /\ freq'[f] = {} /\ queue' = queue
          /\ cancelled \/ queue = {}
      BY <1>0, <2>2 DEF Leave, TypeOK, Works
    <3>2. cancelled' \/ queue' = {}
      BY <2>0, <3>1, Zenon
    <3>3. QED
      BY <2>0, <3>1, <3>2 DEF Works
  <2>3. CASE GetDataToZip(f)
    <3>1. fpc'[f] = "check" /\ freq'[f] = freq[f]
      BY <2>3 DEF GetDataToZip, TypeOK
    <3>2. \A r, s \in freq[f] : r = s
      BY <1>0 DEF Works
    <3>3. \A r \in freq[f] : r \in Mandatory => r \in fzip'[f] \/ ferr'[f]
      BY <1>0, <2>3, StoredOrReported
    <3>4. QED
      BY <2>0, <3>1, <3>2, <3>3 DEF Works
  <2>4. CASE CheckContext(f) /\ cancelled
    <3>1. fpc'[f] = "close" /\ freq'[f] = {}
      BY <2>4 DEF CheckContext, Forget, TypeOK
    <3>2. cancelled'
      BY <2>0, <2>4, Zenon
    <3>3. QED
      BY <2>0, <3>1, <3>2 DEF Works
  <2>5. CASE CheckContext(f) /\ ~cancelled
    <3>1. fpc[f] = "check" /\ fpc'[f] = "send" /\ freq'[f] = freq[f] /\ fzip' = fzip
      BY <2>5 DEF CheckContext, TypeOK
    <3>2. ferr' = ferr
      BY <2>5, Zenon DEF CheckContext
    <3>3. \A r \in freq[f] : r \in Mandatory => r \in fzip[f] \/ ferr[f]
      BY <1>0, <3>1 DEF Works
    <3>4. \A r \in freq'[f] : r \in Mandatory => r \in fzip'[f] \/ ferr'[f]
      BY <3>1, <3>2, <3>3, Zenon
    <3>5. \A r, s \in freq'[f] : r = s
      BY <1>0, <3>1 DEF Works
    <3>6. QED
      BY <2>0, <3>1, <3>4, <3>5 DEF Works
  <2>6. ASSUME NEW err \in BOOLEAN, Close(f, err) PROVE Works(f)'
    <3>1. /\ fpc'[f] = "result" /\ freq'[f] = {} /\ queue' = queue
          /\ cancelled \/ queue = {}
      BY <1>0, <2>6 DEF Close, TypeOK, Works
    <3>2. cancelled' \/ queue' = {}
      BY <2>0, <3>1, Zenon
    <3>3. QED
      BY <2>0, <3>1, <3>2 DEF Works
  <2>7. CASE ReceiveStatus(f)
    <3>1. fpc'[f] = "select" /\ freq'[f] = {}
      BY <2>7 DEF ReceiveStatus, Forget, TypeOK
    <3>2. QED
      BY <2>0, <3>1 DEF Works
  <2>8. CASE ReceiveResult(f)
    <3>1. /\ fpc'[f] = "end" /\ freq'[f] = {} /\ queue' = queue
          /\ cancelled \/ queue = {}
      BY <1>0, <2>8 DEF ReceiveResult, Forget, TypeOK, Works
    <3>2. cancelled' \/ queue' = {}
      BY <2>0, <3>1, Zenon
    <3>3. QED
      BY <2>0, <3>1, <3>2 DEF Works
  <2>9. QED
    BY <1>10, <2>1, <2>2, <2>3, <2>4, <2>5, <2>6, <2>7, <2>8 DEF FetcherStep, Meet
<1>11. ASSUME Cancel PROVE Works(f)'
  <2>1. cancelled'
    BY <1>11, Zenon DEF Cancel
  <2>2. QED
    BY <1>1, <1>11, <2>1 DEF Cancel
<1>12. ASSUME UNCHANGED vars PROVE Works(f)'
  BY <1>1, <1>12 DEF vars
<1>13. QED
  BY <1>2, <1>3, <1>4, <1>5, <1>6, <1>7, <1>8, <1>9, <1>10, <1>11, <1>12 DEF Next, JobStep

\* The parts of Accounted, one for each time at which a request could be forgotten.
Listing ==
  \A r \in Requests :
    r \in requested \/ r[1] \in toList \/ About("node", r[1]) \in errors \/ cancelled
Fetching ==
  ~Early /\ ~cancelled =>
    \A r \in requested : r \in Mandatory =>
      r \in queue \/ AtHand(r) \/ Fetched(r) \/ About("get", r) \in errors
Appending == Late => \A r \in Mandatory : Excused(r) \/ Delivered(r)
Succeeding == status = "success" => Late /\ \A r \in Mandatory : Fetched(r)

\* No request is left out when the endpoints of the nodes are listed.
LEMMA ListingStep == TypeOK /\ Staged /\ Listing /\ [Next]_vars => Listing'
<1> SUFFICES ASSUME TypeOK, Staged, Listing, [Next]_vars PROVE Listing'
  OBVIOUS
<1>1. ASSUME NEW ok \in BOOLEAN, FindNodes(ok) PROVE Listing'
  <2>1. \A r \in Requests' : r[1] \in toList'
    BY <1>1 DEF FindNodes, Requests
  <2>2. QED
    BY <2>1 DEF Listing
<1>2. ASSUME UNCHANGED <<input, nodes, requested, toList>>, cancelled => cancelled',
             errors \subseteq errors'
      PROVE  Listing'
  <2>1. Requests' = Requests
    BY <1>2, SameRequests
  <2>2. \A r \in Requests :
          r \in requested' \/ r[1] \in toList' \/ About("node", r[1]) \in errors' \/ cancelled'
    <3>1. ASSUME NEW r \in Requests, cancelled PROVE cancelled'
      BY <1>2, <3>1
    <3>2. ASSUME NEW r \in Requests, ~cancelled
          PROVE  r \in requested' \/ r[1] \in toList' \/ About("node", r[1]) \in errors'
      BY <1>2, <3>2 DEF Listing
    <3>3. QED
      BY <3>1, <3>2
  <2>3. \A x, y : About(x, y)' = About(x, y)
    BY DEF About
  <2>4. QED
    BY <2>1, <2>2, <2>3 DEF Listing
<1>3. ASSUME NEW ok \in BOOLEAN, NEW closed \in BOOLEAN,
             CreateZip(ok) \/ FlushReports(ok, closed)
      PROVE  Listing'
  BY <1>2, <1>3 DEF CreateZip, FlushReports
<1>4. ASSUME NEW i \in DOMAIN nodes, ListNode(i) PROVE Listing'
  <2>1. Requests' = Requests /\ cancelled' = cancelled
    BY <1>4, SameRequests DEF ListNode
  <2>2. PICK listed \in SUBSET Of(i) :
          /\ requested' = requested \cup listed
          /\ \/ /\ listed = Of(i)
                /\ toList' = toList \ {i}
                /\ UNCHANGED errors
             \/ /\ errors' = errors \cup {About("node", i)}
                /\ toList' = toList \ {i}
             \/ /\ cancelled
                /\ toList' = {}
                /\ UNCHANGED errors
    BY <1>4 DEF ListNode
  <2>3. ASSUME NEW r \in Requests, ~cancelled
        PROVE  r \in requested' \/ r[1] \in toList' \/ About("node", r[1]) \in errors'
    BY <2>2, <2>3 DEF Listing, Of
  <2>4. QED
    BY <2>1, <2>3 DEF Listing
<1>5. ASSUME NEW f \in Fetchers, NEW ok \in BOOLEAN, StartFetcher(f, ok) PROVE Listing'
  BY <1>2, <1>5 DEF StartFetcher
<1>6. ASSUME NEW f \in Fetchers, NEW ok \in BOOLEAN, NEW removed \in BOOLEAN,
             AppendToZip(f, ok, removed)
      PROVE  Listing'
  BY <1>2, <1>6 DEF AppendToZip
<1>7. ASSUME EnqueueAll \/ StartWaiting \/ StopWaiting \/ Conclude PROVE Listing'
  BY <1>2, <1>7 DEF EnqueueAll, StartWaiting, StopWaiting, Conclude, result
<1>8. ASSUME NEW f \in Fetchers, FetcherStep(f) \/ Meet(f) PROVE Listing'
  BY <1>2, <1>8, FetchersWork
<1>9. ASSUME Cancel PROVE Listing'
  <2>1. cancelled'
    BY <1>9, Zenon DEF Cancel
  <2>2. QED
    BY <1>2, <1>9, <2>1 DEF Cancel, result
<1>10. ASSUME UNCHANGED vars PROVE Listing'
  BY <1>2, <1>10 DEF vars, result
<1>11. QED
  BY <1>1, <1>3, <1>4, <1>5, <1>6, <1>7, <1>8, <1>9, <1>10 DEF Next, JobStep

\* No request is left behind by the fetchers of a job that is not cancelled.
LEMMA FetchingStep == TypeOK /\ Staged /\ Working /\ Fetching /\ [Next]_vars => Fetching'
<1> SUFFICES ASSUME TypeOK, Staged, Working, Fetching, [Next]_vars, ~Early', ~cancelled',
                    NEW r \in requested', r \in Mandatory'
             PROVE  r \in queue' \/ AtHand(r)' \/ Fetched(r)' \/ About("get", r) \in errors'
  BY DEF Fetching, About
<1> DEFINE Safe == r \in queue \/ AtHand(r) \/ Fetched(r) \/ About("get", r) \in errors
<1>1. ASSUME UNCHANGED <<input, nodes, requested, queue, freq, fzip, cancelled>>,
             errors \subseteq errors', ~Early
      PROVE  Safe'
  <2>1. r \in Mandatory /\ r \in requested /\ ~cancelled
    BY <1>1, SameRequests
  <2>2. Safe
    BY <1>1, <2>1 DEF Fetching
  <2>3. QED
    BY <1>1, <2>2 DEF AtHand, Fetched, About
<1>2. ASSUME NEW ok \in BOOLEAN, FindNodes(ok) \/ CreateZip(ok) PROVE FALSE
  BY <1>2 DEF FindNodes, CreateZip, Staged
<1>3. ASSUME NEW ok \in BOOLEAN, NEW closed \in BOOLEAN, FlushReports(ok, closed) PROVE Safe'
  BY <1>1, <1>3 DEF FlushReports, fetching, bundle, Early
<1>4. ASSUME NEW i \in DOMAIN nodes, ListNode(i) PROVE FALSE
  BY <1>4 DEF ListNode, Early
<1>5. ASSUME NEW f \in Fetchers, NEW ok \in BOOLEAN, StartFetcher(f, ok) PROVE Safe'
  BY <1>1, <1>5 DEF StartFetcher, Early
<1>6. ASSUME NEW f \in Fetchers, NEW ok \in BOOLEAN, NEW removed \in BOOLEAN,
             AppendToZip(f, ok, removed)
      PROVE  Safe'
  BY <1>1, <1>6 DEF AppendToZip, fetching, bundle, Early
<1>7. ASSUME EnqueueAll PROVE Safe'
  BY <1>7 DEF EnqueueAll
<1>8. ASSUME StartWaiting \/ StopWaiting \/ Conclude PROVE Safe'
  BY <1>1, <1>8 DEF StartWaiting, StopWaiting, Conclude, fetching, bundle, result, Early
<1>9. ASSUME NEW f \in Fetchers, FetcherStep(f) \/ Meet(f) PROVE Safe'
  <2>1. /\ UNCHANGED <<input, nodes, requested, jpc, cancelled>>
        /\ Mandatory' = Mandatory /\ errors \subseteq errors' /\ Works(f) /\ ~Early
    BY <1>9, FetchersWork, SameRequests DEF Early, Working, Works
  <2>2. r \in Mandatory /\ r \in requested /\ ~cancelled
    BY <2>1
  <2>3. Safe
    BY <2>1, <2>2 DEF Fetching
  <2>4. ASSUME fzip' = fzip, queue' = queue,
               freq' = freq \/ (freq' = [freq EXCEPT ![f] = {}] /\ r \notin freq[f])
        PROVE  Safe'
    BY <2>1, <2>3, <2>4 DEF AtHand, Fetched, About, TypeOK
  <2>5. CASE Take(f)
    <3>1. PICK s \in queue : queue' = queue \ {s} /\ freq' = [freq EXCEPT ![f] = {s}]
      BY <2>5 DEF Take
    <3>2. freq[f] = {} /\ fzip' = fzip
      BY <2>1, <2>5 DEF Take, Works
    <3>3. QED
      BY <2>1, <2>3, <3>1, <3>2 DEF AtHand, Fetched, About, TypeOK
  <2>6. CASE Leave(f)
    BY <2>4, <2>6 DEF Leave
  <2>7. CASE GetDataToZip(f)
    <3>1. queue' = queue /\ freq' = freq
      BY <2>7 DEF GetDataToZip
    <3>2. \A g \in Fetchers : fzip[g] \subseteq fzip'[g]
      BY <2>7 DEF GetDataToZip, TypeOK
    <3>3. QED
      BY <2>1, <2>3, <3>1, <3>2 DEF AtHand, Fetched, About
  <2>8. CASE CheckContext(f)
    <3>1. UNCHANGED <<freq, fzip, queue>>
      BY <2>2, <2>8 DEF CheckContext
    <3>2. QED
      BY <2>4, <3>1
  <2>9. ASSUME NEW err \in BOOLEAN, Close(f, err) PROVE Safe'
    BY <2>4, <2>9 DEF Close
  <2>10. CASE ReceiveStatus(f)
    <3>1. /\ fpc[f] = "send" /\ fzip' = fzip /\ queue' = queue
          /\ freq' = [freq EXCEPT ![f] = {}]
          /\ errors' = IF ferr[f] THEN errors \cup {About("get", s) : s \in freq[f]} ELSE errors
      BY <2>10 DEF ReceiveStatus, Forget
    <3>2. ASSUME r \in freq[f] PROVE Safe'
      <4>1. r \in fzip[f] \/ ferr[f]
        BY <2>1, <2>2, <3>1, <3>2 DEF Works
      <4>2. r \in fzip'[f] \/ About("get", r) \in errors'
        BY <3>1, <3>2, <4>1
      <4>3. QED
        BY <4>2 DEF Fetched, About
    <3>3. QED
      BY <2>4, <3>1, <3>2
  <2>11. CASE ReceiveResult(f)
    <3>1. fzip' = fzip /\ queue' = queue /\ freq' = [freq EXCEPT ![f] = {}] /\ freq[f] = {}
      BY <2>1, <2>11 DEF ReceiveResult, Forget, Works
    <3>2. QED
      BY <2>4, <3>1
  <2>12. QED
    BY <1>9, <2>5, <2>6, <2>7, <2>8, <2>9, <2>10, <2>11 DEF FetcherStep, Meet
<1>10. ASSUME Cancel PROVE FALSE
  BY <1>10 DEF Cancel
<1>11. ASSUME UNCHANGED vars PROVE Safe'
  BY <1>1, <1>11 DEF vars, fetching, bundle, result, Early
<1>12. QED
  BY <1>2, <1>3, <1>4, <1>5, <1>6, <1>7, <1>8, <1>9, <1>10, <1>11 DEF Next, JobStep

\* When the job concludes, a mandatory request was fetched or an error says why not.
LEMMA ConcludeExplains ==
  ASSUME TypeOK, Staged, Gathered, Working, Listing, Fetching, Conclude, NEW r \in Mandatory
  PROVE  /\ Excused(r)' \/ Fetched(r)
         /\ Ended = Fetchers /\ zips = Fetchers
<1>1. Ended = Fetchers /\ zips = Fetchers
  BY EndedCounted DEF Conclude, AllGathered, Gathered
<1>2. errors' = errors \cup Interrupted /\ jpc = "gather"
  BY DEF Conclude
<1>3. \A x, y : About(x, y)' = About(x, y)
  BY DEF About
<1>4. CASE cancelled
  <2>1. About("job", "cancelled") \in errors'
    BY <1>2, <1>4 DEF Interrupted
  <2>2. QED
    BY <1>1, <1>3, <2>1 DEF Excused
<1>5. CASE ~cancelled
  <2>1. r \in Requests
    BY DEF Mandatory
  <2>2. toList = {}
    BY <1>2 DEF Staged, Asking, Early
  <2>3. r \in requested \/ About("node", r[1]) \in errors
    BY <1>5, <2>1, <2>2 DEF Listing
  <2>4. ASSUME r \in requested PROVE Fetched(r) \/ About("get", r) \in errors
    <3>1. r \in queue \/ AtHand(r) \/ Fetched(r) \/ About("get", r) \in errors
      BY <1>2, <1>5, <2>4 DEF Fetching, Early
    <3>2. \A f \in Fetchers : fpc[f] = "end"
      BY <1>1 DEF Ended
    <3>3. ~AtHand(r)
      BY <3>2 DEF AtHand, Working
    <3>4. queue = {}
      BY <1>5, <3>2, FetchersAssumption DEF Working
    <3>5. QED
      BY <3>1, <3>3, <3>4
  <2>5. QED
    BY <1>1, <1>2, <1>3, <2>3, <2>4 DEF Excused
<1>6. QED
  BY <1>4, <1>5

\* Once all fetchers have ended none of them takes a step.
LEMMA LateIsQuiet ==
  ASSUME TypeOK, Gathered, Late, NEW f \in Fetchers
  PROVE  ~FetcherStep(f) /\ ~Meet(f)
<1>1. fpc[f] = "end"
  BY DEF Gathered, Ended
<1>2. QED
  BY <1>1, FetchersWork

\* What is said of a request once all fetchers have ended, and why it stays so.
LEMMA AppendingStep ==
  /\ TypeOK /\ Staged /\ Gathered /\ Working /\ Listing /\ Fetching /\ Appending
  /\ [Next]_vars
  => Appending'
<1> SUFFICES ASSUME TypeOK, Staged, Gathered, Working, Listing, Fetching, Appending,
                    [Next]_vars, Late', NEW r \in Mandatory'
             PROVE  Excused(r)' \/ Delivered(r)'
  BY DEF Appending
<1>0. \A x, y : About(x, y)' = About(x, y)
  BY DEF About
<1>1. ASSUME UNCHANGED <<input, nodes, fzip>>, Late, errors \subseteq errors',
             unclosed' \/ (~unclosed /\ archive \subseteq archive'), zips' = zips
      PROVE  Excused(r)' \/ Delivered(r)'
  <2>1. r \in Mandatory
    BY <1>1, SameRequests
  <2>2. Excused(r) \/ Delivered(r)
    BY <1>1, <2>1 DEF Appending
  <2>3. QED
    BY <1>0, <1>1, <2>2 DEF Excused, Delivered
<1>2. ASSUME NEW ok \in BOOLEAN, FindNodes(ok) \/ CreateZip(ok) PROVE FALSE
  BY <1>2, FetchersAssumption DEF FindNodes, CreateZip, Staged, Late, Early
<1>3. ASSUME NEW ok \in BOOLEAN, NEW closed \in BOOLEAN, FlushReports(ok, closed)
      PROVE  Excused(r)' \/ Delivered(r)'
  BY <1>1, <1>3 DEF FlushReports, fetching, Late, Staged
<1>4. ASSUME NEW i \in DOMAIN nodes, ListNode(i) PROVE FALSE
  BY <1>4 DEF ListNode, Late
<1>5. ASSUME NEW f \in Fetchers, NEW ok \in BOOLEAN, StartFetcher(f, ok) PROVE FALSE
  BY <1>5 DEF StartFetcher, Late
<1>6. ASSUME NEW f \in Fetchers, NEW ok \in BOOLEAN, NEW removed \in BOOLEAN,
             AppendToZip(f, ok, removed)
      PROVE  Excused(r)' \/ Delivered(r)'
  <2>1. /\ r \in Mandatory /\ Late /\ fzip' = fzip /\ zips' = zips \ {f}
        /\ errors \subseteq errors' /\ archive \subseteq archive' /\ unclosed' = unclosed
    BY <1>6, SameRequests DEF AppendToZip, Late, fetching
  <2>2. fzip[f] \subseteq archive' \/ About("append", f) \in errors'
    BY <1>6 DEF AppendToZip
  <2>3. Excused(r) \/ Delivered(r)
    BY <2>1 DEF Appending
  <2>4. CASE Excused(r)
    BY <1>0, <2>1, <2>4 DEF Excused
  <2>5. CASE Delivered(r)
    BY <1>0, <2>1, <2>2, <2>5 DEF Delivered
  <2>6. QED
    BY <2>3, <2>4, <2>5
<1>7. ASSUME EnqueueAll \/ StartWaiting \/ StopWaiting PROVE FALSE
  BY <1>7 DEF EnqueueAll, StartWaiting, StopWaiting, Late
<1>8. ASSUME Conclude PROVE Excused(r)' \/ Delivered(r)'
  <2>1. r \in Mandatory /\ fzip' = fzip /\ zips' = zips
    BY <1>8, SameRequests DEF Conclude, fetching, bundle
  <2>2. (Excused(r)' \/ Fetched(r)) /\ zips = Fetchers
    BY <1>8, <2>1, ConcludeExplains
  <2>3. QED
    BY <2>1, <2>2 DEF Fetched, Delivered
<1>9. ASSUME NEW f \in Fetchers, FetcherStep(f) \/ Meet(f) PROVE FALSE
  <2>1. Late
    BY <1>9, FetchersWork DEF Late
  <2>2. QED
    BY <1>9, <2>1, LateIsQuiet
<1>10. ASSUME Cancel \/ UNCHANGED vars PROVE Excused(r)' \/ Delivered(r)'
  BY <1>1, <1>10 DEF Cancel, vars, fetching, bundle, result, Late, TypeOK
<1>11. QED
  BY <1>2, <1>3, <1>4, <1>5, <1>6, <1>7, <1>8, <1>9, <1>10 DEF Next, JobStep

\* A job that concludes without an error has everything, and keeps it.
LEMMA SucceedingStep ==
  /\ TypeOK /\ Staged /\ Gathered /\ Working /\ Listing /\ Fetching /\ Succeeding
  /\ [Next]_vars
  => Succeeding'
<1> SUFFICES ASSUME TypeOK, Staged, Gathered, Working, Listing, Fetching, Succeeding,
                    [Next]_vars, status' = "success"
             PROVE  Late' /\ \A r \in Mandatory' : Fetched(r)'
  BY DEF Succeeding
<1>1. ASSUME UNCHANGED <<input, nodes, fzip, toStart, status>>,
             jpc' = jpc \/ jpc' = "end"
      PROVE  Late' /\ \A r \in Mandatory' : Fetched(r)'
  BY <1>1, SameRequests DEF Succeeding, Late, Fetched
<1>2. ASSUME NEW ok \in BOOLEAN, FindNodes(ok) \/ CreateZip(ok) PROVE FALSE
  <2>1. status = "success" /\ Early
    BY <1>2 DEF FindNodes, CreateZip, Early
  <2>2. QED
    BY <2>1 DEF Succeeding, Late, Early
<1>3. ASSUME NEW ok \in BOOLEAN, NEW closed \in BOOLEAN, FlushReports(ok, closed)
      PROVE  Late' /\ \A r \in Mandatory' : Fetched(r)'
  BY <1>1, <1>3 DEF FlushReports, fetching, bundle
<1>4. ASSUME NEW i \in DOMAIN nodes, ListNode(i) PROVE Late' /\ \A r \in Mandatory' : Fetched(r)'
  BY <1>1, <1>4 DEF ListNode, fetching, bundle
<1>5. ASSUME NEW f \in Fetchers, NEW ok \in BOOLEAN, StartFetcher(f, ok) PROVE FALSE
  BY <1>5 DEF StartFetcher, Succeeding, Late
<1>6. ASSUME NEW f \in Fetchers, NEW ok \in BOOLEAN, NEW removed \in BOOLEAN,
             AppendToZip(f, ok, removed)
      PROVE  Late' /\ \A r \in Mandatory' : Fetched(r)'
  BY <1>1, <1>6 DEF AppendToZip, fetching, bundle
<1>7. ASSUME EnqueueAll \/ StartWaiting \/ StopWaiting PROVE FALSE
  BY <1>7 DEF EnqueueAll, StartWaiting, StopWaiting, Succeeding, Late, result
<1>8. ASSUME Conclude PROVE Late' /\ \A r \in Mandatory' : Fetched(r)'
  <2>1. /\ jpc' = "append" /\ toStart' = toStart /\ toStart = {} /\ fzip' = fzip
        /\ errors' = {} /\ Mandatory' = Mandatory
    BY <1>8, SameRequests DEF Conclude, Staged, fetching, bundle
  <2>2. \A r \in Mandatory : ~Excused(r)'
    BY <2>1 DEF Excused
  <2>3. QED
    BY <1>8, <2>1, <2>2, ConcludeExplains DEF Late, Fetched
<1>9. ASSUME NEW f \in Fetchers, FetcherStep(f) \/ Meet(f) PROVE FALSE
  <2>1. Late
    BY <1>9, FetchersWork DEF Succeeding
  <2>2. QED
    BY <1>9, <2>1, LateIsQuiet
<1>10. ASSUME Cancel \/ UNCHANGED vars PROVE Late' /\ \A r \in Mandatory' : Fetched(r)'
  BY <1>1, <1>10 DEF Cancel, vars, fetching, bundle, result
<1>11. QED
  BY <1>2, <1>3, <1>4, <1>5, <1>6, <1>7, <1>8, <1>9, <1>10 DEF Next, JobStep

-----------------------------------------------------------------------------
(* What the nodes offer, and which of them are asked. *)

\* A set of numbers that has 0, and with a number the next one, has them all.
LEMMA AllNumbers ==
  ASSUME NEW S \in SUBSET Nat, 0 \in S, \A n \in S : n + 1 \in S
  PROVE  S = Nat
<1> SUFFICES ASSUME S # Nat PROVE FALSE
  OBVIOUS
<1> DEFINE T == Nat \ S
<1>1. T # {} /\ T \subseteq Nat
  OBVIOUS
<1>2. PICK x \in T : \A y \in T : ~(<<y, x>> \in OpToRel(<, Nat))
  <2> HIDE DEF T
  <2>1. IsWellFoundedOn(OpToRel(<, Nat), Nat)
    BY NatLessThanWellFounded
  <2>2. QED
    BY <1>1, <2>1, WFMin, Zenon
<1>3. \A y \in T : ~(y < x)
  BY <1>2 DEF OpToRel
<1>4. QED
  BY <1>3

\* The lists of the files, one after the other, are a list.
LEMMA Flattened ==
  ASSUME NEW P, NEW s \in Seq(Seq(P))
  PROVE  FlattenSeq(s) \in Seq(P)
<1>0. Len(s) \in Nat /\ \A i \in 1..Len(s) : s[i] \in Seq(P)
  OBVIOUS
<1>1. CASE Len(s) = 0
  <2>1. s = <<>>
    BY <1>1
  <2>2. FlattenSeq(s) = s
    BY <1>1, Zenon DEF FlattenSeq
  <2>3. <<>> \in Seq(P)
    OBVIOUS
  <2>4. QED
    BY <2>1, <2>2, <2>3, Zenon
<1>2. CASE Len(s) # 0
  <2> DEFINE Step(g, i) == IF i = 1 THEN s[i] ELSE g[i - 1] \o s[i]
             Solves(g, n) == \A i \in 1..n : g[i] = Step(g, i)
             Long == {n \in Nat : n <= Len(s) => \E g \in [1..n -> Seq(P)] : Solves(g, n)}
  <2>1. 0 \in Long
    <3>1. [i \in 1..0 |-> <<>>] \in [1..0 -> Seq(P)]
      OBVIOUS
    <3>2. Solves([i \in 1..0 |-> <<>>], 0)
      OBVIOUS
    <3> HIDE DEF Solves
    <3>3. QED
      BY <3>1, <3>2
  <2>2. ASSUME NEW n \in Long PROVE n + 1 \in Long
    <3> SUFFICES ASSUME n + 1 <= Len(s)
                 PROVE  \E g \in [1..(n + 1) -> Seq(P)] : Solves(g, n + 1)
      <4> HIDE DEF Solves
      <4>1. QED
        OBVIOUS
    <3>1. PICK g \in [1..n -> Seq(P)] : Solves(g, n)
      <4> HIDE DEF Solves
      <4>1. n <= Len(s)
        BY <1>0
      <4>2. QED
        BY <4>1
    <3> DEFINE h == [i \in 1..(n + 1) |-> IF i = n + 1 THEN Step(g, n + 1) ELSE g[i]]
    <3>2. Step(g, n + 1) \in Seq(P)
      <4>1. CASE n = 0
        BY <1>0, <4>1
      <4>2. CASE n # 0
        <5>1. g[n] \in Seq(P) /\ s[n + 1] \in Seq(P)
          BY <1>0, <4>2
        <5>2. g[n] \o s[n + 1] \in Seq(P)
          BY <5>1, ConcatProperties
        <5>3. QED
          BY <4>2, <5>2
      <4>3. QED
        BY <4>1, <4>2
    <3>3. h \in [1..(n + 1) -> Seq(P)]
      <4> HIDE DEF Step
      <4>1. QED
        BY <3>1, <3>2
    <3>4. Solves(h, n + 1)
      <4> SUFFICES ASSUME NEW i \in 1..(n + 1) PROVE h[i] = Step(h, i)
        OBVIOUS
      <4>1. i # 1 => h[i - 1] = g[i - 1]
        OBVIOUS
      <4>2. i \in 1..n => g[i] = Step(g, i)
        BY <3>1
      <4>3. h[i] = Step(g, i)
        <5> HIDE DEF Step
        <5>1. i = n + 1 \/ i \in 1..n
          OBVIOUS
        <5>2. QED
          BY <4>2, <5>1
      <4> HIDE DEF h
      <4>4. QED
        BY <4>1, <4>3
    <3> HIDE DEF h, Solves
    <3>5. QED
      BY <3>3, <3>4
  <2>3. Long = Nat
    <3> HIDE DEF Long
    <3>1. Long \in SUBSET Nat
      BY DEF Long
    <3>2. QED
      BY <2>1, <2>2, <3>1, AllNumbers
  <2>4. PICK g \in [1..Len(s) -> Seq(P)] : Solves(g, Len(s))
    <3> HIDE DEF Solves
    <3>1. Len(s) \in Long /\ Len(s) <= Len(s)
      BY <1>0, <2>3
    <3>2. QED
      BY <3>1
  <2>5. g = [i \in 1..Len(s) |-> IF i = 1 THEN s[i] ELSE g[i - 1] \o s[i]]
    BY <2>4
  <2> DEFINE flatten == CHOOSE f : f = [i \in 1..Len(s) |-> IF i = 1 THEN s[i] ELSE f[i - 1] \o s[i]]
  <2>6. FlattenSeq(s) = flatten[Len(s)]
    BY <1>2, Zenon DEF FlattenSeq
  <2>7. flatten = [i \in 1..Len(s) |-> IF i = 1 THEN s[i] ELSE flatten[i - 1] \o s[i]]
    BY <2>5, Zenon
  <2> HIDE DEF flatten
  <2> DEFINE Good == {n \in Nat : n \in 1..Len(s) => flatten[n] \in Seq(P)}
  <2>8. 0 \in Good
    OBVIOUS
  <2>9. ASSUME NEW n \in Good PROVE n + 1 \in Good
    <3> SUFFICES ASSUME n + 1 \in 1..Len(s) PROVE flatten[n + 1] \in Seq(P)
      OBVIOUS
    <3>1. flatten[n + 1] = IF n + 1 = 1 THEN s[n + 1] ELSE flatten[n] \o s[n + 1]
      <4>1. \A i \in 1..Len(s) : flatten[i] = IF i = 1 THEN s[i] ELSE flatten[i - 1] \o s[i]
        BY <2>7, Zenon
      <4>2. flatten[n + 1] = IF n + 1 = 1 THEN s[n + 1] ELSE flatten[(n + 1) - 1] \o s[n + 1]
        BY <4>1, Zenon
      <4>3. (n + 1) - 1 = n
        OBVIOUS
      <4>4. QED
        BY <4>2, <4>3, Zenon
    <3>2. CASE n = 0
      BY <1>0, <3>1, <3>2
    <3>3. CASE n # 0
      <4>1. flatten[n] \in Seq(P) /\ s[n + 1] \in Seq(P)
        BY <1>0, <3>3
      <4>2. flatten[n] \o s[n + 1] \in Seq(P)
        BY <4>1, ConcatProperties
      <4>3. QED
        BY <3>1, <3>3, <4>2
    <3>4. QED
      BY <3>2, <3>3
  <2>10. Good = Nat
    <3> HIDE DEF Good
    <3>1. Good \in SUBSET Nat
      BY DEF Good
    <3>2. QED
      BY <2>8, <2>9, <3>1, AllNumbers
  <2>11. Len(s) \in Good /\ Len(s) \in 1..Len(s)
    BY <1>0, <1>2, <2>10
  <2>12. flatten[Len(s)] \in Seq(P)
    BY <2>11
  <2>13. QED
    BY <2>6, <2>12, Zenon
<1>3. QED
  BY <1>1, <1>2

\* A request of the operator matches the nodes it stands for.
LEMMA AskedAreMatched ==
  ASSUME NEW wanted, NEW n \in Nodes, NEW j \in DOMAIN wanted,
         \/ wanted[j] \in {All, n}
         \/ wanted[j] = Masters /\ Role(n) = "master"
         \/ wanted[j] = Agents /\ Role(n) = "agent"
  PROVE  \E i \in DOMAIN matchRequestedNodes(wanted, MasterNodes, AgentNodes) :
           matchRequestedNodes(wanted, MasterNodes, AgentNodes)[i] = n
<1> DEFINE all == MasterNodes \o AgentNodes
           matched == matchRequestedNodes(wanted, MasterNodes, AgentNodes)
           places == IF \E i \in DOMAIN wanted : wanted[i] = All
                       THEN {0} \X DOMAIN all
                       ELSE {x \in (DOMAIN wanted) \X (DOMAIN all) :
                               Match(wanted[x[1]], MasterNodes, AgentNodes, x[2])}
<1>1. matched = [x \in places |-> all[x[2]]]
  BY DEF matchRequestedNodes
<1>2. /\ Len(MasterNodes) \in Nat /\ Len(AgentNodes) \in Nat
      /\ DOMAIN all = 1..(Len(MasterNodes) + Len(AgentNodes))
      /\ \A k \in DOMAIN all : k <= Len(MasterNodes) => all[k] = MasterNodes[k]
  BY NodesAssumption
<1>3. PICK k \in DOMAIN all : /\ all[k] = n
                              /\ Role(n) = "master" => k <= Len(MasterNodes)
                              /\ Role(n) = "agent" => k > Len(MasterNodes)
  <2>1. CASE n \in Range(MasterNodes)
    <3>1. PICK k \in DOMAIN MasterNodes : MasterNodes[k] = n
      BY <2>1 DEF Range
    <3>2. k \in DOMAIN all /\ all[k] = n /\ k <= Len(MasterNodes)
      BY <1>2, <3>1, NodesAssumption
    <3>3. Role(n) = "master"
      BY <2>1 DEF Role
    <3>4. QED
      BY <3>2, <3>3
  <2>2. CASE n \notin Range(MasterNodes)
    <3>1. PICK k \in DOMAIN all : all[k] = n
      BY DEF Nodes, Range
    <3>2. ASSUME k <= Len(MasterNodes) PROVE FALSE
      <4>1. k \in DOMAIN MasterNodes /\ MasterNodes[k] = n
        BY <1>2, <3>1, <3>2, NodesAssumption
      <4>2. QED
        BY <2>2, <4>1 DEF Range
    <3>3. k > Len(MasterNodes)
      BY <1>2, <3>2
    <3>4. Role(n) = "agent"
      BY <2>2 DEF Role
    <3>5. QED
      BY <3>1, <3>3, <3>4
  <2>3. QED
    BY <2>1, <2>2
<1> HIDE DEF all
<1>4. CASE \E i \in DOMAIN wanted : wanted[i] = All
  <2>1. <<0, k>> \in places
    BY <1>4
  <2>2. QED
    BY <1>1, <1>3, <2>1
<1>5. CASE ~ \E i \in DOMAIN wanted : wanted[i] = All
  <2>1. Match(wanted[j], MasterNodes, AgentNodes, k)
    BY <1>3, <1>5 DEF Match, all
  <2>2. <<j, k>> \in places
    BY <1>5, <2>1
  <2>3. QED
    BY <1>1, <1>3, <2>2
<1>6. QED
  BY <1>4, <1>5

\* The providers of a configuration.
LEMMA ProvidersLoaded ==
  ASSUME NEW cfg \in Configurations
  PROVE  /\ loadUnits(cfg) \in Seq(Providers)
         /\ loadExternalProviders(cfg) \in Seq(Providers)
         /\ HealthReport.kind = "http"
         /\ \A i \in DOMAIN loadUnits(cfg) : loadUnits(cfg)[i].roles = {}
<1>1. cfg.units \in Seq(STRING) /\ cfg.systemd \in Seq(STRING) /\ cfg.external \in Seq(Seq(Providers))
  BY DEF Configurations
<1>2. loadExternalProviders(cfg) \in Seq(Providers)
  BY <1>1, Flattened DEF loadExternalProviders
<1>3. HealthReport.kind = "http"
  BY DEF HealthReport, Provider
<1>4. \A u \in STRING : UnitProvider(u) \in Providers /\ UnitProvider(u).roles = {}
  BY DEF UnitProvider, Provider, Providers
<1> DEFINE units == cfg.units \o cfg.systemd
<1>5. units \in Seq(STRING)
  BY <1>1, ConcatProperties
<1>6. loadUnits(cfg) = [i \in DOMAIN units |-> UnitProvider(units[i])]
  BY Zenon DEF loadUnits
<1> HIDE DEF units
<1>7. DOMAIN units = 1..Len(units) /\ Len(units) \in Nat /\ \A i \in DOMAIN units : units[i] \in STRING
  BY <1>5
<1>8. \A i \in 1..Len(units) : UnitProvider(units[i]) \in Providers /\ UnitProvider(units[i]).roles = {}
  BY <1>4, <1>7
<1>9. loadUnits(cfg) \in [1..Len(units) -> Providers]
  BY <1>6, <1>7, <1>8
<1>10. loadUnits(cfg) \in Seq(Providers)
  BY <1>7, <1>9
<1>11. \A i \in DOMAIN loadUnits(cfg) : loadUnits(cfg)[i].roles = {}
  BY <1>6, <1>7, <1>8
<1>12. QED
  BY <1>2, <1>3, <1>10, <1>11

\* What a local bundle collects is among them.
LEMMA CollectorsLoaded ==
  ASSUME NEW cfg \in Configurations, NEW role, NEW p \in LoadCollectors(cfg, role)
  PROVE  /\ p.kind \in {"http", "file", "cmd"} /\ roleMatched(role, p.roles)
         /\ \E i \in DOMAIN loadProviders(cfg) : loadProviders(cfg)[i] = p
<1> DEFINE u == loadUnits(cfg)
           e == loadExternalProviders(cfg)
<1>0. u \in Seq(Providers) /\ e \in Seq(Providers)
  BY ProvidersLoaded
<1>1. /\ HealthReport.kind = "http"
      /\ \A i \in DOMAIN u : u[i].kind \in {"http", "file", "cmd"} /\ u[i].roles = {}
      /\ \A i \in DOMAIN e : e[i].kind \in {"http", "file", "cmd"}
  <2>1. \A q \in Providers : q.kind \in {"http", "file", "cmd"}
    BY DEF Providers
  <2>2. \A s \in Seq(Providers) : \A i \in DOMAIN s : s[i] \in Providers
    OBVIOUS
  <2>3. QED
    BY <1>0, <2>1, <2>2, ProvidersLoaded
<1>2. loadProviders(cfg) = Append(u, HealthReport) \o e
  BY DEF loadProviders, loadInternalProviders
<1>3. p \in Range(u) \/ (p \in Range(e) \cup {HealthReport} /\ roleMatched(role, p.roles))
  BY DEF LoadCollectors
<1> HIDE DEF u, e
<1> DEFINE all == Append(u, HealthReport) \o e
<1>4. /\ Len(u) \in Nat /\ Len(e) \in Nat /\ DOMAIN u = 1..Len(u) /\ DOMAIN e = 1..Len(e)
      /\ DOMAIN all = 1..(Len(u) + 1 + Len(e))
      /\ \A i \in 1..Len(u) : all[i] = u[i]
      /\ all[Len(u) + 1] = HealthReport
      /\ \A i \in 1..Len(e) : all[Len(u) + 1 + i] = e[i]
  <2> DEFINE S == Providers \cup {HealthReport}
             v == Append(u, HealthReport)
  <2>1. u \in Seq(S) /\ e \in Seq(S) /\ HealthReport \in S
    BY <1>0
  <2> HIDE DEF S
  <2>2. /\ v \in Seq(S) /\ Len(v) = Len(u) + 1 /\ Len(u) \in Nat /\ DOMAIN u = 1..Len(u)
        /\ \A i \in 1..Len(u) : v[i] = u[i]
        /\ v[Len(u) + 1] = HealthReport
    BY <2>1
  <2> HIDE DEF v
  <2>3. /\ DOMAIN (v \o e) = 1..(Len(v) + Len(e)) /\ Len(e) \in Nat /\ DOMAIN e = 1..Len(e)
        /\ \A i \in 1..Len(v) : (v \o e)[i] = v[i]
        /\ \A i \in 1..Len(e) : (v \o e)[Len(v) + i] = e[i]
    BY <2>1, <2>2, SMTT(30)
  <2> DEFINE w == v \o e
  <2> HIDE DEF w
  <2>4. /\ DOMAIN w = 1..(Len(u) + 1 + Len(e))
        /\ \A i \in 1..Len(u) : w[i] = u[i]
        /\ w[Len(u) + 1] = HealthReport
        /\ \A i \in 1..Len(e) : w[Len(u) + 1 + i] = e[i]
    BY <2>2, <2>3 DEF w
  <2>5. QED
    BY <2>2, <2>3, <2>4 DEF v, w
<1> HIDE DEF all
<1>5. CASE p \in Range(u)
  <2>1. PICK i \in DOMAIN u : u[i] = p
    BY <1>5 DEF Range
  <2>2. i \in DOMAIN all /\ all[i] = p /\ p.kind \in {"http", "file", "cmd"} /\ p.roles = {}
    BY <1>1, <1>4, <2>1
  <2>3. QED
    BY <1>2, <2>2 DEF all, roleMatched
<1>6. CASE p = HealthReport /\ roleMatched(role, p.roles)
  <2>1. Len(u) + 1 \in DOMAIN all /\ all[Len(u) + 1] = p
    BY <1>4, <1>6
  <2>2. QED
    BY <1>1, <1>2, <1>6, <2>1 DEF all
<1>7. CASE p \in Range(e) /\ roleMatched(role, p.roles)
  <2>1. PICK i \in DOMAIN e : e[i] = p
    BY <1>7 DEF Range
  <2>2. i \in 1..Len(e) /\ Len(u) + 1 + i \in DOMAIN all
    BY <1>4, <2>1
  <2>3. all[Len(u) + 1 + i] = p
    BY <1>4, <2>1, <2>2
  <2>4. p.kind \in {"http", "file", "cmd"}
    BY <1>1, <2>1
  <2>5. QED
    BY <1>2, <1>7, <2>2, <2>3, <2>4 DEF all
<1>8. QED
  BY <1>3, <1>5, <1>6, <1>7

\* A node offers whatever a local bundle collects there, unless another provider has
\* taken its place, and what is mandatory in one way is mandatory in the other.
LEMMA CollectedIsOffered ==
  ASSUME NEW cfg \in Configurations, NEW role, NEW p \in LoadCollectors(cfg, role),
         ~p.optional, ~Shadowed(cfg, role, p)
  PROVE  /\ p.name \in DOMAIN getLogsEndpoints(cfg, role)
         /\ ~getLogsEndpoints(cfg, role)[p.name].optional
<1> DEFINE list == loadProviders(cfg)
           map == OfKind(cfg, p.kind)
           offered == getLogsEndpoints(cfg, role)
<1>1. /\ p.kind \in {"http", "file", "cmd"} /\ roleMatched(role, p.roles)
      /\ \E i \in DOMAIN list : list[i] = p
  BY CollectorsLoaded
<1>2. map[p.key] = p /\ offered[p.name].provider = p
  BY DEF Shadowed
<1>3. p.key \in DOMAIN map
  BY <1>1 DEF OfKind, Stored
<1>4. p.name \in DOMAIN Visible(cfg, p.kind, role)
  <2> DEFINE here == {map[k] : k \in {k \in DOMAIN map : roleMatched(role, map[k].roles)}}
  <2>1. p \in here
    BY <1>1, <1>2, <1>3
  <2>2. DOMAIN Visible(cfg, p.kind, role) = {q.name : q \in here}
    BY Zenon DEF Visible
  <2> HIDE DEF here
  <2>3. QED
    BY <2>1, <2>2
<1>5. \A kind : \A name \in DOMAIN Visible(cfg, kind, role) :
        Visible(cfg, kind, role)[name].optional => Visible(cfg, kind, role)[name].provider.optional
  <2> SUFFICES ASSUME NEW kind, NEW name \in DOMAIN Visible(cfg, kind, role),
                      Visible(cfg, kind, role)[name].optional
               PROVE  Visible(cfg, kind, role)[name].provider.optional
    OBVIOUS
  <2> DEFINE kept == OfKind(cfg, kind)
             here == {kept[k] : k \in {k \in DOMAIN kept : roleMatched(role, kept[k].roles)}}
             q == CHOOSE q \in here : q.name = name
  <2>1. Visible(cfg, kind, role) = [x \in {y.name : y \in here} |->
           LET z == CHOOSE z \in here : z.name = x
           IN  [provider |-> z, optional |-> z.optional /\ kind = "http"]]
    BY Zenon DEF Visible
  <2>2. Visible(cfg, kind, role)[name] = [provider |-> q, optional |-> q.optional /\ kind = "http"]
    <3> HIDE DEF here
    <3>1. QED
      BY <2>1, Zenon
  <2> HIDE DEF q
  <2> DEFINE optional == q.optional /\ kind = "http"
  <2>3. Visible(cfg, kind, role)[name] = [provider |-> q, optional |-> optional]
    BY <2>2
  <2> HIDE DEF optional
  <2>4. /\ Visible(cfg, kind, role)[name].provider = q
        /\ Visible(cfg, kind, role)[name].optional = optional
    BY <2>3
  <2>5. QED
    BY <2>4, Zenon DEF optional
<1>6. /\ DOMAIN offered = DOMAIN Visible(cfg, "http", role) \cup DOMAIN Visible(cfg, "file", role)
                          \cup DOMAIN Visible(cfg, "cmd", role)
      /\ \A name \in DOMAIN offered : \E kind \in {"http", "file", "cmd"} :
           name \in DOMAIN Visible(cfg, kind, role) /\ offered[name] = Visible(cfg, kind, role)[name]
  BY DEF getLogsEndpoints
<1>7. p.name \in DOMAIN offered
  BY <1>1, <1>4, <1>6
<1>8. PICK kind \in {"http", "file", "cmd"} :
        p.name \in DOMAIN Visible(cfg, kind, role) /\ offered[p.name] = Visible(cfg, kind, role)[p.name]
  BY <1>6, <1>7
<1> HIDE DEF offered
<1>9. offered[p.name].optional => p.optional
  BY <1>2, <1>5, <1>8, Zenon
<1>10. QED
  BY <1>7, <1>9, Zenon DEF offered

-----------------------------------------------------------------------------
(* The theorems. *)

LEMMA IInvInit == Init => IInv
<1> SUFFICES ASSUME Init PROVE IInv
  OBVIOUS
<1>1. TypeOK
  BY TypedInit
<1>2. Ended = {} /\ Cardinality({}) = 0
  BY FS_EmptySet DEF Ended, Init
<1>3. Staged /\ Gathered
  BY <1>2 DEF Init, Staged, Gathered, Early, Late, Asking
<1>4. Working
  BY DEF Init, Working
<1>5. Requests = {} /\ Mandatory = {}
  BY DEF Init, Requests, Mandatory
<1>6. Accounted
  BY <1>5 DEF Init, Accounted, Early, Late
<1>7. QED
  BY <1>1, <1>3, <1>4, <1>6 DEF IInv

\* The invariant is one of the job and its fetchers.
THEOREM Inductive == Spec => []IInv
<1>1. IInv /\ [Next]_vars => IInv'
  <2> SUFFICES ASSUME IInv, [Next]_vars PROVE IInv'
    OBVIOUS
  <2>1. Accounted <=> Listing /\ Fetching /\ Appending /\ Succeeding
    BY DEF Accounted, Listing, Fetching, Appending, Succeeding
  <2>2. Accounted' <=> Listing' /\ Fetching' /\ Appending' /\ Succeeding'
    BY DEF Accounted, Listing, Fetching, Appending, Succeeding
  <2>3. QED
    BY <2>1, <2>2, TypedStep, StagedStep, GatheredStep, WorkingStep, ListingStep, FetchingStep,
       AppendingStep, SucceedingStep DEF IInv
<1>2. QED
  BY <1>1, IInvInit, PTL DEF Spec

\* Requests, archives and errors are of endpoints the nodes really list.
THEOREM TypeCorrect == Spec => []TypeOK
<1>1. IInv => TypeOK
  BY DEF IInv
<1>2. QED
  BY <1>1, Inductive, PTL

\* Archives are appended when nobody writes to them any more, and those of all
\* fetchers are.
THEOREM ArchivesAreClosed == Spec => []AppendsClosedArchives
<1>1. IInv => AppendsClosedArchives
  BY DEF IInv, Gathered, Ended, Late, AppendsClosedArchives
<1>2. QED
  BY <1>1, Inductive, PTL

\* Whatever mandatory endpoint the bundle lacks, an error in the job says why, unless
\* the bundle as a whole could not be closed.
THEOREM GapsAreReported == Spec => []GapsAreExplained
<1>1. IInv => GapsAreExplained
  <2> SUFFICES ASSUME IInv, jpc = "end", toStart = {}, NEW r \in Mandatory
               PROVE  \/ r \in archive \/ unclosed
                      \/ errors \cap {About("node", r[1]), About("get", r), About("job", "cancelled")} # {}
                      \/ \E f \in Fetchers : r \in fzip[f] /\ About("append", f) \in errors
    BY DEF GapsAreExplained
  <2>1. (Excused(r) \/ Delivered(r)) /\ zips = {}
    BY DEF IInv, Accounted, Gathered, Late
  <2>2. QED
    BY <2>1 DEF Excused, Delivered
<1>2. QED
  BY <1>1, Inductive, PTL

\* No temporary archive stays on disk without an error about it.
THEOREM DiskIsCleaned == Spec => []TempFilesRemoved
<1>1. IInv => TempFilesRemoved
  BY DEF IInv, Gathered, Late, TempFilesRemoved
<1>2. QED
  BY <1>1, Inductive, PTL

\* A job that says it has collected all data has what a local bundle of every node
\* asked for must have, but for namesakes.
THEOREM SuccessIsWhole == Spec => []SuccessIsComplete
<1>1. IInv => SuccessIsComplete
  <2> SUFFICES ASSUME IInv, status = "success"
               PROVE  /\ \A f \in Fetchers : fpc[f] = "end"
                      /\ \A n \in Asked : \A p \in Needed(n) :
                           \/ Shadowed(input.config[n], Role(n), p)
                           \/ \E i \in DOMAIN nodes :
                                nodes[i] = n /\ \E f \in Fetchers : <<i, p.name>> \in fzip[f]
    BY DEF SuccessIsComplete
  <2>1. Late /\ \A r \in Mandatory : Fetched(r)
    BY DEF IInv, Accounted
  <2>2. \A f \in Fetchers : fpc[f] = "end"
    BY <2>1 DEF IInv, Gathered, Ended
  <2>3. nodes = matchRequestedNodes(input.wanted, MasterNodes, AgentNodes)
    BY <2>1 DEF IInv, Staged, Asking
  <2>4. ASSUME NEW n \in Asked, NEW p \in Needed(n), ~Shadowed(input.config[n], Role(n), p)
        PROVE  \E i \in DOMAIN nodes : nodes[i] = n /\ \E f \in Fetchers : <<i, p.name>> \in fzip[f]
    <3>1. n \in Nodes /\ input \in Inputs /\ input.config[n] \in Configurations
      BY InputsAssumption DEF IInv, TypeOK, Asked
    <3>2. PICK i \in DOMAIN nodes : nodes[i] = n
      BY <2>3, <3>1, AskedAreMatched DEF Asked
    <3>3. p \in LoadCollectors(input.config[n], Role(n)) /\ ~p.optional
      BY DEF Needed
    <3>4. /\ p.name \in DOMAIN getLogsEndpoints(input.config[n], Role(n))
          /\ ~getLogsEndpoints(input.config[n], Role(n))[p.name].optional
      BY <2>4, <3>1, <3>3, CollectedIsOffered
    <3>5. Listed[input][n] = getLogsEndpoints(input.config[n], Role(n))
      BY <3>1 DEF Listed
    <3> DEFINE r == <<i, p.name>>
    <3>6. r[1] = i /\ r[2] = p.name
      OBVIOUS
    <3>7. p.name \in Files
      BY <3>1, <3>4, <3>5 DEF Files
    <3>8. r \in Requests
      BY <3>2, <3>4, <3>5, <3>7 DEF Requests
    <3>9. ~EndpointSpec(r).optional
      BY <3>2, <3>4, <3>5, <3>6 DEF EndpointSpec
    <3>10. r \in Mandatory
      BY <3>8, <3>9 DEF Mandatory
    <3>11. Fetched(r)
      BY <2>1, <3>10
    <3>12. QED
      BY <3>2, <3>11 DEF Fetched
  <2>5. QED
    BY <2>2, <2>4
<1>2. QED
  BY <1>1, Inductive, PTL

=============================================================================
