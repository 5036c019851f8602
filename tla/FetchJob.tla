------------------------------ MODULE FetchJob ------------------------------
(* The background job of a legacy cluster bundle: runBackgroundJob and what it *)
(* calls in api/diagnostics.go, with the fetchers of fetcher/fetcher.go. The   *)
(* job finds the requested nodes, lists the endpoints of each, starts the      *)
(* fetchers, counts their status updates, gathers their archives and appends   *)
(* them to the bundle. What a node lists comes from LogProviders. The          *)
(* two channels between them are unbuffered: sending and receiving is one step *)
(* of both sides. The context of the job ends when an operator cancels the job *)
(* or its timeout passes.                                                      *)
EXTENDS Integers, FiniteSets, LogProviders

CONSTANTS
  MasterNodes, AgentNodes, \* what the finders return, as sequences
  Inputs,   \* requests to create a bundle, with the configuration of every node
  Fetchers  \* the FlagDiagnosticsBundleFetchersCount goroutines

Nodes == Range(MasterNodes \o AgentNodes)
Role(n) == IF n \in Range(MasterNodes) THEN "master" ELSE "agent"

ASSUME NodesAssumption ==
  /\ MasterNodes \in Seq(Nodes) /\ AgentNodes \in Seq(Nodes)
  /\ Nodes # {} /\ Range(MasterNodes) \cap Range(AgentNodes) = {}
ASSUME InputsAssumption ==
  /\ IsFiniteSet(Inputs)
  /\ \A x \in Inputs : x.wanted # <<>> /\ \A n \in Nodes : x.config[n] \in Configurations
ASSUME FetchersAssumption == IsFiniteSet(Fetchers) /\ Fetchers # {}

VARIABLES
  input,      \* the request of the operator
  nodes,      \* foundNodes, by place; a node may be there twice
  jpc,        \* next step of the job
  toList,     \* places in nodes whose endpoints were not asked for yet
  requested,  \* fetchRequests
  queue,      \* the channel fetchReq: the requests nobody has taken yet
  toStart,    \* fetchers that were not started yet
  fpc,        \* fpc[f]: next step of fetcher f
  freq,       \* freq[f]: the request f works on, a set of at most one
  ferr,       \* ferr[f]: the error f is about to report
  fzip,       \* fzip[f]: the requests whose answer is in the temporary archive of f
  temp,       \* fetchers whose temporary archive is on disk
  cancelled,  \* ctx.Done(): the job was cancelled or timed out
  counted,    \* status updates received, the variable i of the loop
  zips,       \* fetchers whose archive was gathered and not appended yet
  gathered,   \* how many BulkResponses were received
  errors,     \* j.Errors, each by what it is about
  archive,    \* the requests whose answer is in the bundle
  unclosed,   \* the zip writer of the bundle, or its file, could not be closed
  status      \* j.Status, as far as it tells the outcome

fetching == <<queue, fpc, freq, ferr, fzip>>
bundle == <<archive, unclosed>>
result == <<errors, status>>
vars == <<input, nodes, jpc, toList, requested, toStart, fetching, temp, cancelled, counted,
          zips, gathered, result, bundle>>

\* What every node lists at /logs.
Listed == [x \in Inputs |-> [n \in Nodes |-> getLogsEndpoints(x.config[n], Role(n))]]

\* All the names listed by some node. A request of the job is the place of a node
\* in nodes and a name this node lists.
Files == UNION {DOMAIN Listed[input][n] : n \in Nodes}
Requests == {r \in (DOMAIN nodes) \X Files : r[2] \in DOMAIN Listed[input][nodes[r[1]]]}

\* Mutant of Of: an endpoint is known by its name, whichever node lists it.
OfAnyNode(i) == {i} \X Files

\* getNodeEndpoints: the endpoints of the i-th node.
Of(i) == {r \in Requests : r[1] = i}

EndpointSpec(r) == Listed[input][nodes[r[1]]][r[2]]
Mandatory == {r \in Requests : ~EndpointSpec(r).optional}

\* What an error in j.Errors can be about: a node, a request, the temporary
\* archive of a fetcher, or the job as a whole.
Subjects == [kind : {"node"}, of : DOMAIN nodes] \cup [kind : {"get"}, of : Requests]
            \cup [kind : {"append", "remove"}, of : Fetchers]
            \cup [kind : {"job"}, of : {"zip", "results", "cancelled", "report"}]
About(k, x) == [kind |-> k, of |-> x]

Init ==
  /\ input \in Inputs
  /\ nodes = <<>>
  /\ jpc = "find"
  /\ toList = {}
  /\ requested = {}
  /\ queue = {}
  /\ toStart = Fetchers
  /\ fpc = [f \in Fetchers |-> "off"]
  /\ freq = [f \in Fetchers |-> {}]
  /\ ferr = [f \in Fetchers |-> FALSE]
  /\ fzip = [f \in Fetchers |-> {}]
  /\ temp = {}
  /\ cancelled = FALSE
  /\ counted = 0
  /\ zips = {}
  /\ gathered = 0
  /\ errors = {}
  /\ archive = {}
  /\ unclosed = FALSE
  /\ status = "started"

-----------------------------------------------------------------------------
(* runBackgroundJob, first half *)

\* findRequestedNodes: both lookups must succeed and a node must match; otherwise
\* the request is refused and there is no job.
FindNodes(ok) ==
  /\ jpc = "find"
  /\ nodes' = IF ok THEN matchRequestedNodes(input.wanted, MasterNodes, AgentNodes) ELSE <<>>
  /\ toList' = DOMAIN nodes'
  /\ jpc' = IF toList' = {} THEN "end" ELSE "create"
  /\ status' = IF toList' = {} THEN "refused" ELSE status
  /\ UNCHANGED <<input, requested, toStart, fetching, temp, cancelled, counted,
                 zips, gathered, errors, bundle>>

\* Without nodes, or without a file for the bundle, the job fails at once.
CreateZip(ok) ==
  /\ jpc = "create"
  /\ ok => DOMAIN nodes # {}
  /\ jpc' = IF ok THEN "list" ELSE "end"
  /\ status' = IF ok THEN status ELSE "failed"
  /\ errors' = IF ok THEN errors ELSE errors \cup {About("job", "zip")}
  /\ UNCHANGED <<input, nodes, toList, requested, toStart, fetching, temp, cancelled, counted,
                 zips, gathered, bundle>>

\* getEndpointsToFetch, one node: the list of its endpoints is fetched, or cannot
\* be, or some of its URLs cannot be prepared. Once the context is done the
\* requests found so far are returned; it may end at any endpoint of the node.
ListNode(i) ==
  /\ jpc = "list"
  /\ i \in toList
  /\ \E found \in SUBSET Of(i) :
       /\ requested' = requested \cup found
       /\ \/ /\ found = Of(i)
             /\ toList' = toList \ {i}
             /\ UNCHANGED errors
          \/ /\ errors' = errors \cup {About("node", i)}
             /\ toList' = toList \ {i}
          \/ /\ cancelled
             /\ toList' = {}
             /\ UNCHANGED errors
  /\ UNCHANGED <<input, nodes, jpc, toStart, fetching, temp, cancelled, counted, zips, gathered,
                 status, bundle>>

\* The requests go into the channel fetchReq, which is closed.
EnqueueAll ==
  /\ jpc = "list"
  /\ toList = {}
  /\ queue' = requested
  /\ jpc' = "start"
  /\ UNCHANGED <<input, nodes, toList, requested, toStart, fpc, freq, ferr, fzip, temp, cancelled,
                 counted, zips, gathered, result, bundle>>

\* fetcher.New makes a temporary file and the fetcher is started; when it cannot,
\* collectDataFromNodes returns at once and leaves the started ones behind.
StartFetcher(f, ok) ==
  /\ jpc = "start"
  /\ f \in toStart
  /\ IF ok
       THEN /\ toStart' = toStart \ {f}
            /\ temp' = temp \cup {f}
            /\ fpc' = [fpc EXCEPT ![f] = "select"]
            /\ UNCHANGED <<jpc, status>>
       ELSE /\ jpc' = "append"
            /\ status' = "failed"
            /\ UNCHANGED <<toStart, temp, fpc>>
  /\ UNCHANGED <<input, nodes, toList, requested, queue, freq, ferr, fzip, cancelled, counted,
                 zips, gathered, errors, bundle>>

StartWaiting ==
  /\ jpc = "start"
  /\ toStart = {}
  /\ jpc' = "wait"
  /\ UNCHANGED <<input, nodes, toList, requested, toStart, fetching, temp, cancelled, counted,
                 zips, gathered, result, bundle>>

-----------------------------------------------------------------------------
(* A fetcher: Run and workOffRequests *)

\* The fetcher takes a request; the list was shuffled, so any of them.
Take(f) ==
  /\ fpc[f] = "select"
  /\ \E r \in queue :
       /\ queue' = queue \ {r}
       /\ freq' = [freq EXCEPT ![f] = {r}]
  /\ fpc' = [fpc EXCEPT ![f] = "get"]
  /\ UNCHANGED <<input, nodes, jpc, toList, requested, toStart, ferr, fzip, temp, cancelled, counted,
                 zips, gathered, result, bundle>>

\* The fetcher sees the context done, or the channel closed and empty.
Leave(f) ==
  /\ fpc[f] = "select"
  /\ cancelled \/ queue = {}
  /\ fpc' = [fpc EXCEPT ![f] = "close"]
  /\ UNCHANGED <<input, nodes, jpc, toList, requested, queue, toStart, freq, ferr, fzip, temp,
                 cancelled, counted, zips, gathered, result, bundle>>

\* Mutant of Reports: a failed request is never an error.
ReportsNothing(f, outcome) == FALSE

\* The error getDataToZip returns: an optional endpoint need not answer, but an
\* answer that cannot be stored is an error of any endpoint.
Reports(f, outcome) ==
  \/ outcome = "not got" /\ freq[f] \subseteq Mandatory
  \/ outcome = "not stored"

\* What may become of a request: the node or another service answers, with the data
\* or what it sends in its place (of an optional file or command that cannot be read
\* or run, the text of the error), or it does not.
Outcomes == {"not got", "not stored", "stored"}

\* getDataToZip.
GetDataToZip(f) ==
  /\ fpc[f] = "get"
  /\ \E outcome \in Outcomes :
       /\ fzip' = [fzip EXCEPT ![f] = IF outcome = "stored" THEN @ \cup freq[f] ELSE @]
       /\ ferr' = [ferr EXCEPT ![f] = Reports(f, outcome)]
  /\ fpc' = [fpc EXCEPT ![f] = "check"]
  /\ UNCHANGED <<input, nodes, jpc, toList, requested, queue, toStart, freq, temp, cancelled, counted,
                 zips, gathered, result, bundle>>

\* The request and its error go out of scope.
Forget(f) ==
  /\ freq' = [freq EXCEPT ![f] = {}]
  /\ ferr' = [ferr EXCEPT ![f] = FALSE]

\* The select with a default: the status update of a cancelled job is dropped.
CheckContext(f) ==
  /\ fpc[f] = "check"
  /\ IF cancelled
       THEN /\ fpc' = [fpc EXCEPT ![f] = "close"]
            /\ Forget(f)
       ELSE /\ fpc' = [fpc EXCEPT ![f] = "send"]
            /\ UNCHANGED <<freq, ferr>>
  /\ UNCHANGED <<input, nodes, jpc, toList, requested, queue, toStart, fzip, temp,
                 cancelled, counted, zips, gathered, result, bundle>>

\* The archive is closed. An error of closing the file itself is not looked at.
Close(f, err) ==
  /\ fpc[f] = "close"
  /\ ferr' = [ferr EXCEPT ![f] = err]
  /\ fpc' = [fpc EXCEPT ![f] = "result"]
  /\ UNCHANGED <<input, nodes, jpc, toList, requested, queue, toStart, freq, fzip, temp, cancelled,
                 counted, zips, gathered, result, bundle>>

-----------------------------------------------------------------------------
(* waitForStatusUpdates and gatherAllResults *)

\* Mutant of AllCounted: the loop ends one endpoint early.
AllButOneCounted == counted + 1 >= Cardinality(requested)

\* The loop over the endpoints is over.
AllCounted == counted >= Cardinality(requested)

\* The job receives the status update f sends.
ReceiveStatus(f) ==
  /\ jpc = "wait" /\ ~AllCounted
  /\ fpc[f] = "send"
  /\ counted' = counted + 1
  /\ errors' = IF ferr[f] THEN errors \cup {About("get", r) : r \in freq[f]} ELSE errors
  /\ fpc' = [fpc EXCEPT ![f] = "select"]
  /\ Forget(f)
  /\ UNCHANGED <<input, nodes, jpc, toList, requested, queue, toStart, fzip, temp,
                 cancelled, zips, gathered, status, bundle>>

\* The loop over the status updates ends, or the job sees its context done.
StopWaiting ==
  /\ jpc = "wait"
  /\ AllCounted \/ cancelled
  /\ jpc' = "gather"
  /\ UNCHANGED <<input, nodes, toList, requested, toStart, fetching, temp, cancelled, counted,
                 zips, gathered, result, bundle>>

\* Mutant of AllGathered: the last fetcher is not waited for.
AllButOneGathered == gathered + 1 >= Cardinality(Fetchers)

\* gatherAllResults has a result of every fetcher.
AllGathered == gathered >= Cardinality(Fetchers)

\* The job receives the result f sends.
ReceiveResult(f) ==
  /\ jpc = "gather" /\ ~AllGathered
  /\ fpc[f] = "result"
  /\ zips' = zips \cup {f}
  /\ gathered' = gathered + 1
  /\ errors' = IF ferr[f] THEN errors \cup {About("job", "results")} ELSE errors
  /\ fpc' = [fpc EXCEPT ![f] = "end"]
  /\ Forget(f)
  /\ UNCHANGED <<input, nodes, jpc, toList, requested, queue, toStart, fzip, temp,
                 cancelled, counted, status, bundle>>

\* Mutant of Interrupted: an interrupted job is not an error.
NeverInterrupted == {}

\* ctx.Err() after everything was gathered.
Interrupted == IF cancelled THEN {About("job", "cancelled")} ELSE {}

\* The outcome of collectDataFromNodes becomes the status of the job.
Conclude ==
  /\ jpc = "gather"
  /\ AllGathered
  /\ errors' = errors \cup Interrupted
  /\ status' = IF errors' = {} THEN "success" ELSE "failed"
  /\ jpc' = "append"
  /\ UNCHANGED <<input, nodes, toList, requested, toStart, fetching, temp, cancelled, counted,
                 zips, gathered, bundle>>

-----------------------------------------------------------------------------
(* runBackgroundJob, second half *)

\* One gathered archive is appended to the bundle, as far as it can be read, and
\* its file is removed, if it can be.
AppendToZip(f, ok, removed) ==
  /\ jpc = "append"
  /\ f \in zips
  /\ zips' = zips \ {f}
  /\ \E copied \in SUBSET fzip[f] :
       /\ ok => copied = fzip[f]
       /\ archive' = archive \cup copied
  /\ errors' = errors \cup (IF ok THEN {} ELSE {About("append", f)})
                    \cup (IF removed THEN {} ELSE {About("remove", f)})
  /\ temp' = IF removed THEN temp \ {f} ELSE temp
  /\ UNCHANGED <<input, nodes, jpc, toList, requested, toStart, fetching, cancelled, counted,
                 gathered, status, unclosed>>

\* The reports are written to the bundle, the deferred calls close its zip writer and
\* its file, and j.stop() ends the job. A report that cannot be added is an error; one
\* that is cut off is only logged, and what a report says is not modelled. Nobody
\* looks at the errors of the two Close calls: without its central directory nothing
\* in the bundle can be found again.
FlushReports(ok, closed) ==
  /\ jpc = "append"
  /\ zips = {}
  /\ errors' = IF ok THEN errors ELSE errors \cup {About("job", "report")}
  /\ status' = IF ok THEN status ELSE "failed"
  /\ unclosed' = ~closed
  /\ archive' = IF closed THEN archive ELSE {}
  /\ jpc' = "end"
  /\ UNCHANGED <<input, nodes, toList, requested, toStart, fetching, temp, cancelled, counted,
                 zips, gathered>>

\* cancel() on this master, or the timeout of the context.
Cancel ==
  /\ jpc \notin {"find", "end"}
  /\ ~cancelled
  /\ cancelled' = TRUE
  /\ UNCHANGED <<input, nodes, jpc, toList, requested, toStart, fetching, temp, counted, zips,
                 gathered, result, bundle>>

-----------------------------------------------------------------------------
JobStep ==
  \/ \E ok \in BOOLEAN : FindNodes(ok) \/ CreateZip(ok)
  \/ \E ok, closed \in BOOLEAN : FlushReports(ok, closed)
  \/ \E i \in DOMAIN nodes : ListNode(i)
  \/ \E f \in Fetchers : \E ok \in BOOLEAN : StartFetcher(f, ok)
  \/ \E f \in Fetchers : \E ok, removed \in BOOLEAN : AppendToZip(f, ok, removed)
  \/ EnqueueAll \/ StartWaiting \/ StopWaiting \/ Conclude

FetcherStep(f) ==
  \/ Take(f) \/ Leave(f) \/ GetDataToZip(f) \/ CheckContext(f)
  \/ \E err \in BOOLEAN : Close(f, err)

\* A fetcher and the job meet at one of the channels.
Meet(f) == ReceiveStatus(f) \/ ReceiveResult(f)

Next ==
  \/ JobStep
  \/ \E f \in Fetchers : FetcherStep(f) \/ Meet(f)
  \/ Cancel

Spec == Init /\ [][Next]_vars

\* The goroutines are scheduled, the HTTP client has a timeout, and a channel
\* serves its waiting senders in order. Nobody has to cancel the job.
Fairness ==
  /\ WF_vars(JobStep)
  /\ \A f \in Fetchers : WF_vars(FetcherStep(f)) /\ WF_vars(Meet(f))

FairSpec == Spec /\ Fairness

-----------------------------------------------------------------------------
(* Properties. *)

\* Types: requests, archives and errors are of endpoints the nodes really list.
TypeOK ==
  /\ input \in Inputs
  /\ Range(nodes) \subseteq Nodes
  /\ jpc \in {"find", "create", "list", "start", "wait", "gather", "append", "end"}
  /\ toList \subseteq DOMAIN nodes
  /\ requested \subseteq Requests
  /\ queue \subseteq requested
  /\ toStart \subseteq Fetchers
  /\ fpc \in [Fetchers -> {"off", "select", "get", "check", "send", "close", "result", "end"}]
  /\ freq \in [Fetchers -> SUBSET Requests]
  /\ ferr \in [Fetchers -> BOOLEAN]
  /\ fzip \in [Fetchers -> SUBSET Requests]
  /\ temp \subseteq Fetchers
  /\ cancelled \in BOOLEAN
  /\ counted \in Nat
  /\ zips \subseteq Fetchers
  /\ gathered \in Nat
  /\ errors \subseteq Subjects
  /\ archive \subseteq Requests
  /\ unclosed \in BOOLEAN
  /\ status \in {"started", "refused", "failed", "success"}

\* The nodes an operator asks for, and what a local bundle would collect there for
\* lack of which it would report an error.
Asked == {n \in Nodes : \E i \in DOMAIN input.wanted :
            \/ input.wanted[i] \in {All, n}
            \/ input.wanted[i] = Masters /\ Role(n) = "master"
            \/ input.wanted[i] = Agents /\ Role(n) = "agent"}
Needed(n) == {p \in LoadCollectors(input.config[n], Role(n)) : ~p.optional}

\* A job that says it successfully collected all data has fetched, from every node
\* the operator asked for, everything a local bundle of that node must have, and
\* no fetcher is still at work. The one exception are providers whose name or key
\* another one has.
SuccessIsComplete ==
  status = "success" =>
    /\ \A f \in Fetchers : fpc[f] = "end"
    /\ \A n \in Asked : \A p \in Needed(n) :
         \/ Shadowed(input.config[n], Role(n), p)
         \/ \E i \in DOMAIN nodes : nodes[i] = n /\ \E f \in Fetchers : <<i, p.name>> \in fzip[f]

\* No archive is appended to the bundle while its fetcher still writes to it, and
\* none that was started is left out, unless not all fetchers could be started.
AppendsClosedArchives ==
  jpc = "append" =>
    /\ \A f \in zips : fpc[f] = "end"
    /\ toStart = {} => \A f \in Fetchers : fpc[f] = "end"

\* A mandatory endpoint is missing from the bundle only if an error says why: it
\* names the node, the endpoint or the archive it was in, or the whole job was
\* cancelled or could not be started. The one loss nobody is told of is that of the
\* whole bundle, when closing it failed.
GapsAreExplained ==
  jpc = "end" /\ toStart = {} =>
    \A r \in Mandatory :
      \/ r \in archive \/ unclosed
      \/ errors \cap {About("node", r[1]), About("get", r), About("job", "cancelled")} # {}
      \/ \E f \in Fetchers : r \in fzip[f] /\ About("append", f) \in errors

\* When the job is over no temporary archive is left on disk, except one whose
\* removal was reported as an error and those of a job that could not start all
\* of its fetchers.
TempFilesRemoved ==
  jpc = "end" /\ toStart = {} => \A f \in temp : About("remove", f) \in errors

\* A job nobody cancels comes to its end: the job and the fetchers never wait for
\* each other at the two unbuffered channels.
EndsUnlessCancelled == <>(jpc = "end" \/ cancelled)

\* While the job waits for its fetchers, a cancelled context makes every one of
\* them publish its BulkResponse.
CancelEndsFetchers ==
  \A f \in Fetchers :
    (cancelled /\ jpc \in {"wait", "gather"}) ~> (fpc[f] \in {"result", "end"})

=============================================================================
