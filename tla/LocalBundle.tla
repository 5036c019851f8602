---------------------------- MODULE LocalBundle ----------------------------
(* The lifecycle of local diagnostics bundles on one node: BundleHandler of   *)
(* api/rest/bundle_handler.go, with the two goroutines every accepted Create  *)
(* starts (collectAll and the watcher that saves the final status), the       *)
(* files a bundle consists of, failing disk operations, the creation timeout  *)
(* and a crash of the process followed by its restart.                        *)
(*                                                                            *)
(* A request (an element of Reqs) is one HTTP call; it takes the steps of its *)
(* handler one file-system operation at a time, so that handlers, goroutines  *)
(* and crashes interleave between any two of them.                            *)
EXTENDS Integers, FiniteSets

CONSTANTS
  Ids,           \* bundle ids: the directories of workDir
  Reqs,          \* HTTP requests; each is used at most once
  Workloads,     \* which handlers the requests may be for: a set of functions
  NoReq,         \* no request: "no data file", "lock is free"
  NumCollectors, \* len(h.collectors)
  Optional,      \* the collectors c with c.Optional()
  MaxFaults      \* bound on failed disk operations and crashes

\* The handlers of the API; "none" for a request that is never sent.
Ops == {"create", "get", "getfile", "delete", "none"}

ASSUME NoReqAssumption == NoReq \notin Reqs
ASSUME WorkloadsAssumption == Workloads \subseteq [Reqs -> Ops]
ASSUME CollectorsAssumption ==
  NumCollectors \in Nat /\ Optional \subseteq 1..NumCollectors
ASSUME MaxFaultsAssumption == MaxFaults \in Nat

VARIABLES
  \* On disk; a crash leaves it as it is.
  dir,      \* dir[i]: directory workDir/i exists
  state,    \* state[i]: what state.json of bundle i says
  data,     \* data[i]: the request whose os.Create made file.zip, NoReq if there is none
  zip,      \* zip[r]: the collectors whose entry the file made by r holds
  closed,   \* closed[r]: the zip archive written by r was completed without an error
  \* In memory.
  lock,     \* the request that holds stateFileLock for writing, or NoReq
  op,       \* op[r]: the handler that serves r, an input
  rid,      \* rid[r]: the bundle id in the URL of r, an input
  pc,       \* pc[r]: the next step of r
  loc,      \* loc[r]: Status and "has Errors" of r's local variable bundle
  seen,     \* seen[r]: the status getBundleState returned to r
  resp,     \* resp[r]: HTTP status code answered, 0 while there is none
  served,   \* served[r]: the file r downloaded, as named in data
  cpc,      \* cpc[r]: next step of the collectAll goroutine of r
  next,     \* next[r]: the collector that goroutine turns to next
  cerr,     \* cerr[r]: its list of errors is not empty
  ctx,      \* ctx[r]: the creation context of r has expired
  \* History.
  owners,   \* the Creates that got as far as making the directory
  faults    \* failed disk operations and crashes so far

disk == <<dir, state, data, zip, closed>>
handler == <<op, rid, pc, loc, seen, resp, served>>
collecting == <<cpc, next, cerr, ctx>>
vars == <<disk, lock, handler, collecting, owners, faults>>

-----------------------------------------------------------------------------
(* State of a bundle. *)

\* Status values this code writes to a state file (status.go).
Status == {"Started", "Done", "Deleted", "Failed"}
Mandatory == (1..NumCollectors) \ Optional

\* (*Bundle).IsFinished; Canceled is never written by this code.
IsFinished(st) == st \in {"Done", "Deleted", "Failed"}

\* A state file is absent, holds a truncated document, or holds a bundle.
StateFile == [st : Status \cup {"none", "torn"}, err : BOOLEAN]
Saved(st, err) == [st |-> st, err |-> err]

Init ==
  /\ dir = [i \in Ids |-> FALSE]
  /\ state = [i \in Ids |-> Saved("none", FALSE)]
  /\ data = [i \in Ids |-> NoReq]
  /\ zip = [r \in Reqs |-> {}]
  /\ closed = [r \in Reqs |-> FALSE]
  /\ lock = NoReq
  /\ op \in Workloads
  /\ rid \in [Reqs -> Ids]
  /\ pc = [r \in Reqs |-> "idle"]
  /\ loc = [r \in Reqs |-> Saved("none", FALSE)]
  /\ seen = [r \in Reqs |-> "none"]
  /\ resp = [r \in Reqs |-> 0]
  /\ served = [r \in Reqs |-> NoReq]
  /\ cpc = [r \in Reqs |-> "off"]
  /\ next = [r \in Reqs |-> 1]
  /\ cerr = [r \in Reqs |-> FALSE]
  /\ ctx = [r \in Reqs |-> FALSE]
  /\ owners = {}
  /\ faults = 0

-----------------------------------------------------------------------------
(* Building blocks of the handlers. *)

Goto(r, label) == pc' = [pc EXCEPT ![r] = label]

\* r answers with an HTTP status code and its handler returns.
Answer(r, code) ==
  /\ resp' = [resp EXCEPT ![r] = code]
  /\ Goto(r, "end")

\* A disk operation fails; the environment has MaxFaults failures to spend.
Fault == faults < MaxFaults /\ faults' = faults + 1

-----------------------------------------------------------------------------
(* writeStateFile: take the lock, open and truncate the file, write the       *)
(* document, release the lock. pc[r] is "write" before and "writing" inside.  *)

\* Mutant of Lock: the write goes on without the lock.
NoLock(r) == UNCHANGED lock

\* h.stateFileLock.Lock(): waits for the other writer.
Lock(r) == lock = NoReq /\ lock' = r

\* The file is open and truncated: readers are held off by the lock.
BeginWrite(r) ==
  /\ pc[r] = "write"
  /\ Lock(r)
  /\ state' = [state EXCEPT ![rid[r]] = Saved("torn", FALSE)]
  /\ Goto(r, "writing")
  /\ UNCHANGED <<dir, data, zip, closed, op, rid, loc, seen, resp, served,
                 collecting, owners, faults>>

\* What the callers of writeStateFile do with its result: Create goes on after
\* saving Started, the goroutine that saved Done only logs, and everyone else
\* answers.
AfterWrite(r, ok) ==
  CASE op[r] = "create" /\ loc[r].st = "Started" ->
         IF ok THEN Goto(r, "mkdata") /\ UNCHANGED resp ELSE Answer(r, 507)
    [] op[r] = "create" /\ loc[r].st = "Failed" -> Answer(r, 507)
    [] op[r] = "create" /\ loc[r].st = "Done" -> Goto(r, "end") /\ UNCHANGED resp
    [] op[r] = "delete" -> Answer(r, IF ok THEN 200 ELSE 500)

\* The document is on disk.
EndWrite(r) ==
  /\ pc[r] = "writing"
  /\ state' = [state EXCEPT ![rid[r]] = loc[r]]
  /\ lock' = NoReq
  /\ AfterWrite(r, TRUE)
  /\ UNCHANGED <<dir, data, zip, closed, op, rid, loc, seen, served,
                 collecting, owners, faults>>

\* ioutil.WriteFile fails, before it truncated the file or after.
FailWrite(r) ==
  /\ Fault
  /\ \/ pc[r] = "write" /\ lock = NoReq
     \/ pc[r] = "writing"
  /\ lock' = NoReq
  /\ AfterWrite(r, FALSE)
  /\ UNCHANGED <<disk, op, rid, loc, seen, served, collecting, owners>>

-----------------------------------------------------------------------------
(* getBundleState: read the state file under the lock, then stat file.zip.    *)
(* The callers are Get, GetFile and Delete; List calls it for every directory *)
(* and only logs its errors, so it adds no behaviour to Get's.                *)

\* An error of getBundleState: all three callers answer 500.
Unreadable(r) == Answer(r, 500) /\ UNCHANGED seen

\* Mutant of Downloadable: only bundles that ended badly are refused.
NotGone(st) == st \notin {"Deleted", "Failed"}

\* GetFile serves nothing but a bundle that is Done.
Downloadable(st) == st = "Done"

\* What a caller does with the status st that getBundleState returned.
UseState(r, st) ==
  /\ seen' = [seen EXCEPT ![r] = st]
  /\ CASE op[r] = "get" -> Answer(r, 200)
       [] op[r] = "getfile" /\ st \in {"Deleted", "Failed"} -> Answer(r, 410)
       [] op[r] = "getfile" /\ st \in {"Started", "Done"} ->
            IF Downloadable(st) THEN Goto(r, "serve") /\ UNCHANGED resp
                                ELSE Answer(r, 404)
       [] op[r] = "delete" /\ st = "Deleted" -> Answer(r, 200)
       [] op[r] = "delete" /\ st # "Deleted" -> Goto(r, "remove") /\ UNCHANGED resp

\* readStateFile and the switch on the status; the bundle read stays in loc[r].
ReadState(r) ==
  /\ pc[r] = "read"
  /\ lock = NoReq
  /\ LET s == state[rid[r]] IN
       \/ s.st \in {"none", "torn"} /\ Unreadable(r) /\ UNCHANGED loc
       \/ /\ s.st \in {"Deleted", "Failed"}
          /\ loc' = [loc EXCEPT ![r] = s]
          /\ UseState(r, s.st)
       \/ /\ s.st \in {"Started", "Done"}
          /\ loc' = [loc EXCEPT ![r] = s]
          /\ Goto(r, "stat")
          /\ UNCHANGED <<seen, resp>>
  /\ UNCHANGED <<disk, lock, op, rid, served, collecting, owners, faults>>

\* os.Stat of the data file of a bundle that is not Deleted or Failed.
StatData(r) ==
  /\ pc[r] = "stat"
  /\ IF data[rid[r]] = NoReq THEN Unreadable(r) ELSE UseState(r, loc[r].st)
  /\ UNCHANGED <<disk, lock, op, rid, loc, served, collecting, owners, faults>>

-----------------------------------------------------------------------------
(* The requests. *)

\* Create: a bundle whose directory exists is refused.
Create(r) ==
  /\ pc[r] = "idle" /\ op[r] = "create"
  /\ IF dir[rid[r]] THEN Answer(r, 409) ELSE Goto(r, "mkdir") /\ UNCHANGED resp
  /\ UNCHANGED <<disk, lock, op, rid, loc, seen, served, collecting, owners, faults>>

\* Create: os.MkdirAll, which also succeeds when the directory is there by now.
MakeDir(r) ==
  /\ pc[r] = "mkdir"
  /\ \/ /\ dir' = [dir EXCEPT ![rid[r]] = TRUE]
        /\ loc' = [loc EXCEPT ![r] = Saved("Started", FALSE)]
        /\ owners' = owners \cup {r}
        /\ Goto(r, "write")
        /\ UNCHANGED <<resp, faults>>
     \/ /\ Fault
        /\ Answer(r, 507)
        /\ UNCHANGED <<dir, loc, owners>>
  /\ UNCHANGED <<state, data, zip, closed, lock, op, rid, seen, served, collecting>>

\* Create: os.Create of file.zip opens a file that is there, so that two racing
\* Creates write to one file, which keeps the name of the first. Then the two
\* goroutines start and the client is told 200; or the bundle is Failed.
MakeData(r) ==
  /\ pc[r] = "mkdata"
  /\ \/ /\ data' = [data EXCEPT ![rid[r]] = IF @ = NoReq THEN r ELSE @]
        /\ cpc' = [cpc EXCEPT ![r] = "collect"]
        /\ resp' = [resp EXCEPT ![r] = 200]
        /\ Goto(r, "select")
        /\ UNCHANGED <<loc, faults>>
     \/ /\ Fault
        /\ loc' = [loc EXCEPT ![r] = Saved("Failed", TRUE)]
        /\ Goto(r, "write")
        /\ UNCHANGED <<data, cpc, resp>>
  /\ UNCHANGED <<dir, state, zip, closed, lock, op, rid, seen, served,
                 next, cerr, ctx, owners>>

\* Get and Delete answer 404 for a bundle without a directory; GetFile reads the
\* state file at once and answers 500 when there is none.
Access(r) ==
  /\ pc[r] = "idle" /\ op[r] \in {"get", "getfile", "delete"}
  /\ IF op[r] \in {"get", "delete"} /\ ~dir[rid[r]]
       THEN Answer(r, 404)
       ELSE Goto(r, "read") /\ UNCHANGED resp
  /\ UNCHANGED <<disk, lock, op, rid, loc, seen, served, collecting, owners, faults>>

\* GetFile: http.ServeFile opens the file, which a Delete may have removed since
\* getBundleState looked at it.
ServeFile(r) ==
  /\ pc[r] = "serve"
  /\ served' = [served EXCEPT ![r] = data[rid[r]]]
  /\ Answer(r, IF data[rid[r]] = NoReq THEN 404 ELSE 200)
  /\ UNCHANGED <<disk, lock, op, rid, loc, seen, collecting, owners, faults>>

\* Mutant of MarkDeleted: the status is not set before the bundle is saved.
KeepStatus(b) == b

\* bundle.Status = Deleted
MarkDeleted(b) == [b EXCEPT !.st = "Deleted"]

\* Delete: os.Remove of the data file, which fails when the file is gone.
RemoveData(r) ==
  /\ pc[r] = "remove"
  /\ \/ /\ data[rid[r]] # NoReq
        /\ data' = [data EXCEPT ![rid[r]] = NoReq]
        /\ loc' = [loc EXCEPT ![r] = MarkDeleted(@)]
        /\ Goto(r, "write")
        /\ UNCHANGED <<resp, faults>>
     \/ /\ data[rid[r]] = NoReq
        /\ Answer(r, 500)
        /\ UNCHANGED <<data, loc, faults>>
     \/ /\ Fault
        /\ Answer(r, 500)
        /\ UNCHANGED <<data, loc>>
  /\ UNCHANGED <<dir, state, zip, closed, lock, op, rid, seen, served,
                 collecting, owners>>

-----------------------------------------------------------------------------
(* The goroutines of an accepted Create and its context. *)

\* Mutant of HasNext: one collector too many.
HasOneMore(r) == next[r] <= NumCollectors + 1

\* The loop over h.collectors is not over.
HasNext(r) == next[r] <= NumCollectors

\* collectAll, one collector: nothing more is collected once the context has
\* expired. A collector succeeds, fails to collect (a mandatory one is reported,
\* the error text of an optional one becomes its entry) or its data cannot be
\* copied into the archive.
CollectNext(r) ==
  /\ cpc[r] = "collect"
  /\ HasNext(r)
  /\ IF ctx[r]
       THEN /\ cerr' = [cerr EXCEPT ![r] = TRUE]
            /\ cpc' = [cpc EXCEPT ![r] = "finish"]
            /\ UNCHANGED <<next, zip>>
       ELSE \E result \in {"collected", "not collected", "not copied"} :
              LET c == next[r]
                  stored == \/ result = "collected"
                            \/ result = "not collected" /\ c \in Optional
              IN /\ zip' = [zip EXCEPT ![r] = IF stored THEN @ \cup {c} ELSE @]
                 /\ cerr' = [cerr EXCEPT ![r] =
                               @ \/ (result # "collected" /\ c \in Mandatory)]
                 /\ next' = [next EXCEPT ![r] = c + 1]
                 /\ UNCHANGED cpc
  /\ UNCHANGED <<dir, state, data, closed, lock, handler, ctx, owners, faults>>

\* collectAll: the error summary, then the archive and the file are closed.
FinishZip(r) ==
  /\ \/ cpc[r] = "finish"
     \/ cpc[r] = "collect" /\ ~HasNext(r)
  /\ cpc' = [cpc EXCEPT ![r] = "send"]
  /\ \/ /\ closed' = [closed EXCEPT ![r] = TRUE]
        /\ UNCHANGED <<cerr, faults>>
     \/ /\ Fault
        /\ cerr' = [cerr EXCEPT ![r] = TRUE]
        /\ UNCHANGED closed
  /\ UNCHANGED <<dir, state, data, zip, lock, handler, next, ctx, owners>>

\* Mutant of FinalBundle: the errors of the collectors are dropped.
FinalWithoutErrors(r) == Saved("Done", FALSE)

\* The bundle the watcher saves: Done, with the errors received.
FinalBundle(r) == Saved("Done", cerr[r])

\* Mutant of WatchDone: the watcher returns without saving the bundle.
WatchDoneUnsaved(r) ==
  /\ pc[r] = "select"
  /\ cpc[r] = "send"
  /\ cpc' = [cpc EXCEPT ![r] = "gone"]
  /\ Goto(r, "end")
  /\ UNCHANGED <<disk, lock, op, rid, loc, seen, resp, served, next, cerr, ctx, owners, faults>>

\* The watcher receives the errors on the unbuffered channel done and goes on to
\* save Done.
WatchDone(r) ==
  /\ pc[r] = "select"
  /\ cpc[r] = "send"
  /\ cpc' = [cpc EXCEPT ![r] = "gone"]
  /\ loc' = [loc EXCEPT ![r] = FinalBundle(r)]
  /\ Goto(r, "write")
  /\ UNCHANGED <<disk, lock, op, rid, seen, resp, served, next, cerr, ctx, owners, faults>>

\* The watcher sees the context expire first and leaves without saving anything;
\* nobody receives from done any more.
WatchTimeout(r) ==
  /\ pc[r] = "select"
  /\ ctx[r]
  /\ Goto(r, "end")
  /\ UNCHANGED <<disk, lock, op, rid, loc, seen, resp, served, collecting, owners, faults>>

\* bundleCreationTimeout passes (nobody looks at the context once collectAll has
\* returned).
Expire(r) ==
  /\ cpc[r] \notin {"off", "gone"}
  /\ ~ctx[r]
  /\ ctx' = [ctx EXCEPT ![r] = TRUE]
  /\ UNCHANGED <<disk, lock, handler, cpc, next, cerr, owners, faults>>

-----------------------------------------------------------------------------
\* The process dies and is started again: handlers, goroutines and the lock are
\* gone, files stay as they are. NewBundleHandler only creates workDir.
Crash ==
  /\ Fault
  /\ \E r \in Reqs : pc[r] \notin {"idle", "end"} \/ cpc[r] \notin {"off", "gone"}
  /\ pc' = [r \in Reqs |-> IF pc[r] = "idle" THEN "idle" ELSE "end"]
  /\ cpc' = [r \in Reqs |-> IF cpc[r] = "off" THEN "off" ELSE "gone"]
  /\ lock' = NoReq
  /\ UNCHANGED <<disk, op, rid, loc, seen, resp, served, next, cerr, ctx, owners>>

Handle(r) ==
  \/ MakeDir(r) \/ MakeData(r) \/ BeginWrite(r) \/ EndWrite(r)
  \/ ReadState(r) \/ StatData(r) \/ ServeFile(r) \/ RemoveData(r)

Background(r) ==
  CollectNext(r) \/ FinishZip(r) \/ WatchDone(r) \/ WatchTimeout(r)

Arrive(r) == Create(r) \/ Access(r)

Next ==
  \/ \E r \in Reqs :
       Arrive(r) \/ Handle(r) \/ FailWrite(r) \/ Background(r) \/ Expire(r)
  \/ Crash

Spec == Init /\ [][Next]_vars

\* A handler that has started and a runnable goroutine are scheduled, and time
\* passes; requests need not arrive and nothing has to fail.
Fairness == \A r \in Reqs : /\ WF_vars(Handle(r)) /\ WF_vars(Background(r))
                            /\ WF_vars(Expire(r))

FairSpec == Spec /\ Fairness

-----------------------------------------------------------------------------
(* Properties. *)

\* Types: a status file, an archive, a lock and the steps of every handler and goroutine.
TypeOK ==
  /\ dir \in [Ids -> BOOLEAN]
  /\ state \in [Ids -> StateFile]
  /\ data \in [Ids -> Reqs \cup {NoReq}]
  /\ zip \in [Reqs -> SUBSET (1..NumCollectors)]
  /\ closed \in [Reqs -> BOOLEAN]
  /\ lock \in Reqs \cup {NoReq}
  /\ op \in [Reqs -> Ops]
  /\ rid \in [Reqs -> Ids]
  /\ pc \in [Reqs -> {"idle", "mkdir", "mkdata", "write", "writing", "select",
                      "read", "stat", "serve", "remove", "end"}]
  /\ loc \in [Reqs -> StateFile]
  /\ seen \in [Reqs -> Status \cup {"none"}]
  /\ resp \in [Reqs -> {0, 200, 404, 409, 410, 500, 507}]
  /\ served \in [Reqs -> Reqs \cup {NoReq}]
  /\ cpc \in [Reqs -> {"off", "collect", "finish", "send", "gone"}]
  /\ next \in [Reqs -> 1..NumCollectors + 1]
  /\ cerr \in [Reqs -> BOOLEAN]
  /\ ctx \in [Reqs -> BOOLEAN]
  /\ owners \subseteq Reqs
  /\ faults \in 0..MaxFaults

\* At most one Create got past the existence check of this id before the
\* directory was there.
Sole(i) == \A r1, r2 \in owners : rid[r1] = i /\ rid[r2] = i => r1 = r2

\* The file made by r is a finished archive with an entry of every mandatory
\* collector, and nobody writes to it.
Whole(r) == Mandatory \subseteq zip[r] /\ closed[r] /\ cpc[r] = "gone"

\* A bundle whose state file says Done without errors has a whole data file, if
\* it has one, whatever timeouts, crashes, disk errors and Deletes happened.
DoneMeansWhole ==
  \A i \in Ids :
    /\ state[i] = Saved("Done", FALSE)
    /\ Sole(i)
    /\ data[i] # NoReq
    => Whole(data[i])

\* A download answered with 200 after the state file said Done without errors
\* delivers a whole archive, even when a Delete removes the file meanwhile.
ServedIsWhole ==
  \A r \in Reqs :
    /\ op[r] = "getfile" /\ resp[r] = 200 /\ ~loc[r].err
    /\ Sole(rid[r])
    => served[r] # NoReq /\ Whole(served[r])

\* Deleting a bundle that was Done at the time is final: once the Delete has
\* answered 200 the bundle is Deleted and its data is gone.
DeleteOfDoneSticks ==
  \A r \in Reqs :
    /\ op[r] = "delete" /\ resp[r] = 200 /\ seen[r] = "Done"
    /\ Sole(rid[r])
    => state[rid[r]].st = "Deleted" /\ data[rid[r]] = NoReq

\* After Create answered 200, and as long as nothing failed and nobody deleted
\* the bundle, its state file can be read whenever the lock is free and its data
\* file exists: a status poll never sees an error.
CreatedIsReadable ==
  \A r \in owners :
    /\ resp[r] = 200 /\ faults = 0
    /\ Sole(rid[r])
    /\ \A d \in Reqs : op[d] = "delete" /\ rid[d] = rid[r] => pc[d] = "idle"
    => /\ data[rid[r]] = r
       /\ lock = NoReq => state[rid[r]].st \in {"Started", "Done"}

\* Every accepted Create leads to a finished bundle unless its context expires
\* or something fails.
CreateSettles ==
  \A r \in Reqs :
    pc[r] = "select" ~> IsFinished(state[rid[r]].st) \/ ctx[r] \/ faults > 0

\* A bundle that says Done has a data file to download, unless a Delete has just
\* removed it and is about to say so.
DoneIsReady ==
  \A i \in Ids :
    /\ state[i].st = "Done"
    /\ \A r \in Reqs : op[r] = "delete" /\ rid[r] = i => pc[r] \in {"idle", "end"}
    => data[i] # NoReq

-----------------------------------------------------------------------------
(* What a bundle promises, see BundleLifecycle. *)

\* The status of bundle i. Nobody can read a file that is being written: it counts
\* as what it will say.
View(i) ==
  CASE ~Sole(i) -> "contested"
    [] Sole(i) /\ state[i].st = "none" -> "absent"
    [] Sole(i) /\ state[i].st = "torn" ->
         IF lock \in Reqs /\ rid[lock] = i /\ pc[lock] = "writing" THEN loc[lock].st ELSE "broken"
    [] OTHER -> state[i].st

\* The Create of bundle i has told its client to wait and not saved a result yet.
Active(i) ==
  /\ Sole(i)
  /\ \E r \in owners :
       /\ rid[r] = i
       /\ \/ pc[r] \in {"mkdata", "select"}
          \/ pc[r] = "writing" /\ loc[r].st = "Started"
          \/ pc[r] = "write" /\ loc[r].st # "Started"

Life == INSTANCE BundleLifecycle WITH
  Bundles <- Ids, status <- [i \in Ids |-> View(i)], active <- [i \in Ids |-> Active(i)]

\* Every bundle that one Create made goes through its lifecycle: it starts once;
\* only the Create at work on it says how it ended, and it stops working in the
\* end; what was deleted when nobody was at work stays deleted; a crash or a
\* failed write never makes it look further than it is.
ImplementsLifecycle == Life!FairSpec

=============================================================================
