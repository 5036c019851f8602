--------------------------- MODULE DiagnosticsJob ---------------------------
(* The deprecated cluster bundle API: the DiagnosticsJob of every master, of   *)
(* api/diagnostics.go, and its handlers in api/handlers.go. A job may run on   *)
(* any master; create and cancel ask all masters whether one runs, delete and  *)
(* download ask all of them for a bundle, and cancel, delete and download are  *)
(* forwarded to the master that answers yes. What a job does while it runs is  *)
(* in FetchJob.                                                                *)
(*                                                                             *)
(* run() and isRunning() use the fields of the job without its lock. Between   *)
(* the stores of run() lie calls of other functions, which keep their order.   *)
EXTENDS Integers, FiniteSets

CONSTANTS
  Masters,   \* the masters
  Requests,  \* requests; a forwarded request is one of its own
  Inputs,    \* what the operator sends, and the bundles that are there already
  NoMaster,  \* no master
  NoRequest, \* no request
  Start,     \* what the clock shows at the beginning, in seconds
  MaxNow,    \* bound on the clock
  MaxFaults  \* bound on failed operations of the masters

\* A bundle is named after the second its job was started in.
Names == 1..MaxNow

Ops == {"create", "cancel", "delete", "download"}
Request == [op : Ops, at : Masters, name : Names]
Free == [op |-> "none", at |-> NoMaster, name |-> 0]

ASSUME MastersAssumption == IsFiniteSet(Masters) /\ NoMaster \notin Masters
ASSUME RequestsAssumption == IsFiniteSet(Requests) /\ NoRequest \notin Requests
ASSUME InputsAssumption ==
  Inputs \subseteq [req : [Requests -> Request \cup {Free}], old : SUBSET (Masters \X (1..(Start - 1)))]
ASSUME BoundsAssumption ==
  Start \in Nat \ {0} /\ MaxNow \in Nat /\ Start =< MaxNow /\ MaxFaults \in Nat

VARIABLES
  now,        \* the clock
  \* The job of every master and its files.
  running,    \* running[m]: j.Running
  path,       \* path[m]: j.LastBundlePath, 0 before the first job
  cancelFunc, \* cancelFunc[m]: the job whose context it cancels
  lock,       \* lock[m]: the request that holds j.Lock()
  file,       \* file[m][n]: bundle n on disk: "none", "partial" or "whole"
  \* Requests.
  req,        \* req[r]: what r asks for
  pc,         \* pc[r]: its next step
  todo,       \* todo[r]: masters it has not asked yet
  found,      \* found[r]: masters that said yes
  lost,       \* lost[r]: masters whose answer was lost, NoMaster if r was sent to nobody;
              \* in the end also to the child
  child,      \* child[r]: the request it was forwarded as
  resp,       \* resp[r]: HTTP status answered, 0 while there is none, -1 after a panic
  served,     \* served[r]: what a download delivered
  \* The background job a create started.
  jpc,        \* jpc[r]: its next step
  jname,      \* jname[r]: the file it writes
  cancelled,  \* jobs whose context was cancelled
  \* History.
  before,     \* before[r]: masters for which the answer to r was yes all the time
  past,       \* past[r]: jobs that were over when r was sent
  mixed,      \* masters where a job was started while another one ran
  faults      \* failed operations so far

master == <<running, path, cancelFunc, lock, file>>
handling == <<req, todo, found, lost, child, served>>
job == <<jpc, jname, cancelled>>
vars == <<now, master, handling, pc, resp, job, before, past, mixed, faults>>

Active(r) == jpc[r] \notin {"off", "end"}

Init ==
  /\ now = Start
  /\ running = [m \in Masters |-> FALSE]
  /\ path = [m \in Masters |-> 0]
  /\ cancelFunc = [m \in Masters |-> NoRequest]
  /\ lock = [m \in Masters |-> NoRequest]
  /\ \E i \in Inputs :
       /\ file = [m \in Masters |-> [n \in Names |-> IF <<m, n>> \in i.old THEN "whole" ELSE "none"]]
       /\ req = i.req
       /\ pc = [r \in Requests |-> IF i.req[r] = Free THEN "free" ELSE "idle"]
  /\ todo = [r \in Requests |-> {}]
  /\ found = [r \in Requests |-> {}]
  /\ lost = [r \in Requests |-> {}]
  /\ child = [r \in Requests |-> NoRequest]
  /\ resp = [r \in Requests |-> 0]
  /\ served = [r \in Requests |-> "none"]
  /\ jpc = [r \in Requests |-> "off"]
  /\ jname = [r \in Requests |-> 0]
  /\ cancelled = {}
  /\ before = [r \in Requests |-> {}]
  /\ past = [r \in Requests |-> {}]
  /\ mixed = {}
  /\ faults = 0

Fault == faults < MaxFaults /\ faults' = faults + 1
NoFault == UNCHANGED faults

Goto(r, label) == pc' = [pc EXCEPT ![r] = label] /\ UNCHANGED resp
Answer(r, k) == resp' = [resp EXCEPT ![r] = k] /\ pc' = [pc EXCEPT ![r] = "end"]
Stay == UNCHANGED <<pc, resp>>

\* The master r was sent to.
At(r) == req[r].at

-----------------------------------------------------------------------------
(* The background job *)

\* os.Create truncates a bundle of the same name. The name is that of the last
\* job, which need not be this one.
CreateZip(r) ==
  /\ jpc[r] = "begin"
  /\ \/ /\ file' = [file EXCEPT ![At(r)][path[At(r)]] = "partial"]
        /\ jname' = [jname EXCEPT ![r] = path[At(r)]]
        /\ jpc' = [jpc EXCEPT ![r] = "work"]
        /\ NoFault
     \/ /\ Fault
        /\ jpc' = [jpc EXCEPT ![r] = "stop"]
        /\ UNCHANGED <<file, jname>>
  /\ UNCHANGED <<now, running, path, cancelFunc, lock, handling, pc, resp, cancelled, mixed>>

\* The job ends and closes the bundle, which may have been removed.
CloseZip(r) ==
  /\ jpc[r] = "work"
  /\ file' = [file EXCEPT ![At(r)][jname[r]] = IF @ = "none" THEN @ ELSE "whole"]
  /\ jpc' = [jpc EXCEPT ![r] = "stop"]
  /\ UNCHANGED <<now, running, path, cancelFunc, lock, handling, pc, resp, jname, cancelled,
                 mixed, faults>>

\* j.stop(), under the lock.
Stop(r) ==
  /\ jpc[r] = "stop"
  /\ lock[At(r)] = NoRequest
  /\ running' = [running EXCEPT ![At(r)] = FALSE]
  /\ jpc' = [jpc EXCEPT ![r] = "end"]
  /\ UNCHANGED <<now, path, cancelFunc, lock, file, handling, pc, resp, jname, cancelled,
                 mixed, faults>>

-----------------------------------------------------------------------------
(* isRunning and getStatusAll, for create and cancel *)

\* The first look at j.Running, which takes no lock.
IsRunning(r) ==
  /\ pc[r] = "sent"
  /\ req[r].op \in {"create", "cancel"}
  /\ IF running[At(r)]
       THEN /\ IF req[r].op = "create" THEN Answer(r, 409) ELSE Goto(r, "cancel")
            /\ UNCHANGED todo
       ELSE /\ todo' = [todo EXCEPT ![r] = Masters]
            /\ Goto(r, "ask")
  /\ UNCHANGED <<now, master, req, found, lost, child, served, job, mixed, faults>>

\* getBundleReportStatus of master m, under its read lock; the call to another
\* master may fail or time out.
AskStatus(r, m) ==
  /\ pc[r] = "ask" /\ m \in todo[r]
  /\ req[r].op \in {"create", "cancel"}
  /\ todo' = [todo EXCEPT ![r] = @ \ {m}]
  /\ \/ /\ lock[m] = NoRequest
        /\ found' = [found EXCEPT ![r] = IF running[m] THEN @ \cup {m} ELSE @]
        /\ UNCHANGED lost
     \/ /\ m # At(r)
        /\ lost' = [lost EXCEPT ![r] = @ \cup {m}]
        /\ UNCHANGED found
  /\ Stay
  /\ UNCHANGED <<now, master, req, child, served, job, mixed, faults>>

\* Mutant of Unsure: what could not be asked is not running.
NeverUnsure(r) == FALSE

\* len(errs) != 0
Unsure(r) == lost[r] # {}

\* What run makes of the answers.
DecideRun(r) ==
  /\ pc[r] = "ask" /\ todo[r] = {}
  /\ req[r].op = "create"
  /\ \/ Unsure(r) /\ Answer(r, 503)
     \/ ~Unsure(r) /\ found[r] # {} /\ Answer(r, 409)
     \/ ~Unsure(r) /\ found[r] = {} /\ Goto(r, "nodes")
  /\ UNCHANGED <<now, master, handling, job, mixed, faults>>

\* What cancel makes of the answers. Without them its response has no code, and
\* writing it panics. The job of any of the masters found is cancelled there.
DecideCancel(r) ==
  /\ pc[r] = "ask" /\ todo[r] = {}
  /\ req[r].op = "cancel"
  /\ \/ Unsure(r) /\ Answer(r, -1)
     \/ ~Unsure(r) /\ found[r] = {} /\ Answer(r, 503)
     \/ ~Unsure(r) /\ found[r] # {} /\ Goto(r, "forward")
  /\ UNCHANGED <<now, master, handling, job, mixed, faults>>

\* j.cancelFunc(), whatever became of the job since.
CancelLocal(r) ==
  /\ pc[r] = "cancel"
  /\ cancelled' = cancelled \cup {cancelFunc[At(r)]}
  /\ Answer(r, 200)
  /\ UNCHANGED <<now, master, handling, jpc, jname, mixed, faults>>

-----------------------------------------------------------------------------
(* run, once no job was found *)

\* Mutant of SetUp: the cancel function of the last job is kept.
SetUpUncancellable(r) ==
  /\ path' = [path EXCEPT ![At(r)] = now]
  /\ UNCHANGED cancelFunc

\* The fields of the job that are set before j.Running.
SetUp(r) ==
  /\ path' = [path EXCEPT ![At(r)] = now]
  /\ cancelFunc' = [cancelFunc EXCEPT ![At(r)] = r]

\* The requested nodes are found and the directory is there, or not.
Prepare(r) ==
  /\ pc[r] = "nodes"
  /\ \/ /\ SetUp(r)
        /\ mixed' = IF \E x \in Requests \ {r} : At(x) = At(r) /\ (Active(x) \/ pc[x] = "go")
                      THEN mixed \cup {At(r)} ELSE mixed
        /\ Goto(r, "go")
        /\ NoFault
     \/ /\ Fault
        /\ Answer(r, 503)
        /\ UNCHANGED <<path, cancelFunc, mixed>>
  /\ UNCHANGED <<now, running, lock, file, handling, job>>

\* j.Running is set and the background job starts.
Go(r) ==
  /\ pc[r] = "go"
  /\ running' = [running EXCEPT ![At(r)] = TRUE]
  /\ jpc' = [jpc EXCEPT ![r] = "begin"]
  /\ Answer(r, 200)
  /\ UNCHANGED <<now, path, cancelFunc, lock, file, handling, jname, cancelled, mixed, faults>>

-----------------------------------------------------------------------------
(* findLocalBundle, isBundleAvailable and listAllBundles, for delete and        *)
(* download                                                                    *)

\* Mutant of Listed: the bundle of a running job is not skipped.
ListedWhileRunning(m, n) == file[m][n] # "none"

\* Master m lists bundle n. Names are those of this API's bundles; the glob also
\* matches the archives the coordinator merges in the same directory.
Listed(m, n) == file[m][n] # "none" /\ ~(path[m] = n /\ running[m])

\* Mutant of IsBundleAvailable: the other masters are not asked.
IsBundleHere(r) ==
  IF Listed(At(r), req[r].name)
    THEN /\ found' = [found EXCEPT ![r] = {At(r)}]
         /\ UNCHANGED todo
         /\ Goto(r, "local")
    ELSE /\ Goto(r, "ask")
         /\ UNCHANGED <<found, todo>>

\* Where isBundleAvailable found the bundle, in found, or where it asks next. For a
\* bundle of this master it returns no host.
IsBundleAvailable(r) ==
  IF Listed(At(r), req[r].name)
    THEN /\ found' = [found EXCEPT ![r] = {At(r)}]
         /\ UNCHANGED todo
         /\ Goto(r, "local")
    ELSE /\ todo' = [todo EXCEPT ![r] = Masters]
         /\ UNCHANGED found
         /\ Goto(r, "ask")

\* listAllBundles, one master, this one included; one that cannot be asked is
\* skipped.
AskList(r, m) ==
  /\ pc[r] = "ask" /\ m \in todo[r]
  /\ req[r].op \in {"delete", "download"}
  /\ todo' = [todo EXCEPT ![r] = @ \ {m}]
  /\ \/ /\ found' = [found EXCEPT ![r] = IF Listed(m, req[r].name) THEN @ \cup {m} ELSE @]
        /\ UNCHANGED lost
     \/ /\ lost' = [lost EXCEPT ![r] = @ \cup {m}]
        /\ UNCHANGED found
  /\ Stay
  /\ UNCHANGED <<now, master, req, child, served, job, mixed, faults>>

\* Mutant of Unlock: an early return does not unlock.
KeepLock(r) == UNCHANGED lock

\* defer j.Unlock(); only delete has taken the lock.
Unlock(r) == lock' = [m \in Masters |-> IF lock[m] = r THEN NoRequest ELSE lock[m]]

NotAvailable(r) ==
  /\ pc[r] = "ask" /\ todo[r] = {}
  /\ req[r].op \in {"delete", "download"}
  /\ IF found[r] = {} THEN Answer(r, 404) /\ Unlock(r)
                      ELSE Goto(r, "forward") /\ UNCHANGED lock
  /\ UNCHANGED <<now, running, path, cancelFunc, file, handling, job, mixed, faults>>

\* GetMasterNodes fails. Then cancel, as when it is unsure, has no code to answer.
NoMasters(r) ==
  /\ pc[r] = "ask" /\ todo[r] = Masters
  /\ Fault
  /\ Answer(r, IF req[r].op = "cancel" THEN -1 ELSE IF req[r].op = "download" THEN 500 ELSE 503)
  /\ Unlock(r)
  /\ UNCHANGED <<now, running, path, cancelFunc, file, handling, job, mixed>>

\* delete takes the lock and removes a bundle it has itself, be it the one of the
\* running job.
Delete(r) ==
  /\ pc[r] = "sent" /\ req[r].op = "delete"
  /\ lock[At(r)] = NoRequest
  /\ IF file[At(r)][req[r].name] # "none"
       THEN /\ \/ /\ file' = [file EXCEPT ![At(r)][req[r].name] = "none"]
                  /\ Answer(r, 200)
                  /\ NoFault
               \/ Fault /\ Answer(r, 503) /\ UNCHANGED file
            /\ UNCHANGED <<lock, found, todo>>
       ELSE /\ lock' = [lock EXCEPT ![At(r)] = r]
            /\ IsBundleAvailable(r)
            /\ NoFault
            /\ UNCHANGED file
  /\ UNCHANGED <<now, running, path, cancelFunc, req, lost, child, served, job, mixed>>

Download(r) ==
  /\ pc[r] = "sent" /\ req[r].op = "download"
  /\ IsBundleAvailable(r)
  /\ UNCHANGED <<now, master, req, lost, child, served, job, mixed, faults>>

\* A file of that name on this master is served, wherever the bundle was found.
Serve(r) ==
  /\ pc[r] \in {"local", "forward"} /\ req[r].op = "download"
  /\ file[At(r)][req[r].name] # "none"
  /\ served' = [served EXCEPT ![r] = file[At(r)][req[r].name]]
  /\ Answer(r, 200)
  /\ UNCHANGED <<now, master, req, todo, found, lost, child, job, mixed, faults>>

\* The file was found here and is gone since: the request is proxied to a host
\* without a name and to no path, whichever other masters have the bundle.
ProxyNowhere(r) ==
  /\ pc[r] = "local"
  /\ file[At(r)][req[r].name] = "none"
  /\ \E k \in {404, 502} : Answer(r, k)
  /\ lost' = [lost EXCEPT ![r] = @ \cup {NoMaster}]
  /\ UNCHANGED <<now, master, req, todo, found, child, served, job, mixed, faults>>

-----------------------------------------------------------------------------
(* Forwarding *)

\* r was found on some master and cannot be served on this one.
Forwards(r) ==
  /\ pc[r] = "forward"
  /\ req[r].op = "download" => file[At(r)][req[r].name] = "none"

\* The request is sent to one of the masters found.
Forward(r, m, c) ==
  /\ Forwards(r) /\ m \in found[r]
  /\ pc[c] = "free"
  /\ req' = [req EXCEPT ![c] = [req[r] EXCEPT !.at = m]]
  /\ child' = [child EXCEPT ![r] = c]
  /\ pc' = [pc EXCEPT ![r] = "wait", ![c] = "sent"]
  /\ UNCHANGED <<now, master, todo, found, lost, resp, served, job, mixed, faults>>

\* The answer is passed on; without one there is an error.
Reply(r) ==
  /\ pc[r] = "wait" /\ pc[child[r]] = "end"
  /\ Answer(r, IF resp[child[r]] = -1 THEN 503 ELSE resp[child[r]])
  /\ served' = [served EXCEPT ![r] = served[child[r]]]
  /\ lost' = [lost EXCEPT ![r] = @ \cup lost[child[r]]]
  /\ Unlock(r)
  /\ UNCHANGED <<now, running, path, cancelFunc, file, req, todo, found, child, job,
                 mixed, faults>>

\* The request cannot be sent, or there is no answer in time; it may still be
\* served.
TimeOut(r) ==
  /\ pc[r] = "wait" \/ Forwards(r)
  /\ Answer(r, IF req[r].op = "download" THEN 502 ELSE 503)
  /\ Unlock(r)
  /\ UNCHANGED <<now, running, path, cancelFunc, file, handling, job, mixed, faults>>

-----------------------------------------------------------------------------
\* The operator sends a request.
Send(r) ==
  /\ pc[r] = "idle"
  /\ Goto(r, "sent")
  /\ UNCHANGED <<now, master, handling, job, mixed, faults>>

Tick ==
  /\ now < MaxNow
  /\ now' = now + 1
  /\ UNCHANGED <<master, handling, pc, resp, job, mixed, faults>>

HandlerStep(r) ==
  \/ IsRunning(r) \/ DecideRun(r) \/ DecideCancel(r) \/ CancelLocal(r)
  \/ Prepare(r) \/ Go(r) \/ NoMasters(r) \/ NotAvailable(r) \/ Delete(r) \/ Download(r)
  \/ Serve(r) \/ ProxyNowhere(r)
  \/ \E m \in Masters : AskStatus(r, m) \/ AskList(r, m)
  \/ \E m \in Masters, c \in Requests : Forward(r, m, c)
  \/ Reply(r) \/ TimeOut(r)

JobStep(r) == CreateZip(r) \/ CloseZip(r) \/ Stop(r)

\* Whether master m answers yes to r.
Yes(r, m) ==
  \/ req[r].op = "create" /\ running[m]
  \/ req[r].op \in {"delete", "download"} /\ Listed(m, req[r].name)

\* History of the requests that are not answered yet.
Record ==
  /\ before' = [r \in Requests |->
       IF pc[r] = "end" THEN before[r]
       ELSE {m \in IF pc[r] \in {"free", "idle"} THEN Masters ELSE before[r] :
               pc'[r] \notin {"free", "idle"} /\ Yes(r, m)'}]
  /\ past' = [r \in Requests |->
       IF pc[r] \in {"free", "idle"} /\ pc'[r] = "sent"
         THEN {x \in Requests : jpc[x] = "end"} ELSE past[r]]

Step(r) == pc[r] \notin {"free", "idle", "end"} /\ HandlerStep(r) /\ Record
Work(r) == Active(r) /\ JobStep(r) /\ Record

Next ==
  \/ \E r \in Requests : Step(r) \/ Work(r) \/ (Send(r) /\ Record)
  \/ Tick /\ Record

Spec == Init /\ [][Next]_vars

\* Handlers are scheduled and their calls have timeouts. No job has to end.
Fairness == \A r \in Requests : WF_vars(Step(r))

FairSpec == Spec /\ Fairness

-----------------------------------------------------------------------------
(* Properties. *)

\* Types: the fields of every job, and a cancel function whenever one is called.
TypeOK ==
  /\ now \in Start..MaxNow
  /\ running \in [Masters -> BOOLEAN]
  /\ path \in [Masters -> Names \cup {0}]
  /\ cancelFunc \in [Masters -> Requests \cup {NoRequest}]
  /\ lock \in [Masters -> Requests \cup {NoRequest}]
  /\ file \in [Masters -> [Names -> {"none", "partial", "whole"}]]
  /\ req \in [Requests -> Request \cup {Free}]
  /\ pc \in [Requests -> {"free", "idle", "sent", "ask", "nodes", "go", "cancel",
                          "local", "forward", "wait", "end"}]
  /\ todo \in [Requests -> SUBSET Masters]
  /\ found \in [Requests -> SUBSET Masters]
  /\ lost \in [Requests -> SUBSET (Masters \cup {NoMaster})]
  /\ child \in [Requests -> Requests \cup {NoRequest}]
  /\ resp \in [Requests -> {-1, 0, 200, 404, 409, 500, 502, 503}]
  /\ served \in [Requests -> {"none", "partial", "whole"}]
  /\ jpc \in [Requests -> {"off", "begin", "work", "stop", "end"}]
  /\ jname \in [Requests -> Names \cup {0}]
  /\ cancelled \subseteq Requests
  /\ before \in [Requests -> SUBSET Masters]
  /\ past \in [Requests -> SUBSET Requests]
  /\ mixed \subseteq Masters
  /\ faults \in 0..MaxFaults

\* A create does not start a job beside one that was running, on any master, from
\* the moment the create was sent: it is refused even if that master cannot be
\* asked.
StartsNoSecond ==
  \A r \in Requests : req[r].op = "create" /\ resp[r] = 200 => before[r] = {}

\* A cancel answered with 200 cancelled a job that was not over when the cancel
\* was sent, though the job was looked for first and cancelled later, perhaps on
\* another master; unless jobs met on one master.
CancelReachesJob ==
  mixed = {} => \A r \in Requests : req[r].op = "cancel" /\ resp[r] = 200 =>
    \E x \in Requests \ past[r] : x \in cancelled

\* Two jobs wrote bundles of the same name.
Namesakes ==
  \E x, y \in Requests : x # y /\ jname[x] # 0 /\ jname[x] = jname[y]

\* A download never delivers a bundle that a job still writes, on whichever master
\* it was found, unless jobs met on one master or in one second.
ServedIsClosed ==
  mixed = {} /\ ~Namesakes => \A r \in Requests : resp[r] = 200 => served[r] # "partial"

\* A delete or download answers 404 only if no master listed the bundle all the
\* time, except one whose answer was lost, to it or to whom it was forwarded; or if
\* the download was proxied to no host, the file it had found here having gone.
NotFoundIsTrue ==
  \A r \in Requests : resp[r] = 404 => before[r] \subseteq lost[r] \/ NoMaster \in lost[r]

\* Every request that was sent is answered, though a delete holds the lock of its
\* master while it waits for another master, whose delete may wait for this one.
RequestsEnd ==
  \A r \in Requests : pc[r] = "sent" ~> pc[r] = "end"

\* There is at most one job in the cluster.
SingleJob ==
  \A x, y \in Requests : Active(x) /\ Active(y) => x = y

=============================================================================
