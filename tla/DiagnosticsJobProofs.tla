------------------------ MODULE DiagnosticsJobProofs ------------------------
(* Proofs about DiagnosticsJob, for every set of masters and of requests and   *)
(* any time.                                                                   *)
EXTENDS DiagnosticsJob, TLAPS

-----------------------------------------------------------------------------
(* The inductive invariant. *)

\* Where a request can be, by what it asks for.
Formed ==
  \A r \in Requests :
    /\ pc[r] # "free" => req[r] \in Request
    /\ pc[r] \in {"nodes", "go"} => req[r].op = "create"
    /\ pc[r] = "cancel" => req[r].op = "cancel"
    /\ pc[r] = "local" => req[r].op = "download"
    /\ pc[r] \in {"forward", "wait"} => req[r].op # "create"
    /\ pc[r] # "end" => jpc[r] = "off" /\ resp[r] = 0 /\ served[r] = "none"
    /\ pc[r] \in {"free", "idle", "sent"} => found[r] = {}
    /\ pc[r] \in {"local", "forward"} => found[r] # {}
    /\ pc[r] = "wait" => child[r] # NoRequest
    /\ child[r] # NoRequest => pc[r] \in {"wait", "end"}

\* The fields of a job are set before anybody may use them.
SetBefore ==
  /\ \A m \in Masters :
       /\ path[m] = 0 <=> cancelFunc[m] = NoRequest
       /\ path[m] = 0 \/ path[m] >= Start
       /\ running[m] => cancelFunc[m] # NoRequest
  /\ \A r \in Requests :
       /\ Active(r) \/ pc[r] \in {"go", "cancel"} => cancelFunc[At(r)] # NoRequest
       /\ jpc[r] \in {"off", "begin"} => jname[r] = 0
       /\ jpc[r] = "work" => jname[r] # 0
       /\ jname[r] = 0 \/ jname[r] >= Start

\* Unless jobs met on a master, its fields are those of the job that runs there.
Single ==
  mixed = {} =>
    /\ \A m \in Masters : running[m] => At(cancelFunc[m]) = m /\ Active(cancelFunc[m])
    /\ \A r \in Requests :
         /\ Active(r) \/ pc[r] = "go" => cancelFunc[At(r)] = r
         /\ Active(r) => running[At(r)]
         /\ jpc[r] = "work" => jname[r] = path[At(r)]

\* A forwarded request asks for the same, later.
Linked ==
  \A r \in Requests : child[r] # NoRequest =>
    /\ pc[child[r]] \notin {"free", "idle"}
    /\ req[child[r]].op = req[r].op
    /\ req[child[r]].name = req[r].name
    /\ past[r] \subseteq past[child[r]]
    /\ pc[r] # "end" => before[r] \subseteq before[child[r]]

\* Jobs that were over stay so; whoever cancels one has seen it run.
Cancelling ==
  /\ \A r \in Requests : past[r] \subseteq {x \in Requests : jpc[x] = "end"}
  /\ mixed = {} => \A r \in Requests : pc[r] = "cancel" => cancelFunc[At(r)] \notin past[r]
  /\ CancelReachesJob

\* A master that says yes all the time is found, or its answer is lost.
Asking ==
  /\ \A r \in Requests :
       /\ pc[r] = "ask" /\ req[r].op # "cancel" => before[r] \subseteq todo[r] \cup found[r] \cup lost[r]
       /\ pc[r] \in {"nodes", "go"} => before[r] = {}
  /\ StartsNoSecond
  /\ NotFoundIsTrue

\* The bundles of name n are old, or the job that made one has closed it.
Settled(n) == n < Start \/ \E x \in Requests : jname[x] = n /\ jpc[x] \in {"stop", "end"}

\* A file is old or of a job, and partial only while a job writes it. What was found
\* is no bundle in the making.
Written ==
  /\ \A m \in Masters, n \in Names :
       /\ file[m][n] = "partial" =>
            \E x \in Requests : jpc[x] = "work" /\ jname[x] = n /\ At(x) = m
       /\ file[m][n] # "none" => n < Start \/ \E x \in Requests : jname[x] = n /\ At(x) = m
  /\ mixed = {} =>
       \A r \in Requests : found[r] # {} /\ req[r].op = "download" => Settled(req[r].name)
  /\ ServedIsClosed

IInv == TypeOK /\ Formed /\ SetBefore /\ Single /\ Linked /\ Cancelling /\ Asking /\ Written

-----------------------------------------------------------------------------
(* What the steps amount to. Most steps of a handler leave the jobs alone and    *)
(* change what one request knows and where it is.                              *)

\* No job, no field of one and no file changes.
Still == UNCHANGED <<now, running, path, cancelFunc, file, jpc, jname, cancelled, mixed>>

\* Request r goes on at label with answer k, having still to ask t, having found f,
\* lost l and served s.
Handled(r, label, k, t, f, l, s) ==
  /\ Still
  /\ UNCHANGED <<req, child>>
  /\ pc' = [pc EXCEPT ![r] = label]
  /\ resp' = [resp EXCEPT ![r] = k]
  /\ todo' = [todo EXCEPT ![r] = t]
  /\ found' = [found EXCEPT ![r] = f]
  /\ lost' = [lost EXCEPT ![r] = l]
  /\ served' = [served EXCEPT ![r] = s]
  /\ lock' \in [Masters -> Requests \cup {NoRequest}]
  /\ faults' \in 0..MaxFaults

Searches(r) == req[r].op \in {"delete", "download"}

Sends(r, label, k, t, f, l, s) ==
  /\ pc[r] = "idle" /\ label = "sent" /\ k = 0
  /\ t = todo[r] /\ f = found[r] /\ l = lost[r] /\ s = served[r]

Refuses(r, label, k, t, f, l, s) ==
  /\ pc[r] \notin {"free", "idle", "go", "end"} /\ label = "end" /\ k \in {-1, 409, 500, 502, 503}
  /\ t = todo[r] /\ f = found[r] /\ l = lost[r] /\ s = served[r]

SeesRunning(r, label, k, t, f, l, s) ==
  /\ pc[r] = "sent" /\ req[r].op = "cancel" /\ running[At(r)] /\ label = "cancel" /\ k = 0
  /\ t = todo[r] /\ f = found[r] /\ l = lost[r] /\ s = served[r]

AsksAll(r, label, k, t, f, l, s) ==
  /\ pc[r] = "sent" /\ label = "ask" /\ k = 0
  /\ t = Masters /\ f = found[r] /\ l = lost[r] /\ s = served[r]

\* Master m says yes, says no, or its answer is lost.
Asks(r, label, k, t, f, l, s) ==
  /\ pc[r] = "ask" /\ label = "ask" /\ k = 0 /\ s = served[r]
  /\ \E m \in Masters :
       /\ t = todo[r] \ {m}
       /\ \/ /\ f = found[r] \cup {m} /\ l = lost[r]
             /\ Searches(r) => Listed(m, req[r].name)
          \/ f = found[r] /\ l = lost[r] /\ ~Yes(r, m)
          \/ f = found[r] /\ l = lost[r] \cup {m}

FindsNoJob(r, label, k, t, f, l, s) ==
  /\ pc[r] = "ask" /\ label = "nodes" /\ k = 0 /\ req[r].op = "create"
  /\ todo[r] = {} /\ found[r] = {} /\ lost[r] = {}
  /\ t = todo[r] /\ f = found[r] /\ l = lost[r] /\ s = served[r]

FindsSome(r, label, k, t, f, l, s) ==
  /\ pc[r] = "ask" /\ label = "forward" /\ k = 0 /\ req[r].op # "create"
  /\ todo[r] = {} /\ found[r] # {}
  /\ t = todo[r] /\ f = found[r] /\ l = lost[r] /\ s = served[r]

FindsNoBundle(r, label, k, t, f, l, s) ==
  /\ pc[r] = "ask" /\ label = "end" /\ k = 404 /\ Searches(r)
  /\ todo[r] = {} /\ found[r] = {}
  /\ t = todo[r] /\ f = found[r] /\ l = lost[r] /\ s = served[r]

FindsHere(r, label, k, t, f, l, s) ==
  /\ pc[r] = "sent" /\ label = "local" /\ k = 0
  /\ req[r].op = "download" /\ Listed(At(r), req[r].name)
  /\ t = todo[r] /\ f = {At(r)} /\ l = lost[r] /\ s = served[r]

Serves(r, label, k, t, f, l, s) ==
  /\ pc[r] \in {"local", "forward"} /\ label = "end" /\ k = 200 /\ req[r].op = "download"
  /\ t = todo[r] /\ f = found[r] /\ l = lost[r] /\ s = file[At(r)][req[r].name]

GoesNowhere(r, label, k, t, f, l, s) ==
  /\ pc[r] = "local" /\ label = "end" /\ k \in {404, 502}
  /\ t = todo[r] /\ f = found[r] /\ l = lost[r] \cup {NoMaster} /\ s = served[r]

PassesOn(r, label, k, t, f, l, s) ==
  /\ pc[r] = "wait" /\ pc[child[r]] = "end" /\ label = "end"
  /\ k = resp[child[r]] \/ (resp[child[r]] = -1 /\ k = 503)
  /\ t = todo[r] /\ f = found[r] /\ l = lost[r] \cup lost[child[r]] /\ s = served[child[r]]

Course(r, label, k, t, f, l, s) ==
  \/ Sends(r, label, k, t, f, l, s)
  \/ Refuses(r, label, k, t, f, l, s)
  \/ SeesRunning(r, label, k, t, f, l, s)
  \/ AsksAll(r, label, k, t, f, l, s)
  \/ Asks(r, label, k, t, f, l, s)
  \/ FindsNoJob(r, label, k, t, f, l, s)
  \/ FindsSome(r, label, k, t, f, l, s)
  \/ FindsNoBundle(r, label, k, t, f, l, s)
  \/ FindsHere(r, label, k, t, f, l, s)
  \/ Serves(r, label, k, t, f, l, s)
  \/ GoesNowhere(r, label, k, t, f, l, s)
  \/ PassesOn(r, label, k, t, f, l, s)

Labels == {"sent", "ask", "nodes", "cancel", "local", "forward", "end"}
Codes == {-1, 0, 200, 404, 409, 500, 502, 503}
Contents == {"none", "partial", "whole"}

\* A job creates its file, or fails to.
Opens(r) ==
  /\ jpc[r] = "begin"
  /\ file' = [file EXCEPT ![At(r)][path[At(r)]] = "partial"]
  /\ jname' = [jname EXCEPT ![r] = path[At(r)]]
  /\ jpc' = [jpc EXCEPT ![r] = "work"]
  /\ UNCHANGED <<now, running, path, cancelFunc, lock, handling, pc, resp, cancelled, mixed, faults>>

OpensNot(r) ==
  /\ jpc[r] = "begin"
  /\ jpc' = [jpc EXCEPT ![r] = "stop"]
  /\ faults' \in 0..MaxFaults
  /\ UNCHANGED <<now, master, handling, pc, resp, jname, cancelled, mixed>>

\* A create sets up its job.
SetsUp(r) ==
  /\ pc[r] = "nodes"
  /\ SetUp(r)
  /\ mixed' = IF \E x \in Requests \ {r} : At(x) = At(r) /\ (Active(x) \/ pc[x] = "go")
                THEN mixed \cup {At(r)} ELSE mixed
  /\ pc' = [pc EXCEPT ![r] = "go"]
  /\ UNCHANGED <<now, running, lock, file, handling, job, resp, faults>>

\* A delete removes the bundle here.
Removes(r) ==
  /\ pc[r] = "sent" /\ req[r].op = "delete"
  /\ file' = [file EXCEPT ![At(r)][req[r].name] = "none"]
  /\ pc' = [pc EXCEPT ![r] = "end"]
  /\ resp' = [resp EXCEPT ![r] = 200]
  /\ UNCHANGED <<now, running, path, cancelFunc, lock, handling, job, mixed, faults>>

\* A step of r that leaves the jobs alone.
Quiet(r) ==
  \E label \in Labels, k \in Codes, t, f \in SUBSET Masters,
     l \in SUBSET (Masters \cup {NoMaster}), s \in Contents :
    Handled(r, label, k, t, f, l, s) /\ Course(r, label, k, t, f, l, s)

-----------------------------------------------------------------------------
(* Types, and the steps as courses. *)

\* A request that is there was sent to a master, and a job is of such a request.
LEMMA Placed ==
  ASSUME TypeOK, Formed, NEW r \in Requests, pc[r] # "free" \/ Active(r)
  PROVE  At(r) \in Masters /\ req[r].name \in Names /\ req[r].op \in Ops /\ req[r] \in Request
BY DEF TypeOK, Formed, Active, At, Request

LEMMA IsQuiet ==
  ASSUME NEW r \in Requests, NEW label \in Labels, NEW k \in Codes,
         NEW t \in SUBSET Masters, NEW f \in SUBSET Masters,
         NEW l \in SUBSET (Masters \cup {NoMaster}), NEW s \in Contents,
         Handled(r, label, k, t, f, l, s), Course(r, label, k, t, f, l, s)
  PROVE  Quiet(r)
BY Zenon DEF Quiet

\* What r knows is typed.
LEMMA Known ==
  ASSUME TypeOK, NEW r \in Requests
  PROVE  /\ todo[r] \in SUBSET Masters /\ found[r] \in SUBSET Masters
         /\ lost[r] \in SUBSET (Masters \cup {NoMaster})
         /\ served[r] \in Contents /\ resp[r] \in Codes
         /\ running \in [Masters -> BOOLEAN] /\ lock \in [Masters -> Requests \cup {NoRequest}]
         /\ faults \in 0..MaxFaults
BY DEF TypeOK, Contents, Codes

\* What is left alone, as an update.
LEMMA Kept ==
  ASSUME TypeOK, NEW r \in Requests
  PROVE  /\ todo = [todo EXCEPT ![r] = todo[r]] /\ found = [found EXCEPT ![r] = found[r]]
         /\ lost = [lost EXCEPT ![r] = lost[r]] /\ served = [served EXCEPT ![r] = served[r]]
         /\ pc = [pc EXCEPT ![r] = pc[r]]
         /\ Formed /\ pc[r] # "end" => resp[r] = 0 /\ resp = [resp EXCEPT ![r] = 0]
<1>1. /\ todo = [todo EXCEPT ![r] = todo[r]] /\ found = [found EXCEPT ![r] = found[r]]
      /\ lost = [lost EXCEPT ![r] = lost[r]] /\ served = [served EXCEPT ![r] = served[r]]
      /\ pc = [pc EXCEPT ![r] = pc[r]] /\ resp = [resp EXCEPT ![r] = resp[r]]
  BY DEF TypeOK
<1> QED BY <1>1 DEF Formed

\* A first look at j.Running.
LEMMA IsRunningIsQuiet ==
  ASSUME TypeOK, Formed, NEW r \in Requests, IsRunning(r)
  PROVE  Quiet(r)
<1> USE Known, Placed, BoundsAssumption DEF Labels, Codes, Contents
<1>0. At(r) \in Masters /\ {At(r)} \in SUBSET Masters /\ pc[r] # "end"
  BY Placed DEF IsRunning, Goto, Answer
<1> USE <1>0
<1>1. CASE running[At(r)] /\ req[r].op = "create"
  <2>1. Handled(r, "end", 409, todo[r], found[r], lost[r], served[r])
    <3>1. /\ Still /\ UNCHANGED <<req, child>>
          /\ lock' \in [Masters -> Requests \cup {NoRequest}] /\ faults' \in 0..MaxFaults
      BY <1>1 DEF Still, master, handling, job, IsRunning, Goto, Answer
    <3>2. pc' = [pc EXCEPT ![r] = "end"] /\ resp' = [resp EXCEPT ![r] = 409]
      BY <1>1, Kept DEF master, handling, job, IsRunning, Goto, Answer
    <3>3. todo' = [todo EXCEPT ![r] = todo[r]] /\ found' = [found EXCEPT ![r] = found[r]]
      BY <1>1, Kept DEF master, handling, job, IsRunning, Goto, Answer
    <3>4. lost' = [lost EXCEPT ![r] = lost[r]] /\ served' = [served EXCEPT ![r] = served[r]]
      BY <1>1, Kept DEF master, handling, job, IsRunning, Goto, Answer
    <3> QED BY <3>1, <3>2, <3>3, <3>4, Zenon DEF Handled
  <2>2. Refuses(r, "end", 409, todo[r], found[r], lost[r], served[r])
    BY <1>1 DEF Refuses, Formed, IsRunning, Goto, Answer
  <2>3. Course(r, "end", 409, todo[r], found[r], lost[r], served[r])
    BY <2>2 DEF Course
  <2> QED BY <2>1, <2>3, IsQuiet
<1>2. CASE running[At(r)] /\ req[r].op # "create"
  <2>1. Handled(r, "cancel", 0, todo[r], found[r], lost[r], served[r])
    <3>1. /\ Still /\ UNCHANGED <<req, child>>
          /\ lock' \in [Masters -> Requests \cup {NoRequest}] /\ faults' \in 0..MaxFaults
      BY <1>2 DEF Still, master, handling, job, IsRunning, Goto, Answer
    <3>2. pc' = [pc EXCEPT ![r] = "cancel"] /\ resp' = [resp EXCEPT ![r] = 0]
      BY <1>2, Kept DEF master, handling, job, IsRunning, Goto, Answer
    <3>3. todo' = [todo EXCEPT ![r] = todo[r]] /\ found' = [found EXCEPT ![r] = found[r]]
      BY <1>2, Kept DEF master, handling, job, IsRunning, Goto, Answer
    <3>4. lost' = [lost EXCEPT ![r] = lost[r]] /\ served' = [served EXCEPT ![r] = served[r]]
      BY <1>2, Kept DEF master, handling, job, IsRunning, Goto, Answer
    <3> QED BY <3>1, <3>2, <3>3, <3>4, Zenon DEF Handled
  <2>2. SeesRunning(r, "cancel", 0, todo[r], found[r], lost[r], served[r])
    BY <1>2 DEF SeesRunning, Formed, IsRunning, Goto, Answer
  <2>3. Course(r, "cancel", 0, todo[r], found[r], lost[r], served[r])
    BY <2>2 DEF Course
  <2> QED BY <2>1, <2>3, IsQuiet
<1>3. CASE ~running[At(r)]
  <2>1. Handled(r, "ask", 0, Masters, found[r], lost[r], served[r])
    <3>1. /\ Still /\ UNCHANGED <<req, child>>
          /\ lock' \in [Masters -> Requests \cup {NoRequest}] /\ faults' \in 0..MaxFaults
      BY <1>3 DEF Still, master, handling, job, IsRunning, Goto, Answer
    <3>2. pc' = [pc EXCEPT ![r] = "ask"] /\ resp' = [resp EXCEPT ![r] = 0]
      BY <1>3, Kept DEF master, handling, job, IsRunning, Goto, Answer
    <3>3. todo' = [todo EXCEPT ![r] = Masters] /\ found' = [found EXCEPT ![r] = found[r]]
      BY <1>3, Kept DEF master, handling, job, IsRunning, Goto, Answer
    <3>4. lost' = [lost EXCEPT ![r] = lost[r]] /\ served' = [served EXCEPT ![r] = served[r]]
      BY <1>3, Kept DEF master, handling, job, IsRunning, Goto, Answer
    <3> QED BY <3>1, <3>2, <3>3, <3>4, Zenon DEF Handled
  <2>2. AsksAll(r, "ask", 0, Masters, found[r], lost[r], served[r])
    BY <1>3 DEF AsksAll, Formed, IsRunning, Goto, Answer
  <2>3. Course(r, "ask", 0, Masters, found[r], lost[r], served[r])
    BY <2>2 DEF Course
  <2> QED BY <2>1, <2>3, IsQuiet
<1> QED BY <1>1, <1>2, <1>3 DEF IsRunning, Goto, Answer

\* A first look for the bundle.
LEMMA DownloadIsQuiet ==
  ASSUME TypeOK, Formed, NEW r \in Requests, Download(r)
  PROVE  Quiet(r)
<1> USE Known, Placed, BoundsAssumption DEF Labels, Codes, Contents
<1>0. At(r) \in Masters /\ {At(r)} \in SUBSET Masters /\ pc[r] # "end"
  BY Placed DEF Download, Goto, IsBundleAvailable
<1> USE <1>0
<1>1. CASE Listed(At(r), req[r].name)
  <2>1. Handled(r, "local", 0, todo[r], {At(r)}, lost[r], served[r])
    <3>1. /\ Still /\ UNCHANGED <<req, child>>
          /\ lock' \in [Masters -> Requests \cup {NoRequest}] /\ faults' \in 0..MaxFaults
      BY <1>1 DEF Still, master, handling, job, Download, Goto, IsBundleAvailable
    <3>2. pc' = [pc EXCEPT ![r] = "local"] /\ resp' = [resp EXCEPT ![r] = 0]
      BY <1>1, Kept DEF master, handling, job, Download, Goto, IsBundleAvailable
    <3>3. todo' = [todo EXCEPT ![r] = todo[r]] /\ found' = [found EXCEPT ![r] = {At(r)}]
      BY <1>1, Kept DEF master, handling, job, Download, Goto, IsBundleAvailable
    <3>4. lost' = [lost EXCEPT ![r] = lost[r]] /\ served' = [served EXCEPT ![r] = served[r]]
      BY <1>1, Kept DEF master, handling, job, Download, Goto, IsBundleAvailable
    <3> QED BY <3>1, <3>2, <3>3, <3>4, Zenon DEF Handled
  <2>2. FindsHere(r, "local", 0, todo[r], {At(r)}, lost[r], served[r])
    BY <1>1 DEF FindsHere, Formed, Download, Goto, IsBundleAvailable, Searches
  <2>3. Course(r, "local", 0, todo[r], {At(r)}, lost[r], served[r])
    BY <2>2 DEF Course
  <2> QED BY <2>1, <2>3, IsQuiet
<1>2. CASE ~Listed(At(r), req[r].name)
  <2>1. Handled(r, "ask", 0, Masters, found[r], lost[r], served[r])
    <3>1. /\ Still /\ UNCHANGED <<req, child>>
          /\ lock' \in [Masters -> Requests \cup {NoRequest}] /\ faults' \in 0..MaxFaults
      BY <1>2 DEF Still, master, handling, job, Download, Goto, IsBundleAvailable
    <3>2. pc' = [pc EXCEPT ![r] = "ask"] /\ resp' = [resp EXCEPT ![r] = 0]
      BY <1>2, Kept DEF master, handling, job, Download, Goto, IsBundleAvailable
    <3>3. todo' = [todo EXCEPT ![r] = Masters] /\ found' = [found EXCEPT ![r] = found[r]]
      BY <1>2, Kept DEF master, handling, job, Download, Goto, IsBundleAvailable
    <3>4. lost' = [lost EXCEPT ![r] = lost[r]] /\ served' = [served EXCEPT ![r] = served[r]]
      BY <1>2, Kept DEF master, handling, job, Download, Goto, IsBundleAvailable
    <3> QED BY <3>1, <3>2, <3>3, <3>4, Zenon DEF Handled
  <2>2. AsksAll(r, "ask", 0, Masters, found[r], lost[r], served[r])
    BY <1>2 DEF AsksAll, Formed, Download, Goto, IsBundleAvailable
  <2>3. Course(r, "ask", 0, Masters, found[r], lost[r], served[r])
    BY <2>2 DEF Course
  <2> QED BY <2>1, <2>3, IsQuiet
<1> QED BY <1>1, <1>2 DEF Download, Goto, IsBundleAvailable

\* A delete that removes nothing here.
LEMMA DeleteIsQuiet ==
  ASSUME TypeOK, Formed, NEW r \in Requests, ~Removes(r), Delete(r)
  PROVE  Quiet(r)
<1> USE Known, Placed, BoundsAssumption DEF Labels, Codes, Contents
<1>0. At(r) \in Masters /\ {At(r)} \in SUBSET Masters /\ pc[r] # "end"
  BY Placed DEF Delete, Fault, NoFault, Goto, Answer, IsBundleAvailable
<1> USE <1>0
<1>a. file[At(r)][req[r].name] # "none" => Fault /\ Answer(r, 503) /\ UNCHANGED <<file, lock, found, todo>>
  BY DEF Delete, Removes, NoFault, Answer, handling
<1>b. UNCHANGED file
  BY DEF Delete, Removes, NoFault, Answer, handling
<1> USE <1>a, <1>b
<1>1. CASE file[At(r)][req[r].name] # "none"
  <2>1. Handled(r, "end", 503, todo[r], found[r], lost[r], served[r])
    <3>1. /\ Still /\ UNCHANGED <<req, child>>
          /\ lock' \in [Masters -> Requests \cup {NoRequest}] /\ faults' \in 0..MaxFaults
      BY <1>1 DEF Still, master, handling, job, Delete, Fault, NoFault,
         Goto, Answer, IsBundleAvailable
    <3>2. pc' = [pc EXCEPT ![r] = "end"] /\ resp' = [resp EXCEPT ![r] = 503]
      BY <1>1, Kept DEF master, handling, job, Delete, Fault, NoFault,
         Goto, Answer, IsBundleAvailable
    <3>3. todo' = [todo EXCEPT ![r] = todo[r]] /\ found' = [found EXCEPT ![r] = found[r]]
      BY <1>1, Kept DEF master, handling, job, Delete, Fault, NoFault,
         Goto, Answer, IsBundleAvailable
    <3>4. lost' = [lost EXCEPT ![r] = lost[r]] /\ served' = [served EXCEPT ![r] = served[r]]
      BY <1>1, Kept DEF master, handling, job, Delete, Fault, NoFault,
         Goto, Answer, IsBundleAvailable
    <3> QED BY <3>1, <3>2, <3>3, <3>4, Zenon DEF Handled
  <2>2. Refuses(r, "end", 503, todo[r], found[r], lost[r], served[r])
    BY <1>1 DEF Refuses, Formed, Delete, Fault, NoFault, Goto, Answer, IsBundleAvailable
  <2>3. Course(r, "end", 503, todo[r], found[r], lost[r], served[r])
    BY <2>2 DEF Course
  <2> QED BY <2>1, <2>3, IsQuiet
<1>2. file[At(r)][req[r].name] = "none" => ~Listed(At(r), req[r].name)
  BY DEF Listed
<1>3. CASE file[At(r)][req[r].name] = "none" /\ ~Listed(At(r), req[r].name)
  <2>1. Handled(r, "ask", 0, Masters, found[r], lost[r], served[r])
    <3>1. /\ Still /\ UNCHANGED <<req, child>>
          /\ lock' \in [Masters -> Requests \cup {NoRequest}] /\ faults' \in 0..MaxFaults
      BY <1>3 DEF Still, master, handling, job, Delete, Fault, NoFault,
         Goto, Answer, IsBundleAvailable
    <3>2. pc' = [pc EXCEPT ![r] = "ask"] /\ resp' = [resp EXCEPT ![r] = 0]
      BY <1>3, Kept DEF master, handling, job, Delete, Fault, NoFault,
         Goto, Answer, IsBundleAvailable
    <3>3. todo' = [todo EXCEPT ![r] = Masters] /\ found' = [found EXCEPT ![r] = found[r]]
      BY <1>3, Kept DEF master, handling, job, Delete, Fault, NoFault,
         Goto, Answer, IsBundleAvailable
    <3>4. lost' = [lost EXCEPT ![r] = lost[r]] /\ served' = [served EXCEPT ![r] = served[r]]
      BY <1>3, Kept DEF master, handling, job, Delete, Fault, NoFault,
         Goto, Answer, IsBundleAvailable
    <3> QED BY <3>1, <3>2, <3>3, <3>4, Zenon DEF Handled
  <2>2. AsksAll(r, "ask", 0, Masters, found[r], lost[r], served[r])
    BY <1>3 DEF AsksAll, Formed, Delete, Fault, NoFault, Goto, Answer, IsBundleAvailable
  <2>3. Course(r, "ask", 0, Masters, found[r], lost[r], served[r])
    BY <2>2 DEF Course
  <2> QED BY <2>1, <2>3, IsQuiet
<1> QED BY <1>1, <1>2, <1>3 DEF Delete, Fault, NoFault, Goto, Answer, IsBundleAvailable

\* A request is sent.
LEMMA SendIsQuiet ==
  ASSUME TypeOK, Formed, NEW r \in Requests, Send(r)
  PROVE  Quiet(r)
<1> USE Known, Placed, BoundsAssumption DEF Labels, Codes, Contents
<1>0. At(r) \in Masters /\ {At(r)} \in SUBSET Masters /\ pc[r] # "end"
  BY Placed DEF Send, Goto
<1> USE <1>0
<1>1. Handled(r, "sent", 0, todo[r], found[r], lost[r], served[r])
  <2>1. /\ Still /\ UNCHANGED <<req, child>>
        /\ lock' \in [Masters -> Requests \cup {NoRequest}] /\ faults' \in 0..MaxFaults
    BY DEF Still, master, handling, job, Send, Goto
  <2>2. pc' = [pc EXCEPT ![r] = "sent"] /\ resp' = [resp EXCEPT ![r] = 0]
    BY Kept DEF master, handling, job, Send, Goto
  <2>3. todo' = [todo EXCEPT ![r] = todo[r]] /\ found' = [found EXCEPT ![r] = found[r]]
    BY Kept DEF master, handling, job, Send, Goto
  <2>4. lost' = [lost EXCEPT ![r] = lost[r]] /\ served' = [served EXCEPT ![r] = served[r]]
    BY Kept DEF master, handling, job, Send, Goto
  <2> QED BY <2>1, <2>2, <2>3, <2>4, Zenon DEF Handled
<1>2. Sends(r, "sent", 0, todo[r], found[r], lost[r], served[r])
  BY DEF Sends, Formed, Send, Goto
<1>3. Course(r, "sent", 0, todo[r], found[r], lost[r], served[r])
  BY <1>2 DEF Course
<1> QED BY <1>1, <1>3, IsQuiet

\* A file is served.
LEMMA ServeIsQuiet ==
  ASSUME TypeOK, Formed, NEW r \in Requests, Serve(r)
  PROVE  Quiet(r)
<1> USE Known, Placed, BoundsAssumption DEF Labels, Codes, Contents
<1>0. At(r) \in Masters /\ {At(r)} \in SUBSET Masters /\ pc[r] # "end"
  BY Placed DEF Serve, Answer
<1> USE <1>0
<1>a. file[At(r)][req[r].name] \in Contents
  BY Placed DEF TypeOK, Serve, Contents
<1> USE <1>a
<1>1. Handled(r, "end", 200, todo[r], found[r], lost[r], file[At(r)][req[r].name])
  <2>1. /\ Still /\ UNCHANGED <<req, child>>
        /\ lock' \in [Masters -> Requests \cup {NoRequest}] /\ faults' \in 0..MaxFaults
    BY DEF Still, master, handling, job, Serve, Answer
  <2>2. pc' = [pc EXCEPT ![r] = "end"] /\ resp' = [resp EXCEPT ![r] = 200]
    BY Kept DEF master, handling, job, Serve, Answer
  <2>3. todo' = [todo EXCEPT ![r] = todo[r]] /\ found' = [found EXCEPT ![r] = found[r]]
    BY Kept DEF master, handling, job, Serve, Answer
  <2>4. lost' = [lost EXCEPT ![r] = lost[r]] /\ served' = [served EXCEPT ![r] = file[At(r)][req[r].name]]
    BY Kept DEF master, handling, job, Serve, Answer
  <2> QED BY <2>1, <2>2, <2>3, <2>4, Zenon DEF Handled
<1>2. Serves(r, "end", 200, todo[r], found[r], lost[r], file[At(r)][req[r].name])
  BY DEF Serves, Formed, Serve, Answer
<1>3. Course(r, "end", 200, todo[r], found[r], lost[r], file[At(r)][req[r].name])
  BY <1>2 DEF Course
<1> QED BY <1>1, <1>3, IsQuiet

\* A download whose file is gone is proxied to nobody.
LEMMA ProxyNowhereIsQuiet ==
  ASSUME TypeOK, Formed, NEW r \in Requests, ProxyNowhere(r)
  PROVE  Quiet(r)
<1> USE Known DEF Labels, Codes, Contents
<1>1. CASE Answer(r, 404)
  <2>1. Handled(r, "end", 404, todo[r], found[r], lost[r] \cup {NoMaster}, served[r])
    <3>1. /\ Still /\ UNCHANGED <<req, child>>
          /\ lock' \in [Masters -> Requests \cup {NoRequest}] /\ faults' \in 0..MaxFaults
      BY DEF Still, master, handling, job, ProxyNowhere
    <3>2. pc' = [pc EXCEPT ![r] = "end"] /\ resp' = [resp EXCEPT ![r] = 404]
      BY <1>1 DEF Answer
    <3>3. todo' = [todo EXCEPT ![r] = todo[r]] /\ found' = [found EXCEPT ![r] = found[r]]
      BY Kept DEF ProxyNowhere
    <3>4. /\ lost' = [lost EXCEPT ![r] = lost[r] \cup {NoMaster}]
          /\ served' = [served EXCEPT ![r] = served[r]]
      BY Kept DEF ProxyNowhere
    <3> QED BY <3>1, <3>2, <3>3, <3>4, Zenon DEF Handled
  <2>2. GoesNowhere(r, "end", 404, todo[r], found[r], lost[r] \cup {NoMaster}, served[r])
    BY DEF GoesNowhere, ProxyNowhere
  <2>3. Course(r, "end", 404, todo[r], found[r], lost[r] \cup {NoMaster}, served[r])
    BY <2>2 DEF Course
  <2> QED BY <2>1, <2>3, IsQuiet
<1>2. CASE Answer(r, 502)
  <2>1. Handled(r, "end", 502, todo[r], found[r], lost[r] \cup {NoMaster}, served[r])
    <3>1. /\ Still /\ UNCHANGED <<req, child>>
          /\ lock' \in [Masters -> Requests \cup {NoRequest}] /\ faults' \in 0..MaxFaults
      BY DEF Still, master, handling, job, ProxyNowhere
    <3>2. pc' = [pc EXCEPT ![r] = "end"] /\ resp' = [resp EXCEPT ![r] = 502]
      BY <1>2 DEF Answer
    <3>3. todo' = [todo EXCEPT ![r] = todo[r]] /\ found' = [found EXCEPT ![r] = found[r]]
      BY Kept DEF ProxyNowhere
    <3>4. /\ lost' = [lost EXCEPT ![r] = lost[r] \cup {NoMaster}]
          /\ served' = [served EXCEPT ![r] = served[r]]
      BY Kept DEF ProxyNowhere
    <3> QED BY <3>1, <3>2, <3>3, <3>4, Zenon DEF Handled
  <2>2. GoesNowhere(r, "end", 502, todo[r], found[r], lost[r] \cup {NoMaster}, served[r])
    BY DEF GoesNowhere, ProxyNowhere
  <2>3. Course(r, "end", 502, todo[r], found[r], lost[r] \cup {NoMaster}, served[r])
    BY <2>2 DEF Course
  <2> QED BY <2>1, <2>3, IsQuiet
<1> QED BY <1>1, <1>2 DEF ProxyNowhere

\* A call times out.
LEMMA TimeOutIsQuiet ==
  ASSUME TypeOK, Formed, NEW r \in Requests, TimeOut(r)
  PROVE  Quiet(r)
<1> USE Known, Placed, BoundsAssumption DEF Labels, Codes, Contents
<1>0. At(r) \in Masters /\ {At(r)} \in SUBSET Masters /\ pc[r] # "end"
  BY Placed DEF TimeOut, Answer, Unlock, Forwards
<1> USE <1>0
<1>1. CASE req[r].op = "download"
  <2>1. Handled(r, "end", 502, todo[r], found[r], lost[r], served[r])
    <3>1. /\ Still /\ UNCHANGED <<req, child>>
          /\ lock' \in [Masters -> Requests \cup {NoRequest}] /\ faults' \in 0..MaxFaults
      BY <1>1 DEF Still, master, handling, job, TimeOut, Answer, Unlock, Forwards
    <3>2. pc' = [pc EXCEPT ![r] = "end"] /\ resp' = [resp EXCEPT ![r] = 502]
      BY <1>1, Kept DEF master, handling, job, TimeOut, Answer, Unlock, Forwards
    <3>3. todo' = [todo EXCEPT ![r] = todo[r]] /\ found' = [found EXCEPT ![r] = found[r]]
      BY <1>1, Kept DEF master, handling, job, TimeOut, Answer, Unlock, Forwards
    <3>4. lost' = [lost EXCEPT ![r] = lost[r]] /\ served' = [served EXCEPT ![r] = served[r]]
      BY <1>1, Kept DEF master, handling, job, TimeOut, Answer, Unlock, Forwards
    <3> QED BY <3>1, <3>2, <3>3, <3>4, Zenon DEF Handled
  <2>2. Refuses(r, "end", 502, todo[r], found[r], lost[r], served[r])
    BY <1>1 DEF Refuses, Formed, TimeOut, Answer, Unlock, Forwards
  <2>3. Course(r, "end", 502, todo[r], found[r], lost[r], served[r])
    BY <2>2 DEF Course
  <2> QED BY <2>1, <2>3, IsQuiet
<1>2. CASE req[r].op # "download"
  <2>1. Handled(r, "end", 503, todo[r], found[r], lost[r], served[r])
    <3>1. /\ Still /\ UNCHANGED <<req, child>>
          /\ lock' \in [Masters -> Requests \cup {NoRequest}] /\ faults' \in 0..MaxFaults
      BY <1>2 DEF Still, master, handling, job, TimeOut, Answer, Unlock, Forwards
    <3>2. pc' = [pc EXCEPT ![r] = "end"] /\ resp' = [resp EXCEPT ![r] = 503]
      BY <1>2, Kept DEF master, handling, job, TimeOut, Answer, Unlock, Forwards
    <3>3. todo' = [todo EXCEPT ![r] = todo[r]] /\ found' = [found EXCEPT ![r] = found[r]]
      BY <1>2, Kept DEF master, handling, job, TimeOut, Answer, Unlock, Forwards
    <3>4. lost' = [lost EXCEPT ![r] = lost[r]] /\ served' = [served EXCEPT ![r] = served[r]]
      BY <1>2, Kept DEF master, handling, job, TimeOut, Answer, Unlock, Forwards
    <3> QED BY <3>1, <3>2, <3>3, <3>4, Zenon DEF Handled
  <2>2. Refuses(r, "end", 503, todo[r], found[r], lost[r], served[r])
    BY <1>2 DEF Refuses, Formed, TimeOut, Answer, Unlock, Forwards
  <2>3. Course(r, "end", 503, todo[r], found[r], lost[r], served[r])
    BY <2>2 DEF Course
  <2> QED BY <2>1, <2>3, IsQuiet
<1> QED BY <1>1, <1>2 DEF TimeOut, Answer, Unlock, Forwards

\* An answer is passed on.
LEMMA ReplyIsQuiet ==
  ASSUME TypeOK, Formed, NEW r \in Requests, Reply(r)
  PROVE  Quiet(r)
<1> USE Known, Placed, BoundsAssumption DEF Labels, Codes, Contents
<1>0. At(r) \in Masters /\ {At(r)} \in SUBSET Masters /\ pc[r] # "end"
  BY Placed DEF Reply, Answer, Unlock
<1> USE <1>0
<1>a. child[r] \in Requests
  BY DEF TypeOK, Formed, Reply
<1> USE <1>a
<1>1. CASE resp[child[r]] = -1
  <2>1. Handled(r, "end", 503, todo[r], found[r], lost[r] \cup lost[child[r]], served[child[r]])
    <3>1. /\ Still /\ UNCHANGED <<req, child>>
          /\ lock' \in [Masters -> Requests \cup {NoRequest}] /\ faults' \in 0..MaxFaults
      BY <1>1 DEF Still, master, handling, job, Reply, Answer, Unlock
    <3>2. pc' = [pc EXCEPT ![r] = "end"] /\ resp' = [resp EXCEPT ![r] = 503]
      BY <1>1, Kept DEF master, handling, job, Reply, Answer, Unlock
    <3>3. todo' = [todo EXCEPT ![r] = todo[r]] /\ found' = [found EXCEPT ![r] = found[r]]
      BY <1>1, Kept DEF master, handling, job, Reply, Answer, Unlock
    <3>4. /\ lost' = [lost EXCEPT ![r] = lost[r] \cup lost[child[r]]]
          /\ served' = [served EXCEPT ![r] = served[child[r]]]
      BY <1>1, Kept DEF master, handling, job, Reply, Answer, Unlock
    <3> QED BY <3>1, <3>2, <3>3, <3>4, Zenon DEF Handled
  <2>2. PassesOn(r, "end", 503, todo[r], found[r], lost[r] \cup lost[child[r]], served[child[r]])
    BY <1>1 DEF PassesOn, Formed, Reply, Answer, Unlock
  <2>3. Course(r, "end", 503, todo[r], found[r], lost[r] \cup lost[child[r]], served[child[r]])
    BY <2>2 DEF Course
  <2> QED BY <2>1, <2>3, IsQuiet
<1>2. CASE resp[child[r]] # -1
  <2>1. Handled(r, "end", resp[child[r]], todo[r], found[r], lost[r] \cup lost[child[r]], served[child[r]])
    <3>1. /\ Still /\ UNCHANGED <<req, child>>
          /\ lock' \in [Masters -> Requests \cup {NoRequest}] /\ faults' \in 0..MaxFaults
      BY <1>2 DEF Still, master, handling, job, Reply, Answer, Unlock
    <3>2. pc' = [pc EXCEPT ![r] = "end"] /\ resp' = [resp EXCEPT ![r] = resp[child[r]]]
      BY <1>2, Kept DEF master, handling, job, Reply, Answer, Unlock
    <3>3. todo' = [todo EXCEPT ![r] = todo[r]] /\ found' = [found EXCEPT ![r] = found[r]]
      BY <1>2, Kept DEF master, handling, job, Reply, Answer, Unlock
    <3>4. /\ lost' = [lost EXCEPT ![r] = lost[r] \cup lost[child[r]]]
          /\ served' = [served EXCEPT ![r] = served[child[r]]]
      BY <1>2, Kept DEF master, handling, job, Reply, Answer, Unlock
    <3> QED BY <3>1, <3>2, <3>3, <3>4, Zenon DEF Handled
  <2>2. PassesOn(r, "end", resp[child[r]], todo[r], found[r], lost[r] \cup lost[child[r]], served[child[r]])
    BY <1>2 DEF PassesOn, Formed, Reply, Answer, Unlock
  <2>3. Course(r, "end", resp[child[r]], todo[r], found[r], lost[r] \cup lost[child[r]], served[child[r]])
    BY <2>2 DEF Course
  <2> QED BY <2>1, <2>3, IsQuiet
<1> QED BY <1>1, <1>2 DEF Reply, Answer, Unlock

\* A create fails before its job starts.
LEMMA PrepareIsQuiet ==
  ASSUME TypeOK, Formed, NEW r \in Requests, ~SetsUp(r), Prepare(r)
  PROVE  Quiet(r)
<1> USE Known, Placed, BoundsAssumption DEF Labels, Codes, Contents
<1>0. At(r) \in Masters /\ {At(r)} \in SUBSET Masters /\ pc[r] # "end"
  BY Placed DEF Prepare, Fault, Answer
<1> USE <1>0
<1>a. Fault /\ Answer(r, 503) /\ UNCHANGED <<path, cancelFunc, mixed>>
  BY DEF Prepare, SetsUp, Goto, NoFault
<1>b. pc[r] = "nodes" /\ UNCHANGED <<now, running, lock, file, handling, job>>
  BY DEF Prepare
<1>1. Handled(r, "end", 503, todo[r], found[r], lost[r], served[r])
  <2>1. /\ Still /\ UNCHANGED <<req, child>>
        /\ lock' \in [Masters -> Requests \cup {NoRequest}] /\ faults' \in 0..MaxFaults
    BY <1>a, <1>b DEF Still, master, handling, job, Fault, Answer
  <2>2. pc' = [pc EXCEPT ![r] = "end"] /\ resp' = [resp EXCEPT ![r] = 503]
    BY <1>a, <1>b, Kept DEF master, handling, job, Fault, Answer
  <2>3. todo' = [todo EXCEPT ![r] = todo[r]] /\ found' = [found EXCEPT ![r] = found[r]]
    BY <1>a, <1>b, Kept DEF master, handling, job, Fault, Answer
  <2>4. lost' = [lost EXCEPT ![r] = lost[r]] /\ served' = [served EXCEPT ![r] = served[r]]
    BY <1>a, <1>b, Kept DEF master, handling, job, Fault, Answer
  <2> QED BY <2>1, <2>2, <2>3, <2>4, Zenon DEF Handled
<1>2. Refuses(r, "end", 503, todo[r], found[r], lost[r], served[r])
  BY <1>a, <1>b DEF Refuses, Formed, Fault, Answer
<1>3. Course(r, "end", 503, todo[r], found[r], lost[r], served[r])
  BY <1>2 DEF Course
<1> QED BY <1>1, <1>3, IsQuiet

\* All masters were asked for a bundle.
LEMMA NotAvailableIsQuiet ==
  ASSUME TypeOK, Formed, NEW r \in Requests, NotAvailable(r)
  PROVE  Quiet(r)
<1> USE Known, Placed, BoundsAssumption DEF Labels, Codes, Contents
<1>0. At(r) \in Masters /\ {At(r)} \in SUBSET Masters /\ pc[r] # "end"
  BY Placed DEF NotAvailable, Goto, Answer, Unlock
<1> USE <1>0
<1>1. CASE found[r] = {}
  <2>1. Handled(r, "end", 404, todo[r], found[r], lost[r], served[r])
    <3>1. /\ Still /\ UNCHANGED <<req, child>>
          /\ lock' \in [Masters -> Requests \cup {NoRequest}] /\ faults' \in 0..MaxFaults
      BY <1>1 DEF Still, master, handling, job, NotAvailable, Goto, Answer, Unlock
    <3>2. pc' = [pc EXCEPT ![r] = "end"] /\ resp' = [resp EXCEPT ![r] = 404]
      BY <1>1, Kept DEF master, handling, job, NotAvailable, Goto, Answer, Unlock
    <3>3. todo' = [todo EXCEPT ![r] = todo[r]] /\ found' = [found EXCEPT ![r] = found[r]]
      BY <1>1, Kept DEF master, handling, job, NotAvailable, Goto, Answer, Unlock
    <3>4. lost' = [lost EXCEPT ![r] = lost[r]] /\ served' = [served EXCEPT ![r] = served[r]]
      BY <1>1, Kept DEF master, handling, job, NotAvailable, Goto, Answer, Unlock
    <3> QED BY <3>1, <3>2, <3>3, <3>4, Zenon DEF Handled
  <2>2. FindsNoBundle(r, "end", 404, todo[r], found[r], lost[r], served[r])
    BY <1>1 DEF FindsNoBundle, Formed, NotAvailable, Goto, Answer, Unlock, Searches
  <2>3. Course(r, "end", 404, todo[r], found[r], lost[r], served[r])
    BY <2>2 DEF Course
  <2> QED BY <2>1, <2>3, IsQuiet
<1>2. CASE found[r] # {}
  <2>1. Handled(r, "forward", 0, todo[r], found[r], lost[r], served[r])
    <3>1. /\ Still /\ UNCHANGED <<req, child>>
          /\ lock' \in [Masters -> Requests \cup {NoRequest}] /\ faults' \in 0..MaxFaults
      BY <1>2 DEF Still, master, handling, job, NotAvailable, Goto, Answer, Unlock
    <3>2. pc' = [pc EXCEPT ![r] = "forward"] /\ resp' = [resp EXCEPT ![r] = 0]
      BY <1>2, Kept DEF master, handling, job, NotAvailable, Goto, Answer, Unlock
    <3>3. todo' = [todo EXCEPT ![r] = todo[r]] /\ found' = [found EXCEPT ![r] = found[r]]
      BY <1>2, Kept DEF master, handling, job, NotAvailable, Goto, Answer, Unlock
    <3>4. lost' = [lost EXCEPT ![r] = lost[r]] /\ served' = [served EXCEPT ![r] = served[r]]
      BY <1>2, Kept DEF master, handling, job, NotAvailable, Goto, Answer, Unlock
    <3> QED BY <3>1, <3>2, <3>3, <3>4, Zenon DEF Handled
  <2>2. FindsSome(r, "forward", 0, todo[r], found[r], lost[r], served[r])
    BY <1>2 DEF FindsSome, Formed, NotAvailable, Goto, Answer, Unlock
  <2>3. Course(r, "forward", 0, todo[r], found[r], lost[r], served[r])
    BY <2>2 DEF Course
  <2> QED BY <2>1, <2>3, IsQuiet
<1> QED BY <1>1, <1>2 DEF NotAvailable, Goto, Answer, Unlock

\* The masters are unknown.
LEMMA NoMastersIsQuiet ==
  ASSUME TypeOK, Formed, NEW r \in Requests, NoMasters(r)
  PROVE  Quiet(r)
<1> USE Known, Placed, BoundsAssumption DEF Labels, Codes, Contents
<1>a. Answer(r, -1) \/ Answer(r, 500) \/ Answer(r, 503)
  BY DEF NoMasters
<1>b. /\ pc[r] = "ask" /\ Fault /\ Unlock(r)
      /\ UNCHANGED <<now, running, path, cancelFunc, file, handling, job, mixed>>
  BY Zenon DEF NoMasters
<1>0. At(r) \in Masters /\ {At(r)} \in SUBSET Masters /\ pc[r] # "end"
  BY <1>b, Placed DEF Fault, Answer, Unlock
<1> USE <1>0
<1>1. CASE Answer(r, -1)
  <2>1. Handled(r, "end", -1, todo[r], found[r], lost[r], served[r])
    <3>1. /\ Still /\ UNCHANGED <<req, child>>
          /\ lock' \in [Masters -> Requests \cup {NoRequest}] /\ faults' \in 0..MaxFaults
      BY <1>1, <1>b DEF Still, master, handling, job, Fault, Answer, Unlock
    <3>2. pc' = [pc EXCEPT ![r] = "end"] /\ resp' = [resp EXCEPT ![r] = -1]
      BY <1>1, Kept, <1>b DEF master, handling, job, Fault, Answer, Unlock
    <3>3. todo' = [todo EXCEPT ![r] = todo[r]] /\ found' = [found EXCEPT ![r] = found[r]]
      BY <1>1, Kept, <1>b DEF master, handling, job, Fault, Answer, Unlock
    <3>4. lost' = [lost EXCEPT ![r] = lost[r]] /\ served' = [served EXCEPT ![r] = served[r]]
      BY <1>1, Kept, <1>b DEF master, handling, job, Fault, Answer, Unlock
    <3> QED BY <3>1, <3>2, <3>3, <3>4, Zenon DEF Handled
  <2>2. Refuses(r, "end", -1, todo[r], found[r], lost[r], served[r])
    BY <1>1, <1>b DEF Refuses, Formed, Fault, Answer, Unlock
  <2>3. Course(r, "end", -1, todo[r], found[r], lost[r], served[r])
    BY <2>2 DEF Course
  <2> QED BY <2>1, <2>3, IsQuiet
<1>2. CASE Answer(r, 500)
  <2>1. Handled(r, "end", 500, todo[r], found[r], lost[r], served[r])
    <3>1. /\ Still /\ UNCHANGED <<req, child>>
          /\ lock' \in [Masters -> Requests \cup {NoRequest}] /\ faults' \in 0..MaxFaults
      BY <1>2, <1>b DEF Still, master, handling, job, Fault, Answer, Unlock
    <3>2. pc' = [pc EXCEPT ![r] = "end"] /\ resp' = [resp EXCEPT ![r] = 500]
      BY <1>2, Kept, <1>b DEF master, handling, job, Fault, Answer, Unlock
    <3>3. todo' = [todo EXCEPT ![r] = todo[r]] /\ found' = [found EXCEPT ![r] = found[r]]
      BY <1>2, Kept, <1>b DEF master, handling, job, Fault, Answer, Unlock
    <3>4. lost' = [lost EXCEPT ![r] = lost[r]] /\ served' = [served EXCEPT ![r] = served[r]]
      BY <1>2, Kept, <1>b DEF master, handling, job, Fault, Answer, Unlock
    <3> QED BY <3>1, <3>2, <3>3, <3>4, Zenon DEF Handled
  <2>2. Refuses(r, "end", 500, todo[r], found[r], lost[r], served[r])
    BY <1>2, <1>b DEF Refuses, Formed, Fault, Answer, Unlock
  <2>3. Course(r, "end", 500, todo[r], found[r], lost[r], served[r])
    BY <2>2 DEF Course
  <2> QED BY <2>1, <2>3, IsQuiet
<1>3. CASE Answer(r, 503)
  <2>1. Handled(r, "end", 503, todo[r], found[r], lost[r], served[r])
    <3>1. /\ Still /\ UNCHANGED <<req, child>>
          /\ lock' \in [Masters -> Requests \cup {NoRequest}] /\ faults' \in 0..MaxFaults
      BY <1>3, <1>b DEF Still, master, handling, job, Fault, Answer, Unlock
    <3>2. pc' = [pc EXCEPT ![r] = "end"] /\ resp' = [resp EXCEPT ![r] = 503]
      BY <1>3, Kept, <1>b DEF master, handling, job, Fault, Answer, Unlock
    <3>3. todo' = [todo EXCEPT ![r] = todo[r]] /\ found' = [found EXCEPT ![r] = found[r]]
      BY <1>3, Kept, <1>b DEF master, handling, job, Fault, Answer, Unlock
    <3>4. lost' = [lost EXCEPT ![r] = lost[r]] /\ served' = [served EXCEPT ![r] = served[r]]
      BY <1>3, Kept, <1>b DEF master, handling, job, Fault, Answer, Unlock
    <3> QED BY <3>1, <3>2, <3>3, <3>4, Zenon DEF Handled
  <2>2. Refuses(r, "end", 503, todo[r], found[r], lost[r], served[r])
    BY <1>3, <1>b DEF Refuses, Formed, Fault, Answer, Unlock
  <2>3. Course(r, "end", 503, todo[r], found[r], lost[r], served[r])
    BY <2>2 DEF Course
  <2> QED BY <2>1, <2>3, IsQuiet
<1> QED BY <1>a, <1>1, <1>2, <1>3

\* What a create makes of the answers.
LEMMA DecideRunIsQuiet ==
  ASSUME TypeOK, Formed, NEW r \in Requests, DecideRun(r)
  PROVE  Quiet(r)
<1> USE Known, Placed, BoundsAssumption DEF Labels, Codes, Contents
<1>a. Answer(r, 503) \/ Answer(r, 409) \/ (lost[r] = {} /\ found[r] = {} /\ Goto(r, "nodes"))
  BY DEF DecideRun, Unsure
<1>b. /\ pc[r] = "ask" /\ todo[r] = {} /\ req[r].op = "create"
      /\ UNCHANGED <<now, master, handling, job, mixed, faults>>
  BY Zenon DEF DecideRun
<1>0. At(r) \in Masters /\ {At(r)} \in SUBSET Masters /\ pc[r] # "end"
  BY <1>b, Placed DEF Goto, Answer
<1> USE <1>0
<1>1. CASE Answer(r, 503)
  <2>1. Handled(r, "end", 503, todo[r], found[r], lost[r], served[r])
    <3>1. /\ Still /\ UNCHANGED <<req, child>>
          /\ lock' \in [Masters -> Requests \cup {NoRequest}] /\ faults' \in 0..MaxFaults
      BY <1>1, <1>b DEF Still, master, handling, job, Goto, Answer
    <3>2. pc' = [pc EXCEPT ![r] = "end"] /\ resp' = [resp EXCEPT ![r] = 503]
      BY <1>1, Kept, <1>b DEF master, handling, job, Goto, Answer
    <3>3. todo' = [todo EXCEPT ![r] = todo[r]] /\ found' = [found EXCEPT ![r] = found[r]]
      BY <1>1, Kept, <1>b DEF master, handling, job, Goto, Answer
    <3>4. lost' = [lost EXCEPT ![r] = lost[r]] /\ served' = [served EXCEPT ![r] = served[r]]
      BY <1>1, Kept, <1>b DEF master, handling, job, Goto, Answer
    <3> QED BY <3>1, <3>2, <3>3, <3>4, Zenon DEF Handled
  <2>2. Refuses(r, "end", 503, todo[r], found[r], lost[r], served[r])
    BY <1>1, <1>b DEF Refuses, Formed, Goto, Answer
  <2>3. Course(r, "end", 503, todo[r], found[r], lost[r], served[r])
    BY <2>2 DEF Course
  <2> QED BY <2>1, <2>3, IsQuiet
<1>2. CASE Answer(r, 409)
  <2>1. Handled(r, "end", 409, todo[r], found[r], lost[r], served[r])
    <3>1. /\ Still /\ UNCHANGED <<req, child>>
          /\ lock' \in [Masters -> Requests \cup {NoRequest}] /\ faults' \in 0..MaxFaults
      BY <1>2, <1>b DEF Still, master, handling, job, Goto, Answer
    <3>2. pc' = [pc EXCEPT ![r] = "end"] /\ resp' = [resp EXCEPT ![r] = 409]
      BY <1>2, Kept, <1>b DEF master, handling, job, Goto, Answer
    <3>3. todo' = [todo EXCEPT ![r] = todo[r]] /\ found' = [found EXCEPT ![r] = found[r]]
      BY <1>2, Kept, <1>b DEF master, handling, job, Goto, Answer
    <3>4. lost' = [lost EXCEPT ![r] = lost[r]] /\ served' = [served EXCEPT ![r] = served[r]]
      BY <1>2, Kept, <1>b DEF master, handling, job, Goto, Answer
    <3> QED BY <3>1, <3>2, <3>3, <3>4, Zenon DEF Handled
  <2>2. Refuses(r, "end", 409, todo[r], found[r], lost[r], served[r])
    BY <1>2, <1>b DEF Refuses, Formed, Goto, Answer
  <2>3. Course(r, "end", 409, todo[r], found[r], lost[r], served[r])
    BY <2>2 DEF Course
  <2> QED BY <2>1, <2>3, IsQuiet
<1>3. CASE lost[r] = {} /\ found[r] = {} /\ Goto(r, "nodes")
  <2>1. Handled(r, "nodes", 0, todo[r], found[r], lost[r], served[r])
    <3>1. /\ Still /\ UNCHANGED <<req, child>>
          /\ lock' \in [Masters -> Requests \cup {NoRequest}] /\ faults' \in 0..MaxFaults
      BY <1>3, <1>b DEF Still, master, handling, job, Goto, Answer
    <3>2. pc' = [pc EXCEPT ![r] = "nodes"] /\ resp' = [resp EXCEPT ![r] = 0]
      BY <1>3, Kept, <1>b DEF master, handling, job, Goto, Answer
    <3>3. todo' = [todo EXCEPT ![r] = todo[r]] /\ found' = [found EXCEPT ![r] = found[r]]
      BY <1>3, Kept, <1>b DEF master, handling, job, Goto, Answer
    <3>4. lost' = [lost EXCEPT ![r] = lost[r]] /\ served' = [served EXCEPT ![r] = served[r]]
      BY <1>3, Kept, <1>b DEF master, handling, job, Goto, Answer
    <3> QED BY <3>1, <3>2, <3>3, <3>4, Zenon DEF Handled
  <2>2. FindsNoJob(r, "nodes", 0, todo[r], found[r], lost[r], served[r])
    BY <1>3, <1>b DEF FindsNoJob, Formed, Goto, Answer
  <2>3. Course(r, "nodes", 0, todo[r], found[r], lost[r], served[r])
    BY <2>2 DEF Course
  <2> QED BY <2>1, <2>3, IsQuiet
<1> QED BY <1>a, <1>1, <1>2, <1>3

\* What a cancel makes of the answers.
LEMMA DecideCancelIsQuiet ==
  ASSUME TypeOK, Formed, NEW r \in Requests, DecideCancel(r)
  PROVE  Quiet(r)
<1> USE Known, Placed, BoundsAssumption DEF Labels, Codes, Contents
<1>a. Answer(r, -1) \/ Answer(r, 503) \/ (found[r] # {} /\ Goto(r, "forward"))
  BY DEF DecideCancel, Unsure
<1>b. /\ pc[r] = "ask" /\ todo[r] = {} /\ req[r].op = "cancel"
      /\ UNCHANGED <<now, master, handling, job, mixed, faults>>
  BY Zenon DEF DecideCancel
<1>0. At(r) \in Masters /\ {At(r)} \in SUBSET Masters /\ pc[r] # "end"
  BY <1>b, Placed DEF Goto, Answer
<1> USE <1>0
<1>1. CASE Answer(r, -1)
  <2>1. Handled(r, "end", -1, todo[r], found[r], lost[r], served[r])
    <3>1. /\ Still /\ UNCHANGED <<req, child>>
          /\ lock' \in [Masters -> Requests \cup {NoRequest}] /\ faults' \in 0..MaxFaults
      BY <1>1, <1>b DEF Still, master, handling, job, Goto, Answer
    <3>2. pc' = [pc EXCEPT ![r] = "end"] /\ resp' = [resp EXCEPT ![r] = -1]
      BY <1>1, Kept, <1>b DEF master, handling, job, Goto, Answer
    <3>3. todo' = [todo EXCEPT ![r] = todo[r]] /\ found' = [found EXCEPT ![r] = found[r]]
      BY <1>1, Kept, <1>b DEF master, handling, job, Goto, Answer
    <3>4. lost' = [lost EXCEPT ![r] = lost[r]] /\ served' = [served EXCEPT ![r] = served[r]]
      BY <1>1, Kept, <1>b DEF master, handling, job, Goto, Answer
    <3> QED BY <3>1, <3>2, <3>3, <3>4, Zenon DEF Handled
  <2>2. Refuses(r, "end", -1, todo[r], found[r], lost[r], served[r])
    BY <1>1, <1>b DEF Refuses, Formed, Goto, Answer
  <2>3. Course(r, "end", -1, todo[r], found[r], lost[r], served[r])
    BY <2>2 DEF Course
  <2> QED BY <2>1, <2>3, IsQuiet
<1>2. CASE Answer(r, 503)
  <2>1. Handled(r, "end", 503, todo[r], found[r], lost[r], served[r])
    <3>1. /\ Still /\ UNCHANGED <<req, child>>
          /\ lock' \in [Masters -> Requests \cup {NoRequest}] /\ faults' \in 0..MaxFaults
      BY <1>2, <1>b DEF Still, master, handling, job, Goto, Answer
    <3>2. pc' = [pc EXCEPT ![r] = "end"] /\ resp' = [resp EXCEPT ![r] = 503]
      BY <1>2, Kept, <1>b DEF master, handling, job, Goto, Answer
    <3>3. todo' = [todo EXCEPT ![r] = todo[r]] /\ found' = [found EXCEPT ![r] = found[r]]
      BY <1>2, Kept, <1>b DEF master, handling, job, Goto, Answer
    <3>4. lost' = [lost EXCEPT ![r] = lost[r]] /\ served' = [served EXCEPT ![r] = served[r]]
      BY <1>2, Kept, <1>b DEF master, handling, job, Goto, Answer
    <3> QED BY <3>1, <3>2, <3>3, <3>4, Zenon DEF Handled
  <2>2. Refuses(r, "end", 503, todo[r], found[r], lost[r], served[r])
    BY <1>2, <1>b DEF Refuses, Formed, Goto, Answer
  <2>3. Course(r, "end", 503, todo[r], found[r], lost[r], served[r])
    BY <2>2 DEF Course
  <2> QED BY <2>1, <2>3, IsQuiet
<1>3. CASE found[r] # {} /\ Goto(r, "forward")
  <2>1. Handled(r, "forward", 0, todo[r], found[r], lost[r], served[r])
    <3>1. /\ Still /\ UNCHANGED <<req, child>>
          /\ lock' \in [Masters -> Requests \cup {NoRequest}] /\ faults' \in 0..MaxFaults
      BY <1>3, <1>b DEF Still, master, handling, job, Goto, Answer
    <3>2. pc' = [pc EXCEPT ![r] = "forward"] /\ resp' = [resp EXCEPT ![r] = 0]
      BY <1>3, Kept, <1>b DEF master, handling, job, Goto, Answer
    <3>3. todo' = [todo EXCEPT ![r] = todo[r]] /\ found' = [found EXCEPT ![r] = found[r]]
      BY <1>3, Kept, <1>b DEF master, handling, job, Goto, Answer
    <3>4. lost' = [lost EXCEPT ![r] = lost[r]] /\ served' = [served EXCEPT ![r] = served[r]]
      BY <1>3, Kept, <1>b DEF master, handling, job, Goto, Answer
    <3> QED BY <3>1, <3>2, <3>3, <3>4, Zenon DEF Handled
  <2>2. FindsSome(r, "forward", 0, todo[r], found[r], lost[r], served[r])
    BY <1>3, <1>b DEF FindsSome, Formed, Goto, Answer
  <2>3. Course(r, "forward", 0, todo[r], found[r], lost[r], served[r])
    BY <2>2 DEF Course
  <2> QED BY <2>1, <2>3, IsQuiet
<1> QED BY <1>a, <1>1, <1>2, <1>3

\* A master is asked for its job.
LEMMA AskStatusIsQuiet ==
  ASSUME TypeOK, Formed, NEW r \in Requests, NEW m \in Masters, AskStatus(r, m)
  PROVE  Quiet(r)
<1> USE Known DEF Labels, Codes, Contents
<1>a. ~running[m] => ~Yes(r, m)
  BY DEF AskStatus, Yes
<1>1. CASE found' = [found EXCEPT ![r] = @ \cup {m}] /\ UNCHANGED lost
  <2>1. Handled(r, "ask", 0, todo[r] \ {m}, found[r] \cup {m}, lost[r], served[r])
    <3>1. /\ Still /\ UNCHANGED <<req, child>>
          /\ lock' \in [Masters -> Requests \cup {NoRequest}] /\ faults' \in 0..MaxFaults
      BY DEF Still, master, handling, job, AskStatus, Stay
    <3>2. pc' = [pc EXCEPT ![r] = "ask"] /\ resp' = [resp EXCEPT ![r] = 0]
      BY Kept DEF master, handling, job, AskStatus, Stay
    <3>3. todo' = [todo EXCEPT ![r] = todo[r] \ {m}] /\ found' = [found EXCEPT ![r] = found[r] \cup {m}]
      BY <1>1, Kept DEF AskStatus
    <3>4. lost' = [lost EXCEPT ![r] = lost[r]] /\ served' = [served EXCEPT ![r] = served[r]]
      BY <1>1, Kept DEF AskStatus
    <3> QED BY <3>1, <3>2, <3>3, <3>4, Zenon DEF Handled
  <2>2. Asks(r, "ask", 0, todo[r] \ {m}, found[r] \cup {m}, lost[r], served[r])
    BY <1>1, <1>a DEF Asks, Searches, AskStatus
  <2>3. Course(r, "ask", 0, todo[r] \ {m}, found[r] \cup {m}, lost[r], served[r])
    BY <2>2 DEF Course
  <2> QED BY <2>1, <2>3, IsQuiet
<1>2. CASE UNCHANGED <<found, lost>> /\ ~running[m]
  <2>1. Handled(r, "ask", 0, todo[r] \ {m}, found[r], lost[r], served[r])
    <3>1. /\ Still /\ UNCHANGED <<req, child>>
          /\ lock' \in [Masters -> Requests \cup {NoRequest}] /\ faults' \in 0..MaxFaults
      BY DEF Still, master, handling, job, AskStatus, Stay
    <3>2. pc' = [pc EXCEPT ![r] = "ask"] /\ resp' = [resp EXCEPT ![r] = 0]
      BY Kept DEF master, handling, job, AskStatus, Stay
    <3>3. todo' = [todo EXCEPT ![r] = todo[r] \ {m}] /\ found' = [found EXCEPT ![r] = found[r]]
      BY <1>2, Kept DEF AskStatus
    <3>4. lost' = [lost EXCEPT ![r] = lost[r]] /\ served' = [served EXCEPT ![r] = served[r]]
      BY <1>2, Kept DEF AskStatus
    <3> QED BY <3>1, <3>2, <3>3, <3>4, Zenon DEF Handled
  <2>2. Asks(r, "ask", 0, todo[r] \ {m}, found[r], lost[r], served[r])
    BY <1>2, <1>a DEF Asks, Searches, AskStatus
  <2>3. Course(r, "ask", 0, todo[r] \ {m}, found[r], lost[r], served[r])
    BY <2>2 DEF Course
  <2> QED BY <2>1, <2>3, IsQuiet
<1>3. CASE UNCHANGED found /\ lost' = [lost EXCEPT ![r] = @ \cup {m}]
  <2>1. Handled(r, "ask", 0, todo[r] \ {m}, found[r], lost[r] \cup {m}, served[r])
    <3>1. /\ Still /\ UNCHANGED <<req, child>>
          /\ lock' \in [Masters -> Requests \cup {NoRequest}] /\ faults' \in 0..MaxFaults
      BY DEF Still, master, handling, job, AskStatus, Stay
    <3>2. pc' = [pc EXCEPT ![r] = "ask"] /\ resp' = [resp EXCEPT ![r] = 0]
      BY Kept DEF master, handling, job, AskStatus, Stay
    <3>3. todo' = [todo EXCEPT ![r] = todo[r] \ {m}] /\ found' = [found EXCEPT ![r] = found[r]]
      BY <1>3, Kept DEF AskStatus
    <3>4. lost' = [lost EXCEPT ![r] = lost[r] \cup {m}] /\ served' = [served EXCEPT ![r] = served[r]]
      BY <1>3, Kept DEF AskStatus
    <3> QED BY <3>1, <3>2, <3>3, <3>4, Zenon DEF Handled
  <2>2. Asks(r, "ask", 0, todo[r] \ {m}, found[r], lost[r] \cup {m}, served[r])
    BY <1>3, <1>a DEF Asks, Searches, AskStatus
  <2>3. Course(r, "ask", 0, todo[r] \ {m}, found[r], lost[r] \cup {m}, served[r])
    BY <2>2 DEF Course
  <2> QED BY <2>1, <2>3, IsQuiet
<1>4. CASE ~running[m]
  BY <1>4, <1>2, <1>3, Kept DEF AskStatus
<1>5. CASE running[m]
  BY <1>5, <1>1, <1>3, Kept DEF AskStatus
<1> QED BY <1>4, <1>5

\* A master is asked for the bundle.
LEMMA AskListIsQuiet ==
  ASSUME TypeOK, Formed, NEW r \in Requests, NEW m \in Masters, AskList(r, m)
  PROVE  Quiet(r)
<1> USE Known DEF Labels, Codes, Contents
<1>a. ~Listed(m, req[r].name) => ~Yes(r, m)
  BY DEF AskList, Yes
<1>1. CASE found' = [found EXCEPT ![r] = @ \cup {m}] /\ UNCHANGED lost /\ Listed(m, req[r].name)
  <2>1. Handled(r, "ask", 0, todo[r] \ {m}, found[r] \cup {m}, lost[r], served[r])
    <3>1. /\ Still /\ UNCHANGED <<req, child>>
          /\ lock' \in [Masters -> Requests \cup {NoRequest}] /\ faults' \in 0..MaxFaults
      BY DEF Still, master, handling, job, AskList, Stay
    <3>2. pc' = [pc EXCEPT ![r] = "ask"] /\ resp' = [resp EXCEPT ![r] = 0]
      BY Kept DEF master, handling, job, AskList, Stay
    <3>3. todo' = [todo EXCEPT ![r] = todo[r] \ {m}] /\ found' = [found EXCEPT ![r] = found[r] \cup {m}]
      BY <1>1, Kept DEF AskList
    <3>4. lost' = [lost EXCEPT ![r] = lost[r]] /\ served' = [served EXCEPT ![r] = served[r]]
      BY <1>1, Kept DEF AskList
    <3> QED BY <3>1, <3>2, <3>3, <3>4, Zenon DEF Handled
  <2>2. Asks(r, "ask", 0, todo[r] \ {m}, found[r] \cup {m}, lost[r], served[r])
    BY <1>1, <1>a DEF Asks, Searches, AskList
  <2>3. Course(r, "ask", 0, todo[r] \ {m}, found[r] \cup {m}, lost[r], served[r])
    BY <2>2 DEF Course
  <2> QED BY <2>1, <2>3, IsQuiet
<1>2. CASE UNCHANGED <<found, lost>> /\ ~Listed(m, req[r].name)
  <2>1. Handled(r, "ask", 0, todo[r] \ {m}, found[r], lost[r], served[r])
    <3>1. /\ Still /\ UNCHANGED <<req, child>>
          /\ lock' \in [Masters -> Requests \cup {NoRequest}] /\ faults' \in 0..MaxFaults
      BY DEF Still, master, handling, job, AskList, Stay
    <3>2. pc' = [pc EXCEPT ![r] = "ask"] /\ resp' = [resp EXCEPT ![r] = 0]
      BY Kept DEF master, handling, job, AskList, Stay
    <3>3. todo' = [todo EXCEPT ![r] = todo[r] \ {m}] /\ found' = [found EXCEPT ![r] = found[r]]
      BY <1>2, Kept DEF AskList
    <3>4. lost' = [lost EXCEPT ![r] = lost[r]] /\ served' = [served EXCEPT ![r] = served[r]]
      BY <1>2, Kept DEF AskList
    <3> QED BY <3>1, <3>2, <3>3, <3>4, Zenon DEF Handled
  <2>2. Asks(r, "ask", 0, todo[r] \ {m}, found[r], lost[r], served[r])
    BY <1>2, <1>a DEF Asks, Searches, AskList
  <2>3. Course(r, "ask", 0, todo[r] \ {m}, found[r], lost[r], served[r])
    BY <2>2 DEF Course
  <2> QED BY <2>1, <2>3, IsQuiet
<1>3. CASE UNCHANGED found /\ lost' = [lost EXCEPT ![r] = @ \cup {m}]
  <2>1. Handled(r, "ask", 0, todo[r] \ {m}, found[r], lost[r] \cup {m}, served[r])
    <3>1. /\ Still /\ UNCHANGED <<req, child>>
          /\ lock' \in [Masters -> Requests \cup {NoRequest}] /\ faults' \in 0..MaxFaults
      BY DEF Still, master, handling, job, AskList, Stay
    <3>2. pc' = [pc EXCEPT ![r] = "ask"] /\ resp' = [resp EXCEPT ![r] = 0]
      BY Kept DEF master, handling, job, AskList, Stay
    <3>3. todo' = [todo EXCEPT ![r] = todo[r] \ {m}] /\ found' = [found EXCEPT ![r] = found[r]]
      BY <1>3, Kept DEF AskList
    <3>4. lost' = [lost EXCEPT ![r] = lost[r] \cup {m}] /\ served' = [served EXCEPT ![r] = served[r]]
      BY <1>3, Kept DEF AskList
    <3> QED BY <3>1, <3>2, <3>3, <3>4, Zenon DEF Handled
  <2>2. Asks(r, "ask", 0, todo[r] \ {m}, found[r], lost[r] \cup {m}, served[r])
    BY <1>3, <1>a DEF Asks, Searches, AskList
  <2>3. Course(r, "ask", 0, todo[r] \ {m}, found[r], lost[r] \cup {m}, served[r])
    BY <2>2 DEF Course
  <2> QED BY <2>1, <2>3, IsQuiet
<1>4. CASE ~Listed(m, req[r].name)
  BY <1>4, <1>2, <1>3, Kept DEF AskList
<1>5. CASE Listed(m, req[r].name)
  BY <1>5, <1>1, <1>3, Kept DEF AskList
<1> QED BY <1>4, <1>5

\* Every step is quiet or one of ten that change a job or forward a request.
LEMMA Split ==
  ASSUME TypeOK, Formed, Next
  PROVE  /\ Record
         /\ \/ \E r \in Requests :
                 \/ Quiet(r) \/ Opens(r) \/ OpensNot(r) \/ CloseZip(r) \/ Stop(r)
                 \/ CancelLocal(r) \/ SetsUp(r) \/ Go(r) \/ Removes(r)
                 \/ \E m \in Masters, c \in Requests : Forward(r, m, c)
            \/ Tick
<1>1. Record
  BY DEF Next, Step, Work
<1>2. ASSUME NEW r \in Requests, HandlerStep(r)
      PROVE  \/ Quiet(r) \/ CancelLocal(r) \/ SetsUp(r) \/ Go(r) \/ Removes(r)
             \/ \E m \in Masters, c \in Requests : Forward(r, m, c)
  BY <1>2, IsRunningIsQuiet, DecideRunIsQuiet, DecideCancelIsQuiet, PrepareIsQuiet, NoMastersIsQuiet,
     NotAvailableIsQuiet, DeleteIsQuiet, DownloadIsQuiet, ServeIsQuiet, ProxyNowhereIsQuiet,
     AskStatusIsQuiet, AskListIsQuiet, ReplyIsQuiet, TimeOutIsQuiet DEF HandlerStep
<1>3. ASSUME NEW r \in Requests, CreateZip(r)
      PROVE  Opens(r) \/ OpensNot(r)
  BY <1>3, Known, BoundsAssumption DEF CreateZip, Fault, NoFault, Opens, OpensNot, master, handling
<1> QED BY <1>1, <1>2, <1>3, SendIsQuiet DEF Next, Step, Work, JobStep

\* What the history is after a step.
LEMMA History ==
  ASSUME TypeOK, Record
  PROVE  /\ before' \in [Requests -> SUBSET Masters] /\ past' \in [Requests -> SUBSET Requests]
         /\ \A r \in Requests :
              /\ pc[r] \notin {"free", "idle"} => before'[r] \subseteq before[r] /\ past'[r] = past[r]
              /\ pc[r] = "end" => before'[r] = before[r]
              /\ pc[r] # "end" => \A m \in before'[r] : Yes(r, m)'
              /\ pc[r] \notin {"free", "idle", "end"} /\ pc'[r] \notin {"free", "idle"} =>
                   before'[r] = {m \in before[r] : Yes(r, m)'}
              /\ pc[r] \in {"free", "idle"} /\ pc'[r] \notin {"free", "idle"} =>
                   before'[r] = {m \in Masters : Yes(r, m)'}
              /\ pc[r] \in {"free", "idle"} /\ pc'[r] = "sent" =>
                   past'[r] = {x \in Requests : jpc[x] = "end"}
              /\ pc'[r] # "sent" => past'[r] = past[r]
<1>1. before' \in [Requests -> SUBSET Masters]
  BY ZenonT(30) DEF TypeOK, Record
<1>2. past' \in [Requests -> SUBSET Requests]
  BY DEF TypeOK, Record
<1>3. ASSUME NEW r \in Requests
      PROVE  /\ pc[r] \notin {"free", "idle"} => before'[r] \subseteq before[r]
             /\ pc[r] = "end" => before'[r] = before[r]
             /\ pc[r] # "end" => \A m \in before'[r] : Yes(r, m)'
             /\ pc[r] \notin {"free", "idle", "end"} /\ pc'[r] \notin {"free", "idle"} =>
                  before'[r] = {m \in before[r] : Yes(r, m)'}
             /\ pc[r] \in {"free", "idle"} /\ pc'[r] \notin {"free", "idle"} =>
                  before'[r] = {m \in Masters : Yes(r, m)'}
  <2> HIDE DEF Yes
  <2>1. before'[r] = IF pc[r] = "end" THEN before[r]
                     ELSE {m \in IF pc[r] \in {"free", "idle"} THEN Masters ELSE before[r] :
                             pc'[r] \notin {"free", "idle"} /\ Yes(r, m)'}
    BY <1>3, Zenon DEF Record
  <2>2. CASE pc[r] = "end"
    BY <2>1, <2>2
  <2>3. CASE pc[r] # "end" /\ pc[r] \in {"free", "idle"}
    BY <2>1, <2>3
  <2>4. CASE pc[r] # "end" /\ pc[r] \notin {"free", "idle"}
    BY <2>1, <2>4
  <2> QED BY <2>2, <2>3, <2>4
<1>4. ASSUME NEW r \in Requests
      PROVE  past'[r] = IF pc[r] \in {"free", "idle"} /\ pc'[r] = "sent"
                          THEN {x \in Requests : jpc[x] = "end"} ELSE past[r]
  BY <1>4, Zenon DEF Record
<1> QED BY <1>1, <1>2, <1>3, <1>4

\* A step that leaves the jobs alone keeps the types.
LEMMA TypeQuiet ==
  ASSUME TypeOK, Formed, NEW r \in Requests, Quiet(r), Record
  PROVE  TypeOK'
<1> PICK label \in Labels, k \in Codes, t \in SUBSET Masters, f \in SUBSET Masters,
         l \in SUBSET (Masters \cup {NoMaster}), s \in Contents : Handled(r, label, k, t, f, l, s)
  BY Zenon DEF Quiet
<1> QED BY History DEF TypeOK, Handled, Still, Labels, Codes, Contents

\* Every step keeps the types.
LEMMA TypeStep ==
  ASSUME TypeOK, Formed, SetBefore, Next
  PROVE  TypeOK'
<1> USE Split, History, BoundsAssumption, RequestsAssumption DEF master, handling, job
<1>0. ASSUME NEW r \in Requests, OpensNot(r)
      PROVE  TypeOK'
  BY <1>0 DEF OpensNot, TypeOK
<1>1. ASSUME NEW r \in Requests, Opens(r)
      PROVE  TypeOK'
  <2>1. At(r) \in Masters /\ Active(r)
    BY <1>1, Placed DEF Opens, Active
  <2>2. cancelFunc[At(r)] # NoRequest
    BY <2>1 DEF SetBefore
  <2>3. path[At(r)] \in Names
    BY <2>1, <2>2 DEF SetBefore, TypeOK
  <2> QED BY <1>1, <2>1, <2>3 DEF Opens, TypeOK
<1>2. ASSUME NEW r \in Requests, CloseZip(r)
      PROVE  TypeOK'
  <2>1. At(r) \in Masters /\ jname[r] \in Names
    BY <1>2, Placed DEF CloseZip, TypeOK, SetBefore, Active
  <2> QED BY <1>2, <2>1 DEF CloseZip, TypeOK
<1>3. ASSUME NEW r \in Requests, Stop(r)
      PROVE  TypeOK'
  BY <1>3, Placed, ZenonT(30) DEF Stop, TypeOK, Active
<1>4. ASSUME NEW r \in Requests, CancelLocal(r)
      PROVE  TypeOK'
  BY <1>4, Placed DEF CancelLocal, Answer, TypeOK, SetBefore
<1>5. ASSUME NEW r \in Requests, SetsUp(r)
      PROVE  TypeOK'
  <2>1. At(r) \in Masters /\ now \in Names
    BY <1>5, Placed DEF SetsUp, TypeOK, Names
  <2> QED BY <1>5, <2>1 DEF SetsUp, SetUp, TypeOK
<1>6. ASSUME NEW r \in Requests, Go(r)
      PROVE  TypeOK'
  BY <1>6, Placed DEF Go, Answer, TypeOK
<1>7. ASSUME NEW r \in Requests, Removes(r)
      PROVE  TypeOK'
  BY <1>7, Placed DEF Removes, TypeOK
<1>8. ASSUME NEW r \in Requests, NEW m \in Masters, NEW c \in Requests, Forward(r, m, c)
      PROVE  TypeOK'
  <2>1. [req[r] EXCEPT !.at = m] \in Request
    BY <1>8, Placed DEF Forward, Forwards, Request
  <2> QED BY <1>8, <2>1, ZenonT(30) DEF Forward, Forwards, TypeOK
<1>9. ASSUME Tick
      PROVE  TypeOK'
  BY <1>9 DEF Tick, TypeOK
<1> QED BY <1>0, <1>1, <1>2, <1>3, <1>4, <1>5, <1>6, <1>7, <1>8, <1>9, TypeQuiet

-----------------------------------------------------------------------------
(* Where requests can be, and what is set before it is used. *)

\* A step that leaves the jobs alone keeps requests formed.
LEMMA FormedQuiet ==
  ASSUME TypeOK, Formed, NEW r \in Requests, Quiet(r)
  PROVE  Formed'
<1> PICK label \in Labels, k \in Codes, t \in SUBSET Masters, f \in SUBSET Masters,
         l \in SUBSET (Masters \cup {NoMaster}), s \in Contents :
           Handled(r, label, k, t, f, l, s) /\ Course(r, label, k, t, f, l, s)
  BY Zenon DEF Quiet
<1>1. /\ pc[r] \notin {"free", "end"}
      /\ label # "end" => k = 0 /\ s = served[r]
      /\ label \in {"nodes", "go"} => req[r].op = "create"
      /\ label = "cancel" => req[r].op = "cancel"
      /\ label = "local" => req[r].op = "download" /\ f # {}
      /\ label \in {"forward", "wait"} => req[r].op # "create" /\ f # {}
      /\ label \in {"free", "idle", "sent"} => f = {}
      /\ child[r] # NoRequest => label \in {"wait", "end"}
      /\ label # "wait"
  BY DEF Formed, Course, Sends, Refuses, SeesRunning, AsksAll, Asks, FindsNoJob, FindsSome,
         FindsNoBundle, FindsHere, Serves, GoesNowhere, PassesOn, Searches, Labels
<1>2. /\ pc' = [pc EXCEPT ![r] = label] /\ resp' = [resp EXCEPT ![r] = k]
      /\ found' = [found EXCEPT ![r] = f] /\ served' = [served EXCEPT ![r] = s]
      /\ UNCHANGED <<jpc, req, child>>
  BY DEF Handled, Still
<1> QED BY <1>1, <1>2 DEF Formed, TypeOK

\* Every step keeps requests formed.
LEMMA FormedStep ==
  ASSUME TypeOK, Formed, SetBefore, Next
  PROVE  Formed'
<1> USE Split, RequestsAssumption DEF master, handling, job
<1>1. ASSUME NEW r \in Requests, Opens(r) \/ OpensNot(r) \/ CloseZip(r) \/ Stop(r)
      PROVE  Formed'
  BY <1>1 DEF Opens, OpensNot, CloseZip, Stop, TypeOK, Formed
<1>2. ASSUME NEW r \in Requests, CancelLocal(r)
      PROVE  Formed'
  BY <1>2 DEF CancelLocal, Answer, TypeOK, Formed
<1>3. ASSUME NEW r \in Requests, SetsUp(r)
      PROVE  Formed'
  BY <1>3 DEF SetsUp, TypeOK, Formed
<1>4. ASSUME NEW r \in Requests, Go(r)
      PROVE  Formed'
  BY <1>4 DEF Go, Answer, TypeOK, Formed
<1>5. ASSUME NEW r \in Requests, Removes(r)
      PROVE  Formed'
  BY <1>5 DEF Removes, TypeOK, Formed
<1>6. ASSUME NEW r \in Requests, NEW m \in Masters, NEW c \in Requests, Forward(r, m, c)
      PROVE  Formed'
  <2>1. [req[r] EXCEPT !.at = m] \in Request
    BY <1>6, Placed DEF Forward, Forwards, Request
  <2> QED BY <1>6, <2>1 DEF Forward, Forwards, TypeOK, Formed
<1>7. ASSUME Tick
      PROVE  Formed'
  BY <1>7 DEF Tick, Formed
<1> QED BY <1>1, <1>2, <1>3, <1>4, <1>5, <1>6, <1>7, FormedQuiet

\* The fields of a job are set before they are used.
LEMMA SetBeforeStep ==
  ASSUME TypeOK, Formed, SetBefore, Next
  PROVE  SetBefore'
<1> USE Split, RequestsAssumption, BoundsAssumption DEF master, handling, job
<1>0. ASSUME NEW r \in Requests, Quiet(r)
      PROVE  SetBefore'
  <2> PICK label \in Labels, k \in Codes, t \in SUBSET Masters, f \in SUBSET Masters,
           l \in SUBSET (Masters \cup {NoMaster}), s \in Contents :
             Handled(r, label, k, t, f, l, s) /\ Course(r, label, k, t, f, l, s)
    BY <1>0, Zenon DEF Quiet
  <2>1. /\ label # "go" /\ pc[r] # "free"
        /\ label = "cancel" => running[At(r)]
    BY DEF Formed, Course, Sends, Refuses, SeesRunning, AsksAll, Asks, FindsNoJob, FindsSome,
           FindsNoBundle, FindsHere, Serves, GoesNowhere, PassesOn, Searches, Labels
  <2>2. label = "cancel" => cancelFunc[At(r)] # NoRequest
    BY <2>1, Placed DEF SetBefore
  <2> QED BY <2>1, <2>2 DEF Handled, Still, SetBefore, Active, At, TypeOK
<1>1. ASSUME NEW r \in Requests, Opens(r)
      PROVE  SetBefore'
  <2>1. At(r) \in Masters /\ Active(r)
    BY <1>1, Placed DEF Opens, Active
  <2>2. path[At(r)] # 0
    BY <2>1 DEF SetBefore
  <2> QED BY <1>1, <2>1, <2>2 DEF Opens, SetBefore, Active, At, TypeOK
<1>2. ASSUME NEW r \in Requests, OpensNot(r) \/ CloseZip(r)
      PROVE  SetBefore'
  <2>1. /\ UNCHANGED <<running, path, cancelFunc, req, pc, jname>>
        /\ Active(r) /\ jpc' = [jpc EXCEPT ![r] = "stop"]
    BY <1>2 DEF OpensNot, CloseZip, Active
  <2>2. \A x \in Requests : /\ Active(x)' => Active(x)
                            /\ jpc'[x] = jpc[x] \/ jpc'[x] = "stop"
    BY <2>1 DEF Active, TypeOK
  <2> QED BY <2>1, <2>2 DEF SetBefore, At
<1>3. ASSUME NEW r \in Requests, Stop(r)
      PROVE  SetBefore'
  BY <1>3, Placed DEF Stop, SetBefore, Active, At, TypeOK
<1>4. ASSUME NEW r \in Requests, CancelLocal(r)
      PROVE  SetBefore'
  BY <1>4 DEF CancelLocal, Answer, SetBefore, Active, At, TypeOK
<1>5. ASSUME NEW r \in Requests, SetsUp(r)
      PROVE  SetBefore'
  <2>1. At(r) \in Masters
    BY <1>5, Placed DEF SetsUp
  <2>2. ASSUME NEW x \in Requests
        PROVE  Active(x)' = Active(x) /\ At(x)' = At(x) /\ (x # r => pc'[x] = pc[x])
    BY <1>5 DEF SetsUp, Active, At, TypeOK
  <2>3. ASSUME NEW m \in Masters
        PROVE  /\ path'[m] = IF m = At(r) THEN now ELSE path[m]
               /\ cancelFunc'[m] = IF m = At(r) THEN r ELSE cancelFunc[m]
               /\ running'[m] = running[m]
    BY <1>5, <2>1 DEF SetsUp, SetUp, TypeOK
  <2>4. now >= Start /\ now # 0 /\ r # NoRequest
    BY DEF TypeOK
  <2>5. jpc' = jpc /\ jname' = jname
    BY <1>5 DEF SetsUp
  <2>6. ASSUME NEW x \in Requests, (Active(x) \/ pc[x] \in {"go", "cancel"})'
        PROVE  cancelFunc'[At(x)'] # NoRequest
    <3>1. CASE x = r
      BY <2>1, <2>2, <2>3, <2>4, <3>1
    <3>2. CASE x # r
      <4>1. Active(x) \/ pc[x] \in {"go", "cancel"}
        BY <2>2, <2>6, <3>2
      <4>2. At(x) \in Masters /\ cancelFunc[At(x)] # NoRequest
        BY <4>1, Placed DEF SetBefore
      <4> QED BY <2>2, <2>3, <2>4, <4>2
    <3> QED BY <3>1, <3>2
  <2> QED BY <2>3, <2>4, <2>5, <2>6 DEF SetBefore
<1>6. ASSUME NEW r \in Requests, Go(r)
      PROVE  SetBefore'
  <2>1. At(r) \in Masters /\ cancelFunc[At(r)] # NoRequest
    BY <1>6, Placed DEF Go, SetBefore
  <2>2. \A m \in Masters : running'[m] => running[m] \/ m = At(r)
    BY <1>6, <2>1 DEF Go, TypeOK
  <2>3. /\ jpc' = [jpc EXCEPT ![r] = "begin"] /\ pc' = [pc EXCEPT ![r] = "end"]
        /\ UNCHANGED <<path, cancelFunc, jname, req>> /\ pc[r] = "go"
    BY <1>6 DEF Go, Answer
  <2>4. \A m \in Masters : running'[m] => cancelFunc'[m] # NoRequest
    BY <2>1, <2>2, <2>3 DEF SetBefore
  <2>5. ASSUME NEW x \in Requests, (Active(x) \/ pc[x] \in {"go", "cancel"})'
        PROVE  cancelFunc'[At(x)'] # NoRequest
    BY <2>1, <2>3, <2>5 DEF SetBefore, Active, At, TypeOK
  <2> QED BY <2>3, <2>4, <2>5 DEF SetBefore, Formed, TypeOK
<1>7. ASSUME NEW r \in Requests, Removes(r)
      PROVE  SetBefore'
  BY <1>7 DEF Removes, SetBefore, Active, At, TypeOK
<1>8. ASSUME NEW r \in Requests, NEW m \in Masters, NEW c \in Requests, Forward(r, m, c)
      PROVE  SetBefore'
  BY <1>8 DEF Forward, Forwards, SetBefore, Formed, Active, At, TypeOK
<1>9. ASSUME Tick
      PROVE  SetBefore'
  BY <1>9 DEF Tick, SetBefore, Active, At
<1> QED BY <1>0, <1>1, <1>2, <1>3, <1>4, <1>5, <1>6, <1>7, <1>8, <1>9

\* Unless jobs meet on a master, its fields stay those of its job.
LEMMA SingleStep ==
  ASSUME TypeOK, Formed, SetBefore, Single, Next
  PROVE  Single'
<1> USE Split, RequestsAssumption DEF master, handling, job
<1>0. ASSUME NEW r \in Requests, Quiet(r)
      PROVE  Single'
  <2> PICK label \in Labels, k \in Codes, t \in SUBSET Masters, f \in SUBSET Masters,
           l \in SUBSET (Masters \cup {NoMaster}), s \in Contents :
             Handled(r, label, k, t, f, l, s)
    BY <1>0, Zenon DEF Quiet
  <2>1. /\ label # "go"
        /\ pc' = [pc EXCEPT ![r] = label]
        /\ UNCHANGED <<running, path, cancelFunc, jpc, jname, mixed, req>>
    BY DEF Labels, Handled, Still
  <2> QED BY <2>1 DEF Single, Active, At, TypeOK
<1>1. ASSUME NEW r \in Requests, Opens(r)
      PROVE  Single'
  BY <1>1 DEF Opens, Single, Active, At, TypeOK
<1>2. ASSUME NEW r \in Requests, OpensNot(r) \/ CloseZip(r)
      PROVE  Single'
  <2>1. /\ jpc[r] \in {"begin", "work"} /\ jpc' = [jpc EXCEPT ![r] = "stop"]
        /\ UNCHANGED <<running, path, cancelFunc, jname, mixed, req, pc>>
    BY <1>2 DEF OpensNot, CloseZip
  <2>2. \A x \in Requests : (Active(x)' <=> Active(x)) /\ At(x)' = At(x)
    BY <2>1 DEF Active, At, TypeOK
  <2>3. \A m \in Masters : running[m] => cancelFunc[m] \in Requests
    BY DEF SetBefore, TypeOK
  <2>4. mixed = {} => \A m \in Masters : running[m] => At(cancelFunc[m])' = m /\ Active(cancelFunc[m])'
    BY <2>1, <2>2, <2>3 DEF Single, Active, At
  <2> QED BY <2>1, <2>2, <2>4 DEF Single, TypeOK
<1>3. ASSUME NEW r \in Requests, Stop(r)
      PROVE  Single'
  <2> SUFFICES ASSUME mixed = {} PROVE Single'
    BY <1>3 DEF Stop, Single
  <2>1. At(r) \in Masters /\ Active(r) /\ cancelFunc[At(r)] = r
    BY <1>3, Placed DEF Stop, Active, Single
  <2>2. \A m \in Masters : running'[m] => running[m] /\ m # At(r)
    BY <1>3, <2>1 DEF Stop, TypeOK
  <2>3. \A m \in Masters : m # At(r) => running'[m] = running[m]
    BY <1>3, <2>1 DEF Stop, TypeOK
  <2>4. /\ jpc' = [jpc EXCEPT ![r] = "end"]
        /\ UNCHANGED <<path, cancelFunc, jname, req, pc>>
    BY <1>3 DEF Stop
  <2>5. \A x \in Requests : Active(x)' => Active(x) /\ x # r
    BY <2>4 DEF Active, TypeOK
  <2>6. \A x \in Requests : Active(x)' => At(x) # At(r)
    BY <2>1, <2>5 DEF Single
  <2>7. ASSUME NEW m \in Masters, running'[m]
        PROVE  At(cancelFunc[m])' = m /\ Active(cancelFunc[m])'
    <3>1. At(cancelFunc[m]) = m /\ Active(cancelFunc[m]) /\ m # At(r) /\ cancelFunc[m] \in Requests
      BY <2>2, <2>7 DEF Single, SetBefore, TypeOK
    <3> QED BY <2>1, <2>4, <3>1 DEF Active, At, TypeOK
  <2>8. ASSUME NEW x \in Requests
        PROVE  /\ (Active(x) \/ pc[x] = "go")' => cancelFunc'[At(x)'] = x
               /\ Active(x)' => running'[At(x)']
               /\ (jpc[x] = "work")' => jname'[x] = path'[At(x)']
    <3>1. At(x)' = At(x)
      BY <2>4 DEF At
    <3>2. Active(x)' => At(x) \in Masters /\ running[At(x)]
      BY <2>5, Placed DEF Single
    <3>3. jpc'[x] = "work" => jpc[x] = "work"
      BY <2>4 DEF TypeOK
    <3> QED BY <2>3, <2>4, <2>5, <2>6, <3>1, <3>2, <3>3 DEF Single
  <2> QED BY <2>7, <2>8 DEF Single
<1>4. ASSUME NEW r \in Requests, CancelLocal(r)
      PROVE  Single'
  BY <1>4 DEF CancelLocal, Answer, Single, Active, At, TypeOK
<1>5. ASSUME NEW r \in Requests, SetsUp(r)
      PROVE  Single'
  <2> SUFFICES ASSUME mixed' = {} PROVE Single'
    BY DEF Single
  <2>1. At(r) \in Masters /\ ~Active(r)
    BY <1>5, Placed DEF SetsUp, Formed, Active
  <2>2. mixed = {} /\ ~\E x \in Requests \ {r} : At(x) = At(r) /\ (Active(x) \/ pc[x] = "go")
    BY <1>5 DEF SetsUp
  <2>3. ASSUME NEW x \in Requests
        PROVE  /\ Active(x)' = Active(x) /\ At(x)' = At(x)
               /\ x # r => pc'[x] = pc[x]
    BY <1>5 DEF SetsUp, Active, At, TypeOK
  <2>4. ASSUME NEW m \in Masters, m # At(r)
        PROVE  path'[m] = path[m] /\ cancelFunc'[m] = cancelFunc[m]
    BY <1>5, <2>1, <2>4 DEF SetsUp, SetUp, TypeOK
  <2>5. cancelFunc'[At(r)] = r /\ UNCHANGED <<running, jpc, jname>>
    BY <1>5, <2>1 DEF SetsUp, SetUp, TypeOK
  <2>6. ~running[At(r)]
    <3> SUFFICES ASSUME running[At(r)] PROVE FALSE
      OBVIOUS
    <3>1. cancelFunc[At(r)] \in Requests /\ At(cancelFunc[At(r)]) = At(r) /\ Active(cancelFunc[At(r)])
      BY <2>1, <2>2 DEF Single, SetBefore, TypeOK
    <3> QED BY <2>1, <2>2, <3>1
  <2>7. ASSUME NEW m \in Masters, running'[m]
        PROVE  At(cancelFunc[m])' = m /\ Active(cancelFunc[m])'
    <3>1. running[m] /\ m # At(r)
      BY <2>5, <2>6, <2>7
    <3>2. cancelFunc[m] \in Requests /\ At(cancelFunc[m]) = m /\ Active(cancelFunc[m])
      BY <2>2, <3>1 DEF Single, SetBefore, TypeOK
    <3> QED BY <2>3, <2>4, <3>1, <3>2 DEF At, Active
  <2>8. ASSUME NEW x \in Requests
        PROVE  /\ (Active(x) \/ pc[x] = "go")' => cancelFunc'[At(x)'] = x
               /\ Active(x)' => running'[At(x)']
               /\ (jpc[x] = "work")' => jname'[x] = path'[At(x)']
    <3>1. CASE x = r
      BY <2>1, <2>3, <2>5, <3>1 DEF Active
    <3>2. CASE x # r
      <4>1. (Active(x) \/ pc[x] = "go")' => At(x) # At(r) /\ At(x) \in Masters /\ (Active(x) \/ pc[x] = "go")
        BY <2>2, <2>3, <3>2, Placed
      <4>2. (jpc[x] = "work")' => Active(x) /\ jpc[x] = "work" /\ Active(x)'
        BY <2>5 DEF Active
      <4> QED BY <2>2, <2>3, <2>4, <2>5, <4>1, <4>2 DEF Single
    <3> QED BY <3>1, <3>2
  <2> QED BY <2>7, <2>8 DEF Single
<1>6. ASSUME NEW r \in Requests, Go(r)
      PROVE  Single'
  <2> SUFFICES ASSUME mixed = {} PROVE Single'
    BY <1>6 DEF Go, Single
  <2>1. At(r) \in Masters /\ cancelFunc[At(r)] = r /\ pc[r] = "go"
    BY <1>6, Placed DEF Go, Single
  <2>2. /\ \A m \in Masters : running'[m] => running[m] \/ m = At(r)
        /\ \A m \in Masters : running[m] => running'[m]
        /\ running'[At(r)]
    BY <1>6, <2>1 DEF Go, TypeOK
  <2>3. /\ jpc' = [jpc EXCEPT ![r] = "begin"] /\ pc' = [pc EXCEPT ![r] = "end"]
        /\ UNCHANGED <<path, cancelFunc, jname, req>>
    BY <1>6 DEF Go, Answer
  <2>4. ASSUME NEW x \in Requests
        PROVE  /\ Active(x)' <=> Active(x) \/ x = r
               /\ At(x)' = At(x)
               /\ pc'[x] = "go" => pc[x] = "go"
               /\ jpc'[x] = "work" => jpc[x] = "work"
    BY <2>3 DEF Active, At, TypeOK
  <2>5. ASSUME NEW m \in Masters, running'[m]
        PROVE  At(cancelFunc[m])' = m /\ Active(cancelFunc[m])'
    <3>1. CASE m = At(r)
      BY <2>1, <2>3, <2>4, <3>1 DEF Active, At
    <3>2. CASE m # At(r)
      <4>1. cancelFunc[m] \in Requests /\ At(cancelFunc[m]) = m /\ Active(cancelFunc[m])
        BY <2>2, <2>5, <3>2 DEF Single, SetBefore, TypeOK
      <4> QED BY <2>3, <2>4, <4>1 DEF Active, At
    <3> QED BY <3>1, <3>2
  <2>6. ASSUME NEW x \in Requests
        PROVE  /\ (Active(x) \/ pc[x] = "go")' => cancelFunc'[At(x)'] = x
               /\ Active(x)' => running'[At(x)']
               /\ (jpc[x] = "work")' => jname'[x] = path'[At(x)']
    <3>1. Active(x) => At(x) \in Masters
      BY Placed
    <3> QED BY <2>1, <2>2, <2>3, <2>4, <3>1 DEF Single
  <2> QED BY <2>5, <2>6 DEF Single
<1>7. ASSUME NEW r \in Requests, Removes(r)
      PROVE  Single'
  BY <1>7 DEF Removes, Single, Active, At, TypeOK
<1>8. ASSUME NEW r \in Requests, NEW m \in Masters, NEW c \in Requests, Forward(r, m, c)
      PROVE  Single'
  <2> SUFFICES ASSUME mixed = {} PROVE Single'
    BY <1>8 DEF Forward, Single
  <2>1. /\ ~Active(c) /\ pc[c] = "free" /\ pc[r] # "go"
        /\ pc' = [pc EXCEPT ![r] = "wait", ![c] = "sent"]
        /\ UNCHANGED <<running, path, cancelFunc, jpc, jname>>
        /\ \A x \in Requests : x # c => req'[x] = req[x]
    BY <1>8 DEF Forward, Forwards, Formed, Active, TypeOK
  <2>2. ASSUME NEW x \in Requests
        PROVE  /\ Active(x)' <=> Active(x)
               /\ x # c => At(x)' = At(x)
               /\ pc'[x] = "go" => pc[x] = "go" /\ x # c
               /\ Active(x) => x # c
    BY <2>1 DEF Active, At, TypeOK
  <2>3. ASSUME NEW n \in Masters, running[n]
        PROVE  At(cancelFunc[n])' = n /\ Active(cancelFunc[n])'
    <3>1. cancelFunc[n] \in Requests /\ At(cancelFunc[n]) = n /\ Active(cancelFunc[n])
      BY <2>3 DEF Single, SetBefore, TypeOK
    <3> QED BY <2>1, <2>2, <3>1 DEF Active, At
  <2>4. ASSUME NEW x \in Requests
        PROVE  /\ (Active(x) \/ pc[x] = "go")' => cancelFunc'[At(x)'] = x
               /\ Active(x)' => running'[At(x)']
               /\ (jpc[x] = "work")' => jname'[x] = path'[At(x)']
    <3>1. jpc[x] = "work" => Active(x)
      BY DEF Active
    <3> QED BY <2>1, <2>2, <3>1, ZenonT(30) DEF Single
  <2> QED BY <2>1, <2>3, <2>4 DEF Single
<1>9. ASSUME Tick
      PROVE  Single'
  BY <1>9 DEF Tick, Single, Active, At
<1> QED BY <1>0, <1>1, <1>2, <1>3, <1>4, <1>5, <1>6, <1>7, <1>8, <1>9

-----------------------------------------------------------------------------
(* What no step undoes. *)

\* A request that is sent stays what it is; one that is answered stays answered.
LEMMA Onward ==
  ASSUME TypeOK, Formed, Next, NEW x \in Requests
  PROVE  /\ pc[x] # "free" => req'[x] = req[x]
         /\ pc[x] = "end" =>
              pc'[x] = "end" /\ resp'[x] = resp[x] /\ served'[x] = served[x] /\ lost'[x] = lost[x]
         /\ pc[x] \notin {"free", "idle"} => pc'[x] \notin {"free", "idle"}
         /\ child'[x] # child[x] => child[x] = NoRequest
<1> USE Split DEF master, handling, job
<1>0. ASSUME NEW r \in Requests, Quiet(r)
      PROVE  /\ pc[x] # "free" => req'[x] = req[x]
             /\ pc[x] = "end" =>
                  pc'[x] = "end" /\ resp'[x] = resp[x] /\ served'[x] = served[x] /\ lost'[x] = lost[x]
             /\ pc[x] \notin {"free", "idle"} => pc'[x] \notin {"free", "idle"}
             /\ child'[x] = child[x]
  <2> PICK label \in Labels, k \in Codes, t \in SUBSET Masters, f \in SUBSET Masters,
           l \in SUBSET (Masters \cup {NoMaster}), s \in Contents :
             Handled(r, label, k, t, f, l, s) /\ Course(r, label, k, t, f, l, s)
    BY <1>0, Zenon DEF Quiet
  <2>1. pc[r] \notin {"free", "end"} /\ label \notin {"free", "idle"}
    BY DEF Course, Sends, Refuses, SeesRunning, AsksAll, Asks, FindsNoJob, FindsSome,
           FindsNoBundle, FindsHere, Serves, GoesNowhere, PassesOn, Searches, Labels
  <2> QED BY <2>1 DEF Handled, TypeOK
<1>1. ASSUME NEW r \in Requests, Opens(r) \/ OpensNot(r) \/ CloseZip(r) \/ Stop(r)
      PROVE  UNCHANGED <<req, pc, resp, served, lost, child>>
  BY <1>1 DEF Opens, OpensNot, CloseZip, Stop
<1>2. ASSUME NEW r \in Requests, CancelLocal(r) \/ SetsUp(r) \/ Go(r) \/ Removes(r)
      PROVE  /\ pc[r] # "end" /\ UNCHANGED <<req, served, lost, child>>
             /\ x # r => pc'[x] = pc[x] /\ resp'[x] = resp[x]
             /\ pc'[r] \notin {"free", "idle"}
  BY <1>2 DEF CancelLocal, SetsUp, Go, Removes, Answer, TypeOK
<1>3. ASSUME NEW r \in Requests, NEW m \in Masters, NEW c \in Requests, Forward(r, m, c)
      PROVE  /\ pc[x] # "free" => req'[x] = req[x]
             /\ pc[x] = "end" => pc'[x] = "end"
             /\ UNCHANGED <<resp, served, lost>>
             /\ pc[x] \notin {"free", "idle"} => pc'[x] \notin {"free", "idle"}
             /\ child'[x] # child[x] => child[x] = NoRequest
  BY <1>3 DEF Forward, Forwards, Formed, TypeOK
<1>4. ASSUME Tick
      PROVE  UNCHANGED <<req, pc, resp, served, lost, child>>
  BY <1>4 DEF Tick
<1> QED BY <1>0, <1>1, <1>2, <1>3, <1>4

\* A job that is over stays so, a name that is taken stays taken, and masters where
\* jobs met are remembered.
LEMMA JobsOnward ==
  ASSUME TypeOK, Formed, SetBefore, Next
  PROVE  /\ mixed \subseteq mixed' /\ cancelled \subseteq cancelled'
         /\ \A x \in Requests :
              /\ jpc[x] = "end" => jpc'[x] = "end"
              /\ jpc[x] \in {"stop", "end"} => jpc'[x] \in {"stop", "end"}
              /\ jname[x] # 0 => jname'[x] = jname[x]
              /\ jname[x] # 0 => At(x)' = At(x)
<1>1. ASSUME NEW x \in Requests, jname[x] # 0
      PROVE  At(x)' = At(x)
  BY <1>1, Onward DEF Formed, SetBefore, At
<1> USE Split DEF master, handling, job
<1>2. ASSUME NEW r \in Requests, Quiet(r)
      PROVE  UNCHANGED <<jpc, jname, cancelled, mixed>>
  <2> PICK label \in Labels, k \in Codes, t \in SUBSET Masters, f \in SUBSET Masters,
           l \in SUBSET (Masters \cup {NoMaster}), s \in Contents : Handled(r, label, k, t, f, l, s)
    BY <1>2, Zenon DEF Quiet
  <2> QED BY DEF Handled, Still
<1>3. ASSUME NEW r \in Requests, Opens(r) \/ OpensNot(r) \/ CloseZip(r) \/ Stop(r)
      PROVE  /\ UNCHANGED <<cancelled, mixed>>
             /\ \A x \in Requests :
                  /\ jpc[x] = "end" => jpc'[x] = "end"
                  /\ jpc[x] \in {"stop", "end"} => jpc'[x] \in {"stop", "end"}
                  /\ jname[x] # 0 => jname'[x] = jname[x]
  BY <1>3 DEF Opens, OpensNot, CloseZip, Stop, SetBefore, TypeOK
<1>4. ASSUME NEW r \in Requests, CancelLocal(r) \/ SetsUp(r) \/ Removes(r)
      PROVE  mixed \subseteq mixed' /\ cancelled \subseteq cancelled' /\ UNCHANGED <<jpc, jname>>
  BY <1>4 DEF CancelLocal, SetsUp, Removes
<1>5. ASSUME NEW r \in Requests, Go(r)
      PROVE  /\ UNCHANGED <<cancelled, mixed, jname>>
             /\ \A x \in Requests : jpc[x] \in {"stop", "end"} => jpc'[x] = jpc[x]
  <2>1. pc[r] = "go" /\ jpc' = [jpc EXCEPT ![r] = "begin"] /\ UNCHANGED <<cancelled, mixed, jname>>
    BY <1>5 DEF Go
  <2>2. jpc[r] = "off"
    BY <2>1 DEF Formed
  <2> QED BY <2>1, <2>2 DEF TypeOK
<1>6. ASSUME NEW r \in Requests, NEW m \in Masters, NEW c \in Requests, Forward(r, m, c)
      PROVE  UNCHANGED <<jpc, jname, cancelled, mixed>>
  BY <1>6 DEF Forward
<1>7. ASSUME Tick
      PROVE  UNCHANGED <<jpc, jname, cancelled, mixed>>
  BY <1>7 DEF Tick
<1> QED BY <1>1, <1>2, <1>3, <1>4, <1>5, <1>6, <1>7

\* A forwarded request keeps asking for what it was forwarded for.
LEMMA LinkedStep ==
  ASSUME TypeOK, Formed, SetBefore, Linked, Cancelling, Next
  PROVE  Linked'
<1> SUFFICES ASSUME NEW x \in Requests, child'[x] # NoRequest
             PROVE  /\ pc'[child'[x]] \notin {"free", "idle"}
                    /\ req'[child'[x]].op = req'[x].op
                    /\ req'[child'[x]].name = req'[x].name
                    /\ past'[x] \subseteq past'[child'[x]]
                    /\ pc'[x] # "end" => before'[x] \subseteq before'[child'[x]]
  BY DEF Linked
<1>1. Record /\ TypeOK'
  BY Split, TypeStep
<1>2. CASE child'[x] = child[x]
  <2>0. PICK c \in Requests : c = child[x]
    BY <1>2 DEF TypeOK
  <2>1. pc[c] \notin {"free", "idle"} /\ pc[x] \in {"wait", "end"}
    BY <1>2, <2>0 DEF Linked, Formed
  <2>2. req'[c] = req[c] /\ req'[x] = req[x] /\ pc'[c] \notin {"free", "idle"}
    BY <2>1, Onward
  <2>3. past'[x] = past[x] /\ past'[c] = past[c] /\ before'[x] \subseteq before[x]
    BY <1>1, <2>1, History
  <2>4. req[c].op = req[x].op /\ req[c].name = req[x].name /\ past[x] \subseteq past[c]
    BY <1>2, <2>0 DEF Linked
  <2>5. ASSUME pc'[x] # "end"
        PROVE  before'[x] \subseteq before'[c]
    <3>1. pc[x] # "end"
      BY <2>5, Onward
    <3>2. before[x] \subseteq before[c]
      BY <1>2, <2>0, <3>1 DEF Linked
    <3>3. CASE pc[c] = "end"
      BY <1>1, <2>1, <2>3, <3>2, <3>3, History
    <3>4. CASE pc[c] # "end"
      <4>1. before'[c] = {m \in before[c] : Yes(c, m)'}
        BY <1>1, <2>1, <2>2, <3>4, History
      <4>2. \A m \in before'[x] : Yes(x, m)'
        BY <1>1, <3>1, History
      <4>3. \A m : Yes(x, m)' => Yes(c, m)'
        BY <2>2, <2>4 DEF Yes
      <4> QED BY <2>3, <3>2, <4>1, <4>2, <4>3
    <3> QED BY <3>3, <3>4
  <2> QED BY <1>2, <2>0, <2>2, <2>3, <2>4, <2>5
<1>3. CASE child'[x] # child[x]
  <2>1. PICK m \in Masters, c \in Requests : Forward(x, m, c)
    <3>1. ASSUME NEW r \in Requests, Quiet(r)
          PROVE  UNCHANGED child
      BY <3>1 DEF Quiet, Handled
    <3>2. ASSUME NEW r \in Requests,
                 \/ Opens(r) \/ OpensNot(r) \/ CloseZip(r) \/ Stop(r)
                 \/ CancelLocal(r) \/ SetsUp(r) \/ Go(r) \/ Removes(r)
          PROVE  UNCHANGED child
      BY <3>2 DEF Opens, OpensNot, CloseZip, Stop, CancelLocal, SetsUp, Go, Removes, handling
    <3>3. ASSUME Tick
          PROVE  UNCHANGED child
      BY <3>3 DEF Tick, handling
    <3>4. PICK r \in Requests, m \in Masters, c \in Requests : Forward(r, m, c)
      BY <1>3, <3>1, <3>2, <3>3, Split
    <3>5. r = x
      BY <1>3, <3>4 DEF Forward, TypeOK
    <3> QED BY <3>4, <3>5
  <2>2. /\ child'[x] = c /\ x # c /\ pc[c] = "free" /\ pc[x] = "forward"
        /\ pc'[c] = "sent" /\ pc'[x] = "wait"
        /\ req'[c] = [req[x] EXCEPT !.at = m] /\ req'[x] = req[x]
    BY <2>1 DEF Forward, Forwards, TypeOK
  <2>3. req'[c].op = req'[x].op /\ req'[c].name = req'[x].name
    BY <2>2, Placed DEF Request
  <2>4. past'[c] = {y \in Requests : jpc[y] = "end"} /\ past'[x] = past[x]
    BY <1>1, <2>2, History
  <2>5. before'[c] = {n \in Masters : Yes(c, n)'}
    BY <1>1, <2>2, History
  <2>6. before'[x] \subseteq Masters /\ \A n \in before'[x] : Yes(x, n)'
    BY <1>1, <2>2, History, ZenonT(30) DEF TypeOK
  <2>7. \A n : Yes(x, n)' => Yes(c, n)'
    BY <2>3 DEF Yes
  <2> QED BY <2>2, <2>3, <2>4, <2>5, <2>6, <2>7 DEF Cancelling
<1> QED BY <1>2, <1>3

-----------------------------------------------------------------------------
(* Cancelling. *)

\* Who is about to cancel has seen a job run that was not over.
LEMMA AboutToCancel ==
  ASSUME TypeOK, Formed, SetBefore, Single, Cancelling, Next, mixed' = {},
         NEW x \in Requests, pc'[x] = "cancel"
  PROVE  cancelFunc'[At(x)'] \notin past'[x]
<1>1. Record /\ mixed = {} /\ past[x] \subseteq {y \in Requests : jpc[y] = "end"}
  BY Split, JobsOnward DEF Cancelling
<1>2. ASSUME pc[x] = "cancel", UNCHANGED cancelFunc
      PROVE  cancelFunc'[At(x)'] \notin past'[x]
  BY <1>1, <1>2, History, Onward DEF At, Cancelling
<1>3. ASSUME NEW r \in Requests, Quiet(r)
      PROVE  cancelFunc'[At(x)'] \notin past'[x]
  <2> PICK label \in Labels, k \in Codes, t \in SUBSET Masters, f \in SUBSET Masters,
           l \in SUBSET (Masters \cup {NoMaster}), s \in Contents :
             Handled(r, label, k, t, f, l, s) /\ Course(r, label, k, t, f, l, s)
    BY <1>3, Zenon DEF Quiet
  <2>1. UNCHANGED <<cancelFunc, req>> /\ pc' = [pc EXCEPT ![r] = label]
    BY DEF Handled, Still
  <2>2. CASE pc[x] = "cancel"
    BY <1>2, <2>1, <2>2
  <2>3. CASE pc[x] # "cancel"
    <3>1. x = r /\ label = "cancel"
      BY <2>1, <2>3 DEF TypeOK
    <3>2. pc[x] = "sent" /\ running[At(x)]
      BY <3>1 DEF Course, Sends, Refuses, SeesRunning, AsksAll, Asks, FindsNoJob, FindsSome,
                  FindsNoBundle, FindsHere, Serves, GoesNowhere, PassesOn
    <3>3. At(x) \in Masters
      BY <3>2, Placed
    <3>4. Active(cancelFunc[At(x)])
      BY <1>1, <3>2, <3>3 DEF Single
    <3>5. past'[x] = past[x]
      BY <1>1, <3>2, History
    <3> QED BY <1>1, <2>1, <3>4, <3>5 DEF Active, At
  <2> QED BY <2>2, <2>3
<1>4. ASSUME NEW r \in Requests, Opens(r) \/ OpensNot(r) \/ CloseZip(r) \/ Stop(r)
      PROVE  pc'[x] = pc[x] /\ UNCHANGED cancelFunc
  BY <1>4 DEF Opens, OpensNot, CloseZip, Stop, master
<1>5. ASSUME NEW r \in Requests, CancelLocal(r) \/ Go(r) \/ Removes(r)
      PROVE  pc'[x] = pc[x] /\ UNCHANGED cancelFunc
  BY <1>5 DEF CancelLocal, Go, Removes, Answer, master, TypeOK
<1>6. ASSUME NEW r \in Requests, SetsUp(r)
      PROVE  cancelFunc'[At(x)'] \notin past'[x]
  <2>1. x # r /\ pc[x] = "cancel" /\ req' = req
    BY <1>6 DEF SetsUp, TypeOK, handling
  <2>2. At(r) \in Masters /\ At(x) \in Masters /\ jpc[r] = "off"
    BY <1>6, <2>1, Placed DEF SetsUp, Formed
  <2>3. cancelFunc' = [cancelFunc EXCEPT ![At(r)] = r]
    BY <1>6 DEF SetsUp, SetUp
  <2>4. cancelFunc'[At(x)] = r \/ cancelFunc'[At(x)] = cancelFunc[At(x)]
    BY <2>2, <2>3 DEF TypeOK
  <2>5. past'[x] = past[x]
    BY <1>1, <2>1, History
  <2> QED BY <1>1, <2>1, <2>2, <2>4, <2>5 DEF Cancelling, At
<1>7. ASSUME NEW r \in Requests, NEW m \in Masters, NEW c \in Requests, Forward(r, m, c)
      PROVE  pc'[x] = pc[x] /\ UNCHANGED cancelFunc
  BY <1>7 DEF Forward, Forwards, master, TypeOK
<1>8. ASSUME Tick
      PROVE  pc'[x] = pc[x] /\ UNCHANGED cancelFunc
  BY <1>8 DEF Tick, master
<1> QED BY <1>2, <1>3, <1>4, <1>5, <1>6, <1>7, <1>8, Split

\* A cancel that is answered with 200 by this step reached a job.
LEMMA CancelAnswered ==
  ASSUME TypeOK, Formed, SetBefore, Single, Linked, Cancelling, Next, mixed' = {},
         NEW x \in Requests, req'[x].op = "cancel", resp'[x] = 200
  PROVE  \E y \in Requests \ past'[x] : y \in cancelled'
<1>1. Record /\ mixed = {} /\ cancelled \subseteq cancelled'
  BY Split, JobsOnward
<1>2. ASSUME resp[x] = 200
      PROVE  \E y \in Requests \ past'[x] : y \in cancelled'
  <2>1. pc[x] = "end"
    BY <1>2 DEF Formed
  <2>2. req'[x] = req[x] /\ past'[x] = past[x]
    BY <1>1, <2>1, Onward, History
  <2> QED BY <1>1, <1>2, <2>2 DEF Cancelling, CancelReachesJob
<1>3. ASSUME NEW r \in Requests, Quiet(r), resp[x] # 200
      PROVE  \E y \in Requests \ past'[x] : y \in cancelled'
  <2> PICK label \in Labels, k \in Codes, t \in SUBSET Masters, f \in SUBSET Masters,
           l \in SUBSET (Masters \cup {NoMaster}), s \in Contents :
             Handled(r, label, k, t, f, l, s) /\ Course(r, label, k, t, f, l, s)
    BY <1>3, Zenon DEF Quiet
  <2>1. req' = req /\ resp' = [resp EXCEPT ![r] = k]
    BY DEF Handled
  <2>2. x = r /\ k = 200
    BY <1>3, <2>1 DEF TypeOK
  <2>3. pc[x] = "wait" /\ resp[child[x]] = 200
    BY <2>1, <2>2 DEF Course, Sends, Refuses, SeesRunning, AsksAll, Asks, FindsNoJob, FindsSome,
                FindsNoBundle, FindsHere, Serves, GoesNowhere, PassesOn, Formed
  <2>4. child[x] \in Requests /\ child[x] # NoRequest
    BY <2>3 DEF Formed, TypeOK
  <2>5. req[child[x]].op = "cancel" /\ past[x] \subseteq past[child[x]]
    BY <2>1, <2>4 DEF Linked
  <2>6. \E y \in Requests \ past[child[x]] : y \in cancelled
    BY <1>1, <2>3, <2>4, <2>5 DEF Cancelling, CancelReachesJob
  <2>7. past'[x] = past[x]
    BY <1>1, <2>3, History
  <2> QED BY <1>1, <2>5, <2>6, <2>7
<1>4. ASSUME NEW r \in Requests, Opens(r) \/ OpensNot(r) \/ CloseZip(r) \/ Stop(r) \/ SetsUp(r)
      PROVE  resp' = resp
  BY <1>4 DEF Opens, OpensNot, CloseZip, Stop, SetsUp
<1>5. ASSUME NEW r \in Requests, CancelLocal(r), resp[x] # 200
      PROVE  \E y \in Requests \ past'[x] : y \in cancelled'
  <2>1. x = r /\ pc[x] = "cancel" /\ cancelled' = cancelled \cup {cancelFunc[At(x)]}
    BY <1>5 DEF CancelLocal, Answer, TypeOK
  <2>2. At(x) \in Masters
    BY <2>1, Placed
  <2>3. cancelFunc[At(x)] \in Requests
    BY <2>1, <2>2 DEF SetBefore, TypeOK
  <2>4. cancelFunc[At(x)] \notin past[x] /\ past'[x] = past[x]
    BY <1>1, <2>1, History DEF Cancelling
  <2> QED BY <2>1, <2>3, <2>4
<1>6. ASSUME NEW r \in Requests, Go(r) \/ Removes(r)
      PROVE  resp[x] = 200
  <2>1. req' = req /\ resp' = [resp EXCEPT ![r] = 200] /\ req[r].op # "cancel"
    BY <1>6 DEF Go, Removes, Answer, handling, Formed
  <2> QED BY <2>1 DEF TypeOK
<1>7. ASSUME NEW r \in Requests, NEW m \in Masters, NEW c \in Requests, Forward(r, m, c)
      PROVE  resp' = resp
  BY <1>7 DEF Forward
<1>8. ASSUME Tick
      PROVE  resp' = resp
  BY <1>8 DEF Tick
<1> QED BY <1>2, <1>3, <1>4, <1>5, <1>6, <1>7, <1>8, Split

LEMMA CancellingStep ==
  ASSUME TypeOK, Formed, SetBefore, Single, Linked, Cancelling, Next
  PROVE  Cancelling'
<1>1. ASSUME NEW x \in Requests
      PROVE  past'[x] \subseteq {y \in Requests : jpc'[y] = "end"}
  <2>1. Record /\ past[x] \subseteq {y \in Requests : jpc[y] = "end"}
    BY Split DEF Cancelling
  <2>2. past'[x] = past[x] \/ past'[x] = {y \in Requests : jpc[y] = "end"}
    BY <2>1, History
  <2> QED BY <2>1, <2>2, JobsOnward
<1>2. (mixed = {} => \A r \in Requests : pc[r] = "cancel" => cancelFunc[At(r)] \notin past[r])'
  BY AboutToCancel
<1>3. CancelReachesJob'
  BY CancelAnswered DEF CancelReachesJob
<1> QED BY <1>1, <1>2, <1>3 DEF Cancelling

-----------------------------------------------------------------------------
(* Asking all masters. *)

\* A quiet step changes no answer.
LEMMA QuietAnswers ==
  ASSUME NEW r \in Requests, Quiet(r), NEW x \in Requests, NEW m
  PROVE  Yes(x, m)' <=> Yes(x, m)
<1>1. UNCHANGED <<running, path, file, req>>
  BY DEF Quiet, Handled, Still
<1> QED BY <1>1 DEF Yes, Listed

\* What a quiet step of r leaves of the masters that always said yes.
LEMMA AskingQuiet ==
  ASSUME TypeOK, Formed, Linked, Asking, Record, NEW r \in Requests, Quiet(r)
  PROVE  /\ pc'[r] = "ask" /\ req[r].op # "cancel" =>
              before'[r] \subseteq todo'[r] \cup found'[r] \cup lost'[r]
         /\ pc'[r] \in {"nodes", "go"} => before'[r] = {}
         /\ req[r].op = "create" => resp'[r] # 200
         /\ resp'[r] = 404 => before'[r] \subseteq lost'[r] \/ NoMaster \in lost'[r]
         /\ req' = req
         /\ \A x \in Requests \ {r} :
              /\ pc'[x] = pc[x] /\ resp'[x] = resp[x] /\ todo'[x] = todo[x]
              /\ found'[x] = found[x] /\ lost'[x] = lost[x]
<1> PICK label \in Labels, k \in Codes, t \in SUBSET Masters, f \in SUBSET Masters,
         l \in SUBSET (Masters \cup {NoMaster}), s \in Contents :
           Handled(r, label, k, t, f, l, s) /\ Course(r, label, k, t, f, l, s)
  BY Zenon DEF Quiet
<1>1. /\ pc'[r] = label /\ resp'[r] = k /\ todo'[r] = t /\ found'[r] = f /\ lost'[r] = l
      /\ req' = req
      /\ \A x \in Requests \ {r} :
           /\ pc'[x] = pc[x] /\ resp'[x] = resp[x] /\ todo'[x] = todo[x]
           /\ found'[x] = found[x] /\ lost'[x] = lost[x]
  BY DEF Handled, TypeOK
<1>2. before'[r] \subseteq Masters /\ (pc[r] \notin {"free", "idle"} => before'[r] \subseteq before[r])
  BY History DEF TypeOK
<1>3. CASE Asks(r, label, k, t, f, l, s)
  <2>1. PICK m \in Masters :
          /\ t = todo[r] \ {m}
          /\ \/ f = found[r] \cup {m} /\ l = lost[r]
             \/ f = found[r] /\ l = lost[r] /\ ~Yes(r, m)
             \/ f = found[r] /\ l = lost[r] \cup {m}
    BY <1>3, Zenon DEF Asks
  <2>2. pc[r] = "ask" /\ label = "ask" /\ k = 0
    BY <1>3 DEF Asks
  <2>3. ~Yes(r, m) => m \notin before'[r]
    BY <2>2, History, QuietAnswers
  <2>4. req[r].op # "cancel" => before'[r] \subseteq todo[r] \cup found[r] \cup lost[r]
    BY <1>2, <2>2 DEF Asking
  <2> QED BY <1>1, <2>1, <2>2, <2>3, <2>4
<1>4. CASE PassesOn(r, label, k, t, f, l, s)
  <2>1. /\ pc[r] = "wait" /\ label = "end" /\ l = lost[r] \cup lost[child[r]]
        /\ k = 404 => resp[child[r]] = 404
    BY <1>4 DEF PassesOn
  <2>2. child[r] \in Requests /\ child[r] # NoRequest /\ req[r].op # "create"
    BY <2>1 DEF Formed, TypeOK
  <2>3. before[r] \subseteq before[child[r]]
    BY <2>1, <2>2 DEF Linked
  <2>4. k = 404 => before[child[r]] \subseteq lost[child[r]] \/ NoMaster \in lost[child[r]]
    BY <2>1, <2>2 DEF Asking, NotFoundIsTrue
  <2> QED BY <1>1, <1>2, <2>1, <2>2, <2>3, <2>4
<1>5. CASE FindsNoJob(r, label, k, t, f, l, s) \/ FindsNoBundle(r, label, k, t, f, l, s)
  <2>1. before[r] \subseteq lost[r]
    BY <1>5 DEF FindsNoJob, FindsNoBundle, Searches, Asking
  <2> QED BY <1>1, <1>2, <1>5, <2>1 DEF FindsNoJob, FindsNoBundle
<1>6. CASE \/ Sends(r, label, k, t, f, l, s) \/ Refuses(r, label, k, t, f, l, s)
           \/ SeesRunning(r, label, k, t, f, l, s) \/ FindsSome(r, label, k, t, f, l, s)
           \/ FindsHere(r, label, k, t, f, l, s) \/ Serves(r, label, k, t, f, l, s)
           \/ GoesNowhere(r, label, k, t, f, l, s)
  BY <1>1, <1>6 DEF Sends, Refuses, SeesRunning, FindsSome, FindsHere, Serves, GoesNowhere
<1>7. CASE AsksAll(r, label, k, t, f, l, s)
  BY <1>1, <1>2, <1>7 DEF AsksAll
<1> QED BY <1>3, <1>4, <1>5, <1>6, <1>7 DEF Course

\* What a loud step does to the requests.
LEMMA AskingLoud ==
  ASSUME TypeOK, Formed, SetBefore, Next, NEW x \in Requests, \A r \in Requests : ~Quiet(r)
  PROVE  /\ UNCHANGED <<todo, found, lost>>
         /\ pc'[x] = "ask" => pc[x] = "ask"
         /\ pc'[x] \in {"nodes", "go"} => pc[x] \in {"nodes", "go"}
         /\ resp'[x] = 404 => resp[x] = 404
         /\ req'[x].op = "create" /\ resp'[x] = 200 => resp[x] = 200 \/ pc[x] = "go"
<1> DEFINE Goal == /\ UNCHANGED <<todo, found, lost>>
                   /\ pc'[x] = "ask" => pc[x] = "ask"
                   /\ pc'[x] \in {"nodes", "go"} => pc[x] \in {"nodes", "go"}
                   /\ resp'[x] = 404 => resp[x] = 404
                   /\ req'[x].op = "create" /\ resp'[x] = 200 => resp[x] = 200 \/ pc[x] = "go"
<1>1. ASSUME NEW r \in Requests, Opens(r) \/ OpensNot(r) \/ CloseZip(r) \/ Stop(r)
      PROVE  Goal
  BY <1>1 DEF Opens, OpensNot, CloseZip, Stop, handling
<1>2. ASSUME NEW r \in Requests, CancelLocal(r) \/ Removes(r)
      PROVE  Goal
  <2>1. /\ UNCHANGED <<req, todo, found, lost>> /\ req[r].op # "create"
        /\ pc' = [pc EXCEPT ![r] = "end"] /\ resp' = [resp EXCEPT ![r] = 200]
    BY <1>2 DEF CancelLocal, Removes, Answer, handling, Formed
  <2> QED BY <2>1 DEF TypeOK
<1>3. ASSUME NEW r \in Requests, SetsUp(r)
      PROVE  Goal
  BY <1>3 DEF SetsUp, handling, TypeOK
<1>4. ASSUME NEW r \in Requests, Go(r)
      PROVE  Goal
  <2>1. /\ UNCHANGED <<todo, found, lost>> /\ pc[r] = "go"
        /\ pc' = [pc EXCEPT ![r] = "end"] /\ resp' = [resp EXCEPT ![r] = 200]
    BY <1>4 DEF Go, Answer, handling
  <2> QED BY <2>1 DEF TypeOK
<1>5. ASSUME NEW r \in Requests, NEW m \in Masters, NEW c \in Requests, Forward(r, m, c)
      PROVE  Goal
  BY <1>5 DEF Forward, Forwards, TypeOK
<1>6. ASSUME Tick
      PROVE  Goal
  BY <1>6 DEF Tick, handling
<1> QED BY <1>1, <1>2, <1>3, <1>4, <1>5, <1>6, Split

\* A master that says yes all the time is found, or its answer is lost.
LEMMA AskingStep ==
  ASSUME TypeOK, Formed, SetBefore, Linked, Asking, Next
  PROVE  Asking'
<1> SUFFICES ASSUME NEW x \in Requests
             PROVE  /\ pc'[x] = "ask" /\ req'[x].op # "cancel" =>
                         before'[x] \subseteq todo'[x] \cup found'[x] \cup lost'[x]
                    /\ pc'[x] \in {"nodes", "go"} => before'[x] = {}
                    /\ req'[x].op = "create" /\ resp'[x] = 200 => before'[x] = {}
                    /\ resp'[x] = 404 => before'[x] \subseteq lost'[x] \/ NoMaster \in lost'[x]
  BY DEF Asking, StartsNoSecond, NotFoundIsTrue
<1>1. Record
  BY Split
<1>3. resp[x] # 0 => pc[x] = "end"
  BY DEF Formed
<1>4. ASSUME NEW r \in Requests, Quiet(r), x # r
      PROVE  /\ pc'[x] = pc[x] /\ resp'[x] = resp[x] /\ todo'[x] = todo[x]
             /\ found'[x] = found[x] /\ lost'[x] = lost[x] /\ req'[x] = req[x]
  BY <1>1, <1>4, AskingQuiet
<1>5. CASE \E r \in Requests : Quiet(r)
  <2>1. PICK r \in Requests : Quiet(r)
    BY <1>5
  <2>2. CASE x = r
    BY <1>1, <2>1, <2>2, AskingQuiet
  <2>3. CASE x # r
    BY <1>1, <1>3, <1>4, <2>1, <2>3, History DEF Asking, StartsNoSecond, NotFoundIsTrue
  <2> QED BY <2>2, <2>3
<1>6. CASE \A r \in Requests : ~Quiet(r)
  <2>1. /\ UNCHANGED <<todo, found, lost>>
        /\ pc'[x] = "ask" => pc[x] = "ask"
        /\ pc'[x] \in {"nodes", "go"} => pc[x] \in {"nodes", "go"}
        /\ resp'[x] = 404 => resp[x] = 404
        /\ req'[x].op = "create" /\ resp'[x] = 200 => resp[x] = 200 \/ pc[x] = "go"
    BY <1>6, AskingLoud
  <2>2. pc[x] \notin {"free", "idle"} => req'[x] = req[x] /\ before'[x] \subseteq before[x]
    BY <1>1, Onward, History
  <2> QED BY <1>3, <2>1, <2>2 DEF Asking, StartsNoSecond, NotFoundIsTrue
<1> QED BY <1>5, <1>6

-----------------------------------------------------------------------------
(* Files. *)

\* Unless jobs met, what a master lists is closed.
LEMMA ListedIsSettled ==
  ASSUME TypeOK, Formed, SetBefore, Single, Written, mixed = {},
         NEW m \in Masters, NEW n \in Names, Listed(m, n)
  PROVE  Settled(n)
<1>1. CASE n < Start
  BY <1>1 DEF Settled
<1>2. CASE ~(n < Start)
  <2>1. PICK x \in Requests : jname[x] = n /\ At(x) = m
    BY <1>2 DEF Written, Listed
  <2>2. jpc[x] \notin {"off", "begin"}
    BY <2>1 DEF SetBefore, Names
  <2>3. jpc[x] # "work"
    <3> SUFFICES ASSUME jpc[x] = "work" PROVE FALSE
      OBVIOUS
    <3>1. Active(x)
      BY DEF Active
    <3>2. running[m] /\ path[m] = n
      BY <2>1, <3>1 DEF Single
    <3> QED BY <3>2 DEF Listed
  <2> QED BY <2>1, <2>2, <2>3 DEF Settled, TypeOK
<1> QED BY <1>1, <1>2

\* A bundle that is closed stays so.
LEMMA SettledStays ==
  ASSUME TypeOK, Formed, SetBefore, Next, NEW n \in Names, Settled(n)
  PROVE  Settled(n)'
<1>1. CASE n < Start
  BY <1>1 DEF Settled
<1>2. ASSUME NEW x \in Requests, jname[x] = n, jpc[x] \in {"stop", "end"}
      PROVE  Settled(n)'
  BY <1>2, JobsOnward DEF Settled, Names
<1> QED BY <1>1, <1>2 DEF Settled

\* The files after a step: each is old or of a job, and partial only while one writes it.
LEMMA FilesStep ==
  ASSUME TypeOK, Formed, SetBefore, Written, Next, NEW m \in Masters, NEW n \in Names
  PROVE  /\ file'[m][n] = "partial" =>
              \E x \in Requests : jpc'[x] = "work" /\ jname'[x] = n /\ At(x)' = m
         /\ file'[m][n] # "none" => n < Start \/ \E x \in Requests : jname'[x] = n /\ At(x)' = m
<1> DEFINE Writing == \E x \in Requests : jpc'[x] = "work" /\ jname'[x] = n /\ At(x)' = m
           Origin == n < Start \/ \E x \in Requests : jname'[x] = n /\ At(x)' = m
<1> USE DEF handling, job, master
<1>0. n # 0
  BY DEF Names
<1>1. ASSUME file[m][n] # "none"
      PROVE  Origin
  BY <1>0, <1>1, JobsOnward DEF Written
<1>2. ASSUME file[m][n] = "partial",
             \A x \in Requests : jpc[x] = "work" /\ jname[x] = n /\ At(x) = m => jpc'[x] = "work"
      PROVE  Writing
  <2>1. PICK x \in Requests : jpc[x] = "work" /\ jname[x] = n /\ At(x) = m
    BY <1>2 DEF Written
  <2> QED BY <1>0, <1>2, <2>1, JobsOnward
<1>3. ASSUME UNCHANGED <<file, jpc>>
      PROVE  (file'[m][n] = "partial" => Writing) /\ (file'[m][n] # "none" => Origin)
  BY <1>1, <1>2, <1>3
<1>4. ASSUME NEW r \in Requests, Quiet(r)
      PROVE  UNCHANGED <<file, jpc>>
  BY <1>4 DEF Quiet, Handled, Still
<1>5. ASSUME NEW r \in Requests, Opens(r)
      PROVE  (file'[m][n] = "partial" => Writing) /\ (file'[m][n] # "none" => Origin)
  <2>a. Active(r) /\ At(r)' = At(r)
    BY <1>5 DEF Opens, Active, At
  <2>1. At(r) \in Masters /\ jname'[r] = path[At(r)] /\ jpc'[r] = "work" /\ At(r)' = At(r)
    BY <1>5, <2>a, Placed DEF Opens, TypeOK
  <2>2. \A x \in Requests : jpc[x] = "work" => jpc'[x] = "work"
    BY <1>5 DEF Opens, TypeOK
  <2>3. file'[m][n] = file[m][n] \/ (m = At(r) /\ n = path[At(r)])
    BY <1>5, <2>1 DEF Opens, TypeOK
  <2> QED BY <1>1, <1>2, <2>1, <2>2, <2>3
<1>6. ASSUME NEW r \in Requests, OpensNot(r) \/ Stop(r)
      PROVE  (file'[m][n] = "partial" => Writing) /\ (file'[m][n] # "none" => Origin)
  <2>1. file' = file /\ \A x \in Requests : jpc[x] = "work" => jpc'[x] = "work"
    BY <1>6 DEF OpensNot, Stop, TypeOK
  <2> QED BY <1>1, <1>2, <2>1
<1>7. ASSUME NEW r \in Requests, CloseZip(r)
      PROVE  (file'[m][n] = "partial" => Writing) /\ (file'[m][n] # "none" => Origin)
  <2>1. At(r) \in Masters /\ jname[r] \in Names
    BY <1>7, Placed DEF CloseZip, Active, SetBefore, TypeOK
  <2>2. \A x \in Requests : x # r => jpc'[x] = jpc[x]
    BY <1>7 DEF CloseZip, TypeOK
  <2>3. /\ m = At(r) /\ n = jname[r] =>
             file'[m][n] # "partial" /\ (file'[m][n] # "none" => file[m][n] # "none")
        /\ ~(m = At(r) /\ n = jname[r]) => file'[m][n] = file[m][n]
    BY <1>7, <2>1 DEF CloseZip, TypeOK
  <2> QED BY <1>1, <1>2, <2>2, <2>3
<1>8. ASSUME NEW r \in Requests, CancelLocal(r) \/ SetsUp(r)
      PROVE  UNCHANGED <<file, jpc>>
  BY <1>8 DEF CancelLocal, SetsUp
<1>9. ASSUME NEW r \in Requests, Go(r)
      PROVE  (file'[m][n] = "partial" => Writing) /\ (file'[m][n] # "none" => Origin)
  <2>1. file' = file /\ jpc' = [jpc EXCEPT ![r] = "begin"] /\ pc[r] = "go"
    BY <1>9 DEF Go
  <2>2. jpc[r] = "off"
    BY <2>1 DEF Formed
  <2>3. \A x \in Requests : jpc[x] = "work" => jpc'[x] = "work"
    BY <2>1, <2>2 DEF TypeOK
  <2> QED BY <1>1, <1>2, <2>1, <2>3
<1>10. ASSUME NEW r \in Requests, Removes(r)
       PROVE  (file'[m][n] = "partial" => Writing) /\ (file'[m][n] # "none" => Origin)
  <2>1. jpc' = jpc /\ (file'[m][n] = file[m][n] \/ file'[m][n] = "none")
    BY <1>10, Placed DEF Removes, TypeOK
  <2> QED BY <1>1, <1>2, <2>1
<1>11. ASSUME NEW r \in Requests, NEW k \in Masters, NEW c \in Requests, Forward(r, k, c)
       PROVE  UNCHANGED <<file, jpc>>
  BY <1>11 DEF Forward
<1>12. ASSUME Tick
       PROVE  UNCHANGED <<file, jpc>>
  BY <1>12 DEF Tick
<1> QED BY <1>3, <1>4, <1>5, <1>6, <1>7, <1>8, <1>9, <1>10, <1>11, <1>12, Split

\* Unless jobs met, what a download finds is closed.
LEMMA FoundStep ==
  ASSUME TypeOK, Formed, SetBefore, Single, Written, Next, mixed' = {},
         NEW x \in Requests, found'[x] # {}, req'[x].op = "download"
  PROVE  Settled(req[x].name)' /\ req'[x] = req[x]
<1>1. mixed = {}
  BY JobsOnward
<1>2. ASSUME found[x] # {}
      PROVE  Settled(req[x].name)' /\ req'[x] = req[x]
  <2>1. pc[x] \notin {"free", "idle"}
    BY <1>2 DEF Formed
  <2>2. req'[x] = req[x] /\ req[x].name \in Names
    BY <2>1, Onward, Placed
  <2>3. Settled(req[x].name)
    BY <1>1, <1>2, <2>2 DEF Written
  <2>4. PICK n \in Names : n = req[x].name
    BY <2>2
  <2>5. Settled(n)'
    BY <2>3, <2>4, SettledStays
  <2> QED BY <2>2, <2>4, <2>5 DEF Settled
<1>3. ASSUME found[x] = {}
      PROVE  Settled(req[x].name)' /\ req'[x] = req[x]
  <2>1. PICK r \in Requests : Quiet(r)
    BY <1>3, AskingLoud
  <2> PICK label \in Labels, k \in Codes, t \in SUBSET Masters, f \in SUBSET Masters,
           l \in SUBSET (Masters \cup {NoMaster}), s \in Contents :
             Handled(r, label, k, t, f, l, s) /\ Course(r, label, k, t, f, l, s)
    BY <2>1, Zenon DEF Quiet
  <2>2. req' = req /\ found' = [found EXCEPT ![r] = f]
    BY DEF Handled
  <2>3. x = r /\ f # {}
    BY <1>3, <2>2 DEF TypeOK
  <2>4. pc[x] # "free" /\ \E m \in Masters : Listed(m, req[x].name)
    <3>1. CASE Asks(r, label, k, t, f, l, s)
      <4>1. pc[x] # "free" /\ Searches(x)
        BY <2>2, <2>3, <3>1 DEF Asks, Searches
      <4> QED BY <1>3, <2>3, <3>1, <4>1 DEF Asks
    <3>2. CASE FindsHere(r, label, k, t, f, l, s)
      BY <2>3, <3>2, Placed DEF FindsHere
    <3>3. CASE ~Asks(r, label, k, t, f, l, s) /\ ~FindsHere(r, label, k, t, f, l, s)
      BY <1>3, <2>3, <3>3 DEF Course, Sends, Refuses, SeesRunning, AsksAll, FindsNoJob, FindsSome,
                              FindsNoBundle, Serves, GoesNowhere, PassesOn
    <3> QED BY <3>1, <3>2, <3>3
  <2>5. PICK n \in Names : n = req[x].name
    BY <2>4, Placed
  <2>6. Settled(n)
    BY <1>1, <2>4, <2>5, ListedIsSettled
  <2>7. Settled(n)'
    BY <2>6, SettledStays
  <2> QED BY <2>2, <2>5, <2>7 DEF Settled
<1> QED BY <1>2, <1>3

\* Unless jobs met on a master or in one second, no bundle is served before it is
\* closed.
LEMMA ServedStep ==
  ASSUME TypeOK, Formed, SetBefore, Written, Next, mixed' = {}, ~Namesakes',
         NEW x \in Requests, resp'[x] = 200
  PROVE  served'[x] # "partial"
<1>1. mixed = {} /\ ~Namesakes
  BY JobsOnward DEF Namesakes
<1>2. resp[x] = 200 => pc[x] = "end" /\ served[x] # "partial"
  BY <1>1 DEF Formed, Written, ServedIsClosed
<1>3. ASSUME NEW r \in Requests, Quiet(r), pc[x] # "end"
      PROVE  served'[x] # "partial"
  <2> PICK label \in Labels, k \in Codes, t \in SUBSET Masters, f \in SUBSET Masters,
           l \in SUBSET (Masters \cup {NoMaster}), s \in Contents :
             Handled(r, label, k, t, f, l, s) /\ Course(r, label, k, t, f, l, s)
    BY <1>3, Zenon DEF Quiet
  <2>1. resp' = [resp EXCEPT ![r] = k] /\ served' = [served EXCEPT ![r] = s]
    BY DEF Handled
  <2>2. x = r /\ k = 200 /\ served'[x] = s
    BY <1>3, <2>1 DEF TypeOK, Formed
  <2>3. CASE Serves(r, label, k, t, f, l, s)
    <3> SUFFICES ASSUME s = "partial" PROVE FALSE
      BY <2>2
    <3>1. pc[x] \in {"local", "forward"} /\ req[x].op = "download" /\ file[At(x)][req[x].name] = "partial"
      BY <2>2, <2>3 DEF Serves
    <3>2. At(x) \in Masters /\ req[x].name \in Names /\ found[x] # {}
      BY <3>1, Placed DEF Formed
    <3>3. PICK y \in Requests : jpc[y] = "work" /\ jname[y] = req[x].name
      BY <3>1, <3>2 DEF Written
    <3>4. jname[y] # 0 /\ ~(req[x].name < Start)
      BY <3>2, <3>3, BoundsAssumption DEF SetBefore, Names
    <3>5. PICK z \in Requests : jname[z] = req[x].name /\ jpc[z] \in {"stop", "end"}
      BY <1>1, <3>1, <3>2, <3>4 DEF Written, Settled
    <3> QED BY <1>1, <3>3, <3>4, <3>5 DEF Namesakes
  <2>4. CASE PassesOn(r, label, k, t, f, l, s)
    <3>1. child[x] \in Requests /\ resp[child[x]] = 200 /\ s = served[child[x]]
      BY <2>2, <2>4 DEF PassesOn, Formed, TypeOK
    <3> QED BY <1>1, <2>2, <3>1 DEF Written, ServedIsClosed
  <2>5. CASE ~Serves(r, label, k, t, f, l, s) /\ ~PassesOn(r, label, k, t, f, l, s)
    BY <2>2, <2>5 DEF Course, Sends, Refuses, SeesRunning, AsksAll, Asks, FindsNoJob, FindsSome,
                      FindsNoBundle, FindsHere, GoesNowhere
  <2> QED BY <2>3, <2>4, <2>5
<1>4. ASSUME NEW r \in Requests,
             \/ Opens(r) \/ OpensNot(r) \/ CloseZip(r) \/ Stop(r)
             \/ CancelLocal(r) \/ SetsUp(r) \/ Go(r) \/ Removes(r)
      PROVE  UNCHANGED served
  BY <1>4 DEF Opens, OpensNot, CloseZip, Stop, CancelLocal, SetsUp, Go, Removes, handling
<1>5. ASSUME NEW r \in Requests, NEW m \in Masters, NEW c \in Requests, Forward(r, m, c)
      PROVE  UNCHANGED served
  BY <1>5 DEF Forward
<1>6. ASSUME Tick
      PROVE  UNCHANGED served
  BY <1>6 DEF Tick, handling
<1>7. pc[x] # "end" => served[x] = "none"
  BY DEF Formed
<1>8. pc[x] = "end" => resp'[x] = resp[x] /\ served'[x] = served[x]
  BY Onward
<1> QED BY <1>2, <1>3, <1>4, <1>5, <1>6, <1>7, <1>8, Split

LEMMA WrittenStep ==
  ASSUME TypeOK, Formed, SetBefore, Single, Written, Next
  PROVE  Written'
<1>1. ASSUME NEW m \in Masters, NEW n \in Names
      PROVE  /\ file'[m][n] = "partial" =>
                  \E x \in Requests : jpc'[x] = "work" /\ jname'[x] = n /\ At(x)' = m
             /\ file'[m][n] # "none" => n < Start \/ \E x \in Requests : jname'[x] = n /\ At(x)' = m
  BY FilesStep
<1>2. ASSUME mixed' = {}, NEW x \in Requests, found'[x] # {}, req'[x].op = "download"
      PROVE  Settled(req[x].name)'
  BY <1>2, FoundStep
<1>3. ServedIsClosed'
  BY ServedStep DEF ServedIsClosed
<1> QED BY <1>1, <1>2, <1>3 DEF Written

-----------------------------------------------------------------------------
(* The theorems. *)

LEMMA Initially ==
  ASSUME Init
  PROVE  IInv
<1>1. PICK i \in Inputs :
        /\ file = [m \in Masters |-> [n \in Names |-> IF <<m, n>> \in i.old THEN "whole" ELSE "none"]]
        /\ req = i.req
        /\ pc = [r \in Requests |-> IF i.req[r] = Free THEN "free" ELSE "idle"]
  BY DEF Init
<1>2. req \in [Requests -> Request \cup {Free}] /\ i.old \subseteq Masters \X (1..(Start - 1))
  BY <1>1, InputsAssumption
<1>3. TypeOK
  BY <1>1, <1>2, BoundsAssumption DEF Init, TypeOK
<1>4. Formed
  BY <1>1, <1>2 DEF Init, Formed
<1>5. SetBefore
  BY <1>1, RequestsAssumption DEF Init, SetBefore, Active
<1>6. Single
  BY <1>1 DEF Init, Single, Active
<1>7. Linked
  BY DEF Init, Linked
<1>8. Cancelling
  BY <1>1 DEF Init, Cancelling, CancelReachesJob
<1>9. Asking
  BY <1>1 DEF Init, Asking, StartsNoSecond, NotFoundIsTrue
<1>10. Written
  <2>1. ASSUME NEW m \in Masters, NEW n \in Names
        PROVE  file[m][n] # "partial" /\ (file[m][n] # "none" => n < Start)
    <3>1. file[m][n] = IF <<m, n>> \in i.old THEN "whole" ELSE "none"
      BY <1>1
    <3> QED BY <1>2, <3>1, BoundsAssumption DEF Names
  <2> QED BY <2>1 DEF Init, Written, ServedIsClosed
<1> QED BY <1>3, <1>4, <1>5, <1>6, <1>7, <1>8, <1>9, <1>10 DEF IInv

\* A step that changes nothing keeps the invariant.
LEMMA Stuttering ==
  ASSUME IInv, UNCHANGED vars
  PROVE  IInv'
<1> USE DEF vars, master, handling, job
<1>1. TypeOK' /\ Formed'
  BY DEF IInv, TypeOK, Formed
<1>2. SetBefore' /\ Single'
  BY DEF IInv, SetBefore, Single, Active, At
<1>3. Linked' /\ Cancelling'
  BY DEF IInv, Linked, Cancelling, CancelReachesJob, At
<1>4. Asking'
  BY DEF IInv, Asking, StartsNoSecond, NotFoundIsTrue
<1>5. Written'
  BY DEF IInv, Written, Settled, ServedIsClosed, Namesakes, At
<1> QED BY <1>1, <1>2, <1>3, <1>4, <1>5 DEF IInv

\* IInv is inductive, for any masters, requests and time and any faults.
THEOREM Inductive == Spec => []IInv
<1>1. Init => IInv
  BY Initially
<1>2. IInv /\ [Next]_vars => IInv'
  <2> SUFFICES ASSUME IInv, Next PROVE IInv'
    BY Stuttering
  <2> QED BY TypeStep, FormedStep, SetBeforeStep, SingleStep, LinkedStep, CancellingStep, AskingStep,
             WrittenStep DEF IInv
<1> QED BY <1>1, <1>2, PTL DEF Spec

\* The fields of every job keep their types: whoever cancels has a function to call,
\* and a job always has a name to write to.
THEOREM TypeCorrect == Spec => []TypeOK
<1>1. IInv => TypeOK
  BY DEF IInv
<1> QED BY <1>1, Inductive, PTL

\* A create starts no job beside one that was running, on whichever master, from the
\* moment it was sent, though it asks the masters one by one and some cannot answer.
THEOREM NoSecondStart == Spec => []StartsNoSecond
<1>1. IInv => StartsNoSecond
  BY DEF IInv, Asking
<1> QED BY <1>1, Inductive, PTL

\* A delete or download answers 404 only if no master listed the bundle all the time,
\* save one whose answer was lost on the way, however often it is forwarded; or if the
\* file was found where the download was served last and has gone since, for then it is
\* proxied to no host at all.
THEOREM NotFoundHolds == Spec => []NotFoundIsTrue
<1>1. IInv => NotFoundIsTrue
  BY DEF IInv, Asking
<1> QED BY <1>1, Inductive, PTL

\* A cancel answered with 200 cancelled a job that was not over when it was sent, unless
\* jobs met on a master.
THEOREM CancelReaches == Spec => []CancelReachesJob
<1>1. IInv => CancelReachesJob
  BY DEF IInv, Cancelling
<1> QED BY <1>1, Inductive, PTL

\* A download delivers no bundle that a job still writes, unless jobs met on a master or
\* in one second.
THEOREM ClosedIsServed == Spec => []ServedIsClosed
<1>1. IInv => ServedIsClosed
  BY DEF IInv, Written
<1> QED BY <1>1, Inductive, PTL

=============================================================================
