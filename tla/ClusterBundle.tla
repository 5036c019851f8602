---------------------------- MODULE ClusterBundle ----------------------------
(* Cluster bundles in the REST API of the masters: ClusterBundleHandler of      *)
(* api/rest/cluster_bundle_handler.go. A Create makes the bundle on the     *)
(* master that serves it; List, Status, Delete and Download may be served by   *)
(* any master and ask all of them, one after the other, through the client of  *)
(* api/rest/client.go.                                                         *)
(*                                                                             *)
(* What a master answers to such a call is decided by its BundleHandler, which *)
(* works on the same files; a call is one step here, LocalBundle has its inner *)
(* ones. A call may be lost, before it reached the master or after. What the   *)
(* coordinator does for one Create is in Coordinator; here it downloads the    *)
(* archive of one node, the same for all Creates, into its work directory,     *)
(* which the Creates of a master share, and merges it.                         *)
EXTENDS Integers, FiniteSets

CONSTANTS
  Masters,   \* the masters
  Ids,       \* ids of cluster bundles
  Creates,   \* requests to create a bundle; each is used at most once
  Queries,   \* other requests; each is used at most once
  Inputs,    \* what the Creates make, and where, and what the queries ask
  NoMaster,  \* no master
  MaxFaults  \* bound on failed operations

\* The other handlers of the API; "none" for a request that is never sent.
Ops == {"list", "status", "delete", "download", "none"}

\* A bundle id on a master has a directory there.
Places == Masters \X Ids

ASSUME MastersAssumption == IsFiniteSet(Masters) /\ NoMaster \notin Masters
ASSUME InputsAssumption ==
  Inputs \subseteq [home : [Creates -> Places \cup {NoMaster}],
                    op : [Queries -> Ops], about : [Queries -> Ids]]
ASSUME MaxFaultsAssumption == MaxFaults \in Nat

VARIABLES
  \* Files of every bundle on every master.
  dir,     \* dir[p]: its directory exists
  state,   \* state[p]: the status in its state file, "none" or "torn"
  data,    \* data[p]: its data file, see Archive
  \* Files of the coordinator on every master.
  scratch, \* scratch[m]: the Create whose node archive is in <ip>_<role>.zip, "none", "torn"
  merged,  \* merged[p]: the archive bundle-<id>.zip, as data[p]
  \* Creates.
  home,    \* home[c]: the bundle and the master that serves c, an input; NoMaster if
           \* c is never sent
  cpc,     \* cpc[c]: next step of c and its goroutine
  loc,     \* loc[c]: Status of the variable bundle of c
  code,    \* code[c]: HTTP status answered, 0 while there is none
  paths,   \* paths[c]: bundlePaths has the archive of the node
  \* Queries.
  op,      \* op[q]: the handler that serves q, an input
  about,   \* about[q]: the id it asks for, an input; of a list, the id we look for
  qpc,     \* qpc[q]: next step of q
  todo,    \* todo[q]: masters it has not asked yet
  hits,    \* hits[q]: masters that gave it a bundle, or deleted theirs
  target,  \* target[q]: the master it downloads from
  resp,    \* resp[q]: HTTP status answered, 0 while there is none
  served,  \* served[q]: the data a download delivered
  \* History.
  before,  \* before[q]: masters that had the directory when list or status q arrived
  ready,   \* ready[q]: masters where it was Done, with its data, when another q arrived
  lost,    \* lost[q]: masters whose answer to q was lost
  owners,  \* the Creates that got as far as making the directory
  crossed, \* the Creates whose node archive another one wrote to before it was merged
  faults   \* failed operations so far

files == <<dir, state, data>>
work == <<scratch, merged, paths, crossed>>
creating == <<home, cpc, loc, code, owners, work>>
asking == <<op, about, qpc, todo, hits, target, resp, served, before, ready, lost>>
vars == <<files, creating, asking, faults>>

\* An archive: none; cut off where writing it failed; whole; whole, but of what was
\* collected for another bundle; or without the central directory that the Close of
\* the zip writer could not write.
Archive == {"none", "partial", "whole", "foreign", "unclosed"}

Status == {"Started", "Done", "Deleted", "Failed"}
IsFinished(st) == st \in {"Done", "Deleted", "Failed"}

Init ==
  /\ dir = [p \in Places |-> FALSE]
  /\ state = [p \in Places |-> "none"]
  /\ data = [p \in Places |-> "none"]
  /\ scratch = [m \in Masters |-> "none"]
  /\ merged = [p \in Places |-> "none"]
  /\ \E i \in Inputs : home = i.home /\ op = i.op /\ about = i.about
  /\ cpc = [c \in Creates |-> "idle"]
  /\ loc = [c \in Creates |-> "Started"]
  /\ code = [c \in Creates |-> 0]
  /\ paths = [c \in Creates |-> FALSE]
  /\ qpc = [q \in Queries |-> "idle"]
  /\ todo = [q \in Queries |-> {}]
  /\ hits = [q \in Queries |-> {}]
  /\ target = [q \in Queries |-> NoMaster]
  /\ resp = [q \in Queries |-> 0]
  /\ served = [q \in Queries |-> "none"]
  /\ before = [q \in Queries |-> {}]
  /\ ready = [q \in Queries |-> {}]
  /\ lost = [q \in Queries |-> {}]
  /\ owners = {}
  /\ crossed = {}
  /\ faults = 0

Fault == faults < MaxFaults /\ faults' = faults + 1
NoFault == UNCHANGED faults

-----------------------------------------------------------------------------
(* Create *)

CGoto(c, label) == cpc' = [cpc EXCEPT ![c] = label]
CAnswer(c, k) == code' = [code EXCEPT ![c] = k]

\* A bundle whose directory exists on this master is refused.
Create(c) ==
  /\ cpc[c] = "idle" /\ home[c] # NoMaster
  /\ IF dir[home[c]]
       THEN CGoto(c, "end") /\ CAnswer(c, 409)
       ELSE CGoto(c, "mkdir") /\ UNCHANGED code
  /\ UNCHANGED <<files, home, loc, owners, work, asking, faults>>

MakeDir(c) ==
  /\ cpc[c] = "mkdir"
  /\ \/ /\ dir' = [dir EXCEPT ![home[c]] = TRUE]
        /\ owners' = owners \cup {c}
        /\ CGoto(c, "write")
        /\ NoFault /\ UNCHANGED code
     \/ /\ Fault
        /\ CGoto(c, "end") /\ CAnswer(c, 507)
        /\ UNCHANGED <<dir, owners>>
  /\ UNCHANGED <<state, data, home, loc, work, asking>>

\* writeStateFile takes no lock: the truncated file can be read.
BeginWrite(c) ==
  /\ cpc[c] = "write"
  /\ state' = [state EXCEPT ![home[c]] = "torn"]
  /\ CGoto(c, "writing")
  /\ UNCHANGED <<dir, data, home, loc, code, owners, work, asking, faults>>

\* After the state Started was saved, or could not be, the handler goes on; after
\* any other it has nothing left to do.
EndWrite(c, ok) ==
  /\ cpc[c] = "writing"
  /\ IF ok THEN state' = [state EXCEPT ![home[c]] = loc[c]] /\ NoFault
           ELSE Fault /\ UNCHANGED state
  /\ IF loc[c] # "Started" THEN CGoto(c, "end") /\ UNCHANGED code
     ELSE IF ok THEN CGoto(c, "mkdata") /\ UNCHANGED code
     ELSE CGoto(c, "end") /\ CAnswer(c, 507)
  /\ UNCHANGED <<dir, data, home, loc, owners, work, asking>>

\* failed(bundle, err): the bundle is saved as Failed.
Fail(c) ==
  /\ loc' = [loc EXCEPT ![c] = "Failed"]
  /\ CGoto(c, "write")

\* os.Create of the data file.
MakeData(c) ==
  /\ cpc[c] = "mkdata"
  /\ \/ /\ data' = [data EXCEPT ![home[c]] = "partial"]
        /\ CGoto(c, "lookup")
        /\ NoFault /\ UNCHANGED <<loc, code>>
     \/ /\ Fault
        /\ Fail(c) /\ CAnswer(c, 507)
        /\ UNCHANGED data
  /\ UNCHANGED <<dir, state, home, owners, work, asking>>

\* The nodes are looked up and the coordinator starts; the client is told 200.
Lookup(c) ==
  /\ cpc[c] = "lookup"
  /\ \/ CGoto(c, "collect") /\ CAnswer(c, 200) /\ NoFault /\ UNCHANGED loc
     \/ Fault /\ Fail(c) /\ CAnswer(c, 500)
  /\ UNCHANGED <<files, home, owners, work, asking>>

\* The master that serves c, and the Creates it serves besides.
Server(c) == home[c][1]
Neighbours(c) == {d \in Creates \ {c} : home[d] # NoMaster /\ Server(d) = Server(c)}

\* CollectBundle got a bundle of the node and downloads it into a file that is
\* named after the node only: os.Create of GetFile cuts off what is there. Or the
\* node had none.
BeginDownload(c) ==
  /\ cpc[c] = "collect"
  /\ \/ LET writing == {d \in Neighbours(c) : cpc[d] = "download"}
            waiting == {d \in Neighbours(c) : cpc[d] = "merge" /\ paths[d]}
        IN /\ crossed' = crossed \cup writing \cup waiting
                                 \cup IF writing = {} THEN {} ELSE {c}
           /\ scratch' = [scratch EXCEPT ![Server(c)] = "torn"]
           /\ CGoto(c, "download")
           /\ NoFault
     \/ Fault /\ CGoto(c, "merge") /\ UNCHANGED <<crossed, scratch>>
  /\ UNCHANGED <<files, home, loc, code, owners, merged, paths, asking>>

\* The download ends. If others wrote to the file meanwhile it holds the archive of
\* any of them, or a mixture. An archive that could not be downloaded is reported
\* and left out.
EndDownload(c) ==
  /\ cpc[c] = "download"
  /\ \/ /\ \E x \in IF c \in crossed THEN {c, "torn"} \cup (crossed \cap Neighbours(c))
                                     ELSE {c} :
             scratch' = [scratch EXCEPT ![Server(c)] = x]
        /\ paths' = [paths EXCEPT ![c] = TRUE]
        /\ NoFault
     \/ Fault /\ UNCHANGED <<scratch, paths>>
  /\ CGoto(c, "merge")
  /\ UNCHANGED <<files, home, loc, code, owners, merged, crossed, asking>>

\* appendToZip opens and reads the archive, with its checksums.
Readable(c) == paths[c] => scratch[Server(c)] # "torn"

\* mergeZips. If it fails there is no file to open. It does not see that its two
\* deferred Close calls fail: then it returns an archive nobody can open.
Merge(c) ==
  /\ cpc[c] = "merge"
  /\ \/ /\ Readable(c)
        /\ merged' = [merged EXCEPT ![home[c]] =
                         IF paths[c] /\ scratch[Server(c)] # c THEN "foreign" ELSE "whole"]
        /\ CGoto(c, "copy")
        /\ NoFault /\ UNCHANGED loc
     \/ /\ Readable(c)
        /\ Fault
        /\ merged' = [merged EXCEPT ![home[c]] = "unclosed"]
        /\ CGoto(c, "copy")
        /\ UNCHANGED loc
     \/ /\ (~Readable(c) /\ NoFault) \/ Fault
        /\ merged' = [merged EXCEPT ![home[c]] = "partial"]
        /\ Fail(c)
  /\ UNCHANGED <<files, home, code, owners, scratch, paths, crossed, asking>>

\* What io.Copy leaves in the data file that was opened at the beginning, if it was
\* not deleted since.
Copied(c) == [data EXCEPT ![home[c]] = IF @ = "none" THEN @ ELSE merged[home[c]]]

\* Mutant of CopyArchive: a copy that failed is not noticed.
CopyUnchecked(c) ==
  /\ cpc[c] = "copy"
  /\ \/ data' = Copied(c) /\ NoFault
     \/ Fault /\ UNCHANGED data
  /\ loc' = [loc EXCEPT ![c] = "Done"]
  /\ CGoto(c, "write")
  /\ UNCHANGED <<dir, state, home, code, owners, work, asking>>


\* os.Open and io.Copy of the merged archive.
CopyArchive(c) ==
  /\ cpc[c] = "copy"
  /\ \/ /\ data' = Copied(c)
        /\ loc' = [loc EXCEPT ![c] = "Done"]
        /\ CGoto(c, "write")
        /\ NoFault
     \/ Fault /\ Fail(c) /\ UNCHANGED data
  /\ UNCHANGED <<dir, state, home, code, owners, work, asking>>

-----------------------------------------------------------------------------
(* What a call to a master returns: a status of its bundle p or an error.      *)

\* handleErrorCode of what BundleHandler.Get answers.
StatusOf(p) ==
  IF ~dir[p] THEN "not found"
  ELSE IF state[p] \in {"none", "torn"} THEN "unreadable"
  ELSE IF state[p] \in {"Started", "Done"} /\ data[p] = "none" THEN "unreadable"
  ELSE state[p]

\* handleErrorCode of what BundleHandler.Delete answers.
DeleteOf(p) ==
  IF StatusOf(p) \in {"not found", "unreadable"} THEN StatusOf(p)
  ELSE IF StatusOf(p) = "Failed" /\ data[p] = "none" THEN "unreadable"
  ELSE "Deleted"

\* Mutant of FileOf: the state file is served in place of the data file.
StateFileOf(p) == IF StatusOf(p) = "Done" THEN state[p] ELSE "none"

\* handleErrorCode of what BundleHandler.GetFile answers.
FileOf(p) == IF StatusOf(p) = "Done" THEN data[p] ELSE "none"

-----------------------------------------------------------------------------
(* List, Status, Delete, Download *)

\* The bundle of q on master m.
At(q, m) == <<m, about[q]>>

QAnswer(q, k) ==
  /\ resp' = [resp EXCEPT ![q] = k]
  /\ qpc' = [qpc EXCEPT ![q] = "end"]

Proceed == UNCHANGED <<resp, qpc>>

\* A query arrives and looks up the masters.
Arrive(q) ==
  /\ qpc[q] = "idle" /\ op[q] # "none"
  /\ before' = [before EXCEPT ![q] = {m \in Masters : dir[At(q, m)] /\ op[q] \in {"list", "status"}}]
  /\ ready' = [ready EXCEPT ![q] = {m \in Masters : /\ state[At(q, m)] = "Done"
                                                   /\ data[At(q, m)] # "none"
                                                   /\ op[q] \in {"delete", "download"}}]
  /\ \/ /\ todo' = [todo EXCEPT ![q] = Masters]
        /\ qpc' = [qpc EXCEPT ![q] = "ask"]
        /\ NoFault /\ UNCHANGED resp
     \/ /\ Fault
        /\ QAnswer(q, 500)
        /\ UNCHANGED todo
  /\ UNCHANGED <<files, creating, op, about, hits, target, served, lost>>

\* A query turns to its next master.
Ask(q, m) ==
  /\ qpc[q] = "ask"
  /\ m \in todo[q]
  /\ todo' = [todo EXCEPT ![q] = @ \ {m}]
  /\ UNCHANGED <<creating, op, about, served, before, ready, faults>>

Lost(q, m) == lost' = [lost EXCEPT ![q] = @ \cup {m}]

\* List wants an answer of every master; a master lists what it has.
AskList(q, m) ==
  /\ op[q] = "list"
  /\ Ask(q, m)
  /\ \/ /\ hits' = [hits EXCEPT ![q] = IF dir[At(q, m)] THEN @ \cup {m} ELSE @]
        /\ Proceed /\ UNCHANGED lost
     \/ QAnswer(q, 500) /\ Lost(q, m) /\ UNCHANGED hits
  /\ UNCHANGED <<files, target>>

\* Mutant of StopsStatus: a master without the bundle ends the search.
StopsAtFirst(r) == TRUE

\* Status goes on to the next master unless it has an answer.
StopsStatus(r) == r # "not found"

AskStatus(q, m) ==
  /\ op[q] = "status"
  /\ Ask(q, m)
  /\ \/ /\ IF StopsStatus(StatusOf(At(q, m)))
             THEN QAnswer(q, CASE StatusOf(At(q, m)) = "not found" -> 404
                               [] StatusOf(At(q, m)) = "unreadable" -> 500
                               [] OTHER -> 200)
             ELSE Proceed
        /\ UNCHANGED lost
     \/ Proceed /\ Lost(q, m)
  /\ UNCHANGED <<files, hits, target>>

\* Mutant of DeleteAt: the directory of the bundle is removed, state file and all.
RemoveAllAt(p) ==
  /\ data' = [data EXCEPT ![p] = IF DeleteOf(p) = "Deleted" THEN "none" ELSE @]
  /\ state' = [state EXCEPT ![p] = IF DeleteOf(p) = "Deleted" THEN "none" ELSE @]
  /\ dir' = [dir EXCEPT ![p] = DeleteOf(p) # "Deleted" /\ @]

\* The master deletes its bundle.
DeleteAt(p) ==
  /\ data' = [data EXCEPT ![p] = IF DeleteOf(p) = "Deleted" THEN "none" ELSE @]
  /\ state' = [state EXCEPT ![p] = IF DeleteOf(p) = "Deleted" THEN "Deleted" ELSE @]
  /\ UNCHANGED dir

\* Mutant of AfterDelete: the first master that had the bundle ends the loop.
DeleteFirstOnly(q) == QAnswer(q, 200)

\* found = true; the loop goes on.
AfterDelete(q) == Proceed

\* Delete asks every master, unless one cannot read its bundle. The answer of a
\* master may be lost after it deleted its bundle.
AskDelete(q, m) ==
  /\ op[q] = "delete"
  /\ Ask(q, m)
  /\ \/ /\ DeleteAt(At(q, m))
        /\ hits' = [hits EXCEPT ![q] = IF DeleteOf(At(q, m)) = "Deleted" THEN @ \cup {m} ELSE @]
        /\ CASE DeleteOf(At(q, m)) = "unreadable" -> QAnswer(q, 500)
             [] DeleteOf(At(q, m)) = "not found" -> Proceed
             [] DeleteOf(At(q, m)) = "Deleted" -> AfterDelete(q)
        /\ UNCHANGED lost
     \/ /\ DeleteAt(At(q, m)) \/ UNCHANGED files
        /\ Lost(q, m) /\ Proceed /\ UNCHANGED hits
  /\ UNCHANGED target

\* bundle.Status == Done
HasFile(st) == st = "Done"

\* What the handler makes of a call that returned neither a bundle nor one of the
\* two errors of the client: bundle is nil and reading its status panics.
NoBundle(q) == QAnswer(q, -1)

\* Download looks for a master where the bundle is Done.
AskDownload(q, m) ==
  /\ op[q] = "download"
  /\ Ask(q, m)
  /\ \/ /\ CASE StatusOf(At(q, m)) = "unreadable" -> QAnswer(q, 500) /\ UNCHANGED target
             [] HasFile(StatusOf(At(q, m))) ->
                  /\ target' = [target EXCEPT ![q] = m]
                  /\ qpc' = [qpc EXCEPT ![q] = "getfile"]
                  /\ UNCHANGED resp
             [] OTHER -> Proceed /\ UNCHANGED target
        /\ UNCHANGED lost
     \/ NoBundle(q) /\ Lost(q, m) /\ UNCHANGED target
  /\ UNCHANGED <<files, hits>>

\* Download gets the file from that master, which looks at its state again.
GetFile(q) ==
  /\ qpc[q] = "getfile"
  /\ \/ /\ FileOf(At(q, target[q])) # "none"
        /\ served' = [served EXCEPT ![q] = FileOf(At(q, target[q]))]
        /\ QAnswer(q, 200)
        /\ UNCHANGED lost
     \/ /\ FileOf(At(q, target[q])) = "none"
        /\ QAnswer(q, 500)
        /\ UNCHANGED <<served, lost>>
     \/ /\ Lost(q, target[q])
        /\ QAnswer(q, 500)
        /\ UNCHANGED served
  /\ UNCHANGED <<files, creating, op, about, todo, hits, target, before, ready, faults>>

\* Every master was asked.
AskedAll(q) ==
  /\ qpc[q] = "ask"
  /\ todo[q] = {}
  /\ QAnswer(q, IF op[q] = "list" \/ (op[q] = "delete" /\ hits[q] # {}) THEN 200 ELSE 404)
  /\ UNCHANGED <<files, creating, op, about, todo, hits, target, served, before, ready, lost, faults>>

-----------------------------------------------------------------------------
CreateStep(c) ==
  \/ MakeDir(c) \/ BeginWrite(c) \/ MakeData(c) \/ Lookup(c)
  \/ BeginDownload(c) \/ EndDownload(c) \/ Merge(c) \/ CopyArchive(c)
  \/ \E ok \in BOOLEAN : EndWrite(c, ok)

QueryStep(q) ==
  \/ \E m \in Masters : \/ AskList(q, m) \/ AskStatus(q, m)
                        \/ AskDelete(q, m) \/ AskDownload(q, m)
  \/ GetFile(q) \/ AskedAll(q)

Next ==
  \/ \E c \in Creates : Create(c) \/ CreateStep(c)
  \/ \E q \in Queries : Arrive(q) \/ QueryStep(q)

Spec == Init /\ [][Next]_vars

\* Handlers and goroutines are scheduled, the client has a timeout, and
\* CollectBundle ends (CollectTerminates of Coordinator).
Fairness ==
  /\ \A c \in Creates : WF_vars(CreateStep(c))
  /\ \A q \in Queries : WF_vars(QueryStep(q))

FairSpec == Spec /\ Fairness

-----------------------------------------------------------------------------
(* Properties. *)

\* Types: the files of every master, and only HTTP codes the handlers write.
TypeOK ==
  /\ dir \in [Places -> BOOLEAN]
  /\ state \in [Places -> Status \cup {"none", "torn"}]
  /\ data \in [Places -> Archive]
  /\ scratch \in [Masters -> Creates \cup {"none", "torn"}]
  /\ merged \in [Places -> Archive]
  /\ home \in [Creates -> Places \cup {NoMaster}]
  /\ cpc \in [Creates -> {"idle", "mkdir", "write", "writing", "mkdata", "lookup",
                          "collect", "download", "merge", "copy", "end"}]
  /\ loc \in [Creates -> Status]
  /\ code \in [Creates -> {0, 200, 409, 500, 507}]
  /\ paths \in [Creates -> BOOLEAN]
  /\ op \in [Queries -> Ops]
  /\ about \in [Queries -> Ids]
  /\ qpc \in [Queries -> {"idle", "ask", "getfile", "end"}]
  /\ todo \in [Queries -> SUBSET Masters]
  /\ hits \in [Queries -> SUBSET Masters]
  /\ target \in [Queries -> Masters \cup {NoMaster}]
  /\ resp \in [Queries -> {-1, 0, 200, 404, 500}]
  /\ served \in [Queries -> Archive]
  /\ before \in [Queries -> SUBSET Masters]
  /\ ready \in [Queries -> SUBSET Masters]
  /\ lost \in [Queries -> SUBSET Masters]
  /\ owners \subseteq Creates
  /\ crossed \subseteq Creates
  /\ faults \in 0..MaxFaults

\* At most one Create of place p got past the existence check before the directory
\* was there.
Sole(p) == \A c1, c2 \in owners : home[c1] = p /\ home[c2] = p => c1 = c2

\* The Creates that made the bundle at p.
MadeBy(p) == {c \in owners : home[c] = p}

\* A download answered with 200 delivers all that mergeZips wrote, whatever Creates
\* and Deletes go on on any master: never the beginning of an archive, and that of
\* another bundle only if the downloads of two Creates crossed in the work directory
\* they share. The one archive that is not whole is the one whose Close failed.
DownloadIsWhole ==
  \A q \in Queries : op[q] = "download" /\ resp[q] = 200 =>
    LET p == At(q, target[q]) IN
    Sole(p) => \/ served[q] \in {"whole", "unclosed"}
               \/ served[q] = "foreign" /\ MadeBy(p) \subseteq crossed

\* A bundle that was there when the request arrived is found: Status answers 404
\* and List leaves it out only when the answer of its master was lost.
ExistingIsFound ==
  \A q \in Queries :
    /\ op[q] = "status" /\ resp[q] = 404 => before[q] \subseteq lost[q]
    /\ op[q] = "list" /\ resp[q] = 200 => before[q] \subseteq hits[q]

\* A Delete answered with 200 has deleted the bundle on every master that had it
\* Done, and it stays deleted, except where the answer was lost.
DeleteCoversMasters ==
  \A q \in Queries : op[q] = "delete" /\ resp[q] = 200 =>
    \A m \in ready[q] \ lost[q] :
      Sole(At(q, m)) => state[At(q, m)] = "Deleted" /\ data[At(q, m)] = "none"


\* Download finds the master that has the bundle: where it was Done when the
\* request arrived, and still is, it is delivered, although another master cannot
\* be reached.
DownloadProxies ==
  \A q \in Queries : op[q] = "download" /\ qpc[q] = "end" =>
    \A m \in ready[q] \ lost[q] : state[At(q, m)] = "Done" => resp[q] = 200

-----------------------------------------------------------------------------
(* What a bundle promises, see BundleLifecycle. *)

\* The status of the bundle at p. A file that is being written counts as what it
\* will say.
View(p) ==
  CASE ~Sole(p) -> "contested"
    [] Sole(p) /\ state[p] = "none" -> "absent"
    [] Sole(p) /\ state[p] = "torn" ->
         IF \E c \in MadeBy(p) : cpc[c] = "writing"
           THEN loc[CHOOSE c \in MadeBy(p) : TRUE] ELSE "broken"
    [] OTHER -> state[p]

\* The Create of the bundle at p was accepted and has not saved a result yet.
Active(p) ==
  /\ Sole(p)
  /\ \E c \in MadeBy(p) :
       \/ cpc[c] \in {"mkdata", "lookup", "collect", "download", "merge", "copy"}
       \/ cpc[c] = "writing" /\ loc[c] = "Started"
       \/ cpc[c] = "write" /\ loc[c] # "Started"

Life == INSTANCE BundleLifecycle WITH
  Bundles <- Places, status <- [p \in Places |-> View(p)],
  active <- [p \in Places |-> Active(p)]

\* Every cluster bundle that one Create made goes through the lifecycle of a local
\* one: only the goroutine at work on it says how it ended, once, and what was
\* deleted when nobody was at work stays deleted. (That the work ends is
\* ClusterCreateSettles.)
ImplementsLifecycle == Life!Spec

=============================================================================
