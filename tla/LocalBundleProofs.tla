-------------------------- MODULE LocalBundleProofs --------------------------
(* Proofs about LocalBundle, for every set of ids, requests and collectors,    *)
(* every mix of handlers and any number of faults: the safety invariants, and  *)
(* that the bundles of a node go through the lifecycle of BundleLifecycle.     *)
EXTENDS LocalBundle, TLAPS

-----------------------------------------------------------------------------
(* The inductive invariant, in parts that build on each other. *)

\* r is about to write a state file or is writing it.
Writes(r) == pc[r] \in {"write", "writing"}

\* Which handler a step belongs to, and which status it has at hand.
Roles ==
  \A r \in Reqs :
    /\ pc[r] \in {"mkdir", "mkdata", "select"} => op[r] = "create"
    /\ pc[r] \in {"read", "stat"} => op[r] \in {"get", "getfile", "delete"}
    /\ pc[r] = "stat" => loc[r].st \in {"Started", "Done"}
    /\ pc[r] = "serve" => op[r] = "getfile" /\ loc[r].st = "Done"
    /\ pc[r] = "remove" => op[r] = "delete"
    /\ Writes(r) => \/ op[r] = "create" /\ loc[r].st \in {"Started", "Done", "Failed"}
                    \/ op[r] = "delete" /\ loc[r].st = "Deleted"

Typed == TypeOK /\ Roles

\* The lock belongs to the request that is writing, and the file it writes is
\* truncated.
Locked ==
  \A r \in Reqs :
    /\ pc[r] = "writing" <=> lock = r
    /\ lock = r => state[rid[r]].st = "torn"

\* The owners are the Creates past MkdirAll; goroutines and data files belong to
\* owners, and a bundle has a state file only if it has an owner; a Delete past
\* reading the state file found one.
Owned ==
  /\ \A r \in owners : op[r] = "create" /\ pc[r] \notin {"idle", "mkdir"}
  /\ \A r \in Reqs :
       \/ pc[r] \in {"mkdata", "select"}
       \/ op[r] = "create" /\ Writes(r)
       \/ cpc[r] # "off"
       => r \in owners
  /\ \A r \in Reqs : op[r] = "create" /\ resp[r] = 200 => cpc[r] # "off"
  /\ \A i \in Ids : data[i] # NoReq => /\ data[i] \in owners
                                       /\ rid[data[i]] = i
                                       /\ cpc[data[i]] # "off"
  /\ \A i \in Ids : state[i].st # "none" => \E o \in owners : rid[o] = i
  /\ \A d \in Reqs : op[d] = "delete" /\ pc[d] \in {"stat", "remove", "write", "writing"} =>
                       state[rid[d]].st # "none"

\* How far the goroutine collectAll is when the handler of its Create, and then
\* the watcher, take a step.
Paced ==
  \A r \in Reqs :
    /\ pc[r] = "mkdata" => cpc[r] = "off"
    /\ pc[r] = "select" => cpc[r] \in {"collect", "finish", "send"}
    /\ op[r] = "create" /\ Writes(r) =>
         IF loc[r].st = "Done" THEN cpc[r] = "gone" ELSE cpc[r] = "off"

\* What r collected is complete, or r has errors to report.
Complete(r) == cerr[r] \/ (closed[r] /\ Mandatory \subseteq zip[r])

\* The loop over the collectors, up to next[r].
Collected ==
  \A r \in Reqs :
    /\ cpc[r] = "off" => next[r] = 1
    /\ cpc[r] = "collect" => cerr[r] \/ \A c \in Mandatory : c < next[r] => c \in zip[r]
    /\ cpc[r] = "finish" => cerr[r]
    /\ cpc[r] = "send" => Complete(r)

\* o has done all its work on bundle i, and b is what it saved.
DoneBy(o, i, b) ==
  /\ rid[o] = i
  /\ pc[o] = "end"
  /\ cpc[o] = "gone"
  /\ b = Saved("Done", cerr[o])
  /\ Complete(o)

\* A Create that saves Done saves the errors of its goroutine, and what it has
\* without errors is complete.
Reported ==
  \A r \in Reqs : op[r] = "create" /\ Writes(r) /\ loc[r].st = "Done" =>
                    loc[r] = Saved("Done", cerr[r]) /\ Complete(r)

\* Whoever says Done, the state file or a request that has read it, says what an
\* owner saved when its work was over.
Settled ==
  /\ \A i \in Ids : state[i].st = "Done" => \E o \in owners : DoneBy(o, i, state[i])
  /\ \A r \in Reqs : op[r] # "create" /\ loc[r].st = "Done" =>
                       \E o \in owners : DoneBy(o, rid[r], loc[r])
  /\ \A r \in Reqs : seen[r] = "Done" => \E o \in owners : /\ rid[o] = rid[r]
                                                           /\ pc[o] = "end"
                                                           /\ cpc[o] = "gone"

\* A download that ended well read Done and got the file of an owner.
Downloaded ==
  \A r \in Reqs :
    op[r] = "getfile" /\ resp[r] = 200 =>
      /\ pc[r] = "end"
      /\ loc[r].st = "Done"
      /\ served[r] \in owners
      /\ rid[served[r]] = rid[r]

\* d is a Delete of bundle i that has removed the data and not yet saved Deleted.
Removed(d, i) == op[d] = "delete" /\ rid[d] = i /\ Writes(d)

\* A Delete answers 200 at its end, and has no status before it has looked.
Answered ==
  \A d \in Reqs :
    op[d] = "delete" => /\ resp[d] = 200 => pc[d] = "end"
                        /\ pc[d] \in {"idle", "read", "stat"} => seen[d] = "none"

\* A bundle with one owner is deleted once: the first Delete that removes the data
\* leaves nothing for the others, and the owner makes no new file.
Deleted ==
  \A d \in Reqs : \A i \in Ids :
    Removed(d, i) /\ Sole(i) =>
      /\ data[i] = NoReq
      /\ \A e \in Reqs : Removed(e, i) => e = d
      /\ \E o \in owners : rid[o] = i /\ cpc[o] # "off"

\* A Delete that found the bundle Done and answered 200 has the last word.
Sticks ==
  \A d \in Reqs :
    op[d] = "delete" /\ resp[d] = 200 /\ seen[d] = "Done" /\ Sole(rid[d]) =>
      /\ state[rid[d]].st = "Deleted"
      /\ data[rid[d]] = NoReq
      /\ \A e \in Reqs : ~Removed(e, rid[d])

\* Bundle i was never asked to be deleted.
Undeleted(i) == \A d \in Reqs : op[d] = "delete" /\ rid[d] = i => pc[d] = "idle"

\* What an owner has put on disk at each of its steps: nothing before it writes
\* Started, and a readable state file and its data file once it did, as long as
\* nothing fails and nobody deletes them.
OnDisk ==
  \A r \in owners :
    Sole(rid[r]) =>
      /\ pc[r] = "write" /\ loc[r].st = "Started" => state[rid[r]].st = "none"
      /\ faults = 0 /\ Undeleted(rid[r]) =>
           /\ Writes(r) => loc[r].st \in {"Started", "Done"}
           /\ ~Writes(r) \/ (pc[r] = "write" /\ loc[r].st # "Started") =>
                state[rid[r]].st \in {"Started", "Done"}
           /\ cpc[r] # "off" => data[rid[r]] = r

IInv ==
  /\ Typed /\ Locked /\ Owned /\ Paced
  /\ Collected /\ Reported /\ Settled /\ Downloaded
  /\ Answered /\ Deleted /\ Sticks /\ OnDisk

-----------------------------------------------------------------------------
(* What the callers of writeStateFile and getBundleState do, without the CASEs. *)

\* A write of the state file ends: Create goes on after saving Started, everyone
\* else is at the end; only a Delete answers 200.
LEMMA AfterWriteCases ==
  ASSUME Typed, NEW r \in Reqs, NEW ok \in BOOLEAN, Writes(r), AfterWrite(r, ok)
  PROVE  /\ pc' = [pc EXCEPT ![r] = IF op[r] = "create" /\ loc[r].st = "Started" /\ ok
                                      THEN "mkdata" ELSE "end"]
         /\ \/ op[r] = "create" /\ UNCHANGED resp
            \/ op[r] = "create" /\ resp' = [resp EXCEPT ![r] = 507]
            \/ op[r] = "delete" /\ resp' = [resp EXCEPT ![r] = IF ok THEN 200 ELSE 500]
<1> USE DEF Typed, Roles, Writes, Answer, Goto
<1>1. CASE op[r] = "create" /\ loc[r].st = "Started"
  BY <1>1 DEF AfterWrite
<1>2. CASE op[r] = "create" /\ loc[r].st = "Failed"
  BY <1>2 DEF AfterWrite
<1>3. CASE op[r] = "create" /\ loc[r].st = "Done"
  BY <1>3 DEF AfterWrite
<1>4. CASE op[r] = "delete" /\ loc[r].st = "Deleted"
  BY <1>4 DEF AfterWrite
<1>5. QED
  BY <1>1, <1>2, <1>3, <1>4

\* A status is returned by getBundleState: Get answers, GetFile goes on if the
\* bundle is Done, Delete unless it is Deleted.
LEMMA UseStateCases ==
  ASSUME NEW r \in Reqs, NEW st \in Status, UseState(r, st),
         op[r] \in {"get", "getfile", "delete"}
  PROVE  /\ seen' = [seen EXCEPT ![r] = st]
         /\ \/ op[r] = "getfile" /\ st = "Done" /\ Goto(r, "serve") /\ UNCHANGED resp
            \/ op[r] = "delete" /\ st # "Deleted" /\ Goto(r, "remove") /\ UNCHANGED resp
            \/ op[r] = "get" /\ Answer(r, 200)
            \/ op[r] = "delete" /\ st = "Deleted" /\ Answer(r, 200)
            \/ op[r] = "getfile" /\ Answer(r, 404)
            \/ op[r] = "getfile" /\ Answer(r, 410)
<1> USE DEF UseState, Status, Downloadable
<1>1. CASE op[r] = "get"
  BY <1>1
<1>2. CASE op[r] = "getfile" /\ st \in {"Deleted", "Failed"}
  BY <1>2
<1>3. CASE op[r] = "getfile" /\ st \in {"Started", "Done"}
  BY <1>3
<1>4. CASE op[r] = "delete" /\ st = "Deleted"
  BY <1>4
<1>5. CASE op[r] = "delete" /\ st # "Deleted"
  BY <1>5
<1>6. QED
  BY <1>1, <1>2, <1>3, <1>4, <1>5

-----------------------------------------------------------------------------
(* The steps of a request, one for each outcome of an action: what an action    *)
(* does is a disjunction, and each of its disjuncts assigns every variable.     *)

\* Create and Access: the request is refused or let in.
Refused(r, code) ==
  /\ pc[r] = "idle" /\ op[r] \in {"create", "get", "delete"} /\ code \in {404, 409}
  /\ resp' = [resp EXCEPT ![r] = code]
  /\ pc' = [pc EXCEPT ![r] = "end"]
  /\ UNCHANGED <<dir, state, data, zip, closed, lock, op, rid, loc, seen, served,
                 cpc, next, cerr, ctx, owners, faults>>
Admitted(r, step) ==
  /\ pc[r] = "idle"
  /\ \/ op[r] = "create" /\ step = "mkdir"
     \/ op[r] \in {"get", "getfile", "delete"} /\ step = "read"
  /\ pc' = [pc EXCEPT ![r] = step]
  /\ UNCHANGED <<dir, state, data, zip, closed, lock, op, rid, loc, seen, resp, served,
                 cpc, next, cerr, ctx, owners, faults>>

\* MakeDir.
DirMade(r) ==
  /\ pc[r] = "mkdir"
  /\ dir' = [dir EXCEPT ![rid[r]] = TRUE]
  /\ loc' = [loc EXCEPT ![r] = [st |-> "Started", err |-> FALSE]]
  /\ owners' = owners \cup {r}
  /\ pc' = [pc EXCEPT ![r] = "write"]
  /\ UNCHANGED <<state, data, zip, closed, lock, op, rid, seen, resp, served,
                 cpc, next, cerr, ctx, faults>>
DirFails(r) ==
  /\ pc[r] = "mkdir"
  /\ faults < MaxFaults /\ faults' = faults + 1
  /\ resp' = [resp EXCEPT ![r] = 507]
  /\ pc' = [pc EXCEPT ![r] = "end"]
  /\ UNCHANGED <<dir, state, data, zip, closed, lock, op, rid, loc, seen, served,
                 cpc, next, cerr, ctx, owners>>

\* MakeData.
DataMade(r) ==
  /\ pc[r] = "mkdata"
  /\ data' = [data EXCEPT ![rid[r]] = IF data[rid[r]] = NoReq THEN r ELSE data[rid[r]]]
  /\ cpc' = [cpc EXCEPT ![r] = "collect"]
  /\ resp' = [resp EXCEPT ![r] = 200]
  /\ pc' = [pc EXCEPT ![r] = "select"]
  /\ UNCHANGED <<dir, state, zip, closed, lock, op, rid, loc, seen, served,
                 next, cerr, ctx, owners, faults>>
DataFails(r) ==
  /\ pc[r] = "mkdata"
  /\ faults < MaxFaults /\ faults' = faults + 1
  /\ loc' = [loc EXCEPT ![r] = [st |-> "Failed", err |-> TRUE]]
  /\ pc' = [pc EXCEPT ![r] = "write"]
  /\ UNCHANGED <<dir, state, data, zip, closed, lock, op, rid, seen, resp, served,
                 cpc, next, cerr, ctx, owners>>

\* BeginWrite, EndWrite and FailWrite.
Opens(r) ==
  /\ pc[r] = "write" /\ lock = NoReq /\ lock' = r
  /\ state' = [state EXCEPT ![rid[r]] = [st |-> "torn", err |-> FALSE]]
  /\ pc' = [pc EXCEPT ![r] = "writing"]
  /\ UNCHANGED <<dir, data, zip, closed, op, rid, loc, seen, resp, served,
                 cpc, next, cerr, ctx, owners, faults>>
Saves(r, code, step) ==
  /\ pc[r] = "writing" /\ lock' = NoReq
  /\ \/ op[r] = "create" /\ loc[r].st = "Started" /\ step = "mkdata" /\ code = resp[r]
     \/ op[r] = "create" /\ loc[r].st \in {"Done", "Failed"} /\ step = "end" /\ code \in {resp[r], 507}
     \/ op[r] = "delete" /\ step = "end" /\ code = 200
  /\ state' = [state EXCEPT ![rid[r]] = loc[r]]
  /\ resp' = [resp EXCEPT ![r] = code]
  /\ pc' = [pc EXCEPT ![r] = step]
  /\ UNCHANGED <<dir, data, zip, closed, op, rid, loc, seen, served,
                 cpc, next, cerr, ctx, owners, faults>>
WriteFails(r, code) ==
  /\ pc[r] \in {"write", "writing"} /\ (pc[r] = "write" => lock = NoReq) /\ lock' = NoReq
  /\ faults < MaxFaults /\ faults' = faults + 1
  /\ \/ op[r] = "create" /\ code \in {resp[r], 507}
     \/ op[r] = "delete" /\ code = 500
  /\ resp' = [resp EXCEPT ![r] = code]
  /\ pc' = [pc EXCEPT ![r] = "end"]
  /\ UNCHANGED <<dir, state, data, zip, closed, op, rid, loc, seen, served,
                 cpc, next, cerr, ctx, owners>>

\* ReadState and StatData: an error; a bundle whose data file has to be there; or a
\* status b to use, in an answer, to serve the file or to remove it.
Unread(r) ==
  /\ pc[r] \in {"read", "stat"}
  /\ resp' = [resp EXCEPT ![r] = 500]
  /\ pc' = [pc EXCEPT ![r] = "end"]
  /\ UNCHANGED <<dir, state, data, zip, closed, lock, op, rid, loc, seen, served,
                 cpc, next, cerr, ctx, owners, faults>>
ReadsLive(r) ==
  /\ pc[r] = "read" /\ lock = NoReq /\ state[rid[r]].st \in {"Started", "Done"}
  /\ loc' = [loc EXCEPT ![r] = state[rid[r]]]
  /\ pc' = [pc EXCEPT ![r] = "stat"]
  /\ UNCHANGED <<dir, state, data, zip, closed, lock, op, rid, seen, resp, served,
                 cpc, next, cerr, ctx, owners, faults>>
Learns(r, b, code, step) ==
  /\ \/ pc[r] = "read" /\ b = state[rid[r]] /\ b.st \in {"Deleted", "Failed"}
     \/ pc[r] = "stat" /\ b = loc[r] /\ b.st \in {"Started", "Done"} /\ data[rid[r]] # NoReq
  /\ \/ op[r] = "get" /\ step = "end" /\ code = 200
     \/ op[r] = "getfile" /\ step = "end" /\ code \in {404, 410}
     \/ op[r] = "delete" /\ step = "end" /\ code = 200 /\ b.st = "Deleted"
     \/ op[r] = "getfile" /\ step = "serve" /\ code = resp[r] /\ b.st = "Done"
     \/ op[r] = "delete" /\ step = "remove" /\ code = resp[r] /\ b.st # "Deleted"
  /\ loc' = [loc EXCEPT ![r] = b]
  /\ seen' = [seen EXCEPT ![r] = b.st]
  /\ resp' = [resp EXCEPT ![r] = code]
  /\ pc' = [pc EXCEPT ![r] = step]
  /\ UNCHANGED <<dir, state, data, zip, closed, lock, op, rid, served,
                 cpc, next, cerr, ctx, owners, faults>>

\* ServeFile and RemoveData.
Serves(r, code) ==
  /\ pc[r] = "serve" /\ code = (IF data[rid[r]] = NoReq THEN 404 ELSE 200)
  /\ served' = [served EXCEPT ![r] = data[rid[r]]]
  /\ resp' = [resp EXCEPT ![r] = code]
  /\ pc' = [pc EXCEPT ![r] = "end"]
  /\ UNCHANGED <<dir, state, data, zip, closed, lock, op, rid, loc, seen,
                 cpc, next, cerr, ctx, owners, faults>>
Removes(r) ==
  /\ pc[r] = "remove" /\ data[rid[r]] # NoReq
  /\ data' = [data EXCEPT ![rid[r]] = NoReq]
  /\ loc' = [loc EXCEPT ![r] = MarkDeleted(loc[r])]
  /\ pc' = [pc EXCEPT ![r] = "write"]
  /\ UNCHANGED <<dir, state, zip, closed, lock, op, rid, seen, resp, served,
                 cpc, next, cerr, ctx, owners, faults>>
RemoveFails(r) ==
  /\ pc[r] = "remove"
  /\ faults' = faults \/ (faults < MaxFaults /\ faults' = faults + 1)
  /\ resp' = [resp EXCEPT ![r] = 500]
  /\ pc' = [pc EXCEPT ![r] = "end"]
  /\ UNCHANGED <<dir, state, data, zip, closed, lock, op, rid, loc, seen, served,
                 cpc, next, cerr, ctx, owners>>

\* CollectNext: the context has expired, or one collector has run.
CollectStops(r) ==
  /\ cpc[r] = "collect"
  /\ cerr' = [cerr EXCEPT ![r] = TRUE]
  /\ cpc' = [cpc EXCEPT ![r] = "finish"]
  /\ UNCHANGED <<dir, state, data, zip, closed, lock, op, rid, pc, loc, seen, resp, served,
                 next, ctx, owners, faults>>
Collects(r, stored, failed) ==
  /\ cpc[r] = "collect" /\ next[r] <= NumCollectors
  /\ stored \in BOOLEAN /\ failed \in BOOLEAN
  /\ next[r] \in Mandatory /\ ~stored => failed
  /\ zip' = [zip EXCEPT ![r] = IF stored THEN zip[r] \cup {next[r]} ELSE zip[r]]
  /\ cerr' = [cerr EXCEPT ![r] = cerr[r] \/ failed]
  /\ next' = [next EXCEPT ![r] = next[r] + 1]
  /\ UNCHANGED <<dir, state, data, closed, lock, op, rid, pc, loc, seen, resp, served,
                 cpc, ctx, owners, faults>>

\* FinishZip.
ZipClosed(r) ==
  /\ \/ cpc[r] = "finish"
     \/ cpc[r] = "collect" /\ next[r] > NumCollectors
  /\ cpc' = [cpc EXCEPT ![r] = "send"]
  /\ closed' = [closed EXCEPT ![r] = TRUE]
  /\ UNCHANGED <<dir, state, data, zip, lock, op, rid, pc, loc, seen, resp, served,
                 next, cerr, ctx, owners, faults>>
ZipFails(r) ==
  /\ cpc[r] \in {"collect", "finish"}
  /\ faults < MaxFaults /\ faults' = faults + 1
  /\ cpc' = [cpc EXCEPT ![r] = "send"]
  /\ cerr' = [cerr EXCEPT ![r] = TRUE]
  /\ UNCHANGED <<dir, state, data, zip, closed, lock, op, rid, pc, loc, seen, resp, served,
                 next, ctx, owners>>

\* WatchDone, WatchTimeout and Expire have one outcome.
Receives(r) ==
  /\ pc[r] = "select" /\ cpc[r] = "send"
  /\ cpc' = [cpc EXCEPT ![r] = "gone"]
  /\ loc' = [loc EXCEPT ![r] = [st |-> "Done", err |-> cerr[r]]]
  /\ pc' = [pc EXCEPT ![r] = "write"]
  /\ UNCHANGED <<dir, state, data, zip, closed, lock, op, rid, seen, resp, served,
                 next, cerr, ctx, owners, faults>>
Leaves(r) ==
  /\ pc[r] = "select"
  /\ pc' = [pc EXCEPT ![r] = "end"]
  /\ UNCHANGED <<dir, state, data, zip, closed, lock, op, rid, loc, seen, resp, served,
                 cpc, next, cerr, ctx, owners, faults>>
Expires(r) ==
  /\ ctx' = [ctx EXCEPT ![r] = TRUE]
  /\ UNCHANGED <<dir, state, data, zip, closed, lock, op, rid, pc, loc, seen, resp, served,
                 cpc, next, cerr, owners, faults>>

\* Crash.
Dies ==
  /\ faults < MaxFaults /\ faults' = faults + 1
  /\ pc' = [r \in Reqs |-> IF pc[r] = "idle" THEN "idle" ELSE "end"]
  /\ cpc' = [r \in Reqs |-> IF cpc[r] = "off" THEN "off" ELSE "gone"]
  /\ lock' = NoReq
  /\ UNCHANGED <<dir, state, data, zip, closed, op, rid, loc, seen, resp, served,
                 next, cerr, ctx, owners>>

\* A step of request r, of one of its goroutines or of its clock.
Outcome(r) ==
  \/ \E code \in Nat : Refused(r, code)
  \/ \E step \in {"mkdir", "read"} : Admitted(r, step)
  \/ DirMade(r) \/ DirFails(r) \/ DataMade(r) \/ DataFails(r) \/ Opens(r)
  \/ \E code \in Nat, step \in {"mkdata", "end"} : Saves(r, code, step)
  \/ \E code \in Nat : WriteFails(r, code)
  \/ Unread(r) \/ ReadsLive(r)
  \/ \E b \in StateFile, code \in Nat, step \in {"end", "serve", "remove"} : Learns(r, b, code, step)
  \/ \E code \in Nat : Serves(r, code)
  \/ Removes(r) \/ RemoveFails(r) \/ CollectStops(r)
  \/ \E stored, failed \in BOOLEAN : Collects(r, stored, failed)
  \/ ZipClosed(r) \/ ZipFails(r) \/ Receives(r) \/ Leaves(r) \/ Expires(r)

\* The outcomes are all the steps there are.
LEMMA NextOutcomes ==
  ASSUME Typed, [Next]_vars
  PROVE  (\E r \in Reqs : Outcome(r)) \/ Dies \/ UNCHANGED vars
<1> USE DEF Goto, Answer, Fault, disk, handler, collecting
<1>1. ASSUME NEW r \in Reqs, Create(r) PROVE Outcome(r)
  <2>1. CASE dir[rid[r]]
    <3>1. Refused(r, 409)
      BY <1>1, <2>1, Zenon DEF Create, Refused
    <3>2. QED
      BY <3>1 DEF Outcome
  <2>2. CASE ~dir[rid[r]]
    <3>1. Admitted(r, "mkdir")
      BY <1>1, <2>2, Zenon DEF Create, Admitted
    <3>2. QED
      BY <3>1 DEF Outcome
  <2>3. QED
    BY <2>1, <2>2
<1>2. ASSUME NEW r \in Reqs, Access(r) PROVE Outcome(r)
  <2>1. CASE op[r] \in {"get", "delete"} /\ ~dir[rid[r]]
    <3>1. Refused(r, 404)
      BY <1>2, <2>1, ZenonT(40) DEF Access, Refused
    <3>2. QED
      BY <3>1 DEF Outcome
  <2>2. CASE ~(op[r] \in {"get", "delete"} /\ ~dir[rid[r]])
    <3>1. Admitted(r, "read")
      BY <1>2, <2>2, Zenon DEF Access, Admitted
    <3>2. QED
      BY <3>1 DEF Outcome
  <2>3. QED
    BY <2>1, <2>2
<1>3. ASSUME NEW r \in Reqs, MakeDir(r) PROVE DirMade(r) \/ DirFails(r)
  BY <1>3, ZenonT(40) DEF MakeDir, DirMade, DirFails, Saved
<1>4. ASSUME NEW r \in Reqs, MakeData(r) PROVE DataMade(r) \/ DataFails(r)
  BY <1>4, Zenon DEF MakeData, DataMade, DataFails, Saved
<1>5. ASSUME NEW r \in Reqs, BeginWrite(r) PROVE Opens(r)
  BY <1>5, Zenon DEF BeginWrite, Opens, Lock, Saved
<1>6. ASSUME NEW r \in Reqs, EndWrite(r) PROVE Outcome(r)
  <2>1. pc[r] = "writing"
    BY <1>6, Zenon DEF EndWrite
  <2>2. resp[r] \in Nat /\ (UNCHANGED resp => resp' = [resp EXCEPT ![r] = resp[r]])
    BY DEF Typed, TypeOK
  <2>3. PICK code \in Nat, step \in {"mkdata", "end"} :
          /\ resp' = [resp EXCEPT ![r] = code] /\ pc' = [pc EXCEPT ![r] = step]
          /\ \/ op[r] = "create" /\ loc[r].st = "Started" /\ step = "mkdata" /\ code = resp[r]
             \/ op[r] = "create" /\ loc[r].st \in {"Done", "Failed"} /\ step = "end" /\ code \in {resp[r], 507}
             \/ op[r] = "delete" /\ step = "end" /\ code = 200
    <3>1. CASE op[r] = "create" /\ loc[r].st = "Started"
      BY <1>6, <2>1, <2>2, <3>1 DEF EndWrite, AfterWrite
    <3>2. CASE op[r] = "create" /\ loc[r].st = "Done"
      BY <1>6, <2>1, <2>2, <3>2 DEF EndWrite, AfterWrite
    <3>3. CASE op[r] = "create" /\ loc[r].st = "Failed"
      BY <1>6, <2>1, <2>2, <3>3 DEF EndWrite, AfterWrite
    <3>4. CASE op[r] = "delete"
      BY <1>6, <2>1, <2>2, <3>4 DEF EndWrite, AfterWrite
    <3>5. QED
      BY <2>1, <3>1, <3>2, <3>3, <3>4 DEF Typed, Roles, Writes
  <2>4. Saves(r, code, step)
    BY <1>6, <2>3, Zenon DEF EndWrite, Saves
  <2>5. QED
    BY <2>4 DEF Outcome
<1>7. ASSUME NEW r \in Reqs, FailWrite(r) PROVE Outcome(r)
  <2>1. Writes(r) /\ AfterWrite(r, FALSE) /\ FALSE \in BOOLEAN
    BY <1>7, Zenon DEF FailWrite, Writes
  <2>2. resp[r] \in Nat /\ (UNCHANGED resp => resp' = [resp EXCEPT ![r] = resp[r]])
    BY DEF Typed, TypeOK
  <2>3. pc' = [pc EXCEPT ![r] = "end"]
    <3>1. pc' = [pc EXCEPT ![r] = IF op[r] = "create" /\ loc[r].st = "Started" /\ FALSE
                                    THEN "mkdata" ELSE "end"]
      BY <2>1, AfterWriteCases, Zenon
    <3>2. QED
      BY <3>1
  <2>4. PICK code \in Nat : /\ resp' = [resp EXCEPT ![r] = code]
                            /\ \/ op[r] = "create" /\ code \in {resp[r], 507}
                               \/ op[r] = "delete" /\ code = 500
    <3>1. \/ op[r] = "create" /\ UNCHANGED resp
          \/ op[r] = "create" /\ resp' = [resp EXCEPT ![r] = 507]
          \/ op[r] = "delete" /\ resp' = [resp EXCEPT ![r] = IF FALSE THEN 200 ELSE 500]
      BY <2>1, AfterWriteCases, ZenonT(40)
    <3>2. QED
      BY <2>2, <3>1
  <2>5. WriteFails(r, code)
    BY <1>7, <2>3, <2>4, Zenon DEF FailWrite, WriteFails
  <2>6. QED
    BY <2>5 DEF Outcome
<1>8. ASSUME NEW r \in Reqs, NEW st \in Status, UseState(r, st), op[r] \in {"get", "getfile", "delete"}
      PROVE  \E code \in Nat, step \in {"end", "serve", "remove"} :
               /\ seen' = [seen EXCEPT ![r] = st]
               /\ resp' = [resp EXCEPT ![r] = code] /\ pc' = [pc EXCEPT ![r] = step]
               /\ \/ op[r] = "get" /\ step = "end" /\ code = 200
                  \/ op[r] = "getfile" /\ step = "end" /\ code \in {404, 410}
                  \/ op[r] = "delete" /\ step = "end" /\ code = 200 /\ st = "Deleted"
                  \/ op[r] = "getfile" /\ step = "serve" /\ code = resp[r] /\ st = "Done"
                  \/ op[r] = "delete" /\ step = "remove" /\ code = resp[r] /\ st # "Deleted"
  <2>1. resp[r] \in Nat /\ (UNCHANGED resp => resp' = [resp EXCEPT ![r] = resp[r]])
    BY DEF Typed, TypeOK
  <2>2. QED
    BY <1>8, <2>1, UseStateCases
<1>9. ASSUME NEW r \in Reqs, ReadState(r) PROVE Outcome(r)
  <2>1. op[r] \in {"get", "getfile", "delete"} /\ state[rid[r]] \in StateFile
    BY <1>9 DEF ReadState, Typed, TypeOK, Roles
  <2>2. CASE Unreadable(r) /\ UNCHANGED loc
    <3>1. Unread(r)
      BY <1>9, <2>2, Zenon DEF ReadState, Unreadable, Unread
    <3>2. QED
      BY <3>1 DEF Outcome
  <2>3. CASE /\ state[rid[r]].st \in {"Deleted", "Failed"}
             /\ loc' = [loc EXCEPT ![r] = state[rid[r]]]
             /\ UseState(r, state[rid[r]].st)
    <3> DEFINE b == state[rid[r]]
    <3>1. b.st \in Status
      BY <2>3 DEF Status
    <3>2. PICK code \in Nat, step \in {"end", "serve", "remove"} :
               /\ seen' = [seen EXCEPT ![r] = b.st]
               /\ resp' = [resp EXCEPT ![r] = code] /\ pc' = [pc EXCEPT ![r] = step]
               /\ \/ op[r] = "get" /\ step = "end" /\ code = 200
                  \/ op[r] = "getfile" /\ step = "end" /\ code \in {404, 410}
                  \/ op[r] = "delete" /\ step = "end" /\ code = 200 /\ b.st = "Deleted"
                  \/ op[r] = "getfile" /\ step = "serve" /\ code = resp[r] /\ b.st = "Done"
                  \/ op[r] = "delete" /\ step = "remove" /\ code = resp[r] /\ b.st # "Deleted"
      BY <1>8, <2>1, <2>3, <3>1
    <3>3. Learns(r, b, code, step)
      BY <1>9, <2>3, <3>2, Zenon DEF ReadState, Learns
    <3>4. QED
      BY <2>1, <3>3 DEF Outcome
  <2>4. CASE /\ state[rid[r]].st \in {"Started", "Done"}
             /\ loc' = [loc EXCEPT ![r] = state[rid[r]]]
             /\ Goto(r, "stat")
             /\ UNCHANGED <<seen, resp>>
    <3>1. ReadsLive(r)
      BY <1>9, <2>4, Zenon DEF ReadState, ReadsLive
    <3>2. QED
      BY <3>1 DEF Outcome
  <2>5. QED
    BY <1>9, <2>2, <2>3, <2>4, Zenon DEF ReadState
<1>10. ASSUME NEW r \in Reqs, StatData(r) PROVE Outcome(r)
  <2>1. op[r] \in {"get", "getfile", "delete"} /\ loc[r] \in StateFile /\ loc[r].st \in {"Started", "Done"}
    BY <1>10 DEF StatData, Typed, TypeOK, Roles
  <2>2. CASE data[rid[r]] = NoReq
    <3>1. Unread(r)
      BY <1>10, <2>2, Zenon DEF StatData, Unreadable, Unread
    <3>2. QED
      BY <3>1 DEF Outcome
  <2>3. CASE data[rid[r]] # NoReq
    <3> DEFINE b == loc[r]
    <3>1. b.st \in Status /\ UseState(r, b.st)
      BY <1>10, <2>1, <2>3 DEF StatData, Status
    <3>2. PICK code \in Nat, step \in {"end", "serve", "remove"} :
               /\ seen' = [seen EXCEPT ![r] = b.st]
               /\ resp' = [resp EXCEPT ![r] = code] /\ pc' = [pc EXCEPT ![r] = step]
               /\ \/ op[r] = "get" /\ step = "end" /\ code = 200
                  \/ op[r] = "getfile" /\ step = "end" /\ code \in {404, 410}
                  \/ op[r] = "delete" /\ step = "end" /\ code = 200 /\ b.st = "Deleted"
                  \/ op[r] = "getfile" /\ step = "serve" /\ code = resp[r] /\ b.st = "Done"
                  \/ op[r] = "delete" /\ step = "remove" /\ code = resp[r] /\ b.st # "Deleted"
      BY <1>8, <2>1, <3>1
    <3>3. loc' = [loc EXCEPT ![r] = b]
      BY <1>10 DEF StatData, Typed, TypeOK
    <3>4. Learns(r, b, code, step)
      BY <1>10, <2>1, <2>3, <3>2, <3>3, Zenon DEF StatData, Learns
    <3>5. QED
      BY <2>1, <3>4 DEF Outcome
  <2>4. QED
    BY <2>2, <2>3
<1>11. ASSUME NEW r \in Reqs, ServeFile(r) PROVE Outcome(r)
  <2>1. \E code \in {200, 404} : Serves(r, code)
    BY <1>11, ZenonT(40) DEF ServeFile, Serves
  <2>2. QED
    BY <2>1 DEF Outcome
<1>12. ASSUME NEW r \in Reqs, RemoveData(r) PROVE Removes(r) \/ RemoveFails(r)
  <2>1. CASE data[rid[r]] # NoReq /\ loc' = [loc EXCEPT ![r] = MarkDeleted(loc[r])]
    BY <1>12, <2>1, ZenonT(40) DEF RemoveData, Removes, RemoveFails
  <2>2. CASE Answer(r, 500) /\ UNCHANGED <<data, loc>>
    BY <1>12, <2>2, Zenon DEF RemoveData, Removes, RemoveFails
  <2>3. QED
    BY <1>12, <2>1, <2>2, Zenon DEF RemoveData
<1>13. ASSUME NEW r \in Reqs, CollectNext(r) PROVE Outcome(r)
  <2>1. CASE ctx[r]
    <3>1. CollectStops(r)
      BY <1>13, <2>1, Zenon DEF CollectNext, CollectStops
    <3>2. QED
      BY <3>1 DEF Outcome
  <2>2. CASE ~ctx[r]
    <3>1. PICK result \in {"collected", "not collected", "not copied"} :
            LET stored == \/ result = "collected"
                          \/ result = "not collected" /\ next[r] \in Optional
            IN /\ zip' = [zip EXCEPT ![r] = IF stored THEN @ \cup {next[r]} ELSE @]
               /\ cerr' = [cerr EXCEPT ![r] =
                             @ \/ (result # "collected" /\ next[r] \in Mandatory)]
               /\ next' = [next EXCEPT ![r] = next[r] + 1]
               /\ UNCHANGED cpc
      BY <1>13, <2>2, Zenon DEF CollectNext
    <3> DEFINE stored == result = "collected" \/ (result = "not collected" /\ next[r] \in Optional)
               failed == result # "collected" /\ next[r] \in Mandatory
    <3>2. next[r] \in Mandatory /\ ~stored => failed
      OBVIOUS
    <3>3. Collects(r, stored, failed)
      BY <1>13, <3>1, <3>2, Zenon DEF CollectNext, HasNext, Collects
    <3>4. QED
      BY <3>3, Zenon DEF Outcome
  <2>3. QED
    BY <2>1, <2>2
<1>14. ASSUME NEW r \in Reqs, FinishZip(r) PROVE ZipClosed(r) \/ ZipFails(r)
  <2>1. HasNext(r) \/ next[r] > NumCollectors
    BY CollectorsAssumption DEF HasNext, Typed, TypeOK
  <2>2. QED
    BY <1>14, <2>1, Zenon DEF FinishZip, ZipClosed, ZipFails
<1>15. ASSUME NEW r \in Reqs, WatchDone(r) PROVE Receives(r)
  BY <1>15, Zenon DEF WatchDone, FinalBundle, Saved, Receives
<1>16. ASSUME NEW r \in Reqs, WatchTimeout(r) PROVE Leaves(r)
  BY <1>16, Zenon DEF WatchTimeout, Leaves
<1>17. ASSUME NEW r \in Reqs, Expire(r) PROVE Expires(r)
  BY <1>17, Zenon DEF Expire, Expires
<1>18. ASSUME Crash PROVE Dies
  BY <1>18, Zenon DEF Crash, Dies
<1>19. QED
  BY <1>1, <1>2, <1>3, <1>4, <1>5, <1>6, <1>7, <1>9, <1>10, <1>11, <1>12, <1>13,
     <1>14, <1>15, <1>16, <1>17, <1>18, Zenon
  DEF Next, Arrive, Handle, Background, Outcome

-----------------------------------------------------------------------------
(* Type correctness. *)

\* Initially nothing has been asked for and there is no file.
LEMMA TypedInit == Init => Typed
<1> SUFFICES ASSUME Init PROVE Typed
  OBVIOUS
<1>1. TypeOK
  BY NoReqAssumption, WorkloadsAssumption, CollectorsAssumption, MaxFaultsAssumption
  DEF Init, TypeOK, Saved, StateFile, Status
<1>2. Roles
  BY DEF Init, Roles, Writes
<1>3. QED
  BY <1>1, <1>2 DEF Typed

\* A document of a state file, and what the status of one can be.
LEMMA StateFiles ==
  /\ \A st \in Status \cup {"none", "torn"} :
       [st |-> st, err |-> TRUE] \in StateFile /\ [st |-> st, err |-> FALSE] \in StateFile
  /\ \A b \in StateFile : /\ b.st \in Status \cup {"none", "torn"}
                          /\ MarkDeleted(b) \in StateFile
                          /\ MarkDeleted(b).st = "Deleted"
  BY DEF StateFile, Status, MarkDeleted

\* Every step keeps the types.
LEMMA TypeOKStep ==
  ASSUME Typed, [Next]_vars
  PROVE  TypeOK'
<1>0. (\E r \in Reqs : Outcome(r)) \/ Dies \/ UNCHANGED vars
  BY NextOutcomes
<1> USE NoReqAssumption, CollectorsAssumption, MaxFaultsAssumption
    DEF Typed, TypeOK
<1>1. ASSUME NEW r \in Reqs, NEW code \in Nat, Refused(r, code) PROVE TypeOK'
  BY <1>1 DEF Refused
<1>2. ASSUME NEW r \in Reqs, NEW step \in {"mkdir", "read"}, Admitted(r, step) PROVE TypeOK'
  BY <1>2 DEF Admitted
<1>3. ASSUME NEW r \in Reqs, DirMade(r) PROVE TypeOK'
  <2>1. [st |-> "Started", err |-> FALSE] \in StateFile
    BY StateFiles DEF Status
  <2>2. QED
    BY <1>3, <2>1 DEF DirMade
<1>4. ASSUME NEW r \in Reqs, DirFails(r) PROVE TypeOK'
  BY <1>4 DEF DirFails
<1>5. ASSUME NEW r \in Reqs, DataMade(r) PROVE TypeOK'
  BY <1>5 DEF DataMade
<1>6. ASSUME NEW r \in Reqs, DataFails(r) PROVE TypeOK'
  <2>1. [st |-> "Failed", err |-> TRUE] \in StateFile
    BY StateFiles DEF Status
  <2>2. QED
    BY <1>6, <2>1 DEF DataFails
<1>7. ASSUME NEW r \in Reqs, Opens(r) PROVE TypeOK'
  <2>1. [st |-> "torn", err |-> FALSE] \in StateFile
    BY StateFiles DEF Status
  <2>2. QED
    BY <1>7, <2>1 DEF Opens
<1>8. ASSUME NEW r \in Reqs, NEW code \in Nat, NEW step \in {"mkdata", "end"}, Saves(r, code, step)
      PROVE  TypeOK'
  BY <1>8 DEF Saves
<1>9. ASSUME NEW r \in Reqs, NEW code \in Nat, WriteFails(r, code) PROVE TypeOK'
  BY <1>9 DEF WriteFails
<1>10. ASSUME NEW r \in Reqs, Unread(r) PROVE TypeOK'
  BY <1>10 DEF Unread
<1>11. ASSUME NEW r \in Reqs, ReadsLive(r) PROVE TypeOK'
  BY <1>11 DEF ReadsLive
<1>12. ASSUME NEW r \in Reqs, NEW b \in StateFile, NEW code \in Nat,
             NEW step \in {"end", "serve", "remove"}, Learns(r, b, code, step) PROVE TypeOK'
  <2>1. b.st \in Status /\ resp[r] \in {0, 200, 404, 409, 410, 500, 507}
    BY <1>12 DEF Learns, Status
  <2>2. QED
    BY <1>12, <2>1 DEF Learns
<1>13. ASSUME NEW r \in Reqs, NEW code \in Nat, Serves(r, code) PROVE TypeOK'
  BY <1>13 DEF Serves
<1>14. ASSUME NEW r \in Reqs, Removes(r) PROVE TypeOK'
  <2>1. MarkDeleted(loc[r]) \in StateFile
    BY StateFiles DEF Status
  <2>2. QED
    BY <1>14, <2>1 DEF Removes
<1>15. ASSUME NEW r \in Reqs, RemoveFails(r) PROVE TypeOK'
  BY <1>15 DEF RemoveFails
<1>16. ASSUME NEW r \in Reqs, CollectStops(r) PROVE TypeOK'
  BY <1>16 DEF CollectStops
<1>17. ASSUME NEW r \in Reqs, NEW stored \in BOOLEAN, NEW failed \in BOOLEAN, Collects(r, stored, failed)
       PROVE  TypeOK'
  BY <1>17 DEF Collects
<1>18. ASSUME NEW r \in Reqs, ZipClosed(r) PROVE TypeOK'
  BY <1>18 DEF ZipClosed
<1>19. ASSUME NEW r \in Reqs, ZipFails(r) PROVE TypeOK'
  BY <1>19 DEF ZipFails
<1>20. ASSUME NEW r \in Reqs, Receives(r) PROVE TypeOK'
  <2>1. [st |-> "Done", err |-> cerr[r]] \in StateFile
    BY DEF StateFile, Status
  <2>2. QED
    BY <1>20, <2>1 DEF Receives
<1>21. ASSUME NEW r \in Reqs, Leaves(r) PROVE TypeOK'
  BY <1>21 DEF Leaves
<1>22. ASSUME NEW r \in Reqs, Expires(r) PROVE TypeOK'
  BY <1>22 DEF Expires
<1>23. CASE Dies
  BY <1>23 DEF Dies
<1>24. CASE UNCHANGED vars
  BY <1>24 DEF vars, disk, handler, collecting
<1> HIDE DEF Typed, TypeOK
<1>25. QED
  BY <1>0, <1>1, <1>2, <1>3, <1>4, <1>5, <1>6, <1>7, <1>8, <1>9, <1>10, <1>11, <1>12,
     <1>13, <1>14, <1>15, <1>16, <1>17, <1>18, <1>19, <1>20, <1>21, <1>22, <1>23, <1>24, Zenon
  DEF Outcome

\* Every step hands over to a step of the same handler.
LEMMA RolesStep ==
  ASSUME Typed, [Next]_vars
  PROVE  Roles'
<1>0. (\E r \in Reqs : Outcome(r)) \/ Dies \/ UNCHANGED vars
  BY NextOutcomes
<1> USE DEF Typed, TypeOK, Roles, Writes
<1>1. ASSUME NEW r \in Reqs, NEW code \in Nat, Refused(r, code) PROVE Roles'
  BY <1>1 DEF Refused
<1>2. ASSUME NEW r \in Reqs, NEW step \in {"mkdir", "read"}, Admitted(r, step) PROVE Roles'
  BY <1>2 DEF Admitted
<1>3. ASSUME NEW r \in Reqs, DirMade(r) PROVE Roles'
  BY <1>3 DEF DirMade
<1>4. ASSUME NEW r \in Reqs, DirFails(r) PROVE Roles'
  BY <1>4 DEF DirFails
<1>5. ASSUME NEW r \in Reqs, DataMade(r) PROVE Roles'
  BY <1>5 DEF DataMade
<1>6. ASSUME NEW r \in Reqs, DataFails(r) PROVE Roles'
  BY <1>6 DEF DataFails
<1>7. ASSUME NEW r \in Reqs, Opens(r) PROVE Roles'
  BY <1>7 DEF Opens
<1>8. ASSUME NEW r \in Reqs, NEW code \in Nat, NEW step \in {"mkdata", "end"}, Saves(r, code, step)
      PROVE  Roles'
  BY <1>8 DEF Saves
<1>9. ASSUME NEW r \in Reqs, NEW code \in Nat, WriteFails(r, code) PROVE Roles'
  BY <1>9 DEF WriteFails
<1>10. ASSUME NEW r \in Reqs, Unread(r) PROVE Roles'
  BY <1>10 DEF Unread
<1>11. ASSUME NEW r \in Reqs, ReadsLive(r) PROVE Roles'
  BY <1>11 DEF ReadsLive
<1>12. ASSUME NEW r \in Reqs, NEW b \in StateFile, NEW code \in Nat,
             NEW step \in {"end", "serve", "remove"}, Learns(r, b, code, step) PROVE Roles'
  BY <1>12 DEF Learns
<1>13. ASSUME NEW r \in Reqs, NEW code \in Nat, Serves(r, code) PROVE Roles'
  BY <1>13 DEF Serves
<1>14. ASSUME NEW r \in Reqs, Removes(r) PROVE Roles'
  <2>1. MarkDeleted(loc[r]).st = "Deleted"
    BY StateFiles
  <2>2. QED
    BY <1>14, <2>1 DEF Removes
<1>15. ASSUME NEW r \in Reqs, RemoveFails(r) PROVE Roles'
  BY <1>15 DEF RemoveFails
<1>16. ASSUME NEW r \in Reqs, CollectStops(r) PROVE Roles'
  BY <1>16 DEF CollectStops
<1>17. ASSUME NEW r \in Reqs, NEW stored \in BOOLEAN, NEW failed \in BOOLEAN, Collects(r, stored, failed)
       PROVE  Roles'
  BY <1>17 DEF Collects
<1>18. ASSUME NEW r \in Reqs, ZipClosed(r) PROVE Roles'
  BY <1>18 DEF ZipClosed
<1>19. ASSUME NEW r \in Reqs, ZipFails(r) PROVE Roles'
  BY <1>19 DEF ZipFails
<1>20. ASSUME NEW r \in Reqs, Receives(r) PROVE Roles'
  BY <1>20 DEF Receives
<1>21. ASSUME NEW r \in Reqs, Leaves(r) PROVE Roles'
  BY <1>21 DEF Leaves
<1>22. ASSUME NEW r \in Reqs, Expires(r) PROVE Roles'
  BY <1>22 DEF Expires
<1>23. CASE Dies
  BY <1>23 DEF Dies
<1>24. CASE UNCHANGED vars
  BY <1>24 DEF vars, disk, handler, collecting
<1> HIDE DEF Typed, TypeOK, Roles, Writes
<1>25. QED
  BY <1>0, <1>1, <1>2, <1>3, <1>4, <1>5, <1>6, <1>7, <1>8, <1>9, <1>10, <1>11, <1>12,
     <1>13, <1>14, <1>15, <1>16, <1>17, <1>18, <1>19, <1>20, <1>21, <1>22, <1>23, <1>24, Zenon
  DEF Outcome

\* TypeOK and Roles are inductive together.
LEMMA TypedStep == Typed /\ [Next]_vars => Typed'
  BY TypeOKStep, RolesStep DEF Typed

\* A request, a goroutine and a file is always in one of the states it can be in:
\* no step of a handler, a fault or a crash leads to one the code does not know.
THEOREM TypeCorrect == Spec => []TypeOK
<1>1. Init => Typed
  BY TypedInit
<1>2. Typed /\ [Next]_vars => Typed'
  BY TypedStep
<1>3. Typed => TypeOK
  BY DEF Typed
<1>4. QED
  BY <1>1, <1>2, <1>3, PTL DEF Spec

-----------------------------------------------------------------------------
(* The parts of the inductive invariant. *)

\* The collectors up to next are those before it and the one it points to.
LEMMA Below == \A c, n \in Int : c < n + 1 => c < n \/ c = n
  OBVIOUS

\* The lock is taken and released by the request that writes.
LEMMA LockedStep ==
  ASSUME Typed, Locked, [Next]_vars
  PROVE  Locked'
<1>0. (\E r \in Reqs : Outcome(r)) \/ Dies \/ UNCHANGED vars
  BY NextOutcomes
<1> USE NoReqAssumption DEF Typed, TypeOK, Locked, Roles, Writes
<1>1. ASSUME NEW r \in Reqs, NEW code \in Nat, Refused(r, code) PROVE Locked'
  BY <1>1 DEF Refused
<1>2. ASSUME NEW r \in Reqs, NEW step \in {"mkdir", "read"}, Admitted(r, step) PROVE Locked'
  BY <1>2 DEF Admitted
<1>3. ASSUME NEW r \in Reqs, DirMade(r) PROVE Locked'
  BY <1>3 DEF DirMade
<1>4. ASSUME NEW r \in Reqs, DirFails(r) PROVE Locked'
  BY <1>4 DEF DirFails
<1>5. ASSUME NEW r \in Reqs, DataMade(r) PROVE Locked'
  BY <1>5 DEF DataMade
<1>6. ASSUME NEW r \in Reqs, DataFails(r) PROVE Locked'
  BY <1>6 DEF DataFails
<1>7. ASSUME NEW r \in Reqs, Opens(r) PROVE Locked'
  BY <1>7 DEF Opens
<1>8. ASSUME NEW r \in Reqs, NEW code \in Nat, NEW step \in {"mkdata", "end"}, Saves(r, code, step)
      PROVE  Locked'
  BY <1>8 DEF Saves
<1>9. ASSUME NEW r \in Reqs, NEW code \in Nat, WriteFails(r, code) PROVE Locked'
  BY <1>9 DEF WriteFails
<1>10. ASSUME NEW r \in Reqs, Unread(r) PROVE Locked'
  BY <1>10 DEF Unread
<1>11. ASSUME NEW r \in Reqs, ReadsLive(r) PROVE Locked'
  BY <1>11 DEF ReadsLive
<1>12. ASSUME NEW r \in Reqs, NEW b \in StateFile, NEW code \in Nat,
             NEW step \in {"end", "serve", "remove"}, Learns(r, b, code, step) PROVE Locked'
  BY <1>12 DEF Learns
<1>13. ASSUME NEW r \in Reqs, NEW code \in Nat, Serves(r, code) PROVE Locked'
  BY <1>13 DEF Serves
<1>14. ASSUME NEW r \in Reqs, Removes(r) PROVE Locked'
  BY <1>14 DEF Removes
<1>15. ASSUME NEW r \in Reqs, RemoveFails(r) PROVE Locked'
  BY <1>15 DEF RemoveFails
<1>16. ASSUME NEW r \in Reqs, CollectStops(r) PROVE Locked'
  BY <1>16 DEF CollectStops
<1>17. ASSUME NEW r \in Reqs, NEW stored \in BOOLEAN, NEW failed \in BOOLEAN, Collects(r, stored, failed)
       PROVE  Locked'
  BY <1>17 DEF Collects
<1>18. ASSUME NEW r \in Reqs, ZipClosed(r) PROVE Locked'
  BY <1>18 DEF ZipClosed
<1>19. ASSUME NEW r \in Reqs, ZipFails(r) PROVE Locked'
  BY <1>19 DEF ZipFails
<1>20. ASSUME NEW r \in Reqs, Receives(r) PROVE Locked'
  BY <1>20 DEF Receives
<1>21. ASSUME NEW r \in Reqs, Leaves(r) PROVE Locked'
  BY <1>21 DEF Leaves
<1>22. ASSUME NEW r \in Reqs, Expires(r) PROVE Locked'
  BY <1>22 DEF Expires
<1>23. CASE Dies
  BY <1>23 DEF Dies
<1>24. CASE UNCHANGED vars
  BY <1>24 DEF vars, disk, handler, collecting
<1> HIDE DEF Typed, TypeOK, Locked, Roles, Writes
<1>25. QED
  BY <1>0, <1>1, <1>2, <1>3, <1>4, <1>5, <1>6, <1>7, <1>8, <1>9, <1>10, <1>11, <1>12,
     <1>13, <1>14, <1>15, <1>16, <1>17, <1>18, <1>19, <1>20, <1>21, <1>22, <1>23, <1>24, Zenon
  DEF Outcome

\* What there is of a bundle belongs to a Create that got past MkdirAll.
LEMMA OwnedStep ==
  ASSUME Typed, Owned, [Next]_vars
  PROVE  Owned'
<1>0. (\E r \in Reqs : Outcome(r)) \/ Dies \/ UNCHANGED vars
  BY NextOutcomes
<1> USE NoReqAssumption DEF Typed, TypeOK, Owned, Roles, Writes
<1>1. ASSUME NEW r \in Reqs, NEW code \in Nat, Refused(r, code) PROVE Owned'
  BY <1>1 DEF Refused
<1>2. ASSUME NEW r \in Reqs, NEW step \in {"mkdir", "read"}, Admitted(r, step) PROVE Owned'
  BY <1>2 DEF Admitted
<1>3. ASSUME NEW r \in Reqs, DirMade(r) PROVE Owned'
  BY <1>3 DEF DirMade
<1>4. ASSUME NEW r \in Reqs, DirFails(r) PROVE Owned'
  BY <1>4 DEF DirFails
<1>5. ASSUME NEW r \in Reqs, DataMade(r) PROVE Owned'
  BY <1>5 DEF DataMade
<1>6. ASSUME NEW r \in Reqs, DataFails(r) PROVE Owned'
  BY <1>6 DEF DataFails
<1>7. ASSUME NEW r \in Reqs, Opens(r) PROVE Owned'
  <2>1. \E o \in owners : rid[o] = rid[r]
    BY <1>7 DEF Opens
  <2>2. QED
    BY <1>7, <2>1 DEF Opens
<1>8. ASSUME NEW r \in Reqs, NEW code \in Nat, NEW step \in {"mkdata", "end"}, Saves(r, code, step)
      PROVE  Owned'
  <2>1. (\E o \in owners : rid[o] = rid[r]) /\ loc[r].st # "none"
    BY <1>8 DEF Saves
  <2>2. QED
    BY <1>8, <2>1 DEF Saves
<1>9. ASSUME NEW r \in Reqs, NEW code \in Nat, WriteFails(r, code) PROVE Owned'
  BY <1>9 DEF WriteFails
<1>10. ASSUME NEW r \in Reqs, Unread(r) PROVE Owned'
  BY <1>10 DEF Unread
<1>11. ASSUME NEW r \in Reqs, ReadsLive(r) PROVE Owned'
  BY <1>11 DEF ReadsLive
<1>12. ASSUME NEW r \in Reqs, NEW b \in StateFile, NEW code \in Nat,
             NEW step \in {"end", "serve", "remove"}, Learns(r, b, code, step) PROVE Owned'
  BY <1>12 DEF Learns
<1>13. ASSUME NEW r \in Reqs, NEW code \in Nat, Serves(r, code) PROVE Owned'
  BY <1>13 DEF Serves
<1>14. ASSUME NEW r \in Reqs, Removes(r) PROVE Owned'
  BY <1>14 DEF Removes
<1>15. ASSUME NEW r \in Reqs, RemoveFails(r) PROVE Owned'
  BY <1>15 DEF RemoveFails
<1>16. ASSUME NEW r \in Reqs, CollectStops(r) PROVE Owned'
  BY <1>16 DEF CollectStops
<1>17. ASSUME NEW r \in Reqs, NEW stored \in BOOLEAN, NEW failed \in BOOLEAN, Collects(r, stored, failed)
       PROVE  Owned'
  BY <1>17 DEF Collects
<1>18. ASSUME NEW r \in Reqs, ZipClosed(r) PROVE Owned'
  BY <1>18 DEF ZipClosed
<1>19. ASSUME NEW r \in Reqs, ZipFails(r) PROVE Owned'
  BY <1>19 DEF ZipFails
<1>20. ASSUME NEW r \in Reqs, Receives(r) PROVE Owned'
  BY <1>20 DEF Receives
<1>21. ASSUME NEW r \in Reqs, Leaves(r) PROVE Owned'
  BY <1>21 DEF Leaves
<1>22. ASSUME NEW r \in Reqs, Expires(r) PROVE Owned'
  BY <1>22 DEF Expires
<1>23. CASE Dies
  BY <1>23 DEF Dies
<1>24. CASE UNCHANGED vars
  BY <1>24 DEF vars, disk, handler, collecting
<1> HIDE DEF Typed, TypeOK, Owned, Roles, Writes
<1>25. QED
  BY <1>0, <1>1, <1>2, <1>3, <1>4, <1>5, <1>6, <1>7, <1>8, <1>9, <1>10, <1>11, <1>12,
     <1>13, <1>14, <1>15, <1>16, <1>17, <1>18, <1>19, <1>20, <1>21, <1>22, <1>23, <1>24, Zenon
  DEF Outcome

\* A Create and its goroutine keep pace.
LEMMA PacedStep ==
  ASSUME Typed, Owned, Paced, [Next]_vars
  PROVE  Paced'
<1>0. (\E r \in Reqs : Outcome(r)) \/ Dies \/ UNCHANGED vars
  BY NextOutcomes
<1> USE DEF Typed, TypeOK, Owned, Paced, Roles, Writes
<1>1. ASSUME NEW r \in Reqs, NEW code \in Nat, Refused(r, code) PROVE Paced'
  BY <1>1 DEF Refused
<1>2. ASSUME NEW r \in Reqs, NEW step \in {"mkdir", "read"}, Admitted(r, step) PROVE Paced'
  BY <1>2 DEF Admitted
<1>3. ASSUME NEW r \in Reqs, DirMade(r) PROVE Paced'
  BY <1>3 DEF DirMade
<1>4. ASSUME NEW r \in Reqs, DirFails(r) PROVE Paced'
  BY <1>4 DEF DirFails
<1>5. ASSUME NEW r \in Reqs, DataMade(r) PROVE Paced'
  BY <1>5 DEF DataMade
<1>6. ASSUME NEW r \in Reqs, DataFails(r) PROVE Paced'
  BY <1>6 DEF DataFails
<1>7. ASSUME NEW r \in Reqs, Opens(r) PROVE Paced'
  BY <1>7 DEF Opens
<1>8. ASSUME NEW r \in Reqs, NEW code \in Nat, NEW step \in {"mkdata", "end"}, Saves(r, code, step)
      PROVE  Paced'
  BY <1>8 DEF Saves
<1>9. ASSUME NEW r \in Reqs, NEW code \in Nat, WriteFails(r, code) PROVE Paced'
  BY <1>9 DEF WriteFails
<1>10. ASSUME NEW r \in Reqs, Unread(r) PROVE Paced'
  BY <1>10 DEF Unread
<1>11. ASSUME NEW r \in Reqs, ReadsLive(r) PROVE Paced'
  BY <1>11 DEF ReadsLive
<1>12. ASSUME NEW r \in Reqs, NEW b \in StateFile, NEW code \in Nat,
             NEW step \in {"end", "serve", "remove"}, Learns(r, b, code, step) PROVE Paced'
  BY <1>12 DEF Learns
<1>13. ASSUME NEW r \in Reqs, NEW code \in Nat, Serves(r, code) PROVE Paced'
  BY <1>13 DEF Serves
<1>14. ASSUME NEW r \in Reqs, Removes(r) PROVE Paced'
  BY <1>14 DEF Removes
<1>15. ASSUME NEW r \in Reqs, RemoveFails(r) PROVE Paced'
  BY <1>15 DEF RemoveFails
<1>16. ASSUME NEW r \in Reqs, CollectStops(r) PROVE Paced'
  BY <1>16 DEF CollectStops
<1>17. ASSUME NEW r \in Reqs, NEW stored \in BOOLEAN, NEW failed \in BOOLEAN, Collects(r, stored, failed)
       PROVE  Paced'
  BY <1>17 DEF Collects
<1>18. ASSUME NEW r \in Reqs, ZipClosed(r) PROVE Paced'
  BY <1>18 DEF ZipClosed
<1>19. ASSUME NEW r \in Reqs, ZipFails(r) PROVE Paced'
  BY <1>19 DEF ZipFails
<1>20. ASSUME NEW r \in Reqs, Receives(r) PROVE Paced'
  BY <1>20 DEF Receives
<1>21. ASSUME NEW r \in Reqs, Leaves(r) PROVE Paced'
  BY <1>21 DEF Leaves
<1>22. ASSUME NEW r \in Reqs, Expires(r) PROVE Paced'
  BY <1>22 DEF Expires
<1>23. CASE Dies
  BY <1>23 DEF Dies
<1>24. CASE UNCHANGED vars
  BY <1>24 DEF vars, disk, handler, collecting
<1> HIDE DEF Typed, TypeOK, Owned, Paced, Roles, Writes
<1>25. QED
  BY <1>0, <1>1, <1>2, <1>3, <1>4, <1>5, <1>6, <1>7, <1>8, <1>9, <1>10, <1>11, <1>12,
     <1>13, <1>14, <1>15, <1>16, <1>17, <1>18, <1>19, <1>20, <1>21, <1>22, <1>23, <1>24, Zenon
  DEF Outcome

\* Up to its place in the list a collectAll without errors has the data of every
\* mandatory collector.
LEMMA CollectedStep ==
  ASSUME Typed, Owned, Paced, Collected, [Next]_vars
  PROVE  Collected'
<1>0. (\E r \in Reqs : Outcome(r)) \/ Dies \/ UNCHANGED vars
  BY NextOutcomes
<1> USE CollectorsAssumption DEF Typed, TypeOK, Owned, Paced, Collected, Complete, Mandatory,
        Writes
<1>1. ASSUME NEW r \in Reqs, NEW code \in Nat, Refused(r, code) PROVE Collected'
  BY <1>1 DEF Refused
<1>2. ASSUME NEW r \in Reqs, NEW step \in {"mkdir", "read"}, Admitted(r, step)
      PROVE  Collected'
  BY <1>2 DEF Admitted
<1>3. ASSUME NEW r \in Reqs, DirMade(r) PROVE Collected'
  BY <1>3 DEF DirMade
<1>4. ASSUME NEW r \in Reqs, DirFails(r) PROVE Collected'
  BY <1>4 DEF DirFails
<1>5. ASSUME NEW r \in Reqs, DataMade(r) PROVE Collected'
  BY <1>5 DEF DataMade
<1>6. ASSUME NEW r \in Reqs, DataFails(r) PROVE Collected'
  BY <1>6 DEF DataFails
<1>7. ASSUME NEW r \in Reqs, Opens(r) PROVE Collected'
  BY <1>7 DEF Opens
<1>8. ASSUME NEW r \in Reqs, NEW code \in Nat, NEW step \in {"mkdata", "end"}, Saves(r, code, step)
      PROVE  Collected'
  BY <1>8 DEF Saves
<1>9. ASSUME NEW r \in Reqs, NEW code \in Nat, WriteFails(r, code) PROVE Collected'
  BY <1>9 DEF WriteFails
<1>10. ASSUME NEW r \in Reqs, Unread(r) PROVE Collected'
  BY <1>10 DEF Unread
<1>11. ASSUME NEW r \in Reqs, ReadsLive(r) PROVE Collected'
  BY <1>11 DEF ReadsLive
<1>12. ASSUME NEW r \in Reqs, NEW b \in StateFile, NEW code \in Nat,
             NEW step \in {"end", "serve", "remove"}, Learns(r, b, code, step)
       PROVE  Collected'
  BY <1>12 DEF Learns
<1>13. ASSUME NEW r \in Reqs, NEW code \in Nat, Serves(r, code) PROVE Collected'
  BY <1>13 DEF Serves
<1>14. ASSUME NEW r \in Reqs, Removes(r) PROVE Collected'
  BY <1>14 DEF Removes
<1>15. ASSUME NEW r \in Reqs, RemoveFails(r) PROVE Collected'
  BY <1>15 DEF RemoveFails
<1>16. ASSUME NEW r \in Reqs, CollectStops(r) PROVE Collected'
  BY <1>16 DEF CollectStops
<1>17. ASSUME NEW r \in Reqs, NEW stored \in BOOLEAN, NEW failed \in BOOLEAN, Collects(r, stored, failed)
       PROVE  Collected'
  <2>1. /\ cerr'[r] = (cerr[r] \/ failed)
        /\ zip'[r] = IF stored THEN zip[r] \cup {next[r]} ELSE zip[r]
        /\ UNCHANGED <<cpc, closed>>
    BY <1>17 DEF Collects
  <2>0. next'[r] = next[r] + 1
    BY <1>17 DEF Collects
  <2>2. ASSUME NEW q \in Reqs, q # r PROVE cerr'[q] = cerr[q] /\ zip'[q] = zip[q] /\ next'[q] = next[q]
    BY <1>17, <2>2 DEF Collects
  <2>3. cpc[r] = "collect" /\ (next[r] \in Mandatory /\ ~stored => failed)
    BY <1>17 DEF Collects
  <2>4. ASSUME ~cerr'[r], NEW c \in Mandatory, c < next'[r] PROVE c \in zip'[r]
    <3>1. ~cerr[r] /\ ~failed
      BY <2>1, <2>4
    <3>2. CASE c < next[r]
      <4>1. c \in zip[r]
        BY <2>3, <3>1, <3>2
      <4>2. QED
        BY <2>1, <4>1
    <3>3. CASE c = next[r]
      BY <2>1, <2>3, <3>1, <3>3
    <3>4. c \in Int /\ next[r] \in Int
      OBVIOUS
    <3>5. c < next[r] \/ c = next[r]
      BY ONLY <2>0, <2>4, <3>4, Below
    <3>6. QED
      BY <3>2, <3>3, <3>5
  <2>5. QED
    BY <2>0, <2>1, <2>2, <2>3, <2>4
<1>18. ASSUME NEW r \in Reqs, ZipClosed(r) PROVE Collected'
  BY <1>18 DEF ZipClosed
<1>19. ASSUME NEW r \in Reqs, ZipFails(r) PROVE Collected'
  BY <1>19 DEF ZipFails
<1>20. ASSUME NEW r \in Reqs, Receives(r) PROVE Collected'
  BY <1>20 DEF Receives
<1>21. ASSUME NEW r \in Reqs, Leaves(r) PROVE Collected'
  BY <1>21 DEF Leaves
<1>22. ASSUME NEW r \in Reqs, Expires(r) PROVE Collected'
  BY <1>22 DEF Expires
<1>23. CASE Dies
  BY <1>23 DEF Dies
<1>24. CASE UNCHANGED vars
  BY <1>24 DEF vars, disk, handler, collecting
<1> HIDE DEF Typed, TypeOK, Owned, Paced, Collected, Complete, Mandatory, Writes
<1>25. QED
  BY <1>0, <1>1, <1>2, <1>3, <1>4, <1>5, <1>6, <1>7, <1>8, <1>9, <1>10, <1>11, <1>12,
     <1>13, <1>14, <1>15, <1>16, <1>17, <1>18, <1>19, <1>20, <1>21, <1>22, <1>23, <1>24, Zenon
  DEF Outcome


\* An update of a function at x leaves its other values.
LEMMA OthersKeep ==
  ASSUME NEW S, NEW T, NEW f \in [S -> T], NEW x, NEW v, NEW y \in S, y # x
  PROVE  [f EXCEPT ![x] = v][y] = f[y]
  OBVIOUS

\* The watcher reports the errors it received.
LEMMA ReportedStep ==
  ASSUME Typed, Owned, Paced, Collected, Reported, [Next]_vars
  PROVE  Reported'
<1>0. (\E r \in Reqs : Outcome(r)) \/ Dies \/ UNCHANGED vars
  BY NextOutcomes
<1> USE DEF Typed, TypeOK, Roles, Owned, Paced, Collected, Reported, Saved, Complete, Writes
<1>1. ASSUME NEW r \in Reqs, NEW code \in Nat, Refused(r, code) PROVE Reported'
  BY <1>1 DEF Refused
<1>2. ASSUME NEW r \in Reqs, NEW step \in {"mkdir", "read"}, Admitted(r, step)
      PROVE  Reported'
  BY <1>2 DEF Admitted
<1>3. ASSUME NEW r \in Reqs, DirMade(r) PROVE Reported'
  BY <1>3 DEF DirMade
<1>4. ASSUME NEW r \in Reqs, DirFails(r) PROVE Reported'
  BY <1>4 DEF DirFails
<1>5. ASSUME NEW r \in Reqs, DataMade(r) PROVE Reported'
  BY <1>5 DEF DataMade
<1>6. ASSUME NEW r \in Reqs, DataFails(r) PROVE Reported'
  BY <1>6 DEF DataFails
<1>7. ASSUME NEW r \in Reqs, Opens(r) PROVE Reported'
  BY <1>7 DEF Opens
<1>8. ASSUME NEW r \in Reqs, NEW code \in Nat, NEW step \in {"mkdata", "end"}, Saves(r, code, step)
      PROVE  Reported'
  BY <1>8 DEF Saves
<1>9. ASSUME NEW r \in Reqs, NEW code \in Nat, WriteFails(r, code) PROVE Reported'
  BY <1>9 DEF WriteFails
<1>10. ASSUME NEW r \in Reqs, Unread(r) PROVE Reported'
  BY <1>10 DEF Unread
<1>11. ASSUME NEW r \in Reqs, ReadsLive(r) PROVE Reported'
  BY <1>11 DEF ReadsLive
<1>12. ASSUME NEW r \in Reqs, NEW b \in StateFile, NEW code \in Nat,
             NEW step \in {"end", "serve", "remove"}, Learns(r, b, code, step)
       PROVE  Reported'
  BY <1>12 DEF Learns
<1>13. ASSUME NEW r \in Reqs, NEW code \in Nat, Serves(r, code) PROVE Reported'
  BY <1>13 DEF Serves
<1>14. ASSUME NEW r \in Reqs, Removes(r) PROVE Reported'
  BY <1>14 DEF Removes
<1>15. ASSUME NEW r \in Reqs, RemoveFails(r) PROVE Reported'
  BY <1>15 DEF RemoveFails
<1>16. ASSUME NEW r \in Reqs, CollectStops(r) PROVE Reported'
  <2>1. ASSUME NEW q \in Reqs, op[q] = "create", Writes(q), loc[q].st = "Done"
        PROVE  q # r /\ loc[q] = Saved("Done", cerr[q]) /\ Complete(q)
    BY <1>16, <2>1 DEF CollectStops
  <2>2. ASSUME NEW q \in Reqs, q # r PROVE cerr'[q] = cerr[q]
    BY <1>16, <2>2, OthersKeep DEF CollectStops
  <2>3. UNCHANGED <<op, pc, loc, zip, closed>>
    BY <1>16 DEF CollectStops
  <2>4. ASSUME NEW q \in Reqs, op'[q] = "create", Writes(q)', loc'[q].st = "Done"
        PROVE  loc'[q] = Saved("Done", cerr[q])' /\ Complete(q)'
    BY ONLY <2>1, <2>2, <2>3, <2>4 DEF Writes, Saved, Complete
  <2>5. QED
    BY ONLY <2>4 DEF Reported
<1>17. ASSUME NEW r \in Reqs, NEW stored \in BOOLEAN, NEW failed \in BOOLEAN, Collects(r, stored, failed)
       PROVE  Reported'
  BY <1>17 DEF Collects
<1>18. ASSUME NEW r \in Reqs, ZipClosed(r) PROVE Reported'
  BY <1>18 DEF ZipClosed
<1>19. ASSUME NEW r \in Reqs, ZipFails(r) PROVE Reported'
  <2>1. ASSUME NEW q \in Reqs, op[q] = "create", Writes(q), loc[q].st = "Done"
        PROVE  q # r /\ loc[q] = Saved("Done", cerr[q]) /\ Complete(q)
    BY <1>19, <2>1 DEF ZipFails
  <2>2. ASSUME NEW q \in Reqs, q # r PROVE cerr'[q] = cerr[q]
    BY <1>19, <2>2, OthersKeep DEF ZipFails
  <2>3. UNCHANGED <<op, pc, loc, zip, closed>>
    BY <1>19 DEF ZipFails
  <2>4. ASSUME NEW q \in Reqs, op'[q] = "create", Writes(q)', loc'[q].st = "Done"
        PROVE  loc'[q] = Saved("Done", cerr[q])' /\ Complete(q)'
    BY ONLY <2>1, <2>2, <2>3, <2>4 DEF Writes, Saved, Complete
  <2>5. QED
    BY ONLY <2>4 DEF Reported
<1>20. ASSUME NEW r \in Reqs, Receives(r) PROVE Reported'
  BY <1>20 DEF Receives
<1>21. ASSUME NEW r \in Reqs, Leaves(r) PROVE Reported'
  BY <1>21 DEF Leaves
<1>22. ASSUME NEW r \in Reqs, Expires(r) PROVE Reported'
  BY <1>22 DEF Expires
<1>23. CASE Dies
  BY <1>23 DEF Dies
<1>24. CASE UNCHANGED vars
  BY <1>24 DEF vars, disk, handler, collecting
<1> HIDE DEF Typed, TypeOK, Roles, Owned, Paced, Collected, Reported, Saved, Complete, Writes
<1>25. QED
  BY <1>0, <1>1, <1>2, <1>3, <1>4, <1>5, <1>6, <1>7, <1>8, <1>9, <1>10, <1>11, <1>12,
     <1>13, <1>14, <1>15, <1>16, <1>17, <1>18, <1>19, <1>20, <1>21, <1>22, <1>23, <1>24, Zenon
  DEF Outcome

\* An owner at its end whose goroutine is gone does nothing more.
LEMMA AtRest ==
  ASSUME Typed, NEW o \in owners, pc[o] = "end", cpc[o] = "gone", [Next]_vars
  PROVE  /\ o \in owners' /\ rid'[o] = rid[o] /\ pc'[o] = "end" /\ cpc'[o] = "gone"
         /\ cerr'[o] = cerr[o] /\ closed'[o] = closed[o] /\ zip'[o] = zip[o]
<1> DEFINE Same ==
      /\ o \in owners' /\ rid'[o] = rid[o] /\ pc'[o] = "end" /\ cpc'[o] = "gone"
      /\ cerr'[o] = cerr[o] /\ closed'[o] = closed[o] /\ zip'[o] = zip[o]
<1>0. (\E r \in Reqs : Outcome(r)) \/ Dies \/ UNCHANGED vars
  BY NextOutcomes
<1> USE DEF Typed, TypeOK, Roles, Writes
<1>1. ASSUME NEW r \in Reqs, NEW code \in Nat, Refused(r, code) PROVE Same
  BY <1>1 DEF Refused
<1>2. ASSUME NEW r \in Reqs, NEW step \in {"mkdir", "read"}, Admitted(r, step) PROVE Same
  BY <1>2 DEF Admitted
<1>3. ASSUME NEW r \in Reqs, DirMade(r) PROVE Same
  BY <1>3 DEF DirMade
<1>4. ASSUME NEW r \in Reqs, DirFails(r) PROVE Same
  BY <1>4 DEF DirFails
<1>5. ASSUME NEW r \in Reqs, DataMade(r) PROVE Same
  BY <1>5 DEF DataMade
<1>6. ASSUME NEW r \in Reqs, DataFails(r) PROVE Same
  BY <1>6 DEF DataFails
<1>7. ASSUME NEW r \in Reqs, Opens(r) PROVE Same
  BY <1>7 DEF Opens
<1>8. ASSUME NEW r \in Reqs, NEW code \in Nat, NEW step \in {"mkdata", "end"}, Saves(r, code, step)
      PROVE  Same
  BY <1>8 DEF Saves
<1>9. ASSUME NEW r \in Reqs, NEW code \in Nat, WriteFails(r, code) PROVE Same
  BY <1>9 DEF WriteFails
<1>10. ASSUME NEW r \in Reqs, Unread(r) PROVE Same
  BY <1>10 DEF Unread
<1>11. ASSUME NEW r \in Reqs, ReadsLive(r) PROVE Same
  BY <1>11 DEF ReadsLive
<1>12. ASSUME NEW r \in Reqs, NEW b \in StateFile, NEW code \in Nat,
             NEW step \in {"end", "serve", "remove"}, Learns(r, b, code, step) PROVE Same
  BY <1>12 DEF Learns
<1>13. ASSUME NEW r \in Reqs, NEW code \in Nat, Serves(r, code) PROVE Same
  BY <1>13 DEF Serves
<1>14. ASSUME NEW r \in Reqs, Removes(r) PROVE Same
  BY <1>14 DEF Removes
<1>15. ASSUME NEW r \in Reqs, RemoveFails(r) PROVE Same
  BY <1>15 DEF RemoveFails
<1>16. ASSUME NEW r \in Reqs, CollectStops(r) PROVE Same
  <2>1. o # r
    BY <1>16 DEF CollectStops
  <2>2. cerr'[o] = cerr[o] /\ closed'[o] = closed[o]
    BY <1>16, <2>1, OthersKeep DEF CollectStops
  <2>3. QED
    BY <1>16, <2>1, <2>2 DEF CollectStops
<1>17. ASSUME NEW r \in Reqs, NEW stored \in BOOLEAN, NEW failed \in BOOLEAN, Collects(r, stored, failed)
       PROVE  Same
  BY <1>17 DEF Collects
<1>18. ASSUME NEW r \in Reqs, ZipClosed(r) PROVE Same
  <2>1. o # r
    BY <1>18 DEF ZipClosed
  <2>2. cerr'[o] = cerr[o] /\ closed'[o] = closed[o]
    BY <1>18, <2>1, OthersKeep DEF ZipClosed
  <2>3. QED
    BY <1>18, <2>1, <2>2 DEF ZipClosed
<1>19. ASSUME NEW r \in Reqs, ZipFails(r) PROVE Same
  <2>1. o # r
    BY <1>19 DEF ZipFails
  <2>2. cerr'[o] = cerr[o] /\ closed'[o] = closed[o]
    BY <1>19, <2>1, OthersKeep DEF ZipFails
  <2>3. QED
    BY <1>19, <2>1, <2>2 DEF ZipFails
<1>20. ASSUME NEW r \in Reqs, Receives(r) PROVE Same
  BY <1>20 DEF Receives
<1>21. ASSUME NEW r \in Reqs, Leaves(r) PROVE Same
  BY <1>21 DEF Leaves
<1>22. ASSUME NEW r \in Reqs, Expires(r) PROVE Same
  BY <1>22 DEF Expires
<1>23. CASE Dies
  BY <1>23 DEF Dies
<1>24. CASE UNCHANGED vars
  BY <1>24 DEF vars, disk, handler, collecting
<1> HIDE DEF Typed, TypeOK, Roles, Writes
<1>25. QED
  BY <1>0, <1>1, <1>2, <1>3, <1>4, <1>5, <1>6, <1>7, <1>8, <1>9, <1>10, <1>11, <1>12,
     <1>13, <1>14, <1>15, <1>16, <1>17, <1>18, <1>19, <1>20, <1>21, <1>22, <1>23, <1>24, Zenon
  DEF Outcome

\* A state file is truncated or gets the document of a request.
LEMMA FileChanges ==
  ASSUME Typed, NEW i \in Ids, [Next]_vars
  PROVE  \/ state'[i] = state[i] \/ state'[i].st = "torn"
         \/ \E q \in Reqs : /\ pc[q] = "writing" /\ rid[q] = i /\ state'[i] = loc[q]
                            /\ loc[q].st # "Started" => pc'[q] = "end"
<1> DEFINE Changes ==
      \/ state'[i] = state[i] \/ state'[i].st = "torn"
      \/ \E q \in Reqs : /\ pc[q] = "writing" /\ rid[q] = i /\ state'[i] = loc[q]
                         /\ loc[q].st # "Started" => pc'[q] = "end"
<1>0. (\E r \in Reqs : Outcome(r)) \/ Dies \/ UNCHANGED vars
  BY NextOutcomes
<1> USE DEF Typed, TypeOK, Roles, Writes
<1>1. ASSUME NEW r \in Reqs, NEW code \in Nat, Refused(r, code) PROVE Changes
  BY <1>1 DEF Refused
<1>2. ASSUME NEW r \in Reqs, NEW step \in {"mkdir", "read"}, Admitted(r, step) PROVE Changes
  BY <1>2 DEF Admitted
<1>3. ASSUME NEW r \in Reqs, DirMade(r) PROVE Changes
  BY <1>3 DEF DirMade
<1>4. ASSUME NEW r \in Reqs, DirFails(r) PROVE Changes
  BY <1>4 DEF DirFails
<1>5. ASSUME NEW r \in Reqs, DataMade(r) PROVE Changes
  BY <1>5 DEF DataMade
<1>6. ASSUME NEW r \in Reqs, DataFails(r) PROVE Changes
  BY <1>6 DEF DataFails
<1>7. ASSUME NEW r \in Reqs, Opens(r) PROVE Changes
  BY <1>7 DEF Opens
<1>8. ASSUME NEW r \in Reqs, NEW code \in Nat, NEW step \in {"mkdata", "end"}, Saves(r, code, step)
      PROVE  Changes
  BY <1>8 DEF Saves
<1>9. ASSUME NEW r \in Reqs, NEW code \in Nat, WriteFails(r, code) PROVE Changes
  BY <1>9 DEF WriteFails
<1>10. ASSUME NEW r \in Reqs, Unread(r) PROVE Changes
  BY <1>10 DEF Unread
<1>11. ASSUME NEW r \in Reqs, ReadsLive(r) PROVE Changes
  BY <1>11 DEF ReadsLive
<1>12. ASSUME NEW r \in Reqs, NEW b \in StateFile, NEW code \in Nat,
             NEW step \in {"end", "serve", "remove"}, Learns(r, b, code, step) PROVE Changes
  BY <1>12 DEF Learns
<1>13. ASSUME NEW r \in Reqs, NEW code \in Nat, Serves(r, code) PROVE Changes
  BY <1>13 DEF Serves
<1>14. ASSUME NEW r \in Reqs, Removes(r) PROVE Changes
  BY <1>14 DEF Removes
<1>15. ASSUME NEW r \in Reqs, RemoveFails(r) PROVE Changes
  BY <1>15 DEF RemoveFails
<1>16. ASSUME NEW r \in Reqs, CollectStops(r) PROVE Changes
  BY <1>16 DEF CollectStops
<1>17. ASSUME NEW r \in Reqs, NEW stored \in BOOLEAN, NEW failed \in BOOLEAN, Collects(r, stored, failed)
       PROVE  Changes
  BY <1>17 DEF Collects
<1>18. ASSUME NEW r \in Reqs, ZipClosed(r) PROVE Changes
  BY <1>18 DEF ZipClosed
<1>19. ASSUME NEW r \in Reqs, ZipFails(r) PROVE Changes
  BY <1>19 DEF ZipFails
<1>20. ASSUME NEW r \in Reqs, Receives(r) PROVE Changes
  BY <1>20 DEF Receives
<1>21. ASSUME NEW r \in Reqs, Leaves(r) PROVE Changes
  BY <1>21 DEF Leaves
<1>22. ASSUME NEW r \in Reqs, Expires(r) PROVE Changes
  BY <1>22 DEF Expires
<1>23. CASE Dies
  BY <1>23 DEF Dies
<1>24. CASE UNCHANGED vars
  BY <1>24 DEF vars, disk, handler, collecting
<1> HIDE DEF Typed, TypeOK, Roles, Writes
<1>25. QED
  BY <1>0, <1>1, <1>2, <1>3, <1>4, <1>5, <1>6, <1>7, <1>8, <1>9, <1>10, <1>11, <1>12,
     <1>13, <1>14, <1>15, <1>16, <1>17, <1>18, <1>19, <1>20, <1>21, <1>22, <1>23, <1>24, Zenon
  DEF Outcome

\* What a reader has read comes from the state file.
LEMMA ReaderChanges ==
  ASSUME Typed, NEW q \in Reqs, op[q] # "create", [Next]_vars
  PROVE  loc'[q] = loc[q] \/ loc'[q] = state[rid[q]] \/ loc'[q].st = "Deleted"
<1> DEFINE Changes ==
      loc'[q] = loc[q] \/ loc'[q] = state[rid[q]] \/ loc'[q].st = "Deleted"
<1>0. (\E r \in Reqs : Outcome(r)) \/ Dies \/ UNCHANGED vars
  BY NextOutcomes
<1> USE DEF Typed, TypeOK, Roles, Writes
<1>1. ASSUME NEW r \in Reqs, NEW code \in Nat, Refused(r, code) PROVE Changes
  BY <1>1 DEF Refused
<1>2. ASSUME NEW r \in Reqs, NEW step \in {"mkdir", "read"}, Admitted(r, step) PROVE Changes
  BY <1>2 DEF Admitted
<1>3. ASSUME NEW r \in Reqs, DirMade(r) PROVE Changes
  BY <1>3 DEF DirMade
<1>4. ASSUME NEW r \in Reqs, DirFails(r) PROVE Changes
  BY <1>4 DEF DirFails
<1>5. ASSUME NEW r \in Reqs, DataMade(r) PROVE Changes
  BY <1>5 DEF DataMade
<1>6. ASSUME NEW r \in Reqs, DataFails(r) PROVE Changes
  BY <1>6 DEF DataFails
<1>7. ASSUME NEW r \in Reqs, Opens(r) PROVE Changes
  BY <1>7 DEF Opens
<1>8. ASSUME NEW r \in Reqs, NEW code \in Nat, NEW step \in {"mkdata", "end"}, Saves(r, code, step)
      PROVE  Changes
  BY <1>8 DEF Saves
<1>9. ASSUME NEW r \in Reqs, NEW code \in Nat, WriteFails(r, code) PROVE Changes
  BY <1>9 DEF WriteFails
<1>10. ASSUME NEW r \in Reqs, Unread(r) PROVE Changes
  BY <1>10 DEF Unread
<1>11. ASSUME NEW r \in Reqs, ReadsLive(r) PROVE Changes
  BY <1>11 DEF ReadsLive
<1>12. ASSUME NEW r \in Reqs, NEW b \in StateFile, NEW code \in Nat,
             NEW step \in {"end", "serve", "remove"}, Learns(r, b, code, step) PROVE Changes
  BY <1>12 DEF Learns
<1>13. ASSUME NEW r \in Reqs, NEW code \in Nat, Serves(r, code) PROVE Changes
  BY <1>13 DEF Serves
<1>14. ASSUME NEW r \in Reqs, Removes(r) PROVE Changes
  <2>1. MarkDeleted(loc[r]).st = "Deleted"
    BY StateFiles
  <2>2. QED
    BY <1>14, <2>1 DEF Removes
<1>15. ASSUME NEW r \in Reqs, RemoveFails(r) PROVE Changes
  BY <1>15 DEF RemoveFails
<1>16. ASSUME NEW r \in Reqs, CollectStops(r) PROVE Changes
  BY <1>16 DEF CollectStops
<1>17. ASSUME NEW r \in Reqs, NEW stored \in BOOLEAN, NEW failed \in BOOLEAN, Collects(r, stored, failed)
       PROVE  Changes
  BY <1>17 DEF Collects
<1>18. ASSUME NEW r \in Reqs, ZipClosed(r) PROVE Changes
  BY <1>18 DEF ZipClosed
<1>19. ASSUME NEW r \in Reqs, ZipFails(r) PROVE Changes
  BY <1>19 DEF ZipFails
<1>20. ASSUME NEW r \in Reqs, Receives(r) PROVE Changes
  BY <1>20 DEF Receives
<1>21. ASSUME NEW r \in Reqs, Leaves(r) PROVE Changes
  BY <1>21 DEF Leaves
<1>22. ASSUME NEW r \in Reqs, Expires(r) PROVE Changes
  BY <1>22 DEF Expires
<1>23. CASE Dies
  BY <1>23 DEF Dies
<1>24. CASE UNCHANGED vars
  BY <1>24 DEF vars, disk, handler, collecting
<1> HIDE DEF Typed, TypeOK, Roles, Writes
<1>25. QED
  BY <1>0, <1>1, <1>2, <1>3, <1>4, <1>5, <1>6, <1>7, <1>8, <1>9, <1>10, <1>11, <1>12,
     <1>13, <1>14, <1>15, <1>16, <1>17, <1>18, <1>19, <1>20, <1>21, <1>22, <1>23, <1>24, Zenon
  DEF Outcome

\* The status that getBundleState returned stands for good.
LEMMA SeenChanges ==
  ASSUME Typed, NEW q \in Reqs, [Next]_vars
  PROVE  \/ seen'[q] = seen[q]
         \/ seen'[q] \in {"Deleted", "Failed"} /\ pc[q] = "read" /\ op[q] # "create"
         \/ seen'[q] = loc[q].st /\ pc[q] = "stat" /\ op[q] # "create"
<1> DEFINE Changes ==
      \/ seen'[q] = seen[q]
      \/ seen'[q] \in {"Deleted", "Failed"} /\ pc[q] = "read" /\ op[q] # "create"
      \/ seen'[q] = loc[q].st /\ pc[q] = "stat" /\ op[q] # "create"
<1>0. (\E r \in Reqs : Outcome(r)) \/ Dies \/ UNCHANGED vars
  BY NextOutcomes
<1> USE DEF Typed, TypeOK, Roles, Writes
<1>1. ASSUME NEW r \in Reqs, NEW code \in Nat, Refused(r, code) PROVE Changes
  BY <1>1 DEF Refused
<1>2. ASSUME NEW r \in Reqs, NEW step \in {"mkdir", "read"}, Admitted(r, step) PROVE Changes
  BY <1>2 DEF Admitted
<1>3. ASSUME NEW r \in Reqs, DirMade(r) PROVE Changes
  BY <1>3 DEF DirMade
<1>4. ASSUME NEW r \in Reqs, DirFails(r) PROVE Changes
  BY <1>4 DEF DirFails
<1>5. ASSUME NEW r \in Reqs, DataMade(r) PROVE Changes
  BY <1>5 DEF DataMade
<1>6. ASSUME NEW r \in Reqs, DataFails(r) PROVE Changes
  BY <1>6 DEF DataFails
<1>7. ASSUME NEW r \in Reqs, Opens(r) PROVE Changes
  BY <1>7 DEF Opens
<1>8. ASSUME NEW r \in Reqs, NEW code \in Nat, NEW step \in {"mkdata", "end"}, Saves(r, code, step)
      PROVE  Changes
  BY <1>8 DEF Saves
<1>9. ASSUME NEW r \in Reqs, NEW code \in Nat, WriteFails(r, code) PROVE Changes
  BY <1>9 DEF WriteFails
<1>10. ASSUME NEW r \in Reqs, Unread(r) PROVE Changes
  BY <1>10 DEF Unread
<1>11. ASSUME NEW r \in Reqs, ReadsLive(r) PROVE Changes
  BY <1>11 DEF ReadsLive
<1>12. ASSUME NEW r \in Reqs, NEW b \in StateFile, NEW code \in Nat,
             NEW step \in {"end", "serve", "remove"}, Learns(r, b, code, step) PROVE Changes
  BY <1>12 DEF Learns
<1>13. ASSUME NEW r \in Reqs, NEW code \in Nat, Serves(r, code) PROVE Changes
  BY <1>13 DEF Serves
<1>14. ASSUME NEW r \in Reqs, Removes(r) PROVE Changes
  BY <1>14 DEF Removes
<1>15. ASSUME NEW r \in Reqs, RemoveFails(r) PROVE Changes
  BY <1>15 DEF RemoveFails
<1>16. ASSUME NEW r \in Reqs, CollectStops(r) PROVE Changes
  BY <1>16 DEF CollectStops
<1>17. ASSUME NEW r \in Reqs, NEW stored \in BOOLEAN, NEW failed \in BOOLEAN, Collects(r, stored, failed)
       PROVE  Changes
  BY <1>17 DEF Collects
<1>18. ASSUME NEW r \in Reqs, ZipClosed(r) PROVE Changes
  BY <1>18 DEF ZipClosed
<1>19. ASSUME NEW r \in Reqs, ZipFails(r) PROVE Changes
  BY <1>19 DEF ZipFails
<1>20. ASSUME NEW r \in Reqs, Receives(r) PROVE Changes
  BY <1>20 DEF Receives
<1>21. ASSUME NEW r \in Reqs, Leaves(r) PROVE Changes
  BY <1>21 DEF Leaves
<1>22. ASSUME NEW r \in Reqs, Expires(r) PROVE Changes
  BY <1>22 DEF Expires
<1>23. CASE Dies
  BY <1>23 DEF Dies
<1>24. CASE UNCHANGED vars
  BY <1>24 DEF vars, disk, handler, collecting
<1> HIDE DEF Typed, TypeOK, Roles, Writes
<1>25. QED
  BY <1>0, <1>1, <1>2, <1>3, <1>4, <1>5, <1>6, <1>7, <1>8, <1>9, <1>10, <1>11, <1>12,
     <1>13, <1>14, <1>15, <1>16, <1>17, <1>18, <1>19, <1>20, <1>21, <1>22, <1>23, <1>24, Zenon
  DEF Outcome

\* Nothing happens to a download after its answer.
LEMMA DownloadedStep ==
  ASSUME Typed, Owned, Downloaded, [Next]_vars
  PROVE  Downloaded'
<1>0. (\E r \in Reqs : Outcome(r)) \/ Dies \/ UNCHANGED vars
  BY NextOutcomes
<1> USE NoReqAssumption DEF Typed, TypeOK, Roles, Owned, Downloaded, Writes
<1>1. ASSUME NEW r \in Reqs, NEW code \in Nat, Refused(r, code) PROVE Downloaded'
  BY <1>1 DEF Refused
<1>2. ASSUME NEW r \in Reqs, NEW step \in {"mkdir", "read"}, Admitted(r, step)
      PROVE  Downloaded'
  BY <1>2 DEF Admitted
<1>3. ASSUME NEW r \in Reqs, DirMade(r) PROVE Downloaded'
  BY <1>3 DEF DirMade
<1>4. ASSUME NEW r \in Reqs, DirFails(r) PROVE Downloaded'
  BY <1>4 DEF DirFails
<1>5. ASSUME NEW r \in Reqs, DataMade(r) PROVE Downloaded'
  BY <1>5 DEF DataMade
<1>6. ASSUME NEW r \in Reqs, DataFails(r) PROVE Downloaded'
  BY <1>6 DEF DataFails
<1>7. ASSUME NEW r \in Reqs, Opens(r) PROVE Downloaded'
  BY <1>7 DEF Opens
<1>8. ASSUME NEW r \in Reqs, NEW code \in Nat, NEW step \in {"mkdata", "end"}, Saves(r, code, step)
      PROVE  Downloaded'
  BY <1>8 DEF Saves
<1>9. ASSUME NEW r \in Reqs, NEW code \in Nat, WriteFails(r, code) PROVE Downloaded'
  BY <1>9 DEF WriteFails
<1>10. ASSUME NEW r \in Reqs, Unread(r) PROVE Downloaded'
  BY <1>10 DEF Unread
<1>11. ASSUME NEW r \in Reqs, ReadsLive(r) PROVE Downloaded'
  BY <1>11 DEF ReadsLive
<1>12. ASSUME NEW r \in Reqs, NEW b \in StateFile, NEW code \in Nat,
             NEW step \in {"end", "serve", "remove"}, Learns(r, b, code, step)
       PROVE  Downloaded'
  BY <1>12 DEF Learns
<1>13. ASSUME NEW r \in Reqs, NEW code \in Nat, Serves(r, code) PROVE Downloaded'
  BY <1>13 DEF Serves
<1>14. ASSUME NEW r \in Reqs, Removes(r) PROVE Downloaded'
  BY <1>14 DEF Removes
<1>15. ASSUME NEW r \in Reqs, RemoveFails(r) PROVE Downloaded'
  BY <1>15 DEF RemoveFails
<1>16. ASSUME NEW r \in Reqs, CollectStops(r) PROVE Downloaded'
  BY <1>16 DEF CollectStops
<1>17. ASSUME NEW r \in Reqs, NEW stored \in BOOLEAN, NEW failed \in BOOLEAN, Collects(r, stored, failed)
       PROVE  Downloaded'
  BY <1>17 DEF Collects
<1>18. ASSUME NEW r \in Reqs, ZipClosed(r) PROVE Downloaded'
  BY <1>18 DEF ZipClosed
<1>19. ASSUME NEW r \in Reqs, ZipFails(r) PROVE Downloaded'
  BY <1>19 DEF ZipFails
<1>20. ASSUME NEW r \in Reqs, Receives(r) PROVE Downloaded'
  BY <1>20 DEF Receives
<1>21. ASSUME NEW r \in Reqs, Leaves(r) PROVE Downloaded'
  BY <1>21 DEF Leaves
<1>22. ASSUME NEW r \in Reqs, Expires(r) PROVE Downloaded'
  BY <1>22 DEF Expires
<1>23. CASE Dies
  BY <1>23 DEF Dies
<1>24. CASE UNCHANGED vars
  BY <1>24 DEF vars, disk, handler, collecting
<1> HIDE DEF Typed, TypeOK, Roles, Owned, Downloaded, Writes
<1>25. QED
  BY <1>0, <1>1, <1>2, <1>3, <1>4, <1>5, <1>6, <1>7, <1>8, <1>9, <1>10, <1>11, <1>12,
     <1>13, <1>14, <1>15, <1>16, <1>17, <1>18, <1>19, <1>20, <1>21, <1>22, <1>23, <1>24, Zenon
  DEF Outcome


\* A goroutine that is gone changes nothing any more.
LEMMA GoneStays ==
  ASSUME Typed, Paced, NEW o \in Reqs, cpc[o] = "gone", [Next]_vars
  PROVE  /\ cpc'[o] = "gone" /\ cerr'[o] = cerr[o] /\ closed'[o] = closed[o] /\ zip'[o] = zip[o]
<1> DEFINE Same ==
      /\ cpc'[o] = "gone" /\ cerr'[o] = cerr[o] /\ closed'[o] = closed[o] /\ zip'[o] = zip[o]
<1>0. (\E r \in Reqs : Outcome(r)) \/ Dies \/ UNCHANGED vars
  BY NextOutcomes
<1> USE DEF Typed, TypeOK, Roles, Paced, Writes
<1>1. ASSUME NEW r \in Reqs, NEW code \in Nat, Refused(r, code) PROVE Same
  BY <1>1 DEF Refused
<1>2. ASSUME NEW r \in Reqs, NEW step \in {"mkdir", "read"}, Admitted(r, step) PROVE Same
  BY <1>2 DEF Admitted
<1>3. ASSUME NEW r \in Reqs, DirMade(r) PROVE Same
  BY <1>3 DEF DirMade
<1>4. ASSUME NEW r \in Reqs, DirFails(r) PROVE Same
  BY <1>4 DEF DirFails
<1>5. ASSUME NEW r \in Reqs, DataMade(r) PROVE Same
  BY <1>5 DEF DataMade
<1>6. ASSUME NEW r \in Reqs, DataFails(r) PROVE Same
  BY <1>6 DEF DataFails
<1>7. ASSUME NEW r \in Reqs, Opens(r) PROVE Same
  BY <1>7 DEF Opens
<1>8. ASSUME NEW r \in Reqs, NEW code \in Nat, NEW step \in {"mkdata", "end"}, Saves(r, code, step)
      PROVE  Same
  BY <1>8 DEF Saves
<1>9. ASSUME NEW r \in Reqs, NEW code \in Nat, WriteFails(r, code) PROVE Same
  BY <1>9 DEF WriteFails
<1>10. ASSUME NEW r \in Reqs, Unread(r) PROVE Same
  BY <1>10 DEF Unread
<1>11. ASSUME NEW r \in Reqs, ReadsLive(r) PROVE Same
  BY <1>11 DEF ReadsLive
<1>12. ASSUME NEW r \in Reqs, NEW b \in StateFile, NEW code \in Nat,
             NEW step \in {"end", "serve", "remove"}, Learns(r, b, code, step) PROVE Same
  BY <1>12 DEF Learns
<1>13. ASSUME NEW r \in Reqs, NEW code \in Nat, Serves(r, code) PROVE Same
  BY <1>13 DEF Serves
<1>14. ASSUME NEW r \in Reqs, Removes(r) PROVE Same
  BY <1>14 DEF Removes
<1>15. ASSUME NEW r \in Reqs, RemoveFails(r) PROVE Same
  BY <1>15 DEF RemoveFails
<1>16. ASSUME NEW r \in Reqs, CollectStops(r) PROVE Same
  <2>1. o # r
    BY <1>16 DEF CollectStops
  <2>2. cerr'[o] = cerr[o] /\ closed'[o] = closed[o]
    BY <1>16, <2>1, OthersKeep DEF CollectStops
  <2>3. QED
    BY <1>16, <2>1, <2>2 DEF CollectStops
<1>17. ASSUME NEW r \in Reqs, NEW stored \in BOOLEAN, NEW failed \in BOOLEAN, Collects(r, stored, failed)
       PROVE  Same
  BY <1>17 DEF Collects
<1>18. ASSUME NEW r \in Reqs, ZipClosed(r) PROVE Same
  <2>1. o # r
    BY <1>18 DEF ZipClosed
  <2>2. cerr'[o] = cerr[o] /\ closed'[o] = closed[o]
    BY <1>18, <2>1, OthersKeep DEF ZipClosed
  <2>3. QED
    BY <1>18, <2>1, <2>2 DEF ZipClosed
<1>19. ASSUME NEW r \in Reqs, ZipFails(r) PROVE Same
  <2>1. o # r
    BY <1>19 DEF ZipFails
  <2>2. cerr'[o] = cerr[o] /\ closed'[o] = closed[o]
    BY <1>19, <2>1, OthersKeep DEF ZipFails
  <2>3. QED
    BY <1>19, <2>1, <2>2 DEF ZipFails
<1>20. ASSUME NEW r \in Reqs, Receives(r) PROVE Same
  BY <1>20 DEF Receives
<1>21. ASSUME NEW r \in Reqs, Leaves(r) PROVE Same
  BY <1>21 DEF Leaves
<1>22. ASSUME NEW r \in Reqs, Expires(r) PROVE Same
  BY <1>22 DEF Expires
<1>23. CASE Dies
  BY <1>23 DEF Dies
<1>24. CASE UNCHANGED vars
  BY <1>24 DEF vars, disk, handler, collecting
<1> HIDE DEF Typed, TypeOK, Roles, Paced, Writes
<1>25. QED
  BY <1>0, <1>1, <1>2, <1>3, <1>4, <1>5, <1>6, <1>7, <1>8, <1>9, <1>10, <1>11, <1>12,
     <1>13, <1>14, <1>15, <1>16, <1>17, <1>18, <1>19, <1>20, <1>21, <1>22, <1>23, <1>24, Zenon
  DEF Outcome

\* The handlers and ids of the requests are inputs, and owners stay owners.
LEMMA Inputs ==
  ASSUME Typed, [Next]_vars
  PROVE  op' = op /\ rid' = rid /\ owners \subseteq owners'
<1> DEFINE Same ==
      op' = op /\ rid' = rid /\ owners \subseteq owners'
<1>0. (\E r \in Reqs : Outcome(r)) \/ Dies \/ UNCHANGED vars
  BY NextOutcomes
<1> USE DEF Typed, TypeOK
<1>1. ASSUME NEW r \in Reqs, NEW code \in Nat, Refused(r, code) PROVE Same
  BY <1>1 DEF Refused
<1>2. ASSUME NEW r \in Reqs, NEW step \in {"mkdir", "read"}, Admitted(r, step) PROVE Same
  BY <1>2 DEF Admitted
<1>3. ASSUME NEW r \in Reqs, DirMade(r) PROVE Same
  BY <1>3 DEF DirMade
<1>4. ASSUME NEW r \in Reqs, DirFails(r) PROVE Same
  BY <1>4 DEF DirFails
<1>5. ASSUME NEW r \in Reqs, DataMade(r) PROVE Same
  BY <1>5 DEF DataMade
<1>6. ASSUME NEW r \in Reqs, DataFails(r) PROVE Same
  BY <1>6 DEF DataFails
<1>7. ASSUME NEW r \in Reqs, Opens(r) PROVE Same
  BY <1>7 DEF Opens
<1>8. ASSUME NEW r \in Reqs, NEW code \in Nat, NEW step \in {"mkdata", "end"}, Saves(r, code, step)
      PROVE  Same
  BY <1>8 DEF Saves
<1>9. ASSUME NEW r \in Reqs, NEW code \in Nat, WriteFails(r, code) PROVE Same
  BY <1>9 DEF WriteFails
<1>10. ASSUME NEW r \in Reqs, Unread(r) PROVE Same
  BY <1>10 DEF Unread
<1>11. ASSUME NEW r \in Reqs, ReadsLive(r) PROVE Same
  BY <1>11 DEF ReadsLive
<1>12. ASSUME NEW r \in Reqs, NEW b \in StateFile, NEW code \in Nat,
             NEW step \in {"end", "serve", "remove"}, Learns(r, b, code, step) PROVE Same
  BY <1>12 DEF Learns
<1>13. ASSUME NEW r \in Reqs, NEW code \in Nat, Serves(r, code) PROVE Same
  BY <1>13 DEF Serves
<1>14. ASSUME NEW r \in Reqs, Removes(r) PROVE Same
  BY <1>14 DEF Removes
<1>15. ASSUME NEW r \in Reqs, RemoveFails(r) PROVE Same
  BY <1>15 DEF RemoveFails
<1>16. ASSUME NEW r \in Reqs, CollectStops(r) PROVE Same
  BY <1>16 DEF CollectStops
<1>17. ASSUME NEW r \in Reqs, NEW stored \in BOOLEAN, NEW failed \in BOOLEAN, Collects(r, stored, failed)
       PROVE  Same
  BY <1>17 DEF Collects
<1>18. ASSUME NEW r \in Reqs, ZipClosed(r) PROVE Same
  BY <1>18 DEF ZipClosed
<1>19. ASSUME NEW r \in Reqs, ZipFails(r) PROVE Same
  BY <1>19 DEF ZipFails
<1>20. ASSUME NEW r \in Reqs, Receives(r) PROVE Same
  BY <1>20 DEF Receives
<1>21. ASSUME NEW r \in Reqs, Leaves(r) PROVE Same
  BY <1>21 DEF Leaves
<1>22. ASSUME NEW r \in Reqs, Expires(r) PROVE Same
  BY <1>22 DEF Expires
<1>23. CASE Dies
  BY <1>23 DEF Dies
<1>24. CASE UNCHANGED vars
  BY <1>24 DEF vars, disk, handler, collecting
<1> HIDE DEF Typed, TypeOK
<1>25. QED
  BY <1>0, <1>1, <1>2, <1>3, <1>4, <1>5, <1>6, <1>7, <1>8, <1>9, <1>10, <1>11, <1>12,
     <1>13, <1>14, <1>15, <1>16, <1>17, <1>18, <1>19, <1>20, <1>21, <1>22, <1>23, <1>24, Zenon
  DEF Outcome

\* What is Done stays done: its owner takes no more steps.
LEMMA SettledStep ==
  ASSUME Typed, Typed', Paced, Reported, Owned, Settled, [Next]_vars
  PROVE  Settled'
<1>0. op' = op /\ rid' = rid /\ owners \subseteq owners' /\ owners \subseteq Reqs
  BY Inputs DEF Typed, TypeOK
<1>1. ASSUME NEW i, NEW b, NEW o \in owners, DoneBy(o, i, b)
      PROVE  o \in owners' /\ DoneBy(o, i, b)'
  BY <1>1, AtRest DEF DoneBy, Complete, Saved
<1>2. ASSUME NEW i \in Ids, state'[i].st = "Done"
      PROVE  \E o \in owners' : DoneBy(o, i, state[i])'
  <2>1. CASE state'[i] = state[i]
    <3>1. PICK o \in owners : DoneBy(o, i, state[i])
      BY <1>2, <2>1 DEF Settled
    <3>2. QED
      BY <1>1, <2>1, <3>1 DEF DoneBy
  <2>2. CASE \E q \in Reqs : /\ pc[q] = "writing" /\ rid[q] = i /\ state'[i] = loc[q]
                             /\ loc[q].st # "Started" => pc'[q] = "end"
    <3>1. PICK q \in Reqs : /\ pc[q] = "writing" /\ rid[q] = i /\ state'[i] = loc[q]
                            /\ loc[q].st # "Started" => pc'[q] = "end"
      BY <2>2
    <3>2. op[q] = "create" /\ Writes(q) /\ loc[q].st = "Done" /\ pc'[q] = "end"
      BY <1>2, <3>1 DEF Typed, Roles, Writes
    <3>3. loc[q] = Saved("Done", cerr[q]) /\ Complete(q) /\ q \in owners /\ cpc[q] = "gone"
      BY <3>2 DEF Reported, Owned, Paced
    <3>4. cpc'[q] = "gone" /\ cerr'[q] = cerr[q] /\ closed'[q] = closed[q] /\ zip'[q] = zip[q]
      BY <3>3, GoneStays
    <3>5. DoneBy(q, i, state[i])' /\ q \in owners'
      BY <1>0, <3>1, <3>2, <3>3, <3>4 DEF DoneBy, Complete, Saved
    <3>6. QED
      BY <3>5
  <2>3. QED
    BY <1>2, <2>1, <2>2, FileChanges
<1>3. ASSUME NEW q \in Reqs, op'[q] # "create", loc'[q].st = "Done"
      PROVE  \E o \in owners' : DoneBy(o, rid[q], loc[q])'
  <2>1. PICK o \in owners : DoneBy(o, rid[q], loc'[q])
    <3>1. rid[q] \in Ids
      BY DEF Typed, TypeOK
    <3>2. loc'[q] = loc[q] \/ loc'[q] = state[rid[q]]
      BY <1>0, <1>3, ReaderChanges
    <3>3. QED
      BY <1>0, <1>3, <3>1, <3>2 DEF Settled
  <2>2. o \in owners' /\ rid[o] = rid[q] /\ loc'[q] = Saved("Done", cerr[o])
    BY <1>1, <2>1 DEF DoneBy
  <2>3. QED
    BY <1>0, <1>1, <2>1, <2>2, AtRest DEF DoneBy, Complete, Saved
<1>4. ASSUME NEW q \in Reqs, seen'[q] = "Done"
      PROVE  \E o \in owners' : rid'[o] = rid'[q] /\ pc'[o] = "end" /\ cpc'[o] = "gone"
  <2>1. PICK o \in owners : rid[o] = rid[q] /\ pc[o] = "end" /\ cpc[o] = "gone"
    <3>1. CASE seen'[q] = seen[q]
      BY <1>4, <3>1 DEF Settled
    <3>2. CASE seen'[q] = loc[q].st /\ op[q] # "create"
      BY <1>4, <3>2 DEF Settled, DoneBy
    <3>3. QED
      BY <1>4, <3>1, <3>2, SeenChanges
  <2>2. QED
    BY <1>0, <2>1, AtRest
<1>5. QED
  BY <1>2, <1>3, <1>4 DEF Settled

\* A Delete looks at the state file before it does anything.
LEMMA AnsweredStep ==
  ASSUME Typed, Answered, [Next]_vars
  PROVE  Answered'
<1>0. (\E r \in Reqs : Outcome(r)) \/ Dies \/ UNCHANGED vars
  BY NextOutcomes
<1> USE DEF Typed, TypeOK, Roles, Answered, Writes
<1>1. ASSUME NEW r \in Reqs, NEW code \in Nat, Refused(r, code) PROVE Answered'
  BY <1>1 DEF Refused
<1>2. ASSUME NEW r \in Reqs, NEW step \in {"mkdir", "read"}, Admitted(r, step)
      PROVE  Answered'
  BY <1>2 DEF Admitted
<1>3. ASSUME NEW r \in Reqs, DirMade(r) PROVE Answered'
  BY <1>3 DEF DirMade
<1>4. ASSUME NEW r \in Reqs, DirFails(r) PROVE Answered'
  BY <1>4 DEF DirFails
<1>5. ASSUME NEW r \in Reqs, DataMade(r) PROVE Answered'
  BY <1>5 DEF DataMade
<1>6. ASSUME NEW r \in Reqs, DataFails(r) PROVE Answered'
  BY <1>6 DEF DataFails
<1>7. ASSUME NEW r \in Reqs, Opens(r) PROVE Answered'
  BY <1>7 DEF Opens
<1>8. ASSUME NEW r \in Reqs, NEW code \in Nat, NEW step \in {"mkdata", "end"}, Saves(r, code, step)
      PROVE  Answered'
  BY <1>8 DEF Saves
<1>9. ASSUME NEW r \in Reqs, NEW code \in Nat, WriteFails(r, code) PROVE Answered'
  BY <1>9 DEF WriteFails
<1>10. ASSUME NEW r \in Reqs, Unread(r) PROVE Answered'
  BY <1>10 DEF Unread
<1>11. ASSUME NEW r \in Reqs, ReadsLive(r) PROVE Answered'
  BY <1>11 DEF ReadsLive
<1>12. ASSUME NEW r \in Reqs, NEW b \in StateFile, NEW code \in Nat,
             NEW step \in {"end", "serve", "remove"}, Learns(r, b, code, step)
       PROVE  Answered'
  BY <1>12 DEF Learns
<1>13. ASSUME NEW r \in Reqs, NEW code \in Nat, Serves(r, code) PROVE Answered'
  BY <1>13 DEF Serves
<1>14. ASSUME NEW r \in Reqs, Removes(r) PROVE Answered'
  BY <1>14 DEF Removes
<1>15. ASSUME NEW r \in Reqs, RemoveFails(r) PROVE Answered'
  BY <1>15 DEF RemoveFails
<1>16. ASSUME NEW r \in Reqs, CollectStops(r) PROVE Answered'
  BY <1>16 DEF CollectStops
<1>17. ASSUME NEW r \in Reqs, NEW stored \in BOOLEAN, NEW failed \in BOOLEAN, Collects(r, stored, failed)
       PROVE  Answered'
  BY <1>17 DEF Collects
<1>18. ASSUME NEW r \in Reqs, ZipClosed(r) PROVE Answered'
  BY <1>18 DEF ZipClosed
<1>19. ASSUME NEW r \in Reqs, ZipFails(r) PROVE Answered'
  BY <1>19 DEF ZipFails
<1>20. ASSUME NEW r \in Reqs, Receives(r) PROVE Answered'
  BY <1>20 DEF Receives
<1>21. ASSUME NEW r \in Reqs, Leaves(r) PROVE Answered'
  BY <1>21 DEF Leaves
<1>22. ASSUME NEW r \in Reqs, Expires(r) PROVE Answered'
  BY <1>22 DEF Expires
<1>23. CASE Dies
  BY <1>23 DEF Dies
<1>24. CASE UNCHANGED vars
  BY <1>24 DEF vars, disk, handler, collecting
<1> HIDE DEF Typed, TypeOK, Roles, Answered, Writes
<1>25. QED
  BY <1>0, <1>1, <1>2, <1>3, <1>4, <1>5, <1>6, <1>7, <1>8, <1>9, <1>10, <1>11, <1>12,
     <1>13, <1>14, <1>15, <1>16, <1>17, <1>18, <1>19, <1>20, <1>21, <1>22, <1>23, <1>24, Zenon
  DEF Outcome

\* Nobody else removes the data of a bundle with one owner, and nobody makes new data.
LEMMA DeletedStep ==
  ASSUME Typed, Owned, Paced, Deleted, [Next]_vars
  PROVE  Deleted'
<1>0. (\E r \in Reqs : Outcome(r)) \/ Dies \/ UNCHANGED vars
  BY NextOutcomes
<1> USE NoReqAssumption DEF Typed, TypeOK, Roles, Owned, Paced, Deleted, Removed, Sole, Writes
<1>1. ASSUME NEW r \in Reqs, NEW code \in Nat, Refused(r, code) PROVE Deleted'
  BY <1>1 DEF Refused
<1>2. ASSUME NEW r \in Reqs, NEW step \in {"mkdir", "read"}, Admitted(r, step)
      PROVE  Deleted'
  BY <1>2 DEF Admitted
<1>3. ASSUME NEW r \in Reqs, DirMade(r) PROVE Deleted'
  BY <1>3 DEF DirMade
<1>4. ASSUME NEW r \in Reqs, DirFails(r) PROVE Deleted'
  BY <1>4 DEF DirFails
<1>5. ASSUME NEW r \in Reqs, DataMade(r) PROVE Deleted'
  BY <1>5 DEF DataMade
<1>6. ASSUME NEW r \in Reqs, DataFails(r) PROVE Deleted'
  BY <1>6 DEF DataFails
<1>7. ASSUME NEW r \in Reqs, Opens(r) PROVE Deleted'
  BY <1>7 DEF Opens
<1>8. ASSUME NEW r \in Reqs, NEW code \in Nat, NEW step \in {"mkdata", "end"}, Saves(r, code, step)
      PROVE  Deleted'
  BY <1>8 DEF Saves
<1>9. ASSUME NEW r \in Reqs, NEW code \in Nat, WriteFails(r, code) PROVE Deleted'
  BY <1>9 DEF WriteFails
<1>10. ASSUME NEW r \in Reqs, Unread(r) PROVE Deleted'
  BY <1>10 DEF Unread
<1>11. ASSUME NEW r \in Reqs, ReadsLive(r) PROVE Deleted'
  BY <1>11 DEF ReadsLive
<1>12. ASSUME NEW r \in Reqs, NEW b \in StateFile, NEW code \in Nat,
             NEW step \in {"end", "serve", "remove"}, Learns(r, b, code, step)
       PROVE  Deleted'
  BY <1>12 DEF Learns
<1>13. ASSUME NEW r \in Reqs, NEW code \in Nat, Serves(r, code) PROVE Deleted'
  BY <1>13 DEF Serves
<1>14. ASSUME NEW r \in Reqs, Removes(r) PROVE Deleted'
  BY <1>14 DEF Removes
<1>15. ASSUME NEW r \in Reqs, RemoveFails(r) PROVE Deleted'
  BY <1>15 DEF RemoveFails
<1>16. ASSUME NEW r \in Reqs, CollectStops(r) PROVE Deleted'
  BY <1>16 DEF CollectStops
<1>17. ASSUME NEW r \in Reqs, NEW stored \in BOOLEAN, NEW failed \in BOOLEAN, Collects(r, stored, failed)
       PROVE  Deleted'
  BY <1>17 DEF Collects
<1>18. ASSUME NEW r \in Reqs, ZipClosed(r) PROVE Deleted'
  BY <1>18 DEF ZipClosed
<1>19. ASSUME NEW r \in Reqs, ZipFails(r) PROVE Deleted'
  BY <1>19 DEF ZipFails
<1>20. ASSUME NEW r \in Reqs, Receives(r) PROVE Deleted'
  BY <1>20 DEF Receives
<1>21. ASSUME NEW r \in Reqs, Leaves(r) PROVE Deleted'
  BY <1>21 DEF Leaves
<1>22. ASSUME NEW r \in Reqs, Expires(r) PROVE Deleted'
  BY <1>22 DEF Expires
<1>23. CASE Dies
  BY <1>23 DEF Dies
<1>24. CASE UNCHANGED vars
  BY <1>24 DEF vars, disk, handler, collecting
<1> HIDE DEF Typed, TypeOK, Roles, Owned, Paced, Deleted, Removed, Sole, Writes
<1>25. QED
  BY <1>0, <1>1, <1>2, <1>3, <1>4, <1>5, <1>6, <1>7, <1>8, <1>9, <1>10, <1>11, <1>12,
     <1>13, <1>14, <1>15, <1>16, <1>17, <1>18, <1>19, <1>20, <1>21, <1>22, <1>23, <1>24, Zenon
  DEF Outcome


\* Once a Delete of a bundle that was Done has answered, nobody is left to write.
LEMMA SticksStep ==
  ASSUME Typed, Owned, Paced, Settled, Answered, Deleted, Sticks, [Next]_vars
  PROVE  Sticks'
<1>0. (\E r \in Reqs : Outcome(r)) \/ Dies \/ UNCHANGED vars
  BY NextOutcomes
<1> USE NoReqAssumption DEF Typed, TypeOK, Roles, Owned, Paced, Settled, Answered, Deleted,
        Sticks, Removed, Sole, Writes
<1>1. ASSUME NEW r \in Reqs, NEW code \in Nat, Refused(r, code) PROVE Sticks'
  BY <1>1 DEF Refused
<1>2. ASSUME NEW r \in Reqs, NEW step \in {"mkdir", "read"}, Admitted(r, step) PROVE Sticks'
  BY <1>2 DEF Admitted
<1>3. ASSUME NEW r \in Reqs, DirMade(r) PROVE Sticks'
  BY <1>3 DEF DirMade
<1>4. ASSUME NEW r \in Reqs, DirFails(r) PROVE Sticks'
  BY <1>4 DEF DirFails
<1>5. ASSUME NEW r \in Reqs, DataMade(r) PROVE Sticks'
  BY <1>5 DEF DataMade
<1>6. ASSUME NEW r \in Reqs, DataFails(r) PROVE Sticks'
  BY <1>6 DEF DataFails
<1>7. ASSUME NEW r \in Reqs, Opens(r) PROVE Sticks'
  BY <1>7 DEF Opens
<1>8. ASSUME NEW r \in Reqs, NEW code \in Nat, NEW step \in {"mkdata", "end"}, Saves(r, code, step)
      PROVE  Sticks'
  BY <1>8 DEF Saves
<1>9. ASSUME NEW r \in Reqs, NEW code \in Nat, WriteFails(r, code) PROVE Sticks'
  BY <1>9 DEF WriteFails
<1>10. ASSUME NEW r \in Reqs, Unread(r) PROVE Sticks'
  BY <1>10 DEF Unread
<1>11. ASSUME NEW r \in Reqs, ReadsLive(r) PROVE Sticks'
  BY <1>11 DEF ReadsLive
<1>12. ASSUME NEW r \in Reqs, NEW b \in StateFile, NEW code \in Nat,
             NEW step \in {"end", "serve", "remove"}, Learns(r, b, code, step) PROVE Sticks'
  BY <1>12 DEF Learns
<1>13. ASSUME NEW r \in Reqs, NEW code \in Nat, Serves(r, code) PROVE Sticks'
  BY <1>13 DEF Serves
<1>14. ASSUME NEW r \in Reqs, Removes(r) PROVE Sticks'
  BY <1>14 DEF Removes
<1>15. ASSUME NEW r \in Reqs, RemoveFails(r) PROVE Sticks'
  BY <1>15 DEF RemoveFails
<1>16. ASSUME NEW r \in Reqs, CollectStops(r) PROVE Sticks'
  BY <1>16 DEF CollectStops
<1>17. ASSUME NEW r \in Reqs, NEW stored \in BOOLEAN, NEW failed \in BOOLEAN, Collects(r, stored, failed)
       PROVE  Sticks'
  BY <1>17 DEF Collects
<1>18. ASSUME NEW r \in Reqs, ZipClosed(r) PROVE Sticks'
  BY <1>18 DEF ZipClosed
<1>19. ASSUME NEW r \in Reqs, ZipFails(r) PROVE Sticks'
  BY <1>19 DEF ZipFails
<1>20. ASSUME NEW r \in Reqs, Receives(r) PROVE Sticks'
  BY <1>20 DEF Receives
<1>21. ASSUME NEW r \in Reqs, Leaves(r) PROVE Sticks'
  BY <1>21 DEF Leaves
<1>22. ASSUME NEW r \in Reqs, Expires(r) PROVE Sticks'
  BY <1>22 DEF Expires
<1>23. CASE Dies
  BY <1>23 DEF Dies
<1>24. CASE UNCHANGED vars
  BY <1>24 DEF vars, disk, handler, collecting
<1> HIDE DEF Typed, TypeOK, Roles, Owned, Paced, Settled, Answered, Deleted, Sticks, Removed,
        Sole, Writes
<1>25. QED
  BY <1>0, <1>1, <1>2, <1>3, <1>4, <1>5, <1>6, <1>7, <1>8, <1>9, <1>10, <1>11, <1>12,
     <1>13, <1>14, <1>15, <1>16, <1>17, <1>18, <1>19, <1>20, <1>21, <1>22, <1>23, <1>24, Zenon
  DEF Outcome

\* Every step of an owner leaves on disk what its next step finds there.
LEMMA OnDiskStep ==
  ASSUME Typed, Locked, Owned, Paced, Deleted, OnDisk, [Next]_vars
  PROVE  OnDisk'
<1>0. (\E r \in Reqs : Outcome(r)) \/ Dies \/ UNCHANGED vars
  BY NextOutcomes
<1> USE NoReqAssumption DEF Typed, TypeOK, Roles, Locked, Owned, Paced, Deleted, OnDisk,
        Undeleted, Removed, Sole, Writes
<1>1. ASSUME NEW r \in Reqs, NEW code \in Nat, Refused(r, code) PROVE OnDisk'
  BY <1>1 DEF Refused
<1>2. ASSUME NEW r \in Reqs, NEW step \in {"mkdir", "read"}, Admitted(r, step) PROVE OnDisk'
  BY <1>2 DEF Admitted
<1>3. ASSUME NEW r \in Reqs, DirMade(r) PROVE OnDisk'
  <2>1. Sole(rid[r])' => state[rid[r]].st = "none"
    <3>1. SUFFICES ASSUME NEW o \in owners, rid[o] = rid[r], Sole(rid[r])' PROVE FALSE
      BY DEF Owned
    <3>2. r \in owners' /\ o \in owners' /\ rid' = rid /\ r # o
      BY <1>3 DEF DirMade
    <3>3. QED
      BY <3>1, <3>2
  <2>2. cpc[r] = "off"
    BY <1>3 DEF DirMade
  <2>3. QED
    BY <1>3, <2>1, <2>2, SMTT(30) DEF DirMade
<1>4. ASSUME NEW r \in Reqs, DirFails(r) PROVE OnDisk'
  BY <1>4 DEF DirFails
<1>5. ASSUME NEW r \in Reqs, DataMade(r) PROVE OnDisk'
  BY <1>5 DEF DataMade
<1>6. ASSUME NEW r \in Reqs, DataFails(r) PROVE OnDisk'
  BY <1>6 DEF DataFails
<1>7. ASSUME NEW r \in Reqs, Opens(r) PROVE OnDisk'
  BY <1>7 DEF Opens
<1>8. ASSUME NEW r \in Reqs, NEW code \in Nat, NEW step \in {"mkdata", "end"}, Saves(r, code, step)
      PROVE  OnDisk'
  BY <1>8 DEF Saves
<1>9. ASSUME NEW r \in Reqs, NEW code \in Nat, WriteFails(r, code) PROVE OnDisk'
  BY <1>9 DEF WriteFails
<1>10. ASSUME NEW r \in Reqs, Unread(r) PROVE OnDisk'
  BY <1>10 DEF Unread
<1>11. ASSUME NEW r \in Reqs, ReadsLive(r) PROVE OnDisk'
  BY <1>11 DEF ReadsLive
<1>12. ASSUME NEW r \in Reqs, NEW b \in StateFile, NEW code \in Nat,
             NEW step \in {"end", "serve", "remove"}, Learns(r, b, code, step) PROVE OnDisk'
  BY <1>12 DEF Learns
<1>13. ASSUME NEW r \in Reqs, NEW code \in Nat, Serves(r, code) PROVE OnDisk'
  BY <1>13 DEF Serves
<1>14. ASSUME NEW r \in Reqs, Removes(r) PROVE OnDisk'
  BY <1>14 DEF Removes
<1>15. ASSUME NEW r \in Reqs, RemoveFails(r) PROVE OnDisk'
  BY <1>15 DEF RemoveFails
<1>16. ASSUME NEW r \in Reqs, CollectStops(r) PROVE OnDisk'
  BY <1>16 DEF CollectStops
<1>17. ASSUME NEW r \in Reqs, NEW stored \in BOOLEAN, NEW failed \in BOOLEAN, Collects(r, stored, failed)
       PROVE  OnDisk'
  BY <1>17 DEF Collects
<1>18. ASSUME NEW r \in Reqs, ZipClosed(r) PROVE OnDisk'
  BY <1>18 DEF ZipClosed
<1>19. ASSUME NEW r \in Reqs, ZipFails(r) PROVE OnDisk'
  BY <1>19 DEF ZipFails
<1>20. ASSUME NEW r \in Reqs, Receives(r) PROVE OnDisk'
  BY <1>20 DEF Receives
<1>21. ASSUME NEW r \in Reqs, Leaves(r) PROVE OnDisk'
  BY <1>21 DEF Leaves
<1>22. ASSUME NEW r \in Reqs, Expires(r) PROVE OnDisk'
  BY <1>22 DEF Expires
<1>23. CASE Dies
  BY <1>23 DEF Dies
<1>24. CASE UNCHANGED vars
  BY <1>24 DEF vars, disk, handler, collecting
<1> HIDE DEF Typed, TypeOK, Roles, Locked, Owned, Paced, Deleted, OnDisk, Undeleted, Removed,
        Sole, Writes
<1>25. QED
  BY <1>0, <1>1, <1>2, <1>3, <1>4, <1>5, <1>6, <1>7, <1>8, <1>9, <1>10, <1>11, <1>12,
     <1>13, <1>14, <1>15, <1>16, <1>17, <1>18, <1>19, <1>20, <1>21, <1>22, <1>23, <1>24, Zenon
  DEF Outcome


-----------------------------------------------------------------------------
(* The safety invariants. *)

\* There is no owner, so nobody has left anything on disk.
LEMMA IInvInit == Init => IInv
<1> SUFFICES ASSUME Init PROVE IInv
  OBVIOUS
<1>1. Typed
  BY TypedInit
<1>2. /\ pc = [r \in Reqs |-> "idle"] /\ cpc = [r \in Reqs |-> "off"] /\ next = [r \in Reqs |-> 1]
      /\ lock = NoReq /\ owners = {} /\ data = [i \in Ids |-> NoReq]
      /\ \A i \in Ids : state[i].st = "none"
      /\ \A r \in Reqs : loc[r].st = "none" /\ seen[r] = "none" /\ resp[r] = 0
  BY DEF Init, Saved
<1>3. Locked /\ Owned /\ Paced /\ Collected
  BY <1>2, NoReqAssumption DEF Locked, Owned, Paced, Collected, Writes
<1>4. Reported /\ Settled /\ Downloaded
  BY <1>2 DEF Reported, Settled, Downloaded, Writes
<1>5. Answered /\ Deleted /\ Sticks /\ OnDisk
  BY <1>2 DEF Answered, Deleted, Sticks, OnDisk, Removed, Writes
<1>6. QED
  BY <1>1, <1>3, <1>4, <1>5 DEF IInv

\* Each part follows from itself and the parts it builds on.
LEMMA IInvStep == IInv /\ [Next]_vars => IInv'
<1> SUFFICES ASSUME IInv, [Next]_vars PROVE IInv'
  OBVIOUS
<1>1. Typed'
  BY TypedStep DEF IInv
<1>2. QED
  BY <1>1, LockedStep, OwnedStep, PacedStep, CollectedStep, ReportedStep, SettledStep,
     DownloadedStep, AnsweredStep, DeletedStep, SticksStep, OnDiskStep DEF IInv

\* The invariant that the theorems below rest on: the lock, the owners of files and
\* goroutines, what is collected, saved and read, and what Deletes leave behind.
THEOREM Inductive == Spec => []IInv
  BY IInvInit, IInvStep, PTL DEF Spec

\* A bundle whose state file says Done without errors has a whole data file: the
\* owner of the file is the Create that saved Done, and it had nothing to report.
THEOREM DoneIsWhole == Spec => []DoneMeansWhole
<1>1. ASSUME IInv PROVE DoneMeansWhole
  <2>1. SUFFICES ASSUME NEW i \in Ids, state[i] = Saved("Done", FALSE), Sole(i), data[i] # NoReq
                 PROVE  Whole(data[i])
    BY DEF DoneMeansWhole
  <2>2. state[i].st = "Done" /\ ~state[i].err
    BY <2>1 DEF Saved
  <2>3. PICK o \in owners : DoneBy(o, i, state[i])
    BY <1>1, <2>2 DEF IInv, Settled
  <2>4. data[i] = o
    BY <1>1, <2>1, <2>3 DEF IInv, Owned, DoneBy, Sole
  <2>5. ~cerr[o]
    BY <2>2, <2>3 DEF DoneBy, Saved
  <2>6. QED
    BY <2>3, <2>4, <2>5 DEF DoneBy, Complete, Whole
<1>2. QED
  BY <1>1, Inductive, PTL

\* A download answered with 200 delivers a whole archive when the state file it
\* read said Done without errors, whatever a Delete does meanwhile.
THEOREM DownloadIsWhole == Spec => []ServedIsWhole
<1>1. ASSUME IInv PROVE ServedIsWhole
  <2>1. SUFFICES ASSUME NEW r \in Reqs, op[r] = "getfile", resp[r] = 200, ~loc[r].err, Sole(rid[r])
                 PROVE  served[r] # NoReq /\ Whole(served[r])
    BY DEF ServedIsWhole
  <2>2. loc[r].st = "Done" /\ served[r] \in owners /\ rid[served[r]] = rid[r]
    BY <1>1, <2>1 DEF IInv, Downloaded
  <2>3. PICK o \in owners : DoneBy(o, rid[r], loc[r])
    BY <1>1, <2>1, <2>2 DEF IInv, Settled
  <2>4. served[r] = o
    BY <2>1, <2>2, <2>3 DEF DoneBy, Sole
  <2>5. ~cerr[o]
    BY <2>1, <2>3 DEF DoneBy, Saved
  <2>6. o # NoReq
    BY <1>1, NoReqAssumption DEF IInv, Typed, TypeOK
  <2>7. QED
    BY <2>3, <2>4, <2>5, <2>6 DEF DoneBy, Complete, Whole
<1>2. QED
  BY <1>1, Inductive, PTL

\* Deleting a bundle that was Done is final once the Delete has answered 200.
THEOREM DeleteIsFinal == Spec => []DeleteOfDoneSticks
<1>1. ASSUME IInv PROVE DeleteOfDoneSticks
  BY <1>1 DEF IInv, Sticks, DeleteOfDoneSticks
<1>2. QED
  BY <1>1, Inductive, PTL

\* After Create answered 200, and as long as nothing failed and nobody deleted the
\* bundle, a poll of its status finds its state file and its data.
THEOREM CreateIsReadable == Spec => []CreatedIsReadable
<1>1. ASSUME IInv PROVE CreatedIsReadable
  <2>1. SUFFICES ASSUME NEW r \in owners, resp[r] = 200, faults = 0, Sole(rid[r]), Undeleted(rid[r])
                 PROVE  /\ data[rid[r]] = r
                        /\ lock = NoReq => state[rid[r]].st \in {"Started", "Done"}
    BY DEF CreatedIsReadable, Undeleted
  <2>2. r \in Reqs /\ op[r] = "create" /\ cpc[r] # "off"
    BY <1>1, <2>1 DEF IInv, Typed, TypeOK, Owned
  <2>3. pc[r] = "writing" => lock # NoReq
    BY <1>1, <2>2, NoReqAssumption DEF IInv, Locked
  <2>4. pc[r] = "write" => loc[r].st # "Started"
    BY <1>1, <2>2 DEF IInv, Paced, Writes
  <2>5. QED
    BY <1>1, <2>1, <2>2, <2>3, <2>4 DEF IInv, OnDisk, Writes
<1>2. QED
  BY <1>1, Inductive, PTL


-----------------------------------------------------------------------------
(* The lifecycle. *)

\* View without the CASE: a file that is locked counts as what it will say.
Shown(i) ==
  IF ~Sole(i) THEN "contested"
  ELSE IF lock \in Reqs /\ rid[lock] = i THEN loc[lock].st
  ELSE IF state[i].st = "none" THEN "absent"
  ELSE IF state[i].st = "torn" THEN "broken"
  ELSE state[i].st

\* In every state the view of a bundle is what is shown.
LEMMA ViewIsShown ==
  ASSUME Typed, Locked, NEW i \in Ids
  PROVE  View(i) = Shown(i)
<1>1. CASE ~Sole(i)
  BY <1>1 DEF View, Shown
<1>2. CASE Sole(i) /\ state[i].st = "none"
  BY <1>2 DEF View, Shown, Locked
<1>3. CASE Sole(i) /\ state[i].st = "torn"
  BY <1>3 DEF View, Shown, Locked
<1>4. CASE Sole(i) /\ state[i].st \notin {"none", "torn"}
  BY <1>4 DEF View, Shown, Locked
<1>5. QED
  BY <1>1, <1>2, <1>3, <1>4

\* The same of the next state.
LEMMA ViewIsShownNext ==
  ASSUME Typed', Locked', NEW i \in Ids
  PROVE  View(i)' = Shown(i)'
<1>1. CASE ~Sole(i)'
  BY <1>1 DEF View, Shown
<1>2. CASE Sole(i)' /\ state'[i].st = "none"
  BY <1>2 DEF View, Shown, Locked
<1>3. CASE Sole(i)' /\ state'[i].st = "torn"
  BY <1>3 DEF View, Shown, Locked
<1>4. CASE Sole(i)' /\ state'[i].st \notin {"none", "torn"}
  BY <1>4 DEF View, Shown, Locked
<1>5. QED
  BY <1>1, <1>2, <1>3, <1>4

\* Bundle i takes a step of its lifecycle, or none.
Lives(i) ==
  \/ Shown(i)' = Shown(i) /\ (Active(i)' <=> Active(i))
  \/ Shown(i) = "absent" /\ Shown(i)' = "Started" /\ Active(i)'
  \/ Active(i) /\ ~Active(i)' /\ Shown(i)' \in {"Done", "Failed", Shown(i)}
  \/ Shown(i) \notin {"absent", "contested"} /\ Shown(i)' = "Deleted" /\ (Active(i)' <=> Active(i))
  \/ Shown(i) \notin {"absent", "contested"} /\ Shown(i)' = "broken" /\ (Active(i)' => Active(i))
  \/ Shown(i)' = "contested" /\ ~Active(i)'

\* Every step is a step of the lifecycle for every bundle.
LEMMA LivesStep ==
  ASSUME IInv, NEW i \in Ids, [Next]_vars
  PROVE  Lives(i)
<1>0. (\E r \in Reqs : Outcome(r)) \/ Dies \/ UNCHANGED vars
  BY NextOutcomes DEF IInv
<1> USE NoReqAssumption DEF IInv, Typed, TypeOK, Roles, Locked, Owned, Paced, OnDisk, Deleted,
        Removed, Sole, Shown, Active, Lives, Writes
<1>1. ASSUME NEW r \in Reqs, NEW code \in Nat, Refused(r, code) PROVE Lives(i)
  BY <1>1 DEF Refused
<1>2. ASSUME NEW r \in Reqs, NEW step \in {"mkdir", "read"}, Admitted(r, step)
      PROVE  Lives(i)
  BY <1>2 DEF Admitted
<1>3. ASSUME NEW r \in Reqs, DirMade(r) PROVE Lives(i)
  BY <1>3 DEF DirMade
<1>4. ASSUME NEW r \in Reqs, DirFails(r) PROVE Lives(i)
  BY <1>4 DEF DirFails
<1>5. ASSUME NEW r \in Reqs, DataMade(r) PROVE Lives(i)
  BY <1>5 DEF DataMade
<1>6. ASSUME NEW r \in Reqs, DataFails(r) PROVE Lives(i)
  BY <1>6, SMTT(30) DEF DataFails
<1>7. ASSUME NEW r \in Reqs, Opens(r) PROVE Lives(i)
  <2>1. CASE i # rid[r]
    BY <1>7, <2>1 DEF Opens
  <2>2. CASE i = rid[r] /\ ~Sole(i)
    BY <1>7, <2>2 DEF Opens
  <2>3. CASE i = rid[r] /\ Sole(i) /\ op[r] = "delete"
    <3>1. loc[r].st = "Deleted" /\ r \notin owners /\ owners' = owners /\ rid' = rid
      BY <1>7, <2>3 DEF Opens
    <3>2. Sole(i)' /\ Shown(i)' = "Deleted"
      BY <1>7, <2>3, <3>1 DEF Opens
    <3>3. Shown(i) \notin {"absent", "contested"}
      <4>1. state[i].st # "none" /\ lock = NoReq
        BY <1>7, <2>3 DEF Opens
      <4>2. state[i].st \notin {"absent", "contested"}
        <5>1. state[i] \in StateFile
          OBVIOUS
        <5>2. QED
          BY ONLY <5>1, StateFiles DEF Status
      <4>3. QED
        BY ONLY <2>3, <4>1, <4>2, NoReqAssumption DEF Shown
    <3>4. \A q \in owners : pc'[q] = pc[q] /\ loc'[q] = loc[q]
      BY <1>7, <3>1 DEF Opens
    <3>5. Active(i)' <=> Active(i)
      BY ONLY <2>3, <3>1, <3>2, <3>4 DEF Active
    <3>6. QED
      BY <3>2, <3>3, <3>5
  <2>4. CASE i = rid[r] /\ Sole(i) /\ op[r] = "create"
    <3>1. Sole(i)' /\ Shown(i)' = loc[r].st /\ r \in owners /\ owners' = owners
      BY <1>7, <2>4 DEF Opens
    <3>2. CASE loc[r].st = "Started"
      BY <1>7, <2>4, <3>1, <3>2 DEF Opens
    <3>3. CASE loc[r].st \in {"Done", "Failed"}
      <4>1. Active(i)
        BY <1>7, <2>4, <3>1, <3>3 DEF Opens
      <4>2. ~Active(i)'
        BY <1>7, <2>4, <3>1, <3>3 DEF Opens
      <4>3. QED
        BY <3>1, <3>3, <4>1, <4>2
    <3>4. QED
      BY <1>7, <2>4, <3>2, <3>3 DEF Opens
  <2>5. QED
    BY <1>7, <2>1, <2>2, <2>3, <2>4 DEF Opens
<1>8. ASSUME NEW r \in Reqs, NEW code \in Nat, NEW step \in {"mkdata", "end"}, Saves(r, code, step)
      PROVE  Lives(i)
  BY <1>8 DEF Saves
<1>9. ASSUME NEW r \in Reqs, NEW code \in Nat, WriteFails(r, code) PROVE Lives(i)
  BY <1>9 DEF WriteFails
<1>10. ASSUME NEW r \in Reqs, Unread(r) PROVE Lives(i)
  BY <1>10 DEF Unread
<1>11. ASSUME NEW r \in Reqs, ReadsLive(r) PROVE Lives(i)
  BY <1>11 DEF ReadsLive
<1>12. ASSUME NEW r \in Reqs, NEW b \in StateFile, NEW code \in Nat,
             NEW step \in {"end", "serve", "remove"}, Learns(r, b, code, step)
       PROVE  Lives(i)
  BY <1>12 DEF Learns
<1>13. ASSUME NEW r \in Reqs, NEW code \in Nat, Serves(r, code) PROVE Lives(i)
  BY <1>13 DEF Serves
<1>14. ASSUME NEW r \in Reqs, Removes(r) PROVE Lives(i)
  BY <1>14 DEF Removes
<1>15. ASSUME NEW r \in Reqs, RemoveFails(r) PROVE Lives(i)
  BY <1>15 DEF RemoveFails
<1>16. ASSUME NEW r \in Reqs, CollectStops(r) PROVE Lives(i)
  BY <1>16 DEF CollectStops
<1>17. ASSUME NEW r \in Reqs, NEW stored \in BOOLEAN, NEW failed \in BOOLEAN, Collects(r, stored, failed)
       PROVE  Lives(i)
  BY <1>17 DEF Collects
<1>18. ASSUME NEW r \in Reqs, ZipClosed(r) PROVE Lives(i)
  BY <1>18 DEF ZipClosed
<1>19. ASSUME NEW r \in Reqs, ZipFails(r) PROVE Lives(i)
  BY <1>19 DEF ZipFails
<1>20. ASSUME NEW r \in Reqs, Receives(r) PROVE Lives(i)
  BY <1>20 DEF Receives
<1>21. ASSUME NEW r \in Reqs, Leaves(r) PROVE Lives(i)
  BY <1>21 DEF Leaves
<1>22. ASSUME NEW r \in Reqs, Expires(r) PROVE Lives(i)
  BY <1>22, SMTT(30) DEF Expires
<1>23. CASE Dies
  <2>1. ~Active(i)' /\ (Sole(i)' <=> Sole(i))
    BY <1>23 DEF Dies
  <2>2. CASE Sole(i) /\ lock \in Reqs /\ rid[lock] = i
    <3>1. Shown(i)' = "broken"
      BY <1>23, <2>1, <2>2 DEF Dies
    <3>2. Shown(i) \notin {"absent", "contested"}
      BY <2>2
    <3>3. QED
      BY <2>1, <3>1, <3>2
  <2>3. CASE ~(Sole(i) /\ lock \in Reqs /\ rid[lock] = i)
    <3>1. Shown(i)' = Shown(i)
      BY <1>23, <2>1, <2>3 DEF Dies
    <3>2. QED
      BY <2>1, <3>1
  <2>4. QED
    BY <2>2, <2>3
<1>24. CASE UNCHANGED vars
  BY <1>24 DEF vars, disk, handler, collecting
<1> HIDE DEF IInv, Typed, TypeOK, Roles, Locked, Owned, Paced, OnDisk, Deleted, Removed, Sole,
        Shown, Active, Lives, Writes
<1>25. QED
  BY <1>0, <1>1, <1>2, <1>3, <1>4, <1>5, <1>6, <1>7, <1>8, <1>9, <1>10, <1>11, <1>12,
     <1>13, <1>14, <1>15, <1>16, <1>17, <1>18, <1>19, <1>20, <1>21, <1>22, <1>23, <1>24, Zenon
  DEF Outcome

\* A bundle nobody asked for is absent.
LEMMA LifeInit == Init => Life!Init
<1> SUFFICES ASSUME Init PROVE Life!Init
  OBVIOUS
<1>1. \A i \in Ids : Sole(i) /\ state[i].st = "none" /\ ~Active(i)
  BY DEF Init, Sole, Active, Saved
<1>2. \A i \in Ids : View(i) = "absent"
  BY <1>1 DEF View
<1>3. [i \in Ids |-> View(i)] = [i \in Ids |-> "absent"]
  BY <1>2
<1>4. \A i \in Ids : Active(i) = FALSE
  BY <1>1 DEF Active
<1>5. [i \in Ids |-> Active(i)] = [i \in Ids |-> FALSE]
  BY <1>4
<1>6. QED
  BY <1>3, <1>5 DEF Life!Init

\* What every bundle does is a step of the lifecycle of all of them.
LEMMA LifeStep == IInv /\ IInv' /\ [Next]_vars => [Life!Next]_(Life!lifecycle)
<1> SUFFICES ASSUME IInv, IInv', [Next]_vars PROVE Life!Next
  BY DEF Life!lifecycle
<1> DEFINE st == [i \in Ids |-> View(i)]
           at == [i \in Ids |-> Active(i)]
<1>1. ASSUME NEW i \in Ids PROVE View(i) = Shown(i) /\ View(i)' = Shown(i)' /\ Lives(i)
  BY ViewIsShown, ViewIsShownNext, LivesStep DEF IInv
<1>2. ASSUME NEW i \in Ids PROVE Shown(i)' \in Life!Statuses
  <2>1. \A q \in Reqs : pc'[q] = "writing" => loc'[q].st \in {"Started", "Done", "Failed", "Deleted"}
    BY DEF IInv, Typed, Roles, Writes
  <2>2. state'[i].st \in {"Started", "Done", "Failed", "Deleted", "none", "torn"}
    <3>1. state'[i] \in StateFile
      BY DEF IInv, Typed, TypeOK
    <3>2. QED
      BY <3>1, StateFiles DEF Status
  <2>3. \A q \in Reqs : lock' = q => pc'[q] = "writing"
    BY DEF IInv, Locked
  <2>4. QED
    BY <2>1, <2>2, <2>3 DEF Shown, Life!Statuses
<1>3. \A i \in Ids : Active(i) \in BOOLEAN /\ Active(i)' \in BOOLEAN
  BY DEF Active
<1>4. st' \in [Ids -> Life!Statuses] /\ at' \in [Ids -> BOOLEAN]
  BY <1>1, <1>2, <1>3
<1>5. ASSUME NEW i \in Ids PROVE Life!Step(i) \/ Life!Becomes(i, st[i], at[i])
  <2>1. st[i] = Shown(i) /\ st'[i] = Shown(i)' /\ at[i] = Active(i) /\ at'[i] = Active(i)'
    BY <1>1
  <2>2. QED
    BY <1>1, <1>3, <2>1 DEF Lives, Life!Step, Life!Becomes, Life!Start, Life!Finish, Life!Fail,
       Life!GiveUp, Life!Delete, Life!Break, Life!Contest
<1>6. QED
  BY <1>4, <1>5 DEF Life!Next

\* The bundles of a node go through the lifecycle that BundleLifecycle promises:
\* each is started once, only its Create says how it ended, and no crash, fault or
\* racing Delete makes it look further than it is.
THEOREM Refinement == Spec => Life!Spec
  BY Inductive, LifeInit, LifeStep, PTL DEF Spec, Life!Spec

=============================================================================
