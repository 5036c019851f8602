------------------------- MODULE ClusterBundleProofs --------------------------
(* Proofs about ClusterBundle, for every set of masters, ids and requests and   *)
(* any number of faults: the safety invariants, and that the cluster bundles go *)
(* through the lifecycle of BundleLifecycle.                                    *)
EXTENDS ClusterBundle, TLAPS

-----------------------------------------------------------------------------
(* The inductive invariant, in parts that build on each other. *)

\* c is about to write its state file or is writing it.
Writes(c) == cpc[c] \in {"write", "writing"}

\* The steps between the first and the last write of the state file.
AtWork(c) == cpc[c] \in {"mkdata", "lookup", "collect", "download", "merge", "copy"}

\* A Create past its first step has a place; it works on a bundle that is Started and
\* saves it as Started, Done or Failed. A query that downloads has found a master.
Roles ==
  /\ \A c \in Creates :
       /\ cpc[c] # "idle" => home[c] \in Places \ {NoMaster}
       /\ AtWork(c) => loc[c] = "Started"
       /\ loc[c] \in {"Started", "Done", "Failed"}
  /\ \A q \in Queries :
       /\ qpc[q] = "getfile" => target[q] \in Masters
       /\ target[q] # NoMaster => op[q] = "download"

Typed == TypeOK /\ Roles

\* The owners are the Creates past MkdirAll, and what there is of a bundle is theirs.
Owned ==
  /\ \A c \in owners : cpc[c] \notin {"idle", "mkdir"} /\ dir[home[c]]
  /\ \A c \in Creates : Writes(c) \/ AtWork(c) => c \in owners
  /\ \A c \in Creates : loc[c] # "Started" => c \in owners
  /\ \A p \in Places : state[p] # "none" => \E c \in owners : home[c] = p

\* A bundle that one Create made has no state file before that saved Started, and
\* only that Create has it open.
Saved ==
  \A c \in owners :
    Sole(home[c]) =>
      /\ cpc[c] = "write" /\ loc[c] = "Started" => state[home[c]] = "none"
      /\ cpc[c] = "writing" => state[home[c]] = "torn"
      /\ state[home[c]] = "Done" => cpc[c] = "end" /\ loc[c] = "Done"

\* Whoever downloads into the work directory of a master while another Create of that
\* master does or is about to merge crosses it.
Crossing ==
  \A c, d \in Creates :
    /\ c # d /\ home[c] # NoMaster /\ home[d] # NoMaster /\ Server(c) = Server(d)
    /\ cpc[d] = "download"
    /\ cpc[c] = "download" \/ (cpc[c] = "merge" /\ paths[c])
    => c \in crossed

\* The archive c is about to merge is its own, unless it was crossed.
Own ==
  \A c \in Creates :
    /\ paths[c] => cpc[c] \in {"merge", "copy", "write", "writing", "end"}
    /\ paths[c] /\ Writes(c) => loc[c] # "Started"
    /\ cpc[c] = "merge" /\ paths[c] => scratch[Server(c)] = c \/ c \in crossed

\* The archive v is all that was merged, and that of another bundle only if c was
\* crossed.
Fits(v, c) == v \in {"whole", "unclosed"} \/ (v = "foreign" /\ c \in crossed)

\* The archive goes from the work directory to the data file.
Moved ==
  \A c \in owners :
    Sole(home[c]) =>
      /\ cpc[c] = "copy" => Fits(merged[home[c]], c)
      /\ loc[c] = "Done" => data[home[c]] = "none" \/ Fits(data[home[c]], c)

\* What a download delivered was made by an owner of the place it came from.
Delivered ==
  \A q \in Queries :
    op[q] = "download" /\ resp[q] = 200 =>
      /\ qpc[q] = "end"
      /\ \E c \in owners : /\ home[c] = At(q, target[q])
                           /\ Sole(home[c]) => Fits(served[q], c)

\* What Status and List have not found yet they have still to ask for, or lost.
Looking ==
  \A q \in Queries :
    /\ qpc[q] = "idle" => resp[q] = 0
    /\ \A m \in before[q] : dir[At(q, m)]
    /\ op[q] = "status" /\ (qpc[q] = "ask" \/ resp[q] = 404) => before[q] \subseteq todo[q] \cup lost[q]
    /\ op[q] = "list" /\ (qpc[q] = "ask" \/ resp[q] = 200) => before[q] \subseteq todo[q] \cup hits[q]
    /\ resp[q] # 0 => qpc[q] = "end"
    /\ op[q] = "status" /\ resp[q] = 404 => todo[q] = {}
    /\ op[q] \in {"list", "delete"} /\ resp[q] = 200 => todo[q] = {}

\* Where a Delete found a bundle Done its owner is at its end, and the bundle is
\* Deleted unless the Delete has still to ask for it, or lost the answer.
Deleting ==
  \A q \in Queries : \A m \in ready[q] :
    LET p == At(q, m) IN
    op[q] = "delete" /\ Sole(p) =>
      /\ \E c \in owners : home[c] = p /\ cpc[c] = "end"
      /\ \/ state[p] = "Done" /\ data[p] # "none"
         \/ state[p] = "Deleted" /\ data[p] = "none"
      /\ (qpc[q] = "ask" \/ resp[q] = 200) /\ m \notin todo[q] \cup lost[q] => state[p] = "Deleted"

IInv ==
  /\ Typed /\ Owned /\ Saved /\ Crossing /\ Own /\ Moved
  /\ Delivered /\ Looking /\ Deleting

-----------------------------------------------------------------------------
(* The steps of Creates and queries, one for each outcome of an action: what an  *)
(* action does is a disjunction, and each of its disjuncts assigns every         *)
(* variable. An outcome says what the invariant needs of the action.             *)

\* Create.
Refused(c) ==
  /\ cpc[c] = "idle"
  /\ home[c] \in Places \ {NoMaster}
  /\ cpc' = [cpc EXCEPT ![c] = "end"]
  /\ code' = [code EXCEPT ![c] = 409]
  /\ UNCHANGED <<dir, state, data, scratch, merged, home, loc, paths, op, about, qpc,
                 todo, hits, target, resp, served, before, ready, lost, owners,
                 crossed, faults>>
Admitted(c) ==
  /\ cpc[c] = "idle"
  /\ home[c] \in Places \ {NoMaster}
  /\ cpc' = [cpc EXCEPT ![c] = "mkdir"]
  /\ UNCHANGED <<dir, state, data, scratch, merged, home, loc, code, paths, op, about,
                 qpc, todo, hits, target, resp, served, before, ready, lost, owners,
                 crossed, faults>>

\* MakeDir.
DirMade(c) ==
  /\ cpc[c] = "mkdir"
  /\ dir' = [dir EXCEPT ![home[c]] = TRUE]
  /\ owners' = owners \cup {c}
  /\ cpc' = [cpc EXCEPT ![c] = "write"]
  /\ UNCHANGED <<state, data, scratch, merged, home, loc, code, paths, op, about, qpc,
                 todo, hits, target, resp, served, before, ready, lost, crossed, faults>>
DirFails(c) ==
  /\ cpc[c] = "mkdir"
  /\ faults < MaxFaults /\ faults' = faults + 1
  /\ cpc' = [cpc EXCEPT ![c] = "end"]
  /\ code' = [code EXCEPT ![c] = 507]
  /\ UNCHANGED <<dir, state, data, scratch, merged, home, loc, paths, op, about, qpc,
                 todo, hits, target, resp, served, before, ready, lost, owners, crossed>>

\* BeginWrite and EndWrite.
Opens(c) ==
  /\ cpc[c] = "write"
  /\ state' = [state EXCEPT ![home[c]] = "torn"]
  /\ cpc' = [cpc EXCEPT ![c] = "writing"]
  /\ UNCHANGED <<dir, data, scratch, merged, home, loc, code, paths, op, about, qpc,
                 todo, hits, target, resp, served, before, ready, lost, owners,
                 crossed, faults>>
Saves(c, step) ==
  /\ cpc[c] = "writing"
  /\ step = "mkdata" <=> loc[c] = "Started"
  /\ state' = [state EXCEPT ![home[c]] = loc[c]]
  /\ cpc' = [cpc EXCEPT ![c] = step]
  /\ UNCHANGED <<dir, data, scratch, merged, home, loc, code, paths, op, about, qpc,
                 todo, hits, target, resp, served, before, ready, lost, owners,
                 crossed, faults>>
SaveFails(c, k) ==
  /\ cpc[c] = "writing"
  /\ faults < MaxFaults /\ faults' = faults + 1
  /\ cpc' = [cpc EXCEPT ![c] = "end"]
  /\ code' = [code EXCEPT ![c] = k]
  /\ UNCHANGED <<dir, state, data, scratch, merged, home, loc, paths, op, about, qpc,
                 todo, hits, target, resp, served, before, ready, lost, owners, crossed>>

\* MakeData and Lookup.
DataMade(c) ==
  /\ cpc[c] = "mkdata"
  /\ data' = [data EXCEPT ![home[c]] = "partial"]
  /\ cpc' = [cpc EXCEPT ![c] = "lookup"]
  /\ UNCHANGED <<dir, state, scratch, merged, home, loc, code, paths, op, about, qpc,
                 todo, hits, target, resp, served, before, ready, lost, owners,
                 crossed, faults>>
DataFails(c) ==
  /\ cpc[c] = "mkdata"
  /\ faults < MaxFaults /\ faults' = faults + 1
  /\ loc' = [loc EXCEPT ![c] = "Failed"]
  /\ cpc' = [cpc EXCEPT ![c] = "write"]
  /\ code' = [code EXCEPT ![c] = 507]
  /\ UNCHANGED <<dir, state, data, scratch, merged, home, paths, op, about, qpc, todo,
                 hits, target, resp, served, before, ready, lost, owners, crossed>>
NodesFound(c) ==
  /\ cpc[c] = "lookup"
  /\ cpc' = [cpc EXCEPT ![c] = "collect"]
  /\ code' = [code EXCEPT ![c] = 200]
  /\ UNCHANGED <<dir, state, data, scratch, merged, home, loc, paths, op, about, qpc,
                 todo, hits, target, resp, served, before, ready, lost, owners,
                 crossed, faults>>
NodesMissed(c) ==
  /\ cpc[c] = "lookup"
  /\ faults < MaxFaults /\ faults' = faults + 1
  /\ loc' = [loc EXCEPT ![c] = "Failed"]
  /\ cpc' = [cpc EXCEPT ![c] = "write"]
  /\ code' = [code EXCEPT ![c] = 500]
  /\ UNCHANGED <<dir, state, data, scratch, merged, home, paths, op, about, qpc, todo,
                 hits, target, resp, served, before, ready, lost, owners, crossed>>

\* BeginDownload, which hurts the archives of others, and EndDownload.
Downloads(c, hurt) ==
  /\ cpc[c] = "collect"
  /\ \A d \in Neighbours(c) : cpc[d] = "download" => {c, d} \subseteq hurt
  /\ \A d \in Neighbours(c) : cpc[d] = "merge" /\ paths[d] => d \in hurt
  /\ crossed' = crossed \cup hurt
  /\ scratch' = [scratch EXCEPT ![Server(c)] = "torn"]
  /\ cpc' = [cpc EXCEPT ![c] = "download"]
  /\ UNCHANGED <<dir, state, data, merged, home, loc, code, paths, op, about, qpc,
                 todo, hits, target, resp, served, before, ready, lost, owners, faults>>
Skips(c) ==
  /\ cpc[c] = "collect"
  /\ faults < MaxFaults /\ faults' = faults + 1
  /\ cpc' = [cpc EXCEPT ![c] = "merge"]
  /\ UNCHANGED <<dir, state, data, scratch, merged, home, loc, code, paths, op, about,
                 qpc, todo, hits, target, resp, served, before, ready, lost, owners,
                 crossed>>
Downloaded(c, x) ==
  /\ cpc[c] = "download"
  /\ x = c \/ c \in crossed
  /\ scratch' = [scratch EXCEPT ![Server(c)] = x]
  /\ paths' = [paths EXCEPT ![c] = TRUE]
  /\ cpc' = [cpc EXCEPT ![c] = "merge"]
  /\ UNCHANGED <<dir, state, data, merged, home, loc, code, op, about, qpc, todo, hits,
                 target, resp, served, before, ready, lost, owners, crossed, faults>>
DownloadFails(c) ==
  /\ cpc[c] = "download"
  /\ faults < MaxFaults /\ faults' = faults + 1
  /\ cpc' = [cpc EXCEPT ![c] = "merge"]
  /\ UNCHANGED <<dir, state, data, scratch, merged, home, loc, code, paths, op, about,
                 qpc, todo, hits, target, resp, served, before, ready, lost, owners,
                 crossed>>

\* Merge and CopyArchive.
Merges(c, v) ==
  /\ cpc[c] = "merge"
  /\ faults' = faults \/ (faults < MaxFaults /\ faults' = faults + 1)
  /\ v = "foreign" => paths[c] /\ scratch[Server(c)] # c
  /\ merged' = [merged EXCEPT ![home[c]] = v]
  /\ cpc' = [cpc EXCEPT ![c] = "copy"]
  /\ UNCHANGED <<dir, state, data, scratch, home, loc, code, paths, op, about, qpc,
                 todo, hits, target, resp, served, before, ready, lost, owners,
                 crossed>>
MergeFails(c) ==
  /\ cpc[c] = "merge"
  /\ faults' = faults \/ (faults < MaxFaults /\ faults' = faults + 1)
  /\ merged' = [merged EXCEPT ![home[c]] = "partial"]
  /\ loc' = [loc EXCEPT ![c] = "Failed"]
  /\ cpc' = [cpc EXCEPT ![c] = "write"]
  /\ UNCHANGED <<dir, state, data, scratch, home, code, paths, op, about, qpc, todo,
                 hits, target, resp, served, before, ready, lost, owners, crossed>>
Copies(c) ==
  /\ cpc[c] = "copy"
  /\ data' = [data EXCEPT ![home[c]] = IF data[home[c]] = "none" THEN "none" ELSE merged[home[c]]]
  /\ loc' = [loc EXCEPT ![c] = "Done"]
  /\ cpc' = [cpc EXCEPT ![c] = "write"]
  /\ UNCHANGED <<dir, state, scratch, merged, home, code, paths, op, about, qpc, todo,
                 hits, target, resp, served, before, ready, lost, owners, crossed,
                 faults>>
CopyFails(c) ==
  /\ cpc[c] = "copy"
  /\ faults < MaxFaults /\ faults' = faults + 1
  /\ loc' = [loc EXCEPT ![c] = "Failed"]
  /\ cpc' = [cpc EXCEPT ![c] = "write"]
  /\ UNCHANGED <<dir, state, data, scratch, merged, home, code, paths, op, about, qpc,
                 todo, hits, target, resp, served, before, ready, lost, owners, crossed>>

\* Arrive. B and R are the masters that have the bundle, and that have it Done.
Arrives(q, B, R) ==
  /\ qpc[q] = "idle"
  /\ B \subseteq Masters /\ \A m \in B : dir[At(q, m)]
  /\ R \subseteq Masters /\ \A m \in R : state[At(q, m)] = "Done" /\ data[At(q, m)] # "none"
  /\ before' = [before EXCEPT ![q] = B]
  /\ ready' = [ready EXCEPT ![q] = R]
  /\ todo' = [todo EXCEPT ![q] = Masters]
  /\ qpc' = [qpc EXCEPT ![q] = "ask"]
  /\ UNCHANGED <<dir, state, data, scratch, merged, home, cpc, loc, code, paths, op,
                 about, hits, target, resp, served, lost, owners, crossed, faults>>
ArriveFails(q, B, R) ==
  /\ qpc[q] = "idle"
  /\ B \subseteq Masters /\ \A m \in B : dir[At(q, m)]
  /\ R \subseteq Masters /\ \A m \in R : state[At(q, m)] = "Done" /\ data[At(q, m)] # "none"
  /\ faults < MaxFaults /\ faults' = faults + 1
  /\ before' = [before EXCEPT ![q] = B]
  /\ ready' = [ready EXCEPT ![q] = R]
  /\ resp' = [resp EXCEPT ![q] = 500]
  /\ qpc' = [qpc EXCEPT ![q] = "end"]
  /\ UNCHANGED <<dir, state, data, scratch, merged, home, cpc, loc, code, paths, op,
                 about, todo, hits, target, served, lost, owners, crossed>>

\* AskList: the list of a master, or an error.
Lists(q, m) ==
  /\ qpc[q] = "ask"
  /\ m \in todo[q]
  /\ op[q] = "list"
  /\ todo' = [todo EXCEPT ![q] = todo[q] \ {m}]
  /\ hits' = [hits EXCEPT ![q] = IF dir[At(q, m)] THEN hits[q] \cup {m} ELSE hits[q]]
  /\ UNCHANGED <<dir, state, data, scratch, merged, home, cpc, loc, code, paths, op,
                 about, qpc, target, resp, served, before, ready, lost, owners,
                 crossed, faults>>
ListFails(q, m) ==
  /\ qpc[q] = "ask"
  /\ m \in todo[q]
  /\ op[q] = "list"
  /\ todo' = [todo EXCEPT ![q] = todo[q] \ {m}]
  /\ lost' = [lost EXCEPT ![q] = lost[q] \cup {m}]
  /\ resp' = [resp EXCEPT ![q] = 500]
  /\ qpc' = [qpc EXCEPT ![q] = "end"]
  /\ UNCHANGED <<dir, state, data, scratch, merged, home, cpc, loc, code, paths, op,
                 about, hits, target, served, before, ready, owners, crossed, faults>>

\* AskStatus, AskDelete, AskDownload: on to the next master; the answer, or an error; an
\* answer that is lost; a bundle nobody returned.
Misses(q, m) ==
  /\ qpc[q] = "ask"
  /\ m \in todo[q]
  /\ op[q] \in {"status", "delete", "download"}
  /\ op[q] # "download" => ~dir[At(q, m)]
  /\ todo' = [todo EXCEPT ![q] = todo[q] \ {m}]
  /\ UNCHANGED <<dir, state, data, scratch, merged, home, cpc, loc, code, paths, op,
                 about, qpc, hits, target, resp, served, before, ready, lost, owners,
                 crossed, faults>>
Answers(q, m, k) ==
  /\ qpc[q] = "ask"
  /\ m \in todo[q]
  /\ op[q] \in {"status", "delete", "download"}
  /\ k = 200 => op[q] = "status"
  /\ todo' = [todo EXCEPT ![q] = todo[q] \ {m}]
  /\ resp' = [resp EXCEPT ![q] = k]
  /\ qpc' = [qpc EXCEPT ![q] = "end"]
  /\ UNCHANGED <<dir, state, data, scratch, merged, home, cpc, loc, code, paths, op,
                 about, hits, target, served, before, ready, lost, owners, crossed,
                 faults>>
Loses(q, m) ==
  /\ qpc[q] = "ask"
  /\ m \in todo[q]
  /\ op[q] \in {"status", "delete"}
  /\ todo' = [todo EXCEPT ![q] = todo[q] \ {m}]
  /\ lost' = [lost EXCEPT ![q] = lost[q] \cup {m}]
  /\ UNCHANGED <<dir, state, data, scratch, merged, home, cpc, loc, code, paths, op,
                 about, qpc, hits, target, resp, served, before, ready, owners,
                 crossed, faults>>
Panics(q, m) ==
  /\ qpc[q] = "ask"
  /\ m \in todo[q]
  /\ op[q] = "download"
  /\ todo' = [todo EXCEPT ![q] = todo[q] \ {m}]
  /\ lost' = [lost EXCEPT ![q] = lost[q] \cup {m}]
  /\ resp' = [resp EXCEPT ![q] = -1]
  /\ qpc' = [qpc EXCEPT ![q] = "end"]
  /\ UNCHANGED <<dir, state, data, scratch, merged, home, cpc, loc, code, paths, op,
                 about, hits, target, served, before, ready, owners, crossed, faults>>

\* AskDelete: the bundle is deleted, and the answer returned or lost.
Deletes(q, m) ==
  /\ qpc[q] = "ask"
  /\ m \in todo[q]
  /\ op[q] = "delete"
  /\ DeleteOf(At(q, m)) = "Deleted"
  /\ data' = [data EXCEPT ![At(q, m)] = "none"]
  /\ state' = [state EXCEPT ![At(q, m)] = "Deleted"]
  /\ todo' = [todo EXCEPT ![q] = todo[q] \ {m}]
  /\ hits' = [hits EXCEPT ![q] = hits[q] \cup {m}]
  /\ UNCHANGED <<dir, scratch, merged, home, cpc, loc, code, paths, op, about, qpc,
                 target, resp, served, before, ready, lost, owners, crossed, faults>>
DeletesUnheard(q, m) ==
  /\ qpc[q] = "ask"
  /\ m \in todo[q]
  /\ op[q] = "delete"
  /\ DeleteOf(At(q, m)) = "Deleted"
  /\ data' = [data EXCEPT ![At(q, m)] = "none"]
  /\ state' = [state EXCEPT ![At(q, m)] = "Deleted"]
  /\ todo' = [todo EXCEPT ![q] = todo[q] \ {m}]
  /\ lost' = [lost EXCEPT ![q] = lost[q] \cup {m}]
  /\ UNCHANGED <<dir, scratch, merged, home, cpc, loc, code, paths, op, about, qpc,
                 hits, target, resp, served, before, ready, owners, crossed, faults>>

\* AskDownload and GetFile.
Finds(q, m) ==
  /\ qpc[q] = "ask"
  /\ m \in todo[q]
  /\ op[q] = "download"
  /\ todo' = [todo EXCEPT ![q] = todo[q] \ {m}]
  /\ target' = [target EXCEPT ![q] = m]
  /\ qpc' = [qpc EXCEPT ![q] = "getfile"]
  /\ UNCHANGED <<dir, state, data, scratch, merged, home, cpc, loc, code, paths, op,
                 about, hits, resp, served, before, ready, lost, owners, crossed,
                 faults>>
Gets(q) ==
  /\ qpc[q] = "getfile"
  /\ FileOf(At(q, target[q])) # "none"
  /\ served' = [served EXCEPT ![q] = FileOf(At(q, target[q]))]
  /\ resp' = [resp EXCEPT ![q] = 200]
  /\ qpc' = [qpc EXCEPT ![q] = "end"]
  /\ UNCHANGED <<dir, state, data, scratch, merged, home, cpc, loc, code, paths, op,
                 about, todo, hits, target, before, ready, lost, owners, crossed,
                 faults>>
GetFails(q, L) ==
  /\ qpc[q] = "getfile"
  /\ lost[q] \subseteq L
  /\ lost' = [lost EXCEPT ![q] = L]
  /\ resp' = [resp EXCEPT ![q] = 500]
  /\ qpc' = [qpc EXCEPT ![q] = "end"]
  /\ UNCHANGED <<dir, state, data, scratch, merged, home, cpc, loc, code, paths, op,
                 about, todo, hits, target, served, before, ready, owners, crossed,
                 faults>>

\* AskedAll.
Concludes(q, k) ==
  /\ qpc[q] = "ask"
  /\ todo[q] = {}
  /\ k = (IF op[q] = "list" \/ (op[q] = "delete" /\ hits[q] # {}) THEN 200 ELSE 404)
  /\ resp' = [resp EXCEPT ![q] = k]
  /\ qpc' = [qpc EXCEPT ![q] = "end"]
  /\ UNCHANGED <<dir, state, data, scratch, merged, home, cpc, loc, code, paths, op,
                 about, todo, hits, target, served, before, ready, lost, owners,
                 crossed, faults>>

\* A step of Create c or its goroutine.
CreateOutcome(c) ==
  \/ Refused(c) \/ Admitted(c) \/ DirMade(c) \/ DirFails(c) \/ Opens(c)
  \/ \E step \in {"mkdata", "end"} : Saves(c, step)
  \/ \E k \in {0, 200, 409, 500, 507} : SaveFails(c, k)
  \/ DataMade(c) \/ DataFails(c) \/ NodesFound(c) \/ NodesMissed(c)
  \/ \E hurt \in SUBSET Creates : Downloads(c, hurt)
  \/ Skips(c)
  \/ \E x \in Creates \cup {"torn"} : Downloaded(c, x)
  \/ DownloadFails(c)
  \/ \E v \in {"whole", "foreign", "unclosed"} : Merges(c, v)
  \/ MergeFails(c) \/ Copies(c) \/ CopyFails(c)

\* A step of query q.
QueryOutcome(q) ==
  \/ \E B, R \in SUBSET Masters : Arrives(q, B, R)
  \/ \E B, R \in SUBSET Masters : ArriveFails(q, B, R)
  \/ \E m \in Masters : Lists(q, m)
  \/ \E m \in Masters : ListFails(q, m)
  \/ \E m \in Masters : Misses(q, m)
  \/ \E m \in Masters, k \in {200, 500} : Answers(q, m, k)
  \/ \E m \in Masters : Loses(q, m)
  \/ \E m \in Masters : Panics(q, m)
  \/ \E m \in Masters : Deletes(q, m)
  \/ \E m \in Masters : DeletesUnheard(q, m)
  \/ \E m \in Masters : Finds(q, m)
  \/ Gets(q)
  \/ \E L \in SUBSET Masters : GetFails(q, L)
  \/ \E k \in {200, 404} : Concludes(q, k)

\* Status and Delete, without the CASEs and IFs.
LEMMA WhatMastersSay ==
  ASSUME Typed, NEW p \in Places
  PROVE  /\ StatusOf(p) = "not found" <=> ~dir[p]
         /\ StatusOf(p) \in {"not found", "unreadable"} \cup Status
         /\ StatusOf(p) = "Done" => dir[p] /\ state[p] = "Done" /\ data[p] # "none"
         /\ DeleteOf(p) = "not found" <=> ~dir[p]
         /\ DeleteOf(p) \in {"not found", "unreadable", "Deleted"}
         /\ DeleteOf(p) = "Deleted" => dir[p] /\ state[p] \in Status
<1>1. dir[p] \in BOOLEAN /\ state[p] \in Status \cup {"none", "torn"}
  BY DEF Typed, TypeOK
<1>2. CASE ~dir[p]
  <2>1. StatusOf(p) = "not found"
    BY <1>2 DEF StatusOf
  <2>2. DeleteOf(p) = "not found"
    BY <2>1 DEF DeleteOf
  <2>3. QED
    BY <1>2, <2>1, <2>2
<1>3. CASE dir[p]
  <2>1. /\ StatusOf(p) \in {"unreadable"} \cup Status
        /\ StatusOf(p) # "unreadable" => StatusOf(p) = state[p] /\ state[p] \notin {"none", "torn"}
        /\ StatusOf(p) = "Done" => data[p] # "none"
    BY <1>1, <1>3 DEF StatusOf, Status
  <2>2. DeleteOf(p) \in {"unreadable", "Deleted"}
    BY <2>1 DEF DeleteOf, Status
  <2>3. DeleteOf(p) = "Deleted" => StatusOf(p) # "unreadable"
    BY DEF DeleteOf
  <2>4. QED
    BY <1>1, <1>3, <2>1, <2>2, <2>3 DEF Status
<1>4. QED
  BY <1>1, <1>2, <1>3

\* A file that is delivered is the data file of a bundle that is Done.
LEMMA WhatIsDelivered ==
  ASSUME Typed, NEW p \in Places, FileOf(p) # "none"
  PROVE  FileOf(p) = data[p] /\ data[p] # "none" /\ state[p] = "Done"
  BY WhatMastersSay DEF FileOf

\* The outcomes of the steps of a Create.
LEMMA CreateOutcomes ==
  ASSUME Typed, NEW c \in Creates, Create(c) \/ CreateStep(c)
  PROVE  CreateOutcome(c)
<1> USE DEF CGoto, CAnswer, Fault, NoFault, Fail, files, work, asking
<1>0. /\ home[c] # NoMaster => home[c] \in Places \ {NoMaster}
      /\ code[c] \in {0, 200, 409, 500, 507}
      /\ UNCHANGED code => code' = [code EXCEPT ![c] = code[c]]
      /\ scratch[Server(c)] \in Creates \cup {"none", "torn"} \/ home[c] = NoMaster
      /\ crossed \subseteq Creates
  BY DEF Typed, TypeOK, Server, Places
<1>1. CASE Create(c)
  <2>1. CASE dir[home[c]]
    <3>1. Refused(c)
      BY <1>0, <1>1, <2>1, ZenonT(60) DEF Create, Refused
    <3>2. QED
      BY <3>1, Zenon DEF CreateOutcome
  <2>2. CASE ~dir[home[c]]
    <3>1. Admitted(c)
      BY <1>0, <1>1, <2>2, ZenonT(60) DEF Create, Admitted
    <3>2. QED
      BY <3>1, Zenon DEF CreateOutcome
  <2>3. QED
    BY <2>1, <2>2
<1>2. CASE MakeDir(c)
  <2>1. DirMade(c) \/ DirFails(c)
    BY <1>2, ZenonT(60) DEF MakeDir, DirMade, DirFails
  <2>2. QED
    BY <2>1, Zenon DEF CreateOutcome
<1>3. CASE BeginWrite(c)
  BY <1>3, Zenon DEF BeginWrite, Opens, CreateOutcome
<1>4. ASSUME NEW ok \in BOOLEAN, EndWrite(c, ok) PROVE CreateOutcome(c)
  <2>1. CASE ok /\ loc[c] = "Started"
    <3>1. Saves(c, "mkdata")
      BY <1>4, <2>1, Zenon DEF EndWrite, Saves
    <3>2. QED
      BY <3>1, Zenon DEF CreateOutcome
  <2>2. CASE ok /\ loc[c] # "Started"
    <3>1. Saves(c, "end")
      <4>1. "mkdata" # "end"
        OBVIOUS
      <4>2. QED
        BY <1>4, <2>2, <4>1, Zenon DEF EndWrite, Saves
    <3>2. QED
      BY <3>1, Zenon DEF CreateOutcome
  <2>3. CASE ~ok /\ loc[c] = "Started"
    <3>1. SaveFails(c, 507)
      BY <1>4, <2>3, Zenon DEF EndWrite, SaveFails
    <3>2. QED
      BY <3>1, ZenonT(60) DEF CreateOutcome
  <2>4. CASE ~ok /\ loc[c] # "Started"
    <3>1. SaveFails(c, code[c])
      BY <1>0, <1>4, <2>4, ZenonT(60) DEF EndWrite, SaveFails
    <3>2. \E k \in {0, 200, 409, 500, 507} : SaveFails(c, k)
      BY <1>0, <3>1
    <3>3. QED
      BY <3>2, ZenonT(60) DEF CreateOutcome
  <2>5. QED
    BY <2>1, <2>2, <2>3, <2>4
<1>5. CASE MakeData(c)
  BY <1>5, ZenonT(60) DEF MakeData, DataMade, DataFails, CreateOutcome
<1>6. CASE Lookup(c)
  BY <1>6, ZenonT(60) DEF Lookup, NodesFound, NodesMissed, CreateOutcome
<1>7. CASE BeginDownload(c)
  <2> DEFINE writing == {d \in Neighbours(c) : cpc[d] = "download"}
             waiting == {d \in Neighbours(c) : cpc[d] = "merge" /\ paths[d]}
             hurt == writing \cup waiting \cup (IF writing = {} THEN {} ELSE {c})
  <2>2. hurt \in SUBSET Creates
    BY DEF Neighbours
  <2>3. /\ \A d \in Neighbours(c) : cpc[d] = "download" => {c, d} \subseteq hurt
        /\ \A d \in Neighbours(c) : cpc[d] = "merge" /\ paths[d] => d \in hurt
    OBVIOUS
  <2>4. CASE Skips(c)
    BY <2>4, Zenon DEF CreateOutcome
  <2>5. CASE ~Skips(c)
    <3>1. /\ crossed' = crossed \cup writing \cup waiting
                                \cup IF writing = {} THEN {} ELSE {c}
          /\ scratch' = [scratch EXCEPT ![Server(c)] = "torn"]
          /\ CGoto(c, "download")
          /\ NoFault
      BY <1>7, <2>5, Zenon DEF BeginDownload, Skips
    <3>2. crossed' = crossed \cup hurt
      BY <3>1
    <3> HIDE DEF hurt
    <3>3. Downloads(c, hurt)
      BY <1>7, <2>3, <3>1, <3>2, Zenon DEF BeginDownload, Downloads
    <3>4. QED
      BY <2>2, <3>3, Zenon DEF CreateOutcome
  <2>6. QED
    BY <2>4, <2>5
<1>8. CASE EndDownload(c)
  <2>1. CASE DownloadFails(c)
    BY <2>1, Zenon DEF CreateOutcome
  <2>2. CASE ~DownloadFails(c)
    <3>1. PICK x \in IF c \in crossed THEN {c, "torn"} \cup (crossed \cap Neighbours(c)) ELSE {c} :
            scratch' = [scratch EXCEPT ![Server(c)] = x]
      BY <1>8, <2>2, Zenon DEF EndDownload, DownloadFails
    <3>2. paths' = [paths EXCEPT ![c] = TRUE] /\ NoFault
      BY <1>8, <2>2, Zenon DEF EndDownload, DownloadFails
    <3>3. x \in Creates \cup {"torn"} /\ (x = c \/ c \in crossed)
      BY <1>0, <3>1
    <3>4. Downloaded(c, x)
      BY <1>8, <3>1, <3>2, <3>3, Zenon DEF EndDownload, Downloaded
    <3>5. QED
      BY <3>3, <3>4, ZenonT(60) DEF CreateOutcome
  <2>3. QED
    BY <2>1, <2>2
<1>9. CASE Merge(c)
  <2>1. CASE MergeFails(c)
    BY <2>1, Zenon DEF CreateOutcome
  <2>4. CASE Merges(c, "unclosed")
    BY <2>4, Zenon DEF CreateOutcome
  <2>2. CASE ~MergeFails(c) /\ ~Merges(c, "unclosed")
    <3> DEFINE v == IF paths[c] /\ scratch[Server(c)] # c THEN "foreign" ELSE "whole"
    <3>1. merged' = [merged EXCEPT ![home[c]] = v] /\ CGoto(c, "copy") /\ NoFault /\ UNCHANGED loc
      <4>1. CASE Fault
        BY <1>9, <2>2, <4>1, Zenon DEF Merge, MergeFails, Merges
      <4>2. CASE ~Fault
        BY <1>9, <2>2, <4>2, Zenon DEF Merge, MergeFails
      <4>3. QED
        BY <4>1, <4>2
    <3>2. v \in {"whole", "foreign"} /\ (v = "foreign" => paths[c] /\ scratch[Server(c)] # c)
      OBVIOUS
    <3> HIDE DEF v
    <3>3. Merges(c, v)
      BY <1>9, <3>1, <3>2, Zenon DEF Merge, Merges
    <3>4. QED
      BY <3>2, <3>3, Zenon DEF CreateOutcome
  <2>3. QED
    BY <2>1, <2>2, <2>4
<1>10. CASE CopyArchive(c)
  <2>1. CASE CopyFails(c)
    BY <2>1, Zenon DEF CreateOutcome
  <2>2. CASE ~CopyFails(c)
    <3>1. data' = Copied(c) /\ loc' = [loc EXCEPT ![c] = "Done"] /\ CGoto(c, "write") /\ NoFault
      BY <1>10, <2>2, Zenon DEF CopyArchive, CopyFails
    <3>2. data' = [data EXCEPT ![home[c]] = IF data[home[c]] = "none" THEN "none" ELSE merged[home[c]]]
      BY <3>1 DEF Copied
    <3>3. Copies(c)
      BY <1>10, <3>1, <3>2, Zenon DEF CopyArchive, Copies
    <3>4. QED
      BY <3>3, Zenon DEF CreateOutcome
  <2>3. QED
    BY <2>1, <2>2
<1>11. QED
  BY <1>1, <1>2, <1>3, <1>4, <1>5, <1>6, <1>7, <1>8, <1>9, <1>10, Zenon DEF CreateStep


\* The outcomes of the steps of a query.
LEMMA QueryOutcomes ==
  ASSUME Typed, NEW q \in Queries, Arrive(q) \/ QueryStep(q)
  PROVE  QueryOutcome(q)
<1> USE DEF QAnswer, Proceed, Lost, Fault, NoFault, files, work, creating
<1>0. /\ \A m \in Masters : At(q, m) \in Places
      /\ UNCHANGED hits => hits' = [hits EXCEPT ![q] = hits[q]]
      /\ \A p \in Places : data = [data EXCEPT ![p] = data[p]] /\ state = [state EXCEPT ![p] = state[p]]
  BY DEF Typed, TypeOK, At, Places
<1>1. CASE Arrive(q)
  <2> DEFINE B == {m \in Masters : dir[At(q, m)] /\ op[q] \in {"list", "status"}}
             R == {m \in Masters : /\ state[At(q, m)] = "Done"
                                   /\ data[At(q, m)] # "none"
                                   /\ op[q] \in {"delete", "download"}}
  <2>1. B \in SUBSET Masters /\ R \in SUBSET Masters
    OBVIOUS
  <2>2. /\ \A m \in B : dir[At(q, m)]
        /\ \A m \in R : state[At(q, m)] = "Done" /\ data[At(q, m)] # "none"
    OBVIOUS
  <2>3. before' = [before EXCEPT ![q] = B] /\ ready' = [ready EXCEPT ![q] = R]
    BY <1>1, ZenonT(60) DEF Arrive
  <2> HIDE DEF B, R
  <2>4. Arrives(q, B, R) \/ ArriveFails(q, B, R)
    BY <1>1, <2>1, <2>2, <2>3, Zenon DEF Arrive, Arrives, ArriveFails
  <2>5. QED
    BY <2>1, <2>4, Zenon DEF QueryOutcome
<1>2. ASSUME NEW m \in Masters, AskList(q, m) PROVE QueryOutcome(q)
  <2>1. Lists(q, m) \/ ListFails(q, m)
    BY <1>2, Zenon DEF AskList, Ask, Lists, ListFails
  <2>2. QED
    BY <2>1, Zenon DEF QueryOutcome
<1>3. ASSUME NEW m \in Masters, AskStatus(q, m) PROVE QueryOutcome(q)
  <2> DEFINE r == StatusOf(At(q, m))
  <2>1. r = "not found" <=> ~dir[At(q, m)]
    BY <1>0, WhatMastersSay
  <2>2. CASE Proceed /\ Lost(q, m)
    <3>1. Loses(q, m)
      BY <1>3, <2>2, Zenon DEF AskStatus, Ask, Loses
    <3>2. QED
      BY <3>1, Zenon DEF QueryOutcome
  <2>3. CASE r = "not found" /\ Proceed /\ UNCHANGED lost
    <3>1. Misses(q, m)
      BY <1>3, <2>1, <2>3, Zenon DEF AskStatus, Ask, Misses
    <3>2. QED
      BY <3>1, Zenon DEF QueryOutcome
  <2>4. CASE r = "unreadable" /\ QAnswer(q, 500) /\ UNCHANGED lost
    <3>1. 200 # 500 /\ 500 \in {200, 500}
      OBVIOUS
    <3>2. Answers(q, m, 500)
      BY <1>3, <2>4, <3>1, Zenon DEF AskStatus, Ask, Answers
    <3>3. \E k \in {200, 500} : Answers(q, m, k)
      BY <3>2
    <3>4. QED
      BY <3>3, Zenon DEF QueryOutcome
  <2>5. CASE r \notin {"not found", "unreadable"} /\ QAnswer(q, 200) /\ UNCHANGED lost
    <3>1. Answers(q, m, 200)
      BY <1>3, <2>5, Zenon DEF AskStatus, Ask, Answers
    <3>2. QED
      BY <3>1, Zenon DEF QueryOutcome
  <2>6. CASE ~(Proceed /\ Lost(q, m))
    <3>1. /\ IF r # "not found"
               THEN QAnswer(q, CASE r = "not found" -> 404
                                 [] r = "unreadable" -> 500
                                 [] OTHER -> 200)
               ELSE Proceed
          /\ UNCHANGED lost
      BY <1>3, <2>6, Zenon DEF AskStatus, StopsStatus
    <3> DEFINE k == CASE r = "not found" -> 404 [] r = "unreadable" -> 500 [] OTHER -> 200
    <3>0. r # "not found" => QAnswer(q, k)
      BY <3>1, Zenon
    <3> HIDE DEF r, k, QAnswer, Proceed
    <3>2. CASE r = "not found"
      BY <2>3, <3>1, <3>2
    <3>3. CASE r = "unreadable"
      <4>1. r # "not found"
        BY <3>3
      <4>2. k = 500
        BY <3>3, <4>1, Zenon DEF k
      <4>3. QAnswer(q, 500)
        BY <3>0, <4>1, <4>2
      <4>4. QED
        BY <2>4, <3>1, <3>3, <4>3, Zenon
    <3>4. CASE r \notin {"not found", "unreadable"}
      <4>1. r # "not found" /\ r # "unreadable"
        BY <3>4
      <4>2. k = 200
        BY <4>1, Zenon DEF k
      <4>3. QAnswer(q, 200)
        BY <3>0, <4>1, <4>2
      <4>4. QED
        BY <2>5, <3>1, <3>4, <4>3, Zenon
    <3>5. QED
      BY <3>2, <3>3, <3>4
  <2>7. QED
    BY <2>2, <2>6
<1>4. ASSUME NEW m \in Masters, AskDelete(q, m) PROVE QueryOutcome(q)
  <2> DEFINE p == At(q, m)
  <2>1. /\ DeleteOf(p) = "not found" <=> ~dir[p]
        /\ DeleteOf(p) \in {"not found", "unreadable", "Deleted"}
    BY <1>0, WhatMastersSay
  <2>2. CASE DeleteOf(p) = "Deleted"
    <3>1. DeleteAt(p) => /\ data' = [data EXCEPT ![p] = "none"]
                         /\ state' = [state EXCEPT ![p] = "Deleted"]
                         /\ UNCHANGED dir
      BY <2>2, Zenon DEF DeleteAt
    <3>2. CASE DeleteAt(p) /\ hits' = [hits EXCEPT ![q] = IF DeleteOf(p) = "Deleted" THEN @ \cup {m} ELSE @]
                           /\ Proceed /\ UNCHANGED lost
      <4>1. hits' = [hits EXCEPT ![q] = hits[q] \cup {m}]
        BY <2>2, <3>2, Zenon
      <4>2. Deletes(q, m)
        BY <1>4, <2>2, <3>1, <3>2, <4>1, Zenon DEF AskDelete, Ask, Deletes
      <4>3. QED
        BY <4>2, Zenon DEF QueryOutcome
    <3>3. CASE DeleteAt(p) /\ Lost(q, m) /\ Proceed /\ UNCHANGED hits
      <4>1. DeletesUnheard(q, m)
        BY <1>4, <2>2, <3>1, <3>3, Zenon DEF AskDelete, Ask, DeletesUnheard
      <4>2. QED
        BY <4>1, Zenon DEF QueryOutcome
    <3>4. CASE UNCHANGED files /\ Lost(q, m) /\ Proceed /\ UNCHANGED hits
      <4>1. Loses(q, m)
        BY <1>4, <3>4, Zenon DEF AskDelete, Ask, Loses
      <4>2. QED
        BY <4>1, Zenon DEF QueryOutcome
    <3>5. CASE /\ DeleteAt(p)
               /\ hits' = [hits EXCEPT ![q] = IF DeleteOf(p) = "Deleted" THEN @ \cup {m} ELSE @]
               /\ CASE DeleteOf(p) = "unreadable" -> QAnswer(q, 500)
                    [] DeleteOf(p) = "not found" -> Proceed
                    [] DeleteOf(p) = "Deleted" -> AfterDelete(q)
               /\ UNCHANGED lost
      <4>1. DeleteOf(p) # "unreadable" /\ DeleteOf(p) # "not found"
        BY <2>2
      <4>2. Proceed
        BY <2>2, <3>5, <4>1, Zenon DEF AfterDelete
      <4>3. QED
        BY <3>2, <3>5, <4>2, Zenon
    <3>6. QED
      BY <1>4, <3>3, <3>4, <3>5, Zenon DEF AskDelete
  <2>3. CASE DeleteOf(p) # "Deleted"
    <3>1. DeleteAt(p) => UNCHANGED files
      <4>1. DeleteAt(p) => /\ data' = [data EXCEPT ![p] = data[p]]
                           /\ state' = [state EXCEPT ![p] = state[p]]
                           /\ UNCHANGED dir
        BY <2>3, Zenon DEF DeleteAt
      <4>2. QED
        BY <1>0, <4>1, Zenon
    <3>2. CASE UNCHANGED files /\ Lost(q, m) /\ Proceed /\ UNCHANGED hits
      <4>1. Loses(q, m)
        BY <1>4, <3>2, Zenon DEF AskDelete, Ask, Loses
      <4>2. QED
        BY <4>1, Zenon DEF QueryOutcome
    <3>3. CASE /\ DeleteAt(p)
               /\ hits' = [hits EXCEPT ![q] = IF DeleteOf(p) = "Deleted" THEN @ \cup {m} ELSE @]
               /\ CASE DeleteOf(p) = "unreadable" -> QAnswer(q, 500)
                    [] DeleteOf(p) = "not found" -> Proceed
                    [] DeleteOf(p) = "Deleted" -> AfterDelete(q)
               /\ UNCHANGED lost
      <4>1. hits' = hits
        <5>1. hits' = [hits EXCEPT ![q] = hits[q]]
          BY <2>3, <3>3, Zenon
        <5>2. QED
          BY <5>1 DEF Typed, TypeOK
      <4>2. CASE DeleteOf(p) = "unreadable"
        <5>1. DeleteOf(p) # "not found"
          BY <4>2
        <5>2. QAnswer(q, 500)
          BY <2>3, <3>3, <4>2, <5>1, Zenon
        <5>3. 200 # 500 /\ 500 \in {200, 500}
          OBVIOUS
        <5>4. Answers(q, m, 500)
          BY <1>4, <3>1, <3>3, <4>1, <5>2, <5>3, Zenon DEF AskDelete, Ask, Answers
        <5>5. \E k \in {200, 500} : Answers(q, m, k)
          BY <5>4
        <5>6. QED
          BY <5>5, Zenon DEF QueryOutcome
      <4>3. CASE DeleteOf(p) = "not found"
        <5>1. DeleteOf(p) # "unreadable"
          BY <4>3
        <5>2. Proceed
          BY <2>3, <3>3, <4>3, <5>1, Zenon
        <5>3. Misses(q, m)
          BY <1>4, <2>1, <3>1, <3>3, <4>1, <4>3, <5>2, Zenon DEF AskDelete, Ask, Misses
        <5>4. QED
          BY <5>3, Zenon DEF QueryOutcome
      <4>4. QED
        BY <2>1, <2>3, <4>2, <4>3
    <3>4. QED
      BY <1>4, <3>1, <3>2, <3>3, Zenon DEF AskDelete
  <2>4. QED
    BY <2>2, <2>3
<1>5. ASSUME NEW m \in Masters, AskDownload(q, m) PROVE QueryOutcome(q)
  <2> DEFINE r == StatusOf(At(q, m))
  <2>1. CASE NoBundle(q) /\ Lost(q, m) /\ UNCHANGED target
    <3>1. Panics(q, m)
      BY <1>5, <2>1, Zenon DEF AskDownload, Ask, NoBundle, Panics
    <3>2. QED
      BY <3>1, Zenon DEF QueryOutcome
  <2>2. CASE /\ CASE r = "unreadable" -> QAnswer(q, 500) /\ UNCHANGED target
                  [] HasFile(r) ->
                       /\ target' = [target EXCEPT ![q] = m]
                       /\ qpc' = [qpc EXCEPT ![q] = "getfile"]
                       /\ UNCHANGED resp
                  [] OTHER -> Proceed /\ UNCHANGED target
             /\ UNCHANGED lost
    <3>1. CASE r = "unreadable"
      <4>1. ~HasFile(r)
        BY <3>1 DEF HasFile
      <4>2. QAnswer(q, 500) /\ UNCHANGED target
        BY <2>2, <3>1, <4>1, Zenon
      <4>3. 200 # 500 /\ 500 \in {200, 500}
        OBVIOUS
      <4>4. Answers(q, m, 500)
        BY <1>5, <2>2, <4>2, <4>3, Zenon DEF AskDownload, Ask, Answers
      <4>5. \E k \in {200, 500} : Answers(q, m, k)
        BY <4>4
      <4>6. QED
        BY <4>5, Zenon DEF QueryOutcome
    <3>2. CASE HasFile(r)
      <4>1. r # "unreadable"
        BY <3>2 DEF HasFile
      <4>2. target' = [target EXCEPT ![q] = m] /\ qpc' = [qpc EXCEPT ![q] = "getfile"] /\ UNCHANGED resp
        BY <2>2, <3>2, <4>1, Zenon
      <4>3. Finds(q, m)
        BY <1>5, <2>2, <4>2, Zenon DEF AskDownload, Ask, Finds
      <4>4. QED
        BY <4>3, Zenon DEF QueryOutcome
    <3>3. CASE r # "unreadable" /\ ~HasFile(r)
      <4>1. Proceed /\ UNCHANGED target
        BY <2>2, <3>3, Zenon
      <4>2. Misses(q, m)
        BY <1>5, <2>2, <4>1, Zenon DEF AskDownload, Ask, Misses
      <4>3. QED
        BY <4>2, Zenon DEF QueryOutcome
    <3>4. QED
      BY <3>1, <3>2, <3>3
  <2>3. QED
    BY <1>5, <2>1, <2>2, Zenon DEF AskDownload
<1>6. CASE GetFile(q)
  <2>1. CASE ~Gets(q)
    <3> DEFINE L == lost'[q]
    <3>1. qpc[q] = "getfile" /\ QAnswer(q, 500) /\ UNCHANGED served /\ (UNCHANGED lost \/ Lost(q, target[q]))
      BY <1>6, <2>1, Zenon DEF GetFile, Gets
    <3>2. target[q] \in Masters /\ lost \in [Queries -> SUBSET Masters]
      BY <3>1 DEF Typed, TypeOK, Roles
    <3>3. lost' = [lost EXCEPT ![q] = L] /\ L \in SUBSET Masters /\ lost[q] \subseteq L
      BY <3>1, <3>2
    <3> HIDE DEF L
    <3>4. GetFails(q, L)
      BY <1>6, <2>1, <3>1, <3>3, Zenon DEF GetFile, GetFails
    <3>5. QED
      BY <3>3, <3>4, Zenon DEF QueryOutcome
  <2>2. CASE Gets(q)
    BY <2>2, Zenon DEF QueryOutcome
  <2>3. QED
    BY <2>1, <2>2
<1>7. CASE AskedAll(q)
  <2> DEFINE k == IF op[q] = "list" \/ (op[q] = "delete" /\ hits[q] # {}) THEN 200 ELSE 404
  <2>1. k \in {200, 404}
    OBVIOUS
  <2>2. Concludes(q, k)
    BY <1>7, Zenon DEF AskedAll, Concludes
  <2>3. QED
    BY <2>1, <2>2, ZenonT(60) DEF QueryOutcome
<1>8. QED
  BY <1>1, <1>2, <1>3, <1>4, <1>5, <1>6, <1>7, Zenon DEF QueryStep

\* The outcomes are all the steps there are.
LEMMA NextOutcomes ==
  ASSUME Typed, [Next]_vars
  PROVE  \/ \E c \in Creates : CreateOutcome(c)
         \/ \E q \in Queries : QueryOutcome(q)
         \/ UNCHANGED vars
  BY CreateOutcomes, QueryOutcomes, Zenon DEF Next


\* A query changes nothing of what the Creates work on, unless it deletes a bundle.
Rest == UNCHANGED <<dir, state, data, scratch, merged, home, cpc, loc, code, paths, owners, crossed>>
DeletedAt(p) ==
  /\ DeleteOf(p) = "Deleted"
  /\ data' = [data EXCEPT ![p] = "none"]
  /\ state' = [state EXCEPT ![p] = "Deleted"]
  /\ UNCHANGED <<dir, scratch, merged, home, cpc, loc, code, paths, owners, crossed>>

\* What happens to the files of bundles and masters.
LEMMA FileSteps ==
  ASSUME Typed, [Next]_vars
  PROVE  \/ \E c \in Creates : CreateOutcome(c)
         \/ \E p \in Places : DeletedAt(p)
         \/ Rest
<1>1. ASSUME NEW q \in Queries, QueryOutcome(q)
      PROVE  Rest \/ \E p \in Places : DeletedAt(p)
  <2>1. ASSUME NEW m \in Masters, Deletes(q, m) \/ DeletesUnheard(q, m)
        PROVE  \E p \in Places : DeletedAt(p)
    <3>1. DeletedAt(At(q, m))
      BY <2>1, Zenon DEF Deletes, DeletesUnheard, DeletedAt
    <3>2. At(q, m) \in Places
      BY DEF Typed, TypeOK, At, Places
    <3>3. QED
      BY <3>1, <3>2
  <2>2. ASSUME \A m \in Masters : ~Deletes(q, m) /\ ~DeletesUnheard(q, m) PROVE Rest
    BY <1>1, <2>2, Zenon DEF QueryOutcome, Rest, Arrives, ArriveFails, Lists, ListFails, Misses,
       Answers, Loses, Panics, Finds, Gets, GetFails, Concludes
  <2>3. QED
    BY <2>1, <2>2
<1>2. UNCHANGED vars => Rest
  BY Zenon DEF vars, files, creating, work, Rest
<1>3. QED
  BY <1>1, <1>2, NextOutcomes, Zenon

-----------------------------------------------------------------------------
(* Type correctness. *)

\* Initially nothing has been asked for and there is no file.
LEMMA TypedInit == Init => Typed
<1> SUFFICES ASSUME Init PROVE Typed
  OBVIOUS
<1>0. PICK i \in Inputs : home = i.home /\ op = i.op /\ about = i.about
  BY DEF Init
<1>1. TypeOK
  <2>1. home \in [Creates -> Places \cup {NoMaster}] /\ op \in [Queries -> Ops] /\ about \in [Queries -> Ids]
    BY <1>0, InputsAssumption
  <2>2. QED
    BY <2>1, MaxFaultsAssumption DEF Init, TypeOK, Status, Archive
<1>2. Roles
  BY DEF Init, Roles, AtWork
<1>3. QED
  BY <1>1, <1>2 DEF Typed

\* At(q, m) is a place, and a Create at work has a server.
LEMMA PlacesThere ==
  ASSUME TypeOK, Roles
  PROVE  /\ \A q \in Queries, m \in Masters : At(q, m) \in Places
         /\ \A c \in Creates : cpc[c] # "idle" => home[c] \in Places /\ Server(c) \in Masters
  BY DEF TypeOK, Roles, At, Server, Places

\* No step leaves the types.
LEMMA TypeOKStep ==
  ASSUME TypeOK, Roles, [Next]_vars
  PROVE  TypeOK'
<1>0. \/ \E c \in Creates : CreateOutcome(c)
      \/ \E q \in Queries : QueryOutcome(q)
      \/ UNCHANGED vars
  BY NextOutcomes DEF Typed
<1> USE MaxFaultsAssumption, PlacesThere DEF TypeOK, Roles, AtWork, Status, Archive
<1>1. ASSUME NEW c \in Creates, Refused(c) PROVE TypeOK'
  BY <1>1 DEF Refused
<1>2. ASSUME NEW c \in Creates, Admitted(c) PROVE TypeOK'
  BY <1>2 DEF Admitted
<1>3. ASSUME NEW c \in Creates, DirMade(c) PROVE TypeOK'
  BY <1>3 DEF DirMade
<1>4. ASSUME NEW c \in Creates, DirFails(c) PROVE TypeOK'
  BY <1>4 DEF DirFails
<1>5. ASSUME NEW c \in Creates, Opens(c) PROVE TypeOK'
  BY <1>5 DEF Opens
<1>6. ASSUME NEW c \in Creates, NEW step \in {"mkdata", "end"}, Saves(c, step) PROVE TypeOK'
  BY <1>6 DEF Saves
<1>7. ASSUME NEW c \in Creates, NEW k \in {0, 200, 409, 500, 507}, SaveFails(c, k)
      PROVE  TypeOK'
  BY <1>7 DEF SaveFails
<1>8. ASSUME NEW c \in Creates, DataMade(c) PROVE TypeOK'
  BY <1>8 DEF DataMade
<1>9. ASSUME NEW c \in Creates, DataFails(c) PROVE TypeOK'
  BY <1>9 DEF DataFails
<1>10. ASSUME NEW c \in Creates, NodesFound(c) PROVE TypeOK'
  BY <1>10 DEF NodesFound
<1>11. ASSUME NEW c \in Creates, NodesMissed(c) PROVE TypeOK'
  BY <1>11 DEF NodesMissed
<1>12. ASSUME NEW c \in Creates, NEW hurt \in SUBSET Creates, Downloads(c, hurt) PROVE TypeOK'
  <2>1. Server(c) \in Masters /\ hurt \subseteq Creates
    BY <1>12 DEF Downloads
  <2>2. QED
    BY <1>12, <2>1 DEF Downloads
<1>13. ASSUME NEW c \in Creates, Skips(c) PROVE TypeOK'
  BY <1>13 DEF Skips
<1>14. ASSUME NEW c \in Creates, NEW x \in Creates \cup {"torn"}, Downloaded(c, x)
       PROVE  TypeOK'
  BY <1>14 DEF Downloaded
<1>15. ASSUME NEW c \in Creates, DownloadFails(c) PROVE TypeOK'
  BY <1>15 DEF DownloadFails
<1>16. ASSUME NEW c \in Creates, NEW v \in {"whole", "foreign", "unclosed"}, Merges(c, v) PROVE TypeOK'
  BY <1>16 DEF Merges
<1>17. ASSUME NEW c \in Creates, MergeFails(c) PROVE TypeOK'
  BY <1>17 DEF MergeFails
<1>18. ASSUME NEW c \in Creates, Copies(c) PROVE TypeOK'
  BY <1>18 DEF Copies
<1>19. ASSUME NEW c \in Creates, CopyFails(c) PROVE TypeOK'
  BY <1>19 DEF CopyFails
<1>20. ASSUME NEW q \in Queries, NEW B \in SUBSET Masters, NEW R \in SUBSET Masters,
             Arrives(q, B, R)
       PROVE  TypeOK'
  BY <1>20 DEF Arrives
<1>21. ASSUME NEW q \in Queries, NEW B \in SUBSET Masters, NEW R \in SUBSET Masters,
             ArriveFails(q, B, R)
       PROVE  TypeOK'
  BY <1>21 DEF ArriveFails
<1>22. ASSUME NEW q \in Queries, NEW m \in Masters, Lists(q, m) PROVE TypeOK'
  BY <1>22 DEF Lists
<1>23. ASSUME NEW q \in Queries, NEW m \in Masters, ListFails(q, m) PROVE TypeOK'
  BY <1>23 DEF ListFails
<1>24. ASSUME NEW q \in Queries, NEW m \in Masters, Misses(q, m) PROVE TypeOK'
  BY <1>24 DEF Misses
<1>25. ASSUME NEW q \in Queries, NEW m \in Masters, NEW k \in {200, 500}, Answers(q, m, k)
       PROVE  TypeOK'
  BY <1>25 DEF Answers
<1>26. ASSUME NEW q \in Queries, NEW m \in Masters, Loses(q, m) PROVE TypeOK'
  BY <1>26 DEF Loses
<1>27. ASSUME NEW q \in Queries, NEW m \in Masters, Panics(q, m) PROVE TypeOK'
  BY <1>27 DEF Panics
<1>28. ASSUME NEW q \in Queries, NEW m \in Masters, Deletes(q, m) PROVE TypeOK'
  BY <1>28 DEF Deletes
<1>29. ASSUME NEW q \in Queries, NEW m \in Masters, DeletesUnheard(q, m) PROVE TypeOK'
  BY <1>29 DEF DeletesUnheard
<1>30. ASSUME NEW q \in Queries, NEW m \in Masters, Finds(q, m) PROVE TypeOK'
  BY <1>30 DEF Finds
<1>31. ASSUME NEW q \in Queries, Gets(q) PROVE TypeOK'
  <2>1. FileOf(At(q, target[q])) \in Archive
    <3>1. At(q, target[q]) \in Places /\ FileOf(At(q, target[q])) # "none"
      BY <1>31 DEF Gets
    <3>2. FileOf(At(q, target[q])) = data[At(q, target[q])]
      BY <3>1, WhatIsDelivered DEF Typed
    <3>3. QED
      BY <3>1, <3>2
  <2>2. QED
    BY <1>31, <2>1 DEF Gets
<1>32. ASSUME NEW q \in Queries, NEW L \in SUBSET Masters, GetFails(q, L) PROVE TypeOK'
  BY <1>32 DEF GetFails
<1>33. ASSUME NEW q \in Queries, NEW k \in {200, 404}, Concludes(q, k) PROVE TypeOK'
  BY <1>33 DEF Concludes
<1>34. CASE UNCHANGED vars
  BY <1>34 DEF vars, files, creating, work, asking
<1> HIDE MaxFaultsAssumption, PlacesThere DEF TypeOK, Roles, AtWork, Status
<1>35. ASSUME NEW c \in Creates, CreateOutcome(c) PROVE TypeOK'
  BY <1>35, <1>1, <1>2, <1>3, <1>4, <1>5, <1>6, <1>7, <1>8, <1>9, <1>10, <1>11, <1>12, <1>13,
     <1>14, <1>15, <1>16, <1>17, <1>18, <1>19 DEF CreateOutcome
<1>36. ASSUME NEW q \in Queries, QueryOutcome(q) PROVE TypeOK'
  BY <1>36, <1>20, <1>21, <1>22, <1>23, <1>24, <1>25, <1>26, <1>27, <1>28, <1>29, <1>30,
     <1>31, <1>32, <1>33 DEF QueryOutcome
<1>37. QED
  BY <1>0, <1>35, <1>36, <1>34, Zenon


\* No step leaves its role.
LEMMA RolesStep ==
  ASSUME TypeOK, Roles, [Next]_vars
  PROVE  Roles'
<1>0. \/ \E c \in Creates : CreateOutcome(c)
      \/ \E q \in Queries : QueryOutcome(q)
      \/ UNCHANGED vars
  BY NextOutcomes DEF Typed
<1> USE PlacesThere DEF TypeOK, Roles, AtWork, Status
<1>1. ASSUME NEW c \in Creates, Refused(c) PROVE Roles'
  BY <1>1 DEF Refused
<1>2. ASSUME NEW c \in Creates, Admitted(c) PROVE Roles'
  BY <1>2 DEF Admitted
<1>3. ASSUME NEW c \in Creates, DirMade(c) PROVE Roles'
  BY <1>3 DEF DirMade
<1>4. ASSUME NEW c \in Creates, DirFails(c) PROVE Roles'
  BY <1>4 DEF DirFails
<1>5. ASSUME NEW c \in Creates, Opens(c) PROVE Roles'
  BY <1>5 DEF Opens
<1>6. ASSUME NEW c \in Creates, NEW step \in {"mkdata", "end"}, Saves(c, step) PROVE Roles'
  BY <1>6 DEF Saves
<1>7. ASSUME NEW c \in Creates, NEW k \in {0, 200, 409, 500, 507}, SaveFails(c, k) PROVE Roles'
  BY <1>7 DEF SaveFails
<1>8. ASSUME NEW c \in Creates, DataMade(c) PROVE Roles'
  BY <1>8 DEF DataMade
<1>9. ASSUME NEW c \in Creates, DataFails(c) PROVE Roles'
  BY <1>9 DEF DataFails
<1>10. ASSUME NEW c \in Creates, NodesFound(c) PROVE Roles'
  BY <1>10 DEF NodesFound
<1>11. ASSUME NEW c \in Creates, NodesMissed(c) PROVE Roles'
  BY <1>11 DEF NodesMissed
<1>12. ASSUME NEW c \in Creates, NEW hurt \in SUBSET Creates, Downloads(c, hurt) PROVE Roles'
  BY <1>12 DEF Downloads
<1>13. ASSUME NEW c \in Creates, Skips(c) PROVE Roles'
  BY <1>13 DEF Skips
<1>14. ASSUME NEW c \in Creates, NEW x \in Creates \cup {"torn"}, Downloaded(c, x) PROVE Roles'
  BY <1>14 DEF Downloaded
<1>15. ASSUME NEW c \in Creates, DownloadFails(c) PROVE Roles'
  BY <1>15 DEF DownloadFails
<1>16. ASSUME NEW c \in Creates, NEW v \in {"whole", "foreign", "unclosed"}, Merges(c, v) PROVE Roles'
  BY <1>16 DEF Merges
<1>17. ASSUME NEW c \in Creates, MergeFails(c) PROVE Roles'
  BY <1>17 DEF MergeFails
<1>18. ASSUME NEW c \in Creates, Copies(c) PROVE Roles'
  BY <1>18 DEF Copies
<1>19. ASSUME NEW c \in Creates, CopyFails(c) PROVE Roles'
  BY <1>19 DEF CopyFails
<1>20. ASSUME NEW q \in Queries, NEW B \in SUBSET Masters, NEW R \in SUBSET Masters,
             Arrives(q, B, R)
       PROVE  Roles'
  BY <1>20 DEF Arrives
<1>21. ASSUME NEW q \in Queries, NEW B \in SUBSET Masters, NEW R \in SUBSET Masters,
             ArriveFails(q, B, R)
       PROVE  Roles'
  BY <1>21 DEF ArriveFails
<1>22. ASSUME NEW q \in Queries, NEW m \in Masters, Lists(q, m) PROVE Roles'
  BY <1>22 DEF Lists
<1>23. ASSUME NEW q \in Queries, NEW m \in Masters, ListFails(q, m) PROVE Roles'
  BY <1>23 DEF ListFails
<1>24. ASSUME NEW q \in Queries, NEW m \in Masters, Misses(q, m) PROVE Roles'
  BY <1>24 DEF Misses
<1>25. ASSUME NEW q \in Queries, NEW m \in Masters, NEW k \in {200, 500}, Answers(q, m, k)
       PROVE  Roles'
  BY <1>25 DEF Answers
<1>26. ASSUME NEW q \in Queries, NEW m \in Masters, Loses(q, m) PROVE Roles'
  BY <1>26 DEF Loses
<1>27. ASSUME NEW q \in Queries, NEW m \in Masters, Panics(q, m) PROVE Roles'
  BY <1>27 DEF Panics
<1>28. ASSUME NEW q \in Queries, NEW m \in Masters, Deletes(q, m) PROVE Roles'
  BY <1>28 DEF Deletes
<1>29. ASSUME NEW q \in Queries, NEW m \in Masters, DeletesUnheard(q, m) PROVE Roles'
  BY <1>29 DEF DeletesUnheard
<1>30. ASSUME NEW q \in Queries, NEW m \in Masters, Finds(q, m) PROVE Roles'
  BY <1>30 DEF Finds
<1>31. ASSUME NEW q \in Queries, Gets(q) PROVE Roles'
  BY <1>31 DEF Gets
<1>32. ASSUME NEW q \in Queries, NEW L \in SUBSET Masters, GetFails(q, L) PROVE Roles'
  BY <1>32 DEF GetFails
<1>33. ASSUME NEW q \in Queries, NEW k \in {200, 404}, Concludes(q, k) PROVE Roles'
  BY <1>33 DEF Concludes
<1>34. CASE UNCHANGED vars
  BY <1>34 DEF vars, files, creating, work, asking
<1> HIDE PlacesThere DEF TypeOK, Roles, AtWork, Status
<1>35. ASSUME NEW c \in Creates, CreateOutcome(c) PROVE Roles'
  BY <1>35, <1>1, <1>2, <1>3, <1>4, <1>5, <1>6, <1>7, <1>8, <1>9, <1>10, <1>11, <1>12, <1>13,
     <1>14, <1>15, <1>16, <1>17, <1>18, <1>19 DEF CreateOutcome
<1>36. ASSUME NEW q \in Queries, QueryOutcome(q) PROVE Roles'
  BY <1>36, <1>20, <1>21, <1>22, <1>23, <1>24, <1>25, <1>26, <1>27, <1>28, <1>29, <1>30,
     <1>31, <1>32, <1>33 DEF QueryOutcome
<1>37. QED
  BY <1>0, <1>35, <1>36, <1>34, Zenon


\* Types and roles are inductive together.
LEMMA TypedStep == Typed /\ [Next]_vars => Typed'
  BY TypeOKStep, RolesStep DEF Typed

\* The variables keep their types: every file, status and HTTP code is one the code
\* of api/rest/cluster_bundle_handler.go can produce.
THEOREM TypeCorrect == Spec => []TypeOK
<1>1. Typed => TypeOK
  BY DEF Typed
<1>2. QED
  BY <1>1, TypedInit, TypedStep, PTL DEF Spec

-----------------------------------------------------------------------------
(* The files. *)

\* A Create owns its bundle from MkdirAll on.
LEMMA OwnedStep ==
  ASSUME Typed, Owned, [Next]_vars
  PROVE  Owned'
<1>0. (\E c \in Creates : CreateOutcome(c)) \/ (\E p \in Places : DeletedAt(p)) \/ Rest
  BY FileSteps
<1> USE DEF Typed, TypeOK, Roles, AtWork, Writes, Owned
<1>1. ASSUME NEW c \in Creates, Refused(c) PROVE Owned'
  BY <1>1 DEF Refused
<1>2. ASSUME NEW c \in Creates, Admitted(c) PROVE Owned'
  BY <1>2 DEF Admitted
<1>3. ASSUME NEW c \in Creates, DirMade(c) PROVE Owned'
  BY <1>3 DEF DirMade
<1>4. ASSUME NEW c \in Creates, DirFails(c) PROVE Owned'
  BY <1>4 DEF DirFails
<1>5. ASSUME NEW c \in Creates, Opens(c) PROVE Owned'
  BY <1>5 DEF Opens
<1>6. ASSUME NEW c \in Creates, NEW step \in {"mkdata", "end"}, Saves(c, step) PROVE Owned'
  BY <1>6 DEF Saves
<1>7. ASSUME NEW c \in Creates, NEW k \in {0, 200, 409, 500, 507}, SaveFails(c, k) PROVE Owned'
  BY <1>7 DEF SaveFails
<1>8. ASSUME NEW c \in Creates, DataMade(c) PROVE Owned'
  BY <1>8 DEF DataMade
<1>9. ASSUME NEW c \in Creates, DataFails(c) PROVE Owned'
  BY <1>9 DEF DataFails
<1>10. ASSUME NEW c \in Creates, NodesFound(c) PROVE Owned'
  BY <1>10 DEF NodesFound
<1>11. ASSUME NEW c \in Creates, NodesMissed(c) PROVE Owned'
  BY <1>11 DEF NodesMissed
<1>12. ASSUME NEW c \in Creates, NEW hurt \in SUBSET Creates, Downloads(c, hurt) PROVE Owned'
  BY <1>12 DEF Downloads
<1>13. ASSUME NEW c \in Creates, Skips(c) PROVE Owned'
  BY <1>13 DEF Skips
<1>14. ASSUME NEW c \in Creates, NEW x \in Creates \cup {"torn"}, Downloaded(c, x) PROVE Owned'
  BY <1>14 DEF Downloaded
<1>15. ASSUME NEW c \in Creates, DownloadFails(c) PROVE Owned'
  BY <1>15 DEF DownloadFails
<1>16. ASSUME NEW c \in Creates, NEW v \in {"whole", "foreign", "unclosed"}, Merges(c, v) PROVE Owned'
  BY <1>16 DEF Merges
<1>17. ASSUME NEW c \in Creates, MergeFails(c) PROVE Owned'
  BY <1>17 DEF MergeFails
<1>18. ASSUME NEW c \in Creates, Copies(c) PROVE Owned'
  BY <1>18 DEF Copies
<1>19. ASSUME NEW c \in Creates, CopyFails(c) PROVE Owned'
  BY <1>19 DEF CopyFails
<1>20. ASSUME NEW p \in Places, DeletedAt(p) PROVE Owned'
  <2>1. dir[p] /\ state[p] \in {"Started", "Done", "Deleted", "Failed"}
    BY <1>20, WhatMastersSay DEF DeletedAt, Status
  <2>2. QED
    BY <1>20, <2>1 DEF DeletedAt
<1>21. CASE Rest
  BY <1>21 DEF Rest
<1> HIDE DEF Typed, TypeOK, Roles, AtWork, Writes, Owned
<1>22. ASSUME NEW c \in Creates, CreateOutcome(c) PROVE Owned'
  BY <1>22, <1>1, <1>2, <1>3, <1>4, <1>5, <1>6, <1>7, <1>8, <1>9, <1>10, <1>11, <1>12, <1>13,
     <1>14, <1>15, <1>16, <1>17, <1>18, <1>19 DEF CreateOutcome
<1>23. QED
  BY <1>0, <1>22, <1>20, <1>21, Zenon

\* Nobody else writes the state file of a bundle with one owner.
LEMMA SavedStep ==
  ASSUME Typed, Owned, Saved, [Next]_vars
  PROVE  Saved'
<1>0. (\E c \in Creates : CreateOutcome(c)) \/ (\E p \in Places : DeletedAt(p)) \/ Rest
  BY FileSteps
<1> USE DEF Typed, TypeOK, Roles, AtWork, Writes, Owned, Saved, Sole
<1>1. ASSUME NEW c \in Creates, Refused(c) PROVE Saved'
  BY <1>1 DEF Refused
<1>2. ASSUME NEW c \in Creates, Admitted(c) PROVE Saved'
  BY <1>2 DEF Admitted
<1>3. ASSUME NEW c \in Creates, DirMade(c) PROVE Saved'
  BY <1>3 DEF DirMade
<1>4. ASSUME NEW c \in Creates, DirFails(c) PROVE Saved'
  BY <1>4 DEF DirFails
<1>5. ASSUME NEW c \in Creates, Opens(c) PROVE Saved'
  BY <1>5 DEF Opens
<1>6. ASSUME NEW c \in Creates, NEW step \in {"mkdata", "end"}, Saves(c, step) PROVE Saved'
  BY <1>6 DEF Saves
<1>7. ASSUME NEW c \in Creates, NEW k \in {0, 200, 409, 500, 507}, SaveFails(c, k) PROVE Saved'
  BY <1>7 DEF SaveFails
<1>8. ASSUME NEW c \in Creates, DataMade(c) PROVE Saved'
  BY <1>8 DEF DataMade
<1>9. ASSUME NEW c \in Creates, DataFails(c) PROVE Saved'
  BY <1>9 DEF DataFails
<1>10. ASSUME NEW c \in Creates, NodesFound(c) PROVE Saved'
  BY <1>10 DEF NodesFound
<1>11. ASSUME NEW c \in Creates, NodesMissed(c) PROVE Saved'
  BY <1>11 DEF NodesMissed
<1>12. ASSUME NEW c \in Creates, NEW hurt \in SUBSET Creates, Downloads(c, hurt) PROVE Saved'
  BY <1>12 DEF Downloads
<1>13. ASSUME NEW c \in Creates, Skips(c) PROVE Saved'
  BY <1>13 DEF Skips
<1>14. ASSUME NEW c \in Creates, NEW x \in Creates \cup {"torn"}, Downloaded(c, x) PROVE Saved'
  BY <1>14 DEF Downloaded
<1>15. ASSUME NEW c \in Creates, DownloadFails(c) PROVE Saved'
  BY <1>15 DEF DownloadFails
<1>16. ASSUME NEW c \in Creates, NEW v \in {"whole", "foreign", "unclosed"}, Merges(c, v) PROVE Saved'
  BY <1>16 DEF Merges
<1>17. ASSUME NEW c \in Creates, MergeFails(c) PROVE Saved'
  BY <1>17 DEF MergeFails
<1>18. ASSUME NEW c \in Creates, Copies(c) PROVE Saved'
  BY <1>18 DEF Copies
<1>19. ASSUME NEW c \in Creates, CopyFails(c) PROVE Saved'
  BY <1>19 DEF CopyFails
<1>20. ASSUME NEW p \in Places, DeletedAt(p) PROVE Saved'
  <2>1. dir[p] /\ state[p] \in {"Started", "Done", "Deleted", "Failed"}
    BY <1>20, WhatMastersSay DEF DeletedAt, Status
  <2>2. QED
    BY <1>20, <2>1 DEF DeletedAt
<1>21. CASE Rest
  BY <1>21 DEF Rest
<1> HIDE DEF Typed, TypeOK, Roles, AtWork, Writes, Owned, Saved, Sole
<1>22. ASSUME NEW c \in Creates, CreateOutcome(c) PROVE Saved'
  BY <1>22, <1>1, <1>2, <1>3, <1>4, <1>5, <1>6, <1>7, <1>8, <1>9, <1>10, <1>11, <1>12, <1>13,
     <1>14, <1>15, <1>16, <1>17, <1>18, <1>19 DEF CreateOutcome
<1>23. QED
  BY <1>0, <1>22, <1>20, <1>21, Zenon

\* A download that begins crosses all that go on or wait.
LEMMA CrossingStep ==
  ASSUME Typed, Crossing, Own, [Next]_vars
  PROVE  Crossing'
<1>0. (\E c \in Creates : CreateOutcome(c)) \/ (\E p \in Places : DeletedAt(p)) \/ Rest
  BY FileSteps
<1> USE DEF Typed, TypeOK, Roles, AtWork, Writes, Crossing, Own, Server
<1>1. ASSUME NEW c \in Creates, Refused(c) PROVE Crossing'
  BY <1>1 DEF Refused
<1>2. ASSUME NEW c \in Creates, Admitted(c) PROVE Crossing'
  BY <1>2 DEF Admitted
<1>3. ASSUME NEW c \in Creates, DirMade(c) PROVE Crossing'
  BY <1>3 DEF DirMade
<1>4. ASSUME NEW c \in Creates, DirFails(c) PROVE Crossing'
  BY <1>4 DEF DirFails
<1>5. ASSUME NEW c \in Creates, Opens(c) PROVE Crossing'
  BY <1>5 DEF Opens
<1>6. ASSUME NEW c \in Creates, NEW step \in {"mkdata", "end"}, Saves(c, step) PROVE Crossing'
  BY <1>6 DEF Saves
<1>7. ASSUME NEW c \in Creates, NEW k \in {0, 200, 409, 500, 507}, SaveFails(c, k)
      PROVE  Crossing'
  BY <1>7 DEF SaveFails
<1>8. ASSUME NEW c \in Creates, DataMade(c) PROVE Crossing'
  BY <1>8 DEF DataMade
<1>9. ASSUME NEW c \in Creates, DataFails(c) PROVE Crossing'
  BY <1>9 DEF DataFails
<1>10. ASSUME NEW c \in Creates, NodesFound(c) PROVE Crossing'
  BY <1>10 DEF NodesFound
<1>11. ASSUME NEW c \in Creates, NodesMissed(c) PROVE Crossing'
  BY <1>11 DEF NodesMissed
<1>12. ASSUME NEW c \in Creates, NEW hurt \in SUBSET Creates, Downloads(c, hurt)
       PROVE  Crossing'
  <2> SUFFICES ASSUME NEW e \in Creates, NEW d \in Creates,
                      e # d, home'[e] # NoMaster, home'[d] # NoMaster, Server(e)' = Server(d)',
                      cpc'[d] = "download",
                      cpc'[e] = "download" \/ (cpc'[e] = "merge" /\ paths'[e])
               PROVE  e \in crossed'
    BY DEF Crossing
  <2>1. crossed' = crossed \cup hurt /\ home' = home /\ paths' = paths
    BY <1>12 DEF Downloads
  <2>2. \A f \in Creates : f # c => cpc'[f] = cpc[f]
    BY <1>12 DEF Downloads
  <2>3. home[e] # NoMaster /\ home[d] # NoMaster
    BY <2>1
  <2>4. CASE c = d
    <3>1. e \in Neighbours(c)
      BY <2>1, <2>3, <2>4 DEF Neighbours
    <3>2. QED
      BY <1>12, <2>1, <2>2, <2>4, <3>1 DEF Downloads
  <2>5. CASE c = e
    <3>1. d \in Neighbours(c)
      BY <2>1, <2>3, <2>5 DEF Neighbours
    <3>2. QED
      BY <1>12, <2>1, <2>2, <2>5, <3>1 DEF Downloads
  <2>6. CASE c # d /\ c # e
    BY <2>1, <2>2, <2>6
  <2>7. QED
    BY <2>4, <2>5, <2>6
<1>13. ASSUME NEW c \in Creates, Skips(c) PROVE Crossing'
  BY <1>13, SMTT(30) DEF Skips
<1>14. ASSUME NEW c \in Creates, NEW x \in Creates \cup {"torn"}, Downloaded(c, x)
       PROVE  Crossing'
  BY <1>14 DEF Downloaded
<1>15. ASSUME NEW c \in Creates, DownloadFails(c) PROVE Crossing'
  BY <1>15 DEF DownloadFails
<1>16. ASSUME NEW c \in Creates, NEW v \in {"whole", "foreign", "unclosed"}, Merges(c, v) PROVE Crossing'
  BY <1>16 DEF Merges
<1>17. ASSUME NEW c \in Creates, MergeFails(c) PROVE Crossing'
  BY <1>17 DEF MergeFails
<1>18. ASSUME NEW c \in Creates, Copies(c) PROVE Crossing'
  BY <1>18 DEF Copies
<1>19. ASSUME NEW c \in Creates, CopyFails(c) PROVE Crossing'
  BY <1>19 DEF CopyFails
<1>20. ASSUME NEW p \in Places, DeletedAt(p) PROVE Crossing'
  <2>1. dir[p] /\ state[p] \in {"Started", "Done", "Deleted", "Failed"}
    BY <1>20, WhatMastersSay DEF DeletedAt, Status
  <2>2. QED
    BY <1>20, <2>1 DEF DeletedAt
<1>21. CASE Rest
  BY <1>21 DEF Rest
<1> HIDE DEF Typed, TypeOK, Roles, AtWork, Writes, Crossing, Own, Server
<1>22. ASSUME NEW c \in Creates, CreateOutcome(c) PROVE Crossing'
  BY <1>22, <1>1, <1>2, <1>3, <1>4, <1>5, <1>6, <1>7, <1>8, <1>9, <1>10, <1>11, <1>12, <1>13,
     <1>14, <1>15, <1>16, <1>17, <1>18, <1>19 DEF CreateOutcome
<1>23. QED
  BY <1>0, <1>22, <1>20, <1>21, Zenon

\* Only a download of a Create that crosses it replaces an archive.
LEMMA OwnStep ==
  ASSUME Typed, Crossing, Own, [Next]_vars
  PROVE  Own'
<1>0. (\E c \in Creates : CreateOutcome(c)) \/ (\E p \in Places : DeletedAt(p)) \/ Rest
  BY FileSteps
<1> USE DEF Typed, TypeOK, Roles, AtWork, Writes, Crossing, Own, Server
<1>1. ASSUME NEW c \in Creates, Refused(c) PROVE Own'
  BY <1>1 DEF Refused
<1>2. ASSUME NEW c \in Creates, Admitted(c) PROVE Own'
  BY <1>2 DEF Admitted
<1>3. ASSUME NEW c \in Creates, DirMade(c) PROVE Own'
  BY <1>3 DEF DirMade
<1>4. ASSUME NEW c \in Creates, DirFails(c) PROVE Own'
  BY <1>4 DEF DirFails
<1>5. ASSUME NEW c \in Creates, Opens(c) PROVE Own'
  BY <1>5 DEF Opens
<1>6. ASSUME NEW c \in Creates, NEW step \in {"mkdata", "end"}, Saves(c, step) PROVE Own'
  BY <1>6 DEF Saves
<1>7. ASSUME NEW c \in Creates, NEW k \in {0, 200, 409, 500, 507}, SaveFails(c, k) PROVE Own'
  BY <1>7 DEF SaveFails
<1>8. ASSUME NEW c \in Creates, DataMade(c) PROVE Own'
  BY <1>8 DEF DataMade
<1>9. ASSUME NEW c \in Creates, DataFails(c) PROVE Own'
  BY <1>9 DEF DataFails
<1>10. ASSUME NEW c \in Creates, NodesFound(c) PROVE Own'
  BY <1>10 DEF NodesFound
<1>11. ASSUME NEW c \in Creates, NodesMissed(c) PROVE Own'
  BY <1>11 DEF NodesMissed
<1>12. ASSUME NEW c \in Creates, NEW hurt \in SUBSET Creates, Downloads(c, hurt) PROVE Own'
  <2>1. \A e \in Creates : cpc[e] = "merge" /\ paths[e] /\ Server(e) = Server(c) => e \in hurt
    <3> SUFFICES ASSUME NEW e \in Creates, cpc[e] = "merge", paths[e], Server(e) = Server(c)
                 PROVE  e \in hurt
      OBVIOUS
    <3>1. e \in Neighbours(c)
      <4>1. e # c /\ home[e] # NoMaster
        BY <1>12 DEF Downloads
      <4>2. QED
        BY <4>1 DEF Neighbours
    <3>2. QED
      BY <1>12, <3>1 DEF Downloads
  <2>2. Server(c) \in Masters /\ \A e \in Creates : cpc[e] = "merge" => Server(e) \in Masters
    BY <1>12, PlacesThere DEF Downloads
  <2>3. QED
    BY <1>12, <2>1, <2>2 DEF Downloads
<1>13. ASSUME NEW c \in Creates, Skips(c) PROVE Own'
  BY <1>13 DEF Skips
<1>14. ASSUME NEW c \in Creates, NEW x \in Creates \cup {"torn"}, Downloaded(c, x) PROVE Own'
  <2>1. \A e \in Creates : e # c /\ cpc[e] = "merge" /\ paths[e] /\ Server(e) = Server(c) => e \in crossed
    BY <1>14 DEF Downloaded
  <2>2. Server(c) \in Masters /\ \A e \in Creates : cpc[e] = "merge" => Server(e) \in Masters
    BY <1>14, PlacesThere DEF Downloaded
  <2>3. QED
    BY <1>14, <2>1, <2>2 DEF Downloaded
<1>15. ASSUME NEW c \in Creates, DownloadFails(c) PROVE Own'
  BY <1>15 DEF DownloadFails
<1>16. ASSUME NEW c \in Creates, NEW v \in {"whole", "foreign", "unclosed"}, Merges(c, v) PROVE Own'
  BY <1>16 DEF Merges
<1>17. ASSUME NEW c \in Creates, MergeFails(c) PROVE Own'
  BY <1>17 DEF MergeFails
<1>18. ASSUME NEW c \in Creates, Copies(c) PROVE Own'
  BY <1>18 DEF Copies
<1>19. ASSUME NEW c \in Creates, CopyFails(c) PROVE Own'
  BY <1>19 DEF CopyFails
<1>20. ASSUME NEW p \in Places, DeletedAt(p) PROVE Own'
  <2>1. dir[p] /\ state[p] \in {"Started", "Done", "Deleted", "Failed"}
    BY <1>20, WhatMastersSay DEF DeletedAt, Status
  <2>2. QED
    BY <1>20, <2>1 DEF DeletedAt
<1>21. CASE Rest
  BY <1>21 DEF Rest
<1> HIDE DEF Typed, TypeOK, Roles, AtWork, Writes, Crossing, Own, Server
<1>22. ASSUME NEW c \in Creates, CreateOutcome(c) PROVE Own'
  BY <1>22, <1>1, <1>2, <1>3, <1>4, <1>5, <1>6, <1>7, <1>8, <1>9, <1>10, <1>11, <1>12, <1>13,
     <1>14, <1>15, <1>16, <1>17, <1>18, <1>19 DEF CreateOutcome
<1>23. QED
  BY <1>0, <1>22, <1>20, <1>21, Zenon

\* An archive is merged and copied by its owner only.
LEMMA MovedStep ==
  ASSUME Typed, Owned, Saved, Own, Moved, [Next]_vars
  PROVE  Moved'
<1>0. (\E c \in Creates : CreateOutcome(c)) \/ (\E p \in Places : DeletedAt(p)) \/ Rest
  BY FileSteps
<1> USE DEF Typed, TypeOK, Roles, AtWork, Writes, Owned, Saved, Own, Moved, Fits, Sole
<1>1. ASSUME NEW c \in Creates, Refused(c) PROVE Moved'
  BY <1>1 DEF Refused
<1>2. ASSUME NEW c \in Creates, Admitted(c) PROVE Moved'
  BY <1>2 DEF Admitted
<1>3. ASSUME NEW c \in Creates, DirMade(c) PROVE Moved'
  BY <1>3 DEF DirMade
<1>4. ASSUME NEW c \in Creates, DirFails(c) PROVE Moved'
  BY <1>4 DEF DirFails
<1>5. ASSUME NEW c \in Creates, Opens(c) PROVE Moved'
  BY <1>5 DEF Opens
<1>6. ASSUME NEW c \in Creates, NEW step \in {"mkdata", "end"}, Saves(c, step) PROVE Moved'
  BY <1>6 DEF Saves
<1>7. ASSUME NEW c \in Creates, NEW k \in {0, 200, 409, 500, 507}, SaveFails(c, k) PROVE Moved'
  BY <1>7 DEF SaveFails
<1>8. ASSUME NEW c \in Creates, DataMade(c) PROVE Moved'
  BY <1>8 DEF DataMade
<1>9. ASSUME NEW c \in Creates, DataFails(c) PROVE Moved'
  BY <1>9 DEF DataFails
<1>10. ASSUME NEW c \in Creates, NodesFound(c) PROVE Moved'
  BY <1>10 DEF NodesFound
<1>11. ASSUME NEW c \in Creates, NodesMissed(c) PROVE Moved'
  BY <1>11 DEF NodesMissed
<1>12. ASSUME NEW c \in Creates, NEW hurt \in SUBSET Creates, Downloads(c, hurt) PROVE Moved'
  BY <1>12 DEF Downloads
<1>13. ASSUME NEW c \in Creates, Skips(c) PROVE Moved'
  BY <1>13 DEF Skips
<1>14. ASSUME NEW c \in Creates, NEW x \in Creates \cup {"torn"}, Downloaded(c, x) PROVE Moved'
  BY <1>14 DEF Downloaded
<1>15. ASSUME NEW c \in Creates, DownloadFails(c) PROVE Moved'
  BY <1>15 DEF DownloadFails
<1>16. ASSUME NEW c \in Creates, NEW v \in {"whole", "foreign", "unclosed"}, Merges(c, v) PROVE Moved'
  BY <1>16 DEF Merges
<1>17. ASSUME NEW c \in Creates, MergeFails(c) PROVE Moved'
  BY <1>17 DEF MergeFails
<1>18. ASSUME NEW c \in Creates, Copies(c) PROVE Moved'
  BY <1>18 DEF Copies
<1>19. ASSUME NEW c \in Creates, CopyFails(c) PROVE Moved'
  BY <1>19 DEF CopyFails
<1>20. ASSUME NEW p \in Places, DeletedAt(p) PROVE Moved'
  <2>1. dir[p] /\ state[p] \in {"Started", "Done", "Deleted", "Failed"}
    BY <1>20, WhatMastersSay DEF DeletedAt, Status
  <2>2. QED
    BY <1>20, <2>1 DEF DeletedAt
<1>21. CASE Rest
  BY <1>21 DEF Rest
<1> HIDE DEF Typed, TypeOK, Roles, AtWork, Writes, Owned, Saved, Own, Moved, Fits, Sole
<1>22. ASSUME NEW c \in Creates, CreateOutcome(c) PROVE Moved'
  BY <1>22, <1>1, <1>2, <1>3, <1>4, <1>5, <1>6, <1>7, <1>8, <1>9, <1>10, <1>11, <1>12, <1>13,
     <1>14, <1>15, <1>16, <1>17, <1>18, <1>19 DEF CreateOutcome
<1>23. QED
  BY <1>0, <1>22, <1>20, <1>21, Zenon

-----------------------------------------------------------------------------
(* The queries. *)

\* What a query sees of the Creates: directories, owners and crossings stay, and the
\* files of a bundle change only while an owner of it is at work.
Aside ==
  /\ UNCHANGED <<op, about, qpc, todo, hits, target, resp, served, before, ready, lost, home>>
  /\ \A p \in Places : dir[p] => dir'[p]
  /\ owners \subseteq owners' /\ crossed \subseteq crossed'
  /\ \A c \in Creates : cpc[c] = "end" => cpc'[c] = "end"
  /\ \A p \in Places : \/ state'[p] = state[p] /\ data'[p] = data[p]
                       \/ \E c \in owners : home[c] = p /\ cpc[c] # "end"

\* No step of a Create is more to a query.
LEMMA CreatesAside ==
  ASSUME Typed, Owned, NEW e \in Creates, CreateOutcome(e)
  PROVE  Aside
<1> USE DEF Typed, TypeOK, Roles, Owned, AtWork, Writes, Aside
<1>1. ASSUME NEW c \in Creates, Refused(c) PROVE Aside
  BY <1>1 DEF Refused
<1>2. ASSUME NEW c \in Creates, Admitted(c) PROVE Aside
  BY <1>2 DEF Admitted
<1>3. ASSUME NEW c \in Creates, DirMade(c) PROVE Aside
  BY <1>3 DEF DirMade
<1>4. ASSUME NEW c \in Creates, DirFails(c) PROVE Aside
  BY <1>4 DEF DirFails
<1>5. ASSUME NEW c \in Creates, Opens(c) PROVE Aside
  BY <1>5 DEF Opens
<1>6. ASSUME NEW c \in Creates, NEW step \in {"mkdata", "end"}, Saves(c, step) PROVE Aside
  BY <1>6 DEF Saves
<1>7. ASSUME NEW c \in Creates, NEW k \in {0, 200, 409, 500, 507}, SaveFails(c, k) PROVE Aside
  BY <1>7 DEF SaveFails
<1>8. ASSUME NEW c \in Creates, DataMade(c) PROVE Aside
  BY <1>8 DEF DataMade
<1>9. ASSUME NEW c \in Creates, DataFails(c) PROVE Aside
  BY <1>9 DEF DataFails
<1>10. ASSUME NEW c \in Creates, NodesFound(c) PROVE Aside
  BY <1>10 DEF NodesFound
<1>11. ASSUME NEW c \in Creates, NodesMissed(c) PROVE Aside
  BY <1>11 DEF NodesMissed
<1>12. ASSUME NEW c \in Creates, NEW hurt \in SUBSET Creates, Downloads(c, hurt) PROVE Aside
  BY <1>12 DEF Downloads
<1>13. ASSUME NEW c \in Creates, Skips(c) PROVE Aside
  BY <1>13 DEF Skips
<1>14. ASSUME NEW c \in Creates, NEW x \in Creates \cup {"torn"}, Downloaded(c, x) PROVE Aside
  BY <1>14 DEF Downloaded
<1>15. ASSUME NEW c \in Creates, DownloadFails(c) PROVE Aside
  BY <1>15 DEF DownloadFails
<1>16. ASSUME NEW c \in Creates, NEW v \in {"whole", "foreign", "unclosed"}, Merges(c, v) PROVE Aside
  BY <1>16 DEF Merges
<1>17. ASSUME NEW c \in Creates, MergeFails(c) PROVE Aside
  BY <1>17 DEF MergeFails
<1>18. ASSUME NEW c \in Creates, Copies(c) PROVE Aside
  BY <1>18 DEF Copies
<1>19. ASSUME NEW c \in Creates, CopyFails(c) PROVE Aside
  BY <1>19 DEF CopyFails
<1> HIDE DEF Typed, TypeOK, Roles, Owned, AtWork, Writes, Aside
<1>20. ASSUME NEW c \in Creates, CreateOutcome(c) PROVE Aside
  BY <1>20, <1>1, <1>2, <1>3, <1>4, <1>5, <1>6, <1>7, <1>8, <1>9, <1>10, <1>11, <1>12, <1>13,
     <1>14, <1>15, <1>16, <1>17, <1>18, <1>19 DEF CreateOutcome
<1>21. QED
  BY <1>20


\* What happens to the queries.
LEMMA QuerySteps ==
  ASSUME Typed, Owned, [Next]_vars
  PROVE  (\E q \in Queries : QueryOutcome(q)) \/ Aside
<1>1. UNCHANGED vars => Aside
  BY DEF vars, files, creating, work, asking, Aside
<1>2. QED
  BY <1>1, NextOutcomes, CreatesAside, Zenon

\* A query leaves the Creates and their directories alone.
LEMMA QueriesApart ==
  ASSUME NEW q \in Queries, QueryOutcome(q)
  PROVE  UNCHANGED <<op, about, home, dir, cpc, loc, owners, crossed>>
  BY ZenonT(60) DEF QueryOutcome, Arrives, ArriveFails, Lists, ListFails, Misses, Answers, Loses,
     Panics, Deletes, DeletesUnheard, Finds, Gets, GetFails, Concludes

\* A bundle that is there is found by who asks for it.
LEMMA LookingStep ==
  ASSUME Typed, Owned, Looking, [Next]_vars
  PROVE  Looking'
<1>0. (\E q \in Queries : QueryOutcome(q)) \/ Aside
  BY QuerySteps
<1> USE PlacesThere DEF Typed, TypeOK, Roles, Owned, Looking, At
<1>1. ASSUME NEW q \in Queries, NEW B \in SUBSET Masters, NEW R \in SUBSET Masters,
             Arrives(q, B, R)
      PROVE  Looking'
  BY <1>1 DEF Arrives
<1>2. ASSUME NEW q \in Queries, NEW B \in SUBSET Masters, NEW R \in SUBSET Masters,
             ArriveFails(q, B, R)
      PROVE  Looking'
  BY <1>2 DEF ArriveFails
<1>3. ASSUME NEW q \in Queries, NEW m \in Masters, Lists(q, m) PROVE Looking'
  BY <1>3 DEF Lists
<1>4. ASSUME NEW q \in Queries, NEW m \in Masters, ListFails(q, m) PROVE Looking'
  BY <1>4 DEF ListFails
<1>5. ASSUME NEW q \in Queries, NEW m \in Masters, Misses(q, m) PROVE Looking'
  BY <1>5 DEF Misses
<1>6. ASSUME NEW q \in Queries, NEW m \in Masters, NEW k \in {200, 500}, Answers(q, m, k)
      PROVE  Looking'
  BY <1>6 DEF Answers
<1>7. ASSUME NEW q \in Queries, NEW m \in Masters, Loses(q, m) PROVE Looking'
  BY <1>7 DEF Loses
<1>8. ASSUME NEW q \in Queries, NEW m \in Masters, Panics(q, m) PROVE Looking'
  BY <1>8 DEF Panics
<1>9. ASSUME NEW q \in Queries, NEW m \in Masters, Deletes(q, m) PROVE Looking'
  BY <1>9 DEF Deletes
<1>10. ASSUME NEW q \in Queries, NEW m \in Masters, DeletesUnheard(q, m) PROVE Looking'
  BY <1>10 DEF DeletesUnheard
<1>11. ASSUME NEW q \in Queries, NEW m \in Masters, Finds(q, m) PROVE Looking'
  BY <1>11 DEF Finds
<1>12. ASSUME NEW q \in Queries, Gets(q) PROVE Looking'
  BY <1>12, MastersAssumption, SMTT(30) DEF Gets
<1>13. ASSUME NEW q \in Queries, NEW L \in SUBSET Masters, GetFails(q, L) PROVE Looking'
  BY <1>13 DEF GetFails
<1>14. ASSUME NEW q \in Queries, NEW k \in {200, 404}, Concludes(q, k) PROVE Looking'
  BY <1>14 DEF Concludes
<1>15. CASE Aside
  BY <1>15 DEF Aside
<1> HIDE PlacesThere DEF Typed, TypeOK, Roles, Owned, Looking, At
<1>16. ASSUME NEW q \in Queries, QueryOutcome(q) PROVE Looking'
  BY <1>16, <1>1, <1>2, <1>3, <1>4, <1>5, <1>6, <1>7, <1>8, <1>9, <1>10, <1>11, <1>12, <1>13,
     <1>14 DEF QueryOutcome
<1>17. QED
  BY <1>0, <1>16, <1>15, Zenon

\* A download that is answered with 200 got its file, now or before.
LEMMA Delivers ==
  ASSUME Typed, Looking, NEW x \in Queries, NEW q \in Queries, QueryOutcome(q)
  PROVE  \/ x = q /\ Gets(q)
         \/ /\ resp'[x] = resp[x] /\ qpc'[x] = qpc[x]
            /\ target'[x] = target[x] /\ served'[x] = served[x]
         \/ op'[x] = "download" => resp'[x] # 200
<1> DEFINE Goal ==
      \/ x = q /\ Gets(q)
      \/ /\ resp'[x] = resp[x] /\ qpc'[x] = qpc[x]
         /\ target'[x] = target[x] /\ served'[x] = served[x]
      \/ op'[x] = "download" => resp'[x] # 200
<1> USE DEF Typed, TypeOK, Looking
<1>1. ASSUME NEW B \in SUBSET Masters, NEW R \in SUBSET Masters,
             Arrives(q, B, R)
      PROVE  Goal
  BY <1>1 DEF Arrives
<1>2. ASSUME NEW B \in SUBSET Masters, NEW R \in SUBSET Masters,
             ArriveFails(q, B, R)
      PROVE  Goal
  BY <1>2 DEF ArriveFails
<1>3. ASSUME NEW m \in Masters, Lists(q, m) PROVE Goal
  BY <1>3 DEF Lists
<1>4. ASSUME NEW m \in Masters, ListFails(q, m) PROVE Goal
  BY <1>4 DEF ListFails
<1>5. ASSUME NEW m \in Masters, Misses(q, m) PROVE Goal
  BY <1>5 DEF Misses
<1>6. ASSUME NEW m \in Masters, NEW k \in {200, 500}, Answers(q, m, k)
      PROVE  Goal
  BY <1>6 DEF Answers
<1>7. ASSUME NEW m \in Masters, Loses(q, m) PROVE Goal
  BY <1>7 DEF Loses
<1>8. ASSUME NEW m \in Masters, Panics(q, m) PROVE Goal
  BY <1>8 DEF Panics
<1>9. ASSUME NEW m \in Masters, Deletes(q, m) PROVE Goal
  BY <1>9 DEF Deletes
<1>10. ASSUME NEW m \in Masters, DeletesUnheard(q, m) PROVE Goal
  BY <1>10 DEF DeletesUnheard
<1>11. ASSUME NEW m \in Masters, Finds(q, m) PROVE Goal
  BY <1>11, SMTT(30) DEF Finds
<1>12. ASSUME Gets(q) PROVE Goal
  BY <1>12 DEF Gets
<1>13. ASSUME NEW L \in SUBSET Masters, GetFails(q, L) PROVE Goal
  BY <1>13 DEF GetFails
<1>14. ASSUME NEW k \in {200, 404}, Concludes(q, k) PROVE Goal
  BY <1>14 DEF Concludes
<1> HIDE DEF Typed, TypeOK, Looking
<1>15. QED
  BY <1>1, <1>2, <1>3, <1>4, <1>5, <1>6, <1>7, <1>8, <1>9, <1>10, <1>11, <1>12, <1>13, <1>14
     DEF QueryOutcome

\* What a query does about a bundle on a master that was ready for it: it found it, it
\* left the file alone or deleted it, and it passes a master over only if that has deleted it,
\* or has none.
LEMMA Progress ==
  ASSUME Typed, Looking, NEW x \in Queries, NEW o \in Masters, NEW q \in Queries, QueryOutcome(q)
  PROVE  /\ \/ state'[At(x, o)] = state[At(x, o)] /\ data'[At(x, o)] = data[At(x, o)]
            \/ state'[At(x, o)] = "Deleted" /\ data'[At(x, o)] = "none"
         /\ o \in ready'[x] => \/ o \in ready[x]
                               \/ state[At(x, o)] = "Done" /\ data[At(x, o)] # "none"
         /\ \/ qpc'[x] # "ask" /\ (op[x] = "delete" => resp'[x] # 200)
            \/ o \in todo'[x] \cup lost'[x]
            \/ /\ qpc[x] = "ask" \/ resp[x] = 200
               /\ o \notin todo[x] \cup lost[x] /\ ready'[x] = ready[x]
            \/ state'[At(x, o)] = "Deleted"
            \/ op[x] = "delete" => ~dir[At(x, o)]
<1> DEFINE Goal ==
      /\ \/ state'[At(x, o)] = state[At(x, o)] /\ data'[At(x, o)] = data[At(x, o)]
         \/ state'[At(x, o)] = "Deleted" /\ data'[At(x, o)] = "none"
      /\ o \in ready'[x] => \/ o \in ready[x]
                            \/ state[At(x, o)] = "Done" /\ data[At(x, o)] # "none"
      /\ \/ qpc'[x] # "ask" /\ (op[x] = "delete" => resp'[x] # 200)
         \/ o \in todo'[x] \cup lost'[x]
         \/ /\ qpc[x] = "ask" \/ resp[x] = 200
            /\ o \notin todo[x] \cup lost[x] /\ ready'[x] = ready[x]
         \/ state'[At(x, o)] = "Deleted"
         \/ op[x] = "delete" => ~dir[At(x, o)]
<1> USE DEF Typed, TypeOK, Looking
<1>0. At(x, o) \in Places
  BY PlacesThere
<1>1. ASSUME NEW B \in SUBSET Masters, NEW R \in SUBSET Masters,
             Arrives(q, B, R)
      PROVE  Goal
  BY <1>0, <1>1 DEF Arrives
<1>2. ASSUME NEW B \in SUBSET Masters, NEW R \in SUBSET Masters,
             ArriveFails(q, B, R)
      PROVE  Goal
  BY <1>0, <1>2 DEF ArriveFails
<1>3. ASSUME NEW m \in Masters, Lists(q, m) PROVE Goal
  BY <1>0, <1>3 DEF Lists
<1>4. ASSUME NEW m \in Masters, ListFails(q, m) PROVE Goal
  BY <1>0, <1>4 DEF ListFails
<1>5. ASSUME NEW m \in Masters, Misses(q, m) PROVE Goal
  BY <1>0, <1>5 DEF Misses
<1>6. ASSUME NEW m \in Masters, NEW k \in {200, 500}, Answers(q, m, k)
      PROVE  Goal
  BY <1>0, <1>6 DEF Answers
<1>7. ASSUME NEW m \in Masters, Loses(q, m) PROVE Goal
  BY <1>0, <1>7 DEF Loses
<1>8. ASSUME NEW m \in Masters, Panics(q, m) PROVE Goal
  BY <1>0, <1>8 DEF Panics
<1>9. ASSUME NEW m \in Masters, Deletes(q, m) PROVE Goal
  BY <1>0, <1>9 DEF Deletes
<1>10. ASSUME NEW m \in Masters, DeletesUnheard(q, m) PROVE Goal
  BY <1>0, <1>10 DEF DeletesUnheard
<1>11. ASSUME NEW m \in Masters, Finds(q, m) PROVE Goal
  BY <1>0, <1>11 DEF Finds
<1>12. ASSUME Gets(q) PROVE Goal
  BY <1>0, <1>12, MastersAssumption DEF Gets, Roles
<1>13. ASSUME NEW L \in SUBSET Masters, GetFails(q, L) PROVE Goal
  BY <1>0, <1>13 DEF GetFails
<1>14. ASSUME NEW k \in {200, 404}, Concludes(q, k) PROVE Goal
  BY <1>0, <1>14 DEF Concludes
<1> HIDE DEF Typed, TypeOK, Looking
<1>15. QED
  BY <1>1, <1>2, <1>3, <1>4, <1>5, <1>6, <1>7, <1>8, <1>9, <1>10, <1>11, <1>12, <1>13, <1>14
     DEF QueryOutcome


\* What is delivered comes from a bundle that is Done.
LEMMA DeliveredStep ==
  ASSUME Typed, Owned, Saved, Moved, Looking, Delivered, [Next]_vars
  PROVE  Delivered'
<1>1. CASE Aside
  <2> SUFFICES ASSUME NEW x \in Queries, (op[x] = "download" /\ resp[x] = 200)'
               PROVE  /\ qpc'[x] = "end"
                      /\ \E c \in owners' : /\ home'[c] = At(x, target[x])'
                                            /\ Sole(home[c])' => Fits(served[x], c)'
    BY DEF Delivered
  <2>1. PICK c \in owners : home[c] = At(x, target[x]) /\ (Sole(home[c]) => Fits(served[x], c))
    BY <1>1 DEF Aside, Delivered
  <2>2. Sole(home[c])' => Sole(home[c])
    BY <1>1 DEF Aside, Sole
  <2>3. Fits(served[x], c) => Fits(served[x], c)'
    BY <1>1 DEF Aside, Fits
  <2>4. QED
    BY <1>1, <2>1, <2>2, <2>3 DEF Aside, Delivered, At
<1>2. ASSUME NEW q \in Queries, QueryOutcome(q) PROVE Delivered'
  <2> SUFFICES ASSUME NEW x \in Queries, (op[x] = "download" /\ resp[x] = 200)'
               PROVE  /\ qpc'[x] = "end"
                      /\ \E c \in owners' : /\ home'[c] = At(x, target[x])'
                                            /\ Sole(home[c])' => Fits(served[x], c)'
    BY DEF Delivered
  <2>0. UNCHANGED <<op, about, home, dir, cpc, loc, owners, crossed>>
    BY <1>2, QueriesApart
  <2>1. /\ \A p : Sole(p)' <=> Sole(p)
        /\ \A v, c : Fits(v, c)' <=> Fits(v, c)
    BY <2>0 DEF Sole, Fits
  <2>2. CASE x = q /\ Gets(q)
    <3> DEFINE p == At(q, target[q])
    <3>1. p \in Places /\ FileOf(p) # "none" /\ op[q] \in Ops
      BY <2>2, PlacesThere DEF Gets, Typed, TypeOK, Roles
    <3>2. FileOf(p) = data[p] /\ data[p] # "none" /\ state[p] = "Done"
      BY <3>1, WhatIsDelivered
    <3>3. PICK c \in owners : home[c] = p
      BY <3>1, <3>2 DEF Owned
    <3>4. Sole(p) => Fits(data[p], c)
      BY <3>2, <3>3 DEF Saved, Moved
    <3>5. served'[q] = data[p] /\ qpc'[q] = "end" /\ target' = target
      BY <2>2, <3>2 DEF Gets, Typed, TypeOK
    <3>6. At(x, target[x])' = p
      BY <2>0, <2>2, <3>5 DEF At
    <3>7. Sole(home[c])' => Fits(served[x], c)'
      <4>1. Sole(home[c])' => Sole(p)
        BY <2>0, <3>3 DEF Sole
      <4>2. Fits(data[p], c) => Fits(served[x], c)'
        BY <2>0, <2>2, <3>5 DEF Fits
      <4>3. QED
        BY <3>4, <4>1, <4>2
    <3>8. QED
      BY <2>0, <2>2, <3>3, <3>5, <3>6, <3>7
  <2>3. CASE /\ resp'[x] = resp[x] /\ qpc'[x] = qpc[x]
             /\ target'[x] = target[x] /\ served'[x] = served[x]
    <3>1. PICK c \in owners : home[c] = At(x, target[x]) /\ (Sole(home[c]) => Fits(served[x], c))
      BY <2>0, <2>3 DEF Delivered
    <3>2. Sole(home[c])' => Sole(home[c])
      BY <2>0 DEF Sole
    <3>3. Fits(served[x], c) => Fits(served[x], c)'
      BY <2>0, <2>3 DEF Fits
    <3>4. QED
      BY <2>0, <2>3, <3>1, <3>2, <3>3 DEF Delivered, At
  <2>4. QED
    BY <1>2, <2>2, <2>3, Delivers
<1>3. QED
  BY <1>1, <1>2, QuerySteps, Zenon

\* A Delete leaves out no master.
LEMMA DeletingStep ==
  ASSUME Typed, Owned, Saved, Looking, Deleting, [Next]_vars
  PROVE  Deleting'
<1> DEFINE Kept(x, m, p) ==
      /\ \E c \in owners : home[c] = p /\ cpc[c] = "end"
      /\ \/ state[p] = "Done" /\ data[p] # "none"
         \/ state[p] = "Deleted" /\ data[p] = "none"
      /\ (qpc[x] = "ask" \/ resp[x] = 200) /\ m \notin todo[x] \cup lost[x] => state[p] = "Deleted"
<1>0. Deleting' <=> \A x \in Queries : \A m \in ready'[x] :
                      op'[x] = "delete" /\ Sole(At(x, m))' => Kept(x, m, At(x, m))'
  BY DEF Deleting
<1>1. Deleting <=> \A x \in Queries : \A m \in ready[x] :
                     op[x] = "delete" /\ Sole(At(x, m)) => Kept(x, m, At(x, m))
  BY DEF Deleting
<1>2. CASE Aside
  <2> SUFFICES ASSUME NEW x \in Queries, NEW m \in ready'[x], op'[x] = "delete", Sole(At(x, m))'
               PROVE  Kept(x, m, At(x, m))'
    BY <1>0
  <2> DEFINE p == At(x, m)
  <2>1. m \in ready[x] /\ op[x] = "delete" /\ Sole(p) /\ At(x, m)' = p /\ p \in Places
    BY <1>2, PlacesThere, SMTT(30) DEF Aside, Sole, At, Typed, TypeOK
  <2>2. Kept(x, m, p)
    BY <1>1, <2>1
  <2>3. PICK c \in owners : home[c] = p /\ cpc[c] = "end"
    BY <2>2
  <2>4. state'[p] = state[p] /\ data'[p] = data[p]
    BY <1>2, <2>1, <2>3 DEF Aside, Sole
  <2>5. c \in owners' /\ home'[c] = p /\ cpc'[c] = "end"
    BY <1>2, <2>3 DEF Aside, Typed, TypeOK
  <2>6. QED
    BY <1>2, <2>1, <2>2, <2>4, <2>5 DEF Aside
<1>3. ASSUME NEW q \in Queries, QueryOutcome(q) PROVE Deleting'
  <2> SUFFICES ASSUME NEW x \in Queries, NEW m \in ready'[x], op'[x] = "delete", Sole(At(x, m))'
               PROVE  Kept(x, m, At(x, m))'
    BY <1>0
  <2> DEFINE p == At(x, m)
  <2>1. UNCHANGED <<op, about, home, dir, cpc, loc, owners, crossed>>
    BY <1>3, QueriesApart
  <2>2. m \in Masters /\ op[x] = "delete" /\ Sole(p) /\ At(x, m)' = p /\ p \in Places
    <3>1. TypeOK'
      BY TypedStep DEF Typed
    <3>2. m \in Masters
      BY <3>1 DEF TypeOK
    <3>3. QED
      BY <2>1, <3>2, PlacesThere DEF Sole, At, Typed
  <2>3. /\ \/ state'[p] = state[p] /\ data'[p] = data[p]
           \/ state'[p] = "Deleted" /\ data'[p] = "none"
        /\ m \in ready[x] \/ (state[p] = "Done" /\ data[p] # "none")
        /\ \/ qpc'[x] # "ask" /\ resp'[x] # 200
           \/ m \in todo'[x] \cup lost'[x]
           \/ (qpc[x] = "ask" \/ resp[x] = 200) /\ m \notin todo[x] \cup lost[x] /\ ready'[x] = ready[x]
           \/ state'[p] = "Deleted"
           \/ ~dir[p]
    BY <1>3, <2>2, Progress
  <2>4. PICK c \in owners : home[c] = p /\ cpc[c] = "end"
    <3>1. CASE m \in ready[x]
      BY <1>1, <2>2, <3>1
    <3>2. CASE state[p] = "Done" /\ data[p] # "none"
      <4>1. PICK d \in owners : home[d] = p
        BY <2>2, <3>2 DEF Owned
      <4>2. cpc[d] = "end"
        BY <2>2, <3>2, <4>1 DEF Saved
      <4>3. QED
        BY <4>1, <4>2
    <3>3. QED
      BY <2>3, <3>1, <3>2
  <2>5. \/ state[p] = "Done" /\ data[p] # "none"
        \/ state[p] = "Deleted" /\ data[p] = "none"
    BY <1>1, <2>2, <2>3
  <2>6. dir[p]
    BY <2>4 DEF Owned
  <2>7. (qpc'[x] = "ask" \/ resp'[x] = 200) /\ m \notin todo'[x] \cup lost'[x] => state'[p] = "Deleted"
    <3>1. CASE (qpc[x] = "ask" \/ resp[x] = 200) /\ m \notin todo[x] \cup lost[x] /\ ready'[x] = ready[x]
      BY <1>1, <2>2, <2>3, <3>1
    <3>2. QED
      BY <2>3, <2>6, <3>1
  <2>8. QED
    BY <2>1, <2>2, <2>3, <2>4, <2>5, <2>7
<1>4. QED
  BY <1>2, <1>3, QuerySteps, Zenon

-----------------------------------------------------------------------------
(* The safety invariants. *)

\* There is no owner and no query, so there is nothing to find.
LEMMA IInvInit == Init => IInv
<1> SUFFICES ASSUME Init PROVE IInv
  OBVIOUS
<1>1. Typed
  BY TypedInit
<1>2. /\ cpc = [c \in Creates |-> "idle"] /\ owners = {} /\ paths = [c \in Creates |-> FALSE]
      /\ loc = [c \in Creates |-> "Started"] /\ state = [p \in Places |-> "none"]
      /\ qpc = [q \in Queries |-> "idle"] /\ resp = [q \in Queries |-> 0]
      /\ before = [q \in Queries |-> {}] /\ ready = [q \in Queries |-> {}]
  BY DEF Init
<1>3. Owned /\ Saved /\ Moved
  BY <1>2 DEF Owned, Saved, Moved, Writes, AtWork
<1>4. Crossing /\ Own
  BY <1>2 DEF Crossing, Own, Writes
<1>5. Delivered /\ Looking /\ Deleting
  BY <1>2 DEF Delivered, Looking, Deleting
<1>6. QED
  BY <1>1, <1>3, <1>4, <1>5 DEF IInv

\* Each part follows from itself and the parts it builds on.
LEMMA IInvStep == IInv /\ [Next]_vars => IInv'
<1> SUFFICES ASSUME IInv, [Next]_vars PROVE IInv'
  OBVIOUS
<1>1. Typed'
  BY TypedStep DEF IInv
<1>2. QED
  BY <1>1, OwnedStep, SavedStep, CrossingStep, OwnStep, MovedStep, DeliveredStep, LookingStep,
     DeletingStep DEF IInv

\* The invariant that the theorems below rest on: who owns a bundle, how its archive
\* gets from the work directory into its data file, and what the queries have seen.
THEOREM Inductive == Spec => []IInv
  BY IInvInit, IInvStep, PTL DEF Spec

\* A download answered with 200 delivers all that mergeZips wrote for the bundle asked
\* for, unless the downloads of two Creates crossed in the work directory of a master.
\* What it wrote is whole unless the Close of the archive failed, unnoticed.
THEOREM DownloadsAreWhole == Spec => []DownloadIsWhole
<1>1. ASSUME IInv PROVE DownloadIsWhole
  <2>1. SUFFICES ASSUME NEW q \in Queries, op[q] = "download", resp[q] = 200, Sole(At(q, target[q]))
                 PROVE  \/ served[q] \in {"whole", "unclosed"}
                        \/ served[q] = "foreign" /\ MadeBy(At(q, target[q])) \subseteq crossed
    BY DEF DownloadIsWhole
  <2>2. PICK c \in owners : home[c] = At(q, target[q]) /\ Fits(served[q], c)
    BY <1>1, <2>1 DEF IInv, Delivered
  <2>3. \A d \in MadeBy(At(q, target[q])) : d = c
    BY <2>1, <2>2 DEF MadeBy, Sole
  <2>4. QED
    BY <2>2, <2>3 DEF Fits
<1>2. QED
  BY <1>1, Inductive, PTL

\* Status answers 404, and List leaves a bundle out, only where it was not there when
\* the request arrived or the answer of its master was lost.
THEOREM ExistingAreFound == Spec => []ExistingIsFound
<1>1. ASSUME IInv PROVE ExistingIsFound
  BY <1>1 DEF IInv, Looking, ExistingIsFound
<1>2. QED
  BY <1>1, Inductive, PTL

\* A Delete answered with 200 leaves no master with a bundle that was Done when it
\* arrived, except where the answer was lost.
THEOREM DeletesCover == Spec => []DeleteCoversMasters
<1>1. ASSUME IInv PROVE DeleteCoversMasters
  <2>1. SUFFICES ASSUME NEW q \in Queries, op[q] = "delete", resp[q] = 200,
                        NEW m \in ready[q] \ lost[q], Sole(At(q, m))
                 PROVE  state[At(q, m)] = "Deleted" /\ data[At(q, m)] = "none"
    BY DEF DeleteCoversMasters
  <2>2. todo[q] = {}
    BY <1>1, <2>1 DEF IInv, Looking
  <2>3. QED
    BY <1>1, <2>1, <2>2 DEF IInv, Deleting
<1>2. QED
  BY <1>1, Inductive, PTL

-----------------------------------------------------------------------------
(* The lifecycle. *)

\* An owner of p is writing the status st.
Writing(p, st) == \E c \in owners : home[c] = p /\ cpc[c] = "writing" /\ loc[c] = st

\* View without CASE and CHOOSE.
Shown(p) ==
  IF ~Sole(p) THEN "contested"
  ELSE IF state[p] = "none" THEN "absent"
  ELSE IF state[p] # "torn" THEN state[p]
  ELSE IF Writing(p, "Started") THEN "Started"
  ELSE IF Writing(p, "Done") THEN "Done"
  ELSE IF Writing(p, "Failed") THEN "Failed"
  ELSE "broken"

\* In every state the view of a bundle is what is shown.
LEMMA ViewIsShown ==
  ASSUME Typed, NEW p \in Places
  PROVE  View(p) = Shown(p)
<1>1. CASE ~Sole(p)
  BY <1>1 DEF View, Shown
<1>2. CASE Sole(p) /\ state[p] = "none"
  BY <1>2 DEF View, Shown
<1>3. CASE Sole(p) /\ state[p] = "torn"
  <2> DEFINE v == IF \E c \in MadeBy(p) : cpc[c] = "writing"
                    THEN loc[CHOOSE c \in MadeBy(p) : TRUE] ELSE "broken"
  <2>1. View(p) = v
    BY <1>3, Zenon DEF View
  <2>2. CASE \E c \in MadeBy(p) : cpc[c] = "writing"
    <3>1. PICK c \in MadeBy(p) : cpc[c] = "writing"
      BY <2>2
    <3>2. \A d \in MadeBy(p) : d = c
      BY <1>3 DEF MadeBy, Sole
    <3>3. (CHOOSE d \in MadeBy(p) : TRUE) = c
      BY <3>2
    <3>4. v = loc[c]
      BY <2>2, <3>3
    <3>5. loc[c] \in {"Started", "Done", "Failed"} /\ c \in owners /\ home[c] = p
      BY DEF MadeBy, Typed, TypeOK, Roles
    <3>6. \A st : Writing(p, st) <=> loc[c] = st
      BY <3>1, <3>2, <3>5 DEF Writing, MadeBy
    <3>7. QED
      BY <1>3, <2>1, <3>4, <3>5, <3>6 DEF Shown
  <2>3. CASE ~\E c \in MadeBy(p) : cpc[c] = "writing"
    <3>1. \A st : ~Writing(p, st)
      BY <2>3 DEF Writing, MadeBy
    <3>2. QED
      BY <1>3, <2>1, <2>3, <3>1 DEF Shown
  <2>4. QED
    BY <2>2, <2>3
<1>4. CASE Sole(p) /\ state[p] \notin {"none", "torn"}
  BY <1>4 DEF View, Shown
<1>5. QED
  BY <1>1, <1>2, <1>3, <1>4

\* The same of the next state.
LEMMA ViewIsShownNext ==
  ASSUME Typed', NEW p \in Places
  PROVE  View(p)' = Shown(p)'
<1>1. CASE ~Sole(p)'
  BY <1>1 DEF View, Shown
<1>2. CASE Sole(p)' /\ state'[p] = "none"
  BY <1>2 DEF View, Shown
<1>3. CASE Sole(p)' /\ state'[p] = "torn"
  <2> DEFINE v == IF \E c \in MadeBy(p)' : cpc'[c] = "writing"
                    THEN loc'[CHOOSE c \in MadeBy(p)' : TRUE] ELSE "broken"
  <2>1. View(p)' = v
    BY <1>3, Zenon DEF View
  <2>2. CASE \E c \in MadeBy(p)' : cpc'[c] = "writing"
    <3>1. PICK c \in MadeBy(p)' : cpc'[c] = "writing"
      BY <2>2
    <3>2. \A d \in MadeBy(p)' : d = c
      BY <1>3 DEF MadeBy, Sole
    <3>3. (CHOOSE d \in MadeBy(p)' : TRUE) = c
      BY <3>2
    <3>4. v = loc'[c]
      BY <2>2, <3>3
    <3>5. loc'[c] \in {"Started", "Done", "Failed"} /\ c \in owners' /\ home'[c] = p
      BY DEF MadeBy, Typed, TypeOK, Roles
    <3>6. \A st : Writing(p, st)' <=> loc'[c] = st
      BY <3>1, <3>2, <3>5 DEF Writing, MadeBy
    <3>7. QED
      BY <1>3, <2>1, <3>4, <3>5, <3>6 DEF Shown
  <2>3. CASE ~\E c \in MadeBy(p)' : cpc'[c] = "writing"
    <3>1. \A st : ~Writing(p, st)'
      BY <2>3 DEF Writing, MadeBy
    <3>2. QED
      BY <1>3, <2>1, <2>3, <3>1 DEF Shown
  <2>4. QED
    BY <2>2, <2>3
<1>4. CASE Sole(p)' /\ state'[p] \notin {"none", "torn"}
  BY <1>4 DEF View, Shown
<1>5. QED
  BY <1>1, <1>2, <1>3, <1>4

\* Bundle p takes a step of its lifecycle, or none.
Lives(p) ==
  \/ Shown(p)' = Shown(p) /\ (Active(p)' <=> Active(p))
  \/ Shown(p) = "absent" /\ Shown(p)' = "Started" /\ Active(p)'
  \/ Active(p) /\ ~Active(p)' /\ Shown(p)' \in {"Done", "Failed", Shown(p)}
  \/ Shown(p) \notin {"absent", "contested"} /\ Shown(p)' = "Deleted" /\ (Active(p)' <=> Active(p))
  \/ Shown(p) \notin {"absent", "contested"} /\ Shown(p)' = "broken" /\ (Active(p)' => Active(p))
  \/ Shown(p)' = "contested" /\ ~Active(p)'

\* Every step is a step of the lifecycle for every bundle.
LEMMA LivesStep ==
  ASSUME IInv, NEW p \in Places, [Next]_vars
  PROVE  Lives(p)
<1>0. (\E c \in Creates : CreateOutcome(c)) \/ (\E b \in Places : DeletedAt(b)) \/ Rest
  BY FileSteps DEF IInv
<1> USE DEF IInv, Typed, TypeOK, Roles, Owned, Saved, Sole, MadeBy, Writing, Shown, Active,
        Lives, Writes, AtWork
<1>1. ASSUME NEW c \in Creates, Refused(c) PROVE Lives(p)
  BY <1>1 DEF Refused
<1>2. ASSUME NEW c \in Creates, Admitted(c) PROVE Lives(p)
  BY <1>2 DEF Admitted
<1>3. ASSUME NEW c \in Creates, DirMade(c) PROVE Lives(p)
  BY <1>3 DEF DirMade
<1>4. ASSUME NEW c \in Creates, DirFails(c) PROVE Lives(p)
  BY <1>4 DEF DirFails
<1>5. ASSUME NEW c \in Creates, Opens(c) PROVE Lives(p)
  BY <1>5 DEF Opens
<1>6. ASSUME NEW c \in Creates, NEW step \in {"mkdata", "end"}, Saves(c, step) PROVE Lives(p)
  BY <1>6 DEF Saves
<1>7. ASSUME NEW c \in Creates, NEW k \in {0, 200, 409, 500, 507}, SaveFails(c, k)
      PROVE  Lives(p)
  BY <1>7 DEF SaveFails
<1>8. ASSUME NEW c \in Creates, DataMade(c) PROVE Lives(p)
  BY <1>8 DEF DataMade
<1>9. ASSUME NEW c \in Creates, DataFails(c) PROVE Lives(p)
  BY <1>9 DEF DataFails
<1>10. ASSUME NEW c \in Creates, NodesFound(c) PROVE Lives(p)
  BY <1>10 DEF NodesFound
<1>11. ASSUME NEW c \in Creates, NodesMissed(c) PROVE Lives(p)
  BY <1>11 DEF NodesMissed
<1>12. ASSUME NEW c \in Creates, NEW hurt \in SUBSET Creates, Downloads(c, hurt) PROVE Lives(p)
  BY <1>12 DEF Downloads
<1>13. ASSUME NEW c \in Creates, Skips(c) PROVE Lives(p)
  BY <1>13 DEF Skips
<1>14. ASSUME NEW c \in Creates, NEW x \in Creates \cup {"torn"}, Downloaded(c, x)
       PROVE  Lives(p)
  BY <1>14 DEF Downloaded
<1>15. ASSUME NEW c \in Creates, DownloadFails(c) PROVE Lives(p)
  BY <1>15 DEF DownloadFails
<1>16. ASSUME NEW c \in Creates, NEW v \in {"whole", "foreign", "unclosed"}, Merges(c, v) PROVE Lives(p)
  BY <1>16 DEF Merges
<1>17. ASSUME NEW c \in Creates, MergeFails(c) PROVE Lives(p)
  BY <1>17 DEF MergeFails
<1>18. ASSUME NEW c \in Creates, Copies(c) PROVE Lives(p)
  BY <1>18 DEF Copies
<1>19. ASSUME NEW c \in Creates, CopyFails(c) PROVE Lives(p)
  BY <1>19, SMTT(30) DEF CopyFails
<1>20. ASSUME NEW b \in Places, DeletedAt(b) PROVE Lives(p)
  <2>1. dir[b] /\ state[b] \in {"Started", "Done", "Deleted", "Failed"}
    BY <1>20, WhatMastersSay DEF DeletedAt, Status
  <2>2. (Active(p)' <=> Active(p)) /\ (Sole(p)' <=> Sole(p))
    BY <1>20 DEF DeletedAt
  <2>3. CASE b # p
    BY <1>20, <2>2, <2>3 DEF DeletedAt
  <2>4. CASE b = p
    <3>1. Sole(p) => Shown(p) = state[p]
      BY ONLY <2>1, <2>4 DEF Shown
    <3>2. state'[p] = "Deleted"
      BY <1>20, <2>4 DEF DeletedAt
    <3>3. Sole(p) => Shown(p)' = "Deleted"
      BY ONLY <2>2, <3>2 DEF Shown
    <3>4. ~Sole(p) => Shown(p)' = Shown(p)
      BY ONLY <2>2 DEF Shown
    <3>5. QED
      BY ONLY <2>1, <2>2, <2>4, <3>1, <3>3, <3>4 DEF Lives
  <2>5. QED
    BY <2>3, <2>4
<1>21. CASE Rest
  BY <1>21 DEF Rest
<1> HIDE DEF IInv, Typed, TypeOK, Roles, Owned, Saved, Sole, MadeBy, Writing, Shown, Active,
        Lives, Writes, AtWork
<1>22. ASSUME NEW c \in Creates, CreateOutcome(c) PROVE Lives(p)
  BY <1>22, <1>1, <1>2, <1>3, <1>4, <1>5, <1>6, <1>7, <1>8, <1>9, <1>10, <1>11, <1>12, <1>13,
     <1>14, <1>15, <1>16, <1>17, <1>18, <1>19 DEF CreateOutcome
<1>23. QED
  BY <1>0, <1>22, <1>20, <1>21, Zenon


\* A bundle nobody asked for is absent.
LEMMA LifeInit == Init => Life!Init
<1> SUFFICES ASSUME Init PROVE Life!Init
  OBVIOUS
<1>1. \A p \in Places : Sole(p) /\ state[p] = "none" /\ ~Active(p)
  BY DEF Init, Sole, Active, MadeBy
<1>2. \A p \in Places : View(p) = "absent"
  BY <1>1 DEF View
<1>3. [p \in Places |-> View(p)] = [p \in Places |-> "absent"]
  BY <1>2
<1>4. \A p \in Places : Active(p) = FALSE
  BY <1>1 DEF Active
<1>5. [p \in Places |-> Active(p)] = [p \in Places |-> FALSE]
  BY <1>4
<1>6. QED
  BY <1>3, <1>5 DEF Life!Init

\* What every bundle does is a step of the lifecycle of all of them.
LEMMA LifeStep == IInv /\ IInv' /\ [Next]_vars => [Life!Next]_(Life!lifecycle)
<1> SUFFICES ASSUME IInv, IInv', [Next]_vars PROVE Life!Next
  BY DEF Life!lifecycle
<1> DEFINE st == [p \in Places |-> View(p)]
           at == [p \in Places |-> Active(p)]
<1>1. ASSUME NEW p \in Places PROVE View(p) = Shown(p) /\ View(p)' = Shown(p)' /\ Lives(p)
  BY ViewIsShown, ViewIsShownNext, LivesStep DEF IInv
<1>2. ASSUME NEW p \in Places PROVE Shown(p)' \in Life!Statuses
  <2>1. state'[p] \in Status \cup {"none", "torn"}
    BY DEF IInv, Typed, TypeOK
  <2>2. QED
    BY <2>1 DEF Shown, Status, Life!Statuses
<1>3. \A p \in Places : Active(p) \in BOOLEAN /\ Active(p)' \in BOOLEAN
  BY DEF Active
<1>4. st' \in [Places -> Life!Statuses] /\ at' \in [Places -> BOOLEAN]
  BY <1>1, <1>2, <1>3
<1>5. ASSUME NEW p \in Places PROVE Life!Step(p) \/ Life!Becomes(p, st[p], at[p])
  <2>1. st[p] = Shown(p) /\ st'[p] = Shown(p)' /\ at[p] = Active(p) /\ at'[p] = Active(p)'
    BY <1>1
  <2>2. QED
    BY <1>1, <1>3, <2>1 DEF Lives, Life!Step, Life!Becomes, Life!Start, Life!Finish, Life!Fail,
       Life!GiveUp, Life!Delete, Life!Break, Life!Contest
<1>6. QED
  BY <1>4, <1>5 DEF Life!Next

\* The cluster bundles go through the lifecycle that BundleLifecycle promises: each
\* is started once, only the Create that made it says how it ended, and a bundle that
\* was deleted when nobody was at work on it stays deleted.
THEOREM Refinement == Spec => ImplementsLifecycle
  BY Inductive, LifeInit, LifeStep, PTL DEF Spec, Life!Spec, ImplementsLifecycle

=============================================================================
