--------------------------- MODULE ClusterHealth ----------------------------
(* The health of the cluster: the puller of api/pull.go asks the nodes of      *)
(* UnitHealth and merges what they say into the tree of                        *)
(* api/monitoring_response.go, which the handlers of api/handlers.go read, all *)
(* but one under its lock. Request <<n, k>> is the one pull k sends to node n. *)
(* How many nodes are asked at a time, and who asks for a pull, is in Pull.    *)
EXTENDS UnitHealth

CONSTANTS
  Masters, Agents, \* the nodes, by the lookup that finds them
  MaxPulls         \* bound on the pulls

ASSUME RolesAssumption ==
  Nodes = Masters \cup Agents /\ Masters \cap Agents = {} /\ IsFiniteSet(Nodes)
ASSUME RequestsAssumption ==
  MaxPulls \in Nat /\ Reqs = Nodes \X (1..MaxPulls) /\ \A r \in Reqs : At[r] = r[1]

VARIABLES
  pull,     \* the number of the current or last pull
  ppc,      \* next step of the puller
  found,    \* clusterNodes
  hpc,      \* hpc[n]: next step of the pullHostStatus goroutine of n
  respChan, \* the channel with the answers, in the order they came
  nodes,    \* the maps updateHealthStatus builds
  units,
  tree,     \* MonitoringResponse: its Nodes, Units and UpdatedTime (a pull)
  rpc,      \* next step of a request for the report
  seen,     \* the Units the report has read
  \* History.
  heard,    \* nodes that answered this pull in time
  owed,     \* <<n, u>> this pull has to show as unhealthy, see SickIsShown
  basis,    \* found, heard and owed of the pull whose tree this is
  clean,    \* no update was under way since the report began
  mixed     \* a report was sent that no update overlapped and that contradicts itself

pullVars == <<pull, ppc, found, hpc, respChan, nodes, units, heard, owed, basis>>
readVars == <<rpc, seen, clean, mixed>>
vars == <<nodeVars, pullVars, tree, readVars>>

Empty == [x \in {} |-> <<>>]

\* m[k] = v
Put(m, k, v) == [x \in DOMAIN m \cup {k} |-> IF x = k THEN v ELSE m[x]]

Init ==
  /\ NodeInit
  /\ pull = 0 /\ ppc = "idle" /\ found = {}
  /\ hpc = [n \in Nodes |-> "off"]
  /\ respChan = <<>>
  /\ nodes = Empty /\ units = Empty
  /\ tree = [nodes |-> Empty, units |-> Empty, time |-> 0]
  /\ rpc = "idle" /\ seen = Empty /\ clean = TRUE /\ mixed = FALSE
  /\ heard = {} /\ owed = {}
  /\ basis = [found |-> {}, heard |-> {}, owed |-> {}]

Request(n) == <<n, pull>>

-----------------------------------------------------------------------------
(* The finders of dcos/finder.go *)

\* GetMasterNodes: exhibitor, which must list a node, then the DNS.
GetMasterNodes(exhibitor, dns) ==
  CASE exhibitor -> Masters [] dns -> Masters [] OTHER -> {}

\* GetAgentNodes: the agents the leading master lists. There is no other source.
GetAgentNodes(leader, slaves) == IF leader /\ slaves THEN Agents ELSE {}

-----------------------------------------------------------------------------
(* runPull *)

\* A lookup that fails is logged and its nodes are left out. Without any node the
\* pull is over; else there is a goroutine for every node, which sends its request.
StartPull(exhibitor, dns, leader, slaves) ==
  LET all == GetMasterNodes(exhibitor, dns) \cup GetAgentNodes(leader, slaves)
  IN  /\ ppc = "idle"
      /\ pull < MaxPulls
      /\ pull' = pull + 1
      /\ found' = all
      /\ ppc' = IF all = {} THEN "idle" ELSE "wait"
      /\ hpc' = [n \in Nodes |-> IF n \in all THEN "get" ELSE "off"]
      /\ Arrive({<<n, pull + 1>> : n \in all})
      /\ IF exhibitor /\ dns /\ leader /\ slaves
           THEN UNCHANGED events
           ELSE Event
  /\ UNCHANGED <<respChan, nodes, units, heard, owed, basis, tree, readVars>>

\* respChan <- &response, wg.Done()
Send(n, health, listed) ==
  /\ respChan' = Append(respChan, [node |-> n, health |-> health, units |-> listed])
  /\ hpc' = [hpc EXCEPT ![n] = "off"]

\* A node is as unhealthy as the first of its units that is not healthy.
HostHealth(listed) ==
  IF \E i \in DOMAIN listed : listed[i].health > Healthy THEN Unhealthy ELSE Healthy

\* The answer of r has been used.
Forget(r) ==
  /\ report' = [report EXCEPT ![r] = <<>>]
  /\ failed' = [failed EXCEPT ![r] = FALSE]
  /\ steady' = [steady EXCEPT ![r] = {}]

\* The node answered in time.
HostAnswered(n) ==
  /\ hpc[n] = "get"
  /\ pc[Request(n)] = "end"
  /\ Send(n, HostHealth(report[Request(n)]), report[Request(n)])
  /\ heard' = heard \cup {n}
  /\ owed' = owed \cup {<<n, u>> : u \in {v \in steady[Request(n)] : ~failed[Request(n)]}}
  /\ Forget(Request(n))
  /\ UNCHANGED <<props, locks, pc, rest, events,
                 pull, ppc, found, nodes, units, basis, tree, readVars>>

\* markNodeHealthAsUnknown: the timeout passes, or another error ends the call. The
\* request goes on at the node, and its answer is dropped.
HostUnknown(n) ==
  /\ hpc[n] = "get"
  /\ Send(n, Unknown, <<>>)
  /\ steady' = [steady EXCEPT ![Request(n)] = {}]
  /\ UNCHANGED <<props, locks, pc, rest, report, failed, events,
                 pull, ppc, found, nodes, units, heard, owed, basis, tree, readVars>>

\* Mutant of AllDone: the first node to answer ends the wait.
OneDone == \E n \in found : hpc[n] = "off"

\* wg.Wait()
AllDone == \A n \in found : hpc[n] = "off"

WaitForHosts ==
  /\ ppc = "wait"
  /\ AllDone
  /\ ppc' = "drain"
  /\ nodes' = Empty /\ units' = Empty
  /\ UNCHANGED <<nodeVars, pull, found, hpc, respChan, heard, owed, basis, tree, readVars>>

-----------------------------------------------------------------------------
(* updateHealthStatus *)

\* Mutant of Merged: the health of a unit is what the last node says.
LastWins(old, new) == [health |-> new.health, nodes |-> old.nodes \o new.nodes]

\* What two nodes say of a unit: the worse health, and both nodes.
Merged(old, new) ==
  [health |-> IF new.health > old.health THEN new.health ELSE old.health,
   nodes |-> old.nodes \o new.nodes]

\* The entry of a unit that one response adds to the map. A node lists a unit once.
UnitEntry(resp, i) ==
  [health |-> resp.units[i].health,
   nodes |-> <<[node |-> resp.node, health |-> resp.health]>>]
Places(resp, u) == {i \in DOMAIN resp.units : resp.units[i].unit = u}

\* One response, without blocking.
MergeResponse ==
  /\ ppc = "drain"
  /\ respChan # <<>>
  /\ respChan' = Tail(respChan)
  /\ LET resp == Head(respChan)
         named == {resp.units[i].unit : i \in DOMAIN resp.units}
         entry(u) == UnitEntry(resp, CHOOSE i \in Places(resp, u) : TRUE)
     IN  /\ nodes' = Put(nodes, resp.node, [health |-> resp.health, units |-> resp.units])
         /\ units' = [u \in DOMAIN units \cup named |->
                        CASE u \notin named -> units[u]
                          [] u \notin DOMAIN units -> entry(u)
                          [] OTHER -> Merged(units[u], entry(u))]
  /\ UNCHANGED <<nodeVars, pull, ppc, found, hpc, heard, owed, basis, tree, readVars>>

\* Whoever reads the tree without its lock may now see half of an update.
Disturb == clean' = (rpc = "idle") /\ UNCHANGED <<rpc, seen, mixed>>

\* The channel is empty. UpdateMonitoringResponse takes the lock, which it holds
\* until SetUnits, and sets the fields one by one.
SetNodes ==
  /\ ppc = "drain"
  /\ respChan = <<>>
  /\ tree' = [tree EXCEPT !.nodes = nodes]
  /\ ppc' = "units"
  /\ Disturb
  /\ UNCHANGED <<nodeVars, pull, found, hpc, respChan, nodes, units, heard, owed, basis>>

\* Nobody reads UpdatedTime before the lock is released. The maps of the pull go
\* out of scope.
SetUnits ==
  /\ ppc = "units"
  /\ tree' = [tree EXCEPT !.units = units, !.time = pull]
  /\ ppc' = "idle"
  /\ found' = {} /\ nodes' = Empty /\ units' = Empty
  /\ basis' = [found |-> found, heard |-> heard, owed |-> owed]
  /\ heard' = {} /\ owed' = {}
  /\ Disturb
  /\ UNCHANGED <<nodeVars, pull, hpc, respChan>>

-----------------------------------------------------------------------------
(* The getters of MonitoringResponse, which take the lock, and their handlers, *)
(* which answer 404 to what is not in the tree.                                *)

NotFound == -1
Unlocked == ppc # "units"

GetAllUnits(t) == {[unit |-> u, health |-> t.units[u].health] : u \in DOMAIN t.units}
GetUnit(t, u) == IF u \in DOMAIN t.units THEN t.units[u].health ELSE NotFound
GetNodesForUnit(t, u) == IF u \in DOMAIN t.units THEN t.units[u].nodes ELSE <<>>
\* The first entry of the node for the unit.
GetSpecificNodeForUnit(t, u, n) ==
  LET at == {i \in DOMAIN GetNodesForUnit(t, u) : t.units[u].nodes[i].node = n}
  IN  IF at = {} THEN NotFound
      ELSE t.units[u].nodes[CHOOSE i \in at : \A j \in at : i <= j].health
GetNodes(t) == {[node |-> n, health |-> t.nodes[n].health] : n \in DOMAIN t.nodes}
GetNodeByID(t, n) == IF n \in DOMAIN t.nodes THEN t.nodes[n].health ELSE NotFound
GetNodeUnitsID(t, n) == IF n \in DOMAIN t.nodes THEN t.nodes[n].units ELSE <<>>
GetNodeUnitByNodeIDUnitID(t, n, u) ==
  LET listed == GetNodeUnitsID(t, n)
      at == {i \in DOMAIN listed : listed[i].unit = u}
  IN  IF at = {} THEN NotFound ELSE listed[CHOOSE i \in at : \A j \in at : i <= j].health

\* Two views of the same thing agree: a unit has a node if and only if the node has the
\* unit, says of it what the node says of itself, and is as unhealthy as at its
\* worst node.
Agree(t) ==
  /\ \A u \in Names, n \in Nodes :
       LET listed == GetNodeUnitByNodeIDUnitID(t, n, u)
           entry == GetSpecificNodeForUnit(t, u, n)
       IN  /\ listed = NotFound <=> entry = NotFound
           /\ entry # NotFound => entry = GetNodeByID(t, n)
           /\ listed <= GetUnit(t, u)
  /\ \A x \in GetAllUnits(t) :
       \E n \in DOMAIN t.nodes : GetNodeUnitByNodeIDUnitID(t, n, x.unit) = x.health

\* reportHandler encodes the tree without the lock: the Units, then the Nodes. A
\* map is never changed once it is in the tree.
ReadUnits ==
  /\ rpc = "idle"
  /\ rpc' = "nodes"
  /\ seen' = tree.units
  /\ clean' = Unlocked
  /\ UNCHANGED mixed

ReadNodes ==
  /\ rpc = "nodes"
  /\ rpc' = "idle" /\ seen' = Empty /\ clean' = TRUE
  /\ mixed' = (mixed \/ (clean /\ ~Agree([units |-> seen, nodes |-> tree.nodes])))

ReportStep == (ReadUnits \/ ReadNodes) /\ UNCHANGED <<nodeVars, pullVars, tree>>

-----------------------------------------------------------------------------
HostStep(n) == HostAnswered(n) \/ HostUnknown(n)
PullStep == WaitForHosts \/ MergeResponse \/ SetNodes \/ SetUnits

Next ==
  \/ NodeNext /\ UNCHANGED <<pullVars, tree, readVars>>
  \/ \E exhibitor, dns, leader, slaves \in BOOLEAN : StartPull(exhibitor, dns, leader, slaves)
  \/ \E n \in Nodes : HostStep(n)
  \/ PullStep
  \/ ReportStep

Spec == Init /\ [][Next]_vars

-----------------------------------------------------------------------------
(* Properties. *)

\* Types: a response names units of its node, the tree maps nodes and units.
TypeOK ==
  /\ NodeTypeOK
  /\ pull \in 0..MaxPulls
  /\ ppc \in {"idle", "wait", "drain", "units"}
  /\ found \subseteq Nodes
  /\ hpc \in [Nodes -> {"off", "get"}]
  /\ \A i \in DOMAIN respChan :
       /\ respChan[i].node \in found
       /\ respChan[i].health \in {Healthy, Unhealthy, Unknown}
  /\ Len(respChan) <= Cardinality(found)
  /\ \A m \in {nodes, tree.nodes} : DOMAIN m \subseteq Nodes
  /\ \A m \in {units, tree.units, seen} : DOMAIN m \subseteq Names
  /\ tree.time \in 0..pull
  /\ rpc \in {"idle", "nodes"}
  /\ heard \subseteq found /\ owed \subseteq heard \X Names
  /\ basis.heard \subseteq Nodes /\ basis.owed \subseteq basis.heard \X Names
  /\ clean \in BOOLEAN /\ mixed \in BOOLEAN

\* The tree is that of one pull: it has every node the pull found and no other,
\* none left from an earlier pull, and exactly the ones that did not answer in
\* time are unknown, however late answers and updates interleave.
TreeCoversPull ==
  Unlocked =>
    /\ {x.node : x \in GetNodes(tree)} = basis.found
    /\ \A x \in GetNodes(tree) : x.health = Unknown <=> x.node \notin basis.heard

\* A unit that did not serve all the time a node worked on its report is shown as
\* unhealthy, with its node, to whoever asks for the unit or for the node, if the
\* node answered in time and none of its calls failed. One healthy node does not
\* hide it.
SickIsShown ==
  Unlocked =>
    \A n \in Nodes, u \in Names : <<n, u>> \in basis.owed =>
      /\ GetNodeByID(tree, n) = Unhealthy
      /\ GetNodeUnitByNodeIDUnitID(tree, n, u) = Unhealthy
      /\ GetUnit(tree, u) = Unhealthy
      /\ GetSpecificNodeForUnit(tree, u, n) = Unhealthy

\* Whoever takes the lock sees two views that agree; the report, which does not,
\* does so unless an update overlapped it.
ViewsAgree ==
  /\ Unlocked => Agree(tree)
  /\ ~mixed

\* No lock is left behind: whoever holds a lock of a node is a request at work on that
\* node or one whose journal hangs, and the connection is open only while its lock is
\* held, also after the bus, the directory or a unit could not be read.
LocksHaveOwners ==
  \A n \in Nodes :
    /\ mutex[n] # Nobody =>
         At[mutex[n]] = n /\ pc[mutex[n]] \in {"open", "names", "units", "reply", "hung"}
    /\ tools[n] # Nobody => tools[n] = mutex[n] /\ pc[tools[n]] \in {"names", "units", "hung"}
    /\ dcon[n] <=> tools[n] # Nobody

=============================================================================
