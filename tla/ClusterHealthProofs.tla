------------------------- MODULE ClusterHealthProofs -------------------------
(* Proofs about ClusterHealth, for every set of nodes, units and properties and *)
(* every number of pulls and events.                                           *)
EXTENDS ClusterHealth, FiniteSetTheorems, SequenceTheorems, WellFoundedInduction, TLAPS

-----------------------------------------------------------------------------
(* The inductive invariant. *)

\* What a node says of a unit, what it answers, and what is kept of both.
Healths == {Healthy, Unhealthy, Unknown}
Listing == [unit : Names, health : {Healthy, Unhealthy}]
Response == [node : Nodes, health : Healths, units : Seq(Listing)]
NodeEntry == [health : Healths, units : Seq(Listing)]
UnitNodes == [health : {Healthy, Unhealthy}, nodes : Seq([node : Nodes, health : Healths])]

\* The types: those of TypeOK, except that of the channel, which Covered implies,
\* and what TypeOK leaves open.
Typed ==
  /\ NodeTypeOK
  /\ pull \in 0..MaxPulls
  /\ ppc \in {"idle", "wait", "drain", "units"}
  /\ found \subseteq Nodes
  /\ hpc \in [Nodes -> {"off", "get"}]
  /\ rpc \in {"idle", "nodes"}
  /\ clean \in BOOLEAN /\ mixed \in BOOLEAN
  /\ heard \subseteq found /\ owed \subseteq heard \X Names
  /\ basis.heard \subseteq Nodes /\ basis.owed \subseteq basis.heard \X Names
Shaped ==
  /\ respChan \in Seq(Response)
  /\ \A m \in {nodes, tree.nodes} : DOMAIN m \subseteq Nodes
  /\ \A m \in {nodes, tree.nodes} : \A n \in DOMAIN m : m[n] \in NodeEntry
  /\ \A m \in {units, tree.units, seen} : DOMAIN m \subseteq Names
  /\ \A m \in {units, tree.units} : \A u \in DOMAIN m : m[u] \in UnitNodes
  /\ tree = [nodes |-> tree.nodes, units |-> tree.units, time |-> tree.time]
  /\ tree.time \in 0..pull

\* Besides: whoever is at work holds the lock of its node.
Owners ==
  /\ LocksHaveOwners
  /\ \A r \in Reqs :
       /\ pc[r] \in {"open", "names", "units", "reply", "hung"} => mutex[At[r]] = r
       /\ pc[r] \in {"names", "units", "hung"} => tools[At[r]] = r

\* A list of units has none twice.
Distinct(listed) ==
  \A i, j \in DOMAIN listed : listed[i].unit = listed[j].unit => i = j

\* A report has no unit twice, and none that is still to be looked at.
Once ==
  \A r \in Reqs :
    /\ pc[r] \in {"idle", "lock", "open", "names"} => report[r] = <<>>
    /\ Distinct(report[r])
    /\ IsInjective(rest[r])
    /\ pc[r] = "units" =>
         \A i \in DOMAIN report[r], j \in DOMAIN rest[r] : report[r][i].unit # rest[r][j]

\* listed says that u is unhealthy.
Shows(listed, u) == \E i \in DOMAIN listed : listed[i] = [unit |-> u, health |-> Unhealthy]

\* A unit that is unhealthy all the time is in the report, or still to be looked at.
Noticed ==
  \A r \in Reqs :
    /\ pc[r] # "end" => steady[r] \subseteq Ailing(At[r])
    /\ pc[r] \in {"units", "reply", "end"} /\ ~failed[r] =>
         \A u \in steady[r] :
           \/ pc[r] = "units" /\ \E j \in DOMAIN rest[r] : rest[r][j] = u
           \/ Shows(report[r], u)

\* The variables of a pull are empty before and after it, and its goroutines are
\* over when the wait is.
Scoped ==
  /\ ppc = "idle" => found = {} /\ heard = {} /\ owed = {}
  /\ ppc \in {"idle", "wait"} => DOMAIN nodes = {} /\ DOMAIN units = {}
  /\ ppc \in {"idle", "units"} => respChan = <<>>
  /\ \A n \in Nodes : hpc[n] = "get" => ppc = "wait" /\ n \in found /\ n \notin heard
  /\ ppc # "idle" => pull > 0

\* What is said of node n, if hd are the nodes that answered and ow what has to be
\* shown as unhealthy.
Right(n, health, listed, hd, ow) ==
  /\ health = Unknown <=> n \notin hd
  /\ Distinct(listed)
  /\ \A u \in Names : <<n, u>> \in ow => health = Unhealthy /\ Shows(listed, u)

\* Every node found is waited for, in the channel or in the map, and only in one
\* of them.
Covered ==
  /\ \A i \in DOMAIN respChan :
       /\ respChan[i].node \in found
       /\ hpc[respChan[i].node] = "off"
       /\ respChan[i].node \notin DOMAIN nodes
       /\ Right(respChan[i].node, respChan[i].health, respChan[i].units, heard, owed)
  /\ \A i, j \in DOMAIN respChan : respChan[i].node = respChan[j].node => i = j
  /\ \A n \in DOMAIN nodes :
       /\ n \in found
       /\ hpc[n] = "off"
       /\ Right(n, nodes[n].health, nodes[n].units, heard, owed)
  /\ \A n \in found :
       hpc[n] = "off" => n \in DOMAIN nodes \/ \E i \in DOMAIN respChan : respChan[i].node = n

\* Two maps that say the same: what a unit says of a node the node says of itself,
\* and the other way round; some node is as unhealthy as the unit.
Consistent(ns, us) ==
  /\ \A u \in DOMAIN us : \A i \in DOMAIN us[u].nodes :
       LET e == us[u].nodes[i]
       IN  /\ e.node \in DOMAIN ns
           /\ e.health = ns[e.node].health
           /\ \E j \in DOMAIN ns[e.node].units : ns[e.node].units[j].unit = u
  /\ \A n \in DOMAIN ns : \A j \in DOMAIN ns[n].units :
       LET u == ns[n].units[j].unit
       IN  /\ u \in DOMAIN us
           /\ ns[n].units[j].health <= us[u].health
           /\ \E i \in DOMAIN us[u].nodes : us[u].nodes[i].node = n
  /\ \A u \in DOMAIN us : \E n \in DOMAIN ns : \E j \in DOMAIN ns[n].units :
       ns[n].units[j] = [unit |-> u, health |-> us[u].health]

\* The tree is that of the pull it is based on; half of an update is seen only
\* between SetNodes and SetUnits.
Updated ==
  /\ Consistent(nodes, units)
  /\ basis.heard \subseteq basis.found
  /\ ppc = "units" => tree.nodes = nodes
  /\ Unlocked =>
       /\ Consistent(tree.nodes, tree.units)
       /\ DOMAIN tree.nodes = basis.found
       /\ \A n \in DOMAIN tree.nodes :
            Right(n, tree.nodes[n].health, tree.nodes[n].units, basis.heard, basis.owed)

\* A report that no update overlaps has the units of the tree.
Read ==
  /\ rpc = "nodes" /\ clean => Unlocked /\ seen = tree.units
  /\ ~mixed

IInv == Typed /\ Shaped /\ Owners /\ Once /\ Noticed /\ Scoped /\ Covered /\ Updated /\ Read

-----------------------------------------------------------------------------
(* The model's operators. *)

\* A unit is healthy or unhealthy; one that does not serve is unhealthy.
LEMMA UnitIsJudged ==
  ASSUME NEW p \in UnitProperties
  PROVE  /\ CheckUnitHealth(p) \in {Healthy, Unhealthy}
         /\ ~Serves(p) => CheckUnitHealth(p) = Unhealthy
<1>0. p.up \in Nat /\ p.down \in Nat
  BY DEF UnitProperties
<1>1. p.up = 0 \/ p.down > p.up <=> ~(p.up > 0 /\ p.down <= p.up)
  BY <1>0
<1>2. p.active \in {"", "active", "inactive", "activating", "failed"}
  BY DEF UnitProperties
<1> DEFINE quick == p.up = 0 \/ p.down > p.up
           slow == p.up > 0 /\ p.down <= p.up
           k == CASE p.load # "loaded" -> Unhealthy
                  [] p.active \notin {"active", "inactive", "activating"} -> Unhealthy
                  [] p.exec # 0 -> Unhealthy
                  [] /\ p.active = "activating" /\ p.sub = "auto-restart"
                     /\ quick -> Unhealthy
                  [] p.active = "inactive" -> Unhealthy
                  [] OTHER -> Healthy
<1>3. quick <=> ~slow
  BY <1>1, Zenon
<1>4. CheckUnitHealth(p) = k
  BY Zenon DEF CheckUnitHealth
<1>5. Serves(p) <=> /\ p.load = "loaded" /\ p.exec = 0
                    /\ \/ p.active = "active"
                       \/ p.active = "activating" /\ (p.sub = "auto-restart" => slow)
  BY Zenon DEF Serves
<1> HIDE DEF quick, slow
<1>6. k \in {Healthy, Unhealthy}
  BY Zenon
<1>7. ~Serves(p) => k = Unhealthy
  BY <1>2, <1>3, <1>5, Zenon
<1> HIDE DEF k
<1>8. QED
  BY <1>4, <1>6, <1>7

\* The finders return nodes of the cluster.
LEMMA FoundAreNodes ==
  ASSUME NEW exhibitor \in BOOLEAN, NEW dns \in BOOLEAN,
         NEW leader \in BOOLEAN, NEW slaves \in BOOLEAN
  PROVE  GetMasterNodes(exhibitor, dns) \cup GetAgentNodes(leader, slaves) \subseteq Nodes
<1>1. GetMasterNodes(exhibitor, dns) = Masters \/ GetMasterNodes(exhibitor, dns) = {}
  BY Zenon DEF GetMasterNodes
<1>2. GetAgentNodes(leader, slaves) = Agents \/ GetAgentNodes(leader, slaves) = {}
  BY Zenon DEF GetAgentNodes
<1>3. QED
  BY <1>1, <1>2, RolesAssumption

\* The units everybody should hear of have names.
LEMMA AilingAreNames == ASSUME NEW n \in Nodes PROVE Ailing(n) \subseteq Names
  BY WantsAssumption DEF Ailing, Range

\* The health of a node is that of a list.
LEMMA HostIsJudged ==
  ASSUME NEW listed
  PROVE  HostHealth(listed) \in {Healthy, Unhealthy}
  BY DEF HostHealth

-----------------------------------------------------------------------------
(* Types. *)

\* The requests of the current pull, and of the next one, are requests.
LEMMA RequestsOfPull ==
  ASSUME Typed
  PROVE  /\ pull < MaxPulls => \A n \in Nodes : <<n, pull + 1>> \in Reqs /\ At[<<n, pull + 1>>] = n
         /\ pull > 0 => \A n \in Nodes : Request(n) \in Reqs /\ At[Request(n)] = n
<1>1. pull \in 0..MaxPulls
  BY DEF Typed
<1>2. QED
  BY <1>1, RequestsAssumption DEF Request

\* The request of a goroutine that waits for its node.
LEMMA RequestOfHost ==
  ASSUME Typed, Scoped, NEW n \in Nodes, hpc[n] = "get"
  PROVE  Request(n) \in Reqs /\ At[Request(n)] = n
  BY RequestsOfPull DEF Scoped

\* What a failing call, and any other event, does to the history.
LEMMA Failures ==
  ASSUME NodeTypeOK
  PROVE  /\ Event => events' \in 0..MaxEvents
         /\ \A r \in Reqs : Fault(r) \/ NoFault => /\ failed' \in [Reqs -> BOOLEAN]
                                                   /\ events' \in 0..MaxEvents
<1>1. events \in 0..MaxEvents /\ failed \in [Reqs -> BOOLEAN]
  BY DEF NodeTypeOK
<1>2. Event => events' \in 0..MaxEvents
  BY <1>1, BoundsAssumption DEF Event
<1>3. ASSUME NEW r \in Reqs PROVE [failed EXCEPT ![r] = TRUE] \in [Reqs -> BOOLEAN]
  BY <1>1, Zenon
<1>4. QED
  BY <1>1, <1>2, <1>3 DEF Fault, NoFault

\* The steps of the nodes and those of the puller keep the types of the nodes.
LEMMA NodeTypeStep == Typed /\ Scoped /\ [Next]_vars => NodeTypeOK'
<1> SUFFICES ASSUME Typed, Scoped, [Next]_vars PROVE NodeTypeOK'
  OBVIOUS
<1>0. NodeTypeOK
  BY DEF Typed
<1> USE NobodyAssumption, WantsAssumption, BoundsAssumption
    DEF NodeTypeOK, locks, nodeVars, Goto
<1>1. ASSUME NEW r \in Reqs, LockUnits(r) PROVE NodeTypeOK'
  BY <1>0, <1>1 DEF LockUnits
<1>2. ASSUME NEW r \in Reqs, OpenConnection(r) PROVE NodeTypeOK'
  <2>1. Fault(r) \/ NoFault
    BY <1>2, Zenon DEF OpenConnection
  <2>2. dcon' \in [Nodes -> BOOLEAN]
    BY <1>0, <1>2, Zenon DEF OpenConnection, OpenFailed
  <2>3. tools' \in [Nodes -> Reqs \cup {Nobody}]
    <3>1. tools' = tools \/ tools' = [tools EXCEPT ![At[r]] = r]
      BY <1>2, Zenon DEF OpenConnection, OpenFailed
    <3>2. QED
      BY <1>0, <3>1
  <2>4. pc' \in [Reqs -> {"idle", "lock", "open", "names", "units", "hung", "reply", "end"}]
    BY <1>0, <1>2 DEF OpenConnection
  <2>5. UNCHANGED <<props, mutex, rest, report, steady>>
    BY <1>2 DEF OpenConnection
  <2>6. QED
    BY <1>0, <2>1, <2>2, <2>3, <2>4, <2>5, Failures
<1>3. ASSUME NEW r \in Reqs, GetUnitNames(r) PROVE NodeTypeOK'
  <2>1. Fault(r) \/ NoFault
    BY <1>3, Zenon DEF GetUnitNames
  <2>2. \/ rest' = [rest EXCEPT ![r] = Wants[At[r]]]
        \/ rest' = [rest EXCEPT ![r] = <<>>]
    BY <1>3, Zenon DEF GetUnitNames
  <2>3. Wants[At[r]] \in Seq(Names) /\ <<>> \in Seq(Names)
    OBVIOUS
  <2>4. rest' \in [Reqs -> Seq(Names)]
    BY <1>0, <2>2, <2>3
  <2>5. pc' \in [Reqs -> {"idle", "lock", "open", "names", "units", "hung", "reply", "end"}]
    BY <1>0, <1>3 DEF GetUnitNames
  <2>6. UNCHANGED <<props, locks, report, steady>>
    BY <1>3 DEF GetUnitNames
  <2>7. QED
    BY <1>0, <2>1, <2>4, <2>5, <2>6, Failures
<1>4. ASSUME NEW r \in Reqs, CheckUnit(r) PROVE NodeTypeOK'
  <2> DEFINE u == Head(rest[r])
             p == props[At[r]][u]
  <2>1. u \in Names /\ Tail(rest[r]) \in Seq(Names)
    BY <1>0, <1>4, HeadTailProperties DEF CheckUnit
  <2>2. p \in UnitProperties
    BY <1>0, <2>1, PropertiesAssumption
  <2>3. [unit |-> u, health |-> CheckUnitHealth(p)] \in [unit : Names, health : {Healthy, Unhealthy}]
    BY <2>1, <2>2, UnitIsJudged
  <2>4. Append(report[r], [unit |-> u, health |-> CheckUnitHealth(p)])
          \in Seq([unit : Names, health : {Healthy, Unhealthy}])
    BY <1>0, <2>3, AppendProperties
  <2>5. rest' = [rest EXCEPT ![r] = Tail(@)]
    BY <1>4 DEF CheckUnit, Skip, List
  <2>6. \/ report' = report
        \/ report' = [report EXCEPT ![r] = Append(@, [unit |-> u, health |-> CheckUnitHealth(p)])]
    BY <1>4 DEF CheckUnit, Skip, List
  <2>7. Fault(r) \/ NoFault
    BY <1>4, Zenon DEF CheckUnit
  <2>8. UNCHANGED <<props, locks, pc, steady>>
    BY <1>4 DEF CheckUnit
  <2>9. rest' \in [Reqs -> Seq(Names)]
    BY <1>0, <2>1, <2>5
  <2>10. report' \in [Reqs -> Seq([unit : Names, health : {Healthy, Unhealthy}])]
    BY <1>0, <2>4, <2>6
  <2> HIDE DEF u, p
  <2>11. QED
    BY <1>0, <2>7, <2>8, <2>9, <2>10, Failures
<1>5. ASSUME NEW r \in Reqs, CloseConnection(r) PROVE NodeTypeOK'
  BY <1>0, <1>5 DEF CloseConnection
<1>6. ASSUME NEW r \in Reqs, Reply(r) PROVE NodeTypeOK'
  BY <1>0, <1>6 DEF Reply
<1>7. ASSUME NEW r \in Reqs, Hang(r) PROVE NodeTypeOK'
  BY <1>0, <1>7, Failures DEF Hang
<1>8. ASSUME NEW n \in Nodes, NEW p \in Properties, NEW u \in Range(Wants[n]) \ Excluded,
             ChangeUnit(n, u, p)
      PROVE  NodeTypeOK'
  <2>1. u \in Names
    BY DEF Range
  <2>2. props' \in [Nodes -> [Names -> Properties]]
    BY <1>0, <1>8, <2>1 DEF ChangeUnit
  <2>3. steady' \in [Reqs -> SUBSET Names]
    BY <1>0, <1>8 DEF ChangeUnit
  <2>4. QED
    BY <1>0, <1>8, <2>2, <2>3, Failures DEF ChangeUnit
<1>9. ASSUME NEW exhibitor \in BOOLEAN, NEW dns \in BOOLEAN, NEW leader \in BOOLEAN,
             NEW slaves \in BOOLEAN, StartPull(exhibitor, dns, leader, slaves)
      PROVE  NodeTypeOK'
  <2>1. \A r \in Reqs : Ailing(At[r]) \subseteq Names
    BY AilingAreNames
  <2>2. PICK R : Arrive(R)
    BY <1>9 DEF StartPull
  <2>3. events' \in 0..MaxEvents
    BY <1>0, <1>9, Failures DEF StartPull
  <2>4. pc' \in [Reqs -> {"idle", "lock", "open", "names", "units", "hung", "reply", "end"}]
    BY <1>0, <2>2 DEF Arrive
  <2>5. steady' \in [Reqs -> SUBSET Names]
    BY <1>0, <2>1, <2>2 DEF Arrive
  <2>6. UNCHANGED <<props, locks, rest, report, failed>>
    BY <2>2 DEF Arrive
  <2>7. QED
    BY <1>0, <2>3, <2>4, <2>5, <2>6
<1>10. ASSUME NEW n \in Nodes, HostAnswered(n) PROVE NodeTypeOK'
  <2>1. Request(n) \in Reqs
    BY <1>10, RequestOfHost DEF HostAnswered
  <2>2. <<>> \in Seq([unit : Names, health : {Healthy, Unhealthy}])
    OBVIOUS
  <2>3. QED
    BY <1>0, <1>10, <2>1, <2>2 DEF HostAnswered, Forget
<1>11. ASSUME NEW n \in Nodes, HostUnknown(n) PROVE NodeTypeOK'
  <2>1. Request(n) \in Reqs
    BY <1>11, RequestOfHost DEF HostUnknown
  <2>2. QED
    BY <1>0, <1>11, <2>1 DEF HostUnknown
<1>12. ASSUME PullStep \/ ReportStep \/ UNCHANGED vars PROVE NodeTypeOK'
  <2>1. UNCHANGED nodeVars
    BY <1>12 DEF PullStep, ReportStep, WaitForHosts, MergeResponse, SetNodes, SetUnits, vars
  <2>2. QED
    BY <1>0, <2>1
<1>13. QED
  BY <1>1, <1>2, <1>3, <1>4, <1>5, <1>6, <1>7, <1>8, <1>9, <1>10, <1>11, <1>12
     DEF Next, NodeNext, HealthStep, HostStep

\* The puller keeps the types of its own variables.
LEMMA TypedStep == Typed /\ Shaped /\ Scoped /\ [Next]_vars => Typed'
<1> SUFFICES ASSUME Typed, Shaped, Scoped, [Next]_vars PROVE Typed'
  OBVIOUS
<1>0. NodeTypeOK'
  BY NodeTypeStep
<1> USE RequestsAssumption DEF Typed, pullVars, readVars
<1>1. ASSUME UNCHANGED <<pullVars, tree, readVars>> PROVE Typed'
  BY <1>0, <1>1
<1>2. ASSUME NEW exhibitor \in BOOLEAN, NEW dns \in BOOLEAN, NEW leader \in BOOLEAN,
             NEW slaves \in BOOLEAN, StartPull(exhibitor, dns, leader, slaves)
      PROVE  Typed'
  BY <1>0, <1>2, FoundAreNodes DEF StartPull, Scoped
<1>3. ASSUME NEW n \in Nodes, HostAnswered(n) PROVE Typed'
  <2>1. Request(n) \in Reqs /\ n \in found
    BY <1>3, RequestOfHost DEF HostAnswered, Scoped
  <2>2. steady[Request(n)] \subseteq Names
    BY <2>1 DEF NodeTypeOK
  <2>3. owed' \subseteq heard' \X Names
    BY <1>3, <2>2 DEF HostAnswered
  <2>4. QED
    BY <1>0, <1>3, <2>1, <2>3 DEF HostAnswered, Send
<1>4. ASSUME NEW n \in Nodes, HostUnknown(n) PROVE Typed'
  BY <1>0, <1>4 DEF HostUnknown, Send
<1>5. ASSUME WaitForHosts PROVE Typed'
  BY <1>0, <1>5 DEF WaitForHosts
<1>6. ASSUME MergeResponse PROVE Typed'
  BY <1>0, <1>6 DEF MergeResponse
<1>7. ASSUME SetNodes PROVE Typed'
  BY <1>0, <1>7 DEF SetNodes, Disturb
<1>8. ASSUME SetUnits PROVE Typed'
  BY <1>0, <1>8 DEF SetUnits, Disturb
<1>9. ASSUME ReportStep PROVE Typed'
  <2>0. mixed \in BOOLEAN
    OBVIOUS
  <2>1. clean' \in BOOLEAN /\ mixed' \in BOOLEAN
    <3>1. CASE ReadUnits
      BY ONLY <2>0, <3>1, Zenon DEF ReadUnits, Unlocked
    <3>2. CASE ReadNodes
      BY ONLY <2>0, <3>2, Zenon DEF ReadNodes
    <3>3. QED
      BY <1>9, <3>1, <3>2 DEF ReportStep
  <2>2. QED
    BY <1>0, <1>9, <2>1 DEF ReportStep, ReadUnits, ReadNodes
<1>10. QED
  BY <1>1, <1>2, <1>3, <1>4, <1>5, <1>6, <1>7, <1>8, <1>9
     DEF Next, HostStep, PullStep, vars

\* What MergeResponse does to the maps: the node gets its entry; the units it does
\* not name stay as they are, and an entry is added to the others.
MergedWith(u, i) ==
  LET resp == Head(respChan)
      e == UnitEntry(resp, i)
  IN  /\ i \in DOMAIN resp.units /\ resp.units[i].unit = u
      /\ \/ u \notin DOMAIN units /\ units'[u] = e
         \/ u \in DOMAIN units /\ units'[u] = Merged(units[u], e)

LEMMA MergeEffects ==
  ASSUME MergeResponse
  PROVE  LET resp == Head(respChan)
             named == {resp.units[i].unit : i \in DOMAIN resp.units}
         IN  /\ DOMAIN nodes' = DOMAIN nodes \cup {resp.node}
             /\ nodes'[resp.node] = [health |-> resp.health, units |-> resp.units]
             /\ \A n \in DOMAIN nodes : n # resp.node => nodes'[n] = nodes[n]
             /\ DOMAIN units' = DOMAIN units \cup named
             /\ \A u \in DOMAIN units : u \notin named => units'[u] = units[u]
             /\ \A u \in named : \E i \in DOMAIN resp.units : MergedWith(u, i)
<1> DEFINE resp == Head(respChan)
           named == {resp.units[i].unit : i \in DOMAIN resp.units}
           entry(u) == UnitEntry(resp, CHOOSE i \in Places(resp, u) : TRUE)
           value(u) == CASE u \notin named -> units[u]
                         [] u \notin DOMAIN units -> entry(u)
                         [] OTHER -> Merged(units[u], entry(u))
<1>1. nodes' = Put(nodes, resp.node, [health |-> resp.health, units |-> resp.units])
  BY Zenon DEF MergeResponse
<1>2. units' = [u \in DOMAIN units \cup named |-> value(u)]
  BY Zenon DEF MergeResponse
<1>3. \A u \in DOMAIN units : u \notin named => value(u) = units[u]
  BY Zenon
<1>4. \A u : u \in named /\ u \notin DOMAIN units => value(u) = entry(u)
  BY Zenon
<1>5. \A u : u \in named /\ u \in DOMAIN units => value(u) = Merged(units[u], entry(u))
  BY Zenon
<1>6. ASSUME NEW u \in named
      PROVE  LET i == CHOOSE i \in Places(resp, u) : TRUE
             IN  i \in DOMAIN resp.units /\ resp.units[i].unit = u
  <2>1. \E i : i \in Places(resp, u)
    BY DEF Places
  <2>2. (CHOOSE i \in Places(resp, u) : TRUE) \in Places(resp, u)
    BY <2>1, Zenon
  <2>3. QED
    BY <2>2 DEF Places
<1> HIDE DEF value
<1>7. DOMAIN units' = DOMAIN units \cup named
  BY <1>2, Zenon
<1>8. \A u \in DOMAIN units \cup named : units'[u] = value(u)
  BY <1>2, Zenon
<1>9. ASSUME NEW u \in named PROVE \E i \in DOMAIN resp.units : MergedWith(u, i)
  <2> DEFINE i == CHOOSE i \in Places(resp, u) : TRUE
  <2>1. i \in DOMAIN resp.units /\ resp.units[i].unit = u
    BY <1>6, Zenon
  <2>2. units'[u] = value(u)
    BY <1>8, Zenon
  <2>3. \/ u \notin DOMAIN units /\ units'[u] = UnitEntry(resp, i)
        \/ u \in DOMAIN units /\ units'[u] = Merged(units[u], UnitEntry(resp, i))
    BY <1>4, <1>5, <2>2, Zenon
  <2> HIDE DEF i
  <2>4. QED
    BY <2>1, <2>3, Zenon DEF MergedWith
<1>10. /\ DOMAIN nodes' = DOMAIN nodes \cup {resp.node}
       /\ nodes'[resp.node] = [health |-> resp.health, units |-> resp.units]
       /\ \A n \in DOMAIN nodes : n # resp.node => nodes'[n] = nodes[n]
  BY <1>1 DEF Put
<1>11. \A u \in DOMAIN units : u \notin named => units'[u] = units[u]
  BY <1>3, <1>8, Zenon
<1>12. QED
  BY <1>7, <1>9, <1>10, <1>11, Zenon

\* What is merged keeps its shape: the channel, the maps and the tree.
LEMMA ShapedStep == Typed /\ Shaped /\ Scoped /\ [Next]_vars => Shaped'
<1> SUFFICES ASSUME Typed, Shaped, Scoped, [Next]_vars PROVE Shaped'
  OBVIOUS
<1>0. pull \in Nat
  BY RequestsAssumption DEF Typed
<1> USE DEF Shaped, pullVars, readVars
<1>1. ASSUME UNCHANGED <<pullVars, tree, readVars>> PROVE Shaped'
  BY <1>1
<1>2. ASSUME NEW exhibitor \in BOOLEAN, NEW dns \in BOOLEAN, NEW leader \in BOOLEAN,
             NEW slaves \in BOOLEAN, StartPull(exhibitor, dns, leader, slaves)
      PROVE  Shaped'
  BY <1>0, <1>2 DEF StartPull
<1>3. ASSUME NEW n \in Nodes, NEW health \in Healths, NEW listed \in Seq(Listing),
             Send(n, health, listed), UNCHANGED <<pull, nodes, units, tree, readVars>>
      PROVE  Shaped'
  <2>1. [node |-> n, health |-> health, units |-> listed] \in Response
    BY DEF Response
  <2>2. respChan' \in Seq(Response)
    BY <1>3, <2>1, AppendProperties DEF Send
  <2>3. QED
    BY <1>3, <2>2
<1>4. ASSUME NEW n \in Nodes, HostAnswered(n) PROVE Shaped'
  <2>1. Request(n) \in Reqs
    BY <1>4, RequestOfHost DEF HostAnswered
  <2>2. report[Request(n)] \in Seq(Listing)
    BY <2>1 DEF Typed, NodeTypeOK, Listing
  <2>3. HostHealth(report[Request(n)]) \in Healths
    BY HostIsJudged DEF Healths
  <2>4. QED
    BY <1>3, <1>4, <2>2, <2>3 DEF HostAnswered
<1>5. ASSUME NEW n \in Nodes, HostUnknown(n) PROVE Shaped'
  <2>1. <<>> \in Seq(Listing) /\ Unknown \in Healths
    BY DEF Healths
  <2>2. QED
    BY <1>3, <1>5, <2>1 DEF HostUnknown
<1>6. ASSUME WaitForHosts PROVE Shaped'
  BY <1>6 DEF WaitForHosts, Empty
<1>7. ASSUME MergeResponse PROVE Shaped'
  <2> DEFINE resp == Head(respChan)
             named == {resp.units[i].unit : i \in DOMAIN resp.units}
  <2>1. resp \in Response /\ respChan' \in Seq(Response)
    BY <1>7, HeadTailProperties DEF MergeResponse
  <2>2. UNCHANGED <<pull, tree, readVars>>
    BY <1>7 DEF MergeResponse
  <2>3. /\ resp.node \in Nodes /\ resp.health \in Healths /\ resp.units \in Seq(Listing)
        /\ \A i \in DOMAIN resp.units : resp.units[i] \in Listing
    BY <2>1 DEF Response
  <2>4. /\ DOMAIN nodes' = DOMAIN nodes \cup {resp.node}
        /\ nodes'[resp.node] = [health |-> resp.health, units |-> resp.units]
        /\ \A n \in DOMAIN nodes : n # resp.node => nodes'[n] = nodes[n]
        /\ DOMAIN units' = DOMAIN units \cup named
        /\ \A u \in DOMAIN units : u \notin named => units'[u] = units[u]
        /\ \A u \in named : \E i \in DOMAIN resp.units : MergedWith(u, i)
    BY <1>7, MergeEffects, Zenon
  <2>5. \A n \in DOMAIN nodes' : n \in Nodes /\ nodes'[n] \in NodeEntry
    BY <2>3, <2>4 DEF NodeEntry
  <2>6. ASSUME NEW i \in DOMAIN resp.units PROVE UnitEntry(resp, i) \in UnitNodes
    <3>1. resp.units[i].health \in {Healthy, Unhealthy}
      BY <2>3 DEF Listing
    <3>2. [node |-> resp.node, health |-> resp.health] \in [node : Nodes, health : Healths]
      BY <2>3
    <3>3. <<[node |-> resp.node, health |-> resp.health]>> \in Seq([node : Nodes, health : Healths])
      BY <3>2
    <3>4. QED
      BY <3>1, <3>3 DEF UnitEntry, UnitNodes
  <2>7. ASSUME NEW a \in UnitNodes, NEW b \in UnitNodes PROVE Merged(a, b) \in UnitNodes
    <3>1. a.nodes \o b.nodes \in Seq([node : Nodes, health : Healths])
      BY ConcatProperties DEF UnitNodes
    <3>2. (IF b.health > a.health THEN b.health ELSE a.health) \in {Healthy, Unhealthy}
      BY DEF UnitNodes
    <3>3. QED
      BY <3>1, <3>2 DEF Merged, UnitNodes
  <2>8. ASSUME NEW u \in DOMAIN units' PROVE u \in Names /\ units'[u] \in UnitNodes
    <3>1. CASE u \in named
      <4>1. PICK i \in DOMAIN resp.units : MergedWith(u, i)
        BY <2>4, <3>1
      <4>2. u \in Names
        BY <2>3, <4>1 DEF MergedWith, Listing
      <4>3. UnitEntry(resp, i) \in UnitNodes
        BY <2>6
      <4>4. u \in DOMAIN units => Merged(units[u], UnitEntry(resp, i)) \in UnitNodes
        BY <2>7, <4>3
      <4> HIDE DEF resp, named
      <4>5. \/ units'[u] = UnitEntry(resp, i)
            \/ u \in DOMAIN units /\ units'[u] = Merged(units[u], UnitEntry(resp, i))
        BY <4>1, Zenon DEF MergedWith, resp
      <4>6. QED
        BY <4>2, <4>3, <4>4, <4>5
    <3>2. CASE u \notin named
      BY <2>4, <3>2
    <3>3. QED
      BY <3>1, <3>2
  <2> HIDE DEF resp, named
  <2>9. QED
    BY <2>1, <2>2, <2>5, <2>8
<1>8. ASSUME SetNodes PROVE Shaped'
  <2>1. tree' = [nodes |-> nodes, units |-> tree.units, time |-> tree.time]
    BY <1>8 DEF SetNodes
  <2>2. QED
    BY <1>8, <2>1 DEF SetNodes, Disturb
<1>9. ASSUME SetUnits PROVE Shaped'
  <2>1. tree' = [nodes |-> tree.nodes, units |-> units, time |-> pull]
    BY <1>9 DEF SetUnits
  <2>2. tree'.nodes = tree.nodes /\ tree'.units = units /\ tree'.time = pull
    BY <2>1
  <2>3. DOMAIN nodes' = {} /\ DOMAIN units' = {} /\ UNCHANGED <<seen, pull, respChan>>
    BY <1>9 DEF SetUnits, Disturb, Empty
  <2>4. tree'.time \in 0..pull'
    BY <1>0, <2>2, <2>3
  <2>5. QED
    BY <2>1, <2>2, <2>3, <2>4
<1>10. ASSUME ReportStep PROVE Shaped'
  <2>1. DOMAIN seen' \subseteq Names
    BY <1>10 DEF ReportStep, ReadUnits, ReadNodes, Empty
  <2>2. UNCHANGED <<pullVars, tree>>
    BY <1>10 DEF ReportStep
  <2>3. QED
    BY <2>1, <2>2
<1>11. QED
  BY <1>1, <1>2, <1>4, <1>5, <1>6, <1>7, <1>8, <1>9, <1>10
     DEF Next, HostStep, PullStep, vars

-----------------------------------------------------------------------------
(* The requests at the nodes. *)

\* The two ways InitializeUnitControllerConnection ends: it has the lock, or not.
LEMMA OpenOutcomes ==
  ASSUME NEW r \in Reqs, OpenConnection(r)
  PROVE  /\ pc[r] = "open" /\ tools[At[r]] = Nobody
         /\ UNCHANGED <<props, mutex, rest, report, steady>>
         /\ \/ /\ tools' = [tools EXCEPT ![At[r]] = r]
               /\ dcon' = [dcon EXCEPT ![At[r]] = TRUE]
               /\ pc' = [pc EXCEPT ![r] = "names"]
               /\ failed' = failed
            \/ /\ UNCHANGED <<tools, dcon>>
               /\ pc' = [pc EXCEPT ![r] = "reply"]
               /\ failed' = [failed EXCEPT ![r] = TRUE] \/ (dcon[At[r]] /\ failed' = failed)
  BY Zenon DEF OpenConnection, OpenFailed, Goto, Fault, NoFault

\* The locks and those who hold them.
LEMMA OwnersStep == Typed /\ Scoped /\ Owners /\ [Next]_vars => Owners'
<1> SUFFICES ASSUME Typed, Scoped, Owners, [Next]_vars PROVE Owners'
  OBVIOUS
<1>0. /\ mutex \in [Nodes -> Reqs \cup {Nobody}]
      /\ tools \in [Nodes -> Reqs \cup {Nobody}]
      /\ dcon \in [Nodes -> BOOLEAN]
      /\ DOMAIN pc = Reqs
  BY DEF Typed, NodeTypeOK
<1> USE NobodyAssumption, WantsAssumption DEF Owners, LocksHaveOwners, locks, nodeVars, Goto
<1>1. ASSUME UNCHANGED <<mutex, tools, dcon, pc>> PROVE Owners'
  BY <1>1
<1>2. ASSUME NEW r \in Reqs, LockUnits(r) PROVE Owners'
  BY <1>0, <1>2 DEF LockUnits
<1>3. ASSUME NEW r \in Reqs, OpenConnection(r) PROVE Owners'
  BY <1>0, <1>3, OpenOutcomes, SMTT(30)
<1>4. ASSUME NEW r \in Reqs, GetUnitNames(r) PROVE Owners'
  BY <1>0, <1>4 DEF GetUnitNames
<1>5. ASSUME NEW r \in Reqs, CheckUnit(r) PROVE Owners'
  BY <1>1, <1>5 DEF CheckUnit
<1>6. ASSUME NEW r \in Reqs, Hang(r) PROVE Owners'
  BY <1>0, <1>6 DEF Hang
<1>7. ASSUME NEW r \in Reqs, CloseConnection(r) PROVE Owners'
  BY <1>0, <1>7 DEF CloseConnection
<1>8. ASSUME NEW r \in Reqs, Reply(r) PROVE Owners'
  BY <1>0, <1>8 DEF Reply
<1>9. ASSUME NEW n, NEW u, NEW p, ChangeUnit(n, u, p) PROVE Owners'
  BY <1>1, <1>9 DEF ChangeUnit
<1>10. ASSUME NEW exhibitor, NEW dns, NEW leader, NEW slaves,
              StartPull(exhibitor, dns, leader, slaves)
       PROVE  Owners'
  <2>1. PICK R : Arrive(R)
    BY <1>10 DEF StartPull
  <2>2. QED
    BY <1>0, <2>1 DEF Arrive
<1>11. ASSUME NEW n \in Nodes, HostStep(n) PROVE Owners'
  BY <1>1, <1>11 DEF HostStep, HostAnswered, HostUnknown
<1>12. ASSUME PullStep \/ ReportStep \/ UNCHANGED vars PROVE Owners'
  BY <1>1, <1>12 DEF PullStep, ReportStep, WaitForHosts, MergeResponse, SetNodes, SetUnits, vars
<1>13. QED
  BY <1>2, <1>3, <1>4, <1>5, <1>6, <1>7, <1>8, <1>9, <1>10, <1>11, <1>12
     DEF Next, NodeNext, HealthStep

\* The three ways GetUnits deals with a unit: it leaves it out, with or without a
\* failing call, or it lists it.
LEMMA CheckOutcomes ==
  ASSUME NEW r \in Reqs, CheckUnit(r)
  PROVE  LET u == Head(rest[r])
             p == props[At[r]][u]
         IN  /\ pc[r] = "units" /\ rest[r] # <<>>
             /\ UNCHANGED <<props, pc, steady>>
             /\ rest' = [rest EXCEPT ![r] = Tail(@)]
             /\ \/ report' = report /\ failed' = failed /\ (u \in Excluded \/ ~Checkable(p))
                \/ report' = report /\ failed' = [failed EXCEPT ![r] = TRUE]
                \/ /\ report' = [report EXCEPT ![r] =
                                   Append(@, [unit |-> u, health |-> CheckUnitHealth(p)])]
                   /\ failed' = failed
  BY Zenon DEF CheckUnit, Skip, List, Fault, NoFault

\* The places of a sequence without its first element.
LEMMA TailPlaces ==
  ASSUME NEW S, NEW s \in Seq(S), s # <<>>
  PROVE  /\ Head(s) = s[1] /\ 1 \in DOMAIN s
         /\ \A i \in DOMAIN Tail(s) : i + 1 \in DOMAIN s /\ i + 1 # 1 /\ Tail(s)[i] = s[i + 1]
         /\ \A i \in DOMAIN s : i # 1 => i - 1 \in DOMAIN Tail(s) /\ Tail(s)[i - 1] = s[i]
<1>1. /\ Tail(s) \in Seq(S) /\ Len(Tail(s)) = Len(s) - 1
      /\ \A i \in 1..Len(Tail(s)) : Tail(s)[i] = s[i + 1]
  BY HeadTailProperties
<1>2. Len(s) \in Nat /\ Len(s) # 0 /\ DOMAIN s = 1..Len(s) /\ DOMAIN Tail(s) = 1..Len(Tail(s))
  BY <1>1, EmptySeq, LenProperties
<1>3. QED
  BY <1>1, <1>2

\* The places of a sequence with one element more.
LEMMA AppendPlaces ==
  ASSUME NEW S, NEW s \in Seq(S), NEW x \in S
  PROVE  \E k : /\ k \notin DOMAIN s /\ DOMAIN Append(s, x) = DOMAIN s \cup {k}
                /\ Append(s, x)[k] = x
                /\ \A i \in DOMAIN s : Append(s, x)[i] = s[i]
<1>1. /\ Append(s, x) \in Seq(S) /\ Len(Append(s, x)) = Len(s) + 1
      /\ \A i \in 1..Len(s) : Append(s, x)[i] = s[i]
      /\ Append(s, x)[Len(s) + 1] = x
  BY AppendProperties
<1>2. Len(s) \in Nat /\ DOMAIN s = 1..Len(s) /\ DOMAIN Append(s, x) = 1..(Len(s) + 1)
  BY <1>1, LenProperties
<1>3. /\ Len(s) + 1 \notin DOMAIN s /\ DOMAIN Append(s, x) = DOMAIN s \cup {Len(s) + 1}
  BY <1>2
<1>4. QED
  BY <1>1, <1>2, <1>3

\* What Once says of one request.
OnceAt(r) ==
  /\ pc[r] \in {"idle", "lock", "open", "names"} => report[r] = <<>>
  /\ Distinct(report[r])
  /\ IsInjective(rest[r])
  /\ pc[r] = "units" =>
       \A i \in DOMAIN report[r], j \in DOMAIN rest[r] : report[r][i].unit # rest[r][j]

\* No unit is listed twice.
LEMMA OnceStep == Typed /\ Scoped /\ Once /\ [Next]_vars => Once'
<1> SUFFICES ASSUME Typed, Scoped, Once, [Next]_vars PROVE Once'
  OBVIOUS
<1>0. /\ report \in [Reqs -> Seq(Listing)]
      /\ rest \in [Reqs -> Seq(Names)]
      /\ DOMAIN pc = Reqs
      /\ \A r \in Reqs : OnceAt(r)
  BY DEF Typed, NodeTypeOK, Listing, Once, OnceAt
<1>a. SUFFICES \A r \in Reqs : OnceAt(r)'
  BY DEF Once, OnceAt
<1>b. Distinct(<<>>) /\ IsInjective(<<>>)
  BY DEF Distinct, IsInjective
<1> USE WantsAssumption DEF Goto, locks, nodeVars
\* Whoever keeps its report and its list may take any step but one to the units.
<1>c. ASSUME NEW x \in Reqs, report'[x] = report[x], rest'[x] = rest[x],
             pc'[x] = pc[x] \/ pc'[x] \in {"hung", "reply", "end"}
                            \/ (pc[x] \in {"idle", "lock", "open"} /\ pc'[x] \in {"lock", "open", "names"})
      PROVE  OnceAt(x)'
  BY <1>0, <1>c DEF OnceAt
<1>2. ASSUME NEW r \in Reqs, LockUnits(r) PROVE \A x \in Reqs : OnceAt(x)'
  BY <1>0, <1>2, <1>c DEF LockUnits
<1>3. ASSUME NEW r \in Reqs, OpenConnection(r) PROVE \A x \in Reqs : OnceAt(x)'
  BY <1>0, <1>3, <1>c, OpenOutcomes
<1>4. ASSUME NEW r \in Reqs, GetUnitNames(r) PROVE \A x \in Reqs : OnceAt(x)'
  <2>1. ASSUME NEW x \in Reqs, x # r PROVE OnceAt(x)'
    BY <1>0, <1>4, <1>c, <2>1 DEF GetUnitNames
  <2>2. OnceAt(r)'
    <3>1. report[r] = <<>> /\ report' = report /\ pc[r] = "names"
      BY <1>0, <1>4 DEF GetUnitNames, OnceAt
    <3>2. rest'[r] = Wants[At[r]] \/ rest'[r] = <<>>
      BY <1>0, <1>4 DEF GetUnitNames
    <3>3. IsInjective(Wants[At[r]])
      OBVIOUS
    <3>4. pc'[r] = "units" /\ report'[r] = <<>> /\ IsInjective(rest'[r])
      BY <1>0, <1>4, <1>b, <3>1, <3>2, <3>3 DEF GetUnitNames
    <3>5. QED
      BY <1>b, <3>4 DEF OnceAt
  <2>3. QED
    BY <2>1, <2>2
<1>5. ASSUME NEW r \in Reqs, CheckUnit(r) PROVE \A x \in Reqs : OnceAt(x)'
  <2> DEFINE u == Head(rest[r])
             e == [unit |-> u, health |-> CheckUnitHealth(props[At[r]][u])]
             s == rest[r]
  <2>1. /\ pc[r] = "units" /\ s # <<>> /\ pc' = pc
        /\ rest' = [rest EXCEPT ![r] = Tail(@)]
        /\ report' = report \/ report' = [report EXCEPT ![r] = Append(@, e)]
    BY <1>5, CheckOutcomes
  <2>2. ASSUME NEW x \in Reqs, x # r PROVE OnceAt(x)'
    BY <1>0, <1>c, <2>1, <2>2
  <2>3. s \in Seq(Names) /\ u = s[1] /\ u \in Names
    BY <1>0, <2>1, TailPlaces, HeadTailProperties
  <2>4. /\ \A i \in DOMAIN Tail(s) : i + 1 \in DOMAIN s /\ i + 1 # 1 /\ Tail(s)[i] = s[i + 1]
        /\ 1 \in DOMAIN s
    BY <2>1, <2>3, TailPlaces
  <2>5. DOMAIN Tail(s) \subseteq Nat
    BY <2>1, <2>3, HeadTailProperties
  <2>6. IsInjective(s) /\ \A i \in DOMAIN report[r], j \in DOMAIN s : report[r][i].unit # s[j]
    BY <1>0, <2>1 DEF OnceAt
  <2>7. IsInjective(Tail(s)) /\ \A j \in DOMAIN Tail(s) : Tail(s)[j] # u
    <3> DEFINE t == Tail(s)
    <3>1. /\ \A i \in DOMAIN t : i \in Nat /\ i + 1 \in DOMAIN s /\ i + 1 # 1 /\ t[i] = s[i + 1]
          /\ \A i, j \in DOMAIN s : s[i] = s[j] => i = j
      BY <2>4, <2>5, <2>6 DEF IsInjective
    <3> HIDE DEF s, t, u
    <3>2. \A i, j \in DOMAIN t : t[i] = t[j] => i = j
      BY <3>1
    <3>3. \A j \in DOMAIN t : t[j] # u
      BY <2>3, <2>4, <3>1
    <3>4. QED
      BY <3>2, <3>3 DEF IsInjective, t
  <2>8. \A i \in DOMAIN report[r], j \in DOMAIN Tail(s) : report[r][i].unit # Tail(s)[j]
    BY <2>4, <2>6
  <2>9. rest'[r] = Tail(s)
    BY <1>0, <2>1
  <2>10. CASE report' = report
    <3>1. OnceAt(r)'
      BY <1>0, <2>1, <2>7, <2>8, <2>9, <2>10 DEF OnceAt
    <3>2. QED
      BY <2>2, <3>1
  <2>11. CASE report' = [report EXCEPT ![r] = Append(@, e)]
    <3>1. props[At[r]][u] \in UnitProperties
      BY <2>3, PropertiesAssumption DEF Typed, NodeTypeOK
    <3>2. e \in Listing /\ e.unit = u
      BY <2>3, <3>1, UnitIsJudged DEF Listing
    <3> HIDE DEF e, s, u
    <3>3. PICK k : /\ k \notin DOMAIN report[r]
                   /\ DOMAIN Append(report[r], e) = DOMAIN report[r] \cup {k}
                   /\ Append(report[r], e)[k] = e
                   /\ \A i \in DOMAIN report[r] : Append(report[r], e)[i] = report[r][i]
      <4> DEFINE l == report[r]
      <4>1. l \in Seq(Listing) /\ e \in Listing
        BY <1>0, <3>2
      <4> HIDE DEF l
      <4>2. \E k : /\ k \notin DOMAIN l /\ DOMAIN Append(l, e) = DOMAIN l \cup {k}
                   /\ Append(l, e)[k] = e
                   /\ \A i \in DOMAIN l : Append(l, e)[i] = l[i]
        BY ONLY <4>1, AppendPlaces, SMT
      <4>3. QED
        BY ONLY <4>2, Zenon DEF l
    <3>4. \A i \in DOMAIN report[r] : report[r][i].unit # u
      BY <2>3, <2>4, <2>6
    <3>5. report'[r] = Append(report[r], e)
      BY <1>0, <2>11
    <3>6. Distinct(report[r])
      BY <1>0 DEF OnceAt
    <3>7. Distinct(Append(report[r], e))
      BY <3>2, <3>3, <3>4, <3>6 DEF Distinct
    <3>8. \A i \in DOMAIN Append(report[r], e), j \in DOMAIN Tail(s) :
            Append(report[r], e)[i].unit # Tail(s)[j]
      BY <2>7, <2>8, <3>2, <3>3
    <3> DEFINE l == Append(report[r], e)
               t == Tail(s)
    <3>9. pc'[r] = "units" /\ report'[r] = l /\ rest'[r] = t /\ Distinct(l) /\ IsInjective(t)
      BY <2>1, <2>7, <2>9, <3>5, <3>7
    <3>10. \A i \in DOMAIN l, j \in DOMAIN t : l[i].unit # t[j]
      BY <3>8
    <3> HIDE DEF l, t
    <3>11. OnceAt(r)'
      BY <3>9, <3>10 DEF OnceAt
    <3>12. QED
      BY <2>2, <3>11
  <2>12. QED
    BY <2>1, <2>2, <2>10, <2>11
<1>6. ASSUME NEW r \in Reqs, Hang(r) PROVE \A x \in Reqs : OnceAt(x)'
  BY <1>0, <1>6, <1>c DEF Hang
<1>7. ASSUME NEW r \in Reqs, CloseConnection(r) PROVE \A x \in Reqs : OnceAt(x)'
  BY <1>0, <1>7, <1>c DEF CloseConnection
<1>8. ASSUME NEW r \in Reqs, Reply(r) PROVE \A x \in Reqs : OnceAt(x)'
  BY <1>0, <1>8, <1>c DEF Reply
<1>9. ASSUME NEW n, NEW u, NEW p, ChangeUnit(n, u, p) PROVE \A x \in Reqs : OnceAt(x)'
  BY <1>9, <1>c DEF ChangeUnit
<1>10. ASSUME NEW exhibitor, NEW dns, NEW leader, NEW slaves,
              StartPull(exhibitor, dns, leader, slaves)
       PROVE  \A x \in Reqs : OnceAt(x)'
  <2>1. PICK R : Arrive(R)
    BY <1>10 DEF StartPull
  <2>2. QED
    BY <1>c, <2>1 DEF Arrive
<1>11. ASSUME NEW n \in Nodes, HostAnswered(n) PROVE \A x \in Reqs : OnceAt(x)'
  <2>0. PICK r \in Reqs : r = Request(n)
    BY <1>11, RequestOfHost DEF HostAnswered
  <2>1. pc[r] = "end" /\ pc' = pc /\ rest' = rest /\ report' = [report EXCEPT ![r] = <<>>]
    BY <1>11, <2>0 DEF HostAnswered, Forget
  <2>3. ASSUME NEW x \in Reqs, x # r PROVE OnceAt(x)'
    BY <1>0, <1>c, <2>1, <2>3
  <2>4. OnceAt(r)'
    BY <1>0, <1>b, <2>1 DEF OnceAt
  <2>5. QED
    BY <2>3, <2>4
<1>12. ASSUME NEW n \in Nodes, HostUnknown(n) PROVE \A x \in Reqs : OnceAt(x)'
  BY <1>12, <1>c DEF HostUnknown
<1>13. ASSUME PullStep \/ ReportStep \/ UNCHANGED vars PROVE \A x \in Reqs : OnceAt(x)'
  BY <1>c, <1>13 DEF PullStep, ReportStep, WaitForHosts, MergeResponse, SetNodes, SetUnits, vars
<1>14. QED
  BY <1>2, <1>3, <1>4, <1>5, <1>6, <1>7, <1>8, <1>9, <1>10, <1>11, <1>12, <1>13
     DEF Next, NodeNext, HealthStep, HostStep

\* What Noticed says of one request.
NoticedAt(r) ==
  /\ pc[r] # "end" => steady[r] \subseteq Ailing(At[r])
  /\ pc[r] \in {"units", "reply", "end"} /\ ~failed[r] =>
       \A u \in steady[r] :
         \/ pc[r] = "units" /\ \E j \in DOMAIN rest[r] : rest[r][j] = u
         \/ Shows(report[r], u)

\* No unit that is unhealthy all the time is left out, unless a call fails.
LEMMA NoticedStep == Typed /\ Scoped /\ Owners /\ Noticed /\ [Next]_vars => Noticed'
<1> SUFFICES ASSUME Typed, Scoped, Owners, Noticed, [Next]_vars PROVE Noticed'
  OBVIOUS
<1>0. /\ report \in [Reqs -> Seq(Listing)]
      /\ rest \in [Reqs -> Seq(Names)]
      /\ props \in [Nodes -> [Names -> Properties]]
      /\ DOMAIN pc = Reqs
      /\ failed \in [Reqs -> BOOLEAN]
      /\ steady \in [Reqs -> SUBSET Names]
      /\ \A r \in Reqs : NoticedAt(r)
  BY DEF Typed, NodeTypeOK, Listing, Noticed, NoticedAt
<1>a. SUFFICES \A r \in Reqs : NoticedAt(r)'
  BY DEF Noticed, NoticedAt
<1>b. ASSUME UNCHANGED props PROVE \A n \in Nodes : Ailing(n)' = Ailing(n)
  BY <1>b DEF Ailing
<1> USE WantsAssumption DEF Goto, locks, nodeVars
\* Whoever moves on without looking at its units.
<1>c. ASSUME NEW x \in Reqs, props' = props, steady'[x] = steady[x], report'[x] = report[x],
             rest'[x] = rest[x], failed'[x] = failed[x],
             pc'[x] = pc[x] \/ (pc[x] # "end" /\ pc'[x] \in {"lock", "open", "names", "hung"})
      PROVE  NoticedAt(x)'
  BY <1>0, <1>b, <1>c DEF NoticedAt
<1>2. ASSUME NEW r \in Reqs, LockUnits(r) PROVE \A x \in Reqs : NoticedAt(x)'
  BY <1>0, <1>2, <1>c DEF LockUnits
<1>3. ASSUME NEW r \in Reqs, OpenConnection(r) PROVE \A x \in Reqs : NoticedAt(x)'
  <2>1. ~dcon[At[r]]
    BY <1>3, OpenOutcomes DEF Owners, LocksHaveOwners
  <2>2. /\ pc[r] = "open" /\ UNCHANGED <<props, rest, report, steady>>
        /\ \/ pc' = [pc EXCEPT ![r] = "names"] /\ failed' = failed
           \/ pc' = [pc EXCEPT ![r] = "reply"] /\ failed' = [failed EXCEPT ![r] = TRUE]
    BY <1>3, <2>1, OpenOutcomes
  <2>3. ASSUME NEW x \in Reqs, x # r PROVE NoticedAt(x)'
    BY <1>0, <1>c, <2>2, <2>3
  <2>4. CASE pc' = [pc EXCEPT ![r] = "names"] /\ failed' = failed
    BY <1>0, <1>c, <2>2, <2>3, <2>4
  <2>5. CASE pc' = [pc EXCEPT ![r] = "reply"] /\ failed' = [failed EXCEPT ![r] = TRUE]
    <3>1. failed'[r] /\ pc'[r] = "reply" /\ pc[r] = "open" /\ steady' = steady
      BY <1>0, <2>2, <2>5
    <3>a. steady[r] \subseteq Ailing(At[r]) /\ Ailing(At[r])' = Ailing(At[r])
      BY <1>0, <1>b, <2>2 DEF NoticedAt
    <3>2. NoticedAt(r)'
      BY <3>1, <3>a, Zenon DEF NoticedAt
    <3>3. QED
      BY <2>3, <3>2
  <2>6. QED
    BY <2>2, <2>4, <2>5
<1>4. ASSUME NEW r \in Reqs, GetUnitNames(r) PROVE \A x \in Reqs : NoticedAt(x)'
  <2>1. /\ pc[r] = "names" /\ UNCHANGED <<props, report, steady>>
        /\ pc' = [pc EXCEPT ![r] = "units"]
        /\ \/ rest' = [rest EXCEPT ![r] = Wants[At[r]]] /\ failed' = failed
           \/ rest' = [rest EXCEPT ![r] = <<>>] /\ failed' = [failed EXCEPT ![r] = TRUE]
    BY <1>4, Zenon DEF GetUnitNames, Fault, NoFault
  <2>2. ASSUME NEW x \in Reqs, x # r PROVE NoticedAt(x)'
    BY <1>0, <1>c, <2>1, <2>2
  <2>3. steady'[r] = steady[r] /\ steady[r] \subseteq Ailing(At[r])
    BY <1>0, <2>1 DEF NoticedAt
  <2>4. pc'[r] = "units" /\ (failed'[r] \/ rest'[r] = Wants[At[r]])
    BY <1>0, <2>1
  <2>5. \A u \in Ailing(At[r]) : \E j \in DOMAIN Wants[At[r]] : Wants[At[r]][j] = u
    BY DEF Ailing, Range
  <2>6. NoticedAt(r)'
    BY <1>b, <2>1, <2>3, <2>4, <2>5 DEF NoticedAt
  <2>7. QED
    BY <2>2, <2>6
<1>5. ASSUME NEW r \in Reqs, CheckUnit(r) PROVE \A x \in Reqs : NoticedAt(x)'
  <2> DEFINE u == Head(rest[r])
             p == props[At[r]][u]
             e == [unit |-> u, health |-> CheckUnitHealth(p)]
             s == rest[r]
             t == Tail(s)
             l == Append(report[r], e)
  <2>1. /\ pc[r] = "units" /\ s # <<>> /\ pc' = pc /\ props' = props /\ steady' = steady
        /\ rest' = [rest EXCEPT ![r] = t]
        /\ \/ report' = report /\ failed' = failed /\ (u \in Excluded \/ ~Checkable(p))
           \/ report' = report /\ failed' = [failed EXCEPT ![r] = TRUE]
           \/ report' = [report EXCEPT ![r] = l] /\ failed' = failed
    BY <1>5, CheckOutcomes
  <2>2. ASSUME NEW x \in Reqs, x # r PROVE NoticedAt(x)'
    <3> HIDE DEF u, p, e, s, t, l
    <3> QED
      BY <1>0, <1>c, <2>1, <2>2
  <2>3. /\ s \in Seq(Names) /\ u = s[1] /\ u \in Names
        /\ \A i \in DOMAIN s : i # 1 => i - 1 \in DOMAIN t /\ t[i - 1] = s[i]
    BY <1>0, <2>1, TailPlaces, HeadTailProperties
  <2>4. p \in UnitProperties
    BY <1>0, <2>3, PropertiesAssumption
  <2>5. e \in Listing /\ (~Serves(p) => e = [unit |-> u, health |-> Unhealthy])
    BY <2>3, <2>4, UnitIsJudged DEF Listing
  <2>6. u \in Ailing(At[r]) => u \notin Excluded /\ Checkable(p) /\ ~Serves(p)
    BY DEF Ailing
  <2> HIDE DEF u, p, e, s, t
  <2>7. (\A v : Shows(report[r], v) => Shows(l, v)) /\ \E k \in DOMAIN l : l[k] = e
    <3> DEFINE q == report[r]
    <3>1. q \in Seq(Listing)
      BY <1>0
    <3> HIDE DEF q
    <3>2. \E k : /\ k \notin DOMAIN q /\ DOMAIN Append(q, e) = DOMAIN q \cup {k}
                 /\ Append(q, e)[k] = e
                 /\ \A i \in DOMAIN q : Append(q, e)[i] = q[i]
      BY ONLY <2>5, <3>1, AppendPlaces, SMT
    <3>3. (\A v : Shows(q, v) => Shows(Append(q, e), v))
          /\ \E k \in DOMAIN Append(q, e) : Append(q, e)[k] = e
      BY <3>2 DEF Shows
    <3>4. QED
      BY <3>3 DEF q
  <2> HIDE DEF l
  <2>8. NoticedAt(r)
    BY <1>0
  <2>9. rest'[r] = t /\ pc'[r] = "units" /\ steady'[r] = steady[r]
    BY <1>0, <2>1
  <2>10. steady[r] \subseteq Ailing(At[r]) /\ Ailing(At[r])' = Ailing(At[r])
    BY <1>b, <2>1, <2>8 DEF NoticedAt
  <2>11. ASSUME NEW v \in steady[r], ~failed'[r]
         PROVE  (\E j \in DOMAIN t : t[j] = v) \/ Shows(report'[r], v)
    <3>1. ~failed[r] /\ (\/ report'[r] = report[r] /\ (u \in Excluded \/ ~Checkable(p))
                         \/ report'[r] = l)
      BY <1>0, <2>1, <2>11
    <3>2. (\E j \in DOMAIN s : s[j] = v) \/ Shows(report[r], v)
      BY <2>1, <2>8, <3>1 DEF NoticedAt, s
    <3>3. CASE Shows(report[r], v)
      BY <2>7, <3>1, <3>3
    <3>4. CASE \E j \in DOMAIN s : j # 1 /\ s[j] = v
      BY <2>3, <3>4
    <3>5. CASE v = u
      <4>1. u \notin Excluded /\ Checkable(p) /\ e = [unit |-> v, health |-> Unhealthy]
        BY <2>5, <2>6, <2>10, <3>5
      <4>2. Shows(l, v)
        BY <2>7, <4>1 DEF Shows
      <4>3. QED
        BY <3>1, <4>1, <4>2
    <3>6. QED
      BY <2>3, <3>2, <3>3, <3>4, <3>5
  <2>12. NoticedAt(r)'
    BY <2>9, <2>10, <2>11 DEF NoticedAt
  <2>13. QED
    BY <2>2, <2>12
<1>6. ASSUME NEW r \in Reqs, Hang(r) PROVE \A x \in Reqs : NoticedAt(x)'
  <2>1. /\ pc[r] = "units" /\ pc' = [pc EXCEPT ![r] = "hung"]
        /\ UNCHANGED <<props, rest, report, steady>>
        /\ failed' = [failed EXCEPT ![r] = TRUE]
    BY <1>6 DEF Hang, Fault
  <2>2. ASSUME NEW x \in Reqs, x # r PROVE NoticedAt(x)'
    BY <1>0, <1>c, <2>1, <2>2
  <2>3. NoticedAt(r)'
    <3>1. steady[r] \subseteq Ailing(At[r]) /\ Ailing(At[r])' = Ailing(At[r])
      BY <1>0, <1>b, <2>1 DEF NoticedAt
    <3>2. pc'[r] = "hung" /\ steady' = steady
      BY <1>0, <2>1
    <3>3. QED
      BY <3>1, <3>2 DEF NoticedAt
  <2>4. QED
    BY <2>2, <2>3
<1>7. ASSUME NEW r \in Reqs, CloseConnection(r) PROVE \A x \in Reqs : NoticedAt(x)'
  <2>1. /\ pc[r] = "units" /\ rest[r] = <<>> /\ pc' = [pc EXCEPT ![r] = "reply"]
        /\ UNCHANGED <<props, rest, report, steady, failed>>
    BY <1>7 DEF CloseConnection
  <2>2. ASSUME NEW x \in Reqs, x # r PROVE NoticedAt(x)'
    BY <1>0, <1>c, <2>1, <2>2
  <2>3. NoticedAt(r)'
    <3>1. steady[r] \subseteq Ailing(At[r]) /\ Ailing(At[r])' = Ailing(At[r])
      BY <1>0, <1>b, <2>1 DEF NoticedAt
    <3>2. pc'[r] = "reply" /\ UNCHANGED <<steady, failed, report>>
      BY <1>0, <2>1
    <3>3. DOMAIN rest[r] = {}
      BY <2>1
    <3>4. ~failed[r] => \A u \in steady[r] : Shows(report[r], u)
      BY <1>0, <2>1, <3>3 DEF NoticedAt
    <3>5. QED
      BY <3>1, <3>2, <3>4 DEF NoticedAt
  <2>4. QED
    BY <2>2, <2>3
<1>8. ASSUME NEW r \in Reqs, Reply(r) PROVE \A x \in Reqs : NoticedAt(x)'
  <2>1. /\ pc[r] = "reply" /\ pc' = [pc EXCEPT ![r] = "end"]
        /\ UNCHANGED <<props, rest, report, steady, failed>>
    BY <1>8 DEF Reply
  <2>2. ASSUME NEW x \in Reqs, x # r PROVE NoticedAt(x)'
    BY <1>0, <1>c, <2>1, <2>2
  <2>3. NoticedAt(r)'
    BY <1>0, <1>b, <2>1 DEF NoticedAt
  <2>4. QED
    BY <2>2, <2>3
<1>9. ASSUME NEW n \in Nodes, NEW p \in Properties, NEW u \in Range(Wants[n]) \ Excluded,
             ChangeUnit(n, u, p)
      PROVE  \A x \in Reqs : NoticedAt(x)'
  <2>1. UNCHANGED <<pc, rest, report, failed>> /\ u \in Names
    BY <1>9 DEF ChangeUnit, Range
  <2>2. ASSUME NEW x \in Reqs
        PROVE  /\ steady'[x] \subseteq steady[x]
               /\ At[x] = n /\ pc[x] # "end" /\ (~Checkable(p) \/ Serves(p)) => u \notin steady'[x]
    BY <1>9 DEF ChangeUnit
  <2>3. ASSUME NEW m \in Nodes, NEW v \in Ailing(m), m = n /\ v = u => Checkable(p) /\ ~Serves(p)
        PROVE  v \in Ailing(m)'
    <3>1. v \in Range(Wants[m]) \ Excluded /\ v \in Names
      BY DEF Ailing, Range
    <3>2. props'[m][v] = IF m = n /\ v = u THEN p ELSE props[m][v]
      BY <1>0, <1>9, <2>1, <3>1 DEF ChangeUnit
    <3>3. Checkable(props[m][v]) /\ ~Serves(props[m][v])
      BY DEF Ailing
    <3>4. Checkable(props'[m][v]) /\ ~Serves(props'[m][v])
      BY <2>3, <3>2, <3>3
    <3>5. QED
      BY <3>1, <3>4 DEF Ailing
  <2>4. ASSUME NEW x \in Reqs PROVE NoticedAt(x)'
    <3>1. ASSUME pc[x] # "end", NEW v \in steady'[x] PROVE v \in Ailing(At[x])'
      <4>1. v \in Ailing(At[x])
        BY <1>0, <2>2, <3>1 DEF NoticedAt
      <4>2. At[x] = n /\ v = u => Checkable(p) /\ ~Serves(p)
        BY <2>2, <3>1
      <4>3. QED
        BY <2>3, <4>1, <4>2
    <3>2. QED
      BY <1>0, <2>1, <2>2, <3>1 DEF NoticedAt
  <2>5. QED
    BY <2>4
<1>10. ASSUME NEW exhibitor, NEW dns, NEW leader, NEW slaves,
              StartPull(exhibitor, dns, leader, slaves)
       PROVE  \A x \in Reqs : NoticedAt(x)'
  <2>1. PICK R : Arrive(R)
    BY <1>10 DEF StartPull
  <2>2. UNCHANGED <<props, rest, report, failed>>
    BY <2>1 DEF Arrive
  <2>3. ASSUME NEW x \in Reqs, x \in R PROVE NoticedAt(x)'
    <3>1. pc'[x] = "lock" /\ steady'[x] = Ailing(At[x])
      BY <2>1, <2>3 DEF Arrive
    <3>2. QED
      BY <1>b, <2>2, <3>1 DEF NoticedAt
  <2>4. ASSUME NEW x \in Reqs, x \notin R PROVE NoticedAt(x)'
    <3>1. pc'[x] = pc[x] /\ steady'[x] = steady[x]
      BY <2>1, <2>4 DEF Arrive
    <3>2. QED
      BY <1>c, <2>2, <3>1
  <2>5. QED
    BY <2>3, <2>4
<1>11. ASSUME NEW n \in Nodes, HostStep(n) PROVE \A x \in Reqs : NoticedAt(x)'
  <2>0. PICK r \in Reqs : r = Request(n)
    BY <1>11, RequestOfHost DEF HostStep, HostAnswered, HostUnknown
  <2>1. /\ pc' = pc /\ rest' = rest /\ props' = props
        /\ steady' = [steady EXCEPT ![r] = {}]
        /\ report' = report \/ report' = [report EXCEPT ![r] = <<>>]
        /\ failed' = failed \/ failed' = [failed EXCEPT ![r] = FALSE]
    BY <1>11, <2>0 DEF HostStep, HostAnswered, HostUnknown, Forget
  <2>2. ASSUME NEW x \in Reqs, x # r PROVE NoticedAt(x)'
    BY <1>0, <1>c, <2>1, <2>2
  <2>3. steady'[r] = {}
    BY <1>0, <2>1
  <2>4. NoticedAt(r)'
    BY <2>3 DEF NoticedAt
  <2>5. QED
    BY <2>2, <2>4
<1>12. ASSUME PullStep \/ ReportStep \/ UNCHANGED vars PROVE \A x \in Reqs : NoticedAt(x)'
  BY <1>c, <1>12 DEF PullStep, ReportStep, WaitForHosts, MergeResponse, SetNodes, SetUnits, vars
<1>13. QED
  BY <1>2, <1>3, <1>4, <1>5, <1>6, <1>7, <1>8, <1>9, <1>10, <1>11, <1>12
     DEF Next, NodeNext, HealthStep

-----------------------------------------------------------------------------
(* The pull. *)

\* The variables of a pull.
LEMMA ScopedStep == Typed /\ Scoped /\ [Next]_vars => Scoped'
<1> SUFFICES ASSUME Typed, Scoped, [Next]_vars PROVE Scoped'
  OBVIOUS
<1>0. pull \in Nat /\ hpc \in [Nodes -> {"off", "get"}]
  BY RequestsAssumption DEF Typed
<1> USE DEF Scoped, pullVars
<1>1. ASSUME UNCHANGED pullVars PROVE Scoped'
  BY <1>1
<1>2. ASSUME NEW exhibitor, NEW dns, NEW leader, NEW slaves,
             StartPull(exhibitor, dns, leader, slaves)
      PROVE  Scoped'
  BY <1>0, <1>2 DEF StartPull
<1>3. ASSUME NEW n \in Nodes, HostAnswered(n) PROVE Scoped'
  BY <1>0, <1>3 DEF HostAnswered, Send
<1>4. ASSUME NEW n \in Nodes, HostUnknown(n) PROVE Scoped'
  BY <1>0, <1>4 DEF HostUnknown, Send
<1>5. ASSUME WaitForHosts PROVE Scoped'
  BY <1>0, <1>5 DEF WaitForHosts, AllDone
<1>6. ASSUME MergeResponse PROVE Scoped'
  BY <1>6 DEF MergeResponse
<1>7. ASSUME SetNodes PROVE Scoped'
  BY <1>7 DEF SetNodes
<1>8. ASSUME SetUnits PROVE Scoped'
  BY <1>8 DEF SetUnits, Empty
<1>9. QED
  BY <1>1, <1>2, <1>3, <1>4, <1>5, <1>6, <1>7, <1>8
     DEF Next, HostStep, PullStep, ReportStep, vars

\* What Covered says of the answers in the channel, and of those in the map.
Waiting(i) ==
  /\ respChan[i].node \in found
  /\ hpc[respChan[i].node] = "off"
  /\ respChan[i].node \notin DOMAIN nodes
  /\ Right(respChan[i].node, respChan[i].health, respChan[i].units, heard, owed)
Kept(n) ==
  /\ n \in found
  /\ hpc[n] = "off"
  /\ Right(n, nodes[n].health, nodes[n].units, heard, owed)

\* An answer is right whatever other nodes answer.
LEMMA RightIsKept ==
  ASSUME NEW n, NEW m, n # m, NEW h, NEW listed, NEW hd, NEW ow, NEW more,
         Right(m, h, listed, hd, ow)
  PROVE  Right(m, h, listed, hd \cup {n}, ow \cup {<<n, u>> : u \in more})
  BY DEF Right

\* A goroutine sends what is right of its node.
LEMMA SendCovers ==
  ASSUME Typed, Shaped, Scoped, Covered,
         NEW n \in Nodes, hpc[n] = "get", NEW h \in Healths, NEW listed \in Seq(Listing),
         Send(n, h, listed), UNCHANGED <<found, nodes>>,
         Right(n, h, listed, heard', owed'),
         \A m, k, l : m # n /\ Right(m, k, l, heard, owed) => Right(m, k, l, heard', owed')
  PROVE  Covered'
<1> DEFINE s == respChan
           x == [node |-> n, health |-> h, units |-> listed]
<1>1. s \in Seq(Response) /\ x \in Response
  BY DEF Shaped, Response
<1>2. x.node = n /\ x.health = h /\ x.units = listed
  OBVIOUS
<1>3. respChan' = Append(s, x)
  BY DEF Send
<1> HIDE DEF s, x
<1>4. PICK k : /\ k \notin DOMAIN s /\ DOMAIN Append(s, x) = DOMAIN s \cup {k}
               /\ Append(s, x)[k] = x
               /\ \A i \in DOMAIN s : Append(s, x)[i] = s[i]
  BY ONLY <1>1, AppendPlaces, SMT
<1>5. /\ n \in found /\ n \notin DOMAIN nodes
      /\ \A i \in DOMAIN s : s[i].node # n
  BY DEF Scoped, Covered, s
<1>6. hpc'[n] = "off" /\ \A m \in Nodes : m # n => hpc'[m] = hpc[m]
  BY DEF Send, Typed
<1>7. found \subseteq Nodes /\ DOMAIN nodes \subseteq Nodes
  BY DEF Typed, Shaped
<1>8. \A i \in DOMAIN s : s[i].node \in found /\ s[i].node \in Nodes
  BY <1>7 DEF Covered, s
<1>9. Waiting(k)'
  BY <1>2, <1>3, <1>4, <1>5, <1>6 DEF Waiting
<1>10. ASSUME NEW i \in DOMAIN s PROVE Waiting(i)'
  <2>1. respChan'[i] = s[i] /\ s[i].node # n
    BY <1>3, <1>4, <1>5
  <2>2. Waiting(i)
    BY DEF Covered, Waiting, s
  <2>3. QED
    BY <1>6, <1>8, <2>1, <2>2 DEF Waiting, s
<1>11. \A i, j \in DOMAIN respChan' : respChan'[i].node = respChan'[j].node => i = j
  BY <1>2, <1>3, <1>4, <1>5 DEF Covered, s
<1>12. ASSUME NEW m \in DOMAIN nodes PROVE Kept(m)'
  BY <1>5, <1>6, <1>7 DEF Covered, Kept
<1>13. \A m \in found' : hpc'[m] = "off" =>
         m \in DOMAIN nodes' \/ \E i \in DOMAIN respChan' : respChan'[i].node = m
  <2> SUFFICES ASSUME NEW m \in found, hpc'[m] = "off", m \notin DOMAIN nodes
               PROVE  \E i \in DOMAIN respChan' : respChan'[i].node = m
    OBVIOUS
  <2>1. CASE m = n
    BY <1>2, <1>3, <1>4, <2>1
  <2>2. CASE m # n
    <3>1. \E i \in DOMAIN s : s[i].node = m
      BY <1>6, <1>7, <2>2 DEF Covered, s
    <3>2. QED
      BY <1>3, <1>4, <3>1
  <2>3. QED
    BY <2>1, <2>2
<1>14. \A i \in DOMAIN respChan' : Waiting(i)'
  BY <1>3, <1>4, <1>9, <1>10
<1>15. QED
  BY <1>11, <1>12, <1>13, <1>14 DEF Covered, Waiting, Kept

\* A node that answers is not unknown, and shows what it has to show.
LEMMA AnswerIsRight ==
  ASSUME Typed, Scoped, Once, Noticed, NEW n \in Nodes, HostAnswered(n)
  PROVE  LET l == report[Request(n)] IN Right(n, HostHealth(l), l, heard', owed')
<1>0. PICK r \in Reqs : r = Request(n)
  BY RequestOfHost DEF HostAnswered
<1> DEFINE l == report[r]
           new == {v \in steady[r] : ~failed[r]}
<1>1. pc[r] = "end" /\ n \notin heard
  BY <1>0 DEF HostAnswered, Scoped
<1>2. heard' = heard \cup {n} /\ owed' = owed \cup {<<n, u>> : u \in new}
  BY <1>0 DEF HostAnswered
<1>3. \A u : <<n, u>> \notin owed
  BY <1>1 DEF Typed
<1>4. \A u \in new : Shows(l, u)
  BY <1>1 DEF Noticed
<1>5. \A u : Shows(l, u) => HostHealth(l) = Unhealthy
  BY DEF Shows, HostHealth, Healthy, Unhealthy
<1>6. HostHealth(l) # Unknown
  BY HostIsJudged DEF Healthy, Unhealthy, Unknown
<1>7. Distinct(l)
  BY DEF Once
<1>8. \A u : <<n, u>> \in owed' => u \in new
  <2> HIDE DEF new
  <2> QED
    BY <1>2, <1>3
<1> HIDE DEF l, new
<1>9. Right(n, HostHealth(l), l, heard', owed')
  BY <1>2, <1>4, <1>5, <1>6, <1>7, <1>8 DEF Right
<1>10. QED
  BY <1>0, <1>9 DEF l

\* The channel and the map of the nodes.
LEMMA CoveredStep ==
  Typed /\ Shaped /\ Once /\ Noticed /\ Scoped /\ Covered /\ [Next]_vars => Covered'
<1> SUFFICES ASSUME Typed, Shaped, Once, Noticed, Scoped, Covered, [Next]_vars
             PROVE  Covered'
  OBVIOUS
<1>1. ASSUME UNCHANGED <<respChan, found, hpc, nodes, heard, owed>> PROVE Covered'
  BY <1>1 DEF Covered
<1>2. ASSUME NEW exhibitor, NEW dns, NEW leader, NEW slaves,
             StartPull(exhibitor, dns, leader, slaves)
      PROVE  Covered'
  <2>1. /\ ppc = "idle" /\ UNCHANGED <<respChan, nodes, heard, owed>>
        /\ hpc' = [n \in Nodes |-> IF n \in found' THEN "get" ELSE "off"]
    BY <1>2 DEF StartPull
  <2>2. DOMAIN respChan' = {} /\ DOMAIN nodes' = {}
    BY <2>1 DEF Scoped
  <2>3. found' \subseteq Nodes
    BY TypedStep DEF Typed
  <2>4. QED
    BY <2>1, <2>2, <2>3 DEF Covered
<1>3. ASSUME NEW n \in Nodes, HostAnswered(n) PROVE Covered'
  <2> DEFINE r == Request(n)
             l == report[r]
             new == {v \in steady[r] : ~failed[r]}
  <2>1. Right(n, HostHealth(l), l, heard', owed')
    BY <1>3, AnswerIsRight
  <2>2. r \in Reqs
    BY <1>3, RequestOfHost DEF HostAnswered
  <2>3. HostHealth(l) \in Healths /\ l \in Seq(Listing)
    BY <2>2, HostIsJudged DEF Typed, NodeTypeOK, Listing, Healths
  <2>4. /\ hpc[n] = "get" /\ Send(n, HostHealth(l), l) /\ UNCHANGED <<found, nodes>>
        /\ heard' = heard \cup {n} /\ owed' = owed \cup {<<n, u>> : u \in new}
    BY <1>3 DEF HostAnswered
  <2> HIDE DEF r, l, new
  <2>5. \A m, k, q : m # n /\ Right(m, k, q, heard, owed) => Right(m, k, q, heard', owed')
    BY <2>4, RightIsKept
  <2>6. QED
    BY <2>1, <2>3, <2>4, <2>5, SendCovers
<1>4. ASSUME NEW n \in Nodes, HostUnknown(n) PROVE Covered'
  <2>1. /\ hpc[n] = "get" /\ Send(n, Unknown, <<>>)
        /\ UNCHANGED <<found, nodes, heard, owed>>
    BY <1>4 DEF HostUnknown
  <2>2. n \notin heard /\ \A u : <<n, u>> \notin owed
    BY <2>1 DEF Scoped, Typed
  <2>3. Distinct(<<>>) /\ Unknown \in Healths /\ <<>> \in Seq(Listing)
    BY DEF Distinct, Healths
  <2>4. Right(n, Unknown, <<>>, heard', owed')
    BY <2>1, <2>2, <2>3 DEF Right
  <2>5. QED
    BY <2>1, <2>3, <2>4, SendCovers
<1>5. ASSUME WaitForHosts PROVE Covered'
  <2>1. DOMAIN nodes = {} /\ DOMAIN nodes' = {} /\ UNCHANGED <<respChan, found, hpc, heard, owed>>
    BY <1>5 DEF WaitForHosts, Scoped, Empty
  <2>2. QED
    BY <2>1 DEF Covered
<1>6. ASSUME MergeResponse PROVE Covered'
  <2> DEFINE s == respChan
             t == Tail(s)
             x == Head(s)
  <2>1. s \in Seq(Response) /\ s # <<>> /\ respChan' = t /\ UNCHANGED <<found, hpc, heard, owed>>
    BY <1>6 DEF MergeResponse, Shaped
  <2>2. /\ DOMAIN nodes' = DOMAIN nodes \cup {x.node}
        /\ nodes'[x.node] = [health |-> x.health, units |-> x.units]
        /\ \A n \in DOMAIN nodes : n # x.node => nodes'[n] = nodes[n]
    BY <1>6, MergeEffects, Zenon
  <2> HIDE DEF s
  <2>3. /\ x = s[1] /\ 1 \in DOMAIN s
        /\ \A i \in DOMAIN t : i + 1 \in DOMAIN s /\ i + 1 # 1 /\ t[i] = s[i + 1]
        /\ \A i \in DOMAIN s : i # 1 => i - 1 \in DOMAIN t /\ t[i - 1] = s[i]
    BY <2>1, TailPlaces
  <2>4. DOMAIN t \subseteq Nat
    BY <2>1, HeadTailProperties
  <2> HIDE DEF t, x
  <2>5. /\ \A i \in DOMAIN s : Waiting(i)
        /\ \A i, j \in DOMAIN s : s[i].node = s[j].node => i = j
        /\ \A n \in DOMAIN nodes : Kept(n)
        /\ \A n \in found : hpc[n] = "off" =>
             n \in DOMAIN nodes \/ \E i \in DOMAIN s : s[i].node = n
    BY DEF Covered, Waiting, Kept, s
  <2>6. x.node \notin DOMAIN nodes
    BY <2>3, <2>5 DEF Waiting, s
  <2>7. ASSUME NEW i \in DOMAIN t PROVE Waiting(i)'
    <3>1. respChan'[i] = respChan[i + 1] /\ respChan[i + 1].node # x.node
      BY <2>1, <2>3, <2>5 DEF s
    <3>2. Waiting(i + 1)
      BY <2>3, <2>5
    <3>3. QED
      BY <2>1, <2>2, <3>1, <3>2 DEF Waiting
  <2>8. \A i, j \in DOMAIN t : t[i].node = t[j].node => i = j
    BY <2>3, <2>4, <2>5
  <2>9. ASSUME NEW n \in DOMAIN nodes' PROVE Kept(n)'
    <3>1. CASE n = x.node
      <4>1. Waiting(1) /\ respChan[1] = x
        BY <2>3, <2>5 DEF s
      <4>2. nodes'[n].health = x.health /\ nodes'[n].units = x.units
        BY <2>2, <3>1
      <4>3. QED
        BY <2>1, <3>1, <4>1, <4>2 DEF Waiting, Kept
    <3>2. CASE n # x.node
      BY <2>1, <2>2, <2>5, <3>2 DEF Kept
    <3>3. QED
      BY <3>1, <3>2
  <2>10. ASSUME NEW n \in found, hpc[n] = "off", n \notin DOMAIN nodes'
         PROVE  \E i \in DOMAIN t : t[i].node = n
    <3>1. PICK i \in DOMAIN s : s[i].node = n
      BY <2>2, <2>5, <2>10
    <3>2. i # 1
      BY <2>2, <2>3, <2>10, <3>1
    <3>3. QED
      BY <2>3, <3>1, <3>2
  <2>11. QED
    BY <2>1, <2>7, <2>8, <2>9, <2>10 DEF Covered, Waiting, Kept
<1>7. ASSUME SetNodes PROVE Covered'
  BY <1>1, <1>7 DEF SetNodes
<1>8. ASSUME SetUnits PROVE Covered'
  <2>1. DOMAIN respChan' = {} /\ DOMAIN nodes' = {} /\ found' = {}
    BY <1>8 DEF SetUnits, Scoped, Empty
  <2>2. QED
    BY <2>1 DEF Covered
<1>9. QED
  BY <1>1, <1>2, <1>3, <1>4, <1>5, <1>6, <1>7, <1>8
     DEF Next, HostStep, PullStep, ReportStep, vars, pullVars

-----------------------------------------------------------------------------
(* The maps of the tree. *)

\* The places of a sequence with a sequence of one element after it.
LEMMA ConcatPlaces ==
  ASSUME NEW S, NEW s \in Seq(S), NEW x \in S
  PROVE  \E k : /\ k \notin DOMAIN s /\ DOMAIN (s \o <<x>>) = DOMAIN s \cup {k}
                /\ (s \o <<x>>)[k] = x
                /\ \A i \in DOMAIN s : (s \o <<x>>)[i] = s[i]
<1>1. s \o <<x>> = Append(s, x)
  BY AppendIsConcat
<1>2. QED
  BY <1>1, AppendPlaces

\* MergeResponse adds to unit u the node at place q, as what it lists at place k.
Added(u, k, q) ==
  LET resp == Head(respChan)
  IN  /\ k \in DOMAIN resp.units /\ resp.units[k].unit = u
      /\ q \in DOMAIN units'[u].nodes
      /\ units'[u].nodes[q] = [node |-> resp.node, health |-> resp.health]
      /\ \A i \in DOMAIN units'[u].nodes : i # q =>
           /\ u \in DOMAIN units /\ i \in DOMAIN units[u].nodes
           /\ units'[u].nodes[i] = units[u].nodes[i]
      /\ u \in DOMAIN units =>
           /\ units[u].health <= units'[u].health
           /\ \A i \in DOMAIN units[u].nodes :
                i \in DOMAIN units'[u].nodes /\ units'[u].nodes[i] = units[u].nodes[i]
      /\ resp.units[k].health <= units'[u].health
      /\ \/ units'[u].health = resp.units[k].health
         \/ u \in DOMAIN units /\ units'[u].health = units[u].health

LEMMA MergeAdds ==
  ASSUME Shaped, MergeResponse, NEW u, NEW k, MergedWith(u, k)
  PROVE  \E q : Added(u, k, q)
<1> DEFINE resp == Head(respChan)
           e == UnitEntry(resp, k)
           x == [node |-> resp.node, health |-> resp.health]
           h == resp.units[k].health
<1>1. resp \in Response
  BY HeadTailProperties DEF MergeResponse, Shaped
<1>2. k \in DOMAIN resp.units /\ resp.units[k].unit = u
  BY DEF MergedWith
<1>3. resp.units[k] \in Listing /\ x \in [node : Nodes, health : Healths]
  BY <1>1, <1>2 DEF Response
<1>4. h \in {Healthy, Unhealthy} /\ h \in Int
  BY <1>3 DEF Listing, Healthy, Unhealthy
<1>5. e.health = h /\ e.nodes = <<x>>
  BY DEF UnitEntry
<1>6. CASE u \notin DOMAIN units
  <2>1. units'[u] = e
    BY <1>6 DEF MergedWith
  <2>2. units'[u].health = h /\ units'[u].nodes = <<x>>
    BY <1>5, <2>1
  <2>3. DOMAIN <<x>> = {1} /\ <<x>>[1] = x
    OBVIOUS
  <2> HIDE DEF resp, e
  <2>4. 1 \in DOMAIN units'[u].nodes /\ units'[u].nodes[1] = x /\ DOMAIN units'[u].nodes = {1}
    BY <2>2, <2>3
  <2> HIDE DEF x, h
  <2>5. Added(u, k, 1)
    BY <1>2, <1>4, <1>6, <2>2, <2>4 DEF Added, x, h, resp
  <2>6. QED
    BY <2>5
<1>7. CASE u \in DOMAIN units
  <2> DEFINE s == units[u].nodes
  <2>1. units'[u] = Merged(units[u], e)
    BY <1>7 DEF MergedWith
  <2>2. units[u] \in UnitNodes
    BY <1>7 DEF Shaped
  <2>3. s \in Seq([node : Nodes, health : Healths]) /\ units[u].health \in {Healthy, Unhealthy}
    BY <2>2 DEF UnitNodes
  <2>4. /\ units'[u].health = IF h > units[u].health THEN h ELSE units[u].health
        /\ units'[u].nodes = s \o <<x>>
    <3> HIDE DEF e, x, h, resp
    <3>1. /\ units'[u].health = IF e.health > units[u].health THEN e.health ELSE units[u].health
          /\ units'[u].nodes = s \o e.nodes
      <4> DEFINE hh == IF e.health > units[u].health THEN e.health ELSE units[u].health
                 nn == units[u].nodes \o e.nodes
      <4>1. units'[u] = [health |-> hh, nodes |-> nn]
        BY <2>1, Zenon DEF Merged
      <4> HIDE DEF hh, nn
      <4>2. units'[u].health = hh /\ units'[u].nodes = nn
        BY <4>1
      <4>3. QED
        BY <4>2 DEF hh, nn
    <3>2. QED
      BY <1>5, <3>1
  <2>5. /\ h <= units'[u].health /\ units[u].health <= units'[u].health
        /\ units'[u].health = h \/ units'[u].health = units[u].health
    BY <1>4, <2>3, <2>4 DEF Healthy, Unhealthy
  <2> HIDE DEF s, x, h, resp, e
  <2>6. PICK q : /\ q \notin DOMAIN s /\ DOMAIN (s \o <<x>>) = DOMAIN s \cup {q}
                 /\ (s \o <<x>>)[q] = x
                 /\ \A i \in DOMAIN s : (s \o <<x>>)[i] = s[i]
    BY ONLY <1>3, <2>3, ConcatPlaces, SMT
  <2> DEFINE t == units'[u].nodes
  <2>7. /\ DOMAIN t = DOMAIN s \cup {q} /\ t[q] = x
        /\ \A i \in DOMAIN s : t[i] = s[i]
    BY <2>4, <2>6
  <2> HIDE DEF t
  <2>8. Added(u, k, q)
    BY <1>2, <1>7, <2>5, <2>7, SMTT(30) DEF Added, x, h, resp, s, t
  <2>9. QED
    BY <2>8
<1>8. QED
  BY <1>6, <1>7

\* What is merged is consistent.
LEMMA MergeConsistent ==
  ASSUME Typed, Shaped, Covered, Consistent(nodes, units), MergeResponse
  PROVE  Consistent(nodes', units')
<1> DEFINE resp == Head(respChan)
           a == resp.node
           l == resp.units
           named == {l[i].unit : i \in DOMAIN l}
<1>1. resp \in Response
  BY HeadTailProperties DEF MergeResponse, Shaped
<1>2. respChan[1] = resp /\ 1 \in DOMAIN respChan
  BY TailPlaces DEF MergeResponse, Shaped
<1>3. a \notin DOMAIN nodes /\ Distinct(l)
  BY <1>2 DEF Covered, Right
<1>4. \A i \in DOMAIN l : /\ l[i] = [unit |-> l[i].unit, health |-> l[i].health]
                          /\ l[i].health \in Int
  <2>1. l \in Seq(Listing)
    BY <1>1 DEF Response
  <2> HIDE DEF l
  <2>2. \A i \in DOMAIN l : l[i] \in Listing
    BY <2>1
  <2>3. QED
    BY <2>2 DEF Listing, Healthy, Unhealthy
<1>5. /\ DOMAIN nodes' = DOMAIN nodes \cup {a}
      /\ nodes'[a] = [health |-> resp.health, units |-> l]
      /\ \A n \in DOMAIN nodes : n # a => nodes'[n] = nodes[n]
      /\ DOMAIN units' = DOMAIN units \cup named
      /\ \A u \in DOMAIN units : u \notin named => units'[u] = units[u]
      /\ \A u \in named : \E i \in DOMAIN l : MergedWith(u, i)
  BY MergeEffects, Zenon
<1>6. nodes'[a].health = resp.health /\ nodes'[a].units = l
  BY <1>5
<1>7. \A n \in DOMAIN nodes : nodes'[n] = nodes[n]
  BY <1>3, <1>5
<1>8. \A u \in named : \E k, q : Added(u, k, q)
  BY <1>5, MergeAdds
<1> DEFINE x == [node |-> a, health |-> resp.health]
<1>9. ASSUME NEW u, NEW k, NEW q, Added(u, k, q)
      PROVE  /\ k \in DOMAIN l /\ l[k].unit = u
             /\ q \in DOMAIN units'[u].nodes
             /\ units'[u].nodes[q] = x
             /\ \A i \in DOMAIN units'[u].nodes : i # q =>
                  /\ u \in DOMAIN units /\ i \in DOMAIN units[u].nodes
                  /\ units'[u].nodes[i] = units[u].nodes[i]
             /\ u \in DOMAIN units =>
                  /\ units[u].health <= units'[u].health
                  /\ \A i \in DOMAIN units[u].nodes :
                       i \in DOMAIN units'[u].nodes /\ units'[u].nodes[i] = units[u].nodes[i]
             /\ l[k].health <= units'[u].health
             /\ \/ units'[u].health = l[k].health
                \/ u \in DOMAIN units /\ units'[u].health = units[u].health
  BY <1>9, Zenon DEF Added
<1>10. x.node = a /\ x.health = resp.health
  OBVIOUS
<1>11. /\ \A u \in DOMAIN units : units[u].health \in Int
       /\ \A u \in DOMAIN units' : units'[u].health \in Int
       /\ \A n \in DOMAIN nodes : \A j \in DOMAIN nodes[n].units : nodes[n].units[j].health \in Int
  <2>1. \A u \in DOMAIN units : units[u].health \in Int
    BY DEF Shaped, UnitNodes, Healthy, Unhealthy
  <2>2. \A i \in DOMAIN l : l[i].health \in Int
    BY <1>4
  <2>3. ASSUME NEW u \in DOMAIN units' PROVE units'[u].health \in Int
    <3> HIDE DEF named, l, a, resp, x
    <3>1. CASE u \in named
      <4>1. PICK k, q : Added(u, k, q)
        BY <1>8, <3>1
      <4>2. QED
        BY <1>9, <2>1, <2>2, <4>1
    <3>2. CASE u \notin named
      BY <1>5, <2>1, <3>2
    <3>3. QED
      BY <3>1, <3>2
  <2>4. \A n \in DOMAIN nodes : \A j \in DOMAIN nodes[n].units : nodes[n].units[j].health \in Int
    <3> SUFFICES ASSUME NEW n \in DOMAIN nodes
                 PROVE  \A j \in DOMAIN nodes[n].units : nodes[n].units[j].health \in Int
      OBVIOUS
    <3> DEFINE t == nodes[n].units
    <3>1. t \in Seq(Listing)
      BY DEF Shaped, NodeEntry
    <3> HIDE DEF t
    <3>2. \A j \in DOMAIN t : t[j] \in Listing
      BY <3>1
    <3>3. \A j \in DOMAIN t : t[j].health \in Int
      BY <3>2 DEF Listing, Healthy, Unhealthy
    <3>4. QED
      BY <3>3 DEF t
  <2>5. QED
    BY <2>1, <2>3, <2>4
<1>12. \A i \in DOMAIN l : l[i].unit \in named
  OBVIOUS
<1> HIDE DEF resp, a, l, named, x
<1>13. ASSUME NEW u \in DOMAIN units', NEW i \in DOMAIN units'[u].nodes
       PROVE  LET e == units'[u].nodes[i]
              IN  /\ e.node \in DOMAIN nodes'
                  /\ e.health = nodes'[e.node].health
                  /\ \E j \in DOMAIN nodes'[e.node].units : nodes'[e.node].units[j].unit = u
  <2> DEFINE e == units'[u].nodes[i]
  <2>1. ASSUME u \in DOMAIN units, i \in DOMAIN units[u].nodes, e = units[u].nodes[i]
        PROVE  /\ e.node \in DOMAIN nodes'
               /\ e.health = nodes'[e.node].health
               /\ \E j \in DOMAIN nodes'[e.node].units : nodes'[e.node].units[j].unit = u
    BY <1>5, <1>7, <2>1 DEF Consistent
  <2>2. CASE u \in named
    <3>1. PICK k, q : Added(u, k, q)
      BY <1>8, <2>2
    <3>2. CASE i = q
      <4>1. e = x /\ k \in DOMAIN l /\ l[k].unit = u
        BY <1>9, <3>1, <3>2
      <4> HIDE DEF e
      <4>2. QED
        BY <1>5, <1>6, <1>10, <4>1 DEF e
    <3>3. CASE i # q
      BY <1>9, <2>1, <3>1, <3>3, SMTT(30)
    <3>4. QED
      BY <3>2, <3>3
  <2>3. CASE u \notin named
    BY <1>5, <2>1, <2>3
  <2>4. QED
    BY <2>2, <2>3, SMTT(30)
<1>14. ASSUME NEW n \in DOMAIN nodes', NEW j \in DOMAIN nodes'[n].units
       PROVE  LET u == nodes'[n].units[j].unit
              IN  /\ u \in DOMAIN units'
                  /\ nodes'[n].units[j].health <= units'[u].health
                  /\ \E i \in DOMAIN units'[u].nodes : units'[u].nodes[i].node = n
  <2> DEFINE u == nodes'[n].units[j].unit
             h == nodes'[n].units[j].health
  <2>1. CASE n = a
    <3>1. j \in DOMAIN l /\ u = l[j].unit /\ h = l[j].health
      BY <1>6, <2>1
    <3>2. u \in named
      BY <1>12, <3>1
    <3>3. PICK k, q : Added(u, k, q)
      BY <1>8, <3>2
    <3> HIDE DEF u, h
    <3>4. k = j
      BY <1>3, <1>9, <3>1, <3>3 DEF Distinct
    <3>5. h <= units'[u].health /\ q \in DOMAIN units'[u].nodes /\ units'[u].nodes[q].node = n
      BY <1>9, <1>10, <2>1, <3>1, <3>3, <3>4
    <3>6. u \in DOMAIN units'
      BY <1>5, <3>2
    <3>7. QED
      BY <3>5, <3>6 DEF u, h
  <2>2. CASE n # a
    <3>1. n \in DOMAIN nodes /\ nodes'[n] = nodes[n]
      BY <1>5, <2>2
    <3>2. /\ u \in DOMAIN units
          /\ h <= units[u].health
          /\ \E i \in DOMAIN units[u].nodes : units[u].nodes[i].node = n
      BY <3>1 DEF Consistent
    <3>3. h \in Int
      BY <1>11, <3>1
    <3> HIDE DEF u, h
    <3>4. u \in DOMAIN units'
      BY <1>5, <3>2
    <3>5. CASE u \in named
      <4>1. PICK k, q : Added(u, k, q)
        BY <1>8, <3>5
      <4>2. units[u].health <= units'[u].health
        BY <1>9, <3>2, <4>1
      <4>3. h <= units'[u].health
        BY <1>11, <3>2, <3>3, <3>4, <4>2
      <4>4. \E i \in DOMAIN units'[u].nodes : units'[u].nodes[i].node = n
        BY <1>9, <3>2, <4>1, SMTT(30)
      <4>5. QED
        BY <3>4, <4>3, <4>4 DEF u, h
    <3>6. CASE u \notin named
      BY <1>5, <3>2, <3>4, <3>6 DEF u, h
    <3>7. QED
      BY <3>5, <3>6
  <2>3. QED
    BY <2>1, <2>2
<1>15. ASSUME NEW u \in DOMAIN units'
       PROVE  \E n \in DOMAIN nodes' : \E j \in DOMAIN nodes'[n].units :
                nodes'[n].units[j] = [unit |-> u, health |-> units'[u].health]
  <2>1. ASSUME u \in DOMAIN units, units'[u].health = units[u].health
        PROVE  \E n \in DOMAIN nodes' : \E j \in DOMAIN nodes'[n].units :
                 nodes'[n].units[j] = [unit |-> u, health |-> units'[u].health]
    <3>1. PICK n \in DOMAIN nodes : \E j \in DOMAIN nodes[n].units :
            nodes[n].units[j] = [unit |-> u, health |-> units[u].health]
      BY <2>1 DEF Consistent
    <3>2. n \in DOMAIN nodes' /\ nodes'[n] = nodes[n]
      BY <1>5, <1>7
    <3>3. QED
      BY <2>1, <3>1, <3>2
  <2>2. CASE u \in named
    <3>1. PICK k, q : Added(u, k, q)
      BY <1>8, <2>2
    <3>2. CASE units'[u].health = l[k].health
      <4>1. k \in DOMAIN l /\ l[k] = [unit |-> u, health |-> units'[u].health]
        BY <1>4, <1>9, <3>1, <3>2
      <4>2. a \in DOMAIN nodes' /\ nodes'[a].units = l
        BY <1>5, <1>6
      <4>3. QED
        BY <4>1, <4>2
    <3>3. CASE u \in DOMAIN units /\ units'[u].health = units[u].health
      BY <2>1, <3>3
    <3>4. QED
      BY <1>9, <3>1, <3>2, <3>3
  <2>3. CASE u \notin named
    BY <1>5, <2>1, <2>3
  <2>4. QED
    BY <2>2, <2>3
<1>16. QED
  BY <1>13, <1>14, <1>15 DEF Consistent

\* A set of places has a first one.
LEMMA FirstPlace ==
  ASSUME NEW S, S \subseteq Nat, S # {}
  PROVE  (CHOOSE i \in S : \A j \in S : i <= j) \in S
<1>1. IsWellFoundedOn(OpToRel(<, Nat), Nat)
  BY NatLessThanWellFounded
<1>2. PICK x \in S : \A y \in S : ~(<<y, x>> \in OpToRel(<, Nat))
  BY <1>1, WFMin, Zenon
<1>3. \A y \in S : ~(y < x)
  BY <1>2 DEF OpToRel
<1>4. \A y \in S : x <= y
  BY <1>3
<1>5. QED
  BY <1>4, Zenon

\* A tree as the getters need it.
Sound(t) ==
  /\ DOMAIN t.nodes \subseteq Nodes
  /\ \A n \in DOMAIN t.nodes : t.nodes[n] \in NodeEntry /\ Distinct(t.nodes[n].units)
  /\ \A u \in DOMAIN t.units : t.units[u] \in UnitNodes
  /\ Consistent(t.nodes, t.units)

\* What is looked up in the units of a node.
LEMMA NodeSays ==
  ASSUME NEW t, Sound(t), NEW n, NEW u
  PROVE  LET h == GetNodeUnitByNodeIDUnitID(t, n, u)
         IN  \/ /\ h = NotFound
                /\ n \in DOMAIN t.nodes =>
                     \A j \in DOMAIN t.nodes[n].units : t.nodes[n].units[j].unit # u
             \/ /\ n \in DOMAIN t.nodes
                /\ \E j \in DOMAIN t.nodes[n].units :
                     t.nodes[n].units[j].unit = u /\ h = t.nodes[n].units[j].health
<1> DEFINE listed == GetNodeUnitsID(t, n)
           at == {i \in DOMAIN listed : listed[i].unit = u}
           first == CHOOSE i \in at : \A j \in at : i <= j
           h == GetNodeUnitByNodeIDUnitID(t, n, u)
<1>1. h = IF at = {} THEN NotFound ELSE listed[first].health
  BY Zenon DEF GetNodeUnitByNodeIDUnitID
<1>2. IF n \in DOMAIN t.nodes THEN listed = t.nodes[n].units ELSE listed = <<>>
  BY Zenon DEF GetNodeUnitsID
<1>3. listed \in Seq(Listing)
  <2>1. CASE n \in DOMAIN t.nodes
    BY <1>2, <2>1 DEF Sound, NodeEntry
  <2>2. CASE n \notin DOMAIN t.nodes
    BY <1>2, <2>2
  <2>3. QED
    BY <2>1, <2>2
<1> HIDE DEF listed
<1>4. at \subseteq Nat
  BY <1>3
<1>5. CASE at = {}
  <2>1. h = NotFound /\ \A j \in DOMAIN listed : listed[j].unit # u
    BY <1>1, <1>5
  <2> HIDE DEF h
  <2>2. QED
    BY <1>2, <2>1 DEF h
<1>6. CASE at # {}
  <2>1. first \in at
    <3> HIDE DEF at
    <3> QED
      BY <1>4, <1>6, FirstPlace, Zenon DEF first
  <2>2. h = listed[first].health
    BY <1>1, <1>6, Zenon
  <2> HIDE DEF first, h
  <2>3. first \in DOMAIN listed /\ listed[first].unit = u
    BY <2>1
  <2>4. n \in DOMAIN t.nodes
    BY <1>2, <2>3
  <2>5. QED
    BY <1>2, <2>2, <2>3, <2>4 DEF h
<1>7. QED
  BY <1>5, <1>6

\* What is looked up in the nodes of a unit.
LEMMA UnitSays ==
  ASSUME NEW t, Sound(t), NEW n, NEW u
  PROVE  LET h == GetSpecificNodeForUnit(t, u, n)
         IN  \/ /\ h = NotFound
                /\ u \in DOMAIN t.units =>
                     \A j \in DOMAIN t.units[u].nodes : t.units[u].nodes[j].node # n
             \/ /\ u \in DOMAIN t.units
                /\ \E j \in DOMAIN t.units[u].nodes :
                     t.units[u].nodes[j].node = n /\ h = t.units[u].nodes[j].health
<1> DEFINE listed == GetNodesForUnit(t, u)
           at == {i \in DOMAIN listed : t.units[u].nodes[i].node = n}
           first == CHOOSE i \in at : \A j \in at : i <= j
           h == GetSpecificNodeForUnit(t, u, n)
<1>1. h = IF at = {} THEN NotFound ELSE t.units[u].nodes[first].health
  BY Zenon DEF GetSpecificNodeForUnit
<1>2. IF u \in DOMAIN t.units THEN listed = t.units[u].nodes ELSE listed = <<>>
  BY Zenon DEF GetNodesForUnit
<1>3. DOMAIN listed \subseteq Nat
  <2>1. CASE u \in DOMAIN t.units
    <3>1. listed \in Seq([node : Nodes, health : Healths])
      BY <1>2, <2>1 DEF Sound, UnitNodes
    <3>2. QED
      BY <3>1
  <2>2. CASE u \notin DOMAIN t.units
    BY <1>2, <2>2
  <2>3. QED
    BY <2>1, <2>2
<1> HIDE DEF listed
<1>4. at \subseteq Nat
  BY <1>3
<1>5. CASE at = {}
  <2>1. h = NotFound /\ \A j \in DOMAIN listed : t.units[u].nodes[j].node # n
    BY <1>1, <1>5
  <2> HIDE DEF h
  <2>2. QED
    BY <1>2, <2>1 DEF h
<1>6. CASE at # {}
  <2>1. first \in at
    <3> HIDE DEF at
    <3> QED
      BY <1>4, <1>6, FirstPlace, Zenon DEF first
  <2>2. h = t.units[u].nodes[first].health
    BY <1>1, <1>6, Zenon
  <2> HIDE DEF first, h
  <2>3. first \in DOMAIN listed /\ t.units[u].nodes[first].node = n
    BY <2>1
  <2>4. u \in DOMAIN t.units
    BY <1>2, <2>3
  <2>5. QED
    BY <1>2, <2>2, <2>3, <2>4 DEF h
<1>7. QED
  BY <1>5, <1>6

\* The health a node lists for a unit, and the health of a unit, are numbers.
LEMMA HealthsAreNumbers ==
  ASSUME NEW t, Sound(t)
  PROVE  /\ \A n \in DOMAIN t.nodes : /\ t.nodes[n].health \in {0, 1, 3}
                                      /\ \A j \in DOMAIN t.nodes[n].units :
                                           t.nodes[n].units[j].health \in {0, 1}
         /\ \A u \in DOMAIN t.units : /\ t.units[u].health \in {0, 1}
                                      /\ \A j \in DOMAIN t.units[u].nodes :
                                           t.units[u].nodes[j].health \in {0, 1, 3}
<1>1. ASSUME NEW n \in DOMAIN t.nodes
      PROVE  /\ t.nodes[n].health \in {0, 1, 3}
             /\ \A j \in DOMAIN t.nodes[n].units : t.nodes[n].units[j].health \in {0, 1}
  <2> DEFINE s == t.nodes[n].units
  <2>1. s \in Seq(Listing) /\ t.nodes[n].health \in Healths
    BY DEF Sound, NodeEntry
  <2> HIDE DEF s
  <2>2. \A j \in DOMAIN s : s[j] \in Listing
    BY <2>1
  <2>3. \A j \in DOMAIN s : s[j].health \in {0, 1}
    BY <2>2 DEF Listing, Healthy, Unhealthy
  <2>4. QED
    BY <2>1, <2>3 DEF s, Healths, Healthy, Unhealthy, Unknown
<1>2. ASSUME NEW u \in DOMAIN t.units
      PROVE  /\ t.units[u].health \in {0, 1}
             /\ \A j \in DOMAIN t.units[u].nodes : t.units[u].nodes[j].health \in {0, 1, 3}
  <2> DEFINE s == t.units[u].nodes
             N == [node : Nodes, health : Healths]
  <2>1. s \in Seq(N) /\ t.units[u].health \in {Healthy, Unhealthy}
    BY DEF Sound, UnitNodes
  <2> HIDE DEF s, N
  <2>2. \A j \in DOMAIN s : s[j] \in N
    BY <2>1
  <2>3. \A j \in DOMAIN s : s[j].health \in {0, 1, 3}
    BY <2>2 DEF N, Healths, Healthy, Unhealthy, Unknown
  <2>4. QED
    BY <2>1, <2>3 DEF s, Healthy, Unhealthy
<1>3. QED
  BY <1>1, <1>2

\* The views of a sound tree agree.
LEMMA SoundAgrees == ASSUME NEW t, Sound(t) PROVE Agree(t)
<1>0. Consistent(t.nodes, t.units)
  BY DEF Sound
<1>1. ASSUME NEW u \in Names, NEW n \in Nodes
      PROVE  LET listed == GetNodeUnitByNodeIDUnitID(t, n, u)
                 entry == GetSpecificNodeForUnit(t, u, n)
             IN  /\ listed = NotFound <=> entry = NotFound
                 /\ entry # NotFound => entry = GetNodeByID(t, n)
                 /\ listed <= GetUnit(t, u)
  <2> DEFINE listed == GetNodeUnitByNodeIDUnitID(t, n, u)
             entry == GetSpecificNodeForUnit(t, u, n)
             k == GetUnit(t, u)
             g == GetNodeByID(t, n)
  <2>1. \/ /\ listed = NotFound
           /\ n \in DOMAIN t.nodes =>
                \A j \in DOMAIN t.nodes[n].units : t.nodes[n].units[j].unit # u
        \/ /\ n \in DOMAIN t.nodes
           /\ \E j \in DOMAIN t.nodes[n].units :
                t.nodes[n].units[j].unit = u /\ listed = t.nodes[n].units[j].health
    BY NodeSays
  <2>2. \/ /\ entry = NotFound
           /\ u \in DOMAIN t.units =>
                \A j \in DOMAIN t.units[u].nodes : t.units[u].nodes[j].node # n
        \/ /\ u \in DOMAIN t.units
           /\ \E j \in DOMAIN t.units[u].nodes :
                t.units[u].nodes[j].node = n /\ entry = t.units[u].nodes[j].health
    BY UnitSays
  <2>3. /\ k = IF u \in DOMAIN t.units THEN t.units[u].health ELSE NotFound
        /\ g = IF n \in DOMAIN t.nodes THEN t.nodes[n].health ELSE NotFound
    BY Zenon DEF GetUnit, GetNodeByID
  <2> HIDE DEF listed, entry, k, g
  <2>4. /\ \A m \in DOMAIN t.nodes : \A j \in DOMAIN t.nodes[m].units :
             t.nodes[m].units[j].health \in {0, 1}
        /\ \A v \in DOMAIN t.units : t.units[v].health \in {0, 1}
        /\ \A v \in DOMAIN t.units : \A j \in DOMAIN t.units[v].nodes :
             t.units[v].nodes[j].health \in {0, 1, 3}
    BY HealthsAreNumbers, SMTT(30)
  <2>5. ASSUME n \in DOMAIN t.nodes, NEW j \in DOMAIN t.nodes[n].units,
               t.nodes[n].units[j].unit = u
        PROVE  /\ u \in DOMAIN t.units
               /\ t.nodes[n].units[j].health <= t.units[u].health
               /\ \E i \in DOMAIN t.units[u].nodes : t.units[u].nodes[i].node = n
    BY <1>0, <2>5, ZenonT(60) DEF Consistent
  <2>6. ASSUME u \in DOMAIN t.units, NEW i \in DOMAIN t.units[u].nodes,
               t.units[u].nodes[i].node = n
        PROVE  /\ n \in DOMAIN t.nodes
               /\ t.units[u].nodes[i].health = t.nodes[n].health
               /\ \E j \in DOMAIN t.nodes[n].units : t.nodes[n].units[j].unit = u
    BY <1>0, <2>6, ZenonT(60) DEF Consistent
  <2>7. listed = NotFound <=> entry = NotFound
    BY <2>1, <2>2, <2>4, <2>5, <2>6 DEF NotFound
  <2>8. entry # NotFound => entry = g
    BY <2>2, <2>3, <2>6
  <2>9. listed <= k
    BY <2>1, <2>3, <2>4, <2>5 DEF NotFound
  <2>10. QED
    BY <2>7, <2>8, <2>9 DEF listed, entry, k, g
<1>2. ASSUME NEW x \in GetAllUnits(t)
      PROVE  \E n \in DOMAIN t.nodes : GetNodeUnitByNodeIDUnitID(t, n, x.unit) = x.health
  <2>1. PICK u \in DOMAIN t.units : x = [unit |-> u, health |-> t.units[u].health]
    BY Zenon DEF GetAllUnits
  <2>2. PICK n \in DOMAIN t.nodes : \E j \in DOMAIN t.nodes[n].units :
          t.nodes[n].units[j] = [unit |-> u, health |-> t.units[u].health]
    BY <1>0, Zenon DEF Consistent
  <2>3. PICK j \in DOMAIN t.nodes[n].units :
          t.nodes[n].units[j] = [unit |-> u, health |-> t.units[u].health]
    BY <2>2
  <2>4. t.nodes[n].units[j].unit = u /\ t.nodes[n].units[j].health = t.units[u].health
    BY <2>3
  <2>5. PICK i \in DOMAIN t.nodes[n].units :
          /\ t.nodes[n].units[i].unit = u
          /\ GetNodeUnitByNodeIDUnitID(t, n, u) = t.nodes[n].units[i].health
    BY <2>4, NodeSays
  <2>6. i = j
    BY <2>4, <2>5 DEF Sound, Distinct
  <2>7. x.unit = u /\ x.health = t.units[u].health
    BY <2>1
  <2>8. QED
    BY <2>4, <2>5, <2>6, <2>7
<1>3. QED
  BY <1>1, <1>2, Zenon DEF Agree

\* Empty maps are consistent.
LEMMA NothingIsConsistent ==
  ASSUME NEW ns, NEW us, DOMAIN ns = {}, DOMAIN us = {}
  PROVE  Consistent(ns, us)
  BY DEF Consistent

\* The tree that is updated.
LEMMA UpdatedStep ==
  Typed /\ Shaped /\ Scoped /\ Covered /\ Updated /\ [Next]_vars => Updated'
<1> SUFFICES ASSUME Typed, Shaped, Scoped, Covered, Updated, [Next]_vars PROVE Updated'
  OBVIOUS
<1>1. ASSUME UNCHANGED <<nodes, units, tree, basis>>,
             (ppc' # "units" /\ ppc # "units") \/ ppc' = ppc
      PROVE  Updated'
  BY <1>1 DEF Updated, Unlocked
<1>2. ASSUME NEW exhibitor, NEW dns, NEW leader, NEW slaves,
             StartPull(exhibitor, dns, leader, slaves)
      PROVE  Updated'
  BY <1>1, <1>2 DEF StartPull
<1>3. ASSUME NEW n \in Nodes, HostStep(n) PROVE Updated'
  BY <1>1, <1>3 DEF HostStep, HostAnswered, HostUnknown
<1>4. ASSUME WaitForHosts PROVE Updated'
  <2>1. /\ DOMAIN nodes' = {} /\ DOMAIN units' = {} /\ UNCHANGED <<tree, basis>>
        /\ ppc = "wait" /\ ppc' = "drain"
    BY <1>4 DEF WaitForHosts, Empty
  <2>2. Consistent(nodes', units')
    BY <2>1, NothingIsConsistent
  <2>3. QED
    BY <2>1, <2>2 DEF Updated, Unlocked
<1>5. ASSUME MergeResponse PROVE Updated'
  <2>1. Consistent(nodes', units')
    BY <1>5, MergeConsistent DEF Updated
  <2>2. ppc = "drain" /\ UNCHANGED <<ppc, tree, basis>>
    BY <1>5 DEF MergeResponse
  <2>3. QED
    BY <2>1, <2>2 DEF Updated, Unlocked
<1>6. ASSUME SetNodes PROVE Updated'
  <2>1. tree'.nodes = nodes
    BY <1>6 DEF SetNodes, Shaped
  <2>2. ppc' = "units" /\ UNCHANGED <<nodes, units, basis>>
    BY <1>6 DEF SetNodes
  <2>3. QED
    BY <2>1, <2>2 DEF Updated, Unlocked
<1>7. ASSUME SetUnits PROVE Updated'
  <2>1. /\ ppc = "units" /\ ppc' = "idle" /\ tree.nodes = nodes
        /\ basis' = [found |-> found, heard |-> heard, owed |-> owed]
        /\ DOMAIN nodes' = {} /\ DOMAIN units' = {}
    BY <1>7 DEF SetUnits, Empty, Updated
  <2>2. tree'.nodes = nodes /\ tree'.units = units
    BY <1>7, <2>1 DEF SetUnits, Shaped
  <2>3. Consistent(nodes', units')
    BY <2>1, NothingIsConsistent
  <2>4. DOMAIN respChan = {} /\ \A n \in found : hpc[n] = "off"
    BY <2>1 DEF Scoped, Typed
  <2>5. DOMAIN nodes = found
    BY <2>4 DEF Covered
  <2>6. \A n \in DOMAIN nodes : Right(n, nodes[n].health, nodes[n].units, heard, owed)
    BY DEF Covered
  <2>7. basis'.found = found /\ basis'.heard = heard /\ basis'.owed = owed
    BY <2>1
  <2>8. basis'.heard \subseteq basis'.found
    BY <2>7 DEF Typed
  <2>9. QED
    BY <2>1, <2>2, <2>3, <2>5, <2>6, <2>7, <2>8 DEF Updated, Unlocked
<1>8. ASSUME ReportStep \/ UNCHANGED vars \/ UNCHANGED <<pullVars, tree, readVars>> PROVE Updated'
  BY <1>1, <1>8 DEF ReportStep, vars, pullVars
<1>9. QED
  BY <1>2, <1>3, <1>4, <1>5, <1>6, <1>7, <1>8 DEF Next, PullStep

\* Whoever reads under the lock has a sound tree.
LEMMA TreeIsSound ==
  ASSUME Typed, Shaped, Updated, Unlocked
  PROVE  Sound(tree)
<1>1. \A n \in DOMAIN tree.nodes : Distinct(tree.nodes[n].units)
  BY DEF Updated, Right
<1>2. QED
  BY <1>1 DEF Shaped, Updated, Sound

\* The report.
LEMMA ReadStep == Typed /\ Shaped /\ Updated /\ Read /\ [Next]_vars => Read'
<1> SUFFICES ASSUME Typed, Shaped, Updated, Read, [Next]_vars PROVE Read'
  OBVIOUS
<1>1. ASSUME UNCHANGED <<tree, readVars>>, ppc' # "units" \/ ppc' = ppc PROVE Read'
  BY <1>1 DEF Read, Unlocked, readVars
<1>2. ASSUME NEW exhibitor, NEW dns, NEW leader, NEW slaves,
             StartPull(exhibitor, dns, leader, slaves)
      PROVE  Read'
  BY <1>1, <1>2 DEF StartPull
<1>3. ASSUME NEW n \in Nodes, HostStep(n) PROVE Read'
  BY <1>1, <1>3 DEF HostStep, HostAnswered, HostUnknown
<1>4. ASSUME WaitForHosts \/ MergeResponse PROVE Read'
  BY <1>1, <1>4 DEF WaitForHosts, MergeResponse
<1>5. ASSUME SetNodes \/ SetUnits PROVE Read'
  <2>1. clean' = (rpc = "idle") /\ rpc' = rpc /\ mixed' = mixed
    BY <1>5, Zenon DEF SetNodes, SetUnits, Disturb
  <2>2. rpc' = "nodes" => rpc # "idle"
    BY <2>1
  <2>3. rpc' = "nodes" => ~clean'
    BY ONLY <2>1, <2>2, Zenon
  <2>4. QED
    BY ONLY <2>1, <2>3, Read, Zenon DEF Read
<1>6. ASSUME ReadUnits, UNCHANGED <<ppc, tree>> PROVE Read'
  BY <1>6 DEF ReadUnits, Read, Unlocked
<1>7. ASSUME ReadNodes, UNCHANGED <<ppc, tree>> PROVE Read'
  <2>1. rpc' = "idle"
    BY <1>7 DEF ReadNodes
  <2> DEFINE t == [units |-> seen, nodes |-> tree.nodes]
  <2>2. t.units = seen /\ t.nodes = tree.nodes
    OBVIOUS
  <2> HIDE DEF t
  <2>3. ASSUME clean PROVE Agree(t)
    <3>1. Sound(tree) /\ seen = tree.units
      BY <1>7, <2>3, TreeIsSound DEF Read, ReadNodes
    <3>2. Sound(t)
      BY <2>2, <3>1 DEF Sound
    <3>3. QED
      BY <3>2, SoundAgrees
  <2>4. ~mixed'
    <3>1. ~mixed
      BY DEF Read
    <3>2. QED
      BY <1>7, <2>3, <3>1, Zenon DEF ReadNodes, t
  <2>5. QED
    BY <2>1, <2>4 DEF Read
<1>8. ASSUME UNCHANGED vars \/ UNCHANGED <<pullVars, tree, readVars>> PROVE Read'
  BY <1>1, <1>8 DEF vars, pullVars
<1>9. QED
  BY <1>2, <1>3, <1>4, <1>5, <1>6, <1>7, <1>8 DEF Next, PullStep, ReportStep, pullVars

-----------------------------------------------------------------------------
(* The theorems. *)

\* The invariant holds at first.
LEMMA IInvInit == Init => IInv
<1> SUFFICES ASSUME Init PROVE IInv
  OBVIOUS
<1>0. NodeInit /\ NodeTypeOK
  <2>1. NodeInit
    BY DEF Init
  <2>2. failed \in [Reqs -> BOOLEAN] /\ dcon \in [Nodes -> BOOLEAN]
    BY <2>1, Zenon DEF NodeInit
  <2>3. 0 \in 0..MaxEvents /\ <<>> \in Seq([unit : Names, health : {Healthy, Unhealthy}])
    BY BoundsAssumption
  <2>4. props \in [Nodes -> [Names -> Properties]]
    BY <2>1, PropertiesAssumption DEF NodeInit
  <2>5. QED
    BY <2>1, <2>2, <2>3, <2>4 DEF NodeInit, NodeTypeOK
<1>1. /\ DOMAIN Empty = {} /\ Distinct(<<>>) /\ IsInjective(<<>>)
      /\ Consistent(Empty, Empty)
  <2>1. DOMAIN Empty = {} /\ Distinct(<<>>) /\ IsInjective(<<>>)
    BY DEF Empty, Distinct, IsInjective
  <2>2. QED
    BY <2>1, NothingIsConsistent
<1>2. tree.nodes = Empty /\ tree.units = Empty /\ tree.time = 0
  BY DEF Init
<1>3. basis.found = {} /\ basis.heard = {} /\ basis.owed = {}
  BY DEF Init
<1> HIDE DEF Empty
<1>4. Typed
  <2>1. clean \in BOOLEAN /\ mixed \in BOOLEAN
    BY Zenon DEF Init
  <2>2. pull \in 0..MaxPulls
    BY RequestsAssumption DEF Init
  <2>3. /\ ppc \in {"idle", "wait", "drain", "units"}
        /\ hpc \in [Nodes -> {"off", "get"}]
        /\ rpc \in {"idle", "nodes"}
        /\ found = {} /\ heard = {} /\ owed = {}
    BY DEF Init
  <2>4. QED
    BY ONLY <1>0, <1>3, <2>1, <2>2, <2>3 DEF Typed
<1>5. Shaped
  BY <1>1, <1>2, RequestsAssumption DEF Init, Shaped
<1>6. Owners
  BY <1>0, WantsAssumption DEF NodeInit, Owners, LocksHaveOwners
<1>7. Once /\ Noticed
  BY <1>0, <1>1 DEF NodeInit, Once, Noticed
<1>8. Scoped /\ Covered
  BY <1>1 DEF Init, Scoped, Covered
<1>9. Updated
  BY <1>1, <1>2, <1>3 DEF Init, Updated
<1>10. Read
  BY DEF Init, Read
<1>11. QED
  BY <1>4, <1>5, <1>6, <1>7, <1>8, <1>9, <1>10 DEF IInv

\* The invariant is one of the puller, the nodes and the readers.
THEOREM Inductive == Spec => []IInv
<1>1. IInv /\ [Next]_vars => IInv'
  BY TypedStep, ShapedStep, OwnersStep, OnceStep, NoticedStep, ScopedStep, CoveredStep,
     UpdatedStep, ReadStep DEF IInv
<1>2. QED
  BY <1>1, IInvInit, PTL DEF Spec

\* No lock is left behind, on any node: the locks of SystemdUnits and Tools are held by
\* requests at work, or by one whose journal hangs.
THEOREM LocksAreReleased == Spec => []LocksHaveOwners
<1>1. IInv => LocksHaveOwners
  BY DEF IInv, Owners
<1>2. QED
  BY <1>1, Inductive, PTL

\* The tree has the nodes of one pull, and those that did not answer are unknown.
THEOREM TreeIsOfOnePull == Spec => []TreeCoversPull
<1>1. IInv => TreeCoversPull
  <2> SUFFICES ASSUME IInv, Unlocked
               PROVE  /\ {x.node : x \in GetNodes(tree)} = basis.found
                      /\ \A x \in GetNodes(tree) : x.health = Unknown <=> x.node \notin basis.heard
    BY DEF TreeCoversPull
  <2>1. /\ DOMAIN tree.nodes = basis.found
        /\ \A n \in DOMAIN tree.nodes : tree.nodes[n].health = Unknown <=> n \notin basis.heard
    BY DEF IInv, Updated, Right
  <2>2. ASSUME NEW x \in GetNodes(tree)
        PROVE  x.node \in basis.found /\ (x.health = Unknown <=> x.node \notin basis.heard)
    <3>1. PICK n \in DOMAIN tree.nodes : x = [node |-> n, health |-> tree.nodes[n].health]
      BY DEF GetNodes
    <3>2. x.node = n /\ x.health = tree.nodes[n].health
      BY <3>1
    <3>3. QED
      BY <2>1, <3>2
  <2>3. ASSUME NEW n \in basis.found PROVE \E x \in GetNodes(tree) : x.node = n
    <3>1. [node |-> n, health |-> tree.nodes[n].health] \in GetNodes(tree)
      BY <2>1 DEF GetNodes
    <3>2. QED
      BY <3>1
  <2>4. QED
    BY ONLY <2>2, <2>3
<1>2. QED
  BY <1>1, Inductive, PTL

\* The getters of MonitoringResponse agree, and so does a report no update overlaps.
THEOREM ViewsAlwaysAgree == Spec => []ViewsAgree
<1>1. IInv => ViewsAgree
  BY TreeIsSound, SoundAgrees DEF IInv, Read, ViewsAgree
<1>2. QED
  BY <1>1, Inductive, PTL

\* A unit that did not serve while its node answered is shown as unhealthy, with its
\* node, by every getter.
THEOREM SickUnitsAreShown == Spec => []SickIsShown
<1>1. IInv => SickIsShown
  <2> SUFFICES ASSUME IInv, Unlocked, NEW n \in Nodes, NEW u \in Names, <<n, u>> \in basis.owed
               PROVE  /\ GetNodeByID(tree, n) = Unhealthy
                      /\ GetNodeUnitByNodeIDUnitID(tree, n, u) = Unhealthy
                      /\ GetUnit(tree, u) = Unhealthy
                      /\ GetSpecificNodeForUnit(tree, u, n) = Unhealthy
    BY DEF SickIsShown
  <2>1. Sound(tree) /\ Agree(tree)
    BY TreeIsSound, SoundAgrees DEF IInv
  <2>2. n \in basis.heard
    BY DEF IInv, Typed
  <2>3. n \in DOMAIN tree.nodes
    <3>1. basis.heard \subseteq basis.found
      BY DEF IInv, Updated
    <3>2. QED
      BY <2>2, <3>1 DEF IInv, Updated
  <2>4. tree.nodes[n].health = Unhealthy /\ Shows(tree.nodes[n].units, u)
    BY <2>3 DEF IInv, Updated, Right
  <2>5. PICK j \in DOMAIN tree.nodes[n].units :
          tree.nodes[n].units[j] = [unit |-> u, health |-> Unhealthy]
    BY <2>4 DEF Shows
  <2>6. tree.nodes[n].units[j].unit = u /\ tree.nodes[n].units[j].health = Unhealthy
    BY <2>5
  <2>7. GetNodeByID(tree, n) = Unhealthy
    BY <2>3, <2>4 DEF GetNodeByID
  <2>8. GetNodeUnitByNodeIDUnitID(tree, n, u) = Unhealthy
    <3>1. PICK i \in DOMAIN tree.nodes[n].units :
            /\ tree.nodes[n].units[i].unit = u
            /\ GetNodeUnitByNodeIDUnitID(tree, n, u) = tree.nodes[n].units[i].health
      BY <2>1, <2>3, <2>6, NodeSays
    <3>2. i = j
      BY <2>1, <2>3, <2>6, <3>1 DEF Sound, Distinct
    <3>3. QED
      BY <2>6, <3>1, <3>2
  <2>9. /\ GetNodeUnitByNodeIDUnitID(tree, n, u) <= GetUnit(tree, u)
        /\ GetSpecificNodeForUnit(tree, u, n) # NotFound
        /\ GetSpecificNodeForUnit(tree, u, n) = GetNodeByID(tree, n)
    BY <2>1, <2>8 DEF Agree, Unhealthy, NotFound
  <2>10. GetUnit(tree, u) \in {NotFound, 0, 1}
    BY <2>1, HealthsAreNumbers DEF GetUnit
  <2>11. QED
    BY <2>7, <2>8, <2>9, <2>10 DEF Unhealthy, NotFound
<1>2. QED
  BY <1>1, Inductive, PTL

\* The types, and the channel never holds more answers than it has room for.
THEOREM TypeCorrect == Spec => []TypeOK
<1>1. IInv => TypeOK
  <2> SUFFICES ASSUME IInv PROVE TypeOK
    OBVIOUS
  <2>1. Len(respChan) \in Nat /\ DOMAIN respChan = 1..Len(respChan)
    BY DEF IInv, Shaped
  <2> DEFINE f == [i \in 1..Len(respChan) |-> respChan[i].node]
  <2>2. f \in Injection(1..Len(respChan), found)
    <3>1. f \in [1..Len(respChan) -> found]
      BY <2>1 DEF IInv, Covered
    <3>2. \A i, j \in 1..Len(respChan) : f[i] = f[j] => i = j
      BY <2>1 DEF IInv, Covered
    <3>3. QED
      BY <3>1, <3>2 DEF Injection, IsInjective
  <2>3. Cardinality(1..Len(respChan)) = Len(respChan)
    <3>1. \A k \in Nat : Cardinality(1..k) = k
      BY FS_Interval
    <3>2. QED
      BY <2>1, <3>1
  <2>4. IsFiniteSet(found)
    BY RolesAssumption, FS_Subset DEF IInv, Typed
  <2>5. Len(respChan) <= Cardinality(found)
    <3> HIDE DEF f
    <3>1. QED
      BY <2>2, <2>3, <2>4, FS_Injection
  <2>6. ASSUME NEW i \in DOMAIN respChan
        PROVE  respChan[i].node \in found /\ respChan[i].health \in {Healthy, Unhealthy, Unknown}
    <3>1. respChan[i] \in Response
      BY <2>1 DEF IInv, Shaped
    <3>2. QED
      BY <3>1 DEF IInv, Covered, Response, Healths
  <2>7. /\ \A m \in {nodes, tree.nodes} : DOMAIN m \subseteq Nodes
        /\ \A m \in {units, tree.units, seen} : DOMAIN m \subseteq Names
        /\ tree.time \in 0..pull
    BY DEF IInv, Shaped
  <2>8. Typed
    BY DEF IInv
  <2>9. QED
    BY ONLY <2>5, <2>6, <2>7, <2>8, Zenon DEF Typed, TypeOK
<1>2. QED
  BY <1>1, Inductive, PTL

=============================================================================
