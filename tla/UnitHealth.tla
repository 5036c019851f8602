----------------------------- MODULE UnitHealth -----------------------------
(* The health of the systemd units of a node, as every node reports it at     *)
(* /system/health/v1: the handler unitsHealthStatus of api/handlers.go, with   *)
(* GetUnitsProperties and GetUnits of api/health_linux.go, the two locks it    *)
(* works under, the dbus connection of dcos/tools_linux.go, which is opened by *)
(* one function and closed by another, and the judgement of a unit's           *)
(* properties in api/properties_linux.go.                                      *)
EXTENDS Integers, Sequences, FiniteSets, Functions

CONSTANTS
  Nodes,      \* the nodes
  Reqs,       \* health requests; each is used at most once
  At,         \* At[r]: the node r is sent to
  Names,      \* names of units
  Wants,      \* Wants[n]: the units in dcos.target.wants of n, in the order of ReadDir
  Excluded,   \* excludeUnits
  Properties, \* the properties a unit may have, see UnitProperties
  Scenarios,  \* which properties the units may have at first
  Nobody,     \* no request: the lock is free
  MaxEvents   \* bound on the events of the environment: failing calls, changes of a unit

\* What CheckUnitHealth reads of a unit. The two timestamps of the monotonic
\* clock are those of the last time it became active and inactive.
UnitProperties ==
  [load : {"", "loaded", "masked"}, active : {"", "active", "inactive", "activating", "failed"},
   sub : {"", "running", "auto-restart", "dead"}, exec : Nat, up : Nat, down : Nat]

ASSUME NobodyAssumption == Nobody \notin Reqs
\* A directory has no two entries of the same name.
ASSUME WantsAssumption ==
  /\ At \in [Reqs -> Nodes]
  /\ Wants \in [Nodes -> Seq(Names)]
  /\ \A n \in Nodes : IsInjective(Wants[n])
ASSUME PropertiesAssumption ==
  /\ Properties \subseteq UnitProperties
  /\ Scenarios \subseteq [Nodes -> [Names -> Properties]]
ASSUME BoundsAssumption == MaxEvents \in Nat

VARIABLES
  props,   \* props[n][u]: properties of unit u of node n
  mutex,   \* mutex[n]: the request that holds the lock of SystemdUnits
  tools,   \* tools[n]: the request that holds the lock of Tools
  dcon,    \* dcon[n]: st.dcon is not nil
  pc,      \* pc[r]: next step of request r
  rest,    \* rest[r]: foundUnits r has not looked at yet
  report,  \* report[r]: allUnits of r
  \* History.
  failed,  \* failed[r]: a call r made has failed
  steady,  \* steady[r]: units that were unhealthy all the time from r's arrival to its end
  events   \* events of the environment so far

locks == <<mutex, tools, dcon>>
nodeVars == <<props, locks, pc, rest, report, failed, steady, events>>

-----------------------------------------------------------------------------
(* CheckUnitHealth *)

Healthy == 0
Unhealthy == 1
Unknown == 3

\* LoadState, ActiveState and SubState must be set.
Checkable(p) == p.load # "" /\ p.active # "" /\ p.sub # ""

\* Mutant of CheckUnitHealth: a unit that restarts over and over is not noticed.
CheckWithoutRestarts(p) ==
  IF \/ p.load # "loaded"
     \/ p.active \notin {"active", "activating"}
     \/ p.exec # 0
    THEN Unhealthy ELSE Healthy

\* The health of a unit with checkable properties, test by test.
CheckUnitHealth(p) ==
  CASE p.load # "loaded" -> Unhealthy
    [] p.active \notin {"active", "inactive", "activating"} -> Unhealthy
    [] p.exec # 0 -> Unhealthy
    [] /\ p.active = "activating" /\ p.sub = "auto-restart"
       /\ p.up = 0 \/ p.down > p.up -> Unhealthy
    [] p.active = "inactive" -> Unhealthy
    [] OTHER -> Healthy

\* What the health is meant to tell: a unit serves if it is loaded and active, or
\* about to be and not just after a failure, and its process did not fail.
Serves(p) ==
  /\ p.load = "loaded" /\ p.exec = 0
  /\ \/ p.active = "active"
     \/ p.active = "activating" /\ (p.sub = "auto-restart" => p.up > 0 /\ p.down <= p.up)

\* The units of n that everybody should hear of.
Ailing(n) ==
  {u \in Range(Wants[n]) \ Excluded : Checkable(props[n][u]) /\ ~Serves(props[n][u])}

-----------------------------------------------------------------------------
NodeInit ==
  /\ props \in Scenarios
  /\ mutex = [n \in Nodes |-> Nobody]
  /\ tools = [n \in Nodes |-> Nobody]
  /\ dcon = [n \in Nodes |-> FALSE]
  /\ pc = [r \in Reqs |-> "idle"]
  /\ rest = [r \in Reqs |-> <<>>]
  /\ report = [r \in Reqs |-> <<>>]
  /\ failed = [r \in Reqs |-> FALSE]
  /\ steady = [r \in Reqs |-> {}]
  /\ events = 0

Goto(r, label) == pc' = [pc EXCEPT ![r] = label]

\* The environment has MaxEvents events to spend.
Event == events < MaxEvents /\ events' = events + 1

\* A call made for r fails.
Fault(r) ==
  /\ Event
  /\ failed' = [failed EXCEPT ![r] = TRUE]
NoFault == UNCHANGED <<events, failed>>

\* Requests R arrive at their nodes; each is a goroutine of its own.
Arrive(R) ==
  /\ \A r \in R : pc[r] = "idle"
  /\ pc' = [r \in Reqs |-> IF r \in R THEN "lock" ELSE pc[r]]
  /\ steady' = [r \in Reqs |-> IF r \in R THEN Ailing(At[r]) ELSE steady[r]]
  /\ UNCHANGED <<props, locks, rest, report, failed>>

\* s.Lock() of GetUnitsProperties.
LockUnits(r) ==
  /\ pc[r] = "lock"
  /\ mutex[At[r]] = Nobody
  /\ mutex' = [mutex EXCEPT ![At[r]] = r]
  /\ Goto(r, "open")
  /\ UNCHANGED <<props, tools, dcon, rest, report, failed, steady, events>>

\* Mutant of OpenFailed: the lock is not released when the bus cannot be reached.
OpenFailedLocked(n, r) == tools' = [tools EXCEPT ![n] = r] /\ UNCHANGED dcon

\* InitializeUnitControllerConnection returns an error, with the lock released.
OpenFailed(n, r) == UNCHANGED <<tools, dcon>>

\* InitializeUnitControllerConnection returns with the lock held if it opened the
\* connection. One that is open already is an error. Of either error, only the
\* log tells: the report goes on without units.
OpenConnection(r) ==
  /\ pc[r] = "open"
  /\ tools[At[r]] = Nobody
  /\ \/ /\ ~dcon[At[r]]
        /\ tools' = [tools EXCEPT ![At[r]] = r]
        /\ dcon' = [dcon EXCEPT ![At[r]] = TRUE]
        /\ Goto(r, "names")
        /\ NoFault
     \/ ~dcon[At[r]] /\ Fault(r) /\ OpenFailed(At[r], r) /\ Goto(r, "reply")
     \/ dcon[At[r]] /\ NoFault /\ OpenFailed(At[r], r) /\ Goto(r, "reply")
  /\ UNCHANGED <<props, mutex, rest, report, steady>>

\* GetUnitNames reads the directory.
GetUnitNames(r) ==
  /\ pc[r] = "names"
  /\ \/ rest' = [rest EXCEPT ![r] = Wants[At[r]]] /\ NoFault
     \/ rest' = [rest EXCEPT ![r] = <<>>] /\ Fault(r)
  /\ Goto(r, "units")
  /\ UNCHANGED <<props, locks, report, steady>>

\* The loop turns to the next unit. A unit is listed under the Id systemd gives for
\* it, which is the name of its entry unless the entry is an alias; none is here.
Skip(r) == rest' = [rest EXCEPT ![r] = Tail(@)] /\ UNCHANGED report
List(r, h) ==
  /\ rest' = [rest EXCEPT ![r] = Tail(@)]
  /\ report' = [report EXCEPT ![r] = Append(@, [unit |-> Head(rest[r]), health |-> h])]

\* GetUnits, one unit: an excluded one, one whose properties cannot be read and
\* one that cannot be judged are left out. Of an unhealthy one the end of the
\* journal is read, and an error of that only logged.
CheckUnit(r) ==
  /\ pc[r] = "units"
  /\ rest[r] # <<>>
  /\ LET u == Head(rest[r])
         p == props[At[r]][u]
     IN  \/ u \in Excluded /\ Skip(r) /\ NoFault
         \/ u \notin Excluded /\ Skip(r) /\ Fault(r)
         \/ u \notin Excluded /\ ~Checkable(p) /\ Skip(r) /\ NoFault
         \/ u \notin Excluded /\ Checkable(p) /\ List(r, CheckUnitHealth(p)) /\ NoFault
  /\ UNCHANGED <<props, locks, pc, steady>>

\* The journal of an unhealthy unit never answers: reading it has no time limit.
Hang(r) ==
  /\ pc[r] = "units"
  /\ rest[r] # <<>>
  /\ LET p == props[At[r]][Head(rest[r])]
     IN  Head(rest[r]) \notin Excluded /\ Checkable(p) /\ CheckUnitHealth(p) > Healthy
  /\ Fault(r)
  /\ Goto(r, "hung")
  /\ UNCHANGED <<props, locks, rest, report, steady>>

\* The deferred CloseUnitControllerConnection.
CloseConnection(r) ==
  /\ pc[r] = "units" /\ rest[r] = <<>>
  /\ dcon' = [dcon EXCEPT ![At[r]] = FALSE]
  /\ tools' = [tools EXCEPT ![At[r]] = Nobody]
  /\ Goto(r, "reply")
  /\ UNCHANGED <<props, mutex, rest, report, failed, steady, events>>

\* The rest of the report does not depend on the units; errors of its parts are
\* logged and the handler answers 200 in any case. The deferred s.Unlock().
Reply(r) ==
  /\ pc[r] = "reply"
  /\ mutex' = [mutex EXCEPT ![At[r]] = Nobody]
  /\ Goto(r, "end")
  /\ UNCHANGED <<props, tools, dcon, rest, report, failed, steady, events>>

\* A unit of node n fails, recovers, or goes on to another state.
ChangeUnit(n, u, p) ==
  /\ Event
  /\ props[n][u] # p
  /\ props' = [props EXCEPT ![n][u] = p]
  /\ steady' = [r \in Reqs |-> IF /\ At[r] = n /\ pc[r] # "end"
                                  /\ ~Checkable(p) \/ Serves(p)
                               THEN steady[r] \ {u} ELSE steady[r]]
  /\ UNCHANGED <<locks, pc, rest, report, failed>>

-----------------------------------------------------------------------------
HealthStep(r) ==
  \/ LockUnits(r) \/ OpenConnection(r) \/ GetUnitNames(r) \/ CheckUnit(r)
  \/ CloseConnection(r) \/ Reply(r)

NodeNext ==
  \/ \E r \in Reqs : HealthStep(r) \/ Hang(r)
  \/ \E n \in Nodes, p \in Properties : \E u \in Range(Wants[n]) \ Excluded : ChangeUnit(n, u, p)

NodeTypeOK ==
  /\ props \in [Nodes -> [Names -> Properties]]
  /\ mutex \in [Nodes -> Reqs \cup {Nobody}]
  /\ tools \in [Nodes -> Reqs \cup {Nobody}]
  /\ dcon \in [Nodes -> BOOLEAN]
  /\ pc \in [Reqs -> {"idle", "lock", "open", "names", "units", "hung", "reply", "end"}]
  /\ rest \in [Reqs -> Seq(Names)]
  /\ report \in [Reqs -> Seq([unit : Names, health : {Healthy, Unhealthy}])]
  /\ failed \in [Reqs -> BOOLEAN]
  /\ steady \in [Reqs -> SUBSET Names]
  /\ events \in 0..MaxEvents

=============================================================================
