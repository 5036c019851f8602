---------------------------- MODULE MCFetchJob ----------------------------
(* A master and an agent, and three requests of an operator for TLC.         *)
EXTENDS FetchJob

CONSTANTS n1, n2

\* An optional endpoint of masters; on every node, two locations with one key, and a
\* command for agents whose namesake for masters comes after it.
Metrics == Provider("http", "p1", "metrics", "metrics", {"master"}, TRUE)
Log(id, name) == Provider("file", id, "var_log", name, {}, FALSE)
Cmd(id, role) == Provider("cmd", id, "ps", "ps", {role}, FALSE)

Plain == Configuration(<<>>, <<>>, << <<Metrics>> >>)
Crowded == Configuration(<<"unit">>, <<>>, << <<Log("p2", "/var/log"), Cmd("p3", "agent")>>,
                                              <<Log("p4", "/var_log"), Cmd("p5", "master")>> >>)

\* Everything; a node that is asked for twice; a node with namesakes.
MCInputs ==
  {[wanted |-> <<"all">>, config |-> n1 :> Plain @@ n2 :> Plain],
   [wanted |-> <<"agents", n2>>, config |-> n1 :> Plain @@ n2 :> Plain],
   [wanted |-> <<n2>>, config |-> n1 :> Crowded @@ n2 :> Crowded]}

MCMasterNodes == <<n1>>
MCAgentNodes == <<n2>>

\* The legacy job offers what a local bundle collects, but for namesakes: for all
\* configurations with a unit and three providers of any kind, key and role.
SomeProviders ==
  {Provider(kind, id, key, key, roles, id = "p1") :
     kind \in {"http", "file", "cmd"}, id \in {"p1", "p2"}, key \in {"a", "unit"}, roles \in {{}, {"agent"}}}
ASSUME OffersWhatIsCollected ==
  \A p, q, r \in SomeProviders :
    LET cfg == Configuration(<<"unit">>, <<>>, << <<p, q>>, <<r>> >>)
    IN  \A role \in {"master", "agent"} :
          LET listed == getLogsEndpoints(cfg, role)
              collected == LoadCollectors(cfg, role)
          IN  /\ {listed[name].provider : name \in DOMAIN listed} \subseteq collected
              /\ \A c \in collected :
                   \/ c.name \in DOMAIN listed /\ listed[c.name].provider = c
                   \/ \E d \in Range(loadProviders(cfg)) : d # c /\ d.name = c.name

=============================================================================
