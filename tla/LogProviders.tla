---------------------------- MODULE LogProviders ----------------------------
(* What a node can be asked for. The log providers of a node come from its     *)
(* systemd units and from its configuration files (api/providers.go). The      *)
(* legacy job keeps them in maps by name (Init of api/diagnostics.go) and      *)
(* lists those of its role at /logs (getLogsEndpoints); local bundles make a   *)
(* collector of every one of them (LoadCollectors). Also the choice of the     *)
(* nodes of a job (matchRequestedNodes). All of it is pure.                    *)
EXTENDS Integers, Sequences, SequencesExt, TLC

\* A provider: of HTTP endpoints the key is the file name, of local files the
\* location with the slashes replaced, of commands the words joined. Different
\* locations, and different commands, may have the same key. The name is what the
\* answer is stored under; id tells providers apart. No roles means all of them.
Provider(kind, id, key, name, roles, optional) ==
  [kind |-> kind, id |-> id, key |-> key, name |-> name, roles |-> roles, optional |-> optional]
Providers ==
  [kind : {"http", "file", "cmd"}, id : STRING, key : STRING, name : STRING,
   roles : SUBSET STRING, optional : BOOLEAN]

\* A configuration: the units of dcos.target.wants, cfg.SystemdUnits, and the
\* lists of providers of every configuration file.
Configuration(units, systemd, external) ==
  [units |-> units, systemd |-> systemd, external |-> external]
Configurations ==
  [units : Seq(STRING), systemd : Seq(STRING), external : Seq(Seq(Providers))]

roleMatched(myRole, roles) == roles = {} \/ myRole \in roles

-----------------------------------------------------------------------------
(* api/providers.go *)

UnitProvider(unit) == Provider("http", unit, unit, unit, {}, FALSE)
HealthReport == Provider("http", "health", "health", "health", {}, FALSE)

\* The files are read in their order; one that cannot be read keeps the daemon
\* from starting.
loadExternalProviders(cfg) == FlattenSeq(cfg.external)

loadUnits(cfg) ==
  LET units == cfg.units \o cfg.systemd
  IN  [i \in DOMAIN units |-> UnitProvider(units[i])]

loadInternalProviders(cfg) == Append(loadUnits(cfg), HealthReport)

loadProviders(cfg) == loadInternalProviders(cfg) \o loadExternalProviders(cfg)

\* The providers a local bundle makes a collector of: every unit, and of the others
\* those for the role.
LoadCollectors(cfg, role) ==
  Range(loadUnits(cfg)) \cup
  {p \in Range(loadExternalProviders(cfg)) \cup {HealthReport} : roleMatched(role, p.roles)}

-----------------------------------------------------------------------------
(* DiagnosticsJob.Init and getLogsEndpoints *)

\* The map of one kind: of the providers in list with the same key the last one
\* stays, whatever their roles.
Stored(list, kind) ==
  LET places == {i \in DOMAIN list : list[i].kind = kind}
      last(k) == CHOOSE i \in places :
                   list[i].key = k /\ \A j \in places : j > i => list[j].key # k
  IN  [k \in {list[i].key : i \in places} |-> list[last(k)]]

OfKind(cfg, kind) == Stored(loadProviders(cfg), kind)

\* The endpoints of one kind for a role, by name. Only those of HTTP endpoints
\* can be optional.
Visible(cfg, kind, role) ==
  LET map == OfKind(cfg, kind)
      here == {map[k] : k \in {k \in DOMAIN map : roleMatched(role, map[k].roles)}}
  IN  [name \in {p.name : p \in here} |->
         LET p == CHOOSE p \in here : p.name = name
         IN  [provider |-> p, optional |-> p.optional /\ kind = "http"]]

\* The three kinds share one map, in which commands replace files and files
\* replace HTTP endpoints.
getLogsEndpoints(cfg, role) ==
  LET http == Visible(cfg, "http", role)
      file == Visible(cfg, "file", role)
      cmd == Visible(cfg, "cmd", role)
  IN  [name \in DOMAIN http \cup DOMAIN file \cup DOMAIN cmd |->
         IF name \in DOMAIN cmd THEN cmd[name]
         ELSE IF name \in DOMAIN file THEN file[name] ELSE http[name]]

\* A provider the maps have no room for: a later one has its key, or the name is
\* that of a file or a command that is kept.
Shadowed(cfg, role, p) ==
  \/ OfKind(cfg, p.kind)[p.key] # p
  \/ getLogsEndpoints(cfg, role)[p.name].provider # p

-----------------------------------------------------------------------------
(* matchRequestedNodes *)

All == "all"
Masters == "masters"
Agents == "agents"

\* Whether a single request stands for the k-th node, masters first. A node is asked
\* for by its address, or by another of its names, which are not told apart here.
Match(request, masters, agents, k) ==
  \/ request = Masters /\ k <= Len(masters)
  \/ request = Agents /\ k > Len(masters)
  \/ request = (masters \o agents)[k]

\* A request for all nodes returns them whatever else was asked for. Otherwise a node
\* is matched by every request that stands for it, so perhaps twice: place <<i, k>>
\* is for the i-th request and the k-th node. No nodes is an error.
matchRequestedNodes(wanted, masters, agents) ==
  LET all == masters \o agents
      places == IF \E i \in DOMAIN wanted : wanted[i] = All
                  THEN {0} \X DOMAIN all
                  ELSE {x \in (DOMAIN wanted) \X (DOMAIN all) :
                          Match(wanted[x[1]], masters, agents, x[2])}
  IN  [x \in places |-> all[x[2]]]

=============================================================================
