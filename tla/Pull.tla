-------------------------------- MODULE Pull --------------------------------
(* The puller of the cluster health, api/pull.go, with its clients: requests   *)
(* that ask for fresh data go through noCacheMiddleware of api/router.go, which *)
(* hands the puller a token over one unbuffered channel and waits for the      *)
(* answer on another. Sending and receiving on them is one step of both sides. *)
(* The health of a node is a version that grows whenever it changes.           *)
EXTENDS Integers, FiniteSets

CONSTANTS
  Masters, Agents,           \* the nodes, by the lookup that finds them
  Clients,                   \* requests with the query parameter cache
  PullTimeout, PullInterval, \* FlagPullTimeoutSec, FlagPullInterval
  MaxVersion                 \* bound on the changes of a node's health

Nodes == Masters \cup Agents

ASSUME NodesAssumption == IsFiniteSet(Nodes)
ASSUME ConfigAssumption == PullTimeout \in Nat /\ PullInterval \in Nat \ {0}
ASSUME MaxVersionAssumption == MaxVersion \in Nat

\* What the tree says of a node: a version of its health, that it could not be
\* asked (dcos.Unknown), or nothing.
Unknown == -1
Absent == -2
Entry == -2..MaxVersion

VARIABLES
  ppc,      \* next step of the puller
  asked,    \* the pull was asked for by a client
  found,    \* clusterNodes
  hpc,      \* hpc[n]: next step of the pullHostStatus goroutine of n
  tokens,   \* tokens in the channel rateLimiter
  respChan, \* respChan[n]: the answer of n in the channel, Absent if there is none
  tree,     \* MonitoringResponse.Nodes
  cpc,      \* cpc[c]: next step of client c
  actual,   \* actual[n]: version of the health of n
  \* History.
  base,     \* base[c]: actual when c sent its request
  skipped,  \* skipped[c]: the pull c asked for found no nodes
  timedOut  \* a client gave up waiting

puller == <<ppc, asked, found>>
hosts == <<hpc, tokens, respChan>>
clients == <<cpc, base, skipped>>
vars == <<puller, hosts, tree, clients, actual, timedOut>>

Init ==
  /\ ppc = "lookup" /\ asked = FALSE /\ found = {}
  /\ hpc = [n \in Nodes |-> "off"] /\ tokens = 0
  /\ respChan = [n \in Nodes |-> Absent]
  /\ tree = [n \in Nodes |-> Absent]
  /\ cpc = [c \in Clients |-> "idle"]
  /\ actual = [n \in Nodes |-> 0]
  /\ base = [c \in Clients |-> [n \in Nodes |-> 0]]
  /\ skipped = [c \in Clients |-> FALSE]
  /\ timedOut = FALSE

-----------------------------------------------------------------------------
(* runPull *)

\* Mutant of Limit: the division is rounded up and one is added.
LimitAndOne(k) == (k * PullTimeout) \div PullInterval + 2

\* How many nodes are asked at a time.
Limit(k) == (k * PullTimeout) \div PullInterval + 1

\* A pull is over: the client that asked for it is told, or the puller waits.
Finish == ppc' = IF asked THEN "done" ELSE "select"

\* Each of the two lookups may fail. Without any node the pull is over, and the
\* tree stays as it was; else there is a goroutine for every node.
Lookup(nodes) ==
  /\ ppc = "lookup"
  /\ found' = nodes
  /\ IF nodes = {}
       THEN Finish /\ UNCHANGED <<hpc, tokens>>
       ELSE /\ ppc' = "wait"
            /\ tokens' = Limit(Cardinality(nodes))
            /\ hpc' = [n \in Nodes |-> IF n \in nodes THEN "token" ELSE "off"]
  /\ skipped' = [c \in Clients |-> skipped[c] \/ (cpc[c] = "wait" /\ nodes = {})]
  /\ UNCHANGED <<asked, respChan, tree, cpc, base, actual, timedOut>>

\* Mutant of HasToken: nobody waits for a token.
NeedsNoToken == TRUE

\* The channel rateLimiter is not empty.
HasToken == tokens > 0

\* pullHostStatus takes a token before it asks its node.
TakeToken(n) ==
  /\ hpc[n] = "token"
  /\ HasToken
  /\ tokens' = tokens - 1
  /\ hpc' = [hpc EXCEPT ![n] = "get"]
  /\ UNCHANGED <<puller, respChan, tree, clients, actual, timedOut>>

\* The node answers with its health, or is marked unknown: it has no known role,
\* does not answer in time, or its answer cannot be read.
Get(n, ok) ==
  /\ hpc[n] = "get"
  /\ respChan' = [respChan EXCEPT ![n] = IF ok THEN actual[n] ELSE Unknown]
  /\ hpc' = [hpc EXCEPT ![n] = "sent"]
  /\ UNCHANGED <<puller, tokens, tree, clients, actual, timedOut>>

\* Mutant of ReturnToken: the token is kept.
KeepToken(n) ==
  /\ hpc[n] = "sent"
  /\ hpc' = [hpc EXCEPT ![n] = "off"]
  /\ UNCHANGED <<puller, tokens, respChan, tree, clients, actual, timedOut>>

\* The deferred calls: the token is returned, wg.Done().
ReturnToken(n) ==
  /\ hpc[n] = "sent"
  /\ tokens' = tokens + 1
  /\ hpc' = [hpc EXCEPT ![n] = "off"]
  /\ UNCHANGED <<puller, respChan, tree, clients, actual, timedOut>>

\* wg.Wait()
AllDone == \A n \in found : hpc[n] = "off"

\* updateHealthStatus drains respChan into a new tree that replaces the old one;
\* the variables of the pull go out of scope.
UpdateTree ==
  /\ ppc = "wait"
  /\ AllDone
  /\ tree' = respChan
  /\ respChan' = [n \in Nodes |-> Absent]
  /\ found' = {} /\ tokens' = 0
  /\ Finish
  /\ UNCHANGED <<asked, hpc, clients, actual, timedOut>>

-----------------------------------------------------------------------------
(* StartPullWithInterval *)

\* The interval has passed.
Tick ==
  /\ ppc = "select"
  /\ ppc' = "lookup"
  /\ asked' = FALSE
  /\ UNCHANGED <<found, hosts, tree, clients, actual, timedOut>>

\* Mutant of AfterRequest: the client is told before the data is pulled.
TellAtOnce == "done"

\* What the puller does once it has received a request: it pulls.
AfterRequest == "lookup"

\* The puller receives the request of c.
ReceiveRequest(c) ==
  /\ ppc = "select" /\ cpc[c] = "ask"
  /\ ppc' = AfterRequest
  /\ asked' = TRUE
  /\ cpc' = [cpc EXCEPT ![c] = "wait"]
  /\ UNCHANGED <<found, hosts, tree, base, skipped, actual, timedOut>>

\* The puller sends on runPullerDoneChan, c receives; goto inner.
TellDone(c) ==
  /\ ppc = "done" /\ cpc[c] = "wait"
  /\ ppc' = "select"
  /\ asked' = FALSE
  /\ cpc' = [cpc EXCEPT ![c] = "serve"]
  /\ UNCHANGED <<found, hosts, tree, base, skipped, actual, timedOut>>

-----------------------------------------------------------------------------
(* noCacheMiddleware *)

\* A request arrives; it waits for the puller without a timeout.
Ask(c) ==
  /\ cpc[c] = "idle"
  /\ cpc' = [cpc EXCEPT ![c] = "ask"]
  /\ base' = [base EXCEPT ![c] = actual]
  /\ UNCHANGED <<puller, hosts, tree, skipped, actual, timedOut>>

\* The request is over.
Leave(c) ==
  /\ cpc' = [cpc EXCEPT ![c] = "idle"]
  /\ base' = [base EXCEPT ![c] = [n \in Nodes |-> 0]]
  /\ skipped' = [skipped EXCEPT ![c] = FALSE]

\* A minute passes: the handler panics, which ends this request only.
TimeOut(c) ==
  /\ cpc[c] = "wait"
  /\ Leave(c)
  /\ timedOut' = TRUE
  /\ UNCHANGED <<puller, hosts, tree, actual>>

\* The next handler answers with the tree.
Serve(c) ==
  /\ cpc[c] = "serve"
  /\ Leave(c)
  /\ UNCHANGED <<puller, hosts, tree, actual, timedOut>>

\* The health of a node changes.
Change(n) ==
  /\ actual[n] < MaxVersion
  /\ actual' = [actual EXCEPT ![n] = @ + 1]
  /\ UNCHANGED <<puller, hosts, tree, clients, timedOut>>

-----------------------------------------------------------------------------
PullStep ==
  \/ \E m \in {{}, Masters}, a \in {{}, Agents} : Lookup(m \cup a)
  \/ UpdateTree \/ Tick

HostStep(n) == TakeToken(n) \/ ReturnToken(n) \/ \E ok \in BOOLEAN : Get(n, ok)

Next ==
  \/ PullStep
  \/ \E n \in Nodes : HostStep(n) \/ Change(n)
  \/ \E c \in Clients :
       Ask(c) \/ ReceiveRequest(c) \/ TellDone(c) \/ TimeOut(c) \/ Serve(c)

Spec == Init /\ [][Next]_vars

\* Goroutines are scheduled and calls to nodes have a timeout. A request waiting
\* at the channel is received in the end: the senders form a queue, and select
\* chooses at random between the request and the timer. Nobody has to ask, to
\* give up or to change.
Fairness ==
  /\ WF_vars(PullStep)
  /\ \A n \in Nodes : WF_vars(HostStep(n))
  /\ \A c \in Clients : /\ SF_vars(ReceiveRequest(c)) /\ WF_vars(TellDone(c))
                        /\ WF_vars(Serve(c))

FairSpec == Spec /\ Fairness

-----------------------------------------------------------------------------
(* Properties. *)

\* Types: the tree holds known versions, and the limiter never has a negative number of tokens.
TypeOK ==
  /\ ppc \in {"lookup", "wait", "done", "select"}
  /\ asked \in BOOLEAN
  /\ found \subseteq Nodes
  /\ hpc \in [Nodes -> {"off", "token", "get", "sent"}]
  /\ tokens \in Nat
  /\ respChan \in [Nodes -> Entry]
  /\ tree \in [Nodes -> Entry]
  /\ cpc \in [Clients -> {"idle", "ask", "wait", "serve"}]
  /\ actual \in [Nodes -> 0..MaxVersion]
  /\ base \in [Clients -> [Nodes -> 0..MaxVersion]]
  /\ skipped \in [Clients -> BOOLEAN]
  /\ timedOut \in BOOLEAN

\* A client that asked for fresh data is served no entry older than its request,
\* whatever other clients ask for meanwhile, unless its pull found no nodes.
FreshIsFresh ==
  \A c \in Clients : cpc[c] = "serve" /\ ~skipped[c] =>
    \A n \in Nodes : tree[n] \in {Unknown, Absent} \/ tree[n] >= base[c][n]

\* At most nodes * timeout / interval + 1 nodes are asked at a time, in whichever order
\* the goroutines take and return their tokens.
RateIsLimited ==
  LET busy == {n \in Nodes : hpc[n] \in {"get", "sent"}}
  IN  (Cardinality(busy) - 1) * PullInterval <= Cardinality(found) * PullTimeout

\* While no client has given up, everyone who asks is answered.
AskedIsAnswered ==
  \A c \in Clients : cpc[c] = "ask" ~> cpc[c] = "serve" \/ timedOut

\* The puller is an infinite loop: it pulls again and again.
KeepsPulling == []<>(ppc = "lookup")

=============================================================================
