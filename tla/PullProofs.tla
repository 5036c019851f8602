----------------------------- MODULE PullProofs -----------------------------
(* Proofs about Pull, for every set of nodes and clients and every setting of  *)
(* the timeout and the interval.                                               *)
EXTENDS Pull, FiniteSetTheorems, TLAPS

-----------------------------------------------------------------------------
(* The inductive invariant. *)

\* The nodes that have a token.
Busy == {n \in Nodes : hpc[n] \in {"get", "sent"}}

\* Outside of a pull there is no goroutine, no answer and no token; within one
\* only the nodes that were found have a goroutine, and only those that were
\* asked have answered.
Scoped ==
  /\ ppc # "wait" => found = {}
  /\ \A n \in Nodes : n \notin found => hpc[n] = "off" /\ respChan[n] = Absent
  /\ \A n \in Nodes : hpc[n] \in {"token", "get"} => respChan[n] = Absent

\* A token is in the channel or with a node.
Counted ==
  IF ppc = "wait"
    THEN tokens + Cardinality(Busy) = Limit(Cardinality(found))
    ELSE tokens = 0

\* At most one client waits, for a pull that was asked for and is not told yet.
Alone ==
  /\ \A c \in Clients : cpc[c] = "wait" => asked /\ ppc # "select"
  /\ \A c, d \in Clients : cpc[c] = "wait" /\ cpc[d] = "wait" => c = d

\* m has no entry that is older than the request of c.
NotOlder(m, c) == \A n \in Nodes : m[n] \in {Unknown, Absent} \/ m[n] >= base[c][n]

\* A client has seen no later health than there is; what was collected since the
\* puller received its request is not older than it; and when its pull is over,
\* so is the tree.
Fresh ==
  /\ \A c \in Clients, n \in Nodes : base[c][n] <= actual[n]
  /\ \A c \in Clients : cpc[c] \in {"wait", "serve"} => NotOlder(respChan, c)
  /\ \A c \in Clients :
       (cpc[c] = "wait" /\ ppc = "done") \/ cpc[c] = "serve" =>
         skipped[c] \/ NotOlder(tree, c)

IInv == TypeOK /\ Scoped /\ Counted /\ Alone /\ Fresh

-----------------------------------------------------------------------------
(* The number of tokens. *)

\* The number of nodes asked at a time is a number.
LEMMA LimitIsNat == ASSUME NEW k \in Nat PROVE Limit(k) \in Nat
<1>1. k * PullTimeout \in Nat
  BY ConfigAssumption
<1>2. (k * PullTimeout) \div PullInterval \in Nat
  BY <1>1, ConfigAssumption
<1>3. QED
  BY <1>2 DEF Limit

\* Of b nodes at a time, b - 1 of them asked in a row fit into one interval.
LEMMA LimitIsSlow ==
  ASSUME NEW k \in Nat, NEW b \in Nat, b <= Limit(k)
  PROVE  (b - 1) * PullInterval <= k * PullTimeout
<1> DEFINE x == k * PullTimeout
           q == x \div PullInterval
<1>1. x \in Nat
  BY ConfigAssumption
<1>2. q \in Nat /\ q * PullInterval <= x
  <2> HIDE DEF x
  <2> QED
    BY <1>1, ConfigAssumption
<1>3. b - 1 <= q
  <2>1. b <= q + 1
    BY Zenon DEF Limit
  <2> HIDE DEF q
  <2> QED
    BY <1>2, <2>1
<1>4. (b - 1) * PullInterval <= q * PullInterval
  <2> HIDE DEF q
  <2> QED
    BY <1>2, <1>3, ConfigAssumption
<1>5. QED
  BY <1>1, <1>2, <1>4, ConfigAssumption

\* The nodes of a pull, and those with a token, can be counted.
LEMMA Countable ==
  ASSUME TypeOK
  PROVE  /\ IsFiniteSet(Busy) /\ Cardinality(Busy) \in Nat
         /\ IsFiniteSet(found) /\ Cardinality(found) \in Nat
<1>1. Busy \in SUBSET Nodes /\ found \in SUBSET Nodes
  BY DEF Busy, TypeOK
<1>2. QED
  BY <1>1, NodesAssumption, FS_Subset, FS_CardinalityType

-----------------------------------------------------------------------------
(* The steps. *)

\* Types.
LEMMA TypeStep == TypeOK /\ [Next]_vars => TypeOK'
<1> SUFFICES ASSUME TypeOK, [Next]_vars PROVE TypeOK'
  OBVIOUS
<1> USE MaxVersionAssumption DEF TypeOK, puller, hosts, clients, Entry, Absent, Unknown
<1>1. ASSUME NEW m \in {{}, Masters}, NEW a \in {{}, Agents}, Lookup(m \cup a) PROVE TypeOK'
  <2>1. m \cup a \in SUBSET Nodes
    BY DEF Nodes
  <2>2. Limit(Cardinality(m \cup a)) \in Nat
    BY <2>1, NodesAssumption, FS_Subset, FS_CardinalityType, LimitIsNat
  <2>3. /\ ppc' \in {"lookup", "wait", "done", "select"}
        /\ hpc' \in [Nodes -> {"off", "token", "get", "sent"}]
        /\ tokens' \in Nat /\ found' \subseteq Nodes
    BY <1>1, <2>1, <2>2 DEF Lookup, Finish
  <2>4. skipped' \in [Clients -> BOOLEAN]
    BY <1>1, Zenon DEF Lookup
  <2>5. QED
    BY <1>1, <2>3, <2>4 DEF Lookup
<1>2. ASSUME UpdateTree PROVE TypeOK'
  BY <1>2 DEF UpdateTree, Finish
<1>3. ASSUME Tick PROVE TypeOK'
  BY <1>3 DEF Tick
<1>4. ASSUME NEW n \in Nodes, TakeToken(n) PROVE TypeOK'
  BY <1>4 DEF TakeToken, HasToken
<1>5. ASSUME NEW n \in Nodes, ReturnToken(n) PROVE TypeOK'
  BY <1>5 DEF ReturnToken
<1>6. ASSUME NEW n \in Nodes, NEW ok \in BOOLEAN, Get(n, ok) PROVE TypeOK'
  BY <1>6 DEF Get
<1>7. ASSUME NEW n \in Nodes, Change(n) PROVE TypeOK'
  BY <1>7 DEF Change
<1>8. ASSUME NEW c \in Clients, Ask(c) PROVE TypeOK'
  BY <1>8 DEF Ask
<1>9. ASSUME NEW c \in Clients, ReceiveRequest(c) PROVE TypeOK'
  BY <1>9 DEF ReceiveRequest, AfterRequest
<1>10. ASSUME NEW c \in Clients, TellDone(c) PROVE TypeOK'
  BY <1>10 DEF TellDone
<1>11. ASSUME NEW c \in Clients, TimeOut(c) PROVE TypeOK'
  BY <1>11 DEF TimeOut, Leave
<1>12. ASSUME NEW c \in Clients, Serve(c) PROVE TypeOK'
  BY <1>12 DEF Serve, Leave
<1>13. ASSUME UNCHANGED vars PROVE TypeOK'
  BY <1>13 DEF vars
<1>14. QED
  BY <1>1, <1>2, <1>3, <1>4, <1>5, <1>6, <1>7, <1>8, <1>9, <1>10, <1>11, <1>12, <1>13
     DEF Next, PullStep, HostStep

\* The variables of a pull.
LEMMA ScopedStep == TypeOK /\ Scoped /\ [Next]_vars => Scoped'
<1> SUFFICES ASSUME TypeOK, Scoped, [Next]_vars PROVE Scoped'
  OBVIOUS
<1> USE DEF TypeOK, Scoped, puller, hosts, clients, Absent
<1>1. ASSUME NEW m \in {{}, Masters}, NEW a \in {{}, Agents}, Lookup(m \cup a) PROVE Scoped'
  BY <1>1 DEF Lookup, Finish
<1>2. ASSUME UpdateTree PROVE Scoped'
  BY <1>2 DEF UpdateTree, Finish, AllDone
<1>3. ASSUME Tick PROVE Scoped'
  BY <1>3 DEF Tick
<1>4. ASSUME NEW n \in Nodes, TakeToken(n) PROVE Scoped'
  BY <1>4 DEF TakeToken
<1>5. ASSUME NEW n \in Nodes, ReturnToken(n) PROVE Scoped'
  BY <1>5 DEF ReturnToken
<1>6. ASSUME NEW n \in Nodes, NEW ok \in BOOLEAN, Get(n, ok) PROVE Scoped'
  BY <1>6 DEF Get
<1>7. ASSUME NEW n \in Nodes, Change(n) PROVE Scoped'
  BY <1>7 DEF Change
<1>8. ASSUME NEW c \in Clients, Ask(c) PROVE Scoped'
  BY <1>8 DEF Ask
<1>9. ASSUME NEW c \in Clients, ReceiveRequest(c) PROVE Scoped'
  BY <1>9 DEF ReceiveRequest, AfterRequest
<1>10. ASSUME NEW c \in Clients, TellDone(c) PROVE Scoped'
  BY <1>10 DEF TellDone
<1>11. ASSUME NEW c \in Clients, TimeOut(c) PROVE Scoped'
  BY <1>11 DEF TimeOut
<1>12. ASSUME NEW c \in Clients, Serve(c) PROVE Scoped'
  BY <1>12 DEF Serve
<1>13. ASSUME UNCHANGED vars PROVE Scoped'
  BY <1>13 DEF vars
<1>14. QED
  BY <1>1, <1>2, <1>3, <1>4, <1>5, <1>6, <1>7, <1>8, <1>9, <1>10, <1>11, <1>12, <1>13
     DEF Next, PullStep, HostStep

\* No token is lost or made: TakeToken and ReturnToken move one, the start of a
\* pull fills the channel while no node has one.
LEMMA CountedStep == TypeOK /\ Scoped /\ Counted /\ [Next]_vars => Counted'
<1> SUFFICES ASSUME TypeOK, Scoped, Counted, [Next]_vars PROVE Counted'
  OBVIOUS
<1>0. /\ IsFiniteSet(Busy) /\ Cardinality(Busy) \in Nat
      /\ IsFiniteSet(found) /\ Cardinality(found) \in Nat
  BY Countable
<1>a. ASSUME UNCHANGED <<ppc, found, tokens, hpc>> PROVE Counted'
  <2>1. Busy' = Busy
    BY <1>a DEF Busy
  <2>2. QED
    BY <1>a, <2>1 DEF Counted
<1>1. ASSUME NEW m \in {{}, Masters}, NEW a \in {{}, Agents}, Lookup(m \cup a) PROVE Counted'
  <2>1. CASE m \cup a = {}
    BY <1>1, <2>1 DEF Lookup, Finish, Counted, TypeOK
  <2>2. CASE m \cup a # {}
    <3>1. Busy' = {}
      BY <1>1, <2>2 DEF Lookup, Busy, TypeOK
    <3>2. m \cup a \in SUBSET Nodes
      BY DEF Nodes
    <3>3. Limit(Cardinality(m \cup a)) \in Nat
      BY <3>2, NodesAssumption, FS_Subset, FS_CardinalityType, LimitIsNat
    <3>4. ppc' = "wait" /\ tokens' = Limit(Cardinality(m \cup a)) /\ found' = m \cup a
      BY <1>1, <2>2 DEF Lookup
    <3>5. Cardinality(Busy') = 0
      BY <3>1, FS_EmptySet
    <3>6. QED
      BY <3>3, <3>4, <3>5 DEF Counted
  <2>3. QED
    BY <2>1, <2>2
<1>2. ASSUME UpdateTree PROVE Counted'
  BY <1>2 DEF UpdateTree, Finish, Counted
<1>4. ASSUME NEW n \in Nodes, TakeToken(n) PROVE Counted'
  <2>1. Busy' = Busy \cup {n} /\ n \notin Busy
    BY <1>4 DEF TakeToken, Busy, TypeOK
  <2>2. Cardinality(Busy') = Cardinality(Busy) + 1
    BY <1>0, <2>1, FS_AddElement
  <2>3. ppc = "wait" /\ ppc' = ppc /\ found' = found /\ tokens' = tokens - 1
    BY <1>4 DEF TakeToken, Scoped, puller
  <2>4. QED
    BY <1>0, <2>2, <2>3 DEF Counted, TypeOK
<1>5. ASSUME NEW n \in Nodes, ReturnToken(n) PROVE Counted'
  <2>1. Busy' = Busy \ {n} /\ n \in Busy
    BY <1>5 DEF ReturnToken, Busy, TypeOK
  <2>2. Cardinality(Busy') = Cardinality(Busy) - 1
    BY <1>0, <2>1, FS_RemoveElement
  <2>3. ppc = "wait" /\ ppc' = ppc /\ found' = found /\ tokens' = tokens + 1
    BY <1>5 DEF ReturnToken, Scoped, puller
  <2>4. QED
    BY <1>0, <2>2, <2>3 DEF Counted, TypeOK
<1>6. ASSUME NEW n \in Nodes, NEW ok \in BOOLEAN, Get(n, ok) PROVE Counted'
  <2>1. Busy' = Busy
    BY <1>6 DEF Get, Busy, TypeOK
  <2>2. QED
    BY <1>6, <2>1 DEF Get, Counted, puller
<1>7. ASSUME NEW n \in Nodes, Change(n) PROVE Counted'
  BY <1>7, <1>a DEF Change, puller, hosts
<1>8. ASSUME NEW c \in Clients, Ask(c) \/ TimeOut(c) \/ Serve(c) PROVE Counted'
  BY <1>8, <1>a DEF Ask, TimeOut, Serve, puller, hosts
<1>9. ASSUME Tick \/ \E c \in Clients : ReceiveRequest(c) \/ TellDone(c) PROVE Counted'
  BY <1>9 DEF Tick, ReceiveRequest, AfterRequest, TellDone, hosts, Counted
<1>13. ASSUME UNCHANGED vars PROVE Counted'
  BY <1>13, <1>a DEF vars, puller, hosts
<1>14. QED
  BY <1>1, <1>2, <1>4, <1>5, <1>6, <1>7, <1>8, <1>9, <1>13 DEF Next, PullStep, HostStep

\* The client that waits.
LEMMA AloneStep == TypeOK /\ Alone /\ [Next]_vars => Alone'
<1> SUFFICES ASSUME TypeOK, Alone, [Next]_vars PROVE Alone'
  OBVIOUS
<1> USE DEF TypeOK, Alone, puller, hosts, clients
<1>1. ASSUME NEW m \in {{}, Masters}, NEW a \in {{}, Agents}, Lookup(m \cup a) PROVE Alone'
  BY <1>1 DEF Lookup, Finish
<1>2. ASSUME UpdateTree PROVE Alone'
  BY <1>2 DEF UpdateTree, Finish
<1>3. ASSUME Tick PROVE Alone'
  BY <1>3 DEF Tick
<1>4. ASSUME NEW n \in Nodes, HostStep(n) PROVE Alone'
  BY <1>4 DEF HostStep, TakeToken, Get, ReturnToken
<1>7. ASSUME NEW n \in Nodes, Change(n) PROVE Alone'
  BY <1>7 DEF Change
<1>8. ASSUME NEW c \in Clients, Ask(c) PROVE Alone'
  BY <1>8 DEF Ask
<1>9. ASSUME NEW c \in Clients, ReceiveRequest(c) PROVE Alone'
  BY <1>9 DEF ReceiveRequest, AfterRequest
<1>10. ASSUME NEW c \in Clients, TellDone(c) PROVE Alone'
  BY <1>10 DEF TellDone
<1>11. ASSUME NEW c \in Clients, TimeOut(c) PROVE Alone'
  BY <1>11 DEF TimeOut, Leave
<1>12. ASSUME NEW c \in Clients, Serve(c) PROVE Alone'
  BY <1>12 DEF Serve, Leave
<1>13. ASSUME UNCHANGED vars PROVE Alone'
  BY <1>13 DEF vars
<1>14. QED
  BY <1>1, <1>2, <1>3, <1>4, <1>7, <1>8, <1>9, <1>10, <1>11, <1>12, <1>13 DEF Next, PullStep

\* What a client that is told of the end of its pull finds in the tree.
LEMMA FreshStep == TypeOK /\ Scoped /\ Alone /\ Fresh /\ [Next]_vars => Fresh'
<1> SUFFICES ASSUME TypeOK, Scoped, Alone, Fresh, [Next]_vars PROVE Fresh'
  OBVIOUS
<1> USE DEF TypeOK, Fresh, NotOlder, puller, hosts, clients, Absent, Unknown
<1>1. ASSUME NEW m \in {{}, Masters}, NEW a \in {{}, Agents}, Lookup(m \cup a) PROVE Fresh'
  <2>1. \A c \in Clients : skipped'[c] <=> (skipped[c] \/ (cpc[c] = "wait" /\ m \cup a = {}))
    BY <1>1, Zenon DEF Lookup
  <2>2. UNCHANGED <<respChan, tree, cpc, base, actual>>
    BY <1>1 DEF Lookup
  <2>3. ppc' = "done" => m \cup a = {}
    BY <1>1 DEF Lookup
  <2>4. QED
    BY <2>1, <2>2, <2>3
<1>2. ASSUME UpdateTree PROVE Fresh'
  BY <1>2 DEF UpdateTree, Finish
<1>3. ASSUME Tick PROVE Fresh'
  BY <1>3 DEF Tick
<1>4. ASSUME NEW n \in Nodes, TakeToken(n) PROVE Fresh'
  BY <1>4 DEF TakeToken
<1>5. ASSUME NEW n \in Nodes, ReturnToken(n) PROVE Fresh'
  BY <1>5 DEF ReturnToken
<1>6. ASSUME NEW n \in Nodes, NEW ok \in BOOLEAN, Get(n, ok) PROVE Fresh'
  BY <1>6 DEF Get
<1>7. ASSUME NEW n \in Nodes, Change(n) PROVE Fresh'
  BY <1>7 DEF Change
<1>8. ASSUME NEW c \in Clients, Ask(c) PROVE Fresh'
  BY <1>8 DEF Ask
<1>9. ASSUME NEW c \in Clients, ReceiveRequest(c) PROVE Fresh'
  BY <1>9 DEF ReceiveRequest, AfterRequest, Scoped, Alone
<1>10. ASSUME NEW c \in Clients, TellDone(c) PROVE Fresh'
  BY <1>10 DEF TellDone
<1>11. ASSUME NEW c \in Clients, TimeOut(c) PROVE Fresh'
  BY <1>11 DEF TimeOut, Leave
<1>12. ASSUME NEW c \in Clients, Serve(c) PROVE Fresh'
  BY <1>12 DEF Serve, Leave
<1>13. ASSUME UNCHANGED vars PROVE Fresh'
  BY <1>13 DEF vars
<1>14. QED
  BY <1>1, <1>2, <1>3, <1>4, <1>5, <1>6, <1>7, <1>8, <1>9, <1>10, <1>11, <1>12, <1>13
     DEF Next, PullStep, HostStep

-----------------------------------------------------------------------------
(* The theorems. *)

\* The invariant holds at first.
LEMMA IInvInit == Init => IInv
<1> SUFFICES ASSUME Init PROVE IInv
  OBVIOUS
<1> USE MaxVersionAssumption DEF Init
<1>1. TypeOK
  <2>1. Absent \in Entry /\ 0 \in 0..MaxVersion
    BY DEF Entry, Absent
  <2>2. skipped \in [Clients -> BOOLEAN]
    BY Zenon
  <2>3. base \in [Clients -> [Nodes -> 0..MaxVersion]]
    BY <2>1
  <2>4. QED
    BY <2>1, <2>2, <2>3 DEF TypeOK
<1>2. Scoped /\ Counted
  BY DEF Scoped, Counted, Absent
<1>3. Alone /\ Fresh
  BY DEF Alone, Fresh, NotOlder, Absent
<1>4. QED
  BY <1>1, <1>2, <1>3 DEF IInv

\* The invariant is one of the puller and its clients.
THEOREM Inductive == Spec => []IInv
<1>1. IInv /\ [Next]_vars => IInv'
  BY TypeStep, ScopedStep, CountedStep, AloneStep, FreshStep DEF IInv
<1>2. QED
  BY <1>1, IInvInit, PTL DEF Spec

\* The variables of the puller, its goroutines and its clients keep their types:
\* the rate limiter never hands out a token it does not have.
THEOREM TypeCorrect == Spec => []TypeOK
<1>1. IInv => TypeOK
  BY DEF IInv
<1>2. QED
  BY <1>1, Inductive, PTL

\* noCacheMiddleware: a request that asked for fresh data is served no entry older
\* than itself, unless its pull found no nodes.
THEOREM FreshData == Spec => []FreshIsFresh
<1>1. IInv => FreshIsFresh
  BY DEF IInv, TypeOK, Fresh, NotOlder, FreshIsFresh
<1>2. QED
  BY <1>1, Inductive, PTL

\* runPull: for every number of nodes, timeout and interval, at most
\* nodes * timeout / interval + 1 nodes are asked at a time.
THEOREM Limited == Spec => []RateIsLimited
<1>1. IInv => RateIsLimited
  <2> SUFFICES ASSUME IInv PROVE RateIsLimited
    OBVIOUS
  <2> USE DEF IInv
  <2>1. /\ IsFiniteSet(Busy) /\ Cardinality(Busy) \in Nat
        /\ IsFiniteSet(found) /\ Cardinality(found) \in Nat
    BY Countable
  <2>2. Cardinality(Busy) <= Limit(Cardinality(found))
    <3>1. Limit(Cardinality(found)) \in Nat
      BY <2>1, LimitIsNat
    <3>2. CASE ppc = "wait"
      BY <2>1, <3>1, <3>2 DEF Counted, TypeOK
    <3>3. CASE ppc # "wait"
      <4>1. Busy = {}
        BY <3>3 DEF Scoped, Busy
      <4>2. QED
        BY <3>1, <4>1, FS_EmptySet
    <3>4. QED
      BY <3>2, <3>3
  <2>3. (Cardinality(Busy) - 1) * PullInterval <= Cardinality(found) * PullTimeout
    BY <2>1, <2>2, LimitIsSlow
  <2>4. QED
    BY <2>3 DEF RateIsLimited, Busy
<1>2. QED
  BY <1>1, Inductive, PTL

=============================================================================
