-------------------------- MODULE BaseNetworkProofs --------------------------
(***************************************************************************)
(* Theorems about the pool of nodes, for any set of nodes, any networks    *)
(* setNetwork may be given, any number of callers and any settings.        *)
(***************************************************************************)
EXTENDS BaseNetwork, BaseNodeProofs, FiniteSetTheorems, WellFoundedInduction

(* A nonempty set of natural numbers has a least member.                                           *)
LEMMA LeastExists ==
    ASSUME NEW S \in SUBSET Nat, S # {}
    PROVE  \E e \in S : \A d \in S : e <= d
<1> DEFINE R == OpToRel(<, Nat)
<1>1. IsWellFoundedOn(R, Nat)
  BY NatLessThanWellFounded
<1>2. \A x, y \in Nat : y < x => <<y, x>> \in R
  BY DEF OpToRel
<1> HIDE DEF R
<1>3. PICK e \in S : \A d \in S : ~ (<<d, e>> \in R)
  BY <1>1, WFMin
<1>4. ASSUME NEW d \in S PROVE e <= d
  <2>1. ~ (d < e)
    BY <1>2, <1>3, S \subseteq Nat
  <2>. QED
    BY <2>1, S \subseteq Nat
<1>. QED
  BY <1>4

(* The time the readmission settles on: within the longest readmit time, and no later than the end *)
(* of any backoff that is still running.                                                            *)
LEMMA EarliestOfBounds ==
    ASSUME NEW S \in SUBSET Nodes, NEW delay \in [Nodes -> -1..MaxNodeBackoff]
    PROVE  /\ EarliestOf(S, delay) \in 0..MaxNodeReadmitTime
           /\ \A n \in S : delay[n] > 0 => EarliestOf(S, delay) <= delay[n]
<1> DEFINE times == ReadmitTimes(S, delay)
           e == EarliestOf(S, delay)
<1>1. times \in SUBSET Nat /\ MaxNodeReadmitTime \in times
  BY NetworkAssumption, BackoffAssumption DEF ReadmitTimes
<1>2. \E x \in times : \A d \in times : x <= d
  <2> HIDE DEF times
  <2>. QED
    BY <1>1, LeastExists
<1>3. e \in times /\ \A d \in times : e <= d
  BY <1>2 DEF EarliestOf
<1>4. \A n \in S : delay[n] > 0 => delay[n] \in times
  BY DEF ReadmitTimes
<1> HIDE DEF times, e
<1>5. e \in 0..MaxNodeReadmitTime
  BY <1>1, <1>3, NetworkAssumption
<1>6. \A n \in S : delay[n] > 0 => e <= delay[n]
  BY <1>3, <1>4
<1>. QED
  BY <1>5, <1>6 DEF e

(* Cardinalities of sets of nodes, and the number of nodes a request asks for.                     *)
LEMMA WantedBounds ==
    ASSUME NEW S \in SUBSET Nodes
    PROVE  /\ Smaller(MaxNodesPerRequest, Cardinality(S)) \in 0..Cardinality(Nodes)
           /\ CeilThird(Cardinality(S)) \in 0..Cardinality(Nodes)
<1>1. /\ Cardinality(S) \in Nat
      /\ Cardinality(Nodes) \in Nat
      /\ Cardinality(S) <= Cardinality(Nodes)
  BY NetworkAssumption, FS_Subset, FS_CardinalityType
<1> DEFINE k == Cardinality(S)
           m == Cardinality(Nodes)
<1> HIDE DEF k, m
<1>2. k \in Nat /\ m \in Nat /\ k <= m
  BY <1>1 DEF k, m
<1>3. Smaller(MaxNodesPerRequest, k) \in 0..m
  BY <1>2, NetworkAssumption DEF Smaller
<1>4. CeilThird(k) \in 0..m
  BY <1>2 DEF CeilThird
<1>. QED
  BY <1>3, <1>4 DEF k, m

(* A readmission keeps the types.                                                                  *)
LEMMA ReadmitNodesType ==
    ASSUME TypeOK, ReadmitNodes
    PROVE  /\ healthyNodes' \subseteq Nodes
           /\ earliestReadmitIn' \in -1..MaxNodeReadmitTime
<1>1. readmitIn \in [Nodes -> -1..MaxNodeBackoff] /\ nodes \in SUBSET Nodes
  BY DEF TypeOK, NodeTypeOK
<1>2. EarliestOf(nodes, readmitIn) \in -1..MaxNodeReadmitTime
  BY <1>1, EarliestOfBounds, NetworkAssumption
<1>. QED
  BY <1>2 DEF ReadmitNodes, TypeOK, Readmitted

(* Setting the network, for one choice of the new network, the channels closed and the clock.      *)
LEMMA SetNetworkType ==
    ASSUME TypeOK, NEW t \in Callers, SetNetwork(t)
    PROVE  TypeOK'
<1>1. PICK S \in NodeSets, closed \in SUBSET nodes :
        LET new == S \ nodes
            delay == Fresh(readmitIn, new, 0)
        IN /\ nodes' = S
           /\ network' = ByKey(S)
           /\ \E later \in BOOLEAN : Restart(S, delay, later)
           /\ readmitIn' = delay
           /\ currentBackoff' = Fresh(currentBackoff, new, MinNodeBackoff)
           /\ badGrpcStatusCount' = Fresh(badGrpcStatusCount, new, 0)
           /\ isConnected' = Fresh(isConnected, new, FALSE)
           /\ channelOpen' = [n \in Nodes |-> channelOpen[n] /\ n \notin closed \cup new]
           /\ secure' = (secure \ new) \cup (new \cap SecureAddress)
  BY DEF SetNetwork
<1>2. /\ Release(t)
      /\ UNCHANGED <<nodeLock, transportSecurity, maxNodeAttempts, wanted, picked, dozeLeft>>
  BY DEF SetNetwork
<1> DEFINE new == S \ nodes
           delay == Fresh(readmitIn, new, 0)
<1>3. S \in SUBSET Nodes
  BY NetworkAssumption
<1>4. delay \in [Nodes -> -1..MaxNodeBackoff]
  BY BackoffAssumption DEF Fresh, TypeOK, NodeTypeOK
<1>5. NodeTypeOK'
  <2>1. readmitIn' \in [Nodes -> -1..MaxNodeBackoff]
    BY <1>1, <1>4
  <2>2. currentBackoff' \in [Nodes -> MinNodeBackoff..MaxNodeBackoff]
    BY <1>1, BackoffAssumption DEF Fresh, TypeOK, NodeTypeOK
  <2>3. badGrpcStatusCount' \in [Nodes -> 0..BadStatusCap]
    BY <1>1, CapAssumption DEF Fresh, TypeOK, NodeTypeOK
  <2>4. isConnected' \in [Nodes -> BOOLEAN]
    BY <1>1 DEF Fresh, TypeOK, NodeTypeOK
  <2>5. channelOpen' \in [Nodes -> BOOLEAN]
    BY <1>1 DEF TypeOK, NodeTypeOK
  <2>6. nodeLock' \in [Nodes -> Threads \cup {NoThread}]
    BY <1>2 DEF TypeOK, NodeTypeOK
  <2>. QED
    BY <2>1, <2>2, <2>3, <2>4, <2>5, <2>6 DEF NodeTypeOK
<1>6. nodes' \subseteq Nodes /\ network' \in [Keys -> SUBSET Nodes] /\ secure' \subseteq Nodes
  BY <1>1, <1>3 DEF ByKey, TypeOK
<1>7. healthyNodes' \subseteq Nodes /\ earliestReadmitIn' \in -1..MaxNodeReadmitTime
  <2>1. PICK later \in BOOLEAN : Restart(S, delay, later)
    BY <1>1
  <2> HIDE DEF delay
  <2>2. EarliestOf(S, delay) \in -1..MaxNodeReadmitTime
    BY <1>3, <1>4, EarliestOfBounds, NetworkAssumption
  <2>. QED
    BY <2>1, <2>2, <1>3, NetworkAssumption DEF Restart, Readmitted
<1>8. /\ networkLock' = NoThread
      /\ op' \in [Callers -> {"idle", "proxies", "prune", "pick", "doze", "setNetwork", "crash"}]
  BY <1>2 DEF Release, TypeOK
<1>. QED
  BY <1>2, <1>5, <1>6, <1>7, <1>8 DEF TypeOK

(* A call of the network keeps the types.                                                          *)
LEMMA CallType ==
    ASSUME TypeOK, NEW t \in Callers, CallNetwork(t)
    PROVE  TypeOK'
<1>1. CASE BeginGetNodeProxies(t)
  BY <1>1 DEF BeginGetNodeProxies, Acquire, TypeOK, NodeTypeOK, nodeVars, poolVars, settingVars
<1>2. CASE BeginSelect(t)
  <2>1. nodes \in SUBSET Nodes
    BY DEF TypeOK
  <2>2. wanted' \in [Callers -> 0..Cardinality(Nodes)]
    BY <1>2, <2>1, WantedBounds DEF BeginSelect, TypeOK
  <2>. QED
    BY <1>2, <2>2 DEF BeginSelect, Acquire, TypeOK, NodeTypeOK, nodeVars, poolVars, settingVars
<1>3. CASE BeginSetNetwork(t)
  BY <1>3 DEF BeginSetNetwork, Acquire, TypeOK, NodeTypeOK, nodeVars, poolVars, settingVars
<1>4. CASE Close(t)
  BY <1>4 DEF Close, CloseAll, TypeOK, NodeTypeOK, poolVars, settingVars, callVars
<1>5. CASE SetTransportSecurity(t)
  BY <1>5 DEF SetTransportSecurity, CloseAll, TypeOK, NodeTypeOK, poolVars, callVars
<1>. QED
  BY <1>1, <1>2, <1>3, <1>4, <1>5 DEF CallNetwork

(* A step of a call that has the mutex keeps the types.                                            *)
LEMMA ProceedType ==
    ASSUME TypeOK, NEW t \in Callers, Proceed(t)
    PROVE  TypeOK'
<1>1. CASE GetNodeProxies(t)
  BY <1>1, ReadmitNodesType
  DEF GetNodeProxies, Release, TypeOK, NodeTypeOK, nodeVars, settingVars
<1>2. CASE Prune(t)
  <2>1. channelOpen' \in [Nodes -> BOOLEAN]
    BY <1>2 DEF Prune, CloseAll, TypeOK, NodeTypeOK
  <2>2. /\ nodes' \subseteq Nodes /\ healthyNodes' \subseteq Nodes
        /\ network' \in [Keys -> SUBSET Nodes]
    BY <1>2 DEF Prune, RemoveNodes, TypeOK
  <2>3. op' \in [Callers -> {"idle", "proxies", "prune", "pick", "doze", "setNetwork", "crash"}]
    BY <1>2 DEF Prune, TypeOK
  <2>. QED
    BY <1>2, <2>1, <2>2, <2>3 DEF Prune, TypeOK, NodeTypeOK, settingVars
<1>3. CASE Pick(t)
  BY <1>3, ReadmitNodesType DEF Pick, TypeOK, NodeTypeOK, nodeVars, settingVars
<1>4. CASE Doze(t)
  <2>1. ReadmitNodes
    BY <1>4 DEF Doze
  <2>2. healthyNodes' \subseteq Nodes /\ earliestReadmitIn' \in -1..MaxNodeReadmitTime
    BY <2>1, ReadmitNodesType
  <2>3. Larger(earliestReadmitIn', 0) \in 0..MaxNodeReadmitTime
    BY <2>2, NetworkAssumption DEF Larger
  <2>4. dozeLeft' \in [Callers -> 0..MaxNodeReadmitTime]
    BY <1>4, <2>3 DEF Doze, TypeOK
  <2>. QED
    BY <1>4, <2>2, <2>4 DEF Doze, TypeOK, NodeTypeOK, nodeVars, settingVars
<1>5. CASE WakeUp(t)
  BY <1>5 DEF WakeUp, TypeOK, NodeTypeOK, nodeVars, poolVars, settingVars
<1>6. CASE EndSelect(t)
  <2>1. 0 \in 0..Cardinality(Nodes)
    BY NetworkAssumption, FS_CardinalityType
  <2>. QED
    BY <1>6, <2>1 DEF EndSelect, Release, TypeOK, NodeTypeOK, nodeVars, poolVars, settingVars
<1>7. CASE SetNetwork(t)
  BY <1>7, SetNetworkType
<1>8. CASE SetNetworkCrash(t)
  BY <1>8 DEF SetNetworkCrash, TypeOK, NodeTypeOK, nodeVars, poolVars, settingVars
<1>. QED
  BY <1>1, <1>2, <1>3, <1>4, <1>5, <1>6, <1>7, <1>8 DEF Proceed

(* What requests do to a node, and time passing, keep the types.                                   *)
LEMMA EnvironmentType ==
    ASSUME TypeOK, (\E n \in nodes : UseNode(n)) \/ Tick
    PROVE  TypeOK'
<1> USE DEF TypeOK
<1>1. CASE \E n \in nodes : UseNode(n)
  <2>1. PICK n \in nodes : UseNode(n)
    BY <1>1
  <2>2. n \in Nodes
    OBVIOUS
  <2>3. NodeTypeOK'
    <3>1. CASE ConnectTo(n)
      BY <3>1, <2>2 DEF ConnectTo, NodeTypeOK
    <3>2. CASE IncreaseBackoff(n)
      BY <3>2, <2>2, IncreaseBackoffType
    <3>3. CASE DecreaseBackoff(n)
      BY <3>3, <2>2, DecreaseBackoffType
    <3>. QED
      BY <2>1, <3>1, <3>2, <3>3 DEF UseNode
  <2>. QED
    BY <2>1, <2>3 DEF UseNode, poolVars, settingVars, callVars
<1>2. CASE Tick
  <2>1. NodeTypeOK'
    BY <1>2, NodeTickType DEF Tick
  <2>2. earliestReadmitIn' \in -1..MaxNodeReadmitTime
    BY <1>2, NetworkAssumption DEF Tick, Larger
  <2>3. dozeLeft' \in [Callers -> 0..MaxNodeReadmitTime]
    BY <1>2, NetworkAssumption DEF Tick, Larger
  <2>. QED
    BY <1>2, <2>1, <2>2, <2>3 DEF Tick, settingVars
<1>. QED
  BY <1>1, <1>2

(* Every variable of the pool has its type in every state the SDK can reach: the readmit time stays *)
(* within its bounds, and a request never asks for more nodes than there are.                       *)
THEOREM TypeCorrect == Spec => []TypeOK
<1>1. Init => TypeOK
  <2> SUFFICES ASSUME Init PROVE TypeOK
    OBVIOUS
  <2>1. NodeTypeOK
    BY NodeInitType DEF Init
  <2>2. 0 \in 0..Cardinality(Nodes)
    BY NetworkAssumption, FS_CardinalityType
  <2>3. nodes \in SUBSET Nodes
    BY NetworkAssumption DEF Init
  <2>4. network \in [Keys -> SUBSET Nodes]
    BY <2>3 DEF Init, ByKey
  <2>. QED
    BY <2>1, <2>2, <2>3, <2>4, NetworkAssumption DEF Init, TypeOK
<1>2. TypeOK /\ [Next]_vars => TypeOK'
  <2> SUFFICES ASSUME TypeOK, [Next]_vars PROVE TypeOK'
    OBVIOUS
  <2>1. CASE \E t \in Callers : CallNetwork(t) \/ Proceed(t)
    BY <2>1, CallType, ProceedType
  <2>2. CASE (\E n \in nodes : UseNode(n)) \/ Tick
    BY <2>2, EnvironmentType
  <2>3. CASE UNCHANGED vars
    BY <2>3 DEF vars, nodeVars, poolVars, settingVars, callVars, TypeOK, NodeTypeOK
  <2>. QED
    BY <2>1, <2>2, <2>3 DEF Next
<1>. QED
  BY <1>1, <1>2, PTL DEF Spec

-----------------------------------------------------------------------------
(* The next readmission is never put off beyond the first backoff among the nodes left out: the    *)
(* minimum that readmitNodes computes is right in every step that computes it.                      *)
THEOREM ReadmissionIsFirst == Spec => NextReadmissionIsFirst
<1> DEFINE A == earliestReadmitIn' > earliestReadmitIn =>
                  \A n \in nodes' \ healthyNodes' :
                     earliestReadmitIn' <= Larger(readmitIn'[n], 0)
<1>1. TypeOK /\ [Next]_vars => [A]_vars
  <2> SUFFICES ASSUME TypeOK, Next, earliestReadmitIn' > earliestReadmitIn,
                      NEW n \in nodes' \ healthyNodes'
               PROVE  earliestReadmitIn' <= Larger(readmitIn'[n], 0)
    BY DEF vars, poolVars
  <2>1. /\ readmitIn \in [Nodes -> -1..MaxNodeBackoff]
        /\ nodes \in SUBSET Nodes
        /\ earliestReadmitIn \in -1..MaxNodeReadmitTime
    BY DEF TypeOK, NodeTypeOK
  <2>2. earliestReadmitIn' # earliestReadmitIn
    BY <2>1
  <2>3. CASE ReadmitNodes /\ UNCHANGED <<nodes, readmitIn>>
    <3>1. /\ earliestReadmitIn' = EarliestOf(nodes, readmitIn)
          /\ healthyNodes' = Readmitted(nodes, healthyNodes, readmitIn)
      BY <2>2, <2>3 DEF ReadmitNodes
    <3>2. n \in nodes /\ n \in Nodes /\ ~ (readmitIn[n] <= 0)
      BY <2>1, <2>3, <3>1 DEF Readmitted
    <3>3. readmitIn[n] \in Int /\ readmitIn[n] > 0
      BY <2>1, <3>2
    <3>4. earliestReadmitIn' <= readmitIn[n]
      BY <2>1, <3>1, <3>2, <3>3, EarliestOfBounds
    <3>. QED
      BY <2>3, <3>3, <3>4 DEF Larger
  <2>4. ASSUME NEW t \in Callers, SetNetwork(t)
        PROVE  earliestReadmitIn' <= Larger(readmitIn'[n], 0)
    <3>1. PICK S \in NodeSets, closed \in SUBSET nodes :
            /\ nodes' = S
            /\ readmitIn' = Fresh(readmitIn, S \ nodes, 0)
            /\ \E later \in BOOLEAN : Restart(S, readmitIn', later)
      BY <2>4 DEF SetNetwork
    <3>2. S \in SUBSET Nodes /\ n \in S
      BY <3>1, NetworkAssumption
    <3>3. readmitIn' \in [Nodes -> -1..MaxNodeBackoff]
      BY <2>1, <3>1, BackoffAssumption DEF Fresh
    <3>4. PICK later \in BOOLEAN : Restart(S, readmitIn', later)
      BY <3>1
    <3>5. readmitIn'[n] \in Int
      BY <3>2, <3>3
    <3>6. CASE later
      <4>1. readmitIn'[n] > 0
        BY <3>2, <3>4, <3>5, <3>6 DEF Restart, Readmitted
      <4>2. EarliestOf(S, readmitIn') <= readmitIn'[n]
        BY <3>2, <3>3, <4>1, EarliestOfBounds
      <4>. QED
        BY <3>4, <3>5, <3>6, <4>1, <4>2 DEF Restart, Larger
    <3>7. CASE ~later
      BY <3>4, <3>5, <3>7 DEF Restart, Larger
    <3>. QED
      BY <3>6, <3>7
  <2>5. ~ Tick
    BY <2>1 DEF Tick, Larger
  <2>6. ASSUME NEW t \in Callers, CallNetwork(t) PROVE FALSE
    BY <2>2, <2>6
    DEF CallNetwork, BeginGetNodeProxies, BeginSelect, BeginSetNetwork, Close,
        SetTransportSecurity, poolVars
  <2>7. ASSUME NEW m \in nodes, UseNode(m) PROVE FALSE
    BY <2>2, <2>7 DEF UseNode, poolVars
  <2>8. ASSUME NEW t \in Callers, Prune(t) \/ WakeUp(t) \/ EndSelect(t) \/ SetNetworkCrash(t)
        PROVE  FALSE
    BY <2>2, <2>8 DEF Prune, WakeUp, EndSelect, SetNetworkCrash, poolVars
  <2>9. ASSUME NEW t \in Callers, GetNodeProxies(t) \/ Pick(t) \/ Doze(t)
        PROVE  ReadmitNodes /\ UNCHANGED <<nodes, readmitIn>>
    BY <2>9 DEF GetNodeProxies, Pick, Doze, nodeVars
  <2>. QED
    BY <2>3, <2>4, <2>5, <2>6, <2>7, <2>8, <2>9 DEF Next, Proceed
<1>. QED
  BY <1>1, TypeCorrect, PTL DEF Spec, NextReadmissionIsFirst

-----------------------------------------------------------------------------
(* A node is found by its key exactly while it is in the network, whichever of the nodes that      *)
(* failed too often the scan reaches before its iterator goes astray.                               *)
THEOREM NodesFoundByKey == Spec => []FoundByKey
<1>1. Init => FoundByKey
  BY NetworkAssumption DEF Init, ByKey, FoundByKey
<1>2. TypeOK /\ FoundByKey /\ [Next]_vars => FoundByKey'
  <2> SUFFICES ASSUME TypeOK, FoundByKey, [Next]_vars PROVE FoundByKey'
    OBVIOUS
  <2>1. \A n \in Nodes : KeyOf[n] \in Keys
    BY NetworkAssumption
  <2>2. CASE UNCHANGED <<nodes, network>>
    BY <2>2 DEF FoundByKey
  <2>3. ASSUME NEW t \in Callers, Prune(t) PROVE FoundByKey'
    <3>1. CASE FailedTooOften # {}
      BY <2>1, <2>3, <3>1 DEF Prune, RemoveNodes, FoundByKey
    <3>. QED
      BY <2>2, <2>3, <3>1 DEF Prune
  <2>4. ASSUME NEW t \in Callers, SetNetwork(t) PROVE FoundByKey'
    <3>1. PICK S \in NodeSets : nodes' = S /\ network' = ByKey(S)
      BY <2>4 DEF SetNetwork
    <3>. QED
      BY <2>1, <3>1 DEF ByKey, FoundByKey
  <2>5. ASSUME NEW t \in Callers, CallNetwork(t) PROVE UNCHANGED <<nodes, network>>
    BY <2>5 DEF CallNetwork, BeginGetNodeProxies, BeginSelect, BeginSetNetwork, Close,
                SetTransportSecurity, poolVars
  <2>6. ASSUME NEW t \in Callers,
               \/ GetNodeProxies(t) \/ Pick(t) \/ Doze(t) \/ WakeUp(t) \/ EndSelect(t)
               \/ SetNetworkCrash(t)
        PROVE  UNCHANGED <<nodes, network>>
    BY <2>6 DEF GetNodeProxies, Pick, Doze, WakeUp, EndSelect, SetNetworkCrash, poolVars
  <2>7. CASE (\E n \in nodes : UseNode(n)) \/ Tick \/ UNCHANGED vars
    BY <2>2, <2>7 DEF UseNode, Tick, vars, poolVars
  <2>. QED
    BY <2>2, <2>3, <2>4, <2>5, <2>6, <2>7 DEF Next, Proceed
<1>. QED
  BY <1>1, <1>2, TypeCorrect, PTL DEF Spec

-----------------------------------------------------------------------------
(* A call that has begun has the mutex of the network until it returns.                            *)
LockHeld == \A t \in Callers : op[t] # "idle" => networkLock = t

(* The mutex excludes: while one call is under way no other one is.                                *)
LEMMA LockInvariant == Spec => []LockHeld
<1>1. Init => LockHeld
  BY DEF Init, LockHeld
<1>2. TypeOK /\ LockHeld /\ [Next]_vars => LockHeld'
  <2> SUFFICES ASSUME TypeOK, LockHeld, [Next]_vars PROVE LockHeld'
    OBVIOUS
  <2>1. op \in [Callers -> {"idle", "proxies", "prune", "pick", "doze", "setNetwork", "crash"}]
    BY DEF TypeOK
  <2>2. NoThread \notin Callers
    BY NetworkAssumption, NoThreadAssumption
  <2>3. CASE UNCHANGED <<networkLock, op>>
    BY <2>3 DEF LockHeld
  <2>4. ASSUME NEW t \in Callers, NEW next, Acquire(t, next) PROVE LockHeld'
    BY <2>1, <2>2, <2>4 DEF Acquire, LockHeld
  <2>5. ASSUME NEW t \in Callers, Release(t) PROVE LockHeld'
    BY <2>1, <2>2, <2>5 DEF Release, LockHeld
  <2>6. ASSUME NEW t \in Callers, CallNetwork(t) PROVE LockHeld'
    BY <2>3, <2>4, <2>6 DEF CallNetwork, BeginGetNodeProxies, BeginSelect, BeginSetNetwork,
                            Close, SetTransportSecurity, callVars
  <2>7. ASSUME NEW t \in Callers, Prune(t) \/ Doze(t) \/ WakeUp(t) \/ SetNetworkCrash(t)
        PROVE  LockHeld'
    <3>1. op[t] # "idle" /\ networkLock' = networkLock
      BY <2>7 DEF Prune, Doze, WakeUp, SetNetworkCrash
    <3>2. \A u \in Callers \ {t} : op'[u] = op[u]
      BY <2>1, <2>7 DEF Prune, Doze, WakeUp, SetNetworkCrash
    <3>. QED
      BY <3>1, <3>2 DEF LockHeld
  <2>8. ASSUME NEW t \in Callers,
               GetNodeProxies(t) \/ Pick(t) \/ EndSelect(t) \/ SetNetwork(t)
        PROVE  LockHeld'
    BY <2>3, <2>5, <2>8 DEF GetNodeProxies, Pick, EndSelect, SetNetwork
  <2>9. CASE (\E n \in nodes : UseNode(n)) \/ Tick \/ UNCHANGED vars
    BY <2>3, <2>9 DEF UseNode, Tick, vars, callVars
  <2>. QED
    BY <2>6, <2>7, <2>8, <2>9 DEF Next, Proceed
<1>. QED
  BY <1>1, <1>2, TypeCorrect, PTL DEF Spec

(* A selection sees one network from beginning to end: setNetwork and the pruning of other calls   *)
(* wait for it.  Only the nodes a selection prunes before it picks leave the network under it.      *)
THEOREM SelectionsIsolated == Spec => SelectionIsolated
<1> DEFINE A == \A t \in Callers : op[t] \in {"pick", "doze"} => UNCHANGED <<nodes, network>>
<1>1. LockHeld /\ [Next]_vars => [A]_vars
  <2> SUFFICES ASSUME LockHeld, Next, NEW t \in Callers, op[t] \in {"pick", "doze"}
               PROVE  UNCHANGED <<nodes, network>>
    BY DEF vars
  <2>1. ASSUME NEW u \in Callers, Prune(u) \/ SetNetwork(u) PROVE FALSE
    <3>1. op[u] # "idle" /\ u # t
      BY <2>1 DEF Prune, SetNetwork
    <3>. QED
      BY <3>1 DEF LockHeld
  <2>2. ASSUME NEW u \in Callers, CallNetwork(u) PROVE UNCHANGED <<nodes, network>>
    BY <2>2 DEF CallNetwork, BeginGetNodeProxies, BeginSelect, BeginSetNetwork, Close,
                SetTransportSecurity, poolVars
  <2>3. ASSUME NEW u \in Callers,
               \/ GetNodeProxies(u) \/ Pick(u) \/ Doze(u) \/ WakeUp(u) \/ EndSelect(u)
               \/ SetNetworkCrash(u)
        PROVE  UNCHANGED <<nodes, network>>
    BY <2>3 DEF GetNodeProxies, Pick, Doze, WakeUp, EndSelect, SetNetworkCrash, poolVars
  <2>4. CASE (\E n \in nodes : UseNode(n)) \/ Tick
    BY <2>4 DEF UseNode, Tick, poolVars
  <2>. QED
    BY <2>1, <2>2, <2>3, <2>4 DEF Next, Proceed
<1>. QED
  BY <1>1, LockInvariant, PTL DEF Spec, SelectionIsolated

-----------------------------------------------------------------------------
(* While no node is removed for failing too often, nothing is picked between two selections, and    *)
(* the nodes picked and the healthy ones are in the network.                                        *)
SelectionInvariant ==
    maxNodeAttempts = 0 =>
       /\ healthyNodes \subseteq nodes
       /\ \A t \in Callers : picked[t] \subseteq nodes
       /\ \A t \in Callers : op[t] \notin {"pick", "doze"} => picked[t] = {}

(* The limit on bad statuses is settled when the network is made.                                   *)
LEMMA LimitKept ==
    ASSUME [Next]_vars
    PROVE  maxNodeAttempts' = maxNodeAttempts
<1>1. ASSUME NEW t \in Callers, CallNetwork(t) PROVE maxNodeAttempts' = maxNodeAttempts
  BY <1>1 DEF CallNetwork, BeginGetNodeProxies, BeginSelect, BeginSetNetwork, Close,
              SetTransportSecurity, settingVars
<1>2. ASSUME NEW t \in Callers, Proceed(t) PROVE maxNodeAttempts' = maxNodeAttempts
  BY <1>2 DEF Proceed, GetNodeProxies, Prune, Pick, Doze, WakeUp, EndSelect, SetNetwork,
              SetNetworkCrash, settingVars
<1>3. CASE (\E n \in nodes : UseNode(n)) \/ Tick \/ UNCHANGED vars
  BY <1>3 DEF UseNode, Tick, vars, settingVars
<1>. QED
  BY <1>1, <1>2, <1>3 DEF Next

(* As long as no node is removed for failing too often, what a selection returns are nodes of the  *)
(* network: setNetwork cannot come in between, and it starts the healthy nodes anew.                *)
THEOREM SelectionsFound == Spec => []PickedFromNetwork
<1>1. Init => SelectionInvariant
  BY DEF Init, SelectionInvariant
<1>2. TypeOK /\ LockHeld /\ SelectionInvariant /\ [Next]_vars => SelectionInvariant'
  <2> SUFFICES ASSUME TypeOK, LockHeld, SelectionInvariant, [Next]_vars, maxNodeAttempts = 0
               PROVE  SelectionInvariant'
    BY LimitKept DEF SelectionInvariant
  <2> USE DEF SelectionInvariant
  <2>1. /\ op \in [Callers -> {"idle", "proxies", "prune", "pick", "doze", "setNetwork", "crash"}]
        /\ picked \in [Callers -> SUBSET Nodes]
    BY DEF TypeOK
  <2>2. CASE UNCHANGED <<nodes, healthyNodes, op, picked>>
    BY <2>2
  <2>3. ReadmitNodes => healthyNodes' \subseteq nodes
    BY DEF ReadmitNodes, Readmitted
  <2>4. ASSUME NEW t \in Callers, CallNetwork(t) PROVE SelectionInvariant'
    <3>1. CASE Close(t) \/ SetTransportSecurity(t)
      BY <2>2, <3>1 DEF Close, SetTransportSecurity, poolVars, callVars
    <3>2. CASE BeginGetNodeProxies(t) \/ BeginSelect(t) \/ BeginSetNetwork(t)
      BY <2>1, <3>2 DEF BeginGetNodeProxies, BeginSelect, BeginSetNetwork, Acquire, poolVars
    <3>. QED
      BY <2>4, <3>1, <3>2 DEF CallNetwork
  <2>5. ASSUME NEW t \in Callers, GetNodeProxies(t) PROVE SelectionInvariant'
    BY <2>1, <2>3, <2>5 DEF GetNodeProxies, Release
  <2>6. ASSUME NEW t \in Callers, Prune(t) PROVE SelectionInvariant'
    BY <2>1, <2>6 DEF Prune, FailedTooOften
  <2>7. ASSUME NEW t \in Callers, Pick(t) PROVE SelectionInvariant'
    BY <2>1, <2>3, <2>7 DEF Pick
  <2>8. ASSUME NEW t \in Callers, Doze(t) \/ WakeUp(t) PROVE SelectionInvariant'
    BY <2>1, <2>3, <2>8 DEF Doze, WakeUp, poolVars
  <2>9. ASSUME NEW t \in Callers, EndSelect(t) PROVE SelectionInvariant'
    BY <2>1, <2>9 DEF EndSelect, Release, poolVars
  <2>10. ASSUME NEW t \in Callers, SetNetwork(t) PROVE SelectionInvariant'
    <3>1. op[t] = "setNetwork" /\ Release(t) /\ picked' = picked
      BY <2>10 DEF SetNetwork
    <3>2. \A u \in Callers : picked[u] = {}
      BY <3>1 DEF LockHeld
    <3>3. healthyNodes' \subseteq nodes'
      BY <2>10 DEF SetNetwork, Restart, Readmitted
    <3>. QED
      BY <3>1, <3>2, <3>3
  <2>11. CASE (\E n \in nodes : UseNode(n)) \/ Tick \/ UNCHANGED vars
    BY <2>2, <2>11 DEF UseNode, Tick, vars, poolVars, callVars
  <2>12. ASSUME NEW t \in Callers, SetNetworkCrash(t) PROVE SelectionInvariant'
    BY <2>1, <2>12 DEF SetNetworkCrash, poolVars
  <2>. QED
    BY <2>4, <2>5, <2>6, <2>7, <2>8, <2>9, <2>10, <2>11, <2>12 DEF Next, Proceed
<1>3. SelectionInvariant => PickedFromNetwork
  BY DEF SelectionInvariant, PickedFromNetwork
<1>. QED
  BY <1>1, <1>2, <1>3, TypeCorrect, LockInvariant, PTL DEF Spec

=============================================================================
