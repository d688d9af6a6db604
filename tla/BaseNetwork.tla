----------------------------- MODULE BaseNetwork -----------------------------
(***************************************************************************)
(* The pool of nodes a client works with (impl/BaseNetwork, impl/Network): *)
(* which nodes it has, which of them it believes to be healthy, and the     *)
(* calls that choose nodes for a request, replace the nodes, close them or  *)
(* change their TLS policy.  A call holds the network's mutex from its      *)
(* first access to its last, sleeps included.  Requests report to the nodes *)
(* themselves and never tell the pool: the environment of this module is    *)
(* what Executable does to nodes.                                           *)
(***************************************************************************)
EXTENDS BaseNode, FiniteSets

CONSTANTS Keys,              \* the keys (account IDs) nodes are found by
          KeyOf,             \* the key of each node
          Callers,           \* the threads that call the network
          MaxNodeReadmitTime,
          AttemptLimits,     \* what mMaxNodeAttempts may be set to, 0 for no limit
          MaxNodesPerRequest, \* 0 for a third of the nodes
          NodeSets,          \* the networks setNetwork may be given
          SecureAddress,     \* the nodes whose address in the map has a TLS port
          Calls              \* the methods called, among those of CallNetwork

ASSUME NetworkAssumption ==
    /\ Callers \subseteq Threads
    /\ IsFiniteSet(Nodes)
    /\ KeyOf \in [Nodes -> Keys]
    /\ MaxNodeReadmitTime \in Nat \ {0}
    /\ AttemptLimits \subseteq 0..BadStatusCap
    /\ MaxNodesPerRequest \in Nat
    /\ NodeSets \subseteq SUBSET Nodes
    /\ SecureAddress \subseteq Nodes
    /\ Calls \subseteq {"getNodeProxies", "getNodeAccountIdsForExecute", "setNetwork", "close",
                       "setTransportSecurity"}

VARIABLES nodes,              \* mNodes
          network,            \* mNetwork
          healthyNodes,       \* mHealthyNodes
          earliestReadmitIn,  \* mEarliestReadmitTime, relative to now
          transportSecurity,  \* mTransportSecurity: is TLS required?
          secure,             \* the nodes whose mAddress has a TLS port
          maxNodeAttempts,    \* mMaxNodeAttempts: the bad statuses before a node is removed
          networkLock,        \* the caller that holds mMutex
          op,                 \* what each caller is doing
          wanted,             \* count
          picked,             \* the local nodes of getNumberOfMostHealthyNodes
          dozeLeft            \* what is left of a sleep

poolVars == <<nodes, network, healthyNodes, earliestReadmitIn>>
settingVars == <<transportSecurity, secure, maxNodeAttempts>>
callVars == <<networkLock, op, wanted, picked, dozeLeft>>
vars == <<nodeVars, poolVars, settingVars, callVars>>

ByKey(S) == [k \in Keys |-> {n \in S : KeyOf[n] = k}]

CeilThird(k) == (k + 2) \div 3

-----------------------------------------------------------------------------
(* A network as its constructor's call of setNetwork leaves it: every node is new.  The policy     *)
(* starts at REQUIRE whatever the addresses are.                                                   *)
Init ==
    /\ NodeInit
    /\ nodes \in NodeSets
    /\ network = ByKey(nodes)
    /\ \/ healthyNodes = nodes /\ earliestReadmitIn = MaxNodeReadmitTime
       \/ healthyNodes = {} /\ earliestReadmitIn = 0
    /\ transportSecurity = TRUE
    /\ secure = SecureAddress
    /\ maxNodeAttempts \in AttemptLimits
    /\ networkLock = NoThread
    /\ op = [t \in Callers |-> "idle"]
    /\ wanted = [t \in Callers |-> 0]
    /\ picked = [t \in Callers |-> {}]
    /\ dozeLeft = [t \in Callers |-> 0]

(* readmitNodes: nothing until the earliest readmit time has passed; then the nodes whose backoff  *)
(* is over join the healthy ones, and the next time is that of the first node still in backoff.    *)
(* A node that is in backoff again is not taken off the list.  Reading a node's readmit time waits *)
(* for the node's mutex; as it cannot change before the mutex is free, the wait is left out, here  *)
(* and wherever the network reads or closes a node.                                                *)
ReadmitDue == earliestReadmitIn < 0

(* Mutant: the nodes still in backoff are not looked at.                                           *)
ReadmitTimesFixed(S, delay) == {MaxNodeReadmitTime}

ReadmitTimes(S, delay) == {MaxNodeReadmitTime} \cup {delay[n] : n \in {m \in S : delay[m] > 0}}

EarliestOf(S, delay) == CHOOSE e \in ReadmitTimes(S, delay) :
                            \A d \in ReadmitTimes(S, delay) : e <= d

Readmitted(S, healthy, delay) == healthy \cup {n \in S : delay[n] <= 0}

ReadmitNodes ==
    IF ReadmitDue
    THEN /\ earliestReadmitIn' = EarliestOf(nodes, readmitIn)
         /\ healthyNodes' = Readmitted(nodes, healthyNodes, readmitIn)
    ELSE UNCHANGED <<earliestReadmitIn, healthyNodes>>

(* Mutant: the mutex is not waited for.                                                            *)
AcquireAtOnce(t, next) ==
    /\ op[t] = "idle"
    /\ networkLock' = t
    /\ op' = [op EXCEPT ![t] = next]

Acquire(t, next) ==
    /\ op[t] = "idle" /\ networkLock = NoThread
    /\ networkLock' = t
    /\ op' = [op EXCEPT ![t] = next]

Release(t) ==
    /\ networkLock = t
    /\ networkLock' = NoThread
    /\ op' = [op EXCEPT ![t] = "idle"]

-----------------------------------------------------------------------------
(* getNodeProxies                                                                                  *)
BeginGetNodeProxies(t) ==
    /\ Acquire(t, "proxies")
    /\ UNCHANGED <<nodeVars, poolVars, settingVars, wanted, picked, dozeLeft>>

GetNodeProxies(t) ==
    /\ op[t] = "proxies"
    /\ ReadmitNodes
    /\ Release(t)
    /\ UNCHANGED <<nodeVars, nodes, network, settingVars, wanted, picked, dozeLeft>>

(* getNodeAccountIdsForExecute: the number of nodes is settled from the size of the network,       *)
(* before the nodes that failed too often are removed from it.                                      *)
BeginSelect(t) ==
    /\ Acquire(t, "prune")
    /\ wanted' = [wanted EXCEPT ![t] =
                    IF MaxNodesPerRequest > 0
                    THEN Smaller(MaxNodesPerRequest, Cardinality(nodes))
                    ELSE CeilThird(Cardinality(nodes))]
    /\ UNCHANGED <<nodeVars, poolVars, settingVars, picked, dozeLeft>>

FailedTooOften ==
    IF maxNodeAttempts = 0 THEN {} ELSE {n \in nodes : badGrpcStatusCount[n] >= maxNodeAttempts}

CloseAll(S) == channelOpen' = [n \in Nodes |-> channelOpen[n] /\ n \notin S]

(* removeNodeFromNetwork, for the nodes in gone; those in forgotten leave the list of healthy ones. *)
(* Mutant: mNetwork keeps what mNodes gives up.                                                    *)
RemoveFromNodesOnly(gone, forgotten) ==
    /\ nodes' = nodes \ gone
    /\ healthyNodes' = healthyNodes \ forgotten
    /\ UNCHANGED network

RemoveNodes(gone, forgotten) ==
    /\ nodes' = nodes \ gone
    /\ network' = [k \in Keys |-> network[k] \ gone]
    /\ healthyNodes' = healthyNodes \ forgotten

(* Erasing the element an iterator points to, then using the iterator and the reference to the     *)
(* element, is undefined: the scan may stop early or crash, and the erased node may keep its place *)
(* among the healthy ones, where it is looked up through that reference.                            *)
Prune(t) ==
    /\ op[t] = "prune"
    /\ IF FailedTooOften = {}
       THEN /\ op' = [op EXCEPT ![t] = "pick"]
            /\ UNCHANGED <<channelOpen, nodes, network, healthyNodes>>
       ELSE \E gone \in SUBSET FailedTooOften \ {{}}, forgotten \in SUBSET FailedTooOften :
            /\ forgotten \subseteq gone
            /\ CloseAll(gone)
            /\ RemoveNodes(gone, forgotten)
            /\ \E next \in {"pick", "crash"} : op' = [op EXCEPT ![t] = next]
    /\ UNCHANGED <<readmitIn, currentBackoff, badGrpcStatusCount, isConnected, nodeLock,
                   earliestReadmitIn, settingVars, networkLock, wanted, picked, dozeLeft>>

(* One turn of the loop: a random healthy node, which may be one that was picked before; or, when  *)
(* there is none, a sleep, with the mutex.                                                          *)
Pick(t) ==
    /\ op[t] = "pick"
    /\ Cardinality(picked[t]) < wanted[t]
    /\ ReadmitNodes
    /\ healthyNodes' # {}
    /\ \E n \in healthyNodes' : picked' = [picked EXCEPT ![t] = @ \cup {n}]
    /\ UNCHANGED <<nodeVars, nodes, network, settingVars, networkLock, op, wanted, dozeLeft>>

Doze(t) ==
    /\ op[t] = "pick"
    /\ Cardinality(picked[t]) < wanted[t]
    /\ ReadmitNodes
    /\ healthyNodes' = {}
    /\ op' = [op EXCEPT ![t] = "doze"]
    /\ dozeLeft' = [dozeLeft EXCEPT ![t] = Larger(earliestReadmitIn', 0)]
    /\ UNCHANGED <<nodeVars, nodes, network, settingVars, networkLock, wanted, picked>>

WakeUp(t) ==
    /\ op[t] = "doze" /\ dozeLeft[t] = 0
    /\ op' = [op EXCEPT ![t] = "pick"]
    /\ UNCHANGED <<nodeVars, poolVars, settingVars, networkLock, wanted, picked, dozeLeft>>

(* Mutant: a count that is off by one.                                                             *)
EndSelectOffByOne(t) ==
    /\ op[t] = "pick"
    /\ Cardinality(picked[t]) > wanted[t]
    /\ picked' = [picked EXCEPT ![t] = {}]
    /\ wanted' = [wanted EXCEPT ![t] = 0]
    /\ Release(t)
    /\ UNCHANGED <<nodeVars, poolVars, settingVars, dozeLeft>>

EndSelect(t) ==
    /\ op[t] = "pick"
    /\ Cardinality(picked[t]) >= wanted[t]
    /\ picked' = [picked EXCEPT ![t] = {}]
    /\ wanted' = [wanted EXCEPT ![t] = 0]
    /\ Release(t)
    /\ UNCHANGED <<nodeVars, poolVars, settingVars, dozeLeft>>

-----------------------------------------------------------------------------
(* setNetwork keeps the nodes that are in the new map, makes new ones for the other entries and    *)
(* closes the rest.  Closing them erases the element of the loop that visits it, which is          *)
(* undefined: only some of them may be closed, or the program crashes (SetNetworkCrash).  The list *)
(* of healthy nodes starts anew.  The earliest readmit time is set to now, and the readmission     *)
(* that follows does its work if the clock has moved on since.                                      *)
(* Mutant: the healthy nodes of the old network stay on the list.                                  *)
RestartKeeping(S, delay, later) ==
    /\ healthyNodes' = IF later THEN Readmitted(S, healthyNodes, delay) ELSE healthyNodes
    /\ earliestReadmitIn' = IF later THEN EarliestOf(S, delay) ELSE 0

Restart(S, delay, later) ==
    /\ healthyNodes' = IF later THEN Readmitted(S, {}, delay) ELSE {}
    /\ earliestReadmitIn' = IF later THEN EarliestOf(S, delay) ELSE 0

BeginSetNetwork(t) ==
    /\ Acquire(t, "setNetwork")
    /\ UNCHANGED <<nodeVars, poolVars, settingVars, wanted, picked, dozeLeft>>

Fresh(f, new, value) == [n \in Nodes |-> IF n \in new THEN value ELSE f[n]]

SetNetwork(t) ==
    /\ op[t] = "setNetwork"
    /\ \E S \in NodeSets, closed \in SUBSET nodes :
          LET new == S \ nodes
              delay == Fresh(readmitIn, new, 0)
          IN /\ closed \subseteq nodes \ S
             /\ nodes' = S
             /\ network' = ByKey(S)
             /\ \E later \in BOOLEAN : Restart(S, delay, later)
             /\ readmitIn' = delay
             /\ currentBackoff' = Fresh(currentBackoff, new, MinNodeBackoff)
             /\ badGrpcStatusCount' = Fresh(badGrpcStatusCount, new, 0)
             /\ isConnected' = Fresh(isConnected, new, FALSE)
             /\ channelOpen' = [n \in Nodes |-> channelOpen[n] /\ n \notin closed \cup new]
             /\ secure' = (secure \ new) \cup (new \cap SecureAddress)
    /\ Release(t)
    /\ UNCHANGED <<nodeLock, transportSecurity, maxNodeAttempts, wanted, picked, dozeLeft>>

SetNetworkCrash(t) ==
    /\ op[t] = "setNetwork"
    /\ \E S \in NodeSets : nodes \ S # {}
    /\ op' = [op EXCEPT ![t] = "crash"]
    /\ UNCHANGED <<nodeVars, poolVars, settingVars, networkLock, wanted, picked, dozeLeft>>

(* close, and setTransportSecurity when the policy changes, which gives every node the port of the *)
(* policy: both close every channel.                                                                *)
Close(t) ==
    /\ op[t] = "idle" /\ networkLock = NoThread
    /\ CloseAll(nodes)
    /\ UNCHANGED <<readmitIn, currentBackoff, badGrpcStatusCount, isConnected, nodeLock,
                   poolVars, settingVars, callVars>>

SetTransportSecurity(t) ==
    /\ op[t] = "idle" /\ networkLock = NoThread
    /\ CloseAll(nodes)
    /\ transportSecurity' = ~transportSecurity
    /\ secure' = IF transportSecurity' THEN secure \cup nodes ELSE secure \ nodes
    /\ UNCHANGED <<readmitIn, currentBackoff, badGrpcStatusCount, isConnected, nodeLock,
                   poolVars, maxNodeAttempts, callVars>>

-----------------------------------------------------------------------------
(* What requests do to a node: they connect to it, seen here as one step, and report to the node   *)
(* itself how their calls went.  Bad statuses are bounded by BadStatusCap.                         *)
ConnectTo(n) ==
    /\ isConnected' = [isConnected EXCEPT ![n] = TRUE]
    /\ channelOpen' = [channelOpen EXCEPT ![n] = TRUE]
    /\ UNCHANGED <<readmitIn, currentBackoff, badGrpcStatusCount, nodeLock>>

UseNode(n) ==
    /\ \/ ~isConnected[n] /\ ConnectTo(n)
       \/ badGrpcStatusCount[n] < BadStatusCap /\ IncreaseBackoff(n)
       \/ isConnected[n] /\ DecreaseBackoff(n)
    /\ UNCHANGED <<poolVars, settingVars, callVars>>

Tick ==
    /\ NodeTick
    /\ earliestReadmitIn' = Larger(earliestReadmitIn - 1, -1)
    /\ dozeLeft' = [t \in Callers |-> Larger(dozeLeft[t] - 1, 0)]
    /\ UNCHANGED <<currentBackoff, badGrpcStatusCount, isConnected, channelOpen, nodeLock,
                   nodes, network, healthyNodes, settingVars, networkLock, op, wanted, picked>>

(* The steps a call takes once it has the mutex.                                                   *)
Proceed(t) == \/ GetNodeProxies(t) \/ Prune(t) \/ Pick(t) \/ Doze(t) \/ WakeUp(t) \/ EndSelect(t)
              \/ SetNetwork(t) \/ SetNetworkCrash(t)

CallNetwork(t) ==
    \/ "getNodeProxies" \in Calls /\ BeginGetNodeProxies(t)
    \/ "getNodeAccountIdsForExecute" \in Calls /\ BeginSelect(t)
    \/ "setNetwork" \in Calls /\ BeginSetNetwork(t)
    \/ "close" \in Calls /\ Close(t)
    \/ "setTransportSecurity" \in Calls /\ SetTransportSecurity(t)

Alive == \A t \in Callers : op[t] # "crash"

Next ==
    /\ Alive
    /\ \/ \E t \in Callers : CallNetwork(t) \/ Proceed(t)
       \/ \E n \in nodes : UseNode(n)
       \/ Tick

(* A call goes on; a random choice among the healthy nodes comes, in the end, upon one it has not  *)
(* picked; and time passes.                                                                         *)
PickAnother(t) == Pick(t) /\ picked' # picked

Fairness ==
    /\ \A t \in Callers : WF_vars(Alive /\ Proceed(t)) /\ SF_vars(Alive /\ PickAnother(t))
    /\ WF_vars(Alive /\ Tick)

Spec == Init /\ [][Next]_vars
FairSpec == Spec /\ Fairness

-----------------------------------------------------------------------------
(* Every variable has its type.                                                                    *)
TypeOK ==
    /\ NodeTypeOK
    /\ nodes \subseteq Nodes /\ healthyNodes \subseteq Nodes /\ secure \subseteq Nodes
    /\ network \in [Keys -> SUBSET Nodes]
    /\ earliestReadmitIn \in -1..MaxNodeReadmitTime
    /\ transportSecurity \in BOOLEAN /\ maxNodeAttempts \in AttemptLimits
    /\ networkLock \in Callers \cup {NoThread}
    /\ op \in [Callers -> {"idle", "proxies", "prune", "pick", "doze", "setNetwork", "crash"}]
    /\ wanted \in [Callers -> 0..Cardinality(Nodes)]
    /\ picked \in [Callers -> SUBSET Nodes]
    /\ dozeLeft \in [Callers -> 0..MaxNodeReadmitTime]

(* mNodes and mNetwork tell the same story through every removal and replacement: a node is found  *)
(* by its key exactly while it is in the network.                                                  *)
FoundByKey == \A n \in Nodes : n \in nodes <=> n \in network[KeyOf[n]]

(* While no node is removed for failing too often, what getNodeAccountIdsForExecute is about to    *)
(* return comes from the network as it is now, so that each account ID can be mapped back to a     *)
(* node.                                                                                           *)
PickedFromNetwork ==
    maxNodeAttempts = 0 => \A t \in Callers : healthyNodes \cup picked[t] \subseteq nodes

(* Whenever the time of the next readmission is put off, it is put off no further than the end of  *)
(* the first backoff among the nodes left out: no node is passed over for longer than its penalty. *)
NextReadmissionIsFirst ==
    [][earliestReadmitIn' > earliestReadmitIn =>
          \A n \in nodes' \ healthyNodes' : earliestReadmitIn' <= Larger(readmitIn'[n], 0)]_vars

(* The pool does not change under a call that is choosing nodes from it.                           *)
SelectionIsolated ==
    [][\A t \in Callers : op[t] \in {"pick", "doze"} => UNCHANGED <<nodes, network>>]_vars

(* Every call that has begun returns, and lets the next one begin.                                 *)
CallsReturn == \A t \in Callers : networkLock = t ~> networkLock # t \/ ~Alive

(* They do as long as no node is removed for failing too often.                                    *)
CallsReturnUnpruned ==
    \A t \in Callers : networkLock = t /\ maxNodeAttempts = 0 ~> networkLock # t \/ ~Alive
=============================================================================
