------------------------------ MODULE BaseNode ------------------------------
(***************************************************************************)
(* One remote node as the SDK sees it (impl/BaseNode, impl/Node and        *)
(* impl/MirrorNode): how long it must be left alone after a bad gRPC        *)
(* status, how long the next penalty will be, the number of bad statuses,   *)
(* its channel and the mutex that every one of its methods takes.           *)
(*                                                                         *)
(* Clock times are kept as distances from the present, so that the state   *)
(* space is finite without a bound on the clock: readmitIn[n] stands for    *)
(* mReadmitTime - now().  Only the sign of a distance that has passed       *)
(* matters (0 is "exactly now", which isHealthy rejects), so it stops at    *)
(* -1.  NodeTick, a conjunct of the clock of every module that uses this   *)
(* one, lets one unit of time go by.                                        *)
(***************************************************************************)
EXTENDS Integers

CONSTANTS Nodes,            \* the BaseNode objects
          Threads,          \* the threads that may own a node's mutex
          NoThread,         \* the owner of a mutex nobody holds
          MinNodeBackoff,   \* DEFAULT_MIN_NODE_BACKOFF
          MaxNodeBackoff,   \* DEFAULT_MAX_NODE_BACKOFF
          BadStatusCap      \* where the count of bad statuses stops counting

(* mMinNodeBackoff and mMaxNodeBackoff keep their defaults for the life of a node: nothing in   *)
(* the SDK calls BaseNode::setMinNodeBackoff or BaseNode::setMaxNodeBackoff.                      *)
ASSUME BackoffAssumption == /\ MinNodeBackoff \in Nat \ {0}
                            /\ MaxNodeBackoff \in Nat
                            /\ MinNodeBackoff <= MaxNodeBackoff

ASSUME CapAssumption == BadStatusCap \in Nat

ASSUME NoThreadAssumption == NoThread \notin Threads

VARIABLES readmitIn,            \* mReadmitTime, relative to now
          currentBackoff,       \* mCurrentBackoff
          badGrpcStatusCount,   \* mBadGrpcStatusCount, counted up to BadStatusCap
          isConnected,          \* mIsConnected
          channelOpen,          \* mChannel and the stubs made from it are not null
          nodeLock              \* the thread that holds mMutex across a blocking call

nodeVars == <<readmitIn, currentBackoff, badGrpcStatusCount, isConnected, channelOpen, nodeLock>>

Smaller(a, b) == IF a <= b THEN a ELSE b
Larger(a, b) == IF a >= b THEN a ELSE b

-----------------------------------------------------------------------------
(* The members' initializers: a new node may be used as soon as the clock has moved on.           *)
NodeInit ==
    /\ readmitIn = [n \in Nodes |-> 0]
    /\ currentBackoff = [n \in Nodes |-> MinNodeBackoff]
    /\ badGrpcStatusCount = [n \in Nodes |-> 0]
    /\ isConnected = [n \in Nodes |-> FALSE]
    /\ channelOpen = [n \in Nodes |-> FALSE]
    /\ nodeLock = [n \in Nodes |-> NoThread]

NodeTypeOK ==
    /\ readmitIn \in [Nodes -> -1..MaxNodeBackoff]
    /\ currentBackoff \in [Nodes -> MinNodeBackoff..MaxNodeBackoff]
    /\ badGrpcStatusCount \in [Nodes -> 0..BadStatusCap]
    /\ isConnected \in [Nodes -> BOOLEAN]
    /\ channelOpen \in [Nodes -> BOOLEAN]
    /\ nodeLock \in [Nodes -> Threads \cup {NoThread}]

NodeTick == readmitIn' = [n \in Nodes |-> Larger(readmitIn[n] - 1, -1)]

(* A method that does not block while it holds the mutex is one step, possible when it is free.   *)
LockFree(n) == nodeLock[n] = NoThread

IsHealthy(n) == readmitIn[n] < 0

RemainingTimeForBackoff(n) == readmitIn[n]

(* Mutant: the doubled backoff is not held to the maximum.                                         *)
IncreaseBackoffUncapped(n) ==
    /\ LockFree(n)
    /\ badGrpcStatusCount' = [badGrpcStatusCount EXCEPT ![n] = Smaller(@ + 1, BadStatusCap)]
    /\ readmitIn' = [readmitIn EXCEPT ![n] = currentBackoff[n]]
    /\ currentBackoff' = [currentBackoff EXCEPT ![n] = 2 * @]
    /\ UNCHANGED <<isConnected, channelOpen, nodeLock>>

IncreaseBackoff(n) ==
    /\ LockFree(n)
    /\ badGrpcStatusCount' = [badGrpcStatusCount EXCEPT ![n] = Smaller(@ + 1, BadStatusCap)]
    /\ readmitIn' = [readmitIn EXCEPT ![n] = currentBackoff[n]]
    /\ currentBackoff' = [currentBackoff EXCEPT ![n] = Smaller(2 * @, MaxNodeBackoff)]
    /\ UNCHANGED <<isConnected, channelOpen, nodeLock>>

DecreaseBackoff(n) ==
    /\ LockFree(n)
    /\ currentBackoff' = [currentBackoff EXCEPT ![n] = Larger(@ \div 2, MinNodeBackoff)]
    /\ UNCHANGED <<readmitIn, badGrpcStatusCount, isConnected, channelOpen, nodeLock>>

(* channelFailedToConnect keeps the mutex while it waits for the channel; a node that was         *)
(* connected once is not asked again.                                                             *)
AlreadyConnected(n) == LockFree(n) /\ isConnected[n]

StartConnecting(t, n) ==
    /\ LockFree(n)
    /\ ~isConnected[n]
    /\ channelOpen' = [channelOpen EXCEPT ![n] = TRUE]
    /\ nodeLock' = [nodeLock EXCEPT ![n] = t]
    /\ UNCHANGED <<readmitIn, currentBackoff, badGrpcStatusCount, isConnected>>

(* Mutant: the mutex is let go only when the node was reached.                                     *)
FinishConnectingKeepingLock(t, n, connected) ==
    /\ nodeLock[n] = t
    /\ isConnected' = [isConnected EXCEPT ![n] = connected]
    /\ nodeLock' = [nodeLock EXCEPT ![n] = IF connected THEN NoThread ELSE t]
    /\ UNCHANGED <<readmitIn, currentBackoff, badGrpcStatusCount, channelOpen>>

FinishConnecting(t, n, connected) ==
    /\ nodeLock[n] = t
    /\ isConnected' = [isConnected EXCEPT ![n] = connected]
    /\ nodeLock' = [nodeLock EXCEPT ![n] = NoThread]
    /\ UNCHANGED <<readmitIn, currentBackoff, badGrpcStatusCount, channelOpen>>

(* submitQuery and submitTransaction keep the mutex for the whole of a blocking gRPC call.        *)
(* Mutant: the call does not wait for the mutex.                                                   *)
StartCallUnlocked(t, n) ==
    /\ channelOpen[n]
    /\ nodeLock' = [nodeLock EXCEPT ![n] = t]
    /\ UNCHANGED <<readmitIn, currentBackoff, badGrpcStatusCount, isConnected, channelOpen>>

StartCall(t, n) ==
    /\ LockFree(n)
    /\ channelOpen[n]
    /\ nodeLock' = [nodeLock EXCEPT ![n] = t]
    /\ UNCHANGED <<readmitIn, currentBackoff, badGrpcStatusCount, isConnected, channelOpen>>

FinishCall(t, n) ==
    /\ nodeLock[n] = t
    /\ nodeLock' = [nodeLock EXCEPT ![n] = NoThread]
    /\ UNCHANGED <<readmitIn, currentBackoff, badGrpcStatusCount, isConnected, channelOpen>>

(* Calling through a stub that closeStubs() set to null.                                          *)
CallThroughNullStub(n) == LockFree(n) /\ ~channelOpen[n]

(* close() and setAddress() drop the channel and the stubs and leave mIsConnected as it was.      *)
CloseChannel(n) ==
    /\ LockFree(n)
    /\ channelOpen' = [channelOpen EXCEPT ![n] = FALSE]
    /\ UNCHANGED <<readmitIn, currentBackoff, badGrpcStatusCount, isConnected, nodeLock>>

=============================================================================
