--------------------------- MODULE BaseNodeProofs ---------------------------
(***************************************************************************)
(* What the operations of one node keep, whoever calls them: lemmas for     *)
(* the modules that share nodes.                                            *)
(***************************************************************************)
EXTENDS BaseNode, TLAPS

(* The initializers of a node give every member a value of its type.                               *)
LEMMA NodeInitType == NodeInit => NodeTypeOK
BY BackoffAssumption, CapAssumption DEF NodeInit, NodeTypeOK

(* Time passing keeps a node's distances from the present within their range.                      *)
LEMMA NodeTickType ==
    ASSUME NodeTypeOK, NodeTick,
           UNCHANGED <<currentBackoff, badGrpcStatusCount, isConnected, channelOpen, nodeLock>>
    PROVE  NodeTypeOK'
BY BackoffAssumption DEF NodeTypeOK, NodeTick, Larger

(* A penalty never puts a node off for longer than the longest backoff, and the next penalty stays *)
(* between the shortest and the longest one.                                                       *)
LEMMA IncreaseBackoffType ==
    ASSUME NodeTypeOK, NEW n \in Nodes, IncreaseBackoff(n)
    PROVE  NodeTypeOK'
<1> USE DEF NodeTypeOK
<1>1. badGrpcStatusCount' \in [Nodes -> 0..BadStatusCap]
  BY CapAssumption DEF IncreaseBackoff, Smaller
<1>2. currentBackoff[n] \in MinNodeBackoff..MaxNodeBackoff
  OBVIOUS
<1>3. readmitIn' \in [Nodes -> -1..MaxNodeBackoff]
  BY <1>2, BackoffAssumption DEF IncreaseBackoff
<1>4. Smaller(2 * currentBackoff[n], MaxNodeBackoff) \in MinNodeBackoff..MaxNodeBackoff
  BY <1>2, BackoffAssumption DEF Smaller
<1>5. currentBackoff' \in [Nodes -> MinNodeBackoff..MaxNodeBackoff]
  BY <1>4 DEF IncreaseBackoff
<1>. QED
  BY <1>1, <1>3, <1>5 DEF IncreaseBackoff

(* A call that went through halves the next penalty, down to the shortest one.                     *)
LEMMA DecreaseBackoffType ==
    ASSUME NodeTypeOK, NEW n \in Nodes, DecreaseBackoff(n)
    PROVE  NodeTypeOK'
<1>1. currentBackoff[n] \in MinNodeBackoff..MaxNodeBackoff
  BY DEF NodeTypeOK
<1>2. Larger(currentBackoff[n] \div 2, MinNodeBackoff) \in MinNodeBackoff..MaxNodeBackoff
  BY <1>1, BackoffAssumption DEF Larger
<1>3. currentBackoff' \in [Nodes -> MinNodeBackoff..MaxNodeBackoff]
  BY <1>2 DEF DecreaseBackoff, NodeTypeOK
<1>. QED
  BY <1>3 DEF DecreaseBackoff, NodeTypeOK

(* Connecting and calling change the mutex, the channel and the flag, nothing else.                *)
LEMMA ChannelUseType ==
    ASSUME NodeTypeOK, NEW n \in Nodes, NEW t \in Threads, NEW connected \in BOOLEAN,
           \/ StartConnecting(t, n) \/ FinishConnecting(t, n, connected)
           \/ StartCall(t, n) \/ FinishCall(t, n) \/ CloseChannel(n)
    PROVE  NodeTypeOK'
<1> USE DEF NodeTypeOK
<1>1. CASE StartConnecting(t, n)
  BY <1>1 DEF StartConnecting
<1>2. CASE FinishConnecting(t, n, connected)
  BY <1>2 DEF FinishConnecting
<1>3. CASE StartCall(t, n)
  BY <1>3 DEF StartCall
<1>4. CASE FinishCall(t, n)
  BY <1>4 DEF FinishCall
<1>5. CASE CloseChannel(n)
  BY <1>5 DEF CloseChannel
<1>. QED
  BY <1>1, <1>2, <1>3, <1>4, <1>5

=============================================================================
