-------------------------- MODULE TopicSubscription --------------------------
(***************************************************************************)
(* The thread TopicMessageQuery::subscribe starts (startSubscription): one  *)
(* asynchronous call to a mirror node at a time, a completion queue polled  *)
(* with a growing timeout, one buffer the messages are read into, the       *)
(* chunks collected so far, and a new call when one ends with an error that *)
(* may be retried.  The application's thread may unsubscribe meanwhile, and *)
(* the mirror node's stream may break between any two events.               *)
(*                                                                          *)
(* A message of the topic is its position, which is also its consensus      *)
(* timestamp.  The query has an end time after the last message: a stream   *)
(* that reaches it ends with OK.                                            *)
(***************************************************************************)
EXTENDS Naturals, Sequences, FiniteSets, Functions

CONSTANTS
    Topic,          \* the messages: the transaction they are chunks of, and its number of chunks
    Limits,         \* the limits the application may set; 0 asks for none
    Errors,         \* the codes a broken stream may end with
    MaxAttempts,    \* mMaxAttempts
    MinBackoff,     \* DEFAULT_MIN_BACKOFF
    MaxBackoff      \* mMaxBackoff

ASSUME TopicAssumption == Topic \in Seq([initial : Nat, total : Nat \ {0}])
ASSUME SubscriptionAssumption ==
    /\ Limits \subseteq Nat
    /\ Errors \subseteq STRING \ {"OK"} /\ Errors # {}
    /\ MaxAttempts \in Nat
    /\ MinBackoff \in Nat \ {0} /\ MaxBackoff \in Nat /\ MinBackoff <= MaxBackoff

VARIABLES
    thread,       \* "starting", "polling", "sleeping" before a retry, "returned", or "crashed"
    mQuery,       \* the limit in the application's TopicMessageQuery
    query,        \* the thread's copy of the query: its start time and its limit
    callStatus,   \* callStatus
    operation,    \* what was started and has not come out of the completion queue
    closed,       \* was the completion queue shut down?
    response,     \* the message in the buffer, 0 while nothing was read into it
    pendingMessages, \* the chunks received of each transaction
    handed,       \* what onNext was called with: the chunks of each message
    handlers,     \* which of completionHandler and errorHandler were called
    complete,     \* complete
    attempt,      \* attempt
    backoff,      \* backoff
    stream,       \* the mirror node's side of the current call
    resumed       \* history: what was in the buffer whenever a call was made again

callVars == <<callStatus, operation, closed, stream>>
deliveryVars == <<query, response, pendingMessages, handed>>
endVars == <<handlers, complete>>
vars == <<thread, mQuery, callVars, deliveryVars, endVars, attempt, backoff, resumed>>

-----------------------------------------------------------------------------
Positions == 1..Len(Topic)
Transactions == {Topic[i].initial : i \in Positions}

(* The chunks of one message.                                                                      *)
ChunksOf(t) == {i \in Positions : Topic[i].initial = t}

(* ChunkedTransaction counts the chunks of a message and the network takes each of them once: a    *)
(* topic holds no more of them than every one says.  Some may never have been sent.                *)
ASSUME ChunkAssumption ==
    \A i \in Positions : Cardinality(ChunksOf(Topic[i].initial)) <= Topic[i].total

(* The messages sent whole, and the buffer nothing was read into.                                  *)
IsSingle(i) == IF i = 0 THEN TRUE ELSE Topic[i].total = 1
Newest(chunks) == chunks[Len(chunks)]

(* The mirror node streams the messages from the start time on, as many as the limit says.         *)
NewStream(q) == [next |-> IF q.start = 0 THEN 1 ELSE q.start,
                 left |-> q.limit, limited |-> q.limit > 0,
                 broken |-> FALSE, cancelled |-> FALSE]
Exhausted(s) == s.next > Len(Topic) \/ (s.limited /\ s.left = 0)
CanRead(s) == ~s.broken /\ ~s.cancelled /\ ~Exhausted(s)
FinalStatuses(s) ==
    IF s.broken THEN Errors
    ELSE (IF s.cancelled THEN {"CANCELLED"} ELSE {}) \cup (IF Exhausted(s) THEN {"OK"} ELSE {})

(* mRetryHandler, as it is unless the application sets another.                                    *)
RetryHandler(status) == status \in {"NOT_FOUND", "RESOURCE_EXHAUSTED", "UNAVAILABLE", "INTERNAL"}

Longer == IF backoff * 2 > MaxBackoff THEN MaxBackoff ELSE backoff * 2
Shorter == IF backoff \div 2 < MinBackoff THEN MinBackoff ELSE backoff \div 2

-----------------------------------------------------------------------------
(* TopicMessageQuery::subscribe sends the query before the thread exists; only the thread sets the *)
(* handle's function.                                                                              *)
Init ==
    /\ thread = "starting"
    /\ \E limit \in Limits :
          /\ mQuery = [start |-> 0, limit |-> limit]
          /\ query = mQuery
          /\ stream = NewStream(query)
    /\ callStatus = "CREATE" /\ operation = "create" /\ closed = FALSE
    /\ response = 0
    /\ pendingMessages = [t \in Transactions |-> <<>>]
    /\ handed = <<>>
    /\ handlers = <<>> /\ complete = FALSE
    /\ attempt = 0 /\ backoff = MinBackoff
    /\ resumed = {}

SetOnUnsubscribe ==
    /\ thread = "starting"
    /\ thread' = "polling"
    /\ UNCHANGED <<mQuery, callVars, deliveryVars, endVars, attempt, backoff, resumed>>

(* SubscriptionHandle::unsubscribe, on the application's thread: contexts.back()->TryCancel().     *)
(* Called before the thread has set the function, it throws and changes nothing.                   *)
Unsubscribe ==
    /\ thread \in {"polling", "sleeping"}
    /\ stream' = [stream EXCEPT !.cancelled = TRUE]
    /\ UNCHANGED <<thread, mQuery, callStatus, operation, closed, deliveryVars, endVars, attempt, backoff,
                   resumed>>

(* The function refers to the thread's contexts, and the handle's destructor calls it at the       *)
(* latest: after the thread returned they are gone, so that it does nothing or crashes.            *)
UnsubscribeLate ==
    /\ thread = "returned"
    /\ thread' \in {"returned", "crashed"}
    /\ UNCHANGED <<mQuery, callVars, deliveryVars, endVars, attempt, backoff, resumed>>

(* The connection to the mirror node is lost.                                                      *)
Break ==
    /\ operation # "none" /\ ~stream.broken
    /\ stream' = [stream EXCEPT !.broken = TRUE]
    /\ UNCHANGED <<thread, mQuery, callStatus, operation, closed, deliveryVars, endVars, attempt, backoff,
                   resumed>>

-----------------------------------------------------------------------------
(* What the thread does with the buffer once it has started the next read into it.  onNext gets    *)
(* a message that came whole, or all chunks received of one when there are as many as it has.      *)
(* Mutants: the next call starts one message too late, or where the first one did.                 *)
ResumeLate(r) == IF r = 0 THEN query.start ELSE r + 2
ResumeNowhere(r) == query.start

(* The comment says that a tick is added; a duration that is not given a value has none.           *)
Resume(r) == IF r = 0 THEN query.start ELSE r

(* Mutant: one chunk too few.                                                                      *)
AlmostAllReceived(chunks, r) == Len(chunks) + 1 = Topic[r].total

AllReceived(chunks, r) == Len(chunks) = Topic[r].total

Process(r) ==
    /\ query' = [start |-> Resume(r),
                 limit |-> IF query.limit > 0 THEN query.limit - 1 ELSE 0]
    /\ \/ /\ IsSingle(r)
          /\ handed' = Append(handed, <<r>>)
          /\ UNCHANGED pendingMessages
       \/ /\ ~IsSingle(r)
          /\ LET t == Topic[r].initial
                 received == Append(pendingMessages[t], r)
             IN  /\ pendingMessages' = [pendingMessages EXCEPT ![t] = received]
                 /\ handed' = IF AllReceived(received, r) THEN Append(handed, received) ELSE handed

(* The call is established: the first read is started, and the buffer processed as it is.          *)
CallCreated ==
    /\ operation = "create" /\ ~stream.broken /\ ~stream.cancelled
    /\ callStatus' = "PROCESSING"
    /\ operation' = "read"
    /\ Process(response)
    /\ UNCHANGED <<closed, stream, response, endVars>>

MessageRead ==
    /\ operation = "read" /\ CanRead(stream)
    /\ response' = stream.next
    /\ stream' = [stream EXCEPT !.next = @ + 1, !.left = IF stream.limited THEN @ - 1 ELSE @]
    /\ Process(response')
    /\ UNCHANGED <<callStatus, operation, closed, endVars>>

(* The call could not be made, or there is nothing more to read.                                   *)
StartFinish ==
    /\ \/ operation = "create" /\ (stream.broken \/ stream.cancelled)
       \/ operation = "read" /\ ~CanRead(stream)
    /\ callStatus' = "FINISH" /\ operation' = "finish"
    /\ UNCHANGED <<closed, stream, deliveryVars, endVars>>

(* Mutant: an error is reported whether it is retried or not.                                      *)
FinishedReportingAll ==
    /\ operation = "finish"
    /\ operation' = "none" /\ closed' = TRUE
    /\ \E status \in FinalStatuses(stream) :
          \/ /\ status = "OK"
             /\ handlers' = Append(handlers, "completionHandler")
             /\ complete' = TRUE
             /\ UNCHANGED stream
          \/ /\ status # "OK"
             /\ stream' = [stream EXCEPT !.cancelled = TRUE]
             /\ complete' = (attempt >= MaxAttempts \/ ~RetryHandler(status))
             /\ handlers' = Append(handlers, "errorHandler")
    /\ UNCHANGED <<callStatus, deliveryVars>>

Finished ==
    /\ operation = "finish"
    /\ operation' = "none" /\ closed' = TRUE
    /\ \E status \in FinalStatuses(stream) :
          \/ /\ status = "OK"
             /\ handlers' = Append(handlers, "completionHandler")
             /\ complete' = TRUE
             /\ UNCHANGED stream
          \/ /\ status # "OK"
             /\ stream' = [stream EXCEPT !.cancelled = TRUE]
             /\ complete' = (attempt >= MaxAttempts \/ ~RetryHandler(status))
             /\ handlers' = IF complete' THEN Append(handlers, "errorHandler") ELSE handlers
    /\ UNCHANGED <<callStatus, deliveryVars>>

(* AsyncNext returns GOT_EVENT.                                                                    *)
GotEvent ==
    /\ thread = "polling"
    /\ CallCreated \/ MessageRead \/ StartFinish \/ Finished
    /\ backoff' = Shorter
    /\ UNCHANGED <<thread, mQuery, attempt, resumed>>

(* AsyncNext returns TIMEOUT: nothing came out of the queue.                                       *)
Timeout ==
    /\ thread = "polling" /\ ~closed
    /\ backoff' = Longer
    /\ UNCHANGED <<thread, mQuery, callVars, deliveryVars, endVars, attempt, resumed>>

(* Mutant: the loop goes on after the end.                                                         *)
ShutdownPolling ==
    /\ thread = "polling" /\ closed
    /\ \/ complete /\ UNCHANGED <<thread, backoff, attempt>>
       \/ ~complete /\ thread' = "sleeping" /\ backoff' = Longer /\ attempt' = attempt + 1
    /\ UNCHANGED <<mQuery, callVars, deliveryVars, endVars, resumed>>

(* AsyncNext returns SHUTDOWN: the queue is empty and closed.                                      *)
Shutdown ==
    /\ thread = "polling" /\ closed
    /\ \/ complete /\ thread' = "returned" /\ UNCHANGED <<backoff, attempt>>
       \/ ~complete /\ thread' = "sleeping" /\ backoff' = Longer /\ attempt' = attempt + 1
    /\ UNCHANGED <<mQuery, callVars, deliveryVars, endVars, resumed>>

(* A new context, a new queue and a new call, once a mirror node connects.                         *)
Resubscribe ==
    /\ thread = "sleeping"
    /\ thread' = "polling"
    /\ callStatus' = "CREATE" /\ operation' = "create" /\ closed' = FALSE
    /\ stream' = NewStream(query)
    /\ resumed' = resumed \cup {response}
    /\ UNCHANGED <<mQuery, deliveryVars, endVars, attempt, backoff>>

(* AsyncNext is called again and again until the thread returns.                                   *)
ThreadStep == SetOnUnsubscribe \/ GotEvent \/ Timeout \/ Shutdown \/ Resubscribe

Ended == thread \in {"returned", "crashed"} /\ UNCHANGED vars

Next == ThreadStep \/ Unsubscribe \/ UnsubscribeLate \/ Break \/ Ended

Spec == Init /\ [][Next]_vars

(* The operating system schedules the thread, and gRPC completes every operation: the stream has   *)
(* an end time, and a mirror node that can be connected to is found.                               *)
Progress == SetOnUnsubscribe \/ GotEvent \/ Shutdown \/ Resubscribe
FairSpec == Spec /\ WF_vars(Progress)

-----------------------------------------------------------------------------
TypeOK ==
    /\ thread \in {"starting", "polling", "sleeping", "returned", "crashed"}
    /\ mQuery \in [start : {0}, limit : Limits]
    /\ query \in [start : Nat, limit : Nat]
    /\ callStatus \in {"CREATE", "PROCESSING", "FINISH"}
    /\ operation \in {"create", "read", "finish", "none"}
    /\ closed \in BOOLEAN /\ complete \in BOOLEAN
    /\ response \in 0..Len(Topic) /\ resumed \subseteq 0..Len(Topic)
    /\ pendingMessages \in [Transactions -> Seq(Positions)]
    /\ handed \in Seq(Seq(0..Len(Topic)))
    /\ handlers \in Seq({"completionHandler", "errorHandler"})
    /\ attempt \in 0..MaxAttempts
    /\ backoff \in MinBackoff..MaxBackoff
    /\ stream \in [next : Nat, left : Nat, limited : BOOLEAN, broken : BOOLEAN, cancelled : BOOLEAN]

(* What onNext was called with is a whole message: all its chunks, in their order.                 *)
Whole(chunks, t) ==
    /\ Range(chunks) = ChunksOf(t)
    /\ \A i, j \in DOMAIN chunks : i < j => chunks[i] < chunks[j]

(* The messages the topic holds whole, by their last chunk; those onNext was given; and those a     *)
(* call was made again in the middle of: the chunk in the buffer is collected twice then.           *)
Messages == {m \in Positions : LET chunks == ChunksOf(Topic[m].initial)
                               IN  chunks \subseteq 1..m /\ Cardinality(chunks) = Topic[m].total}
Given == {m \in Messages : \E k \in DOMAIN handed : Whole(handed[k], Topic[m].initial)}
Missed == {m \in Messages : \E c \in ChunksOf(Topic[m].initial) : c < m /\ c \in resumed}

(* Every message received to its end is given to onNext whole, unless a call was made again in the *)
(* middle of it: a break before its first chunk, after its last or anywhere in the topic between   *)
(* its chunks loses nothing.                                                                       *)
GivenUnlessCut == {m \in Messages : m <= response} \subseteq Given \cup Missed

(* Of the messages no call was made again upon, onNext gets none twice, none with a chunk missing  *)
(* or out of place, and no later one before an earlier.  Before the first of all it gets the       *)
(* buffer nothing was read into.                                                                   *)
Untouched(chunks) == Range(chunks) \cap resumed = {}
OnceUnlessResumed ==
    \A k \in DOMAIN handed : Untouched(handed[k]) =>
        /\ handed[k] = <<0>> \/ \E t \in Transactions : Whole(handed[k], t)
        /\ \A j \in DOMAIN handed : j < k /\ Untouched(handed[j]) => Newest(handed[j]) < Newest(handed[k])

(* One of the two handlers is called, once, and only when the thread is about to return.           *)
OneHandler ==
    /\ Len(handlers) = IF complete THEN 1 ELSE 0
    /\ thread \in {"returned", "crashed"} => complete

(* The subscription implements TopicReader: whatever breaks and is retried, whole messages are     *)
(* given in their order, no call but one made again in the middle of a message misses it, and the  *)
(* completion handler is called only when the application was given all else it asked for.         *)
Ending == IF ~complete THEN "open" ELSE IF handlers[1] = "completionHandler" THEN "completed" ELSE "failed"
Reader == INSTANCE TopicReader WITH
    limit <- mQuery.limit, given <- Given, missed <- Missed, resumed <- resumed # {}, ending <- Ending
ReadsTopic == Reader!Spec

(* "You will receive all messages for the specified topic or within the defined start and end      *)
(* time" (TopicMessageQuery.h:43): a subscription without a limit that completes has given onNext  *)
(* every message the topic holds whole.  The code does not keep it.                                *)
AllMessagesGiven == Ending = "completed" /\ mQuery.limit = 0 => Messages \subseteq Given

(* The subscription ends.                                                                          *)
Termination == <>(thread = "returned")
=============================================================================
