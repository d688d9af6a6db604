----------------------------- MODULE TopicReader -----------------------------
(* What a subscription promises.  A message is the position of its last chunk.  The application is *)
(* given whole messages in their order, and misses one only when a call was made again in the      *)
(* middle of it.  Within the first call it is given none beyond its limit.  The end is reported    *)
(* once, as a completion only when all it asked for was given, but for the messages missed; a      *)
(* limit binds nothing any more once a call was made again.  Being given a message again is no     *)
(* step.                                                                                           *)
EXTENDS Naturals

CONSTANTS Messages   \* the messages the topic holds whole

VARIABLES
    limit,      \* how many chunks the application asked for, 0 for all
    given,      \* the messages the application was given
    missed,     \* those in the middle of which a call was made again
    resumed,    \* was a call made again?
    ending      \* "open", "completed" or "failed"

Init == limit \in Nat /\ given = {} /\ missed = {} /\ resumed = FALSE /\ ending = "open"

Give(m) ==
    /\ ending = "open"
    /\ m \notin given
    /\ {n \in Messages : n < m} \subseteq given \cup missed
    /\ ~resumed /\ limit > 0 => m <= limit
    /\ given' = given \cup {m}
    /\ UNCHANGED <<limit, missed, resumed, ending>>

Resume ==
    /\ ending = "open"
    /\ resumed' = TRUE
    /\ missed' = missed \/ \E m \in Messages \ given : missed' = missed \cup {m}
    /\ UNCHANGED <<limit, given, ending>>

Asked == IF limit = 0 THEN Messages ELSE IF resumed THEN {} ELSE {m \in Messages : m <= limit}

Complete ==
    /\ ending = "open"
    /\ Asked \subseteq given \cup missed
    /\ ending' = "completed"
    /\ UNCHANGED <<limit, given, missed, resumed>>

Fail ==
    /\ ending = "open"
    /\ ending' = "failed"
    /\ UNCHANGED <<limit, given, missed, resumed>>

Next == (\E m \in Messages : Give(m)) \/ Resume \/ Complete \/ Fail
Spec == Init /\ [][Next]_<<limit, given, missed, resumed, ending>>
==============================================================================
