------------------------- MODULE MCTopicSubscription -------------------------
(* An instance of TopicSubscription for TLC: a message of two chunks with a whole one in between.  *)
EXTENDS TopicSubscription

Chunk(t, n) == [initial |-> t, total |-> n]
Interleaved == <<Chunk(1, 2), Chunk(2, 1), Chunk(1, 2), Chunk(3, 1)>>
==============================================================================
