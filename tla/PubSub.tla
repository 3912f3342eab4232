------------------------------- MODULE PubSub -------------------------------
(***************************************************************************)
(* util.rs's PubSub: embassy-sync's PubSubChannel with a queue of one      *)
(* message (DATA_CAP), as the tasks of systems/ use it.  The channel is    *)
(* the last message and the subscribers that have not read it.  A          *)
(* subscriber that missed a message is told so (Lagged) and then reads the *)
(* next one in the same poll, so being behind is not a state of its own.   *)
(***************************************************************************)

\* A channel on which nothing is to be read.
Quiet(v) == [val |-> v, unread |-> {}]

\* DATA_CAP messages are in the queue until every subscriber has read them.
Full(c) == c.unread # {}

\* publish_immediate: an unread message is evicted.  publish and try_publish
\* do the same once the channel is not Full.
Publish(c, v, subs) == [val |-> v, unread |-> subs]

HasMessage(c, s) == s \in c.unread

\* next_message, and a subscriber that is dropped and subscribes again.
Read(c, s) == [c EXCEPT !.unread = @ \ {s}]
=============================================================================
