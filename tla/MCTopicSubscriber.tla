------------------------- MODULE MCTopicSubscriber -------------------------
(* Small instances of TopicSubscriber for TLC. *)
EXTENDS TopicSubscriber

\* The topic has no publisher at first, and once more later.
EmptyAtTwo == {0, 2}
EmptyAtThree == {0, 3}
=============================================================================
