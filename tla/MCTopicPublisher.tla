-------------------------- MODULE MCTopicPublisher --------------------------
(* Small instances of TopicPublisher for TLC. *)
EXTENDS TopicPublisher
=============================================================================
