--------------------------- MODULE TopicPublisher ---------------------------
(***************************************************************************)
(* One published topic of a STRos node, from the end of the set-up of      *)
(* publisher_listener on: the application thread that calls publish() in   *)
(* the loop of the README and of test/ex_pub.c, the listener thread that   *)
(* accepts TCPROS connections, one publish_tcp_data thread per connection, *)
(* and the SIGINT handler stros_stop, which interrupts the application     *)
(* thread wherever it is.                                                  *)
(*                                                                         *)
(* The topic has ONE slot (data, data_ok) that all connections share.  Its *)
(* writers hold node_mux; the loops that wait for it and the code that     *)
(* reads it do not.  A step is one access to the shared state.             *)
(*                                                                         *)
(* A message is the number of the publish() call that stored it; 0 is the  *)
(* text create_publisher puts in the slot.  pub->status is left out: no    *)
(* code writes the status of a publisher after create_publisher.           *)
(***************************************************************************)
EXTENDS Naturals

CONSTANTS Conns,   \* the connections that may be accepted
          MaxMsg   \* bound: how many messages the application publishes

ASSUME PublisherAssumption == MaxMsg \in Nat

VARIABLES
  ros_ok,      \* the node's run flag
  node_mux,    \* "free", or "main": held by the application thread
  main,        \* where the application thread is
  data_ok,     \* TOPIC_DATA_OK ("OK") or TOPIC_DATA_NOK ("NOK")
  data,        \* the message in the slot
  listener,    \* where publisher_listener is in its loop
  conn,        \* where each connection's publish_tcp_data thread is
  loaded,      \* history: the message a connection loaded last
  copies       \* history: how often in a row it loaded that message

vars == <<ros_ok, node_mux, main, data_ok, data, listener, conn, loaded, copies>>
slot == <<data_ok, data>>
history == <<loaded, copies>>

TypeOK ==
  /\ ros_ok \in BOOLEAN
  /\ node_mux \in {"free", "main"}
  /\ main \in {"app", "locked", "flagged", "stored", "stopping", "exited"}
  /\ data_ok \in {"OK", "NOK"}
  /\ data \in Nat
  /\ listener \in {"test", "select", "closed"}
  /\ conn \in [Conns -> {"none", "handshake", "wait", "mark", "load", "done"}]
  /\ loaded \in [Conns -> Nat]
  /\ copies \in [Conns -> Nat]

Init ==
  /\ ros_ok = TRUE
  /\ node_mux = "free"
  /\ main = "app"
  /\ data_ok = "NOK"
  /\ data = 0
  /\ listener = "test"
  /\ conn = [c \in Conns |-> "none"]
  /\ loaded = [c \in Conns |-> 0]
  /\ copies = [c \in Conns |-> 0]

-----------------------------------------------------------------------------
(* The application thread: publish(), and stros_stop() on SIGINT.          *)

MainStep(from, to) == main = from /\ main' = to

\* Mutant: publish() forgets to take the mutex.
PublishLockUnlocked ==
  /\ MainStep("app", "locked")
  /\ data < MaxMsg
  /\ UNCHANGED <<ros_ok, node_mux, slot, listener, conn, history>>

\* The next publish() call takes the mutex.
PublishLock ==
  /\ MainStep("app", "locked")
  /\ data < MaxMsg
  /\ node_mux = "free"
  /\ node_mux' = "main"
  /\ UNCHANGED <<ros_ok, slot, listener, conn, history>>

PublishFlag ==
  /\ MainStep("locked", "flagged")
  /\ data_ok' = "OK"
  /\ UNCHANGED <<ros_ok, node_mux, data, listener, conn, history>>

PublishStore ==
  /\ MainStep("flagged", "stored")
  /\ data' = data + 1
  /\ UNCHANGED <<ros_ok, node_mux, data_ok, listener, conn, history>>

\* Mutant: publish() returns with the mutex held.
PublishReturnLocked ==
  /\ MainStep("stored", "app")
  /\ UNCHANGED <<ros_ok, node_mux, slot, listener, conn, history>>

PublishUnlock ==
  /\ MainStep("stored", "app")
  /\ node_mux' = "free"
  /\ UNCHANGED <<ros_ok, slot, listener, conn, history>>

\* SIGINT: stros_stop runs on top of whatever the thread was doing, holding
\* what it held, and makes its unregister calls.
Interrupt ==
  /\ main \in {"app", "locked", "flagged", "stored"}
  /\ main' = "stopping"
  /\ UNCHANGED <<ros_ok, node_mux, slot, listener, conn, history>>

\* stros_toggle(false), for which the handler needs node_mux itself, and
\* pthread_exit: the interrupted publish() is never resumed.
StopToggle ==
  /\ MainStep("stopping", "exited")
  /\ node_mux = "free"
  /\ ros_ok' = FALSE
  /\ UNCHANGED <<node_mux, slot, listener, conn, history>>

-----------------------------------------------------------------------------
(* publisher_listener: the loop around select() and accept().              *)

ListenerTest ==
  /\ listener = "test"
  /\ listener' = IF ros_ok THEN "select" ELSE "closed"
  /\ UNCHANGED <<ros_ok, node_mux, main, slot, conn, history>>

\* select() times out, or it, accept() or pthread_create() fails.
ListenerNone ==
  /\ listener = "select"
  /\ listener' = "test"
  /\ UNCHANGED <<ros_ok, node_mux, main, slot, conn, history>>

ListenerAccept(c) ==
  /\ listener = "select"
  /\ conn[c] = "none"
  /\ listener' = "test"
  /\ conn' = [conn EXCEPT ![c] = "handshake"]
  /\ UNCHANGED <<ros_ok, node_mux, main, slot, history>>

-----------------------------------------------------------------------------
(* publish_tcp_data: one thread per connection.                            *)

ConnStep(c, from, to) == conn[c] = from /\ conn' = [conn EXCEPT ![c] = to]

\* The subscriber's header is read and verified and the own one sent, or one
\* of these fails and the thread returns.
Handshake(c) ==
  /\ \E next \in {"wait", "done"} : ConnStep(c, "handshake", next)
  /\ UNCHANGED <<ros_ok, node_mux, main, slot, listener, history>>

\* Mutant: the wait for data does not look at stros_ok().
DataOnly == data_ok = "OK"

DataOrStop == data_ok = "OK" \/ ~ros_ok

LeaveSpin(c) ==
  /\ DataOrStop
  /\ ConnStep(c, "wait", "mark")
  /\ UNCHANGED <<ros_ok, node_mux, main, slot, listener, history>>

\* Mutant: the topic is marked with a constant of its status, TOPIC_DOWN.
MarkReadDown(c) ==
  /\ ConnStep(c, "mark", "load")
  /\ node_mux = "free"
  /\ data_ok' = "DOWN"
  /\ UNCHANGED <<ros_ok, node_mux, main, data, listener, history>>

\* Mutant: the topic is marked as read without the mutex.
MarkReadUnlocked(c) ==
  /\ ConnStep(c, "mark", "load")
  /\ data_ok' = "NOK"
  /\ UNCHANGED <<ros_ok, node_mux, main, data, listener, history>>

\* Mutant: the topic is not marked as read.
MarkReadForgotten(c) ==
  /\ ConnStep(c, "mark", "load")
  /\ node_mux = "free"
  /\ UNCHANGED <<ros_ok, node_mux, main, slot, listener, history>>

\* Nothing is read between lock and unlock, so the critical section is one
\* step, which waits for the mutex.
MarkRead(c) ==
  /\ ConnStep(c, "mark", "load")
  /\ node_mux = "free"
  /\ data_ok' = "NOK"
  /\ UNCHANGED <<ros_ok, node_mux, main, data, listener, history>>

\* tcp_send_string loads the data pointer, without the mutex, and sends; the
\* loop goes on if the send succeeded and the node still runs.
SendData(c) ==
  /\ \E sent \in BOOLEAN :
       ConnStep(c, "load", IF sent /\ ros_ok THEN "wait" ELSE "done")
  /\ loaded' = [loaded EXCEPT ![c] = data]
  /\ copies' = [copies EXCEPT ![c] = IF loaded[c] = data THEN @ + 1 ELSE 1]
  /\ UNCHANGED <<ros_ok, node_mux, main, slot, listener>>

-----------------------------------------------------------------------------

PublishSteps == PublishFlag \/ PublishStore \/ PublishUnlock
Application == PublishLock \/ PublishSteps \/ Interrupt \/ StopToggle
Listener == ListenerTest \/ ListenerNone \/ \E c \in Conns : ListenerAccept(c)
Connection(c) == Handshake(c) \/ LeaveSpin(c) \/ MarkRead(c) \/ SendData(c)

Next == Application \/ Listener \/ \E c \in Conns : Connection(c)

Spec == Init /\ [][Next]_vars

\* A publish() call or a handler that has begun runs on, and so do the
\* listener (its select() has a timeout) and the connection threads, whose
\* peers send a header and read, or close: the timeouts the listener puts on
\* their sockets cannot be relied on (select() on Linux uses them up).
\* Whether the application publishes again, SIGINT arrives or anybody
\* connects is left open.
Fairness ==
  /\ WF_vars(PublishSteps)
  /\ WF_vars(StopToggle)
  /\ WF_vars(Listener)
  /\ \A c \in Conns : WF_vars(Connection(c))

FairSpec == Spec /\ Fairness

-----------------------------------------------------------------------------
(* Properties that hold.                                                   *)

\* A message in the slot is never dropped unseen: while nobody is told of it
\* (data_ok is NOK), some connection has loaded it or has just marked the
\* topic as read and is about to load it.  publish() raises the flag before
\* the data and publish_tcp_data lowers it before it loads the data, so a
\* message that arrives between the two is sent or raises the flag again.
LatestTaken ==
  data_ok = "NOK" /\ data > 0 =>
    \E c \in Conns : loaded[c] = data \/ conn[c] = "load"

\* How often one connection sends the same message: twice while the node
\* runs (once for the previous flag, once for its own) and a third time
\* when stros_ok() turns false and the wait ends without data.
CopiesBounded ==
  \A c \in Conns : copies[c] <= IF ros_ok THEN 2 ELSE 3

\* While the node runs, the text create_publisher puts in the slot is never
\* sent: the flag is only up when publish() has stored a message.
NoPlaceholderWhileRunning ==
  ros_ok => \A c \in Conns : copies[c] > 0 => loaded[c] > 0

\* Once stros_ok() is false the listener and every connection thread end.
StopEndsThreads ==
  ~ros_ok ~> /\ listener = "closed"
             /\ \A c \in Conns : conn[c] \in {"none", "done"}

\* A raised flag is lowered as long as some connection waits for data,
\* unless the stop handler has interrupted the application.
FlagIsTaken ==
  data_ok = "OK" /\ (\E c \in Conns : conn[c] = "wait")
    ~> data_ok = "NOK" \/ main \in {"stopping", "exited"}

Topic == INSTANCE LatestValueTopic
           WITH latest <- data, sent <- loaded, times <- copies, running <- ros_ok

\* The slot, the flag and the mutex implement a topic that holds its latest
\* message: all a connection thread and publish() do to each other is that
\* the latest message is sent, at most twice, and nothing before the first.
ImplementsTopic == Topic!Spec

-----------------------------------------------------------------------------
(* Properties that the documents state and the code does not have.         *)

\* stros.h:54-58, of stros_stop: "stop all related threads, stop the node".
\* A handler that has begun gets the node stopped.
StopStopsNode == main = "stopping" ~> ~ros_ok
=============================================================================
