------------------------ MODULE TopicPublisherProofs ------------------------
(***************************************************************************)
(* Proofs about TopicPublisher for every set of connections and every      *)
(* MaxMsg: type correctness, the three safety invariants the run checks,   *)
(* none of which is inductive alone (IInv below is), and that the topic    *)
(* implements LatestValueTopic.                                            *)
(***************************************************************************)
EXTENDS TopicPublisher, TLAPS

\* Who holds node_mux, and when the flag is up for certain.  An interrupted
\* publish() leaves the mutex held while the handler runs.
MutexInv ==
  /\ main \in {"locked", "flagged", "stored"} => node_mux = "main"
  /\ main \in {"app", "exited"} => node_mux = "free"
  /\ main \in {"flagged", "stored"} => data_ok = "OK"
  /\ ros_ok <=> main # "exited"

\* The flag may be up for a message that is not stored yet (or, if the
\* handler interrupted publish() there, never will be).
Publishing ==
  \/ main \in {"locked", "flagged"}
  \/ main = "stopping" /\ node_mux = "main"

\* While the node runs, a thread that is past its wait has seen the flag of
\* a stored message.
FirstInv ==
  ros_ok => /\ data_ok = "OK" /\ ~Publishing => data > 0
            /\ \A c \in Conns :
                 /\ conn[c] = "mark" /\ ~Publishing => data > 0
                 /\ conn[c] = "load" => data > 0
                 /\ copies[c] > 0 => loaded[c] > 0

\* A connection that has sent the message in the slot twice cannot send it
\* again: it is not past its wait, and the flag is down.
TwiceInv(c) ==
  loaded[c] = data /\ copies[c] = 2 =>
    /\ conn[c] # "load"
    /\ ~Publishing => conn[c] # "mark" /\ data_ok = "NOK"

\* A thread about to load a message it has sent has lowered the flag.
LoweredInv(c) ==
  ~Publishing /\ conn[c] = "load" /\ loaded[c] = data => data_ok = "NOK"

CopiesInv ==
  \A c \in Conns :
    /\ loaded[c] <= data
    /\ ros_ok => copies[c] <= 2 /\ TwiceInv(c) /\ LoweredInv(c)
    /\ ~ros_ok => /\ copies[c] <= 3
                  /\ conn[c] # "done" => copies[c] <= 2

IInv == TypeOK /\ MutexInv /\ LatestTaken /\ FirstInv /\ CopiesInv

-----------------------------------------------------------------------------

\* The initial state satisfies the inductive invariant.
LEMMA InitInv == Init => IInv
BY PublisherAssumption
   DEF Init, IInv, TypeOK, MutexInv, LatestTaken, FirstInv, Publishing,
       CopiesInv, TwiceInv, LoweredInv

\* Every step keeps the variables in their types.
LEMMA TypeStep == ASSUME IInv, [Next]_vars PROVE TypeOK'
<1> USE DEF IInv, TypeOK
<1>1. CASE PublishLock
  BY <1>1 DEF PublishLock, MainStep, slot, history
<1>2. CASE PublishFlag
  BY <1>2 DEF PublishFlag, MainStep, slot, history
<1>3. CASE PublishStore
  BY <1>3 DEF PublishStore, MainStep, slot, history
<1>4. CASE PublishUnlock
  BY <1>4 DEF PublishUnlock, MainStep, slot, history
<1>5. CASE Interrupt
  BY <1>5 DEF Interrupt, MainStep, slot, history
<1>6. CASE StopToggle
  BY <1>6 DEF StopToggle, MainStep, slot, history
<1>7. CASE ListenerTest
  BY <1>7 DEF ListenerTest, MainStep, slot, history
<1>8. CASE ListenerNone
  BY <1>8 DEF ListenerNone, MainStep, slot, history
<1>9. ASSUME NEW c \in Conns, ListenerAccept(c)
      PROVE  TypeOK'
  BY <1>9 DEF ListenerAccept, MainStep, ConnStep, slot, history
<1>10. ASSUME NEW c \in Conns, Handshake(c)
      PROVE  TypeOK'
  BY <1>10 DEF Handshake, MainStep, ConnStep, slot, history
<1>11. ASSUME NEW c \in Conns, LeaveSpin(c)
      PROVE  TypeOK'
  BY <1>11 DEF LeaveSpin, MainStep, ConnStep, slot, history
<1>12. ASSUME NEW c \in Conns, MarkRead(c)
      PROVE  TypeOK'
  BY <1>12 DEF MarkRead, MainStep, ConnStep, slot, history
<1>13. ASSUME NEW c \in Conns, SendData(c)
      PROVE  TypeOK'
  BY <1>13 DEF SendData, MainStep, ConnStep, slot, history
<1>14. CASE UNCHANGED vars
  BY <1>14 DEF vars, MainStep, slot, history
<1>15. QED
  BY <1>1, <1>2, <1>3, <1>4, <1>5, <1>6, <1>7, <1>8, <1>9, <1>10, <1>11, <1>12, <1>13, <1>14
     DEF Next, Application, PublishSteps, Listener, Connection

\* Every step keeps the mutex, the flag and the application in agreement.
LEMMA MutexStep == ASSUME IInv, [Next]_vars PROVE MutexInv'
<1> USE DEF IInv, TypeOK, MutexInv
<1>1. CASE PublishLock
  BY <1>1 DEF PublishLock, MainStep, slot, history
<1>2. CASE PublishFlag
  BY <1>2 DEF PublishFlag, MainStep, slot, history
<1>3. CASE PublishStore
  BY <1>3 DEF PublishStore, MainStep, slot, history
<1>4. CASE PublishUnlock
  BY <1>4 DEF PublishUnlock, MainStep, slot, history
<1>5. CASE Interrupt
  BY <1>5 DEF Interrupt, MainStep, slot, history
<1>6. CASE StopToggle
  BY <1>6 DEF StopToggle, MainStep, slot, history
<1>7. CASE ListenerTest
  BY <1>7 DEF ListenerTest, MainStep, slot, history
<1>8. CASE ListenerNone
  BY <1>8 DEF ListenerNone, MainStep, slot, history
<1>9. ASSUME NEW c \in Conns, ListenerAccept(c)
      PROVE  MutexInv'
  BY <1>9 DEF ListenerAccept, MainStep, ConnStep, slot, history
<1>10. ASSUME NEW c \in Conns, Handshake(c)
      PROVE  MutexInv'
  BY <1>10 DEF Handshake, MainStep, ConnStep, slot, history
<1>11. ASSUME NEW c \in Conns, LeaveSpin(c)
      PROVE  MutexInv'
  BY <1>11 DEF LeaveSpin, MainStep, ConnStep, slot, history
<1>12. ASSUME NEW c \in Conns, MarkRead(c)
      PROVE  MutexInv'
  BY <1>12 DEF MarkRead, MainStep, ConnStep, slot, history
<1>13. ASSUME NEW c \in Conns, SendData(c)
      PROVE  MutexInv'
  BY <1>13 DEF SendData, MainStep, ConnStep, slot, history
<1>14. CASE UNCHANGED vars
  BY <1>14 DEF vars, MainStep, slot, history
<1>15. QED
  BY <1>1, <1>2, <1>3, <1>4, <1>5, <1>6, <1>7, <1>8, <1>9, <1>10, <1>11, <1>12, <1>13, <1>14
     DEF Next, Application, PublishSteps, Listener, Connection

\* Every step keeps the latest message from being dropped unseen.
LEMMA LatestStep == ASSUME IInv, [Next]_vars PROVE LatestTaken'
<1> USE DEF IInv, TypeOK, LatestTaken
<1>1. CASE PublishLock
  BY <1>1 DEF PublishLock, MutexInv, MainStep, slot, history
<1>2. CASE PublishFlag
  BY <1>2 DEF PublishFlag, MutexInv, MainStep, slot, history
<1>3. CASE PublishStore
  BY <1>3 DEF PublishStore, MutexInv, MainStep, slot, history
<1>4. CASE PublishUnlock
  BY <1>4 DEF PublishUnlock, MutexInv, MainStep, slot, history
<1>5. CASE Interrupt
  BY <1>5 DEF Interrupt, MutexInv, MainStep, slot, history
<1>6. CASE StopToggle
  BY <1>6 DEF StopToggle, MutexInv, MainStep, slot, history
<1>7. CASE ListenerTest
  BY <1>7 DEF ListenerTest, MutexInv, MainStep, slot, history
<1>8. CASE ListenerNone
  BY <1>8 DEF ListenerNone, MutexInv, MainStep, slot, history
<1>9. ASSUME NEW c \in Conns, ListenerAccept(c)
      PROVE  LatestTaken'
  BY <1>9 DEF ListenerAccept, ConnStep, slot, history
<1>10. ASSUME NEW c \in Conns, Handshake(c)
      PROVE  LatestTaken'
  BY <1>10 DEF Handshake, ConnStep, slot, history
<1>11. ASSUME NEW c \in Conns, LeaveSpin(c)
      PROVE  LatestTaken'
  BY <1>11 DEF LeaveSpin, ConnStep, slot, history
<1>12. ASSUME NEW c \in Conns, MarkRead(c)
      PROVE  LatestTaken'
  BY <1>12 DEF MarkRead, ConnStep, slot, history
<1>13. ASSUME NEW c \in Conns, SendData(c)
      PROVE  LatestTaken'
  BY <1>13 DEF SendData, ConnStep, slot, history
<1>14. CASE UNCHANGED vars
  BY <1>14 DEF vars, MutexInv, MainStep, slot, history
<1>15. QED
  BY <1>1, <1>2, <1>3, <1>4, <1>5, <1>6, <1>7, <1>8, <1>9, <1>10, <1>11, <1>12, <1>13, <1>14
     DEF Next, Application, PublishSteps, Listener, Connection

\* Every step keeps the placeholder from being sent by a running node.
LEMMA FirstStep == ASSUME IInv, [Next]_vars PROVE FirstInv'
<1> USE DEF IInv, TypeOK, MutexInv, FirstInv, Publishing
<1>1. CASE PublishLock
  BY <1>1 DEF PublishLock, MainStep, slot, history
<1>2. CASE PublishFlag
  BY <1>2 DEF PublishFlag, MainStep, slot, history
<1>3. CASE PublishStore
  BY <1>3 DEF PublishStore, MainStep, slot, history
<1>4. CASE PublishUnlock
  BY <1>4 DEF PublishUnlock, MainStep, slot, history
<1>5. CASE Interrupt
  BY <1>5 DEF Interrupt, MainStep, slot, history
<1>6. CASE StopToggle
  BY <1>6 DEF StopToggle, MainStep, slot, history
<1>7. CASE ListenerTest
  BY <1>7 DEF ListenerTest, MainStep, slot, history
<1>8. CASE ListenerNone
  BY <1>8 DEF ListenerNone, MainStep, slot, history
<1>9. ASSUME NEW c \in Conns, ListenerAccept(c)
      PROVE  FirstInv'
  BY <1>9 DEF ListenerAccept, ConnStep, DataOrStop, slot, history
<1>10. ASSUME NEW c \in Conns, Handshake(c)
      PROVE  FirstInv'
  BY <1>10 DEF Handshake, ConnStep, DataOrStop, slot, history
<1>11. ASSUME NEW c \in Conns, LeaveSpin(c)
      PROVE  FirstInv'
  BY <1>11 DEF LeaveSpin, ConnStep, DataOrStop, slot, history
<1>12. ASSUME NEW c \in Conns, MarkRead(c)
      PROVE  FirstInv'
  BY <1>12 DEF MarkRead, ConnStep, DataOrStop, slot, history
<1>13. ASSUME NEW c \in Conns, SendData(c)
      PROVE  FirstInv'
  BY <1>13 DEF SendData, ConnStep, DataOrStop, slot, history
<1>14. CASE UNCHANGED vars
  BY <1>14 DEF vars, MainStep, slot, history
<1>15. QED
  BY <1>1, <1>2, <1>3, <1>4, <1>5, <1>6, <1>7, <1>8, <1>9, <1>10, <1>11, <1>12, <1>13, <1>14
     DEF Next, Application, PublishSteps, Listener, Connection

\* Every step keeps the bound on the copies a connection sends.
LEMMA CopiesStep == ASSUME IInv, [Next]_vars PROVE CopiesInv'
<1> USE DEF IInv, TypeOK, MutexInv, CopiesInv, TwiceInv, LoweredInv, Publishing
<1>1. CASE PublishLock
  BY <1>1 DEF PublishLock, MainStep, slot, history
<1>2. CASE PublishFlag
  BY <1>2 DEF PublishFlag, MainStep, slot, history
<1>3. CASE PublishStore
  BY <1>3 DEF PublishStore, MainStep, slot, history
<1>4. CASE PublishUnlock
  BY <1>4 DEF PublishUnlock, MainStep, slot, history
<1>5. CASE Interrupt
  BY <1>5 DEF Interrupt, MainStep, slot, history
<1>6. CASE StopToggle
  BY <1>6 DEF StopToggle, MainStep, slot, history
<1>7. CASE ListenerTest
  BY <1>7 DEF ListenerTest, MainStep, slot, history
<1>8. CASE ListenerNone
  BY <1>8 DEF ListenerNone, MainStep, slot, history
<1>9. ASSUME NEW c \in Conns, ListenerAccept(c)
      PROVE  CopiesInv'
  BY <1>9 DEF ListenerAccept, ConnStep, DataOrStop, slot, history
<1>10. ASSUME NEW c \in Conns, Handshake(c)
      PROVE  CopiesInv'
  BY <1>10 DEF Handshake, ConnStep, DataOrStop, slot, history
<1>11. ASSUME NEW c \in Conns, LeaveSpin(c)
      PROVE  CopiesInv'
  BY <1>11 DEF LeaveSpin, ConnStep, DataOrStop, slot, history
<1>12. ASSUME NEW c \in Conns, MarkRead(c)
      PROVE  CopiesInv'
  BY <1>12 DEF MarkRead, ConnStep, DataOrStop, slot, history
<1>13. ASSUME NEW c \in Conns, SendData(c)
      PROVE  CopiesInv'
  BY <1>13 DEF SendData, ConnStep, DataOrStop, slot, history
<1>14. CASE UNCHANGED vars
  BY <1>14 DEF vars, MainStep, slot, history
<1>15. QED
  BY <1>1, <1>2, <1>3, <1>4, <1>5, <1>6, <1>7, <1>8, <1>9, <1>10, <1>11, <1>12, <1>13, <1>14
     DEF Next, Application, PublishSteps, Listener, Connection

\* The inductive invariant holds throughout.
LEMMA InductiveInvariant == Spec => []IInv
<1>1. IInv /\ [Next]_vars => IInv'
  BY TypeStep, MutexStep, LatestStep, FirstStep, CopiesStep DEF IInv
<1>2. QED
  BY InitInv, <1>1, PTL DEF Spec

-----------------------------------------------------------------------------

\* The variables of a published topic keep their types, for any number of
\* connections and messages.
THEOREM TypeCorrect == Spec => []TypeOK
<1>1. IInv => TypeOK
  BY DEF IInv
<1>2. QED
  BY InductiveInvariant, <1>1, PTL

\* publish() and publish_tcp_data between them never drop the message in the
\* slot before some connection has loaded it.
THEOREM LatestNeverDropped == Spec => []LatestTaken
<1>1. IInv => LatestTaken
  BY DEF IInv
<1>2. QED
  BY InductiveInvariant, <1>1, PTL

\* A connection sends a message at most twice, and once more at the stop.
THEOREM CopiesAreBounded == Spec => []CopiesBounded
<1>1. IInv => CopiesBounded
  BY DEF IInv, TypeOK, CopiesInv, CopiesBounded
<1>2. QED
  BY InductiveInvariant, <1>1, PTL

\* A running node sends nothing the application has not published.
THEOREM NoPlaceholderSent == Spec => []NoPlaceholderWhileRunning
<1>1. IInv => NoPlaceholderWhileRunning
  BY DEF IInv, FirstInv, NoPlaceholderWhileRunning
<1>2. QED
  BY InductiveInvariant, <1>1, PTL

-----------------------------------------------------------------------------
(* The refinement.                                                         *)

\* The load of a connection is a Send of the abstract topic: the invariant
\* of the next state bounds its copies, that of this one its first message.
LEMMA SendDataIsSend ==
  ASSUME IInv, IInv', NEW c \in Conns, SendData(c)
  PROVE  Topic!Send(c)
<1>1. ros_ok => data > 0
  BY DEF IInv, FirstInv, SendData, ConnStep
<1>2. loaded[c] = data => copies[c] < IF ros_ok THEN 2 ELSE 3
  <2>1. SUFFICES ASSUME loaded[c] = data
                 PROVE  copies[c] < IF ros_ok THEN 2 ELSE 3
    OBVIOUS
  <2>2. copies \in [Conns -> Nat] /\ copies'[c] = copies[c] + 1
    BY <2>1 DEF IInv, TypeOK, SendData
  <2>3. copies'[c] <= IF ros_ok THEN 2 ELSE 3
    BY DEF IInv, CopiesInv, SendData
  <2>4. QED
    BY <2>2, <2>3
<1>3. QED
  BY <1>1, <1>2 DEF Topic!Send, Topic!Allowed, SendData, slot

\* Every step of the topic is a step of the abstract one or leaves it alone.
LEMMA TopicStep == IInv /\ IInv' /\ [Next]_vars => [Topic!Next]_(Topic!state)
<1> SUFFICES ASSUME IInv, IInv', [Next]_vars
             PROVE  [Topic!Next]_(Topic!state)
  OBVIOUS
<1> USE DEF Topic!Next, Topic!state
<1>1. CASE PublishStore
  BY <1>1 DEF PublishStore, MainStep, Topic!Publish, IInv, MutexInv, history
<1>2. CASE StopToggle
  BY <1>2 DEF StopToggle, MainStep, Topic!Stop, IInv, MutexInv, slot, history
<1>3. ASSUME NEW c \in Conns, SendData(c)
      PROVE  [Topic!Next]_(Topic!state)
  BY <1>3, SendDataIsSend
<1>4. CASE PublishLock \/ PublishFlag \/ PublishUnlock \/ Interrupt
  BY <1>4 DEF PublishLock, PublishFlag, PublishUnlock, Interrupt, MainStep, slot, history
<1>5. CASE Listener
  BY <1>5 DEF Listener, ListenerTest, ListenerNone, ListenerAccept, slot, history
<1>6. ASSUME NEW c \in Conns, Handshake(c) \/ LeaveSpin(c) \/ MarkRead(c)
      PROVE  [Topic!Next]_(Topic!state)
  BY <1>6 DEF Handshake, LeaveSpin, MarkRead, slot, history
<1>7. CASE UNCHANGED vars
  BY <1>7 DEF vars
<1>8. QED
  BY <1>1, <1>2, <1>3, <1>4, <1>5, <1>6, <1>7
     DEF Next, Application, PublishSteps, Connection

\* For any number of connections and messages, the slot with its flag and
\* mutex implements a topic that holds its latest message.
THEOREM Refinement == Spec => ImplementsTopic
<1>1. Init => Topic!Init
  BY DEF Init, Topic!Init
<1>2. QED
  BY <1>1, TopicStep, InductiveInvariant, PTL DEF Spec, ImplementsTopic, Topic!Spec
=============================================================================
