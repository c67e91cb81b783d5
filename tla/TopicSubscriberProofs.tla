----------------------- MODULE TopicSubscriberProofs -----------------------
(***************************************************************************)
(* Proofs about TopicSubscriber for every number of list changes and every *)
(* choice of the empty lists: type correctness and the four safety         *)
(* invariants the runs check.                                              *)
(***************************************************************************)
EXTENDS TopicSubscriber, TLAPS

\* extract_url holds the mutex from its first store to its last, and what it
\* has stored so far is of the list it applies; the main thread has not
\* called it while it registers.
WriterInv ==
  /\ \A t \in Writers :
       /\ extract[t] \in {"port", "status"} => node_mux = t /\ uri = arg[t]
       /\ extract[t] = "status" => port = arg[t]
       /\ node_mux = t => extract[t] \in {"port", "status"}
  /\ node_mux = "free" => uri = port
  /\ main = "register" => extract["main"] = "idle"

\* What the listener has loaded for its request is the topic's address,
\* unless an update is half way or has landed since.
AskInv ==
  ~raced /\ ~Updating =>
    /\ listener \in {"loadPort", "request", "active"} => ask_uri = uri
    /\ listener \in {"loadUri", "request", "active"} => ask_port = port

\* A late callback is the last of its connection.
LateInv ==
  /\ listener = "recv" => late = 0
  /\ listener = "check" /\ late > 0 => status # "ACTIVE" \/ ~ros_ok
  /\ late <= 1

\* The main thread has applied the list of the reply, or is about to finish.
ReplyApplied ==
  \/ main = "extract" /\ extract["main"] # "begin"
  \/ main = "spin" /\ listener # "none"

\* A worker applies the last list delivered; when none is at work, the last
\* store was its, or the main thread's.
LastInv ==
  /\ main = "register" => extract["worker"] = "idle"
  /\ main \in {"register", "extract"} => listener = "none"
  /\ extract["worker"] # "idle" => arg["worker"] = delivered
  /\ extract["worker"] = "idle" /\ ReplyApplied => uri \in {delivered, arg["main"]}

IInv ==
  TypeOK /\ WriterInv /\ AskInv /\ StaleOnlyByRace /\ LateInv /\ LastInv

-----------------------------------------------------------------------------

\* The initial state satisfies the inductive invariant.
LEMMA InitInv == Init => IInv
<1> SUFFICES ASSUME Init PROVE IInv
  OBVIOUS
<1> USE DEF Init
<1>1. TypeOK
  <2>1. 0 \in Lists
    BY SubscriberAssumption DEF Lists
  <2>2. extract \in [Writers -> {"idle", "begin", "port", "status"}]
    OBVIOUS
  <2>3. arg \in [Writers -> Lists]
    BY <2>1
  <2>4. {master, delivered, uri, port, ask_uri, ask_port, ep} \subseteq Lists
    BY <2>1
  <2>5. late \in 0..2 /\ node_mux \in {"free"} \cup Writers
    OBVIOUS
  <2>6. QED
    BY <2>2, <2>3, <2>4, <2>5 DEF TypeOK
<1>2. WriterInv
  BY DEF WriterInv, Writers
<1>3. AskInv /\ StaleOnlyByRace /\ LateInv
  BY DEF AskInv, StaleOnlyByRace, LateInv
<1>4. LastInv
  BY DEF LastInv, ReplyApplied, Writers
<1>5. QED
  BY <1>1, <1>2, <1>3, <1>4 DEF IInv

\* Every step keeps the variables in their types.
LEMMA TypeStep == ASSUME IInv, [Next]_vars PROVE TypeOK'
<1> USE DEF IInv, TypeOK, Lists, Writers, mainVars, topicVars, askVars
<1>1. CASE MasterChange
  BY <1>1, SubscriberAssumption DEF MasterChange
<1>2. CASE Register
  BY <1>2 DEF Register
<1>3. CASE \/ CreateListener \/ Interrupt \/ StopToggle
           \/ UNCHANGED vars
  BY <1>3 DEF CreateListener, Interrupt, StopToggle, vars
<1>4. CASE PublisherUpdate
  BY <1>4, SubscriberAssumption DEF PublisherUpdate
<1>5. ASSUME NEW t \in Writers, ExtractUri(t)
      PROVE  TypeOK'
  BY <1>5 DEF ExtractUri, ExtractStep
<1>6. ASSUME NEW t \in Writers, ExtractPort(t)
      PROVE  TypeOK'
  BY <1>6 DEF ExtractPort, ExtractStep
<1>7. ASSUME NEW t \in Writers, ExtractStatus(t)
      PROVE  TypeOK'
  BY <1>7 DEF ExtractStatus, ExtractStep, StaleAsk
<1>8. CASE \/ TestRunning \/ TestUri \/ TestStatus
  BY <1>8 DEF TestRunning, ListenerStep, TestUri, TestStatus
<1>9. CASE LoadUri
  BY <1>9 DEF LoadUri, ListenerStep
<1>10. CASE LoadPort
  BY <1>10 DEF LoadPort, ListenerStep
<1>11. CASE RequestTopic
  BY <1>11 DEF RequestTopic, ListenerStep
<1>12. CASE SetActive
  BY <1>12, SubscriberAssumption DEF SetActive, ListenerStep
<1>13. CASE \/ Connect \/ CheckConnection
  BY <1>13 DEF Connect, ListenerStep, CheckConnection
<1>14. CASE Receive
  BY <1>14 DEF Receive, ListenerStep
<1>15. QED
  BY <1>1, <1>2, <1>3, <1>4, <1>5, <1>6, <1>7, <1>8, <1>9,
     <1>10, <1>11, <1>12, <1>13, <1>14
     DEF Next, Main, Worker, Listener, Extract, Writers

\* Every step keeps the mutex and the stores of extract_url in agreement.
LEMMA WriterStep == ASSUME IInv, [Next]_vars PROVE WriterInv'
<1> USE DEF IInv, TypeOK, WriterInv, Writers, mainVars, topicVars, askVars
<1>1. CASE \/ MasterChange \/ CreateListener \/ Interrupt \/ StopToggle
           \/ UNCHANGED vars
  BY <1>1 DEF MasterChange, CreateListener, Interrupt, StopToggle, vars
<1>2. CASE Register
  BY <1>2 DEF Register
<1>3. CASE PublisherUpdate
  BY <1>3 DEF PublisherUpdate
<1>4. ASSUME NEW t \in Writers, ExtractUri(t)
      PROVE  WriterInv'
  BY <1>4 DEF ExtractUri, ExtractStep
<1>5. ASSUME NEW t \in Writers, ExtractPort(t)
      PROVE  WriterInv'
  BY <1>5 DEF ExtractPort, ExtractStep
<1>6. ASSUME NEW t \in Writers, ExtractStatus(t)
      PROVE  WriterInv'
  BY <1>6 DEF ExtractStatus, ExtractStep, StaleAsk
<1>7. CASE \/ TestRunning \/ TestUri \/ TestStatus \/ LoadUri
           \/ LoadPort \/ RequestTopic \/ SetActive \/ Connect
           \/ Receive \/ CheckConnection
  BY <1>7 DEF TestRunning, ListenerStep, TestUri, TestStatus, LoadUri,
     LoadPort, RequestTopic, SetActive, Connect, Receive, CheckConnection
<1>8. QED
  BY <1>1, <1>2, <1>3, <1>4, <1>5, <1>6, <1>7
     DEF Next, Main, Worker, Listener, Extract, Writers

\* Every step keeps the listener's loads fresh, or notes that they are not.
LEMMA AskStep == ASSUME IInv, [Next]_vars PROVE AskInv'
<1> USE DEF IInv, TypeOK, WriterInv, AskInv, Updating, Writers, mainVars,
           topicVars, askVars
<1>1. CASE \/ MasterChange \/ Interrupt \/ StopToggle \/ UNCHANGED vars
  BY <1>1 DEF MasterChange, Interrupt, StopToggle, vars
<1>2. CASE Register
  BY <1>2 DEF Register
<1>3. CASE CreateListener
  BY <1>3 DEF CreateListener
<1>4. CASE PublisherUpdate
  BY <1>4 DEF PublisherUpdate
<1>5. ASSUME NEW t \in Writers, ExtractUri(t)
      PROVE  AskInv'
  BY <1>5 DEF ExtractUri, ExtractStep
<1>6. ASSUME NEW t \in Writers, ExtractPort(t)
      PROVE  AskInv'
  BY <1>6 DEF ExtractPort, ExtractStep
<1>7. ASSUME NEW t \in Writers, ExtractStatus(t)
      PROVE  AskInv'
  BY <1>7 DEF ExtractStatus, ExtractStep, StaleAsk
<1>8. CASE \/ TestRunning \/ TestUri \/ TestStatus
  BY <1>8 DEF TestRunning, ListenerStep, TestUri, TestStatus
<1>9. CASE LoadUri
  BY <1>9 DEF LoadUri, ListenerStep
<1>10. CASE LoadPort
  BY <1>10 DEF LoadPort, ListenerStep
<1>11. CASE \/ RequestTopic \/ SetActive \/ Connect \/ Receive
            \/ CheckConnection
  BY <1>11 DEF RequestTopic, ListenerStep, SetActive, Connect, Receive,
     CheckConnection
<1>12. QED
  BY <1>1, <1>2, <1>3, <1>4, <1>5, <1>6, <1>7, <1>8, <1>9,
     <1>10, <1>11
     DEF Next, Main, Worker, Listener, Extract, Writers

\* Every step keeps an active topic at its address, but for the race.
LEMMA StaleStep == ASSUME IInv, [Next]_vars PROVE StaleOnlyByRace'
<1> USE DEF IInv, TypeOK, WriterInv, AskInv, StaleOnlyByRace, Updating,
           Writers, mainVars, topicVars, askVars
<1>1. CASE \/ MasterChange \/ CreateListener \/ Interrupt \/ StopToggle
           \/ UNCHANGED vars
  BY <1>1 DEF MasterChange, CreateListener, Interrupt, StopToggle, vars
<1>2. CASE Register
  BY <1>2 DEF Register
<1>3. CASE PublisherUpdate
  BY <1>3 DEF PublisherUpdate
<1>4. ASSUME NEW t \in Writers, ExtractUri(t)
      PROVE  StaleOnlyByRace'
  BY <1>4 DEF ExtractUri, ExtractStep
<1>5. ASSUME NEW t \in Writers, ExtractPort(t)
      PROVE  StaleOnlyByRace'
  BY <1>5 DEF ExtractPort, ExtractStep
<1>6. ASSUME NEW t \in Writers, ExtractStatus(t)
      PROVE  StaleOnlyByRace'
  BY <1>6 DEF ExtractStatus, ExtractStep, StaleAsk
<1>7. CASE TestStatus
  BY <1>7 DEF TestStatus, ListenerStep
<1>8. CASE SetActive
  BY <1>8 DEF SetActive, ListenerStep
<1>9. CASE \/ TestRunning \/ TestUri \/ LoadUri \/ LoadPort
           \/ RequestTopic \/ Connect \/ Receive \/ CheckConnection
  BY <1>9 DEF TestRunning, ListenerStep, TestUri, LoadUri, LoadPort,
     RequestTopic, Connect, Receive, CheckConnection
<1>10. QED
  BY <1>1, <1>2, <1>3, <1>4, <1>5, <1>6, <1>7, <1>8, <1>9
     DEF Next, Main, Worker, Listener, Extract, Writers

\* Every step keeps a late callback the last one.
LEMMA LateStep == ASSUME IInv, [Next]_vars PROVE LateInv'
<1> USE DEF IInv, TypeOK, LateInv, mainVars, topicVars, askVars
<1>1. CASE \/ MasterChange \/ Register \/ PublisherUpdate \/ Interrupt
           \/ UNCHANGED vars
  BY <1>1 DEF MasterChange, Register, PublisherUpdate, Interrupt, vars
<1>2. CASE CreateListener
  BY <1>2 DEF CreateListener
<1>3. ASSUME NEW t \in Writers, ExtractUri(t)
      PROVE  LateInv'
  BY <1>3 DEF ExtractUri, ExtractStep
<1>4. ASSUME NEW t \in Writers, ExtractPort(t)
      PROVE  LateInv'
  BY <1>4 DEF ExtractPort, ExtractStep
<1>5. ASSUME NEW t \in Writers, ExtractStatus(t)
      PROVE  LateInv'
  BY <1>5 DEF ExtractStatus, ExtractStep, StaleAsk
<1>6. CASE \/ TestRunning \/ TestUri \/ TestStatus \/ LoadUri
           \/ LoadPort \/ RequestTopic \/ SetActive
  BY <1>6 DEF TestRunning, ListenerStep, TestUri, TestStatus, LoadUri,
     LoadPort, RequestTopic, SetActive
<1>7. CASE Connect
  BY <1>7 DEF Connect, ListenerStep
<1>8. CASE Receive
  BY <1>8 DEF Receive, ListenerStep
<1>9. CASE CheckConnection
  BY <1>9 DEF CheckConnection, ListenerStep
<1>10. CASE StopToggle
  BY <1>10 DEF StopToggle
<1>11. QED
  BY <1>1, <1>2, <1>3, <1>4, <1>5, <1>6, <1>7, <1>8, <1>9, <1>10
     DEF Next, Main, Worker, Listener, Extract, Writers

\* Every step keeps the last list that was applied in place.
LEMMA LastStep == ASSUME IInv, [Next]_vars PROVE LastInv'
<1> USE DEF IInv, TypeOK, WriterInv, LastInv, ReplyApplied, Writers, mainVars, topicVars,
        askVars
<1>1. CASE MasterChange \/ Interrupt \/ StopToggle \/ UNCHANGED vars
  BY <1>1 DEF MasterChange, Interrupt, StopToggle, vars
<1>2. CASE Register
  BY <1>2 DEF Register
<1>3. CASE CreateListener
  BY <1>3 DEF CreateListener
<1>4. CASE PublisherUpdate
  BY <1>4 DEF PublisherUpdate
<1>5. ASSUME NEW t \in Writers, ExtractUri(t)
      PROVE  LastInv'
  BY <1>5 DEF ExtractUri, ExtractStep
<1>6. ASSUME NEW t \in Writers, ExtractPort(t)
      PROVE  LastInv'
  BY <1>6 DEF ExtractPort, ExtractStep
<1>7. ASSUME NEW t \in Writers, ExtractStatus(t)
      PROVE  LastInv'
  BY <1>7 DEF ExtractStatus, ExtractStep, StaleAsk
<1>8. CASE Listener
  <2>1. UNCHANGED <<mainVars, uri>> /\ listener # "none" /\ listener' # "none"
    BY <1>8 DEF Listener, ListenerStep, TestRunning, TestUri, TestStatus, LoadUri, LoadPort,
       RequestTopic, SetActive, Connect, Receive, CheckConnection
  <2>2. QED
    BY <2>1
<1>9. QED
  BY <1>1, <1>2, <1>3, <1>4, <1>5, <1>6, <1>7, <1>8
     DEF Next, Main, Worker, Extract, Writers

\* The inductive invariant holds throughout.
LEMMA InductiveInvariant == Spec => []IInv
<1>1. IInv /\ [Next]_vars => IInv'
  BY TypeStep, WriterStep, AskStep, StaleStep, LateStep, LastStep DEF IInv
<1>2. QED
  BY InitInv, <1>1, PTL DEF Spec

-----------------------------------------------------------------------------

\* The variables of a subscribed topic keep their types.
THEOREM TypeCorrect == Spec => []TypeOK
<1>1. IInv => TypeOK
  BY DEF IInv
<1>2. QED
  BY InductiveInvariant, <1>1, PTL

\* The registration's reply and the publisherUpdate calls, applied by
\* different threads, never leave the uri of one list with the port of
\* another.
THEOREM AddressIsConsistent == Spec => []AddressConsistent
<1>1. IInv => AddressConsistent
  BY DEF IInv, TypeOK, WriterInv, AddressConsistent, Updating, Writers
<1>2. QED
  BY InductiveInvariant, <1>1, PTL

\* An active topic has the endpoint of the publisher of its list, or none,
\* unless an update landed on a pending request for an older list.
THEOREM OnlyRacesLeaveStale == Spec => []StaleOnlyByRace
<1>1. IInv => StaleOnlyByRace
  BY DEF IInv
<1>2. QED
  BY InductiveInvariant, <1>1, PTL

\* After an update or the stop a connection runs at most one more callback.
THEOREM LateCallbackIsLast == Spec => []OneLateCallback
<1>1. IInv => OneLateCallback
  BY DEF IInv, LateInv, OneLateCallback
<1>2. QED
  BY InductiveInvariant, <1>1, PTL

\* When no list is being applied the topic has the last one the master sent,
\* or the one of the registration's reply.
THEOREM LastListStays == Spec => []LastListOrReply
<1>1. IInv => LastListOrReply
  BY DEF IInv, LastInv, ReplyApplied, LastListOrReply
<1>2. QED
  BY InductiveInvariant, <1>1, PTL
=============================================================================
