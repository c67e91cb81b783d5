------------------------ MODULE NodeLifecycleProofs ------------------------
(***************************************************************************)
(* Proofs about NodeLifecycle for all sets of topics and of peers: type    *)
(* correctness, and what the node promises the master and its peers while  *)
(* SIGINT may come at any step.                                            *)
(***************************************************************************)
EXTENDS NodeLifecycle, TLAPS

\* The phases before stros_stop, in which main deploys and then waits.
Deploying ==
  Alive /\ main \in {"init", "create", "port", "register", "calling", "running"}

\* The run flag is set from the first step of the deployment to the last of
\* stros_stop.
PhaseInv ==
  /\ ros_ok <=> main \notin {"init", "exited"}
  /\ main = "exited" => todo = {}
  /\ main \in {"init", "create", "port"} => todo = Topics

\* A listener has its socket from before it stores the port until the stop,
\* and a peer is given an endpoint only from a port that is stored.
ListenInv ==
  /\ \A t \in Topics :
       /\ t \in port => listener[t] \in {"loop", "closed"}
       /\ listener[t] = "loop" => t \in socks
       /\ listener[t] \in {"opened", "uri"} => t \in socks
       /\ listener[t] = "closed" => main = "exited"
  /\ \A p \in Peers : peer[p] = "endpoint" => ask[p] \subseteq port

\* While main deploys a topic is at the master only by the call main is
\* making, or with a listener that has not failed, or because the master
\* refused to forget it; the topics of that call and those after it have no
\* listener yet.
DeployInv ==
  Deploying =>
    /\ call # {} => main = "calling"
    /\ todo \cap registered = {} /\ todo \cap call = {}
    /\ \A t \in todo \cup call : listener[t] = "none"
    /\ \A t \in registered \ refused :
         /\ listener[t] # "failed"
         /\ listener[t] = "none" => t \in call /\ reply = "ok"

\* While stros_stop runs a topic at the master is one it has still to
\* unregister, or the one whose registration it interrupted, or one that the
\* master refused to forget.
StopInv ==
  \/ main = "stopping" /\ Alive
  \/ main = "exited"
  => registered \subseteq todo \cup call \cup refused

IInv == TypeOK /\ PhaseInv /\ ListenInv /\ DeployInv /\ StopInv

-----------------------------------------------------------------------------

\* The initial state satisfies the inductive invariant.
LEMMA InitInv == Init => IInv
<1> SUFFICES ASSUME Init PROVE IInv
  OBVIOUS
<1> USE DEF Init
<1>1. TypeOK
  BY DEF TypeOK, AtMostOne
<1>2. PhaseInv /\ ListenInv
  BY DEF PhaseInv, ListenInv
<1>3. DeployInv /\ StopInv
  BY DEF DeployInv, Deploying, StopInv
<1>4. QED
  BY <1>1, <1>2, <1>3 DEF IInv

\* Every step keeps the variables in their types.
LEMMA TypeStep == ASSUME IInv, [Next]_vars PROVE TypeOK'
<1> USE DEF IInv, TypeOK, AtMostOne, Alive, mainVars, masterVars, atMaster,
           topicVars, peerVars
<1>1. CASE DeployBegin \/ CreateServer \/ WaitForPort \/ DeployDone
  BY <1>1 DEF DeployBegin, CreateServer, WaitForPort, DeployDone
<1>2. CASE RegisterReply
  BY <1>2 DEF RegisterReply, UnregisterCall, MasterUnregisters, Crash
<1>3. CASE RegisterUnanswered \/ Interrupt \/ StopToggle
  BY <1>3 DEF RegisterUnanswered, Crash, Interrupt, StopToggle
<1>4. ASSUME NEW t \in Topics, RegisterCall(t)
      PROVE  TypeOK'
  BY <1>4 DEF RegisterCall
<1>5. ASSUME NEW t \in Topics, Unregister(t)
      PROVE  TypeOK'
  BY <1>5 DEF Unregister, UnregisterCall, MasterUnregisters, Crash
<1>6. CASE MasterRegisters
  BY <1>6 DEF MasterRegisters
<1>7. CASE ServerBind \/ ServerListen \/ ServerTest \/ ServerNone
  BY <1>7 DEF ServerBind, ServerStep, Crash, ServerListen, ServerTest,
     ServerNone
<1>8. ASSUME NEW p \in Peers, ServerAccept(p)
      PROVE  TypeOK'
  BY <1>8 DEF ServerAccept, ServerStep
<1>9. ASSUME NEW p \in Peers, PeerConnect(p)
      PROVE  TypeOK'
  BY <1>9 DEF PeerConnect, PeerStep
<1>10. ASSUME NEW p \in Peers, NEW t \in Topics, PeerTold(p, t)
       PROVE  TypeOK'
  BY <1>10 DEF PeerTold, PeerStep
<1>11. ASSUME NEW p \in Peers, RequestUri(p)
       PROVE  TypeOK'
  BY <1>11 DEF RequestUri, PeerStep, Crash
<1>12. ASSUME NEW p \in Peers, RequestPort(p)
       PROVE  TypeOK'
  BY <1>12 DEF RequestPort, PeerStep
<1>13. ASSUME NEW t \in Topics, TopicOpen(t)
       PROVE  TypeOK'
  BY <1>13 DEF TopicOpen, TopicStep
<1>14. ASSUME NEW t \in Topics, TopicFail(t)
       PROVE  TypeOK'
  BY <1>14 DEF TopicFail, TopicStep, UnregisterCall, MasterUnregisters, Crash
<1>15. ASSUME NEW t \in Topics, TopicUri(t)
       PROVE  TypeOK'
  BY <1>15 DEF TopicUri, TopicStep
<1>16. ASSUME NEW t \in Topics, TopicPort(t)
       PROVE  TypeOK'
  BY <1>16 DEF TopicPort, TopicStep
<1>17. ASSUME NEW t \in Topics, TopicClose(t)
       PROVE  TypeOK'
  BY <1>17 DEF TopicClose, TopicStep
<1>18. CASE UNCHANGED vars
  BY <1>18 DEF vars
<1>19. QED
  BY <1>1, <1>2, <1>3, <1>4, <1>5, <1>6, <1>7, <1>8, <1>9,
     <1>10, <1>11, <1>12, <1>13, <1>14, <1>15, <1>16, <1>17, <1>18
     DEF Next, Deploy, Stop, Server, Worker, Topic, Peer

\* Every step keeps the run flag in step with the main thread.
LEMMA PhaseStep == ASSUME IInv, [Next]_vars PROVE PhaseInv'
<1> USE DEF IInv, TypeOK, PhaseInv, Alive, mainVars, masterVars, atMaster,
           topicVars, peerVars
<1>1. CASE \/ DeployBegin \/ CreateServer \/ WaitForPort \/ RegisterReply
           \/ RegisterUnanswered \/ DeployDone
  BY <1>1 DEF DeployBegin, CreateServer, WaitForPort, RegisterReply,
     UnregisterCall, MasterUnregisters, Crash, RegisterUnanswered, DeployDone
<1>2. ASSUME NEW t \in Topics, RegisterCall(t)
      PROVE  PhaseInv'
  BY <1>2 DEF RegisterCall
<1>3. ASSUME NEW t \in Topics, Unregister(t)
      PROVE  PhaseInv'
  BY <1>3 DEF Unregister, UnregisterCall, MasterUnregisters, Crash
<1>4. CASE Interrupt \/ StopToggle \/ MasterRegisters
  BY <1>4 DEF Interrupt, Crash, StopToggle, MasterRegisters
<1>5. CASE ServerBind \/ ServerListen \/ ServerTest \/ ServerNone
  BY <1>5 DEF ServerBind, ServerStep, Crash, ServerListen, ServerTest,
     ServerNone
<1>6. ASSUME NEW p \in Peers,
             \/ ServerAccept(p) \/ PeerConnect(p) \/ RequestUri(p)
             \/ RequestPort(p)
      PROVE  PhaseInv'
  BY <1>6 DEF ServerAccept, ServerStep, PeerConnect, PeerStep, RequestUri,
     Crash, RequestPort
<1>7. ASSUME NEW p \in Peers, NEW t \in Topics, PeerTold(p, t)
      PROVE  PhaseInv'
  BY <1>7 DEF PeerTold, PeerStep
<1>8. ASSUME NEW t \in Topics,
             \/ TopicOpen(t) \/ TopicFail(t) \/ TopicUri(t)
             \/ TopicPort(t) \/ TopicClose(t)
      PROVE  PhaseInv'
  BY <1>8 DEF TopicOpen, TopicStep, TopicFail, UnregisterCall,
     MasterUnregisters, Crash, TopicUri, TopicPort, TopicClose
<1>9. CASE UNCHANGED vars
  BY <1>9 DEF vars
<1>10. QED
  BY <1>1, <1>2, <1>3, <1>4, <1>5, <1>6, <1>7, <1>8, <1>9
     DEF Next, Deploy, Stop, Server, Worker, Topic, Peer

\* Every step keeps a stored port to a listening socket.
LEMMA ListenStep == ASSUME IInv, [Next]_vars PROVE ListenInv'
<1> USE DEF IInv, TypeOK, PhaseInv, ListenInv, DeployInv, Deploying, Alive,
           mainVars, masterVars, atMaster, topicVars, peerVars
<1>1. CASE \/ DeployBegin \/ CreateServer \/ WaitForPort
           \/ RegisterUnanswered \/ DeployDone
  BY <1>1 DEF DeployBegin, CreateServer, WaitForPort, RegisterUnanswered,
     Crash, DeployDone
<1>2. CASE RegisterReply
  BY <1>2 DEF RegisterReply, UnregisterCall, MasterUnregisters, Crash
<1>3. ASSUME NEW t \in Topics, RegisterCall(t) \/ Unregister(t)
      PROVE  ListenInv'
  BY <1>3 DEF RegisterCall, Unregister, UnregisterCall, MasterUnregisters, Crash
<1>4. CASE Interrupt \/ StopToggle \/ MasterRegisters
  BY <1>4 DEF Interrupt, Crash, StopToggle, MasterRegisters
<1>5. CASE ServerBind \/ ServerListen \/ ServerTest \/ ServerNone
  BY <1>5 DEF ServerBind, ServerStep, Crash, ServerListen, ServerTest,
     ServerNone
<1>6. ASSUME NEW p \in Peers, ServerAccept(p)
      PROVE  ListenInv'
  BY <1>6 DEF ServerAccept, ServerStep
<1>7. ASSUME NEW p \in Peers, PeerConnect(p)
      PROVE  ListenInv'
  BY <1>7 DEF PeerConnect, PeerStep
<1>8. ASSUME NEW p \in Peers, NEW t \in Topics, PeerTold(p, t)
      PROVE  ListenInv'
  BY <1>8 DEF PeerTold, PeerStep
<1>9. ASSUME NEW p \in Peers, RequestUri(p)
      PROVE  ListenInv'
  BY <1>9 DEF RequestUri, PeerStep, Crash
<1>10. ASSUME NEW p \in Peers, RequestPort(p)
       PROVE  ListenInv'
  BY <1>10 DEF RequestPort, PeerStep
<1>11. ASSUME NEW t \in Topics, TopicOpen(t)
       PROVE  ListenInv'
  BY <1>11 DEF TopicOpen, TopicStep
<1>12. ASSUME NEW t \in Topics, TopicFail(t)
       PROVE  ListenInv'
  BY <1>12 DEF TopicFail, TopicStep, UnregisterCall, MasterUnregisters, Crash
<1>13. ASSUME NEW t \in Topics, TopicUri(t)
       PROVE  ListenInv'
  BY <1>13 DEF TopicUri, TopicStep
<1>14. ASSUME NEW t \in Topics, TopicPort(t)
       PROVE  ListenInv'
  BY <1>14 DEF TopicPort, TopicStep
<1>15. ASSUME NEW t \in Topics, TopicClose(t)
       PROVE  ListenInv'
  BY <1>15 DEF TopicClose, TopicStep
<1>16. CASE UNCHANGED vars
  BY <1>16 DEF vars
<1>17. QED
  BY <1>1, <1>2, <1>3, <1>4, <1>5, <1>6, <1>7, <1>8, <1>9,
     <1>10, <1>11, <1>12, <1>13, <1>14, <1>15, <1>16
     DEF Next, Deploy, Stop, Server, Worker, Topic, Peer

\* Every step of the deployment leaves no topic at the master unserved.
LEMMA DeployStep == ASSUME IInv, [Next]_vars PROVE DeployInv'
<1> USE DEF IInv, TypeOK, PhaseInv, DeployInv, Deploying, Alive, mainVars,
           masterVars, atMaster, topicVars, peerVars
<1>1. CASE \/ DeployBegin \/ CreateServer \/ WaitForPort
           \/ RegisterUnanswered \/ DeployDone
  BY <1>1 DEF DeployBegin, CreateServer, WaitForPort, RegisterUnanswered,
     Crash, DeployDone
<1>2. CASE RegisterReply
  BY <1>2 DEF RegisterReply, UnregisterCall, MasterUnregisters, Crash
<1>3. ASSUME NEW t \in Topics, RegisterCall(t)
      PROVE  DeployInv'
  BY <1>3 DEF RegisterCall
<1>4. ASSUME NEW t \in Topics, Unregister(t)
      PROVE  DeployInv'
  BY <1>4 DEF Unregister, UnregisterCall, MasterUnregisters, Crash
<1>5. CASE Interrupt \/ StopToggle
  BY <1>5 DEF Interrupt, Crash, StopToggle
<1>6. CASE MasterRegisters
  BY <1>6 DEF MasterRegisters
<1>7. CASE ServerBind \/ ServerListen \/ ServerTest \/ ServerNone
  BY <1>7 DEF ServerBind, ServerStep, Crash, ServerListen, ServerTest,
     ServerNone
<1>8. ASSUME NEW p \in Peers,
             \/ ServerAccept(p) \/ PeerConnect(p) \/ RequestUri(p)
             \/ RequestPort(p)
      PROVE  DeployInv'
  BY <1>8 DEF ServerAccept, ServerStep, PeerConnect, PeerStep, RequestUri,
     Crash, RequestPort
<1>9. ASSUME NEW p \in Peers, NEW t \in Topics, PeerTold(p, t)
      PROVE  DeployInv'
  BY <1>9 DEF PeerTold, PeerStep
<1>10. ASSUME NEW t \in Topics, TopicOpen(t)
       PROVE  DeployInv'
  BY <1>10 DEF TopicOpen, TopicStep
<1>11. ASSUME NEW t \in Topics, TopicFail(t)
       PROVE  DeployInv'
  BY <1>11 DEF TopicFail, TopicStep, UnregisterCall, MasterUnregisters, Crash
<1>12. ASSUME NEW t \in Topics, TopicUri(t)
       PROVE  DeployInv'
  BY <1>12 DEF TopicUri, TopicStep
<1>13. ASSUME NEW t \in Topics, TopicPort(t)
       PROVE  DeployInv'
  BY <1>13 DEF TopicPort, TopicStep
<1>14. ASSUME NEW t \in Topics, TopicClose(t)
       PROVE  DeployInv'
  BY <1>14 DEF TopicClose, TopicStep
<1>15. CASE UNCHANGED vars
  BY <1>15 DEF vars
<1>16. QED
  BY <1>1, <1>2, <1>3, <1>4, <1>5, <1>6, <1>7, <1>8, <1>9,
     <1>10, <1>11, <1>12, <1>13, <1>14, <1>15
     DEF Next, Deploy, Stop, Server, Worker, Topic, Peer

\* Every step of stros_stop keeps what is left at the master in its list.
LEMMA StopStep == ASSUME IInv, [Next]_vars PROVE StopInv'
<1> USE DEF IInv, TypeOK, PhaseInv, DeployInv, Deploying, StopInv, Alive,
           mainVars, masterVars, atMaster, topicVars, peerVars
<1>1. CASE DeployBegin \/ WaitForPort \/ RegisterUnanswered \/ DeployDone
  BY <1>1 DEF DeployBegin, WaitForPort, RegisterUnanswered, Crash,
     DeployDone
<1>2. CASE CreateServer
  BY <1>2 DEF CreateServer
<1>3. CASE RegisterReply
  BY <1>3 DEF RegisterReply, UnregisterCall, MasterUnregisters, Crash
<1>4. ASSUME NEW t \in Topics, RegisterCall(t)
      PROVE  StopInv'
  BY <1>4 DEF RegisterCall
<1>5. ASSUME NEW t \in Topics, Unregister(t)
      PROVE  StopInv'
  BY <1>5 DEF Unregister, UnregisterCall, MasterUnregisters, Crash
<1>6. CASE Interrupt
  BY <1>6 DEF Interrupt, Crash
<1>7. CASE StopToggle
  BY <1>7 DEF StopToggle
<1>8. CASE MasterRegisters
  BY <1>8 DEF MasterRegisters
<1>9. CASE ServerBind \/ ServerListen \/ ServerTest \/ ServerNone
  BY <1>9 DEF ServerBind, ServerStep, Crash, ServerListen, ServerTest,
     ServerNone
<1>10. ASSUME NEW p \in Peers,
              \/ ServerAccept(p) \/ PeerConnect(p) \/ RequestUri(p)
              \/ RequestPort(p)
       PROVE  StopInv'
  BY <1>10 DEF ServerAccept, ServerStep, PeerConnect, PeerStep, RequestUri,
     Crash, RequestPort
<1>11. ASSUME NEW p \in Peers, NEW t \in Topics, PeerTold(p, t)
       PROVE  StopInv'
  BY <1>11 DEF PeerTold, PeerStep
<1>12. ASSUME NEW t \in Topics,
              \/ TopicOpen(t) \/ TopicFail(t) \/ TopicUri(t)
              \/ TopicPort(t) \/ TopicClose(t)
       PROVE  StopInv'
  BY <1>12 DEF TopicOpen, TopicStep, TopicFail, UnregisterCall,
     MasterUnregisters, Crash, TopicUri, TopicPort, TopicClose
<1>13. CASE UNCHANGED vars
  BY <1>13 DEF vars
<1>14. QED
  BY <1>1, <1>2, <1>3, <1>4, <1>5, <1>6, <1>7, <1>8, <1>9,
     <1>10, <1>11, <1>12, <1>13
     DEF Next, Deploy, Stop, Server, Worker, Topic, Peer

\* The inductive invariant holds throughout.
LEMMA InductiveInvariant == Spec => []IInv
<1>1. IInv /\ [Next]_vars => IInv'
  BY TypeStep, PhaseStep, ListenStep, DeployStep, StopStep DEF IInv
<1>2. QED
  BY InitInv, <1>1, PTL DEF Spec

-----------------------------------------------------------------------------

\* The variables of the node keep their types; in particular main makes one
\* registration at a time.
THEOREM TypeCorrect == Spec => []TypeOK
<1>1. IInv => TypeOK
  BY DEF IInv
<1>2. QED
  BY InductiveInvariant, <1>1, PTL

\* The endpoint a peer is given for a topic accepts connections as long as
\* the node runs.
THEOREM EndpointsListen == Spec => []EndpointListens
<1>1. IInv => EndpointListens
  BY DEF IInv, TypeOK, PhaseInv, ListenInv, EndpointListens
<1>2. QED
  BY InductiveInvariant, <1>1, PTL

\* A deployed node serves every topic the master knows of, but for those it
\* refused to forget: whichever thread meets a failure asks it to.
THEOREM RegistrationsAreServed == Spec => []RegisteredHasListener
<1>1. IInv => RegisteredHasListener
  BY DEF IInv, DeployInv, Deploying, RegisteredHasListener
<1>2. QED
  BY InductiveInvariant, <1>1, PTL

\* stros_stop leaves at the master only topics that the master refused to
\* forget and, at most, the one whose registration the signal interrupted.
THEOREM StopLeavesNothing == Spec => []StopUnregisters
<1>1. IInv => StopUnregisters
  BY DEF IInv, PhaseInv, StopInv, StopUnregisters
<1>2. QED
  BY InductiveInvariant, <1>1, PTL
=============================================================================
