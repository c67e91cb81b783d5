---------------------------- MODULE NodeLifecycle ----------------------------
(***************************************************************************)
(* The life of a STRos node that publishes topics: stros_node_deploy starts*)
(* the XML-RPC server thread, waits for its port and registers every       *)
(* publisher at the master; a listener thread per registered topic opens   *)
(* the topic's socket; peers that heard of a topic from the master ask the *)
(* server for its endpoint (requestTopic); SIGINT runs stros_stop on top   *)
(* of the main thread, wherever it is.                                     *)
(*                                                                         *)
(* A call to the master is one step where nothing else can see it, and two *)
(* (request, reply) for registerPublisher, which SIGINT may interrupt.     *)
(* node_mux is left out: its sections here are a few stores, and a signal  *)
(* inside one is in TopicPublisher.  Subscribers, which are registered     *)
(* before the publishers, are in TopicSubscriber.                          *)
(***************************************************************************)
CONSTANTS Topics,  \* the topics the node publishes
          Peers    \* the requestTopic calls of other nodes, one each

VARIABLES
  ros_ok,      \* the node's run flag
  crashed,     \* "no", or why the process is gone
  main,        \* where the main thread is
  todo,        \* topics main still has to register, or to unregister
  call,        \* the registration main is making: at most one topic
  reply,       \* the master's reply to it: "none", "ok" or "fault"
  api,         \* node->api is set
  registered,  \* external: the topics registered at the master
  refused,     \* history: topics whose last unregistration it did not do
  server,      \* where xmlprc_run is
  listener,    \* where each topic's publisher_listener is
  socks,       \* topics whose listening socket is open
  uri,         \* topics whose pub->uri is set
  port,        \* topics whose pub->port is set
  peer,        \* how far each peer's call is
  ask          \* the topic it asks for: at most one

mainVars == <<main, todo, call, api>>
atMaster == <<registered, refused>>
masterVars == <<reply, atMaster>>
topicVars == <<listener, socks, uri, port>>
peerVars == <<peer, ask>>
vars == <<ros_ok, crashed, mainVars, masterVars, server, topicVars, peerVars>>

AtMostOne(S) == \A x, y \in S : x = y

TypeOK ==
  /\ ros_ok \in BOOLEAN
  /\ crashed \in {"no", "node", "api", "master", "exit", "uri"}
  /\ main \in {"init", "create", "port", "register", "calling", "running",
               "stopping", "exited"}
  /\ todo \subseteq Topics
  /\ call \subseteq Topics /\ AtMostOne(call)
  /\ reply \in {"none", "ok", "fault"}
  /\ api \in BOOLEAN
  /\ registered \subseteq Topics
  /\ refused \subseteq Topics
  /\ server \in {"none", "startup", "bound", "test", "select", "closed"}
  /\ listener \in [Topics -> {"none", "startup", "opened", "uri", "loop",
                              "failing", "failed", "closed"}]
  /\ socks \subseteq Topics
  /\ uri \subseteq Topics
  /\ port \subseteq Topics
  /\ peer \in [Peers -> {"idle", "told", "queued", "refused", "accepted",
                         "uri", "endpoint", "port0"}]
  /\ ask \in [Peers -> SUBSET Topics]

Init ==
  /\ ros_ok = FALSE
  /\ crashed = "no"
  /\ main = "init"
  /\ todo = Topics
  /\ call = {}
  /\ reply = "none"
  /\ api = FALSE
  /\ registered = {}
  /\ refused = {}
  /\ server = "none"
  /\ listener = [t \in Topics |-> "none"]
  /\ socks = {}
  /\ uri = {}
  /\ port = {}
  /\ peer = [p \in Peers |-> "idle"]
  /\ ask = [p \in Peers |-> {}]

\* Nothing moves in a process that is gone.
Alive == crashed = "no"

Crash(why) == crashed' = why

\* The master does what unregisterPublisher asks for the topics in S, or not.
MasterUnregisters(S) ==
  \/ registered' = registered \ S /\ refused' = refused \ S
  \/ refused' = refused \cup S /\ UNCHANGED registered

\* unregister(): a refusal is logged, if it is a fault, and the node goes on.
\* If the master is not reached, or its reply does not come in time, data is
\* NULL and data->code kills the process.
UnregisterCall(S) ==
  \/ MasterUnregisters(S) /\ UNCHANGED crashed
  \/ Crash("master") /\ (MasterUnregisters(S) \/ UNCHANGED atMaster)

-----------------------------------------------------------------------------
(* stros_node_deploy and stros_deploy_publishers.                          *)

\* xml_prc_server.node is set and stros_toggle(true) called.
DeployBegin ==
  /\ Alive
  /\ main = "init"
  /\ main' = "create"
  /\ ros_ok' = TRUE
  /\ UNCHANGED <<crashed, todo, call, api, masterVars, server, topicVars, peerVars>>

\* The server thread is created, or else stros_stop is called.
CreateServer ==
  /\ Alive
  /\ main = "create"
  /\ \/ main' = "port" /\ server' = "startup"
     \/ main' = "stopping" /\ UNCHANGED server
  /\ UNCHANGED <<ros_ok, crashed, todo, call, api, masterVars, topicVars, peerVars>>

\* while(port == 0 && stros_ok()) is over and node->api is set.
WaitForPort ==
  /\ Alive
  /\ main = "port"
  /\ server \notin {"none", "startup"}
  /\ main' = "register"
  /\ api' = TRUE
  /\ UNCHANGED <<ros_ok, crashed, todo, call, masterVars, server, topicVars, peerVars>>

\* Mutant: the next topic is registered without waiting for the reply.
RegisterCallEarly(t) ==
  /\ Alive
  /\ main \in {"register", "calling"}
  /\ t \in todo
  /\ main' = "calling"
  /\ todo' = todo \ {t}
  /\ call' = call \cup {t}
  /\ reply' = "none"
  /\ UNCHANGED <<ros_ok, crashed, api, atMaster, server, topicVars, peerVars>>

\* The request of registerPublisher is sent.
RegisterCall(t) ==
  /\ Alive
  /\ main = "register"
  /\ t \in todo
  /\ main' = "calling"
  /\ todo' = todo \ {t}
  /\ call' = {t}
  /\ reply' = "none"
  /\ UNCHANGED <<ros_ok, crashed, api, atMaster, server, topicVars, peerVars>>

\* External: the master gets to the request, also when the caller has been
\* interrupted and will never read the reply.  A refusal that is not a fault,
\* by the status in the reply, is RESP_OK too.
MasterRegisters ==
  /\ Alive
  /\ call # {} /\ reply = "none"
  /\ \/ reply' = "ok" /\ registered' = registered \cup call
     \/ reply' \in {"ok", "fault"} /\ UNCHANGED registered
  /\ UNCHANGED <<ros_ok, crashed, mainVars, refused, server, topicVars, peerVars>>

\* Mutant: a topic whose listener cannot be created stays registered.
RegisterReplyKept ==
  /\ Alive
  /\ main = "calling" /\ reply # "none"
  /\ main' = "register"
  /\ call' = {}
  /\ \/ /\ reply = "ok"
        /\ listener' = [t \in Topics |-> IF t \in call THEN "startup" ELSE listener[t]]
     \/ UNCHANGED listener
  /\ UNCHANGED <<ros_ok, crashed, todo, api, masterVars, server, socks, uri,
                 port, peerVars>>

\* data->code is read: on success the listener thread is created, or else
\* the topic is unregistered.
RegisterReply ==
  /\ Alive
  /\ main = "calling" /\ reply # "none"
  /\ main' = "register"
  /\ call' = {}
  /\ \/ /\ reply = "ok"
        /\ listener' = [t \in Topics |-> IF t \in call THEN "startup" ELSE listener[t]]
        /\ UNCHANGED <<atMaster, crashed>>
     \/ reply = "ok" /\ UnregisterCall(call) /\ UNCHANGED listener
     \/ reply = "fault" /\ UNCHANGED <<listener, atMaster, crashed>>
  /\ UNCHANGED <<ros_ok, todo, api, reply, server, socks, uri, port, peerVars>>

\* No connection to the master, or no reply in time: data is NULL and
\* data->code kills the process.
RegisterUnanswered ==
  /\ Alive
  /\ main = "calling" /\ reply = "none"
  /\ Crash("master")
  /\ UNCHANGED <<ros_ok, mainVars, masterVars, server, topicVars, peerVars>>

DeployDone ==
  /\ Alive
  /\ main = "register"
  /\ todo = {}
  /\ main' = "running"
  /\ UNCHANGED <<ros_ok, crashed, todo, call, api, masterVars, server,
                 topicVars, peerVars>>

-----------------------------------------------------------------------------
(* stros_stop.                                                             *)

\* SIGINT.  Before stros_node_deploy xml_prc_server.node is NULL.
Interrupt ==
  /\ Alive
  /\ main \notin {"stopping", "exited"}
  /\ \/ /\ main = "init"
        /\ Crash("node")
        /\ UNCHANGED <<main, todo>>
     \/ /\ main # "init"
        /\ main' = "stopping"
        /\ todo' = Topics
        /\ UNCHANGED crashed
  /\ UNCHANGED <<ros_ok, call, api, masterVars, server, topicVars, peerVars>>

\* Mutant: the handler skips topics whose listener is not in its loop.
UnregisterListening(t) ==
  /\ Alive
  /\ main = "stopping"
  /\ t \in todo
  /\ todo' = todo \ {t}
  /\ UnregisterCall({t} \cap port)
  /\ UNCHANGED <<ros_ok, main, call, api, reply, server, topicVars, peerVars>>

\* unregister_publisher in the handler, which before WaitForPort uses
\* node->api uninitialised.
Unregister(t) ==
  /\ Alive
  /\ main = "stopping"
  /\ t \in todo
  /\ todo' = todo \ {t}
  /\ \/ UnregisterCall({t})
     \/ ~api /\ Crash("api") /\ UNCHANGED atMaster
  /\ UNCHANGED <<ros_ok, main, call, api, reply, server, topicVars, peerVars>>

StopToggle ==
  /\ Alive
  /\ main = "stopping"
  /\ todo = {}
  /\ main' = "exited"
  /\ ros_ok' = FALSE
  /\ UNCHANGED <<crashed, todo, call, api, masterVars, server, topicVars, peerVars>>

-----------------------------------------------------------------------------
(* xmlprc_run and its workers.                                             *)

ServerStep(from, to) ==
  /\ Alive
  /\ server = from
  /\ server' = to
  /\ UNCHANGED <<ros_ok, mainVars, masterVars, topicVars>>

\* socket_startup, as far as getsockname, which writes the port main waits
\* for; the process exits if it fails.
ServerBind ==
  /\ \/ ServerStep("startup", "bound") /\ UNCHANGED crashed
     \/ ServerStep("startup", "closed") /\ Crash("exit")
  /\ UNCHANGED peerVars

ServerListen ==
  /\ \/ ServerStep("bound", "test") /\ UNCHANGED crashed
     \/ ServerStep("bound", "closed") /\ Crash("exit")
  /\ UNCHANGED peerVars

\* Mutant: the server loop does not look at stros_ok().
ServerTestNever ==
  ServerStep("test", "select") /\ UNCHANGED <<crashed, peerVars>>

ServerTest ==
  ServerStep("test", IF ros_ok THEN "select" ELSE "closed") /\ UNCHANGED <<crashed, peerVars>>

\* select() times out, or it, accept() or pthread_create() fails.
ServerNone == ServerStep("select", "test") /\ UNCHANGED <<crashed, peerVars>>

ServerAccept(p) ==
  /\ ServerStep("select", "test")
  /\ peer[p] = "queued"
  /\ peer' = [peer EXCEPT ![p] = "accepted"]
  /\ UNCHANGED <<crashed, ask>>

PeerStep(p, from, to) ==
  /\ Alive
  /\ peer[p] = from
  /\ peer' = [peer EXCEPT ![p] = to]
  /\ UNCHANGED <<ros_ok, mainVars, masterVars, server, topicVars>>

\* External: the master tells a peer of a registered topic ...
PeerTold(p, t) ==
  /\ t \in registered
  /\ PeerStep(p, "idle", "told")
  /\ ask' = [ask EXCEPT ![p] = {t}]
  /\ UNCHANGED crashed

\* External: ... which connects to the node's API.
PeerConnect(p) ==
  /\ PeerStep(p, "told", IF server \in {"test", "select"} THEN "queued" ELSE "refused")
  /\ UNCHANGED <<crashed, ask>>

\* requestTopic: strdup(pub->uri), then pub->port.
RequestUri(p) ==
  /\ PeerStep(p, "accepted", "uri")
  /\ IF ask[p] \subseteq uri THEN UNCHANGED crashed ELSE Crash("uri")
  /\ UNCHANGED ask

RequestPort(p) ==
  /\ PeerStep(p, "uri", IF ask[p] \subseteq port THEN "endpoint" ELSE "port0")
  /\ UNCHANGED <<crashed, ask>>

-----------------------------------------------------------------------------
(* publisher_listener, up to its loop, and the end of the loop.            *)

TopicStep(t, from, to) ==
  /\ Alive
  /\ listener[t] = from
  /\ listener' = [listener EXCEPT ![t] = to]
  /\ UNCHANGED <<ros_ok, mainVars, reply, server, peerVars>>

\* Mutant: the result of socket_startup is not examined.
TopicOpenUnchecked(t) ==
  /\ TopicStep(t, "startup", "opened")
  /\ socks' \in {socks, socks \cup {t}}
  /\ UNCHANGED <<crashed, atMaster, uri, port>>

\* socket_startup: the socket listens before its port is known to anybody.
TopicOpen(t) ==
  /\ \/ TopicStep(t, "startup", "opened") /\ socks' = socks \cup {t}
     \/ TopicStep(t, "startup", "failing") /\ UNCHANGED socks
  /\ UNCHANGED <<crashed, atMaster, uri, port>>

\* Mutant: a listener without a socket returns and says nothing.
TopicFailSilent(t) ==
  /\ TopicStep(t, "failing", "failed")
  /\ UNCHANGED <<crashed, atMaster, socks, uri, port>>

TopicFail(t) ==
  /\ TopicStep(t, "failing", "failed")
  /\ UnregisterCall({t})
  /\ UNCHANGED <<socks, uri, port>>

TopicUri(t) ==
  /\ TopicStep(t, "opened", "uri")
  /\ uri' = uri \cup {t}
  /\ UNCHANGED <<crashed, atMaster, socks, port>>

TopicPort(t) ==
  /\ TopicStep(t, "uri", "loop")
  /\ port' = port \cup {t}
  /\ UNCHANGED <<crashed, atMaster, socks, uri>>

TopicClose(t) ==
  /\ ~ros_ok
  /\ TopicStep(t, "loop", "closed")
  /\ socks' = socks \ {t}
  /\ UNCHANGED <<crashed, atMaster, uri, port>>

-----------------------------------------------------------------------------

Deploy ==
  \/ DeployBegin \/ CreateServer \/ WaitForPort \/ RegisterReply
  \/ RegisterUnanswered \/ DeployDone
  \/ \E t \in Topics : RegisterCall(t)
Stop == StopToggle \/ \E t \in Topics : Unregister(t)
Server ==
  \/ ServerBind \/ ServerListen \/ ServerTest \/ ServerNone
  \/ \E p \in Peers : ServerAccept(p)
Worker(p) == RequestUri(p) \/ RequestPort(p)
Topic(t) ==
  \/ TopicOpen(t) \/ TopicFail(t) \/ TopicUri(t) \/ TopicPort(t) \/ TopicClose(t)
Peer(p) == PeerConnect(p) \/ \E t \in Topics : PeerTold(p, t)

Next ==
  \/ Deploy \/ Stop \/ Interrupt \/ MasterRegisters \/ Server
  \/ \E p \in Peers : Peer(p) \/ Worker(p)
  \/ \E t \in Topics : Topic(t)

Spec == Init /\ [][Next]_vars

\* The threads of the node run on; SIGINT and peers come or do not.
Fairness ==
  /\ WF_vars(Deploy)
  /\ WF_vars(Stop)
  /\ WF_vars(Server)
  /\ \A t \in Topics : WF_vars(Topic(t))

FairSpec == Spec /\ Fairness

-----------------------------------------------------------------------------
(* Properties that hold.                                                   *)

\* An endpoint handed out to a peer accepts connections as long as the node
\* runs: the topic's socket listens before its port is stored.
EndpointListens ==
  ros_ok => \A p \in Peers : peer[p] = "endpoint" => ask[p] \subseteq socks

\* Once the node is deployed, every topic the master knows has a listener
\* that has not failed, unless the master refused to forget it: a failure, in
\* either thread, is undone at the master, and nobody tries a second time.
RegisteredHasListener ==
  main = "running" /\ Alive =>
    \A t \in registered \ refused : listener[t] \notin {"none", "failed"}

\* When stros_stop is done nothing is left at the master but the topics it
\* refused to forget and, possibly, the one whose registration the signal
\* interrupted.
StopUnregisters == main = "exited" => registered \subseteq call \cup refused

Leaving == main \in {"stopping", "exited"} \/ ~Alive

\* Every registered topic comes to have an endpoint, or is unregistered, or
\* the master has refused to do that.
RegistrationServed ==
  \A t \in Topics :
    t \in registered ~> t \in port \cup refused \/ t \notin registered \/ Leaving

\* Once stros_ok() is false after a deployment the server and all listeners
\* end.
StopEndsThreads ==
  main = "exited" ~>
    \/ ~Alive
    \/ /\ server \in {"none", "closed"}
       /\ \A t \in Topics : listener[t] \in {"none", "failed", "closed"}

-----------------------------------------------------------------------------
(* A property that the documents state and the code does not have.         *)

\* stros.h:49, "use mutex to prevent data race condition": the server does
\* not use a topic's address before the topic's listener has set it.
AddressSetWhenAsked == crashed # "uri"
=============================================================================
