-------------------------- MODULE TopicSubscriber --------------------------
(***************************************************************************)
(* One subscribed topic of a STRos node.  The main thread registers the    *)
(* subscriber at the master, applies the reply with extract_url, creates   *)
(* the listener thread and spins; RPC worker threads apply the master's    *)
(* publisherUpdate calls with extract_url too; subscriber_listener asks    *)
(* the publisher for its TCP endpoint (requestTopic), connects and runs    *)
(* the callbacks; SIGINT runs stros_stop on top of the main thread.        *)
(*                                                                         *)
(* sub->uri, sub->port and sub->status are written under node_mux and read *)
(* without it.  A step is one access to them.                              *)
(*                                                                         *)
(* The master's publisher list changes up to MaxUpdates times; list e is   *)
(* the one after e changes.  An address is the number of the list whose    *)
(* first entry it is, or NULL (NULL uri, port 0) for a list in Empty.  The *)
(* publishers of different lists run on different hosts, so a uri and a    *)
(* port of different lists address nobody.                                 *)
(***************************************************************************)
EXTENDS Naturals

CONSTANTS MaxUpdates,  \* bound: how often the publisher list changes
          Empty        \* the lists without a publisher

ASSUME SubscriberAssumption == MaxUpdates \in Nat /\ Empty \subseteq Nat /\ 0 \in Empty

VARIABLES
  ros_ok,     \* the node's run flag
  node_mux,   \* "free", or the thread that holds it
  main,       \* where the main thread is
  extract,    \* where "main" and "worker" are in extract_url
  arg,        \* the list each of them applies
  master,     \* external: the number of the master's current list
  delivered,  \* external: the last list the master has sent to the node
  status,     \* sub->status
  uri,        \* sub->uri
  port,       \* sub->port
  listener,   \* where subscriber_listener is
  ask_uri,    \* the uri it loaded for requestTopic
  ask_port,   \* the port it loaded for requestTopic
  ep,         \* its locals ip and port: whose TCP endpoint they are, 0: none
  crashed,    \* "no", or the NULL pointer the process died of
  raced,      \* history: an update landed on a request for an older list
  late        \* history: callbacks of the connection that came after an
              \* update or the stop (2: two or more)

mainVars == <<main, extract, arg, master, delivered>>
topicVars == <<status, uri, port>>
askVars == <<ask_uri, ask_port>>
vars == <<ros_ok, node_mux, mainVars, topicVars, listener, askVars, ep,
          crashed, raced, late>>

Lists == 0 .. MaxUpdates
Writers == {"main", "worker"}

TypeOK ==
  /\ ros_ok \in BOOLEAN
  /\ node_mux \in {"free"} \cup Writers
  /\ main \in {"register", "extract", "spin", "stopping", "exited"}
  /\ extract \in [Writers -> {"idle", "begin", "port", "status"}]
  /\ arg \in [Writers -> Lists]
  /\ {master, delivered, uri, port, ask_uri, ask_port, ep} \subseteq Lists
  /\ status \in {"DOWN", "ACTIVE", "REFRESH"}
  /\ listener \in {"none", "test", "uri", "status", "loadBoth", "loadUri",
                   "loadPort", "request", "active", "connect", "recv",
                   "check", "done"}
  /\ crashed \in {"no", "uri", "master"}
  /\ raced \in BOOLEAN
  /\ late \in 0..2

\* The process has not died of a signal.
Alive == crashed = "no"

Init ==
  /\ ros_ok = TRUE
  /\ node_mux = "free"
  /\ main = "register"
  /\ extract = [t \in Writers |-> "idle"]
  /\ arg = [t \in Writers |-> 0]
  /\ master = 0
  /\ delivered = 0
  /\ status = "DOWN"
  /\ uri = 0
  /\ port = 0
  /\ listener = "none"
  /\ ask_uri = 0
  /\ ask_port = 0
  /\ ep = 0
  /\ crashed = "no"
  /\ raced = FALSE
  /\ late = 0

-----------------------------------------------------------------------------
(* The master, and the calls between it and the node.                      *)

\* External: publishers register and unregister.
MasterChange ==
  /\ Alive
  /\ master < MaxUpdates
  /\ master' = master + 1
  /\ UNCHANGED <<ros_ok, node_mux, main, extract, arg, delivered, topicVars,
                 listener, askVars, ep, crashed, raced, late>>

\* registerSubscriber: the reply carries the current list; the master refuses
\* and no listener is created; or the master does not answer and the NULL
\* response is dereferenced.
Register ==
  /\ Alive
  /\ main = "register"
  /\ \/ /\ main' = "extract"
        /\ extract' = [extract EXCEPT !["main"] = "begin"]
        /\ arg' = [arg EXCEPT !["main"] = master]
        /\ delivered' = master
        /\ UNCHANGED crashed
     \/ main' = "spin" /\ UNCHANGED <<extract, arg, delivered, crashed>>
     \/ crashed' = "master" /\ UNCHANGED <<main, extract, arg, delivered>>
  /\ UNCHANGED <<ros_ok, node_mux, master, topicVars, listener, askVars, ep,
                 raced, late>>

\* The listener is created once the reply is applied, or cannot be created
\* and the subscriber is unregistered.
CreateListener ==
  /\ Alive
  /\ main = "extract"
  /\ extract["main"] = "idle"
  /\ main' = "spin"
  /\ listener' \in {"test", "none"}
  /\ UNCHANGED <<ros_ok, node_mux, extract, arg, master, delivered, topicVars,
                 askVars, ep, crashed, raced, late>>

\* publisherUpdate: the master sends a registered node every later list, one
\* call at a time.
PublisherUpdate ==
  /\ Alive
  /\ main = "extract" \/ listener # "none"
  /\ main # "exited"
  /\ extract["worker"] = "idle"
  /\ delivered < master
  /\ delivered' = delivered + 1
  /\ extract' = [extract EXCEPT !["worker"] = "begin"]
  /\ arg' = [arg EXCEPT !["worker"] = delivered + 1]
  /\ UNCHANGED <<ros_ok, node_mux, main, master, topicVars, listener, askVars,
                 ep, crashed, raced, late>>

-----------------------------------------------------------------------------
(* extract_url, run by the main thread and by a worker.                    *)

\* A thread interrupted by the stop handler does not go on.
ExtractStep(t, from, to) ==
  /\ Alive
  /\ t = "main" => main = "extract"
  /\ extract[t] = from
  /\ extract' = [extract EXCEPT ![t] = to]
  /\ UNCHANGED <<ros_ok, main, arg, master, delivered, listener, askVars, ep,
                 crashed, late>>

\* Mutant: the address is written without the mutex.
ExtractUriUnlocked(t) ==
  /\ ExtractStep(t, "begin", "port")
  /\ uri' = arg[t]
  /\ UNCHANGED <<node_mux, status, port, raced>>

\* Mutant: an update of a topic that is active keeps its address.
ExtractUriIdle(t) ==
  /\ ExtractStep(t, "begin", "port")
  /\ node_mux = "free"
  /\ node_mux' = t
  /\ uri' = IF status = "ACTIVE" THEN uri ELSE arg[t]
  /\ UNCHANGED <<status, port, raced>>

\* pthread_mutex_lock and the first store.
ExtractUri(t) ==
  /\ ExtractStep(t, "begin", "port")
  /\ node_mux = "free"
  /\ node_mux' = t
  /\ uri' = arg[t]
  /\ UNCHANGED <<status, port, raced>>

ExtractPort(t) ==
  /\ ExtractStep(t, "port", "status")
  /\ port' = arg[t]
  /\ UNCHANGED <<node_mux, status, uri, raced>>

\* What the listener has loaded for its request is not of list e.
StaleAsk(e) ==
  \/ listener \in {"loadPort", "request", "active"} /\ ask_uri # e
  \/ listener \in {"loadUri", "request", "active"} /\ ask_port # e

\* Mutant: the update does not ask for a refresh.
ExtractNoRefresh(t) ==
  /\ ExtractStep(t, "status", "idle")
  /\ status' = IF status = "DOWN" THEN "REFRESH" ELSE status
  /\ node_mux' = "free"
  /\ raced' = (raced \/ StaleAsk(arg[t]))
  /\ UNCHANGED <<uri, port>>

\* The last store and pthread_mutex_unlock.
ExtractStatus(t) ==
  /\ ExtractStep(t, "status", "idle")
  /\ status' = "REFRESH"
  /\ node_mux' = "free"
  /\ raced' = (raced \/ StaleAsk(arg[t]))
  /\ UNCHANGED <<uri, port>>

-----------------------------------------------------------------------------
(* subscriber_listener and tcp_ros_request.                                *)

ListenerStep(from, to) ==
  /\ Alive
  /\ listener = from
  /\ listener' = to
  /\ UNCHANGED <<ros_ok, node_mux, mainVars, uri, port>>

\* sub->status is never TOPIC_DOWN once the listener runs.
TestRunning ==
  /\ ListenerStep("test", IF ros_ok THEN "uri" ELSE "done")
  /\ UNCHANGED <<status, askVars, ep, crashed, raced, late>>

TestUri ==
  /\ ListenerStep("uri", IF uri \in Empty THEN "test" ELSE "status")
  /\ UNCHANGED <<status, askVars, ep, crashed, raced, late>>

TestStatus ==
  /\ ListenerStep("status", IF status = "REFRESH" THEN "loadBoth" ELSE "connect")
  /\ raced' = (raced /\ status # "REFRESH")
  /\ UNCHANGED <<status, askVars, ep, crashed, late>>

\* The arguments of send_post_request are loaded in either order; a NULL uri
\* is dereferenced by inet_aton in request_socket.
LoadUri ==
  /\ \/ ListenerStep("loadBoth", "loadPort")
     \/ ListenerStep("loadUri", "request")
  /\ ask_uri' = uri
  /\ UNCHANGED <<status, ask_port, ep, crashed, raced, late>>

LoadPort ==
  /\ \/ ListenerStep("loadBoth", "loadUri")
     \/ ListenerStep("loadPort", "request")
  /\ ask_port' = port
  /\ UNCHANGED <<status, ask_uri, ep, crashed, raced, late>>

\* requestTopic is answered, if the address is somebody's, or fails.
RequestTopic ==
  /\ \/ ask_uri \in Empty /\ ListenerStep("request", "done") /\ crashed' = "uri"
     \/ /\ ask_uri \notin Empty /\ ask_uri = ask_port
        /\ ListenerStep("request", "active")
        /\ UNCHANGED crashed
     \/ ask_uri \notin Empty /\ ListenerStep("request", "connect") /\ UNCHANGED crashed
  /\ UNCHANGED <<status, askVars, ep, raced, late>>

\* Mutant: the status is marked with a constant of the data, TOPIC_DATA_OK.
SetActiveData ==
  /\ ListenerStep("active", "connect")
  /\ node_mux = "free"
  /\ status' = "OK"
  /\ ep' = ask_uri
  /\ UNCHANGED <<askVars, crashed, raced, late>>

\* The topic becomes active under the mutex and the endpoint is taken from
\* the reply; that of a publisher that is still starting has port 0.
SetActive ==
  /\ ListenerStep("active", "connect")
  /\ node_mux = "free"
  /\ status' = "ACTIVE"
  /\ ep' \in {ask_uri, 0}
  /\ UNCHANGED <<askVars, crashed, raced, late>>

\* tcp_ros_request connects to the endpoint and exchanges headers, or fails.
Connect ==
  /\ \E to \in {"recv", "test"} :
       /\ to = "recv" => ep # 0
       /\ ListenerStep("connect", to)
  /\ late' = 0
  /\ UNCHANGED <<status, askVars, ep, crashed, raced>>

\* recv() fails or times out, or the callback runs: with a message, or, when
\* the publisher has closed the connection, with an empty one.
Receive ==
  /\ \/ ListenerStep("recv", "test") /\ UNCHANGED late
     \/ /\ \E to \in {"check", "test"} : ListenerStep("recv", to)
        /\ late' = IF (status = "ACTIVE" /\ ros_ok) \/ late = 2 THEN late ELSE late + 1
  /\ UNCHANGED <<status, askVars, ep, crashed, raced>>

\* Mutant: the connection is kept until the publisher closes it.
KeepConnection ==
  /\ ListenerStep("check", IF ros_ok THEN "recv" ELSE "test")
  /\ UNCHANGED <<status, askVars, ep, crashed, raced, late>>

\* Mutant: "should have ros_ok".
KeepRunning ==
  /\ ListenerStep("check", IF status = "ACTIVE" THEN "recv" ELSE "test")
  /\ UNCHANGED <<status, askVars, ep, crashed, raced, late>>

CheckConnection ==
  /\ ListenerStep("check", IF status = "ACTIVE" /\ ros_ok THEN "recv" ELSE "test")
  /\ UNCHANGED <<status, askVars, ep, crashed, raced, late>>

-----------------------------------------------------------------------------
(* SIGINT: stros_stop on top of the main thread.                           *)

Interrupt ==
  /\ Alive
  /\ main \in {"register", "extract", "spin"}
  /\ main' = "stopping"
  /\ UNCHANGED <<ros_ok, node_mux, extract, arg, master, delivered, topicVars,
                 listener, askVars, ep, crashed, raced, late>>

StopToggle ==
  /\ Alive
  /\ main = "stopping"
  /\ node_mux = "free"
  /\ main' = "exited"
  /\ ros_ok' = FALSE
  /\ UNCHANGED <<node_mux, extract, arg, master, delivered, topicVars,
                 listener, askVars, ep, crashed, raced, late>>

-----------------------------------------------------------------------------

Extract(t) == ExtractUri(t) \/ ExtractPort(t) \/ ExtractStatus(t)
Main == Register \/ CreateListener \/ Extract("main") \/ Interrupt \/ StopToggle
Worker == PublisherUpdate \/ Extract("worker")
Listener ==
  \/ TestRunning \/ TestUri \/ TestStatus \/ LoadUri \/ LoadPort
  \/ RequestTopic \/ SetActive \/ Connect \/ Receive \/ CheckConnection

Next == MasterChange \/ Main \/ Worker \/ Listener

Spec == Init /\ [][Next]_vars

\* Every thread that can run goes on: all of the listener's socket calls have
\* a timeout of CONN_TIME_OUT_S and the callback returns.
Fairness ==
  /\ WF_vars(Extract("main") \/ CreateListener)
  /\ WF_vars(StopToggle)
  /\ WF_vars(Worker)
  /\ WF_vars(Listener)

FairSpec == Spec /\ Fairness

-----------------------------------------------------------------------------
(* Properties that hold.                                                   *)

\* An update that is half written; it stays so if the stop handler
\* interrupted the main thread there.
Updating == \E t \in Writers : extract[t] \in {"port", "status"}

\* Two extract_url calls, of the registration and of a publisherUpdate, do
\* not mix their addresses: whenever none is half way, uri and port are of
\* the same list.
AddressConsistent == Updating \/ uri = port

\* A topic that is active uses the endpoint of the publisher its address
\* names, or none, unless an update landed while requestTopic was asking an
\* older publisher: then, and only then, the update's TOPIC_REFRESH is
\* overwritten by TOPIC_ACTIVE and lost.
StaleOnlyByRace ==
  status = "ACTIVE" /\ ~raced /\ ~Updating => ep \in {uri, 0}

\* After an update, or after the stop, a connection runs at most one more
\* callback: for the message it was receiving.
OneLateCallback == late <= 1

\* Once stros_ok() is false the listener ends, if it was ever created.
StopEndsListener ==
  ~ros_ok ~> listener \in {"none", "done"} \/ ~Alive

\* A connection ends after an update, however much its publisher sends.
RefreshEndsConnection ==
  status = "REFRESH" /\ listener \in {"recv", "check"}
    ~> listener \notin {"recv", "check"}

\* The node is stopping, or has died.
Leaving == main \in {"stopping", "exited"} \/ ~Alive

\* The publisher of every list that reaches the topic is asked for its
\* endpoint, unless a later list replaces it, the node stops, or the refresh
\* is lost by the race of StaleOnlyByRace.
UpdateRequestedUnlessRaced ==
  \A e \in Lists \ Empty :
    uri = e /\ listener # "none" ~> ask_uri = e \/ uri # e \/ raced \/ Leaving

\* Two threads apply lists, the main thread that of the registration's reply
\* and workers the later ones, in any order.  When both are done the topic
\* has the last list the master sent or, the only other way it can go, the
\* one of the reply, applied over a later list that overtook it.
LastListOrReply ==
  main = "spin" /\ listener # "none" /\ extract["worker"] = "idle"
    => uri \in {delivered, arg["main"]}

-----------------------------------------------------------------------------
(* Properties that the documents state and the code does not have.         *)

\* stros.h:49, "use mutex to prevent data race condition": the test of
\* sub->uri still holds when the uri is used.
NoNullPeer == crashed # "uri"
=============================================================================
