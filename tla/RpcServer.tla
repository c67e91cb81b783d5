------------------------------ MODULE RpcServer ------------------------------
(***************************************************************************)
(* The XML-RPC server of a STRos node: the loop of xmlprc_run around       *)
(* select() and accept(), and the detached thread stros_accept_request per *)
(* connection, which reads one request, answers it and closes the socket.  *)
(*                                                                         *)
(* The loop sets `timeout` once.  select() on Linux leaves in it the time  *)
(* that was left, other systems leave it alone (UsesUpTimeout); the loop   *)
(* gives accepted sockets the value it then has, and 0 means no timeout.   *)
(*                                                                         *)
(* A request comes in three pieces: its first line, its headers and its    *)
(* body.  A client may stop sending, or close, before or inside any of     *)
(* them; a read then takes what it got for the piece, whatever that is, and*)
(* some requests, ill-formed or cut, kill the process: nothing moves then. *)
(***************************************************************************)
EXTENDS Naturals

CONSTANTS Clients,        \* the connections made to the server
          MayAsk,         \* the kinds of request each of them may make
          UsesUpTimeout   \* select() writes the time left to its argument

VARIABLES
  ros_ok,   \* the node's run flag
  server,   \* where xmlprc_run is
  timeout,  \* its variable: "some" time, or "zero"
  worker,   \* where each connection is: with the client, queued, in a thread
  request,  \* what each client asks
  sent,     \* how many pieces of it have come
  gone,     \* the clients that have closed or reset their connection
  cut,      \* the requests whose headers or body were read in part
  timed,    \* the accepted sockets that have a receive timeout
  open,     \* the accepted sockets that are not closed
  answers,  \* how many answers each client was sent
  crashed   \* the client, at most one, whose thread killed the process

socketVars == <<timed, open>>
clientVars == <<request, sent, gone>>
vars ==
  <<ros_ok, server, timeout, worker, clientVars, socketVars, cut, answers, crashed>>

\* Not a POST; a POST to another URL; without a type or length; with a line of
\* either that has no colon; with a length below -1; not a method call in XML;
\* no XML element at all; a method call whose name, or a parameter the method
\* reads, is missing or of another type; one that the node does not know; one
\* that it does.
Requests == {"get", "otherUrl", "noLength", "noColon", "negative", "notXml",
             "empty", "illFormed", "unknown", "call"}
\* Those that kill the process when all of them has come.
Fatal == {"noColon", "empty", "illFormed"}

ASSUME RpcServerAssumption ==
  /\ MayAsk \in [Clients -> SUBSET Requests]
  /\ UsesUpTimeout \in BOOLEAN

Running == {"line", "headers", "body", "handle"}

TypeOK ==
  /\ ros_ok \in BOOLEAN
  /\ server \in {"test", "select", "closed"}
  /\ timeout \in {"some", "zero"}
  /\ worker \in [Clients -> {"away", "queued", "dropped", "done"} \cup Running]
  /\ request \in [Clients -> Requests \cup {"none"}]
  /\ sent \in [Clients -> 0..3]
  /\ gone \subseteq Clients
  /\ timed \subseteq Clients
  /\ open \subseteq Clients
  /\ cut \subseteq Clients
  /\ answers \in [Clients -> 0..1]
  /\ crashed \subseteq Clients

Init ==
  /\ ros_ok = TRUE
  /\ server = "test"
  /\ timeout = "some"
  /\ worker = [c \in Clients |-> "away"]
  /\ request = [c \in Clients |-> "none"]
  /\ sent = [c \in Clients |-> 0]
  /\ gone = {}
  /\ timed = {}
  /\ open = {}
  /\ cut = {}
  /\ answers = [c \in Clients |-> 0]
  /\ crashed = {}

Alive == crashed = {}

-----------------------------------------------------------------------------
(* The clients, which are external, and stros_toggle(false).               *)

ClientConnects(c) ==
  /\ Alive
  /\ server # "closed"
  /\ worker[c] = "away"
  /\ worker' = [worker EXCEPT ![c] = "queued"]
  /\ \E r \in MayAsk[c] : request' = [request EXCEPT ![c] = r]
  /\ UNCHANGED <<ros_ok, server, timeout, sent, gone, socketVars, cut, answers,
                 crashed>>

\* The number of the piece that a thread reads.
Reading == [line |-> 1, headers |-> 2, body |-> 3]

\* What comes before the thread reads it waits in the socket, and so does the
\* end of the stream; neither is seen, nor counted, until then.
ClientSends(c) ==
  /\ Alive
  /\ worker[c] \in DOMAIN Reading
  /\ c \notin gone
  /\ sent[c] < Reading[worker[c]]
  /\ sent' = [sent EXCEPT ![c] = @ + 1]
  /\ UNCHANGED <<ros_ok, server, timeout, worker, request, gone, socketVars,
                 cut, answers, crashed>>

ClientLeaves(c) ==
  /\ Alive
  /\ worker[c] \in Running \cup {"queued"}
  /\ c \notin gone
  /\ gone' = gone \cup {c}
  /\ UNCHANGED <<ros_ok, server, timeout, worker, request, sent, socketVars,
                 cut, answers, crashed>>

Stop ==
  /\ Alive
  /\ ros_ok
  /\ ros_ok' = FALSE
  /\ UNCHANGED <<server, timeout, worker, clientVars, socketVars, cut, answers,
                 crashed>>

-----------------------------------------------------------------------------
(* xmlprc_run.                                                             *)

ServerStep(from, to) ==
  /\ Alive
  /\ server = from
  /\ server' = to
  /\ UNCHANGED <<ros_ok, clientVars, cut, answers, crashed>>

\* Mutant: the loop waits for a connection before it looks at stros_ok().
TestWhenQueued ==
  /\ \E c \in Clients : worker[c] = "queued"
  /\ ServerStep("test", IF ros_ok THEN "select" ELSE "closed")
  /\ UNCHANGED <<timeout, worker, socketVars>>

Test ==
  /\ ServerStep("test", IF ros_ok THEN "select" ELSE "closed")
  /\ UNCHANGED <<timeout, worker, socketVars>>

\* select() returns without a connection after the time it was given.
SelectTimeout ==
  /\ ServerStep("select", "test")
  /\ \A c \in Clients : worker[c] # "queued"
  /\ timeout' = IF UsesUpTimeout THEN "zero" ELSE timeout
  /\ UNCHANGED <<worker, socketVars>>

\* select() fails, as when a signal interrupts it.
SelectFails ==
  /\ ServerStep("select", "test")
  /\ UNCHANGED <<timeout, worker, socketVars>>

\* A connection is there, and some of the time is left if some was.  It is
\* accepted, given the timeout, and a thread; if there is no thread to be had
\* the socket is forgotten.
Accept(c) ==
  /\ ServerStep("select", "test")
  /\ worker[c] = "queued"
  /\ \E to \in {"line", "dropped"} : worker' = [worker EXCEPT ![c] = to]
  /\ timed' = IF timeout = "some" THEN timed \cup {c} ELSE timed
  /\ open' = open \cup {c}
  /\ UNCHANGED timeout

\* accept() fails: the client has given up meanwhile.
AcceptFails(c) ==
  /\ ServerStep("select", "test")
  /\ worker[c] = "queued" /\ c \in gone
  /\ worker' = [worker EXCEPT ![c] = "dropped"]
  /\ UNCHANGED <<timeout, socketVars>>

-----------------------------------------------------------------------------
(* stros_accept_request and what it calls.                                 *)

\* Mutant: the timeout is not set on accepted sockets.
RecvFailsAtEnd(c, piece) == sent[c] < piece /\ c \in gone

\* Mutant: recv() does not wait for what has not come yet.
RecvFailsAtOnce(c, piece) == sent[c] < piece

\* recv() in the given piece of the request ends without a byte: the client
\* has closed, or is silent longer than the socket's timeout.
RecvFails(c, piece) == sent[c] < piece /\ (c \in gone \/ c \in timed)

WorkerStep(c, from, to) ==
  /\ Alive
  /\ worker[c] = from
  /\ worker' = [worker EXCEPT ![c] = to]
  /\ UNCHANGED <<ros_ok, server, timeout, clientVars, timed, crashed>>

\* Headers and body are read to their end, or as far as they have come.
Take(c, piece) ==
  \/ sent[c] >= piece /\ UNCHANGED cut
  \/ RecvFails(c, piece) /\ cut' = cut \cup {c}

\* What has been taken can be one of the requests in kinds: a part may look
\* like anything.
LooksLike(c, kinds) == c \in cut' \/ request[c] \in kinds

\* The thread ends after n answers; the socket is closed, or not.
Answer(c, n) == answers' = [answers EXCEPT ![c] = @ + n]
Close(c) == open' = open \ {c}

\* A NULL pointer is used: trim() of a header without a value, the root of an
\* empty document, strdup() of no name, or the value of a missing parameter.
Crash(c, at) ==
  /\ Alive
  /\ worker[c] = at
  /\ crashed' = {c}
  /\ UNCHANGED <<ros_ok, server, timeout, worker, clientVars, socketVars, answers>>

\* Not a POST, or cut before that can be seen: answered, and left open.
ReadLineNotPost(c) ==
  /\ WorkerStep(c, "line", "done")
  /\ RecvFails(c, 1) \/ (sent[c] >= 1 /\ request[c] = "get")
  /\ Answer(c, 1)
  /\ UNCHANGED <<open, cut>>

\* Mutant: another URL is left open like another method.
ReadLineOtherUrlOpen(c) ==
  /\ WorkerStep(c, "line", "done")
  /\ sent[c] >= 1 /\ request[c] = "otherUrl"
  /\ Answer(c, 1)
  /\ UNCHANGED <<open, cut>>

\* A POST to another URL, or cut inside the URL.
ReadLineOtherUrl(c) ==
  /\ WorkerStep(c, "line", "done")
  /\ \/ RecvFails(c, 1) /\ request[c] # "get"
     \/ sent[c] >= 1 /\ request[c] = "otherUrl"
  /\ Answer(c, 1)
  /\ Close(c)
  /\ UNCHANGED cut

\* A POST to RPC_URI.  A line that is cut after it will do: if the rest comes
\* later it is read as a header, and ignored.
ReadLine(c) ==
  /\ WorkerStep(c, "line", "headers")
  /\ \/ RecvFails(c, 1) /\ request[c] # "get"
     \/ sent[c] >= 1 /\ request[c] \notin {"get", "otherUrl"}
  /\ UNCHANGED <<open, answers, cut>>

\* decode_rpc_data without a type or a length: bad request.
ReadHeadersFails(c) ==
  /\ WorkerStep(c, "headers", "done")
  /\ Take(c, 2) /\ LooksLike(c, {"noLength"})
  /\ Answer(c, 1)
  /\ Close(c)

\* A line of Content-Type or Content-Length that ends before its colon: the
\* second strsep() returns NULL.
ReadHeadersCrash(c) ==
  /\ Crash(c, "headers")
  /\ Take(c, 2) /\ LooksLike(c, {"noColon"})

\* Both are there, perhaps with a part of the length.
ReadHeaders(c) ==
  /\ WorkerStep(c, "headers", "body")
  /\ Take(c, 2) /\ request[c] \notin {"noLength", "noColon"}
  /\ UNCHANGED <<open, answers>>

\* The loop over the body ends, after one timeout for each byte that does not
\* come; with a negative length, which as a size_t is close to 2^64, it does
\* not.
BodyEnds(c) == request[c] # "negative" \/ c \in cut

\* Mutant: a body that is no method call is answered and then handled.
ReadBodyFailsOn(c) ==
  /\ WorkerStep(c, "body", "handle")
  /\ BodyEnds(c) /\ Take(c, 3) /\ LooksLike(c, {"notXml"})
  /\ Answer(c, 1)
  /\ UNCHANGED open

\* The body is not XML, or not a method call: bad request.
ReadBodyFails(c) ==
  /\ WorkerStep(c, "body", "done")
  /\ BodyEnds(c) /\ Take(c, 3) /\ LooksLike(c, {"notXml"})
  /\ Answer(c, 1)
  /\ Close(c)

\* The document is empty, or the name of the method or a value has no text.
ReadBodyCrash(c) ==
  /\ Crash(c, "body")
  /\ BodyEnds(c) /\ Take(c, 3) /\ LooksLike(c, {"empty", "illFormed"})

\* A method call.  Tags that are not closed when the text ends do not matter
\* to the parser, so that a cut call may have its first parameters only.
ReadBody(c) ==
  /\ WorkerStep(c, "body", "handle")
  /\ BodyEnds(c) /\ Take(c, 3) /\ request[c] \notin {"notXml", "empty"}
  /\ UNCHANGED <<open, answers>>

\* xml_rpc_api_handler: publisherUpdate and requestTopic answer, with a
\* result or a bad request; other methods are logged.
Handle(c) ==
  /\ WorkerStep(c, "handle", "done")
  /\ Answer(c, IF request[c] = "unknown" THEN 0 ELSE 1)
  /\ Close(c)
  /\ UNCHANGED cut

\* publisherUpdate and requestTopic use the value of a parameter that is not
\* there, or take a number for a string or a list.
HandleCrash(c) ==
  /\ Crash(c, "handle")
  /\ request[c] # "unknown" /\ UNCHANGED cut /\ LooksLike(c, {"illFormed"})

-----------------------------------------------------------------------------

Client(c) == ClientConnects(c) \/ ClientSends(c) \/ ClientLeaves(c)
Server ==
  \/ Test \/ SelectTimeout \/ SelectFails
  \/ \E c \in Clients : Accept(c) \/ AcceptFails(c)
Worker(c) ==
  \/ ReadLineNotPost(c) \/ ReadLineOtherUrl(c) \/ ReadLine(c)
  \/ ReadHeadersFails(c) \/ ReadHeadersCrash(c) \/ ReadHeaders(c)
  \/ ReadBodyFails(c) \/ ReadBodyCrash(c) \/ ReadBody(c)
  \/ Handle(c) \/ HandleCrash(c)

Next == Stop \/ Server \/ \E c \in Clients : Client(c) \/ Worker(c)

Spec == Init /\ [][Next]_vars

\* The node's threads run on whenever their calls return.  Clients connect,
\* send and leave as they like.
FairSpec == Spec /\ WF_vars(Server) /\ \A c \in Clients : WF_vars(Worker(c))

-----------------------------------------------------------------------------
(* Properties that hold.                                                   *)

\* A thread that ends has answered its client exactly once, except that an
\* unknown method gets no answer, and has closed its socket, except that of a
\* request whose first line is not a POST or did not come whole.
AnsweredAndClosed ==
  \A c \in Clients : worker[c] = "done" =>
    \/ /\ request[c] = "unknown" /\ (sent[c] = 3 \/ c \in cut)
       /\ answers[c] = 0 /\ c \notin open
    \/ /\ answers[c] = 1
       /\ c \in open => request[c] = "get" \/ sent[c] = 0

\* A thread kills the process only over an ill-formed request, or over one
\* whose client closed, or could be timed out, before all of it was there.
WholeRequestsSurvive ==
  \A c \in crashed : request[c] \in Fatal \/ c \in cut \cap (gone \cup timed)

\* The loop ends after the stop, with or without further connections.
LoopEnds == ~ros_ok ~> server = "closed" \/ ~Alive

\* A thread that reads or answers a request, whose length is not negative.
Serving(c) == worker[c] \in Running /\ request[c] # "negative"

\* The thread of a socket with a timeout ends, even if its client falls
\* silent.
TimedWorkersEnd ==
  \A c \in Clients : Serving(c) /\ c \in timed ~> worker[c] = "done" \/ ~Alive

-----------------------------------------------------------------------------
(* A property that the documents state and the code does not have.         *)

\* stros.c:423-425, "if a client is crash while the server is accepting the
\* socket, we enter another block situation, so we need a way out for that":
\* whatever a client does, the thread that serves it ends.
WayOut == \A c \in Clients : Serving(c) ~> worker[c] = "done" \/ ~Alive
=============================================================================
