-------------------------- MODULE RpcServerProofs --------------------------
(***************************************************************************)
(* Proofs about RpcServer for every set of clients, whatever they ask, and *)
(* either behaviour of select(): type correctness, that a request is       *)
(* answered once and its socket closed, with the exceptions that           *)
(* AnsweredAndClosed names, and which requests can kill the process.       *)
(***************************************************************************)
EXTENDS RpcServer, TLAPS

\* Only the step that ends a thread answers, and a request reaches its method
\* when all of it has come or a part has been taken for it.
WorkerInv ==
  \A c \in Clients :
    /\ worker[c] # "done" => answers[c] = 0
    /\ worker[c] = "handle" => sent[c] = 3 \/ c \in cut

\* A read ends early only where recv() fails.
CutInv == cut \subseteq gone \cup timed

IInv == TypeOK /\ WorkerInv /\ CutInv /\ AnsweredAndClosed /\ WholeRequestsSurvive

-----------------------------------------------------------------------------

\* The initial state satisfies the inductive invariant.
LEMMA InitInv == Init => IInv
<1> SUFFICES ASSUME Init PROVE IInv
  OBVIOUS
<1> USE DEF Init
<1>1. TypeOK
  BY DEF TypeOK, Running, Requests
<1>2. WorkerInv /\ CutInv /\ AnsweredAndClosed /\ WholeRequestsSurvive
  BY DEF WorkerInv, CutInv, AnsweredAndClosed, WholeRequestsSurvive
<1>3. QED
  BY <1>1, <1>2 DEF IInv

\* A step of the server's loop moves no connection out of the queue but to
\* the start of its thread, and answers nobody.
LEMMA ServerKeeps == ASSUME IInv, Server PROVE IInv'
<1> USE DEF IInv, ServerStep, socketVars, clientVars
<1>1. CASE Test \/ SelectTimeout \/ SelectFails
  BY <1>1 DEF Test, SelectTimeout, SelectFails, TypeOK, WorkerInv, CutInv,
     AnsweredAndClosed, WholeRequestsSurvive
<1>2. ASSUME NEW c \in Clients, Accept(c) \/ AcceptFails(c)
      PROVE  IInv'
  <2> PICK to \in {"line", "dropped"} : worker' = [worker EXCEPT ![c] = to]
    BY <1>2 DEF Accept, AcceptFails
  <2>1. TypeOK'
    BY <1>2 DEF Accept, AcceptFails, TypeOK, Running
  <2>2. /\ worker[c] = "queued"
        /\ UNCHANGED <<request, sent, gone, cut, answers, crashed>>
        /\ timed \subseteq timed'
    BY <1>2 DEF Accept, AcceptFails
  <2>3. \A d \in Clients \ {c} : worker'[d] = worker[d] /\ (d \in open' => d \in open)
    BY <1>2 DEF Accept, AcceptFails, TypeOK
  <2>4. worker'[c] = to
    BY DEF TypeOK
  <2>5. WorkerInv' /\ AnsweredAndClosed'
    BY <2>2, <2>3, <2>4 DEF WorkerInv, AnsweredAndClosed
  <2>6. CutInv' /\ WholeRequestsSurvive'
    BY <2>2 DEF CutInv, WholeRequestsSurvive
  <2>7. QED
    BY <2>1, <2>5, <2>6
<1>3. QED
  BY <1>1, <1>2 DEF Server

\* A client moves only its own connection, and only while it is not done.
LEMMA ClientKeeps == ASSUME IInv, NEW c \in Clients, Client(c) PROVE IInv'
<1> USE DEF IInv, Running, socketVars, CutInv
<1>0. crashed = {} /\ crashed' = {}
  BY DEF Client, ClientConnects, ClientSends, ClientLeaves, Alive
<1>1. CASE ClientConnects(c)
  <2>1. PICK r \in MayAsk[c] : request' = [request EXCEPT ![c] = r]
    BY <1>1 DEF ClientConnects
  <2>2. r \in Requests
    BY RpcServerAssumption
  <2>3. TypeOK'
    BY <1>1, <2>1, <2>2 DEF ClientConnects, TypeOK
  <2>4. QED
    BY <1>0, <1>1, <2>1, <2>3 DEF ClientConnects, TypeOK, WorkerInv,
       AnsweredAndClosed, WholeRequestsSurvive
<1>2. CASE ClientSends(c)
  <2>1. Reading[worker[c]] \in 1..3
    BY <1>2 DEF ClientSends, Reading
  <2>2. TypeOK'
    BY <1>2, <2>1 DEF ClientSends, TypeOK
  <2>3. worker[c] \in {"line", "headers", "body"}
    BY <1>2 DEF ClientSends, Reading
  <2>4. QED
    BY <1>0, <1>2, <2>2, <2>3 DEF ClientSends, TypeOK, WorkerInv,
       AnsweredAndClosed, WholeRequestsSurvive
<1>3. CASE ClientLeaves(c)
  BY <1>0, <1>3 DEF ClientLeaves, TypeOK, WorkerInv, AnsweredAndClosed,
     WholeRequestsSurvive
<1>4. QED
  BY <1>1, <1>2, <1>3 DEF Client

\* What is read in part is the request of a client that has closed, or whose
\* socket has a timeout.
LEMMA TakeKeeps ==
  ASSUME IInv, NEW c \in Clients, NEW piece, Take(c, piece) \/ UNCHANGED cut
  PROVE  cut \subseteq cut' /\ cut' \subseteq Clients /\ cut' \subseteq gone \cup timed
BY DEF IInv, TypeOK, CutInv, Take, RecvFails

\* What the steps of a worker have in common: another connection does not
\* notice them.
LEMMA WorkerFrame ==
  ASSUME IInv, NEW c \in Clients, NEW from, NEW to \in Running \cup {"done"},
         from \in Running, NEW n \in {0, 1}, WorkerStep(c, from, to),
         answers' = [answers EXCEPT ![c] = @ + n], open' \in {open, open \ {c}},
         cut \subseteq cut', cut' \subseteq Clients, cut' \subseteq gone \cup timed,
         to # "done" => n = 0,
         to = "handle" => sent[c] = 3 \/ c \in cut',
         to = "done" =>
           \/ /\ request[c] = "unknown" /\ (sent[c] = 3 \/ c \in cut')
              /\ n = 0 /\ c \notin open'
           \/ n = 1 /\ (c \in open' => request[c] = "get" \/ sent[c] = 0)
  PROVE  IInv'
<1> USE DEF IInv, WorkerStep, clientVars
<1>1. answers[c] = 0
  BY DEF WorkerInv, Running
<1>2. answers'[c] = n /\ worker'[c] = to
  BY <1>1 DEF TypeOK
<1>3. TypeOK'
  BY <1>1, <1>2 DEF TypeOK, Running
<1>4. \A d \in Clients \ {c} :
        worker'[d] = worker[d] /\ answers'[d] = answers[d] /\ (d \in open' => d \in open)
  BY DEF TypeOK
<1>5. WorkerInv' /\ AnsweredAndClosed'
  BY <1>2, <1>4 DEF WorkerInv, AnsweredAndClosed
<1>6. CutInv' /\ WholeRequestsSurvive'
  BY DEF CutInv, WholeRequestsSurvive, Alive
<1>7. QED
  BY <1>3, <1>5, <1>6

\* A crash changes nothing else, and is over a request that is ill-formed or
\* has been read in part.
LEMMA CrashFrame ==
  ASSUME IInv, NEW c \in Clients, NEW at, Crash(c, at),
         cut \subseteq cut', cut' \subseteq Clients, cut' \subseteq gone \cup timed,
         request[c] \in Fatal \/ c \in cut'
  PROVE  IInv'
<1> USE DEF IInv, Crash, clientVars, socketVars
<1>1. TypeOK'
  BY DEF TypeOK
<1>2. WorkerInv' /\ AnsweredAndClosed'
  BY DEF WorkerInv, AnsweredAndClosed
<1>3. CutInv' /\ WholeRequestsSurvive'
  BY DEF CutInv, WholeRequestsSurvive
<1>4. QED
  BY <1>1, <1>2, <1>3

\* The thread of a connection answers once, when it ends, or kills the
\* process.
LEMMA WorkerKeeps == ASSUME IInv, NEW c \in Clients, Worker(c) PROVE IInv'
<1>0. answers = [answers EXCEPT ![c] = @ + 0]
  BY DEF IInv, TypeOK
<1>1. sent[c] \in 0..3
  BY DEF IInv, TypeOK
<1>2. CASE ReadLineNotPost(c)
  <2>1. request[c] = "get" \/ sent[c] = 0
    BY <1>1, <1>2 DEF ReadLineNotPost, RecvFails
  <2>2. WorkerStep(c, "line", "done") /\ Answer(c, 1) /\ open' = open /\ cut' = cut
    BY <1>2 DEF ReadLineNotPost
  <2>3. QED
    BY <2>1, <2>2, TakeKeeps, WorkerFrame DEF Answer, Running
<1>3. CASE ReadLineOtherUrl(c)
  BY <1>3, TakeKeeps, WorkerFrame DEF ReadLineOtherUrl, Answer, Close, Running
<1>4. CASE ReadLine(c)
  BY <1>0, <1>4, TakeKeeps, WorkerFrame DEF ReadLine, Running
<1>5. CASE ReadHeadersFails(c)
  <2>1. Take(c, 2)
    BY <1>5 DEF ReadHeadersFails
  <2>2. QED
    BY <1>5, <2>1, TakeKeeps, WorkerFrame DEF ReadHeadersFails, Answer, Close, Running
<1>6. CASE ReadHeadersCrash(c)
  BY <1>6, TakeKeeps, CrashFrame DEF ReadHeadersCrash, LooksLike, Fatal
<1>7. CASE ReadHeaders(c)
  BY <1>0, <1>7, TakeKeeps, WorkerFrame DEF ReadHeaders, Running
<1>8. CASE ReadBodyFails(c)
  BY <1>8, TakeKeeps, WorkerFrame DEF ReadBodyFails, Answer, Close, Running
<1>9. CASE ReadBodyCrash(c)
  BY <1>9, TakeKeeps, CrashFrame DEF ReadBodyCrash, LooksLike, Fatal
<1>10. CASE ReadBody(c)
  <2>1. sent[c] = 3 \/ c \in cut'
    BY <1>1, <1>10 DEF ReadBody, Take
  <2>2. QED
    BY <1>0, <1>10, <2>1, TakeKeeps, WorkerFrame DEF ReadBody, Running
<1>11. CASE Handle(c)
  <2>1. cut' = cut /\ (sent[c] = 3 \/ c \in cut)
    BY <1>11 DEF Handle, WorkerStep, IInv, WorkerInv
  <2>2. CASE request[c] = "unknown"
    BY <1>11, <2>1, <2>2, TakeKeeps, WorkerFrame DEF Handle, Answer, Close, Running
  <2>3. CASE request[c] # "unknown"
    BY <1>11, <2>1, <2>3, TakeKeeps, WorkerFrame DEF Handle, Answer, Close, Running
  <2>4. QED
    BY <2>2, <2>3
<1>12. CASE HandleCrash(c)
  BY <1>12, TakeKeeps, CrashFrame DEF HandleCrash, LooksLike, Fatal
<1>13. QED
  BY <1>2, <1>3, <1>4, <1>5, <1>6, <1>7, <1>8, <1>9, <1>10, <1>11, <1>12 DEF Worker

\* The inductive invariant holds throughout.
LEMMA InductiveInvariant == Spec => []IInv
<1>1. IInv /\ [Next]_vars => IInv'
  <2> SUFFICES ASSUME IInv, [Next]_vars PROVE IInv'
    OBVIOUS
  <2>1. CASE Stop
    BY <2>1 DEF Stop, IInv, TypeOK, WorkerInv, CutInv, AnsweredAndClosed,
       WholeRequestsSurvive, clientVars, socketVars
  <2>2. CASE UNCHANGED vars
    BY <2>2 DEF vars, IInv, TypeOK, WorkerInv, CutInv, AnsweredAndClosed,
       WholeRequestsSurvive, clientVars, socketVars
  <2>3. QED
    BY <2>1, <2>2, ServerKeeps, ClientKeeps, WorkerKeeps DEF Next
<1>2. QED
  BY InitInv, <1>1, PTL DEF Spec

-----------------------------------------------------------------------------

\* The variables of the server keep their types; in particular no client is
\* ever sent two answers.
THEOREM TypeCorrect == Spec => []TypeOK
<1>1. IInv => TypeOK
  BY DEF IInv
<1>2. QED
  BY InductiveInvariant, <1>1, PTL

\* A thread that ends has answered its client once and closed its socket, with
\* the exceptions AnsweredAndClosed names, wherever its client stopped:
\* stros_accept_request has no path on which a bad request is answered and then
\* handled.
THEOREM WorkersAnswerAndClose == Spec => []AnsweredAndClosed
<1>1. IInv => AnsweredAndClosed
  BY DEF IInv
<1>2. QED
  BY InductiveInvariant, <1>1, PTL

\* A request that is well-formed, and comes whole from a client that neither
\* closes nor is timed out, does not kill the process.
THEOREM OnlyCutOrFatalCrash == Spec => []WholeRequestsSurvive
<1>1. IInv => WholeRequestsSurvive
  BY DEF IInv
<1>2. QED
  BY InductiveInvariant, <1>1, PTL
=============================================================================
