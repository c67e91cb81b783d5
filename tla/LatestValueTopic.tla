-------------------------- MODULE LatestValueTopic --------------------------
(***************************************************************************)
(* What a published topic promises: it holds one message, the latest; a    *)
(* connection that sends, sends that message, and not more than twice in a *)
(* row, nor anything before the first publish().  Only a topic that is     *)
(* being stopped may send once more, whatever it holds.  Messages are      *)
(* numbers, in the order of the publish() calls.  Which connection sends   *)
(* is not promised.                                                        *)
(***************************************************************************)
EXTENDS Naturals

CONSTANT Conns     \* the connections

VARIABLES latest,  \* the number of the latest message, 0 for none
          sent,    \* per connection, the message it sent last
          times,   \* per connection, how often in a row it sent that one
          running  \* the node runs

state == <<latest, sent, times, running>>

Init ==
  /\ latest = 0
  /\ sent = [c \in Conns |-> 0]
  /\ times = [c \in Conns |-> 0]
  /\ running = TRUE

Publish ==
  /\ running
  /\ latest' = latest + 1
  /\ UNCHANGED <<sent, times, running>>

\* How often in a row a connection may send one message.
Allowed == IF running THEN 2 ELSE 3

Send(c) ==
  /\ running => latest > 0
  /\ sent[c] = latest => times[c] < Allowed
  /\ sent' = [sent EXCEPT ![c] = latest]
  /\ times' = [times EXCEPT ![c] = IF sent[c] = latest THEN @ + 1 ELSE 1]
  /\ UNCHANGED <<latest, running>>

Stop == running /\ running' = FALSE /\ UNCHANGED <<latest, sent, times>>

Next == Publish \/ Stop \/ \E c \in Conns : Send(c)

Spec == Init /\ [][Next]_state
=============================================================================
