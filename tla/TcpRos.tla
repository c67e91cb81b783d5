------------------------------- MODULE TcpRos -------------------------------
(***************************************************************************)
(* One TCPROS connection, of which at least one end is a STRos node: the   *)
(* connection headers (gen_tcp_header_for, verify_ros_header), the frames  *)
(* of the messages (tcp_send_string) and how tcp_ros_request reads them    *)
(* back (ros_data, ros_string).  The other end may be a STRos node too, or *)
(* a ROS node (external).                                                  *)
(*                                                                         *)
(* A TCP stream is a sequence of chunks: a header, the 4 byte words that   *)
(* carry the size of a frame and the length of a string, and the content   *)
(* of a message in one or two pieces.  Each chunk arrives in a step of its *)
(* own, so a recv may find a part of what it asks for; and a send may time *)
(* out with a part of its chunk gone ("cut"), which tcp_send_string takes  *)
(* for a success.  Once the reader is off the frame boundaries (lost), its *)
(* sizes are arbitrary.                                                    *)
(*                                                                         *)
(* Names and types are shorter than 120 characters, so only the field      *)
(* message_definition of a ROS peer can be too long for the one byte that  *)
(* verify_ros_header reads of its length.                                  *)
(***************************************************************************)
EXTENDS StdMessages, Integers, FiniteSetsExt

CONSTANTS MaxMsg,    \* bound: how many messages the publisher sends
          Lengths    \* the lengths of the messages' contents, in bytes

ASSUME TcpRosAssumption == MaxMsg \in Nat /\ Lengths \subseteq Nat

VARIABLES
  setup,    \* the two ends: node software, types, header layout, topic
  header,   \* the connection header each end sends
  pub,      \* where publish_tcp_data (or the ROS publisher) is
  sub,      \* where tcp_ros_request (or the ROS subscriber) is
  short,    \* the ends that got the peer's header in part only
  verdict,  \* what each end made of the peer's header
  stream,   \* the chunks on their way to the subscriber
  sent,     \* the lengths of the messages the publisher has sent or begun
  part,     \* how many chunks of the last one are on their way
  want,     \* the subscriber's local size, in chunks
  got,      \* what the callbacks were given: <<message, bytes>>
  lost,     \* the subscriber is off the frame boundaries
  late,     \* history: it looked for more than had arrived
  torn      \* history: it took a chunk of which a part was sent

vars == <<setup, header, pub, sub, short, verdict, stream, sent, part, want, got,
          lost, late, torn>>
frameVars == <<sent, part>>
readVars == <<want, got, lost, late, torn>>

-----------------------------------------------------------------------------
(* The types the node knows: api.h.  The code of a type is its hash(),     *)
(* which the switches of api.c compare.                                    *)

MaxBuff == 1024

Known(type, code, md5sum) == [type |-> type, code |-> code, md5sum |-> md5sum]

ApiMessages ==
  {Known("std_msgs/Bool", 715, "8b94c1b53db61fb6aed406028ad6332a"),
   Known("std_msgs/Byte", 233, "ad736a2e8818154c487bb80fe42ce43b"),
   Known("std_msgs/ByteMultiArray", 617, "70ea476cbcfd65ac2f68f3cda1e891fe"),
   Known("std_msgs/Char", 823, "1bf77f25acecdedba0e224b162199717"),
   Known("std_msgs/ColorRGBA", 982, "a29a96539573343b1310c73607334b00"),
   Known("std_msgs/Duration", 245, "3e286caf4241d664e55f3ad380e2ae46"),
   Known("std_msgs/Empty", 396, "d41d8cd98f00b204e9800998ecf8427e"),
   Known("std_msgs/Float32", 570, "73fcbf46b49191e672908e50842a83d4"),
   Known("std_msgs/Float32MultiArray", 634, "6a40e0ffa6a17a503ac3f8616991b1f6"),
   Known("std_msgs/Float64", 665, "fdb28210bfa9d7c91146260178d9a584"),
   Known("std_msgs/Float64MultiArray", 25, "4b7d974086d4060e7db4613a7e6c3ba4"),
   Known("std_msgs/Header", 558, "2176decaecbce78abc3b96ef049fabed"),
   Known("std_msgs/Int16", 659, "8524586e34fbd7cb1c08c5f5f1ca0e57"),
   Known("std_msgs/Int16MultiArray", 915, "d9338d7f523fcb692fae9d0a0e9f067c"),
   Known("std_msgs/Int32", 717, "da5909fbe378aeaf85e547e830cc1bb7"),
   Known("std_msgs/Int32MultiArray", 845, "1d99f79f8b325b44fee908053e9c945b"),
   Known("std_msgs/Int64", 812, "34add168574510e6e17f5d23ecc077ef"),
   Known("std_msgs/Int64MultiArray", 236, "54865aa6c65be0448113a2afc6a49270"),
   Known("std_msgs/Int8", 522, "27ffa0c9c4b8fb8492252bcad9e5c57b"),
   Known("std_msgs/Int8MultiArray", 586, "d7c1af35a1b4781bbe79e03dd94b7c13"),
   Known("std_msgs/MultiArrayDimension", 677, "4cd0c83a8683deae40ecdac60e53bfa8"),
   Known("std_msgs/MultiArrayLayout", 587, "0fed2a11c13e11c5571b4e2a995a91a3"),
   Known("std_msgs/String", 946, "992ce8a1687cec8c8bd883ec73ca41d1"),
   Known("std_msgs/Time", 686, "cd7166c74c552c311fbcc2fe5a7bc289"),
   Known("std_msgs/UInt16", 640, "1df79edf208b629fe6b81923a544552d"),
   Known("std_msgs/UInt16MultiArray", 832, "52f264f1c973c4b73790d384c6cb4484"),
   Known("std_msgs/UInt32", 698, "304a39449588c7f8ce2df6e8001c5fce"),
   Known("std_msgs/UInt32MultiArray", 762, "4d6a180abc9be191b96a7eda6c8a233d"),
   Known("std_msgs/UInt64", 793, "1b2a79973e8bf53d7b53acb71299cb57"),
   Known("std_msgs/UInt64MultiArray", 153, "6088f127afb1d6c72927aa1247e945af"),
   Known("std_msgs/UInt8", 125, "7c8164229e7d2c17eb95e9231617fdee"),
   Known("std_msgs/UInt8MultiArray", 253, "82373f1612381bb6ee473b5cd6f5d89c")}

\* A type that is not of std_msgs; its checksum is not of std_msgs either and
\* its hash is none of the codes.
Other == "other_msgs/Other"
OtherMd5sum == "0123456789abcdef0123456789abcdef"

\* hash(type, HASHSIZE), as far as the switches tell its values apart.
Hash(t) == IF \E m \in ApiMessages : m.type = t
           THEN (CHOOSE m \in ApiMessages : m.type = t).code
           ELSE 1

TypeString == Hash(String.type)

\* Mutant: the case of Int8 is missing, so that the default applies.
Md5sumOfNoInt8(t) ==
  IF \E m \in ApiMessages : m.code = Hash(t) /\ m.type # Int8.type
  THEN (CHOOSE m \in ApiMessages : m.code = Hash(t)).md5sum
  ELSE String.md5sum

Md5sumOf(t) ==
  IF \E m \in ApiMessages : m.code = Hash(t)
  THEN (CHOOSE m \in ApiMessages : m.code = Hash(t)).md5sum
  ELSE String.md5sum

\* (int)(*ptr): the lowest byte of a length, as a signed char.
LowByte(n) == LET b == n % 256 IN IF b < 128 THEN b ELSE b - 256

-----------------------------------------------------------------------------
(* Connection headers.                                                     *)

Field(key, length) == [key |-> key, length |-> length]
ShortFields(keys) == [i \in DOMAIN keys |-> Field(keys[i], 40)]

GenTcpHeader(t) ==
  [type |-> t, md5sum |-> Md5sumOf(t),
   fields |-> ShortFields(<<"message_definition", "callerid", "topic", "md5sum", "type">>)]

\* External: roscpp sorts the keys, other clients need not.  "*" accepts all.
RosHeader(t, layout) ==
  LET length == 19 + (IF t \in StdTypes THEN HeaderOf(t).definition ELSE 1)
      definition == <<Field("message_definition", length)>>
  IN [type |-> t,
      md5sum |-> IF t = "*" THEN "*" ELSE IF t = Other THEN OtherMd5sum ELSE HeaderOf(t).md5sum,
      fields |-> IF layout = "sorted"
                 THEN ShortFields(<<"callerid", "md5sum">>) \o definition
                      \o ShortFields(<<"topic", "type">>)
                 ELSE ShortFields(<<"callerid", "topic", "type", "md5sum">>) \o definition]

Ends == {"pub", "sub"}
Peer(e) == IF e = "pub" THEN "sub" ELSE "pub"

Stros(e) == setup.node[e] = "stros"

HeaderFrom(e) == IF Stros(e) THEN GenTcpHeader(setup.type[e])
                             ELSE RosHeader(setup.type[e], setup.layout)

\* The fields verify_ros_header reads: it stops when it has all three.
Read(h) == 1 .. Max({i \in DOMAIN h.fields : h.fields[i].key \in {"topic", "md5sum", "type"}})
Misread(h) == {i \in Read(h) : LowByte(h.fields[i].length) # h.fields[i].length}
HeaderSize(h) == MapThenSumSet(LAMBDA i : h.fields[i].length + 4, DOMAIN h.fields)

\* A header that fits into the buffer and has lengths one byte can carry.
Readable(h) == HeaderSize(h) <= MaxBuff /\ Misread(h) = {}

\* The comparisons at the end of verify_ros_header.
Accepts(e, h) ==
  /\ setup.sameTopic
  /\ h.type \in {setup.type[e], "*"}
  /\ h.md5sum \in {Md5sumOf(h.type), "*"}

\* What verify_ros_header may come to.  If a part of the header is missing,
\* what stands behind it in buf (in tcp_ros_request the node's own header) may
\* complete it.  A header longer than buf overwrites the stack; a negative
\* length makes memcpy run off the address space; after any other misread
\* length the next lengths are any bytes.
VerifyRosHeader(e, h, cut) ==
  LET judged == {IF Accepts(e, h) THEN "accept" ELSE "refuse"}
  IN IF ~cut /\ Readable(h) THEN judged
     ELSE IF cut THEN {"accept", "refuse", "crash"}
     ELSE IF HeaderSize(h) > MaxBuff \/ LowByte(h.fields[Min(Misread(h))].length) >= 0
          THEN judged \cup {"refuse", "crash"}
     ELSE {"crash"}

\* External: a ROS node compares the type and the checksum.
RosVerify(e, h) ==
  {IF /\ setup.sameTopic
      /\ \/ "*" \in {h.type, setup.type[e]}
         \/ h.type = setup.type[e] /\ h.md5sum = RosHeader(h.type, "sorted").md5sum
   THEN "accept" ELSE "refuse"}

\* An end reads the header of its peer, in whole or (cut) in part.
Judge(e) ==
  \E cut \in BOOLEAN :
    /\ short' = IF cut THEN short \cup {e} ELSE short
    /\ \E v \in IF Stros(e) THEN VerifyRosHeader(e, header[Peer(e)], cut)
                          ELSE RosVerify(e, header[Peer(e)]) :
         verdict' = [verdict EXCEPT ![e] = v]

-----------------------------------------------------------------------------
(* Frames.                                                                 *)

Frame(k) ==
  IF setup.type["pub"] = Empty.type THEN <<<<"total", k>>>>
  ELSE IF setup.type["pub"] # String.type
       THEN <<<<"total", k>>, <<"data", k>>, <<"rest", k>>>>
  ELSE IF sent[k] = 0 THEN <<<<"total", k>>, <<"len", k>>>>
  ELSE <<<<"total", k>>, <<"len", k>>, <<"data", k>>>>

\* The contents of a type of fixed size have one length, below MaxBuff.
MessageLengths ==
  IF setup.type["pub"] = String.type THEN Lengths
  ELSE IF setup.type["pub"] = Other THEN Lengths \ {0}
  ELSE IF setup.type["pub"] = Empty.type THEN {0}
  ELSE IF HeaderOf(setup.type["pub"]).fixed THEN {1}
  ELSE Lengths \ {0}

Types == StdTypes \cup {Other}
Nodes == {n \in [Ends -> {"stros", "ros"}] : "stros" \in {n["pub"], n["sub"]}}

\* The ends meet at the node of a topic; they may disagree about its type,
\* and a reader of a stale address may find a node without the topic.  Only a
\* ROS subscriber may ask for any type ("*").
Setups ==
  {s \in [node : Nodes, type : [Ends -> Types \cup {"*"}],
          layout : {"sorted", "last"}, sameTopic : BOOLEAN] :
     /\ s.type["pub"] \in Types
     /\ s.type["sub"] = "*" => s.node["sub"] = "ros"
     /\ s.type["sub"] \in {s.type["pub"], "*", String.type, Other}
     /\ s.layout = "last" => "ros" \in {s.node["pub"], s.node["sub"]}}

Init ==
  /\ setup \in Setups
  /\ header = [e \in Ends |-> HeaderFrom(e)]
  /\ pub = "start"
  /\ sub = "start"
  /\ short = {}
  /\ verdict = [e \in Ends |-> "none"]
  /\ stream = <<>>
  /\ sent = <<>>
  /\ part = 0
  /\ want = 2
  /\ got = <<>>
  /\ lost = FALSE
  /\ late = FALSE
  /\ torn = FALSE

PubEnds == {"refused", "unsupported", "gone", "closed", "crashed"}
SubEnds == {"closed", "crashed"}

TypeOK ==
  /\ setup \in Setups
  /\ pub \in {"start", "idle", "sending"} \cup PubEnds
  /\ sub \in {"start", "header", "size", "data"} \cup SubEnds
  /\ short \subseteq Ends
  /\ verdict \in [Ends -> {"none", "accept", "refuse", "crash"}]
  /\ stream \in Seq({"header", "total", "len", "data", "rest", "cut"} \X (0..MaxMsg))
  /\ sent \in Seq(Lengths \cup {0, 1}) /\ Len(sent) <= MaxMsg
  /\ part \in 0..3
  /\ want \in 0..2
  /\ got \in Seq((0..MaxMsg) \X Nat)
  /\ {lost, late, torn} \subseteq BOOLEAN

-----------------------------------------------------------------------------
(* The publishing end: publish_tcp_data, or a ROS publisher.               *)

\* The subscriber's header is read and judged; if it is accepted, the
\* publisher's is sent.  A STRos thread that returns leaves the socket open, a
\* ROS node closes it.
PubHeader ==
  /\ pub = "start"
  /\ sub # "start"
  /\ Judge("pub")
  /\ pub' = CASE verdict'["pub"] = "accept" -> "idle"
              [] verdict'["pub"] = "crash" -> "crashed"
              [] OTHER -> IF Stros("pub") THEN "refused" ELSE "closed"
  /\ stream' = IF pub' = "idle" THEN <<<<"header", 0>>>> ELSE <<>>
  /\ UNCHANGED <<setup, header, sub, frameVars, readVars>>

\* tcp_send_data knows one type; for all others the thread returns.
TcpSendUnsupported ==
  /\ pub = "idle"
  /\ Stros("pub")
  /\ Hash(setup.type["pub"]) # TypeString
  /\ pub' = "unsupported"
  /\ UNCHANGED <<setup, header, sub, short, verdict, stream, frameVars, readVars>>

\* A message of n bytes is taken to be sent.
TakeMessage(n) ==
  /\ pub = "idle"
  /\ Stros("pub") => Hash(setup.type["pub"]) = TypeString
  /\ Len(sent) < MaxMsg
  /\ pub' = "sending"
  /\ sent' = Append(sent, n)
  /\ part' = 0
  /\ UNCHANGED <<setup, header, sub, short, verdict, stream, readVars>>

\* One send of tcp_send_string, or the next piece of a ROS node's message.
Send(chunk) ==
  /\ pub = "sending"
  /\ part' = part + 1
  /\ stream' = Append(stream, chunk)
  /\ pub' = IF part' = Len(Frame(Len(sent))) THEN "idle" ELSE "sending"
  /\ UNCHANGED <<setup, header, sub, short, verdict, sent, readVars>>

Chunk == Frame(Len(sent))[part + 1]

SendChunk == Send(Chunk)

\* The send timeout strikes when some bytes of the chunk are gone: send returns
\* their number, which is not negative, and the next chunk follows.
SendShort ==
  /\ Send(<<"cut", Len(sent)>>)
  /\ Stros("pub")
  /\ Chunk[1] = "data" => sent[Len(sent)] > 1

\* A recv or send fails or times out, or the publisher stops.
PubLeave ==
  /\ pub \in {"start", "idle", "sending"}
  /\ sub # "start"
  /\ pub' = IF Stros("pub") THEN "gone" ELSE "closed"
  /\ UNCHANGED <<setup, header, sub, short, verdict, stream, frameVars, readVars>>

-----------------------------------------------------------------------------
(* The subscribing end: tcp_ros_request.                                   *)

\* request_socket has connected; the header is sent at once.
SubHello ==
  /\ sub = "start"
  /\ sub' = "header"
  /\ UNCHANGED <<setup, header, pub, short, verdict, stream, frameVars, readVars>>

\* The publisher's header, or none: the recv times out or finds the end of
\* the stream.
SubHeader ==
  /\ sub = "header"
  /\ \/ /\ stream # <<>>
        /\ stream' = Tail(stream)
        /\ Judge("sub")
        /\ sub' = CASE verdict'["sub"] = "accept" -> "size"
                    [] verdict'["sub"] = "crash" -> "crashed"
                    [] OTHER -> "closed"
        /\ lost' = ("sub" \in short')
        /\ late' = lost'
     \/ /\ stream = <<>>
        /\ sub' = "closed"
        /\ UNCHANGED <<stream, short, verdict, lost, late>>
  /\ UNCHANGED <<setup, header, pub, frameVars, want, got, torn>>

\* Some of the next n chunks on the stream was cut.
Cut(n) == \E i \in 1 .. n : i <= Len(stream) /\ stream[i][1] = "cut"

\* Mutant: the size is taken to include the word itself.
SubSizeWithWord ==
  /\ sub = "size"
  /\ sub' = "data"
  /\ Stros("sub")
  /\ \/ /\ stream # <<>>
        /\ stream' = Tail(stream)
        /\ want' \in IF Head(stream)[1] = "total" /\ ~lost
                     THEN {Len(Frame(Head(stream)[2]))} ELSE 0..2
        /\ lost' = (lost \/ Head(stream)[1] # "total")
        /\ torn' = (torn \/ Cut(1))
        /\ UNCHANGED late
     \/ /\ stream = <<>>
        /\ late' = TRUE
        /\ UNCHANGED <<stream, want, lost, torn>>
  /\ UNCHANGED <<setup, header, pub, short, verdict, frameVars, got>>

\* recv of the size.  Its result is not examined: a timeout or the end of the
\* stream leaves the last size, at first that of the header.
SubSize ==
  /\ sub = "size"
  /\ sub' = "data"
  /\ Stros("sub")
  /\ \/ /\ stream # <<>>
        /\ stream' = Tail(stream)
        /\ want' \in IF Head(stream)[1] = "total" /\ ~lost
                     THEN {Len(Frame(Head(stream)[2])) - 1} ELSE 0..2
        /\ lost' = (lost \/ Head(stream)[1] # "total")
        /\ torn' = (torn \/ Cut(1))
        /\ UNCHANGED late
     \/ /\ stream = <<>>
        /\ late' = TRUE
        /\ UNCHANGED <<stream, want, lost, torn>>
  /\ UNCHANGED <<setup, header, pub, short, verdict, frameVars, got>>

\* What the callback is given of message k: ros_string takes the length from
\* one byte, other types are handed over as they came.  A negative length
\* makes it die.
RosData(k) ==
  IF setup.type["sub"] = String.type THEN LowByte(sent[k]) ELSE sent[k]

Callback(data) == got' = Append(got, data)

\* recv of the content is over: the connection goes on, unless nothing came,
\* the topic is not active any more or the node stops.
LoopOrClose(any) == sub' \in IF any THEN {"size", "closed"} ELSE {"closed"}

\* The content asked for is that of the next message.
Aligned ==
  /\ ~lost
  /\ Len(got) < Len(sent)
  /\ Len(stream) >= want
  /\ SubSeq(stream, 1, want) = Tail(Frame(Len(got) + 1))

\* A whole message, which may be too long for buf.
SubDataWhole ==
  LET k == Len(got) + 1
  IN /\ sub = "data"
     /\ want > 0
     /\ Aligned
     /\ stream' = SubSeq(stream, want + 1, Len(stream))
     /\ \/ /\ RosData(k) >= 0
           /\ Callback(<<k, RosData(k)>>)
           /\ LoopOrClose(TRUE)
        \/ /\ RosData(k) < 0 \/ sent[k] + 4 > MaxBuff
           /\ sub' = "crashed"
           /\ UNCHANGED got
     /\ UNCHANGED <<setup, header, pub, short, verdict, frameVars, want, lost, late, torn>>

\* A part of a message, or what came after a size that did not, is taken for
\* the content.  From then on sizes and contents are any bytes.
SubDataPart ==
  /\ sub = "data"
  /\ want > 0
  /\ stream # <<>>
  /\ ~Aligned
  /\ stream' = SubSeq(stream, want + 1, Len(stream))
  /\ lost' = TRUE
  /\ late' = (late \/ Len(stream) < want)
  /\ torn' = (torn \/ Cut(want))
  /\ \/ Callback(<<0, 0>>) /\ LoopOrClose(TRUE)
     \/ sub' = "crashed" /\ UNCHANGED got
  /\ UNCHANGED <<setup, header, pub, short, verdict, frameVars, want>>

\* A size of 0, or the end of the stream: the callback runs once more, with
\* an empty content.
SubDataEnd ==
  /\ sub = "data"
  /\ want = 0 \/ (stream = <<>> /\ pub \in {"closed", "crashed"})
  /\ Callback(<<0, 0>>)
  /\ LoopOrClose(FALSE)
  /\ UNCHANGED <<setup, header, pub, short, verdict, stream, frameVars, want, lost, late, torn>>

\* Mutant: a timeout is taken for a message that is still to come.
SubDataTimeoutRetry ==
  /\ sub = "data"
  /\ want > 0
  /\ stream = <<>>
  /\ sub' = "size"
  /\ UNCHANGED <<setup, header, pub, short, verdict, stream, frameVars, readVars>>

SubDataTimeout ==
  /\ sub = "data"
  /\ want > 0
  /\ stream = <<>>
  /\ pub \notin {"closed", "crashed"}
  /\ sub' = "closed"
  /\ UNCHANGED <<setup, header, pub, short, verdict, stream, frameVars, readVars>>

-----------------------------------------------------------------------------

Sends == SendChunk \/ SendShort \/ \E n \in MessageLengths : TakeMessage(n)
Publisher == PubHeader \/ TcpSendUnsupported \/ Sends \/ PubLeave
Subscriber == SubHello \/ SubHeader \/ SubSize \/ SubDataWhole \/ SubDataPart
              \/ SubDataEnd \/ SubDataTimeout

Next == Publisher \/ Subscriber

Spec == Init /\ [][Next]_vars

\* tcp_ros_request runs on: its socket has a receive timeout, so each recv
\* comes to an end.  The publisher may fall silent at any point.
FairSpec == Spec /\ WF_vars(Subscriber)

-----------------------------------------------------------------------------
(* Properties that hold.                                                   *)

\* The headers under std_msgs say that the peer's messages are the node's.
Compatible(e) ==
  LET h == header[Peer(e)]
  IN /\ setup.sameTopic
     /\ h.type \in {setup.type[e], "*"}
     /\ h.md5sum \in {HeaderOf(setup.type[e]).md5sum, "*"}

\* A STRos node with a standard type that can read its peer's header accepts
\* it exactly if the topic is the same and the message definitions of both
\* ends are: the type and checksum table of api.h, the dispatch on hash values
\* in md5sum_of and the comparisons of verify_ros_header agree with the
\* definitions under std_msgs.
HeadersJudged ==
  \A e \in Ends :
    /\ Stros(e)
    /\ setup.type[e] \in StdTypes
    /\ verdict[e] # "none"
    /\ e \notin short
    /\ Readable(header[Peer(e)])
    => verdict[e] = IF Compatible(e) THEN "accept" ELSE "refuse"

\* A subscriber that never looks for more than has arrived stays on the frame
\* boundaries until it comes to a chunk that the publisher's send timeout cut,
\* and as long as it is on them its callbacks get the messages in the order
\* they were sent, none left out and each whole, unless it is a string of 128
\* bytes or more; and an empty content only as the last one.
WholeInOrder ==
  /\ lost => late \/ torn
  /\ ~lost => \A i \in DOMAIN got :
       \/ got[i] = <<0, 0>> /\ i = Len(got)
       \/ got[i] = <<i, sent[i]>>
       \/ /\ setup.type["sub"] = String.type
          /\ sent[i] >= 128
          /\ got[i] = <<i, LowByte(sent[i])>>

\* A subscriber whose publisher refused it without closing the socket, died in
\* the middle of a message or just has nothing to say gives the connection up.
SilenceEnds == Stros("sub") => ([]<><<Sends>>_vars \/ <>(sub \in SubEnds))

-----------------------------------------------------------------------------
(* Properties that do not hold.                                            *)

\* README.md:6: "the client supports only the standard message types
\* (std_msgs)": a node that publishes one of them should have a way to send it
\* to a peer that asked for that type and was accepted.  tcp_send_data knows
\* std_msgs/String only, and the thread returns without closing the socket.
StdMessagesSupported ==
  setup.type["pub"] = setup.type["sub"] /\ setup.type["pub"] \in StdTypes => pub # "unsupported"
=============================================================================
