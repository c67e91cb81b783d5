---------------------------- MODULE TcpRosProofs ----------------------------
(***************************************************************************)
(* Proofs about TcpRos for every number of messages and every set of       *)
(* lengths: type correctness and that messages arrive whole and in order.  *)
(***************************************************************************)
EXTENDS TcpRos, TLAPS

\* The chunks of a stream, what callbacks are given, the tags of a message.
Chunks == {"header", "total", "len", "data", "rest", "cut"} \X (0..MaxMsg)
Callbacks == (0..MaxMsg) \X Nat
Tags == {"total", "len", "data", "rest"}

\* The chunks of message k: one to three that can be told apart, the first
\* of which is its size.
IsFrame(f, k) ==
  /\ f \in Seq(Tags \X {k})
  /\ Len(f) \in 1..3
  /\ f[1] = <<"total", k>>
  /\ \A p \in 1 .. Len(f) : f[p][1] \in Tags /\ f[p][2] = k /\ f[p] = <<f[p][1], k>>
  /\ \A p, q \in 1 .. Len(f) : f[p] = f[q] => p = q

\* The end of message k.
LastOf(k) == Frame(k)[Len(Frame(k))]

\* d is sent right after c, if both were sent in whole.
Follows(c, d) ==
  c[1] # "cut" /\ d[1] # "cut" =>
  IF c[2] = 0 \/ c = LastOf(c[2]) THEN d = <<"total", c[2] + 1>>
  ELSE \E p \in 1 .. Len(Frame(c[2])) - 1 : c = Frame(c[2])[p] /\ d = Frame(c[2])[p + 1]

\* The publisher's header, before its messages.
HeaderChunk == <<"header", 0>>

\* What the publisher sent last, in whole or (cut) in part.
LastSent ==
  IF sent = <<>> \/ (part = 0 /\ Len(sent) = 1) THEN HeaderChunk
  ELSE IF part = 0 THEN LastOf(Len(sent) - 1)
  ELSE Frame(Len(sent))[part]

\* What the subscriber took off the stream last, if it is where it should be.
LastRead ==
  IF sub = "data" THEN <<"total", Len(got) + 1>>
  ELSE IF got = <<>> THEN HeaderChunk
  ELSE LastOf(Len(got))

\* That, and what is on its way.
Trail == IF sub \in {"start", "header"} THEN stream ELSE <<LastRead>> \o stream

\* How far the publisher is with its last message.
PubInv ==
  /\ pub = "start" => stream = <<>> /\ sent = <<>> /\ sub \notin {"size", "data"}
  /\ sub = "start" => pub = "start"
  /\ sent = <<>> => part = 0
  /\ sent # <<>> => part \in 0 .. Len(Frame(Len(sent)))
  /\ pub = "idle" /\ sent # <<>> => part = Len(Frame(Len(sent)))
  /\ pub = "sending" => sent # <<>> /\ part < Len(Frame(Len(sent)))
  /\ pub \in {"idle", "sending"} /\ sub = "header" => stream # <<>>
  /\ \A i \in DOMAIN stream : stream[i][2] <= Len(sent)

\* WholeInOrder, and that the empty content came last because the connection
\* is over.
GotInv ==
  /\ sub \in {"start", "header"} => got = <<>> /\ ~lost /\ ~late /\ ~torn
  /\ ~lost => \A i \in DOMAIN got :
       \/ got[i] = <<0, 0>> /\ i = Len(got) /\ sub \in SubEnds
       \/ /\ i <= Len(sent)
          /\ \/ got[i] = <<i, sent[i]>>
             \/ setup.type["sub"] = String.type /\ sent[i] >= 128 /\ got[i] = <<i, LowByte(sent[i])>>

\* As long as the subscriber has not looked for more than had arrived and not
\* come to a chunk that was cut, what it took last, and what is on its way, was
\* sent one after the other.
OnPath == ~lost /\ ~late /\ ~torn /\ sub \notin SubEnds

PathInv ==
  OnPath =>
    /\ Len(got) <= Len(sent)
    /\ sub = "data" => Len(got) < Len(sent) /\ want = Len(Frame(Len(got) + 1)) - 1
    /\ Trail # <<>> => /\ Trail[1] = LastRead
                       /\ Trail[Len(Trail)] = LastSent \/ Trail[Len(Trail)][1] = "cut"
    /\ \A i \in 1 .. Len(Trail) - 1 : Follows(Trail[i], Trail[i + 1])

IInv == TypeOK /\ PubInv /\ GotInv /\ (lost => late \/ torn) /\ PathInv

-----------------------------------------------------------------------------

\* What Frame can be is a frame.
LEMMA Shapes ==
  ASSUME NEW k
  PROVE  /\ IsFrame(<<<<"total", k>>>>, k)
         /\ IsFrame(<<<<"total", k>>, <<"len", k>>>>, k)
         /\ IsFrame(<<<<"total", k>>, <<"len", k>>, <<"data", k>>>>, k)
         /\ IsFrame(<<<<"total", k>>, <<"data", k>>, <<"rest", k>>>>, k)
<1>1. IsFrame(<<<<"total", k>>>>, k)
  BY DEF IsFrame, Tags
<1>2. IsFrame(<<<<"total", k>>, <<"len", k>>>>, k)
  BY DEF IsFrame, Tags
<1>3. IsFrame(<<<<"total", k>>, <<"len", k>>, <<"data", k>>>>, k)
  BY DEF IsFrame, Tags
<1>4. IsFrame(<<<<"total", k>>, <<"data", k>>, <<"rest", k>>>>, k)
  BY DEF IsFrame, Tags
<1>5. QED
  BY <1>1, <1>2, <1>3, <1>4

\* Frames have the shape the reader relies on.
LEMMA FrameFacts == ASSUME NEW k PROVE IsFrame(Frame(k), k)
<1>1. \/ Frame(k) = <<<<"total", k>>>>
      \/ Frame(k) = <<<<"total", k>>, <<"len", k>>>>
      \/ Frame(k) = <<<<"total", k>>, <<"len", k>>, <<"data", k>>>>
      \/ Frame(k) = <<<<"total", k>>, <<"data", k>>, <<"rest", k>>>>
  BY Zenon DEF Frame
<1>2. QED
  BY <1>1, Shapes

\* The same of the next state.
LEMMA NextFrameFacts == ASSUME NEW k PROVE IsFrame(Frame(k)', k)
<1>1. \/ Frame(k)' = <<<<"total", k>>>>
      \/ Frame(k)' = <<<<"total", k>>, <<"len", k>>>>
      \/ Frame(k)' = <<<<"total", k>>, <<"len", k>>, <<"data", k>>>>
      \/ Frame(k)' = <<<<"total", k>>, <<"data", k>>, <<"rest", k>>>>
  BY Zenon DEF Frame
<1>2. QED
  BY <1>1, Shapes

\* What follows from TypeOK without its choices.
LEMMA TypeFacts ==
  ASSUME TypeOK
  PROVE  /\ stream \in Seq(Chunks)
         /\ sent \in Seq(Nat) /\ sent \in Seq(Lengths \cup {0, 1})
         /\ Len(sent) \in 0..MaxMsg /\ MaxMsg \in Nat
         /\ part \in 0..3 /\ want \in 0..2
         /\ got \in Seq(Callbacks)
         /\ lost \in BOOLEAN /\ late \in BOOLEAN /\ torn \in BOOLEAN
<1>1. sent \in Seq(Nat)
  <2>1. Lengths \cup {0, 1} \subseteq Nat
    BY TcpRosAssumption
  <2>2. sent \in Seq(Lengths \cup {0, 1})
    BY DEF TypeOK
  <2>3. QED
    BY <2>1, <2>2
<1>2. QED
  BY <1>1, TcpRosAssumption DEF TypeOK, Chunks, Callbacks

\* A frame is not changed by the messages after it.
LEMMA FrameStays ==
  ASSUME TypeOK, setup' = setup, sent' = sent \/ \E n \in Nat : sent' = Append(sent, n)
  PROVE  \A k \in 1 .. Len(sent) : Frame(k)' = Frame(k) /\ LastOf(k)' = LastOf(k)
<1>0. sent \in Seq(Nat)
  BY TypeFacts
<1>1. \A k \in 1 .. Len(sent) : sent'[k] = sent[k]
  <2>1. CASE sent' = sent
    BY <2>1
  <2>2. ASSUME NEW n \in Nat, sent' = Append(sent, n) PROVE \A k \in 1 .. Len(sent) : sent'[k] = sent[k]
    BY <1>0, <2>2
  <2>3. QED
    BY <2>1, <2>2
<1>2. \A k \in 1 .. Len(sent) : Frame(k)' = Frame(k)
  BY <1>1 DEF Frame
<1>3. QED
  BY <1>2 DEF LastOf

\* Append adds one element at the end.
LEMMA AppendFacts ==
  ASSUME NEW S, NEW s \in Seq(S), NEW e \in S
  PROVE  /\ Len(Append(s, e)) = Len(s) + 1
         /\ \A i \in DOMAIN Append(s, e) :
              \/ i \in DOMAIN s /\ Append(s, e)[i] = s[i]
              \/ i = Len(s) + 1 /\ Append(s, e)[i] = e
<1>1. Append(s, e) \in Seq(S) /\ Len(Append(s, e)) = Len(s) + 1 /\ Append(s, e)[Len(s) + 1] = e
  OBVIOUS
<1>2. \A i \in 1 .. Len(s) : Append(s, e)[i] = s[i]
  OBVIOUS
<1>3. DOMAIN Append(s, e) = 1 .. Len(s) + 1 /\ DOMAIN s = 1 .. Len(s) /\ Len(s) \in Nat
  BY <1>1
<1>4. QED
  BY <1>1, <1>2, <1>3

\* Sequences with the same elements are the same.
LEMMA SameElements ==
  ASSUME NEW S, NEW s \in Seq(S), NEW t \in Seq(S), Len(s) = Len(t),
         \A i \in 1 .. Len(s) : s[i] = t[i]
  PROVE  s = t
OBVIOUS

\* The lowest byte is an integer, and the number if that fits.
LEMMA LowByteFacts ==
  \A n \in Nat : LowByte(n) \in Int /\ (n < 128 => LowByte(n) = n)
BY DEF LowByte

-----------------------------------------------------------------------------

\* The initial states satisfy the inductive invariant.
LEMMA InitInv == Init => IInv
<1> SUFFICES ASSUME Init PROVE IInv
  OBVIOUS
<1> USE DEF Init
<1>1. TypeOK
  <2>1. stream \in Seq(Chunks) /\ got \in Seq(Callbacks) /\ sent \in Seq(Lengths \cup {0, 1})
    OBVIOUS
  <2>2. Len(sent) <= MaxMsg
    BY TcpRosAssumption
  <2>3. verdict \in [Ends -> {"none", "accept", "refuse", "crash"}]
    OBVIOUS
  <2>4. {lost, late, torn} \subseteq BOOLEAN
    BY Zenon
  <2>5. QED
    BY <2>1, <2>2, <2>3, <2>4 DEF TypeOK, Chunks, Callbacks
<1>2. PubInv /\ GotInv /\ (lost => late \/ torn)
  BY DEF PubInv, GotInv
<1>3. PathInv
  BY DEF PathInv, Trail
<1>4. QED
  BY <1>1, <1>2, <1>3 DEF IInv

\* Every verdict is one of three.
LEMMA JudgeType ==
  ASSUME TypeOK, NEW e \in Ends, Judge(e)
  PROVE  /\ short' \subseteq Ends
         /\ verdict' \in [Ends -> {"none", "accept", "refuse", "crash"}]
         /\ verdict'[e] \in {"accept", "refuse", "crash"}
<1>1. PICK cut \in BOOLEAN :
        /\ short' = IF cut THEN short \cup {e} ELSE short
        /\ \E v \in IF Stros(e) THEN VerifyRosHeader(e, header[Peer(e)], cut)
                              ELSE RosVerify(e, header[Peer(e)]) :
             verdict' = [verdict EXCEPT ![e] = v]
  BY Zenon DEF Judge
<1>2. PICK v \in {"accept", "refuse", "crash"} : verdict' = [verdict EXCEPT ![e] = v]
  <2>1. VerifyRosHeader(e, header[Peer(e)], cut) \subseteq {"accept", "refuse", "crash"}
    BY Zenon DEF VerifyRosHeader
  <2>2. RosVerify(e, header[Peer(e)]) \subseteq {"accept", "refuse", "crash"}
    BY Zenon DEF RosVerify
  <2>3. QED
    BY <1>1, <2>1, <2>2
<1>3. QED
  BY <1>1, <1>2 DEF TypeOK

\* What TakeMessage sends is of the type of sent.
LEMMA SentType == ASSUME TypeOK, NEW n \in MessageLengths PROVE n \in Lengths \cup {0, 1}
BY DEF MessageLengths

\* The publisher's steps keep the types.
LEMMA PubTypes == ASSUME IInv, Publisher PROVE TypeOK'
<1> TypeOK /\ PubInv
  BY DEF IInv
<1> USE DEF frameVars, readVars
<1>1. CASE PubHeader
  <2>1. pub' \in {"idle", "crashed", "refused", "closed"} /\ "pub" \in Ends /\ Judge("pub")
    BY <1>1 DEF PubHeader, Ends
  <2>2. <<"header", 0>> \in Chunks
    BY TcpRosAssumption DEF Chunks
  <2>3. stream' \in Seq(Chunks)
    BY <1>1, <2>2 DEF PubHeader
  <2>4. QED
    BY <1>1, <2>1, <2>3, JudgeType DEF PubHeader, PubEnds, TypeOK, Chunks, Callbacks
<1>2. CASE TcpSendUnsupported \/ PubLeave
  BY <1>2 DEF TcpSendUnsupported, PubLeave, PubEnds, TypeOK
<1>3. ASSUME NEW n \in MessageLengths, TakeMessage(n) PROVE TypeOK'
  <2>1. sent' \in Seq(Lengths \cup {0, 1}) /\ Len(sent') <= MaxMsg
    BY <1>3, SentType, TypeFacts DEF TakeMessage
  <2>2. QED
    BY <1>3, <2>1 DEF TakeMessage, TypeOK
<1>4. CASE SendChunk \/ SendShort
  <2> DEFINE k == Len(sent)
  <2>1. IsFrame(Frame(k), k)
    BY FrameFacts
  <2>a. PICK c \in {Chunk, <<"cut", k>>} : Send(c)
    BY <1>4 DEF SendChunk, SendShort
  <2>b. sent # <<>> /\ part < Len(Frame(k)) /\ Len(Frame(k)) \in 1..3
    BY <2>a, <2>1 DEF Send, PubInv, IsFrame
  <2>2. k \in 1..MaxMsg /\ part + 1 \in 1 .. Len(Frame(k)) /\ part + 1 \in 0..3
    <3>1. k \in 1..MaxMsg
      BY <2>b, TypeFacts
    <3>2. part \in 0..3
      BY TypeFacts
    <3>a. PICK n \in 1..3 : n = Len(Frame(k)) /\ part < n
      BY <2>b
    <3>b. part + 1 \in 1 .. n /\ part + 1 \in 0..3
      BY <3>2, <3>a
    <3>3. part + 1 \in 1 .. Len(Frame(k)) /\ part + 1 \in 0..3
      BY <3>a, <3>b
    <3>4. QED
      BY ONLY <3>1, <3>3
  <2>3. Chunk \in Chunks /\ <<"cut", k>> \in Chunks
    BY <2>1, <2>2 DEF IsFrame, Tags, Chunks, Chunk
  <2>4. stream' \in Seq(Chunks)
    <3>1. stream' = Append(stream, c) /\ c \in Chunks
      BY <2>a, <2>3 DEF Send
    <3>2. QED
      BY <3>1, TypeFacts
  <2>5. QED
    BY <2>a, <2>2, <2>4 DEF Send, TypeOK, Chunks, Callbacks
<1>5. QED
  BY <1>1, <1>2, <1>3, <1>4 DEF Publisher, Sends

\* The subscriber's steps keep the types.
LEMMA SubTypes == ASSUME IInv, Subscriber PROVE TypeOK'
<1> TypeOK
  BY DEF IInv
<1> USE DEF frameVars, readVars
<1>1. CASE SubHello
  BY <1>1 DEF SubHello, TypeOK
<1>2. CASE SubHeader
  <2>1. CASE stream = <<>>
    BY <1>2, <2>1 DEF SubHeader, TypeOK, SubEnds
  <2>2. CASE stream # <<>>
    <3>1. "sub" \in Ends /\ Judge("sub") /\ stream' = Tail(stream)
      BY <1>2, <2>2 DEF SubHeader, Ends
    <3>2. stream' \in Seq(Chunks)
      BY <2>2, <3>1, TypeFacts
    <3>3. lost' \in BOOLEAN /\ late' \in BOOLEAN /\ sub' \in {"size", "crashed", "closed"}
      <4>1. lost' = ("sub" \in short') /\ late' = lost'
        BY <1>2, <2>2, Zenon DEF SubHeader
      <4>2. sub' \in {"size", "crashed", "closed"}
        BY <1>2, <2>2 DEF SubHeader
      <4>3. lost' \in BOOLEAN
        BY <4>1
      <4>4. QED
        BY <4>1, <4>2, <4>3
    <3>4. QED
      BY <1>2, <3>1, <3>2, <3>3, JudgeType DEF SubHeader, TypeOK, SubEnds, Chunks
  <2>3. QED
    BY <2>1, <2>2
<1>3. CASE SubSize
  <2>1. CASE stream = <<>>
    BY <1>3, <2>1 DEF SubSize, TypeOK
  <2>b. torn' \in BOOLEAN
    BY <1>3, TypeFacts, Zenon DEF SubSize
  <2>2. CASE stream # <<>>
    <3>a. stream' = Tail(stream)
      BY <1>3, <2>2 DEF SubSize
    <3>1. stream' \in Seq(Chunks)
      BY <3>a, <2>2, TypeFacts
    <3>b. IsFrame(Frame(Head(stream)[2]), Head(stream)[2])
      BY FrameFacts
    <3>2. Len(Frame(Head(stream)[2])) - 1 \in 0..2
      BY <3>b DEF IsFrame
    <3>3. want' \in 0..2
      BY <1>3, <2>2, <3>2 DEF SubSize
    <3>4. QED
      BY <1>3, <2>2, <2>b, <3>1, <3>3 DEF SubSize, TypeOK, Chunks, Callbacks
  <2>3. QED
    BY <2>1, <2>2
<1>4. CASE SubDataWhole
  <2>1. stream' \in Seq(Chunks)
    BY <1>4, TypeFacts DEF SubDataWhole, Aligned
  <2>2. got' \in Seq(Callbacks)
    <3>1. Len(got) + 1 \in 1..MaxMsg /\ Len(got) + 1 \in DOMAIN sent
      BY <1>4, TypeFacts DEF SubDataWhole, Aligned
    <3>2. RosData(Len(got) + 1) \in Int
      BY <3>1, TypeFacts, LowByteFacts DEF RosData
    <3>3. \/ got' = got
          \/ got' = Append(got, <<Len(got) + 1, RosData(Len(got) + 1)>>) /\ RosData(Len(got) + 1) >= 0
      BY <1>4 DEF SubDataWhole, Callback
    <3>4. CASE RosData(Len(got) + 1) >= 0
      <4>1. <<Len(got) + 1, RosData(Len(got) + 1)>> \in Callbacks
        BY <3>1, <3>2, <3>4, TypeFacts DEF Callbacks
      <4>2. got \in Seq(Callbacks)
        BY TypeFacts
      <4>3. QED
        BY <4>1, <4>2, <3>3
    <3>5. QED
      BY <3>3, <3>4, TypeFacts
  <2>3. sub' \in {"size"} \cup SubEnds
    BY <1>4 DEF SubDataWhole, LoopOrClose, SubEnds
  <2>4. QED
    BY <1>4, <2>1, <2>2, <2>3 DEF SubDataWhole, TypeOK, Chunks, Callbacks
<1>5. CASE SubDataPart
  <2>1. stream' \in Seq(Chunks)
    BY <1>5, TypeFacts DEF SubDataPart
  <2>2. got' \in Seq(Callbacks)
    <3>1. <<0, 0>> \in Callbacks
      BY TypeFacts DEF Callbacks
    <3>2. got' = got \/ got' = Append(got, <<0, 0>>)
      BY <1>5 DEF SubDataPart, Callback
    <3>3. got \in Seq(Callbacks)
      BY TypeFacts
    <3>4. QED
      BY <3>1, <3>2, <3>3
  <2>3. sub' \in {"size"} \cup SubEnds
    BY <1>5 DEF SubDataPart, LoopOrClose, SubEnds
  <2>4. torn' \in BOOLEAN
    BY <1>5, Zenon DEF SubDataPart
  <2>5. QED
    BY <1>5, <2>1, <2>2, <2>3, <2>4 DEF SubDataPart, TypeOK, Chunks, Callbacks
<1>6. CASE SubDataEnd
  <2>a. <<0, 0>> \in Callbacks
    BY TypeFacts DEF Callbacks
  <2>1. got' \in Seq(Callbacks)
    BY <1>6, <2>a, TypeFacts DEF SubDataEnd, Callback
  <2>2. QED
    BY <1>6, <2>1 DEF SubDataEnd, LoopOrClose, SubEnds, TypeOK, Callbacks
<1>7. CASE SubDataTimeout
  BY <1>7 DEF SubDataTimeout, SubEnds, TypeOK
<1>8. QED
  BY <1>1, <1>2, <1>3, <1>4, <1>5, <1>6, <1>7 DEF Subscriber

-----------------------------------------------------------------------------

\* The publisher leaves the subscriber's state alone and only adds messages.
LEMMA PublisherLeaves ==
  ASSUME TypeOK, Publisher
  PROVE  /\ UNCHANGED <<setup, sub, want, got, lost, late, torn>>
         /\ sent' = sent \/ \E n \in Nat : sent' = Append(sent, n)
<1>1. CASE PubHeader \/ TcpSendUnsupported \/ PubLeave \/ SendChunk \/ SendShort
  BY <1>1 DEF PubHeader, TcpSendUnsupported, PubLeave, SendChunk, SendShort, Send, frameVars, readVars
<1>2. ASSUME NEW n \in MessageLengths, TakeMessage(n)
      PROVE  UNCHANGED <<setup, sub, want, got, lost, late, torn>> /\ sent' = Append(sent, n) /\ n \in Nat
  <2>1. n \in Lengths \cup {0, 1}
    BY SentType
  <2>2. n \in Nat
    BY <2>1, TcpRosAssumption
  <2>3. QED
    BY <1>2, <2>2 DEF TakeMessage, readVars
<1>3. QED
  BY <1>1, <1>2 DEF Publisher, Sends

\* The subscriber only takes chunks off the stream.
LEMMA SubscriberLeaves ==
  ASSUME TypeOK, Subscriber
  PROVE  /\ UNCHANGED <<setup, pub, sent, part>>
         /\ stream = <<>> => stream' = <<>>
         /\ \A i \in DOMAIN stream' : \E j \in DOMAIN stream : stream'[i] = stream[j]
<1> USE DEF frameVars
<1>1. UNCHANGED <<setup, pub, sent, part>>
  BY DEF Subscriber, SubHello, SubHeader, SubSize, SubDataWhole, SubDataPart, SubDataEnd,
         SubDataTimeout
<1>2. \/ stream' = stream
      \/ stream # <<>> /\ stream' = Tail(stream)
      \/ stream # <<>> /\ stream' = SubSeq(stream, want + 1, Len(stream))
  <2>1. CASE SubDataWhole
    BY <2>1, TypeFacts DEF SubDataWhole, Aligned
  <2>2. CASE ~SubDataWhole
    BY <2>2 DEF Subscriber, SubHello, SubHeader, SubSize, SubDataPart, SubDataEnd, SubDataTimeout
  <2>3. QED
    BY <2>1, <2>2
<1>3. stream \in Seq(Chunks) /\ want \in 0..2
  BY TypeFacts
<1>4. CASE stream' = stream
  BY <1>1, <1>4
<1>5. CASE stream # <<>> /\ stream' = Tail(stream)
  <2>1. \A i \in DOMAIN stream' : i + 1 \in DOMAIN stream /\ stream'[i] = stream[i + 1]
    BY <1>3, <1>5
  <2>2. QED
    BY <1>1, <1>5, <2>1
<1>6. CASE stream # <<>> /\ stream' = SubSeq(stream, want + 1, Len(stream))
  <2>1. \A i \in DOMAIN stream' : i + want \in DOMAIN stream /\ stream'[i] = stream[i + want]
    BY <1>3, <1>6
  <2>2. QED
    BY <1>1, <1>6, <2>1
<1>7. QED
  BY <1>2, <1>4, <1>5, <1>6

\* Taking chunks off the stream does not disturb the publisher's part.
LEMMA PubInvBySubscriber == ASSUME IInv, Subscriber PROVE PubInv'
<1> TypeOK /\ PubInv /\ GotInv
  BY DEF IInv
<1>1. /\ UNCHANGED <<setup, pub, sent, part>>
      /\ stream = <<>> => stream' = <<>>
      /\ \A i \in DOMAIN stream' : \E j \in DOMAIN stream : stream'[i] = stream[j]
  BY SubscriberLeaves
<1>2. sent # <<>> => Len(sent) \in 1 .. Len(sent) /\ Frame(Len(sent))' = Frame(Len(sent))
  BY <1>1, TypeFacts, FrameStays
<1>3. /\ sub' # "start"
      /\ pub = "start" => sub' \notin {"size", "data"}
      /\ sub' = "header" => pub = "start"
  BY DEF Subscriber, SubHello, SubHeader, SubSize, SubDataWhole, SubDataPart, SubDataEnd,
         SubDataTimeout, LoopOrClose, PubInv
<1>4. \A i \in DOMAIN stream' : stream'[i][2] <= Len(sent')
  BY <1>1 DEF PubInv
<1>5. QED
  BY <1>1, <1>2, <1>3, <1>4 DEF PubInv

\* The publisher keeps to its frame.
LEMMA PubInvByPublisher == ASSUME IInv, Publisher PROVE PubInv'
<1> TypeOK /\ PubInv
  BY DEF IInv
<1>1. /\ UNCHANGED <<setup, sub, want, got, lost, late, torn>>
      /\ sent' = sent \/ \E n \in Nat : sent' = Append(sent, n)
  BY PublisherLeaves
<1>2. \A k \in 1 .. Len(sent) : Frame(k)' = Frame(k)
  BY <1>1, FrameStays
<1>3. sent # <<>> => Len(sent) \in 1 .. Len(sent)
  BY TypeFacts
<1>4. CASE PubHeader
  <2>1. \A i \in DOMAIN stream' : stream'[i] = <<"header", 0>>
    BY <1>4 DEF PubHeader
  <2>2. QED
    BY <1>1, <1>4, <2>1 DEF PubHeader, PubInv, frameVars
<1>5. CASE TcpSendUnsupported \/ PubLeave
  BY <1>1, <1>2, <1>3, <1>5 DEF TcpSendUnsupported, PubLeave, PubInv, frameVars
<1>6. ASSUME NEW n \in MessageLengths, TakeMessage(n) PROVE PubInv'
  <2>1. Len(sent') = Len(sent) + 1 /\ sent' # <<>> /\ stream' = stream
    BY <1>6, TypeFacts, SentType DEF TakeMessage
  <2>2. IsFrame(Frame(Len(sent))', Len(sent'))
    BY NextFrameFacts
  <2>3. Len(Frame(Len(sent))') \in 1..3
    BY <2>2 DEF IsFrame
  <2>4. \A i \in DOMAIN stream' : stream'[i][2] <= Len(sent')
    BY <2>1, TypeFacts DEF PubInv, Chunks
  <2>5. /\ pub' = "sending" /\ pub # "start" /\ part' = 0
        /\ pub' \in {"idle", "sending"} /\ sub' = "header" => stream' # <<>>
    BY <1>1, <1>6, <2>1 DEF TakeMessage, PubInv
  <2>6. 0 \in 0 .. Len(Frame(Len(sent))') /\ 0 < Len(Frame(Len(sent))')
    BY <2>3
  <2>7. QED
    BY <1>1, <2>1, <2>4, <2>5, <2>6 DEF PubInv
<1>7. CASE SendChunk \/ SendShort
  <2>1. IsFrame(Frame(Len(sent)), Len(sent))
    BY FrameFacts
  <2>a. PICK c \in {Chunk, <<"cut", Len(sent)>>} : Send(c)
    BY <1>7 DEF SendChunk, SendShort
  <2>2. /\ sent # <<>> /\ part < Len(Frame(Len(sent))) /\ Len(Frame(Len(sent))) \in 1..3
        /\ part \in 0..3
    BY <2>a, <2>1, TypeFacts DEF Send, PubInv, IsFrame
  <2>3. PICK m \in 1..3 : m = Len(Frame(Len(sent))) /\ part < m
    BY <2>2
  <2>4. part' = part + 1 /\ part + 1 \in 1 .. m /\ part' \in 1 .. m /\ (part' # m => part' < m)
    BY <2>a, <2>2, <2>3 DEF Send
  <2>5. c[2] = Len(sent) /\ c \in Chunks
    <3>1. Len(sent) \in 0..MaxMsg
      BY TypeFacts
    <3>2. Chunk[2] = Len(sent) /\ Chunk \in Chunks
      BY <2>1, <2>3, <2>4, <3>1 DEF IsFrame, Chunk, Tags, Chunks
    <3>3. QED
      BY <2>a, <3>1, <3>2 DEF Chunks
  <2>6. stream' = Append(stream, c)
    BY <2>a DEF Send
  <2>7. \A i \in DOMAIN stream' :
          \/ i \in DOMAIN stream /\ stream'[i] = stream[i]
          \/ stream'[i] = c
    BY <2>5, <2>6, TypeFacts, AppendFacts
  <2>8. stream' # <<>> /\ sent' = sent
    BY <2>a, <2>5, <2>6, TypeFacts DEF Send
  <2>9. \A i \in DOMAIN stream' : stream'[i][2] <= Len(sent')
    BY <2>5, <2>7, <2>8, TypeFacts DEF PubInv
  <2>10. Frame(Len(sent))' = Frame(Len(sent))
    BY <1>2, <1>3, <2>2, <2>8
  <2>b. pub = "sending" /\ pub' = IF part' = m THEN "idle" ELSE "sending"
    BY <2>a, <2>3 DEF Send
  <2>11. QED
    BY <1>1, <2>b, <2>2, <2>3, <2>4, <2>8, <2>9, <2>10 DEF PubInv
<1>8. QED
  BY <1>4, <1>5, <1>6, <1>7 DEF Publisher, Sends

\* More messages do not change those handed over.
LEMMA GotInvByPublisher == ASSUME IInv, Publisher PROVE GotInv'
<1> TypeOK /\ GotInv
  BY DEF IInv
<1>1. /\ UNCHANGED <<setup, sub, want, got, lost, late, torn>>
      /\ sent' = sent \/ \E n \in Nat : sent' = Append(sent, n)
  BY PublisherLeaves
<1>a. sent \in Seq(Nat) /\ Len(sent) \in Nat
  BY TypeFacts
<1>2. Len(sent) <= Len(sent') /\ \A i \in 1 .. Len(sent) : sent'[i] = sent[i]
  <2>1. CASE sent' = sent
    BY <1>a, <2>1
  <2>2. ASSUME NEW n \in Nat, sent' = Append(sent, n)
        PROVE  Len(sent) <= Len(sent') /\ \A i \in 1 .. Len(sent) : sent'[i] = sent[i]
    <3>1. Len(sent') = Len(sent) + 1
      BY <1>a, <2>2
    <3>2. QED
      BY <1>a, <2>2, <3>1
  <2>3. QED
    BY <1>1, <2>1, <2>2
<1>3. Len(sent') \in Nat /\ Len(sent) \in Nat /\ Len(got) \in Nat /\ DOMAIN got = 1 .. Len(got)
  BY <1>1, TypeFacts
<1>4. QED
  BY <1>1, <1>2, <1>3 DEF GotInv

\* The subscriber is behind a whole chunk.
LEMMA LastReadWhole == LastRead[1] # "cut"
<1>1. IsFrame(Frame(Len(got)), Len(got))
  BY FrameFacts
<1>2. LastOf(Len(got))[1] \in Tags
  BY <1>1 DEF IsFrame, LastOf
<1>3. QED
  BY <1>2 DEF LastRead, HeaderChunk, Tags

\* On the path, the subscriber finds a size where it looks for one.
LEMMA AtSize ==
  ASSUME IInv, sub = "size", ~lost, ~late, ~torn, stream # <<>>, ~Cut(1)
  PROVE  Head(stream) = <<"total", Len(got) + 1>> /\ Len(got) < Len(sent)
<1>1. TypeOK /\ PubInv /\ PathInv /\ stream \in Seq(Chunks)
  BY TypeFacts DEF IInv
<1>2. Trail = <<LastRead>> \o stream
  BY DEF Trail
<1>3. Len(Trail) = Len(stream) + 1 /\ Trail[1] = LastRead /\ Trail[2] = stream[1] /\ Len(stream) > 0
  BY <1>1, <1>2
<1>4. Follows(LastRead, stream[1])
  BY <1>1, <1>3 DEF PathInv, OnPath, SubEnds
<1>5. LastRead[2] = Len(got) /\ (LastRead[2] = 0 \/ LastRead = LastOf(LastRead[2]))
  <2>1. CASE got = <<>>
    BY <2>1 DEF LastRead, HeaderChunk
  <2>2. CASE got # <<>>
    <3>1. IsFrame(Frame(Len(got)), Len(got))
      BY FrameFacts
    <3>2. LastOf(Len(got))[2] = Len(got)
      BY <3>1 DEF IsFrame, LastOf
    <3>3. QED
      BY <2>2, <3>2 DEF LastRead
  <2>3. QED
    BY <2>1, <2>2
<1>a. stream[1][1] # "cut" /\ LastRead[1] # "cut"
  <2>1. stream[1][1] # "cut"
    BY <1>3 DEF Cut
  <2>2. QED
    BY <2>1, LastReadWhole
<1>6. stream[1] = <<"total", Len(got) + 1>>
  BY <1>a, <1>4, <1>5 DEF Follows
<1>7. stream[1][2] <= Len(sent)
  BY <1>1, <1>3 DEF PubInv
<1>8. QED
  BY <1>1, <1>3, <1>6, <1>7, TypeFacts

\* On the path, what is there behind a size is the content of its message.
LEMMA AtData ==
  ASSUME IInv, sub = "data", ~lost, ~late, ~torn, want > 0, Len(stream) >= want, ~Cut(want)
  PROVE  Aligned
<1> DEFINE k == Len(got) + 1
           f == Frame(k)
<1>1. TypeOK /\ PubInv /\ PathInv /\ stream \in Seq(Chunks) /\ want \in 0..2 /\ k \in Nat
  BY TypeFacts DEF IInv
<1>2. Trail = <<LastRead>> \o stream
  BY DEF Trail
<1>3. Len(Trail) = Len(stream) + 1 /\ \A i \in 1 .. Len(stream) : Trail[i + 1] = stream[i]
  BY <1>1, <1>2
<1>4. Len(got) < Len(sent) /\ want = Len(f) - 1
  BY <1>1 DEF PathInv, OnPath, SubEnds
<1>5. \A i \in 1 .. Len(Trail) - 1 : Follows(Trail[i], Trail[i + 1])
  BY <1>1 DEF PathInv, OnPath, SubEnds
<1>6. IsFrame(f, k)
  BY FrameFacts
<1>7. Trail[1] = f[1]
  BY <1>2, <1>6, <1>1 DEF LastRead, IsFrame
<1>8. ASSUME NEW i \in 1 .. want, Trail[i] = f[i] PROVE stream[i] = f[i + 1]
  <2>1. Follows(f[i], stream[i])
    BY <1>1, <1>3, <1>5, <1>8
  <2>2. i \in 1 .. Len(f) /\ Len(f) \in 1 .. Len(f) /\ i # Len(f) /\ i + 1 \in 1 .. Len(f)
    BY <1>1, <1>4, <1>6 DEF IsFrame
  <2>3. f[i][2] = k /\ f[i] # f[Len(f)] /\ k # 0
    BY <2>2, <1>6, <1>1 DEF IsFrame
  <2>b. f[i][1] # "cut"
    <3>1. f[i][1] \in Tags
      BY <2>2, <1>6 DEF IsFrame
    <3>2. QED
      BY <3>1 DEF Tags
  <2>a. stream[i][1] # "cut"
    BY <1>1 DEF Cut
  <2>4. PICK p \in 1 .. Len(f) - 1 : f[i] = f[p] /\ stream[i] = f[p + 1]
    BY <2>1, <2>3, <2>a, <2>b DEF Follows, LastOf
  <2>5. p = i
    BY <2>2, <2>4, <1>6 DEF IsFrame
  <2>6. QED
    BY <2>4, <2>5
<1>9. \A i \in 1 .. want : stream[i] = f[i + 1]
  <2>1. stream[1] = f[2]
    BY <1>1, <1>7, <1>8
  <2>2. want = 2 => stream[2] = f[3]
    <3>1. CASE want = 2
      <4>1. Trail[2] = f[2]
        BY <1>1, <1>3, <2>1, <3>1
      <4>2. QED
        BY <1>8, <3>1, <4>1
    <3>2. QED
      BY <3>1
  <2>3. QED
    BY <1>1, <2>1, <2>2
<1>10. Len(Tail(f)) = want /\ \A i \in 1 .. want : Tail(f)[i] = f[i + 1]
  BY <1>1, <1>4, <1>6 DEF IsFrame
<1>11. Tail(f) \in Seq(Tags \X {k})
  BY <1>6 DEF IsFrame
<1>12. SubSeq(stream, 1, want) \in Seq(Chunks) /\ Len(SubSeq(stream, 1, want)) = want
       /\ \A i \in 1 .. want : SubSeq(stream, 1, want)[i] = stream[i]
  BY <1>1
<1>13. SubSeq(stream, 1, want) = Tail(f)
  <2> DEFINE S == Chunks \cup (Tags \X {k})
  <2>1. SubSeq(stream, 1, want) \in Seq(S) /\ Tail(f) \in Seq(S)
    BY <1>11, <1>12
  <2>2. \A i \in 1 .. want : SubSeq(stream, 1, want)[i] = Tail(f)[i]
    BY <1>9, <1>10, <1>12
  <2> HIDE DEF S, f
  <2>3. QED
    BY <2>1, <2>2, <1>10, <1>12, SameElements
<1>14. QED
  BY <1>4, <1>13 DEF Aligned

\* A message handed over is the next one, whole; and the reader leaves the
\* frame boundaries only if it looks for more than has arrived.
LEMMA GotInvBySubscriber == ASSUME IInv, Subscriber PROVE GotInv' /\ (lost' => late' \/ torn')
<1> TypeOK /\ PubInv /\ GotInv /\ PathInv /\ (lost => late \/ torn)
  BY DEF IInv
<1> USE DEF frameVars, readVars
<1>1. UNCHANGED <<setup, pub, sent, part>>
  BY SubscriberLeaves
<1>2. CASE SubHello \/ SubDataTimeout
  BY <1>1, <1>2 DEF SubHello, SubDataTimeout, GotInv, SubEnds
<1>3. CASE SubHeader
  BY <1>1, <1>3 DEF SubHeader, GotInv, SubEnds
<1>4. CASE SubDataEnd
  <2>1. got' = Append(got, <<0, 0>>) /\ sub' = "closed" /\ lost' = lost /\ late' = late /\ torn' = torn
    BY <1>4 DEF SubDataEnd, Callback, LoopOrClose
  <2>a. got \in Seq(Callbacks) /\ <<0, 0>> \in Callbacks
    BY TypeFacts DEF Callbacks
  <2>2. Len(got') = Len(got) + 1 /\ \A i \in DOMAIN got' :
       \/ i \in DOMAIN got /\ got'[i] = got[i]
       \/ i = Len(got') /\ got'[i] = <<0, 0>>
    BY <2>1, <2>a, AppendFacts
  <2>3. \A i \in DOMAIN got : ~lost => ~(got[i] = <<0, 0>> /\ i = Len(got) /\ sub \in SubEnds)
    BY <1>4 DEF SubDataEnd, SubEnds
  <2>4. QED
    BY <1>1, <2>1, <2>2, <2>3 DEF GotInv, SubEnds
<1>5. CASE SubDataWhole
  <2> DEFINE k == Len(got) + 1
  <2>1. k \in 1 .. Len(sent) /\ sent[k] \in Nat
    BY <1>5, TypeFacts DEF SubDataWhole, Aligned
  <2>2. \/ RosData(k) = sent[k]
        \/ setup.type["sub"] = String.type /\ sent[k] >= 128 /\ RosData(k) = LowByte(sent[k])
    BY <2>1, LowByteFacts DEF RosData
  <2>3. /\ lost' = lost /\ late' = late /\ torn' = torn /\ sub' \notin {"start", "header"}
        /\ got' = got \/ got' = Append(got, <<k, RosData(k)>>)
    BY <1>5 DEF SubDataWhole, Callback, LoopOrClose
  <2>a. got \in Seq(Nat \X Int) /\ <<k, RosData(k)>> \in Nat \X Int
    <3>1. got \in Seq(Callbacks) /\ Callbacks \subseteq Nat \X Int
      BY TypeFacts DEF Callbacks
    <3>2. RosData(k) \in Int
      BY <2>1, <2>2, LowByteFacts
    <3>3. QED
      BY <2>1, <3>1, <3>2, TypeFacts
  <2>4. \A i \in DOMAIN got' :
       \/ i \in DOMAIN got /\ got'[i] = got[i]
       \/ i = k /\ got'[i] = <<k, RosData(k)>>
    <3>1. CASE got' = Append(got, <<k, RosData(k)>>)
      BY <2>a, <3>1, AppendFacts
    <3>2. CASE got' = got
      BY <3>2
    <3>3. QED
      BY <2>3, <3>1, <3>2
  <2>5. \A i \in DOMAIN got : ~(got[i] = <<0, 0>> /\ i = Len(got) /\ sub \in SubEnds)
    BY <1>5 DEF SubDataWhole, SubEnds
  <2>6. ASSUME ~lost', NEW i \in DOMAIN got'
        PROVE  /\ i <= Len(sent)
               /\ \/ got'[i] = <<i, sent[i]>>
                  \/ setup.type["sub"] = String.type /\ sent[i] >= 128 /\ got'[i] = <<i, LowByte(sent[i])>>
    <3>1. CASE i \in DOMAIN got /\ got'[i] = got[i]
      BY <3>1, <2>3, <2>5, <2>6 DEF GotInv
    <3>2. CASE i = k /\ got'[i] = <<k, RosData(k)>>
      BY <3>2, <2>1, <2>2
    <3>3. QED
      BY <2>4, <3>1, <3>2, <2>6
  <2>7. ~lost' => \A i \in DOMAIN got' :
           /\ i <= Len(sent')
           /\ \/ got'[i] = <<i, sent'[i]>>
              \/ setup'.type["sub"] = String.type /\ sent'[i] >= 128 /\ got'[i] = <<i, LowByte(sent'[i])>>
    BY <1>1, <2>6
  <2>8. QED
    BY <2>3, <2>7 DEF GotInv
<1>6. CASE SubDataPart
  <2>1. lost' /\ sub' \notin {"start", "header"}
    BY <1>6 DEF SubDataPart, LoopOrClose
  <2>2. late' \/ torn'
    <3>1. CASE lost \/ late \/ torn \/ Len(stream) < want \/ Cut(want)
      <4>1. late' = (late \/ Len(stream) < want) /\ torn' = (torn \/ Cut(want))
        BY <1>6 DEF SubDataPart
      <4>2. QED
        BY <3>1, <4>1
    <3>2. CASE ~(lost \/ late \/ torn \/ Len(stream) < want \/ Cut(want))
      <4>1. Len(stream) >= want
        BY <3>2, TypeFacts
      <4>2. Aligned
        BY <1>6, <3>2, <4>1, AtData DEF SubDataPart
      <4>3. QED
        BY <1>6, <4>2 DEF SubDataPart
    <3>3. QED
      BY <3>1, <3>2
  <2>3. QED
    BY <2>1, <2>2 DEF GotInv
<1>7. CASE SubSize
  <2>1. lost' => late' \/ torn'
    <3>1. CASE stream = <<>>
      BY <1>7, <3>1 DEF SubSize
    <3>2. CASE stream # <<>>
      <4>1. /\ late' = late /\ lost' = (lost \/ Head(stream)[1] # "total")
            /\ torn' = (torn \/ Cut(1))
        BY <1>7, <3>2 DEF SubSize
      <4>2. ~lost /\ ~late /\ ~torn /\ ~Cut(1) => Head(stream)[1] = "total"
        BY <1>7, <3>2, AtSize DEF SubSize
      <4>3. QED
        BY <4>1, <4>2
    <3>3. QED
      BY <3>1, <3>2
  <2>a. lost => lost'
    BY <1>7, Zenon DEF SubSize
  <2>2. got' = got /\ sub = "size" /\ sub' = "data" /\ (lost => lost')
    BY <1>7, <2>a DEF SubSize
  <2>3. QED
    BY <1>1, <2>1, <2>2 DEF GotInv, SubEnds
<1>8. QED
  BY <1>2, <1>3, <1>4, <1>5, <1>6, <1>7 DEF Subscriber

-----------------------------------------------------------------------------

\* Every chunk on the path is of a message that was begun.
LEMMA TrailFacts ==
  ASSUME IInv, OnPath
  PROVE  /\ LastRead \in Chunks /\ LastRead[2] \in 0 .. Len(sent)
         /\ Trail \in Seq(Chunks)
         /\ \A i \in 1 .. Len(Trail) : Trail[i][2] \in 0 .. Len(sent)
<1>1. TypeOK /\ PubInv /\ PathInv /\ stream \in Seq(Chunks)
  BY TypeFacts DEF IInv
<1>2. Len(got) <= Len(sent) /\ (sub = "data" => Len(got) < Len(sent))
  BY <1>1 DEF PathInv
<1>3. Len(got) \in Nat /\ Len(sent) \in 0..MaxMsg /\ MaxMsg \in Nat
  BY <1>1, TypeFacts
<1>4. LastRead \in Chunks /\ LastRead[2] \in 0 .. Len(sent)
  <2>1. CASE sub = "data"
    <3>1. LastRead = <<"total", Len(got) + 1>>
      BY <2>1 DEF LastRead
    <3>2. QED
      BY <2>1, <3>1, <1>2, <1>3 DEF Chunks
  <2>2. CASE sub # "data" /\ got = <<>>
    BY <2>2, <1>3 DEF LastRead, HeaderChunk, Chunks
  <2>3. CASE sub # "data" /\ got # <<>>
    <3>1. IsFrame(Frame(Len(got)), Len(got))
      BY FrameFacts
    <3>2. LastOf(Len(got)) \in Tags \X {Len(got)}
      BY <3>1 DEF IsFrame, LastOf
    <3>3. LastRead = LastOf(Len(got))
      BY <2>3 DEF LastRead
    <3>4. QED
      BY <3>2, <3>3, <1>2, <1>3 DEF Chunks, Tags
  <2>4. QED
    BY <2>1, <2>2, <2>3
<1>5. \A i \in 1 .. Len(stream) : stream[i][2] \in 0 .. Len(sent)
  <2>1. \A i \in 1 .. Len(stream) : stream[i][2] \in Nat
    BY <1>1, <1>3 DEF Chunks
  <2>2. QED
    BY <1>1, <1>3, <2>1 DEF PubInv
<1>6. CASE sub \in {"start", "header"}
  BY <1>1, <1>4, <1>5, <1>6 DEF Trail
<1>7. CASE sub \notin {"start", "header"}
  <2>1. Trail = <<LastRead>> \o stream
    BY <1>7 DEF Trail
  <2>2. Trail \in Seq(Chunks) /\ Len(Trail) = Len(stream) + 1 /\ Trail[1] = LastRead
    BY <1>1, <1>4, <2>1
  <2>3. \A i \in 1 .. Len(Trail) : i = 1 \/ Trail[i] = stream[i - 1]
    BY <1>1, <1>4, <2>1
  <2>4. QED
    BY <1>1, <1>4, <1>5, <2>2, <2>3
<1>8. QED
  BY <1>4, <1>6, <1>7

\* The order of two chunks is not changed by later messages.
LEMMA FollowsStays ==
  ASSUME TypeOK, setup' = setup, sent' = sent \/ \E n \in Nat : sent' = Append(sent, n),
         NEW c, NEW d, c[2] \in 0 .. Len(sent), Follows(c, d)
  PROVE  Follows(c, d)'
<1>1. CASE c[2] = 0
  BY <1>1 DEF Follows
<1>2. CASE c[2] # 0
  <2>1. c[2] \in 1 .. Len(sent)
    BY <1>2, TypeFacts
  <2>2. Frame(c[2])' = Frame(c[2]) /\ LastOf(c[2])' = LastOf(c[2])
    BY <2>1, FrameStays
  <2>3. QED
    BY <2>2 DEF Follows
<1>3. QED
  BY <1>1, <1>2

\* The end of the trail is moved by the publisher only.
LEMMA LastSentStays ==
  ASSUME TypeOK, UNCHANGED <<setup, sent, part>>
  PROVE  LastSent' = LastSent
<1>1. CASE sent = <<>> \/ (part = 0 /\ Len(sent) = 1)
  BY <1>1 DEF LastSent
<1>2. CASE ~(sent = <<>> \/ (part = 0 /\ Len(sent) = 1))
  <2>1. Len(sent) \in 1 .. Len(sent) /\ (part = 0 => Len(sent) - 1 \in 1 .. Len(sent))
    <3>1. Len(sent) \in Nat /\ Len(sent) # 0
      BY <1>2, TypeFacts
    <3>2. PICK n \in Nat \ {0} : n = Len(sent)
      BY <3>1
    <3>3. part = 0 => n # 1
      BY <1>2, <3>2, Zenon
    <3>4. n \in 1 .. n /\ (part = 0 => n - 1 \in 1 .. n)
      BY <3>3
    <3>5. QED
      BY <3>2, <3>4
  <2>2. Frame(Len(sent))' = Frame(Len(sent)) /\ (part = 0 => LastOf(Len(sent) - 1)' = LastOf(Len(sent) - 1))
    BY <2>1, FrameStays
  <2>3. QED
    BY <1>2, <2>2 DEF LastSent
<1>3. QED
  BY <1>1, <1>2

\* The trail only loses chunks at its beginning.
LEMMA TrailShrinks ==
  ASSUME IInv, OnPath, UNCHANGED <<setup, sent, part>>, NEW w \in Nat,
         Len(Trail') \in Nat \ {0}, Len(Trail') + w = Len(Trail),
         \A i \in 1 .. Len(Trail') : Trail'[i] = Trail[i + w]
  PROVE  /\ Trail'[Len(Trail')] = LastSent' \/ Trail'[Len(Trail')][1] = "cut"
         /\ \A i \in 1 .. Len(Trail') - 1 : Follows(Trail[i], Trail[i + 1])'
<1>1. TypeOK /\ PubInv /\ PathInv /\ Trail \in Seq(Chunks) /\ Len(Trail) \in Nat
  BY TrailFacts DEF IInv
<1>2. LastSent' = LastSent
  BY <1>1, LastSentStays
<1>3. Trail # <<>> /\ (Trail[Len(Trail)] = LastSent \/ Trail[Len(Trail)][1] = "cut")
  BY <1>1 DEF PathInv
<1>4. Trail'[Len(Trail')] = Trail[Len(Trail)]
  OBVIOUS
<1>5. ASSUME NEW i \in 1 .. Len(Trail') - 1 PROVE Follows(Trail[i], Trail[i + 1])'
  <2>1. /\ i + w \in 1 .. Len(Trail) - 1 /\ i + w + 1 = (i + 1) + w /\ i + w \in 1 .. Len(Trail)
        /\ i \in 1 .. Len(Trail') /\ i + 1 \in 1 .. Len(Trail')
    BY <1>1
  <2>2. Trail'[i] = Trail[i + w] /\ Trail'[i + 1] = Trail[i + w + 1]
    BY <2>1
  <2>3. Follows(Trail[i + w], Trail[i + w + 1]) /\ Trail[i + w][2] \in 0 .. Len(sent)
    BY <1>1, <2>1, TrailFacts DEF PathInv
  <2>4. PICK c, d : c = Trail[i + w] /\ d = Trail[i + w + 1]
    OBVIOUS
  <2>5. Follows(c, d)'
    BY <1>1, <2>3, <2>4, FollowsStays
  <2>6. QED
    BY <2>2, <2>4, <2>5
<1>6. QED
  BY <1>2, <1>3, <1>4, <1>5

\* What the subscriber takes is the beginning of the trail.
LEMMA PathBySubscriber == ASSUME IInv, Subscriber PROVE PathInv'
<1> TypeOK /\ PubInv /\ GotInv /\ PathInv
  BY DEF IInv
<1> SUFFICES ASSUME OnPath' PROVE PathInv'
  BY DEF PathInv
<1>a. UNCHANGED <<setup, sent, part>>
  BY SubscriberLeaves
<1>b. stream \in Seq(Chunks) /\ Len(got) \in Nat /\ Len(sent) \in Nat
  BY TypeFacts
<1> USE DEF frameVars, readVars
<1>1. CASE SubHello
  <2>1. stream = <<>> /\ stream' = <<>> /\ sub' = "header" /\ got' = <<>>
    BY <1>1 DEF SubHello, PubInv, GotInv
  <2>2. Trail' = <<>>
    BY <2>1 DEF Trail
  <2>3. QED
    BY <1>a, <1>b, <2>1, <2>2 DEF PathInv
<1>2. CASE SubHeader
  <2>1. stream # <<>> /\ stream' = Tail(stream) /\ sub = "header" /\ sub' = "size" /\ got' = got
    BY <1>2 DEF SubHeader, OnPath, SubEnds
  <2>2. OnPath /\ got = <<>>
    BY <2>1 DEF GotInv, OnPath, SubEnds
  <2>3. Trail = stream /\ LastRead = HeaderChunk /\ LastRead' = HeaderChunk
    BY <2>1, <2>2 DEF Trail, LastRead
  <2>4. stream[1] = HeaderChunk
    BY <2>1, <2>2, <2>3 DEF PathInv
  <2>5. Trail' = <<HeaderChunk>> \o Tail(stream)
    BY <2>1, <2>3 DEF Trail
  <2>6. HeaderChunk \in Chunks
    BY <1>b, <2>1, <2>4
  <2>7. Len(Trail') = Len(Trail) /\ Len(Trail') \in Nat \ {0} /\ Trail'[1] = HeaderChunk
        /\ \A i \in 1 .. Len(Trail') : Trail'[i] = Trail[i + 0]
    BY <1>b, <2>1, <2>3, <2>4, <2>5, <2>6
  <2>8. /\ Trail'[Len(Trail')] = LastSent' \/ Trail'[Len(Trail')][1] = "cut"
        /\ \A i \in 1 .. Len(Trail') - 1 : Follows(Trail[i], Trail[i + 1])'
    BY <1>a, <2>2, <2>7, TrailShrinks
  <2>9. QED
    BY <1>a, <1>b, <2>1, <2>2, <2>3, <2>7, <2>8 DEF PathInv
<1>3. CASE SubSize
  <2>1. stream # <<>> /\ stream' = Tail(stream) /\ sub = "size" /\ sub' = "data" /\ got' = got
    BY <1>3 DEF SubSize, OnPath
  <2>2. ~lost /\ ~late /\ ~torn /\ ~Cut(1)
    <3>1. late' = late /\ (lost => lost') /\ (torn \/ Cut(1) => torn')
      BY <1>3, <2>1, Zenon DEF SubSize
    <3>2. QED
      BY <3>1 DEF OnPath
  <2>3. OnPath
    BY <2>1, <2>2 DEF OnPath, SubEnds
  <2>4. Head(stream) = <<"total", Len(got) + 1>> /\ Len(got) < Len(sent)
    BY <2>1, <2>2, AtSize
  <2>5. want' = Len(Frame(Len(got) + 1)) - 1
    BY <1>3, <2>1, <2>2, <2>4 DEF SubSize
  <2>6. Frame(Len(got) + 1)' = Frame(Len(got) + 1)
    <3>1. Len(got) + 1 \in 1 .. Len(sent)
      BY <1>b, <2>4
    <3>2. QED
      BY <1>a, <2>1, <3>1, FrameStays
  <2>7. LastRead' = Head(stream)
    BY <2>1, <2>4 DEF LastRead
  <2>8. Trail = <<LastRead>> \o stream /\ LastRead \in Chunks
    BY <2>1, <2>3, TrailFacts DEF Trail
  <2>9. Trail' = <<Head(stream)>> \o Tail(stream)
    BY <2>1, <2>7 DEF Trail
  <2>10. /\ Len(Trail') + 1 = Len(Trail) /\ Len(Trail') \in Nat \ {0} /\ Trail'[1] = Head(stream)
         /\ \A i \in 1 .. Len(Trail') : Trail'[i] = Trail[i + 1]
    BY <1>b, <2>1, <2>8, <2>9
  <2>11. /\ Trail'[Len(Trail')] = LastSent' \/ Trail'[Len(Trail')][1] = "cut"
         /\ \A i \in 1 .. Len(Trail') - 1 : Follows(Trail[i], Trail[i + 1])'
    BY <1>a, <2>3, <2>10, TrailShrinks
  <2>12. QED
    BY <1>a, <1>b, <2>1, <2>4, <2>5, <2>6, <2>7, <2>10, <2>11 DEF PathInv
<1>4. CASE SubDataWhole
  <2>0. PICK k \in Nat \ {0} : k = Len(got) + 1
    BY <1>b
  <2> DEFINE f == Frame(k)
  <2>1. /\ sub = "data" /\ sub' = "size" /\ UNCHANGED <<want, lost, late, torn>>
        /\ got' = Append(got, <<k, RosData(k)>>)
        /\ want > 0 /\ want <= Len(stream) /\ Len(got) < Len(sent)
        /\ SubSeq(stream, 1, want) = Tail(f)
        /\ stream' = SubSeq(stream, want + 1, Len(stream))
    <3>1. sub' # "crashed" /\ sub' # "closed"
      BY DEF OnPath, SubEnds
    <3>2. Aligned
      BY <1>4 DEF SubDataWhole
    <3>3. want <= Len(stream)
      BY <3>2, TypeFacts DEF Aligned
    <3>4. got' = Append(got, <<k, RosData(k)>>) /\ sub' = "size"
      BY <1>4, <2>0, <3>1 DEF SubDataWhole, Callback, LoopOrClose
    <3>5. QED
      BY <1>4, <2>0, <3>2, <3>3, <3>4 DEF SubDataWhole, Aligned
  <2>2. OnPath
    BY <2>1 DEF OnPath, SubEnds
  <2>a. want = Len(f) - 1
    BY <2>0, <2>1, <2>2 DEF PathInv
  <2>b. IsFrame(f, k)
    BY FrameFacts
  <2>c. Len(f) \in 1..3
    BY <2>b DEF IsFrame
  <2>d. PICK w \in 1..2 : w = want
    BY <2>1, TypeFacts
  <2>3. w = Len(f) - 1 /\ Len(f) = w + 1
    BY <2>a, <2>c, <2>d
  <2>4. Len(got') = k /\ got' # <<>>
    <3>1. got \in Seq(Nat \X Int)
      <4>1. Callbacks \subseteq Nat \X Int
        BY DEF Callbacks
      <4>2. QED
        BY <4>1, TypeFacts
    <3>2. QED
      BY <2>0, <2>1, <3>1
  <2>5. LastRead' = f[w + 1]
    <3>1. k \in 1 .. Len(sent)
      BY <1>b, <2>0, <2>1
    <3>2. LastOf(k)' = LastOf(k)
      BY <1>a, <3>1, FrameStays
    <3>3. LastRead' = LastOf(Len(got))'
      BY <2>1, <2>4 DEF LastRead
    <3>4. LastOf(k) = f[w + 1]
      BY <2>3 DEF LastOf
    <3>5. QED
      BY <2>4, <3>2, <3>3, <3>4
  <2>6. stream[w] = f[w + 1]
    <3>1. IsFrame(f, k)
      BY FrameFacts
    <3>2. f \in Seq(Tags \X {k}) /\ Len(f) \in 1..3
      BY <3>1 DEF IsFrame
    <3>3. Tail(f)[w] = f[w + 1]
      BY <2>3, <3>2
    <3>4. SubSeq(stream, 1, w)[w] = stream[w]
      BY <1>b, <2>1, <2>d
    <3>5. QED
      BY <2>1, <2>d, <3>3, <3>4
  <2>7. Trail = <<LastRead>> \o stream /\ LastRead \in Chunks
    BY <2>1, <2>2, TrailFacts DEF Trail
  <2>8. Trail' = <<stream[w]>> \o SubSeq(stream, w + 1, Len(stream)) /\ stream[w] \in Chunks
    BY <1>b, <2>1, <2>d, <2>5, <2>6 DEF Trail
  <2>9. /\ Len(Trail') + w = Len(Trail) /\ Len(Trail') \in Nat \ {0} /\ Trail'[1] = stream[w]
        /\ \A i \in 1 .. Len(Trail') : Trail'[i] = Trail[i + w]
    <3>1. Len(stream) >= w /\ Len(stream) \in Nat
      BY <1>b, <2>1, <2>d
    <3>2. SubSeq(stream, w + 1, Len(stream)) \in Seq(Chunks)
          /\ Len(SubSeq(stream, w + 1, Len(stream))) = Len(stream) - w
          /\ \A i \in 1 .. Len(stream) - w : SubSeq(stream, w + 1, Len(stream))[i] = stream[i + w]
      BY <1>b, <3>1
    <3>3. Len(Trail') = Len(stream) - w + 1 /\ Trail'[1] = stream[w]
          /\ \A i \in 1 .. Len(stream) - w : Trail'[i + 1] = stream[i + w]
      BY <2>8, <3>1, <3>2
    <3>4. Len(Trail) = Len(stream) + 1 /\ \A i \in 1 .. Len(stream) : Trail[i + 1] = stream[i]
      BY <1>b, <2>7
    <3>5. ASSUME NEW i \in 1 .. Len(Trail') PROVE Trail'[i] = Trail[i + w]
      <4>1. CASE i = 1
        BY <3>1, <3>3, <3>4, <4>1
      <4>2. CASE i # 1
        <5>1. i - 1 \in 1 .. Len(stream) - w /\ i - 1 + w \in 1 .. Len(stream)
          BY <3>1, <3>3, <4>2
        <5>2. Trail'[i - 1 + 1] = stream[i - 1 + w] /\ Trail[i - 1 + w + 1] = stream[i - 1 + w]
          BY <3>3, <3>4, <5>1
        <5>3. i - 1 + 1 = i /\ i - 1 + w + 1 = i + w
          OBVIOUS
        <5>4. QED
          BY <5>2, <5>3
      <4>3. QED
        BY <4>1, <4>2
    <3>6. QED
      BY <3>1, <3>3, <3>4, <3>5
  <2>10. /\ Trail'[Len(Trail')] = LastSent' \/ Trail'[Len(Trail')][1] = "cut"
         /\ \A i \in 1 .. Len(Trail') - 1 : Follows(Trail[i], Trail[i + 1])'
    BY <1>a, <2>2, <2>9, TrailShrinks
  <2>11. Trail'[1] = LastRead' /\ Len(got') <= Len(sent') /\ sub' # "data"
    BY <1>a, <1>b, <2>0, <2>1, <2>4, <2>5, <2>6, <2>9
  <2>12. QED
    BY <2>10, <2>11 DEF PathInv
<1>5. CASE SubDataPart \/ SubDataEnd \/ SubDataTimeout
  BY <1>5 DEF SubDataPart, SubDataEnd, SubDataTimeout, LoopOrClose, OnPath, SubEnds
<1>6. QED
  BY <1>1, <1>2, <1>3, <1>4, <1>5 DEF Subscriber

\* What the publisher sends follows the end of the trail.
LEMMA PathByPublisher == ASSUME IInv, Publisher PROVE PathInv'
<1> TypeOK /\ PubInv /\ GotInv /\ PathInv
  BY DEF IInv
<1> SUFFICES ASSUME OnPath' PROVE PathInv'
  BY DEF PathInv
<1>a. /\ UNCHANGED <<setup, sub, want, got, lost, late, torn>>
      /\ sent' = sent \/ \E n \in Nat : sent' = Append(sent, n)
  BY PublisherLeaves
<1>b. OnPath
  BY <1>a DEF OnPath, SubEnds
<1>c. stream \in Seq(Chunks) /\ sent \in Seq(Nat) /\ Len(got) \in Nat /\ Len(sent) \in Nat
  BY TypeFacts
<1>d. \A k \in 1 .. Len(sent) : Frame(k)' = Frame(k) /\ LastOf(k)' = LastOf(k)
  BY <1>a, FrameStays
<1>e. Len(sent) <= Len(sent')
  BY <1>a, <1>c
<1>f. Len(got) <= Len(sent) /\ (sub = "data" => Len(got) < Len(sent) /\ Len(got) + 1 \in 1 .. Len(sent))
  BY <1>b, <1>c DEF PathInv
<1>g. LastRead' = LastRead
  <2>1. CASE sub = "data" \/ got = <<>>
    BY <1>a, <2>1 DEF LastRead
  <2>2. CASE sub # "data" /\ got # <<>>
    <3>1. got \in Seq(Callbacks)
      BY TypeFacts
    <3>2. Len(got) \in 1 .. Len(sent)
      BY <1>c, <1>f, <2>2, <3>1
    <3>3. LastOf(Len(got))' = LastOf(Len(got))
      BY <1>a, <1>d, <3>2
    <3>4. QED
      BY <1>a, <2>2, <3>3 DEF LastRead
  <2>3. QED
    BY <2>1, <2>2
<1>h. /\ Len(got') <= Len(sent')
      /\ sub' = "data" => Len(got') < Len(sent') /\ want' = Len(Frame(Len(got) + 1)') - 1
  <2>1. sub = "data" => want = Len(Frame(Len(got) + 1)) - 1 /\ Frame(Len(got) + 1)' = Frame(Len(got) + 1)
    BY <1>a, <1>b, <1>d, <1>f DEF PathInv
  <2>2. QED
    BY <1>a, <1>c, <1>e, <1>f, <2>1
<1>i. Trail \in Seq(Chunks) /\ Len(Trail) \in Nat
  BY <1>b, TrailFacts
<1>j. \A i \in 1 .. Len(Trail) - 1 : i \in 1 .. Len(Trail) /\ i + 1 \in 1 .. Len(Trail)
  BY <1>i
\* What was on the path stays on it.
<1>k. ASSUME NEW i \in 1 .. Len(Trail) - 1, Trail'[i] = Trail[i], Trail'[i + 1] = Trail[i + 1]
      PROVE  Follows(Trail[i], Trail[i + 1])'
  <2>1. PICK c, d : c = Trail[i] /\ d = Trail[i + 1]
    OBVIOUS
  <2>2. Follows(c, d) /\ c[2] \in 0 .. Len(sent)
    BY <1>b, <1>j, <2>1, TrailFacts DEF PathInv
  <2>3. Follows(c, d)'
    BY <1>a, <2>2, FollowsStays
  <2>4. QED
    BY <1>k, <2>1, <2>3
<1>1. CASE PubHeader
  <2>1. /\ sub \notin {"size", "data"} /\ sent' = <<>> /\ sent = <<>>
        /\ stream' = <<HeaderChunk>> \/ stream' = <<>>
    BY <1>1 DEF PubHeader, PubInv, frameVars, HeaderChunk
  <2>2. sub \in {"start", "header"}
    BY <1>b, <2>1 DEF OnPath, SubEnds, TypeOK
  <2>3. got' = <<>> /\ Trail' = stream' /\ LastRead' = HeaderChunk /\ LastSent' = HeaderChunk
    BY <1>a, <2>1, <2>2 DEF GotInv, Trail, LastRead, LastSent
  <2>4. CASE stream' = <<>>
    BY <1>h, <2>3, <2>4 DEF PathInv
  <2>5. CASE stream' = <<HeaderChunk>>
    <3>1. Len(Trail') = 1 /\ Trail'[1] = HeaderChunk
      BY <2>3, <2>5
    <3>2. QED
      BY <1>h, <2>3, <3>1 DEF PathInv
  <2>6. QED
    BY <2>1, <2>4, <2>5
<1>2. ASSUME stream' = stream, LastSent' = LastSent PROVE PathInv'
  <2>1. Trail' = Trail
    BY <1>a, <1>g, <1>2 DEF Trail
  <2>2. \A i \in 1 .. Len(Trail') - 1 : Follows(Trail[i], Trail[i + 1])'
    BY <1>k, <2>1
  <2>3. Trail' # <<>> => /\ Trail'[1] = LastRead'
                         /\ Trail'[Len(Trail')] = LastSent' \/ Trail'[Len(Trail')][1] = "cut"
    BY <1>b, <1>g, <1>2, <2>1 DEF PathInv
  <2>4. QED
    BY <1>h, <2>2, <2>3 DEF PathInv
<1>3. CASE TcpSendUnsupported \/ PubLeave
  <2>1. UNCHANGED <<sent, part, stream>>
    BY <1>3 DEF TcpSendUnsupported, PubLeave, frameVars
  <2>2. LastSent' = LastSent
    BY <1>a, <2>1, LastSentStays
  <2>3. QED
    BY <1>2, <2>1, <2>2
<1>4. ASSUME NEW n \in MessageLengths, TakeMessage(n) PROVE PathInv'
  <2>1. /\ stream' = stream /\ sent' = Append(sent, n) /\ part' = 0 /\ pub = "idle"
    BY <1>4 DEF TakeMessage
  <2>2. n \in Nat
    <3>1. n \in Lengths \cup {0, 1}
      BY SentType
    <3>2. QED
      BY <3>1, TcpRosAssumption
  <2>3. sent' # <<>> /\ Len(sent') = Len(sent) + 1
    BY <1>c, <2>1, <2>2
  <2>4. LastSent' = LastSent
    <3>1. CASE sent = <<>>
      <4>1. Len(sent') = 1
        BY <2>3, <3>1
      <4>2. QED
        BY <2>1, <3>1, <4>1 DEF LastSent
    <3>2. CASE sent # <<>>
      <4>1. PICK m \in Nat \ {0} : m = Len(sent)
        BY <1>c, <3>2
      <4>2. IsFrame(Frame(m), m)
        BY FrameFacts
      <4>3. part = Len(Frame(m)) /\ part # 0
        BY <2>1, <3>2, <4>1, <4>2 DEF PubInv, IsFrame
      <4>4. LastSent = LastOf(m)
        BY <3>2, <4>1, <4>3 DEF LastSent, LastOf
      <4>5. LastOf(m)' = LastOf(m)
        BY <1>d, <4>1
      <4>6. Len(sent') - 1 = m /\ Len(sent') # 1
        BY <2>3, <4>1
      <4>7. LastSent' = LastOf(m)'
        BY <2>1, <2>3, <4>6 DEF LastSent
      <4>8. QED
        BY <4>4, <4>5, <4>7
    <3>3. QED
      BY <3>1, <3>2
  <2>5. QED
    BY <1>2, <2>1, <2>4
<1>5. CASE SendChunk \/ SendShort
  <2>a. PICK c \in {Chunk, <<"cut", Len(sent)>>} : Send(c)
    BY <1>5 DEF SendChunk, SendShort
  <2>1. PICK m \in Nat \ {0} : m = Len(sent)
    BY <2>a, <1>c DEF Send, PubInv
  <2>2. IsFrame(Frame(m), m) /\ Len(Frame(m)) \in 1..3 /\ part \in 0..3
    BY FrameFacts, TypeFacts DEF IsFrame
  <2>3. PICK p \in 1..3 : p = part + 1 /\ p \in 1 .. Len(Frame(m)) /\ part' = p /\ sent' = sent
    <3>1. part < Len(Frame(m)) /\ part' = part + 1 /\ sent' = sent
      BY <2>a, <2>1 DEF Send, PubInv
    <3>2. PICK n \in 1..3 : n = Len(Frame(m)) /\ part < n
      BY <2>2, <3>1
    <3>3. part + 1 \in 1..3 /\ part + 1 \in 1 .. n
      BY <2>2, <3>2
    <3>4. QED
      BY <3>1, <3>2, <3>3
  <2> DEFINE w == Frame(m)[p]
  <2>b. c = w \/ c = <<"cut", m>>
    BY <2>a, <2>1, <2>3 DEF Chunk
  <2>4. c \in Chunks /\ c[2] = m
    <3>1. m \in 0..MaxMsg
      BY <2>1, TypeFacts
    <3>2. w[1] \in Tags /\ w = <<w[1], m>> /\ w[2] = m
      BY <2>2, <2>3 DEF IsFrame
    <3>3. w \in Chunks /\ <<"cut", m>> \in Chunks
      BY <3>1, <3>2 DEF Tags, Chunks
    <3>4. QED
      BY <2>b, <3>2, <3>3
  <2>5. stream' = Append(stream, c)
    BY <2>a DEF Send
  <2>6. LastSent' = w
    <3>1. Frame(m)' = Frame(m) /\ Len(sent') = m /\ part' # 0 /\ sent' # <<>>
      BY <1>c, <1>d, <2>1, <2>3
    <3>2. LastSent' = Frame(m)'[p]
      BY <2>3, <3>1 DEF LastSent
    <3>3. QED
      BY <3>1, <3>2
  <2>c. Follows(LastSent, w)
    <3>1. CASE part = 0 /\ m = 1
      BY <2>1, <2>2, <2>3, <3>1 DEF LastSent, Follows, HeaderChunk, IsFrame
    <3>2. CASE part = 0 /\ m # 1
      <4>1. LastSent = LastOf(m - 1) /\ p = 1
        BY <1>c, <2>1, <2>3, <3>2 DEF LastSent
      <4>2. IsFrame(Frame(m - 1), m - 1)
        BY FrameFacts
      <4>3. LastOf(m - 1)[2] = m - 1
        BY <4>2 DEF IsFrame, LastOf
      <4>4. w = <<"total", m>> /\ m - 1 + 1 = m
        BY <2>2, <4>1 DEF IsFrame
      <4>5. QED
        BY <4>1, <4>3, <4>4 DEF Follows
    <3>3. CASE part # 0
      <4>1. LastSent = Frame(m)[part]
        BY <1>c, <2>1, <3>3 DEF LastSent
      <4>2. part \in 1 .. Len(Frame(m)) - 1 /\ part \in 1 .. Len(Frame(m)) /\ part # Len(Frame(m))
            /\ Len(Frame(m)) \in 1 .. Len(Frame(m))
        BY <2>2, <2>3, <3>3
      <4>3. Frame(m)[part][2] = m /\ Frame(m)[part] # LastOf(m) /\ m # 0
        BY <2>2, <4>2 DEF IsFrame, LastOf
      <4>4. w = Frame(m)[part + 1]
        BY <2>3
      <4>5. QED
        BY <4>1, <4>2, <4>3, <4>4 DEF Follows
    <3>4. QED
      BY <3>1, <3>2, <3>3
  <2>7. Follows(LastSent, c) /\ (c = LastSent' \/ c[1] = "cut")
    <3>1. CASE c = w
      BY <2>c, <2>6, <3>1
    <3>2. CASE c = <<"cut", m>>
      BY <3>2 DEF Follows
    <3>3. QED
      BY <2>b, <3>1, <3>2
  <2>8. Trail # <<>> /\ Trail' = Append(Trail, c)
    <3>1. CASE sub \in {"start", "header"}
      <4>1. stream # <<>>
        BY <2>a, <3>1 DEF Send, PubInv
      <4>2. QED
        BY <1>a, <2>5, <3>1, <4>1 DEF Trail
    <3>2. CASE sub \notin {"start", "header"}
      <4>1. LastRead \in Chunks
        BY <1>b, TrailFacts
      <4>2. Trail = <<LastRead>> \o stream /\ Trail' = <<LastRead>> \o Append(stream, c)
        BY <1>a, <1>g, <2>5, <3>2 DEF Trail
      <4>3. Trail # <<>>
        BY <1>c, <4>1, <4>2
      <4>4. Len(Trail') = Len(Append(Trail, c)) /\ Trail' \in Seq(Chunks) /\ Append(Trail, c) \in Seq(Chunks)
        BY <1>c, <2>4, <4>1, <4>2
      <4>5. \A i \in 1 .. Len(Trail') : Trail'[i] = Append(Trail, c)[i]
        BY <1>c, <2>4, <4>1, <4>2
      <4>6. QED
        BY <4>3, <4>4, <4>5, SameElements
    <3>3. QED
      BY <3>1, <3>2
  <2> HIDE DEF w
  <2>9. /\ Len(Trail') = Len(Trail) + 1 /\ Trail'[Len(Trail) + 1] = c
        /\ \A i \in 1 .. Len(Trail) : Trail'[i] = Trail[i]
        /\ 1 \in 1 .. Len(Trail)
    BY <1>i, <2>4, <2>8
  <2>10. /\ Trail'[1] = LastRead'
         /\ Trail'[Len(Trail')] = LastSent' \/ Trail'[Len(Trail')][1] = "cut"
    BY <1>b, <1>g, <2>7, <2>8, <2>9 DEF PathInv
  <2>11. ASSUME NEW i \in 1 .. Len(Trail') - 1 PROVE Follows(Trail[i], Trail[i + 1])'
    <3>1. CASE i \in 1 .. Len(Trail) - 1
      BY <1>j, <1>k, <2>9, <3>1
    <3>2. CASE i \notin 1 .. Len(Trail) - 1
      <4>1. i = Len(Trail)
        BY <1>i, <2>9, <3>2
      <4>2. PICK d : d = Trail[Len(Trail)] /\ (d = LastSent \/ d[1] = "cut")
        BY <1>b, <2>8 DEF PathInv
      <4>3. Trail'[i] = d /\ Trail'[i + 1] = c
        BY <2>9, <4>1, <4>2
      <4>4. d[2] \in 0 .. Len(sent)
        BY <1>b, <2>9, <1>i, <4>2, TrailFacts
      <4>5. PICK e : e = c
        OBVIOUS
      <4>a. Follows(d, e)
        <5>1. CASE d = LastSent
          BY <2>7, <4>5, <5>1
        <5>2. CASE d[1] = "cut"
          BY <5>2 DEF Follows
        <5>3. QED
          BY <4>2, <5>1, <5>2
      <4>6. Follows(d, e)'
        BY <1>a, <4>4, <4>a, FollowsStays
      <4>7. Trail'[i + 1] = e
        BY <4>3, <4>5
      <4>8. QED
        BY <4>3, <4>6, <4>7
    <3>3. QED
      BY <3>1, <3>2
  <2>12. QED
    BY <1>h, <2>10, <2>11 DEF PathInv
<1>6. QED
  BY <1>1, <1>3, <1>4, <1>5 DEF Publisher, Sends

-----------------------------------------------------------------------------

\* Doing nothing preserves the invariant.
LEMMA StutterKeeps == ASSUME IInv, UNCHANGED vars PROVE IInv'
<1> USE DEF vars, frameVars, readVars
<1>1. \A k : Frame(k)' = Frame(k)
  BY DEF Frame
<1>2. \A k : LastOf(k)' = LastOf(k)
  BY <1>1 DEF LastOf
<1>3. \A c, d : Follows(c, d)' <=> Follows(c, d)
  BY <1>1, <1>2 DEF Follows
<1>4. LastRead' = LastRead /\ LastSent' = LastSent
  BY <1>1, <1>2 DEF LastRead, LastSent
<1>5. Trail' = Trail
  BY <1>4 DEF Trail
<1>6. TypeOK'
  BY DEF IInv, TypeOK
<1>7. PubInv'
  BY <1>1 DEF IInv, PubInv
<1>8. GotInv' /\ (lost' => late' \/ torn')
  BY DEF IInv, GotInv
<1>9. PathInv'
  BY <1>1, <1>3, <1>4, <1>5 DEF IInv, PathInv, OnPath
<1>10. QED
  BY <1>6, <1>7, <1>8, <1>9 DEF IInv

\* Every step preserves the inductive invariant.
LEMMA NextInv == IInv /\ [Next]_vars => IInv'
<1> SUFFICES ASSUME IInv, [Next]_vars PROVE IInv'
  OBVIOUS
<1>1. CASE Publisher
  <2>1. UNCHANGED <<lost, late, torn>> /\ (lost => late \/ torn)
    BY <1>1, PublisherLeaves DEF IInv
  <2>2. QED
    BY <1>1, <2>1, PubTypes, PubInvByPublisher, GotInvByPublisher, PathByPublisher DEF IInv
<1>2. CASE Subscriber
  BY <1>2, SubTypes, PubInvBySubscriber, GotInvBySubscriber, PathBySubscriber DEF IInv
<1>3. CASE UNCHANGED vars
  BY <1>3, StutterKeeps
<1>4. QED
  BY <1>1, <1>2, <1>3 DEF Next

\* The inductive invariant holds in every state.
LEMMA Invariant == Spec => []IInv
BY InitInv, NextInv, PTL DEF Spec

\* The variables of a connection keep their types, for every number and every
\* length of messages.
THEOREM TypeCorrect == Spec => []TypeOK
<1>1. IInv => TypeOK
  BY DEF IInv
<1>2. QED
  BY <1>1, Invariant, PTL

\* A subscriber that never looks for more than has arrived stays on the frame
\* boundaries until it comes to a chunk that the publisher's send timeout cut,
\* and on them it gets each message whole and in the order of sending, for every
\* number and every length of messages.
THEOREM MessagesWholeInOrder == Spec => []WholeInOrder
<1>1. IInv => WholeInOrder
  BY DEF IInv, GotInv, WholeInOrder
<1>2. QED
  BY <1>1, Invariant, PTL

-----------------------------------------------------------------------------
(* Connection headers.                                                     *)

\* No two types of api.h have one code or one name.
LEMMA CodesDiffer == \A m, n \in ApiMessages : m.code = n.code \/ m.type = n.type => m = n
<1>1. \A m, n \in ApiMessages : m.code = n.code => m = n
  BY SMTT(60) DEF ApiMessages, Known
<1>2. \A m, n \in ApiMessages : m.type = n.type => m = n
  BY SMTT(60) DEF ApiMessages, Known
<1>3. QED
  BY <1>1, <1>2

\* api.h has every type of std_msgs, with the checksum of its header.
LEMMA TablesAgree ==
  /\ \A h \in Catalogue : \E m \in ApiMessages : m.type = h.type /\ m.md5sum = h.md5sum
  /\ "*" \notin StdTypes
<1>1. \A h \in Catalogue :
        (\E m \in ApiMessages : m.type = h.type /\ m.md5sum = h.md5sum) /\ h.type # "*"
  BY SMTT(60)
  DEF ApiMessages, Known, Catalogue, Message, MultiArray, Bool, Byte, ByteMultiArray, Char,
      ColorRGBA, Duration, Empty, Float32, Float32MultiArray, Float64, Float64MultiArray,
      Header, Int16, Int16MultiArray, Int32, Int32MultiArray, Int64, Int64MultiArray, Int8,
      Int8MultiArray, MultiArrayDimension, MultiArrayLayout, String, Time, UInt16,
      UInt16MultiArray, UInt32, UInt32MultiArray, UInt64, UInt64MultiArray, UInt8,
      UInt8MultiArray
<1>2. QED
  BY <1>1 DEF StdTypes

\* md5sum_of, which looks at the hash value of the type only, returns the
\* checksum of the type's header, the default included.
LEMMA Md5sums == \A t \in StdTypes : Md5sumOf(t) = HeaderOf(t).md5sum
<1> SUFFICES ASSUME NEW t \in StdTypes PROVE Md5sumOf(t) = HeaderOf(t).md5sum
  OBVIOUS
<1>1. HeaderOf(t) \in Catalogue /\ HeaderOf(t).type = t
  BY DEF StdTypes, HeaderOf
<1>2. PICK m \in ApiMessages : m.type = t /\ m.md5sum = HeaderOf(t).md5sum
  BY <1>1, TablesAgree
<1>3. Hash(t) = m.code
  BY <1>2, CodesDiffer DEF Hash
<1>4. (CHOOSE n \in ApiMessages : n.code = Hash(t)) = m
  BY <1>3, CodesDiffer
<1>5. QED
  BY <1>2, <1>3, <1>4 DEF Md5sumOf

\* The headers are those the two ends send, and a verdict that an end reached
\* on the whole header of its peer is one that verify_ros_header reaches.
HeaderInv ==
  /\ setup \in Setups
  /\ header = [e \in Ends |-> HeaderFrom(e)]
  /\ verdict \in [Ends -> {"none", "accept", "refuse", "crash"}]
  /\ \A e \in Ends : Stros(e) /\ verdict[e] # "none" /\ e \notin short =>
       verdict[e] \in VerifyRosHeader(e, header[Peer(e)], FALSE)

LEMMA HeaderInit == Init => HeaderInv
<1> SUFFICES ASSUME Init PROVE HeaderInv
  OBVIOUS
<1>1. verdict \in [Ends -> {"none", "accept", "refuse", "crash"}] /\ \A e \in Ends : verdict[e] = "none"
  BY DEF Init
<1>2. QED
  BY <1>1 DEF Init, HeaderInv

\* Only the two steps that read a header change verdicts, and nothing changes
\* the headers.
LEMMA HeaderStep == TypeOK /\ HeaderInv /\ [Next]_vars => HeaderInv'
<1> SUFFICES ASSUME TypeOK, HeaderInv, [Next]_vars PROVE HeaderInv'
  OBVIOUS
<1>1. /\ setup' = setup /\ header' = header
      /\ (\E e \in Ends : Judge(e)) \/ (verdict' = verdict /\ short' = short)
  <2>1. CASE Publisher
    <3>1. CASE PubHeader
      BY <3>1 DEF PubHeader, Ends
    <3>2. CASE TcpSendUnsupported \/ Sends \/ PubLeave
      BY <3>2 DEF TcpSendUnsupported, Sends, SendChunk, SendShort, Send, TakeMessage, PubLeave
    <3>3. QED
      BY <2>1, <3>1, <3>2 DEF Publisher
  <2>2. CASE Subscriber
    <3>1. CASE SubHeader
      BY <3>1 DEF SubHeader, Ends
    <3>2. CASE SubHello \/ SubSize \/ SubDataWhole \/ SubDataPart \/ SubDataEnd \/ SubDataTimeout
      BY <3>2 DEF SubHello, SubSize, SubDataWhole, SubDataPart, SubDataEnd, SubDataTimeout
    <3>3. QED
      BY <2>2, <3>1, <3>2 DEF Subscriber
  <2>3. CASE UNCHANGED vars
    BY <2>3 DEF vars
  <2>4. QED
    BY <2>1, <2>2, <2>3 DEF Next
<1>2. /\ \A e \in Ends : HeaderFrom(e)' = HeaderFrom(e) /\ (Stros(e)' <=> Stros(e))
      /\ \A e \in Ends : VerifyRosHeader(e, header[Peer(e)], FALSE)'
                        = VerifyRosHeader(e, header[Peer(e)], FALSE)
  BY <1>1 DEF HeaderFrom, Stros, VerifyRosHeader, Accepts
<1>3. header' = [e \in Ends |-> HeaderFrom(e)']
  BY <1>1, <1>2 DEF HeaderInv
<1>4. CASE verdict' = verdict /\ short' = short
  BY <1>1, <1>2, <1>3, <1>4 DEF HeaderInv
<1>5. ASSUME NEW d \in Ends, Judge(d) PROVE HeaderInv'
  <2>1. PICK cut \in BOOLEAN :
          /\ short' = IF cut THEN short \cup {d} ELSE short
          /\ \E v \in IF Stros(d) THEN VerifyRosHeader(d, header[Peer(d)], cut)
                                ELSE RosVerify(d, header[Peer(d)]) :
               verdict' = [verdict EXCEPT ![d] = v]
    BY <1>5, Zenon DEF Judge
  <2>2. verdict' \in [Ends -> {"none", "accept", "refuse", "crash"}]
    BY <1>5, JudgeType
  <2>3. ASSUME NEW e \in Ends, Stros(e), verdict'[e] # "none", e \notin short'
        PROVE  verdict'[e] \in VerifyRosHeader(e, header[Peer(e)], FALSE)
    <3>1. CASE e = d
      <4>1. cut = FALSE
        BY <2>1, <2>3, <3>1
      <4>2. QED
        BY <2>1, <2>3, <3>1, <4>1 DEF HeaderInv
    <3>2. CASE e # d
      <4>1. verdict'[e] = verdict[e] /\ e \notin short
        BY <2>1, <2>3, <3>2 DEF HeaderInv
      <4>2. QED
        BY <2>3, <4>1 DEF HeaderInv
    <3>3. QED
      BY <3>1, <3>2
  <2>4. QED
    BY <1>1, <1>2, <1>3, <2>2, <2>3 DEF HeaderInv
<1>6. QED
  BY <1>1, <1>4, <1>5

\* A STRos end with a standard type accepts a header exactly if it is
\* compatible.
LEMMA AcceptsCompatible ==
  ASSUME HeaderInv, NEW e \in Ends, setup.type[e] \in StdTypes
  PROVE  Accepts(e, header[Peer(e)]) <=> Compatible(e)
<1> DEFINE p == Peer(e)
           h == header[p]
<1>1. p \in Ends /\ h = HeaderFrom(p)
  BY DEF Peer, Ends, HeaderInv
<1>2. Md5sumOf(setup.type[e]) = HeaderOf(setup.type[e]).md5sum
  BY Md5sums
<1>3. ASSUME h.type = "*" PROVE h.md5sum = "*"
  <2>1. h.type = setup.type[p]
    BY <1>1 DEF HeaderFrom, GenTcpHeader, RosHeader
  <2>2. p # "pub"
    <3>1. setup.type["pub"] \in Types
      BY DEF HeaderInv, Setups
    <3>2. "*" \notin Types
      BY TablesAgree DEF Types, Other
    <3>3. QED
      BY <1>3, <2>1, <3>1, <3>2
  <2>3. ~Stros(p)
    <3>1. setup.type["sub"] = "*" => setup.node["sub"] = "ros"
      BY DEF HeaderInv, Setups
    <3>2. QED
      BY <1>1, <1>3, <2>1, <2>2, <3>1 DEF Stros, Ends
  <2>4. QED
    BY <1>1, <1>3, <2>1, <2>3 DEF HeaderFrom, RosHeader
<1>4. QED
  BY <1>2, <1>3 DEF Accepts, Compatible

\* verify_ros_header, once it has the whole header of a peer and can read it,
\* accepts it exactly if topic, type and checksum of the std_msgs definition
\* agree: no two standard types share a hash value, the table of api.h has the
\* checksum of each, and the verdict stays.
THEOREM HeadersAreJudged == Spec => []HeadersJudged
<1>1. HeaderInv => HeadersJudged
  <2> SUFFICES ASSUME HeaderInv, NEW e \in Ends, Stros(e), setup.type[e] \in StdTypes,
                      verdict[e] # "none", e \notin short, Readable(header[Peer(e)])
               PROVE  verdict[e] = IF Compatible(e) THEN "accept" ELSE "refuse"
    BY DEF HeadersJudged
  <2>1. verdict[e] \in VerifyRosHeader(e, header[Peer(e)], FALSE)
    BY DEF HeaderInv
  <2>2. verdict[e] = IF Accepts(e, header[Peer(e)]) THEN "accept" ELSE "refuse"
    BY <2>1 DEF VerifyRosHeader
  <2>3. QED
    BY <2>2, AcceptsCompatible
<1>2. Spec => []HeaderInv
  BY HeaderInit, HeaderStep, TypeCorrect, PTL DEF Spec
<1>3. QED
  BY <1>1, <1>2, PTL
=============================================================================
