-------------------------- MODULE RpcHandlersProofs --------------------------
(***************************************************************************)
(* Proofs about RpcValues, continued: the handlers find in the messages of *)
(* ROS nodes what the sender put there, for any number of publishers.      *)
(*                                                                         *)
(* A message has one of three shapes (CallDoc, RequestDoc, ReplyDoc).  For *)
(* each, a table says which lists the parser has after so many tokens      *)
(* (CallAt, RequestAt, ReplyAt); ServeInv is that it has them.             *)
(***************************************************************************)
EXTENDS RpcValuesProofs

-----------------------------------------------------------------------------
(* The messages, token by token.                                           *)

\* The tokens of an array.
LEMMA ValuesTokens ==
  ASSUME NEW v \in Seq(Token)
  PROVE  /\ Values(v) \in Seq(Token) /\ Len(v) \in Nat /\ Len(Values(v)) = Len(v) + 2
         /\ Values(v)[1] = Open
         /\ \A i \in 1 .. Len(v) : Values(v)[i + 1] = v[i]
         /\ Values(v)[Len(v) + 2] = Close
  <1> DEFINE o == <<Open>>
             e == <<Close>>
             n == Len(v)
             p == o \o v
             q == p \o e
  <1>1. o \in Seq(Token) /\ Len(o) = 1 /\ o[1] = Open /\ e \in Seq(Token) /\ Len(e) = 1 /\ e[1] = Close
    BY DEF Token
  <1>2. n \in Nat
    BY LenProperties
  <1>3. Values(v) = q
    BY DEF Values
  <1> HIDE DEF o, e
  <1>4. /\ p \in Seq(Token) /\ Len(p) = Len(o) + n
        /\ \A i \in 1 .. Len(o) + n : p[i] = IF i <= Len(o) THEN o[i] ELSE v[i - Len(o)]
    BY <1>1, ConcatProperties
  <1>5. /\ Len(p) = n + 1 /\ p[1] = Open
        /\ \A i \in 1 .. n : p[i + 1] = v[i]
    <2>1. ASSUME NEW i \in 1 .. n PROVE p[i + 1] = v[i]
      <3>1. i + 1 \in 1 .. Len(o) + n /\ ~(i + 1 <= Len(o)) /\ (i + 1) - Len(o) = i
        BY <1>1, <1>2
      <3> QED
        BY <1>4, <3>1
    <2> QED
      BY <1>1, <1>2, <1>4, <2>1
  <1> HIDE DEF p
  <1>6. /\ q \in Seq(Token) /\ Len(q) = Len(p) + Len(e)
        /\ \A i \in 1 .. Len(p) + Len(e) : q[i] = IF i <= Len(p) THEN p[i] ELSE e[i - Len(p)]
    <2>1. p \in Seq(Token) /\ e \in Seq(Token)
      BY <1>1, <1>4
    <2> QED
      BY <2>1, ConcatProperties
  <1> HIDE DEF q
  <1>7. Len(q) = n + 2 /\ q[1] = Open /\ q[n + 2] = Close
    <2>1. q[1] = p[1]
      BY <1>1, <1>2, <1>5, <1>6
    <2>2. q[n + 2] = e[(n + 2) - Len(p)]
      BY <1>1, <1>2, <1>5, <1>6
    <2>3. (n + 2) - Len(p) = 1
      BY <1>2, <1>5
    <2> QED
      BY <1>1, <1>2, <1>5, <1>6, <2>1, <2>2, <2>3
  <1>8. ASSUME NEW i \in 1 .. n PROVE q[i + 1] = v[i]
    <2>1. i + 1 \in 1 .. Len(p) + Len(e) /\ i + 1 <= Len(p)
      BY <1>1, <1>2, <1>5
    <2> QED
      BY <1>5, <1>6, <2>1
  <1> QED
    BY <1>2, <1>3, <1>6, <1>7, <1>8

\* The tokens of two values and those after them.
LEMMA PairTokens ==
  ASSUME NEW a \in Token, NEW b \in Token, NEW v \in Seq(Token), NEW w, w = <<a, b>> \o v
  PROVE  /\ w \in Seq(Token) /\ Len(w) = Len(v) + 2
         /\ w[1] = a /\ w[2] = b
         /\ \A i \in 1 .. Len(v) : w[i + 2] = v[i]
  <1> DEFINE o == <<a, b>>
             n == Len(v)
  <1>1. o \in Seq(Token) /\ Len(o) = 2 /\ o[1] = a /\ o[2] = b
    OBVIOUS
  <1>2. n \in Nat
    BY LenProperties
  <1>3. w = o \o v
    OBVIOUS
  <1> HIDE DEF o
  <1>4. /\ w \in Seq(Token) /\ Len(w) = Len(o) + n
        /\ \A i \in 1 .. Len(o) + n : w[i] = IF i <= Len(o) THEN o[i] ELSE v[i - Len(o)]
    BY <1>1, <1>3, ConcatProperties
  <1>5. ASSUME NEW i \in 1 .. n PROVE w[i + 2] = v[i]
    <2>1. i + 2 \in 1 .. Len(o) + n /\ ~(i + 2 <= Len(o)) /\ (i + 2) - Len(o) = i
      BY <1>1, <1>2
    <2> QED
      BY <1>4, <2>1
  <1>6. w[1] = a /\ w[2] = b /\ Len(w) = n + 2
    BY <1>1, <1>2, <1>4
  <1> QED
    BY <1>4, <1>5, <1>6

\* The tokens of a call.
LEMMA CallTokens ==
  ASSUME NEW a \in Token, NEW b \in Token, NEW v \in Seq(Token), NEW d, d = Call(a, b, v)
  PROVE  /\ Len(v) \in Nat /\ Len(d) = Len(v) + 4
         /\ d[1] = a /\ d[2] = b /\ d[3] = Open
         /\ \A i \in 1 .. Len(v) : d[i + 3] = v[i]
         /\ d[Len(v) + 4] = Close
  <1> DEFINE w == Values(v)
             n == Len(v)
  <1>1. /\ w \in Seq(Token) /\ n \in Nat /\ Len(w) = n + 2 /\ w[1] = Open
        /\ \A i \in 1 .. n : w[i + 1] = v[i]
        /\ w[n + 2] = Close
    BY ValuesTokens
  <1>2. d = <<a, b>> \o w
    BY DEF Call
  <1> HIDE DEF w
  <1>3. /\ Len(d) = Len(w) + 2 /\ d[1] = a /\ d[2] = b
        /\ \A i \in 1 .. Len(w) : d[i + 2] = w[i]
    BY <1>1, <1>2, PairTokens
  <1>4. d[1 + 2] = Open /\ d[(n + 2) + 2] = Close
    BY <1>1, <1>3
  <1>5. ASSUME NEW i \in 1 .. n PROVE d[i + 3] = v[i]
    <2>1. i + 1 \in 1 .. Len(w) /\ (i + 1) + 2 = i + 3
      BY <1>1
    <2> QED
      BY <1>1, <1>3, <2>1
  <1> QED
    BY <1>1, <1>3, <1>4, <1>5

\* The tokens of a reply.
LEMMA ReplyTokens ==
  ASSUME NEW c \in Token, NEW m \in Token, NEW v \in Seq(Token), NEW d, d = Reply(c, m, v)
  PROVE  /\ Len(v) \in Nat /\ Len(d) = Len(v) + 4
         /\ d[1] = Open /\ d[2] = c /\ d[3] = m
         /\ \A i \in 1 .. Len(v) : d[i + 3] = v[i]
         /\ d[Len(v) + 4] = Close
  <1> DEFINE w == <<c, m>> \o v
             n == Len(v)
  <1>1. w \in Seq(Token) /\ Len(w) = n + 2 /\ w[1] = c /\ w[2] = m /\ \A i \in 1 .. n : w[i + 2] = v[i]
    BY PairTokens
  <1>2. d = Values(w) /\ n \in Nat
    BY LenProperties DEF Reply
  <1> HIDE DEF w
  <1>3. /\ Len(d) = Len(w) + 2 /\ d[1] = Open
        /\ \A i \in 1 .. Len(w) : d[i + 1] = w[i]
        /\ d[Len(w) + 2] = Close
    <2>1. /\ Len(Values(w)) = Len(w) + 2 /\ Values(w)[1] = Open
          /\ \A i \in 1 .. Len(w) : Values(w)[i + 1] = w[i]
          /\ Values(w)[Len(w) + 2] = Close
      BY <1>1, ValuesTokens
    <2> QED
      BY <1>2, <2>1
  <1>4. d[1 + 1] = c /\ d[2 + 1] = m /\ d[(n + 2) + 2] = Close
    <2>1. 1 \in 1 .. Len(w) /\ 2 \in 1 .. Len(w)
      BY <1>1, <1>2
    <2> QED
      BY <1>1, <1>3, <2>1
  <1>5. ASSUME NEW i \in 1 .. n PROVE d[i + 3] = v[i]
    <2>1. i + 2 \in 1 .. Len(w) /\ (i + 2) + 1 = i + 3
      BY <1>1, <1>2
    <2> QED
      BY <1>1, <1>3, <2>1
  <1> QED
    BY <1>1, <1>2, <1>3, <1>4, <1>5

\* The values that are no tags.
Plain == [tag : {"string", "untagged", "int", "i4"},
          text : {"caller", "topic", "uri", "next", "TCPROS", "status", "7", ""}]

\* The types of the values of ROS nodes.
LEMMA PlainFacts ==
  /\ \A s \in {"caller", "topic", "uri", "next", "TCPROS", "status"} : Text(s) \subseteq Plain
  /\ Number \subseteq Plain
  /\ Plain \subseteq Token
  /\ Open \in Token /\ Close \in Token
  /\ \A x \in Plain : x # Open /\ x # Close /\ x.text # "a<b"
  <1> DEFINE T == {"string", "untagged", "int", "i4"}
             X == {"caller", "topic", "uri", "next", "TCPROS", "status", "7", ""}
  <1>6. \A t \in T, x \in X : [tag |-> t, text |-> x] \in Plain
    BY DEF Plain
  <1>1. ASSUME NEW s \in {"caller", "topic", "uri", "next", "TCPROS", "status"}
        PROVE  Text(s) \subseteq Plain
    <2>1. s \in X /\ "" \in X /\ "string" \in T /\ "untagged" \in T
      OBVIOUS
    <2> QED
      BY <1>6, <2>1 DEF Text
  <1>2. Number \subseteq Plain
    <2>1. "7" \in X /\ {"int", "i4"} \subseteq T
      OBVIOUS
    <2> QED
      BY <1>6, <2>1 DEF Number
  <1>3. Plain \subseteq Token
    <2>1. /\ {"string", "untagged", "int", "i4"} \subseteq Simple \cup {"untagged"}
          /\ {"caller", "topic", "uri", "next", "TCPROS", "status", "7", ""} \subseteq Texts
      BY DEF Simple, Texts
    <2> QED
      BY <2>1 DEF Plain, Token
  <1>4. Open \in Token /\ Close \in Token
    BY DEF Token
  <1>5. ASSUME NEW x \in Plain PROVE x # Open /\ x # Close /\ x.text # "a<b"
    <2>1. /\ x.tag \in {"string", "untagged", "int", "i4"}
          /\ x.text \in {"caller", "topic", "uri", "next", "TCPROS", "status", "7", ""}
      BY DEF Plain
    <2>2. Open.tag = "array" /\ Close.tag = "/array"
      BY DEF Open, Close
    <2> QED
      BY <2>1, <2>2
  <1> QED
    BY <1>1, <1>2, <1>3, <1>4, <1>5

\* A call with n values in an array, and one with an array in it; a reply with n
\* values in an inner array.
CallDoc(d, n) ==
  /\ Len(d) = n + 4 /\ d[3] = Open /\ d[n + 4] = Close
  /\ \A i \in (1 .. 2) \cup (4 .. n + 3) : d[i] \in Plain

RequestDoc(d) ==
  /\ Len(d) = 7 /\ d[3] = Open /\ d[4] = Open /\ d[6] = Close /\ d[7] = Close
  /\ d[1] \in Plain /\ d[2] \in Plain /\ d[5] \in Plain

ReplyDoc(d, n) ==
  /\ Len(d) = n + 6 /\ d[1] = Open /\ d[4] = Open /\ d[n + 5] = Close /\ d[n + 6] = Close
  /\ \A i \in (2 .. 3) \cup (5 .. n + 4) : d[i] \in Plain

\* What the four messages are.
IsDoc(k, d, n) ==
  CASE k = "publisherUpdate" -> CallDoc(d, n) /\ d[2] \in Text("topic") /\ (n > 0 => d[4] \in Text("uri"))
    [] k = "requestTopic" -> RequestDoc(d) /\ d[2] \in Text("topic")
    [] k = "registerReply" -> ReplyDoc(d, n) /\ (n > 0 => d[5] \in Text("uri"))
    [] k = "topicReply" -> n = 3 /\ ReplyDoc(d, n) /\ d[6] \in Text("uri") /\ d[7] \in Number

\* Every message of RosDocs has one of these shapes, unless it is the reply that
\* carries no endpoint.
LEMMA RosDocFacts ==
  ASSUME NEW k \in Kinds, NEW d \in RosDocs(k)
  PROVE  /\ \A i \in 1 .. Len(d) : d[i] \in {Open, Close} \cup Plain
         /\ Positive(d) => \E n \in Nat : IsDoc(k, d, n)
  <1>1. /\ Text("caller") \subseteq Plain /\ Text("topic") \subseteq Plain /\ Text("status") \subseteq Plain
        /\ Text("TCPROS") \subseteq Plain /\ Text("uri") \subseteq Plain /\ Text("next") \subseteq Plain
        /\ Number \subseteq Plain /\ Plain \subseteq Token
    BY PlainFacts
  <1>2. ASSUME NEW u \in Uris
        PROVE  /\ u \in Seq(Plain) /\ u \in Seq(Token) /\ Len(u) \in Nat
               /\ \A i \in 1 .. Len(u) : u[i] \in Plain
               /\ Len(u) > 0 => u[1] \in Text("uri")
    <2>1. u \in Seq(Plain)
      BY <1>1, SeqOfFacts, RpcAssumption DEF Uris
    <2>2. Len(u) \in Nat /\ \A i \in 1 .. Len(u) : u[i] \in Plain
      BY <2>1, LenProperties, ElementOfSeq
    <2>3. u \in Seq(Token)
      BY <1>1, <2>1, SeqMonotonic
    <2>4. Len(u) > 0 => u # <<>>
      OBVIOUS
    <2>5. u = <<>> \/ u[1] \in Text("uri")
      BY DEF Uris
    <2> QED
      BY <2>1, <2>2, <2>3, <2>4, <2>5
  <1>3. CASE k = "publisherUpdate"
    <2>1. PICK a \in Text("caller"), b \in Text("topic"), u \in Uris : d = Call(a, b, u)
      BY <1>3 DEF RosDocs
    <2> DEFINE n == Len(u)
    <2>2. /\ n \in Nat /\ Len(d) = n + 4 /\ d[1] = a /\ d[2] = b /\ d[3] = Open /\ d[n + 4] = Close
          /\ \A i \in 1 .. n : d[i + 3] = u[i]
      BY <1>1, <1>2, <2>1, CallTokens
    <2>3. ASSUME NEW i \in 4 .. n + 3 PROVE d[i] \in Plain
      <3>1. i - 3 \in 1 .. n /\ (i - 3) + 3 = i
        BY <2>2
      <3> QED
        BY <1>2, <2>2, <3>1
    <2>4. n > 0 => d[1 + 3] = u[1]
      BY <2>2
    <2>5. CallDoc(d, n) /\ d[2] \in Text("topic") /\ (n > 0 => d[4] \in Text("uri"))
      BY <1>1, <1>2, <2>2, <2>3, <2>4 DEF CallDoc
    <2>6. ASSUME NEW i \in 1 .. Len(d) PROVE d[i] \in {Open, Close} \cup Plain
      <3>1. i \in (1 .. 2) \cup (4 .. n + 3) \/ i = 3 \/ i = n + 4
        BY <2>2
      <3> QED
        BY <2>5, <3>1 DEF CallDoc
    <2> QED
      BY <1>3, <2>2, <2>5, <2>6 DEF IsDoc
  <1>4. CASE k = "requestTopic"
    <2>1. PICK a \in Text("caller"), b \in Text("topic"), p \in Protocols : d = Call(a, b, p)
      BY <1>4 DEF RosDocs
    <2>2. PICK t \in Text("TCPROS") : p = Values(<<t>>)
      BY <2>1 DEF Protocols
    <2>3. <<t>> \in Seq(Token) /\ Len(<<t>>) = 1 /\ <<t>>[1] = t
      BY <1>1
    <2>4. p \in Seq(Token) /\ Len(p) = 3 /\ p[1] = Open /\ p[2] = t /\ p[3] = Close
      <3>1. /\ p \in Seq(Token) /\ Len(p) = 1 + 2 /\ p[1] = Open /\ p[1 + 2] = Close
            /\ \A i \in 1 .. 1 : p[i + 1] = <<t>>[i]
        BY <2>2, <2>3, ValuesTokens
      <3> QED
        BY <2>3, <3>1
    <2>5. /\ Len(d) = 3 + 4 /\ d[1] = a /\ d[2] = b /\ d[3] = Open /\ d[3 + 4] = Close
          /\ \A i \in 1 .. 3 : d[i + 3] = p[i]
      <3>1. a \in Token /\ b \in Token /\ p \in Seq(Token)
        BY <1>1, <2>4
      <3>2. /\ Len(d) = Len(p) + 4 /\ d[1] = a /\ d[2] = b /\ d[3] = Open /\ d[Len(p) + 4] = Close
            /\ \A i \in 1 .. Len(p) : d[i + 3] = p[i]
        BY <2>1, <3>1, CallTokens
      <3> QED
        BY <2>4, <3>2
    <2>6. d[4] = Open /\ d[5] = t /\ d[6] = Close
      <3>1. d[1 + 3] = p[1] /\ d[2 + 3] = p[2] /\ d[3 + 3] = p[3]
        BY <2>5
      <3> QED
        BY <2>4, <3>1
    <2>7. RequestDoc(d) /\ d[2] \in Text("topic")
      BY <1>1, <2>5, <2>6 DEF RequestDoc
    <2>8. ASSUME NEW i \in 1 .. Len(d) PROVE d[i] \in {Open, Close} \cup Plain
      <3>1. i \in 1 .. 7
        BY <2>5
      <3> QED
        BY <2>7, <3>1 DEF RequestDoc
    <2> QED
      BY <1>4, <2>7, <2>8 DEF IsDoc
  <1>5. ASSUME NEW c \in Number, NEW m \in Text("status"), NEW u \in Seq(Plain), d = Reply(c, m, Values(u))
        PROVE  /\ ReplyDoc(d, Len(u)) /\ Len(u) \in Nat
               /\ \A i \in 1 .. Len(u) : d[i + 4] = u[i]
               /\ \A i \in 1 .. Len(d) : d[i] \in {Open, Close} \cup Plain
    <2> DEFINE n == Len(u)
               v == Values(u)
    <2>1. u \in Seq(Token) /\ n \in Nat /\ \A i \in 1 .. n : u[i] \in Plain
      BY <1>1, SeqMonotonic, LenProperties, ElementOfSeq
    <2>2. /\ v \in Seq(Token) /\ Len(v) = n + 2 /\ v[1] = Open /\ v[n + 2] = Close
          /\ \A i \in 1 .. n : v[i + 1] = u[i]
      BY <2>1, ValuesTokens
    <2>3. d = Reply(c, m, v)
      BY <1>5
    <2> HIDE DEF v
    <2>4. /\ Len(d) = Len(v) + 4 /\ d[1] = Open /\ d[2] = c /\ d[3] = m /\ d[Len(v) + 4] = Close
          /\ \A i \in 1 .. Len(v) : d[i + 3] = v[i]
      BY <1>1, <2>2, <2>3, ReplyTokens
    <2>5. d[1 + 3] = Open /\ d[(n + 2) + 3] = Close
      BY <2>1, <2>2, <2>4
    <2>6. ASSUME NEW i \in 1 .. n PROVE d[i + 4] = u[i]
      <3>1. i + 1 \in 1 .. Len(v) /\ (i + 1) + 3 = i + 4
        BY <2>1, <2>2
      <3> QED
        BY <2>2, <2>4, <3>1
    <2>7. ASSUME NEW i \in 5 .. n + 4 PROVE d[i] \in Plain
      <3>1. i - 4 \in 1 .. n /\ (i - 4) + 4 = i
        BY <2>1
      <3> QED
        BY <2>1, <2>6, <3>1
    <2>8. ReplyDoc(d, n)
      <3>1. Len(d) = n + 6 /\ d[n + 6] = Close /\ d[n + 5] = Close /\ d[4] = Open
        BY <2>1, <2>2, <2>4, <2>5
      <3> QED
        BY <1>1, <2>4, <2>7, <3>1 DEF ReplyDoc
    <2>9. ASSUME NEW i \in 1 .. Len(d) PROVE d[i] \in {Open, Close} \cup Plain
      <3>1. i = 1 \/ i = 4 \/ i \in (2 .. 3) \cup (5 .. n + 4) \/ i = n + 5 \/ i = n + 6
        BY <2>1, <2>8 DEF ReplyDoc
      <3> QED
        BY <2>8, <3>1 DEF ReplyDoc
    <2> QED
      BY <2>1, <2>6, <2>8, <2>9
  <1>6. CASE k = "registerReply"
    <2>1. PICK c \in Number, m \in Text("status"), u \in Uris : d = Reply(c, m, Values(u))
      BY <1>6 DEF RosDocs
    <2>2. /\ ReplyDoc(d, Len(u)) /\ Len(u) \in Nat
          /\ \A i \in 1 .. Len(u) : d[i + 4] = u[i]
          /\ \A i \in 1 .. Len(d) : d[i] \in {Open, Close} \cup Plain
      BY <1>2, <1>5, <2>1
    <2>3. Len(u) > 0 => d[1 + 4] \in Text("uri")
      BY <1>2, <2>2
    <2> QED
      BY <1>6, <2>2, <2>3 DEF IsDoc
  <1>7. CASE k = "topicReply"
    <2>1. ASSUME NEW c \in Number, NEW m \in Text("status"), NEW t \in Text("TCPROS"),
                 NEW u \in Text("uri"), NEW p \in Number, d = Reply(c, m, Values(<<t, u, p>>))
          PROVE  IsDoc(k, d, 3) /\ \A i \in 1 .. Len(d) : d[i] \in {Open, Close} \cup Plain
      <3> DEFINE l == <<t, u, p>>
      <3>1. l \in Seq(Plain) /\ Len(l) = 3 /\ l[2] = u /\ l[3] = p
        BY <1>1
      <3>2. d = Reply(c, m, Values(l))
        BY <2>1
      <3> HIDE DEF l
      <3>3. /\ ReplyDoc(d, 3)
            /\ \A i \in 1 .. 3 : d[i + 4] = l[i]
            /\ \A i \in 1 .. Len(d) : d[i] \in {Open, Close} \cup Plain
        BY <1>5, <3>1, <3>2
      <3>4. d[2 + 4] = u /\ d[3 + 4] = p
        BY <3>1, <3>3
      <3> QED
        BY <1>7, <3>3, <3>4 DEF IsDoc
    <2>2. ASSUME NEW c \in Number, NEW m \in Text("status"), NEW p \in Number, d = Reply(c, m, <<p>>)
          PROVE  ~Positive(d) /\ \A i \in 1 .. Len(d) : d[i] \in {Open, Close} \cup Plain
      <3> DEFINE l == <<p>>
      <3>1. l \in Seq(Token) /\ Len(l) = 1 /\ l[1] = p
        BY <1>1
      <3>2. d = Reply(c, m, l)
        BY <2>2
      <3> HIDE DEF l
      <3>3. /\ Len(d) = 1 + 4 /\ d[1] = Open /\ d[2] = c /\ d[3] = m /\ d[1 + 4] = Close
            /\ \A i \in 1 .. 1 : d[i + 3] = l[i]
        <4>1. c \in Token /\ m \in Token /\ l \in Seq(Token)
          BY <1>1, <3>1
        <4>2. /\ Len(d) = Len(l) + 4 /\ d[1] = Open /\ d[2] = c /\ d[3] = m /\ d[Len(l) + 4] = Close
              /\ \A i \in 1 .. Len(l) : d[i + 3] = l[i]
          BY <3>2, <4>1, ReplyTokens
        <4> QED
          BY <3>1, <4>2
      <3>4. d[1 + 3] = p /\ p # Open
        BY <1>1, <3>1, <3>3, PlainFacts
      <3>5. ASSUME NEW i \in 1 .. Len(d) PROVE d[i] \in {Open, Close} \cup Plain
        <4>1. i \in 1 .. 5
          BY <3>3
        <4> QED
          BY <1>1, <3>3, <3>4, <4>1
      <3> QED
        BY <3>3, <3>4, <3>5 DEF Positive
    <2>3. \/ \E c \in Number, m \in Text("status"), t \in Text("TCPROS"), u \in Text("uri"), p \in Number :
               d = Reply(c, m, Values(<<t, u, p>>))
          \/ \E c \in Number, m \in Text("status"), p \in Number : d = Reply(c, m, <<p>>)
      BY <1>7 DEF RosDocs
    <2> QED
      BY <2>1, <2>2, <2>3
  <1> QED
    BY <1>3, <1>4, <1>6, <1>7 DEF Kinds

-----------------------------------------------------------------------------
(* The lists and their stack.                                              *)

\* A whole document whose strings are tagged and not empty.
Clean(d) == \A i \in 1 .. Len(d) : d[i] \in Plain => d[i].tag \in Simple /\ d[i].text # ""

\* A tagged string becomes an item that holds it.
LEMMA TextItem ==
  ASSUME NEW s \in {"caller", "topic", "uri", "next", "TCPROS", "status"}, NEW x \in Text(s),
         x.tag \in Simple, x.text # ""
  PROVE  Item(x) = Scalar("string", s)
  <1>1. x = [tag |-> "string", text |-> s]
    <2>1. \/ x = [tag |-> "string", text |-> s]
          \/ x = [tag |-> "untagged", text |-> s]
          \/ x = [tag |-> "string", text |-> ""]
      BY DEF Text
    <2>2. x # [tag |-> "untagged", text |-> s]
      <3>1. [tag |-> "untagged", text |-> s].tag = "untagged" /\ "untagged" \notin Simple
        BY DEF Simple
      <3> QED
        BY <3>1
    <2>3. x # [tag |-> "string", text |-> ""]
      <3>1. [tag |-> "string", text |-> ""].text = ""
        OBVIOUS
      <3> QED
        BY <3>1
    <2> QED
      BY <2>1, <2>2, <2>3
  <1>2. x.tag = "string" /\ x.text = s
    BY <1>1
  <1> QED
    BY <1>2 DEF Item

\* So does a number.
LEMMA NumberItem ==
  ASSUME NEW x \in Number
  PROVE  Item(x) = Scalar("int", "7")
  <1>1. x.tag \in {"int", "i4"} /\ x.text = "7"
    BY DEF Number
  <1> QED
    BY <1>1 DEF Item

\* Either way the item is not that of list_init.
LEMMA PlainItem ==
  ASSUME NEW x \in Plain, x.tag \in Simple
  PROVE  Item(x) \in Basic /\ Item(x).type # "nil"
  <1>1. x \in Token
    BY PlainFacts
  <1>2. Item(x) \in Basic
    BY <1>1, TokenTypes
  <1> QED
    BY <1>2 DEF Basic, Simple

\* The list of the values from the i-th to the j-th of d.
Leaves(d, i, j) == IF j < i THEN ListInit ELSE [e \in 1 .. j - i + 1 |-> Item(d[e + i - 1])]

\* A list of values is not empty, and list_put appends to it.
LEMMA LeavesFacts ==
  ASSUME NEW d, NEW i \in Nat \ {0}, NEW j \in Nat, j >= i, d[i] \in Plain, d[i].tag \in Simple
  PROVE  /\ ~Empty(Leaves(d, i, j))
         /\ Len(Leaves(d, i, j)) = j - i + 1
         /\ \A e \in 1 .. j - i + 1 : Leaves(d, i, j)[e] = Item(d[e + i - 1])
         /\ \A y : ListPut(Leaves(d, i, j), y) = Append(Leaves(d, i, j), y)
  <1> DEFINE n == j - i + 1
             l == Leaves(d, i, j)
  <1>1. n \in Nat \ {0} /\ ~(j < i)
    OBVIOUS
  <1>2. l = [e \in 1 .. n |-> Item(d[e + i - 1])]
    BY <1>1 DEF Leaves
  <1> HIDE DEF l
  <1>3. Len(l) = n /\ l # <<>>
    BY <1>1, <1>2
  <1>4. \A e \in 1 .. n : l[e] = Item(d[e + i - 1])
    BY <1>2
  <1>5. l[1].type # "nil"
    <2>1. 1 \in 1 .. n /\ 1 + i - 1 = i
      BY <1>1
    <2> QED
      BY <1>4, <2>1, PlainItem
  <1>6. ~Empty(l)
    BY <1>3, <1>5 DEF Empty
  <1>7. \A y : ListPut(l, y) = Append(l, y)
    BY <1>6 DEF ListPut
  <1> QED
    BY <1>3, <1>4, <1>6, <1>7 DEF l

\* One more value.
LEMMA LeavesPut ==
  ASSUME NEW d, NEW i \in Nat \ {0}, NEW j \in Nat, j >= i - 1,
         \A e \in i .. j : d[e] \in Plain /\ d[e].tag \in Simple
  PROVE  ListPut(Leaves(d, i, j), Item(d[j + 1])) = Leaves(d, i, j + 1)
  <1> DEFINE y == Item(d[j + 1])
             n == j - i + 1
             m == Leaves(d, i, j + 1)
  <1>1. n \in Nat /\ n + 1 = (j + 1) - i + 1 /\ ~(j + 1 < i)
    OBVIOUS
  <1>2. m = [e \in 1 .. n + 1 |-> Item(d[e + i - 1])]
    BY <1>1 DEF Leaves
  <1>3. CASE j < i
    <2>1. ListPut(Leaves(d, i, j), y) = <<y>>
      BY <1>3 DEF Leaves, ListPut, Empty, ListInit, Nil
    <2>2. n = 0 /\ j + 1 = i
      BY <1>3
    <2>3. m = [e \in 1 .. 1 |-> Item(d[e + i - 1])]
      BY <1>2, <2>2
    <2>4. \A e \in 1 .. 1 : Item(d[e + i - 1]) = y
      <3>1. \A e \in 1 .. 1 : e + i - 1 = j + 1
        BY <2>2
      <3> QED
        BY <3>1
    <2>5. m = [e \in 1 .. 1 |-> y]
      BY <2>3, <2>4
    <2> HIDE DEF y, m
    <2>6. <<y>> = [e \in 1 .. 1 |-> y]
      OBVIOUS
    <2> QED
      BY <2>1, <2>5, <2>6 DEF y, m
  <1>4. CASE j >= i
    <2> DEFINE l == Leaves(d, i, j)
    <2>1. d[i] \in Plain /\ d[i].tag \in Simple
      BY <1>4
    <2>2. ListPut(l, y) = Append(l, y)
      <3>1. \A z : ListPut(l, z) = Append(l, z)
        BY <1>4, <2>1, LeavesFacts
      <3> QED
        BY <3>1
    <2>3. l = [e \in 1 .. n |-> Item(d[e + i - 1])]
      BY <1>4 DEF Leaves
    <2>4. y = Item(d[(n + 1) + i - 1])
      OBVIOUS
    <2> DEFINE f(e) == Item(d[e + i - 1])
    <2> HIDE DEF y, l, m, n, f
    <2>5. l = [e \in 1 .. n |-> f(e)] /\ m = [e \in 1 .. n + 1 |-> f(e)] /\ y = f(n + 1)
      BY <1>2, <2>3, <2>4 DEF f
    <2>6. Append(l, y) = m
      BY <1>1, <2>5
    <2> QED
      BY <2>2, <2>6 DEF l, y, m
  <1> QED
    BY <1>3, <1>4

\* What parse_rpc_value makes of the lists u at the token x.
StepOf(u, x) ==
  IF x = Open THEN Append(u, ListInit)
  ELSE IF x = Close THEN PutInto(Front(u), Array(Last(u)))
  ELSE PutInto(u, Item(x))

\* Append for short tuples.
LEMMA AppendPair ==
  /\ \A l, m : Append(<<l>>, m) = <<l, m>>
  /\ \A l, m, k : Append(<<l, m>>, k) = <<l, m, k>>
  <1> SUFFICES ASSUME NEW l, NEW m, NEW k
               PROVE  Append(<<l>>, m) = <<l, m>> /\ Append(<<l, m>>, k) = <<l, m, k>>
    OBVIOUS
  <1> DEFINE S == {l, m, k}
             u == <<l>>
             v == <<l, m>>
             w == <<l, m, k>>
  <1>1. l \in S /\ m \in S /\ k \in S
    OBVIOUS
  <1> HIDE DEF S
  <1>2. /\ u \in Seq(S) /\ Len(u) = 1 /\ u[1] = l
        /\ v \in Seq(S) /\ Len(v) = 2 /\ v[1] = l /\ v[2] = m
        /\ w \in Seq(S) /\ Len(w) = 3 /\ w[1] = l /\ w[2] = m /\ w[3] = k
    BY <1>1
  <1> HIDE DEF u, v, w
  <1>3. /\ Append(u, m) \in Seq(S) /\ Len(Append(u, m)) = Len(v)
        /\ \A i \in 1 .. Len(Append(u, m)) : Append(u, m)[i] = v[i]
    <2>1. u \in Seq(S) /\ m \in S
      BY <1>1, <1>2
    <2>2. /\ Append(u, m) \in Seq(S) /\ Len(Append(u, m)) = Len(u) + 1
          /\ \A i \in 1 .. Len(u) : Append(u, m)[i] = u[i]
          /\ Append(u, m)[Len(u) + 1] = m
      BY <2>1, AppendProperties
    <2> QED
      BY <1>2, <2>2
  <1>4. /\ Append(v, k) \in Seq(S) /\ Len(Append(v, k)) = Len(w)
        /\ \A i \in 1 .. Len(Append(v, k)) : Append(v, k)[i] = w[i]
    <2>1. v \in Seq(S) /\ k \in S
      BY <1>1, <1>2
    <2>2. /\ Append(v, k) \in Seq(S) /\ Len(Append(v, k)) = Len(v) + 1
          /\ \A i \in 1 .. Len(v) : Append(v, k)[i] = v[i]
          /\ Append(v, k)[Len(v) + 1] = k
      BY <2>1, AppendProperties
    <2> QED
      BY <1>2, <2>2
  <1>5. Append(u, m) = v /\ Append(v, k) = w
    BY <1>2, <1>3, <1>4, SeqEqual
  <1> QED
    BY <1>5 DEF u, v, w

\* An array begins.
LEMMA OpenStep ==
  /\ \A l : StepOf(<<l>>, Open) = <<l, ListInit>>
  /\ \A l, m : StepOf(<<l, m>>, Open) = <<l, m, ListInit>>
  <1>1. \A u : StepOf(u, Open) = Append(u, ListInit)
    BY DEF StepOf
  <1>2. /\ \A l : Append(<<l>>, ListInit) = <<l, ListInit>>
        /\ \A l, m : Append(<<l, m>>, ListInit) = <<l, m, ListInit>>
    BY AppendPair
  <1> QED
    BY <1>1, <1>2

\* A value becomes an item of the last list.
LEMMA ItemStep ==
  ASSUME NEW x, x # Open, x # Close
  PROVE  /\ \A l : StepOf(<<l>>, x) = <<ListPut(l, Item(x))>>
         /\ \A l, m : StepOf(<<l, m>>, x) = <<l, ListPut(m, Item(x))>>
         /\ \A l, m, k : StepOf(<<l, m, k>>, x) = <<l, m, ListPut(k, Item(x))>>
  <1> SUFFICES ASSUME NEW l, NEW m, NEW k
               PROVE  /\ StepOf(<<l>>, x) = <<ListPut(l, Item(x))>>
                      /\ StepOf(<<l, m>>, x) = <<l, ListPut(m, Item(x))>>
                      /\ StepOf(<<l, m, k>>, x) = <<l, m, ListPut(k, Item(x))>>
    OBVIOUS
  <1>1. \A u : StepOf(u, x) = [u EXCEPT ![Len(u)] = ListPut(u[Len(u)], Item(x))]
    BY DEF StepOf, PutInto
  <1> DEFINE a == ListPut(l, Item(x))
             b == ListPut(m, Item(x))
             c == ListPut(k, Item(x))
  <1>2. /\ StepOf(<<l>>, x) = [<<l>> EXCEPT ![1] = a]
        /\ StepOf(<<l, m>>, x) = [<<l, m>> EXCEPT ![2] = b]
        /\ StepOf(<<l, m, k>>, x) = [<<l, m, k>> EXCEPT ![3] = c]
    BY <1>1
  <1> HIDE DEF a, b, c
  <1>3. /\ [<<l>> EXCEPT ![1] = a] = <<a>>
        /\ [<<l, m>> EXCEPT ![2] = b] = <<l, b>>
        /\ [<<l, m, k>> EXCEPT ![3] = c] = <<l, m, c>>
    OBVIOUS
  <1> QED
    BY <1>2, <1>3 DEF a, b, c

\* The last list and those before it.
LEMMA LastOf ==
  ASSUME NEW S, NEW u \in Seq(S), NEW x \in S
  PROVE  Front(Append(u, x)) = u /\ Last(Append(u, x)) = x
  <1> DEFINE v == Append(u, x)
             n == Len(u)
  <1>1. v \in Seq(S) /\ Len(v) = n + 1 /\ n \in Nat /\ v[n + 1] = x /\ \A i \in 1 .. n : v[i] = u[i] /\ v[i] \in S
    BY AppendProperties, LenProperties, ElementOfSeq
  <1> HIDE DEF v
  <1>2. Last(v) = x
    BY <1>1 DEF Last
  <1>3. Front(v) = SubSeq(v, 1, n)
    BY <1>1 DEF Front
  <1> DEFINE w == SubSeq(v, 1, n)
  <1>4. w \in Seq(S) /\ Len(w) = n /\ \A i \in 1 .. n : w[i] = v[i]
    <2>1. n \in Int /\ 1 \in Int
      BY <1>1
    <2>2. w \in Seq(S) /\ Len(w) = (IF 1 <= n THEN n - 1 + 1 ELSE 0) /\ \A i \in 1 .. n - 1 + 1 : w[i] = v[1 + i - 1]
      BY <1>1, <2>1, SubSeqProperties
    <2> HIDE DEF w
    <2>3. n - 1 + 1 = n /\ \A i \in 1 .. n : 1 + i - 1 = i
      BY <1>1
    <2> QED
      BY <1>1, <2>2, <2>3
  <1> HIDE DEF w
  <1>5. w = u
    BY <1>1, <1>4, SeqEqual
  <1> QED
    BY <1>2, <1>3, <1>5 DEF v, w

\* An array ends and becomes an item of the list around it.
LEMMA CloseStep ==
  /\ \A l, m : StepOf(<<l, m>>, Close) = <<ListPut(l, Array(m))>>
  /\ \A l, m, k : StepOf(<<l, m, k>>, Close) = <<l, ListPut(m, Array(k))>>
  <1> SUFFICES ASSUME NEW l, NEW m, NEW k
               PROVE  /\ StepOf(<<l, m>>, Close) = <<ListPut(l, Array(m))>>
                      /\ StepOf(<<l, m, k>>, Close) = <<l, ListPut(m, Array(k))>>
    OBVIOUS
  <1> DEFINE S == {l, m, k}
  <1>1. /\ <<l>> \in Seq(S) /\ <<l, m>> \in Seq(S) /\ m \in S /\ k \in S
        /\ Append(<<l>>, m) = <<l, m>> /\ Append(<<l, m>>, k) = <<l, m, k>>
    <2>1. l \in S /\ m \in S /\ k \in S
      OBVIOUS
    <2> HIDE DEF S
    <2>2. <<l>> \in Seq(S)
      BY <2>1
    <2>3. <<l, m>> \in Seq(S)
      BY <2>1
    <2>4. Append(<<l>>, m) = <<l, m>>
      BY AppendPair
    <2>5. Append(<<l, m>>, k) = <<l, m, k>>
      BY AppendPair
    <2> QED
      BY <2>1, <2>2, <2>3, <2>4, <2>5
  <1> HIDE DEF S
  <1>2. Front(<<l, m>>) = <<l>> /\ Last(<<l, m>>) = m
    BY <1>1, LastOf
  <1>3. Front(<<l, m, k>>) = <<l, m>> /\ Last(<<l, m, k>>) = k
    BY <1>1, LastOf
  <1>4. \A u : StepOf(u, Close) = PutInto(Front(u), Array(Last(u)))
    BY DEF StepOf, Open, Close
  <1>5. /\ StepOf(<<l, m>>, Close) = PutInto(<<l>>, Array(m))
        /\ StepOf(<<l, m, k>>, Close) = PutInto(<<l, m>>, Array(k))
    BY <1>2, <1>3, <1>4
  <1> DEFINE a == ListPut(l, Array(m))
             b == ListPut(m, Array(k))
  <1>6. /\ PutInto(<<l>>, Array(m)) = [<<l>> EXCEPT ![1] = a]
        /\ PutInto(<<l, m>>, Array(k)) = [<<l, m>> EXCEPT ![2] = b]
    BY DEF PutInto
  <1> HIDE DEF a, b
  <1>7. [<<l>> EXCEPT ![1] = a] = <<a>> /\ [<<l, m>> EXCEPT ![2] = b] = <<l, b>>
    OBVIOUS
  <1> QED
    BY <1>5, <1>6, <1>7 DEF a, b

-----------------------------------------------------------------------------
(* How far the messages are parsed.                                        *)

\* The lists that parse_rpc_value has made after r tokens of d, and for
\* requestTopic the number c of values outside of arrays.
CallAt(d, n, l, r) ==
  \/ r \in 0 .. 2 /\ l = <<Leaves(d, 1, r)>>
  \/ r \in 3 .. n + 3 /\ l = <<Leaves(d, 1, 2), Leaves(d, 4, r)>>
  \/ r = n + 4 /\ l = <<ListPut(Leaves(d, 1, 2), Array(Leaves(d, 4, n + 3)))>>

RequestAt(d, l, r, c) ==
  \/ r \in 0 .. 2 /\ c = r /\ l = <<Leaves(d, 1, r)>>
  \/ r \in {3, 6} /\ c = 3 /\ \E m : l = <<Leaves(d, 1, 2), m>>
  \/ r \in {4, 5} /\ c = 3 /\ \E m, k : l = <<Leaves(d, 1, 2), m, k>>
  \/ r = 7 /\ c = 3 /\ \E y : l = <<ListPut(Leaves(d, 1, 2), y)>>

Info(d, n) == ListPut(Leaves(d, 2, 3), Array(Leaves(d, 5, n + 4)))

ReplyAt(d, n, l, r) ==
  \/ r = 0 /\ l = <<ListInit>>
  \/ r \in 1 .. 3 /\ l = <<ListInit, Leaves(d, 2, r)>>
  \/ r \in 4 .. n + 4 /\ l = <<ListInit, Leaves(d, 2, 3), Leaves(d, 5, r)>>
  \/ r = n + 5 /\ l = <<ListInit, Info(d, n)>>
  \/ r = n + 6 /\ l = <<<<Array(Info(d, n))>>>>

\* No value yet.
LEMMA EmptyLeaves ==
  ASSUME NEW d
  PROVE  /\ Leaves(d, 1, 0) = ListInit /\ Leaves(d, 2, 1) = ListInit
         /\ Leaves(d, 4, 3) = ListInit /\ Leaves(d, 5, 4) = ListInit
  BY DEF Leaves

\* Each token of a call leads from one row to the next.
LEMMA CallStep ==
  ASSUME NEW d, NEW n \in Nat, CallDoc(d, n), Clean(d),
         NEW l, NEW r \in Nat, r < Len(d), CallAt(d, n, l, r)
  PROVE  CallAt(d, n, StepOf(l, d[r + 1]), r + 1)
  <1> DEFINE x == d[r + 1]
  <1>1. /\ Len(d) = n + 4 /\ d[3] = Open /\ d[n + 4] = Close
        /\ \A i \in (1 .. 2) \cup (4 .. n + 3) : d[i] \in Plain /\ d[i].tag \in Simple
    <2>1. (1 .. 2) \cup (4 .. n + 3) \subseteq 1 .. n + 4
      OBVIOUS
    <2> QED
      BY <2>1 DEF CallDoc, Clean
  <1>2. CASE r \in 0 .. 1
    <2>1. l = <<Leaves(d, 1, r)>>
      BY <1>2 DEF CallAt
    <2>2. x \in Plain /\ x # Open /\ x # Close
      <3>1. r + 1 \in 1 .. 2
        BY <1>2
      <3> QED
        BY <1>1, <3>1, PlainFacts
    <2>3. ListPut(Leaves(d, 1, r), Item(x)) = Leaves(d, 1, r + 1)
      <3>1. r >= 1 - 1 /\ \A e \in 1 .. r : e \in 1 .. 2
        BY <1>2
      <3>2. \A e \in 1 .. r : d[e] \in Plain /\ d[e].tag \in Simple
        BY <1>1, <3>1
      <3>3. 1 \in Nat \ {0}
        OBVIOUS
      <3> QED
        BY <3>1, <3>2, <3>3, LeavesPut
    <2>4. StepOf(l, x) = <<Leaves(d, 1, r + 1)>>
      BY <2>1, <2>2, <2>3, ItemStep
    <2>5. r + 1 \in 0 .. 2
      BY <1>2
    <2> QED
      BY <2>4, <2>5 DEF CallAt
  <1>3. CASE r = 2
    <2>1. l = <<Leaves(d, 1, 2)>> /\ x = Open
      BY <1>1, <1>3 DEF CallAt
    <2>2. StepOf(l, x) = <<Leaves(d, 1, 2), Leaves(d, 4, 3)>>
      BY <2>1, OpenStep, EmptyLeaves
    <2>3. r + 1 = 3 /\ 3 \in 3 .. n + 3
      BY <1>3
    <2> QED
      BY <2>2, <2>3 DEF CallAt
  <1>4. CASE r \in 3 .. n + 2
    <2>1. l = <<Leaves(d, 1, 2), Leaves(d, 4, r)>>
      BY <1>4 DEF CallAt
    <2>2. x \in Plain /\ x # Open /\ x # Close
      <3>1. r + 1 \in 4 .. n + 3
        BY <1>4
      <3> QED
        BY <1>1, <3>1, PlainFacts
    <2>3. ListPut(Leaves(d, 4, r), Item(x)) = Leaves(d, 4, r + 1)
      <3>1. r >= 4 - 1 /\ \A e \in 4 .. r : e \in 4 .. n + 3
        BY <1>4
      <3>2. \A e \in 4 .. r : d[e] \in Plain /\ d[e].tag \in Simple
        BY <1>1, <3>1
      <3>3. 4 \in Nat \ {0}
        OBVIOUS
      <3> QED
        BY <3>1, <3>2, <3>3, LeavesPut
    <2>4. StepOf(l, x) = <<Leaves(d, 1, 2), Leaves(d, 4, r + 1)>>
      BY <2>1, <2>2, <2>3, ItemStep
    <2>5. r + 1 \in 3 .. n + 3
      BY <1>4
    <2> QED
      BY <2>4, <2>5 DEF CallAt
  <1>5. CASE r = n + 3
    <2>1. l = <<Leaves(d, 1, 2), Leaves(d, 4, n + 3)>> /\ x = Close
      <3>1. r + 1 = n + 4 /\ r \notin 0 .. 2 /\ r # n + 4
        BY <1>5
      <3> QED
        BY <1>1, <1>5, <3>1 DEF CallAt
    <2>2. StepOf(l, x) = <<ListPut(Leaves(d, 1, 2), Array(Leaves(d, 4, n + 3)))>>
      BY <2>1, CloseStep
    <2>3. r + 1 = n + 4
      BY <1>5
    <2> QED
      BY <2>2, <2>3 DEF CallAt
  <1> QED
    BY <1>1, <1>2, <1>3, <1>4, <1>5

\* ParseValue counts the values outside of arrays.
Count(u, x, c) == IF Len(u) = 1 /\ x # Close THEN c + 1 ELSE c

\* The same for requestTopic.
LEMMA RequestStep ==
  ASSUME NEW d, RequestDoc(d), Clean(d),
         NEW l, NEW r \in Nat, r < Len(d), NEW c, RequestAt(d, l, r, c)
  PROVE  RequestAt(d, StepOf(l, d[r + 1]), r + 1, Count(l, d[r + 1], c))
  <1> DEFINE x == d[r + 1]
             a == Leaves(d, 1, 2)
  <1>1. /\ d[3] = Open /\ d[4] = Open /\ d[6] = Close /\ d[7] = Close /\ Open # Close
        /\ \A i \in {1, 2, 5} : d[i] \in Plain /\ d[i] # Open /\ d[i] # Close /\ d[i].tag \in Simple
    <2>1. {1, 2, 5} \subseteq 1 .. Len(d) /\ \A i \in {1, 2, 5} : d[i] \in Plain
      BY DEF RequestDoc
    <2>2. \A i \in {1, 2, 5} : d[i].tag \in Simple /\ d[i] # Open /\ d[i] # Close
      BY <2>1, PlainFacts DEF Clean
    <2>3. Open # Close
      <3>1. Open.tag = "array" /\ Close.tag = "/array"
        BY DEF Open, Close
      <3> QED
        BY <3>1
    <2> QED
      BY <2>1, <2>2, <2>3 DEF RequestDoc
  <1>2. CASE r \in {0, 1}
    <2>1. l = <<Leaves(d, 1, r)>> /\ c = r
      BY <1>2 DEF RequestAt
    <2>2. x \in Plain /\ x # Open /\ x # Close
      BY <1>1, <1>2
    <2>3. ListPut(Leaves(d, 1, r), Item(x)) = Leaves(d, 1, r + 1)
      <3>1. r >= 1 - 1 /\ \A e \in 1 .. r : e = 1
        BY <1>2
      <3>2. \A e \in 1 .. r : d[e] \in Plain /\ d[e].tag \in Simple
        BY <1>1, <3>1
      <3>3. 1 \in Nat \ {0}
        OBVIOUS
      <3> QED
        BY <3>1, <3>2, <3>3, LeavesPut
    <2>4. StepOf(l, x) = <<Leaves(d, 1, r + 1)>>
      BY <2>1, <2>2, <2>3, ItemStep
    <2>5. Count(l, x, c) = r + 1
      BY <2>1, <2>2 DEF Count
    <2>6. r + 1 \in 0 .. 2
      BY <1>2
    <2> QED
      BY <2>4, <2>5, <2>6 DEF RequestAt
  <1>3. CASE r = 2
    <2>1. l = <<a>> /\ x = Open /\ c = 2
      BY <1>1, <1>3 DEF RequestAt
    <2>2. StepOf(l, x) = <<a, ListInit>>
      BY <2>1, OpenStep
    <2>3. Count(l, x, c) = 3
      BY <1>1, <2>1 DEF Count
    <2>4. r + 1 = 3
      BY <1>3
    <2> QED
      BY <2>2, <2>3, <2>4 DEF RequestAt
  <1>4. CASE r \in {3, 6}
    <2>1. PICK m : l = <<a, m>>
      BY <1>4 DEF RequestAt
    <2>2. c = 3
      BY <1>4 DEF RequestAt
    <2>3. Count(l, x, c) = 3
      <3>1. Len(l) # 1
        BY <2>1
      <3> QED
        BY <2>2, <3>1 DEF Count
    <2>4. CASE r = 3
      <3>1. StepOf(l, x) = <<a, m, ListInit>> /\ r + 1 = 4
        BY <1>1, <2>1, <2>4, OpenStep
      <3> QED
        BY <2>3, <3>1 DEF RequestAt
    <2>5. CASE r = 6
      <3>1. StepOf(l, x) = <<ListPut(a, Array(m))>> /\ r + 1 = 7
        BY <1>1, <2>1, <2>5, CloseStep
      <3> QED
        BY <2>3, <3>1 DEF RequestAt
    <2> QED
      BY <1>4, <2>4, <2>5
  <1>5. CASE r \in {4, 5}
    <2>1. PICK m, k : l = <<a, m, k>>
      BY <1>5 DEF RequestAt
    <2>2. c = 3
      BY <1>5 DEF RequestAt
    <2>3. Count(l, x, c) = 3
      <3>1. Len(l) # 1
        BY <2>1
      <3> QED
        BY <2>2, <3>1 DEF Count
    <2>4. CASE r = 4
      <3>1. StepOf(l, x) = <<a, m, ListPut(k, Item(x))>> /\ r + 1 = 5
        BY <1>1, <2>1, <2>4, ItemStep
      <3> QED
        BY <2>3, <3>1 DEF RequestAt
    <2>5. CASE r = 5
      <3>1. StepOf(l, x) = <<a, ListPut(m, Array(k))>> /\ r + 1 = 6
        BY <1>1, <2>1, <2>5, CloseStep
      <3> QED
        BY <2>3, <3>1 DEF RequestAt
    <2> QED
      BY <1>5, <2>4, <2>5
  <1>6. Len(d) = 7
    BY DEF RequestDoc
  <1> QED
    BY <1>2, <1>3, <1>4, <1>5, <1>6

\* The same for a reply.
LEMMA ReplyStep ==
  ASSUME NEW d, NEW n \in Nat, ReplyDoc(d, n), Clean(d),
         NEW l, NEW r \in Nat, r < Len(d), ReplyAt(d, n, l, r)
  PROVE  ReplyAt(d, n, StepOf(l, d[r + 1]), r + 1)
  <1> DEFINE x == d[r + 1]
             a == Leaves(d, 2, 3)
  <1>1. /\ Len(d) = n + 6 /\ d[1] = Open /\ d[4] = Open /\ d[n + 5] = Close /\ d[n + 6] = Close
        /\ \A i \in (2 .. 3) \cup (5 .. n + 4) : d[i] \in Plain /\ d[i].tag \in Simple
    <2>1. (2 .. 3) \cup (5 .. n + 4) \subseteq 1 .. n + 6
      OBVIOUS
    <2> QED
      BY <2>1 DEF ReplyDoc, Clean
  <1>2. CASE r = 0
    <2>1. l = <<ListInit>> /\ x = Open
      BY <1>1, <1>2 DEF ReplyAt
    <2>2. StepOf(l, x) = <<ListInit, Leaves(d, 2, 1)>>
      BY <2>1, OpenStep, EmptyLeaves
    <2>3. r + 1 = 1 /\ 1 \in 1 .. 3
      BY <1>2
    <2> QED
      BY <2>2, <2>3 DEF ReplyAt
  <1>3. CASE r \in 1 .. 2
    <2>1. l = <<ListInit, Leaves(d, 2, r)>>
      BY <1>3 DEF ReplyAt
    <2>2. x \in Plain /\ x # Open /\ x # Close
      <3>1. r + 1 \in 2 .. 3
        BY <1>3
      <3> QED
        BY <1>1, <3>1, PlainFacts
    <2>3. ListPut(Leaves(d, 2, r), Item(x)) = Leaves(d, 2, r + 1)
      <3>1. r >= 2 - 1 /\ \A e \in 2 .. r : e \in 2 .. 3
        BY <1>3
      <3>2. \A e \in 2 .. r : d[e] \in Plain /\ d[e].tag \in Simple
        BY <1>1, <3>1
      <3>3. 2 \in Nat \ {0}
        OBVIOUS
      <3> QED
        BY <3>1, <3>2, <3>3, LeavesPut
    <2>4. StepOf(l, x) = <<ListInit, Leaves(d, 2, r + 1)>>
      BY <2>1, <2>2, <2>3, ItemStep
    <2>5. r + 1 \in 1 .. 3
      BY <1>3
    <2> QED
      BY <2>4, <2>5 DEF ReplyAt
  <1>4. CASE r = 3
    <2>1. l = <<ListInit, a>> /\ x = Open
      BY <1>1, <1>4 DEF ReplyAt
    <2>2. StepOf(l, x) = <<ListInit, a, Leaves(d, 5, 4)>>
      BY <2>1, OpenStep, EmptyLeaves
    <2>3. r + 1 = 4 /\ 4 \in 4 .. n + 4
      BY <1>4
    <2> QED
      BY <2>2, <2>3 DEF ReplyAt
  <1>5. CASE r \in 4 .. n + 3
    <2>1. l = <<ListInit, a, Leaves(d, 5, r)>>
      BY <1>5 DEF ReplyAt
    <2>2. x \in Plain /\ x # Open /\ x # Close
      <3>1. r + 1 \in 5 .. n + 4
        BY <1>5
      <3> QED
        BY <1>1, <3>1, PlainFacts
    <2>3. ListPut(Leaves(d, 5, r), Item(x)) = Leaves(d, 5, r + 1)
      <3>1. r >= 5 - 1 /\ \A e \in 5 .. r : e \in 5 .. n + 4
        BY <1>5
      <3>2. \A e \in 5 .. r : d[e] \in Plain /\ d[e].tag \in Simple
        BY <1>1, <3>1
      <3>3. 5 \in Nat \ {0}
        OBVIOUS
      <3> QED
        BY <3>1, <3>2, <3>3, LeavesPut
    <2>4. StepOf(l, x) = <<ListInit, a, Leaves(d, 5, r + 1)>>
      BY <2>1, <2>2, <2>3, ItemStep
    <2>5. r + 1 \in 4 .. n + 4
      BY <1>5
    <2> QED
      BY <2>4, <2>5 DEF ReplyAt
  <1>6. CASE r = n + 4
    <2>1. l = <<ListInit, a, Leaves(d, 5, n + 4)>> /\ x = Close
      <3>1. r + 1 = n + 5 /\ r # 0 /\ r \notin 1 .. 3 /\ r # n + 5 /\ r # n + 6
        BY <1>6
      <3> QED
        BY <1>1, <1>6, <3>1 DEF ReplyAt
    <2>2. StepOf(l, x) = <<ListInit, Info(d, n)>>
      BY <2>1, CloseStep DEF Info
    <2>3. r + 1 = n + 5
      BY <1>6
    <2> QED
      BY <2>2, <2>3 DEF ReplyAt
  <1>7. CASE r = n + 5
    <2>1. l = <<ListInit, Info(d, n)>> /\ x = Close
      <3>1. r + 1 = n + 6 /\ r # 0 /\ r \notin 1 .. 3 /\ r \notin 4 .. n + 4 /\ r # n + 6
        BY <1>7
      <3> QED
        BY <1>1, <1>7, <3>1 DEF ReplyAt
    <2>2. StepOf(l, x) = <<ListPut(ListInit, Array(Info(d, n)))>>
      BY <2>1, CloseStep
    <2>3. \A y : ListPut(ListInit, y) = <<y>>
      BY DEF ListPut, Empty, ListInit, Nil
    <2>4. r + 1 = n + 6
      BY <1>7
    <2> QED
      BY <2>2, <2>3, <2>4 DEF ReplyAt
  <1> QED
    BY <1>1, <1>2, <1>3, <1>4, <1>5, <1>6, <1>7

-----------------------------------------------------------------------------
(* What the handlers take out of the lists.                                *)

\* The values from the i-th to the j-th and an item after them.
LEMMA LeavesAdd ==
  ASSUME NEW d, NEW i \in Nat \ {0}, d[i] \in Plain, d[i].tag \in Simple, NEW y,
         NEW j, j = i + 1, NEW p, p = ListPut(Leaves(d, i, j), y)
  PROVE  ListSize(p) = 3 /\ p[1] = Item(d[i]) /\ p[2] = Item(d[j]) /\ p[3] = y
  <1> DEFINE l == Leaves(d, i, i + 1)
             a == Item(d[i])
             b == Item(d[i + 1])
  <1>1. i + 1 \in Nat /\ i + 1 >= i /\ (i + 1) - i + 1 = 2
    OBVIOUS
  <1>2. /\ Len(l) = 2 /\ \A z : ListPut(l, z) = Append(l, z)
        /\ \A e \in 1 .. 2 : l[e] = Item(d[e + i - 1])
    <2>1. /\ Len(l) = (i + 1) - i + 1 /\ \A z : ListPut(l, z) = Append(l, z)
          /\ \A e \in 1 .. (i + 1) - i + 1 : l[e] = Item(d[e + i - 1])
      BY <1>1, LeavesFacts
    <2> HIDE DEF l
    <2> QED
      BY <1>1, <2>1
  <1>3. l = [e \in 1 .. 2 |-> Item(d[e + i - 1])]
    <2>1. l = [e \in 1 .. (i + 1) - i + 1 |-> Item(d[e + i - 1])]
      BY <1>1 DEF Leaves
    <2> HIDE DEF l
    <2> QED
      BY <1>1, <2>1
  <1>4. l[1] = a /\ l[2] = b
    <2>1. 1 + i - 1 = i /\ 2 + i - 1 = i + 1
      OBVIOUS
    <2> HIDE DEF l
    <2> QED
      BY <1>2, <2>1
  <1> DEFINE S == {a, b, y}
  <1>5. a \in S /\ b \in S /\ y \in S
    OBVIOUS
  <1>6. l \in Seq(S)
    <2> HIDE DEF S, a, b
    <2>1. \A e \in 1 .. 2 : l[e] \in S
      BY <1>4, <1>5
    <2> DEFINE f(e) == Item(d[e + i - 1])
    <2>2. l = [e \in 1 .. 2 |-> f(e)] /\ \A e \in 1 .. 2 : l[e] = f(e)
      BY <1>2, <1>3
    <2> HIDE DEF f, l
    <2>3. l = [e \in 1 .. 2 |-> f(e)] /\ \A e \in 1 .. 2 : f(e) \in S
      BY <2>1, <2>2
    <2> QED
      BY <2>3
  <1>7. p = Append(l, y)
    BY <1>2
  <1> HIDE DEF S, l
  <1>8. Len(p) = Len(l) + 1 /\ (\A e \in 1 .. Len(l) : p[e] = l[e]) /\ p[Len(l) + 1] = y /\ p # <<>>
    BY <1>5, <1>6, <1>7, AppendProperties
  <1>9. Len(p) = 3 /\ p[1] = a /\ p[2] = b /\ p[3] = y
    BY <1>2, <1>4, <1>8
  <1>10. p[1].type # "nil"
    BY <1>9, PlainItem
  <1>11. ListSize(p) = 3
    BY <1>8, <1>9, <1>10 DEF ListSize, Empty
  <1> QED
    BY <1>9, <1>11

\* list_at within the list.
LEMMA AtPlace ==
  ASSUME NEW l, NEW i \in Nat, ListSize(l) \in Nat, i < ListSize(l)
  PROVE  ListAt(l, i) = l[i + 1]
  BY DEF ListAt

\* The address in an array of n publishers.
LEMMA UrlOf ==
  ASSUME NEW d, NEW i \in Nat \ {0}, NEW n \in Nat,
         n > 0 => d[i] \in Plain /\ d[i].tag \in Simple /\ Item(d[i]) = Scalar("string", "uri")
  PROVE  ExtractUrl(Array(Leaves(d, i, i + n - 1))) \in {"uri", "none"}
  <1> DEFINE l == Leaves(d, i, i + n - 1)
  <1>1. /\ Array(l).type = "array" /\ Array(l).items = l
        /\ Scalar("string", "uri").type = "string" /\ Scalar("string", "uri").text = "uri"
    BY DEF Array, Scalar
  <1>2. CASE n = 0
    <2>1. i + n - 1 < i
      BY <1>2
    <2>2. l = ListInit
      BY <2>1 DEF Leaves
    <2>3. ListSize(l) = 0
      BY <2>2 DEF ListSize, Empty, ListInit, Nil
    <2> HIDE DEF l
    <2>4. ExtractUrl(Array(l)) = "none"
      BY <1>1, <2>3 DEF ExtractUrl
    <2> QED
      BY <2>4 DEF l
  <1>3. CASE n > 0
    <2>1. i + n - 1 \in Nat /\ i + n - 1 >= i /\ (i + n - 1) - i + 1 = n
      BY <1>3
    <2>2. ~Empty(l) /\ Len(l) = n /\ l[1] = Item(d[i])
      <3>1. /\ ~Empty(l) /\ Len(l) = (i + n - 1) - i + 1
            /\ \A e \in 1 .. (i + n - 1) - i + 1 : l[e] = Item(d[e + i - 1])
        BY <1>3, <2>1, LeavesFacts
      <3>2. 1 \in 1 .. n /\ 1 + i - 1 = i
        BY <1>3
      <3> HIDE DEF l
      <3> QED
        BY <2>1, <3>1, <3>2
    <2> HIDE DEF l
    <2>3. ListSize(l) = n
      BY <2>2 DEF ListSize
    <2>4. ListAt(l, 0) = l[0 + 1]
      BY <1>3, <2>3, AtPlace
    <2>5. StringAt(l, 0) = "uri"
      BY <1>1, <1>3, <2>2, <2>4 DEF StringAt
    <2>6. ExtractUrl(Array(l)) = "uri"
      BY <1>1, <1>3, <2>3, <2>5 DEF ExtractUrl
    <2> QED
      BY <2>6 DEF l
  <1> QED
    BY <1>2, <1>3

\* publisherUpdate.
LEMMA UpdateServed ==
  ASSUME NEW d, NEW n \in Nat, IsDoc("publisherUpdate", d, n), Clean(d),
         NEW l, CallAt(d, n, l, Len(d))
  PROVE  PublisherUpdate(l[1]) \in {"uri", "none"}
  <1> DEFINE m == Leaves(d, 4, n + 3)
             p == ListPut(Leaves(d, 1, 2), Array(m))
  <1>1. CallDoc(d, n) /\ d[2] \in Text("topic") /\ (n > 0 => d[4] \in Text("uri"))
    BY DEF IsDoc
  <1>2. /\ Len(d) = n + 4 /\ d[1] \in Plain /\ d[1].tag \in Simple /\ d[2].tag \in Simple /\ d[2].text # ""
        /\ n > 0 => d[4] \in Plain /\ d[4].tag \in Simple /\ d[4].text # ""
    <2>1. Len(d) = n + 4 /\ d[1] \in Plain /\ d[2] \in Plain /\ (n > 0 => d[4] \in Plain)
      BY <1>1 DEF CallDoc
    <2>2. 1 \in 1 .. Len(d) /\ 2 \in 1 .. Len(d) /\ (n > 0 => 4 \in 1 .. Len(d))
      BY <2>1
    <2> QED
      BY <2>1, <2>2 DEF Clean
  <1>3. l = <<p>>
    <2>1. Len(d) \notin 0 .. 2 /\ Len(d) \notin 3 .. n + 3
      <3>1. Len(d) = n + 4
        BY <1>2
      <3> QED
        BY <3>1
    <2> QED
      BY <2>1 DEF CallAt
  <1>4. Item(d[2]) = Scalar("string", "topic") /\ (n > 0 => Item(d[4]) = Scalar("string", "uri"))
    BY <1>1, <1>2, TextItem
  <1>5. ExtractUrl(Array(m)) \in {"uri", "none"}
    <2>1. ExtractUrl(Array(Leaves(d, 4, 4 + n - 1))) \in {"uri", "none"}
      <3>1. 4 \in Nat \ {0}
        OBVIOUS
      <3> QED
        BY <1>2, <1>4, <3>1, UrlOf
    <2>2. 4 + n - 1 = n + 3
      OBVIOUS
    <2> QED
      BY <2>1, <2>2
  <1>6. ListSize(p) = 3 /\ p[2] = Item(d[2]) /\ p[3] = Array(m)
    <2> DEFINE y == Array(m)
    <2> DEFINE i == 1
               j == 2
    <2>1. p = ListPut(Leaves(d, i, j), y)
      OBVIOUS
    <2>2. i \in Nat \ {0} /\ j = i + 1
      OBVIOUS
    <2>3. d[i] \in Plain /\ d[i].tag \in Simple
      BY <1>2
    <2> HIDE DEF y, p, i, j
    <2>4. ListSize(p) = 3 /\ p[2] = Item(d[j]) /\ p[3] = y
      BY <2>1, <2>2, <2>3, LeavesAdd
    <2> QED
      BY <2>4 DEF y, j
  <1> HIDE DEF p, m
  <1>7. ListAt(p, 1) = p[1 + 1] /\ ListAt(p, 2) = p[2 + 1]
    BY <1>6, AtPlace
  <1>8. StringAt(p, 1) = "topic"
    <2>1. Scalar("string", "topic").type = "string" /\ Scalar("string", "topic").text = "topic"
      BY DEF Scalar
    <2> QED
      BY <1>4, <1>6, <1>7, <2>1 DEF StringAt
  <1>9. PublisherUpdate(p) = ExtractUrl(Array(m))
    BY <1>6, <1>7, <1>8 DEF PublisherUpdate
  <1> QED
    BY <1>3, <1>5, <1>9

\* requestTopic.
LEMMA RequestServed ==
  ASSUME NEW d, NEW n, IsDoc("requestTopic", d, n), Clean(d),
         NEW l, NEW c, RequestAt(d, l, Len(d), c)
  PROVE  RequestTopic(l[1], c) = "topic"
  <1>1. RequestDoc(d) /\ d[2] \in Text("topic")
    BY DEF IsDoc
  <1>10. Len(d) = 7
    BY <1>1 DEF RequestDoc
  <1>2. d[1] \in Plain /\ d[1].tag \in Simple /\ d[2].tag \in Simple /\ d[2].text # ""
    <2>1. d[1] \in Plain /\ d[2] \in Plain
      BY <1>1 DEF RequestDoc
    <2>2. 1 \in 1 .. Len(d) /\ 2 \in 1 .. Len(d)
      BY <1>10
    <2> QED
      BY <2>1, <2>2 DEF Clean
  <1>3. PICK y : l = <<ListPut(Leaves(d, 1, 2), y)>>
    <2>1. Len(d) \notin 0 .. 2 /\ Len(d) \notin {3, 6} /\ Len(d) \notin {4, 5}
      BY <1>10
    <2> QED
      BY <2>1 DEF RequestAt
  <1>4. c = 3
    <2>1. Len(d) \notin 0 .. 2
      BY <1>10
    <2> QED
      BY <2>1 DEF RequestAt
  <1> DEFINE p == ListPut(Leaves(d, 1, 2), y)
  <1>5. ListSize(p) = 3 /\ p[2] = Item(d[2])
    <2> DEFINE i == 1
               j == 2
    <2>1. p = ListPut(Leaves(d, i, j), y)
      OBVIOUS
    <2>2. i \in Nat \ {0} /\ j = i + 1
      OBVIOUS
    <2>3. d[i] \in Plain /\ d[i].tag \in Simple
      BY <1>2
    <2> HIDE DEF p, i, j
    <2>4. ListSize(p) = 3 /\ p[2] = Item(d[j])
      BY <2>1, <2>2, <2>3, LeavesAdd
    <2> QED
      BY <2>4 DEF j
  <1>6. l[1] = p
    BY <1>3
  <1> HIDE DEF p
  <1>7. ListAt(p, 1) = p[1 + 1]
    BY <1>5, AtPlace
  <1>8. Item(d[2]) = Scalar("string", "topic")
    BY <1>1, <1>2, TextItem
  <1>9. StringAt(p, 1) = "topic"
    <2>1. Scalar("string", "topic").type = "string" /\ Scalar("string", "topic").text = "topic"
      BY DEF Scalar
    <2> QED
      BY <1>5, <1>7, <1>8, <2>1 DEF StringAt
  <1> QED
    BY <1>4, <1>6, <1>9 DEF RequestTopic

\* The list of a reply.
LEMMA ReplyList ==
  ASSUME NEW d, NEW n \in Nat, ReplyDoc(d, n), Clean(d), NEW l, ReplyAt(d, n, l, Len(d))
  PROVE  /\ l[1][1].type = "array"
         /\ ListAt(l[1][1].items, 2) = Array(Leaves(d, 5, n + 4))
  <1> DEFINE y == Array(Leaves(d, 5, n + 4))
             p == Info(d, n)
  <1>1. Len(d) = n + 6 /\ d[2] \in Plain /\ d[2].tag \in Simple
    <2>1. Len(d) = n + 6 /\ d[2] \in Plain
      BY DEF ReplyDoc
    <2>2. 2 \in 1 .. Len(d)
      BY <2>1
    <2> QED
      BY <2>1, <2>2 DEF Clean
  <1>2. l = <<<<Array(p)>>>>
    <2>1. Len(d) # 0 /\ Len(d) \notin 1 .. 3 /\ Len(d) \notin 4 .. n + 4 /\ Len(d) # n + 5
      BY <1>1
    <2> QED
      BY <2>1 DEF ReplyAt
  <1>3. p = ListPut(Leaves(d, 2, 3), y)
    BY DEF Info
  <1> HIDE DEF y, p
  <1>4. ListSize(p) = 3 /\ p[3] = y
    <2>1. 2 \in Nat \ {0} /\ 3 = 2 + 1
      OBVIOUS
    <2> QED
      BY <1>1, <1>3, <2>1, LeavesAdd
  <1>5. ListAt(p, 2) = p[2 + 1]
    BY <1>4, AtPlace
  <1>6. l[1][1] = Array(p)
    BY <1>2
  <1>7. Array(p).type = "array" /\ Array(p).items = p
    BY DEF Array
  <1> QED
    BY <1>4, <1>5, <1>6, <1>7 DEF y

\* The reply of registerSubscriber.
LEMMA RegisterServed ==
  ASSUME NEW d, NEW n \in Nat, IsDoc("registerReply", d, n), Clean(d),
         NEW l, ReplyAt(d, n, l, Len(d))
  PROVE  RegisterReply(l[1]) \in {"uri", "none"}
  <1>1. ReplyDoc(d, n) /\ (n > 0 => d[5] \in Text("uri"))
    BY DEF IsDoc
  <1>2. n > 0 => d[5] \in Plain /\ d[5].tag \in Simple /\ d[5].text # ""
    <2>1. n > 0 => d[5] \in Plain /\ 5 \in 1 .. Len(d)
      BY <1>1 DEF ReplyDoc
    <2> QED
      BY <2>1 DEF Clean
  <1>3. n > 0 => Item(d[5]) = Scalar("string", "uri")
    BY <1>1, <1>2, TextItem
  <1>4. ExtractUrl(Array(Leaves(d, 5, n + 4))) \in {"uri", "none"}
    <2>1. ExtractUrl(Array(Leaves(d, 5, 5 + n - 1))) \in {"uri", "none"}
      <3>1. 5 \in Nat \ {0}
        OBVIOUS
      <3> QED
        BY <1>2, <1>3, <3>1, UrlOf
    <2>2. 5 + n - 1 = n + 4
      OBVIOUS
    <2> QED
      BY <2>1, <2>2
  <1> QED
    BY <1>1, <1>4, ReplyList DEF RegisterReply

\* The reply of requestTopic.
LEMMA TopicServed ==
  ASSUME NEW d, NEW n \in Nat, IsDoc("topicReply", d, n), Clean(d),
         NEW l, ReplyAt(d, n, l, Len(d))
  PROVE  TopicReply(l[1]) = "uri"
  <1> DEFINE m == Leaves(d, 5, 7)
  <1>1. n = 3 /\ ReplyDoc(d, n) /\ d[6] \in Text("uri") /\ d[7] \in Number
    BY DEF IsDoc
  <1>2. d[5] \in Plain /\ d[5].tag \in Simple /\ d[6].tag \in Simple /\ d[6].text # ""
    <2>1. d[5] \in Plain /\ d[6] \in Plain /\ 5 \in 1 .. Len(d) /\ 6 \in 1 .. Len(d)
      BY <1>1 DEF ReplyDoc
    <2> QED
      BY <2>1 DEF Clean
  <1>3. l[1][1].type = "array" /\ ListAt(l[1][1].items, 2) = Array(m)
    <2>1. n + 4 = 7
      BY <1>1
    <2> QED
      BY <1>1, <2>1, ReplyList
  <1>4. ListSize(m) = 3 /\ m[2] = Item(d[6]) /\ m[3] = Item(d[7])
    <2>1. /\ ~Empty(m) /\ Len(m) = 7 - 5 + 1
          /\ \A e \in 1 .. 7 - 5 + 1 : m[e] = Item(d[e + 5 - 1])
      <3>1. 5 \in Nat \ {0} /\ 7 \in Nat /\ 7 >= 5
        OBVIOUS
      <3> QED
        BY <1>2, <3>1, LeavesFacts
    <2> HIDE DEF m
    <2>2. m[2] = Item(d[2 + 5 - 1]) /\ m[3] = Item(d[3 + 5 - 1])
      BY <2>1
    <2> QED
      BY <2>1, <2>2 DEF ListSize
  <1> HIDE DEF m
  <1>5. ListAt(m, 1) = m[1 + 1] /\ ListAt(m, 2) = m[2 + 1]
    BY <1>4, AtPlace
  <1>6. Item(d[6]) = Scalar("string", "uri") /\ Item(d[7]) = Scalar("int", "7")
    BY <1>1, <1>2, TextItem, NumberItem
  <1>7. /\ Scalar("string", "uri").type = "string" /\ Scalar("string", "uri").text = "uri"
        /\ Scalar("int", "7").type = "int"
        /\ Array(m).type = "array" /\ Array(m).items = m
    BY DEF Scalar, Array
  <1>8. StringAt(m, 1) = "uri" /\ ListAt(m, 2).type = "int"
    BY <1>4, <1>5, <1>6, <1>7 DEF StringAt
  <1> QED
    BY <1>3, <1>4, <1>7, <1>8 DEF TopicReply

-----------------------------------------------------------------------------
(* The invariant.                                                          *)

\* The lists and the number of values that the tokens read so far make.
Follows ==
  \E n \in Nat :
    /\ IsDoc(kind, doc, n)
    /\ CASE kind = "publisherUpdate" -> CallAt(doc, n, into, read)
         [] kind = "requestTopic" -> RequestAt(doc, into, read, n_params)
         [] OTHER -> ReplyAt(doc, n, into, read)

Regular == kind \in Kinds /\ Tagged(doc) /\ Positive(doc)

ServeInv ==
  /\ kind \in Kinds => doc \in RosDocs(kind)
  /\ phase \in {"build", "print", "sent"} => n_params = 0
  /\ phase = "parse" /\ Regular => Follows
  /\ HandlersServed

\* A tagged message is clean.
LEMMA CleanDoc ==
  ASSUME DocInv, Tagged(doc)
  PROVE  Clean(doc)
  <1>1. DOMAIN doc = 1 .. Len(doc)
    BY LenProperties DEF DocInv
  <1> QED
    BY <1>1, PlainFacts DEF Tagged, Clean

\* Of the message of a STRos node the invariant says nothing.
LEMMA OwnServe ==
  ASSUME kind' \notin Kinds, n_params' = n_params, n_params = 0
  PROVE  ServeInv'
  BY DEF ServeInv, Regular, HandlersServed

\* The caller's steps.
LEMMA CallerServe ==
  ASSUME IInv, ServeInv, Caller
  PROVE  ServeInv'
  <1>1. "own" \notin Kinds
    BY DEF Kinds
  <1>2. CASE \/ \E item \in Scalars : Put(item)
             \/ PutArray
             \/ \E i \in 0 .. MaxPuts : RemoveItem(i)
             \/ Send
    <2>1. phase = "build" /\ kind' = kind /\ n_params' = n_params
      BY <1>2 DEF Put, PutArray, RemoveItem, Send, Build, sendVars, parseVars
    <2>2. kind = "own" /\ n_params = 0
      BY <2>1 DEF IInv, PhaseInv, ServeInv
    <2> QED
      BY <1>1, <2>1, <2>2, OwnServe
  <1>3. CASE PrintItem \/ PrintEnd
    <2>1. phase = "print" /\ kind' = kind /\ n_params' = n_params
      BY <1>3 DEF PrintItem, PrintEnd, Printing, parseVars
    <2>2. kind = "own" /\ n_params = 0
      BY <2>1 DEF IInv, PhaseInv, ServeInv
    <2> QED
      BY <1>1, <2>1, <2>2, OwnServe
  <1>4. CASE RosSend
    <2>1. phase = "build" /\ phase' = "sent" /\ n_params' = n_params /\ doc' \in RosDocs(kind')
      BY <1>4 DEF RosSend, parseVars
    <2> QED
      BY <2>1 DEF ServeInv, HandlersServed
  <1> QED
    BY <1>2, <1>3, <1>4 DEF Caller

\* The vendored parser accepts the messages of ROS nodes.
LEMMA ReceiveServe ==
  ASSUME IInv, ServeInv, Receive
  PROVE  ServeInv'
  <1>1. /\ phase = "sent" /\ kind' = kind /\ doc' = doc /\ read' = read /\ n_params' = n_params
        /\ read = 0 /\ n_params = 0
    BY DEF Receive, buildVars, sendVars, IInv, PhaseInv, ServeInv
  <1>2. CASE kind \notin Kinds
    BY <1>1, <1>2, OwnServe
  <1>3. CASE kind \in Kinds
    <2>1. doc \in RosDocs(kind) /\ DOMAIN doc = 1 .. Len(doc)
      BY <1>3, LenProperties DEF ServeInv, IInv, DocInv
    <2>2. ~Malformed(doc)
      <3>1. ASSUME NEW i \in 1 .. Len(doc), doc[i].tag \in Simple PROVE doc[i].text # "a<b"
        <4>1. doc[i] \in {Open, Close} \cup Plain
          BY <1>3, <2>1, RosDocFacts
        <4>2. Open.tag \notin Simple /\ Close.tag \notin Simple
          BY DEF Open, Close, Simple
        <4> QED
          BY <3>1, <4>1, <4>2, PlainFacts
      <3> QED
        BY <2>1, <3>1 DEF Malformed
    <2>3. phase' = "parse" /\ into' = <<ListInit>>
      BY <2>2 DEF Receive
    <2>4. ASSUME Regular PROVE Follows'
      <3>1. PICK n \in Nat : IsDoc(kind, doc, n)
        BY <1>3, <2>1, <2>4, RosDocFacts DEF Regular
      <3>2. CallAt(doc, n, <<ListInit>>, 0)
        BY EmptyLeaves DEF CallAt
      <3>3. RequestAt(doc, <<ListInit>>, 0, 0)
        BY EmptyLeaves DEF RequestAt
      <3>4. ReplyAt(doc, n, <<ListInit>>, 0)
        BY DEF ReplyAt
      <3> QED
        BY <1>1, <2>3, <3>1, <3>2, <3>3, <3>4 DEF Follows
    <2>5. Regular' <=> Regular
      BY <1>1 DEF Regular
    <2> QED
      BY <1>1, <2>1, <2>3, <2>4, <2>5 DEF ServeInv, HandlersServed
  <1> QED
    BY <1>2, <1>3

\* Each token.
LEMMA ParseServe ==
  ASSUME IInv, ServeInv, NEW x, ParseValue(x), phase' = "parse", Regular => into' = StepOf(into, x)
  PROVE  ServeInv'
  <1>1. /\ phase = "parse" /\ x = doc[read + 1] /\ read \in Nat /\ read < Len(doc) /\ read' = read + 1
        /\ doc' = doc /\ kind' = kind /\ n_params' = Count(into, x, n_params)
    BY ParseFacts DEF ParseValue, Count
  <1>2. Regular' <=> Regular
    BY <1>1 DEF Regular
  <1>3. ASSUME Regular PROVE Follows'
    <2>1. PICK n \in Nat :
            /\ IsDoc(kind, doc, n)
            /\ CASE kind = "publisherUpdate" -> CallAt(doc, n, into, read)
                 [] kind = "requestTopic" -> RequestAt(doc, into, read, n_params)
                 [] OTHER -> ReplyAt(doc, n, into, read)
      BY <1>1, <1>3 DEF ServeInv, Follows
    <2>2. Clean(doc)
      BY <1>3, CleanDoc DEF IInv, Regular
    <2>3. kind \in {"publisherUpdate", "requestTopic", "registerReply", "topicReply"}
      BY <1>3 DEF Regular, Kinds
    <2>4. into' = StepOf(into, doc[read + 1])
      BY <1>1, <1>3
    <2>5. CASE kind = "publisherUpdate"
      <3>1. CallDoc(doc, n) /\ CallAt(doc, n, into, read)
        BY <2>1, <2>5 DEF IsDoc
      <3>2. CallAt(doc, n, into', read')
        BY <1>1, <2>2, <2>4, <3>1, CallStep
      <3> QED
        BY <1>1, <2>1, <2>5, <3>2 DEF Follows
    <2>6. CASE kind = "requestTopic"
      <3>1. RequestDoc(doc) /\ RequestAt(doc, into, read, n_params)
        BY <2>1, <2>6 DEF IsDoc
      <3>2. RequestAt(doc, into', read', n_params')
        BY <1>1, <2>2, <2>4, <3>1, RequestStep
      <3> QED
        BY <1>1, <2>1, <2>6, <3>2 DEF Follows
    <2>7. CASE kind \in {"registerReply", "topicReply"}
      <3>1. ReplyDoc(doc, n) /\ ReplyAt(doc, n, into, read)
        BY <2>1, <2>7 DEF IsDoc
      <3>2. ReplyAt(doc, n, into', read')
        BY <1>1, <2>2, <2>4, <3>1, ReplyStep
      <3> QED
        BY <1>1, <2>1, <2>7, <3>2 DEF Follows
    <2> QED
      BY <2>3, <2>5, <2>6, <2>7
  <1> QED
    BY <1>1, <1>2, <1>3 DEF ServeInv, HandlersServed

\* The tags of an array are not those of values.
LEMMA TagsDiffer ==
  /\ Open # Close
  /\ \A x : x.tag \in Simple => x # Open /\ x # Close
  /\ \A x : x.tag \in {"nil", "untagged"} => x # Open /\ x # Close /\ x.tag \notin Simple
  <1>1. Open.tag = "array" /\ Close.tag = "/array"
    BY DEF Open, Close
  <1>2. {"array", "/array", "nil", "untagged"} \cap Simple = {}
    BY DEF Simple
  <1> QED
    BY <1>1, <1>2

\* The steps of parse_rpc_value.
LEMMA ParserServe ==
  ASSUME IInv, ServeInv,
         ParseOpen \/ ParseClose \/ (\E x \in Range(doc) : ParseScalar(x)) \/ (\E x \in Range(doc) : ParseOther(x))
  PROVE  ServeInv'
  <1>1. CASE ParseOpen
    <2>1. ParseValue(Open) /\ into' = StepOf(into, Open) /\ phase' = phase
      BY <1>1 DEF ParseOpen, StepOf
    <2> QED
      BY <2>1, ParseFacts, ParseServe
  <1>2. CASE ParseClose
    <2>1. ParseValue(Close) /\ into' = StepOf(into, Close) /\ phase' = phase
      BY <1>2, TagsDiffer DEF ParseClose, StepOf
    <2> QED
      BY <2>1, ParseFacts, ParseServe
  <1>3. ASSUME NEW x, ParseScalar(x) PROVE ServeInv'
    <2>1. ParseValue(x) /\ x.tag \in Simple /\ x # Open /\ x # Close
      BY <1>3, TagsDiffer DEF ParseScalar
    <2>2. CASE x.text = ""
      <3>1. /\ phase' = "used" /\ outcome' = "crash" /\ kind' = kind /\ doc' = doc
            /\ x = doc[read + 1] /\ read + 1 \in DOMAIN doc
        BY <1>3, <2>1, <2>2, ParseFacts, LenProperties DEF ParseScalar, IInv, DocInv
      <3>2. ~Tagged(doc)
        BY <2>1, <2>2, <3>1 DEF Tagged
      <3> QED
        BY <3>1, <3>2 DEF ServeInv, HandlersServed
    <2>3. CASE x.text # ""
      <3>1. into' = StepOf(into, x) /\ phase' = phase
        BY <1>3, <2>1, <2>3 DEF ParseScalar, StepOf
      <3> QED
        BY <2>1, <3>1, ParseFacts, ParseServe
    <2> QED
      BY <2>2, <2>3
  <1>4. ASSUME NEW x, ParseOther(x) PROVE ServeInv'
    <2>1. ParseValue(x) /\ phase' = phase /\ x # Open /\ x # Close /\ x.tag \notin Simple
      BY <1>4, TagsDiffer DEF ParseOther
    <2>2. x = doc[read + 1] /\ read + 1 \in DOMAIN doc /\ phase = "parse"
      BY <2>1, ParseFacts, LenProperties DEF IInv, DocInv
    <2>3. ~Regular
      BY <2>1, <2>2 DEF Regular, Tagged
    <2> QED
      BY <2>1, <2>2, <2>3, ParseServe
  <1> QED
    BY <1>1, <1>2, <1>3, <1>4

\* The whole message is read.
LEMMA HandleServe ==
  ASSUME IInv, ServeInv, Handle
  PROVE  ServeInv'
  <1>1. /\ phase = "parse" /\ read = Len(doc) /\ phase' = "used" /\ kind' = kind /\ doc' = doc
        /\ outcome' = Use(kind, into[1], n_params)
    BY DEF Handle, Parsed, sendVars
  <1>2. ASSUME Regular PROVE outcome' \in Expected(kind)
    <2>1. PICK n \in Nat :
            /\ IsDoc(kind, doc, n)
            /\ CASE kind = "publisherUpdate" -> CallAt(doc, n, into, read)
                 [] kind = "requestTopic" -> RequestAt(doc, into, read, n_params)
                 [] OTHER -> ReplyAt(doc, n, into, read)
      BY <1>1, <1>2 DEF ServeInv, Follows
    <2>2. Clean(doc)
      BY <1>2, CleanDoc DEF IInv, Regular
    <2>3. kind \in {"publisherUpdate", "requestTopic", "registerReply", "topicReply"}
      BY <1>2 DEF Regular, Kinds
    <2>4. CASE kind = "publisherUpdate"
      <3>1. PublisherUpdate(into[1]) \in {"uri", "none"}
        BY <1>1, <2>1, <2>2, <2>4, UpdateServed
      <3> QED
        BY <1>1, <2>4, <3>1 DEF Use, Expected
    <2>5. CASE kind = "requestTopic"
      <3>1. RequestTopic(into[1], n_params) = "topic"
        BY <1>1, <2>1, <2>2, <2>5, RequestServed
      <3> QED
        BY <1>1, <2>5, <3>1 DEF Use, Expected
    <2>6. CASE kind = "registerReply"
      <3>1. RegisterReply(into[1]) \in {"uri", "none"}
        BY <1>1, <2>1, <2>2, <2>6, RegisterServed
      <3> QED
        BY <1>1, <2>6, <3>1 DEF Use, Expected
    <2>7. CASE kind = "topicReply"
      <3>1. TopicReply(into[1]) = "uri"
        BY <1>1, <2>1, <2>2, <2>7, TopicServed
      <3> QED
        BY <1>1, <2>7, <3>1 DEF Use, Expected
    <2> QED
      BY <2>3, <2>4, <2>5, <2>6, <2>7
  <1> QED
    BY <1>1, <1>2 DEF ServeInv, HandlersServed, Regular

-----------------------------------------------------------------------------

\* The messages of the ROS API, whose strings are tagged and not empty, with any
\* number of publishers in them, get through the parser, and the handlers of
\* api.c and stros.c find the topic, the address of the first publisher and the
\* endpoint at the positions they look at.
THEOREM MessagesAreServed == Spec => []HandlersServed
  <1>1. Init => ServeInv
    BY DEF Init, ServeInv, Kinds, HandlersServed
  <1>2. IInv /\ ServeInv /\ [Next]_vars => ServeInv'
    <2> SUFFICES ASSUME IInv, ServeInv, [Next]_vars PROVE ServeInv'
      OBVIOUS
    <2>1. CASE Caller
      BY <2>1, CallerServe
    <2>2. CASE Callee
      BY <2>2, ReceiveServe, ParserServe, HandleServe DEF Callee
    <2>3. CASE UNCHANGED vars
      <3>1. /\ phase' = phase /\ kind' = kind /\ doc' = doc /\ read' = read /\ n_params' = n_params
            /\ into' = into /\ outcome' = outcome
        BY <2>3 DEF vars, sendVars, parseVars
      <3> QED
        BY <3>1 DEF ServeInv, HandlersServed, Regular, Follows
    <2> QED
      BY <2>1, <2>2, <2>3 DEF Next
  <1>3. ServeInv => HandlersServed
    BY DEF ServeInv
  <1> QED
    BY Invariant, <1>1, <1>2, <1>3, PTL DEF Spec
=============================================================================
