----------------------------- MODULE RpcValues -----------------------------
(***************************************************************************)
(* XML-RPC values: the lists a node builds for its calls and responses     *)
(* (list.c), the XML it makes of them (item_to_xml), the lists it parses   *)
(* from the XML of a peer (parse_rpc_value), and what the handlers of      *)
(* api.c and stros.c take out of them by position.  One call: its          *)
(* arguments are built by a STRos node or come from a ROS node or master   *)
(* (external), and a STRos node parses and uses them.                      *)
(*                                                                         *)
(* A list is the sequence of its items; <<>> is NULL, and list_init is the *)
(* item of type "nil".  XML is the sequence of its values, in which the    *)
(* tags of an array stand around its own.  item_to_xml and parse_rpc_value *)
(* call themselves for an array: out and into are the stacks of the lists  *)
(* being printed and parsed, the innermost one last.  The vendored parser  *)
(* gives NULL for a text that is empty and refuses a document in which a   *)
(* text that was not escaped looks like a tag.                             *)
(***************************************************************************)
EXTENDS Integers, Sequences, SequencesExt

CONSTANTS
  MaxPuts,  \* bound: how many items the caller puts into its lists
  MaxUris   \* bound: how many publishers a message of a ROS node lists

ASSUME RpcAssumption == MaxPuts \in Nat /\ MaxUris \in Nat

VARIABLES
  phase,    \* "build", "print", "sent", "parse" or "used"
  puts,     \* how many items were put into the lists
  own,      \* the list a STRos caller builds
  inner,    \* a second one, to be put into it as an array
  kind,     \* what the message is
  doc,      \* its values as XML
  out,      \* the lists being printed, and the position np has in each
  read,     \* how much of doc is parsed
  n_params, \* how many values there are outside of arrays
  into,     \* the lists being parsed, or <<>>
  outcome   \* what came of using them

buildVars == <<puts, own, inner>>
sendVars == <<kind, doc, out>>
parseVars == <<read, n_params, into>>
vars == <<phase, buildVars, sendVars, parseVars, outcome>>
-----------------------------------------------------------------------------
(* Lists.                                                                  *)

Scalar(t, text) == [type |-> t, text |-> text]
Array(items) == [type |-> "array", items |-> items]
Nil == [type |-> "nil"]

ListInit == <<Nil>>
Empty(l) == l = <<>> \/ l[1].type = "nil"
ListSize(l) == IF Empty(l) THEN 0 ELSE Len(l)

\* Mutant: the item of list_init stays in front.
ListPutAfter(l, item) == IF l = <<>> THEN <<item>> ELSE Append(l, item)

ListPut(l, item) == IF Empty(l) THEN <<item>> ELSE Append(l, item)

\* Mutant: positions are counted from 1.
ListAtFrom1(l, i) == IF i \in 1 .. ListSize(l) THEN l[i] ELSE [type |-> "NULL"]

\* "NULL" if there is no such item; positions are those of C.
ListAt(l, i) == IF i \in 0 .. ListSize(l) - 1 THEN l[i + 1] ELSE [type |-> "NULL"]

\* list_remove as the caller sees it: the head is only skipped in the
\* function's own copy of the pointer.
ListRemove(l, i) ==
  IF i \in 1 .. ListSize(l) - 1
  THEN SubSeq(l, 1, i) \o SubSeq(l, i + 2, Len(l))
  ELSE l

\* The doubles a caller has, and "%lf" of them: six decimals, or a word.
Doubles == {"5.5", "1.23456789", "nan"}
Lf(d) == CASE d = "5.5" -> "5.500000" [] d = "1.23456789" -> "1.234568" [] OTHER -> d

Atof(text) == IF text = "5.500000" THEN "5.5" ELSE text

\* Mutant: numbers with decimals are not recognised.
SpecialIntOnly(text) == Scalar(IF text = "5" THEN "int" ELSE "string", text)

\* list_put_special: the item a text becomes.
Special(text) ==
  CASE text = "5" -> Scalar("int", text)
    [] text \in {"5.500000", "1.234568"} -> Scalar("double", Atof(text))
    [] OTHER -> Scalar("string", text)

-----------------------------------------------------------------------------
(* XML.                                                                    *)

Open == [tag |-> "array"]
Close == [tag |-> "/array"]

\* What item_to_xml prints first for an item, and all it prints unless the
\* item is an array.
Emit(item) ==
  CASE item.type = "array" -> Open
    [] item.type = "nil" -> [tag |-> "nil"]
    [] item.type = "double" -> [tag |-> "double", text |-> Lf(item.text)]
    [] OTHER -> [tag |-> item.type, text |-> item.text]

\* A list at whose first item np is.
Frame(l) == [list |-> l, np |-> 1]

Simple == {"int", "i4", "boolean", "double", "string", "dateTime.iso8601", "base64"}

\* What parse_rpc_value makes of a value of a simple type.
Item(x) ==
  CASE x.tag = "double" -> Special(x.text)
    [] x.tag = "i4" -> Scalar("int", x.text)
    [] OTHER -> Scalar(x.tag, x.text)

\* The vendored parser gives up.
Malformed(d) == \E i \in DOMAIN d : d[i].tag \in Simple /\ d[i].text = "a<b"

-----------------------------------------------------------------------------
(* What is taken out of the lists.  "crash" stands for following NULL or   *)
(* a union member of another type.                                         *)

StringAt(l, i) == IF ListAt(l, i).type = "string" THEN ListAt(l, i).text ELSE "crash"

\* extract_url: the address is the first entry of an array of uris.
ExtractUrl(item) ==
  IF item.type # "array" THEN "crash"
  ELSE IF ListSize(item.items) = 0 THEN "none"
  ELSE StringAt(item.items, 0)

PublisherUpdate(l) ==
  IF StringAt(l, 1) = "crash" THEN "crash" ELSE ExtractUrl(ListAt(l, 2))

\* requestTopic looks at the number of values in the XML, not in the list.
RequestTopic(l, n) == IF n # 3 THEN "bad" ELSE StringAt(l, 1)

\* The third entry of the array in a reply of registerSubscriber; no status
\* code is looked at.
RegisterReply(l) ==
  IF l[1].type # "array" THEN "crash" ELSE ExtractUrl(ListAt(l[1].items, 2))

\* subscriber_listener: the endpoint in the reply of requestTopic.
TopicReply(l) ==
  IF l[1].type # "array" \/ ListAt(l[1].items, 2).type # "array" THEN "crash"
  ELSE LET l1 == ListAt(l[1].items, 2).items
       IN IF ListSize(l1) # 3 THEN "none"
          ELSE IF ListAt(l1, 2).type # "int" THEN "crash" ELSE StringAt(l1, 1)

Use(k, l, n) ==
  CASE k = "publisherUpdate" -> PublisherUpdate(l)
    [] k = "requestTopic" -> RequestTopic(l, n)
    [] k = "registerReply" -> RegisterReply(l)
    [] k = "topicReply" -> TopicReply(l)
    [] OTHER -> "none"

-----------------------------------------------------------------------------

Scalars == {Scalar("int", "7"), Scalar("boolean", "1"), Scalar("string", "s"),
            Scalar("string", ""), Scalar("string", "a<b"), Scalar("dateTime.iso8601", "d"),
            Scalar("base64", "b")}
           \cup {Scalar("double", d) : d \in Doubles}

\* External: a string in a message of a ROS node is tagged, or is the plain
\* text of the value, which XML-RPC allows; and it may be empty.
Text(s) == {[tag |-> "string", text |-> s], [tag |-> "untagged", text |-> s],
            [tag |-> "string", text |-> ""]}
Number == {[tag |-> t, text |-> "7"] : t \in {"int", "i4"}}
Values(values) == <<Open>> \o values \o <<Close>>
Uris == {u \in SeqOf(Text("uri") \cup Text("next"), MaxUris) : u = <<>> \/ u[1] \in Text("uri")}
Protocols == {Values(<<t>>) : t \in Text("TCPROS")}

\* External: the calls and replies of the ROS API begin with the caller's name
\* and the topic's, and with a status code and a message.
Call(a, b, values) == <<a, b>> \o Values(values)
Reply(c, m, value) == Values(<<c, m>> \o value)

\* External: the messages a node gets.
RosDocs(k) ==
  CASE k = "publisherUpdate" ->
         {Call(a, b, u) : a \in Text("caller"), b \in Text("topic"), u \in Uris}
    [] k = "requestTopic" ->
         {Call(a, b, p) : a \in Text("caller"), b \in Text("topic"), p \in Protocols}
    [] k = "registerReply" ->
         {Reply(c, m, Values(u)) : c \in Number, m \in Text("status"), u \in Uris}
    [] k = "topicReply" ->
         {Reply(c, m, Values(<<t, u, p>>)) :
             c \in Number, m \in Text("status"), t \in Text("TCPROS"), u \in Text("uri"), p \in Number}
         \cup {Reply(c, m, <<p>>) : c \in Number, m \in Text("status"), p \in Number}

Expected(k) == CASE k \in {"publisherUpdate", "registerReply"} -> {"uri", "none"}
                 [] k = "requestTopic" -> {"topic"}
                 [] k = "topicReply" -> {"uri"}

Kinds == {"publisherUpdate", "requestTopic", "registerReply", "topicReply"}

Init ==
  /\ phase = "build"
  /\ puts = 0
  /\ own = ListInit
  /\ inner = ListInit
  /\ kind = "own"
  /\ doc = <<>>
  /\ out = <<>>
  /\ read = 0
  /\ n_params = 0
  /\ into = <<>>
  /\ outcome = "none"

-----------------------------------------------------------------------------
(* The caller.                                                             *)

Build == phase = "build" /\ UNCHANGED <<phase, sendVars, parseVars, outcome>>
More == puts < MaxPuts /\ puts' = puts + 1

\* list_put_i, list_put_s and so on.
Put(item) ==
  /\ Build
  /\ More
  /\ \/ own' = ListPut(own, item) /\ UNCHANGED inner
     \/ inner' = ListPut(inner, item) /\ UNCHANGED own

\* One list becomes an item of the other, and a new one is begun.
PutArray ==
  /\ Build
  /\ More
  /\ \/ own' = ListPut(own, Array(inner))
     \/ own' = ListPut(inner, Array(own))
  /\ inner' = ListInit

RemoveItem(i) ==
  /\ Build
  /\ i \in 0 .. ListSize(own)
  /\ own' = ListRemove(own, i)
  /\ UNCHANGED <<puts, inner>>

\* gen_rpc_call or gen_rpc_response.
Send ==
  /\ phase = "build"
  /\ phase' = "print"
  /\ out' = <<Frame(own)>>
  /\ UNCHANGED <<buildVars, kind, doc, parseVars, outcome>>

Printing == phase = "print" /\ UNCHANGED <<buildVars, kind, parseVars, outcome>>
AtEnd(f) == f.np > Len(f.list)

\* The item at np, and what is printed after it.
Np(stack) == Last(stack).list[Last(stack).np]
Rest(stack) == [stack EXCEPT ![Len(stack)].np = @ + 1]

\* item_to_xml for the item at np; for an array it starts over with the
\* array's list.
PrintItem ==
  /\ Printing
  /\ ~AtEnd(Last(out))
  /\ doc' = Append(doc, Emit(Np(out)))
  /\ out' = IF Np(out).type = "array" THEN Append(Rest(out), Frame(Np(out).items)) ELSE Rest(out)
  /\ UNCHANGED phase

\* The end of an array, or of list_to_xml_params.
PrintEnd ==
  /\ Printing
  /\ AtEnd(Last(out))
  /\ out' = Front(out)
  /\ IF Len(out) > 1
     THEN doc' = Append(doc, Close) /\ UNCHANGED phase
     ELSE phase' = "sent" /\ UNCHANGED doc

\* External.
RosSend ==
  /\ phase = "build"
  /\ own = ListInit /\ inner = ListInit
  /\ phase' = "sent"
  /\ \E k \in Kinds : kind' = k /\ doc' \in RosDocs(k)
  /\ UNCHANGED <<buildVars, out, parseVars, outcome>>

-----------------------------------------------------------------------------
(* The callee.                                                             *)

\* parse_rpc_method or parse_response, up to the loop over the values.
Receive ==
  /\ phase = "sent"
  /\ IF Malformed(doc)
     THEN phase' = "used" /\ outcome' = "bad" /\ UNCHANGED into
     ELSE phase' = "parse" /\ into' = <<ListInit>> /\ UNCHANGED outcome
  /\ UNCHANGED <<buildVars, sendVars, read, n_params>>

\* A value begins; in the outermost list it is one of the parameters.
ParseValue(x) ==
  /\ phase = "parse"
  /\ read < Len(doc)
  /\ x = doc[read + 1]
  /\ read' = read + 1
  /\ n_params' = IF Len(into) = 1 /\ x # Close THEN n_params + 1 ELSE n_params
  /\ UNCHANGED <<buildVars, sendVars>>

PutInto(lists, item) == [lists EXCEPT ![Len(lists)] = ListPut(@, item)]

ParseOpen ==
  /\ ParseValue(Open)
  /\ into' = Append(into, ListInit)
  /\ UNCHANGED <<phase, outcome>>

ParseClose ==
  /\ ParseValue(Close)
  /\ into' = PutInto(Front(into), Array(Last(into)))
  /\ UNCHANGED <<phase, outcome>>

\* strdup, atoi or regexec of a NULL text ends the process.
ParseScalar(x) ==
  /\ ParseValue(x)
  /\ x.tag \in Simple
  /\ IF x.text = ""
     THEN phase' = "used" /\ outcome' = "crash" /\ UNCHANGED into
     ELSE into' = PutInto(into, Item(x)) /\ UNCHANGED <<phase, outcome>>

\* Mutant: a value without a type, or of one that is not known, becomes an
\* item with no type rather than none.
ParseOtherKeep(x) ==
  /\ ParseValue(x)
  /\ x.tag \in {"nil", "untagged"}
  /\ into' = Append(Front(into), Append(Last(into), Nil))
  /\ UNCHANGED <<phase, outcome>>

\* A value without a type, or of one that is not known.
ParseOther(x) ==
  /\ ParseValue(x)
  /\ x.tag \in {"nil", "untagged"}
  /\ UNCHANGED <<phase, into, outcome>>

Parsed == phase = "parse" /\ read = Len(doc)

Handle ==
  /\ Parsed
  /\ phase' = "used"
  /\ outcome' = Use(kind, into[1], n_params)
  /\ UNCHANGED <<buildVars, sendVars, parseVars>>

Caller ==
  \/ \E item \in Scalars : Put(item)
  \/ PutArray
  \/ \E i \in 0..MaxPuts : RemoveItem(i)
  \/ Send \/ PrintItem \/ PrintEnd \/ RosSend

Callee ==
  \/ Receive \/ ParseOpen \/ ParseClose \/ Handle
  \/ \E x \in Range(doc) : ParseScalar(x)
  \/ \E x \in Range(doc) : ParseOther(x)

Next == Caller \/ Callee

Spec == Init /\ [][Next]_vars

-----------------------------------------------------------------------------
(* Properties that hold.                                                   *)

\* The doubles of a document are printed as those are that six decimals carry.
Exact == {d \in Doubles : Special(Lf(d)) = Scalar("double", d)}
SixDecimals(d) == \A i \in DOMAIN d : d[i].tag = "double" => d[i].text \in {Lf(e) : e \in Exact}

\* What one node puts into a call, another takes out of it: parsing undoes
\* printing, also for the empty list and for arrays that are empty or come
\* after other items, provided that no text is empty or looks like a tag and
\* six decimals are enough for the doubles.
RoundTrip == kind = "own" /\ Parsed /\ SixDecimals(doc) => into = <<own>>

\* A list never holds the item of list_init next to others, nor does an array
\* in it: its type decides, at the head only, whether a list is empty.
Fine(l) == l # <<>> /\ ((\E i \in DOMAIN l : l[i] = Nil) => l = ListInit)

NilOnlyAlone ==
  \A l \in {own, inner} \cup Range(into) :
    /\ Fine(l)
    /\ \A i \in DOMAIN l : l[i].type = "array" => Fine(l[i].items)

\* A message of the ROS API whose strings are all tagged, and none empty, gets
\* to the code that uses it, which finds at the positions it looks at what the
\* sender put there.  A reply of requestTopic that carries no endpoint is not
\* recognised: its third value is followed as if it were a list.
Tagged(d) ==
  \A i \in DOMAIN d : d[i] \in {Open, Close} \/ (d[i].tag \in Simple /\ d[i].text # "")
Positive(d) == d[1] = Open => d[4] = Open

HandlersServed ==
  kind \in Kinds /\ phase = "used" /\ Tagged(doc) /\ Positive(doc) => outcome \in Expected(kind)
=============================================================================
