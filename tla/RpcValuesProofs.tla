-------------------------- MODULE RpcValuesProofs --------------------------
(***************************************************************************)
(* Proofs about RpcValues for every number of items put into the lists,    *)
(* nested to any depth: an empty list is told by its head, and parsing     *)
(* undoes printing.                                                        *)
(*                                                                         *)
(* item_to_xml and parse_rpc_value each have a stack of unfinished lists.  *)
(* The stack of the printer alone says what the parser has once it has     *)
(* read as much as was printed (Upto); each token is then one step of      *)
(* both.  The invariant keeps the stacks the printer went through (Trace). *)
(***************************************************************************)
EXTENDS RpcValues, SequenceTheorems, TLAPS

\* The texts in the lists of a STRos node and in the messages of others.
Numbers == {"5.5", "1.23456789", "nan", "1.234568"}
Texts == Numbers \cup {"5.500000", "7", "1", "s", "", "a<b", "d", "b",
                       "caller", "topic", "uri", "next", "TCPROS", "status"}

\* The items that hold a text; printed and parsed, they stay what they are,
\* unless they hold a double of more than six decimals.
Basic ==
  {x \in [type : Simple \ {"i4"}, text : Texts] : x.type = "double" => x.text \in Numbers}

\* The items a list can have if the arrays among them hold lists of S.
Items(S) == Basic \cup {Nil} \cup {Array(m) : m \in S}

\* S holds lists, and with each the lists in it.
Lists(S) ==
  \A l \in S : /\ l \in Seq(Items(S))
               /\ l # <<>>
               /\ (\E i \in DOMAIN l : l[i] = Nil) => l = ListInit

\* The items of a list are told apart by their types.
LEMMA ItemTypes ==
  ASSUME NEW S, NEW x \in Items(S)
  PROVE  /\ x.type = "nil" <=> x = Nil
         /\ x.type = "array" <=> x \in {Array(m) : m \in S}
         /\ x.type = "array" => x.items \in S /\ x = Array(x.items)
  <1>1. CASE x \in Basic
    BY <1>1 DEF Basic, Nil, Array, Simple
  <1>2. CASE x = Nil
    BY <1>2 DEF Nil, Array
  <1>3. CASE x \in {Array(m) : m \in S}
    BY <1>3 DEF Nil, Array
  <1> QED
    BY <1>1, <1>2, <1>3 DEF Items

\* A list is empty just if it is that of list_init, and no other one holds its
\* item.
LEMMA ListFacts ==
  ASSUME NEW S, Lists(S), NEW l \in S
  PROVE  /\ l \in Seq(Items(S))
         /\ Len(l) \in Nat \ {0}
         /\ DOMAIN l = 1 .. Len(l)
         /\ \A i \in 1 .. Len(l) : l[i] \in Items(S) /\ (l[i] = Nil => l = ListInit)
         /\ Empty(l) <=> l = ListInit
  <1>1. l \in Seq(Items(S)) /\ l # <<>>
    BY DEF Lists
  <1>2. Len(l) \in Nat \ {0} /\ DOMAIN l = 1 .. Len(l) /\ \A i \in 1 .. Len(l) : l[i] \in Items(S)
    BY <1>1, LenProperties, EmptySeq, ElementOfSeq
  <1>3. \A i \in 1 .. Len(l) : l[i] = Nil => l = ListInit
    BY <1>2 DEF Lists
  <1>4. Empty(l) <=> l[1] = Nil
    BY <1>1, <1>2, ItemTypes DEF Empty
  <1>5. l = ListInit => l[1] = Nil
    BY DEF ListInit
  <1> QED
    BY <1>1, <1>2, <1>3, <1>4, <1>5

\* list_put makes a list of a list.
LEMMA PutFacts ==
  ASSUME NEW S, Lists(S), NEW l \in S, NEW x \in Items(S), x # Nil
  PROVE  Lists(S \cup {ListPut(l, x)})
  <1> DEFINE T == S \cup {ListPut(l, x)}
             p == ListPut(l, x)
  <1>1. Items(S) \subseteq Items(T)
    BY DEF Items
  <1>2. ASSUME NEW m \in S
        PROVE  m \in Seq(Items(T)) /\ m # <<>> /\ ((\E i \in DOMAIN m : m[i] = Nil) => m = ListInit)
    <2>1. m \in Seq(Items(S)) /\ m # <<>> /\ ((\E i \in DOMAIN m : m[i] = Nil) => m = ListInit)
      BY <1>2 DEF Lists
    <2> QED
      BY <2>1, <1>1, SeqMonotonic
  <1>3. p \in Seq(Items(T)) /\ p # <<>> /\ ((\E i \in DOMAIN p : p[i] = Nil) => p = ListInit)
    <2>1. CASE l = ListInit
      <3>1. p = <<x>>
        BY <2>1, ListFacts DEF ListPut
      <3> QED
        BY <3>1, <1>1
    <2>2. CASE l # ListInit
      <3>1. p = Append(l, x)
        BY <2>2, ListFacts DEF ListPut
      <3>2. /\ p \in Seq(Items(S))
            /\ Len(p) = Len(l) + 1
            /\ \A i \in 1 .. Len(l) : p[i] = l[i]
            /\ p[Len(l) + 1] = x
        BY <3>1, ListFacts, AppendProperties
      <3>3. Len(l) \in Nat /\ \A i \in 1 .. Len(l) : l[i] # Nil
        BY <2>2, ListFacts
      <3>4. DOMAIN p = 1 .. Len(l) + 1
        BY <3>2, LenProperties
      <3>5. \A i \in DOMAIN p : p[i] # Nil
        BY <3>2, <3>3, <3>4
      <3>6. p # <<>>
        BY <3>2, <3>3
      <3>7. p \in Seq(Items(T))
        BY <3>2, <1>1, SeqMonotonic
      <3> QED
        BY <3>5, <3>6, <3>7
    <2> QED
      BY <2>1, <2>2
  <1> QED
    BY <1>2, <1>3 DEF Lists

\* Removing an item but the first leaves a list.
LEMMA RemoveFacts ==
  ASSUME NEW S, Lists(S), NEW l \in S, NEW i \in Nat
  PROVE  Lists(S \cup {ListRemove(l, i)})
  <1>1. CASE ListRemove(l, i) = l
    <2>1. S \cup {ListRemove(l, i)} = S
      BY <1>1
    <2> QED
      BY <2>1
  <1>2. CASE ListRemove(l, i) # l
    <2> DEFINE a == SubSeq(l, 1, i)
               b == SubSeq(l, i + 2, Len(l))
               p == a \o b
               T == S \cup {p}
    <2>1. i \in 1 .. ListSize(l) - 1 /\ ListRemove(l, i) = p
      BY <1>2 DEF ListRemove
    <2>2. l # ListInit
      BY <2>1, ListFacts DEF ListSize
    <2>3. ListSize(l) = Len(l) /\ Len(l) \in Nat \ {0}
      BY <2>2, ListFacts DEF ListSize
    <2>4. \A j \in 1 .. Len(l) : l[j] \in Items(S) \ {Nil}
      BY <2>2, ListFacts
    <2>5. a \in Seq(Items(S) \ {Nil}) /\ Len(a) = i
      BY <2>1, <2>3, <2>4, SubSeqProperties
    <2>6. b \in Seq(Items(S) \ {Nil})
      BY <2>1, <2>3, <2>4, SubSeqProperties
    <2>7. p \in Seq(Items(S) \ {Nil}) /\ Len(p) = Len(a) + Len(b) /\ Len(b) \in Nat
      BY <2>5, <2>6, ConcatProperties, LenProperties
    <2> HIDE DEF a, b, p
    <2>8. p # <<>>
      BY <2>7, <2>5, <2>1
    <2>9. \A j \in DOMAIN p : p[j] # Nil
      BY <2>7, LenProperties, ElementOfSeq
    <2>10. Items(S) \subseteq Items(S \cup {p})
      BY DEF Items
    <2>11. p \in Seq(Items(T))
      BY <2>7, <2>10, SeqMonotonic
    <2>12. ASSUME NEW m \in S
           PROVE  m \in Seq(Items(T)) /\ m # <<>> /\ ((\E j \in DOMAIN m : m[j] = Nil) => m = ListInit)
      <3>1. m \in Seq(Items(S)) /\ m # <<>> /\ ((\E j \in DOMAIN m : m[j] = Nil) => m = ListInit)
        BY <2>12 DEF Lists
      <3> QED
        BY <3>1, <2>10, SeqMonotonic
    <2> QED
      BY <2>1, <2>8, <2>9, <2>11, <2>12 DEF Lists
  <1> QED
    BY <1>1, <1>2

\* What has been put into a list when c items of l have been read.
Prefix(l, c) == IF c = 0 \/ l = ListInit THEN ListInit ELSE SubSeq(l, 1, c)

\* list_put adds the next item of l to what has been read of it.
LEMMA PutPrefix ==
  ASSUME NEW S, Lists(S), NEW l \in S, NEW c \in 0 .. Len(l) - 1, l[c + 1] # Nil
  PROVE  ListPut(Prefix(l, c), l[c + 1]) = Prefix(l, c + 1)
  <1>1. l \in Seq(Items(S)) /\ Len(l) \in Nat \ {0} /\ \A i \in 1 .. Len(l) : l[i] \in Items(S)
    BY ListFacts
  <1>2. l # ListInit
    BY <1>1 DEF ListInit
  <1>3. \A i \in 1 .. Len(l) : l[i] # Nil
    BY <1>2, ListFacts
  <1>4. c + 1 \in 1 .. Len(l) /\ c + 1 # 0
    BY <1>1
  <1>5. SubSeq(l, 1, c + 1) = SubSeq(l, 1, c) \o <<l[c + 1]>>
    <2>1. 1 \in 1 .. Len(l) /\ c + 1 \in 1 .. Len(l) /\ (c + 1) - 1 = c
      BY <1>1
    <2> QED
      BY <2>1, <1>1, SubSeqRecursiveSecond
  <1>6. CASE c = 0
    <2>1. ListPut(Prefix(l, c), l[c + 1]) = <<l[1]>>
      BY <1>6 DEF Prefix, ListPut, Empty, ListInit, Nil
    <2>2. SubSeq(l, 1, 1) = SubSeq(l, 1, 0) \o <<l[1]>>
      BY <1>5, <1>6
    <2>3. SubSeq(l, 1, 0) = <<>>
      BY SubSeqEmpty
    <2>4. <<>> \o <<l[1]>> = <<l[1]>>
      BY ConcatEmptySeq, <1>1
    <2> QED
      BY <2>1, <2>2, <2>3, <2>4, <1>2, <1>6 DEF Prefix
  <1>7. CASE c # 0
    <2>1. Prefix(l, c) = SubSeq(l, 1, c) /\ Prefix(l, c + 1) = SubSeq(l, 1, c + 1)
      BY <1>7, <1>2, <1>4 DEF Prefix
    <2>2. /\ SubSeq(l, 1, c) \in Seq(Items(S))
          /\ Len(SubSeq(l, 1, c)) = c
          /\ SubSeq(l, 1, c)[1] = l[1]
      <3>1. c \in Int /\ 1 <= c /\ c <= Len(l) /\ \A i \in 1 .. c : l[i] \in Items(S)
        BY <1>1, <1>7
      <3> QED
        BY <3>1, SubSeqProperties
    <2>3. SubSeq(l, 1, c) # <<>>
      BY <2>2, <1>7
    <2>4. l[1].type # "nil"
      BY <1>1, <1>3, ItemTypes
    <2>5. ~Empty(Prefix(l, c))
      BY <2>1, <2>2, <2>3, <2>4 DEF Empty
    <2>6. Append(SubSeq(l, 1, c), l[c + 1]) = SubSeq(l, 1, c) \o <<l[c + 1]>>
      BY <2>2, <1>1, <1>4, AppendIsConcat
    <2> QED
      BY <2>1, <2>5, <2>6, <1>5 DEF ListPut
  <1> QED
    BY <1>6, <1>7

\* The item of list_init adds nothing.
LEMMA NilPrefix ==
  ASSUME NEW S, Lists(S), NEW l \in S, NEW c \in 0 .. Len(l) - 1, l[c + 1] = Nil
  PROVE  Prefix(l, c) = Prefix(l, c + 1)
  <1>1. c + 1 \in 1 .. Len(l)
    BY ListFacts
  <1>2. l = ListInit
    BY <1>1, ListFacts
  <1> QED
    BY <1>2 DEF Prefix

\* All items make the list.
LEMMA FullPrefix ==
  ASSUME NEW S, Lists(S), NEW l \in S
  PROVE  Prefix(l, Len(l)) = l
  BY ListFacts, SubSeqFull DEF Prefix

-----------------------------------------------------------------------------
(* The stack of item_to_xml.                                               *)

\* Every position is in its list or at the end of it, and but for the innermost
\* just behind the array whose list comes next.
IsStack(st, S) ==
  /\ st \in Seq([list : S, np : Nat])
  /\ Len(st) >= 1
  /\ \A d \in 1 .. Len(st) : st[d].np \in 1 .. Len(st[d].list) + 1
  /\ \A d \in 1 .. Len(st) - 1 :
       st[d].np >= 2 /\ st[d].list[st[d].np - 1] = Array(st[d + 1].list)

\* The stack after the item at np is begun.
After(st) ==
  IF Np(st).type = "array" THEN Append(Rest(st), Frame(Np(st).items)) ELSE Rest(st)

\* What a document consists of.
Token == {Open, Close, [tag |-> "nil"]} \cup [tag : Simple \cup {"untagged"}, text : Texts]

\* Six decimals carry one of the doubles.
LEMMA ExactFacts ==
  /\ {Lf(d) : d \in Exact} = {"5.500000"}
  /\ \A d \in Numbers : Lf(d) \in Texts /\ (Lf(d) = "5.500000" => d = "5.5")
  /\ Special("5.500000") = Scalar("double", "5.5")
  <1>1. /\ Lf("5.5") = "5.500000" /\ Lf("1.23456789") = "1.234568" /\ Lf("nan") = "nan"
        /\ Lf("1.234568") = "1.234568"
    BY DEF Lf
  <1>2. /\ Special("5.500000") = Scalar("double", "5.5")
        /\ Special("1.234568") = Scalar("double", "1.234568")
        /\ Special("nan") = Scalar("string", "nan")
    BY DEF Special, Atof
  <1>3. Exact = {"5.5"}
    <2>1. "5.5" \in Exact
      BY <1>1, <1>2 DEF Exact, Doubles
    <2>2. "1.23456789" \notin Exact
      BY <1>1, <1>2 DEF Exact, Scalar
    <2>3. "nan" \notin Exact
      BY <1>1, <1>2 DEF Exact, Scalar
    <2>4. Exact \subseteq {"5.5", "1.23456789", "nan"}
      BY DEF Exact, Doubles
    <2> QED
      BY <2>1, <2>2, <2>3, <2>4
  <1>4. \A d \in Numbers : Lf(d) \in Texts /\ (Lf(d) = "5.500000" => d = "5.5")
    BY <1>1 DEF Numbers, Texts
  <1> QED
    BY <1>1, <1>2, <1>3, <1>4

\* The types of a stack.
LEMMA StackFacts ==
  ASSUME NEW S, Lists(S), NEW st, IsStack(st, S)
  PROVE  /\ Len(st) \in Nat \ {0}
         /\ Last(st) = st[Len(st)]
         /\ \A d \in 1 .. Len(st) : /\ st[d] \in [list : S, np : Nat]
                                    /\ Len(st[d].list) \in Nat \ {0}
                                    /\ st[d].np \in 1 .. Len(st[d].list) + 1
         /\ AtEnd(Last(st)) <=> st[Len(st)].np = Len(st[Len(st)].list) + 1
  <1>1. st \in Seq([list : S, np : Nat]) /\ Len(st) \in Nat \ {0}
    BY LenProperties DEF IsStack
  <1>2. \A d \in 1 .. Len(st) : st[d] \in [list : S, np : Nat]
    BY <1>1, ElementOfSeq
  <1>3. \A d \in 1 .. Len(st) : Len(st[d].list) \in Nat \ {0}
    BY <1>2, ListFacts
  <1>4. Last(st) = st[Len(st)]
    BY DEF Last
  <1>5. st[Len(st)].np \in 1 .. Len(st[Len(st)].list) + 1
    BY <1>1 DEF IsStack
  <1>6. AtEnd(Last(st)) <=> st[Len(st)].np = Len(st[Len(st)].list) + 1
    BY <1>1, <1>3, <1>4, <1>5 DEF AtEnd
  <1> QED
    BY <1>1, <1>2, <1>3, <1>4, <1>6 DEF IsStack

\* The token of an item that holds a text.
LEMMA EmitFacts ==
  ASSUME NEW x \in Basic
  PROVE  x.type \notin {"array", "nil"} /\ Emit(x).tag = x.type /\ Emit(x) \in Token
  <1> DEFINE t == IF x.type = "double" THEN Lf(x.text) ELSE x.text
  <1>1. x.type \notin {"array", "nil"} /\ x.type \in Simple \ {"i4"} /\ x.text \in Texts
    BY DEF Basic, Simple
  <1>2. Emit(x) = [tag |-> x.type, text |-> t]
    BY <1>1 DEF Emit
  <1>3. t \in Texts
    BY <1>1, ExactFacts DEF Basic
  <1> QED
    BY <1>1, <1>2, <1>3 DEF Token

\* The token is parsed to the item, if six decimals carry what is in it.
LEMMA EmitParsed ==
  ASSUME NEW x \in Basic, SixDecimals(<<Emit(x)>>)
  PROVE  Item(Emit(x)) = x
  <1> DEFINE t == IF x.type = "double" THEN Lf(x.text) ELSE x.text
  <1>1. x.type \notin {"array", "nil"} /\ x.type \in Simple \ {"i4"}
        /\ x = [type |-> x.type, text |-> x.text]
    BY DEF Basic, Simple
  <1>2. Emit(x) = [tag |-> x.type, text |-> t]
    BY <1>1 DEF Emit
  <1>3. CASE x.type = "double"
    <2>1. Emit(x).tag = "double" /\ Emit(x).text = Lf(x.text)
      BY <1>2, <1>3
    <2>2. Emit(x).text = "5.500000"
      <3>1. 1 \in DOMAIN <<Emit(x)>> /\ <<Emit(x)>>[1] = Emit(x)
        OBVIOUS
      <3>2. Emit(x).text \in {Lf(e) : e \in Exact}
        BY <2>1, <3>1 DEF SixDecimals
      <3> QED
        BY <3>2, ExactFacts
    <2>3. x.text = "5.5"
      BY <1>3, <2>1, <2>2, ExactFacts DEF Basic
    <2>4. Item(Emit(x)) = Special("5.500000")
      BY <2>1, <2>2 DEF Item
    <2> QED
      BY <1>1, <1>3, <2>3, <2>4, ExactFacts DEF Scalar
  <1>4. CASE x.type # "double"
    BY <1>1, <1>2, <1>4 DEF Item, Scalar
  <1> QED
    BY <1>3, <1>4

\* The item at np and its token.
LEMMA NpFacts ==
  ASSUME NEW S, Lists(S), NEW st, IsStack(st, S), ~AtEnd(Last(st))
  PROVE  /\ st[Len(st)].np \in 1 .. Len(st[Len(st)].list)
         /\ Np(st) = st[Len(st)].list[st[Len(st)].np]
         /\ Np(st) \in Items(S)
         /\ Emit(Np(st)) \in Token
         /\ Np(st).type = "array" => Emit(Np(st)) = Open
         /\ Np(st).type = "nil" => Emit(Np(st)) = [tag |-> "nil"]
         /\ Np(st).type \notin {"array", "nil"} => /\ Np(st) \in Basic
                                                  /\ Emit(Np(st)).tag = Np(st).type
  <1>1. st[Len(st)].np \in 1 .. Len(st[Len(st)].list) /\ Np(st) = st[Len(st)].list[st[Len(st)].np]
    BY StackFacts DEF Np
  <1>2. Np(st) \in Items(S)
    BY <1>1, StackFacts, ListFacts
  <1>3. Np(st).type = "array" => Emit(Np(st)) = Open
    BY DEF Emit
  <1>4. Np(st).type = "nil" => Emit(Np(st)) = [tag |-> "nil"]
    BY DEF Emit
  <1>5. ASSUME Np(st).type \notin {"array", "nil"}
        PROVE  Np(st) \in Basic /\ Emit(Np(st)).tag = Np(st).type /\ Emit(Np(st)) \in Token
    <2>1. Np(st) \in Basic
      BY <1>2, <1>5, ItemTypes DEF Items
    <2> QED
      BY <2>1, <1>5, EmitFacts
  <1>6. Emit(Np(st)) \in Token
    BY <1>3, <1>4, <1>5 DEF Token
  <1> QED
    BY <1>1, <1>2, <1>3, <1>4, <1>5, <1>6

\* One position further.
LEMMA RestFacts ==
  ASSUME NEW S, Lists(S), NEW st, IsStack(st, S), ~AtEnd(Last(st))
  PROVE  /\ IsStack(Rest(st), S)
         /\ Len(Rest(st)) = Len(st)
         /\ \A d \in 1 .. Len(st) : Rest(st)[d].list = st[d].list
         /\ \A d \in 1 .. Len(st) - 1 : Rest(st)[d] = st[d]
         /\ Rest(st)[Len(st)].np = st[Len(st)].np + 1
  <1> DEFINE k == Len(st)
             R == [list : S, np : Nat]
             e == [st[k] EXCEPT !.np = @ + 1]
             r == Rest(st)
  <1>1. /\ k \in Nat \ {0} /\ st \in Seq(R)
        /\ \A d \in 1 .. k : st[d] \in R /\ st[d].np \in 1 .. Len(st[d].list) + 1 /\ Len(st[d].list) \in Nat \ {0}
        /\ \A d \in 1 .. k - 1 : st[d].np >= 2 /\ st[d].list[st[d].np - 1] = Array(st[d + 1].list)
    BY StackFacts DEF IsStack
  <1>2. st[k] \in R /\ st[k].np \in 1 .. Len(st[k].list)
    BY <1>1, NpFacts
  <1>3. e \in R /\ e.list = st[k].list /\ e.np = st[k].np + 1
    BY <1>2
  <1>4. r = [st EXCEPT ![k] = e]
    BY DEF Rest
  <1>5. k \in 1 .. Len(st)
    BY <1>1
  <1> HIDE DEF e, R
  <1>6. /\ r \in Seq(R) /\ Len(r) = k
        /\ \A d \in 1 .. k : r[d] = IF d = k THEN e ELSE st[d]
    BY <1>1, <1>3, <1>4, <1>5, ExceptSeq
  <1> HIDE DEF r
  <1>7. \A d \in 1 .. k : r[d].list = st[d].list
    BY <1>3, <1>6
  <1>8. \A d \in 1 .. k - 1 : r[d] = st[d]
    BY <1>1, <1>6
  <1>9. r[k] = e
    BY <1>5, <1>6
  <1>10. \A d \in 1 .. k : r[d].np \in 1 .. Len(r[d].list) + 1
    <2> SUFFICES ASSUME NEW d \in 1 .. k PROVE r[d].np \in 1 .. Len(r[d].list) + 1
      OBVIOUS
    <2>1. CASE d = k
      BY <2>1, <1>1, <1>2, <1>3, <1>9
    <2>2. CASE d # k
      BY <2>2, <1>1, <1>6
    <2> QED
      BY <2>1, <2>2
  <1>11. ASSUME NEW d \in 1 .. k - 1
         PROVE  r[d].np >= 2 /\ r[d].list[r[d].np - 1] = Array(r[d + 1].list)
    <2>1. d + 1 \in 1 .. k
      BY <1>1
    <2> QED
      BY <2>1, <1>1, <1>7, <1>8
  <1>12. IsStack(r, S)
    BY <1>1, <1>6, <1>10, <1>11 DEF IsStack, R
  <1> QED
    BY <1>3, <1>6, <1>7, <1>8, <1>9, <1>12 DEF r

\* One item further, into an array if it is one.
LEMMA AfterFacts ==
  ASSUME NEW S, Lists(S), NEW st, IsStack(st, S), ~AtEnd(Last(st))
  PROVE  /\ IsStack(After(st), S)
         /\ \A d \in 1 .. Len(st) : After(st)[d] = Rest(st)[d]
         /\ Np(st).type = "array" => /\ Len(After(st)) = Len(st) + 1
                                     /\ After(st)[Len(st) + 1] = Frame(Np(st).items)
         /\ Np(st).type # "array" => Len(After(st)) = Len(st)
  <1>1. CASE Np(st).type # "array"
    BY <1>1, RestFacts DEF After
  <1>2. CASE Np(st).type = "array"
    <2> DEFINE k == Len(st)
               R == [list : S, np : Nat]
               r == Rest(st)
               f == Frame(Np(st).items)
               a == After(st)
    <2>1. a = Append(r, f)
      BY <1>2 DEF After
    <2>2. Np(st).items \in S /\ Np(st) = Array(Np(st).items)
      BY <1>2, NpFacts, ItemTypes
    <2>3. f \in R /\ f.np = 1 /\ f.list = Np(st).items
      BY <2>2 DEF Frame
    <2>4. Len(f.list) \in Nat \ {0}
      BY <2>2, <2>3, ListFacts
    <2>5. /\ IsStack(r, S) /\ Len(r) = k /\ k \in Nat \ {0}
           /\ r[k].np = st[k].np + 1 /\ r[k].list = st[k].list
      <3>1. k \in Nat \ {0} /\ k \in 1 .. k
        BY StackFacts
      <3> HIDE DEF r
      <3> QED
        BY <3>1, RestFacts DEF r
    <2> HIDE DEF r
    <2>6. /\ k \in Nat \ {0} /\ Len(r) = k /\ r \in Seq(R)
          /\ \A d \in 1 .. k : r[d].np \in 1 .. Len(r[d].list) + 1
          /\ \A d \in 1 .. k - 1 : r[d].np >= 2 /\ r[d].list[r[d].np - 1] = Array(r[d + 1].list)
      BY <2>5 DEF IsStack
    <2>7. r[k].np - 1 = st[k].np /\ st[k].np \in Nat \ {0} /\ r[k].np = st[k].np + 1 /\ r[k].list = st[k].list
      <3>1. st[k].np \in 1 .. Len(st[k].list) /\ Len(st[k].list) \in Nat
        <4>1. k \in 1 .. k
          BY <2>5
        <4> QED
          BY <4>1, NpFacts, StackFacts
      <3> QED
        BY <3>1, <2>5
    <2>8. Np(st) = st[k].list[st[k].np]
      BY NpFacts
    <2> HIDE DEF r, f, R, a
    <2>9. /\ a \in Seq(R)
          /\ Len(a) = k + 1
          /\ \A d \in 1 .. k : a[d] = r[d]
          /\ a[k + 1] = f
      BY <2>1, <2>3, <2>6, AppendProperties
    <2>10. ASSUME NEW d \in 1 .. k + 1 PROVE a[d].np \in 1 .. Len(a[d].list) + 1
      <3>1. CASE d = k + 1
        BY <3>1, <2>3, <2>4, <2>9
      <3>2. CASE d # k + 1
        BY <3>2, <2>6, <2>9
      <3> QED
        BY <3>1, <3>2
    <2>11. ASSUME NEW d \in 1 .. k
           PROVE  a[d].np >= 2 /\ a[d].list[a[d].np - 1] = Array(a[d + 1].list)
      <3>1. CASE d = k
        BY <3>1, <2>2, <2>3, <2>6, <2>7, <2>8, <2>9
      <3>2. CASE d # k
        <4>1. d \in 1 .. k - 1 /\ d + 1 \in 1 .. k
          BY <3>2, <2>6
        <4> QED
          BY <4>1, <2>6, <2>9
      <3> QED
        BY <3>1, <3>2
    <2>12. IsStack(a, S)
      <3>1. Len(a) >= 1 /\ Len(a) - 1 = k
        BY <2>6, <2>9
      <3> QED
        BY <3>1, <2>9, <2>10, <2>11 DEF IsStack, R
    <2> QED
      BY <1>2, <2>9, <2>12 DEF a, r, f
  <1> QED
    BY <1>1, <1>2

\* Out of an array.
LEMMA FrontFacts ==
  ASSUME NEW S, Lists(S), NEW st, IsStack(st, S), Len(st) > 1
  PROVE  /\ IsStack(Front(st), S)
         /\ Len(Front(st)) = Len(st) - 1
         /\ \A d \in 1 .. Len(st) - 1 : Front(st)[d] = st[d]
  <1> DEFINE k == Len(st)
             R == [list : S, np : Nat]
             a == Front(st)
  <1>1. /\ k \in Nat \ {0} /\ st \in Seq(R)
        /\ \A d \in 1 .. k : st[d] \in R /\ st[d].np \in 1 .. Len(st[d].list) + 1
        /\ \A d \in 1 .. k - 1 : st[d].np >= 2 /\ st[d].list[st[d].np - 1] = Array(st[d + 1].list)
    BY StackFacts DEF IsStack
  <1>2. a = SubSeq(st, 1, k - 1)
    BY DEF Front
  <1>3. k - 1 \in Int /\ 1 <= k - 1 /\ \A i \in 1 .. k - 1 : st[i] \in R
    BY <1>1
  <1> HIDE DEF a, R
  <1>4. a \in Seq(R) /\ Len(a) = k - 1 /\ \A d \in 1 .. k - 1 : a[d] = st[d]
    BY <1>2, <1>3, SubSeqProperties
  <1>5. ASSUME NEW d \in 1 .. (k - 1) - 1
        PROVE  a[d].np >= 2 /\ a[d].list[a[d].np - 1] = Array(a[d + 1].list)
    <2>1. d \in 1 .. k - 1 /\ d + 1 \in 1 .. k - 1
      BY <1>1
    <2> QED
      BY <2>1, <1>1, <1>4
  <1>6. \A d \in 1 .. k - 1 : a[d].np \in 1 .. Len(a[d].list) + 1
    BY <1>1, <1>4
  <1>7. IsStack(a, S)
    BY <1>3, <1>4, <1>5, <1>6 DEF IsStack, R
  <1> QED
    BY <1>4, <1>7 DEF a

-----------------------------------------------------------------------------
(* The stack of parse_rpc_value.                                           *)

\* The lists being parsed once all that was printed up to st is read.  An array
\* that is not finished is not yet an item of the list around it.
Upto(st) ==
  [d \in 1 .. Len(st) |->
     Prefix(st[d].list, IF d = Len(st) THEN st[d].np - 1 ELSE st[d].np - 2)]

ListPrefixes(S) == {Prefix(l, c) : l \in S, c \in Nat}

\* The types of that.
LEMMA UptoFacts ==
  ASSUME NEW S, Lists(S), NEW st, IsStack(st, S)
  PROVE  /\ Upto(st) \in Seq(ListPrefixes(S))
         /\ Len(Upto(st)) = Len(st)
         /\ \A d \in 1 .. Len(st) - 1 : Upto(st)[d] = Prefix(st[d].list, st[d].np - 2)
         /\ Upto(st)[Len(st)] = Prefix(st[Len(st)].list, st[Len(st)].np - 1)
  <1> DEFINE k == Len(st)
             u == Upto(st)
  <1>1. k \in Nat \ {0} /\ k \in 1 .. k
    BY StackFacts
  <1>2. ASSUME NEW d \in 1 .. k - 1
        PROVE  u[d] = Prefix(st[d].list, st[d].np - 2) /\ u[d] \in ListPrefixes(S)
    <2>1. d \in 1 .. k /\ d # k
      BY <1>1
    <2>2. u[d] = Prefix(st[d].list, st[d].np - 2)
      BY <2>1 DEF Upto
    <2>3. st[d].np >= 2 /\ st[d].np \in Nat
      BY <2>1, StackFacts DEF IsStack
    <2>4. st[d].list \in S /\ st[d].np - 2 \in Nat
      BY <2>1, <2>3, StackFacts
    <2> QED
      BY <2>2, <2>4 DEF ListPrefixes
  <1>3. u[k] = Prefix(st[k].list, st[k].np - 1) /\ u[k] \in ListPrefixes(S)
    <2>1. u[k] = Prefix(st[k].list, st[k].np - 1)
      BY <1>1 DEF Upto
    <2>2. st[k].list \in S /\ st[k].np - 1 \in Nat
      BY <1>1, StackFacts
    <2> QED
      BY <2>1, <2>2 DEF ListPrefixes
  <1>4. DOMAIN u = 1 .. k /\ u = [d \in 1 .. k |-> u[d]]
    BY DEF Upto
  <1> HIDE DEF u
  <1>5. \A d \in 1 .. k : u[d] \in ListPrefixes(S)
    BY <1>1, <1>2, <1>3
  <1>6. u \in [1 .. k -> ListPrefixes(S)]
    BY <1>4, <1>5
  <1>7. u \in Seq(ListPrefixes(S))
    BY <1>1, <1>6, SeqDef
  <1>8. Len(u) = k
    BY <1>1, <1>4, <1>7, LenProperties
  <1> QED
    BY <1>2, <1>3, <1>7, <1>8 DEF u

\* PutInto changes the innermost list.
LEMMA PutIntoFacts ==
  ASSUME NEW T, NEW u \in Seq(T), Len(u) # 0, NEW x, ListPut(u[Len(u)], x) \in T
  PROVE  /\ PutInto(u, x) \in Seq(T)
         /\ Len(PutInto(u, x)) = Len(u)
         /\ \A d \in 1 .. Len(u) :
              PutInto(u, x)[d] = IF d = Len(u) THEN ListPut(u[Len(u)], x) ELSE u[d]
  <1>1. Len(u) \in Nat
    BY LenProperties
  <1>2. Len(u) \in 1 .. Len(u)
    BY <1>1
  <1>3. PutInto(u, x) = [u EXCEPT ![Len(u)] = ListPut(u[Len(u)], x)]
    BY DEF PutInto
  <1> QED
    BY <1>2, <1>3, ExceptSeq

\* Reading the token of an item that is no array.
LEMMA UptoItem ==
  ASSUME NEW S, Lists(S), NEW st, IsStack(st, S), ~AtEnd(Last(st)),
         Np(st).type \notin {"array", "nil"}
  PROVE  Upto(After(st)) = PutInto(Upto(st), Np(st))
  <1> DEFINE k == Len(st)
             l == st[k].list
             c == st[k].np - 1
             T == ListPrefixes(S)
             a == After(st)
             p == PutInto(Upto(st), Np(st))
  <1>1. k \in Nat \ {0} /\ k \in 1 .. k
    BY StackFacts
  <1>2. l \in S /\ c \in 0 .. Len(l) - 1 /\ l[c + 1] = Np(st) /\ c + 1 \in Nat
    BY <1>1, StackFacts, NpFacts
  <1>3. ListPut(Prefix(l, c), Np(st)) = Prefix(l, c + 1)
    <2>1. Np(st) # Nil
      BY DEF Nil
    <2> HIDE DEF l, c
    <2> QED
      BY <1>2, <2>1, PutPrefix
  <1>4. /\ Upto(st) \in Seq(T) /\ Len(Upto(st)) = k
        /\ Upto(st)[k] = Prefix(l, c)
        /\ \A d \in 1 .. k - 1 : Upto(st)[d] = Prefix(st[d].list, st[d].np - 2)
    BY UptoFacts
  <1>5. Prefix(l, c + 1) \in T
    BY <1>2 DEF ListPrefixes
  <1>6. /\ p \in Seq(T) /\ Len(p) = k /\ p[k] = Prefix(l, c + 1)
        /\ \A d \in 1 .. k - 1 : p[d] = Prefix(st[d].list, st[d].np - 2)
    <2>1. \A d \in 1 .. k : p[d] = IF d = k THEN ListPut(Upto(st)[k], Np(st)) ELSE Upto(st)[d]
      BY <1>1, <1>3, <1>4, <1>5, PutIntoFacts
    <2>2. p \in Seq(T) /\ Len(p) = k
      BY <1>1, <1>3, <1>4, <1>5, PutIntoFacts
    <2> HIDE DEF p
    <2> QED
      BY <1>1, <1>3, <1>4, <2>1, <2>2
  <1>7. /\ IsStack(a, S) /\ Len(a) = k
        /\ a[k].list = l /\ a[k].np = c + 2
        /\ \A d \in 1 .. k - 1 : a[d] = st[d]
    <2>1. /\ IsStack(a, S) /\ Len(a) = k
          /\ \A d \in 1 .. k : a[d] = Rest(st)[d]
      BY AfterFacts
    <2>2. st[k].np \in Nat
      BY <1>1, StackFacts
    <2> HIDE DEF a
    <2> QED
      BY <1>1, <2>1, <2>2, RestFacts
  <1> HIDE DEF a, p, c, l
  <1>8. /\ Upto(a) \in Seq(T) /\ Len(Upto(a)) = k
        /\ Upto(a)[k] = Prefix(l, (c + 2) - 1)
        /\ \A d \in 1 .. k - 1 : Upto(a)[d] = Prefix(st[d].list, st[d].np - 2)
    BY <1>7, UptoFacts
  <1>9. Upto(a)[k] = Prefix(l, c + 1)
    <2>1. (c + 2) - 1 = c + 1
      BY <1>2
    <2> QED
      BY <2>1, <1>8
  <1>10. \A d \in 1 .. k : Upto(a)[d] = p[d]
    BY <1>1, <1>6, <1>8, <1>9
  <1> QED
    BY <1>6, <1>8, <1>10, SeqEqual DEF a, p

\* Reading the token of the item of list_init.
LEMMA UptoNil ==
  ASSUME NEW S, Lists(S), NEW st, IsStack(st, S), ~AtEnd(Last(st)), Np(st) = Nil
  PROVE  Upto(After(st)) = Upto(st)
  <1> DEFINE k == Len(st)
             l == st[k].list
             c == st[k].np - 1
             T == ListPrefixes(S)
             a == After(st)
  <1>1. k \in Nat \ {0} /\ k \in 1 .. k
    BY StackFacts
  <1>2. l \in S /\ c \in 0 .. Len(l) - 1 /\ l[c + 1] = Np(st) /\ c + 1 \in Nat
    BY <1>1, StackFacts, NpFacts
  <1>3. Prefix(l, c) = Prefix(l, c + 1)
    <2> HIDE DEF l, c
    <2> QED
      BY <1>2, NilPrefix
  <1>4. /\ Upto(st) \in Seq(T) /\ Len(Upto(st)) = k
        /\ Upto(st)[k] = Prefix(l, c)
        /\ \A d \in 1 .. k - 1 : Upto(st)[d] = Prefix(st[d].list, st[d].np - 2)
    BY UptoFacts
  <1>5. /\ IsStack(a, S) /\ Len(a) = k
        /\ a[k].list = l /\ a[k].np = c + 2
        /\ \A d \in 1 .. k - 1 : a[d] = st[d]
    <2>1. /\ IsStack(a, S) /\ Len(a) = k
          /\ \A d \in 1 .. k : a[d] = Rest(st)[d]
      BY AfterFacts DEF Nil
    <2>2. st[k].np \in Nat
      BY <1>1, StackFacts
    <2> HIDE DEF a
    <2> QED
      BY <1>1, <2>1, <2>2, RestFacts
  <1> HIDE DEF a, c, l
  <1>6. /\ Upto(a) \in Seq(T) /\ Len(Upto(a)) = k
        /\ Upto(a)[k] = Prefix(l, (c + 2) - 1)
        /\ \A d \in 1 .. k - 1 : Upto(a)[d] = Prefix(st[d].list, st[d].np - 2)
    BY <1>5, UptoFacts
  <1>7. Upto(a)[k] = Prefix(l, c)
    <2>1. (c + 2) - 1 = c + 1
      BY <1>2
    <2> QED
      BY <2>1, <1>3, <1>6
  <1>8. \A d \in 1 .. k : Upto(a)[d] = Upto(st)[d]
    BY <1>1, <1>4, <1>6, <1>7
  <1> QED
    BY <1>4, <1>6, <1>8, SeqEqual DEF a

\* Reading the begin of an array.
LEMMA UptoOpen ==
  ASSUME NEW S, Lists(S), NEW st, IsStack(st, S), ~AtEnd(Last(st)), Np(st).type = "array"
  PROVE  Upto(After(st)) = Append(Upto(st), ListInit)
  <1> DEFINE k == Len(st)
             l == st[k].list
             c == st[k].np - 1
             T == ListPrefixes(S)
             a == After(st)
             p == Append(Upto(st), ListInit)
  <1>1. k \in Nat \ {0} /\ k \in 1 .. k
    BY StackFacts
  <1>2. l \in S /\ c \in 0 .. Len(l) - 1
    BY <1>1, StackFacts, NpFacts
  <1>3. ListInit \in T
    <2>1. ListInit = Prefix(l, 0)
      BY DEF Prefix
    <2> QED
      BY <2>1, <1>2 DEF ListPrefixes
  <1>4. /\ Upto(st) \in Seq(T) /\ Len(Upto(st)) = k
        /\ Upto(st)[k] = Prefix(l, c)
        /\ \A d \in 1 .. k - 1 : Upto(st)[d] = Prefix(st[d].list, st[d].np - 2)
    BY UptoFacts
  <1>5. /\ p \in Seq(T) /\ Len(p) = k + 1
        /\ \A d \in 1 .. k : p[d] = Upto(st)[d]
        /\ p[k + 1] = ListInit
    BY <1>3, <1>4, AppendProperties
  <1>6. /\ IsStack(a, S) /\ Len(a) = k + 1
        /\ a[k].list = l /\ a[k].np = c + 2
        /\ a[k + 1].np = 1
        /\ \A d \in 1 .. k - 1 : a[d] = st[d]
    <2>1. /\ IsStack(a, S) /\ Len(a) = k + 1
          /\ \A d \in 1 .. k : a[d] = Rest(st)[d]
          /\ a[k + 1] = Frame(Np(st).items)
      BY AfterFacts
    <2>2. st[k].np \in Nat
      BY <1>1, StackFacts
    <2>3. Frame(Np(st).items).np = 1
      BY DEF Frame
    <2> HIDE DEF a
    <2> QED
      BY <1>1, <2>1, <2>2, <2>3, RestFacts
  <1> HIDE DEF a, c, l, p
  <1>7. /\ Upto(a) \in Seq(T) /\ Len(Upto(a)) = k + 1
        /\ Upto(a)[k + 1] = Prefix(a[k + 1].list, 1 - 1)
        /\ \A d \in 1 .. k : Upto(a)[d] = Prefix(a[d].list, a[d].np - 2)
    <2>1. (k + 1) - 1 = k
      BY <1>1
    <2> QED
      BY <1>6, <2>1, UptoFacts
  <1>8. Upto(a)[k + 1] = ListInit
    BY <1>7 DEF Prefix
  <1>9. Upto(a)[k] = Prefix(l, c)
    <2>1. (c + 2) - 2 = c
      BY <1>2
    <2> QED
      BY <2>1, <1>1, <1>6, <1>7
  <1>10. ASSUME NEW d \in 1 .. k - 1 PROVE Upto(a)[d] = p[d]
    <2>1. d \in 1 .. k
      BY <1>1
    <2> QED
      BY <2>1, <1>4, <1>5, <1>6, <1>7
  <1>11. \A d \in 1 .. k + 1 : Upto(a)[d] = p[d]
    BY <1>1, <1>4, <1>5, <1>8, <1>9, <1>10
  <1> QED
    BY <1>5, <1>7, <1>11, SeqEqual DEF a, p

\* Reading the end of an array.
LEMMA UptoClose ==
  ASSUME NEW S, Lists(S), NEW st, IsStack(st, S), AtEnd(Last(st)), Len(st) > 1
  PROVE  Upto(Front(st)) = PutInto(Front(Upto(st)), Array(Last(Upto(st))))
  <1> DEFINE k == Len(st)
             u == Upto(st)
             v == Front(u)
             j == k - 1
             l == st[j].list
             c == st[j].np - 2
             m == st[k].list
             T == ListPrefixes(S)
             a == Front(st)
             p == PutInto(v, Array(m))
  <1>1. k \in Nat /\ k > 1 /\ j \in 1 .. k /\ j \in 1 .. k - 1 /\ k \in 1 .. k /\ j + 1 = k /\ j \in Nat \ {0}
    BY StackFacts
  <1>2. /\ u \in Seq(T) /\ Len(u) = k
        /\ u[k] = Prefix(m, st[k].np - 1)
        /\ \A d \in 1 .. k - 1 : u[d] = Prefix(st[d].list, st[d].np - 2)
    BY UptoFacts
  <1>3. Last(u) = m
    <2>1. m \in S /\ st[k].np - 1 = Len(m)
      BY <1>1, StackFacts
    <2>2. u[k] = m
      BY <1>2, <2>1, FullPrefix
    <2> QED
      BY <1>2, <2>2 DEF Last
  <1>4. l \in S /\ c \in 0 .. Len(l) - 1 /\ l[c + 1] = Array(m) /\ c + 1 = st[j].np - 1
    <2>1. st[j].np >= 2 /\ st[j].list[st[j].np - 1] = Array(st[j + 1].list)
      BY <1>1 DEF IsStack
    <2>2. st[j].list \in S /\ st[j].np \in 1 .. Len(st[j].list) + 1 /\ Len(st[j].list) \in Nat
      BY <1>1, StackFacts
    <2>3. c + 1 = st[j].np - 1
      BY <2>2
    <2> QED
      BY <1>1, <2>1, <2>2, <2>3
  <1>5. ListPut(Prefix(l, c), Array(m)) = Prefix(l, c + 1)
    <2>1. Array(m) # Nil
      BY DEF Array, Nil
    <2> HIDE DEF l, c
    <2> QED
      BY <1>4, <2>1, PutPrefix
  <1>6. Prefix(l, c + 1) \in T
    <2>1. c + 1 \in Nat
      BY <1>4
    <2> QED
      BY <1>4, <2>1 DEF ListPrefixes
  <1>7. v \in Seq(T) /\ Len(v) = j /\ \A d \in 1 .. j : v[d] = u[d]
    <2>1. v = SubSeq(u, 1, j)
      BY <1>2 DEF Front
    <2>2. j \in Int /\ 1 <= j /\ \A d \in 1 .. j : u[d] \in T
      <3> HIDE DEF u
      <3> QED
        BY <1>1, <1>2, ElementOfSeq
    <2> HIDE DEF u, v
    <2> QED
      BY <2>1, <2>2, SubSeqProperties
  <1>8. /\ IsStack(a, S) /\ Len(a) = j
        /\ \A d \in 1 .. j : a[d] = st[d]
    BY FrontFacts
  <1>9. v[j] = Prefix(l, c)
    BY <1>1, <1>2, <1>7
  <1> HIDE DEF u, v, l, c, m, a
  <1>10. /\ p \in Seq(T) /\ Len(p) = j /\ p[j] = Prefix(l, c + 1)
         /\ \A d \in 1 .. j - 1 : p[d] = v[d]
    <2> HIDE DEF T, j
    <2>1. ListPut(v[Len(v)], Array(m)) = Prefix(l, c + 1) /\ Len(v) # 0
      BY <1>1, <1>5, <1>7, <1>9
    <2>2. /\ p \in Seq(T) /\ Len(p) = j
          /\ \A d \in 1 .. j : p[d] = IF d = Len(v) THEN ListPut(v[Len(v)], Array(m)) ELSE v[d]
      BY <1>6, <1>7, <2>1, PutIntoFacts
    <2> HIDE DEF p
    <2> QED
      BY <1>1, <1>7, <2>1, <2>2
  <1>11. /\ Upto(a) \in Seq(T) /\ Len(Upto(a)) = j
         /\ Upto(a)[j] = Prefix(l, c + 1)
         /\ \A d \in 1 .. j - 1 : Upto(a)[d] = Prefix(a[d].list, a[d].np - 2)
    <2>1. a[j].list = l /\ a[j].np - 1 = c + 1
      BY <1>1, <1>4, <1>8 DEF l
    <2> QED
      BY <1>8, <2>1, UptoFacts
  <1>12. ASSUME NEW d \in 1 .. j - 1 PROVE Upto(a)[d] = p[d]
    <2>1. d \in 1 .. j /\ d \in 1 .. k - 1
      BY <1>1
    <2> QED
      BY <2>1, <1>2, <1>7, <1>8, <1>10, <1>11
  <1> HIDE DEF p, j
  <1>13. \A d \in 1 .. j : Upto(a)[d] = p[d]
    BY <1>1, <1>10, <1>11, <1>12
  <1>14. Upto(a) = p
    BY <1>10, <1>11, <1>13, SeqEqual
  <1> QED
    BY <1>3, <1>14 DEF a, p, v, u

-----------------------------------------------------------------------------
(* The invariant.                                                          *)

\* PrintItem or PrintEnd prints x and makes next of the stack st.
Prints(st, x, next) ==
  \/ ~AtEnd(Last(st)) /\ x = Emit(Np(st)) /\ next = After(st)
  \/ AtEnd(Last(st)) /\ Len(st) > 1 /\ x = Close /\ next = Front(st)

\* at holds the stacks between the tokens of doc, from which own was printed.
Trace(S, at) ==
  /\ Lists(S)
  /\ at[1] = <<Frame(own)>>
  /\ \A i \in 1 .. Len(doc) + 1 : IsStack(at[i], S) /\ at[i][1].list = own
  /\ \A i \in 1 .. Len(doc) : Prints(at[i], doc[i], at[i + 1])

\* Nothing is left to print.
Done(st) == Len(st) = 1 /\ AtEnd(Last(st))

DocInv == doc \in Seq(Token) /\ read \in 0 .. Len(doc)

ListInv == \E S : Lists(S) /\ own \in S /\ inner \in S /\ into \in Seq(S)

PhaseInv ==
  /\ phase \in {"build", "print", "sent", "parse", "used"}
  /\ phase = "build" => doc = <<>> /\ kind = "own" /\ into = <<>>
  /\ phase \in {"build", "print", "sent"} => read = 0
  /\ phase = "print" => kind = "own" /\ into = <<>>

TraceInv ==
  /\ phase = "print" => \E S, at : Trace(S, at) /\ out = at[Len(doc) + 1]
  /\ phase = "sent" /\ kind = "own" => \E S, at : Trace(S, at) /\ Done(at[Len(doc) + 1])
  /\ phase = "parse" /\ kind = "own" /\ SixDecimals(doc) =>
       \E S, at : Trace(S, at) /\ Done(at[Len(doc) + 1]) /\ into = Upto(at[read + 1])

IInv == DocInv /\ ListInv /\ PhaseInv /\ TraceInv

-----------------------------------------------------------------------------
(* The steps.                                                              *)

\* The values of simple types become items that hold a text.
LEMMA TokenTypes ==
  ASSUME NEW x \in Token
  PROVE  /\ x.tag \in Simple => Item(x) \in Basic
         /\ x.tag \in {"nil", "untagged"} => x.tag \notin Simple
  <1>1. ASSUME x.tag \in Simple PROVE Item(x) \in Basic
    <2>1. x \in [tag : Simple \cup {"untagged"}, text : Texts]
      BY <1>1 DEF Token, Open, Close, Simple
    <2>2. x.text \in Texts
      BY <2>1
    <2>3. CASE x.tag = "double"
      <3>1. Item(x) = Special(x.text)
        BY <2>3 DEF Item
      <3>2. Special(x.text) \in Basic
        BY <2>2 DEF Special, Scalar, Basic, Simple, Texts, Numbers, Atof
      <3> QED
        BY <3>1, <3>2
    <2>4. CASE x.tag # "double"
      BY <1>1, <2>2, <2>4 DEF Item, Scalar, Basic, Simple
    <2> QED
      BY <2>3, <2>4
  <1> QED
    BY <1>1 DEF Simple

\* The messages of ROS nodes are documents.
LEMMA ValuesTyped ==
  ASSUME NEW v \in Seq(Token)
  PROVE  Values(v) \in Seq(Token)
  <1>1. <<Open>> \in Seq(Token) /\ <<Close>> \in Seq(Token)
    BY DEF Token
  <1>2. <<Open>> \o v \in Seq(Token)
    BY <1>1, ConcatProperties
  <1> QED
    BY <1>1, <1>2, ConcatProperties DEF Values

\* Bounded sequences are sequences.
LEMMA SeqOfFacts ==
  ASSUME NEW S, NEW T, S \subseteq T, NEW n \in Nat, NEW u \in SeqOf(S, n)
  PROVE  u \in Seq(T)
  <1>1. PICK m \in 0 .. n : u \in [1 .. m -> S]
    BY DEF SeqOf
  <1> QED
    BY <1>1

\* The same for whole messages.
LEMMA RosDocsTyped ==
  ASSUME NEW k \in Kinds, NEW d \in RosDocs(k)
  PROVE  d \in Seq(Token)
  <1>1. \A t \in Simple \cup {"untagged"}, s \in Texts : [tag |-> t, text |-> s] \in Token
    BY DEF Token
  <1>2. ASSUME NEW s \in Texts PROVE Text(s) \subseteq Token
    <2>1. "string" \in Simple \cup {"untagged"} /\ "untagged" \in Simple \cup {"untagged"} /\ "" \in Texts
      BY DEF Simple, Texts
    <2> QED
      BY <2>1, <1>1 DEF Text
  <1>3. /\ Text("caller") \subseteq Token /\ Text("topic") \subseteq Token
        /\ Text("uri") \subseteq Token /\ Text("next") \subseteq Token
        /\ Text("TCPROS") \subseteq Token
        /\ Text("status") \subseteq Token
    <2>1. {"caller", "topic", "uri", "next", "TCPROS", "status"} \subseteq Texts
      BY DEF Texts
    <2> QED
      BY <2>1, <1>2
  <1>4. Number \subseteq Token
    <2>1. {"int", "i4"} \subseteq Simple \cup {"untagged"} /\ "7" \in Texts
      BY DEF Simple, Texts
    <2> QED
      BY <2>1, <1>1 DEF Number
  <1>5. \A a, b \in Token : <<a, b>> \in Seq(Token)
    OBVIOUS
  <1>6. \A a, b, c \in Token : <<a, b, c>> \in Seq(Token)
    OBVIOUS
  <1>7. \A a \in Token : <<a>> \in Seq(Token)
    OBVIOUS
  <1>8. \A u \in Uris : u \in Seq(Token)
    <2>1. Text("uri") \cup Text("next") \subseteq Token
      BY <1>3
    <2> QED
      BY <2>1, SeqOfFacts, RpcAssumption DEF Uris
  <1>9. ASSUME NEW a \in Token, NEW b \in Token, NEW v \in Seq(Token)
        PROVE  Call(a, b, v) \in Seq(Token) /\ Reply(a, b, v) \in Seq(Token)
    <2>1. <<a, b>> \in Seq(Token)
      BY <1>5
    <2> HIDE DEF Values
    <2>2. <<a, b>> \o Values(v) \in Seq(Token) /\ <<a, b>> \o v \in Seq(Token)
      BY <2>1, ValuesTyped, ConcatProperties
    <2> QED
      BY <2>2, ValuesTyped DEF Call, Reply
  <1>10. CASE k = "publisherUpdate"
    <2>1. PICK a \in Text("caller"), b \in Text("topic"), u \in Uris : d = Call(a, b, u)
      BY <1>10 DEF RosDocs
    <2> QED
      BY <2>1, <1>3, <1>8, <1>9
  <1>11. CASE k = "requestTopic"
    <2>1. PICK a \in Text("caller"), b \in Text("topic"), p \in Protocols : d = Call(a, b, p)
      BY <1>11 DEF RosDocs
    <2>2. p \in Seq(Token)
      BY <1>3, <1>7, ValuesTyped DEF Protocols
    <2> QED
      BY <2>1, <2>2, <1>3, <1>9
  <1>12. CASE k = "registerReply"
    <2>1. PICK c \in Number, m \in Text("status"), u \in Uris : d = Reply(c, m, Values(u))
      BY <1>12 DEF RosDocs
    <2>2. Values(u) \in Seq(Token)
      BY <1>8, ValuesTyped
    <2> QED
      BY <2>1, <2>2, <1>3, <1>4, <1>9
  <1>13. CASE k = "topicReply"
    <2>1. ASSUME NEW c \in Number, NEW m \in Text("status"), NEW t \in Text("TCPROS"),
                 NEW u \in Text("uri"), NEW p \in Number, d = Reply(c, m, Values(<<t, u, p>>))
          PROVE  d \in Seq(Token)
      <3>1. Values(<<t, u, p>>) \in Seq(Token)
        BY <1>3, <1>4, <1>6, ValuesTyped
      <3> QED
        BY <2>1, <3>1, <1>3, <1>4, <1>9
    <2>2. ASSUME NEW c \in Number, NEW m \in Text("status"), NEW p \in Number, d = Reply(c, m, <<p>>)
          PROVE  d \in Seq(Token)
      BY <2>2, <1>3, <1>4, <1>7, <1>9
    <2>3. \/ \E c \in Number, m \in Text("status"), t \in Text("TCPROS"), u \in Text("uri"), p \in Number :
               d = Reply(c, m, Values(<<t, u, p>>))
          \/ \E c \in Number, m \in Text("status"), p \in Number : d = Reply(c, m, <<p>>)
      BY <1>13 DEF RosDocs
    <2> QED
      BY <2>1, <2>2, <2>3
  <1> QED
    BY <1>10, <1>11, <1>12, <1>13 DEF Kinds

\* With no list there is none to put into.
LEMMA PutIntoEmpty ==
  ASSUME NEW x
  PROVE  PutInto(<<>>, x) = <<>>
  BY DEF PutInto

\* What the caller puts into its lists holds a text.
LEMMA ScalarsTyped == Scalars \subseteq Basic
  <1>1. \A t \in Simple \ {"i4", "double"}, s \in Texts : Scalar(t, s) \in Basic
    BY DEF Scalar, Basic
  <1>2. \A d \in Doubles : Scalar("double", d) \in Basic
    BY DEF Scalar, Basic, Simple, Texts, Doubles, Numbers
  <1>3. /\ {"int", "boolean", "string", "dateTime.iso8601", "base64"} \subseteq Simple \ {"i4", "double"}
        /\ {"7", "1", "s", "", "a<b", "d", "b"} \subseteq Texts
    BY DEF Simple, Texts
  <1> QED
    BY <1>1, <1>2, <1>3 DEF Scalars

\* The node begins with two empty lists.
LEMMA InitInv == Init => IInv
  <1> SUFFICES ASSUME Init PROVE IInv
    OBVIOUS
  <1>1. DocInv
    BY EmptySeq DEF Init, DocInv
  <1>2. ListInv
    <2> DEFINE S == {ListInit}
    <2>1. Lists(S)
      <3>1. ListInit \in Seq(Items(S))
        BY DEF ListInit, Items
      <3>2. ListInit # <<>>
        BY DEF ListInit
      <3> QED
        BY <3>1, <3>2 DEF Lists
    <2>2. <<>> \in Seq(S)
      BY EmptySeq
    <2> QED
      BY <2>1, <2>2 DEF Init, ListInv
  <1>3. PhaseInv /\ TraceInv
    BY DEF Init, PhaseInv, TraceInv
  <1> QED
    BY <1>1, <1>2, <1>3 DEF IInv

\* list_init makes a list.
LEMMA InitLists ==
  ASSUME NEW S, Lists(S)
  PROVE  Lists(S \cup {ListInit})
  <1> DEFINE T == S \cup {ListInit}
  <1>1. ListInit \in Seq(Items(T)) /\ ListInit # <<>>
    BY DEF ListInit, Items
  <1>2. Items(S) \subseteq Items(T)
    BY DEF Items
  <1>3. ASSUME NEW l \in S
        PROVE  l \in Seq(Items(T)) /\ l # <<>> /\ ((\E i \in DOMAIN l : l[i] = Nil) => l = ListInit)
    <2>1. l \in Seq(Items(S)) /\ l # <<>> /\ ((\E i \in DOMAIN l : l[i] = Nil) => l = ListInit)
      BY <1>3 DEF Lists
    <2> QED
      BY <2>1, <1>2, SeqMonotonic
  <1> QED
    BY <1>1, <1>3 DEF Lists

\* A step of the caller need only leave lists.
LEMMA BuildStep ==
  ASSUME IInv, Build, NEW S, Lists(S), own' \in S, inner' \in S
  PROVE  IInv'
  <1>1. phase = "build" /\ phase' = "build" /\ doc' = doc /\ read' = read /\ into' = into /\ kind' = kind
    BY DEF Build, sendVars, parseVars
  <1>2. into = <<>>
    BY <1>1 DEF IInv, PhaseInv
  <1>3. DocInv'
    BY <1>1 DEF IInv, DocInv
  <1>4. ListInv'
    <2>1. into' \in Seq(S)
      BY <1>1, <1>2, EmptySeq
    <2> QED
      BY <2>1 DEF ListInv
  <1>5. PhaseInv' /\ TraceInv'
    BY <1>1 DEF IInv, PhaseInv, TraceInv
  <1> QED
    BY <1>3, <1>4, <1>5 DEF IInv

\* Put.
LEMMA PutInv ==
  ASSUME IInv, NEW item \in Scalars, Put(item)
  PROVE  IInv'
  <1>1. PICK S : Lists(S) /\ own \in S /\ inner \in S
    BY DEF IInv, ListInv
  <1>2. item \in Items(S) /\ item # Nil
    BY ScalarsTyped DEF Items, Basic, Nil, Simple
  <1>3. CASE own' = ListPut(own, item) /\ inner' = inner
    <2>1. Lists(S \cup {own'})
      BY <1>1, <1>2, <1>3, PutFacts
    <2> QED
      BY <2>1, <1>1, <1>3, BuildStep DEF Put
  <1>4. CASE inner' = ListPut(inner, item) /\ own' = own
    <2>1. Lists(S \cup {inner'})
      BY <1>1, <1>2, <1>4, PutFacts
    <2> QED
      BY <2>1, <1>1, <1>4, BuildStep DEF Put
  <1> QED
    BY <1>3, <1>4 DEF Put

\* PutArray.
LEMMA PutArrayInv ==
  ASSUME IInv, PutArray
  PROVE  IInv'
  <1>1. PICK S : Lists(S) /\ own \in S /\ inner \in S
    BY DEF IInv, ListInv
  <1>2. /\ Array(inner) \in Items(S) /\ Array(inner) # Nil
        /\ Array(own) \in Items(S) /\ Array(own) # Nil
    BY <1>1 DEF Items, Array, Nil
  <1>3. own' = ListPut(own, Array(inner)) \/ own' = ListPut(inner, Array(own))
    BY DEF PutArray
  <1>4. Lists(S \cup {own'})
    BY <1>1, <1>2, <1>3, PutFacts
  <1>5. Lists((S \cup {own'}) \cup {ListInit})
    BY <1>4, InitLists
  <1>6. inner' = ListInit /\ Build
    BY DEF PutArray
  <1> QED
    BY <1>5, <1>6, BuildStep

\* RemoveItem.
LEMMA RemoveInv ==
  ASSUME IInv, NEW i \in 0 .. MaxPuts, RemoveItem(i)
  PROVE  IInv'
  <1>1. PICK S : Lists(S) /\ own \in S /\ inner \in S
    BY DEF IInv, ListInv
  <1>2. own' = ListRemove(own, i) /\ inner' = inner /\ Build
    BY DEF RemoveItem
  <1>3. Lists(S \cup {own'})
    BY <1>1, <1>2, RemoveFacts, RpcAssumption
  <1> QED
    BY <1>1, <1>2, <1>3, BuildStep

\* The stack with which printing begins.
LEMMA FirstStack ==
  ASSUME NEW S, Lists(S), NEW l \in S
  PROVE  /\ IsStack(<<Frame(l)>>, S)
         /\ <<Frame(l)>>[1].list = l
         /\ Upto(<<Frame(l)>>) = <<ListInit>>
  <1> DEFINE f == Frame(l)
  <1>1. f \in [list : S, np : Nat] /\ f.list = l /\ f.np = 1
    BY DEF Frame
  <1>2. Len(l) \in Nat
    BY ListFacts
  <1> HIDE DEF f
  <1>3. <<f>> \in Seq([list : S, np : Nat]) /\ Len(<<f>>) = 1 /\ <<f>>[1] = f
    BY <1>1
  <1>4. IsStack(<<f>>, S)
    BY <1>1, <1>2, <1>3 DEF IsStack
  <1>5. Upto(<<f>>)[1] = ListInit /\ Len(Upto(<<f>>)) = 1 /\ Upto(<<f>>) \in Seq(ListPrefixes(S))
    <2>1. Upto(<<f>>)[1] = Prefix(f.list, f.np - 1)
      BY <1>3, <1>4, UptoFacts
    <2> QED
      BY <2>1, <1>1, <1>3, <1>4, UptoFacts DEF Prefix
  <1>6. Upto(<<f>>) = <<ListInit>>
    BY <1>5
  <1> QED
    BY <1>1, <1>3, <1>4, <1>6 DEF f

\* Send: nothing is printed.
LEMMA SendInv ==
  ASSUME IInv, Send
  PROVE  IInv'
  <1>1. /\ phase = "build" /\ phase' = "print" /\ out' = <<Frame(own)>> /\ doc' = doc
        /\ own' = own /\ inner' = inner /\ kind' = kind /\ read' = read /\ into' = into
    BY DEF Send, buildVars, parseVars
  <1>2. doc = <<>> /\ kind = "own" /\ into = <<>> /\ read = 0
    BY <1>1 DEF IInv, PhaseInv
  <1>3. DocInv' /\ ListInv' /\ PhaseInv'
    BY <1>1, <1>2 DEF IInv, DocInv, ListInv, PhaseInv
  <1>4. PICK S : Lists(S) /\ own \in S
    BY DEF IInv, ListInv
  <1>5. PICK at : at = <<out'>>
    OBVIOUS
  <1>6. Len(doc') = 0
    BY <1>1, <1>2
  <1>7. Trace(S, at)'
    BY <1>1, <1>4, <1>5, <1>6, FirstStack DEF Trace
  <1>8. out' = at[Len(doc') + 1]
    BY <1>5, <1>6
  <1>9. TraceInv'
    BY <1>1, <1>7, <1>8 DEF TraceInv
  <1> QED
    BY <1>3, <1>9 DEF IInv

\* One more token and stack.
LEMMA ExtendTrace ==
  ASSUME NEW S, NEW at, Trace(S, at), DocInv, own' = own, read' = read,
         NEW x \in Token, doc' = Append(doc, x),
         NEW next, Prints(at[Len(doc) + 1], x, next), IsStack(next, S), next[1].list = own
  PROVE  /\ DocInv'
         /\ \E more : Trace(S, more)' /\ more[Len(doc') + 1] = next
  <1> DEFINE N == Len(doc)
  <1>1. /\ N \in Nat /\ doc \in Seq(Token)
        /\ doc' \in Seq(Token) /\ Len(doc') = N + 1
        /\ \A i \in 1 .. N : doc'[i] = doc[i]
        /\ doc'[N + 1] = x
    BY AppendProperties, LenProperties DEF DocInv
  <1>2. DocInv'
    BY <1>1 DEF DocInv
  <1>3. PICK more : more = [i \in 1 .. N + 2 |-> IF i = N + 2 THEN next ELSE at[i]]
    OBVIOUS
  <1>4. /\ \A i \in 1 .. N + 1 : more[i] = at[i]
        /\ more[N + 2] = next
    BY <1>1, <1>3
  <1>5. ASSUME NEW i \in 1 .. N + 2 PROVE IsStack(more[i], S) /\ more[i][1].list = own
    <2>1. CASE i = N + 2
      BY <2>1, <1>4
    <2>2. CASE i # N + 2
      BY <2>2, <1>1, <1>4 DEF Trace
    <2> QED
      BY <2>1, <2>2
  <1>6. ASSUME NEW i \in 1 .. N + 1 PROVE Prints(more[i], doc'[i], more[i + 1])
    <2>1. CASE i = N + 1
      <3>1. more[i] = at[N + 1] /\ i + 1 = N + 2 /\ doc'[i] = x
        BY <2>1, <1>1, <1>4
      <3> QED
        BY <3>1, <1>4
    <2>2. CASE i # N + 1
      <3>1. i \in 1 .. N /\ i + 1 \in 1 .. N + 1
        BY <2>2, <1>1
      <3>2. Prints(at[i], doc[i], at[i + 1])
        BY <3>1 DEF Trace
      <3> QED
        BY <3>1, <3>2, <1>1, <1>4
    <2> QED
      BY <2>1, <2>2
  <1>7. more[1] = <<Frame(own)>>
    BY <1>1, <1>4 DEF Trace
  <1>8. Trace(S, more)'
    <2>1. Len(doc') + 1 = N + 2
      BY <1>1
    <2> QED
      BY <2>1, <1>1, <1>5, <1>6, <1>7 DEF Trace
  <1> QED
    BY <1>1, <1>2, <1>4, <1>8

\* A step that leaves the list, the document and what is parsed alone.
LEMMA KeepTrace ==
  ASSUME NEW S, NEW at, Trace(S, at), own' = own, doc' = doc
  PROVE  Trace(S, at)'
  BY DEF Trace

\* PrintItem: the trace is one stack longer.
LEMMA PrintItemInv ==
  ASSUME IInv, PrintItem
  PROVE  IInv'
  <1>1. /\ phase = "print" /\ phase' = "print" /\ ~AtEnd(Last(out))
        /\ doc' = Append(doc, Emit(Np(out))) /\ out' = After(out)
        /\ own' = own /\ inner' = inner /\ kind' = kind /\ read' = read /\ into' = into
    BY DEF PrintItem, Printing, buildVars, parseVars, After
  <1>2. PICK S, at : Trace(S, at) /\ out = at[Len(doc) + 1]
    BY <1>1 DEF IInv, TraceInv
  <1>3. DocInv /\ Lists(S) /\ IsStack(out, S) /\ out[1].list = own
    <2>1. Len(doc) + 1 \in 1 .. Len(doc) + 1
      BY LenProperties DEF IInv, DocInv
    <2> QED
      BY <1>2, <2>1 DEF IInv, Trace
  <1>4. Emit(Np(out)) \in Token
    BY <1>1, <1>3, NpFacts
  <1>5. IsStack(out', S) /\ out'[1].list = own
    <2>1. 1 \in 1 .. Len(out)
      BY <1>3, StackFacts
    <2> QED
      BY <2>1, <1>1, <1>3, AfterFacts, RestFacts
  <1>6. Prints(out, Emit(Np(out)), out')
    BY <1>1 DEF Prints
  <1>7. DocInv' /\ \E more : Trace(S, more)' /\ more[Len(doc') + 1] = out'
    BY <1>1, <1>2, <1>3, <1>4, <1>5, <1>6, ExtendTrace
  <1>8. ListInv' /\ PhaseInv'
    BY <1>1 DEF IInv, ListInv, PhaseInv
  <1>9. TraceInv'
    BY <1>1, <1>7 DEF TraceInv
  <1> QED
    BY <1>7, <1>8, <1>9 DEF IInv

\* PrintEnd: so it is, or it is complete.
LEMMA PrintEndInv ==
  ASSUME IInv, PrintEnd
  PROVE  IInv'
  <1>1. /\ phase = "print" /\ AtEnd(Last(out)) /\ out' = Front(out)
        /\ own' = own /\ inner' = inner /\ kind' = kind /\ read' = read /\ into' = into
    BY DEF PrintEnd, Printing, buildVars, parseVars
  <1>2. PICK S, at : Trace(S, at) /\ out = at[Len(doc) + 1]
    BY <1>1 DEF IInv, TraceInv
  <1>3. DocInv /\ Lists(S) /\ IsStack(out, S) /\ out[1].list = own
    <2>1. Len(doc) + 1 \in 1 .. Len(doc) + 1
      BY LenProperties DEF IInv, DocInv
    <2> QED
      BY <1>2, <2>1 DEF IInv, Trace
  <1>4. kind = "own" /\ read = 0
    BY <1>1 DEF IInv, PhaseInv
  <1>5. CASE Len(out) > 1
    <2>1. doc' = Append(doc, Close) /\ phase' = "print"
      BY <1>1, <1>5 DEF PrintEnd
    <2>2. IsStack(out', S) /\ out'[1].list = own
      <3>1. 1 \in 1 .. Len(out) - 1
        BY <1>3, <1>5, StackFacts
      <3> QED
        BY <3>1, <1>1, <1>3, <1>5, FrontFacts
    <2>3. Prints(out, Close, out') /\ Close \in Token
      BY <1>1, <1>5 DEF Prints, Token
    <2>4. DocInv' /\ \E more : Trace(S, more)' /\ more[Len(doc') + 1] = out'
      BY <1>1, <1>2, <1>3, <2>1, <2>2, <2>3, ExtendTrace
    <2>5. ListInv' /\ PhaseInv'
      BY <1>1, <2>1 DEF IInv, ListInv, PhaseInv
    <2>6. TraceInv'
      BY <2>1, <2>4 DEF TraceInv
    <2> QED
      BY <2>4, <2>5, <2>6 DEF IInv
  <1>6. CASE ~(Len(out) > 1)
    <2>1. doc' = doc /\ phase' = "sent"
      BY <1>1, <1>6 DEF PrintEnd
    <2>2. Done(at[Len(doc') + 1])
      <3>1. Len(out) \in Nat \ {0}
        BY <1>3, StackFacts
      <3>2. Len(out) = 1
        BY <1>6, <3>1
      <3> QED
        BY <1>1, <1>2, <2>1, <3>2 DEF Done
    <2>3. Trace(S, at)'
      BY <1>1, <1>2, <2>1, KeepTrace
    <2>4. DocInv' /\ ListInv' /\ PhaseInv'
      BY <1>1, <1>4, <2>1 DEF IInv, DocInv, ListInv, PhaseInv
    <2>5. TraceInv'
      BY <2>1, <2>2, <2>3 DEF TraceInv
    <2> QED
      BY <2>4, <2>5 DEF IInv
  <1> QED
    BY <1>5, <1>6

\* RosSend.
LEMMA RosSendInv ==
  ASSUME IInv, RosSend
  PROVE  IInv'
  <1>1. /\ phase = "build" /\ phase' = "sent" /\ \E k \in Kinds : kind' = k /\ doc' \in RosDocs(k)
        /\ own' = own /\ inner' = inner /\ read' = read /\ into' = into
    BY DEF RosSend, buildVars, parseVars
  <1>2. doc' \in Seq(Token) /\ kind' # "own"
    BY <1>1, RosDocsTyped DEF Kinds
  <1>3. read = 0 /\ Len(doc') \in Nat
    BY <1>1, <1>2, LenProperties DEF IInv, PhaseInv
  <1>4. DocInv' /\ ListInv'
    BY <1>1, <1>2, <1>3 DEF IInv, DocInv, ListInv
  <1>5. PhaseInv' /\ TraceInv'
    BY <1>1, <1>2, <1>3 DEF PhaseInv, TraceInv
  <1> QED
    BY <1>4, <1>5 DEF IInv

\* Receive: nothing is parsed.
LEMMA ReceiveInv ==
  ASSUME IInv, Receive
  PROVE  IInv'
  <1>1. /\ phase = "sent" /\ own' = own /\ inner' = inner /\ read' = read /\ doc' = doc /\ kind' = kind
        /\ \/ phase' = "used" /\ into' = into
           \/ phase' = "parse" /\ into' = <<ListInit>>
    BY DEF Receive, buildVars, sendVars
  <1>2. DocInv' /\ PhaseInv' /\ read = 0
    BY <1>1 DEF IInv, DocInv, PhaseInv
  <1>3. ListInv'
    <2>1. PICK S : Lists(S) /\ own \in S /\ inner \in S /\ into \in Seq(S)
      BY DEF IInv, ListInv
    <2>2. Lists(S \cup {ListInit})
      BY <2>1, InitLists
    <2>3. into \in Seq(S \cup {ListInit}) /\ <<ListInit>> \in Seq(S \cup {ListInit})
      BY <2>1, SeqMonotonic
    <2> QED
      BY <1>1, <2>1, <2>2, <2>3 DEF ListInv
  <1>4. TraceInv'
    <2>1. CASE phase' = "parse" /\ kind' = "own"
      <3>1. PICK S, at : Trace(S, at) /\ Done(at[Len(doc) + 1])
        BY <1>1, <2>1 DEF IInv, TraceInv
      <3>2. Trace(S, at)' /\ Done(at[Len(doc') + 1])
        BY <1>1, <3>1, KeepTrace
      <3>3. at[1] = <<Frame(own)>> /\ own \in S /\ Lists(S)
        <4>1. at[1] = <<Frame(own)>> /\ IsStack(at[1], S) /\ Lists(S)
          BY <3>1, LenProperties DEF Trace, IInv, DocInv
        <4>2. at[1][1] \in [list : S, np : Nat] /\ at[1][1] = Frame(own)
          BY <4>1, StackFacts
        <4> QED
          BY <4>1, <4>2 DEF Frame
      <3>4. into' = Upto(at[read' + 1])
        BY <1>1, <1>2, <2>1, <3>3, FirstStack
      <3> QED
        BY <2>1, <3>2, <3>4 DEF TraceInv
    <2> QED
      BY <1>1, <2>1 DEF TraceInv
  <1> QED
    BY <1>2, <1>3, <1>4 DEF IInv

\* Handle.
LEMMA HandleInv ==
  ASSUME IInv, Handle
  PROVE  IInv'
  <1>1. phase' = "used" /\ own' = own /\ inner' = inner /\ read' = read /\ doc' = doc /\ into' = into
    BY DEF Handle, buildVars, sendVars, parseVars
  <1> QED
    BY <1>1 DEF IInv, DocInv, ListInv, PhaseInv, TraceInv

\* No step.
LEMMA StutterInv ==
  ASSUME IInv, UNCHANGED vars
  PROVE  IInv'
  <1>1. /\ phase' = phase /\ own' = own /\ inner' = inner /\ kind' = kind
        /\ doc' = doc /\ out' = out /\ read' = read /\ into' = into
    BY DEF vars, buildVars, sendVars, parseVars
  <1>2. \A S, at : Trace(S, at)' <=> Trace(S, at)
    BY <1>1 DEF Trace
  <1> QED
    BY <1>1, <1>2 DEF IInv, DocInv, ListInv, PhaseInv, TraceInv

\* What the four steps of parse_rpc_value share.
LEMMA ParseFacts ==
  ASSUME IInv, NEW x, ParseValue(x)
  PROVE  /\ phase = "parse" /\ x \in Token /\ x = doc[read + 1]
         /\ read \in Nat /\ read + 1 \in 1 .. Len(doc) /\ read' = read + 1
         /\ own' = own /\ inner' = inner /\ doc' = doc /\ kind' = kind
         /\ DocInv'
  <1>1. /\ phase = "parse" /\ read < Len(doc) /\ x = doc[read + 1] /\ read' = read + 1
        /\ own' = own /\ inner' = inner /\ doc' = doc /\ kind' = kind
    BY DEF ParseValue, buildVars, sendVars
  <1>2. doc \in Seq(Token) /\ read \in 0 .. Len(doc) /\ Len(doc) \in Nat
    BY LenProperties DEF IInv, DocInv
  <1>3. read \in Nat /\ read + 1 \in 1 .. Len(doc)
    BY <1>1, <1>2
  <1>4. x \in Token
    BY <1>1, <1>2, <1>3, ElementOfSeq
  <1>5. DocInv'
    BY <1>1, <1>2, <1>3 DEF DocInv
  <1> QED
    BY <1>1, <1>3, <1>4, <1>5

\* If what is parsed follows what was printed over one more token, it does so
\* for the document of the call.
LEMMA ParseTrace ==
  ASSUME IInv, NEW x, ParseValue(x), phase' = "parse",
         \A S, st, next : SixDecimals(<<x>>) /\ Lists(S) /\ IsStack(st, S) /\ Prints(st, x, next)
                            /\ into = Upto(st) => into' = Upto(next)
  PROVE  PhaseInv' /\ TraceInv'
  <1>1. PhaseInv'
    BY DEF PhaseInv
  <1>2. ASSUME kind' = "own", SixDecimals(doc)
        PROVE  \E S, at : Trace(S, at)' /\ Done(at[Len(doc') + 1]) /\ into' = Upto(at[read' + 1])
    <2>a. SixDecimals(<<x>>)
      <3>1. doc \in Seq(Token) /\ read + 1 \in DOMAIN doc /\ x = doc[read + 1]
        BY ParseFacts, LenProperties DEF IInv, DocInv
      <3>2. x.tag = "double" => x.text \in {Lf(e) : e \in Exact}
        BY <1>2, <3>1 DEF SixDecimals
      <3>3. \A i \in DOMAIN <<x>> : <<x>>[i] = x
        OBVIOUS
      <3> QED
        BY <3>2, <3>3 DEF SixDecimals
    <2>1. PICK S, at : Trace(S, at) /\ Done(at[Len(doc) + 1]) /\ into = Upto(at[read + 1])
      BY <1>2, ParseFacts DEF IInv, TraceInv
    <2>2. read + 1 \in 1 .. Len(doc) /\ read + 1 \in 1 .. Len(doc) + 1
      BY ParseFacts
    <2>3. Lists(S) /\ IsStack(at[read + 1], S) /\ Prints(at[read + 1], x, at[(read + 1) + 1])
      BY <2>1, <2>2, ParseFacts DEF Trace
    <2>4. into' = Upto(at[(read + 1) + 1])
      BY <2>a, <2>1, <2>3
    <2>5. Trace(S, at)' /\ Done(at[Len(doc') + 1])
      BY <2>1, ParseFacts, KeepTrace
    <2> QED
      BY <2>4, <2>5, ParseFacts
  <1>3. SixDecimals(doc)' => SixDecimals(doc)
    BY ParseFacts
  <1>4. TraceInv'
    BY <1>2, <1>3 DEF TraceInv
  <1> QED
    BY <1>1, <1>4

\* Putting an item into the last list keeps the lists what they are.
LEMMA PutIntoLists ==
  ASSUME NEW S, Lists(S), NEW u \in Seq(S), NEW x \in Items(S), x # Nil
  PROVE  \E T : S \subseteq T /\ Lists(T) /\ PutInto(u, x) \in Seq(T)
  <1>1. CASE u = <<>>
    BY <1>1, PutIntoEmpty, EmptySeq
  <1>2. CASE u # <<>>
    <2> DEFINE l == u[Len(u)]
               T == S \cup {ListPut(l, x)}
    <2>1. Len(u) \in Nat \ {0}
      BY <1>2, EmptySeq
    <2>2. l \in S
      BY <2>1, ElementOfSeq
    <2>3. Lists(T)
      BY <2>2, PutFacts
    <2>4. u \in Seq(T) /\ ListPut(l, x) \in T
      BY SeqMonotonic
    <2>5. PutInto(u, x) \in Seq(T)
      BY <2>1, <2>4, PutIntoFacts
    <2> QED
      BY <2>3, <2>5
  <1> QED
    BY <1>1, <1>2

\* ParseOpen.
LEMMA ParseOpenInv ==
  ASSUME IInv, ParseOpen
  PROVE  IInv'
  <1>1. ParseValue(Open) /\ into' = Append(into, ListInit) /\ phase' = phase
    BY DEF ParseOpen
  <1>2. ListInv'
    <2>1. PICK S : Lists(S) /\ own \in S /\ inner \in S /\ into \in Seq(S)
      BY DEF IInv, ListInv
    <2> DEFINE T == S \cup {ListInit}
    <2>2. Lists(T) /\ into \in Seq(T)
      BY <2>1, InitLists, SeqMonotonic
    <2>3. into' \in Seq(T)
      BY <1>1, <2>2, AppendProperties
    <2>4. own' \in T /\ inner' \in T
      BY <1>1, <2>1, ParseFacts
    <2> HIDE DEF T
    <2> QED
      BY <2>2, <2>3, <2>4 DEF ListInv
  <1>3. ASSUME NEW S, NEW st, NEW next, Lists(S), IsStack(st, S), Prints(st, Open, next), into = Upto(st)
        PROVE  into' = Upto(next)
    <2>1. ~AtEnd(Last(st)) /\ Open = Emit(Np(st)) /\ next = After(st)
      BY <1>3 DEF Prints, Open, Close
    <2>2. Np(st).type = "array"
      BY <1>3, <2>1, NpFacts DEF Open, Basic, Simple
    <2> QED
      BY <1>1, <1>3, <2>1, <2>2, UptoOpen
  <1>4. PhaseInv' /\ TraceInv'
    BY <1>1, <1>3, ParseTrace, ParseFacts
  <1> QED
    BY <1>1, <1>2, <1>4, ParseFacts DEF IInv

\* ParseClose.
LEMMA ParseCloseInv ==
  ASSUME IInv, ParseClose
  PROVE  IInv'
  <1>1. ParseValue(Close) /\ into' = PutInto(Front(into), Array(Last(into))) /\ phase' = phase
    BY DEF ParseClose
  <1>2. ListInv'
    <2>1. PICK S : Lists(S) /\ own \in S /\ inner \in S /\ into \in Seq(S)
      BY DEF IInv, ListInv
    <2>2. Len(into) \in Nat
      BY <2>1, LenProperties
    <2>3. \E T : S \subseteq T /\ Lists(T) /\ into' \in Seq(T)
      <3>1. CASE Len(into) <= 1
        <4>1. Front(into) = <<>>
          BY <2>2, <3>1, SubSeqEmpty DEF Front
        <4> QED
          BY <1>1, <2>1, <4>1, PutIntoEmpty, EmptySeq
      <3>2. CASE Len(into) > 1
        <4>1. Last(into) \in S
          BY <2>1, <2>2, <3>2, ElementOfSeq DEF Last
        <4>2. Array(Last(into)) \in Items(S) /\ Array(Last(into)) # Nil
          BY <4>1 DEF Items, Array, Nil
        <4>3. Front(into) \in Seq(S)
          <5>1. \A i \in 1 .. Len(into) - 1 : into[i] \in S
            BY <2>1, <2>2, ElementOfSeq
          <5>2. 1 \in Int /\ Len(into) - 1 \in Int
            BY <2>2
          <5> QED
            BY <5>1, <5>2, SubSeqProperties DEF Front
        <4> QED
          BY <1>1, <2>1, <4>2, <4>3, PutIntoLists
      <3> QED
        BY <2>2, <3>1, <3>2
    <2> QED
      BY <1>1, <2>1, <2>3, ParseFacts DEF ListInv
  <1>3. ASSUME NEW S, NEW st, NEW next, Lists(S), IsStack(st, S), Prints(st, Close, next), into = Upto(st)
        PROVE  into' = Upto(next)
    <2>1. CASE ~AtEnd(Last(st)) /\ Close = Emit(Np(st)) /\ next = After(st)
      BY <1>3, <2>1, NpFacts DEF Open, Close, Basic, Simple
    <2>2. CASE AtEnd(Last(st)) /\ Len(st) > 1 /\ next = Front(st)
      BY <1>1, <1>3, <2>2, UptoClose
    <2> QED
      BY <1>3, <2>1, <2>2 DEF Prints
  <1>4. PhaseInv' /\ TraceInv'
    BY <1>1, <1>3, ParseTrace, ParseFacts
  <1> QED
    BY <1>1, <1>2, <1>4, ParseFacts DEF IInv

\* ParseScalar.
LEMMA ParseScalarInv ==
  ASSUME IInv, NEW x, ParseScalar(x)
  PROVE  IInv'
  <1>1. ParseValue(x) /\ x.tag \in Simple /\ x \in Token
    BY ParseFacts DEF ParseScalar
  <1>2. CASE x.text = ""
    <2>1. phase' = "used" /\ into' = into
      BY <1>2 DEF ParseScalar
    <2> QED
      BY <1>1, <2>1, ParseFacts DEF IInv, ListInv, PhaseInv, TraceInv
  <1>3. CASE x.text # ""
    <2>1. into' = PutInto(into, Item(x)) /\ phase' = phase
      BY <1>3 DEF ParseScalar
    <2>2. Item(x) \in Basic
      BY <1>1, TokenTypes
    <2>3. ListInv'
      <3>1. PICK S : Lists(S) /\ own \in S /\ inner \in S /\ into \in Seq(S)
        BY DEF IInv, ListInv
      <3>2. Item(x) \in Items(S) /\ Item(x) # Nil
        BY <2>2 DEF Items, Basic, Nil, Simple
      <3>3. \E T : S \subseteq T /\ Lists(T) /\ into' \in Seq(T)
        BY <2>1, <3>1, <3>2, PutIntoLists
      <3> QED
        BY <1>1, <3>1, <3>3, ParseFacts DEF ListInv
    <2>4. ASSUME NEW S, NEW st, NEW next, Lists(S), IsStack(st, S), Prints(st, x, next), into = Upto(st),
                 SixDecimals(<<x>>)
          PROVE  into' = Upto(next)
      <3>1. ~AtEnd(Last(st)) /\ x = Emit(Np(st)) /\ next = After(st)
        BY <1>1, <2>4 DEF Prints, Close, Simple
      <3>2. Np(st).type \notin {"array", "nil"}
        BY <1>1, <2>4, <3>1, NpFacts DEF Open, Simple
      <3>a. Np(st) \in Basic
        BY <2>4, <3>1, <3>2, NpFacts
      <3>3. Item(x) = Np(st)
        BY <2>4, <3>1, <3>a, EmitParsed
      <3> QED
        BY <2>1, <2>4, <3>1, <3>2, <3>3, UptoItem
    <2>5. PhaseInv' /\ TraceInv'
      BY <1>1, <2>1, <2>4, ParseTrace, ParseFacts
    <2> QED
      BY <1>1, <2>3, <2>5, ParseFacts DEF IInv
  <1> QED
    BY <1>2, <1>3

\* ParseOther: of what a STRos node prints only the item of list_init.
LEMMA ParseOtherInv ==
  ASSUME IInv, NEW x, ParseOther(x)
  PROVE  IInv'
  <1>1. ParseValue(x) /\ x.tag \in {"nil", "untagged"} /\ into' = into /\ phase' = phase
    BY DEF ParseOther
  <1>2. ListInv'
    BY <1>1, ParseFacts DEF IInv, ListInv
  <1>3. ASSUME NEW S, NEW st, NEW next, Lists(S), IsStack(st, S), Prints(st, x, next), into = Upto(st)
        PROVE  into' = Upto(next)
    <2>1. ~AtEnd(Last(st)) /\ x = Emit(Np(st)) /\ next = After(st)
      BY <1>1, <1>3 DEF Prints, Close
    <2>2. Np(st).type \notin {"array", "nil"} => Emit(Np(st)).tag \in Simple
      BY <1>3, <2>1, NpFacts DEF Basic
    <2>3. Np(st).type = "nil" /\ Np(st) \in Items(S)
      BY <1>1, <1>3, <2>1, <2>2, NpFacts DEF Open, Simple
    <2>4. Np(st) = Nil
      BY <2>3, ItemTypes
    <2> QED
      BY <1>1, <1>3, <2>1, <2>4, UptoNil
  <1>4. PhaseInv' /\ TraceInv'
    BY <1>1, <1>3, ParseTrace, ParseFacts
  <1> QED
    BY <1>1, <1>2, <1>4, ParseFacts DEF IInv

\* The invariant.
LEMMA Invariant == Spec => []IInv
  <1>1. IInv /\ [Next]_vars => IInv'
    <2> SUFFICES ASSUME IInv, [Next]_vars PROVE IInv'
      OBVIOUS
    <2>1. CASE Caller
      BY <2>1, PutInv, PutArrayInv, RemoveInv, SendInv, PrintItemInv, PrintEndInv, RosSendInv DEF Caller
    <2>2. CASE Callee
      BY <2>2, ReceiveInv, ParseOpenInv, ParseCloseInv, ParseScalarInv, ParseOtherInv, HandleInv DEF Callee
    <2>3. CASE UNCHANGED vars
      BY <2>3, StutterInv
    <2> QED
      BY <2>1, <2>2, <2>3 DEF Next
  <1> QED
    BY InitInv, <1>1, PTL DEF Spec

-----------------------------------------------------------------------------
(* What holds.                                                             *)

\* The item of list_init, by which list_put and list_size know an empty list,
\* is never next to others, in the lists a caller builds nor in those that
\* parse_rpc_value makes.
THEOREM NilAlone == Spec => []NilOnlyAlone
  <1>1. ASSUME IInv PROVE NilOnlyAlone
    <2>1. PICK S : Lists(S) /\ own \in S /\ inner \in S /\ into \in Seq(S)
      BY <1>1 DEF IInv, ListInv
    <2>2. \A l \in S : Fine(l)
      BY <2>1 DEF Lists, Fine
    <2>3. \A l \in S : \A i \in DOMAIN l : l[i].type = "array" => l[i].items \in S
      BY <2>1, ListFacts, ItemTypes
    <2>4. Range(into) \subseteq S
      BY <2>1, LenProperties, ElementOfSeq DEF Range
    <2> QED
      BY <2>1, <2>2, <2>3, <2>4 DEF NilOnlyAlone
  <1> QED
    BY Invariant, <1>1, PTL

\* parse_rpc_value makes of what list_to_xml_params prints the list that was
\* printed, if six decimals are enough for its doubles.
THEOREM ParsingUndoesPrinting == Spec => []RoundTrip
  <1>1. ASSUME IInv PROVE RoundTrip
    <2> SUFFICES ASSUME kind = "own", Parsed, SixDecimals(doc) PROVE into = <<own>>
      BY DEF RoundTrip
    <2>1. PICK S, at : Trace(S, at) /\ Done(at[Len(doc) + 1]) /\ into = Upto(at[read + 1])
      BY <1>1 DEF Parsed, IInv, TraceInv
    <2> DEFINE st == at[Len(doc) + 1]
    <2>2. Lists(S) /\ IsStack(st, S) /\ st[1].list = own /\ into = Upto(st)
      <3>1. Len(doc) + 1 \in 1 .. Len(doc) + 1
        BY <1>1, LenProperties DEF IInv, DocInv
      <3> QED
        BY <2>1, <3>1 DEF Parsed, Trace
    <2>3. Len(st) = 1 /\ AtEnd(Last(st))
      BY <2>1 DEF Done
    <2> HIDE DEF st
    <2>4. own \in S /\ st[1].np = Len(own) + 1 /\ Len(own) \in Nat
      BY <2>2, <2>3, StackFacts
    <2>5. Upto(st)[1] = Prefix(own, Len(own)) /\ Len(Upto(st)) = 1 /\ Upto(st) \in Seq(ListPrefixes(S))
      <3>1. st[1].np - 1 = Len(own)
        BY <2>4
      <3> QED
        BY <2>2, <2>3, <3>1, UptoFacts
    <2>6. Prefix(own, Len(own)) = own
      BY <2>2, <2>4, FullPrefix
    <2> QED
      BY <2>2, <2>5, <2>6
  <1> QED
    BY Invariant, <1>1, PTL
=============================================================================
