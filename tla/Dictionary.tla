----------------------------- MODULE Dictionary -----------------------------
(***************************************************************************)
(* The dictionary of topics (dictionary.c): an array of chains of          *)
(* associations, one chain per hash value.  The application thread puts    *)
(* and removes topics; RPC worker threads look topics up (requestTopic,    *)
(* publisherUpdate) at the same time, and nothing locks the dictionary.    *)
(* stros_stop walks all chains, on top of the application thread.          *)
(*                                                                         *)
(* Each store that the other threads can see is a step of its own, and so  *)
(* is each association a lookup goes on to.  Stores are seen in the order  *)
(* of the program.  A removed association is never freed.  Keys are        *)
(* numbers and hash() is the remainder, so that chosen keys collide.       *)
(***************************************************************************)
EXTENDS Naturals, Sequences

CONSTANTS Keys,       \* the names of topics
          Values,     \* the topics
          DHASHSIZE,  \* how many hash values there are
          HASHSIZE,   \* how many chains the array has
          MaxPuts,    \* bound: how many associations are made
          MaxRemoves  \* bound: how many are removed

ASSUME DictionaryAssumption ==
  /\ Keys \subseteq Nat
  /\ Values \cap {"uninit", "NULL"} = {}
  /\ {MaxPuts, MaxRemoves} \subseteq Nat
  /\ DHASHSIZE \in Nat \ {0}
  /\ HASHSIZE \in Nat
  /\ HASHSIZE >= DHASHSIZE

VARIABLES
  dic,      \* the array: the first association of each chain, 0: NULL
  heap,     \* the associations made, in order
  removes,  \* how often dremove was called
  put,      \* where dput is: "idle", "link" or "value"
  node,     \* its local np
  arg,      \* the value it puts
  look,     \* where dvalue is: "idle", "walk", "value" or "done"
  key,      \* the key it looks for
  np,       \* the association it has reached
  result,   \* what it returned
  seen      \* history: what the key was mapped to since dvalue was called

writerVars == <<dic, heap, removes, put, node, arg>>
readerVars == <<look, key, np, result, seen>>
vars == <<writerVars, readerVars>>

Buckets == 0 .. HASHSIZE - 1
Hash(k) == k % DHASHSIZE
Nodes == DOMAIN heap

\* The associations of a chain from n on: what no set lacks that holds n and,
\* with an association, the next one.
Closed(h, n) ==
  {S \in SUBSET DOMAIN h : n \in S \cup {0} /\ \A m \in S : h[m].next \in S \cup {0}}
Chain(h, n) == DOMAIN h \ UNION {DOMAIN h \ S : S \in Closed(h, n)}

\* dlookup, when nothing changes the chain meanwhile: the first association
\* that has the key, or 0.
Holders(k) == {n \in Chain(heap, dic[Hash(k)]) : heap[n].key = k}
Find(k) == CHOOSE n \in Holders(k) \cup {0} : Holders(k) \subseteq Chain(heap, n)

\* What dvalue finds at an association, or at NULL; and what it finds there
\* once dput has returned.
Load == [n \in Nodes \cup {0} |-> IF n = 0 THEN "NULL" ELSE heap[n].value]
Settled == [n \in Nodes \cup {0} |-> IF Load[n] = "uninit" THEN "NULL" ELSE Load[n]]

\* What dvalue would return, and what the calls of dput that have returned
\* and those of dremove make of the key.
Value(k) == Load[Find(k)]
Mapped(k) == Settled[Find(k)]

TypeOK ==
  /\ dic \in [Buckets -> 0..MaxPuts]
  /\ heap \in Seq([key : Keys, value : Values \cup {"uninit"}, next : 0..MaxPuts])
  /\ removes \in 0..MaxRemoves
  /\ put \in {"idle", "link", "value"}
  /\ node \in 0..MaxPuts
  /\ arg \in Values \cup {"NULL"}
  /\ look \in {"idle", "walk", "value", "done"}
  /\ key \in Keys
  /\ np \in 0..MaxPuts
  /\ {result} \cup seen \subseteq Values \cup {"uninit", "NULL"}

\* Mutant: dict() sets as many chains to NULL as there are hash values.
DictHashed == [b \in Buckets |-> IF b < DHASHSIZE THEN 0 ELSE MaxPuts + 1]

Dict == [b \in Buckets |-> 0]

Init ==
  /\ dic = Dict
  /\ heap = <<>>
  /\ removes = 0
  /\ put = "idle"
  /\ node = 0
  /\ arg = "NULL"
  /\ look = "idle"
  /\ key \in Keys
  /\ np = 0
  /\ result = "NULL"
  /\ seen = {}

-----------------------------------------------------------------------------
(* The application thread.  Its own lookups see a chain nobody else        *)
(* changes, so they take no step of their own.                             *)

\* While a lookup is under way, what its key is mapped to is recorded.
Record == seen' = IF look \in {"walk", "value"} THEN seen \cup {Value(key)'} ELSE seen

WriterStep == UNCHANGED <<look, key, np, result>> /\ Record

\* Mutant: the key is not looked up first.
DPutAlways(k, v) ==
  /\ put = "idle"
  /\ Len(heap) < MaxPuts
  /\ heap' = Append(heap, [key |-> k, value |-> "uninit", next |-> dic[Hash(k)]])
  /\ node' = Len(heap')
  /\ put' = "link"
  /\ arg' = v
  /\ UNCHANGED <<dic, removes>>
  /\ WriterStep

\* dput finds the association of the key or makes a new one, whose value is
\* whatever malloc returned and which nobody can reach yet.
DPut(k, v) ==
  /\ put = "idle"
  /\ Len(heap) < MaxPuts
  /\ IF Find(k) = 0
     THEN /\ heap' = Append(heap, [key |-> k, value |-> "uninit", next |-> dic[Hash(k)]])
          /\ node' = Len(heap')
          /\ put' = "link"
     ELSE /\ node' = Find(k)
          /\ put' = "value"
          /\ UNCHANGED heap
  /\ arg' = v
  /\ UNCHANGED <<dic, removes>>
  /\ WriterStep

\* The new association becomes the first of its chain.
Link ==
  /\ put = "link"
  /\ put' = "value"
  /\ dic' = [dic EXCEPT ![Hash(heap[node].key)] = node]
  /\ UNCHANGED <<heap, removes, node, arg>>
  /\ WriterStep

StoreValue ==
  /\ put = "value"
  /\ put' = "idle"
  /\ heap' = [heap EXCEPT ![node].value = arg]
  /\ node' = 0
  /\ arg' = "NULL"
  /\ UNCHANGED <<dic, removes>>
  /\ WriterStep

\* The association whose next one has the key.
Before(k) == CHOOSE n \in Chain(heap, dic[Hash(k)]) : heap[n].next = Find(k)

\* Mutant: the rest of the chain goes with the association.
DRemoveTail(k) ==
  /\ put = "idle"
  /\ removes < MaxRemoves
  /\ removes' = removes + 1
  /\ IF Find(k) = 0 THEN UNCHANGED <<dic, heap>>
     ELSE IF Find(k) = dic[Hash(k)]
     THEN dic' = [dic EXCEPT ![Hash(k)] = heap[@].next] /\ UNCHANGED heap
     ELSE heap' = [heap EXCEPT ![Before(k)].next = 0] /\ UNCHANGED dic
  /\ UNCHANGED <<put, node, arg>>
  /\ WriterStep

\* dremove: the association before that of the key, or the array, skips it.
DRemove(k) ==
  /\ put = "idle"
  /\ removes < MaxRemoves
  /\ removes' = removes + 1
  /\ IF Find(k) = 0 THEN UNCHANGED <<dic, heap>>
     ELSE IF Find(k) = dic[Hash(k)]
     THEN dic' = [dic EXCEPT ![Hash(k)] = heap[@].next] /\ UNCHANGED heap
     ELSE heap' = [heap EXCEPT ![Before(k)].next = heap[Find(k)].next] /\ UNCHANGED dic
  /\ UNCHANGED <<put, node, arg>>
  /\ WriterStep

-----------------------------------------------------------------------------
(* An RPC worker in dvalue.                                                *)

DValue(k) ==
  /\ look \in {"idle", "done"}
  /\ look' = "walk"
  /\ key' = k
  /\ np' = dic[Hash(k)]
  /\ seen' = {Value(k)}
  /\ result' = "NULL"
  /\ UNCHANGED writerVars

Return(v) == look' = "done" /\ result' = v

\* Mutant: the lookup takes the first association of the chain.
WalkFirst ==
  /\ look = "walk"
  /\ IF np = 0 THEN Return("NULL") ELSE look' = "value" /\ UNCHANGED result
  /\ UNCHANGED <<writerVars, key, np, seen>>

\* Mutant: the loop starts again instead of going on.
WalkRestart ==
  /\ look = "walk"
  /\ IF np = 0 THEN Return("NULL") /\ UNCHANGED np
     ELSE IF heap[np].key = key THEN look' = "value" /\ UNCHANGED <<np, result>>
     ELSE np' = dic[Hash(key)] /\ UNCHANGED <<look, result>>
  /\ UNCHANGED <<writerVars, key, seen>>

\* One association further, or the end of the chain.
Walk ==
  /\ look = "walk"
  /\ IF np = 0 THEN Return("NULL") /\ UNCHANGED np
     ELSE IF heap[np].key = key THEN look' = "value" /\ UNCHANGED <<np, result>>
     ELSE np' = heap[np].next /\ UNCHANGED <<look, result>>
  /\ UNCHANGED <<writerVars, key, seen>>

LoadValue ==
  /\ look = "value"
  /\ Return(heap[np].value)
  /\ UNCHANGED <<writerVars, key, np, seen>>

-----------------------------------------------------------------------------

Writer == Link \/ StoreValue \/ \E k \in Keys : DRemove(k) \/ \E v \in Values : DPut(k, v)
Lookup == Walk \/ LoadValue

Next == Writer \/ Lookup \/ \E k \in Keys : DValue(k)

Spec == Init /\ [][Next]_vars

\* A lookup is a loop of a running thread.
FairSpec == Spec /\ WF_vars(Lookup)

-----------------------------------------------------------------------------
(* Properties that hold.                                                   *)

Map == INSTANCE KeyedMap WITH map <- [k \in Keys |-> Mapped(k)], Absent <- "NULL"

\* The chains implement a map: whatever the collisions, putting or removing a
\* topic changes what its name is mapped to and that of no other name, and
\* putting takes effect when the value is stored.
ImplementsMap == Map!Spec

\* A lookup that runs while topics are put and removed returns what the name
\* was mapped to at some moment of the lookup, although associations appear,
\* change their value and are taken out of the chain under it; an association
\* whose value is not set yet is returned only if a dput of that name was
\* between its two stores.
LookupCurrent == look = "done" => result \in seen

\* for_each_assoc, which goes over HASHSIZE chains although names are hashed
\* to DHASHSIZE values, meets each topic once: the stop unregisters no topic
\* twice and forgets none.
EachTopicOnce ==
  LET visited == [b \in Buckets |-> Chain(heap, dic[b])]
  IN /\ \A b, c \in Buckets : \A m \in visited[b], n \in visited[c] :
          heap[m].key = heap[n].key => b = c /\ m = n
     /\ \A b \in Buckets : \A m \in visited[b] : m \notin Chain(heap, heap[m].next)
     /\ \A k \in Keys : Mapped(k) # "NULL" =>
          \E b \in Buckets : \E n \in visited[b] : heap[n].key = k

\* A lookup ends, in spite of what happens to the chain it walks.
LookupEnds == (look = "walk") ~> (look = "done")
=============================================================================
