-------------------------- MODULE DictionaryProofs --------------------------
(***************************************************************************)
(* Proofs about Dictionary for all names, topics, hash sizes and numbers   *)
(* of puts and removals: the chains are lists without a cycle in which a   *)
(* name occurs once, they implement a map, and a lookup that runs beside   *)
(* the writer returns what its name was mapped to meanwhile.               *)
(***************************************************************************)
EXTENDS Dictionary, TLAPS, SequenceTheorems

-----------------------------------------------------------------------------
(* Chains of any heap.                                                     *)

\* Associations are only linked to older ones.
IsHeap(h) ==
  /\ DOMAIN h \subseteq Nat \ {0}
  /\ \A n \in DOMAIN h : h[n].next \in DOMAIN h \cup {0} /\ h[n].next < n

\* A chain is a set that has n and is closed under next, and there is no
\* smaller one.
LEMMA ChainIsClosed ==
  ASSUME NEW h, IsHeap(h), NEW n \in DOMAIN h \cup {0}
  PROVE  /\ Chain(h, n) \subseteq DOMAIN h
         /\ n # 0 => n \in Chain(h, n)
         /\ \A m \in Chain(h, n) : h[m].next \in Chain(h, n) \cup {0}
  <1>1. \A m : m \in Chain(h, n) <=> m \in DOMAIN h /\ \A S \in Closed(h, n) : m \in S
    BY DEF Chain
  <1>2. \A S \in Closed(h, n) : n \in S \cup {0} /\ \A m \in S : h[m].next \in S \cup {0}
    BY DEF Closed
  <1>3. ASSUME NEW m \in Chain(h, n), h[m].next # 0
        PROVE  h[m].next \in Chain(h, n)
    BY <1>1, <1>2, <1>3 DEF IsHeap
  <1> QED
    BY <1>1, <1>2, <1>3

LEMMA ChainIsLeast ==
  ASSUME NEW h, NEW n, NEW S \in SUBSET DOMAIN h,
         n \in S \cup {0}, \A m \in S : h[m].next \in S \cup {0}
  PROVE  Chain(h, n) \subseteq S
  BY DEF Chain, Closed

LEMMA NoChain == ASSUME NEW h PROVE Chain(h, 0) = {}
  <1>1. {} \in Closed(h, 0)
    BY DEF Closed
  <1> QED
    BY <1>1 DEF Chain

\* The chain from n is n and the chain from the next one, in which all are
\* older.
LEMMA ChainStep ==
  ASSUME NEW h, IsHeap(h), NEW n \in DOMAIN h
  PROVE  /\ Chain(h, n) = {n} \cup Chain(h, h[n].next)
         /\ \A m \in Chain(h, h[n].next) : m < n
  <1> DEFINE next == h[n].next
  <1>0. next \in DOMAIN h \cup {0} /\ next < n /\ n \in Nat \ {0}
    BY DEF IsHeap
  <1>1. Chain(h, next) \subseteq {m \in DOMAIN h : m < n}
    <2> DEFINE S == {m \in DOMAIN h : m < n}
    <2>1. ASSUME NEW m \in S PROVE h[m].next \in S \cup {0}
      BY <1>0 DEF IsHeap
    <2>2. next \in S \cup {0}
      BY <1>0
    <2>3. S \in SUBSET DOMAIN h
      OBVIOUS
    <2> HIDE DEF S, next
    <2>4. Chain(h, next) \subseteq S
      BY <2>1, <2>2, <2>3, ChainIsLeast
    <2> QED
      BY <2>4 DEF S
  <1>2. Chain(h, n) \subseteq {n} \cup Chain(h, next)
    <2> DEFINE S == {n} \cup Chain(h, next)
    <2>1. S \in SUBSET DOMAIN h
      BY <1>0, ChainIsClosed
    <2>2. ASSUME NEW m \in S PROVE h[m].next \in S \cup {0}
      BY <1>0, ChainIsClosed
    <2> HIDE DEF S, next
    <2>3. Chain(h, n) \subseteq S
      BY <2>1, <2>2, ChainIsLeast DEF S
    <2> QED
      BY <2>3 DEF S
  <1>3. {n} \cup Chain(h, next) \subseteq Chain(h, n)
    <2>1. n \in Chain(h, n) /\ next \in Chain(h, n) \cup {0}
      BY <1>0, ChainIsClosed DEF IsHeap
    <2>2. Chain(h, n) \in SUBSET DOMAIN h /\ \A m \in Chain(h, n) : h[m].next \in Chain(h, n) \cup {0}
      BY <1>0, ChainIsClosed
    <2> QED
      BY <2>1, <2>2, ChainIsLeast
  <1> QED
    BY <1>1, <1>2, <1>3

\* What comes after a member of a chain is in the chain.
LEMMA ChainTail ==
  ASSUME NEW h, IsHeap(h), NEW s \in DOMAIN h \cup {0}, NEW n \in Chain(h, s) \cup {0}
  PROVE  Chain(h, n) \subseteq Chain(h, s)
  <1>1. Chain(h, s) \in SUBSET DOMAIN h /\ \A m \in Chain(h, s) : h[m].next \in Chain(h, s) \cup {0}
    BY ChainIsClosed
  <1> QED
    BY <1>1, ChainIsLeast

\* Of two members of a chain one comes after the other.
LEMMA ChainIsLinear ==
  ASSUME NEW h, IsHeap(h), NEW s \in DOMAIN h \cup {0}
  PROVE  \A m, n \in Chain(h, s) : m \in Chain(h, n) \/ n \in Chain(h, m)
  <1> DEFINE C == Chain(h, s)
             S == {n \in C : \A m \in C : m \in Chain(h, n) \/ n \in Chain(h, m)}
  <1>0. C \subseteq DOMAIN h /\ \A m \in C : h[m].next \in C \cup {0}
    BY ChainIsClosed
  <1>1. s \in S \cup {0}
    BY ChainIsClosed
  <1>2. ASSUME NEW n \in S, h[n].next # 0 PROVE h[n].next \in S
    <2> DEFINE next == h[n].next
    <2>1. next \in C /\ n \in C /\ n \in DOMAIN h
      BY <1>0, <1>2
    <2>2. SUFFICES ASSUME NEW m \in C PROVE m \in Chain(h, next) \/ next \in Chain(h, m)
      BY <2>1
    <2>3. m \in Chain(h, n) \/ n \in Chain(h, m)
      OBVIOUS
    <2>4. CASE n \in Chain(h, m)
      <3>1. m \in DOMAIN h
        BY <1>0
      <3>2. \A x \in Chain(h, m) : h[x].next \in Chain(h, m) \cup {0}
        BY <3>1, ChainIsClosed
      <3>3. h[n].next \in Chain(h, m)
        BY <2>4, <3>2, <1>2
      <3> QED
        BY <3>3
    <2>5. CASE m \in Chain(h, n) /\ m # n
      <3>1. Chain(h, n) = {n} \cup Chain(h, next)
        BY <2>1, ChainStep
      <3> QED
        BY <3>1, <2>5
    <2>6. CASE m = n
      <3>1. n \in Chain(h, n) /\ \A x \in Chain(h, n) : h[x].next \in Chain(h, n) \cup {0}
        BY <2>1, ChainIsClosed DEF IsHeap
      <3>2. h[n].next \in Chain(h, n)
        BY <3>1, <1>2
      <3> QED
        BY <3>2, <2>6
    <2> QED
      BY <2>3, <2>4, <2>5, <2>6
  <1>3. S \in SUBSET DOMAIN h
    BY <1>0
  <1>4. C \subseteq S
    <2> HIDE DEF S
    <2> QED
      BY <1>1, <1>2, <1>3, ChainIsLeast
  <1> QED
    BY <1>4

\* A chain depends on the links of its members only.
LEMMA ChainAgrees ==
  ASSUME NEW h, IsHeap(h), NEW g, IsHeap(g), NEW s \in DOMAIN h \cup {0},
         \A n \in Chain(h, s) : n \in DOMAIN g /\ g[n].next = h[n].next
  PROVE  Chain(g, s) = Chain(h, s)
  <1> DEFINE C == Chain(h, s)
             D == Chain(g, s)
  <1>1. /\ C \subseteq DOMAIN h
        /\ s \in C \cup {0}
        /\ \A m \in C : h[m].next \in C \cup {0}
    BY ChainIsClosed
  <1>2. C \in SUBSET DOMAIN g
    OBVIOUS
  <1>3. D \subseteq C
    <2> HIDE DEF C
    <2> QED
      BY <1>1, <1>2, ChainIsLeast DEF C
  <1>4. s \in DOMAIN g \cup {0}
    BY <1>1
  <1>5. /\ D \subseteq DOMAIN g
        /\ s \in D \cup {0}
        /\ \A m \in D : g[m].next \in D \cup {0}
    BY <1>4, ChainIsClosed
  <1>6. \A m \in D : h[m].next \in D \cup {0}
    BY <1>3, <1>5
  <1>7. D \in SUBSET DOMAIN h
    BY <1>1, <1>3
  <1>8. C \subseteq D
    <2> HIDE DEF D
    <2> QED
      BY <1>5, <1>6, <1>7, ChainIsLeast
  <1> QED
    BY <1>3, <1>8

\* A link that skips one association takes it, and no other, out of a chain.
LEMMA ChainSkips ==
  ASSUME NEW h, IsHeap(h), NEW g, IsHeap(g), DOMAIN g = DOMAIN h,
         NEW p \in DOMAIN h, NEW f \in DOMAIN h, h[p].next = f, g[p].next = h[f].next,
         \A n \in DOMAIN h \ {p} : g[n].next = h[n].next,
         NEW s \in DOMAIN h \cup {0}
  PROVE  /\ Chain(g, s) \subseteq Chain(h, s)
         /\ Chain(h, s) \subseteq Chain(g, s) \cup {f}
  <1> DEFINE C == Chain(h, s)
             D == Chain(g, s)
  <1>1. C \subseteq DOMAIN h /\ s \in C \cup {0} /\ \A m \in C : h[m].next \in C \cup {0}
    BY ChainIsClosed
  <1>2. D \subseteq DOMAIN g /\ s \in D \cup {0} /\ \A m \in D : g[m].next \in D \cup {0}
    BY ChainIsClosed
  <1>3. D \subseteq C
    <2>1. \A m \in C : g[m].next \in C \cup {0}
      <3>1. \A m \in C \ {p} : g[m].next \in C \cup {0}
        BY <1>1
      <3>2. f # 0
        BY DEF IsHeap
      <3>3. p \in C => f \in C
        BY <1>1, <3>2
      <3>4. p \in C => g[p].next \in C \cup {0}
        BY <1>1, <3>3
      <3> QED
        BY <3>1, <3>4
    <2>2. C \in SUBSET DOMAIN g
      BY <1>1
    <2>3. s \in C \cup {0}
      BY <1>1
    <2> HIDE DEF C
    <2> QED
      BY <2>1, <2>2, <2>3, ChainIsLeast
  <1>4. C \subseteq D \cup {f}
    <2>0. p # f
      BY DEF IsHeap
    <2>1. CASE p \in D
      <3> DEFINE S == D \cup {f}
      <3>1. S \in SUBSET DOMAIN h
        BY <1>2
      <3>2. \A m \in S : h[m].next \in S \cup {0}
        BY <1>2, <2>0, <2>1
      <3>3. s \in S \cup {0}
        BY <1>2
      <3> HIDE DEF S, D
      <3>4. C \subseteq S
        BY <3>1, <3>2, <3>3, ChainIsLeast
      <3> QED
        BY <3>4 DEF S
    <2>2. CASE p \notin D
      <3>1. \A m \in D : h[m].next \in D \cup {0}
        BY <1>2, <2>2
      <3>2. D \in SUBSET DOMAIN h
        BY <1>2
      <3> HIDE DEF D
      <3>3. C \subseteq D
        BY <1>2, <3>1, <3>2, ChainIsLeast
      <3> QED
        BY <3>3
    <2> QED
      BY <2>1, <2>2
  <1> QED
    BY <1>3, <1>4

-----------------------------------------------------------------------------
(* Dictionaries: an array of chains.                                       *)

\* A name is in the chain of its hash value, once.
Shape(h, d) ==
  /\ IsHeap(h)
  /\ \A n \in DOMAIN h :
       /\ h[n].key \in Keys
       /\ h[n].next # 0 => Hash(h[h[n].next].key) = Hash(h[n].key)
  /\ \A b \in Buckets :
       /\ d[b] \in DOMAIN h \cup {0}
       /\ d[b] # 0 => Hash(h[d[b]].key) = b
       /\ \A m, n \in Chain(h, d[b]) : h[m].key = h[n].key => m = n

\* Find and Value, of any heap and array.
HoldersIn(h, d, k) == {n \in Chain(h, d[Hash(k)]) : h[n].key = k}
FindIn(h, d, k) == CHOOSE n \in HoldersIn(h, d, k) \cup {0} : HoldersIn(h, d, k) \subseteq Chain(h, n)
ValueIn(h, d, k) == IF FindIn(h, d, k) = 0 THEN "NULL" ELSE h[FindIn(h, d, k)].value
MappedIn(h, d, k) == IF ValueIn(h, d, k) = "uninit" THEN "NULL" ELSE ValueIn(h, d, k)

LEMMA HashInBuckets == ASSUME NEW k \in Keys PROVE Hash(k) \in Buckets
  BY DictionaryAssumption DEF Hash, Buckets

\* The names of a chain have its hash value.
LEMMA KeysOfChain ==
  ASSUME NEW h, NEW d, Shape(h, d), NEW b \in Buckets
  PROVE  \A n \in Chain(h, d[b]) : n \in DOMAIN h /\ h[n].key \in Keys /\ Hash(h[n].key) = b
  <1> DEFINE S == {n \in DOMAIN h : Hash(h[n].key) = b}
  <1>1. d[b] \in S \cup {0}
    BY DEF Shape
  <1>2. \A m \in S : h[m].next \in S \cup {0}
    BY DEF Shape, IsHeap
  <1>3. S \in SUBSET DOMAIN h
    OBVIOUS
  <1>4. Chain(h, d[b]) \subseteq S
    <2> HIDE DEF S
    <2> QED
      BY <1>1, <1>2, <1>3, ChainIsLeast
  <1> QED
    BY <1>4 DEF Shape

\* A lookup finds the association of the name, if there is one.
LEMMA FindFacts ==
  ASSUME NEW h, NEW d, Shape(h, d), NEW k \in Keys
  PROVE  /\ FindIn(h, d, k) \in HoldersIn(h, d, k) \cup {0}
         /\ HoldersIn(h, d, k) \subseteq DOMAIN h
         /\ HoldersIn(h, d, k) = {} => FindIn(h, d, k) = 0
         /\ \A n \in HoldersIn(h, d, k) : HoldersIn(h, d, k) = {n} /\ FindIn(h, d, k) = n
         /\ FindIn(h, d, k) = 0 => HoldersIn(h, d, k) = {}
  <1> DEFINE H == HoldersIn(h, d, k)
  <1>0. Hash(k) \in Buckets
    BY HashInBuckets
  <1>1. H \subseteq DOMAIN h /\ 0 \notin DOMAIN h
    BY <1>0, KeysOfChain DEF HoldersIn, Shape, IsHeap
  <1>2. \A m, n \in H : m = n
    BY <1>0 DEF HoldersIn, Shape
  <1>3. ASSUME NEW n \in H PROVE H = {n} /\ FindIn(h, d, k) = n
    <2>1. H = {n}
      BY <1>2
    <2>2. n \in DOMAIN h /\ n # 0
      BY <1>1
    <2>3. n \in Chain(h, n)
      BY <2>2, ChainIsClosed DEF Shape
    <2>4. Chain(h, 0) = {}
      BY NoChain
    <2> HIDE DEF H
    <2>5. FindIn(h, d, k) = CHOOSE m \in H \cup {0} : H \subseteq Chain(h, m)
      BY DEF FindIn, H
    <2> QED
      BY <2>1, <2>3, <2>4, <2>5
  <1>4. ASSUME H = {} PROVE FindIn(h, d, k) = 0
    BY <1>4 DEF FindIn
  <1> QED
    BY <1>1, <1>3, <1>4

\* What the name is mapped to.
LEMMA ValueFacts ==
  ASSUME NEW h, NEW d, Shape(h, d), NEW k \in Keys
  PROVE  /\ HoldersIn(h, d, k) = {} => ValueIn(h, d, k) = "NULL"
         /\ \A n \in HoldersIn(h, d, k) : ValueIn(h, d, k) = h[n].value
  <1>1. 0 \notin DOMAIN h
    BY DEF Shape, IsHeap
  <1> QED
    BY <1>1, FindFacts DEF ValueIn

\* A new association that nothing leads to changes no chain.
LEMMA NewKeepsShape ==
  ASSUME NEW h, NEW d, Shape(h, d), NEW g, NEW x,
         x \in Nat \ {0}, x \notin DOMAIN h, \A n \in DOMAIN h : n < x,
         DOMAIN g = DOMAIN h \cup {x}, \A n \in DOMAIN h : g[n] = h[n],
         g[x].key \in Keys, g[x].next = d[Hash(g[x].key)]
  PROVE  /\ Shape(g, d)
         /\ \A s \in DOMAIN h \cup {0} : Chain(g, s) = Chain(h, s)
  <1>0. Hash(g[x].key) \in Buckets
    BY HashInBuckets
  <1>1. IsHeap(g)
    BY <1>0 DEF Shape, IsHeap
  <1>2. ASSUME NEW s \in DOMAIN h \cup {0} PROVE Chain(g, s) = Chain(h, s)
    <2>1. IsHeap(h)
      BY DEF Shape
    <2>2. \A n \in Chain(h, s) : n \in DOMAIN g /\ g[n].next = h[n].next
      BY <2>1, ChainIsClosed
    <2> QED
      BY <1>1, <2>1, <2>2, ChainAgrees
  <1>3. ASSUME NEW n \in DOMAIN g
        PROVE  g[n].key \in Keys /\ (g[n].next # 0 => Hash(g[g[n].next].key) = Hash(g[n].key))
    <2>1. CASE n = x
      BY <1>0, <2>1 DEF Shape
    <2>2. CASE n # x
      BY <2>2 DEF Shape, IsHeap
    <2> QED
      BY <2>1, <2>2
  <1>4. ASSUME NEW b \in Buckets
        PROVE  /\ d[b] \in DOMAIN g \cup {0}
               /\ d[b] # 0 => Hash(g[d[b]].key) = b
               /\ \A m, n \in Chain(g, d[b]) : g[m].key = g[n].key => m = n
    <2>1. d[b] \in DOMAIN h \cup {0} /\ (d[b] # 0 => Hash(h[d[b]].key) = b)
      BY DEF Shape
    <2>2. Chain(g, d[b]) = Chain(h, d[b])
      BY <1>2, <2>1
    <2>3. \A n \in Chain(h, d[b]) : n \in DOMAIN h
      BY KeysOfChain
    <2> QED
      BY <2>1, <2>2, <2>3 DEF Shape
  <1> QED
    BY <1>1, <1>2, <1>3, <1>4 DEF Shape

\* Storing a value changes no chain.
LEMMA StoreKeepsShape ==
  ASSUME NEW h, NEW d, Shape(h, d), NEW g, DOMAIN g = DOMAIN h,
         \A n \in DOMAIN h : g[n].key = h[n].key /\ g[n].next = h[n].next
  PROVE  /\ Shape(g, d)
         /\ \A s \in DOMAIN h \cup {0} : Chain(g, s) = Chain(h, s)
         /\ \A k \in Keys : HoldersIn(g, d, k) = HoldersIn(h, d, k)
  <1>1. IsHeap(g) /\ IsHeap(h)
    BY DEF Shape, IsHeap
  <1>2. ASSUME NEW s \in DOMAIN h \cup {0}
        PROVE  Chain(g, s) = Chain(h, s) /\ Chain(h, s) \subseteq DOMAIN h
    <2>1. Chain(h, s) \subseteq DOMAIN h
      BY <1>1, ChainIsClosed
    <2>2. \A n \in Chain(h, s) : n \in DOMAIN g /\ g[n].next = h[n].next
      BY <2>1
    <2> QED
      BY <1>1, <2>1, <2>2, ChainAgrees
  <1>3. \A b \in Buckets : d[b] \in DOMAIN h \cup {0}
    BY DEF Shape
  <1>4. \A b \in Buckets : Chain(g, d[b]) = Chain(h, d[b]) /\ Chain(h, d[b]) \subseteq DOMAIN h
    BY <1>2, <1>3
  <1>5. \A b \in Buckets : \A m, n \in Chain(g, d[b]) : g[m].key = g[n].key => m = n
    BY <1>4 DEF Shape
  <1>6. \A n \in DOMAIN g : g[n].key \in Keys /\ (g[n].next # 0 => Hash(g[g[n].next].key) = Hash(g[n].key))
    BY DEF Shape, IsHeap
  <1>7. \A b \in Buckets : d[b] \in DOMAIN g \cup {0} /\ (d[b] # 0 => Hash(g[d[b]].key) = b)
    BY DEF Shape
  <1>8. \A k \in Keys : HoldersIn(g, d, k) = HoldersIn(h, d, k)
    BY <1>4, HashInBuckets DEF HoldersIn
  <1> QED
    BY <1>1, <1>2, <1>5, <1>6, <1>7, <1>8 DEF Shape

\* An association that leads to the first of its chain becomes the first.
LEMMA LinkKeepsShape ==
  ASSUME NEW h, NEW d, Shape(h, d), NEW x \in DOMAIN h,
         h[x].next = d[Hash(h[x].key)], HoldersIn(h, d, h[x].key) = {},
         NEW e, e[Hash(h[x].key)] = x, \A b \in Buckets \ {Hash(h[x].key)} : e[b] = d[b]
  PROVE  /\ Shape(h, e)
         /\ \A k \in Keys :
              HoldersIn(h, e, k) = IF k = h[x].key THEN {x} ELSE HoldersIn(h, d, k)
  <1> DEFINE b0 == Hash(h[x].key)
  <1>0. h[x].key \in Keys /\ b0 \in Buckets /\ IsHeap(h)
    BY HashInBuckets DEF Shape
  <1>1. Chain(h, e[b0]) = {x} \cup Chain(h, d[b0])
    BY <1>0, ChainStep
  <1>2. \A b \in Buckets \ {b0} : e[b] = d[b]
    OBVIOUS
  <1>3. e[b0] = x
    BY <1>0
  <1>4. \A n \in Chain(h, d[b0]) : h[n].key # h[x].key
    BY DEF HoldersIn
  <1>5. ASSUME NEW b \in Buckets
        PROVE  /\ e[b] \in DOMAIN h \cup {0}
               /\ e[b] # 0 => Hash(h[e[b]].key) = b
               /\ \A m, n \in Chain(h, e[b]) : h[m].key = h[n].key => m = n
    <2>1. CASE b = b0
      BY <1>1, <1>3, <1>4, <2>1 DEF Shape
    <2>2. CASE b # b0
      BY <1>2, <2>2 DEF Shape
    <2> QED
      BY <2>1, <2>2
  <1>6. ASSUME NEW k \in Keys
        PROVE  HoldersIn(h, e, k) = IF k = h[x].key THEN {x} ELSE HoldersIn(h, d, k)
    <2>1. Hash(k) \in Buckets
      BY HashInBuckets
    <2>2. CASE Hash(k) = b0
      <3>1. HoldersIn(h, e, k) = {n \in {x} \cup Chain(h, d[b0]) : h[n].key = k}
        BY <1>1, <2>2 DEF HoldersIn
      <3>2. HoldersIn(h, d, k) = {n \in Chain(h, d[b0]) : h[n].key = k}
        BY <2>2 DEF HoldersIn
      <3> QED
        BY <1>4, <3>1, <3>2
    <2>3. CASE Hash(k) # b0
      BY <1>2, <2>1, <2>3 DEF HoldersIn
    <2> QED
      BY <2>2, <2>3
  <1> QED
    BY <1>5, <1>6 DEF Shape

\* An association f is taken out, and nothing else changes.
Removed(h, d, g, e, f) ==
  /\ Shape(g, e)
  /\ DOMAIN g = DOMAIN h
  /\ \A n \in DOMAIN h : g[n].key = h[n].key /\ g[n].value = h[n].value
  /\ \A s \in DOMAIN h \cup {0} :
       Chain(g, s) \subseteq Chain(h, s) /\ Chain(h, s) \subseteq Chain(g, s) \cup {f}
  /\ \A k \in Keys : HoldersIn(g, e, k) = HoldersIn(h, d, k) \ {f}

\* Taking out the first of a chain.
LEMMA RemoveFirst ==
  ASSUME NEW h, NEW d, Shape(h, d), NEW b0 \in Buckets, d[b0] # 0,
         NEW e, e[b0] = h[d[b0]].next, \A b \in Buckets \ {b0} : e[b] = d[b]
  PROVE  Removed(h, d, h, e, d[b0])
  <1> DEFINE f == d[b0]
  <1>0. f \in DOMAIN h /\ Hash(h[f].key) = b0 /\ IsHeap(h)
    BY DEF Shape
  <1>1. Chain(h, f) = {f} \cup Chain(h, e[b0]) /\ f \notin Chain(h, e[b0])
    <2>1. e[b0] = h[f].next /\ ~(f < f)
      BY <1>0 DEF IsHeap
    <2> QED
      BY <1>0, <2>1, ChainStep
  <1>2. \A b \in Buckets \ {b0} : e[b] = d[b]
    OBVIOUS
  <1>3. e[b0] \in DOMAIN h \cup {0} /\ (e[b0] # 0 => Hash(h[e[b0]].key) = b0)
    BY <1>0 DEF Shape, IsHeap
  <1>4. \A b \in Buckets : Chain(h, e[b]) \subseteq Chain(h, d[b])
    BY <1>1, <1>2
  <1>5. Shape(h, e)
    BY <1>2, <1>3, <1>4 DEF Shape
  <1>6. ASSUME NEW k \in Keys PROVE HoldersIn(h, e, k) = HoldersIn(h, d, k) \ {f}
    <2>1. CASE Hash(k) = b0
      BY <1>1, <2>1 DEF HoldersIn
    <2>2. CASE Hash(k) # b0
      <3>1. Hash(k) \in Buckets
        BY HashInBuckets
      <3>2. f \notin Chain(h, d[Hash(k)])
        BY <1>0, <2>2, <3>1, KeysOfChain
      <3> QED
        BY <1>2, <2>2, <3>1, <3>2 DEF HoldersIn
    <2> QED
      BY <2>1, <2>2
  <1> QED
    BY <1>5, <1>6 DEF Removed

\* Taking out another: the one before it skips it.
LEMMA RemoveLater ==
  ASSUME NEW h, NEW d, Shape(h, d), NEW b0 \in Buckets,
         NEW p \in Chain(h, d[b0]), h[p].next # 0, NEW g, DOMAIN g = DOMAIN h,
         g[p].next = h[h[p].next].next,
         \A n \in DOMAIN h : g[n].key = h[n].key /\ g[n].value = h[n].value,
         \A n \in DOMAIN h \ {p} : g[n].next = h[n].next
  PROVE  Removed(h, d, g, d, h[p].next)
  <1> DEFINE f == h[p].next
             C == Chain(h, d[b0])
  <1>0. IsHeap(h) /\ d[b0] \in DOMAIN h \cup {0} /\ d[b0] # f
    <2>1. IsHeap(h) /\ d[b0] \in DOMAIN h \cup {0}
      BY DEF Shape
    <2>2. p \in DOMAIN h /\ f \in DOMAIN h /\ f < p
      BY KeysOfChain, <2>1 DEF IsHeap
    <2>3. CASE d[b0] = f
      <3>1. p \in Chain(h, f) /\ ~(p < f) /\ p # f
        BY <2>1, <2>2, <2>3 DEF IsHeap
      <3>2. p \in Chain(h, h[f].next)
        BY <2>1, <2>2, <3>1, ChainStep
      <3> QED
        BY <2>1, <2>2, <3>1, <3>2, ChainStep
    <2> QED
      BY <2>1, <2>3
  <1>1. p \in DOMAIN h /\ f \in DOMAIN h /\ p # f /\ f \in C
    <2>1. p \in DOMAIN h /\ f \in DOMAIN h /\ p # f
      BY KeysOfChain, <1>0 DEF IsHeap
    <2>2. \A m \in C : h[m].next \in C \cup {0}
      BY <1>0, ChainIsClosed
    <2> QED
      BY <2>1, <2>2
  <1>2. IsHeap(g)
    <2>1. p \in Nat /\ f \in Nat /\ h[f].next \in DOMAIN h \cup {0} /\ h[f].next < f /\ f < p
      BY <1>0, <1>1 DEF IsHeap
    <2>2. h[f].next \in Nat
      BY <1>0, <2>1 DEF IsHeap
    <2>3. h[f].next < p
      BY <2>1, <2>2
    <2> QED
      BY <1>0, <1>1, <2>1, <2>3 DEF IsHeap
  <1>3. ASSUME NEW s \in DOMAIN h \cup {0}
        PROVE  Chain(g, s) \subseteq Chain(h, s) /\ Chain(h, s) \subseteq Chain(g, s) \cup {f}
    BY <1>0, <1>1, <1>2, ChainSkips
  <1>4. f \notin Chain(g, d[b0])
    <2> DEFINE S == C \ {f}
    <2>1. C \subseteq DOMAIN h /\ d[b0] \in C \cup {0} /\ \A m \in C : h[m].next \in C \cup {0}
      BY <1>0, ChainIsClosed
    <2>2. ASSUME NEW q \in S, q # p PROVE h[q].next # f
      <3>0. q \in DOMAIN h /\ q \in C
        BY <2>1
      <3>1. SUFFICES ASSUME h[q].next = f PROVE FALSE
        OBVIOUS
      <3>2. f < q /\ f < p
        BY <1>0, <1>1, <3>0, <3>1 DEF IsHeap
      <3>3. Chain(h, q) = {q} \cup Chain(h, f) /\ Chain(h, p) = {p} \cup Chain(h, f)
        BY <1>0, <1>1, <3>0, <3>1, ChainStep
      <3>4. q \in Chain(h, f) \/ p \in Chain(h, f)
        BY <1>0, <2>2, <3>0, <3>3, ChainIsLinear
      <3>5. Chain(h, f) = {f} \cup Chain(h, h[f].next) /\ \A m \in Chain(h, h[f].next) : m < f
        BY <1>0, <1>1, ChainStep
      <3>6. f \in Nat /\ q \in Nat /\ p \in Nat
        BY <1>0, <1>1, <3>0 DEF IsHeap
      <3> QED
        BY <3>2, <3>4, <3>5, <3>6
    <2>3. ASSUME NEW q \in S PROVE g[q].next \in S \cup {0}
      <3>1. CASE q = p
        <4>1. h[f].next \in C \cup {0} /\ h[f].next # f
          <5>1. h[f].next < f /\ f \in Nat
            BY <1>0, <1>1 DEF IsHeap
          <5> QED
            BY <1>1, <2>1, <5>1
        <4> QED
          BY <3>1, <4>1
      <3>2. CASE q # p
        <4>1. g[q].next = h[q].next
          BY <2>1, <3>2
        <4> QED
          BY <2>1, <2>2, <3>2, <4>1
      <3> QED
        BY <3>1, <3>2
    <2>4. S \in SUBSET DOMAIN g /\ d[b0] \in S \cup {0}
      BY <1>0, <2>1
    <2> HIDE DEF S, C
    <2>5. Chain(g, d[b0]) \subseteq S
      BY <2>3, <2>4, ChainIsLeast
    <2> QED
      BY <2>5 DEF S
  <1>5. \A n \in DOMAIN g : g[n].key \in Keys /\ (g[n].next # 0 => Hash(g[g[n].next].key) = Hash(g[n].key))
    <2>1. ASSUME NEW n \in DOMAIN g, n # p
          PROVE  g[n].key \in Keys /\ (g[n].next # 0 => Hash(g[g[n].next].key) = Hash(g[n].key))
      BY <2>1 DEF Shape, IsHeap
    <2>2. g[p].key \in Keys /\ (g[p].next # 0 => Hash(g[g[p].next].key) = Hash(g[p].key))
      <3>1. Hash(h[f].key) = Hash(h[p].key) /\ h[p].key \in Keys
        BY <1>1 DEF Shape
      <3>2. h[f].next # 0 => Hash(h[h[f].next].key) = Hash(h[f].key) /\ h[f].next \in DOMAIN h
        BY <1>1 DEF Shape, IsHeap
      <3> QED
        BY <1>1, <3>1, <3>2
    <2> QED
      BY <2>1, <2>2
  <1>6. \A b \in Buckets :
          /\ d[b] \in DOMAIN h \cup {0}
          /\ d[b] # 0 => Hash(h[d[b]].key) = b
          /\ Chain(g, d[b]) \subseteq Chain(h, d[b])
          /\ Chain(h, d[b]) \subseteq Chain(g, d[b]) \cup {f}
          /\ Chain(h, d[b]) \subseteq DOMAIN h
    BY <1>3, KeysOfChain DEF Shape
  <1>7. \A b \in Buckets : \A m, n \in Chain(g, d[b]) : g[m].key = g[n].key => m = n
    BY <1>6 DEF Shape
  <1>8. Shape(g, d)
    BY <1>2, <1>5, <1>6, <1>7 DEF Shape
  <1>9. ASSUME NEW k \in Keys PROVE HoldersIn(g, d, k) = HoldersIn(h, d, k) \ {f}
    <2>1. Hash(k) \in Buckets
      BY HashInBuckets
    <2>2. f \notin Chain(g, d[Hash(k)])
      <3>1. CASE Hash(k) = b0
        BY <1>4, <3>1
      <3>2. CASE Hash(k) # b0
        BY <1>1, <1>6, <2>1, <3>2, KeysOfChain
      <3> QED
        BY <3>1, <3>2
    <2> QED
      BY <1>6, <2>1, <2>2 DEF HoldersIn
  <1> QED
    BY <1>3, <1>8, <1>9 DEF Removed

-----------------------------------------------------------------------------
(* The inductive invariant.                                                *)

\* What the calls of dput under way have made of the chains.
PutInv ==
  /\ put = "link" =>
       /\ node \in Nodes
       /\ heap[node].next = dic[Hash(heap[node].key)]
       /\ heap[node].value = "uninit"
       /\ HoldersIn(heap, dic, heap[node].key) = {}
  /\ put = "value" => node \in Nodes /\ node \in HoldersIn(heap, dic, heap[node].key)
  /\ put # "idle" => arg \in Values

\* A lookup knows what its name is mapped to and, of every association of that
\* name that it can still reach, in its chain or taken out of it, the value.
\* It can reach one, unless the name was mapped to nothing meanwhile.
Reachable == {n \in Chain(heap, np) : heap[n].key = key}

ReadInv ==
  /\ np \in Nodes \cup {0}
  /\ look \in {"walk", "value"} =>
       ValueIn(heap, dic, key) \in seen /\ \A n \in Reachable : heap[n].value \in seen
  /\ look = "walk" => "NULL" \in seen \/ Reachable # {}
  /\ look = "value" => np \in Nodes /\ heap[np].key = key
  /\ LookupCurrent

IInv == TypeOK /\ Shape(heap, dic) /\ PutInv /\ ReadInv

-----------------------------------------------------------------------------

\* The associations of a well-typed heap are numbered from 1.
LEMMA TypeFacts ==
  ASSUME TypeOK
  PROVE  /\ Nodes = 1 .. Len(heap) /\ Len(heap) \in Nat
         /\ \A n \in Nodes : heap[n] \in [key : Keys, value : Values \cup {"uninit"}, next : 0..MaxPuts]
         /\ DOMAIN dic = Buckets
  <1> DEFINE R == [key : Keys, value : Values \cup {"uninit"}, next : 0..MaxPuts]
  <1>1. heap \in Seq(R) /\ dic \in [Buckets -> 0..MaxPuts]
    BY DEF TypeOK
  <1> HIDE DEF R
  <1>2. DOMAIN heap = 1 .. Len(heap) /\ Len(heap) \in Nat /\ \A n \in 1 .. Len(heap) : heap[n] \in R
    BY <1>1, LenProperties, ElementOfSeq
  <1> QED
    BY <1>1, <1>2 DEF R, Nodes

\* Find, Value and Mapped are what they are of the heap and the array.
LEMMA MeaningOfValue ==
  ASSUME Shape(heap, dic), NEW k \in Keys
  PROVE  /\ Find(k) = FindIn(heap, dic, k)
         /\ Value(k) = ValueIn(heap, dic, k)
         /\ Mapped(k) = MappedIn(heap, dic, k)
  <1>1. Find(k) = FindIn(heap, dic, k)
    BY DEF Find, FindIn, Holders, HoldersIn
  <1>2. Find(k) \in Nodes \cup {0}
    BY <1>1, FindFacts DEF Nodes
  <1>3. Load[Find(k)] = ValueIn(heap, dic, k)
    BY <1>1, <1>2 DEF Load, ValueIn
  <1>4. Settled[Find(k)] = MappedIn(heap, dic, k)
    BY <1>2, <1>3 DEF Settled, MappedIn
  <1> QED
    BY <1>1, <1>3, <1>4 DEF Value, Mapped

\* The same in the next state.
LEMMA NextMeaningOfValue ==
  ASSUME Shape(heap', dic'), NEW k \in Keys
  PROVE  /\ Value(k)' = ValueIn(heap', dic', k)
         /\ Mapped(k)' = MappedIn(heap', dic', k)
  <1>1. Find(k)' = FindIn(heap', dic', k)
    BY DEF Find, FindIn, Holders, HoldersIn
  <1>2. Find(k)' \in Nodes' \cup {0}
    BY <1>1, FindFacts DEF Nodes
  <1>3. Load'[Find(k)'] = ValueIn(heap', dic', k)
    BY <1>1, <1>2 DEF Load, ValueIn
  <1>4. Settled'[Find(k)'] = MappedIn(heap', dic', k)
    BY <1>2, <1>3 DEF Settled, MappedIn
  <1> QED
    BY <1>1, <1>3, <1>4 DEF Value, Mapped

\* What each store of the writer does to whoever walks a chain: no name of an
\* association changes, a value changes only to what the name is then mapped
\* to, and an association that is no longer met has a name that is then
\* mapped to nothing.
Effect ==
  /\ Shape(heap, dic)'
  /\ Nodes \subseteq Nodes'
  /\ \A n \in Nodes :
       /\ heap'[n].key = heap[n].key
       /\ heap'[n].value = heap[n].value \/ heap'[n].value = ValueIn(heap', dic', heap[n].key)
  /\ \A s \in Nodes \cup {0} :
       /\ Chain(heap', s) \subseteq Chain(heap, s)
       /\ \A n \in Chain(heap, s) :
            n \in Chain(heap', s) \/ ValueIn(heap', dic', heap[n].key) = "NULL"

\* The name k becomes mapped to v, and no other name changes.
Becomes(k, v) ==
  \A j \in Keys : MappedIn(heap', dic', j) = IF j = k THEN v ELSE MappedIn(heap, dic, j)

Same == \A j \in Keys : MappedIn(heap', dic', j) = MappedIn(heap, dic, j)

\* What a name is mapped to depends on its association only.
LEMMA SameHolders ==
  ASSUME NEW h, NEW d, Shape(h, d), NEW g, NEW e, Shape(g, e), NEW k \in Keys,
         HoldersIn(g, e, k) = HoldersIn(h, d, k),
         \A n \in HoldersIn(h, d, k) : g[n].value = h[n].value
  PROVE  ValueIn(g, e, k) = ValueIn(h, d, k) /\ MappedIn(g, e, k) = MappedIn(h, d, k)
  <1>1. ValueIn(g, e, k) = ValueIn(h, d, k)
    <2>1. CASE HoldersIn(h, d, k) = {}
      BY <2>1, ValueFacts
    <2>2. ASSUME NEW n \in HoldersIn(h, d, k) PROVE ValueIn(g, e, k) = ValueIn(h, d, k)
      BY ValueFacts
    <2> QED
      BY <2>1, <2>2
  <1> QED
    BY <1>1 DEF MappedIn

\* dput maps no name to anything before it stores the value.
LEMMA DPutEffect ==
  ASSUME IInv, NEW k \in Keys, NEW v \in Values, DPut(k, v)
  PROVE  Effect /\ Same /\ PutInv'
  <1> USE DEF IInv
  <1>0. /\ Nodes = 1 .. Len(heap) /\ Len(heap) \in Nat /\ DOMAIN dic = Buckets
        /\ Hash(k) \in Buckets
    BY TypeFacts, HashInBuckets
  <1>1. CASE Find(k) # 0
    <2>1. /\ UNCHANGED <<heap, dic>> /\ node' = Find(k) /\ put' = "value" /\ arg' = v
      BY <1>1 DEF DPut
    <2>2. Find(k) \in HoldersIn(heap, dic, k)
      BY <1>1, MeaningOfValue, FindFacts
    <2>3. Find(k) \in Nodes /\ heap[Find(k)].key = k
      BY <2>2, FindFacts DEF HoldersIn, Nodes
    <2>4. PutInv'
      BY <2>1, <2>2, <2>3 DEF PutInv, Nodes
    <2>5. Effect /\ Same
      BY <2>1 DEF Effect, Same, Nodes
    <2> QED
      BY <2>4, <2>5
  <1>2. CASE Find(k) = 0
    <2> DEFINE x == Len(heap) + 1
    <2>1. /\ heap' = Append(heap, [key |-> k, value |-> "uninit", next |-> dic[Hash(k)]])
          /\ node' = Len(heap') /\ put' = "link" /\ arg' = v /\ dic' = dic
      BY <1>2 DEF DPut
    <2>2. /\ DOMAIN heap' = DOMAIN heap \cup {x} /\ node' = x
          /\ \A n \in DOMAIN heap : heap'[n] = heap[n]
          /\ heap'[x] = [key |-> k, value |-> "uninit", next |-> dic[Hash(k)]]
          /\ x \in Nat \ {0} /\ x \notin DOMAIN heap /\ \A n \in DOMAIN heap : n < x
      BY <1>0, <2>1 DEF TypeOK, Nodes
    <2> HIDE DEF x
    <2>3. /\ Shape(heap', dic')
          /\ \A s \in Nodes \cup {0} : Chain(heap', s) = Chain(heap, s)
      <3>1. heap'[x].key \in Keys /\ heap'[x].next = dic[Hash(heap'[x].key)]
        BY <2>2
      <3>2. /\ Shape(heap', dic)
            /\ \A s \in DOMAIN heap \cup {0} : Chain(heap', s) = Chain(heap, s)
        BY <2>2, <3>1, NewKeepsShape
      <3> QED
        BY <2>1, <3>2 DEF Nodes
    <2>4. \A b \in Buckets : dic[b] \in Nodes \cup {0} /\ Chain(heap, dic[b]) \subseteq Nodes
      BY KeysOfChain DEF Shape, Nodes
    <2>5. ASSUME NEW j \in Keys
          PROVE  HoldersIn(heap', dic', j) = HoldersIn(heap, dic, j) /\ HoldersIn(heap, dic, j) \subseteq Nodes
      <3>1. Hash(j) \in Buckets
        BY HashInBuckets
      <3> QED
        BY <2>1, <2>2, <2>3, <2>4, <3>1 DEF HoldersIn, Nodes
    <2>6. Same
      BY <2>2, <2>3, <2>5, SameHolders DEF Same, Nodes
    <2>7. Effect
      BY <2>2, <2>3 DEF Effect, Nodes
    <2>8. HoldersIn(heap, dic, k) = {}
      BY <1>2, MeaningOfValue, FindFacts
    <2>9. PutInv'
      BY <2>1, <2>2, <2>5, <2>8 DEF PutInv, Nodes
    <2> QED
      BY <2>6, <2>7, <2>9
  <1> QED
    BY <1>1, <1>2

\* Nor when it links the new association, whose value is not set.
LEMMA LinkEffect ==
  ASSUME IInv, Link
  PROVE  Effect /\ Same /\ PutInv'
  <1> USE DEF IInv
  <1>0. /\ put = "link" /\ put' = "value" /\ heap' = heap /\ node' = node /\ arg' = arg
        /\ dic' = [dic EXCEPT ![Hash(heap[node].key)] = node]
        /\ node \in Nodes /\ DOMAIN dic = Buckets
    BY TypeFacts DEF Link, PutInv
  <1>1. /\ Shape(heap', dic')
        /\ \A j \in Keys : HoldersIn(heap', dic', j) =
             IF j = heap[node].key THEN {node} ELSE HoldersIn(heap, dic, j)
    <2>1. /\ Shape(heap, dic)
          /\ dic'[Hash(heap[node].key)] = node
          /\ \A b \in Buckets \ {Hash(heap[node].key)} : dic'[b] = dic[b]
          /\ node \in DOMAIN heap
          /\ heap[node].next = dic[Hash(heap[node].key)]
          /\ HoldersIn(heap, dic, heap[node].key) = {}
      <3>1. Hash(heap[node].key) \in Buckets
        BY <1>0, TypeFacts, HashInBuckets
      <3> QED
        BY <1>0, <3>1 DEF PutInv, Nodes
    <2>2. /\ Shape(heap, dic')
          /\ \A j \in Keys : HoldersIn(heap, dic', j) =
               IF j = heap[node].key THEN {node} ELSE HoldersIn(heap, dic, j)
      BY ONLY <2>1, LinkKeepsShape
    <2> QED
      BY <1>0, <2>2
  <1>2. ASSUME NEW j \in Keys PROVE MappedIn(heap', dic', j) = MappedIn(heap, dic, j)
    <2>1. CASE j = heap[node].key
      <3>1. ValueIn(heap, dic, j) = "NULL"
        BY <1>0, <2>1, ValueFacts DEF PutInv
      <3>2. ValueIn(heap', dic', j) = "uninit"
        <4>1. node \in HoldersIn(heap', dic', j)
          BY <1>1, <2>1
        <4>2. ValueIn(heap', dic', j) = heap'[node].value
          BY <1>1, <4>1, ValueFacts
        <4> QED
          BY <1>0, <4>2 DEF PutInv
      <3> QED
        BY <3>1, <3>2 DEF MappedIn
    <2>2. CASE j # heap[node].key
      <3>1. HoldersIn(heap', dic', j) = HoldersIn(heap, dic, j)
        BY <1>1, <2>2
      <3>2. \A n \in HoldersIn(heap, dic, j) : heap'[n].value = heap[n].value
        BY <1>0
      <3> QED
        BY <1>1, <3>1, <3>2, SameHolders
    <2> QED
      BY <2>1, <2>2
  <1>3. Effect
    BY <1>0, <1>1 DEF Effect, Nodes
  <1>4. heap[node].key \in Keys
    BY <1>0, TypeFacts
  <1>5. PutInv'
    BY <1>0, <1>1, <1>4 DEF PutInv, Nodes
  <1> QED
    BY <1>2, <1>3, <1>5 DEF Same

\* What the last store of dput does: the name is mapped to the value.
LEMMA StoreEffect ==
  ASSUME IInv, StoreValue
  PROVE  Effect /\ Becomes(heap[node].key, arg) /\ PutInv'
  <1> USE DEF IInv
  <1> DEFINE j0 == heap[node].key
  <1>0. /\ put = "value" /\ put' = "idle" /\ dic' = dic
        /\ heap' = [heap EXCEPT ![node].value = arg]
        /\ node \in Nodes /\ node \in HoldersIn(heap, dic, j0) /\ arg \in Values
    BY DEF StoreValue, PutInv
  <1>1. /\ DOMAIN heap' = DOMAIN heap /\ heap'[node].value = arg /\ j0 \in Keys
        /\ \A n \in DOMAIN heap : heap'[n].key = heap[n].key /\ heap'[n].next = heap[n].next
        /\ \A n \in DOMAIN heap \ {node} : heap'[n].value = heap[n].value
    <2>1. /\ DOMAIN heap' = DOMAIN heap
          /\ \A n \in DOMAIN heap \ {node} : heap'[n] = heap[n]
          /\ heap'[node] = [heap[node] EXCEPT !.value = arg]
      BY <1>0 DEF Nodes
    <2>2. heap[node] \in [key : Keys, value : Values \cup {"uninit"}, next : 0..MaxPuts]
      BY <1>0, TypeFacts
    <2>3. heap'[node].value = arg /\ heap'[node].key = j0 /\ heap'[node].next = heap[node].next
      BY <2>1, <2>2
    <2> QED
      BY <2>1, <2>2, <2>3
  <1> HIDE DEF j0
  <1>2. /\ Shape(heap', dic')
        /\ \A s \in DOMAIN heap \cup {0} : Chain(heap', s) = Chain(heap, s)
        /\ \A k \in Keys : HoldersIn(heap', dic', k) = HoldersIn(heap, dic, k)
    BY <1>0, <1>1, StoreKeepsShape
  <1>3. ValueIn(heap', dic', j0) = arg
    <2>1. node \in HoldersIn(heap', dic', j0)
      BY <1>0, <1>1, <1>2
    <2> QED
      BY <1>1, <1>2, <2>1, ValueFacts
  <1>4. Becomes(j0, arg)
    <2>1. MappedIn(heap', dic', j0) = arg
      BY <1>0, <1>3, DictionaryAssumption DEF MappedIn
    <2>2. ASSUME NEW j \in Keys, j # j0 PROVE MappedIn(heap', dic', j) = MappedIn(heap, dic, j)
      <3>1. HoldersIn(heap, dic, j) \subseteq DOMAIN heap
        BY FindFacts
      <3>2. \A n \in HoldersIn(heap, dic, j) : heap'[n].value = heap[n].value
        BY <1>1, <2>2, <3>1 DEF HoldersIn, j0
      <3> QED
        BY <1>2, <3>2, SameHolders
    <2> QED
      BY <2>1, <2>2 DEF Becomes
  <1>5. Effect
    BY <1>0, <1>1, <1>2, <1>3 DEF Effect, Nodes, j0
  <1>6. PutInv'
    BY <1>0 DEF PutInv
  <1> QED
    BY <1>4, <1>5, <1>6 DEF j0

\* What taking out the association of a name does.
LEMMA RemovedEffect ==
  ASSUME Shape(heap, dic), NEW k \in Keys, NEW f \in HoldersIn(heap, dic, k),
         Removed(heap, dic, heap', dic', f)
  PROVE  Effect /\ Becomes(k, "NULL")
  <1>1. f \in Nodes /\ heap[f].key = k /\ HoldersIn(heap, dic, k) = {f}
    BY FindFacts DEF HoldersIn, Nodes
  <1>2. ValueIn(heap', dic', k) = "NULL"
    BY <1>1, ValueFacts DEF Removed
  <1>3. ASSUME NEW j \in Keys, j # k PROVE MappedIn(heap', dic', j) = MappedIn(heap, dic, j)
    <2>1. HoldersIn(heap, dic, j) \subseteq DOMAIN heap
      BY FindFacts
    <2>2. f \notin HoldersIn(heap, dic, j)
      BY <1>1, <1>3 DEF HoldersIn
    <2>3. HoldersIn(heap', dic', j) = HoldersIn(heap, dic, j)
      BY <2>2 DEF Removed
    <2>4. \A n \in HoldersIn(heap, dic, j) : heap'[n].value = heap[n].value
      BY <2>1 DEF Removed
    <2> QED
      BY <2>3, <2>4, SameHolders DEF Removed
  <1>4. Becomes(k, "NULL")
    BY <1>2, <1>3 DEF Becomes, MappedIn
  <1>5. Effect
    BY <1>1, <1>2 DEF Effect, Removed, Nodes
  <1> QED
    BY <1>4, <1>5

\* dremove maps the name to nothing.
LEMMA RemoveEffect ==
  ASSUME IInv, NEW k \in Keys, DRemove(k)
  PROVE  Effect /\ Becomes(k, "NULL") /\ PutInv'
  <1> USE DEF IInv
  <1> DEFINE f == Find(k)
             b0 == Hash(k)
             C == Chain(heap, dic[b0])
  <1>0. put' = "idle" /\ b0 \in Buckets /\ DOMAIN dic = Buckets
    BY HashInBuckets, TypeFacts DEF DRemove
  <1>1. PutInv'
    BY <1>0 DEF PutInv
  <1>2. CASE f = 0
    <2>1. heap' = heap /\ dic' = dic
      BY <1>2 DEF DRemove
    <2>2. MappedIn(heap, dic, k) = "NULL"
      BY <1>2, MeaningOfValue DEF MappedIn, ValueIn
    <2>3. Effect /\ Becomes(k, "NULL")
      BY <2>1, <2>2 DEF Effect, Becomes, Nodes
    <2> QED
      BY <1>1, <2>3
  <1>3. CASE f # 0
    <2>1. f \in HoldersIn(heap, dic, k) /\ f \in C /\ f \in DOMAIN heap
      BY <1>3, MeaningOfValue, FindFacts DEF HoldersIn
    <2>2. CASE f = dic[b0]
      <3>1. dic' = [dic EXCEPT ![b0] = heap[@].next] /\ heap' = heap
        BY <1>3, <2>2 DEF DRemove
      <3>2. dic'[b0] = heap[dic[b0]].next /\ \A b \in Buckets \ {b0} : dic'[b] = dic[b]
        BY <1>0, <3>1
      <3>3. Removed(heap, dic, heap, dic', dic[b0])
        BY <1>0, <1>3, <2>2, <3>2, RemoveFirst
      <3> QED
        BY <1>1, <2>1, <2>2, <3>1, <3>3, RemovedEffect
    <2>3. CASE f # dic[b0]
      <3> DEFINE p == Before(k)
      <3>1. p \in C /\ heap[p].next = f
        <4>1. C \subseteq DOMAIN heap /\ dic[b0] \in C \cup {0} /\ \A m \in C : heap[m].next \in C \cup {0}
          BY <1>0, ChainIsClosed DEF Shape
        <4>2. ASSUME \A m \in C : heap[m].next # f PROVE FALSE
          <5> DEFINE S == C \ {f}
          <5>1. S \in SUBSET DOMAIN heap /\ dic[b0] \in S \cup {0}
            BY <2>3, <4>1
          <5>2. \A m \in S : heap[m].next \in S \cup {0}
            BY <4>1, <4>2
          <5>3. f \notin S
            OBVIOUS
          <5> HIDE DEF S, C
          <5>4. Chain(heap, dic[b0]) \subseteq S
            BY <5>1, <5>2, ChainIsLeast
          <5> QED
            BY <2>1, <5>3, <5>4 DEF C
        <4> QED
          BY <4>2 DEF Before
      <3>2. p \in DOMAIN heap
        BY <1>0, <3>1, KeysOfChain
      <3>3. heap' = [heap EXCEPT ![p].next = heap[f].next] /\ dic' = dic
        BY <1>3, <2>3 DEF DRemove
      <3>4. /\ DOMAIN heap' = DOMAIN heap
            /\ \A n \in DOMAIN heap \ {p} : heap'[n] = heap[n]
            /\ heap'[p] = [heap[p] EXCEPT !.next = heap[f].next]
        BY <3>2, <3>3
      <3>5. heap[p] \in [key : Keys, value : Values \cup {"uninit"}, next : 0..MaxPuts]
        BY <3>2, TypeFacts DEF Nodes
      <3>6. heap'[p].key = heap[p].key /\ heap'[p].value = heap[p].value /\ heap'[p].next = heap[f].next
        BY <3>4, <3>5
      <3> HIDE DEF p, f, C
      <3>7. Removed(heap, dic, heap', dic, f)
        <4>1. /\ p \in Chain(heap, dic[b0])
              /\ heap[p].next # 0
              /\ heap'[p].next = heap[heap[p].next].next
              /\ \A n \in DOMAIN heap : heap'[n].key = heap[n].key /\ heap'[n].value = heap[n].value
              /\ \A n \in DOMAIN heap \ {p} : heap'[n].next = heap[n].next
          BY <1>3, <3>1, <3>4, <3>6 DEF C
        <4>2. Removed(heap, dic, heap', dic, heap[p].next)
          BY <1>0, <3>4, <4>1, RemoveLater
        <4> QED
          BY <3>1, <4>2
      <3> QED
        BY <1>1, <2>1, <3>3, <3>7, RemovedEffect
    <2> QED
      BY <2>2, <2>3
  <1> QED
    BY <1>2, <1>3

-----------------------------------------------------------------------------
(* The lookup.                                                             *)

\* No step of the writer leads a lookup astray.
LEMMA ReadByWriter ==
  ASSUME IInv, Effect, WriterStep
  PROVE  ReadInv'
  <1> USE DEF IInv
  <1>0. /\ look' = look /\ key' = key /\ np' = np /\ result' = result
        /\ seen' = IF look \in {"walk", "value"} THEN seen \cup {Value(key)'} ELSE seen
        /\ key \in Keys
    BY DEF WriterStep, Record, TypeOK
  <1>1. Value(key)' = ValueIn(heap', dic', key)
    <2>1. Shape(heap', dic') /\ key' = key /\ key \in Keys
      BY <1>0 DEF Effect
    <2>2. Find(key)' = FindIn(heap', dic', key)
      BY <2>1 DEF Find, FindIn, Holders, HoldersIn
    <2>3. Find(key)' \in Nodes' \cup {0}
      BY <2>1, <2>2, FindFacts DEF Nodes
    <2>4. Load'[Find(key)'] = ValueIn(heap', dic', key)
      BY <2>2, <2>3 DEF Load, ValueIn
    <2> QED
      BY <2>4 DEF Value
  <1>2. IsHeap(heap) /\ Chain(heap, np) \subseteq Nodes
    BY ChainIsClosed DEF Shape, ReadInv, Nodes
  <1>3. np' \in Nodes' \cup {0}
    BY <1>0 DEF ReadInv, Effect
  <1>4. ASSUME look \in {"walk", "value"}
        PROVE  ValueIn(heap', dic', key) \in seen' /\ \A n \in Reachable' : heap'[n].value \in seen'
    <2>1. ValueIn(heap', dic', key) \in seen' /\ seen \subseteq seen'
      BY <1>0, <1>1, <1>4
    <2>2. ASSUME NEW n \in Reachable' PROVE heap'[n].value \in seen'
      <3>1. n \in Chain(heap', np) /\ heap'[n].key = key
        BY <1>0 DEF Reachable
      <3>2. n \in Chain(heap, np) /\ n \in Nodes
        BY <1>2, <3>1 DEF Effect, ReadInv
      <3>3. heap[n].key = key
        BY <3>1, <3>2 DEF Effect
      <3>4. heap[n].value \in seen
        BY <1>4, <3>2, <3>3 DEF ReadInv, Reachable
      <3> QED
        BY <2>1, <3>2, <3>3, <3>4 DEF Effect
    <2> QED
      BY <2>1, <2>2
  <1>5. ASSUME look = "walk" PROVE "NULL" \in seen' \/ Reachable' # {}
    <2>1. CASE "NULL" \in seen
      BY <1>0, <2>1
    <2>2. ASSUME NEW n \in Reachable PROVE "NULL" \in seen' \/ Reachable' # {}
      <3>1. n \in Chain(heap, np) /\ heap[n].key = key /\ n \in Nodes
        BY <1>2 DEF Reachable
      <3>2. heap'[n].key = key
        BY <3>1 DEF Effect
      <3>3. n \in Chain(heap', np) \/ ValueIn(heap', dic', key) = "NULL"
        BY <3>1 DEF Effect, ReadInv
      <3> QED
        BY <1>0, <1>4, <1>5, <3>2, <3>3 DEF Reachable
    <2> QED
      BY <1>5, <2>1, <2>2 DEF ReadInv
  <1>6. look' = "value" => np' \in Nodes' /\ heap'[np'].key = key'
    BY <1>0 DEF ReadInv, Effect
  <1>7. LookupCurrent'
    BY <1>0 DEF ReadInv, LookupCurrent
  <1> QED
    BY <1>0, <1>3, <1>4, <1>5, <1>6, <1>7 DEF ReadInv

\* A lookup starts at the first association of the chain.
LEMMA DValueKeepsReadInv ==
  ASSUME IInv, NEW k \in Keys, DValue(k)
  PROVE  ReadInv'
  <1> USE DEF IInv
  <1>0. /\ look' = "walk" /\ key' = k /\ np' = dic[Hash(k)] /\ seen' = {ValueIn(heap, dic, k)}
        /\ heap' = heap /\ dic' = dic /\ Hash(k) \in Buckets
    BY MeaningOfValue, HashInBuckets DEF DValue, writerVars
  <1>1. np' \in Nodes' \cup {0}
    BY <1>0 DEF Shape, Nodes
  <1>2. Reachable' = HoldersIn(heap, dic, k)
    BY <1>0 DEF Reachable, HoldersIn
  <1>3. ValueIn(heap, dic, k) \in seen' /\ \A n \in Reachable' : heap[n].value \in seen'
    BY <1>0, <1>2, ValueFacts
  <1>4. "NULL" \in seen' \/ Reachable' # {}
    BY <1>0, <1>2, ValueFacts
  <1>5. LookupCurrent'
    BY <1>0 DEF LookupCurrent
  <1> QED
    BY <1>0, <1>1, <1>3, <1>4, <1>5 DEF ReadInv

\* It goes on to what it can still reach.
LEMMA WalkKeepsReadInv ==
  ASSUME IInv, Walk
  PROVE  ReadInv'
  <1> USE DEF IInv
  <1>0. /\ look = "walk" /\ key' = key /\ seen' = seen /\ heap' = heap /\ dic' = dic
        /\ np \in Nodes \cup {0} /\ 0 \notin Nodes /\ IsHeap(heap)
        /\ ValueIn(heap, dic, key) \in seen /\ \A n \in Reachable : heap[n].value \in seen
        /\ "NULL" \in seen \/ Reachable # {}
    BY DEF Walk, writerVars, ReadInv, Shape, IsHeap, Nodes
  <1>1. CASE np = 0
    <2>1. look' = "done" /\ result' = "NULL" /\ np' = np
      BY <1>1 DEF Walk, Return
    <2>2. Reachable = {}
      BY <1>1, NoChain DEF Reachable
    <2>3. "NULL" \in seen
      BY <1>0, <2>2
    <2> QED
      BY <1>0, <2>1, <2>3 DEF ReadInv, LookupCurrent, Nodes
  <1>2. CASE np # 0 /\ heap[np].key = key
    <2>1. look' = "value" /\ np' = np
      BY <1>2 DEF Walk
    <2>2. Reachable' = Reachable
      BY <1>0, <2>1 DEF Reachable
    <2> QED
      BY <1>0, <1>2, <2>1, <2>2 DEF ReadInv, LookupCurrent, Nodes
  <1>3. CASE np # 0 /\ heap[np].key # key
    <2>1. look' = "walk" /\ np' = heap[np].next
      BY <1>0, <1>3 DEF Walk
    <2>2. np' \in Nodes \cup {0}
      BY <1>0, <1>3, <2>1 DEF IsHeap, Nodes
    <2>3. Chain(heap, np) = {np} \cup Chain(heap, np')
      BY <1>0, <1>3, <2>1, ChainStep DEF Nodes
    <2>4. Reachable' = Reachable
      BY <1>0, <1>3, <2>3 DEF Reachable
    <2> QED
      BY <1>0, <2>1, <2>2, <2>4 DEF ReadInv, LookupCurrent, Nodes
  <1> QED
    BY <1>1, <1>2, <1>3

\* And returns the value of one that it can reach.
LEMMA LoadKeepsReadInv ==
  ASSUME IInv, LoadValue
  PROVE  ReadInv'
  <1> USE DEF IInv
  <1>0. /\ look = "value" /\ look' = "done" /\ result' = heap[np].value
        /\ np' = np /\ key' = key /\ seen' = seen /\ heap' = heap
        /\ np \in Nodes /\ heap[np].key = key /\ IsHeap(heap)
    BY DEF LoadValue, Return, writerVars, ReadInv, Shape
  <1>1. np \in Reachable
    BY <1>0, ChainIsClosed DEF Reachable, Nodes, IsHeap
  <1>2. heap[np].value \in seen
    BY <1>0, <1>1 DEF ReadInv
  <1> QED
    BY <1>0, <1>2 DEF ReadInv, LookupCurrent, Nodes

-----------------------------------------------------------------------------
(* Types.                                                                  *)

Associations == [key : Keys, value : Values \cup {"uninit"}, next : 0..MaxPuts]

\* A changed association keeps the heap typed.
LEMMA HeapExcept ==
  ASSUME heap \in Seq(Associations), NEW n \in DOMAIN heap, NEW a \in Associations,
         heap' = [heap EXCEPT ![n] = a]
  PROVE  heap' \in Seq(Associations)
  <1>1. n \in 1 .. Len(heap)
    BY LenProperties
  <1> QED
    BY <1>1, ExceptSeq

\* What the writer changes stays typed.
WriterTypes ==
  /\ dic \in [Buckets -> 0..MaxPuts]
  /\ heap \in Seq(Associations)
  /\ removes \in 0..MaxRemoves
  /\ put \in {"idle", "link", "value"}
  /\ node \in 0..MaxPuts
  /\ arg \in Values \cup {"NULL"}

LEMMA DPutTypes ==
  ASSUME IInv, NEW k \in Keys, NEW v \in Values, DPut(k, v)
  PROVE  WriterTypes'
  <1> USE DEF IInv
  <1>0. /\ heap \in Seq(Associations) /\ dic \in [Buckets -> 0..MaxPuts] /\ removes \in 0..MaxRemoves
        /\ Nodes = 1 .. Len(heap) /\ Len(heap) \in Nat /\ Len(heap) < MaxPuts /\ MaxPuts \in Nat
        /\ Hash(k) \in Buckets
        /\ removes' = removes /\ dic' = dic /\ arg' = v
    BY TypeFacts, HashInBuckets, DictionaryAssumption DEF TypeOK, Associations, DPut
  <1>1. CASE Find(k) = 0
    <2> DEFINE a == [key |-> k, value |-> "uninit", next |-> dic[Hash(k)]]
    <2>1. heap' = Append(heap, a) /\ node' = Len(heap') /\ put' = "link"
      BY <1>1 DEF DPut
    <2>2. a \in Associations
      BY <1>0 DEF Associations
    <2> HIDE DEF a
    <2>3. heap' \in Seq(Associations) /\ Len(heap') = Len(heap) + 1
      BY <1>0, <2>1, <2>2, AppendProperties
    <2> QED
      BY <1>0, <2>1, <2>3 DEF WriterTypes
  <1>2. CASE Find(k) # 0
    <2>1. heap' = heap /\ node' = Find(k) /\ put' = "value"
      BY <1>2 DEF DPut
    <2>2. Find(k) \in Nodes
      BY <1>2, MeaningOfValue, FindFacts DEF Nodes
    <2> QED
      BY <1>0, <2>1, <2>2 DEF WriterTypes
  <1> QED
    BY <1>1, <1>2

LEMMA StoresTypes ==
  ASSUME IInv, Link \/ StoreValue
  PROVE  WriterTypes'
  <1> USE DEF IInv
  <1>0. /\ heap \in Seq(Associations) /\ dic \in [Buckets -> 0..MaxPuts] /\ removes \in 0..MaxRemoves
        /\ node \in 0..MaxPuts /\ arg \in Values \cup {"NULL"} /\ 0 \in 0..MaxPuts
    BY DictionaryAssumption DEF TypeOK, Associations
  <1>1. CASE Link
    BY <1>0, <1>1 DEF Link, WriterTypes
  <1>2. CASE StoreValue
    <2>1. node \in Nodes /\ arg \in Values
      BY <1>2 DEF StoreValue, PutInv
    <2>2. heap[node] \in Associations
      BY <2>1, TypeFacts DEF Associations
    <2>3. [heap[node] EXCEPT !.value = arg] \in Associations
      BY <2>1, <2>2 DEF Associations
    <2>4. heap' = [heap EXCEPT ![node] = [heap[node] EXCEPT !.value = arg]]
      BY <1>2 DEF StoreValue
    <2>5. heap' \in Seq(Associations)
      BY <1>0, <2>1, <2>3, <2>4, HeapExcept DEF Nodes
    <2> QED
      BY <1>0, <1>2, <2>5 DEF StoreValue, WriterTypes
  <1> QED
    BY <1>1, <1>2

LEMMA DRemoveTypes ==
  ASSUME IInv, NEW k \in Keys, DRemove(k)
  PROVE  WriterTypes'
  <1> USE DEF IInv
  <1>0. /\ heap \in Seq(Associations) /\ dic \in [Buckets -> 0..MaxPuts]
        /\ node \in 0..MaxPuts /\ arg \in Values \cup {"NULL"}
        /\ put \in {"idle", "link", "value"}
        /\ put' = put /\ node' = node /\ arg' = arg /\ removes' \in 0..MaxRemoves
        /\ \A n \in Nodes : heap[n] \in Associations
    BY TypeFacts, DictionaryAssumption DEF TypeOK, Associations, DRemove
  <1>1. CASE Find(k) = 0
    BY <1>0, <1>1 DEF DRemove, WriterTypes
  <1>2. CASE Find(k) # 0
    <2>1. Find(k) \in Nodes /\ Hash(k) \in Buckets
      BY <1>2, MeaningOfValue, FindFacts, HashInBuckets DEF Nodes
    <2>2. heap[Find(k)].next \in 0..MaxPuts
      BY <1>0, <2>1 DEF Associations
    <2>3. CASE Find(k) = dic[Hash(k)]
      <3>1. dic' = [dic EXCEPT ![Hash(k)] = heap[Find(k)].next] /\ heap' = heap
        BY <1>2, <2>3 DEF DRemove
      <3> QED
        BY <1>0, <2>2, <3>1 DEF WriterTypes
    <2>4. CASE Find(k) # dic[Hash(k)]
      <3> DEFINE p == Before(k)
                 a == [heap[p] EXCEPT !.next = heap[Find(k)].next]
      <3>1. heap' = [heap EXCEPT ![p] = a] /\ dic' = dic
        BY <1>2, <2>4 DEF DRemove
      <3>2. CASE p \in Nodes
        <4>1. a \in Associations
          BY <1>0, <2>2, <3>2 DEF Associations
        <4> HIDE DEF a, p
        <4>2. heap' \in Seq(Associations)
          BY <1>0, <3>1, <3>2, <4>1, HeapExcept DEF Nodes
        <4> QED
          BY <1>0, <3>1, <4>2 DEF WriterTypes
      <3>3. CASE p \notin Nodes
        <4>1. heap' = heap
          BY <1>0, <3>1, <3>3 DEF Nodes
        <4> QED
          BY <1>0, <3>1, <4>1 DEF WriterTypes
      <3> QED
        BY <3>2, <3>3
    <2> QED
      BY <2>3, <2>4
  <1> QED
    BY <1>1, <1>2

\* What the lookup changes stays typed.
LEMMA TypeByWriter ==
  ASSUME IInv, Effect, WriterStep, WriterTypes'
  PROVE  TypeOK'
  <1> USE DEF IInv
  <1>0. /\ look' = look /\ key' = key /\ np' = np /\ result' = result /\ key \in Keys
        /\ seen' \subseteq seen \cup {Value(key)'}
        /\ {result} \cup seen \subseteq Values \cup {"uninit", "NULL"}
    BY DEF WriterStep, Record, TypeOK
  <1>1. Value(key)' \in Values \cup {"uninit", "NULL"}
    <2>1. Shape(heap', dic') /\ key' = key
      BY <1>0 DEF Effect
    <2>2. Find(key)' = FindIn(heap', dic', key)
      BY <2>1 DEF Find, FindIn, Holders, HoldersIn
    <2>3. Find(key)' \in Nodes' \cup {0}
      BY <1>0, <2>1, <2>2, FindFacts DEF Nodes
    <2>4. \A n \in Nodes' : heap'[n] \in Associations
      BY LenProperties, ElementOfSeq DEF WriterTypes, Nodes
    <2>5. \A n \in Nodes' : heap'[n].value \in Values \cup {"uninit"}
      BY <2>4 DEF Associations
    <2> QED
      BY <2>3, <2>5 DEF Value, Load
  <1> QED
    BY <1>0, <1>1 DEF TypeOK, WriterTypes, Associations

LEMMA TypeByReader ==
  ASSUME IInv, Walk \/ LoadValue \/ \E k \in Keys : DValue(k)
  PROVE  TypeOK'
  <1> USE DEF IInv
  <1>0. /\ UNCHANGED writerVars
        /\ heap \in Seq(Associations) /\ dic \in [Buckets -> 0..MaxPuts]
        /\ \A n \in Nodes : heap[n].next \in 0..MaxPuts /\ heap[n].value \in Values \cup {"uninit"}
        /\ np \in Nodes \cup {0}
    BY TypeFacts DEF TypeOK, Associations, Walk, LoadValue, DValue, ReadInv
  <1>1. CASE Walk
    BY <1>0, <1>1 DEF TypeOK, writerVars, Walk, Return
  <1>2. CASE LoadValue
    <2>1. heap[np].value \in Values \cup {"uninit"}
      BY <1>0, <1>2 DEF LoadValue, ReadInv
    <2> QED
      BY <1>0, <1>2, <2>1 DEF TypeOK, writerVars, LoadValue, Return
  <1>3. ASSUME NEW k \in Keys, DValue(k) PROVE TypeOK'
    <2>1. Find(k) \in Nodes \cup {0} /\ Hash(k) \in Buckets
      BY MeaningOfValue, FindFacts, HashInBuckets DEF Nodes
    <2>2. Value(k) \in Values \cup {"uninit", "NULL"}
      BY <1>0, <2>1 DEF Value, Load
    <2> QED
      BY <1>0, <1>3, <2>1, <2>2 DEF TypeOK, writerVars, DValue
  <1> QED
    BY <1>1, <1>2, <1>3

-----------------------------------------------------------------------------
(* The invariant is inductive.                                             *)

LEMMA EmptyDictionary == ASSUME Init PROVE Shape(heap, dic) /\ \A k \in Keys : Mapped(k) = "NULL"
  <1>1. DOMAIN heap = {} /\ \A b \in Buckets : dic[b] = 0
    BY DEF Init, Dict
  <1>2. Shape(heap, dic)
    <2>1. \A b \in Buckets : Chain(heap, dic[b]) = {}
      BY <1>1, NoChain
    <2> QED
      BY <1>1, <2>1 DEF Shape, IsHeap
  <1>3. ASSUME NEW k \in Keys PROVE Mapped(k) = "NULL"
    <2>1. HoldersIn(heap, dic, k) = {}
      BY <1>1, <1>2, FindFacts
    <2>2. ValueIn(heap, dic, k) = "NULL"
      BY <1>2, <2>1, ValueFacts
    <2> QED
      BY <1>2, <2>2, MeaningOfValue DEF MappedIn
  <1> QED
    BY <1>2, <1>3

LEMMA InitInv == Init => IInv
  <1> SUFFICES ASSUME Init PROVE IInv
    OBVIOUS
  <1>1. TypeOK
    <2>1. 0 \in 0..MaxPuts /\ 0 \in 0..MaxRemoves
      BY DictionaryAssumption
    <2> QED
      BY <2>1 DEF Init, Dict, TypeOK
  <1>2. PutInv /\ ReadInv
    BY DEF Init, PutInv, ReadInv, LookupCurrent
  <1> QED
    BY <1>1, <1>2, EmptyDictionary DEF IInv

\* What the writer's steps do to the map, the chains and a lookup.
LEMMA WriterEffect ==
  ASSUME IInv, Writer
  PROVE  /\ Effect /\ PutInv' /\ WriterStep /\ WriterTypes'
         /\ Same \/ \E k \in Keys : Becomes(k, "NULL") \/ \E v \in Values : Becomes(k, v)
  <1>1. ASSUME NEW k \in Keys, NEW v \in Values, DPut(k, v)
        PROVE  Effect /\ PutInv' /\ WriterStep /\ WriterTypes' /\ Same
    BY <1>1, DPutEffect, DPutTypes DEF DPut
  <1>2. CASE Link
    BY <1>2, LinkEffect, StoresTypes DEF Link
  <1>3. CASE StoreValue
    <2>1. heap[node].key \in Keys /\ arg \in Values
      BY <1>3, TypeFacts DEF StoreValue, IInv, PutInv
    <2> QED
      BY <1>3, <2>1, StoreEffect, StoresTypes DEF StoreValue
  <1>4. ASSUME NEW k \in Keys, DRemove(k)
        PROVE  Effect /\ PutInv' /\ WriterStep /\ WriterTypes' /\ Becomes(k, "NULL")
    BY <1>4, RemoveEffect, DRemoveTypes DEF DRemove
  <1> QED
    BY <1>1, <1>2, <1>3, <1>4 DEF Writer

LEMMA NextInv == IInv /\ [Next]_vars => IInv'
  <1> SUFFICES ASSUME IInv, [Next]_vars PROVE IInv'
    OBVIOUS
  <1>1. CASE Writer
    <2>1. Effect /\ PutInv' /\ WriterStep /\ WriterTypes'
      BY <1>1, WriterEffect
    <2>2. TypeOK' /\ ReadInv'
      BY <2>1, TypeByWriter, ReadByWriter
    <2> QED
      BY <2>1, <2>2 DEF IInv, Effect
  <1>2. CASE Lookup \/ \E k \in Keys : DValue(k)
    <2>1. TypeOK'
      BY <1>2, TypeByReader DEF Lookup
    <2>2. ReadInv'
      BY <1>2, WalkKeepsReadInv, LoadKeepsReadInv, DValueKeepsReadInv DEF Lookup
    <2>3. UNCHANGED writerVars
      BY <1>2 DEF Lookup, Walk, LoadValue, DValue
    <2>4. Shape(heap, dic)' /\ PutInv'
      BY <2>3 DEF IInv, writerVars, PutInv, Nodes
    <2> QED
      BY <2>1, <2>2, <2>4 DEF IInv
  <1>3. CASE UNCHANGED vars
    BY <1>3 DEF IInv, vars, writerVars, readerVars, TypeOK, PutInv, ReadInv, Reachable, LookupCurrent, Nodes
  <1> QED
    BY <1>1, <1>2, <1>3 DEF Next

LEMMA Invariant == Spec => []IInv
  BY InitInv, NextInv, PTL DEF Spec

-----------------------------------------------------------------------------
(* What holds.                                                             *)

\* The array, the associations and the variables of dput and dvalue have the
\* types that dictionary.h declares.
THEOREM TypeCorrect == Spec => []TypeOK
  <1>1. IInv => TypeOK
    BY DEF IInv
  <1> QED
    BY Invariant, <1>1, PTL

\* dvalue, called while the application thread links, sets and takes out
\* associations, returns what its name was mapped to at some moment of the
\* call.
THEOREM LookupIsCurrent == Spec => []LookupCurrent
  <1>1. IInv => LookupCurrent
    BY DEF IInv, ReadInv
  <1> QED
    BY Invariant, <1>1, PTL

\* for_each_assoc meets every topic that is mapped, and no name twice, in any
\* state of dput.
THEOREM TopicsOnce == Spec => []EachTopicOnce
  <1>1. ASSUME IInv PROVE EachTopicOnce
    <2> USE <1>1 DEF IInv
    <2>1. \A b, c \in Buckets : \A m \in Chain(heap, dic[b]), n \in Chain(heap, dic[c]) :
            heap[m].key = heap[n].key => b = c /\ m = n
      BY KeysOfChain DEF Shape
    <2>2. ASSUME NEW b \in Buckets, NEW m \in Chain(heap, dic[b])
          PROVE  m \notin Chain(heap, heap[m].next)
      <3>1. m \in DOMAIN heap /\ IsHeap(heap)
        BY KeysOfChain DEF Shape
      <3>2. \A n \in Chain(heap, heap[m].next) : n < m
        BY <3>1, ChainStep
      <3>3. ~(m < m)
        BY <3>1 DEF IsHeap
      <3> QED
        BY <3>2, <3>3
    <2>3. ASSUME NEW k \in Keys, Mapped(k) # "NULL"
          PROVE  \E b \in Buckets : \E n \in Chain(heap, dic[b]) : heap[n].key = k
      <3>1. MappedIn(heap, dic, k) # "NULL"
        BY <2>3, MeaningOfValue
      <3>2. HoldersIn(heap, dic, k) # {}
        BY <3>1, ValueFacts DEF MappedIn
      <3> QED
        BY <3>2, HashInBuckets DEF HoldersIn
    <2> QED
      BY <2>1, <2>2, <2>3 DEF EachTopicOnce
  <1> QED
    BY Invariant, <1>1, PTL

\* A step of the dictionary is one of the map, or none.
LEMMA MapStep == IInv /\ [Next]_vars => [Map!Next]_([k \in Keys |-> Mapped(k)])
  <1> SUFFICES ASSUME IInv, [Next]_vars
               PROVE  Map!Next \/ [k \in Keys |-> Mapped(k)]' = [k \in Keys |-> Mapped(k)]
    OBVIOUS
  <1> DEFINE map == [k \in Keys |-> MappedIn(heap, dic, k)]
             mapp == [k \in Keys |-> MappedIn(heap', dic', k)]
  <1>0. [k \in Keys |-> Mapped(k)] = map /\ [k \in Keys |-> Mapped(k)]' = mapp
    <2>1. Shape(heap', dic')
      BY NextInv DEF IInv
    <2> QED
      BY <2>1, MeaningOfValue, NextMeaningOfValue DEF IInv
  <1>1. CASE Writer
    <2>1. CASE Same
      BY <1>0, <2>1 DEF Same
    <2>2. ASSUME NEW k \in Keys, NEW v, Becomes(k, v) PROVE mapp = [map EXCEPT ![k] = v]
      BY <2>2 DEF Becomes
    <2>3. ASSUME NEW k \in Keys, Becomes(k, "NULL") PROVE Map!Next
      <3>1. mapp = [map EXCEPT ![k] = "NULL"]
        BY <2>2, <2>3
      <3> QED
        BY <1>0, <3>1 DEF Map!Next, Map!Remove
    <2>4. ASSUME NEW k \in Keys, NEW v \in Values, Becomes(k, v) PROVE Map!Next
      <3>1. mapp = [map EXCEPT ![k] = v]
        BY <2>2, <2>4
      <3> QED
        BY <1>0, <3>1 DEF Map!Next, Map!Put
    <2> QED
      BY <1>1, <2>1, <2>3, <2>4, WriterEffect
  <1>2. CASE Lookup \/ (\E k \in Keys : DValue(k)) \/ UNCHANGED vars
    <2>1. heap' = heap /\ dic' = dic
      BY <1>2 DEF Lookup, Walk, LoadValue, DValue, vars, writerVars
    <2> QED
      BY <1>0, <2>1
  <1> QED
    BY <1>1, <1>2 DEF Next

\* The chains implement a map from names to topics: dput changes one name, to
\* the topic, when it stores the value, dremove one name, to nothing, and a
\* collision or a lookup changes none.
THEOREM Refinement == Spec => ImplementsMap
  <1>1. Init => Map!Init
    BY EmptyDictionary DEF Map!Init
  <1> QED
    BY <1>1, MapStep, Invariant, PTL DEF Spec, ImplementsMap, Map!Spec
=============================================================================
