---------------------------- MODULE SemaphoreLists ----------------------------
(***************************************************************************)
(* Facts about the chains that the threads' next pointers make, for chains  *)
(* of any length: what Chain finds, and what addElement and removeFirst do  *)
(* to a list and leave alone in the others.                                 *)
(***************************************************************************)
EXTENDS Semaphore, FiniteSetTheorems, TLAPS

(* Every set of naturals has a least element: with it the proofs below do   *)
(* by contradiction what they would do by induction.                        *)
LEMMA LeastNumber ==
  ASSUME NEW S \in SUBSET Nat, S # {}
  PROVE  \E m \in S : \A k \in S : m <= k
<1>1. PICK m \in S : \A k \in S : <<k, m>> \notin OpToRel(<, Nat)
  BY WFMin, NatLessThanWellFounded, Zenon
<1>2. \A k \in S : k < m => <<k, m>> \in OpToRel(<, Nat)
  BY Zenon DEF OpToRel
<1>3. \A k \in S : ~(k < m)
  BY <1>1, <1>2, Zenon
<1>4. ASSUME NEW k \in S
      PROVE  m <= k
  <2>1. ~(k < m) /\ k \in Nat /\ m \in Nat
    BY <1>3
  <2> QED BY <2>1
<1> QED BY <1>4

-----------------------------------------------------------------------------
(* The i-th thread of s, or what the next pointer of the last one says. *)
Nth(s, i) == IF i \in 1 .. Len(s) THEN s[i] ELSE Null

(* Along next, the chain that starts at e has the threads of s. *)
IsChain(next, e, s) ==
  /\ s \in Seq(AllThreads)
  /\ IsInjective(s)
  /\ e = Nth(s, 1)
  /\ \A i \in 1 .. Len(s) : next[s[i]] = Nth(s, i + 1)

LEMMA ThreadFacts ==
  /\ IsFiniteSet(AllThreads)
  /\ Cardinality(AllThreads) \in Nat
  /\ Null \notin AllThreads
  /\ Thread \subseteq AllThreads /\ idleThread \in AllThreads
<1>1. IsFiniteSet(AllThreads)
  BY SemaphoreAssumption, FS_AddElement DEF AllThreads
<1> QED BY <1>1, FS_CardinalityType, SemaphoreAssumption DEF AllThreads

LEMMA IntervalCardinality ==
  ASSUME NEW n \in Nat
  PROVE  Cardinality(1 .. n) = n /\ Cardinality(0 .. n - 1) = n
<1>1. 0 \in Int /\ 1 \in Int /\ n \in Int /\ n - 1 \in Int
  OBVIOUS
<1>2. /\ Cardinality(1 .. n) = IF 1 > n THEN 0 ELSE n - 1 + 1
      /\ Cardinality(0 .. n - 1) = IF 0 > n - 1 THEN 0 ELSE n - 1 - 0 + 1
  BY <1>1, FS_Interval
<1> QED BY <1>2

(* A queue without repetitions is no longer than there are threads. *)
LEMMA NoMoreThanThreads ==
  ASSUME NEW s \in Seq(AllThreads), IsInjective(s)
  PROVE  Len(s) <= Cardinality(AllThreads)
<1>1. s \in Injection(1 .. Len(s), AllThreads)
  BY DEF Injection
<1>2. Cardinality(1 .. Len(s)) <= Cardinality(AllThreads)
  BY <1>1, ThreadFacts, FS_Injection
<1>3. Len(s) \in Nat /\ Cardinality(1 .. Len(s)) = Len(s)
  BY IntervalCardinality
<1> QED BY <1>2, <1>3

(* The nodes that Chain goes through. *)
Nodes(next, e) ==
  CHOOSE node : node =
    [n \in 0 .. Cardinality(AllThreads) |->
       IF n = 0 THEN e ELSE IF node[n - 1] = Null THEN Null ELSE next[node[n - 1]]]

(* Chain with its two local definitions expanded. *)
LEMMA ChainNodes ==
  ASSUME NEW next, NEW e
  PROVE  Chain(next, e) =
           [i \in 1 .. Cardinality({n \in DOMAIN Nodes(next, e) : Nodes(next, e)[n] # Null}) |->
              Nodes(next, e)[i - 1]]
BY DEF Chain, Nodes

(* The walk that Chain makes meets the threads of the chain, then Null. *)
LEMMA NodesOfChain ==
  ASSUME NEW next, NEW e, NEW s, IsChain(next, e, s)
  PROVE  Nodes(next, e) = [n \in 0 .. Cardinality(AllThreads) |-> Nth(s, n + 1)]
<1> DEFINE N == Cardinality(AllThreads)
           expected == [n \in 0 .. N |-> Nth(s, n + 1)]
           Found(node) == node =
             [n \in 0 .. N |->
                IF n = 0 THEN e ELSE IF node[n - 1] = Null THEN Null ELSE next[node[n - 1]]]
           node == Nodes(next, e)
           Wrong == {n \in 0 .. N : node[n] # Nth(s, n + 1)}
<1>0. N \in Nat /\ Null \notin AllThreads /\ s \in Seq(AllThreads) /\ Len(s) \in Nat
  BY ThreadFacts DEF IsChain
<1>1. ASSUME NEW n \in 0 .. N, n # 0
      PROVE  Nth(s, n + 1) = IF Nth(s, n) = Null THEN Null ELSE next[Nth(s, n)]
  BY <1>0, <1>1 DEF IsChain, Nth
<1>2. Found(expected)
  <2>1. ASSUME NEW n \in 0 .. N, n # 0
        PROVE  expected[n - 1] = Nth(s, n)
    BY <1>0, <2>1
  <2>2. \A n \in 0 .. N : expected[n] =
          IF n = 0 THEN e ELSE IF expected[n - 1] = Null THEN Null ELSE next[expected[n - 1]]
    BY <1>0, <1>1, <2>1 DEF IsChain
  <2> QED BY <2>2
<1>3. Found(node)
  <2> HIDE DEF expected
  <2> QED BY <1>2, Zenon DEF Nodes
<1>4. Wrong = {}
  <2>1. SUFFICES ASSUME Wrong # {} PROVE FALSE
    OBVIOUS
  <2>2. PICK n \in Wrong : \A k \in Wrong : n <= k
      <3>1. Wrong \in SUBSET Nat
      BY <1>0
    <3> HIDE DEF Wrong
    <3> QED BY <2>1, <3>1, LeastNumber
  <2>3. n # 0
    BY <1>0, <1>3, <2>2 DEF IsChain
  <2>4. n - 1 \in 0 .. N /\ n - 1 \notin Wrong
    BY <1>0, <2>2, <2>3
  <2>5. node[n - 1] = Nth(s, n)
    BY <1>0, <2>4
  <2> QED BY <1>0, <1>1, <1>3, <2>2, <2>3, <2>5
<1>5. DOMAIN node = 0 .. N
  BY <1>3
<1>6. \A n \in 0 .. N : node[n] = Nth(s, n + 1)
  BY <1>4
<1>7. node = [n \in 0 .. N |-> node[n]]
  BY <1>3
<1> HIDE DEF node
<1> QED BY <1>5, <1>6, <1>7 DEF node

(* Chain finds what the pointers chain. *)
LEMMA ChainIs ==
  ASSUME NEW next, NEW e, NEW s, IsChain(next, e, s)
  PROVE  Chain(next, e) = s
<1> DEFINE N == Cardinality(AllThreads)
           node == Nodes(next, e)
           proper == {n \in DOMAIN node : node[n] # Null}
<1>1. /\ N \in Nat /\ Null \notin AllThreads /\ s \in Seq(AllThreads) /\ IsInjective(s)
      /\ Len(s) \in Nat /\ Len(s) <= N
  BY ThreadFacts, NoMoreThanThreads DEF IsChain
<1>2. node = [n \in 0 .. N |-> Nth(s, n + 1)]
  BY NodesOfChain
<1> HIDE DEF node
<1>3. proper = 0 .. Len(s) - 1
  BY <1>1, <1>2 DEF Nth
<1>4. Cardinality(proper) = Len(s)
  BY <1>1, <1>3, IntervalCardinality
<1>5. Chain(next, e) = [i \in 1 .. Len(s) |-> node[i - 1]]
  BY <1>4, ChainNodes DEF node
<1>6. \A i \in 1 .. Len(s) : node[i - 1] = s[i]
  BY <1>1, <1>2 DEF Nth
<1> QED BY <1>1, <1>5, <1>6

-----------------------------------------------------------------------------
(* Sequences without repetitions. *)
LEMMA AppendFresh ==
  ASSUME NEW s \in Seq(AllThreads), IsInjective(s), NEW t \in AllThreads \ Range(s)
  PROVE  /\ Append(s, t) \in Seq(AllThreads) /\ IsInjective(Append(s, t))
         /\ Len(Append(s, t)) = Len(s) + 1 /\ Append(s, t) # << >>
         /\ Append(s, t)[Len(s) + 1] = t
         /\ \A i \in 1 .. Len(s) : Append(s, t)[i] = s[i]
         /\ Range(Append(s, t)) = Range(s) \cup {t}
<1> DEFINE a == Append(s, t)
<1>1. /\ a \in Seq(AllThreads) /\ Len(a) = Len(s) + 1 /\ a # << >>
      /\ a[Len(s) + 1] = t /\ \A i \in 1 .. Len(s) : a[i] = s[i]
      /\ Len(s) \in Nat /\ DOMAIN s = 1 .. Len(s) /\ DOMAIN a = 1 .. Len(s) + 1
  OBVIOUS
<1>2. \A i \in 1 .. Len(s) : s[i] # t /\ s[i] \in Range(s)
  BY <1>1 DEF Range
<1> HIDE DEF a
<1>3. IsInjective(a)
  BY <1>1, <1>2 DEF IsInjective
<1>4. Range(a) = Range(s) \cup {t}
  <2>1. Range(a) \subseteq Range(s) \cup {t}
    BY <1>1 DEF Range
  <2>2. Range(s) \subseteq Range(a)
    BY <1>1 DEF Range
  <2>3. t \in Range(a)
    BY <1>1 DEF Range
  <2> QED BY <2>1, <2>2, <2>3
<1> QED BY <1>1, <1>3, <1>4 DEF a

LEMMA EmptyOrNot ==
  ASSUME NEW s \in Seq(AllThreads)
  PROVE  s = << >> <=> Len(s) = 0
OBVIOUS

(* What is left of a queue without its head. *)
LEMMA TailOfChain ==
  ASSUME NEW s \in Seq(AllThreads), IsInjective(s), s # << >>
  PROVE  /\ Tail(s) \in Seq(AllThreads) /\ IsInjective(Tail(s))
         /\ Len(Tail(s)) = Len(s) - 1 /\ Len(s) \in Nat \ {0}
         /\ \A i \in 1 .. Len(s) - 1 : Tail(s)[i] = s[i + 1]
         /\ s[1] \in AllThreads /\ s[1] \in Range(s)
         /\ Range(Tail(s)) = Range(s) \ {s[1]}
         /\ Len(s) = 1 <=> Tail(s) = << >>
<1> DEFINE b == Tail(s)
<1>1. /\ b \in Seq(AllThreads) /\ Len(b) = Len(s) - 1 /\ Len(s) \in Nat \ {0}
      /\ \A i \in 1 .. Len(s) - 1 : b[i] = s[i + 1]
      /\ DOMAIN s = 1 .. Len(s) /\ DOMAIN b = 1 .. Len(s) - 1
      /\ s[1] \in AllThreads
  OBVIOUS
<1> HIDE DEF b
<1>0. Len(s) = 1 <=> b = << >>
  BY <1>1, EmptyOrNot
<1>2. IsInjective(b)
  <2>1. SUFFICES ASSUME NEW i \in 1 .. Len(s) - 1, NEW j \in 1 .. Len(s) - 1, b[i] = b[j]
                 PROVE  i = j
    BY <1>1 DEF IsInjective
  <2>2. s[i + 1] = s[j + 1] /\ i + 1 \in DOMAIN s /\ j + 1 \in DOMAIN s
    BY <1>1, <2>1
  <2>3. i + 1 = j + 1
    BY <2>2 DEF IsInjective
  <2> QED BY <2>3
<1>3. s[1] \in Range(s)
  BY <1>1 DEF Range
<1>4. Range(b) = Range(s) \ {s[1]}
  <2>1. \A i \in DOMAIN b : b[i] \in Range(s) \ {s[1]}
    <3>1. SUFFICES ASSUME NEW i \in 1 .. Len(s) - 1
                   PROVE  b[i] \in Range(s) \ {s[1]}
      BY <1>1
    <3>2. b[i] = s[i + 1] /\ i + 1 \in DOMAIN s /\ 1 \in DOMAIN s /\ i + 1 # 1
      BY <1>1
    <3>3. s[i + 1] # s[1]
      BY <3>2 DEF IsInjective
    <3> QED BY <3>2, <3>3 DEF Range
  <2>2. ASSUME NEW i \in DOMAIN s, s[i] # s[1]
        PROVE  s[i] \in Range(b)
    <3>1. i - 1 \in DOMAIN b /\ b[i - 1] = s[i]
      BY <1>1, <2>2
    <3> QED BY <3>1 DEF Range
  <2> QED BY <2>1, <2>2 DEF Range
<1> QED BY <1>0, <1>1, <1>2, <1>3, <1>4 DEF b

-----------------------------------------------------------------------------
(* The list l of the heap h has the threads of s. *)
IsList(h, l, s) ==
  /\ IsChain(h.next, h.lists[l].first, s)
  /\ h.lists[l].last = Nth(s, Len(s))
  /\ h.lists[l].debugLength = Len(s)

(* Pointers of other threads may change. *)
LEMMA ChainStays ==
  ASSUME NEW next, NEW new, NEW e, NEW s, IsChain(next, e, s),
         \A t \in Range(s) : new[t] = next[t]
  PROVE  IsChain(new, e, s)
BY DEF IsChain, Range

(* The same list without its first thread, whose pointer nobody uses then. *)
LEMMA ChainTail ==
  ASSUME NEW next, NEW e, NEW s, IsChain(next, e, s), s # << >>
  PROVE  IsChain(next, next[e], Tail(s)) /\ e = s[1]
<1>1. s \in Seq(AllThreads) /\ IsInjective(s)
  BY DEF IsChain
<1>2. e = s[1]
  BY <1>1, TailOfChain DEF IsChain, Nth
<1>3. \A i \in Nat \ {0} : Nth(Tail(s), i) = Nth(s, i + 1)
  BY <1>1, TailOfChain DEF Nth
<1>4. next[e] = Nth(Tail(s), 1)
  BY <1>1, <1>2, <1>3, TailOfChain DEF IsChain
<1>5. \A i \in 1 .. Len(Tail(s)) : next[Tail(s)[i]] = Nth(Tail(s), i + 1)
  BY <1>1, <1>3, TailOfChain DEF IsChain
<1> QED BY <1>1, <1>2, <1>4, <1>5, TailOfChain DEF IsChain

(* A thread is chained to the last one, and ends the chain. *)
LEMMA ChainAppend ==
  ASSUME NEW next \in [AllThreads -> AllThreads \cup {Null}], NEW e, NEW s, IsChain(next, e, s),
         NEW t \in AllThreads \ Range(s),
         NEW new \in [AllThreads -> AllThreads \cup {Null}],
         new[t] = Null,
         \A u \in AllThreads \ {t} :
           new[u] = IF s # << >> /\ u = s[Len(s)] THEN t ELSE next[u]
  PROVE  /\ IsChain(new, IF s = << >> THEN t ELSE e, Append(s, t))
         /\ \A u \in AllThreads \ (Range(s) \cup {t}) : new[u] = next[u]
<1>1. s \in Seq(AllThreads) /\ IsInjective(s) /\ Len(s) \in Nat
  BY DEF IsChain
<1>2. /\ s # << >> => Len(s) \in 1 .. Len(s) /\ s[Len(s)] \in Range(s) /\ s[Len(s)] \in AllThreads
      /\ s = << >> => Len(s) = 0
      /\ \A i \in 1 .. Len(s) : s[i] \in Range(s) /\ s[i] # t /\ s[i] \in AllThreads
  BY <1>1 DEF Range
<1> DEFINE a == Append(s, t)
<1>3. /\ a \in Seq(AllThreads) /\ IsInjective(a) /\ Len(a) = Len(s) + 1
      /\ a[Len(s) + 1] = t /\ \A i \in 1 .. Len(s) : a[i] = s[i]
  BY <1>1, AppendFresh
<1> HIDE DEF a
<1>4. (IF s = << >> THEN t ELSE e) = Nth(a, 1)
  BY <1>1, <1>2, <1>3 DEF IsChain, Nth
<1>5. \A i \in 1 .. Len(s) : new[s[i]] = IF i = Len(s) THEN t ELSE next[s[i]]
  BY <1>1, <1>2 DEF IsInjective
<1>7. ASSUME NEW i \in 1 .. Len(a)
      PROVE  new[a[i]] = Nth(a, i + 1)
  <2>1. CASE i = Len(s) + 1
    BY <1>1, <1>3, <2>1 DEF Nth
  <2>2. CASE i = Len(s)
    BY <1>1, <1>3, <1>5, <2>2 DEF Nth
  <2>3. CASE i \in 1 .. Len(s) - 1
    BY <1>1, <1>3, <1>5, <2>3 DEF Nth, IsChain
  <2> QED BY <1>1, <1>3, <2>1, <2>2, <2>3
<1>8. \A u \in AllThreads \ (Range(s) \cup {t}) : new[u] = next[u]
  BY <1>2
<1> QED BY <1>3, <1>4, <1>7, <1>8 DEF a, IsChain

-----------------------------------------------------------------------------
(* A list with another list's elements removed or added is the same list.   *)
LEMMA ListStays ==
  ASSUME NEW h, NEW new, NEW l, NEW s, IsList(h, l, s),
         new.lists[l] = h.lists[l],
         \A t \in Range(s) : new.next[t] = h.next[t]
  PROVE  IsList(new, l, s)
BY ChainStays DEF IsList

(* first, last and debugLength of a list, from its threads. *)
LEMMA EndsOfList ==
  ASSUME NEW h \in Heap(ListName), NEW l \in ListName, NEW s, IsList(h, l, s)
  PROVE  /\ s \in Seq(AllThreads) /\ IsInjective(s) /\ Len(s) \in Nat
         /\ s = << >> => /\ h.lists[l].first = Null /\ h.lists[l].last = Null
                         /\ h.lists[l].debugLength = 0 /\ Len(s) = 0
         /\ s # << >> => /\ h.lists[l].first = s[1] /\ h.lists[l].last = s[Len(s)]
                         /\ s[1] \in Range(s) /\ s[1] \in AllThreads
                         /\ s[Len(s)] \in AllThreads
                         /\ h.lists[l].debugLength = Len(s) /\ Len(s) > 0
                         /\ h.next[s[Len(s)]] = Null
                         /\ h.next[s[1]] = Nth(s, 2)
         /\ isEmpty(h, l) <=> s = << >>
<1>1. /\ s \in Seq(AllThreads) /\ IsInjective(s) /\ Len(s) \in Nat
      /\ Null \notin AllThreads /\ (s = << >> <=> Len(s) = 0)
      /\ \A i \in 1 .. Len(s) : s[i] \in AllThreads
  BY ThreadFacts, EmptyOrNot DEF IsList, IsChain
<1>2. s # << >> => 1 \in 1 .. Len(s) /\ Len(s) \in 1 .. Len(s) /\ s[1] \in Range(s)
  BY <1>1 DEF Range
<1> QED BY <1>1, <1>2 DEF IsList, IsChain, Nth, isEmpty

(* addElement appends, and calls no KePanic. *)
LEMMA AddToList ==
  ASSUME NEW h \in Heap(ListName), ~h.panic, NEW l \in ListName, NEW s, IsList(h, l, s),
         NEW t \in AllThreads \ Range(s)
  PROVE  /\ addElement(h, l, t) \in Heap(ListName) /\ ~addElement(h, l, t).panic
         /\ IsList(addElement(h, l, t), l, Append(s, t))
         /\ \A k \in ListName \ {l} : addElement(h, l, t).lists[k] = h.lists[k]
         /\ \A u \in AllThreads \ (Range(s) \cup {t}) : addElement(h, l, t).next[u] = h.next[u]
<1> DEFINE new == addElement(h, l, t)
           list == h.lists[l]
<1>1. /\ h.next \in [AllThreads -> AllThreads \cup {Null}] /\ Null \notin AllThreads
      /\ h.lists \in [ListName -> [first : AllThreads \cup {Null}, last : AllThreads \cup {Null},
                                   debugLength : Nat]]
  BY ThreadFacts DEF Heap
<1>2. ~AddPanics(list)
  BY <1>1, EndsOfList DEF AddPanics
<1>3. list.last = Null <=> s = << >>
  BY <1>1, EndsOfList
<1>4. /\ new.next \in [AllThreads -> AllThreads \cup {Null}]
      /\ new.next[t] = Null
      /\ \A u \in AllThreads \ {t} :
           new.next[u] = IF s # << >> /\ u = s[Len(s)] THEN t ELSE h.next[u]
  BY <1>1, <1>3, EndsOfList DEF addElement
<1>5. /\ IsChain(new.next, IF s = << >> THEN t ELSE list.first, Append(s, t))
      /\ \A u \in AllThreads \ (Range(s) \cup {t}) : new.next[u] = h.next[u]
  <2>1. IsChain(h.next, list.first, s)
    BY DEF IsList
  <2> HIDE DEF new, list
  <2> QED BY <1>1, <1>4, <2>1, ChainAppend
<1>6. new.lists[l] = [first |-> IF s = << >> THEN t ELSE list.first, last |-> t,
                      debugLength |-> list.debugLength + 1]
  BY <1>1, EndsOfList DEF addElement
<1>7. \A k \in ListName \ {l} : new.lists[k] = h.lists[k]
  BY <1>1 DEF addElement
<1>8. new.lists \in [ListName -> [first : AllThreads \cup {Null}, last : AllThreads \cup {Null},
                                 debugLength : Nat]]
  BY <1>1 DEF addElement
<1>9. new = [next |-> new.next, lists |-> new.lists, panic |-> FALSE]
  BY <1>2 DEF addElement
<1>10. new \in Heap(ListName) /\ ~new.panic
  <2>1. new.panic = FALSE
    BY <1>9
  <2>2. new.panic \in BOOLEAN
    BY <2>1
  <2> HIDE DEF new
  <2>3. new \in Heap(ListName)
    BY <1>4, <1>8, <1>9, <2>2 DEF Heap
  <2> QED BY <2>1, <2>3
<1>11. IsList(new, l, Append(s, t))
  <2>1. s \in Seq(AllThreads) /\ IsInjective(s) /\ Len(s) \in Nat /\ list.debugLength = Len(s)
    BY EndsOfList
  <2>2. Len(Append(s, t)) = Len(s) + 1 /\ Append(s, t)[Len(s) + 1] = t
    BY <2>1, AppendFresh
  <2> HIDE DEF new, list
  <2> QED BY <1>5, <1>6, <2>1, <2>2 DEF IsList, Nth
<1> QED BY <1>5, <1>7, <1>10, <1>11

(* removeFirst takes the first one off, and calls no KePanic. *)
LEMMA RemoveFromList ==
  ASSUME NEW h \in Heap(ListName), ~h.panic, NEW l \in ListName, NEW s, IsList(h, l, s),
         s # << >>
  PROVE  /\ removeFirst(h, l) \in Heap(ListName) /\ ~removeFirst(h, l).panic
         /\ IsList(removeFirst(h, l), l, Tail(s))
         /\ \A k \in ListName \ {l} : removeFirst(h, l).lists[k] = h.lists[k]
         /\ removeFirst(h, l).next = h.next
<1> DEFINE new == removeFirst(h, l)
           list == h.lists[l]
           rest == Tail(s)
<1>1. /\ h.next \in [AllThreads -> AllThreads \cup {Null}] /\ Null \notin AllThreads
      /\ h.lists \in [ListName -> [first : AllThreads \cup {Null}, last : AllThreads \cup {Null},
                                   debugLength : Nat]]
      /\ h.lists[l] \in [first : AllThreads \cup {Null}, last : AllThreads \cup {Null},
                         debugLength : Nat]
  BY ThreadFacts DEF Heap
<1>2. /\ s \in Seq(AllThreads) /\ Len(s) \in Nat \ {0}
      /\ list.first = s[1] /\ list.last = s[Len(s)] /\ list.debugLength = Len(s)
      /\ list.first \in AllThreads
      /\ h.next[list.last] = Null /\ h.next[list.first] = Nth(s, 2)
  BY EndsOfList, TailOfChain
<1>3. /\ rest \in Seq(AllThreads) /\ IsInjective(rest)
      /\ Len(rest) = Len(s) - 1 /\ \A i \in 1 .. Len(s) - 1 : rest[i] = s[i + 1]
      /\ \A i \in 1 .. Len(s) : s[i] \in AllThreads
  BY <1>2, EndsOfList, TailOfChain
<1> HIDE DEF rest
<1>4. ~RemovePanics(h, list)
  BY <1>1, <1>2, <1>3 DEF RemovePanics, Nth
<1>5. new = [h EXCEPT !.lists[l] =
               [first |-> h.next[list.first],
                last |-> IF h.next[list.first] = Null THEN Null ELSE list.last,
                debugLength |-> list.debugLength - 1]]
  BY <1>4 DEF removeFirst
<1>6. /\ new.next = h.next /\ \A k \in ListName \ {l} : new.lists[k] = h.lists[k]
      /\ new.panic = h.panic
      /\ new.lists[l] = [first |-> h.next[list.first],
                         last |-> IF h.next[list.first] = Null THEN Null ELSE list.last,
                         debugLength |-> list.debugLength - 1]
  BY <1>1, <1>5 DEF Heap
<1>7. new.lists[l] \in [first : AllThreads \cup {Null}, last : AllThreads \cup {Null},
                        debugLength : Nat]
  <2>1. h.next[list.first] \in AllThreads \cup {Null} /\ list.debugLength - 1 \in Nat
    BY <1>1, <1>2
  <2> QED BY <1>1, <1>6, <2>1
<1>8. new \in Heap(ListName)
  <2>1. new.lists \in [ListName -> [first : AllThreads \cup {Null}, last : AllThreads \cup {Null},
                                   debugLength : Nat]]
    BY <1>1, <1>5, <1>7
  <2>2. new = [next |-> h.next, lists |-> new.lists, panic |-> h.panic]
    BY <1>5 DEF Heap
  <2>3. h.panic \in BOOLEAN
    BY DEF Heap
  <2> HIDE DEF new
  <2> QED BY <1>1, <2>1, <2>2, <2>3 DEF Heap
<1>9. h.next[list.first] = Null <=> rest = << >>
  BY <1>1, <1>2, <1>3, EmptyOrNot DEF Nth
<1>10. IsList(new, l, rest)
  <2>1. IsChain(new.next, new.lists[l].first, rest)
    <3>1. IsChain(h.next, list.first, s)
      BY DEF IsList
    <3>2. IsChain(h.next, h.next[list.first], rest)
      BY <3>1, ChainTail DEF rest
    <3> HIDE DEF list, new
    <3> QED BY <1>6, <3>2
  <2>2. new.lists[l].last = Nth(rest, Len(rest))
    BY <1>1, <1>2, <1>3, <1>6, <1>9, EmptyOrNot DEF Nth
  <2>3. new.lists[l].debugLength = Len(rest)
    BY <1>1, <1>2, <1>3, <1>6
  <2> QED BY <2>1, <2>2, <2>3 DEF IsList
<1> QED BY <1>6, <1>8, <1>10 DEF rest
=============================================================================
