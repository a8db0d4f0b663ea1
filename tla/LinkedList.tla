------------------------------ MODULE LinkedList ------------------------------
(***************************************************************************)
(* LinkedList<ThreadControlBlock> (src/kernel/krnl/linkedlist.hpp).  The    *)
(* elements are chained through the one next pointer each of them has, so   *)
(* all the lists share one heap:                                            *)
(*   next   [Element -> Element \cup {Null}]                                *)
(*   lists  the first, last and debugLength of each list                    *)
(*   panic  whether a test of addElement or removeFirst has called KePanic  *)
(***************************************************************************)
EXTENDS Naturals, Sequences, FiniteSets

CONSTANTS Element, Null

EmptyList == [first |-> Null, last |-> Null, debugLength |-> 0]

Heap(ListName) ==
  [next  : [Element -> Element \cup {Null}],
   lists : [ListName -> [first : Element \cup {Null}, last : Element \cup {Null},
                         debugLength : Nat]],
   panic : BOOLEAN]

isEmpty(h, l) == h.lists[l].first = Null /\ h.lists[l].last = Null

AddPanics(list) ==
  \/ (list.first = Null) # (list.last = Null)
  \/ list.first = Null /\ list.debugLength # 0

(* Mutant: the new last element keeps its old next pointer. *)
addElementUnended(h, l, element) ==
  LET list == h.lists[l]
      next == IF list.last = Null THEN h.next ELSE [h.next EXCEPT ![list.last] = element]
  IN [next  |-> next,
      lists |-> [h.lists EXCEPT ![l] =
                   [first |-> IF list.first = Null THEN element ELSE list.first,
                    last |-> element,
                    debugLength |-> list.debugLength + 1]],
      panic |-> h.panic \/ AddPanics(list)]

(* addElement: the old last element points to the new one, which ends it. *)
addElement(h, l, element) ==
  LET list == h.lists[l]
      next == IF list.last = Null THEN h.next ELSE [h.next EXCEPT ![list.last] = element]
  IN [next  |-> [next EXCEPT ![element] = Null],
      lists |-> [h.lists EXCEPT ![l] =
                   [first |-> IF list.first = Null THEN element ELSE list.first,
                    last |-> element,
                    debugLength |-> list.debugLength + 1]],
      panic |-> h.panic \/ AddPanics(list)]

RemovePanics(h, list) ==
  \/ list.first = Null
  \/ h.next[list.last] # Null
  \/ h.next[list.first] = Null /\ list.debugLength # 1

(* removeFirst; a panic stops the machine, so the list stays as it is. *)
removeFirst(h, l) ==
  LET list == h.lists[l] IN
  IF RemovePanics(h, list) THEN [h EXCEPT !.panic = TRUE]
  ELSE [h EXCEPT !.lists[l] =
          [first |-> h.next[list.first],
           last |-> IF h.next[list.first] = Null THEN Null ELSE list.last,
           debugLength |-> list.debugLength - 1]]

(* The heap after addElement has put the elements of order into list l. *)
HeapOf(order, l, listNames) ==
  LET n == Len(order)
      place(e) == CHOOSE i \in 1 .. n : order[i] = e
  IN [next  |-> [e \in Element |->
                   IF \E i \in 1 .. n - 1 : order[i] = e THEN order[place(e) + 1] ELSE Null],
      lists |-> [k \in listNames |->
                   IF k = l /\ n > 0
                     THEN [first |-> order[1], last |-> order[n], debugLength |-> n]
                     ELSE EmptyList],
      panic |-> FALSE]

(* The elements met on the way from e along next, in their order; if the    *)
(* way has no end, one more than there are elements.                        *)
Chain(next, e) ==
  LET node[n \in 0 .. Cardinality(Element)] ==
        IF n = 0 THEN e
        ELSE IF node[n - 1] = Null THEN Null ELSE next[node[n - 1]]
      length == Cardinality({n \in DOMAIN node : node[n] # Null})
  IN [i \in 1 .. length |-> node[i - 1]]

=============================================================================
