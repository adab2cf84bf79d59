------------------------------ MODULE LruCache ------------------------------
(***************************************************************************)
(* The cache of dns answers (dns/cache.go): a map to items that form a     *)
(* doubly linked list, with its two pointers head and tail.  A cache is a  *)
(* record; its operations, which the code runs under a mutex, are          *)
(* functions of it.  An item is known by its key: the map never holds two  *)
(* items of one key.                                                       *)
(***************************************************************************)
EXTENDS Naturals, Sequences, FiniteSets

CONSTANTS Keys, Size, Nil

\* The two items that NewLruCache puts into the list.
HeadKey == <<"head", "">>
TailKey == <<"tail", "">>
Dummies == {HeadKey, TailKey}

ASSUME LruAssumption == Size \in Nat /\ Nil \notin Keys \cup Dummies

NoItem == [val |-> Nil, expired |-> FALSE, prev |-> Nil, next |-> Nil]

NewLruCache ==
    [head |-> HeadKey, tail |-> TailKey, map |-> Dummies,
     item |-> [k \in Keys \cup Dummies |->
                  CASE k = HeadKey -> [NoItem EXCEPT !.next = TailKey]
                    [] k = TailKey -> [NoItem EXCEPT !.prev = HeadKey]
                    [] OTHER -> NoItem]]

PutToHead(c, k, v) ==
    [c EXCEPT !.map = @ \cup {k}, !.head = k,
              !.item[k] = [NoItem EXCEPT !.val = v, !.next = c.head],
              !.item[c.head].prev = k]

\* A slip: the item that was before the moved one keeps its old successor.
MoveToHeadDangling(c, k) ==
    IF k = c.head THEN c
    ELSE [c EXCEPT !.tail = IF k = c.tail THEN c.item[k].prev ELSE @,
                   !.item[k].prev = Nil, !.item[k].next = c.head,
                   !.item[c.head].prev = k,
                   !.head = k]

\* The item leaves its place, at the tail or between two others, for the head.
Unlink(c, k) ==
    LET p == c.item[k].prev
        n == c.item[k].next
    IN IF k = c.tail THEN [c EXCEPT !.tail = p, !.item[p].next = Nil]
       ELSE [c EXCEPT !.item[p].next = n, !.item[n].prev = p]

MoveToHead(c, k) ==
    IF k = c.head THEN c
    ELSE [Unlink(c, k) EXCEPT !.item[k].prev = Nil, !.item[k].next = c.head,
                              !.item[c.head].prev = k, !.head = k]

RemoveTail(c) ==
    LET p == c.item[c.tail].prev
    IN [c EXCEPT !.map = @ \ {c.tail}, !.item[c.tail] = NoItem,
                 !.item[p].next = Nil, !.tail = p]

\* Set with a ttl: an item that is there is replaced, a new one may push the
\* last one out.
SetItem(c, k, v) ==
    IF k \in c.map
    THEN MoveToHead([c EXCEPT !.item[k].val = v, !.item[k].expired = FALSE], k)
    ELSE LET d == PutToHead(c, k, v)
         IN IF Cardinality(d.map) > Size THEN RemoveTail(d) ELSE d

\* What Get does to the list.
GetItem(c, k) == IF k \in c.map THEN MoveToHead(c, k) ELSE c
-----------------------------------------------------------------------------
(***************************************************************************)
(* The promise: the keys in the order of their last use.                   *)
(***************************************************************************)
\* The i-th key comes first.
Touched(s, i) == [j \in 1..Len(s) |-> IF j = 1 THEN s[i] ELSE IF j <= i THEN s[j - 1] ELSE s[j]]

UsedByGet(s, k) ==
    IF \E i \in DOMAIN s : s[i] = k THEN Touched(s, CHOOSE i \in DOMAIN s : s[i] = k) ELSE s

UsedBySet(s, k) ==
    IF \E i \in DOMAIN s : s[i] = k THEN UsedByGet(s, k)
    ELSE LET t == <<k>> \o s IN IF Len(t) > Size THEN SubSeq(t, 1, Len(t) - 1) ELSE t

\* The list of c is s, followed by next and, backwards, by prev.
Lists(c, s) ==
    /\ c.map = {s[i] : i \in DOMAIN s}
    /\ c.head = s[1] /\ c.tail = s[Len(s)]
    /\ \A i \in DOMAIN s :
          /\ c.item[s[i]].next = IF i = Len(s) THEN Nil ELSE s[i + 1]
          /\ c.item[s[i]].prev = IF i = 1 THEN Nil ELSE s[i - 1]
=============================================================================
