----------------------------- MODULE LinkedList -----------------------------
(***************************************************************************)
(* The singly linked lists of linkedTest.cpp.  A node is a number, 0 is    *)
(* nullptr; head and head2 may share nodes, and a list may loop.           *)
(***************************************************************************)
EXTENDS Naturals, Sequences, SequencesExt

CONSTANT NodeNum     \* bound: nodes of both lists

Nodes == 1..NodeNum

VARIABLES
  next,        \* node -> the node it points to
  head, head2,
  deleted      \* history: the nodes clearList has deleted, in order

vars == <<next, head, head2, deleted>>

-----------------------------------------------------------------------------
(* The functions.  Loops over a list are recursions over nodes.            *)

RECURSIVE getNthNode(_, _), countListNodeNum(_), SlowFast(_, _), Together(_, _), Trail(_, _)
getNthNode(h, n) == IF h # 0 /\ n > 0 THEN getNthNode(next[h], n - 1) ELSE h
countListNodeNum(h) == IF h = 0 THEN 0 ELSE 1 + countListNodeNum(next[h])

SlowFast(slow, fast) ==
  IF slow = 0 \/ fast = 0 THEN FALSE
  ELSE slow = fast \/ SlowFast(next[slow], IF next[fast] # 0 THEN next[next[fast]] ELSE 0)
isListLooped(h) == h # 0 /\ SlowFast(h, next[h])

Together(h1, h2) ==
  IF h1 = 0 \/ h2 = 0 THEN 0 ELSE IF h1 = h2 THEN h1 ELSE Together(next[h1], next[h2])
isListCrossed(h1, h2) ==
  LET n1 == countListNodeNum(h1)
      n2 == countListNodeNum(h2)
  IN  IF n1 > n2 THEN Together(getNthNode(h1, n1 - n2), h2)
      ELSE Together(h1, getNthNode(h2, n2 - n1))

Trail(h, tail) == IF next[tail] = 0 THEN h ELSE Trail(next[h], next[tail])
rfindNodeNo(h, k) ==
  IF k = 0 \/ getNthNode(h, k - 1) = 0 THEN 0 ELSE Trail(h, getNthNode(h, k - 1))

RECURSIVE Turn(_, _, _)
Turn(prev, current, links) ==
  IF current = 0 THEN [head |-> prev, next |-> links]
  ELSE Turn(current, links[current], [links EXCEPT ![current] = prev])
reverseList(h) == Turn(0, h, next)

-----------------------------------------------------------------------------
(* The lists and what is done with them.  What lies behind a loop is never *)
(* reversed or deleted: both would not end, or delete a node again.        *)

Follow(h) == LET at[n \in 0..NodeNum] == IF n = 0 THEN h ELSE
                   IF at[n - 1] = 0 THEN 0 ELSE next[at[n - 1]]
             IN  at
Ends(h) == Follow(h)[NodeNum] = 0
Walk(h) == [n \in 1..countListNodeNum(h) |-> Follow(h)[n - 1]]

\* Any two lists: one simple, one that loops, or two that cross are among them.
Init ==
  /\ next \in [Nodes -> 0..NodeNum] /\ head \in 0..NodeNum /\ head2 \in 0..NodeNum
  /\ deleted = <<>>

\* setHead takes what reverseList returns.
reverse ==
  /\ deleted = <<>> /\ Ends(head)
  /\ next' = reverseList(head).next /\ head' = reverseList(head).head
  /\ UNCHANGED <<head2, deleted>>

\* The destructor, of two lists without a node in common.
clearList ==
  /\ deleted = <<>> /\ Ends(head) /\ Ends(head2)
  /\ ToSet(Walk(head)) \cap ToSet(Walk(head2)) = {}
  /\ deleted' = Walk(head) \o Walk(head2) /\ head' = 0 /\ head2' = 0
  /\ next' = [x \in Nodes |-> IF x \in ToSet(Walk(head)) THEN 0 ELSE next[x]]

Next == reverse \/ clearList \/ UNCHANGED vars

Spec == Init /\ [][Next]_vars

-----------------------------------------------------------------------------
(* Properties                                                              *)

Reached(h) == {Follow(h)[n] : n \in 0..NodeNum} \ {0}
Common == Reached(head) \cap Reached(head2)

\* The two pointers meet exactly on the lists that loop, and the search ends on all.
LoopFound == isListLooped(head) <=> ~Ends(head)

\* Of lists that end, the node where they meet is found: one both reach, and from which all
\* they have in common is reached.
CrossFound ==
  Ends(head) /\ Ends(head2) =>
    LET x == isListCrossed(head, head2) IN
    IF Common = {} THEN x = 0 ELSE x \in Common /\ Common = Reached(x)

\* The node k from the end has k nodes from it on, and there is one unless the list is
\* shorter.
RfindRight ==
  Ends(head) =>
    \A k \in 0..(NodeNum + 1) :
      LET x == rfindNodeNo(head, k) IN
      IF k \in 1..countListNodeNum(head)
      THEN x \in Reached(head) /\ countListNodeNum(x) = k ELSE x = 0

\* A list that is reversed has its nodes in the opposite order and still ends.
Reversed ==
  Ends(head) =>
    LET w == <<0>> \o Walk(head)
        r == reverseList(head)
    IN  r.head = Last(w) /\ \A i \in 2..Len(w) : r.next[w[i]] = w[i - 1]

ListsRight == LoopFound /\ CrossFound /\ RfindRight /\ Reversed
=============================================================================
