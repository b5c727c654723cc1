-------------------------------- MODULE BTree --------------------------------
(***************************************************************************)
(* The B-tree of 2_btree/btree.c.  There are no parent pointers, so a node *)
(* is the record of its keys and its children; a leaf has no children.      *)
(***************************************************************************)
EXTENDS Integers, Sequences, FiniteSets, SequencesExt

CONSTANTS
  MaxKey,   \* bound: the keys are 1..MaxKey, each in the tree once at most
  Orders    \* the orders given to btree_init_tree

Keys == 1..MaxKey

VARIABLES order, tree
vars == <<order, tree>>

-----------------------------------------------------------------------------
\* btree_init_tree: the smallest number of keys, which is also the 0-based index of the
\* middle one, comes from the order made even, the largest from the order given.
MinNum == ((order + (order % 2)) \div 2) - 1
MaxNum == order - 1

IsLeaf(n) == n.kids = <<>>
Leaf(keys) == [keys |-> keys, kids |-> <<>>]

\* A part of the children, if there are any.
Part(s, from, to) == IF s = <<>> THEN s ELSE SubSeq(s, from, to)

\* How many keys of node n come before k.  Wrong variants are named Bad..., here and
\* below; no specification uses them.
BadBefore(n, k) == Cardinality({i \in DOMAIN n.keys : n.keys[i] =< k})
Before(n, k) == Cardinality({i \in DOMAIN n.keys : n.keys[i] < k})

\* s with its element i replaced by the two a, b; and the reverse.
Spread(s, i, a, b) == SubSeq(s, 1, i - 1) \o <<a, b>> \o SubSeq(s, i + 1, Len(s))
Gather(s, i, a) == SubSeq(s, 1, i - 1) \o <<a>> \o SubSeq(s, i + 2, Len(s))

\* The new sibling of a full node c gets what is right of the middle.  It counts MinNum
\* keys, one more than it gets if the order is odd; the last is the 0 of fresh memory.
BadUpper(c) == [keys |-> SubSeq(c.keys, MinNum + 1, MaxNum),
                kids |-> Part(c.kids, MinNum + 2, MaxNum + 1)]
Upper(c) ==
  [keys |-> SubSeq(c.keys, MinNum + 2, MaxNum) \o (IF order % 2 = 0 THEN <<>> ELSE <<0>>),
   kids |-> Part(c.kids, MinNum + 2, MaxNum + 1)]

\* _split_child: the middle key of child i goes up between the two halves.
SplitChild(n, i) ==
  LET c == n.kids[i]
      lower == [keys |-> SubSeq(c.keys, 1, MinNum), kids |-> Part(c.kids, 1, MinNum + 1)]
  IN  [keys |-> InsertAt(n.keys, i, c.keys[MinNum + 1]),
       kids |-> Spread(n.kids, i, lower, Upper(c))]

Full(n) == Len(n.keys) = MaxNum

\* _insert_notfull, for a key that is not there: a full child is split on the way down.
RECURSIVE InsertNotFull(_, _)
InsertNotFull(n, k) ==
  LET i == Before(n, k) + 1
      m == IF Full(n.kids[i]) THEN SplitChild(n, i) ELSE n
      j == Before(m, k) + 1
  IN  IF IsLeaf(n) THEN Leaf(InsertAt(n.keys, i, k))
      ELSE [m EXCEPT !.kids[j] = InsertNotFull(@, k)]

Insert(k) ==
  tree' = InsertNotFull(IF Full(tree) THEN SplitChild([keys |-> <<>>, kids |-> <<tree>>], 1)
                        ELSE tree, k)

-----------------------------------------------------------------------------
\* _merge_children: key i of n goes down between its children, which become one.
MergeChildren(n, i) ==
  LET l == n.kids[i]  r == n.kids[i + 1]
  IN  [keys |-> RemoveAt(n.keys, i),
       kids |-> Gather(n.kids, i, [keys |-> Append(l.keys, n.keys[i]) \o r.keys,
                                   kids |-> l.kids \o r.kids])]

\* Child i gets a key from its right or left sibling, through key i of the parent.
BorrowRight(n, i) ==
  LET c == n.kids[i]  r == n.kids[i + 1]
  IN  [keys |-> ReplaceAt(n.keys, i, Head(r.keys)),
       kids |-> Spread(RemoveAt(n.kids, i), i,
                       [keys |-> Append(c.keys, n.keys[i]), kids |-> c.kids \o Part(r.kids, 1, 1)],
                       [keys |-> Tail(r.keys), kids |-> Part(r.kids, 2, Len(r.kids))])]
BorrowLeft(n, i) ==
  LET c == n.kids[i]  l == n.kids[i - 1]
  IN  [keys |-> ReplaceAt(n.keys, i - 1, Last(l.keys)),
       kids |-> Spread(RemoveAt(n.kids, i), i - 1,
                       [keys |-> Front(l.keys), kids |-> Part(l.kids, 1, Len(l.keys))],
                       [keys |-> <<n.keys[i - 1]>> \o c.keys,
                        kids |-> Part(l.kids, Len(l.kids), Len(l.kids)) \o c.kids])]

\* The node in which child i has more than MinNum keys, and the place of that child.
Refill(n, i) ==
  LET Rich(j) == j \in DOMAIN n.kids /\ Len(n.kids[j].keys) > MinNum
  IN  IF Rich(i) THEN [node |-> n, at |-> i]
      ELSE IF Rich(i + 1) THEN [node |-> BorrowRight(n, i), at |-> i]
      ELSE IF Rich(i - 1) THEN [node |-> BorrowLeft(n, i), at |-> i]
      ELSE IF i < Len(n.kids) THEN [node |-> MergeChildren(n, i), at |-> i]
      ELSE [node |-> MergeChildren(n, i - 1), at |-> i - 1]

\* _delete_key.  A key of an inner node is replaced by the first key of its right child,
\* which is deleted there.  That child has MinNum keys, so the branches for one that has
\* fewer (209-218) are never taken.  A root without keys gives way to its child.
RECURSIVE DeleteKey(_, _)
DeleteKey(n, k) ==
  LET i == Before(n, k) + 1
      hit == i =< Len(n.keys) /\ n.keys[i] = k
      up == Head(n.kids[i + 1].keys)
      m == Refill(n, i)
      below == DeleteKey(m.node.kids[m.at], k)
  IN  IF IsLeaf(n) THEN IF hit THEN Leaf(RemoveAt(n.keys, i)) ELSE n
      ELSE IF hit THEN [n EXCEPT !.keys[i] = up, !.kids[i + 1] = DeleteKey(@, up)]
      ELSE IF m.node.keys = <<>> THEN below
      ELSE [m.node EXCEPT !.kids[m.at] = below]

Delete(k) == tree' = DeleteKey(tree, k)

-----------------------------------------------------------------------------
\* The keys of a tree in the order of btree_traversal.
RECURSIVE InOrder(_)
InOrder(n) ==
  IF IsLeaf(n) THEN n.keys
  ELSE InOrder(n.kids[1]) \o
       FlattenSeq([i \in DOMAIN n.keys |-> <<n.keys[i]>> \o InOrder(n.kids[i + 1])])

RECURSIVE Levels(_)
Levels(n) == IF IsLeaf(n) THEN {1} ELSE {1 + d : d \in UNION {Levels(c) : c \in ToSet(n.kids)}}

RECURSIVE Sized(_, _)
Sized(n, least) ==
  /\ Len(n.keys) \in least..MaxNum
  /\ IsLeaf(n) \/ Len(n.kids) = Len(n.keys) + 1
  /\ \A c \in ToSet(n.kids) : Sized(c, MinNum)

\* The rules of B-trees: keys in order, leaves at one depth, numbers of keys in bounds.
Proper(t) ==
  /\ LET s == InOrder(t) IN \A i \in 1..Len(s) - 1 : s[i] < s[i + 1]
  /\ Cardinality(Levels(t)) = 1
  /\ Sized(t, IF IsLeaf(t) THEN 0 ELSE 1)

Held(t) == ToSet(InOrder(t)) \cap Keys

Init == order \in Orders /\ tree = Leaf(<<>>)

\* Bound: operations start in proper trees; a deletion or an odd order may spoil them
\* (see RulesKept), and then the code may follow null pointers.
Next ==
  \/ /\ Proper(tree) /\ order' = order
     /\ \/ \E k \in Keys \ Held(tree) : Insert(k)
        \/ \E k \in Keys : Delete(k)
  \/ ~Proper(tree) /\ UNCHANGED vars

Spec == Init /\ [][Next]_vars
-----------------------------------------------------------------------------
(* Properties                                                              *)

Set == INSTANCE KeySet WITH keys <- Held(tree)
ImplementsKeySet == Set!Spec

\* A deletion takes out the key it was given and no other, and does so even where it spoils
\* the tree (btree.c:172-290).
OnlyItsKey == Proper(tree) => \A k \in Keys : Held(DeleteKey(tree, k)) = Held(tree) \ {k}

\* The inner keys whose right child cannot give its first key away: it is not a leaf, so
\* that key is not the next one, or it is one with MinNum keys.
RECURSIVE Stuck(_)
Stuck(n) ==
  IF IsLeaf(n) THEN {}
  ELSE UNION {Stuck(c) : c \in ToSet(n.kids)} \cup
       {n.keys[i] : i \in {j \in DOMAIN n.keys :
                            ~IsLeaf(n.kids[j + 1]) \/ Len(n.kids[j + 1].keys) = MinNum}}

\* With an even order every insertion into a proper tree gives a proper tree, and so
\* does a deletion but for the stuck keys: those it takes out but leaves a tree with
\* keys out of order or an underfull leaf (btree.c:59, 172, 202-213).
KeepsRules ==
  order % 2 = 0 => (Proper(tree') <=> ~\E k \in Stuck(tree) : k \notin Held(tree'))
RulesKept == [][KeepsRules]_tree
=============================================================================
