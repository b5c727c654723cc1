------------------------------- MODULE RBTree -------------------------------
(***************************************************************************)
(* The red-black tree of 1_rbtree/rbtree.c, pointer by pointer, as         *)
(* rbt_appDemo.c uses it.  One action finds the place and links or unlinks *)
(* the node; each turn of the repair loop that follows is an action.       *)
(*                                                                         *)
(* The code writes every case twice, mirrored; here a side s names it.     *)
(***************************************************************************)
EXTENDS Integers, FiniteSets

CONSTANT MaxKey   \* bound: the keys are 1..MaxKey
ASSUME RBAssumption == MaxKey \in Nat

Keys == 1..MaxKey
Nil == 0            \* the node t->nil; the others are named by the key they hold
Links == 0..MaxKey
Sides == {"left", "right"}
Other(s) == IF s = "left" THEN "right" ELSE "left"

VARIABLES
  tree,    \* root, kid[side][node], parent[node], color[node]
  pc,      \* "idle" between operations, or in the loop of "insert" or "delete"
  cur      \* the node the loop has reached

treeVars == <<tree, pc, cur>>

-----------------------------------------------------------------------------
\* Wrong variants of the definition that follows, here and below, are named Bad...;
\* no specification uses them.
BadSideOf(t, n) == IF n = t.kid["left"][t.parent[n]] THEN "right" ELSE "left"
SideOf(t, n) == IF n = t.kid["left"][t.parent[n]] THEN "left" ELSE "right"

\* Assignments to a link, to a parent and to the root.
SetKid(t, s, n, x) == [t EXCEPT !.kid[s][n] = x]
SetParent(t, n, x) == [t EXCEPT !.parent[n] = x]
SetRoot(t, x) == [t EXCEPT !.root = x]

\* y goes on side s of p, or becomes the root if p is Nil.
PutAt(t, p, s, y) == SetParent(IF p = Nil THEN SetRoot(t, y) ELSE SetKid(t, s, p, y), y, p)

\* y takes the place of x under the parent of x.
Replace(t, x, y) == PutAt(t, t.parent[x], SideOf(t, x), y)

\* x goes down on side s and its other child y takes its place.  (For the root
\* _rightRotate, which lacks an else, also writes a link of nil, as the first insertion
\* does; no step reads them, see Balanced, and in the model they stay nil.)
Rotate(t, x, s) ==
  LET y == t.kid[Other(s)][x]
      z == t.kid[s][y]
      u == SetKid(SetParent(SetKid(Replace(t, x, y), s, y, x), x, y), Other(s), x, z)
  IN  IF y = Nil THEN t ELSE IF z = Nil THEN u ELSE SetParent(u, z, x)

Red(t, n) == t.color[n] = "red"
Paint(t, N, c) == [t EXCEPT !.color = [n \in Links |-> IF n \in N THEN c ELSE @[n]]]

\* The loops below are functions of the turns that are left: a path has MaxKey nodes at most.

Toward(k, n) == IF k < n THEN "left" ELSE "right"

\* The last node on the search path of k: its own, or the one a new node goes under.
Descend(t, k) ==
  LET Walk[d \in Links] ==
        [n \in Links |-> [prev \in Links |->
           IF n = Nil \/ d = 0 THEN prev
           ELSE IF k = n THEN n
           ELSE Walk[d - 1][t.kid[Toward(k, n)][n]][n]]]
  IN  Walk[MaxKey][t.root][Nil]

\* RBT_search
Found(t, k) == Descend(t, k) = k

-----------------------------------------------------------------------------
(* The rules of red-black trees                                            *)

\* The nodes below n, with n.
Below(t, n) ==
  LET Level[d \in Links] ==
        (IF d = 0 THEN {n} ELSE UNION {{m} \cup {t.kid[s][m] : s \in Sides} : m \in Level[d - 1]})
        \ {Nil}
  IN  Level[MaxKey]

\* The black nodes on the way from n up to the root.
Blacks(t, n) ==
  LET Up[d \in Links] ==
        [m \in Links |->
           IF m = Nil \/ d = 0 THEN 0
           ELSE Up[d - 1][t.parent[m]] + IF Red(t, m) THEN 0 ELSE 1]
  IN  Up[MaxKey][n]

Tops(t) == {n \in Below(t, t.root) : \E s \in Sides : t.kid[s][n] = Nil}
EvenBlacks(t) == \A m, n \in Tops(t) : Blacks(t, m) = Blacks(t, n)
RedPairs(t) == {n \in Below(t, t.root) : Red(t, n) /\ Red(t, t.parent[n])}
RedBlack(t) == EvenBlacks(t) /\ RedPairs(t) = {} /\ ~Red(t, t.root) /\ ~Red(t, Nil)

\* Parents and children agree.
Linked(t) ==
  /\ t.root = Nil \/ t.parent[t.root] = Nil
  /\ \A n \in Below(t, t.root), s \in Sides :
       t.kid[s][n] # Nil => t.parent[t.kid[s][n]] = n /\ t.kid[Other(s)][n] # t.kid[s][n]

-----------------------------------------------------------------------------
TreeInit ==
  /\ tree = [root |-> Nil, kid |-> [s \in Sides |-> [n \in Links |-> Nil]],
             parent |-> [n \in Links |-> Nil], color |-> [n \in Links |-> "black"]]
  /\ pc = "idle" /\ cur = Nil

\* Bound: operations start in trees that follow the rules.  A deletion may break them
\* (see RulesKept); the repair may then read links of nil, which may point anywhere.
Ready == pc = "idle" /\ RedBlack(tree)
Broken == pc = "idle" /\ ~RedBlack(tree) /\ UNCHANGED treeVars

\* The new node n, red, under prev.
LinkNew(t, n, prev) == Paint(PutAt(t, prev, Toward(n, prev), n), {n}, "red")

\* RBT_insertNode; a repeated key is abandoned and changes nothing.
Insert(k) ==
  /\ Ready /\ ~Found(tree, k)
  /\ tree' = LinkNew(tree, k, Descend(tree, k))
  /\ pc' = "insert" /\ cur' = k

\* The uncle is red too: the black of the grandparent g moves down.
MoveDown(t, uncle, p, g) == Paint(Paint(t, {uncle, p}, "black"), {g}, "red")

\* One turn of the loop in _adjustAfterInsert, below a red parent.
RepairInsert ==
  LET p == tree.parent[cur]
      g == tree.parent[p]
      s == IF p = tree.kid["left"][g] THEN "left" ELSE "right"
      uncle == tree.kid[Other(s)][g]
      inner == cur = tree.kid[Other(s)][p]
      m == IF inner THEN p ELSE cur
      t == IF inner THEN Rotate(tree, p, s) ELSE tree
      pm == t.parent[m]
  IN  /\ pc = "insert" /\ Red(tree, p)
      /\ IF Red(tree, uncle)
         THEN /\ tree' = MoveDown(tree, uncle, p, g)
              /\ cur' = g
         ELSE /\ tree' = LET u == Paint(t, {pm}, "black")
                         IN  Rotate(Paint(u, {u.parent[pm]}, "red"), u.parent[pm], Other(s))
              /\ cur' = m
      /\ UNCHANGED pc

BadEndInsert ==
  pc = "insert" /\ ~Red(tree, tree.parent[cur]) /\ pc' = "idle" /\ cur' = Nil /\ UNCHANGED tree
EndInsert ==
  /\ pc = "insert" /\ ~Red(tree, tree.parent[cur])
  /\ tree' = Paint(tree, {tree.root}, "black")
  /\ pc' = "idle" /\ cur' = Nil

-----------------------------------------------------------------------------
\* _getSuccessor: the least node on the right, or n itself.
Successor(t, n) ==
  LET Least[d \in Links] ==
        [m \in Links |->
           IF d = 0 \/ t.kid["left"][m] = Nil THEN m ELSE Least[d - 1][t.kid["left"][m]]]
  IN  IF t.kid["right"][n] = Nil THEN n ELSE Least[MaxKey][t.kid["right"][n]]

\* The node whose place target leaves the tree from: its successor's, if target has a child.
Leaver(t, target) ==
  IF \E s \in Sides : t.kid[s][target] # Nil THEN Successor(t, target) ELSE target

\* The child that replaces it.
Heir(t, n) == IF t.kid["left"][n] # Nil THEN t.kid["left"][n] ELSE t.kid["right"][n]

\* _swapNode: two nodes exchange keys, by which they are named.
Exchange(a, b) == [n \in Links |-> IF n = a THEN b ELSE IF n = b THEN a ELSE n]
Swap(t, a, b) ==
  LET to == Exchange(a, b)
  IN  [root |-> to[t.root],
       kid |-> [s \in Sides |-> [n \in Links |-> to[t.kid[s][to[n]]]]],
       parent |-> [n \in Links |-> to[t.parent[to[n]]]],
       color |-> [n \in Links |-> t.color[to[n]]]]

\* n leaves, replaced by its only child or nil; its memory is freed.
Splice(t, n) ==
  LET u == SetParent(Replace(t, n, Heir(t, n)), n, Nil)
  IN  Paint(SetKid(SetKid(u, "left", n, Nil), "right", n, Nil), {n, Heir(t, n)}, "black")

\* nil has a parent for the repair only.
Settled(t) == SetParent(t, Nil, Nil)

\* RBT_deleteNodeByKey and APP_delete; without the key nothing changes.
Delete(k) ==
  /\ Ready /\ Found(tree, k)
  /\ LET t == Swap(tree, k, Leaver(tree, k))
         repair == Heir(t, k) = Nil /\ ~Red(t, k)
     IN  /\ tree' = IF repair THEN Splice(t, k) ELSE Settled(Splice(t, k))
         /\ pc' = IF repair THEN "delete" ELSE "idle"
  /\ cur' = Nil

\* One turn of the loop in _adjustAfterDelete.
RepairDelete ==
  LET p == tree.parent[cur]
      s == IF cur = tree.kid["right"][p] THEN "right" ELSE "left"
      bro == tree.kid[Other(s)][p]
      near == tree.kid[s][bro]
      far == tree.kid[Other(s)][bro]
      Over(t) == tree' = Settled(t) /\ pc' = "idle" /\ cur' = Nil
      c == tree.color[p]
  IN  /\ pc = "delete" /\ ~Red(tree, cur) /\ tree.root # cur
      /\ \/ /\ Red(tree, bro)
            /\ Over(Rotate(Paint(Paint(tree, {bro}, "black"), {near}, "red"), p, s))
         \/ /\ ~Red(tree, bro) /\ ~Red(tree, near) /\ ~Red(tree, far)
            /\ IF Red(tree, p) THEN Over(Paint(Paint(tree, {bro}, "red"), {p}, "black"))
               ELSE tree' = Paint(tree, {bro}, "red") /\ cur' = p /\ pc' = pc
         \/ /\ ~Red(tree, bro) /\ Red(tree, near) /\ ~Red(tree, far)
            /\ Over(Rotate(Rotate(Paint(Paint(tree, {bro}, c), {near}, "black"),
                                  bro, Other(s)), p, s))
         \/ /\ ~Red(tree, bro) /\ Red(tree, far)
            /\ Over(Rotate(Paint(Paint(tree, {bro}, c), {p, far}, "black"), p, s))

EndDelete ==
  /\ pc = "delete" /\ (Red(tree, cur) \/ tree.root = cur)
  /\ tree' = Settled(tree) /\ pc' = "idle" /\ cur' = Nil

TreeNext ==
  \/ \E k \in Keys : Insert(k) \/ Delete(k)
  \/ RepairInsert \/ EndInsert \/ RepairDelete \/ EndDelete \/ Broken

TreeSpec == TreeInit /\ [][TreeNext]_treeVars
-----------------------------------------------------------------------------
(* Properties                                                              *)

TypeOK ==
  /\ tree.root \in Links /\ tree.parent \in [Links -> Links]
  /\ tree.kid \in [Sides -> [Links -> Links]]
  /\ tree.color \in [Links -> {"red", "black"}]
  /\ pc \in {"idle", "insert", "delete"} /\ cur \in Links

\* A search finds a key exactly from its insertion to its deletion, in the middle of
\* the repairs as well (rbtree.c:250, 291, 352).
Set == INSTANCE KeySet WITH keys <- {k \in Keys : Found(tree, k)}
ImplementsKeySet == Set!Spec

\* Between operations the links agree both ways, every node is found by its key, and all
\* paths have as many black nodes; the repair of a deletion always has a brother to
\* look at, never nil (rbtree.c:56-203).
Balanced ==
  /\ pc = "idle" => /\ Linked(tree) /\ EvenBlacks(tree)
                    /\ Below(tree, tree.root) = {k \in Keys : Found(tree, k)}
  /\ pc = "delete" /\ tree.root # cur =>
       \E s \in Sides : tree.kid[s][tree.parent[cur]] \notin {cur, Nil}

\* Every operation that starts in a red-black tree ends in one, except a deletion that
\* finds a red brother: the loop ends after that rotation, although the brother's child
\* it has painted red may have a red child (rbtree.c:122-127, 164-170).
KeepsRules ==
  pc' = "idle" /\ ~RedBlack(tree') =>
    pc = "delete" /\ \E s \in Sides : Red(tree, tree.kid[s][tree.parent[cur]])
RulesKept == [][KeepsRules]_treeVars

\* A key comes and goes only by the operation that was given it, whichever node leaves in
\* its place (rbtree.c:250-289, 310-357).
OnlyItsKey ==
  \A k \in Keys : Found(tree', k) # Found(tree, k) =>
                   IF Found(tree, k) THEN Delete(k) ELSE Insert(k)

\* The tree is balanced between operations, and every operation keeps its rules and the
\* other keys (rbtree.c:56-203, 250-357).
TreeRight == []Balanced /\ [][KeepsRules /\ OnlyItsKey]_treeVars
=============================================================================
