---------------------------- MODULE RBTreeProofs ----------------------------
(***************************************************************************)
(* The red-black tree of rbtree.c, for every MaxKey: it is a set of keys,  *)
(* it is balanced between operations, and an operation keeps its rules but *)
(* where the code gives them up.                                           *)
(*                                                                         *)
(* The shape of a tree is certified by bounds, that give each node the     *)
(* part of the keys its subtree lies in, and its balance by heights, that  *)
(* give each node the black nodes on the paths down from it.  An operation *)
(* changes the certificates of a few nodes; so no proof is an induction    *)
(* over trees, and the loops of the model are followed along a path, of    *)
(* nodes whose parts of the keys get narrower.                             *)
(***************************************************************************)
EXTENDS RBTree, WellFoundedInduction, TLAPS


\* A set of numbers has a least one.
LEMMA LeastOf ==
  ASSUME NEW A, A \subseteq Nat, A # {}
  PROVE  \E n \in A : \A m \in A : n =< m
<1> DEFINE R == {ss \in Nat \X Nat : ss[1] < ss[2]}
<1>1. IsWellFoundedOn(R, Nat)
  BY NatLessThanWellFounded DEF OpToRel
<1>2. PICK n \in A : \A m \in A : <<m, n>> \notin R
  <2> HIDE DEF R
  <2> QED BY <1>1, WFMin
<1>3. ASSUME NEW m \in A PROVE n =< m
  <2>1. <<m, n>> \in Nat \X Nat /\ ~(m < n)
    BY <1>2
  <2> QED BY <2>1
<1> QED BY <1>3

-----------------------------------------------------------------------------
(* Loops                                                                   *)

\* A set that has 0 and every next number up to MaxKey has all of them.
LEMMA UpToAll ==
  ASSUME NEW P, 0 \in P, \A d \in 1..MaxKey : d - 1 \in P => d \in P
  PROVE  Links \subseteq P
<1> DEFINE A == Links \ P
<1> SUFFICES ASSUME A # {} PROVE FALSE
  OBVIOUS
<1>1. A \subseteq Nat
  BY RBAssumption DEF Links
<1>2. PICK d \in A : \A m \in A : d =< m
  BY <1>1, LeastOf
<1>3. d \in 1..MaxKey /\ d - 1 \in Links
  BY <1>2, RBAssumption DEF Links
<1>4. d - 1 \notin A
  <2> HIDE DEF A
  <2> QED BY <1>1, <1>2, <1>3
<1> QED BY <1>2, <1>3, <1>4

\* What MaxKey turns of a loop define.
LEMMA LoopIs ==
  ASSUME NEW S, NEW x \in S, NEW G \in [S -> S]
  PROVE  \E f \in [Links -> S] : f[0] = x /\ \A d \in 1..MaxKey : f[d] = G[f[d - 1]]
<1> DEFINE Right(f, m) == f[0] = x /\ \A d \in 1..m : f[d] = G[f[d - 1]]
           P == {m \in Links : \E f \in [Links -> S] : Right(f, m)}
<1>1. 0 \in P
  <2> DEFINE f == [d \in Links |-> x]
  <2>1. f \in [Links -> S] /\ Right(f, 0) /\ 0 \in Links
    BY RBAssumption DEF Links
  <2> HIDE DEF f
  <2> QED BY <2>1
<1>2. ASSUME NEW m \in 1..MaxKey, m - 1 \in P PROVE m \in P
  <2>1. PICK f \in [Links -> S] : Right(f, m - 1)
    BY <1>2
  <2> DEFINE g == [f EXCEPT ![m] = G[f[m - 1]]]
  <2>2. m \in Links /\ m - 1 \in Links /\ m # 0 /\ m \in Nat
    BY RBAssumption DEF Links
  <2>3. g \in [Links -> S]
    BY <2>2
  <2>4. Right(g, m)
    <3>1. g[0] = x
      BY <2>1, <2>2
    <3>2. ASSUME NEW d \in 1..m PROVE g[d] = G[g[d - 1]]
      <4>1. d \in Links /\ d - 1 \in Links /\ d - 1 # m /\ (d # m => d \in 1..(m - 1))
        BY <2>2, RBAssumption DEF Links
      <4> QED BY <2>1, <2>2, <4>1
    <3> QED BY <3>1, <3>2
  <2> QED BY <2>2, <2>3, <2>4
<1>3. MaxKey \in P
  <2> HIDE DEF P
  <2>1. MaxKey \in Links
    BY RBAssumption DEF Links
  <2> QED BY <1>1, <1>2, <2>1, UpToAll
<1> QED BY <1>3

-----------------------------------------------------------------------------
(* Its shape                                                               *)

Trees == [root : Links, kid : [Sides -> [Links -> Links]], parent : [Links -> Links],
          color : [Links -> {"red", "black"}]]

\* The nodes of a tree; those that are not in it have no links.
Nodes(t) == {n \in Keys : n = t.root \/ t.parent[n] # Nil}

\* Between which keys those of a subtree lie, and the key of a node, which is its name but
\* for the moment in which two nodes have exchanged theirs.
Ends == 0..(MaxKey + 1)
Bounds == [Sides -> [Links -> Ends]]
Names == [Links -> Links]
Own == [n \in Links |-> n]

Shape(t, b, v) ==
  /\ t \in Trees /\ b \in Bounds /\ v \in Names
  /\ \A n \in Links \ Nodes(t), s \in Sides : t.kid[s][n] = Nil
  /\ t.root # Nil => t.parent[t.root] = Nil /\ b["left"][t.root] = 0 /\ b["right"][t.root] = MaxKey + 1
  /\ \A n \in Nodes(t) \ {t.root} : t.parent[n] \in Nodes(t) /\ \E s \in Sides : t.kid[s][t.parent[n]] = n
  /\ \A n \in Nodes(t) : b["left"][n] < v[n] /\ v[n] < b["right"][n]
  /\ \A n \in Nodes(t), s \in Sides :
       t.kid[s][n] # Nil =>
         /\ t.parent[t.kid[s][n]] = n
         /\ b[s][t.kid[s][n]] = b[s][n] /\ b[Other(s)][t.kid[s][n]] = v[n]

Width(b, n) == b["right"][n] - b["left"][n]
Within(b, n, k) == b["left"][n] < k /\ k < b["right"][n]

\* A child is a node, of a narrower part.
LEMMA KidIs ==
  ASSUME NEW t, NEW b, NEW v, Shape(t, b, v), NEW n \in Nodes(t), NEW s \in Sides,
         t.kid[s][n] # Nil
  PROVE  /\ t.kid[s][n] \in Nodes(t) /\ t.kid[s][n] # n /\ t.kid[s][n] # t.root
         /\ t.parent[t.kid[s][n]] = n
         /\ Width(b, t.kid[s][n]) \in Int /\ Width(b, n) \in Int
         /\ Width(b, t.kid[s][n]) =< Width(b, n) - 1
<1> DEFINE k == t.kid[s][n]
<1>1. n \in Keys /\ n \in Links /\ n # Nil /\ k \in Links /\ k \in Keys
  <2>1. Keys \subseteq Links /\ Nil \notin Keys /\ Links = Keys \cup {Nil}
    BY RBAssumption DEF Keys, Links, Nil
  <2>2. k \in Links
    BY <2>1 DEF Shape, Trees, Nodes
  <2> QED BY <2>1, <2>2 DEF Nodes
<1>2. t.parent[k] = n /\ b[s][k] = b[s][n] /\ b[Other(s)][k] = v[n]
  BY DEF Shape
<1>3. k \in Nodes(t)
  BY <1>1, <1>2 DEF Nodes
<1>4. k # t.root
  BY <1>1, <1>2, <1>3 DEF Shape
<1>5. \A m \in Links, r \in Sides : b[r][m] \in Int
  BY RBAssumption DEF Shape, Bounds, Ends
<1>6. b["left"][n] < v[n] /\ v[n] < b["right"][n] /\ v[n] \in Int
  BY <1>1, RBAssumption, SMTT(60) DEF Shape, Names, Links
<1>7. Width(b, k) \in Int /\ Width(b, n) \in Int /\ Width(b, k) =< Width(b, n) - 1
  <2> HIDE DEF k
  <2>1. s = "left" \/ s = "right"
    BY DEF Sides
  <2>2. CASE s = "left"
    <3>1. b["left"][k] = b["left"][n] /\ b["right"][k] = v[n]
      BY <1>2, <2>2 DEF Other
    <3>2. b["left"][n] \in Int /\ b["right"][n] \in Int
      BY <1>1, <1>5 DEF Sides
    <3> QED BY <3>1, <3>2, <1>6 DEF Width
  <2>3. CASE s = "right"
    <3>1. b["right"][k] = b["right"][n] /\ b["left"][k] = v[n]
      BY <1>2, <2>3 DEF Other
    <3>2. b["left"][n] \in Int /\ b["right"][n] \in Int
      BY <1>1, <1>5 DEF Sides
    <3> QED BY <3>1, <3>2, <1>6 DEF Width
  <2> QED BY <2>1, <2>2, <2>3
<1> QED BY <1>2, <1>3, <1>4, <1>7
-----------------------------------------------------------------------------
(* Searches                                                                *)

\* What the loop of Descend is made of: a turn, with f for the turns that are left.
Walked(t, k, f) ==
  [d \in Links |->
     [n \in Links |-> [prev \in Links |->
        IF n = Nil \/ d = 0 THEN prev
        ELSE IF k = n THEN n
        ELSE f[d - 1][t.kid[Toward(k, n)][n]][n]]]]
WalkOf(t, k) == CHOOSE f : f = Walked(t, k, f)

\* Descend makes MaxKey turns of its loop.
LEMMA DescendIsWalk ==
  ASSUME NEW t, NEW k PROVE Descend(t, k) = WalkOf(t, k)[MaxKey][t.root][Nil]
BY DEF Descend, WalkOf, Walked

\* The side on which the search goes on.
LEMMA TowardIs == ASSUME NEW k, NEW n PROVE Toward(k, n) \in Sides
BY DEF Toward, Sides

\* What is known of the names of nodes.
LEMMA LinksAre == /\ Links = Keys \cup {Nil} /\ Nil \notin Keys /\ Keys \subseteq Nat
                  /\ MaxKey \in Links /\ 0 \in Links /\ Links \subseteq Nat
                  /\ \A d \in Links : d # 0 => d - 1 \in Links /\ d \in 1..MaxKey
BY RBAssumption DEF Links, Keys, Nil

\* What one turn of the search does.
LEMMA WalkTurn ==
  ASSUME NEW t \in Trees, NEW k \in Keys
  PROVE  \A d, n, prev \in Links :
           WalkOf(t, k)[d][n][prev] =
             IF n = Nil \/ d = 0 THEN prev
             ELSE IF k = n THEN n
             ELSE WalkOf(t, k)[d - 1][t.kid[Toward(k, n)][n]][n]
<1> DEFINE S == [Links -> [Links -> Links]]
           x == [n \in Links |-> [prev \in Links |-> prev]]
           Turn(g) == [n \in Links |-> [prev \in Links |->
                         IF n = Nil THEN prev ELSE IF k = n THEN n
                         ELSE g[t.kid[Toward(k, n)][n]][n]]]
           G == [g \in S |-> Turn(g)]
<1>1. \A n \in Links : t.kid[Toward(k, n)][n] \in Links
  BY TowardIs DEF Trees
<1>2. x \in S
  OBVIOUS
<1>3. G \in [S -> S]
  <2> SUFFICES ASSUME NEW g \in S PROVE Turn(g) \in S
    OBVIOUS
  <2>1. ASSUME NEW n \in Links, NEW prev \in Links
        PROVE  (IF n = Nil THEN prev ELSE IF k = n THEN n ELSE g[t.kid[Toward(k, n)][n]][n]) \in Links
    BY <1>1
  <2> QED BY <2>1
<1>4. PICK f \in [Links -> S] : f[0] = x /\ \A d \in 1..MaxKey : f[d] = G[f[d - 1]]
  <2> HIDE DEF S, x, G
  <2> QED BY <1>2, <1>3, LoopIs
<1>5. ASSUME NEW d \in Links PROVE f[d] = Walked(t, k, f)[d]
  <2>1. CASE d = 0
    BY <2>1, <1>4 DEF Walked
  <2>2. CASE d # 0
    <3>1. d - 1 \in Links /\ d \in 1..MaxKey
      BY <2>2, LinksAre
    <3>2. f[d] = Turn(f[d - 1])
      BY <3>1, <1>4
    <3>3. Walked(t, k, f)[d] = Turn(f[d - 1])
      BY <2>2 DEF Walked
    <3> QED BY <3>2, <3>3, Zenon
  <2> QED BY <2>1, <2>2
<1>6. f = Walked(t, k, f)
  <2>1. DOMAIN f = Links /\ f = [d \in Links |-> f[d]]
    BY <1>4
  <2>2. Walked(t, k, f) = [d \in Links |-> Walked(t, k, f)[d]]
    BY DEF Walked
  <2> HIDE DEF S
  <2> QED BY <1>5, <2>1, <2>2
<1>7. WalkOf(t, k) = Walked(t, k, WalkOf(t, k))
  <2> QED BY <1>6 DEF WalkOf
<1> HIDE DEF S, x, Turn, G
<1> QED
  <2> SUFFICES ASSUME NEW d \in Links, NEW n \in Links, NEW prev \in Links
               PROVE  WalkOf(t, k)[d][n][prev] =
                        IF n = Nil \/ d = 0 THEN prev
                        ELSE IF k = n THEN n
                        ELSE WalkOf(t, k)[d - 1][t.kid[Toward(k, n)][n]][n]
    OBVIOUS
  <2>1. \A f2 : Walked(t, k, f2)[d][n][prev] =
                  IF n = Nil \/ d = 0 THEN prev
                  ELSE IF k = n THEN n
                  ELSE f2[d - 1][t.kid[Toward(k, n)][n]][n]
    BY DEF Walked
  <2>2. Walked(t, k, WalkOf(t, k))[d][n][prev] = WalkOf(t, k)[d][n][prev]
    BY <1>7
  <2> HIDE DEF WalkOf
  <2> QED BY <2>1, <2>2

\* A tree in which nodes are named by their keys.
Tidy(t, b) == Shape(t, b, Own)

\* The part of a node has its key and is as wide as the whole at the root.
LEMMA WidthIs ==
  ASSUME NEW t, NEW b, Tidy(t, b), NEW n \in Nodes(t)
  PROVE  /\ Width(b, n) \in 2..(MaxKey + 1) /\ n \in Keys /\ Within(b, n, n)
         /\ b["left"][n] \in Int /\ b["right"][n] \in Int
         /\ n = t.root => Width(b, n) = MaxKey + 1
<1>1. n \in Keys /\ n \in Links /\ n \in Int
  BY LinksAre DEF Nodes
<1>2. Own[n] = n
  BY <1>1 DEF Own
<1>3. b["left"][n] \in Ends /\ b["right"][n] \in Ends
  BY <1>1 DEF Tidy, Shape, Bounds, Sides
<1>4. b["left"][n] < n /\ n < b["right"][n]
  BY <1>2 DEF Tidy, Shape
<1>5. Width(b, n) \in 2..(MaxKey + 1)
  BY <1>1, <1>3, <1>4, RBAssumption DEF Width, Ends
<1>6. n = t.root => b["left"][n] = 0 /\ b["right"][n] = MaxKey + 1
  BY <1>1, LinksAre DEF Tidy, Shape
<1> QED BY <1>1, <1>3, <1>4, <1>5, <1>6, RBAssumption DEF Within, Width, Ends

\* The child on the way to a key has it within its bounds.
LEMMA TowardKey ==
  ASSUME NEW t, NEW b, Tidy(t, b), NEW n \in Nodes(t), NEW k \in Keys, Within(b, n, k), k # n
  PROVE  LET m == t.kid[Toward(k, n)][n] IN
         m # Nil => m \in Nodes(t) /\ Within(b, m, k) /\ Width(b, m) =< Width(b, n) - 1 /\ m # n
<1> DEFINE m == t.kid[Toward(k, n)][n]
<1> SUFFICES ASSUME m # Nil
             PROVE  m \in Nodes(t) /\ Within(b, m, k) /\ Width(b, m) =< Width(b, n) - 1 /\ m # n
  OBVIOUS
<1>1. m \in Nodes(t) /\ m # n /\ Width(b, m) =< Width(b, n) - 1
  BY TowardIs, KidIs DEF Tidy
<1>2. n \in Int /\ k \in Int /\ Own[n] = n
  BY LinksAre DEF Nodes, Own
<1>3. CASE k < n
  <2>1. m = t.kid["left"][n] /\ b["left"][m] = b["left"][n] /\ b["right"][m] = n
    BY <1>2, <1>3 DEF Tidy, Shape, Toward, Sides, Other
  <2> QED BY <1>1, <1>3, <2>1 DEF Within
<1>4. CASE ~(k < n)
  <2>1. m = t.kid["right"][n] /\ b["right"][m] = b["right"][n] /\ b["left"][m] = n
    BY <1>2, <1>4 DEF Tidy, Shape, Toward, Sides, Other
  <2> QED BY <1>1, <1>2, <1>4, <2>1 DEF Within
<1> QED BY <1>3, <1>4

\* Every node lies on the search path of the keys within its bounds.
LEMMA PathThrough ==
  ASSUME NEW t, NEW b, Tidy(t, b), NEW k \in Keys, NEW n \in Nodes(t), Within(b, n, k)
  PROVE  \E d \in Links, prev \in Links :
           /\ d >= Width(b, n) - 1
           /\ Descend(t, k) = WalkOf(t, k)[d][n][prev]
<1> DEFINE On(m) == \E d \in Links, prev \in Links :
                      d >= Width(b, m) - 1 /\ Descend(t, k) = WalkOf(t, k)[d][m][prev]
           Off(w) == \E m \in Nodes(t) : Within(b, m, k) /\ ~On(m) /\ w = MaxKey + 1 - Width(b, m)
           A == {w \in Nat : Off(w)}
<1> SUFFICES ASSUME ~On(n) PROVE FALSE
  OBVIOUS
<1>0. t \in Trees
  BY DEF Tidy, Shape
<1>1. MaxKey + 1 - Width(b, n) \in A
  <2>1. MaxKey + 1 - Width(b, n) \in Nat
    BY WidthIs, RBAssumption
  <2> HIDE DEF On
  <2> QED BY <2>1
<1>2. PICK w \in A : \A x \in A : w =< x
  <2> HIDE DEF A
  <2>1. A \subseteq Nat
    BY DEF A
  <2> QED BY <1>1, <2>1, LeastOf
<1>3. PICK m \in Nodes(t) : Within(b, m, k) /\ ~On(m) /\ w = MaxKey + 1 - Width(b, m)
  <2> HIDE DEF On
  <2> QED BY <1>2
<1>4. m # t.root
  <2> SUFFICES ASSUME m = t.root PROVE FALSE
    OBVIOUS
  <2>1. Width(b, m) = MaxKey + 1
    BY WidthIs
  <2>2. Descend(t, k) = WalkOf(t, k)[MaxKey][m][Nil]
    BY DescendIsWalk
  <2>3. On(m)
    BY <2>1, <2>2, LinksAre, RBAssumption DEF Nil
  <2> QED BY <2>3, <1>3
<1> DEFINE p == t.parent[m]
<1>5. p \in Nodes(t) /\ \E s \in Sides : t.kid[s][p] = m
  BY <1>4 DEF Tidy, Shape
<1>6. PICK s \in Sides : t.kid[s][p] = m
  BY <1>5
<1>7. m # Nil /\ m \in Keys /\ p \in Keys
  BY <1>5, LinksAre DEF Nodes
<1>8. Width(b, m) =< Width(b, p) - 1
  BY <1>5, <1>6, <1>7, KidIs DEF Tidy
<1> HIDE DEF p
<1>9. Within(b, p, k) /\ k # p /\ Toward(k, p) = s
  <2>1. b[s][m] = b[s][p] /\ b[Other(s)][m] = p
    BY <1>5, <1>6, <1>7, LinksAre, ZenonT(60) DEF Tidy, Shape, Own
  <2>2. b["left"][p] < p /\ p < b["right"][p] /\ b["left"][p] \in Int /\ b["right"][p] \in Int
    BY <1>5, WidthIs DEF Within
  <2>3. b["left"][m] < k /\ k < b["right"][m] /\ k \in Int /\ p \in Int
    BY <1>3, <1>7, LinksAre DEF Within
  <2>4. CASE s = "left"
    BY <2>1, <2>2, <2>3, <2>4 DEF Other, Within, Toward
  <2>5. CASE s = "right"
    <3>1. b["right"][m] = b["right"][p] /\ b["left"][m] = p
      BY <2>1, <2>5 DEF Other
    <3> QED BY <3>1, <2>2, <2>3, <2>5 DEF Within, Toward
  <2> QED BY <2>4, <2>5 DEF Sides
<1>10. On(p)
  <2> HIDE DEF On
  <2> SUFFICES ASSUME ~On(p) PROVE FALSE
    OBVIOUS
  <2>1. MaxKey + 1 - Width(b, p) \in A
    <3>1. MaxKey + 1 - Width(b, p) \in Nat
      BY <1>5, WidthIs, RBAssumption
    <3> QED BY <3>1, <1>5, <1>9
  <2>2. w =< MaxKey + 1 - Width(b, p)
    BY <1>2, <2>1
  <2>3. Width(b, m) \in Int /\ Width(b, p) \in Int
    BY <1>5, WidthIs
  <2> QED BY <1>3, <1>8, <2>2, <2>3, RBAssumption
<1>11. On(m)
  <2>1. PICK d \in Links, prev \in Links :
          d >= Width(b, p) - 1 /\ Descend(t, k) = WalkOf(t, k)[d][p][prev]
    BY <1>10
  <2>2. Width(b, m) \in Int /\ Width(b, p) \in Int /\ Width(b, m) >= 2 /\ d \in Int
    BY <1>5, WidthIs, LinksAre
  <2>3. d # 0 /\ d - 1 \in Links /\ d - 1 >= Width(b, m) - 1
    BY <2>1, <2>2, <1>8, LinksAre
  <2>4. p \in Links /\ p # Nil
    BY <1>7, LinksAre
  <2>5. WalkOf(t, k)[d][p][prev] = WalkOf(t, k)[d - 1][m][p]
    BY <1>0, <2>3, <2>4, <1>6, <1>9, WalkTurn
  <2> QED BY <2>1, <2>3, <2>4, <2>5
<1> QED BY <1>3, <1>11

\* A key is found exactly if it is a node.
LEMMA SearchFinds ==
  ASSUME NEW t, NEW b, Tidy(t, b), NEW k \in Keys
  PROVE  k \in Nodes(t) => Descend(t, k) = k
<1> SUFFICES ASSUME k \in Nodes(t) PROVE Descend(t, k) = k
  OBVIOUS
<1>1. PICK d \in Links, prev \in Links :
        d >= Width(b, k) - 1 /\ Descend(t, k) = WalkOf(t, k)[d][k][prev]
  BY WidthIs, PathThrough
<1>2. d # 0
  BY <1>1, WidthIs, LinksAre
<1>3. t \in Trees /\ k \in Links /\ k # Nil
  BY LinksAre DEF Tidy, Shape
<1> QED BY <1>1, <1>2, <1>3, WalkTurn

\* Where the search for a key that is not there ends.
Lacks(t, b, k, p) == p \in Nodes(t) /\ Within(b, p, k) /\ k # p /\ t.kid[Toward(k, p)][p] = Nil

\* The search for a key that is not there ends at a node that lacks a child on its side.
LEMMA SearchEnds ==
  ASSUME NEW t, NEW b, Tidy(t, b), NEW k \in Keys \ Nodes(t)
  PROVE  IF t.root = Nil THEN Descend(t, k) = Nil ELSE Lacks(t, b, k, Descend(t, k))
<1>0. t \in Trees /\ t.root \in Links
  BY DEF Tidy, Shape, Trees
<1> DEFINE W == WalkOf(t, k)
           P == {d \in Links : \A n \in Nodes(t), prev \in Links :
                   Within(b, n, k) /\ Width(b, n) =< d + 1 => Lacks(t, b, k, W[d][n][prev])}
<1>1. 0 \in P
  <2>1. \A n \in Nodes(t) : ~(Width(b, n) =< 0 + 1)
    BY WidthIs, RBAssumption
  <2> HIDE DEF W
  <2> QED BY <2>1, LinksAre
<1>2. ASSUME NEW d \in 1..MaxKey, d - 1 \in P PROVE d \in P
  <2>1. d \in Links /\ d - 1 \in Links /\ d # 0 /\ d \in Int
    BY RBAssumption DEF Links
  <2> SUFFICES ASSUME NEW n \in Nodes(t), NEW prev \in Links, Within(b, n, k), Width(b, n) =< d + 1
               PROVE  Lacks(t, b, k, W[d][n][prev])
    BY <2>1
  <2> DEFINE m == t.kid[Toward(k, n)][n]
  <2>2. n \in Links /\ n # Nil /\ n # k /\ m \in Links
    BY <1>0, LinksAre, TowardIs DEF Nodes, Trees
  <2>3. W[d][n][prev] = W[d - 1][m][n]
    BY <1>0, <2>1, <2>2, WalkTurn
  <2>4. CASE m = Nil
    <3>1. W[d - 1][m][n] = n
      BY <1>0, <2>1, <2>2, <2>4, WalkTurn
    <3> HIDE DEF W
    <3> QED BY <3>1, <2>2, <2>3, <2>4 DEF Lacks
  <2>5. CASE m # Nil
    <3>1. m \in Nodes(t) /\ Within(b, m, k) /\ Width(b, m) =< Width(b, n) - 1
      BY <2>2, <2>5, TowardKey
    <3>2. Width(b, m) =< (d - 1) + 1
      <4> HIDE DEF m
      <4>1. Width(b, m) \in Int /\ Width(b, n) \in Int
        BY <3>1, WidthIs
      <4> QED BY <3>1, <2>1, <4>1
    <3> HIDE DEF W, m
    <3>3. Lacks(t, b, k, W[d - 1][m][n])
      BY <1>2, <3>1, <3>2, <2>2
    <3> QED BY <2>3, <3>3
  <2> QED BY <2>4, <2>5
<1>3. MaxKey \in P
  <2> HIDE DEF P
  <2> QED BY <1>1, <1>2, LinksAre, UpToAll
<1>4. CASE t.root = Nil
  <2>1. W[MaxKey][Nil][Nil] = Nil
    BY <1>0, LinksAre, WalkTurn
  <2> QED BY <1>4, <2>1, DescendIsWalk
<1>5. CASE t.root # Nil
  <2>1. t.root \in Nodes(t) /\ Width(b, t.root) = MaxKey + 1
    BY <1>0, <1>5, LinksAre, WidthIs DEF Nodes
  <2>2. Within(b, t.root, k)
    BY <1>5, RBAssumption DEF Tidy, Shape, Within, Keys
  <2>3. Lacks(t, b, k, W[MaxKey][t.root][Nil])
    <3> HIDE DEF W
    <3>1. MaxKey + 1 =< MaxKey + 1
      BY RBAssumption
    <3> QED BY <1>3, <2>1, <2>2, <3>1, LinksAre
  <2> QED BY <1>5, <2>3, DescendIsWalk
<1> QED BY <1>4, <1>5

\* RBT_search finds a key exactly if a node has it (rbtree.c:291-308).
LEMMA FoundIsNode ==
  ASSUME NEW t, NEW b, Tidy(t, b), NEW k \in Keys
  PROVE  Found(t, k) <=> k \in Nodes(t)
<1>1. k \in Nodes(t) => Found(t, k)
  BY SearchFinds DEF Found
<1>2. k \notin Nodes(t) => ~Found(t, k)
  BY SearchEnds, LinksAre DEF Found, Lacks
<1> QED BY <1>1, <1>2
-----------------------------------------------------------------------------
(* Rotations                                                               *)

\* There are two sides, each the other of the other.
LEMMA SidesAre == /\ \A s \in Sides : Other(s) \in Sides /\ Other(s) # s /\ Other(Other(s)) = s
                  /\ \A r, s \in Sides : r # s => r = Other(s)
BY DEF Sides, Other

\* What the shape says of a node.
LEMMA NodeIs ==
  ASSUME NEW t \in Trees, NEW n \in Nodes(t)
  PROVE  n \in Links /\ n \in Keys /\ n # Nil /\ t.parent[n] \in Links
BY LinksAre DEF Nodes, Trees

\* A node but the root is a child of its parent, on the side the parent knows it by.
LEMMA ParentIs ==
  ASSUME NEW t, NEW b, NEW v, Shape(t, b, v), NEW n \in Nodes(t)
  PROVE  /\ t.parent[n] = Nil <=> n = t.root
         /\ n # t.root =>
              /\ t.parent[n] \in Nodes(t) /\ t.parent[n] # n
              /\ t.kid[SideOf(t, n)][t.parent[n]] = n
              /\ \A s \in Sides : t.kid[s][t.parent[n]] = n => s = SideOf(t, n)
         /\ SideOf(t, n) \in Sides
<1>0. t \in Trees
  BY DEF Shape
<1>1. SideOf(t, n) \in Sides
  BY DEF SideOf, Sides
<1>2. n = t.root => t.parent[n] = Nil
  BY <1>0, NodeIs DEF Shape
<1>3. ASSUME n # t.root
      PROVE  /\ t.parent[n] \in Nodes(t) /\ t.parent[n] # n /\ t.parent[n] # Nil
             /\ t.kid[SideOf(t, n)][t.parent[n]] = n
             /\ \A s \in Sides : t.kid[s][t.parent[n]] = n => s = SideOf(t, n)
  <2> DEFINE p == t.parent[n]
  <2>1. p \in Nodes(t) /\ \E s \in Sides : t.kid[s][p] = n
    BY <1>3 DEF Shape
  <2>2. p # Nil /\ n # Nil
    BY <1>0, <2>1, NodeIs
  <2> HIDE DEF p
  <2>3. ~(t.kid["left"][p] = n /\ t.kid["right"][p] = n)
    <3> SUFFICES ASSUME t.kid["left"][p] = n, t.kid["right"][p] = n PROVE FALSE
      OBVIOUS
    <3>1. b["left"][n] = b["left"][p] /\ b["left"][n] = v[p]
      BY <2>1, <2>2 DEF Shape, Sides, Other
    <3>2. b["left"][p] < v[p]
      BY <2>1 DEF Shape
    <3>3. v[p] \in Int
      BY <2>1, <1>0, NodeIs, LinksAre DEF Shape, Names
    <3> QED BY <3>1, <3>2, <3>3
  <2>4. p # n
    BY <1>3, <2>1, <2>2, KidIs
  <2>5. t.kid[SideOf(t, n)][p] = n /\ \A s \in Sides : t.kid[s][p] = n => s = SideOf(t, n)
    BY <2>1, <2>3, SMTT(60) DEF SideOf, Sides, p
  <2> QED BY <2>1, <2>2, <2>4, <2>5 DEF p
<1> QED BY <1>1, <1>2, <1>3

\* The nodes a rotation is about.
LEMMA AroundIs ==
  ASSUME NEW t, NEW b, NEW v, Shape(t, b, v), NEW x \in Nodes(t), NEW s \in Sides,
         NEW y, y = t.kid[Other(s)][x], y # Nil, NEW z, z = t.kid[s][y], NEW p, p = t.parent[x]
  PROVE  /\ t \in Trees /\ x \in Links /\ x # Nil /\ y \in Nodes(t) /\ y \in Links /\ z \in Links /\ p \in Links
         /\ x # y /\ z # x /\ z # y /\ p # x /\ p # y /\ (p # Nil => p # z)
         /\ t.parent[y] = x /\ y # t.root
         /\ z # Nil => z \in Nodes(t) /\ t.parent[z] = y /\ z # t.root
<1>0. t \in Trees /\ x \in Links /\ x # Nil /\ p \in Links
  BY NodeIs DEF Shape
<1>1. /\ y \in Nodes(t) /\ x # y /\ t.parent[y] = x /\ y # t.root
      /\ Width(b, x) \in Int /\ Width(b, y) \in Int /\ Width(b, y) =< Width(b, x) - 1
  BY SidesAre, KidIs
<1>2. y \in Links /\ z \in Links
  BY <1>0, <1>1, NodeIs DEF Trees
<1>3. z # Nil => /\ z \in Nodes(t) /\ z # y /\ t.parent[z] = y /\ z # t.root
                 /\ Width(b, z) \in Int /\ Width(b, z) =< Width(b, y) - 1
  BY <1>1, KidIs
<1>4. z # x /\ z # y
  BY <1>0, <1>1, <1>3, NodeIs
<1>5. p # Nil => /\ p \in Nodes(t) /\ p # x /\ Width(b, p) \in Int /\ Width(b, x) =< Width(b, p) - 1
  <2> SUFFICES ASSUME p # Nil
               PROVE  p \in Nodes(t) /\ p # x /\ Width(b, p) \in Int /\ Width(b, x) =< Width(b, p) - 1
    OBVIOUS
  <2>1. p \in Nodes(t) /\ p # x /\ SideOf(t, x) \in Sides /\ t.kid[SideOf(t, x)][p] = x
    BY ParentIs
  <2> QED BY <1>0, <2>1, KidIs
<1>6. p # x /\ p # y /\ (p # Nil => p # z)
  BY <1>0, <1>1, <1>2, <1>3, <1>5, NodeIs
<1> QED BY <1>0, <1>1, <1>2, <1>3, <1>4, <1>6, Zenon

\* Assignments to a link, to a parent and to the root.  (What they are and that they make
\* trees is stated apart: together the provers would apply them over and over.)
LEMMA SetKidTree ==
  ASSUME NEW t \in Trees, NEW s \in Sides, NEW n \in Links, NEW x \in Links
  PROVE  SetKid(t, s, n, x) \in Trees
BY DEF Trees, SetKid

LEMMA SetKidIs ==
  ASSUME NEW t \in Trees, NEW s \in Sides, NEW n \in Links, NEW x \in Links
  PROVE  /\ SetKid(t, s, n, x).color = t.color /\ SetKid(t, s, n, x).root = t.root
         /\ SetKid(t, s, n, x).parent = t.parent
         /\ \A m \in Links, r \in Sides :
              SetKid(t, s, n, x).kid[r][m] = IF m = n /\ r = s THEN x ELSE t.kid[r][m]
<1> DEFINE u == SetKid(t, s, n, x)
<1>1. u.color = t.color /\ u.root = t.root /\ u.parent = t.parent
  BY DEF Trees, SetKid
<1>2. u.kid = [t.kid EXCEPT ![s] = [@ EXCEPT ![n] = x]]
  BY DEF Trees, SetKid
<1> HIDE DEF u
<1>3. ASSUME NEW m \in Links, NEW r \in Sides
      PROVE  u.kid[r][m] = IF m = n /\ r = s THEN x ELSE t.kid[r][m]
  BY <1>2 DEF Trees
<1> QED BY <1>1, <1>3 DEF u

LEMMA SetParentTree ==
  ASSUME NEW t \in Trees, NEW n \in Links, NEW x \in Links
  PROVE  SetParent(t, n, x) \in Trees
BY DEF Trees, SetParent

LEMMA SetParentIs ==
  ASSUME NEW t \in Trees, NEW n \in Links, NEW x \in Links
  PROVE  /\ SetParent(t, n, x).color = t.color /\ SetParent(t, n, x).root = t.root
         /\ SetParent(t, n, x).kid = t.kid
         /\ \A m \in Links : SetParent(t, n, x).parent[m] = IF m = n THEN x ELSE t.parent[m]
BY DEF Trees, SetParent

LEMMA SetRootIs ==
  ASSUME NEW t \in Trees, NEW x \in Links
  PROVE  /\ SetRoot(t, x) \in Trees /\ SetRoot(t, x).color = t.color /\ SetRoot(t, x).root = x
         /\ SetRoot(t, x).parent = t.parent /\ SetRoot(t, x).kid = t.kid
BY DEF Trees, SetRoot

\* PutAt makes a tree,
LEMMA PutAtTree ==
  ASSUME NEW t \in Trees, NEW p \in Links, NEW sd \in Sides, NEW y \in Links
  PROVE  PutAt(t, p, sd, y) \in Trees
<1> DEFINE a == IF p = Nil THEN SetRoot(t, y) ELSE SetKid(t, sd, p, y)
<1>1. a \in Trees
  BY SetRootIs, SetKidTree
<1> HIDE DEF a
<1>2. SetParent(a, y, p) \in Trees
  BY <1>1, SetParentTree
<1> QED BY <1>2 DEF a, PutAt

\* and what it changes.
LEMMA PutAtIs ==
  ASSUME NEW t \in Trees, NEW p \in Links, NEW sd \in Sides, NEW y \in Links
  PROVE  /\ PutAt(t, p, sd, y).color = t.color
         /\ PutAt(t, p, sd, y).root = IF p = Nil THEN y ELSE t.root
         /\ \A n \in Links, r \in Sides :
              PutAt(t, p, sd, y).kid[r][n] =
                IF n = p /\ p # Nil /\ r = sd THEN y ELSE t.kid[r][n]
         /\ \A n \in Links : PutAt(t, p, sd, y).parent[n] = IF n = y THEN p ELSE t.parent[n]
<1>1. CASE p = Nil
  <2>1. PutAt(t, p, sd, y) = SetParent(SetRoot(t, y), y, p)
    BY <1>1 DEF PutAt
  <2> DEFINE a == SetRoot(t, y)
  <2>2. a \in Trees /\ a.color = t.color /\ a.root = y /\ a.parent = t.parent /\ a.kid = t.kid
    BY SetRootIs
  <2>3. PutAt(t, p, sd, y) = SetParent(a, y, p)
    BY <2>1
  <2> HIDE DEF a
  <2> QED BY <1>1, <2>2, <2>3, SetParentIs
<1>2. CASE p # Nil
  <2>1. PutAt(t, p, sd, y) = SetParent(SetKid(t, sd, p, y), y, p)
    BY <1>2 DEF PutAt
  <2> DEFINE a == SetKid(t, sd, p, y)
  <2>2. a \in Trees
    BY SetKidTree
  <2>3. /\ a.color = t.color /\ a.root = t.root /\ a.parent = t.parent
        /\ \A n \in Links, r \in Sides : a.kid[r][n] = IF n = p /\ r = sd THEN y ELSE t.kid[r][n]
    BY SetKidIs
  <2>4. PutAt(t, p, sd, y) = SetParent(a, y, p)
    BY <2>1
  <2> HIDE DEF a
  <2>5. /\ SetParent(a, y, p).color = a.color /\ SetParent(a, y, p).root = a.root
        /\ SetParent(a, y, p).kid = a.kid
        /\ \A m \in Links : SetParent(a, y, p).parent[m] = IF m = y THEN p ELSE a.parent[m]
    BY <2>2, SetParentIs
  <2> QED BY <1>2, <2>3, <2>4, <2>5
<1> QED BY <1>1, <1>2

\* A rotation at x, of which y and z are the child that rises and that child's, and p the parent.
Rotated(t, x, s, y, z, p, r) ==
  LET u == SetKid(SetParent(SetKid(PutAt(t, p, r, y), s, y, x), x, y), Other(s), x, z)
  IN  IF z = Nil THEN u ELSE SetParent(u, z, x)

\* A rotation by its nodes,
LEMMA RotateIsRotated ==
  ASSUME NEW t, NEW x, NEW s, t.kid[Other(s)][x] # Nil
  PROVE  Rotate(t, x, s) = Rotated(t, x, s, t.kid[Other(s)][x], t.kid[s][t.kid[Other(s)][x]],
                                   t.parent[x], SideOf(t, x))
BY DEF Replace, Rotate, Rotated

\* What it changes.
Turned(t, u, x, s, y, z, p, sd) ==
  /\ u \in Trees /\ u.color = t.color /\ u.root = IF p = Nil THEN y ELSE t.root
  /\ \A n \in Links, r \in Sides :
       u.kid[r][n] = IF n = x /\ r = Other(s) THEN z
                     ELSE IF n = y /\ r = s THEN x
                     ELSE IF n = p /\ p # Nil /\ r = sd THEN y
                     ELSE t.kid[r][n]
  /\ \A n \in Links :
       u.parent[n] = IF n = z /\ z # Nil THEN x ELSE IF n = x THEN y ELSE IF n = y THEN p
                     ELSE t.parent[n]

\* and what it changes if they differ.
LEMMA RotatedIs ==
  ASSUME NEW t \in Trees, NEW x \in Links, NEW s \in Sides, NEW y \in Links, NEW z \in Links,
         NEW p \in Links, NEW sd \in Sides, x # Nil, x # y, z # x, z # y, p # x, p # y
  PROVE  Turned(t, Rotated(t, x, s, y, z, p, sd), x, s, y, z, p, sd)
<1> DEFINE u == Rotated(t, x, s, y, z, p, sd)
<1>1. Other(s) \in Sides /\ Other(s) # s
  BY SidesAre
<1> DEFINE a == PutAt(t, p, sd, y)
           c == SetKid(a, s, y, x)
           d == SetParent(c, x, y)
           e == SetKid(d, Other(s), x, z)
<1>2. u = IF z = Nil THEN e ELSE SetParent(e, z, x)
  BY DEF Rotated
<1> HIDE DEF u
<1>3a. a \in Trees
  BY PutAtTree
<1>3. /\ a.color = t.color /\ a.root = IF p = Nil THEN y ELSE t.root
      /\ \A n \in Links, r \in Sides :
           a.kid[r][n] = IF n = p /\ p # Nil /\ r = sd THEN y ELSE t.kid[r][n]
      /\ \A n \in Links : a.parent[n] = IF n = y THEN p ELSE t.parent[n]
  BY PutAtIs
<1> HIDE DEF a
<1>4a. c \in Trees
  BY <1>3a, SetKidTree
<1>4. /\ c.color = a.color /\ c.root = a.root /\ c.parent = a.parent
      /\ \A n \in Links, r \in Sides : c.kid[r][n] = IF n = y /\ r = s THEN x ELSE a.kid[r][n]
  BY <1>3a, SetKidIs
<1> HIDE DEF c
<1>5a. d \in Trees
  BY <1>4a, SetParentTree
<1>5. /\ d.color = c.color /\ d.root = c.root /\ d.kid = c.kid
      /\ \A n \in Links : d.parent[n] = IF n = x THEN y ELSE c.parent[n]
  BY <1>4a, SetParentIs
<1> HIDE DEF d
<1>6a. e \in Trees
  BY <1>1, <1>5a, SetKidTree
<1>6. /\ e.color = d.color /\ e.root = d.root /\ e.parent = d.parent
      /\ \A n \in Links, r \in Sides :
           e.kid[r][n] = IF n = x /\ r = Other(s) THEN z ELSE d.kid[r][n]
  BY <1>1, <1>5a, SetKidIs
<1> HIDE DEF e
<1> SUFFICES Turned(t, u, x, s, y, z, p, sd)
  BY DEF u
<1>7. CASE z = Nil
  <2>1. u = e
    BY <1>2, <1>7
  <2> QED BY <1>3, <1>4, <1>5, <1>6, <1>6a, <1>7, <2>1 DEF Turned
<1>8. CASE z # Nil
  <2>1. u = SetParent(e, z, x)
    BY <1>2, <1>8
  <2>2. u \in Trees
    BY <1>6a, <2>1, SetParentTree
  <2>3. /\ u.color = e.color /\ u.root = e.root /\ u.kid = e.kid
        /\ \A n \in Links : u.parent[n] = IF n = z THEN x ELSE e.parent[n]
    BY <1>6a, <2>1, SetParentIs
  <2> QED BY <1>3, <1>4, <1>5, <1>6, <1>8, <2>2, <2>3 DEF Turned
<1> QED BY <1>7, <1>8

\* What a rotation changes.
LEMMA RotateIs ==
  ASSUME NEW t, NEW b, NEW v, Shape(t, b, v), NEW x \in Nodes(t), NEW s \in Sides,
         NEW y, y = t.kid[Other(s)][x], y # Nil, NEW z, z = t.kid[s][y], NEW p, p = t.parent[x]
  PROVE  Turned(t, Rotate(t, x, s), x, s, y, z, p, SideOf(t, x))
<1>1. /\ t \in Trees /\ x \in Links /\ x # Nil /\ y \in Links /\ z \in Links /\ p \in Links
      /\ x # y /\ z # x /\ z # y /\ p # x /\ p # y
  BY AroundIs
<1>2. SideOf(t, x) \in Sides
  BY ParentIs
<1>3. Rotate(t, x, s) = Rotated(t, x, s, y, z, p, SideOf(t, x))
  BY RotateIsRotated
<1> QED BY <1>1, <1>2, <1>3, RotatedIs

\* A node is a child on one side only.
LEMMA OneSide ==
  ASSUME NEW t, NEW b, NEW v, Shape(t, b, v), NEW n \in Nodes(t), NEW r \in Sides, NEW s \in Sides,
         t.kid[r][n] # Nil, t.kid[r][n] = t.kid[s][n]
  PROVE  r = s
<1> DEFINE k == t.kid[r][n]
<1>1. k \in Nodes(t) /\ k # t.root /\ t.parent[k] = n
  BY KidIs
<1>2. r = SideOf(t, k) /\ s = SideOf(t, k)
  BY <1>1, ParentIs
<1> QED BY <1>2, Zenon

\* A rotation keeps the shape: the bounds change at x and y only (rbtree.c:6-54).
LEMMA RotateShape ==
  ASSUME NEW t, NEW b, NEW v, Shape(t, b, v), NEW x \in Nodes(t), NEW s \in Sides,
         t.kid[Other(s)][x] # Nil
  PROVE  /\ \E c : Shape(Rotate(t, x, s), c, v)
         /\ Nodes(Rotate(t, x, s)) = Nodes(t)
<1> DEFINE y == t.kid[Other(s)][x]
           z == t.kid[s][y]
           p == t.parent[x]
           sd == SideOf(t, x)
           u == Rotate(t, x, s)
           c == [r \in Sides |-> [n \in Links |->
                   IF n = y THEN b[r][x] ELSE IF n = x /\ r = Other(s) THEN v[y] ELSE b[r][n]]]
<1>1. /\ t \in Trees /\ x \in Links /\ x # Nil /\ y \in Nodes(t) /\ y \in Links /\ z \in Links /\ p \in Links
      /\ x # y /\ z # x /\ z # y /\ p # x /\ p # y /\ (p # Nil => p # z)
      /\ t.parent[y] = x /\ y # t.root /\ y # Nil
      /\ z # Nil => z \in Nodes(t) /\ t.parent[z] = y /\ z # t.root
  BY AroundIs
<1>2. /\ u \in Trees /\ u.color = t.color
      /\ u.root = IF p = Nil THEN y ELSE t.root
      /\ \A n \in Links, r \in Sides :
           u.kid[r][n] = IF n = x /\ r = Other(s) THEN z
                         ELSE IF n = y /\ r = s THEN x
                         ELSE IF n = p /\ p # Nil /\ r = sd THEN y
                         ELSE t.kid[r][n]
      /\ \A n \in Links :
           u.parent[n] = IF n = z /\ z # Nil THEN x ELSE IF n = x THEN y ELSE IF n = y THEN p
                         ELSE t.parent[n]
  <2>1. Turned(t, u, x, s, y, z, p, sd)
    BY <1>1, RotateIs, Zenon
  <2> HIDE DEF u, p, sd, z, y
  <2> QED BY <2>1 DEF Turned
<1>3. /\ p = Nil <=> x = t.root
      /\ p # Nil => p \in Nodes(t) /\ t.kid[sd][p] = x
      /\ sd \in Sides
      /\ Other(s) \in Sides /\ Other(s) # s /\ Other(Other(s)) = s
  BY ParentIs, SidesAre
<1>4. /\ y = t.kid[Other(s)][x] /\ z = t.kid[s][y] /\ p = t.parent[x]
      /\ \A r \in Sides, n \in Links :
           c[r][n] = IF n = y THEN b[r][x] ELSE IF n = x /\ r = Other(s) THEN v[y] ELSE b[r][n]
  OBVIOUS
<1>5. v \in Names /\ b \in Bounds
  BY DEF Shape
<1>6. c \in Bounds
  <2> SUFFICES ASSUME NEW r \in Sides, NEW n \in Links
               PROVE  (IF n = y THEN b[r][x] ELSE IF n = x /\ r = Other(s) THEN v[y] ELSE b[r][n]) \in Ends
    BY DEF Bounds
  <2>1. v[y] \in Ends
    <3>1. v[y] \in Links
      BY <1>1, <1>5 DEF Names
    <3> QED BY <3>1, RBAssumption DEF Links, Ends
  <2> QED BY <1>1, <1>5, <2>1 DEF Bounds
<1> HIDE DEF u, c, p, sd, z, y
<1>6a. /\ u.kid[Other(s)][x] = z /\ u.kid[s][y] = x /\ (p # Nil => u.kid[sd][p] = y)
       /\ u.parent[x] = y /\ u.parent[y] = p /\ (z # Nil => u.parent[z] = x)
       /\ \A n \in Links : n # x /\ n # y /\ n # z => u.parent[n] = t.parent[n]
  BY <1>1, <1>2, <1>3
<1>6b. /\ \A r \in Sides : c[r][y] = b[r][x]
       /\ c[Other(s)][x] = v[y] /\ c[s][x] = b[s][x]
       /\ \A r \in Sides, n \in Links : n # x /\ n # y => c[r][n] = b[r][n]
  BY <1>1, <1>3, <1>4
<1>6c. /\ \A n \in Nodes(t) : b["left"][n] < v[n] /\ v[n] < b["right"][n]
       /\ \A n \in Nodes(t), r \in Sides :
            t.kid[r][n] # Nil => b[r][t.kid[r][n]] = b[r][n] /\ b[Other(r)][t.kid[r][n]] = v[n]
  BY DEF Shape
<1>7. Nodes(u) = Nodes(t)
  <2> SUFFICES ASSUME NEW n \in Keys PROVE n \in Nodes(u) <=> n \in Nodes(t)
    BY DEF Nodes
  <2>1. n \in Links /\ n # Nil
    BY LinksAre
  <2>2. x \in Nodes(t) /\ n \in Nodes(t) <=> (n = t.root \/ t.parent[n] # Nil)
    BY DEF Nodes
  <2>3. n \in Nodes(u) <=> (n = u.root \/ u.parent[n] # Nil)
    BY DEF Nodes
  <2> QED BY <1>1, <1>2, <1>3, <2>1, <2>2, <2>3
<1>8. /\ b["left"][x] < v[x] /\ v[x] < b["right"][x] /\ b["left"][y] < v[y] /\ v[y] < b["right"][y]
      /\ b[Other(s)][y] = b[Other(s)][x] /\ b[s][y] = v[x]
  <2>1. /\ b[Other(s)][t.kid[Other(s)][x]] = b[Other(s)][x]
        /\ b[Other(Other(s))][t.kid[Other(s)][x]] = v[x]
    BY <1>3, <1>6c, Zenon
  <2> QED BY <1>1, <1>3, <1>4, <1>6c, <2>1, Zenon
<1>9. /\ v[x] \in Int /\ v[y] \in Int
      /\ \A n \in Links, r \in Sides : b[r][n] \in Int /\ 0 =< b[r][n] /\ b[r][n] =< MaxKey + 1
  BY <1>1, <1>5, LinksAre, RBAssumption DEF Names, Bounds, Ends
<1>10. b["left"][x] < v[y] /\ v[y] < b["right"][x]
  <2>1. CASE s = "left"
    BY <1>1, <1>8, <1>9, <2>1 DEF Other, Sides
  <2>2. CASE s = "right"
    BY <1>1, <1>8, <1>9, <2>2 DEF Other, Sides
  <2> QED BY <2>1, <2>2 DEF Sides
<1>11. c["left"][x] < v[x] /\ v[x] < c["right"][x]
  <2>1. CASE s = "left"
    BY <1>1, <1>4, <1>8, <1>9, <2>1, Zenon DEF Other, Sides
  <2>2. CASE s = "right"
    BY <1>1, <1>4, <1>8, <1>9, <2>2, Zenon DEF Other, Sides
  <2> QED BY <2>1, <2>2 DEF Sides
<1>12. \A n \in Nodes(u) : c["left"][n] < v[n] /\ v[n] < c["right"][n]
  <2> SUFFICES ASSUME NEW n \in Nodes(t) PROVE c["left"][n] < v[n] /\ v[n] < c["right"][n]
    BY <1>7
  <2>1. n \in Links /\ b["left"][n] < v[n] /\ v[n] < b["right"][n]
    BY <1>1, NodeIs DEF Shape
  <2> QED BY <1>4, <1>10, <1>11, <2>1 DEF Sides
<1>13. \A n \in Links \ Nodes(u), r \in Sides : u.kid[r][n] = Nil
  <2> SUFFICES ASSUME NEW n \in Links, n \notin Nodes(t), NEW r \in Sides PROVE u.kid[r][n] = Nil
    BY <1>7
  <2>1. n # x /\ n # y /\ (p # Nil => n # p)
    BY <1>1, <1>3
  <2>2. t.kid[r][n] = Nil
    BY DEF Shape
  <2> QED BY <1>2, <2>1, <2>2
<1>14. u.root # Nil => /\ u.parent[u.root] = Nil
                       /\ c["left"][u.root] = 0 /\ c["right"][u.root] = MaxKey + 1
  <2>1. CASE p = Nil
    <3>1. b["left"][x] = 0 /\ b["right"][x] = MaxKey + 1
      BY <1>1, <1>3, <2>1, SMTT(60) DEF Shape
    <3> QED BY <1>2, <1>6a, <1>6b, <2>1, <3>1, Zenon DEF Sides
  <2>2. CASE p # Nil
    <3>1. t.root # Nil => t.parent[t.root] = Nil /\ b["left"][t.root] = 0 /\ b["right"][t.root] = MaxKey + 1
      BY DEF Shape
    <3>2. t.root \in Links
      BY <1>1 DEF Trees
    <3>3. t.root # x /\ t.root # y /\ (t.root # Nil => t.root # z) /\ u.root = t.root
      BY <1>1, <1>2, <1>3, <2>2, ZenonT(60)
    <3> QED BY <1>6a, <1>6b, <3>1, <3>2, <3>3, ZenonT(60) DEF Sides
  <2> QED BY <2>1, <2>2, SMTT(60)
<1>15. ASSUME NEW n \in Nodes(u), NEW r \in Sides, u.kid[r][n] # Nil
       PROVE  /\ u.parent[u.kid[r][n]] = n
              /\ c[r][u.kid[r][n]] = c[r][n] /\ c[Other(r)][u.kid[r][n]] = v[n]
  <2>0. n \in Nodes(t) /\ n \in Links /\ n # Nil /\ r \in Sides /\ Other(r) \in Sides /\ Other(r) # r
    BY <1>1, <1>7, NodeIs, SidesAre, SMTT(60)
  <2>1. CASE n = x /\ r = Other(s)
    <3>1. u.kid[r][n] = z /\ z # Nil
      BY <1>2, <1>15, <2>0, <2>1, SMTT(60)
    <3>2. b[s][z] = b[s][y] /\ b[Other(s)][z] = v[y]
      <4>1. t.kid[s][y] = z
        BY <1>4
      <4>2. b[s][t.kid[s][y]] = b[s][y] /\ b[Other(s)][t.kid[s][y]] = v[y]
        BY <1>1, <1>6c, <3>1, <4>1, Zenon
      <4> QED BY <4>1, <4>2, Zenon
    <3>3. Other(r) = s
      BY <1>3, <2>1
    <3>4. c[Other(s)][z] = v[y] /\ c[s][z] = v[x]
      BY <1>1, <1>3, <1>6b, <1>8, <3>2, Zenon
    <3> QED BY <1>6a, <1>6b, <2>1, <3>1, <3>3, <3>4, Zenon
  <2>2. CASE n = y /\ r = s
    <3>1. u.kid[r][n] = x
      BY <1>6a, <2>2, Zenon
    <3> QED BY <1>6a, <1>6b, <2>2, <3>1, Zenon
  <2>3. CASE n = p /\ r = sd
    <3>1. u.kid[r][n] = y
      BY <1>6a, <2>0, <2>3, Zenon
    <3>2. b[r][x] = b[r][p] /\ b[Other(r)][x] = v[p]
      <4>1. t.kid[r][p] = x /\ p \in Nodes(t) /\ x # Nil
        BY <1>1, <1>3, <2>0, <2>3, Zenon
      <4>2. b[r][t.kid[r][p]] = b[r][p] /\ b[Other(r)][t.kid[r][p]] = v[p]
        BY <1>6c, <2>0, <4>1, Zenon
      <4> QED BY <4>1, <4>2, Zenon
    <3>3. c[r][y] = b[r][x] /\ c[Other(r)][y] = b[Other(r)][x] /\ c[r][p] = b[r][p]
      BY <1>1, <1>6b, <2>0, Zenon
    <3> QED BY <1>6a, <2>3, <3>1, <3>2, <3>3, Zenon
  <2>4. CASE ~(n = x /\ r = Other(s)) /\ ~(n = y /\ r = s) /\ ~(n = p /\ r = sd)
    <3> DEFINE k == t.kid[r][n]
    <3>1. u.kid[r][n] = k /\ k # Nil
      BY <1>2, <1>15, <2>0, <2>4
    <3>2. /\ k \in Nodes(t) /\ k \in Links /\ t.parent[k] = n
          /\ b[r][k] = b[r][n] /\ b[Other(r)][k] = v[n]
      <4>1. k \in Nodes(t)
        BY <2>0, <3>1, KidIs, SMTT(60)
      <4> QED BY <1>1, <2>0, <3>1, <4>1, NodeIs DEF Shape
    <3>3. \A q \in Sides : k = t.kid[q][n] => r = q
      BY <2>0, <3>1, OneSide
    <3>4. t.kid[s][y] = z /\ t.kid[Other(s)][x] = y /\ t.parent[x] = p
      BY <1>4
    <3> HIDE DEF k
    <3>5. k # z
      BY <1>1, <2>4, <3>1, <3>2, <3>3, <3>4, Zenon
    <3>6. k # x
      BY <1>3, <2>0, <2>4, <3>2, <3>3, <3>4, Zenon
    <3>7. k # y
      BY <1>1, <1>3, <2>4, <3>2, <3>3, <3>4, Zenon
    <3>8. u.parent[k] = n
      BY <1>6a, <3>2, <3>5, <3>6, <3>7
    <3>9. c[r][k] = b[r][n] /\ c[Other(r)][k] = v[n]
      BY <1>6b, <2>0, <3>2, <3>6, <3>7
    <3>10. c[r][n] = b[r][n]
      <4>1. CASE n = y
        <5>1. r = Other(s)
          BY <2>4, <4>1, SidesAre
        <5> QED BY <1>6b, <1>8, <2>0, <4>1, <5>1
      <4>2. CASE n = x
        <5>1. r = s
          BY <2>4, <4>2, SidesAre
        <5> QED BY <1>6b, <4>2, <5>1
      <4>3. CASE n # y /\ n # x
        BY <1>6b, <2>0, <4>3
      <4> QED BY <4>1, <4>2, <4>3
    <3> QED BY <3>1, <3>8, <3>9, <3>10
  <2> QED BY <2>1, <2>2, <2>3, <2>4
<1>16. \A n \in Nodes(u) \ {u.root} : u.parent[n] \in Nodes(u) /\ \E r \in Sides : u.kid[r][u.parent[n]] = n
  <2> SUFFICES ASSUME NEW n \in Nodes(t), n # u.root
               PROVE  u.parent[n] \in Nodes(t) /\ \E r \in Sides : u.kid[r][u.parent[n]] = n
    BY <1>7
  <2>0. n \in Links /\ n # Nil
    BY <1>1, NodeIs
  <2>1. CASE n = z
    BY <1>1, <1>2, <1>3, <2>0, <2>1
  <2>2. CASE n = x
    BY <1>1, <1>2, <2>0, <2>2
  <2>3. CASE n = y
    <3>1. p # Nil
      BY <1>2, <2>3
    <3> QED BY <1>1, <1>2, <1>3, <2>0, <2>3, <3>1
  <2>4. CASE n # z /\ n # x /\ n # y
    <3> DEFINE q == t.parent[n]
    <3>1. u.parent[n] = q
      BY <1>2, <2>0, <2>4
    <3>2. n # t.root
      BY <1>1, <1>2, <1>3, <2>4
    <3>3. q \in Nodes(t) /\ \E r \in Sides : t.kid[r][q] = n
      BY <3>2 DEF Shape
    <3>4. q \in Links
      BY <1>1, <3>3, NodeIs
    <3> HIDE DEF q
    <3>5. PICK r \in Sides : t.kid[r][q] = n
      BY <3>3
    <3>6. u.kid[r][q] = n
      BY <1>2, <1>3, <1>4, <2>4, <3>4, <3>5
    <3> QED BY <3>1, <3>3, <3>6
  <2> QED BY <2>1, <2>2, <2>3, <2>4
<1>17. Shape(u, c, v)
  BY <1>2, <1>5, <1>6, <1>12, <1>13, <1>14, <1>15, <1>16 DEF Shape
<1> QED BY <1>7, <1>17 DEF u

\* A rotation keeps the nodes and the colors.
LEMMA RotateKeeps ==
  ASSUME NEW t, NEW b, NEW v, Shape(t, b, v), NEW x \in Links, NEW s \in Sides
  PROVE  /\ \E c : Shape(Rotate(t, x, s), c, v)
         /\ Nodes(Rotate(t, x, s)) = Nodes(t)
<1>1. CASE t.kid[Other(s)][x] = Nil
  <2>1. Rotate(t, x, s) = t
    BY <1>1 DEF Rotate
  <2> QED BY <2>1
<1>2. CASE t.kid[Other(s)][x] # Nil
  <2>1. x \in Nodes(t)
    BY <1>2, SidesAre DEF Shape
  <2> QED BY <1>2, <2>1, RotateShape
<1> QED BY <1>1, <1>2

-----------------------------------------------------------------------------
(* Colours, and the parent of nil                                          *)

\* u is t with the nodes N in the color c.
Painted(t, u, N, c) ==
  /\ u \in Trees /\ u.root = t.root /\ u.kid = t.kid /\ u.parent = t.parent
  /\ \A n \in Links : u.color[n] = IF n \in N THEN c ELSE t.color[n]

\* What painting changes.
LEMMA PaintIs ==
  ASSUME NEW t \in Trees, NEW N, NEW c \in {"red", "black"}
  PROVE  Painted(t, Paint(t, N, c), N, c)
BY DEF Painted, Paint, Trees

\* The shape does not depend on the colors,
LEMMA PaintShape ==
  ASSUME NEW t, NEW b, NEW v, Shape(t, b, v), NEW N, NEW c \in {"red", "black"}
  PROVE  Shape(Paint(t, N, c), b, v) /\ Nodes(Paint(t, N, c)) = Nodes(t)
<1> DEFINE u == Paint(t, N, c)
<1>1. t \in Trees
  BY DEF Shape
<1>2. Painted(t, u, N, c)
  BY <1>1, PaintIs
<1> HIDE DEF u
<1>3. u \in Trees /\ u.root = t.root /\ u.kid = t.kid /\ u.parent = t.parent
  BY <1>2 DEF Painted
<1>4. Nodes(u) = Nodes(t)
  BY <1>3 DEF Nodes
<1>5. Shape(u, b, v)
  BY <1>3, <1>4 DEF Shape
<1> QED BY <1>4, <1>5 DEF u

\* nor on the parent of nil.
LEMMA SettledShape ==
  ASSUME NEW t, NEW b, NEW v, Shape(t, b, v)
  PROVE  Shape(Settled(t), b, v) /\ Nodes(Settled(t)) = Nodes(t)
<1> DEFINE u == Settled(t)
<1>1. t \in Trees /\ Nil \in Links
  BY LinksAre DEF Shape
<1>2. u \in Trees
  BY <1>1, SetParentTree DEF Settled
<1>3. /\ u.root = t.root /\ u.kid = t.kid
      /\ \A m \in Links : u.parent[m] = IF m = Nil THEN Nil ELSE t.parent[m]
  BY <1>1, SetParentIs DEF Settled
<1> HIDE DEF u
<1>4. Nodes(u) = Nodes(t)
  <2> SUFFICES ASSUME NEW n \in Keys PROVE n \in Nodes(u) <=> n \in Nodes(t)
    BY DEF Nodes
  <2> QED BY <1>3, LinksAre DEF Nodes
<1>5. \A n \in Nodes(t) : n \in Links /\ n # Nil
  BY <1>1, NodeIs
<1>6. u.root # Nil => u.parent[u.root] = Nil
  BY <1>1, <1>3 DEF Shape, Trees
<1>7. \A n \in Nodes(t) : u.parent[n] = t.parent[n]
  BY <1>3, <1>5
<1>8. \A n \in Nodes(t), s \in Sides : t.kid[s][n] # Nil => u.parent[t.kid[s][n]] = n
  <2> SUFFICES ASSUME NEW n \in Nodes(t), NEW s \in Sides, t.kid[s][n] # Nil
               PROVE  u.parent[t.kid[s][n]] = n
    OBVIOUS
  <2> QED BY <1>7, KidIs
<1>9. Shape(u, b, v)
  BY <1>2, <1>3, <1>4, <1>6, <1>7, <1>8 DEF Shape
<1> QED BY <1>4, <1>9 DEF u

-----------------------------------------------------------------------------
(* A new node                                                              *)

\* A new node where its search has ended has the bounds of the place (rbtree.c:271-283).
LEMMA LinkShape ==
  ASSUME NEW t, NEW b, Tidy(t, b), NEW k \in Keys \ Nodes(t)
  PROVE  LET u == LinkNew(t, k, Descend(t, k)) IN
         (\E c : Tidy(u, c)) /\ Nodes(u) = Nodes(t) \cup {k}
<1> DEFINE p == Descend(t, k)
           sd == Toward(k, p)
           a == PutAt(t, p, sd, k)
           u == Paint(a, {k}, "red")
           c == [r \in Sides |-> [n \in Links |->
                   IF n # k THEN b[r][n]
                   ELSE IF p = Nil THEN IF r = "left" THEN 0 ELSE MaxKey + 1
                   ELSE IF r = sd THEN b[r][p] ELSE p]]
<1>0. t \in Trees /\ k \in Links /\ k # Nil /\ b \in Bounds /\ t.root \in Links /\ k # t.root
  BY LinksAre DEF Tidy, Shape, Trees, Nodes
<1>1. sd \in Sides
  BY TowardIs
<1>2. IF t.root = Nil THEN p = Nil ELSE Lacks(t, b, k, p)
  BY SearchEnds
<1>3. /\ p \in Links /\ k # p
      /\ p # Nil => p \in Nodes(t) /\ Within(b, p, k) /\ t.kid[sd][p] = Nil /\ t.root # Nil
      /\ p = Nil => t.root = Nil
  BY <1>0, <1>2, NodeIs DEF Lacks
<1>4. k \in Int /\ p \in Int
  BY <1>0, <1>3, LinksAre
<1>5. p # Nil => sd = IF k < p THEN "left" ELSE "right"
  BY DEF Toward
<1>6. \A r \in Sides, n \in Links :
        c[r][n] = IF n # k THEN b[r][n]
                  ELSE IF p = Nil THEN IF r = "left" THEN 0 ELSE MaxKey + 1
                  ELSE IF r = sd THEN b[r][p] ELSE p
  OBVIOUS
<1> HIDE DEF p, sd
<1>7. /\ a \in Trees /\ a.root = IF p = Nil THEN k ELSE t.root
      /\ \A n \in Links, r \in Sides :
           a.kid[r][n] = IF n = p /\ p # Nil /\ r = sd THEN k ELSE t.kid[r][n]
      /\ \A n \in Links : a.parent[n] = IF n = k THEN p ELSE t.parent[n]
  <2>1. a \in Trees
    BY <1>0, <1>1, <1>3, PutAtTree
  <2> QED BY <1>0, <1>1, <1>3, <2>1, PutAtIs
<1>8. c \in Bounds
  <2>1. p \in Ends /\ 0 \in Ends /\ MaxKey + 1 \in Ends
    BY <1>3, RBAssumption DEF Links, Ends
  <2>2. \A r \in Sides, n \in Links : b[r][n] \in Ends
    BY <1>0 DEF Bounds
  <2> HIDE DEF a, u
  <2> QED BY <1>3, <2>1, <2>2 DEF Bounds
<1> HIDE DEF a, c
<1>9. Nodes(a) = Nodes(t) \cup {k}
  <2> SUFFICES ASSUME NEW n \in Keys PROVE n \in Nodes(a) <=> (n \in Nodes(t) \/ n = k)
    BY DEF Nodes
  <2>1. n \in Links /\ n # Nil
    BY LinksAre
  <2>2. n \in Nodes(t) <=> (n = t.root \/ t.parent[n] # Nil)
    BY DEF Nodes
  <2>3. n \in Nodes(a) <=> (n = a.root \/ a.parent[n] # Nil)
    BY DEF Nodes
  <2> QED BY <1>3, <1>7, <2>1, <2>2, <2>3
<1>10. \A r \in Sides : t.kid[r][k] = Nil
  BY <1>0 DEF Tidy, Shape
<1>11. \A n \in Nodes(t) : n # k /\ n \in Links /\ n # Nil /\ Own[n] = n
  BY <1>0, NodeIs DEF Own
<1>12. Own \in Names /\ Own[k] = k
  BY <1>0 DEF Own, Names
<1>13. \A n \in Nodes(a) : c["left"][n] < Own[n] /\ Own[n] < c["right"][n]
  <2> SUFFICES ASSUME NEW n \in Nodes(a) PROVE c["left"][n] < Own[n] /\ Own[n] < c["right"][n]
    OBVIOUS
  <2>1. CASE n # k
    <3>1. n \in Nodes(t) /\ b["left"][n] < Own[n] /\ Own[n] < b["right"][n]
      BY <1>9, <2>1 DEF Tidy, Shape
    <3> QED BY <1>6, <1>11, <3>1 DEF Sides
  <2>2. CASE n = k /\ p = Nil
    <3>1. 0 < k /\ k < MaxKey + 1
      BY RBAssumption DEF Keys
    <3> QED BY <1>0, <1>6, <1>12, <2>2, <3>1 DEF Sides
  <2>3. CASE n = k /\ p # Nil
    <3>1. b["left"][p] < k /\ k < b["right"][p] /\ k # p
      BY <1>3, <2>3 DEF Within
    <3> QED BY <1>0, <1>4, <1>5, <1>6, <1>12, <2>3, <3>1 DEF Sides
  <2> QED BY <2>1, <2>2, <2>3
<1>14. \A n \in Links \ Nodes(a), r \in Sides : a.kid[r][n] = Nil
  <2> SUFFICES ASSUME NEW n \in Links, n \notin Nodes(t), n # k, NEW r \in Sides PROVE a.kid[r][n] = Nil
    BY <1>9
  <2> QED BY <1>3, <1>7 DEF Tidy, Shape
<1>15. a.root # Nil => /\ a.parent[a.root] = Nil
                       /\ c["left"][a.root] = 0 /\ c["right"][a.root] = MaxKey + 1
  <2>1. CASE p = Nil
    BY <1>0, <1>6, <1>7, <2>1 DEF Sides
  <2>2. CASE p # Nil
    <3>1. t.root # Nil /\ t.parent[t.root] = Nil /\ b["left"][t.root] = 0 /\ b["right"][t.root] = MaxKey + 1
      BY <1>3, <2>2 DEF Tidy, Shape
    <3> QED BY <1>0, <1>6, <1>7, <2>2, <3>1 DEF Sides
  <2> QED BY <2>1, <2>2
<1>16. \A n \in Nodes(a) \ {a.root} : a.parent[n] \in Nodes(a) /\ \E r \in Sides : a.kid[r][a.parent[n]] = n
  <2> SUFFICES ASSUME NEW n \in Nodes(a), n # a.root
               PROVE  a.parent[n] \in Nodes(a) /\ \E r \in Sides : a.kid[r][a.parent[n]] = n
    OBVIOUS
  <2>1. CASE n = k
    BY <1>0, <1>1, <1>3, <1>7, <1>9, <2>1
  <2>2. CASE n # k
    <3>1. n \in Nodes(t) /\ n # t.root /\ n # Nil
      BY <1>3, <1>7, <1>9, <1>11, <2>2
    <3> DEFINE q == t.parent[n]
    <3>2. q \in Nodes(t) /\ \E r \in Sides : t.kid[r][q] = n
      BY <3>1 DEF Tidy, Shape
    <3>3. a.parent[n] = q
      BY <1>7, <1>11, <2>2, <3>1
    <3> HIDE DEF q
    <3>4. PICK r \in Sides : t.kid[r][q] = n
      BY <3>2
    <3>5. a.kid[r][q] = n
      BY <1>3, <1>7, <1>11, <3>1, <3>2, <3>4
    <3> QED BY <1>9, <3>2, <3>3, <3>5
  <2> QED BY <2>1, <2>2
<1>17. ASSUME NEW n \in Nodes(a), NEW r \in Sides, a.kid[r][n] # Nil
       PROVE  /\ a.parent[a.kid[r][n]] = n
              /\ c[r][a.kid[r][n]] = c[r][n] /\ c[Other(r)][a.kid[r][n]] = Own[n]
  <2>0. n \in Links /\ Other(r) \in Sides /\ Other(r) # r
    BY <1>0, <1>9, <1>11, SidesAre
  <2>1. CASE n = p /\ r = sd
    <3>1. p # Nil /\ a.kid[r][n] = k
      BY <1>0, <1>7, <1>9, <1>11, <2>0, <2>1
    <3> QED BY <1>0, <1>3, <1>6, <1>7, <1>11, <2>0, <2>1, <3>1
  <2>2. CASE ~(n = p /\ r = sd)
    <3> DEFINE m == t.kid[r][n]
    <3>1. a.kid[r][n] = m /\ m # Nil
      BY <1>7, <1>17, <2>0, <2>2
    <3>2. n # k /\ n \in Nodes(t)
      BY <1>9, <1>10, <3>1
    <3>3. /\ m \in Nodes(t) /\ t.parent[m] = n
          /\ b[r][m] = b[r][n] /\ b[Other(r)][m] = Own[n]
      BY <3>1, <3>2, KidIs, SMTT(60) DEF Tidy, Shape
    <3> HIDE DEF m
    <3> QED BY <1>6, <1>7, <1>11, <2>0, <3>1, <3>2, <3>3
  <2> QED BY <2>1, <2>2
<1>18. Tidy(a, c)
  BY <1>7, <1>8, <1>12, <1>13, <1>14, <1>15, <1>16, <1>17 DEF Tidy, Shape
<1>19. Tidy(u, c) /\ Nodes(u) = Nodes(a)
  BY <1>18, PaintShape DEF Tidy
<1>20. LinkNew(t, k, Descend(t, k)) = u
  BY DEF LinkNew, p, sd, a
<1> QED BY <1>9, <1>19, <1>20
-----------------------------------------------------------------------------
(* Two nodes exchange their keys                                           *)

\* The exchange of two names undoes itself.
LEMMA ExchangeIs ==
  ASSUME NEW k \in Links, NEW a \in Links, NEW to, to = Exchange(k, a)
  PROVE  /\ to \in Names /\ to[k] = a /\ to[a] = k
         /\ \A n \in Links : to[n] \in Links /\ to[to[n]] = n /\ (n # k /\ n # a => to[n] = n)
BY DEF Exchange, Names

\* u is t with the keys exchanged.
Swapped(t, u, to) ==
  /\ u \in Trees /\ u.root = to[t.root]
  /\ \A s \in Sides, n \in Links : u.kid[s][n] = to[t.kid[s][to[n]]]
  /\ \A n \in Links : u.parent[n] = to[t.parent[to[n]]] /\ u.color[n] = t.color[to[n]]

\* What the exchange of two keys changes.
LEMMA SwapIs ==
  ASSUME NEW t \in Trees, NEW k \in Links, NEW a \in Links
  PROVE  Swapped(t, Swap(t, k, a), Exchange(k, a))
<1> DEFINE to == Exchange(k, a)
           u == Swap(t, k, a)
<1>1. to \in Names /\ \A n \in Links : to[n] \in Links
  BY ExchangeIs
<1>2. u = [root |-> to[t.root],
           kid |-> [s \in Sides |-> [n \in Links |-> to[t.kid[s][to[n]]]]],
           parent |-> [n \in Links |-> to[t.parent[to[n]]]],
           color |-> [n \in Links |-> t.color[to[n]]]]
  BY DEF Swap
<1> HIDE DEF to, u
<1>3. u \in Trees
  BY <1>1, <1>2 DEF Trees
<1>4. u.root = to[t.root]
  BY <1>2
<1>5. \A s \in Sides, n \in Links : u.kid[s][n] = to[t.kid[s][to[n]]]
  BY <1>2
<1>6. \A n \in Links : u.parent[n] = to[t.parent[to[n]]] /\ u.color[n] = t.color[to[n]]
  BY <1>2
<1>7. Swapped(t, u, to)
  BY <1>3, <1>4, <1>5, <1>6 DEF Swapped
<1> QED BY <1>7 DEF u, to

\* The bounds go with the places, and so do the old keys.
Moved(b, to) == [r \in Sides |-> [n \in Links |-> b[r][to[n]]]]

\* After the exchange each place has its bounds, and the two names belong to each other.
LEMMA SwapShape ==
  ASSUME NEW t, NEW b, Tidy(t, b), NEW k \in Nodes(t), NEW a \in Nodes(t),
         NEW to, to = Exchange(k, a)
  PROVE  Shape(Swap(t, k, a), Moved(b, to), to) /\ Nodes(Swap(t, k, a)) = Nodes(t)
<1> DEFINE u == Swap(t, k, a)
           c == Moved(b, to)
<1>1. t \in Trees /\ b \in Bounds /\ k \in Links /\ a \in Links /\ k # Nil /\ a # Nil /\ Nil \in Links
  BY NodeIs, LinksAre DEF Tidy, Shape
<1>2. /\ to \in Names /\ to[k] = a /\ to[a] = k
      /\ \A n \in Links : to[n] \in Links /\ to[to[n]] = n /\ (n # k /\ n # a => to[n] = n)
  BY <1>1, ExchangeIs
<1>3. Swapped(t, u, to)
  BY <1>1, SwapIs
<1>4. \A r \in Sides, n \in Links : c[r][n] = b[r][to[n]]
  BY DEF Moved
<1>5. c \in Bounds
  BY <1>1, <1>2 DEF Moved, Bounds
<1> HIDE DEF u, c
<1>6. /\ u \in Trees /\ u.root = to[t.root]
      /\ \A s \in Sides, n \in Links : u.kid[s][n] = to[t.kid[s][to[n]]]
      /\ \A n \in Links : u.parent[n] = to[t.parent[to[n]]]
  BY <1>3 DEF Swapped
<1>7. to[Nil] = Nil /\ \A n \in Links : to[n] = Nil <=> n = Nil
  BY <1>1, <1>2
<1>8. \A n \in Links : n \in Nodes(t) <=> to[n] \in Nodes(t)
  BY <1>1, <1>2
<1>9. /\ t.root \in Links /\ \A n \in Links : t.parent[n] \in Links
      /\ \A s \in Sides, n \in Links : t.kid[s][n] \in Links
  BY <1>1 DEF Trees
<1>10. Nodes(u) = Nodes(t)
  <2> SUFFICES ASSUME NEW n \in Keys PROVE n \in Nodes(u) <=> n \in Nodes(t)
    BY DEF Nodes
  <2>1. n \in Links /\ n # Nil /\ to[n] \in Keys
    BY <1>2, <1>7, LinksAre
  <2>2. to[n] \in Nodes(t) <=> (to[n] = t.root \/ t.parent[to[n]] # Nil)
    BY <2>1 DEF Nodes
  <2>3. n \in Nodes(u) <=> (n = to[t.root] \/ to[t.parent[to[n]]] # Nil)
    BY <1>6, <2>1 DEF Nodes
  <2>4. n = to[t.root] <=> to[n] = t.root
    BY <1>2, <1>9, <2>1
  <2> QED BY <1>2, <1>7, <1>8, <1>9, <2>1, <2>2, <2>3, <2>4
<1>11. \A n \in Nodes(t) : n \in Links /\ n # Nil /\ to[n] \in Nodes(t) /\ to[n] \in Links /\ Own[to[n]] = to[n]
  BY <1>1, <1>2, <1>8, NodeIs DEF Own
<1>12. \A n \in Links \ Nodes(u), s \in Sides : u.kid[s][n] = Nil
  <2> SUFFICES ASSUME NEW n \in Links, n \notin Nodes(t), NEW s \in Sides PROVE u.kid[s][n] = Nil
    BY <1>10
  <2>1. t.kid[s][to[n]] = Nil
    BY <1>2, <1>8 DEF Tidy, Shape
  <2> QED BY <1>6, <1>7, <2>1
<1>13. u.root # Nil => u.parent[u.root] = Nil /\ c["left"][u.root] = 0 /\ c["right"][u.root] = MaxKey + 1
  <2>1. t.root # Nil => t.parent[t.root] = Nil /\ b["left"][t.root] = 0 /\ b["right"][t.root] = MaxKey + 1
    BY DEF Tidy, Shape
  <2> QED BY <1>2, <1>4, <1>6, <1>7, <1>9, <2>1, SMTT(60) DEF Sides
<1>14. \A n \in Nodes(u) \ {u.root} : u.parent[n] \in Nodes(u) /\ \E s \in Sides : u.kid[s][u.parent[n]] = n
  <2> SUFFICES ASSUME NEW n \in Nodes(t), n # u.root
               PROVE  u.parent[n] \in Nodes(t) /\ \E s \in Sides : u.kid[s][u.parent[n]] = n
    BY <1>10
  <2>1. to[n] \in Nodes(t) /\ to[n] # t.root
    BY <1>2, <1>6, <1>11
  <2> DEFINE q == t.parent[to[n]]
  <2>2. q \in Nodes(t) /\ \E s \in Sides : t.kid[s][q] = to[n]
    BY <2>1 DEF Tidy, Shape
  <2>3. u.parent[n] = to[q]
    BY <1>6, <1>11
  <2> HIDE DEF q
  <2>4. PICK s \in Sides : t.kid[s][q] = to[n]
    BY <2>2
  <2>5. u.kid[s][to[q]] = n
    BY <1>2, <1>6, <1>11, <2>2, <2>4, SMTT(60)
  <2> QED BY <1>11, <2>2, <2>3, <2>5
<1>15. \A n \in Nodes(u) : c["left"][n] < to[n] /\ to[n] < c["right"][n]
  <2> SUFFICES ASSUME NEW n \in Nodes(t) PROVE c["left"][n] < to[n] /\ to[n] < c["right"][n]
    BY <1>10
  <2>1. b["left"][to[n]] < Own[to[n]] /\ Own[to[n]] < b["right"][to[n]]
    BY <1>11 DEF Tidy, Shape
  <2> QED BY <1>4, <1>11, <2>1 DEF Sides
<1>16. ASSUME NEW n \in Nodes(u), NEW s \in Sides, u.kid[s][n] # Nil
       PROVE  /\ u.parent[u.kid[s][n]] = n
              /\ c[s][u.kid[s][n]] = c[s][n] /\ c[Other(s)][u.kid[s][n]] = to[n]
  <2> DEFINE m == to[n]
             q == t.kid[s][m]
  <2>1. n \in Links /\ m \in Nodes(t) /\ m \in Links /\ Own[m] = m /\ to[m] = n /\ Other(s) \in Sides
    BY <1>2, <1>10, <1>11, SidesAre
  <2>2. u.kid[s][n] = to[q] /\ q \in Links /\ q # Nil
    BY <1>6, <1>7, <1>9, <1>16, <2>1
  <2>3. t.parent[q] = m /\ b[s][q] = b[s][m] /\ b[Other(s)][q] = m
    BY <2>1, <2>2 DEF Tidy, Shape
  <2>4. to[q] \in Links /\ to[to[q]] = q /\ m = to[n]
    BY <1>2, <2>2
  <2> HIDE DEF q, m
  <2> QED BY <1>4, <1>6, <2>1, <2>2, <2>3, <2>4
<1>17. Shape(u, c, to)
  BY <1>2, <1>5, <1>6, <1>12, <1>13, <1>14, <1>15, <1>16 DEF Shape
<1> QED BY <1>10, <1>17 DEF u, c
-----------------------------------------------------------------------------
(* A node leaves                                                           *)

\* u is t without n, in whose place, on side sd of p, is h.
Spliced(t, u, n, h, p, sd) ==
  /\ u \in Trees /\ u.root = IF p = Nil THEN h ELSE t.root
  /\ \A m \in Links, r \in Sides :
       u.kid[r][m] = IF m = n THEN Nil ELSE IF m = p /\ p # Nil /\ r = sd THEN h ELSE t.kid[r][m]
  /\ \A m \in Links :
       /\ u.parent[m] = IF m = n THEN Nil ELSE IF m = h THEN p ELSE t.parent[m]
       /\ u.color[m] = IF m = n \/ m = h THEN "black" ELSE t.color[m]

\* What changes when a node leaves.
LEMMA SpliceIs ==
  ASSUME NEW t \in Trees, NEW n \in Links, NEW h \in Links, h = Heir(t, n), NEW p \in Links,
         p = t.parent[n], NEW sd \in Sides, sd = SideOf(t, n), n # h
  PROVE  Spliced(t, Splice(t, n), n, h, p, sd)
<1> DEFINE a == PutAt(t, p, sd, h)
           c == SetParent(a, n, Nil)
           d == SetKid(c, "left", n, Nil)
           e == SetKid(d, "right", n, Nil)
           u == Paint(e, {n, h}, "black")
<1>0. "left" \in Sides /\ "right" \in Sides /\ \A r \in Sides : r = "left" \/ r = "right"
  BY DEF Sides
<1>1. Splice(t, n) = u
  BY DEF Splice, Replace
<1>2. Nil \in Links
  BY LinksAre
<1>3. a \in Trees
  BY PutAtTree
<1>4. /\ a.color = t.color /\ a.root = IF p = Nil THEN h ELSE t.root
      /\ \A m \in Links, r \in Sides :
           a.kid[r][m] = IF m = p /\ p # Nil /\ r = sd THEN h ELSE t.kid[r][m]
      /\ \A m \in Links : a.parent[m] = IF m = h THEN p ELSE t.parent[m]
  BY PutAtIs
<1> HIDE DEF a
<1>5. c \in Trees
  BY <1>2, <1>3, SetParentTree
<1>6. /\ c.color = a.color /\ c.root = a.root /\ c.kid = a.kid
      /\ \A m \in Links : c.parent[m] = IF m = n THEN Nil ELSE a.parent[m]
  BY <1>2, <1>3, SetParentIs
<1> HIDE DEF c
<1>7. d \in Trees
  BY <1>0, <1>2, <1>5, SetKidTree
<1>8. /\ d.color = c.color /\ d.root = c.root /\ d.parent = c.parent
      /\ \A m \in Links, r \in Sides : d.kid[r][m] = IF m = n /\ r = "left" THEN Nil ELSE c.kid[r][m]
  BY <1>0, <1>2, <1>5, SetKidIs
<1> HIDE DEF d
<1>9. e \in Trees
  BY <1>0, <1>2, <1>7, SetKidTree
<1>10. /\ e.color = d.color /\ e.root = d.root /\ e.parent = d.parent
       /\ \A m \in Links, r \in Sides : e.kid[r][m] = IF m = n /\ r = "right" THEN Nil ELSE d.kid[r][m]
  BY <1>0, <1>2, <1>7, SetKidIs
<1> HIDE DEF e
<1>11. Painted(e, u, {n, h}, "black")
  BY <1>9, PaintIs
<1> HIDE DEF u
<1>12. /\ u \in Trees /\ u.root = e.root /\ u.kid = e.kid /\ u.parent = e.parent
       /\ \A m \in Links : u.color[m] = IF m \in {n, h} THEN "black" ELSE e.color[m]
  BY <1>11 DEF Painted
<1>13. \A m \in Links : u.color[m] = IF m = n \/ m = h THEN "black" ELSE t.color[m]
  BY <1>4, <1>6, <1>8, <1>10, <1>12
<1>14. \A m \in Links : u.parent[m] = IF m = n THEN Nil ELSE IF m = h THEN p ELSE t.parent[m]
  BY <1>4, <1>6, <1>8, <1>10, <1>12
<1>15. ASSUME NEW m \in Links, NEW r \in Sides
       PROVE  u.kid[r][m] = IF m = n THEN Nil ELSE IF m = p /\ p # Nil /\ r = sd THEN h ELSE t.kid[r][m]
  BY <1>0, <1>4, <1>6, <1>8, <1>10, <1>12
<1>16. u.root = IF p = Nil THEN h ELSE t.root
  BY <1>4, <1>6, <1>8, <1>10, <1>12
<1>17. Spliced(t, u, n, h, p, sd)
  BY <1>12, <1>13, <1>14, <1>15, <1>16 DEF Spliced
<1> QED BY <1>1, <1>17

\* The part of the keys that the node took up goes to what is below it.
Merged(b, v, n) == [r \in Sides |-> [m \in Links |-> IF b[r][m] = v[n] THEN b[r][n] ELSE b[r][m]]]

\* The nodes around one with a child on at most one side.
LEMMA AboutIs ==
  ASSUME NEW t, NEW b, NEW v, Shape(t, b, v), NEW n \in Nodes(t),
         NEW h, h = Heir(t, n), NEW p, p = t.parent[n]
  PROVE  /\ t \in Trees /\ n \in Links /\ n # Nil /\ h \in Links /\ p \in Links
         /\ h # n /\ p # n /\ (p # Nil => p # h)
         /\ h # Nil => /\ h \in Nodes(t) /\ h # t.root /\ t.parent[h] = n
                       /\ \E s \in Sides : t.kid[s][n] = h
         /\ h = Nil => \A s \in Sides : t.kid[s][n] = Nil
<1>0. "left" \in Sides /\ "right" \in Sides
  BY DEF Sides
<1>1. t \in Trees /\ n \in Links /\ n # Nil /\ p \in Links
  BY NodeIs DEF Shape
<1>2. h \in Links /\ (h # Nil => \E s \in Sides : t.kid[s][n] = h)
      /\ (h = Nil => \A s \in Sides : t.kid[s][n] = Nil)
  BY <1>0, <1>1 DEF Heir, Trees, Sides
<1>3. h # Nil => /\ h \in Nodes(t) /\ h # t.root /\ t.parent[h] = n /\ h # n
                 /\ Width(b, h) \in Int /\ Width(b, n) \in Int /\ Width(b, h) =< Width(b, n) - 1
  <2> SUFFICES ASSUME h # Nil
               PROVE  /\ h \in Nodes(t) /\ h # t.root /\ t.parent[h] = n /\ h # n
                      /\ Width(b, h) \in Int /\ Width(b, n) \in Int /\ Width(b, h) =< Width(b, n) - 1
    OBVIOUS
  <2>1. PICK s \in Sides : t.kid[s][n] = h
    BY <1>2
  <2> QED BY <2>1, KidIs
<1>4. p # Nil => /\ p \in Nodes(t) /\ p # n
                 /\ Width(b, p) \in Int /\ Width(b, n) =< Width(b, p) - 1
  <2> SUFFICES ASSUME p # Nil
               PROVE  p \in Nodes(t) /\ p # n /\ Width(b, p) \in Int /\ Width(b, n) =< Width(b, p) - 1
    OBVIOUS
  <2>1. p \in Nodes(t) /\ p # n /\ SideOf(t, n) \in Sides /\ t.kid[SideOf(t, n)][p] = n
    BY ParentIs
  <2> QED BY <1>1, <2>1, KidIs
<1>5. p # Nil => p # h
  BY <1>1, <1>3, <1>4
<1> QED BY <1>1, <1>2, <1>3, <1>4, <1>5

\* The tree without the node has the shape (rbtree.c:333-343).
LEMMA SpliceShape ==
  ASSUME NEW t, NEW b, NEW v, Shape(t, b, v), NEW n \in Nodes(t),
         \E s \in Sides : t.kid[s][n] = Nil,
         \A m \in Nodes(t) : v[m] = v[n] => m = n
  PROVE  Shape(Splice(t, n), Merged(b, v, n), v) /\ Nodes(Splice(t, n)) = Nodes(t) \ {n}
<1> DEFINE h == Heir(t, n)
           p == t.parent[n]
           sd == SideOf(t, n)
           u == Splice(t, n)
           c == Merged(b, v, n)
<1>1. /\ t \in Trees /\ n \in Links /\ n # Nil /\ h \in Links /\ p \in Links
      /\ h # n /\ p # n /\ (p # Nil => p # h)
      /\ h # Nil => /\ h \in Nodes(t) /\ h # t.root /\ t.parent[h] = n
                    /\ \E s \in Sides : t.kid[s][n] = h
      /\ h = Nil => \A s \in Sides : t.kid[s][n] = Nil
  BY AboutIs
<1>2. /\ p = Nil <=> n = t.root
      /\ p # Nil => p \in Nodes(t) /\ t.kid[sd][p] = n
      /\ sd \in Sides
  BY ParentIs
<1>3. p = t.parent[n]
  OBVIOUS
<1>4. Spliced(t, u, n, h, p, sd)
  BY <1>1, <1>2, SpliceIs
<1>5. \A r \in Sides, m \in Links : c[r][m] = IF b[r][m] = v[n] THEN b[r][n] ELSE b[r][m]
  BY DEF Merged
<1>6. v \in Names /\ b \in Bounds
  BY DEF Shape
<1>7. c \in Bounds
  BY <1>1, <1>6 DEF Merged, Bounds
<1> HIDE DEF h, p, sd, u, c
<1>8. /\ u \in Trees /\ u.root = IF p = Nil THEN h ELSE t.root
      /\ \A m \in Links, r \in Sides :
           u.kid[r][m] = IF m = n THEN Nil ELSE IF m = p /\ p # Nil /\ r = sd THEN h ELSE t.kid[r][m]
      /\ \A m \in Links : u.parent[m] = IF m = n THEN Nil ELSE IF m = h THEN p ELSE t.parent[m]
  BY <1>4 DEF Spliced
<1>9. \A m \in Nodes(t) : m \in Links /\ m # Nil
  BY <1>1, NodeIs
<1>10. Nodes(u) = Nodes(t) \ {n}
  <2> SUFFICES ASSUME NEW m \in Keys PROVE m \in Nodes(u) <=> (m \in Nodes(t) /\ m # n)
    BY DEF Nodes
  <2>1. m \in Links /\ m # Nil
    BY LinksAre
  <2>2. m \in Nodes(t) <=> (m = t.root \/ t.parent[m] # Nil)
    BY DEF Nodes
  <2>3. m \in Nodes(u) <=> (m = u.root \/ u.parent[m] # Nil)
    BY DEF Nodes
  <2>4. h # Nil => t.parent[h] = n
    BY <1>1
  <2> QED BY <1>1, <1>2, <1>8, <2>1, <2>2, <2>3, <2>4
<1>11. \A m \in Links \ Nodes(u), r \in Sides : u.kid[r][m] = Nil
  <2> SUFFICES ASSUME NEW m \in Links, m \notin Nodes(u), NEW r \in Sides PROVE u.kid[r][m] = Nil
    OBVIOUS
  <2>1. CASE m = n
    BY <1>8, <2>1
  <2>2. CASE m # n
    <3>1. m \notin Nodes(t) /\ t.kid[r][m] = Nil
      BY <1>10, <2>2 DEF Shape
    <3> QED BY <1>2, <1>8, <2>2, <3>1
  <2> QED BY <2>1, <2>2
<1>12. /\ \A m \in Links, r \in Sides : b[r][m] \in Int /\ 0 =< b[r][m] /\ b[r][m] =< MaxKey + 1
       /\ \A m \in Links : v[m] \in Int
  BY <1>6, LinksAre, RBAssumption DEF Bounds, Ends, Names
<1>13. b["left"][n] < v[n] /\ v[n] < b["right"][n]
  BY DEF Shape
<1>14. 0 < v[n] /\ v[n] < MaxKey + 1
  <2>1. "left" \in Sides /\ "right" \in Sides
    BY DEF Sides
  <2>2. 0 =< b["left"][n] /\ b["right"][n] =< MaxKey + 1
        /\ b["left"][n] \in Int /\ b["right"][n] \in Int /\ v[n] \in Int
    BY <1>1, <1>12, <2>1
  <2> QED BY <1>13, <2>2, RBAssumption
<1>15. u.root # Nil => u.parent[u.root] = Nil /\ c["left"][u.root] = 0 /\ c["right"][u.root] = MaxKey + 1
  <2> SUFFICES ASSUME u.root # Nil
               PROVE  u.parent[u.root] = Nil /\ c["left"][u.root] = 0 /\ c["right"][u.root] = MaxKey + 1
    OBVIOUS
  <2>1. CASE p = Nil
    <3>1. u.root = h /\ h # Nil
      BY <1>8, <2>1
    <3>2. b["left"][n] = 0 /\ b["right"][n] = MaxKey + 1
      BY <1>1, <1>2, <2>1 DEF Shape
    <3>3. PICK s \in Sides : t.kid[s][n] = h
      BY <1>1, <3>1
    <3>4. b[s][h] = b[s][n] /\ b[Other(s)][h] = v[n]
      BY <3>1, <3>3 DEF Shape
    <3>5. c["left"][h] = 0 /\ c["right"][h] = MaxKey + 1
      <4>1. CASE s = "left"
        BY <1>1, <1>5, <1>13, <1>14, <3>2, <3>4, <4>1 DEF Sides, Other
      <4>2. CASE s = "right"
        BY <1>1, <1>5, <1>13, <1>14, <3>2, <3>4, <4>2 DEF Sides, Other
      <4> QED BY <4>1, <4>2 DEF Sides
    <3> QED BY <1>1, <1>8, <2>1, <3>1, <3>5
  <2>2. CASE p # Nil
    <3>1. u.root = t.root /\ t.root \in Links /\ n # t.root
      BY <1>1, <1>2, <1>8, <2>2 DEF Trees
    <3>2. t.parent[t.root] = Nil /\ b["left"][t.root] = 0 /\ b["right"][t.root] = MaxKey + 1
      BY <2>2, <3>1 DEF Shape
    <3>3. t.root # h
      BY <1>1, <3>1
    <3>4. c["left"][t.root] = 0 /\ c["right"][t.root] = MaxKey + 1
      <4>1. 0 # v[n] /\ MaxKey + 1 # v[n]
        BY <1>1, <1>12, <1>14, RBAssumption
      <4> QED BY <1>5, <3>1, <3>2, <4>1 DEF Sides
    <3> QED BY <1>8, <3>1, <3>2, <3>3, <3>4
  <2> QED BY <2>1, <2>2
<1>16. \A m \in Nodes(u) \ {u.root} : u.parent[m] \in Nodes(u) /\ \E r \in Sides : u.kid[r][u.parent[m]] = m
  <2> SUFFICES ASSUME NEW m \in Nodes(t), m # n, m # u.root
               PROVE  u.parent[m] \in Nodes(u) /\ \E r \in Sides : u.kid[r][u.parent[m]] = m
    BY <1>10
  <2>1. CASE m = h
    <3>1. p # Nil
      BY <1>8, <2>1
    <3> QED BY <1>1, <1>2, <1>8, <1>10, <2>1, <3>1
  <2>2. CASE m # h
    <3> DEFINE q == t.parent[m]
    <3>1. m # t.root
      BY <1>1, <1>2, <1>8
    <3>2. q \in Nodes(t) /\ \E r \in Sides : t.kid[r][q] = m
      BY <3>1 DEF Shape
    <3>3. u.parent[m] = q
      BY <1>8, <1>9, <2>2
    <3> HIDE DEF q
    <3>4. PICK r \in Sides : t.kid[r][q] = m
      BY <3>2
    <3>5. q # n
      <4> SUFFICES ASSUME q = n PROVE FALSE
        OBVIOUS
      <4>1. t.kid[r][n] = m /\ m # Nil /\ m # h
        BY <1>9, <2>2, <3>4
      <4>2. h # Nil
        BY <1>1, <4>1
      <4>3. PICK s \in Sides : t.kid[s][n] = h
        BY <1>1, <4>2
      <4>4. r # s /\ \E w \in Sides : t.kid[w][n] = Nil
        BY <4>1, <4>3
      <4> QED BY <4>1, <4>2, <4>3, <4>4, SidesAre
    <3>6. u.kid[r][q] = m
      BY <1>2, <1>8, <1>9, <3>2, <3>4, <3>5
    <3> QED BY <1>10, <3>2, <3>3, <3>5, <3>6
  <2> QED BY <2>1, <2>2
<1>17. \A m \in Nodes(u) : c["left"][m] < v[m] /\ v[m] < c["right"][m]
  <2> SUFFICES ASSUME NEW m \in Nodes(t) PROVE c["left"][m] < v[m] /\ v[m] < c["right"][m]
    BY <1>10
  <2>1. m \in Links /\ b["left"][m] < v[m] /\ v[m] < b["right"][m]
    BY <1>9 DEF Shape
  <2> QED BY <1>1, <1>5, <1>12, <1>13, <2>1 DEF Sides
<1>18. ASSUME NEW m \in Nodes(u), NEW r \in Sides, u.kid[r][m] # Nil
       PROVE  /\ u.parent[u.kid[r][m]] = m
              /\ c[r][u.kid[r][m]] = c[r][m] /\ c[Other(r)][u.kid[r][m]] = v[m]
  <2>0. /\ m \in Nodes(t) /\ m # n /\ m \in Links /\ m # Nil /\ v[m] # v[n]
        /\ Other(r) \in Sides /\ Other(r) # r
    BY <1>9, <1>10, SidesAre
  <2>1. CASE m = p /\ r = sd
    <3>1. u.kid[r][m] = h /\ h # Nil /\ p # Nil
      BY <1>8, <1>18, <2>0, <2>1
    <3>2. b[r][n] = b[r][p] /\ b[Other(r)][n] = v[p]
      BY <1>1, <1>2, <2>0, <2>1 DEF Shape
    <3>3. PICK s \in Sides : t.kid[s][n] = h
      BY <1>1, <3>1
    <3>4. b[s][h] = b[s][n] /\ b[Other(s)][h] = v[n]
      BY <3>1, <3>3 DEF Shape
    <3>5. \A w \in Sides : b[w][n] # v[n]
      BY <1>1, <1>12, <1>13 DEF Sides
    <3>6. \A w \in Sides : c[w][h] = b[w][n]
      BY <1>1, <1>5, <3>4, <3>5, SidesAre
    <3>7. c[r][m] = b[r][p]
      BY <1>5, <2>0, <2>1, <3>2, <3>5
    <3> QED BY <1>1, <1>8, <2>0, <2>1, <3>1, <3>2, <3>6, <3>7
  <2>2. CASE ~(m = p /\ r = sd)
    <3> DEFINE k == t.kid[r][m]
    <3>1. u.kid[r][m] = k /\ k # Nil
      BY <1>8, <1>18, <2>0, <2>2
    <3>2. k \in Nodes(t) /\ t.parent[k] = m /\ b[r][k] = b[r][m] /\ b[Other(r)][k] = v[m] /\ k # t.root
        <4>1. k \in Nodes(t) /\ t.parent[k] = m /\ k # t.root
        BY <2>0, <3>1, KidIs
      <4> QED BY <2>0, <3>1, <4>1 DEF Shape
    <3>3. k # n
      BY <1>2, <1>3, <2>0, <2>2, <3>1, <3>2, OneSide
    <3>4. k # h
      BY <1>1, <2>0, <3>1, <3>2
    <3> HIDE DEF k
    <3>5. u.parent[k] = m
      BY <1>8, <1>9, <3>2, <3>3, <3>4
    <3> QED BY <1>5, <1>9, <2>0, <3>1, <3>2, <3>5
  <2> QED BY <2>1, <2>2
<1>19. Shape(u, c, v)
  BY <1>6, <1>7, <1>8, <1>11, <1>15, <1>16, <1>17, <1>18 DEF Shape
<1> QED BY <1>10, <1>19 DEF u, c
-----------------------------------------------------------------------------
(* The successor                                                           *)

\* What the loop of Successor is made of.
Leftmost(t, f) ==
  [d \in Links |->
     [m \in Links |->
        IF d = 0 \/ t.kid["left"][m] = Nil THEN m ELSE f[d - 1][t.kid["left"][m]]]]
LeftOf(t) == CHOOSE f : f = Leftmost(t, f)

\* Successor makes MaxKey turns of its loop.
LEMMA SuccessorIsLeft ==
  ASSUME NEW t, NEW n
  PROVE  Successor(t, n) = IF t.kid["right"][n] = Nil THEN n ELSE LeftOf(t)[MaxKey][t.kid["right"][n]]
BY DEF Successor, LeftOf, Leftmost

\* What one turn of the way to the left does.
LEMMA LeftTurn ==
  ASSUME NEW t \in Trees
  PROVE  \A d, m \in Links :
           LeftOf(t)[d][m] = IF d = 0 \/ t.kid["left"][m] = Nil THEN m
                             ELSE LeftOf(t)[d - 1][t.kid["left"][m]]
<1> DEFINE S == [Links -> Links]
           x == [m \in Links |-> m]
           Turn(g) == [m \in Links |-> IF t.kid["left"][m] = Nil THEN m ELSE g[t.kid["left"][m]]]
           G == [g \in S |-> Turn(g)]
<1>1. \A m \in Links : t.kid["left"][m] \in Links
  BY DEF Trees, Sides
<1>2. x \in S
  OBVIOUS
<1>3. G \in [S -> S]
  <2> SUFFICES ASSUME NEW g \in S PROVE Turn(g) \in S
    OBVIOUS
  <2>1. ASSUME NEW m \in Links
        PROVE  (IF t.kid["left"][m] = Nil THEN m ELSE g[t.kid["left"][m]]) \in Links
    BY <1>1
  <2> QED BY <2>1
<1>4. PICK f \in [Links -> S] : f[0] = x /\ \A d \in 1..MaxKey : f[d] = G[f[d - 1]]
  <2> HIDE DEF S, x, G
  <2> QED BY <1>2, <1>3, LoopIs
<1>5. ASSUME NEW d \in Links PROVE f[d] = Leftmost(t, f)[d]
  <2>1. CASE d = 0
    BY <2>1, <1>4 DEF Leftmost
  <2>2. CASE d # 0
    <3>1. d - 1 \in Links /\ d \in 1..MaxKey
      BY <2>2, LinksAre
    <3>2. f[d] = Turn(f[d - 1])
      BY <3>1, <1>4
    <3>3. Leftmost(t, f)[d] = Turn(f[d - 1])
      BY <2>2 DEF Leftmost
    <3> QED BY <3>2, <3>3
  <2> QED BY <2>1, <2>2
<1>6. f = Leftmost(t, f)
  <2>1. DOMAIN f = Links /\ f = [d \in Links |-> f[d]]
    BY <1>4
  <2>2. Leftmost(t, f) = [d \in Links |-> Leftmost(t, f)[d]]
    BY DEF Leftmost
  <2> HIDE DEF S
  <2> QED BY <1>5, <2>1, <2>2
<1>7. LeftOf(t) = Leftmost(t, LeftOf(t))
  BY <1>6 DEF LeftOf
<1> HIDE DEF S, x, Turn, G
<1> QED
  <2> SUFFICES ASSUME NEW d \in Links, NEW m \in Links
               PROVE  LeftOf(t)[d][m] = IF d = 0 \/ t.kid["left"][m] = Nil THEN m
                                        ELSE LeftOf(t)[d - 1][t.kid["left"][m]]
    OBVIOUS
  <2>1. \A g : Leftmost(t, g)[d][m] = IF d = 0 \/ t.kid["left"][m] = Nil THEN m
                                      ELSE g[d - 1][t.kid["left"][m]]
    BY DEF Leftmost
  <2>2. Leftmost(t, LeftOf(t))[d][m] = LeftOf(t)[d][m]
    BY <1>7
  <2> HIDE DEF LeftOf
  <2> QED BY <2>1, <2>2

\* The least of the nodes that are greater than n and lie in its part of the keys.
NextOf(t, b, n, a) ==
  a \in Nodes(t) /\ t.kid["left"][a] = Nil /\ b["left"][a] = n /\ b["right"][a] =< b["right"][n]

\* The way to the left ends at the next greater key (rbtree.c:205-217).
LEMMA LeftIsNext ==
  ASSUME NEW t, NEW b, Tidy(t, b), NEW n \in Nodes(t), t.kid["right"][n] # Nil
  PROVE  NextOf(t, b, n, Successor(t, n))
<1> DEFINE W == LeftOf(t)
           Low(m) == m \in Nodes(t) /\ b["left"][m] = n /\ b["right"][m] =< b["right"][n]
           P == {d \in Links : \A m \in Nodes(t) :
                   Low(m) /\ Width(b, m) =< d + 1 => NextOf(t, b, n, W[d][m])}
<1>0. t \in Trees /\ n \in Links /\ "left" \in Sides /\ "right" \in Sides /\ Other("left") = "right"
      /\ Other("right") = "left"
  BY NodeIs DEF Tidy, Shape, Sides, Other
<1>1. 0 \in P
  <2>1. \A m \in Nodes(t) : ~(Width(b, m) =< 0 + 1)
    BY WidthIs, RBAssumption
  <2> HIDE DEF W, Low
  <2> QED BY <2>1, LinksAre
<1>2. ASSUME NEW d \in 1..MaxKey, d - 1 \in P PROVE d \in P
  <2>1. d \in Links /\ d - 1 \in Links /\ d # 0 /\ d \in Int
    BY RBAssumption DEF Links
  <2> SUFFICES ASSUME NEW m \in Nodes(t), Low(m), Width(b, m) =< d + 1
               PROVE  NextOf(t, b, n, W[d][m])
    BY <2>1
  <2> DEFINE k == t.kid["left"][m]
  <2>2. m \in Links
    BY <1>0, NodeIs
  <2>3. CASE k = Nil
    <3>1. W[d][m] = m
      BY <1>0, <2>1, <2>2, <2>3, LeftTurn
    <3> HIDE DEF W
    <3> QED BY <2>3, <3>1 DEF NextOf
  <2>4. CASE k # Nil
    <3>1. W[d][m] = W[d - 1][k]
      BY <1>0, <2>1, <2>2, <2>4, LeftTurn
    <3>2. k \in Nodes(t) /\ Width(b, k) =< Width(b, m) - 1
      BY <1>0, <2>4, KidIs DEF Tidy
    <3>3. b["left"][k] = b["left"][m] /\ b["right"][k] = m
      BY <1>0, <2>2, <2>4 DEF Tidy, Shape, Own
    <3> HIDE DEF W, k
    <3>4. m \in Int /\ m < b["right"][m] /\ b["right"][m] \in Int /\ b["right"][n] \in Int
          /\ Width(b, m) \in Int /\ Width(b, k) \in Int
      BY <2>2, <3>2, WidthIs, LinksAre DEF Within
    <3>5. Low(k) /\ Width(b, k) =< (d - 1) + 1
      BY <2>1, <3>2, <3>3, <3>4
    <3> HIDE DEF Low
    <3> QED BY <1>2, <3>1, <3>2, <3>5
  <2> QED BY <2>3, <2>4
<1>3. MaxKey \in P
  <2> HIDE DEF P
  <2> QED BY <1>1, <1>2, LinksAre, UpToAll
<1> DEFINE r == t.kid["right"][n]
<1>4. r \in Nodes(t) /\ b["left"][r] = n /\ b["right"][r] = b["right"][n]
  <2>1. r \in Nodes(t)
    BY <1>0, KidIs DEF Tidy
  <2> QED BY <1>0, <2>1 DEF Tidy, Shape, Own
<1>5. Width(b, r) =< MaxKey + 1 /\ b["right"][n] \in Int
  BY <1>4, WidthIs, RBAssumption
<1>6. Successor(t, n) = W[MaxKey][r]
  BY SuccessorIsLeft
<1> HIDE DEF W, r
<1>7. Low(r)
  BY <1>4, <1>5
<1> HIDE DEF Low
<1> QED BY <1>3, <1>4, <1>5, <1>6, <1>7

\* No node lies between the two.
LEMMA NoneBetween ==
  ASSUME NEW t, NEW b, Tidy(t, b), NEW n \in Nodes(t), NEW a, NextOf(t, b, n, a), NEW m \in Nodes(t)
  PROVE  ~(n < m /\ m < a)
<1> SUFFICES ASSUME n < m, m < a PROVE FALSE
  OBVIOUS
<1>0. /\ t \in Trees /\ a \in Nodes(t) /\ a \in Links /\ a # Nil /\ m \in Keys /\ m \in Int /\ a \in Int
      /\ t.kid["left"][a] = Nil /\ b["left"][a] = n /\ n \in Int
  <2>1. t \in Trees /\ a \in Nodes(t) /\ t.kid["left"][a] = Nil /\ b["left"][a] = n
    BY DEF NextOf, Tidy, Shape
  <2> QED BY <2>1, NodeIs, LinksAre
<1>1. a < b["right"][a] /\ b["right"][a] \in Int
  BY <1>0, WidthIs DEF Within
<1>2. Within(b, a, m)
  BY <1>0, <1>1 DEF Within
<1>3. PICK d \in Links, prev \in Links :
        d >= Width(b, a) - 1 /\ Descend(t, m) = WalkOf(t, m)[d][a][prev]
  BY <1>0, <1>2, PathThrough
<1>4. d # 0 /\ d - 1 \in Links
  BY <1>0, <1>3, WidthIs, LinksAre
<1>5. Toward(m, a) = "left" /\ m # a
  BY <1>0 DEF Toward
<1>6. WalkOf(t, m)[d][a][prev] = WalkOf(t, m)[d - 1][Nil][a]
  BY <1>0, <1>4, <1>5, WalkTurn
<1>7. WalkOf(t, m)[d - 1][Nil][a] = a
  <2>1. Nil \in Links
    BY LinksAre
  <2> QED BY <1>0, <1>4, <2>1, WalkTurn
<1>8. Descend(t, m) = m
  BY <1>0, SearchFinds
<1> QED BY <1>3, <1>5, <1>6, <1>7, <1>8

\* Who leaves instead of k: k itself, which then has a child on one side at most, or the next.
LEMMA LeaverIs ==
  ASSUME NEW t, NEW b, Tidy(t, b), NEW k \in Nodes(t), NEW a, a = Leaver(t, k)
  PROVE  /\ a \in Nodes(t) /\ \E s \in Sides : t.kid[s][a] = Nil
         /\ a # k => NextOf(t, b, k, a) /\ t.kid["right"][k] # Nil
<1>0. "left" \in Sides /\ "right" \in Sides
  BY DEF Sides
<1>1. CASE t.kid["right"][k] # Nil
  <2>1. a = Successor(t, k)
    BY <1>0, <1>1 DEF Leaver
  <2>2. NextOf(t, b, k, a)
    BY <1>1, <2>1, LeftIsNext
  <2> QED BY <1>0, <1>1, <2>2 DEF NextOf
<1>2. CASE t.kid["right"][k] = Nil
  <2>1. a = k
    BY <1>2 DEF Leaver, Successor
  <2> QED BY <1>0, <1>2, <2>1
<1> QED BY <1>1, <1>2
-----------------------------------------------------------------------------
(* A key leaves                                                            *)

\* Once the node that held a has left, a is the name of the node that held k.
Renamed(c, k, a) == [r \in Sides |-> [m \in Links |-> IF c[r][m] = k THEN a ELSE c[r][m]]]

\* The bounds when a is the name of the node that had been k.
LEMMA RenameShape ==
  ASSUME NEW t, NEW b, Tidy(t, b), NEW k \in Nodes(t), NEW a, NextOf(t, b, k, a), a # k,
         t.kid["right"][k] # Nil, NEW to, to = Exchange(k, a), NEW u, NEW c,
         c = Merged(Moved(b, to), to, k), Shape(u, c, to), Nodes(u) = Nodes(t) \ {k}
  PROVE  Tidy(u, Renamed(c, k, a))
<1> DEFINE e == Renamed(c, k, a)
<1>0. "left" \in Sides /\ "right" \in Sides
  BY DEF Sides
<1>1. /\ a \in Nodes(t) /\ a \in Links /\ k \in Links /\ a \in Int /\ k \in Int
      /\ b["left"][a] = k /\ b["right"][a] =< b["right"][k]
  BY NodeIs, LinksAre DEF NextOf, Tidy, Shape
<1>2. /\ to \in Names /\ to[k] = a /\ to[a] = k
      /\ \A n \in Links : to[n] \in Links /\ to[to[n]] = n /\ (n # k /\ n # a => to[n] = n)
  <2>1. k \in Links /\ a \in Links
    BY <1>1
  <2> QED BY <2>1, ExchangeIs
<1>3. /\ k < a /\ a < b["right"][a] /\ b["right"][a] \in Int
      /\ b["left"][k] < k /\ k < b["right"][k] /\ b["left"][k] \in Int /\ b["right"][k] \in Int
  BY <1>1, WidthIs DEF Within
<1>4. \A r \in Sides, m \in Links :
        c[r][m] = IF b[r][to[m]] = a THEN b[r][a] ELSE b[r][to[m]]
  <2>1. \A r \in Sides, m \in Links : Moved(b, to)[r][m] = b[r][to[m]]
    BY DEF Moved
  <2>2. \A r \in Sides, m \in Links :
          c[r][m] = IF Moved(b, to)[r][m] = to[k] THEN Moved(b, to)[r][k] ELSE Moved(b, to)[r][m]
    BY DEF Merged
  <2> QED BY <1>1, <1>2, <2>1, <2>2
<1>5. c["left"][a] = b["left"][k] /\ c["right"][a] = b["right"][k]
  BY <1>0, <1>1, <1>2, <1>3, <1>4
<1>6. \A r \in Sides, m \in Links : e[r][m] = IF c[r][m] = k THEN a ELSE c[r][m]
  BY DEF Renamed
<1>7. c \in Bounds /\ u \in Trees
  BY DEF Shape
<1>8. e \in Bounds
  <2>1. a \in Ends
    BY <1>1, RBAssumption DEF Links, Ends
  <2>2. \A r \in Sides, m \in Links : c[r][m] \in Ends
    BY <1>7 DEF Bounds
  <2> QED BY <2>1, <2>2 DEF Bounds, Renamed
<1> HIDE DEF e
<1>9. \A m \in Nodes(u) : m \in Links /\ m \in Int /\ m \in Nodes(t) /\ m # k /\ Own[m] = m
  BY <1>7, NodeIs, LinksAre DEF Own
<1>10. \A r \in Sides, m \in Links : c[r][m] \in Int
  BY <1>7, RBAssumption DEF Bounds, Ends
<1>11. Own \in Names
  BY DEF Own, Names
<1>12. \A m \in Nodes(u) : e["left"][m] < Own[m] /\ Own[m] < e["right"][m]
  <2> SUFFICES ASSUME NEW m \in Nodes(u) PROVE e["left"][m] < m /\ m < e["right"][m]
    BY <1>9
  <2>1. c["left"][m] < to[m] /\ to[m] < c["right"][m]
    BY DEF Shape
  <2>2. CASE m = a
    BY <1>0, <1>1, <1>3, <1>5, <1>6, <2>2
  <2>3. CASE m # a
    <3>1. to[m] = m /\ m \in Int /\ m \in Links /\ m # k
      BY <1>2, <1>9, <2>3
    <3>2. ~(k < m /\ m < a)
      BY <1>9, NoneBetween
    <3>3. c["left"][m] = k => a < m
      BY <1>1, <2>1, <2>3, <3>1, <3>2
    <3>4. c["right"][m] = k => m < a
      BY <1>1, <1>3, <2>1, <3>1
    <3> QED BY <1>0, <1>6, <2>1, <3>1, <3>3, <3>4
  <2> QED BY <2>2, <2>3
<1>13. u.root # Nil => u.parent[u.root] = Nil /\ e["left"][u.root] = 0 /\ e["right"][u.root] = MaxKey + 1
  <2>1. k # 0 /\ k # MaxKey + 1 /\ u.root \in Links
    BY <1>7, RBAssumption DEF Nodes, Keys, Trees
  <2>2. u.root # Nil => u.parent[u.root] = Nil /\ c["left"][u.root] = 0 /\ c["right"][u.root] = MaxKey + 1
    BY DEF Shape
  <2> QED BY <1>0, <1>6, <2>1, <2>2
<1>14. ASSUME NEW m \in Nodes(u), NEW r \in Sides, u.kid[r][m] # Nil
       PROVE  /\ u.parent[u.kid[r][m]] = m
              /\ e[r][u.kid[r][m]] = e[r][m] /\ e[Other(r)][u.kid[r][m]] = Own[m]
  <2> DEFINE q == u.kid[r][m]
  <2>1. u.parent[q] = m /\ c[r][q] = c[r][m] /\ c[Other(r)][q] = to[m]
    BY <1>14 DEF Shape
  <2>2. q \in Links /\ Other(r) \in Sides
    BY <1>7, <1>9, SidesAre DEF Trees
  <2>3. m \in Links /\ m # k /\ Own[m] = m
    BY <1>9
  <2> HIDE DEF q
  <2>4. e[Other(r)][q] = m
    <3>1. CASE m = a
      BY <1>2, <1>6, <2>1, <2>2, <3>1
    <3>2. CASE m # a
      BY <1>2, <1>6, <2>1, <2>2, <2>3, <3>2
    <3> QED BY <3>1, <3>2
  <2>5. e[r][q] = e[r][m]
    BY <1>6, <2>1, <2>2, <2>3
  <2> QED BY <2>1, <2>3, <2>4, <2>5 DEF q
<1>15. Shape(u, e, Own)
  <2>1. /\ \A n \in Links \ Nodes(u), s \in Sides : u.kid[s][n] = Nil
        /\ \A n \in Nodes(u) \ {u.root} : u.parent[n] \in Nodes(u) /\ \E s \in Sides : u.kid[s][u.parent[n]] = n
    BY DEF Shape
  <2> QED BY <1>7, <1>8, <1>11, <1>12, <1>13, <1>14, <2>1 DEF Shape
<1> QED BY <1>15 DEF Tidy, e

\* Whichever node leaves in its place, the tree has all nodes but k (rbtree.c:310-357).
LEMMA DeleteShape ==
  ASSUME NEW t, NEW b, Tidy(t, b), NEW k \in Nodes(t)
  PROVE  LET u == Splice(Swap(t, k, Leaver(t, k)), k) IN
         (\E c : Tidy(u, c)) /\ Nodes(u) = Nodes(t) \ {k}
<1> DEFINE a == Leaver(t, k)
           to == Exchange(k, a)
           w == Swap(t, k, a)
           u == Splice(w, k)
           c == Merged(Moved(b, to), to, k)
<1>1. /\ a \in Nodes(t) /\ \E s \in Sides : t.kid[s][a] = Nil
      /\ a # k => NextOf(t, b, k, a) /\ t.kid["right"][k] # Nil
  BY LeaverIs
<1>2. /\ t \in Trees /\ a \in Links /\ k \in Links /\ k # Nil /\ a # Nil /\ Nil \in Links
      /\ \A m \in Nodes(t) : m \in Links
  BY <1>1, NodeIs, LinksAre DEF Tidy, Shape
<1> HIDE DEF a
<1>3. /\ to \in Names /\ to[k] = a /\ to[a] = k
      /\ \A n \in Links : to[n] \in Links /\ to[to[n]] = n /\ (n # k /\ n # a => to[n] = n)
  BY <1>2, ExchangeIs
<1>4. Swapped(t, w, to)
  BY <1>2, SwapIs
<1>5. Shape(w, Moved(b, to), to) /\ Nodes(w) = Nodes(t)
  BY <1>1, SwapShape
<1> HIDE DEF w, to
<1>6. \E s \in Sides : w.kid[s][k] = Nil
  <2>1. PICK s \in Sides : t.kid[s][a] = Nil
    BY <1>1
  <2>2. w.kid[s][k] = to[t.kid[s][to[k]]]
    BY <1>2, <1>4 DEF Swapped
  <2> QED BY <1>2, <1>3, <2>1, <2>2
<1>7. \A m \in Nodes(w) : to[m] = to[k] => m = k
  BY <1>2, <1>3, <1>5
<1>8. Shape(u, c, to) /\ Nodes(u) = Nodes(t) \ {k}
  BY <1>5, <1>6, <1>7, SpliceShape
<1> HIDE DEF u
<1>9. CASE a = k
  <2>1. to = Own
    <3>1. \A n \in Links : to[n] = n
      BY <1>3, <1>9
    <3>2. to = [n \in Links |-> to[n]]
      BY <1>3 DEF Names
    <3> QED BY <3>1, <3>2 DEF Own
  <2>2. Tidy(u, c)
    BY <1>8, <2>1 DEF Tidy
  <2> QED BY <1>8, <2>2 DEF a, w, u
<1>10. CASE a # k
  <2>1. to = Exchange(k, a)
    BY DEF to
  <2>2. Tidy(u, Renamed(c, k, a))
    <3> HIDE DEF c
    <3>1. c = Merged(Moved(b, to), to, k)
      BY DEF c
    <3> QED BY <1>1, <1>8, <1>10, <2>1, <3>1, RenameShape
  <2> QED BY <1>8, <2>2 DEF a, w, u
<1> QED BY <1>9, <1>10
-----------------------------------------------------------------------------
(* Its steps                                                               *)

\* A tree of the nodes of t.
Alike(t, u) == (\E b : Tidy(u, b)) /\ Nodes(u) = Nodes(t)

\* Where the links of a tree lead.
LEMMA AlikeIs ==
  ASSUME NEW t, NEW u, Alike(t, u)
  PROVE  /\ u \in Trees /\ u.root \in Links
         /\ \A n \in Links : u.parent[n] \in Links
         /\ \A s \in Sides, n \in Links : u.kid[s][n] \in Links
BY DEF Alike, Tidy, Shape, Trees

\* Rotations keep the nodes,
LEMMA RotateAlike ==
  ASSUME NEW t, NEW u, Alike(t, u), NEW x \in Links, NEW s \in Sides
  PROVE  Alike(t, Rotate(u, x, s))
BY RotateKeeps DEF Alike, Tidy

\* painting does,
LEMMA PaintAlike ==
  ASSUME NEW t, NEW u, Alike(t, u), NEW N, NEW c \in {"red", "black"}
  PROVE  Alike(t, Paint(u, N, c))
BY PaintShape DEF Alike, Tidy

\* and so does the end of a repair.
LEMMA SettledAlike == ASSUME NEW t, NEW u, Alike(t, u) PROVE Alike(t, Settled(u))
BY SettledShape DEF Alike, Tidy

TreeTyped == pc \in {"idle", "insert", "delete"} /\ cur \in Links
TreeInv == TreeTyped /\ Alike(tree, tree)

\* An insertion adds its key,
LEMMA InsertStep ==
  ASSUME TreeInv, NEW k \in Keys, Insert(k)
  PROVE  TreeInv' /\ k \notin Nodes(tree) /\ Nodes(tree') = Nodes(tree) \cup {k}
<1>1. PICK b : Tidy(tree, b)
  BY DEF TreeInv, Alike
<1>2. k \notin Nodes(tree)
  BY <1>1, FoundIsNode DEF Insert
<1>3. (\E c : Tidy(tree', c)) /\ Nodes(tree') = Nodes(tree) \cup {k}
  BY <1>1, <1>2, LinkShape DEF Insert
<1>4. Alike(tree', tree')
  BY <1>3 DEF Alike
<1> QED BY <1>2, <1>3, <1>4, LinksAre DEF TreeInv, TreeTyped, Insert, Alike

\* a deletion takes its key out,
LEMMA DeleteStep ==
  ASSUME TreeInv, NEW k \in Keys, Delete(k)
  PROVE  TreeInv' /\ k \in Nodes(tree) /\ Nodes(tree') = Nodes(tree) \ {k}
<1>1. PICK b : Tidy(tree, b)
  BY DEF TreeInv, Alike
<1>2. k \in Nodes(tree)
  BY <1>1, FoundIsNode DEF Delete
<1> DEFINE u == Splice(Swap(tree, k, Leaver(tree, k)), k)
<1>3. (\E c : Tidy(u, c)) /\ Nodes(u) = Nodes(tree) \ {k}
  BY <1>1, <1>2, DeleteShape
<1>4. tree' = u \/ tree' = Settled(u)
  BY DEF Delete
<1>5. pc' \in {"idle", "insert", "delete"} /\ cur' = Nil
  BY DEF Delete
<1> HIDE DEF u
<1>6. Alike(u, u)
  BY <1>3 DEF Alike
<1>7. Alike(u, tree')
  BY <1>4, <1>6, SettledAlike
<1>8. Nodes(tree') = Nodes(tree) \ {k} /\ Alike(tree', tree')
  BY <1>3, <1>7, SMTT(60) DEF Alike
<1> QED BY <1>2, <1>5, <1>8, LinksAre DEF TreeInv, TreeTyped

\* and the repairs keep all (rbtree.c:56-203).
LEMMA RepairInsertStep ==
  ASSUME TreeInv, RepairInsert PROVE TreeInv' /\ Nodes(tree') = Nodes(tree)
<1> DEFINE p == tree.parent[cur]
           g == tree.parent[p]
           s == IF p = tree.kid["left"][g] THEN "left" ELSE "right"
           uncle == tree.kid[Other(s)][g]
           inner == cur = tree.kid[Other(s)][p]
           m == IF inner THEN p ELSE cur
           t == IF inner THEN Rotate(tree, p, s) ELSE tree
           pm == t.parent[m]
           u == Paint(t, {pm}, "black")
           w == Paint(u, {u.parent[pm]}, "red")
<1>1. s \in Sides /\ Other(s) \in Sides
  BY SidesAre, SMTT(60) DEF Sides
<1>2. cur \in Links /\ p \in Links /\ g \in Links /\ m \in Links /\ Alike(tree, tree)
  BY AlikeIs, Zenon DEF TreeInv, TreeTyped
<1>3. CASE Red(tree, uncle)
  <2>1. tree' = Paint(Paint(tree, {uncle, p}, "black"), {g}, "red") /\ cur' = g /\ pc' = pc
    BY <1>3, Zenon DEF RepairInsert, MoveDown
  <2>2. Alike(tree, Paint(tree, {uncle, p}, "black"))
    BY <1>2, PaintAlike, Zenon
  <2>3. Alike(tree, tree')
    BY <2>1, <2>2, PaintAlike, Zenon
  <2> QED BY <1>2, <2>1, <2>3, Zenon DEF TreeInv, TreeTyped, Alike
<1>4. CASE ~Red(tree, uncle)
  <2>1. tree' = Rotate(w, u.parent[pm], Other(s)) /\ cur' = m /\ pc' = pc
    BY <1>4, ZenonT(60) DEF RepairInsert
  <2>2. Alike(tree, t)
    BY <1>1, <1>2, RotateAlike, Zenon
  <2> HIDE DEF s, t, m
  <2>3. pm \in Links
    BY <1>2, <2>2, AlikeIs
  <2>4. Alike(tree, u)
    BY <2>2, PaintAlike
  <2> HIDE DEF pm, u
  <2>5. u.parent[pm] \in Links
    BY <2>3, <2>4, AlikeIs
  <2>6. Alike(tree, w)
    BY <2>4, PaintAlike
  <2> HIDE DEF w
  <2>7. Alike(tree, tree')
    BY <1>1, <2>1, <2>5, <2>6, RotateAlike
  <2> QED BY <1>2, <2>1, <2>7 DEF TreeInv, TreeTyped, Alike
<1> QED BY <1>3, <1>4, Zenon

\* The end of the repair after an insertion keeps all nodes,
LEMMA EndInsertStep ==
  ASSUME TreeInv, EndInsert PROVE TreeInv' /\ Nodes(tree') = Nodes(tree)
<1>1. Alike(tree, tree')
  BY PaintAlike DEF EndInsert, TreeInv
<1> QED BY <1>1, LinksAre DEF EndInsert, TreeInv, TreeTyped, Alike

\* a turn of the repair after a deletion does,
LEMMA RepairDeleteStep ==
  ASSUME TreeInv, RepairDelete PROVE TreeInv' /\ Nodes(tree') = Nodes(tree)
<1> DEFINE p == tree.parent[cur]
           s == IF cur = tree.kid["right"][p] THEN "right" ELSE "left"
           bro == tree.kid[Other(s)][p]
           near == tree.kid[s][bro]
           far == tree.kid[Other(s)][bro]
           c == tree.color[p]
           Over(t) == tree' = Settled(t) /\ pc' = "idle" /\ cur' = Nil
<1>1. s \in Sides /\ Other(s) \in Sides
  BY SidesAre DEF Sides
<1>2. cur \in Links /\ p \in Links /\ Alike(tree, tree) /\ Nil \in Links
  BY AlikeIs, LinksAre DEF TreeInv, TreeTyped
<1> HIDE DEF s
<1>3. bro \in Links
  BY <1>1, <1>2, AlikeIs
<1>4. c \in {"red", "black"}
  BY <1>2, AlikeIs DEF Trees
<1>5. ASSUME NEW t, Alike(tree, t), Over(t) PROVE TreeInv' /\ Nodes(tree') = Nodes(tree)
  <2>1. Alike(tree, tree')
    BY <1>5, SettledAlike
  <2> QED BY <1>2, <1>5, <2>1 DEF TreeInv, TreeTyped, Alike
<1>6. pc = "delete"
      /\ \/ Over(Rotate(Paint(Paint(tree, {bro}, "black"), {near}, "red"), p, s))
         \/ Over(Paint(Paint(tree, {bro}, "red"), {p}, "black"))
         \/ tree' = Paint(tree, {bro}, "red") /\ cur' = p /\ pc' = pc
         \/ Over(Rotate(Rotate(Paint(Paint(tree, {bro}, c), {near}, "black"), bro, Other(s)), p, s))
         \/ Over(Rotate(Paint(Paint(tree, {bro}, c), {p, far}, "black"), p, s))
  BY Zenon DEF RepairDelete, s
<1> HIDE DEF p, bro, near, far, c, Over
<1>7. ASSUME NEW d \in {"red", "black"} PROVE Alike(tree, Paint(tree, {bro}, d))
  BY <1>2, PaintAlike
<1>8. CASE Over(Rotate(Paint(Paint(tree, {bro}, "black"), {near}, "red"), p, s))
  <2>1. Alike(tree, Paint(Paint(tree, {bro}, "black"), {near}, "red"))
    BY <1>7, PaintAlike
  <2>2. Alike(tree, Rotate(Paint(Paint(tree, {bro}, "black"), {near}, "red"), p, s))
    BY <1>1, <1>2, <2>1, RotateAlike
  <2> QED BY <1>5, <1>8, <2>2
<1>9. CASE Over(Paint(Paint(tree, {bro}, "red"), {p}, "black"))
  <2>1. Alike(tree, Paint(Paint(tree, {bro}, "red"), {p}, "black"))
    BY <1>7, PaintAlike
  <2> QED BY <1>5, <1>9, <2>1
<1>10. CASE tree' = Paint(tree, {bro}, "red") /\ cur' = p /\ pc' = pc
  <2>1. Alike(tree, tree')
    BY <1>7, <1>10
  <2> QED BY <1>2, <1>6, <1>10, <2>1 DEF TreeInv, TreeTyped, Alike
<1>11. CASE Over(Rotate(Rotate(Paint(Paint(tree, {bro}, c), {near}, "black"), bro, Other(s)), p, s))
  <2>1. Alike(tree, Paint(Paint(tree, {bro}, c), {near}, "black"))
    BY <1>4, <1>7, PaintAlike
  <2>2. Alike(tree, Rotate(Paint(Paint(tree, {bro}, c), {near}, "black"), bro, Other(s)))
    BY <1>1, <1>3, <2>1, RotateAlike
  <2>3. Alike(tree, Rotate(Rotate(Paint(Paint(tree, {bro}, c), {near}, "black"), bro, Other(s)), p, s))
    BY <1>1, <1>2, <2>2, RotateAlike
  <2> QED BY <1>5, <1>11, <2>3
<1>12. CASE Over(Rotate(Paint(Paint(tree, {bro}, c), {p, far}, "black"), p, s))
  <2>1. Alike(tree, Paint(Paint(tree, {bro}, c), {p, far}, "black"))
    BY <1>4, <1>7, PaintAlike
  <2>2. Alike(tree, Rotate(Paint(Paint(tree, {bro}, c), {p, far}, "black"), p, s))
    BY <1>1, <1>2, <2>1, RotateAlike
  <2> QED BY <1>5, <1>12, <2>2
<1> QED BY <1>6, <1>8, <1>9, <1>10, <1>11, <1>12

\* and so does its end.
LEMMA EndDeleteStep ==
  ASSUME TreeInv, EndDelete PROVE TreeInv' /\ Nodes(tree') = Nodes(tree)
<1>1. Alike(tree, tree')
  BY SettledAlike DEF EndDelete, TreeInv
<1> QED BY <1>1, LinksAre DEF EndDelete, TreeInv, TreeTyped, Alike

\* The first tree has the shape and no node.
LEMMA TreeInvInit == TreeInit => TreeInv /\ Nodes(tree) = {}
<1> SUFFICES ASSUME TreeInit PROVE TreeInv /\ Nodes(tree) = {}
  OBVIOUS
<1>1. tree \in Trees
  BY LinksAre DEF TreeInit, Trees
<1>2. /\ tree.root = Nil /\ \A n \in Links : tree.parent[n] = Nil
      /\ \A n \in Links, s \in Sides : tree.kid[s][n] = Nil
  BY DEF TreeInit
<1>3. Nodes(tree) = {}
  BY <1>2, LinksAre DEF Nodes
<1> DEFINE b == [r \in Sides |-> [n \in Links |-> 0]]
<1>4. b \in Bounds /\ Own \in Names
  BY RBAssumption DEF Bounds, Ends, Own, Names
<1>5. Tidy(tree, b)
  BY <1>1, <1>2, <1>3, <1>4 DEF Tidy, Shape
<1> QED BY <1>3, <1>5, LinksAre DEF TreeInit, TreeInv, TreeTyped, Alike

\* The inductive step of the shape, and what becomes of the keys.
LEMMA TreeStep ==
  ASSUME TreeInv, [TreeNext]_treeVars
  PROVE  /\ TreeInv'
         /\ \/ Nodes(tree') = Nodes(tree)
            \/ \E k \in Keys : Insert(k) /\ k \notin Nodes(tree) /\ Nodes(tree') = Nodes(tree) \cup {k}
            \/ \E k \in Keys : Delete(k) /\ k \in Nodes(tree) /\ Nodes(tree') = Nodes(tree) \ {k}
<1>1. ASSUME NEW k \in Keys, Insert(k)
      PROVE  TreeInv' /\ k \notin Nodes(tree) /\ Nodes(tree') = Nodes(tree) \cup {k}
  BY <1>1, InsertStep
<1>2. ASSUME NEW k \in Keys, Delete(k)
      PROVE  TreeInv' /\ k \in Nodes(tree) /\ Nodes(tree') = Nodes(tree) \ {k}
  BY <1>2, DeleteStep
<1>3. CASE RepairInsert
  BY <1>3, RepairInsertStep
<1>4. CASE EndInsert
  BY <1>4, EndInsertStep
<1>5. CASE RepairDelete
  BY <1>5, RepairDeleteStep
<1>6. CASE EndDelete
  BY <1>6, EndDeleteStep
<1>7. CASE Broken \/ UNCHANGED treeVars
  BY <1>7 DEF Broken, treeVars, TreeInv, TreeTyped, Alike
<1> QED BY <1>1, <1>2, <1>3, <1>4, <1>5, <1>6, <1>7 DEF TreeNext

\* The nodes are the keys that a search finds.
LEMMA FoundAre ==
  ASSUME NEW t, Alike(t, t) PROVE Nodes(t) = {k \in Keys : Found(t, k)}
<1>1. PICK b : Tidy(t, b)
  BY DEF Alike
<1>2. \A k \in Keys : Found(t, k) <=> k \in Nodes(t)
  BY <1>1, FoundIsNode
<1> QED BY <1>2 DEF Nodes

\* The tree is a set of keys, however it is repaired and whichever node leaves in the place
\* of which, also in the middle of a repair (rbtree.c:56-357).
THEOREM TreeIsKeySet == TreeSpec => ImplementsKeySet
<1>1. TreeInit => TreeInv /\ Set!Init
  BY TreeInvInit, FoundAre DEF Set!Init, TreeInv
<1>2. TreeInv /\ [TreeNext]_treeVars => TreeInv' /\ [Set!Next]_({k \in Keys : Found(tree, k)})
  <2> SUFFICES ASSUME TreeInv, [TreeNext]_treeVars
               PROVE  TreeInv' /\ [Set!Next]_({k \in Keys : Found(tree, k)})
    OBVIOUS
  <2>1. TreeInv'
    BY TreeStep
  <2>2. Nodes(tree) = {k \in Keys : Found(tree, k)}
    BY FoundAre DEF TreeInv
  <2>3. Nodes(tree') = {k \in Keys : Found(tree', k)}
    BY <2>1, FoundAre DEF TreeInv
  <2> QED BY <2>1, <2>2, <2>3, TreeStep DEF Set!Next, Set!Insert, Set!Delete
<1> QED BY <1>1, <1>2, PTL DEF TreeSpec, ImplementsKeySet, Set!Spec

\* Each key comes and goes by its own operation only (rbtree.c:250-289, 310-357).
THEOREM TreeOnlyItsKey == TreeSpec => [][OnlyItsKey]_treeVars
<1>1. TreeInit => TreeInv
  BY TreeInvInit
<1>2. TreeInv /\ [TreeNext]_treeVars => TreeInv' /\ [OnlyItsKey]_treeVars
  <2> SUFFICES ASSUME TreeInv, [TreeNext]_treeVars PROVE TreeInv' /\ OnlyItsKey
    OBVIOUS
  <2>1. TreeInv'
    BY TreeStep
  <2>2. Nodes(tree) = {k \in Keys : Found(tree, k)}
    BY FoundAre DEF TreeInv
  <2>3. Nodes(tree') = {k \in Keys : Found(tree', k)}
    BY <2>1, FoundAre DEF TreeInv
  <2>4. \A k \in Keys : (Found(tree, k) <=> k \in Nodes(tree)) /\ (Found(tree', k) <=> k \in Nodes(tree'))
    BY <2>2, <2>3
  <2>5. \A k \in Keys : Found(tree, k) \in BOOLEAN /\ Found(tree', k) \in BOOLEAN
    BY DEF Found
  <2>6. CASE Nodes(tree') = Nodes(tree)
    BY <2>1, <2>4, <2>5, <2>6 DEF OnlyItsKey
  <2>7. ASSUME NEW k \in Keys, Insert(k), k \notin Nodes(tree), Nodes(tree') = Nodes(tree) \cup {k}
        PROVE  OnlyItsKey
    BY <2>4, <2>5, <2>7 DEF OnlyItsKey
  <2>8. ASSUME NEW k \in Keys, Delete(k), k \in Nodes(tree), Nodes(tree') = Nodes(tree) \ {k}
        PROVE  OnlyItsKey
    <3>1. \A m \in Keys : Found(tree', m) # Found(tree, m) => m = k /\ Found(tree, m)
      BY <2>4, <2>5, <2>8
    <3> QED BY <2>8, <3>1, Zenon DEF OnlyItsKey
  <2>9. \/ Nodes(tree') = Nodes(tree)
        \/ \E k \in Keys : Insert(k) /\ k \notin Nodes(tree) /\ Nodes(tree') = Nodes(tree) \cup {k}
        \/ \E k \in Keys : Delete(k) /\ k \in Nodes(tree) /\ Nodes(tree') = Nodes(tree) \ {k}
    BY TreeStep
  <2> QED BY <2>1, <2>6, <2>7, <2>8, <2>9
<1> QED BY <1>1, <1>2, PTL DEF TreeSpec
-----------------------------------------------------------------------------
(* The nodes below the root                                                *)

KidsOf(t, A) == (UNION {{m} \cup {t.kid[s][m] : s \in Sides} : m \in A}) \ {Nil}

\* What the loop of Below is made of.
Levels(t, n, f) == [d \in Links |-> IF d = 0 THEN {n} \ {Nil} ELSE KidsOf(t, f[d - 1])]
LevelOf(t, n) == CHOOSE f : f = Levels(t, n, f)

\* The nodes on one level give those of the next.
LEMMA KidsOfAre ==
  ASSUME NEW t, NEW A
  PROVE  \A m : m \in KidsOf(t, A) <=> m # Nil /\ \E q \in A : m = q \/ \E s \in Sides : m = t.kid[s][q]
<1> DEFINE Near(q) == {q} \cup {t.kid[s][q] : s \in Sides}
<1>1. \A q, m : m \in Near(q) <=> m = q \/ \E s \in Sides : m = t.kid[s][q]
  OBVIOUS
<1>2. KidsOf(t, A) = (UNION {Near(q) : q \in A}) \ {Nil}
  BY DEF KidsOf
<1> HIDE DEF Near
<1>3. \A m : m \in UNION {Near(q) : q \in A} <=> \E q \in A : m \in Near(q)
  OBVIOUS
<1> QED BY <1>1, <1>2, <1>3

\* Below goes down MaxKey levels.
LEMMA BelowIsLevel == ASSUME NEW t, NEW n PROVE Below(t, n) = LevelOf(t, n)[MaxKey]
<1> DEFINE L(f) == [d \in Links |->
                      (IF d = 0 THEN {n}
                       ELSE UNION {{m} \cup {t.kid[s][m] : s \in Sides} : m \in f[d - 1]}) \ {Nil}]
<1>1. Below(t, n) = (CHOOSE f : f = L(f))[MaxKey]
  BY DEF Below
<1>2. \A f : L(f) = Levels(t, n, f)
  <2> SUFFICES ASSUME NEW f PROVE L(f) = Levels(t, n, f)
    OBVIOUS
  <2>1. \A d \in Links : L(f)[d] = Levels(t, n, f)[d]
    <3> SUFFICES ASSUME NEW d \in Links PROVE L(f)[d] = Levels(t, n, f)[d]
      OBVIOUS
    <3>1. CASE d = 0
      BY <3>1 DEF Levels
    <3>2. CASE d # 0
      <4>1. L(f)[d] = (UNION {{m} \cup {t.kid[s][m] : s \in Sides} : m \in f[d - 1]}) \ {Nil}
        BY <3>2
      <4>2. Levels(t, n, f)[d] = KidsOf(t, f[d - 1])
        BY <3>2 DEF Levels
      <4> QED BY <4>1, <4>2, Zenon DEF KidsOf
    <3> QED BY <3>1, <3>2
  <2>2. L(f) = [d \in Links |-> L(f)[d]] /\ Levels(t, n, f) = [d \in Links |-> Levels(t, n, f)[d]]
    BY DEF Levels
  <2> HIDE DEF L
  <2> QED BY <2>1, <2>2
<1> HIDE DEF L
<1> QED BY <1>1, <1>2 DEF LevelOf

\* Each level is made of the one before.
LEMMA LevelTurn ==
  ASSUME NEW t \in Trees, NEW n \in Links
  PROVE  \A d \in Links :
           LevelOf(t, n)[d] = IF d = 0 THEN {n} \ {Nil} ELSE KidsOf(t, LevelOf(t, n)[d - 1])
<1> DEFINE S == SUBSET Links
           x == {n} \ {Nil}
           G == [A \in S |-> KidsOf(t, A)]
<1>1. \A m \in Links, s \in Sides : t.kid[s][m] \in Links
  BY DEF Trees
<1>2. x \in S
  OBVIOUS
<1>3. G \in [S -> S]
  <2> SUFFICES ASSUME NEW A \in S PROVE KidsOf(t, A) \in S
    OBVIOUS
  <2> QED BY <1>1, KidsOfAre
<1>4. PICK f \in [Links -> S] : f[0] = x /\ \A d \in 1..MaxKey : f[d] = G[f[d - 1]]
  <2> HIDE DEF S, x, G
  <2> QED BY <1>2, <1>3, LoopIs
<1>5. ASSUME NEW d \in Links PROVE f[d] = Levels(t, n, f)[d]
  <2>1. CASE d = 0
    BY <2>1, <1>4 DEF Levels
  <2>2. CASE d # 0
    <3>1. d - 1 \in Links /\ d \in 1..MaxKey
      BY <2>2, LinksAre
    <3>2. f[d] = KidsOf(t, f[d - 1])
      BY <3>1, <1>4
    <3>3. Levels(t, n, f)[d] = KidsOf(t, f[d - 1])
      BY <2>2 DEF Levels
    <3> QED BY <3>2, <3>3
  <2> QED BY <2>1, <2>2
<1>6. f = Levels(t, n, f)
  <2>1. DOMAIN f = Links /\ f = [d \in Links |-> f[d]]
    BY <1>4
  <2>2. Levels(t, n, f) = [d \in Links |-> Levels(t, n, f)[d]]
    BY DEF Levels
  <2> HIDE DEF S
  <2> QED BY <1>5, <2>1, <2>2
<1>7. LevelOf(t, n) = Levels(t, n, LevelOf(t, n))
  BY <1>6 DEF LevelOf
<1> HIDE DEF S, x, G
<1> QED
  <2> SUFFICES ASSUME NEW d \in Links
               PROVE  LevelOf(t, n)[d] = IF d = 0 THEN {n} \ {Nil}
                                         ELSE KidsOf(t, LevelOf(t, n)[d - 1])
    OBVIOUS
  <2>1. \A g : Levels(t, n, g)[d] = IF d = 0 THEN {n} \ {Nil} ELSE KidsOf(t, g[d - 1])
    BY DEF Levels
  <2>2. Levels(t, n, LevelOf(t, n))[d] = LevelOf(t, n)[d]
    BY <1>7
  <2> HIDE DEF LevelOf
  <2> QED BY <2>1, <2>2

\* All nodes are below the root, since each is on the search path of its key.
LEMMA BelowIsNodes ==
  ASSUME NEW t, NEW b, Tidy(t, b) PROVE Below(t, t.root) = Nodes(t)
<1> DEFINE L == LevelOf(t, t.root)
           P == {d \in Links : L[d] \subseteq Nodes(t)}
           Q == {d \in Links : \A m \in Nodes(t) : MaxKey + 1 - Width(b, m) =< d => m \in L[d]}
<1>0. t \in Trees /\ t.root \in Links
  BY DEF Tidy, Shape, Trees
<1>1. /\ L[0] = {t.root} \ {Nil}
      /\ \A d \in 1..MaxKey : d \in Links /\ d - 1 \in Links /\ d # 0 /\ d \in Int /\ L[d] = KidsOf(t, L[d - 1])
  <2>1. \A d \in 1..MaxKey : d \in Links /\ d - 1 \in Links /\ d # 0 /\ d \in Int
    BY RBAssumption DEF Links
  <2> HIDE DEF L
  <2>2. \A d \in Links : L[d] = IF d = 0 THEN {t.root} \ {Nil} ELSE KidsOf(t, L[d - 1])
    BY <1>0, LevelTurn DEF L
  <2> QED BY <2>1, <2>2, LinksAre
<1>2. t.root # Nil => t.root \in Nodes(t)
  BY <1>0, LinksAre DEF Nodes
<1>3. \A m \in Nodes(t), s \in Sides : t.kid[s][m] # Nil => t.kid[s][m] \in Nodes(t)
  BY KidIs DEF Tidy
<1>4. \A m \in Nodes(t) : m # Nil
  BY <1>0, NodeIs
<1> HIDE DEF L
<1>5. 0 \in P /\ 0 \in Q
  <2>1. L[0] \subseteq Nodes(t)
    BY <1>1, <1>2
  <2>2. ASSUME NEW m \in Nodes(t), MaxKey + 1 - Width(b, m) =< 0 PROVE m \in L[0]
    <3>1. m = t.root
      <4> SUFFICES ASSUME m # t.root PROVE FALSE
        OBVIOUS
      <4> DEFINE p == t.parent[m]
      <4>1. p \in Nodes(t) /\ \E s \in Sides : t.kid[s][p] = m
        BY DEF Tidy, Shape
      <4> HIDE DEF p
      <4>2. Width(b, m) =< Width(b, p) - 1
        BY <1>4, <4>1, KidIs DEF Tidy
      <4>3. Width(b, p) =< MaxKey + 1 /\ Width(b, p) \in Int /\ Width(b, m) \in Int
        BY <4>1, WidthIs, RBAssumption
      <4> QED BY <2>2, <4>2, <4>3, RBAssumption
    <3> QED BY <1>1, <1>4, <3>1
  <2> QED BY <2>1, <2>2, LinksAre
<1>6. ASSUME NEW d \in 1..MaxKey, d - 1 \in P PROVE d \in P
  <2>1. \A m : m \in L[d] <=> m # Nil /\ \E q \in L[d - 1] : m = q \/ \E s \in Sides : m = t.kid[s][q]
    BY <1>1, KidsOfAre
  <2>2. L[d - 1] \subseteq Nodes(t)
    BY <1>6
  <2>3. L[d] \subseteq Nodes(t)
    BY <1>3, <2>1, <2>2
  <2> QED BY <1>1, <2>3
<1>7. ASSUME NEW d \in 1..MaxKey, d - 1 \in Q PROVE d \in Q
  <2> SUFFICES ASSUME NEW m \in Nodes(t), MaxKey + 1 - Width(b, m) =< d PROVE m \in L[d]
    BY <1>1
  <2>0. Width(b, m) \in Int /\ m # Nil
    BY <1>4, WidthIs
  <2>9. \A q \in L[d - 1] : (m = q \/ \E s \in Sides : m = t.kid[s][q]) => m \in L[d]
    BY <1>1, <2>0, KidsOfAre
  <2>1. CASE m = t.root
    <3>1. Width(b, m) = MaxKey + 1
      BY <2>1, WidthIs
    <3>2. MaxKey + 1 - Width(b, m) =< d - 1
      BY <1>1, <3>1, RBAssumption
    <3>3. m \in L[d - 1]
      BY <1>7, <3>2
    <3> QED BY <2>9, <3>3
  <2>2. CASE m # t.root
    <3> DEFINE p == t.parent[m]
    <3>1. p \in Nodes(t) /\ \E s \in Sides : t.kid[s][p] = m
      BY <2>2 DEF Tidy, Shape
    <3> HIDE DEF p
    <3>2. PICK s \in Sides : t.kid[s][p] = m
      BY <3>1
    <3>3. Width(b, m) =< Width(b, p) - 1 /\ Width(b, p) \in Int
      BY <2>0, <3>1, <3>2, KidIs DEF Tidy
    <3>4. MaxKey + 1 - Width(b, p) =< d - 1
      BY <1>1, <2>0, <3>3, RBAssumption
    <3>5. p \in L[d - 1]
      BY <1>7, <3>1, <3>4
    <3> QED BY <2>9, <3>2, <3>5
  <2> QED BY <2>1, <2>2
<1>8. MaxKey \in P /\ MaxKey \in Q
  <2> HIDE DEF P, Q
  <2>1. Links \subseteq P
    BY <1>5, <1>6, UpToAll
  <2>2. Links \subseteq Q
    BY <1>5, <1>7, UpToAll
  <2> QED BY <2>1, <2>2, LinksAre
<1>9. \A m \in Nodes(t) : MaxKey + 1 - Width(b, m) =< MaxKey
  <2> SUFFICES ASSUME NEW m \in Nodes(t) PROVE MaxKey + 1 - Width(b, m) =< MaxKey
    OBVIOUS
  <2>1. Width(b, m) \in Int /\ Width(b, m) >= 2
    BY WidthIs, RBAssumption
  <2> QED BY <2>1, RBAssumption
<1>10. L[MaxKey] = Nodes(t)
  BY <1>8, <1>9
<1> QED BY <1>10, BelowIsLevel DEF L

\* Parents and children agree.
LEMMA TreeLinked ==
  ASSUME NEW t, NEW b, Tidy(t, b) PROVE Linked(t)
<1>1. Below(t, t.root) = Nodes(t)
  BY BelowIsNodes
<1>2. t.root = Nil \/ t.parent[t.root] = Nil
  BY DEF Tidy, Shape
<1>3. ASSUME NEW n \in Nodes(t), NEW s \in Sides, t.kid[s][n] # Nil
      PROVE  t.parent[t.kid[s][n]] = n /\ t.kid[Other(s)][n] # t.kid[s][n]
  BY <1>3, KidIs, OneSide, SidesAre DEF Tidy
<1> QED BY <1>1, <1>2, <1>3 DEF Linked
-----------------------------------------------------------------------------
(* The black nodes above and below a node                                  *)

\* The black nodes on a path down from k, if a path down from a child of k has g[k].
High(t, g, k) == IF k = Nil THEN 0 ELSE g[k] + IF Red(t, k) THEN 0 ELSE 1

\* g certifies that every path down from a node has as many black nodes as the others, if
\* those on side s of p are counted one too many; with p = Nil, that they have.
Certified(t, g, p, s) ==
  /\ g \in [Links -> Nat]
  /\ \A n \in Nodes(t), r \in Sides :
       High(t, g, t.kid[r][n]) = IF n = p /\ r = s THEN g[n] - 1 ELSE g[n]
Even(t) == \E g : Certified(t, g, Nil, "left")

\* What the loop of Blacks is made of.
Climbed(t, f) ==
  [d \in Links |->
     [m \in Links |->
        IF m = Nil \/ d = 0 THEN 0 ELSE f[d - 1][t.parent[m]] + IF Red(t, m) THEN 0 ELSE 1]]
ClimbOf(t) == CHOOSE f : f = Climbed(t, f)

\* Blacks makes MaxKey turns of its loop.
LEMMA BlacksIsClimb == ASSUME NEW t, NEW n PROVE Blacks(t, n) = ClimbOf(t)[MaxKey][n]
BY Zenon DEF Blacks, Climbed, ClimbOf

\* What one turn on the way up does.
LEMMA ClimbTurn ==
  ASSUME NEW t \in Trees
  PROVE  \A d, m \in Links :
           ClimbOf(t)[d][m] = IF m = Nil \/ d = 0 THEN 0
                              ELSE ClimbOf(t)[d - 1][t.parent[m]] + IF Red(t, m) THEN 0 ELSE 1
<1> DEFINE S == [Links -> Nat]
           x == [m \in Links |-> 0]
           Up(e, m) == IF m = Nil THEN 0 ELSE e[t.parent[m]] + IF Red(t, m) THEN 0 ELSE 1
           G == [e \in S |-> [m \in Links |-> Up(e, m)]]
<1>1. \A m \in Links : t.parent[m] \in Links
  BY DEF Trees
<1>2. x \in S
  OBVIOUS
<1>3. G \in [S -> S]
  <2> SUFFICES ASSUME NEW e \in S, NEW m \in Links PROVE Up(e, m) \in Nat
    OBVIOUS
  <2> QED BY <1>1
<1>4. PICK f \in [Links -> S] : f[0] = x /\ \A d \in 1..MaxKey : f[d] = G[f[d - 1]]
  <2> HIDE DEF S, x, G
  <2> QED BY <1>2, <1>3, LoopIs
<1>5. ASSUME NEW d \in Links, NEW m \in Links PROVE f[d][m] = Climbed(t, f)[d][m]
  <2>1. CASE d = 0
    BY <2>1, <1>4 DEF Climbed
  <2>2. CASE d # 0
    <3>1. d - 1 \in Links /\ d \in 1..MaxKey
      BY <2>2, LinksAre
    <3>2. f[d][m] = Up(f[d - 1], m)
      <4>1. f[d] = G[f[d - 1]] /\ f[d - 1] \in S
        BY <3>1, <1>4
      <4>2. \A e \in S : G[e][m] = Up(e, m)
        OBVIOUS
      <4> HIDE DEF S, G, Up
      <4> QED BY <4>1, <4>2
    <3>3. Climbed(t, f)[d][m] = Up(f[d - 1], m)
      BY <2>2 DEF Climbed
    <3> QED BY <3>2, <3>3
  <2> QED BY <2>1, <2>2
<1>6. f = Climbed(t, f)
  <2>1. \A d \in Links : DOMAIN f[d] = Links /\ f[d] = [m \in Links |-> f[d][m]]
    BY <1>4
  <2>2. \A d \in Links : Climbed(t, f)[d] = [m \in Links |-> Climbed(t, f)[d][m]]
    BY DEF Climbed
  <2>3. \A d \in Links : f[d] = Climbed(t, f)[d]
    BY <1>5, <2>1, <2>2
  <2>4. DOMAIN f = Links /\ f = [d \in Links |-> f[d]]
    BY <1>4
  <2>5. Climbed(t, f) = [d \in Links |-> Climbed(t, f)[d]]
    BY DEF Climbed
  <2> HIDE DEF S
  <2> QED BY <2>3, <2>4, <2>5
<1>7. ClimbOf(t) = Climbed(t, ClimbOf(t))
  BY <1>6 DEF ClimbOf
<1> HIDE DEF S, x, G
<1> QED
  <2> SUFFICES ASSUME NEW d \in Links, NEW m \in Links
               PROVE  ClimbOf(t)[d][m] =
                        IF m = Nil \/ d = 0 THEN 0
                        ELSE ClimbOf(t)[d - 1][t.parent[m]] + IF Red(t, m) THEN 0 ELSE 1
    OBVIOUS
  <2>1. \A g : Climbed(t, g)[d][m] = IF m = Nil \/ d = 0 THEN 0
                                     ELSE g[d - 1][t.parent[m]] + IF Red(t, m) THEN 0 ELSE 1
    BY DEF Climbed
  <2>2. Climbed(t, ClimbOf(t))[d][m] = ClimbOf(t)[d][m]
    BY <1>7
  <2> HIDE DEF ClimbOf
  <2> QED BY <2>1, <2>2

\* If heights certify the tree, all paths have as many black nodes.
LEMMA EvenIsEven ==
  ASSUME NEW t, NEW b, Tidy(t, b), Even(t) PROVE EvenBlacks(t)
<1>1. PICK g : Certified(t, g, Nil, "left")
  BY DEF Even
<1> DEFINE U == ClimbOf(t)
           h == High(t, g, t.root)
           P == {d \in Links : \A m \in Nodes(t) :
                   U[d][m] \in Nat /\ (MaxKey + 2 - Width(b, m) =< d => U[d][m] + g[m] = h)}
<1>0. t \in Trees /\ t.root \in Links
  BY DEF Tidy, Shape, Trees
<1>2. /\ \A n \in Nodes(t) : g[n] \in Nat /\ n \in Links /\ n # Nil
      /\ \A n \in Nodes(t), r \in Sides : High(t, g, t.kid[r][n]) = g[n]
  BY <1>0, <1>1, NodeIs DEF Certified
<1>3. \A d \in 1..MaxKey : /\ d \in Links /\ d - 1 \in Links /\ d # 0 /\ d \in Int
                           /\ \A m \in Nodes(t) : U[d][m] = U[d - 1][t.parent[m]] + IF Red(t, m) THEN 0 ELSE 1
  <2>1. \A d \in 1..MaxKey : d \in Links /\ d - 1 \in Links /\ d # 0 /\ d \in Int
    BY RBAssumption DEF Links
  <2> HIDE DEF U
  <2>2. \A d, m \in Links :
           U[d][m] = IF m = Nil \/ d = 0 THEN 0
                     ELSE U[d - 1][t.parent[m]] + IF Red(t, m) THEN 0 ELSE 1
    BY <1>0, ClimbTurn DEF U
  <2> QED BY <1>2, <2>1, <2>2
<1>4. \A d \in Links : U[d][Nil] = 0
  BY <1>0, ClimbTurn, LinksAre
<1> HIDE DEF U, h
<1>5. 0 \in P
  <2> SUFFICES ASSUME NEW m \in Nodes(t) PROVE ~(MaxKey + 2 - Width(b, m) =< 0)
    <3>1. \A m \in Nodes(t) : U[0][m] = 0
      BY <1>0, <1>2, ClimbTurn, LinksAre DEF U
    <3> QED BY <3>1, LinksAre
  <2>1. Width(b, m) \in 2..(MaxKey + 1)
    BY WidthIs
  <2> QED BY <2>1, RBAssumption
<1>6. ASSUME NEW d \in 1..MaxKey, d - 1 \in P PROVE d \in P
  <2>0. \A m \in Nodes(t) : U[d][m] \in Nat
    <3> SUFFICES ASSUME NEW m \in Nodes(t) PROVE U[d - 1][t.parent[m]] \in Nat
      BY <1>3
    <3>1. t.parent[m] \in Nodes(t) \/ t.parent[m] = Nil
      BY <1>2 DEF Tidy, Shape
    <3> QED BY <1>3, <1>4, <1>6, <3>1
  <2> SUFFICES ASSUME NEW m \in Nodes(t), MaxKey + 2 - Width(b, m) =< d PROVE U[d][m] + g[m] = h
    BY <1>3, <2>0
  <2>1. U[d][m] = U[d - 1][t.parent[m]] + IF Red(t, m) THEN 0 ELSE 1
    BY <1>3
  <2>2. CASE m = t.root
    <3>1. t.parent[m] = Nil
      BY <2>2, <1>2 DEF Tidy, Shape
    <3>2. U[d - 1][t.parent[m]] = 0
      BY <1>3, <1>4, <3>1
    <3>3. h = g[m] + IF Red(t, m) THEN 0 ELSE 1
      BY <1>2, <2>2 DEF h, High
    <3> QED BY <1>2, <2>1, <3>2, <3>3
  <2>3. CASE m # t.root
    <3> DEFINE p == t.parent[m]
    <3>1. p \in Nodes(t) /\ \E s \in Sides : t.kid[s][p] = m
      BY <2>3 DEF Tidy, Shape
    <3> HIDE DEF p
    <3>2. PICK s \in Sides : t.kid[s][p] = m
      BY <3>1
    <3>3. Width(b, m) =< Width(b, p) - 1 /\ Width(b, p) \in Int /\ Width(b, m) \in Int
      BY <1>2, <3>1, <3>2, KidIs DEF Tidy
    <3>4. MaxKey + 2 - Width(b, p) =< d - 1
      BY <1>3, <3>3, RBAssumption
    <3>5. U[d - 1][p] + g[p] = h
      BY <1>6, <3>1, <3>4
    <3>6. g[p] = g[m] + IF Red(t, m) THEN 0 ELSE 1
      <4>1. High(t, g, m) = g[p]
        BY <1>2, <3>1, <3>2
      <4> QED BY <1>2, <4>1 DEF High
    <3>7. U[d][m] = U[d - 1][p] + IF Red(t, m) THEN 0 ELSE 1
      BY <2>1 DEF p
    <3>8. U[d - 1][p] \in Int
      BY <1>6, <3>1
    <3> QED BY <3>5, <3>6, <3>7, <3>8, <1>2, <3>1
  <2> QED BY <2>2, <2>3
<1>7. MaxKey \in P
  <2> HIDE DEF P
  <2>1. Links \subseteq P
    BY <1>5, <1>6, UpToAll
  <2> QED BY <2>1, LinksAre
<1>8. \A m \in Nodes(t) : U[MaxKey][m] \in Nat /\ U[MaxKey][m] + g[m] = h
  <2> SUFFICES ASSUME NEW m \in Nodes(t) PROVE MaxKey + 2 - Width(b, m) =< MaxKey
    BY <1>7
  <2>1. Width(b, m) \in 2..(MaxKey + 1)
    BY WidthIs
  <2> QED BY <2>1, RBAssumption
<1>9. ASSUME NEW m \in Tops(t) PROVE m \in Nodes(t) /\ g[m] = 0
  <2>1. m \in Nodes(t) /\ \E s \in Sides : t.kid[s][m] = Nil
    BY BelowIsNodes DEF Tops
  <2> QED BY <1>2, <2>1 DEF High
<1>10. ASSUME NEW m \in Tops(t) PROVE U[MaxKey][m] = h
  BY <1>8, <1>9
<1> QED BY <1>10, BlacksIsClimb DEF EvenBlacks, U
-----------------------------------------------------------------------------
(* A certificate is carried over a change                                  *)

\* How high a child is, by its own height and color.
LEMMA HighIs ==
  ASSUME NEW t \in Trees, NEW g \in [Links -> Nat], NEW k \in Links
  PROVE  /\ High(t, g, k) \in Nat /\ High(t, g, Nil) = 0
         /\ k # Nil => High(t, g, k) = IF Red(t, k) THEN g[k] ELSE g[k] + 1
BY DEF High

\* A child is as high as before if its height and color are.
LEMMA HighSame ==
  ASSUME NEW t, NEW u, NEW g, NEW f, NEW k, f[k] = g[k], u.color[k] = t.color[k]
  PROVE  High(u, f, k) = High(t, g, k)
BY DEF High, Red

\* M is a region of the tree, with x at its top, that is rebuilt with y at its top.
Region(t, u, M, x, y) ==
  /\ Nodes(u) = Nodes(t) /\ M \subseteq Nodes(t) /\ x \in M
  /\ \A m \in M \ {x} : t.parent[m] \in M /\ m # t.root
  /\ t.parent[x] \notin M
  /\ \A k \in Links \ M : u.color[k] = t.color[k]
  /\ \A n \in Nodes(t) \ M, r \in Sides :
       u.kid[r][n] = IF t.kid[r][n] = x THEN y ELSE t.kid[r][n]

\* If the heights fit in the region and at its top they are as before, they fit everywhere.
LEMMA Recertify ==
  ASSUME NEW t, NEW b, NEW v, Shape(t, b, v), NEW u, NEW M, NEW x, NEW y, Region(t, u, M, x, y),
         NEW g, NEW q, NEW w \in Sides, Certified(t, g, q, w), q \in M \cup {Nil},
         NEW f \in [Links -> Nat], \A k \in Links \ M : f[k] = g[k],
         \A n \in M, r \in Sides : High(u, f, u.kid[r][n]) = f[n]
  PROVE  /\ High(u, f, y) = High(t, g, x) => Certified(u, f, Nil, "left")
         /\ High(u, f, y) = High(t, g, x) - 1 => Certified(u, f, t.parent[x], SideOf(t, x))
<1>1. t \in Trees /\ \A n \in Nodes(t) : n \in Links /\ n # Nil
  BY NodeIs DEF Shape
<1>2. g \in [Links -> Nat] /\ \A n \in Nodes(t) : g[n] \in Nat
  BY <1>1 DEF Certified
<1>3. ASSUME NEW n \in Nodes(t) \ M, NEW r \in Sides, t.kid[r][n] # x
      PROVE  High(u, f, u.kid[r][n]) = f[n]
  <2> DEFINE k == t.kid[r][n]
  <2>1. k \in Links /\ n # q
    BY <1>1, <1>3 DEF Trees
  <2>2. u.kid[r][n] = k
    BY <1>3 DEF Region
  <2>3. k \notin M
    <3> SUFFICES ASSUME k \in M PROVE FALSE
      OBVIOUS
    <3>1. k \in Nodes(t) /\ k # Nil
      BY <1>1 DEF Region
    <3> HIDE DEF k
    <3>2. t.parent[k] = n
      BY <3>1, <1>3, KidIs DEF k
    <3> QED BY <1>3, <3>2 DEF Region, k
  <2> HIDE DEF k
  <2>4. High(u, f, k) = High(t, g, k)
    BY <2>1, <2>3, HighSame DEF Region
  <2>5. High(t, g, k) = g[n]
    BY <2>1 DEF k, Certified
  <2> QED BY <1>1, <1>3, <2>2, <2>4, <2>5
<1>4. ASSUME NEW n \in Nodes(t) \ M, NEW r \in Sides, t.kid[r][n] = x
      PROVE  /\ u.kid[r][n] = y /\ f[n] = g[n] /\ High(t, g, x) = g[n]
             /\ n = t.parent[x] /\ r = SideOf(t, x)
  <2>1. x \in Nodes(t) /\ x # Nil
    BY <1>1 DEF Region
  <2>2. n = t.parent[x] /\ n # Nil
    BY <1>1, <1>4, <2>1, KidIs
  <2>3. x # t.root /\ r = SideOf(t, x)
    BY <1>4, <2>1, <2>2, ParentIs
  <2>4. u.kid[r][n] = y /\ f[n] = g[n]
    BY <1>1, <1>4 DEF Region
  <2>5. High(t, g, x) = g[n]
    BY <1>1, <1>4 DEF Certified
  <2> QED BY <2>2, <2>3, <2>4, <2>5
<1>5. ASSUME High(u, f, y) = High(t, g, x) PROVE Certified(u, f, Nil, "left")
  <2> SUFFICES ASSUME NEW n \in Nodes(t), NEW r \in Sides PROVE High(u, f, u.kid[r][n]) = f[n]
    BY <1>1 DEF Certified, Region
  <2> QED BY <1>3, <1>4, <1>5
<1>6. ASSUME High(u, f, y) = High(t, g, x) - 1 PROVE Certified(u, f, t.parent[x], SideOf(t, x))
  <2>1. t.parent[x] \notin M
    BY DEF Region
  <2> SUFFICES ASSUME NEW n \in Nodes(t), NEW r \in Sides
               PROVE  High(u, f, u.kid[r][n]) =
                        IF n = t.parent[x] /\ r = SideOf(t, x) THEN f[n] - 1 ELSE f[n]
    BY <1>1 DEF Certified, Region
  <2>2. CASE n \in M
    BY <2>1, <2>2
  <2>3. CASE n \notin M /\ t.kid[r][n] = x
    BY <1>4, <1>6, <2>3
  <2>4. CASE n \notin M /\ t.kid[r][n] # x
    <3>1. ~(n = t.parent[x] /\ r = SideOf(t, x))
      <4> SUFFICES ASSUME n = t.parent[x], r = SideOf(t, x) PROVE FALSE
        OBVIOUS
      <4>1. x \in Nodes(t)
        BY DEF Region
      <4> QED BY <1>1, <2>4, <4>1, ParentIs
    <3> QED BY <1>3, <2>4, <3>1
  <2> QED BY <2>2, <2>3, <2>4
<1> QED BY <1>5, <1>6

\* The colors of a parent and its child.
Unpaired(t, N) == \A n \in Nodes(t) \ N : Red(t, n) => ~Red(t, t.parent[n])

\* The rules, told by the certificates.
LEMMA RedBlackIs ==
  ASSUME NEW t, NEW b, Tidy(t, b), ~Red(t, Nil)
  PROVE  /\ RedBlack(t) => Unpaired(t, {}) /\ ~Red(t, t.root)
         /\ Even(t) /\ Unpaired(t, {}) /\ ~Red(t, t.root) => RedBlack(t)
<1>1. Below(t, t.root) = Nodes(t)
  BY BelowIsNodes
<1> QED BY <1>1, EvenIsEven DEF RedBlack, RedPairs, Unpaired
-----------------------------------------------------------------------------
(* The colors during an insertion                                          *)

\* m, red, is the only node that may have a red parent.
Rising(t, m) ==
  /\ m \in Nodes(t) /\ Red(t, m) /\ ~Red(t, Nil) /\ Even(t)
  /\ Unpaired(t, {m}) /\ (m # t.root => ~Red(t, t.root))

\* u is t with the new node k on side sd of p.
Added(t, u, k, p, sd) ==
  /\ u \in Trees /\ u.root = IF p = Nil THEN k ELSE t.root
  /\ \A n \in Links, r \in Sides :
       u.kid[r][n] = IF n = p /\ p # Nil /\ r = sd THEN k ELSE t.kid[r][n]
  /\ \A n \in Links : /\ u.parent[n] = IF n = k THEN p ELSE t.parent[n]
                      /\ u.color[n] = IF n = k THEN "red" ELSE t.color[n]

\* What a new node changes.
LEMMA LinkIs ==
  ASSUME NEW t, NEW b, Tidy(t, b), NEW k \in Keys \ Nodes(t),
         NEW p, p = Descend(t, k), NEW sd, sd = Toward(k, p)
  PROVE  /\ Added(t, LinkNew(t, k, p), k, p, sd)
         /\ p \in Links /\ k # p /\ sd \in Sides
         /\ p # Nil => p \in Nodes(t) /\ t.kid[sd][p] = Nil /\ t.root # Nil
         /\ p = Nil => t.root = Nil
<1> DEFINE a == PutAt(t, p, sd, k)
           u == Paint(a, {k}, "red")
<1>0. t \in Trees /\ k \in Links /\ k # Nil /\ t.root \in Links /\ k # t.root
  BY LinksAre DEF Tidy, Shape, Trees, Nodes
<1>1. sd \in Sides
  BY TowardIs
<1>2. IF t.root = Nil THEN p = Nil ELSE Lacks(t, b, k, p)
  BY SearchEnds
<1>3. /\ p \in Links /\ k # p
      /\ p # Nil => p \in Nodes(t) /\ t.kid[sd][p] = Nil /\ t.root # Nil
      /\ p = Nil => t.root = Nil
  BY <1>0, <1>2, NodeIs DEF Lacks
<1>4. a \in Trees
  BY <1>0, <1>1, <1>3, PutAtTree
<1>5. /\ a.color = t.color /\ a.root = IF p = Nil THEN k ELSE t.root
      /\ \A n \in Links, r \in Sides :
           a.kid[r][n] = IF n = p /\ p # Nil /\ r = sd THEN k ELSE t.kid[r][n]
      /\ \A n \in Links : a.parent[n] = IF n = k THEN p ELSE t.parent[n]
  BY <1>0, <1>1, <1>3, PutAtIs
<1> HIDE DEF a
<1>6. Painted(a, u, {k}, "red")
  BY <1>4, PaintIs
<1> HIDE DEF u
<1>7. Added(t, u, k, p, sd)
  BY <1>5, <1>6 DEF Added, Painted
<1>8. u = LinkNew(t, k, p)
  BY DEF u, a, LinkNew
<1> QED BY <1>1, <1>3, <1>7, <1>8

\* A new red node keeps the heights; only it may have a red parent (rbtree.c:271-287).
LEMMA LinkRules ==
  ASSUME NEW t, NEW b, Tidy(t, b), NEW k \in Keys \ Nodes(t),
         Even(t), Unpaired(t, {}), ~Red(t, t.root), ~Red(t, Nil)
  PROVE  Rising(LinkNew(t, k, Descend(t, k)), k)
<1> DEFINE p == Descend(t, k)
           sd == Toward(k, p)
           u == LinkNew(t, k, p)
<1>0. t \in Trees /\ k \in Links /\ k # Nil /\ k # t.root /\ \A n \in Nodes(t) : n \in Links /\ n # Nil /\ n # k
  BY LinksAre, NodeIs DEF Tidy, Shape, Nodes
<1>1. /\ Added(t, u, k, p, sd)
      /\ p \in Links /\ k # p /\ sd \in Sides
      /\ p # Nil => p \in Nodes(t) /\ t.kid[sd][p] = Nil /\ t.root # Nil
      /\ p = Nil => t.root = Nil
  BY LinkIs
<1>2. Nodes(u) = Nodes(t) \cup {k}
  BY LinkShape
<1> HIDE DEF u, sd, p
<1>3. PICK g : Certified(t, g, Nil, "left")
  BY DEF Even
<1> DEFINE f == [n \in Links |-> IF n = k THEN 0 ELSE g[n]]
<1>4. f \in [Links -> Nat] /\ f[k] = 0 /\ \A n \in Links : n # k => f[n] = g[n]
  BY <1>0, <1>3 DEF Certified
<1> HIDE DEF f
<1>5. High(u, f, k) = 0
  BY <1>0, <1>1, <1>4 DEF High, Red, Added
<1>6. \A n \in Links : n # k => High(u, f, n) = High(t, g, n)
  BY <1>1, <1>4, HighSame DEF Added
<1>7. \A r \in Sides : t.kid[r][k] = Nil
  BY <1>0 DEF Tidy, Shape
<1>8. \A n \in Nodes(t), r \in Sides : t.kid[r][n] # k /\ t.kid[r][n] \in Links
  BY <1>0, KidIs DEF Tidy, Trees
<1>9. High(t, g, Nil) = 0 /\ High(u, f, Nil) = 0
  BY DEF High
<1>10. Certified(u, f, Nil, "left")
  <2> SUFFICES ASSUME NEW n \in Nodes(u), NEW r \in Sides PROVE High(u, f, u.kid[r][n]) = f[n]
    BY <1>0, <1>2, <1>4 DEF Certified
  <2>1. CASE n = k
    BY <1>0, <1>1, <1>4, <1>7, <1>9, <2>1 DEF Added
  <2>2. CASE n # k
    <3>1. n \in Nodes(t) /\ n \in Links /\ n # Nil
      BY <1>0, <1>2, <2>2
    <3>2. High(t, g, t.kid[r][n]) = g[n] /\ f[n] = g[n]
      BY <1>3, <1>4, <2>2, <3>1 DEF Certified
    <3>3. CASE n = p /\ r = sd
      BY <1>1, <1>5, <1>9, <3>1, <3>2, <3>3 DEF Added
    <3>4. CASE ~(n = p /\ r = sd)
      <4>1. u.kid[r][n] = t.kid[r][n]
        BY <1>1, <3>1, <3>4 DEF Added
      <4> QED BY <1>6, <1>8, <3>1, <3>2, <4>1
    <3> QED BY <3>3, <3>4
  <2> QED BY <2>1, <2>2
<1>11. Unpaired(u, {k})
  <2> SUFFICES ASSUME NEW n \in Nodes(t), Red(u, n) PROVE ~Red(u, u.parent[n])
    BY <1>2 DEF Unpaired
  <2>1. Red(t, n) /\ u.parent[n] = t.parent[n]
    BY <1>0, <1>1 DEF Added, Red
  <2>2. t.parent[n] \in Nodes(t) \/ t.parent[n] = Nil
    BY <1>0 DEF Tidy, Shape
  <2>3. t.parent[n] \in Links /\ t.parent[n] # k
    BY <1>0, <2>2, LinksAre
  <2>4. ~Red(t, t.parent[n])
    BY <2>1 DEF Unpaired
  <2> QED BY <1>1, <2>1, <2>3, <2>4 DEF Added, Red
<1>12. Red(u, k) /\ ~Red(u, Nil) /\ (k # u.root => ~Red(u, u.root))
  <2>1. t.root \in Links /\ Nil \in Links
    BY <1>0, LinksAre DEF Trees
  <2> QED BY <1>0, <1>1, <2>1 DEF Added, Red
<1>13. Rising(u, k)
  BY <1>2, <1>10, <1>11, <1>12 DEF Rising, Even
<1> QED BY <1>13 DEF u, p
\* m, p and g are a red node, its red parent and its grandparent, of which p is on side s.
Trio(t, m, p, g, s, uncle) ==
  /\ Rising(t, m) /\ p = t.parent[m] /\ Red(t, p) /\ g = t.parent[p] /\ s = SideOf(t, p)
  /\ uncle = t.kid[Other(s)][g]

\* A node is as high as its children and itself.
LEMMA Taller ==
  ASSUME NEW t, NEW b, Tidy(t, b)
  PROVE  \E w : w \in [Links -> Nat] /\ \A n \in Nodes(t) : n # t.root => w[t.parent[n]] > w[n]
<1> DEFINE w == [n \in Links |-> IF n \in Nodes(t) THEN Width(b, n) ELSE 0]
<1>0. t \in Trees
  BY DEF Tidy, Shape
<1>1. \A n \in Nodes(t) : Width(b, n) \in Nat
  BY WidthIs, RBAssumption
<1>2. w \in [Links -> Nat]
  BY <1>1
<1>3. ASSUME NEW n \in Nodes(t), n # t.root PROVE w[t.parent[n]] > w[n]
  <2>1. t.parent[n] \in Nodes(t) /\ n \in Links /\ n # Nil /\ \E r \in Sides : t.kid[r][t.parent[n]] = n
    BY <1>0, <1>3, NodeIs DEF Tidy, Shape
  <2>2. t.parent[n] \in Links
    BY <1>0, <2>1 DEF Trees
  <2>3. Width(b, n) =< Width(b, t.parent[n]) - 1
    BY <2>1, KidIs DEF Tidy
  <2>4. Width(b, n) \in Nat /\ Width(b, t.parent[n]) \in Nat
    BY <1>1, <2>1
  <2>5. w[n] = Width(b, n) /\ w[t.parent[n]] = Width(b, t.parent[n])
    BY <2>1, <2>2
  <2> QED BY <2>3, <2>4, <2>5
<1> HIDE DEF w
<1> QED BY <1>2, <1>3

\* The grandparent is a black node and the parent is not the root.
LEMMA TrioIs ==
  ASSUME NEW t, NEW b, Tidy(t, b), NEW m, NEW p, NEW g, NEW s, NEW uncle, Trio(t, m, p, g, s, uncle)
  PROVE  /\ t \in Trees /\ {m, p, g} \subseteq Nodes(t) /\ {m, p, g, uncle} \subseteq Links
         /\ m # p /\ m # g /\ p # g /\ uncle \notin {m, p, g} /\ s \in Sides
         /\ m # Nil /\ p # Nil /\ g # Nil
         /\ m # t.root /\ p # t.root /\ ~Red(t, g) /\ t.parent[g] \in Links
         /\ t.parent[g] \notin {m, p, g}
         /\ t.kid[s][g] = p
         /\ uncle # Nil => uncle \in Nodes(t) /\ t.parent[uncle] = g /\ uncle # t.root
         /\ t.parent[g] # uncle \/ uncle = Nil
<1>1. /\ t \in Trees /\ m \in Nodes(t) /\ m \in Links /\ m # Nil /\ Red(t, m) /\ ~Red(t, Nil)
      /\ p = t.parent[m] /\ Red(t, p) /\ g = t.parent[p] /\ s = SideOf(t, p)
      /\ uncle = t.kid[Other(s)][g]
  BY NodeIs DEF Trio, Rising, Tidy, Shape
<1>2. p # Nil /\ m # t.root /\ p \in Nodes(t) /\ p # m /\ ~Red(t, t.root)
  BY <1>1, ParentIs DEF Tidy, Trio, Rising
<1>3. p # t.root
  BY <1>1, <1>2, Zenon
<1>4. /\ p \in Links /\ g \in Nodes(t) /\ g # p /\ t.kid[s][g] = p /\ s \in Sides
      /\ g \in Links /\ g # Nil
  BY <1>1, <1>2, <1>3, ParentIs, NodeIs, ZenonT(60) DEF Tidy
<1>5. ~Red(t, g) /\ g # m
  BY <1>1, <1>2, <1>4 DEF Trio, Rising, Unpaired
<1>6. Other(s) \in Sides /\ Other(s) # s
  BY <1>4, SidesAre, SMTT(60)
<1>7. uncle \in Links
  <2>1. \A r \in Sides, n \in Links : t.kid[r][n] \in Links
    BY DEF Tidy, Shape, Trees
  <2> QED BY <1>1, <1>4, <1>6, <2>1, Zenon
<1>8. uncle # Nil => uncle \in Nodes(t) /\ t.parent[uncle] = g /\ uncle # t.root /\ uncle # g
  <2>1. ASSUME NEW n \in Nodes(t), NEW r \in Sides, t.kid[r][n] # Nil
        PROVE  /\ t.kid[r][n] \in Nodes(t) /\ t.parent[t.kid[r][n]] = n
               /\ t.kid[r][n] # t.root /\ t.kid[r][n] # n
    BY <2>1, KidIs DEF Tidy
  <2> QED BY <1>1, <1>4, <1>6, <2>1, ZenonT(60)
<1>9. uncle # p /\ uncle # m
  <2>1. uncle = p => FALSE
    <3>1. t.kid[s][g] # Nil /\ Shape(t, b, Own)
      BY <1>2, <1>4 DEF Tidy
    <3>2. \A r \in Sides : t.kid[s][g] = t.kid[r][g] => s = r
      BY <1>4, <3>1, OneSide
    <3> QED BY <1>1, <1>4, <1>6, <3>2, Zenon
  <2>2. uncle = m => FALSE
    BY <1>1, <1>4, <1>8
  <2> QED BY <2>1, <2>2
<1>10. t.parent[g] \in Links
  BY <1>1, <1>4, Zenon DEF Trees
<1>11. t.parent[g] \notin {m, p, g} /\ (t.parent[g] # uncle \/ uncle = Nil)
  <2> SUFFICES ASSUME g # t.root PROVE t.parent[g] \notin {m, p, g} /\ (t.parent[g] # uncle \/ uncle = Nil)
    <3>1. g = t.root => t.parent[g] = Nil
      BY <1>4, ParentIs DEF Tidy
    <3> QED BY <1>1, <1>2, <1>4, <3>1, Zenon
  <2>1. PICK w : w \in [Links -> Nat] /\ \A n \in Nodes(t) : n # t.root => w[t.parent[n]] > w[n]
    BY Taller, SMTT(60)
  <2>2. w[p] > w[m] /\ w[g] > w[p] /\ w[t.parent[g]] > w[g] /\ (uncle # Nil => w[g] > w[uncle])
    BY <1>1, <1>2, <1>3, <1>4, <1>8, <2>1, ZenonT(60)
  <2>3. w[p] \in Nat /\ w[m] \in Nat /\ w[g] \in Nat /\ w[uncle] \in Nat
    BY <1>1, <1>4, <1>7, <2>1, Zenon
  <2> QED BY <2>2, <2>3, SMTT(60)
<1> QED BY <1>1, <1>2, <1>3, <1>4, <1>5, <1>7, <1>8, <1>9, <1>10, <1>11, ZenonT(60)

\* What the heights of an even tree say.
LEMMA EvenIs ==
  ASSUME NEW t \in Trees, NEW g, Certified(t, g, Nil, "left")
  PROVE  /\ g \in [Links -> Nat] /\ \A n \in Nodes(t) : g[n] \in Nat
         /\ \A n \in Nodes(t), r \in Sides : High(t, g, t.kid[r][n]) = g[n]
BY NodeIs DEF Certified

\* With a red uncle the grandparent takes the place of the node (rbtree.c:63-71, 84-92).
LEMMA MoveDownRules ==
  ASSUME NEW t, NEW b, Tidy(t, b), NEW m, NEW p, NEW a, NEW s, NEW uncle,
         Trio(t, m, p, a, s, uncle), Red(t, uncle)
  PROVE  Rising(MoveDown(t, uncle, p, a), a)
<1> DEFINE w == Paint(t, {uncle, p}, "black")
           u == MoveDown(t, uncle, p, a)
           M == {p, uncle, a}
<1>0. ~Red(t, Nil) /\ Unpaired(t, {m}) /\ Even(t) /\ Red(t, p) /\ Red(t, m) /\ (m # t.root => ~Red(t, t.root))
      /\ p = t.parent[m] /\ a = t.parent[p] /\ uncle = t.kid[Other(s)][a]
  BY Zenon DEF Trio, Rising
<1>1. /\ t \in Trees /\ {m, p, a} \subseteq Nodes(t) /\ {m, p, a, uncle} \subseteq Links
      /\ m # p /\ m # a /\ p # a /\ uncle \notin {m, p, a} /\ s \in Sides
      /\ m # Nil /\ p # Nil /\ a # Nil /\ uncle # Nil
      /\ m # t.root /\ p # t.root /\ ~Red(t, a) /\ t.parent[a] \in Links
      /\ t.parent[a] \notin {m, p, a, uncle}
      /\ t.kid[s][a] = p
      /\ uncle \in Nodes(t) /\ t.parent[uncle] = a /\ uncle # t.root
  <2>1. uncle # Nil
    BY <1>0, Zenon
  <2> QED BY <2>1, TrioIs, SMTT(60)
<1>2. Painted(t, w, {uncle, p}, "black") /\ Painted(w, u, {a}, "red")
  BY <1>1, PaintIs DEF MoveDown, Painted
<1>3. Nodes(w) = Nodes(t) /\ Nodes(u) = Nodes(w)
  BY PaintShape DEF Tidy, MoveDown
<1> HIDE DEF w, u
<1>4. /\ u \in Trees /\ u.root = t.root /\ u.kid = t.kid /\ u.parent = t.parent
      /\ \A n \in Links : u.color[n] = IF n = a THEN "red" ELSE IF n = p \/ n = uncle THEN "black" ELSE t.color[n]
  BY <1>2, SMTT(60) DEF Painted
<1>5. PICK g : Certified(t, g, Nil, "left")
  BY <1>0, Zenon DEF Even
<1>6. /\ g \in [Links -> Nat] /\ \A n \in Nodes(t) : g[n] \in Nat
      /\ \A n \in Nodes(t), r \in Sides : High(t, g, t.kid[r][n]) = g[n]
  BY <1>1, <1>5, EvenIs
<1> DEFINE f == [n \in Links |-> IF n = a THEN g[a] + 1 ELSE g[n]]
<1>7. f \in [Links -> Nat] /\ f[a] = g[a] + 1 /\ \A n \in Links : n # a => f[n] = g[n]
  BY <1>1, <1>6
<1> HIDE DEF f
<1>8. \A n \in Nodes(t) : n \in Links /\ n # Nil
  BY <1>1, NodeIs
<1>9. \A n \in Links \ M : High(u, f, n) = High(t, g, n)
  BY <1>4, <1>7, HighSame
<1>10. Other(s) \in Sides /\ \A r \in Sides : r = s \/ r = Other(s)
  BY <1>1, SidesAre
<1>11. ASSUME NEW n \in M, NEW r \in Sides PROVE High(u, f, u.kid[r][n]) = f[n]
  <2>1. CASE n = a
    <3>0. a \in Nodes(t) /\ t.kid[s][a] = p /\ t.kid[Other(s)][a] = uncle /\ s \in Sides
      BY <1>0, <1>1, Zenon
    <3>1. High(t, g, p) = g[a] /\ High(t, g, uncle) = g[a]
      BY <3>0, <1>6, <1>10
    <3>2. High(t, g, p) = g[p] /\ High(t, g, uncle) = g[uncle]
      BY <1>0, <1>1, <1>6, HighIs, ZenonT(150)
    <3>3. High(u, f, p) = g[p] + 1 /\ High(u, f, uncle) = g[uncle] + 1
      BY <1>1, <1>4, <1>7, HighIs DEF Red
    <3>4. High(u, f, p) = f[a] /\ High(u, f, uncle) = f[a]
      BY <1>7, <3>1, <3>2, <3>3
    <3>5. u.kid[r][n] = p \/ u.kid[r][n] = uncle
      BY <1>0, <1>1, <1>4, <1>10, <2>1, Zenon
    <3> QED BY <2>1, <3>4, <3>5
  <2>2. CASE n # a
    <3> DEFINE k == t.kid[r][n]
    <3>1. n \in Nodes(t) /\ n \in Links /\ f[n] = g[n]
      BY <1>1, <1>7, <2>2
    <3>2. k \in Links
      BY <1>1, <3>1 DEF Trees
    <3>3. k \notin M
      <4> SUFFICES ASSUME k # Nil PROVE k \notin M
        BY <1>1
      <4>1. t.parent[k] = n
        BY <3>1, KidIs DEF Tidy
      <4> HIDE DEF k
      <4> QED BY <1>0, <1>1, <2>2, <4>1, ZenonT(60)
    <3>4. u.kid[r][n] = k /\ High(t, g, k) = g[n]
      BY <1>4, <1>6, <3>1
    <3> HIDE DEF k, M
    <3> QED BY <1>9, <3>1, <3>2, <3>3, <3>4
  <2> QED BY <2>1, <2>2
<1>12. Region(t, u, M, a, a)
  <2>1. \A k \in M \ {a} : t.parent[k] \in M /\ k # t.root
    BY <1>0, <1>1, ZenonT(60)
  <2> QED BY <1>1, <1>3, <1>4, <2>1 DEF Region
<1>13. High(u, f, a) = High(t, g, a)
  <2>1. High(t, g, a) = g[a] + 1
    BY <1>1, <1>6, HighIs
  <2>2. High(u, f, a) = f[a]
    BY <1>1, <1>4, <1>7, HighIs DEF Red
  <2> QED BY <1>7, <2>1, <2>2
<1>14. Even(u)
  <2>1. \A n \in Links \ M : f[n] = g[n]
    BY <1>7
  <2> HIDE DEF M
  <2>2. Certified(u, f, Nil, "left")
    <3>1. Nil \in M \cup {Nil} /\ "left" \in Sides
      BY DEF Sides
    <3> QED BY <1>5, <1>7, <1>11, <1>12, <1>13, <2>1, <3>1, Recertify DEF Tidy
  <2> QED BY <2>2 DEF Even
<1>15. Unpaired(u, {a})
  <2> SUFFICES ASSUME NEW n \in Nodes(t), n # a, Red(u, n) PROVE ~Red(u, t.parent[n])
    BY <1>3, <1>4 DEF Unpaired
  <2>1. Red(t, n) /\ n # p /\ n # uncle /\ n \in Links
    BY <1>4, <1>8, SMTT(60) DEF Red
  <2>2. t.parent[n] \in Links /\ t.parent[n] # a
    <3>1. t.parent[n] = a => t.kid[s][a] = n \/ t.kid[Other(s)][a] = n
      <4>1. n # t.root => \E r \in Sides : t.kid[r][t.parent[n]] = n
        BY DEF Tidy, Shape
      <4>2. n = t.root => t.parent[n] = Nil
        BY <1>8, SMTT(60) DEF Tidy, Shape
      <4> QED BY <1>1, <1>10, <4>1, <4>2
    <3> QED BY <1>0, <1>1, <2>1, <3>1, Zenon DEF Trees
  <2>3. n # m => ~Red(t, t.parent[n])
    BY <2>1, <1>0, Zenon DEF Unpaired
  <2> QED BY <1>0, <1>1, <1>4, <2>1, <2>2, <2>3, ZenonT(60) DEF Red
<1>16. Red(u, a) /\ ~Red(u, Nil) /\ (a # u.root => ~Red(u, u.root))
  <2>1. t.root \in Links /\ Nil \in Links
    BY <1>1, LinksAre DEF Trees
  <2> QED BY <1>0, <1>1, <1>4, <2>1, ZenonT(150) DEF Red
<1>17. Rising(u, a)
  BY <1>1, <1>3, <1>14, <1>15, <1>16 DEF Rising
<1> QED BY <1>17, SMTT(60) DEF u

\* A child knows its parent and is no other child.
LEMMA ChildIs ==
  ASSUME NEW t, NEW b, Tidy(t, b), NEW n \in Nodes(t), NEW s \in Sides
  PROVE  /\ \A k \in Nodes(t) : t.parent[k] = n => t.kid[s][n] = k \/ t.kid[Other(s)][n] = k
         /\ t.kid[s][n] \in Links /\ t.kid[s][n] # n /\ (t.kid[s][n] # Nil => t.kid[s][n] \in Nodes(t))
         /\ t.kid[s][n] # Nil => t.parent[t.kid[s][n]] = n /\ t.kid[Other(s)][n] # t.kid[s][n]
                                 /\ t.kid[s][n] # t.root
<1>1. t \in Trees /\ n \in Links /\ n # Nil /\ \A r \in Sides : r = s \/ r = Other(s)
  BY NodeIs, SidesAre DEF Tidy, Shape
<1>2. ASSUME NEW k \in Nodes(t), t.parent[k] = n PROVE t.kid[s][n] = k \/ t.kid[Other(s)][n] = k
  <2>1. k # t.root => \E r \in Sides : t.kid[r][t.parent[k]] = k
    BY DEF Tidy, Shape
  <2>2. k = t.root => t.parent[k] = Nil
    <3>1. k \in Links /\ k # Nil
      BY <1>1, NodeIs
    <3> QED BY <3>1 DEF Tidy, Shape
  <2> QED BY <1>1, <1>2, <2>1, <2>2
<1>3. t.kid[s][n] \in Links
  BY <1>1 DEF Trees
<1>4. ASSUME t.kid[s][n] # Nil
      PROVE  /\ t.kid[s][n] \in Nodes(t) /\ t.kid[s][n] # n
             /\ t.parent[t.kid[s][n]] = n /\ t.kid[s][n] # t.root
  BY <1>4, KidIs DEF Tidy
<1>5. ASSUME t.kid[s][n] # Nil PROVE t.kid[Other(s)][n] # t.kid[s][n]
  <2>1. \A r \in Sides : t.kid[s][n] = t.kid[r][n] => s = r
    BY <1>5, OneSide DEF Tidy
  <2> QED BY <2>1, SidesAre
<1> QED BY <1>1, <1>2, <1>3, <1>4, <1>5

\* With a black uncle a rotation of the grandparent ends the repair of an outer node,
LEMMA OuterRules ==
  ASSUME NEW t, NEW b, Tidy(t, b), NEW m, NEW p, NEW a, NEW s, NEW uncle,
         Trio(t, m, p, a, s, uncle), ~Red(t, uncle), t.kid[s][p] = m
  PROVE  Rising(Rotate(Paint(Paint(t, {p}, "black"), {a}, "red"), a, Other(s)), m)
<1> DEFINE v == Paint(t, {p}, "black")
           w == Paint(v, {a}, "red")
           u == Rotate(w, a, Other(s))
           M == {p, a}
           z == t.kid[Other(s)][p]
           pp == t.parent[a]
           sd == SideOf(w, a)
<1>0. ~Red(t, Nil) /\ Unpaired(t, {m}) /\ Even(t) /\ Red(t, p) /\ Red(t, m) /\ (m # t.root => ~Red(t, t.root))
      /\ p = t.parent[m] /\ a = t.parent[p] /\ uncle = t.kid[Other(s)][a]
  BY DEF Trio, Rising
<1>1. /\ t \in Trees /\ {m, p, a} \subseteq Nodes(t) /\ {m, p, a, uncle} \subseteq Links
      /\ m # p /\ m # a /\ p # a /\ uncle \notin {m, p, a} /\ s \in Sides
      /\ m # Nil /\ p # Nil /\ a # Nil
      /\ m # t.root /\ p # t.root /\ ~Red(t, a) /\ t.parent[a] \in Links
      /\ t.parent[a] \notin {m, p, a}
      /\ t.kid[s][a] = p
      /\ uncle # Nil => uncle \in Nodes(t) /\ t.parent[uncle] = a /\ uncle # t.root
      /\ t.parent[a] # uncle \/ uncle = Nil
  BY TrioIs
<1>2. Painted(t, v, {p}, "black") /\ Painted(v, w, {a}, "red")
  BY <1>1, PaintIs DEF Painted
<1>3. Tidy(w, b) /\ Nodes(w) = Nodes(t)
  BY PaintShape DEF Tidy
<1>4. Other(s) \in Sides /\ Other(s) # s /\ Other(Other(s)) = s /\ \A r \in Sides : r = s \/ r = Other(s)
  BY <1>1, SidesAre
<1>5. /\ z \in Links /\ z # p /\ (z # Nil => z \in Nodes(t) /\ t.parent[z] = p /\ z # m)
      /\ \A k \in Nodes(t) : t.parent[k] = p => k = m \/ k = z
      /\ \A k \in Nodes(t) : t.parent[k] = a => k = p \/ k = uncle
  <2>1. \A k \in Nodes(t) : t.parent[k] = p => t.kid[s][p] = k \/ t.kid[Other(s)][p] = k
    BY <1>1, ChildIs
  <2>2. \A k \in Nodes(t) : t.parent[k] = a => t.kid[s][a] = k \/ t.kid[Other(s)][a] = k
    BY <1>1, ChildIs
  <2>3. /\ z \in Links /\ z # p
        /\ z # Nil => z \in Nodes(t) /\ t.parent[z] = p /\ t.kid[Other(Other(s))][p] # z
    BY <1>1, <1>4, ChildIs
  <2> QED BY <1>0, <1>1, <1>4, <2>1, <2>2, <2>3, Zenon
<1>6. z # a /\ ~Red(t, z)
  <2>1. ASSUME z # Nil PROVE ~Red(t, z)
    <3>1. z \in Nodes(t) /\ z # m /\ t.parent[z] = p
      BY <1>5, <2>1, Zenon
    <3>2. Unpaired(t, {m}) /\ Red(t, p)
      BY <1>0, Zenon
    <3> HIDE DEF z
    <3> QED BY <3>1, <3>2 DEF Unpaired
  <2> QED BY <1>0, <1>1, <1>5, <2>1, ZenonT(60)
<1>7. /\ w \in Trees /\ w.root = t.root /\ w.kid = t.kid /\ w.parent = t.parent
      /\ \A n \in Links : w.color[n] = IF n = a THEN "red" ELSE IF n = p THEN "black" ELSE t.color[n]
  BY <1>2 DEF Painted
<1>8. Turned(w, u, a, Other(s), p, z, pp, sd) /\ Nodes(u) = Nodes(t)
  <2>1. Shape(w, b, Own) /\ a \in Nodes(w) /\ p = w.kid[Other(Other(s))][a] /\ z = w.kid[Other(s)][p]
        /\ pp = w.parent[a]
    BY <1>1, <1>3, <1>4, <1>7 DEF Tidy
  <2> HIDE DEF w, z, pp
  <2>2. Turned(w, u, a, Other(s), p, z, pp, sd)
    BY <1>1, <1>4, <2>1, RotateIs
  <2>3. Nodes(u) = Nodes(w)
    BY <1>1, <1>4, <2>1, RotateShape
  <2> QED BY <1>3, <2>2, <2>3
<1> HIDE DEF u, v, w, sd, z, pp
<1>9. /\ u \in Trees /\ u.root = IF pp = Nil THEN p ELSE t.root
      /\ u.kid[s][a] = z /\ u.kid[Other(s)][a] = uncle
      /\ u.kid[s][p] = m /\ u.kid[Other(s)][p] = a
      /\ \A n \in Links, r \in Sides : n \notin M =>
           u.kid[r][n] = IF n = pp /\ pp # Nil /\ r = sd THEN p ELSE t.kid[r][n]
      /\ \A n \in Links :
           /\ u.parent[n] = IF n = z /\ z # Nil THEN a ELSE IF n = a THEN p ELSE IF n = p THEN pp
                            ELSE t.parent[n]
           /\ u.color[n] = IF n = a THEN "red" ELSE IF n = p THEN "black" ELSE t.color[n]
  <2>1. pp # a /\ pp # p /\ pp \in Links
    BY <1>1 DEF pp
  <2>2. \A n \in Links, r \in Sides :
          u.kid[r][n] = IF n = a /\ r = s THEN z
                        ELSE IF n = p /\ r = Other(s) THEN a
                        ELSE IF n = pp /\ pp # Nil /\ r = sd THEN p
                        ELSE t.kid[r][n]
    <3>1. \A n \in Links, r \in Sides :
            u.kid[r][n] = IF n = a /\ r = Other(Other(s)) THEN z
                          ELSE IF n = p /\ r = Other(s) THEN a
                          ELSE IF n = pp /\ pp # Nil /\ r = sd THEN p
                          ELSE w.kid[r][n]
      BY <1>8, Zenon DEF Turned
    <3>2. Other(Other(s)) = s /\ w.kid = t.kid
      BY <1>4, <1>7, Zenon
    <3> QED BY <3>1, <3>2
  <2>3. /\ u.kid[s][a] = z /\ u.kid[Other(s)][a] = uncle
        /\ u.kid[s][p] = m /\ u.kid[Other(s)][p] = a
    BY <1>0, <1>1, <1>4, <2>1, <2>2, ZenonT(60)
  <2>4. u \in Trees /\ (u.root = IF pp = Nil THEN p ELSE t.root) /\ u.color = w.color
    BY <1>7, <1>8 DEF Turned
  <2>5. \A n \in Links : u.parent[n] = IF n = z /\ z # Nil THEN a ELSE IF n = a THEN p
                                       ELSE IF n = p THEN pp ELSE t.parent[n]
    BY <1>7, <1>8 DEF Turned
  <2> QED BY <1>7, <2>2, <2>3, <2>4, <2>5
<1>10. PICK g : Certified(t, g, Nil, "left")
  BY <1>0, Zenon DEF Even
<1>11. /\ g \in [Links -> Nat] /\ \A n \in Nodes(t) : g[n] \in Nat
       /\ \A n \in Nodes(t), r \in Sides : High(t, g, t.kid[r][n]) = g[n]
  BY <1>1, <1>10, EvenIs
<1>12. \A n \in Links \ M : High(u, g, n) = High(t, g, n)
  BY <1>9, HighSame
<1>13. /\ High(u, g, m) = g[p] /\ High(u, g, z) = g[p] /\ High(u, g, uncle) = g[a]
       /\ g[p] = g[a] /\ High(u, g, a) = g[a] /\ High(u, g, p) = High(t, g, a)
  <2>1. High(t, g, m) = g[p] /\ High(t, g, z) = g[p] /\ High(t, g, uncle) = g[a] /\ High(t, g, p) = g[a]
    <3>1. /\ m = t.kid[s][p] /\ z = t.kid[Other(s)][p] /\ p = t.kid[s][a] /\ uncle = t.kid[Other(s)][a]
          /\ p \in Nodes(t) /\ a \in Nodes(t) /\ s \in Sides
      BY <1>0, <1>1, Zenon DEF z
    <3> QED BY <1>4, <1>11, <3>1, Zenon
  <2>2. High(t, g, p) = g[p] /\ High(t, g, a) = g[a] + 1
    <3>1. p \in Links /\ p # Nil /\ a \in Links /\ a # Nil /\ Red(t, p) /\ ~Red(t, a)
      BY <1>0, <1>1, Zenon
    <3>2. t \in Trees /\ g \in [Links -> Nat]
      BY <1>1, <1>11, Zenon
    <3> QED BY <3>1, <3>2, HighIs
  <2>3. High(u, g, a) = g[a] /\ High(u, g, p) = g[p] + 1
    BY <1>1, <1>9, <1>11, HighIs DEF Red
  <2>4. m \notin M /\ z \notin M /\ uncle \notin M
    BY <1>1, <1>5, <1>6
  <2> QED BY <1>1, <1>5, <1>12, <2>1, <2>2, <2>3, <2>4, ZenonT(60)
<1>14. ASSUME NEW n \in M, NEW r \in Sides PROVE High(u, g, u.kid[r][n]) = g[n]
  BY <1>4, <1>9, <1>13, <1>14
<1>15. Region(t, u, M, a, p)
  <2>1. \A k \in M \ {a} : t.parent[k] \in M /\ k # t.root
    BY <1>0, <1>1, Zenon
  <2>2. ASSUME NEW n \in Nodes(t) \ M, NEW r \in Sides
        PROVE  u.kid[r][n] = IF t.kid[r][n] = a THEN p ELSE t.kid[r][n]
    <3>1. n \in Links /\ n # Nil
      BY <1>1, NodeIs
    <3>2. sd = SideOf(t, a)
      BY <1>7 DEF sd, SideOf
    <3>3. t.kid[r][n] = a <=> n = pp /\ r = sd
      <4>1. t.kid[r][n] = a => n = pp
        BY <1>1, KidIs DEF Tidy, pp
      <4>2. n = pp => a # t.root
        <5>1. a = t.root => t.parent[a] = Nil
          BY <1>1, ParentIs DEF Tidy
        <5> QED BY <3>1, <5>1 DEF pp
      <4>3. a # t.root => t.kid[sd][pp] = a /\ \A q \in Sides : t.kid[q][pp] = a => q = sd
        BY <1>1, <3>2, ParentIs DEF Tidy, pp
      <4> QED BY <4>1, <4>2, <4>3
    <3> QED BY <1>9, <3>1, <3>3
  <2> QED BY <1>1, <1>8, <1>9, <2>1, <2>2, SMTT(60) DEF Region
<1>16. Even(u)
  <2>1. \A n \in Links \ M : g[n] = g[n]
    OBVIOUS
  <2> HIDE DEF M
  <2>2. Certified(u, g, Nil, "left")
    <3>1. Nil \in M \cup {Nil} /\ "left" \in Sides
      BY DEF Sides
    <3> QED BY <1>10, <1>11, <1>13, <1>14, <1>15, <2>1, <3>1, Recertify DEF Tidy
  <2> QED BY <2>2 DEF Even
<1>17. Unpaired(u, {m})
  <2> SUFFICES ASSUME NEW n \in Nodes(t), n # m, Red(u, n) PROVE ~Red(u, u.parent[n])
    BY <1>8 DEF Unpaired
  <2>0. n \in Links /\ n # Nil
    BY <1>1, NodeIs
  <2>1. n # p
    BY <1>1, <1>9 DEF Red
  <2>2. CASE n = a
    BY <1>1, <1>5, <1>6, <1>9, <2>2 DEF Red
  <2>3. CASE n # a
    <3>1. Red(t, n) /\ n # z
      BY <1>6, <1>9, <2>0, <2>1, <2>3 DEF Red
    <3>2. u.parent[n] = t.parent[n] /\ t.parent[n] \in Links /\ t.parent[n] # a
      BY <1>0, <1>1, <1>5, <1>9, <2>0, <2>1, <2>3, <3>1, ZenonT(150) DEF Trees
    <3>3. ~Red(t, t.parent[n])
      BY <1>0, <3>1, Zenon DEF Unpaired
    <3> QED BY <1>9, <3>2, <3>3 DEF Red
  <2> QED BY <2>2, <2>3
<1>18. Red(u, m) /\ ~Red(u, Nil) /\ ~Red(u, u.root)
  <2>1. t.root \in Links /\ Nil \in Links
    BY <1>1, LinksAre DEF Trees
  <2>2. pp # Nil => t.root # a
    BY <1>1, ParentIs DEF Tidy, pp
  <2> QED BY <1>0, <1>1, <1>9, <2>1, <2>2, ZenonT(150) DEF Red
<1>19. Rising(u, m)
  BY <1>1, <1>8, <1>16, <1>17, <1>18 DEF Rising
<1> QED BY <1>19 DEF u, w, v

\* and an inner node becomes an outer one by a rotation of its parent (rbtree.c:72-104).
LEMMA InnerRules ==
  ASSUME NEW t, NEW b, Tidy(t, b), NEW m, NEW p, NEW a, NEW s, NEW uncle,
         Trio(t, m, p, a, s, uncle), ~Red(t, uncle), t.kid[Other(s)][p] = m
  PROVE  /\ \E c : Tidy(Rotate(t, p, s), c)
         /\ Trio(Rotate(t, p, s), p, m, a, s, uncle) /\ ~Red(Rotate(t, p, s), uncle)
         /\ Rotate(t, p, s).kid[s][m] = p
<1> DEFINE u == Rotate(t, p, s)
           M == {p, m}
           z == t.kid[s][m]
<1>0. ~Red(t, Nil) /\ Unpaired(t, {m}) /\ Even(t) /\ Red(t, p) /\ Red(t, m) /\ (m # t.root => ~Red(t, t.root))
      /\ p = t.parent[m] /\ a = t.parent[p] /\ uncle = t.kid[Other(s)][a] /\ s = SideOf(t, p)
  BY DEF Trio, Rising
<1>1. /\ t \in Trees /\ {m, p, a} \subseteq Nodes(t) /\ {m, p, a, uncle} \subseteq Links
      /\ m # p /\ m # a /\ p # a /\ uncle \notin {m, p, a} /\ s \in Sides
      /\ m # Nil /\ p # Nil /\ a # Nil
      /\ m # t.root /\ p # t.root /\ ~Red(t, a) /\ t.parent[a] \in Links
      /\ t.parent[a] \notin {m, p, a}
      /\ t.kid[s][a] = p
      /\ uncle # Nil => uncle \in Nodes(t) /\ t.parent[uncle] = a /\ uncle # t.root
      /\ t.parent[a] # uncle \/ uncle = Nil
  BY TrioIs
<1>2. Other(s) \in Sides /\ Other(s) # s /\ Other(Other(s)) = s /\ \A r \in Sides : r = s \/ r = Other(s)
  BY <1>1, SidesAre
<1>3. z \in Links /\ z # m /\ (z # Nil => z \in Nodes(t) /\ t.parent[z] = m)
  BY <1>1, ChildIs
<1>4. z # a /\ z # p /\ ~Red(t, z)
  <2>1. z # Nil => ~Red(t, z)
    BY <1>0, <1>3, Zenon DEF Unpaired
  <2>2. z = a => FALSE
    BY <1>1, <1>3, SMTT(60)
  <2> QED BY <1>0, <1>1, <1>3, <2>1, <2>2, ZenonT(60)
<1>5. Turned(t, u, p, s, m, z, a, s) /\ Nodes(u) = Nodes(t) /\ \E c : Tidy(u, c)
  <2>1. Shape(t, b, Own) /\ p \in Nodes(t) /\ m = t.kid[Other(s)][p] /\ z = t.kid[s][m] /\ a = t.parent[p]
        /\ t.kid[Other(s)][p] # Nil
    BY <1>0, <1>1, Zenon DEF Tidy
  <2> HIDE DEF z
  <2>2. Turned(t, u, p, s, m, z, a, SideOf(t, p))
    BY <1>1, <2>1, RotateIs
  <2>3. Nodes(u) = Nodes(t) /\ \E c : Shape(u, c, Own)
    BY <1>1, <2>1, RotateShape
  <2> QED BY <1>0, <2>2, <2>3, Zenon DEF Tidy
<1> HIDE DEF u, z
<1>6. \A n \in Links, r \in Sides :
        u.kid[r][n] = IF n = p /\ r = Other(s) THEN z
                      ELSE IF n = m /\ r = s THEN p
                      ELSE IF n = a /\ a # Nil /\ r = s THEN m
                      ELSE t.kid[r][n]
  BY <1>5 DEF Turned
<1>7. /\ u \in Trees /\ u.root = t.root /\ u.color = t.color
      /\ \A n \in Links : u.parent[n] = IF n = z /\ z # Nil THEN p ELSE IF n = p THEN m
                                        ELSE IF n = m THEN a ELSE t.parent[n]
  BY <1>1, <1>5 DEF Turned
<1>8. /\ u.kid[Other(s)][p] = z /\ u.kid[s][p] = t.kid[s][p] /\ u.kid[s][m] = p
      /\ u.kid[Other(s)][m] = t.kid[Other(s)][m] /\ u.kid[s][a] = m /\ u.kid[Other(s)][a] = uncle
  BY <1>0, <1>1, <1>2, <1>6, ZenonT(150)
<1>9. PICK g : Certified(t, g, Nil, "left")
  BY <1>0, Zenon DEF Even
<1>10. /\ g \in [Links -> Nat] /\ \A n \in Nodes(t) : g[n] \in Nat
       /\ \A n \in Nodes(t), r \in Sides : High(t, g, t.kid[r][n]) = g[n]
  BY <1>1, <1>9, EvenIs
<1>11. \A n \in Links : High(u, g, n) = High(t, g, n)
  BY <1>7, HighSame
<1>12. /\ High(u, g, p) = g[m] /\ High(u, g, z) = g[p] /\ High(u, g, m) = High(t, g, p)
       /\ High(u, g, t.kid[s][p]) = g[p] /\ High(u, g, t.kid[Other(s)][m]) = g[m]
  <2>1. High(t, g, m) = g[p] /\ High(t, g, z) = g[m]
        /\ High(t, g, t.kid[s][p]) = g[p] /\ High(t, g, t.kid[Other(s)][m]) = g[m]
    <3>1. /\ m = t.kid[Other(s)][p] /\ z = t.kid[s][m] /\ p \in Nodes(t) /\ m \in Nodes(t) /\ s \in Sides
      BY <1>0, <1>1, Zenon DEF z
    <3> QED BY <1>2, <1>10, <3>1, Zenon
  <2>2. High(t, g, p) = g[p] /\ High(t, g, m) = g[m]
    <3>1. p \in Links /\ p # Nil /\ m \in Links /\ m # Nil /\ Red(t, p) /\ Red(t, m)
      BY <1>0, <1>1, Zenon
    <3>2. t \in Trees /\ g \in [Links -> Nat]
      BY <1>1, <1>10, Zenon
    <3> QED BY <3>1, <3>2, HighIs
  <2>3. t.kid[s][p] \in Links /\ t.kid[Other(s)][m] \in Links
    BY <1>1, <1>2, ChildIs
  <2> QED BY <1>1, <1>3, <1>11, <2>1, <2>2, <2>3
<1>13. ASSUME NEW n \in M, NEW r \in Sides PROVE High(u, g, u.kid[r][n]) = g[n]
  BY <1>2, <1>8, <1>12, <1>13
<1>14. Region(t, u, M, p, m)
  <2>1. \A k \in M \ {p} : t.parent[k] \in M /\ k # t.root
    BY <1>0, <1>1, Zenon
  <2>2. ASSUME NEW n \in Nodes(t) \ M, NEW r \in Sides
        PROVE  u.kid[r][n] = IF t.kid[r][n] = p THEN m ELSE t.kid[r][n]
    <3>1. n \in Links /\ n # Nil
      BY <1>1, NodeIs
    <3>2. t.kid[r][n] = p <=> n = a /\ r = s
      <4>0. Shape(t, b, Own) /\ p \in Nodes(t) /\ p # t.root /\ t.parent[p] = a /\ SideOf(t, p) = s
        BY <1>0, <1>1, Zenon DEF Tidy
      <4>1. ASSUME t.kid[r][n] = p PROVE n = a
        <5>1. t.kid[r][n] # Nil
          BY <1>1, <4>1
        <5>2. t.parent[t.kid[r][n]] = n
          BY <4>0, <5>1, KidIs
        <5> QED BY <4>0, <4>1, <5>2
      <4>2. t.kid[s][a] = p /\ \A q \in Sides : t.kid[q][a] = p => q = s
        BY <4>0, ParentIs
      <4> QED BY <4>1, <4>2, SMTT(60)
    <3> QED BY <1>1, <1>6, <3>1, <3>2
  <2> QED BY <1>0, <1>1, <1>5, <1>7, <2>1, <2>2, ZenonT(60) DEF Region
<1>15. Even(u)
  <2>1. \A n \in Links \ M : g[n] = g[n]
    OBVIOUS
  <2> HIDE DEF M
  <2>2. Certified(u, g, Nil, "left")
    <3>1. Nil \in M \cup {Nil} /\ "left" \in Sides
      BY DEF Sides
    <3> QED BY <1>9, <1>10, <1>12, <1>13, <1>14, <2>1, <3>1, Recertify DEF Tidy
  <2> QED BY <2>2 DEF Even
<1>16. Unpaired(u, {p})
  <2> SUFFICES ASSUME NEW n \in Nodes(t), n # p, Red(t, n) PROVE ~Red(t, u.parent[n])
    BY <1>5, <1>7 DEF Unpaired, Red
  <2>0. n \in Links /\ n # Nil
    BY <1>1, NodeIs
  <2>1. n # z
    BY <1>4, SMTT(60)
  <2>2. n # m => ~Red(t, t.parent[n])
    BY <1>0, Zenon DEF Unpaired
  <2> QED BY <1>1, <1>7, <2>0, <2>1, <2>2
<1>17. Rising(u, p) /\ ~Red(u, uncle)
  <2>1. Red(u, p) /\ ~Red(u, Nil) /\ ~Red(u, u.root) /\ ~Red(u, uncle)
    BY <1>0, <1>1, <1>7, ZenonT(60) DEF Red
  <2> QED BY <1>1, <1>5, <1>15, <1>16, <2>1 DEF Rising
<1>18. m = u.parent[p] /\ Red(u, m) /\ a = u.parent[m]
  BY <1>0, <1>1, <1>3, <1>4, <1>7, ZenonT(60) DEF Red
<1>19. s = SideOf(u, m)
  BY <1>1, <1>2, <1>8, <1>18, ZenonT(60) DEF SideOf, Sides
<1>20. Trio(u, p, m, a, s, uncle)
  BY <1>8, <1>17, <1>18, <1>19, Zenon DEF Trio
<1> QED BY <1>5, <1>8, <1>17, <1>20 DEF u

\* One turn of _adjustAfterInsert.
LEMMA RepairInsertRules ==
  ASSUME TreeInv, Rising(tree, cur), RepairInsert PROVE Rising(tree', cur') /\ pc' = "insert"
<1> DEFINE p == tree.parent[cur]
           g == tree.parent[p]
           s == SideOf(tree, p)
           uncle == tree.kid[Other(s)][g]
           inner == cur = tree.kid[Other(s)][p]
           m == IF inner THEN p ELSE cur
           t == IF inner THEN Rotate(tree, p, s) ELSE tree
           pm == t.parent[m]
           u == Paint(t, {pm}, "black")
           w == Paint(u, {u.parent[pm]}, "red")
<1>1. PICK b : Tidy(tree, b)
  BY DEF TreeInv, Alike
<1>2. /\ pc = "insert" /\ Red(tree, p) /\ pc' = pc
      /\ IF Red(tree, uncle) THEN tree' = MoveDown(tree, uncle, p, g) /\ cur' = g
         ELSE tree' = Rotate(w, u.parent[pm], Other(s)) /\ cur' = m
  BY Zenon DEF RepairInsert, SideOf
<1>3. Trio(tree, cur, p, g, s, uncle)
  BY <1>2, Zenon DEF Trio
<1> HIDE DEF s, p, g, uncle
<1>4. CASE Red(tree, uncle)
  <2>1. Rising(MoveDown(tree, uncle, p, g), g)
    BY <1>1, <1>3, <1>4, MoveDownRules
  <2> QED BY <1>2, <1>4, <2>1
<1>5. ASSUME NEW x, NEW c, Tidy(x, c), NEW n, NEW q, Trio(x, n, q, g, s, uncle), ~Red(x, uncle),
             x.kid[s][q] = n
      PROVE  LET y == Paint(x, {x.parent[n]}, "black")
                 z == Paint(y, {y.parent[x.parent[n]]}, "red")
             IN  Rising(Rotate(z, y.parent[x.parent[n]], Other(s)), n)
  <2>1. q = x.parent[n] /\ g = x.parent[q] /\ x \in Trees
    BY <1>5, Zenon DEF Trio, Tidy, Shape
  <2>2. Painted(x, Paint(x, {q}, "black"), {q}, "black")
    BY <2>1, PaintIs
  <2>3. Paint(x, {q}, "black").parent[q] = g
    BY <2>1, <2>2 DEF Painted
  <2>4. Rising(Rotate(Paint(Paint(x, {q}, "black"), {g}, "red"), g, Other(s)), n)
    BY <1>5, OuterRules
  <2> QED BY <2>1, <2>3, <2>4
<1>6. CASE ~Red(tree, uncle) /\ inner
  <2>1. m = p /\ t = Rotate(tree, p, s)
    BY <1>6
  <2>2. /\ \E c : Tidy(t, c)
        /\ Trio(t, m, cur, g, s, uncle) /\ ~Red(t, uncle) /\ t.kid[s][cur] = m
    BY <1>1, <1>3, <1>6, <2>1, InnerRules
  <2> HIDE DEF t, m, inner
  <2>3. Rising(Rotate(w, u.parent[pm], Other(s)), m)
    BY <1>5, <2>2
  <2> QED BY <1>2, <1>6, <2>3
<1>7. CASE ~Red(tree, uncle) /\ ~inner
  <2>1. m = cur /\ t = tree
    BY <1>7
  <2>2. tree.kid[s][p] = cur
    <3>1. p \in Nodes(tree) /\ cur \in Nodes(tree) /\ s \in Sides /\ tree.parent[cur] = p
      BY <1>1, <1>3, TrioIs DEF p
    <3> QED BY <1>1, <1>7, <3>1, ChildIs
  <2>3. Trio(t, m, p, g, s, uncle) /\ ~Red(t, uncle) /\ t.kid[s][p] = m /\ Tidy(t, b)
    BY <1>1, <1>3, <1>7, <2>1, <2>2
  <2> HIDE DEF t, m, inner
  <2>4. Rising(Rotate(w, u.parent[pm], Other(s)), m)
    BY <1>5, <2>3
  <2> QED BY <1>2, <1>7, <2>4
<1> QED BY <1>2, <1>4, <1>6, <1>7, Zenon
Calm(t) == Even(t) /\ Unpaired(t, {}) /\ ~Red(t, t.root) /\ ~Red(t, Nil)

\* The end of _adjustAfterInsert: the root is black again (rbtree.c:106).
LEMMA EndInsertRules ==
  ASSUME TreeInv, Rising(tree, cur), EndInsert PROVE Calm(tree') /\ pc' = "idle"
<1>1. PICK b : Tidy(tree, b)
  BY DEF TreeInv, Alike
<1>2. /\ tree' = Paint(tree, {tree.root}, "black") /\ pc' = "idle" /\ ~Red(tree, tree.parent[cur])
  BY DEF EndInsert
<1>3. tree \in Trees /\ tree.root \in Links /\ Nil \in Links
      /\ \A n \in Nodes(tree) : n \in Links /\ n # Nil /\ tree.parent[n] \in Links
  BY <1>1, NodeIs, LinksAre DEF Tidy, Shape, Trees
<1>4. Painted(tree, tree', {tree.root}, "black")
  BY <1>2, <1>3, PaintIs
<1>5. Nodes(tree') = Nodes(tree)
  BY <1>1, <1>2, PaintShape DEF Tidy
<1>6. PICK g : Certified(tree, g, Nil, "left")
  BY DEF Rising, Even
<1>7. ASSUME NEW n \in Nodes(tree), NEW r \in Sides
      PROVE  High(tree', g, tree'.kid[r][n]) = g[n]
  <2> DEFINE k == tree.kid[r][n]
  <2>1. k \in Links /\ (k # Nil => k # tree.root)
    BY <1>1, ChildIs
  <2>2. High(tree, g, k) = g[n]
    BY <1>3, <1>6 DEF Certified
  <2>3. tree'.kid[r][n] = k
    BY <1>4 DEF Painted
  <2> HIDE DEF k
  <2>4. k # Nil => High(tree', g, k) = High(tree, g, k)
    BY <1>4, <2>1, HighSame DEF Painted
  <2>5. High(tree', g, Nil) = High(tree, g, Nil)
    BY DEF High
  <2> QED BY <2>2, <2>3, <2>4, <2>5
<1>8. Even(tree')
  <2>1. Certified(tree', g, Nil, "left")
    BY <1>3, <1>5, <1>6, <1>7 DEF Certified
  <2> QED BY <2>1 DEF Even
<1>9. Unpaired(tree', {})
  <2> SUFFICES ASSUME NEW n \in Nodes(tree), Red(tree', n) PROVE ~Red(tree', tree'.parent[n])
    BY <1>5 DEF Unpaired
  <2>1. Red(tree, n) /\ tree'.parent[n] = tree.parent[n]
    BY <1>3, <1>4 DEF Painted, Red
  <2>2. ~Red(tree, tree.parent[n])
    BY <1>2, <2>1 DEF Rising, Unpaired
  <2> QED BY <1>3, <1>4, <2>1, <2>2 DEF Painted, Red
<1>10. ~Red(tree', tree'.root) /\ ~Red(tree', Nil)
  BY <1>3, <1>4 DEF Painted, Red, Rising
<1> QED BY <1>2, <1>8, <1>9, <1>10 DEF Calm
-----------------------------------------------------------------------------
(* The colors during a deletion                                            *)

\* The paths to m have one black node too few.
Sinking(t, m) ==
  /\ m \in Nodes(t) \cup {Nil} /\ ~Red(t, m) /\ ~Red(t, Nil) /\ ~Red(t, t.root) /\ Unpaired(t, {})
  /\ t.parent[m] = Nil <=> m = t.root
  /\ \E s \in Sides : /\ m # t.root => t.parent[m] \in Nodes(t) /\ t.kid[s][t.parent[m]] = m
                      /\ \E g : Certified(t, g, t.parent[m], s)

\* The rules do not depend on the parent of nil.
LEMMA SettledRules == ASSUME NEW t, NEW b, Tidy(t, b), Calm(t) PROVE Calm(Settled(t))
<1> DEFINE u == Settled(t)
<1>1. t \in Trees /\ Nil \in Links
  BY LinksAre DEF Tidy, Shape
<1>2. /\ u.root = t.root /\ u.kid = t.kid /\ u.color = t.color
      /\ \A m \in Links : u.parent[m] = IF m = Nil THEN Nil ELSE t.parent[m]
  BY <1>1, SetParentIs DEF Settled
<1>3. Nodes(u) = Nodes(t)
  BY SettledShape DEF Tidy
<1> HIDE DEF u
<1>4. Even(u)
  BY <1>2, <1>3 DEF Even, Certified, High, Red, Calm
<1>5. Unpaired(u, {})
  <2>1. \A n \in Nodes(t) : u.parent[n] = t.parent[n]
    BY <1>1, <1>2, NodeIs
  <2> QED BY <1>2, <1>3, <2>1 DEF Unpaired, Red, Calm
<1> QED BY <1>2, <1>4, <1>5 DEF Calm, Red, u

\* The exchange of two keys keeps the rules: the colors stay at their places.
LEMMA SwapRules ==
  ASSUME NEW t, NEW b, Tidy(t, b), Calm(t), NEW k \in Nodes(t), NEW a \in Nodes(t)
  PROVE  Calm(Swap(t, k, a))
<1> DEFINE to == Exchange(k, a)
           u == Swap(t, k, a)
<1>1. /\ t \in Trees /\ k \in Links /\ a \in Links /\ k # Nil /\ a # Nil /\ Nil \in Links /\ t.root \in Links
      /\ \A n \in Nodes(t) : n \in Links
  BY NodeIs, LinksAre DEF Tidy, Shape, Trees
<1>2. /\ to[k] = a /\ to[a] = k
      /\ \A n \in Links : to[n] \in Links /\ to[to[n]] = n /\ (n # k /\ n # a => to[n] = n)
  BY <1>1, ExchangeIs
<1>3. Swapped(t, u, to)
  BY <1>1, SwapIs
<1>4. Nodes(u) = Nodes(t)
  BY SwapShape
<1> HIDE DEF to, u
<1>5. to[Nil] = Nil /\ \A n \in Links : n # Nil => to[n] # Nil
  BY <1>1, <1>2
<1>6. \A n \in Nodes(t) : to[n] \in Nodes(t)
  BY <1>1, <1>2
<1>7. \A n \in Links : Red(u, n) <=> Red(t, to[n])
  BY <1>3 DEF Swapped, Red
<1>8. \A n \in Links : Red(u, to[n]) <=> Red(t, n)
  BY <1>2, <1>7
<1>9. PICK g : Certified(t, g, Nil, "left")
  BY DEF Calm, Even
<1>10. /\ g \in [Links -> Nat] /\ \A n \in Nodes(t) : g[n] \in Nat
       /\ \A n \in Nodes(t), r \in Sides : High(t, g, t.kid[r][n]) = g[n]
  BY <1>1, <1>9, EvenIs
<1> DEFINE f == [n \in Links |-> g[to[n]]]
<1>11. f \in [Links -> Nat] /\ \A n \in Links : f[n] = g[to[n]]
  BY <1>2, <1>10
<1> HIDE DEF f
<1>12. \A n \in Links : High(u, f, to[n]) = High(t, g, n)
  <2> SUFFICES ASSUME NEW n \in Links PROVE High(u, f, to[n]) = High(t, g, n)
    OBVIOUS
  <2>1. f[to[n]] = g[n] /\ (to[n] = Nil <=> n = Nil)
    BY <1>2, <1>5, <1>11
  <2>2. Red(u, to[n]) <=> Red(t, n)
    BY <1>8
  <2> QED BY <2>1, <2>2 DEF High
<1>13. Even(u)
  <2>1. ASSUME NEW n \in Nodes(t), NEW r \in Sides PROVE High(u, f, u.kid[r][n]) = f[n]
    <3>1. u.kid[r][n] = to[t.kid[r][to[n]]]
      BY <1>1, <1>3 DEF Swapped
    <3>2. t.kid[r][to[n]] \in Links /\ High(t, g, t.kid[r][to[n]]) = g[to[n]]
      BY <1>1, <1>2, <1>6, <1>10 DEF Trees
    <3> QED BY <1>1, <1>11, <1>12, <3>1, <3>2
  <2>2. Certified(u, f, Nil, "left")
    BY <1>1, <1>4, <1>11, <2>1, NodeIs DEF Certified
  <2> QED BY <2>2 DEF Even
<1>14. Unpaired(u, {})
  <2> SUFFICES ASSUME NEW n \in Nodes(t), Red(u, n) PROVE ~Red(u, u.parent[n])
    BY <1>4 DEF Unpaired
  <2>1. to[n] \in Nodes(t) /\ Red(t, to[n]) /\ u.parent[n] = to[t.parent[to[n]]]
    BY <1>1, <1>3, <1>6, <1>7 DEF Swapped
  <2>2. ~Red(t, t.parent[to[n]]) /\ t.parent[to[n]] \in Links
    BY <1>1, <2>1, NodeIs DEF Calm, Unpaired
  <2> QED BY <1>8, <2>1, <2>2
<1>15. ~Red(u, u.root) /\ ~Red(u, Nil)
  <2>1. u.root = to[t.root]
    BY <1>3 DEF Swapped
  <2> QED BY <1>1, <1>5, <1>8, <2>1 DEF Calm
<1> QED BY <1>13, <1>14, <1>15 DEF Calm, u

\* When a black node leaves without a red child, the paths to its heir lack one black node.
LEMMA SpliceRules ==
  ASSUME NEW t, NEW b, NEW v, Shape(t, b, v), Calm(t), t.root # Nil, NEW k \in Nodes(t),
         \E s \in Sides : t.kid[s][k] = Nil,
         Nodes(Splice(t, k)) = Nodes(t) \ {k}
  PROVE  IF Heir(t, k) = Nil /\ ~Red(t, k) THEN Sinking(Splice(t, k), Nil) ELSE Calm(Splice(t, k))
<1> DEFINE u == Splice(t, k)
           h == Heir(t, k)
           p == t.parent[k]
           sd == SideOf(t, k)
<1>1. /\ t \in Trees /\ k \in Links /\ k # Nil /\ h \in Links /\ p \in Links
      /\ h # k /\ p # k /\ (p # Nil => p # h)
      /\ h # Nil => /\ h \in Nodes(t) /\ h # t.root /\ t.parent[h] = k
                    /\ \E s \in Sides : t.kid[s][k] = h
      /\ h = Nil => \A s \in Sides : t.kid[s][k] = Nil
  BY AboutIs
<1>2. /\ p = Nil <=> k = t.root
      /\ k # t.root => p \in Nodes(t) /\ t.kid[sd][p] = k /\ \A s \in Sides : t.kid[s][p] = k => s = sd
      /\ sd \in Sides
  BY ParentIs
<1> HIDE DEF h, p, sd
<1>3. Spliced(t, u, k, h, p, sd)
  BY <1>1, <1>2, SpliceIs DEF h, p, sd
<1>4. Nodes(u) = Nodes(t) \ {k}
  OBVIOUS
<1> HIDE DEF u
<1>5. PICK g : Certified(t, g, Nil, "left")
  BY DEF Calm, Even
<1>6. /\ g \in [Links -> Nat] /\ \A n \in Nodes(t) : g[n] \in Nat /\ n \in Links /\ n # Nil
      /\ \A n \in Nodes(t), r \in Sides : High(t, g, t.kid[r][n]) = g[n]
  BY <1>1, <1>5, EvenIs, NodeIs
<1>7. g[k] = 0
  BY <1>6 DEF High
<1>8. \A n \in Links : n # k /\ n # h => High(u, g, n) = High(t, g, n)
  BY <1>3, HighSame DEF Spliced
<1>9. h # Nil => High(u, g, h) = 1 /\ Red(t, h) /\ ~Red(t, k)
  <2> SUFFICES ASSUME h # Nil PROVE High(u, g, h) = 1 /\ Red(t, h) /\ ~Red(t, k)
    OBVIOUS
  <2>1. High(t, g, h) = 0
    BY <1>1, <1>6, <1>7
  <2>2. g[h] = 0 /\ Red(t, h)
    <3>1. g[h] \in Nat
      BY <1>1, <1>6
    <3> QED BY <2>1, <3>1 DEF High
  <2>3. ~Red(t, k)
    BY <1>1, <2>2 DEF Calm, Unpaired
  <2>4. ~Red(u, h)
    BY <1>1, <1>3 DEF Spliced, Red
  <2> QED BY <2>2, <2>3, <2>4 DEF High
<1>10. High(u, g, Nil) = 0 /\ High(t, g, Nil) = 0 /\ High(t, g, k) = IF Red(t, k) THEN 0 ELSE 1
  BY <1>1, <1>7 DEF High
<1>11. High(u, g, h) = IF h = Nil /\ ~Red(t, k) THEN High(t, g, k) - 1 ELSE High(t, g, k)
  BY <1>9, <1>10
<1>12. ASSUME NEW n \in Nodes(t), n # k, NEW r \in Sides
       PROVE  High(u, g, u.kid[r][n]) =
                IF n = p /\ r = sd /\ h = Nil /\ ~Red(t, k) THEN g[n] - 1 ELSE g[n]
  <2>1. n \in Links /\ n # Nil /\ t.kid[r][n] \in Links /\ High(t, g, t.kid[r][n]) = g[n]
    BY <1>1, <1>6 DEF Trees
  <2>2. CASE n = p /\ r = sd
    <3>1. k # t.root /\ t.kid[r][n] = k
      BY <1>2, <2>1, <2>2
    <3>2. u.kid[r][n] = h
      BY <1>3, <1>12, <2>1, <2>2 DEF Spliced
    <3> QED BY <1>11, <2>1, <2>2, <3>1, <3>2
  <2>3. CASE ~(n = p /\ r = sd)
    <3>1. u.kid[r][n] = t.kid[r][n]
      BY <1>3, <1>12, <2>1, <2>3 DEF Spliced
    <3>2. t.kid[r][n] # k
      <4>1. t.kid[r][n] = k => n = p
        BY <1>1, KidIs DEF p
      <4>2. n = p => k # t.root
        BY <1>2, <2>1
      <4> QED BY <1>2, <2>3, <4>1, <4>2
    <3>3. t.kid[r][n] # Nil => t.kid[r][n] # h
      <4>1. t.kid[r][n] # Nil => t.parent[t.kid[r][n]] = n
        BY <1>1, KidIs
      <4> QED BY <1>1, <1>12, <4>1
    <3>4. High(u, g, t.kid[r][n]) = High(t, g, t.kid[r][n])
      BY <1>8, <1>10, <2>1, <3>2, <3>3
    <3> QED BY <2>1, <2>3, <3>1, <3>4
  <2> QED BY <2>2, <2>3
<1>13. Certified(u, g, IF h = Nil /\ ~Red(t, k) THEN p ELSE Nil, IF h = Nil /\ ~Red(t, k) THEN sd ELSE "left")
  BY <1>4, <1>6, <1>12 DEF Certified
<1>14. Unpaired(u, {})
  <2> SUFFICES ASSUME NEW n \in Nodes(t), n # k, Red(u, n) PROVE ~Red(u, u.parent[n])
    BY <1>4 DEF Unpaired
  <2>1. n # h /\ Red(t, n) /\ u.parent[n] = t.parent[n] /\ t.parent[n] \in Links
    BY <1>1, <1>3, <1>6 DEF Spliced, Red, Trees
  <2>2. ~Red(t, t.parent[n])
    BY <2>1 DEF Calm, Unpaired
  <2> QED BY <1>3, <2>1, <2>2 DEF Spliced, Red
<1>15. ~Red(u, Nil) /\ ~Red(u, u.root)
  <2>1. t.root \in Links /\ Nil \in Links
    BY <1>1, LinksAre DEF Trees
  <2> QED BY <1>1, <1>3, <2>1 DEF Spliced, Red, Calm
<1>16. CASE h = Nil /\ ~Red(t, k)
  <2>1. u.parent[Nil] = p /\ (u.root = IF p = Nil THEN Nil ELSE t.root)
    BY <1>1, <1>3, <1>16, LinksAre DEF Spliced
  <2>2. p = Nil <=> Nil = u.root
    BY <2>1
  <2>3. p # Nil => p \in Nodes(u) /\ u.kid[sd][p] = Nil
    BY <1>1, <1>2, <1>3, <1>4, <1>16 DEF Spliced
  <2>4. Certified(u, g, u.parent[Nil], sd)
    BY <1>13, <1>16, <2>1
  <2>5. Sinking(u, Nil)
    BY <1>2, <1>14, <1>15, <2>1, <2>2, <2>3, <2>4 DEF Sinking
  <2> QED BY <1>16, <2>5 DEF u, h
<1>17. CASE ~(h = Nil /\ ~Red(t, k))
  <2>1. Calm(u)
    BY <1>13, <1>14, <1>15, <1>17 DEF Calm, Even
  <2> QED BY <1>17, <2>1 DEF u, h
<1> QED BY <1>16, <1>17

\* A tree with a node has a root.
LEMMA RootIs == ASSUME NEW t, NEW b, Tidy(t, b), NEW k \in Nodes(t) PROVE t.root # Nil
<1> SUFFICES ASSUME t.root = Nil PROVE FALSE
  OBVIOUS
<1>1. t \in Trees /\ k \in Keys /\ k # Nil /\ Nil \in Links /\ MaxKey \in Links
  BY NodeIs, LinksAre DEF Tidy, Shape
<1>2. Descend(t, k) = Nil
  <2>1. WalkOf(t, k)[MaxKey][Nil][Nil] = Nil
    BY <1>1, WalkTurn
  <2> QED BY <2>1, DescendIsWalk
<1> QED BY <1>1, <1>2, SearchFinds

\* A deletion keeps the rules or begins a repair.
LEMMA DeleteRules ==
  ASSUME TreeInv, Calm(tree), NEW k \in Keys, Delete(k)
  PROVE  (pc' = "idle" /\ Calm(tree')) \/ (pc' = "delete" /\ Sinking(tree', cur'))
<1>1. PICK b : Tidy(tree, b)
  BY DEF TreeInv, Alike
<1>2. k \in Nodes(tree)
  BY <1>1, FoundIsNode DEF Delete
<1> DEFINE a == Leaver(tree, k)
           to == Exchange(k, a)
           w == Swap(tree, k, a)
           u == Splice(w, k)
<1>3. (\E c : Tidy(u, c)) /\ Nodes(u) = Nodes(tree) \ {k}
  BY <1>1, <1>2, DeleteShape
<1>4. /\ cur' = Nil
      /\ IF Heir(w, k) = Nil /\ ~Red(w, k) THEN tree' = u /\ pc' = "delete"
         ELSE tree' = Settled(u) /\ pc' = "idle"
  BY DEF Delete
<1>5. a \in Nodes(tree) /\ \E s \in Sides : tree.kid[s][a] = Nil
  BY <1>1, <1>2, LeaverIs
<1> HIDE DEF a
<1>6. /\ tree \in Trees /\ a \in Links /\ k \in Links /\ k # Nil /\ a # Nil /\ Nil \in Links
      /\ tree.root \in Links
  BY <1>1, <1>2, <1>5, NodeIs, LinksAre DEF Tidy, Shape, Trees
<1>7. /\ to[k] = a /\ to[a] = k
      /\ \A n \in Links : to[n] \in Links /\ to[to[n]] = n /\ (n # k /\ n # a => to[n] = n)
  BY <1>6, ExchangeIs
<1>8. Swapped(tree, w, to)
  BY <1>6, SwapIs
<1>9. Shape(w, Moved(b, to), to) /\ Nodes(w) = Nodes(tree)
  BY <1>1, <1>2, <1>5, SwapShape
<1>10. Calm(w)
  BY <1>1, <1>2, <1>5, SwapRules
<1> HIDE DEF w, to
<1>11. \E s \in Sides : w.kid[s][k] = Nil
  <2>1. PICK s \in Sides : tree.kid[s][a] = Nil
    BY <1>5
  <2>2. w.kid[s][k] = to[tree.kid[s][to[k]]]
    BY <1>6, <1>8 DEF Swapped
  <2> QED BY <1>6, <1>7, <2>1, <2>2
<1>12. w.root # Nil
  <2>1. tree.root # Nil
    BY <1>1, <1>2, RootIs
  <2> QED BY <1>6, <1>7, <1>8, <2>1 DEF Swapped
<1>13. IF Heir(w, k) = Nil /\ ~Red(w, k) THEN Sinking(u, Nil) ELSE Calm(u)
  BY <1>2, <1>3, <1>9, <1>10, <1>11, <1>12, SpliceRules, SMTT(60)
<1> HIDE DEF u
<1> QED BY <1>3, <1>4, <1>13, SettledRules
\* m, which sinks, is on side s of p; g shows by how much.
Family(t, m, p, s, bro, near, far, g) ==
  /\ p \in Nodes(t) /\ bro \in Nodes(t) /\ s \in Sides
  /\ t.parent[m] = p /\ t.kid[s][p] = m /\ t.kid[Other(s)][p] = bro
  /\ t.kid[s][bro] = near /\ t.kid[Other(s)][bro] = far
  /\ Certified(t, g, p, s)

\* A node that sinks and is not the root has a brother.
LEMMA FamilyHas ==
  ASSUME NEW t, NEW b, Tidy(t, b), NEW m, Sinking(t, m), m # t.root, NEW p, p = t.parent[m],
         NEW s, s = IF m = t.kid["right"][p] THEN "right" ELSE "left",
         NEW bro, bro = t.kid[Other(s)][p]
  PROVE  \E g : Family(t, m, p, s, bro, t.kid[s][bro], t.kid[Other(s)][bro], g)
<1>0. PICK q \in Sides : p \in Nodes(t) /\ t.kid[q][p] = m /\ \E g : Certified(t, g, p, q)
  BY DEF Sinking
<1>1. PICK g : p \in Nodes(t) /\ t.kid[q][p] = m /\ Certified(t, g, p, q)
  BY <1>0
<1>2. t \in Trees /\ p \in Links /\ m \in Links /\ Other(q) \in Sides /\ Other(q) # q
  BY <1>1, NodeIs, SidesAre, LinksAre DEF Tidy, Shape, Sinking
<1> DEFINE o == t.kid[Other(q)][p]
<1>3. g \in [Links -> Nat] /\ o \in Links
  BY <1>1, <1>2 DEF Certified, Trees
<1>4. High(t, g, m) = g[p] - 1 /\ High(t, g, o) = g[p]
  BY <1>1, <1>2 DEF Certified
<1>5. o # m /\ o # Nil
  BY <1>2, <1>3, <1>4, HighIs
<1>6. q = s
  <2>1. CASE q = "right"
    BY <1>1, <2>1, SMTT(60)
  <2>2. CASE q = "left"
    BY <1>5, <2>2, SMTT(60) DEF Other
  <2> QED BY <2>1, <2>2 DEF Sides
<1>7. bro \in Nodes(t)
  BY <1>1, <1>2, <1>5, <1>6, ChildIs, Zenon
<1> QED BY <1>1, <1>6, <1>7, Zenon DEF Family

\* What is known of a node that sinks, its brother and its nephews.
LEMMA FamilyIs ==
  ASSUME NEW t, NEW b, Tidy(t, b), NEW m, Sinking(t, m), NEW p, NEW s, NEW bro, NEW near, NEW far, NEW g,
         Family(t, m, p, s, bro, near, far, g)
  PROVE  /\ t \in Trees /\ {m, p, bro, near, far, t.parent[p]} \subseteq Links
         /\ p # Nil /\ bro # Nil /\ m # p /\ m # bro /\ p # bro
         /\ near # p /\ near # bro /\ far # p /\ far # bro
         /\ t.parent[bro] = p /\ bro # t.root
         /\ near # Nil => near \in Nodes(t) /\ t.parent[near] = bro /\ near # t.root /\ near # far /\ near # m
         /\ far # Nil => far \in Nodes(t) /\ t.parent[far] = bro /\ far # t.root /\ near # far /\ far # m
         /\ t.parent[p] \notin {p, bro} /\ (near # Nil => t.parent[p] # near) /\ (far # Nil => t.parent[p] # far)
         /\ \A n \in Nodes(t) : /\ t.parent[n] = p => n = m \/ n = bro
                                /\ t.parent[n] = bro => n = near \/ n = far
<1>1. /\ p \in Nodes(t) /\ bro \in Nodes(t) /\ s \in Sides
      /\ t.parent[m] = p /\ t.kid[s][p] = m /\ t.kid[Other(s)][p] = bro
      /\ t.kid[s][bro] = near /\ t.kid[Other(s)][bro] = far
  BY DEF Family
<1>2. t \in Trees /\ p \in Links /\ p # Nil /\ bro \in Links /\ bro # Nil /\ t.parent[p] \in Links
  BY <1>1, NodeIs DEF Tidy, Shape
<1>3. Other(s) \in Sides /\ Other(Other(s)) = s
  BY <1>1, SidesAre
<1>4. /\ m \in Links /\ m # p /\ bro # p /\ t.parent[bro] = p /\ bro # t.root /\ m # bro
      /\ \A n \in Nodes(t) : t.parent[n] = p => n = m \/ n = bro
  <2>1. /\ \A n \in Nodes(t) : t.parent[n] = p => t.kid[s][p] = n \/ t.kid[Other(s)][p] = n
        /\ m \in Links /\ m # p
    BY <1>1, ChildIs
  <2>2. /\ bro # p /\ t.parent[bro] = p /\ bro # t.root /\ m # bro
    BY <1>1, <1>2, <1>3, ChildIs
  <2> QED BY <1>1, <2>1, <2>2
<1>5. /\ near \in Links /\ near # bro /\ \A n \in Nodes(t) : t.parent[n] = bro => n = near \/ n = far
      /\ near # Nil => near \in Nodes(t) /\ t.parent[near] = bro /\ near # t.root /\ near # far
  BY <1>1, ChildIs
<1>6. /\ far \in Links /\ far # bro
      /\ far # Nil => far \in Nodes(t) /\ t.parent[far] = bro /\ far # t.root /\ near # far
  BY <1>1, <1>3, ChildIs
<1>7. (near # Nil => near # m) /\ (far # Nil => far # m)
  BY <1>1, <1>4, <1>5, <1>6
<1>8. PICK w : w \in [Links -> Nat] /\ \A n \in Nodes(t) : n # t.root => w[t.parent[n]] > w[n]
  BY Taller
<1>9. w[p] > w[bro] /\ (near # Nil => w[bro] > w[near]) /\ (far # Nil => w[bro] > w[far])
      /\ (p # t.root => w[t.parent[p]] > w[p])
      /\ w[p] \in Nat /\ w[bro] \in Nat /\ w[near] \in Nat /\ w[far] \in Nat /\ w[t.parent[p]] \in Nat
  BY <1>1, <1>2, <1>4, <1>5, <1>6, <1>8
<1>10. near # p /\ far # p
  BY <1>2, <1>9
<1>11. t.parent[p] \notin {p, bro} /\ (near # Nil => t.parent[p] # near) /\ (far # Nil => t.parent[p] # far)
  <2>1. p = t.root => t.parent[p] = Nil
    BY <1>1, ParentIs DEF Tidy
  <2> QED BY <1>2, <1>9, <2>1
<1> QED BY <1>2, <1>4, <1>5, <1>6, <1>7, <1>10, <1>11

\* How high they are.
LEMMA FamilyHigh ==
  ASSUME NEW t, NEW b, Tidy(t, b), NEW m, Sinking(t, m), NEW p, NEW s, NEW bro, NEW near, NEW far, NEW g,
         Family(t, m, p, s, bro, near, far, g)
  PROVE  /\ g \in [Links -> Nat] /\ g[p] \in Nat /\ g[bro] \in Nat
         /\ High(t, g, m) = g[p] - 1 /\ High(t, g, bro) = g[p] /\ High(t, g, m) \in Nat
         /\ High(t, g, near) = g[bro] /\ High(t, g, far) = g[bro]
         /\ \A n \in Nodes(t), r \in Sides : n # p => High(t, g, t.kid[r][n]) = g[n]
<1>1. /\ p \in Nodes(t) /\ bro \in Nodes(t) /\ s \in Sides /\ Certified(t, g, p, s)
      /\ t.parent[m] = p /\ t.kid[s][p] = m /\ t.kid[Other(s)][p] = bro
      /\ t.kid[s][bro] = near /\ t.kid[Other(s)][bro] = far
  BY DEF Family
<1>2. t \in Trees /\ p \in Links /\ bro \in Links /\ m \in Links /\ p # bro
  BY <1>1, FamilyIs
<1>3. Other(s) \in Sides /\ Other(s) # s
  BY <1>1, SidesAre
<1>4. g \in [Links -> Nat]
  BY <1>1 DEF Certified
<1>5. \A n \in Nodes(t), r \in Sides :
        High(t, g, t.kid[r][n]) = IF n = p /\ r = s THEN g[n] - 1 ELSE g[n]
  BY <1>1 DEF Certified
<1>6. High(t, g, m) \in Nat
  BY <1>2, <1>4, HighIs
<1> QED BY <1>1, <1>2, <1>3, <1>4, <1>5, <1>6

\* Black nephews: the brother is painted red, and the parent sinks unless it was red.
LEMMA SinkHigher ==
  ASSUME NEW t, NEW b, Tidy(t, b), NEW m, Sinking(t, m), NEW p, NEW s, NEW bro, NEW near, NEW far, NEW g,
         Family(t, m, p, s, bro, near, far, g), ~Red(t, bro), ~Red(t, near), ~Red(t, far)
  PROVE  /\ Red(t, p) => Calm(Paint(Paint(t, {bro}, "red"), {p}, "black"))
         /\ ~Red(t, p) => Sinking(Paint(t, {bro}, "red"), p)
<1> DEFINE w == Paint(t, {bro}, "red")
           u == IF Red(t, p) THEN Paint(w, {p}, "black") ELSE w
           M == {p, bro}
           f == [n \in Links |-> IF n = p THEN g[p] - 1 ELSE g[n]]
<1>0. ~Red(t, Nil) /\ Unpaired(t, {}) /\ ~Red(t, t.root) /\ ~Red(t, m)
  BY DEF Sinking
<1>1. /\ p \in Nodes(t) /\ bro \in Nodes(t) /\ s \in Sides
      /\ t.parent[m] = p /\ t.kid[s][p] = m /\ t.kid[Other(s)][p] = bro
      /\ t.kid[s][bro] = near /\ t.kid[Other(s)][bro] = far /\ Certified(t, g, p, s)
  BY DEF Family
<1>2. /\ t \in Trees /\ {m, p, bro, near, far, t.parent[p]} \subseteq Links
      /\ p # Nil /\ bro # Nil /\ m # p /\ m # bro /\ p # bro
      /\ near # p /\ near # bro /\ far # p /\ far # bro
      /\ t.parent[bro] = p /\ bro # t.root /\ t.parent[p] \notin {p, bro}
      /\ \A n \in Nodes(t) : /\ t.parent[n] = p => n = m \/ n = bro
                             /\ t.parent[n] = bro => n = near \/ n = far
  BY FamilyIs
<1>3. /\ g \in [Links -> Nat] /\ g[p] \in Nat /\ g[bro] \in Nat
      /\ High(t, g, m) = g[p] - 1 /\ High(t, g, bro) = g[p] /\ High(t, g, m) \in Nat
      /\ High(t, g, near) = g[bro] /\ High(t, g, far) = g[bro]
  BY FamilyHigh
<1>4. \A r \in Sides : r = s \/ r = Other(s)
  BY <1>1, SidesAre
<1>5. Painted(t, w, {bro}, "red") /\ Nodes(w) = Nodes(t)
  BY <1>2, PaintIs, PaintShape DEF Tidy
<1>6. Tidy(w, b)
  BY PaintShape DEF Tidy
<1> HIDE DEF w
<1>7. /\ u \in Trees /\ u.root = t.root /\ u.kid = t.kid /\ u.parent = t.parent
      /\ \A n \in Links : u.color[n] = IF n = bro THEN "red" ELSE IF n = p THEN "black" ELSE t.color[n]
      /\ Nodes(u) = Nodes(t)
  <2>1. t.color[p] \in {"red", "black"}
    BY <1>2 DEF Trees
  <2>2. CASE Red(t, p)
    <3>1. Painted(w, Paint(w, {p}, "black"), {p}, "black")
      BY <1>5, PaintIs DEF Painted
    <3>2. Nodes(Paint(w, {p}, "black")) = Nodes(w)
      BY <1>6, PaintShape DEF Tidy
    <3> QED BY <1>2, <1>5, <2>2, <3>1, <3>2 DEF Painted
  <2>3. CASE ~Red(t, p)
    BY <1>2, <1>5, <2>1, <2>3 DEF Painted, Red
  <2> QED BY <2>2, <2>3
<1> HIDE DEF u
<1>8. f \in [Links -> Nat] /\ f[p] = g[p] - 1 /\ \A n \in Links : n # p => f[n] = g[n]
  <2>1. g[p] - 1 \in Nat
    BY <1>3
  <2> QED BY <1>2, <1>3, <2>1
<1> HIDE DEF f
<1>9. \A n \in Links \ M : High(u, f, n) = High(t, g, n)
  BY <1>7, <1>8, HighSame
<1>10. /\ High(u, f, m) = f[p] /\ High(u, f, bro) = f[p] /\ High(u, f, near) = f[bro] /\ High(u, f, far) = f[bro]
       /\ High(u, f, p) = g[p] /\ High(t, g, p) = IF Red(t, p) THEN g[p] ELSE g[p] + 1
  <2>1. g[bro] + 1 = g[p] /\ High(t, g, p) = IF Red(t, p) THEN g[p] ELSE g[p] + 1
    BY <1>2, <1>3, HighIs
  <2>2. High(u, f, bro) = g[bro] /\ High(u, f, p) = f[p] + 1
    BY <1>2, <1>7, <1>8, HighIs DEF Red
  <2> QED BY <1>2, <1>3, <1>8, <1>9, <2>1, <2>2
<1>11. ASSUME NEW n \in M, NEW r \in Sides PROVE High(u, f, u.kid[r][n]) = f[n]
  BY <1>1, <1>4, <1>7, <1>10, <1>11
<1>12. Region(t, u, M, p, p)
  BY <1>1, <1>2, <1>7 DEF Region
<1>13. /\ High(u, f, p) = High(t, g, p) => Certified(u, f, Nil, "left")
       /\ High(u, f, p) = High(t, g, p) - 1 => Certified(u, f, t.parent[p], SideOf(t, p))
  <2>1. p \in M \cup {Nil} /\ \A n \in Links \ M : f[n] = g[n]
    BY <1>8
  <2> HIDE DEF M
  <2> QED BY <1>1, <1>8, <1>11, <1>12, <2>1, Recertify DEF Tidy
<1>14. Unpaired(u, {})
  <2> SUFFICES ASSUME NEW n \in Nodes(t), Red(u, n) PROVE ~Red(u, t.parent[n])
    BY <1>7 DEF Unpaired
  <2>0. n \in Links /\ n # Nil /\ t.parent[n] \in Links
    BY <1>2, NodeIs
  <2>1. n # p
    BY <1>2, <1>7 DEF Red
  <2>2. CASE n = bro
    BY <1>2, <1>7, <2>2 DEF Red
  <2>3. CASE n # bro
    <3>1. Red(t, n)
      BY <1>7, <2>0, <2>1, <2>3 DEF Red
    <3>2. t.parent[n] # bro /\ ~Red(t, t.parent[n])
      BY <1>0, <1>2, <3>1 DEF Unpaired
    <3> QED BY <1>7, <2>0, <3>2 DEF Red
  <2> QED BY <2>2, <2>3
<1>15. ~Red(u, Nil) /\ ~Red(u, u.root)
  <2>1. t.root \in Links /\ Nil \in Links
    BY <1>2, LinksAre DEF Trees
  <2> QED BY <1>0, <1>2, <1>7, <2>1 DEF Red
<1>16. CASE Red(t, p)
  <2>1. Even(u)
    BY <1>10, <1>13, <1>16 DEF Even
  <2>2. Calm(u)
    BY <1>14, <1>15, <2>1 DEF Calm
  <2> QED BY <1>16, <2>2 DEF u, w
<1>17. CASE ~Red(t, p)
  <2>1. Certified(u, f, t.parent[p], SideOf(t, p))
    <3>1. High(u, f, p) = High(t, g, p) - 1
      BY <1>3, <1>10, <1>17
    <3> QED BY <1>13, <3>1
  <2>2. /\ t.parent[p] = Nil <=> p = t.root
        /\ p # t.root => t.parent[p] \in Nodes(t) /\ t.kid[SideOf(t, p)][t.parent[p]] = p
        /\ SideOf(t, p) \in Sides
    BY <1>1, ParentIs DEF Tidy
  <2>3. ~Red(u, p)
    BY <1>2, <1>7 DEF Red
  <2>4. Sinking(u, p)
    BY <1>1, <1>7, <1>14, <1>15, <2>1, <2>2, <2>3 DEF Sinking
  <2> QED BY <1>17, <2>4 DEF u, w
<1> QED BY <1>16, <1>17

\* The region that the repair rebuilds.
LEMMA RegionIs ==
  ASSUME NEW t, NEW b, Tidy(t, b), NEW u, Nodes(u) = Nodes(t), NEW M, M \subseteq Nodes(t),
         NEW x \in M, NEW y, NEW sd, sd = SideOf(t, x), t.parent[x] \notin M,
         \A m \in M \ {x} : t.parent[m] \in M /\ m # t.root,
         \A k \in Links \ M : u.color[k] = t.color[k],
         \A n \in Links \ M, r \in Sides :
           u.kid[r][n] = IF n = t.parent[x] /\ t.parent[x] # Nil /\ r = sd THEN y ELSE t.kid[r][n]
  PROVE  Region(t, u, M, x, y)
<1>1. ASSUME NEW n \in Nodes(t) \ M, NEW r \in Sides
      PROVE  u.kid[r][n] = IF t.kid[r][n] = x THEN y ELSE t.kid[r][n]
  <2>1. n \in Links /\ n # Nil /\ x \in Nodes(t) /\ x # Nil /\ Shape(t, b, Own)
    BY NodeIs DEF Tidy, Shape
  <2>2. t.kid[r][n] = x => n = t.parent[x]
    BY <2>1, KidIs
  <2>3. n = t.parent[x] => x # t.root
    BY <2>1, ParentIs
  <2>4. x # t.root => t.kid[sd][t.parent[x]] = x /\ \A q \in Sides : t.kid[q][t.parent[x]] = x => q = sd
    BY <2>1, ParentIs
  <2> QED BY <2>1, <2>2, <2>3, <2>4
<1> QED BY <1>1 DEF Region

\* A red brother: the rotation levels the tree, whatever it does to the colors.
LEMMA RedBrotherRules ==
  ASSUME NEW t, NEW b, Tidy(t, b), NEW m, Sinking(t, m), NEW p, NEW s, NEW bro, NEW near, NEW far, NEW g,
         Family(t, m, p, s, bro, near, far, g), Red(t, bro)
  PROVE  LET u == Rotate(Paint(Paint(t, {bro}, "black"), {near}, "red"), p, s)
         IN  Even(u) /\ ~Red(u, Nil)
<1> DEFINE v == Paint(t, {bro}, "black")
           w == Paint(v, {near}, "red")
           u == Rotate(w, p, s)
           M == {p, bro, near}
           pp == t.parent[p]
           sd == SideOf(w, p)
           f == [n \in Links |-> IF n = p THEN g[p] - 1 ELSE g[n]]
<1>0. ~Red(t, Nil) /\ Unpaired(t, {}) /\ ~Red(t, t.root) /\ ~Red(t, m)
  BY DEF Sinking
<1>1. /\ p \in Nodes(t) /\ bro \in Nodes(t) /\ s \in Sides
      /\ t.parent[m] = p /\ t.kid[s][p] = m /\ t.kid[Other(s)][p] = bro
      /\ t.kid[s][bro] = near /\ t.kid[Other(s)][bro] = far /\ Certified(t, g, p, s)
  BY DEF Family
<1>2. /\ t \in Trees /\ {m, p, bro, near, far, pp} \subseteq Links
      /\ p # Nil /\ bro # Nil /\ m # p /\ m # bro /\ p # bro
      /\ near # p /\ near # bro /\ far # p /\ far # bro
      /\ t.parent[bro] = p /\ bro # t.root
      /\ near # Nil => near \in Nodes(t) /\ t.parent[near] = bro /\ near # t.root /\ near # far /\ near # m
      /\ far # Nil => far \in Nodes(t) /\ t.parent[far] = bro /\ far # t.root /\ near # far /\ far # m
      /\ pp \notin {p, bro} /\ (near # Nil => pp # near) /\ (far # Nil => pp # far)
  BY FamilyIs
<1>3. /\ g \in [Links -> Nat] /\ g[p] \in Nat /\ g[bro] \in Nat
      /\ High(t, g, m) = g[p] - 1 /\ High(t, g, bro) = g[p] /\ High(t, g, m) \in Nat
      /\ High(t, g, near) = g[bro] /\ High(t, g, far) = g[bro]
      /\ \A n \in Nodes(t), r \in Sides : n # p => High(t, g, t.kid[r][n]) = g[n]
  BY FamilyHigh
<1>4. Other(s) \in Sides /\ Other(s) # s /\ \A r \in Sides : r = s \/ r = Other(s)
  BY <1>1, SidesAre
<1>5. g[bro] = g[p] /\ near # Nil
  <2>1. High(t, g, bro) = g[bro] /\ High(t, g, Nil) = 0
    BY <1>2, <1>3, HighIs
  <2> QED BY <1>2, <1>3, <2>1
<1>6. ~Red(t, p) /\ ~Red(t, near) /\ near \in Nodes(t)
  BY <1>0, <1>1, <1>2, <1>5 DEF Unpaired
<1>7. Painted(t, v, {bro}, "black") /\ Painted(v, w, {near}, "red")
  BY <1>2, PaintIs DEF Painted
<1>8. Tidy(w, b) /\ Nodes(w) = Nodes(t)
  BY PaintShape DEF Tidy
<1>9. /\ w \in Trees /\ w.root = t.root /\ w.kid = t.kid /\ w.parent = t.parent
      /\ \A n \in Links : w.color[n] = IF n = near THEN "red" ELSE IF n = bro THEN "black" ELSE t.color[n]
  BY <1>7 DEF Painted
<1>10. Turned(w, u, p, s, bro, near, pp, sd) /\ Nodes(u) = Nodes(t)
  <2>1. Shape(w, b, Own) /\ p \in Nodes(w) /\ bro = w.kid[Other(s)][p] /\ near = w.kid[s][bro]
        /\ pp = w.parent[p]
    BY <1>1, <1>8, <1>9, ZenonT(60) DEF Tidy
  <2> HIDE DEF w, pp
  <2>2. Turned(w, u, p, s, bro, near, pp, sd)
    BY <1>1, <1>2, <2>1, RotateIs, Zenon
  <2>3. Nodes(u) = Nodes(w)
    BY <1>1, <1>2, <2>1, RotateShape, Zenon
  <2> QED BY <1>8, <2>2, <2>3
<1>11. sd = SideOf(t, p)
  BY <1>9 DEF SideOf
<1> HIDE DEF u, v, w, sd, pp, f
<1>12. /\ u.kid[s][p] = m /\ u.kid[Other(s)][p] = near
       /\ u.kid[s][bro] = p /\ u.kid[Other(s)][bro] = far
       /\ \A r \in Sides : u.kid[r][near] = t.kid[r][near]
       /\ \A n \in Links \ M, r \in Sides :
            u.kid[r][n] = IF n = pp /\ pp # Nil /\ r = sd THEN bro ELSE t.kid[r][n]
       /\ u.color = w.color
  <2>1. \A n \in Links, r \in Sides :
          u.kid[r][n] = IF n = p /\ r = Other(s) THEN near
                        ELSE IF n = bro /\ r = s THEN p
                        ELSE IF n = pp /\ pp # Nil /\ r = sd THEN bro
                        ELSE t.kid[r][n]
    BY <1>9, <1>10 DEF Turned
  <2>2. u.color = w.color
    BY <1>10 DEF Turned
  <2>3. u.kid[s][p] = m /\ u.kid[Other(s)][p] = near
    BY <1>1, <1>2, <1>4, <2>1
  <2>4. u.kid[s][bro] = p /\ u.kid[Other(s)][bro] = far
    BY <1>1, <1>2, <1>4, <2>1
  <2>5. \A r \in Sides : u.kid[r][near] = t.kid[r][near]
    BY <1>2, <1>5, <2>1
  <2> QED BY <2>1, <2>2, <2>3, <2>4, <2>5
<1>13. f \in [Links -> Nat] /\ f[p] = g[p] - 1 /\ \A n \in Links : n # p => f[n] = g[n]
  <2>1. g[p] - 1 \in Nat
    BY <1>3
  <2> QED BY <1>2, <1>3, <2>1 DEF f
<1>14. \A n \in Links \ M : High(u, f, n) = High(t, g, n)
  BY <1>9, <1>12, <1>13, HighSame
<1>15. High(u, f, m) = f[p] /\ High(u, f, near) = f[p] /\ High(u, f, p) = f[bro] /\ High(u, f, far) = f[bro]
       /\ High(u, f, bro) = High(t, g, p)
  <2>1. g[near] + 1 = g[bro] /\ High(t, g, p) = g[p] + 1
    BY <1>2, <1>3, <1>5, <1>6, HighIs
  <2>2. ~Red(u, p) /\ Red(u, near) /\ ~Red(u, bro)
    BY <1>2, <1>6, <1>9, <1>12 DEF Red
  <2>3. /\ High(u, f, near) = f[near] /\ High(u, f, p) = f[p] + 1 /\ High(u, f, bro) = f[bro] + 1
    <3>1. f[near] \in Nat
      BY <1>2, <1>13
    <3> QED BY <1>2, <1>5, <2>2, <3>1 DEF High
  <2>4. f[near] = g[near] /\ f[bro] = g[bro] /\ g[near] \in Nat
    BY <1>2, <1>3, <1>13
  <2>5. High(u, f, m) = High(t, g, m) /\ High(u, f, far) = High(t, g, far)
    BY <1>2, <1>5, <1>14
  <2> QED BY <1>3, <1>5, <1>13, <2>1, <2>3, <2>4, <2>5
<1>16. ASSUME NEW n \in M, NEW r \in Sides PROVE High(u, f, u.kid[r][n]) = f[n]
  <2>1. CASE n # near
    BY <1>4, <1>12, <1>15, <1>16, <2>1
  <2>2. CASE n = near
    <3> DEFINE k == t.kid[r][near]
    <3>1. High(t, g, k) = g[near] /\ f[near] = g[near]
      BY <1>2, <1>3, <1>6, <1>13
    <3>2. k \in Links /\ k # near /\ (k # Nil => t.parent[k] = near)
      BY <1>6, ChildIs
    <3>3. k \notin M
      <4> HIDE DEF k
      <4> QED BY <1>2, <1>5, <3>2 DEF pp
    <3>4. u.kid[r][n] = k
      BY <1>12, <2>2
    <3> HIDE DEF k, M
    <3> QED BY <1>14, <2>2, <3>1, <3>2, <3>3, <3>4
  <2> QED BY <2>1, <2>2
<1>17. Region(t, u, M, p, bro)
  <2>1. M \subseteq Nodes(t) /\ t.parent[p] \notin M /\ \A k \in M \ {p} : t.parent[k] \in M /\ k # t.root
    BY <1>1, <1>2, <1>5, <1>6 DEF pp
  <2>2. \A k \in Links \ M : u.color[k] = t.color[k]
    BY <1>9, <1>12
  <2>3. \A n \in Links \ M, r \in Sides :
          u.kid[r][n] = IF n = t.parent[p] /\ t.parent[p] # Nil /\ r = sd THEN bro ELSE t.kid[r][n]
    BY <1>12 DEF pp
  <2>4. p \in M
    OBVIOUS
  <2> HIDE DEF M
  <2> QED BY <1>10, <1>11, <2>1, <2>2, <2>3, <2>4, RegionIs
<1>18. Even(u)
  <2>1. p \in M \cup {Nil} /\ \A n \in Links \ M : f[n] = g[n]
    BY <1>13
  <2> HIDE DEF M
  <2>2. Certified(u, f, Nil, "left")
    BY <1>1, <1>13, <1>15, <1>16, <1>17, <2>1, Recertify DEF Tidy
  <2> QED BY <2>2 DEF Even
<1>19. ~Red(u, Nil)
  BY <1>0, <1>2, <1>5, <1>9, <1>12, LinksAre DEF Red
<1> QED BY <1>18, <1>19 DEF u, w, v

\* A red nephew on the far side: one rotation ends the repair,
LEMMA RedFarRules ==
  ASSUME NEW t, NEW b, Tidy(t, b), NEW m, Sinking(t, m), NEW p, NEW s, NEW bro, NEW near, NEW far, NEW g,
         Family(t, m, p, s, bro, near, far, g), ~Red(t, bro), Red(t, far)
  PROVE  Calm(Rotate(Paint(Paint(t, {bro}, t.color[p]), {p, far}, "black"), p, s))
<1> DEFINE v == Paint(t, {bro}, t.color[p])
           w == Paint(v, {p, far}, "black")
           u == Rotate(w, p, s)
           M == {p, bro, far}
           pp == t.parent[p]
           sd == SideOf(w, p)
           f == [n \in Links |-> IF n = p THEN g[p] - 1 ELSE IF n = bro THEN g[p] ELSE g[n]]
<1>0. ~Red(t, Nil) /\ Unpaired(t, {}) /\ ~Red(t, t.root) /\ ~Red(t, m)
  BY DEF Sinking
<1>1. /\ p \in Nodes(t) /\ bro \in Nodes(t) /\ s \in Sides
      /\ t.parent[m] = p /\ t.kid[s][p] = m /\ t.kid[Other(s)][p] = bro
      /\ t.kid[s][bro] = near /\ t.kid[Other(s)][bro] = far /\ Certified(t, g, p, s)
  BY DEF Family
<1>2. /\ t \in Trees /\ {m, p, bro, near, far, pp} \subseteq Links
      /\ p # Nil /\ bro # Nil /\ m # p /\ m # bro /\ p # bro
      /\ near # p /\ near # bro /\ far # p /\ far # bro
      /\ t.parent[bro] = p /\ bro # t.root
      /\ near # Nil => near \in Nodes(t) /\ t.parent[near] = bro /\ near # t.root /\ near # far /\ near # m
      /\ far # Nil => far \in Nodes(t) /\ t.parent[far] = bro /\ far # t.root /\ near # far /\ far # m
      /\ pp \notin {p, bro} /\ (near # Nil => pp # near) /\ (far # Nil => pp # far)
      /\ \A n \in Nodes(t) : /\ t.parent[n] = p => n = m \/ n = bro
                             /\ t.parent[n] = bro => n = near \/ n = far
  BY FamilyIs
<1>3. /\ g \in [Links -> Nat] /\ g[p] \in Nat /\ g[bro] \in Nat
      /\ High(t, g, m) = g[p] - 1 /\ High(t, g, bro) = g[p] /\ High(t, g, m) \in Nat
      /\ High(t, g, near) = g[bro] /\ High(t, g, far) = g[bro]
      /\ \A n \in Nodes(t), r \in Sides : n # p => High(t, g, t.kid[r][n]) = g[n]
  BY FamilyHigh
<1>4. Other(s) \in Sides /\ Other(s) # s /\ \A r \in Sides : r = s \/ r = Other(s)
  BY <1>1, SidesAre
<1>5. far # Nil /\ far \in Nodes(t) /\ far # m /\ far # near /\ t.color[p] \in {"red", "black"}
  BY <1>0, <1>2 DEF Trees
<1>6. g[bro] + 1 = g[p] /\ g[far] = g[bro] /\ High(t, g, p) = IF Red(t, p) THEN g[p] ELSE g[p] + 1
  BY <1>2, <1>3, <1>5, HighIs
<1>7. Painted(t, v, {bro}, t.color[p]) /\ Painted(v, w, {p, far}, "black")
  BY <1>2, <1>5, PaintIs DEF Painted
<1>8. Tidy(w, b) /\ Nodes(w) = Nodes(t)
  <2>1. Tidy(v, b) /\ Nodes(v) = Nodes(t)
    BY <1>5, PaintShape DEF Tidy
  <2> HIDE DEF v
  <2> QED BY <2>1, PaintShape DEF Tidy
<1>9. /\ w \in Trees /\ w.root = t.root /\ w.kid = t.kid /\ w.parent = t.parent
      /\ \A n \in Links : w.color[n] = IF n = p \/ n = far THEN "black" ELSE IF n = bro THEN t.color[p]
                                       ELSE t.color[n]
  BY <1>7, SMTT(60) DEF Painted
<1>10. Turned(w, u, p, s, bro, near, pp, sd) /\ Nodes(u) = Nodes(t)
  <2>1. Shape(w, b, Own) /\ p \in Nodes(w) /\ bro = w.kid[Other(s)][p] /\ near = w.kid[s][bro]
        /\ pp = w.parent[p]
    BY <1>1, <1>8, <1>9, SMTT(60) DEF Tidy
  <2> HIDE DEF w, pp
  <2>2. Turned(w, u, p, s, bro, near, pp, sd)
    BY <1>1, <1>2, <2>1, RotateIs, Zenon
  <2>3. Nodes(u) = Nodes(w)
    BY <1>1, <1>2, <2>1, RotateShape, Zenon
  <2> QED BY <1>8, <2>2, <2>3
<1>11. sd = SideOf(t, p)
  BY <1>9 DEF SideOf
<1> HIDE DEF u, v, w, sd, pp, f
<1>12. /\ u.kid[s][p] = m /\ u.kid[Other(s)][p] = near
       /\ u.kid[s][bro] = p /\ u.kid[Other(s)][bro] = far
       /\ \A r \in Sides : u.kid[r][far] = t.kid[r][far]
       /\ \A n \in Links \ M, r \in Sides :
            u.kid[r][n] = IF n = pp /\ pp # Nil /\ r = sd THEN bro ELSE t.kid[r][n]
       /\ u.color = w.color /\ u.root = IF pp = Nil THEN bro ELSE t.root
       /\ \A n \in Links :
            u.parent[n] = IF n = near /\ near # Nil THEN p ELSE IF n = p THEN bro ELSE IF n = bro THEN pp
                          ELSE t.parent[n]
  <2>1. \A n \in Links, r \in Sides :
          u.kid[r][n] = IF n = p /\ r = Other(s) THEN near
                        ELSE IF n = bro /\ r = s THEN p
                        ELSE IF n = pp /\ pp # Nil /\ r = sd THEN bro
                        ELSE t.kid[r][n]
    BY <1>9, <1>10 DEF Turned
  <2>2. u.color = w.color /\ u.root = IF pp = Nil THEN bro ELSE t.root
    BY <1>9, <1>10 DEF Turned
  <2>3. u.kid[s][p] = m /\ u.kid[Other(s)][p] = near
    BY <1>1, <1>2, <1>4, <2>1
  <2>4. u.kid[s][bro] = p /\ u.kid[Other(s)][bro] = far
    BY <1>1, <1>2, <1>4, <2>1
  <2>5. \A r \in Sides : u.kid[r][far] = t.kid[r][far]
    BY <1>2, <1>5, <2>1
  <2>6. \A n \in Links :
          u.parent[n] = IF n = near /\ near # Nil THEN p ELSE IF n = p THEN bro ELSE IF n = bro THEN pp
                        ELSE t.parent[n]
    BY <1>9, <1>10 DEF Turned
  <2> QED BY <2>1, <2>2, <2>3, <2>4, <2>5, <2>6
<1>13. f \in [Links -> Nat] /\ f[p] = g[p] - 1 /\ f[bro] = g[p]
       /\ \A n \in Links : n # p /\ n # bro => f[n] = g[n]
  <2>1. g[p] - 1 \in Nat
    BY <1>3
  <2> QED BY <1>2, <1>3, <2>1 DEF f
<1>14. \A n \in Links \ M : High(u, f, n) = High(t, g, n)
  BY <1>9, <1>12, <1>13, HighSame
<1>15. High(u, f, m) = f[p] /\ High(u, f, near) = f[p] /\ High(u, f, p) = f[bro] /\ High(u, f, far) = f[bro]
       /\ High(u, f, bro) = High(t, g, p)
  <2>1. ~Red(u, p) /\ ~Red(u, far) /\ (Red(u, bro) <=> Red(t, p))
    BY <1>2, <1>5, <1>9, <1>12 DEF Red
  <2>2. /\ High(u, f, far) = f[far] + 1 /\ High(u, f, p) = f[p] + 1
        /\ High(u, f, bro) = f[bro] + IF Red(t, p) THEN 0 ELSE 1
    BY <1>2, <1>5, <2>1 DEF High
  <2>3. f[far] = g[far] /\ g[far] \in Nat
    BY <1>2, <1>3, <1>13
  <2>4. High(u, f, m) = High(t, g, m) /\ High(u, f, near) = High(t, g, near)
    BY <1>2, <1>5, <1>14
  <2> QED BY <1>3, <1>6, <1>13, <2>2, <2>3, <2>4
<1>16. ASSUME NEW n \in M, NEW r \in Sides PROVE High(u, f, u.kid[r][n]) = f[n]
  <2>1. CASE n # far
    BY <1>4, <1>12, <1>15, <1>16, <2>1
  <2>2. CASE n = far
    <3> DEFINE k == t.kid[r][far]
    <3>1. High(t, g, k) = g[far] /\ f[far] = g[far]
      BY <1>2, <1>3, <1>5, <1>13
    <3>2. k \in Links /\ k # far /\ (k # Nil => t.parent[k] = far)
      BY <1>5, ChildIs
    <3>3. k \notin M
      <4> HIDE DEF k
      <4> QED BY <1>2, <1>5, <3>2 DEF pp
    <3>4. u.kid[r][n] = k
      BY <1>12, <2>2
    <3> HIDE DEF k, M
    <3> QED BY <1>14, <2>2, <3>1, <3>2, <3>3, <3>4
  <2> QED BY <2>1, <2>2
<1>17. Region(t, u, M, p, bro)
  <2>1. M \subseteq Nodes(t) /\ t.parent[p] \notin M /\ \A k \in M \ {p} : t.parent[k] \in M /\ k # t.root
    BY <1>1, <1>2, <1>5 DEF pp
  <2>2. \A k \in Links \ M : u.color[k] = t.color[k]
    BY <1>9, <1>12
  <2>3. \A n \in Links \ M, r \in Sides :
          u.kid[r][n] = IF n = t.parent[p] /\ t.parent[p] # Nil /\ r = sd THEN bro ELSE t.kid[r][n]
    BY <1>12 DEF pp
  <2>4. p \in M
    OBVIOUS
  <2> HIDE DEF M
  <2> QED BY <1>10, <1>11, <2>1, <2>2, <2>3, <2>4, RegionIs
<1>18. Even(u)
  <2>1. p \in M \cup {Nil} /\ \A n \in Links \ M : f[n] = g[n]
    BY <1>13
  <2> HIDE DEF M
  <2>2. Certified(u, f, Nil, "left")
    BY <1>1, <1>13, <1>15, <1>16, <1>17, <2>1, Recertify DEF Tidy
  <2> QED BY <2>2 DEF Even
<1>19. Unpaired(u, {})
  <2> SUFFICES ASSUME NEW n \in Nodes(t), Red(u, n) PROVE ~Red(u, u.parent[n])
    BY <1>10 DEF Unpaired
  <2>0. n \in Links /\ n # Nil /\ t.parent[n] \in Links
    BY <1>2, NodeIs
  <2>1. n # p /\ n # far
    BY <1>2, <1>5, <1>9, <1>12 DEF Red
  <2>2. CASE n = bro
    <3>1. Red(t, p) /\ u.parent[n] = pp
      BY <1>2, <1>9, <1>12, <2>2 DEF Red
    <3>2. ~Red(t, pp)
      BY <1>0, <1>1, <3>1 DEF Unpaired, pp
    <3> QED BY <1>2, <1>5, <1>9, <1>12, <3>1, <3>2 DEF Red
  <2>3. CASE n # bro /\ n = near
    <3>1. u.parent[n] = p
      BY <1>2, <1>12, <2>0, <2>3
    <3> QED BY <1>2, <1>9, <1>12, <3>1 DEF Red
  <2>4. CASE n # bro /\ n # near
    <3>1. Red(t, n) /\ u.parent[n] = t.parent[n]
      BY <1>2, <1>9, <1>12, <2>0, <2>1, <2>4 DEF Red
    <3>2. t.parent[n] # bro /\ ~Red(t, t.parent[n])
      BY <1>0, <1>2, <2>1, <2>4, <3>1 DEF Unpaired
    <3> QED BY <1>9, <1>12, <2>0, <3>1, <3>2 DEF Red
  <2> QED BY <2>2, <2>3, <2>4
<1>20. ~Red(u, Nil) /\ ~Red(u, u.root)
  <2>1. t.root \in Links /\ Nil \in Links
    BY <1>2, LinksAre DEF Trees
  <2>2. pp = Nil => ~Red(t, p)
    BY <1>0, <1>1, ParentIs DEF Tidy, pp
  <2>3. pp # Nil => t.root # p
    BY <1>1, ParentIs DEF Tidy, pp
  <2> QED BY <1>0, <1>2, <1>5, <1>9, <1>12, <2>1, <2>2, <2>3 DEF Red
<1>21. Calm(u)
  BY <1>18, <1>19, <1>20 DEF Calm
<1> QED BY <1>21 DEF u, w, v

\* and one on the near side: two.
LEMMA RedNearRules ==
  ASSUME NEW t, NEW b, Tidy(t, b), NEW m, Sinking(t, m), NEW p, NEW s, NEW bro, NEW near, NEW far, NEW g,
         Family(t, m, p, s, bro, near, far, g), ~Red(t, bro), Red(t, near), ~Red(t, far)
  PROVE  Calm(Rotate(Rotate(Paint(Paint(t, {bro}, t.color[p]), {near}, "black"), bro, Other(s)), p, s))
<1> DEFINE v == Paint(t, {bro}, t.color[p])
           w == Paint(v, {near}, "black")
           x == Rotate(w, bro, Other(s))
           u == Rotate(x, p, s)
           M == {p, bro, near}
           n1 == t.kid[s][near]
           n2 == t.kid[Other(s)][near]
           pp == t.parent[p]
           se == SideOf(w, bro)
           sd == SideOf(x, p)
           f == [n \in Links |-> IF n = p THEN g[p] - 1
                                 ELSE IF n = near THEN IF Red(t, p) THEN g[p] - 1 ELSE g[p]
                                 ELSE g[n]]
<1>0. ~Red(t, Nil) /\ Unpaired(t, {}) /\ ~Red(t, t.root) /\ ~Red(t, m)
  BY DEF Sinking
<1>1. /\ p \in Nodes(t) /\ bro \in Nodes(t) /\ s \in Sides
      /\ t.parent[m] = p /\ t.kid[s][p] = m /\ t.kid[Other(s)][p] = bro
      /\ t.kid[s][bro] = near /\ t.kid[Other(s)][bro] = far /\ Certified(t, g, p, s)
  BY DEF Family
<1>2. /\ t \in Trees /\ {m, p, bro, near, far, pp} \subseteq Links
      /\ p # Nil /\ bro # Nil /\ m # p /\ m # bro /\ p # bro
      /\ near # p /\ near # bro /\ far # p /\ far # bro
      /\ t.parent[bro] = p /\ bro # t.root
      /\ near # Nil => near \in Nodes(t) /\ t.parent[near] = bro /\ near # t.root /\ near # far /\ near # m
      /\ far # Nil => far \in Nodes(t) /\ t.parent[far] = bro /\ far # t.root /\ near # far /\ far # m
      /\ pp \notin {p, bro} /\ (near # Nil => pp # near) /\ (far # Nil => pp # far)
      /\ \A n \in Nodes(t) : /\ t.parent[n] = p => n = m \/ n = bro
                             /\ t.parent[n] = bro => n = near \/ n = far
  BY FamilyIs
<1>3. /\ g \in [Links -> Nat] /\ g[p] \in Nat /\ g[bro] \in Nat
      /\ High(t, g, m) = g[p] - 1 /\ High(t, g, bro) = g[p] /\ High(t, g, m) \in Nat
      /\ High(t, g, near) = g[bro] /\ High(t, g, far) = g[bro]
      /\ \A n \in Nodes(t), r \in Sides : n # p => High(t, g, t.kid[r][n]) = g[n]
  BY FamilyHigh
<1>4. Other(s) \in Sides /\ Other(s) # s /\ Other(Other(s)) = s /\ \A r \in Sides : r = s \/ r = Other(s)
  BY <1>1, SidesAre
<1>5. near # Nil /\ near \in Nodes(t) /\ near # m /\ near # far /\ t.color[p] \in {"red", "black"}
  BY <1>0, <1>2 DEF Trees
<1>6. /\ g[bro] + 1 = g[p] /\ g[near] = g[bro] /\ High(t, g, p) = IF Red(t, p) THEN g[p] ELSE g[p] + 1
      /\ High(t, g, n1) = g[near] /\ High(t, g, n2) = g[near]
  BY <1>1, <1>2, <1>3, <1>4, <1>5, HighIs
<1>7. /\ n1 \in Links /\ n2 \in Links
      /\ n1 # Nil => n1 \in Nodes(t) /\ t.parent[n1] = near /\ ~Red(t, n1) /\ n1 # n2
      /\ n2 # Nil => n2 \in Nodes(t) /\ t.parent[n2] = near /\ ~Red(t, n2)
      /\ \A n \in Nodes(t) : t.parent[n] = near => n = n1 \/ n = n2
  <2>1. /\ n1 \in Links /\ \A n \in Nodes(t) : t.parent[n] = near => n = n1 \/ n = n2
        /\ n1 # Nil => n1 \in Nodes(t) /\ t.parent[n1] = near /\ n1 # n2
    BY <1>1, <1>5, ChildIs
  <2>2. n2 \in Links /\ (n2 # Nil => n2 \in Nodes(t) /\ t.parent[n2] = near)
    BY <1>4, <1>5, ChildIs
  <2>3. \A n \in Nodes(t) : t.parent[n] = near => ~Red(t, n)
    BY <1>0 DEF Unpaired
  <2> HIDE DEF n1, n2
  <2> QED BY <2>1, <2>2, <2>3
<1>8. n1 \notin {p, bro, near} /\ n2 \notin {p, bro, near}
  <2>1. n1 # near /\ n2 # near
    BY <1>1, <1>4, <1>5, ChildIs
  <2> HIDE DEF n1, n2
  <2> QED BY <1>2, <1>5, <1>7, <2>1 DEF pp
<1>9. Painted(t, v, {bro}, t.color[p]) /\ Painted(v, w, {near}, "black")
  BY <1>2, <1>5, PaintIs DEF Painted
<1>10. Tidy(w, b) /\ Nodes(w) = Nodes(t)
  <2>1. Tidy(v, b) /\ Nodes(v) = Nodes(t)
    BY <1>5, PaintShape DEF Tidy
  <2> HIDE DEF v
  <2> QED BY <2>1, PaintShape DEF Tidy
<1> HIDE DEF v, w
<1>11. /\ w \in Trees /\ w.root = t.root /\ w.kid = t.kid /\ w.parent = t.parent
       /\ \A n \in Links : w.color[n] = IF n = near THEN "black" ELSE IF n = bro THEN t.color[p]
                                        ELSE t.color[n]
  BY <1>9 DEF Painted
<1>12. Turned(w, x, bro, Other(s), near, n2, p, se) /\ Nodes(x) = Nodes(t) /\ \E c : Tidy(x, c)
  <2>1. Shape(w, b, Own) /\ bro \in Nodes(w) /\ near = w.kid[Other(Other(s))][bro] /\ n2 = w.kid[Other(s)][near]
        /\ p = w.parent[bro]
    BY <1>1, <1>2, <1>4, <1>10, <1>11 DEF Tidy
  <2> HIDE DEF n2
  <2>2. Turned(w, x, bro, Other(s), near, n2, p, se)
    BY <1>4, <1>5, <2>1, RotateIs
  <2>3. Nodes(x) = Nodes(w) /\ \E c : Shape(x, c, Own)
    BY <1>4, <1>5, <2>1, RotateShape
  <2> QED BY <1>10, <2>2, <2>3 DEF Tidy
<1>13. se = Other(s)
  <2>1. \A r \in Sides : t.kid[r][t.parent[bro]] = bro => r = SideOf(t, bro)
    BY <1>1, <1>2, ParentIs DEF Tidy
  <2>2. se = SideOf(t, bro)
    BY <1>11 DEF SideOf
  <2> QED BY <1>1, <1>2, <1>4, <2>1, <2>2
<1> HIDE DEF x, n1, n2, se
<1>14. /\ x.color = w.color /\ x.root = t.root
       /\ \A n \in Links, r \in Sides :
            x.kid[r][n] = IF n = bro /\ r = s THEN n2
                          ELSE IF n = near /\ r = Other(s) THEN bro
                          ELSE IF n = p /\ r = Other(s) THEN near
                          ELSE t.kid[r][n]
       /\ \A n \in Links :
            x.parent[n] = IF n = n2 /\ n2 # Nil THEN bro ELSE IF n = bro THEN near ELSE IF n = near THEN p
                          ELSE t.parent[n]
  <2>1. x.color = w.color /\ x.root = t.root
    BY <1>2, <1>11, <1>12 DEF Turned
  <2>2. \A n \in Links, r \in Sides :
            x.kid[r][n] = IF n = bro /\ r = Other(Other(s)) THEN n2
                          ELSE IF n = near /\ r = Other(s) THEN bro
                          ELSE IF n = p /\ p # Nil /\ r = se THEN near
                          ELSE t.kid[r][n]
    BY <1>11, <1>12 DEF Turned
  <2>3. \A n \in Links :
            x.parent[n] = IF n = n2 /\ n2 # Nil THEN bro ELSE IF n = bro THEN near ELSE IF n = near THEN p
                          ELSE t.parent[n]
    BY <1>11, <1>12 DEF Turned
  <2> QED BY <1>2, <1>4, <1>13, <2>1, <2>2, <2>3
<1>15. Turned(x, u, p, s, near, n1, pp, sd) /\ Nodes(u) = Nodes(t)
  <2>1. PICK c : Shape(x, c, Own)
    BY <1>12 DEF Tidy
  <2>2. p \in Nodes(x) /\ near = x.kid[Other(s)][p]
    BY <1>1, <1>2, <1>4, <1>12, <1>14
  <2>3. n1 = x.kid[s][near]
    <3>1. x.kid[s][near] = t.kid[s][near]
      BY <1>1, <1>2, <1>4, <1>14
    <3> QED BY <3>1 DEF n1
  <2>4. pp = x.parent[p]
    <3>1. p # n2
      BY <1>8
    <3> QED BY <1>2, <1>14, <3>1 DEF pp
  <2> HIDE DEF pp
  <2>5. Turned(x, u, p, s, near, n1, pp, sd)
    BY <1>1, <1>5, <2>1, <2>2, <2>3, <2>4, RotateIs
  <2>6. Nodes(u) = Nodes(x)
    BY <1>1, <1>5, <2>1, <2>2, RotateShape
  <2> QED BY <1>12, <2>5, <2>6
<1>16. sd = SideOf(t, p)
  <2> DEFINE l == "left"
  <2>1. x.parent[p] = pp
    <3>1. p # n2
      BY <1>8
    <3> QED BY <1>2, <1>14, <3>1
  <2>2. x.kid[l][pp] = t.kid[l][pp]
    <3>1. pp # bro /\ pp # near /\ pp # p /\ pp \in Links /\ l \in Sides
      BY <1>2, <1>5 DEF Sides
    <3> HIDE DEF l, pp
    <3> QED BY <1>14, <3>1
  <2> QED BY <2>1, <2>2 DEF sd, pp, SideOf
<1> HIDE DEF u, sd, pp, f
<1>17. /\ u.kid[s][p] = m /\ u.kid[Other(s)][p] = n1
       /\ u.kid[s][bro] = n2 /\ u.kid[Other(s)][bro] = far
       /\ u.kid[s][near] = p /\ u.kid[Other(s)][near] = bro
       /\ \A n \in Links \ M, r \in Sides :
            u.kid[r][n] = IF n = pp /\ pp # Nil /\ r = sd THEN near ELSE t.kid[r][n]
  <2>1. \A n \in Links, r \in Sides :
          u.kid[r][n] = IF n = p /\ r = Other(s) THEN n1
                        ELSE IF n = near /\ r = s THEN p
                        ELSE IF n = pp /\ pp # Nil /\ r = sd THEN near
                        ELSE x.kid[r][n]
    BY <1>15 DEF Turned
  <2>2. u.kid[s][p] = m /\ u.kid[Other(s)][p] = n1
    BY <1>1, <1>2, <1>4, <1>14, <2>1
  <2>3. u.kid[s][bro] = n2 /\ u.kid[Other(s)][bro] = far
    BY <1>1, <1>2, <1>4, <1>14, <2>1
  <2>4. u.kid[s][near] = p /\ u.kid[Other(s)][near] = bro
    BY <1>1, <1>2, <1>4, <1>5, <1>14, <2>1
  <2>5. ASSUME NEW n \in Links \ M, NEW r \in Sides
        PROVE  u.kid[r][n] = IF n = pp /\ pp # Nil /\ r = sd THEN near ELSE t.kid[r][n]
    <3>1. x.kid[r][n] = t.kid[r][n]
      BY <1>14, <2>5
    <3> QED BY <2>1, <2>5, <3>1
  <2> QED BY <2>2, <2>3, <2>4, <2>5
<1>18. /\ u.root = IF pp = Nil THEN near ELSE t.root
       /\ \A n \in Links :
            /\ u.color[n] = IF n = near THEN "black" ELSE IF n = bro THEN t.color[p] ELSE t.color[n]
            /\ u.parent[n] = IF n = n1 /\ n1 # Nil THEN p ELSE IF n = n2 /\ n2 # Nil THEN bro
                             ELSE IF n = p \/ n = bro THEN near ELSE IF n = near THEN pp ELSE t.parent[n]
  <2>1. /\ u.root = IF pp = Nil THEN near ELSE t.root
        /\ \A n \in Links : u.color[n] = w.color[n]
    BY <1>14, <1>15 DEF Turned
  <2>2. \A n \in Links : u.parent[n] = IF n = n1 /\ n1 # Nil THEN p ELSE IF n = p THEN near
                                       ELSE IF n = near THEN pp ELSE x.parent[n]
    BY <1>15 DEF Turned
  <2> QED BY <1>2, <1>5, <1>7, <1>8, <1>11, <1>14, <2>1, <2>2
<1>19. /\ f \in [Links -> Nat] /\ f[p] = g[p] - 1
       /\ f[near] = IF Red(t, p) THEN g[p] - 1 ELSE g[p]
       /\ \A n \in Links : n # p /\ n # near => f[n] = g[n]
  <2>1. g[p] - 1 \in Nat
    BY <1>3
  <2> QED BY <1>2, <1>3, <2>1 DEF f
<1>20. \A n \in Links \ M : High(u, f, n) = High(t, g, n)
  BY <1>18, <1>19, HighSame
<1>21. /\ High(u, f, m) = f[p] /\ High(u, f, n1) = f[p] /\ High(u, f, n2) = f[bro] /\ High(u, f, far) = f[bro]
       /\ High(u, f, p) = f[near] /\ High(u, f, bro) = f[near] /\ High(u, f, near) = High(t, g, p)
  <2>1. ~Red(u, near) /\ (Red(u, bro) <=> Red(t, p)) /\ (Red(u, p) <=> Red(t, p))
    BY <1>2, <1>5, <1>18 DEF Red
  <2>2. f[p] \in Nat /\ f[bro] = g[bro] /\ f[near] \in Nat
    BY <1>2, <1>19
  <2>3. /\ High(u, f, near) = f[near] + 1 /\ High(u, f, p) = f[p] + IF Red(t, p) THEN 0 ELSE 1
        /\ High(u, f, bro) = f[bro] + IF Red(t, p) THEN 0 ELSE 1
    BY <1>2, <1>5, <2>1 DEF High
  <2>4. /\ High(u, f, m) = High(t, g, m) /\ High(u, f, far) = High(t, g, far)
        /\ High(u, f, n1) = High(t, g, n1) /\ High(u, f, n2) = High(t, g, n2)
    BY <1>2, <1>5, <1>7, <1>8, <1>20
  <2> QED BY <1>3, <1>6, <1>19, <2>2, <2>3, <2>4
<1>22. ASSUME NEW n \in M, NEW r \in Sides PROVE High(u, f, u.kid[r][n]) = f[n]
  BY <1>4, <1>17, <1>21, <1>22
<1>23. Region(t, u, M, p, near)
  <2>1. M \subseteq Nodes(t) /\ t.parent[p] \notin M /\ \A k \in M \ {p} : t.parent[k] \in M /\ k # t.root
    BY <1>1, <1>2, <1>5 DEF pp
  <2>2. \A k \in Links \ M : u.color[k] = t.color[k]
    BY <1>18
  <2>3. \A n \in Links \ M, r \in Sides :
          u.kid[r][n] = IF n = t.parent[p] /\ t.parent[p] # Nil /\ r = sd THEN near ELSE t.kid[r][n]
    BY <1>17 DEF pp
  <2>4. p \in M
    OBVIOUS
  <2> HIDE DEF M
  <2> QED BY <1>15, <1>16, <2>1, <2>2, <2>3, <2>4, RegionIs
<1>24. Even(u)
  <2>1. p \in M \cup {Nil} /\ \A n \in Links \ M : f[n] = g[n]
    BY <1>19
  <2> HIDE DEF M
  <2>2. Certified(u, f, Nil, "left")
    BY <1>1, <1>19, <1>21, <1>22, <1>23, <2>1, Recertify DEF Tidy
  <2> QED BY <2>2 DEF Even
<1>25. Unpaired(u, {})
  <2> SUFFICES ASSUME NEW n \in Nodes(t), Red(u, n) PROVE ~Red(u, u.parent[n])
    BY <1>15 DEF Unpaired
  <2>0. n \in Links /\ n # Nil /\ t.parent[n] \in Links
    BY <1>2, NodeIs
  <2>1. n # near
    BY <1>2, <1>18 DEF Red
  <2>2. CASE n = p \/ n = bro
    <3>1. u.parent[n] = near
      BY <1>7, <1>8, <1>18, <2>0, <2>2
    <3> QED BY <1>2, <1>18, <3>1 DEF Red
  <2>3. CASE n # p /\ n # bro
    <3>1. Red(t, n)
      BY <1>18, <2>0, <2>1, <2>3 DEF Red
    <3>2. n # n1 /\ n # n2
      BY <1>7, <2>0, <3>1
    <3>3. u.parent[n] = t.parent[n] /\ ~Red(t, t.parent[n])
      BY <1>0, <1>18, <2>0, <2>1, <2>3, <3>1, <3>2 DEF Unpaired
    <3>4. t.parent[n] # bro
      BY <1>2, <2>1, <3>1
    <3> QED BY <1>18, <2>0, <3>3, <3>4 DEF Red
  <2> QED BY <2>2, <2>3
<1>26. ~Red(u, Nil) /\ ~Red(u, u.root)
  <2>1. t.root \in Links /\ Nil \in Links
    BY <1>2, LinksAre DEF Trees
  <2>2. pp # Nil => t.root # p
    BY <1>1, ParentIs DEF Tidy, pp
  <2> QED BY <1>0, <1>2, <1>5, <1>18, <2>1, <2>2 DEF Red
<1>27. Calm(u)
  BY <1>24, <1>25, <1>26 DEF Calm
<1> QED BY <1>27 DEF u, x, w, v

\* The balance does not depend on the parent of nil.
LEMMA SettledIs ==
  ASSUME NEW t, NEW b, Tidy(t, b), Even(t), ~Red(t, Nil)
  PROVE  Even(Settled(t)) /\ ~Red(Settled(t), Nil)
<1>1. t \in Trees /\ Nil \in Links
  BY LinksAre DEF Tidy, Shape
<1>2. Settled(t).kid = t.kid /\ Settled(t).color = t.color
  BY <1>1, SetParentIs DEF Settled
<1>3. Nodes(Settled(t)) = Nodes(t)
  BY SettledShape DEF Tidy
<1> QED BY <1>2, <1>3 DEF Even, Certified, High, Red

RedBrother == \E s \in Sides : Red(tree, tree.kid[s][tree.parent[cur]])

\* One turn of _adjustAfterDelete (rbtree.c:110-202).
LEMMA RepairDeleteRules ==
  ASSUME TreeInv, Sinking(tree, cur), RepairDelete
  PROVE  \/ pc' = "idle" /\ Even(tree') /\ ~Red(tree', Nil) /\ RedBrother
         \/ pc' = "idle" /\ Calm(tree')
         \/ pc' = "delete" /\ Sinking(tree', cur')
<1> DEFINE p == tree.parent[cur]
           s == IF cur = tree.kid["right"][p] THEN "right" ELSE "left"
           bro == tree.kid[Other(s)][p]
           near == tree.kid[s][bro]
           far == tree.kid[Other(s)][bro]
           c == tree.color[p]
           Over(t) == tree' = Settled(t) /\ pc' = "idle" /\ cur' = Nil
           t1 == Rotate(Paint(Paint(tree, {bro}, "black"), {near}, "red"), p, s)
           t2 == Paint(Paint(tree, {bro}, "red"), {p}, "black")
           t4 == Rotate(Rotate(Paint(Paint(tree, {bro}, c), {near}, "black"), bro, Other(s)), p, s)
           t5 == Rotate(Paint(Paint(tree, {bro}, c), {p, far}, "black"), p, s)
<1>1. PICK b : Tidy(tree, b)
  BY DEF TreeInv, Alike
<1>2. pc = "delete" /\ tree.root # cur
      /\ \/ Red(tree, bro) /\ Over(t1)
         \/ ~Red(tree, bro) /\ ~Red(tree, near) /\ ~Red(tree, far) /\ Red(tree, p) /\ Over(t2)
         \/ /\ ~Red(tree, bro) /\ ~Red(tree, near) /\ ~Red(tree, far) /\ ~Red(tree, p)
            /\ tree' = Paint(tree, {bro}, "red") /\ cur' = p /\ pc' = pc
         \/ ~Red(tree, bro) /\ Red(tree, near) /\ ~Red(tree, far) /\ Over(t4)
         \/ ~Red(tree, bro) /\ Red(tree, far) /\ Over(t5)
  BY Zenon DEF RepairDelete
<1>3. PICK g : Family(tree, cur, p, s, bro, near, far, g)
  BY <1>1, <1>2, FamilyHas, Zenon
<1>4. s \in Sides /\ Other(s) \in Sides /\ p \in Links /\ bro \in Links /\ c \in {"red", "black"}
  <2>1. s \in Sides
    BY DEF Sides
  <2> HIDE DEF s, p, bro, near, far
  <2>2. p \in Links /\ bro \in Links /\ tree \in Trees
    BY <1>1, <1>3, FamilyIs
  <2>3. c \in {"red", "black"}
    BY <2>2 DEF Trees
  <2> QED BY <2>1, <2>2, <2>3, SidesAre
<1> HIDE DEF s, p, bro, near, far, c
<1>5. ASSUME NEW d \in {"red", "black"}, NEW e \in {"red", "black"}, NEW N, NEW O
      PROVE  Alike(tree, Paint(Paint(tree, N, d), O, e))
  <2>1. Alike(tree, Paint(tree, N, d))
    BY PaintAlike DEF TreeInv
  <2> QED BY <2>1, PaintAlike
<1>6. ASSUME NEW t, Alike(tree, t), Over(t) PROVE
      /\ Even(t) /\ ~Red(t, Nil) => pc' = "idle" /\ Even(tree') /\ ~Red(tree', Nil)
      /\ Calm(t) => pc' = "idle" /\ Calm(tree')
  BY <1>6, SettledIs, SettledRules DEF Alike
<1> HIDE DEF Over
<1>7. CASE Red(tree, bro) /\ Over(t1)
  <2>1. Even(t1) /\ ~Red(t1, Nil)
    BY <1>1, <1>3, <1>7, RedBrotherRules
  <2>2. Alike(tree, t1)
    <3>1. Alike(tree, Paint(Paint(tree, {bro}, "black"), {near}, "red"))
      BY <1>5
    <3> QED BY <1>4, <3>1, RotateAlike
  <2> HIDE DEF t1
  <2>3. RedBrother
    BY <1>4, <1>7 DEF RedBrother, bro, p
  <2> QED BY <1>6, <1>7, <2>1, <2>2, <2>3
<1>8. CASE ~Red(tree, bro) /\ ~Red(tree, near) /\ ~Red(tree, far) /\ Red(tree, p) /\ Over(t2)
  <2>1. Calm(t2)
    BY <1>1, <1>3, <1>8, SinkHigher
  <2>2. Alike(tree, t2)
    BY <1>5
  <2> HIDE DEF t2
  <2> QED BY <1>6, <1>8, <2>1, <2>2
<1>9. CASE /\ ~Red(tree, bro) /\ ~Red(tree, near) /\ ~Red(tree, far) /\ ~Red(tree, p)
           /\ tree' = Paint(tree, {bro}, "red") /\ cur' = p /\ pc' = pc
  BY <1>1, <1>2, <1>3, <1>9, SinkHigher
<1>10. CASE ~Red(tree, bro) /\ Red(tree, near) /\ ~Red(tree, far) /\ Over(t4)
  <2>1. Calm(t4)
    BY <1>1, <1>3, <1>10, RedNearRules DEF c
  <2>2. Alike(tree, t4)
    <3>1. Alike(tree, Paint(Paint(tree, {bro}, c), {near}, "black"))
      BY <1>4, <1>5
    <3>2. Alike(tree, Rotate(Paint(Paint(tree, {bro}, c), {near}, "black"), bro, Other(s)))
      BY <1>4, <3>1, RotateAlike
    <3> QED BY <1>4, <3>2, RotateAlike
  <2> HIDE DEF t4
  <2> QED BY <1>6, <1>10, <2>1, <2>2
<1>11. CASE ~Red(tree, bro) /\ Red(tree, far) /\ Over(t5)
  <2>1. Calm(t5)
    BY <1>1, <1>3, <1>11, RedFarRules DEF c
  <2>2. Alike(tree, t5)
    <3>1. Alike(tree, Paint(Paint(tree, {bro}, c), {p, far}, "black"))
      BY <1>4, <1>5
    <3> QED BY <1>4, <3>1, RotateAlike
  <2> HIDE DEF t5
  <2> QED BY <1>6, <1>11, <2>1, <2>2
<1> QED BY <1>2, <1>7, <1>8, <1>9, <1>10, <1>11

\* The end of _adjustAfterDelete.
LEMMA EndDeleteRules ==
  ASSUME TreeInv, Sinking(tree, cur), EndDelete PROVE pc' = "idle" /\ Calm(tree')
<1>1. PICK b : Tidy(tree, b)
  BY DEF TreeInv, Alike
<1>2. tree.root = cur /\ tree' = Settled(tree) /\ pc' = "idle"
  BY DEF EndDelete, Sinking
<1>3. tree.parent[cur] = Nil
  BY <1>2 DEF Sinking
<1>4. \E s \in Sides : \E g : Certified(tree, g, Nil, s)
  BY <1>3 DEF Sinking
<1>5. \A n \in Nodes(tree) : n # Nil
  BY <1>1, NodeIs DEF Tidy, Shape
<1>6. Even(tree)
  BY <1>4, <1>5 DEF Even, Certified
<1>7. Calm(tree)
  BY <1>6 DEF Calm, Sinking
<1> QED BY <1>1, <1>2, <1>7, SettledRules

\* Between operations the paths have as many black nodes; during one, one node is out of order.
ColorInv ==
  /\ pc = "idle" => Even(tree) /\ ~Red(tree, Nil)
  /\ pc = "insert" => Rising(tree, cur)
  /\ pc = "delete" => Sinking(tree, cur)

\* The first tree is even.
LEMMA ColorInvInit == TreeInit => ColorInv
<1> SUFFICES ASSUME TreeInit PROVE ColorInv
  OBVIOUS
<1>1. Nodes(tree) = {}
  BY TreeInvInit
<1> DEFINE g == [n \in Links |-> 0]
<1>2. Certified(tree, g, Nil, "left")
  BY <1>1 DEF Certified
<1>3. ~Red(tree, Nil) /\ pc = "idle"
  BY LinksAre DEF TreeInit, Red
<1> QED BY <1>2, <1>3 DEF ColorInv, Even

\* The inductive step of the colors, and which operations keep the rules.
LEMMA ColorStep ==
  ASSUME TreeInv, ColorInv, [TreeNext]_treeVars
  PROVE  ColorInv' /\ (KeepsRules \/ UNCHANGED treeVars)
<1>1. PICK b : Tidy(tree, b)
  BY DEF TreeInv, Alike
<1>2. \E c : Tidy(tree', c)
  <2>1. TreeInv'
    BY TreeStep
  <2> QED BY <2>1 DEF TreeInv, Alike
<1>3. Ready => Calm(tree)
  BY <1>1, RedBlackIs DEF Ready, ColorInv, Calm
<1>4. Calm(tree') => RedBlack(tree')
  BY <1>2, RedBlackIs DEF Calm
<1>5. ASSUME pc' = "idle", Calm(tree') PROVE ColorInv' /\ KeepsRules
  BY <1>4, <1>5 DEF ColorInv, KeepsRules, Calm
<1>6. ASSUME pc' = "delete", Sinking(tree', cur') PROVE ColorInv' /\ KeepsRules
  BY <1>6 DEF ColorInv, KeepsRules
<1>7. ASSUME pc' = "insert", Rising(tree', cur') PROVE ColorInv' /\ KeepsRules
  BY <1>7 DEF ColorInv, KeepsRules
<1>8. ASSUME NEW k \in Keys, Insert(k) PROVE ColorInv' /\ KeepsRules
  <2>1. k \notin Nodes(tree) /\ Calm(tree)
    BY <1>1, <1>3, <1>8, FoundIsNode DEF Insert
  <2>2. tree' = LinkNew(tree, k, Descend(tree, k)) /\ cur' = k /\ pc' = "insert"
    BY <1>8 DEF Insert
  <2>3. Rising(LinkNew(tree, k, Descend(tree, k)), k)
    BY <1>1, <2>1, LinkRules DEF Calm
  <2> QED BY <1>7, <2>2, <2>3
<1>9. ASSUME NEW k \in Keys, Delete(k) PROVE ColorInv' /\ KeepsRules
  <2>1. Calm(tree)
    BY <1>3, <1>9 DEF Delete
  <2> QED BY <1>5, <1>6, <1>9, <2>1, DeleteRules
<1>10. CASE RepairInsert
  <2>1. Rising(tree, cur)
    BY <1>10, Zenon DEF RepairInsert, ColorInv
  <2> QED BY <1>7, <1>10, <2>1, RepairInsertRules
<1>11. CASE EndInsert
  <2>1. Rising(tree, cur)
    BY <1>11 DEF EndInsert, ColorInv
  <2> QED BY <1>5, <1>11, <2>1, EndInsertRules
<1>12. CASE RepairDelete
  <2>1. Sinking(tree, cur) /\ pc = "delete"
    BY <1>12, Zenon DEF RepairDelete, ColorInv
  <2>2. ASSUME pc' = "idle", Even(tree'), ~Red(tree', Nil), RedBrother PROVE ColorInv' /\ KeepsRules
    BY <2>1, <2>2 DEF ColorInv, KeepsRules, RedBrother
  <2> QED BY <1>5, <1>6, <1>12, <2>1, <2>2, RepairDeleteRules
<1>13. CASE EndDelete
  <2>1. Sinking(tree, cur)
    BY <1>13 DEF EndDelete, ColorInv
  <2> QED BY <1>5, <1>13, <2>1, EndDeleteRules
<1>14. CASE UNCHANGED treeVars
  BY <1>14 DEF treeVars, ColorInv
<1>15. CASE Broken
  BY <1>14, <1>15 DEF Broken
<1> QED BY <1>8, <1>9, <1>10, <1>11, <1>12, <1>13, <1>14, <1>15 DEF TreeNext

\* The certificates give what Balanced says of links, paths and brothers.
LEMMA BalancedIs == ASSUME TreeInv, ColorInv PROVE Balanced
<1>1. PICK b : Tidy(tree, b)
  BY DEF TreeInv, Alike
<1>2. Linked(tree) /\ Below(tree, tree.root) = Nodes(tree)
  BY <1>1, TreeLinked, BelowIsNodes
<1>3. Nodes(tree) = {k \in Keys : Found(tree, k)}
  BY FoundAre DEF TreeInv
<1>4. pc = "idle" => EvenBlacks(tree)
  BY <1>1, EvenIsEven DEF ColorInv
<1>5. ASSUME pc = "delete", tree.root # cur
      PROVE  \E s \in Sides : tree.kid[s][tree.parent[cur]] \notin {cur, Nil}
  <2> DEFINE p == tree.parent[cur]
             s == IF cur = tree.kid["right"][p] THEN "right" ELSE "left"
             bro == tree.kid[Other(s)][p]
  <2>1. Sinking(tree, cur)
    BY <1>5, SMTT(60) DEF ColorInv
  <2>2. PICK g : Family(tree, cur, p, s, bro, tree.kid[s][bro], tree.kid[Other(s)][bro], g)
    BY <1>1, <1>5, <2>1, FamilyHas, Zenon
  <2>3. Other(s) \in Sides
    BY SidesAre DEF Sides
  <2> HIDE DEF s, p
  <2>4. bro # cur /\ bro # Nil
    BY <1>1, <2>1, <2>2, FamilyIs
  <2> QED BY <2>3, <2>4, SMTT(60) DEF p
<1> QED BY <1>2, <1>3, <1>4, <1>5 DEF Balanced

\* Between operations the links agree both ways, every node is found by its key, and all
\* paths have as many black nodes; the repair of a deletion has a brother to look at
\* (rbtree.c:56-203).
THEOREM TreeIsBalanced == TreeSpec => []Balanced
<1>1. TreeInit => TreeInv /\ ColorInv
  BY TreeInvInit, ColorInvInit
<1>2. TreeInv /\ ColorInv /\ [TreeNext]_treeVars => TreeInv' /\ ColorInv'
  BY TreeStep, ColorStep
<1>3. TreeInv /\ ColorInv => Balanced
  BY BalancedIs
<1> QED BY <1>1, <1>2, <1>3, PTL DEF TreeSpec

\* An operation that starts in a red-black tree ends in one, except a deletion that finds a
\* red brother (rbtree.c:122-127, 164-170).
THEOREM TreeKeepsRules == TreeSpec => RulesKept
<1>1. TreeInit => TreeInv /\ ColorInv
  BY TreeInvInit, ColorInvInit
<1>2. TreeInv /\ ColorInv /\ [TreeNext]_treeVars => TreeInv' /\ ColorInv'
  BY TreeStep, ColorStep
<1>3. TreeInv /\ ColorInv /\ [TreeNext]_treeVars => [KeepsRules]_treeVars
  BY ColorStep
<1> QED BY <1>1, <1>2, <1>3, PTL DEF TreeSpec, RulesKept

\* The tree is balanced between operations, and every operation keeps its rules and the
\* other keys (rbtree.c:56-203, 250-357).
THEOREM TreeIsRight == TreeSpec => TreeRight
<1>1. RulesKept /\ [][OnlyItsKey]_treeVars => [][KeepsRules /\ OnlyItsKey]_treeVars
  <2>1. [KeepsRules]_treeVars /\ [OnlyItsKey]_treeVars => [KeepsRules /\ OnlyItsKey]_treeVars
    OBVIOUS
  <2> QED BY <2>1, PTL DEF RulesKept
<1> QED BY <1>1, TreeIsBalanced, TreeKeepsRules, TreeOnlyItsKey DEF TreeRight
=============================================================================
