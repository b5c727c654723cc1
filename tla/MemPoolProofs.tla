---------------------------- MODULE MemPoolProofs ----------------------------
(***************************************************************************)
(* What is proved of MemPool for any size of block, any requests, any      *)
(* number of blocks and of refusals: the counters count, allocations never *)
(* overlap, and the pool implements Allocator.  Two results need more:     *)
(* that no block is overrun needs requests that leave room for a header,   *)
(* and that the list's end is always found needs fewer refusals than give  *)
(* up the last block.                                                      *)
(***************************************************************************)
EXTENDS MemPool, FiniteSetTheorems, TLAPS

At(S, b) == {x \in S : x.blk = b}

\* The blocks that were not made yet are empty; no piece is only a header.
Fresh ==
  /\ \A b \in Blocks : b > n => used[b] = 0 /\ failed[b] = 0 /\ refs[b] = 0
  /\ \A x \in pieces \cup buckets : x.len >= 2
  /\ IsFiniteSet(pieces) /\ IsFiniteSet(buckets)

IInv == TypeOK /\ NoOverlap /\ RefsCountUsers /\ Fresh

-----------------------------------------------------------------------------
(* Lemmas about the operators of the model                                 *)

\* One more allocation is one more at its block.
LEMMA CountAdd ==
  ASSUME NEW S, IsFiniteSet(S), NEW x, x \notin S, NEW b
  PROVE  /\ Cardinality(At(S, b)) \in Nat /\ Cardinality(At(S \cup {x}, b)) \in Nat
         /\ x.blk = b => Cardinality(At(S \cup {x}, b)) = Cardinality(At(S, b)) + 1
         /\ x.blk # b => Cardinality(At(S \cup {x}, b)) = Cardinality(At(S, b))
<1>1. IsFiniteSet(At(S, b)) /\ x \notin At(S, b) BY FS_Subset DEF At
<1>2. x.blk = b => At(S \cup {x}, b) = At(S, b) \cup {x} BY DEF At
<1>3. x.blk # b => At(S \cup {x}, b) = At(S, b) BY DEF At
<1>4. IsFiniteSet(S \cup {x}) BY FS_AddElement
<1>5. IsFiniteSet(At(S \cup {x}, b)) BY <1>4, FS_Subset DEF At
<1> QED BY <1>1, <1>2, <1>3, <1>5, FS_AddElement, FS_CardinalityType

\* One allocation less is one less at its block.
LEMMA CountDrop ==
  ASSUME NEW S, IsFiniteSet(S), NEW x \in S, NEW b
  PROVE  /\ Cardinality(At(S, b)) \in Nat /\ Cardinality(At(S \ {x}, b)) \in Nat
         /\ x.blk = b => Cardinality(At(S, b)) = Cardinality(At(S \ {x}, b)) + 1
         /\ x.blk # b => Cardinality(At(S, b)) = Cardinality(At(S \ {x}, b))
<1>1. IsFiniteSet(S \ {x}) /\ x \notin S \ {x} BY FS_Subset
<1>2. (S \ {x}) \cup {x} = S OBVIOUS
<1> QED BY <1>1, <1>2, CountAdd

\* A finite set with nothing at a block has nothing there.
LEMMA CountZero ==
  ASSUME NEW S, IsFiniteSet(S), NEW b
  PROVE  /\ Cardinality(At(S, b)) \in Nat
         /\ Cardinality(At(S, b)) = 0 => \A x \in S : x.blk # b
<1>1. IsFiniteSet(At(S, b)) BY FS_Subset DEF At
<1> QED BY <1>1, FS_CardinalityType, FS_EmptySet DEF At

\* Looking through the blocks keeps the types, and current_block in the list.
LEMMA LookFacts ==
  ASSUME TypeOK, n > 0, NEW len, Look(len)
  PROVE  /\ failed' \in [Blocks -> 0..MaxFail]
         /\ current' \in 0..n
         /\ \A b \in Blocks : failed'[b] = failed[b] \/ (b \in Passed(len) /\ failed'[b] = failed[b] + 1)
         /\ Passed(len) \subseteq 1..n
         /\ n \notin GivenUp(len) /\ current # NullBlock => current' # NullBlock
<1>1. failed' \in [Blocks -> 0..MaxFail]
  BY BoundsAssumption, SMTT(60) DEF Look, FailedAfter, TypeOK, Blocks
<1>2. \A b \in Blocks : failed'[b] = failed[b] \/ (b \in Passed(len) /\ failed'[b] = failed[b] + 1)
  BY DEF Look, FailedAfter, TypeOK
<1>3. Passed(len) \subseteq 1..n /\ GivenUp(len) \subseteq 1..n BY DEF Passed, GivenUp
<1>4. \A b \in GivenUp(len) : NextOf(b) \in 0..n /\ (b # n => NextOf(b) # NullBlock)
  BY <1>3 DEF NextOf, NullBlock, TypeOK
<1> QED BY <1>1, <1>2, <1>3, <1>4 DEF Look, TypeOK

\* What a new piece, of the client's or for a descriptor, changes; it overlaps
\* nothing.
LEMMA CarveFacts ==
  ASSUME IInv, n > 0, NEW b \in Blocks, NEW len \in Nat, len >= 2, NEW held \in {0, 1},
         Carve(b, len, held)
  PROVE  LET d == [blk |-> b, off |-> used[b], len |-> len]
         IN /\ n' \in 0..MaxBlocks /\ n' >= n /\ b =< n' /\ (n' = n \/ n' = n + 1)
            /\ current' \in 0..n' /\ failed' \in [Blocks -> 0..MaxFail]
            /\ used' \in [Blocks -> Nat] /\ refs' \in [Blocks -> Nat]
            /\ \A c \in Blocks : c > n' => used'[c] = 0 /\ failed'[c] = 0 /\ refs'[c] = 0
            /\ used' = [used EXCEPT ![b] = @ + len]
            /\ refs' = [refs EXCEPT ![b] = @ + held]
            /\ d \in Area /\ d \notin pieces \cup buckets /\ d.off + d.len =< used'[b]
            /\ \A x \in pieces \cup buckets :
                  /\ Disjoint(x, d) /\ Disjoint(d, x)
                  /\ x.blk =< n' /\ x.off + x.len =< used'[x.blk]
<1> DEFINE d == [blk |-> b, off |-> used[b], len |-> len]
<1>T. TypeOK /\ NoOverlap /\ Fresh BY DEF IInv
<1>L. Look(len) BY DEF Carve
<1>1. n' \in 0..MaxBlocks /\ n' >= n /\ b =< n' /\ (n' = n \/ n' = n + 1)
  <2>1. CASE InBlock(b, len) BY <2>1, <1>T DEF InBlock, Candidates, TypeOK
  <2>2. CASE InNewBlock(b, len) BY <2>2, <1>T DEF InNewBlock, TypeOK, Blocks
  <2> QED BY <2>1, <2>2 DEF Carve
<1>2. current' \in 0..n' /\ failed' \in [Blocks -> 0..MaxFail]
  BY <1>1, <1>L, <1>T, LookFacts DEF TypeOK
<1>3. /\ used' = [used EXCEPT ![b] = @ + len] /\ refs' = [refs EXCEPT ![b] = @ + held]
      /\ used' \in [Blocks -> Nat] /\ refs' \in [Blocks -> Nat]
  BY <1>T DEF Carve, TypeOK
<1>4. ASSUME NEW c \in Blocks, c > n' PROVE used'[c] = 0 /\ failed'[c] = 0 /\ refs'[c] = 0
  <2>1. c > n /\ c # b BY <1>1, <1>4, <1>T DEF TypeOK, Blocks
  <2>2. failed'[c] = failed[c] BY <2>1, <1>L, <1>T, LookFacts DEF TypeOK, Blocks
  <2> QED BY <2>1, <2>2, <1>3, <1>T DEF Fresh, TypeOK
<1>5. d \in Area /\ d.off + d.len =< used'[b] BY <1>3, <1>T DEF Area, TypeOK
<1>6. ASSUME NEW x \in pieces \cup buckets
      PROVE  /\ Disjoint(x, d) /\ Disjoint(d, x) /\ x # d
             /\ x.blk =< n' /\ x.off + x.len =< used'[x.blk]
  <2>1. x \in Area /\ x.blk =< n /\ x.off + x.len =< used[x.blk]
    BY <1>T DEF TypeOK, NoOverlap
  <2>2. x.blk \in Blocks /\ x.off \in Nat /\ x.len \in Nat \ {0} BY <2>1 DEF Area
  <2>3. x.blk = b => x.off + x.len =< d.off BY <2>1
  <2>4. x # d BY <2>2, <2>3
  <2>5. Disjoint(x, d) /\ Disjoint(d, x) BY <2>3 DEF Disjoint
  <2>6. x.blk =< n' BY <1>1, <1>T, <2>1, <2>2 DEF TypeOK, Blocks
  <2>7. x.off + x.len =< used'[x.blk] BY <1>3, <1>T, <2>1, <2>2 DEF TypeOK
  <2> QED BY <2>4, <2>5, <2>6, <2>7
<1> QED BY <1>1, <1>2, <1>3, <1>4, <1>5, <1>6

-----------------------------------------------------------------------------
(* The inductive invariant                                                 *)

\* Without a pool there is nothing.
LEMMA InitIInv == Init => IInv
<1> SUFFICES ASSUME Init PROVE IInv OBVIOUS
<1>1. TypeOK
  <2>1. Zero \in [Blocks -> Nat] /\ Zero \in [Blocks -> 0..MaxFail]
    BY BoundsAssumption DEF Zero
  <2>2. n \in 0..MaxBlocks /\ current \in 0..n /\ refusals \in 0..MaxRefusals
    BY BoundsAssumption DEF Init, NullBlock
  <2>3. auto \in BOOLEAN /\ lost \in BOOLEAN BY DEF Init
  <2>4. buckets \subseteq Area /\ big \subseteq buckets /\ pieces \subseteq Area BY DEF Init
  <2> QED BY <2>1, <2>2, <2>3, <2>4 DEF Init, TypeOK
<1>2. NoOverlap /\ RefsCountUsers BY DEF Init, NoOverlap, RefsCountUsers
<1>3. Fresh BY FS_EmptySet DEF Init, Fresh, Zero
<1> QED BY <1>1, <1>2, <1>3 DEF IInv

\* Nothing of the pool that IInv speaks of changes but failed and current.
LEMMA LookStep ==
  ASSUME IInv, n > 0, NEW len, Look(len),
         UNCHANGED <<n, auto, used, refs, buckets, big, pieces>>,
         lost' \in BOOLEAN, refusals' \in 0..MaxRefusals
  PROVE  IInv'
<1>T. TypeOK /\ NoOverlap /\ RefsCountUsers /\ Fresh BY DEF IInv
<1>1. TypeOK' BY <1>T, LookFacts DEF TypeOK
<1>2. NoOverlap' /\ RefsCountUsers' BY <1>T DEF NoOverlap, RefsCountUsers
<1>3. Fresh'
  <2>1. \A b \in Blocks : b > n => failed'[b] = failed[b]
    BY <1>T, LookFacts DEF TypeOK, Blocks
  <2> QED BY <1>T, <2>1 DEF Fresh
<1> QED BY <1>1, <1>2, <1>3 DEF IInv

\* A new piece of the client's.
LEMMA PieceStep ==
  ASSUME IInv, n > 0, NEW b \in Blocks, NEW len \in Nat, len >= 2, Carve(b, len, 1),
         pieces' = pieces \cup {[blk |-> b, off |-> used[b], len |-> len]},
         UNCHANGED <<auto, buckets, big, lost, refusals>>
  PROVE  IInv'
<1> DEFINE d == [blk |-> b, off |-> used[b], len |-> len]
<1>T. TypeOK /\ NoOverlap /\ RefsCountUsers /\ Fresh BY DEF IInv
<1>F. /\ n' \in 0..MaxBlocks /\ n' >= n /\ b =< n' /\ (n' = n \/ n' = n + 1)
      /\ current' \in 0..n' /\ failed' \in [Blocks -> 0..MaxFail]
      /\ used' \in [Blocks -> Nat] /\ refs' \in [Blocks -> Nat]
      /\ \A c \in Blocks : c > n' => used'[c] = 0 /\ failed'[c] = 0 /\ refs'[c] = 0
      /\ refs' = [refs EXCEPT ![b] = @ + 1]
      /\ d \in Area /\ d \notin pieces \cup buckets /\ d.off + d.len =< used'[b]
      /\ \A x \in pieces \cup buckets :
            /\ Disjoint(x, d) /\ Disjoint(d, x)
            /\ x.blk =< n' /\ x.off + x.len =< used'[x.blk]
  BY CarveFacts, 1 \in {0, 1}
<1>1. TypeOK' BY <1>T, <1>F DEF TypeOK
<1>2. NoOverlap'
  <2>1. \A x, y \in pieces' \cup buckets' : x # y => Disjoint(x, y)
    BY <1>T, <1>F DEF NoOverlap
  <2>2. \A x \in pieces' \cup buckets' : x.blk =< n' /\ x.off + x.len =< used'[x.blk]
    BY <1>T, <1>F
  <2> QED BY <1>T, <1>F, <2>1, <2>2 DEF NoOverlap, Disjoint
<1>3. ASSUME NEW c \in 1..n'
      PROVE  refs'[c] = Cardinality(At(pieces', c)) + Cardinality(At(big', c))
  <2>1. c \in Blocks BY <1>F, BoundsAssumption DEF Blocks
  <2>2. refs[c] = Cardinality(At(pieces, c)) + Cardinality(At(big, c))
    <3>1. CASE c =< n BY <1>3, <1>T, <3>1 DEF RefsCountUsers, At, TypeOK
    <3>2. CASE c > n
      <4>1. At(pieces, c) = {} /\ At(big, c) = {}
        BY <3>2, <1>T, <2>1 DEF At, NoOverlap, TypeOK, Area, Blocks
      <4> QED BY <3>2, <4>1, <2>1, <1>T, FS_EmptySet DEF Fresh
    <3> QED BY <3>1, <3>2, <1>T, <2>1 DEF TypeOK, Blocks
  <2>3. IsFiniteSet(pieces) /\ IsFiniteSet(big) BY <1>T, FS_Subset DEF Fresh, TypeOK
  <2>4. Cardinality(At(big, c)) \in Nat BY <2>3, CountZero
  <2> QED BY <1>T, <1>F, <2>1, <2>2, <2>3, <2>4, CountAdd DEF TypeOK
<1>4. Fresh' BY <1>T, <1>F, FS_AddElement DEF Fresh
<1> QED BY <1>1, <1>2, <1>3, <1>4 DEF IInv, RefsCountUsers, At

\* A new descriptor; it keeps its reference and gets its memory, or neither.
LEMMA DescriptorStep ==
  ASSUME IInv, n > 0, NEW b \in Blocks, NEW held \in {0, 1},
         Carve(b, Header + Descriptor, held),
         buckets = big,
         buckets' = buckets \cup {[blk |-> b, off |-> used[b], len |-> Header + Descriptor]},
         big' = IF held = 1 THEN buckets' ELSE big,
         UNCHANGED <<auto, pieces>>, lost' \in BOOLEAN, refusals' \in 0..MaxRefusals
  PROVE  IInv'
<1> DEFINE len == Header + Descriptor
           d == [blk |-> b, off |-> used[b], len |-> len]
<1>T. TypeOK /\ NoOverlap /\ RefsCountUsers /\ Fresh BY DEF IInv
<1>0. len \in Nat /\ len >= 2 /\ Carve(b, len, held) BY DEF Header, Descriptor
<1>F. /\ n' \in 0..MaxBlocks /\ n' >= n /\ b =< n' /\ (n' = n \/ n' = n + 1)
      /\ current' \in 0..n' /\ failed' \in [Blocks -> 0..MaxFail]
      /\ used' \in [Blocks -> Nat] /\ refs' \in [Blocks -> Nat]
      /\ \A c \in Blocks : c > n' => used'[c] = 0 /\ failed'[c] = 0 /\ refs'[c] = 0
      /\ refs' = [refs EXCEPT ![b] = @ + held]
      /\ d \in Area /\ d \notin pieces \cup buckets /\ d.off + d.len =< used'[b]
      /\ \A x \in pieces \cup buckets :
            /\ Disjoint(x, d) /\ Disjoint(d, x)
            /\ x.blk =< n' /\ x.off + x.len =< used'[x.blk]
  <2> HIDE DEF len
  <2> QED BY <1>0, CarveFacts
<1> HIDE DEF len
<1>B. buckets' = buckets \cup {d} BY DEF len
<1>1. TypeOK' BY <1>T, <1>F, <1>B DEF TypeOK
<1>2. NoOverlap'
  <2>1. \A x, y \in pieces' \cup buckets' : x # y => Disjoint(x, y)
    BY <1>T, <1>F, <1>B DEF NoOverlap
  <2>2. \A x \in pieces' \cup buckets' : x.blk =< n' /\ x.off + x.len =< used'[x.blk]
    BY <1>T, <1>F, <1>B
  <2> QED BY <1>T, <1>F, <1>B, <2>1, <2>2 DEF NoOverlap, Disjoint
<1>3. ASSUME NEW c \in 1..n'
      PROVE  refs'[c] = Cardinality(At(pieces', c)) + Cardinality(At(big', c))
  <2>1. c \in Blocks BY <1>F, BoundsAssumption DEF Blocks
  <2>2. refs[c] = Cardinality(At(pieces, c)) + Cardinality(At(big, c))
    <3>1. CASE c =< n BY <1>3, <1>T, <3>1 DEF RefsCountUsers, At, TypeOK
    <3>2. CASE c > n
      <4>1. At(pieces, c) = {} /\ At(big, c) = {}
        BY <3>2, <1>T, <2>1 DEF At, NoOverlap, TypeOK, Area, Blocks
      <4> QED BY <3>2, <4>1, <2>1, <1>T, FS_EmptySet DEF Fresh
    <3> QED BY <3>1, <3>2, <1>T, <2>1 DEF TypeOK, Blocks
  <2>3. IsFiniteSet(pieces) /\ IsFiniteSet(big) BY <1>T, FS_Subset DEF Fresh, TypeOK
  <2>4. Cardinality(At(pieces, c)) \in Nat /\ Cardinality(At(big, c)) \in Nat BY <2>3, CountZero
  <2>5. CASE held = 1
    <3>1. big' = big \cup {d} /\ d \notin big BY <2>5, <1>B, <1>F
    <3>2. /\ Cardinality(At(big', c)) \in Nat
          /\ b = c => Cardinality(At(big', c)) = Cardinality(At(big, c)) + 1
          /\ b # c => Cardinality(At(big', c)) = Cardinality(At(big, c))
      BY <3>1, <2>3, CountAdd
    <3> QED BY <1>T, <1>F, <2>1, <2>2, <2>4, <2>5, <3>2 DEF TypeOK
  <2>6. CASE held = 0 BY <1>T, <1>F, <2>1, <2>2, <2>4, <2>6 DEF TypeOK
  <2> QED BY <2>5, <2>6
<1>4. Fresh' BY <1>T, <1>0, <1>F, <1>B, FS_AddElement DEF Fresh
<1> QED BY <1>1, <1>2, <1>3, <1>4 DEF IInv, RefsCountUsers, At

\* A descriptor that is used again.
LEMMA ReuseStep == IInv /\ n > 0 /\ ReuseDescriptor /\ UNCHANGED <<auto, pieces>> => IInv'
<1> SUFFICES ASSUME IInv, n > 0, ReuseDescriptor, UNCHANGED <<auto, pieces>> PROVE IInv' OBVIOUS
<1>T. TypeOK /\ NoOverlap /\ RefsCountUsers /\ Fresh BY DEF IInv
<1>1. PICK d \in buckets \ big :
         \/ big' = big \cup {d} /\ refs' = OneMore(d.blk) /\ UNCHANGED refusals
         \/ Refuse /\ UNCHANGED <<big, refs>>
  BY DEF ReuseDescriptor
<1>2. UNCHANGED <<n, auto, current, used, failed, buckets, pieces, lost>> BY DEF ReuseDescriptor
<1>3. CASE big' = big \cup {d} /\ refs' = OneMore(d.blk) /\ UNCHANGED refusals
  <2>1. d.blk \in 1..n /\ d.blk \in Blocks BY <1>T DEF NoOverlap, TypeOK, Area, Blocks
  <2>2. TypeOK' BY <1>2, <1>3, <1>T, <2>1 DEF TypeOK, OneMore
  <2>3. ASSUME NEW c \in 1..n
        PROVE  refs'[c] = Cardinality(At(pieces, c)) + Cardinality(At(big', c))
    <3>1. IsFiniteSet(pieces) /\ IsFiniteSet(big) BY <1>T, FS_Subset DEF Fresh, TypeOK
    <3>2. Cardinality(At(pieces, c)) \in Nat BY <3>1, CountZero
    <3>3. refs[c] = Cardinality(At(pieces, c)) + Cardinality(At(big, c))
      BY <1>T DEF RefsCountUsers, At
    <3>4. /\ Cardinality(At(big, c)) \in Nat
          /\ d.blk = c => Cardinality(At(big', c)) = Cardinality(At(big, c)) + 1
          /\ d.blk # c => Cardinality(At(big', c)) = Cardinality(At(big, c))
      BY <1>3, <3>1, CountAdd
    <3>5. c \in Blocks BY <1>T, BoundsAssumption DEF TypeOK, Blocks
    <3> QED BY <1>3, <1>T, <3>2, <3>3, <3>4, <3>5 DEF OneMore, TypeOK
  <2>4. NoOverlap' BY <1>2, <1>T DEF NoOverlap
  <2>5. Fresh' BY <1>2, <1>3, <1>T, <2>1 DEF Fresh, OneMore, TypeOK
  <2> QED BY <1>2, <2>2, <2>3, <2>4, <2>5 DEF IInv, RefsCountUsers, At
<1>4. CASE Refuse /\ UNCHANGED <<big, refs>>
  BY <1>2, <1>4, <1>T, BoundsAssumption DEF IInv, TypeOK, NoOverlap, RefsCountUsers, Fresh, Refuse
<1> QED BY <1>1, <1>3, <1>4

\* An allocation is given back: a piece, or a bucket's own memory.
LEMMA ReleaseStep ==
  ASSUME IInv, NEW x \in pieces \cup big, NEW b, b = x.blk,
         pieces' = pieces \ {x}, Release(b, big \ {x}),
         UNCHANGED <<n, auto, lost, refusals>>
  PROVE  /\ IInv' /\ big' = big \ {x}
         /\ auto => used'[b] = 0 \/ refs'[b] # 0
         /\ \A c \in Blocks : c # b => used'[c] = used[c] /\ refs'[c] = refs[c]
         /\ \A d \in buckets : d.blk # b => d \in buckets'
<1>T. TypeOK /\ NoOverlap /\ RefsCountUsers /\ Fresh BY DEF IInv
<1>0. \A c \in 1..n : c \in Blocks /\ refs[c] \in Nat
  BY <1>T, BoundsAssumption DEF TypeOK, Blocks
<1>1. b \in 1..n /\ b \in Blocks /\ n > 0
  <2>1. x \in Area /\ x.blk =< n BY <1>T DEF TypeOK, NoOverlap
  <2> QED BY <2>1, <1>T, BoundsAssumption DEF Area, Blocks, TypeOK
<1>2. IsFiniteSet(pieces) /\ IsFiniteSet(big) BY <1>T, FS_Subset DEF Fresh, TypeOK
<1>3. ~(x \in pieces /\ x \in big) BY <1>T DEF NoOverlap, TypeOK
<1>P. PICK P : P = pieces \ {x} OBVIOUS
<1>B. PICK B : B = big \ {x} OBVIOUS
\* What the counters would have to be after the release.
<1>4. ASSUME NEW c \in 1..n
      PROVE  /\ Cardinality(At(P, c)) \in Nat /\ Cardinality(At(B, c)) \in Nat
             /\ c = b => refs[c] - 1 = Cardinality(At(P, c)) + Cardinality(At(B, c))
             /\ c # b => refs[c] = Cardinality(At(P, c)) + Cardinality(At(B, c))
  <2>1. refs[c] = Cardinality(At(pieces, c)) + Cardinality(At(big, c))
    BY <1>T DEF RefsCountUsers, At
  <2>2. Cardinality(At(pieces, c)) \in Nat /\ Cardinality(At(big, c)) \in Nat BY <1>2, CountZero
  <2>3. CASE x \in pieces
    <3>1. B = big /\ P = pieces \ {x} BY <1>P, <1>B, <1>3, <2>3
    <3>2. /\ Cardinality(At(P, c)) \in Nat
          /\ x.blk = c => Cardinality(At(pieces, c)) = Cardinality(At(P, c)) + 1
          /\ x.blk # c => Cardinality(At(pieces, c)) = Cardinality(At(P, c))
      BY <1>2, <2>3, <3>1, CountDrop
    <3> QED BY <1>0, <2>1, <2>2, <3>1, <3>2
  <2>4. CASE x \in big
    <3>1. P = pieces /\ B = big \ {x} BY <1>P, <1>B, <1>3, <2>4
    <3>2. /\ Cardinality(At(B, c)) \in Nat
          /\ x.blk = c => Cardinality(At(big, c)) = Cardinality(At(B, c)) + 1
          /\ x.blk # c => Cardinality(At(big, c)) = Cardinality(At(B, c))
      BY <1>2, <2>4, <3>1, CountDrop
    <3> QED BY <1>0, <2>1, <2>2, <3>1, <3>2
  <2> QED BY <2>3, <2>4
<1>5. refs[b] - 1 \in Nat BY <1>1, <1>4
<1>6. CASE auto /\ Unused(refs[b] - 1) /\ ClearBlock(b, big \ {x})
  <2>0. Unused(refs[b] - 1) BY <1>6
  <2>1. refs[b] - 1 = 0 BY <1>0, <1>1, <1>5, <2>0 DEF Unused
  <2>2. \A y \in (P) \cup (B) : y.blk # b
    <3>1. Cardinality(At(P, b)) = 0 /\ Cardinality(At(B, b)) = 0
      BY <1>0, <1>1, <1>4, <2>1
    <3>2. IsFiniteSet(P) /\ IsFiniteSet(B) BY <1>2, <1>P, <1>B, FS_Subset
    <3> QED BY <3>1, <3>2, CountZero
  <2>3. /\ refs' = [refs EXCEPT ![b] = 0] /\ failed' = [failed EXCEPT ![b] = 0]
        /\ used' = [used EXCEPT ![b] = 0] /\ current' = 1
        /\ buckets' = {d \in buckets : d.blk # b} /\ big' = B
    BY <1>B, <1>6, <2>2 DEF ClearBlock, Without
  <2>4. big' \subseteq buckets' BY <1>T, <1>B, <2>2, <2>3 DEF TypeOK
  <2>5. TypeOK' BY <1>T, <1>1, <2>3, <2>4, BoundsAssumption DEF TypeOK
  <2>6. NoOverlap'
    <3>1. \A y \in pieces' \cup buckets' : y \in pieces \cup buckets /\ y.blk # b
      BY <1>P, <2>2, <2>3
    <3>2. \A y \in pieces' \cup buckets' : y.blk \in Blocks BY <3>1, <1>T DEF TypeOK, Area
    <3> QED BY <1>T, <2>3, <3>1, <3>2 DEF NoOverlap, TypeOK
  <2>7. ASSUME NEW c \in 1..n
        PROVE  refs'[c] = Cardinality(At(pieces', c)) + Cardinality(At(big', c))
    <3>1. c \in Blocks BY <1>T, BoundsAssumption DEF TypeOK, Blocks
    <3> QED BY <1>T, <1>P, <1>4, <2>1, <2>3, <3>1 DEF TypeOK
  <2>8. Fresh'
    <3>1. IsFiniteSet(pieces') /\ IsFiniteSet(buckets') BY <1>T, <2>3, FS_Subset DEF Fresh
    <3> QED BY <1>T, <2>3, <3>1 DEF Fresh, TypeOK
  <2>9. IInv' BY <2>5, <2>6, <2>7, <2>8 DEF IInv, RefsCountUsers, At
  <2> QED BY <1>T, <1>1, <1>B, <2>3, <2>9 DEF TypeOK
<1>7. CASE /\ ~(auto /\ Unused(refs[b] - 1))
           /\ refs' = [refs EXCEPT ![b] = @ - 1] /\ big' = B
           /\ UNCHANGED <<failed, used, current, buckets>>
  <2>1. TypeOK' BY <1>T, <1>B, <1>1, <1>5, <1>7 DEF TypeOK
  <2>2. NoOverlap' BY <1>T, <1>7 DEF NoOverlap
  <2>3. ASSUME NEW c \in 1..n
        PROVE  refs'[c] = Cardinality(At(pieces', c)) + Cardinality(At(big', c))
    <3>1. c \in Blocks BY <1>T, BoundsAssumption DEF TypeOK, Blocks
    <3> QED BY <1>T, <1>P, <1>4, <1>7, <3>1 DEF TypeOK
  <2>4. Fresh'
    <3>1. IsFiniteSet(pieces') BY <1>T, FS_Subset DEF Fresh
    <3> QED BY <1>T, <1>1, <1>7, <3>1 DEF Fresh, TypeOK
  <2>5. IInv' BY <2>1, <2>2, <2>3, <2>4 DEF IInv, RefsCountUsers, At
  <2>6. auto => refs'[b] # 0
    <3>1. auto => ~Unused(refs[b] - 1) BY <1>7
    <3>2. refs'[b] = refs[b] - 1 BY <1>T, <1>1, <1>7 DEF TypeOK
    <3> QED BY <3>1, <3>2, <1>5 DEF Unused
  <2> QED BY <1>T, <1>1, <1>B, <1>7, <2>5, <2>6 DEF TypeOK
<1> QED BY <1>B, <1>6, <1>7 DEF Release

\* An empty pool, or none.
LEMMA EmptiedStep ==
  ASSUME IInv, Emptied, n' \in 0..n, current' \in 0..n', auto' \in BOOLEAN,
         lost' \in BOOLEAN, refusals' \in 0..MaxRefusals
  PROVE  IInv'
<1>T. TypeOK BY DEF IInv
<1>1. TypeOK'
  <2>1. used' \in [Blocks -> Nat] /\ refs' \in [Blocks -> Nat] /\ failed' \in [Blocks -> 0..MaxFail]
    BY BoundsAssumption DEF Emptied, Zero
  <2>2. n' \in 0..MaxBlocks BY <1>T, BoundsAssumption DEF TypeOK
  <2> QED BY <2>1, <2>2 DEF Emptied, TypeOK
<1>2. NoOverlap' BY DEF Emptied, NoOverlap
<1>3. RefsCountUsers'
  <2>1. ASSUME NEW b \in 1..n'
        PROVE  refs'[b] = Cardinality(At(pieces', b)) + Cardinality(At(big', b))
    <3>1. b \in Blocks BY <1>T, BoundsAssumption DEF TypeOK, Blocks
    <3>2. refs'[b] = 0 BY <3>1 DEF Emptied, Zero
    <3>3. At(pieces', b) = {} /\ At(big', b) = {} BY DEF Emptied, At
    <3> QED BY <3>2, <3>3, FS_EmptySet
  <2> QED BY <2>1 DEF RefsCountUsers, At
<1>4. Fresh' BY FS_EmptySet DEF Emptied, Fresh, Zero
<1> QED BY <1>1, <1>2, <1>3, <1>4 DEF IInv

\* Creating the pool.
LEMMA CreateStep == IInv /\ Create => IInv'
<1> SUFFICES ASSUME IInv, Create PROVE IInv' OBVIOUS
<1>T. TypeOK /\ NoOverlap /\ Fresh BY DEF IInv
<1>1. pieces = {} /\ buckets = {} /\ big = {}
  <2>1. ASSUME NEW x \in pieces \cup buckets PROVE FALSE
    <3>1. x.blk \in Blocks BY <1>T DEF TypeOK, Area
    <3>2. x.blk =< 0 BY <1>T DEF Create, NoOverlap
    <3> QED BY <3>1, <3>2, BoundsAssumption DEF Blocks
  <2> QED BY <2>1, <1>T DEF TypeOK
<1>2. TypeOK' BY <1>T, BoundsAssumption DEF Create, TypeOK
<1>3. RefsCountUsers'
  <2>1. 1 \in Blocks BY BoundsAssumption DEF Blocks
  <2>2. \A b \in 1..n' : b = 1 BY DEF Create
  <2>3. refs'[1] = 0 BY <1>T, <2>1 DEF Create, Fresh
  <2>4. ASSUME NEW b \in 1..n'
        PROVE  refs'[b] = Cardinality(At(pieces', b)) + Cardinality(At(big', b))
    <3>1. At(pieces', b) = {} /\ At(big', b) = {} BY <1>1 DEF Create, At
    <3> QED BY <2>2, <2>3, <3>1, FS_EmptySet
  <2> QED BY <2>4 DEF RefsCountUsers, At
<1>4. NoOverlap' BY <1>1 DEF Create, NoOverlap
<1>5. Fresh' BY <1>T DEF Create, Fresh, TypeOK, Blocks
<1> QED BY <1>2, <1>3, <1>4, <1>5 DEF IInv

\* Every call keeps the invariant.
LEMMA IInvStep == IInv /\ [Next]_vars => IInv'
<1> SUFFICES ASSUME IInv, [Next]_vars PROVE IInv' OBVIOUS
<1>T. TypeOK /\ NoOverlap BY DEF IInv
<1>R. Refuse => refusals' \in 0..MaxRefusals BY <1>T, BoundsAssumption DEF Refuse, TypeOK
<1>1. CASE Create BY <1>1, CreateStep
<1>2. CASE Reset BY <1>2, <1>T, EmptiedStep DEF Reset, TypeOK
<1>3. CASE Destroy
  <2>1. n' \in 0..n /\ current' \in 0..n' /\ refusals' \in 0..MaxRefusals
    BY <1>3, <1>T, BoundsAssumption DEF Destroy, TypeOK, NullBlock
  <2>2. auto' \in BOOLEAN /\ lost' \in BOOLEAN /\ Emptied BY <1>3, <1>T DEF Destroy, TypeOK
  <2> QED BY <2>1, <2>2, EmptiedStep
<1>4. ASSUME NEW size \in Sizes, MallocPiece(size) PROVE IInv'
  <2>1. n > 0 BY <1>4 DEF MallocPiece
  <2>2. size + Header \in Nat /\ size + Header >= 2 BY SizesAssumption DEF Header
  <2>3. ASSUME NEW b \in Blocks, Carve(b, size + Header, 1),
               pieces' = pieces \cup {[blk |-> b, off |-> used[b], len |-> size + Header]},
               UNCHANGED <<auto, buckets, big, lost, refusals>>
        PROVE  IInv'
    BY <2>1, <2>2, <2>3, PieceStep
  <2>4. CASE NoPiece(size + Header) /\ UNCHANGED <<pieces, auto, buckets, big, lost>>
    BY <2>1, <2>4, <1>R, <1>T, LookStep DEF NoPiece, TypeOK
  <2> QED BY <1>4, <2>3, <2>4 DEF MallocPiece
<1>5. ASSUME NEW size \in Sizes, MallocBucket(size) PROVE IInv'
  <2>1. n > 0 /\ UNCHANGED <<auto, pieces>> BY <1>5 DEF MallocBucket
  <2>2. CASE ReuseDescriptor BY <2>1, <2>2, ReuseStep
  <2>3. CASE NewDescriptor
    <3> DEFINE len == Header + Descriptor
    <3>1. CASE NoPiece(len) /\ UNCHANGED <<buckets, big, lost>>
      BY <2>1, <3>1, <1>R, <1>T, LookStep DEF NoPiece, TypeOK
    <3>2. ASSUME NEW b \in Blocks,
                 buckets' = buckets \cup {[blk |-> b, off |-> used[b], len |-> len]},
                 Uninitialised, Carve(b, len, 1),
                 big' = big \cup {[blk |-> b, off |-> used[b], len |-> len]},
                 UNCHANGED refusals
          PROVE  IInv'
      <4>1. buckets = big /\ big' = buckets' BY <2>3, <3>2 DEF NewDescriptor
      <4>2. lost' \in BOOLEAN /\ refusals' \in 0..MaxRefusals
        BY <1>T, <3>2 DEF Uninitialised, TypeOK
      <4> QED BY <2>1, <3>2, <4>1, <4>2, DescriptorStep, 1 \in {0, 1}
    <3>3. ASSUME NEW b \in Blocks,
                 buckets' = buckets \cup {[blk |-> b, off |-> used[b], len |-> len]},
                 Uninitialised, Carve(b, len, 0), Refuse, UNCHANGED big
          PROVE  IInv'
      <4>1. buckets = big /\ 0 # 1 BY <2>3 DEF NewDescriptor
      <4>2. lost' \in BOOLEAN /\ refusals' \in 0..MaxRefusals
        BY <1>R, <3>3 DEF Uninitialised
      <4> QED BY <2>1, <3>3, <4>1, <4>2, DescriptorStep, 0 \in {0, 1}
    <3> QED BY <2>3, <3>1, <3>2, <3>3 DEF NewDescriptor
  <2> QED BY <1>5, <2>2, <2>3 DEF MallocBucket
<1>6. ASSUME NEW p \in pieces, FreePiece(p) PROVE IInv'
  <2>1. big \ {p} = big BY <1>T DEF NoOverlap, TypeOK
  <2> QED BY <1>6, <2>1, ReleaseStep DEF FreePiece
<1>7. ASSUME NEW d \in big, FreeBucket(d) PROVE IInv'
  <2>1. pieces \ {d} = pieces BY <1>T DEF NoOverlap, TypeOK
  <2> QED BY <1>7, <2>1, ReleaseStep DEF FreeBucket
<1>8. CASE UNCHANGED vars
  BY <1>8 DEF vars, pool, IInv, TypeOK, NoOverlap, RefsCountUsers, Fresh
<1> QED BY <1>1, <1>2, <1>3, <1>4, <1>5, <1>6, <1>7, <1>8 DEF Next, Undefined

\* IInv holds in every state.
LEMMA InvariantHolds == Spec => []IInv
BY InitIInv, IInvStep, PTL DEF Spec

-----------------------------------------------------------------------------
(* What follows                                                            *)

\* The pool's fields stay well typed; no counter drops below zero (MemPool.c:262).
THEOREM TypeCorrect == Spec => []TypeOK
<1>1. IInv => TypeOK BY DEF IInv
<1> QED BY <1>1, InvariantHolds, PTL

\* A block's counter is the number of allocations in it (MemPool.c:49, 102, 109, 262).
THEOREM CounterIsUsers == Spec => []RefsCountUsers
<1>1. IInv => RefsCountUsers BY DEF IInv
<1> QED BY <1>1, InvariantHolds, PTL

\* Pieces and descriptors never overlap (MemPool.c:47-48, 181-183).
THEOREM PiecesAreApart == Spec => []NoOverlap
<1>1. IInv => NoOverlap BY DEF IInv
<1> QED BY <1>1, InvariantHolds, PTL

-----------------------------------------------------------------------------
(* No block is overrun                                                     *)

\* A request is served from a block only if its header fits there as well.
SizesFit == \A size \in Sizes : size =< BlockSize => size + Header =< BlockSize

\* A piece is cut from a block with room for it, or from an empty one.
LEMMA CarveInside ==
  ASSUME IInv, InsideBlocks, n > 0, NEW b \in Blocks, NEW len \in Nat, len =< BlockSize,
         NEW held, Carve(b, len, held)
  PROVE  InsideBlocks'
<1>T. TypeOK /\ Fresh BY DEF IInv
<1>0. BlockSize \in Nat /\ n \in Nat BY <1>T, SizesAssumption, BoundsAssumption DEF TypeOK
<1>1. used' = [used EXCEPT ![b] = @ + len] BY DEF Carve
<1>2. CASE InBlock(b, len)
  <2>1. b \in 1..n /\ Fits(b, len) /\ n' = n BY <1>2 DEF InBlock, Candidates
  <2>2. used[b] + len =< BlockSize BY <1>0, <1>T, <2>1 DEF InsideBlocks, Fits, TypeOK
  <2> QED BY <1>1, <1>T, <2>1, <2>2 DEF InsideBlocks, TypeOK
<1>3. CASE InNewBlock(b, len)
  <2>1. b = n + 1 /\ n' = b BY <1>3 DEF InNewBlock
  <2>2. used[b] = 0 BY <1>0, <1>T, <2>1 DEF Fresh
  <2>3. \A c \in 1..n' : c # b => c \in 1..n BY <1>0, <2>1
  <2>4. \A c \in 1..n' : c \in Blocks BY <2>1, BoundsAssumption DEF Blocks
  <2> QED BY <1>0, <1>1, <1>T, <2>1, <2>2, <2>3, <2>4 DEF InsideBlocks, TypeOK
<1> QED BY <1>2, <1>3 DEF Carve

\* No call makes a block longer than it is.
LEMMA InsideStep ==
  ASSUME SizesFit PROVE IInv /\ InsideBlocks /\ [Next]_vars => InsideBlocks'
<1> SUFFICES ASSUME IInv, InsideBlocks, [Next]_vars PROVE InsideBlocks' OBVIOUS
<1>T. TypeOK /\ Fresh BY DEF IInv
<1>0. BlockSize \in Nat /\ n \in Nat /\ \A b \in 1..n : b \in Blocks
  BY <1>T, SizesAssumption, BoundsAssumption DEF TypeOK, Blocks
<1>1. CASE UNCHANGED <<n, used>> BY <1>1 DEF InsideBlocks
<1>2. CASE Create
  <2>1. 1 \in Blocks /\ 1 > n BY <1>2, BoundsAssumption DEF Create, Blocks
  <2> QED BY <1>0, <1>2, <1>T, <2>1 DEF Create, Fresh, InsideBlocks
<1>3. CASE Reset \/ Destroy
  <2>1. Emptied /\ n' \in 0..n BY <1>0, <1>3 DEF Reset, Destroy
  <2> QED BY <1>0, <2>1 DEF Emptied, Zero, InsideBlocks
<1>4. ASSUME NEW size \in Sizes, MallocPiece(size) PROVE InsideBlocks'
  <2>1. n > 0 /\ size + Header \in Nat /\ size + Header =< BlockSize
    BY <1>4, SizesAssumption DEF MallocPiece, SizesFit, Header
  <2>2. CASE NoPiece(size + Header) BY <1>1, <2>2 DEF NoPiece
  <2> QED BY <1>4, <2>1, <2>2, CarveInside DEF MallocPiece
<1>5. ASSUME NEW size \in Sizes, MallocBucket(size) PROVE InsideBlocks'
  <2> DEFINE len == Header + Descriptor
  <2>1. n > 0 /\ len \in Nat /\ len =< BlockSize
    BY <1>5, SizesAssumption DEF MallocBucket, Header, Descriptor
  <2>2. CASE ReuseDescriptor \/ NoPiece(len) BY <1>1, <2>2 DEF ReuseDescriptor, NoPiece
  <2>3. ASSUME NEW b \in Blocks, NEW held, Carve(b, len, held) PROVE InsideBlocks'
    <3> HIDE DEF len
    <3> QED BY <2>1, <2>3, CarveInside
  <2> QED BY <1>5, <2>2, <2>3 DEF MallocBucket, NewDescriptor
<1>6. ASSUME NEW b, NEW left, Release(b, left), UNCHANGED n PROVE InsideBlocks'
  <2>1. CASE ClearBlock(b, left) BY <1>0, <1>6, <1>T, <2>1 DEF ClearBlock, InsideBlocks, TypeOK
  <2> QED BY <1>1, <1>6, <2>1 DEF Release
<1> QED BY <1>1, <1>2, <1>3, <1>4, <1>5, <1>6
        DEF Next, FreePiece, FreeBucket, Undefined, vars, pool

\* Blocks are not overrun (MemPool.c:45, 227), if no request lies between a block's
\* room for data and its size.
THEOREM NoOverrun ==
  ASSUME SizesFit
  PROVE  Spec => []InsideBlocks
<1>1. Init => InsideBlocks BY DEF Init, InsideBlocks
<1>2. IInv /\ InsideBlocks /\ [Next]_vars => InsideBlocks' BY InsideStep
<1> QED BY <1>1, <1>2, InvariantHolds, PTL DEF Spec

-----------------------------------------------------------------------------
(* The end of the block list                                               *)

\* The last block fails only when memory for another one is refused.
LastRarelyFails == n > 0 => current # NullBlock /\ failed[n] =< refusals

\* While refusals are few, a last block that failed once more is not given up.
LEMMA LastNotGivenUp ==
  ASSUME MaxRefusals + 1 < MaxFail, TypeOK, n > 0, failed[n] =< refusals, NEW len
  PROVE  n \notin GivenUp(len)
<1>1. n \in Blocks /\ failed[n] \in Nat /\ refusals \in 0..MaxRefusals
  BY BoundsAssumption DEF TypeOK, Blocks
<1>2. FailedAfter(len)[n] =< failed[n] + 1 BY <1>1 DEF FailedAfter
<1>3. FailedAfter(len)[n] \in Nat BY <1>1 DEF FailedAfter
<1> QED BY <1>1, <1>2, <1>3, BoundsAssumption DEF GivenUp, TooOften

\* Looking for room charges the last block only if there is none anywhere.
LEMMA LookAtLast ==
  ASSUME MaxRefusals + 1 < MaxFail, TypeOK, LastRarelyFails, n > 0, NEW len, Look(len)
  PROVE  /\ current' # NullBlock /\ failed'[n] =< failed[n] + 1
         /\ Candidates(len) # {} => failed'[n] = failed[n]
<1>0. n \in Blocks /\ n \in Nat /\ failed[n] \in Nat BY BoundsAssumption DEF TypeOK, Blocks
<1>1. n \notin GivenUp(len) BY LastNotGivenUp DEF LastRarelyFails
<1>2. current' # NullBlock BY <1>1, LookFacts DEF LastRarelyFails
<1>3. failed'[n] = failed[n] \/ (n \in Passed(len) /\ failed'[n] = failed[n] + 1)
  BY <1>0, LookFacts
<1>4. Candidates(len) # {} => n \notin Passed(len) BY <1>0 DEF Passed, Candidates
<1> QED BY <1>0, <1>2, <1>3, <1>4

\* A new piece: its block is the last one or another has room.
LEMMA CarveLast ==
  ASSUME MaxRefusals + 1 < MaxFail, IInv, LastRarelyFails, n > 0, NEW b \in Blocks,
         NEW len, NEW held, Carve(b, len, held), refusals' \in Nat, refusals' >= refusals
  PROVE  LastRarelyFails'
<1>T. TypeOK /\ Fresh BY DEF IInv
<1>0. Look(len) /\ n \in Nat /\ n \in Blocks /\ refusals \in Nat /\ failed[n] \in Nat
  BY <1>T, BoundsAssumption, SMTT(60) DEF Carve, TypeOK, Blocks
<1>1. CASE InBlock(b, len)
  <2>1. n' = n /\ Candidates(len) # {} BY <1>1 DEF InBlock
  <2> QED BY <1>0, <1>T, <2>1, LookAtLast DEF LastRarelyFails
<1>2. CASE InNewBlock(b, len)
  <2>1. b = n + 1 /\ n' = b BY <1>2 DEF InNewBlock
  <2>2. failed[b] = 0 /\ b \notin Passed(len) BY <1>0, <1>T, <2>1 DEF Fresh, Passed
  <2>3. failed'[b] = 0 BY <1>0, <1>T, <2>2, LookFacts
  <2> QED BY <1>0, <1>T, <2>1, <2>3, LookAtLast DEF LastRarelyFails
<1> QED BY <1>1, <1>2 DEF Carve

\* No call gives up the last block.
LEMMA LastStep ==
  ASSUME MaxRefusals + 1 < MaxFail
  PROVE  IInv /\ IInv' /\ LastRarelyFails /\ [Next]_vars => LastRarelyFails'
<1> SUFFICES ASSUME IInv, IInv', LastRarelyFails, [Next]_vars PROVE LastRarelyFails' OBVIOUS
<1>T. TypeOK /\ Fresh BY DEF IInv
<1>0. n \in Nat /\ refusals \in Nat /\ (n > 0 => n \in Blocks /\ failed[n] \in Nat)
  BY <1>T, BoundsAssumption DEF TypeOK, Blocks
<1>R. refusals' \in Nat /\ (Refuse => refusals' = refusals + 1)
  BY BoundsAssumption DEF Refuse, IInv, TypeOK
<1>1. CASE UNCHANGED <<n, failed, current>> /\ refusals' >= refusals
  BY <1>0, <1>1, <1>R DEF LastRarelyFails
<1>2. CASE Create
  <2>1. 1 \in Blocks /\ 1 > n BY <1>2, BoundsAssumption DEF Create, Blocks
  <2> QED BY <1>0, <1>2, <1>T, <2>1 DEF Create, Fresh, LastRarelyFails, NullBlock
<1>3. CASE Reset \/ Destroy
  BY <1>0, <1>3 DEF Reset, Destroy, Emptied, Zero, LastRarelyFails, NullBlock
<1>4. ASSUME NEW len, NoPiece(len), n > 0 PROVE LastRarelyFails'
  <2>1. Look(len) /\ n' = n /\ refusals' = refusals + 1 BY <1>4, <1>R DEF NoPiece
  <2>2. current' # NullBlock /\ failed'[n] =< failed[n] + 1 BY <1>4, <1>T, <2>1, LookAtLast
  <2>3. failed'[n] \in Nat BY <1>4, <1>0, <1>T, <2>1, LookFacts
  <2> QED BY <1>0, <1>4, <2>1, <2>2, <2>3 DEF LastRarelyFails
<1>5. ASSUME NEW size \in Sizes, MallocPiece(size) PROVE LastRarelyFails'
  <2>1. n > 0 BY <1>5 DEF MallocPiece
  <2> QED BY <1>0, <1>R, <1>4, <1>5, <2>1, CarveLast DEF MallocPiece
<1>6. ASSUME NEW size \in Sizes, MallocBucket(size) PROVE LastRarelyFails'
  <2>1. n > 0 BY <1>6 DEF MallocBucket
  <2>2. CASE ReuseDescriptor BY <1>0, <1>1, <1>R, <2>2 DEF ReuseDescriptor
  <2>3. ASSUME NEW b \in Blocks, NEW held, Carve(b, Header + Descriptor, held),
               UNCHANGED refusals \/ Refuse
        PROVE  LastRarelyFails'
    BY <1>0, <1>R, <2>1, <2>3, CarveLast
  <2> QED BY <1>4, <1>6, <2>1, <2>2, <2>3 DEF MallocBucket, NewDescriptor
<1>7. ASSUME NEW b, NEW left, Release(b, left), UNCHANGED <<n, refusals>> PROVE LastRarelyFails'
  <2>1. CASE ClearBlock(b, left)
    BY <1>0, <1>7, <1>T, <2>1 DEF ClearBlock, LastRarelyFails, TypeOK, NullBlock
  <2> QED BY <1>0, <1>1, <1>7, <2>1 DEF Release
<1>8. CASE UNCHANGED vars
  <2>1. UNCHANGED <<n, failed, current, refusals>> BY <1>8 DEF vars, pool
  <2> QED BY <1>0, <1>1, <2>1
<1>9. ASSUME NEW p \in pieces, FreePiece(p) PROVE LastRarelyFails' BY <1>7, <1>9 DEF FreePiece
<1>10. ASSUME NEW d \in big, FreeBucket(d) PROVE LastRarelyFails' BY <1>7, <1>10 DEF FreeBucket
<1> QED BY <1>2, <1>3, <1>5, <1>6, <1>8, <1>9, <1>10 DEF Next, Undefined

\* The end of the list can be found from current_block (MemPool.c:31, 57), if posix_memalign
\* refuses at least two times less than makes a block be given up.
THEOREM EndIsFound ==
  ASSUME MaxRefusals + 1 < MaxFail
  PROVE  Spec => []EndCanBeFound
<1>1. Init => LastRarelyFails BY DEF Init, LastRarelyFails
<1>2. IInv /\ IInv' /\ LastRarelyFails /\ [Next]_vars => LastRarelyFails' BY LastStep
<1>3. IInv /\ LastRarelyFails => EndCanBeFound
  BY LastNotGivenUp DEF IInv, LastRarelyFails, EndCanBeFound
<1> QED BY <1>1, <1>2, <1>3, InvariantHolds, PTL DEF Spec

-----------------------------------------------------------------------------
(* Unused blocks                                                           *)

\* A new piece is counted, or is a descriptor that stays in the list.
LEMMA CarveUsed ==
  ASSUME IInv, UnusedIsEmpty, n > 0, NEW b \in Blocks, NEW len \in Nat, len >= 2,
         NEW held \in {0, 1}, Carve(b, len, held), auto' = auto, buckets \subseteq buckets',
         held = 0 => \E d \in buckets' : d.blk = b
  PROVE  UnusedIsEmpty'
<1>T. TypeOK BY DEF IInv
<1>1. /\ n' \in 0..MaxBlocks /\ (n' = n \/ (n' = n + 1 /\ b = n'))
      /\ used' = [used EXCEPT ![b] = @ + len] /\ refs' = [refs EXCEPT ![b] = @ + held]
  BY CarveFacts DEF Carve, InBlock, InNewBlock
<1>2. n \in Nat /\ \A c \in 1..n' : c \in Blocks /\ refs[c] \in Nat /\ (c # b => c \in 1..n)
  <2>1. n \in Nat /\ MaxBlocks \in Nat BY <1>T, BoundsAssumption DEF TypeOK
  <2> SUFFICES ASSUME NEW c \in 1..n' PROVE c \in Blocks /\ refs[c] \in Nat /\ (c # b => c \in 1..n)
    BY <2>1
  <2>2. c \in Blocks BY <1>1, <2>1 DEF Blocks
  <2>3. refs[c] \in Nat BY <2>2, <1>T DEF TypeOK
  <2>4. c # b => c \in 1..n BY <1>1, <2>1
  <2> QED BY <2>2, <2>3, <2>4
<1>3. ASSUME NEW c \in 1..n', auto', refs'[c] = 0, used'[c] > 0
      PROVE  \E d \in buckets' : d.blk = c
  <2>1. CASE c = b
    <3>1. held = 0 BY <1>1, <1>2, <1>3, <1>T, <2>1 DEF TypeOK
    <3> QED BY <2>1, <3>1
  <2>2. CASE c # b
    <3>1. refs[c] = 0 /\ used[c] > 0 /\ c \in 1..n BY <1>1, <1>2, <1>3, <1>T, <2>2 DEF TypeOK
    <3> QED BY <1>3, <3>1 DEF UnusedIsEmpty
  <2> QED BY <2>1, <2>2
<1> QED BY <1>3 DEF UnusedIsEmpty

\* No call leaves an unused block behind that nothing can clear.
LEMMA UnusedStep == IInv /\ UnusedIsEmpty /\ [Next]_vars => UnusedIsEmpty'
<1> SUFFICES ASSUME IInv, UnusedIsEmpty, [Next]_vars PROVE UnusedIsEmpty' OBVIOUS
<1>T. TypeOK /\ NoOverlap /\ Fresh BY DEF IInv
<1>0. n \in Nat /\ \A c \in 1..n : c \in Blocks /\ refs[c] \in Nat /\ used[c] \in Nat
  BY <1>T, BoundsAssumption DEF TypeOK, Blocks
<1>1. CASE UNCHANGED <<n, auto, used, refs, buckets>> BY <1>1 DEF UnusedIsEmpty
<1>2. CASE Create
  <2>1. used[1] = 0
    <3>1. 1 \in Blocks /\ 1 > n BY <1>2, BoundsAssumption DEF Create, Blocks
    <3> QED BY <3>1, <1>T DEF Fresh
  <2> QED BY <1>2, <2>1 DEF Create, UnusedIsEmpty
<1>3. CASE Reset \/ Destroy
  <2>1. Emptied /\ n' \in 0..n BY <1>0, <1>3 DEF Reset, Destroy
  <2> QED BY <1>0, <2>1 DEF Emptied, Zero, UnusedIsEmpty
<1>4. ASSUME NEW size \in Sizes, MallocPiece(size) PROVE UnusedIsEmpty'
  <2>1. /\ n > 0 /\ UNCHANGED <<auto, buckets>>
        /\ size + Header \in Nat /\ size + Header >= 2
    BY <1>4, SizesAssumption DEF MallocPiece, Header
  <2>2. CASE NoPiece(size + Header) BY <1>1, <2>1, <2>2 DEF NoPiece
  <2>3. ASSUME NEW b \in Blocks, Carve(b, size + Header, 1) PROVE UnusedIsEmpty'
    BY <2>1, <2>3, CarveUsed, 1 \in {0, 1}
  <2> QED BY <1>4, <2>2, <2>3 DEF MallocPiece
<1>5. ASSUME NEW size \in Sizes, MallocBucket(size) PROVE UnusedIsEmpty'
  <2> DEFINE len == Header + Descriptor
  <2>1. n > 0 /\ auto' = auto /\ len \in Nat /\ len >= 2
    BY <1>5 DEF MallocBucket, Header, Descriptor
  <2>2. CASE ReuseDescriptor
    <3>1. PICK d \in buckets : refs' = OneMore(d.blk) \/ refs' = refs BY <2>2 DEF ReuseDescriptor
    <3>2. \A c \in 1..n : refs'[c] = 0 => refs[c] = 0 BY <1>0, <1>T, <3>1 DEF OneMore, TypeOK
    <3> QED BY <1>0, <2>1, <2>2, <3>2 DEF ReuseDescriptor, UnusedIsEmpty
  <2>3. CASE NoPiece(len) /\ UNCHANGED buckets BY <1>1, <2>1, <2>3 DEF NoPiece
  <2>4. ASSUME NEW b \in Blocks, NEW held \in {0, 1}, Carve(b, len, held),
               buckets' = buckets \cup {[blk |-> b, off |-> used[b], len |-> len]}
        PROVE  UnusedIsEmpty'
    <3>0. [blk |-> b, off |-> used[b], len |-> len] \in buckets' BY <2>4
    <3> HIDE DEF len
    <3>1. \E d \in buckets' : d.blk = b BY <3>0
    <3> QED BY <2>1, <2>4, <3>1, CarveUsed
  <2> QED BY <1>5, <2>2, <2>3, <2>4, 0 \in {0, 1}, 1 \in {0, 1} DEF MallocBucket, NewDescriptor
<1>6. ASSUME NEW x \in pieces \cup big, FreePiece(x) \/ FreeBucket(x) PROVE UnusedIsEmpty'
  <2>1. pieces' = pieces \ {x} /\ Release(x.blk, big \ {x}) /\ UNCHANGED <<n, auto, lost, refusals>>
    <3>1. CASE FreePiece(x)
      <4>1. big \ {x} = big BY <3>1, <1>T DEF FreePiece, NoOverlap, TypeOK
      <4> QED BY <3>1, <4>1 DEF FreePiece
    <3>2. CASE FreeBucket(x)
      <4>1. pieces \ {x} = pieces BY <3>2, <1>T DEF FreeBucket, NoOverlap, TypeOK
      <4> QED BY <3>2, <4>1 DEF FreeBucket
    <3> QED BY <1>6, <3>1, <3>2
  <2>2. /\ auto => used'[x.blk] = 0 \/ refs'[x.blk] # 0
        /\ \A c \in Blocks : c # x.blk => used'[c] = used[c] /\ refs'[c] = refs[c]
        /\ \A d \in buckets : d.blk # x.blk => d \in buckets'
    BY <2>1, ReleaseStep
  <2>3. ASSUME NEW c \in 1..n, auto, refs'[c] = 0, used'[c] > 0
        PROVE  \E d \in buckets' : d.blk = c
    <3>1. c # x.blk BY <2>2, <2>3
    <3>2. refs[c] = 0 /\ used[c] > 0 BY <1>0, <2>2, <2>3, <3>1
    <3>3. PICK d \in buckets : d.blk = c BY <2>3, <3>2 DEF UnusedIsEmpty
    <3> QED BY <2>2, <3>1, <3>3
  <2> QED BY <2>1, <2>3 DEF UnusedIsEmpty
<1> QED BY <1>1, <1>2, <1>3, <1>4, <1>5, <1>6 DEF Next, Undefined, vars, pool

\* With auto_clear no memory of an unused block is lost for ever, but for the
\* descriptor a refused bucket left there (MemPool.c:109, 267).
THEOREM UnusedIsCleared == Spec => []UnusedIsEmpty
<1>1. Init => UnusedIsEmpty BY DEF Init, UnusedIsEmpty
<1> QED BY <1>1, InvariantHolds, UnusedStep, PTL DEF Spec

-----------------------------------------------------------------------------
(* The abstract allocator                                                  *)

Live == {Words(p) : p \in pieces} \cup {{<<NullBlock, d>>} : d \in big}

\* Pieces are not empty, and different ones have no word in common.
LEMMA WordsApart ==
  ASSUME NEW P, P \subseteq Area, \A p \in P : p.len >= 2,
         \A p, q \in P : p # q => Disjoint(p, q)
  PROVE  /\ \A p \in P : Words(p) # {}
         /\ \A p, q \in P : p # q => Words(p) \cap Words(q) = {}
         /\ \A p \in P : \A d : Words(p) \cap {<<NullBlock, d>>} = {}
<1>0. \A p \in P : p.blk \in Nat /\ p.blk >= 1 /\ p.off \in Nat /\ p.len \in Nat /\ p.len >= 2
  BY BoundsAssumption DEF Area, Blocks
<1>1. ASSUME NEW p \in P PROVE Words(p) # {}
  <2>1. p.off + Header \in (p.off + Header)..(p.off + p.len - 1) BY <1>0 DEF Header
  <2> QED BY <2>1 DEF Words
<1>2. ASSUME NEW p \in P, NEW q \in P, p # q PROVE Words(p) \cap Words(q) = {}
  <2> SUFFICES ASSUME NEW v \in (p.off + Header)..(p.off + p.len - 1),
                      NEW w \in (q.off + Header)..(q.off + q.len - 1),
                      <<p.blk, v>> = <<q.blk, w>>
               PROVE  FALSE
    BY DEF Words
  <2>1. p.blk = q.blk /\ v = w OBVIOUS
  <2>2. Disjoint(p, q) BY <1>2
  <2> QED BY <1>0, <2>1, <2>2 DEF Disjoint, Header
<1>3. ASSUME NEW p \in P, NEW d PROVE Words(p) \cap {<<NullBlock, d>>} = {}
  BY <1>0 DEF Words, NullBlock
<1> QED BY <1>1, <1>2, <1>3

\* A piece more is an allocation more.
LEMMA PieceIsAlloc ==
  ASSUME IInv', NEW p, p \notin pieces, pieces' = pieces \cup {p}, big' = big
  PROVE  Heap!Alloc
<1>1. Live' = Live \cup {Words(p)} BY DEF Live, Words, Header
<1>2. p \in pieces' /\ \A q \in pieces : q \in pieces' /\ p # q OBVIOUS
<1>3. /\ Words(p) # {}
      /\ \A q \in pieces : Words(p) \cap Words(q) = {}
      /\ \A d : Words(p) \cap {<<NullBlock, d>>} = {}
  <2>1. /\ pieces' \subseteq Area /\ \A q \in pieces' : q.len >= 2
        /\ \A q, r \in pieces' : q # r => Disjoint(q, r)
    BY DEF IInv, TypeOK, Fresh, NoOverlap, Disjoint
  <2> QED BY <1>2, <2>1, WordsApart
<1>4. \A a \in Live : Words(p) \cap a = {} BY <1>3 DEF Live
<1>5. Words(p) \in Live' \ Live BY <1>1, <1>3, <1>4
<1> QED BY <1>1, <1>3, <1>4, <1>5 DEF Heap!Alloc, Live

\* A bucket in use more is an allocation more.
LEMMA BucketIsAlloc ==
  ASSUME IInv, NEW d, d \notin big, big' = big \cup {d}, pieces' = pieces
  PROVE  Heap!Alloc
<1>1. Live' = Live \cup {{<<NullBlock, d>>}} BY DEF Live, Words, Header
<1>2. \A q \in pieces : Words(q) \cap {<<NullBlock, d>>} = {}
  <2>1. /\ pieces \subseteq Area /\ \A q \in pieces : q.len >= 2
        /\ \A q, r \in pieces : q # r => Disjoint(q, r)
    BY DEF IInv, TypeOK, Fresh, NoOverlap
  <2> QED BY <2>1, WordsApart
<1>3. \A e \in big : {<<NullBlock, d>>} \cap {<<NullBlock, e>>} = {} OBVIOUS
<1>4. \A a \in Live : {<<NullBlock, d>>} \cap a = {} BY <1>2, <1>3 DEF Live
<1>5. {<<NullBlock, d>>} \in Live' \ Live BY <1>1, <1>4
<1> QED BY <1>1, <1>4, <1>5 DEF Heap!Alloc, Live

\* One piece or one bucket less is one allocation less.
LEMMA ReleaseIsFree ==
  ASSUME IInv, NEW x \in pieces \cup big, pieces' = pieces \ {x}, big' = big \ {x}
  PROVE  Heap!Free
<1>T. TypeOK /\ NoOverlap BY DEF IInv
<1>0. /\ \A p \in pieces : Words(p) # {}
      /\ \A p, q \in pieces : p # q => Words(p) \cap Words(q) = {}
      /\ \A p \in pieces : \A d : Words(p) \cap {<<NullBlock, d>>} = {}
  <2>1. /\ pieces \subseteq Area /\ \A q \in pieces : q.len >= 2
        /\ \A q, r \in pieces : q # r => Disjoint(q, r)
    BY DEF IInv, TypeOK, Fresh, NoOverlap
  <2> QED BY <2>1, WordsApart
<1>W. Live' = {Words(p) : p \in pieces'} \cup {{<<NullBlock, d>>} : d \in big'}
  BY DEF Live, Words, Header
<1>1. CASE x \in pieces
  <2>1. big' = big BY <1>1, <1>T DEF NoOverlap, TypeOK
  <2>2. \A p \in pieces : p # x => Words(p) # Words(x) BY <1>0, <1>1
  <2>3. \A d : {<<NullBlock, d>>} # Words(x) BY <1>0, <1>1
  <2>4. ASSUME NEW a PROVE a \in Live' <=> a \in Live \ {Words(x)}
    BY <1>W, <1>1, <2>1, <2>2, <2>3 DEF Live
  <2>5. Words(x) \in Live /\ Live' = Live \ {Words(x)} BY <1>1, <2>4 DEF Live
  <2> QED BY <2>5 DEF Heap!Free, Live
<1>2. CASE x \in big
  <2>1. pieces' = pieces BY <1>2, <1>T DEF NoOverlap, TypeOK
  <2>2. \A p \in pieces : Words(p) # {<<NullBlock, x>>} BY <1>0
  <2>0. ASSUME NEW d, {<<NullBlock, d>>} = {<<NullBlock, x>>} PROVE d = x
    <3>1. <<NullBlock, d>> \in {<<NullBlock, x>>} BY <2>0
    <3> QED BY <3>1
  <2>3. ASSUME NEW a PROVE a \in Live' <=> a \in Live \ {{<<NullBlock, x>>}}
    BY <1>W, <1>2, <2>0, <2>1, <2>2 DEF Live
  <2>4. {<<NullBlock, x>>} \in Live /\ Live' = Live \ {{<<NullBlock, x>>}} BY <1>2, <2>3 DEF Live
  <2> QED BY <2>4 DEF Heap!Free, Live
<1> QED BY <1>1, <1>2

\* Every call is a step of the allocator or changes no allocation.
LEMMA AllocatorStep == IInv /\ IInv' /\ [Next]_vars => [Heap!Next]_Live
<1> SUFFICES ASSUME IInv, IInv', [Next]_vars PROVE [Heap!Next]_Live OBVIOUS
<1>T. TypeOK /\ NoOverlap BY DEF IInv
<1>1. CASE UNCHANGED <<pieces, big>> BY <1>1 DEF Live, Words, Header
<1>2. CASE Reset \/ Destroy
  <2>1. Live' = {} BY <1>2 DEF Reset, Destroy, Emptied, Live
  <2> QED BY <2>1 DEF Heap!Next, Heap!Reset, Live
<1>3. ASSUME NEW size \in Sizes, MallocPiece(size) PROVE [Heap!Next]_Live
  <2>1. n > 0 /\ big' = big BY <1>3 DEF MallocPiece
  <2>2. size + Header \in Nat /\ size + Header >= 2 BY SizesAssumption DEF Header
  <2>3. ASSUME NEW b \in Blocks, Carve(b, size + Header, 1),
               pieces' = pieces \cup {[blk |-> b, off |-> used[b], len |-> size + Header]}
        PROVE  Heap!Alloc
    <3>1. [blk |-> b, off |-> used[b], len |-> size + Header] \notin pieces
      BY <2>1, <2>2, <2>3, CarveFacts, 1 \in {0, 1}
    <3> QED BY <2>1, <2>3, <3>1, PieceIsAlloc
  <2> QED BY <1>1, <1>3, <2>1, <2>3 DEF MallocPiece, Heap!Next
<1>4. ASSUME NEW size \in Sizes, MallocBucket(size) PROVE [Heap!Next]_Live
  <2>1. n > 0 /\ pieces' = pieces BY <1>4 DEF MallocBucket
  <2>2. ASSUME NEW d, d \notin big, big' = big \cup {d} PROVE Heap!Alloc
    BY <2>1, <2>2, BucketIsAlloc
  <2>3. ASSUME NEW b \in Blocks, Carve(b, Header + Descriptor, 1)
        PROVE  [blk |-> b, off |-> used[b], len |-> Header + Descriptor] \notin big
    <3>1. Header + Descriptor \in Nat /\ Header + Descriptor >= 2 BY DEF Header, Descriptor
    <3> QED BY <1>T, <2>1, <2>3, <3>1, CarveFacts, 1 \in {0, 1} DEF TypeOK
  <2>4. CASE ReuseDescriptor BY <1>1, <2>1, <2>2, <2>4 DEF ReuseDescriptor, Heap!Next
  <2>5. CASE NewDescriptor BY <1>1, <2>1, <2>2, <2>3, <2>5 DEF NewDescriptor, Heap!Next
  <2> QED BY <1>4, <2>4, <2>5 DEF MallocBucket
<1>5. ASSUME NEW x \in pieces \cup big, FreePiece(x) \/ FreeBucket(x) PROVE Heap!Next
  <2>1. pieces' = pieces \ {x} /\ Release(x.blk, big \ {x}) /\ UNCHANGED <<n, auto, lost, refusals>>
    <3>1. CASE FreePiece(x)
      <4>1. big \ {x} = big BY <3>1, <1>T DEF FreePiece, NoOverlap, TypeOK
      <4> QED BY <3>1, <4>1 DEF FreePiece
    <3>2. CASE FreeBucket(x)
      <4>1. pieces \ {x} = pieces BY <3>2, <1>T DEF FreeBucket, NoOverlap, TypeOK
      <4> QED BY <3>2, <4>1 DEF FreeBucket
    <3> QED BY <1>5, <3>1, <3>2
  <2>2. big' = big \ {x} BY <2>1, ReleaseStep
  <2> QED BY <2>1, <2>2, ReleaseIsFree DEF Heap!Next
<1> QED BY <1>1, <1>2, <1>3, <1>4, <1>5 DEF Next, Create, Undefined, vars, pool

\* The pool is an allocator of disjoint allocations that never takes one back by
\* itself (MemPool.c:38, 75, 237, 272).
THEOREM PoolImplementsAllocator == Spec => ImplementsAllocator
<1>1. Init => Heap!Init BY DEF Init, Heap!Init
<1>2. IInv /\ IInv' /\ [Next]_vars => [Heap!Next]_Live BY AllocatorStep
<1> QED BY <1>1, <1>2, InvariantHolds, PTL DEF Spec, ImplementsAllocator, Heap!Spec, Live

\* Allocations lie apart and inside their blocks (MemPool.c:45-48, 181-183, 227), if no
\* request lies between a block's room for data and its size.
THEOREM AllIsLaidOut ==
  ASSUME SizesFit
  PROVE  Spec => []LaidOut
<1>1. TypeOK /\ NoOverlap /\ InsideBlocks => LaidOut BY DEF LaidOut
<1> QED BY <1>1, TypeCorrect, PiecesAreApart, NoOverrun, PTL

\* Blocks can be found and used again (MemPool.c:31, 57, 109, 262, 267), if memory is
\* refused at least two times less than makes a block be given up.
THEOREM BlocksAreReusable ==
  ASSUME MaxRefusals + 1 < MaxFail
  PROVE  Spec => []Reusable
<1>1. RefsCountUsers /\ EndCanBeFound /\ UnusedIsEmpty => Reusable BY DEF Reusable
<1> QED BY <1>1, CounterIsUsers, EndIsFound, UnusedIsCleared, PTL
=============================================================================
