-------------------------------- MODULE Kmp ---------------------------------
(***************************************************************************)
(* The pattern search of kmp.c: a turn of a loop is a step, of make_next   *)
(* while the table of prefixes is made, and of kmp after that.  Offsets    *)
(* count from 0: character t of text is text[t + 1].                       *)
(***************************************************************************)
EXTENDS Integers, Sequences

CONSTANTS
  Chars,     \* the characters of a text, none of them 0
  MaxText,   \* bound: length of the text
  MaxPattern \* bound: length of the pattern (next has room for 20)

VARIABLES
  text, pattern,
  next,                     \* the entries made so far
  prefixTail, subfixTail,   \* of make_next
  t, p,                     \* of kmp
  result                    \* what kmp returns

searchVars == <<text, pattern, next, prefixTail, subfixTail, t, p, result>>

Searching == -2   \* kmp has not returned

-----------------------------------------------------------------------------
(* make_next                                                               *)

Making == subfixTail < Len(pattern)
Extends == pattern[subfixTail + 1] = pattern[prefixTail + 1]

\* The inner loop goes back to the next shorter prefix.  (BadShorter, which goes back by one
\* character, is a wrong variant no specification uses.)
BadShorter == prefixTail - 1
Shorter == next[prefixTail]
FallBack ==
  /\ Making /\ prefixTail > 0 /\ ~Extends
  /\ prefixTail' = Shorter
  /\ UNCHANGED <<text, pattern, next, subfixTail, t, p, result>>

Enter ==
  /\ Making /\ (prefixTail = 0 \/ Extends)
  /\ prefixTail' = IF Extends THEN prefixTail + 1 ELSE prefixTail
  /\ next' = Append(next, prefixTail') /\ subfixTail' = subfixTail + 1
  /\ UNCHANGED <<text, pattern, t, p, result>>

-----------------------------------------------------------------------------
(* kmp                                                                     *)

Going == ~Making /\ result = Searching /\ t < Len(text)

Mismatch ==
  /\ Going /\ text[t + 1] # pattern[p + 1]
  /\ IF p = 0 THEN t' = t + 1 /\ p' = p ELSE p' = next[p] /\ t' = t
  /\ UNCHANGED <<text, pattern, next, prefixTail, subfixTail, result>>

Match ==
  /\ Going /\ text[t + 1] = pattern[p + 1]
  /\ p' = p + 1 /\ t' = t + 1
  /\ result' = IF p' = Len(pattern) THEN t' - Len(pattern) ELSE Searching
  /\ UNCHANGED <<text, pattern, next, prefixTail, subfixTail>>

End ==
  /\ ~Making /\ result = Searching /\ t = Len(text) /\ result' = -1
  /\ UNCHANGED <<text, pattern, next, prefixTail, subfixTail, t, p>>

-----------------------------------------------------------------------------
SearchInit ==
  /\ text \in UNION {[1..n -> Chars] : n \in 0..MaxText}
  /\ pattern \in UNION {[1..n -> Chars] : n \in 1..MaxPattern}
  /\ next = <<0>> /\ prefixTail = 0 /\ subfixTail = 1
  /\ t = 0 /\ p = 0 /\ result = Searching

SearchNext ==
  \/ FallBack \/ Enter \/ Mismatch \/ Match \/ End
  \/ result # Searching /\ UNCHANGED searchVars

SearchSpec == SearchInit /\ [][SearchNext]_searchVars

-----------------------------------------------------------------------------
(* Properties                                                              *)

Occurs(i) ==
  i + Len(pattern) <= Len(text) /\ SubSeq(text, i + 1, i + Len(pattern)) = pattern

\* The search gives the first place where the pattern occurs, and -1 if there is none.
FirstFound ==
  result # Searching =>
    IF \E i \in 0..(Len(text) - Len(pattern)) : Occurs(i)
    THEN Occurs(result) /\ \A i \in 0..(result - 1) : ~Occurs(i)
    ELSE result = -1

\* The p characters matched end at t, and no place before them can be an occurrence: that
\* next loses none is why the search never goes back in the text.
NoneSkipped ==
  result = Searching =>
    /\ SubSeq(text, t - p + 1, t) = SubSeq(pattern, 1, p)
    /\ \A i \in 0..(t - p - 1) : ~Occurs(i)

\* A search through a text finds the first occurrence, and misses none on the way
\* (kmp.c:30-83).
SearchRight == FirstFound /\ NoneSkipped
=============================================================================
