--------------------------------- MODULE Sds ---------------------------------
(***************************************************************************)
(* The strings of hiredis (sds.c, sds.h): a header whose kind fixes how    *)
(* long a string it can describe, and memory that the kind of the header   *)
(* moves with.  Kinds 16, 32 and 64 behave alike and are one kind here; a  *)
(* header of kind 5 does not say how much room there is.                   *)
(***************************************************************************)
EXTENDS Integers, Sequences, FiniteSetsExt

CONSTANTS
  Width5, Width8,      \* numbers a header of kind 5 and 8 can hold: 32, 256
  SDS_MAX_PREALLOC,
  MaxLen,              \* bound: length of a string
  Texts,               \* what is put into strings: sequences of bytes, 0 is the terminator
  Indexes,             \* bound: what sdsrange is asked for
  Trimmed              \* the characters trimmed and mapped

ASSUME SdsAssumption ==
  /\ {Width5, Width8, SDS_MAX_PREALLOC, MaxLen} \subseteq Nat
  /\ 0 < Width5 /\ Width5 <= Width8
  /\ Texts \subseteq Seq(Nat) /\ Trimmed \subseteq Nat /\ Indexes \subseteq Int

VARIABLES
  string,  \* [kind, len, alloc]: the header; room: bytes there are before the terminator;
           \* bytes: those up to len and the terminator; over: written beyond the memory
  meant    \* history: the string that is meant

stringVars == <<string, meant>>

Nul == 0

-----------------------------------------------------------------------------
(* The header                                                              *)

Hold(kind, n) == CASE kind = 5 -> n % Width5 [] kind = 8 -> n % Width8 [] OTHER -> n
sdsReqType(n) == IF n < Width5 THEN 5 ELSE IF n < Width8 - 1 THEN 8 ELSE 16

sdsalloc(x) == IF x.kind = 5 THEN x.len ELSE x.alloc
sdsavail(x) == IF x.kind = 5 THEN 0 ELSE x.alloc - x.len
sdssetlen(x, n) == [x EXCEPT !.len = Hold(x.kind, n)]
sdssetalloc(x, n) == IF x.kind = 5 THEN x ELSE [x EXCEPT !.alloc = Hold(x.kind, n)]

\* Write t behind the first n bytes; what is behind t is never read.
Write(x, n, t) ==
  [x EXCEPT !.bytes = SubSeq(@, 1, n) \o t, !.over = @ \/ n + Len(t) > x.room + 1]
Ended(x, n) == Write(sdssetlen(x, n), n, <<Nul>>)

-----------------------------------------------------------------------------
(* Memory                                                                  *)

\* A string of a kind with room for n bytes.  Where the kind stays, only the memory changes.
Moved(x, kind, n) ==
  sdssetalloc([x EXCEPT !.kind = kind, !.len = Hold(kind, @), !.room = n], n)

sdsnewlen(t) ==
  LET kind == IF t = <<>> THEN 8 ELSE sdsReqType(Len(t))
      new == [kind |-> kind, len |-> Hold(kind, Len(t)), alloc |-> 0, room |-> Len(t),
              bytes |-> <<>>, over |-> FALSE]
  IN  Write(sdssetalloc(new, Len(t)), 0, t \o <<Nul>>)

Larger(n) == IF n < SDS_MAX_PREALLOC THEN 2 * n ELSE n + SDS_MAX_PREALLOC
sdsMakeRoomFor(x, n) ==
  IF sdsavail(x) >= n THEN x
  ELSE LET room == Larger(x.len + n)
           kind == IF sdsReqType(room) = 5 THEN 8 ELSE sdsReqType(room)
       IN  Moved(x, kind, room)

sdsRemoveFreeSpace(x) == Moved(x, sdsReqType(x.len), x.len)

-----------------------------------------------------------------------------
(* Putting something in                                                    *)

sdscatlen(x, t) ==
  LET y == sdsMakeRoomFor(x, Len(t)) IN Ended(Write(y, x.len, t), x.len + Len(t))

sdscpylen(x, t) ==
  LET y == IF sdsalloc(x) < Len(t) THEN sdsMakeRoomFor(x, Len(t) - x.len) ELSE x
  IN  Ended(Write(y, 0, t), Len(t))

sdsgrowzero(x, n) ==
  IF n <= x.len THEN x
  ELSE Ended(Write(sdsMakeRoomFor(x, n - x.len), x.len, [i \in 1..(n - x.len) |-> Nul]), n)

\* sdscatfmt: room for one byte is made before a byte or an argument of the format, and for
\* all of the argument if there is less; the terminator comes at the end.
AddByte(x, b) ==
  LET y == IF sdsavail(x) = 0 THEN sdsMakeRoomFor(x, 1) ELSE x
  IN  sdssetlen(Write(y, x.len, <<b>>), x.len + 1)
AddArgument(x, t) ==
  LET y == IF sdsavail(x) = 0 THEN sdsMakeRoomFor(x, 1) ELSE x
      z == IF sdsavail(y) < Len(t) THEN sdsMakeRoomFor(y, Len(t)) ELSE y
  IN  sdssetlen(Write(z, x.len, t), x.len + Len(t))
sdscatfmt(x, t, b, u) ==
  LET y == AddArgument(AddByte(AddArgument(x, t), b), u) IN Write(y, y.len, <<Nul>>)

\* The caller asks for room, has at most that much written there, and adds what was;
\* the assertion of sdsIncrLen is part of what is checked.
IncrAllowed(x, k) ==
  CASE x.kind = 5 -> (k > 0 /\ x.len + k < Width5) \/ (k < 0 /\ x.len >= -k)
    [] OTHER -> (k >= 0 /\ x.alloc - x.len >= k) \/ (k < 0 /\ x.len >= -k)
sdsIncrLen(x, k) == Ended([x EXCEPT !.over = @ \/ ~IncrAllowed(x, k)], x.len + k)
ReadInto(x, n, t) == sdsIncrLen(Write(sdsMakeRoomFor(x, n), x.len, t), Len(t))

-----------------------------------------------------------------------------
(* Taking something out                                                    *)

Content(x) == SubSeq(x.bytes, 1, x.len)

\* strchr finds the terminator of the set too, so that zeros are trimmed with the rest.
InSet(b) == b \in Trimmed \cup {Nul}
Sp(x) == CHOOSE i \in 1..(x.len + 1) :
           (i > x.len \/ ~InSet(x.bytes[i])) /\ \A j \in 1..(i - 1) : InSet(x.bytes[j])
Ep(x) == CHOOSE i \in 0..x.len :
           /\ i <= Sp(x) \/ ~InSet(x.bytes[i])
           /\ \A j \in (i + 1)..x.len : j > Sp(x) /\ InSet(x.bytes[j])
sdstrim(x) ==
  LET len == IF Sp(x) > Ep(x) THEN 0 ELSE Ep(x) - Sp(x) + 1
  IN  Ended(Write(x, 0, SubSeq(x.bytes, Sp(x), Sp(x) + len - 1)), len)

\* Indexes from 0, or from -1 backwards.
sdsrange(x, start, end) ==
  LET Inside(i) == IF i >= 0 THEN i ELSE IF x.len + i < 0 THEN 0 ELSE x.len + i
      from == Inside(start)
      to == IF Inside(end) >= x.len THEN x.len - 1 ELSE Inside(end)
      newlen == IF from > Inside(end) \/ from >= x.len THEN 0 ELSE to - from + 1
  IN  IF x.len = 0 THEN x
      ELSE Ended(Write(x, 0, SubSeq(x.bytes, from + 1, from + newlen)), newlen)

\* strlen ends at the first zero; nothing is written.
Strlen(x) == (CHOOSE i \in DOMAIN x.bytes : x.bytes[i] = Nul /\ \A j \in 1..(i - 1) : x.bytes[j] # Nul) - 1
sdsupdatelen(x) == LET y == sdssetlen(x, Strlen(x)) IN [y EXCEPT !.bytes = SubSeq(@, 1, Strlen(x) + 1)]

sdsmapchars(x, from, to) ==
  Write(x, 0, [i \in 1..x.len |-> IF x.bytes[i] = from THEN to ELSE x.bytes[i]] \o <<Nul>>)

-----------------------------------------------------------------------------
(* A program that holds one string                                         *)

StringInit ==
  /\ meant \in Texts
  /\ string = sdsnewlen(meant)

\* sdscat, sdscatsds, sdscatprintf and sdscatrepr end here too.
Cat ==
  \E t \in Texts :
    /\ Len(meant \o t) <= MaxLen
    /\ string' = sdscatlen(string, t) /\ meant' = meant \o t

Copy == \E t \in Texts : string' = sdscpylen(string, t) /\ meant' = t

Grow ==
  \E n \in 0..MaxLen :
    /\ string' = sdsgrowzero(string, n)
    /\ meant' = meant \o [i \in 1..(n - Len(meant)) |-> Nul]

CatFormat ==
  \E t, u \in Texts :
    /\ Len(meant \o t \o u) + 1 <= MaxLen
    /\ string' = sdscatfmt(string, t, 1, u) /\ meant' = meant \o t \o <<1>> \o u

ReadBytes ==
  \E t \in Texts, more \in 0..2 :
    /\ Len(t) + more > 0 /\ Len(meant \o t) <= MaxLen
    /\ string' = ReadInto(string, Len(t) + more, t) /\ meant' = meant \o t

\* sdsIncrLen with a negative number
RightTrim ==
  \E k \in 1..Len(meant) :
    string' = sdsIncrLen(string, -k) /\ meant' = SubSeq(meant, 1, Len(meant) - k)

Span(kept) == IF kept = {} THEN <<>> ELSE SubSeq(meant, Min(kept), Max(kept))

Trim ==
  /\ string' = sdstrim(string)
  /\ meant' = Span({i \in DOMAIN meant : meant[i] \notin Trimmed \cup {Nul}})

\* An end that lies before the first byte means the first byte.
CutOut ==
  \E start, end \in Indexes :
    /\ string' = sdsrange(string, start, end)
    /\ LET Position(i) == IF i < 0 THEN Len(meant) + i + 1 ELSE i + 1
       IN  meant' = Span({i \in DOMAIN meant : Position(start) <= i /\ i <= Max({1, Position(end)})})

UpdateLen ==
  /\ string' = sdsupdatelen(string)
  /\ meant' = SubSeq(meant, 1, Min({i - 1 : i \in {j \in DOMAIN meant : meant[j] = Nul}} \cup {Len(meant)}))

\* sdstolower and sdstoupper map their characters too.
MapChars ==
  \E from, to \in Trimmed :
    /\ string' = sdsmapchars(string, from, to)
    /\ meant' = [i \in DOMAIN meant |-> IF meant[i] = from THEN to ELSE meant[i]]

Clear == string' = Ended(string, 0) /\ meant' = <<>>
RemoveFreeSpace == string' = sdsRemoveFreeSpace(string) /\ UNCHANGED meant
Dup == string' = sdsnewlen(Content(string)) /\ UNCHANGED meant

StringNext ==
  \/ Cat \/ Copy \/ Grow \/ CatFormat \/ ReadBytes
  \/ RightTrim \/ Trim \/ CutOut \/ UpdateLen \/ MapChars \/ Clear \/ RemoveFreeSpace \/ Dup

StringSpec == StringInit /\ [][StringNext]_stringVars

-----------------------------------------------------------------------------
(* Properties                                                              *)

\* Whatever was appended, cut or moved, the string is the one that is meant, the terminator
\* stands behind it, the header can say how long it is and how much room there is, and
\* nothing was written beyond the memory it has; no assertion failed.
StringRight ==
  /\ string.len = Len(meant) /\ Content(string) = meant /\ string.bytes[string.len + 1] = Nul
  /\ string.len <= sdsalloc(string) /\ sdsalloc(string) <= string.room
  /\ ~string.over
=============================================================================
