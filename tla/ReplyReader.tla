---------------------------- MODULE ReplyReader -----------------------------
(***************************************************************************)
(* The reader of hiredis (read.c, and the reply objects of hiredis.c): it  *)
(* is fed the bytes of a connection in any portions and gives the replies. *)
(* A byte is a number: digits are themselves.  The server is external.     *)
(***************************************************************************)
EXTENDS Integers, Sequences, SequencesExt, FiniteSetsExt

CONSTANTS
  Sent,       \* bound: what the server may send, sequences of replies
  LLONG_MAX,  \* the largest integer
  Depth,      \* arrays that may lie in arrays (7 in the code)
  Discard     \* bytes consumed before the buffer is cut (1024 in the code)

Minus == 10
Plus == 11
Colon == 12
Dollar == 13
Star == 14
CR == 15
LF == 16

VARIABLES
  replies,    \* what the server sends: [type, str, elements]
  wire,       \* bytes of it that were not read
  r,          \* the redisReader
  given       \* history: replies the reader gave

vars == <<replies, wire, r, given>>

Object(type, str, elements) == [type |-> type, str |-> str, elements |-> elements]
Nil == Object("nil", <<>>, <<>>)
Task(idx) == [type |-> "none", idx |-> idx, obj |-> <<>>]

-----------------------------------------------------------------------------
(* Numbers and lines                                                       *)

IsDigit(c) == c \in 0..9

\* string2ll: the set of the number the text stands for, empty if it does not.
Positive(s) ==
  LET v == FoldLeft(LAMBDA n, c : IF n < 0 \/ ~IsDigit(c) \/ n > (2 * LLONG_MAX + 1) \div 10
                                     \/ n * 10 > 2 * LLONG_MAX + 1 - c
                                  THEN -1 ELSE n * 10 + c, 0, s)
  IN  IF s = <<>> \/ s[1] \notin 1..9 \/ v < 0 THEN {} ELSE {v}
string2ll(s) ==
  IF s = <<0>> THEN {0}
  ELSE IF s # <<>> /\ s[1] = Minus THEN {-v : v \in {u \in Positive(Tail(s)) : u <= LLONG_MAX + 1}}
  ELSE {v \in Positive(s) : v <= LLONG_MAX}

\* seekNewline: where the line ends that starts at pos, if its end is there.
Newline(q) == {i \in q.pos..(Len(q.buf) - 2) : q.buf[i + 1] = CR /\ q.buf[i + 2] = LF}
Text(q) == SubSeq(q.buf, q.pos + 1, Min(Newline(q)))
AfterLine(q) == Min(Newline(q)) + 2

-----------------------------------------------------------------------------
(* Items.  An operator gives the reader after it, whose ok tells whether   *)
(* the next item can be looked at.                                         *)

Failed(q) == [q EXCEPT !.buf = <<>>, !.pos = 0, !.stack = <<>>, !.err = TRUE, !.ok = FALSE]
Wait(q) == [q EXCEPT !.ok = FALSE]

\* moveToNextTask: the object is put in its array, and an array that is full in its own.
Fill(stack, obj) == [stack EXCEPT ![Len(stack) - 1].obj[Last(stack).idx + 1] = obj]
RECURSIVE Done(_, _, _)
Done(q, stack, obj) ==
  IF Len(stack) = 1 THEN [q EXCEPT !.stack = <<>>, !.reply = <<obj>>]
  ELSE LET array == stack[Len(stack) - 1]
           full == Fill(stack, obj)
       IN  IF Last(stack).idx = Len(array.obj) - 1
           THEN Done(q, Front(full), Object("array", <<>>, full[Len(stack) - 1].obj))
           ELSE [q EXCEPT !.stack = Append(Front(full), Task(Last(stack).idx + 1))]

processLineItem(q, type) ==
  LET line == [q EXCEPT !.pos = AfterLine(q)] IN
  IF Newline(q) = {} THEN Wait(q)
  ELSE IF type # "integer" THEN Done(line, q.stack, Object(type, Text(q), <<>>))
  ELSE IF string2ll(Text(q)) = {} THEN Failed(q)
  ELSE Done(line, q.stack, Object(type, SetToSeq(string2ll(Text(q))), <<>>))

\* The length of a bulk item is read again each time, until all of the item is there.
processBulkItem(q) ==
  IF Newline(q) = {} THEN Wait(q)
  ELSE LET len == string2ll(Text(q))
           start == AfterLine(q)
       IN
       IF \A n \in len : n < -1 THEN Failed(q)
       ELSE IF len = {-1} THEN Done([q EXCEPT !.pos = start], q.stack, Nil)
       ELSE LET end == start + Max(len) IN
            IF end + 2 > Len(q.buf) THEN Wait(q)
            ELSE Done([q EXCEPT !.pos = end + 2], q.stack,
                      Object("string", SubSeq(q.buf, start + 1, end), <<>>))

\* The stack has room for Depth + 1 arrays.
processMultiBulkItem(q) ==
  IF Len(q.stack) = Depth + 2 THEN Failed(q)
  ELSE IF Newline(q) = {} THEN Wait(q)
  ELSE LET elements == string2ll(Text(q))
           line == [q EXCEPT !.pos = AfterLine(q)]
       IN
       IF \A n \in elements : n < -1 THEN Failed(q)
       ELSE IF elements = {-1} THEN Done(line, q.stack, Nil)
       ELSE IF elements = {0} THEN Done(line, q.stack, Object("array", <<>>, <<>>))
       ELSE LET holes == SubSeq([i \in 1..Max(elements) |-> Nil], 1, Max(elements)) IN
            [line EXCEPT !.stack = Append([@ EXCEPT ![Len(@)].obj = holes], Task(0))]

\* The type byte is consumed alone and remembered in the task.
Type(b) ==
  CASE b = Minus -> "error" [] b = Plus -> "status" [] b = Colon -> "integer"
    [] b = Dollar -> "string" [] b = Star -> "array" [] OTHER -> "bad"

processItem(q) ==
  LET type == Last(q.stack).type IN
  CASE type \in {"error", "status", "integer"} -> processLineItem(q, type)
    [] type = "string" -> processBulkItem(q)
    [] type = "array" -> processMultiBulkItem(q)
    [] type = "bad" -> Failed(q)
    [] type = "none" /\ q.pos < Len(q.buf) ->
         [q EXCEPT !.stack[Len(q.stack)].type = Type(q.buf[q.pos + 1]), !.pos = @ + 1]
    [] OTHER -> Wait(q)

RECURSIVE Process(_)
Process(q) == IF q.stack = <<>> \/ ~q.ok THEN q ELSE Process(processItem(q))

-----------------------------------------------------------------------------
(* The calls: redisBufferRead feeds what it read, redisGetReplyFromReader  *)
(* asks for a reply.                                                       *)

redisReaderFeed ==
  /\ \E n \in 1..Len(wire) :
       /\ wire' = SubSeq(wire, n + 1, Len(wire))
       /\ r' = IF r.err THEN r ELSE [r EXCEPT !.buf = @ \o SubSeq(wire, 1, n), !.ok = TRUE]
  /\ UNCHANGED <<replies, given>>

Cut(q) == IF q.pos >= Discard
          THEN [q EXCEPT !.buf = SubSeq(@, q.pos + 1, Len(@)), !.pos = 0] ELSE q

redisReaderGetReply ==
  /\ ~r.err /\ r.buf # <<>>
  /\ LET start == IF r.stack = <<>> THEN <<Task(0)>> ELSE r.stack
         q == Process([r EXCEPT !.stack = start, !.ok = TRUE])
     IN
     /\ r' = [Cut(q) EXCEPT !.reply = <<>>]
     /\ given' = given \o q.reply
  /\ UNCHANGED <<replies, wire>>

-----------------------------------------------------------------------------
(* The server                                                              *)

End == <<CR, LF>>
Digits(n) == IF n < 10 THEN <<n>> ELSE <<n \div 10, n % 10>>
RECURSIVE Bytes(_)
Bytes(o) ==
  CASE o.type = "status"  -> <<Plus>> \o o.str \o End
    [] o.type = "error"   -> <<Minus>> \o o.str \o End
    [] o.type = "integer" -> <<Colon>> \o o.str \o End
    [] o.type = "string"  -> <<Dollar>> \o Digits(Len(o.str)) \o End \o o.str \o End
    [] o.type = "nil"     -> o.str \o <<Minus, 1>> \o End          \* str: Dollar or Star
    [] o.type = "array"   -> <<Star>> \o Digits(Len(o.elements)) \o End
                               \o FlattenSeq([i \in 1..Len(o.elements) |-> Bytes(o.elements[i])])
    [] o.type = "bad"     -> <<CR>>

Init ==
  /\ replies \in Sent
  /\ wire = FlattenSeq([i \in 1..Len(replies) |-> Bytes(replies[i])])
  /\ r = [buf |-> <<>>, pos |-> 0, stack |-> <<>>, err |-> FALSE, ok |-> TRUE, reply |-> <<>>]
  /\ given = <<>>

Next == redisReaderFeed \/ redisReaderGetReply \/ (wire = <<>> /\ UNCHANGED vars)

Spec == Init /\ [][Next]_vars

-----------------------------------------------------------------------------
(* Properties                                                              *)

\* What the server means, and whether the reader is to understand it.
RECURSIVE Meant(_), Fits(_, _)
Meant(o) ==
  CASE o.type = "nil" -> Nil
    [] o.type = "integer" -> [o EXCEPT !.str = SetToSeq(string2ll(o.str))]
    [] o.type = "array" ->
         [o EXCEPT !.elements = SubSeq([i \in 1..Len(@) |-> Meant(@[i])], 1, Len(@))]
    [] OTHER -> o
Fits(o, depth) ==
  /\ o.type # "bad" /\ (o.type = "integer" => string2ll(o.str) # {})
  /\ o.type = "array" \/ o = [Nil EXCEPT !.str = <<Star>>] => depth <= Depth
  /\ \A i \in DOMAIN o.elements : Fits(o.elements[i], depth + 1)
Understood == IF \A i \in DOMAIN replies : Fits(replies[i], 0) THEN Len(replies)
              ELSE Min({i \in DOMAIN replies : ~Fits(replies[i], 0)}) - 1

\* However the bytes are portioned, the replies given are those sent, in their order, up to
\* the first the reader is not to understand; after that it gives none.
GivenAsSent ==
  /\ Len(given) <= Understood
  /\ \A i \in DOMAIN given : given[i] = Meant(replies[i])
  /\ r.err => Len(given) = Understood /\ Understood < Len(replies)

\* Nothing more is needed for a reply than its bytes: when all are read and the reader has
\* nothing to give, every reply has been given or an error seen.
NoneMissed ==
  wire = <<>> /\ ~r.err /\ ~r.ok => Len(given) = Len(replies)
=============================================================================
