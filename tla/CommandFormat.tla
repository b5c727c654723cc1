---------------------------- MODULE CommandFormat ---------------------------
(***************************************************************************)
(* How commands become bytes: redisvFormatCommand and                      *)
(* redisFormatCommandArgv of hiredis, and the formats RedisConn.cpp gives  *)
(* them.  A byte is a number: digits are themselves, the letters of a      *)
(* conversion and the bytes of the protocol have names.                    *)
(***************************************************************************)
EXTENDS Naturals, Sequences, SequencesExt

CONSTANTS
  Calls    \* bound: the commands asked for: [how, words]

CR == 15
LF == 16
Star == 14
Dollar == 13
Space == 17
Percent == 18
S == 19    \* s or b: a string
D == 20    \* d and the other conversions of printf

(***************************************************************************)
(* how is "format": words are sequences of pieces, [kind, text], where a   *)
(* piece is written in the format ("lit") or is an argument of a %s ("s")  *)
(* or a %d ("d"); it is "joined" where the words themselves are appended   *)
(* to make a format (del, mset and mget), and "argv" where they are handed *)
(* over as they are.                                                       *)
(***************************************************************************)
VARIABLES
  call,
  format, args,    \* what is left of the format and of the arguments
  cur, touched,    \* curarg, and whether it is a word yet
  argv,            \* words so far
  totlen,
  pc,              \* "walk", "build", or the end: "done", "error", "undefined"
  cmd

vars == <<call, format, args, cur, touched, argv, totlen, pc, cmd>>

-----------------------------------------------------------------------------
(* Lengths, counted before the bytes are written                           *)

countDigits(v) == IF v < 10 THEN 1 ELSE IF v < 100 THEN 2 ELSE 3
bulklen(len) == 1 + countDigits(len) + 2 + len + 2

-----------------------------------------------------------------------------
(* The format, as the program writes it                                    *)

Written(piece) ==
  CASE piece.kind = "lit" -> piece.text
    [] piece.kind = "percent" -> <<Percent, Percent>>
    [] piece.kind = "s" -> <<Percent, S>>
    [] piece.kind = "d" -> <<Percent, D>>

Flat(seqs) == FoldLeft(LAMBDA s, t : s \o t, <<>>, seqs)
Join(texts) == FoldLeft(LAMBDA s, t : s \o <<Space>> \o t, texts[1], Tail(texts))
Text(word) == Flat([i \in DOMAIN word |-> word[i].text])

Format(k) ==
  IF k.how = "format"
  THEN Join([i \in DOMAIN k.words |-> Flat([j \in DOMAIN k.words[i] |-> Written(k.words[i][j])])])
  ELSE Join([i \in DOMAIN k.words |-> Text(k.words[i])])
Args(k) ==
  IF k.how = "format" THEN SelectSeq(Flat(k.words), LAMBDA piece : piece.kind \in {"s", "d"}) ELSE <<>>

-----------------------------------------------------------------------------
(* redisvFormatCommand: one step of the loop per character or conversion   *)

Keep(text) == cur' = cur \o text /\ touched' = TRUE /\ UNCHANGED <<argv, totlen>>
Ends(n) == format' = SubSeq(format, n + 1, Len(format))

\* A word ends; two spaces make no word between them.
NextWord ==
  IF touched
  THEN /\ argv' = Append(argv, cur) /\ totlen' = totlen + bulklen(Len(cur))
       /\ cur' = <<>> /\ touched' = FALSE
  ELSE UNCHANGED <<cur, touched, argv, totlen>>

\* A single % at the end is a character like any other.
Character ==
  /\ pc = "walk" /\ format # <<>> /\ (format[1] # Percent \/ Len(format) = 1)
  /\ IF format[1] = Space THEN NextWord ELSE Keep(<<format[1]>>)
  /\ Ends(1)
  /\ UNCHANGED <<call, args, pc, cmd>>

\* An argument nobody gave has no defined value; a conversion nobody knows is an error.
Conversion ==
  /\ pc = "walk" /\ Len(format) > 1 /\ format[1] = Percent
  /\ CASE format[2] = Percent -> Keep(<<Percent>>) /\ Ends(2) /\ UNCHANGED <<args, pc>>
       [] format[2] \in {S, D} /\ args # <<>> ->
            Keep(args[1].text) /\ Ends(2) /\ args' = Tail(args) /\ UNCHANGED pc
       [] format[2] \in {S, D} /\ args = <<>> ->
            pc' = "undefined" /\ UNCHANGED <<format, args, cur, touched, argv, totlen>>
       [] OTHER -> pc' = "error" /\ UNCHANGED <<format, args, cur, touched, argv, totlen>>
  /\ UNCHANGED <<call, cmd>>

LastWord ==
  /\ pc = "walk" /\ format = <<>>
  /\ NextWord /\ pc' = "build"
  /\ UNCHANGED <<call, format, args, cmd>>

-----------------------------------------------------------------------------
(* The bytes                                                               *)

Digits(n) == IF n < 10 THEN <<n>> ELSE <<n \div 10, n % 10>>
Bulk(word) == <<Dollar>> \o Digits(Len(word)) \o <<CR, LF>> \o word \o <<CR, LF>>

Build ==
  /\ pc = "build"
  /\ cmd' = <<Star>> \o Digits(Len(argv)) \o <<CR, LF>> \o Flat([i \in DOMAIN argv |-> Bulk(argv[i])])
  /\ totlen' = totlen + 1 + countDigits(Len(argv)) + 2
  /\ pc' = "done"
  /\ UNCHANGED <<call, format, args, cur, touched, argv>>

-----------------------------------------------------------------------------
\* redisFormatCommandArgv and redisFormatSdsCommandArgv begin with the words.
Words == [i \in DOMAIN call.words |-> Text(call.words[i])]

Init ==
  /\ call \in Calls
  /\ cur = <<>> /\ touched = FALSE /\ cmd = <<>>
  /\ IF call.how = "argv"
     THEN /\ pc = "build" /\ format = <<>> /\ args = <<>> /\ argv = Words
          /\ totlen = FoldLeft(LAMBDA n, word : n + bulklen(Len(word)), 0, Words)
     ELSE /\ pc = "walk" /\ format = Format(call) /\ args = Args(call)
          /\ argv = <<>> /\ totlen = 0

Next ==
  \/ Character \/ Conversion \/ LastWord \/ Build
  \/ pc \in {"done", "error", "undefined"} /\ UNCHANGED vars

Spec == Init /\ [][Next]_vars

-----------------------------------------------------------------------------
(* Properties                                                              *)

\* What the server makes of the bytes: the number of words, and each with its length.
Number(s) == FoldLeft(LAMBDA n, b : 10 * n + b, 0, s)
LineEnd(s) == CHOOSE i \in DOMAIN s : s[i] = CR /\ \A j \in 1..(i - 1) : s[j] # CR
Line(s) == SubSeq(s, 2, LineEnd(s) - 1)
Below(s) == SubSeq(s, LineEnd(s) + 2, Len(s))
FirstWord(s) == SubSeq(Below(s), 1, Number(Line(s)))
AfterWord(s) == SubSeq(Below(s), Number(Line(s)) + 3, Len(Below(s)))
Understood ==
  LET rest[i \in 0..Number(Line(cmd))] == IF i = 0 THEN Below(cmd) ELSE AfterWord(rest[i - 1])
  IN  [i \in 1..Number(Line(cmd)) |-> FirstWord(rest[i - 1])]

\* The words of a call that becomes a format by being appended must be words of a format.
Plain(word) == word # <<>> /\ \A i \in DOMAIN word : word[i] \notin {Space, Percent}

\* Every command that is made has the length that was counted, and the server sees exactly
\* the words that were meant, empty ones and ones with spaces among them.  Only keys and
\* values that del, mset and mget append to the format must be plain.
AsMeant ==
  /\ pc = "done" => Len(cmd) = totlen
  /\ call.how \in {"format", "argv"} \/ (\A i \in DOMAIN Words : Plain(Words[i])) =>
       /\ pc \notin {"error", "undefined"}
       /\ pc = "done" => Understood = Words
=============================================================================
