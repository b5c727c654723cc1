------------------------------ MODULE SdsText -------------------------------
(***************************************************************************)
(* What sds.c reads and writes as text: quoted arguments, separated        *)
(* fields, numbers.  Reading a character of the text is one step.          *)
(***************************************************************************)
EXTENDS Integers, Sequences, SequencesExt

CONSTANTS
  Jobs,    \* bound: what is read, [op, line, words, sep, num]
  Slots    \* room for the first fields: 5

\* Bytes: those that two digits of an escape can name (two bits here), and the others.
Nul == 0
Tab == 1           \* \v or \f: white space, but no end of a word
Unprintable == 2
Bell == 3          \* has an escape of its own, as the new line has
NewLine == 4
Backslash == 5
Quote == 6
Apostrophe == 7
Space == 8
X == 9
N == 10
A == 11
Zero == 12
One == 13
Minus == 14

isspace == {Space, NewLine, Tab}
Ends == {Space, NewLine}

VARIABLES
  job,
  rest,       \* what is left of the line
  mode,       \* what is read: "blank", "bare", "quoted", "single", "fields", or the end:
              \* "done", "error"
  current,    \* the word that is read
  vector,     \* words so far
  slots       \* room in the vector of sdssplitlen

vars == <<job, rest, mode, current, vector, slots>>

-----------------------------------------------------------------------------
(* Writing                                                                 *)

Digit(bit) == IF bit = 0 THEN Zero ELSE One
Repr(b) ==
  CASE b \in {Backslash, Quote} -> <<Backslash, b>>
    [] b = NewLine -> <<Backslash, N>>
    [] b = Bell -> <<Backslash, A>>
    [] b \in {Nul, Tab, Unprintable} -> <<Backslash, X, Digit(b \div 2), Digit(b % 2)>>
    [] OTHER -> <<b>>
sdscatrepr(t) == <<Quote>> \o FlattenSeq([i \in DOMAIN t |-> Repr(t[i])]) \o <<Quote>>

sdsjoinsds(words, sep) ==
  FlattenSeq([i \in DOMAIN words |-> words[i] \o (IF i # Len(words) THEN sep ELSE <<>>)])

\* Digits are written from the last one on, the sign behind them, and all is reversed.
Backwards[v \in Nat] == IF v < 10 THEN <<v>> ELSE <<v % 10>> \o Backwards[v \div 10]
sdsll2str(n) ==
  Reverse(Backwards[IF n < 0 THEN -n ELSE n] \o (IF n < 0 THEN <<Minus>> ELSE <<>>))

-----------------------------------------------------------------------------
(* sdssplitargs: the line is a C string                                    *)

Rest(n) == rest' = SubSeq(rest, n + 1, Len(rest))
At(n) == IF n <= Len(rest) THEN rest[n] ELSE Nul
Take(b, n) == current' = Append(current, b) /\ Rest(n) /\ UNCHANGED <<mode, vector>>
To(next, n) == mode' = next /\ Rest(n) /\ UNCHANGED <<current, vector>>
EndWord(n) ==
  mode' = "blank" /\ vector' = Append(vector, current) /\ current' = <<>> /\ Rest(n)
Same == UNCHANGED <<job, slots>>

Blank ==
  /\ mode = "blank" /\ Same
  /\ IF rest = <<>> THEN To("done", 0) ELSE IF rest[1] \in isspace THEN To("blank", 1) ELSE To("bare", 0)

Bare ==
  /\ mode = "bare" /\ Same
  /\ CASE rest = <<>> -> EndWord(0)
       [] At(1) \in Ends -> EndWord(1)
       [] At(1) = Quote -> To("quoted", 1)
       [] At(1) = Apostrophe -> To("single", 1)
       [] OTHER -> Take(rest[1], 1)

\* A closing quote must be followed by white space or nothing.
Close == IF At(2) = Nul \/ At(2) \in isspace THEN EndWord(1) ELSE To("error", 0)

is_hex_digit(b) == b \in {Zero, One}
hex_digit_to_int(b) == IF b = One THEN 1 ELSE 0
HexEscape == At(1) = Backslash /\ At(2) = X /\ is_hex_digit(At(3)) /\ is_hex_digit(At(4))
Escaped == IF At(2) = N THEN NewLine ELSE IF At(2) = A THEN Bell ELSE At(2)
Quoted ==
  /\ mode = "quoted" /\ Same
  /\ CASE rest = <<>> -> To("error", 0)
       [] HexEscape ->
            Take(2 * hex_digit_to_int(At(3)) + hex_digit_to_int(At(4)), 4)
       [] At(1) = Backslash /\ Len(rest) > 1 /\ ~HexEscape -> Take(Escaped, 2)
       [] At(1) = Quote -> Close
       [] OTHER -> Take(rest[1], 1)

Single ==
  /\ mode = "single" /\ Same
  /\ CASE rest = <<>> -> To("error", 0)
       [] At(1) = Backslash /\ At(2) = Apostrophe -> Take(Apostrophe, 2)
       [] At(1) = Apostrophe -> Close
       [] OTHER -> Take(rest[1], 1)

-----------------------------------------------------------------------------
(* sdssplitlen                                                             *)

Field ==
  /\ mode = "fields" /\ UNCHANGED job
  /\ IF Len(rest) >= Len(job.sep)
     THEN /\ slots' = IF slots < Len(vector) + 2 THEN 2 * slots ELSE slots
          /\ IF IsPrefix(job.sep, rest)
             THEN /\ vector' = Append(vector, current) /\ current' = <<>>
                  /\ Rest(Len(job.sep)) /\ UNCHANGED mode
             ELSE Take(rest[1], 1)
     ELSE /\ vector' = Append(vector, current \o rest) /\ mode' = "done"
          /\ UNCHANGED <<rest, current, slots>>

-----------------------------------------------------------------------------
Line(j) ==
  CASE j.op = "repr" -> sdsjoinsds([i \in DOMAIN j.words |-> sdscatrepr(j.words[i])], <<Space>>)
    [] j.op \in {"args", "fields"} -> j.line
    [] j.op = "number" -> sdsll2str(j.num)

Init ==
  /\ job \in Jobs /\ rest = Line(job)
  /\ current = <<>> /\ vector = <<>> /\ slots = Slots
  /\ mode = CASE job.op \in {"repr", "args"} -> "blank"
              [] job.op = "fields" -> (IF rest = <<>> THEN "done" ELSE "fields")
              [] OTHER -> "done"

Next ==
  \/ Blank \/ Bare \/ Quoted \/ Single \/ Field
  \/ mode \in {"done", "error"} /\ UNCHANGED vars

Spec == Init /\ [][Next]_vars

-----------------------------------------------------------------------------
(* Properties                                                              *)

\* Words of a line without quotes: parted by what ends a word, without the tabs they begin
\* with, and none of them empty.
Parted(words, b) ==
  IF b \in Ends THEN Append(words, <<>>)
  ELSE IF b = Tab /\ Last(words) = <<>> THEN words
  ELSE [words EXCEPT ![Len(words)] = Append(@, b)]
PlainWords(line) == SelectSeq(FoldLeft(Parted, <<<<>>>>, line), LAMBDA word : word # <<>>)

\* Double quotes come in pairs, and nothing but white space follows the second of a pair.
Quotes(line) == {i \in DOMAIN line : line[i] = Quote}
Second(line, i) == Cardinality({j \in Quotes(line) : j <= i}) % 2 = 0
Balanced(line) ==
  /\ Cardinality(Quotes(line)) % 2 = 0
  /\ \A i \in Quotes(line) : Second(line, i) => i = Len(line) \/ line[i + 1] \in isspace

Occurs(sep, t) == \E i \in DOMAIN t : IsPrefix(sep, SubSeq(t, i, Len(t)))
Digits(t) == SelectSeq(t, LAMBDA b : b # Minus)
Value(t) == FoldLeft(LAMBDA v, b : 10 * v + b, 0, Digits(t)) * (IF Head(t) = Minus THEN -1 ELSE 1)

\* What sdscatrepr writes, sdssplitargs reads back, as the comment at sds.c:923 says;
\* lines without escapes are read by the rules of its words and quotes; fields make the
\* line again and do not contain the separator, with room for each in the vector; and a
\* number is written with its digits in order, the lowest one too.
TextRight ==
  /\ job.op = "repr" => mode # "error" /\ (mode = "done" => vector = job.words)
  /\ job.op = "args" /\ Range(job.line) \cap {Quote, Apostrophe} = {} =>
       mode # "error" /\ (mode = "done" => vector = PlainWords(job.line))
  /\ job.op = "args" /\ Range(job.line) \cap {Backslash, Apostrophe} = {} =>
       (mode = "done" => Balanced(job.line)) /\ (mode = "error" => ~Balanced(job.line))
  /\ job.op = "fields" =>
       /\ Len(vector) <= slots
       /\ \A i \in DOMAIN vector : ~Occurs(job.sep, vector[i])
       /\ mode = "done" => sdsjoinsds(vector, job.sep) = job.line
  /\ job.op = "number" => Value(rest) = job.num
=============================================================================
