------------------------------ MODULE MCParts -------------------------------
(***************************************************************************)
(* Small instances of the parts that are programs of their own: TLC runs   *)
(* one of them, chosen at the start.  The leak detector, the queue, the    *)
(* pattern search, the red-black tree, the connections and the data        *)
(* structures of hiredis have variables of their own; the others share     *)
(* the slots v1..v9, of which a part uses as many as it has variables and  *)
(* leaves the rest alone.                                                  *)
(***************************************************************************)
EXTENDS MemLeak, SyncQueue, Kmp, RBTree, Connections, Data, TLC

VARIABLES which, v1, v2, v3, v4, v5, v6, v7, v8, v9

Left6 == <<v7, v8, v9>>
Left5 == <<v6, Left6>>
Left4 == <<v5, Left5>>
Left3 == <<v4, Left4>>
Left2 == <<v3, Left3>>
Slots == <<v1, v2, Left2>>

-----------------------------------------------------------------------------
BTrees == INSTANCE BTree WITH MaxKey <- 9, Orders <- {3, 4, 6}, order <- v1, tree <- v2

Lists ==
  INSTANCE LinkedList WITH NodeNum <- 4, next <- v1, head <- v2, head2 <- v3, deleted <- v4

\* Three of the four keys fall into one slot of a table of two, two of them in one of four.
KeyHashes == <<0, 2, 4, 1>>

\* Kinds 5 and 8 end at 3 and 6 bytes; the texts have zeros in them and characters to trim.
PutTexts == {<<>>, <<1>>, <<2, 1>>, <<0, 2, 2>>, <<1, 2, 2, 1>>}
RangeIndexes == {-9, -3, -1, 0, 2, 8}

\* The contents make the sum of the words just fit sixteen digits, and carry over.
Frames ==
  INSTANCE Stack WITH Hosts <- {"h1", "h2"}, ETH_LEN <- 1, MaxAsked <- 3, Room <- 1,
    Data <- {<<15, 15, 7>>, <<15, 15, 15, 15, 1>>},
    SELF_MAC <- v1, ring <- v2, heard <- v3, asked <- v4

\* Names of one, two and three labels.
Names == {<<<<1>>>>, <<<<1, 2>>, <<3>>>>, <<<<1>>, <<2, 3>>, <<1>>>>}
Dns ==
  INSTANCE DnsMessage WITH Byte <- 128, MaxRecords <- 3,
    hostname <- v1, request <- v2, response <- v3, records <- v4, list <- v5, pc <- v6

\* What the server sends: one of the replies the parser tells apart, or an array of two,
\* itself in an array or not, and a status after it.  Bytes are numbered as in ReplyReader.
Object(type, str, elements) == [type |-> type, str |-> str, elements |-> elements]
Array(s) == Object("array", <<>>, s)
Number(s) == Object("integer", s, <<>>)
Plain ==
  {Number(<<1, 2, 7>>), Number(<<10, 1, 2, 8>>), Array(<<>>), Object("error", <<1, 15>>, <<>>),
   Object("string", <<>>, <<>>), Object("string", <<15, 16, 11>>, <<>>),
   Object("nil", <<13>>, <<>>), Object("nil", <<14>>, <<>>)}
Wrong ==
  {Number(<<1, 2, 8>>), Number(<<0, 1>>), Object("bad", <<>>, <<>>),
   Array(<<Array(<<Array(<<Number(<<1>>)>>)>>)>>)}
Nested ==
  {Array(<<a, b>>) : a \in Plain, b \in Plain \cup {Array(<<Number(<<0>>)>>)}}
  \cup {Array(<<Array(<<a, Number(<<2>>)>>), b>>) : a \in Plain, b \in Plain \cup Wrong}
Sent == {<<a, Object("status", <<1>>, <<>>)>> : a \in Plain \cup Wrong \cup Nested}

Reader ==
  INSTANCE ReplyReader WITH LLONG_MAX <- 127, Depth <- 1, Discard <- 6,
    replies <- v1, wire <- v2, r <- v3, given <- v4

\* Commands of three words, of which two are made of up to two pieces, and of ten: lengths
\* and counts of one and two digits, empty words, and words with spaces and %.
Piece(kind, bytes) == [kind |-> kind, text |-> bytes]
Letter == 30
Space == 17
Percent == 18
S == 19
Pieces ==
  {Piece("lit", <<Letter>>), Piece("percent", <<Percent>>), Piece("s", <<>>),
   Piece("s", <<Letter, Space>>), Piece("s", <<Percent, S>>),
   Piece("s", [i \in 1..10 |-> Letter]), Piece("d", <<1, 2>>)}
Spelled == {<<x>> : x \in Pieces} \cup {<<x, y>> : x, y \in Pieces}
Appended ==
  {<<Piece("lit", bytes)>> :
     bytes \in {<<Letter>>, <<Letter, Space>>, <<>>, <<Percent>>, <<Percent, S>>,
               <<Percent, Letter>>, [i \in 1..9 |-> S]}}
Command(how, words) == [how |-> how, words |-> words]
Verb == <<Piece("lit", <<Letter, S>>)>>
Commands ==
  {Command("format", <<Verb, w, v>>) : w, v \in Spelled}
  \cup {Command(how, <<Verb, w, v>>) : how \in {"joined", "argv"}, w, v \in Appended}
  \cup {Command(how, [i \in 1..10 |-> Verb]) : how \in {"format", "joined", "argv"}}
Formats ==
  INSTANCE CommandFormat WITH Calls <- Commands,
    call <- v1, format <- v2, args <- v3, cur <- v4, touched <- v5, argv <- v6, totlen <- v7,
    pc <- v8, cmd <- v9

\* Bytes are numbered as in SdsText.
Job(op, line, words, sep, num) ==
  [op |-> op, line |-> line, words |-> words, sep |-> sep, num |-> num]
UpTo(n, bytes) == UNION {[1..i -> bytes] : i \in 0..n}
Quotable == UpTo(2, {0, 1, 4, 5, 6, 7, 9, 12}) \cup {<<5, 9, 12, 13>>, <<3, 2, 8>>}
Jobs ==
  {Job("repr", <<>>, <<w>>, <<>>, 0) : w \in UpTo(2, 0..13)}
  \cup {Job("repr", <<>>, <<v, w>>, <<>>, 0) : v, w \in Quotable}
  \cup {Job("args", line, <<>>, <<>>, 0) : line \in UpTo(4, {1, 4, 5, 6, 7, 8, 10})}
  \cup {Job("fields", line, <<>>, sep, 0) :
          line \in UpTo(6, {10, 11}), sep \in {<<11>>, <<11, 10>>, <<11, 11>>, <<11, 10, 11>>}}
  \cup {Job("number", <<>>, <<>>, <<>>, n) : n \in -128..127}
Lines ==
  INSTANCE SdsText WITH Slots <- 2,
    job <- v1, rest <- v2, mode <- v3, current <- v4, vector <- v5, slots <- v6

-----------------------------------------------------------------------------
No2 == v3 = 0 /\ v4 = 0 /\ v5 = 0 /\ v6 = 0
No6 == v7 = 0 /\ v8 = 0 /\ v9 = 0

OthersInit ==
  \/ /\ which \in {"leaks", "queue", "tree", "connect", "redis", "mysql", "table"}
     /\ v1 = 0 /\ v2 = 0 /\ No2 /\ No6
  \/ which = "btree" /\ BTrees!Init /\ No2 /\ No6
  \/ which = "lists" /\ Lists!Init /\ v5 = 0 /\ v6 = 0 /\ No6
  \/ which = "frames" /\ Frames!Init /\ v5 = 0 /\ v6 = 0 /\ No6
  \/ which = "dns" /\ Dns!Init /\ No6
  \/ which = "reader" /\ Reader!Init /\ v5 = 0 /\ v6 = 0 /\ No6
  \/ which = "format" /\ Formats!Init
  \/ which = "texts" /\ Lines!Init /\ No6

PartsInit ==
  /\ Init /\ QueueInit /\ TreeInit /\ ConnectInit /\ MysqlInit /\ WrapperInit /\ TableInit
  /\ \/ /\ which = "search" /\ SearchInit /\ meant = <<>> /\ StringInit
        /\ v1 = 0 /\ v2 = 0 /\ No2 /\ No6
     \/ /\ text = <<>> /\ pattern = <<1>> /\ SearchInit
        /\ \/ which = "strings" /\ StringInit /\ v1 = 0 /\ v2 = 0 /\ No2 /\ No6
           \/ meant = <<>> /\ StringInit /\ OthersInit

Own ==
  <<vars, queueVars, searchVars, treeVars, connectVars, mysqlVars, wrapperVars, tableVars, stringVars>>
Alone == UNCHANGED <<which, Own>>
OnOwn ==
  /\ UNCHANGED <<which, Slots>>
  /\ which # "leaks" => UNCHANGED vars
  /\ which # "queue" => UNCHANGED queueVars
  /\ which # "search" => UNCHANGED searchVars
  /\ which # "tree" => UNCHANGED treeVars
  /\ which # "connect" => UNCHANGED connectVars
  /\ which # "mysql" => UNCHANGED mysqlVars
  /\ which # "redis" => UNCHANGED wrapperVars
  /\ which # "table" => UNCHANGED tableVars
  /\ which # "strings" => UNCHANGED stringVars
PartsNext ==
  \/ which = "leaks" /\ Next /\ OnOwn
  \/ which = "queue" /\ QueueNext /\ OnOwn
  \/ which = "search" /\ SearchNext /\ OnOwn
  \/ which = "tree" /\ TreeNext /\ OnOwn
  \/ which = "connect" /\ ConnectNext /\ OnOwn
  \/ which = "mysql" /\ MysqlNext /\ OnOwn
  \/ which = "redis" /\ WrapperNext /\ OnOwn
  \/ which = "table" /\ TableNext /\ OnOwn
  \/ which = "strings" /\ StringNext /\ OnOwn
  \/ which = "btree" /\ BTrees!Next /\ Alone /\ UNCHANGED Left2
  \/ which = "lists" /\ Lists!Next /\ Alone /\ UNCHANGED Left4
  \/ which = "frames" /\ Frames!Next /\ Alone /\ UNCHANGED Left4
  \/ which = "dns" /\ Dns!Next /\ Alone /\ UNCHANGED Left6
  \/ which = "reader" /\ Reader!Next /\ Alone /\ UNCHANGED Left4
  \/ which = "format" /\ Formats!Next /\ Alone
  \/ which = "texts" /\ Lines!Next /\ Alone /\ UNCHANGED Left6

allVars == <<Own, which, Slots>>
PartsSpec == PartsInit /\ [][PartsNext]_allVars

-----------------------------------------------------------------------------
(* Properties                                                              *)

\* A B-tree holds a key exactly from its insertion to its deletion, whatever was rebuilt
\* in between (btree.c:172, 300).
Sets ==
  INSTANCE KeySet WITH Keys <- 1..9, keys <- IF which = "btree" THEN BTrees!Held(v2) ELSE {}

\* It is a set of keys, a deletion takes out nothing but its key, and its rules are kept but
\* where the code gives them up, see BTree!KeepsRules; and the walks along linked lists find
\* what is there (btree.c:59, 172-290; linkedTest.cpp:168-289).
StructuresRight ==
  /\ Sets!Spec
  /\ [](which = "btree" => BTrees!OnlyItsKey)
  /\ [][which = "btree" => BTrees!KeepsRules]_Slots
  /\ [](which = "lists" => Lists!ListsRight)

\* What goes over the wire is what was meant: frames are answered rightly and once, DNS
\* messages say what was asked and answered, the bytes of a command are its words, the
\* reader gives each reply as it was sent, and text is read as it was written
\* (udp_icmp_arp_stack.c:151-402, async_dns_client.c:65-281, hiredis.c:189-583,
\* read.c:220-598, sds.c:793-1087).
PacketsRight ==
  /\ which = "frames" => Frames!Answers
  /\ which = "dns" => Dns!AskedRight /\ Dns!ParsedRight
  /\ which = "format" => Formats!AsMeant
  /\ which = "reader" => Reader!GivenAsSent /\ Reader!NoneMissed
  /\ which = "texts" => Lines!TextRight
=============================================================================
