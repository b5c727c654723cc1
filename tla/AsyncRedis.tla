----------------------------- MODULE AsyncRedis -----------------------------
(***************************************************************************)
(* The asynchronous context of hiredis/async.c: commands are appended to   *)
(* an output buffer, callbacks queued, and replies matched to callbacks by *)
(* order, or by channel once the context is subscribed.  One thread runs   *)
(* the event loop, the callbacks and their calls; the server is external.  *)
(*                                                                         *)
(* A command, and a message of the server, is [what, of]: "plain" and      *)
(* "monitor" are of a request, "sub" and "unsub" of channels (patterns are *)
(* channels with other names).                                             *)
(***************************************************************************)
EXTENDS Integers, Sequences, SequencesExt, FiniteSets

CONSTANTS
  MaxChannel,  \* bound: channels are 1..MaxChannel
  MaxReq,      \* bound: requests are 1..MaxReq
  MaxSent,     \* bound: messages and monitor lines the server sends on its own
  Careful      \* TRUE: the program waits for confirmations, see Allowed

ASSUME RedisAssumption == MaxChannel \in Nat \ {0} /\ MaxReq \in Nat /\ Careful \in BOOLEAN

Channels == 1..MaxChannel
Requests == 1..MaxReq
None == 0      \* no callback: a redisCallback whose fn is NULL
Calls == {"plain", "sub", "unsub", "monitor"}

VARIABLES
  flags,     \* "connected", "disconnecting", "freeing", "subscribed", "monitoring"
  pc,        \* "idle" in the event loop; "process" replies, in a "callback",
             \* "drain" the callbacks; then "freed", or "aborted" by an assert
  err,       \* the context has seen an error
  cb,        \* the local variable of redisProcessCallbacks
  replies, invalid,   \* lists of callbacks, by their requests
  subs,      \* channels -> [cb, pending], cb = None where there is no entry
  obuf,      \* commands not yet written
  rbuf,      \* replies the reader holds
  poll,      \* the events asked for
  made,      \* history: what each request was, "refused" or "" if not made
  calls,     \* history: how often each request's callback ran, up to twice
  astray,    \* history: a callback got what was not meant for it
  split,     \* history: a read brought no complete reply while monitoring
  lost       \* history: a monitor line that no callback got
VARIABLES wire, back, serving, pushed, reachable   \* the connection and the server

books == <<replies, invalid, subs>>
history == <<made, calls, astray, split, lost>>
server == <<wire, back, serving, pushed, reachable>>
vars == <<flags, pc, err, cb, books, obuf, rbuf, poll, history, server>>

Listening(ch) == subs[ch].cb # None
-----------------------------------------------------------------------------
(* Commands: __redisAsyncCommand                                           *)

\* One SUBSCRIBE may name several channels; cb.pending_subs is carried on from one to the
\* next: it is one more than what the last entry that was found had.
Pending(chs, i) ==
  LET found == {j \in 1..i : Listening(chs[j])} IN
  IF found = {} THEN 1 ELSE subs[chs[Max(found)]].pending + 1
Enrol(chs, r) ==
  [ch \in Channels |-> IF ch \in ToSet(chs)
                       THEN [cb |-> r, pending |-> Pending(chs, CHOOSE i \in DOMAIN chs : chs[i] = ch)]
                       ELSE subs[ch]]

Closing == flags \cap {"disconnecting", "freeing"} # {}

Refused(what) == Closing \/ (what = "unsub" /\ "subscribed" \notin flags)

Queued(what, r) ==
  IF what = "plain" /\ "subscribed" \in flags
  THEN invalid' = Append(invalid, r) /\ UNCHANGED replies
  ELSE replies' = Append(replies, r) /\ UNCHANGED invalid

\* Wrong variants of the definition that follows, here and below, are named Bad...;
\* no specification uses them.  This one queues every plain command among the replies.
BadRegister(what, r, chs) ==
  /\ flags' = CASE what = "sub" -> flags \cup {"subscribed"}
                [] what = "monitor" -> flags \cup {"monitoring"}
                [] OTHER -> flags
  /\ subs' = IF what = "sub" THEN Enrol(chs, r) ELSE subs
  /\ replies' = IF what \in {"plain", "monitor"} THEN Append(replies, r) ELSE replies
  /\ UNCHANGED invalid
Register(what, r, chs) ==
  /\ flags' = CASE what = "sub" -> flags \cup {"subscribed"}
                [] what = "monitor" -> flags \cup {"monitoring"}
                [] OTHER -> flags
  /\ subs' = IF what = "sub" THEN Enrol(chs, r) ELSE subs
  /\ IF what \in {"plain", "monitor"} THEN Queued(what, r) ELSE UNCHANGED <<replies, invalid>>

\* What a careful program does: it sends an UNSUBSCRIBE for one channel it holds, and
\* nothing more before all it sent is answered; it does not mix MONITOR with the rest.
InFlight == obuf \o wire \o back \o rbuf
Allowed(what, chs) ==
  Careful => /\ ~\E i \in DOMAIN InFlight : InFlight[i].what = "unsub"
             /\ what = "unsub" => InFlight = <<>> /\ Listening(chs[1])
             /\ what = "monitor" => \A r \in Requests : made[r] = ""
             /\ what # "monitor" => "monitoring" \notin flags

Command(r, what, chs) ==
  /\ pc \in {"idle", "callback", "drain"}
  /\ made[r] = "" /\ \A q \in Requests : q < r => made[q] # ""
  /\ Allowed(what, chs)
  /\ IF Refused(what)
     THEN made' = [made EXCEPT ![r] = "refused"] /\ UNCHANGED <<flags, books, obuf, poll>>
     ELSE /\ Register(what, r, chs)
          /\ made' = [made EXCEPT ![r] = what]
          /\ obuf' = Append(obuf, [what |-> what, of |-> IF chs = <<>> THEN <<r>> ELSE chs])
          /\ poll' = poll \cup {"write"}
  /\ UNCHANGED <<pc, err, cb, rbuf, calls, astray, split, lost, server>>

-----------------------------------------------------------------------------
(* Leaving                                                                 *)

Disconnect ==
  /\ pc \in {"idle", "callback"} /\ "freeing" \notin flags
  /\ flags' = flags \cup {"disconnecting"}
  /\ pc' = IF pc = "idle" /\ replies = <<>> THEN "drain" ELSE pc
  /\ UNCHANGED <<err, cb, books, obuf, rbuf, poll, history, server>>

Free ==
  /\ pc \in {"idle", "callback"} /\ "freeing" \notin flags
  /\ flags' = flags \cup {"freeing"}
  /\ pc' = IF pc = "idle" THEN "drain" ELSE pc
  /\ UNCHANGED <<err, cb, books, obuf, rbuf, poll, history, server>>

\* __redisAsyncDisconnect after an error.
BadFail(f) == pc' = "freed" /\ err' = TRUE /\ flags' = f \cup {"disconnecting"}
Fail(f) == pc' = "drain" /\ err' = TRUE /\ flags' = f \cup {"disconnecting"}

\* The callback of request r runs with what m.of says, or with NULL if m is None.
Meant(r, m) ==
  CASE made[r] = "sub" -> m.what \in {"sub", "unsub", "message"}
    [] made[r] = "monitor" -> m.what \in {"monitor", "line"}
    [] OTHER -> m.of = <<r>> /\ m.what \in {"plain", "error"}

CallBack(r) == calls' = IF r = None THEN calls
                        ELSE [calls EXCEPT ![r] = IF @ = 2 THEN 2 ELSE @ + 1]

BadShift(list) == list
Shift(list) == Tail(list)     \* __redisShiftCallback takes the head off

Drain ==
  /\ pc = "drain"
  /\ \/ /\ replies # <<>>
        /\ CallBack(Head(replies)) /\ replies' = Shift(replies)
        /\ UNCHANGED <<invalid, subs, pc>>
     \/ /\ replies = <<>> /\ invalid # <<>>
        /\ CallBack(Head(invalid)) /\ invalid' = Shift(invalid)
        /\ UNCHANGED <<replies, subs, pc>>
     \/ /\ replies = <<>> /\ invalid = <<>>
        /\ \E ch \in Channels :
             /\ Listening(ch)
             /\ CallBack(subs[ch].cb) /\ subs' = [subs EXCEPT ![ch].cb = None]
        /\ UNCHANGED <<replies, invalid, pc>>
     \/ /\ replies = <<>> /\ invalid = <<>> /\ \A ch \in Channels : ~Listening(ch)
        /\ pc' = "freed"
        /\ UNCHANGED <<books, calls>>
  /\ UNCHANGED <<flags, err, cb, obuf, rbuf, poll, made, astray, split, lost, server>>

-----------------------------------------------------------------------------
(* The event handlers                                                      *)

\* Until it is connected a handler first asks the socket: it may have to try again
\* (no step), the connection may have failed, or it is there and the handler goes on.
Connected == flags \cup {"connected"}
ConnectFails ==
  /\ pc = "idle" /\ poll # {} /\ "connected" \notin flags
  /\ Fail(flags)
  /\ UNCHANGED <<cb, books, obuf, rbuf, poll, history, server>>

\* redisAsyncHandleWrite: any part of the buffer goes out.
HandleWrite ==
  /\ pc = "idle" /\ "write" \in poll
  /\ \/ \E n \in 0..Len(obuf) :
          /\ wire' = wire \o SubSeq(obuf, 1, n)
          /\ obuf' = SubSeq(obuf, n + 1, Len(obuf))
          /\ poll' = IF n = Len(obuf) THEN {"read"} ELSE poll \cup {"read"}
          /\ flags' = Connected
          /\ UNCHANGED <<pc, err>>
     \/ /\ ~reachable /\ obuf # <<>> /\ Fail(Connected)
        /\ UNCHANGED <<wire, obuf, poll>>
  /\ UNCHANGED <<cb, books, rbuf, history, back, serving, pushed, reachable>>

\* redisAsyncHandleRead: some replies have come, or (n = 0) a part of one.
HandleRead ==
  /\ pc = "idle" /\ "read" \in poll
  /\ \/ \E n \in 0..Len(back) :
          /\ back # <<>> /\ (n = 0 => ~split)   \* bound: one such part per MONITOR
          /\ rbuf' = SubSeq(back, 1, n) /\ back' = SubSeq(back, n + 1, Len(back))
          /\ split' = (split \/ (n = 0 /\ "monitoring" \in flags))
          /\ pc' = "process" /\ cb' = None /\ flags' = Connected
          /\ UNCHANGED err
     \/ /\ ~reachable /\ Fail(Connected)
        /\ UNCHANGED <<rbuf, back, split, cb>>
  /\ UNCHANGED <<books, obuf, poll, made, calls, astray, lost, wire, serving, pushed, reachable>>

Run(c, m) ==
  /\ cb' = c
  /\ CallBack(c)
  /\ astray' = (astray \/ (c # None /\ ~Meant(c, m)))
  /\ lost' = (lost \/ (c = None /\ m.what = "line"))
  /\ pc' = IF c = None THEN "process" ELSE "callback"

\* __redisGetSubscribeCallback for a message of channel ch.
OfChannel(m, ch) ==
  CASE m.what = "sub" -> [subs EXCEPT ![ch].pending = @ - 1]
    [] m.what = "unsub" /\ subs[ch].pending = 0 -> [subs EXCEPT ![ch].cb = None]
    [] OTHER -> subs

ForChannel(m, ch) ==
  IF ~Listening(ch) THEN Run(cb, m) /\ UNCHANGED <<flags, subs>>
  ELSE /\ Run(subs[ch].cb, m)
       /\ subs' = OfChannel(m, ch)
       /\ flags' = IF m.what = "unsub" /\ m.left = 0 /\ \A c \in Channels : subs'[c].cb = None
                   THEN flags \ {"subscribed"} ELSE flags

IsArray(m) == m.what \in {"sub", "unsub", "message"}

Expected == replies # <<>>

\* One turn of redisProcessCallbacks with a reply, and a turn without one.
OneReply ==
  /\ pc = "process" /\ rbuf # <<>>
  /\ LET m == Head(rbuf) IN
     /\ rbuf' = Tail(rbuf)
     /\ \/ /\ Expected
           /\ Run(Head(replies), m) /\ replies' = Shift(replies)
           /\ UNCHANGED <<flags, err, invalid, subs>>
        \/ /\ ~Expected /\ m.what = "error"
           /\ Fail(flags)
           /\ UNCHANGED <<cb, books, history>>
        \/ /\ ~Expected /\ m.what # "error" /\ flags \cap {"subscribed", "monitoring"} = {}
           /\ pc' = "aborted"
           /\ UNCHANGED <<flags, err, cb, books, history>>
        \/ /\ ~Expected /\ IsArray(m) /\ "subscribed" \in flags
           /\ ForChannel(m, m.of[1])
           /\ UNCHANGED <<err, replies, invalid>>
        \/ /\ ~Expected /\ ~IsArray(m) /\ m.what # "error" /\ "subscribed" \in flags
           /\ Run(IF invalid = <<>> THEN cb ELSE Head(invalid), m)
           /\ invalid' = IF invalid = <<>> THEN invalid ELSE Shift(invalid)
           /\ UNCHANGED <<flags, err, replies, subs>>
        \/ /\ ~Expected /\ m.what # "error"
           /\ "subscribed" \notin flags /\ "monitoring" \in flags
           /\ Run(cb, m)
           /\ UNCHANGED <<flags, err, books>>
  /\ UNCHANGED <<obuf, poll, made, split, server>>

BadQuit == "freeing" \in flags
Quit == "disconnecting" \in flags /\ obuf = <<>> /\ replies = <<>>

Again == IF "monitoring" \in flags THEN Append(replies, cb) ELSE replies

NoReply ==
  /\ pc = "process" /\ rbuf = <<>>
  /\ IF Quit THEN pc' = "drain" /\ UNCHANGED replies
     ELSE pc' = "idle" /\ replies' = Again
  /\ UNCHANGED <<flags, err, cb, invalid, subs, obuf, rbuf, poll, history, server>>

Return ==
  /\ pc = "callback"
  /\ pc' = IF "freeing" \in flags THEN "drain" ELSE "process"
  /\ UNCHANGED <<flags, err, cb, books, obuf, rbuf, poll, history, server>>

-----------------------------------------------------------------------------
(* The server (external)                                                   *)

Say(m) == back' = back \o m
Answer(c) ==
  CASE c.what = "sub" ->
         /\ serving' = serving \cup ToSet(c.of)
         /\ Say([i \in DOMAIN c.of |-> [what |-> "sub", of |-> <<c.of[i]>>]])
    [] c.what = "unsub" ->
         /\ serving' = serving \ ToSet(c.of)
         /\ Say(<<[what |-> "unsub", of |-> c.of, left |-> Cardinality(serving')]>>)
    [] c.what = "monitor" -> /\ serving' = serving \cup {None} /\ Say(<<c>>)
    [] c.what = "plain" ->
         /\ UNCHANGED serving
         /\ Say(<<IF serving \cap Channels = {} THEN c ELSE [c EXCEPT !.what = "error"]>>)

Serve ==
  /\ reachable /\ wire # <<>>
  /\ Answer(Head(wire)) /\ wire' = Tail(wire)
  /\ UNCHANGED <<flags, pc, err, cb, books, obuf, rbuf, poll, history, pushed, reachable>>

\* A message of a channel, a line of the monitor (None), or the end of the connection.
Spontaneous ==
  /\ reachable
  /\ \/ /\ pushed < MaxSent /\ pushed' = pushed + 1
        /\ \E c \in serving :
             Say(<<IF c = None THEN [what |-> "line", of |-> <<>>]
                   ELSE [what |-> "message", of |-> <<c>>]>>)
        /\ UNCHANGED reachable
     \/ reachable' = FALSE /\ UNCHANGED <<back, pushed>>
  /\ UNCHANGED <<flags, pc, err, cb, books, obuf, rbuf, poll, history, wire, serving>>

-----------------------------------------------------------------------------
Init ==
  /\ flags = {} /\ pc = "idle" /\ err = FALSE /\ cb = None
  /\ replies = <<>> /\ invalid = <<>>
  /\ subs = [ch \in Channels |-> [cb |-> None, pending |-> 0]]
  /\ obuf = <<>> /\ rbuf = <<>> /\ poll = {}
  /\ made = [r \in Requests |-> ""] /\ calls = [r \in Requests |-> 0]
  /\ astray = FALSE /\ split = FALSE /\ lost = FALSE
  /\ wire = <<>> /\ back = <<>> /\ serving = {} /\ pushed = 0 /\ reachable = TRUE

\* Bound: a SUBSCRIBE names the first channel, or all of them in order.
Arguments(what) ==
  CASE what = "sub" -> {<<1>>, [ch \in Channels |-> ch]}
    [] what = "unsub" -> {<<ch>> : ch \in Channels}
    [] OTHER -> {<<>>}

Commands == \E r \in Requests, what \in Calls :
              \E chs \in Arguments(what) : Command(r, what, chs)
Handler == HandleWrite \/ HandleRead \/ OneReply \/ NoReply \/ Return \/ Drain

Next == \/ Commands \/ Disconnect \/ Free \/ ConnectFails \/ Handler \/ Serve \/ Spontaneous
        \/ pc \in {"freed", "aborted"} /\ UNCHANGED vars

\* The event loop comes back to the events asked for, so what is in the buffers goes out
\* and comes in at last; the loop of a handler runs on; the server answers what it is sent.
Fairness ==
  /\ SF_vars(HandleRead /\ (back' # back \/ err'))
  /\ SF_vars(HandleWrite /\ (obuf' # obuf \/ err'))
  /\ WF_vars(OneReply \/ NoReply \/ Return \/ Drain) /\ WF_vars(Serve)

Spec == Init /\ [][Next]_vars

-----------------------------------------------------------------------------
(* Properties                                                              *)

TypeOK ==
  /\ flags \subseteq {"connected", "disconnecting", "freeing", "subscribed", "monitoring"}
  /\ pc \in {"idle", "process", "callback", "drain", "freed", "aborted"}
  /\ cb \in Requests \cup {None} /\ calls \in [Requests -> 0..2]
  /\ \A r \in Range(replies) \cup Range(invalid) : r \in Requests \cup {None}
  /\ \A i \in DOMAIN obuf : obuf[i].what \in Calls

\* The assertion of async.c:477: a reply nobody waits for comes only to a context that
\* is subscribed or monitoring.
NeverAborts == pc # "aborted"

\* What a command's callback is given is the answer to that command, or of its channels.
RightCallback == ~astray

\* Every callback of a command other than MONITOR runs at most once, and only if the
\* command was accepted; see AsyncRequest.
Plain(r) == made[r] \in {"plain", "refused"}
Promise == INSTANCE AsyncRequest WITH
  verdict <- [r \in Requests |-> CASE made[r] = "" -> "none"
                                   [] made[r] = "refused" -> "no"
                                   [] OTHER -> "yes"],
  calls <- [r \in Requests |-> IF Plain(r) THEN calls[r] ELSE 0]
ImplementsAsyncRequest == Promise!Spec

\* Once the context is gone every plain command accepted has been called back, those
\* sent while subscribed too.  (The callback of a SUBSCRIBE another one replaced is not.)
NobodyForgotten ==
  pc = "freed" => \A r \in Requests : made[r] = "plain" => calls[r] = 1

\* A context told to leave leaves, unless it monitors: then it waits for another line.
Leaves == (Closing /\ "monitoring" \notin flags) ~> pc = "freed"

\* Lines get lost only after a read that brought no complete reply (async.c:436).
LinesHeard == lost => split

\* What a program that waits for confirmations can rely on (async.c:244-447, 469-508).
CallbacksRight == TypeOK /\ NeverAborts /\ RightCallback /\ NobodyForgotten /\ LinesHeard
=============================================================================
