--------------------------- MODULE AsyncDnsProofs ---------------------------
(***************************************************************************)
(* What is proved of AsyncDns for any requests, any number of descriptors, *)
(* any ports and any size of a batch: its safety properties and that it    *)
(* implements AsyncRequest.                                                *)
(***************************************************************************)
EXTENDS AsyncDns, FiniteSetTheorems, SequenceTheorems, TLAPS

\* A registered descriptor is the open socket of the request it is registered for,
\* which was not called back, or is about to be taken out.
Registered ==
  \A fd \in Fds, r \in Requests : epoll[fd] = r =>
    /\ sock[fd] = r
    /\ Unanswered(r) \/ (pc = "remove" /\ Head(batch) = r)

\* What the stage of a commit says of its socket and its callback.
Commits ==
  \A r \in Requests :
    /\ stage[r] # "new" => fdOf[r] \in Fds
    /\ stage[r] = "sent" => sock[fdOf[r]] = r
    /\ calls[r] = 1 => stage[r] = "accepted"
    /\ r \in freed => calls[r] = 1

\* What the position in the loop says of the event it is at.
AtHead(r) ==
  /\ stage[r] = "accepted" /\ r \notin freed
  /\ pc \in {"receive", "call"} => calls[r] = 0
  /\ pc \in {"remove", "close", "free"} => calls[r] = 1
  /\ pc \in {"remove", "close"} => sock[fdOf[r]] = r
  /\ pc = "close" => epoll[fdOf[r]] = Nothing
Loop == batch # <<>> => AtHead(Head(batch))

\* The events of the batch.
Events ==
  /\ \A i, j \in 1..Len(batch) : i # j => batch[i] # batch[j]
  /\ \A i \in 1..Len(batch) : i > 1 => Unanswered(batch[i])

IInv ==
  /\ TypeOK /\ UnansweredIsWatched /\ SocketsHaveUse
  /\ Registered /\ Commits /\ Loop /\ Events

-----------------------------------------------------------------------------
(* The inductive invariant                                                 *)

LEMMA InitIInv == Init => IInv
<1> SUFFICES ASSUME Init PROVE IInv OBVIOUS
<1>1. TypeOK
  <2>1. batch \in Seq(Requests) BY EmptySeq DEF Init
  <2>2. /\ stage \in [Requests -> {"new", "sent", "accepted", "refused"}]
        /\ fdOf \in [Requests -> Fds \cup {0}] /\ port \in [Requests -> Ports \cup {Nothing}]
        /\ sock \in [Fds -> Requests \cup {Nothing}] /\ epoll \in [Fds -> Requests \cup {Nothing}]
        /\ inbox \in [Fds -> Requests \cup {Nothing, Error}]
    BY DEF Init
  <2>3. /\ calls \in [Requests -> 0..1] /\ result \in [Requests -> Requests \cup {Nothing}]
        /\ pc \in Steps /\ (pc = "wait" <=> batch = <<>>)
    BY DEF Init, Steps
  <2> QED BY <2>1, <2>2, <2>3 DEF Init, TypeOK
<1>2. UnansweredIsWatched /\ SocketsHaveUse
  BY NamesAssumption DEF Init, UnansweredIsWatched, SocketsHaveUse, Unanswered
<1>3. Registered /\ Commits BY NamesAssumption DEF Init, Registered, Commits
<1>4. Loop /\ Events BY EmptySeq DEF Init, Loop, Events
<1> QED BY <1>1, <1>2, <1>3, <1>4 DEF IInv

\* The event the loop is at is the first of the batch.
LEMMA HeadFacts ==
  ASSUME IInv, pc # "wait"
  PROVE  /\ batch # <<>> /\ Len(batch) \in Nat \ {0} /\ Head(batch) \in Requests
         /\ Head(batch) = batch[1] /\ AtHead(Head(batch))
         /\ fdOf[Head(batch)] \in Fds \cup {0}
<1>1. batch \in Seq(Requests) /\ batch # <<>> BY DEF IInv, TypeOK
<1>2. Len(batch) \in Nat \ {0} /\ Head(batch) = batch[1] /\ Head(batch) \in Requests
  BY <1>1, HeadTailProperties, EmptySeq
<1> QED BY <1>1, <1>2 DEF IInv, Loop, TypeOK

\* A request whose commit has not begun has no socket, is in no batch and was not
\* called back.
LEMMA NewIsNowhere ==
  ASSUME IInv, NEW r \in Requests, stage[r] = "new"
  PROVE  /\ \A fd \in Fds : sock[fd] # r /\ epoll[fd] # r
         /\ batch # <<>> => Head(batch) # r
         /\ calls[r] = 0 /\ r \notin freed
<1>1. batch # <<>> => Head(batch) # r
  BY DEF IInv, Loop, AtHead
<1>2. \A fd \in Fds : sock[fd] # r
  BY <1>1, HeadFacts DEF IInv, SocketsHaveUse, Unanswered
<1>3. calls[r] = 0 /\ r \notin freed BY DEF IInv, Commits, TypeOK
<1> QED BY <1>1, <1>2, <1>3 DEF IInv, Registered

LEMMA SendStep == ASSUME NEW r \in Requests, IInv, Send(r) PROVE IInv'
<1>T. TypeOK /\ UnansweredIsWatched /\ SocketsHaveUse /\ Registered /\ Commits /\ Loop /\ Events
  BY DEF IInv
<1>1. PICK fd \in Free, p \in Ports :
        /\ sock' = [sock EXCEPT ![fd] = r] /\ fdOf' = [fdOf EXCEPT ![r] = fd]
        /\ port' = [port EXCEPT ![r] = p]
        /\ (net' = net \/ net' = net \cup {[to |-> p, of |-> r]})
  BY DEF Send
<1>2. /\ stage[r] = "new" /\ stage' = [stage EXCEPT ![r] = "sent"]
      /\ UNCHANGED <<epoll, inbox, batch, pc, got, freed, calls, result, exited>>
  BY DEF Send, proc, answers
<1>3. fd \in Fds /\ sock[fd] = Nothing BY DEF Free
<1>4. /\ \A g \in Fds : sock[g] # r /\ epoll[g] # r
      /\ batch # <<>> => Head(batch) # r
      /\ calls[r] = 0 /\ r \notin freed
  BY <1>2, NewIsNowhere
<1>5. TypeOK'
  <2>1. net' \subseteq Answer BY <1>1, <1>T DEF TypeOK, Answer
  <2>2. /\ sock' \in [Fds -> Requests \cup {Nothing}] /\ fdOf' \in [Requests -> Fds \cup {0}]
        /\ port' \in [Requests -> Ports \cup {Nothing}]
        /\ stage' \in [Requests -> {"new", "sent", "accepted", "refused"}]
    BY <1>1, <1>2, <1>3, <1>T DEF TypeOK
  <2> QED BY <1>2, <1>T, <2>1, <2>2 DEF TypeOK
<1>6. \A q \in Requests : /\ q # r => fdOf'[q] = fdOf[q] /\ stage'[q] = stage[q]
                          /\ Unanswered(q)' <=> Unanswered(q)
  BY <1>1, <1>2, <1>T DEF Unanswered, TypeOK
<1>7. \A q \in Requests, g \in Fds : q # r => (sock'[g] = q <=> sock[g] = q)
  BY <1>1, <1>3, <1>T, NamesAssumption DEF TypeOK
<1>8. \A g \in Fds : sock'[g] = r => g = fd BY <1>1, <1>4, <1>T DEF TypeOK
<1>9. UnansweredIsWatched'
  <2> SUFFICES ASSUME NEW q \in Requests, Unanswered(q)
               PROVE  sock'[fdOf'[q]] = q /\ epoll'[fdOf'[q]] = q
    BY <1>6 DEF UnansweredIsWatched
  <2>1. q # r BY <1>2 DEF Unanswered
  <2>2. sock[fdOf[q]] = q /\ epoll[fdOf[q]] = q BY <1>T DEF UnansweredIsWatched
  <2>3. fdOf[q] # fd BY <2>2, <1>3, NamesAssumption
  <2> QED BY <1>1, <1>2, <1>6, <2>1, <2>2, <2>3, <1>T DEF TypeOK
<1>10. SocketsHaveUse'
  <2> SUFFICES ASSUME NEW g \in Fds, NEW q \in Requests, sock'[g] = q
               PROVE  /\ fdOf'[q] = g
                      /\ \/ stage'[q] \in {"sent", "refused"} \/ Unanswered(q)
                         \/ pc \in {"remove", "close"} /\ Head(batch) = q
    BY <1>2, <1>6 DEF SocketsHaveUse
  <2>1. CASE q = r BY <2>1, <1>1, <1>2, <1>8, <1>T DEF TypeOK
  <2>2. CASE q # r BY <2>2, <1>6, <1>7, <1>T DEF SocketsHaveUse
  <2> QED BY <2>1, <2>2
<1>11. Registered' BY <1>2, <1>4, <1>6, <1>7, <1>T DEF Registered
<1>12. Commits'
  <2> SUFFICES ASSUME NEW q \in Requests
               PROVE  /\ stage'[q] # "new" => fdOf'[q] \in Fds
                      /\ stage'[q] = "sent" => sock'[fdOf'[q]] = q
                      /\ calls[q] = 1 => stage'[q] = "accepted"
                      /\ q \in freed => calls[q] = 1
    BY <1>2 DEF Commits
  <2>1. CASE q = r BY <2>1, <1>1, <1>2, <1>3, <1>4, <1>T DEF TypeOK
  <2>2. CASE q # r
    <3>1. stage[q] = "sent" => sock[fdOf[q]] = q BY <1>T DEF Commits
    <3>2. stage[q] = "sent" => fdOf[q] # fd BY <3>1, <1>3, NamesAssumption
    <3> QED BY <2>2, <3>1, <3>2, <1>1, <1>6, <1>T DEF Commits, TypeOK
  <2> QED BY <2>1, <2>2
<1>13. Loop'
  <2> SUFFICES ASSUME batch # <<>> PROVE AtHead(Head(batch))' BY <1>2 DEF Loop
  <2> DEFINE h == Head(batch)
  <2>1. h \in Requests /\ AtHead(h) /\ h # r BY <1>4, <1>T, HeadTailProperties DEF TypeOK, Loop
  <2>2. stage'[h] = stage[h] /\ fdOf'[h] = fdOf[h] BY <2>1, <1>6
  <2>3. sock[fdOf[h]] = h => sock'[fdOf[h]] = h
    BY <2>1, <1>1, <1>3, <1>T, NamesAssumption DEF TypeOK
  <2> QED BY <2>1, <2>2, <2>3, <1>2 DEF AtHead
<1>14. Events'
  <2>1. \A i \in 1..Len(batch) : batch[i] \in Requests BY <1>T, ElementOfSeq DEF TypeOK
  <2> QED BY <2>1, <1>2, <1>6, <1>T DEF Events
<1> QED BY <1>5, <1>9, <1>10, <1>11, <1>12, <1>13, <1>14 DEF IInv

\* The other invariants do not speak of the inboxes, the network or the results.
LEMMA FrameStep ==
  ASSUME IInv, TypeOK', UNCHANGED <<stage, fdOf, sock, epoll, batch, pc, freed, calls>>
  PROVE  IInv'
<1>1. \A q \in Requests : Unanswered(q)' <=> Unanswered(q) BY DEF Unanswered
<1>2. UnansweredIsWatched' /\ SocketsHaveUse' /\ Registered' /\ Commits'
  BY <1>1 DEF IInv, UnansweredIsWatched, SocketsHaveUse, Registered, Commits
<1>3. Loop' BY DEF IInv, Loop, AtHead
<1>4. Events'
  <2>1. \A i \in 1..Len(batch) : batch[i] \in Requests BY ElementOfSeq DEF IInv, TypeOK
  <2> QED BY <2>1, <1>1 DEF IInv, Events
<1> QED BY <1>2, <1>3, <1>4 DEF IInv

LEMMA NetworkStep ==
  IInv /\ ((\E a \in net : Arrive(a) \/ Lose(a)) \/ Disturb \/ UNCHANGED vars) => IInv'
<1> SUFFICES ASSUME IInv, (\E a \in net : Arrive(a) \/ Lose(a)) \/ Disturb \/ UNCHANGED vars
             PROVE  IInv'
  OBVIOUS
<1>T. TypeOK BY DEF IInv
<1>1. ASSUME NEW a \in net, Arrive(a) PROVE IInv'
  <2>1. PICK fd \in Fds : inbox' = [inbox EXCEPT ![fd] = IF @ = Nothing THEN a.of ELSE @]
    BY <1>1 DEF Arrive
  <2>2. a.of \in Requests BY <1>T DEF TypeOK, Answer
  <2>3. inbox' \in [Fds -> Requests \cup {Nothing, Error}] BY <2>1, <2>2, <1>T DEF TypeOK
  <2>4. net' \subseteq Answer BY <1>1, <1>T DEF Arrive, TypeOK
  <2>5. UNCHANGED <<stage, fdOf, port, sock, epoll, batch, pc, got, freed, calls, result, exited>>
    BY <1>1 DEF Arrive, commit, proc, answers
  <2>6. TypeOK' BY <2>3, <2>4, <2>5, <1>T DEF TypeOK
  <2> QED BY <2>5, <2>6, FrameStep
<1>2. ASSUME NEW a \in net, Lose(a) PROVE IInv'
  <2>1. UNCHANGED <<stage, fdOf, port, sock, epoll, inbox, batch, pc, got, freed, calls, result, exited>>
    BY <1>2 DEF Lose, commit, kernel, proc, answers
  <2>2. TypeOK' BY <1>2, <2>1, <1>T DEF TypeOK, Lose
  <2> QED BY <2>1, <2>2, FrameStep
<1>3. ASSUME Disturb PROVE IInv'
  <2>1. UNCHANGED <<stage, fdOf, port, sock, epoll, net, batch, pc, got, freed, calls, result, exited>>
    BY <1>3 DEF Disturb, commit, proc, answers
  <2>2. inbox' \in [Fds -> Requests \cup {Nothing, Error}] BY <1>3, <1>T DEF Disturb, TypeOK
  <2>3. TypeOK' BY <2>1, <2>2, <1>T DEF TypeOK
  <2> QED BY <2>1, <2>3, FrameStep
<1>4. ASSUME UNCHANGED vars PROVE IInv'
  <2>1. UNCHANGED <<stage, fdOf, port, sock, epoll, inbox, net, batch, pc, got, freed, calls, result, exited>>
    BY <1>4 DEF vars, commit, kernel, proc, answers
  <2>2. TypeOK' BY <2>1, <1>T DEF TypeOK
  <2> QED BY <2>1, <2>2, FrameStep
<1> QED BY <1>1, <1>2, <1>3, <1>4

LEMMA NoSocketStep == ASSUME NEW r \in Requests, IInv, NoSocket(r) PROVE IInv'
<1>1. UNCHANGED <<stage, fdOf, port, sock, epoll, inbox, net, batch, pc, got, freed, calls, result>>
  BY DEF NoSocket, commit, kernel, proc, answers
<1>2. TypeOK' BY <1>1 DEF IInv, TypeOK, NoSocket
<1> QED BY <1>1, <1>2, FrameStep

\* A commit that is still running has its socket and nothing else.
LEMMA SentFacts ==
  ASSUME IInv, NEW r \in Requests, stage[r] = "sent"
  PROVE  /\ fdOf[r] \in Fds /\ sock[fdOf[r]] = r /\ calls[r] = 0 /\ r \notin freed
         /\ \A fd \in Fds : epoll[fd] # r
         /\ batch # <<>> => Head(batch) # r
         /\ \A i \in 1..Len(batch) : batch[i] # r
<1>1. sock[fdOf[r]] = r /\ calls[r] = 0 /\ r \notin freed BY DEF IInv, Commits, TypeOK
<1>2. batch # <<>> => Head(batch) # r BY DEF IInv, Loop, AtHead
<1>3. \A fd \in Fds : epoll[fd] # r BY <1>2, HeadFacts DEF IInv, Registered, Unanswered
<1>4. \A i \in 1..Len(batch) : batch[i] # r
  <2> SUFFICES ASSUME NEW i \in 1..Len(batch), batch[i] = r PROVE FALSE OBVIOUS
  <2>1. batch \in Seq(Requests) /\ batch # <<>> BY EmptySeq DEF IInv, TypeOK
  <2>2. i # 1 BY <2>1, <1>2, HeadTailProperties
  <2>3. i > 1 BY <2>1, <2>2, EmptySeq
  <2> QED BY <2>3 DEF IInv, Events, Unanswered
<1>5. fdOf[r] \in Fds BY DEF IInv, Commits
<1> QED BY <1>1, <1>2, <1>3, <1>4, <1>5

LEMMA RegisterStep == ASSUME NEW r \in Requests, IInv, Register(r) PROVE IInv'
<1>T. TypeOK /\ UnansweredIsWatched /\ SocketsHaveUse /\ Registered /\ Commits /\ Loop /\ Events
  BY DEF IInv
<1>1. /\ stage[r] = "sent" /\ stage' = [stage EXCEPT ![r] = "accepted"]
      /\ epoll' = [epoll EXCEPT ![fdOf[r]] = r]
      /\ UNCHANGED <<fdOf, port, sock, inbox, net, batch, pc, got, freed, calls, result, exited>>
  BY DEF Register, proc, answers
<1>2. /\ fdOf[r] \in Fds /\ sock[fdOf[r]] = r /\ calls[r] = 0 /\ r \notin freed
      /\ \A fd \in Fds : epoll[fd] # r
      /\ batch # <<>> => Head(batch) # r
      /\ \A i \in 1..Len(batch) : batch[i] # r
  BY <1>1, SentFacts
<1>3. TypeOK' BY <1>1, <1>2, <1>T DEF TypeOK
<1>4. \A q \in Requests : q # r => stage'[q] = stage[q] /\ (Unanswered(q)' <=> Unanswered(q))
  BY <1>1, <1>T DEF Unanswered, TypeOK
<1>5. stage'[r] = "accepted" /\ Unanswered(r)' BY <1>1, <1>2, <1>T DEF Unanswered, TypeOK
<1>6. UnansweredIsWatched'
  <2> SUFFICES ASSUME NEW q \in Requests, Unanswered(q)'
               PROVE  sock[fdOf[q]] = q /\ epoll'[fdOf[q]] = q
    BY <1>1 DEF UnansweredIsWatched
  <2>1. CASE q = r BY <2>1, <1>1, <1>2, <1>T DEF TypeOK
  <2>2. CASE q # r
    <3>1. sock[fdOf[q]] = q /\ epoll[fdOf[q]] = q /\ fdOf[q] \in Fds
      BY <2>2, <1>4, <1>T DEF UnansweredIsWatched, Commits, Unanswered
    <3> QED BY <2>2, <3>1, <1>1, <1>2, <1>T DEF TypeOK
  <2> QED BY <2>1, <2>2
<1>7. SocketsHaveUse' BY <1>1, <1>4, <1>5, <1>T DEF SocketsHaveUse
<1>8. Registered'
  <2> SUFFICES ASSUME NEW fd \in Fds, NEW q \in Requests, epoll'[fd] = q
               PROVE  /\ sock[fd] = q
                      /\ Unanswered(q)' \/ (pc = "remove" /\ Head(batch) = q)
    BY <1>1 DEF Registered
  <2>1. CASE fd = fdOf[r] BY <2>1, <1>1, <1>2, <1>5, <1>T DEF TypeOK
  <2>2. CASE fd # fdOf[r]
    <3>1. epoll[fd] = q /\ q # r BY <2>2, <1>1, <1>2, <1>T DEF TypeOK
    <3> QED BY <3>1, <1>4, <1>T DEF Registered
  <2> QED BY <2>1, <2>2
<1>9. Commits' BY <1>1, <1>2, <1>4, <1>5, <1>T DEF Commits
<1>10. Loop'
  <2> SUFFICES ASSUME batch # <<>> PROVE AtHead(Head(batch))' BY <1>1 DEF Loop
  <2> DEFINE h == Head(batch)
  <2>1. h \in Requests /\ AtHead(h) /\ h # r BY <1>2, <1>T, HeadTailProperties DEF TypeOK, Loop
  <2>2. stage'[h] = stage[h] /\ fdOf[h] \in Fds BY <2>1, <1>4, <1>T DEF Commits, AtHead
  <2>3. pc = "close" => fdOf[h] # fdOf[r] BY <2>1, <1>2 DEF AtHead
  <2>4. pc = "close" => epoll'[fdOf[h]] = Nothing
    BY <2>1, <2>2, <2>3, <1>1, <1>2, <1>T DEF AtHead, TypeOK
  <2> QED BY <2>1, <2>2, <2>4, <1>1 DEF AtHead
<1>11. Events'
  <2>1. \A i \in 1..Len(batch) : batch[i] \in Requests BY <1>T, ElementOfSeq DEF TypeOK
  <2> QED BY <2>1, <1>1, <1>2, <1>4, <1>T DEF Events
<1> QED BY <1>3, <1>6, <1>7, <1>8, <1>9, <1>10, <1>11 DEF IInv

LEMMA RegisterFailsStep == ASSUME NEW r \in Requests, IInv, RegisterFails(r) PROVE IInv'
<1>T. TypeOK /\ UnansweredIsWatched /\ SocketsHaveUse /\ Registered /\ Commits /\ Loop /\ Events
  BY DEF IInv
<1>1. /\ stage[r] = "sent" /\ stage' = [stage EXCEPT ![r] = "refused"]
      /\ UNCHANGED <<fdOf, port, sock, epoll, inbox, net, batch, pc, got, freed, calls, result, exited>>
  BY DEF RegisterFails, proc, answers, kernel
<1>2. /\ calls[r] = 0 /\ r \notin freed
      /\ \A fd \in Fds : epoll[fd] # r
      /\ batch # <<>> => Head(batch) # r
      /\ \A i \in 1..Len(batch) : batch[i] # r
  BY <1>1, SentFacts
<1>3. TypeOK' BY <1>1, <1>T DEF TypeOK
<1>4. \A q \in Requests : /\ q # r => stage'[q] = stage[q]
                          /\ Unanswered(q)' <=> Unanswered(q)
  BY <1>1, <1>T DEF Unanswered, TypeOK
<1>5. stage'[r] = "refused" BY <1>1, <1>T DEF TypeOK
<1>6. UnansweredIsWatched' BY <1>1, <1>4, <1>T DEF UnansweredIsWatched
<1>7. SocketsHaveUse' BY <1>1, <1>4, <1>5, <1>T DEF SocketsHaveUse
<1>8. Registered' BY <1>1, <1>4, <1>T DEF Registered
<1>9. Commits' BY <1>1, <1>2, <1>4, <1>5, <1>T DEF Commits
<1>10. Loop'
  <2>1. batch # <<>> => Head(batch) \in Requests BY <1>T, HeadTailProperties DEF TypeOK
  <2> QED BY <2>1, <1>1, <1>2, <1>4, <1>T DEF Loop, AtHead
<1>11. Events'
  <2>1. \A i \in 1..Len(batch) : batch[i] \in Requests BY <1>T, ElementOfSeq DEF TypeOK
  <2> QED BY <2>1, <1>1, <1>4, <1>T DEF Events
<1> QED BY <1>3, <1>6, <1>7, <1>8, <1>9, <1>10, <1>11 DEF IInv

\* The events epoll_wait returns are of different requests that nobody answered yet.
LEMMA EpollWaitStep == IInv /\ EpollWait => IInv'
<1> SUFFICES ASSUME IInv, EpollWait PROVE IInv' OBVIOUS
<1>T. TypeOK /\ UnansweredIsWatched /\ SocketsHaveUse /\ Registered /\ Commits /\ Loop /\ Events
  BY DEF IInv
<1>1. /\ pc = "wait" /\ pc' = "receive" /\ Ready # {}
      /\ UNCHANGED <<stage, fdOf, port, sock, epoll, inbox, net, got, freed, calls, result, exited>>
  BY DEF EpollWait, commit, kernel, answers
<1> DEFINE m == BatchSize
<1>2. m \in Nat \ {0}
  <2>1. IsFiniteSet(Ready)
    <3>1. IsFiniteSet(1..MaxFds) BY SizesAssumption, FS_Interval
    <3> QED BY <3>1, FS_Subset DEF Ready, Fds
  <2>2. Cardinality(Ready) \in Nat /\ Cardinality(Ready) # 0
    BY <2>1, <1>1, FS_CardinalityType, FS_EmptySet
  <2> QED BY <2>2, SizesAssumption DEF BatchSize
<1> HIDE DEF m
<1>3. PICK s \in [1..m -> Ready] : /\ \A i, j \in 1..m : i # j => s[i] # s[j]
                                   /\ batch' = [i \in 1..m |-> epoll[s[i]]]
  BY DEF EpollWait, m
<1>4. ASSUME NEW i \in 1..m
      PROVE  /\ epoll[s[i]] \in Requests /\ Unanswered(epoll[s[i]])
             /\ fdOf[epoll[s[i]]] = s[i]
  <2>1. s[i] \in Fds /\ epoll[s[i]] \in Requests BY <1>3, <1>T DEF Ready, TypeOK
  <2> QED BY <2>1, <1>1, <1>T DEF Registered, SocketsHaveUse
<1>5. batch' \in Seq(Requests) /\ Len(batch') = m BY <1>2, <1>3, <1>4
<1>6. /\ \A i \in 1..m : batch'[i] = epoll[s[i]]
      /\ batch' # <<>> /\ Head(batch') = batch'[1] /\ 1 \in 1..m
  BY <1>2, <1>3, <1>5
<1>7. TypeOK' BY <1>1, <1>5, <1>6, <1>T DEF TypeOK, Steps
<1>8. \A q \in Requests : Unanswered(q)' <=> Unanswered(q) BY <1>1 DEF Unanswered
<1>9. UnansweredIsWatched' /\ SocketsHaveUse' /\ Registered' /\ Commits'
  BY <1>1, <1>8, <1>T DEF UnansweredIsWatched, SocketsHaveUse, Registered, Commits
<1>10. Loop'
  <2> DEFINE h == epoll[s[1]]
  <2>1. Head(batch') = h /\ h \in Requests /\ Unanswered(h) BY <1>4, <1>6
  <2>2. stage[h] = "accepted" /\ calls[h] = 0 /\ h \notin freed BY <2>1, <1>T DEF Unanswered, Commits
  <2> QED BY <1>1, <2>1, <2>2 DEF Loop, AtHead
<1>11. Events'
  <2>1. ASSUME NEW i \in 1..m, NEW j \in 1..m, i # j PROVE batch'[i] # batch'[j]
    BY <2>1, <1>3, <1>4, <1>6
  <2>2. ASSUME NEW i \in 1..m 
        PROVE  stage'[batch'[i]] = "accepted" /\ calls'[batch'[i]] = 0
    BY <1>1, <1>4, <1>6 DEF Unanswered
  <2> QED BY <1>5, <2>1, <2>2 DEF Events, Unanswered
<1> QED BY <1>7, <1>9, <1>10, <1>11 DEF IInv

LEMMA ReceiveStep == IInv /\ Receive => IInv'
<1> SUFFICES ASSUME IInv, Receive PROVE IInv' OBVIOUS
<1>T. TypeOK /\ UnansweredIsWatched /\ SocketsHaveUse /\ Registered /\ Commits /\ Loop /\ Events
  BY DEF IInv
<1>1. /\ pc = "receive" /\ pc' = "call"
      /\ UNCHANGED <<stage, fdOf, port, sock, epoll, net, batch, freed, calls, result, exited>>
  BY DEF Receive, Order, commit, answers
<1>2. batch # <<>> /\ AtHead(Head(batch)) BY <1>1, HeadFacts
<1>3. TypeOK'
  <2>1. got' \in Requests \cup {Nothing} BY <1>T DEF Receive, TypeOK
  <2>2. inbox' \in [Fds -> Requests \cup {Nothing, Error}] BY <1>T DEF Receive, TypeOK
  <2> QED BY <2>1, <2>2, <1>1, <1>2, <1>T DEF TypeOK, Steps
<1>4. \A q \in Requests : Unanswered(q)' <=> Unanswered(q) BY <1>1 DEF Unanswered
<1>5. UnansweredIsWatched' /\ SocketsHaveUse' /\ Registered' /\ Commits'
  BY <1>1, <1>4, <1>T DEF UnansweredIsWatched, SocketsHaveUse, Registered, Commits
<1>6. Loop' BY <1>1, <1>2 DEF Loop, AtHead
<1>7. Events'
  <2>1. \A i \in 1..Len(batch) : batch[i] \in Requests BY <1>T, ElementOfSeq DEF TypeOK
  <2> QED BY <2>1, <1>1, <1>4, <1>T DEF Events
<1> QED BY <1>3, <1>5, <1>6, <1>7 DEF IInv

LEMMA CallBackStep == IInv /\ CallBack => IInv'
<1> SUFFICES ASSUME IInv, CallBack PROVE IInv' OBVIOUS
<1>T. TypeOK /\ UnansweredIsWatched /\ SocketsHaveUse /\ Registered /\ Commits /\ Loop /\ Events
  BY DEF IInv
<1>0. PICK h \in Requests : h = Head(batch) BY HeadFacts DEF CallBack
<1>1. /\ pc = "call" /\ pc' = "remove"
      /\ calls' = [calls EXCEPT ![h] = @ + 1] /\ result' = [result EXCEPT ![h] = got]
      /\ UNCHANGED <<stage, fdOf, port, sock, epoll, inbox, net, batch, got, freed, exited>>
  BY <1>0 DEF CallBack, Order, commit, kernel
<1>2. /\ batch # <<>> /\ h = batch[1] /\ Len(batch) \in Nat \ {0}
      /\ stage[h] = "accepted" /\ h \notin freed /\ calls[h] = 0
  BY <1>0, <1>1, HeadFacts DEF AtHead
<1>3. sock[fdOf[h]] = h BY <1>2, <1>T DEF UnansweredIsWatched, Unanswered
<1>4. TypeOK' BY <1>1, <1>2, <1>T DEF TypeOK, Steps
<1>5. calls'[h] = 1 /\ \A q \in Requests : q # h => calls'[q] = calls[q]
  BY <1>1, <1>2, <1>T DEF TypeOK
<1>6. \A q \in Requests : q # h => (Unanswered(q)' <=> Unanswered(q))
  BY <1>1, <1>5 DEF Unanswered
<1>7. ~Unanswered(h)' BY <1>5 DEF Unanswered
<1>8. UnansweredIsWatched' BY <1>1, <1>6, <1>7, <1>T DEF UnansweredIsWatched
<1>9. SocketsHaveUse' BY <1>1, <1>0, <1>6, <1>T DEF SocketsHaveUse
<1>10. Registered' BY <1>1, <1>0, <1>6, <1>T DEF Registered
<1>11. Commits' BY <1>1, <1>2, <1>5, <1>T DEF Commits
<1>12. Loop' BY <1>1, <1>2, <1>3, <1>5, <1>0 DEF Loop, AtHead
<1>13. Events'
  <2>1. \A i \in 1..Len(batch) : batch[i] \in Requests BY <1>T, ElementOfSeq DEF TypeOK
  <2>2. \A i \in 1..Len(batch) : i > 1 => batch[i] # h BY <1>2, <1>T DEF Events
  <2> QED BY <2>1, <2>2, <1>1, <1>6, <1>T DEF Events
<1> QED BY <1>4, <1>8, <1>9, <1>10, <1>11, <1>12, <1>13 DEF IInv

LEMMA RemoveStep == IInv /\ Remove => IInv'
<1> SUFFICES ASSUME IInv, Remove PROVE IInv' OBVIOUS
<1>T. TypeOK /\ UnansweredIsWatched /\ SocketsHaveUse /\ Registered /\ Commits /\ Loop /\ Events
  BY DEF IInv
<1>0. PICK h \in Requests : h = Head(batch) BY HeadFacts DEF Remove
<1>1. /\ pc = "remove" /\ pc' = "close" /\ epoll' = [epoll EXCEPT ![fdOf[h]] = Nothing]
      /\ UNCHANGED <<stage, fdOf, port, sock, inbox, net, batch, got, freed, calls, result, exited>>
  BY <1>0 DEF Remove, Order, EventFd, commit, answers
<1>2. /\ batch # <<>> /\ AtHead(h) /\ fdOf[h] \in Fds /\ sock[fdOf[h]] = h
  <2>1. batch # <<>> /\ AtHead(h) BY <1>0, <1>1, HeadFacts
  <2> QED BY <2>1, <1>1, <1>T DEF AtHead, Commits
<1>3. TypeOK' BY <1>1, <1>2, <1>T DEF TypeOK, Steps
<1>4. \A q \in Requests : Unanswered(q)' <=> Unanswered(q) BY <1>1 DEF Unanswered
<1>5. UnansweredIsWatched'
  <2> SUFFICES ASSUME NEW q \in Requests, Unanswered(q)
               PROVE  sock[fdOf[q]] = q /\ epoll'[fdOf[q]] = q
    BY <1>1, <1>4 DEF UnansweredIsWatched
  <2>1. sock[fdOf[q]] = q /\ epoll[fdOf[q]] = q /\ fdOf[q] \in Fds
    BY <1>T DEF UnansweredIsWatched, Commits, Unanswered
  <2>2. q # h BY <1>1, <1>2 DEF AtHead, Unanswered
  <2> QED BY <2>1, <2>2, <1>1, <1>2, <1>T DEF TypeOK
<1>6. SocketsHaveUse' BY <1>1, <1>4, <1>T DEF SocketsHaveUse
<1>7. Registered'
  <2> SUFFICES ASSUME NEW fd \in Fds, NEW q \in Requests, epoll'[fd] = q
               PROVE  sock[fd] = q /\ Unanswered(q)
    BY <1>1, <1>4 DEF Registered
  <2>1. fd # fdOf[h] /\ epoll[fd] = q BY <1>1, <1>2, <1>T, NamesAssumption DEF TypeOK
  <2>2. sock[fd] = q /\ fdOf[q] = fd BY <2>1, <1>T DEF Registered, SocketsHaveUse
  <2> QED BY <2>1, <2>2, <1>0, <1>T DEF Registered
<1>8. Commits' BY <1>1, <1>T DEF Commits
<1>9. Loop'
  <2>1. epoll'[fdOf[h]] = Nothing BY <1>1, <1>2, <1>T DEF TypeOK
  <2> QED BY <2>1, <1>0, <1>1, <1>2 DEF Loop, AtHead
<1>10. Events'
  <2>1. \A i \in 1..Len(batch) : batch[i] \in Requests BY <1>T, ElementOfSeq DEF TypeOK
  <2> QED BY <2>1, <1>1, <1>4, <1>T DEF Events
<1> QED BY <1>3, <1>5, <1>6, <1>7, <1>8, <1>9, <1>10 DEF IInv

LEMMA CloseStep == IInv /\ Close => IInv'
<1> SUFFICES ASSUME IInv, Close PROVE IInv' OBVIOUS
<1>T. TypeOK /\ UnansweredIsWatched /\ SocketsHaveUse /\ Registered /\ Commits /\ Loop /\ Events
  BY DEF IInv
<1>0. PICK h \in Requests : h = Head(batch) BY HeadFacts DEF Close
<1>1. /\ pc = "close" /\ pc' = "free"
      /\ sock' = [sock EXCEPT ![fdOf[h]] = Nothing]
      /\ epoll' = [epoll EXCEPT ![fdOf[h]] = Nothing]
      /\ inbox' = [inbox EXCEPT ![fdOf[h]] = Nothing]
      /\ UNCHANGED <<stage, fdOf, port, net, batch, got, freed, calls, result, exited>>
  BY <1>0 DEF Close, Order, EventFd, commit, answers
<1>2. /\ batch # <<>> /\ AtHead(h) /\ fdOf[h] \in Fds /\ sock[fdOf[h]] = h /\ calls[h] = 1
      /\ stage[h] = "accepted"
  <2>1. batch # <<>> /\ AtHead(h) BY <1>0, <1>1, HeadFacts
  <2> QED BY <2>1, <1>1, <1>T DEF AtHead, Commits
<1>3. TypeOK' BY <1>1, <1>2, <1>T DEF TypeOK, Steps
<1>4. \A q \in Requests : Unanswered(q)' <=> Unanswered(q) BY <1>1 DEF Unanswered
<1>5. UnansweredIsWatched'
  <2> SUFFICES ASSUME NEW q \in Requests, Unanswered(q)
               PROVE  sock'[fdOf[q]] = q /\ epoll'[fdOf[q]] = q
    BY <1>1, <1>4 DEF UnansweredIsWatched
  <2>1. sock[fdOf[q]] = q /\ epoll[fdOf[q]] = q /\ fdOf[q] \in Fds
    BY <1>T DEF UnansweredIsWatched, Commits, Unanswered
  <2>2. q # h BY <1>2 DEF Unanswered
  <2> QED BY <2>1, <2>2, <1>1, <1>2, <1>T DEF TypeOK
<1>6. \A fd \in Fds, q \in Requests : sock'[fd] = q => fd # fdOf[h] /\ sock[fd] = q
  BY <1>1, <1>2, <1>T, NamesAssumption DEF TypeOK
<1>7. \A fd \in Fds, q \in Requests : epoll'[fd] = q => fd # fdOf[h] /\ epoll[fd] = q
  BY <1>1, <1>2, <1>T, NamesAssumption DEF TypeOK
<1>8. SocketsHaveUse'
  <2> SUFFICES ASSUME NEW fd \in Fds, NEW q \in Requests, sock'[fd] = q
               PROVE  fdOf[q] = fd /\ (stage[q] \in {"sent", "refused"} \/ Unanswered(q))
    BY <1>1, <1>4 DEF SocketsHaveUse
  <2> QED BY <1>0, <1>6, <1>T DEF SocketsHaveUse
<1>9. Registered'
  <2> SUFFICES ASSUME NEW fd \in Fds, NEW q \in Requests, epoll'[fd] = q
               PROVE  sock'[fd] = q /\ Unanswered(q)
    BY <1>4 DEF Registered
  <2>1. fd # fdOf[h] /\ epoll[fd] = q BY <1>7
  <2>2. sock[fd] = q /\ Unanswered(q) BY <2>1, <1>1, <1>T DEF Registered
  <2> QED BY <2>1, <2>2, <1>1, <1>2, <1>T DEF TypeOK
<1>10. Commits'
  <2> SUFFICES ASSUME NEW q \in Requests, stage[q] = "sent" PROVE sock'[fdOf[q]] = q
    BY <1>1, <1>T DEF Commits
  <2>1. sock[fdOf[q]] = q /\ fdOf[q] \in Fds /\ q # h BY <1>2, <1>T DEF Commits
  <2> QED BY <2>1, <1>1, <1>2, <1>T DEF TypeOK
<1>11. Loop' BY <1>0, <1>1, <1>2 DEF Loop, AtHead
<1>12. Events'
  <2>1. \A i \in 1..Len(batch) : batch[i] \in Requests BY <1>T, ElementOfSeq DEF TypeOK
  <2> QED BY <2>1, <1>1, <1>4, <1>T DEF Events
<1> QED BY <1>3, <1>5, <1>8, <1>9, <1>10, <1>11, <1>12 DEF IInv

LEMMA FreeStep == IInv /\ FreeArg => IInv'
<1> SUFFICES ASSUME IInv, FreeArg PROVE IInv' OBVIOUS
<1>T. TypeOK /\ UnansweredIsWatched /\ SocketsHaveUse /\ Registered /\ Commits /\ Loop /\ Events
  BY DEF IInv
<1>0. PICK h \in Requests : h = Head(batch) BY HeadFacts DEF FreeArg
<1>1. /\ pc = "free" /\ freed' = freed \cup {h} /\ batch' = Tail(batch)
      /\ pc' = IF batch' = <<>> THEN "wait" ELSE "receive"
      /\ UNCHANGED <<stage, fdOf, port, sock, epoll, inbox, net, got, calls, result, exited>>
  BY <1>0 DEF FreeArg, commit, kernel, answers
<1>2. batch # <<>> /\ AtHead(h) /\ h = batch[1] /\ Len(batch) \in Nat \ {0}
  BY <1>0, <1>1, HeadFacts
<1>3. /\ batch' \in Seq(Requests) /\ Len(batch') = Len(batch) - 1
      /\ \A i \in 1..Len(batch') : batch'[i] = batch[i + 1]
      /\ batch' # <<>> => Head(batch') = batch'[1] /\ Len(batch') \in Nat \ {0}
  <2>1. batch \in Seq(Requests) BY <1>T DEF TypeOK
  <2>2. /\ batch' \in Seq(Requests) /\ Len(batch') = Len(batch) - 1
        /\ \A i \in 1..Len(batch') : batch'[i] = batch[i + 1]
    BY <1>1, <1>2, <2>1, HeadTailProperties
  <2>3. batch' # <<>> => Len(batch') \in Nat \ {0} BY <2>2, EmptySeq
  <2> QED BY <2>2, <2>3
<1>4. TypeOK' BY <1>1, <1>3, <1>T DEF TypeOK, Steps
<1>5. \A q \in Requests : Unanswered(q)' <=> Unanswered(q) BY <1>1 DEF Unanswered
<1>6. UnansweredIsWatched' /\ SocketsHaveUse' /\ Registered'
  BY <1>1, <1>5, <1>T DEF UnansweredIsWatched, SocketsHaveUse, Registered
<1>7. Commits' BY <1>1, <1>2, <1>T DEF Commits, AtHead
<1>8. \A i \in 1..Len(batch') : i + 1 \in 1..Len(batch) /\ i + 1 > 1 BY <1>2, <1>3
<1>9. \A i \in 1..Len(batch') : /\ batch'[i] \in Requests /\ batch'[i] # h
                               /\ stage[batch'[i]] = "accepted" /\ calls[batch'[i]] = 0
  <2> SUFFICES ASSUME NEW i \in 1..Len(batch')
               PROVE  /\ batch[i + 1] \in Requests /\ batch[i + 1] # h
                      /\ Unanswered(batch[i + 1])
    BY <1>3 DEF Unanswered
  <2>1. i + 1 \in 1..Len(batch) /\ i + 1 > 1 BY <1>8
  <2>2. batch[i + 1] \in Requests BY <2>1, <1>T, ElementOfSeq DEF TypeOK
  <2> QED BY <2>1, <2>2, <1>2, <1>T DEF Events
<1>10. Loop'
  <2> SUFFICES ASSUME batch' # <<>>
               PROVE  stage[Head(batch')] = "accepted" /\ Head(batch') \notin freed'
                      /\ calls[Head(batch')] = 0
    BY <1>1 DEF Loop, AtHead
  <2>1. 1 \in 1..Len(batch') /\ Head(batch') = batch'[1] BY <1>3
  <2>2. PICK g \in Requests : g = Head(batch') /\ g # h /\ stage[g] = "accepted" /\ calls[g] = 0
    BY <2>1, <1>9
  <2>3. g \notin freed BY <2>2, <1>T DEF Commits
  <2> QED BY <2>2, <2>3, <1>1
<1>11. Events'
  <2>1. ASSUME NEW i \in 1..Len(batch'), NEW j \in 1..Len(batch'), i # j
        PROVE  batch'[i] # batch'[j]
    <3>1. i + 1 \in 1..Len(batch) /\ j + 1 \in 1..Len(batch) /\ i + 1 # j + 1 BY <2>1, <1>8
    <3> QED BY <3>1, <1>3, <1>T DEF Events
  <2> QED BY <2>1, <1>1, <1>9 DEF Events, Unanswered
<1> QED BY <1>4, <1>6, <1>7, <1>10, <1>11 DEF IInv

LEMMA IInvStep == IInv /\ [Next]_vars => IInv'
BY SendStep, RegisterStep, RegisterFailsStep, NoSocketStep, NetworkStep, EpollWaitStep,
   ReceiveStep, CallBackStep, RemoveStep, CloseStep, FreeStep DEF Next, Thread

LEMMA InvariantHolds == Spec => []IInv
BY InitIInv, IInvStep, PTL DEF Spec

-----------------------------------------------------------------------------
(* Safety                                                                  *)

\* Every variable keeps its type; in particular nobody is called back twice
\* (async_dns_client.c:383).
THEOREM TypeCorrect == Spec => []TypeOK
<1>1. IInv => TypeOK BY DEF IInv
<1> QED BY <1>1, InvariantHolds, PTL

\* The socket of an accepted request stays open and registered until its callback
\* (async_dns_client.c:385-388, 472).
THEOREM RequestsAreWatched == Spec => []UnansweredIsWatched
<1>1. IInv => UnansweredIsWatched BY DEF IInv
<1> QED BY <1>1, InvariantHolds, PTL

\* No socket is left open without use but those of refused commits
\* (async_dns_client.c:388, 464, 475).
THEOREM NoSocketIsForgotten == Spec => []SocketsHaveUse
<1>1. IInv => SocketsHaveUse BY DEF IInv
<1> QED BY <1>1, InvariantHolds, PTL

\* The thread never works with an ep_arg that was freed, and none is registered
\* (async_dns_client.c:372, 391).
THEOREM NoEventIsStale == Spec => []EventsAreLive
<1>1. IInv => EventsAreLive
  <2> SUFFICES ASSUME IInv PROVE EventsAreLive OBVIOUS
  <2>T. TypeOK /\ Registered /\ Commits /\ Loop /\ Events BY DEF IInv
  <2>1. ASSUME NEW i \in 1..Len(batch)
        PROVE  batch[i] \notin freed /\ (i > 1 => Unanswered(batch[i]))
    <3>1. batch \in Seq(Requests) /\ batch # <<>> BY EmptySeq, <2>T DEF TypeOK
    <3>2. batch[i] \in Requests /\ Head(batch) = batch[1] BY <3>1, ElementOfSeq, HeadTailProperties
    <3>3. i = 1 \/ i > 1 BY <3>1, EmptySeq
    <3>4. CASE i = 1 BY <3>1, <3>2, <3>4, <2>T DEF Loop, AtHead
    <3>5. CASE i > 1
      <4>1. Unanswered(batch[i]) BY <3>5, <2>T DEF Events
      <4> QED BY <4>1, <3>2, <2>T DEF Unanswered, Commits
    <3> QED BY <3>3, <3>4, <3>5
  <2>2. ASSUME NEW fd \in Fds, epoll[fd] \in freed PROVE FALSE
    <3>1. PICK r \in Requests : r = epoll[fd] BY <2>2, <2>T DEF TypeOK
    <3>2. calls[r] = 1 BY <3>1, <2>2, <2>T DEF Commits
    <3>3. pc = "remove" /\ Head(batch) = r BY <3>1, <3>2, <2>T DEF Registered, Unanswered
    <3> QED BY <3>1, <3>3, <2>2, HeadFacts DEF AtHead
  <2> QED BY <2>1, <2>2, <2>T DEF EventsAreLive, Events
<1> QED BY <1>1, InvariantHolds, PTL

-----------------------------------------------------------------------------
(* Answers and ports                                                       *)

\* What is on its way, waits or was received is an answer to a request that had the
\* port it was sent to.
Ported ==
  /\ \A a \in net : stage[a.of] # "new" /\ port[a.of] = a.to
  /\ \A fd \in Fds, r, q \in Requests :
       sock[fd] = r /\ inbox[fd] = q => stage[q] # "new" /\ port[q] = port[r]
  /\ \A fd \in Fds : sock[fd] = Nothing => inbox[fd] = Nothing
  /\ pc = "call" /\ got \in Requests => stage[got] # "new" /\ port[got] = port[Head(batch)]
  /\ \A r \in Requests : calls[r] = 0 => result[r] = Nothing
  /\ \A r, q \in Requests : result[r] = q => stage[q] # "new" /\ port[q] = port[r]

\* Answers are looked at again only where they move: Send, the network, Receive, CallBack
\* and Close.
LEMMA PortedFrame ==
  ASSUME IInv, Ported, UNCHANGED <<port, sock, net, inbox, calls, result>>,
         \A q \in Requests : stage[q] # "new" => stage'[q] # "new",
         pc' # "call" \/ UNCHANGED <<pc, got, batch>>
  PROVE  Ported'
<1>T. TypeOK BY DEF IInv
<1>1. \A a \in net : a.of \in Requests BY <1>T DEF TypeOK, Answer
<1> QED BY <1>1 DEF Ported

LEMMA PortedSend == ASSUME NEW r \in Requests, IInv, Ported, Send(r) PROVE Ported'
<1>T. TypeOK BY DEF IInv
<1>1. PICK fd \in Free, p \in Ports :
        /\ sock' = [sock EXCEPT ![fd] = r] /\ port' = [port EXCEPT ![r] = p]
        /\ (net' = net \/ net' = net \cup {[to |-> p, of |-> r]})
  BY DEF Send
<1>2. /\ stage[r] = "new" /\ stage' = [stage EXCEPT ![r] = "sent"]
      /\ UNCHANGED <<epoll, inbox, batch, pc, got, freed, calls, result>>
  BY DEF Send, proc, answers
<1>3. fd \in Fds /\ sock[fd] = Nothing /\ inbox[fd] = Nothing BY DEF Free, Ported
<1>4. /\ \A g \in Fds : sock[g] # r
      /\ batch # <<>> => Head(batch) # r
      /\ calls[r] = 0
  BY <1>2, NewIsNowhere
<1>5. \A q \in Requests : /\ stage[q] # "new" => q # r /\ stage'[q] # "new"
                          /\ q # r => port'[q] = port[q]
  BY <1>1, <1>2, <1>T DEF TypeOK
<1>6. port'[r] = p /\ stage'[r] = "sent" BY <1>1, <1>2, <1>T DEF TypeOK
<1>7. ASSUME NEW a \in net' PROVE stage'[a.of] # "new" /\ port'[a.of] = a.to
  <2>1. CASE a \in net
    <3>1. a.of \in Requests BY <2>1, <1>T DEF TypeOK, Answer
    <3> QED BY <2>1, <3>1, <1>5 DEF Ported
  <2>2. CASE a = [to |-> p, of |-> r] BY <2>2, <1>6
  <2> QED BY <2>1, <2>2, <1>1
<1>8. ASSUME NEW g \in Fds, NEW s \in Requests, NEW q \in Requests, sock'[g] = s, inbox[g] = q
      PROVE  stage'[q] # "new" /\ port'[q] = port'[s]
  <2>1. g # fd BY <1>3, <1>8, NamesAssumption
  <2>2. sock[g] = s /\ s # r BY <2>1, <1>1, <1>3, <1>4, <1>8, <1>T DEF TypeOK
  <2> QED BY <2>2, <1>5, <1>8 DEF Ported
<1>9. \A g \in Fds : sock'[g] = Nothing => inbox[g] = Nothing
  BY <1>1, <1>3, <1>T DEF TypeOK, Ported
<1>10. ASSUME pc = "call", got \in Requests
       PROVE  stage'[got] # "new" /\ port'[got] = port'[Head(batch)]
  <2>1. Head(batch) \in Requests /\ Head(batch) # r BY <1>10, <1>4, HeadFacts
  <2> QED BY <2>1, <1>5, <1>10 DEF Ported
<1>11. ASSUME NEW s \in Requests, NEW q \in Requests, result[s] = q
       PROVE  stage'[q] # "new" /\ port'[q] = port'[s]
  <2>1. s # r BY <1>4, <1>11, NamesAssumption DEF Ported
  <2> QED BY <2>1, <1>5, <1>11 DEF Ported
<1> QED BY <1>2, <1>7, <1>8, <1>9, <1>10, <1>11 DEF Ported

LEMMA PortedArrive == ASSUME NEW a \in net, IInv, Ported, Arrive(a) PROVE Ported'
<1>T. TypeOK BY DEF IInv
<1>1. PICK fd \in Fds :
        /\ sock[fd] # Nothing /\ port[sock[fd]] = a.to
        /\ inbox' = [inbox EXCEPT ![fd] = IF @ = Nothing THEN a.of ELSE @]
  BY DEF Arrive
<1>2. /\ net' \subseteq net
      /\ UNCHANGED <<stage, fdOf, port, sock, epoll, batch, pc, got, freed, calls, result>>
  BY DEF Arrive, commit, proc, answers
<1>3. a.of \in Requests /\ stage[a.of] # "new" /\ port[a.of] = a.to
  BY <1>T DEF TypeOK, Answer, Ported
<1>4. ASSUME NEW g \in Fds, NEW s \in Requests, NEW q \in Requests, sock[g] = s, inbox'[g] = q
      PROVE  stage[q] # "new" /\ port[q] = port[s]
  <2>1. inbox[g] = q \/ (g = fd /\ q = a.of) BY <1>1, <1>4, <1>T DEF TypeOK
  <2> QED BY <2>1, <1>1, <1>3, <1>4 DEF Ported
<1>5. \A g \in Fds : sock[g] = Nothing => inbox'[g] = Nothing
  BY <1>1, <1>T DEF TypeOK, Ported
<1> QED BY <1>2, <1>4, <1>5 DEF Ported

LEMMA PortedDisturb == IInv /\ Ported /\ Disturb => Ported'
<1> SUFFICES ASSUME IInv, Ported, Disturb PROVE Ported' OBVIOUS
<1>T. TypeOK BY DEF IInv
<1>1. PICK fd \in Fds : sock[fd] # Nothing /\ inbox' = [inbox EXCEPT ![fd] = Error]
  BY DEF Disturb
<1>2. UNCHANGED <<stage, fdOf, port, sock, epoll, net, batch, pc, got, freed, calls, result>>
  BY DEF Disturb, commit, proc, answers
<1>3. \A g \in Fds, q \in Requests : inbox'[g] = q => inbox[g] = q
  BY <1>1, <1>T, NamesAssumption DEF TypeOK
<1>4. \A g \in Fds : sock[g] = Nothing => inbox'[g] = Nothing
  BY <1>1, <1>T DEF TypeOK, Ported
<1> QED BY <1>2, <1>3, <1>4 DEF Ported

LEMMA PortedReceive == IInv /\ Ported /\ Receive => Ported'
<1> SUFFICES ASSUME IInv, Ported, Receive PROVE Ported' OBVIOUS
<1>T. TypeOK /\ UnansweredIsWatched /\ Commits BY DEF IInv
<1>0. PICK h \in Requests : h = Head(batch) /\ AtHead(h) BY HeadFacts DEF Receive
<1>1. /\ got' = IF inbox[fdOf[h]] \in Requests THEN inbox[fdOf[h]] ELSE Nothing
      /\ inbox' = [inbox EXCEPT ![fdOf[h]] = Nothing] /\ pc = "receive"
      /\ UNCHANGED <<stage, fdOf, port, sock, epoll, net, batch, freed, calls, result>>
  BY <1>0 DEF Receive, EventFd, commit, answers
<1>2. sock[fdOf[h]] = h /\ fdOf[h] \in Fds
  BY <1>0, <1>1, <1>T DEF AtHead, UnansweredIsWatched, Unanswered, Commits
<1>3. got' \in Requests => stage[got'] # "new" /\ port[got'] = port[h]
  BY <1>1, <1>2, NamesAssumption DEF Ported
<1>4. \A g \in Fds, q \in Requests : inbox'[g] = q => inbox[g] = q
  BY <1>1, <1>T, NamesAssumption DEF TypeOK
<1>5. \A g \in Fds : inbox[g] = Nothing => inbox'[g] = Nothing
  BY <1>1, <1>T DEF TypeOK
<1> QED BY <1>0, <1>1, <1>3, <1>4, <1>5 DEF Ported

LEMMA PortedCallBack == IInv /\ Ported /\ CallBack => Ported'
<1> SUFFICES ASSUME IInv, Ported, CallBack PROVE Ported' OBVIOUS
<1>T. TypeOK BY DEF IInv
<1>0. PICK h \in Requests : h = Head(batch) BY HeadFacts DEF CallBack
<1>1. /\ pc = "call" /\ pc' = "remove"
      /\ calls' = [calls EXCEPT ![h] = @ + 1] /\ result' = [result EXCEPT ![h] = got]
      /\ UNCHANGED <<stage, port, sock, inbox, net, batch, got>>
  BY <1>0 DEF CallBack, Order, commit, kernel
<1>2. calls'[h] # 0 /\ \A q \in Requests : q # h => calls'[q] = calls[q] /\ result'[q] = result[q]
  BY <1>1, <1>T DEF TypeOK
<1>3. result'[h] = got BY <1>1, <1>T DEF TypeOK
<1>4. \A s, q \in Requests : result'[s] = q => stage[q] # "new" /\ port[q] = port[s]
  BY <1>0, <1>1, <1>2, <1>3 DEF Ported
<1> QED BY <1>1, <1>2, <1>4 DEF Ported

LEMMA PortedClose == IInv /\ Ported /\ Close => Ported'
<1> SUFFICES ASSUME IInv, Ported, Close PROVE Ported' OBVIOUS
<1>T. TypeOK BY DEF IInv
<1>1. /\ sock' = [sock EXCEPT ![EventFd] = Nothing] /\ inbox' = [inbox EXCEPT ![EventFd] = Nothing]
      /\ pc' = "free" /\ UNCHANGED <<stage, port, net, batch, got, calls, result>>
  BY DEF Close, Order, commit, answers
<1>2. \A g \in Fds, q \in Requests : /\ inbox'[g] = q => inbox[g] = q
                                     /\ sock'[g] = q => sock[g] = q
  BY <1>1, <1>T, NamesAssumption DEF TypeOK
<1>3. \A g \in Fds : sock'[g] = Nothing => inbox'[g] = Nothing
  BY <1>1, <1>T DEF TypeOK, Ported
<1> QED BY <1>1, <1>2, <1>3 DEF Ported

LEMMA PortedStep == IInv /\ Ported /\ [Next]_vars => Ported'
<1> SUFFICES ASSUME IInv, Ported, [Next]_vars PROVE Ported' OBVIOUS
<1>T. TypeOK BY DEF IInv
<1>1. ASSUME NEW r \in Requests, Register(r) \/ RegisterFails(r) \/ NoSocket(r) PROVE Ported'
  <2>1. UNCHANGED <<port, sock, net, inbox, calls, result, pc, got, batch>>
    BY <1>1 DEF Register, RegisterFails, NoSocket, commit, kernel, proc, answers
  <2>2. \A q \in Requests : stage[q] # "new" => stage'[q] # "new"
    BY <1>1, <1>T DEF Register, RegisterFails, NoSocket, commit, TypeOK
  <2> QED BY <2>1, <2>2, PortedFrame
<1>2. ASSUME NEW a \in net, Lose(a) PROVE Ported'
  <2>1. net' \subseteq net BY <1>2 DEF Lose
  <2>2. UNCHANGED <<stage, port, sock, inbox, calls, result, pc, got, batch>>
    BY <1>2 DEF Lose, commit, kernel, proc, answers
  <2> QED BY <2>1, <2>2 DEF Ported
<1>3. ASSUME EpollWait \/ Remove \/ FreeArg PROVE Ported'
  <2>1. UNCHANGED <<stage, port, sock, net, inbox, calls, result>>
    BY <1>3 DEF EpollWait, Remove, FreeArg, commit, kernel, answers
  <2>2. pc' # "call" BY <1>3 DEF EpollWait, Remove, FreeArg, Order
  <2> QED BY <2>1, <2>2, PortedFrame
<1>4. ASSUME UNCHANGED vars PROVE Ported'
  <2>1. UNCHANGED <<stage, port, sock, net, inbox, calls, result, pc, got, batch>>
    BY <1>4 DEF vars, commit, kernel, proc, answers
  <2> QED BY <2>1, PortedFrame
<1> QED BY <1>1, <1>2, <1>3, <1>4, PortedSend, PortedArrive, PortedDisturb, PortedReceive,
           PortedCallBack, PortedClose DEF Next, Thread

\* A callback gets nothing or an answer that was sent to its own port
\* (async_dns_client.c:378-383).
THEOREM AnswersComeToTheirPort == Spec => []AnswerOfMyPort
<1>1. Init => Ported BY EmptySeq, NamesAssumption DEF Init, Ported
<1>2. IInv /\ Ported => AnswerOfMyPort BY DEF Ported, AnswerOfMyPort
<1> QED BY <1>1, <1>2, InvariantHolds, PortedStep, PTL DEF Spec

-----------------------------------------------------------------------------
(* The interface                                                           *)

Verdict(v) == CASE v = "accepted" -> "yes" [] v = "refused" -> "no" [] OTHER -> "none"
Verdicts == [r \in Requests |-> Verdict(stage[r])]

LEMMA VerdictsIs ==
  Verdicts = [r \in Requests |-> CASE stage[r] = "accepted" -> "yes"
                                   [] stage[r] = "refused" -> "no"
                                   [] OTHER -> "none"]
BY DEF Verdicts, Verdict

\* A commit that ends is decided.
LEMMA DecideStep ==
  ASSUME NEW r \in Requests, IInv, Register(r) \/ RegisterFails(r)
  PROVE  Interface!Decide(r)
<1>T. TypeOK BY DEF IInv
<1>1. PICK s \in {"accepted", "refused"} :
        stage[r] = "sent" /\ stage' = [stage EXCEPT ![r] = s] /\ UNCHANGED calls
  BY DEF Register, RegisterFails, answers
<1>2. Verdicts' = [Verdicts EXCEPT ![r] = Verdict(s)] BY <1>1, <1>T DEF Verdicts, TypeOK
<1>3. Verdicts[r] = "none" BY <1>1 DEF Verdicts, Verdict
<1>4. Verdict(s) \in {"yes", "no"} BY <1>1 DEF Verdict
<1> QED BY <1>1, <1>2, <1>3, <1>4, VerdictsIs DEF Interface!Decide, Verdicts, Verdict

\* Running a callback is the abstract callback of the request.
LEMMA AbstractCallBack ==
  ASSUME IInv, CallBack PROVE \E r \in Requests : Interface!CallBack(r)
<1>T. TypeOK BY DEF IInv
<1>0. PICK h \in Requests : h = Head(batch) /\ AtHead(h) BY HeadFacts DEF CallBack
<1>1. /\ pc = "call" /\ calls' = [calls EXCEPT ![h] = @ + 1] /\ UNCHANGED stage
  BY <1>0 DEF CallBack, commit
<1>2. stage[h] = "accepted" /\ calls[h] = 0 BY <1>0, <1>1 DEF AtHead
<1>3. calls' = [calls EXCEPT ![h] = 1] BY <1>1, <1>2, <1>T DEF TypeOK
<1> QED BY <1>1, <1>2, <1>3 DEF Interface!CallBack

\* Nothing else shows at the interface.
LEMMA HiddenStep ==
  ASSUME UNCHANGED calls, \A r \in Requests : Verdict(stage'[r]) = Verdict(stage[r])
  PROVE  UNCHANGED <<[r \in Requests |-> CASE stage[r] = "accepted" -> "yes"
                                           [] stage[r] = "refused" -> "no"
                                           [] OTHER -> "none"], calls>>
BY DEF Verdict

\* The caller is called back at most once for what was accepted and never for what was
\* refused (async_dns_client.c:383, 475).
THEOREM ClientImplementsAsyncRequest == Spec => ImplementsAsyncRequest
<1>1. Init => Interface!Init BY DEF Init, Interface!Init
<1>2. IInv /\ [Next]_vars =>
        [Interface!Next]_<<[r \in Requests |-> CASE stage[r] = "accepted" -> "yes"
                                                 [] stage[r] = "refused" -> "no"
                                                 [] OTHER -> "none"], calls>>
  <2> SUFFICES ASSUME IInv, [Next]_vars
               PROVE  Interface!Next \/
                      UNCHANGED <<[r \in Requests |-> CASE stage[r] = "accepted" -> "yes"
                                                        [] stage[r] = "refused" -> "no"
                                                        [] OTHER -> "none"], calls>>
    OBVIOUS
  <2>T. TypeOK BY DEF IInv
  <2>1. CASE \E r \in Requests : Register(r) \/ RegisterFails(r)
    BY <2>1, DecideStep DEF Interface!Next
  <2>2. CASE CallBack BY <2>2, AbstractCallBack DEF Interface!Next
  <2>3. ASSUME NEW r \in Requests, Send(r)
        PROVE  UNCHANGED calls /\ \A q \in Requests : Verdict(stage'[q]) = Verdict(stage[q])
    BY <2>3, <2>T DEF Send, answers, TypeOK, Verdict
  <2>4. CASE UNCHANGED stage /\ UNCHANGED calls BY <2>4
  <2>5. (\E r \in Requests : NoSocket(r)) => UNCHANGED stage /\ UNCHANGED calls
    BY DEF NoSocket, commit, answers
  <2>6. (\E a \in net : Arrive(a) \/ Lose(a)) \/ Disturb => UNCHANGED stage /\ UNCHANGED calls
    BY DEF Arrive, Lose, Disturb, commit, answers
  <2>7. EpollWait \/ Receive \/ Remove \/ Close \/ FreeArg => UNCHANGED stage /\ UNCHANGED calls
    BY DEF EpollWait, Receive, Remove, Close, FreeArg, commit, answers
  <2>8. UNCHANGED vars => UNCHANGED stage /\ UNCHANGED calls BY DEF vars, commit, answers
  <2>9. CASE \E r \in Requests : Send(r) BY <2>9, <2>3, HiddenStep
  <2> QED BY <2>1, <2>2, <2>4, <2>5, <2>6, <2>7, <2>8, <2>9 DEF Next, Thread
<1> QED BY <1>1, <1>2, InvariantHolds, PTL DEF Spec, ImplementsAsyncRequest, Interface!Spec


\* Nothing that was freed or closed is used, and nothing is kept without use
\* (async_dns_client.c:372, 383, 388, 391, 464, 475).
THEOREM NothingIsStale == Spec => []NothingStale
<1>1. TypeOK /\ EventsAreLive /\ SocketsHaveUse => NothingStale BY DEF NothingStale
<1> QED BY <1>1, TypeCorrect, NoEventIsStale, NoSocketIsForgotten, PTL
=============================================================================
