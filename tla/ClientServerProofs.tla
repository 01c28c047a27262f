------------------------- MODULE ClientServerProofs -------------------------
(***************************************************************************)
(* Proofs about ClientServer, for any number of files that are open and    *)
(* any number of messages under way.                                       *)
(***************************************************************************)
EXTENDS ClientServer, SequenceTheorems, TLAPS

Async == Tells \cup {"PopStream"}
Messages == Requests \cup Tells \cup {"SendLine", "StartLoad", "PopStream", "GoAway"}
Running == {"top", "line", "flush", "wild"}
ServerState == {"accept", "top", "line", "flush", "wild", "exited"} \cup Waits

\* Who is next to speak: while the server waits, its question is the last
\* message on its way, or the answer is the only one; else there is nothing
\* under way but what needs no answer.
Asked ==
    /\ toServer = <<>> /\ toClient # <<>> /\ toClient[Len(toClient)] = Sent(srv)
    /\ \A i \in 1..(Len(toClient) - 1) : toClient[i] \in Async
ReplyUnderWay ==
    /\ toClient = <<>> /\ Len(toServer) = 1
    /\ toServer[1].type \in ServerExpects(srv)
Silent == toClient = <<>> /\ toServer = <<>>
TurnsOK ==
    /\ srv \in Waits => Asked \/ ReplyUnderWay \/ Silent
    /\ srv \notin Waits => toServer = <<>>
    /\ srv \in Running => \A i \in 1..Len(toClient) : toClient[i] \in Async
    /\ srv \in {"accept", "exited"} =>
           \A i \in 1..Len(toClient) : toClient[i] \in Async \cup {"GoAway"}

\* The two stacks are the same but for the answer that is under way.
Popped == toServer # <<>> /\ toServer[1].type = "PopStream"
Pushed == toServer # <<>> /\ toServer[1].type = "StartLoadResult" /\ toServer[1].id # NoStream
Same(n) == \A i \in 1..n : inputStack[i] = stack[i].id
InStep ==
    /\ Popped => Len(stack) = Len(inputStack) + 1 /\ Same(Len(inputStack))
    /\ Pushed => /\ Len(inputStack) = Len(stack) + 1 /\ Same(Len(stack))
                 /\ inputStack[Len(inputStack)] = toServer[1].id
    /\ ~Popped /\ ~Pushed => Len(inputStack) = Len(stack) /\ Same(Len(stack))
Connected == srv \notin {"accept", "exited", "wild"} /\ ~astray
StacksOK ==
    /\ srv \in {"GetLine", "Refill"} => stack # <<>> /\ ~OnLocal
    /\ srv = "flush" => CanFlush
    /\ Connected =>
        /\ Len(stack) >= 1 /\ Len(inputStack) >= 1
        /\ InStep
        /\ \A i \in 1..Len(toClient) : toClient[i] = "PopStream" => Len(inputStack) = 1
        /\ toServer # <<>> /\ toServer[1].type = "ProcessLine" =>
               toServer[1].id = inputStack[Len(inputStack)]

\* The inductive invariant.
IInv == ClientServerTypeOK /\ TurnsOK /\ StacksOK

-----------------------------------------------------------------------------
(* Messages *)

LEMMA SentTypes ==
    ASSUME NEW w \in Waits
    PROVE  /\ Sent(w) \in Messages /\ Sent(w) \notin Async /\ Sent(w) # "GoAway"
           /\ Sent(w) = "SendLine" <=> w \in {"GetLine", "Refill"}
           /\ Sent(w) = "StartLoad" <=> w \in {"StartLoad", "Autoload"}
           /\ Sent(w) \in Requests => w = Sent(w)
BY SMT DEF Waits, Sent, Requests, Tells, Async, Messages, ServerHandle, ServerStatus,
           ServerSystemStatus, ServerDirStatus

\* The tables of the client and of the server agree, but for GetWorkDir.
LEMMA TablesAgree ==
    ASSUME NEW r \in Requests, NEW t \in ClientReply(r)
    PROVE  /\ t \in ServerExpects(r)
           /\ t \in Answers
           /\ t \notin {"ProcessLine", "PopStream", "StartLoadResult"}
<1>. USE DEF ClientReply, ServerExpects, ClientHandle, ClientStatus, ClientSystemStatus,
         ClientDirStatus, ServerHandle, ServerStatus, ServerSystemStatus, ServerDirStatus
<1>1. CASE r \in ServerHandle
  <2>1. ClientReply(r) = {"HandleResult"}  BY <1>1
  <2>2. ServerExpects(r) = {"HandleResult"}  BY <1>1
  <2>. QED  BY <2>1, <2>2 DEF Answers
<1>2. CASE r \in ServerStatus \cup ServerSystemStatus \cup ServerDirStatus
  <2>1. ClientReply(r) = {"FileOpResult"}  BY <1>2
  <2>2. ServerExpects(r) = {"FileOpResult"}  BY <1>2
  <2>. QED  BY <2>1, <2>2 DEF Answers
<1>3. CASE r \in {"FileRead", "FileGetString", "ReadDir", "GetWorkDir", "GetChar"}
  <2>1. r = "GetWorkDir" => ClientReply(r) = {}  OBVIOUS
  <2>2. r = "FileRead" =>
          ClientReply(r) = {"FileReadResult"} /\ ServerExpects(r) = {"FileReadResult"}
    OBVIOUS
  <2>3. r = "FileGetString" =>
          ClientReply(r) = {"FileGetStringResult"} /\ ServerExpects(r) = {"FileGetStringResult"}
    OBVIOUS
  <2>4. r = "ReadDir" =>
          ClientReply(r) = {"ReadDirResult"} /\ ServerExpects(r) = {"ReadDirResult"}
    OBVIOUS
  <2>5. r = "GetChar" =>
          ClientReply(r) = {"ProcessChar"} /\ ServerExpects(r) = {"ProcessChar"}
    OBVIOUS
  <2>. QED  BY <1>3, <2>1, <2>2, <2>3, <2>4, <2>5 DEF Answers
<1>. QED  BY <1>1, <1>2, <1>3 DEF Requests

LEMMA TellsHaveNoReply == \A m \in Tells : ClientReply(m) = {} /\ m \notin Requests
BY DEF Tells, ClientReply, ClientStatus, ClientSystemStatus, ClientDirStatus, ClientHandle,
       Requests, ServerHandle, ServerStatus, ServerSystemStatus, ServerDirStatus

-----------------------------------------------------------------------------
(* Sequences *)

Entries == [id : Streams \cup {Console}, locals : Nat]

LEMMA FrontFacts ==
    ASSUME NEW S, NEW s \in Seq(S), s # <<>>
    PROVE  /\ Front(s) \in Seq(S) /\ Len(Front(s)) = Len(s) - 1
           /\ \A i \in 1..(Len(s) - 1) : Front(s)[i] = s[i]
           /\ Len(s) \in Nat /\ Len(s) >= 1 /\ s[Len(s)] \in S
<1>1. Len(s) \in Nat /\ Len(s) >= 1  OBVIOUS
<1>2. s[Len(s)] \in S  BY <1>1
<1>3. \A i \in 1..(Len(s) - 1) : s[i] \in S  BY <1>1
<1>4. /\ SubSeq(s, 1, Len(s) - 1) \in Seq(S)
      /\ Len(SubSeq(s, 1, Len(s) - 1)) = IF 1 <= Len(s) - 1 THEN Len(s) - 1 - 1 + 1 ELSE 0
      /\ \A i \in 1..(Len(s) - 1 - 1 + 1) : SubSeq(s, 1, Len(s) - 1)[i] = s[1 + i - 1]
  <2>1. 1 \in Int /\ Len(s) - 1 \in Int  BY <1>1
  <2>. HIDE <1>1
  <2>. QED  BY <2>1, <1>3, SubSeqProperties
<1>5. /\ Len(Front(s)) = Len(s) - 1
      /\ \A i \in 1..(Len(s) - 1) : Front(s)[i] = s[i]
  <2>. DEFINE n == Len(s) - 1
              f == SubSeq(s, 1, n)
  <2>1. n \in Nat /\ Len(f) = IF 1 <= n THEN n - 1 + 1 ELSE 0  BY <1>1, <1>4
  <2>2. \A i \in 1..(n - 1 + 1) : f[i] = s[1 + i - 1]  BY <1>4
  <2>3. Front(s) = f  BY DEF Front
  <2>. HIDE DEF n, f
  <2>4. Len(f) = n /\ \A i \in 1..n : f[i] = s[i]
    <3>1. n - 1 + 1 = n /\ \A i \in 1..n : 1 + i - 1 = i  BY <2>1
    <3>. QED  BY <2>1, <2>2, <3>1
  <2>. QED  BY <2>3, <2>4 DEF n
<1>. QED  BY <1>1, <1>2, <1>4, <1>5 DEF Front

LEMMA TailFacts ==
    ASSUME NEW S, NEW s \in Seq(S), s # <<>>
    PROVE  /\ Tail(s) \in Seq(S) /\ Len(Tail(s)) = Len(s) - 1 /\ Len(s) \in Nat /\ Len(s) >= 1
           /\ \A i \in 1..(Len(s) - 1) : Tail(s)[i] = s[i + 1]
           /\ Head(s) = s[1] /\ Head(s) \in S
OBVIOUS

LEMMA AppendFacts ==
    ASSUME NEW S, NEW s \in Seq(S), NEW x \in S
    PROVE  /\ Append(s, x) \in Seq(S) /\ Len(Append(s, x)) = Len(s) + 1 /\ Len(s) \in Nat
           /\ \A i \in 1..Len(s) : Append(s, x)[i] = s[i]
           /\ Append(s, x)[Len(s) + 1] = x /\ Append(s, x) # <<>>
OBVIOUS

\* What PopInputStream does to the server's stack.
LEMMA PopFacts ==
    ASSUME stack \in Seq(Entries)
    PROVE  /\ Pop \in Seq(Entries)
           /\ OnLocal => /\ stack # <<>> /\ Len(Pop) = Len(stack)
                         /\ \A i \in 1..Len(stack) : Pop[i].id = stack[i].id
           /\ ~OnLocal /\ (stack = <<>> \/ IsBottom) => Pop = stack
           /\ ~OnLocal /\ stack # <<>> /\ ~IsBottom => Pop = Front(stack)
<1>1. CASE OnLocal
  <2>. DEFINE n == Len(stack)
  <2>1. n \in 1..Len(stack) /\ stack[n] \in Entries /\ stack[n].locals > 0
    BY <1>1 DEF OnLocal, Last
  <2>2. [stack[n] EXCEPT !.locals = @ - 1] \in Entries  BY <2>1 DEF Entries
  <2>3. Pop = [stack EXCEPT ![n] = [stack[n] EXCEPT !.locals = @ - 1]]
    BY <1>1 DEF Pop
  <2>4. Pop \in Seq(Entries) /\ Len(Pop) = Len(stack)
    BY <2>1, <2>2, <2>3
  <2>5. [stack[n] EXCEPT !.locals = @ - 1].id = stack[n].id  BY <2>1 DEF Entries
  <2>6. \A i \in 1..Len(stack) : Pop[i].id = stack[i].id
    BY <2>1, <2>3, <2>5
  <2>. QED  BY <1>1, <2>1, <2>4, <2>6
<1>2. CASE ~OnLocal /\ (stack = <<>> \/ IsBottom)
  BY <1>2 DEF Pop
<1>3. CASE ~OnLocal /\ stack # <<>> /\ ~IsBottom
  BY <1>3, FrontFacts DEF Pop
<1>. QED  BY <1>1, <1>2, <1>3

-----------------------------------------------------------------------------
(* Types *)

LEMMA InitTyped == Init => ClientServerTypeOK
<1>1. <<>> \in Seq(Entries) /\ <<>> \in Seq(Messages)
      /\ <<>> \in Seq([type : Answers, id : Streams \cup {Console, NoStream}])
      /\ <<>> \in Seq(Streams \cup {Console})
  OBVIOUS
<1>. QED  BY <1>1 DEF Init, ClientServerTypeOK, Entries, Messages

LEMMA PopTyped ==
    ASSUME ClientServerTypeOK, PopInputStream
    PROVE  stack' \in Seq(Entries) /\ toClient' \in Seq(Messages)
<1>1. stack \in Seq(Entries) /\ toClient \in Seq(Messages) /\ "PopStream" \in Messages
  BY DEF ClientServerTypeOK, Entries, Messages
<1>2. stack' \in Seq(Entries)  BY <1>1, PopFacts DEF PopInputStream
<1>3. toClient' \in Seq(Messages)
  BY <1>1, AppendFacts DEF PopInputStream
<1>. QED  BY <1>2, <1>3

LEMMA ServerTyped ==
    ASSUME ClientServerTypeOK, ServerNext
    PROVE  ClientServerTypeOK'
<1>. DEFINE Replies == [type : Answers, id : Streams \cup {Console, NoStream}]
<1>1. /\ srv \in ServerState /\ stack \in Seq(Entries) /\ first \in BOOLEAN
      /\ toClient \in Seq(Messages) /\ toServer \in Seq(Replies)
      /\ client \in {"in", "gone", "wild"} /\ inputStack \in Seq(Streams \cup {Console})
      /\ astray \in BOOLEAN
  BY DEF ClientServerTypeOK, ServerState, Entries, Messages
<1>2. SUFFICES /\ srv' \in ServerState /\ stack' \in Seq(Entries) /\ first' \in BOOLEAN
      /\ toClient' \in Seq(Messages) /\ toServer' \in Seq(Replies)
      /\ client' \in {"in", "gone", "wild"} /\ inputStack' \in Seq(Streams \cup {Console})
      /\ astray' \in BOOLEAN
  BY DEF ClientServerTypeOK, ServerState, Entries, Messages
<1>3. Stream(Console) \in Entries  BY DEF Stream, Entries
<1>4. <<>> \in Seq(Replies) /\ <<>> \in Seq(Messages)  OBVIOUS
<1>5. Waits \subseteq ServerState
      /\ {"accept", "top", "line", "flush", "wild", "exited"} \subseteq ServerState
  BY DEF ServerState
<1>6. \A m \in Messages : Send(m) => toClient' \in Seq(Messages)
  BY <1>1, AppendFacts DEF Send
<1>7. \A w \in Waits : Ask(w) => toClient' \in Seq(Messages) /\ srv' \in ServerState
  BY <1>5, <1>6, SentTypes DEF Ask
<1>8. Receive => toServer' \in Seq(Replies) /\ Reply \in Replies
  BY <1>1, TailFacts DEF Receive, Reply
<1>9. PopInputStream => stack' \in Seq(Entries) /\ toClient' \in Seq(Messages)
  BY PopTyped
<1>. HIDE DEF Replies
<1>a. CASE Connect
  <2>1. <<"StartLoad">> \in Seq(Messages)  BY DEF Messages
  <2>2. <<Console>> \in Seq(Streams \cup {Console})  OBVIOUS
  <2>3. <<Stream(Console)>> \in Seq(Entries)  BY <1>3
  <2>4. "Autoload" \in ServerState  BY <1>5 DEF Waits
  <2>. QED  BY <1>a, <1>1, <1>4, <1>5, <2>1, <2>2, <2>3, <2>4 DEF Connect
<1>b. CASE AskLine
  BY <1>b, <1>1, <1>7 DEF AskLine, Waits
<1>c. CASE LocalLine
  BY <1>c, <1>1, <1>5, <1>9 DEF LocalLine
<1>d. CASE StaleLine
  BY <1>d, <1>1, <1>5 DEF StaleLine
<1>e. CASE GotLine
  BY <1>e, <1>1, <1>5, <1>8, <1>9 DEF GotLine, EndSession
<1>f. CASE EndLine
  BY <1>f, <1>1, <1>5 DEF EndLine
<1>g. CASE \E next \in {"accept", "exited"} : Bye(next)
  BY <1>g, <1>1, <1>5, <1>6 DEF Bye, Messages
<1>h. CASE FatalError
  BY <1>h, <1>1, <1>5 DEF FatalError, EndSession
<1>i. CASE PushInputFile
  BY <1>i, <1>1, <1>7 DEF PushInputFile, Waits
<1>j. CASE Loaded
  <2>1. Reply.type = "StartLoadResult" /\ Reply.id # NoStream => Stream(Reply.id) \in Entries
    BY <1>8, <1>j DEF Loaded, Stream, Entries, Replies
  <2>2. stack' \in Seq(Entries)
    BY <1>1, <1>j, <2>1, AppendFacts DEF Loaded
  <2>. QED  BY <1>j, <1>1, <1>5, <1>8, <2>2 DEF Loaded
<1>k. CASE LoadDone
  BY <1>k, <1>1, <1>5, <1>9 DEF LoadDone
<1>l. CASE RunFile
  <2>. DEFINE n == Len(stack)
  <2>1. n \in 1..Len(stack) /\ stack[n] \in Entries  BY <1>l, <1>1 DEF RunFile
  <2>2. [stack[n] EXCEPT !.locals = @ + 1] \in Entries  BY <2>1 DEF Entries
  <2>3. stack' = [stack EXCEPT ![n] = [stack[n] EXCEPT !.locals = @ + 1]]  BY <1>l DEF RunFile
  <2>4. stack' \in Seq(Entries)  BY <1>1, <2>1, <2>2, <2>3
  <2>. QED  BY <1>l, <1>1, <1>5, <2>4 DEF RunFile
<1>m. CASE AskRefill
  BY <1>m, <1>1, <1>5, <1>7 DEF AskRefill, Waits
<1>n. CASE Refilled
  BY <1>n, <1>1, <1>5, <1>8 DEF Refilled
<1>o. CASE Throw
  BY <1>o, <1>1, <1>5 DEF Throw
<1>p. CASE FlushToDepth
  BY <1>p, <1>1, <1>5, <1>9 DEF FlushToDepth
<1>q. CASE \E r \in Requests : AskFile(r)
  BY <1>q, <1>1, <1>7 DEF AskFile, Waits
<1>r. CASE Answered
  BY <1>r, <1>1, <1>5, <1>8 DEF Answered
<1>s. CASE \E m \in Tells : Tell(m)
  BY <1>s, <1>1, <1>6 DEF Tell, Messages
<1>. QED
  BY <1>a, <1>b, <1>c, <1>d, <1>e, <1>f, <1>g, <1>h, <1>i, <1>j, <1>k, <1>l, <1>m, <1>n,
     <1>o, <1>p, <1>q, <1>r, <1>s DEF ServerNext

LEMMA ClientTyped ==
    ASSUME ClientServerTypeOK, ClientNext
    PROVE  ClientServerTypeOK'
<1>. DEFINE Replies == [type : Answers, id : Streams \cup {Console, NoStream}]
            Files == Streams \cup {Console}
<1>1. /\ toClient \in Seq(Messages) /\ toServer \in Seq(Replies)
      /\ client \in {"in", "gone", "wild"} /\ inputStack \in Seq(Files)
      /\ astray \in BOOLEAN
  BY DEF ClientServerTypeOK, Messages
<1>2. SUFFICES /\ UNCHANGED <<srv, stack, first>>
      /\ toClient' \in Seq(Messages) /\ toServer' \in Seq(Replies)
      /\ client' \in {"in", "gone", "wild"} /\ inputStack' \in Seq(Files)
      /\ astray' \in BOOLEAN
  BY DEF ClientServerTypeOK, Messages
<1>3. \A m : Handle(m) => toClient' \in Seq(Messages)
  BY <1>1, TailFacts DEF Handle
<1>4. \A t \in Answers, i \in Files \cup {NoStream} : Answer(t, i) => toServer' \in Seq(Replies)
  <2>. SUFFICES ASSUME NEW t \in Answers, NEW i \in Files \cup {NoStream}, Answer(t, i)
                PROVE  toServer' \in Seq(Replies)
    OBVIOUS
  <2>1. [type |-> t, id |-> i] \in Replies  OBVIOUS
  <2>. QED  BY <1>1, <2>1, AppendFacts DEF Answer
<1>5. inputStack # <<>> => Front(inputStack) \in Seq(Files) /\ Last(inputStack) \in Files
  BY <1>1, FrontFacts DEF Last
<1>. HIDE DEF Replies, Files
<1>a. CASE SendLine
  BY <1>a, <1>1, <1>3, <1>4, <1>5 DEF SendLine, Answers
<1>b. CASE NoLine
  BY <1>b, <1>1, <1>3 DEF NoLine
<1>c. CASE StartLoad
  <2>1. \A f \in Streams : f \in Files /\ Append(inputStack, f) \in Seq(Files)
    BY <1>1, AppendFacts DEF Files
  <2>. QED  BY <1>c, <1>1, <1>3, <1>4, <2>1 DEF StartLoad, Answers
<1>d. CASE PopStream
  <2>1. Len(inputStack) > 1 => inputStack # <<>>  OBVIOUS
  <2>. QED  BY <1>d, <1>1, <1>3, <1>5, <2>1 DEF PopStream
<1>e. CASE GoAway
  BY <1>e, <1>1, <1>3 DEF GoAway
<1>f. CASE \E r \in Requests \cup Tells : DoFile(r)
  <2>. PICK r \in Requests \cup Tells : DoFile(r)  BY <1>f
  <2>1. \A t \in ClientReply(r) : t \in Answers  BY TablesAgree, TellsHaveNoReply
  <2>. QED  BY <1>1, <1>3, <1>4, <2>1 DEF DoFile
<1>. QED  BY <1>a, <1>b, <1>c, <1>d, <1>e, <1>f DEF ClientNext

-----------------------------------------------------------------------------
(* Who is next to speak *)

LEMMA Expects ==
    /\ \A w \in {"GetLine", "Refill"} : ServerExpects(w) = {"ProcessLine", "PopStream"}
    /\ \A w \in {"StartLoad", "Autoload"} : ServerExpects(w) = {"StartLoadResult"}
BY DEF ServerExpects, ServerHandle

LEMMA StatesApart ==
    /\ Running \cap Waits = {} /\ {"accept", "exited"} \cap Waits = {}
    /\ {"accept", "exited"} \cap Running = {}
BY DEF Running, Waits, Requests, ServerHandle, ServerStatus, ServerSystemStatus, ServerDirStatus

\* The server asks when nothing else is waited for.
LEMMA AskTurns ==
    ASSUME toClient \in Seq(Messages), TurnsOK, srv \in Running, NEW w \in Waits, Ask(w),
           toServer' = toServer
    PROVE  TurnsOK'
<1>1. toServer = <<>> /\ \A i \in 1..Len(toClient) : toClient[i] \in Async
  BY StatesApart DEF TurnsOK
<1>2. /\ srv' = w /\ Sent(w) \in Messages /\ toClient' = Append(toClient, Sent(w))
  BY SentTypes DEF Ask, Send
<1>3. Asked'
  <2>1. /\ Len(toClient') = Len(toClient) + 1 /\ Len(toClient) \in Nat /\ toClient' # <<>>
        /\ \A i \in 1..Len(toClient) : toClient'[i] = toClient[i]
        /\ toClient'[Len(toClient) + 1] = Sent(w)
    BY <1>2, AppendFacts
  <2>2. \A i \in 1..(Len(toClient') - 1) : toClient'[i] \in Async  BY <2>1, <1>1
  <2>3. Sent(srv)' = Sent(w)  BY <1>2 DEF Sent
  <2>. QED  BY <1>1, <2>1, <2>2, <2>3 DEF Asked
<1>4. srv' \in Waits  BY <1>2
<1>. QED  BY <1>3, <1>4, StatesApart DEF TurnsOK

\* The server speaks without asking, or says nothing.
LEMMA TellTurns ==
    ASSUME toClient \in Seq(Messages), TurnsOK, srv \notin Waits,
           srv' \in Running \cup {"accept", "exited"},
           srv \in Running \/ toClient = <<>>,
           toServer' = toServer,
           \/ toClient' = toClient
           \/ \E m \in Async : toClient' = Append(toClient, m)
           \/ srv' \in {"accept", "exited"} /\ toClient' = Append(toClient, "GoAway")
    PROVE  TurnsOK'
<1>1. Async \subseteq Messages /\ "GoAway" \in Messages  BY DEF Async, Messages
<1>2. toServer = <<>> /\ \A i \in 1..Len(toClient) : toClient[i] \in Async
  BY DEF TurnsOK
<1>3. Len(toClient) \in Nat  OBVIOUS
<1>4. \A m \in Messages : toClient' = Append(toClient, m) =>
         /\ Len(toClient') = Len(toClient) + 1 /\ toClient'[Len(toClient) + 1] = m
         /\ \A i \in 1..Len(toClient) : toClient'[i] = toClient[i]
  BY AppendFacts
<1>5. srv' \in {"accept", "exited"} =>
        \A i \in 1..Len(toClient') : toClient'[i] \in Async \cup {"GoAway"}
  BY <1>1, <1>2, <1>3, <1>4
<1>6. srv' \in Running => \A i \in 1..Len(toClient') : toClient'[i] \in Async
  BY <1>1, <1>2, <1>3, <1>4, StatesApart
<1>. QED  BY <1>2, <1>5, <1>6, StatesApart DEF TurnsOK

\* The server gets the answer it waits for, and nothing else is under way.
LEMMA ReceiveTurns ==
    ASSUME toServer \in Seq([type : Answers, id : Streams \cup {Console, NoStream}]),
           TurnsOK, srv \in Waits, Receive
    PROVE  /\ toClient = <<>> /\ toServer' = <<>> /\ toServer # <<>>
           /\ Reply = toServer[1] /\ Reply.type \in ServerExpects(srv)
<1>1. toServer # <<>> /\ toServer' = Tail(toServer)  BY DEF Receive
<1>2. ReplyUnderWay  BY <1>1 DEF TurnsOK, Asked, Silent
<1>3. Tail(toServer) = <<>>  BY <1>1, <1>2, TailFacts DEF ReplyUnderWay
<1>. QED  BY <1>1, <1>2, <1>3 DEF ReplyUnderWay, Reply

\* What the client handles is a message without an answer, which leaves the
\* turn where it is, or the question the server waits with.
LEMMA HandleTurns ==
    ASSUME toClient \in Seq(Messages), srv \in ServerState, TurnsOK, NEW m, Handle(m), srv' = srv
    PROVE  \/ m \in Async \cup {"GoAway"} /\ (toServer' = toServer => TurnsOK')
           \/ /\ srv \in Waits /\ m = Sent(srv)
              /\ toServer = <<>> /\ toClient = <<m>> /\ toClient' = <<>>
<1>1. toClient # <<>> /\ m = toClient[1] /\ toClient' = Tail(toClient)
  BY DEF Handle
<1>2. /\ Len(toClient) \in Nat /\ Len(toClient) >= 1 /\ Len(toClient') = Len(toClient) - 1
      /\ \A i \in 1..(Len(toClient) - 1) : toClient'[i] = toClient[i + 1]
  BY <1>1, TailFacts
<1>3. CASE srv \in Waits
  <2>1. Asked  BY <1>1, <1>3 DEF TurnsOK, ReplyUnderWay, Silent
  <2>2. CASE Len(toClient) = 1
    <3>1. m = Sent(srv)  BY <1>1, <2>1, <2>2 DEF Asked
    <3>2. toClient = <<m>>  BY <1>1, <2>2
    <3>3. toClient' = <<>>  BY <1>1, <2>2, <3>2
    <3>. QED  BY <1>3, <2>1, <3>1, <3>2, <3>3 DEF Asked
  <2>3. CASE Len(toClient) > 1
    <3>1. m \in Async  BY <1>1, <1>2, <2>1, <2>3 DEF Asked
    <3>2. SUFFICES ASSUME toServer' = toServer PROVE TurnsOK'
      BY <3>1
    <3>3. toClient' # <<>>  BY <1>2, <2>3
    <3>4. Sent(srv)' = Sent(srv)  BY DEF Sent
    <3>5. toClient'[Len(toClient')] = toClient[Len(toClient)]  BY <1>2, <2>3
    <3>6. \A i \in 1..(Len(toClient') - 1) : toClient'[i] \in Async
      <4>1. \A i \in 1..(Len(toClient) - 2) : i + 1 \in 1..(Len(toClient) - 1)  BY <1>2
      <4>. QED  BY <1>2, <2>1, <4>1 DEF Asked
    <3>7. Asked'  BY <2>1, <3>2, <3>3, <3>4, <3>5, <3>6 DEF Asked
    <3>. QED  BY <1>3, <3>7, StatesApart DEF TurnsOK
  <2>. QED  BY <1>2, <2>2, <2>3
<1>4. CASE srv \notin Waits
  <2>1. \A S : (\A i \in 1..Len(toClient) : toClient[i] \in S)
          => m \in S /\ \A i \in 1..Len(toClient') : toClient'[i] \in S
    <3>1. \A i \in 1..Len(toClient') : i + 1 \in 1..Len(toClient)  BY <1>2
    <3>. QED  BY <1>1, <1>2, <3>1
  <2>2. srv \in Running \cup {"accept", "exited"}
    BY <1>4 DEF ServerState, Running
  <2>3. CASE srv \in Running
    <3>1. m \in Async /\ \A i \in 1..Len(toClient') : toClient'[i] \in Async
      BY <2>1, <2>3 DEF TurnsOK
    <3>. QED  BY <1>4, <2>3, <3>1, StatesApart DEF TurnsOK
  <2>4. CASE srv \in {"accept", "exited"}
    <3>1. /\ m \in Async \cup {"GoAway"}
          /\ \A i \in 1..Len(toClient') : toClient'[i] \in Async \cup {"GoAway"}
      BY <2>1, <2>4 DEF TurnsOK
    <3>. QED  BY <1>4, <2>4, <3>1, StatesApart DEF TurnsOK
  <2>. QED  BY <2>2, <2>3, <2>4
<1>. QED  BY <1>3, <1>4

-----------------------------------------------------------------------------
(* The two stacks *)

\* What the type of an answer says about the question.
LEMMA AnswerKinds ==
    ASSUME NEW w \in Waits, NEW t \in ServerExpects(w)
    PROVE  /\ t \in {"ProcessLine", "PopStream"} <=> w \in {"GetLine", "Refill"}
           /\ t = "StartLoadResult" <=> w \in {"StartLoad", "Autoload"}
<1>1. CASE w \in {"GetLine", "Refill", "StartLoad", "Autoload"}
  BY <1>1, Expects
<1>2. CASE w \notin {"GetLine", "Refill", "StartLoad", "Autoload"}
  BY <1>2 DEF ServerExpects
<1>. QED  BY <1>1, <1>2

\* The stacks where no answer is under way.
Level ==
    /\ Len(stack) >= 1 /\ Len(inputStack) = Len(stack) /\ Same(Len(stack))
    /\ \A i \in 1..Len(toClient) : toClient[i] = "PopStream" => Len(inputStack) = 1

LEMMA AtRest ==
    ASSUME StacksOK, toServer = <<>>, Connected
    PROVE  Level
BY DEF StacksOK, InStep, Popped, Pushed, Level

LEMMA LevelSuffices ==
    ASSUME StacksOK, toServer' = <<>>,
           srv' \in {"GetLine", "Refill"} => stack' # <<>> /\ ~OnLocal',
           srv' = "flush" => CanFlush',
           Connected' => Level'
    PROVE  StacksOK'
<1>. SUFFICES ASSUME Connected'
              PROVE  /\ Len(stack') >= 1 /\ Len(inputStack') >= 1
                     /\ InStep'
                     /\ \A i \in 1..Len(toClient') : toClient'[i] = "PopStream" => Len(inputStack') = 1
  BY DEF StacksOK
<1>1. Level'  OBVIOUS
<1>2. ~Popped' /\ ~Pushed'  BY DEF Popped, Pushed
<1>. QED  BY <1>1, <1>2 DEF Level, InStep

\* A message more to the client: PopStream only where one file is open.
LEMMA LevelTold ==
    ASSUME toClient \in Seq(Messages), Level, NEW m \in Messages,
           m = "PopStream" => Len(stack) = 1,
           toClient' = toClient \/ toClient' = Append(toClient, m),
           Len(stack') = Len(stack), inputStack' = inputStack,
           \A i \in 1..Len(stack) : stack'[i].id = stack[i].id
    PROVE  Level'
<1>1. CASE toClient' = toClient
  BY <1>1 DEF Level, Same
<1>2. CASE toClient' = Append(toClient, m)
  <2>1. /\ Len(toClient') = Len(toClient) + 1 /\ Len(toClient) \in Nat
        /\ \A i \in 1..Len(toClient) : toClient'[i] = toClient[i]
        /\ toClient'[Len(toClient) + 1] = m
    BY <1>2, AppendFacts
  <2>2. ASSUME NEW i \in 1..Len(toClient'), toClient'[i] = "PopStream"
        PROVE  Len(inputStack') = 1
    <3>1. CASE i \in 1..Len(toClient)  BY <2>1, <2>2, <3>1 DEF Level
    <3>2. CASE i = Len(toClient) + 1  BY <2>1, <2>2, <3>2 DEF Level
    <3>. QED  BY <2>1, <3>1, <3>2
  <2>. QED  BY <2>2 DEF Level, Same
<1>. QED  BY <1>1, <1>2

\* The server ends a stream of its own above the client's console.
LEMMA LevelPopped ==
    ASSUME ClientServerTypeOK, Level, PopInputStream, inputStack' = inputStack,
           OnLocal, Len(stack) = 1
    PROVE  Level'
<1>1. stack \in Seq(Entries) /\ toClient \in Seq(Messages) /\ "PopStream" \in Messages
  BY DEF ClientServerTypeOK, Entries, Messages
<1>2. toClient' = Append(toClient, "PopStream") /\ stack' = Pop
  BY DEF PopInputStream
<1>. QED  BY <1>1, <1>2, PopFacts, LevelTold

\* Ending a stream of the server changes its stack.
LEMMA PopChanges == ASSUME stack \in Seq(Entries), OnLocal PROVE Pop # stack
<1>. DEFINE n == Len(stack)
<1>1. n \in 1..Len(stack) /\ stack[n] \in Entries /\ stack[n].locals > 0
  BY DEF OnLocal, Last
<1>2. Pop = [stack EXCEPT ![n] = [stack[n] EXCEPT !.locals = @ - 1]]  BY DEF Pop
<1>3. Pop[n].locals = stack[n].locals - 1  BY <1>1, <1>2 DEF Entries
<1>4. stack[n].locals \in Nat  BY <1>1 DEF Entries
<1>. QED  BY <1>3, <1>4

-----------------------------------------------------------------------------
(* The steps *)

LEMMA InitInvariant == Init => IInv
<1>. SUFFICES ASSUME Init PROVE TurnsOK /\ StacksOK
  BY InitTyped DEF IInv
<1>1. srv = "accept" /\ toClient = <<>> /\ toServer = <<>>  BY DEF Init
<1>2. TurnsOK  BY <1>1, StatesApart DEF TurnsOK
<1>3. StacksOK  BY <1>1 DEF StacksOK, Connected
<1>. QED  BY <1>2, <1>3

LEMMA ServerTurns ==
    ASSUME ClientServerTypeOK, TurnsOK, ServerNext
    PROVE  TurnsOK'
<1>. DEFINE Replies == [type : Answers, id : Streams \cup {Console, NoStream}]
<1>1. toClient \in Seq(Messages) /\ toServer \in Seq(Replies)
  BY DEF ClientServerTypeOK, Messages
<1>2. /\ {"top", "line", "flush", "wild"} \subseteq Running
      /\ {"GetLine", "Refill", "StartLoad", "Autoload"} \subseteq Waits
      /\ Requests \subseteq Waits
      /\ "PopStream" \in Async /\ Tells \subseteq Async
  BY DEF Running, Waits, Async
<1>3. Running \cap Waits = {}  BY StatesApart
<1>4. \A w \in Waits : srv \in Running /\ Ask(w) /\ toServer' = toServer => TurnsOK'
  BY <1>1, AskTurns
<1>5. /\ srv \in Running /\ srv' \in Running \cup {"accept", "exited"} /\ toServer' = toServer
      /\ \/ toClient' = toClient
         \/ \E m \in Async : toClient' = Append(toClient, m)
         \/ srv' \in {"accept", "exited"} /\ toClient' = Append(toClient, "GoAway")
      => TurnsOK'
  BY <1>1, <1>3, TellTurns
<1>6. /\ srv \in Waits /\ Receive /\ srv' \in Running \cup {"accept", "exited"}
      /\ \/ toClient' = toClient
         \/ toClient' = Append(toClient, "PopStream")
      => TurnsOK'
  <2>. SUFFICES ASSUME srv \in Waits, Receive, srv' \in Running \cup {"accept", "exited"},
                       toClient' = toClient \/ toClient' = Append(toClient, "PopStream")
                PROVE  TurnsOK'
    OBVIOUS
  <2>1. toClient = <<>> /\ toServer' = <<>>  BY <1>1, ReceiveTurns
  <2>2. \A i \in 1..Len(toClient') : toClient'[i] \in Async  BY <1>2, <2>1
  <2>. QED  BY <2>1, <2>2, StatesApart DEF TurnsOK
<1>7. PopInputStream => toClient' = toClient \/ toClient' = Append(toClient, "PopStream")
  BY DEF PopInputStream
<1>a. CASE Connect
  <2>1. CASE srv' = "top" /\ toClient' = <<>> /\ toServer' = <<>>
    BY <1>2, <1>3, <2>1, StatesApart DEF TurnsOK
  <2>2. CASE srv' = "Autoload" /\ toClient' = <<"StartLoad">> /\ toServer' = <<>>
    <3>1. Sent(srv') = "StartLoad" /\ srv' \in Waits  BY <1>2, <2>2 DEF Sent
    <3>2. Asked'  BY <2>2, <3>1 DEF Asked, Sent
    <3>. QED  BY <3>1, <3>2, StatesApart DEF TurnsOK
  <2>. QED  BY <1>a, <2>1, <2>2 DEF Connect
<1>b. CASE AskLine  BY <1>b, <1>2, <1>4 DEF AskLine
<1>c. CASE LocalLine  BY <1>c, <1>2, <1>5, <1>7 DEF LocalLine
<1>d. CASE StaleLine  BY <1>d, <1>2, <1>5 DEF StaleLine
<1>e. CASE GotLine  BY <1>e, <1>2, <1>6, <1>7 DEF GotLine, EndSession
<1>f. CASE EndLine  BY <1>f, <1>2, <1>5 DEF EndLine
<1>g. CASE \E next \in {"accept", "exited"} : Bye(next)
  BY <1>g, <1>2, <1>5 DEF Bye, Send
<1>h. CASE FatalError  BY <1>h, <1>2, <1>5 DEF FatalError, EndSession
<1>i. CASE PushInputFile  BY <1>i, <1>2, <1>4 DEF PushInputFile
<1>j. CASE Loaded  BY <1>j, <1>2, <1>6 DEF Loaded
<1>k. CASE LoadDone  BY <1>k, <1>2, <1>5, <1>7 DEF LoadDone
<1>l. CASE RunFile  BY <1>l, <1>2, <1>5 DEF RunFile
<1>m. CASE AskRefill  BY <1>m, <1>2, <1>4, <1>5 DEF AskRefill
<1>n. CASE Refilled  BY <1>n, <1>2, <1>6 DEF Refilled
<1>o. CASE Throw  BY <1>o, <1>2, <1>5 DEF Throw
<1>p. CASE FlushToDepth  BY <1>p, <1>2, <1>5, <1>7 DEF FlushToDepth
<1>q. CASE \E r \in Requests : AskFile(r)  BY <1>q, <1>2, <1>4 DEF AskFile
<1>r. CASE Answered  BY <1>r, <1>2, <1>6 DEF Answered
<1>s. CASE \E m \in Tells : Tell(m)  BY <1>s, <1>2, <1>5 DEF Tell, Send
<1>. QED
  BY <1>a, <1>b, <1>c, <1>d, <1>e, <1>f, <1>g, <1>h, <1>i, <1>j, <1>k, <1>l, <1>m, <1>n,
     <1>o, <1>p, <1>q, <1>r, <1>s DEF ServerNext

\* The question has been handled and its answer, if any, is under way.
LEMMA AnswerTurns ==
    ASSUME toServer = <<>>, toClient' = <<>>, srv \in Waits, srv' = srv,
           \/ toServer' = toServer
           \/ \E t \in ServerExpects(srv), i \in Streams \cup {Console, NoStream} : Answer(t, i)
    PROVE  TurnsOK'
<1>1. CASE toServer' = toServer
  BY <1>1, StatesApart DEF TurnsOK, Silent
<1>2. CASE \E t \in ServerExpects(srv), i \in Streams \cup {Console, NoStream} : Answer(t, i)
  <2>. PICK t \in ServerExpects(srv), i \in Streams \cup {Console, NoStream} : Answer(t, i)
    BY <1>2
  <2>1. toServer' = <<[type |-> t, id |-> i]>>  BY DEF Answer
  <2>2. ServerExpects(srv)' = ServerExpects(srv)  BY DEF ServerExpects
  <2>3. ReplyUnderWay'  BY <2>1, <2>2 DEF ReplyUnderWay
  <2>. QED  BY <2>3, StatesApart DEF TurnsOK
<1>. QED  BY <1>1, <1>2

LEMMA ClientTurns ==
    ASSUME ClientServerTypeOK, TurnsOK, ClientNext
    PROVE  TurnsOK'
<1>1. toClient \in Seq(Messages) /\ srv \in ServerState /\ inputStack \in Seq(Streams \cup {Console})
  BY DEF ClientServerTypeOK, Messages, ServerState
<1>2. \A m : Handle(m) /\ srv' = srv =>
        \/ m \in Async \cup {"GoAway"} /\ (toServer' = toServer => TurnsOK')
        \/ /\ srv \in Waits /\ m = Sent(srv)
           /\ toServer = <<>> /\ toClient = <<m>> /\ toClient' = <<>>
  BY <1>1, HandleTurns
<1>3. "SendLine" \notin Async \cup {"GoAway"} /\ "StartLoad" \notin Async \cup {"GoAway"}
      /\ \A r \in Requests : r \notin Async \cup {"GoAway"}
  BY DEF Async, Tells, Requests, ServerHandle, ServerStatus, ServerSystemStatus, ServerDirStatus
<1>a. CASE SendLine
  <2>1. srv' = srv /\ Handle("SendLine")  BY <1>a DEF SendLine
  <2>2. srv \in Waits /\ Sent(srv) = "SendLine" /\ toServer = <<>> /\ toClient' = <<>>
    BY <2>1, <1>2, <1>3
  <2>3. ServerExpects(srv) = {"ProcessLine", "PopStream"}  BY <2>2, SentTypes, Expects
  <2>4. Last(inputStack) \in Streams \cup {Console}  BY <1>a, <1>1, FrontFacts DEF SendLine, Last
  <2>. QED  BY <1>a, <2>1, <2>2, <2>3, <2>4, AnswerTurns DEF SendLine
<1>b. CASE NoLine
  <2>1. srv' = srv /\ Handle("SendLine") /\ toServer' = toServer  BY <1>b DEF NoLine
  <2>2. srv \in Waits /\ toServer = <<>> /\ toClient' = <<>>  BY <2>1, <1>2, <1>3
  <2>. QED  BY <2>1, <2>2, AnswerTurns
<1>c. CASE StartLoad
  <2>1. srv' = srv /\ Handle("StartLoad")  BY <1>c DEF StartLoad
  <2>2. srv \in Waits /\ Sent(srv) = "StartLoad" /\ toServer = <<>> /\ toClient' = <<>>
    BY <2>1, <1>2, <1>3
  <2>3. ServerExpects(srv) = {"StartLoadResult"}  BY <2>2, SentTypes, Expects
  <2>. QED  BY <1>c, <2>1, <2>2, <2>3, AnswerTurns DEF StartLoad
<1>d. CASE PopStream
  BY <1>d, <1>2, SentTypes DEF PopStream, Async
<1>e. CASE GoAway
  BY <1>e, <1>2, SentTypes DEF GoAway
<1>f. CASE \E r \in Requests \cup Tells : DoFile(r)
  <2>. PICK r \in Requests \cup Tells : DoFile(r)  BY <1>f
  <2>1. srv' = srv /\ Handle(r)  BY DEF DoFile
  <2>2. CASE r \in Tells
    <3>1. toServer' = toServer  BY <2>2, TellsHaveNoReply DEF DoFile
    <3>2. r \in Async  BY <2>2 DEF Async
    <3>. QED  BY <2>1, <3>1, <3>2, <1>2, SentTypes
  <2>3. CASE r \in Requests
    <3>1. srv \in Waits /\ r = Sent(srv) /\ toServer = <<>> /\ toClient' = <<>>
      BY <2>1, <2>3, <1>2, <1>3
    <3>2. srv = r  BY <2>3, <3>1, SentTypes
    <3>3. \A t \in ClientReply(r) : t \in ServerExpects(srv)  BY <2>3, <3>2, TablesAgree
    <3>. QED  BY <2>1, <3>1, <3>3, AnswerTurns DEF DoFile
  <2>. QED  BY <2>2, <2>3
<1>. QED  BY <1>a, <1>b, <1>c, <1>d, <1>e, <1>f DEF ClientNext

LEMMA ServerStacks ==
    ASSUME IInv, ServerNext
    PROVE  StacksOK'
<1>. DEFINE Replies == [type : Answers, id : Streams \cup {Console, NoStream}]
<1>1. /\ ClientServerTypeOK /\ TurnsOK /\ StacksOK
      /\ stack \in Seq(Entries) /\ toClient \in Seq(Messages) /\ toServer \in Seq(Replies)
      /\ inputStack \in Seq(Streams \cup {Console})
  BY DEF IInv, ClientServerTypeOK, Entries, Messages
<1>2. /\ {"GetLine", "Refill", "StartLoad", "Autoload"} \subseteq Waits /\ Requests \subseteq Waits
      /\ {"top", "line", "flush", "wild"} \cap Waits = {}
      /\ Requests \cap {"GetLine", "Refill", "StartLoad", "Autoload", "flush", "line"} = {}
  BY StatesApart DEF Waits, Running, Requests, ServerHandle, ServerStatus, ServerSystemStatus,
     ServerDirStatus
<1>3. srv \notin Waits => toServer = <<>>  BY <1>1 DEF TurnsOK
<1>4. ~astray /\ srv \notin {"accept", "exited", "wild"} /\ toServer = <<>> => Level
  BY <1>1, AtRest DEF Connected
<1>5. Receive /\ srv \in Waits =>
        /\ toClient = <<>> /\ toServer' = <<>> /\ toServer # <<>> /\ Reply = toServer[1]
        /\ Reply.type \in ServerExpects(srv)
  BY <1>1, ReceiveTurns
<1>6. \A w \in Waits : Ask(w) => toClient' = Append(toClient, Sent(w)) /\ srv' = w
                                /\ Sent(w) \in Messages /\ Sent(w) # "PopStream"
  BY SentTypes DEF Ask, Send, Async
<1>7. \A w \in Waits : Level /\ Ask(w) /\ UNCHANGED <<stack, inputStack>> => Level'
  BY <1>1, <1>6, LevelTold
<1>8. Level /\ UNCHANGED <<stack, inputStack, toClient>> => Level'
  BY DEF Level, Same
<1>9. UNCHANGED stack => (CanFlush' <=> CanFlush) /\ (OnLocal' <=> OnLocal)
  BY DEF CanFlush, OnLocal, Last
<1>a. CASE Connect
  <2>1. /\ srv' \in {"top", "Autoload"} /\ toServer' = <<>>
        /\ inputStack' = <<Console>> /\ stack' = <<Stream(Console)>>
        /\ toClient' = <<>> \/ toClient' = <<"StartLoad">>
    BY <1>a DEF Connect
  <2>2. Level'  BY <2>1 DEF Level, Same, Stream
  <2>. QED  BY <1>1, <2>1, <2>2, LevelSuffices
<1>b. CASE AskLine
  <2>1. /\ Ask("GetLine") /\ srv = "top" /\ UNCHANGED <<stack, inputStack, toServer, astray>>
        /\ stack # <<>> /\ ~OnLocal
    BY <1>b DEF AskLine
  <2>2. toServer = <<>> /\ srv' = "GetLine"  BY <2>1, <1>2, <1>3, <1>6
  <2>3. Connected' => Level'  BY <2>1, <2>2, <1>2, <1>4, <1>7 DEF Connected
  <2>. QED  BY <1>1, <1>9, <2>1, <2>2, <2>3, LevelSuffices
<1>c. CASE LocalLine
  <2>1. /\ srv = "top" /\ OnLocal /\ srv' = "line" /\ UNCHANGED <<inputStack, toServer>>
        /\ \/ UNCHANGED <<stack, toClient, astray>>
           \/ PopInputStream /\ astray' = (astray \/ Len(stack) > 1)
    BY <1>c DEF LocalLine
  <2>2. toServer = <<>>  BY <2>1, <1>2, <1>3
  <2>3. ASSUME ~astray' PROVE ~astray /\ Level
    <3>1. ~astray  BY <2>1, <2>3
    <3>. QED  BY <2>1, <2>2, <3>1, <1>4
  <2>4. PopInputStream /\ Len(stack) = 1 /\ Level => Level'
    BY <1>1, <2>1, LevelPopped
  <2>5. ASSUME ~astray' PROVE Level'
    <3>1. Level  BY <2>3, <2>5
    <3>2. CASE UNCHANGED <<stack, toClient>>  BY <2>1, <3>1, <3>2, <1>8
    <3>3. CASE PopInputStream /\ astray' = (astray \/ Len(stack) > 1)
      <4>1. ~(Len(stack) > 1)  BY <2>5, <3>3
      <4>2. Len(stack) >= 1 /\ Len(stack) \in Nat  BY <1>1, <3>1 DEF Level
      <4>3. Len(stack) = 1  BY <4>1, <4>2
      <4>. QED  BY <2>4, <3>1, <3>3, <4>3
    <3>. QED  BY <2>1, <3>2, <3>3
  <2>. QED  BY <1>1, <2>1, <2>2, <2>5, LevelSuffices DEF Connected
<1>d. CASE StaleLine
  <2>1. srv' = "wild" /\ toServer' = toServer /\ srv = "top"  BY <1>d DEF StaleLine
  <2>2. ~Connected' /\ toServer = <<>>  BY <2>1, <1>2, <1>3 DEF Connected
  <2>. QED  BY <1>1, <2>1, <2>2, LevelSuffices
<1>e. CASE GotLine
  <2>1. /\ srv = "GetLine" /\ Receive /\ UNCHANGED <<inputStack, astray>>
        /\ \/ Reply.type = "ProcessLine" /\ srv' = "line" /\ UNCHANGED <<stack, toClient>>
           \/ /\ Reply.type # "ProcessLine" /\ PopInputStream
              /\ srv' = "line" \/ (IsBottom /\ srv' = "accept")
              /\ srv' = "line" => ~IsBottom
    BY <1>e DEF GotLine, EndSession
  <2>2. /\ toClient = <<>> /\ toServer' = <<>> /\ toServer # <<>> /\ Reply = toServer[1]
        /\ Reply.type \in {"ProcessLine", "PopStream"}
    BY <2>1, <1>2, <1>5, Expects
  <2>3. stack # <<>> /\ ~OnLocal  BY <1>1, <2>1 DEF StacksOK
  <2>4. ~astray => Connected  BY <2>1 DEF Connected
  <2>5. Reply.type = "ProcessLine" /\ ~astray => Level'
    <3>. SUFFICES ASSUME Reply.type = "ProcessLine", ~astray PROVE Level'
      OBVIOUS
    <3>1. ~Popped /\ ~Pushed  BY <2>2 DEF Popped, Pushed
    <3>2. Len(stack) >= 1 /\ Len(inputStack) = Len(stack) /\ Same(Len(stack))
      BY <1>1, <2>4, <3>1 DEF StacksOK, InStep
    <3>3. UNCHANGED <<stack, toClient>>  BY <2>1
    <3>. QED  BY <2>1, <2>2, <3>2, <3>3 DEF Level, Same
  <2>6. Reply.type # "ProcessLine" /\ ~astray /\ srv' = "line" => Level'
    <3>. SUFFICES ASSUME Reply.type # "ProcessLine", ~astray, srv' = "line" PROVE Level'
      OBVIOUS
    <3>1. Popped  BY <2>2 DEF Popped
    <3>2. /\ Len(inputStack) >= 1 /\ Len(stack) = Len(inputStack) + 1
          /\ Same(Len(inputStack))
      BY <1>1, <2>4, <3>1 DEF StacksOK, InStep
    <3>3. PopInputStream /\ ~IsBottom  BY <2>1
    <3>4. stack' = Front(stack) /\ toClient' = toClient
      BY <1>1, <2>3, <3>3, PopFacts DEF PopInputStream
    <3>5. Len(stack') = Len(stack) - 1 /\ \A i \in 1..(Len(stack) - 1) : stack'[i] = stack[i]
      BY <1>1, <2>3, <3>4, FrontFacts
    <3>6. Len(inputStack) \in Nat /\ Len(stack) \in Nat  BY <1>1
    <3>7. Len(stack) - 1 = Len(inputStack)  BY <3>2, <3>6
    <3>. QED  BY <2>1, <2>2, <3>2, <3>4, <3>5, <3>7 DEF Level, Same
  <2>. QED  BY <1>1, <2>1, <2>2, <2>5, <2>6, LevelSuffices DEF Connected
<1>f. CASE EndLine
  <2>1. srv = "line" /\ srv' = "top" /\ UNCHANGED <<stack, inputStack, toClient, toServer, astray>>
    BY <1>f DEF EndLine
  <2>2. toServer = <<>> /\ (Connected' => Level')  BY <2>1, <1>2, <1>3, <1>4, <1>8 DEF Connected
  <2>. QED  BY <1>1, <2>1, <2>2, LevelSuffices
<1>g. CASE \E next \in {"accept", "exited"} : Bye(next)
  <2>1. srv = "line" /\ srv' \in {"accept", "exited"} /\ toServer' = toServer  BY <1>g DEF Bye
  <2>2. ~Connected' /\ toServer = <<>>  BY <2>1, <1>2, <1>3 DEF Connected
  <2>. QED  BY <1>1, <2>1, <2>2, LevelSuffices
<1>h. CASE FatalError
  <2>1. srv = "line" /\ srv' = "accept" /\ toServer' = toServer  BY <1>h DEF FatalError, EndSession
  <2>2. ~Connected' /\ toServer = <<>>  BY <2>1, <1>2, <1>3 DEF Connected
  <2>. QED  BY <1>1, <2>1, <2>2, LevelSuffices
<1>i. CASE PushInputFile
  <2>1. /\ srv = "line" /\ Ask("StartLoad") /\ UNCHANGED <<stack, inputStack, toServer, astray>>
    BY <1>i DEF PushInputFile
  <2>2. toServer = <<>> /\ srv' = "StartLoad"  BY <2>1, <1>2, <1>3, <1>6
  <2>3. Connected' => Level'  BY <2>1, <2>2, <1>2, <1>4, <1>7 DEF Connected
  <2>. QED  BY <1>1, <2>1, <2>2, <2>3, LevelSuffices
<1>j. CASE Loaded
  <2>1. /\ srv \in {"StartLoad", "Autoload"} /\ Receive /\ srv' \in {"top", "line"}
        /\ UNCHANGED <<inputStack, astray, toClient>>
        /\ stack' = IF Reply.type = "StartLoadResult" /\ Reply.id # NoStream
                    THEN Append(stack, Stream(Reply.id)) ELSE stack
    BY <1>j DEF Loaded
  <2>2. /\ toClient = <<>> /\ toServer' = <<>> /\ toServer # <<>> /\ Reply = toServer[1]
        /\ Reply.type = "StartLoadResult"
    BY <2>1, <1>2, <1>5, Expects
  <2>3. ~astray => Connected  BY <2>1 DEF Connected
  <2>4. ~Popped /\ (Pushed <=> Reply.id # NoStream)  BY <2>2 DEF Popped, Pushed
  <2>5. Pushed /\ ~astray => Level'
    <3>. SUFFICES ASSUME Pushed, ~astray PROVE Level'
      OBVIOUS
    <3>1. /\ Len(stack) >= 1 /\ Len(inputStack) = Len(stack) + 1 /\ Same(Len(stack))
          /\ inputStack[Len(inputStack)] = Reply.id
      BY <1>1, <2>2, <2>3 DEF StacksOK, InStep
    <3>2. stack' = Append(stack, Stream(Reply.id)) /\ Stream(Reply.id).id = Reply.id
      BY <2>1, <2>2, <2>4 DEF Stream
    <3>3. Stream(Reply.id) \in Entries
      <4>1. Reply \in Replies  BY <1>1, <2>2, TailFacts
      <4>. QED  BY <4>1, <2>4 DEF Stream, Entries
    <3>4. /\ Len(stack') = Len(stack) + 1 /\ stack'[Len(stack) + 1] = Stream(Reply.id)
          /\ \A i \in 1..Len(stack) : stack'[i] = stack[i]
          /\ Len(stack) \in Nat
      BY <1>1, <3>2, <3>3, AppendFacts
    <3>5. \A i \in 1..(Len(stack) + 1) : inputStack'[i] = stack'[i].id
      BY <2>1, <3>1, <3>2, <3>4 DEF Same
    <3>. QED  BY <2>1, <2>2, <3>1, <3>4, <3>5 DEF Level, Same
  <2>6. ~Pushed /\ ~astray => Level'
    <3>. SUFFICES ASSUME ~Pushed, ~astray PROVE Level'
      OBVIOUS
    <3>1. Len(stack) >= 1 /\ Len(inputStack) = Len(stack) /\ Same(Len(stack))
      BY <1>1, <2>3, <2>4 DEF StacksOK, InStep
    <3>2. stack' = stack  BY <2>1, <2>4
    <3>. QED  BY <2>1, <2>2, <3>1, <3>2 DEF Level, Same
  <2>. QED  BY <1>1, <2>1, <2>2, <2>5, <2>6, LevelSuffices DEF Connected
<1>k. CASE LoadDone
  <2>1. /\ srv = "line" /\ srv' = srv /\ PopInputStream /\ UNCHANGED <<inputStack, toServer>>
        /\ astray' = (astray \/ (Pop # stack /\ ~(OnLocal /\ Len(stack) = 1)))
    BY <1>k DEF LoadDone
  <2>2. toServer = <<>>  BY <2>1, <1>2, <1>3
  <2>3. ~astray' => ~astray /\ Level  BY <2>1, <2>2, <1>4
  <2>4. OnLocal /\ ~astray' => Len(stack) = 1  BY <1>1, <2>1, PopChanges
  <2>5. ~OnLocal /\ ~astray' => UNCHANGED <<stack, toClient>>  BY <2>1 DEF PopInputStream
  <2>6. Connected' => Level'
    BY <1>1, <2>1, <2>3, <2>4, <2>5, <1>8, LevelPopped DEF Connected
  <2>. QED  BY <1>1, <2>1, <2>2, <2>6, LevelSuffices
<1>l. CASE RunFile
  <2>. DEFINE n == Len(stack)
  <2>1. /\ srv = "line" /\ srv' = "top" /\ stack # <<>>
        /\ UNCHANGED <<inputStack, toClient, toServer, astray>>
        /\ stack' = [stack EXCEPT ![n] = [stack[n] EXCEPT !.locals = @ + 1]]
    BY <1>l DEF RunFile
  <2>2. n \in 1..Len(stack) /\ stack[n] \in Entries  BY <1>1, <2>1
  <2>3. [stack[n] EXCEPT !.locals = @ + 1].id = stack[n].id  BY <2>2 DEF Entries
  <2>4. Len(stack') = Len(stack) /\ \A i \in 1..Len(stack) : stack'[i].id = stack[i].id
    BY <1>1, <2>1, <2>2, <2>3
  <2>5. Level => Level'  BY <2>1, <2>4 DEF Level, Same
  <2>6. toServer = <<>> /\ (Connected' => Level')  BY <2>1, <2>5, <1>2, <1>3, <1>4 DEF Connected
  <2>. QED  BY <1>1, <2>1, <2>6, LevelSuffices
<1>m. CASE AskRefill
  <2>1. /\ srv = "line" /\ ~OnLocal /\ UNCHANGED <<stack, inputStack, toServer, astray>>
        /\ \/ srv' = "wild"
           \/ stack # <<>> /\ Ask("Refill")
    BY <1>m DEF AskRefill
  <2>2. toServer = <<>>  BY <2>1, <1>2, <1>3
  <2>3. srv' # "wild" => srv' = "Refill" /\ stack # <<>>  BY <2>1, <1>2, <1>6
  <2>4. Connected' => Level'  BY <2>1, <2>2, <1>2, <1>4, <1>7 DEF Connected
  <2>. QED  BY <1>1, <1>9, <2>1, <2>2, <2>3, <2>4, LevelSuffices
<1>n. CASE Refilled
  <2>1. /\ srv = "Refill" /\ Receive /\ srv' = "line" /\ UNCHANGED <<stack, toClient, inputStack>>
        /\ astray' = (astray \/ Reply.type = "PopStream")
    BY <1>n DEF Refilled
  <2>2. /\ toClient = <<>> /\ toServer' = <<>> /\ toServer # <<>> /\ Reply = toServer[1]
        /\ Reply.type \in {"ProcessLine", "PopStream"}
    BY <2>1, <1>2, <1>5, Expects
  <2>3. ASSUME ~astray' PROVE Level'
    <3>1. ~Popped /\ ~Pushed /\ Connected  BY <2>1, <2>2, <2>3 DEF Popped, Pushed, Connected
    <3>2. Len(stack) >= 1 /\ Len(inputStack) = Len(stack) /\ Same(Len(stack))
      BY <1>1, <3>1 DEF StacksOK, InStep
    <3>. QED  BY <2>1, <2>2, <3>2 DEF Level, Same
  <2>. QED  BY <1>1, <2>1, <2>2, <2>3, LevelSuffices DEF Connected
<1>o. CASE Throw
  <2>1. /\ srv = "line" /\ srv' = "flush" /\ CanFlush
        /\ UNCHANGED <<stack, inputStack, toClient, toServer, astray>>
    BY <1>o DEF Throw
  <2>2. toServer = <<>> /\ (Connected' => Level')  BY <2>1, <1>2, <1>3, <1>4, <1>8 DEF Connected
  <2>. QED  BY <1>1, <1>9, <2>1, <2>2, LevelSuffices
<1>p. CASE FlushToDepth
  <2>1. /\ srv = "flush" /\ PopInputStream /\ UNCHANGED <<inputStack, toServer>>
        /\ srv' \in {"line"} \cup (IF CanFlush' THEN {"flush"} ELSE {})
        /\ astray' = (astray \/ Len(stack) > 1)
    BY <1>p DEF FlushToDepth
  <2>2. toServer = <<>> /\ CanFlush  BY <1>1, <1>2, <1>3, <2>1 DEF StacksOK
  <2>3. ~astray' => ~astray /\ Level /\ Len(stack) = 1
    <3>. SUFFICES ASSUME ~astray' PROVE ~astray /\ Level /\ Len(stack) = 1
      OBVIOUS
    <3>1. ~astray  BY <2>1
    <3>2. ~(Len(stack) > 1)  BY <2>1
    <3>3. Level  BY <2>1, <2>2, <3>1, <1>4
    <3>4. Len(stack) >= 1 /\ Len(stack) \in Nat  BY <1>1, <3>3 DEF Level
    <3>5. Len(stack) = 1  BY <3>2, <3>4
    <3>. QED  BY <3>1, <3>3, <3>5
  <2>4. ~astray' => OnLocal  BY <2>1, <2>2, <2>3 DEF CanFlush
  <2>5. Connected' => Level'  BY <1>1, <2>1, <2>3, <2>4, LevelPopped DEF Connected
  <2>. QED  BY <1>1, <2>1, <2>2, <2>5, LevelSuffices
<1>q. CASE \E r \in Requests : AskFile(r)
  <2>. PICK r \in Requests : AskFile(r)  BY <1>q
  <2>1. /\ srv = "line" /\ Ask(r) /\ UNCHANGED <<stack, inputStack, toServer>>
        /\ astray' = (astray \/ r = "GetWorkDir")
    BY DEF AskFile
  <2>2. toServer = <<>> /\ srv' = r  BY <2>1, <1>2, <1>3, <1>6
  <2>3. Connected' => Level'  BY <2>1, <2>2, <1>2, <1>4, <1>7 DEF Connected
  <2>. QED  BY <1>1, <1>2, <2>1, <2>2, <2>3, LevelSuffices
<1>r. CASE Answered
  <2>1. /\ srv \in Requests /\ Receive /\ srv' = "line"
        /\ UNCHANGED <<stack, toClient, inputStack, astray>>
    BY <1>r DEF Answered
  <2>2. /\ toClient = <<>> /\ toServer' = <<>> /\ toServer # <<>> /\ Reply = toServer[1]
        /\ Reply.type \in ServerExpects(srv) /\ srv \in Waits
    BY <2>1, <1>2, <1>5
  <2>3. Reply.type \notin {"ProcessLine", "PopStream", "StartLoadResult"}
    BY <2>1, <2>2, <1>2, AnswerKinds
  <2>4. ASSUME ~astray' PROVE Level'
    <3>1. ~Popped /\ ~Pushed  BY <2>2, <2>3 DEF Popped, Pushed
    <3>2. Connected  BY <2>1, <2>4, <2>2, StatesApart, <1>2 DEF Connected, Running
    <3>3. Len(stack) >= 1 /\ Len(inputStack) = Len(stack) /\ Same(Len(stack))
      BY <1>1, <3>1, <3>2 DEF StacksOK, InStep
    <3>. QED  BY <2>1, <2>2, <3>3 DEF Level, Same
  <2>. QED  BY <1>1, <2>1, <2>2, <2>4, LevelSuffices DEF Connected
<1>s. CASE \E m \in Tells : Tell(m)
  <2>. PICK m \in Tells : Tell(m)  BY <1>s
  <2>1. /\ srv = "line" /\ srv' = srv /\ toClient' = Append(toClient, m)
        /\ UNCHANGED <<stack, inputStack, toServer, astray>>
    BY DEF Tell, Send
  <2>2. m \in Messages /\ m # "PopStream"  BY DEF Tells, Messages
  <2>3. Level => Level'  BY <1>1, <2>1, <2>2, LevelTold
  <2>4. toServer = <<>> /\ (Connected' => Level')  BY <2>1, <2>3, <1>2, <1>3, <1>4 DEF Connected
  <2>. QED  BY <1>1, <2>1, <2>4, LevelSuffices
<1>. QED
  BY <1>a, <1>b, <1>c, <1>d, <1>e, <1>f, <1>g, <1>h, <1>i, <1>j, <1>k, <1>l, <1>m, <1>n,
     <1>o, <1>p, <1>q, <1>r, <1>s DEF ServerNext

\* A message that the client only takes off the socket.
LEMMA LevelTaken ==
    ASSUME toClient \in Seq(Messages), StacksOK, NEW m, Handle(m),
           UNCHANGED <<srv, stack, toServer, inputStack, astray>>
    PROVE  StacksOK'
<1>1. /\ Len(toClient) \in Nat /\ Len(toClient') = Len(toClient) - 1
      /\ \A i \in 1..(Len(toClient) - 1) : toClient'[i] = toClient[i + 1]
  BY TailFacts DEF Handle
<1>2. \A i \in 1..Len(toClient') : i + 1 \in 1..Len(toClient) /\ toClient'[i] = toClient[i + 1]
  BY <1>1
<1>3. (OnLocal' <=> OnLocal) /\ (CanFlush' <=> CanFlush) /\ (Connected' <=> Connected)
      /\ (InStep' <=> InStep)
  BY DEF OnLocal, Last, CanFlush, Connected, InStep, Popped, Pushed, Same
<1>. QED  BY <1>2, <1>3 DEF StacksOK

LEMMA ClientStacks ==
    ASSUME IInv, ClientNext
    PROVE  StacksOK'
<1>1. /\ TurnsOK /\ StacksOK /\ srv \in ServerState
      /\ stack \in Seq(Entries) /\ toClient \in Seq(Messages)
      /\ inputStack \in Seq(Streams \cup {Console})
  BY DEF IInv, ClientServerTypeOK, Entries, Messages, ServerState
<1>2. \A m : Handle(m) /\ srv' = srv =>
        \/ m \in Async \cup {"GoAway"}
        \/ /\ srv \in Waits /\ m = Sent(srv)
           /\ toServer = <<>> /\ toClient = <<m>> /\ toClient' = <<>>
  BY <1>1, HandleTurns
<1>3. "SendLine" \notin Async \cup {"GoAway"} /\ "StartLoad" \notin Async \cup {"GoAway"}
      /\ \A r \in Requests : r \notin Async \cup {"GoAway"}
  BY DEF Async, Tells, Requests, ServerHandle, ServerStatus, ServerSystemStatus, ServerDirStatus
<1>4. UNCHANGED <<srv, stack>> =>
        (srv' \in {"GetLine", "Refill"} => stack' # <<>> /\ ~OnLocal') /\ (srv' = "flush" => CanFlush')
  BY <1>1 DEF StacksOK, OnLocal, Last, CanFlush
<1>5. Len(inputStack) \in Nat /\ Len(stack) \in Nat  BY <1>1
<1>a. CASE SendLine
  <2>1. /\ UNCHANGED <<srv, stack>> /\ Handle("SendLine") /\ inputStack # <<>>
        /\ \/ Answer("ProcessLine", Last(inputStack)) /\ UNCHANGED <<inputStack, astray>>
           \/ /\ Answer("PopStream", NoStream) /\ inputStack' = Front(inputStack)
              /\ astray' = (astray \/ Len(inputStack) = 1)
    BY <1>a DEF SendLine
  <2>2. toServer = <<>> /\ toClient' = <<>>  BY <2>1, <1>2, <1>3
  <2>3. ASSUME Connected'
        PROVE  /\ Len(stack') >= 1 /\ Len(inputStack') >= 1
               /\ InStep'
               /\ toServer'[1].type = "ProcessLine" =>
                     toServer'[1].id = inputStack'[Len(inputStack')]
    <3>1. ~astray
      <4>1. ~astray'  BY <2>3 DEF Connected
      <4>. QED  BY <2>1, <4>1
    <3>2. srv \notin {"accept", "exited", "wild"}  BY <2>1, <2>3 DEF Connected
    <3>3. Connected  BY <3>1, <3>2 DEF Connected
    <3>4. Level  BY <1>1, <2>2, <3>3, AtRest
    <3>5. CASE Answer("ProcessLine", Last(inputStack)) /\ UNCHANGED <<inputStack, astray>>
      <4>1. toServer' = <<[type |-> "ProcessLine", id |-> Last(inputStack)]>>
        BY <2>2, <3>5 DEF Answer
      <4>2. ~Popped' /\ ~Pushed'  BY <4>1 DEF Popped, Pushed
      <4>. QED  BY <2>1, <3>4, <3>5, <4>1, <4>2 DEF Level, InStep, Same, Last
    <3>6. CASE /\ Answer("PopStream", NoStream) /\ inputStack' = Front(inputStack)
               /\ astray' = (astray \/ Len(inputStack) = 1)
      <4>1. toServer' = <<[type |-> "PopStream", id |-> NoStream]>>
        BY <2>2, <3>6 DEF Answer
      <4>2. Popped' /\ ~Pushed' /\ toServer'[1].type # "ProcessLine"
        BY <4>1 DEF Popped, Pushed
      <4>3. Len(inputStack) # 1  BY <2>3, <3>6 DEF Connected
      <4>4. /\ Len(inputStack') = Len(inputStack) - 1
            /\ \A i \in 1..(Len(inputStack) - 1) : inputStack'[i] = inputStack[i]
        BY <1>1, <2>1, <3>6, FrontFacts
      <4>5. Len(stack) >= 1 /\ Len(inputStack) = Len(stack) /\ Same(Len(stack))
        BY <3>4 DEF Level
      <4>6. Len(stack') = Len(inputStack') + 1 /\ Same(Len(inputStack))'
        BY <1>5, <2>1, <4>4, <4>5 DEF Same
      <4>. QED  BY <1>5, <2>1, <4>2, <4>3, <4>4, <4>5, <4>6 DEF InStep, Same
    <3>. QED  BY <2>1, <3>5, <3>6
  <2>. QED  BY <1>4, <2>1, <2>2, <2>3 DEF StacksOK
<1>b. CASE NoLine
  BY <1>1, <1>b, LevelTaken DEF NoLine
<1>c. CASE StartLoad
  <2>1. /\ UNCHANGED <<srv, stack, astray>> /\ Handle("StartLoad")
        /\ \/ \E f \in Streams \ Used :
                inputStack' = Append(inputStack, f) /\ Answer("StartLoadResult", f)
           \/ Answer("StartLoadResult", NoStream) /\ UNCHANGED inputStack
    BY <1>c DEF StartLoad
  <2>2. toServer = <<>> /\ toClient' = <<>>  BY <2>1, <1>2, <1>3
  <2>3. ASSUME Connected'
        PROVE  /\ Len(stack') >= 1 /\ Len(inputStack') >= 1
               /\ InStep' /\ toServer'[1].type # "ProcessLine"
    <3>1. Level  BY <1>1, <2>1, <2>2, <2>3, AtRest DEF Connected
    <3>2. CASE \E f \in Streams \ Used :
                 inputStack' = Append(inputStack, f) /\ Answer("StartLoadResult", f)
      <4>. PICK f \in Streams : inputStack' = Append(inputStack, f) /\ Answer("StartLoadResult", f)
        BY <3>2
      <4>1. toServer' = <<[type |-> "StartLoadResult", id |-> f]>>  BY <2>2 DEF Answer
      <4>2. Pushed' /\ ~Popped' /\ toServer'[1].type # "ProcessLine" /\ toServer'[1].id = f
        BY <4>1, ClientServerAssumption DEF Popped, Pushed
      <4>3. /\ Len(inputStack') = Len(inputStack) + 1 /\ inputStack'[Len(inputStack) + 1] = f
            /\ \A i \in 1..Len(inputStack) : inputStack'[i] = inputStack[i]
        BY <1>1, AppendFacts
      <4>. QED  BY <1>5, <2>1, <3>1, <4>2, <4>3 DEF Level, InStep, Same
    <3>3. CASE Answer("StartLoadResult", NoStream) /\ UNCHANGED inputStack
      <4>1. toServer' = <<[type |-> "StartLoadResult", id |-> NoStream]>>  BY <2>2, <3>3 DEF Answer
      <4>2. ~Pushed' /\ ~Popped' /\ toServer'[1].type # "ProcessLine"
        BY <4>1 DEF Popped, Pushed
      <4>. QED  BY <2>1, <3>1, <3>3, <4>2 DEF Level, InStep, Same
    <3>. QED  BY <2>1, <3>2, <3>3
  <2>. QED  BY <1>4, <2>1, <2>2, <2>3 DEF StacksOK
<1>d. CASE PopStream
  <2>1. /\ Handle("PopStream") /\ UNCHANGED <<srv, stack, toServer, astray>>
        /\ inputStack' = IF Len(inputStack) > 1 THEN Front(inputStack) ELSE inputStack
    BY <1>d DEF PopStream
  <2>2. CASE UNCHANGED inputStack  BY <1>1, <2>1, <2>2, LevelTaken
  <2>3. CASE ~Connected
    <3>1. ~Connected'  BY <2>1, <2>3 DEF Connected
    <3>. QED  BY <1>4, <2>1, <3>1 DEF StacksOK
  <2>4. Connected => Len(inputStack) = 1
    <3>1. 1 \in 1..Len(toClient) /\ toClient[1] = "PopStream"
      BY <1>1, <2>1, TailFacts DEF Handle
    <3>. QED  BY <1>1, <3>1 DEF StacksOK
  <2>5. Len(inputStack) = 1 => UNCHANGED inputStack  BY <2>1
  <2>. QED  BY <2>2, <2>3, <2>4, <2>5
<1>e. CASE GoAway
  BY <1>1, <1>e, LevelTaken DEF GoAway
<1>f. CASE \E r \in Requests \cup Tells : DoFile(r)
  <2>. PICK r \in Requests \cup Tells : DoFile(r)  BY <1>f
  <2>1. /\ Handle(r) /\ UNCHANGED <<srv, stack, inputStack, astray>>
        /\ \/ UNCHANGED toServer
           \/ \E t \in ClientReply(r) : Answer(t, NoStream)
    BY DEF DoFile
  <2>2. CASE UNCHANGED toServer  BY <1>1, <2>1, <2>2, LevelTaken
  <2>3. CASE \E t \in ClientReply(r) : Answer(t, NoStream)
    <3>1. r \in Requests  BY <2>3, TellsHaveNoReply
    <3>2. toServer = <<>> /\ toClient' = <<>>  BY <2>1, <3>1, <1>2, <1>3
    <3>. PICK t \in ClientReply(r) : Answer(t, NoStream)  BY <2>3
    <3>3. t \notin {"ProcessLine", "PopStream", "StartLoadResult"}  BY <3>1, TablesAgree
    <3>4. toServer' = <<[type |-> t, id |-> NoStream]>>  BY <3>2 DEF Answer
    <3>5. ~Popped' /\ ~Pushed' /\ toServer'[1].type # "ProcessLine"
      BY <3>3, <3>4 DEF Popped, Pushed
    <3>6. ASSUME Connected'
          PROVE  Len(stack') >= 1 /\ Len(inputStack') >= 1 /\ InStep'
      <4>1. Level  BY <1>1, <2>1, <3>2, <3>6, AtRest DEF Connected
      <4>. QED  BY <2>1, <3>5, <4>1 DEF Level, InStep, Same
    <3>. QED  BY <1>4, <2>1, <3>2, <3>5, <3>6 DEF StacksOK
  <2>. QED  BY <2>1, <2>2, <2>3
<1>. QED  BY <1>a, <1>b, <1>c, <1>d, <1>e, <1>f DEF ClientNext

-----------------------------------------------------------------------------
(* Theorems *)

LEMMA NextInvariant == IInv /\ [Next]_vars => IInv'
<1>. SUFFICES ASSUME IInv, [Next]_vars PROVE IInv'
  OBVIOUS
<1>1. CASE ServerNext
  BY <1>1, ServerTyped, ServerTurns, ServerStacks DEF IInv
<1>2. CASE ClientNext
  BY <1>2, ClientTyped, ClientTurns, ClientStacks DEF IInv
<1>3. CASE UNCHANGED vars
  BY <1>3 DEF vars, IInv, ClientServerTypeOK, TurnsOK, Asked, ReplyUnderWay, Silent, Sent,
     ServerExpects, StacksOK, OnLocal, Last, CanFlush, Connected, InStep, Popped, Pushed, Same
<1>. QED  BY <1>1, <1>2, <1>3 DEF Next

\* The connection keeps its types: every message is one of the protocol, in
\* both directions (ForthMessages.h).
THEOREM ClientServerTypeCorrect == Spec => []ClientServerTypeOK
<1>1. IInv => ClientServerTypeOK  BY DEF IInv
<1>. QED  BY InitInvariant, NextInvariant, <1>1, PTL DEF Spec

\* Every answer is one to the question the server waits with, whatever is asked
\* in whatever order (Server.cpp, Client.cpp).
THEOREM EveryAnswerFits == Spec => []AnswersFit
<1>1. IInv => AnswersFit
  <2>. SUFFICES ASSUME IInv, NEW i \in DOMAIN toServer
                PROVE  i = 1 /\ srv \in Waits /\ toServer[i].type \in ServerExpects(srv)
    BY DEF AnswersFit
  <2>1. toServer # <<>>
    BY DEF IInv, ClientServerTypeOK
  <2>2. srv \in Waits /\ ReplyUnderWay
    BY <2>1 DEF IInv, TurnsOK, Asked, Silent
  <2>3. i = 1
    BY <2>2 DEF IInv, ClientServerTypeOK, ReplyUnderWay
  <2>. QED  BY <2>2, <2>3 DEF ReplyUnderWay
<1>. QED  BY InitInvariant, NextInvariant, <1>1, PTL DEF Spec

\* The two stacks of files stay in step: a line that arrives is one of the
\* stream that the server reads (Server.cpp:474, Client.cpp:234).
THEOREM EveryLineIsOwn == Spec => []LinesAreOwn
<1>1. IInv => LinesAreOwn
  <2>. SUFFICES ASSUME IInv, ~astray, NEW i \in DOMAIN toServer, toServer[i].type = "ProcessLine"
                PROVE  stack # <<>> /\ ~OnLocal /\ toServer[i].id = Last(stack).id
    BY DEF LinesAreOwn
  <2>1. toServer # <<>>  BY DEF IInv, ClientServerTypeOK
  <2>2. srv \in Waits /\ ReplyUnderWay
    BY <2>1 DEF IInv, TurnsOK, Asked, Silent
  <2>3. i = 1  BY <2>2 DEF IInv, ClientServerTypeOK, ReplyUnderWay
  <2>4. srv \in {"GetLine", "Refill"}  BY <2>2, <2>3, AnswerKinds DEF ReplyUnderWay
  <2>5. stack # <<>> /\ ~OnLocal /\ Connected  BY <2>4 DEF IInv, StacksOK, Connected
  <2>6. ~Popped /\ ~Pushed  BY <2>3 DEF Popped, Pushed
  <2>7. Len(stack) >= 1 /\ Len(inputStack) = Len(stack) /\ Same(Len(stack))
        /\ toServer[1].id = inputStack[Len(inputStack)]
    BY <2>1, <2>3, <2>5, <2>6 DEF IInv, StacksOK, InStep
  <2>8. Len(stack) \in 1..Len(stack)  BY <2>7 DEF IInv, ClientServerTypeOK
  <2>. QED  BY <2>3, <2>5, <2>7, <2>8 DEF Same, Last
<1>. QED  BY InitInvariant, NextInvariant, <1>1, PTL DEF Spec

=============================================================================
