---------------------------- MODULE ClientServer ----------------------------
(***************************************************************************)
(* A Forth server and its clients (ForthLib/Server.cpp, Client.cpp).  The  *)
(* server interprets source that lies at the client: it asks for a line    *)
(* (SendLine), for a file to be opened (StartLoad) and for everything else *)
(* that concerns files, and waits for the answer.  Each side has a stack   *)
(* of the files being loaded, and nothing but the messages keeps the two   *)
(* in step.                                                                *)
(*                                                                         *)
(* Clients are served one after the other.  What the source says is left   *)
(* to chance: between a line and the next any of the words below may be    *)
(* executed.  A line is the stream it comes from.                          *)
(***************************************************************************)
EXTENDS Naturals, Sequences

CONSTANTS
    Streams,      \* names for the files a client has open to load from
    Console,      \* the name of its standard input
    NoStream,     \* the result of a load that failed
    MaxLocals,    \* bound: files of the server being run above one of the client
    MaxQueue      \* bound: messages without an answer the server may be ahead

ASSUME ClientServerAssumption ==
    /\ Console \notin Streams
    /\ NoStream \notin Streams \cup {Console}
    /\ MaxLocals \in Nat
    /\ MaxQueue \in Nat

VARIABLES
    srv,          \* where the server is: in accept, Run, a line, or what it waits for
    stack,        \* mpInput: the client's streams, each with the server's files above it
    first,        \* nothing is left on mpInput from an earlier client
    toClient,     \* the socket, from server to client
    toServer,     \* the socket, from client to server
    client,       \* the loop of the client: "in", "gone", or lost in "wild" memory
    inputStack,   \* the client's inputStack
    astray        \* history: something was done that the protocol does not provide for

vars == <<srv, stack, first, toClient, toServer, client, inputStack, astray>>

-----------------------------------------------------------------------------
(* Requests and their answers *)

\* The requests about files, as the client answers them: with an int, with a
\* handle, with a type of their own, or not at all.
ClientStatus ==
    {"FileClose", "FileSetPosition", "FileWrite", "FileGetChar", "FileCheckEOF",
     "FileGetLength", "FileCheckExists", "FileGetPosition"}
ClientSystemStatus ==
    {"FilePutString", "FilePutChar", "FileFlush", "RemoveFile", "DupHandle",
     "DupHandle2", "FileToHandle", "RenameFile", "RunSystem", "SetWorkDir"}
ClientDirStatus == {"MakeDir", "RemoveDir", "CloseDir"}
ClientHandle == {"FileOpen", "GetStdIn", "GetStdOut", "GetStdErr", "OpenDir"}
\* Mutation: rewinding a directory is answered as the rest of its kind.
ClientReplyRewind(r) ==
    CASE r \in ClientStatus \cup ClientSystemStatus \cup ClientDirStatus \cup {"RewindDir"} ->
             {"FileOpResult"}
      [] r \in ClientHandle -> {"HandleResult"}
      [] r = "FileRead" -> {"FileReadResult"}
      [] r = "FileGetString" -> {"FileGetStringResult"}
      [] r = "ReadDir" -> {"ReadDirResult"}
      [] r = "GetChar" -> {"ProcessChar"}
      [] OTHER -> {}
ClientReply(r) ==
    CASE r \in ClientStatus \cup ClientSystemStatus \cup ClientDirStatus -> {"FileOpResult"}
      [] r \in ClientHandle -> {"HandleResult"}
      [] r = "FileRead" -> {"FileReadResult"}
      [] r = "FileGetString" -> {"FileGetStringResult"}
      [] r = "ReadDir" -> {"ReadDirResult"}
      [] r = "GetChar" -> {"ProcessChar"}
      [] OTHER -> {}

\* The same requests as the server sends them, with the answers it expects.
ServerHandle == {"FileOpen", "GetStdIn", "GetStdOut", "GetStdErr", "OpenDir"}
ServerStatus ==
    {"FileClose", "FileSetPosition", "FileWrite", "FileGetChar", "FilePutChar",
     "FileCheckEOF", "FileGetLength", "FileCheckExists", "FileGetPosition"}
ServerSystemStatus ==
    {"FilePutString", "RemoveFile", "DupHandle", "DupHandle2", "FileToHandle",
     "FileFlush", "RenameFile", "RunSystem", "SetWorkDir"}
ServerDirStatus == {"MakeDir", "RemoveDir", "CloseDir"}
Requests ==
    ServerHandle \cup ServerStatus \cup ServerSystemStatus \cup ServerDirStatus
    \cup {"FileRead", "FileGetString", "ReadDir", "GetWorkDir", "GetChar"}
ServerExpects(r) ==
    CASE r \in {"GetLine", "Refill"} -> {"ProcessLine", "PopStream"}
      [] r \in {"StartLoad", "Autoload"} -> {"StartLoadResult"}
      [] r \in ServerHandle -> {"HandleResult"}
      [] r = "FileRead" -> {"FileReadResult"}
      [] r \in {"FileGetString", "GetWorkDir"} -> {"FileGetStringResult"}
      [] r = "ReadDir" -> {"ReadDirResult"}
      [] r = "GetChar" -> {"ProcessChar"}
      [] OTHER -> {"FileOpResult"}

Answers ==
    {"ProcessLine", "ProcessChar", "PopStream", "HandleResult", "FileOpResult",
     "FileReadResult", "FileGetStringResult", "ReadDirResult", "StartLoadResult"}

\* What is sent without waiting.
Tells == {"DisplayText", "RewindDir"}
Waits == Requests \cup {"GetLine", "Refill", "StartLoad", "Autoload"}
\* The request the client sees while the server waits for w.
Sent(w) == CASE w \in {"GetLine", "Refill"} -> "SendLine"
             [] w = "Autoload" -> "StartLoad"
             [] OTHER -> w

-----------------------------------------------------------------------------
(* State *)

Stream(s) == [id |-> s, locals |-> 0]
Front(s) == SubSeq(s, 1, Len(s) - 1)
Last(s) == s[Len(s)]
Used == {inputStack[i] : i \in DOMAIN inputStack} \cup {stack[i].id : i \in DOMAIN stack}

Init ==
    /\ srv = "accept" /\ stack = <<>> /\ first = TRUE
    /\ toClient = <<>> /\ toServer = <<>>
    /\ client = "gone" /\ inputStack = <<>>
    /\ astray = FALSE

Send(m) == toClient' = Append(toClient, m)
Ask(w) == Send(Sent(w)) /\ srv' = w
Room == Len(toClient) < MaxQueue

\* ServerShell::PopInputStream: the client is told when a file of the server
\* ends, and not when one of its own does; the last stream of all stays.
OnLocal == stack # <<>> /\ Last(stack).locals > 0
IsBottom == first /\ Len(stack) = 1 /\ ~OnLocal
Pop ==
    IF OnLocal THEN [stack EXCEPT ![Len(stack)].locals = @ - 1]
    ELSE IF stack = <<>> \/ IsBottom THEN stack ELSE Front(stack)
\* Mutation: the client is told of every stream that ends.
PopInputStreamTells ==
    /\ Room
    /\ stack' = Pop
    /\ toClient' = Append(toClient, "PopStream")
PopInputStream ==
    /\ OnLocal => Room
    /\ stack' = Pop
    /\ toClient' = IF OnLocal THEN Append(toClient, "PopStream") ELSE toClient

\* Run ends without a message, as when there is no stream left to read from.
EndSession == srv' = "accept" /\ first' = FALSE

-----------------------------------------------------------------------------
(* The server: connections and lines *)

\* ProcessConnection and the start of Run.  The client before has read what
\* was sent to it, as its socket has nothing to do with the next one.
Connect ==
    /\ srv = "accept"
    /\ client = "in" => toClient = <<>>
    /\ \/ srv' = "top" /\ toClient' = <<>>
       \/ srv' = "Autoload" /\ toClient' = <<"StartLoad">>
    /\ client' = "in" /\ inputStack' = <<Console>> /\ stack' = <<Stream(Console)>>
    /\ toServer' = <<>> /\ astray' = FALSE
    /\ UNCHANGED first

\* GetLine at the top of Run's loop: a line of the client is asked for; one of
\* a server's file is read at once, or there is none.  The streams of earlier
\* clients refer to pipes that are gone.
AskLine ==
    /\ srv = "top" /\ stack # <<>> /\ ~OnLocal
    /\ Ask("GetLine")
    /\ UNCHANGED <<stack, first, toServer, client, inputStack, astray>>

LocalLine ==
    /\ srv = "top" /\ OnLocal
    /\ srv' = "line"
    /\ \/ UNCHANGED <<stack, toClient, astray>>
       \/ PopInputStream /\ astray' = (astray \/ Len(stack) > 1)
    /\ UNCHANGED <<first, toServer, client, inputStack>>

StaleLine ==
    /\ srv = "top" /\ stack = <<>>
    /\ srv' = "wild"
    /\ UNCHANGED <<stack, first, toClient, toServer, client, inputStack, astray>>

Reply == Head(toServer)
Receive == toServer # <<>> /\ toServer' = Tail(toServer)

\* The answer to GetLine: a line, or the end of the stream, after which the
\* rest of the line that loaded it is interpreted.
GotLine ==
    /\ srv = "GetLine" /\ Receive
    /\ \/ /\ Reply.type = "ProcessLine"
          /\ srv' = "line"
          /\ UNCHANGED <<stack, first, toClient>>
       \/ /\ Reply.type # "ProcessLine"
          /\ IF IsBottom THEN EndSession ELSE srv' = "line" /\ UNCHANGED first
          /\ PopInputStream
    /\ UNCHANGED <<client, inputStack, astray>>

\* The end of a line, also by an error: the streams stay.
EndLine ==
    /\ srv = "line"
    /\ srv' = "top"
    /\ UNCHANGED <<stack, first, toClient, toServer, client, inputStack, astray>>

\* Mutation: a shutdown exits at once.
ByeSilent(next) ==
    /\ srv = "line"
    /\ srv' = next /\ first' = FALSE
    /\ IF next = "accept" THEN Send("GoAway") ELSE UNCHANGED toClient
    /\ UNCHANGED <<stack, toServer, client, inputStack, astray>>
\* bye or shutdown.
Bye(next) ==
    /\ srv = "line"
    /\ srv' = next /\ first' = FALSE
    /\ Send("GoAway")
    /\ UNCHANGED <<stack, toServer, client, inputStack, astray>>

\* A fatal error: Run ends and the client is not told.
FatalError ==
    /\ srv = "line"
    /\ EndSession
    /\ astray' = TRUE
    /\ UNCHANGED <<stack, toClient, toServer, client, inputStack>>

-----------------------------------------------------------------------------
(* The server: what a line may do *)

\* ServerShell::PushInputFile, of $load, include and the like ...
PushInputFile ==
    /\ srv = "line" /\ Streams \ Used # {}
    /\ Ask("StartLoad")
    /\ UNCHANGED <<stack, first, toServer, client, inputStack, astray>>

\* ... and when the client has tried to open the file.
Loaded ==
    /\ srv \in {"StartLoad", "Autoload"} /\ Receive
    /\ srv' = IF srv = "Autoload" THEN "top" ELSE "line"
    /\ stack' = IF Reply.type = "StartLoadResult" /\ Reply.id # NoStream
                THEN Append(stack, Stream(Reply.id)) ELSE stack
    /\ UNCHANGED <<first, toClient, client, inputStack, astray>>

\* loaddone pops without asking anybody.
LoadDone ==
    /\ srv = "line"
    /\ PopInputStream
    /\ astray' = (astray \/ (Pop # stack /\ ~(OnLocal /\ Len(stack) = 1)))
    /\ UNCHANGED <<srv, first, toServer, client, inputStack>>

\* $runFile opens a file at the server and runs it to its end.
RunFile ==
    /\ srv = "line" /\ stack # <<>> /\ Last(stack).locals < MaxLocals
    /\ srv' = "top"
    /\ stack' = [stack EXCEPT ![Len(stack)].locals = @ + 1]
    /\ UNCHANGED <<first, toClient, toServer, client, inputStack, astray>>

\* refill asks for another line in the middle of a line; at the end of a
\* stream it returns false and pops nothing.
AskRefill ==
    /\ srv = "line" /\ ~OnLocal
    /\ IF stack = <<>> THEN srv' = "wild" /\ UNCHANGED toClient ELSE Ask("Refill")
    /\ UNCHANGED <<stack, first, toServer, client, inputStack, astray>>

Refilled ==
    /\ srv = "Refill" /\ Receive
    /\ srv' = "line"
    /\ astray' = (astray \/ Reply.type = "PopStream")
    /\ UNCHANGED <<stack, first, toClient, client, inputStack>>

\* An exception whose handler was set up when fewer streams were open: those
\* above are forced empty and popped before anything else is executed.
CanFlush == stack # <<>> /\ (Len(stack) > 1 \/ OnLocal)
Throw ==
    /\ srv = "line" /\ CanFlush
    /\ srv' = "flush"
    /\ UNCHANGED <<stack, first, toClient, toServer, client, inputStack, astray>>

FlushToDepth ==
    /\ srv = "flush"
    /\ PopInputStream
    /\ srv' \in {"line"} \cup (IF CanFlush' THEN {"flush"} ELSE {})
    /\ astray' = (astray \/ Len(stack) > 1)
    /\ UNCHANGED <<first, toServer, client, inputStack>>

\* The words on files, directories and the system, and key.
AskFile(r) ==
    /\ srv = "line"
    /\ Ask(r)
    /\ astray' = (astray \/ r = "GetWorkDir")
    /\ UNCHANGED <<stack, first, toServer, client, inputStack>>

Answered ==
    /\ srv \in Requests /\ Receive
    /\ srv' = "line"
    /\ UNCHANGED <<stack, first, toClient, client, inputStack, astray>>

\* Output, and rewinding a directory.
Tell(m) ==
    /\ srv = "line" /\ Room
    /\ Send(m)
    /\ UNCHANGED <<srv, stack, first, toServer, client, inputStack, astray>>

-----------------------------------------------------------------------------
(* The client: one step of its loop per message *)

Handle(m) == client = "in" /\ toClient # <<>> /\ Head(toClient) = m /\ toClient' = Tail(toClient)
Answer(type, id) == toServer' = Append(toServer, [type |-> type, id |-> id])

\* A line of the stream on top, or the end of that stream, which closes it.
\* Behind the end of the console there is no stream to read from.
SendLine ==
    /\ Handle("SendLine") /\ inputStack # <<>>
    /\ \/ /\ Answer("ProcessLine", Last(inputStack))
          /\ UNCHANGED <<inputStack, astray>>
       \/ /\ Answer("PopStream", NoStream)
          /\ inputStack' = Front(inputStack)
          /\ astray' = (astray \/ Len(inputStack) = 1)
    /\ UNCHANGED <<srv, stack, first, client>>

NoLine ==
    /\ Handle("SendLine") /\ inputStack = <<>>
    /\ client' = "wild"
    /\ UNCHANGED <<srv, stack, first, toServer, inputStack, astray>>

StartLoad ==
    /\ Handle("StartLoad")
    /\ \/ \E f \in Streams \ Used :
             inputStack' = Append(inputStack, f) /\ Answer("StartLoadResult", f)
       \/ Answer("StartLoadResult", NoStream) /\ UNCHANGED inputStack
    /\ UNCHANGED <<srv, stack, first, client, astray>>

PopStream ==
    /\ Handle("PopStream")
    /\ inputStack' = IF Len(inputStack) > 1 THEN Front(inputStack) ELSE inputStack
    /\ UNCHANGED <<srv, stack, first, toServer, client, astray>>

GoAway ==
    /\ Handle("GoAway")
    /\ client' = "gone"
    /\ UNCHANGED <<srv, stack, first, toServer, inputStack, astray>>

DoFile(r) ==
    /\ Handle(r)
    /\ \/ ClientReply(r) = {} /\ UNCHANGED toServer
       \/ \E t \in ClientReply(r) : Answer(t, NoStream)
    /\ UNCHANGED <<srv, stack, first, client, inputStack, astray>>

-----------------------------------------------------------------------------
(* Specification *)

ServerNext ==
    \/ Connect
    \/ AskLine \/ LocalLine \/ StaleLine \/ GotLine \/ EndLine
    \/ \E next \in {"accept", "exited"} : Bye(next)
    \/ FatalError
    \/ PushInputFile \/ Loaded \/ LoadDone \/ RunFile
    \/ AskRefill \/ Refilled \/ Throw \/ FlushToDepth
    \/ \E r \in Requests : AskFile(r)
    \/ Answered
    \/ \E m \in Tells : Tell(m)

ClientNext ==
    \/ SendLine \/ NoLine \/ StartLoad \/ PopStream \/ GoAway
    \/ \E r \in Requests \cup Tells : DoFile(r)

Next == ServerNext \/ ClientNext

Spec == Init /\ [][Next]_vars

\* Neither process stops, files end, and a user who can say bye again and
\* again says so one day.
FairSpec ==
    /\ Spec
    /\ WF_vars(ServerNext) /\ WF_vars(ClientNext)
    /\ SF_vars(\E next \in {"accept", "exited"} : Bye(next))

-----------------------------------------------------------------------------
(* Properties *)

ClientServerTypeOK ==
    /\ srv \in {"accept", "top", "line", "flush", "wild", "exited"} \cup Waits
    /\ stack \in Seq([id : Streams \cup {Console}, locals : Nat])
    /\ first \in BOOLEAN
    /\ toClient \in Seq(Requests \cup Tells \cup {"SendLine", "StartLoad", "PopStream", "GoAway"})
    /\ toServer \in Seq([type : Answers, id : Streams \cup {Console, NoStream}])
    /\ client \in {"in", "gone", "wild"}
    /\ inputStack \in Seq(Streams \cup {Console})
    /\ astray \in BOOLEAN

\* The line that arrives is one of the stream that the server reads from:
\* files nest at the client as they do at the server, whatever fails to load
\* and whatever else is asked for in between (Server.cpp:474, Client.cpp:234).
LinesAreOwn ==
    ~astray => \A i \in DOMAIN toServer :
        toServer[i].type = "ProcessLine" =>
            stack # <<>> /\ ~OnLocal /\ toServer[i].id = Last(stack).id

\* Every answer is one to the question that the server waits with, of a type
\* it knows how to read; none is left over for the next question.
AnswersFit ==
    \A i \in DOMAIN toServer :
        i = 1 /\ srv \in Waits /\ toServer[i].type \in ServerExpects(srv)

\* Whoever connects gets away again: no question is left without an answer and
\* no session without an end (GoAway), unless the session has gone astray.
ClientLeaves == client = "in" ~> client = "gone" \/ astray

=============================================================================
