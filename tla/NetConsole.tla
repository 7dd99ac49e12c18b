------------------------------- MODULE NetConsole -------------------------------
(***************************************************************************)
(* The network console (console/net_console.c): one thread that listens,   *)
(* accepts one client at a time, takes what a read returns for a command   *)
(* line and writes the reply.  The command line itself is that of Console. *)
(*                                                                         *)
(* TCP is external.  It keeps what a client sends in order, but may hand   *)
(* it over in other portions; a client may close its connection, reset it  *)
(* or vanish without a word, also while it waits to be accepted.           *)
(*                                                                         *)
(* A polite client waits for a reply before it sends the next request, and *)
(* its request, being short, arrives in one piece.  The others type what   *)
(* they like.                                                              *)
(***************************************************************************)
EXTENDS Console, SequencesExt

CONSTANTS
  Clients,
  Polite,         \* the polite clients
  Requests,       \* what a polite client asks for: a name and arguments
  Typed,          \* the symbols other clients type
  ReadSize,       \* sizeof(cmd): symbols in one read
  Backlog,        \* connections that wait to be accepted
  Settings,       \* the settings that are considered
  NULL

(***************************************************************************)
(* A setting: the adapter, and bounds on what happens in a behaviour.      *)
(***************************************************************************)
Setting ==
  [platform : {"esp32", "emulator"},
   sessions : Nat,      \* connections made
   requests : Nat,      \* requests in a session of a polite client
   typed : Nat,         \* symbols typed by the other clients
   addresses : Nat,     \* addresses the device obtains
   restarts : Nat]      \* restarts, and aborts that the console does not make

ASSUME NetConsoleAssumption ==
  /\ Polite \subseteq Clients /\ NULL \notin Clients
  /\ ReadSize \in Nat \ {0} /\ Backlog \in Nat \ {0}
  /\ Settings \subseteq Setting

Words == Commands \cup {"x"}
Symbols == Words \cup {"=", ";", "nl"}

\* A request is a name and arguments, and its line fits into one read.
ASSUME RequestAssumption ==
  /\ Requests \subseteq [name : Words, args : Seq(Words)]
  /\ \A r \in Requests : 2 * Len(r.args) + 2 <= ReadSize
  /\ Typed \subseteq Symbols

VARIABLES
  setting,        \* the setting, which does not change
  peer,           \* the client being served, or NULL
  waiting,        \* the clients to be accepted, in order
  link,           \* link[c]: "none", "open", "closed" (by the client, in
                  \* order), "vanished" or "reset"
  stream,         \* stream[c]: what client c has sent and nobody has read
  asked,          \* asked[c]: the requests of polite client c in this session
  replies,        \* replies[c]: the replies it has had, each a list of writes
  partial,        \* the writes of a reply to a polite client that is not ended
  typed,          \* symbols typed so far
  sessions,       \* connections made so far
  sys             \* "up", "abort" or "killed" (by SIGPIPE)

clients == <<link, stream, asked>>
received == <<replies, partial>>
bounds == <<typed, sessions>>
vars == <<setting, console, peer, waiting, clients, received, bounds, sys>>

\* Nothing has been sent to the console, and nobody is connected.
Idle ==
  /\ pc = "off"
  /\ text = <<>> /\ line = <<>> /\ save = 1 /\ name = <<>> /\ args = <<>> /\ out = <<>>
  /\ peer = NULL /\ waiting = <<>>
  /\ link = [c \in Clients |-> "none"]
  /\ stream = [c \in Clients |-> <<>>]
  /\ asked = [c \in Clients |-> <<>>]
  /\ replies = [c \in Clients |-> <<>>]
  /\ partial = <<>>
  /\ sys = "up"

\* The same after a restart of the machine.
BackToIdle ==
  /\ pc' = "off"
  /\ text' = <<>> /\ line' = <<>> /\ save' = 1 /\ name' = <<>> /\ args' = <<>> /\ out' = <<>>
  /\ peer' = NULL /\ waiting' = <<>>
  /\ link' = [c \in Clients |-> "none"]
  /\ stream' = [c \in Clients |-> <<>>]
  /\ asked' = [c \in Clients |-> <<>>]
  /\ replies' = [c \in Clients |-> <<>>]
  /\ partial' = <<>>
  /\ sys' = "up"

Init ==
  /\ setting \in Settings
  /\ Idle
  /\ typed = 0 /\ sessions = 0

\* The console thread goes on.
Move(from, to) ==
  /\ sys = "up" /\ pc = from /\ pc' = to
  /\ UNCHANGED <<setting, bounds, sys>>

\* The same, outside of Console_RunCommand.
Go(from, to) == Move(from, to) /\ UNCHANGED <<parsed, out>>

\* Where the listening socket exists.
Listening == {"accept", "read", "parse", "args", "reply", "write", "close"}

-------------------------------------------------------------------------------
(* Console_NetConsoleMain                                                  *)

\* socket, bind and listen, in this order.
OpenSocket ==
  /\ \/ Go("socket", "bind") \/ Go("bind", "listen") \/ Go("listen", "accept")
  /\ UNCHANGED <<peer, waiting, clients, received>>

\* One of them fails, or accept does: the main returns, and the connections
\* that wait go with the socket.
SocketFails ==
  /\ \E step \in {"socket", "bind", "listen", "accept"} : Go(step, "return")
  /\ link' = [c \in Clients |-> IF link[c] = "none" THEN "none" ELSE "reset"]
  /\ waiting' = <<>>
  /\ UNCHANGED <<peer, stream, asked, received>>

\* Service_Main gives a termination semaphore that this service does not have,
\* and the assertion of Semaphore_Give fails.
MainReturns ==
  /\ sys = "up" /\ pc = "return" /\ sys' = "abort"
  /\ UNCHANGED <<setting, console, peer, waiting, clients, received, bounds>>

Accept ==
  /\ Go("accept", "read")
  /\ waiting # <<>>
  /\ peer' = Head(waiting) /\ waiting' = Tail(waiting)
  /\ UNCHANGED <<clients, received>>

\* shutdown and close: what the client sent and nobody read is lost.
Close ==
  /\ Go("close", "accept")
  /\ peer' = NULL
  /\ link' = [link EXCEPT ![peer] = "none"]
  /\ stream' = [stream EXCEPT ![peer] = <<>>]
  /\ asked' = [asked EXCEPT ![peer] = <<>>]
  /\ replies' = [replies EXCEPT ![peer] = <<>>]
  /\ partial' = <<>>
  /\ UNCHANGED waiting

-------------------------------------------------------------------------------
(* Console_GetCommand                                                      *)

\* How many symbols a read returns: all of a polite client's request, any
\* portion of what the others typed.
ReadLengths(c) ==
  LET available == IF Len(stream[c]) <= ReadSize THEN Len(stream[c]) ELSE ReadSize
  IN IF c \in Polite THEN {available} \ {0} ELSE 1 .. available

\* The last symbol of a text without its last character.  What is left of a
\* name is no name; of other characters some are left or none.
Shortened(s) ==
  CASE s \in Commands -> {<<"x">>}
    [] s = "x" -> {<<"x">>, <<>>}
    [] OTHER -> {<<>>}

\* Mutant of Terminated: the last two characters are dropped, for "\r\n".
TerminatedTwo(t) ==
  IF Len(t) = 1 THEN {<<>>} ELSE {Front(Front(t)) \o s : s \in Shortened(Last(Front(t)))}

\* cmd[length - 1] = '\0', whatever that character was.
Terminated(t) == {Front(t) \o s : s \in Shortened(Last(t))}

\* The read returns text t, and rest remains in the stream.
ReadText(t, rest) ==
  /\ Move("read", "parse")
  /\ text' \in Terminated(t) /\ line' = text'
  /\ stream' = [stream EXCEPT ![peer] = rest]
  /\ UNCHANGED <<save, name, args, out, peer, waiting, link, asked, received>>

ReadPortion ==
  \E n \in ReadLengths(peer) :
    ReadText(SubSeq(stream[peer], 1, n), SubSeq(stream[peer], n + 1, Len(stream[peer])))

\* The portion ends within a name, and neither part is a name.
ReadSplitsName ==
  /\ peer \notin Polite
  /\ \E n \in ReadLengths(peer) :
       /\ stream[peer][n] \in Commands
       /\ ReadText(SubSeq(stream[peer], 1, n - 1) \o <<"x">>,
                   <<"x">> \o SubSeq(stream[peer], n + 1, Len(stream[peer])))

Read == pc = "read" /\ (ReadPortion \/ ReadSplitsName)

\* The read returns 0 at the end of what the client sent, -1 on an error.
ReadEnds ==
  /\ \/ pc = "read" /\ link[peer] = "closed" /\ stream[peer] = <<>>
     \/ pc = "read" /\ link[peer] = "reset"
  /\ Go("read", "close")
  /\ UNCHANGED <<peer, waiting, clients, received>>

RunStep ==
  /\ sys = "up" /\ ConsoleStep
  /\ UNCHANGED <<setting, peer, waiting, clients, received, bounds, sys>>

-------------------------------------------------------------------------------
(* Console_WriteFd, whose result nobody looks at                           *)

\* Control after a write: the next one, or the next read.
Written ==
  /\ sys = "up" /\ pc = "write" /\ UNCHANGED <<setting, bounds, sys>>
  /\ out' = Tail(out)
  /\ pc' = IF Len(out) = 1 THEN "read" ELSE "write"
  /\ UNCHANGED <<parsed, peer, waiting, stream, asked>>

\* The write reaches a polite client, whose reply ends with the last one.
Delivered ==
  IF Len(out) = 1
  THEN /\ replies' = [replies EXCEPT ![peer] = Append(@, Append(partial, Head(out)))]
       /\ partial' = <<>>
  ELSE partial' = Append(partial, Head(out)) /\ UNCHANGED replies

WriteOpen ==
  /\ Written /\ link[peer] = "open"
  /\ UNCHANGED link
  /\ IF peer \in Polite THEN Delivered ELSE UNCHANGED received

\* Nobody reads it.  A closed connection answers with a reset, sooner or later.
WriteLost ==
  /\ Written /\ link[peer] \in {"closed", "vanished"}
  /\ \/ link[peer] = "closed" /\ link' = [link EXCEPT ![peer] = "reset"]
     \/ UNCHANGED link
  /\ UNCHANGED received

\* The write fails.  On the device that is all; a POSIX process gets ECONNRESET
\* from the first call after the reset, and otherwise SIGPIPE, which the emulator
\* does not handle.
WriteReset ==
  /\ sys = "up" /\ pc = "write" /\ link[peer] = "reset"
  /\ \/ Written /\ UNCHANGED <<link, received>>
     \/ /\ setting.platform = "emulator" /\ sys' = "killed"
        /\ UNCHANGED <<setting, console, peer, waiting, clients, received, bounds>>

-------------------------------------------------------------------------------
(* The clients and TCP                                                     *)

\* Something the console does not see happens to client c.
Elsewhere == sys = "up" /\ UNCHANGED <<setting, console, peer, received, sys>>

Connect(c) ==
  /\ Elsewhere /\ pc \in Listening
  /\ link[c] = "none" /\ Len(waiting) < Backlog /\ sessions < setting.sessions
  /\ link' = [link EXCEPT ![c] = "open"]
  /\ waiting' = Append(waiting, c)
  /\ sessions' = sessions + 1
  /\ UNCHANGED <<stream, asked, typed>>

\* The text of a request: a name, then its arguments, then the end of the line.
LineOf(r) ==
  LET last == 2 * Len(r.args) + 2
  IN [i \in 1 .. last |->
        CASE i = 1 -> r.name
          [] i = last -> "nl"
          [] OTHER -> IF i = 2 THEN "=" ELSE IF i % 2 = 0 THEN ";" ELSE r.args[(i - 1) \div 2]]

\* A polite client that has had all its replies makes a request.
Ask(c) ==
  /\ Elsewhere /\ link[c] = "open"
  /\ Len(asked[c]) = Len(replies[c]) /\ Len(asked[c]) < setting.requests
  /\ \E r \in Requests :
       /\ asked' = [asked EXCEPT ![c] = Append(@, r)]
       /\ stream' = [stream EXCEPT ![c] = @ \o LineOf(r)]
  /\ UNCHANGED <<waiting, link, bounds>>

Type(c) ==
  /\ Elsewhere /\ link[c] = "open" /\ typed < setting.typed
  /\ \E s \in Typed : stream' = [stream EXCEPT ![c] = Append(@, s)]
  /\ typed' = typed + 1
  /\ UNCHANGED <<waiting, link, asked, sessions>>

\* A client closes its connection, resets it, or vanishes.
Leave(c) ==
  /\ Elsewhere /\ link[c] = "open"
  /\ \E how \in {"closed", "reset", "vanished"} : link' = [link EXCEPT ![c] = how]
  /\ UNCHANGED <<waiting, stream, asked, bounds>>

\* Mutant of Probed: keep-alive is not switched on.
NeverProbed(c) == FALSE

\* Keep-alive is switched on once a connection has been accepted.
Probed(c) == c = peer

KeepAliveExpires(c) ==
  /\ Elsewhere /\ link[c] = "vanished" /\ Probed(c)
  /\ link' = [link EXCEPT ![c] = "reset"]
  /\ UNCHANGED <<waiting, stream, asked, bounds>>

-------------------------------------------------------------------------------
\* What the console thread owes once it runs: accept and read may wait for ever.
ConsoleThread ==
  \/ OpenSocket \/ MainReturns \/ Accept \/ Close
  \/ Read \/ ReadEnds \/ RunStep
  \/ WriteOpen \/ WriteLost \/ WriteReset

ConsoleNext ==
  \/ ConsoleThread \/ SocketFails
  \/ \E c \in Polite : Ask(c)
  \/ \E c \in Clients \ Polite : Type(c)
  \/ \E c \in Clients : Leave(c) \/ KeepAliveExpires(c)
===============================================================================
