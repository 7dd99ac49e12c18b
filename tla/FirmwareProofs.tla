----------------------------- MODULE FirmwareProofs -----------------------------
(***************************************************************************)
(* Proofs about Firmware and the console in it, for any clients, whatever  *)
(* they type, and any sizes of buffers and arrays.                         *)
(*                                                                         *)
(* The inductive invariant is IndInv /\ Machine /\ Types /\ Parsing /\     *)
(* Fielded /\ Connected /\ Dialogue.  Each part is shown with the help of  *)
(* those before it.  Fielded is what the parser has found of a line, and   *)
(* Dialogue what a polite client and the console know of each other.       *)
(***************************************************************************)
EXTENDS Firmware, FiniteSetTheorems, SequenceTheorems, WellFoundedInduction, TLAPS

\* A session lasts from accept to close.
Sessions ==
  /\ pc \in {"off", "socket", "bind", "listen", "return"} \cup Listening
  /\ peer \in Clients \cup {NULL}
  /\ peer # NULL <=> pc \in Listening \ {"accept"}
  /\ waiting \in Seq(Clients)

\* Control is in "write" as long as there is something to write.
Replies ==
  /\ \E S : args \in Seq(S)
  /\ out \in Seq(OwnTexts)
  /\ pc = "write" => out # <<>>

IndInv == Sessions /\ Replies

-------------------------------------------------------------------------------
(* strtok_r                                                                *)

\* Every set of natural numbers that is not empty has a least element.
LEMMA Least ==
  ASSUME NEW S, S \subseteq Nat, S # {}
  PROVE  \E x \in S : \A y \in S : x <= y
<1>1. PICK x \in S : \A y \in S : ~ (<<y, x>> \in OpToRel(<, Nat))
  BY NatLessThanWellFounded, WFMin
<1>2. \A y \in S : ~(y < x)
  BY <1>1 DEF OpToRel
<1> QED  BY <1>2

\* SkipOver gives the first symbol outside of D, or the end.
LEMMA Skips ==
  ASSUME NEW S, NEW s \in Seq(S), NEW D, NEW i \in 1 .. Len(s) + 1
  PROVE  LET j == SkipOver(s, i, D) IN
           /\ j \in i .. Len(s) + 1
           /\ j <= Len(s) => s[j] \notin D
           /\ \A k \in i .. j - 1 : s[k] \in D
<1> DEFINE Outside == {j \in i .. Len(s) + 1 : j <= Len(s) => s[j] \notin D}
<1>1. Len(s) \in Nat
  OBVIOUS
<1>2. Len(s) + 1 \in Outside /\ Outside \subseteq Nat
  BY <1>1
<1>3. PICK j \in Outside : \A k \in Outside : j <= k
  BY <1>2, Least
<1>4. /\ j \in i .. Len(s) + 1
      /\ j <= Len(s) => s[j] \notin D
      /\ \A k \in i .. j - 1 : s[k] \in D
  BY <1>1, <1>3
<1> QED  BY <1>4 DEF SkipOver

\* StopAt gives the first symbol in D, or the end.
LEMMA Stops ==
  ASSUME NEW S, NEW s \in Seq(S), NEW D, NEW i \in 1 .. Len(s) + 1
  PROVE  LET j == StopAt(s, i, D) IN
           /\ j \in i .. Len(s) + 1
           /\ j <= Len(s) => s[j] \in D
           /\ \A k \in i .. j - 1 : s[k] \notin D
<1> DEFINE Inside == {j \in i .. Len(s) + 1 : j <= Len(s) => s[j] \in D}
<1>1. Len(s) \in Nat
  OBVIOUS
<1>2. Len(s) + 1 \in Inside /\ Inside \subseteq Nat
  BY <1>1
<1>3. PICK j \in Inside : \A k \in Inside : j <= k
  BY <1>2, Least
<1>4. /\ j \in i .. Len(s) + 1
      /\ j <= Len(s) => s[j] \in D
      /\ \A k \in i .. j - 1 : s[k] \notin D
  BY <1>1, <1>3
<1> QED  BY <1>4 DEF StopAt

\* A call of strtok_r leaves out separators only, and takes all up to the next
\* separator: nothing of a line is lost and nothing is taken twice.  Without
\* a token there was nothing but separators.  The pointer saved stays within
\* the line or just after it, whatever the line, also an empty one.
THEOREM StrtokTokenizes ==
  ASSUME NEW S, NEW s \in Seq(S), NEW D, NEW i \in 1 .. Len(s) + 1
  PROVE  LET r == Strtok(s, i, D) IN
           /\ r.save \in i .. Len(s) + 1
           /\ r.token \in Seq(S)
           /\ \A k \in DOMAIN r.token : r.token[k] \notin D
           /\ r.token = <<>> <=> \A k \in i .. Len(s) : s[k] \in D
           /\ \E a, b \in i .. Len(s) + 1 :
                /\ \A k \in i .. a - 1 : s[k] \in D
                /\ a <= b /\ r.token = SubSeq(s, a, b - 1)
                /\ b <= Len(s) => s[b] \in D /\ r.save = b + 1
                /\ b > Len(s) => r.save = b
<1> DEFINE a == SkipOver(s, i, D)
           b == StopAt(s, a, D)
           r == Strtok(s, i, D)
<1>1. Len(s) \in Nat /\ \A k \in 1 .. Len(s) : s[k] \in S
  OBVIOUS
<1>2. /\ a \in i .. Len(s) + 1
      /\ a <= Len(s) => s[a] \notin D
      /\ \A k \in i .. a - 1 : s[k] \in D
  BY Skips
<1>3. /\ b \in a .. Len(s) + 1
      /\ b <= Len(s) => s[b] \in D
      /\ \A k \in a .. b - 1 : s[k] \notin D
  BY <1>1, <1>2, Stops
<1>4. /\ r.token = SubSeq(s, a, b - 1)
      /\ r.save = IF b <= Len(s) THEN b + 1 ELSE b
  BY DEF Strtok
<1> HIDE DEF a, b, r
<1>5. a \in Nat /\ b \in Nat
  BY <1>1, <1>2, <1>3
<1>6. \A k \in a .. b - 1 : s[k] \in S
  BY <1>1, <1>2, <1>3, <1>5
<1>7. /\ r.token \in Seq(S)
      /\ Len(r.token) = IF a <= b - 1 THEN (b - 1) - a + 1 ELSE 0
      /\ \A k \in 1 .. (b - 1) - a + 1 : r.token[k] = s[a + k - 1]
  BY <1>4, <1>5, <1>6, SubSeqProperties
<1>8. \A k \in DOMAIN r.token : r.token[k] \notin D
  <2>1. DOMAIN r.token = 1 .. b - a
    BY <1>3, <1>5, <1>7
  <2>2. \A k \in 1 .. b - a : r.token[k] = s[a + k - 1] /\ a + k - 1 \in a .. b - 1
    BY <1>5, <1>7
  <2> QED  BY <2>1, <2>2, <1>3
<1>9. r.token = <<>> <=> \A k \in i .. Len(s) : s[k] \in D
  <2>1. r.token = <<>> <=> a = b
    BY <1>3, <1>5, <1>7
  <2>2. a = b <=> a = Len(s) + 1
    BY <1>1, <1>2, <1>3, <1>5
  <2>3. a = Len(s) + 1 <=> \A k \in i .. Len(s) : s[k] \in D
    BY <1>1, <1>2, <1>5
  <2> QED  BY <2>1, <2>2, <2>3
<1>10. r.save \in i .. Len(s) + 1
  BY <1>1, <1>2, <1>3, <1>4, <1>5
<1>11. \E x, y \in i .. Len(s) + 1 :
         /\ \A k \in i .. x - 1 : s[k] \in D
         /\ x <= y /\ r.token = SubSeq(s, x, y - 1)
         /\ y <= Len(s) => s[y] \in D /\ r.save = y + 1
         /\ y > Len(s) => r.save = y
  <2>1. a \in i .. Len(s) + 1 /\ b \in i .. Len(s) + 1 /\ a <= b
    BY <1>1, <1>2, <1>3, <1>5
  <2> QED  BY <1>1, <1>2, <1>3, <1>4, <1>5, <2>1
<1> QED  BY <1>7, <1>8, <1>9, <1>10, <1>11 DEF r

-------------------------------------------------------------------------------
(* The replies                                                             *)

\* A reply without arguments has two parts.
LEMMA TwoParts ==
  ASSUME NEW first, NEW r
  PROVE  Serialize(first, <<>>, r) = <<first, <<":", r, "*END">> >>
<1> DEFINE last == <<":", r, "*END">>
<1>1. [i \in 1 .. Len(<<>>) |-> <<IF i = 1 THEN "_" ELSE ";">> \o <<>>[i]] = <<>>
  OBVIOUS
<1>2. Serialize(first, <<>>, r) = <<first>> \o <<>> \o <<last>>
  BY <1>1 DEF Serialize
<1> HIDE DEF last
<1>3. <<first>> \in Seq({first, last}) /\ <<last>> \in Seq({first, last})
  OBVIOUS
<1>4. <<first>> \o <<>> = <<first>>
  BY <1>3, ConcatEmptySeq
<1>5. <<first>> \o <<last>> = <<first, last>>
  <2>1. <<first, last>> \in Seq({first, last}) /\ Len(<<first, last>>) = 2
    OBVIOUS
  <2>2. /\ <<first>> \o <<last>> \in Seq({first, last})
        /\ Len(<<first>> \o <<last>>) = 2
        /\ \A i \in 1 .. 2 : (<<first>> \o <<last>>)[i] = <<first, last>>[i]
    BY <1>3, ConcatProperties
  <2> QED  BY <2>1, <2>2, SeqEqual
<1> QED  BY <1>2, <1>4, <1>5 DEF last

\* Both are the console's own.
LEMMA Replied ==
  ASSUME NEW v, NEW r, <<v>> \in OwnTexts, <<":", r, "*END">> \in OwnTexts
  PROVE  Serialize(<<v>>, <<>>, r) \in Seq(OwnTexts) /\ Serialize(<<v>>, <<>>, r) # <<>>
<1> DEFINE first == <<v>>
           last == <<":", r, "*END">>
<1>1. Serialize(first, <<>>, r) = <<first, last>>
  BY TwoParts
<1> HIDE DEF first, last
<1>2. <<first, last>> \in Seq(OwnTexts) /\ <<first, last>> # <<>>
  BY DEF first, last
<1> QED  BY <1>1, <1>2 DEF first

\* What a command prints before its reply is the console's own.
LEMMA Printed ==
  ASSUME NEW c \in Commands
  PROVE  Prints(c) \in Seq(OwnTexts)
<1>1. \A i \in DOMAIN Prints(c) : Prints(c)[i] \in OwnTexts
  BY DEF OwnTexts
<1>2. CASE c = "HELP"
  <2> DEFINE p == <<"Available commands:">>
             q == <<"help of HELP">>
             r == <<"help of SYS_FW_VER">>
  <2>1. Prints(c) = <<p, q, r>>
    BY <1>2 DEF Prints
  <2> HIDE DEF p, q, r
  <2>2. p \in OwnTexts /\ q \in OwnTexts /\ r \in OwnTexts
    BY <1>1, <2>1
  <2> QED  BY <2>1, <2>2
<1>3. CASE c # "HELP"
  BY <1>3 DEF Prints
<1> QED  BY <1>2, <1>3

\* Whatever was parsed, the console writes texts of its own, and always some.
LEMMA WritesOwn ==
  ASSUME NEW n, NEW S, NEW as \in Seq(S)
  PROVE  Writes(n, as) \in Seq(OwnTexts) /\ Writes(n, as) # <<>>
<1>1. /\ \A c \in Commands : <<c>> \in OwnTexts
      /\ \A v \in {"PARSE_ERROR", "CMD_NOT_FOUND", "CMD_INVALID_ARGS"} : <<v>> \in OwnTexts
      /\ \A r \in {"SUCCESS", "VERSION", "FAIL"} : <<":", r, "*END">> \in OwnTexts
  BY DEF OwnTexts
<1>2. CASE \E c \in Commands : n = <<c>> /\ Len(as) = expectedArgs[c]
  <2>1. PICK c \in Commands : n = <<c>> /\ Len(as) = expectedArgs[c]
    BY <1>2
  <2>2. as = <<>> /\ n[1] = c /\ n # <<>>
    BY <2>1 DEF expectedArgs
  <2>3. Writes(n, as) = Prints(c) \o Serialize(<<c>>, <<>>, Response(c))
    BY <2>1, <2>2 DEF Writes, expectedArgs
  <2>4. Response(c) \in {"SUCCESS", "VERSION"}
    BY DEF Response
  <2>5. /\ Serialize(<<c>>, <<>>, Response(c)) \in Seq(OwnTexts)
        /\ Serialize(<<c>>, <<>>, Response(c)) # <<>>
    BY <1>1, <2>4, Replied
  <2> QED  BY <2>3, <2>5, Printed, ConcatProperties, ConcatSimplifications!concIsEmpty
<1>3. CASE ~ \E c \in Commands : n = <<c>> /\ Len(as) = expectedArgs[c]
  <2>1. PICK v \in {"PARSE_ERROR", "CMD_NOT_FOUND", "CMD_INVALID_ARGS"} :
          Writes(n, as) = Serialize(<<v>>, <<>>, "FAIL")
    BY <1>3 DEF Writes, Unknown
  <2> QED  BY <1>1, <2>1, Replied
<1> QED  BY <1>2, <1>3

-------------------------------------------------------------------------------
(* The invariant                                                           *)

\* What remains of a reply after one write.
LEMMA TailProperties ==
  ASSUME NEW S, NEW s \in Seq(S), s # <<>>
  PROVE  Tail(s) \in Seq(S) /\ (Len(s) # 1 => Tail(s) # <<>>)
<1>1. PICK n \in Nat \ {0} : n = Len(s)
  OBVIOUS
<1>2. Tail(s) \in Seq(S) /\ Len(Tail(s)) = n - 1 /\ Len(<<>>) = 0
  BY <1>1
<1>3. n # 1 => n - 1 # 0
  OBVIOUS
<1> QED  BY <1>1, <1>2, <1>3

\* Outside of Console_RunCommand and of a write.
LEMMA OtherConsoleStep ==
  ASSUME IndInv, OpenSocket \/ SocketFails \/ MainReturns \/ Accept \/ Close \/ ReadEnds
  PROVE  IndInv'
<1> USE NetConsoleAssumption DEF IndInv, Sessions, Replies, Listening, Go, Move, console, parsed
<1>1. CASE OpenSocket
  BY <1>1 DEF OpenSocket
<1>2. CASE SocketFails
  BY <1>2 DEF SocketFails
<1>3. CASE MainReturns
  BY <1>3 DEF MainReturns
<1>4. CASE Accept
  BY <1>4 DEF Accept
<1>5. CASE Close
  BY <1>5 DEF Close
<1>6. CASE ReadEnds
  BY <1>6 DEF ReadEnds
<1> QED  BY <1>1, <1>2, <1>3, <1>4, <1>5, <1>6

\* A read gives a text to parse.
LEMMA ReadStep ==
  ASSUME IndInv, Read
  PROVE  IndInv'
<1>1. /\ pc = "read" /\ pc' = "parse"
      /\ UNCHANGED <<args, out, peer, waiting>>
  BY DEF Read, ReadPortion, ReadSplitsName, ReadText, Move
<1> QED  BY <1>1 DEF IndInv, Sessions, Replies, Listening

\* Console_RunCommand stays in the session, and what it gives to the write
\* function is its own.
LEMMA RunStepStep ==
  ASSUME IndInv, RunStep
  PROVE  IndInv'
<1>1. UNCHANGED <<peer, waiting>>
  BY DEF RunStep
<1>2. /\ pc \in {"parse", "args", "reply"} /\ pc' \in {"args", "reply", "write"}
  BY DEF RunStep, ConsoleStep, ParseName, ParseArg, ArgsFull, RunCommand
<1>3. Sessions'
  BY <1>1, <1>2 DEF IndInv, Sessions, Listening
<1>4. PICK S : args \in Seq(S)
  BY DEF IndInv, Replies
<1>5. CASE ParseName
  <2>1. pc' # "write" /\ UNCHANGED <<args, out>>
    BY <1>2, <1>5 DEF ParseName
  <2> QED  BY <1>3, <2>1 DEF IndInv, Replies
<1>6. CASE ParseArg
  <2>1. pc' # "write" /\ UNCHANGED out
    BY <1>2, <1>6 DEF ParseArg
  <2>2. \E T : args' \in Seq(T)
    <3>1. CASE UNCHANGED args
      BY <1>4, <3>1
    <3>2. CASE \E t : args' = Append(args, t)
      <4>1. PICK t : args' = Append(args, t)
        BY <3>2
      <4>2. args \in Seq(S \cup {t})
        BY <1>4, SeqMonotonic
      <4>3. args' \in Seq(S \cup {t})
        BY <4>1, <4>2
      <4> QED  BY <4>3
    <3> QED  BY <1>6, <3>1, <3>2 DEF ParseArg
  <2> QED  BY <1>3, <2>1, <2>2 DEF IndInv, Replies
<1>7. CASE ArgsFull
  BY <1>3, <1>7 DEF IndInv, Replies, ArgsFull, parsed
<1>8. CASE RunCommand
  <2>1. out' \in Seq(OwnTexts) /\ out' # <<>>
    BY <1>4, <1>8, WritesOwn DEF RunCommand
  <2>2. args' \in Seq({})
    BY <1>8 DEF RunCommand
  <2> QED  BY <1>3, <2>1, <2>2 DEF IndInv, Replies
<1> QED  BY <1>3, <1>5, <1>6, <1>7, <1>8 DEF RunStep, ConsoleStep, IndInv

\* One write of a reply, whatever becomes of it.
LEMMA WriteStep ==
  ASSUME IndInv, WriteOpen \/ WriteLost \/ WriteReset
  PROVE  IndInv'
<1>1. CASE Written /\ UNCHANGED waiting
  <2>1. pc = "write" /\ out # <<>> /\ out' = Tail(out) /\ UNCHANGED <<args, peer, waiting>>
    BY <1>1 DEF Written, parsed, IndInv, Replies
  <2>2. pc' = IF Len(out) = 1 THEN "read" ELSE "write"
    BY <1>1 DEF Written
  <2>3. out' \in Seq(OwnTexts) /\ (Len(out) # 1 => out' # <<>>)
    BY <2>1, TailProperties DEF IndInv, Replies
  <2>4. Sessions'
    BY <2>1, <2>2 DEF IndInv, Sessions, Listening
  <2> QED  BY <2>1, <2>2, <2>3, <2>4 DEF IndInv, Replies
<1>2. CASE UNCHANGED <<console, peer, waiting>>
  BY <1>2 DEF IndInv, Sessions, Replies, console, parsed
<1>3. Written => UNCHANGED waiting
  BY DEF Written
<1>4. CASE WriteOpen \/ WriteLost
  BY <1>1, <1>3, <1>4 DEF WriteOpen, WriteLost
<1>5. CASE WriteReset
  <2>1. Written \/ UNCHANGED <<console, peer, waiting>>
    BY <1>5 DEF WriteReset
  <2> QED  BY <1>1, <1>2, <1>3, <2>1
<1> QED  BY <1>4, <1>5

\* What happens elsewhere leaves the console alone, but for a client that waits
\* to be accepted.
LEMMA ElsewhereStep ==
  ASSUME IndInv,
         \/ UNCHANGED <<console, peer, waiting>>
         \/ UNCHANGED <<console, peer>> /\ \E c \in Clients : waiting' = Append(waiting, c)
  PROVE  IndInv'
<1>1. UNCHANGED <<pc, args, out, peer>>
  BY DEF console, parsed
<1>2. waiting' \in Seq(Clients)
  BY DEF IndInv, Sessions
<1> QED  BY <1>1, <1>2 DEF IndInv, Sessions, Replies

\* Service_Start of the console finds it off or does nothing.
LEMMA StartStep ==
  ASSUME IndInv, StartConsole, UNCHANGED <<peer, waiting>>
  PROVE  IndInv'
  BY DEF IndInv, Sessions, Replies, StartConsole, Undisturbed, Go, Move, Listening, console, parsed

\* The inductive invariant.
THEOREM Invariance == Spec => []IndInv
<1>1. FirmwareInit => IndInv
  <2> SUFFICES ASSUME FirmwareInit PROVE IndInv
    OBVIOUS
  <2>1. pc = "off" /\ peer = NULL /\ waiting = <<>> /\ out = <<>> /\ args = <<>>
    BY DEF FirmwareInit, Init, Idle
  <2>2. args \in Seq({})
    BY <2>1
  <2> QED  BY <2>1, <2>2 DEF IndInv, Sessions, Replies, Listening
<1>2. IndInv /\ [FirmwareNext]_allVars => IndInv'
  <2> SUFFICES ASSUME IndInv, [FirmwareNext]_allVars PROVE IndInv'
    OBVIOUS
  <2>1. CASE ConsoleNext
    <3>1. CASE ConsoleThread \/ SocketFails
      BY <3>1, OtherConsoleStep, ReadStep, RunStepStep, WriteStep DEF ConsoleThread
    <3>2. CASE \/ \E c \in Polite : Ask(c)
               \/ \E c \in Clients \ Polite : Type(c)
               \/ \E c \in Clients : Leave(c) \/ KeepAliveExpires(c)
      BY <3>2, ElsewhereStep DEF Ask, Type, Leave, KeepAliveExpires, Elsewhere
    <3> QED  BY <2>1, <3>1, <3>2 DEF ConsoleNext
  <2>2. CASE Arrive
    BY <2>2, ElsewhereStep DEF Arrive, Connect, Elsewhere
  <2>3. CASE MainStep \/ CoreHandlesEvent
    <3>1. CASE StartConsole /\ UNCHANGED <<peer, waiting>>
      BY <3>1, StartStep
    <3>2. CASE Undisturbed /\ UNCHANGED <<peer, waiting>>
      BY <3>2, ElsewhereStep DEF Undisturbed
    <3> QED
      BY <2>3, <3>1, <3>2
      DEF MainStep, AppMain, EmulatorMain, MainGoes, CoreHandlesEvent
  <2>4. CASE GotIp \/ LostLink \/ ServiceAborts \/ UNCHANGED allVars
    BY <2>4, ElsewhereStep DEF GotIp, LostLink, ServiceAborts, allVars, vars
  <2>5. CASE Restart
    <3>1. pc' = "off" /\ peer' = NULL /\ waiting' = <<>> /\ out' = <<>> /\ args' = <<>>
      BY <2>5 DEF Restart, BackToIdle
    <3>2. args' \in Seq({})
      BY <3>1
    <3> QED  BY <3>1, <3>2 DEF IndInv, Sessions, Replies, Listening
  <2> QED  BY <2>1, <2>2, <2>3, <2>4, <2>5 DEF FirmwareNext
<1> QED  BY <1>1, <1>2, PTL DEF Spec

-------------------------------------------------------------------------------
\* No text that reaches Console_Printf is of the client's making, so that its
\* length is bounded by the program alone: the buffer of 256 characters is
\* enough for lines of any length.
THEOREM RepliesFit == Spec => []PrintsFit
<1>1. IndInv => PrintsFit
  <2> SUFFICES ASSUME IndInv PROVE PrintsFit
    OBVIOUS
  <2> DEFINE o == OwnTexts
  <2>1. out \in Seq(o)
    BY DEF IndInv, Replies
  <2> HIDE DEF o
  <2>2. \A i \in DOMAIN out : out[i] \in o
    BY <2>1
  <2> QED  BY <2>2 DEF o, PrintsFit
<1> QED  BY <1>1, Invariance, PTL

\* A session ends in the console's own close, or because the program ended:
\* neither another start of the console nor another client takes its place.
THEOREM SessionsKept == Spec => SessionsUndisturbed
<1> DEFINE Kept == \A c \in Clients : peer = c /\ peer' # c => pc = "close" \/ sys # "up"
<1>1. IndInv /\ [FirmwareNext]_allVars => [Kept]_allVars
  <2> SUFFICES ASSUME IndInv, FirmwareNext PROVE Kept
    BY DEF allVars
  <2>1. CASE UNCHANGED peer
    BY <2>1
  <2>2. CASE Accept
    <3>1. peer = NULL
      BY <2>2 DEF IndInv, Sessions, Accept, Go, Move, Listening
    <3> QED  BY <3>1, NetConsoleAssumption
  <2>3. CASE Close
    BY <2>3 DEF Close, Go, Move
  <2>4. CASE Restart
    BY <2>4 DEF Restart
  <2>5. CASE ConsoleNext /\ ~Accept /\ ~Close
    <3>1. CASE ConsoleThread \/ SocketFails
      BY <2>1, <2>5, <3>1
      DEF ConsoleThread, OpenSocket, SocketFails, MainReturns, Read, ReadPortion,
          ReadSplitsName, ReadText, ReadEnds, RunStep, WriteOpen, WriteLost, WriteReset,
          Written
    <3>2. CASE \/ \E c \in Polite : Ask(c)
               \/ \E c \in Clients \ Polite : Type(c)
               \/ \E c \in Clients : Leave(c) \/ KeepAliveExpires(c)
      BY <2>1, <3>2 DEF Ask, Type, Leave, KeepAliveExpires, Elsewhere
    <3> QED  BY <2>5, <3>1, <3>2 DEF ConsoleNext
  <2>6. CASE Arrive
    BY <2>1, <2>6 DEF Arrive, Connect, Elsewhere
  <2>7. CASE MainStep \/ GotIp \/ LostLink \/ CoreHandlesEvent \/ ServiceAborts
    BY <2>1, <2>7
    DEF MainStep, AppMain, EmulatorMain, MainGoes, GotIp, LostLink, CoreHandlesEvent,
        ServiceAborts, vars
  <2> QED  BY <2>2, <2>3, <2>4, <2>5, <2>6, <2>7 DEF FirmwareNext
<1> QED  BY <1>1, Invariance, PTL DEF Spec, SessionsUndisturbed

-------------------------------------------------------------------------------
(* The machine, and what bounds a behaviour                                *)

Machine ==
  /\ setting \in Settings
  /\ typed \in 0 .. setting.typed /\ sessions \in 0 .. setting.sessions
  /\ sys \in {"up", "abort", "killed"}
  /\ stage \in {"reset", "core", "hmi", "running"}
  /\ online \in BOOLEAN
  /\ addresses \in 0 .. setting.addresses /\ coreQueue \in 0 .. addresses
  /\ restarts \in 0 .. setting.restarts

\* The bounds of a setting are numbers.
LEMMA SettingNumbers ==
  ASSUME setting \in Settings
  PROVE  /\ setting.requests \in Nat /\ setting.typed \in Nat /\ setting.sessions \in Nat
         /\ setting.addresses \in Nat /\ setting.restarts \in Nat
  BY NetConsoleAssumption DEF Setting

\* A step that no bound counts, and that may end the program.
LEMMA MachineSame ==
  ASSUME Machine, UNCHANGED <<setting, bounds, machine>>, sys' \in {sys, "abort", "killed"}
  PROVE  Machine'
  BY DEF Machine, bounds, machine

\* The steps of the console's thread.
LEMMA MachineConsole ==
  ASSUME Machine, ConsoleThread \/ SocketFails, UNCHANGED machine
  PROVE  Machine'
<1>1. CASE OpenSocket \/ SocketFails \/ Accept \/ Close \/ ReadEnds
  <2>1. UNCHANGED <<setting, bounds, sys>>
    BY <1>1 DEF OpenSocket, SocketFails, Accept, Close, ReadEnds, Go, Move
  <2> QED  BY <2>1, MachineSame
<1>2. CASE Read
  <2>1. UNCHANGED <<setting, bounds, sys>>
    BY <1>2 DEF Read, ReadPortion, ReadSplitsName, ReadText, Move
  <2> QED  BY <2>1, MachineSame
<1>3. CASE MainReturns \/ RunStep
  BY <1>3, MachineSame DEF MainReturns, RunStep
<1>4. CASE Written
  <2>1. UNCHANGED <<setting, bounds, sys>>
    BY <1>4 DEF Written
  <2> QED  BY <2>1, MachineSame
<1>5. CASE WriteReset /\ ~Written
  <2>1. UNCHANGED <<setting, bounds>> /\ sys' = "killed"
    BY <1>5 DEF WriteReset
  <2> QED  BY <2>1, MachineSame
<1>6. WriteOpen \/ WriteLost => Written
  BY DEF WriteOpen, WriteLost
<1> QED  BY <1>1, <1>2, <1>3, <1>4, <1>5, <1>6 DEF ConsoleThread

\* No event in the queue of CORE is without an address that came.
LEMMA MachineInvariance == Spec => []Machine
<1>1. FirmwareInit => Machine
  <2> SUFFICES ASSUME FirmwareInit PROVE Machine
    OBVIOUS
  <2>1. setting \in Settings /\ typed = 0 /\ sessions = 0
    BY DEF FirmwareInit, Init
  <2>2. sys = "up"
    BY DEF FirmwareInit, Init, Idle
  <2>3. 0 \in 0 .. setting.typed /\ 0 \in 0 .. setting.sessions /\ 0 \in 0 .. setting.addresses
        /\ 0 \in 0 .. 0 /\ 0 \in 0 .. setting.restarts
    BY <2>1, SettingNumbers
  <2> QED  BY <2>1, <2>2, <2>3 DEF FirmwareInit, Machine
<1>2. Machine /\ [FirmwareNext]_allVars => Machine'
  <2> SUFFICES ASSUME Machine, [FirmwareNext]_allVars PROVE Machine'
    OBVIOUS
  <2>0. setting.typed \in Nat /\ setting.sessions \in Nat /\ setting.addresses \in Nat
        /\ setting.restarts \in Nat
    BY SettingNumbers DEF Machine
  <2>1. CASE ConsoleNext /\ UNCHANGED machine
    <3>1. CASE \E c \in Clients \ Polite : Type(c)
      <4>1. typed < setting.typed /\ typed' = typed + 1
            /\ UNCHANGED <<setting, sessions, sys, machine>>
        BY <2>1, <3>1 DEF Type, Elsewhere
      <4> QED  BY <2>0, <4>1 DEF Machine, machine
    <3>2. CASE \/ \E c \in Polite : Ask(c)
               \/ \E c \in Clients : Leave(c) \/ KeepAliveExpires(c)
      BY <2>1, <3>2, MachineSame DEF Ask, Leave, KeepAliveExpires, Elsewhere
    <3> QED  BY <2>1, <3>1, <3>2, MachineConsole DEF ConsoleNext
  <2>2. CASE Arrive
    <3>1. sessions < setting.sessions /\ sessions' = sessions + 1
          /\ UNCHANGED <<setting, typed, sys, machine>>
      BY <2>2 DEF Arrive, Connect, Elsewhere
    <3> QED  BY <2>0, <3>1 DEF Machine, machine
  <2>3. CASE MainStep
    <3>1. UNCHANGED <<setting, bounds, sys>>
      BY <2>3 DEF MainStep, AppMain, EmulatorMain, Undisturbed, StartConsole, Go, Move
    <3>2. stage' \in {"core", "hmi", "running"}
          /\ UNCHANGED <<online, coreQueue, addresses, restarts>>
      BY <2>3 DEF MainStep, AppMain, EmulatorMain, MainGoes
    <3> QED  BY <3>1, <3>2 DEF Machine, bounds
  <2>4. CASE GotIp
    BY <2>0, <2>4 DEF GotIp, Machine, vars, bounds
  <2>5. CASE LostLink
    BY <2>5 DEF LostLink, Machine, bounds
  <2>6. CASE CoreHandlesEvent
    <3>1. UNCHANGED <<setting, bounds, sys>>
      BY <2>6 DEF CoreHandlesEvent, StartConsole, Undisturbed, Go, Move
    <3> QED  BY <2>0, <2>6, <3>1 DEF CoreHandlesEvent, Machine, bounds
  <2>7. CASE ServiceAborts
    BY <2>7, MachineSame DEF ServiceAborts
  <2>8. CASE Restart
    <3>1. /\ restarts < setting.restarts /\ restarts' = restarts + 1
          /\ UNCHANGED <<setting, bounds, addresses>>
      BY <2>8 DEF Restart
    <3>2. sys' = "up" /\ stage' = "reset" /\ online' = FALSE /\ coreQueue' = 0
      BY <2>8 DEF Restart, BackToIdle
    <3>3. restarts' \in 0 .. setting.restarts /\ addresses \in 0 .. setting.addresses
          /\ 0 \in 0 .. addresses
      BY <2>0, <3>1 DEF Machine
    <3> QED  BY <3>1, <3>2, <3>3 DEF Machine, bounds
  <2>9. CASE UNCHANGED allVars
    BY <2>9, MachineSame DEF allVars, vars
  <2> QED  BY <2>1, <2>2, <2>3, <2>4, <2>5, <2>6, <2>7, <2>8, <2>9 DEF FirmwareNext
<1> QED  BY <1>1, <1>2, PTL DEF Spec

-------------------------------------------------------------------------------
(* Lines and their parts                                                   *)

\* A sequence without its last element.
LEMMA FrontLast ==
  ASSUME NEW S, NEW s \in Seq(S), s # <<>>
  PROVE  /\ Front(s) \in Seq(S) /\ Len(Front(s)) = Len(s) - 1
         /\ \A k \in 1 .. Len(s) - 1 : Front(s)[k] = s[k]
         /\ Last(s) = s[Len(s)] /\ Last(s) \in S
<1>1. Len(s) \in Nat /\ Len(s) >= 1 /\ \A k \in 1 .. Len(s) : s[k] \in S
  <2>1. PICK n \in Nat : n = Len(s)
    OBVIOUS
  <2>2. n # 0
    BY <2>1
  <2> QED  BY <2>1, <2>2
<1>2. /\ SubSeq(s, 1, Len(s) - 1) \in Seq(S)
      /\ Len(SubSeq(s, 1, Len(s) - 1)) = Len(s) - 1
      /\ \A k \in 1 .. Len(s) - 1 : SubSeq(s, 1, Len(s) - 1)[k] = s[k]
  <2>1. PICK n \in Nat \ {0} : n = Len(s)
    BY <1>1
  <2>2. \A k \in 1 .. n - 1 : s[k] \in S
    BY <1>1, <2>1
  <2>3. /\ SubSeq(s, 1, n - 1) \in Seq(S)
        /\ Len(SubSeq(s, 1, n - 1)) = IF 1 <= n - 1 THEN (n - 1) - 1 + 1 ELSE 0
        /\ \A k \in 1 .. (n - 1) - 1 + 1 : SubSeq(s, 1, n - 1)[k] = s[1 + k - 1]
    BY <2>2, SubSeqProperties
  <2>4. \A k \in 1 .. n - 1 : SubSeq(s, 1, n - 1)[k] = s[k]
    BY <2>3
  <2> QED  BY <2>1, <2>3, <2>4
<1> QED  BY <1>1, <1>2 DEF Front, Last

\* What is read becomes a text of at most as many symbols.
LEMMA TextRead ==
  ASSUME NEW t \in Seq(Symbols), t # <<>>, NEW u \in Terminated(t)
  PROVE  u \in Seq(Symbols) /\ Len(u) <= Len(t)
<1>1. PICK s \in Shortened(Last(t)) : u = Front(t) \o s
  BY DEF Terminated
<1>2. s \in Seq(Symbols) /\ Len(s) <= 1
  <2>1. s = <<>> \/ s = <<"x">>
    BY <1>1 DEF Shortened
  <2>2. "x" \in Symbols
    BY DEF Symbols, Words
  <2> DEFINE y == "x"
  <2>3. y \in Symbols /\ (s = <<>> \/ s = <<y>>)
    BY <2>1, <2>2
  <2> HIDE DEF y
  <2>4. <<y>> \in Seq(Symbols) /\ Len(<<y>>) = 1
    BY <2>3
  <2>5. CASE s = <<>>
    BY <2>5
  <2> DEFINE w == <<y>>
  <2>6. w \in Seq(Symbols) /\ Len(w) <= 1
    BY <2>4
  <2> HIDE DEF w
  <2>7. CASE s = w
    BY <2>6, <2>7
  <2> QED  BY <2>3, <2>5, <2>7 DEF w
<1>3. Front(t) \in Seq(Symbols) /\ Len(Front(t)) = Len(t) - 1
  BY FrontLast
<1>4. Len(t) \in Nat
  OBVIOUS
<1>5. Front(t) \o s \in Seq(Symbols) /\ Len(Front(t) \o s) = Len(t) - 1 + Len(s)
  BY <1>2, <1>3
<1>6. Len(s) \in Nat
  BY <1>2
<1> QED  BY <1>1, <1>2, <1>4, <1>5, <1>6

\* The line of a request, and the text that a read makes of it.
LEMMA LineProperties ==
  ASSUME NEW r \in Requests
  PROVE  /\ LineOf(r) \in Seq(Symbols) /\ LineOf(r) # <<>>
         /\ Len(r.args) \in Nat
         /\ Len(LineOf(r)) = 2 * Len(r.args) + 2 /\ Len(LineOf(r)) <= ReadSize
         /\ LineOf(r)[1] = r.name /\ r.name \in Words
         /\ \A k \in 1 .. Len(LineOf(r)) - 1 : LineOf(r)[k] # "nl"
         /\ LineOf(r)[Len(LineOf(r))] = "nl"
         /\ r.args # <<>> => LineOf(r)[2] = "=" /\ LineOf(r)[3] \in Words
         /\ r.args # <<>> <=> Len(r.args) # 0
<1> DEFINE as == r.args
           last == 2 * Len(as) + 2
<1>1. as \in Seq(Words) /\ r.name \in Words /\ last <= ReadSize
  BY RequestAssumption
<1>2. PICK n \in Nat : n = Len(as)
  BY <1>1
<1>3. \A k \in 1 .. n : as[k] \in Words
  BY <1>1, <1>2
<1> DEFINE sym(i) == CASE i = 1 -> r.name
                       [] i = last -> "nl"
                       [] OTHER -> IF i = 2 THEN "=" ELSE IF i % 2 = 0 THEN ";" ELSE as[(i - 1) \div 2]
<1>4. \A i \in 1 .. last : i # 1 /\ i # last =>
        sym(i) \in {"=", ";"} \cup Words
  <2> SUFFICES ASSUME NEW i \in 1 .. last, i # 1, i # last PROVE sym(i) \in {"=", ";"} \cup Words
    OBVIOUS
  <2>1. CASE i = 2 \/ i % 2 = 0
    BY <2>1, <1>2
  <2>2. CASE i # 2 /\ i % 2 # 0
    <3>1. i \in Nat /\ i >= 3 /\ i < 2 * n + 2
      BY <1>2, <2>2
    <3> HIDE DEF last
    <3>2. (i - 1) \div 2 \in 1 .. n
      BY <3>1, <1>2
    <3>3. as[(i - 1) \div 2] \in Words
      BY <3>2, <1>3
    <3> QED  BY <2>2, <3>3
  <2> QED  BY <2>1, <2>2
<1>5. LineOf(r) = [i \in 1 .. last |-> sym(i)]
  BY DEF LineOf
<1>6. sym(1) = r.name
  OBVIOUS
<1>7. last # 1 /\ last \in Nat /\ last >= 2 /\ sym(last) = "nl"
  BY <1>2
<1>8. r.name \in Symbols /\ "nl" \in Symbols /\ {"=", ";"} \cup Words \subseteq Symbols
  BY <1>1 DEF Symbols
<1>9. \A i \in 1 .. last : sym(i) \in Symbols
  BY <1>4, <1>6, <1>7, <1>8
<1>10. "nl" \notin {"=", ";"} \cup Words
  BY DEF Words, Commands
<1>11. \A i \in 1 .. last - 1 : sym(i) # "nl"
  <2> HIDE DEF sym
  <2> SUFFICES ASSUME NEW i \in 1 .. last - 1 PROVE sym(i) # "nl"
    OBVIOUS
  <2>1. i \in 1 .. last /\ i # last
    BY <1>7
  <2>2. CASE i = 1
    BY <2>2, <1>1, <1>6, <1>10
  <2>3. CASE i # 1
    BY <2>1, <2>3, <1>4, <1>10
  <2> QED  BY <2>2, <2>3
<1>12. as # <<>> <=> n # 0
  BY <1>1, <1>2
<1>13. n # 0 => last >= 4 /\ sym(2) = "=" /\ sym(3) \in Words
  <2> SUFFICES ASSUME n # 0 PROVE last >= 4 /\ sym(2) = "=" /\ sym(3) \in Words
    OBVIOUS
  <2>1. last >= 4
    BY <1>2
  <2>2. 3 # last /\ 2 # last /\ 3 # 1 /\ 3 # 2 /\ 3 % 2 # 0 /\ (3 - 1) \div 2 = 1
    BY <2>1, <1>7
  <2>3. sym(3) = as[1]
    BY <2>2
  <2> QED  BY <2>1, <2>2, <2>3, <1>2, <1>3
<1> HIDE DEF sym
<1>14. /\ LineOf(r) \in Seq(Symbols) /\ Len(LineOf(r)) = last
       /\ \A i \in 1 .. last : LineOf(r)[i] = sym(i)
  BY <1>5, <1>7, <1>9
<1>15. LineOf(r) # <<>>
  BY <1>14, <1>7
<1> QED  BY <1>1, <1>2, <1>6, <1>7, <1>11, <1>12, <1>13, <1>14, <1>15

\* A text that begins with another symbol than a separator: its first token
\* begins there and ends where its first separator is.
LEMMA TokenAtStart ==
  ASSUME NEW S, NEW s \in Seq(S), NEW D, s # <<>>, s[1] \notin D
  PROVE  \E b \in 2 .. Len(s) + 1 :
           /\ Strtok(s, 1, D).token \in Seq(S) /\ Len(Strtok(s, 1, D).token) = b - 1
           /\ \A k \in 1 .. b - 1 : Strtok(s, 1, D).token[k] = s[k] /\ s[k] \notin D
           /\ b <= Len(s) => s[b] \in D /\ Strtok(s, 1, D).save = b + 1
           /\ b > Len(s) => Strtok(s, 1, D).save = b
<1>1. PICK n \in Nat \ {0} : n = Len(s)
  OBVIOUS
<1>2. 1 \in 1 .. Len(s) + 1 /\ 1 \in 1 .. Len(s)
  BY <1>1
<1>3. \E a, b \in 1 .. Len(s) + 1 :
        /\ \A k \in 1 .. a - 1 : s[k] \in D
        /\ a <= b /\ Strtok(s, 1, D).token = SubSeq(s, a, b - 1)
        /\ b <= Len(s) => s[b] \in D /\ Strtok(s, 1, D).save = b + 1
        /\ b > Len(s) => Strtok(s, 1, D).save = b
  BY <1>2, StrtokTokenizes
<1> DEFINE r == Strtok(s, 1, D)
<1> HIDE DEF r
<1>4. /\ r.token \in Seq(S)
      /\ \A k \in DOMAIN r.token : r.token[k] \notin D
      /\ r.token = <<>> => \A k \in 1 .. Len(s) : s[k] \in D
  BY <1>2, StrtokTokenizes DEF r
<1>5. PICK a, b \in 1 .. n + 1 :
        /\ \A k \in 1 .. a - 1 : s[k] \in D
        /\ a <= b /\ r.token = SubSeq(s, a, b - 1)
        /\ b <= n => s[b] \in D /\ r.save = b + 1
        /\ b > n => r.save = b
  BY <1>1, <1>3 DEF r
<1>6. a = 1
  <2>1. a > 1 => s[1] \in D
    BY <1>5
  <2> QED  BY <2>1, <1>5
<1>7. \A k \in 1 .. b - 1 : s[k] \in S
  BY <1>1, <1>5
<1>8. /\ Len(r.token) = b - 1
      /\ \A k \in 1 .. b - 1 : r.token[k] = s[k]
  <2>1. /\ SubSeq(s, 1, b - 1) \in Seq(S)
        /\ Len(SubSeq(s, 1, b - 1)) = IF 1 <= b - 1 THEN (b - 1) - 1 + 1 ELSE 0
        /\ \A k \in 1 .. (b - 1) - 1 + 1 : SubSeq(s, 1, b - 1)[k] = s[1 + k - 1]
    BY <1>5, <1>7, SubSeqProperties
  <2> QED  BY <1>5, <1>6, <2>1
<1>9. b # 1
  <2>1. b = 1 => r.token = <<>>
    BY <1>4, <1>8
  <2>2. r.token = <<>> => s[1] \in D
    BY <1>2, <1>4
  <2> QED  BY <2>1, <2>2
<1>10. DOMAIN r.token = 1 .. b - 1
  BY <1>4, <1>8
<1>11. \A k \in 1 .. b - 1 : s[k] \notin D
  <2> SUFFICES ASSUME NEW k \in 1 .. b - 1 PROVE s[k] \notin D
    OBVIOUS
  <2>1. k \in DOMAIN r.token /\ r.token[k] = s[k]
    BY <1>8, <1>10
  <2> QED  BY <2>1, <1>4
<1>12. b \in 2 .. n + 1
  BY <1>5, <1>9
<1>13. \E c \in 2 .. Len(s) + 1 :
         /\ r.token \in Seq(S) /\ Len(r.token) = c - 1
         /\ \A k \in 1 .. c - 1 : r.token[k] = s[k] /\ s[k] \notin D
         /\ c <= Len(s) => s[c] \in D /\ r.save = c + 1
         /\ c > Len(s) => r.save = c
  BY <1>4, <1>1, <1>5, <1>8, <1>11, <1>12
<1> QED  BY <1>13 DEF r

\* A text without a separator is one token.
LEMMA WholeToken ==
  ASSUME NEW S, NEW s \in Seq(S), NEW D, s # <<>>, \A k \in 1 .. Len(s) : s[k] \notin D
  PROVE  Strtok(s, 1, D).token = s /\ Strtok(s, 1, D).save = Len(s) + 1
<1> DEFINE r == Strtok(s, 1, D)
<1> HIDE DEF r
<1>1. PICK n \in Nat \ {0} : n = Len(s)
  OBVIOUS
<1>2. s[1] \notin D
  BY <1>1
<1>3. PICK b \in 2 .. n + 1 :
        /\ r.token \in Seq(S) /\ Len(r.token) = b - 1
        /\ \A k \in 1 .. b - 1 : r.token[k] = s[k] /\ s[k] \notin D
        /\ b <= n => s[b] \in D /\ r.save = b + 1
        /\ b > n => r.save = b
  <2>1. \E b \in 2 .. Len(s) + 1 :
          /\ r.token \in Seq(S) /\ Len(r.token) = b - 1
          /\ \A k \in 1 .. b - 1 : r.token[k] = s[k] /\ s[k] \notin D
          /\ b <= Len(s) => s[b] \in D /\ r.save = b + 1
          /\ b > Len(s) => r.save = b
    BY <1>2, TokenAtStart DEF r
  <2> QED  BY <1>1, <2>1
<1>4. b = n + 1
  BY <1>1, <1>3
<1>5. r.token = s
  BY <1>1, <1>3, <1>4, SeqEqual
<1> QED  BY <1>1, <1>3, <1>4, <1>5 DEF r

\* A separator after the first symbol ends the token there.
LEMMA FirstToken ==
  ASSUME NEW S, NEW s \in Seq(S), NEW D, Len(s) >= 2, s[1] \notin D, s[2] \in D
  PROVE  Strtok(s, 1, D).token = <<s[1]>> /\ Strtok(s, 1, D).save = 3
<1> DEFINE r == Strtok(s, 1, D)
<1> HIDE DEF r
<1>1. PICK n \in Nat \ {0} : n = Len(s)
  OBVIOUS
<1>2. PICK b \in 2 .. n + 1 :
        /\ r.token \in Seq(S) /\ Len(r.token) = b - 1
        /\ \A k \in 1 .. b - 1 : r.token[k] = s[k] /\ s[k] \notin D
        /\ b <= n => s[b] \in D /\ r.save = b + 1
        /\ b > n => r.save = b
  <2>1. s # <<>>
    BY <1>1
  <2>2. \E b \in 2 .. Len(s) + 1 :
          /\ r.token \in Seq(S) /\ Len(r.token) = b - 1
          /\ \A k \in 1 .. b - 1 : r.token[k] = s[k] /\ s[k] \notin D
          /\ b <= Len(s) => s[b] \in D /\ r.save = b + 1
          /\ b > Len(s) => r.save = b
    BY <2>1, TokenAtStart DEF r
  <2> QED  BY <1>1, <2>2
<1>3. b = 2 /\ b <= n
  BY <1>1, <1>2
<1>4. Len(r.token) = 1 /\ r.token[1] = s[1]
  BY <1>2, <1>3
<1>5. r.token = <<s[1]>>
  BY <1>2, <1>4
<1> QED  BY <1>2, <1>3, <1>5 DEF r

\* When strtok_r gives NULL.
LEMMA NoToken ==
  ASSUME NEW S, NEW s \in Seq(S), NEW D, NEW i \in 1 .. Len(s) + 1
  PROVE  Strtok(s, i, D).token = <<>> <=> \A k \in i .. Len(s) : s[k] \in D
  BY StrtokTokenizes

\* How the line of a request is cut: it is one line, its name is the first
\* token, and there is a second if the request has arguments.
LEMMA RequestParsed ==
  ASSUME NEW r \in Requests
  PROVE  /\ Front(LineOf(r)) \in Seq(Symbols)
         /\ Strtok(Front(LineOf(r)), 1, {"nl"}).token = Front(LineOf(r))
         /\ Strtok(Front(LineOf(r)), 1, {"="}).token = <<r.name>>
         /\ Strtok(Front(LineOf(r)), 1, {"="}).save = IF r.args = <<>> THEN 2 ELSE 3
         /\ r.args = <<>> => Strtok(Front(LineOf(r)), 2, {";"}).token = <<>>
         /\ r.args # <<>> => Strtok(Front(LineOf(r)), 3, {";"}).token # <<>>
<1> DEFINE l == Front(LineOf(r))
<1>1. PICK n \in Nat : n = Len(r.args)
  BY LineProperties
<1>2. /\ l \in Seq(Symbols) /\ Len(l) = 2 * n + 1
      /\ \A k \in 1 .. 2 * n + 1 : l[k] = LineOf(r)[k]
  <2>1. Len(LineOf(r)) = 2 * n + 2
    BY <1>1, LineProperties
  <2>2. Len(LineOf(r)) - 1 = 2 * n + 1
    BY <2>1
  <2> QED  BY <2>2, LineProperties, FrontLast
<1>3. Len(LineOf(r)) - 1 = 2 * n + 1
  BY <1>1, LineProperties
<1>4. \A k \in 1 .. 2 * n + 1 : l[k] # "nl"
  BY <1>2, <1>3, LineProperties
<1>5. l[1] = r.name /\ r.name \in Words
  <2>1. 1 \in 1 .. 2 * n + 1
    BY <1>1
  <2> QED  BY <2>1, <1>2, LineProperties
<1>6. r.args # <<>> <=> n # 0
  BY <1>1, LineProperties
<1>7. n # 0 => 2 * n + 1 >= 3 /\ l[2] = "=" /\ l[3] \in Words
  <2> SUFFICES ASSUME n # 0 PROVE 2 * n + 1 >= 3 /\ l[2] = "=" /\ l[3] \in Words
    OBVIOUS
  <2>1. 2 \in 1 .. 2 * n + 1 /\ 3 \in 1 .. 2 * n + 1
    BY <1>1
  <2>2. LineOf(r)[2] = "=" /\ LineOf(r)[3] \in Words
    BY <1>6, LineProperties
  <2> QED  BY <2>1, <2>2, <1>2
<1>8. \A w \in Words : w \notin {"=", ";", "nl"}
  BY DEF Words, Commands
<1> HIDE DEF l
<1> SUFFICES /\ l \in Seq(Symbols)
             /\ Strtok(l, 1, {"nl"}).token = l
             /\ Strtok(l, 1, {"="}).token = <<r.name>>
             /\ Strtok(l, 1, {"="}).save = IF r.args = <<>> THEN 2 ELSE 3
             /\ r.args = <<>> => Strtok(l, 2, {";"}).token = <<>>
             /\ r.args # <<>> => Strtok(l, 3, {";"}).token # <<>>
  BY DEF l
<1>9. Strtok(l, 1, {"nl"}).token = l
  <2>1. l # <<>> /\ \A k \in 1 .. Len(l) : l[k] \notin {"nl"}
    BY <1>2, <1>4
  <2> QED  BY <1>2, <2>1, WholeToken
<1>10. CASE n = 0
  <2>1. Len(l) = 1 /\ l # <<>> /\ l = <<r.name>>
    BY <1>2, <1>5, <1>10
  <2>2. \A k \in 1 .. Len(l) : l[k] \notin {"="}
    <3>1. r.name \notin {"="}
      BY <1>5, <1>8
    <3>2. \A k \in 1 .. Len(l) : k = 1
      BY <2>1
    <3> QED  BY <3>1, <3>2, <1>5
  <2>3. Strtok(l, 1, {"="}).token = l /\ Strtok(l, 1, {"="}).save = Len(l) + 1
    BY <1>2, <2>1, <2>2, WholeToken
  <2>4. Strtok(l, 2, {";"}).token = <<>>
    <3>1. 2 \in 1 .. 1 + 1 /\ 2 .. 1 = {}
      OBVIOUS
    <3>2. 2 \in 1 .. Len(l) + 1 /\ \A k \in 2 .. Len(l) : l[k] \in {";"}
      BY <2>1, <3>1
    <3> QED  BY <1>2, <3>2, NoToken
  <2>5. Strtok(l, 1, {"="}).token = <<r.name>> /\ Strtok(l, 1, {"="}).save = 2
    BY <2>1, <2>3
  <2> QED  BY <1>2, <1>6, <1>9, <1>10, <2>4, <2>5
<1>11. CASE n # 0
  <2>0. l[1] \notin {"="} /\ l[3] \notin {";"}
    BY <1>5, <1>7, <1>8, <1>11
  <2>1. Len(l) >= 3 /\ Len(l) >= 2 /\ l[2] \in {"="} /\ Len(l) \in Nat
    BY <1>2, <1>7, <1>11
  <2>2. Strtok(l, 1, {"="}).token = <<r.name>> /\ Strtok(l, 1, {"="}).save = 3
    <3>1. Strtok(l, 1, {"="}).token = <<l[1]>> /\ Strtok(l, 1, {"="}).save = 3
      BY <1>2, <2>0, <2>1, FirstToken
    <3> QED  BY <3>1, <1>5
  <2>3. Strtok(l, 3, {";"}).token # <<>>
    <3>1. 3 \in 1 .. Len(l) + 1 /\ 3 \in 3 .. Len(l)
      BY <2>1
    <3>2. ~ \A k \in 3 .. Len(l) : l[k] \in {";"}
      BY <2>0, <3>1
    <3> QED  BY <1>2, <3>1, <3>2, NoToken
  <2> QED  BY <1>2, <1>6, <1>9, <1>11, <2>2, <2>3
<1> QED  BY <1>10, <1>11

\* Whatever its arguments were parsed into, a request gets the reply that the
\* table says.
LEMMA WritesReply ==
  ASSUME NEW r \in Requests, NEW S, NEW as \in Seq(S), as = <<>> <=> r.args = <<>>
  PROVE  Writes(<<r.name>>, as) = ReplyTo(r)
<1>1. /\ <<r.name>> # <<>> /\ <<r.name>>[1] = r.name
      /\ \A c \in Commands : <<r.name>> = <<c>> <=> c = r.name
  OBVIOUS
<1>2. /\ \A c \in Commands : expectedArgs[c] = 0
      /\ Len(as) = 0 <=> as = <<>>
  BY DEF expectedArgs
<1>3. CASE r.name \notin Commands
  <2>1. Writes(<<r.name>>, as) = Serialize(<<"CMD_NOT_FOUND">>, <<>>, "FAIL")
    BY <1>1, <1>3 DEF Writes, Unknown
  <2> QED  BY <1>3, <2>1, TwoParts DEF ReplyTo
<1>4. CASE r.name \in Commands /\ r.args # <<>>
  <2>1. Writes(<<r.name>>, as) = Serialize(<<"CMD_INVALID_ARGS">>, <<>>, "FAIL")
    BY <1>1, <1>2, <1>4 DEF Writes
  <2> QED  BY <1>4, <2>1, TwoParts DEF ReplyTo
<1>5. CASE r.name \in Commands /\ r.args = <<>>
  <2>1. Writes(<<r.name>>, as) = Prints(r.name) \o Serialize(<<r.name>>, <<>>, Response(r.name))
    BY <1>1, <1>2, <1>5 DEF Writes
  <2> QED  BY <1>5, <2>1, TwoParts DEF ReplyTo
<1> QED  BY <1>3, <1>4, <1>5

\* One write moves what was to be written to what has been written.
LEMMA Moved ==
  ASSUME NEW S, NEW p \in Seq(S), NEW o \in Seq(S), o # <<>>
  PROVE  /\ Append(p, Head(o)) \in Seq(S)
         /\ Append(p, Head(o)) \o Tail(o) = p \o o
         /\ Len(o) = 1 => Append(p, Head(o)) = p \o o
<1>1. PICK n \in Nat \ {0} : n = Len(o)
  OBVIOUS
<1>2. Head(o) = o[1] /\ Head(o) \in S /\ Tail(o) \in Seq(S) /\ Len(Tail(o)) = n - 1
      /\ \A i \in 1 .. n - 1 : Tail(o)[i] = o[i + 1]
  BY <1>1, HeadTailProperties
<1> DEFINE q == Append(p, Head(o))
<1>3. q \in Seq(S) /\ Len(q) = Len(p) + 1 /\ q[Len(p) + 1] = o[1]
      /\ \A i \in 1 .. Len(p) : q[i] = p[i]
  BY <1>2
<1> HIDE DEF q
<1>4. PICK m \in Nat : m = Len(p)
  OBVIOUS
<1>5. /\ p \o o \in Seq(S) /\ Len(p \o o) = m + n
      /\ \A i \in 1 .. m : (p \o o)[i] = p[i]
      /\ \A i \in m + 1 .. m + n : (p \o o)[i] = o[i - m]
  BY <1>1, <1>4, ConcatProperties
<1>6. /\ q \o Tail(o) \in Seq(S) /\ Len(q \o Tail(o)) = m + n
      /\ \A i \in 1 .. m : (q \o Tail(o))[i] = p[i]
      /\ (q \o Tail(o))[m + 1] = o[1]
      /\ \A i \in m + 2 .. m + n : (q \o Tail(o))[i] = o[i - m]
  <2>1. Len(q) = m + 1 /\ Len(Tail(o)) = n - 1
    BY <1>2, <1>3, <1>4
  <2>2. /\ q \o Tail(o) \in Seq(S) /\ Len(q \o Tail(o)) = Len(q) + Len(Tail(o))
        /\ \A i \in 1 .. Len(q) + Len(Tail(o)) :
             (q \o Tail(o))[i] = IF i <= Len(q) THEN q[i] ELSE Tail(o)[i - Len(q)]
    BY <1>2, <1>3, ConcatProperties
  <2>3. \A i \in m + 2 .. m + n : Tail(o)[i - (m + 1)] = o[i - m]
    <3> SUFFICES ASSUME NEW i \in m + 2 .. m + n PROVE Tail(o)[i - (m + 1)] = o[i - m]
      OBVIOUS
    <3>1. i - (m + 1) \in 1 .. n - 1 /\ i - (m + 1) + 1 = i - m
      OBVIOUS
    <3> QED  BY <1>2, <3>1
  <2>4. \A i \in 1 .. m + n :
          (q \o Tail(o))[i] = IF i <= m + 1 THEN q[i] ELSE Tail(o)[i - (m + 1)]
    BY <2>1, <2>2
  <2>5. q[m + 1] = o[1] /\ \A i \in 1 .. m : q[i] = p[i]
    BY <1>3, <1>4
  <2>6. \A i \in 1 .. m : (q \o Tail(o))[i] = p[i]
    <3>1. \A i \in 1 .. m : i \in 1 .. m + n /\ i <= m + 1
      OBVIOUS
    <3> QED  BY <2>4, <2>5, <3>1
  <2>7. (q \o Tail(o))[m + 1] = o[1]
    <3>1. m + 1 \in 1 .. m + n /\ m + 1 <= m + 1
      OBVIOUS
    <3> QED  BY <2>4, <2>5, <3>1
  <2>8. \A i \in m + 2 .. m + n : (q \o Tail(o))[i] = o[i - m]
    <3>1. \A i \in m + 2 .. m + n : i \in 1 .. m + n /\ ~(i <= m + 1)
      OBVIOUS
    <3> QED  BY <2>3, <2>4, <3>1
  <2>9. (m + 1) + (n - 1) = m + n
    OBVIOUS
  <2> QED  BY <2>1, <2>2, <2>6, <2>7, <2>8, <2>9
<1>7. q \o Tail(o) = p \o o
  <2>1. \A i \in 1 .. m + n : (q \o Tail(o))[i] = (p \o o)[i]
    <3> SUFFICES ASSUME NEW i \in 1 .. m + n PROVE (q \o Tail(o))[i] = (p \o o)[i]
      OBVIOUS
    <3>1. CASE i \in 1 .. m
      BY <3>1, <1>5, <1>6
    <3>2. CASE i = m + 1
      <4>1. i \in m + 1 .. m + n /\ i - m = 1
        BY <3>2
      <4> QED  BY <3>2, <4>1, <1>5, <1>6
    <3>3. CASE i \in m + 2 .. m + n
      <4>1. i \in m + 1 .. m + n
        BY <3>3
      <4> QED  BY <3>3, <4>1, <1>5, <1>6
    <3>4. i \in 1 .. m \/ i = m + 1 \/ i \in m + 2 .. m + n
      OBVIOUS
    <3> QED  BY <3>1, <3>2, <3>3, <3>4
  <2> QED  BY <1>5, <1>6, <2>1, SeqEqual
<1>8. n = 1 => q = p \o o
  <2> SUFFICES ASSUME n = 1 PROVE q = p \o o
    OBVIOUS
  <2>1. Len(q) = m + n /\ \A i \in 1 .. m + n : q[i] = (p \o o)[i]
    BY <1>3, <1>4, <1>5
  <2> QED  BY <1>3, <1>5, <2>1, SeqEqual
<1> QED  BY <1>1, <1>3, <1>7, <1>8 DEF q

-------------------------------------------------------------------------------
(* What the connections hold                                               *)

LinkStates == {"none", "open", "closed", "vanished", "reset"}

Types ==
  /\ link \in [Clients -> LinkStates]
  /\ stream \in [Clients -> Seq(Symbols)]
  /\ asked \in [Clients -> Seq(Requests)]
  /\ replies \in [Clients -> Seq(Seq(OwnTexts))]
  /\ partial \in Seq(OwnTexts)
  /\ Len(waiting) <= Backlog
  /\ \A c \in Clients : Len(asked[c]) <= setting.requests

\* One client's entry changes.
LEMMA Changed ==
  ASSUME NEW T, NEW f \in [Clients -> T], NEW c \in Clients, NEW v \in T
  PROVE  /\ [f EXCEPT ![c] = v] \in [Clients -> T]
         /\ [f EXCEPT ![c] = v][c] = v
         /\ \A d \in Clients : d # c => [f EXCEPT ![c] = v][d] = f[d]
  OBVIOUS

\* The steps that leave the connections alone.
Quiet == UNCHANGED <<setting, waiting, clients, received>>

\* These are most of the steps.
LEMMA QuietSteps ==
  ASSUME \/ OpenSocket \/ MainReturns \/ ReadEnds \/ RunStep
         \/ MainStep \/ GotIp \/ CoreHandlesEvent \/ ServiceAborts \/ UNCHANGED allVars
  PROVE  Quiet
<1>1. CASE OpenSocket \/ MainReturns \/ ReadEnds \/ RunStep
  BY <1>1 DEF OpenSocket, MainReturns, ReadEnds, RunStep, Go, Move, Quiet
<1>2. CASE GotIp \/ ServiceAborts \/ UNCHANGED allVars
  BY <1>2 DEF GotIp, ServiceAborts, allVars, vars, Quiet
<1>3. StartConsole => UNCHANGED setting
  BY DEF StartConsole, Undisturbed, Go, Move
<1>4. CASE MainStep
  BY <1>3, <1>4 DEF MainStep, AppMain, EmulatorMain, MainGoes, Undisturbed, Quiet
<1>5. CASE CoreHandlesEvent
  BY <1>3, <1>5 DEF CoreHandlesEvent, Quiet
<1> QED  BY <1>1, <1>2, <1>4, <1>5

\* The steps that do no more to the connections than to break or make them.
LEMMA LinkTypes ==
  ASSUME Types, UNCHANGED <<setting, stream, asked, received>>,
         link' \in [Clients -> LinkStates], Len(waiting') <= Backlog
  PROVE  Types'
  BY DEF Types, received

\* A portion of what was sent, and what remains, also when a name is cut in two.
LEMMA SomeSymbols ==
  ASSUME NEW s \in Seq(Symbols), NEW n \in 1 .. Len(s)
  PROVE  /\ SubSeq(s, 1, n) \in Seq(Symbols) /\ Len(SubSeq(s, 1, n)) = n
         /\ SubSeq(s, n + 1, Len(s)) \in Seq(Symbols)
         /\ SubSeq(s, 1, n - 1) \o <<"x">> \in Seq(Symbols)
         /\ Len(SubSeq(s, 1, n - 1) \o <<"x">>) = n
         /\ <<"x">> \o SubSeq(s, n + 1, Len(s)) \in Seq(Symbols)
<1>1. PICK m \in Nat : m = Len(s)
  OBVIOUS
<1>2. \A k \in 1 .. m : s[k] \in Symbols
  BY <1>1
<1>3. "x" \in Symbols
  BY DEF Symbols, Words
<1> DEFINE y == "x"
           a == SubSeq(s, 1, n)
           b == SubSeq(s, 1, n - 1)
           c == SubSeq(s, n + 1, m)
<1>4. a \in Seq(Symbols) /\ Len(a) = n
  BY <1>1, <1>2, SubSeqProperties
<1>5. b \in Seq(Symbols) /\ Len(b) = n - 1
  BY <1>1, <1>2, SubSeqProperties
<1>6. c \in Seq(Symbols)
  BY <1>1, <1>2, SubSeqProperties
<1>7. y \in Symbols
  BY <1>3
<1> HIDE DEF a, b, c, y
<1>8. <<y>> \in Seq(Symbols) /\ Len(<<y>>) = 1
  BY <1>7
<1>9. b \o <<y>> \in Seq(Symbols) /\ Len(b \o <<y>>) = n
  BY <1>1, <1>5, <1>8, ConcatProperties
<1>10. <<y>> \o c \in Seq(Symbols)
  BY <1>6, <1>8
<1> QED  BY <1>1, <1>4, <1>6, <1>9, <1>10 DEF a, b, c, y

\* Whatever portion a read returns, it makes a text of at most ReadSize symbols.
LEMMA ReadTypes ==
  ASSUME IndInv, Types, Read
  PROVE  /\ text' \in Seq(Symbols) /\ Len(text') <= ReadSize /\ line' = text'
         /\ stream' \in [Clients -> Seq(Symbols)]
         /\ peer \in Clients
         /\ UNCHANGED <<setting, save, name, args, out, peer, waiting, link, asked, received>>
<1>1. pc = "read"
  BY DEF Read
<1>2. peer \in Clients
  BY <1>1, NetConsoleAssumption DEF IndInv, Sessions, Listening
<1>3. PICK m \in Nat : m = Len(stream[peer])
  BY <1>2 DEF Types
<1>4. PICK n, t, rest :
        /\ n \in ReadLengths(peer)
        /\ ReadText(t, rest)
        /\ \/ t = SubSeq(stream[peer], 1, n) /\ rest = SubSeq(stream[peer], n + 1, Len(stream[peer]))
           \/ t = SubSeq(stream[peer], 1, n - 1) \o <<"x">>
              /\ rest = <<"x">> \o SubSeq(stream[peer], n + 1, Len(stream[peer]))
  BY DEF Read, ReadPortion, ReadSplitsName
<1>5. n \in 1 .. Len(stream[peer]) /\ n <= ReadSize
  <2>1. PICK available \in Nat :
          /\ available <= m /\ available <= ReadSize
          /\ ReadLengths(peer) = IF peer \in Polite THEN {available} \ {0} ELSE 1 .. available
    <3> DEFINE available == IF Len(stream[peer]) <= ReadSize THEN Len(stream[peer]) ELSE ReadSize
    <3>1. available \in Nat /\ available <= m /\ available <= ReadSize
      BY <1>3, NetConsoleAssumption
    <3> QED  BY <3>1 DEF ReadLengths
  <2>2. n \in ReadLengths(peer)
    BY <1>4
  <2>3. n \in 1 .. available
    BY <2>1, <2>2
  <2> QED  BY <1>3, <2>1, <2>3, NetConsoleAssumption
<1>6. t \in Seq(Symbols) /\ Len(t) = n /\ rest \in Seq(Symbols)
  <2>1. stream[peer] \in Seq(Symbols)
    BY <1>2 DEF Types
  <2> DEFINE s == stream[peer]
  <2>2. /\ SubSeq(s, 1, n) \in Seq(Symbols) /\ Len(SubSeq(s, 1, n)) = n
        /\ SubSeq(s, n + 1, Len(s)) \in Seq(Symbols)
        /\ SubSeq(s, 1, n - 1) \o <<"x">> \in Seq(Symbols)
        /\ Len(SubSeq(s, 1, n - 1) \o <<"x">>) = n
        /\ <<"x">> \o SubSeq(s, n + 1, Len(s)) \in Seq(Symbols)
    BY <1>5, <2>1, SomeSymbols
  <2> QED  BY <1>4, <2>2
<1>7. t # <<>>
  BY <1>3, <1>5, <1>6
<1>8. text' \in Terminated(t) /\ line' = text' /\ stream' = [stream EXCEPT ![peer] = rest]
      /\ UNCHANGED <<setting, save, name, args, out, peer, waiting, link, asked, received>>
  BY <1>4 DEF ReadText, Move
<1>9. text' \in Seq(Symbols) /\ Len(text') <= n
  BY <1>6, <1>7, <1>8, TextRead
<1>10. Len(text') \in Nat
  BY <1>9
<1>11. Len(text') <= ReadSize
  BY <1>3, <1>5, <1>9, <1>10, NetConsoleAssumption
<1> QED  BY <1>2, <1>6, <1>8, <1>9, <1>11 DEF Types

\* A write leaves a reply that grows, or breaks the link.
LEMMA WriteTypes ==
  ASSUME IndInv, Types, WriteOpen \/ WriteLost \/ WriteReset
  PROVE  Types'
<1>1. pc = "write" /\ out \in Seq(OwnTexts) /\ out # <<>>
  BY DEF WriteOpen, WriteLost, WriteReset, Written, IndInv, Replies
<1>2. peer \in Clients
  BY <1>1, NetConsoleAssumption DEF IndInv, Sessions, Listening
<1>3. Written => UNCHANGED <<setting, waiting, stream, asked>>
  BY DEF Written
<1>4. CASE WriteReset
  BY <1>3, <1>4, LinkTypes DEF WriteReset, clients, Types
<1>5. CASE WriteLost
  <2>1. link' \in [Clients -> LinkStates]
    BY <1>5, <1>2 DEF WriteLost, Types, LinkStates
  <2> QED  BY <1>3, <1>5, <2>1, LinkTypes DEF WriteLost, Types
<1>6. CASE WriteOpen
  <2>1. UNCHANGED <<setting, waiting, stream, asked, link>>
    BY <1>3, <1>6 DEF WriteOpen
  <2>2. Append(partial, Head(out)) \in Seq(OwnTexts)
    BY <1>1, Moved DEF Types
  <2>3. partial' \in Seq(OwnTexts) /\ replies' \in [Clients -> Seq(Seq(OwnTexts))]
    <3>1. CASE UNCHANGED received
      BY <3>1 DEF received, Types
    <3>2. CASE Delivered
      <4> DEFINE T == Seq(OwnTexts)
                 w == Append(partial, Head(out))
      <4>1. w \in T /\ replies \in [Clients -> Seq(T)] /\ <<>> \in T
        BY <2>2 DEF Types
      <4>0. replies[peer] \in Seq(T)
        BY <1>2, <4>1
      <4>2. \/ replies' = [replies EXCEPT ![peer] = Append(@, w)] /\ partial' = <<>>
            \/ replies' = replies /\ partial' = w
        BY <3>2 DEF Delivered
      <4> HIDE DEF T, w
      <4>3. Append(replies[peer], w) \in Seq(T)
        BY <4>0, <4>1
      <4>4. [replies EXCEPT ![peer] = Append(replies[peer], w)] \in [Clients -> Seq(T)]
        BY <1>2, <4>1, <4>3, Changed
      <4>5. partial' \in T /\ replies' \in [Clients -> Seq(T)]
        BY <4>1, <4>2, <4>4
      <4> QED  BY <4>5 DEF T
    <3> QED  BY <1>6, <3>1, <3>2 DEF WriteOpen
  <2> QED  BY <2>1, <2>3 DEF Types
<1> QED  BY <1>4, <1>5, <1>6

\* The steps of the console's thread.
LEMMA ThreadTypes ==
  ASSUME IndInv, Machine, Types, ConsoleThread \/ SocketFails
  PROVE  Types'
<1>1. CASE OpenSocket \/ MainReturns \/ ReadEnds \/ RunStep
  BY <1>1, QuietSteps DEF Quiet, clients, received, Types
<1>2. CASE SocketFails
  <2>1. link' \in [Clients -> LinkStates]
    BY <1>2 DEF SocketFails, LinkStates
  <2>2. waiting' = <<>> /\ UNCHANGED <<setting, stream, asked, received>>
    BY <1>2 DEF SocketFails, Go, Move
  <2> QED  BY <2>1, <2>2, LinkTypes, NetConsoleAssumption
<1>3. CASE Accept
  <2>1. waiting # <<>> /\ waiting' = Tail(waiting) /\ UNCHANGED <<setting, link, stream, asked, received>>
    BY <1>3 DEF Accept, Go, Move, clients
  <2>2. waiting \in Seq(Clients)
    BY DEF IndInv, Sessions
  <2>3. Len(waiting') <= Backlog
    BY <2>1, <2>2, NetConsoleAssumption DEF Types
  <2> QED  BY <2>1, <2>3, LinkTypes DEF Types
<1>4. CASE Close
  <2>1. /\ link' = [link EXCEPT ![peer] = "none"]
        /\ stream' = [stream EXCEPT ![peer] = <<>>]
        /\ asked' = [asked EXCEPT ![peer] = <<>>]
        /\ replies' = [replies EXCEPT ![peer] = <<>>]
        /\ partial' = <<>> /\ UNCHANGED <<setting, waiting>>
    BY <1>4 DEF Close, Go, Move
  <2>2. peer \in Clients
    <3>1. pc = "close"
      BY <1>4 DEF Close, Go, Move
    <3> QED  BY <3>1, NetConsoleAssumption DEF IndInv, Sessions, Listening
  <2>3. link' \in [Clients -> LinkStates]
    BY <2>1, <2>2, Changed DEF Types, LinkStates
  <2>4. \A T : <<>> \in Seq(T)
    OBVIOUS
  <2>5. /\ stream' \in [Clients -> Seq(Symbols)]
        /\ asked' \in [Clients -> Seq(Requests)]
        /\ replies' \in [Clients -> Seq(Seq(OwnTexts))]
        /\ partial' \in Seq(OwnTexts)
    <3> DEFINE A == Seq(Symbols)
               B == Seq(Requests)
               C == Seq(Seq(OwnTexts))
               D == Seq(OwnTexts)
    <3>1. /\ <<>> \in A /\ <<>> \in B /\ <<>> \in C /\ <<>> \in D
          /\ stream \in [Clients -> A] /\ asked \in [Clients -> B] /\ replies \in [Clients -> C]
      BY <2>4 DEF Types
    <3> HIDE DEF A, B, C, D
    <3>2. stream' \in [Clients -> A] /\ asked' \in [Clients -> B] /\ replies' \in [Clients -> C]
      BY <2>1, <2>2, <3>1, Changed
    <3>3. partial' \in D
      BY <2>1, <3>1
    <3> QED  BY <3>2, <3>3 DEF A, B, C, D
  <2>6. setting \in Settings => \A c \in Clients : Len(asked'[c]) <= setting.requests
    <3> SUFFICES ASSUME setting \in Settings, NEW c \in Clients
                 PROVE  Len(asked'[c]) <= setting.requests
      OBVIOUS
    <3>1. asked'[c] = asked[c] \/ asked'[c] = <<>>
      BY <2>1 DEF Types
    <3> QED  BY <3>1, SettingNumbers DEF Types
  <2> QED  BY <2>1, <2>3, <2>5, <2>6 DEF Types, Machine
<1>5. CASE Read
  BY <1>5, ReadTypes DEF Types, received
<1> QED  BY <1>1, <1>2, <1>3, <1>4, <1>5, WriteTypes DEF ConsoleThread

\* The clients and TCP.
LEMMA ClientTypes ==
  ASSUME IndInv, Machine, Types, NEW c \in Clients,
         (c \in Polite /\ Ask(c)) \/ Type(c) \/ Leave(c) \/ KeepAliveExpires(c) \/ Connect(c)
  PROVE  Types'
<1>1. UNCHANGED <<setting, received>>
  BY DEF Ask, Type, Leave, KeepAliveExpires, Connect, Elsewhere
<1>2. CASE Leave(c) \/ KeepAliveExpires(c)
  <2>1. PICK how \in LinkStates : link' = [link EXCEPT ![c] = how]
    BY <1>2 DEF Leave, KeepAliveExpires, LinkStates
  <2>2. link' \in [Clients -> LinkStates]
    BY <2>1, Changed DEF Types
  <2>3. UNCHANGED <<waiting, stream, asked>>
    BY <1>2 DEF Leave, KeepAliveExpires
  <2> QED  BY <1>1, <2>2, <2>3, LinkTypes DEF Types
<1>3. CASE Connect(c)
  <2>1. /\ Len(waiting) < Backlog /\ waiting' = Append(waiting, c)
        /\ link' = [link EXCEPT ![c] = "open"] /\ UNCHANGED <<stream, asked>>
    BY <1>3 DEF Connect
  <2>2. link' \in [Clients -> LinkStates]
    BY <2>1, Changed DEF Types, LinkStates
  <2>3. Len(waiting') <= Backlog
    BY <2>1, NetConsoleAssumption DEF IndInv, Sessions
  <2> QED  BY <1>1, <2>1, <2>2, <2>3, LinkTypes
<1>4. stream[c] \in Seq(Symbols) /\ asked[c] \in Seq(Requests)
  BY DEF Types
<1>5. CASE Type(c)
  <2>1. PICK s \in Symbols : stream' = [stream EXCEPT ![c] = Append(stream[c], s)]
    BY <1>5, RequestAssumption DEF Type
  <2>2. Append(stream[c], s) \in Seq(Symbols)
    BY <1>4
  <2>3. stream' \in [Clients -> Seq(Symbols)]
    BY <2>1, <2>2, Changed DEF Types
  <2>4. UNCHANGED <<waiting, link, asked>>
    BY <1>5 DEF Type
  <2> QED  BY <1>1, <2>3, <2>4 DEF Types, received
<1>6. CASE Ask(c)
  <2>1. PICK r \in Requests :
          /\ asked' = [asked EXCEPT ![c] = Append(asked[c], r)]
          /\ stream' = [stream EXCEPT ![c] = stream[c] \o LineOf(r)]
    BY <1>6 DEF Ask
  <2>2. stream[c] \o LineOf(r) \in Seq(Symbols) /\ Append(asked[c], r) \in Seq(Requests)
    BY <1>4, LineProperties
  <2>3. stream' \in [Clients -> Seq(Symbols)]
    BY <2>1, <2>2, Changed DEF Types
  <2>4. asked' \in [Clients -> Seq(Requests)]
    BY <2>1, <2>2, Changed DEF Types
  <2>5. Len(asked[c]) < setting.requests /\ UNCHANGED <<waiting, link>>
    BY <1>6 DEF Ask
  <2>6. \A d \in Clients : Len(asked'[d]) <= setting.requests
    <3> SUFFICES ASSUME NEW d \in Clients PROVE Len(asked'[d]) <= setting.requests
      OBVIOUS
    <3>1. CASE d # c
      BY <2>1, <3>1 DEF Types
    <3>2. CASE d = c
      <4>1. asked'[c] = Append(asked[c], r)
        BY <2>1 DEF Types
      <4>2. Len(asked'[c]) = Len(asked[c]) + 1 /\ Len(asked[c]) \in Nat
        BY <1>4, <4>1
      <4>3. setting.requests \in Nat => Len(asked'[c]) <= setting.requests
        BY <2>5, <4>2
      <4>4. setting.requests \in Nat
        BY SettingNumbers DEF Machine
      <4> QED  BY <3>2, <4>3, <4>4
    <3> QED  BY <3>1, <3>2
  <2> QED  BY <1>1, <2>3, <2>4, <2>5, <2>6 DEF Types, received
<1> QED  BY <1>2, <1>3, <1>5, <1>6

\* Nothing has been sent.
LEMMA Nothing ==
  /\ [c \in Clients |-> "none"] \in [Clients -> LinkStates]
  /\ \A T : <<>> \in Seq(T) /\ [c \in Clients |-> <<>>] \in [Clients -> Seq(T)]
  /\ Len(<<>>) = 0 /\ 0 <= Backlog
  BY NetConsoleAssumption DEF LinkStates

\* What connections hold stays within its types and its bounds.
LEMMA TypesInvariance == Spec => []Types
<1>1. FirmwareInit => Types
  <2> SUFFICES ASSUME FirmwareInit PROVE Types
    OBVIOUS
  <2>1. /\ setting \in Settings /\ waiting = <<>> /\ partial = <<>>
        /\ link = [c \in Clients |-> "none"] /\ stream = [c \in Clients |-> <<>>]
        /\ asked = [c \in Clients |-> <<>>] /\ replies = [c \in Clients |-> <<>>]
    BY DEF FirmwareInit, Init, Idle
  <2>2. \A c \in Clients : Len(asked[c]) <= setting.requests
    BY <2>1, SettingNumbers
  <2> QED  BY <2>1, <2>2, Nothing DEF Types
<1>2. IndInv /\ Machine /\ Types /\ [FirmwareNext]_allVars => Types'
  <2> SUFFICES ASSUME IndInv, Machine, Types, [FirmwareNext]_allVars PROVE Types'
    OBVIOUS
  <2>1. CASE ConsoleNext
    BY <2>1, ThreadTypes, ClientTypes, NetConsoleAssumption DEF ConsoleNext
  <2>2. CASE Arrive
    BY <2>2, ClientTypes DEF Arrive
  <2>3. CASE MainStep \/ GotIp \/ CoreHandlesEvent \/ ServiceAborts \/ UNCHANGED allVars
    BY <2>3, QuietSteps DEF Quiet, clients, received, Types
  <2>4. CASE LostLink
    <3>1. link' \in [Clients -> LinkStates]
      BY <2>4 DEF LostLink, Types, LinkStates
    <3>2. UNCHANGED <<setting, waiting, stream, asked, received>>
      BY <2>4 DEF LostLink
    <3> QED  BY <3>1, <3>2, LinkTypes DEF Types
  <2>5. CASE Restart
    <3>1. /\ UNCHANGED setting /\ waiting' = <<>> /\ partial' = <<>>
          /\ link' = [c \in Clients |-> "none"] /\ stream' = [c \in Clients |-> <<>>]
          /\ asked' = [c \in Clients |-> <<>>] /\ replies' = [c \in Clients |-> <<>>]
      BY <2>5 DEF Restart, BackToIdle
    <3>2. \A c \in Clients : Len(asked'[c]) <= setting'.requests
      BY <3>1, SettingNumbers DEF Machine
    <3> QED  BY <3>1, <3>2, Nothing DEF Types
  <2> QED  BY <2>1, <2>2, <2>3, <2>4, <2>5 DEF FirmwareNext
<1> QED  BY <1>1, <1>2, Invariance, MachineInvariance, PTL DEF Spec

-------------------------------------------------------------------------------
(* The text and its parts                                                  *)

Parsing ==
  /\ text \in Seq(Symbols) /\ Len(text) <= ReadSize
  /\ line \in Seq(Symbols)
  /\ save \in 1 .. Len(line) + 1
  /\ Len(args) <= CMD_ARGS_MAX_LENGTH
  /\ pc \notin {"args", "reply"} => save = 1 /\ args = <<>>

\* A step that leaves the text and its parts alone.
LEMMA ParsingSame ==
  ASSUME Parsing, UNCHANGED parsed,
         pc \in {"args", "reply"} => pc' \in {"args", "reply"}
  PROVE  Parsing'
  BY DEF Parsing, parsed

\* The pieces of a text.
LEMMA TokenTypes ==
  ASSUME NEW s \in Seq(Symbols), NEW i \in 1 .. Len(s) + 1, NEW D
  PROVE  /\ Strtok(s, i, D).token \in Seq(Symbols)
         /\ Strtok(s, i, D).save \in 1 .. Len(s) + 1
<1>1. Strtok(s, i, D).token \in Seq(Symbols) /\ Strtok(s, i, D).save \in i .. Len(s) + 1
  BY StrtokTokenizes
<1> QED  BY <1>1

\* strtok_r never gets beyond the line, the loop never beyond its array.
LEMMA RunParsing ==
  ASSUME IndInv, Parsing, RunStep
  PROVE  Parsing'
<1>1. CASE ParseName
  <2>1. pc = "parse" /\ save = 1 /\ args = <<>> /\ UNCHANGED <<text, args>>
    BY <1>1 DEF ParseName, Parsing
  <2>2. pc' \in {"args", "reply"}
    BY <1>1 DEF ParseName
  <2>3. line' = Strtok(line, 1, {"nl"}).token /\ save' = Strtok(line', 1, {"="}).save
    BY <1>1 DEF ParseName
  <2>4. \A s \in Seq(Symbols) : 1 \in 1 .. Len(s) + 1
    OBVIOUS
  <2>5. line' \in Seq(Symbols)
    BY <2>3, <2>4, TokenTypes DEF Parsing
  <2>6. save' \in 1 .. Len(line') + 1
    BY <2>3, <2>4, <2>5, TokenTypes
  <2> QED  BY <2>1, <2>2, <2>5, <2>6 DEF Parsing
<1>2. CASE ParseArg
  <2>1. pc = "args" /\ Len(args) < CMD_ARGS_MAX_LENGTH /\ UNCHANGED <<text, line>>
    BY <1>2 DEF ParseArg, ArgsLeft
  <2>2. save' = Strtok(line, save, {";"}).save
    BY <1>2 DEF ParseArg
  <2>3. pc' \in {"args", "reply"} /\ (UNCHANGED args \/ \E t : args' = Append(args, t))
    BY <1>2, <2>1 DEF ParseArg
  <2>4. save' \in 1 .. Len(line) + 1
    BY <2>2, TokenTypes DEF Parsing
  <2>5. Len(args') <= CMD_ARGS_MAX_LENGTH
    <3>1. PICK S : args \in Seq(S)
      BY DEF IndInv, Replies
    <3>2. ASSUME NEW t, args' = Append(args, t) PROVE Len(args') = Len(args) + 1
      <4>1. args \in Seq(S \cup {t})
        BY <3>1, SeqMonotonic
      <4> QED  BY <3>2, <4>1
    <3>3. Len(args) \in Nat
      BY <3>1
    <3> QED  BY <2>1, <2>3, <3>2, <3>3, ConsoleAssumption
  <2> QED  BY <2>1, <2>3, <2>4, <2>5 DEF Parsing
<1>3. CASE ArgsFull
  BY <1>3, ParsingSame DEF ArgsFull
<1>4. CASE RunCommand
  <2>1. text' = <<>> /\ line' = <<>> /\ save' = 1 /\ args' = <<>> /\ pc' = "write"
    BY <1>4 DEF RunCommand
  <2>2. <<>> \in Seq(Symbols) /\ Len(<<>>) = 0 /\ 1 \in 1 .. 0 + 1
    OBVIOUS
  <2> QED  BY <2>1, <2>2, ConsoleAssumption, NetConsoleAssumption DEF Parsing
<1> QED  BY <1>1, <1>2, <1>3, <1>4 DEF RunStep, ConsoleStep

\* Between two commands the locals of Console_RunCommand do not exist.
LEMMA ParsingInvariance == Spec => []Parsing
<1>1. ASSUME FirmwareInit PROVE Parsing
  <2>1. text = <<>> /\ line = <<>> /\ save = 1 /\ args = <<>>
    BY <1>1 DEF FirmwareInit, Init, Idle
  <2>2. <<>> \in Seq(Symbols) /\ Len(<<>>) = 0 /\ 1 \in 1 .. 0 + 1
    OBVIOUS
  <2> QED  BY <2>1, <2>2, ConsoleAssumption, NetConsoleAssumption DEF Parsing
<1>2. IndInv /\ Types /\ Parsing /\ [FirmwareNext]_allVars => Parsing'
  <2> SUFFICES ASSUME IndInv, Types, Parsing, [FirmwareNext]_allVars PROVE Parsing'
    OBVIOUS
  <2>1. CASE UNCHANGED console
    BY <2>1, ParsingSame DEF console
  <2>2. CASE OpenSocket \/ SocketFails \/ Accept \/ Close \/ ReadEnds \/ StartConsole
    <3>1. (pc \notin {"args", "reply"} /\ UNCHANGED parsed) \/ UNCHANGED console
      BY <2>2 DEF OpenSocket, SocketFails, Accept, Close, ReadEnds, StartConsole, Undisturbed,
                  Go, Move
    <3> QED  BY <2>1, <3>1, ParsingSame
  <2>3. CASE Read
    <3>1. /\ text' \in Seq(Symbols) /\ Len(text') <= ReadSize /\ line' = text'
          /\ UNCHANGED <<save, args>>
      BY <2>3, ReadTypes
    <3>2. pc = "read"
      BY <2>3 DEF Read
    <3>3. save = 1 /\ args = <<>>
      BY <3>2 DEF Parsing
    <3>4. 1 \in 1 .. Len(line') + 1
      BY <3>1
    <3> QED  BY <3>1, <3>3, <3>4 DEF Parsing
  <2>4. CASE WriteOpen \/ WriteLost \/ WriteReset
    <3>1. UNCHANGED console \/ (pc = "write" /\ UNCHANGED parsed)
      BY <2>4 DEF WriteOpen, WriteLost, WriteReset, Written
    <3> QED  BY <2>1, <3>1, ParsingSame
  <2>5. CASE ConsoleNext
    <3>1. CASE ConsoleThread \/ SocketFails
      BY <3>1, <2>1, <2>2, <2>3, <2>4, RunParsing DEF ConsoleThread, MainReturns
    <3>2. CASE \/ \E c \in Polite : Ask(c)
               \/ \E c \in Clients \ Polite : Type(c)
               \/ \E c \in Clients : Leave(c) \/ KeepAliveExpires(c)
      BY <3>2, <2>1 DEF Ask, Type, Leave, KeepAliveExpires, Elsewhere
    <3> QED  BY <2>5, <3>1, <3>2 DEF ConsoleNext
  <2>6. CASE MainStep \/ CoreHandlesEvent
    BY <2>1, <2>2, <2>6 DEF MainStep, AppMain, EmulatorMain, CoreHandlesEvent, Undisturbed
  <2>7. CASE Arrive \/ GotIp \/ LostLink \/ ServiceAborts \/ UNCHANGED allVars
    BY <2>1, <2>7 DEF Arrive, Connect, Elsewhere, GotIp, LostLink, ServiceAborts, allVars, vars
  <2>8. CASE Restart
    <3>1. text' = <<>> /\ line' = <<>> /\ save' = 1 /\ args' = <<>>
      BY <2>8 DEF Restart, BackToIdle
    <3>2. <<>> \in Seq(Symbols) /\ Len(<<>>) = 0 /\ 1 \in 1 .. 0 + 1
      OBVIOUS
    <3> QED  BY <3>1, <3>2, ConsoleAssumption, NetConsoleAssumption DEF Parsing
  <2> QED  BY <2>5, <2>6, <2>7, <2>8 DEF FirmwareNext
<1> QED  BY <1>1, <1>2, Invariance, TypesInvariance, PTL DEF Spec

-------------------------------------------------------------------------------
(* Who is connected                                                        *)

\* A client is connected once, waits or is served, and what belongs to a
\* connection goes with it.
Connected ==
  /\ \A m, n \in DOMAIN waiting : waiting[m] = waiting[n] => m = n
  /\ \A n \in DOMAIN waiting : waiting[n] # peer /\ link[waiting[n]] # "none"
  /\ peer # NULL => link[peer] # "none"
  /\ pc = "close" => link[peer] # "open"
  /\ \A c \in Clients : link[c] = "none" => stream[c] = <<>> /\ asked[c] = <<>>
  /\ \A c \in Clients : c # peer \/ c \notin Polite => replies[c] = <<>>
  /\ \A c \in Clients \ Polite : asked[c] = <<>>
  /\ peer = NULL => partial = <<>>

\* Links break, and nothing else changes.
Breaks ==
  /\ UNCHANGED <<peer, waiting, stream, asked, received>>
  /\ \A c \in Clients : \/ link'[c] = link[c]
                        \/ link[c] # "none" /\ link'[c] \notin {"none", "open"}
  /\ pc' = "close" /\ pc # "close" => peer \in Clients /\ link[peer] # "open"

\* Who waits is a client.
LEMMA WaitingClients ==
  ASSUME IndInv
  PROVE  \A n \in DOMAIN waiting : waiting[n] \in Clients
  BY DEF IndInv, Sessions

\* A link that breaks is still a link.
LEMMA ConnectedBreaks ==
  ASSUME IndInv, Connected, Breaks
  PROVE  Connected'
<1>1. UNCHANGED <<peer, waiting, stream, asked, replies, partial>>
  BY DEF Breaks, received
<1>2. \A c \in Clients : link'[c] = "none" <=> link[c] = "none"
  BY DEF Breaks
<1>3. \A n \in DOMAIN waiting : waiting[n] # peer /\ link'[waiting[n]] # "none"
  BY <1>2, WaitingClients DEF Connected
<1>4. peer \in Clients \cup {NULL}
  BY DEF IndInv, Sessions
<1>5. pc = "close" => peer \in Clients
  BY NetConsoleAssumption DEF IndInv, Sessions, Listening
<1>6. \A c \in Clients : link[c] # "open" => link'[c] # "open"
  BY DEF Breaks
<1>7. peer # NULL => link'[peer] # "none"
  BY <1>2, <1>4 DEF Connected
<1>8. pc' = "close" => peer \in Clients /\ link[peer] # "open"
  BY <1>5 DEF Breaks, Connected
<1>9. pc' = "close" => link'[peer] # "open"
  BY <1>6, <1>8
<1>10. \A c \in Clients : link'[c] = "none" => stream'[c] = <<>> /\ asked'[c] = <<>>
  BY <1>1, <1>2 DEF Connected
<1> QED  BY <1>1, <1>3, <1>7, <1>9, <1>10 DEF Connected

\* The steps of which this is all.
LEMMA BreakingSteps ==
  ASSUME IndInv, Machine, Types,
         \/ OpenSocket \/ MainReturns \/ ReadEnds \/ RunStep \/ WriteLost \/ WriteReset
         \/ \E c \in Clients : Leave(c) \/ KeepAliveExpires(c)
         \/ MainStep \/ GotIp \/ LostLink \/ CoreHandlesEvent \/ ServiceAborts
         \/ UNCHANGED allVars
  PROVE  Breaks
<1>1. CASE Quiet /\ UNCHANGED peer /\ (pc' = "close" => pc = "close")
  BY <1>1 DEF Quiet, clients, received, Breaks
<1>2. CASE OpenSocket \/ MainReturns \/ RunStep
  <2>1. Quiet /\ UNCHANGED peer
    BY <1>2, QuietSteps DEF OpenSocket, MainReturns, RunStep
  <2>2. pc' = "close" => pc = "close"
    BY <1>2 DEF OpenSocket, MainReturns, RunStep, ConsoleStep, ParseName, ParseArg, ArgsFull,
                RunCommand, Go, Move, console
  <2> QED  BY <1>1, <2>1, <2>2
<1>3. CASE GotIp \/ ServiceAborts \/ UNCHANGED allVars
  <2>1. Quiet
    BY <1>3, QuietSteps
  <2>2. UNCHANGED <<peer, pc>>
    BY <1>3 DEF GotIp, ServiceAborts, allVars, vars, console
  <2> QED  BY <1>1, <2>1, <2>2
<1>4. CASE MainStep \/ CoreHandlesEvent
  <2>1. Quiet
    BY <1>4, QuietSteps
  <2>2. UNCHANGED peer /\ (UNCHANGED pc \/ pc' = "socket")
    BY <1>4 DEF MainStep, AppMain, EmulatorMain, MainGoes, CoreHandlesEvent, StartConsole,
                Undisturbed, Go, Move, console
  <2> QED  BY <1>1, <2>1, <2>2
<1>5. CASE ReadEnds
  <2>1. Quiet
    BY <1>5, QuietSteps
  <2>2. UNCHANGED peer /\ pc = "read" /\ link[peer] # "open"
    BY <1>5 DEF ReadEnds
  <2>3. peer \in Clients
    BY <2>2, NetConsoleAssumption DEF IndInv, Sessions, Listening
  <2> QED  BY <2>1, <2>2, <2>3 DEF Quiet, clients, received, Breaks
<1>6. CASE LostLink
  <2>1. /\ UNCHANGED <<peer, waiting, stream, asked, received, pc>>
        /\ link' = [c \in Clients |-> IF link[c] = "open" THEN "vanished" ELSE link[c]]
    BY <1>6 DEF LostLink, console
  <2> QED  BY <2>1 DEF Breaks
<1>7. CASE \E c \in Clients : Leave(c) \/ KeepAliveExpires(c)
  <2>1. PICK c \in Clients, how \in LinkStates \ {"none", "open"} :
          /\ link[c] # "none" /\ link' = [link EXCEPT ![c] = how]
          /\ UNCHANGED <<peer, waiting, stream, asked, received, pc>>
    BY <1>7 DEF Leave, KeepAliveExpires, Elsewhere, LinkStates, console
  <2>2. \A d \in Clients : link'[d] = IF d = c THEN how ELSE link[d]
    BY <2>1 DEF Types
  <2> QED  BY <2>1, <2>2 DEF Breaks
<1>8. CASE WriteLost \/ WriteReset
  <2>1. pc = "write" /\ pc' # "close"
    BY <1>8 DEF WriteLost, WriteReset, Written, console
  <2>2. peer \in Clients
    BY <2>1, NetConsoleAssumption DEF IndInv, Sessions, Listening
  <2>3. UNCHANGED <<peer, waiting, stream, asked, received>>
    BY <1>8 DEF WriteLost, WriteReset, Written, clients
  <2>4. link' = link \/ (link[peer] = "closed" /\ link' = [link EXCEPT ![peer] = "reset"])
    BY <1>8 DEF WriteLost, WriteReset, clients
  <2>5. \A c \in Clients : link'[c] = link[c] \/ (link[c] = "closed" /\ link'[c] = "reset")
    BY <2>2, <2>4 DEF Types
  <2> QED  BY <2>1, <2>3, <2>5 DEF Breaks
<1> QED  BY <1>2, <1>3, <1>4, <1>5, <1>6, <1>7, <1>8

\* The first of those that wait is taken off them.
LEMMA ConnectedAccept ==
  ASSUME IndInv, Connected, Accept
  PROVE  Connected'
<1>1. /\ waiting # <<>> /\ peer' = Head(waiting) /\ waiting' = Tail(waiting)
      /\ UNCHANGED <<link, stream, asked, replies, partial>> /\ pc' = "read" /\ pc = "accept"
  BY DEF Accept, Go, Move, clients, received
<1>2. peer = NULL /\ waiting \in Seq(Clients)
  BY <1>1 DEF IndInv, Sessions, Listening
<1>3. PICK n \in Nat \ {0} : n = Len(waiting)
  BY <1>1, <1>2
<1>4. /\ Head(waiting) = waiting[1] /\ Len(Tail(waiting)) = n - 1
      /\ \A i \in 1 .. n - 1 : Tail(waiting)[i] = waiting[i + 1]
      /\ Tail(waiting) \in Seq(Clients)
  BY <1>1, <1>2, <1>3, HeadTailProperties
<1>5. \A i \in 1 .. n - 1 : i + 1 \in 1 .. n /\ i + 1 # 1
  OBVIOUS
<1>6. DOMAIN waiting = 1 .. n /\ DOMAIN waiting' = 1 .. n - 1 /\ 1 \in 1 .. n
  BY <1>1, <1>2, <1>3, <1>4
<1>7. \A i, j \in DOMAIN waiting' : waiting'[i] = waiting'[j] => i = j
  <2> SUFFICES ASSUME NEW i \in 1 .. n - 1, NEW j \in 1 .. n - 1, waiting'[i] = waiting'[j]
               PROVE  i = j
    BY <1>6
  <2>1. waiting[i + 1] = waiting[j + 1]
    BY <1>1, <1>4
  <2>2. i + 1 = j + 1
    BY <1>5, <1>6, <2>1 DEF Connected
  <2> QED  BY <2>2
<1>8. \A i \in DOMAIN waiting' : waiting'[i] # peer' /\ link'[waiting'[i]] # "none"
  <2> SUFFICES ASSUME NEW i \in 1 .. n - 1
               PROVE  waiting'[i] # peer' /\ link'[waiting'[i]] # "none"
    BY <1>6
  <2>1. waiting'[i] = waiting[i + 1] /\ peer' = waiting[1]
    BY <1>1, <1>4
  <2>2. i + 1 \in DOMAIN waiting /\ 1 \in DOMAIN waiting /\ i + 1 # 1
    BY <1>5, <1>6
  <2>3. waiting[i + 1] # waiting[1] /\ link[waiting[i + 1]] # "none"
    BY <2>2 DEF Connected
  <2> QED  BY <1>1, <2>1, <2>3
<1>9. link'[peer'] # "none" /\ peer' \in Clients
  <2>1. peer' = waiting[1] /\ 1 \in DOMAIN waiting
    BY <1>1, <1>4, <1>6
  <2> QED  BY <1>1, <2>1, WaitingClients DEF Connected
<1>10. \A c \in Clients : replies[c] = <<>>
  BY <1>2, NetConsoleAssumption DEF Connected
<1>11. peer' # NULL
  BY <1>9, NetConsoleAssumption
<1> QED  BY <1>1, <1>7, <1>8, <1>9, <1>10, <1>11 DEF Connected

\* What belongs to the session goes with it.
LEMMA ConnectedClose ==
  ASSUME IndInv, Types, Connected, Close
  PROVE  Connected'
<1>1. /\ pc = "close" /\ pc' = "accept" /\ peer' = NULL /\ partial' = <<>> /\ UNCHANGED waiting
      /\ link' = [link EXCEPT ![peer] = "none"]
      /\ stream' = [stream EXCEPT ![peer] = <<>>]
      /\ asked' = [asked EXCEPT ![peer] = <<>>]
      /\ replies' = [replies EXCEPT ![peer] = <<>>]
  BY DEF Close, Go, Move
<1>2. peer \in Clients
  BY <1>1, NetConsoleAssumption DEF IndInv, Sessions, Listening
<1>3. /\ stream'[peer] = <<>> /\ asked'[peer] = <<>> /\ replies'[peer] = <<>>
      /\ \A c \in Clients : c # peer =>
           /\ link'[c] = link[c] /\ stream'[c] = stream[c]
           /\ asked'[c] = asked[c] /\ replies'[c] = replies[c]
  BY <1>1, <1>2 DEF Types
<1>4. \A n \in DOMAIN waiting : waiting[n] # NULL /\ link'[waiting[n]] # "none"
  BY <1>3, WaitingClients, NetConsoleAssumption DEF Connected
<1>5. \A c \in Clients : link'[c] = "none" => stream'[c] = <<>> /\ asked'[c] = <<>>
  BY <1>3 DEF Connected
<1>6. \A c \in Clients : replies'[c] = <<>>
  BY <1>3 DEF Connected
<1>7. \A c \in Clients \ Polite : asked'[c] = <<>>
  BY <1>3 DEF Connected
<1> QED  BY <1>1, <1>4, <1>5, <1>6, <1>7 DEF Connected

\* The socket is gone, and who waited with it.
LEMMA ConnectedSocketFails ==
  ASSUME IndInv, Connected, SocketFails
  PROVE  Connected'
<1>1. /\ waiting' = <<>> /\ UNCHANGED <<peer, stream, asked, replies, partial>>
      /\ link' = [c \in Clients |-> IF link[c] = "none" THEN "none" ELSE "reset"]
      /\ pc \in {"socket", "bind", "listen", "accept"} /\ pc' = "return"
  BY DEF SocketFails, Go, Move, received
<1>2. peer = NULL
  BY <1>1 DEF IndInv, Sessions, Listening
<1>3. \A c \in Clients : link'[c] = "none" => link[c] = "none"
  BY <1>1
<1>4. DOMAIN waiting' = {}
  BY <1>1
<1> QED  BY <1>1, <1>2, <1>3, <1>4 DEF Connected

\* What is read is taken off what was sent.
LEMMA ConnectedRead ==
  ASSUME IndInv, Types, Connected, Read
  PROVE  Connected'
<1>1. UNCHANGED <<peer, waiting, link, asked, received>> /\ peer \in Clients
  BY ReadTypes
<1>2. pc = "read" /\ pc' = "parse" /\ \E rest : stream' = [stream EXCEPT ![peer] = rest]
  BY DEF Read, ReadPortion, ReadSplitsName, ReadText, Move
<1>3. \A c \in Clients : link[c] = "none" => stream'[c] = stream[c]
  <2>1. peer # NULL
    BY <1>1, NetConsoleAssumption
  <2>2. \A c \in Clients : c # peer => stream'[c] = stream[c]
    BY <1>2 DEF Types
  <2>3. link[peer] # "none"
    BY <2>1 DEF Connected
  <2> QED  BY <2>2, <2>3
<1> QED  BY <1>1, <1>2, <1>3 DEF Connected, received

\* Only a polite client that is served gets a reply.
LEMMA ConnectedWriteOpen ==
  ASSUME IndInv, Types, Connected, WriteOpen
  PROVE  Connected'
<1>1. pc = "write" /\ pc' # "close" /\ UNCHANGED <<peer, waiting, link, stream, asked>>
  BY DEF WriteOpen, Written
<1>2. peer \in Clients /\ peer # NULL
  BY <1>1, NetConsoleAssumption DEF IndInv, Sessions, Listening
<1>3. \A c \in Clients : c # peer \/ c \notin Polite => replies'[c] = replies[c]
  <2>1. CASE UNCHANGED received
    BY <2>1 DEF received
  <2>2. CASE peer \in Polite /\ \E w : replies' = [replies EXCEPT ![peer] = Append(@, w)]
    BY <2>2 DEF Types
  <2>3. CASE peer \in Polite /\ UNCHANGED replies
    BY <2>3
  <2> QED  BY <2>1, <2>2, <2>3 DEF WriteOpen, Delivered
<1> QED  BY <1>1, <1>2, <1>3 DEF Connected

\* A client connects that was not.
LEMMA ConnectedConnect ==
  ASSUME IndInv, Types, Connected, NEW c \in Clients, Connect(c)
  PROVE  Connected'
<1>1. /\ link[c] = "none" /\ link' = [link EXCEPT ![c] = "open"] /\ waiting' = Append(waiting, c)
      /\ UNCHANGED <<pc, peer, stream, asked, replies, partial>>
  BY DEF Connect, Elsewhere, console, received
<1>2. PICK n \in Nat : n = Len(waiting) /\ waiting \in Seq(Clients)
  BY DEF IndInv, Sessions
<1>3. /\ DOMAIN waiting = 1 .. n /\ DOMAIN waiting' = 1 .. n + 1
      /\ waiting'[n + 1] = c /\ \A i \in 1 .. n : waiting'[i] = waiting[i]
  BY <1>1, <1>2
<1>4. \A i \in 1 .. n : waiting[i] # c
  BY <1>1, <1>3 DEF Connected
<1>5. link'[c] = "open" /\ \A d \in Clients : d # c => link'[d] = link[d]
  BY <1>1 DEF Types
<1>6. c # peer
  BY <1>1, NetConsoleAssumption DEF Connected
<1>7. \A i, j \in 1 .. n + 1 : waiting'[i] = waiting'[j] => i = j
  <2> SUFFICES ASSUME NEW i \in 1 .. n + 1, NEW j \in 1 .. n + 1, waiting'[i] = waiting'[j]
               PROVE  i = j
    OBVIOUS
  <2>1. (i \in 1 .. n \/ i = n + 1) /\ (j \in 1 .. n \/ j = n + 1)
    BY <1>2
  <2> QED  BY <1>3, <1>4, <2>1 DEF Connected
<1>8. \A i \in 1 .. n + 1 : waiting'[i] # peer /\ link'[waiting'[i]] # "none"
  <2> SUFFICES ASSUME NEW i \in 1 .. n + 1
               PROVE  waiting'[i] # peer /\ link'[waiting'[i]] # "none"
    OBVIOUS
  <2>1. CASE i = n + 1
    BY <2>1, <1>3, <1>5, <1>6
  <2>2. CASE i \in 1 .. n
    <3>1. waiting'[i] = waiting[i] /\ waiting[i] \in Clients /\ waiting[i] # c
      BY <2>2, <1>3, <1>4, WaitingClients
    <3> QED  BY <2>2, <3>1, <1>3, <1>5 DEF Connected
  <2>3. i = n + 1 \/ i \in 1 .. n
    BY <1>2
  <2> QED  BY <2>1, <2>2, <2>3
<1>9. peer # NULL => link'[peer] # "none"
  BY <1>5, <1>6 DEF Connected, IndInv, Sessions
<1>10. pc = "close" => link'[peer] # "open"
  <2>1. pc = "close" => peer \in Clients
    BY NetConsoleAssumption DEF IndInv, Sessions, Listening
  <2> QED  BY <2>1, <1>5, <1>6 DEF Connected
<1>11. \A d \in Clients : link'[d] = "none" => link[d] = "none"
  BY <1>5
<1> QED  BY <1>1, <1>3, <1>7, <1>8, <1>9, <1>10, <1>11 DEF Connected

\* A client that is connected sends something.
LEMMA ConnectedSends ==
  ASSUME Types, Connected, NEW c \in Clients, (c \in Polite /\ Ask(c)) \/ (c \notin Polite /\ Type(c))
  PROVE  Connected'
<1>1. /\ link[c] = "open"
      /\ UNCHANGED <<pc, peer, waiting, link, replies, partial>>
  BY DEF Ask, Type, Elsewhere, console, received
<1>2. \A d \in Clients : d # c => stream'[d] = stream[d] /\ asked'[d] = asked[d]
  BY DEF Ask, Type, Types
<1>3. c \notin Polite => asked' = asked
  BY DEF Type
<1>4. \A d \in Clients : link[d] = "none" => stream'[d] = <<>> /\ asked'[d] = <<>>
  BY <1>1, <1>2 DEF Connected
<1>5. \A d \in Clients \ Polite : asked'[d] = <<>>
  BY <1>2, <1>3 DEF Connected
<1> QED  BY <1>1, <1>4, <1>5 DEF Connected

\* No client is connected twice, and none leaves anything behind.
LEMMA ConnectedInvariance == Spec => []Connected
<1>1. FirmwareInit => Connected
  BY NetConsoleAssumption DEF FirmwareInit, Init, Idle, Connected
<1>2. IndInv /\ Machine /\ Types /\ Connected /\ [FirmwareNext]_allVars => Connected'
  <2> SUFFICES ASSUME IndInv, Machine, Types, Connected, [FirmwareNext]_allVars PROVE Connected'
    OBVIOUS
  <2>1. CASE ConsoleNext
    <3>1. CASE ConsoleThread \/ SocketFails
      BY <3>1, BreakingSteps, ConnectedBreaks, ConnectedAccept, ConnectedClose, ConnectedRead,
         ConnectedWriteOpen, ConnectedSocketFails DEF ConsoleThread
    <3>2. CASE \E c \in Clients : Leave(c) \/ KeepAliveExpires(c)
      BY <3>2, BreakingSteps, ConnectedBreaks
    <3>3. CASE (\E c \in Polite : Ask(c)) \/ (\E c \in Clients \ Polite : Type(c))
      BY <3>3, ConnectedSends, NetConsoleAssumption
    <3> QED  BY <2>1, <3>1, <3>2, <3>3 DEF ConsoleNext
  <2>2. CASE Arrive
    BY <2>2, ConnectedConnect DEF Arrive
  <2>3. CASE MainStep \/ GotIp \/ LostLink \/ CoreHandlesEvent \/ ServiceAborts \/ UNCHANGED allVars
    BY <2>3, BreakingSteps, ConnectedBreaks
  <2>4. CASE Restart
    <3>1. /\ pc' = "off" /\ peer' = NULL /\ waiting' = <<>> /\ partial' = <<>>
          /\ link' = [c \in Clients |-> "none"] /\ stream' = [c \in Clients |-> <<>>]
          /\ asked' = [c \in Clients |-> <<>>] /\ replies' = [c \in Clients |-> <<>>]
      BY <2>4 DEF Restart, BackToIdle
    <3> QED  BY <3>1 DEF Connected
  <2> QED  BY <2>1, <2>2, <2>3, <2>4 DEF FirmwareNext
<1> QED  BY <1>1, <1>2, Invariance, MachineInvariance, TypesInvariance, PTL DEF Spec

-------------------------------------------------------------------------------
(* Requests and replies                                                    *)

\* Client c has asked for something and has no reply yet, and for what.
Waits(c) == Len(asked[c]) = Len(replies[c]) + 1
Current(c) == asked[c][Len(replies[c]) + 1]

\* How far the console is with request r of the client it serves.
Progress(r) ==
  /\ stream[peer] = <<>>
  /\ pc = "parse" => line = Front(LineOf(r))
  /\ pc = "args" => /\ line = Front(LineOf(r)) /\ name = <<r.name>>
                    /\ args = <<>> => save = IF r.args = <<>> THEN 2 ELSE 3
                    /\ args # <<>> => r.args # <<>>
  /\ pc = "reply" => name = <<r.name>> /\ (args = <<>> <=> r.args = <<>>)
  /\ pc \in {"parse", "args", "reply"} => partial = <<>>
  /\ pc = "write" => partial \o out = ReplyTo(r)

\* The line of its request is on its way, or the console has it.
InHand(c) ==
  IF c = peer /\ pc # "read"
  THEN Waits(c) /\ Progress(Current(c))
  ELSE /\ stream[c] = IF Waits(c) THEN LineOf(Current(c)) ELSE <<>>
       /\ c = peer => partial = <<>>

Talk(c) ==
  /\ Len(asked[c]) = Len(replies[c]) \/ Waits(c)
  /\ link[c] = "open" => InHand(c)

\* A polite client has at most one request that is not answered; while it is
\* connected, what it has sent and the console has not dealt with is that.
Dialogue == \A c \in Polite : Talk(c)

\* A client to whom nothing happens.
LEMMA TalkElsewhere ==
  ASSUME NEW c, Talk(c), c # peer, c # peer',
         link'[c] = "open" => link[c] = "open",
         stream'[c] = stream[c], asked'[c] = asked[c], replies'[c] = replies[c]
  PROVE  Talk(c)'
  BY DEF Talk, InHand, Waits, Current

\* The console and the client it serves stay where they are.
LEMMA TalkSame ==
  ASSUME NEW c, Talk(c), UNCHANGED <<pc, line, save, name, args, out, peer, partial>>,
         link'[c] = "open" => link[c] = "open",
         stream'[c] = stream[c], asked'[c] = asked[c], replies'[c] = replies[c]
  PROVE  Talk(c)'
  BY DEF Talk, InHand, Waits, Current, Progress

\* A connection that is not open promises nothing more.
LEMMA TalkOver ==
  ASSUME NEW c, Talk(c), link'[c] # "open", asked'[c] = asked[c], replies'[c] = replies[c]
  PROVE  Talk(c)'
  BY DEF Talk, Waits

\* The steps by which links break, but for the thread's own.
LEMMA DialogueBreaks ==
  ASSUME IndInv, Machine, Types, Dialogue,
         \/ OpenSocket \/ SocketFails \/ MainReturns \/ ReadEnds \/ WriteLost \/ WriteReset
         \/ \E c \in Clients : Leave(c) \/ KeepAliveExpires(c)
         \/ MainStep \/ GotIp \/ LostLink \/ CoreHandlesEvent \/ ServiceAborts
         \/ UNCHANGED allVars
  PROVE  Dialogue'
<1> SUFFICES ASSUME NEW c \in Polite PROVE Talk(c)'
  BY DEF Dialogue
<1>1. c \in Clients /\ c # NULL /\ Talk(c)
  BY NetConsoleAssumption DEF Dialogue
<1>2. CASE SocketFails
  <2>1. /\ UNCHANGED <<peer, stream, asked, replies>> /\ pc \in {"socket", "bind", "listen", "accept"}
        /\ link' = [d \in Clients |-> IF link[d] = "none" THEN "none" ELSE "reset"]
    BY <1>2 DEF SocketFails, Go, Move, received
  <2>2. link'[c] # "open"
    BY <2>1, <1>1
  <2> QED  BY <2>1, <2>2, <1>1, TalkOver
<1>3. CASE ~SocketFails
  <2>1. Breaks
    BY <1>3, BreakingSteps
  <2>2. /\ UNCHANGED <<peer, stream, asked, replies, partial>>
        /\ link'[c] = "open" => link[c] = "open"
    BY <2>1, <1>1 DEF Breaks, received
  <2>3. CASE c # peer
    BY <2>2, <2>3, <1>1, TalkElsewhere
  <2>4. CASE c = peer /\ link'[c] # "open"
    BY <2>2, <2>4, <1>1, TalkOver
  <2>5. CASE c = peer /\ link'[c] = "open"
    <3>1. pc \in Listening \ {"accept"}
      BY <2>5, <1>1 DEF IndInv, Sessions
    <3>2. ~OpenSocket
      BY <3>1 DEF OpenSocket, Go, Move, Listening
    <3>3. ~ReadEnds
      BY <2>2, <2>5 DEF ReadEnds
    <3>4. ~WriteLost /\ ~WriteReset
      BY <2>2, <2>5 DEF WriteLost, WriteReset
    <3>5. StartConsole => UNCHANGED console
      BY <3>1 DEF StartConsole, Undisturbed, Go, Move, Listening
    <3>6. UNCHANGED console
      <4>1. CASE MainReturns \/ GotIp \/ LostLink \/ ServiceAborts \/ UNCHANGED allVars
        BY <4>1 DEF MainReturns, GotIp, LostLink, ServiceAborts, allVars, vars
      <4>2. CASE \E d \in Clients : Leave(d) \/ KeepAliveExpires(d)
        BY <4>2 DEF Leave, KeepAliveExpires, Elsewhere
      <4>3. CASE MainStep \/ CoreHandlesEvent
        BY <4>3, <3>5 DEF MainStep, AppMain, EmulatorMain, CoreHandlesEvent, Undisturbed
      <4> QED  BY <1>3, <3>2, <3>3, <3>4, <4>1, <4>2, <4>3
    <3> QED  BY <2>2, <3>6, <1>1, TalkSame DEF console, parsed
  <2> QED  BY <2>3, <2>4, <2>5
<1> QED  BY <1>2, <1>3

\* A session begins.
LEMMA DialogueAccept ==
  ASSUME IndInv, Connected, Dialogue, Accept
  PROVE  Dialogue'
<1> SUFFICES ASSUME NEW c \in Polite PROVE Talk(c)'
  BY DEF Dialogue
<1>1. c # NULL /\ Talk(c)
  BY NetConsoleAssumption DEF Dialogue
<1>2. pc = "accept" /\ pc' = "read" /\ UNCHANGED <<link, stream, asked, replies, partial>>
  BY DEF Accept, Go, Move, clients, received
<1>3. peer = NULL /\ partial = <<>>
  BY <1>2 DEF IndInv, Sessions, Listening, Connected
<1> QED  BY <1>1, <1>2, <1>3 DEF Talk, InHand, Waits, Current

\* A session ends.
LEMMA DialogueClose ==
  ASSUME IndInv, Types, Connected, Dialogue, Close
  PROVE  Dialogue'
<1> SUFFICES ASSUME NEW c \in Polite PROVE Talk(c)'
  BY DEF Dialogue
<1>1. c \in Clients /\ c # NULL /\ Talk(c)
  BY NetConsoleAssumption DEF Dialogue
<1>2. /\ pc = "close" /\ peer' = NULL
      /\ link' = [link EXCEPT ![peer] = "none"]
      /\ stream' = [stream EXCEPT ![peer] = <<>>]
      /\ asked' = [asked EXCEPT ![peer] = <<>>]
      /\ replies' = [replies EXCEPT ![peer] = <<>>]
  BY DEF Close, Go, Move
<1>3. CASE c # peer
  <2>1. /\ link'[c] = link[c] /\ stream'[c] = stream[c]
        /\ asked'[c] = asked[c] /\ replies'[c] = replies[c]
    BY <1>1, <1>2, <1>3 DEF Types
  <2> QED  BY <1>1, <1>2, <1>3, <2>1, TalkElsewhere
<1>4. CASE c = peer
  <2>1. link'[c] = "none" /\ asked'[c] = <<>> /\ replies'[c] = <<>>
    BY <1>1, <1>2, <1>4 DEF Types
  <2> QED  BY <2>1 DEF Talk, Waits
<1> QED  BY <1>3, <1>4

\* Of a polite client the read returns all that it has sent, which is the line
\* of its request.
LEMMA DialogueRead ==
  ASSUME IndInv, Types, Dialogue, Read
  PROVE  Dialogue'
<1> SUFFICES ASSUME NEW c \in Polite PROVE Talk(c)'
  BY DEF Dialogue
<1>1. c \in Clients /\ Talk(c)
  BY NetConsoleAssumption DEF Dialogue
<1>2. UNCHANGED <<peer, waiting, link, asked, replies, partial>> /\ peer \in Clients
  BY ReadTypes DEF received
<1>3. pc = "read"
  BY DEF Read
<1>4. CASE c # peer
  <2>1. \E rest : stream' = [stream EXCEPT ![peer] = rest]
    BY DEF Read, ReadPortion, ReadSplitsName, ReadText
  <2>2. stream'[c] = stream[c]
    BY <2>1, <1>1, <1>4 DEF Types
  <2> QED  BY <1>1, <1>2, <1>4, <2>2, TalkElsewhere
<1>5. CASE c = peer /\ link[c] # "open"
  BY <1>1, <1>2, <1>5, TalkOver
<1>6. CASE c = peer /\ link[c] = "open"
  <2>1. PICK n \in ReadLengths(c) :
          ReadText(SubSeq(stream[c], 1, n), SubSeq(stream[c], n + 1, Len(stream[c])))
    BY <1>6 DEF Read, ReadPortion, ReadSplitsName
  <2>2. PICK m \in Nat : m = Len(stream[c])
    BY <1>1 DEF Types
  <2>3. n # 0 /\ n = IF m <= ReadSize THEN m ELSE ReadSize
    <3>1. ReadLengths(c) = {IF m <= ReadSize THEN m ELSE ReadSize} \ {0}
      BY <2>2 DEF ReadLengths
    <3> QED  BY <3>1
  <2>4. partial = <<>> /\ stream[c] = IF Waits(c) THEN LineOf(Current(c)) ELSE <<>>
    BY <1>1, <1>3, <1>6 DEF Talk, InHand
  <2>5. Waits(c)
    <3>1. stream[c] = <<>> => m = 0
      BY <2>2
    <3>2. stream[c] # <<>>
      BY <2>2, <2>3, <3>1, NetConsoleAssumption
    <3> QED  BY <2>4, <3>2
  <2>6. Current(c) \in Requests
    <3>1. asked[c] \in Seq(Requests) /\ Len(replies[c]) \in Nat
      BY <1>1 DEF Types
    <3> QED  BY <2>5, <3>1 DEF Waits, Current
  <2> DEFINE l == LineOf(Current(c))
  <2>7. stream[c] = l /\ l \in Seq(Symbols) /\ l # <<>> /\ m <= ReadSize /\ l[m] = "nl"
    BY <2>2, <2>4, <2>5, <2>6, LineProperties
  <2>8. n = m
    BY <2>3, <2>7
  <2> HIDE DEF l
  <2>9. SubSeq(l, 1, m) = l /\ SubSeq(l, m + 1, m) = <<>>
    BY <2>2, <2>7
  <2>10. ReadText(l, <<>>)
    BY <2>1, <2>2, <2>7, <2>8, <2>9
  <2>11. Last(l) = "nl"
    BY <2>2, <2>7 DEF Last
  <2>12. Terminated(l) = {Front(l)}
    <3>1. Shortened("nl") = {<<>>}
      BY DEF Shortened, Commands
    <3>2. Front(l) \o <<>> = Front(l)
      BY <2>7, FrontLast, ConcatEmptySeq
    <3>3. Terminated(l) = {Front(l) \o s : s \in {<<>>}}
      BY <2>11, <3>1 DEF Terminated
    <3> QED  BY <3>2, <3>3
  <2>13. line' = Front(l) /\ pc' = "parse" /\ stream'[c] = <<>>
    <3>1. line' = text' /\ text' \in Terminated(l) /\ pc' = "parse"
          /\ stream' = [stream EXCEPT ![peer] = <<>>]
      BY <2>10 DEF ReadText, Move
    <3>2. stream'[c] = <<>>
      BY <3>1, <1>1, <1>6 DEF Types
    <3> QED  BY <2>12, <3>1, <3>2
  <2>14. asked'[c] = asked[c] /\ replies'[c] = replies[c] /\ peer' = c /\ partial' = <<>>
    BY <1>2, <1>6, <2>4
  <2>15. Waits(c)' /\ Current(c)' = Current(c)
    BY <2>5, <2>14 DEF Waits, Current
  <2>16. Progress(Current(c))'
    BY <2>13, <2>14, <2>15 DEF Progress, l
  <2> QED  BY <2>13, <2>14, <2>15, <2>16 DEF Talk, InHand
<1> QED  BY <1>4, <1>5, <1>6

\* The thread is in the session of c, whose request it has.
LEMMA TalkProgress ==
  ASSUME NEW c, Talk(c), UNCHANGED <<peer, link, stream, asked, replies>>, c = peer, pc # "read",
         pc' # "read", NEW r, r = Current(c), Progress(r)'
  PROVE  Talk(c)'
<1>1. Waits(c)' = Waits(c) /\ Current(c)' = r
  BY DEF Waits, Current
<1>2. Progress(Current(c))'
  BY <1>1 DEF Progress
<1> QED  BY <1>1, <1>2 DEF Talk, InHand, Waits

\* The parts of the line of a request lead to its reply.
LEMMA DialogueRun ==
  ASSUME IndInv, Types, Parsing, Dialogue, RunStep
  PROVE  Dialogue'
<1> SUFFICES ASSUME NEW c \in Polite PROVE Talk(c)'
  BY DEF Dialogue
<1>1. c \in Clients /\ Talk(c)
  BY NetConsoleAssumption DEF Dialogue
<1>2. UNCHANGED <<peer, link, stream, asked, replies, partial>>
  BY DEF RunStep, clients, received
<1>3. pc \in {"parse", "args", "reply"} /\ pc' # "read"
  BY DEF RunStep, ConsoleStep, ParseName, ParseArg, ArgsFull, RunCommand
<1>4. CASE c # peer
  BY <1>1, <1>2, <1>4, TalkElsewhere
<1>5. CASE c = peer /\ link[c] # "open"
  BY <1>1, <1>2, <1>5, TalkOver
<1>6. CASE c = peer /\ link[c] = "open"
  <2>1. Waits(c) /\ Progress(Current(c))
    BY <1>1, <1>3, <1>6 DEF Talk, InHand
  <2>2. Current(c) \in Requests
    <3>1. asked[c] \in Seq(Requests) /\ Len(replies[c]) \in Nat
      BY <1>1 DEF Types
    <3> QED  BY <2>1, <3>1 DEF Waits, Current
  <2>3. PICK r \in Requests : r = Current(c)
    BY <2>2
  <2>4. Progress(r)
    BY <2>1, <2>3
  <2> DEFINE l == Front(LineOf(r))
  <2>5. PICK S : args \in Seq(S)
    BY DEF IndInv, Replies
  <2>6. /\ l \in Seq(Symbols)
        /\ Strtok(l, 1, {"nl"}).token = l
        /\ Strtok(l, 1, {"="}).token = <<r.name>>
        /\ Strtok(l, 1, {"="}).save = IF r.args = <<>> THEN 2 ELSE 3
        /\ r.args = <<>> => Strtok(l, 2, {";"}).token = <<>>
        /\ r.args # <<>> => Strtok(l, 3, {";"}).token # <<>>
    BY RequestParsed
  <2> HIDE DEF l
  <2> SUFFICES Progress(r)'
    BY <1>1, <1>2, <1>3, <1>6, <2>3, TalkProgress
  <2>7. CASE ParseName
    <3>1. pc = "parse" /\ line = l /\ partial = <<>> /\ args = <<>> /\ stream[peer] = <<>>
      BY <2>4, <2>7 DEF Progress, l, ParseName, Parsing
    <3>2. line' = l /\ name' = <<r.name>> /\ save' = (IF r.args = <<>> THEN 2 ELSE 3)
          /\ pc' = "args" /\ args' = <<>>
      <4>1. line' = l
        BY <2>6, <2>7, <3>1 DEF ParseName
      <4>2. /\ name' = Strtok(l, 1, {"="}).token /\ save' = Strtok(l, 1, {"="}).save
            /\ pc' = (IF Strtok(l, 1, {"="}).token = <<>> THEN "reply" ELSE "args")
            /\ args' = args
        BY <2>7, <4>1 DEF ParseName
      <4>3. <<r.name>> # <<>>
        OBVIOUS
      <4> QED  BY <2>6, <3>1, <4>1, <4>2, <4>3
    <3> QED  BY <1>2, <3>1, <3>2 DEF Progress, l
  <2>8. CASE ParseArg
    <3>1. /\ pc = "args" /\ line = l /\ name = <<r.name>> /\ partial = <<>> /\ stream[peer] = <<>>
          /\ args = <<>> => save = IF r.args = <<>> THEN 2 ELSE 3
          /\ args # <<>> => r.args # <<>>
      BY <2>4, <2>8 DEF Progress, l, ParseArg
    <3>2. UNCHANGED <<line, name>>
      BY <2>8 DEF ParseArg
    <3>3. CASE args' = Append(args, Strtok(line, save, {";"}).token)
               /\ Strtok(line, save, {";"}).token # <<>> /\ UNCHANGED pc
      <4>1. args' # <<>>
        <5> DEFINE t == Strtok(line, save, {";"}).token
        <5>1. args \in Seq(S \cup {t}) /\ t \in S \cup {t} /\ args' = Append(args, t)
          BY <2>5, <3>3, SeqMonotonic
        <5> HIDE DEF t
        <5> QED  BY <5>1
      <4>2. r.args # <<>>
        BY <2>6, <3>1, <3>3
      <4> QED  BY <1>2, <3>1, <3>2, <3>3, <4>1, <4>2 DEF Progress, l
    <3>4. CASE Strtok(line, save, {";"}).token = <<>> /\ pc' = "reply" /\ UNCHANGED args
      <4>1. args = <<>> <=> r.args = <<>>
        BY <2>6, <3>1, <3>4
      <4> QED  BY <1>2, <3>1, <3>2, <3>4, <4>1 DEF Progress
    <3> QED  BY <2>8, <3>3, <3>4 DEF ParseArg
  <2>9. CASE ArgsFull
    <3>1. pc = "args" /\ ~(Len(args) < CMD_ARGS_MAX_LENGTH) /\ pc' = "reply"
          /\ UNCHANGED <<name, args>>
      BY <2>9 DEF ArgsFull, ArgsLeft, parsed
    <3>2. args # <<>>
      BY <3>1, ConsoleAssumption
    <3> QED  BY <1>2, <2>4, <3>1, <3>2 DEF Progress
  <2>10. CASE RunCommand
    <3>1. /\ pc = "reply" /\ name = <<r.name>> /\ (args = <<>> <=> r.args = <<>>)
          /\ partial = <<>> /\ stream[peer] = <<>>
      BY <2>4, <2>10 DEF Progress, RunCommand
    <3>2. out' = Writes(name, args) /\ pc' = "write"
      BY <2>10 DEF RunCommand
    <3>3. out' = ReplyTo(r)
      BY <2>5, <3>1, <3>2, WritesReply
    <3>4. out' \in Seq(OwnTexts)
      BY <2>5, <3>2, WritesOwn
    <3>5. partial' \o out' = ReplyTo(r)
      BY <1>2, <3>1, <3>3, <3>4, ConcatEmptySeq
    <3> QED  BY <1>2, <3>1, <3>2, <3>5 DEF Progress
  <2> QED  BY <2>7, <2>8, <2>9, <2>10 DEF RunStep, ConsoleStep
<1> QED  BY <1>4, <1>5, <1>6

\* What the console is answering, and with which rest.
LEMMA Answering ==
  ASSUME IndInv, Types, Dialogue, WriteOpen, peer \in Polite
  PROVE  /\ peer \in Clients /\ Waits(peer) /\ Current(peer) \in Requests
         /\ Progress(Current(peer))
         /\ pc = "write" /\ out \in Seq(OwnTexts) /\ out # <<>>
         /\ partial \o out = ReplyTo(Current(peer))
<1>1. pc = "write" /\ link[peer] = "open" /\ out \in Seq(OwnTexts) /\ out # <<>>
  BY DEF WriteOpen, Written, IndInv, Replies
<1>2. peer \in Clients /\ Talk(peer)
  BY NetConsoleAssumption DEF Dialogue
<1>3. Waits(peer) /\ Progress(Current(peer))
  BY <1>1, <1>2 DEF Talk, InHand
<1>4. Current(peer) \in Requests
  <2>1. asked[peer] \in Seq(Requests) /\ Len(replies[peer]) \in Nat
    BY <1>2 DEF Types
  <2> QED  BY <1>3, <2>1 DEF Waits, Current
<1> QED  BY <1>1, <1>2, <1>3, <1>4 DEF Progress

\* With the last write the client has the whole reply.
LEMMA Answered ==
  ASSUME IndInv, Types, Dialogue, WriteOpen, peer \in Polite, Len(out) = 1
  PROVE  /\ replies' = [replies EXCEPT ![peer] = Append(replies[peer], ReplyTo(Current(peer)))]
         /\ partial' = <<>> /\ pc' = "read"
<1>1. /\ replies' = [replies EXCEPT ![peer] = Append(replies[peer], Append(partial, Head(out)))]
      /\ partial' = <<>> /\ pc' = "read"
  BY DEF WriteOpen, Delivered, Written
<1>2. Append(partial, Head(out)) = partial \o out
  BY Answering, Moved DEF Types
<1> QED  BY <1>1, <1>2, Answering

\* A write takes the reply on, the last one ends it.
LEMMA DialogueWriteOpen ==
  ASSUME IndInv, Types, Dialogue, WriteOpen
  PROVE  Dialogue'
<1> SUFFICES ASSUME NEW c \in Polite PROVE Talk(c)'
  BY DEF Dialogue
<1>1. c \in Clients /\ Talk(c)
  BY NetConsoleAssumption DEF Dialogue
<1>2. UNCHANGED <<peer, link, stream, asked>>
  BY DEF WriteOpen, Written
<1>3. CASE c # peer
  <2>1. replies'[c] = replies[c]
    <3>1. CASE UNCHANGED replies
      BY <3>1
    <3>2. CASE \E w : replies' = [replies EXCEPT ![peer] = Append(@, w)]
      BY <3>2, <1>1, <1>3 DEF Types
    <3> QED  BY <3>1, <3>2 DEF WriteOpen, Delivered, received
  <2> QED  BY <1>1, <1>2, <1>3, <2>1, TalkElsewhere
<1>4. CASE c = peer /\ Len(out) = 1
  <2>1. stream[c] = <<>> /\ Waits(c)
    BY <1>4, Answering DEF Progress
  <2>2. partial' = <<>> /\ pc' = "read"
    BY <1>4, Answered
  <2>3. PICK w : replies' = [replies EXCEPT ![peer] = Append(replies[peer], w)] /\ w \in Seq(OwnTexts)
    <3>1. partial \o out \in Seq(OwnTexts)
      BY <1>4, Answering DEF Types
    <3>2. ReplyTo(Current(peer)) \in Seq(OwnTexts)
      BY <1>4, <3>1, Answering
    <3> QED  BY <1>4, <3>2, Answered
  <2>4. Len(replies'[c]) = Len(replies[c]) + 1
    <3> DEFINE T == Seq(OwnTexts)
    <3>1. replies[c] \in Seq(T) /\ w \in T
      BY <1>1, <2>3 DEF Types
    <3> HIDE DEF T
    <3>2. replies'[c] = Append(replies[c], w)
      BY <1>1, <1>4, <2>3 DEF Types
    <3> QED  BY <3>1, <3>2
  <2>5. asked'[c] = asked[c] /\ stream'[c] = stream[c]
    BY <1>2
  <2>6. Len(replies[c]) \in Nat
    BY <1>1 DEF Types
  <2>7. Len(asked'[c]) = Len(replies'[c]) /\ ~Waits(c)'
    BY <2>1, <2>4, <2>5, <2>6 DEF Waits
  <2> QED  BY <2>1, <2>2, <2>5, <2>7 DEF Talk, InHand
<1>5. CASE c = peer /\ Len(out) # 1
  <2>1. PICK r \in Requests : r = Current(c)
    BY <1>5, Answering
  <2>2. /\ pc = "write" /\ pc' = "write" /\ out' = Tail(out)
        /\ partial' = Append(partial, Head(out)) /\ UNCHANGED replies
    BY <1>5 DEF WriteOpen, Written, Delivered
  <2>3. /\ stream[peer] = <<>> /\ partial \o out = ReplyTo(r)
        /\ out \in Seq(OwnTexts) /\ out # <<>>
    BY <1>5, <2>1, Answering DEF Progress
  <2>4. partial' \o out' = ReplyTo(r)
    <3>1. partial \in Seq(OwnTexts)
      BY DEF Types
    <3>2. Append(partial, Head(out)) \o Tail(out) = partial \o out
      BY <2>3, <3>1, Moved
    <3> QED  BY <2>2, <2>3, <3>2
  <2>5. Progress(r)'
    <3>1. stream'[peer'] = <<>> /\ pc' = "write"
      BY <1>2, <2>2, <2>3
    <3> QED  BY <2>4, <3>1 DEF Progress
  <2> QED  BY <1>1, <1>2, <1>5, <2>1, <2>2, <2>5, TalkProgress
<1> QED  BY <1>3, <1>4, <1>5

\* A client connects, or one that is not polite types.
LEMMA DialogueConnect ==
  ASSUME Types, Connected, Dialogue, NEW d \in Clients,
         Connect(d) \/ (d \notin Polite /\ Type(d))
  PROVE  Dialogue'
<1> SUFFICES ASSUME NEW c \in Polite PROVE Talk(c)'
  BY DEF Dialogue
<1>1. c \in Clients /\ c # NULL /\ Talk(c)
  BY NetConsoleAssumption DEF Dialogue
<1>2. UNCHANGED <<pc, line, save, name, args, out, peer, partial, asked, replies>>
  BY DEF Connect, Type, Elsewhere, console, parsed, received
<1>3. CASE c # d
  <2>1. link'[c] = link[c] /\ stream'[c] = stream[c]
    BY <1>1, <1>3 DEF Connect, Type, Types
  <2> QED  BY <1>1, <1>2, <2>1, TalkSame
<1>4. CASE c = d
  <2>1. link[c] = "none" /\ UNCHANGED stream
    BY <1>4 DEF Connect
  <2>2. stream[c] = <<>> /\ asked[c] = <<>> /\ c # peer
    BY <1>1, <2>1 DEF Connected
  <2>3. replies[c] = <<>>
    BY <1>1, <2>2 DEF Connected
  <2>4. ~Waits(c)' /\ Len(asked'[c]) = Len(replies'[c])
    BY <1>2, <2>2, <2>3 DEF Waits
  <2> QED  BY <1>2, <2>1, <2>2, <2>4 DEF Talk, InHand
<1> QED  BY <1>3, <1>4

\* A polite client makes a request: the console waits for it, or is not yet there.
LEMMA DialogueAsk ==
  ASSUME Types, Dialogue, NEW d \in Polite, Ask(d)
  PROVE  Dialogue'
<1> SUFFICES ASSUME NEW c \in Polite PROVE Talk(c)'
  BY DEF Dialogue
<1>1. c \in Clients /\ d \in Clients /\ Talk(c)
  BY NetConsoleAssumption DEF Dialogue
<1>2. /\ UNCHANGED <<pc, line, save, name, args, out, peer, partial, link, replies>>
      /\ link[d] = "open" /\ Len(asked[d]) = Len(replies[d])
  BY DEF Ask, Elsewhere, console, parsed, received
<1>3. PICK r \in Requests :
        /\ asked' = [asked EXCEPT ![d] = Append(asked[d], r)]
        /\ stream' = [stream EXCEPT ![d] = stream[d] \o LineOf(r)]
  BY DEF Ask
<1>4. CASE c # d
  <2>1. asked'[c] = asked[c] /\ stream'[c] = stream[c]
    BY <1>1, <1>3, <1>4 DEF Types
  <2> QED  BY <1>1, <1>2, <2>1, TalkSame
<1>5. CASE c = d
  <2>1. PICK n \in Nat : n = Len(asked[c]) /\ n = Len(replies[c])
    BY <1>1, <1>2, <1>5 DEF Types
  <2>2. ~Waits(c)
    BY <2>1 DEF Waits
  <2>3. (c = peer => pc = "read" /\ partial = <<>>) /\ stream[c] = <<>>
    BY <1>1, <1>2, <1>5, <2>2 DEF Talk, InHand
  <2>4. asked'[c] = Append(asked[c], r) /\ stream'[c] = stream[c] \o LineOf(r)
    BY <1>1, <1>3, <1>5 DEF Types
  <2>5. Len(asked'[c]) = n + 1 /\ asked'[c][n + 1] = r
    <3>1. asked[c] \in Seq(Requests)
      BY <1>1 DEF Types
    <3>2. Append(asked[c], r) \in Seq(Requests) /\ Len(Append(asked[c], r)) = n + 1
          /\ Append(asked[c], r)[n + 1] = r
      <4> DEFINE s == asked[c]
      <4>1. s \in Seq(Requests) /\ n = Len(s)
        BY <2>1, <3>1
      <4> HIDE DEF s
      <4>2. Append(s, r) \in Seq(Requests) /\ Len(Append(s, r)) = n + 1 /\ Append(s, r)[n + 1] = r
        BY <4>1
      <4> QED  BY <4>2 DEF s
    <3> QED  BY <2>4, <3>2
  <2>6. stream'[c] = LineOf(r)
    BY <2>3, <2>4, LineProperties, ConcatEmptySeq
  <2>7. Waits(c)' /\ Current(c)' = r
    BY <1>2, <2>1, <2>5 DEF Waits, Current
  <2> QED  BY <1>2, <2>3, <2>6, <2>7 DEF Talk, InHand
<1> QED  BY <1>4, <1>5

\* At every moment the console and a polite client agree on what was asked.
LEMMA DialogueInvariance == Spec => []Dialogue
<1>1. FirmwareInit => Dialogue
  <2> SUFFICES ASSUME FirmwareInit, NEW c \in Polite PROVE Talk(c)
    BY DEF Dialogue
  <2>1. c \in Clients
    BY NetConsoleAssumption
  <2>2. link[c] = "none" /\ asked[c] = <<>> /\ replies[c] = <<>>
    BY <2>1 DEF FirmwareInit, Init, Idle
  <2> QED  BY <2>2 DEF Talk
<1>2. /\ IndInv /\ Machine /\ Types /\ Parsing /\ Connected /\ Dialogue
      /\ [FirmwareNext]_allVars
      => Dialogue'
  <2> SUFFICES ASSUME IndInv, Machine, Types, Parsing, Connected, Dialogue,
                      [FirmwareNext]_allVars
               PROVE  Dialogue'
    OBVIOUS
  <2>1. CASE ConsoleNext
    <3>1. CASE ConsoleThread \/ SocketFails
      BY <3>1, DialogueBreaks, DialogueAccept, DialogueClose, DialogueRead, DialogueRun,
         DialogueWriteOpen DEF ConsoleThread
    <3>2. CASE \E c \in Clients : Leave(c) \/ KeepAliveExpires(c)
      BY <3>2, DialogueBreaks
    <3>3. CASE (\E c \in Polite : Ask(c)) \/ (\E c \in Clients \ Polite : Type(c))
      BY <3>3, DialogueAsk, DialogueConnect
    <3> QED  BY <2>1, <3>1, <3>2, <3>3 DEF ConsoleNext
  <2>2. CASE Arrive
    BY <2>2, DialogueConnect DEF Arrive
  <2>3. CASE MainStep \/ GotIp \/ LostLink \/ CoreHandlesEvent \/ ServiceAborts \/ UNCHANGED allVars
    BY <2>3, DialogueBreaks
  <2>4. CASE Restart
    <3> SUFFICES ASSUME NEW c \in Polite PROVE Talk(c)'
      BY DEF Dialogue
    <3>1. c \in Clients
      BY NetConsoleAssumption
    <3>2. /\ link' = [d \in Clients |-> "none"]
          /\ asked' = [d \in Clients |-> <<>>] /\ replies' = [d \in Clients |-> <<>>]
      BY <2>4 DEF Restart, BackToIdle
    <3>3. link'[c] = "none" /\ asked'[c] = <<>> /\ replies'[c] = <<>>
      BY <3>1, <3>2
    <3> QED  BY <3>3 DEF Talk
  <2> QED  BY <2>1, <2>2, <2>3, <2>4 DEF FirmwareNext
<1> QED
  BY <1>1, <1>2, Invariance, MachineInvariance, TypesInvariance, ParsingInvariance,
     ConnectedInvariance, PTL DEF Spec

-------------------------------------------------------------------------------
(* The theorems                                                            *)

\* Every variable of the program stays within its type: the saved pointer of
\* strtok_r within the line or just after it, the arguments within their array,
\* the text within the buffer of the read, a client in service exactly while the
\* thread is in its session, and no more replies than requests.
THEOREM TypeCorrect == Spec => []TypeOK
<1>1. IndInv /\ Machine /\ Types /\ Parsing /\ Connected /\ Dialogue => TypeOK
  <2> SUFFICES ASSUME IndInv, Machine, Types, Parsing, Connected, Dialogue PROVE TypeOK
    OBVIOUS
  <2>1. \A c \in Clients : Len(replies[c]) <= Len(asked[c])
    <3> SUFFICES ASSUME NEW c \in Clients PROVE Len(replies[c]) <= Len(asked[c])
      OBVIOUS
    <3>1. Len(replies[c]) \in Nat /\ Len(asked[c]) \in Nat
      BY DEF Types
    <3>2. CASE c \in Polite
      BY <3>1, <3>2 DEF Dialogue, Talk, Waits
    <3>3. CASE c \notin Polite
      <4>1. replies[c] = <<>>
        BY <3>3 DEF Connected
      <4>2. Len(replies[c]) = 0
        BY <4>1
      <4> QED  BY <3>1, <4>2
    <3> QED  BY <3>2, <3>3
  <2>2. coreQueue \in 0 .. setting.addresses
    BY SettingNumbers DEF Machine
  <2>3. Range(waiting) \subseteq Clients
    BY WaitingClients DEF Range
  <2>4. /\ setting \in Settings
        /\ typed \in 0 .. setting.typed /\ sessions \in 0 .. setting.sessions
        /\ sys \in {"up", "abort", "killed"}
        /\ stage \in {"reset", "core", "hmi", "running"}
        /\ online \in BOOLEAN
        /\ addresses \in 0 .. setting.addresses
        /\ restarts \in 0 .. setting.restarts
    BY DEF Machine
  <2>5. /\ save \in 1 .. (Len(line) + 1) /\ Len(text) <= ReadSize
        /\ Len(args) <= CMD_ARGS_MAX_LENGTH
    BY DEF Parsing
  <2>6. /\ pc \in {"off", "socket", "bind", "listen", "return"} \cup Listening
        /\ peer \in Clients \cup {NULL}
        /\ peer # NULL <=> pc \in Listening \ {"accept"}
    BY DEF IndInv, Sessions
  <2>7. /\ Len(waiting) <= Backlog
        /\ link \in [Clients -> {"none", "open", "closed", "vanished", "reset"}]
        /\ \A c \in Clients : Len(asked[c]) <= setting.requests
    BY DEF Types, LinkStates
  <2> QED  BY <2>1, <2>2, <2>3, <2>4, <2>5, <2>6, <2>7 DEF TypeOK
<1> QED
  BY <1>1, Invariance, MachineInvariance, TypesInvariance, ParsingInvariance,
     ConnectedInvariance, DialogueInvariance, PTL

-------------------------------------------------------------------------------
(* The console as a server                                                 *)

\* What the polite clients see of a change.
LEMMA RestrictedChange ==
  ASSUME NEW T, NEW f \in [Clients -> T], NEW c \in Clients, NEW v
  PROVE  /\ c \in Polite =>
              Restrict([f EXCEPT ![c] = v], Polite) = [Restrict(f, Polite) EXCEPT ![c] = v]
         /\ c \notin Polite => Restrict([f EXCEPT ![c] = v], Polite) = Restrict(f, Polite)
         /\ c \in Polite => Restrict(f, Polite)[c] = f[c]
  BY NetConsoleAssumption DEF Restrict

\* The same of the requests and of the replies.
LEMMA Restricted ==
  ASSUME Types, NEW c \in Clients, NEW v
  PROVE  /\ c \in Polite =>
              /\ Restrict([asked EXCEPT ![c] = v], Polite) = [Restrict(asked, Polite) EXCEPT ![c] = v]
              /\ Restrict([replies EXCEPT ![c] = v], Polite)
                   = [Restrict(replies, Polite) EXCEPT ![c] = v]
              /\ Restrict(asked, Polite)[c] = asked[c]
              /\ Restrict(replies, Polite)[c] = replies[c]
         /\ c \notin Polite =>
              /\ Restrict([asked EXCEPT ![c] = v], Polite) = Restrict(asked, Polite)
              /\ Restrict([replies EXCEPT ![c] = v], Polite) = Restrict(replies, Polite)
<1> DEFINE A == Seq(Requests)
           B == Seq(Seq(OwnTexts))
<1>1. asked \in [Clients -> A] /\ replies \in [Clients -> B]
  BY DEF Types
<1> HIDE DEF A, B
<1>2. /\ c \in Polite =>
           Restrict([asked EXCEPT ![c] = v], Polite) = [Restrict(asked, Polite) EXCEPT ![c] = v]
      /\ c \notin Polite => Restrict([asked EXCEPT ![c] = v], Polite) = Restrict(asked, Polite)
      /\ c \in Polite => Restrict(asked, Polite)[c] = asked[c]
  BY <1>1, RestrictedChange
<1>3. /\ c \in Polite =>
           Restrict([replies EXCEPT ![c] = v], Polite) = [Restrict(replies, Polite) EXCEPT ![c] = v]
      /\ c \notin Polite => Restrict([replies EXCEPT ![c] = v], Polite) = Restrict(replies, Polite)
      /\ c \in Polite => Restrict(replies, Polite)[c] = replies[c]
  BY <1>1, RestrictedChange
<1> QED  BY <1>2, <1>3

\* The session of a client and what was said in it are left alone.
LEMMA ServerStutters ==
  ASSUME UNCHANGED <<peer, asked, replies>>
  PROVE  UNCHANGED Server!vars
  BY DEF Server!vars, Restrict

\* A session of a polite client begins, or one that the server does not know.
LEMMA ServerAccept ==
  ASSUME IndInv, Accept
  PROVE  Server!Next \/ UNCHANGED Server!vars
<1>1. pc = "accept" /\ UNCHANGED <<asked, replies>>
  BY DEF Accept, Go, Move, clients, received
<1>2. peer = NULL
  BY <1>1 DEF IndInv, Sessions, Listening
<1>3. NULL \notin Polite
  BY NetConsoleAssumption
<1>4. CASE peer' \in Polite
  <2>1. Server!Begin(peer')
    BY <1>1, <1>2, <1>3, <1>4 DEF Server!Begin
  <2> QED  BY <1>4, <2>1 DEF Server!Next
<1>5. CASE peer' \notin Polite
  BY <1>1, <1>2, <1>3, <1>5 DEF Server!vars
<1> QED  BY <1>4, <1>5

\* It ends.
LEMMA ServerClose ==
  ASSUME IndInv, Types, Close
  PROVE  Server!Next \/ UNCHANGED Server!vars
<1>1. /\ pc = "close" /\ peer' = NULL
      /\ asked' = [asked EXCEPT ![peer] = <<>>]
      /\ replies' = [replies EXCEPT ![peer] = <<>>]
  BY DEF Close, Go, Move
<1>2. peer \in Clients /\ NULL \notin Polite
  BY <1>1, NetConsoleAssumption DEF IndInv, Sessions, Listening
<1>3. CASE peer \in Polite
  <2>1. /\ Restrict(asked', Polite) = [Restrict(asked, Polite) EXCEPT ![peer] = <<>>]
        /\ Restrict(replies', Polite) = [Restrict(replies, Polite) EXCEPT ![peer] = <<>>]
    BY <1>1, <1>2, <1>3, Restricted
  <2>2. Server!End(peer)
    BY <1>1, <1>2, <1>3, <2>1 DEF Server!End
  <2> QED  BY <1>3, <2>2 DEF Server!Next
<1>4. CASE peer \notin Polite
  <2>1. /\ Restrict(asked', Polite) = Restrict(asked, Polite)
        /\ Restrict(replies', Polite) = Restrict(replies, Polite)
    BY <1>1, <1>2, <1>4, Restricted
  <2> QED  BY <1>1, <1>2, <1>4, <2>1 DEF Server!vars
<1> QED  BY <1>3, <1>4

\* A polite client asks.
LEMMA ServerAsk ==
  ASSUME Types, NEW c \in Polite, Ask(c)
  PROVE  Server!Next
<1>1. UNCHANGED <<peer, replies>> /\ Len(asked[c]) = Len(replies[c])
  BY DEF Ask, Elsewhere, received
<1>2. PICK r \in Requests : asked' = [asked EXCEPT ![c] = Append(asked[c], r)]
  BY DEF Ask
<1>3. c \in Clients
  BY NetConsoleAssumption
<1>4. /\ Restrict(asked', Polite) = [Restrict(asked, Polite) EXCEPT ![c] = Append(asked[c], r)]
      /\ Restrict(asked, Polite)[c] = asked[c] /\ Restrict(replies, Polite)[c] = replies[c]
  BY <1>2, <1>3, Restricted
<1>5. Server!Ask(c)
  BY <1>1, <1>4 DEF Server!Ask
<1> QED  BY <1>5 DEF Server!Next

\* The last write of a reply gives it, those before it are not seen.
LEMMA ServerWriteOpen ==
  ASSUME IndInv, Types, Dialogue, WriteOpen
  PROVE  Server!Next \/ UNCHANGED Server!vars
<1>1. UNCHANGED <<peer, asked>>
  BY DEF WriteOpen, Written
<1>2. CASE peer \in Polite /\ Len(out) = 1
  <2>1. /\ peer \in Clients /\ Waits(peer) /\ Current(peer) \in Requests
        /\ replies' = [replies EXCEPT ![peer] = Append(replies[peer], ReplyTo(Current(peer)))]
    BY <1>2, Answering, Answered
  <2>2. /\ Restrict(replies', Polite)
             = [Restrict(replies, Polite) EXCEPT
                  ![peer] = Append(replies[peer], ReplyTo(Current(peer)))]
        /\ Restrict(asked, Polite)[peer] = asked[peer]
        /\ Restrict(replies, Polite)[peer] = replies[peer]
    BY <1>2, <2>1, Restricted
  <2>3. Len(replies[peer]) < Len(asked[peer])
    <3>1. Len(replies[peer]) \in Nat
      BY <2>1 DEF Types
    <3> QED  BY <2>1, <3>1 DEF Waits
  <2>4. [r \in Requests |-> ReplyTo(r)][asked[peer][Len(replies[peer]) + 1]]
          = ReplyTo(Current(peer))
    BY <2>1 DEF Current
  <2>5. Server!Answer(peer)
    BY <1>1, <1>2, <2>2, <2>3, <2>4 DEF Server!Answer
  <2> QED  BY <1>2, <2>5 DEF Server!Next
<1>3. CASE ~(peer \in Polite /\ Len(out) = 1)
  <2>1. UNCHANGED replies
    BY <1>3 DEF WriteOpen, Delivered, received
  <2> QED  BY <1>1, <2>1, ServerStutters
<1> QED  BY <1>2, <1>3

\* A restart of the device.
LEMMA ServerRestart ==
  ASSUME Restart
  PROVE  Server!Next
<1>1. /\ peer' = NULL /\ asked' = [c \in Clients |-> <<>>] /\ replies' = [c \in Clients |-> <<>>]
  BY DEF Restart, BackToIdle
<1>2. NULL \notin Polite /\ Polite \subseteq Clients
  BY NetConsoleAssumption
<1>3. Restrict(asked', Polite) = [c \in Polite |-> <<>>]
      /\ Restrict(replies', Polite) = [c \in Polite |-> <<>>]
  BY <1>1, <1>2 DEF Restrict
<1>4. Server!Restart
  BY <1>1, <1>2, <1>3 DEF Server!Restart, Server!None
<1> QED  BY <1>4 DEF Server!Next

\* For its polite clients the program is the server of CommandServer: one
\* session at a time, to every request the reply that the table says, once and
\* in order, whatever other clients type, however they leave, and through
\* restarts.
THEOREM ConsoleIsCommandServer == Spec => ImplementsCommandServer
<1>1. FirmwareInit => Server!Init
  <2> SUFFICES ASSUME FirmwareInit PROVE Server!Init
    OBVIOUS
  <2>1. /\ peer = NULL /\ asked = [c \in Clients |-> <<>>] /\ replies = [c \in Clients |-> <<>>]
    BY DEF FirmwareInit, Init, Idle
  <2>2. NULL \notin Polite /\ Polite \subseteq Clients
    BY NetConsoleAssumption
  <2> QED  BY <2>1, <2>2 DEF Server!Init, Server!None, Restrict
<1>2. IndInv /\ Machine /\ Types /\ Dialogue /\ [FirmwareNext]_allVars
      => [Server!Next]_(Server!vars)
  <2> SUFFICES ASSUME IndInv, Machine, Types, Dialogue, [FirmwareNext]_allVars
               PROVE  Server!Next \/ UNCHANGED Server!vars
    OBVIOUS
  <2>1. CASE /\ \/ OpenSocket \/ MainReturns \/ ReadEnds \/ RunStep \/ WriteLost \/ WriteReset
                \/ \E c \in Clients : Leave(c) \/ KeepAliveExpires(c)
                \/ MainStep \/ GotIp \/ LostLink \/ CoreHandlesEvent \/ ServiceAborts
                \/ UNCHANGED allVars
    BY <2>1, BreakingSteps, ServerStutters DEF Breaks, received
  <2>2. CASE SocketFails
    BY <2>2, ServerStutters DEF SocketFails, received
  <2>3. CASE Read
    BY <2>3, ReadTypes, ServerStutters DEF received
  <2>4. CASE (\E c \in Clients \ Polite : Type(c)) \/ Arrive
    BY <2>4, ServerStutters DEF Type, Arrive, Connect, Elsewhere, received
  <2>5. CASE Accept \/ Close \/ WriteOpen
    BY <2>5, ServerAccept, ServerClose, ServerWriteOpen
  <2>6. CASE (\E c \in Polite : Ask(c)) \/ Restart
    BY <2>6, ServerAsk, ServerRestart
  <2>7. CASE ConsoleNext
    BY <2>7, <2>1, <2>2, <2>3, <2>4, <2>5, <2>6 DEF ConsoleNext, ConsoleThread
  <2> QED  BY <2>1, <2>4, <2>6, <2>7 DEF FirmwareNext
<1> QED
  BY <1>1, <1>2, Invariance, MachineInvariance, TypesInvariance, DialogueInvariance, PTL
  DEF Spec, ImplementsCommandServer, Server!Spec

-------------------------------------------------------------------------------
(* What strtok_r returns are the fields                                    *)

\* Where the fields of text s start, and how many do before position p.
Starts(s, d) == {i \in DOMAIN s : s[i] # d /\ (i > 1 => s[i - 1] = d)}
Passed(s, d, p) == {i \in Starts(s, d) : i < p}
Taken(s, d, p) == Cardinality(Passed(s, d, p))

\* Position p is not within a field.
Between(s, d, p) == p = 1 \/ p = Len(s) + 1 \/ s[p - 1] = d

\* There are finitely many.
LEMMA FinitelyMany ==
  ASSUME NEW S, NEW s \in Seq(S), NEW d, NEW T, T \subseteq Starts(s, d)
  PROVE  IsFiniteSet(T) /\ Cardinality(T) \in Nat /\ Cardinality(T) <= Cardinality(Starts(s, d))
<1>1. Len(s) \in Nat /\ Starts(s, d) \subseteq 1 .. Len(s)
  BY DEF Starts
<1>2. IsFiniteSet(1 .. Len(s))
  BY <1>1, FS_Interval
<1>3. IsFiniteSet(Starts(s, d))
  BY <1>1, <1>2, FS_Subset
<1>4. IsFiniteSet(T) /\ Cardinality(T) <= Cardinality(Starts(s, d))
  BY <1>3, FS_Subset
<1> QED  BY <1>4, FS_CardinalityType

\* Fields has an entry for each start.
LEMMA FieldsLength ==
  ASSUME NEW S, NEW s \in Seq(S), NEW d
  PROVE  /\ Cardinality(Starts(s, d)) \in Nat
         /\ DOMAIN Fields(s, d) = 1 .. Cardinality(Starts(s, d))
         /\ Len(Fields(s, d)) = Cardinality(Starts(s, d))
         /\ Fields(s, d) = <<>> <=> Cardinality(Starts(s, d)) = 0
<1>1. Cardinality(Starts(s, d)) \in Nat
  BY FinitelyMany
<1> DEFINE m == Cardinality(Starts(s, d))
           end(i) == CHOOSE j \in i .. Len(s) :
                       (\A k \in i .. j : s[k] # d) /\ (j < Len(s) => s[j + 1] = d)
           start(n) == CHOOSE i \in Starts(s, d) :
                         Cardinality({j \in Starts(s, d) : j <= i}) = n
           field(n) == SubSeq(s, start(n), end(start(n)))
<1>2. Fields(s, d) = [n \in 1 .. m |-> field(n)]
  BY DEF Fields, Starts
<1> HIDE DEF m, field
<1>3. m \in Nat /\ Fields(s, d) = [n \in 1 .. m |-> field(n)]
  BY <1>1, <1>2 DEF m
<1> QED  BY <1>3 DEF m

\* Fields numbers the fields in the order of their starts and ends each of them
\* where strtok_r ends it.
LEMMA FieldAt ==
  ASSUME NEW S, NEW s \in Seq(S), NEW d, NEW a \in Starts(s, d), NEW b \in a .. Len(s) + 1,
         \A k \in a .. b - 1 : s[k] # d,
         b <= Len(s) => s[b] = d
  PROVE  LET n == Cardinality({j \in Starts(s, d) : j <= a}) IN
           n \in 1 .. Cardinality(Starts(s, d)) /\ Fields(s, d)[n] = SubSeq(s, a, b - 1)
<1> DEFINE starts == Starts(s, d)
           upTo(i) == {j \in starts : j <= i}
           n == Cardinality(upTo(a))
           end(i) == CHOOSE j \in i .. Len(s) :
                       (\A k \in i .. j : s[k] # d) /\ (j < Len(s) => s[j + 1] = d)
           start(m) == CHOOSE i \in starts : Cardinality(upTo(i)) = m
<1>1. Len(s) \in Nat /\ starts \subseteq 1 .. Len(s) /\ a \in starts
  BY DEF Starts
<1>2. Fields(s, d) =
        [m \in 1 .. Cardinality(starts) |-> SubSeq(s, start(m), end(start(m)))]
  BY DEF Fields, Starts
<1>3. \A i : IsFiniteSet(upTo(i)) /\ Cardinality(upTo(i)) \in Nat
             /\ Cardinality(upTo(i)) <= Cardinality(starts)
  <2> TAKE i
  <2>1. upTo(i) \subseteq Starts(s, d)
    OBVIOUS
  <2> HIDE DEF upTo
  <2> QED  BY <2>1, FinitelyMany
<1>4. start(n) = a
  <2>1. ASSUME NEW i \in starts, NEW j \in starts, i < j,
               Cardinality(upTo(i)) = Cardinality(upTo(j))
        PROVE  FALSE
    <3>1. upTo(i) \subseteq upTo(j)
      BY <1>1, <2>1
    <3>2. upTo(i) = upTo(j)
      <4> HIDE DEF upTo
      <4> QED  BY <1>3, <2>1, <3>1, FS_Subset
    <3>3. j \in upTo(j) /\ j \notin upTo(i)
      BY <1>1, <2>1
    <3> QED  BY <3>2, <3>3
  <2>2. \A i \in starts : Cardinality(upTo(i)) = Cardinality(upTo(a)) => i = a
    <3> HIDE DEF upTo, starts
    <3>1. \A i \in starts : i \in Nat
      BY <1>1
    <3> QED  BY <1>1, <2>1, <3>1
  <2> HIDE DEF upTo, starts
  <2> QED  BY <1>1, <2>2
<1>5. end(a) = b - 1
  <2> HIDE DEF starts
  <2>1. a \in Nat /\ b \in Nat /\ a <= b /\ b <= Len(s) + 1 /\ 1 <= a /\ a <= Len(s)
    BY <1>1
  <2>2. a # b
    <3>1. s[a] # d
      BY DEF Starts
    <3> QED  BY <2>1, <3>1
  <2>3. /\ b - 1 \in a .. Len(s)
        /\ \A k \in a .. b - 1 : s[k] # d
        /\ b - 1 < Len(s) => s[(b - 1) + 1] = d
    BY <1>1, <2>1, <2>2
  <2>4. ASSUME NEW j \in a .. Len(s), \A k \in a .. j : s[k] # d, j < Len(s) => s[j + 1] = d
        PROVE  j = b - 1
    <3>1. j \in Nat
      BY <2>1, <2>4
    <3>2. CASE j < b - 1
      <4>1. j + 1 \in a .. b - 1 /\ j < Len(s)
        BY <1>1, <2>1, <3>1, <3>2, <2>4
      <4> QED  BY <4>1, <2>4
    <3>3. CASE j > b - 1
      <4>1. b \in a .. j /\ b <= Len(s)
        BY <1>1, <2>1, <3>1, <3>3, <2>4
      <4> QED  BY <4>1, <2>4
    <3> QED  BY <2>1, <3>1, <3>2, <3>3
  <2> QED  BY <2>3, <2>4
<1>6. n \in 1 .. Cardinality(starts)
  <2>1. a \in upTo(a)
    BY <1>1
  <2>2. n # 0
    <3> HIDE DEF upTo
    <3> QED  BY <1>3, <2>1, FS_EmptySet
  <2> HIDE DEF upTo, starts
  <2> QED  BY <1>3, <2>2
<1>7. Fields(s, d)[n] = SubSeq(s, start(n), end(start(n)))
  <2> HIDE DEF start, end, n, starts
  <2> QED  BY <1>2, <1>6
<1> QED  BY <1>4, <1>5, <1>6, <1>7

\* A call of strtok_r between two fields gives the next one, and leaves its
\* pointer between two fields.
LEMMA NextField ==
  ASSUME NEW S, NEW s \in Seq(S), NEW d, NEW p \in 1 .. Len(s) + 1, Between(s, d, p)
  PROVE  LET t == Strtok(s, p, {d}) IN
           /\ Between(s, d, t.save)
           /\ t.token = <<>> => Taken(s, d, p) = Cardinality(Starts(s, d))
           /\ t.token # <<>> => /\ Taken(s, d, t.save) = Taken(s, d, p) + 1
                                /\ Taken(s, d, p) + 1 \in 1 .. Cardinality(Starts(s, d))
                                /\ t.token = Fields(s, d)[Taken(s, d, p) + 1]
<1> DEFINE a == SkipOver(s, p, {d})
           b == StopAt(s, a, {d})
           t == Strtok(s, p, {d})
<1>1. Len(s) \in Nat /\ DOMAIN s = 1 .. Len(s)
  OBVIOUS
<1>2. /\ a \in p .. Len(s) + 1
      /\ a <= Len(s) => s[a] # d
      /\ \A k \in p .. a - 1 : s[k] = d
  BY Skips
<1> HIDE DEF a
<1>3. a \in 1 .. Len(s) + 1
  BY <1>1, <1>2
<1>4. /\ b \in a .. Len(s) + 1
      /\ b <= Len(s) => s[b] = d
      /\ \A k \in a .. b - 1 : s[k] # d
  BY <1>3, Stops
<1>5. /\ t.token = SubSeq(s, a, b - 1)
      /\ t.save = IF b <= Len(s) THEN b + 1 ELSE b
  BY DEF Strtok, a
<1>6. t.token = <<>> <=> \A k \in p .. Len(s) : s[k] = d
  <2>1. t.token = <<>> <=> \A k \in p .. Len(s) : s[k] \in {d}
    BY StrtokTokenizes, Zenon
  <2> HIDE DEF t
  <2> QED  BY <2>1
<1> HIDE DEF b, t
<1>7. a \in Nat /\ b \in Nat /\ p \in Nat /\ p <= a /\ a <= b /\ b <= Len(s) + 1 /\ 1 <= p
  BY <1>1, <1>2, <1>4
<1>8. Between(s, d, t.save)
  BY <1>1, <1>4, <1>5, <1>7 DEF Between
<1>9. ASSUME t.token = <<>>
      PROVE  Taken(s, d, p) = Cardinality(Starts(s, d))
  <2>1. Passed(s, d, p) = Starts(s, d)
    <3>1. \A k \in Starts(s, d) : k \in 1 .. Len(s) /\ s[k] # d
      BY <1>1 DEF Starts
    <3>2. \A k \in Starts(s, d) : k < p
      BY <1>1, <1>6, <1>7, <1>9, <3>1
    <3> QED  BY <3>2 DEF Passed
  <2> QED  BY <2>1 DEF Taken
<1>10. ASSUME t.token # <<>>
      PROVE  /\ Taken(s, d, t.save) = Taken(s, d, p) + 1
             /\ Taken(s, d, p) + 1 \in 1 .. Cardinality(Starts(s, d))
             /\ t.token = Fields(s, d)[Taken(s, d, p) + 1]
  <2> DEFINE upTo == {j \in Starts(s, d) : j <= a}
  <2>1. a <= Len(s)
    BY <1>1, <1>2, <1>6, <1>7, <1>10
  <2>2. a \in Starts(s, d)
    <3>1. ASSUME a > 1 PROVE s[a - 1] = d
      <4>1. CASE a = p
        BY <1>1, <2>1, <3>1, <4>1 DEF Between
      <4>2. CASE a > p
        BY <1>2, <1>7, <4>2
      <4> QED  BY <1>7, <4>1, <4>2
    <3> QED  BY <1>1, <1>2, <1>7, <2>1, <3>1 DEF Starts
  <2>3. \A j \in Starts(s, d) : j \in 1 .. Len(s) /\ s[j] # d /\ (j > 1 => s[j - 1] = d)
    BY <1>1 DEF Starts
  <2>4. \A j \in Starts(s, d) : j < a => j < p
    BY <1>1, <1>2, <1>7, <2>3
  <2>5. upTo = Passed(s, d, p) \cup {a} /\ a \notin Passed(s, d, p)
    <3>1. \A j \in Starts(s, d) : j <= a <=> (j < p \/ j = a)
      BY <1>7, <2>3, <2>4
    <3>2. a \notin Passed(s, d, p)
      BY <1>7 DEF Passed
    <3> QED  BY <2>2, <3>1, <3>2 DEF Passed
  <2>6. \A j \in Starts(s, d) : j < t.save <=> j <= a
    <3> SUFFICES ASSUME NEW j \in Starts(s, d) PROVE j < t.save <=> j <= a
      OBVIOUS
    <3>1. j \in Nat /\ j \in 1 .. Len(s) /\ s[j] # d
      BY <2>3
    <3>2. a # b
      BY <1>2, <1>4, <1>7, <2>1
    <3>3. j <= a => j < t.save
      BY <1>5, <1>7, <3>1, <3>2
    <3>4. ASSUME j > a, j < t.save PROVE FALSE
      <4>1. j <= b
        BY <1>5, <1>7, <3>1, <3>4
      <4>2. CASE j = b
        BY <1>4, <3>1, <4>2
      <4>3. CASE j < b
        <5>1. j - 1 \in a .. b - 1 /\ j > 1
          BY <1>7, <3>1, <3>4, <4>3
        <5> QED  BY <1>4, <2>3, <5>1
      <4> QED  BY <1>7, <3>1, <4>1, <4>2, <4>3
    <3>5. t.save \in Nat
      BY <1>1, <1>5, <1>7
    <3> QED  BY <1>7, <3>1, <3>3, <3>4, <3>5
  <2>7. Passed(s, d, t.save) = upTo
    BY <2>6 DEF Passed
  <2>8. IsFiniteSet(Passed(s, d, p)) /\ Cardinality(Passed(s, d, p)) \in Nat
    <3>1. Passed(s, d, p) \subseteq Starts(s, d)
      BY DEF Passed
    <3> QED  BY <3>1, FinitelyMany
  <2>9. Cardinality(upTo) = Taken(s, d, p) + 1
    <3> HIDE DEF upTo
    <3> QED  BY <2>5, <2>8, FS_AddElement DEF Taken
  <2>10. /\ Cardinality(upTo) \in 1 .. Cardinality(Starts(s, d))
         /\ Fields(s, d)[Cardinality(upTo)] = SubSeq(s, a, b - 1)
    BY <1>4, <2>2, FieldAt
  <2> QED  BY <1>5, <2>7, <2>9, <2>10 DEF Taken
<1> QED  BY <1>8, <1>9, <1>10 DEF t

-------------------------------------------------------------------------------
(* What is left of a line                                                  *)

\* strtok_r does in a line what it does in the rest of the line alone.
LEMMA InTheRest ==
  ASSUME NEW S, NEW s \in Seq(S), NEW D, NEW q \in 0 .. Len(s), NEW p \in 1 .. Len(s) - q + 1
  PROVE  LET r == SubSeq(s, q + 1, Len(s)) IN
           /\ r \in Seq(S) /\ Len(r) = Len(s) - q
           /\ Strtok(s, q + p, D).token = Strtok(r, p, D).token
           /\ Strtok(s, q + p, D).save = q + Strtok(r, p, D).save
<1> DEFINE r == SubSeq(s, q + 1, Len(s))
<1>1. Len(s) \in Nat /\ q \in Nat /\ p \in Nat
  OBVIOUS
<1>2. /\ r \in Seq(S) /\ Len(r) = Len(s) - q
      /\ \A k \in 1 .. Len(s) - q : r[k] = s[q + k]
  <2>1. \A k \in q + 1 .. Len(s) : s[k] \in S
    BY <1>1
  <2>2. /\ r \in Seq(S)
        /\ Len(r) = IF q + 1 <= Len(s) THEN Len(s) - (q + 1) + 1 ELSE 0
        /\ \A k \in 1 .. Len(s) - (q + 1) + 1 : r[k] = s[(q + 1) + k - 1]
    BY <1>1, <2>1, SubSeqProperties
  <2> HIDE DEF r
  <2>3. Len(r) = Len(s) - q
    BY <1>1, <2>2
  <2>4. \A k \in 1 .. Len(s) - q : r[k] = s[q + k]
    <3> SUFFICES ASSUME NEW k \in 1 .. Len(s) - q PROVE r[k] = s[q + k]
      OBVIOUS
    <3>1. k \in 1 .. Len(s) - (q + 1) + 1 /\ (q + 1) + k - 1 = q + k
      BY <1>1
    <3> QED  BY <2>2, <3>1
  <2> QED  BY <2>2, <2>3, <2>4
<1> HIDE DEF r
<1> DEFINE a == SkipOver(r, p, D)
           b == StopAt(r, a, D)
           x == SkipOver(s, q + p, D)
           y == StopAt(s, x, D)
<1>3. /\ a \in p .. Len(r) + 1
      /\ a <= Len(r) => r[a] \notin D
      /\ \A k \in p .. a - 1 : r[k] \in D
  <2>1. p \in 1 .. Len(r) + 1
    BY <1>1, <1>2
  <2> QED  BY <1>2, <2>1, Skips
<1>4. /\ x \in q + p .. Len(s) + 1
      /\ x <= Len(s) => s[x] \notin D
      /\ \A k \in q + p .. x - 1 : s[k] \in D
  <2>1. q + p \in 1 .. Len(s) + 1
    BY <1>1
  <2> QED  BY <2>1, Skips
<1> HIDE DEF a, x
<1>5. a \in Nat /\ x \in Nat /\ 1 <= a /\ p <= a /\ q + p <= x
  BY <1>1, <1>2, <1>3, <1>4
<1>6. x = q + a
  <2>1. CASE x < q + a
    <3>1. x <= Len(s) /\ x - q \in p .. a - 1 /\ x - q \in 1 .. Len(s) - q /\ q + (x - q) = x
      BY <1>1, <1>2, <1>3, <1>5, <2>1
    <3> QED  BY <1>2, <1>3, <1>4, <3>1
  <2>2. CASE x > q + a
    <3>1. a <= Len(r) /\ a \in 1 .. Len(s) - q /\ q + a \in q + p .. x - 1
      BY <1>1, <1>2, <1>4, <1>5, <2>2
    <3> QED  BY <1>2, <1>3, <1>4, <3>1
  <2> QED  BY <1>1, <1>5, <2>1, <2>2
<1>7. /\ b \in a .. Len(r) + 1
      /\ b <= Len(r) => r[b] \in D
      /\ \A k \in a .. b - 1 : r[k] \notin D
  <2>1. a \in 1 .. Len(r) + 1
    BY <1>2, <1>3, <1>5
  <2> QED  BY <1>2, <2>1, Stops
<1>8. /\ y \in x .. Len(s) + 1
      /\ y <= Len(s) => s[y] \in D
      /\ \A k \in x .. y - 1 : s[k] \notin D
  <2>1. x \in 1 .. Len(s) + 1
    BY <1>1, <1>4, <1>5
  <2> QED  BY <2>1, Stops
<1>9. /\ Strtok(r, p, D).token = SubSeq(r, a, b - 1)
      /\ Strtok(r, p, D).save = IF b <= Len(r) THEN b + 1 ELSE b
      /\ Strtok(s, q + p, D).token = SubSeq(s, x, y - 1)
      /\ Strtok(s, q + p, D).save = IF y <= Len(s) THEN y + 1 ELSE y
  BY DEF Strtok, a, x
<1> HIDE DEF b, y
<1>10. b \in Nat /\ y \in Nat /\ a <= b /\ x <= y /\ b <= Len(r) + 1 /\ y <= Len(s) + 1
  BY <1>1, <1>2, <1>5, <1>7, <1>8
<1>11. y = q + b
  <2>1. CASE y < q + b
    <3>1. y <= Len(s) /\ y - q \in a .. b - 1 /\ y - q \in 1 .. Len(s) - q /\ q + (y - q) = y
      BY <1>1, <1>2, <1>5, <1>6, <1>10, <2>1
    <3> QED  BY <1>2, <1>7, <1>8, <3>1
  <2>2. CASE y > q + b
    <3>1. b <= Len(r) /\ b \in 1 .. Len(s) - q /\ q + b \in x .. y - 1
      BY <1>1, <1>2, <1>5, <1>6, <1>10, <2>2
    <3> QED  BY <1>2, <1>7, <1>8, <3>1
  <2> QED  BY <1>1, <1>10, <2>1, <2>2
<1>12. SubSeq(r, a, b - 1) = SubSeq(s, q + a, q + b - 1)
  <2> DEFINE u == SubSeq(r, a, b - 1)
             v == SubSeq(s, q + a, q + b - 1)
  <2>1. \A k \in a .. b - 1 : r[k] \in S
    BY <1>1, <1>2, <1>5, <1>10
  <2>2. \A k \in q + a .. q + b - 1 : s[k] \in S
    BY <1>1, <1>2, <1>5, <1>10
  <2>3. /\ u \in Seq(S)
        /\ Len(u) = IF a <= b - 1 THEN (b - 1) - a + 1 ELSE 0
        /\ \A k \in 1 .. (b - 1) - a + 1 : u[k] = r[a + k - 1]
    BY <1>5, <1>10, <2>1, SubSeqProperties
  <2>4. /\ v \in Seq(S)
        /\ Len(v) = IF q + a <= q + b - 1 THEN (q + b - 1) - (q + a) + 1 ELSE 0
        /\ \A k \in 1 .. (q + b - 1) - (q + a) + 1 : v[k] = s[(q + a) + k - 1]
    <3>1. q + a \in Nat /\ q + b - 1 \in Int
      BY <1>1, <1>5, <1>10
    <3> QED  BY <2>2, <3>1, SubSeqProperties
  <2> HIDE DEF u, v
  <2>5. Len(u) = b - a /\ Len(v) = b - a
    BY <1>1, <1>5, <1>10, <2>3, <2>4
  <2>6. ASSUME NEW k \in 1 .. b - a PROVE u[k] = v[k]
    <3>1. /\ k \in 1 .. (b - 1) - a + 1 /\ k \in 1 .. (q + b - 1) - (q + a) + 1
          /\ a + k - 1 \in 1 .. Len(s) - q /\ q + (a + k - 1) = (q + a) + k - 1
      BY <1>1, <1>2, <1>5, <1>10
    <3> QED  BY <1>2, <2>3, <2>4, <3>1
  <2>7. u = v
    BY <2>3, <2>4, <2>5, <2>6, SeqEqual
  <2> QED  BY <2>7 DEF u, v
<1>13. Strtok(s, q + p, D).save = q + Strtok(r, p, D).save
  BY <1>1, <1>2, <1>9, <1>10, <1>11
<1>14. Strtok(s, q + p, D).token = Strtok(r, p, D).token
  <2>1. q + b - 1 = y - 1
    BY <1>1, <1>10, <1>11
  <2>2. SubSeq(s, x, y - 1) = SubSeq(r, a, b - 1)
    BY <1>6, <1>12, <2>1, Zenon
  <2> QED  BY <1>9, <2>2, Zenon
<1>15. r \in Seq(S) /\ Len(r) = Len(s) - q
  BY <1>2
<1> QED  BY <1>13, <1>14, <1>15, Zenon DEF r

\* The first field of a text, if it has any.
First(s, d) == IF Fields(s, d) = <<>> THEN <<>> ELSE Fields(s, d)[1]

\* No field starts before the first position.
LEMMA NonePassed ==
  ASSUME NEW S, NEW s \in Seq(S), NEW d
  PROVE  Between(s, d, 1) /\ Taken(s, d, 1) = 0
<1>1. Passed(s, d, 1) = {}
  BY DEF Passed, Starts
<1> QED  BY <1>1, FS_EmptySet DEF Between, Taken

\* The first token of a text is its first field.
LEMMA FirstField ==
  ASSUME NEW S, NEW s \in Seq(S), NEW d
  PROVE  /\ Strtok(s, 1, {d}).token = First(s, d)
         /\ First(s, d) = <<>> <=> Fields(s, d) = <<>>
<1> DEFINE t == Strtok(s, 1, {d})
           m == Cardinality(Starts(s, d))
<1>1. m \in Nat /\ (Fields(s, d) = <<>> <=> m = 0)
  BY FieldsLength
<1>2. 1 \in 1 .. Len(s) + 1
  OBVIOUS
<1>3. /\ t.token = <<>> => Taken(s, d, 1) = m
      /\ t.token # <<>> => /\ Taken(s, d, 1) + 1 \in 1 .. m
                           /\ t.token = Fields(s, d)[Taken(s, d, 1) + 1]
  BY <1>2, NextField, NonePassed
<1> HIDE DEF t, m
<1>4. /\ t.token = <<>> => m = 0
      /\ t.token # <<>> => 1 \in 1 .. m /\ t.token = Fields(s, d)[1]
  BY <1>3, NonePassed
<1> QED  BY <1>1, <1>4 DEF First, t

\* What comes after name n in a line, as ParsesFields has it.
Rest(s, n) ==
  LET before == CHOOSE i \in 0 .. Len(s) :
                  /\ \A k \in 1 .. i : s[k] = "="
                  /\ i < Len(s) => s[i + 1] # "="
  IN SubSeq(s, before + Len(n) + 2, Len(s))

\* That is what strtok_r has left.
LEMMA RestIsLeft ==
  ASSUME NEW S, NEW s \in Seq(S), Strtok(s, 1, {"="}).token # <<>>
  PROVE  LET t == Strtok(s, 1, {"="}) IN
           /\ t.save - 1 \in 0 .. Len(s)
           /\ Rest(s, t.token) = SubSeq(s, t.save, Len(s))
<1> DEFINE D == {"="}
           t == Strtok(s, 1, D)
           before == CHOOSE i \in 0 .. Len(s) :
                       /\ \A k \in 1 .. i : s[k] = "="
                       /\ i < Len(s) => s[i + 1] # "="
<1>1. Len(s) \in Nat /\ 1 \in 1 .. Len(s) + 1
  OBVIOUS
<1> DEFINE a == SkipOver(s, 1, D)
           b == StopAt(s, a, D)
<1>2. /\ a \in 1 .. Len(s) + 1
      /\ a <= Len(s) => s[a] \notin D
      /\ \A k \in 1 .. a - 1 : s[k] \in D
  BY <1>1, Skips
<1> HIDE DEF a
<1>3. /\ b \in a .. Len(s) + 1
      /\ b <= Len(s) => s[b] \in D
      /\ \A k \in a .. b - 1 : s[k] \notin D
  BY <1>2, Stops
<1>4. /\ t.token = SubSeq(s, a, b - 1)
      /\ t.save = IF b <= Len(s) THEN b + 1 ELSE b
  BY DEF Strtok, a
<1> HIDE DEF b, t
<1>5. a \in Nat /\ b \in Nat /\ 1 <= a /\ a <= b /\ b <= Len(s) + 1
  BY <1>1, <1>2, <1>3
<1>6. Len(t.token) = b - a
  <2>1. \A k \in a .. b - 1 : s[k] \in S
    BY <1>1, <1>5
  <2>2. Len(SubSeq(s, a, b - 1)) = IF a <= b - 1 THEN (b - 1) - a + 1 ELSE 0
    BY <1>5, <2>1, SubSeqProperties
  <2> QED  BY <1>4, <1>5, <2>2
<1>7. before = a - 1
  <2>1. /\ a - 1 \in 0 .. Len(s)
        /\ \A k \in 1 .. a - 1 : s[k] = "="
        /\ a - 1 < Len(s) => s[(a - 1) + 1] # "="
    BY <1>1, <1>2, <1>5
  <2>2. ASSUME NEW i \in 0 .. Len(s), \A k \in 1 .. i : s[k] = "=", i < Len(s) => s[i + 1] # "="
        PROVE  i = a - 1
    <3>1. i \in Nat
      OBVIOUS
    <3>2. CASE i < a - 1
      <4>1. i + 1 \in 1 .. a - 1 /\ i < Len(s)
        BY <1>1, <1>2, <1>5, <3>1, <3>2
      <4> QED  BY <2>1, <2>2, <4>1
    <3>3. CASE i > a - 1
      <4>1. a \in 1 .. i /\ a <= Len(s)
        BY <1>1, <1>5, <2>2, <3>1, <3>3
      <4> QED  BY <1>2, <2>2, <4>1
    <3> QED  BY <1>5, <3>1, <3>2, <3>3
  <2> QED  BY <2>1, <2>2
<1>8. Rest(s, t.token) = SubSeq(s, before + Len(t.token) + 2, Len(s))
  BY DEF Rest
<1> HIDE DEF before
<1>9. before + Len(t.token) + 2 = b + 1
  BY <1>5, <1>6, <1>7
<1>10. CASE b <= Len(s)
  BY <1>1, <1>4, <1>5, <1>8, <1>9, <1>10 DEF t
<1>11. CASE b = Len(s) + 1
  <2>1. t.save = Len(s) + 1 /\ b + 1 = Len(s) + 2
    BY <1>1, <1>4, <1>11
  <2>2. \A i \in Nat : i > Len(s) => SubSeq(s, i, Len(s)) = <<>>
    BY <1>1, SubSeqProperties
  <2> QED  BY <1>1, <1>8, <1>9, <2>1, <2>2 DEF t
<1> QED  BY <1>5, <1>10, <1>11

-------------------------------------------------------------------------------
(* The parser finds the fields                                             *)

\* What is left is a text again.
LEMMA RestTyped ==
  ASSUME NEW S, NEW s \in Seq(S), Strtok(s, 1, {"="}).token # <<>>
  PROVE  Rest(s, Strtok(s, 1, {"="}).token) \in Seq(S)
<1> DEFINE t == Strtok(s, 1, {"="})
           q == t.save - 1
<1>1. q \in 0 .. Len(s) /\ Rest(s, t.token) = SubSeq(s, t.save, Len(s))
  BY RestIsLeft
<1>2. 1 \in 1 .. Len(s) + 1 /\ Len(s) \in Nat
  OBVIOUS
<1>3. t.save \in 1 .. Len(s) + 1
  BY <1>2, StrtokTokenizes
<1> HIDE DEF t
<1>4. q + 1 = t.save /\ 1 \in 1 .. Len(s) - q + 1
  BY <1>1, <1>2, <1>3
<1> HIDE DEF q
<1>5. SubSeq(s, q + 1, Len(s)) \in Seq(S)
  BY <1>1, <1>4, InTheRest
<1> QED  BY <1>1, <1>4, <1>5 DEF t

\* How far the parser has come in the rest of a line.
Reached ==
  \E q \in 0 .. Len(line) :
    /\ Rest(line, name) = SubSeq(line, q + 1, Len(line))
    /\ \E p \in 1 .. Len(line) - q + 1 :
         /\ save = q + p /\ Between(Rest(line, name), ";", p)
         /\ Taken(Rest(line, name), ";", p) = Len(args)

\* The arguments found so far are the first fields of the rest.
Fielded ==
  /\ pc = "parse" => line = text
  /\ pc \in {"args", "reply"} => line = First(text, "nl") /\ name = First(line, "=")
  /\ pc \in {"args", "reply"} /\ name # <<>> =>
       LET fields == Fields(Rest(line, name), ";") IN
         /\ Len(args) <= Len(fields)
         /\ \A i \in 1 .. Len(args) : args[i] = fields[i]
         /\ pc = "args" => Reached
         /\ pc = "reply" => Len(args) \in {Len(fields), CMD_ARGS_MAX_LENGTH}
  /\ pc = "args" => name # <<>>
  /\ pc = "reply" /\ name = <<>> => args = <<>>

\* The name is the first field of the first line, and no argument is taken yet.
LEMMA NameFielded ==
  ASSUME IndInv, Parsing, Fielded, ParseName
  PROVE  Fielded'
<1> DEFINE t == Strtok(line', 1, {"="})
<1>1. /\ pc = "parse" /\ line = text /\ args = <<>> /\ text \in Seq(Symbols)
      /\ UNCHANGED <<text, args>>
  BY DEF ParseName, Fielded, Parsing
<1>2. line' = Strtok(text, 1, {"nl"}).token /\ \A s \in Seq(Symbols) : 1 \in 1 .. Len(s) + 1
  BY <1>1 DEF ParseName
<1>3. line' = First(text, "nl") /\ line' \in Seq(Symbols)
  BY <1>1, <1>2, FirstField, TokenTypes
<1>4. name' = t.token /\ save' = t.save /\ pc' = IF t.token = <<>> THEN "reply" ELSE "args"
  BY DEF ParseName
<1>5. t.token = First(line', "=")
  BY <1>3, FirstField
<1>6. CASE t.token = <<>>
  BY <1>1, <1>3, <1>4, <1>5, <1>6 DEF Fielded
<1>7. CASE t.token # <<>>
  <2> DEFINE rest == Rest(line', name')
             q == t.save - 1
  <2>1. q \in 0 .. Len(line') /\ rest = SubSeq(line', t.save, Len(line'))
    BY <1>3, <1>4, <1>7, RestIsLeft
  <2>2. t.save \in 1 .. Len(line') + 1
    BY <1>2, <1>3, TokenTypes
  <2> HIDE DEF t, rest
  <2>3. q + 1 = t.save /\ 1 \in 1 .. Len(line') - q + 1
    BY <1>3, <2>1, <2>2
  <2> HIDE DEF q
  <2>4. rest = SubSeq(line', q + 1, Len(line')) /\ save' = q + 1
    BY <1>4, <2>1, <2>3, Zenon
  <2>5. rest \in Seq(Symbols)
    <3>1. SubSeq(line', q + 1, Len(line')) \in Seq(Symbols)
      BY <1>3, <2>1, <2>3, InTheRest
    <3> QED  BY <2>4, <3>1, Zenon
  <2>6. Between(rest, ";", 1) /\ Taken(rest, ";", 1) = Len(args')
    BY <1>1, <2>5, NonePassed
  <2>7. Reached'
    BY <2>1, <2>3, <2>4, <2>6 DEF Reached, rest
  <2>8. Len(Fields(rest, ";")) \in Nat /\ Len(args') = 0
    BY <1>1, <2>5, FieldsLength
  <2>9. pc' = "args" /\ name' # <<>> /\ name' = First(line', "=")
    BY <1>4, <1>5, <1>7
  <2>10. line' = First(text', "nl")
    BY <1>1, <1>3
  <2>11. /\ Len(args') <= Len(Fields(rest, ";"))
         /\ \A i \in 1 .. Len(args') : args'[i] = Fields(rest, ";")[i]
    <3>1. 1 .. Len(args') = {} /\ Len(args') <= Len(Fields(rest, ";"))
      <4> HIDE DEF rest
      <4>1. \A n \in Nat : 1 .. 0 = {} /\ 0 <= n
        OBVIOUS
      <4> QED  BY <2>8, <4>1, Zenon
    <3> QED  BY <3>1, Zenon
  <2> QED  BY <2>7, <2>9, <2>10, <2>11 DEF Fielded, rest
<1> QED  BY <1>6, <1>7

\* A token more is an argument more, the next field.
LEMMA ArgFielded ==
  ASSUME IndInv, Parsing, Fielded, ParseArg
  PROVE  Fielded'
<1> DEFINE rest == Rest(line, name)
           fields == Fields(rest, ";")
           next == Strtok(line, save, {";"})
<1>1. /\ pc = "args" /\ line \in Seq(Symbols) /\ name # <<>>
      /\ line = First(text, "nl") /\ name = First(line, "=")
      /\ UNCHANGED <<text, line, name>>
  BY DEF ParseArg, Fielded, Parsing
<1>2. /\ Len(args) <= Len(fields) /\ \A i \in 1 .. Len(args) : args[i] = fields[i]
      /\ Reached
  BY <1>1 DEF Fielded
<1>3. PICK q \in 0 .. Len(line) :
        /\ rest = SubSeq(line, q + 1, Len(line))
        /\ \E p \in 1 .. Len(line) - q + 1 :
             save = q + p /\ Between(rest, ";", p) /\ Taken(rest, ";", p) = Len(args)
  BY <1>2 DEF Reached
<1>4. PICK p \in 1 .. Len(line) - q + 1 :
        save = q + p /\ Between(rest, ";", p) /\ Taken(rest, ";", p) = Len(args)
  BY <1>3
<1>5. line \in Seq(Symbols)
  BY <1>1
<1>6. q \in 0 .. Len(line) /\ p \in 1 .. Len(line) - q + 1
  BY <1>3, <1>4
<1> DEFINE t == Strtok(rest, p, {";"})
           m == Cardinality(Starts(rest, ";"))
<1> HIDE DEF rest
<1>7. /\ rest \in Seq(Symbols) /\ Len(rest) = Len(line) - q
      /\ next.token = t.token /\ next.save = q + t.save
  <2>1. /\ SubSeq(line, q + 1, Len(line)) \in Seq(Symbols)
        /\ Len(SubSeq(line, q + 1, Len(line))) = Len(line) - q
        /\ Strtok(line, q + p, {";"}).token = Strtok(SubSeq(line, q + 1, Len(line)), p, {";"}).token
        /\ Strtok(line, q + p, {";"}).save = q + Strtok(SubSeq(line, q + 1, Len(line)), p, {";"}).save
    BY <1>6, <1>5, InTheRest
  <2> QED  BY <1>3, <1>4, <2>1, Zenon
<1>8. Len(line) \in Nat /\ Len(line) - q + 1 = Len(rest) + 1 /\ p \in 1 .. Len(rest) + 1
  <2>1. Len(rest) = Len(line) - q /\ q \in 0 .. Len(line)
    BY <1>6, <1>7, Zenon
  <2>2. Len(line) \in Nat
    BY <1>5
  <2>3. Len(line) - q + 1 = Len(rest) + 1
    BY <2>1, <2>2
  <2> QED  BY <1>6, <2>2, <2>3, Zenon
<1>9. /\ Between(rest, ";", t.save)
      /\ t.token = <<>> => Len(args) = m
      /\ t.token # <<>> => /\ Taken(rest, ";", t.save) = Len(args) + 1
                           /\ Len(args) + 1 \in 1 .. m
                           /\ t.token = fields[Len(args) + 1]
  <2>1. /\ rest \in Seq(Symbols) /\ Between(rest, ";", p)
        /\ p \in 1 .. Len(rest) + 1 /\ Taken(rest, ";", p) = Len(args)
    BY <1>4, <1>7, <1>8, Zenon
  <2>2. /\ Between(rest, ";", t.save)
        /\ t.token = <<>> => Taken(rest, ";", p) = m
        /\ t.token # <<>> => /\ Taken(rest, ";", t.save) = Taken(rest, ";", p) + 1
                             /\ Taken(rest, ";", p) + 1 \in 1 .. m
                             /\ t.token = Fields(rest, ";")[Taken(rest, ";", p) + 1]
    BY <2>1, NextField
  <2> QED  BY <2>1, <2>2, Zenon DEF rest
<1>10. t.save \in 1 .. Len(line) - q + 1
  <2>1. t.save \in 1 .. Len(rest) + 1
    BY <1>7, <1>8, TokenTypes
  <2> QED  BY <1>7, <2>1
<1>11. m \in Nat /\ Len(fields) = m
  BY <1>7, FieldsLength
<1>12. /\ save' = next.save
      /\ \/ next.token # <<>> /\ args' = Append(args, next.token) /\ UNCHANGED pc
         \/ next.token = <<>> /\ pc' = "reply" /\ UNCHANGED args
  BY DEF ParseArg
<1>13. rest = Rest(line', name')
  BY <1>1 DEF rest
<1> HIDE DEF next, t, m, fields
<1>14. CASE next.token = <<>>
  <2>1. pc' = "reply" /\ UNCHANGED args /\ Len(args) = Len(fields)
    BY <1>7, <1>9, <1>11, <1>12, <1>14
  <2>2. Len(args') <= Len(fields) /\ \A i \in 1 .. Len(args') : args'[i] = fields[i]
    BY <1>2, <2>1
  <2> QED  BY <1>1, <1>13, <2>1, <2>2 DEF Fielded, fields
<1>15. CASE next.token # <<>>
  <2>1. pc' = "args" /\ args' = Append(args, t.token)
    BY <1>1, <1>7, <1>12, <1>15
  <2>2. /\ Len(args) \in Nat /\ Len(args') = Len(args) + 1
        /\ \A i \in 1 .. Len(args) : args'[i] = args[i]
        /\ args'[Len(args) + 1] = t.token
    <3>1. PICK T : args \in Seq(T)
      BY DEF IndInv, Replies
    <3>2. args \in Seq(T \cup {t.token})
      BY <3>1, SeqMonotonic
    <3> QED  BY <2>1, <3>2
  <2>3. /\ Taken(rest, ";", t.save) = Len(args) + 1 /\ Len(args) + 1 \in 1 .. m
        /\ t.token = fields[Len(args) + 1]
    BY <1>7, <1>9, <1>15
  <2>4. Len(args') <= Len(fields) /\ \A i \in 1 .. Len(args') : args'[i] = fields[i]
    <3>1. Len(args') <= Len(fields)
      <4>1. /\ Len(args) \in Nat /\ Len(args') = Len(args) + 1 /\ Len(args) + 1 \in 1 .. m
            /\ m \in Nat /\ Len(fields) = m
        BY <1>11, <2>2, <2>3, Zenon
      <4>2. Len(args) + 1 <= m
        BY <4>1
      <4> QED  BY <4>1, <4>2, Zenon
    <3>2. \A i \in 1 .. Len(args') : i \in 1 .. Len(args) \/ i = Len(args) + 1
      BY <2>2
    <3> QED  BY <1>2, <2>2, <2>3, <3>1, <3>2
  <2>5. Reached'
    <3>1. save' = q + t.save /\ Taken(rest, ";", t.save) = Len(args')
      BY <1>7, <1>12, <2>2, <2>3
    <3>2. q \in 0 .. Len(line') /\ rest = SubSeq(line', q + 1, Len(line'))
          /\ t.save \in 1 .. Len(line') - q + 1
      BY <1>1, <1>3, <1>10
    <3> QED  BY <1>9, <1>13, <3>1, <3>2, Zenon DEF Reached
  <2> QED  BY <1>1, <1>13, <2>1, <2>4, <2>5 DEF Fielded, fields, rest
<1> QED  BY <1>14, <1>15

\* The array is full.
LEMMA FullFielded ==
  ASSUME IndInv, Parsing, Fielded, ArgsFull
  PROVE  Fielded'
<1>1. /\ pc = "args" /\ pc' = "reply" /\ Len(args) >= CMD_ARGS_MAX_LENGTH
      /\ UNCHANGED <<text, line, name, args>>
  <2>1. Len(args) \in Nat
    BY DEF IndInv, Replies
  <2> QED  BY <2>1, ConsoleAssumption DEF ArgsFull, ArgsLeft, parsed
<1>2. Len(args) = CMD_ARGS_MAX_LENGTH
  <2>1. Len(args) \in Nat
    BY DEF IndInv, Replies
  <2> QED  BY <1>1, <2>1, ConsoleAssumption DEF Parsing
<1> QED  BY <1>1, <1>2 DEF Fielded

\* Outside of the parser nothing is claimed.
LEMMA NothingFielded ==
  ASSUME pc' \notin {"parse", "args", "reply"}
  PROVE  Fielded'
  BY DEF Fielded

\* A step outside of Console_RunCommand and read.
LEMMA FieldedSame ==
  ASSUME Fielded, UNCHANGED console
  PROVE  Fielded'
  BY DEF Fielded, Reached, console, parsed

\* What the parser has found are fields, at every moment of its loop.
LEMMA FieldedInvariance == Spec => []Fielded
<1>1. FirmwareInit => Fielded
  BY DEF FirmwareInit, Init, Idle, Fielded
<1>2. IndInv /\ Parsing /\ Fielded /\ [FirmwareNext]_allVars => Fielded'
  <2> SUFFICES ASSUME IndInv, Parsing, Fielded, [FirmwareNext]_allVars PROVE Fielded'
    OBVIOUS
  <2>1. CASE UNCHANGED console
    BY <2>1, FieldedSame
  <2>2. CASE OpenSocket \/ SocketFails \/ Accept \/ Close \/ ReadEnds \/ StartConsole
    <3>1. pc' \notin {"parse", "args", "reply"} \/ UNCHANGED console
      BY <2>2 DEF OpenSocket, SocketFails, Accept, Close, ReadEnds, StartConsole, Undisturbed,
                  Go, Move
    <3> QED  BY <2>1, <3>1, NothingFielded
  <2>3. CASE Read
    <3>1. pc' = "parse" /\ line' = text'
      BY <2>3 DEF Read, ReadPortion, ReadSplitsName, ReadText, Move
    <3> QED  BY <3>1 DEF Fielded
  <2>4. CASE RunStep
    BY <2>4, NameFielded, ArgFielded, FullFielded, NothingFielded
       DEF RunStep, ConsoleStep, RunCommand
  <2>5. CASE WriteOpen \/ WriteLost \/ WriteReset
    <3>1. UNCHANGED console \/ pc' \notin {"parse", "args", "reply"}
      BY <2>5 DEF WriteOpen, WriteLost, WriteReset, Written
    <3> QED  BY <2>1, <3>1, NothingFielded
  <2>6. CASE ConsoleNext
    <3>1. CASE ConsoleThread \/ SocketFails
      BY <3>1, <2>1, <2>2, <2>3, <2>4, <2>5 DEF ConsoleThread, MainReturns
    <3>2. CASE \/ \E c \in Polite : Ask(c)
               \/ \E c \in Clients \ Polite : Type(c)
               \/ \E c \in Clients : Leave(c) \/ KeepAliveExpires(c)
      BY <3>2, <2>1 DEF Ask, Type, Leave, KeepAliveExpires, Elsewhere
    <3> QED  BY <2>6, <3>1, <3>2 DEF ConsoleNext
  <2>7. CASE MainStep \/ CoreHandlesEvent
    BY <2>1, <2>2, <2>7 DEF MainStep, AppMain, EmulatorMain, CoreHandlesEvent, Undisturbed
  <2>8. CASE Arrive \/ GotIp \/ LostLink \/ ServiceAborts \/ UNCHANGED allVars
    BY <2>1, <2>8 DEF Arrive, Connect, Elsewhere, GotIp, LostLink, ServiceAborts, allVars, vars
  <2>9. CASE Restart
    BY <2>9, NothingFielded DEF Restart, BackToIdle
  <2> QED  BY <2>6, <2>7, <2>8, <2>9 DEF FirmwareNext
<1> QED  BY <1>1, <1>2, Invariance, ParsingInvariance, PTL DEF Spec

\* Console_ParseCommand finds in any text, with any number of separators and an
\* array of any size, the parts a reader sees in it.
THEOREM LinesAreParsed == Spec => []ParsesFields
<1>1. Parsing /\ Fielded => ParsesFields
  <2> SUFFICES ASSUME Parsing, Fielded PROVE ParsesFields
    OBVIOUS
  <2>1. ParsesFields <=>
          (pc = "reply" =>
             LET first == First(text, "nl")
                 names == Fields(first, "=")
                 fields == Fields(Rest(first, name), ";")
             IN IF names = <<>> THEN name = <<>> /\ args = <<>>
                ELSE /\ name = names[1]
                     /\ Len(args) = IF Len(fields) <= CMD_ARGS_MAX_LENGTH
                                    THEN Len(fields) ELSE CMD_ARGS_MAX_LENGTH
                     /\ \A i \in 1 .. Len(args) : args[i] = fields[i])
    BY Zenon DEF ParsesFields, First, Rest
  <2> SUFFICES ASSUME pc = "reply"
               PROVE  LET names == Fields(line, "=")
                          fields == Fields(Rest(line, name), ";")
                      IN IF names = <<>> THEN name = <<>> /\ args = <<>>
                         ELSE /\ name = names[1]
                              /\ Len(args) = IF Len(fields) <= CMD_ARGS_MAX_LENGTH
                                             THEN Len(fields) ELSE CMD_ARGS_MAX_LENGTH
                              /\ \A i \in 1 .. Len(args) : args[i] = fields[i]
    <3>1. pc = "reply" => line = First(text, "nl")
      BY DEF Fielded
    <3> QED  BY <2>1, <3>1, Zenon
  <2> DEFINE names == Fields(line, "=")
             fields == Fields(Rest(line, name), ";")
  <2>2. name = First(line, "=") /\ line \in Seq(Symbols)
    BY DEF Fielded, Parsing
  <2>3. name = <<>> <=> names = <<>>
    BY <2>2, FirstField, Zenon
  <2>4. CASE name = <<>>
    <3>1. args = <<>>
      BY <2>4 DEF Fielded
    <3> QED  BY <2>3, <2>4, <3>1, Zenon
  <2>5. CASE name # <<>>
    <3>1. /\ Len(args) <= Len(fields) /\ \A i \in 1 .. Len(args) : args[i] = fields[i]
          /\ Len(args) \in {Len(fields), CMD_ARGS_MAX_LENGTH}
          /\ Len(args) <= CMD_ARGS_MAX_LENGTH
      BY <2>5 DEF Fielded, Parsing
    <3>2. name = names[1]
      BY <2>2, <2>3, <2>5, Zenon DEF First
    <3>3. Len(fields) \in Nat
      <4>1. name = Strtok(line, 1, {"="}).token
        BY <2>2, FirstField, Zenon
      <4>2. Rest(line, name) \in Seq(Symbols)
        BY <2>2, <2>5, <4>1, RestTyped, Zenon
      <4> QED  BY <4>2, FieldsLength
    <3>4. Len(args) = IF Len(fields) <= CMD_ARGS_MAX_LENGTH
                      THEN Len(fields) ELSE CMD_ARGS_MAX_LENGTH
      <4> HIDE DEF fields
      <4>1. /\ Len(args) \in {Len(fields), CMD_ARGS_MAX_LENGTH} /\ Len(args) <= Len(fields)
            /\ Len(args) <= CMD_ARGS_MAX_LENGTH
        BY <3>1, Zenon
      <4> QED  BY <3>3, <4>1, ConsoleAssumption
    <3> QED  BY <2>3, <2>5, <3>1, <3>2, <3>4, Zenon
  <2> QED  BY <2>4, <2>5
<1> QED  BY <1>1, ParsingInvariance, FieldedInvariance, PTL
===============================================================================
