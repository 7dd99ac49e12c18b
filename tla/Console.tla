--------------------------------- MODULE Console ---------------------------------
(***************************************************************************)
(* The command console (console/console.c, cmd_system.c): a line of text   *)
(* is parsed with strtok_r, looked up in the table of commands, and        *)
(* answered with a series of writes.                                       *)
(*                                                                         *)
(* A text is a sequence of symbols.  A command's name is one symbol        *)
(* (strcasecmp makes its spellings equal), each separator is one, and "x"  *)
(* is any run of other characters that does not complete a name; two       *)
(* symbols side by side are a longer text.  A NULL token is <<>>, which no *)
(* token is.  The caller puts a text in line and control in "parse"; when  *)
(* control is in "write" the calls of the write function are in out.       *)
(***************************************************************************)
EXTENDS Naturals, Sequences, FiniteSets

CONSTANT CMD_ARGS_MAX_LENGTH

ASSUME ConsoleAssumption == CMD_ARGS_MAX_LENGTH \in Nat \ {0}

VARIABLES
  pc,       \* where the thread of the console is
  text,     \* what the caller gave, kept for the properties
  line,     \* cmdLine, cut by strtok_r as the code goes on
  save,     \* the saved pointer of strtok_r, a position in line
  name,     \* the name parsed
  args,     \* the arguments parsed so far
  out       \* the writes that remain to be done

parsed == <<text, line, save, name, args>>
console == <<pc, parsed, out>>

-------------------------------------------------------------------------------
(* The table of commands and their output                                  *)

Commands == {"HELP", "SYS_FW_VER"}

expectedArgs == [c \in Commands |-> 0]

\* What the handler of a command prints, one call of Console_Printf each.
Prints(c) ==
  IF c = "HELP"
  THEN << <<"Available commands:">>, <<"help of HELP">>, <<"help of SYS_FW_VER">> >>
  ELSE <<>>

\* What the handler of a command leaves in its response buffer.
Response(c) == IF c = "HELP" THEN "SUCCESS" ELSE "VERSION"

\* Console_SerializeResponse: the name, each argument with what precedes it,
\* then the response and the end of the reply.
Serialize(cmd, as, response) ==
  <<cmd>> \o [i \in 1 .. Len(as) |-> <<IF i = 1 THEN "_" ELSE ";">> \o as[i]]
    \o << <<":", response, "*END">> >>

\* Mutant of Unknown: the answer to an unknown command repeats its name.
UnknownEchoed(n) == Serialize(n, <<>>, "FAIL")

\* The reply to a name that is not in the table.
Unknown(n) == Serialize(<<"CMD_NOT_FOUND">>, <<>>, "FAIL")

\* Console_RunCommand after the parsing: all the writes of the reply.
Writes(n, as) ==
  CASE n = <<>> -> Serialize(<<"PARSE_ERROR">>, <<>>, "FAIL")
    [] \E c \in Commands : n = <<c>> /\ Len(as) # expectedArgs[c] ->
         Serialize(<<"CMD_INVALID_ARGS">>, <<>>, "FAIL")
    [] \E c \in Commands : n = <<c>> /\ Len(as) = expectedArgs[c] ->
         Prints(n[1]) \o Serialize(n, as, Response(n[1]))
    [] OTHER -> Unknown(n)

-------------------------------------------------------------------------------
(* strtok_r                                                                *)

\* Where text s has its first symbol outside of D, from position i on: past the
\* end if there is none.
SkipOver(s, i, D) ==
  CHOOSE j \in i .. (Len(s) + 1) :
    (j <= Len(s) => s[j] \notin D) /\ \A k \in i .. (j - 1) : s[k] \in D

\* Where text s has its first symbol in D, from position i on.
StopAt(s, i, D) ==
  CHOOSE j \in i .. (Len(s) + 1) :
    (j <= Len(s) => s[j] \in D) /\ \A k \in i .. (j - 1) : s[k] \notin D

\* Mutant of Strtok: the separators before the token are not skipped.
StrtokUnskipped(s, i, D) ==
  LET stop == StopAt(s, i, D)
  IN [token |-> SubSeq(s, i, stop - 1), save |-> IF stop <= Len(s) THEN stop + 1 ELSE stop]

\* The next token of text s with separators D, and the pointer saved after it:
\* beyond the separator that ended the token, which becomes its NUL.
Strtok(s, i, D) ==
  LET start == SkipOver(s, i, D)
      stop == StopAt(s, start, D)
  IN [token |-> SubSeq(s, start, stop - 1), save |-> IF stop <= Len(s) THEN stop + 1 ELSE stop]

-------------------------------------------------------------------------------
(* Console_RunCommand                                                      *)

\* Console_ParseCommand: the first line, and the name in it.
ParseName ==
  /\ pc = "parse"
  /\ line' = Strtok(line, 1, {"nl"}).token
  /\ LET first == Strtok(line', 1, {"="}) IN
       /\ name' = first.token
       /\ save' = first.save
       /\ pc' = IF first.token = <<>> THEN "reply" ELSE "args"
  /\ UNCHANGED <<text, args, out>>

\* Mutant of ArgsLeft: one too many for the array.
ArgsLeftLate == Len(args) <= CMD_ARGS_MAX_LENGTH

ArgsLeft == Len(args) < CMD_ARGS_MAX_LENGTH

\* The loop over the arguments, which ends at the first that is missing.
ParseArg ==
  /\ pc = "args" /\ ArgsLeft
  /\ LET next == Strtok(line, save, {";"}) IN
       /\ save' = next.save
       /\ \/ next.token # <<>> /\ args' = Append(args, next.token) /\ UNCHANGED pc
          \/ next.token = <<>> /\ pc' = "reply" /\ UNCHANGED args
  /\ UNCHANGED <<text, line, name, out>>

\* The loop ends because the array is full: what follows is not looked at.
ArgsFull ==
  /\ pc = "args" /\ ~ArgsLeft
  /\ pc' = "reply"
  /\ UNCHANGED <<parsed, out>>

\* Mutant of RunCommand: a command that is not in the table gets no reply.
RunCommandSilent ==
  /\ pc = "reply"
  /\ LET known == \E c \in Commands : name = <<c>> IN
       /\ out' = IF known THEN Writes(name, args) ELSE <<>>
       /\ pc' = IF known THEN "write" ELSE "read"
  /\ text' = <<>> /\ line' = <<>> /\ save' = 1 /\ name' = <<>> /\ args' = <<>>

\* The command is looked up and run.  The locals end here.
RunCommand ==
  /\ pc = "reply"
  /\ out' = Writes(name, args)
  /\ pc' = "write"
  /\ text' = <<>> /\ line' = <<>> /\ save' = 1 /\ name' = <<>> /\ args' = <<>>

ConsoleStep == ParseName \/ ParseArg \/ ArgsFull \/ RunCommand

-------------------------------------------------------------------------------
(* Properties                                                              *)

\* The runs of symbols other than d in text s, in order: what is between the
\* separators, nothing left out but the empty ones.
Fields(s, d) ==
  LET starts == {i \in DOMAIN s : s[i] # d /\ (i > 1 => s[i - 1] = d)}
      end(i) == CHOOSE j \in i .. Len(s) :
                  /\ \A k \in i .. j : s[k] # d
                  /\ j < Len(s) => s[j + 1] = d
      start(n) == CHOOSE i \in starts : Cardinality({j \in starts : j <= i}) = n
  IN [n \in 1 .. Cardinality(starts) |-> SubSeq(s, start(n), end(start(n)))]

\* Console_ParseCommand gets out of any text the parts a reader sees in it: the
\* first line that is not empty, the name up to the first "=" after it, then
\* the first arguments between ";", however many separators there are.
ParsesFields ==
  pc = "reply" =>
    LET lines == Fields(text, "nl")
        first == IF lines = <<>> THEN <<>> ELSE lines[1]
        names == Fields(first, "=")
        before == CHOOSE i \in 0 .. Len(first) :
                    /\ \A k \in 1 .. i : first[k] = "="
                    /\ i < Len(first) => first[i + 1] # "="
        rest == SubSeq(first, before + Len(name) + 2, Len(first))
        fields == Fields(rest, ";")
    IN IF names = <<>> THEN name = <<>> /\ args = <<>>
       ELSE /\ name = names[1]
            /\ Len(args) = IF Len(fields) <= CMD_ARGS_MAX_LENGTH
                           THEN Len(fields) ELSE CMD_ARGS_MAX_LENGTH
            /\ \A i \in 1 .. Len(args) : args[i] = fields[i]

\* What the firmware can print on its own: at most the line of a command in the
\* help, well within the buffer of Console_Printf.
OwnTexts ==
  (UNION {{Prints(c)[i] : i \in DOMAIN Prints(c)} : c \in Commands})
    \cup {<<c>> : c \in Commands}
    \cup {<<v>> : v \in {"PARSE_ERROR", "CMD_NOT_FOUND", "CMD_INVALID_ARGS"}}
    \cup {<<":", r, "*END">> : r \in {"SUCCESS", "VERSION", "FAIL"}}

\* The buffer of Console_Printf holds 256 characters and a line read may hold
\* 500, while the length given to the write function is the one vsnprintf
\* wanted: no write is as long as its client likes, for only names found in the
\* table are repeated.
PrintsFit == \A i \in DOMAIN out : out[i] \in OwnTexts
===============================================================================
