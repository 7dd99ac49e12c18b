------------------------------ MODULE CommandServer ------------------------------
(***************************************************************************)
(* What the network console promises to a client that waits for each reply *)
(* before it sends the next request: sessions are served one at a time,    *)
(* and in a session every request gets its own reply, in order.            *)
(***************************************************************************)
EXTENDS Naturals, Sequences

CONSTANTS
  Clients,
  Requests,
  Reply,        \* Reply[r]: the reply to request r
  NULL

VARIABLES
  serving,      \* the client whose session is served, or NULL
  asked,        \* asked[c]: the requests of the session of client c
  replies       \* replies[c]: the replies client c has had

vars == <<serving, asked, replies>>

None == [c \in Clients |-> <<>>]

Init == serving = NULL /\ asked = None /\ replies = None

Begin(c) ==
  /\ serving = NULL /\ serving' = c
  /\ UNCHANGED <<asked, replies>>

\* A client may ask while it waits for its turn.
Ask(c) ==
  /\ Len(asked[c]) = Len(replies[c])
  /\ \E r \in Requests : asked' = [asked EXCEPT ![c] = Append(@, r)]
  /\ UNCHANGED <<serving, replies>>

Answer(c) ==
  /\ serving = c
  /\ Len(replies[c]) < Len(asked[c])
  /\ replies' = [replies EXCEPT ![c] = Append(@, Reply[asked[c][Len(@) + 1]])]
  /\ UNCHANGED <<serving, asked>>

\* A session may end at any moment, a request unanswered.
End(c) ==
  /\ serving = c /\ serving' = NULL
  /\ asked' = [asked EXCEPT ![c] = <<>>]
  /\ replies' = [replies EXCEPT ![c] = <<>>]

\* The device restarts: there are no sessions any more.
Restart == serving' = NULL /\ asked' = None /\ replies' = None

Next == Restart \/ \E c \in Clients : Begin(c) \/ Ask(c) \/ Answer(c) \/ End(c)

Spec == Init /\ [][Next]_vars
===============================================================================
