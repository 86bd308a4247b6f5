--------------------------- MODULE CommandService ---------------------------
(***************************************************************************)
(* What the command worker promises the command service, seen from the    *)
(* service: it may send a command while fewer than Window of its commands *)
(* are unanswered; every command it sends is answered exactly once, unless *)
(* the stream fails; after it ends the stream it sends nothing more, but   *)
(* answers still arrive.                                                   *)
(***************************************************************************)
EXTENDS Naturals, FiniteSets

CONSTANTS
  Ids,     \* command message identifiers
  Window   \* most unanswered commands the service may have out

VARIABLES
  sent,      \* commands the service has sent
  answered,  \* commands it has received a response for
  stream     \* "open" | "closed" | "error"

vars == <<sent, answered, stream>>

Init == sent = {} /\ answered = {} /\ stream = "open"

Send(i) ==
  /\ stream = "open"
  /\ i \in Ids \ sent
  /\ Cardinality(sent \ answered) < Window
  /\ sent' = sent \cup {i}
  /\ UNCHANGED <<answered, stream>>

Answer(i) ==
  /\ stream # "error"
  /\ i \in sent \ answered
  /\ answered' = answered \cup {i}
  /\ UNCHANGED <<sent, stream>>

Close == stream = "open" /\ stream' = "closed" /\ UNCHANGED <<sent, answered>>

Fail == stream # "error" /\ stream' = "error" /\ UNCHANGED <<sent, answered>>

Next == (\E i \in Ids : Send(i) \/ Answer(i)) \/ Close \/ Fail

Spec == Init /\ [][Next]_vars /\ WF_vars(\E i \in Ids : Answer(i))

=============================================================================
