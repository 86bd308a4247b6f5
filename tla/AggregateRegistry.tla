------------------------- MODULE AggregateRegistry -------------------------
(***************************************************************************)
(* TheAggregateRegistry of src/axon_utils/command_worker.rs and the routing *)
(* table command_worker builds from it at startup.  Definitions are        *)
(* inserted into a HashMap keyed by their name (a later one with the same  *)
(* name replaces the earlier); register then walks that HashMap, and for   *)
(* each definition its command handler HashMap, pushing every command name *)
(* onto the subscription list and mapping it to the aggregate's name.      *)
(* A HashMap's iteration order is unspecified (and randomised per process  *)
(* by its RandomState), so the walk may visit the entries in any order.    *)
(***************************************************************************)
EXTENDS Naturals, Sequences, SequencesExt

CONSTANTS
  Defs,         \* aggregate definitions (AggregateDefinition values)
  AggNames,     \* their projection names
  Cmds,         \* command names
  DefName,      \* DefName[d]: the projection_name of d
  DefCmds,      \* DefCmds[d]: the names in d's command handler registry
  InsertOrder,  \* the order in which startup inserts the definitions
  NoDef,        \* "no definition under this name"
  NoAgg         \* "no routing entry for this command"

ASSUME /\ DefName \in [Defs -> AggNames]
       /\ DefCmds \in [Defs -> SUBSET Cmds]
       /\ InsertOrder \in Seq(Defs)
       /\ NoDef \notin Defs /\ NoAgg \notin AggNames

VARIABLES
  handlers,   \* the HashMap: aggregate name -> definition (or NoDef)
  insIdx,     \* next position of InsertOrder to insert
  visited,    \* aggregate names register has walked so far
  commands,   \* the command list register fills
  mapping     \* the routing table: command name -> aggregate name (or NoAgg)

vars == <<handlers, insIdx, visited, commands, mapping>>

\* The names the HashMap holds.
Live == {a \in AggNames : handlers[a] # NoDef}

\* empty_aggregate_registry, and the empty list and table of command_worker.
Init ==
  /\ handlers = [a \in AggNames |-> NoDef]
  /\ insIdx = 1
  /\ visited = {}
  /\ commands = <<>>
  /\ mapping = [c \in Cmds |-> NoAgg]

\* insert: the definition goes in under its name, replacing any other.
Insert ==
  /\ insIdx <= Len(InsertOrder)
  /\ LET d == InsertOrder[insIdx] IN
       handlers' = [handlers EXCEPT ![DefName[d]] = d]
  /\ insIdx' = insIdx + 1
  /\ UNCHANGED <<visited, commands, mapping>>

\* command_names: the names of d's command handler registry, in the order
\* its HashMap yields them (any order).
CommandNames(d) == SetToSeqs(DefCmds[d])

\* Fault variant (mutation): the arguments of the two inserts swapped, so
\* the aggregate's name is pushed onto the command list.
RegisterAggregateSwapped(a) ==
  /\ insIdx > Len(InsertOrder)
  /\ a \in Live \ visited
  /\ commands' = Append(commands, a)
  /\ mapping' = [c \in Cmds |-> IF c \in DefCmds[handlers[a]] THEN a ELSE mapping[c]]
  /\ visited' = visited \cup {a}
  /\ UNCHANGED <<handlers, insIdx>>

\* Fault variant (mutation): the routing entry of the last command name of
\* an aggregate is not written (an off-by-one in the inner loop).
RegisterAggregateSkipLast(a) ==
  /\ insIdx > Len(InsertOrder)
  /\ a \in Live \ visited
  /\ \E s \in CommandNames(handlers[a]) :
       /\ commands' = commands \o s
       /\ mapping' = [c \in Cmds |->
                        IF c \in ToSet(SubSeq(s, 1, Len(s) - 1)) THEN a ELSE mapping[c]]
  /\ visited' = visited \cup {a}
  /\ UNCHANGED <<handlers, insIdx>>

\* One iteration of the outer loop of register, for whichever entry the
\* HashMap yields next: each of its command names is pushed and mapped to
\* the aggregate,
\* replacing an entry an earlier aggregate wrote for it.
RegisterAggregate(a) ==
  /\ insIdx > Len(InsertOrder)
  /\ a \in Live \ visited
  /\ \E s \in CommandNames(handlers[a]) :
       /\ commands' = commands \o s
       /\ mapping' = [c \in Cmds |-> IF c \in ToSet(s) THEN a ELSE mapping[c]]
  /\ visited' = visited \cup {a}
  /\ UNCHANGED <<handlers, insIdx>>

Registered == insIdx > Len(InsertOrder) /\ visited = Live

\* The lookups of command_worker for an inbound command: the routing table,
\* then the registry; NoDef when either misses ("Could not find aggregate
\* handler").
Route(c) ==
  IF mapping[c] # NoAgg /\ handlers[mapping[c]] # NoDef
    THEN handlers[mapping[c]] ELSE NoDef

Next == Insert \/ \E a \in AggNames : RegisterAggregate(a)

Spec == Init /\ [][Next]_vars

-----------------------------------------------------------------------------
(* Properties.                                                             *)

TypeOK ==
  /\ handlers \in [AggNames -> Defs \cup {NoDef}]
  /\ insIdx \in 1..Len(InsertOrder) + 1
  /\ visited \subseteq AggNames
  /\ commands \in Seq(Cmds)
  /\ mapping \in [Cmds -> AggNames \cup {NoAgg}]

\* Every command the worker subscribes to is routable: the routing table
\* sends it to an aggregate that is in the registry and whose command
\* registry has a handler for it, so a subscribed command never fails with
\* "Could not find aggregate handler" or "No handler for".
SubscribedCommandsRoutable ==
  \A i \in DOMAIN commands :
    Route(commands[i]) # NoDef /\ commands[i] \in DefCmds[Route(commands[i])]

\* Spec section 3: with a command name in several aggregates, "last-
\* registered silently wins": once registered, a command routes to the
\* aggregate of the last inserted, still registered, definition having it.
LastRegisteredWins ==
  Registered =>
    \A c \in Cmds :
      LET owners == {i \in DOMAIN InsertOrder :
                       /\ c \in DefCmds[InsertOrder[i]]
                       /\ handlers[DefName[InsertOrder[i]]] = InsertOrder[i]}
      IN owners # {} =>
           \E i \in owners :
             /\ \A j \in owners : j <= i
             /\ mapping[c] = DefName[InsertOrder[i]]

=============================================================================
