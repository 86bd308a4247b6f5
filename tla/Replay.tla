------------------------------ MODULE Replay ------------------------------
(***************************************************************************)
(* The event-sourcing fold of handle_command (src/axon_utils/              *)
(* command_worker.rs): the aggregate's history, read from the event store  *)
(* in sequence order, is folded into the empty projection.  An event       *)
(* without payload is skipped; one whose payload type has no sourcing      *)
(* handler fails the command; the handler decodes the payload (which may   *)
(* fail) and returns a new projection or none, in which case the running   *)
(* projection is kept.                                                     *)
(*                                                                         *)
(* Projections and payloads are abstracted to small sets: a sourcing       *)
(* handler is a table fold[projection] whose entry is a projection or      *)
(* None, registered in a HandlerRegistry.  The fold is checked against a   *)
(* reference definition, written without recursion, over every history up *)
(* to MaxHistory events.                                                   *)
(***************************************************************************)
EXTENDS Naturals, Sequences, SequencesExt

CONSTANTS
  EventTypes,     \* payload types occurring in histories
  Projections,    \* abstract projection values
  Empty,          \* the value of (empty_projection)()
  None,           \* a sourcing handler's Ok(None)
  Registrations,  \* the sourcing handler registry's inserts, in order:
                  \* [type, fold], fold[p] being the handler's answer on p
  Absent, DecodeError,
  MaxHistory      \* longest history checked

ASSUME /\ Empty \in Projections /\ None \notin Projections
       /\ Registrations \in Seq([type : EventTypes,
                                  fold : [Projections -> Projections \cup {None}]])
       /\ MaxHistory \in Nat

R == INSTANCE HandlerRegistry

\* The aggregate definition's sourcing_handler_registry.
SourcingRegistry ==
  FoldLeft(LAMBDA reg, r : R!Insert(reg, r.type, r.fold), R!EmptyRegistry, Registrations)

\* An event as the fold sees it: its payload type, whether it has a payload
\* at all, and whether the payload bytes decode.
Event == [type : EventTypes, payload : BOOLEAN, decodes : BOOLEAN]

Ok(p) == [ok |-> TRUE, proj |-> p, error |-> "none"]
Err(kind) == [ok |-> FALSE, proj |-> Empty, error |-> kind]

\* Fault variant (mutation): the handler's answer is assigned unchecked.
ApplyUnchecked(r, p) == r

\* Fault variant (mutation): a None answer resets the projection.
ApplyResetOnNone(r, p) == IF r = None THEN Empty ELSE r

\* `if let Some(p) = handler answer { projection = p }`.
Apply(r, p) == IF r = None THEN p ELSE r

\* The loop `for event in events`, from projection p: an event without
\* payload is skipped; a type without sourcing handler and a payload that
\* does not decode abort the replay (`?`).
RECURSIVE ReplayFrom(_, _)
ReplayFrom(events, p) ==
  IF events = <<>> THEN Ok(p)
  ELSE LET e == Head(events)
           h == R!Get(SourcingRegistry, e.type)
       IN CASE ~e.payload                      -> ReplayFrom(Tail(events), p)
            [] h = Absent                      -> Err("MissingSourcingHandler")
            [] R!Handle(h, e, p) = DecodeError -> Err("DecodeError")
            [] OTHER -> ReplayFrom(Tail(events), Apply(R!Handle(h, e, p), p))

\* The projection handle_command restores for a history.
Replay(events) == ReplayFrom(events, Empty)

-----------------------------------------------------------------------------
(* The history grows one appended event at a time; every prefix is a      *)
(* history some command replays.                                          *)

VARIABLE history

Init == history = <<>>

AppendToHistory ==
  /\ Len(history) < MaxHistory
  /\ \E e \in Event : history' = Append(history, e)

Next == AppendToHistory

Spec == Init /\ [][Next]_history

-----------------------------------------------------------------------------
(* Reference: the first event with a payload that cannot be applied decides *)
(* the error; without one, the payload-carrying events are applied left to *)
(* right, each type by its last registered handler, a None answer leaving  *)
(* the projection as it was.                                               *)

Sourced == {Registrations[i].type : i \in DOMAIN Registrations}

LastFold(t) ==
  Registrations[CHOOSE i \in DOMAIN Registrations :
                  /\ Registrations[i].type = t
                  /\ \A j \in DOMAIN Registrations : Registrations[j].type = t => j <= i].fold

Failing(e) == e.payload /\ (e.type \notin Sourced \/ ~e.decodes)

Step(p, e) == IF LastFold(e.type)[p] = None THEN p ELSE LastFold(e.type)[p]

ReferenceReplay(events) ==
  LET bad == {i \in DOMAIN events : Failing(events[i])} IN
  IF bad # {}
    THEN LET first == events[CHOOSE i \in bad : \A j \in bad : i <= j] IN
         Err(IF first.type \notin Sourced THEN "MissingSourcingHandler" ELSE "DecodeError")
    ELSE Ok(FoldLeft(Step, Empty, SelectSeq(events, LAMBDA e : e.payload)))

Result == [ok : BOOLEAN, proj : Projections,
           error : {"none", "MissingSourcingHandler", "DecodeError"}]

TypeOK ==
  /\ history \in Seq(Event) /\ Len(history) <= MaxHistory
  /\ Replay(history) \in Result

\* The fold restores exactly the projection (or the error) of the reference:
\* events in sequence order, payload-less ones skipped, the first
\* unhandled or undecodable one aborting, a None answer keeping the state.
ReplayMatchesReference == Replay(history) = ReferenceReplay(history)

=============================================================================
