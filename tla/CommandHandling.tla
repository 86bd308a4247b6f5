-------------------------- MODULE CommandHandling --------------------------
(***************************************************************************)
(* The command handling pipeline of src/axon_utils/command_worker.rs:      *)
(* handle_command and store_events, run by one or more workers against the *)
(* shared event store.  A worker handles one command at a time, and every  *)
(* await on the event store (read the history, read the highest sequence   *)
(* number, append) is a step of its own, so the steps of different workers *)
(* interleave there.  The work between two awaits (decoding, the id        *)
(* extractors, the fold, the business handler) touches no shared state and *)
(* is one step.                                                            *)
(*                                                                         *)
(* One aggregate, AggId, is the target of every command (the example API   *)
(* sends all its commands to "xxx").  The business handler is abstracted   *)
(* to its outcome: an error, no result, or a result with up to MaxEvents   *)
(* events and a response, built as in Outcomes.  The fold over the       *)
(* history is modelled in Replay; here the projection is abstracted to    *)
(* how many events of the history it was built from.                      *)
(***************************************************************************)
EXTENDS Integers, Sequences, FiniteSets

CONSTANTS
  Workers,             \* concurrently handling workers (command_worker tasks)
  AggId,               \* the aggregate identifier
  NoId,                \* "no aggregate identifier resolved"
  MaxEvents,           \* most events one handler outcome emits
  MaxCommands,         \* commands each worker handles (bounds the model)
  PreExtractable,      \* BOOLEAN: the id extractor registry has the command's name
  StoreChecksSequence, \* BOOLEAN: the store rejects an append whose sequence
                       \* numbers do not continue its highest one by one
  AckMayBeLost         \* BOOLEAN: an append can commit while the call fails

ASSUME /\ Workers # {}
       /\ NoId # AggId
       /\ MaxEvents \in Nat /\ MaxCommands \in Nat \ {0}
       /\ PreExtractable \in BOOLEAN /\ StoreChecksSequence \in BOOLEAN
       /\ AckMayBeLost \in BOOLEAN

\* ReadHighestSequenceNr of an aggregate without events: one below the
\* first sequence number, so that the first event is numbered 0.
NoEventsHighest == -1

\* The type of a handler outcome's response: one the id extractor registry
\* knows (a creation command's generated id), or another.
ResponseTypes == {"withId", "plain"}

Out == INSTANCE Outcomes

VARIABLES
  pc,        \* pc[w]: "idle" | "replay" | "decide" | "highest" | "append"
  count,     \* count[w]: commands w has taken so far
  aggId,     \* aggId[w]: the aggregate identifier resolved so far, or NoId
  basis,     \* basis[w]: number of events the projection was rebuilt from,
             \* or -1 when it was not rebuilt from the history
  nEvents,   \* nEvents[w]: number of events of the handler outcome
  highest,   \* highest[w]: the to_sequence_nr read by store_events
  log,       \* the event store's events of AggId, in append order
  replies    \* history: the reply of every handled command

vars == <<pc, count, aggId, basis, nEvents, highest, log, replies>>

CmdIds == Workers \X (1..MaxCommands)
Event == [seq : Int, cmd : CmdIds, pos : Nat, basis : Int]
Reply == [cmd : CmdIds, ok : BOOLEAN, events : 0..MaxEvents]

CmdOf(w) == <<w, count[w]>>

\* The highest sequence number the store holds for AggId.
StoreHighest ==
  IF log = <<>> THEN NoEventsHighest ELSE log[Len(log)].seq

\* Finish the current command of w with the given outcome.
Finish(w, ok, k) ==
  /\ replies' = replies \cup {[cmd |-> CmdOf(w), ok |-> ok, events |-> k]}
  /\ pc' = [pc EXCEPT ![w] = "idle"]

Init ==
  /\ pc = [w \in Workers |-> "idle"]
  /\ count = [w \in Workers |-> 0]
  /\ aggId = [w \in Workers |-> NoId]
  /\ basis = [w \in Workers |-> -1]
  /\ nEvents = [w \in Workers |-> 0]
  /\ highest = [w \in Workers |-> NoEventsHighest]
  /\ log = <<>>
  /\ replies = {}

-----------------------------------------------------------------------------
(* handle_command, up to its first await on the event store.  A missing   *)
(* payload fails the command; otherwise, when the id extractor registry   *)
(* has the command's name, the extractor decodes the payload into an      *)
(* identifier, into none, or fails.  The command handler itself is found  *)
(* (the routing table only holds names of the command registry).  With an *)
(* identifier the worker goes on to read the history; without one it     *)
(* decides on the empty projection.                                       *)
Receive(w) ==
  /\ pc[w] = "idle"
  /\ count[w] < MaxCommands
  /\ count' = [count EXCEPT ![w] = @ + 1]
  /\ basis' = [basis EXCEPT ![w] = -1]
  /\ nEvents' = [nEvents EXCEPT ![w] = 0]
  /\ \E hasPayload \in BOOLEAN, extracted \in {AggId, NoId, "fail"} :
       LET id == IF PreExtractable THEN extracted ELSE NoId
           cmd == <<w, count[w] + 1>>
       IN IF ~hasPayload \/ id = "fail"
            THEN /\ replies' = replies \cup {[cmd |-> cmd, ok |-> FALSE, events |-> 0]}
                 /\ pc' = [pc EXCEPT ![w] = "idle"]
                 /\ aggId' = [aggId EXCEPT ![w] = NoId]
            ELSE /\ aggId' = [aggId EXCEPT ![w] = id]
                 /\ pc' = [pc EXCEPT ![w] = IF id = AggId THEN "replay" ELSE "decide"]
                 /\ UNCHANGED replies
  /\ UNCHANGED <<highest, log>>

\* query_events_from_client(aggregate_id): the whole history at once, folded
\* into the projection (every event type has a sourcing handler); the read
\* may fail.
Replay(w) ==
  /\ pc[w] = "replay"
  /\ \/ /\ basis' = [basis EXCEPT ![w] = Len(log)]
        /\ pc' = [pc EXCEPT ![w] = "decide"]
        /\ UNCHANGED replies
     \/ Finish(w, FALSE, 0) /\ UNCHANGED basis
  /\ UNCHANGED <<count, aggId, nEvents, highest, log>>

\* Fault variant (mutation): a decode failure of the response's id
\* extractor is ignored and its garbage result taken for the identifier.
DecideIgnoringExtractorError(w) ==
  /\ pc[w] = "decide"
  /\ \E k \in 0..MaxEvents, postId \in {AggId, "fail"} :
       /\ aggId' = [aggId EXCEPT ![w] = IF @ = NoId THEN postId ELSE @]
       /\ nEvents' = [nEvents EXCEPT ![w] = k]
       /\ pc' = [pc EXCEPT ![w] = "highest"]
  /\ UNCHANGED <<count, basis, highest, log, replies>>

\* Fault variant (mutation): the final "Missing aggregate identifier" check
\* is dropped, so an outcome without an identifier is reported a success.
DecideWithoutIdCheck(w) ==
  /\ pc[w] = "decide"
  /\ \E hasOutcome \in BOOLEAN, k \in 0..MaxEvents :
       IF aggId[w] = NoId
         THEN Finish(w, TRUE, IF hasOutcome THEN k ELSE 0) /\ UNCHANGED <<aggId, nEvents>>
         ELSE /\ nEvents' = [nEvents EXCEPT ![w] = k]
              /\ pc' = [pc EXCEPT ![w] = "highest"]
              /\ UNCHANGED <<aggId, replies>>
  /\ UNCHANGED <<count, basis, highest, log>>

\* Whether the response of w's outcome yields an identifier: the command
\* has none yet and the extractor registry has the response's type.
FromResponse(w, hasOutcome, resp) == aggId[w] = NoId /\ hasOutcome /\ resp = "withId"

\* handler.handle(data, projection) and what follows it up to store_events:
\* without an identifier, a response whose type the extractor registry
\* knows yields one (or fails to decode); still without one the command
\* fails with "Missing aggregate identifier".  With one, an outcome is
\* stored; no outcome (Ok(None)) is a success with nothing to store.
Decide(w) ==
  /\ pc[w] = "decide"
  /\ \/ Finish(w, FALSE, 0) /\ UNCHANGED <<aggId, nEvents>>
     \/ \E hasOutcome \in BOOLEAN, postId \in {AggId, "fail"},
           outcome \in Out!HandlerOutcomes(ResponseTypes, {"Event"}, MaxEvents) :
          LET resp == outcome.response
              k == Len(outcome.events)
              id == IF FromResponse(w, hasOutcome, resp) THEN postId ELSE aggId[w]
          IN CASE id = "fail" ->
                       Finish(w, FALSE, 0) /\ UNCHANGED <<aggId, nEvents>>
                  [] id = NoId ->
                       Finish(w, FALSE, 0) /\ UNCHANGED <<aggId, nEvents>>
                  [] hasOutcome ->
                       /\ aggId' = [aggId EXCEPT ![w] = id]
                       /\ nEvents' = [nEvents EXCEPT ![w] = k]
                       /\ pc' = [pc EXCEPT ![w] = "highest"]
                       /\ UNCHANGED replies
                  [] OTHER ->
                       Finish(w, TRUE, 0) /\ UNCHANGED <<aggId, nEvents>>
  /\ UNCHANGED <<count, basis, highest, log>>

\* store_events, first await: ReadHighestSequenceNr (may fail).
ReadHighest(w) ==
  /\ pc[w] = "highest"
  /\ \/ /\ highest' = [highest EXCEPT ![w] = StoreHighest]
        /\ pc' = [pc EXCEPT ![w] = "append"]
        /\ UNCHANGED replies
     \/ Finish(w, FALSE, 0) /\ UNCHANGED highest
  /\ UNCHANGED <<count, aggId, basis, nEvents, log>>

\* The events store_events builds: every one of them numbered
\* to_sequence_nr + 1.
Batch(w) ==
  [i \in 1..nEvents[w] |->
     [seq |-> highest[w] + 1, cmd |-> CmdOf(w), pos |-> i - 1, basis |-> basis[w]]]

\* What a sequence-checking store accepts: numbers continuing its own.
Continues(b) == \A i \in DOMAIN b : b[i].seq = StoreHighest + i

\* Whether the store takes the batch of w.
Accepts(w) == ~StoreChecksSequence \/ Continues(Batch(w))

\* store_events, second await: AppendEvents with the whole batch, which the
\* store takes atomically or not at all; the call may fail before the store
\* commits, or (AckMayBeLost) after, so that `?` turns a stored batch into
\* an error reply.
AppendEvent(w) ==
  /\ pc[w] = "append"
  /\ \/ Accepts(w) /\ log' = log \o Batch(w) /\ Finish(w, TRUE, nEvents[w])
     \/ ~Accepts(w) /\ Finish(w, FALSE, 0) /\ UNCHANGED log
     \/ Finish(w, FALSE, 0) /\ UNCHANGED log
     \/ AckMayBeLost /\ Accepts(w) /\ log' = log \o Batch(w) /\ Finish(w, FALSE, 0)
  /\ UNCHANGED <<count, aggId, basis, nEvents, highest>>

-----------------------------------------------------------------------------
Next == \E w \in Workers :
          Receive(w) \/ Replay(w) \/ Decide(w) \/ ReadHighest(w) \/ AppendEvent(w)

Spec == Init /\ [][Next]_vars

-----------------------------------------------------------------------------
(* Properties.                                                             *)

TypeOK ==
  /\ pc \in [Workers -> {"idle", "replay", "decide", "highest", "append"}]
  /\ count \in [Workers -> 0..MaxCommands]
  /\ aggId \in [Workers -> {AggId, NoId}]
  /\ basis \in [Workers -> -1..MaxEvents * MaxCommands * Cardinality(Workers)]
  /\ nEvents \in [Workers -> 0..MaxEvents]
  /\ highest \in [Workers -> Int]
  /\ log \in Seq(Event)
  /\ replies \subseteq Reply

EventsOf(c) == {i \in DOMAIN log : log[i].cmd = c}

\* A success reply is never wrong, even when the store's acknowledgement can
\* be lost: a command answered successfully has exactly the events its
\* handler emitted in the store (only error replies become uncertain).
SuccessMeansStored ==
  \A r \in replies : r.ok => Cardinality(EventsOf(r.cmd)) = r.events

\* Event order (spec 4.5): the events of the aggregate read back are
\* strictly ordered by their sequence numbers, with no two alike.
SeqStrictlyIncreasing ==
  \A i, j \in DOMAIN log : i < j => log[i].seq < log[j].seq

\* No stale decision (spec 4.5 and 9): an outcome decided on a replayed
\* history is stored only if nothing was appended after that history, i.e.
\* the batch directly follows the events its projection was built from.
\* (A creation command, whose identifier comes from its own response, is
\* decided on the empty projection and is not subject to this.)
NoStaleDecision ==
  \A i \in DOMAIN log :
    log[i].basis >= 0 => log[i].basis = i - 1 - log[i].pos

=============================================================================
