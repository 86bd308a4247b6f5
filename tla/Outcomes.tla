----------------------------- MODULE Outcomes -----------------------------
(***************************************************************************)
(* The outcome builders of src/axon_utils/command_worker.rs that a command *)
(* handler uses.  An outcome is a record of the events it emits (by type   *)
(* name; their payloads carry no control) and its response (by type       *)
(* name).                                                                  *)
(***************************************************************************)
EXTENDS Sequences, SequencesExt

\* emit_applicable_events_and_response(type_name, response): no events yet,
\* the serialized response of the given type.
EmitApplicableEventsAndResponse(type) == [events |-> <<>>, response |-> type]

\* emit_applicable(holder, type_name, event): the event pushed onto the
\* holder's events.
EmitApplicable(holder, typeName) == [holder EXCEPT !.events = Append(@, typeName)]

\* What a command handler can return.  The fields of
\* EmitApplicableEventsAndResponse are private to command_worker, so a
\* handler starts from emit_applicable_events_and_response -- there is
\* always a response -- and adds its events with emit_applicable.
HandlerOutcomes(respTypes, eventTypes, n) ==
  {FoldLeft(EmitApplicable, EmitApplicableEventsAndResponse(t), evs) :
     t \in respTypes, evs \in BoundedSeq(eventTypes, n)}

=============================================================================
