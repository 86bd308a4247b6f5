-------------------------- MODULE HandlerRegistry --------------------------
(***************************************************************************)
(* The handler registry (axon_utils::handler_registry, not among the       *)
(* sources; modelled from spec section 4.1): a map from a type name to a   *)
(* decode-and-apply handler.  Registering a name again replaces its entry; *)
(* a lookup yields the handler or Absent; handle decodes the payload and   *)
(* applies the handler to the projection, or fails with DecodeError.       *)
(*                                                                         *)
(* A handler is abstracted to its effect on the projection, a function     *)
(* from projections to results; a payload to whether its bytes decode.     *)
(***************************************************************************)
EXTENDS TLC

CONSTANTS
  Absent,       \* get: no handler under this name
  DecodeError   \* handle: the payload bytes do not decode

\* empty_handler_registry().
EmptyRegistry == [t \in {} |-> Absent]

\* insert(type_name, decode, handle): always succeeds, the new entry wins.
Insert(reg, name, h) == (name :> h) @@ reg

\* get(type_name).
Get(reg, name) == IF name \in DOMAIN reg THEN reg[name] ELSE Absent

\* handle(raw_bytes, projection).
Handle(h, payload, p) == IF payload.decodes THEN h[p] ELSE DecodeError

=============================================================================
