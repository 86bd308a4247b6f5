---------------------------- MODULE QueryModel ----------------------------
(***************************************************************************)
(* The example query model of src/example_event/mod.rs: the read side that *)
(* puts every greeting of the event stream into an Elasticsearch index,    *)
(* keyed by the SHA-256 of the message, and keeps its tracking token in a  *)
(* document of its own.                                                    *)
(*                                                                         *)
(* The event processor that drives it (axon_utils::event_processor) is not *)
(* among the sources and is the environment here, with the contract its   *)
(* use of the token implies: retrieve the token once at start (-1 when     *)
(* none is stored), then for each later event apply the handler and store *)
(* that event's position as the token.  The process can crash at any      *)
(* point and restart.  Elasticsearch calls can fail; the code only logs    *)
(* the result of an index or token write.                                  *)
(***************************************************************************)
EXTENDS Integers, Sequences, FiniteSets

CONSTANTS
  Msgs,          \* greeting messages
  NoMsg,         \* a GreetedEvent whose message field is None
  Missing,       \* no tracking-token document stored yet
  MaxHistory,    \* events the command side appends
  MaxCrashes,    \* process crashes (each followed by a restart)
  IndexMayFail,  \* BOOLEAN: an index request of apply_to can fail
  TokenMayFail   \* BOOLEAN: the index request of store_token can fail

ASSUME /\ NoMsg \notin Msgs /\ Missing \notin Int
       /\ MaxHistory \in Nat /\ MaxCrashes \in Nat
       /\ IndexMayFail \in BOOLEAN /\ TokenMayFail \in BOOLEAN

VARIABLES
  history,   \* the GreetedEvents in the event store (their messages)
  index,     \* the "greetings" index: its documents [id, value]
  tokenDoc,  \* the "tracking-token" document: a token or Missing
  pc,        \* processor: "start" | "apply" | "token" | "stopped"
  pos,       \* position (0-based) of the event being processed
  crashes

vars == <<history, index, tokenDoc, pc, pos, crashes>>

\* internal_process_events: an empty query model (the index and the token
\* document start empty) and a registry with the GreetedEvent handler.
Init ==
  /\ history = <<>>
  /\ index = {}
  /\ tokenDoc = Missing
  /\ pc = "start"
  /\ pos = 0
  /\ crashes = 0

\* Fault variant (mutation): a missing token document read as token 0.
RetrievedTokenMissingAsZero == IF tokenDoc = Missing THEN 0 ELSE tokenDoc

\* retrieve_token: the stored token, or -1 when the document has none.
RetrievedToken == IF tokenDoc = Missing THEN -1 ELSE tokenDoc

\* The processor's start: it resumes after the retrieved token.  A failed
\* GET ends event processing: process_events logs the error and returns.
RetrieveToken ==
  /\ pc = "start"
  /\ \/ pos' = RetrievedToken + 1 /\ pc' = "apply"
     \/ pc' = "stopped" /\ UNCHANGED pos
  /\ UNCHANGED <<history, index, tokenDoc, crashes>>

\* The document id apply_to computes: the base64 SHA-256 of the message,
\* one id per message (collisions are not modelled).
Hash(m) == <<"sha256", m>>

\* The greeting document the index request sends.
Doc(id, m) == [id |-> id, value |-> m]

\* An index request with an id: creates the document, or replaces the one
\* with that id.
IndexDoc(ix, d) == {x \in ix : x.id # d.id} \cup {d}

\* Fault variant (mutation): every greeting indexed under one fixed document
\* id, as the token is, so each write replaces the previous greeting.
ApplyToFixedId ==
  /\ pc = "apply" /\ pos < Len(history)
  /\ LET m == history[pos + 1] IN
       index' = IF m = NoMsg THEN index ELSE IndexDoc(index, Doc("greeting", m))
  /\ pc' = "token"
  /\ UNCHANGED <<history, tokenDoc, pos, crashes>>

\* Fault variant (mutation): the index request without an id, so that
\* Elasticsearch generates a fresh one for every request.
ApplyToAutoId ==
  /\ pc = "apply" /\ pos < Len(history)
  /\ LET m == history[pos + 1] IN
       index' = IF m = NoMsg THEN index ELSE IndexDoc(index, Doc(<<"auto", pos, crashes>>, m))
  /\ pc' = "token"
  /\ UNCHANGED <<history, tokenDoc, pos, crashes>>

\* handle_event / apply_to for the event at pos: a greeting with a message
\* is indexed under its hash (a repeated message overwrites its own
\* document); the response of the index request is only logged, so a
\* failed request still returns Ok(()).
ApplyTo ==
  /\ pc = "apply" /\ pos < Len(history)
  /\ LET m == history[pos + 1] IN
       \/ index' = IF m = NoMsg THEN index ELSE IndexDoc(index, Doc(Hash(m), m))
       \/ IndexMayFail /\ m # NoMsg /\ UNCHANGED index
  /\ pc' = "token"
  /\ UNCHANGED <<history, tokenDoc, pos, crashes>>

\* store_token(pos): the token document is written; a failure is only
\* logged.  The processor goes on with the next event.
StoreToken ==
  /\ pc = "token"
  /\ \/ tokenDoc' = pos
     \/ TokenMayFail /\ UNCHANGED tokenDoc
  /\ pos' = pos + 1
  /\ pc' = "apply"
  /\ UNCHANGED <<history, index, crashes>>

-----------------------------------------------------------------------------
(* Environment: the command side appends greetings; the process crashes   *)
(* and is restarted, losing the processor's position but not the index.   *)

NewEvent ==
  /\ Len(history) < MaxHistory
  /\ \E m \in Msgs \cup {NoMsg} : history' = Append(history, m)
  /\ UNCHANGED <<index, tokenDoc, pc, pos, crashes>>

Crash ==
  /\ pc \in {"apply", "token"} /\ crashes < MaxCrashes
  /\ pc' = "start" /\ crashes' = crashes + 1
  /\ UNCHANGED <<history, index, tokenDoc, pos>>

Next == RetrieveToken \/ ApplyTo \/ StoreToken \/ NewEvent \/ Crash

\* The processor task runs whenever it can; crashes are not fair.
Spec == Init /\ [][Next]_vars
          /\ WF_vars(RetrieveToken) /\ WF_vars(ApplyTo) /\ WF_vars(StoreToken)

-----------------------------------------------------------------------------
(* Properties.                                                             *)

TypeOK ==
  /\ history \in Seq(Msgs \cup {NoMsg}) /\ Len(history) <= MaxHistory
  /\ index \subseteq [id : {Hash(m) : m \in Msgs}, value : Msgs]
  /\ tokenDoc \in (0..MaxHistory - 1) \cup {Missing}
  /\ pc \in {"start", "apply", "token", "stopped"}
  /\ pos \in 0..Len(history)
  /\ crashes \in 0..MaxCrashes

Greetings(n) == {history[i] : i \in 1..n} \ {NoMsg}

\* The greetings a search of the index can find.
Indexed == {d.value : d \in index}

\* Restart safety: whatever crashes and lost token writes have happened,
\* every greeting before the processor's position is in the index -- a
\* restart resumes at or before the first event not yet indexed.
ProcessedGreetingsIndexed ==
  pc \in {"apply", "token"} => Greetings(pos) \subseteq Indexed

\* Every greeting appended to the event store is eventually searchable,
\* unless event processing stopped with a logged error.
EventuallyIndexed ==
  \A m \in Msgs : (m \in Greetings(Len(history))) ~> (m \in Indexed \/ pc = "stopped")

\* Idempotent re-apply: after a restart from an older token (a token write
\* that failed, or a crash before it) apply_to indexes greetings again, and
\* a message can be greeted twice; neither leaves a second document for the
\* same message, so a search lists each greeting once.
OneDocumentPerGreeting ==
  \A d1, d2 \in index : d1.value = d2.value => d1 = d2

=============================================================================
