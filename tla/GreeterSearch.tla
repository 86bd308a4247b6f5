--------------------------- MODULE GreeterSearch ---------------------------
(***************************************************************************)
(* The search call of the example greeter service (src/example_api/mod.rs).*)
(* search sends a SearchQuery and gets back a list of serialized objects;  *)
(* a spawned task decodes each as a SearchResponse (skipping one that does *)
(* not decode) and sends its greetings, one by one, through a channel of   *)
(* capacity 4 that is the response stream.  When the task ends the sender  *)
(* is dropped and the stream ends.  The client reads it or drops it; a     *)
(* send to a dropped receiver fails and is ignored.                        *)
(*                                                                         *)
(* The SearchQuery handler is not among the sources.  It is taken to       *)
(* answer from the "greetings" index, which it only reads: every decodable *)
(* object lists some of the index's greetings, in some order.  The index   *)
(* belongs to the query model; a composition keeps it unchanged in these   *)
(* steps (ReadSide).                                                       *)
(***************************************************************************)
EXTENDS Integers, Sequences, SequencesExt

CONSTANTS
  Msgs,          \* greeting messages
  ChanCap,       \* capacity of the search channel (4 in the code)
  MaxResponses   \* serialized objects in a query response

ASSUME ChanCap \in Nat \ {0} /\ MaxResponses \in Nat

VARIABLES
  index,      \* the greetings the "greetings" index holds (read only here)
  sPc,        \* the search call: "idle" | "run" | "done" | "failed"
  results,    \* the query response: a sequence of objects
  rIdx,       \* the object the spawned task is at
  gIdx,       \* greetings of that object already sent
  sChan,      \* the channel's buffer
  sReceived,  \* what the client has read from the stream
  sDropped    \* the client has dropped the stream

searchVars == <<sPc, results, rIdx, gIdx, sChan, sReceived, sDropped>>

Init ==
  /\ sPc = "idle" /\ results = <<>> /\ rIdx = 1 /\ gIdx = 0
  /\ sChan = <<>> /\ sReceived = <<>> /\ sDropped = FALSE

\* A serialized object of the response: a SearchResponse listing greetings
\* of the index, or bytes that do not decode as one.
Objects(ix) ==
  [decodes : {TRUE}, greetings : UNION {SetToSeqs(S) : S \in SUBSET ix}]
    \cup [decodes : {FALSE}, greetings : {<<>>}]

\* send_query("SearchQuery", ..): the response, or an error status
\* (map_err(to_status)) and no task.
Search ==
  /\ sPc = "idle"
  /\ \/ sPc' = "failed" /\ UNCHANGED results
     \/ sPc' = "run" /\ \E n \in 0..MaxResponses : results' \in [1..n -> Objects(index)]
  /\ UNCHANGED <<rIdx, gIdx, sChan, sReceived, sDropped>>

\* Fault variant (mutation): try_send, which drops a greeting when the
\* channel is full instead of waiting for room.
SendWithoutWaiting(g) ==
  \/ ~sDropped /\ Len(sChan) < ChanCap /\ sChan' = Append(sChan, g)
  \/ ~sDropped /\ Len(sChan) = ChanCap /\ UNCHANGED sChan
  \/ sDropped /\ UNCHANGED sChan

\* tx.send(Ok(greeting)).await.ok(): suspends while the buffer is full;
\* fails, ignored, once the receiver is dropped.
Send(g) ==
  \/ ~sDropped /\ Len(sChan) < ChanCap /\ sChan' = Append(sChan, g)
  \/ sDropped /\ UNCHANGED sChan

Current == results[rIdx]

\* The inner loop: the next greeting of a decoded SearchResponse.
SendGreeting ==
  /\ sPc = "run" /\ rIdx <= Len(results)
  /\ Current.decodes /\ gIdx < Len(Current.greetings)
  /\ Send(Current.greetings[gIdx + 1])
  /\ gIdx' = gIdx + 1
  /\ UNCHANGED <<sPc, results, rIdx, sReceived, sDropped>>

\* Fault variant (mutation): an object that does not decode ends the loop
\* (a `?` or `break` in place of the skip).
NextObjectBreakOnError ==
  /\ sPc = "run" /\ rIdx <= Len(results)
  /\ \/ Current.decodes /\ gIdx = Len(Current.greetings)
        /\ rIdx' = rIdx + 1 /\ gIdx' = 0 /\ UNCHANGED sPc
     \/ ~Current.decodes /\ sPc' = "done" /\ UNCHANGED <<rIdx, gIdx>>
  /\ UNCHANGED <<results, sChan, sReceived, sDropped>>

\* The outer loop: on to the next object once this one's greetings are
\* sent, or at once when it does not decode.
NextObject ==
  /\ sPc = "run" /\ rIdx <= Len(results)
  /\ ~Current.decodes \/ gIdx = Len(Current.greetings)
  /\ rIdx' = rIdx + 1 /\ gIdx' = 0
  /\ UNCHANGED <<sPc, results, sChan, sReceived, sDropped>>

\* The task ends ("Done!"), dropping the sender.
SearchDone ==
  /\ sPc = "run" /\ rIdx > Len(results)
  /\ sPc' = "done"
  /\ UNCHANGED <<results, rIdx, gIdx, sChan, sReceived, sDropped>>

\* The client reads the stream, or drops it.
ReceiveFound ==
  /\ ~sDropped /\ sChan # <<>>
  /\ sReceived' = Append(sReceived, Head(sChan)) /\ sChan' = Tail(sChan)
  /\ UNCHANGED <<sPc, results, rIdx, gIdx, sDropped>>

DropFound ==
  /\ sPc \in {"run", "done"} /\ ~sDropped
  /\ sDropped' = TRUE
  /\ UNCHANGED <<sPc, results, rIdx, gIdx, sChan, sReceived>>

Next == Search \/ SendGreeting \/ NextObject \/ SearchDone \/ ReceiveFound \/ DropFound

-----------------------------------------------------------------------------
(* Properties.                                                             *)

TypeOK ==
  /\ sPc \in {"idle", "run", "done", "failed"}
  /\ rIdx \in 1..Len(results) + 1
  /\ sChan \in Seq(Msgs) /\ Len(sChan) <= ChanCap
  /\ sReceived \in Seq(Msgs) /\ sDropped \in BOOLEAN

\* Everything the search should stream: the greetings of the decodable
\* objects, object by object.
Found ==
  FlattenSeq([i \in DOMAIN results |->
                IF results[i].decodes THEN results[i].greetings ELSE <<>>])

====
