----------------------------- MODULE GreeterApi -----------------------------
(***************************************************************************)
(* The example greeter service of src/example_api/mod.rs.  greet, record  *)
(* and stop send a command for aggregate "xxx" through the command         *)
(* gateway and turn its answer into a reply.  greetings reads the events   *)
(* of "xxx" once, then a spawned task walks that snapshot and sends every  *)
(* greeting through a channel of capacity 4, followed by an end-of-stream  *)
(* marker; the channel's receiver is the response stream, which the client *)
(* reads or drops.  A send to a dropped receiver fails and is ignored.     *)
(*                                                                         *)
(* The command side is abstracted to what its contract (CommandHandling)  *)
(* allows: a greet is stored and answered with or without a response      *)
(* payload, or fails, possibly after its event was stored.  One greetings  *)
(* call is made, at any point among the greets.                            *)
(***************************************************************************)
EXTENDS Integers, Sequences, SequencesExt

CONSTANTS
  Msgs,        \* greeting messages
  EventKinds,  \* the events of "xxx" (records; Greeted(m) below is a greet's)
  End,         \* the "End of stream -oo-" greeting
  ChanCap,     \* capacity of the greetings channel (4 in the code)
  MaxHistory   \* events of "xxx" the model appends

ASSUME /\ End \notin Msgs /\ ChanCap \in Nat \ {0} /\ MaxHistory \in Nat

\* The GreetedEvent the command side stores for a greet of m.
Greeted(m) == [type |-> "GreetedEvent", payload |-> TRUE, decodes |-> TRUE, msg |-> m]

ASSUME \A m \in Msgs : Greeted(m) \in EventKinds

VARIABLES
  history,   \* events of "xxx" in the event store
  acked,     \* messages whose greet returned the handler's Acknowledgement
  gPc,       \* the greetings call: "idle" | "run" | "done" | "failed"
  ackedAtQuery, \* acked when the greetings call read the events
  snapshot,  \* the events query_events returned
  tIdx,      \* events of the snapshot the spawned task has walked
  chan,      \* the channel's buffer
  received,  \* what the client has read from the stream
  dropped    \* the client has dropped the response stream

vars == <<history, acked, gPc, ackedAtQuery, snapshot, tIdx, chan, received, dropped>>

Init ==
  /\ history = <<>> /\ acked = {}
  /\ gPc = "idle" /\ ackedAtQuery = {} /\ snapshot = <<>> /\ tIdx = 0
  /\ chan = <<>> /\ received = <<>> /\ dropped = FALSE

-----------------------------------------------------------------------------
(* greet, record and stop.                                                 *)

\* What the greet handler makes of send_command's answer: an error status
\* (map_err(to_status)); the handler's Acknowledgement decoded from the
\* response payload, or an error status when it does not decode; the
\* default "Hello m!" reply when the response has no payload.
GreetReply(answer) ==
  CASE answer = "err"         -> "status"
    [] answer = "undecodable" -> "status"
    [] answer = "payload"     -> "handler"
    [] answer = "none"        -> "default"

\* A greet of m.  GreetCommand's handler answers with an Acknowledgement
\* and a GreetedEvent, stored before the response is sent.  Every outcome
\* the builders make carries a response, so a response without payload
\* comes only from Ok(None), which stores nothing.  A failed command may
\* have been stored all the same (an append whose acknowledgement was
\* lost).  acked records the greets answered with the handler's reply.
Greet(m) ==
  /\ Len(history) < MaxHistory
  /\ \E answer \in {"err", "undecodable", "payload", "none"}, stored \in BOOLEAN :
       /\ answer \in {"payload", "undecodable"} => stored
       /\ answer = "none" => ~stored
       /\ history' = IF stored THEN Append(history, Greeted(m)) ELSE history
       /\ acked' = IF GreetReply(answer) = "handler" THEN acked \cup {m} ELSE acked
  /\ UNCHANGED <<gPc, ackedAtQuery, snapshot, tIdx, chan, received, dropped>>

\* record and stop: send_command for RecordCommand or StopCommand; the
\* reply is Empty or the error status (neither changes acked), and the
\* aggregate may store an event of another type.
RecordOrStop ==
  /\ Len(history) < MaxHistory
  /\ \/ \E e \in EventKinds : e.type # "GreetedEvent" /\ history' = Append(history, e)
     \/ UNCHANGED history
  /\ UNCHANGED <<acked, gPc, ackedAtQuery, snapshot, tIdx, chan, received, dropped>>

\* Environment: events of "xxx" written by others (older versions of the
\* application): without payload, undecodable, or without a message.
ForeignEvent ==
  /\ Len(history) < MaxHistory
  /\ \E e \in EventKinds : e.type = "GreetedEvent" /\ ~(e.payload /\ e.decodes /\ e.msg \in Msgs)
       /\ history' = Append(history, e)
  /\ UNCHANGED <<acked, gPc, ackedAtQuery, snapshot, tIdx, chan, received, dropped>>

-----------------------------------------------------------------------------
(* greetings.                                                              *)

\* query_events(.., "xxx"): the events as they are now, or an error status.
Greetings ==
  /\ gPc = "idle"
  /\ \/ /\ gPc' = "run" /\ snapshot' = history /\ ackedAtQuery' = acked
     \/ gPc' = "failed" /\ UNCHANGED <<snapshot, ackedAtQuery>>
  /\ UNCHANGED <<history, acked, tIdx, chan, received, dropped>>

\* The loop's filter: a payload of type GreetedEvent that decodes and
\* carries a message.
IsGreeting(e) ==
  e.payload /\ e.type = "GreetedEvent" /\ e.decodes /\ e.msg \in Msgs

\* Fault variant (mutation): an unbounded channel.
SendUnbounded(g) ==
  \/ ~dropped /\ chan' = Append(chan, g)
  \/ dropped /\ UNCHANGED chan

\* Fault variant (mutation): a send to a dropped receiver is not noticed
\* and waits for room like any other.
SendIgnoringDrop(g) == Len(chan) < ChanCap /\ chan' = Append(chan, g)

\* tx.send(..).await.ok(): suspends while the buffer is full; fails (and
\* is ignored) once the receiver is dropped.
Send(g) ==
  \/ ~dropped /\ Len(chan) < ChanCap /\ chan' = Append(chan, g)
  \/ dropped /\ UNCHANGED chan

\* Fault variant (mutation): the loop starts at the second event.
TaskStepSkipFirst ==
  /\ gPc = "run" /\ tIdx < Len(snapshot)
  /\ LET e == snapshot[tIdx + 1] IN
       IF IsGreeting(e) /\ tIdx > 0 THEN Send(e.msg) ELSE UNCHANGED chan
  /\ tIdx' = tIdx + 1
  /\ UNCHANGED <<history, acked, gPc, ackedAtQuery, snapshot, received, dropped>>

\* One iteration of the spawned task's loop.
TaskStep ==
  /\ gPc = "run" /\ tIdx < Len(snapshot)
  /\ LET e == snapshot[tIdx + 1] IN
       IF IsGreeting(e) THEN Send(e.msg) ELSE UNCHANGED chan
  /\ tIdx' = tIdx + 1
  /\ UNCHANGED <<history, acked, gPc, ackedAtQuery, snapshot, received, dropped>>

\* Fault variant (mutation): the end marker sent one iteration early.
TaskEndEarly ==
  /\ gPc = "run" /\ tIdx >= Len(snapshot) - 1
  /\ Send(End)
  /\ gPc' = "done"
  /\ UNCHANGED <<history, acked, ackedAtQuery, snapshot, tIdx, received, dropped>>

\* After the loop: the end-of-stream greeting; the task ends.
TaskEnd ==
  /\ gPc = "run" /\ tIdx = Len(snapshot)
  /\ Send(End)
  /\ gPc' = "done"
  /\ UNCHANGED <<history, acked, ackedAtQuery, snapshot, tIdx, received, dropped>>

\* The client reads the response stream, or drops it (the buffer is never
\* read again).
Receive ==
  /\ ~dropped /\ chan # <<>>
  /\ received' = Append(received, Head(chan)) /\ chan' = Tail(chan)
  /\ UNCHANGED <<history, acked, gPc, ackedAtQuery, snapshot, tIdx, dropped>>

Drop ==
  /\ gPc \in {"run", "done"} /\ ~dropped
  /\ dropped' = TRUE
  /\ UNCHANGED <<history, acked, gPc, ackedAtQuery, snapshot, tIdx, chan, received>>

Next == \/ \E m \in Msgs : Greet(m)
        \/ RecordOrStop \/ ForeignEvent \/ Greetings \/ TaskStep \/ TaskEnd \/ Receive \/ Drop

\* The spawned task runs whenever it can, and the client keeps reading
\* unless it drops the stream.
Spec == Init /\ [][Next]_vars /\ WF_vars(TaskStep) /\ WF_vars(TaskEnd) /\ WF_vars(Receive)

-----------------------------------------------------------------------------
(* Properties.                                                             *)

TypeOK ==
  /\ history \in Seq(EventKinds) /\ acked \subseteq Msgs
  /\ gPc \in {"idle", "run", "done", "failed"}
  /\ snapshot \in Seq(EventKinds) /\ tIdx \in 0..Len(snapshot)
  /\ chan \in Seq(Msgs \cup {End}) /\ Len(chan) <= ChanCap
  /\ received \in Seq(Msgs \cup {End}) /\ dropped \in BOOLEAN

\* The whole greetings stream: the snapshot's greetings in event order,
\* then the end marker.
Stream == [i \in 1..Len(SelectSeq(snapshot, IsGreeting)) |->
             SelectSeq(snapshot, IsGreeting)[i].msg] \o <<End>>

\* The client reads a prefix of the stream: nothing lost, repeated or
\* reordered between the snapshot, the task, the channel and the client.
StreamIsPrefix == IsPrefix(received \o chan, Stream)

\* Read-your-greetings: a client that reads the stream to the end marker
\* has seen every greeting that the command handler acknowledged before it
\* called greetings.  (A greet answered with the default "Hello m!" reply
\* may have stored nothing, and is not covered.)
AcknowledgedGreetingsListed ==
  (received # <<>> /\ Last(received) = End) => ackedAtQuery \subseteq ToSet(received)

\* The spawned task ends once started, whether the client reads to the end
\* or drops the stream.
TaskTerminates == (gPc = "run") ~> (gPc = "done")

=============================================================================
