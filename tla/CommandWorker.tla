--------------------------- MODULE CommandWorker ---------------------------
(***************************************************************************)
(* The command worker of src/axon_utils/command_worker.rs: two concurrently *)
(* running tasks coupled by a bounded channel, talking to the command       *)
(* service over one bidirectional gRPC stream.                              *)
(*                                                                         *)
(*  - Task A, the loop of command_worker, reads inbound instructions,      *)
(*    handles each Command and sends its result into the channel.          *)
(*  - Task B, the generator of create_output_stream, subscribes to every   *)
(*    command name, grants the initial permits, and then turns every       *)
(*    result taken from the channel into a CommandResponse, topping up     *)
(*    the permits whenever its local balance falls to BatchSize.           *)
(*  - The server (the remote command service) receives the outbound        *)
(*    instructions in order and sends a command only while it holds a      *)
(*    permit and after it has seen a subscription for the command's name.  *)
(*                                                                         *)
(* The handling pipeline itself (handle_command) is abstracted here to its *)
(* outcome, success or failure; CommandHandling models it in detail.  Its  *)
(* event-store calls have no timeout, so handling may never complete: the  *)
(* specification gives it no fairness, and properties that need it say so. *)
(* A transport failure ends the call, and tonic drops the outbound stream  *)
(* and with it the channel's receiver.                                     *)
(***************************************************************************)
EXTENDS Integers, Sequences, FiniteSets

CONSTANTS
  N,            \* number of commands the server has to deliver (ids 1..N)
  Names,        \* command names
  CmdName,      \* CmdName[i]: the name of command i
  CommandVec,   \* the command list built by AggregateRegistry.register
  BatchSize,    \* permits_batch_size (the code fixes it at 3)
  QueueCap      \* capacity of the result channel (the code uses 10)

ASSUME /\ N \in Nat \ {0}
       /\ CmdName \in [1..N -> Names]
       /\ CommandVec \in Seq(Names)
       /\ BatchSize \in Nat \ {0}
       /\ QueueCap \in Nat \ {0}

VARIABLES
  aPc,        \* task A: "read" | "handle" | "push" | "done" | "panicked"
  current,    \* task A: the command being handled, then its result
  queue,      \* the mpsc channel of AxonCommandResult
  bPc,        \* task B: "subscribe" | "steady" | "stopped"
  subIdx,     \* task B: index of the next name of CommandVec to subscribe
  permits,    \* task B: the local permit balance
  outbox,     \* outbound instructions on the wire, in order
  inbox,      \* inbound commands on the wire, in order
  subscribed, \* server: the names it has seen a subscription for
  granted,    \* server: the permits it has received
  nSent,      \* server: commands sent so far (it sends ids in order)
  answered,   \* server: ids it has received a response for
  stream,     \* server side of the call: "open" | "closed" | "error"
  emitted     \* history: request ids of all emitted responses, in order

workerVars == <<aPc, current, queue, bPc, subIdx, permits>>
serverVars == <<subscribed, granted, nSent, answered, stream>>
vars == <<workerVars, outbox, inbox, serverVars, emitted>>

Result == [req : 1..N, ok : BOOLEAN]
Instruction ==
       [kind : {"Subscribe"}, cmd : Names]
  \cup [kind : {"FlowControl"}, permits : Nat]
  \cup [kind : {"Response"}, req : 1..N, ok : BOOLEAN]
NoResult == [req |-> 0, ok |-> FALSE]

-----------------------------------------------------------------------------
(* Startup: the registry fills the command list, the channel is created    *)
(* with capacity QueueCap, the output stream is handed to open_stream.     *)
Init ==
  /\ aPc = "read"
  /\ current = NoResult
  /\ queue = <<>>
  /\ bPc = "subscribe"
  /\ subIdx = 1
  /\ permits = 0
  /\ outbox = <<>>
  /\ inbox = <<>>
  /\ subscribed = {}
  /\ granted = 0
  /\ nSent = 0
  /\ answered = {}
  /\ stream = "open"
  /\ emitted = <<>>

-----------------------------------------------------------------------------
(* Task B, create_output_stream.                                           *)

\* One CommandSubscription per entry of the command list, in list order.
Subscribe ==
  /\ bPc = "subscribe"
  /\ subIdx <= Len(CommandVec)
  /\ outbox' = Append(outbox, [kind |-> "Subscribe", cmd |-> CommandVec[subIdx]])
  /\ subIdx' = subIdx + 1
  /\ UNCHANGED <<aPc, current, queue, bPc, permits, inbox, serverVars, emitted>>

\* After the last subscription: permits = 2 * batch size, sent as FlowControl.
InitialFlowControl ==
  /\ bPc = "subscribe"
  /\ subIdx > Len(CommandVec)
  /\ permits' = 2 * BatchSize
  /\ outbox' = Append(outbox, [kind |-> "FlowControl", permits |-> 2 * BatchSize])
  /\ bPc' = "steady"
  /\ UNCHANGED <<aPc, current, queue, subIdx, inbox, serverVars, emitted>>

\* The new balance after one response, and whether it triggers a top-up.
AfterResponse(p) == p - 1

\* Fault variant (mutation): the threshold compared with the initial grant.
TopUpThresholdDoubled(p) == AfterResponse(p) <= 2 * BatchSize

TopUp(p) == AfterResponse(p) <= BatchSize

\* Fault variant (mutation): the balance is topped up but the FlowControl
\* instruction is never yielded.
EmitResponseGrantUnsent ==
  /\ bPc = "steady"
  /\ queue # <<>>
  /\ queue' = Tail(queue)
  /\ outbox' = Append(outbox, [kind |-> "Response", req |-> Head(queue).req, ok |-> Head(queue).ok])
  /\ permits' = IF TopUp(permits) THEN AfterResponse(permits) + BatchSize ELSE AfterResponse(permits)
  /\ emitted' = Append(emitted, Head(queue).req)
  /\ UNCHANGED <<aPc, current, bPc, subIdx, inbox, serverVars>>

\* Fault variant (mutation): responses are emitted only between commands,
\* as if one loop did both ingestion and emission.
EmitResponseAfterIngestion ==
  /\ aPc # "handle"
  /\ bPc = "steady"
  /\ queue # <<>>
  /\ queue' = Tail(queue)
  /\ outbox' = Append(outbox, [kind |-> "Response", req |-> Head(queue).req, ok |-> Head(queue).ok])
  /\ permits' = AfterResponse(permits)
  /\ emitted' = Append(emitted, Head(queue).req)
  /\ UNCHANGED <<aPc, current, bPc, subIdx, inbox, serverVars>>

\* One iteration of `while let Some(r) = rx.recv().await`: yield the
\* CommandResponse, decrement permits and, if the balance is at most the
\* batch size, yield FlowControl{permits: BatchSize} and add it back.
EmitResponse ==
  /\ bPc = "steady"
  /\ queue # <<>>
  /\ LET r        == Head(queue)
         response == [kind |-> "Response", req |-> r.req, ok |-> r.ok]
         grant    == [kind |-> "FlowControl", permits |-> BatchSize]
     IN /\ queue' = Tail(queue)
        /\ IF TopUp(permits)
             THEN /\ outbox' = outbox \o <<response, grant>>
                  /\ permits' = AfterResponse(permits) + BatchSize
             ELSE /\ outbox' = Append(outbox, response)
                  /\ permits' = AfterResponse(permits)
        /\ emitted' = Append(emitted, r.req)
  /\ UNCHANGED <<aPc, current, bPc, subIdx, inbox, serverVars>>

-----------------------------------------------------------------------------
(* Task A, the loop of command_worker.                                     *)

\* Fault variant (mutation): the command is read without being consumed.
ReadCommandPeek ==
  /\ aPc = "read"
  /\ inbox # <<>>
  /\ current' = [req |-> Head(inbox).id, ok |-> FALSE]
  /\ aPc' = "handle"
  /\ UNCHANGED <<inbox, queue, bPc, subIdx, permits, outbox, serverVars, emitted>>

\* inbound.message() yields Ok(Some(Command)): the command is taken and
\* handled.
ReadCommand ==
  /\ aPc = "read"
  /\ inbox # <<>>
  /\ current' = [req |-> Head(inbox).id, ok |-> FALSE]
  /\ inbox' = Tail(inbox)
  /\ aPc' = "handle"
  /\ UNCHANGED <<queue, bPc, subIdx, permits, outbox, serverVars, emitted>>

\* The routing table and registry lookups and the aggregate's handler run
\* to completion; the outcome (Ok, or Err, "Could not find aggregate
\* handler" included) becomes the AxonCommandResult.
Handle ==
  /\ aPc = "handle"
  /\ \E ok \in BOOLEAN : current' = [current EXCEPT !.ok = ok]
  /\ aPc' = "push"
  /\ UNCHANGED <<inbox, queue, bPc, subIdx, permits, outbox, serverVars, emitted>>

\* tx.send(result).await.unwrap(): suspends while the channel is full; once
\* the receiver is gone, send fails and unwrap panics.
Push ==
  /\ aPc = "push"
  /\ \/ /\ bPc # "stopped" /\ Len(queue) < QueueCap
        /\ queue' = Append(queue, current) /\ aPc' = "read"
     \/ bPc = "stopped" /\ aPc' = "panicked" /\ UNCHANGED queue
  /\ current' = NoResult
  /\ UNCHANGED <<bPc, subIdx, permits, outbox, inbox, serverVars, emitted>>

\* inbound.message() yields Ok(None) once the server has ended the stream:
\* the loop only logs and reads again, so it stays where it is.
ReadNone ==
  /\ aPc = "read"
  /\ inbox = <<>>
  /\ stream = "closed"
  /\ UNCHANGED vars

\* Fault variant (mutation): the error is logged and the loop reads again.
ReadErrorLogOnly ==
  /\ aPc = "read"
  /\ stream = "error"
  /\ UNCHANGED vars

\* inbound.message() yields Err: command_worker returns the error.
ReadError ==
  /\ aPc = "read"
  /\ stream = "error"
  /\ aPc' = "done"
  /\ UNCHANGED <<current, queue, bPc, subIdx, permits, outbox, inbox, serverVars, emitted>>

-----------------------------------------------------------------------------
(* The server.  It is not part of the code; it is modelled by the contract *)
(* the code relies on: instructions delivered in order, a command only for *)
(* a subscribed name and only against a permit.                           *)

ServerCredit == granted - nSent

ServerSend ==
  /\ stream = "open"
  /\ nSent < N
  /\ CmdName[nSent + 1] \in subscribed
  /\ ServerCredit > 0
  /\ inbox' = Append(inbox, [id |-> nSent + 1, name |-> CmdName[nSent + 1]])
  /\ nSent' = nSent + 1
  /\ UNCHANGED <<workerVars, outbox, subscribed, granted, answered, stream, emitted>>

ServerReceive ==
  /\ stream # "error"
  /\ outbox # <<>>
  /\ LET i == Head(outbox) IN
       /\ subscribed' = IF i.kind = "Subscribe" THEN subscribed \cup {i.cmd} ELSE subscribed
       /\ granted' = IF i.kind = "FlowControl" THEN granted + i.permits ELSE granted
       /\ answered' = IF i.kind = "Response" THEN answered \cup {i.req} ELSE answered
  /\ outbox' = Tail(outbox)
  /\ UNCHANGED <<workerVars, inbox, nSent, stream, emitted>>

\* The server ends the call normally (the worker then reads Ok(None)) ...
ServerClose ==
  /\ stream = "open"
  /\ stream' = "closed"
  /\ UNCHANGED <<workerVars, outbox, inbox, subscribed, granted, nSent, answered, emitted>>

\* ... or the transport fails: the worker then reads Err, and the outbound
\* stream (the generator of task B, owning the receiver) is dropped.
ServerFail ==
  /\ stream \in {"open", "closed"}
  /\ stream' = "error"
  /\ bPc' = "stopped"
  /\ UNCHANGED <<aPc, current, queue, subIdx, permits, outbox, inbox,
                 subscribed, granted, nSent, answered, emitted>>

-----------------------------------------------------------------------------
WorkerNext ==
  \/ Subscribe \/ InitialFlowControl \/ EmitResponse
  \/ ReadCommand \/ Handle \/ Push \/ ReadNone \/ ReadError

ServerNext == ServerSend \/ ServerReceive \/ ServerClose \/ ServerFail

Next == WorkerNext \/ ServerNext

\* Both tokio tasks are scheduled whenever they are ready, and the transport
\* delivers what was written; the server's choice to send, close or fail
\* is its own and carries no fairness.  Handle has none either: the event
\* store may never answer (no timeout, spec section 5).
Fairness ==
  /\ WF_vars(Subscribe) /\ WF_vars(InitialFlowControl) /\ WF_vars(EmitResponse)
  /\ WF_vars(ReadCommand) /\ WF_vars(Push) /\ WF_vars(ReadError)
  /\ WF_vars(ServerReceive)

Spec == Init /\ [][Next]_vars /\ Fairness

-----------------------------------------------------------------------------
(* Properties.                                                             *)

TypeOK ==
  /\ aPc \in {"read", "handle", "push", "done", "panicked"}
  /\ current \in Result \cup {NoResult}
  /\ queue \in Seq(Result) /\ Len(queue) <= QueueCap
  /\ bPc \in {"subscribe", "steady", "stopped"}
  /\ subIdx \in 1..Len(CommandVec) + 1
  /\ permits \in 0..2 * BatchSize
  /\ outbox \in Seq(Instruction)
  /\ inbox \in Seq([id : 1..N, name : Names])
  /\ subscribed \subseteq Names
  /\ granted \in Nat /\ nSent \in 0..N
  /\ answered \subseteq 1..N
  /\ stream \in {"open", "closed", "error"}
  /\ emitted \in Seq(1..N)

\* Correlation: every CommandResponse the driver emits answers a command
\* the server sent, and no command is answered twice.
ResponseCorrelation ==
  /\ \A i \in DOMAIN emitted : emitted[i] <= nSent
  /\ \A i, j \in DOMAIN emitted : i # j => emitted[i] # emitted[j]

\* The event store answers every call eventually, so task A never stays in
\* handle_command for good (the assumption some properties below need).
HandlingCompletes == []<>(aPc # "handle")

\* No credit starvation: while the server still has commands to send on an
\* open stream, it always eventually holds a permit again, provided every
\* command's handling completes.
NoCreditStarvation ==
  HandlingCompletes =>
    [](nSent < N /\ stream = "open" => <>(ServerCredit > 0 \/ stream # "open"))

\* Refinement: seen from the service, the worker implements CommandService
\* with a window of 2 * batch size -- the service never has more than that
\* many commands unanswered, and every command is answered exactly once
\* unless the stream fails.
Service == INSTANCE CommandService
             WITH Ids <- 1..N, Window <- 2 * BatchSize, sent <- 1..nSent

\* Service!Spec, its fairness (an answer for every sent command, which for
\* finitely many commands is what weak fairness of Answer amounts to)
\* conditioned on handling completing.
ImplementsCommandService ==
  /\ Service!Init /\ [][Service!Next]_(Service!vars)
  /\ HandlingCompletes =>
       \A i \in 1..N : (i <= nSent) ~> (i \in answered \/ stream = "error")

\* Spec section 5: slow persistence does not hold back results already in
\* the channel -- even while task A is stuck in an event-store call, every
\* result in the channel is eventually answered, unless the transport fails.
ResultsDrainWhileHandlingStalls ==
  \A i \in 1..N :
    (\E k \in DOMAIN queue : queue[k].req = i) ~> (i \in answered \/ stream = "error")

\* Spec section 5: a transport error terminates the worker -- it returns the
\* error or, if it was handling a command, the send of the result panics --
\* provided the handling in progress completes.
WorkerStopsOnTransportError ==
  HandlingCompletes => ((stream = "error") ~> (aPc \in {"done", "panicked"}))

\* Spec section 4.3: the local balance "must always equal the number of
\* commands the remote peer is still authorized to send" (compared when no
\* FlowControl is in transit).  The code decrements on emitting a response,
\* not on receiving a command.
CreditMatchesServer ==
  (bPc = "steady" /\ \A k \in DOMAIN outbox : outbox[k].kind # "FlowControl")
    => permits = ServerCredit

\* Spec section 5: when the inbound stream ends, the worker exits.  The loop
\* of command_worker treats Ok(None) as "nothing yet" and reads again (the
\* property assumes handling completes, so a stalled store is not the cause).
WorkerExitsOnStreamEnd == HandlingCompletes => ((stream = "closed") ~> (aPc = "done"))

=============================================================================
