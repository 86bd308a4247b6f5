----------------------------- MODULE ReadSide -----------------------------
(***************************************************************************)
(* The read side of the example: the query model's event processor        *)
(* (QueryModel) filling the "greetings" index while the greeter service's *)
(* search (GreeterSearch) answers from it.  The two share only the index,  *)
(* which the processor writes and the search handler reads; each process  *)
(* takes its own steps, leaving the other's variables alone.               *)
(***************************************************************************)
EXTENDS QueryModel, SequencesExt

CONSTANTS ChanCap, MaxResponses

VARIABLES sPc, results, rIdx, gIdx, sChan, sReceived, sDropped

S == INSTANCE GreeterSearch WITH index <- Indexed

searchVars == <<sPc, results, rIdx, gIdx, sChan, sReceived, sDropped>>

allVars == <<vars, searchVars>>

\* A step of the event processor (or of its environment).
Processor(A) == A /\ UNCHANGED searchVars

\* A step of the search call, its task or its client.
Searcher == S!Next /\ UNCHANGED <<history, index, tokenDoc, pc, pos, crashes>>

ReadInit == Init /\ S!Init

ReadNext == Processor(Next) \/ Searcher

ReadSpec ==
  /\ ReadInit /\ [][ReadNext]_allVars
  /\ WF_allVars(Processor(RetrieveToken)) /\ WF_allVars(Processor(ApplyTo))
  /\ WF_allVars(Processor(StoreToken))
  /\ WF_allVars(Searcher /\ S!SendGreeting) /\ WF_allVars(Searcher /\ S!NextObject)
  /\ WF_allVars(Searcher /\ S!SearchDone) /\ WF_allVars(Searcher /\ S!ReceiveFound)

-----------------------------------------------------------------------------
(* Properties.                                                             *)

ReadTypeOK == TypeOK /\ S!TypeOK

\* The search stream carries, in order, a prefix of the greetings of the
\* decodable objects: the task's two loops, the channel of 4 and a client
\* that stops reading lose, repeat or reorder none of them.
SearchStreamIsPrefix == IsPrefix(sReceived \o sChan, S!Found)

\* A client that keeps reading eventually gets every greeting of every
\* decodable object: an object that does not decode is skipped, never the
\* end of the search.
SearchDeliversAll == (sPc = "run") ~> (sDropped \/ sReceived = S!Found)

=============================================================================
