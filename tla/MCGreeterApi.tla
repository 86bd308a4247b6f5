--------------------------- MODULE MCGreeterApi ---------------------------
EXTENDS GreeterApi

CONSTANTS m1, m2, NoMsg

MCMsgs == {m1, m2}

\* The greetings of m1 and m2; a GreetedEvent without a message, one that
\* does not decode, one without a payload; and an event of another type.
MCEventKinds ==
  {Greeted(m) : m \in MCMsgs} \cup
  {[type |-> "GreetedEvent", payload |-> TRUE, decodes |-> TRUE, msg |-> NoMsg],
   [type |-> "GreetedEvent", payload |-> TRUE, decodes |-> FALSE, msg |-> NoMsg],
   [type |-> "GreetedEvent", payload |-> FALSE, decodes |-> FALSE, msg |-> NoMsg],
   [type |-> "RecordedEvent", payload |-> TRUE, decodes |-> TRUE, msg |-> NoMsg]}

=============================================================================
