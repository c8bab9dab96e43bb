----------------------------- MODULE ValueChannel -----------------------------
(* What the codec promises to the program that uses it (tester/main.cpp): a  *)
(* value that was encoded is the value that is decoded, and it does arrive.  *)
CONSTANTS Values, Nothing

VARIABLES sent,     \* the value that was encoded last
          received  \* the value that was decoded last

channelVars == <<sent, received>>

Init == sent = Nothing /\ received = Nothing

Send ==
  /\ received = sent
  /\ sent' \in Values
  /\ UNCHANGED received

Deliver ==
  /\ received # sent
  /\ received' = sent
  /\ UNCHANGED sent

Next == Send \/ Deliver

Spec == Init /\ [][Next]_channelVars /\ WF_channelVars(Deliver)
===============================================================================
