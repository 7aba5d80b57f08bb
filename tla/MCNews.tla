------------------------------- MODULE MCNews -------------------------------
(***************************************************************************)
(* A finite instance of NewsSync: the second article has no currency and   *)
(* the third no topic; one member asked for a currency, another for a      *)
(* topic.                                                                  *)
(***************************************************************************)
EXTENDS NewsSync

Published == <<"n1", "n2", "n3">>
Titles == [a \in Articles |-> a]
Topics == [a \in Articles |-> IF a = "n3" THEN Blank ELSE "rates"]
Currencies == [a \in Articles |-> IF a = "n2" THEN Blank ELSE "USD"]

Subscriptions == {[user |-> "u1", type |-> "CURRENCY", target |-> "EUR"],
                  [user |-> "u2", type |-> "NEWS_TOPIC", target |-> "rates"]}
=============================================================================
