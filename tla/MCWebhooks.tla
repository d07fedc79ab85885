----------------------------- MODULE MCWebhooks -----------------------------
(* Webhooks for TLC: one delivery in two workers, without and with an       *)
(* operator's cancel and reset; two webhooks for one event, edits and a     *)
(* replay; the shutdown.                                                    *)
EXTENDS Webhooks
CONSTANTS h1, h2, r1, r2, w1, w2

Created == <<"record", "create", "posts">>
Deleted == <<"record", "delete", "tags">>

MCTopic == {Created, Deleted}
MCPattern == [h \in Hook |-> IF h = h1 THEN {<<"record", "*", "posts">>} ELSE {<<"record", "*", "*">>}]

MCInstances ==
    {[events |-> 1, rows |-> 1, buffer |-> 1, edits |-> 0, mishaps |-> 2, stops |-> FALSE,
      topics |-> {Deleted}, handlers |-> {r1}, workers |-> {w1, w2}],
     [events |-> 1, rows |-> 1, buffer |-> 1, edits |-> 2, mishaps |-> 1, stops |-> FALSE,
      topics |-> {Deleted}, handlers |-> {r1}, workers |-> {w1, w2}],
     [events |-> 1, rows |-> 2, buffer |-> 1, edits |-> 2, mishaps |-> 0, stops |-> FALSE,
      topics |-> {Created}, handlers |-> {r1}, workers |-> {w1}],
     [events |-> 1, rows |-> 2, buffer |-> 1, edits |-> 1, mishaps |-> 1, stops |-> FALSE,
      topics |-> {Created}, handlers |-> {r1}, workers |-> {w1}],
     [events |-> 3, rows |-> 2, buffer |-> 1, edits |-> 0, mishaps |-> 0, stops |-> TRUE,
      topics |-> {Deleted}, handlers |-> {r1, r2}, workers |-> {w1}]}
=============================================================================
