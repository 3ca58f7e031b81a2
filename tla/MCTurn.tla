---- MODULE MCTurn ----
\* A group of two reads, a group whose edit only a later batch can check, and a
\* command whose changes nobody reports.
EXTENDS Turn

SmallBatches == {<<"look", "look">>, <<"check", "edit">>, <<"shell">>}
CheckEdit == {<<"check", "edit">>}
====
