----------------------------- MODULE MCBatchRead ------------------------------
(* Two keys with the same user key, in different sets, and one of its own.  *)
EXTENDS BatchRead

UserKeys == [users_1 |-> "1", posts_1 |-> "1", users_2 |-> "2"]

Batches == {<<>>, <<"users_2", "users_1">>, <<"users_1", "posts_1", "users_1">>}
=============================================================================
