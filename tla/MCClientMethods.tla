---------------------------- MODULE MCClientMethods ----------------------------
(* A call of any method, with options alone and together; after it, or inside of  *)
(* it where it runs functions of the script, a scan and a close(), of this object *)
(* or another.                                                                   *)
EXTENDS ClientMethods

MCMethod == DOMAIN MethodTable
MCFinish == [m \in MCMethod |-> FinishOf(m)]

Right(key) == [key |-> key, right |-> TRUE]
Wrong(key) == [key |-> key, right |-> FALSE]

MCGiven == {<<>>, <<Right("SERIALIZER"), Wrong("GEN")>>}

Calls == <<MCMethod, {"scan"}, {"close"}>>

\* One of those that every method takes or refuses alike.
SingleOption == OptionKey \ {"GEN", "COMMIT_LEVEL", "REPLICA", "BATCH_DIRECT",
                             "COMPRESSION"}

Options ==
    <<{<<>>, <<Right("TTL"), Right("WRITE_TIMEOUT")>>,
       <<Right("READ_TIMEOUT"), Wrong("SCAN")>>, <<Right("string"), Right("RETRY")>>,
       <<Right("CONNECT_TIMEOUT"), Right("SERIALIZER"), Right("unknown")>>}
      \cup {<<Right(k)>> : k \in SingleOption},
      {<<>>}, {<<>>}>>
===============================================================================
