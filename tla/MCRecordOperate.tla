--------------------------- MODULE MCRecordOperate ----------------------------
(***************************************************************************)
(* The lists the model checker gives to operate() and operateOrdered().     *)
(***************************************************************************)
EXTENDS RecordOperate, TLC

Op(op, type, v) ==
    [op |-> op, form |-> "array", val |-> [type |-> type, v |-> v], index |-> None]
Bare(op) == [op |-> op, form |-> "array", val |-> None, index |-> None]
Scalar   == [op |-> "unknown", form |-> "scalar", val |-> None, index |-> None]
Range(index) == [op |-> "range", form |-> "array", val |-> None, index |-> index]

\* Writes and reads, an increment whose value a later element inherits, items that are
\* an array or are passed over, and elements that end the walk early.
MCLists ==
    { <<Op("incr", "long", 5), Op("write", "double", 2)>>,
      <<Range(None), Op("items", "array", 1)>>,
      <<Op("items", "long", 1), Bare("unknown")>>,
      <<Bare("read"), Scalar>>, <<Op("incr", "string", 1)>> }

Opts(gen, retry, bad) == [gen |-> gen, retry |-> retry, bad |-> bad]

MCOptions ==
    { Opts(None, FALSE, "nothing"), Opts(0, FALSE, "nothing"), Opts(None, TRUE, "nothing"),
      Opts(None, FALSE, "gen"), Opts(None, FALSE, "policy"), Opts(None, FALSE, "ttl") }

Symmetry == Permutations(Process)

=============================================================================
