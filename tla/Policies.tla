------------------------------- MODULE Policies -------------------------------
(***************************************************************************)
(* Options arrays and the policies made of them.                           *)
(*                                                                         *)
(* The constructor writes its options into the as_config of the object.    *)
(* Every other method starts from a copy of the policy of its kind in the   *)
(* as_config and goes through its own options: an option its kind of policy *)
(* has no use for, or of the wrong type, ends the walk with a PARAM error.  *)
(***************************************************************************)
EXTENDS Integers, Sequences

\* SCAN stands for OPT_SCAN_PRIORITY and the four keys after it, "string" for a
\* key that is no integer, "unknown" for an integer that is no option, EMPTY_GEN for
\* OPT_POLICY_GEN with an array that has no index 0.
OptionKey == {"CONNECT_TIMEOUT", "READ_TIMEOUT", "WRITE_TIMEOUT", "EXISTS", "RETRY",
              "SERIALIZER", "SCAN", "KEY", "GEN", "EMPTY_GEN", "COMMIT_LEVEL",
              "CONSISTENCY", "REPLICA", "DURABLE_DELETE", "TTL", "BATCH_DIRECT", "COMPRESSION",
              "string", "unknown"}

\* right: the value has the type, and the range, of the option.
Option == [key : OptionKey, right : BOOLEAN]

KeysOf(opts) == {opts[i].key : i \in DOMAIN opts}

\* The wrapper each group of methods calls, by the policy it passes.  "list" is
\* operate with the serializer of the object itself, "aggregate" query with a
\* serializer.
Kind == [get |-> "read", put |-> "write", write |-> "write", operate |-> "operate",
         list |-> "operate", remove |-> "remove", info |-> "info", scan |-> "scan",
         query |-> "query", aggregate |-> "query", batch |-> "batch", apply |-> "apply",
         admin |-> "admin"]

PolicyUse == DOMAIN Kind

\* Those that pass a serializer_policy_p.
HasSerializer(use) == use \in {"put", "operate", "list", "scan", "aggregate", "apply"}

TakesTimeout(use, key) ==
    CASE key = "CONNECT_TIMEOUT" -> use # "admin"
      [] key = "READ_TIMEOUT"    -> Kind[use] \in {"read", "info", "scan", "query", "batch"}
      [] key = "WRITE_TIMEOUT"   -> Kind[use] \notin {"read", "batch"}

TakesWrite(use, key) ==
    \/ key = "EXISTS" /\ Kind[use] = "write"
    \/ key \in {"RETRY", "GEN", "COMMIT_LEVEL"} /\ Kind[use] \in {"write", "operate", "remove"}

TakesRead(use, key) ==
    \/ key = "KEY" /\ Kind[use] \in {"write", "read", "operate", "remove", "apply"}
    \/ key \in {"CONSISTENCY", "REPLICA"} /\ Kind[use] \in {"read", "operate"}

\* Only a scan has the as_scan that OPT_POLICY_DURABLE_DELETE asks for first.
TakesScan(use, key) == key \in {"SCAN", "DURABLE_DELETE"} /\ use = "scan"

Timeouts == {"CONNECT_TIMEOUT", "READ_TIMEOUT", "WRITE_TIMEOUT"}

\* The switch.  Scan options of an info policy, and the TTL, are passed over
\* whatever their value.
Accepts(use, o) ==
    \/ o.key = "TTL"
    \/ o.key = "SCAN" /\ Kind[use] = "info"
    \/ /\ o.right
       /\ \/ o.key \in Timeouts /\ TakesTimeout(use, o.key)
          \/ o.key = "SERIALIZER" /\ HasSerializer(use)
          \/ TakesWrite(use, o.key) \/ TakesRead(use, o.key) \/ TakesScan(use, o.key)

\* The switch of the constructor.  The type of OPT_SERIALIZER is not looked at, its
\* && lets every value pass.
ConfigAccepts(o) ==
    \/ o.key = "SERIALIZER"
    \/ /\ o.right
       /\ o.key \in Timeouts \cup {"KEY", "RETRY", "EXISTS", "REPLICA", "CONSISTENCY",
                                  "COMMIT_LEVEL", "BATCH_DIRECT", "COMPRESSION"}

Accepted(use, o) == IF use = "config" THEN ConfigAccepts(o) ELSE Accepts(use, o)

\* The options the walk comes to.  Under PHP 7 the loop that looks for string keys
\* runs to the end inside the outer one, so that the switch sees the last option.
Read(build, opts) ==
    IF build = "php5" \/ opts = <<>> THEN opts
    ELSE IF "string" \in KeysOf(opts) THEN <<[key |-> "string", right |-> FALSE]>>
    ELSE <<opts[Len(opts)]>>

\* The keys taken before the first that is refused.
TakenUntil(use, read) ==
    {read[i].key : i \in {j \in DOMAIN read : \A k \in 1 .. j : Accepted(use, read[k])}}

\* Whatever the policy, the walk ends where the index 0 is looked up and not found:
\* under PHP 7 by a jump past the end that leaves the error as it is, under PHP 5
\* at the type of what NULL points to.
GenerationMissing(use, read) ==
    /\ use # "config"
    /\ \E i \in DOMAIN read :
          read[i].key = "EMPTY_GEN" /\ \A j \in 1 .. i - 1 : Accepted(use, read[j])

\* Mutant: the policy is that of the as_config, not a copy.
KeptUncopied(use, taken) == taken

\* What outlives the call: conn_timeout_ms is a field of the shared as_config, the
\* list methods pass the serializer_opt of the object.
KeptBy(use, taken) ==
    taken \cap ({"CONNECT_TIMEOUT"} \cup IF use = "list" THEN {"SERIALIZER"} ELSE {})

\* set_policy_ex, and set_config_policies by the constructor.
SetPolicy(build, use, opts) ==
    LET read  == Read(build, opts)
        taken == TakenUntil(use, read)
    IN  [ok |-> \A i \in DOMAIN read : Accepted(use, read[i]), taken |-> taken,
         quits |-> build = "php7" /\ GenerationMissing(use, read),
         dies |-> build = "php5" /\ GenerationMissing(use, read),
         kept |-> IF use = "config" THEN taken ELSE KeptBy(use, taken)]
===============================================================================
