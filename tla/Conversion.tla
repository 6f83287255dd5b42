----------------------------- MODULE Conversion ------------------------------
(***************************************************************************)
(* aerospike_transform.c: PHP values on their way into the bins of a       *)
(* record, and back.                                                       *)
(*                                                                         *)
(* put() walks the array of the record, turns each value into an as_val    *)
(* and sends the record; get() turns each bin into a PHP value.  What the  *)
(* database has no type for is serialized to bytes.  The processes of a    *)
(* web site differ in PHP version and in the callbacks that their scripts  *)
(* registered, and share the record.                                       *)
(*                                                                         *)
(* A PHP value is a record with one field, named for its type; an array is *)
(* the sequence of its elements, and a key is an integer or a string.      *)
(***************************************************************************)
EXTENDS Integers, Sequences, SequencesExt, FiniteSets

CONSTANTS
    Process,
    PHP,                 \* of each process: 5 or 7
    Input,               \* the arrays that scripts give to put()
    CString,             \* of each string: its part before the first NUL
    LongName,            \* the strings that are longer than 14 characters
    UintRange,           \* 2^32: the values of a C uint
    AS_MAX_STORE_SIZE,   \* lists, maps, strings, integers and bytes one put() may use
    HashOrder            \* the order in which the C client visits the keys of a map

ASSUME ConversionAssumption ==
    /\ PHP \in [Process -> {5, 7}]
    /\ \A s \in DOMAIN CString : CString[CString[s]] = CString[s]
    /\ UintRange \in Nat \ {0} /\ AS_MAX_STORE_SIZE \in Nat

VARIABLES
    features,       \* what the server has types for, of "double" and "geojson"
    serializers,    \* the processes whose script called setSerializer()
    deserializers,  \* and setDeserializer()
    record,         \* on the server: the as_val of each bin
    given           \* history: of each bin, the value and how put() was called

vars == <<features, serializers, deserializers, record, given>>

Serializer == {"NONE", "PHP", "USER"}

-----------------------------------------------------------------------------
(* PHP values.                                                             *)

Null == [null |-> TRUE]
Bool == [bool |-> TRUE]
Long(n) == [long |-> n]
Double == [double |-> "0.5"]
Str(s) == [string |-> s]
Object(s) == [object |-> s]
GeoJSON == [geojson |-> "point"]
Array(e) == [array |-> e]
Is(v, type) == type \in DOMAIN v

IntKey(n) == [int |-> n]
StrKey(s) == [str |-> s]
At(k, v) == [key |-> k, value |-> v]
Keys(e) == {e[i].key : i \in DOMAIN e}

\* zend_hash: an element of the same key is replaced where it is.
Assoc(e, k, v) ==
    IF k \in Keys(e)
    THEN [i \in DOMAIN e |-> IF e[i].key = k THEN At(k, v) ELSE e[i]]
    ELSE Append(e, At(k, v))

-----------------------------------------------------------------------------
(* Writing.  Each step takes what earlier ones made, used pools included,  *)
(* and does nothing once one of them failed.                               *)

Pools == [bytes |-> 0, int |-> 0, str |-> 0, list |-> 0, map |-> 0]

Made(val, used) == [status |-> "OK", val |-> val, used |-> used]
Failed(status) == [status |-> status, val |-> <<>>, used |-> Pools]

\* The pools of the call have room; Use is the place taken.
Room(used, pool) == used[pool] < AS_MAX_STORE_SIZE
Use(used, pool) == [used EXCEPT ![pool] = @ + 1]

\* serialize_based_on_serializer_policy, into bytes of the pool.
Serialized(v, how, used) ==
    CASE ~Room(used, "bytes") -> Failed("CLIENT")
      [] how.serializer = "NONE" -> Failed("PARAM")
      [] how.serializer = "PHP" -> Made([bytes |-> "PHP", of |-> v], Use(used, "bytes"))
      [] how.by \in serializers -> Made([bytes |-> "BLOB", of |-> v], Use(used, "bytes"))
      [] OTHER -> Failed("CLIENT")

\* A string or an integer of a map is held in a pool.
Pooled(pool, val, used) ==
    IF Room(used, pool) THEN Made(val, Use(used, pool)) ELSE Failed("CLIENT")

\* AEROSPIKE_MAP_PUT_ASSOC_type.
MapScalar(v, how, used) ==
    CASE Is(v, "long") -> Pooled("int", [integer |-> v.long], used)
      [] Is(v, "string") -> Pooled("str", [string |-> CString[v.string]], used)
      [] OTHER -> Serialized(v, how, used)

\* AEROSPIKE_LIST_PUT_APPEND_type.
ListScalar(v, how, used) ==
    CASE Is(v, "long") -> Made([integer |-> v.long], used)
      [] Is(v, "string") -> Made([string |-> CString[v.string]], used)
      [] Is(v, "null") -> Made([nil |-> TRUE], used)
      [] OTHER -> Serialized(v, how, used)

\* Mutant: a double goes to a server that has no type for it.
BinScalarAnyServer(v, how, used) ==
    CASE Is(v, "long") -> Made([integer |-> v.long], used)
      [] Is(v, "string") -> Made([string |-> CString[v.string]], used)
      [] Is(v, "double") -> Made(v, used)
      [] Is(v, "geojson") /\ "geojson" \in features -> Pooled("bytes", v, used)
      [] OTHER -> Serialized(v, how, used)

\* AEROSPIKE_DEFAULT_PUT_ASSOC_type.  A GeoJSON has taken its place among the
\* bytes before it is told from another object.
BinScalar(v, how, used) ==
    CASE Is(v, "long") -> Made([integer |-> v.long], used)
      [] Is(v, "string") -> Made([string |-> CString[v.string]], used)
      [] Is(v, "double") /\ "double" \in features -> Made(v, used)
      [] Is(v, "geojson") /\ "geojson" \in features -> Pooled("bytes", v, used)
      [] OTHER -> Serialized(v, how, used)

Scalar(level, v, how, used) ==
    CASE level = "DEFAULT" -> BinScalar(v, how, used)
      [] level = "LIST" -> ListScalar(v, how, used)
      [] level = "MAP" -> MapScalar(v, how, used)

\* Mutant: any array whose keys are all integers is a list.
IntegerKeys(p, e) == \A i \in DOMAIN e : Is(e[i].key, "int")

\* Mutant: an array is a list when it has the keys of one.
ListKeys(p, e) == Keys(e) = {IntKey(i - 1) : i \in DOMAIN e}

\* AEROSPIKE_PROCESS_ARRAY: the array is a list.  PHP 5 counts the elements whose
\* key is their place.  In PHP 7 the loop that looks for the next key has itself
\* run to the last element, which is counted with an earlier one if it fits.
IsList(p, e) ==
    LET Counted(n, x) ==
            CASE x.key # IntKey(n) -> n
              [] PHP[p] = 7 /\ Last(e).key = IntKey(n + 1) -> n + 2
              [] OTHER -> n + 1
    IN IF PHP[p] = 5 THEN \A i \in DOMAIN e : e[i].key = IntKey(i - 1)
       ELSE FoldLeft(Counted, 0, e) = Len(e)

\* AS_MAP_KEY.
MapKey(k, used) ==
    IF Is(k, "str") THEN Pooled("str", StrKey(CString[k.str]), used)
                    ELSE Pooled("int", k, used)

\* The conversion of a value at a level: DEFAULT is a bin, LIST an element of a
\* list, MAP of a map.
RECURSIVE Value(_, _, _, _)

\* AS_LIST_PUT.
ListOf(e, how, used) ==
    LET Next1(m, x) ==
            LET c == Value("LIST", x.value, how, m.used)
            IN CASE m.status # "OK" -> m
                 [] c.status # "OK" -> c
                 [] OTHER -> Made(Append(m.val, c.val), c.used)
    IN FoldLeft(Next1, Made(<<>>, used), e)

\* AS_MAP_PUT; as_hashmap_set replaces the value of a key it has.
MapOf(e, how, used) ==
    LET Next1(m, x) ==
            LET k == MapKey(x.key, m.used)
                c == Value("MAP", x.value, how, k.used)
            IN CASE m.status # "OK" -> m
                 [] k.status # "OK" -> k
                 [] c.status # "OK" -> c
                 [] OTHER -> Made((k.val :> c.val) @@ m.val, c.used)
    IN FoldLeft(Next1, Made(<<>>, used), e)

\* AEROSPIKE_level_PUT_action_ARRAY.
ArrayOf(e, how, used) ==
    LET kind == IF IsList(how.by, e) THEN "list" ELSE "map"
        m == IF kind = "list" THEN ListOf(e, how, Use(used, kind))
                              ELSE MapOf(e, how, Use(used, kind))
    IN CASE ~Room(used, kind) -> Failed("CLIENT")
         [] m.status # "OK" -> m
         [] OTHER -> Made(kind :> m.val, m.used)

Value(level, v, how, used) ==
    IF Is(v, "array") THEN ArrayOf(v.array, how, used) ELSE Scalar(level, v, how, used)

\* AS_DEFAULT_PUT: the bins.  An element with an integer key has the name of the
\* one before it, or none.
BinsOf(input, how) ==
    LET Next1(m, x) ==
            LET name == IF Is(x.key, "str") THEN <<x.key.str>> ELSE m.name
                c == Value("DEFAULT", x.value, how, m.used)
            IN CASE m.status # "OK" -> m
                 [] name = <<>> -> [m EXCEPT !.status = "CLIENT"]
                 [] name[1] \in LongName -> [m EXCEPT !.status = "BIN_NAME"]
                 [] c.status # "OK" -> [m EXCEPT !.status = c.status]
                 [] OTHER -> [status |-> "OK", used |-> c.used, name |-> name,
                              val |-> (CString[name[1]] :> c.val) @@ m.val]
    IN FoldLeft(Next1, [status |-> IF input = <<>> THEN "PARAM" ELSE "OK",
                        used |-> Pools, name |-> <<>>, val |-> <<>>], input)

-----------------------------------------------------------------------------
(* Reading.                                                                *)

Got(value) == [status |-> "OK", value |-> value]
Unreadable == [status |-> "CLIENT", value |-> Null]

\* unserialize_based_on_as_bytes_type; the callbacks are each other's inverse.
Unserialized(b, p) ==
    IF b.bytes = "PHP" \/ p \in deserializers THEN Got(b.of) ELSE Unreadable

\* The key of a map in the PHP array: an integer goes through a uint, but not
\* when its value is a list or a map.
IndexOf(k, val) ==
    IF Is(k, "int") /\ ~Is(val, "list") /\ ~Is(val, "map")
    THEN IntKey(k.int % UintRange) ELSE k

RECURSIVE Read(_, _)

\* AS_LIST_GET_CALLBACK, until it fails on an element.
ReadList(list, p) ==
    LET Next1(m, val) ==
            LET r == Read(val, p)
            IN CASE m.stopped -> m
                 [] r.status # "OK" -> [m EXCEPT !.stopped = TRUE]
                 [] OTHER -> [m EXCEPT !.e = Append(@, At(IntKey(Len(@)), r.value))]
    IN FoldLeft(Next1, [stopped |-> FALSE, e |-> <<>>], list).e

\* AS_MAP_GET_CALLBACK, likewise.
ReadMap(map, p) ==
    LET Next1(m, k) ==
            LET r == Read(map[k], p)
            IN CASE m.stopped -> m
                 [] r.status # "OK" -> [m EXCEPT !.stopped = TRUE]
                 [] OTHER -> [m EXCEPT !.e = Assoc(@, IndexOf(k, map[k]), r.value)]
        Has(k) == k \in DOMAIN map
    IN FoldLeft(Next1, [stopped |-> FALSE, e |-> <<>>], SelectSeq(HashOrder, Has)).e

\* The value of an as_val.  A list or a map is handed over as far as it was read,
\* and the error is forgotten.
Read(val, p) ==
    CASE Is(val, "nil") -> Got(Null)
      [] Is(val, "integer") -> Got(Long(val.integer))
      [] Is(val, "string") -> Got(Str(CString[val.string]))
      [] Is(val, "bytes") -> Unserialized(val, p)
      [] Is(val, "list") -> Got(Array(ReadList(val.list, p)))
      [] Is(val, "map") -> Got(Array(ReadMap(val.map, p)))
      [] OTHER -> Got(val)

\* AS_DEFAULT_GET on each bin: what get() returns to process p.
Fetched(p) ==
    LET r == [b \in DOMAIN record |-> Read(record[b], p)]
    IN [status |-> IF \A b \in DOMAIN r : r[b].status = "OK" THEN "OK" ELSE "SERVER",
        bins |-> [b \in DOMAIN r |-> r[b].value]]

-----------------------------------------------------------------------------

Init ==
    /\ features \in SUBSET {"double", "geojson"}
    /\ serializers = {} /\ deserializers = {}
    /\ record = <<>> /\ given = <<>>

\* The callbacks are the process's, whichever object the script has.
SetSerializer(p) ==
    /\ serializers' = serializers \cup {p}
    /\ UNCHANGED <<features, deserializers, record, given>>

SetDeserializer(p) ==
    /\ deserializers' = deserializers \cup {p}
    /\ UNCHANGED <<features, serializers, record, given>>

\* Each element names a bin of its own.
NamesBins(input) ==
    /\ \A i \in DOMAIN input : Is(input[i].key, "str")
    /\ \A i, j \in DOMAIN input :
          CString[input[i].key.str] = CString[input[j].key.str] => i = j

\* put(), which sends the bins only if all of them were made.
Put(p, input, serializer, back) ==
    LET how == [by |-> p, serializer |-> serializer]
        r == BinsOf(input, how)
        Of(b) == CHOOSE i \in DOMAIN input : CString[input[i].key.str] = b
    IN /\ r.status = "OK"
       /\ record' = r.val @@ record
       /\ given' = [b \in DOMAIN r.val |->
                      [how |-> how, back |-> back,
                       value |-> IF NamesBins(input) THEN <<input[Of(b)].value>> ELSE <<>>]]
                   @@ given
       /\ UNCHANGED <<features, serializers, deserializers>>

\* A script reads the record and puts all of it back.
PutBack(p, serializer) ==
    /\ record # <<>> /\ Fetched(p).status = "OK"
    /\ LET bins == Fetched(p).bins
           names == SetToSeq(DOMAIN bins)
       IN Put(p, [i \in DOMAIN names |-> At(StrKey(names[i]), bins[names[i]])],
              serializer, TRUE)

Next ==
    \E p \in Process :
        \/ SetSerializer(p) \/ SetDeserializer(p)
        \/ \E serializer \in Serializer :
              \/ \E input \in Input : Put(p, input, serializer, FALSE)
              \/ PutBack(p, serializer)

Spec == Init /\ [][Next]_vars

-----------------------------------------------------------------------------
(* Properties.                                                             *)

\* Every as_val that is inside val, val included.
RECURSIVE Within(_)
Within(val) ==
    {val} \cup
    CASE Is(val, "list") -> UNION {Within(val.list[i]) : i \in DOMAIN val.list}
      [] Is(val, "map") -> UNION {Within(val.map[k]) : k \in DOMAIN val.map}
      [] OTHER -> {}

TypeOK ==
    /\ features \subseteq {"double", "geojson"}
    /\ serializers \subseteq Process /\ deserializers \subseteq Process
    /\ DOMAIN given = DOMAIN record
    /\ \A b \in DOMAIN record : \A val \in Within(record[b]) :
          \E type \in {"nil", "integer", "string", "double", "geojson", "bytes", "list", "map"} :
             /\ Is(val, type)
             /\ type \in {"double", "geojson"} => type \in features

\* The value as PHP compares it with ==: an array is its keys with their values.
RECURSIVE Content(_)
Content(v) ==
    IF Is(v, "array")
    THEN [k \in Keys(v.array) |->
             Content(v.array[CHOOSE i \in DOMAIN v.array : v.array[i].key = k].value)]
    ELSE v

\* The keys are those of a list, in another order.
Shuffled(e) ==
    /\ Keys(e) = {IntKey(i - 1) : i \in DOMAIN e}
    /\ \E i \in DOMAIN e : e[i].key # IntKey(i - 1)

\* What the conversion is known to lose: a string from its first NUL on, an
\* integer key of a scalar that is no uint, in PHP 7 the order of a list's keys.
RECURSIVE Kept(_, _)
Kept(v, p) ==
    CASE Is(v, "string") -> CString[v.string] = v.string
      [] Is(v, "array") ->
            /\ PHP[p] = 7 => ~Shuffled(v.array)
            /\ \A i \in DOMAIN v.array :
                  LET x == v.array[i]
                  IN /\ Kept(x.value, p)
                     /\ IF Is(x.key, "str") THEN CString[x.key.str] = x.key.str
                        ELSE Is(x.value, "array") \/ x.key.int \in 0 .. UintRange - 1
      [] OTHER -> TRUE

\* Process p has what it needs to read what was put how.
Readable(how, p) == how.serializer = "USER" => p \in deserializers

\* Process p reads, in each of the bins that was put under its own name, the value
\* that was put.
ReadsBack(p, bins) ==
    LET got == Fetched(p)
    IN got.status = "OK" =>
          \A b \in bins : given[b].value # <<>> /\ Readable(given[b].how, p) =>
              Content(got.bins[b]) = Content(given[b].value[1])

\* A value that was put and is read by any process is the value that was put, in
\* whatever array it is and whatever serialized it; but for what Kept says,
\* and for what a process without the other's callback cannot read.
ReadIsWritten ==
    LET Whole == {b \in DOMAIN given :
                     given[b].value # <<>> => Kept(given[b].value[1], given[b].how.by)}
    IN \A p \in Process : ReadsBack(p, Whole)

\* What a script reads and a PHP 5 process puts back has nothing more to lose: it
\* is read the same from then on, whatever was lost of it on the first way.
ReadIsSettled ==
    LET Back == {b \in DOMAIN given : given[b].back /\ PHP[given[b].how.by] = 5}
    IN \A p \in Process : ReadsBack(p, Back)

=============================================================================
