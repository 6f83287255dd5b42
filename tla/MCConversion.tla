---------------------------- MODULE MCConversion -----------------------------
(* A small instance of Conversion for TLC.                                  *)
EXTENDS Conversion

Versions == [old |-> 5, new |-> 7]

\* The part of each string before its first NUL.
Text == [a |-> "a", b |-> "b", a_0_off |-> "a", fifteen_letters |-> "fifteen_letters"]

\* Not the order of the integers.
Visits == <<StrKey("b"), IntKey(0), IntKey(2), IntKey(1), IntKey(-1), IntKey(4), IntKey(3), StrKey("a")>>

Scalars == {Null, Bool, Double, GeoJSON, Object("a_0_off"), Long(-1), Long(4),
            Str("a"), Str("a_0_off")}

Of(k, v) == Array(<<At(k, v)>>)
List(v, w) == Array(<<At(IntKey(0), v), At(IntKey(1), w)>>)
Listed(i, j, k) ==
    Array(<<At(IntKey(i), Str("a")), At(IntKey(j), Str("b")), At(IntKey(k), Null)>>)

\* Lists, maps of each kind of key, one inside the other; the last needs one integer
\* more than the pool has.
Arrays ==
    {Array(<<>>), List(Null, Bool), List(Object("a"), Long(1)),
     Listed(0, 1, 2), Listed(0, 2, 1), Listed(1, 0, 2), Listed(0, 1, 3),
     Of(StrKey("a_0_off"), Double), Of(IntKey(-1), Long(4)),
     Array(<<At(IntKey(4), Bool), At(IntKey(1), Null)>>), Of(IntKey(-1), Of(IntKey(0), Object("a"))),
     Of(StrKey("a"), List(GeoJSON, Str("a_0_off"))), List(List(Double, Null), Long(1)),
     Array(<<At(IntKey(-1), Str("a")), At(IntKey(3), Str("b"))>>),
     Array(<<At(StrKey("a"), Long(1)), At(StrKey("a_0_off"), Long(2))>>),
     Array(<<At(IntKey(-1), Long(4)), At(IntKey(4), Long(1))>>)}

Bin(n, v) == At(StrKey(n), v)

Puts ==
    {<<Bin("a", v)>> : v \in Scalars \cup Arrays} \cup
    {<<>>, <<At(IntKey(0), Null)>>, <<Bin("a", Long(1)), At(IntKey(0), Long(2))>>,
     <<Bin("fifteen_letters", Null)>>, <<Bin("a", Null), Bin("a_0_off", Bool)>>}

=============================================================================
