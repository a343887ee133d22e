------------------------ MODULE CanonicalReference ------------------------
(***************************************************************************)
(* What Canonical is to write: one text for a value, with the members of an *)
(* object sorted first, in the order of RFC 8785, and integers in full, not *)
(* as doubles; and what a value means as JSON.  Both are functions on a set *)
(* of values that has the parts of each of its members.                     *)
(***************************************************************************)
EXTENDS Canonical, FiniteSets

CONSTANTS
    Values,     \* the documents and all their parts
    Generic,    \* those that encoding/json may return
    Depth       \* of a value, more than that of its parts: values are finite

MaxRune == 1114111
IsChar(r) == r \in 0..MaxRune /\ (r < 55296 \/ r > 57343)
IsString(s) == s \in Seq(Int) /\ \A i \in DOMAIN s : s[i] < 0 \/ IsChar(s[i])

(* What a value of a type has, its parts being in V. *)
HasParts(v, V) ==
    /\ v.type = "bool" => v.b \in BOOLEAN
    /\ v.type = "string" => IsString(v.s)
    /\ v.type = "integer" => v.n \in Int
    /\ v.type = "float" => v.halves \in Int
    /\ v.type = "number" =>
         \/ v.literal = "malformed"
         \/ v.literal \in {"integer", "float"} /\ v.halves \in Int
    /\ v.type = "list" => v.items \in Seq(V)
    /\ v.type = "object" =>
         /\ IsFiniteSet(DOMAIN v.members) /\ v.members \in [DOMAIN v.members -> V]
         /\ \A k \in DOMAIN v.members : IsString(k)

GenericTypes == {"null", "bool", "string", "number", "list", "object"}
Types == GenericTypes \cup {"integer", "float", "bytes", "nan", "other", "unmarshalable"}

(* "unmarshalable" is only what encoding/json makes of a value. *)
Proper == {v \in Values : v.type # "unmarshalable"}

ASSUME DocumentsAssumption == Documents \subseteq Proper
ASSUME ValuesAssumption ==
    \A v \in Values :
        /\ v.type \in Types /\ HasParts(v, Proper)
        /\ v.type = "other" =>
             v.generic \in Values /\ (v.generic.type = "unmarshalable" \/ v.generic \in Generic)
ASSUME GenericAssumption ==
    Generic \subseteq Values /\ \A v \in Generic : v.type \in GenericTypes /\ HasParts(v, Generic)
ASSUME DepthAssumption ==
    /\ Depth \in [Values -> Nat]
    /\ \A v \in Values :
         /\ v.type = "list" => \A i \in DOMAIN v.items : Depth[v.items[i]] < Depth[v]
         /\ v.type = "object" => \A k \in DOMAIN v.members : Depth[v.members[k]] < Depth[v]
         /\ v.type = "other" => Depth[v.generic] < Depth[v]

(* The names of every object read as different ones: of two that differ only *)
(* in bytes that are not UTF-8, the code pins no order.                      *)
NamesDiffer(members) == \A k, m \in DOMAIN members : runes(k) = runes(m) => k = m
Readable == \A v \in Values : v.type = "object" => NamesDiffer(v.members)

-----------------------------------------------------------------------------
(* A value is JSON, with every number an integer and exactly that one. *)
SerializableOf(ok, v) ==
    /\ v.type \notin {"bytes", "nan", "unmarshalable"}
    /\ v.type = "number" => v.literal # "malformed"
    /\ v.type = "float" \/ (v.type = "number" /\ v.literal = "float") =>
         \E n \in (-MaxExact)..MaxExact : v.halves = 2 * n
    /\ v.type = "list" => \A i \in DOMAIN v.items : ok[v.items[i]]
    /\ v.type = "object" => \A k \in DOMAIN v.members : ok[v.members[k]]
    /\ v.type = "other" => ok[v.generic]
Serializable[v \in Values] == SerializableOf(Serializable, v)

(* Numbers by their value, strings as they read, objects by their names. *)
MeaningOf(means, v) ==
    CASE v.type = "bool" -> [type |-> "bool", b |-> v.b]
      [] v.type = "string" -> [type |-> "string", s |-> runes(v.s)]
      [] v.type = "integer" -> [type |-> "number", n |-> v.n]
      [] v.type \in {"float", "number"} -> [type |-> "number", n |-> v.halves \div 2]
      [] v.type = "list" -> [type |-> "list", items |-> [i \in DOMAIN v.items |-> means[v.items[i]]]]
      [] v.type = "object" ->
           [type |-> "object",
            members |-> [r \in {runes(k) : k \in DOMAIN v.members} |->
                           means[v.members[CHOOSE k \in DOMAIN v.members : runes(k) = r]]]]
      [] v.type = "other" -> means[v.generic]
      [] OTHER -> [type |-> v.type]
Meaning[v \in Values] == MeaningOf(Meaning, v)

-----------------------------------------------------------------------------
(* The order of UTF-16 over code points: those beyond the basic plane come    *)
(* where the surrogates are, before U+E000.                                   *)
Place(r) == IF r < 55296 THEN r ELSE IF r < 65536 THEN r + 1048576 ELSE r - 65536 + 55296

(* At the first place at which b is not as a is, a has ended or is earlier.   *)
Precedes(a, b) ==
    \E i \in DOMAIN b :
        /\ \A j \in 1..(i - 1) : j \in DOMAIN a /\ a[j] = b[j]
        /\ i \in DOMAIN a => Place(a[i]) < Place(b[i])

(* All the names, each after those that precede it. *)
Ascending(s, names) ==
    /\ s \in [1..Cardinality(names) -> names]
    /\ \A i, j \in 1..Cardinality(names) : i < j => Precedes(runes(s[i]), runes(s[j]))
    /\ \A k \in names : \E i \in 1..Cardinality(names) : s[i] = k
sorted(names) == CHOOSE s \in [1..Cardinality(names) -> names] : Ascending(s, names)

separated(texts) ==
    concat([i \in DOMAIN texts |-> IF i = 1 THEN texts[i] ELSE <<44>> \o texts[i]])

ReferenceOf(ref, v) ==
    CASE v.type = "null" -> null
      [] v.type = "bool" -> IF v.b THEN true ELSE false
      [] v.type = "string" -> writeEscaped(v.s)
      [] v.type = "integer" -> formatInt(v.n)
      [] v.type \in {"float", "number"} -> formatInt(v.halves \div 2)
      [] v.type = "list" ->
           <<91>> \o separated([i \in DOMAIN v.items |-> ref[v.items[i]]]) \o <<93>>
      [] v.type = "object" ->
           LET names == sorted(DOMAIN v.members)
           IN <<123>> \o separated([i \in DOMAIN names |->
                 writeEscaped(names[i]) \o <<58>> \o ref[v.members[names[i]]]]) \o <<125>>
      [] v.type = "other" -> ref[v.generic]
      [] OTHER -> <<>>
Reference[v \in Values] == ReferenceOf(Reference, v)

References == [v \in {w \in Values : Serializable[w]} |-> Reference[v]]
Meanings == [v \in Values |-> Meaning[v]]

-----------------------------------------------------------------------------
(* Only characters that JSON strings may hold as they are are written. *)
TypeOK ==
    /\ err \in BOOLEAN
    /\ \A i \in DOMAIN buf : buf[i] \in 32..MaxRune

(* "The byte sequence has to be pinned" (canonical.go:19-22): whatever order a *)
(* map is ranged over, the members come in the order of RFC 8785, and what is  *)
(* not an exact integer is refused wherever it is.                             *)
Pinned ==
    todo = <<>> => IF Serializable[value] THEN ~err /\ buf = Reference[value] ELSE err

(* A hash tells two configurations apart: no two values that mean different    *)
(* things are serialized alike.                                                *)
Unambiguous ==
    todo = <<>> /\ ~err =>
        \A v \in DOMAIN References : References[v] = buf => Meanings[v] = Meanings[value]
=============================================================================
