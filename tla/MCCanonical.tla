---------------------------- MODULE MCCanonical ----------------------------
(* The documents on which Canonical is checked against the reference. *)
EXTENDS CanonicalReference, SequencesExt

String(s) == [type |-> "string", s |-> s]
List(items) == [type |-> "list", items |-> items]
Object(members) == [type |-> "object", members |-> members]
Other(v) == [type |-> "other", generic |-> v]
Integer(n) == [type |-> "integer", n |-> n]

(* An empty string, a letter, a comma, a control character, an e acute, the   *)
(* two characters that code points and code units order differently, two      *)
(* bytes that are not UTF-8, and a string that looks like a list of two.      *)
Names == {<<>>, <<97>>, <<44>>, <<31>>, <<233>>, <<65374>>, <<119070>>, <<-1>>,
          <<97, 97>>, <<97, 119070>>, <<97, 65374>>}
Strings == Names \cup {<<-2>>, <<65533>>, <<97, 34, 44, 34, 97>>, <<34>>, <<92>>, <<10>>, <<92, 110>>}

Numbers ==
    {Integer(n) : n \in {-1, 0, 1, 12, 13}}
      \cup [type : {"float"}, halves : {-2, -1, 0, 1, 2, 24, 26}]
      \cup [type : {"number"}, literal : {"integer"}, halves : {0, 2, 26}]
      \cup [type : {"number"}, literal : {"float"}, halves : {1, 2, 26}]
      \cup {[type |-> "number", literal |-> "malformed"]}

Scalars ==
    {[type |-> "null"], [type |-> "bytes"], [type |-> "nan"]}
      \cup [type : {"bool"}, b : BOOLEAN] \cup Numbers \cup {String(s) : s \in Strings}
Few == {[type |-> "null"], Integer(1), String(<<97>>), List(<<>>), Other(List(<<String(<<>>)>>)),
        [type |-> "nan"]}

(* A configuration: a version or null, and two lists of tools. *)
Tools == {<<>>, <<String(<<97>>)>>, <<String(<<97>>), String(<<233>>)>>, <<String(<<97, 34, 44, 34, 97>>)>>,
          <<String(<<97>>), String(<<97>>)>>}
Configurations ==
    {Object(<<118>> :> v @@ <<104>> :> List(h) @@ <<111>> :> List(o)) :
        v \in {[type |-> "null"], String(<<>>), String(<<97>>)}, h \in Tools, o \in Tools}

(* A value and all it is made of. *)
RECURSIVE Parts(_)
Parts(v) ==
    {v} \cup CASE v.type = "list" -> UNION {Parts(v.items[i]) : i \in DOMAIN v.items}
               [] v.type = "object" -> UNION {Parts(v.members[k]) : k \in DOMAIN v.members}
               [] v.type = "other" -> Parts(v.generic)
               [] OTHER -> {}

(* What encoding/json returns: numbers as their text, and strings of UTF-8.   *)
IsGeneric(v) ==
    \A p \in Parts(v) :
        /\ p.type \in GenericTypes
        /\ p.type = "number" => p.literal # "malformed"
        /\ p.type = "string" => runes(p.s) = p.s
        /\ p.type = "object" => \A k \in DOMAIN p.members : runes(k) = k

MCDocuments ==
    LET flat == Scalars
                  \cup {List(<<v>>) : v \in Scalars} \cup {List(<<v, w>>) : v, w \in Few}
                  \cup UNION {{Object(m) : m \in [names -> {[type |-> "null"], String(<<97>>)}]} :
                                names \in kSubset(2, Names)}
                  \cup {Object([n \in names |-> String(n)]) : names \in kSubset(3, Names)}
                  \cup {Object(<<97>> :> v) : v \in Few} \cup {Object(<<>>)}
    IN flat \cup Configurations
         \cup {Other(v) : v \in {w \in flat : IsGeneric(w)}}
         \cup {Other([type |-> "unmarshalable"])}
         \cup {Object(<<97>> :> Object(<<233>> :> v @@ <<97>> :> v)) : v \in Few}

MCValues == UNION {Parts(v) : v \in MCDocuments}
MCGeneric == {v \in MCValues : IsGeneric(v)}

RECURSIVE Height(_)
Height(v) ==
    IF Parts(v) = {v} THEN 0
    ELSE 1 + Max({Height(p) : p \in Parts(v) \ {v}})
MCDepth == [v \in MCValues |-> Height(v)]

ASSUME ReadableAssumption == Readable
=============================================================================
