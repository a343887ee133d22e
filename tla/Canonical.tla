----------------------------- MODULE Canonical -----------------------------
(***************************************************************************)
(* CanonicalJSON (admission/canonical.go): after RFC 8785, for the values   *)
(* that are hashed.  The recursion of canonical() is a list of things still to be    *)
(* written, of which each step does the first; a Go map yields its names in *)
(* any order, and sort.Slice leaves equal ones in any order.                *)
(***************************************************************************)
EXTENDS Integers, Sequences, Functions

CONSTANTS
    Documents,  \* the values to serialize: see Write
    MaxExact    \* 1 << 53, the largest float taken for the integer it is

ASSUME MaxExactAssumption == MaxExact \in Nat

(* A value is a record of one of the types                                   *)
(*   "null"; "bool", b; "string", s; "integer", n; "list", items;            *)
(*   "object", members, a function of its names; "bytes";                    *)
(*   "float", halves, finite and counted in halves; "nan", NaN or infinite;  *)
(*   "number", literal, halves: a json.Number, an integer literal or another *)
(*      text, with the float that reads as, or malformed;                    *)
(*   "other", generic: anything else, with what encoding/json makes of it,   *)
(*      "unmarshalable" if it refuses.                                       *)
(* A string is a sequence of code points, or negative numbers that stand for *)
(* the bytes that are not UTF-8.                                             *)

VARIABLES
    value,      \* what is being serialized
    todo,       \* what is still to be written, in this order
    buf,        \* the code points written
    err         \* canonical returned an error

vars == <<value, todo, buf, err>>

-----------------------------------------------------------------------------
(* A string as it is ranged over, or converted to []rune. *)
runes(s) == [i \in DOMAIN s |-> IF s[i] < 0 THEN 65533 ELSE s[i]]

(* The sequences, one after the other. *)
concat(seqs) ==
    LET upTo[i \in 0..Len(seqs)] == IF i = 0 THEN <<>> ELSE upTo[i - 1] \o seqs[i]
    IN upTo[Len(seqs)]

(* utf16.Encode: a surrogate pair beyond the basic plane. *)
encode(r) ==
    IF r < 65536 THEN <<r>>
    ELSE <<55296 + (r - 65536) \div 1024, 56320 + ((r - 65536) % 1024)>>
units(s) == concat([i \in DOMAIN s |-> encode(runes(s)[i])])

(* By the first unit that differs, or the shorter. *)
lessUTF16(a, b) ==
    \/ \E i \in DOMAIN a \cap DOMAIN b :
         a[i] < b[i] /\ \A j \in DOMAIN a : j < i => a[j] = b[j]
    \/ Len(a) < Len(b) /\ \A j \in DOMAIN a : a[j] = b[j]

(* \b \t \n \f \r \" \\ *)
shortEscapes ==
    [r \in {8, 9, 10, 12, 13, 34, 92} |->
        CASE r = 8 -> 98 [] r = 9 -> 116 [] r = 10 -> 110 [] r = 12 -> 102 [] r = 13 -> 114
          [] OTHER -> r]
hex(d) == IF d < 10 THEN 48 + d ELSE 87 + d

(* Mutant: only the characters with a short form are escaped. *)
escapeShort(r) == IF r \in DOMAIN shortEscapes THEN <<92, shortEscapes[r]>> ELSE <<r>>

escape(r) ==
    IF r \in DOMAIN shortEscapes THEN <<92, shortEscapes[r]>>
    ELSE IF r < 32 THEN <<92, 117, 48, 48, hex(r \div 16), hex(r % 16)>> ELSE <<r>>

(* Mutant: only the control characters are escaped. *)
writeEscapedControls(s) ==
    LET plain(r) == IF r \in {34, 92} THEN <<r>> ELSE escape(r)
    IN <<34>> \o concat([i \in DOMAIN s |-> plain(runes(s)[i])]) \o <<34>>

writeEscaped(s) ==
    <<34>> \o concat([i \in DOMAIN s |-> escape(runes(s)[i])]) \o <<34>>

(* strconv.FormatInt *)
formatInt(n) ==
    LET digits[d \in Nat] ==
          IF d < 10 THEN <<48 + d>> ELSE Append(digits[d \div 10], 48 + (d % 10))
    IN IF n < 0 THEN <<45>> \o digits[-n] ELSE digits[n]

-----------------------------------------------------------------------------
(* writeFloat takes a float, or a number that is not an integer literal, for  *)
(* an integer only if it is one, and exactly.                                 *)
exactInteger(halves) == halves % 2 = 0 /\ halves \in (-2 * MaxExact)..(2 * MaxExact)

(* roundTrip applies once: what it returns is generic. *)
refused(v, normalize) ==
    \/ v.type \in {"bytes", "nan"}
    \/ v.type = "float" /\ ~exactInteger(v.halves)
    \/ v.type = "number" /\ v.literal = "malformed"
    \/ v.type = "number" /\ v.literal = "float" /\ ~exactInteger(v.halves)
    \/ v.type = "other" /\ (~normalize \/ v.generic.type = "unmarshalable")

null == <<110, 117, 108, 108>>
true == <<116, 114, 117, 101>>
false == <<102, 97, 108, 115, 101>>

(* The text of a value without parts.  An integer literal is copied, "-0" is  *)
(* "0", and a float that is an integer is written as one.                     *)
text(v) ==
    CASE v.type = "null" -> null
      [] v.type = "bool" -> IF v.b THEN true ELSE false
      [] v.type = "string" -> writeEscaped(v.s)
      [] v.type = "integer" -> formatInt(v.n)
      [] v.type \in {"float", "number"} -> formatInt(v.halves \div 2)

(* What is to be done: a value, or the rest of a list or an object, after the *)
(* separator that comes first.                                                *)
Value(v, normalize) == [do |-> "value", value |-> v, normalize |-> normalize]
Items(items, sep, normalize) ==
    [do |-> "items", left |-> items, sep |-> sep, normalize |-> normalize]
Members(members, sep) == [do |-> "members", left |-> members, sep |-> sep]

Init ==
    /\ value \in Documents
    /\ todo = <<Value(value, TRUE)>>
    /\ buf = <<>>
    /\ err = FALSE

(* What is to be done now. *)
Current == Head(todo)

(* The first thing to do is replaced by these, with t written before them. *)
Do(t, things) == buf' = buf \o t /\ todo' = things \o Tail(todo) /\ UNCHANGED <<value, err>>

(* canonical: a refused value ends it, and another is written by its type. *)
Refuse ==
    /\ todo # <<>> /\ Current.do = "value" /\ refused(Current.value, Current.normalize)
    /\ err' = TRUE /\ todo' = <<>>
    /\ UNCHANGED <<value, buf>>

Write ==
    /\ todo # <<>> /\ Current.do = "value" /\ ~refused(Current.value, Current.normalize)
    /\ LET v == Current.value IN
       \/ v.type = "list" /\ Do(<<91>>, <<Items(v.items, <<>>, Current.normalize)>>)
       \/ v.type = "object" /\ Do(<<123>>, <<Members(v.members, <<>>)>>)
       \/ v.type = "other" /\ Do(<<>>, <<Value(v.generic, FALSE)>>)
       \/ v.type \notin {"list", "object", "other"} /\ Do(text(v), <<>>)

WriteItem ==
    /\ todo # <<>> /\ Current.do = "items"
    /\ IF Current.left = <<>> THEN Do(<<93>>, <<>>)
       ELSE Do(Current.sep, <<Value(Head(Current.left), Current.normalize),
                            Items(Tail(Current.left), <<44>>, Current.normalize)>>)

(* Mutant: the members in the order of the map. *)
firstUnsorted(members) == DOMAIN members

(* Mutant: sorted by code point. *)
firstByRune(members) ==
    {k \in DOMAIN members : \A m \in DOMAIN members : ~lessUTF16(runes(m), runes(k))}

(* The names that may come first once the members are sorted. *)
first(members) ==
    {k \in DOMAIN members : \A m \in DOMAIN members : ~lessUTF16(units(m), units(k))}

(* writeObject *)
WriteMember ==
    /\ todo # <<>> /\ Current.do = "members"
    /\ LET members == Current.left IN
       \/ DOMAIN members = {} /\ Do(<<125>>, <<>>)
       \/ \E k \in first(members) :
            Do(Current.sep \o writeEscaped(k) \o <<58>>,
               <<Value(members[k], TRUE),
                 Members(Restrict(members, DOMAIN members \ {k}), <<44>>)>>)

(* CanonicalJSON returns the bytes, or nil and the error. *)
Returned == todo = <<>> /\ UNCHANGED vars

Next == Refuse \/ Write \/ WriteItem \/ WriteMember \/ Returned

Spec == Init /\ [][Next]_vars
=============================================================================
