-------------------------- MODULE CanonicalProofs --------------------------
(***************************************************************************)
(* Proofs about Canonical, for documents of any size and depth, and about   *)
(* what it is built of, for strings of any length: that lessUTF16 is a      *)
(* strict total order, so that sorting leaves no choice among different     *)
(* names whatever order a map is ranged over; that the bytes are those of   *)
(* the reference; and that they tell what a document means.                 *)
(*                                                                          *)
(* Induction is over sets of naturals, of sequences or of depths that have  *)
(* the successor of each of their members (Recursion!Induction).  Texts are *)
(* put together by Before, and looked at by First, which stand for \o and   *)
(* [1] where the provers are not to look into them.                         *)
(***************************************************************************)
EXTENDS CanonicalReference, FiniteSetTheorems, SequenceTheorems, TLAPS

-----------------------------------------------------------------------------
(* Sequences, one after the other. *)

Digits == INSTANCE Recursion WITH Domain <- Nat, rank <- [n \in Nat |-> n],
  Def <- LAMBDA f, d : IF d < 10 THEN <<48 + d>> ELSE Append(f[d \div 10], 48 + (d % 10))

Joined(f, s, n) == f = [i \in 0..n |-> IF i = 0 THEN <<>> ELSE f[i - 1] \o s[i]]

JoinedTo(f, s, n) == f[0] = <<>> /\ \A i \in Nat : i < n => f[i + 1] = f[i] \o s[i + 1]

(* The recursion of concat, one element at a time. *)
LEMMA JoinedStep ==
    ASSUME NEW f, NEW s, NEW n \in Nat, Joined(f, s, n)
    PROVE  JoinedTo(f, s, n)
<1>1. f[0] = <<>>
  BY DEF Joined
<1>2. ASSUME NEW i \in Nat, i < n PROVE f[i + 1] = f[i] \o s[i + 1]
  <2>1. i + 1 \in 0..n /\ i + 1 # 0 /\ (i + 1) - 1 = i
    BY <1>2
  <2>2. f[i + 1] = f[(i + 1) - 1] \o s[i + 1]
    BY <2>1 DEF Joined
  <2> QED BY <2>1, <2>2
<1> QED BY <1>1, <1>2 DEF JoinedTo

(* concat is the last of the sequences its recursion builds. *)
LEMMA ConcatDef ==
    ASSUME NEW s, Len(s) \in Nat
    PROVE  \E f : JoinedTo(f, s, Len(s)) /\ concat(s) = f[Len(s)]
<1> DEFINE T == {n \in Nat : \E f : Joined(f, s, n)}
<1>1. 0 \in T
  <2> DEFINE f == [i \in 0..0 |-> <<>>]
  <2>1. Joined(f, s, 0)
    BY DEF Joined
  <2> HIDE DEF f
  <2> QED BY <2>1
<1>2. ASSUME NEW n \in Nat, n \in T PROVE n + 1 \in T
  <2>1. PICK f : Joined(f, s, n)
    BY <1>2
  <2> DEFINE g == [i \in 0..(n + 1) |-> IF i = 0 THEN <<>> ELSE f[i - 1] \o s[i]]
  <2>2. \A i \in 0..n : f[i] = g[i]
    BY <2>1, SMTT(30) DEF Joined
  <2>3. ASSUME NEW i \in 0..(n + 1)
        PROVE  (IF i = 0 THEN <<>> ELSE f[i - 1] \o s[i]) = (IF i = 0 THEN <<>> ELSE g[i - 1] \o s[i])
    <3>1. i # 0 => i - 1 \in 0..n
      OBVIOUS
    <3> HIDE DEF g
    <3> QED BY <2>2, <3>1
  <2>4. Joined(g, s, n + 1)
    BY <2>3 DEF Joined
  <2> HIDE DEF g
  <2> QED BY <2>4
<1> HIDE DEF T
<1>3. Len(s) \in T
  BY <1>1, <1>2, Digits!Induction
<1>4. \E f : Joined(f, s, Len(s))
  BY <1>3 DEF T
<1>5. \E f : Joined(f, s, Len(s)) /\ concat(s) = f[Len(s)]
  BY <1>4 DEF concat, Joined
<1> QED BY <1>5, JoinedStep

Agree(s, t, m) == \A i \in 1..m : s[i] = t[i]

(* Two such recursions over sequences that agree so far agree so far. *)
LEMMA JoinedAgree ==
    ASSUME NEW s, NEW m \in Nat, NEW f, NEW t, NEW n \in Nat, NEW g,
           JoinedTo(f, s, m), JoinedTo(g, t, n), m <= n, Agree(s, t, m)
    PROVE  f[m] = g[m]
<1> DEFINE T == {i \in Nat : i <= m => f[i] = g[i]}
<1>1. 0 \in T
  BY DEF JoinedTo
<1>2. ASSUME NEW i \in Nat, i \in T PROVE i + 1 \in T
  <2>1. CASE i + 1 <= m
    <3>1. i + 1 \in 1..m /\ i < m /\ i < n /\ i <= m
      BY <2>1
    <3>2. f[i + 1] = f[i] \o s[i + 1] /\ g[i + 1] = g[i] \o t[i + 1]
      BY <3>1, Zenon DEF JoinedTo
    <3>3. f[i] = g[i] /\ s[i + 1] = t[i + 1]
      BY <1>2, <3>1 DEF Agree
    <3>4. f[i + 1] = g[i + 1]
      <4>1. f[i] \o s[i + 1] = g[i] \o t[i + 1]
        BY <3>3, Zenon
      <4> QED BY <3>2, <4>1, Zenon
    <3> QED BY <3>4
  <2> QED BY <2>1
<1> HIDE DEF T
<1>3. \A i \in Nat : i \in T
  BY <1>1, <1>2, Digits!Induction
<1> QED BY <1>3 DEF T

(* No sequences, one after the other, are the empty one. *)
LEMMA ConcatEmpty == concat(<<>>) = <<>>
<1>1. Len(<<>>) = 0
  OBVIOUS
<1>2. PICK f : JoinedTo(f, <<>>, 0) /\ concat(<<>>) = f[0]
  BY <1>1, ConcatDef
<1> QED BY <1>2 DEF JoinedTo

(* Sequences over a set, one after the other, are one over that set. *)
LEMMA ConcatType ==
    ASSUME NEW X, NEW s \in Seq(Seq(X))
    PROVE  concat(s) \in Seq(X)
<1>1. PICK f : JoinedTo(f, s, Len(s)) /\ concat(s) = f[Len(s)]
  BY ConcatDef
<1> DEFINE T == {n \in Nat : n <= Len(s) => f[n] \in Seq(X)}
<1>2. 0 \in T
  <2>1. f[0] = <<>> /\ <<>> \in Seq(X)
    BY <1>1 DEF JoinedTo
  <2> QED BY <2>1
<1>3. ASSUME NEW n \in Nat, n \in T PROVE n + 1 \in T
  <2> SUFFICES ASSUME n + 1 <= Len(s) PROVE f[n + 1] \in Seq(X)
    OBVIOUS
  <2>1. n < Len(s)
    OBVIOUS
  <2>3. f[n + 1] = f[n] \o s[n + 1]
    BY <1>1, <2>1 DEF JoinedTo
  <2>2. f[n] \in Seq(X) /\ s[n + 1] \in Seq(X)
    BY <1>3
  <2> QED BY <2>2, <2>3
<1> HIDE DEF T
<1>4. Len(s) \in T
  BY <1>2, <1>3, Digits!Induction, SMTT(30)
<1> QED BY <1>1, <1>4 DEF T

(* A last sequence comes last. *)
LEMMA ConcatAppend ==
    ASSUME NEW X, NEW s \in Seq(Seq(X)), NEW x \in Seq(X)
    PROVE  concat(Append(s, x)) = concat(s) \o x
<1>a. PICK t : t = Append(s, x)
  OBVIOUS
<1>0. t \in Seq(Seq(X)) /\ Len(t) = Len(s) + 1 /\ t[Len(s) + 1] = x /\ \A i \in 1..Len(s) : s[i] = t[i]
  BY <1>a
<1>1. PICK f : JoinedTo(f, s, Len(s)) /\ concat(s) = f[Len(s)]
  BY ConcatDef
<1>2. PICK g : JoinedTo(g, t, Len(t)) /\ concat(t) = g[Len(t)]
  BY <1>0, ConcatDef, SMTT(30)
<1>3. f[Len(s)] = g[Len(s)]
  <2>1. Len(s) \in Nat /\ Len(t) \in Nat /\ Len(s) <= Len(t)
    BY <1>0
  <2>2. f[Len(s)] = g[Len(s)]
    <3>1. Agree(s, t, Len(s))
      BY <1>0 DEF Agree
    <3>2. JoinedTo(f, s, Len(s)) /\ JoinedTo(g, t, Len(t))
      BY <1>1, <1>2
    <3> QED BY <2>1, <3>1, <3>2, JoinedAgree
  <2> QED BY <2>2
<1>4. g[Len(t)] = g[Len(s)] \o x
  <2>1. Len(s) \in Nat /\ Len(s) < Len(t)
    BY <1>0
  <2>2. g[Len(s) + 1] = g[Len(s)] \o t[Len(s) + 1]
    BY <1>2, <2>1 DEF JoinedTo
  <2> QED BY <1>0, <2>2
<1> QED BY <1>a, <1>1, <1>2, <1>3, <1>4

(* A sequence is empty, or another with an element appended. *)
LEMMA AppendInduction ==
    ASSUME NEW X, NEW T, <<>> \in T,
           \A s \in Seq(X) : \A x \in X : s \in T => Append(s, x) \in T
    PROVE  \A s \in Seq(X) : s \in T
<1> DEFINE L == {n \in Nat : \A s \in Seq(X) : Len(s) = n => s \in T}
<1>1. 0 \in L
  BY EmptySeq
<1>2. ASSUME NEW n \in Nat, n \in L PROVE n + 1 \in L
  <2> SUFFICES ASSUME NEW s \in Seq(X), Len(s) = n + 1 PROVE s \in T
    OBVIOUS
  <2> DEFINE r == SubSeq(s, 1, n)
  <2>1. r \in Seq(X) /\ Len(r) = n /\ s[n + 1] \in X
    OBVIOUS
  <2>2. s = Append(r, s[n + 1])
    OBVIOUS
  <2>3. r \in T
    BY <1>2, <2>1
  <2> QED BY <2>1, <2>2, <2>3
<1> HIDE DEF L
<1>3. \A n \in Nat : n \in L
  BY <1>1, <1>2, Digits!Induction
<1> QED BY <1>3 DEF L

(* concat keeps the order of what is put together. *)
LEMMA ConcatConcat ==
    ASSUME NEW X, NEW s \in Seq(Seq(X)), NEW t \in Seq(Seq(X))
    PROVE  concat(s \o t) = concat(s) \o concat(t)
<1> DEFINE T == {u \in Seq(Seq(X)) : concat(s \o u) = concat(s) \o concat(u)}
<1>1. <<>> \in T
  <2>1. s \o <<>> = s /\ concat(s) \o <<>> = concat(s) /\ <<>> \in Seq(Seq(X))
    BY ConcatType
  <2> QED BY <2>1, ConcatEmpty
<1>2. ASSUME NEW u \in Seq(Seq(X)), NEW x \in Seq(X), u \in T PROVE Append(u, x) \in T
  <2>1. s \o Append(u, x) = Append(s \o u, x) /\ s \o u \in Seq(Seq(X))
    BY SMTT(30)
  <2>2. concat(s \o Append(u, x)) = concat(s \o u) \o x
    BY <2>1, ConcatAppend
  <2>3. concat(Append(u, x)) = concat(u) \o x
    BY ConcatAppend
  <2>4. concat(s) \in Seq(X) /\ concat(u) \in Seq(X)
    BY ConcatType
  <2>5. (concat(s) \o concat(u)) \o x = concat(s) \o (concat(u) \o x)
    BY <2>4, ConcatAssociative, SMTT(30)
  <2>6. concat(s \o u) = concat(s) \o concat(u) /\ Append(u, x) \in Seq(Seq(X))
    BY <1>2
  <2>7. concat(s \o Append(u, x)) = concat(s) \o concat(Append(u, x))
    BY <2>2, <2>3, <2>5, <2>6, Zenon
  <2> QED BY <2>6, <2>7
<1> HIDE DEF T
<1>3. t \in T
  BY <1>1, <1>2, AppendInduction
<1> QED BY <1>3 DEF T

(* A first sequence comes first. *)
LEMMA ConcatCons ==
    ASSUME NEW X, NEW x \in Seq(X), NEW s \in Seq(Seq(X))
    PROVE  concat(<<x>> \o s) = x \o concat(s)
<1>1. <<>> \in Seq(Seq(X)) /\ Append(<<>>, x) = <<x>> /\ <<x>> \in Seq(Seq(X)) /\ <<>> \o x = x
  OBVIOUS
<1>2. concat(<<x>>) = x
  BY <1>1, ConcatAppend, ConcatEmpty
<1> QED BY <1>1, <1>2, ConcatConcat

-----------------------------------------------------------------------------
(* Texts written character by character, which can be read back. *)

(* A sequence is empty, or another with an element before it. *)
LEMMA ConsInduction ==
    ASSUME NEW X, NEW T, <<>> \in T,
           \A s \in Seq(X) : \A x \in X : s \in T => <<x>> \o s \in T
    PROVE  \A s \in Seq(X) : s \in T
<1> DEFINE L == {n \in Nat : \A s \in Seq(X) : Len(s) = n => s \in T}
<1>1. 0 \in L
  BY EmptySeq
<1>2. ASSUME NEW n \in Nat, n \in L PROVE n + 1 \in L
  <2> SUFFICES ASSUME NEW s \in Seq(X), Len(s) = n + 1 PROVE s \in T
    OBVIOUS
  <2>1. Tail(s) \in Seq(X) /\ Len(Tail(s)) = n /\ Head(s) \in X
    OBVIOUS
  <2>2. s = <<Head(s)>> \o Tail(s)
    OBVIOUS
  <2>3. Tail(s) \in T
    BY <1>2, <2>1
  <2> QED BY <2>1, <2>2, <2>3
<1> HIDE DEF L
<1>3. \A n \in Nat : n \in L
  BY <1>1, <1>2, Digits!Induction
<1> QED BY <1>3 DEF L

Chars == {r \in Int : IsChar(r)}
Readings == Seq(Chars)      \* what strings read as
Text == Seq(Nat)            \* what is written
Codes == [Chars -> Text]    \* what each character is written as

(* A text that goes on with y. *)
Before(x, y) == x \o y

(* Two texts, one after the other, are one. *)
LEMMA TextConcat == \A x, y \in Text : x \o y \in Text
  BY DEF Text

(* Three texts are put together in either way. *)
LEMMA TextAssociative == \A x, y, z \in Text : (x \o y) \o z = x \o (y \o z)
  BY DEF Text

(* The empty text changes nothing. *)
LEMMA TextEmpty == <<>> \in Text /\ \A x \in Text : <<>> \o x = x /\ x \o <<>> = x
  BY DEF Text

(* What comes after the same text is the same. *)
LEMMA TextCancel == \A x, y, z \in Text : x \o y = x \o z => y = z
  BY ConcatSimplifications DEF Text

(* A code writes a character as a text. *)
LEMMA CodeText == ASSUME NEW code \in Codes, NEW r \in Chars PROVE code[r] \in Text
  BY DEF Codes

(* Readings are put together in either way. *)
LEMMA ReadingCons ==
    ASSUME NEW r \in Chars, NEW a \in Readings, NEW b \in Readings
    PROVE  /\ <<r>> \o a \in Readings /\ a \o b \in Readings
           /\ (<<r>> \o a) \o b = <<r>> \o (a \o b)
  BY DEF Readings

(* The empty reading changes nothing. *)
LEMMA ReadingEmpty == <<>> \in Readings /\ \A x \in Readings : <<>> \o x = x
  BY DEF Readings

(* A reading that is not empty has a first character. *)
LEMMA ReadingNotEmpty ==
    ASSUME NEW b \in Readings, b # <<>>
    PROVE  \E q \in Chars, c \in Readings : b = <<q>> \o c
<1>1. Head(b) \in Chars /\ Tail(b) \in Readings /\ b = <<Head(b)>> \o Tail(b)
  BY DEF Readings
<1> QED BY <1>1

(* A set of readings that has the empty one, and any with a character before it, has all. *)
LEMMA ReadingInduction ==
    ASSUME NEW T, <<>> \in T,
           \A s \in Readings : \A x \in Chars : s \in T => <<x>> \o s \in T
    PROVE  \A s \in Readings : s \in T
  BY ConsInduction DEF Readings

(* A sequence written element by element. *)
Coded(code, a) == concat([i \in DOMAIN a |-> code[a[i]]])

(* Nothing is written as nothing. *)
LEMMA CodedEmpty == ASSUME NEW code PROVE Coded(code, <<>>) = <<>>
<1>1. [i \in DOMAIN <<>> |-> code[(<<>>)[i]]] = <<>>
  OBVIOUS
<1> QED BY <1>1, ConcatEmpty DEF Coded

(* A sequence that is translated element by element. *)
LEMMA SpelledType ==
    ASSUME NEW C, NEW X, NEW code \in [C -> X], NEW a \in Seq(C)
    PROVE  [i \in DOMAIN a |-> code[a[i]]] \in Seq(X)
<1>1. DOMAIN a = 1..Len(a) /\ Len(a) \in Nat /\ \A i \in 1..Len(a) : code[a[i]] \in X
  OBVIOUS
<1> QED BY <1>1

(* What a code writes is a text. *)
LEMMA CodedType ==
    ASSUME NEW code \in Codes, NEW a \in Readings
    PROVE  Coded(code, a) \in Text
<1>1. [i \in DOMAIN a |-> code[a[i]]] \in Seq(Seq(Nat))
  BY SpelledType DEF Codes, Readings, Text
<1>2. concat([i \in DOMAIN a |-> code[a[i]]]) \in Seq(Nat)
  BY <1>1, ConcatType
<1> QED BY <1>2 DEF Coded, Text

(* The first character is written first. *)
LEMMA CodedCons ==
    ASSUME NEW code \in Codes, NEW r \in Chars, NEW a \in Readings
    PROVE  Coded(code, <<r>> \o a) = code[r] \o Coded(code, a)
<1> DEFINE t == [i \in DOMAIN a |-> code[a[i]]]
           u == [i \in DOMAIN (<<r>> \o a) |-> code[(<<r>> \o a)[i]]]
<1>1. t \in Seq(Seq(Nat)) /\ code[r] \in Seq(Nat)
  BY SpelledType, CodeText DEF Codes, Readings, Text
<1>2. u = <<code[r]>> \o t
  BY DEF Readings
<1>3. Coded(code, a) = concat(t) /\ Coded(code, <<r>> \o a) = concat(u)
  BY DEF Coded
<1> HIDE DEF t, u
<1>4. concat(<<code[r]>> \o t) = code[r] \o concat(t)
  BY <1>1, ConcatCons
<1> QED BY <1>2, <1>3, <1>4

(* Two readings are written one after the other. *)
LEMMA CodedConcat ==
    ASSUME NEW code \in Codes, NEW a \in Readings, NEW b \in Readings
    PROVE  Coded(code, a \o b) = Coded(code, a) \o Coded(code, b)
<1> DEFINE T == {c \in Readings : Coded(code, c \o b) = Coded(code, c) \o Coded(code, b)}
<1>1. <<>> \in T
  BY CodedEmpty, CodedType, ReadingEmpty, TextEmpty
<1>2. ASSUME NEW c \in Readings, NEW r \in Chars, c \in T PROVE <<r>> \o c \in T
  <2>1. /\ (<<r>> \o c) \o b = <<r>> \o (c \o b)
        /\ c \o b \in Readings /\ <<r>> \o c \in Readings
    BY ReadingCons
  <2>2. /\ Coded(code, <<r>> \o (c \o b)) = code[r] \o Coded(code, c \o b)
        /\ Coded(code, <<r>> \o c) = code[r] \o Coded(code, c)
    BY <2>1, CodedCons
  <2>3. code[r] \in Text /\ Coded(code, c) \in Text /\ Coded(code, b) \in Text
    BY CodedType, CodeText
  <2>4. (code[r] \o Coded(code, c)) \o Coded(code, b) = code[r] \o (Coded(code, c) \o Coded(code, b))
    BY <2>3, TextAssociative
  <2>5. Coded(code, c \o b) = Coded(code, c) \o Coded(code, b)
    BY <1>2
  <2>6. Coded(code, (<<r>> \o c) \o b) = Coded(code, <<r>> \o c) \o Coded(code, b)
    BY <2>1, <2>2, <2>4, <2>5
  <2> QED BY <2>1, <2>6
<1> HIDE DEF T
<1>3. a \in T
  BY <1>1, <1>2, ReadingInduction
<1> QED BY <1>3 DEF T

(* A text that goes on with x, or is only x, after the word of a character, or *)
(* after those of a reading.                                                  *)
Word(code, r, x) == code[r] \o x
Spelled(code, a, x) == Coded(code, a) \o x

(* A code of which no word begins another, nor begins as what ends a text     *)
(* does, can be read back.                                                    *)
Decodable(code, End) ==
    /\ \A r, q \in Chars : \A x, y \in Text : Word(code, r, x) = Word(code, q, y) => r = q /\ x = y
    /\ \A r \in Chars : \A x, y \in Text : End \o x # Word(code, r, y)

(* What is read back: a first, and x after it. *)
Unique(code, End, a) ==
    \A b \in Readings : \A x, y \in Text :
        Spelled(code, a, End \o x) = Spelled(code, b, End \o y) => a = b /\ x = y

(* What is written begins with the word of the first character. *)
LEMMA SpelledCons ==
    ASSUME NEW code \in Codes, NEW q \in Chars, NEW c \in Readings, NEW z \in Text
    PROVE  /\ Spelled(code, <<q>> \o c, z) = Word(code, q, Spelled(code, c, z))
           /\ Spelled(code, c, z) \in Text
<1>1. Coded(code, <<q>> \o c) = code[q] \o Coded(code, c)
  BY CodedCons
<1>2. Coded(code, c) \in Text /\ code[q] \in Text
  BY CodedType, CodeText
<1>3. (code[q] \o Coded(code, c)) \o z = code[q] \o (Coded(code, c) \o z)
  BY <1>2, TextAssociative
<1>4. Coded(code, c) \o z \in Text
  BY <1>2, TextConcat
<1> QED BY <1>1, <1>3, <1>4 DEF Spelled, Word

(* After an empty reading there is only what follows. *)
LEMMA SpelledEmpty ==
    ASSUME NEW code, NEW z \in Text
    PROVE  Spelled(code, <<>>, z) = z
  BY CodedEmpty, TextEmpty DEF Spelled

(* The empty reading is told from all others by what ends a text. *)
LEMMA UniqueEmpty ==
    ASSUME NEW code \in Codes, NEW End \in Text, Decodable(code, End)
    PROVE  Unique(code, End, <<>>)
<1> SUFFICES ASSUME NEW b \in Readings, NEW x \in Text, NEW y \in Text,
                    Spelled(code, <<>>, End \o x) = Spelled(code, b, End \o y)
             PROVE  <<>> = b /\ x = y
  BY DEF Unique
<1>1. End \o x \in Text /\ End \o y \in Text
  BY TextConcat
<1>2. Spelled(code, <<>>, End \o x) = End \o x /\ Spelled(code, <<>>, End \o y) = End \o y
  BY <1>1, SpelledEmpty
<1>3. CASE b = <<>>
  <2>1. End \o x = End \o y
    BY <1>2, <1>3, Zenon
  <2>2. x = y
    BY <2>1, TextCancel
  <2> QED BY <1>3, <2>2
<1>4. CASE b # <<>>
  <2>1. PICK q \in Chars, c \in Readings : b = <<q>> \o c
    BY <1>4, ReadingNotEmpty
  <2>2. /\ Spelled(code, b, End \o y) = Word(code, q, Spelled(code, c, End \o y))
        /\ Spelled(code, c, End \o y) \in Text
    BY <1>1, <2>1, SpelledCons
  <2>3. End \o x = Word(code, q, Spelled(code, c, End \o y))
    BY <1>2, <2>2, Zenon
  <2> QED BY <2>2, <2>3 DEF Decodable
<1> QED BY <1>3, <1>4

(* A reading is told from all others if what is left without its first character is. *)
LEMMA UniqueCons ==
    ASSUME NEW code \in Codes, NEW End \in Text, Decodable(code, End),
           NEW a \in Readings, NEW r \in Chars, Unique(code, End, a)
    PROVE  Unique(code, End, <<r>> \o a)
<1> SUFFICES ASSUME NEW b \in Readings, NEW x \in Text, NEW y \in Text,
                    Spelled(code, <<r>> \o a, End \o x) = Spelled(code, b, End \o y)
             PROVE  <<r>> \o a = b /\ x = y
  BY DEF Unique
<1>1. End \o x \in Text /\ End \o y \in Text
  BY TextConcat
<1>2. /\ Spelled(code, <<r>> \o a, End \o x) = Word(code, r, Spelled(code, a, End \o x))
      /\ Spelled(code, a, End \o x) \in Text
  BY <1>1, SpelledCons
<1>3. CASE b = <<>>
  <2>1. Spelled(code, b, End \o y) = End \o y
    BY <1>1, <1>3, SpelledEmpty
  <2>2. End \o y = Word(code, r, Spelled(code, a, End \o x))
    BY <1>2, <2>1, Zenon
  <2> QED BY <1>2, <2>2 DEF Decodable
<1>4. CASE b # <<>>
  <2>1. PICK q \in Chars, c \in Readings : b = <<q>> \o c
    BY <1>4, ReadingNotEmpty
  <2>2. /\ Spelled(code, b, End \o y) = Word(code, q, Spelled(code, c, End \o y))
        /\ Spelled(code, c, End \o y) \in Text
    BY <1>1, <2>1, SpelledCons
  <2>3. Word(code, r, Spelled(code, a, End \o x)) = Word(code, q, Spelled(code, c, End \o y))
    BY <1>2, <2>2, Zenon
  <2>4. r = q /\ Spelled(code, a, End \o x) = Spelled(code, c, End \o y)
    BY <1>2, <2>2, <2>3 DEF Decodable
  <2>5. a = c /\ x = y
    BY <2>4 DEF Unique
  <2> QED BY <2>1, <2>4, <2>5
<1> QED BY <1>3, <1>4

(* So every reading is. *)
LEMMA Decode ==
    ASSUME NEW code \in Codes, NEW End \in Text, Decodable(code, End)
    PROVE  \A a \in Readings : Unique(code, End, a)
<1> DEFINE T == {a \in Readings : Unique(code, End, a)}
<1>1. <<>> \in T
  BY UniqueEmpty, ReadingEmpty
<1>2. ASSUME NEW a \in Readings, NEW r \in Chars, a \in T PROVE <<r>> \o a \in T
  BY <1>2, ReadingCons, UniqueCons
<1> HIDE DEF T
<1>3. \A a \in Readings : a \in T
  BY <1>1, <1>2, ReadingInduction
<1> QED BY <1>3 DEF T

-----------------------------------------------------------------------------
(* Strings: no two are written alike that do not read alike. *)

UnitCode == [r \in Chars |-> encode(r)]
EscapeCode == [r \in Chars |-> escape(r)]

(* Some characters are beyond the basic plane. *)
LEMMA MaxRuneFact == MaxRune \in Nat /\ MaxRune > 65535
  BY DEF MaxRune

(* What may be written. *)
Printable == 32..MaxRune

(* Characters are numbers, printable from 32 on. *)
LEMMA CharsNat == \A r \in Chars : r \in Nat /\ (r >= 32 => r \in Printable)
  BY MaxRuneFact DEF Printable, Chars, IsChar

(* A byte that is not UTF-8 reads as a character. *)
LEMMA Replaced == 65533 \in Chars
  BY MaxRuneFact DEF Chars, IsChar

(* Every string reads as a sequence of characters. *)
LEMMA RunesReading == ASSUME NEW s, IsString(s) PROVE runes(s) \in Readings
<1>1. s \in Seq(Int) /\ Len(s) \in Nat /\ DOMAIN s = 1..Len(s)
  BY DEF IsString
<1>2. ASSUME NEW i \in 1..Len(s) PROVE (IF s[i] < 0 THEN 65533 ELSE s[i]) \in Chars
  <2>1. s[i] \in Int /\ (s[i] < 0 \/ IsChar(s[i]))
    BY <1>1, <1>2 DEF IsString
  <2> QED BY <2>1, Replaced DEF Chars
<1>3. [i \in 1..Len(s) |-> IF s[i] < 0 THEN 65533 ELSE s[i]] \in Seq(Chars)
  BY <1>1, <1>2
<1> QED BY <1>1, <1>3 DEF runes, Readings

(* A short form is two characters, and no short form is another's. *)
LEMMA ShortForms ==
    /\ \A r \in DOMAIN shortEscapes : shortEscapes[r] \in {98, 116, 110, 102, 114, 34, 92}
    /\ \A r, q \in DOMAIN shortEscapes : shortEscapes[r] = shortEscapes[q] => r = q
    /\ DOMAIN shortEscapes = {8, 9, 10, 12, 13, 34, 92}
  BY DEF shortEscapes

(* A hexadecimal digit is one character, and no other is written as that one. *)
LEMMA HexDigit ==
    /\ \A d \in 0..15 : hex(d) \in 48..57 \/ hex(d) \in 97..102
    /\ \A d, e \in 0..15 : hex(d) = hex(e) => d = e
  BY DEF hex

(* The three forms a character is written in. *)
Plain(r) == r \notin DOMAIN shortEscapes /\ r >= 32 /\ escape(r) = <<r>>
Short(r) == r \in DOMAIN shortEscapes /\ escape(r) = <<92, shortEscapes[r]>>
Control(r) ==
    /\ r \notin DOMAIN shortEscapes /\ r < 32
    /\ escape(r) = <<92, 117, 48, 48, hex(r \div 16), hex(r % 16)>>

(* Every character is written as itself, in the short form or as its number. *)
LEMMA Forms == \A r \in Chars : Plain(r) \/ Short(r) \/ Control(r)
  BY CharsNat DEF escape, Plain, Short, Control

(* A control character is told by its two digits. *)
LEMMA ControlDigits ==
    ASSUME NEW r \in Chars, Control(r)
    PROVE  r \div 16 \in 0..15 /\ r % 16 \in 0..15 /\ r = 16 * (r \div 16) + (r % 16)
<1>1. r \in 0..31
  BY CharsNat DEF Control
<1> QED BY <1>1

(* No control character is written. *)
LEMMA EscapePrintable ==
    ASSUME NEW r \in Chars
    PROVE  escape(r) \in Seq(Printable)
<1>1. CASE Plain(r)
  BY <1>1, CharsNat DEF Plain
<1>2. CASE Short(r)
  BY <1>2, ShortForms, MaxRuneFact DEF Short, Printable
<1>3. CASE Control(r)
  <2>1. hex(r \div 16) \in Printable /\ hex(r % 16) \in Printable
    BY <1>3, ControlDigits, HexDigit, MaxRuneFact DEF Printable
  <2>2. {92, 117, 48} \subseteq Printable
    BY MaxRuneFact DEF Printable
  <2> QED BY <1>3, <2>1, <2>2 DEF Control
<1> QED BY <1>1, <1>2, <1>3, Forms

(* A character is written as a text. *)
LEMMA EscapeText == ASSUME NEW r \in Chars PROVE escape(r) \in Text
<1>1. escape(r) \in Seq(Printable)
  BY EscapePrintable
<1>2. \A i \in Printable : i \in Nat
  BY MaxRuneFact DEF Printable
<1> QED BY <1>1, <1>2 DEF Text

(* Escaping is a code. *)
LEMMA EscapeCodeType == EscapeCode \in Codes
  BY EscapeText DEF EscapeCode, Codes

(* A text begins as its first part does. *)
LEMMA TextPrefix ==
    ASSUME NEW e \in Text, NEW x \in Text, NEW i \in 1..Len(e)
    PROVE  (e \o x)[i] = e[i]
  BY DEF Text

(* What begins with a character that is written as itself. *)
LEMMA PlainFirst ==
    ASSUME NEW r \in Chars, Plain(r), NEW x \in Text
    PROVE  Word(EscapeCode, r, x)[1] = r /\ r # 92 /\ r # 34
<1>1. <<r>> \in Text /\ 1 \in 1..Len(<<r>>) /\ <<r>>[1] = r
  BY CharsNat DEF Text
<1>2. (<<r>> \o x)[1] = r
  BY <1>1, TextPrefix
<1>3. EscapeCode[r] = <<r>> /\ r # 92 /\ r # 34
  BY ShortForms DEF EscapeCode, Plain
<1> QED BY <1>2, <1>3 DEF Word

(* What begins with a short form. *)
LEMMA ShortFirst ==
    ASSUME NEW r \in Chars, Short(r), NEW x \in Text
    PROVE  /\ Word(EscapeCode, r, x)[1] = 92
           /\ Word(EscapeCode, r, x)[2] = shortEscapes[r] /\ shortEscapes[r] # 117
<1> DEFINE e == <<92, shortEscapes[r]>>
<1>1. /\ e \in Text /\ 1 \in 1..Len(e) /\ 2 \in 1..Len(e)
      /\ e[1] = 92 /\ e[2] = shortEscapes[r] /\ shortEscapes[r] # 117
  <2>1. shortEscapes[r] \in Nat /\ shortEscapes[r] # 117
    BY ShortForms DEF Short
  <2> QED BY <2>1 DEF Text
<1>2. EscapeCode[r] = e
  BY DEF Short, EscapeCode
<1> HIDE DEF e
<1>3. (e \o x)[1] = 92 /\ (e \o x)[2] = shortEscapes[r]
  BY <1>1, TextPrefix
<1> QED BY <1>1, <1>2, <1>3 DEF Word

(* What begins with the number of a control character. *)
LEMMA ControlFirst ==
    ASSUME NEW r \in Chars, Control(r), NEW x \in Text
    PROVE  /\ Word(EscapeCode, r, x)[1] = 92 /\ Word(EscapeCode, r, x)[2] = 117
           /\ Word(EscapeCode, r, x)[5] = hex(r \div 16)
           /\ Word(EscapeCode, r, x)[6] = hex(r % 16)
<1> DEFINE e == <<92, 117, 48, 48, hex(r \div 16), hex(r % 16)>>
<1>1. hex(r \div 16) \in Nat /\ hex(r % 16) \in Nat
  BY ControlDigits, HexDigit
<1>2. e \in Text /\ Len(e) = 6
  BY <1>1 DEF Text
<1>4. e[1] = 92 /\ e[2] = 117 /\ e[5] = hex(r \div 16) /\ e[6] = hex(r % 16)
  OBVIOUS
<1>5. EscapeCode[r] = e
  BY DEF Control, EscapeCode
<1> HIDE DEF e
<1>6. (e \o x)[1] = e[1] /\ (e \o x)[2] = e[2] /\ (e \o x)[5] = e[5] /\ (e \o x)[6] = e[6]
  <2>1. 1 \in 1..Len(e) /\ 2 \in 1..Len(e) /\ 5 \in 1..Len(e) /\ 6 \in 1..Len(e)
    BY <1>2
  <2> QED BY <1>2, <2>1, TextPrefix
<1>7. Word(EscapeCode, r, x) = e \o x
  BY <1>5 DEF Word
<1> QED BY <1>4, <1>6, <1>7, ZenonT(60)

(* No character is written as the beginning of another. *)
LEMMA EscapeDecodable == Decodable(EscapeCode, <<34>>)
<1>1. ASSUME NEW r \in Chars, NEW q \in Chars, NEW x \in Text, NEW y \in Text,
             Word(EscapeCode, r, x) = Word(EscapeCode, q, y)
      PROVE  r = q
  <2> DEFINE w == Word(EscapeCode, r, x)
             z == Word(EscapeCode, q, y)
  <2>2. (Plain(r) => w[1] = r /\ r # 92) /\ (Plain(q) => z[1] = q /\ q # 92)
    BY PlainFirst
  <2>3. /\ Short(r) => w[1] = 92 /\ w[2] = shortEscapes[r] /\ w[2] # 117
        /\ Short(q) => z[1] = 92 /\ z[2] = shortEscapes[q] /\ z[2] # 117
    BY ShortFirst
  <2>4. /\ Control(r) => w[1] = 92 /\ w[2] = 117 /\ w[5] = hex(r \div 16) /\ w[6] = hex(r % 16)
        /\ Control(q) => z[1] = 92 /\ z[2] = 117 /\ z[5] = hex(q \div 16) /\ z[6] = hex(q % 16)
    BY ControlFirst
  <2>1. w = z
    BY <1>1
  <2> HIDE DEF w, z
  <2>5. CASE Plain(r)
    BY <2>1, <2>2, <2>3, <2>4, <2>5, Forms
  <2>6. CASE Short(r)
    <3>1. Short(q) /\ shortEscapes[r] = shortEscapes[q]
      BY <2>1, <2>2, <2>3, <2>4, <2>6, Forms
    <3> QED BY <2>6, <3>1, ShortForms DEF Short
  <2>7. CASE Control(r)
    <3>1. Control(q) /\ hex(r \div 16) = hex(q \div 16) /\ hex(r % 16) = hex(q % 16)
      BY <2>1, <2>2, <2>3, <2>4, <2>7, Forms
    <3>2. r \div 16 = q \div 16 /\ r % 16 = q % 16
      BY <2>7, <3>1, ControlDigits, HexDigit
    <3> QED BY <2>7, <3>1, <3>2, ControlDigits
  <2> QED BY <2>5, <2>6, <2>7, Forms
<1>2. ASSUME NEW r \in Chars, NEW q \in Chars, NEW x \in Text, NEW y \in Text,
             Word(EscapeCode, r, x) = Word(EscapeCode, q, y)
      PROVE  x = y
  <2>1. r = q
    BY <1>1, <1>2
  <2>2. EscapeCode[r] \in Text /\ EscapeCode[r] \o x = EscapeCode[r] \o y
    BY <1>2, <2>1, EscapeCodeType, CodeText DEF Word
  <2> QED BY <2>2, TextCancel
<1>3. ASSUME NEW r \in Chars, NEW x \in Text, NEW y \in Text
      PROVE  <<34>> \o x # Word(EscapeCode, r, y)
  <2>1. (<<34>> \o x)[1] = 34
    BY DEF Text
  <2>2. Word(EscapeCode, r, y)[1] # 34
    BY PlainFirst, ShortFirst, ControlFirst, Forms
  <2> QED BY <2>1, <2>2
<1> QED BY <1>1, <1>2, <1>3 DEF Decodable

(* A string as its characters are written. *)
LEMMA EscapedCoded ==
    ASSUME NEW s, IsString(s)
    PROVE  writeEscaped(s) = <<34>> \o Coded(EscapeCode, runes(s)) \o <<34>>
<1>1. DOMAIN runes(s) = DOMAIN s
  BY DEF runes
<1>2. \A i \in DOMAIN s : runes(s)[i] \in Chars
  BY <1>1, RunesReading DEF Readings
<1>3. [i \in DOMAIN s |-> escape(runes(s)[i])] = [i \in DOMAIN runes(s) |-> EscapeCode[runes(s)[i]]]
  BY <1>1, <1>2 DEF EscapeCode
<1> QED BY <1>3 DEF writeEscaped, Coded

(* The code units of a string are those of its characters (canonical.go:157). *)
LEMMA UnitsCoded == ASSUME NEW s, IsString(s) PROVE units(s) = Coded(UnitCode, runes(s))
<1>1. DOMAIN runes(s) = DOMAIN s
  BY DEF runes
<1>2. \A i \in DOMAIN s : runes(s)[i] \in Chars
  BY <1>1, RunesReading DEF Readings
<1>3. [i \in DOMAIN s |-> encode(runes(s)[i])] = [i \in DOMAIN runes(s) |-> UnitCode[runes(s)[i]]]
  BY <1>1, <1>2 DEF UnitCode
<1> QED BY <1>3 DEF units, Coded

(* No string is written with a control character. *)
LEMMA WrittenPrintable == ASSUME NEW s, IsString(s) PROVE writeEscaped(s) \in Seq(Printable)
<1> DEFINE t == [i \in DOMAIN runes(s) |-> EscapeCode[runes(s)[i]]]
<1>1. EscapeCode \in [Chars -> Seq(Printable)] /\ runes(s) \in Seq(Chars)
  BY EscapePrintable, RunesReading DEF EscapeCode, Readings
<1>2. t \in Seq(Seq(Printable))
  BY <1>1, SpelledType
<1>3. Coded(EscapeCode, runes(s)) = concat(t)
  BY DEF Coded
<1> HIDE DEF t
<1>4. Coded(EscapeCode, runes(s)) \in Seq(Printable)
  BY <1>2, <1>3, ConcatType
<1>5. <<34>> \o Coded(EscapeCode, runes(s)) \o <<34>> \in Seq(Printable)
  <2>1. 34 \in Printable
    BY MaxRuneFact DEF Printable
  <2> QED BY <1>4, <2>1
<1> QED BY <1>5, EscapedCoded

(* A quoted text, and what follows it. *)
LEMMA Quoted ==
    ASSUME NEW q \in Text, NEW e \in Text, NEW z \in Text
    PROVE  (q \o e \o q) \o z = q \o (e \o (q \o z))
<1>1. q \o e \in Text /\ q \o z \in Text
  BY TextConcat
<1>2. (q \o e \o q) \o z = (q \o e) \o (q \o z)
  BY <1>1, TextAssociative, ZenonT(60)
<1>3. (q \o e) \o (q \o z) = q \o (e \o (q \o z))
  BY <1>1, TextAssociative, ZenonT(60)
<1> QED BY <1>2, <1>3, Zenon

(* Two strings that are written alike, whatever comes after them, read alike. *)
LEMMA WrittenApart ==
    ASSUME NEW s, IsString(s), NEW t, IsString(t), NEW x \in Text, NEW y \in Text,
           Before(writeEscaped(s), x) = Before(writeEscaped(t), y)
    PROVE  runes(s) = runes(t) /\ x = y
<1>1. ASSUME NEW u, IsString(u), NEW z \in Text
      PROVE  writeEscaped(u) \o z = <<34>> \o Spelled(EscapeCode, runes(u), <<34>> \o z)
  <2>1. PICK e : e = Coded(EscapeCode, runes(u))
    OBVIOUS
  <2>2. e \in Text /\ <<34>> \in Text
    BY <1>1, <2>1, CodedType, EscapeCodeType, RunesReading DEF Text
  <2>3. (<<34>> \o e \o <<34>>) \o z = <<34>> \o (e \o (<<34>> \o z))
    BY <2>2, Quoted
  <2>4. writeEscaped(u) = <<34>> \o e \o <<34>>
    BY <1>1, <2>1, EscapedCoded
  <2> QED BY <2>1, <2>3, <2>4 DEF Spelled
<1>2. runes(s) \in Readings /\ runes(t) \in Readings
  BY RunesReading
<1>3. <<34>> \o Spelled(EscapeCode, runes(s), <<34>> \o x) = <<34>> \o Spelled(EscapeCode, runes(t), <<34>> \o y)
  <2>1. writeEscaped(s) \o x = <<34>> \o Spelled(EscapeCode, runes(s), <<34>> \o x)
    BY <1>1
  <2>2. writeEscaped(t) \o y = <<34>> \o Spelled(EscapeCode, runes(t), <<34>> \o y)
    BY <1>1
  <2> QED BY <2>1, <2>2, Zenon DEF Before
<1>4. <<34>> \in Text /\ <<34>> \o x \in Text /\ <<34>> \o y \in Text
  BY DEF Text
<1>5. /\ Spelled(EscapeCode, runes(s), <<34>> \o x) \in Text
      /\ Spelled(EscapeCode, runes(t), <<34>> \o y) \in Text
  BY <1>2, <1>4, CodedType, EscapeCodeType, TextConcat DEF Spelled
<1>6. Spelled(EscapeCode, runes(s), <<34>> \o x) = Spelled(EscapeCode, runes(t), <<34>> \o y)
  BY <1>3, <1>4, <1>5, TextCancel
<1>7. Unique(EscapeCode, <<34>>, runes(s))
  BY <1>2, <1>4, Decode, EscapeCodeType, EscapeDecodable
<1> QED BY <1>2, <1>6, <1>7 DEF Unique

-----------------------------------------------------------------------------
(* The order of UTF-16. *)

(* No sequence comes before itself. *)
LEMMA Irreflexive == ASSUME NEW a \in Seq(Nat) PROVE ~lessUTF16(a, a)
  BY DEF lessUTF16

(* Two different sequences differ at a first place, or one is cut short.      *)
LEMMA Total ==
    ASSUME NEW a \in Seq(Nat), NEW b \in Seq(Nat), a # b
    PROVE  lessUTF16(a, b) \/ lessUTF16(b, a)
<1> DEFINE D == {i \in DOMAIN a \cap DOMAIN b : a[i] # b[i]}
<1>0. Len(a) \in Nat /\ Len(b) \in Nat /\ DOMAIN a = 1..Len(a) /\ DOMAIN b = 1..Len(b)
  OBVIOUS
<1>1. CASE D = {}
  <2>1. \A i \in DOMAIN a \cap DOMAIN b : a[i] = b[i]
    BY <1>1
  <2>2. Len(a) # Len(b)
    BY <2>1
  <2>3. ASSUME NEW x \in Seq(Nat), NEW y \in Seq(Nat), Len(x) < Len(y),
               \A j \in DOMAIN x \cap DOMAIN y : x[j] = y[j]
        PROVE  lessUTF16(x, y)
    <3>1. \A j \in DOMAIN x : j \in DOMAIN y
      BY <2>3
    <3> QED
      BY <2>3, <3>1 DEF lessUTF16
  <2>4. Len(a) < Len(b) \/ Len(b) < Len(a)
    <3>1. \A m, n \in Nat : m # n => m < n \/ n < m
      OBVIOUS
    <3> QED
      BY <1>0, <2>2, <3>1
  <2> QED
    BY <2>1, <2>3, <2>4
<1>2. CASE D # {}
  <2>1. D \subseteq Nat
    BY <1>0
  <2>2. PICK i \in D : \A j \in D : i <= j
    BY <1>2, <2>1, Digits!Least
  <2>3. \A j \in DOMAIN a : j < i => j \in DOMAIN b /\ a[j] = b[j]
    BY <1>0, <2>1, <2>2
  <2>4. \A j \in DOMAIN b : j < i => j \in DOMAIN a /\ a[j] = b[j]
    BY <1>0, <2>1, <2>2
  <2>5. a[i] < b[i] \/ b[i] < a[i]
    <3>1. a[i] \in Nat /\ b[i] \in Nat /\ a[i] # b[i]
      BY <2>2
    <3> QED
      BY <3>1
  <2>6. CASE a[i] < b[i]
    BY <2>2, <2>3, <2>6 DEF lessUTF16
  <2>7. CASE b[i] < a[i]
    BY <2>2, <2>4, <2>7 DEF lessUTF16
  <2> QED
    BY <2>5, <2>6, <2>7
<1> QED
  BY <1>1, <1>2

(* The first place where a differs from c is the earlier of the two.          *)
LEMMA Transitive ==
    ASSUME NEW a \in Seq(Nat), NEW b \in Seq(Nat), NEW c \in Seq(Nat),
           lessUTF16(a, b), lessUTF16(b, c)
    PROVE  lessUTF16(a, c)
<1> DEFINE differs(x, y, i) == i \in DOMAIN x \cap DOMAIN y /\ x[i] < y[i]
                                 /\ \A j \in DOMAIN x : j < i => x[j] = y[j]
           cut(x, y) == Len(x) < Len(y) /\ \A j \in DOMAIN x : x[j] = y[j]
<1>0. /\ Len(a) \in Nat /\ DOMAIN a = 1..Len(a) /\ \A i \in 1..Len(a) : a[i] \in Nat
      /\ Len(b) \in Nat /\ DOMAIN b = 1..Len(b) /\ \A i \in 1..Len(b) : b[i] \in Nat
      /\ Len(c) \in Nat /\ DOMAIN c = 1..Len(c) /\ \A i \in 1..Len(c) : c[i] \in Nat
  BY SMTT(30)
<1>1. \A x, y : lessUTF16(x, y) <=> (\E i : differs(x, y, i)) \/ cut(x, y)
  BY DEF lessUTF16
<1>2. ASSUME NEW i, NEW k, differs(a, b, i), differs(b, c, k) PROVE lessUTF16(a, c)
  <2>0. i \in Nat /\ k \in Nat
    BY <1>0, <1>2, SMTT(30)
  <2>1. CASE i <= k
    <3>1. i \in DOMAIN a \cap DOMAIN c
      BY <1>0, <1>2, <2>0, <2>1
    <3>2. a[i] < c[i]
      <4>1. a[i] \in Nat /\ b[i] \in Nat /\ c[i] \in Nat /\ a[i] < b[i]
        BY <1>0, <1>2, <3>1
      <4>2. i = k \/ i < k
        BY <2>0, <2>1
      <4>3. b[i] <= c[i]
        <5>1. CASE i = k
          BY <1>2, <4>1, <5>1
        <5>2. CASE i < k
          BY <1>0, <1>2, <3>1, <4>1, <5>2
        <5> QED
          BY <4>2, <5>1, <5>2
      <4> QED
        BY <4>1, <4>3
    <3>3. ASSUME NEW j \in DOMAIN a, j < i PROVE a[j] = c[j]
      <4>0. j \in Nat
        BY <1>0
      <4>1. j < k
        BY <2>0, <2>1, <3>3, <4>0
      <4>2. j \in DOMAIN b
        BY <1>0, <1>2, <2>0, <3>3
      <4>3. a[j] = b[j]
        BY <1>2, <3>3
      <4> QED
        BY <1>2, <4>1, <4>2, <4>3
    <3> QED
      BY <1>1, <3>1, <3>2, <3>3
  <2>2. CASE k < i
    <3>1. k \in DOMAIN a \cap DOMAIN c
      BY <1>0, <1>2, <2>0, <2>2
    <3>2. a[k] < c[k]
      BY <1>2, <2>2, <3>1
    <3>3. ASSUME NEW j \in DOMAIN a, j < k PROVE a[j] = c[j]
      <4>0. j \in Nat
        BY <1>0
      <4>1. j < i
        BY <2>0, <2>2, <3>3, <4>0
      <4>2. j \in DOMAIN b
        BY <1>0, <1>2, <2>0, <3>3
      <4>3. a[j] = b[j]
        BY <1>2, <4>1
      <4> QED
        BY <1>2, <3>3, <4>2, <4>3
    <3> QED
      BY <1>1, <3>1, <3>2, <3>3
  <2> QED
    BY <2>0, <2>1, <2>2
<1>3. ASSUME NEW i, differs(a, b, i), cut(b, c) PROVE lessUTF16(a, c)
  <2>1. differs(a, c, i)
    BY <1>0, <1>3
  <2> QED
    BY <1>1, <2>1
<1>4. ASSUME NEW k, cut(a, b), differs(b, c, k) PROVE lessUTF16(a, c)
  <2>1. CASE k <= Len(a)
    <3>1. differs(a, c, k)
      BY <1>0, <1>4, <2>1
    <3> QED
      BY <1>1, <3>1
  <2>2. CASE ~(k <= Len(a))
    <3>1. cut(a, c)
      BY <1>0, <1>4, <2>2, SMTT(30)
    <3> QED
      BY <1>1, <3>1
  <2> QED
    BY <2>1, <2>2
<1>5. ASSUME cut(a, b), cut(b, c) PROVE lessUTF16(a, c)
  <2>1. cut(a, c)
    BY <1>0, <1>5
  <2> QED
    BY <1>1, <2>1
<1> QED
  BY <1>1, <1>2, <1>3, <1>4, <1>5


(* The first units decide. *)
LEMMA LessFirst ==
    ASSUME NEW a \in Seq(Nat), NEW b \in Seq(Nat), a # <<>>, b # <<>>, a[1] < b[1]
    PROVE  lessUTF16(a, b)
<1>1. 1 \in DOMAIN a \cap DOMAIN b /\ \A j \in DOMAIN a : ~(j < 1)
  OBVIOUS
<1> QED BY <1>1 DEF lessUTF16

(* After the same first unit, the second ones decide. *)
LEMMA LessSecond ==
    ASSUME NEW a \in Seq(Nat), NEW b \in Seq(Nat), Len(a) >= 2, Len(b) >= 2, a[1] = b[1], a[2] < b[2]
    PROVE  lessUTF16(a, b)
<1>1. 2 \in DOMAIN a \cap DOMAIN b /\ \A j \in DOMAIN a : j < 2 => j = 1
  OBVIOUS
<1> QED BY <1>1 DEF lessUTF16

(* What goes on comes after what ends. *)
LEMMA LessLonger ==
    ASSUME NEW p \in Seq(Nat), NEW x \in Seq(Nat), x # <<>>
    PROVE  lessUTF16(p, p \o x)
<1>1. Len(p) < Len(p \o x) /\ \A j \in DOMAIN p : p[j] = (p \o x)[j]
  OBVIOUS
<1> QED BY <1>1 DEF lessUTF16

(* After the same units, the rest decides. *)
LEMMA LessAfter ==
    ASSUME NEW p \in Seq(Nat), NEW x \in Seq(Nat), NEW y \in Seq(Nat), lessUTF16(x, y)
    PROVE  lessUTF16(p \o x, p \o y)
<1> DEFINE a == p \o x
           b == p \o y
           n == Len(p)
<1>0. /\ n \in Nat /\ Len(x) \in Nat /\ Len(y) \in Nat
      /\ DOMAIN x = 1..Len(x) /\ DOMAIN y = 1..Len(y)
      /\ Len(a) = n + Len(x) /\ DOMAIN a = 1..Len(a) /\ Len(b) = n + Len(y) /\ DOMAIN b = 1..Len(b)
  OBVIOUS
<1>1. \A j \in 1..n : a[j] = b[j]
  OBVIOUS
<1>2. \A j \in 1..Len(x) : a[n + j] = x[j]
  OBVIOUS
<1>3. \A j \in 1..Len(y) : b[n + j] = y[j]
  OBVIOUS
<1>4. ASSUME NEW j \in DOMAIN a, j > n PROVE j - n \in DOMAIN x /\ a[j] = x[j - n]
  <2> HIDE DEF a, b, n
  <2>1. j - n \in 1..Len(x) /\ n + (j - n) = j
    BY <1>0, <1>4
  <2> QED BY <1>0, <1>2, <2>1
<1>5. ASSUME NEW j \in DOMAIN b, j > n PROVE j - n \in DOMAIN y /\ b[j] = y[j - n]
  <2> HIDE DEF a, b, n
  <2>1. j - n \in 1..Len(y) /\ n + (j - n) = j
    BY <1>0, <1>5
  <2> QED BY <1>0, <1>3, <2>1
<1> HIDE DEF a, b, n
<1>6. CASE \E i \in DOMAIN x \cap DOMAIN y :
             x[i] < y[i] /\ \A j \in DOMAIN x : j < i => x[j] = y[j]
  <2>1. PICK i \in DOMAIN x \cap DOMAIN y :
          x[i] < y[i] /\ \A j \in DOMAIN x : j < i => x[j] = y[j]
    BY <1>6
  <2>2. n + i \in DOMAIN a \cap DOMAIN b
    BY <1>0, SMTT(30)
  <2>3. a[n + i] < b[n + i]
    BY <1>0, <1>2, <1>3, <2>1
  <2>4. ASSUME NEW j \in DOMAIN a, j < n + i PROVE a[j] = b[j]
    <3>1. CASE j <= n
      BY <1>0, <1>1, <3>1
    <3>2. CASE j > n
      <4>1. j - n \in DOMAIN x /\ a[j] = x[j - n]
        BY <1>4, <3>2
      <4>2. j - n < i
        BY <1>0, <2>4
      <4>3. x[j - n] = y[j - n]
        BY <2>1, <4>1, <4>2
      <4>4. j \in DOMAIN b
        BY <1>0, <2>2, <2>4
      <4>5. b[j] = y[j - n]
        BY <1>5, <3>2, <4>4
      <4> QED BY <4>1, <4>3, <4>5
    <3> QED BY <1>0, <3>1, <3>2
  <2>5. lessUTF16(a, b)
    BY <2>2, <2>3, <2>4 DEF lessUTF16
  <2> QED BY <2>5 DEF a, b
<1>7. CASE Len(x) < Len(y) /\ \A j \in DOMAIN x : x[j] = y[j]
  <2>1. Len(a) < Len(b)
    BY <1>0, <1>7
  <2>2. ASSUME NEW j \in DOMAIN a PROVE a[j] = b[j]
    <3>1. CASE j <= n
      BY <1>0, <1>1, <3>1
    <3>2. CASE j > n
      <4>1. j - n \in DOMAIN x /\ a[j] = x[j - n]
        BY <1>4, <3>2
      <4>2. j \in DOMAIN b
        BY <1>0, <2>1
      <4>3. b[j] = y[j - n]
        BY <1>5, <3>2, <4>2
      <4> QED BY <1>7, <4>1, <4>3
    <3> QED BY <1>0, <3>1, <3>2
  <2>3. lessUTF16(a, b)
    BY <2>1, <2>2 DEF lessUTF16
  <2> QED BY <2>3 DEF a, b
<1> QED BY <1>6, <1>7 DEF lessUTF16

-----------------------------------------------------------------------------
(* Of a character of the basic plane, itself; of another, a pair of           *)
(* surrogates that count in 1024s from the first.                             *)
High(r) == 55296 + (r - 65536) \div 1024
Low(r) == 56320 + ((r - 65536) % 1024)

(* Ten bits, and the bits above them. *)
LEMMA Division ==
    ASSUME NEW n \in Nat
    PROVE  \E h, l \in Nat : h = n \div 1024 /\ l = n % 1024 /\ l < 1024 /\ n = 1024 * h + l
<1>1. PICK h \in Nat : h = n \div 1024
  OBVIOUS
<1>2. PICK l \in Nat : l = n % 1024
  OBVIOUS
<1>3. l < 1024 /\ n = 1024 * h + l
  BY <1>1, <1>2
<1> QED BY <1>1, <1>2, <1>3

(* The numbers of characters. *)
LEMMA CharRange ==
    \A r \in Chars : r \in Nat /\ r <= 1114111 /\ (r < 55296 \/ r > 57343)
<1>1. \A r \in Chars : r \in Nat /\ r <= MaxRune /\ (r < 55296 \/ r > 57343)
  BY MaxRuneFact DEF Chars, IsChar
<1>2. MaxRune = 1114111
  BY SMT DEF MaxRune
<1> QED BY <1>1, <1>2, SMT

(* A word that is known. *)
LEMMA WordOf ==
    ASSUME NEW code, NEW r, NEW x, NEW w, code[r] = w
    PROVE  Word(code, r, x) = w \o x
  BY DEF Word

(* The pair of a character beyond the basic plane, and the character it is of. *)
LEMMA Surrogates ==
    ASSUME NEW r \in Chars, r >= 65536
    PROVE  /\ High(r) \in Nat /\ 55296 <= High(r) /\ High(r) < 56320
           /\ Low(r) \in Nat /\ 56320 <= Low(r) /\ Low(r) < 57344
           /\ r = 65536 + 1024 * (High(r) - 55296) + (Low(r) - 56320)
<1>1. r \in Nat /\ r <= 1114111
  BY CharRange
<1>2. PICK n \in Nat : n = r - 65536
  BY <1>1
<1>3. PICK h, l \in Nat : h = n \div 1024 /\ l = n % 1024 /\ l < 1024 /\ n = 1024 * h + l
  BY Division
<1>4. High(r) = 55296 + h /\ Low(r) = 56320 + l
  BY <1>2, <1>3 DEF High, Low
<1>5. n <= 1048575
  BY <1>1, <1>2, SMT
<1>6. h < 1024
  BY <1>3, <1>5, SMT
<1> QED BY <1>1, <1>2, <1>3, <1>4, <1>6, SMT

(* A character is one unit, or two. *)
LEMMA Encoded ==
    ASSUME NEW r \in Chars
    PROVE  /\ r < 65536 => UnitCode[r] = <<r>>
           /\ r >= 65536 => UnitCode[r] = <<High(r), Low(r)>>
  BY CharsNat DEF UnitCode, encode, High, Low

(* UTF-16 is a code. *)
LEMMA UnitCodeType == UnitCode \in Codes
<1>1. ASSUME NEW r \in Chars PROVE encode(r) \in Seq(Nat)
  <2>1. CASE r < 65536
    BY <2>1, CharsNat DEF encode
  <2>2. CASE r >= 65536
    <3>1. High(r) \in Nat /\ Low(r) \in Nat
      BY <2>2, Surrogates
    <3>2. encode(r) = <<High(r), Low(r)>>
      BY <2>2, CharsNat DEF encode, High, Low
    <3> QED BY <3>1, <3>2
  <2> QED BY <2>1, <2>2, CharsNat
<1> QED BY <1>1 DEF UnitCode, Codes, Text

(* The first unit of a character, before anything. *)
LEMMA FirstUnit ==
    ASSUME NEW r \in Chars, NEW x \in Text
    PROVE  /\ Word(UnitCode, r, x) \in Text /\ Word(UnitCode, r, x) # <<>>
           /\ Word(UnitCode, r, x)[1] = IF r < 65536 THEN r ELSE High(r)
<1>1. r \in Nat
  BY CharsNat
<1>2. CASE r < 65536
  <2>1. Word(UnitCode, r, x) = <<r>> \o x
    <3>1. UnitCode[r] = <<r>>
      BY <1>2, Encoded
    <3> QED BY <3>1, WordOf
  <2> QED BY <1>1, <1>2, <2>1 DEF Text
<1>3. CASE r >= 65536
  <2>1. Word(UnitCode, r, x) = <<High(r), Low(r)>> \o x
    <3>1. UnitCode[r] = <<High(r), Low(r)>>
      BY <1>3, Encoded
    <3> QED BY <3>1, WordOf
  <2>2. High(r) \in Nat /\ Low(r) \in Nat
    BY <1>3, Surrogates
  <2> QED BY <1>1, <1>3, <2>1, <2>2 DEF Text
<1> QED BY <1>1, <1>2, <1>3

(* The second unit of a character beyond the basic plane. *)
LEMMA SecondUnit ==
    ASSUME NEW r \in Chars, NEW x \in Text
    PROVE  r >= 65536 => Len(Word(UnitCode, r, x)) >= 2 /\ Word(UnitCode, r, x)[2] = Low(r)
<1>1. ASSUME r >= 65536 PROVE UnitCode[r] = <<High(r), Low(r)>> /\ High(r) \in Nat /\ Low(r) \in Nat
  BY <1>1, Encoded, Surrogates
<1>2. ASSUME NEW h \in Nat, NEW l \in Nat, UnitCode[r] = <<h, l>>
      PROVE  Len(Word(UnitCode, r, x)) >= 2 /\ Word(UnitCode, r, x)[2] = l
  <2>1. Word(UnitCode, r, x) = <<h, l>> \o x
    BY <1>2, WordOf
  <2> QED BY <2>1 DEF Text
<1> QED BY <1>1, <1>2

(* Characters are in the order of Place as their units are. *)
LEMMA UnitsOfCharacters ==
    ASSUME NEW r \in Chars, NEW q \in Chars, NEW x \in Text, NEW y \in Text, Place(r) < Place(q)
    PROVE  lessUTF16(Word(UnitCode, r, x), Word(UnitCode, q, y))
<1> DEFINE w == Word(UnitCode, r, x)
           z == Word(UnitCode, q, y)
<1>1. /\ w \in Seq(Nat) /\ w # <<>> /\ w[1] = (IF r < 65536 THEN r ELSE High(r))
      /\ z \in Seq(Nat) /\ z # <<>> /\ z[1] = (IF q < 65536 THEN q ELSE High(q))
  BY FirstUnit DEF Text
<1>2. /\ r \in Nat /\ r <= 1114111 /\ (r < 55296 \/ r > 57343)
      /\ q \in Nat /\ q <= 1114111 /\ (q < 55296 \/ q > 57343)
  BY CharRange
<1>3. CASE r < 65536 \/ q < 65536
  <2>1. r >= 65536 => 55296 <= High(r) /\ High(r) < 56320 /\ High(r) \in Nat
    BY Surrogates
  <2>2. q >= 65536 => 55296 <= High(q) /\ High(q) < 56320 /\ High(q) \in Nat
    BY Surrogates
  <2>3. w[1] < z[1]
    BY <1>1, <1>2, <1>3, <2>1, <2>2, SMT DEF Place
  <2> QED BY <1>1, <2>3, LessFirst
<1>4. CASE r >= 65536 /\ q >= 65536
  <2>1. w[1] = High(r) /\ z[1] = High(q)
    BY <1>1, <1>2, <1>4
  <2>2. Len(w) >= 2 /\ w[2] = Low(r) /\ Len(z) >= 2 /\ z[2] = Low(q)
    BY <1>4, SecondUnit
  <2>3. r < q
    BY <1>2, <1>4, SMT DEF Place
  <2>4. /\ High(r) \in Nat /\ Low(r) \in Nat /\ 56320 <= Low(r) /\ Low(r) < 57344
        /\ High(q) \in Nat /\ Low(q) \in Nat /\ 56320 <= Low(q) /\ Low(q) < 57344
        /\ r = 65536 + 1024 * (High(r) - 55296) + (Low(r) - 56320)
        /\ q = 65536 + 1024 * (High(q) - 55296) + (Low(q) - 56320)
    BY <1>4, Surrogates
  <2>5. High(r) < High(q) \/ (High(r) = High(q) /\ Low(r) < Low(q))
    BY <2>3, <2>4
  <2> HIDE DEF w, z
  <2>6. lessUTF16(w, z)
    BY <1>1, <2>1, <2>2, <2>5, LessFirst, LessSecond
  <2> QED BY <2>6 DEF w, z
<1> QED BY <1>2, <1>3, <1>4

-----------------------------------------------------------------------------
(* A reading, at one of its characters. *)
LEMMA SplitAt ==
    ASSUME NEW b \in Readings, NEW i \in 1..Len(b)
    PROVE  /\ SubSeq(b, 1, i - 1) \in Readings
           /\ \E d \in Readings : b = SubSeq(b, 1, i - 1) \o (<<b[i]>> \o d)
<1>1. SubSeq(b, 1, i - 1) \in Readings /\ SubSeq(b, i + 1, Len(b)) \in Readings /\ b[i] \in Chars
  BY DEF Readings
<1>2. b = SubSeq(b, 1, i - 1) \o (<<b[i]>> \o SubSeq(b, i + 1, Len(b)))
  <2>1. b \in Seq(Chars) /\ Len(b) \in Nat
    BY DEF Readings
  <2>2. SubSeq(b, i, Len(b)) = <<b[i]>> \o SubSeq(b, i + 1, Len(b))
    BY <2>1, SubSeqRecursiveFirst
  <2>3. SubSeq(b, 1, i - 1) \o SubSeq(b, (i - 1) + 1, Len(b)) = SubSeq(b, 1, Len(b))
    <3>1. i - 1 \in (1 - 1)..Len(b) /\ Len(b) \in (i - 1)..Len(b) /\ 1 \in 1..(Len(b) + 1)
      BY <2>1
    <3> QED BY <2>1, <3>1, ConcatAdjacentSubSeq
  <2>4. SubSeq(b, 1, Len(b)) = b /\ (i - 1) + 1 = i
    BY <2>1, SubSeqFull
  <2> QED BY <2>2, <2>3, <2>4
<1> QED BY <1>1, <1>2

(* One is the beginning of the other, or both go on from what they begin with *)
(* with characters in that order.                                             *)
Branch(a, b, p, q, d) ==
    /\ b = p \o (<<q>> \o d)
    /\ a = p \/ \E r \in Chars, c \in Readings : a = p \o (<<r>> \o c) /\ Place(r) < Place(q)

(* At the first place at which they differ. *)
LEMMA PrecedesSplit ==
    ASSUME NEW a \in Readings, NEW b \in Readings, Precedes(a, b)
    PROVE  \E q \in Chars, d \in Readings, p \in Readings : Branch(a, b, p, q, d)
<1>1. PICK i \in DOMAIN b :
        /\ \A j \in 1..(i - 1) : j \in DOMAIN a /\ a[j] = b[j]
        /\ i \in DOMAIN a => Place(a[i]) < Place(b[i])
  BY DEF Precedes
<1>2. i \in 1..Len(b) /\ DOMAIN a = 1..Len(a) /\ Len(a) \in Nat /\ b[i] \in Chars
  BY DEF Readings
<1>3. PICK p \in Readings : p = SubSeq(b, 1, i - 1)
  BY <1>2, SplitAt
<1>4. PICK d \in Readings : b = p \o (<<b[i]>> \o d)
  BY <1>2, <1>3, SplitAt
<1>5. CASE i \in DOMAIN a
  <2>1. SubSeq(a, 1, i - 1) = p
    BY <1>1, <1>2, <1>3, <1>5 DEF Readings
  <2>2. PICK c \in Readings : a = p \o (<<a[i]>> \o c)
    <3>1. i \in 1..Len(a)
      BY <1>2, <1>5
    <3>2. \E c \in Readings : a = SubSeq(a, 1, i - 1) \o (<<a[i]>> \o c)
      BY <3>1, SplitAt
    <3> QED BY <2>1, <3>2, Zenon
  <2>3. a[i] \in Chars /\ Place(a[i]) < Place(b[i])
    BY <1>1, <1>5 DEF Readings
  <2> QED BY <1>2, <1>4, <2>2, <2>3 DEF Branch
<1>6. CASE i \notin DOMAIN a
  <2>1. a = p
    <3>1. i <= Len(a) + 1
      <4> SUFFICES ASSUME i > Len(a) + 1 PROVE FALSE
        BY <1>2
      <4>1. Len(a) + 1 \in 1..(i - 1) /\ Len(a) + 1 \notin DOMAIN a
        BY <1>2
      <4> QED BY <1>1, <4>1
    <3>2. Len(a) = i - 1
      BY <1>2, <1>6, <3>1
    <3> QED BY <1>1, <1>2, <1>3, <3>2 DEF Readings
  <2> QED BY <1>2, <1>4, <2>1 DEF Branch
<1> QED BY <1>5, <1>6

(* A reading that precedes another has the lesser units. *)
LEMMA PrecedesLess ==
    ASSUME NEW a \in Readings, NEW b \in Readings, Precedes(a, b)
    PROVE  lessUTF16(Coded(UnitCode, a), Coded(UnitCode, b))
<1>0. PICK q \in Chars, d \in Readings, p \in Readings : Branch(a, b, p, q, d)
  BY PrecedesSplit
<1>1. /\ b = p \o (<<q>> \o d)
      /\ a = p \/ \E r \in Chars, c \in Readings : a = p \o (<<r>> \o c) /\ Place(r) < Place(q)
  BY <1>0 DEF Branch
<1>2. ASSUME NEW r \in Chars, NEW c \in Readings
      PROVE  /\ Coded(UnitCode, p \o (<<r>> \o c)) = Coded(UnitCode, p) \o Word(UnitCode, r, Coded(UnitCode, c))
             /\ Word(UnitCode, r, Coded(UnitCode, c)) \in Text
             /\ Word(UnitCode, r, Coded(UnitCode, c)) # <<>>
  <2>1. <<r>> \o c \in Readings
    BY ReadingCons, ReadingEmpty
  <2>2. /\ Coded(UnitCode, p \o (<<r>> \o c)) = Coded(UnitCode, p) \o Coded(UnitCode, <<r>> \o c)
        /\ Coded(UnitCode, <<r>> \o c) = UnitCode[r] \o Coded(UnitCode, c)
    BY <2>1, CodedConcat, CodedCons, UnitCodeType
  <2>3. Coded(UnitCode, c) \in Text
    BY CodedType, UnitCodeType
  <2>4. UnitCode[r] \o Coded(UnitCode, c) = Word(UnitCode, r, Coded(UnitCode, c))
    BY Zenon DEF Word
  <2>5. Coded(UnitCode, p \o (<<r>> \o c)) = Coded(UnitCode, p) \o Word(UnitCode, r, Coded(UnitCode, c))
    BY <2>2, <2>4, Zenon
  <2> QED BY <2>3, <2>5, FirstUnit
<1>3. Coded(UnitCode, p) \in Text /\ Coded(UnitCode, d) \in Text
  BY CodedType, UnitCodeType
<1>4. CASE a = p
  BY <1>1, <1>2, <1>3, <1>4, LessLonger DEF Text
<1>5. ASSUME NEW r \in Chars, NEW c \in Readings, a = p \o (<<r>> \o c), Place(r) < Place(q)
      PROVE  lessUTF16(Coded(UnitCode, a), Coded(UnitCode, b))
  <2>1. PICK x : x = Word(UnitCode, r, Coded(UnitCode, c))
    OBVIOUS
  <2>2. PICK y : y = Word(UnitCode, q, Coded(UnitCode, d))
    OBVIOUS
  <2>3. Coded(UnitCode, c) \in Text
    BY CodedType, UnitCodeType
  <2>4. x \in Seq(Nat) /\ y \in Seq(Nat) /\ lessUTF16(x, y) /\ Coded(UnitCode, p) \in Seq(Nat)
    BY <1>2, <1>3, <1>5, <2>1, <2>2, <2>3, UnitsOfCharacters DEF Text
  <2>5. lessUTF16(Coded(UnitCode, p) \o x, Coded(UnitCode, p) \o y)
    BY <2>4, LessAfter
  <2>6. Coded(UnitCode, a) = Coded(UnitCode, p) \o x /\ Coded(UnitCode, b) = Coded(UnitCode, p) \o y
    BY <1>1, <1>2, <1>5, <2>1, <2>2
  <2> QED BY <2>5, <2>6
<1> QED BY <1>1, <1>4, <1>5

(* No two characters have the same place. *)
LEMMA PlaceInjective ==
    ASSUME NEW r \in Chars, NEW q \in Chars, r # q
    PROVE  Place(r) < Place(q) \/ Place(q) < Place(r)
<1>1. /\ r \in Nat /\ r <= 1114111 /\ (r < 55296 \/ r > 57343)
      /\ q \in Nat /\ q <= 1114111 /\ (q < 55296 \/ q > 57343)
  BY CharRange
<1> QED BY <1>1, SMT DEF Place

(* Two different readings come one before the other. *)
LEMMA PrecedesTotal ==
    ASSUME NEW a \in Readings, NEW b \in Readings, a # b
    PROVE  Precedes(a, b) \/ Precedes(b, a)
<1>1. ASSUME NEW x \in Readings, NEW y \in Readings, lessUTF16(x, y)
      PROVE  Precedes(x, y) \/ Precedes(y, x)
  <2>0. /\ Len(x) \in Nat /\ DOMAIN x = 1..Len(x) /\ \A i \in 1..Len(x) : x[i] \in Chars
        /\ Len(y) \in Nat /\ DOMAIN y = 1..Len(y) /\ \A i \in 1..Len(y) : y[i] \in Chars
    BY DEF Readings
  <2>1. CASE \E i \in DOMAIN x \cap DOMAIN y :
               x[i] < y[i] /\ \A j \in DOMAIN x : j < i => x[j] = y[j]
    <3>1. PICK i \in DOMAIN x \cap DOMAIN y :
            x[i] < y[i] /\ \A j \in DOMAIN x : j < i => x[j] = y[j]
      BY <2>1
    <3>2. i \in Nat /\ \A j \in 1..(i - 1) : j \in DOMAIN x /\ j \in DOMAIN y /\ x[j] = y[j]
      BY <2>0, <3>1
    <3>3. Place(x[i]) < Place(y[i]) \/ Place(y[i]) < Place(x[i])
      <4>1. x[i] \in Chars /\ y[i] \in Chars /\ x[i] # y[i]
        BY <2>0, <3>1, CharsNat
      <4> QED BY <4>1, PlaceInjective
    <3> QED BY <3>1, <3>2, <3>3 DEF Precedes
  <2>2. CASE Len(x) < Len(y) /\ \A j \in DOMAIN x : x[j] = y[j]
    <3>1. Len(x) + 1 \in DOMAIN y /\ Len(x) + 1 \notin DOMAIN x
      BY <2>0, <2>2
    <3>2. \A j \in 1..((Len(x) + 1) - 1) : j \in DOMAIN x /\ x[j] = y[j]
      BY <2>0, <2>2
    <3> QED BY <3>1, <3>2 DEF Precedes
  <2> QED BY <1>1, <2>1, <2>2 DEF lessUTF16
<1>2. a \in Seq(Nat) /\ b \in Seq(Nat)
  BY CharsNat DEF Readings
<1> QED BY <1>1, <1>2, Total

(* The order of units is the order that Precedes says in words. *)
LEMMA ReadingOrder ==
    ASSUME NEW a \in Readings, NEW b \in Readings
    PROVE  lessUTF16(Coded(UnitCode, a), Coded(UnitCode, b)) = Precedes(a, b)
<1>1. Coded(UnitCode, a) \in Seq(Nat) /\ Coded(UnitCode, b) \in Seq(Nat)
  BY CodedType, UnitCodeType DEF Text
<1>2. ASSUME lessUTF16(Coded(UnitCode, a), Coded(UnitCode, b)) PROVE Precedes(a, b)
  <2>1. a # b
    BY <1>1, <1>2, Irreflexive
  <2>2. ~Precedes(b, a)
    <3> SUFFICES ASSUME Precedes(b, a) PROVE FALSE
      OBVIOUS
    <3>1. lessUTF16(Coded(UnitCode, b), Coded(UnitCode, a))
      BY PrecedesLess
    <3>2. lessUTF16(Coded(UnitCode, a), Coded(UnitCode, a))
      BY <1>1, <1>2, <3>1, Transitive
    <3> QED BY <1>1, <3>2, Irreflexive
  <2> QED BY <2>1, <2>2, PrecedesTotal
<1>3. lessUTF16(Coded(UnitCode, a), Coded(UnitCode, b)) \in BOOLEAN /\ Precedes(a, b) \in BOOLEAN
  BY DEF lessUTF16, Precedes
<1> QED BY <1>2, <1>3, PrecedesLess

(* The order of the code is that of RFC 8785, in words (canonical.go:176-183): *)
(* by code units, one string is less than another if it ends first, or has at *)
(* the first place where they differ the character of the lower place.        *)
THEOREM UnitOrder ==
    ASSUME NEW s, IsString(s), NEW t, IsString(t)
    PROVE  lessUTF16(units(s), units(t)) = Precedes(runes(s), runes(t))
  BY UnitsCoded, RunesReading, ReadingOrder

(* What sort.Slice asks of its less: lessUTF16 is a strict total order of     *)
(* sequences of code units (canonical.go:160, 176).                           *)
THEOREM StrictOrder ==
    \A a, b, c \in Seq(Nat) :
        /\ ~lessUTF16(a, a)
        /\ a # b => lessUTF16(a, b) \/ lessUTF16(b, a)
        /\ lessUTF16(a, b) /\ lessUTF16(b, c) => lessUTF16(a, c)
  BY Irreflexive, Total, Transitive

(* The order a map is ranged over does not show (canonical.go:156-160): of    *)
(* names that read as different ones, one at most may come first, however     *)
(* many are left.                                                             *)
THEOREM OneFirst ==
    ASSUME NEW members, NamesDiffer(members), \A k \in DOMAIN members : IsString(k)
    PROVE  \A k, m \in first(members) : k = m
<1> SUFFICES ASSUME NEW k \in first(members), NEW m \in first(members), k # m PROVE FALSE
  OBVIOUS
<1>1. /\ k \in DOMAIN members /\ m \in DOMAIN members
      /\ ~lessUTF16(units(m), units(k)) /\ ~lessUTF16(units(k), units(m))
  BY DEF first
<1>2. IsString(k) /\ IsString(m) /\ runes(k) # runes(m)
  BY <1>1 DEF NamesDiffer
<1>3. Precedes(runes(k), runes(m)) \/ Precedes(runes(m), runes(k))
  BY <1>2, RunesReading, PrecedesTotal
<1> QED BY <1>1, <1>2, <1>3, UnitOrder

-----------------------------------------------------------------------------
(* Integers: no two are written alike. *)

Numeral(f) ==
    \A d \in Nat : f[d] = IF d < 10 THEN <<48 + d>> ELSE Append(f[d \div 10], 48 + (d % 10))

(* A number is ten times its tenth, and its last digit. *)
LEMMA Tenth == ASSUME NEW d \in Nat, d >= 10
               PROVE  d \div 10 \in Nat /\ d \div 10 < d /\ d % 10 \in 0..9 /\ d = 10 * (d \div 10) + (d % 10)
  OBVIOUS

(* The digits of a number depend on those of its tenth. *)
LEMMA DigitsContracting == Digits!Contracting
<1> DEFINE Def(f, d) == IF d < 10 THEN <<48 + d>> ELSE Append(f[d \div 10], 48 + (d % 10))
<1>1. ASSUME NEW x \in Nat, NEW g, NEW h, \A y \in Nat : y < x => g[y] = h[y]
      PROVE  Def(g, x) = Def(h, x)
  <2>1. CASE x < 10
    BY <2>1
  <2>2. CASE x >= 10
    <3>1. g[x \div 10] = h[x \div 10]
      BY <1>1, <2>2, Tenth
    <3> QED BY <2>2, <3>1
  <2> QED BY <2>1, <2>2
<1> HIDE DEF Def
<1>2. \A x \in Nat : [n \in Nat |-> n][x] = x
  OBVIOUS
<1>3. \A x \in Nat : \A g, h :
        (\A y \in Nat : [n \in Nat |-> n][y] < [n \in Nat |-> n][x] => g[y] = h[y]) => Def(g, x) = Def(h, x)
  BY <1>1, <1>2
<1>4. [n \in Nat |-> n] \in [Nat -> Nat]
  OBVIOUS
<1> QED BY <1>3, <1>4 DEF Digits!Contracting, Def

(* formatInt writes the digits that its recursion defines, after the sign. *)
LEMMA FormatDef ==
    \E f : Numeral(f) /\ \A n \in Int : formatInt(n) = IF n < 0 THEN <<45>> \o f[-n] ELSE f[n]
<1> DEFINE Is(f) == f = [d \in Nat |-> IF d < 10 THEN <<48 + d>> ELSE Append(f[d \div 10], 48 + (d % 10))]
           f == CHOOSE g : Is(g)
<1>1. \E g : Is(g)
  BY Digits!Recursive, DigitsContracting
<1>2. Is(f)
  BY <1>1, Zenon
<1>3. ASSUME NEW n \in Int PROVE formatInt(n) = IF n < 0 THEN <<45>> \o f[-n] ELSE f[n]
  BY DEF formatInt
<1>4. ASSUME NEW g, Is(g) PROVE Numeral(g)
  BY <1>4 DEF Numeral
<1> HIDE DEF f
<1>5. Numeral(f)
  <2> HIDE DEF Is
  <2> QED BY <1>2, <1>4
<1> QED BY <1>3, <1>5

Figures == Seq(48..57)

(* One digit. *)
LEMMA NumeralSmall == ASSUME NEW f, Numeral(f), NEW d \in Nat, d < 10 PROVE f[d] = <<48 + d>>
  BY DEF Numeral

(* Another digit after those of the tenth. *)
LEMMA NumeralLarge ==
    ASSUME NEW f, Numeral(f), NEW d \in Nat, d >= 10
    PROVE  \E t \in Nat, c \in 48..57 : t < d /\ d = 10 * t + (c - 48) /\ f[d] = Append(f[t], c)
<1>1. PICK t \in Nat, c \in 48..57 : t = d \div 10 /\ c = 48 + (d % 10) /\ t < d /\ d = 10 * t + (c - 48)
  <2>1. d \div 10 \in Nat /\ 48 + (d % 10) \in 48..57
    BY Tenth
  <2> QED BY <2>1, Tenth
<1>2. ~(d < 10)
  OBVIOUS
<1>3. f[d] = Append(f[d \div 10], 48 + (d % 10))
  BY <1>2, Zenon DEF Numeral
<1> QED BY <1>1, <1>3

(* A natural is written as digits, one at least. *)
LEMMA NumeralType == ASSUME NEW f, Numeral(f) PROVE \A d \in Nat : f[d] \in Figures /\ f[d] # <<>>
<1> DEFINE T == {d \in Nat : f[d] \in Figures /\ f[d] # <<>>}
<1>1. ASSUME NEW d \in Nat, \A e \in Nat : e < d => e \in T PROVE d \in T
  <2>1. CASE d < 10
    <3>1. PICK c \in 48..57 : c = 48 + d
      BY <2>1
    <3>2. f[d] = <<c>>
      BY <2>1, <3>1, NumeralSmall
    <3>3. <<c>> \in Figures /\ <<c>> # <<>>
      BY DEF Figures
    <3> QED BY <3>2, <3>3
  <2>2. CASE d >= 10
    <3>1. PICK t \in Nat, c \in 48..57 : t < d /\ f[d] = Append(f[t], c)
      BY <2>2, NumeralLarge, ZenonT(60)
    <3>2. PICK u \in Figures : u = f[t]
      BY <1>1, <3>1
    <3>3. Append(u, c) \in Figures /\ Append(u, c) # <<>>
      BY DEF Figures
    <3> QED BY <3>1, <3>2, <3>3
  <2> QED BY <2>1, <2>2
<1> HIDE DEF T
<1>2. \A d \in Nat : d \in T
  BY <1>1, Digits!StrongInduction
<1> QED BY <1>2 DEF T

(* Two naturals of the same digits are the same. *)
LEMMA NumeralInjective ==
    ASSUME NEW f, Numeral(f)
    PROVE  \A d \in Nat : \A e \in Nat : f[d] = f[e] => d = e
<1> DEFINE T == {d \in Nat : \A e \in Nat : f[d] = f[e] => d = e}
<1>1. ASSUME NEW d \in Nat, \A c \in Nat : c < d => c \in T PROVE d \in T
  <2> SUFFICES ASSUME NEW e \in Nat, f[d] = f[e] PROVE d = e
    OBVIOUS
  <2>1. ASSUME NEW a \in Nat, a < 10 PROVE f[a] = <<48 + a>> /\ Len(f[a]) = 1
    <3>1. f[a] = <<48 + a>>
      BY <2>1, NumeralSmall
    <3> QED BY <3>1
  <2>2. ASSUME NEW a \in Nat, a >= 10 PROVE Len(f[a]) > 1
    <3>1. PICK t \in Nat, c \in 48..57 : f[a] = Append(f[t], c)
      BY <2>2, NumeralLarge, ZenonT(60)
    <3>2. PICK u \in Figures : u = f[t] /\ u # <<>>
      BY NumeralType
    <3>3. Len(Append(u, c)) > 1
      BY <3>2 DEF Figures
    <3> QED BY <3>1, <3>2, <3>3
  <2>3. CASE d < 10 /\ e < 10
    <3>1. <<48 + d>> = <<48 + e>>
      BY <2>1, <2>3
    <3> QED BY <3>1
  <2>4. CASE d >= 10 /\ e >= 10
    <3>1. PICK t \in Nat, c \in 48..57 : t < d /\ d = 10 * t + (c - 48) /\ f[d] = Append(f[t], c)
      BY <2>4, NumeralLarge
    <3>2. PICK s \in Nat, b \in 48..57 : s < e /\ e = 10 * s + (b - 48) /\ f[e] = Append(f[s], b)
      BY <2>4, NumeralLarge
    <3>3. PICK u \in Figures, v \in Figures : u = f[t] /\ v = f[s]
      BY NumeralType
    <3>4. Append(u, c) = Append(v, b)
      BY <3>1, <3>2, <3>3
    <3>5. u = v /\ c = b
      BY <3>4, AppendInjective DEF Figures
    <3>6. t = s
      BY <1>1, <3>1, <3>3, <3>5
    <3> QED BY <3>1, <3>2, <3>5, <3>6
  <2>5. CASE (d < 10 /\ e >= 10) \/ (d >= 10 /\ e < 10)
    <3>1. CASE d < 10 /\ e >= 10
      <4>1. Len(f[d]) = 1 /\ Len(f[e]) > 1
        BY <2>1, <2>2, <3>1
      <4> QED BY <4>1
    <3>2. CASE d >= 10 /\ e < 10
      <4>1. Len(f[d]) > 1 /\ Len(f[e]) = 1
        BY <2>1, <2>2, <3>2
      <4> QED BY <4>1
    <3> QED BY <2>5, <3>1, <3>2
  <2> QED BY <2>3, <2>4, <2>5
<1> HIDE DEF T
<1>2. \A d \in Nat : d \in T
  BY <1>1, Digits!StrongInduction
<1> QED BY <1>2 DEF T

(* A text that does not go on with a figure. *)
NoFigure(x) == x \in Text /\ (x = <<>> \/ x[1] \notin 48..57)

(* Where no figure follows, the number of figures is known. *)
LEMMA SameLength ==
    ASSUME NEW u \in Figures, NEW v \in Figures, NEW x, NoFigure(x), NEW y, NoFigure(y), u \o x = v \o y
    PROVE  ~(Len(u) < Len(v))
<1> SUFFICES ASSUME Len(u) < Len(v) PROVE FALSE
  OBVIOUS
<1>1. u \in Seq(48..57) /\ v \in Seq(48..57) /\ x \in Seq(Nat) /\ y \in Seq(Nat)
  BY DEF Figures, NoFigure, Text
<1>2. Len(u \o x) = Len(u) + Len(x) /\ Len(v \o y) = Len(v) + Len(y)
  BY <1>1
<1>3. Len(x) > 0
  BY <1>1, <1>2
<1>4. (u \o x)[Len(u) + 1] = x[1]
  BY <1>1, <1>3
<1>5. (v \o y)[Len(u) + 1] = v[Len(u) + 1] /\ v[Len(u) + 1] \in 48..57
  BY <1>1, SMTT(30)
<1>6. x # <<>>
  BY <1>3
<1> QED BY <1>4, <1>5, <1>6 DEF NoFigure

(* So the figures are. *)
LEMMA FiguresApart ==
    ASSUME NEW u \in Figures, NEW v \in Figures, NEW x, NoFigure(x), NEW y, NoFigure(y),
           Before(u, x) = Before(v, y)
    PROVE  u = v /\ x = y
<1>0. u \o x = v \o y
  BY DEF Before
<1>1. u \in Seq(Nat) /\ v \in Seq(Nat) /\ x \in Seq(Nat) /\ y \in Seq(Nat)
  <2>1. ASSUME NEW t \in Figures PROVE t \in Seq(Nat)
    <3>1. t \in Seq(48..57)
      BY DEF Figures
    <3>2. \A i \in 48..57 : i \in Nat
      OBVIOUS
    <3> QED BY <3>1, <3>2
  <2>2. x \in Seq(Nat) /\ y \in Seq(Nat)
    BY DEF NoFigure, Text
  <2> QED BY <2>1, <2>2
<1>2. Len(u) = Len(v)
  <2>1. ~(Len(u) < Len(v)) /\ ~(Len(v) < Len(u))
    BY <1>0, SameLength
  <2> QED BY <1>1, <2>1
<1>3. u = v
  <2>1. ASSUME NEW i \in 1..Len(u) PROVE u[i] = (u \o x)[i] /\ v[i] = (v \o y)[i]
    BY <1>1, <1>2
  <2>2. \A i \in 1..Len(u) : u[i] = v[i]
    BY <1>0, <2>1
  <2> QED BY <1>2, <2>2 DEF Figures
<1>4. u \in Text /\ x \in Text /\ y \in Text
  BY <1>1 DEF Text
<1>5. x = y
  BY <1>0, <1>3, <1>4, TextCancel
<1> QED BY <1>3, <1>5

(* Figures begin with a figure. *)
LEMMA FiguresFirst ==
    ASSUME NEW u \in Figures, u # <<>>, NEW x \in Text
    PROVE  (u \o x)[1] \in 48..57
  BY DEF Figures, Text

(* An integer is written as figures, after a sign if it is negative. *)
LEMMA FormatType ==
    ASSUME NEW n \in Int
    PROVE  formatInt(n) \in Text /\ formatInt(n) \in Seq(45..57) /\ formatInt(n) # <<>>
<1>1. PICK f : Numeral(f) /\ \A m \in Int : formatInt(m) = IF m < 0 THEN <<45>> \o f[-m] ELSE f[m]
  BY FormatDef
<1>2. \A d \in Nat : f[d] \in Seq(48..57) /\ f[d] # <<>>
  BY <1>1, NumeralType DEF Figures
<1>3. CASE n < 0
  <2>1. -n \in Nat /\ formatInt(n) = <<45>> \o f[-n]
    BY <1>1, <1>3
  <2>2. PICK u \in Seq(48..57) : u = f[-n]
    BY <1>2, <2>1
  <2>3. <<45>> \o u \in Seq(45..57) /\ <<45>> \o u # <<>> /\ <<45>> \o u \in Seq(Nat)
    OBVIOUS
  <2> QED BY <2>1, <2>2, <2>3 DEF Text
<1>4. CASE n >= 0
  <2>1. n \in Nat /\ formatInt(n) = f[n]
    BY <1>1, <1>4
  <2>2. PICK u \in Seq(48..57) : u = f[n] /\ u # <<>>
    BY <1>2, <2>1
  <2>3. u \in Seq(45..57) /\ u \in Seq(Nat)
    OBVIOUS
  <2> QED BY <2>1, <2>2, <2>3 DEF Text
<1> QED BY <1>3, <1>4

(* Two integers that are written alike are the same, unless more figures follow. *)
LEMMA IntegersApart ==
    ASSUME NEW n \in Int, NEW m \in Int, NEW x, NoFigure(x), NEW y, NoFigure(y),
           Before(formatInt(n), x) = Before(formatInt(m), y)
    PROVE  n = m /\ x = y
<1>0. formatInt(n) \o x = formatInt(m) \o y
  BY DEF Before
<1>1. PICK f : Numeral(f) /\ \A k \in Int : formatInt(k) = IF k < 0 THEN <<45>> \o f[-k] ELSE f[k]
  BY FormatDef
<1>2. \A d \in Nat : f[d] \in Figures /\ f[d] # <<>>
  BY <1>1, NumeralType
<1>3. x \in Text /\ y \in Text
  BY DEF NoFigure
<1>4. ASSUME NEW k \in Int, k >= 0, NEW z \in Text
      PROVE  /\ k \in Nat /\ formatInt(k) = f[k] /\ f[k] \in Figures
             /\ (formatInt(k) \o z)[1] # 45
  <2>1. k \in Nat /\ formatInt(k) = f[k] /\ f[k] \in Figures /\ f[k] # <<>>
    BY <1>1, <1>2, <1>4
  <2>2. (f[k] \o z)[1] \in 48..57
    BY <2>1, FiguresFirst
  <2> QED BY <2>1, <2>2, SMTT(30)
<1>5. ASSUME NEW k \in Int, k < 0, NEW z \in Text
      PROVE  /\ -k \in Nat /\ f[-k] \in Figures /\ formatInt(k) \o z = <<45>> \o (f[-k] \o z)
             /\ (formatInt(k) \o z)[1] = 45
  <2>1. -k \in Nat /\ formatInt(k) = <<45>> \o f[-k]
    BY <1>1, <1>5
  <2>2. PICK u \in Figures : u = f[-k]
    BY <1>2, <2>1
  <2>3. (<<45>> \o u) \o z = <<45>> \o (u \o z) /\ ((<<45>> \o u) \o z)[1] = 45
    BY SMTT(30) DEF Figures, Text
  <2> QED BY <2>1, <2>2, <2>3
<1>6. CASE n >= 0 /\ m >= 0
  <2>1. n \in Nat /\ m \in Nat /\ f[n] \in Figures /\ f[m] \in Figures /\ Before(f[n], x) = Before(f[m], y)
    BY <1>0, <1>3, <1>4, <1>6 DEF Before
  <2>2. f[n] = f[m] /\ x = y
    BY <2>1, FiguresApart
  <2> QED BY <1>1, <2>1, <2>2, NumeralInjective
<1>7. CASE n < 0 /\ m < 0
  <2>1. /\ -n \in Nat /\ -m \in Nat /\ f[-n] \in Figures /\ f[-m] \in Figures
        /\ <<45>> \o (f[-n] \o x) = <<45>> \o (f[-m] \o y)
    BY <1>0, <1>3, <1>5, <1>7
  <2>2. Before(f[-n], x) = Before(f[-m], y)
    <3>1. \A u \in Figures : u \in Text
      BY SMTT(30) DEF Figures, Text
    <3>2. f[-n] \o x \in Text /\ f[-m] \o y \in Text /\ <<45>> \in Text
      BY <1>3, <2>1, <3>1, TextConcat DEF Text
    <3> QED BY <2>1, <3>2, TextCancel DEF Before
  <2>3. f[-n] = f[-m] /\ x = y
    BY <2>1, <2>2, FiguresApart
  <2>4. -n = -m
    BY <1>1, <2>1, <2>3, NumeralInjective
  <2> QED BY <2>3, <2>4
<1>8. CASE (n >= 0 /\ m < 0) \/ (n < 0 /\ m >= 0)
  <2>1. CASE n >= 0 /\ m < 0
    <3>1. (formatInt(n) \o x)[1] # 45
      BY <1>3, <1>4, <2>1, ZenonT(60)
    <3>2. (formatInt(m) \o y)[1] = 45
      BY <1>3, <1>5, <2>1
    <3> QED BY <1>0, <3>1, <3>2
  <2>2. CASE n < 0 /\ m >= 0
    <3>1. (formatInt(n) \o x)[1] = 45
      BY <1>3, <1>5, <2>2
    <3>2. (formatInt(m) \o y)[1] # 45
      BY <1>3, <1>4, <2>2, ZenonT(60)
    <3> QED BY <1>0, <3>1, <3>2
  <2> QED BY <1>8, <2>1, <2>2
<1> QED BY <1>6, <1>7, <1>8

-----------------------------------------------------------------------------
(* Names in their order. *)

(* Names that read as different ones. *)
NameSet(S) ==
    /\ IsFiniteSet(S) /\ \A k \in S : IsString(k)
    /\ \A k, m \in S : runes(k) = runes(m) => k = m

Earlier(k, m) == Precedes(runes(k), runes(m))

(* Names are in a strict total order. *)
LEMMA EarlierOrder ==
    ASSUME NEW S, NameSet(S), NEW k \in S, NEW m \in S, NEW n \in S
    PROVE  /\ ~Earlier(k, k)
           /\ k # m => Earlier(k, m) \/ Earlier(m, k)
           /\ Earlier(k, m) /\ Earlier(m, n) => Earlier(k, n)
<1> DEFINE u(x) == Coded(UnitCode, runes(x))
<1>1. ASSUME NEW x \in S PROVE runes(x) \in Readings /\ u(x) \in Seq(Nat)
  BY RunesReading, CodedType, UnitCodeType DEF NameSet, Text
<1>2. ASSUME NEW x \in S, NEW y \in S PROVE Earlier(x, y) = lessUTF16(u(x), u(y))
  BY <1>1, ReadingOrder DEF Earlier
<1>3. runes(k) = runes(m) => k = m
  BY DEF NameSet
<1>4. k # m => Earlier(k, m) \/ Earlier(m, k)
  BY <1>1, <1>3, PrecedesTotal DEF Earlier
<1> HIDE DEF u
<1>5. ~Earlier(k, k)
  BY <1>1, <1>2, Irreflexive
<1>6. Earlier(k, m) /\ Earlier(m, n) => Earlier(k, n)
  BY <1>1, <1>2, Transitive
<1> QED BY <1>4, <1>5, <1>6

(* A set of names without one of them. *)
LEMMA NameSubset ==
    ASSUME NEW S, NameSet(S), NEW k \in S
    PROVE  /\ NameSet(S \ {k}) /\ Cardinality(S) \in Nat /\ Cardinality(S \ {k}) \in Nat
           /\ Cardinality(S) = Cardinality(S \ {k}) + 1
<1>1. IsFiniteSet(S) /\ IsFiniteSet(S \ {k}) /\ Cardinality(S \ {k}) = Cardinality(S) - 1
  BY FS_RemoveElement DEF NameSet
<1>2. Cardinality(S) \in Nat /\ Cardinality(S \ {k}) \in Nat
  BY <1>1, FS_CardinalityType
<1>3. NameSet(S \ {k})
  BY <1>1 DEF NameSet
<1> QED BY <1>1, <1>2, <1>3

Smallest(k, S) == k \in S /\ \A m \in S \ {k} : Earlier(k, m)

(* Of finitely many names one comes first. *)
LEMMA SmallestExists ==
    \A S : NameSet(S) /\ S # {} => \E k : Smallest(k, S)
<1> DEFINE T == {n \in Nat : \A S : NameSet(S) /\ S # {} /\ Cardinality(S) = n => \E k : Smallest(k, S)}
<1>1. 0 \in T
  BY FS_EmptySet DEF NameSet
<1>2. ASSUME NEW n \in Nat, n \in T PROVE n + 1 \in T
  <2> SUFFICES ASSUME NEW S, NameSet(S), S # {}, Cardinality(S) = n + 1
               PROVE  \E k : Smallest(k, S)
    OBVIOUS
  <2>1. PICK a : a \in S
    OBVIOUS
  <2>2. NameSet(S \ {a}) /\ Cardinality(S \ {a}) = n
    BY <2>1, NameSubset
  <2>3. CASE S \ {a} = {}
    <3>1. Smallest(a, S)
      BY <2>1, <2>3 DEF Smallest
    <3> QED BY <3>1
  <2>4. CASE S \ {a} # {}
    <3>1. PICK m : Smallest(m, S \ {a})
      BY <1>2, <2>2, <2>4
    <3>2. m \in S /\ m # a /\ \A x \in S \ {a} : x = m \/ Earlier(m, x)
      BY <3>1 DEF Smallest
    <3>3. Earlier(a, m) \/ Earlier(m, a)
      BY <2>1, <3>2, EarlierOrder
    <3>4. CASE Earlier(m, a)
      <4>1. Smallest(m, S)
        BY <3>2, <3>4 DEF Smallest
      <4> QED BY <4>1
    <3>5. CASE Earlier(a, m)
      <4>1. ASSUME NEW x \in S \ {a} PROVE Earlier(a, x)
        BY <2>1, <3>2, <3>5, EarlierOrder
      <4>2. Smallest(a, S)
        BY <2>1, <4>1 DEF Smallest
      <4> QED BY <4>2
    <3> QED BY <3>3, <3>4, <3>5
  <2> QED BY <2>3, <2>4
<1> HIDE DEF T
<1>3. \A n \in Nat : n \in T
  BY <1>1, <1>2, Digits!Induction
<1> SUFFICES ASSUME NEW S, NameSet(S), S # {} PROVE \E k : Smallest(k, S)
  OBVIOUS
<1>4. Cardinality(S) \in Nat
  BY FS_CardinalityType DEF NameSet
<1> QED BY <1>3, <1>4 DEF T

(* A list of what a function has from 1 on, after k. *)
After(k, s, n) == [i \in 1..(n + 1) |-> IF i = 1 THEN k ELSE s[i - 1]]

(* The first name before the others in their order. *)
LEMMA AscendingCons ==
    ASSUME NEW S, NameSet(S), NEW k, Smallest(k, S), NEW s, Ascending(s, S \ {k})
    PROVE  Ascending(After(k, s, Cardinality(S \ {k})), S)
<1>1. PICK n \in Nat : n = Cardinality(S \ {k}) /\ Cardinality(S) = n + 1
  BY NameSubset DEF Smallest
<1>2. /\ s \in [1..n -> S \ {k}]
      /\ \A i, j \in 1..n : i < j => Earlier(s[i], s[j])
      /\ \A m \in S \ {k} : \E i \in 1..n : s[i] = m
  BY <1>1 DEF Ascending, Earlier
<1>3. PICK f : f = After(k, s, n)
  OBVIOUS
<1>4. /\ 1 \in 1..(n + 1) /\ f[1] = k
      /\ \A i \in 1..n : i + 1 \in 1..(n + 1) /\ f[i + 1] = s[i]
  BY <1>3 DEF After
<1>5. \A i \in 1..(n + 1) : i = 1 \/ (i - 1 \in 1..n /\ i = (i - 1) + 1)
  OBVIOUS
<1>6. f \in [1..(n + 1) -> S]
  <2>1. ASSUME NEW i \in 1..(n + 1) PROVE f[i] \in S
    <3>1. CASE i = 1
      BY <1>4, <3>1 DEF Smallest
    <3>2. CASE i # 1
      <4>1. i - 1 \in 1..n /\ f[i] = s[i - 1]
        BY <1>4, <1>5, <3>2
      <4> QED BY <1>2, <4>1
    <3> QED BY <3>1, <3>2
  <2>2. f = [i \in 1..(n + 1) |-> f[i]]
    BY <1>3 DEF After
  <2> QED BY <2>1, <2>2
<1>7. ASSUME NEW i \in 1..(n + 1), NEW j \in 1..(n + 1), i < j PROVE Earlier(f[i], f[j])
  <2>1. j - 1 \in 1..n /\ f[j] = s[j - 1] /\ s[j - 1] \in S \ {k}
    BY <1>2, <1>4, <1>5, <1>7
  <2>2. CASE i = 1
    BY <1>4, <2>1, <2>2 DEF Smallest
  <2>3. CASE i # 1
    <3>1. i - 1 \in 1..n /\ f[i] = s[i - 1] /\ i - 1 < j - 1
      BY <1>4, <1>5, <1>7, <2>3
    <3> QED BY <1>2, <2>1, <3>1
  <2> QED BY <2>2, <2>3
<1>8. \A m \in S : \E i \in 1..(n + 1) : f[i] = m
  <2> SUFFICES ASSUME NEW m \in S PROVE \E i \in 1..(n + 1) : f[i] = m
    OBVIOUS
  <2>1. CASE m = k
    BY <1>4, <2>1
  <2>2. CASE m # k
    BY <1>2, <1>4, <2>2
  <2> QED BY <2>1, <2>2
<1> QED BY <1>1, <1>3, <1>6, <1>7, <1>8 DEF Ascending, Earlier

(* Names can be put in ascending order. *)
LEMMA AscendingExists == \A S : NameSet(S) => \E s : Ascending(s, S)
<1> DEFINE T == {n \in Nat : \A S : NameSet(S) /\ Cardinality(S) = n => \E s : Ascending(s, S)}
<1>1. 0 \in T
  <2> SUFFICES ASSUME NEW S, NameSet(S), Cardinality(S) = 0 PROVE \E s : Ascending(s, S)
    OBVIOUS
  <2>1. S = {}
    BY FS_EmptySet DEF NameSet
  <2>2. Ascending([i \in 1..0 |-> i], S)
    BY <2>1 DEF Ascending
  <2> QED BY <2>2
<1>2. ASSUME NEW n \in Nat, n \in T PROVE n + 1 \in T
  <2> SUFFICES ASSUME NEW S, NameSet(S), Cardinality(S) = n + 1
               PROVE  \E s : Ascending(s, S)
    OBVIOUS
  <2>1. S # {}
    BY FS_EmptySet
  <2>2. PICK k : Smallest(k, S)
    BY <2>1, SmallestExists
  <2>3. NameSet(S \ {k}) /\ Cardinality(S \ {k}) = n
    BY <2>2, NameSubset DEF Smallest
  <2>4. PICK s : Ascending(s, S \ {k})
    BY <1>2, <2>3
  <2> QED BY <2>2, <2>4, AscendingCons
<1> HIDE DEF T
<1>3. \A n \in Nat : n \in T
  BY <1>1, <1>2, Digits!Induction
<1> SUFFICES ASSUME NEW S, NameSet(S) PROVE \E s : Ascending(s, S)
  OBVIOUS
<1>4. Cardinality(S) \in Nat
  BY FS_CardinalityType DEF NameSet
<1> QED BY <1>3, <1>4 DEF T

(* Names are in ascending order in one way only. *)
LEMMA AscendingUnique ==
    ASSUME NEW S, NameSet(S), NEW f, Ascending(f, S), NEW g, Ascending(g, S)
    PROVE  f = g
<1>1. PICK n \in Nat : n = Cardinality(S)
  BY FS_CardinalityType DEF NameSet
<1>2. /\ f \in [1..n -> S] /\ g \in [1..n -> S]
      /\ \A i, j \in 1..n : i < j => Earlier(f[i], f[j]) /\ Earlier(g[i], g[j])
      /\ \A m \in S : (\E i \in 1..n : f[i] = m) /\ (\E i \in 1..n : g[i] = m)
  BY <1>1 DEF Ascending, Earlier
<1> DEFINE T == {i \in Nat : i \in 1..n => f[i] = g[i]}
<1>3. ASSUME NEW i \in Nat, \A j \in Nat : j < i => j \in T PROVE i \in T
  <2> SUFFICES ASSUME i \in 1..n PROVE f[i] = g[i]
    OBVIOUS
  <2>1. f[i] \in S /\ g[i] \in S
    BY <1>2
  <2>2. PICK j \in 1..n : g[j] = f[i]
    BY <1>2, <2>1
  <2>3. PICK l \in 1..n : f[l] = g[i]
    BY <1>2, <2>1
  <2>4. ~(j < i)
    <3> SUFFICES ASSUME j < i PROVE FALSE
      OBVIOUS
    <3>1. f[j] = g[j] /\ Earlier(f[j], f[i])
      BY <1>2, <1>3
    <3> QED BY <2>1, <2>2, <3>1, EarlierOrder
  <2>5. ~(l < i)
    <3> SUFFICES ASSUME l < i PROVE FALSE
      OBVIOUS
    <3>1. f[l] = g[l] /\ Earlier(g[l], g[i])
      BY <1>2, <1>3
    <3> QED BY <2>1, <2>3, <3>1, EarlierOrder
  <2>6. CASE i < j /\ i < l
    <3>1. Earlier(g[i], f[i]) /\ Earlier(f[i], g[i])
      BY <1>2, <2>2, <2>3, <2>6
    <3> QED BY <2>1, <3>1, EarlierOrder
  <2>7. CASE j = i \/ l = i
    BY <2>2, <2>3, <2>7
  <2> QED BY <2>4, <2>5, <2>6, <2>7
<1> HIDE DEF T
<1>4. \A i \in Nat : i \in T
  BY <1>3, Digits!StrongInduction
<1>5. \A i \in 1..n : f[i] = g[i]
  BY <1>4 DEF T
<1> QED BY <1>2, <1>5

(* sorted puts names in ascending order. *)
LEMMA SortedAscending == ASSUME NEW S, NameSet(S) PROVE Ascending(sorted(S), S)
<1>1. PICK s : Ascending(s, S)
  BY AscendingExists
<1>2. s \in [1..Cardinality(S) -> S]
  BY <1>1 DEF Ascending
<1> QED BY <1>1, <1>2, Zenon DEF sorted

(* sorted has every name, once. *)
LEMMA SortedType ==
    ASSUME NEW S, NameSet(S)
    PROVE  /\ sorted(S) \in Seq(S) /\ Len(sorted(S)) = Cardinality(S)
           /\ \A k \in S : \E i \in DOMAIN sorted(S) : sorted(S)[i] = k
<1>1. PICK n \in Nat : n = Cardinality(S)
  BY FS_CardinalityType DEF NameSet
<1>2. sorted(S) \in [1..n -> S] /\ \A k \in S : \E i \in 1..n : sorted(S)[i] = k
  BY <1>1, SortedAscending DEF Ascending
<1> QED BY <1>1, <1>2

(* No names are sorted already. *)
LEMMA SortedEmpty == sorted({}) = <<>>
<1>1. NameSet({}) /\ Cardinality({}) = 0
  BY FS_EmptySet DEF NameSet
<1>2. sorted({}) \in [1..0 -> {}]
  BY <1>1, SortedAscending DEF Ascending
<1> QED BY <1>2

(* What comes first is written first, and then the others in their order. *)
LEMMA SortedFirst ==
    ASSUME NEW S, NameSet(S), NEW k, Smallest(k, S)
    PROVE  sorted(S) = <<k>> \o sorted(S \ {k})
<1>1. NameSet(S \ {k}) /\ k \in S
  BY NameSubset DEF Smallest
<1>2. PICK s : s = sorted(S \ {k}) /\ Ascending(s, S \ {k})
  BY <1>1, SortedAscending
<1>3. PICK n \in Nat : n = Cardinality(S \ {k})
  BY <1>1, NameSubset
<1>4. sorted(S) = After(k, s, n)
  BY <1>2, <1>3, AscendingCons, AscendingUnique, SortedAscending
<1>5. s \in Seq(S) /\ Len(s) = n
  <2>1. s \in [1..n -> S \ {k}]
    BY <1>2, <1>3 DEF Ascending
  <2> QED BY <2>1
<1>6. After(k, s, n) = <<k>> \o s
  BY <1>1, <1>5 DEF After
<1> QED BY <1>2, <1>4, <1>6

-----------------------------------------------------------------------------
(* The recursive definitions of the reference. *)

(* The parts of a value. *)
Subvalue(p, v) ==
    \/ v.type = "list" /\ \E i \in DOMAIN v.items : p = v.items[i]
    \/ v.type = "object" /\ \E k \in DOMAIN v.members : p = v.members[k]
    \/ v.type = "other" /\ p = v.generic

(* The parts of a value are values of less depth. *)
LEMMA SubvalueLower ==
    ASSUME NEW v \in Values, NEW p, Subvalue(p, v)
    PROVE  p \in Values /\ Depth[p] \in Nat /\ Depth[v] \in Nat /\ Depth[p] < Depth[v]
<1>1. HasParts(v, Proper) /\ (v.type = "other" => v.generic \in Values)
  BY ValuesAssumption
<1>2. /\ v.type = "list" => \A i \in DOMAIN v.items : Depth[v.items[i]] < Depth[v]
      /\ v.type = "object" => \A k \in DOMAIN v.members : Depth[v.members[k]] < Depth[v]
      /\ v.type = "other" => Depth[v.generic] < Depth[v]
  BY DepthAssumption
<1>3. \A w \in Values : Depth[w] \in Nat
  BY DepthAssumption
<1>4. CASE v.type = "list"
  <2>1. PICK i \in DOMAIN v.items : p = v.items[i]
    BY <1>4 DEF Subvalue
  <2>2. v.items \in Seq(Proper)
    BY <1>1, <1>4 DEF HasParts
  <2>3. p \in Proper
    BY <2>1, <2>2
  <2> QED BY <1>2, <1>3, <1>4, <2>1, <2>3 DEF Proper
<1>5. CASE v.type = "object"
  <2>1. PICK k \in DOMAIN v.members : p = v.members[k]
    BY <1>5 DEF Subvalue
  <2>2. v.members \in [DOMAIN v.members -> Proper]
    BY <1>1, <1>5 DEF HasParts
  <2>3. p \in Proper
    BY <2>1, <2>2
  <2> QED BY <1>2, <1>3, <1>5, <2>1, <2>3 DEF Proper
<1>6. CASE v.type = "other"
  BY <1>1, <1>2, <1>3, <1>6 DEF Subvalue
<1> QED BY <1>4, <1>5, <1>6 DEF Subvalue

Alike(g, h, v) == \A y \in Values : Depth[y] < Depth[v] => g[y] = h[y]

(* Two functions that agree below a depth agree on the parts of a value of that depth. *)
LEMMA SubvalueAlike ==
    ASSUME NEW v \in Values, NEW g, NEW h, Alike(g, h, v), NEW p, Subvalue(p, v)
    PROVE  g[p] = h[p]
  BY SubvalueLower DEF Alike

-----------------------------------------------------------------------------
Serializables == INSTANCE Recursion WITH Domain <- Values, rank <- Depth, Def <- SerializableOf
MeaningsOf == INSTANCE Recursion WITH Domain <- Values, rank <- Depth, Def <- MeaningOf
ReferencesOf == INSTANCE Recursion WITH Domain <- Values, rank <- Depth, Def <- ReferenceOf

(* Whether a value is JSON depends on its parts only. *)
LEMMA SerializableContracting == Serializables!Contracting
<1>1. ASSUME NEW v \in Values, NEW g, NEW h, Alike(g, h, v)
      PROVE  SerializableOf(g, v) = SerializableOf(h, v)
  <2>1. \A p : Subvalue(p, v) => g[p] = h[p]
    BY <1>1, SubvalueAlike
  <2>2. v.type = "list" => \A i \in DOMAIN v.items : g[v.items[i]] = h[v.items[i]]
    BY <2>1 DEF Subvalue
  <2>3. v.type = "object" => \A k \in DOMAIN v.members : g[v.members[k]] = h[v.members[k]]
    BY <2>1 DEF Subvalue
  <2>4. v.type = "other" => g[v.generic] = h[v.generic]
    BY <2>1 DEF Subvalue
  <2> QED BY <2>2, <2>3, <2>4 DEF SerializableOf
<1> QED BY <1>1, DepthAssumption DEF Alike, Serializables!Contracting

(* So there is one function that tells, and Serializable is it. *)
LEMMA SerializableIs ==
    \A v \in Values : Serializable[v] = SerializableOf(Serializable, v)
<1>1. \E f : f = [v \in Values |-> SerializableOf(f, v)]
  BY SerializableContracting, Serializables!Recursive
<1>2. Serializable = [v \in Values |-> SerializableOf(Serializable, v)]
  BY <1>1, Zenon DEF Serializable
<1> QED BY <1>2

(* What a value means depends on its parts only. *)
LEMMA MeaningContracting == MeaningsOf!Contracting
<1>1. ASSUME NEW v \in Values, NEW g, NEW h, Alike(g, h, v)
      PROVE  MeaningOf(g, v) = MeaningOf(h, v)
  <2>1. \A p : Subvalue(p, v) => g[p] = h[p]
    BY <1>1, SubvalueAlike
  <2>2. CASE v.type = "list"
    <3>1. \A i \in DOMAIN v.items : g[v.items[i]] = h[v.items[i]]
      BY <2>1, <2>2 DEF Subvalue
    <3>2. [i \in DOMAIN v.items |-> g[v.items[i]]] = [i \in DOMAIN v.items |-> h[v.items[i]]]
      BY <3>1
    <3> QED BY <2>2, <3>2 DEF MeaningOf
  <2>3. CASE v.type = "object"
    <3> DEFINE name(r) == CHOOSE k \in DOMAIN v.members : runes(k) = r
               all == {runes(k) : k \in DOMAIN v.members}
    <3>1. ASSUME NEW r \in all PROVE name(r) \in DOMAIN v.members
      <4>1. \E k \in DOMAIN v.members : runes(k) = r
        OBVIOUS
      <4> QED BY <4>1
    <3>2. \A k \in DOMAIN v.members : g[v.members[k]] = h[v.members[k]]
      BY <2>1, <2>3 DEF Subvalue
    <3>3. [r \in all |-> g[v.members[name(r)]]] = [r \in all |-> h[v.members[name(r)]]]
      <4> HIDE DEF name, all
      <4> QED BY <3>1, <3>2
    <3> QED BY <2>3, <3>3 DEF MeaningOf
  <2>4. CASE v.type = "other"
    <3>1. g[v.generic] = h[v.generic]
      BY <2>1, <2>4 DEF Subvalue
    <3> QED BY <2>4, <3>1 DEF MeaningOf
  <2>5. CASE v.type \notin {"list", "object", "other"}
    BY <2>5 DEF MeaningOf
  <2> QED BY <2>2, <2>3, <2>4, <2>5
<1> QED BY <1>1, DepthAssumption DEF Alike, MeaningsOf!Contracting

(* So Meaning is what its definition says. *)
LEMMA MeaningIs == \A v \in Values : Meaning[v] = MeaningOf(Meaning, v)
<1>1. \E f : f = [v \in Values |-> MeaningOf(f, v)]
  BY MeaningContracting, MeaningsOf!Recursive
<1>2. Meaning = [v \in Values |-> MeaningOf(Meaning, v)]
  BY <1>1, Zenon DEF Meaning
<1> QED BY <1>2

(* The names of an object. *)
LEMMA MemberNames ==
    ASSUME Readable, NEW v \in Values, v.type = "object"
    PROVE  NameSet(DOMAIN v.members) /\ v.members \in [DOMAIN v.members -> Proper]
  BY ValuesAssumption DEF Readable, NamesDiffer, HasParts, NameSet

(* How a value is to be written depends on its parts only. *)
LEMMA ReferenceContracting == ASSUME Readable PROVE ReferencesOf!Contracting
<1>1. ASSUME NEW v \in Values, NEW g, NEW h, Alike(g, h, v)
      PROVE  ReferenceOf(g, v) = ReferenceOf(h, v)
  <2>1. \A p : Subvalue(p, v) => g[p] = h[p]
    BY <1>1, SubvalueAlike
  <2>2. CASE v.type = "list"
    <3>1. \A i \in DOMAIN v.items : g[v.items[i]] = h[v.items[i]]
      BY <2>1, <2>2 DEF Subvalue
    <3>2. [i \in DOMAIN v.items |-> g[v.items[i]]] = [i \in DOMAIN v.items |-> h[v.items[i]]]
      BY <3>1
    <3> QED BY <2>2, <3>2 DEF ReferenceOf
  <2>3. CASE v.type = "object"
    <3>1. PICK names : names = sorted(DOMAIN v.members)
      OBVIOUS
    <3>2. names \in Seq(DOMAIN v.members)
      BY <2>3, <3>1, MemberNames, SortedType
    <3>3. \A k \in DOMAIN v.members : g[v.members[k]] = h[v.members[k]]
      BY <2>1, <2>3 DEF Subvalue
    <3>4. \A i \in DOMAIN names : g[v.members[names[i]]] = h[v.members[names[i]]]
      BY <3>2, <3>3
    <3>5. [i \in DOMAIN names |-> writeEscaped(names[i]) \o <<58>> \o g[v.members[names[i]]]]
            = [i \in DOMAIN names |-> writeEscaped(names[i]) \o <<58>> \o h[v.members[names[i]]]]
      BY <3>4
    <3> QED BY <2>3, <3>1, <3>5 DEF ReferenceOf
  <2>4. CASE v.type = "other"
    <3>1. g[v.generic] = h[v.generic]
      BY <2>1, <2>4 DEF Subvalue
    <3> QED BY <2>4, <3>1 DEF ReferenceOf
  <2>5. CASE v.type \notin {"list", "object", "other"}
    BY <2>5 DEF ReferenceOf
  <2> QED BY <2>2, <2>3, <2>4, <2>5
<1> QED BY <1>1, DepthAssumption DEF Alike, ReferencesOf!Contracting

(* So Reference is what its definition says. *)
LEMMA ReferenceIs ==
    ASSUME Readable
    PROVE  \A v \in Values : Reference[v] = ReferenceOf(Reference, v)
<1>1. \E f : f = [v \in Values |-> ReferenceOf(f, v)]
  BY ReferenceContracting, ReferencesOf!Recursive
<1>2. Reference = [v \in Values |-> ReferenceOf(Reference, v)]
  BY <1>1, Zenon DEF Reference
<1> QED BY <1>2

-----------------------------------------------------------------------------
(* The types of what is written and still to be written. *)

Names == {s \in Seq(Int) : IsString(s)}
Maps == {m \in UNION {[D -> Proper] : D \in SUBSET Names} : IsFiniteSet(DOMAIN m)}
Separators == {<<>>, <<44>>}

(* What is on the list of what is still to be done. *)
ValueThings ==
    {t \in [do : {"value"}, value : Proper, normalize : BOOLEAN] : ~t.normalize => t.value \in Generic}
ItemThings ==
    {t \in [do : {"items"}, left : Seq(Proper), sep : Separators, normalize : BOOLEAN] :
        ~t.normalize => t.left \in Seq(Generic)}
MemberThings == [do : {"members"}, left : Maps, sep : Separators]
Things == ValueThings \cup ItemThings \cup MemberThings

WriterType ==
    /\ value \in Documents /\ todo \in Seq(Things)
    /\ buf \in Seq(Printable) /\ err \in BOOLEAN

(* An integer is printable. *)
LEMMA IntegerPrintable == ASSUME NEW n \in Int PROVE formatInt(n) \in Seq(Printable)
<1>1. PICK s \in Seq(45..57) : s = formatInt(n)
  BY FormatType
<1>2. \A i \in 45..57 : i \in Printable
  BY MaxRuneFact DEF Printable
<1>3. s \in Seq(Printable)
  BY <1>2
<1> QED BY <1>1, <1>3

(* All other tokens are. *)
LEMMA PunctuationPrintable ==
    /\ null \in Seq(Printable) /\ true \in Seq(Printable) /\ false \in Seq(Printable)
    /\ <<>> \in Seq(Printable) /\ <<91>> \in Seq(Printable) /\ <<93>> \in Seq(Printable)
    /\ <<123>> \in Seq(Printable) /\ <<125>> \in Seq(Printable)
    /\ <<44>> \in Seq(Printable) /\ <<58>> \in Seq(Printable)
<1>1. \A i \in 32..127 : i \in Printable
  BY MaxRuneFact DEF Printable
<1> QED BY <1>1 DEF null, true, false

(* What is known of a value by its type. *)
LEMMA ProperParts ==
    ASSUME NEW v \in Proper
    PROVE  /\ v \in Values /\ v.type \in Types /\ v.type # "unmarshalable" /\ HasParts(v, Proper)
           /\ v.type = "other" => v.generic \in Values
           /\ v.type = "other" => v.generic.type = "unmarshalable" \/ v.generic \in Generic
  BY ValuesAssumption DEF Proper

(* The text of a value that is not refused is printable. *)
LEMMA TextPrintable ==
    ASSUME NEW v \in Proper, NEW normalize \in BOOLEAN, ~refused(v, normalize),
           v.type \notin {"list", "object", "other"}
    PROVE  text(v) \in Seq(Printable)
<1>1. HasParts(v, Proper) /\ v.type \in Types /\ v.type # "unmarshalable"
  BY ProperParts
<1>2. v.type \in {"null", "bool", "string", "integer", "float", "number"}
  BY <1>1 DEF Types, GenericTypes, refused
<1>3. CASE v.type = "null"
  BY <1>3, PunctuationPrintable DEF text
<1>4. CASE v.type = "bool"
  BY <1>4, PunctuationPrintable DEF text
<1>5. CASE v.type = "string"
  <2>1. IsString(v.s)
    BY <1>1, <1>5 DEF HasParts
  <2> QED BY <1>5, <2>1, WrittenPrintable DEF text
<1>6. CASE v.type = "integer"
  <2>1. v.n \in Int
    BY <1>1, <1>6 DEF HasParts
  <2> QED BY <1>6, <2>1, IntegerPrintable DEF text
<1>7. CASE v.type \in {"float", "number"}
  <2>1. v.halves \in Int
    BY <1>1, <1>7 DEF HasParts, refused
  <2>2. v.halves \div 2 \in Int
    BY <2>1
  <2>3. text(v) = formatInt(v.halves \div 2)
    BY <1>7 DEF text
  <2> QED BY <2>2, <2>3, IntegerPrintable
<1> QED BY <1>2, <1>3, <1>4, <1>5, <1>6, <1>7

(* A step that does the first thing keeps the types. *)
LEMMA DoType ==
    ASSUME WriterType, todo # <<>>, NEW t \in Seq(Printable), NEW things \in Seq(Things), Do(t, things)
    PROVE  WriterType'
<1>1. buf' = buf \o t /\ todo' = things \o Tail(todo) /\ value' = value /\ err' = err
  BY DEF Do
<1>2. buf \o t \in Seq(Printable)
  BY DEF WriterType
<1>3. things \o Tail(todo) \in Seq(Things)
  BY DEF WriterType
<1> QED BY <1>1, <1>2, <1>3 DEF WriterType

(* A value may be left to write. *)
LEMMA ValueThing ==
    ASSUME NEW v \in Proper, NEW normalize \in BOOLEAN, ~normalize => v \in Generic
    PROVE  Value(v, normalize) \in Things
  BY DEF Value, Things, ValueThings

(* Items may be. *)
LEMMA ItemsThing ==
    ASSUME NEW items \in Seq(Proper), NEW sep \in Separators, NEW normalize \in BOOLEAN,
           ~normalize => items \in Seq(Generic)
    PROVE  Items(items, sep, normalize) \in Things
  BY DEF Items, Things, ItemThings

(* Members may be. *)
LEMMA MembersThing ==
    ASSUME NEW members \in Maps, NEW sep \in Separators
    PROVE  Members(members, sep) \in Things
  BY DEF Members, Things, MemberThings

(* What is done now, by its kind. *)
LEMMA CurrentThing ==
    ASSUME WriterType, todo # <<>>
    PROVE  /\ Current.do = "value" => Current \in ValueThings
           /\ Current.do = "items" => Current \in ItemThings
           /\ Current.do = "members" => Current \in MemberThings
<1>1. Current \in Things
  BY DEF WriterType, Current
<1> QED BY <1>1 DEF Things, ValueThings, ItemThings, MemberThings

(* What encoding/json returns it can marshal. *)
LEMMA GenericProper == Generic \subseteq Proper
  BY GenericAssumption DEF Proper, GenericTypes

(* The things a value is replaced by. *)
LEMMA PartThings ==
    ASSUME NEW v \in Proper, NEW normalize \in BOOLEAN, ~normalize => v \in Generic
    PROVE  /\ v.type = "list" => Items(v.items, <<>>, normalize) \in Things
           /\ v.type = "object" => v.members \in Maps /\ Members(v.members, <<>>) \in Things
           /\ v.type = "other" /\ ~refused(v, normalize) =>
                v.generic \in Generic /\ Value(v.generic, FALSE) \in Things
<1>1. HasParts(v, Proper) /\ (v \in Generic => HasParts(v, Generic))
  BY ProperParts, GenericAssumption
<1>2. <<>> \in Separators
  BY DEF Separators
<1>3. ASSUME v.type = "list" PROVE Items(v.items, <<>>, normalize) \in Things
  <2>1. v.items \in Seq(Proper) /\ (v \in Generic => v.items \in Seq(Generic))
    BY <1>1, <1>3 DEF HasParts
  <2> QED BY <1>2, <2>1, ItemsThing
<1>4. ASSUME v.type = "object" PROVE v.members \in Maps /\ Members(v.members, <<>>) \in Things
  <2>1. /\ IsFiniteSet(DOMAIN v.members) /\ v.members \in [DOMAIN v.members -> Proper]
        /\ \A k \in DOMAIN v.members : IsString(k)
    BY <1>1, <1>4 DEF HasParts
  <2>2. DOMAIN v.members \in SUBSET Names
    BY <2>1 DEF Names, IsString
  <2>3. v.members \in Maps
    BY <2>1, <2>2 DEF Maps
  <2> QED BY <1>2, <2>3, MembersThing
<1>5. ASSUME v.type = "other", ~refused(v, normalize)
      PROVE  v.generic \in Generic /\ Value(v.generic, FALSE) \in Things
  <2>1. v.generic \in Generic
    BY <1>5, ProperParts DEF refused
  <2> QED BY <2>1, GenericProper, ValueThing
<1> QED BY <1>3, <1>4, <1>5

(* What an item is followed by. *)
LEMMA ItemThingsNext ==
    ASSUME NEW t \in ItemThings, t.left # <<>>
    PROVE  /\ Value(Head(t.left), t.normalize) \in Things
           /\ Items(Tail(t.left), <<44>>, t.normalize) \in Things
           /\ t.sep \in Separators /\ t.left \in Seq(Proper)
<1>1. /\ t.left \in Seq(Proper) /\ t.normalize \in BOOLEAN /\ t.sep \in Separators
      /\ ~t.normalize => t.left \in Seq(Generic)
  BY DEF ItemThings
<1>2. Head(t.left) \in Proper /\ Tail(t.left) \in Seq(Proper)
  BY <1>1
<1>3. ~t.normalize => Head(t.left) \in Generic /\ Tail(t.left) \in Seq(Generic)
  BY <1>1
<1>4. <<44>> \in Separators
  BY DEF Separators
<1> QED BY <1>1, <1>2, <1>3, <1>4, ValueThing, ItemsThing

(* What a member is followed by. *)
LEMMA MemberThingsNext ==
    ASSUME NEW t \in MemberThings, NEW k \in DOMAIN t.left
    PROVE  /\ Value(t.left[k], TRUE) \in Things /\ IsString(k) /\ t.sep \in Separators
           /\ t.left[k] \in Proper
           /\ Restrict(t.left, DOMAIN t.left \ {k}) \in Maps
           /\ Members(Restrict(t.left, DOMAIN t.left \ {k}), <<44>>) \in Things
<1>1. t.left \in Maps /\ t.sep \in Separators
  BY DEF MemberThings
<1>2. PICK D \in SUBSET Names : t.left \in [D -> Proper] /\ IsFiniteSet(D)
  BY <1>1 DEF Maps
<1>3. t.left[k] \in Proper /\ IsString(k)
  BY <1>2 DEF Names
<1>4. Restrict(t.left, DOMAIN t.left \ {k}) \in Maps
  <2>1. D \ {k} \in SUBSET Names /\ IsFiniteSet(D \ {k})
    BY <1>2, FS_RemoveElement
  <2>2. Restrict(t.left, DOMAIN t.left \ {k}) \in [D \ {k} -> Proper]
    BY <1>2 DEF Restrict
  <2> QED BY <2>1, <2>2 DEF Maps
<1>5. <<44>> \in Separators
  BY DEF Separators
<1> QED BY <1>1, <1>3, <1>4, <1>5, ValueThing, MembersThing

(* Separators are printable. *)
LEMMA SeparatorPrintable == \A sep \in Separators : sep \in Seq(Printable)
  BY PunctuationPrintable, ZenonT(60) DEF Separators

(* Every step keeps the types. *)
LEMMA TypeStep == ASSUME WriterType, [Next]_vars PROVE WriterType'
<1>1. CASE Refuse
  <2>1. value' = value /\ todo' = <<>> /\ buf' = buf /\ err' = TRUE
    BY <1>1 DEF Refuse
  <2> QED BY <2>1 DEF WriterType
<1>2. CASE Write
  <2>1. /\ todo # <<>> /\ Current \in ValueThings /\ ~refused(Current.value, Current.normalize)
    BY <1>2, CurrentThing DEF Write
  <2>2. PICK v \in Proper, n \in BOOLEAN :
          /\ v = Current.value /\ n = Current.normalize /\ ~refused(v, n) /\ (~n => v \in Generic)
    BY <2>1 DEF ValueThings
  <2>3. CASE v.type = "list" /\ Do(<<91>>, <<Items(v.items, <<>>, n)>>)
    <3>1. PICK a \in Things : a = Items(v.items, <<>>, n)
      BY <2>2, <2>3, PartThings
    <3>2. <<a>> \in Seq(Things)
      OBVIOUS
    <3> QED BY <2>1, <2>3, <3>1, <3>2, DoType, PunctuationPrintable
  <2>4. CASE v.type = "object" /\ Do(<<123>>, <<Members(v.members, <<>>)>>)
    <3>1. PICK a \in Things : a = Members(v.members, <<>>)
      BY <2>2, <2>4, PartThings
    <3>2. <<a>> \in Seq(Things)
      OBVIOUS
    <3> QED BY <2>1, <2>4, <3>1, <3>2, DoType, PunctuationPrintable
  <2>5. CASE v.type = "other" /\ Do(<<>>, <<Value(v.generic, FALSE)>>)
    <3>1. PICK a \in Things : a = Value(v.generic, FALSE)
      BY <2>2, <2>5, PartThings
    <3>2. <<a>> \in Seq(Things)
      OBVIOUS
    <3> QED BY <2>1, <2>5, <3>1, <3>2, DoType, PunctuationPrintable
  <2>6. CASE v.type \notin {"list", "object", "other"} /\ Do(text(v), <<>>)
    <3>1. text(v) \in Seq(Printable) /\ <<>> \in Seq(Things)
      BY <2>2, <2>6, TextPrintable
    <3> QED BY <2>1, <2>6, <3>1, DoType
  <2> QED BY <1>2, <2>2, <2>3, <2>4, <2>5, <2>6 DEF Write
<1>3. CASE WriteItem
  <2>1. todo # <<>> /\ Current \in ItemThings
    BY <1>3, CurrentThing DEF WriteItem
  <2>2. CASE Current.left = <<>>
    <3>1. Do(<<93>>, <<>>) /\ <<>> \in Seq(Things)
      BY <1>3, <2>2 DEF WriteItem
    <3> QED BY <2>1, <3>1, DoType, PunctuationPrintable
  <2>3. CASE Current.left # <<>>
    <3>1. PICK a \in Things, b \in Things :
            /\ a = Value(Head(Current.left), Current.normalize)
            /\ b = Items(Tail(Current.left), <<44>>, Current.normalize)
      BY <2>1, <2>3, ItemThingsNext
    <3>2. Do(Current.sep, <<a, b>>)
      BY <1>3, <2>3, <3>1 DEF WriteItem
    <3>3. Current.sep \in Seq(Printable) /\ <<a, b>> \in Seq(Things)
      BY <2>1, <2>3, ItemThingsNext, SeparatorPrintable
    <3> QED BY <2>1, <3>2, <3>3, DoType
  <2> QED BY <2>2, <2>3
<1>4. CASE WriteMember
  <2>1. todo # <<>> /\ Current \in MemberThings
    BY <1>4, CurrentThing DEF WriteMember
  <2>2. CASE Do(<<125>>, <<>>)
    <3>1. <<>> \in Seq(Things)
      OBVIOUS
    <3> QED BY <2>1, <2>2, <3>1, DoType, PunctuationPrintable
  <2>3. ASSUME NEW k \in first(Current.left),
               Do(Current.sep \o writeEscaped(k) \o << 58 >>,
                  <<Value(Current.left[k], TRUE),
                    Members(Restrict(Current.left, DOMAIN Current.left \ {k}), << 44 >>)>>)
        PROVE  WriterType'
    <3>1. k \in DOMAIN Current.left
      BY DEF first
    <3>2. PICK a \in Things, b \in Things :
            /\ a = Value(Current.left[k], TRUE)
            /\ b = Members(Restrict(Current.left, DOMAIN Current.left \ {k}), <<44>>)
      BY <2>1, <3>1, MemberThingsNext
    <3>3. PICK s \in Seq(Printable), w \in Seq(Printable) : s = Current.sep /\ w = writeEscaped(k)
      BY <2>1, <3>1, MemberThingsNext, SeparatorPrintable, WrittenPrintable
    <3>4. s \o w \o <<58>> \in Seq(Printable) /\ <<a, b>> \in Seq(Things)
      BY PunctuationPrintable
    <3>5. Do(s \o w \o <<58>>, <<a, b>>)
      BY <2>3, <3>2, <3>3
    <3> QED BY <2>1, <3>4, <3>5, DoType
  <2> QED BY <1>4, <2>2, <2>3 DEF WriteMember
<1>5. CASE Returned \/ UNCHANGED vars
  BY <1>5 DEF Returned, vars, WriterType
<1> QED BY <1>1, <1>2, <1>3, <1>4, <1>5 DEF Next

(* Type correctness of the writer, for any document: no control character is  *)
(* ever written (writeEscaped, canonical.go:225-237).                         *)
THEOREM TypeCorrect == Spec => []TypeOK
<1>1. Init => WriterType
  <2> SUFFICES ASSUME Init PROVE WriterType
    OBVIOUS
  <2>1. value \in Documents /\ value \in Proper
    BY DocumentsAssumption DEF Init
  <2>2. PICK a \in Things : a = Value(value, TRUE)
    BY <2>1, ValueThing
  <2>3. <<a>> \in Seq(Things)
    OBVIOUS
  <2>4. todo = <<a>> /\ buf = <<>> /\ err = FALSE
    BY <2>2 DEF Init
  <2> QED BY <2>1, <2>3, <2>4, PunctuationPrintable DEF WriterType
<1>2. WriterType => TypeOK
  <2> SUFFICES ASSUME WriterType PROVE TypeOK
    OBVIOUS
  <2>1. err \in BOOLEAN /\ \A i \in DOMAIN buf : buf[i] \in Printable
    BY DEF WriterType
  <2> QED BY <2>1 DEF TypeOK, Printable
<1> QED BY <1>1, <1>2, TypeStep, PTL DEF Spec

-----------------------------------------------------------------------------
(* Lists of texts with commas between them. *)

Texts == Seq(Text)

(* Texts one after the other, the first after sep and the others after a comma. *)
listed(sep, texts) ==
    concat([i \in DOMAIN texts |-> (IF i = 1 THEN sep ELSE <<44>>) \o texts[i]])

(* Separators are texts. *)
LEMMA SepText == \A sep \in Separators : sep \in Text
<1>1. <<>> \in Text /\ <<44>> \in Text
  BY DEF Text
<1> QED BY <1>1 DEF Separators

(* No texts are listed as nothing. *)
LEMMA ListedEmpty == ASSUME NEW sep PROVE listed(sep, <<>>) = <<>>
<1>1. [i \in DOMAIN <<>> |-> (IF i = 1 THEN sep ELSE <<44>>) \o (<<>>)[i]] = <<>>
  OBVIOUS
<1> QED BY <1>1, ConcatEmpty DEF listed

(* The texts of a list. *)
LEMMA TextsText == ASSUME NEW texts \in Texts
                   PROVE  /\ DOMAIN texts = 1..Len(texts) /\ Len(texts) \in Nat
                          /\ \A i \in 1..Len(texts) : texts[i] \in Text
  BY DEF Texts

(* Texts, each after a comma. *)
following(texts) == [i \in 1..Len(texts) |-> <<44>> \o texts[i]]

(* Texts after a comma each. *)
LEMMA FollowingTexts ==
    ASSUME NEW texts \in Texts
    PROVE  following(texts) \in Texts /\ listed(<<44>>, texts) = concat(following(texts))
<1>1. <<44>> \in Text
  BY DEF Text
<1>2. /\ DOMAIN texts = 1..Len(texts) /\ Len(texts) \in Nat
      /\ \A i \in 1..Len(texts) : texts[i] \in Text
  BY TextsText
<1>3. \A i \in 1..Len(texts) : <<44>> \o texts[i] \in Text
  BY <1>1, <1>2, TextConcat
<1>4. following(texts) \in Seq(Text)
  BY <1>2, <1>3 DEF following
<1>5. following(texts) = [i \in DOMAIN texts |-> (IF i = 1 THEN <<44>> ELSE <<44>>) \o texts[i]]
  BY <1>2 DEF following
<1> QED BY <1>4, <1>5 DEF listed, Texts

(* The first of a list has the first separator. *)
LEMMA ListedFirst ==
    ASSUME NEW sep \in Text, NEW t \in Text, NEW texts \in Texts
    PROVE  listed(sep, <<t>> \o texts) = concat(<<sep \o t>> \o following(texts))
<1>1. texts \in Seq(Text) /\ Len(texts) \in Nat
  BY DEF Texts
<1>2. PICK u : u = <<t>> \o texts
  OBVIOUS
<1>3. /\ DOMAIN u = 1..(Len(texts) + 1) /\ u[1] = t
      /\ \A i \in 1..Len(texts) : u[i + 1] = texts[i]
  BY <1>1, <1>2
<1>4. PICK f : f = following(texts)
  OBVIOUS
<1>5. f \in Seq(Text) /\ Len(f) = Len(texts) /\ \A i \in 1..Len(texts) : f[i] = <<44>> \o texts[i]
  <2>1. f \in Seq(Text)
    BY <1>4, FollowingTexts DEF Texts
  <2> QED BY <1>1, <1>4, <2>1 DEF following
<1>6. PICK w : w = sep \o t
  OBVIOUS
<1>7. PICK g : g = <<w>> \o f
  OBVIOUS
<1>8. /\ DOMAIN g = 1..(Len(texts) + 1) /\ g[1] = w
      /\ \A i \in 1..Len(texts) : g[i + 1] = f[i]
      /\ g = [i \in 1..(Len(texts) + 1) |-> g[i]]
  BY <1>1, <1>5, <1>7
<1>9. \A i \in 1..(Len(texts) + 1) : (IF i = 1 THEN sep ELSE <<44>>) \o u[i] = g[i]
  <2> SUFFICES ASSUME NEW i \in 1..(Len(texts) + 1)
               PROVE  (IF i = 1 THEN sep ELSE <<44>>) \o u[i] = g[i]
    OBVIOUS
  <2>1. CASE i = 1
    <3>1. u[i] = t /\ g[i] = w
      BY <1>3, <1>8, <2>1
    <3> QED BY <1>6, <2>1, <3>1, Zenon
  <2>2. CASE i # 1
    <3>1. i - 1 \in 1..Len(texts) /\ (i - 1) + 1 = i
      BY <1>1, <2>2
    <3>2. u[i] = texts[i - 1] /\ g[i] = <<44>> \o texts[i - 1]
      BY <1>3, <1>5, <1>8, <3>1
    <3> QED BY <2>2, <3>2, Zenon
  <2> QED BY <2>1, <2>2
<1>10. [i \in DOMAIN u |-> (IF i = 1 THEN sep ELSE <<44>>) \o u[i]] = g
  <2>1. [i \in 1..(Len(texts) + 1) |-> (IF i = 1 THEN sep ELSE <<44>>) \o u[i]]
          = [i \in 1..(Len(texts) + 1) |-> g[i]]
    BY <1>9, Zenon
  <2> QED BY <1>3, <1>8, <2>1, Zenon
<1>11. listed(sep, u) = concat(g)
  BY <1>10 DEF listed
<1> QED BY <1>2, <1>4, <1>6, <1>7, <1>11

(* It is written first, and the others after it. *)
LEMMA ListedCons ==
    ASSUME NEW sep \in Text, NEW t \in Text, NEW texts \in Texts
    PROVE  listed(sep, <<t>> \o texts) = sep \o (t \o listed(<<44>>, texts))
<1>1. PICK w \in Text : w = sep \o t
  BY TextConcat
<1>2. PICK f \in Texts : f = following(texts)
  BY FollowingTexts
<1>3. concat(<<w>> \o f) = w \o concat(f)
  BY ConcatCons DEF Text, Texts
<1>4. concat(f) \in Text
  BY ConcatType DEF Text, Texts
<1>5. (sep \o t) \o concat(f) = sep \o (t \o concat(f))
  BY <1>4, TextAssociative
<1>6. concat(f) = listed(<<44>>, texts)
  BY <1>2, FollowingTexts
<1>7. listed(sep, <<t>> \o texts) = concat(<<w>> \o f)
  BY <1>1, <1>2, ListedFirst
<1> QED BY <1>1, <1>3, <1>5, <1>6, <1>7, Zenon

(* A set of lists that has the empty one, and any with a text before it, has all. *)
LEMMA TextsInduction ==
    ASSUME NEW T, <<>> \in T, \A s \in Texts : \A x \in Text : s \in T => <<x>> \o s \in T
    PROVE  \A s \in Texts : s \in T
  BY ConsInduction DEF Texts

(* A list is a text. *)
LEMMA ListedText ==
    ASSUME NEW sep \in Separators, NEW texts \in Texts
    PROVE  listed(sep, texts) \in Text
<1> DEFINE T == {s \in Texts : \A p \in Separators : listed(p, s) \in Text}
<1>0. <<44>> \in Separators
  BY DEF Separators
<1>1. <<>> \in T
  <2>1. <<>> \in Texts
    BY DEF Texts
  <2> QED BY <2>1, ListedEmpty, TextEmpty
<1>2. ASSUME NEW s \in Texts, NEW x \in Text, s \in T PROVE <<x>> \o s \in T
  <2>1. <<x>> \o s \in Texts
    BY DEF Texts
  <2>2. ASSUME NEW p \in Separators PROVE listed(p, <<x>> \o s) \in Text
    <3>1. p \in Text /\ listed(<<44>>, s) \in Text
      BY <1>0, <1>2, SepText
    <3>2. listed(p, <<x>> \o s) = p \o (x \o listed(<<44>>, s))
      BY <3>1, ListedCons, ZenonT(60)
    <3> QED BY <3>1, <3>2, TextConcat
  <2> QED BY <2>1, <2>2
<1> HIDE DEF T
<1>3. texts \in T
  BY <1>1, <1>2, TextsInduction
<1> QED BY <1>3 DEF T

(* separated is a list that has nothing before its first. *)
LEMMA SeparatedListed ==
    ASSUME NEW texts \in Texts
    PROVE  separated(texts) = listed(<<>>, texts)
<1>1. /\ DOMAIN texts = 1..Len(texts) /\ Len(texts) \in Nat
      /\ \A i \in 1..Len(texts) : texts[i] \in Text
  BY TextsText
<1>2. ASSUME NEW i \in 1..Len(texts)
      PROVE  (IF i = 1 THEN texts[i] ELSE <<44>> \o texts[i]) = (IF i = 1 THEN <<>> ELSE <<44>>) \o texts[i]
  <2>1. <<>> \o texts[i] = texts[i]
    BY <1>1, TextEmpty
  <2> QED BY <2>1, Zenon
<1>3. [i \in 1..Len(texts) |-> IF i = 1 THEN texts[i] ELSE <<44>> \o texts[i]]
        = [i \in 1..Len(texts) |-> (IF i = 1 THEN <<>> ELSE <<44>>) \o texts[i]]
  BY <1>2, Zenon
<1> QED BY <1>1, <1>3, Zenon DEF separated, listed

-----------------------------------------------------------------------------
(* The reference is a text. *)

itemTexts(items) == [i \in DOMAIN items |-> Reference[items[i]]]
memberTexts(members, names) ==
    [i \in DOMAIN names |-> writeEscaped(names[i]) \o <<58>> \o Reference[members[names[i]]]]

(* What is printable is a text. *)
LEMMA PrintableText == ASSUME NEW s \in Seq(Printable) PROVE s \in Text
<1>1. \A i \in Printable : i \in Nat
  BY MaxRuneFact DEF Printable
<1> QED BY <1>1 DEF Text

(* A value is JSON or not. *)
LEMMA SerializableBoolean == ASSUME NEW v \in Values PROVE Serializable[v] \in BOOLEAN
  BY SerializableIs DEF SerializableOf

(* A value that has parts is JSON if they are. *)
LEMMA SerializableParts ==
    ASSUME NEW v \in Values
    PROVE  /\ v.type = "list" => Serializable[v] = \A i \in DOMAIN v.items : Serializable[v.items[i]]
           /\ v.type = "object" =>
                Serializable[v] = \A k \in DOMAIN v.members : Serializable[v.members[k]]
           /\ v.type = "other" => Serializable[v] = Serializable[v.generic]
<1>1. Serializable[v] = SerializableOf(Serializable, v)
  BY SerializableIs
<1>2. v.type = "other" => Serializable[v.generic] \in BOOLEAN
  BY SerializableBoolean, ValuesAssumption
<1>3. CASE v.type = "list"
  BY <1>1, <1>3 DEF SerializableOf
<1>4. CASE v.type = "object"
  BY <1>1, <1>4 DEF SerializableOf
<1>5. CASE v.type = "other"
  BY <1>1, <1>2, <1>5 DEF SerializableOf
<1> QED BY <1>3, <1>4, <1>5

(* exactInteger takes what is twice an integer of at most MaxExact (canonical.go:189). *)
LEMMA Halves ==
    ASSUME NEW h \in Int
    PROVE  exactInteger(h) = \E n \in (-MaxExact)..MaxExact : h = 2 * n
<1>1. MaxExact \in Nat
  BY MaxExactAssumption
<1>2. ASSUME exactInteger(h) PROVE \E n \in (-MaxExact)..MaxExact : h = 2 * n
  <2>1. h % 2 = 0 /\ -2 * MaxExact <= h /\ h <= 2 * MaxExact
    BY <1>1, <1>2 DEF exactInteger
  <2>2. h \div 2 \in Int /\ h = 2 * (h \div 2)
    BY <2>1
  <2>3. h \div 2 \in (-MaxExact)..MaxExact
    BY <1>1, <2>1, <2>2
  <2> QED BY <2>2, <2>3
<1>3. ASSUME NEW n \in (-MaxExact)..MaxExact, h = 2 * n PROVE exactInteger(h)
  BY <1>1, <1>3 DEF exactInteger
<1>4. exactInteger(h) \in BOOLEAN
  BY DEF exactInteger
<1> QED BY <1>2, <1>3, <1>4

(* What canonical refuses is not JSON. *)
LEMMA RefusedIs ==
    ASSUME NEW v \in Proper, NEW normalize \in BOOLEAN, ~normalize => v \in Generic
    PROVE  /\ refused(v, normalize) => ~Serializable[v]
           /\ ~refused(v, normalize) /\ v.type \notin {"list", "object", "other"} => Serializable[v]
<1>1. /\ v \in Values /\ HasParts(v, Proper) /\ v.type \in Types /\ v.type # "unmarshalable"
      /\ v.type = "other" => v.generic \in Values
  BY ProperParts
<1>2. Serializable[v] = SerializableOf(Serializable, v)
  BY <1>1, SerializableIs
<1>3. ~normalize => v.type # "other"
  BY GenericAssumption DEF GenericTypes
<1>4. CASE v.type \in {"bytes", "nan"}
  BY <1>2, <1>4 DEF refused, SerializableOf
<1>5. CASE v.type = "float"
  <2>1. v.halves \in Int
    BY <1>1, <1>5 DEF HasParts
  <2> QED BY <1>2, <1>5, <2>1, Halves DEF refused, SerializableOf
<1>6. CASE v.type = "number"
  <2>1. v.literal = "malformed" \/ (v.literal \in {"integer", "float"} /\ v.halves \in Int)
    BY <1>1, <1>6 DEF HasParts
  <2> QED BY <1>2, <1>6, <2>1, Halves DEF refused, SerializableOf
<1>7. CASE v.type = "other"
  <2>1. refused(v, normalize) => v.generic.type = "unmarshalable"
    BY <1>3, <1>7 DEF refused
  <2>2. Serializable[v] = Serializable[v.generic]
    BY <1>1, <1>7, SerializableParts
  <2>3. v.generic.type = "unmarshalable" => ~Serializable[v.generic]
    BY <1>1, <1>7, SerializableIs DEF SerializableOf
  <2> QED BY <1>7, <2>1, <2>2, <2>3
<1>8. CASE v.type \in {"null", "bool", "string", "integer"}
  BY <1>2, <1>8 DEF refused, SerializableOf
<1>9. CASE v.type \in {"list", "object"}
  BY <1>9 DEF refused
<1> QED BY <1>1, <1>4, <1>5, <1>6, <1>7, <1>8, <1>9 DEF Types, GenericTypes

(* How a value is to be written, by its type. *)
LEMMA ReferenceParts ==
    ASSUME Readable, NEW v \in Values
    PROVE  /\ v.type = "list" => Reference[v] = <<91>> \o separated(itemTexts(v.items)) \o <<93>>
           /\ v.type = "object" =>
                Reference[v] = <<123>> \o separated(memberTexts(v.members, sorted(DOMAIN v.members))) \o <<125>>
           /\ v.type = "other" => Reference[v] = Reference[v.generic]
           /\ v.type \in {"null", "bool", "string", "integer", "float", "number"} =>
                Reference[v] = text(v)
<1>1. Reference[v] = ReferenceOf(Reference, v)
  BY ReferenceIs
<1>2. CASE v.type = "list"
  BY <1>1, <1>2 DEF ReferenceOf, itemTexts
<1>3. CASE v.type = "object"
  BY <1>1, <1>3 DEF ReferenceOf, memberTexts
<1>4. CASE v.type = "other"
  BY <1>1, <1>4 DEF ReferenceOf
<1>5. CASE v.type = "null"
  BY <1>1, <1>5 DEF ReferenceOf, text
<1>6. CASE v.type = "bool"
  BY <1>1, <1>6 DEF ReferenceOf, text
<1>7. CASE v.type = "string"
  BY <1>1, <1>7 DEF ReferenceOf, text
<1>8. CASE v.type = "integer"
  BY <1>1, <1>8 DEF ReferenceOf, text
<1>9. CASE v.type \in {"float", "number"}
  BY <1>1, <1>9 DEF ReferenceOf, text
<1> QED BY <1>2, <1>3, <1>4, <1>5, <1>6, <1>7, <1>8, <1>9

(* A string is written as a text. *)
LEMMA QuotedText == ASSUME NEW s, IsString(s) PROVE writeEscaped(s) \in Text
  BY WrittenPrintable, PrintableText

(* A member is. *)
LEMMA MemberText ==
    ASSUME NEW k, IsString(k), NEW t \in Text
    PROVE  writeEscaped(k) \o <<58>> \o t \in Text
<1>1. writeEscaped(k) \in Text /\ <<58>> \in Text
  BY QuotedText DEF Text
<1> QED BY <1>1, TextConcat

(* The members of an object are. *)
LEMMA MemberTextsType ==
    ASSUME NEW S, NameSet(S), NEW members, S = DOMAIN members,
           \A k \in S : Reference[members[k]] \in Text
    PROVE  memberTexts(members, sorted(S)) \in Texts
<1>1. PICK names : names = sorted(S)
  OBVIOUS
<1>2. names \in Seq(S) /\ DOMAIN names = 1..Len(names) /\ Len(names) \in Nat
  BY <1>1, SortedType
<1>3. ASSUME NEW i \in 1..Len(names)
      PROVE  writeEscaped(names[i]) \o <<58>> \o Reference[members[names[i]]] \in Text
  <2>1. names[i] \in S /\ IsString(names[i])
    BY <1>2 DEF NameSet
  <2> QED BY <2>1, MemberText
<1>4. [i \in 1..Len(names) |-> writeEscaped(names[i]) \o <<58>> \o Reference[members[names[i]]]] \in Seq(Text)
  BY <1>2, <1>3
<1> QED BY <1>1, <1>2, <1>4 DEF memberTexts, Texts

(* A list between brackets is. *)
LEMMA BracketText ==
    ASSUME NEW l \in Nat, NEW r \in Nat, NEW texts \in Texts
    PROVE  <<l>> \o separated(texts) \o <<r>> \in Text
<1>1. separated(texts) \in Text
  <2>1. <<>> \in Separators
    BY DEF Separators
  <2> QED BY <2>1, SeparatedListed, ListedText
<1>2. <<l>> \in Text /\ <<r>> \in Text
  BY DEF Text
<1> QED BY <1>1, <1>2, TextConcat

(* The items of a list are. *)
LEMMA ItemTextsType ==
    ASSUME NEW items \in Seq(Values), \A i \in DOMAIN items : Reference[items[i]] \in Text
    PROVE  itemTexts(items) \in Texts
<1>1. DOMAIN items = 1..Len(items) /\ Len(items) \in Nat
  OBVIOUS
<1>2. [i \in 1..Len(items) |-> Reference[items[i]]] \in Seq(Text)
  BY <1>1
<1> QED BY <1>1, <1>2 DEF itemTexts, Texts

(* Items are values. *)
LEMMA ProperSequence == ASSUME NEW items \in Seq(Proper) PROVE items \in Seq(Values)
<1>1. \A v \in Proper : v \in Values
  BY DEF Proper
<1> QED BY <1>1

(* A value without parts that is JSON has a text. *)
LEMMA TextOfScalar ==
    ASSUME NEW v \in Proper, Serializable[v], v.type \notin {"list", "object", "other"}
    PROVE  text(v) \in Text /\ v.type \in {"null", "bool", "string", "integer", "float", "number"}
<1>1. ~refused(v, TRUE)
  BY RefusedIs
<1>2. text(v) \in Text
  BY <1>1, TextPrintable, PrintableText
<1>3. v.type \in Types /\ v.type # "unmarshalable"
  BY ProperParts
<1> QED BY <1>1, <1>2, <1>3 DEF refused, Types, GenericTypes

(* What is JSON is written as a text. *)
LEMMA ReferenceText ==
    ASSUME Readable
    PROVE  \A v \in Proper : Serializable[v] => Reference[v] \in Text
<1> DEFINE T == {n \in Nat : \A v \in Proper : Depth[v] = n /\ Serializable[v] => Reference[v] \in Text}
<1>1. ASSUME NEW n \in Nat, \A m \in Nat : m < n => m \in T PROVE n \in T
  <2> SUFFICES ASSUME NEW v \in Proper, Depth[v] = n, Serializable[v] PROVE Reference[v] \in Text
    OBVIOUS
  <2>1. v \in Values /\ HasParts(v, Proper)
    BY ProperParts
  <2>2. ASSUME NEW p \in Proper, Subvalue(p, v), Serializable[p] PROVE Reference[p] \in Text
    <3>1. Depth[p] \in Nat /\ Depth[p] < n
      BY <2>1, <2>2, SubvalueLower
    <3> QED BY <1>1, <2>2, <3>1
  <2>3. CASE v.type = "list"
    <3>1. v.items \in Seq(Proper) /\ v.items \in Seq(Values)
      BY <2>1, <2>3, ProperSequence DEF HasParts
    <3>2. ASSUME NEW i \in DOMAIN v.items PROVE Reference[v.items[i]] \in Text
      <4>1. v.items[i] \in Proper /\ Subvalue(v.items[i], v)
        BY <2>3, <3>1 DEF Subvalue
      <4>2. Serializable[v.items[i]]
        BY <2>1, <2>3, SerializableParts
      <4> QED BY <2>2, <4>1, <4>2
    <3>3. PICK texts \in Texts : texts = itemTexts(v.items)
      BY <3>1, <3>2, ItemTextsType
    <3>4. <<91>> \o separated(texts) \o <<93>> \in Text
      BY BracketText
    <3>5. Reference[v] = <<91>> \o separated(itemTexts(v.items)) \o <<93>>
      BY <2>1, <2>3, ReferenceParts
    <3> QED BY <3>3, <3>4, <3>5, Zenon
  <2>4. CASE v.type = "object"
    <3>1. NameSet(DOMAIN v.members) /\ v.members \in [DOMAIN v.members -> Proper]
      BY <2>1, <2>4, MemberNames
    <3>2. ASSUME NEW k \in DOMAIN v.members PROVE Reference[v.members[k]] \in Text
      <4>1. v.members[k] \in Proper /\ Subvalue(v.members[k], v)
        BY <2>4, <3>1 DEF Subvalue
      <4>2. Serializable[v.members[k]]
        BY <2>1, <2>4, SerializableParts
      <4> QED BY <2>2, <4>1, <4>2
    <3>3. PICK texts \in Texts : texts = memberTexts(v.members, sorted(DOMAIN v.members))
      BY <3>1, <3>2, MemberTextsType
    <3>4. <<123>> \o separated(texts) \o <<125>> \in Text
      BY BracketText
    <3>5. Reference[v] = <<123>> \o separated(memberTexts(v.members, sorted(DOMAIN v.members))) \o <<125>>
      BY <2>1, <2>4, ReferenceParts
    <3> QED BY <3>3, <3>4, <3>5, Zenon
  <2>5. CASE v.type = "other"
    <3>1. Serializable[v.generic] /\ v.generic \in Values
      BY <2>1, <2>5, SerializableParts, ProperParts
    <3>2. v.generic.type # "unmarshalable"
      BY <3>1, SerializableIs DEF SerializableOf
    <3>3. v.generic \in Proper /\ Subvalue(v.generic, v)
      BY <2>5, <3>1, <3>2 DEF Proper, Subvalue
    <3> QED BY <2>1, <2>2, <2>5, <3>1, <3>3, ReferenceParts
  <2>6. CASE v.type \notin {"list", "object", "other"}
    BY <2>1, <2>6, TextOfScalar, ReferenceParts
  <2> QED BY <2>3, <2>4, <2>5, <2>6
<1> HIDE DEF T
<1>2. \A n \in Nat : n \in T
  BY <1>1, Digits!StrongInduction
<1>3. \A v \in Proper : Depth[v] \in Nat
  BY DepthAssumption DEF Proper
<1> QED BY <1>2, <1>3 DEF T

-----------------------------------------------------------------------------
(* What is still to be done is JSON, and what is written for it. *)

(* What is still to be done, and what of it is JSON. *)
Tasks == {t \in Things : t.do = "members" => NameSet(DOMAIN t.left)}
json(t) ==
    /\ t.do = "value" => Serializable[t.value]
    /\ t.do = "items" => \A i \in DOMAIN t.left : Serializable[t.left[i]]
    /\ t.do = "members" => \A k \in DOMAIN t.left : Serializable[t.left[k]]
Good == {t \in Tasks : json(t)}
TaskLists == Seq(Tasks)
GoodLists == Seq(Good)

(* What is written for it. *)
written(t) ==
    CASE t.do = "value" -> Reference[t.value]
      [] t.do = "items" -> listed(t.sep, itemTexts(t.left)) \o <<93>>
      [] t.do = "members" -> listed(t.sep, memberTexts(t.left, sorted(DOMAIN t.left))) \o <<125>>
writtenAll(ts) == concat([i \in DOMAIN ts |-> written(ts[i])])

(* A value that is to be written. *)
LEMMA ValueTask ==
    ASSUME NEW v, NEW normalize, Value(v, normalize) \in Things
    PROVE  /\ Value(v, normalize) \in Tasks /\ v \in Proper
           /\ (Value(v, normalize) \in Good) = Serializable[v]
           /\ written(Value(v, normalize)) = Reference[v]
<1>1. PICK t \in Things : t = Value(v, normalize)
  OBVIOUS
<1>2. t.do = "value" /\ t.value = v
  BY <1>1 DEF Value
<1>3. v \in Proper
  BY <1>2 DEF Things, ValueThings, ItemThings, MemberThings
<1>4. t \in Tasks
  BY <1>2 DEF Tasks
<1>5. Serializable[v] \in BOOLEAN
  BY <1>3, SerializableBoolean DEF Proper
<1>6. (t \in Good) = Serializable[v]
  BY <1>2, <1>4, <1>5 DEF Good, json
<1>7. written(t) = Reference[v]
  BY <1>2 DEF written
<1> QED BY <1>1, <1>3, <1>4, <1>6, <1>7

(* Items that are to be written. *)
LEMMA ItemsTask ==
    ASSUME NEW items, NEW sep, NEW normalize, Items(items, sep, normalize) \in Things
    PROVE  /\ Items(items, sep, normalize) \in Tasks /\ items \in Seq(Proper) /\ sep \in Separators
           /\ Items(items, sep, normalize) \in Good <=> \A i \in DOMAIN items : Serializable[items[i]]
           /\ written(Items(items, sep, normalize)) = listed(sep, itemTexts(items)) \o <<93>>
<1>1. PICK t \in Things : t = Items(items, sep, normalize)
  OBVIOUS
<1>2. t.do = "items" /\ t.left = items /\ t.sep = sep
  BY <1>1 DEF Items
<1>3. items \in Seq(Proper) /\ sep \in Separators
  BY <1>2 DEF Things, ValueThings, ItemThings, MemberThings
<1>4. t \in Tasks
  BY <1>2 DEF Tasks
<1>5. t \in Good <=> \A i \in DOMAIN items : Serializable[items[i]]
  <2>1. json(t) <=> \A i \in DOMAIN items : Serializable[items[i]]
    BY <1>2 DEF json
  <2>2. t \in Good <=> json(t)
    BY <1>4 DEF Good
  <2> QED BY <2>1, <2>2
<1>6. written(t) = listed(sep, itemTexts(items)) \o <<93>>
  BY <1>2 DEF written
<1> QED BY <1>1, <1>3, <1>4, <1>5, <1>6

(* Members that are to be written. *)
LEMMA MembersTask ==
    ASSUME NEW members, NEW sep, NameSet(DOMAIN members), Members(members, sep) \in Things
    PROVE  /\ Members(members, sep) \in Tasks /\ sep \in Separators
           /\ members \in [DOMAIN members -> Proper]
           /\ Members(members, sep) \in Good <=> \A k \in DOMAIN members : Serializable[members[k]]
           /\ written(Members(members, sep))
                = listed(sep, memberTexts(members, sorted(DOMAIN members))) \o <<125>>
<1>1. PICK t \in Things : t = Members(members, sep)
  OBVIOUS
<1>2. t.do = "members" /\ t.left = members /\ t.sep = sep
  BY <1>1 DEF Members
<1>3. members \in Maps /\ sep \in Separators
  BY <1>2 DEF Things, ValueThings, ItemThings, MemberThings
<1>4. members \in [DOMAIN members -> Proper]
  BY <1>3 DEF Maps
<1>5. t \in Tasks
  BY <1>2 DEF Tasks
<1>6. t \in Good <=> \A k \in DOMAIN members : Serializable[members[k]]
  <2>1. json(t) <=> \A k \in DOMAIN members : Serializable[members[k]]
    BY <1>2 DEF json
  <2>2. t \in Good <=> json(t)
    BY <1>5 DEF Good
  <2> QED BY <2>1, <2>2
<1>7. written(t) = listed(sep, memberTexts(members, sorted(DOMAIN members))) \o <<125>>
  BY <1>2 DEF written
<1> QED BY <1>1, <1>3, <1>4, <1>5, <1>6, <1>7

(* A task is one of a value, of items or of members. *)
LEMMA TaskKinds ==
    ASSUME NEW t \in Tasks
    PROVE  /\ t.do \in {"value", "items", "members"}
           /\ t.do = "value" => t = Value(t.value, t.normalize) /\ Value(t.value, t.normalize) \in Things
           /\ t.do = "items" =>
                /\ t = Items(t.left, t.sep, t.normalize)
                /\ Items(t.left, t.sep, t.normalize) \in Things
           /\ t.do = "members" =>
                t = Members(t.left, t.sep) /\ Members(t.left, t.sep) \in Things /\ NameSet(DOMAIN t.left)
<1>1. t \in Things /\ (t.do = "members" => NameSet(DOMAIN t.left))
  BY DEF Tasks
<1>2. CASE t \in ValueThings
  <2>1. t.do = "value" /\ t = Value(t.value, t.normalize)
    BY <1>2 DEF ValueThings, Value
  <2> QED BY <1>1, <2>1
<1>3. CASE t \in ItemThings
  <2>1. t.do = "items" /\ t = Items(t.left, t.sep, t.normalize)
    BY <1>3 DEF ItemThings, Items
  <2> QED BY <1>1, <2>1
<1>4. CASE t \in MemberThings
  <2>1. t.do = "members" /\ t = Members(t.left, t.sep)
    BY <1>4 DEF MemberThings, Members
  <2> QED BY <1>1, <2>1
<1> QED BY <1>1, <1>2, <1>3, <1>4 DEF Things

(* Items that are JSON are written as texts. *)
LEMMA ItemsText ==
    ASSUME Readable, NEW items \in Seq(Proper), \A i \in DOMAIN items : Serializable[items[i]]
    PROVE  itemTexts(items) \in Texts
<1>1. \A i \in DOMAIN items : Reference[items[i]] \in Text
  BY ReferenceText
<1> QED BY <1>1, ProperSequence, ItemTextsType

(* Members that are JSON are. *)
LEMMA MembersText ==
    ASSUME Readable, NEW members, NameSet(DOMAIN members), members \in [DOMAIN members -> Proper],
           \A k \in DOMAIN members : Serializable[members[k]]
    PROVE  memberTexts(members, sorted(DOMAIN members)) \in Texts
<1>1. \A k \in DOMAIN members : Reference[members[k]] \in Text
  BY ReferenceText
<1> QED BY <1>1, MemberTextsType

(* What closes a list may follow it. *)
LEMMA ClosedText ==
    ASSUME NEW sep \in Separators, NEW texts \in Texts, NEW r \in Nat
    PROVE  listed(sep, texts) \o <<r>> \in Text
<1>1. listed(sep, texts) \in Text /\ <<r>> \in Text
  BY ListedText DEF Text
<1> QED BY <1>1, TextConcat

(* What is written for a task that is JSON is a text. *)
LEMMA WrittenText == ASSUME Readable, NEW t \in Good PROVE written(t) \in Text
<1>1. t \in Tasks
  BY DEF Good
<1>2. CASE t.do = "value"
  <2>1. PICK v, n : v = t.value /\ t = Value(v, n) /\ Value(v, n) \in Things
    BY <1>1, <1>2, TaskKinds
  <2>2. v \in Proper /\ Serializable[v] /\ written(t) = Reference[v]
    BY <2>1, ValueTask
  <2> QED BY <2>2, ReferenceText
<1>3. CASE t.do = "items"
  <2>1. PICK items, sep, n : t = Items(items, sep, n) /\ Items(items, sep, n) \in Things
    BY <1>1, <1>3, TaskKinds
  <2>2. /\ items \in Seq(Proper) /\ sep \in Separators /\ \A i \in DOMAIN items : Serializable[items[i]]
        /\ written(t) = listed(sep, itemTexts(items)) \o <<93>>
    BY <2>1, ItemsTask
  <2>3. PICK texts \in Texts : texts = itemTexts(items)
    BY <2>2, ItemsText
  <2> QED BY <2>2, <2>3, ClosedText
<1>4. CASE t.do = "members"
  <2>1. NameSet(DOMAIN t.left) /\ t = Members(t.left, t.sep) /\ Members(t.left, t.sep) \in Things
    BY <1>1, <1>4, TaskKinds
  <2>2. /\ t.sep \in Separators /\ t.left \in [DOMAIN t.left -> Proper]
        /\ \A k \in DOMAIN t.left : Serializable[t.left[k]]
        /\ written(t) = listed(t.sep, memberTexts(t.left, sorted(DOMAIN t.left))) \o <<125>>
    BY <2>1, MembersTask
  <2>3. PICK texts \in Texts : texts = memberTexts(t.left, sorted(DOMAIN t.left))
    BY <2>1, <2>2, MembersText
  <2> QED BY <2>2, <2>3, ClosedText
<1> QED BY <1>1, <1>2, <1>3, <1>4, TaskKinds

-----------------------------------------------------------------------------
(* What is written for tasks is a sequence of texts. *)
LEMMA WrittenSeq ==
    ASSUME Readable, NEW ts \in GoodLists
    PROVE  [i \in DOMAIN ts |-> written(ts[i])] \in Seq(Text)
<1>1. DOMAIN ts = 1..Len(ts) /\ Len(ts) \in Nat /\ \A i \in 1..Len(ts) : ts[i] \in Good
  BY DEF GoodLists
<1>2. \A i \in 1..Len(ts) : written(ts[i]) \in Text
  BY <1>1, WrittenText
<1> QED BY <1>1, <1>2

(* Together they are a text. *)
LEMMA WrittenAllText == ASSUME Readable, NEW ts \in GoodLists PROVE writtenAll(ts) \in Text
  BY WrittenSeq, ConcatType DEF writtenAll, Text

(* Tasks are written in their order. *)
LEMMA WrittenAllConcat ==
    ASSUME Readable, NEW ts \in GoodLists, NEW us \in GoodLists
    PROVE  writtenAll(ts \o us) = writtenAll(ts) \o writtenAll(us)
<1> DEFINE f == [i \in DOMAIN ts |-> written(ts[i])]
           g == [i \in DOMAIN us |-> written(us[i])]
           h == [i \in DOMAIN (ts \o us) |-> written((ts \o us)[i])]
<1>1. f \in Seq(Text) /\ g \in Seq(Text)
  BY WrittenSeq
<1>2. ts \in Seq(Good) /\ us \in Seq(Good)
  BY DEF GoodLists
<1>3. Len(f) = Len(ts) /\ Len(g) = Len(us) /\ Len(h) = Len(ts) + Len(us)
  BY <1>2
<1>4. h = f \o g
  <2>1. Len(ts) \in Nat /\ Len(us) \in Nat /\ h = [i \in 1..(Len(ts) + Len(us)) |-> written((ts \o us)[i])]
    BY <1>2
  <2>2. f \o g = [i \in 1..(Len(ts) + Len(us)) |-> IF i <= Len(ts) THEN f[i] ELSE g[i - Len(ts)]]
    <3>1. PICK a \in Seq(Text), b \in Seq(Text) : a = f /\ b = g
      BY <1>1
    <3>2. Len(a) = Len(ts) /\ Len(b) = Len(us)
      BY <1>3, <3>1
    <3>3. a \o b = [i \in 1..(Len(a) + Len(b)) |-> IF i <= Len(a) THEN a[i] ELSE b[i - Len(a)]]
      <4>1. PICK c \in Seq(Text) : c = a \o b
        BY ConcatProperties, Zenon
      <4>2. /\ Len(c) = Len(a) + Len(b)
            /\ \A i \in 1..(Len(a) + Len(b)) : c[i] = IF i <= Len(a) THEN a[i] ELSE b[i - Len(a)]
        BY <4>1, ConcatProperties
      <4>3. c = [i \in 1..(Len(a) + Len(b)) |-> IF i <= Len(a) THEN a[i] ELSE b[i - Len(a)]]
        BY <4>2
      <4> QED BY <4>1, <4>3
    <3> QED BY <3>1, <3>2, <3>3, Zenon
  <2>3. ASSUME NEW i \in 1..(Len(ts) + Len(us))
        PROVE  written((ts \o us)[i]) = IF i <= Len(ts) THEN f[i] ELSE g[i - Len(ts)]
    BY <1>2
  <2> QED BY <2>1, <2>2, <2>3
<1> HIDE DEF f, g, h
<1>5. concat(h) = concat(f) \o concat(g)
  BY <1>1, <1>4, ConcatConcat DEF Text
<1> QED BY <1>5 DEF f, g, h, writtenAll

(* Two of a sequence. *)
LEMMA Pair == ASSUME NEW X, NEW a \in X, NEW b \in X PROVE <<a>> \o <<b>> = <<a, b>>
<1>1. <<a>> \in Seq(X) /\ <<b>> \in Seq(X) /\ Len(<<a>>) = 1 /\ Len(<<b>>) = 1
  OBVIOUS
<1>2. PICK u \in Seq(X) : u = <<a>> \o <<b>>
  BY <1>1, ConcatProperties, Zenon
<1>3. Len(u) = 1 + 1 /\ \A i \in 1..(1 + 1) : u[i] = IF i <= 1 THEN <<a>>[i] ELSE <<b>>[i - 1]
  BY <1>1, <1>2, ConcatProperties
<1>4. u[1] = a /\ u[2] = b /\ Len(u) = 2
  BY <1>3
<1>5. u = <<a, b>>
  BY <1>4
<1> QED BY <1>2, <1>5

(* What is written for no task, for one and for two. *)
LEMMA WrittenAllFew ==
    ASSUME Readable
    PROVE  /\ <<>> \in GoodLists /\ writtenAll(<<>>) = <<>>
           /\ \A a \in Good : <<a>> \in GoodLists /\ writtenAll(<<a>>) = written(a)
           /\ \A a, b \in Good : <<a, b>> \in GoodLists /\ writtenAll(<<a, b>>) = written(a) \o written(b)
<1>1. <<>> \in GoodLists
  BY DEF GoodLists
<1>2. writtenAll(<<>>) = <<>>
  <2>1. [i \in DOMAIN <<>> |-> written((<<>>)[i])] = <<>>
    OBVIOUS
  <2> QED BY <2>1, ConcatEmpty DEF writtenAll
<1>3. ASSUME NEW a \in Good PROVE <<a>> \in GoodLists /\ writtenAll(<<a>>) = written(a)
  <2>1. <<a>> \in GoodLists
    BY DEF GoodLists
  <2>2. [i \in DOMAIN <<a>> |-> written((<<a>>)[i])] = <<written(a)>> \o <<>>
    OBVIOUS
  <2>3. written(a) \in Seq(Nat) /\ <<>> \in Seq(Seq(Nat))
    BY WrittenText DEF Text
  <2>4. concat(<<written(a)>> \o <<>>) = written(a) \o concat(<<>>)
    BY <2>3, ConcatCons
  <2>5. written(a) \o concat(<<>>) = written(a)
    BY <2>3, ConcatEmpty
  <2> QED BY <2>1, <2>2, <2>4, <2>5 DEF writtenAll
<1>4. ASSUME NEW a \in Good, NEW b \in Good
      PROVE  <<a, b>> \in GoodLists /\ writtenAll(<<a, b>>) = written(a) \o written(b)
  <2>1. <<a>> \o <<b>> = <<a, b>>
    BY Pair
  <2>2. <<a, b>> \in GoodLists
    BY DEF GoodLists
  <2> QED BY <1>3, <2>1, <2>2, WrittenAllConcat
<1> QED BY <1>1, <1>2, <1>3, <1>4

(* Lists of no task, of one and of two. *)
LEMMA ListsFew ==
    /\ <<>> \in TaskLists
    /\ \A a \in Tasks : <<a>> \in TaskLists /\ (<<a>> \in GoodLists) = (a \in Good)
    /\ \A a, b \in Tasks :
         <<a, b>> \in TaskLists /\ (<<a, b>> \in GoodLists) = (a \in Good /\ b \in Good)
  BY DEF TaskLists, GoodLists

(* A list of tasks is JSON if both its parts are. *)
LEMMA ListsConcat ==
    ASSUME NEW ts \in TaskLists, NEW us \in TaskLists
    PROVE  /\ ts \o us \in TaskLists
           /\ (ts \o us \in GoodLists) = (ts \in GoodLists /\ us \in GoodLists)
<1>1. ts \in Seq(Tasks) /\ us \in Seq(Tasks) /\ ts \o us \in Seq(Tasks)
  BY DEF TaskLists
<1>2. ASSUME ts \in Seq(Good), us \in Seq(Good) PROVE ts \o us \in Seq(Good)
  BY <1>2
<1>3. ASSUME ts \o us \in Seq(Good) PROVE ts \in Seq(Good) /\ us \in Seq(Good)
  <2>1. /\ Len(ts) \in Nat /\ Len(us) \in Nat /\ Len(ts \o us) = Len(ts) + Len(us)
        /\ \A i \in 1..(Len(ts) + Len(us)) : (ts \o us)[i] \in Good
    BY <1>1, <1>3
  <2>2. ASSUME NEW i \in 1..Len(ts) PROVE ts[i] \in Good
    <3>1. i \in 1..(Len(ts) + Len(us)) /\ (ts \o us)[i] = ts[i]
      BY <1>1, <2>1
    <3> QED BY <2>1, <3>1
  <2>3. ASSUME NEW i \in 1..Len(us) PROVE us[i] \in Good
    <3>1. Len(ts) + i \in 1..(Len(ts) + Len(us)) /\ (ts \o us)[Len(ts) + i] = us[i]
      BY <1>1, <2>1
    <3> QED BY <2>1, <3>1
  <2> QED BY <1>1, <2>2, <2>3
<1> QED BY <1>1, <1>2, <1>3 DEF TaskLists, GoodLists

-----------------------------------------------------------------------------
(* Steps that write a value or an item. *)

(* What a task is replaced by writes what it writes, and is JSON if it is. *)
Replaces(t, txt, things) ==
    /\ things \in TaskLists
    /\ t \in Good <=> things \in GoodLists
    /\ t \in Good => txt \in Text /\ written(t) = txt \o writtenAll(things)

(* A list is replaced by its bracket and its items. *)
LEMMA ListStep ==
    ASSUME Readable, NEW v \in Proper, v.type = "list", NEW n, Value(v, n) \in Things,
           Items(v.items, <<>>, n) \in Things
    PROVE  Replaces(Value(v, n), <<91>>, <<Items(v.items, <<>>, n)>>)
<1>1. PICK t \in Things, a \in Things : t = Value(v, n) /\ a = Items(v.items, <<>>, n)
  OBVIOUS
<1>2. t \in Tasks /\ (t \in Good) = Serializable[v] /\ written(t) = Reference[v]
  BY <1>1, ValueTask
<1>3. /\ a \in Tasks /\ v.items \in Seq(Proper)
      /\ a \in Good <=> \A i \in DOMAIN v.items : Serializable[v.items[i]]
      /\ written(a) = listed(<<>>, itemTexts(v.items)) \o <<93>>
  BY <1>1, ItemsTask
<1>4. v \in Values /\ Serializable[v] = \A i \in DOMAIN v.items : Serializable[v.items[i]]
  BY SerializableParts DEF Proper
<1>5. t \in Good <=> <<a>> \in GoodLists
  BY <1>2, <1>3, <1>4, ListsFew
<1>6. ASSUME t \in Good PROVE <<91>> \in Text /\ written(t) = <<91>> \o writtenAll(<<a>>)
  <2>1. PICK texts \in Texts : texts = itemTexts(v.items)
    BY <1>2, <1>3, <1>4, <1>6, ItemsText
  <2>2. Reference[v] = <<91>> \o separated(texts) \o <<93>>
    BY <1>4, <2>1, ReferenceParts
  <2>3. PICK l \in Text : l = separated(texts) /\ l = listed(<<>>, texts)
    <3>1. <<>> \in Separators
      BY DEF Separators
    <3> QED BY <3>1, SeparatedListed, ListedText
  <2>4. <<91>> \in Text /\ <<93>> \in Text
    BY DEF Text
  <2>5. (<<91>> \o l) \o <<93>> = <<91>> \o (l \o <<93>>)
    BY <2>4, TextAssociative
  <2>6. writtenAll(<<a>>) = written(a)
    BY <1>2, <1>3, <1>4, <1>6, WrittenAllFew
  <2> QED BY <1>2, <1>3, <2>1, <2>2, <2>3, <2>4, <2>5, <2>6, ZenonT(60)
<1> QED BY <1>1, <1>3, <1>5, <1>6, ListsFew DEF Replaces

(* An object is replaced by its bracket and its members. *)
LEMMA ObjectStep ==
    ASSUME Readable, NEW v \in Proper, v.type = "object", NEW n, Value(v, n) \in Things,
           Members(v.members, <<>>) \in Things
    PROVE  Replaces(Value(v, n), <<123>>, <<Members(v.members, <<>>)>>)
<1>1. PICK t \in Things, a \in Things : t = Value(v, n) /\ a = Members(v.members, <<>>)
  OBVIOUS
<1>2. t \in Tasks /\ (t \in Good) = Serializable[v] /\ written(t) = Reference[v]
  BY <1>1, ValueTask
<1>3. v \in Values /\ NameSet(DOMAIN v.members)
  BY MemberNames DEF Proper
<1>4. /\ a \in Tasks /\ v.members \in [DOMAIN v.members -> Proper]
      /\ a \in Good <=> \A k \in DOMAIN v.members : Serializable[v.members[k]]
      /\ written(a) = listed(<<>>, memberTexts(v.members, sorted(DOMAIN v.members))) \o <<125>>
  BY <1>1, <1>3, MembersTask
<1>5. Serializable[v] = \A k \in DOMAIN v.members : Serializable[v.members[k]]
  BY <1>3, SerializableParts
<1>6. t \in Good <=> <<a>> \in GoodLists
  BY <1>2, <1>4, <1>5, ListsFew
<1>7. ASSUME t \in Good PROVE <<123>> \in Text /\ written(t) = <<123>> \o writtenAll(<<a>>)
  <2>1. PICK texts \in Texts : texts = memberTexts(v.members, sorted(DOMAIN v.members))
    BY <1>2, <1>3, <1>4, <1>5, <1>7, MembersText
  <2>2. Reference[v] = <<123>> \o separated(texts) \o <<125>>
    BY <1>3, <2>1, ReferenceParts
  <2>3. PICK l \in Text : l = separated(texts) /\ l = listed(<<>>, texts)
    <3>1. <<>> \in Separators
      BY DEF Separators
    <3> QED BY <3>1, SeparatedListed, ListedText
  <2>4. <<123>> \in Text /\ <<125>> \in Text
    BY DEF Text
  <2>5. (<<123>> \o l) \o <<125>> = <<123>> \o (l \o <<125>>)
    BY <2>4, TextAssociative
  <2>6. writtenAll(<<a>>) = written(a)
    BY <1>2, <1>4, <1>5, <1>7, WrittenAllFew
  <2> QED BY <1>2, <1>4, <2>1, <2>2, <2>3, <2>4, <2>5, <2>6, ZenonT(60)
<1> QED BY <1>1, <1>4, <1>6, <1>7, ListsFew DEF Replaces

(* Any other value is replaced by what encoding/json makes of it (canonical.go:119-128). *)
LEMMA OtherStep ==
    ASSUME Readable, NEW v \in Proper, v.type = "other", NEW n, Value(v, n) \in Things,
           Value(v.generic, FALSE) \in Things
    PROVE  Replaces(Value(v, n), <<>>, <<Value(v.generic, FALSE)>>)
<1>1. PICK t \in Things, a \in Things : t = Value(v, n) /\ a = Value(v.generic, FALSE)
  OBVIOUS
<1>2. t \in Tasks /\ (t \in Good) = Serializable[v] /\ written(t) = Reference[v]
  BY <1>1, ValueTask
<1>3. a \in Tasks /\ (a \in Good) = Serializable[v.generic] /\ written(a) = Reference[v.generic]
  BY <1>1, ValueTask
<1>4. Serializable[v] = Serializable[v.generic] /\ Reference[v] = Reference[v.generic]
  BY SerializableParts, ReferenceParts DEF Proper
<1>5. (t \in Good) = (a \in Good)
  BY <1>2, <1>3, <1>4, Zenon
<1>6. ASSUME t \in Good PROVE <<>> \in Text /\ written(t) = <<>> \o writtenAll(<<a>>)
  <2>1. writtenAll(<<a>>) = written(a) /\ written(a) \in Text
    BY <1>5, <1>6, WrittenAllFew, WrittenText
  <2> QED BY <1>2, <1>3, <1>4, <2>1, TextEmpty
<1> QED BY <1>1, <1>3, <1>5, <1>6, ListsFew DEF Replaces

(* A value without parts is replaced by its text. *)
LEMMA ScalarStep ==
    ASSUME Readable, NEW v \in Proper, v.type \notin {"list", "object", "other"},
           NEW n \in BOOLEAN, ~n => v \in Generic, ~refused(v, n), Value(v, n) \in Things
    PROVE  Replaces(Value(v, n), text(v), <<>>)
<1>1. PICK t \in Things : t = Value(v, n)
  OBVIOUS
<1>2. t \in Tasks /\ (t \in Good) = Serializable[v] /\ written(t) = Reference[v]
  BY <1>1, ValueTask
<1>3. Serializable[v]
  BY RefusedIs
<1>4. text(v) \in Text /\ Reference[v] = text(v)
  BY <1>3, TextOfScalar, ReferenceParts DEF Proper
<1>5. <<>> \in TaskLists /\ <<>> \in GoodLists /\ writtenAll(<<>>) = <<>>
  BY ListsFew, WrittenAllFew
<1> QED BY <1>1, <1>2, <1>3, <1>4, <1>5, TextEmpty DEF Replaces

(* No items are replaced by the bracket that closes them. *)
LEMMA ItemsEmptyStep ==
    ASSUME Readable, NEW sep, NEW n, Items(<<>>, sep, n) \in Things
    PROVE  Replaces(Items(<<>>, sep, n), <<93>>, <<>>)
<1>1. PICK t \in Things : t = Items(<<>>, sep, n)
  OBVIOUS
<1>2. t \in Good /\ sep \in Separators /\ written(t) = listed(sep, itemTexts(<<>>)) \o <<93>>
  BY <1>1, ItemsTask
<1>3. itemTexts(<<>>) = <<>>
  BY DEF itemTexts
<1>4. <<93>> \in Text
  BY DEF Text
<1>5. written(t) = <<93>>
  BY <1>2, <1>3, <1>4, ListedEmpty, TextEmpty
<1>6. <<>> \in TaskLists /\ <<>> \in GoodLists /\ writtenAll(<<>>) = <<>>
  BY ListsFew, WrittenAllFew
<1> QED BY <1>1, <1>2, <1>4, <1>5, <1>6, TextEmpty DEF Replaces

(* The first of a list, and the rest of it with its bracket. *)
ListedAs(sep, x, texts, r) ==
    listed(sep, <<x>> \o texts) \o <<r>> = sep \o (x \o (listed(<<44>>, texts) \o <<r>>))

(* So they are. *)
LEMMA ListedClosed ==
    ASSUME NEW sep \in Text, NEW x \in Text, NEW texts \in Texts, NEW r \in Nat
    PROVE  ListedAs(sep, x, texts, r)
<1>1. PICK c \in Text : c = <<r>>
  <2>1. <<r>> \in Text
    BY DEF Text
  <2> QED BY <2>1
<1>2. PICK l \in Text : l = listed(<<44>>, texts)
  <2>1. <<44>> \in Separators
    BY DEF Separators
  <2> QED BY <2>1, ListedText
<1>3. PICK w \in Text : w = x \o l
  BY TextConcat
<1>4. listed(sep, <<x>> \o texts) = sep \o (x \o l)
  BY <1>2, ListedCons, ZenonT(60)
<1>5. (sep \o w) \o c = sep \o (w \o c)
  BY TextAssociative, ZenonT(60)
<1>6. (x \o l) \o c = x \o (l \o c)
  BY TextAssociative, ZenonT(60)
<1> QED BY <1>1, <1>2, <1>3, <1>4, <1>5, <1>6, Zenon DEF ListedAs

(* A list of two tasks is JSON if both are. *)
LEMMA ListsPair ==
    ASSUME NEW a \in Tasks, NEW b \in Tasks
    PROVE  <<a, b>> \in TaskLists /\ (<<a, b>> \in GoodLists <=> a \in Good /\ b \in Good)
  BY DEF TaskLists, GoodLists

(* Items are replaced by the separator, the first of them and the others. *)
LEMMA ItemStep ==
    ASSUME Readable, NEW items, NEW sep, NEW n, items # <<>>, Items(items, sep, n) \in Things,
           Value(Head(items), n) \in Things, Items(Tail(items), << 44 >>, n) \in Things
    PROVE  Replaces(Items(items, sep, n), sep, <<Value(Head(items), n), Items(Tail(items), <<44>>, n)>>)
<1>1. PICK t \in Things, a \in Things, b \in Things :
        t = Items(items, sep, n) /\ a = Value(Head(items), n) /\ b = Items(Tail(items), <<44>>, n)
  OBVIOUS
<1>2. /\ t \in Tasks /\ items \in Seq(Proper) /\ sep \in Separators
      /\ t \in Good <=> \A i \in DOMAIN items : Serializable[items[i]]
      /\ written(t) = listed(sep, itemTexts(items)) \o <<93>>
  BY <1>1, ItemsTask
<1> DEFINE h == Head(items)
           r == Tail(items)
<1>3. /\ h \in Proper /\ r \in Seq(Proper) /\ items = <<h>> \o r
      /\ DOMAIN items = 1..(Len(r) + 1) /\ DOMAIN r = 1..Len(r) /\ Len(r) \in Nat
      /\ items[1] = h /\ \A i \in 1..Len(r) : items[i + 1] = r[i]
  <2>1. h \in Proper /\ r \in Seq(Proper)
    BY <1>2
  <2>2. items = <<h>> \o r
    BY <1>2
  <2>3. /\ DOMAIN items = 1..(Len(r) + 1) /\ DOMAIN r = 1..Len(r) /\ Len(r) \in Nat
        /\ items[1] = h /\ \A i \in 1..Len(r) : items[i + 1] = r[i]
    BY <1>2
  <2> QED BY <2>1, <2>2, <2>3
<1> HIDE DEF h, r
<1>4. a \in Tasks /\ (a \in Good <=> Serializable[h]) /\ written(a) = Reference[h]
  BY <1>1, <1>3, ValueTask DEF h
<1>5. /\ b \in Tasks /\ (b \in Good <=> \A i \in DOMAIN r : Serializable[r[i]])
      /\ written(b) = listed(<<44>>, itemTexts(r)) \o <<93>>
  BY <1>1, <1>3, ItemsTask DEF r
<1>6. (\A i \in DOMAIN items : Serializable[items[i]])
        <=> Serializable[h] /\ \A i \in DOMAIN r : Serializable[r[i]]
  <2>1. ASSUME NEW i \in 1..(Len(r) + 1), Serializable[h], \A j \in 1..Len(r) : Serializable[r[j]]
        PROVE  Serializable[items[i]]
    <3>1. CASE i = 1
      BY <1>3, <2>1, <3>1
    <3>2. CASE i # 1
      <4>1. i - 1 \in 1..Len(r) /\ (i - 1) + 1 = i
        BY <1>3, <3>2
      <4> QED BY <1>3, <2>1, <4>1
    <3> QED BY <3>1, <3>2
  <2>2. ASSUME \A i \in 1..(Len(r) + 1) : Serializable[items[i]]
        PROVE  Serializable[h] /\ \A j \in 1..Len(r) : Serializable[r[j]]
    <3>1. 1 \in 1..(Len(r) + 1) /\ \A j \in 1..Len(r) : j + 1 \in 1..(Len(r) + 1)
      BY <1>3
    <3> QED BY <1>3, <2>2, <3>1
  <2> QED BY <1>3, <2>1, <2>2
<1>7. t \in Good <=> <<a, b>> \in GoodLists
  <2>1. <<a, b>> \in GoodLists <=> a \in Good /\ b \in Good
    BY <1>4, <1>5, ListsPair, Zenon
  <2>2. t \in Good <=> a \in Good /\ b \in Good
    BY <1>2, <1>4, <1>5, <1>6, Zenon
  <2> QED BY <2>1, <2>2, Zenon
<1>8. ASSUME t \in Good PROVE sep \in Text /\ written(t) = sep \o writtenAll(<<a, b>>)
  <2>1. a \in Good /\ b \in Good
    BY <1>2, <1>4, <1>5, <1>6, <1>8
  <2>2. PICK texts \in Texts : texts = itemTexts(r)
    BY <1>2, <1>3, <1>6, <1>8, ItemsText
  <2>3. PICK x \in Text : x = Reference[h]
    BY <1>2, <1>3, <1>6, <1>8, ReferenceText, Zenon
  <2>4. itemTexts(items) = <<x>> \o texts
    <3>1. itemTexts(items) = [i \in 1..(Len(r) + 1) |-> Reference[items[i]]]
      BY <1>3 DEF itemTexts
    <3>2. texts = [i \in 1..Len(r) |-> Reference[r[i]]]
      BY <1>3, <2>2 DEF itemTexts
    <3>3. texts \in Seq(Text) /\ <<x>> \in Seq(Text) /\ Len(<<x>>) = 1 /\ (<<x>>)[1] = x
      BY <2>2, <2>3 DEF Texts
    <3>4. Len(texts) = Len(r) /\ \A i \in 1..Len(r) : texts[i] = Reference[r[i]]
      BY <1>3, <3>2, <3>3
    <3>5. PICK u \in Seq(Text) : u = <<x>> \o texts
      BY <3>3, ConcatProperties, Zenon
    <3>6. /\ Len(u) = 1 + Len(r)
          /\ \A i \in 1..(1 + Len(r)) : u[i] = IF i <= 1 THEN x ELSE texts[i - 1]
      BY <1>3, <3>3, <3>4, <3>5, ConcatProperties
    <3>7. ASSUME NEW i \in 1..(Len(r) + 1) PROVE u[i] = Reference[items[i]]
      <4>1. CASE i = 1
        BY <1>3, <2>3, <3>6, <4>1
      <4>2. CASE i # 1
        <5>1. i - 1 \in 1..Len(r) /\ (i - 1) + 1 = i /\ i \in 1..(1 + Len(r)) /\ ~(i <= 1)
          BY <1>3, <4>2
        <5>2. u[i] = texts[i - 1] /\ items[i] = r[i - 1]
          BY <1>3, <3>6, <5>1
        <5> QED BY <3>4, <5>1, <5>2
      <4> QED BY <4>1, <4>2
    <3>8. u = [i \in 1..(Len(r) + 1) |-> Reference[items[i]]]
      BY <1>3, <3>6, <3>7
    <3> QED BY <3>1, <3>5, <3>8
  <2>5. sep \in Text
    BY <1>2, SepText
  <2>6. listed(sep, <<x>> \o texts) \o <<93>> = sep \o (x \o (listed(<<44>>, texts) \o <<93>>))
    <3>1. ListedAs(sep, x, texts, 93)
      BY <2>5, ListedClosed
    <3> QED BY <3>1, Zenon DEF ListedAs
  <2>7. writtenAll(<<a, b>>) = written(a) \o written(b)
    BY <2>1, WrittenAllFew
  <2> QED BY <1>2, <1>4, <1>5, <2>2, <2>3, <2>4, <2>5, <2>6, <2>7, Zenon
<1>9. <<a, b>> \in TaskLists
  BY <1>4, <1>5, ListsPair, Zenon
<1> QED BY <1>1, <1>7, <1>8, <1>9 DEF Replaces

-----------------------------------------------------------------------------
(* Steps that write a member. *)

(* No members are replaced by the bracket that closes them. *)
LEMMA MembersEmptyStep ==
    ASSUME Readable, NEW members, DOMAIN members = {}, NEW sep, Members(members, sep) \in Things
    PROVE  Replaces(Members(members, sep), <<125>>, <<>>)
<1>1. PICK t \in Things : t = Members(members, sep)
  OBVIOUS
<1>2. NameSet(DOMAIN members)
  <2>1. IsFiniteSet({})
    BY FS_EmptySet
  <2> QED BY <2>1 DEF NameSet
<1>3. /\ t \in Good /\ sep \in Separators
      /\ written(t) = listed(sep, memberTexts(members, sorted(DOMAIN members))) \o <<125>>
  BY <1>1, <1>2, MembersTask
<1>4. memberTexts(members, sorted(DOMAIN members)) = <<>>
  <2>1. memberTexts(members, <<>>) = <<>>
    BY DEF memberTexts
  <2> QED BY <2>1, SortedEmpty
<1>5. <<125>> \in Text
  BY DEF Text
<1>6. written(t) = <<125>>
  BY <1>3, <1>4, <1>5, ListedEmpty, TextEmpty, ZenonT(60)
<1>7. <<>> \in TaskLists /\ <<>> \in GoodLists /\ writtenAll(<<>>) = <<>>
  BY ListsFew, WrittenAllFew
<1> QED BY <1>1, <1>3, <1>5, <1>6, <1>7, TextEmpty DEF Replaces, Good

(* What the code takes first is what comes first. *)
LEMMA FirstSmallest ==
    ASSUME NEW members, NameSet(DOMAIN members), NEW k \in first(members)
    PROVE  Smallest(k, DOMAIN members)
<1>1. k \in DOMAIN members /\ \A m \in DOMAIN members : ~lessUTF16(units(m), units(k))
  BY DEF first
<1>2. ASSUME NEW m \in DOMAIN members \ {k} PROVE Earlier(k, m)
  <2>1. IsString(m) /\ IsString(k)
    BY <1>1 DEF NameSet
  <2>2. ~Earlier(m, k)
    BY <1>1, <2>1, UnitOrder DEF Earlier
  <2> QED BY <1>1, <2>2, EarlierOrder
<1> QED BY <1>1, <1>2 DEF Smallest

memberText(members, k) == writeEscaped(k) \o <<58>> \o Reference[members[k]]

(* The members of an object, with the smallest name first. *)
LEMMA MemberTextsCons ==
    ASSUME NEW S, NameSet(S), NEW k \in S, NEW members, NEW rest,
           \A m \in S : memberText(members, m) \in Text,
           \A m \in S \ {k} : rest[m] = members[m]
    PROVE  memberTexts(members, Before(<<k>>, sorted(S \ {k})))
             = Before(<<memberText(members, k)>>, memberTexts(rest, sorted(S \ {k})))
<1> DEFINE f(m) == memberText(members, m)
<1>0. PICK s \in Seq(S) : s = sorted(S \ {k}) /\ \A i \in DOMAIN s : rest[s[i]] = members[s[i]]
  <2>1. PICK R : R = S \ {k}
    OBVIOUS
  <2>2. NameSet(R)
    BY <2>1, NameSubset
  <2>3. PICK s \in Seq(R) : s = sorted(R)
    BY <2>2, SortedType
  <2>4. \A i \in DOMAIN s : rest[s[i]] = members[s[i]]
    BY <2>1
  <2>5. s \in Seq(S)
    BY <2>1
  <2> QED BY <2>1, <2>3, <2>4, <2>5
<1>1. PICK u \in Seq(S) : u = <<k>> \o s
  <2>1. <<k>> \o s \in Seq(S)
    OBVIOUS
  <2> QED BY <2>1
<1>2. /\ Len(s) \in Nat /\ DOMAIN s = 1..Len(s) /\ DOMAIN u = 1..(Len(s) + 1)
      /\ u[1] = k /\ \A i \in 1..Len(s) : u[i + 1] = s[i] /\ s[i] \in S
  BY <1>1
<1>3. memberTexts(members, u) = [i \in 1..(Len(s) + 1) |-> f(u[i])]
  BY <1>2 DEF memberTexts, memberText
<1>4. PICK texts : texts = memberTexts(rest, s)
  OBVIOUS
<1>5. \A i \in 1..Len(s) : f(s[i]) = writeEscaped(s[i]) \o <<58>> \o Reference[rest[s[i]]]
  BY <1>0, <1>2 DEF memberText
<1>6. texts = [i \in 1..Len(s) |-> f(s[i])]
  BY <1>2, <1>4, <1>5 DEF memberTexts
<1>7. PICK x \in Text : x = f(k)
  OBVIOUS
<1>8. \A i \in 1..Len(s) : f(s[i]) \in Text
  BY <1>2
<1> HIDE DEF f
<1>9. texts \in Seq(Text) /\ <<x>> \in Seq(Text) /\ Len(<<x>>) = 1 /\ (<<x>>)[1] = x
  BY <1>2, <1>6, <1>7, <1>8
<1>10. Len(texts) = Len(s) /\ \A i \in 1..Len(s) : texts[i] = f(s[i])
  BY <1>2, <1>6, <1>9
<1>11. PICK w \in Seq(Text) : w = <<x>> \o texts
  BY <1>9, ConcatProperties, Zenon
<1>12. /\ Len(w) = 1 + Len(s)
       /\ \A i \in 1..(1 + Len(s)) : w[i] = IF i <= 1 THEN x ELSE texts[i - 1]
  BY <1>2, <1>9, <1>10, <1>11, ConcatProperties
<1>13. ASSUME NEW i \in 1..(Len(s) + 1) PROVE w[i] = f(u[i])
  <2>1. CASE i = 1
    BY <1>2, <1>7, <1>12, <2>1
  <2>2. CASE i # 1
    <3>1. i - 1 \in 1..Len(s) /\ (i - 1) + 1 = i /\ i \in 1..(1 + Len(s)) /\ ~(i <= 1)
      BY <1>2, <2>2
    <3>2. w[i] = texts[i - 1] /\ u[i] = s[i - 1]
      BY <1>2, <1>12, <3>1
    <3> QED BY <1>10, <3>1, <3>2
  <2> QED BY <2>1, <2>2
<1>14. w = [i \in 1..(Len(s) + 1) |-> f(u[i])]
  BY <1>2, <1>12, <1>13
<1> QED BY <1>0, <1>1, <1>3, <1>4, <1>7, <1>11, <1>14, Zenon DEF f, Before

(* A separator, a name, a colon, a value and the rest, put together in two ways. *)
LEMMA SpelledMember ==
    ASSUME NEW sep \in Text, NEW q \in Text, NEW c \in Text, NEW r \in Text, NEW l \in Text
    PROVE  Before(sep, Before(Before(Before(q, c), r), l)) = Before(Before(Before(sep, q), c), Before(r, l))
<1>1. \A x, y \in Text : Before(x, y) \in Text
  BY TextConcat DEF Before
<1>2. \A x, y, z \in Text : Before(Before(x, y), z) = Before(x, Before(y, z))
  BY TextAssociative, Zenon DEF Before
<1> QED BY <1>1, <1>2

(* Members are replaced by the separator, the first name, its value and the others. *)
LEMMA MemberStep ==
    ASSUME Readable, NEW members, NEW sep, NameSet(DOMAIN members), NEW k \in first(members),
           NEW rest, rest = Restrict(members, DOMAIN members \ {k}),
           Members(members, sep) \in Things, Value(members[k], TRUE) \in Things,
           Members(rest, << 44 >>) \in Things
    PROVE  Replaces(Members(members, sep), sep \o writeEscaped(k) \o <<58>>,
                    <<Value(members[k], TRUE), Members(rest, <<44>>)>>)
<1> DEFINE S == DOMAIN members
           R == S \ {k}
<1>1. PICK t \in Things, a \in Things, b \in Things :
        t = Members(members, sep) /\ a = Value(members[k], TRUE) /\ b = Members(rest, <<44>>)
  OBVIOUS
<1>2. Smallest(k, S) /\ k \in S /\ IsString(k)
  BY FirstSmallest DEF Smallest, NameSet
<1>3. /\ DOMAIN rest = R /\ NameSet(R) /\ \A m \in R : rest[m] = members[m]
  BY <1>2, NameSubset DEF Restrict
<1>4. /\ t \in Tasks /\ sep \in Separators /\ members \in [S -> Proper]
      /\ t \in Good <=> \A m \in S : Serializable[members[m]]
      /\ written(t) = listed(sep, memberTexts(members, sorted(S))) \o <<125>>
  BY <1>1, MembersTask
<1>5. a \in Tasks /\ (a \in Good <=> Serializable[members[k]]) /\ written(a) = Reference[members[k]]
  BY <1>1, ValueTask
<1>6. /\ b \in Tasks /\ rest \in [R -> Proper]
      /\ b \in Good <=> \A m \in R : Serializable[rest[m]]
      /\ written(b) = listed(<<44>>, memberTexts(rest, sorted(R))) \o <<125>>
  <2>1. PICK D : D = DOMAIN rest /\ D = R /\ NameSet(D)
    BY <1>3
  <2>2. /\ b \in Tasks /\ rest \in [D -> Proper]
        /\ b \in Good <=> \A m \in D : Serializable[rest[m]]
        /\ written(b) = listed(<<44>>, memberTexts(rest, sorted(D))) \o <<125>>
    BY <1>1, <2>1, MembersTask
  <2> QED BY <2>1, <2>2
<1>7. (\A m \in S : Serializable[members[m]])
        <=> Serializable[members[k]] /\ \A m \in R : Serializable[rest[m]]
  BY <1>2, <1>3
<1>8. t \in Good <=> <<a, b>> \in GoodLists
  <2>1. <<a, b>> \in GoodLists <=> a \in Good /\ b \in Good
    BY <1>5, <1>6, ListsPair, Zenon
  <2>2. t \in Good <=> a \in Good /\ b \in Good
    BY <1>4, <1>5, <1>6, <1>7, Zenon
  <2> QED BY <2>1, <2>2, Zenon
<1>9. ASSUME t \in Good
      PROVE  /\ sep \o writeEscaped(k) \o <<58>> \in Text
             /\ written(t) = (sep \o writeEscaped(k) \o <<58>>) \o writtenAll(<<a, b>>)
  <2>1. a \in Good /\ b \in Good
    BY <1>4, <1>5, <1>6, <1>7, <1>9
  <2>2. ASSUME NEW m \in S PROVE members[m] \in Proper /\ Reference[members[m]] \in Text
    BY <1>4, <1>9, ReferenceText
  <2>3. ASSUME NEW m \in S PROVE memberText(members, m) \in Text
    <3>1. IsString(m)
      BY DEF NameSet
    <3> QED BY <2>2, <3>1, MemberText DEF memberText
  <2>4. PICK texts \in Texts : texts = memberTexts(rest, sorted(R))
    BY <1>3, <1>6, <2>1, MembersText
  <2>5. PICK x \in Text : x = memberText(members, k)
    BY <1>2, <2>3
  <2>6. memberTexts(members, sorted(S)) = <<x>> \o texts
    <3>1. sorted(S) = <<k>> \o sorted(R)
      BY <1>2, SortedFirst
    <3>2. memberTexts(members, <<k>> \o sorted(R)) = <<memberText(members, k)>> \o memberTexts(rest, sorted(R))
      <4>1. PICK D : D = S
        OBVIOUS
      <4>2. NameSet(D) /\ k \in D
        BY <1>2, <4>1
      <4>3. \A m \in D : memberText(members, m) \in Text
        BY <2>3, <4>1
      <4>4. \A m \in D \ {k} : rest[m] = members[m]
        BY <1>3, <4>1
      <4>5. memberTexts(members, Before(<<k>>, sorted(D \ {k})))
              = Before(<<memberText(members, k)>>, memberTexts(rest, sorted(D \ {k})))
        BY <4>2, <4>3, <4>4, MemberTextsCons
      <4> QED BY <4>1, <4>5, Zenon DEF Before
    <3> QED BY <2>4, <2>5, <3>1, <3>2, Zenon
  <2>7. PICK p \in Text, q \in Text, c \in Text, r \in Text :
          p = sep /\ q = writeEscaped(k) /\ c = <<58>> /\ r = Reference[members[k]]
    <3>1. sep \in Text /\ writeEscaped(k) \in Text /\ <<58>> \in Text
      BY <1>2, <1>4, SepText, QuotedText DEF Text
    <3> QED BY <1>2, <2>2, <3>1
  <2>8. PICK l \in Text : l = listed(<<44>>, texts) \o <<125>>
    <3>1. <<44>> \in Separators /\ 125 \in Nat
      BY DEF Separators
    <3> QED BY <3>1, ClosedText
  <2>9. listed(p, <<x>> \o texts) \o <<125>> = p \o (x \o (listed(<<44>>, texts) \o <<125>>))
    <3>1. ListedAs(p, x, texts, 125)
      BY ListedClosed
    <3> QED BY <3>1, Zenon DEF ListedAs
  <2>10. p \o ((q \o c \o r) \o l) = (p \o q \o c) \o (r \o l)
    <3>1. Before(p, Before(Before(Before(q, c), r), l)) = Before(Before(Before(p, q), c), Before(r, l))
      BY SpelledMember
    <3> QED BY <3>1, Zenon DEF Before
  <2>11. x = q \o c \o r
    BY <2>5, <2>7, Zenon DEF memberText
  <2>12. written(t) = (p \o q \o c) \o (r \o l)
    BY <1>4, <2>6, <2>7, <2>8, <2>9, <2>10, <2>11, ZenonT(60)
  <2>13. writtenAll(<<a, b>>) = r \o l
    BY <1>5, <1>6, <2>1, <2>4, <2>7, <2>8, WrittenAllFew, ZenonT(60)
  <2>14. p \o q \o c \in Text
    BY TextConcat
  <2> QED BY <2>7, <2>12, <2>13, <2>14, Zenon
<1>10. <<a, b>> \in TaskLists
  BY <1>5, <1>6, ListsPair, Zenon
<1> QED BY <1>1, <1>8, <1>9, <1>10 DEF Replaces

-----------------------------------------------------------------------------
(* The writer writes the reference. *)

(* What is written, followed by what is still to be written, is what there    *)
(* is to write, as long as all that is left is JSON.                          *)
OnTheWay ==
    /\ todo \in TaskLists
    /\ err => todo = <<>> /\ ~Serializable[value]
    /\ ~err => (Serializable[value] <=> todo \in GoodLists)
    /\ ~err /\ todo \in GoodLists => buf \o writtenAll(todo) = Reference[value]
WriterInv == WriterType /\ OnTheWay

(* What is to be done now, and the rest of it. *)
LEMMA TodoSplit ==
    ASSUME todo \in TaskLists, todo # <<>>
    PROVE  /\ Current \in Tasks /\ Tail(todo) \in TaskLists
           /\ <<Current>> \in TaskLists /\ todo = <<Current>> \o Tail(todo)
<1>1. PICK ts \in Seq(Tasks) : ts = todo
  BY DEF TaskLists
<1>2. Head(ts) \in Tasks /\ Tail(ts) \in Seq(Tasks) /\ ts = <<Head(ts)>> \o Tail(ts)
  BY <1>1
<1>3. <<Head(ts)>> \in Seq(Tasks)
  BY <1>2
<1> QED BY <1>1, <1>2, <1>3 DEF Current, TaskLists

(* Four texts, put together in two ways. *)
LEMMA Rearranged ==
    ASSUME NEW b \in Text, NEW t \in Text, NEW x \in Text, NEW y \in Text
    PROVE  Before(Before(b, t), Before(x, y)) = Before(b, Before(Before(t, x), y))
<1>1. \A u, v \in Text : Before(u, v) \in Text
  BY TextConcat DEF Before
<1>2. \A u, v, w \in Text : Before(Before(u, v), w) = Before(u, Before(v, w))
  BY TextAssociative, Zenon DEF Before
<1> QED BY <1>1, <1>2

(* A step that replaces the first task keeps on the way. *)
LEMMA DoStep ==
    ASSUME Readable, WriterInv, todo # <<>>, ~err,
           NEW txt, NEW things, Do(txt, things), Replaces(Current, txt, things)
    PROVE  OnTheWay'
<1> DEFINE rest == Tail(todo)
<1>1. buf' = buf \o txt /\ todo' = things \o rest /\ value' = value /\ err' = err
  BY DEF Do
<1>2. /\ Current \in Tasks /\ rest \in TaskLists
      /\ <<Current>> \in TaskLists /\ todo = <<Current>> \o rest
  BY TodoSplit DEF WriterInv, OnTheWay
<1>3. /\ things \in TaskLists
      /\ Current \in Good <=> things \in GoodLists
      /\ Current \in Good => txt \in Text /\ written(Current) = txt \o writtenAll(things)
  BY DEF Replaces
<1>4. buf \in Text
  BY PrintableText DEF WriterInv, WriterType
<1> HIDE DEF rest
<1>5. todo' \in TaskLists /\ (todo' \in GoodLists <=> things \in GoodLists /\ rest \in GoodLists)
  BY <1>1, <1>2, <1>3, ListsConcat
<1>6. todo \in GoodLists <=> Current \in Good /\ rest \in GoodLists
  <2>1. PICK c \in TaskLists : c = <<Current>>
    BY <1>2
  <2>2. c \in GoodLists <=> Current \in Good
    BY <1>2, <2>1, ListsFew
  <2>3. c \o rest \in GoodLists <=> c \in GoodLists /\ rest \in GoodLists
    BY <1>2, ListsConcat
  <2> QED BY <1>2, <2>1, <2>2, <2>3, Zenon
<1>7. todo' \in GoodLists <=> todo \in GoodLists
  BY <1>3, <1>5, <1>6
<1>8. ASSUME todo \in GoodLists PROVE buf' \o writtenAll(todo') = Reference[value]
  <2>1. /\ Current \in Good /\ rest \in GoodLists /\ things \in GoodLists /\ <<Current>> \in GoodLists
        /\ writtenAll(<<Current>>) = written(Current)
    BY <1>3, <1>6, <1>8, WrittenAllFew
  <2>2. PICK x \in Text, y \in Text : x = writtenAll(things) /\ y = writtenAll(rest)
    BY <2>1, WrittenAllText
  <2>3. PICK t \in Text : t = txt
    BY <1>3, <2>1
  <2>4. writtenAll(things \o rest) = x \o y
    BY <2>1, <2>2, WrittenAllConcat
  <2>5. writtenAll(<<Current>> \o rest) = (t \o x) \o y
    <3>1. writtenAll(<<Current>> \o rest) = writtenAll(<<Current>>) \o writtenAll(rest)
      BY <2>1, WrittenAllConcat
    <3> QED BY <1>3, <2>1, <2>2, <2>3, <3>1, Zenon
  <2>6. buf \o writtenAll(todo) = Reference[value]
    BY <1>8 DEF WriterInv, OnTheWay
  <2>7. (buf \o t) \o (x \o y) = buf \o ((t \o x) \o y)
    <3>1. Before(Before(buf, t), Before(x, y)) = Before(buf, Before(Before(t, x), y))
      BY <1>4, Rearranged
    <3> QED BY <3>1, Zenon DEF Before
  <2> QED BY <1>1, <1>2, <2>3, <2>4, <2>5, <2>6, <2>7, Zenon
<1>9. Serializable[value] <=> todo \in GoodLists
  BY DEF WriterInv, OnTheWay
<1> QED BY <1>1, <1>5, <1>7, <1>8, <1>9 DEF OnTheWay

(* Every step keeps on the way. *)
LEMMA WayStep == ASSUME Readable, WriterInv, [Next]_vars PROVE OnTheWay'
<1>0. WriterType /\ OnTheWay
  BY DEF WriterInv
<1>1. ASSUME todo # <<>>
      PROVE  ~err /\ Current \in Tasks /\ (Current \in Good \/ ~Serializable[value])
  <2>1. ~err /\ todo \in TaskLists
    BY <1>0, <1>1 DEF OnTheWay
  <2>2. /\ Current \in Tasks /\ Tail(todo) \in TaskLists
        /\ <<Current>> \in TaskLists /\ todo = <<Current>> \o Tail(todo)
    BY <1>1, <2>1, TodoSplit
  <2>3. todo \in GoodLists => Current \in Good
    <3>1. PICK c \in TaskLists : c = <<Current>>
      BY <2>2
    <3>2. c \in GoodLists <=> Current \in Good
      BY <2>2, <3>1, ListsFew
    <3>3. c \o Tail(todo) \in GoodLists => c \in GoodLists
      BY <2>2, ListsConcat
    <3> QED BY <2>2, <3>1, <3>2, <3>3, Zenon
  <2> QED BY <1>0, <2>1, <2>2, <2>3 DEF OnTheWay
<1>2. CASE Refuse
  <2>1. /\ value' = value /\ todo' = <<>> /\ err' = TRUE /\ todo # <<>>
        /\ Current.do = "value" /\ refused(Current.value, Current.normalize)
    BY <1>2 DEF Refuse
  <2>2. Current \in ValueThings
    BY <1>0, <2>1, CurrentThing
  <2>3. /\ Current.value \in Proper /\ Current.normalize \in BOOLEAN
        /\ ~Current.normalize => Current.value \in Generic
    BY <2>2 DEF ValueThings
  <2>4. ~Serializable[Current.value]
    BY <2>1, <2>3, RefusedIs
  <2>5. Current \notin Good
    BY <2>1, <2>4 DEF Good, json
  <2>6. <<>> \in TaskLists
    BY ListsFew
  <2> QED BY <1>1, <2>1, <2>5, <2>6 DEF OnTheWay
<1>3. CASE Write
  <2>1. /\ todo # <<>> /\ Current \in ValueThings /\ ~refused(Current.value, Current.normalize)
        /\ Current \in Things /\ Current.do = "value" /\ Current \in Tasks
    BY <1>0, <1>1, <1>3, CurrentThing DEF Write, Tasks
  <2>2. PICK v \in Proper, n \in BOOLEAN :
          /\ v = Current.value /\ n = Current.normalize /\ ~refused(v, n) /\ (~n => v \in Generic)
    BY <2>1 DEF ValueThings
  <2>3. Current = Value(v, n) /\ Value(v, n) \in Things
    BY <2>1, <2>2, TaskKinds
  <2>4. CASE v.type = "list" /\ Do(<<91>>, <<Items(v.items, <<>>, n)>>)
    <3>1. Items(v.items, <<>>, n) \in Things
      BY <2>2, <2>4, PartThings
    <3>2. Replaces(Current, <<91>>, <<Items(v.items, <<>>, n)>>)
      BY <2>3, <2>4, <3>1, ListStep
    <3> QED BY <1>1, <2>1, <2>4, <3>2, DoStep
  <2>5. CASE v.type = "object" /\ Do(<<123>>, <<Members(v.members, <<>>)>>)
    <3>1. Members(v.members, <<>>) \in Things
      BY <2>2, <2>5, PartThings
    <3>2. Replaces(Current, <<123>>, <<Members(v.members, <<>>)>>)
      BY <2>3, <2>5, <3>1, ObjectStep
    <3> QED BY <1>1, <2>1, <2>5, <3>2, DoStep
  <2>6. CASE v.type = "other" /\ Do(<<>>, <<Value(v.generic, FALSE)>>)
    <3>1. Value(v.generic, FALSE) \in Things
      BY <2>2, <2>6, PartThings
    <3>2. Replaces(Current, <<>>, <<Value(v.generic, FALSE)>>)
      BY <2>3, <2>6, <3>1, OtherStep
    <3> QED BY <1>1, <2>1, <2>6, <3>2, DoStep
  <2>7. CASE v.type \notin {"list", "object", "other"} /\ Do(text(v), <<>>)
    <3>1. Replaces(Current, text(v), <<>>)
      BY <2>2, <2>3, <2>7, ScalarStep
    <3> QED BY <1>1, <2>1, <2>7, <3>1, DoStep
  <2> QED BY <1>3, <2>2, <2>4, <2>5, <2>6, <2>7 DEF Write
<1>4. CASE WriteItem
  <2>1. todo # <<>> /\ Current \in ItemThings /\ Current.do = "items" /\ Current \in Tasks
    BY <1>0, <1>1, <1>4, CurrentThing DEF WriteItem
  <2>2. PICK items, sep, n : items = Current.left /\ sep = Current.sep /\ n = Current.normalize
    OBVIOUS
  <2>3. Current = Items(items, sep, n) /\ Items(items, sep, n) \in Things
    BY <2>1, <2>2, TaskKinds
  <2>4. CASE items = <<>>
    <3>1. Do(<<93>>, <<>>)
      BY <1>4, <2>2, <2>4 DEF WriteItem
    <3>2. Replaces(Current, <<93>>, <<>>)
      BY <2>3, <2>4, ItemsEmptyStep
    <3> QED BY <1>1, <2>1, <3>1, <3>2, DoStep
  <2>5. CASE items # <<>>
    <3>1. Do(sep, <<Value(Head(items), n), Items(Tail(items), <<44>>, n)>>)
      BY <1>4, <2>2, <2>5 DEF WriteItem
    <3>2. Value(Head(items), n) \in Things /\ Items(Tail(items), <<44>>, n) \in Things
      BY <2>1, <2>2, <2>5, ItemThingsNext
    <3>3. Replaces(Current, sep, <<Value(Head(items), n), Items(Tail(items), <<44>>, n)>>)
      BY <2>3, <2>5, <3>2, ItemStep
    <3> QED BY <1>1, <2>1, <3>1, <3>3, DoStep
  <2> QED BY <2>4, <2>5
<1>5. CASE WriteMember
  <2>1. todo # <<>> /\ Current \in MemberThings /\ Current.do = "members" /\ Current \in Tasks
    BY <1>0, <1>1, <1>5, CurrentThing DEF WriteMember
  <2>2. PICK members, sep : members = Current.left /\ sep = Current.sep
    OBVIOUS
  <2>3. /\ Current = Members(members, sep) /\ Members(members, sep) \in Things
        /\ NameSet(DOMAIN members)
    BY <2>1, <2>2, TaskKinds
  <2>4. CASE DOMAIN members = {} /\ Do(<<125>>, <<>>)
    <3>1. Replaces(Current, <<125>>, <<>>)
      BY <2>3, <2>4, MembersEmptyStep
    <3> QED BY <1>1, <2>1, <2>4, <3>1, DoStep
  <2>5. ASSUME NEW k \in first(members), NEW rest, rest = Restrict(members, DOMAIN members \ {k}),
               Do(sep \o writeEscaped(k) \o << 58 >>, <<Value(members[k], TRUE), Members(rest, << 44 >>)>>)
        PROVE  OnTheWay'
    <3>1. k \in DOMAIN members
      BY DEF first
    <3>2. Value(members[k], TRUE) \in Things /\ Members(rest, <<44>>) \in Things
      BY <2>1, <2>2, <2>5, <3>1, MemberThingsNext
    <3>3. Replaces(Current, sep \o writeEscaped(k) \o <<58>>,
                   <<Value(members[k], TRUE), Members(rest, <<44>>)>>)
      BY <2>3, <2>5, <3>2, MemberStep
    <3> QED BY <1>1, <2>1, <2>5, <3>3, DoStep
  <2> QED BY <1>5, <2>2, <2>4, <2>5 DEF WriteMember
<1>6. CASE Returned \/ UNCHANGED vars
  <2>1. value' = value /\ todo' = todo /\ buf' = buf /\ err' = err
    BY <1>6 DEF Returned, vars
  <2> QED BY <1>0, <2>1, Zenon DEF OnTheWay
<1> QED BY <1>2, <1>3, <1>4, <1>5, <1>6 DEF Next

(* At every step, what is written and what is still to be done make up the     *)
(* bytes to write, and the writer fails only on what is not JSON.              *)
THEOREM WriterInvariant == ASSUME Readable PROVE Spec => []WriterInv
<1>1. Init => WriterInv
  <2> SUFFICES ASSUME Init PROVE WriterInv
    OBVIOUS
  <2>1. value \in Documents /\ value \in Proper
    BY DocumentsAssumption DEF Init
  <2>2. PICK a \in Things : a = Value(value, TRUE)
    BY <2>1, ValueThing
  <2>3. todo = <<a>> /\ buf = <<>> /\ err = FALSE
    BY <2>2 DEF Init
  <2>4. WriterType
    <3>1. <<a>> \in Seq(Things)
      OBVIOUS
    <3> QED BY <2>1, <2>3, <3>1, PunctuationPrintable DEF WriterType
  <2>5. a \in Tasks /\ (a \in Good <=> Serializable[value]) /\ written(a) = Reference[value]
    BY <2>2, ValueTask
  <2>6. <<a>> \in TaskLists /\ (<<a>> \in GoodLists <=> Serializable[value])
    BY <2>5, ListsFew
  <2>7. ASSUME todo \in GoodLists PROVE buf \o writtenAll(todo) = Reference[value]
    <3>1. writtenAll(<<a>>) = written(a) /\ written(a) \in Text
      BY <2>3, <2>5, <2>6, <2>7, WrittenAllFew, WrittenText
    <3> QED BY <2>3, <2>5, <3>1, TextEmpty
  <2> QED BY <2>3, <2>4, <2>6, <2>7 DEF WriterInv, OnTheWay
<1>2. WriterInv /\ [Next]_vars => WriterInv'
  BY TypeStep, WayStep DEF WriterInv
<1> QED BY <1>1, <1>2, PTL DEF Spec

(* When nothing is left, the bytes are those that are to be written. *)
LEMMA WriterPins == ASSUME Readable PROVE WriterInv => Pinned
<1> SUFFICES ASSUME WriterInv, todo = <<>>
             PROVE  IF Serializable[value] THEN ~err /\ buf = Reference[value] ELSE err
  BY DEF Pinned
<1>1. <<>> \in GoodLists /\ writtenAll(<<>>) = <<>>
  BY WrittenAllFew
<1>2. buf \in Text
  BY PrintableText DEF WriterInv, WriterType
<1>3. CASE err
  BY <1>3 DEF WriterInv, OnTheWay
<1>4. CASE ~err
  <2>1. Serializable[value] /\ buf \o <<>> = Reference[value]
    BY <1>1, <1>4 DEF WriterInv, OnTheWay
  <2> QED BY <1>2, <1>4, <2>1, TextEmpty
<1> QED BY <1>3, <1>4

(* "The byte sequence has to be pinned" (canonical.go:19-22): for documents of *)
(* any size and depth and whatever order maps are ranged over, CanonicalJSON   *)
(* writes the bytes of the reference, or fails on what is not JSON, provided    *)
(* no object has two names that read as the same one.                          *)
THEOREM BytesPinned == ASSUME Readable PROVE Spec => []Pinned
  BY WriterInvariant, WriterPins, PTL

-----------------------------------------------------------------------------
(* Lists of texts that are told from what follows them. *)

First(x) == x[1]

(* What may come after a value: nothing, or one of , ] and }. *)
Ends(x) == x \in Text /\ (x = <<>> \/ First(x) \in {44, 93, 125})

(* Texts that are told from what follows them. *)
Delimited(W) ==
    /\ W \in SUBSET Text
    /\ \A a \in W : a # <<>> /\ First(a) \notin {44, 93, 125}
    /\ \A a, b \in W : \A x, y : Ends(x) /\ Ends(y) /\ Before(a, x) = Before(b, y) => a = b /\ x = y

(* What is known of texts that are put together, by Before. *)
LEMMA BeforeText ==
    /\ \A x, y \in Text : Before(x, y) \in Text
    /\ \A x, y, z \in Text : Before(Before(x, y), z) = Before(x, Before(y, z))
    /\ \A x, y, z \in Text : Before(x, y) = Before(x, z) => y = z
    /\ \A x, y, z \in Text : Before(x, z) = Before(y, z) => x = y
    /\ \A x \in Text : Before(<<>>, x) = x /\ Before(x, <<>>) = x
<1>1. \A x, y \in Text : Before(x, y) \in Text
  BY TextConcat DEF Before
<1>2. \A x, y, z \in Text : Before(Before(x, y), z) = Before(x, Before(y, z))
  BY TextAssociative, Zenon DEF Before
<1>3. \A x, y, z \in Text : Before(x, y) = Before(x, z) => y = z
  BY TextCancel DEF Before
<1>4. \A x, y, z \in Text : Before(x, z) = Before(y, z) => x = y
  BY ConcatSimplifications DEF Text, Before
<1>5. \A x \in Text : Before(<<>>, x) = x /\ Before(x, <<>>) = x
  BY TextEmpty DEF Before
<1> QED BY <1>1, <1>2, <1>3, <1>4, <1>5

(* A text begins as its first part does. *)
LEMMA BeforeFirst ==
    ASSUME NEW a \in Text, a # <<>>, NEW x \in Text
    PROVE  First(Before(a, x)) = First(a) /\ Before(a, x) # <<>>
<1>1. 1 \in 1..Len(a)
  BY DEF Text
<1>2. (a \o x)[1] = a[1]
  BY <1>1, TextPrefix
<1>3. a \o x # <<>>
  BY ConcatSimplifications DEF Text
<1> QED BY <1>2, <1>3 DEF Before, First

(* A text of one character. *)
LEMMA OneText ==
    ASSUME NEW c \in Nat
    PROVE  <<c>> \in Text /\ <<c>> # <<>> /\ First(<<c>>) = c
  BY DEF Text, First

(* A list that is closed by c, and what follows. *)
Closed(sep, s, c, x) == Before(listed(sep, s), Before(<<c>>, x))

(* After no texts there is the bracket. *)
LEMMA ClosedEmpty ==
    ASSUME NEW sep, NEW s, s = <<>>, NEW c \in Nat, NEW x \in Text
    PROVE  Closed(sep, s, c, x) = Before(<<c>>, x)
<1>1. <<c>> \in Text /\ <<c>> # <<>> /\ First(<<c>>) = c
  BY OneText
<1>2. Before(<<c>>, x) \in Text
  BY <1>1, BeforeText
<1>3. Closed(sep, s, c, x) = Before(<<>>, Before(<<c>>, x))
  BY ListedEmpty DEF Closed
<1> QED BY <1>2, <1>3, BeforeText

(* A list begins with its separator and its first text. *)
LEMMA ClosedCons ==
    ASSUME NEW sep \in Separators, NEW h \in Text, NEW r \in Texts, NEW c \in Nat, NEW x \in Text
    PROVE  /\ Closed(sep, <<h>> \o r, c, x) = Before(sep, Before(h, Closed(<<44>>, r, c, x)))
           /\ Closed(<<44>>, r, c, x) \in Text
<1>1. sep \in Text /\ <<44>> \in Separators
  BY SepText DEF Separators
<1>2. PICK l \in Text : l = listed(<<44>>, r)
  BY <1>1, ListedText
<1>3. listed(sep, <<h>> \o r) = Before(sep, Before(h, l))
  BY <1>1, <1>2, ListedCons, ZenonT(60) DEF Before
<1>4. PICK z \in Text : z = Before(<<c>>, x)
  BY OneText, BeforeText
<1>5. Before(Before(sep, Before(h, l)), z) = Before(sep, Before(h, Before(l, z)))
  BY <1>1, BeforeText
<1>6. Before(l, z) \in Text
  BY BeforeText
<1> QED BY <1>2, <1>3, <1>4, <1>5, <1>6 DEF Closed

(* A list of some texts is not written as one of none. *)
LEMMA ClosedApart ==
    ASSUME NEW W, Delimited(W), NEW sep \in Separators, NEW h \in W, NEW r \in Texts,
           NEW c \in {93, 125}, NEW x \in Text, NEW y \in Text, NEW s, s = <<>>
    PROVE  Closed(sep, <<h>> \o r, c, x) # Closed(sep, s, c, y)
<1>1. h \in Text /\ h # <<>> /\ First(h) \notin {44, 93, 125} /\ c \in Nat
  BY DEF Delimited
<1>2. PICK z \in Text : z = Closed(<<44>>, r, c, x) /\ Closed(sep, <<h>> \o r, c, x) = Before(sep, Before(h, z))
  BY <1>1, ClosedCons
<1>3. PICK u \in Text : u = Before(h, z) /\ First(u) = First(h)
  BY <1>1, BeforeText, BeforeFirst
<1>4. First(Before(sep, u)) # c
  <2>1. CASE sep = <<>>
    <3>1. Before(sep, u) = u
      BY <2>1, BeforeText
    <3> QED BY <1>1, <1>3, <3>1
  <2>2. CASE sep = <<44>>
    <3>1. First(Before(sep, u)) = 44
      BY <2>2, OneText, BeforeFirst
    <3> QED BY <3>1
  <2> QED BY <2>1, <2>2 DEF Separators
<1>5. PICK k \in Nat : k = c
  BY <1>1
<1>6. Closed(sep, s, k, y) = Before(<<k>>, y)
  BY ClosedEmpty
<1>7. First(Before(<<k>>, y)) = k
  <2>1. PICK q \in Text : q = <<k>> /\ q # <<>> /\ First(q) = k
    BY OneText
  <2>2. First(Before(q, y)) = First(q)
    BY <2>1, BeforeFirst
  <2> QED BY <2>1, <2>2
<1> QED BY <1>2, <1>3, <1>4, <1>5, <1>6, <1>7, Zenon

(* A sequence that is not empty has a first element. *)
LEMMA NotEmpty ==
    ASSUME NEW W, NEW t \in Seq(W), t # <<>>
    PROVE  \E g \in W, q \in Seq(W) : t = <<g>> \o q
<1>1. Head(t) \in W /\ Tail(t) \in Seq(W) /\ t = <<Head(t)>> \o Tail(t)
  OBVIOUS
<1> QED BY <1>1

(* After a text of a list comes a comma or the bracket. *)
LEMMA ClosedEnds ==
    ASSUME NEW W, Delimited(W), NEW r \in Seq(W), NEW c \in {93, 125}, NEW x \in Text
    PROVE  Ends(Closed(<<44>>, r, c, x))
<1>1. c \in Nat /\ <<44>> \in Separators
  BY DEF Separators
<1>2. CASE r = <<>>
  <2>1. PICK q \in Text : q = <<c>> /\ q # <<>> /\ First(q) = c
    BY <1>1, OneText
  <2>2. Before(q, x) \in Text /\ First(Before(q, x)) = First(q)
    BY <2>1, BeforeText, BeforeFirst
  <2>3. Closed(<<44>>, r, c, x) = Before(q, x)
    BY <1>1, <1>2, <2>1, ClosedEmpty
  <2> QED BY <2>1, <2>2, <2>3 DEF Ends
<1>3. CASE r # <<>>
  <2>1. PICK h \in W, q \in Seq(W) : r = <<h>> \o q
    BY <1>3, NotEmpty
  <2>2. h \in Text /\ q \in Texts
    BY DEF Delimited, Texts
  <2>3. PICK z \in Text : z = Closed(<<44>>, q, c, x) /\ Closed(<<44>>, r, c, x) = Before(<<44>>, Before(h, z))
    BY <1>1, <2>1, <2>2, ClosedCons
  <2>4. Before(h, z) \in Text
    BY <2>2, BeforeText
  <2>5. Before(<<44>>, Before(h, z)) \in Text /\ First(Before(<<44>>, Before(h, z))) = 44
    <3>1. PICK k \in Text : k = <<44>> /\ k # <<>> /\ First(k) = 44
      <4>1. <<44>> \in Text /\ <<44>> # <<>> /\ First(<<44>>) = 44
        BY DEF Text, First
      <4> QED BY <4>1, ZenonT(60)
    <3>2. PICK b \in Text : b = Before(h, z)
      BY <2>4
    <3>3. Before(k, b) \in Text /\ First(Before(k, b)) = First(k)
      BY <3>1, BeforeText, BeforeFirst
    <3> QED BY <3>1, <3>2, <3>3, Zenon
  <2> QED BY <2>3, <2>5 DEF Ends
<1> QED BY <1>2, <1>3

(* Only one list of such texts is written as it is. *)
Alone(s, W, c) ==
    \A t \in Seq(W) : \A sep \in Separators : \A x, y \in Text :
        Closed(sep, s, c, x) = Closed(sep, t, c, y) => s = t /\ x = y

(* Two lists of texts that are told from what follows them are written apart. *)
LEMMA ListsApart ==
    ASSUME NEW W, Delimited(W), NEW c \in {93, 125}
    PROVE  \A s \in Seq(W) : Alone(s, W, c)
<1> DEFINE T == {s \in Seq(W) : Alone(s, W, c)}
<1>0. c \in Nat /\ W \in SUBSET Text /\ <<44>> \in Separators
  BY DEF Delimited, Separators
<1>1. <<>> \in T
  <2> SUFFICES ASSUME NEW t \in Seq(W), NEW sep \in Separators, NEW x \in Text, NEW y \in Text,
                      NEW s, s = <<>>, Closed(sep, s, c, x) = Closed(sep, t, c, y)
               PROVE  <<>> = t /\ x = y
    BY DEF Alone
  <2>1. CASE t = <<>>
    <3>1. Before(<<c>>, x) = Before(<<c>>, y)
      BY <1>0, <2>1, ClosedEmpty
    <3> QED BY <1>0, <2>1, <3>1, OneText, BeforeText
  <2>2. CASE t # <<>>
    <3>1. PICK g \in W, q \in Seq(W) : t = <<g>> \o q
      BY <2>2, NotEmpty
    <3>2. q \in Texts
      BY <1>0 DEF Texts
    <3> QED BY <3>1, <3>2, ClosedApart
  <2> QED BY <2>1, <2>2
<1>2. ASSUME NEW r \in Seq(W), NEW h \in W, r \in T PROVE <<h>> \o r \in T
  <2>0. <<h>> \o r \in Seq(W) /\ r \in Texts /\ h \in Text /\ Alone(r, W, c)
    BY <1>0, <1>2 DEF Texts
  <2> SUFFICES ASSUME NEW t \in Seq(W), NEW sep \in Separators, NEW x \in Text, NEW y \in Text,
                      Closed(sep, <<h>> \o r, c, x) = Closed(sep, t, c, y)
               PROVE  <<h>> \o r = t /\ x = y
    BY <2>0 DEF Alone
  <2>1. CASE t = <<>>
    BY <2>0, <2>1, ClosedApart
  <2>2. CASE t # <<>>
    <3>1. PICK g \in W, q \in Seq(W) : t = <<g>> \o q
      BY <2>2, NotEmpty
    <3>2. q \in Texts /\ g \in Text /\ sep \in Text
      BY <1>0, SepText DEF Texts
    <3>3. PICK u \in Text : u = Closed(<<44>>, r, c, x) /\ Closed(sep, <<h>> \o r, c, x) = Before(sep, Before(h, u))
      BY <1>0, <2>0, ClosedCons
    <3>4. PICK v \in Text : v = Closed(<<44>>, q, c, y) /\ Closed(sep, t, c, y) = Before(sep, Before(g, v))
      BY <1>0, <3>1, <3>2, ClosedCons
    <3>5. Before(h, u) = Before(g, v)
      <4>1. PICK a \in Text, b \in Text : a = Before(h, u) /\ b = Before(g, v)
        BY <2>0, <3>2, BeforeText
      <4>2. Before(sep, a) = Before(sep, b)
        BY <3>3, <3>4, <4>1
      <4>3. a = b
        BY <3>2, <4>2, BeforeText
      <4> QED BY <4>1, <4>3
    <3>6. Ends(u) /\ Ends(v)
      BY <3>3, <3>4, ClosedEnds
    <3>7. h = g /\ u = v
      BY <3>5, <3>6 DEF Delimited
    <3>8. r = q /\ x = y
      <4>1. Closed(<<44>>, r, c, x) = Closed(<<44>>, q, c, y)
        BY <3>3, <3>4, <3>7
      <4>2. \A p \in Separators : Closed(p, r, c, x) = Closed(p, q, c, y) => r = q /\ x = y
        BY <2>0 DEF Alone
      <4> QED BY <1>0, <4>1, <4>2
    <3> QED BY <3>1, <3>7, <3>8
  <2> QED BY <2>1, <2>2
<1> HIDE DEF T
<1>3. \A s \in Seq(W) : s \in T
  BY <1>1, <1>2, ConsInduction
<1> QED BY <1>3 DEF T

-----------------------------------------------------------------------------
(* The first character of a value tells its type. *)

(* The values that are JSON, each as encoding/json makes it. *)
Json == {v \in Proper : Serializable[v]}
bare(v) == IF v.type = "other" THEN v.generic ELSE v

(* The parts of a value that is JSON are. *)
LEMMA JsonParts ==
    ASSUME NEW v \in Json
    PROVE  /\ v \in Proper /\ v \in Values /\ HasParts(v, Proper) /\ Serializable[v]
           /\ v.type = "list" => \A i \in DOMAIN v.items : v.items[i] \in Json
           /\ v.type = "object" => \A k \in DOMAIN v.members : v.members[k] \in Json
           /\ v.type = "other" => v.generic \in Json
<1>1. v \in Proper /\ v \in Values /\ HasParts(v, Proper) /\ Serializable[v]
  BY ProperParts DEF Json
<1>2. CASE v.type = "list"
  <2>1. v.items \in Seq(Proper) /\ \A i \in DOMAIN v.items : Serializable[v.items[i]]
    BY <1>1, <1>2, SerializableParts DEF HasParts
  <2> QED BY <1>1, <1>2, <2>1 DEF Json
<1>3. CASE v.type = "object"
  <2>1. v.members \in [DOMAIN v.members -> Proper] /\ \A k \in DOMAIN v.members : Serializable[v.members[k]]
    BY <1>1, <1>3, SerializableParts DEF HasParts
  <2> QED BY <1>1, <1>3, <2>1 DEF Json
<1>4. CASE v.type = "other"
  <2>1. v.generic \in Values /\ Serializable[v.generic]
    BY <1>1, <1>4, SerializableParts, ProperParts
  <2>2. v.generic.type # "unmarshalable"
    BY <2>1, SerializableIs DEF SerializableOf
  <2> QED BY <1>1, <1>4, <2>1, <2>2 DEF Json, Proper
<1> QED BY <1>1, <1>2, <1>3, <1>4

Kinds == {"null", "bool", "string", "list", "object"}
Numbers == {"integer", "float", "number"}

(* A value is written, and means, what encoding/json makes of it. *)
LEMMA Bare ==
    ASSUME Readable, NEW v \in Json
    PROVE  /\ bare(v) \in Json /\ bare(v).type \in Kinds \cup Numbers
           /\ Depth[bare(v)] \in Nat /\ Depth[v] \in Nat /\ Depth[bare(v)] <= Depth[v]
           /\ Reference[bare(v)] = Reference[v] /\ Meaning[bare(v)] = Meaning[v]
<1>1. v \in Proper /\ v \in Values /\ v.type \in Types /\ Serializable[v]
  BY JsonParts, ProperParts
<1>2. CASE v.type = "other"
  <2>1. v.generic \in Json /\ v.generic \in Values /\ v.generic.type # "unmarshalable"
    BY <1>2, JsonParts DEF Json, Proper
  <2>2. v.generic \in Generic
    BY <1>1, <1>2, <2>1, ProperParts
  <2>3. v.generic.type \in GenericTypes
    BY <2>2, GenericAssumption
  <2>4. v.generic.type \in Kinds \cup Numbers
    BY <2>3 DEF GenericTypes, Kinds, Numbers
  <2>5. Depth[v.generic] \in Nat /\ Depth[v] \in Nat /\ Depth[v.generic] <= Depth[v]
    BY <1>1, <1>2, SubvalueLower DEF Subvalue
  <2>6. Reference[v.generic] = Reference[v]
    BY <1>1, <1>2, ReferenceParts
  <2>7. Meaning[v.generic] = Meaning[v]
    BY <1>1, <1>2, MeaningIs DEF MeaningOf
  <2> QED BY <1>2, <2>1, <2>4, <2>5, <2>6, <2>7 DEF bare
<1>3. CASE v.type # "other"
  <2>1. v.type \notin {"bytes", "nan", "unmarshalable"}
    BY <1>1, SerializableIs DEF SerializableOf
  <2>2. v.type \in Kinds \cup Numbers
    BY <1>1, <1>3, <2>1 DEF Types, GenericTypes, Kinds, Numbers
  <2>3. Depth[v] \in Nat
    BY <1>1, DepthAssumption
  <2> QED BY <1>3, <2>2, <2>3 DEF bare
<1> QED BY <1>2, <1>3

(* The first character tells what kind of value it is. *)
Opening(v) ==
    CASE v.type = "null" -> {110}
      [] v.type = "bool" -> {IF v.b THEN 116 ELSE 102}
      [] v.type = "string" -> {34}
      [] v.type = "list" -> {91}
      [] v.type = "object" -> {123}
      [] OTHER -> 45..57

number(v) == IF v.type = "integer" THEN v.n ELSE v.halves \div 2

(* Every number is written as its integer, and means it. *)
LEMMA NumberIs ==
    ASSUME Readable, NEW v \in Json, v.type \in Numbers
    PROVE  /\ number(v) \in Int /\ Reference[v] = formatInt(number(v))
           /\ Meaning[v] = [type |-> "number", n |-> number(v)]
<1>1. v \in Values /\ HasParts(v, Proper) /\ Serializable[v]
  BY JsonParts
<1>2. v.type = "number" => v.literal # "malformed"
  BY <1>1, SerializableIs DEF SerializableOf
<1>3. v.type \in {"float", "number"} => v.halves \in Int
  BY <1>1, <1>2 DEF HasParts
<1>4. number(v) \in Int
  <2>1. CASE v.type = "integer"
    BY <1>1, <2>1 DEF HasParts, number
  <2>2. CASE v.type \in {"float", "number"}
    <3>1. v.halves \div 2 \in Int
      BY <1>3, <2>2
    <3> QED BY <2>2, <3>1 DEF number
  <2> QED BY <2>1, <2>2 DEF Numbers
<1>5. Reference[v] = formatInt(number(v))
  <2>1. Reference[v] = text(v)
    BY <1>1, ReferenceParts DEF Numbers
  <2>2. text(v) = formatInt(number(v))
    BY DEF text, number, Numbers
  <2> QED BY <2>1, <2>2
<1>6. Meaning[v] = [type |-> "number", n |-> number(v)]
  BY <1>1, MeaningIs DEF MeaningOf, number, Numbers
<1> QED BY <1>4, <1>5, <1>6

(* A string begins with a quote. *)
LEMMA WrittenFirst ==
    ASSUME NEW s, IsString(s)
    PROVE  writeEscaped(s) \in Text /\ writeEscaped(s) # <<>> /\ First(writeEscaped(s)) = 34
<1>1. PICK c \in Text : c = Coded(EscapeCode, runes(s))
  BY CodedType, EscapeCodeType, RunesReading
<1>2. PICK q \in Text : q = <<34>> /\ q # <<>> /\ First(q) = 34
  <2>1. <<34>> \in Text /\ <<34>> # <<>> /\ First(<<34>>) = 34
    BY DEF Text, First
  <2> QED BY <2>1
<1>3. writeEscaped(s) = Before(Before(q, c), q)
  BY <1>1, <1>2, EscapedCoded, Zenon DEF Before
<1>4. Before(Before(q, c), q) = Before(q, Before(c, q)) /\ Before(c, q) \in Text
  BY BeforeText
<1>5. PICK w \in Text : w = Before(c, q)
  BY <1>4
<1>6. Before(q, w) \in Text /\ Before(q, w) # <<>> /\ First(Before(q, w)) = First(q)
  BY <1>2, BeforeText, BeforeFirst
<1> QED BY <1>2, <1>3, <1>4, <1>5, <1>6, Zenon

(* What is in brackets begins with one. *)
LEMMA BracketFirst ==
    ASSUME NEW l \in Nat, NEW r \in Nat, NEW texts \in Texts
    PROVE  LET t == <<l>> \o separated(texts) \o <<r>>
           IN t \in Text /\ t # <<>> /\ First(t) = l
<1>1. PICK q \in Text : q = <<l>> /\ q # <<>> /\ First(q) = l
  BY OneText
<1>2. PICK c \in Text : c = <<r>>
  BY OneText
<1>3. PICK s \in Text : s = separated(texts)
  <2>1. <<>> \in Separators
    BY DEF Separators
  <2> QED BY <2>1, SeparatedListed, ListedText
<1>4. <<l>> \o separated(texts) \o <<r>> = Before(Before(q, s), c)
  BY <1>1, <1>2, <1>3, Zenon DEF Before
<1>5. Before(Before(q, s), c) = Before(q, Before(s, c)) /\ Before(s, c) \in Text
  BY BeforeText
<1>6. PICK w \in Text : w = Before(s, c)
  BY <1>5
<1>7. Before(q, w) \in Text /\ Before(q, w) # <<>> /\ First(Before(q, w)) = First(q)
  BY <1>1, BeforeText, BeforeFirst
<1> QED BY <1>1, <1>4, <1>5, <1>6, <1>7, Zenon

(* An integer begins with a digit or a sign. *)
LEMMA FormatFirst ==
    ASSUME NEW n \in Int
    PROVE  formatInt(n) \in Text /\ formatInt(n) # <<>> /\ First(formatInt(n)) \in 45..57
<1>1. PICK s \in Seq(45..57) : s = formatInt(n) /\ s \in Text /\ s # <<>>
  BY FormatType
<1>2. s[1] \in 45..57
  BY <1>1
<1> QED BY <1>1, <1>2 DEF First

(* A value begins with a character of its type. *)
LEMMA ReferenceOpens ==
    ASSUME Readable, NEW v \in Json, v.type \in Kinds \cup Numbers
    PROVE  Reference[v] \in Text /\ Reference[v] # <<>> /\ First(Reference[v]) \in Opening(v)
<1>1. v \in Proper /\ v \in Values /\ HasParts(v, Proper) /\ Serializable[v]
  BY JsonParts
<1>2. CASE v.type = "null"
  <2>1. Reference[v] = null
    BY <1>1, <1>2, ReferenceParts DEF text
  <2> QED BY <1>2, <2>1 DEF null, Text, First, Opening
<1>3. CASE v.type = "bool"
  <2>1. v.b \in BOOLEAN /\ Reference[v] = IF v.b THEN true ELSE false
    BY <1>1, <1>3, ReferenceParts DEF text, HasParts
  <2>2. CASE v.b
    <3>1. true \in Text /\ true # <<>> /\ First(true) = 116
      BY DEF true, Text, First
    <3> QED BY <1>3, <2>1, <2>2, <3>1 DEF Opening
  <2>3. CASE ~v.b
    <3>1. false \in Text /\ false # <<>> /\ First(false) = 102
      BY DEF false, Text, First
    <3> QED BY <1>3, <2>1, <2>3, <3>1 DEF Opening
  <2> QED BY <2>2, <2>3
<1>4. CASE v.type = "string"
  <2>1. IsString(v.s) /\ Reference[v] = writeEscaped(v.s)
    BY <1>1, <1>4, ReferenceParts DEF text, HasParts
  <2> QED BY <1>4, <2>1, WrittenFirst DEF Opening
<1>5. CASE v.type = "list"
  <2>1. v.items \in Seq(Proper) /\ \A i \in DOMAIN v.items : Serializable[v.items[i]]
    BY <1>1, <1>5, SerializableParts DEF HasParts
  <2>2. PICK texts \in Texts : texts = itemTexts(v.items)
    BY <2>1, ItemsText
  <2>3. Reference[v] = <<91>> \o separated(texts) \o <<93>>
    BY <1>1, <1>5, <2>2, ReferenceParts
  <2>4. LET t == <<91>> \o separated(texts) \o <<93>> IN t \in Text /\ t # <<>> /\ First(t) = 91
    BY BracketFirst
  <2>5. Opening(v) = {91}
    BY <1>5 DEF Opening
  <2> QED BY <2>3, <2>4, <2>5
<1>6. CASE v.type = "object"
  <2>1. /\ NameSet(DOMAIN v.members) /\ v.members \in [DOMAIN v.members -> Proper]
        /\ \A k \in DOMAIN v.members : Serializable[v.members[k]]
    BY <1>1, <1>6, SerializableParts, MemberNames
  <2>2. PICK texts \in Texts : texts = memberTexts(v.members, sorted(DOMAIN v.members))
    BY <2>1, MembersText
  <2>3. Reference[v] = <<123>> \o separated(texts) \o <<125>>
    BY <1>1, <1>6, <2>2, ReferenceParts
  <2>4. LET t == <<123>> \o separated(texts) \o <<125>> IN t \in Text /\ t # <<>> /\ First(t) = 123
    BY BracketFirst
  <2>5. Opening(v) = {123}
    BY <1>6 DEF Opening
  <2> QED BY <2>3, <2>4, <2>5
<1>7. CASE v.type \in Numbers
  <2>1. number(v) \in Int /\ Reference[v] = formatInt(number(v))
    BY <1>7, NumberIs
  <2>2. Opening(v) = 45..57
    BY <1>7 DEF Opening, Numbers
  <2> QED BY <2>1, <2>2, FormatFirst
<1> QED BY <1>2, <1>3, <1>4, <1>5, <1>6, <1>7 DEF Kinds

(* The first character tells the types apart, except those of numbers, and true from false. *)
LEMMA SameKind ==
    ASSUME NEW v, NEW w, v.type \in Kinds \cup Numbers, w.type \in Kinds \cup Numbers,
           v.type = "bool" => v.b \in BOOLEAN, w.type = "bool" => w.b \in BOOLEAN,
           NEW c, c \in Opening(v), c \in Opening(w)
    PROVE  /\ v.type = w.type \/ (v.type \in Numbers /\ w.type \in Numbers)
           /\ v.type = "bool" => v.b = w.b
           /\ c \notin {44, 93, 125}
<1>1. \/ v.type = "null" /\ c = 110
      \/ v.type = "bool" /\ c = (IF v.b THEN 116 ELSE 102)
      \/ v.type = "string" /\ c = 34
      \/ v.type = "list" /\ c = 91
      \/ v.type = "object" /\ c = 123
      \/ v.type \in Numbers /\ c \in 45..57
  BY DEF Kinds, Numbers, Opening
<1>2. \/ w.type = "null" /\ c = 110
      \/ w.type = "bool" /\ c = (IF w.b THEN 116 ELSE 102)
      \/ w.type = "string" /\ c = 34
      \/ w.type = "list" /\ c = 91
      \/ w.type = "object" /\ c = 123
      \/ w.type \in Numbers /\ c \in 45..57
  BY DEF Kinds, Numbers, Opening
<1> QED BY <1>1, <1>2 DEF Numbers

-----------------------------------------------------------------------------
(* Members that are told from what follows them. *)

(* What comes before or after the same text is the same. *)
LEMMA BeforeCancel ==
    ASSUME NEW x \in Text, NEW y \in Text, NEW z \in Text
    PROVE  /\ Before(x, y) = Before(x, z) => y = z
           /\ Before(y, x) = Before(z, x) => y = z
<1>1. Before(x, y) = Before(x, z) => y = z
  BY TextCancel DEF Before
<1>2. Before(y, x) = Before(z, x) => y = z
  BY ConcatSimplifications DEF Text, Before
<1> QED BY <1>1, <1>2

(* Four texts, put together in two ways. *)
LEMMA BeforeFour ==
    ASSUME NEW p \in Text, NEW c \in Text, NEW a \in Text, NEW x \in Text
    PROVE  Before(Before(Before(p, c), a), x) = Before(p, Before(c, Before(a, x)))
  BY BeforeText

(* Values whose meaning is told by their bytes, whatever comes after them. *)
Told(J) ==
    \A v, w \in J : \A x, y :
        Ends(x) /\ Ends(y) /\ Before(Reference[v], x) = Before(Reference[w], y) =>
            Meaning[v] = Meaning[w] /\ x = y

(* A value does not begin as what ends one. *)
LEMMA ReferenceShape ==
    ASSUME Readable, NEW v \in Json
    PROVE  Reference[v] \in Text /\ Reference[v] # <<>> /\ First(Reference[v]) \notin {44, 93, 125}
<1>1. PICK b \in Json : b = bare(v) /\ b.type \in Kinds \cup Numbers /\ Reference[b] = Reference[v]
  BY Bare
<1>2. Reference[b] \in Text /\ Reference[b] # <<>> /\ First(Reference[b]) \in Opening(b)
  BY <1>1, ReferenceOpens
<1>3. b.type = "bool" => b.b \in BOOLEAN
  BY JsonParts DEF HasParts
<1>4. First(Reference[b]) \notin {44, 93, 125}
  BY <1>1, <1>2, <1>3, SameKind
<1> QED BY <1>1, <1>2, <1>4

(* A value may be followed by nothing. *)
LEMMA EmptyEnds == Ends(<<>>)
  BY TextEmpty DEF Ends

(* Two values of the same bytes mean the same, if their meaning is told by them. *)
LEMMA SameText ==
    ASSUME Readable, NEW J \in SUBSET Json, Told(J), NEW v \in J, NEW w \in J, Reference[v] = Reference[w]
    PROVE  Meaning[v] = Meaning[w]
<1>1. PICK e : e = <<>> /\ Ends(e)
  BY EmptyEnds
<1>2. Before(Reference[v], e) = Before(Reference[w], e)
  OBVIOUS
<1> QED BY <1>1, <1>2 DEF Told

(* Values whose meaning is told are told from what follows them. *)
LEMMA ReferencesDelimited ==
    ASSUME Readable, NEW J \in SUBSET Json, Told(J)
    PROVE  Delimited({Reference[v] : v \in J})
<1>1. ASSUME NEW v \in J
      PROVE  Reference[v] \in Text /\ Reference[v] # <<>> /\ First(Reference[v]) \notin {44, 93, 125}
  BY ReferenceShape
<1>2. ASSUME NEW v \in J, NEW w \in J, NEW x, NEW y, Ends(x), Ends(y),
             Before(Reference[v], x) = Before(Reference[w], y)
      PROVE  Reference[v] = Reference[w] /\ x = y
  <2>1. x = y /\ x \in Text
    BY <1>2, SMTT(30) DEF Told, Ends
  <2>2. Before(Reference[v], x) = Before(Reference[w], x)
    BY <1>2, <2>1
  <2>3. PICK a \in Text, b \in Text : a = Reference[v] /\ b = Reference[w]
    BY <1>1
  <2>4. a = b
    BY <2>1, <2>2, <2>3, BeforeCancel
  <2> QED BY <2>1, <2>3, <2>4
<1>3. \A a \in {Reference[v] : v \in J} : a \in Text /\ a # <<>> /\ First(a) \notin {44, 93, 125}
  BY <1>1
<1>4. ASSUME NEW a \in {Reference[v] : v \in J}, NEW b \in {Reference[v] : v \in J}, NEW x, NEW y,
             Ends(x), Ends(y), Before(a, x) = Before(b, y)
      PROVE  a = b /\ x = y
  <2>1. PICK v \in J, w \in J : a = Reference[v] /\ b = Reference[w]
    OBVIOUS
  <2>2. Before(Reference[v], x) = Before(Reference[w], y)
    BY <1>4, <2>1
  <2> QED BY <1>2, <1>4, <2>1, <2>2
<1> QED BY <1>3, <1>4 DEF Delimited

(* A member of an object, told by its name and its value. *)
Member(k, v) == Before(Before(writeEscaped(k), <<58>>), Reference[v])

(* A member tells its name and what its value means. *)
LEMMA MemberTold ==
    ASSUME Readable, NEW J \in SUBSET Json, Told(J), NEW v \in J, NEW w \in J,
           NEW k, IsString(k), NEW m, IsString(m), NEW x, NEW y, Ends(x), Ends(y),
           Before(Member(k, v), x) = Before(Member(m, w), y)
    PROVE  runes(k) = runes(m) /\ Meaning[v] = Meaning[w] /\ x = y
<1>1. PICK p \in Text, q \in Text : p = writeEscaped(k) /\ q = writeEscaped(m)
  BY QuotedText
<1>2. PICK c \in Text : c = <<58>>
  BY OneText
<1>3. PICK a \in Text, b \in Text : a = Reference[v] /\ b = Reference[w]
  BY ReferenceShape
<1>4. x \in Text /\ y \in Text
  BY DEF Ends
<1>5. PICK f \in Text, g \in Text : f = Before(a, x) /\ g = Before(b, y)
  BY <1>4, BeforeText
<1>6. PICK d \in Text, e \in Text : d = Before(c, f) /\ e = Before(c, g)
  BY BeforeText
<1>7. Before(Before(Before(p, c), a), x) = Before(p, d)
  BY <1>4, <1>5, <1>6, BeforeFour
<1>8. Before(Before(Before(q, c), b), y) = Before(q, e)
  BY <1>4, <1>5, <1>6, BeforeFour
<1>9. Before(p, d) = Before(q, e)
  BY <1>1, <1>2, <1>3, <1>7, <1>8, Zenon DEF Member
<1>10. runes(k) = runes(m) /\ d = e
  BY <1>1, <1>9, WrittenApart
<1>11. f = g
  BY <1>6, <1>10, BeforeCancel
<1>12. Before(Reference[v], x) = Before(Reference[w], y)
  BY <1>3, <1>5, <1>11
<1>13. Meaning[v] = Meaning[w] /\ x = y
  BY <1>12, Zenon DEF Told
<1> QED BY <1>10, <1>13

MemberWords(J) == {Member(k, v) : k \in Names, v \in J}

(* Members are told from what follows them. *)
LEMMA MembersDelimited ==
    ASSUME Readable, NEW J \in SUBSET Json, Told(J)
    PROVE  Delimited(MemberWords(J))
<1>1. ASSUME NEW v \in J, NEW k \in Names
      PROVE  Member(k, v) \in Text /\ Member(k, v) # <<>> /\ First(Member(k, v)) \notin {44, 93, 125}
  <2>1. PICK p \in Text : p = writeEscaped(k) /\ p # <<>> /\ First(p) = 34
    BY WrittenFirst DEF Names
  <2>2. PICK c \in Text : c = <<58>>
    BY OneText
  <2>3. PICK a \in Text : a = Reference[v]
    BY ReferenceShape
  <2>4. PICK z \in Text : z = Before(c, a)
    BY BeforeText
  <2>5. Before(p, z) \in Text /\ Before(p, z) # <<>> /\ First(Before(p, z)) = First(p)
    BY <2>1, BeforeText, BeforeFirst
  <2>6. Before(Before(p, c), a) = Before(p, z)
    BY <2>4, BeforeText
  <2>7. Member(k, v) = Before(p, z)
    BY <2>1, <2>2, <2>3, <2>6, Zenon DEF Member
  <2> QED BY <2>1, <2>5, <2>7
<1>2. ASSUME NEW v \in J, NEW w \in J, NEW k \in Names, NEW m \in Names, NEW x, NEW y, Ends(x), Ends(y),
             Before(Member(k, v), x) = Before(Member(m, w), y)
      PROVE  Member(k, v) = Member(m, w) /\ x = y
  <2>1. x = y
    BY <1>2, MemberTold DEF Names
  <2>2. PICK a \in Text, b \in Text : a = Member(k, v) /\ b = Member(m, w)
    BY <1>1
  <2>3. a = b
    BY <1>2, <2>1, <2>2, BeforeCancel DEF Ends
  <2> QED BY <2>1, <2>2, <2>3
<1>3. \A a \in MemberWords(J) : a \in Text /\ a # <<>> /\ First(a) \notin {44, 93, 125}
  BY <1>1 DEF MemberWords
<1>4. ASSUME NEW a \in MemberWords(J), NEW b \in MemberWords(J), NEW x, NEW y,
             Ends(x), Ends(y), Before(a, x) = Before(b, y)
      PROVE  a = b /\ x = y
  <2>1. PICK v \in J, k \in Names : a = Member(k, v)
    BY DEF MemberWords
  <2>2. PICK w \in J, m \in Names : b = Member(m, w)
    BY DEF MemberWords
  <2>3. Before(Member(k, v), x) = Before(Member(m, w), y)
    BY <1>4, <2>1, <2>2
  <2> QED BY <1>2, <1>4, <2>1, <2>2, <2>3
<1> QED BY <1>3, <1>4 DEF Delimited

(* What comes after the opening bracket. *)
LEMMA Bracketed ==
    ASSUME NEW l \in Nat, NEW r \in Nat, NEW texts \in Texts, NEW x \in Text
    PROVE  /\ Before(<<l>> \o separated(texts) \o <<r>>, x) = Before(<<l>>, Closed(<<>>, texts, r, x))
           /\ Closed(<<>>, texts, r, x) \in Text
<1>1. PICK q \in Text, c \in Text : q = <<l>> /\ c = <<r>>
  BY OneText
<1>2. PICK s \in Text : s = separated(texts) /\ s = listed(<<>>, texts)
  <2>1. <<>> \in Separators
    BY DEF Separators
  <2> QED BY <2>1, SeparatedListed, ListedText
<1>3. Before(Before(Before(q, s), c), x) = Before(q, Before(s, Before(c, x))) /\ Before(s, Before(c, x)) \in Text
  BY BeforeText
<1>4. <<l>> \o separated(texts) \o <<r>> = Before(Before(q, s), c)
  BY <1>1, <1>2, Zenon DEF Before
<1>5. Closed(<<>>, texts, r, x) = Before(s, Before(c, x))
  BY <1>1, <1>2, Zenon DEF Closed
<1> QED BY <1>1, <1>3, <1>4, <1>5, Zenon

(* Two of the same kind that are written alike have the same elements. *)
LEMMA BracketedApart ==
    ASSUME NEW l \in Nat, NEW r \in {93, 125}, NEW W, Delimited(W), NEW s \in Seq(W), NEW t \in Seq(W),
           NEW x \in Text, NEW y \in Text,
           Before(<<l>> \o separated(s) \o <<r>>, x) = Before(<<l>> \o separated(t) \o <<r>>, y)
    PROVE  s = t /\ x = y
<1>1. s \in Texts /\ t \in Texts /\ r \in Nat
  BY DEF Delimited, Texts
<1>2. PICK a \in Text, b \in Text : a = Closed(<<>>, s, r, x) /\ b = Closed(<<>>, t, r, y)
  BY <1>1, Bracketed
<1>3. PICK q \in Text : q = <<l>>
  BY OneText
<1>4. Before(q, a) = Before(q, b)
  BY <1>1, <1>2, <1>3, Bracketed
<1>5. a = b
  BY <1>4, BeforeCancel
<1>6. Alone(s, W, r) /\ <<>> \in Separators
  BY ListsApart DEF Separators
<1>7. \A p \in Separators : Closed(p, s, r, x) = Closed(p, t, r, y) => s = t /\ x = y
  BY <1>6 DEF Alone
<1> QED BY <1>2, <1>5, <1>6, <1>7

-----------------------------------------------------------------------------
(* Lists and values without parts tell what they mean. *)

PartsIn(v, J) ==
    /\ v.type = "list" => \A i \in DOMAIN v.items : v.items[i] \in J
    /\ v.type = "object" => \A k \in DOMAIN v.members : v.members[k] \in J

(* A list tells what it means if its items do. *)
LEMMA ListsTold ==
    ASSUME Readable, NEW J \in SUBSET Json, Told(J), NEW v \in Json, NEW w \in Json,
           v.type = "list", w.type = "list", PartsIn(v, J), PartsIn(w, J),
           NEW x, NEW y, Ends(x), Ends(y), Before(Reference[v], x) = Before(Reference[w], y)
    PROVE  Meaning[v] = Meaning[w] /\ x = y
<1> DEFINE W == {Reference[p] : p \in J}
<1>1. Delimited(W)
  BY ReferencesDelimited
<1> HIDE DEF W
<1>2. ASSUME NEW u \in Json, u.type = "list", PartsIn(u, J)
      PROVE  /\ u \in Values /\ u.items \in Seq(Proper) /\ itemTexts(u.items) \in Seq(W)
             /\ Reference[u] = <<91>> \o separated(itemTexts(u.items)) \o <<93>>
             /\ Meaning[u] = [type |-> "list", items |-> [i \in DOMAIN u.items |-> Meaning[u.items[i]]]]
  <2>1. u \in Values /\ u.items \in Seq(Proper)
    BY <1>2, JsonParts DEF HasParts
  <2>2. \A i \in DOMAIN u.items : Reference[u.items[i]] \in W
    BY <1>2 DEF PartsIn, W
  <2>3. itemTexts(u.items) \in Seq(W)
    <3>1. DOMAIN u.items = 1..Len(u.items) /\ Len(u.items) \in Nat
      BY <2>1
    <3>2. [i \in 1..Len(u.items) |-> Reference[u.items[i]]] \in Seq(W)
      BY <2>2, <3>1
    <3> QED BY <3>1, <3>2 DEF itemTexts
  <2>4. Reference[u] = <<91>> \o separated(itemTexts(u.items)) \o <<93>>
    BY <1>2, <2>1, ReferenceParts
  <2>5. Meaning[u] = [type |-> "list", items |-> [i \in DOMAIN u.items |-> Meaning[u.items[i]]]]
    BY <1>2, <2>1, MeaningIs DEF MeaningOf
  <2> QED BY <2>1, <2>3, <2>4, <2>5
<1>3. PICK s \in Seq(W), t \in Seq(W) : s = itemTexts(v.items) /\ t = itemTexts(w.items)
  BY <1>2
<1>4. Before(<<91>> \o separated(s) \o <<93>>, x) = Before(<<91>> \o separated(t) \o <<93>>, y)
  BY <1>2, <1>3, Zenon
<1>5. s = t /\ x = y
  <2>1. x \in Text /\ y \in Text /\ 91 \in Nat /\ 93 \in {93, 125}
    BY DEF Ends
  <2> QED BY <1>1, <1>4, <2>1, BracketedApart
<1>6. DOMAIN v.items = DOMAIN w.items
  <2>1. DOMAIN s = DOMAIN v.items /\ DOMAIN t = DOMAIN w.items
    BY <1>3 DEF itemTexts
  <2> QED BY <1>5, <2>1
<1>7. ASSUME NEW i \in DOMAIN v.items PROVE Meaning[v.items[i]] = Meaning[w.items[i]]
  <2>1. v.items[i] \in J /\ w.items[i] \in J
    BY <1>6 DEF PartsIn
  <2>2. s[i] = Reference[v.items[i]] /\ t[i] = Reference[w.items[i]]
    BY <1>3, <1>6 DEF itemTexts
  <2> QED BY <1>5, <2>1, <2>2, SameText
<1>8. [i \in DOMAIN v.items |-> Meaning[v.items[i]]] = [i \in DOMAIN w.items |-> Meaning[w.items[i]]]
  BY <1>6, <1>7
<1>9. Meaning[v] = [type |-> "list", items |-> [i \in DOMAIN v.items |-> Meaning[v.items[i]]]]
  BY <1>2
<1>10. Meaning[w] = [type |-> "list", items |-> [i \in DOMAIN w.items |-> Meaning[w.items[i]]]]
  BY <1>2
<1> QED BY <1>5, <1>8, <1>9, <1>10

(* A value without parts tells what it means. *)
LEMMA ScalarsTold ==
    ASSUME Readable, NEW v \in Json, NEW w \in Json,
           v.type \in Kinds \cup Numbers, w.type \in Kinds \cup Numbers, v.type \notin {"list", "object"},
           v.type = w.type \/ (v.type \in Numbers /\ w.type \in Numbers), v.type = "bool" => v.b = w.b,
           NEW x, NEW y, Ends(x), Ends(y), Before(Reference[v], x) = Before(Reference[w], y)
    PROVE  Meaning[v] = Meaning[w] /\ x = y
<1>1. /\ v \in Values /\ HasParts(v, Proper) /\ w \in Values /\ HasParts(w, Proper)
      /\ x \in Text /\ y \in Text
  BY JsonParts DEF Ends
<1>2. CASE v.type \in {"null", "bool"}
  <2>1. Reference[v] = Reference[w]
    <3>1. Reference[v] = text(v) /\ Reference[w] = text(w) /\ w.type = v.type
      BY <1>1, <1>2, ReferenceParts DEF Numbers
    <3>2. text(v) = text(w)
      BY <1>2, <3>1 DEF text
    <3> QED BY <3>1, <3>2
  <2>2. PICK a \in Text : a = Reference[v]
    BY ReferenceShape
  <2>3. Before(a, x) = Before(a, y)
    BY <2>1, <2>2
  <2>4. x = y
    BY <1>1, <2>3, BeforeCancel
  <2>5. w.type = v.type
    BY <1>2 DEF Numbers
  <2>6. CASE v.type = "null"
    <3>1. Meaning[v] = [type |-> v.type] /\ Meaning[w] = [type |-> w.type]
      BY <1>1, <2>5, <2>6, MeaningIs DEF MeaningOf
    <3> QED BY <2>4, <2>5, <3>1
  <2>7. CASE v.type = "bool"
    <3>1. Meaning[v] = [type |-> "bool", b |-> v.b] /\ Meaning[w] = [type |-> "bool", b |-> w.b]
      BY <1>1, <2>5, <2>7, MeaningIs DEF MeaningOf
    <3> QED BY <2>4, <2>7, <3>1
  <2> QED BY <1>2, <2>6, <2>7
<1>3. CASE v.type = "string"
  <2>1. w.type = "string"
    BY <1>3 DEF Numbers
  <2>2. /\ IsString(v.s) /\ IsString(w.s)
        /\ Reference[v] = writeEscaped(v.s) /\ Reference[w] = writeEscaped(w.s)
    BY <1>1, <1>3, <2>1, ReferenceParts DEF HasParts, text
  <2>3. Before(writeEscaped(v.s), x) = Before(writeEscaped(w.s), y)
    BY <2>2
  <2>4. runes(v.s) = runes(w.s) /\ x = y
    BY <1>1, <2>2, <2>3, WrittenApart
  <2>5. /\ Meaning[v] = [type |-> "string", s |-> runes(v.s)]
        /\ Meaning[w] = [type |-> "string", s |-> runes(w.s)]
    BY <1>1, <1>3, <2>1, MeaningIs DEF MeaningOf
  <2> QED BY <2>4, <2>5
<1>4. CASE v.type \in Numbers
  <2>1. w.type \in Numbers
    BY <1>4
  <2>2. /\ number(v) \in Int /\ Reference[v] = formatInt(number(v))
        /\ number(w) \in Int /\ Reference[w] = formatInt(number(w))
        /\ Meaning[v] = [type |-> "number", n |-> number(v)]
        /\ Meaning[w] = [type |-> "number", n |-> number(w)]
    BY <1>4, <2>1, NumberIs
  <2>3. NoFigure(x) /\ NoFigure(y)
    BY DEF Ends, First, NoFigure
  <2>4. Before(formatInt(number(v)), x) = Before(formatInt(number(w)), y)
    BY <2>2
  <2>5. number(v) = number(w) /\ x = y
    BY <2>2, <2>3, <2>4, IntegersApart
  <2> QED BY <2>2, <2>5
<1> QED BY <1>2, <1>3, <1>4 DEF Kinds

-----------------------------------------------------------------------------
(* Objects tell what they mean. *)

(* A function of names by what they read as. *)
byReading(members) ==
    [r \in {runes(k) : k \in DOMAIN members} |->
        Meaning[members[CHOOSE k \in DOMAIN members : runes(k) = r]]]

(* An object means a function of what its names read as. *)
LEMMA MeaningObject ==
    ASSUME NEW v \in Values, v.type = "object"
    PROVE  Meaning[v] = [type |-> "object", members |-> byReading(v.members)]
<1>1. Meaning[v] = MeaningOf(Meaning, v)
  BY MeaningIs
<1>2. MeaningOf(Meaning, v) = [type |-> "object", members |-> byReading(v.members)]
  BY DEF MeaningOf, byReading
<1> QED BY <1>1, <1>2

(* Each name has its value. *)
LEMMA ByReading ==
    ASSUME NEW members, NameSet(DOMAIN members), NEW k \in DOMAIN members
    PROVE  runes(k) \in DOMAIN byReading(members) /\ byReading(members)[runes(k)] = Meaning[members[k]]
<1>1. (CHOOSE m \in DOMAIN members : runes(m) = runes(k)) = k
  BY DEF NameSet
<1> QED BY <1>1 DEF byReading

(* There are no other names. *)
LEMMA ByReadingDomain ==
    ASSUME NEW members, NEW r \in DOMAIN byReading(members)
    PROVE  \E k \in DOMAIN members : r = runes(k)
  BY DEF byReading

(* Two objects whose members agree one by one mean the same. *)
LEMMA SameByReading ==
    ASSUME NEW f, NameSet(DOMAIN f), NEW g, NameSet(DOMAIN g),
           \A k \in DOMAIN f : \E m \in DOMAIN g : runes(k) = runes(m) /\ Meaning[f[k]] = Meaning[g[m]],
           \A m \in DOMAIN g : \E k \in DOMAIN f : runes(k) = runes(m) /\ Meaning[f[k]] = Meaning[g[m]]
    PROVE  byReading(f) = byReading(g)
<1>1. ASSUME NEW r \in DOMAIN byReading(f)
      PROVE  r \in DOMAIN byReading(g) /\ byReading(f)[r] = byReading(g)[r]
  <2>1. PICK k \in DOMAIN f : r = runes(k)
    BY ByReadingDomain
  <2>2. PICK m \in DOMAIN g : runes(k) = runes(m) /\ Meaning[f[k]] = Meaning[g[m]]
    OBVIOUS
  <2>3. byReading(f)[runes(k)] = Meaning[f[k]]
    BY ByReading
  <2>4. runes(m) \in DOMAIN byReading(g) /\ byReading(g)[runes(m)] = Meaning[g[m]]
    BY ByReading
  <2> QED BY <2>1, <2>2, <2>3, <2>4
<1>2. ASSUME NEW r \in DOMAIN byReading(g) PROVE r \in DOMAIN byReading(f)
  <2>1. PICK m \in DOMAIN g : r = runes(m)
    BY ByReadingDomain
  <2>2. PICK k \in DOMAIN f : runes(k) = runes(m)
    OBVIOUS
  <2>3. runes(k) \in DOMAIN byReading(f)
    BY ByReading
  <2> QED BY <2>1, <2>2, <2>3
<1>3. DOMAIN byReading(f) = DOMAIN byReading(g)
  BY <1>1, <1>2
<1>4. byReading(f) = [r \in DOMAIN byReading(f) |-> byReading(f)[r]]
  BY DEF byReading
<1>5. byReading(g) = [r \in DOMAIN byReading(g) |-> byReading(g)[r]]
  BY DEF byReading
<1> QED BY <1>1, <1>3, <1>4, <1>5

(* The members of an object, in their order. *)
LEMMA MembersInOrder ==
    ASSUME Readable, NEW J \in SUBSET Json, NEW v \in Json, v.type = "object", PartsIn(v, J)
    PROVE  /\ v \in Values /\ NameSet(DOMAIN v.members)
           /\ sorted(DOMAIN v.members) \in Seq(DOMAIN v.members)
           /\ \A k \in DOMAIN v.members :
                k \in Names /\ \E i \in DOMAIN sorted(DOMAIN v.members) : sorted(DOMAIN v.members)[i] = k
           /\ memberTexts(v.members, sorted(DOMAIN v.members)) \in Seq(MemberWords(J))
<1>1. v \in Values /\ NameSet(DOMAIN v.members)
  BY JsonParts, MemberNames
<1>2. PICK D : D = DOMAIN v.members
  OBVIOUS
<1>3. PICK s : s = sorted(D)
  OBVIOUS
<1>4. s \in Seq(D) /\ \A k \in D : \E i \in DOMAIN s : s[i] = k
  BY <1>1, <1>2, <1>3, SortedType
<1>5. \A k \in D : k \in Names
  BY <1>1, <1>2 DEF NameSet, Names, IsString
<1>6. memberTexts(v.members, s) \in Seq(MemberWords(J))
  <2>1. Len(s) \in Nat /\ DOMAIN s = 1..Len(s)
    BY <1>4
  <2>2. ASSUME NEW i \in 1..Len(s) PROVE Member(s[i], v.members[s[i]]) \in MemberWords(J)
    <3>1. s[i] \in D
      BY <1>4, <2>1
    <3>2. s[i] \in Names /\ v.members[s[i]] \in J
      BY <1>2, <1>5, <3>1 DEF PartsIn
    <3> QED BY <3>2 DEF MemberWords
  <2>3. [i \in 1..Len(s) |-> Member(s[i], v.members[s[i]])] \in Seq(MemberWords(J))
    BY <2>1, <2>2
  <2>4. memberTexts(v.members, s) = [i \in 1..Len(s) |-> Member(s[i], v.members[s[i]])]
    BY <2>1, Zenon DEF memberTexts, Member, Before
  <2> QED BY <2>3, <2>4
<1> QED BY <1>1, <1>2, <1>3, <1>4, <1>5, <1>6

(* An object tells what it means if its members do. *)
LEMMA ObjectsTold ==
    ASSUME Readable, NEW J \in SUBSET Json, Told(J), NEW v \in Json, NEW w \in Json,
           v.type = "object", w.type = "object", PartsIn(v, J), PartsIn(w, J),
           NEW x, NEW y, Ends(x), Ends(y), Before(Reference[v], x) = Before(Reference[w], y)
    PROVE  Meaning[v] = Meaning[w] /\ x = y
<1>1. PICK W : W = MemberWords(J) /\ Delimited(W)
  BY MembersDelimited
<1>2. PICK f, m : f = v.members /\ m = sorted(DOMAIN f)
  OBVIOUS
<1>3. PICK g, n : g = w.members /\ n = sorted(DOMAIN g)
  OBVIOUS
<1>4. /\ v \in Values /\ NameSet(DOMAIN f) /\ m \in Seq(DOMAIN f)
      /\ \A k \in DOMAIN f : k \in Names /\ \E i \in DOMAIN m : m[i] = k
      /\ memberTexts(f, m) \in Seq(W)
  BY <1>1, <1>2, MembersInOrder
<1>5. /\ w \in Values /\ NameSet(DOMAIN g) /\ n \in Seq(DOMAIN g)
      /\ \A k \in DOMAIN g : k \in Names /\ \E i \in DOMAIN n : n[i] = k
      /\ memberTexts(g, n) \in Seq(W)
  BY <1>1, <1>3, MembersInOrder
<1>6. PICK s \in Seq(W), t \in Seq(W) : s = memberTexts(f, m) /\ t = memberTexts(g, n)
  BY <1>4, <1>5
<1>7. Before(<<123>> \o separated(s) \o <<125>>, x) = Before(<<123>> \o separated(t) \o <<125>>, y)
  <2>1. Reference[v] = <<123>> \o separated(s) \o <<125>>
    BY <1>2, <1>4, <1>6, ReferenceParts
  <2>2. Reference[w] = <<123>> \o separated(t) \o <<125>>
    BY <1>3, <1>5, <1>6, ReferenceParts
  <2> QED BY <2>1, <2>2, Zenon
<1>8. s = t /\ x = y
  <2>1. x \in Text /\ y \in Text /\ 123 \in Nat /\ 125 \in {93, 125}
    BY DEF Ends
  <2> QED BY <1>1, <1>7, <2>1, BracketedApart
<1>9. DOMAIN m = DOMAIN n
  <2>1. DOMAIN s = DOMAIN m /\ DOMAIN t = DOMAIN n
    BY <1>6 DEF memberTexts
  <2> QED BY <1>8, <2>1
<1>10. ASSUME NEW i \in DOMAIN m
       PROVE  /\ m[i] \in DOMAIN f /\ n[i] \in DOMAIN g /\ runes(m[i]) = runes(n[i])
              /\ Meaning[f[m[i]]] = Meaning[g[n[i]]]
  <2>1. m[i] \in DOMAIN f /\ n[i] \in DOMAIN g
    BY <1>4, <1>5, <1>9
  <2>2. f[m[i]] \in J /\ g[n[i]] \in J /\ IsString(m[i]) /\ IsString(n[i])
    BY <1>2, <1>3, <1>4, <1>5, <2>1 DEF PartsIn, Names
  <2>3. s[i] = Member(m[i], f[m[i]])
    BY <1>6, Zenon DEF memberTexts, Member, Before
  <2>4. t[i] = Member(n[i], g[n[i]])
    BY <1>6, <1>9, Zenon DEF memberTexts, Member, Before
  <2>5. PICK e : e = <<>> /\ Ends(e)
    BY EmptyEnds
  <2>6. Before(Member(m[i], f[m[i]]), e) = Before(Member(n[i], g[n[i]]), e)
    BY <1>8, <2>3, <2>4
  <2>7. runes(m[i]) = runes(n[i]) /\ Meaning[f[m[i]]] = Meaning[g[n[i]]]
    BY <2>2, <2>5, <2>6, MemberTold
  <2> QED BY <2>1, <2>7
<1>11. \A k \in DOMAIN f : \E q \in DOMAIN g : runes(k) = runes(q) /\ Meaning[f[k]] = Meaning[g[q]]
  <2> SUFFICES ASSUME NEW k \in DOMAIN f
               PROVE  \E q \in DOMAIN g : runes(k) = runes(q) /\ Meaning[f[k]] = Meaning[g[q]]
    OBVIOUS
  <2>1. PICK i \in DOMAIN m : m[i] = k
    BY <1>4
  <2> QED BY <1>10, <2>1
<1>12. \A q \in DOMAIN g : \E k \in DOMAIN f : runes(k) = runes(q) /\ Meaning[f[k]] = Meaning[g[q]]
  BY <1>5, <1>9, <1>10
<1>13. byReading(f) = byReading(g)
  BY <1>4, <1>5, <1>11, <1>12, SameByReading
<1>14. Meaning[v] = [type |-> "object", members |-> byReading(f)]
  BY <1>2, <1>4, MeaningObject
<1>15. Meaning[w] = [type |-> "object", members |-> byReading(g)]
  BY <1>3, <1>5, MeaningObject
<1> QED BY <1>8, <1>13, <1>14, <1>15

-----------------------------------------------------------------------------
(* So does every value, by induction on its depth. *)

(* A value tells what it means if its parts do. *)
LEMMA BareTold ==
    ASSUME Readable, NEW J \in SUBSET Json, Told(J), NEW v \in Json, NEW w \in Json,
           v.type \in Kinds \cup Numbers, w.type \in Kinds \cup Numbers, PartsIn(v, J), PartsIn(w, J),
           NEW x, NEW y, Ends(x), Ends(y), Before(Reference[v], x) = Before(Reference[w], y)
    PROVE  Meaning[v] = Meaning[w] /\ x = y
<1>1. PICK a \in Text : a = Reference[v] /\ a # <<>> /\ First(a) \in Opening(v)
  BY ReferenceOpens
<1>2. PICK b \in Text : b = Reference[w] /\ b # <<>> /\ First(b) \in Opening(w)
  BY ReferenceOpens
<1>3. x \in Text /\ y \in Text
  BY DEF Ends
<1>4. First(Before(a, x)) = First(a) /\ First(Before(b, y)) = First(b)
  BY <1>1, <1>2, <1>3, BeforeFirst
<1>5. First(a) \in Opening(v) /\ First(a) \in Opening(w)
  BY <1>1, <1>2, <1>4
<1>6. (v.type = "bool" => v.b \in BOOLEAN) /\ (w.type = "bool" => w.b \in BOOLEAN)
  BY JsonParts DEF HasParts
<1>7. /\ v.type = w.type \/ (v.type \in Numbers /\ w.type \in Numbers)
      /\ v.type = "bool" => v.b = w.b
  BY <1>5, <1>6, SameKind
<1>8. CASE v.type = "list"
  BY <1>7, <1>8, ListsTold DEF Numbers
<1>9. CASE v.type = "object"
  BY <1>7, <1>9, ObjectsTold DEF Numbers
<1>10. CASE v.type \notin {"list", "object"}
  BY <1>7, <1>10, ScalarsTold
<1> QED BY <1>8, <1>9, <1>10

(* The values of less than a depth. *)
Below(n) == {v \in Json : Depth[v] < n}

(* So it goes from values of less than a depth to those of that depth. *)
LEMMA ToldDeeper ==
    ASSUME Readable, NEW n \in Nat, Told(Below(n))
    PROVE  Told(Below(n + 1))
<1> SUFFICES ASSUME NEW v \in Below(n + 1), NEW w \in Below(n + 1), NEW x, NEW y, Ends(x), Ends(y),
                    Before(Reference[v], x) = Before(Reference[w], y)
             PROVE  Meaning[v] = Meaning[w] /\ x = y
  BY DEF Told
<1>1. ASSUME NEW u \in Below(n + 1)
      PROVE  /\ bare(u) \in Json /\ bare(u).type \in Kinds \cup Numbers
             /\ Reference[bare(u)] = Reference[u] /\ Meaning[bare(u)] = Meaning[u]
             /\ PartsIn(bare(u), Below(n))
  <2>1. u \in Json /\ Depth[u] < n + 1
    BY DEF Below
  <2>2. /\ bare(u) \in Json /\ bare(u).type \in Kinds \cup Numbers
        /\ Depth[bare(u)] \in Nat /\ Depth[u] \in Nat /\ Depth[bare(u)] <= Depth[u]
        /\ Reference[bare(u)] = Reference[u] /\ Meaning[bare(u)] = Meaning[u]
    BY <2>1, Bare
  <2>3. PICK b \in Json : b = bare(u) /\ Depth[b] \in Nat /\ Depth[b] <= n
    BY <2>1, <2>2
  <2>4. b \in Values
    BY JsonParts
  <2>5. ASSUME b.type = "list", NEW i \in DOMAIN b.items PROVE b.items[i] \in Below(n)
    <3>1. Subvalue(b.items[i], b)
      BY <2>5 DEF Subvalue
    <3>2. Depth[b.items[i]] \in Nat /\ Depth[b.items[i]] < Depth[b]
      BY <2>4, <3>1, SubvalueLower
    <3>3. b.items[i] \in Json
      BY <2>5, JsonParts
    <3> QED BY <2>3, <3>2, <3>3 DEF Below
  <2>6. ASSUME b.type = "object", NEW k \in DOMAIN b.members PROVE b.members[k] \in Below(n)
    <3>1. Subvalue(b.members[k], b)
      BY <2>6 DEF Subvalue
    <3>2. Depth[b.members[k]] \in Nat /\ Depth[b.members[k]] < Depth[b]
      BY <2>4, <3>1, SubvalueLower
    <3>3. b.members[k] \in Json
      BY <2>6, JsonParts
    <3> QED BY <2>3, <3>2, <3>3 DEF Below
  <2>7. PartsIn(b, Below(n))
    BY <2>5, <2>6 DEF PartsIn
  <2> QED BY <2>2, <2>3, <2>7
<1>2. PICK p \in Json : p = bare(v) /\ p.type \in Kinds \cup Numbers /\ PartsIn(p, Below(n))
                        /\ Reference[p] = Reference[v] /\ Meaning[p] = Meaning[v]
  BY <1>1
<1>3. PICK q \in Json : q = bare(w) /\ q.type \in Kinds \cup Numbers /\ PartsIn(q, Below(n))
                        /\ Reference[q] = Reference[w] /\ Meaning[q] = Meaning[w]
  BY <1>1
<1>4. Before(Reference[p], x) = Before(Reference[q], y)
  BY <1>2, <1>3, Zenon
<1>5. Below(n) \in SUBSET Json
  BY DEF Below
<1>6. Meaning[p] = Meaning[q] /\ x = y
  BY <1>2, <1>3, <1>4, <1>5, BareTold
<1> QED BY <1>2, <1>3, <1>6

(* So every value that is JSON tells what it means. *)
LEMMA JsonTold == ASSUME Readable PROVE Told(Json)
<1> DEFINE T == {n \in Nat : Told(Below(n))}
<1>1. 0 \in T
  <2>1. ASSUME NEW v \in Json PROVE Depth[v] \in Nat
    BY JsonParts, DepthAssumption
  <2>2. Below(0) = {}
    BY <2>1 DEF Below
  <2> QED BY <2>2 DEF Told
<1>2. \A n \in Nat : n \in T => n + 1 \in T
  BY ToldDeeper
<1> HIDE DEF T
<1>3. \A n \in Nat : n \in T
  BY <1>1, <1>2, Digits!Induction
<1> SUFFICES ASSUME NEW v \in Json, NEW w \in Json, NEW x, NEW y, Ends(x), Ends(y),
                    Before(Reference[v], x) = Before(Reference[w], y)
             PROVE  Meaning[v] = Meaning[w] /\ x = y
  BY DEF Told
<1>4. PICK a \in Nat, b \in Nat : a = Depth[v] /\ b = Depth[w]
  BY JsonParts, DepthAssumption
<1>5. PICK n \in Nat : a < n /\ b < n
  <2>1. a < a + b + 1 /\ b < a + b + 1 /\ a + b + 1 \in Nat
    OBVIOUS
  <2> QED BY <2>1
<1>6. v \in Below(n) /\ w \in Below(n)
  BY <1>4, <1>5 DEF Below
<1>7. Told(Below(n))
  BY <1>3 DEF T
<1> QED BY <1>6, <1>7, Zenon DEF Told

(* When nothing is left, the bytes tell what the value means. *)
LEMMA TellsApart == ASSUME Readable PROVE WriterInv => Unambiguous
<1> SUFFICES ASSUME WriterInv, todo = <<>>, ~err, NEW v \in DOMAIN References, References[v] = buf
             PROVE  Meanings[v] = Meanings[value]
  BY DEF Unambiguous
<1>1. value \in Proper
  BY DocumentsAssumption DEF WriterInv, WriterType
<1>2. Serializable[value] /\ buf = Reference[value]
  BY WriterPins DEF Pinned
<1>3. v \in Values /\ Serializable[v] /\ Reference[v] = buf
  BY DEF References
<1>4. v.type # "unmarshalable"
  BY <1>3, SerializableIs DEF SerializableOf
<1>5. v \in Json /\ value \in Json
  BY <1>1, <1>2, <1>3, <1>4 DEF Json, Proper
<1>6. Json \in SUBSET Json /\ Told(Json)
  BY JsonTold
<1>7. Meaning[v] = Meaning[value]
  BY <1>2, <1>3, <1>5, <1>6, SameText
<1> QED BY <1>1, <1>3, <1>7 DEF Meanings, Proper

(* Two documents that are serialized alike mean the same: what is hashed tells *)
(* configurations apart, for documents of any size and depth whose objects     *)
(* have no two names that read as the same one.                                *)
THEOREM HashTellsApart == ASSUME Readable PROVE Spec => []Unambiguous
  BY WriterInvariant, TellsApart, PTL
=============================================================================
