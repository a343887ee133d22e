----------------------------- MODULE Recursion -----------------------------
(***************************************************************************)
(* Why a recursive function is what its definition says, and induction on   *)
(* the naturals, in a form for sets.  The operator that defines a function  *)
(* is a parameter of the module, to be given its value by INSTANCE.         *)
(***************************************************************************)
EXTENDS Integers, WellFoundedInduction, TLAPS

CONSTANTS
    Domain,     \* what the function is defined on
    rank,       \* of an argument, more than that of those it depends on
    Def(_, _)   \* Def(f, x): f[x], from the function itself

-----------------------------------------------------------------------------
(* Every set of naturals has a least element. *)
LEMMA Least ==
    ASSUME NEW T, T \subseteq Nat, T # {}
    PROVE  \E x \in T : \A y \in T : x <= y
<1> DEFINE R == {ss \in Nat \X Nat : ss[1] < ss[2]}
<1>1. IsWellFoundedOn(R, Nat)
  BY NatLessThanWellFounded, Zenon DEF OpToRel
<1>2. \A x, y \in Nat : y < x => <<y, x>> \in R
  OBVIOUS
<1> HIDE DEF R
<1>3. PICK x \in T : \A y \in T : ~ (<<y, x>> \in R)
  BY <1>1, WFMin
<1>4. ASSUME NEW y \in T PROVE x <= y
  <2>1. x \in Nat /\ y \in Nat
    OBVIOUS
  <2>2. ~(y < x)
    BY <1>2, <1>3, <2>1
  <2> QED
    BY <2>1, <2>2
<1> QED
  BY <1>4

(* A set that has 0 and the successor of each of its naturals has them all. *)
LEMMA Induction ==
    ASSUME NEW T, 0 \in T, \A n \in Nat : n \in T => n + 1 \in T
    PROVE  \A n \in Nat : n \in T
<1> SUFFICES ASSUME Nat \ T # {} PROVE FALSE
  OBVIOUS
<1>1. PICK n \in Nat \ T : \A m \in Nat \ T : n <= m
  BY Least
<1>2. n - 1 \in Nat /\ n - 1 \in T
  BY <1>1
<1> QED
  BY <1>1, <1>2

(* So has a set that has each natural below which it has all. *)
LEMMA StrongInduction ==
    ASSUME NEW T, \A n \in Nat : (\A m \in Nat : m < n => m \in T) => n \in T
    PROVE  \A n \in Nat : n \in T
<1> SUFFICES ASSUME Nat \ T # {} PROVE FALSE
  OBVIOUS
<1>1. PICK n \in Nat \ T : \A m \in Nat \ T : n <= m
  BY Least
<1>2. \A m \in Nat : m < n => m \in T
  BY <1>1
<1> QED
  BY <1>1, <1>2

-----------------------------------------------------------------------------
(* Def looks at the function only where the rank is lower. *)
Contracting ==
    /\ rank \in [Domain -> Nat]
    /\ \A x \in Domain : \A g, h :
         (\A y \in Domain : rank[y] < rank[x] => g[y] = h[y]) => Def(g, x) = Def(h, x)

Below(n) == {x \in Domain : rank[x] < n}

(* The function as far as rank n. *)
UpTo(g, n) == g = [x \in Below(n) |-> Def(g, x)]

LEMMA UpToExists ==
    ASSUME Contracting
    PROVE  \A n \in Nat : \E g : UpTo(g, n)
<1> DEFINE T == {n \in Nat : \E g : UpTo(g, n)}
<1>1. 0 \in T
  <2> DEFINE g == [x \in {} |-> x]
  <2>1. Below(0) = {}
    BY DEF Below, Contracting
  <2>2. g = [x \in Below(0) |-> Def(g, x)]
    BY <2>1
  <2> QED
    BY <2>2 DEF UpTo
<1>2. ASSUME NEW n \in Nat, n \in T PROVE n + 1 \in T
  <2>1. PICK g : UpTo(g, n)
    BY <1>2
  <2> DEFINE h == [x \in Below(n + 1) |-> Def(g, x)]
  <2>2. ASSUME NEW x \in Below(n + 1) PROVE Def(g, x) = Def(h, x)
    <3>1. x \in Domain /\ rank[x] \in Nat /\ rank[x] < n + 1
      BY DEF Below, Contracting
    <3>2. ASSUME NEW y \in Domain, rank[y] < rank[x] PROVE g[y] = h[y]
      <4>1. y \in Below(n) /\ y \in Below(n + 1)
        BY <3>1, <3>2 DEF Below, Contracting
      <4>2. g[y] = Def(g, y)
        BY <2>1, <4>1 DEF UpTo
      <4> QED
        BY <4>1, <4>2
    <3> HIDE DEF h
    <3> QED
      BY <3>1, <3>2 DEF Contracting
  <2>3. h = [x \in Below(n + 1) |-> Def(h, x)]
    BY <2>2
  <2>4. UpTo(h, n + 1)
    BY <2>3 DEF UpTo
  <2> HIDE DEF h
  <2> QED
    BY <2>4
<1> HIDE DEF T
<1>3. \A n \in Nat : n \in T
  BY <1>1, <1>2, Induction
<1> QED
  BY <1>3 DEF T

(* As far as two of them go they are the same. *)
LEMMA UpToAgree ==
    ASSUME Contracting, NEW m \in Nat, NEW n \in Nat, NEW g, UpTo(g, m), NEW h, UpTo(h, n)
    PROVE  \A x \in Below(m) \cap Below(n) : g[x] = h[x]
<1> DEFINE T == {k \in Nat : \A x \in Below(m) \cap Below(n) : rank[x] = k => g[x] = h[x]}
<1>1. ASSUME NEW k \in Nat, \A l \in Nat : l < k => l \in T PROVE k \in T
  <2> SUFFICES ASSUME NEW x \in Below(m) \cap Below(n), rank[x] = k PROVE g[x] = h[x]
    OBVIOUS
  <2>1. g[x] = Def(g, x) /\ h[x] = Def(h, x)
    BY DEF UpTo
  <2>2. ASSUME NEW y \in Domain, rank[y] < rank[x] PROVE g[y] = h[y]
    <3>1. y \in Below(m) \cap Below(n) /\ rank[y] \in Nat
      BY <2>2 DEF Below, Contracting
    <3>2. rank[y] \in T
      BY <1>1, <2>2, <3>1
    <3> QED
      BY <3>1, <3>2
  <2>3. x \in Domain
    BY DEF Below
  <2> QED
    BY <2>1, <2>2, <2>3 DEF Contracting
<1> HIDE DEF T
<1>2. \A k \in Nat : k \in T
  BY <1>1, StrongInduction
<1>3. \A x \in Below(m) \cap Below(n) : rank[x] \in Nat
  BY DEF Below, Contracting
<1> QED
  BY <1>2, <1>3 DEF T

(* The function a contracting definition defines exists. *)
THEOREM Recursive ==
    ASSUME Contracting
    PROVE  \E f : f = [x \in Domain |-> Def(f, x)]
<1> DEFINE part(n) == CHOOSE g : UpTo(g, n)
           f == [x \in Domain |-> part(rank[x] + 1)[x]]
<1>1. ASSUME NEW n \in Nat PROVE UpTo(part(n), n)
  BY UpToExists
<1> HIDE DEF part
<1>2. ASSUME NEW x \in Domain PROVE f[x] = Def(f, x)
  <2> DEFINE n == rank[x] + 1
             g == part(n)
  <2>1. n \in Nat /\ x \in Below(n)
    BY DEF Below, Contracting
  <2>2. UpTo(g, n) /\ g[x] = Def(g, x)
    BY <1>1, <2>1 DEF UpTo
  <2>3. ASSUME NEW y \in Domain, rank[y] < rank[x] PROVE g[y] = f[y]
    <3> DEFINE m == rank[y] + 1
    <3>1. m \in Nat /\ y \in Below(m) /\ y \in Below(n)
      BY <2>1, <2>3 DEF Below, Contracting
    <3>2. UpTo(part(m), m)
      BY <1>1, <3>1
    <3> QED
      BY <2>1, <2>2, <3>1, <3>2, UpToAgree
  <2> HIDE DEF g
  <2>4. Def(g, x) = Def(f, x)
    <3> HIDE DEF f
    <3> QED
      BY <2>3 DEF Contracting
  <2>5. f[x] = g[x]
    BY DEF g
  <2> QED
    BY <2>2, <2>4, <2>5
<1>3. f = [x \in Domain |-> Def(f, x)]
  BY <1>2
<1> QED
  BY <1>3
=============================================================================
