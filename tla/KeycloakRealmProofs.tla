------------------------- MODULE KeycloakRealmProofs -------------------------
(***************************************************************************)
(* Lemmas about the realm that the proofs about its users share: paths and *)
(* their prefixes, and what the changes of the realm preserve.  Keycloak   *)
(* never gives a group id a second path (PathsStay), so what was true of   *)
(* an id when it was looked up stays true.                                 *)
(***************************************************************************)
EXTENDS KeycloakRealm, SequenceTheorems, FiniteSetTheorems, TLAPS

(***************************************************************************)
(* Natural numbers: induction, as a statement about sets of numbers.       *)
(***************************************************************************)

\* A set of numbers that is not empty has a least one.
LEMMA LeastNumber ==
    ASSUME NEW T, T \subseteq Nat, T # {}
    PROVE  \E x \in T : \A y \in T : x <= y
<1>1. PICK x \in T : \A y \in T : ~ (<<y, x>> \in OpToRel(<, Nat))
  BY WFMin, NatLessThanWellFounded, Zenon
<1>2. \A y \in T : (<<y, x>> \in OpToRel(<, Nat)) <=> y < x
  BY Zenon DEF OpToRel
<1>3. \A y \in T : ~ (y < x)
  BY <1>1, <1>2, Zenon
<1>. HIDE <1>1, <1>2
<1>. QED
  BY ONLY T \subseteq Nat, x \in T, <1>3

\* A set that has 0, and with every number the next one, has all of them.
LEMMA AllNumbers ==
    ASSUME NEW T, 0 \in T, \A n \in Nat : n \in T => n + 1 \in T
    PROVE  Nat \subseteq T
<1>. SUFFICES ASSUME ~(Nat \subseteq T) PROVE FALSE
  OBVIOUS
<1>. DEFINE R == Nat \ T
<1>1. PICK x \in R : \A y \in R : x <= y
  BY LeastNumber
<1>2. x # 0 /\ x - 1 \in Nat /\ x - 1 \notin R
  BY <1>1
<1>. QED
  BY <1>1, <1>2

(***************************************************************************)
(* Paths.                                                                  *)
(***************************************************************************)

\* A prefix of a path is a path, and one longer than the parent's is itself.
LEMMA PathFacts ==
    ASSUME NEW p \in Path
    PROVE  /\ p \in Seq(Segment)
           /\ Len(p) \in Nat \ {0}
           /\ \A k \in 1..Len(p) : SubSeq(p, 1, k) \in Path /\ p[k] \in Segment
           /\ SubSeq(p, 1, Len(p)) = p
           /\ SubSeq(p, 1, 1) = <<p[1]>>
<1>1. p \in Seq(Segment) /\ Len(p) \in Nat \ {0}
  BY PathAssumption, LenProperties
<1>2. \A k \in 1..Len(p) : SubSeq(p, 1, k) \in Path /\ p[k] \in Segment
  BY PathAssumption, <1>1, ElementOfSeq
<1>3. SubSeq(p, 1, Len(p)) = p
  BY <1>1, SubSeqFull
<1>4. SubSeq(p, 1, 1) = <<p[1]>>
  <2>1. SubSeq(p, 1, 1) = SubSeq(p, 1, 0) \o <<p[1]>>
    BY <1>1, SubSeqRecursiveSecond
  <2>2. SubSeq(p, 1, 0) = << >>
    BY SubSeqEmpty
  <2>3. << >> \o <<p[1]>> = <<p[1]>>
    BY <1>1, <1>2, ConcatEmptySeq
  <2>. QED
    BY <2>1, <2>2, <2>3
<1>. QED
  BY <1>1, <1>2, <1>3, <1>4

\* Appending the next name to a proper prefix gives the next prefix.
LEMMA NextPrefix ==
    ASSUME NEW p \in Path, NEW d \in 2..Len(p)
    PROVE  Append(SubSeq(p, 1, d - 1), p[d]) = SubSeq(p, 1, d)
<1>1. p \in Seq(Segment) /\ Len(p) \in Nat
  BY PathFacts
<1>. QED
  BY <1>1

(***************************************************************************)
(* The realm: every change keeps it well-formed and leaves the path of an  *)
(* id that was issued alone.                                               *)
(***************************************************************************)
PathsStay == \A g \in GroupId : pathOf[g] # None => pathOf'[g] = pathOf[g]

\* Creating a group at a path of Path: KeycloakRealm's AddGroup.
LEMMA AddGroupKeepsRealm ==
    ASSUME RealmTypeOK, NEW g \in GroupId, NEW p \in Path, NEW a \in Attrs,
           AddGroup(g, p, a)
    PROVE  RealmTypeOK' /\ PathsStay
BY NoneAssumption DEF RealmTypeOK, AddGroup, PathsStay

\* The changes that create no group.
LEMMA OtherChangesKeepRealm ==
    ASSUME RealmTypeOK, NEW g \in GroupId,
           \/ \E a \in Attrs : SetAttrs(g, a)
           \/ DropGroup(g)
           \/ \E u \in Account : Join(g, u)
           \/ \E u \in User : Leave(g, u)
    PROVE  RealmTypeOK' /\ PathsStay
<1>1. CASE \E a \in Attrs : SetAttrs(g, a)
  BY <1>1 DEF RealmTypeOK, SetAttrs, PathsStay
<1>2. CASE DropGroup(g)
  BY <1>2 DEF RealmTypeOK, DropGroup, PathsStay
<1>3. CASE \E u \in Account : Join(g, u)
  BY <1>3 DEF RealmTypeOK, Join, PathsStay
<1>4. CASE \E u \in User : Leave(g, u)
  BY <1>4 DEF RealmTypeOK, Leave, PathsStay
<1>. QED
  BY <1>1, <1>2, <1>3, <1>4

\* An administrator's edit.
LEMMA AdminKeepsRealm ==
    ASSUME RealmTypeOK, AdminEdit
    PROVE  RealmTypeOK' /\ PathsStay
<1>1. CASE \E g \in GroupId, p \in Path, a \in EditAttrs : AddGroup(g, p, a)
  BY <1>1, AttrsAssumption, AddGroupKeepsRealm
<1>2. CASE \E g \in live : DropGroup(g) \/ \E u \in Account : Join(g, u) \/ Leave(g, u)
  <2>1. live \subseteq GroupId /\ Account \subseteq User
    BY AccountAssumption DEF RealmTypeOK
  <2>. QED
    BY <1>2, <2>1, OtherChangesKeepRealm
<1>. QED
  BY <1>1, <1>2 DEF AdminEdit

(***************************************************************************)
(* The tree: whatever is created or deleted, a path belongs to one group   *)
(* and the group above it exists.                                          *)
(***************************************************************************)
LEMMA UnderFacts ==
    ASSUME NEW p \in Path
    PROVE  /\ Under(p, p)
           /\ \A q \in Path, r \in Path : Under(p, q) /\ Under(q, r) => Under(p, r)
<1>1. p \in Seq(Segment) /\ Len(p) \in Nat /\ SubSeq(p, 1, Len(p)) = p
  BY PathFacts
<1>2. ASSUME NEW q \in Path, NEW r \in Path, Under(p, q), Under(q, r) PROVE Under(p, r)
  <2>. DEFINE m == Len(p)
              n == Len(q)
  <2>1. /\ q \in Seq(Segment) /\ r \in Seq(Segment) /\ m \in Nat /\ n \in Nat /\ Len(r) \in Nat
        /\ m <= n /\ n <= Len(r) /\ SubSeq(q, 1, m) = p /\ SubSeq(r, 1, n) = q
    BY <1>1, <1>2, PathFacts DEF Under
  <2>. HIDE DEF m, n
  <2>2. SubSeq(SubSeq(r, 1, n), 1, m) = SubSeq(r, 1, m)
    BY <2>1
  <2>3. m <= Len(r) /\ SubSeq(r, 1, m) = p
    BY <2>1, <2>2
  <2>. QED
    BY <2>3 DEF Under, m
<1>. QED
  BY <1>1, <1>2 DEF Under

\* The prefixes of a path, and the one before the last name.
LEMMA PrefixFacts ==
    ASSUME NEW p \in Path, NEW k \in 1..Len(p)
    PROVE  /\ SubSeq(p, 1, k) \in Path /\ Len(SubSeq(p, 1, k)) = k /\ Under(SubSeq(p, 1, k), p)
           /\ k > 1 => /\ k - 1 \in 1..Len(p)
                       /\ Parent(SubSeq(p, 1, k)) = SubSeq(p, 1, k - 1)
<1>. DEFINE s == SubSeq(p, 1, k)
<1>1. /\ p \in Seq(Segment) /\ Len(p) \in Nat /\ k \in Nat \ {0} /\ k <= Len(p) /\ s \in Path
  BY PathFacts
<1>2. Len(s) = k
  BY <1>1
<1>3. Under(s, p)
  BY <1>1, <1>2 DEF Under
<1>4. k > 1 => k - 1 \in 1..Len(p) /\ Parent(s) = SubSeq(p, 1, k - 1)
  <2>1. k > 1 => k - 1 \in 1..Len(p) /\ SubSeq(SubSeq(p, 1, k), 1, k - 1) = SubSeq(p, 1, k - 1)
    BY <1>1
  <2>. QED
    BY <1>2, <2>1 DEF Parent
<1>. QED
  BY <1>1, <1>2, <1>3, <1>4

TreeOK == OneGroupPerPath /\ ParentsExist

LEMMA AddGroupKeepsTree ==
    ASSUME RealmTypeOK, TreeOK, NEW g \in GroupId, NEW p \in Path, NEW a, AddGroup(g, p, a)
    PROVE  TreeOK'
<1>1. /\ live' = live \cup {g} /\ pathOf'[g] = p
      /\ \A h \in live : h # g /\ pathOf'[h] = pathOf[h] /\ pathOf[h] # p
  BY NoneAssumption DEF AddGroup, RealmTypeOK, GroupsAt
<1>2. OneGroupPerPath'
  BY <1>1 DEF OneGroupPerPath, TreeOK
<1>3. \A q : GroupsAt(q) \subseteq GroupsAt(q)'
  BY <1>1 DEF GroupsAt
<1>4. ParentsExist'
  <2>. SUFFICES ASSUME NEW h \in live', Len(pathOf'[h]) > 1
                PROVE  \E x \in live' : pathOf'[x] = Parent(pathOf'[h])
    BY DEF ParentsExist, GroupsAt
  <2>1. PICK q : q = pathOf'[h]
    OBVIOUS
  <2>2. GroupsAt(Parent(q)) # {}
    BY <1>1, <2>1 DEF AddGroup, TreeOK, ParentsExist
  <2>. QED
    BY <1>1, <2>1, <2>2 DEF GroupsAt
<1>. QED
  BY <1>2, <1>4 DEF TreeOK

LEMMA OtherChangesKeepTree ==
    ASSUME RealmTypeOK, TreeOK,
           \/ UNCHANGED <<live, pathOf>>
           \/ \E d \in live : DropGroup(d)
    PROVE  TreeOK'
<1>1. CASE UNCHANGED <<live, pathOf>>
  BY <1>1 DEF TreeOK, OneGroupPerPath, ParentsExist, GroupsAt
<1>2. ASSUME NEW d \in live, DropGroup(d) PROVE TreeOK'
  <2>1. live' = {h \in live : ~Under(pathOf[d], pathOf[h])} /\ pathOf' = pathOf
    BY <1>2 DEF DropGroup
  <2>2. ASSUME NEW h \in live', Len(pathOf[h]) > 1
        PROVE  \E x \in live' : pathOf[x] = Parent(pathOf[h])
    <3>1. PICK x \in live : pathOf[x] = Parent(pathOf[h])
      BY <2>1, <2>2 DEF TreeOK, ParentsExist, GroupsAt
    <3>2. pathOf[d] \in Path /\ pathOf[h] \in Path /\ pathOf[x] \in Path
      BY <2>1 DEF RealmTypeOK
    <3>3. Under(pathOf[x], pathOf[h])
      <4>. DEFINE n == Len(pathOf[h])
      <4>1. n \in Nat /\ n - 1 \in 1..n /\ Parent(pathOf[h]) = SubSeq(pathOf[h], 1, n - 1)
        BY <2>2, <3>2, PathFacts DEF Parent
      <4>. QED
        BY <3>1, <3>2, <4>1, PrefixFacts
    <3>4. ~Under(pathOf[d], pathOf[x])
      BY <2>1, <3>2, <3>3, UnderFacts
    <3>. QED
      BY <2>1, <3>1, <3>4
  <2>. QED
    BY <2>1, <2>2 DEF TreeOK, OneGroupPerPath, ParentsExist, GroupsAt
<1>. QED
  BY <1>1, <1>2

\* All the groups above a group exist.
LEMMA PrefixesExist ==
    ASSUME RealmTypeOK, ParentsExist, NEW g \in live, NEW k \in 1..Len(pathOf[g])
    PROVE  GroupsAt(SubSeq(pathOf[g], 1, k)) # {}
<1>. DEFINE p == pathOf[g]
            n == Len(p)
            T == {m \in Nat : m < n => GroupsAt(SubSeq(p, 1, n - m)) # {}}
<1>1. p \in Path /\ n \in Nat \ {0} /\ SubSeq(p, 1, n) = p
  BY PathFacts DEF RealmTypeOK
<1>2. 0 \in T
  <2>1. n - 0 = n /\ g \in GroupsAt(p)
    BY <1>1 DEF GroupsAt
  <2>. QED
    BY <1>1, <2>1
<1>3. ASSUME NEW m \in Nat, m \in T PROVE m + 1 \in T
  <2>. SUFFICES ASSUME m + 1 < n PROVE GroupsAt(SubSeq(p, 1, n - (m + 1))) # {}
    OBVIOUS
  <2>. HIDE DEF n, p
  <2>1. n - m \in 1..n /\ n - m > 1 /\ m < n /\ (n - m) - 1 = n - (m + 1)
    BY <1>1
  <2>2. PICK x \in live : pathOf[x] = SubSeq(p, 1, n - m)
    BY <1>3, <2>1 DEF GroupsAt
  <2>3. Len(pathOf[x]) = n - m /\ Parent(pathOf[x]) = SubSeq(p, 1, (n - m) - 1)
    BY <1>1, <2>1, <2>2, PrefixFacts DEF n
  <2>. QED
    BY <2>1, <2>3 DEF ParentsExist
<1>4. Nat \subseteq T
  <2>. HIDE DEF T
  <2>. QED
    BY <1>2, <1>3, AllNumbers
<1>5. n - k \in T /\ n - k < n /\ n - (n - k) = k
  <2>. HIDE DEF T, p
  <2>1. k \in 1..n
    BY DEF p
  <2>. HIDE DEF n
  <2>. QED
    BY <1>1, <1>4, <2>1
<1>. QED
  BY <1>5
==============================================================================
