-------------------------- MODULE GroupListingProofs --------------------------
(***************************************************************************)
(* Theorems about GroupListing, for any realm, any number of edits and     *)
(* pages of any size: types, that nothing is listed twice or before its    *)
(* parent, and that a deletion hides at most one group.                    *)
(*                                                                         *)
(* The work list carries answers of Keycloak that may be out of date.      *)
(* What makes them fit is that an id keeps its path (PathsStay): a group   *)
(* waiting to be appended is still the child of the group it was listed    *)
(* under, and that one was appended before (Fits).                         *)
(***************************************************************************)
EXTENDS GroupListing, KeycloakRealmProofs

(***************************************************************************)
(* Sorting: one child has i - 1 before it, for every place i.              *)
(***************************************************************************)
Before(S, r, g) == {h \in S : r[h] < r[g]}
Places(S, r) == \A k \in 1..Cardinality(S) : \E g \in S : Cardinality(Before(S, r, g)) = k - 1

LEMMA PlacesExist ==
    ASSUME NEW G, NEW r \in [G -> Nat],
           \A g, h \in G : r[g] = r[h] => g = h
    PROVE  \A S \in SUBSET G : IsFiniteSet(S) => Places(S, r)
<1>. DEFINE T == {n \in Nat : \A S \in SUBSET G :
                                IsFiniteSet(S) /\ Cardinality(S) = n => Places(S, r)}
<1>1. 0 \in T
  BY DEF Places
<1>2. ASSUME NEW n \in Nat, n \in T PROVE n + 1 \in T
  <2>. SUFFICES ASSUME NEW S \in SUBSET G, IsFiniteSet(S), Cardinality(S) = n + 1
                PROVE  Places(S, r)
    OBVIOUS
  <2>1. PICK x \in S : \A h \in S : r[x] <= r[h]
    <3>. DEFINE R == {r[h] : h \in S}
    <3>1. S # {}
      BY FS_EmptySet
    <3>2. R # {} /\ R \subseteq Nat
      BY <3>1
    <3>3. PICK m \in R : \A y \in R : m <= y
      BY <3>2, LeastNumber
    <3>. QED
      BY <3>3
  <2>. DEFINE U == S \ {x}
  <2>2. IsFiniteSet(U) /\ Cardinality(U) = n /\ U \in SUBSET G
    BY FS_RemoveElement
  <2>3. Places(U, r)
    BY <1>2, <2>2
  <2>4. ASSUME NEW k \in 1..(n + 1)
        PROVE  \E g \in S : Cardinality(Before(S, r, g)) = k - 1
    <3>1. CASE k = 1
      <4>1. Before(S, r, x) = {}
        BY <2>1 DEF Before
      <4>. QED
        BY <3>1, <4>1, FS_EmptySet
    <3>2. CASE k # 1
      <4>1. k - 1 \in 1..Cardinality(U)
        BY <2>2, <3>2
      <4>2. PICK g \in U : Cardinality(Before(U, r, g)) = (k - 1) - 1
        BY <2>3, <4>1 DEF Places
      <4>3. r[x] < r[g]
        BY <2>1
      <4>4. Before(S, r, g) = Before(U, r, g) \cup {x} /\ x \notin Before(U, r, g)
        BY <4>3 DEF Before
      <4>5. IsFiniteSet(Before(U, r, g))
        BY <2>2, FS_Subset DEF Before
      <4>. DEFINE B == Before(U, r, g)
                  C == Before(S, r, g)
      <4>6. C = B \cup {x} /\ x \notin B /\ IsFiniteSet(B) /\ Cardinality(B) = (k - 1) - 1
        BY <4>2, <4>4, <4>5
      <4>. HIDE DEF B, C
      <4>7. Cardinality(C) = ((k - 1) - 1) + 1
        BY <4>6, FS_AddElement
      <4>. QED
        BY <4>7 DEF C
    <3>. QED
      BY <3>1, <3>2
  <2>. QED
    BY <2>4 DEF Places
<1>. HIDE DEF T
<1>3. Nat \subseteq T
  BY <1>1, <1>2, AllNumbers
<1>. QED
  BY <1>3, FS_CardinalityType DEF T

(***************************************************************************)
(* What the answers of Keycloak hold.                                      *)
(***************************************************************************)
Tree       == [live : SUBSET GroupId, pathOf : [GroupId -> Path \cup {None}]]
AppendItem == [do : {"append"}, id : GroupId, tree : Tree]
TopsItem   == [do : {"tops"}, first : Nat]
KidsItem   == [do : {"kids"}, of : AppendItem, first : Nat, got : Seq(AppendItem)]
Item       == AppendItem \cup TopsItem \cup KidsItem

\* The groups of a tree have the paths they had when Keycloak answered.
TreeFits(t) ==
    /\ IsFiniteSet(t.live)
    /\ \A g \in t.live : t.pathOf[g] \in Path /\ pathOf[g] = t.pathOf[g]
    /\ \A g, h \in t.live : t.pathOf[g] = t.pathOf[h] => g = h

\* The name of a child of p is the last of its path, which is p with that name.
LEMMA ChildFacts ==
    ASSUME NEW t \in Tree, TreeFits(t), NEW p \in Path \cup {<< >>}, NEW g \in ChildrenIn(t, p)
    PROVE  /\ g \in t.live /\ g \in GroupId /\ t.pathOf[g] \in Path
           /\ Len(p) \in Nat /\ Len(t.pathOf[g]) = Len(p) + 1 /\ Parent(t.pathOf[g]) = p
           /\ Last(t.pathOf[g]) \in Segment
           /\ \A i \in 1..(Len(p) + 1) :
                t.pathOf[g][i] = IF i <= Len(p) THEN p[i] ELSE Last(t.pathOf[g])
<1>. DEFINE q == t.pathOf[g]
<1>1. /\ g \in t.live /\ g \in GroupId /\ q \in Path
      /\ Len(q) = Len(p) + 1 /\ SubSeq(q, 1, Len(p)) = p
  BY DEF ChildrenIn, TreeFits, Under, Tree
<1>2. q \in Seq(Segment) /\ Len(q) \in Nat /\ Len(p) \in Nat
  BY <1>1, PathFacts
<1>3. Parent(q) = p
  BY <1>1, <1>2 DEF Parent
<1>. HIDE DEF q
<1>4. Last(q) = q[Len(p) + 1] /\ q[Len(p) + 1] \in Segment
  BY <1>1, <1>2 DEF Last
<1>5. \A i \in 1..Len(p) : SubSeq(q, 1, Len(p))[i] = q[i]
  BY <1>1, <1>2
<1>6. \A i \in 1..(Len(p) + 1) : q[i] = IF i <= Len(p) THEN p[i] ELSE Last(q)
  BY <1>1, <1>2, <1>4, <1>5
<1>. QED
  BY <1>1, <1>2, <1>3, <1>4, <1>6 DEF q

\* Siblings are told apart by their names.
LEMMA SiblingsDiffer ==
    ASSUME NEW t \in Tree, TreeFits(t), NEW p \in Path \cup {<< >>},
           NEW g \in ChildrenIn(t, p), NEW h \in ChildrenIn(t, p), RankIn(t, g) = RankIn(t, h)
    PROVE  g = h
<1>1. Last(t.pathOf[g]) = Last(t.pathOf[h])
  BY ChildFacts, ListingAssumption DEF RankIn
<1>2. /\ t.pathOf[g] \in Seq(Segment) /\ t.pathOf[h] \in Seq(Segment)
      /\ Len(t.pathOf[g]) = Len(t.pathOf[h])
  BY ChildFacts, PathFacts
<1>3. \A i \in 1..Len(t.pathOf[g]) : t.pathOf[g][i] = t.pathOf[h][i]
  BY <1>1, ChildFacts
<1>4. t.pathOf[g] = t.pathOf[h]
  BY <1>2, <1>3, SeqEqual
<1>. QED
  BY <1>4, ChildFacts DEF TreeFits

\* An answer shows children, each as an item to append.
LEMMA ShownFacts ==
    ASSUME NEW t \in Tree, TreeFits(t), NEW p \in Path \cup {<< >>}
    PROVE  /\ Shown(t, p) \in Seq(AppendItem)
           /\ \A i \in DOMAIN Shown(t, p) :
                Shown(t, p)[i].tree = t /\ Shown(t, p)[i].id \in ChildrenIn(t, p)
<1>. DEFINE kids == ChildrenIn(t, p)
            r    == [g \in kids |-> RankIn(t, g)]
            n    == Cardinality(kids)
            s    == Sorted(t, p)
<1>1. r \in [kids -> Nat] /\ \A g, h \in kids : r[g] = r[h] => g = h
  BY ChildFacts, SiblingsDiffer, ListingAssumption DEF RankIn
<1>2. IsFiniteSet(kids) /\ n \in Nat
  BY FS_Subset, FS_CardinalityType DEF ChildrenIn, TreeFits
<1>3. \A k \in 1..n : \E g \in kids : Cardinality(Before(kids, r, g)) = k - 1
  <2>. HIDE DEF r, kids
  <2>1. Places(kids, r)
    BY <1>1, <1>2, PlacesExist
  <2>. QED
    BY <2>1 DEF Places
<1>4. \A g \in kids : Before(kids, r, g) = {h \in kids : RankIn(t, h) < RankIn(t, g)}
  BY DEF Before
<1>5. \A k \in 1..n : \E g \in kids :
        Cardinality({h \in kids : RankIn(t, h) < RankIn(t, g)}) = k - 1
  BY <1>3, <1>4
<1>6. s = [i \in 1..n |-> CHOOSE g \in kids :
                Cardinality({h \in kids : RankIn(t, h) < RankIn(t, g)}) = i - 1]
  BY DEF Sorted
<1>. HIDE DEF kids, s
<1>7. DOMAIN s = 1..n /\ \A i \in 1..n : s[i] \in kids
  BY <1>5, <1>6
<1>8. Shown(t, p) = [i \in 1..n |-> [do |-> "append", id |-> s[i], tree |-> t]]
  BY <1>7 DEF Shown, s
<1>9. \A i \in 1..n : s[i] \in GroupId
  BY <1>7, ChildFacts DEF kids
<1>. HIDE DEF n
<1>10. \A i \in 1..n : [do |-> "append", id |-> s[i], tree |-> t] \in AppendItem
  BY <1>9 DEF AppendItem
<1>11. Shown(t, p) \in Seq(AppendItem)
  BY <1>2, <1>8, <1>10
<1>. QED
  BY <1>7, <1>8, <1>11 DEF kids

(***************************************************************************)
(* Sequences and the sets of their elements.                               *)
(***************************************************************************)
LEMMA ConcatSet ==
    ASSUME NEW S, NEW a \in Seq(S), NEW b \in Seq(S)
    PROVE  a \o b \in Seq(S) /\ ToSet(a \o b) = ToSet(a) \cup ToSet(b)
<1>1. /\ a \o b \in Seq(S) /\ Len(a \o b) = Len(a) + Len(b) /\ Len(a) \in Nat /\ Len(b) \in Nat
      /\ \A i \in 1..Len(a) : (a \o b)[i] = a[i]
      /\ \A i \in 1..Len(b) : (a \o b)[Len(a) + i] = b[i]
  OBVIOUS
<1>2. DOMAIN (a \o b) = 1..(Len(a) + Len(b)) /\ DOMAIN a = 1..Len(a) /\ DOMAIN b = 1..Len(b)
  BY <1>1
<1>. DEFINE c == a \o b
<1>3. ASSUME NEW i \in DOMAIN c PROVE c[i] \in ToSet(a) \cup ToSet(b)
  <2>1. CASE i <= Len(a)
    BY <1>1, <1>2, <2>1 DEF ToSet
  <2>2. CASE ~(i <= Len(a))
    <3>1. i - Len(a) \in 1..Len(b) /\ Len(a) + (i - Len(a)) = i
      BY <1>1, <1>2, <2>2
    <3>2. c[i] = b[i - Len(a)]
      BY <1>1, <3>1
    <3>. QED
      BY <1>2, <3>1, <3>2 DEF ToSet
  <2>. QED
    BY <2>1, <2>2
<1>4. \A i \in DOMAIN a : a[i] \in ToSet(c)
  BY <1>1, <1>2 DEF ToSet
<1>5. ASSUME NEW i \in DOMAIN b PROVE b[i] \in ToSet(c)
  <2>1. Len(a) + i \in DOMAIN c /\ c[Len(a) + i] = b[i]
    BY <1>1, <1>2
  <2>. QED
    BY <2>1 DEF ToSet
<1>. QED
  BY <1>1, <1>3, <1>4, <1>5 DEF ToSet

LEMMA RestSet ==
    ASSUME NEW S, NEW s \in Seq(S), s # << >>
    PROVE  /\ Head(s) \in S /\ Tail(s) \in Seq(S)
           /\ Head(s) \in ToSet(s) /\ ToSet(Tail(s)) \subseteq ToSet(s)
<1>1. /\ Len(s) \in Nat \ {0} /\ DOMAIN s = 1..Len(s) /\ Head(s) = s[1]
      /\ Tail(s) \in Seq(S) /\ DOMAIN Tail(s) = 1..(Len(s) - 1)
      /\ \A i \in 1..(Len(s) - 1) : Tail(s)[i] = s[i + 1]
  OBVIOUS
<1>2. \A i \in 1..(Len(s) - 1) : i + 1 \in 1..Len(s)
  BY <1>1
<1>. QED
  BY <1>1, <1>2 DEF ToSet

LEMMA PartSet ==
    ASSUME NEW S, NEW s \in Seq(S), NEW m \in Nat \ {0}, NEW n \in Nat, n <= Len(s)
    PROVE  SubSeq(s, m, n) \in Seq(S) /\ ToSet(SubSeq(s, m, n)) \subseteq ToSet(s)
<1>1. /\ Len(s) \in Nat /\ DOMAIN s = 1..Len(s)
      /\ SubSeq(s, m, n) = [i \in 1..(n - m + 1) |-> s[i + m - 1]]
  OBVIOUS
<1>2. \A i \in 1..(n - m + 1) : i + m - 1 \in 1..Len(s)
  BY <1>1
<1>3. SubSeq(s, m, n) \in Seq(S)
  BY <1>1, <1>2
<1>. QED
  BY <1>1, <1>2, <1>3 DEF ToSet

LEMMA OneElement ==
    ASSUME NEW S, NEW x \in S
    PROVE  <<x>> \in Seq(S) /\ ToSet(<<x>>) = {x}
BY DEF ToSet

LEMMA NoElement ==
    \A S : << >> \in Seq(S) /\ ToSet(<< >>) = {}
BY DEF ToSet

(***************************************************************************)
(* The inductive invariant.                                                *)
(***************************************************************************)
Shows(w) == w.id \in w.tree.live /\ TreeFits(w.tree)
ParentSeen(g) == Len(pathOf[g]) > 1 => \E h \in seen : pathOf[h] = Parent(pathOf[g])

\* A group may be appended: its parent was.  The children of a group are asked for
\* when it was.
Ready(w) == Shows(w) /\ ParentSeen(w.id)
Fits(w) == /\ w.do = "append" => Ready(w)
           /\ w.do = "kids" => /\ Shows(w.of) /\ w.of.id \in seen
                               /\ \A c \in ToSet(w.got) : Ready(c)

RealmFits == RealmTypeOK /\ OneGroupPerPath /\ IsFiniteSet(live)
WorkFits  == work \in Seq(Item) /\ \A w \in ToSet(work) : Fits(w)
ResultFits ==
    /\ result \in Seq(GroupId) /\ seen = ToSet(result)
    /\ \A g \in seen : pathOf[g] \in Path
    /\ ListedOnceAfterParent
CountersFit ==
    /\ style \in Answers /\ status \in {"listing", "ok", "failed"}
    /\ stable \subseteq live
    /\ edits \in 0..MaxEdits /\ drops \in 0..edits

ListInv == RealmFits /\ WorkFits /\ ResultFits /\ CountersFit

\* What fits, fits as long as ids keep their paths and nothing is unseen.
LEMMA FitsStay ==
    ASSUME RealmTypeOK, PathsStay, seen \subseteq seen', seen \subseteq GroupId,
           \A g \in seen : pathOf[g] \in Path
    PROVE  \A w \in Item : Fits(w) => Fits(w)'
<1>1. \A g \in GroupId : pathOf[g] \in Path => pathOf'[g] = pathOf[g]
  BY NoneAssumption DEF PathsStay
<1>2. ASSUME NEW w \in AppendItem, Shows(w) PROVE Shows(w)'
  <2>1. w.tree \in Tree /\ w.tree.live \subseteq GroupId
    BY DEF AppendItem, Tree
  <2>. QED
    BY <1>1, <1>2, <2>1 DEF Shows, TreeFits
<1>3. ASSUME NEW w \in AppendItem, Ready(w) PROVE Ready(w)'
  <2>1. Shows(w) /\ Shows(w)'
    BY <1>2, <1>3 DEF Ready
  <2>2. w.id \in GroupId /\ pathOf[w.id] \in Path
    BY <2>1 DEF Shows, TreeFits, AppendItem
  <2>3. pathOf'[w.id] = pathOf[w.id] /\ \A h \in seen : pathOf'[h] = pathOf[h]
    BY <1>1, <2>2
  <2>. QED
    BY <1>3, <2>1, <2>3 DEF Ready, ParentSeen
<1>4. ASSUME NEW w \in KidsItem, Fits(w) PROVE Fits(w)'
  <2>1. w.of \in AppendItem /\ w.do = "kids" /\ \A c \in ToSet(w.got) : c \in AppendItem
    BY DEF KidsItem, ToSet
  <2>2. Shows(w.of) /\ w.of.id \in seen /\ \A c \in ToSet(w.got) : Ready(c)
    BY <1>4, <2>1 DEF Fits
  <2>3. Shows(w.of)' /\ w.of.id \in seen' /\ \A c \in ToSet(w.got) : Ready(c)'
    BY <1>2, <1>3, <2>1, <2>2
  <2>. QED
    BY <2>1, <2>3 DEF Fits
<1>5. ASSUME NEW w \in AppendItem, Fits(w) PROVE Fits(w)'
  <2>1. w.do = "append"
    BY DEF AppendItem
  <2>. QED
    BY <1>3, <1>5, <2>1 DEF Fits
<1>6. ASSUME NEW w \in TopsItem PROVE Fits(w)'
  BY DEF TopsItem, Fits
<1>. QED
  BY <1>4, <1>5, <1>6 DEF Item

\* An answer of Keycloak now.
LEMMA PageFacts ==
    ASSUME RealmFits, NEW p \in Path \cup {<< >>}, NEW first \in Nat
    PROVE  /\ Page(p, first) \in Seq(AppendItem)
           /\ \A w \in ToSet(Page(p, first)) :
                w \in AppendItem /\ w.tree = Now /\ w.id \in ChildrenIn(Now, p) /\ Shows(w)
<1>. DEFINE all == Shown(Now, p)
            last == IF first + PageSize < Len(all) THEN first + PageSize ELSE Len(all)
<1>1. Now \in Tree /\ TreeFits(Now)
  BY DEF Now, Tree, TreeFits, RealmFits, RealmTypeOK, OneGroupPerPath
<1>2. /\ all \in Seq(AppendItem)
      /\ \A i \in DOMAIN all : all[i].tree = Now /\ all[i].id \in ChildrenIn(Now, p)
  BY <1>1, ShownFacts
<1>3. Page(p, first) = SubSeq(all, first + 1, last)
  BY DEF Page
<1>4. \A w \in ToSet(all) : w \in AppendItem /\ w.tree = Now /\ w.id \in ChildrenIn(Now, p)
  <2>. HIDE DEF all
  <2>. QED
    BY <1>2 DEF ToSet
<1>. HIDE DEF all
<1>5. Len(all) \in Nat /\ last \in Nat /\ last <= Len(all) /\ first + 1 \in Nat \ {0}
  BY <1>2, PageSizeAssumption
<1>. HIDE DEF last
<1>6. Page(p, first) \in Seq(AppendItem) /\ ToSet(Page(p, first)) \subseteq ToSet(all)
  BY <1>2, <1>3, <1>5, PartSet
<1>. QED
  BY <1>1, <1>4, <1>6, ChildFacts DEF Shows

\* The children of a group that was appended are ready.
LEMMA ChildrenReady ==
    ASSUME NEW w \in AppendItem, NEW p \in Path \cup {<< >>}, Shows(w),
           w.id \in ChildrenIn(w.tree, p), p = << >> \/ \E h \in seen : pathOf[h] = p
    PROVE  Ready(w)
<1>1. w.tree \in Tree /\ TreeFits(w.tree) /\ w.id \in w.tree.live
  BY DEF Shows, AppendItem
<1>2. /\ Len(p) \in Nat /\ Len(w.tree.pathOf[w.id]) = Len(p) + 1
      /\ Parent(w.tree.pathOf[w.id]) = p /\ pathOf[w.id] = w.tree.pathOf[w.id]
  BY <1>1, ChildFacts DEF TreeFits
<1>3. p = << >> => Len(p) = 0
  OBVIOUS
<1>. QED
  BY <1>2, <1>3 DEF Ready, ParentSeen

\* What was embedded below a group that was appended is ready.
LEMMA EmbeddedReady ==
    ASSUME NEW w \in AppendItem, Shows(w), \E h \in seen : pathOf[h] = w.tree.pathOf[w.id]
    PROVE  /\ Embedded(w) \in Seq(AppendItem)
           /\ \A c \in ToSet(Embedded(w)) : c \in AppendItem /\ Ready(c)
<1>. DEFINE p == w.tree.pathOf[w.id]
            all == Shown(w.tree, p)
<1>1. w.tree \in Tree /\ TreeFits(w.tree) /\ p \in Path
  BY DEF Shows, AppendItem, TreeFits
<1>2. /\ all \in Seq(AppendItem)
      /\ \A i \in DOMAIN all : all[i].tree = w.tree /\ all[i].id \in ChildrenIn(w.tree, p)
  BY <1>1, ShownFacts
<1>. HIDE DEF all
<1>3. \A c \in ToSet(all) : /\ c \in AppendItem /\ c.tree = w.tree
                            /\ c.id \in ChildrenIn(w.tree, p)
  BY <1>2 DEF ToSet
<1>. HIDE DEF p
<1>4. ASSUME NEW c \in ToSet(all) PROVE c \in AppendItem /\ Ready(c)
  <2>1. Shows(c)
    BY <1>1, <1>3, ChildFacts DEF Shows
  <2>. QED
    BY <1>1, <1>3, <2>1, ChildrenReady DEF p
<1>. QED
  BY <1>2, <1>4, NoElement DEF Embedded, all, p

(***************************************************************************)
(* Every step keeps it.                                                    *)
(***************************************************************************)
LEMMA ListingStarts ==
    Init => ListInv
<1>. SUFFICES ASSUME Init PROVE ListInv
  OBVIOUS
<1>1. RealmFits
  BY StartAssumption, ListingAssumption
     DEF Init, RealmInit, RealmFits, RealmTypeOK, OneGroupPerPath
<1>2. work \in Seq(Item) /\ ToSet(work) = {Tops(0)}
  BY OneElement DEF Init, Item, TopsItem, Tops
<1>3. WorkFits
  BY <1>2 DEF WorkFits, Fits, Tops
<1>4. ResultFits
  <2>1. result = << >> /\ result \in Seq(GroupId) /\ seen = {} /\ DOMAIN result = {}
    BY DEF Init
  <2>. QED
    BY <2>1 DEF ResultFits, ListedOnceAfterParent, ToSet
<1>5. CountersFit
  BY ListingAssumption DEF Init, CountersFit
<1>. QED
  BY <1>1, <1>3, <1>4, <1>5 DEF ListInv

LEMMA SeenAreGroups ==
    ASSUME ResultFits PROVE seen \subseteq GroupId
BY DEF ResultFits, ToSet

\* A request of the listing changes the work only.
LEMMA NewWorkFits ==
    ASSUME ListInv, UNCHANGED <<realm, style, result, seen, stable, edits, drops>>,
           status' \in {"listing", "ok", "failed"},
           work' \in Seq(Item), \A w \in ToSet(work') : Fits(w)
    PROVE  ListInv'
<1>1. RealmFits' /\ PathsStay
  BY DEF ListInv, RealmFits, RealmTypeOK, OneGroupPerPath, realm, PathsStay
<1>2. \A w \in ToSet(work') : w \in Item
  BY DEF ToSet
<1>3. \A w \in Item : Fits(w) => Fits(w)'
  BY <1>1, FitsStay, SeenAreGroups DEF ListInv, RealmFits, ResultFits
<1>4. WorkFits'
  BY <1>2, <1>3 DEF WorkFits
<1>5. ResultFits' /\ CountersFit'
  BY DEF ListInv, ResultFits, CountersFit, ListedOnceAfterParent, realm
<1>. QED
  BY <1>1, <1>4, <1>5 DEF ListInv

LEMMA HeadFits ==
    ASSUME ListInv, work # << >>
    PROVE  /\ Head(work) \in Item /\ Fits(Head(work))
           /\ Tail(work) \in Seq(Item) /\ \A w \in ToSet(Tail(work)) : Fits(w)
BY RestSet DEF ListInv, WorkFits

\* Page by page, the groups at the top.
LEMMA TopPageFits ==
    ASSUME ListInv, TopPage
    PROVE  ListInv'
<1>. DEFINE first == Head(work).first
            page  == Page(<< >>, first)
            more  == IF IsLast(page) THEN << >> ELSE <<Tops(NextPage(first))>>
<1>1. /\ work # << >> /\ Head(work).do = "tops" /\ work' = page \o more \o Tail(work)
      /\ UNCHANGED <<realm, style, result, seen, status, stable, edits, drops>>
  BY DEF TopPage, Doing
<1>2. Head(work) \in TopsItem /\ first \in Nat
  BY <1>1, HeadFits DEF Item, AppendItem, TopsItem, KidsItem
<1>3. /\ page \in Seq(AppendItem)
      /\ \A w \in ToSet(page) : w \in AppendItem /\ w.tree = Now /\ Shows(w)
                                /\ w.id \in ChildrenIn(Now, << >>)
  BY <1>2, PageFacts DEF ListInv
<1>4. \A w \in ToSet(page) : Fits(w)
  BY <1>3, ChildrenReady DEF Fits, AppendItem
<1>5. Tops(NextPage(first)) \in Item /\ Fits(Tops(NextPage(first)))
  BY <1>2, PageSizeAssumption DEF Tops, NextPage, Item, TopsItem, Fits
<1>6. more \in Seq(Item) /\ \A w \in ToSet(more) : Fits(w)
  BY <1>5, OneElement, NoElement
<1>7. page \in Seq(Item)
  BY <1>3 DEF Item
<1>. HIDE DEF page, more
<1>8. /\ page \o more \in Seq(Item) /\ ToSet(page \o more) = ToSet(page) \cup ToSet(more)
  BY <1>6, <1>7, ConcatSet
<1>9. /\ work' \in Seq(Item)
      /\ ToSet(work') = ToSet(page) \cup ToSet(more) \cup ToSet(Tail(work))
  <2>. DEFINE all == page \o more
  <2>1. work' = all \o Tail(work) /\ all \in Seq(Item) /\ Tail(work) \in Seq(Item)
    BY <1>1, <1>8, HeadFits
  <2>. HIDE DEF all
  <2>2. work' \in Seq(Item) /\ ToSet(work') = ToSet(all) \cup ToSet(Tail(work))
    BY <2>1, ConcatSet
  <2>. QED
    BY <1>8, <2>2 DEF all
<1>. QED
  BY <1>1, <1>4, <1>6, <1>9, HeadFits, NewWorkFits DEF ListInv, CountersFit

\* Page by page, the children of a group that was appended.
LEMMA KidsPageFits ==
    ASSUME ListInv, KidsPage
    PROVE  ListInv'
<1>. DEFINE k    == Head(work)
            page == Page(pathOf[k.of.id], k.first)
            all  == k.got \o page
            next == IF ~IsLast(page) THEN <<Kids(k.of, NextPage(k.first), all)>>
                    ELSE IF all = << >> THEN Embedded(k.of) ELSE all
<1>1. /\ work # << >> /\ k.do = "kids" /\ k.of.id \in live /\ work' = next \o Tail(work)
      /\ UNCHANGED <<realm, style, result, seen, status, stable, edits, drops>>
  BY DEF KidsPage, Doing
<1>2. k \in KidsItem /\ Fits(k)
  BY <1>1, HeadFits DEF Item, AppendItem, TopsItem, KidsItem
<1>3. /\ k.of \in AppendItem /\ k.first \in Nat /\ k.got \in Seq(AppendItem)
      /\ Shows(k.of) /\ k.of.id \in seen /\ \A c \in ToSet(k.got) : Ready(c)
  BY <1>1, <1>2 DEF KidsItem, Fits
<1>. DEFINE p == pathOf[k.of.id]
<1>4. p \in Path /\ p = k.of.tree.pathOf[k.of.id] /\ \E h \in seen : pathOf[h] = p
  BY <1>1, <1>3 DEF ListInv, ResultFits, Shows, TreeFits
<1>5. /\ page \in Seq(AppendItem)
      /\ \A w \in ToSet(page) : w \in AppendItem /\ w.tree = Now /\ Shows(w)
                                /\ w.id \in ChildrenIn(Now, p)
  BY <1>3, <1>4, PageFacts DEF ListInv
<1>6. \A w \in ToSet(page) : Ready(w)
  BY <1>4, <1>5, ChildrenReady
<1>7. all \in Seq(AppendItem) /\ \A w \in ToSet(all) : Ready(w)
  <2>. HIDE DEF page, k
  <2>. QED
    BY <1>3, <1>5, <1>6, ConcatSet
<1>8. Embedded(k.of) \in Seq(AppendItem) /\ \A w \in ToSet(Embedded(k.of)) : Ready(w)
  BY <1>3, <1>4, EmbeddedReady
<1>9. next \in Seq(Item) /\ \A w \in ToSet(next) : Fits(w)
  <2>. HIDE DEF page, k, all
  <2>1. CASE ~IsLast(page)
    <3>1. /\ Kids(k.of, NextPage(k.first), all) \in Item
          /\ Fits(Kids(k.of, NextPage(k.first), all))
      BY <1>3, <1>7, PageSizeAssumption DEF Kids, NextPage, Item, KidsItem, Fits
    <3>. QED
      BY <2>1, <3>1, OneElement
  <2>2. CASE IsLast(page)
    <3>1. next \in Seq(AppendItem) /\ \A w \in ToSet(next) : Ready(w)
      BY <2>2, <1>7, <1>8
    <3>. HIDE DEF next
    <3>2. \A w \in ToSet(next) : w \in AppendItem
      BY <3>1 DEF ToSet
    <3>3. \A w \in AppendItem : w.do = "append"
      BY DEF AppendItem
    <3>. QED
      BY <3>1, <3>2, <3>3 DEF Fits, Item
  <2>. QED
    BY <2>1, <2>2
<1>. HIDE DEF next
<1>10. work' \in Seq(Item) /\ ToSet(work') = ToSet(next) \cup ToSet(Tail(work))
  BY <1>1, <1>9, HeadFits, ConcatSet
<1>. QED
  BY <1>1, <1>9, <1>10, HeadFits, NewWorkFits DEF ListInv, CountersFit

\* What is below a group is in order once the group is appended.
LEMMA BelowFits ==
    ASSUME NEW w \in AppendItem, Shows(w), pathOf[w.id] = w.tree.pathOf[w.id],
           seen' = seen \cup {w.id}, UNCHANGED pathOf
    PROVE  Below(w) \in Seq(Item) /\ \A c \in ToSet(Below(w)) : Fits(c)'
<1>1. \A c : Shows(c) => Shows(c)'
  BY DEF Shows, TreeFits
<1>. DEFINE p == w.tree.pathOf[w.id]
            all == Shown(w.tree, p)
<1>2. w.tree \in Tree /\ TreeFits(w.tree) /\ p \in Path /\ w.id \in w.tree.live
  BY DEF Shows, AppendItem, TreeFits
<1>3. CASE Counted(w)
  <2>1. Kids(w, 0, << >>) \in Item
    BY NoElement DEF Kids, Item, KidsItem
  <2>2. Shows(w)' /\ w.id \in seen'
    BY <1>1
  <2>3. /\ Kids(w, 0, << >>).do = "kids" /\ Kids(w, 0, << >>).of = w
        /\ Kids(w, 0, << >>).got = << >>
    BY DEF Kids
  <2>4. Fits(Kids(w, 0, << >>))'
    BY <2>2, <2>3, NoElement DEF Fits
  <2>. QED
    BY <1>3, <2>1, <2>4, OneElement DEF Below
<1>4. CASE ~Counted(w)
  <2>1. /\ all \in Seq(AppendItem)
        /\ \A i \in DOMAIN all : all[i].tree = w.tree /\ all[i].id \in ChildrenIn(w.tree, p)
    BY <1>2, ShownFacts
  <2>. HIDE DEF all
  <2>2. \A c \in ToSet(all) : /\ c \in AppendItem /\ c.tree = w.tree
                              /\ c.id \in ChildrenIn(w.tree, p)
    BY <2>1 DEF ToSet
  <2>3. ASSUME NEW c \in ToSet(all) PROVE Fits(c)'
    <3>. HIDE DEF p
    <3>1. Shows(c)
      BY <1>2, <2>2, ChildFacts DEF Shows
    <3>2. pathOf[c.id] = c.tree.pathOf[c.id] /\ Parent(c.tree.pathOf[c.id]) = p
      BY <1>2, <2>2, ChildFacts DEF TreeFits
    <3>3. pathOf'[w.id] = Parent(pathOf'[c.id])
      BY <3>2 DEF p
    <3>4. Shows(c)'
      BY <1>1, <3>1
    <3>5. ParentSeen(c.id)'
      BY <3>3 DEF ParentSeen
    <3>6. c.do = "append"
      BY <2>2 DEF AppendItem
    <3>. QED
      BY <3>4, <3>5, <3>6 DEF Fits, Ready
  <2>4. all \in Seq(Item)
    BY <2>1 DEF Item
  <2>. QED
    BY <1>4, <2>3, <2>4, NoElement DEF Below, Embedded, all, p
<1>. QED
  BY <1>3, <1>4

\* A new group is appended after its parent, and is not listed yet.
LEMMA AppendKeepsOrder ==
    ASSUME ResultFits, NEW g \in GroupId, g \notin seen, pathOf[g] \in Path, ParentSeen(g),
           result' = Append(result, g), seen' = seen \cup {g}, UNCHANGED pathOf
    PROVE  ResultFits'
<1>. DEFINE n == Len(result)
<1>1. /\ n \in Nat /\ DOMAIN result = 1..n /\ result \in Seq(GroupId)
      /\ result' \in Seq(GroupId) /\ DOMAIN result' = 1..(n + 1)
      /\ result'[n + 1] = g /\ \A i \in 1..n : result'[i] = result[i]
  BY DEF ResultFits
<1>2. \A i \in 1..n : result[i] \in seen
  BY <1>1 DEF ResultFits, ToSet
<1>3. seen' = ToSet(result')
  <2>1. \A i \in 1..(n + 1) : result'[i] \in seen \cup {g}
    BY <1>1, <1>2
  <2>2. \A h \in seen : \E i \in 1..(n + 1) : h = result'[i]
    BY <1>1 DEF ResultFits, ToSet
  <2>3. \E i \in 1..(n + 1) : g = result'[i]
    BY <1>1
  <2>. QED
    BY <1>1, <2>1, <2>2, <2>3 DEF ToSet
<1>4. ASSUME NEW i \in 1..(n + 1)
      PROVE  /\ \A j \in 1..(n + 1) : result'[i] = result'[j] => i = j
             /\ Len(pathOf[result'[i]]) > 1 =>
                  \E j \in 1..(i - 1) : pathOf[result'[j]] = Parent(pathOf[result'[i]])
  <2>. HIDE DEF n
  <2>1. CASE i = n + 1
    <3>1. \A j \in 1..n : result'[j] # g
      BY <1>1, <1>2
    <3>2. ASSUME Len(pathOf[g]) > 1
          PROVE  \E j \in 1..n : pathOf[result'[j]] = Parent(pathOf[g])
      <4>1. PICK h \in seen : pathOf[h] = Parent(pathOf[g])
        BY <3>2 DEF ParentSeen
      <4>2. PICK j \in 1..n : result[j] = h
        BY <1>1, <4>1 DEF ResultFits, ToSet
      <4>. QED
        BY <1>1, <4>1, <4>2
    <3>. QED
      BY <1>1, <2>1, <3>1, <3>2
  <2>2. CASE i # n + 1
    <3>1. /\ i \in 1..n
          /\ \A j \in 1..n : result[i] = result[j] => i = j
          /\ Len(pathOf[result[i]]) > 1 =>
               \E j \in 1..(i - 1) : pathOf[result[j]] = Parent(pathOf[result[i]])
      BY <1>1, <2>2 DEF ResultFits, ListedOnceAfterParent
    <3>2. \A j \in 1..(i - 1) : j \in 1..n
      BY <1>1, <3>1
    <3>. QED
      BY <1>1, <1>2, <3>1, <3>2
  <2>. QED
    BY <2>1, <2>2
<1>5. ListedOnceAfterParent'
  BY <1>1, <1>4 DEF ListedOnceAfterParent
<1>. QED
  BY <1>1, <1>3, <1>5 DEF ResultFits

LEMMA AppendGroupFits ==
    ASSUME ListInv, AppendGroup
    PROVE  ListInv'
<1>. DEFINE item == Head(work)
<1>1. /\ work # << >> /\ item.do = "append"
      /\ UNCHANGED <<realm, style, status, stable, edits, drops>>
  BY DEF AppendGroup, Doing
<1>2. item \in AppendItem /\ Ready(item) /\ item.id \in GroupId
  BY <1>1, HeadFits DEF Fits, Item, AppendItem, TopsItem, KidsItem
<1>3. CASE item.id \in seen
  <2>1. work' = Tail(work) /\ UNCHANGED <<result, seen>>
    BY <1>3 DEF AppendGroup
  <2>. QED
    BY <1>1, <2>1, HeadFits, NewWorkFits DEF ListInv, CountersFit
<1>4. CASE item.id \notin seen
  <2>1. /\ seen' = seen \cup {item.id} /\ result' = Append(result, item.id)
        /\ work' = Below(item) \o Tail(work) /\ UNCHANGED pathOf
    BY <1>1, <1>4 DEF AppendGroup, Mark, realm
  <2>2. Shows(item) /\ ParentSeen(item.id) /\ pathOf[item.id] = item.tree.pathOf[item.id]
        /\ pathOf[item.id] \in Path
    BY <1>2 DEF Ready, Shows, TreeFits
  <2>3. ResultFits'
    BY <1>2, <1>4, <2>1, <2>2, AppendKeepsOrder DEF ListInv
  <2>4. RealmFits' /\ CountersFit' /\ PathsStay
    BY <1>1 DEF ListInv, RealmFits, RealmTypeOK, OneGroupPerPath, CountersFit, realm, PathsStay
  <2>5. \A w \in Item : Fits(w) => Fits(w)'
    BY <2>1, <2>4, FitsStay, SeenAreGroups DEF ListInv, RealmFits, ResultFits
  <2>6. Below(item) \in Seq(Item) /\ \A w \in ToSet(Below(item)) : Fits(w)'
    BY <1>2, <2>1, <2>2, BelowFits
  <2>7. /\ Tail(work) \in Seq(Item) /\ \A w \in ToSet(Tail(work)) : w \in Item /\ Fits(w)
    BY <1>1, HeadFits DEF ToSet
  <2>. HIDE DEF item
  <2>8. work' \in Seq(Item) /\ ToSet(work') = ToSet(Below(item)) \cup ToSet(Tail(work))
    BY <2>1, <2>6, <2>7, ConcatSet
  <2>9. WorkFits'
    BY <2>5, <2>6, <2>7, <2>8 DEF WorkFits
  <2>. QED
    BY <2>3, <2>4, <2>9 DEF ListInv
<1>. QED
  BY <1>3, <1>4

LEMMA EditFits ==
    ASSUME ListInv, Edit
    PROVE  ListInv'
<1>1. AdminEdit /\ UNCHANGED <<style, work, result, seen, status>>
  BY DEF Edit
<1>2. RealmTypeOK' /\ PathsStay
  BY <1>1, AdminKeepsRealm DEF ListInv, RealmFits
<1>3. OneGroupPerPath' /\ IsFiniteSet(live')
  <2>1. CASE \E g \in GroupId, p \in Path, a \in EditAttrs : AddGroup(g, p, a)
    <3>1. PICK g \in GroupId, p \in Path, a \in EditAttrs : AddGroup(g, p, a)
      BY <2>1
    <3>2. IsFiniteSet(live')
      BY <3>1, FS_AddElement DEF AddGroup, ListInv, RealmFits
    <3>3. \A h \in live : h # g /\ pathOf'[h] = pathOf[h] /\ pathOf[h] # p
      BY <3>1, NoneAssumption DEF AddGroup, ListInv, RealmFits, RealmTypeOK, GroupsAt
    <3>4. pathOf'[g] = p /\ live' = live \cup {g}
      BY <3>1 DEF AddGroup, ListInv, RealmFits, RealmTypeOK
    <3>. QED
      BY <3>2, <3>3, <3>4 DEF OneGroupPerPath, ListInv, RealmFits
  <2>2. CASE \E g \in live : \/ DropGroup(g)
                             \/ \E u \in Account : Join(g, u) \/ Leave(g, u)
    <3>1. live' \subseteq live /\ pathOf' = pathOf
      BY <2>2 DEF DropGroup, Join, Leave
    <3>. QED
      BY <3>1, FS_Subset DEF OneGroupPerPath, ListInv, RealmFits
  <2>. QED
    BY <1>1, <2>1, <2>2 DEF AdminEdit
<1>4. \A w \in Item : Fits(w) => Fits(w)'
  BY <1>1, <1>2, FitsStay, SeenAreGroups DEF ListInv, RealmFits, ResultFits
<1>5. WorkFits'
  BY <1>1, <1>4 DEF ListInv, WorkFits, ToSet
<1>6. ResultFits'
  <2>1. \A g \in seen : pathOf'[g] = pathOf[g] /\ pathOf[g] \in Path
    BY <1>2, SeenAreGroups, NoneAssumption DEF PathsStay, ListInv, ResultFits
  <2>2. \A i \in DOMAIN result : pathOf'[result[i]] = pathOf[result[i]]
    BY <2>1 DEF ListInv, ResultFits, ToSet
  <2>3. \A i \in DOMAIN result : \A j \in 1..(i - 1) : j \in DOMAIN result
    BY DEF ListInv, ResultFits
  <2>4. ListedOnceAfterParent'
    BY <1>1, <2>2, <2>3 DEF ListedOnceAfterParent, ListInv, ResultFits
  <2>. QED
    BY <1>1, <2>1, <2>4 DEF ListInv, ResultFits
<1>7. CountersFit'
  BY <1>1, ListingAssumption DEF Edit, ListInv, CountersFit
<1>. QED
  BY <1>2, <1>3, <1>5, <1>6, <1>7 DEF ListInv, RealmFits

LEMMA ListingStepKeepsIt ==
    ListInv /\ [Next]_vars => ListInv'
<1>. SUFFICES ASSUME ListInv, [Next]_vars PROVE ListInv'
  OBVIOUS
<1>1. CASE Finish
  BY <1>1, NewWorkFits DEF Finish, ListInv, WorkFits
<1>2. CASE Fail
  BY <1>2, NewWorkFits DEF Fail, ListInv, WorkFits
<1>3. CASE UNCHANGED vars
  BY <1>3, NewWorkFits DEF vars, ListInv, WorkFits, CountersFit
<1>. QED
  BY <1>1, <1>2, <1>3, TopPageFits, AppendGroupFits, KidsPageFits, EditFits DEF Next, Listing

(***************************************************************************)
(* The theorems.                                                           *)
(***************************************************************************)
LEMMA ListInvTypes ==
    ListInv => TypeOK
<1>. SUFFICES ASSUME ListInv PROVE TypeOK
  OBVIOUS
<1>1. ASSUME NEW w \in Item, Fits(w) PROVE WorkItem(w)
  BY <1>1 DEF Item, AppendItem, TopsItem, KidsItem, Fits, WorkItem, ListInv, ResultFits
<1>2. \A i \in DOMAIN work : WorkItem(work[i])
  BY <1>1 DEF ListInv, WorkFits, ToSet
<1>. QED
  BY <1>2, SeenAreGroups DEF TypeOK, ListInv, RealmFits, ResultFits, CountersFit

\* The inductive invariant holds in every state of a listing, whatever groups are
\* created and deleted between its requests.
THEOREM ListingInvariant ==
    Spec => []ListInv
<1>. QED
  BY ListingStarts, ListingStepKeepsIt, PTL DEF Spec

\* Types: the work of a listing is made of groups and of page offsets, and the
\* children asked for are those of a group already appended (appendGroupHierarchy).
THEOREM ListingTypesHold ==
    Spec => []TypeOK
<1>. QED
  BY ListingInvariant, ListInvTypes, PTL

\* ListGroups returns no group twice and none before its parent, for pages of any
\* size and any number of groups created and deleted while it reads them.
THEOREM ListsOnceAfterParent ==
    Spec => []ListedOnceAfterParent
<1>1. ListInv => ListedOnceAfterParent
  BY DEF ListInv, ResultFits
<1>. QED
  BY <1>1, ListingInvariant, PTL

(***************************************************************************)
(* The place of a child among its siblings.                                *)
(***************************************************************************)
PlaceIn(t, p, g) == Cardinality({h \in ChildrenIn(t, p) : RankIn(t, h) < RankIn(t, g)})

LEMMA FinitelyManyChildren ==
    ASSUME NEW t \in Tree, TreeFits(t), NEW p
    PROVE  IsFiniteSet(ChildrenIn(t, p)) /\ Cardinality(ChildrenIn(t, p)) \in Nat
BY FS_Subset, FS_CardinalityType DEF ChildrenIn, TreeFits

\* Of two sets of which one has all of the other and one more, that one is larger.
LEMMA LargerByOne ==
    ASSUME NEW S, NEW T, IsFiniteSet(S), T \subseteq S, NEW x \in S, x \notin T
    PROVE  Cardinality(T) \in Nat /\ Cardinality(S) \in Nat /\ Cardinality(T) < Cardinality(S)
<1>1. IsFiniteSet(T)
  BY FS_Subset
<1>. DEFINE U == T \cup {x}
<1>2. U \subseteq S /\ Cardinality(U) = Cardinality(T) + 1
  BY <1>1, FS_AddElement
<1>3. Cardinality(U) <= Cardinality(S)
  BY <1>2, FS_Subset
<1>. QED
  BY <1>1, <1>2, <1>3, FS_CardinalityType

LEMMA PlacesDiffer ==
    ASSUME NEW t \in Tree, TreeFits(t), NEW p \in Path \cup {<< >>}, NEW g \in ChildrenIn(t, p)
    PROVE  /\ PlaceIn(t, p, g) \in Nat /\ PlaceIn(t, p, g) < Cardinality(ChildrenIn(t, p))
           /\ \A h \in ChildrenIn(t, p) : PlaceIn(t, p, g) = PlaceIn(t, p, h) => g = h
<1>. DEFINE kids == ChildrenIn(t, p)
            B(x) == {h \in kids : RankIn(t, h) < RankIn(t, x)}
<1>0. g \in kids
  OBVIOUS
<1>1. IsFiniteSet(kids) /\ \A x \in kids : RankIn(t, x) \in Nat /\ IsFiniteSet(B(x))
  BY FinitelyManyChildren, ChildFacts, ListingAssumption, FS_Subset DEF RankIn
<1>2. \A x : PlaceIn(t, p, x) = Cardinality(B(x))
  BY DEF PlaceIn
<1>3. PlaceIn(t, p, g) \in Nat /\ PlaceIn(t, p, g) < Cardinality(kids)
  <2>. HIDE DEF kids
  <2>1. RankIn(t, g) \in Nat
    BY <1>0, <1>1
  <2>2. B(g) \subseteq kids /\ g \notin B(g)
    BY <2>1
  <2>3. IsFiniteSet(kids)
    BY <1>1
  <2>. HIDE DEF B
  <2>. QED
    BY <1>0, <1>2, <2>2, <2>3, LargerByOne
<1>4. ASSUME NEW x \in kids, NEW y \in kids, RankIn(t, x) < RankIn(t, y)
      PROVE  Cardinality(B(x)) # Cardinality(B(y))
  <2>. HIDE DEF kids
  <2>1. RankIn(t, x) \in Nat /\ RankIn(t, y) \in Nat /\ \A h \in kids : RankIn(t, h) \in Nat
    BY <1>1
  <2>2. x \in B(y) /\ x \notin B(x)
    BY <1>4, <2>1
  <2>3. B(x) \subseteq B(y)
    BY <1>4, <2>1
  <2>. HIDE DEF B
  <2>4. /\ Cardinality(B(x)) \in Nat /\ Cardinality(B(y)) \in Nat
        /\ Cardinality(B(x)) < Cardinality(B(y))
    BY <1>1, <2>2, <2>3, LargerByOne
  <2>. QED
    BY <2>4
<1>5. ASSUME NEW h \in kids, PlaceIn(t, p, g) = PlaceIn(t, p, h) PROVE g = h
  <2>1. ~(RankIn(t, g) < RankIn(t, h)) /\ ~(RankIn(t, h) < RankIn(t, g))
    BY <1>2, <1>4, <1>5
  <2>2. RankIn(t, g) = RankIn(t, h)
    <3>. HIDE DEF kids
    <3>1. RankIn(t, g) \in Nat /\ RankIn(t, h) \in Nat
      BY <1>0, <1>1
    <3>. QED
      BY <2>1, <3>1
  <2>. QED
    BY <2>2, SiblingsDiffer
<1>. QED
  BY <1>3, <1>5

\* An answer shows every child at its place.
LEMMA ShownAtPlace ==
    ASSUME NEW t \in Tree, TreeFits(t), NEW p \in Path \cup {<< >>}
    PROVE  /\ DOMAIN Shown(t, p) = 1..Cardinality(ChildrenIn(t, p))
           /\ \A g \in ChildrenIn(t, p) : Shown(t, p)[PlaceIn(t, p, g) + 1].id = g
<1>. DEFINE kids == ChildrenIn(t, p)
            n    == Cardinality(kids)
            s    == Sorted(t, p)
<1>1. s = [i \in 1..n |-> CHOOSE g \in kids : PlaceIn(t, p, g) = i - 1]
  BY DEF Sorted, PlaceIn
<1>2. n \in Nat
  BY FinitelyManyChildren
<1>3. Shown(t, p) = [i \in 1..n |-> [do |-> "append", id |-> s[i], tree |-> t]]
  BY <1>1 DEF Shown
<1>4. ASSUME NEW g \in kids PROVE Shown(t, p)[PlaceIn(t, p, g) + 1].id = g
  <2>. DEFINE m == PlaceIn(t, p, g)
  <2>1. m \in Nat /\ m < n /\ \A h \in kids : m = PlaceIn(t, p, h) => g = h
    BY PlacesDiffer
  <2>. HIDE DEF kids, s
  <2>2. m + 1 \in 1..n /\ (m + 1) - 1 = m
    BY <1>2, <2>1
  <2>. HIDE DEF m, n
  <2>3. s[m + 1] = CHOOSE h \in kids : PlaceIn(t, p, h) = m
    BY <1>1, <2>2
  <2>4. s[m + 1] = g
    BY <2>1, <2>3 DEF m
  <2>. QED
    BY <1>3, <2>2, <2>4 DEF m
<1>. QED
  BY <1>3, <1>4

\* Of the children from the first place on, a page shows those that the next page
\* does not.
LEMMA PageShows ==
    ASSUME RealmFits, NEW p \in Path \cup {<< >>}, NEW first \in Nat,
           NEW g \in ChildrenIn(Now, p), first <= PlaceIn(Now, p, g)
    PROVE  \/ \E c \in ToSet(Page(p, first)) : c.id = g
           \/ ~IsLast(Page(p, first)) /\ NextPage(first) <= PlaceIn(Now, p, g)
<1>. DEFINE all  == Shown(Now, p)
            last == IF first + PageSize < Len(all) THEN first + PageSize ELSE Len(all)
            m    == PlaceIn(Now, p, g)
<1>1. Now \in Tree /\ TreeFits(Now)
  BY DEF Now, Tree, TreeFits, RealmFits, RealmTypeOK, OneGroupPerPath
<1>2. /\ all \in Seq(AppendItem) /\ Len(all) \in Nat /\ m \in Nat
      /\ m + 1 \in 1..Len(all) /\ all[m + 1].id = g
  <2>1. /\ all \in Seq(AppendItem) /\ DOMAIN all = 1..Cardinality(ChildrenIn(Now, p))
        /\ all[m + 1].id = g
    BY <1>1, ShownFacts, ShownAtPlace
  <2>2. m \in Nat /\ m < Cardinality(ChildrenIn(Now, p)) /\ Cardinality(ChildrenIn(Now, p)) \in Nat
    BY <1>1, PlacesDiffer, FinitelyManyChildren
  <2>. HIDE DEF all, m
  <2>3. Len(all) = Cardinality(ChildrenIn(Now, p))
    BY <2>1, <2>2
  <2>. QED
    BY <2>1, <2>2, <2>3
<1>3. Page(p, first) = SubSeq(all, first + 1, last)
  BY DEF Page
<1>. HIDE DEF all
<1>4. last \in Nat /\ last <= Len(all) /\ first <= m
  BY <1>2, PageSizeAssumption
<1>5. CASE m < last
  <2>. HIDE DEF m, last
  <2>1. /\ DOMAIN Page(p, first) = 1..(last - first) /\ m + 1 - first \in 1..(last - first)
        /\ Page(p, first)[m + 1 - first] = all[m + 1]
    BY <1>2, <1>3, <1>4, <1>5
  <2>. QED
    BY <1>2, <2>1 DEF ToSet
<1>6. CASE ~(m < last)
  <2>1. last = first + PageSize /\ first + PageSize <= m
    BY <1>2, <1>4, <1>6, PageSizeAssumption
  <2>. HIDE DEF m, last
  <2>2. Len(Page(p, first)) = PageSize
    BY <1>2, <1>3, <1>4, <2>1, PageSizeAssumption
  <2>. QED
    BY <2>1, <2>2, PageSizeAssumption DEF m, IsLast, NextPage
<1>. QED
  BY <1>5, <1>6

(***************************************************************************)
(* What a listing hides.  A group that has been there all the time is      *)
(* still on its way into the result (Due) as long as it waits to be        *)
(* appended, or its place among its siblings is one the paging has not     *)
(* come to yet.  A deletion moves at most one group over that mark.        *)
(***************************************************************************)
Place(g)  == PlaceIn(Now, Parent(pathOf[g]), g)
Listed(w) == IF w.do = "tops" THEN << >> ELSE pathOf[w.of.id]

Queued(w, g)  == w.do = "append" /\ w.id = g
Held(w, g)    == w.do = "kids" /\ \E c \in ToSet(w.got) : c.id = g
Awaited(w, g) == w.do \in {"tops", "kids"} /\ Parent(pathOf[g]) = Listed(w) /\ w.first <= Place(g)
DueIn(w, g)   == Queued(w, g) \/ Held(w, g) \/ Awaited(w, g)
Due(g)        == \E w \in ToSet(work) : DueIn(w, g)

Hidden == {g \in stable : ParentSeen(g) /\ g \notin seen /\ ~Due(g)}

\* Children are being listed for the first item only, top groups after all others;
\* every answer in the work shows all groups that have been there since.
InTurn(s) == \A i \in DOMAIN s : /\ s[i].do = "kids" => i = 1
                                 /\ s[i].do = "tops" => i = Len(s)
ShowsStable(w) ==
    /\ w.do = "append" => stable \subseteq w.tree.live
    /\ w.do = "kids" => /\ stable \subseteq w.of.tree.live
                        /\ \A c \in ToSet(w.got) : stable \subseteq c.tree.live

HidingInv == /\ status = "ok" => work = << >>
             /\ InTurn(work) /\ \A w \in ToSet(work) : ShowsStable(w)
             /\ Cardinality(Hidden) <= drops

LEMMA PositiveNumber ==
    \A n \in Nat \ {0} : n = 1 <=> ~(n > 1)
OBVIOUS

LEMMA NowFits ==
    ASSUME ListInv
    PROVE  Now \in Tree /\ TreeFits(Now)
BY DEF ListInv, Now, Tree, TreeFits, RealmFits, RealmTypeOK, OneGroupPerPath

\* A group that an answer shows is a child of its parent there.
LEMMA ChildOfParent ==
    ASSUME NEW t \in Tree, TreeFits(t), NEW g \in t.live
    PROVE  /\ pathOf[g] = t.pathOf[g] /\ pathOf[g] \in Path /\ Len(pathOf[g]) \in Nat \ {0}
           /\ Parent(pathOf[g]) \in Path \cup {<< >>}
           /\ Len(pathOf[g]) > 1 => Parent(pathOf[g]) \in Path
           /\ (Parent(pathOf[g]) = << >> <=> Len(pathOf[g]) = 1)
           /\ g \in ChildrenIn(t, Parent(pathOf[g]))
<1>. DEFINE q == pathOf[g]
            p == Parent(q)
<1>1. q = t.pathOf[g] /\ q \in Path
  BY DEF TreeFits
<1>2. q \in Seq(Segment) /\ Len(q) \in Nat \ {0} /\ \A k \in 1..Len(q) : SubSeq(q, 1, k) \in Path
  BY <1>1, PathFacts
<1>. HIDE DEF q
<1>3. p = SubSeq(q, 1, Len(q) - 1) /\ Len(p) = Len(q) - 1
  <2>. DEFINE n == Len(q) - 1
  <2>1. n \in Nat /\ n <= Len(q) /\ p = SubSeq(q, 1, n)
    BY <1>2 DEF Parent
  <2>. HIDE DEF n
  <2>2. Len(SubSeq(q, 1, n)) = n
    BY <1>2, <2>1
  <2>. QED
    BY <2>1, <2>2 DEF n
<1>4. Len(q) > 1 => p \in Path
  <2>1. Len(q) > 1 => Len(q) - 1 \in 1..Len(q)
    BY <1>2
  <2>. QED
    BY <1>2, <1>3, <2>1
<1>5. p = << >> <=> Len(q) = 1
  BY <1>2, <1>3
<1>6. p \in Path \cup {<< >>}
  <2>. HIDE DEF p
  <2>1. Len(q) > 1 \/ Len(q) = 1
    BY <1>2, PositiveNumber, Zenon
  <2>. QED
    BY <1>4, <1>5, <2>1
<1>7. Under(p, q) /\ Len(q) = Len(p) + 1
  BY <1>2, <1>3 DEF Under
<1>8. g \in ChildrenIn(t, p)
  BY <1>1, <1>7 DEF ChildrenIn, q
<1>. QED
  BY <1>1, <1>2, <1>4, <1>5, <1>6, <1>8 DEF q

LEMMA StableFacts ==
    ASSUME ListInv, NEW g \in stable
    PROVE  /\ g \in GroupId /\ g \in live /\ pathOf[g] \in Path
           /\ Parent(pathOf[g]) \in Path \cup {<< >>}
           /\ (Parent(pathOf[g]) = << >> <=> ~(Len(pathOf[g]) > 1))
           /\ g \in ChildrenIn(Now, Parent(pathOf[g])) /\ Place(g) \in Nat
<1>1. g \in live /\ g \in GroupId /\ Now \in Tree /\ TreeFits(Now) /\ g \in Now.live
  BY NowFits DEF ListInv, CountersFit, RealmFits, RealmTypeOK, Now
<1>. DEFINE t == Now
<1>. HIDE DEF t
<1>2. /\ pathOf[g] \in Path /\ Parent(pathOf[g]) \in Path \cup {<< >>}
      /\ Len(pathOf[g]) \in Nat \ {0}
      /\ (Parent(pathOf[g]) = << >> <=> Len(pathOf[g]) = 1)
      /\ g \in ChildrenIn(t, Parent(pathOf[g]))
  BY <1>1, ChildOfParent DEF t
<1>3. Len(pathOf[g]) = 1 <=> ~(Len(pathOf[g]) > 1)
  BY <1>2, PositiveNumber, Zenon
<1>4. PlaceIn(t, Parent(pathOf[g]), g) \in Nat
  BY <1>1, <1>2, PlacesDiffer DEF t
<1>. QED
  BY <1>1, <1>2, <1>3, <1>4 DEF Place, t

LEMMA HiddenFinite ==
    ASSUME ListInv
    PROVE  IsFiniteSet(Hidden) /\ Cardinality(Hidden) \in Nat
BY FS_Subset, FS_CardinalityType DEF Hidden, ListInv, CountersFit, RealmFits

LEMMA SplitSet ==
    ASSUME NEW S, NEW s \in Seq(S), s # << >>
    PROVE  /\ ToSet(s) = {Head(s)} \cup ToSet(Tail(s)) /\ Len(Tail(s)) = Len(s) - 1
           /\ \A i \in DOMAIN Tail(s) : i + 1 \in DOMAIN s /\ Tail(s)[i] = s[i + 1]
<1>1. /\ Len(s) \in Nat \ {0} /\ DOMAIN s = 1..Len(s) /\ Head(s) = s[1]
      /\ DOMAIN Tail(s) = 1..(Len(s) - 1) /\ Len(Tail(s)) = Len(s) - 1
      /\ \A i \in 1..(Len(s) - 1) : Tail(s)[i] = s[i + 1]
  OBVIOUS
<1>. DEFINE t == Tail(s)
<1>2. \A i \in 1..Len(s) : i # 1 => i - 1 \in DOMAIN t /\ t[i - 1] = s[i]
  <2>1. \A i \in 1..Len(s) : i # 1 => i - 1 \in 1..(Len(s) - 1) /\ (i - 1) + 1 = i
    BY <1>1
  <2>. QED
    BY <1>1, <2>1
<1>. HIDE DEF t
<1>3. \A i \in 1..Len(s) : s[i] \in {Head(s)} \cup ToSet(t)
  BY <1>1, <1>2 DEF ToSet
<1>4. ToSet(s) \subseteq {Head(s)} \cup ToSet(Tail(s))
  BY <1>1, <1>3 DEF ToSet, t
<1>. QED
  BY <1>1, <1>4, RestSet

\* What replaces the first item comes in turn before the others.
LEMMA StaysInTurn ==
    ASSUME work \in Seq(Item), work # << >>, InTurn(work), NEW s \in Seq(Item),
           \A i \in DOMAIN s : /\ s[i].do = "kids" => i = 1
                               /\ s[i].do = "tops" => i = Len(s) /\ Tail(work) = << >>
    PROVE  InTurn(s \o Tail(work))
<1>. DEFINE t   == Tail(work)
            all == s \o t
<1>1. /\ t \in Seq(Item) /\ Len(t) = Len(work) - 1 /\ Len(work) \in Nat \ {0}
      /\ \A i \in DOMAIN t : i + 1 \in DOMAIN work /\ t[i] = work[i + 1]
  BY SplitSet, RestSet
<1>. HIDE DEF t
<1>2. /\ Len(all) = Len(s) + Len(t) /\ DOMAIN all = 1..Len(all) /\ Len(s) \in Nat /\ Len(t) \in Nat
      /\ DOMAIN s = 1..Len(s) /\ DOMAIN t = 1..Len(t) /\ DOMAIN work = 1..Len(work)
      /\ \A i \in 1..Len(s) : all[i] = s[i]
      /\ \A i \in 1..Len(t) : all[Len(s) + i] = t[i]
  <2>1. t \in Seq(Item) /\ s \in Seq(Item) /\ work \in Seq(Item)
    BY <1>1
  <2>. QED
    BY ONLY <2>1
<1>. HIDE DEF all
<1>3. ASSUME NEW i \in DOMAIN all
      PROVE  (all[i].do = "kids" => i = 1) /\ (all[i].do = "tops" => i = Len(all))
  <2>1. CASE i <= Len(s)
    <3>1. all[i] = s[i] /\ i \in DOMAIN s /\ (t = << >> => Len(t) = 0)
      BY <1>2, <2>1
    <3>. QED
      BY <1>2, <3>1 DEF t
  <2>2. CASE ~(i <= Len(s))
    <3>. DEFINE j == i - Len(s)
    <3>1. j \in 1..Len(t) /\ Len(s) + j = i /\ j + 1 # 1
      BY <1>2, <2>2
    <3>. HIDE DEF j
    <3>2. all[i] = work[j + 1] /\ j + 1 \in DOMAIN work
      BY <1>1, <1>2, <3>1
    <3>3. all[i].do # "kids" /\ (all[i].do = "tops" => j + 1 = Len(work))
      BY <3>1, <3>2 DEF InTurn
    <3>4. j + 1 = Len(work) => i = Len(all)
      <4>. DEFINE a == Len(s)
                  b == Len(t)
                  c == Len(work)
      <4>1. /\ a \in Nat /\ b = c - 1 /\ c \in Nat \ {0} /\ Len(all) = a + b
            /\ j \in 1..b /\ a + j = i
        BY <1>1, <1>2, <3>1
      <4>. HIDE DEF a, b, c
      <4>2. j + 1 = c => i = a + b
        BY <4>1
      <4>. QED
        BY <4>1, <4>2 DEF c
    <3>. QED
      BY <3>3, <3>4
  <2>. QED
    BY <2>1, <2>2
<1>. QED
  BY <1>3 DEF InTurn, t, all

(***************************************************************************)
(* A request moves the work on without hiding anything.                    *)
(***************************************************************************)
LEMMA WorkMoves ==
    ASSUME ListInv, HidingInv, work # << >>, NEW s \in Seq(Item), work' = s \o Tail(work),
           UNCHANGED <<realm, stable, drops>>, status' # "ok", seen \subseteq seen',
           \A i \in DOMAIN s : /\ s[i].do = "kids" => i = 1
                               /\ s[i].do = "tops" => i = Len(s) /\ Tail(work) = << >>,
           \A w \in ToSet(s) : ShowsStable(w),
           \A g \in stable : DueIn(Head(work), g) => g \in seen' \/ \E w \in ToSet(s) : DueIn(w, g),
           \A g \in stable : ParentSeen(g)' /\ ~ParentSeen(g) => \E w \in ToSet(s) : DueIn(w, g)
    PROVE  HidingInv'
<1>1. work \in Seq(Item)
  BY DEF ListInv, WorkFits
<1>2. /\ Tail(work) \in Seq(Item) /\ ToSet(work) = {Head(work)} \cup ToSet(Tail(work))
      /\ ToSet(work') = ToSet(s) \cup ToSet(Tail(work))
  <2>1. Tail(work) \in Seq(Item)
    BY <1>1, RestSet
  <2>2. ToSet(work) = {Head(work)} \cup ToSet(Tail(work))
    BY <1>1, SplitSet
  <2>. DEFINE t == Tail(work)
  <2>. HIDE DEF t
  <2>3. ToSet(s \o t) = ToSet(s) \cup ToSet(t)
    BY <2>1, ConcatSet DEF t
  <2>. QED
    BY <2>1, <2>2, <2>3 DEF t
<1>3. InTurn(work)'
  BY <1>1, StaysInTurn DEF HidingInv, InTurn
<1>4. \A w \in ToSet(work') : ShowsStable(w)
  BY <1>2 DEF HidingInv
<1>5. \A w \in ToSet(work') : ShowsStable(w)'
  BY <1>4 DEF ShowsStable
<1>6. \A w, g : DueIn(w, g)' <=> DueIn(w, g)
  BY DEF DueIn, Queued, Held, Awaited, Listed, Place, PlaceIn, Now, realm, ChildrenIn, RankIn
<1>7. ASSUME NEW g \in Hidden' PROVE g \in Hidden
  <2>1. g \in stable /\ ParentSeen(g)' /\ g \notin seen' /\ ~Due(g)'
    BY <1>7 DEF Hidden
  <2>2. \A w \in ToSet(work') : ~DueIn(w, g)
    BY <1>6, <2>1 DEF Due
  <2>3. ParentSeen(g)
    BY <1>2, <2>1, <2>2
  <2>4. \A w \in ToSet(work) : ~DueIn(w, g)
    BY <1>2, <2>1, <2>2
  <2>. QED
    BY <2>1, <2>3, <2>4 DEF Hidden, Due
<1>8. Cardinality(Hidden') <= drops
  <2>1. Cardinality(Hidden') <= Cardinality(Hidden) /\ Cardinality(Hidden') \in Nat
    BY <1>7, HiddenFinite, FS_Subset, FS_CardinalityType
  <2>. QED
    BY <2>1, HiddenFinite DEF HidingInv, ListInv, CountersFit
<1>. QED
  BY <1>3, <1>5, <1>8 DEF HidingInv

\* The groups and the answers in the work, item by item.
LEMMA AppendDue ==
    ASSUME NEW s \in Seq(AppendItem), NEW g, NEW c \in ToSet(s), c.id = g
    PROVE  \E w \in ToSet(s) : DueIn(w, g)
<1>1. c \in AppendItem
  BY DEF ToSet
<1>. QED
  BY <1>1 DEF DueIn, Queued, AppendItem

LEMMA AppendItemsInTurn ==
    ASSUME NEW s \in Seq(AppendItem), NEW i \in DOMAIN s
    PROVE  s[i] \in AppendItem /\ s[i].do = "append" /\ s[i] \in ToSet(s)
<1>1. s[i] \in AppendItem /\ s[i] \in ToSet(s)
  BY DEF ToSet
<1>. QED
  BY <1>1 DEF AppendItem

LEMMA TopPageHidesNothing ==
    ASSUME ListInv, HidingInv, TopPage
    PROVE  HidingInv'
<1>. DEFINE w    == Head(work)
            page == Page(<< >>, w.first)
            next == Tops(NextPage(w.first))
            more == IF IsLast(page) THEN << >> ELSE <<next>>
            s    == page \o more
<1>1. /\ work # << >> /\ w.do = "tops" /\ work' = page \o more \o Tail(work)
      /\ UNCHANGED <<realm, style, result, seen, status, stable, edits, drops>>
      /\ status = "listing"
  BY DEF TopPage, Doing
<1>2. w \in TopsItem /\ w.first \in Nat
  BY <1>1, HeadFits DEF Item, AppendItem, TopsItem, KidsItem
<1>3. Tail(work) = << >>
  <2>1. work \in Seq(Item) /\ InTurn(work)
    BY DEF ListInv, WorkFits, HidingInv
  <2>2. Len(work) = 1
    BY <1>1, <2>1 DEF InTurn
  <2>. DEFINE t == Tail(work)
  <2>3. t \in Seq(Item) /\ Len(t) = 0
    BY <1>1, <2>1, <2>2, SplitSet, RestSet
  <2>. HIDE DEF t
  <2>4. t = << >>
    BY <2>3
  <2>. QED
    BY <2>4 DEF t
<1>4. /\ page \in Seq(AppendItem) /\ page \in Seq(Item)
      /\ \A c \in ToSet(page) : c \in AppendItem /\ c.tree = Now
  <2>1. /\ page \in Seq(AppendItem)
        /\ \A c \in ToSet(page) : c \in AppendItem /\ c.tree = Now
    BY <1>2, PageFacts DEF ListInv
  <2>. HIDE DEF page
  <2>. QED
    BY <2>1 DEF Item
<1>5. next \in Item /\ next.do = "tops" /\ next.first = NextPage(w.first) /\ Listed(next) = << >>
  BY <1>2, PageSizeAssumption DEF Tops, NextPage, Item, TopsItem, Listed
<1>. HIDE DEF page, next
<1>6. /\ more \in Seq(Item) /\ (IsLast(page) => more = << >>)
      /\ (~IsLast(page) => more = <<next>>)
  BY <1>5
<1>. HIDE DEF more
<1>7. /\ s \in Seq(Item) /\ ToSet(s) = ToSet(page) \cup ToSet(more)
      /\ (IsLast(page) => ToSet(more) = {}) /\ (~IsLast(page) => ToSet(more) = {next})
  BY <1>4, <1>5, <1>6, ConcatSet, OneElement, NoElement
<1>8. ASSUME NEW i \in DOMAIN s
      PROVE  (s[i].do = "kids" => i = 1) /\ (s[i].do = "tops" => i = Len(s) /\ Tail(work) = << >>)
  <2>1. /\ Len(s) = Len(page) + Len(more) /\ i \in 1..Len(s) /\ Len(page) \in Nat
        /\ \A j \in 1..Len(page) : s[j] = page[j] /\ page[j].do = "append"
    BY <1>4, <1>6, AppendItemsInTurn
  <2>2. CASE i \in 1..Len(page)
    BY <2>1, <2>2
  <2>3. CASE i \notin 1..Len(page)
    <3>0. CASE IsLast(page)
      <4>1. Len(more) = 0
        BY <1>6, <3>0
      <4>. QED
        BY <2>1, <2>3, <4>1
    <3>. SUFFICES ASSUME ~IsLast(page)
                  PROVE  (s[i].do = "kids" => i = 1)
                         /\ (s[i].do = "tops" => i = Len(s) /\ Tail(work) = << >>)
      BY <3>0
    <3>1. more = <<next>> /\ i = Len(page) + 1 /\ Len(s) = Len(page) + 1
      <4>1. more = <<next>> /\ Len(more) = 1
        BY <1>6
      <4>. QED
        BY <2>1, <2>3, <4>1
    <3>2. s[i] = next
      BY <1>4, <1>6, <3>1
    <3>. QED
      BY <1>3, <1>5, <3>1, <3>2
  <2>. QED
    BY <2>2, <2>3
<1>9. ASSUME NEW c \in ToSet(s) PROVE ShowsStable(c)
  <2>1. CASE c \in ToSet(page)
    BY <1>4, <2>1 DEF ShowsStable, AppendItem, Now, ListInv, CountersFit
  <2>2. CASE c \notin ToSet(page)
    BY <1>5, <1>7, <2>2 DEF ShowsStable
  <2>. QED
    BY <2>1, <2>2
<1>10. ASSUME NEW g \in stable, DueIn(w, g) PROVE \E c \in ToSet(s) : DueIn(c, g)
  <2>1. Parent(pathOf[g]) = << >> /\ w.first <= Place(g)
    BY <1>1, <1>10 DEF DueIn, Queued, Held, Awaited, Listed
  <2>2. g \in ChildrenIn(Now, << >>) /\ w.first <= PlaceIn(Now, << >>, g)
    BY <2>1, StableFacts DEF Place
  <2>3. \/ \E c \in ToSet(page) : c.id = g
        \/ ~IsLast(page) /\ NextPage(w.first) <= PlaceIn(Now, << >>, g)
    BY <1>2, <2>2, PageShows DEF ListInv, page
  <2>4. CASE \E c \in ToSet(page) : c.id = g
    BY <1>4, <1>7, <2>4, AppendDue
  <2>5. CASE ~IsLast(page) /\ NextPage(w.first) <= PlaceIn(Now, << >>, g)
    BY <1>5, <1>7, <2>1, <2>5 DEF DueIn, Awaited, Place
  <2>. QED
    BY <2>3, <2>4, <2>5
<1>11. work' = s \o Tail(work)
  BY <1>1 DEF page, more, next
<1>. HIDE DEF s, w
<1>12. \A g \in stable : ~(ParentSeen(g)' /\ ~ParentSeen(g))
  BY <1>1 DEF ParentSeen, realm
<1>13. UNCHANGED <<realm, stable, drops>> /\ status' # "ok" /\ seen \subseteq seen'
  BY <1>1
<1>. QED
  BY <1>1, <1>7, <1>8, <1>9, <1>10, <1>11, <1>12, <1>13, WorkMoves DEF w

\* A group is appended; what is below it is due from now on.
LEMMA BelowIsDue ==
    ASSUME ListInv, NEW w \in AppendItem, Shows(w), stable \subseteq w.tree.live,
           NEW g \in stable, Parent(pathOf[g]) = pathOf[w.id]
    PROVE  \E c \in ToSet(Below(w)) : DueIn(c, g)
<1>. DEFINE t == w.tree
            p == t.pathOf[w.id]
<1>1. t \in Tree /\ TreeFits(t) /\ w.id \in t.live /\ p = pathOf[w.id] /\ p \in Path /\ g \in t.live
  BY DEF Shows, AppendItem, TreeFits
<1>2. g \in ChildrenIn(t, p)
  BY <1>1, ChildOfParent
<1>3. CASE Counted(w)
  <2>. DEFINE k == Kids(w, 0, << >>)
  <2>1. k.do = "kids" /\ k.first = 0 /\ Listed(k) = Parent(pathOf[g])
    BY DEF Kids, Listed
  <2>2. 0 <= Place(g)
    BY StableFacts
  <2>3. Below(w) = <<k>> /\ ToSet(<<k>>) = {k}
    BY <1>3, OneElement DEF Below
  <2>. HIDE DEF k
  <2>. QED
    BY <2>1, <2>2, <2>3 DEF DueIn, Awaited
<1>4. CASE ~Counted(w)
  <2>1. style = "embedded"
    BY <1>2, <1>4 DEF Counted
  <2>2. Below(w) = Shown(t, p)
    BY <1>4, <2>1 DEF Below, Embedded
  <2>3. /\ Shown(t, p) \in Seq(AppendItem) /\ PlaceIn(t, p, g) + 1 \in DOMAIN Shown(t, p)
        /\ Shown(t, p)[PlaceIn(t, p, g) + 1].id = g
    <3>1. /\ Shown(t, p) \in Seq(AppendItem)
          /\ DOMAIN Shown(t, p) = 1..Cardinality(ChildrenIn(t, p))
          /\ Shown(t, p)[PlaceIn(t, p, g) + 1].id = g
      BY <1>1, <1>2, ShownFacts, ShownAtPlace
    <3>2. /\ PlaceIn(t, p, g) \in Nat /\ Cardinality(ChildrenIn(t, p)) \in Nat
          /\ PlaceIn(t, p, g) < Cardinality(ChildrenIn(t, p))
      BY <1>1, <1>2, PlacesDiffer, FinitelyManyChildren
    <3>. QED
      BY <3>1, <3>2
  <2>4. \E c \in ToSet(Shown(t, p)) : c.id = g
    BY <2>3 DEF ToSet
  <2>. QED
    BY <2>2, <2>3, <2>4, AppendDue
<1>. QED
  BY <1>3, <1>4

LEMMA AppendGroupHidesNothing ==
    ASSUME ListInv, HidingInv, AppendGroup
    PROVE  HidingInv'
<1>. DEFINE w == Head(work)
<1>1. /\ work # << >> /\ w.do = "append" /\ status = "listing"
      /\ UNCHANGED <<realm, style, status, stable, edits, drops>>
  BY DEF AppendGroup, Doing
<1>2. w \in AppendItem /\ Shows(w) /\ w \in ToSet(work) /\ work \in Seq(Item)
  BY <1>1, HeadFits, RestSet
     DEF Fits, Ready, Item, AppendItem, TopsItem, KidsItem, ListInv, WorkFits
<1>3. stable \subseteq w.tree.live
  BY <1>1, <1>2 DEF HidingInv, ShowsStable
<1>4. \A g \in stable : DueIn(w, g) => g = w.id
  BY <1>1 DEF DueIn, Queued, Held, Awaited
<1>5. CASE w.id \in seen
  <2>. DEFINE s == << >>
  <2>1. work' = s \o Tail(work) /\ UNCHANGED seen /\ s \in Seq(Item) /\ DOMAIN s = {} /\ ToSet(s) = {}
    <3>1. work' = Tail(work) /\ UNCHANGED seen /\ Tail(work) \in Seq(Item)
      BY <1>2, <1>5, <1>1, RestSet DEF AppendGroup
    <3>. QED
      BY <3>1, NoElement
  <2>. HIDE DEF s
  <2>2. \A g \in stable : ~(ParentSeen(g)' /\ ~ParentSeen(g))
    BY <1>1, <2>1 DEF ParentSeen, realm
  <2>3. UNCHANGED <<realm, stable, drops>> /\ status' # "ok" /\ seen \subseteq seen'
    BY <1>1, <2>1
  <2>. QED
    BY <1>1, <1>4, <1>5, <2>1, <2>2, <2>3, WorkMoves
<1>6. CASE w.id \notin seen
  <2>. DEFINE s == Below(w)
  <2>1. work' = s \o Tail(work) /\ seen' = seen \cup {w.id}
    BY <1>6 DEF AppendGroup, Mark
  <2>2. /\ s \in Seq(Item) /\ \A i \in DOMAIN s : s[i].do # "tops" /\ (s[i].do = "kids" => i = 1)
        /\ \A c \in ToSet(s) : ShowsStable(c)
    <3>1. CASE Counted(w)
      <4>. DEFINE k == Kids(w, 0, << >>)
      <4>1. k.do = "kids" /\ k.of = w /\ k.got = << >> /\ k \in Item
        BY <1>2, NoElement DEF Kids, Item, KidsItem
      <4>2. s = <<k>>
        BY <3>1 DEF Below
      <4>. HIDE DEF k, s
      <4>3. ShowsStable(k)
        BY <1>3, <4>1, NoElement DEF ShowsStable
      <4>. QED
        BY <4>1, <4>2, <4>3, OneElement
    <3>2. CASE ~Counted(w)
      <4>1. w.tree \in Tree /\ TreeFits(w.tree) /\ w.tree.pathOf[w.id] \in Path
        BY <1>2 DEF Shows, AppendItem, TreeFits
      <4>2. s = << >> \/ s = Shown(w.tree, w.tree.pathOf[w.id])
        BY <3>2 DEF Below, Embedded
      <4>. HIDE DEF s
      <4>3. s \in Seq(AppendItem) /\ \A i \in DOMAIN s : s[i].tree = w.tree
        <5>. DEFINE a == Shown(w.tree, w.tree.pathOf[w.id])
        <5>1. a \in Seq(AppendItem) /\ \A i \in DOMAIN a : a[i].tree = w.tree
          BY <4>1, ShownFacts
        <5>2. << >> \in Seq(AppendItem) /\ DOMAIN << >> = {}
          OBVIOUS
        <5>. QED
          BY <4>2, <5>1, <5>2
      <4>4. \A i \in DOMAIN s : s[i].do = "append"
        BY <4>3, AppendItemsInTurn
      <4>5. \A c \in ToSet(s) : c.do = "append" /\ c.tree = w.tree
        BY <4>3, <4>4 DEF ToSet
      <4>6. s \in Seq(Item)
        BY <4>3 DEF Item
      <4>. QED
        BY <1>3, <4>4, <4>5, <4>6 DEF ShowsStable
    <3>. QED
      BY <3>1, <3>2
  <2>3. ASSUME NEW g \in stable, ParentSeen(g)', ~ParentSeen(g) PROVE \E c \in ToSet(s) : DueIn(c, g)
    <3>1. Parent(pathOf[g]) = pathOf[w.id]
      BY <1>1, <2>1, <2>3 DEF ParentSeen, realm
    <3>. QED
      BY <1>2, <1>3, <3>1, BelowIsDue
  <2>. HIDE DEF s
  <2>4. UNCHANGED <<realm, stable, drops>> /\ status' # "ok" /\ seen \subseteq seen'
    BY <1>1, <2>1
  <2>. QED
    BY <1>1, <1>4, <2>1, <2>2, <2>3, <2>4, WorkMoves
<1>. QED
  BY <1>5, <1>6

LEMMA KidsPageHidesNothing ==
    ASSUME ListInv, HidingInv, KidsPage
    PROVE  HidingInv'
<1>. DEFINE k    == Head(work)
            p    == pathOf[k.of.id]
            page == Page(p, k.first)
            all  == k.got \o page
            more == Kids(k.of, NextPage(k.first), all)
            s    == IF ~IsLast(page) THEN <<more>>
                    ELSE IF all = << >> THEN Embedded(k.of) ELSE all
<1>1. /\ work # << >> /\ k.do = "kids" /\ k.of.id \in live /\ work' = s \o Tail(work)
      /\ UNCHANGED <<realm, style, result, seen, status, stable, edits, drops>>
      /\ status = "listing"
  BY DEF KidsPage, Doing
<1>2. k \in KidsItem /\ Fits(k) /\ k \in ToSet(work)
  BY <1>1, HeadFits, RestSet DEF Item, AppendItem, TopsItem, KidsItem, ListInv, WorkFits
<1>3. /\ k.of \in AppendItem /\ k.first \in Nat /\ k.got \in Seq(AppendItem)
      /\ Shows(k.of) /\ p \in Path
      /\ stable \subseteq k.of.tree.live /\ \A c \in ToSet(k.got) : stable \subseteq c.tree.live
  BY <1>1, <1>2
     DEF KidsItem, Fits, HidingInv, ShowsStable, ListInv, RealmFits, RealmTypeOK
<1>4. /\ page \in Seq(AppendItem)
      /\ \A c \in ToSet(page) : c \in AppendItem /\ c.tree = Now
  BY <1>3, PageFacts DEF ListInv
<1>. HIDE DEF page
<1>5. all \in Seq(AppendItem) /\ ToSet(all) = ToSet(k.got) \cup ToSet(page)
  BY <1>3, <1>4, ConcatSet
<1>6. \A c \in ToSet(all) : stable \subseteq c.tree.live
  <2>1. stable \subseteq Now.live
    BY DEF Now, ListInv, CountersFit
  <2>. QED
    BY <1>3, <1>4, <1>5, <2>1
<1>. HIDE DEF all
<1>7. /\ more \in Item /\ more.do = "kids" /\ more.of = k.of /\ more.got = all
      /\ more.first = NextPage(k.first)
  BY <1>3, <1>5, PageSizeAssumption DEF Kids, NextPage, Item, KidsItem
<1>8. \A c \in ToSet(Embedded(k.of)) : stable \subseteq c.tree.live
  <2>. DEFINE t == k.of.tree
              a == Shown(t, t.pathOf[k.of.id])
  <2>1. t \in Tree /\ TreeFits(t) /\ t.pathOf[k.of.id] \in Path
    BY <1>3 DEF Shows, AppendItem, TreeFits
  <2>2. a \in Seq(AppendItem) /\ \A i \in DOMAIN a : a[i].tree = t
    BY <2>1, ShownFacts
  <2>. HIDE DEF a
  <2>3. \A c \in ToSet(a) : c.tree = t
    BY <2>2 DEF ToSet
  <2>. QED
    BY <1>3, <2>3, NoElement DEF Embedded, a
<1>9. Embedded(k.of) \in Seq(AppendItem)
  BY <1>2, <1>3, <1>1, EmbeddedReady DEF Fits, Shows, TreeFits
<1>. HIDE DEF k, more
<1>10. CASE ~IsLast(page)
  <2>1. s = <<more>> /\ ToSet(s) = {more} /\ s \in Seq(Item) /\ DOMAIN s = {1} /\ s[1] = more
    BY <1>7, <1>10, OneElement
  <2>. HIDE DEF s
  <2>2. \A w \in ToSet(s) : ShowsStable(w)
    BY <1>3, <1>6, <1>7, <2>1 DEF ShowsStable
  <2>3. ASSUME NEW g \in stable, DueIn(k, g) PROVE DueIn(more, g)
    <3>1. CASE Held(k, g)
      BY <1>5, <1>7, <3>1 DEF DueIn, Held
    <3>2. CASE Awaited(k, g)
      <4>1. Parent(pathOf[g]) = p /\ k.first <= Place(g)
        BY <1>1, <3>2 DEF Awaited, Listed
      <4>2. g \in ChildrenIn(Now, p) /\ k.first <= PlaceIn(Now, p, g)
        BY <4>1, StableFacts DEF Place
      <4>3. \/ \E c \in ToSet(page) : c.id = g
            \/ ~IsLast(page) /\ NextPage(k.first) <= PlaceIn(Now, p, g)
        BY <1>3, <4>2, PageShows DEF ListInv, page
      <4>4. CASE \E c \in ToSet(page) : c.id = g
        BY <1>5, <1>7, <4>4 DEF DueIn, Held
      <4>5. CASE NextPage(k.first) <= PlaceIn(Now, p, g)
        BY <1>7, <4>1, <4>5 DEF DueIn, Awaited, Listed, Place
      <4>. QED
        BY <4>3, <4>4, <4>5
    <3>. QED
      BY <1>1, <2>3, <3>1, <3>2 DEF DueIn, Queued
  <2>4. \A i \in DOMAIN s : s[i].do # "tops" /\ (s[i].do = "kids" => i = 1)
    BY <1>7, <2>1
  <2>5. \A g \in stable : ~(ParentSeen(g)' /\ ~ParentSeen(g))
    BY <1>1 DEF ParentSeen, realm
  <2>6. UNCHANGED <<realm, stable, drops>> /\ status' # "ok" /\ seen \subseteq seen'
    BY <1>1
  <2>. QED
    BY <1>1, <2>1, <2>2, <2>3, <2>4, <2>5, <2>6, WorkMoves DEF k
<1>11. CASE IsLast(page)
  <2>1. s \in Seq(AppendItem) /\ \A c \in ToSet(s) : stable \subseteq c.tree.live
    BY <1>5, <1>6, <1>8, <1>9, <1>11
  <2>2. ASSUME NEW g \in stable, DueIn(k, g) PROVE \E c \in ToSet(s) : DueIn(c, g)
    <3>1. \E c \in ToSet(all) : c.id = g
      <4>1. CASE Held(k, g)
        BY <1>5, <4>1 DEF Held
      <4>2. CASE Awaited(k, g)
        <5>1. Parent(pathOf[g]) = p /\ k.first <= Place(g)
          BY <1>1, <4>2 DEF Awaited, Listed
        <5>2. g \in ChildrenIn(Now, p) /\ k.first <= PlaceIn(Now, p, g)
          BY <5>1, StableFacts DEF Place
        <5>3. \E c \in ToSet(page) : c.id = g
          BY <1>3, <1>11, <5>2, PageShows DEF ListInv, page
        <5>. QED
          BY <1>5, <5>3
      <4>. QED
        BY <1>1, <2>2, <4>1, <4>2 DEF DueIn, Queued
    <3>2. all # << >>
      BY <3>1, NoElement
    <3>3. s = all
      BY <1>11, <3>2
    <3>. QED
      BY <1>5, <3>1, <3>3, AppendDue
  <2>. HIDE DEF s
  <2>3. s \in Seq(Item) /\ \A i \in DOMAIN s : s[i].do = "append"
    BY <2>1, AppendItemsInTurn DEF Item
  <2>4. \A w \in ToSet(s) : ShowsStable(w)
    <3>1. \A w \in ToSet(s) : w.do = "append"
      BY <2>3 DEF ToSet
    <3>. QED
      BY <2>1, <3>1 DEF ShowsStable
  <2>5. \A g \in stable : ~(ParentSeen(g)' /\ ~ParentSeen(g))
    BY <1>1 DEF ParentSeen, realm
  <2>6. UNCHANGED <<realm, stable, drops>> /\ status' # "ok" /\ seen \subseteq seen'
    BY <1>1
  <2>7. work' = s \o Tail(work) /\ work # << >>
    BY <1>1 DEF s
  <2>. QED
    BY <2>2, <2>3, <2>4, <2>5, <2>6, <2>7, WorkMoves DEF k
<1>. QED
  BY <1>10, <1>11

LEMMA RestingHidesNothing ==
    ASSUME ListInv, HidingInv, UNCHANGED <<realm, work, seen, stable, drops>>,
           status' = "ok" => work = << >>
    PROVE  HidingInv'
<1>1. \A w, g : DueIn(w, g)' <=> DueIn(w, g)
  BY DEF DueIn, Queued, Held, Awaited, Listed, Place, PlaceIn, Now, realm, ChildrenIn, RankIn
<1>2. Hidden' = Hidden
  BY <1>1 DEF Hidden, Due, ParentSeen, realm
<1>3. InTurn(work)' /\ \A w \in ToSet(work') : ShowsStable(w)'
  BY DEF HidingInv, InTurn, ShowsStable
<1>. QED
  BY <1>2, <1>3 DEF HidingInv

(***************************************************************************)
(* An edit between two requests.  A creation moves nobody to the left; a   *)
(* deletion moves the siblings behind it by one place, and only the one at *)
(* the place the paging has come to falls before it.                       *)
(***************************************************************************)

\* Of two siblings, a deletion takes one and not the other only at its own path.
LEMMA OnlyThePathItself ==
    ASSUME NEW p \in Path, NEW q \in Path, NEW r \in Path, Len(q) = Len(r),
           Parent(q) = Parent(r), Under(p, q), ~Under(p, r)
    PROVE  p = q
<1>1. /\ p \in Seq(Segment) /\ q \in Seq(Segment) /\ r \in Seq(Segment)
      /\ Len(p) \in Nat \ {0} /\ Len(q) \in Nat \ {0} /\ Len(p) <= Len(q)
      /\ SubSeq(q, 1, Len(p)) = p /\ SubSeq(q, 1, Len(q)) = q
  BY PathFacts DEF Under
<1>2. CASE Len(p) = Len(q)
  BY <1>1, <1>2
<1>3. CASE Len(p) # Len(q)
  <2>. DEFINE n == Len(q) - 1
              m == Len(p)
  <2>1. n \in Nat /\ m \in Nat \ {0} /\ m <= n /\ n <= Len(q) /\ n <= Len(r)
    <3>. DEFINE b == Len(q)
    <3>1. m \in Nat \ {0} /\ b \in Nat \ {0} /\ m <= b /\ m # b /\ b = Len(r)
      BY <1>1, <1>3
    <3>. HIDE DEF m, b
    <3>2. b - 1 \in Nat /\ m <= b - 1 /\ b - 1 <= b
      BY <3>1
    <3>. QED
      BY <3>1, <3>2 DEF b
  <2>2. SubSeq(q, 1, n) = SubSeq(r, 1, n) /\ SubSeq(q, 1, m) = p
    BY <1>1 DEF Parent
  <2>3. ~(m <= Len(r) /\ SubSeq(r, 1, m) = p)
    BY DEF Under
  <2>. HIDE DEF n, m
  <2>4. \A i \in 1..n : q[i] = r[i]
    <3>1. \A i \in 1..n : SubSeq(q, 1, n)[i] = q[i] /\ SubSeq(r, 1, n)[i] = r[i]
      BY <1>1, <2>1
    <3>. QED
      BY <2>2, <3>1
  <2>5. SubSeq(r, 1, m) = SubSeq(q, 1, m)
    <3>1. /\ SubSeq(r, 1, m) = [i \in 1..m |-> r[i]]
          /\ SubSeq(q, 1, m) = [i \in 1..m |-> q[i]]
      BY <1>1, <2>1
    <3>2. \A i \in 1..m : i \in 1..n
      BY <2>1
    <3>. QED
      BY <2>4, <3>1, <3>2
  <2>6. m <= Len(r)
    <3>1. Len(r) \in Nat
      BY <1>1
    <3>. QED
      BY <2>1, <3>1
  <2>. QED
    BY <2>2, <2>3, <2>5, <2>6
<1>. QED
  BY <1>2, <1>3

\* What an edit leaves alone: the paths of the groups that stay and of those listed.
LEMMA EditLeaves ==
    ASSUME ListInv, Edit
    PROVE  /\ UNCHANGED <<style, work, result, seen, status>> /\ stable' = stable \cap live'
           /\ status # "ok" /\ drops' = IF live \subseteq live' THEN drops ELSE drops + 1
           /\ \A g \in live \cup seen : pathOf'[g] = pathOf[g]
           /\ \A w \in ToSet(work) : w.do \in {"tops", "kids"} => Listed(w)' = Listed(w)
           /\ \A g \in stable : ParentSeen(g)' <=> ParentSeen(g)
<1>1. /\ AdminEdit /\ UNCHANGED <<style, work, result, seen, status>> /\ stable' = stable \cap live'
      /\ status # "ok" /\ drops' = IF live \subseteq live' THEN drops ELSE drops + 1
  BY DEF Edit
<1>2. \A g \in GroupId : pathOf[g] \in Path => pathOf'[g] = pathOf[g]
  BY <1>1, AdminKeepsRealm, NoneAssumption DEF PathsStay, ListInv, RealmFits
<1>3. \A g \in live \cup seen : g \in GroupId /\ pathOf[g] \in Path
  BY SeenAreGroups DEF ListInv, RealmFits, RealmTypeOK, ResultFits
<1>4. \A g \in live \cup seen : pathOf'[g] = pathOf[g]
  BY <1>2, <1>3
<1>5. ASSUME NEW w \in ToSet(work), w.do \in {"tops", "kids"} PROVE Listed(w)' = Listed(w)
  <2>1. w \in Item /\ Fits(w)
    BY DEF ListInv, WorkFits, ToSet
  <2>2. CASE w.do = "tops"
    BY <2>2 DEF Listed
  <2>3. CASE w.do = "kids"
    <3>1. w.of.id \in seen
      BY <2>1, <2>3 DEF Fits
    <3>. QED
      BY <1>4, <2>3, <3>1 DEF Listed
  <2>. QED
    BY <1>5, <2>2, <2>3
<1>6. \A g \in stable : ParentSeen(g)' <=> ParentSeen(g)
  BY <1>1, <1>4 DEF ParentSeen, ListInv, CountersFit
<1>. QED
  BY <1>1, <1>4, <1>5, <1>6

\* The place of a group in two answers, of which the second lacks one group at most.
LEMMA PlacesKept ==
    ASSUME NEW t, NEW u, IsFiniteSet(t.live), IsFiniteSet(u.live), NEW p, NEW g \in t.live,
           g \in u.live, \A h \in t.live \cap u.live : u.pathOf[h] = t.pathOf[h]
    PROVE  /\ PlaceIn(t, p, g) \in Nat /\ PlaceIn(u, p, g) \in Nat
           /\ ChildrenIn(t, p) \subseteq u.live => PlaceIn(t, p, g) <= PlaceIn(u, p, g)
           /\ \A d : ChildrenIn(t, p) \subseteq u.live \cup {d}
                       => PlaceIn(t, p, g) <= PlaceIn(u, p, g) + 1
<1>. DEFINE B(x) == {h \in ChildrenIn(x, p) : RankIn(x, h) < RankIn(x, g)}
            b == B(t)
            c == B(u)
<1>1. PlaceIn(t, p, g) = Cardinality(b) /\ PlaceIn(u, p, g) = Cardinality(c)
  BY DEF PlaceIn
<1>2. b \subseteq t.live /\ c \subseteq u.live /\ b \subseteq ChildrenIn(t, p)
  BY DEF ChildrenIn
<1>3. \A h \in b : h \in u.live => h \in c
  BY DEF ChildrenIn, RankIn
<1>. HIDE DEF b, c, B
<1>4. IsFiniteSet(b) /\ IsFiniteSet(c) /\ Cardinality(b) \in Nat /\ Cardinality(c) \in Nat
  BY <1>2, FS_Subset, FS_CardinalityType
<1>5. ASSUME ChildrenIn(t, p) \subseteq u.live PROVE Cardinality(b) <= Cardinality(c)
  <2>1. b \subseteq c
    BY <1>2, <1>3, <1>5
  <2>. QED
    BY <1>4, <2>1, FS_Subset
<1>6. ASSUME NEW d, ChildrenIn(t, p) \subseteq u.live \cup {d}
      PROVE  Cardinality(b) <= Cardinality(c) + 1
  <2>. DEFINE e == c \cup {d}
  <2>1. b \subseteq e
    BY <1>2, <1>3, <1>6
  <2>2. IsFiniteSet(e) /\ Cardinality(e) \in Nat /\ Cardinality(e) <= Cardinality(c) + 1
    <3>1. IsFiniteSet(e) /\ (Cardinality(e) = Cardinality(c) \/ Cardinality(e) = Cardinality(c) + 1)
      BY <1>4, FS_AddElement
    <3>. QED
      BY <1>4, <3>1
  <2>. HIDE DEF e
  <2>3. Cardinality(b) <= Cardinality(e)
    BY <2>1, <2>2, FS_Subset
  <2>. QED
    BY <1>4, <2>2, <2>3
<1>. QED
  BY <1>1, <1>4, <1>5, <1>6

\* Without a deletion, no place becomes smaller.
LEMMA CreationMovesRight ==
    ASSUME ListInv, Edit, live \subseteq live', NEW g \in stable
    PROVE  Place(g) \in Nat /\ Place(g)' \in Nat /\ Place(g) <= Place(g)'
<1>. DEFINE p == Parent(pathOf[g])
            t == Now
<1>1. PICK u : u = Now'
  OBVIOUS
<1>2. /\ t.live = live /\ u.live = live' /\ g \in live /\ g \in live'
      /\ \A h \in live : u.pathOf[h] = t.pathOf[h] /\ pathOf'[h] = pathOf[h]
  BY <1>1, EditLeaves DEF Now, ListInv, CountersFit
<1>3. IsFiniteSet(live) /\ IsFiniteSet(live')
  BY EditFits DEF ListInv, RealmFits
<1>4. Place(g) = PlaceIn(t, p, g) /\ Place(g)' = PlaceIn(u, p, g)
  BY <1>1, <1>2 DEF Place
<1>5. ChildrenIn(t, p) \subseteq u.live
  BY <1>2 DEF ChildrenIn
<1>. HIDE DEF t, p
<1>. QED
  BY <1>2, <1>3, <1>4, <1>5, PlacesKept

\* A deletion takes one place from the siblings of its group, and none from others.
LEMMA DeletionMovesLeft ==
    ASSUME ListInv, Edit, NEW d \in live, DropGroup(d), NEW g \in stable, g \in live'
    PROVE  /\ Place(g) \in Nat /\ Place(g)' \in Nat /\ Place(g) <= Place(g)' + 1
           /\ Parent(pathOf[g]) # Parent(pathOf[d]) => Place(g) <= Place(g)'
<1>. DEFINE p == Parent(pathOf[g])
            t == Now
<1>1. PICK u : u = Now'
  OBVIOUS
<1>2. /\ t.live = live /\ u.live = live' /\ g \in live /\ live' = {h \in live : ~Under(pathOf[d], pathOf[h])}
      /\ \A h \in live : u.pathOf[h] = t.pathOf[h]
      /\ \A h \in live : t.pathOf[h] = pathOf[h] /\ pathOf'[h] = pathOf[h]
  BY <1>1, EditLeaves DEF Now, ListInv, CountersFit, DropGroup
<1>3. IsFiniteSet(live) /\ IsFiniteSet(live')
  BY EditFits DEF ListInv, RealmFits
<1>4. Place(g) = PlaceIn(t, p, g) /\ Place(g)' = PlaceIn(u, p, g)
  BY <1>1, <1>2 DEF Place
<1>5. ASSUME NEW h \in ChildrenIn(t, p), h \notin u.live
      PROVE  h = d /\ p = Parent(pathOf[d])
  <2>1. /\ t \in Tree /\ TreeFits(t) /\ p \in Path \cup {<< >>} /\ g \in ChildrenIn(t, p)
        /\ pathOf[g] \in Path
    BY NowFits, StableFacts
  <2>2. /\ h \in live /\ pathOf[h] \in Path /\ Len(pathOf[h]) = Len(p) + 1
        /\ Parent(pathOf[h]) = p /\ Len(pathOf[g]) = Len(p) + 1
    <3>. HIDE DEF t, p
    <3>1. h \in t.live /\ t.pathOf[h] \in Path /\ Len(t.pathOf[h]) = Len(p) + 1 /\ Parent(t.pathOf[h]) = p
      BY <2>1, ChildFacts
    <3>2. Len(t.pathOf[g]) = Len(p) + 1
      BY <2>1, ChildFacts
    <3>. QED
      BY <1>2, <3>1, <3>2
  <2>3. Under(pathOf[d], pathOf[h]) /\ ~Under(pathOf[d], pathOf[g]) /\ pathOf[d] \in Path
    BY <1>2, <1>5, <2>2 DEF ListInv, RealmFits, RealmTypeOK
  <2>4. pathOf[d] = pathOf[h]
    BY <2>1, <2>2, <2>3, OnlyThePathItself
  <2>. QED
    BY <2>2, <2>4 DEF ListInv, RealmFits, OneGroupPerPath
<1>6. /\ ChildrenIn(t, p) \subseteq u.live \cup {d}
      /\ p # Parent(pathOf[d]) => ChildrenIn(t, p) \subseteq u.live
  BY <1>5
<1>7. /\ PlaceIn(t, p, g) \in Nat /\ PlaceIn(u, p, g) \in Nat
      /\ ChildrenIn(t, p) \subseteq u.live => PlaceIn(t, p, g) <= PlaceIn(u, p, g)
      /\ PlaceIn(t, p, g) <= PlaceIn(u, p, g) + 1
  <2>. HIDE DEF t, p
  <2>. QED
    BY <1>2, <1>3, <1>6, PlacesKept
<1>. QED
  BY <1>4, <1>6, <1>7

\* Work that an edit no longer lets come to a group awaited it, and the group lost
\* its place.
LEMMA EditTakesPlaces ==
    ASSUME ListInv, Edit, NEW g \in stable, NEW w \in ToSet(work), DueIn(w, g), ~DueIn(w, g)'
    PROVE  /\ w.do \in {"tops", "kids"} /\ Parent(pathOf[g]) = Listed(w) /\ w.first \in Nat
           /\ w.first <= Place(g) /\ ~(w.first <= Place(g)')
<1>1. w \in Item
  BY DEF ListInv, WorkFits, ToSet
<1>2. pathOf'[g] = pathOf[g]
  BY EditLeaves DEF ListInv, CountersFit
<1>3. Awaited(w, g) /\ ~Awaited(w, g)'
  BY DEF DueIn, Queued, Held
<1>4. w.do \in {"tops", "kids"} /\ Parent(pathOf[g]) = Listed(w) /\ w.first <= Place(g)
  BY <1>3 DEF Awaited
<1>5. Listed(w)' = Listed(w)
  BY <1>4, EditLeaves
<1>6. ~(w.first <= Place(g)')
  BY <1>2, <1>3, <1>4, <1>5 DEF Awaited
<1>7. w.first \in Nat
  BY <1>1, <1>4 DEF Item, AppendItem, TopsItem, KidsItem
<1>. QED
  BY <1>4, <1>6, <1>7

\* The children of a group, and the top groups, are listed by one item of the work.
LEMMA ListedByOne ==
    ASSUME ListInv, HidingInv, NEW v \in ToSet(work), NEW w \in ToSet(work),
           v.do \in {"tops", "kids"}, w.do \in {"tops", "kids"}, Listed(v) = Listed(w)
    PROVE  v = w
<1>1. PICK i \in DOMAIN work : v = work[i]
  BY DEF ToSet
<1>2. PICK j \in DOMAIN work : w = work[j]
  BY DEF ToSet
<1>3. ASSUME NEW x \in ToSet(work), x.do = "kids" PROVE Listed(x) \in Path /\ x.do # "tops"
  <2>1. x \in Item /\ Fits(x)
    BY DEF ListInv, WorkFits, ToSet
  <2>2. x.of.id \in seen
    BY <1>3, <2>1 DEF Fits
  <2>. QED
    BY <1>3, <2>2 DEF Listed, ListInv, ResultFits
<1>4. \A x \in ToSet(work) : x.do = "tops" => Listed(x) = << >>
  BY DEF Listed
<1>5. << >> \notin Path
  BY PathFacts
<1>6. v.do = w.do
  BY <1>3, <1>4, <1>5
<1>7. i = j
  BY <1>1, <1>2, <1>6 DEF HidingInv, InTurn
<1>. QED
  BY <1>1, <1>2, <1>7

LEMMA EditHidesOneAtMost ==
    ASSUME ListInv, HidingInv, Edit
    PROVE  HidingInv'
<1>1. /\ UNCHANGED <<status, work, seen>> /\ stable' = stable \cap live' /\ status # "ok"
      /\ drops' = IF live \subseteq live' THEN drops ELSE drops + 1
      /\ \A g \in stable : ParentSeen(g)' <=> ParentSeen(g)
  BY EditLeaves
<1>2. InTurn(work)' /\ \A w \in ToSet(work') : ShowsStable(w)'
  BY <1>1 DEF HidingInv, InTurn, ShowsStable
<1>. DEFINE Lost == Hidden' \ Hidden
<1>3. ASSUME NEW g \in Lost
      PROVE  g \in stable /\ g \in live' /\ \E w \in ToSet(work) : DueIn(w, g) /\ ~DueIn(w, g)'
  <2>1. g \in stable' /\ ParentSeen(g)' /\ g \notin seen' /\ ~Due(g)' /\ g \notin Hidden
    BY DEF Hidden
  <2>2. g \in stable /\ g \in live' /\ ParentSeen(g) /\ g \notin seen
    BY <1>1, <2>1
  <2>3. Due(g)
    BY <2>1, <2>2 DEF Hidden
  <2>4. PICK w \in ToSet(work) : DueIn(w, g)
    BY <2>3 DEF Due
  <2>5. ~DueIn(w, g)'
    BY <1>1, <2>1, <2>4 DEF Due
  <2>. QED
    BY <2>2, <2>4, <2>5
<1>4. /\ IsFiniteSet(Hidden) /\ Cardinality(Hidden) \in Nat /\ drops \in Nat
      /\ Cardinality(Hidden) <= drops
  BY HiddenFinite DEF HidingInv, ListInv, CountersFit
<1>5. CASE live \subseteq live'
  <2>1. ASSUME NEW g \in Lost PROVE FALSE
    <3>1. PICK w \in ToSet(work) : g \in stable /\ DueIn(w, g) /\ ~DueIn(w, g)'
      BY <1>3
    <3>2. w.first \in Nat /\ w.first <= Place(g) /\ ~(w.first <= Place(g)')
      BY <3>1, EditTakesPlaces
    <3>3. Place(g) \in Nat /\ Place(g)' \in Nat /\ Place(g) <= Place(g)'
      BY <1>5, <3>1, CreationMovesRight
    <3>. QED
      BY <3>2, <3>3
  <2>2. Hidden' \subseteq Hidden
    BY <2>1
  <2>3. Cardinality(Hidden') <= Cardinality(Hidden) /\ Cardinality(Hidden') \in Nat
    BY <1>4, <2>2, FS_Subset, FS_CardinalityType
  <2>4. Cardinality(Hidden') <= drops /\ drops' = drops
    BY <1>1, <1>4, <1>5, <2>3
  <2>. QED
    BY <1>1, <1>2, <2>4 DEF HidingInv
<1>6. CASE ~(live \subseteq live')
  <2>1. PICK d \in live : DropGroup(d)
    BY <1>6 DEF Edit, AdminEdit, AddGroup, Join, Leave
  <2>2. ASSUME NEW g \in Lost, NEW h \in Lost PROVE g = h
    <3>1. PICK v \in ToSet(work) : g \in stable /\ g \in live' /\ DueIn(v, g) /\ ~DueIn(v, g)'
      BY <1>3
    <3>2. PICK w \in ToSet(work) : h \in stable /\ h \in live' /\ DueIn(w, h) /\ ~DueIn(w, h)'
      BY <1>3
    <3>3. /\ v.do \in {"tops", "kids"} /\ Parent(pathOf[g]) = Listed(v) /\ v.first \in Nat
          /\ v.first <= Place(g) /\ ~(v.first <= Place(g)')
      BY <3>1, EditTakesPlaces
    <3>4. /\ w.do \in {"tops", "kids"} /\ Parent(pathOf[h]) = Listed(w) /\ w.first \in Nat
          /\ w.first <= Place(h) /\ ~(w.first <= Place(h)')
      BY <3>2, EditTakesPlaces
    <3>5. /\ Place(g) \in Nat /\ Place(g)' \in Nat /\ Place(g) <= Place(g)' + 1
          /\ Parent(pathOf[g]) # Parent(pathOf[d]) => Place(g) <= Place(g)'
      BY <2>1, <3>1, DeletionMovesLeft
    <3>6. /\ Place(h) \in Nat /\ Place(h)' \in Nat /\ Place(h) <= Place(h)' + 1
          /\ Parent(pathOf[h]) # Parent(pathOf[d]) => Place(h) <= Place(h)'
      BY <2>1, <3>2, DeletionMovesLeft
    <3>7. Place(g) = v.first /\ Parent(pathOf[g]) = Parent(pathOf[d])
      BY <3>3, <3>5
    <3>8. Place(h) = w.first /\ Parent(pathOf[h]) = Parent(pathOf[d])
      BY <3>4, <3>6
    <3>9. v = w
      BY <3>3, <3>4, <3>7, <3>8, ListedByOne
    <3>10. PICK p : p = Parent(pathOf[d])
      OBVIOUS
    <3>11. /\ p \in Path \cup {<< >>} /\ g \in ChildrenIn(Now, p) /\ h \in ChildrenIn(Now, p)
           /\ PlaceIn(Now, p, g) = PlaceIn(Now, p, h)
      BY <3>1, <3>2, <3>7, <3>8, <3>9, <3>10, StableFacts DEF Place
    <3>. QED
      BY <3>11, NowFits, PlacesDiffer
  <2>3. PICK x : Lost \subseteq {x}
    <3>1. CASE Lost = {}
      BY <3>1
    <3>2. CASE Lost # {}
      <4>1. PICK g \in Lost : TRUE
        BY <3>2
      <4>2. Lost \subseteq {g}
        BY <2>2
      <4>. QED
        BY <4>2
    <3>. QED
      BY <3>1, <3>2
  <2>. DEFINE H == Hidden
              K == Hidden'
              E == H \cup {x}
  <2>4. K \subseteq E
    BY <2>3
  <2>. HIDE DEF H, K
  <2>5. IsFiniteSet(E) /\ Cardinality(E) \in Nat /\ Cardinality(E) <= Cardinality(H) + 1
    <3>1. IsFiniteSet(E) /\ (Cardinality(E) = Cardinality(H) \/ Cardinality(E) = Cardinality(H) + 1)
      BY <1>4, FS_AddElement DEF H
    <3>. QED
      BY <1>4, <3>1, FS_CardinalityType DEF H
  <2>. HIDE DEF E
  <2>6. Cardinality(K) \in Nat /\ Cardinality(K) <= Cardinality(E)
    BY <2>4, <2>5, FS_Subset, FS_CardinalityType
  <2>7. Cardinality(K) <= drops + 1
    <3>1. Cardinality(H) \in Nat /\ drops \in Nat /\ Cardinality(H) <= drops
      BY <1>4 DEF H
    <3>. QED
      BY <2>5, <2>6, <3>1
  <2>8. drops' = drops + 1
    BY <1>1, <1>6
  <2>. QED
    BY <1>1, <1>2, <2>7, <2>8 DEF HidingInv, K
<1>. QED
  BY <1>5, <1>6

LEMMA NothingHiddenAtFirst ==
    Init => HidingInv
<1>. SUFFICES ASSUME Init PROVE HidingInv
  OBVIOUS
<1>. DEFINE w == Tops(0)
<1>0. ListInv
  BY ListingStarts
<1>1. /\ work = <<w>> /\ w.do = "tops" /\ w.first = 0 /\ w \in Item
      /\ status = "listing" /\ seen = {} /\ drops = 0
  BY DEF Init, Tops, Item, TopsItem
<1>. HIDE DEF w
<1>2. ToSet(work) = {w} /\ DOMAIN work = {1} /\ work[1] = w /\ Len(work) = 1
  BY <1>1, OneElement
<1>3. InTurn(work) /\ ShowsStable(w)
  BY <1>1, <1>2 DEF InTurn, ShowsStable
<1>4. ASSUME NEW g \in stable, ParentSeen(g) PROVE Due(g)
  <2>1. ~(Len(pathOf[g]) > 1)
    BY <1>1, <1>4 DEF ParentSeen
  <2>2. Parent(pathOf[g]) = << >> /\ Place(g) \in Nat
    BY <1>0, <2>1, StableFacts
  <2>3. w.first <= Place(g)
    BY <1>1, <2>2
  <2>. QED
    BY <1>1, <1>2, <2>2, <2>3 DEF Due, DueIn, Awaited, Listed
<1>5. Hidden = {}
  BY <1>4 DEF Hidden
<1>6. Cardinality(Hidden) <= drops
  BY <1>1, <1>5, FS_EmptySet
<1>. QED
  BY <1>1, <1>2, <1>3, <1>6 DEF HidingInv

LEMMA ListingStepHides ==
    ListInv /\ HidingInv /\ [Next]_vars => HidingInv'
<1>. SUFFICES ASSUME ListInv, HidingInv, [Next]_vars PROVE HidingInv'
  OBVIOUS
<1>1. CASE Finish
  BY <1>1, RestingHidesNothing DEF Finish
<1>2. CASE Fail
  BY <1>2, RestingHidesNothing DEF Fail
<1>3. CASE UNCHANGED vars
  <2>1. UNCHANGED <<realm, work, seen, stable, drops, status>>
    BY <1>3 DEF vars
  <2>. QED
    BY <2>1, RestingHidesNothing DEF HidingInv
<1>. QED
  BY <1>1, <1>2, <1>3, TopPageHidesNothing, AppendGroupHidesNothing, KidsPageHidesNothing,
     EditHidesOneAtMost DEF Next, Listing

\* While a listing runs, the groups it will miss are no more than those deleted so far.
THEOREM HidingInvariant ==
    Spec => [](ListInv /\ HidingInv)
<1>1. Init => ListInv /\ HidingInv
  BY ListingStarts, NothingHiddenAtFirst
<1>2. (ListInv /\ HidingInv) /\ [Next]_vars => (ListInv /\ HidingInv)'
  BY ListingStepKeepsIt, ListingStepHides
<1>. QED
  BY <1>1, <1>2, PTL DEF Spec

\* ListGroups misses, with what is below it, at most one group for each one deleted
\* while it reads its pages, and none however many are created.
THEOREM DeletionsHideAtMostOne ==
    Spec => []DeletionsHideOneEach
<1>1. ListInv /\ HidingInv => DeletionsHideOneEach
  <2>. SUFFICES ASSUME ListInv, HidingInv, status = "ok" PROVE Cardinality(Missed) <= drops
    BY DEF DeletionsHideOneEach
  <2>1. work = << >> /\ seen = ToSet(result)
    BY DEF HidingInv, ListInv, ResultFits
  <2>2. Missed \subseteq Hidden
    BY <2>1, NoElement DEF Missed, Hidden, Due, ParentSeen
  <2>3. Cardinality(Missed) \in Nat /\ Cardinality(Missed) <= Cardinality(Hidden)
    BY <2>2, HiddenFinite, FS_Subset, FS_CardinalityType
  <2>. QED
    BY <2>3, HiddenFinite DEF HidingInv, ListInv, CountersFit
<1>. QED
  BY <1>1, HidingInvariant, PTL
==============================================================================
