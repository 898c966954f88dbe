-------------------------- MODULE MirrorRepairProofs --------------------------
(***************************************************************************)
(* Theorems about the repair cycle, for any groups, users and realms, and  *)
(* any number of changes and mishaps.                                      *)
(*                                                                         *)
(* - RepairTypesHold: types.  RefusedForUsernamesOnly, RegularPlansApply:  *)
(*   what the dry run writes, apply accepts.  Both without conditions on   *)
(*   where groups stand.                                                   *)
(* - SteadyGrantsAreKept: stale plans undo nothing.  It needs MirrorsApart:*)
(*   deleting a mirror takes along what is below it, and the name the      *)
(*   attributes give a mirror below the root must be that of its path.     *)
(* - QuietDriftShrinks and CleanCyclesSync: what a quiet cycle does.  They *)
(*   need MirrorsInPlace: one mirror for a group at most, at the path at   *)
(*   which apply looks for it.  CleanCyclesSync also needs that a listing  *)
(*   shows all members of a group (OnePage).                               *)
(*                                                                         *)
(* The invariants build on each other: TypeInv, with the shape of the      *)
(* operations; RepairInv, which says that what was read of iRODS holds     *)
(* where iRODS has not changed since, that an id read from Keycloak is     *)
(* that of a mirror of the same group as long as it exists, and that iRODS *)
(* wants every operation of the plan; QuietInv, with the mirrors in place; *)
(* and CycleInv, which says that a quiet scan sees every mirror and that   *)
(* every difference has an operation in the plan that mends it.            *)
(***************************************************************************)
EXTENDS MirrorRepair, KeycloakRealmProofs

(***************************************************************************)
(* The sequences a plan is put together from.  FlattenSeq is a recursive   *)
(* function: that there is one, and what it returns, goes by induction on  *)
(* the number of sequences.                                                *)
(***************************************************************************)
FlattensUpTo(s, f, n) ==
    /\ f = [i \in 1..n |-> f[i]]
    /\ \A i \in 1..n : f[i] = IF i = 1 THEN s[i] ELSE f[i - 1] \o s[i]

\* There is such a function for every finite sequence of sequences.
LEMMA FlattenExists ==
    ASSUME NEW s, NEW n \in Nat
    PROVE  \E f : FlattensUpTo(s, f, n)
<1>. DEFINE G == {k \in Nat : \E f : FlattensUpTo(s, f, k)}
<1>1. 0 \in G
  <2>. DEFINE f == [i \in 1..0 |-> s[i]]
  <2>1. FlattensUpTo(s, f, 0)
    BY DEF FlattensUpTo
  <2>. QED
    BY <2>1
<1>2. ASSUME NEW k \in Nat, k \in G PROVE k + 1 \in G
  <2>1. PICK f : FlattensUpTo(s, f, k)
    BY <1>2
  <2>. DEFINE last == IF k + 1 = 1 THEN s[1] ELSE f[k] \o s[k + 1]
              g    == [i \in 1..(k + 1) |-> IF i = k + 1 THEN last ELSE f[i]]
  <2>2. g[k + 1] = last /\ \A i \in 1..k : g[i] = f[i]
    <3>. HIDE DEF last
    <3>. QED
      OBVIOUS
  <2>3. \A i \in 1..(k + 1) : g[i] = IF i = 1 THEN s[i] ELSE g[i - 1] \o s[i]
    <3>. SUFFICES ASSUME NEW i \in 1..(k + 1)
                  PROVE  g[i] = IF i = 1 THEN s[i] ELSE g[i - 1] \o s[i]
      OBVIOUS
    <3>. HIDE DEF g
    <3>1. CASE i = k + 1 /\ i = 1
      BY <3>1, <2>2
    <3>2. CASE i = k + 1 /\ i # 1
      <4>1. k \in 1..k /\ i - 1 = k
        BY <3>2
      <4>. QED
        BY <3>2, <2>2, <4>1
    <3>3. CASE i # k + 1
      <4>1. i \in 1..k /\ (i # 1 => i - 1 \in 1..k)
        BY <3>3
      <4>2. f[i] = IF i = 1 THEN s[i] ELSE f[i - 1] \o s[i]
        BY <4>1, <2>1 DEF FlattensUpTo
      <4>. QED
        BY <4>1, <4>2, <2>2
    <3>. QED
      BY <3>1, <3>2, <3>3
  <2>4. g = [i \in 1..(k + 1) |-> g[i]]
    OBVIOUS
  <2>5. FlattensUpTo(s, g, k + 1)
    <3>. HIDE DEF g
    <3>. QED
      BY <2>3, <2>4 DEF FlattensUpTo
  <2>. QED
    BY <2>5
<1>3. n \in G
  <2>. HIDE DEF G
  <2>1. Nat \subseteq G
    BY <1>1, <1>2, AllNumbers
  <2>. QED
    BY <2>1
<1>. QED
  BY <1>3

\* Hence FlattenSeq is its last value.
LEMMA FlattenIs ==
    ASSUME NEW s, Len(s) \in Nat \ {0}
    PROVE  \E f : FlattensUpTo(s, f, Len(s)) /\ FlattenSeq(s) = f[Len(s)]
<1>. DEFINE h == CHOOSE g : g = [i \in 1..Len(s) |-> IF i = 1 THEN s[i] ELSE g[i - 1] \o s[i]]
<1>1. FlattenSeq(s) = h[Len(s)]
  BY Zenon DEF FlattenSeq
<1>2. PICK f : FlattensUpTo(s, f, Len(s))
  BY FlattenExists
<1>3. f = [i \in 1..Len(s) |-> IF i = 1 THEN s[i] ELSE f[i - 1] \o s[i]]
  BY <1>2, Zenon DEF FlattensUpTo
<1>4. h = [i \in 1..Len(s) |-> IF i = 1 THEN s[i] ELSE h[i - 1] \o s[i]]
  BY <1>3, Zenon
<1>5. FlattensUpTo(s, h, Len(s))
  <2>. HIDE DEF h
  <2>. QED
    BY <1>4, Zenon DEF FlattensUpTo
<1>. QED
  BY <1>1, <1>5, Zenon

\* FlattenSeq puts the sequences behind each other and adds nothing.
LEMMA FlattenFacts ==
    ASSUME NEW T, NEW s \in Seq(Seq(T))
    PROVE  /\ FlattenSeq(s) \in Seq(T)
           /\ Range(FlattenSeq(s)) = UNION {Range(s[i]) : i \in DOMAIN s}
<1>1. CASE s = << >>
  <2>1. FlattenSeq(s) = << >>
    BY <1>1 DEF FlattenSeq
  <2>2. Range(<< >>) = {} /\ << >> \in Seq(T)
    BY DEF Range
  <2>3. DOMAIN s = {}
    BY <1>1
  <2>. QED
    BY <2>1, <2>2, <2>3, Zenon
<1>2. CASE s # << >>
  <2>1. PICK f : FlattensUpTo(s, f, Len(s)) /\ FlattenSeq(s) = f[Len(s)]
    BY <1>2, FlattenIs
  <2>. DEFINE G == {k \in Nat : k \in 1..Len(s) =>
                       /\ f[k] \in Seq(T)
                       /\ Range(f[k]) = UNION {Range(s[i]) : i \in 1..k}}
  <2>2. 0 \in G
    OBVIOUS
  <2>3. ASSUME NEW k \in Nat, k \in G PROVE k + 1 \in G
    <3>. SUFFICES ASSUME k + 1 \in 1..Len(s)
                  PROVE  /\ f[k + 1] \in Seq(T)
                         /\ Range(f[k + 1]) = UNION {Range(s[i]) : i \in 1..(k + 1)}
      OBVIOUS
    <3>1. f[k + 1] = IF k + 1 = 1 THEN s[k + 1] ELSE f[(k + 1) - 1] \o s[k + 1]
      BY <2>1, Zenon DEF FlattensUpTo
    <3>2. s[k + 1] \in Seq(T)
      OBVIOUS
    <3>3. CASE k = 0
      BY <3>1, <3>2, <3>3
    <3>4. CASE k > 0
      <4>1. f[k] \in Seq(T) /\ Range(f[k]) = UNION {Range(s[i]) : i \in 1..k}
        BY <2>3, <3>4
      <4>2. f[k + 1] = f[k] \o s[k + 1]
        <5>1. k + 1 # 1 /\ (k + 1) - 1 = k
          BY <3>4
        <5>. QED
          BY <3>1, <5>1, Zenon
      <4>3. Range(f[k + 1]) = Range(f[k]) \cup Range(s[k + 1])
        BY <3>2, <4>1, <4>2, RangeConcatenation
      <4>4. \A i : i \in 1..(k + 1) <=> i \in 1..k \/ i = k + 1
        OBVIOUS
      <4>5. UNION {Range(s[i]) : i \in 1..(k + 1)}
              = (UNION {Range(s[i]) : i \in 1..k}) \cup Range(s[k + 1])
        BY <4>4, Zenon
      <4>. QED
        BY <3>2, <4>1, <4>2, <4>3, <4>5
    <3>. QED
      BY <3>3, <3>4
  <2>4. Len(s) \in G
    <3>. HIDE DEF G
    <3>. QED
      BY <2>2, <2>3, AllNumbers
  <2>5. Len(s) \in 1..Len(s) /\ DOMAIN s = 1..Len(s)
    BY <1>2
  <2>. QED
    BY <2>1, <2>4, <2>5
<1>. QED
  BY <1>1, <1>2

\* Sorted goes through the order likewise.
SortsUpTo(S, order, f, n) ==
    /\ f = [i \in 0..n |-> f[i]]
    /\ \A i \in 0..n : f[i] = IF i = 0 THEN << >>
                              ELSE IF order[i] \in S THEN Append(f[i - 1], order[i])
                                                     ELSE f[i - 1]

LEMMA SortExists ==
    ASSUME NEW S, NEW order, NEW n \in Nat
    PROVE  \E f : SortsUpTo(S, order, f, n)
<1>. DEFINE G == {k \in Nat : \E f : SortsUpTo(S, order, f, k)}
<1>1. 0 \in G
  <2>. DEFINE f == [i \in 0..0 |-> << >>]
  <2>1. SortsUpTo(S, order, f, 0)
    BY DEF SortsUpTo
  <2>. QED
    BY <2>1
<1>2. ASSUME NEW k \in Nat, k \in G PROVE k + 1 \in G
  <2>1. PICK f : SortsUpTo(S, order, f, k)
    BY <1>2
  <2>. DEFINE last == IF order[k + 1] \in S THEN Append(f[k], order[k + 1]) ELSE f[k]
              g    == [i \in 0..(k + 1) |-> IF i = k + 1 THEN last ELSE f[i]]
  <2>2. g[k + 1] = last /\ \A i \in 0..k : g[i] = f[i]
    <3>. HIDE DEF last
    <3>. QED
      OBVIOUS
  <2>3. g = [i \in 0..(k + 1) |-> g[i]]
    OBVIOUS
  <2>. HIDE DEF g
  <2>4. ASSUME NEW i \in 0..(k + 1)
        PROVE  g[i] = IF i = 0 THEN << >>
                      ELSE IF order[i] \in S THEN Append(g[i - 1], order[i]) ELSE g[i - 1]
    <3>1. CASE i = k + 1
      <4>1. i # 0 /\ i - 1 = k /\ k \in 0..k
        BY <3>1
      <4>2. g[i - 1] = f[k] /\ g[i] = last
        BY <2>2, <3>1, <4>1
      <4>. QED
        BY <3>1, <4>1, <4>2, Zenon
    <3>2. CASE i # k + 1
      <4>1. i \in 0..k /\ (i # 0 => i - 1 \in 0..k)
        BY <3>2
      <4>2. f[i] = IF i = 0 THEN << >>
                   ELSE IF order[i] \in S THEN Append(f[i - 1], order[i]) ELSE f[i - 1]
        BY <2>1, <4>1, Zenon DEF SortsUpTo
      <4>3. g[i] = f[i] /\ (i # 0 => g[i - 1] = f[i - 1])
        BY <2>2, <4>1
      <4>. QED
        BY <4>2, <4>3, Zenon
    <3>. QED
      BY <3>1, <3>2
  <2>5. SortsUpTo(S, order, g, k + 1)
    BY <2>3, <2>4, Zenon DEF SortsUpTo
  <2>. QED
    BY <2>5
<1>3. n \in G
  <2>. HIDE DEF G
  <2>1. Nat \subseteq G
    BY <1>1, <1>2, AllNumbers
  <2>. QED
    BY <2>1
<1>. QED
  BY <1>3

LEMMA AppendedRange ==
    ASSUME NEW T, NEW s \in Seq(T), NEW x \in T
    PROVE  Range(Append(s, x)) = Range(s) \cup {x}
<1>1. /\ Len(s) \in Nat /\ DOMAIN s = 1..Len(s) /\ DOMAIN Append(s, x) = 1..(Len(s) + 1)
      /\ \A i \in 1..Len(s) : Append(s, x)[i] = s[i]
      /\ Append(s, x)[Len(s) + 1] = x
  OBVIOUS
<1>. DEFINE t == Append(s, x)
<1>. HIDE DEF t
<1>2. \A i : i \in DOMAIN t <=> i \in DOMAIN s \/ i = Len(s) + 1
  BY <1>1 DEF t
<1>. QED
  BY <1>1, <1>2, Zenon DEF Range, t

\* Sorted picks the elements of the set, and those only.
LEMMA SortedFacts ==
    ASSUME NEW T, NEW order \in Seq(T), NEW S
    PROVE  /\ Sorted(S, order) \in Seq(T)
           /\ Range(Sorted(S, order)) = S \cap Range(order)
<1>. DEFINE n == Len(order)
            h == CHOOSE g : g = [i \in 0..n |->
                     IF i = 0 THEN << >>
                     ELSE IF order[i] \in S THEN Append(g[i - 1], order[i]) ELSE g[i - 1]]
<1>1. Sorted(S, order) = h[n] /\ n \in Nat
  BY Zenon, LenProperties DEF Sorted
<1>2. SortsUpTo(S, order, h, n)
  <2>1. PICK f : SortsUpTo(S, order, f, n)
    BY <1>1, SortExists
  <2>2. f = [i \in 0..n |->
               IF i = 0 THEN << >>
               ELSE IF order[i] \in S THEN Append(f[i - 1], order[i]) ELSE f[i - 1]]
    BY <2>1, Zenon DEF SortsUpTo
  <2>3. h = [i \in 0..n |->
               IF i = 0 THEN << >>
               ELSE IF order[i] \in S THEN Append(h[i - 1], order[i]) ELSE h[i - 1]]
    BY <2>2, Zenon
  <2>. HIDE DEF h
  <2>. QED
    BY <2>3, Zenon DEF SortsUpTo
<1>. HIDE DEF h
<1>. DEFINE Upto(k) == {order[i] : i \in 1..k}
            G == {k \in Nat : k <= n => h[k] \in Seq(T) /\ Range(h[k]) = S \cap Upto(k)}
<1>3. 0 \in G
  <2>1. h[0] = << >>
    BY <1>1, <1>2 DEF SortsUpTo
  <2>2. Range(<< >>) = {} /\ << >> \in Seq(T) /\ Upto(0) = {}
    BY DEF Range
  <2>. QED
    BY <2>1, <2>2
<1>4. ASSUME NEW k \in Nat, k \in G PROVE k + 1 \in G
  <2>. SUFFICES ASSUME k + 1 <= n
                PROVE  h[k + 1] \in Seq(T) /\ Range(h[k + 1]) = S \cap Upto(k + 1)
    OBVIOUS
  <2>1. h[k] \in Seq(T) /\ Range(h[k]) = S \cap Upto(k)
    BY <1>1, <1>4
  <2>2. h[k + 1] = IF order[k + 1] \in S THEN Append(h[k], order[k + 1]) ELSE h[k]
    BY <1>1, <1>2 DEF SortsUpTo
  <2>3. order[k + 1] \in T
    BY <1>1
  <2>4. Upto(k + 1) = Upto(k) \cup {order[k + 1]}
    <3>1. \A i : i \in 1..(k + 1) <=> i \in 1..k \/ i = k + 1
      OBVIOUS
    <3>. QED
      BY <3>1, Zenon
  <2>5. CASE order[k + 1] \in S
    <3>1. Range(Append(h[k], order[k + 1])) = Range(h[k]) \cup {order[k + 1]}
      BY <2>1, <2>3, AppendedRange
    <3>. QED
      BY <2>1, <2>2, <2>3, <2>4, <2>5, <3>1
  <2>6. CASE order[k + 1] \notin S
    BY <2>1, <2>2, <2>4, <2>6
  <2>. QED
    BY <2>5, <2>6
<1>5. n \in G
  <2>. HIDE DEF G
  <2>. QED
    BY <1>1, <1>3, <1>4, AllNumbers
<1>6. Upto(n) = Range(order)
  BY <1>1 DEF Range
<1>. QED
  BY <1>1, <1>5, <1>6

(***************************************************************************)
(* The operations of a plan.                                               *)
(***************************************************************************)
Operation ==
    [id : Nat, action : {"group_create", "member_add", "member_remove", "group_delete"},
     path : Path, gid : GroupId \cup {None}, user : User \cup {None}, attrs : Attrs,
     risk : {"low", "medium", "requires_approval"},
     evidence : [realm : {RealmName}, zone : {Zone}, path : Path]]

\* Snapshots as the dry run takes them.
IrodsSnapshot(ir) ==
    /\ DOMAIN ir \subseteq Names
    /\ \A n \in DOMAIN ir : ir[n] \subseteq User
KeycloakSnapshot(kc) ==
    \A n \in DOMAIN kc : /\ kc[n].id \in GroupId /\ kc[n].path \in Path
                         /\ kc[n].members \subseteq Account

\* What planRepair has to write for two snapshots, as a set.
Adds(p, gid, U)    == {AddOp(Zone, p, gid, u) : u \in U}
Removes(p, gid, U) == {RemoveOp(Zone, p, gid, u) : u \in U}
WantedFor(n, ir, kc) ==
    IF n \in DOMAIN kc
    THEN Adds(kc[n].path, kc[n].id, ir[n] \ kc[n].members)
         \cup Removes(kc[n].path, kc[n].id, kc[n].members \ ir[n])
    ELSE {CreateOp(n, Zone)} \cup Adds(MirrorPath(n), None, ir[n])
Wanted(ir, kc) ==
    (UNION {WantedFor(n, ir, kc) : n \in DOMAIN ir})
    \cup {DeleteOp(Zone, kc[n].path, kc[n].id) : n \in Names \cap (DOMAIN kc \ DOMAIN ir)}

\* The operations a plan should have, kind by kind.
LEMMA WantedCases ==
    ASSUME NEW ir, NEW kc, NEW o \in Wanted(ir, kc)
    PROVE  \/ \E n \in DOMAIN ir \ DOMAIN kc :
                \/ o = CreateOp(n, Zone)
                \/ \E u \in ir[n] : o = AddOp(Zone, MirrorPath(n), None, u)
           \/ \E n \in DOMAIN ir \cap DOMAIN kc :
                \/ \E u \in ir[n] \ kc[n].members : o = AddOp(Zone, kc[n].path, kc[n].id, u)
                \/ \E u \in kc[n].members \ ir[n] : o = RemoveOp(Zone, kc[n].path, kc[n].id, u)
           \/ \E n \in Names \cap (DOMAIN kc \ DOMAIN ir) : o = DeleteOp(Zone, kc[n].path, kc[n].id)
BY Zenon DEF Wanted, WantedFor, Adds, Removes

\* Operations about memberships.
LEMMA OpTypes ==
    ASSUME NEW p \in Path, NEW gid \in GroupId \cup {None}, NEW u \in User
    PROVE  /\ AddOp(Zone, p, gid, u) \in Operation
           /\ RemoveOp(Zone, p, gid, u) \in Operation
<1>1. Bare \in Attrs
  BY BareAssumption, AttrsAssumption
<1>. QED
  BY <1>1 DEF AddOp, RemoveOp, NewOp, Operation

\* The same of operations about groups.
LEMMA GroupOpTypes ==
    /\ \A p \in Path, gid \in GroupId : DeleteOp(Zone, p, gid) \in Operation
    /\ \A n \in Names : CreateOp(n, Zone) \in Operation
<1>1. /\ Bare \in Attrs
      /\ \A n \in Names : MirrorAttrs(n, Zone) \in Attrs /\ MirrorPath(n) \in Path
  BY BareAssumption, AttrsAssumption, OrderAssumption
<1>. QED
  BY <1>1 DEF DeleteOp, CreateOp, NewOp, Operation

\* The operations written for one group, and for the mirrors without a group.
LEMMA AddOpsFacts ==
    ASSUME NEW p \in Path, NEW gid \in GroupId \cup {None}, NEW U, U \subseteq User
    PROVE  /\ AddOps(Zone, p, gid, U) \in Seq(Operation)
           /\ Range(AddOps(Zone, p, gid, U)) = Adds(p, gid, U)
<1>. DEFINE t == Sorted(U, UserOrder)
            s == [i \in DOMAIN t |-> AddOp(Zone, p, gid, t[i])]
<1>1. t \in Seq(User) /\ Range(t) = U
  <2>1. U = U \cap Range(UserOrder)
    BY OrderAssumption
  <2>. QED
    BY <2>1, OrderAssumption, SortedFacts, Zenon
<1>2. AddOps(Zone, p, gid, U) = s
  BY DEF AddOps, MapSeq
<1>. HIDE DEF t
<1>3. \A i \in DOMAIN t : t[i] \in User /\ AddOp(Zone, p, gid, t[i]) \in Operation
  BY <1>1, OpTypes
<1>4. s \in Seq(Operation)
  BY <1>1, <1>3
<1>5. Range(s) = Adds(p, gid, U)
  BY <1>1, Zenon DEF Range, Adds
<1>. QED
  BY <1>2, <1>4, <1>5, Zenon

\* A removal for each of the users.
LEMMA RemoveOpsFacts ==
    ASSUME NEW p \in Path, NEW gid \in GroupId \cup {None}, NEW U, U \subseteq User
    PROVE  /\ RemoveOps(Zone, p, gid, U) \in Seq(Operation)
           /\ Range(RemoveOps(Zone, p, gid, U)) = Removes(p, gid, U)
<1>. DEFINE t == Sorted(U, UserOrder)
            s == [i \in DOMAIN t |-> RemoveOp(Zone, p, gid, t[i])]
<1>1. t \in Seq(User) /\ Range(t) = U
  <2>1. U = U \cap Range(UserOrder)
    BY OrderAssumption
  <2>. QED
    BY <2>1, OrderAssumption, SortedFacts, Zenon
<1>2. RemoveOps(Zone, p, gid, U) = s
  BY DEF RemoveOps, MapSeq
<1>. HIDE DEF t
<1>3. \A i \in DOMAIN t : t[i] \in User /\ RemoveOp(Zone, p, gid, t[i]) \in Operation
  BY <1>1, OpTypes
<1>4. s \in Seq(Operation)
  BY <1>1, <1>3
<1>5. Range(s) = Removes(p, gid, U)
  BY <1>1, Zenon DEF Range, Removes
<1>. QED
  BY <1>2, <1>4, <1>5, Zenon

\* A deletion for each group seen in Keycloak and not in iRODS.
LEMMA DeleteOpsFacts ==
    ASSUME NEW ir, NEW kc, KeycloakSnapshot(kc)
    PROVE  /\ DeleteOps(Zone, ir, kc) \in Seq(Operation)
           /\ Range(DeleteOps(Zone, ir, kc))
                = {DeleteOp(Zone, kc[n].path, kc[n].id) : n \in Names \cap (DOMAIN kc \ DOMAIN ir)}
<1>. DEFINE D == DOMAIN kc \ DOMAIN ir
            t == Sorted(D, NameOrder)
            s == [i \in DOMAIN t |-> DeleteOp(Zone, kc[t[i]].path, kc[t[i]].id)]
<1>1. t \in Seq(Names) /\ Range(t) = D \cap Names
  BY OrderAssumption, SortedFacts, Zenon DEF Names
<1>2. DeleteOps(Zone, ir, kc) = s
  BY DEF DeleteOps, MapSeq
<1>. HIDE DEF t
<1>3. \A i \in DOMAIN t : t[i] \in D
  BY <1>1 DEF Range
<1>4. \A i \in DOMAIN t : DeleteOp(Zone, kc[t[i]].path, kc[t[i]].id) \in Operation
  BY <1>3, GroupOpTypes DEF KeycloakSnapshot
<1>5. s \in Seq(Operation)
  BY <1>1, <1>4
<1>6. Range(s) = {DeleteOp(Zone, kc[n].path, kc[n].id) : n \in Range(t)}
  BY Zenon DEF Range
<1>7. Range(t) = Names \cap D
  BY <1>1
<1>. QED
  BY <1>2, <1>5, <1>6, <1>7, Zenon

\* The operations about one group of iRODS.
LEMMA OpsForFacts ==
    ASSUME NEW ir, NEW kc, IrodsSnapshot(ir), KeycloakSnapshot(kc), NEW n \in DOMAIN ir
    PROVE  /\ OpsFor(n, Zone, ir, kc) \in Seq(Operation)
           /\ Range(OpsFor(n, Zone, ir, kc)) = WantedFor(n, ir, kc)
<1>1. n \in Names /\ ir[n] \subseteq User /\ None \in GroupId \cup {None}
  BY DEF IrodsSnapshot
<1>2. CASE n \in DOMAIN kc
  <2>. DEFINE g == kc[n]
              a == AddOps(Zone, g.path, g.id, ir[n] \ g.members)
              r == RemoveOps(Zone, g.path, g.id, g.members \ ir[n])
  <2>1. g.path \in Path /\ g.id \in GroupId \cup {None} /\ g.members \subseteq User
    BY <1>2, AccountAssumption DEF KeycloakSnapshot
  <2>2. a \in Seq(Operation) /\ Range(a) = Adds(g.path, g.id, ir[n] \ g.members)
    BY <1>1, <2>1, AddOpsFacts
  <2>3. r \in Seq(Operation) /\ Range(r) = Removes(g.path, g.id, g.members \ ir[n])
    BY <1>1, <2>1, RemoveOpsFacts
  <2>4. OpsFor(n, Zone, ir, kc) = a \o r
    BY <1>2, Zenon DEF OpsFor, OpsForExisting
  <2>. HIDE DEF a, r
  <2>5. a \o r \in Seq(Operation) /\ Range(a \o r) = Range(a) \cup Range(r)
    BY <2>2, <2>3, RangeConcatenation
  <2>. QED
    BY <1>2, <2>2, <2>3, <2>4, <2>5, Zenon DEF WantedFor
<1>3. CASE n \notin DOMAIN kc
  <2>. DEFINE a == AddOps(Zone, MirrorPath(n), None, ir[n])
  <2>1. a \in Seq(Operation) /\ Range(a) = Adds(MirrorPath(n), None, ir[n])
    BY <1>1, AddOpsFacts, OrderAssumption
  <2>2. <<CreateOp(n, Zone)>> \in Seq(Operation) /\ Range(<<CreateOp(n, Zone)>>) = {CreateOp(n, Zone)}
    BY <1>1, GroupOpTypes DEF Range
  <2>3. OpsFor(n, Zone, ir, kc) = <<CreateOp(n, Zone)>> \o a
    BY <1>3, Zenon DEF OpsFor, OpsForMissing
  <2>. HIDE DEF a
  <2>. DEFINE c == <<CreateOp(n, Zone)>>
  <2>4. c \in Seq(Operation) /\ Range(c) = {CreateOp(n, Zone)}
    BY <2>2
  <2>5. OpsFor(n, Zone, ir, kc) = c \o a
    BY <2>3
  <2>. HIDE DEF c
  <2>6. c \o a \in Seq(Operation) /\ Range(c \o a) = Range(c) \cup Range(a)
    BY <2>1, <2>4, RangeConcatenation
  <2>. QED
    BY <1>3, <2>1, <2>4, <2>5, <2>6, Zenon DEF WantedFor
<1>. QED
  BY <1>2, <1>3

\* The operations about all of them.
LEMMA RepairOpsFacts ==
    ASSUME NEW ir, NEW kc, IrodsSnapshot(ir), KeycloakSnapshot(kc)
    PROVE  /\ RepairOps(Zone, ir, kc) \in Seq(Operation)
           /\ Range(RepairOps(Zone, ir, kc)) = UNION {WantedFor(n, ir, kc) : n \in DOMAIN ir}
<1>. DEFINE t == Sorted(DOMAIN ir, NameOrder)
            s == [i \in DOMAIN t |-> OpsFor(t[i], Zone, ir, kc)]
<1>1. t \in Seq(Names) /\ Range(t) = DOMAIN ir
  <2>1. DOMAIN ir = DOMAIN ir \cap Range(NameOrder)
    BY DEF IrodsSnapshot, Names
  <2>. QED
    BY <2>1, OrderAssumption, SortedFacts, Zenon
<1>2. RepairOps(Zone, ir, kc) = FlattenSeq(s)
  BY DEF RepairOps, MapSeq
<1>. HIDE DEF t
<1>3. \A i \in DOMAIN t : t[i] \in DOMAIN ir
  BY <1>1 DEF Range
<1>4. \A i \in DOMAIN t : /\ OpsFor(t[i], Zone, ir, kc) \in Seq(Operation)
                          /\ Range(OpsFor(t[i], Zone, ir, kc)) = WantedFor(t[i], ir, kc)
  BY <1>3, OpsForFacts
<1>5. s \in Seq(Seq(Operation)) /\ DOMAIN s = DOMAIN t
  BY <1>1, <1>4
<1>6. UNION {Range(s[i]) : i \in DOMAIN s} = UNION {WantedFor(n, ir, kc) : n \in DOMAIN ir}
  <2>1. \A i \in DOMAIN t : Range(s[i]) = WantedFor(t[i], ir, kc)
    BY <1>4
  <2>2. {Range(s[i]) : i \in DOMAIN s} = {WantedFor(n, ir, kc) : n \in Range(t)}
    <3>. HIDE DEF s
    <3>1. {Range(s[i]) : i \in DOMAIN s} = {WantedFor(t[i], ir, kc) : i \in DOMAIN t}
      BY <1>5, <2>1, Zenon
    <3>2. \A n : n \in Range(t) <=> \E i \in DOMAIN t : n = t[i]
      BY Zenon DEF Range
    <3>3. {WantedFor(t[i], ir, kc) : i \in DOMAIN t} = {WantedFor(n, ir, kc) : n \in Range(t)}
      BY <3>2
    <3>. QED
      BY <3>1, <3>3
  <2>. QED
    BY <1>1, <2>2, Zenon
<1>. HIDE DEF s
<1>. QED
  BY <1>2, <1>5, <1>6, FlattenFacts

\* planRepair writes the operations that are wanted, each with its number, and no
\* others.
Unnumbered(o) == [o EXCEPT !.id = 0]
\* A plan holds the operations wanted, all of them and no others.
LEMMA PlanFacts ==
    ASSUME NEW ir, NEW kc, IrodsSnapshot(ir), KeycloakSnapshot(kc)
    PROVE  LET p == PlanRepair(Zone, ir, kc)
           IN  /\ p \in Seq(Operation)
               /\ \A i \in DOMAIN p : p[i].id = i /\ Unnumbered(p[i]) \in Wanted(ir, kc)
               /\ \A o \in Wanted(ir, kc) : \E i \in DOMAIN p : Unnumbered(p[i]) = o
<1>. DEFINE a == RepairOps(Zone, ir, kc)
            d == DeleteOps(Zone, ir, kc)
            s == a \o d
            p == [i \in DOMAIN s |-> [s[i] EXCEPT !.id = i]]
<1>1. /\ a \in Seq(Operation) /\ Range(a) = UNION {WantedFor(n, ir, kc) : n \in DOMAIN ir}
      /\ d \in Seq(Operation)
      /\ Range(d) = {DeleteOp(Zone, kc[n].path, kc[n].id) : n \in Names \cap (DOMAIN kc \ DOMAIN ir)}
  BY RepairOpsFacts, DeleteOpsFacts
<1>2. PlanRepair(Zone, ir, kc) = p
  BY Zenon DEF PlanRepair, Numbered
<1>. HIDE DEF a, d
<1>3. s \in Seq(Operation) /\ Range(s) = Wanted(ir, kc)
  <2>1. s \in Seq(Operation) /\ Range(s) = Range(a) \cup Range(d)
    BY <1>1, RangeConcatenation
  <2>. QED
    BY <1>1, <2>1, Zenon DEF Wanted
<1>. HIDE DEF s
<1>4. \A o \in Wanted(ir, kc) : o.id = 0
  BY WantedCases DEF AddOp, RemoveOp, CreateOp, DeleteOp, NewOp
<1>5. \A i \in DOMAIN s : s[i] \in Operation /\ s[i] \in Wanted(ir, kc) /\ i \in Nat
  BY <1>3 DEF Range
<1>6. \A i \in DOMAIN s : /\ p[i] \in Operation /\ p[i].id = i
                          /\ Unnumbered(p[i]) = s[i]
  <2>. SUFFICES ASSUME NEW i \in DOMAIN s
                PROVE  /\ p[i] \in Operation /\ p[i].id = i
                       /\ Unnumbered(p[i]) = s[i]
    OBVIOUS
  <2>1. p[i] = [s[i] EXCEPT !.id = i] /\ s[i] \in Operation /\ s[i].id = 0 /\ i \in Nat
    BY <1>4, <1>5
  <2>. HIDE DEF p
  <2>. QED
    BY <2>1 DEF Operation, Unnumbered
<1>7. p \in Seq(Operation) /\ DOMAIN p = DOMAIN s
  BY <1>3, <1>6
<1>. HIDE DEF p
<1>8. \A o \in Wanted(ir, kc) : \E i \in DOMAIN p : Unnumbered(p[i]) = o
  BY <1>3, <1>6, <1>7 DEF Range
<1>. QED
  BY <1>2, <1>5, <1>6, <1>7, <1>8

(***************************************************************************)
(* The inductive invariant.                                                *)
(***************************************************************************)
WellFormed(o) ==
    /\ o.action = "group_create" =>
         /\ o.gid = None
         /\ \E n \in Names : o.path = MirrorPath(n) /\ o.attrs = MirrorAttrs(n, Zone)
    /\ o.action \in Memberships => o.user \in User
    /\ o.action \in {"member_remove", "group_delete"} => o.gid # None

TypeInv ==
    /\ TypeOK
    /\ IrodsSnapshot(irodsSeen) /\ KeycloakSnapshot(mirrorSeen)
    /\ plan \in Seq(Operation) /\ \A i \in DOMAIN plan : WellFormed(plan[i])

\* An id read in this cycle: as long as the group exists, it is a mirror of n.
Recorded(id, n) == pathOf[id] # None /\ (id \in live => IsMirrorGroup(id) /\ NameOf(id) = n)

\* What the scan has seen of iRODS is true where iRODS has not changed since.
SeenIsTrue ==
    /\ \A n \in Names, u \in User : <<n, u>> \in steady =>
         /\ n \in DOMAIN irodsSeen => (u \in irodsSeen[n] <=> Grants(n, u))
         /\ n \notin DOMAIN irodsSeen /\ n \notin unread => ~Grants(n, u)
    /\ quiet => steady = Names \X User /\ DOMAIN irods = DOMAIN irodsSeen \cup unread
    /\ stage = "keycloak" => unread = {}

\* An operation is about the group n of iRODS, and iRODS wants it, unless it has
\* changed there.
MeantFor(o, n) == IF o.gid # None THEN Recorded(o.gid, n)
                                  ELSE n \in Names /\ o.path = MirrorPath(n)
Justified(o) == \E n :
    /\ MeantFor(o, n)
    /\ o.action = "group_create" => n \in Names /\ (quiet => n \in DOMAIN irods)
    /\ o.action = "member_add" =>
         n \in Names /\ (<<n, o.user>> \in steady => Grants(n, o.user))
    /\ o.action = "member_remove" =>
         n \in Names /\ (<<n, o.user>> \in steady => ~Grants(n, o.user))
    /\ o.action = "group_delete" =>
         /\ \A u \in User : <<n, u>> \in steady => ~Grants(n, u)
         /\ quiet => n \notin DOMAIN irods

AllApart == \A g \in live : Apart(pathOf[g], attrs[g])
RecordsAreTrue ==
    /\ \A m \in listed : Recorded(m.id, m.name)
    /\ \A n \in DOMAIN mirrorSeen : Recorded(mirrorSeen[n].id, n)

PlanIsJustified == \A i \in DOMAIN plan : Justified(plan[i])

RepairInv == /\ TypeInv /\ OneGroupPerPath /\ AllApart
             /\ SeenIsTrue /\ RecordsAreTrue /\ PlanIsJustified

\* For quiet cycles: the mirrors are in place, the scan has seen all of them, and
\* every difference has an operation that mends it.
AllInPlace == \A g \in live : InPlace(pathOf[g], attrs[g])

KeycloakSeen ==
    /\ \A g \in Mirrors : \/ [id |-> g, name |-> NameOf(g), path |-> pathOf[g]] \in listed
                          \/ NameOf(g) \in DOMAIN mirrorSeen /\ mirrorSeen[NameOf(g)].id = g
    /\ \A n \in DOMAIN mirrorSeen : /\ mirrorSeen[n].id \in live
                                    /\ mirrorSeen[n].members = members[mirrorSeen[n].id]

Creates(o, n)    == o.action = "group_create" /\ o.path = MirrorPath(n)
GivesTo(o, n, u) == /\ o.action = "member_add" /\ o.user = u
                    /\ (o.gid \in MirrorsOf(n) \/ (o.gid = None /\ o.path = MirrorPath(n)))
TakesFrom(o, n, u) == o.action = "member_remove" /\ o.user = u /\ o.gid \in MirrorsOf(n)
Deletes(o, n)    == o.action = "group_delete" /\ o.gid \in MirrorsOf(n)

Missing(n)  == n \in DOMAIN irods /\ MirrorsOf(n) = {}
Stale(n)    == n \notin DOMAIN irods /\ MirrorsOf(n) # {}
Lacks(n, u) == /\ Grants(n, u)
               /\ MirrorsOf(n) = {} \/ \E g \in MirrorsOf(n) : u \notin members[g]
Extra(n, u) == ~Grants(n, u) /\ \E g \in MirrorsOf(n) : u \in members[g]

CreationDue(n) == \E i \in DOMAIN plan : Creates(plan[i], n)
DeletionDue(n) == \E i \in DOMAIN plan : Deletes(plan[i], n)
GiftDue(n, u)  == \E i \in DOMAIN plan : GivesTo(plan[i], n, u)
LossDue(n, u)  == \E i \in DOMAIN plan : TakesFrom(plan[i], n, u) \/ Deletes(plan[i], n)
PlanMends ==
    /\ \A n : Missing(n) => CreationDue(n)
    /\ \A n : Stale(n) => DeletionDue(n)
    /\ \A n : \A u \in User : Lacks(n, u) => GiftDue(n, u)
    /\ \A n : \A u \in User : Extra(n, u) => LossDue(n, u)

\* Every group fits on the page that one listing of its members returns.
OnePage == \A g \in live : IsFiniteSet(members[g]) /\ Cardinality(members[g]) <= PageSize

ScanInv == /\ stage = "irods" => listed = {} /\ DOMAIN mirrorSeen = {}
           /\ quiet /\ stage = "keycloak" => KeycloakSeen
MendInv == /\ stage = "done" => plan = << >>
           /\ quiet /\ complete /\ stage \in {"planned", "applying", "done"} => PlanMends

CycleInv == RepairInv /\ AllInPlace /\ ScanInv /\ MendInv

(***************************************************************************)
(* Types.                                                                  *)
(***************************************************************************)
\* The rest of a plan is part of the plan.
LEMMA RestOfPlan ==
    ASSUME NEW S, NEW p \in Seq(S), p # << >>
    PROVE  /\ Head(p) = p[1] /\ 1 \in DOMAIN p /\ p[1] \in S
           /\ Tail(p) \in Seq(S)
           /\ \A i \in DOMAIN Tail(p) : i + 1 \in DOMAIN p /\ Tail(p)[i] = p[i + 1]
           /\ \A i \in DOMAIN p : i = 1 \/ \E j \in DOMAIN Tail(p) : p[i] = Tail(p)[j]
<1>1. Len(p) \in Nat \ {0} /\ DOMAIN p = 1..Len(p)
  OBVIOUS
<1>2. Tail(p) \in Seq(S) /\ Len(Tail(p)) = Len(p) - 1
      /\ \A i \in 1..(Len(p) - 1) : Tail(p)[i] = p[i + 1]
  OBVIOUS
<1>3. ASSUME NEW i \in DOMAIN p, i # 1 PROVE \E j \in DOMAIN Tail(p) : p[i] = Tail(p)[j]
  <2>1. i - 1 \in DOMAIN Tail(p) /\ Tail(p)[i - 1] = p[i]
    BY <1>1, <1>2, <1>3
  <2>. QED
    BY <2>1
<1>. QED
  BY <1>1, <1>2, <1>3

\* The path of the mirror of n is n below the root, and nothing else is between.
LEMMA MirrorFacts ==
    ASSUME NEW n \in Names
    PROVE  /\ MirrorPath(n) \in Path /\ MirrorAttrs(n, Zone) \in Attrs
           /\ Len(MirrorPath(n)) = 2 /\ MirrorPath(n)[1] = RootName
           /\ UnderRoot(MirrorPath(n)) /\ Tail(MirrorPath(n)) = n
           /\ \A p : IsMirror(Zone, p, MirrorAttrs(n, Zone))
           /\ MirroredName(MirrorPath(n), MirrorAttrs(n, Zone)) = n
<1>1. n \in Seq(Segment) /\ Len(n) = 1 /\ MirrorPath(n) \in Path /\ MirrorAttrs(n, Zone) \in Attrs
  BY OrderAssumption
<1>. DEFINE r == <<RootName>>
            S == Segment \cup {RootName}
<1>2. r \in Seq(S) /\ Len(r) = 1 /\ r[1] = RootName /\ n \in Seq(S)
  BY <1>1
<1>3. MirrorPath(n) = r \o n
  BY DEF MirrorPath
<1>. HIDE DEF r, S
<1>4. /\ r \o n \in Seq(S) /\ Len(r \o n) = 2
      /\ (r \o n)[1] = RootName /\ (r \o n)[2] = n[1]
  <2>1. Len(r) + Len(n) = 2
    BY <1>1, <1>2
  <2>2. \A i \in 1..2 : (r \o n)[i] = IF i <= 1 THEN r[i] ELSE n[i - 1]
    <3>1. \A i \in 1..(Len(r) + Len(n)) : (r \o n)[i] = IF i <= Len(r) THEN r[i] ELSE n[i - Len(r)]
      BY <1>2, ConcatProperties
    <3>. QED
      BY <1>2, <2>1, <3>1, Zenon
  <2>3. \A i \in 1..2 : /\ i <= 1 => (r \o n)[i] = r[i]
                        /\ ~(i <= 1) => (r \o n)[i] = n[i - 1]
    BY <2>2, Zenon
  <2>. DEFINE c == r \o n
  <2>4. c \in Seq(S) /\ Len(c) = 2
    BY <1>2, <2>1, ConcatProperties
  <2>5. \A i \in 1..2 : /\ i <= 1 => c[i] = r[i]
                        /\ ~(i <= 1) => c[i] = n[i - 1]
    BY <2>3
  <2>. HIDE DEF c
  <2>6. c[1] = r[1] /\ c[2] = n[1]
    BY <2>5
  <2>. QED
    BY <1>2, <2>4, <2>6 DEF c
<1>5. Tail(r \o n) = n
  <2>1. Tail(r \o n) \in Seq(S) /\ Len(Tail(r \o n)) = 1 /\ Tail(r \o n)[1] = n[1]
    BY <1>4
  <2>. QED
    BY <1>1, <1>2, <2>1, SeqEqual
<1>6. \A p : IsMirror(Zone, p, MirrorAttrs(n, Zone))
  BY DEF IsMirror, MirrorAttrs
<1>. QED
  BY <1>1, <1>3, <1>4, <1>5, <1>6 DEF UnderRoot, MirroredName, MirrorAttrs

\* FirstMissing finds the first level that is missing.
LEMMA FirstMissingFacts ==
    ASSUME RealmTypeOK, NEW p \in Path, GroupsAt(p) = {}
    PROVE  \E k \in 1..Len(p) :
             /\ FirstMissing(p) = SubSeq(p, 1, k)
             /\ GroupsAt(SubSeq(p, 1, k)) = {}
             /\ \A j \in 1..(k - 1) : GroupsAt(SubSeq(p, 1, j)) # {}
<1>. DEFINE T == {k \in 1..Len(p) : GroupsAt(SubSeq(p, 1, k)) = {}}
            Missed(k) == /\ GroupsAt(SubSeq(p, 1, k)) = {}
                         /\ \A j \in 1..(k - 1) : GroupsAt(SubSeq(p, 1, j)) # {}
<1>1. Len(p) \in Nat \ {0} /\ SubSeq(p, 1, Len(p)) = p
  BY PathFacts
<1>2. T \subseteq Nat /\ Len(p) \in T
  <2>1. GroupsAt(SubSeq(p, 1, Len(p))) = {}
    BY <1>1, Zenon
  <2>2. Len(p) \in 1..Len(p)
    BY <1>1
  <2>. QED
    BY <2>1, <2>2
<1>3. PICK k \in T : \A j \in T : k <= j
  <2>. HIDE DEF T
  <2>. QED
    BY <1>2, LeastNumber
<1>4. k \in 1..Len(p) /\ Missed(k)
  BY <1>1, <1>3
<1>5. FirstMissing(p) = SubSeq(p, 1, CHOOSE i \in 1..Len(p) : Missed(i))
  BY DEF FirstMissing
<1>. HIDE DEF Missed
<1>6. (CHOOSE i \in 1..Len(p) : Missed(i)) \in 1..Len(p)
      /\ Missed(CHOOSE i \in 1..Len(p) : Missed(i))
  BY <1>4, Zenon
<1>. QED
  BY <1>5, <1>6 DEF Missed

(***************************************************************************)
(* What the steps do to the realm.                                         *)
(***************************************************************************)
MayStand(p, a) == <<p, a>> \in Placed \/ (p = <<RootName>> /\ a = NoAttrs)

RealmStep ==
    \/ UNCHANGED realm
    \/ \E n \in Names : \E g \in GroupsAt(MirrorPath(n)) : SetAttrs(g, MirrorAttrs(n, Zone))
    \/ \E g \in GroupId, p \in Path, a \in Attrs : AddGroup(g, p, a) /\ MayStand(p, a)
    \/ \E g \in live : DropGroup(g)
    \/ \E g \in live : \E u \in User : Join(g, u) /\ u \in Account
    \/ \E g \in live : \E u \in User : Leave(g, u)

\* Carrying out a creation creates a group, or writes the attributes of one.
LEMMA CreateChangesRealm ==
    ASSUME TypeInv, NEW o \in Operation, WellFormed(o), ApplyCreate(o)
    PROVE  RealmStep
<1>1. RealmTypeOK
  BY DEF TypeInv, TypeOK
<1>2. PICK n \in Names : o.path = MirrorPath(n) /\ o.attrs = MirrorAttrs(n, Zone)
  BY DEF ApplyCreate, WellFormed
<1>3. CASE \E g \in GroupsAt(o.path) : SetAttrs(g, o.attrs)
  BY <1>2, <1>3 DEF RealmStep
<1>4. CASE /\ GroupsAt(o.path) = {}
           /\ \E g \in FreshIds : AddGroup(g, FirstMissing(o.path),
                    IF FirstMissing(o.path) = o.path THEN o.attrs ELSE NoAttrs)
  <2>. DEFINE p == FirstMissing(o.path)
              a == IF p = o.path THEN o.attrs ELSE NoAttrs
  <2>1. PICK g \in FreshIds : AddGroup(g, p, a)
    BY <1>4
  <2>2. g \in GroupId
    BY <2>1 DEF FreshIds
  <2>3. o.path \in Path /\ Len(o.path) = 2 /\ o.path[1] = RootName
    BY <1>2, MirrorFacts
  <2>4. PICK k \in 1..Len(o.path) : p = SubSeq(o.path, 1, k)
    BY <1>1, <1>4, <2>3, FirstMissingFacts
  <2>5. p \in Path /\ (p # o.path => p = <<RootName>>)
    BY <2>3, <2>4, PathFacts
  <2>6. MayStand(p, a)
    <3>1. CASE p = o.path
      BY <1>2, <3>1 DEF MayStand, Placed
    <3>2. CASE p # o.path
      BY <2>5, <3>2 DEF MayStand
    <3>. QED
      BY <3>1, <3>2
  <2>7. a \in Attrs
    BY AttrsAssumption DEF Operation
  <2>. HIDE DEF p, a
  <2>. QED
    BY <2>1, <2>2, <2>5, <2>6, <2>7 DEF RealmStep
<1>. QED
  BY <1>3, <1>4 DEF ApplyCreate

\* Carrying out any other operation creates nothing and moves nothing.
LEMMA OtherOperationsChangeRealm ==
    ASSUME TypeInv, NEW o \in Operation, WellFormed(o),
           ApplyAdd(o) \/ ApplyRemove(o) \/ ApplyDelete(o)
    PROVE  RealmStep
<1>1. ActsOn(o) \subseteq live
  BY DEF ActsOn, GroupsAt
<1>2. CASE ApplyAdd(o)
  <2>1. o.user \in User
    BY <1>2 DEF ApplyAdd, WellFormed, Memberships
  <2>. QED
    BY <1>1, <1>2, <2>1 DEF ApplyAdd, RealmStep
<1>3. CASE ApplyRemove(o)
  <2>1. o.user \in User
    BY <1>3 DEF ApplyRemove, WellFormed, Memberships
  <2>. QED
    BY <1>1, <1>3, <2>1 DEF ApplyRemove, RealmStep
<1>4. CASE ApplyDelete(o)
  BY <1>1, <1>4 DEF ApplyDelete, RealmStep
<1>. QED
  BY <1>2, <1>3, <1>4

\* So every step changes the realm in one of a few ways.
LEMMA StepsChangeRealm ==
    ASSUME TypeInv, [Next]_vars
    PROVE  RealmStep
<1>1. CASE ApplyOperation
  <2>1. plan \in Seq(Operation) /\ plan # << >> /\ Head(plan) = plan[1] /\ 1 \in DOMAIN plan
        /\ plan[1] \in Operation /\ WellFormed(plan[1])
    BY <1>1, RestOfPlan DEF ApplyOperation, TypeInv
  <2>. QED
    BY <1>1, <2>1, CreateChangesRealm, OtherOperationsChangeRealm DEF ApplyOperation
<1>2. CASE KeycloakDrifts
  <2>1. CASE \E g \in GroupId, p \in Path, a \in EditAttrs : AddGroup(g, p, a)
    <3>1. \A p \in Path, a \in EditAttrs : MayStand(p, a) /\ a \in Attrs
      BY AttrsAssumption DEF MayStand, Placed
    <3>. QED
      BY <2>1, <3>1 DEF RealmStep
  <2>2. CASE \E g \in live : DropGroup(g) \/ \E u \in Account : Join(g, u) \/ Leave(g, u)
    BY <2>2, AccountAssumption DEF RealmStep
  <2>. QED
    BY <1>2, <2>1, <2>2 DEF KeycloakDrifts, AdminEdit
<1>3. CASE ~ApplyOperation /\ ~KeycloakDrifts
  <2>1. UNCHANGED realm
    BY <1>3 DEF Next, ScanStep, BeginScan, ListMirrors, ScanFails, WritePlan, ReadIrodsGroup,
      ReadMirror, ApplyStep, BeginApply, EndApply, MissOperation, Crash, IrodsChanges, vars
  <2>. QED
    BY <2>1 DEF RealmStep
<1>. QED
  BY <1>1, <1>2, <1>3

\* None of which leaves the types.
LEMMA RealmStepKeepsTypes ==
    ASSUME RealmTypeOK, RealmStep
    PROVE  RealmTypeOK' /\ PathsStay
<1>1. CASE UNCHANGED realm
  BY <1>1 DEF RealmTypeOK, realm, PathsStay
<1>2. CASE \E n \in Names : \E g \in GroupsAt(MirrorPath(n)) : SetAttrs(g, MirrorAttrs(n, Zone))
  <2>1. live \subseteq GroupId /\ \A p : GroupsAt(p) \subseteq GroupId
    BY DEF RealmTypeOK, GroupsAt
  <2>. QED
    BY <1>2, <2>1, MirrorFacts, OtherChangesKeepRealm
<1>3. CASE \E g \in GroupId, p \in Path, a \in Attrs : AddGroup(g, p, a) /\ MayStand(p, a)
  BY <1>3, AddGroupKeepsRealm
<1>4. CASE \E g \in live : \/ DropGroup(g)
                           \/ \E u \in User : Join(g, u) /\ u \in Account
                           \/ \E u \in User : Leave(g, u)
  <2>1. live \subseteq GroupId
    BY DEF RealmTypeOK
  <2>. QED
    BY <1>4, <2>1, OtherChangesKeepRealm
<1>. QED
  BY <1>1, <1>2, <1>3, <1>4 DEF RealmStep

\* A plan that is part of the plan, or the one just written, is well-formed.
LEMMA WrittenPlanTypes ==
    ASSUME TypeInv
    PROVE  LET p == PlanRepair(Zone, irodsSeen, mirrorSeen)
           IN  p \in Seq(Operation) /\ \A i \in DOMAIN p : WellFormed(p[i])
<1>. DEFINE p == PlanRepair(Zone, irodsSeen, mirrorSeen)
<1>1. IrodsSnapshot(irodsSeen) /\ KeycloakSnapshot(mirrorSeen)
  BY DEF TypeInv
<1>2. /\ p \in Seq(Operation)
      /\ \A i \in DOMAIN p : Unnumbered(p[i]) \in Wanted(irodsSeen, mirrorSeen)
  BY <1>1, PlanFacts
<1>. HIDE DEF p
<1>3. ASSUME NEW o \in Operation, Unnumbered(o) \in Wanted(irodsSeen, mirrorSeen)
      PROVE  WellFormed(o)
  <2>1. /\ Unnumbered(o).action = o.action /\ Unnumbered(o).gid = o.gid
        /\ Unnumbered(o).path = o.path /\ Unnumbered(o).attrs = o.attrs
        /\ Unnumbered(o).user = o.user
    BY DEF Unnumbered, Operation
  <2>. DEFINE w == Unnumbered(o)
  <2>. HIDE DEF w
  <2>2. /\ DOMAIN irodsSeen \subseteq Names
        /\ \A n \in DOMAIN irodsSeen : irodsSeen[n] \subseteq User
        /\ \A n \in DOMAIN mirrorSeen : /\ mirrorSeen[n].members \subseteq User
                                        /\ mirrorSeen[n].id \in GroupId
                                        /\ mirrorSeen[n].id # None
    BY <1>1, AccountAssumption, NoneAssumption DEF IrodsSnapshot, KeycloakSnapshot
  <2>3. WellFormed(w)
    <3>1. ASSUME NEW n \in DOMAIN irodsSeen, w = CreateOp(n, Zone) PROVE WellFormed(w)
      BY <2>2, <3>1 DEF CreateOp, NewOp, WellFormed, Memberships
    <3>2. ASSUME NEW pp, NEW g, NEW u \in User, w = AddOp(Zone, pp, g, u) PROVE WellFormed(w)
      BY <3>2 DEF AddOp, NewOp, WellFormed, Memberships
    <3>3. ASSUME NEW pp, NEW g, NEW u \in User, w = RemoveOp(Zone, pp, g, u), g # None
          PROVE  WellFormed(w)
      BY <3>3 DEF RemoveOp, NewOp, WellFormed, Memberships
    <3>4. ASSUME NEW pp, NEW g, w = DeleteOp(Zone, pp, g), g # None PROVE WellFormed(w)
      BY <3>4 DEF DeleteOp, NewOp, WellFormed, Memberships
    <3>5. w \in Wanted(irodsSeen, mirrorSeen)
      BY <1>3 DEF w
    <3>. QED
      BY <2>2, <3>1, <3>2, <3>3, <3>4, <3>5, WantedCases
  <2>. QED
    BY <2>1, <2>3 DEF WellFormed, w
<1>. QED
  BY <1>2, <1>3 DEF p

\* TypeInv is inductive: at the start, for the scan, for the operations, for all steps.
LEMMA InitTypes ==
    ASSUME Init
    PROVE  TypeInv
<1>1. RealmTypeOK
  BY StartAssumption DEF Init, RealmInit, RealmTypeOK
<1>2. DOMAIN NoSnapshot = {}
  BY DEF NoSnapshot
<1>3. DOMAIN irods \subseteq Names /\ \A n \in DOMAIN irods : irods[n] \subseteq User
  BY StartIrodsAssumption DEF Init
<1>4. plan \in Seq(Operation) /\ DOMAIN plan = {}
  BY DEF Init
<1>5. IrodsSnapshot(irodsSeen) /\ KeycloakSnapshot(mirrorSeen)
      /\ DOMAIN irodsSeen = {} /\ DOMAIN mirrorSeen = {}
  BY <1>2 DEF Init, IrodsSnapshot, KeycloakSnapshot
<1>6. TypeOK
  <2>1. 0 \in 0..MaxIrodsEdits /\ 0 \in 0..MaxEdits /\ 0 \in 0..MaxMishaps
    BY RepairBoundAssumption
  <2>. QED
    BY <1>1, <1>3, <1>4, <1>5, <2>1 DEF TypeOK, Init, Stages
<1>. QED
  BY <1>4, <1>5, <1>6 DEF TypeInv

\* The steps of the scan.
LEMMA ScanKeepsTypes ==
    ASSUME TypeInv, ScanStep
    PROVE  TypeInv'
<1>1. UNCHANGED <<realm, irods, counters>> /\ RealmTypeOK'
  BY DEF ScanStep, BeginScan, ListMirrors, ScanFails, WritePlan, ReadIrodsGroup, ReadMirror,
         TypeInv, TypeOK, RealmTypeOK, realm
<1>2. CASE BeginScan
  <2>1. DOMAIN irodsSeen' = {} /\ DOMAIN mirrorSeen' = {}
    BY <1>2 DEF BeginScan, NoSnapshot
  <2>2. plan' \in Seq(Operation) /\ DOMAIN plan' = {}
    BY <1>2 DEF BeginScan
  <2>. QED
    BY <1>1, <1>2, <2>1, <2>2
    DEF TypeInv, TypeOK, BeginScan, counters, Stages, IrodsSnapshot, KeycloakSnapshot, WellFormed
<1>3. ASSUME NEW n \in unread, ReadIrodsGroup(n) PROVE TypeInv'
  <2>. DEFINE seen == IF n \in DOMAIN irods THEN irods[n] ELSE {}
  <2>1. seen \subseteq User /\ n \in Names
    BY DEF TypeInv, TypeOK
  <2>2. irodsSeen' = With(irodsSeen, n, seen)
    BY <1>3 DEF ReadIrodsGroup
  <2>. HIDE DEF seen
  <2>3. /\ DOMAIN irodsSeen' = DOMAIN irodsSeen \cup {n} /\ irodsSeen'[n] = seen
        /\ \A k \in DOMAIN irodsSeen \ {n} : irodsSeen'[k] = irodsSeen[k]
    BY <2>2 DEF With
  <2>4. IrodsSnapshot(irodsSeen)'
    BY <2>1, <2>3 DEF IrodsSnapshot, TypeInv
  <2>. QED
    BY <1>1, <1>3, <2>4
    DEF TypeInv, TypeOK, ReadIrodsGroup, counters, IrodsSnapshot, KeycloakSnapshot, WellFormed
<1>4. CASE ListMirrors
  <2>1. \A m \in listed' : m.id \in GroupId /\ m.path \in Path
    BY <1>4 DEF ListMirrors, Mirrors, TypeInv, TypeOK, RealmTypeOK
  <2>. QED
    BY <1>1, <1>4, <2>1
    DEF TypeInv, TypeOK, ListMirrors, counters, Stages, IrodsSnapshot, KeycloakSnapshot, WellFormed
<1>5. ASSUME NEW m \in listed, ReadMirror(m) PROVE TypeInv'
  <2>1. m.id \in GroupId /\ m.path \in Path
    BY DEF TypeInv, TypeOK
  <2>2. PICK page \in MemberPages(m.id) :
          mirrorSeen' = With(mirrorSeen, m.name, [id |-> m.id, path |-> m.path, members |-> page])
    BY <1>5 DEF ReadMirror
  <2>3. page \subseteq Account
    BY <2>1 DEF MemberPages, TypeInv, TypeOK, RealmTypeOK
  <2>. DEFINE seen == [id |-> m.id, path |-> m.path, members |-> page]
  <2>4. seen.id \in GroupId /\ seen.path \in Path /\ seen.members \subseteq Account
        /\ mirrorSeen' = With(mirrorSeen, m.name, seen)
    BY <2>1, <2>2, <2>3
  <2>. HIDE DEF seen
  <2>5. /\ DOMAIN mirrorSeen' = DOMAIN mirrorSeen \cup {m.name} /\ mirrorSeen'[m.name] = seen
        /\ \A k \in DOMAIN mirrorSeen \ {m.name} : mirrorSeen'[k] = mirrorSeen[k]
    BY <2>4 DEF With
  <2>6. KeycloakSnapshot(mirrorSeen)'
    BY <2>4, <2>5 DEF KeycloakSnapshot, TypeInv
  <2>. QED
    BY <1>1, <1>5, <2>6
    DEF TypeInv, TypeOK, ReadMirror, counters, IrodsSnapshot, KeycloakSnapshot, WellFormed
<1>6. CASE ScanFails
  BY <1>1, <1>6
  DEF TypeInv, TypeOK, ScanFails, scan, counters, Stages, IrodsSnapshot, KeycloakSnapshot, WellFormed
<1>7. CASE WritePlan
  <2>1. plan' \in Seq(Operation) /\ \A i \in DOMAIN plan' : WellFormed(plan'[i])
    BY <1>7, WrittenPlanTypes DEF WritePlan
  <2>2. \A i \in DOMAIN plan' : plan'[i] \in Operation
    BY <2>1
  <2>. QED
    BY <1>1, <1>7, <2>1, <2>2
    DEF TypeInv, TypeOK, WritePlan, scan, counters, Stages, IrodsSnapshot, KeycloakSnapshot,
        WellFormed, Operation
<1>. QED
  BY <1>2, <1>3, <1>4, <1>5, <1>6, <1>7 DEF ScanStep

\* Taking an operation off the plan.
LEMMA TookKeepsTypes ==
    ASSUME TypeInv, plan # << >>, NEW ok \in BOOLEAN, Took(Head(plan), ok)
    PROVE  /\ plan' \in Seq(Operation) /\ \A i \in DOMAIN plan' : WellFormed(plan'[i])
           /\ complete' \in BOOLEAN
<1>1. plan \in Seq(Operation) /\ \A i \in DOMAIN plan : WellFormed(plan[i])
  BY DEF TypeInv
<1>2. plan' = Tail(plan) /\ complete' \in BOOLEAN
  BY DEF Took
<1>. QED
  BY <1>1, <1>2, RestOfPlan

\* An operation leaves the whole plan, or the rest of it.
LEMMA OperationTakes ==
    ASSUME ApplyOperation
    PROVE  \/ Took(Head(plan), TRUE) \/ Took(Head(plan), FALSE)
           \/ UNCHANGED <<plan, complete>>
BY Zenon DEF ApplyOperation, ApplyCreate, ApplyAdd, ApplyRemove, ApplyDelete

\* All steps.
LEMMA StepsKeepTypes ==
    ASSUME TypeInv, [Next]_vars
    PROVE  TypeInv'
<1>1. RealmTypeOK'
  BY StepsChangeRealm, RealmStepKeepsTypes DEF TypeInv, TypeOK
<1>2. ASSUME UNCHANGED <<scan, steady, irodsEdits, edits, mishaps>>,
             stage' \in Stages, quiet' \in BOOLEAN, complete' \in BOOLEAN, UNCHANGED irods,
             plan' \in Seq(Operation), \A i \in DOMAIN plan' : WellFormed(plan'[i])
      PROVE  TypeInv'
  <2>1. \A i \in DOMAIN plan' : plan'[i] \in Operation
    BY <1>2
  <2>. QED
    BY <1>1, <1>2, <2>1
    DEF TypeInv, TypeOK, scan, counters, IrodsSnapshot, KeycloakSnapshot, WellFormed, Operation
<1>3. CASE ScanStep
  BY <1>3, ScanKeepsTypes
<1>4. CASE ApplyOperation
  <2>1. plan' \in Seq(Operation) /\ complete' \in BOOLEAN
        /\ \A i \in DOMAIN plan' : WellFormed(plan'[i])
    BY <1>4, OperationTakes, TookKeepsTypes DEF ApplyOperation, TypeInv, TypeOK
  <2>2. UNCHANGED <<irods, stage, scan, quiet, steady, irodsEdits, edits, mishaps>>
    BY <1>4 DEF ApplyOperation, counters
  <2>. QED
    BY <1>2, <2>1, <2>2 DEF TypeInv, TypeOK
<1>5. CASE BeginApply \/ EndApply
  BY <1>2, <1>5 DEF BeginApply, EndApply, TypeInv, TypeOK, counters, Stages
<1>6. CASE MissOperation
  <2>1. plan' \in Seq(Operation) /\ complete' \in BOOLEAN
        /\ \A i \in DOMAIN plan' : WellFormed(plan'[i])
    BY <1>6, TookKeepsTypes DEF MissOperation
  <2>2. /\ UNCHANGED <<irods, stage, scan, quiet, steady, irodsEdits, edits>>
        /\ mishaps' \in 0..MaxMishaps
    BY <1>6, RepairBoundAssumption DEF MissOperation, TypeInv, TypeOK
  <2>3. \A i \in DOMAIN plan' : plan'[i] \in Operation
    BY <2>1
  <2>. QED
    BY <1>1, <2>1, <2>2, <2>3
    DEF TypeInv, TypeOK, scan, IrodsSnapshot, KeycloakSnapshot, WellFormed, Operation
<1>7. CASE Crash
  <2>1. /\ UNCHANGED <<irods, scan, plan, complete, quiet, steady, irodsEdits, edits>>
        /\ mishaps' \in 0..MaxMishaps /\ stage' \in Stages
    BY <1>7, RepairBoundAssumption DEF Crash, TypeInv, TypeOK, Stages
  <2>. QED
    BY <1>1, <2>1
    DEF TypeInv, TypeOK, scan, IrodsSnapshot, KeycloakSnapshot, WellFormed
<1>8. CASE IrodsChanges
  <2>1. DOMAIN irods' \subseteq Names /\ \A n \in DOMAIN irods' : irods'[n] \subseteq User
    <3>1. DOMAIN irods \subseteq Names /\ \A n \in DOMAIN irods : irods[n] \subseteq User
      BY DEF TypeInv, TypeOK
    <3>2. ASSUME NEW n \in Names, irods' = With(irods, n, {})
          PROVE  DOMAIN irods' \subseteq Names /\ \A k \in DOMAIN irods' : irods'[k] \subseteq User
      <4>1. /\ DOMAIN irods' = DOMAIN irods \cup {n} /\ irods'[n] = {}
            /\ \A k \in DOMAIN irods \ {n} : irods'[k] = irods[k]
        BY <3>2 DEF With
      <4>. QED
        BY <3>1, <4>1
    <3>. QED
      BY <1>8, <3>1, <3>2 DEF IrodsChanges
  <2>2. /\ UNCHANGED <<stage, scan, plan, complete, edits, mishaps>>
        /\ irodsEdits' \in 0..MaxIrodsEdits /\ quiet' \in BOOLEAN /\ steady' \subseteq steady
    <3>1. irodsEdits \in 0..MaxIrodsEdits
      BY DEF TypeInv, TypeOK
    <3>2. irodsEdits' = irodsEdits + 1 /\ irodsEdits < MaxIrodsEdits
      BY <1>8 DEF IrodsChanges
    <3>3. irodsEdits' \in 0..MaxIrodsEdits
      BY <3>1, <3>2, RepairBoundAssumption
    <3>4. steady' \subseteq steady /\ quiet' = FALSE
      BY <1>8, Zenon DEF IrodsChanges
    <3>. QED
      BY <1>8, <3>3, <3>4, Zenon DEF IrodsChanges
  <2>. QED
    BY <1>1, <2>1, <2>2
    DEF TypeInv, TypeOK, scan, IrodsSnapshot, KeycloakSnapshot, WellFormed
<1>9. CASE KeycloakDrifts
  <2>1. /\ UNCHANGED <<irods, stage, scan, plan, complete, steady, irodsEdits, mishaps>>
        /\ edits' \in 0..MaxEdits /\ quiet' \in BOOLEAN
    <3>1. edits \in 0..MaxEdits /\ edits' = edits + 1 /\ edits < MaxEdits
      BY <1>9 DEF TypeInv, TypeOK, KeycloakDrifts
    <3>2. edits' \in 0..MaxEdits
      BY <3>1, RepairBoundAssumption
    <3>. QED
      BY <1>9, <3>2, Zenon DEF KeycloakDrifts
  <2>. QED
    BY <1>1, <2>1
    DEF TypeInv, TypeOK, scan, IrodsSnapshot, KeycloakSnapshot, WellFormed
<1>10. CASE UNCHANGED vars
  BY <1>2, <1>10 DEF vars, scan, counters, TypeInv, TypeOK
<1>. QED
  BY <1>3, <1>4, <1>5, <1>6, <1>7, <1>8, <1>9, <1>10 DEF Next, ApplyStep

\* TypeOK: cycle, snapshots and realm stay in their types, and a plan stays one of
\* operations on paths there are.
THEOREM RepairTypesHold == Spec => []TypeOK
<1>1. TypeInv /\ [Next]_vars => TypeInv'
  BY StepsKeepTypes
<1>2. TypeInv => TypeOK
  BY DEF TypeInv
<1>. QED
  BY InitTypes, <1>1, <1>2, PTL DEF Spec

(***************************************************************************)
(* What the dry run writes, apply accepts.                                 *)
(***************************************************************************)
\* An operation as planRepair writes it: the evidence repeats the plan and the
\* target, and a deletion asks for approval.
AsWritten(o) ==
    /\ o.evidence = [realm |-> RealmName, zone |-> Zone, path |-> o.path]
    /\ o.action = "group_delete" => o.risk = "requires_approval"

WrittenInv == stage = "planned" =>
    \A i \in DOMAIN plan : plan[i].id = i /\ AsWritten(plan[i])

\* Every membership operation names a user the validator lets pass.
RegularUsers == \A i \in DOMAIN plan :
    plan[i].action \in Memberships => plan[i].user \notin Irregular

\* The plan at the end of a scan is as the validator wants it.
LEMMA WrittenPlanFacts ==
    ASSUME TypeInv
    PROVE  LET p == PlanRepair(Zone, irodsSeen, mirrorSeen)
           IN  \A i \in DOMAIN p : p[i].id = i /\ AsWritten(p[i])
<1>. DEFINE p == PlanRepair(Zone, irodsSeen, mirrorSeen)
<1>1. /\ p \in Seq(Operation)
      /\ \A i \in DOMAIN p : p[i].id = i /\ Unnumbered(p[i]) \in Wanted(irodsSeen, mirrorSeen)
  BY PlanFacts DEF TypeInv
<1>. HIDE DEF p
<1>2. ASSUME NEW o \in Operation, Unnumbered(o) \in Wanted(irodsSeen, mirrorSeen)
      PROVE  AsWritten(o)
  <2>. DEFINE w == Unnumbered(o)
  <2>1. /\ w.action = o.action /\ w.path = o.path /\ w.risk = o.risk
        /\ w.evidence = o.evidence
    BY DEF Unnumbered, Operation
  <2>2. w \in Wanted(irodsSeen, mirrorSeen)
    BY <1>2
  <2>. HIDE DEF w
  <2>3. /\ \A n : AsWritten(CreateOp(n, Zone))
        /\ \A q, g, u : AsWritten(AddOp(Zone, q, g, u)) /\ AsWritten(RemoveOp(Zone, q, g, u))
        /\ \A q, g : AsWritten(DeleteOp(Zone, q, g))
    BY DEF CreateOp, AddOp, RemoveOp, DeleteOp, NewOp, AsWritten
  <2>4. AsWritten(w)
    BY <2>2, <2>3, WantedCases
  <2>. QED
    BY <2>1, <2>4 DEF AsWritten
<1>. QED
  BY <1>1, <1>2 DEF p

\* It stays so until it is applied.
LEMMA StepsKeepWritten ==
    ASSUME TypeInv, WrittenInv, [Next]_vars
    PROVE  WrittenInv'
<1>. SUFFICES ASSUME stage' = "planned"
              PROVE  \A i \in DOMAIN plan' : plan'[i].id = i /\ AsWritten(plan'[i])
  BY DEF WrittenInv, AsWritten
<1>1. CASE WritePlan
  BY <1>1, WrittenPlanFacts DEF WritePlan
<1>2. CASE ~WritePlan
  <2>1. stage = "planned" /\ plan' = plan
    BY <1>2 DEF Next, ScanStep, BeginScan, ListMirrors, ScanFails, ReadIrodsGroup, ReadMirror,
      ApplyStep, BeginApply, ApplyOperation, EndApply, MissOperation, Crash, IrodsChanges,
      KeycloakDrifts, vars
  <2>. QED
    BY <2>1 DEF WrittenInv
<1>. QED
  BY <1>1, <1>2

\* Of such a plan the validator looks at the usernames only.
LEMMA WhenAccepted ==
    ASSUME WrittenInv, stage = "planned"
    PROVE  Accepted <=> RegularUsers
<1>1. \A i \in DOMAIN plan : plan[i].id = i /\ AsWritten(plan[i])
  BY DEF WrittenInv
<1>2. \A i \in DOMAIN plan :
        ValidOperation(PlanFile, plan[i])
          <=> (plan[i].action \in Memberships => plan[i].user \notin Irregular)
  <2>. SUFFICES ASSUME NEW o, AsWritten(o)
                PROVE  ValidOperation(PlanFile, o)
                         <=> (o.action \in Memberships => o.user \notin Irregular)
    BY <1>1
  <2>1. Agrees(PlanFile, o)
    BY DEF Agrees, PlanFile, AsWritten
  <2>. QED
    BY <2>1 DEF ValidOperation, AsWritten
<1>. QED
  BY <1>1, <1>2 DEF Accepted, ValidPlan, PlanFile, RegularUsers

\* apply refuses a plan as the dry run wrote it if, and only if, a membership
\* operation of it names a user that is not local to the zone or whose name the
\* validator cannot tell from one (service.go writes them, plan.go refuses them).
THEOREM RefusedForUsernamesOnly ==
    Spec => [](stage = "planned" => (Accepted <=> RegularUsers))
<1>1. Init => WrittenInv
  BY DEF Init, WrittenInv
<1>2. WrittenInv => (stage = "planned" => (Accepted <=> RegularUsers))
  BY WhenAccepted
<1>3. TypeInv /\ WrittenInv /\ [Next]_vars => TypeInv' /\ WrittenInv'
  BY StepsKeepTypes, StepsKeepWritten
<1>. QED
  BY InitTypes, <1>1, <1>2, <1>3, PTL DEF Spec

\* WrittenPlansApply: where no username has a '#' or '/', apply accepts every plan
\* the dry run writes.
THEOREM RegularPlansApply ==
    ASSUME Irregular \cap User = {}
    PROVE  Spec => []WrittenPlansApply
<1>1. TypeInv => RegularUsers
  BY DEF TypeInv, WellFormed, RegularUsers
<1>2. TypeInv /\ (stage = "planned" => (Accepted <=> RegularUsers)) => WrittenPlansApply
  BY <1>1 DEF WrittenPlansApply
<1>3. TypeInv /\ [Next]_vars => TypeInv'
  BY StepsKeepTypes
<1>. QED
  BY InitTypes, RefusedForUsernamesOnly, <1>2, <1>3, PTL DEF Spec

(***************************************************************************)
(* Steps keep the groups apart, and the records of the scan true.          *)
(***************************************************************************)
\* A group keeps its path; apply gives a group at a mirror path the attributes of
\* that mirror; a new group stands where one may.
LEMMA GroupsAfterStep ==
    ASSUME RealmTypeOK, RealmStep, NEW g \in live'
    PROVE  \/ /\ g \in live /\ pathOf'[g] = pathOf[g]
              /\ \/ attrs'[g] = attrs[g]
                 \/ \E n \in Names : pathOf[g] = MirrorPath(n) /\ attrs'[g] = MirrorAttrs(n, Zone)
           \/ g \in GroupId /\ pathOf[g] = None /\ MayStand(pathOf'[g], attrs'[g])
<1>1. live \subseteq GroupId /\ DOMAIN pathOf = GroupId /\ DOMAIN attrs = GroupId
  BY DEF RealmTypeOK
<1>2. CASE UNCHANGED realm
  BY <1>2 DEF realm
<1>3. CASE \E n \in Names : \E h \in GroupsAt(MirrorPath(n)) : SetAttrs(h, MirrorAttrs(n, Zone))
  BY <1>1, <1>3 DEF SetAttrs, GroupsAt
<1>4. CASE \E h \in GroupId, p \in Path, a \in Attrs : AddGroup(h, p, a) /\ MayStand(p, a)
  BY <1>1, <1>4 DEF AddGroup
<1>5. CASE \E h \in live : DropGroup(h)
  BY <1>5 DEF DropGroup
<1>6. CASE \E h \in live : \E u \in User : (Join(h, u) /\ u \in Account) \/ Leave(h, u)
  BY <1>6 DEF Join, Leave
<1>. QED
  BY <1>2, <1>3, <1>4, <1>5, <1>6 DEF RealmStep

\* The root itself, created for the first mirror, is not a mirror.
LEMMA RootIsNoMirror == ~IsMirror(Zone, <<RootName>>, NoAttrs)
<1>1. ~UnderRoot(<<RootName>>)
  BY DEF UnderRoot
<1>2. NoAttrs.name = None /\ NoAttrs.authority = None
  BY BareAssumption DEF Bare
<1>. QED
  BY <1>1, <1>2, BareAssumption DEF IsMirror

\* Groups stand apart at the start.
LEMMA StartsApart ==
    ASSUME MirrorsApart, Init
    PROVE  AllApart /\ OneGroupPerPath
<1>1. PICK s \in StartRealms : live = s.live /\ pathOf = s.pathOf /\ attrs = s.attrs
  BY DEF Init, RealmInit
<1>2. \A g \in s.live : <<s.pathOf[g], s.attrs[g]>> \in Placed
  BY DEF Placed
<1>3. AllApart
  BY <1>1, <1>2 DEF AllApart, MirrorsApart
<1>. QED
  BY <1>1, <1>3, StartAssumption DEF OneGroupPerPath

\* They do after every step.
LEMMA StaysApart ==
    ASSUME MirrorsApart, RealmTypeOK, AllApart, RealmStep
    PROVE  AllApart'
<1>1. \A p, a : MayStand(p, a) => Apart(p, a)
  BY RootIsNoMirror DEF MayStand, MirrorsApart, Apart
<1>2. \A n \in Names : Apart(MirrorPath(n), MirrorAttrs(n, Zone))
  BY <1>1 DEF MayStand, Placed
<1>3. ASSUME NEW g \in live' PROVE Apart(pathOf'[g], attrs'[g])
  BY <1>1, <1>2, <1>3, GroupsAfterStep DEF AllApart
<1>. QED
  BY <1>3 DEF AllApart, Apart

\* No step puts two groups at one path.
LEMMA StaysOneGroupPerPath ==
    ASSUME RealmTypeOK, OneGroupPerPath, RealmStep
    PROVE  OneGroupPerPath'
<1>1. live \subseteq GroupId /\ DOMAIN pathOf = GroupId
  BY DEF RealmTypeOK
<1>2. CASE \E g \in GroupId, p \in Path, a \in Attrs : AddGroup(g, p, a) /\ MayStand(p, a)
  BY <1>1, <1>2 DEF AddGroup, OneGroupPerPath, GroupsAt
<1>3. CASE pathOf' = pathOf /\ live' \subseteq live
  BY <1>3 DEF OneGroupPerPath
<1>. QED
  BY <1>2, <1>3 DEF RealmStep, SetAttrs, DropGroup, Join, Leave, realm

\* A group at the path of a mirror is that mirror, if it is one.
LEMMA MirrorAtPath ==
    ASSUME AllApart, NEW n \in Names, NEW g \in GroupsAt(MirrorPath(n)), IsMirrorGroup(g)
    PROVE  NameOf(g) = n
<1>1. g \in live /\ pathOf[g] = MirrorPath(n)
  BY DEF GroupsAt
<1>2. Apart(pathOf[g], attrs[g]) /\ UnderRoot(pathOf[g]) /\ Tail(pathOf[g]) = n
  BY <1>1, MirrorFacts DEF AllApart
<1>. QED
  BY <1>2 DEF Apart, IsMirrorGroup, NameOf

\* What the scan has recorded of an id stays true as long as the group exists.
LEMMA RecordedStays ==
    ASSUME RealmTypeOK, AllApart, RealmStep, NEW id \in GroupId, NEW n, Recorded(id, n)
    PROVE  Recorded(id, n)'
<1>1. pathOf'[id] = pathOf[id] /\ pathOf'[id] # None
  BY RealmStepKeepsTypes DEF PathsStay, Recorded
<1>. SUFFICES ASSUME id \in live'
              PROVE  IsMirrorGroup(id)' /\ NameOf(id)' = n
  BY <1>1 DEF Recorded
<1>2. /\ id \in live
      /\ \/ attrs'[id] = attrs[id]
         \/ \E k \in Names : pathOf[id] = MirrorPath(k) /\ attrs'[id] = MirrorAttrs(k, Zone)
  BY <1>1, GroupsAfterStep
<1>3. IsMirrorGroup(id) /\ NameOf(id) = n
  BY <1>2 DEF Recorded
<1>4. CASE attrs'[id] = attrs[id]
  BY <1>1, <1>3, <1>4 DEF IsMirrorGroup, NameOf
<1>5. ASSUME NEW k \in Names, pathOf[id] = MirrorPath(k), attrs'[id] = MirrorAttrs(k, Zone)
      PROVE  IsMirrorGroup(id)' /\ NameOf(id)' = n
  <2>1. k = n
    BY <1>2, <1>3, <1>5, MirrorAtPath DEF GroupsAt
  <2>. QED
    BY <1>1, <1>5, <2>1, MirrorFacts DEF IsMirrorGroup, NameOf
<1>. QED
  BY <1>2, <1>4, <1>5

\* An operation stays justified while nobody changes what it rests on.
LEMMA JustifiedStays ==
    ASSUME RealmTypeOK, AllApart, RealmStep, NEW o \in Operation, Justified(o),
           o.action \in Memberships => o.user \in User,
           \A n, u : <<n, u>> \in steady' => <<n, u>> \in steady /\ (Grants(n, u)' <=> Grants(n, u)),
           quiet' => quiet /\ irods' = irods
    PROVE  Justified(o)'
<1>1. PICK n :
        /\ MeantFor(o, n)
        /\ o.action = "group_create" => n \in Names /\ (quiet => n \in DOMAIN irods)
        /\ o.action = "member_add" =>
             n \in Names /\ (<<n, o.user>> \in steady => Grants(n, o.user))
        /\ o.action = "member_remove" =>
             n \in Names /\ (<<n, o.user>> \in steady => ~Grants(n, o.user))
        /\ o.action = "group_delete" =>
             /\ \A u \in User : <<n, u>> \in steady => ~Grants(n, u)
             /\ quiet => n \notin DOMAIN irods
  BY DEF Justified
<1>2. MeantFor(o, n)'
  <2>1. o.gid \in GroupId \cup {None}
    BY DEF Operation
  <2>. QED
    BY <1>1, <2>1, RecordedStays DEF MeantFor
<1>. QED
  BY <1>1, <1>2 DEF Justified

(***************************************************************************)
(* What the scan has seen, step by step.                                   *)
(***************************************************************************)
LEMMA SteadyStays ==
    ASSUME [Next]_vars, ~BeginScan
    PROVE  /\ \A n, u : <<n, u>> \in steady' =>
                <<n, u>> \in steady /\ (Grants(n, u)' <=> Grants(n, u))
           /\ quiet' => quiet /\ irods' = irods
           /\ quiet' => steady' = steady
<1>1. CASE IrodsChanges
  <2>1. quiet' = FALSE
    BY <1>1 DEF IrodsChanges
  <2>2. steady' = {x \in steady : Grants(x[1], x[2]) <=> Grants(x[1], x[2])'}
    BY <1>1 DEF IrodsChanges
  <2>3. ASSUME NEW n, NEW u, <<n, u>> \in steady'
        PROVE  <<n, u>> \in steady /\ (Grants(n, u)' <=> Grants(n, u))
    <3>. DEFINE x == <<n, u>>
    <3>1. x \in steady /\ (Grants(x[1], x[2]) <=> Grants(x[1], x[2])')
      BY <2>2, <2>3, Zenon
    <3>2. x[1] = n /\ x[2] = u
      OBVIOUS
    <3>. HIDE DEF x
    <3>3. Grants(n, u)' <=> Grants(n, u)
      BY <3>1, <3>2 DEF Grants
    <3>. QED
      BY <3>1, <3>3 DEF x
  <2>. QED
    BY <2>1, <2>3
<1>2. CASE ~IrodsChanges
  <2>1. irods' = irods /\ steady' = steady /\ (quiet' = quiet \/ quiet' = FALSE)
    BY <1>2 DEF Next, ScanStep, ListMirrors, ScanFails, WritePlan, ReadIrodsGroup, ReadMirror,
      ApplyStep, BeginApply, ApplyOperation, EndApply, MissOperation, Crash, KeycloakDrifts, vars
  <2>. QED
    BY <2>1 DEF Grants
<1>. QED
  BY <1>1, <1>2

\* What was read of iRODS stays true.
LEMMA SeenStaysTrue ==
    ASSUME TypeInv, SeenIsTrue, [Next]_vars
    PROVE  SeenIsTrue'
<1>1. CASE BeginScan
  <2>1. /\ DOMAIN irodsSeen' = {} /\ unread' = DOMAIN irods /\ irods' = irods
        /\ steady' = Names \X User /\ stage' = "irods"
    BY <1>1 DEF BeginScan, NoSnapshot
  <2>. QED
    BY <2>1 DEF SeenIsTrue, Grants
<1>2. ASSUME NEW k \in unread, ReadIrodsGroup(k) PROVE SeenIsTrue'
  <2>. DEFINE seen == IF k \in DOMAIN irods THEN irods[k] ELSE {}
  <2>1. irodsSeen' = With(irodsSeen, k, seen) /\ k \in Names
    BY <1>2 DEF ReadIrodsGroup, TypeInv, TypeOK
  <2>2. \A u : u \in seen <=> Grants(k, u)
    BY DEF Grants
  <2>. HIDE DEF seen
  <2>3. /\ DOMAIN irodsSeen' = DOMAIN irodsSeen \cup {k} /\ irodsSeen'[k] = seen
        /\ \A n \in DOMAIN irodsSeen \ {k} : irodsSeen'[n] = irodsSeen[n]
    BY <2>1 DEF With
  <2>4. UNCHANGED <<irods, steady, quiet, stage>> /\ unread' = unread \ {k} /\ stage = "irods"
    BY <1>2 DEF ReadIrodsGroup
  <2>5. \A n, u : Grants(n, u)' <=> Grants(n, u)
    BY <2>4 DEF Grants
  <2>6. ASSUME NEW n \in Names, NEW u \in User, <<n, u>> \in steady
        PROVE  /\ n \in DOMAIN irodsSeen' => (u \in irodsSeen'[n] <=> Grants(n, u))
               /\ n \notin DOMAIN irodsSeen' /\ n \notin unread' => ~Grants(n, u)
    BY <2>2, <2>3, <2>4, <2>6 DEF SeenIsTrue
  <2>7. quiet => DOMAIN irods = DOMAIN irodsSeen' \cup unread'
    BY <2>3, <2>4 DEF SeenIsTrue
  <2>8. quiet => steady = Names \X User
    BY DEF SeenIsTrue
  <2>. QED
    BY <2>4, <2>5, <2>6, <2>7, <2>8 DEF SeenIsTrue
<1>3. CASE UNCHANGED <<irodsSeen, unread>> /\ ~BeginScan
           /\ (stage' = "keycloak" => stage = "keycloak" \/ unread = {})
  <2>1. /\ \A n, u : <<n, u>> \in steady' =>
             <<n, u>> \in steady /\ (Grants(n, u)' <=> Grants(n, u))
        /\ quiet' => quiet /\ irods' = irods
        /\ quiet' => steady' = steady
    BY <1>3, SteadyStays
  <2>. QED
    BY <1>3, <2>1 DEF SeenIsTrue
<1>. QED
  BY <1>1, <1>2, <1>3 DEF Next, ScanStep, ListMirrors, ScanFails, WritePlan, ReadMirror,
    ApplyStep, BeginApply, ApplyOperation, EndApply, MissOperation, Crash, IrodsChanges,
    KeycloakDrifts, vars, scan

\* What was read of Keycloak stays true.
LEMMA RecordsStayTrue ==
    ASSUME TypeInv, AllApart, RecordsAreTrue, [Next]_vars
    PROVE  RecordsAreTrue'
<1>1. /\ RealmTypeOK /\ RealmStep
      /\ \A m \in listed : m.id \in GroupId /\ Recorded(m.id, m.name)
      /\ \A n \in DOMAIN mirrorSeen : mirrorSeen[n].id \in GroupId /\ Recorded(mirrorSeen[n].id, n)
  BY StepsChangeRealm DEF TypeInv, TypeOK, RecordsAreTrue
<1>2. CASE BeginScan
  <2>1. listed' = {} /\ DOMAIN mirrorSeen' = {}
    BY <1>2 DEF BeginScan, NoSnapshot
  <2>. QED
    BY <2>1 DEF RecordsAreTrue
<1>3. CASE ListMirrors
  <2>1. listed' = {[id |-> g, name |-> NameOf(g), path |-> pathOf[g]] : g \in Mirrors}
        /\ UNCHANGED realm /\ mirrorSeen' = mirrorSeen
    BY <1>3 DEF ListMirrors
  <2>2. \A g \in Mirrors : Recorded(g, NameOf(g))
    BY <1>1, NoneAssumption DEF Mirrors, Recorded, RealmTypeOK
  <2>3. \A m \in listed' : Recorded(m.id, m.name)
    BY <2>1, <2>2
  <2>. QED
    BY <1>1, <2>1, <2>3 DEF RecordsAreTrue, Recorded, IsMirrorGroup, NameOf, realm
<1>4. ASSUME NEW m \in listed, ReadMirror(m) PROVE RecordsAreTrue'
  <2>1. PICK page : mirrorSeen' = With(mirrorSeen, m.name, [id |-> m.id, path |-> m.path, members |-> page])
    BY <1>4 DEF ReadMirror
  <2>. DEFINE seen == [id |-> m.id, path |-> m.path, members |-> page]
  <2>2. seen.id = m.id /\ mirrorSeen' = With(mirrorSeen, m.name, seen)
    BY <2>1
  <2>. HIDE DEF seen
  <2>3. /\ DOMAIN mirrorSeen' = DOMAIN mirrorSeen \cup {m.name} /\ mirrorSeen'[m.name] = seen
        /\ \A k \in DOMAIN mirrorSeen \ {m.name} : mirrorSeen'[k] = mirrorSeen[k]
    BY <2>2 DEF With
  <2>4. UNCHANGED realm /\ listed' \subseteq listed
    BY <1>4 DEF ReadMirror
  <2>. QED
    BY <1>1, <2>2, <2>3, <2>4 DEF RecordsAreTrue, Recorded, IsMirrorGroup, NameOf, realm
<1>5. CASE UNCHANGED <<listed, mirrorSeen>>
  <2>1. \A id \in GroupId : \A n : Recorded(id, n) => Recorded(id, n)'
    BY <1>1, RecordedStays
  <2>. QED
    BY <1>1, <1>5, <2>1 DEF RecordsAreTrue, Recorded
<1>. QED
  BY <1>2, <1>3, <1>4, <1>5 DEF Next, ScanStep, ReadIrodsGroup, ScanFails, WritePlan,
    ApplyStep, BeginApply, ApplyOperation, EndApply, MissOperation, Crash, IrodsChanges,
    KeycloakDrifts, vars, scan

\* Every operation that planRepair writes is justified by the snapshots.
LEMMA WantedIsJustified ==
    ASSUME TypeInv, SeenIsTrue, RecordsAreTrue, unread = {},
           NEW w \in Wanted(irodsSeen, mirrorSeen)
    PROVE  Justified(w)
<1>1. /\ DOMAIN irodsSeen \subseteq Names
      /\ \A n \in DOMAIN irodsSeen : irodsSeen[n] \subseteq User
      /\ \A n \in DOMAIN mirrorSeen : /\ mirrorSeen[n].id \in GroupId
                                      /\ mirrorSeen[n].id # None
                                      /\ mirrorSeen[n].members \subseteq User
                                      /\ Recorded(mirrorSeen[n].id, n)
  BY NoneAssumption, AccountAssumption
  DEF TypeInv, IrodsSnapshot, KeycloakSnapshot, RecordsAreTrue
<1>2. \A n \in DOMAIN irodsSeen, u \in User : <<n, u>> \in steady => (u \in irodsSeen[n] <=> Grants(n, u))
  BY <1>1 DEF SeenIsTrue
<1>3. ASSUME NEW n \in DOMAIN irodsSeen, w = CreateOp(n, Zone) PROVE Justified(w)
  <2>1. quiet => n \in DOMAIN irods
    BY DEF SeenIsTrue
  <2>2. n \in Names
    BY <1>1
  <2>. QED
    BY <1>3, <2>1, <2>2 DEF CreateOp, NewOp, Justified, MeantFor
<1>4. ASSUME NEW n \in DOMAIN irodsSeen, NEW u \in irodsSeen[n], w = AddOp(Zone, MirrorPath(n), None, u)
      PROVE  Justified(w)
  <2>1. n \in Names /\ (<<n, u>> \in steady => Grants(n, u))
    BY <1>1, <1>2
  <2>. QED
    BY <1>4, <2>1 DEF AddOp, NewOp, Justified, MeantFor
<1>5. ASSUME NEW n \in DOMAIN irodsSeen \cap DOMAIN mirrorSeen, NEW u \in irodsSeen[n],
             w = AddOp(Zone, mirrorSeen[n].path, mirrorSeen[n].id, u)
      PROVE  Justified(w)
  <2>1. n \in Names /\ (<<n, u>> \in steady => Grants(n, u))
    BY <1>1, <1>2
  <2>2. mirrorSeen[n].id # None /\ Recorded(mirrorSeen[n].id, n)
    BY <1>1
  <2>. QED
    BY <1>5, <2>1, <2>2 DEF AddOp, NewOp, Justified, MeantFor
<1>6. ASSUME NEW n \in DOMAIN irodsSeen \cap DOMAIN mirrorSeen,
             NEW u \in mirrorSeen[n].members \ irodsSeen[n],
             w = RemoveOp(Zone, mirrorSeen[n].path, mirrorSeen[n].id, u)
      PROVE  Justified(w)
  <2>1. n \in Names /\ (<<n, u>> \in steady => ~Grants(n, u))
    BY <1>1, <1>2
  <2>2. mirrorSeen[n].id # None /\ Recorded(mirrorSeen[n].id, n)
    BY <1>1
  <2>. QED
    BY <1>6, <2>1, <2>2 DEF RemoveOp, NewOp, Justified, MeantFor
<1>7. ASSUME NEW n \in Names \cap (DOMAIN mirrorSeen \ DOMAIN irodsSeen),
             w = DeleteOp(Zone, mirrorSeen[n].path, mirrorSeen[n].id)
      PROVE  Justified(w)
  <2>1. (\A u \in User : <<n, u>> \in steady => ~Grants(n, u)) /\ (quiet => n \notin DOMAIN irods)
    BY DEF SeenIsTrue
  <2>2. mirrorSeen[n].id # None /\ Recorded(mirrorSeen[n].id, n)
    BY <1>1
  <2>. QED
    BY <1>7, <2>1, <2>2 DEF DeleteOp, NewOp, Justified, MeantFor
<1>. QED
  BY <1>3, <1>4, <1>5, <1>6, <1>7, WantedCases

\* Hence the plan at the end of a scan is one that iRODS wants.
LEMMA WrittenPlanIsJustified ==
    ASSUME TypeInv, SeenIsTrue, RecordsAreTrue, unread = {}
    PROVE  LET p == PlanRepair(Zone, irodsSeen, mirrorSeen)
           IN  \A i \in DOMAIN p : Justified(p[i])
<1>. DEFINE p == PlanRepair(Zone, irodsSeen, mirrorSeen)
<1>1. /\ p \in Seq(Operation)
      /\ \A i \in DOMAIN p : Unnumbered(p[i]) \in Wanted(irodsSeen, mirrorSeen)
  BY PlanFacts DEF TypeInv
<1>. HIDE DEF p
<1>2. ASSUME NEW o \in Operation, Unnumbered(o) \in Wanted(irodsSeen, mirrorSeen)
      PROVE  Justified(o)
  <2>. DEFINE w == Unnumbered(o)
  <2>1. /\ w.action = o.action /\ w.gid = o.gid /\ w.path = o.path /\ w.user = o.user
    BY DEF Unnumbered, Operation
  <2>2. Justified(w)
    BY <1>2, WantedIsJustified
  <2>. HIDE DEF w
  <2>. QED
    BY <2>1, <2>2 DEF Justified, MeantFor
<1>. QED
  BY <1>1, <1>2 DEF p

\* It stays one while it is applied, whatever changes.
LEMMA PlanStaysJustified ==
    ASSUME RepairInv, [Next]_vars
    PROVE  PlanIsJustified'
<1>1. /\ TypeInv /\ RealmTypeOK /\ AllApart /\ RealmStep
      /\ plan \in Seq(Operation) /\ \A i \in DOMAIN plan : plan[i] \in Operation
      /\ \A i \in DOMAIN plan : WellFormed(plan[i]) /\ Justified(plan[i])
  BY StepsChangeRealm DEF RepairInv, TypeInv, TypeOK, PlanIsJustified
<1>2. CASE BeginScan
  <2>1. DOMAIN plan' = {}
    BY <1>2 DEF BeginScan
  <2>. QED
    BY <2>1 DEF PlanIsJustified
<1>3. CASE WritePlan
  <2>1. UNCHANGED <<realm, irods, quiet, steady>> /\ unread = {}
        /\ plan' = PlanRepair(Zone, irodsSeen, mirrorSeen)
    BY <1>3 DEF WritePlan, RepairInv, SeenIsTrue
  <2>2. \A i \in DOMAIN plan' : Justified(plan'[i])
    BY <2>1, WrittenPlanIsJustified DEF RepairInv
  <2>3. \A o : Justified(o) => Justified(o)'
    BY <2>1 DEF Justified, MeantFor, Recorded, IsMirrorGroup, NameOf, Grants, realm
  <2>. QED
    BY <2>2, <2>3, Zenon DEF PlanIsJustified, Justified
<1>4. CASE ~BeginScan /\ ~WritePlan
  <2>1. plan' = plan \/ (plan # << >> /\ plan' = Tail(plan))
    BY <1>4, OperationTakes DEF Next, ScanStep, ListMirrors, ScanFails, ReadIrodsGroup, ReadMirror,
      ApplyStep, BeginApply, ApplyOperation, EndApply, MissOperation, Crash, IrodsChanges,
      KeycloakDrifts, vars, Took
  <2>2. \A i \in DOMAIN plan' : \E j \in DOMAIN plan : plan'[i] = plan[j]
    BY <1>1, <2>1, RestOfPlan
  <2>3. \A o \in Operation :
          Justified(o) /\ (o.action \in Memberships => o.user \in User) => Justified(o)'
    BY <1>1, <1>4, SteadyStays, JustifiedStays
  <2>4. \A i \in DOMAIN plan' : /\ plan'[i] \in Operation /\ Justified(plan'[i])
                                /\ plan'[i].action \in Memberships => plan'[i].user \in User
    <3>. SUFFICES ASSUME NEW i \in DOMAIN plan'
                  PROVE  /\ plan'[i] \in Operation /\ Justified(plan'[i])
                         /\ plan'[i].action \in Memberships => plan'[i].user \in User
      OBVIOUS
    <3>1. PICK j \in DOMAIN plan : plan'[i] = plan[j]
      BY <2>2
    <3>2. Justified(plan[j]) /\ WellFormed(plan[j]) /\ plan[j] \in Operation
      BY <1>1
    <3>. QED
      BY <3>1, <3>2 DEF WellFormed
  <2>. QED
    BY <2>3, <2>4, Zenon DEF PlanIsJustified, Justified
<1>. QED
  BY <1>2, <1>3, <1>4

\* RepairInv is inductive.
LEMMA InitRepair ==
    ASSUME MirrorsApart, Init
    PROVE  RepairInv
<1>1. TypeInv /\ AllApart /\ OneGroupPerPath
  BY InitTypes, StartsApart
<1>2. SeenIsTrue /\ RecordsAreTrue /\ DOMAIN plan = {}
  BY DEF Init, NoSnapshot, SeenIsTrue, RecordsAreTrue
<1>. QED
  BY <1>1, <1>2 DEF RepairInv, PlanIsJustified

\* Under every step.
LEMMA StepsKeepRepair ==
    ASSUME MirrorsApart, RepairInv, [Next]_vars
    PROVE  RepairInv'
<1>1. TypeInv /\ RealmTypeOK /\ RealmStep /\ TypeInv'
  BY StepsChangeRealm, StepsKeepTypes DEF RepairInv, TypeInv, TypeOK
<1>2. AllApart' /\ OneGroupPerPath'
  BY <1>1, StaysApart, StaysOneGroupPerPath DEF RepairInv
<1>3. SeenIsTrue' /\ RecordsAreTrue'
  BY <1>1, SeenStaysTrue, RecordsStayTrue DEF RepairInv
<1>4. PlanIsJustified'
  BY PlanStaysJustified
<1>. QED
  BY <1>1, <1>2, <1>3, <1>4 DEF RepairInv

(***************************************************************************)
(* Steady grants.                                                          *)
(***************************************************************************)
\* A mirror an operation acts on is the one it is meant for; one it names by its
\* id is a mirror.
LEMMA ActsOnMeant ==
    ASSUME RepairInv, NEW o, NEW n, MeantFor(o, n), NEW g \in ActsOn(o)
    PROVE  /\ g \in live
           /\ o.gid # None => g = o.gid /\ g \in MirrorsOf(n)
           /\ g \in Mirrors => NameOf(g) = n
<1>1. AllApart
  BY DEF RepairInv
<1>2. CASE o.gid # None
  BY <1>2 DEF ActsOn, MeantFor, Recorded, MirrorsOf, Mirrors
<1>3. CASE o.gid = None
  <2>1. n \in Names /\ g \in GroupsAt(MirrorPath(n))
    BY <1>3 DEF ActsOn, MeantFor
  <2>. QED
    BY <1>1, <1>3, <2>1, MirrorAtPath DEF GroupsAt, Mirrors
<1>. QED
  BY <1>2, <1>3

\* Nothing stands below a mirror, so that deleting it deletes nothing else.
LEMMA DropsOne ==
    ASSUME RepairInv, NEW g \in Mirrors, DropGroup(g)
    PROVE  live' = live \ {g} /\ UNCHANGED <<pathOf, attrs, members>>
<1>1. g \in live /\ pathOf[g] \in Path /\ \A h \in live : pathOf[h] \in Path
  BY DEF RepairInv, TypeInv, TypeOK, RealmTypeOK, Mirrors
<1>2. \A q \in Path : Under(pathOf[g], q) => q = pathOf[g]
  BY <1>1 DEF RepairInv, AllApart, Apart, Mirrors, IsMirrorGroup
<1>3. Under(pathOf[g], pathOf[g])
  BY <1>1, PathFacts DEF Under
<1>4. \A h \in live : Under(pathOf[g], pathOf[h]) <=> h = g
  BY <1>1, <1>2, <1>3 DEF RepairInv, OneGroupPerPath
<1>. QED
  BY <1>4 DEF DropGroup

\* The operation that is carried out next.
LEMMA NextOperation ==
    ASSUME RepairInv, plan # << >>
    PROVE  /\ Head(plan) = plan[1] /\ 1 \in DOMAIN plan
           /\ plan[1] \in Operation /\ WellFormed(plan[1]) /\ Justified(plan[1])
<1>1. plan \in Seq(Operation) /\ PlanIsJustified /\ \A i \in DOMAIN plan : WellFormed(plan[i])
  BY DEF RepairInv, TypeInv
<1>. QED
  BY <1>1, RestOfPlan DEF PlanIsJustified

GrantKept(n, u) == IF Grants(n, u) THEN ~Loses(n, u) ELSE ~Gains(n, u)

\* One operation keeps the grants iRODS has not changed.
LEMMA OperationKeepsGrants ==
    ASSUME RepairInv, ApplyOperation, NEW n, NEW u, <<n, u>> \in steady
    PROVE  GrantKept(n, u)
<1>. DEFINE o == plan[1]
<1>1. /\ Head(plan) = o /\ o \in Operation /\ WellFormed(o) /\ Justified(o)
      /\ RealmTypeOK /\ live \subseteq GroupId /\ Mirrors \subseteq live
      /\ members \in [GroupId -> SUBSET Account] /\ u \in User
  BY NextOperation DEF ApplyOperation, RepairInv, TypeInv, TypeOK, RealmTypeOK, Mirrors
<1>. HIDE DEF o
<1>2. PICK k :
        /\ MeantFor(o, k)
        /\ o.action = "member_add" => (<<k, o.user>> \in steady => Grants(k, o.user))
        /\ o.action = "member_remove" => (<<k, o.user>> \in steady => ~Grants(k, o.user))
        /\ o.action = "group_delete" => \A v \in User : <<k, v>> \in steady => ~Grants(k, v)
  BY <1>1 DEF Justified
<1>3. ASSUME \A g \in MirrorsOf(n) : g \in live' /\ members'[g] = members[g]
      PROVE  GrantKept(n, u)
  BY <1>3 DEF GrantKept, Loses, Gains
<1>4. CASE ApplyCreate(o)
  <2>1. \A g \in live : g \in live' /\ members'[g] = members[g]
    <3>1. CASE \E g \in live : SetAttrs(g, o.attrs)
      BY <3>1 DEF SetAttrs
    <3>2. CASE \E g \in GroupId : \E p, a : AddGroup(g, p, a)
      BY <1>1, <3>2, NoneAssumption DEF AddGroup, RealmTypeOK
    <3>. QED
      BY <1>4, <3>1, <3>2 DEF ApplyCreate, GroupsAt, FreshIds
  <2>. QED
    BY <1>1, <1>3, <2>1 DEF MirrorsOf
<1>5. CASE UNCHANGED realm
  BY <1>1, <1>3, <1>5 DEF realm, MirrorsOf
<1>6. ASSUME NEW g \in ActsOn(o), Join(g, o.user), o.action = "member_add" PROVE GrantKept(n, u)
  <2>1. g \in live /\ (g \in Mirrors => NameOf(g) = k)
    BY <1>2, ActsOnMeant
  <2>2. /\ live' = live /\ members'[g] = members[g] \cup {o.user}
        /\ \A h \in live \ {g} : members'[h] = members[h]
    BY <1>1, <1>6, <2>1 DEF Join
  <2>3. ~Loses(n, u)
    BY <2>2 DEF Loses, MirrorsOf, Mirrors
  <2>4. Gains(n, u) => g \in MirrorsOf(n) /\ u = o.user
    BY <2>2 DEF Gains, MirrorsOf, Mirrors
  <2>5. Gains(n, u) => Grants(n, u)
    BY <1>2, <1>6, <2>1, <2>4 DEF MirrorsOf
  <2>. QED
    BY <2>3, <2>5 DEF GrantKept
<1>7. ASSUME NEW g \in ActsOn(o), Leave(g, o.user), o.action = "member_remove" PROVE GrantKept(n, u)
  <2>1. g \in live /\ (g \in Mirrors => NameOf(g) = k)
    BY <1>2, ActsOnMeant
  <2>2. /\ live' = live /\ members'[g] = members[g] \ {o.user}
        /\ \A h \in live \ {g} : members'[h] = members[h]
    BY <1>1, <1>7, <2>1 DEF Leave
  <2>3. ~Gains(n, u)
    BY <2>2 DEF Gains, MirrorsOf, Mirrors
  <2>4. Loses(n, u) => g \in MirrorsOf(n) /\ u = o.user
    BY <2>2 DEF Loses, MirrorsOf, Mirrors
  <2>5. Loses(n, u) => ~Grants(n, u)
    BY <1>2, <1>7, <2>1, <2>4 DEF MirrorsOf
  <2>. QED
    BY <2>3, <2>5 DEF GrantKept
<1>8. ASSUME NEW g \in ActsOn(o), DropGroup(g), o.action = "group_delete" PROVE GrantKept(n, u)
  <2>1. g \in MirrorsOf(k)
    BY <1>1, <1>2, <1>8, ActsOnMeant DEF WellFormed
  <2>2. live' = live \ {g} /\ members' = members
    BY <1>8, <2>1, DropsOne DEF MirrorsOf
  <2>3. ~Gains(n, u)
    BY <2>2 DEF Gains
  <2>4. Loses(n, u) => g \in MirrorsOf(n)
    BY <2>2 DEF Loses, MirrorsOf, Mirrors
  <2>5. Loses(n, u) => ~Grants(n, u)
    BY <1>1, <1>2, <1>8, <2>1, <2>4 DEF MirrorsOf
  <2>. QED
    BY <2>3, <2>5 DEF GrantKept
<1>9. ApplyCreate(o) \/ ApplyAdd(o) \/ ApplyRemove(o) \/ ApplyDelete(o)
  BY <1>1 DEF ApplyOperation
<1>. QED
  BY <1>4, <1>5, <1>6, <1>7, <1>8, <1>9 DEF ApplyAdd, ApplyRemove, ApplyDelete

\* SteadyGrantsKept: however old a plan is and whatever Keycloak administrators
\* did since, apply takes no membership away that iRODS grants and gives none that
\* it does not, as long as iRODS has not changed its mind about it.
THEOREM SteadyGrantsAreKept ==
    ASSUME MirrorsApart
    PROVE  Spec => SteadyGrantsKept
<1>1. ASSUME RepairInv, [Next]_vars, stage = "applying", edits' = edits, NEW x \in steady
      PROVE  GrantKept(x[1], x[2])
  <2>1. x = <<x[1], x[2]>> /\ edits \in Nat
    BY <1>1, RepairBoundAssumption DEF RepairInv, TypeInv, TypeOK
  <2>2. CASE ApplyOperation
    BY <2>1, <2>2, <1>1, OperationKeepsGrants
  <2>3. CASE ~ApplyOperation
    <3>1. ~KeycloakDrifts
      BY <1>1, <2>1 DEF KeycloakDrifts
    <3>2. UNCHANGED realm
      BY <1>1, <2>3, <3>1 DEF Next, ScanStep, BeginScan, ListMirrors, ScanFails, WritePlan,
        ReadIrodsGroup, ReadMirror, ApplyStep, BeginApply, EndApply, MissOperation, Crash,
        IrodsChanges, vars
    <3>. QED
      BY <3>2 DEF GrantKept, Loses, Gains, MirrorsOf, Mirrors, realm
  <2>. QED
    BY <2>2, <2>3
<1>2. RepairInv /\ [Next]_vars =>
        [stage = "applying" /\ edits' = edits =>
           \A x \in steady : IF Grants(x[1], x[2]) THEN ~Loses(x[1], x[2])
                                                  ELSE ~Gains(x[1], x[2])]_vars
  BY <1>1 DEF GrantKept
<1>3. Init => RepairInv
  BY InitRepair
<1>4. RepairInv /\ [Next]_vars => RepairInv'
  BY StepsKeepRepair
<1>. QED
  BY <1>2, <1>3, <1>4, PTL DEF Spec, SteadyGrantsKept

(***************************************************************************)
(* Mirrors in place: the mirror of n is the group at MirrorPath(n).        *)
(***************************************************************************)
LEMMA InPlaceIsApart == MirrorsInPlace => MirrorsApart
BY DEF MirrorsInPlace, MirrorsApart, InPlace

\* The mirrors are in place at the start.
LEMMA StartsInPlace ==
    ASSUME MirrorsInPlace, Init
    PROVE  AllInPlace
<1>1. PICK s \in StartRealms : live = s.live /\ pathOf = s.pathOf /\ attrs = s.attrs
  BY DEF Init, RealmInit
<1>2. \A g \in s.live : <<s.pathOf[g], s.attrs[g]>> \in Placed
  BY DEF Placed
<1>. QED
  BY <1>1, <1>2 DEF AllInPlace, MirrorsInPlace

\* They are after every step.
LEMMA StaysInPlace ==
    ASSUME MirrorsInPlace, RealmTypeOK, AllInPlace, RealmStep
    PROVE  AllInPlace'
<1>1. InPlace(<<RootName>>, NoAttrs)
  <2>1. ~UnderRoot(<<RootName>>)
    BY DEF UnderRoot
  <2>. QED
    BY <2>1, RootIsNoMirror DEF InPlace, Apart
<1>2. \A p, a : MayStand(p, a) => InPlace(p, a)
  BY <1>1 DEF MayStand, MirrorsInPlace
<1>3. \A n \in Names : InPlace(MirrorPath(n), MirrorAttrs(n, Zone))
  BY <1>2 DEF MayStand, Placed
<1>4. ASSUME NEW g \in live' PROVE InPlace(pathOf'[g], attrs'[g])
  BY <1>2, <1>3, <1>4, GroupsAfterStep DEF AllInPlace
<1>. QED
  BY <1>4, Zenon DEF AllInPlace, InPlace

\* The groups that stand where the mirror of n does.
Standing(n) == {g \in live : UnderRoot(pathOf[g]) /\ Tail(pathOf[g]) = n}

\* The mirrors of n are the groups at its path below the root.
LEMMA MirrorsStand == \A k : AllInPlace => MirrorsOf(k) = Standing(k)
<1>. SUFFICES ASSUME AllInPlace, NEW g \in live
              PROVE  /\ IsMirrorGroup(g) <=> UnderRoot(pathOf[g])
                     /\ IsMirrorGroup(g) => NameOf(g) = Tail(pathOf[g])
  BY DEF MirrorsOf, Mirrors, Standing
<1>. QED
  BY DEF AllInPlace, InPlace, Apart, IsMirrorGroup, NameOf

\* The first of the tail is the second of the whole.
LEMMA SecondOfTail ==
    ASSUME NEW S, NEW s \in Seq(S), Len(s) > 1
    PROVE  Len(Tail(s)) = Len(s) - 1 /\ Tail(s)[1] = s[2]
OBVIOUS

\* A path below the root that names n is the path of its mirror.
LEMMA PathBelowRoot ==
    ASSUME NEW p \in Path, UnderRoot(p), NEW n \in Names, Tail(p) = n
    PROVE  p = MirrorPath(n)
<1>. DEFINE q == MirrorPath(n)
<1>1. p \in Seq(Segment) /\ Len(p) \in Nat /\ Len(p) > 1 /\ p[1] = RootName
  BY PathFacts DEF UnderRoot
<1>2. Len(n) = 1
  BY OrderAssumption
<1>3. q \in Path /\ Len(q) = 2 /\ q[1] = RootName /\ Tail(q) = n
  BY MirrorFacts
<1>. HIDE DEF q
<1>4. q \in Seq(Segment)
  BY <1>3, PathFacts
<1>5. Len(q) > 1
  BY <1>3
<1>6. Len(Tail(p)) = Len(p) - 1 /\ Tail(p)[1] = p[2] /\ Tail(q)[1] = q[2]
  BY <1>1, <1>4, <1>5, SecondOfTail
<1>7. Len(p) = 2 /\ p[2] = q[2]
  <2>1. Len(p) - 1 = 1 /\ p[2] = q[2]
    BY <1>2, <1>3, <1>6, Zenon
  <2>. QED
    BY <1>1, <2>1
<1>8. \A i \in 1..Len(p) : p[i] = q[i]
  BY <1>1, <1>3, <1>7
<1>. QED
  BY <1>1, <1>3, <1>4, <1>7, <1>8, SeqEqual DEF q

\* There is one such group at most.
LEMMA StandingFacts ==
    ASSUME RepairInv, AllInPlace, NEW n, NEW g \in Standing(n)
    PROVE  /\ n \in Names /\ pathOf[g] = MirrorPath(n) /\ g \in live /\ g \in GroupId
           /\ Standing(n) = {g}
<1>1. /\ live \subseteq GroupId /\ \A h \in live : pathOf[h] \in Path
      /\ \A h, k \in live : pathOf[h] = pathOf[k] => h = k
  BY DEF RepairInv, TypeInv, TypeOK, RealmTypeOK, OneGroupPerPath
<1>2. \A h \in Standing(n) : n \in Names /\ pathOf[h] = MirrorPath(n) /\ h \in live
  BY <1>1, PathBelowRoot DEF Standing, AllInPlace, InPlace
<1>. QED
  BY <1>1, <1>2

\* A group at the path of a mirror is that mirror.
LEMMA StandsAtPath ==
    ASSUME NEW n \in Names
    PROVE  GroupsAt(MirrorPath(n)) \subseteq Standing(n)
BY MirrorFacts DEF GroupsAt, Standing

(***************************************************************************)
(* What an operation of a quiet cycle does to the mirrors.                 *)
(***************************************************************************)
QuietInv == RepairInv /\ AllInPlace

\* In a quiet cycle, an operation rests on what iRODS grants.
LEMMA QuietMeaning ==
    ASSUME QuietInv, quiet, NEW o \in Operation, WellFormed(o), Justified(o)
    PROVE  \E n :
             /\ MeantFor(o, n)
             /\ o.action = "group_create" =>
                  /\ n \in Names /\ n \in DOMAIN irods
                  /\ o.path = MirrorPath(n) /\ o.attrs = MirrorAttrs(n, Zone)
             /\ o.action = "member_add" => n \in Names /\ o.user \in User /\ Grants(n, o.user)
             /\ o.action = "member_remove" => o.user \in User /\ ~Grants(n, o.user) /\ o.gid # None
             /\ o.action = "group_delete" => n \notin DOMAIN irods /\ o.gid # None
<1>1. PICK n :
        /\ MeantFor(o, n)
        /\ o.action = "group_create" => n \in Names /\ (quiet => n \in DOMAIN irods)
        /\ o.action = "member_add" =>
             n \in Names /\ (<<n, o.user>> \in steady => Grants(n, o.user))
        /\ o.action = "member_remove" =>
             n \in Names /\ (<<n, o.user>> \in steady => ~Grants(n, o.user))
        /\ o.action = "group_delete" => (quiet => n \notin DOMAIN irods)
  BY DEF Justified
<1>2. steady = Names \X User
  BY DEF QuietInv, RepairInv, SeenIsTrue
<1>3. o.action \in {"member_add", "member_remove"} => o.user \in User
  BY DEF WellFormed, Memberships
<1>4. o.action = "group_create" => o.path = MirrorPath(n) /\ o.attrs = MirrorAttrs(n, Zone)
  <2>. SUFFICES ASSUME o.action = "group_create"
                PROVE  o.path = MirrorPath(n) /\ o.attrs = MirrorAttrs(n, Zone)
    OBVIOUS
  <2>1. PICK k \in Names : o.path = MirrorPath(k) /\ o.attrs = MirrorAttrs(k, Zone)
    BY DEF WellFormed
  <2>2. n \in Names /\ o.path = MirrorPath(n)
    BY <1>1 DEF MeantFor, WellFormed
  <2>3. k = n
    BY <2>1, <2>2, MirrorFacts
  <2>. QED
    BY <2>1, <2>3
<1>5. o.action \in {"member_remove", "group_delete"} => o.gid # None
  BY DEF WellFormed
<1>. QED
  BY <1>1, <1>2, <1>3, <1>4, <1>5

\* The effects an operation can have on the mirrors.
SameMembers(S)  == \A g \in S : members'[g] = members[g]
OnlyMoves(n)    == \A k : k # n => Standing(k)' = Standing(k)
Unmoved         == (\A k : Standing(k)' = Standing(k)) /\ SameMembers(live)
Created(n)      == /\ Standing(n) = {} /\ OnlyMoves(n) /\ SameMembers(live)
                   /\ \E g : Standing(n)' = {g} /\ members'[g] = {}
Joined(n, u)    == /\ \A k : Standing(k)' = Standing(k)
                   /\ \E g : /\ Standing(n) = {g} /\ SameMembers(live \ {g})
                             /\ members'[g] = members[g] \cup {u}
Left(n, u)      == /\ \A k : Standing(k)' = Standing(k)
                   /\ \E g : /\ Standing(n) = {g} /\ SameMembers(live \ {g})
                             /\ members'[g] = members[g] \ {u}
Dropped(n)      == /\ Standing(n) # {} /\ Standing(n)' = {} /\ OnlyMoves(n) /\ SameMembers(live)

\* The effect of the first operation of the plan, which is about group n.
Effect(o, n) ==
    \/ Unmoved /\ UNCHANGED <<plan, complete>>
    \/ Unmoved /\ plan' = Tail(plan) /\ ~complete'
    \/ /\ o.action = "group_create" /\ plan' = Tail(plan)
       /\ n \in Names /\ n \in DOMAIN irods /\ o.path = MirrorPath(n)
       /\ Created(n) \/ (Unmoved /\ Standing(n) # {})
    \/ /\ o.action = "member_add" /\ plan' = Tail(plan)
       /\ Grants(n, o.user) /\ MeantFor(o, n) /\ Joined(n, o.user)
    \/ /\ o.action = "member_remove" /\ plan' = Tail(plan)
       /\ ~Grants(n, o.user)
       /\ \/ o.gid \in Standing(n) /\ Left(n, o.user)
          \/ Unmoved /\ (o.gid \in live => \E page \in MemberPages(o.gid) : o.user \notin page)
    \/ /\ o.action = "group_delete" /\ plan' = Tail(plan)
       /\ n \notin DOMAIN irods
       /\ (o.gid \in Standing(n) /\ Dropped(n)) \/ (Unmoved /\ o.gid \notin live)

\* A group an operation of a quiet cycle acts on is the mirror it is meant for.
LEMMA ActsOnStanding ==
    ASSUME QuietInv, NEW o, NEW n, MeantFor(o, n), NEW g \in ActsOn(o)
    PROVE  g \in Standing(n) /\ Standing(n) = {g} /\ g \in live /\ g \in GroupId
           /\ (o.gid # None => o.gid = g)
<1>1. g \in Standing(n)
  <2>1. CASE o.gid # None
    BY <2>1, ActsOnMeant, MirrorsStand DEF QuietInv
  <2>2. CASE o.gid = None
    BY <2>2, StandsAtPath DEF ActsOn, MeantFor
  <2>. QED
    BY <2>1, <2>2
<1>. QED
  BY <1>1, StandingFacts, ActsOnMeant DEF QuietInv

\* What a creation does.
LEMMA CreateEffect ==
    ASSUME QuietInv, NEW n \in Names, n \in DOMAIN irods, NEW o,
           o.path = MirrorPath(n), ApplyCreate(o)
    PROVE  Effect(o, n)
<1>1. /\ RealmTypeOK /\ live \subseteq GroupId /\ o.path \in Path
      /\ DOMAIN pathOf = GroupId /\ DOMAIN members = GroupId
  BY MirrorFacts DEF QuietInv, RepairInv, TypeInv, TypeOK, RealmTypeOK
<1>2. CASE \E g \in GroupsAt(o.path) : SetAttrs(g, o.attrs) /\ Took(o, TRUE)
  <2>1. Unmoved
    BY <1>2 DEF SetAttrs, Unmoved, Standing, SameMembers
  <2>2. Standing(n) # {}
    BY <1>2, StandsAtPath
  <2>. QED
    BY <1>2, <2>1, <2>2 DEF Effect, ApplyCreate, Took
<1>3. ASSUME GroupsAt(o.path) = {}, NEW g \in FreshIds, NEW a, AddGroup(g, FirstMissing(o.path), a)
      PROVE  IF FirstMissing(o.path) = o.path THEN Created(n) ELSE Unmoved
  <2>. DEFINE p == FirstMissing(o.path)
  <2>1. g \in GroupId /\ pathOf[g] = None /\ g \notin live
    BY <1>1, <1>3, NoneAssumption DEF FreshIds, AddGroup, RealmTypeOK
  <2>2. PICK c \in 1..Len(o.path) : p = SubSeq(o.path, 1, c)
    BY <1>1, <1>3, FirstMissingFacts
  <2>3. p # o.path => p = <<RootName>>
    BY <2>2, <1>1, PathFacts, MirrorFacts
  <2>. HIDE DEF p
  <2>4. /\ live' = live \cup {g} /\ pathOf'[g] = p /\ members'[g] = {}
        /\ \A h \in live : pathOf'[h] = pathOf[h] /\ members'[h] = members[h]
    BY <1>1, <1>3, <2>1 DEF AddGroup, p
  <2>5. CASE p = o.path
    <3>1. UnderRoot(p) /\ Tail(p) = n
      BY <2>5, MirrorFacts
    <3>2. Standing(n) = {}
      BY <1>3, StandingFacts DEF QuietInv, GroupsAt
    <3>3. ASSUME NEW k, NEW h
          PROVE  h \in Standing(k)' <=> h \in Standing(k) \/ (h = g /\ k = n)
      <4>1. CASE h = g
        BY <2>1, <2>4, <3>1, <4>1 DEF Standing
      <4>2. CASE h # g
        BY <2>4, <4>2 DEF Standing
      <4>. QED
        BY <4>1, <4>2
    <3>4. Standing(n)' = {g}
      BY <3>2, <3>3
    <3>5. ASSUME NEW m, m # n PROVE Standing(m)' = Standing(m)
      <4>1. \A h : h \in Standing(m)' <=> h \in Standing(m)
        BY <3>3, <3>5
      <4>. QED
        BY <4>1
    <3>6. OnlyMoves(n)
      BY <3>5 DEF OnlyMoves
    <3>. QED
      BY <2>4, <2>5, <3>2, <3>4, <3>6 DEF Created, SameMembers, p
  <2>6. CASE p # o.path
    <3>1. ~UnderRoot(<<RootName>>)
      BY DEF UnderRoot
    <3>2. ~UnderRoot(p)
      BY <2>3, <2>6, <3>1, Zenon
    <3>. QED
      BY <2>1, <2>4, <2>6, <3>2 DEF Unmoved, Standing, SameMembers, p
  <2>. QED
    BY <2>5, <2>6 DEF p
<1>4. CASE GroupsAt(o.path) = {}
  BY <1>3, <1>4 DEF ApplyCreate, Effect, Took
<1>. QED
  BY <1>2, <1>4 DEF ApplyCreate

\* What giving a membership does.
LEMMA AddEffect ==
    ASSUME QuietInv, NEW n, NEW o, MeantFor(o, n), Grants(n, o.user), ApplyAdd(o)
    PROVE  Effect(o, n)
<1>1. members \in [GroupId -> SUBSET Account]
  BY DEF QuietInv, RepairInv, TypeInv, TypeOK, RealmTypeOK
<1>2. CASE UNCHANGED realm /\ Took(o, FALSE)
  BY <1>2 DEF Effect, Unmoved, Took, realm, Standing, SameMembers
<1>3. ASSUME NEW g \in ActsOn(o), Join(g, o.user), Took(o, TRUE)
      PROVE  Effect(o, n)
  <2>1. g \in Standing(n) /\ Standing(n) = {g} /\ g \in live /\ g \in GroupId /\ live \subseteq GroupId
    BY ActsOnStanding DEF QuietInv, RepairInv, TypeInv, TypeOK, RealmTypeOK
  <2>2. /\ live' = live /\ pathOf' = pathOf /\ members'[g] = members[g] \cup {o.user}
        /\ \A h \in live \ {g} : members'[h] = members[h]
    BY <1>1, <1>3, <2>1 DEF Join
  <2>3. Joined(n, o.user)
    BY <2>1, <2>2 DEF Joined, Standing, SameMembers
  <2>. QED
    BY <1>3, <2>3 DEF Effect, Took, ApplyAdd
<1>. QED
  BY <1>2, <1>3 DEF ApplyAdd

\* What taking a membership away does.
LEMMA RemoveEffect ==
    ASSUME QuietInv, NEW n, NEW o, MeantFor(o, n), ~Grants(n, o.user), o.gid # None, ApplyRemove(o)
    PROVE  Effect(o, n)
<1>1. members \in [GroupId -> SUBSET Account]
  BY DEF QuietInv, RepairInv, TypeInv, TypeOK, RealmTypeOK
<1>2. plan' = Tail(plan) /\ o.action = "member_remove"
  BY DEF ApplyRemove, Took
<1>3. CASE ActsOn(o) = {} /\ UNCHANGED realm
  <2>1. o.gid \notin live
    BY <1>3 DEF ActsOn
  <2>2. Unmoved
    BY <1>3 DEF Unmoved, realm, Standing, SameMembers
  <2>. QED
    BY <1>2, <2>1, <2>2 DEF Effect
<1>4. ASSUME NEW g \in ActsOn(o), NEW page \in MemberPages(g),
             IF o.user \in page THEN Leave(g, o.user) ELSE UNCHANGED realm
      PROVE  Effect(o, n)
  <2>1. /\ g \in Standing(n) /\ Standing(n) = {g} /\ g \in live /\ g \in GroupId /\ live \subseteq GroupId
        /\ o.gid = g
    BY ActsOnStanding DEF QuietInv, RepairInv, TypeInv, TypeOK, RealmTypeOK
  <2>2. CASE o.user \in page
    <3>1. /\ live' = live /\ pathOf' = pathOf /\ members'[g] = members[g] \ {o.user}
          /\ \A h \in live \ {g} : members'[h] = members[h]
      BY <1>1, <1>4, <2>1, <2>2 DEF Leave
    <3>2. Left(n, o.user)
      BY <2>1, <3>1 DEF Left, Standing, SameMembers
    <3>. QED
      BY <1>2, <2>1, <3>2 DEF Effect
  <2>3. CASE o.user \notin page
    <3>1. Unmoved
      BY <1>4, <2>3 DEF Unmoved, realm, Standing, SameMembers
    <3>. QED
      BY <1>2, <2>1, <2>3, <3>1 DEF Effect
  <2>. QED
    BY <2>2, <2>3
<1>. QED
  BY <1>3, <1>4 DEF ApplyRemove

\* What a deletion does.
LEMMA DeleteEffect ==
    ASSUME QuietInv, NEW n, NEW o, MeantFor(o, n), n \notin DOMAIN irods, o.gid # None, ApplyDelete(o)
    PROVE  Effect(o, n)
<1>1. plan' = Tail(plan) /\ o.action = "group_delete"
  BY DEF ApplyDelete, Took
<1>2. CASE ActsOn(o) = {} /\ UNCHANGED realm
  <2>1. o.gid \notin live
    BY <1>2 DEF ActsOn
  <2>2. Unmoved
    BY <1>2 DEF Unmoved, realm, Standing, SameMembers
  <2>. QED
    BY <1>1, <2>1, <2>2 DEF Effect
<1>3. ASSUME NEW g \in ActsOn(o), DropGroup(g)
      PROVE  Effect(o, n)
  <2>1. g \in Standing(n) /\ Standing(n) = {g} /\ g \in live /\ o.gid = g
    BY ActsOnStanding
  <2>2. g \in Mirrors
    BY <2>1, MirrorsStand DEF QuietInv, MirrorsOf
  <2>3. live' = live \ {g} /\ pathOf' = pathOf /\ members' = members
    BY <1>3, <2>2, DropsOne DEF QuietInv
  <2>4. Dropped(n)
    BY <2>1, <2>3 DEF Dropped, Standing, OnlyMoves, SameMembers
  <2>. QED
    BY <1>1, <2>1, <2>4 DEF Effect
<1>. QED
  BY <1>2, <1>3 DEF ApplyDelete

\* What any operation does.
LEMMA OperationEffect ==
    ASSUME QuietInv, quiet, ApplyOperation
    PROVE  plan # << >> /\ \E n : Effect(plan[1], n)
<1>. DEFINE o == plan[1]
<1>1. /\ plan # << >> /\ Head(plan) = o /\ o \in Operation /\ WellFormed(o) /\ Justified(o)
  BY NextOperation DEF ApplyOperation, QuietInv
<1>. HIDE DEF o
<1>2. PICK n :
        /\ MeantFor(o, n)
        /\ o.action = "group_create" =>
             /\ n \in Names /\ n \in DOMAIN irods
             /\ o.path = MirrorPath(n) /\ o.attrs = MirrorAttrs(n, Zone)
        /\ o.action = "member_add" => n \in Names /\ o.user \in User /\ Grants(n, o.user)
        /\ o.action = "member_remove" => o.user \in User /\ ~Grants(n, o.user) /\ o.gid # None
        /\ o.action = "group_delete" => n \notin DOMAIN irods /\ o.gid # None
  BY <1>1, QuietMeaning
<1>3. ApplyCreate(o) \/ ApplyAdd(o) \/ ApplyRemove(o) \/ ApplyDelete(o)
  BY <1>1 DEF ApplyOperation
<1>4. /\ ApplyCreate(o) => o.action = "group_create"
      /\ ApplyAdd(o) => o.action = "member_add"
      /\ ApplyRemove(o) => o.action = "member_remove"
      /\ ApplyDelete(o) => o.action = "group_delete"
  BY DEF ApplyCreate, ApplyAdd, ApplyRemove, ApplyDelete
<1>5. Effect(o, n)
  BY <1>2, <1>3, <1>4, CreateEffect, AddEffect, RemoveEffect, DeleteEffect
<1>. QED
  BY <1>1, <1>5 DEF o

\* No effect brings a new difference.
LEMMA EffectShrinks ==
    ASSUME AllInPlace, AllInPlace', irods' = irods, NEW o, NEW m, Effect(o, m), NEW n
    PROVE  /\ Missing(n)' => Missing(n)
           /\ Stale(n)' => Stale(n)
           /\ \A u : Lacks(n, u)' => Lacks(n, u)
           /\ \A u : Extra(n, u)' => Extra(n, u)
<1>1. MirrorsOf(n) = Standing(n) /\ MirrorsOf(n)' = Standing(n)' /\ Standing(n) \subseteq live
  <2>1. (\A k : AllInPlace => MirrorsOf(k) = Standing(k))'
    BY MirrorsStand, PTL
  <2>. QED
    BY <2>1, MirrorsStand DEF Standing
<1>2. \A u : Grants(n, u)' <=> Grants(n, u)
  BY DEF Grants
<1>3. CASE Unmoved
  BY <1>1, <1>2, <1>3 DEF Unmoved, SameMembers, Missing, Stale, Lacks, Extra
<1>4. CASE m \in DOMAIN irods /\ Created(m)
  <2>1. CASE n = m
    BY <1>1, <1>2, <1>4, <2>1 DEF Created, Missing, Stale, Lacks, Extra
  <2>2. CASE n # m
    BY <1>1, <1>2, <1>4, <2>2 DEF Created, OnlyMoves, SameMembers, Missing, Stale, Lacks, Extra
  <2>. QED
    BY <2>1, <2>2
<1>5. CASE Grants(m, o.user) /\ Joined(m, o.user)
  <2>1. PICK g : Standing(m) = {g} /\ SameMembers(live \ {g}) /\ members'[g] = members[g] \cup {o.user}
    BY <1>5 DEF Joined
  <2>2. Standing(n)' = Standing(n)
    BY <1>5 DEF Joined
  <2>3. ASSUME NEW h \in Standing(n), NEW u, u \in members'[h], u \notin members[h]
        PROVE  h = g /\ u = o.user
    BY <1>1, <2>1, <2>3 DEF SameMembers
  <2>4. \A h \in Standing(n) : members[h] \subseteq members'[h]
    BY <1>1, <2>1 DEF SameMembers
  <2>5. g \in Standing(n) => n = m
    BY <2>1 DEF Standing
  <2>. QED
    BY <1>1, <1>2, <1>5, <2>2, <2>3, <2>4, <2>5 DEF Missing, Stale, Lacks, Extra
<1>6. CASE ~Grants(m, o.user) /\ Left(m, o.user)
  <2>1. PICK g : Standing(m) = {g} /\ SameMembers(live \ {g}) /\ members'[g] = members[g] \ {o.user}
    BY <1>6 DEF Left
  <2>2. Standing(n)' = Standing(n)
    BY <1>6 DEF Left
  <2>3. ASSUME NEW h \in Standing(n), NEW u, u \notin members'[h], u \in members[h]
        PROVE  h = g /\ u = o.user
    BY <1>1, <2>1, <2>3 DEF SameMembers
  <2>4. \A h \in Standing(n) : members'[h] \subseteq members[h]
    BY <1>1, <2>1 DEF SameMembers
  <2>5. g \in Standing(n) => n = m
    BY <2>1 DEF Standing
  <2>. QED
    BY <1>1, <1>2, <1>6, <2>2, <2>3, <2>4, <2>5 DEF Missing, Stale, Lacks, Extra
<1>7. CASE m \notin DOMAIN irods /\ Dropped(m)
  <2>1. CASE n = m
    BY <1>1, <1>2, <1>7, <2>1 DEF Dropped, Missing, Stale, Lacks, Extra, Grants
  <2>2. CASE n # m
    BY <1>1, <1>2, <1>7, <2>2 DEF Dropped, OnlyMoves, SameMembers, Missing, Stale, Lacks, Extra
  <2>. QED
    BY <2>1, <2>2
<1>. QED
  BY <1>3, <1>4, <1>5, <1>6, <1>7 DEF Effect

\* Drift, difference by difference.
LEMMA DriftIs ==
    \A x : x \in Drift <=>
      \/ \E n : Missing(n) /\ x = <<"missing", n>>
      \/ \E n : Stale(n) /\ x = <<"stale", n>>
      \/ \E n : \E u \in User : Lacks(n, u) /\ x = <<"lacks", <<n, u>>>>
      \/ \E n : \E u \in User : Extra(n, u) /\ x = <<"extra", <<n, u>>>>
<1>. SUFFICES ASSUME NEW x
              PROVE  x \in Drift <=>
                       \/ \E n : Missing(n) /\ x = <<"missing", n>>
                       \/ \E n : Stale(n) /\ x = <<"stale", n>>
                       \/ \E n : \E u \in User : Lacks(n, u) /\ x = <<"lacks", <<n, u>>>>
                       \/ \E n : \E u \in User : Extra(n, u) /\ x = <<"extra", <<n, u>>>>
  OBVIOUS
<1>1. \A n : n \in {m \in DOMAIN irods : MirrorsOf(m) = {}} <=> Missing(n)
  BY DEF Missing
<1>2. \A n : n \in {NameOf(g) : g \in Mirrors} <=> MirrorsOf(n) # {}
  BY DEF MirrorsOf
<1>3. \A n : n \in {NameOf(g) : g \in Mirrors} \ DOMAIN irods <=> Stale(n)
  BY <1>2 DEF Stale
<1>. DEFINE L == {y \in (DOMAIN irods) \X User :
                    /\ Grants(y[1], y[2])
                    /\ MirrorsOf(y[1]) = {} \/ \E g \in MirrorsOf(y[1]) : y[2] \notin members[g]}
            E == {y \in {NameOf(g) : g \in Mirrors} \X User :
                    ~Grants(y[1], y[2]) /\ \E g \in MirrorsOf(y[1]) : y[2] \in members[g]}
<1>4. \A y : y \in L <=> \E n : \E u \in User : Lacks(n, u) /\ y = <<n, u>>
  BY DEF Lacks, Grants
<1>5. \A y : y \in E <=> \E n : \E u \in User : Extra(n, u) /\ y = <<n, u>>
  BY <1>2 DEF Extra
<1>6. Drift = {<<"missing", n>> : n \in {m \in DOMAIN irods : MirrorsOf(m) = {}}}
              \cup {<<"stale", n>> : n \in {NameOf(g) : g \in Mirrors} \ DOMAIN irods}
              \cup {<<"lacks", y>> : y \in L} \cup {<<"extra", y>> : y \in E}
  BY DEF Drift
<1>. HIDE DEF L, E
<1>7. x \in Drift <=>
        \/ \E n \in {m \in DOMAIN irods : MirrorsOf(m) = {}} : x = <<"missing", n>>
        \/ \E n \in {NameOf(g) : g \in Mirrors} \ DOMAIN irods : x = <<"stale", n>>
        \/ \E y \in L : x = <<"lacks", y>>
        \/ \E y \in E : x = <<"extra", y>>
  BY <1>6, Zenon
<1>8. (\E y \in L : x = <<"lacks", y>>)
        <=> \E n : \E u \in User : Lacks(n, u) /\ x = <<"lacks", <<n, u>>>>
  <2>1. ASSUME NEW y \in L, x = <<"lacks", y>>
        PROVE  \E n : \E u \in User : Lacks(n, u) /\ x = <<"lacks", <<n, u>>>>
    <3>1. \E n : \E u \in User : Lacks(n, u) /\ y = <<n, u>>
      BY <1>4, <2>1
    <3>. QED
      BY <2>1, <3>1
  <2>2. ASSUME NEW n, NEW u \in User, Lacks(n, u), x = <<"lacks", <<n, u>>>>
        PROVE  \E y \in L : x = <<"lacks", y>>
    <3>1. <<n, u>> \in L
      BY <1>4, <2>2
    <3>. QED
      BY <2>2, <3>1
  <2>. QED
    BY <2>1, <2>2
<1>9. (\E y \in E : x = <<"extra", y>>)
        <=> \E n : \E u \in User : Extra(n, u) /\ x = <<"extra", <<n, u>>>>
  <2>1. ASSUME NEW y \in E, x = <<"extra", y>>
        PROVE  \E n : \E u \in User : Extra(n, u) /\ x = <<"extra", <<n, u>>>>
    <3>1. \E n : \E u \in User : Extra(n, u) /\ y = <<n, u>>
      BY <1>5, <2>1
    <3>. QED
      BY <2>1, <3>1
  <2>2. ASSUME NEW n, NEW u \in User, Extra(n, u), x = <<"extra", <<n, u>>>>
        PROVE  \E y \in E : x = <<"extra", y>>
    <3>1. <<n, u>> \in E
      BY <1>5, <2>2
    <3>. QED
      BY <2>2, <3>1
  <2>. QED
    BY <2>1, <2>2
<1>. QED
  BY <1>1, <1>3, <1>7, <1>8, <1>9, Zenon

\* QuietInv is inductive.
LEMMA InitQuiet ==
    ASSUME MirrorsInPlace, Init
    PROVE  QuietInv
BY InPlaceIsApart, InitRepair, StartsInPlace DEF QuietInv

\* Under every step.
LEMMA StepsKeepQuiet ==
    ASSUME MirrorsInPlace, QuietInv, [Next]_vars
    PROVE  QuietInv'
<1>1. RealmTypeOK /\ RealmStep
  BY StepsChangeRealm DEF QuietInv, RepairInv, TypeInv, TypeOK
<1>. QED
  BY <1>1, InPlaceIsApart, StepsKeepRepair, StaysInPlace DEF QuietInv

\* While apply carries out a plan of a quiet cycle, nobody else changes anything.
LEMMA QuietStep ==
    ASSUME QuietInv, [Next]_vars, stage = "applying", quiet'
    PROVE  quiet /\ irods' = irods /\ (ApplyOperation \/ UNCHANGED <<realm, irods>>)
<1>1. ~BeginScan /\ ~IrodsChanges /\ ~KeycloakDrifts
  BY DEF BeginScan, IrodsChanges, KeycloakDrifts
<1>2. quiet /\ irods' = irods
  BY <1>1, SteadyStays
<1>3. ApplyOperation \/ UNCHANGED realm
  BY <1>1 DEF Next, ScanStep, ListMirrors, ScanFails, WritePlan, ReadIrodsGroup, ReadMirror,
    ApplyStep, BeginApply, EndApply, MissOperation, Crash, vars
<1>. QED
  BY <1>2, <1>3

\* DriftShrinks: where every mirror stands at the path apply gives it, no operation
\* of a quiet cycle makes anything worse, also of a run that is interrupted or of
\* which operations fail.
THEOREM QuietDriftShrinks ==
    ASSUME MirrorsInPlace
    PROVE  Spec => DriftShrinks
<1>1. ASSUME QuietInv, QuietInv', [Next]_vars, stage = "applying", quiet'
      PROVE  Drift' \subseteq Drift
  <2>1. quiet /\ irods' = irods /\ (ApplyOperation \/ UNCHANGED <<realm, irods>>)
    BY <1>1, QuietStep
  <2>2. CASE UNCHANGED <<realm, irods>>
    BY <2>2 DEF Drift, Grants, MirrorsOf, Mirrors, IsMirrorGroup, NameOf, realm
  <2>3. CASE ApplyOperation
    <3>1. PICK m : Effect(plan[1], m)
      BY <1>1, <2>1, <2>3, OperationEffect
    <3>2. \A n : /\ Missing(n)' => Missing(n)
                 /\ Stale(n)' => Stale(n)
                 /\ \A u : Lacks(n, u)' => Lacks(n, u)
                 /\ \A u : Extra(n, u)' => Extra(n, u)
      BY <1>1, <2>1, <3>1, EffectShrinks DEF QuietInv
    <3>3. (\A x : x \in Drift <=>
             \/ \E n : Missing(n) /\ x = <<"missing", n>>
             \/ \E n : Stale(n) /\ x = <<"stale", n>>
             \/ \E n : \E u \in User : Lacks(n, u) /\ x = <<"lacks", <<n, u>>>>
             \/ \E n : \E u \in User : Extra(n, u) /\ x = <<"extra", <<n, u>>>>)'
      BY DriftIs, PTL
    <3>4. \A x : x \in Drift' => x \in Drift
      BY <3>2, <3>3, DriftIs, Zenon
    <3>. QED
      BY <3>4
  <2>. QED
    BY <2>1, <2>2, <2>3
<1>2. QuietInv /\ QuietInv' /\ [Next]_vars => [stage = "applying" /\ quiet' => Drift' \subseteq Drift]_vars
  BY <1>1
<1>3. Init => QuietInv
  BY InitQuiet
<1>4. QuietInv /\ [Next]_vars => QuietInv'
  BY StepsKeepQuiet
<1>. QED
  BY <1>2, <1>3, <1>4, PTL DEF Spec, DriftShrinks

(***************************************************************************)
(* A quiet cycle sees every mirror, and its plan mends every difference.   *)
(***************************************************************************)
LEMMA PageIsComplete ==
    ASSUME OnePage, NEW g \in live, NEW page \in MemberPages(g)
    PROVE  page = members[g]
<1>1. Cardinality(members[g]) \in Nat /\ Cardinality(members[g]) <= PageSize /\ PageSize \in Nat
  BY FS_CardinalityType, PageSizeAssumption DEF OnePage
<1>2. ~(Cardinality(members[g]) > PageSize)
  BY <1>1
<1>. QED
  BY <1>2 DEF MemberPages

\* No step of a quiet cycle lets the scan miss a mirror or its members.
LEMMA ScanStaysComplete ==
    ASSUME QuietInv, ScanInv, OnePage, [Next]_vars
    PROVE  ScanInv'
<1>1. CASE BeginScan
  BY <1>1 DEF BeginScan, ScanInv, NoSnapshot
<1>2. CASE ListMirrors
  <2>1. /\ listed' = {[id |-> g, name |-> NameOf(g), path |-> pathOf[g]] : g \in Mirrors}
        /\ DOMAIN mirrorSeen = {} /\ mirrorSeen' = mirrorSeen /\ UNCHANGED realm
        /\ stage' = "keycloak"
    BY <1>2 DEF ListMirrors, ScanInv
  <2>2. \A g \in Mirrors : [id |-> g, name |-> NameOf(g), path |-> pathOf[g]] \in listed'
    BY <2>1
  <2>3. KeycloakSeen'
    BY <2>1, <2>2 DEF KeycloakSeen, Mirrors, IsMirrorGroup, NameOf, realm
  <2>. QED
    BY <2>1, <2>3 DEF ScanInv
<1>3. ASSUME NEW m \in listed, ReadMirror(m) PROVE ScanInv'
  <2>1. /\ stage = "keycloak" /\ stage' = stage /\ quiet' = quiet /\ UNCHANGED realm
        /\ listed' = listed \ {m} /\ m.id \in live
    BY <1>3 DEF ReadMirror
  <2>. SUFFICES ASSUME quiet PROVE KeycloakSeen'
    BY <2>1 DEF ScanInv
  <2>2. PICK page \in MemberPages(m.id) :
          mirrorSeen' = With(mirrorSeen, m.name, [id |-> m.id, path |-> m.path, members |-> page])
    BY <1>3 DEF ReadMirror
  <2>. DEFINE seen == [id |-> m.id, path |-> m.path, members |-> page]
  <2>3. seen.id = m.id /\ seen.members = members[m.id] /\ mirrorSeen' = With(mirrorSeen, m.name, seen)
    BY <2>1, <2>2, PageIsComplete
  <2>. HIDE DEF seen
  <2>4. /\ DOMAIN mirrorSeen' = DOMAIN mirrorSeen \cup {m.name} /\ mirrorSeen'[m.name] = seen
        /\ \A k \in DOMAIN mirrorSeen \ {m.name} : mirrorSeen'[k] = mirrorSeen[k]
    BY <2>3 DEF With
  <2>5. KeycloakSeen
    BY <2>1 DEF ScanInv
  <2>6. m.id \in MirrorsOf(m.name)
    BY <2>1 DEF QuietInv, RepairInv, RecordsAreTrue, Recorded, MirrorsOf, Mirrors
  <2>7. \A g \in Mirrors : NameOf(g) = m.name => g = m.id
    <3>. SUFFICES ASSUME NEW g \in Mirrors, NameOf(g) = m.name PROVE g = m.id
      OBVIOUS
    <3>1. g \in Standing(m.name) /\ m.id \in Standing(m.name)
      BY <2>6, MirrorsStand DEF QuietInv, MirrorsOf
    <3>. QED
      BY <3>1, StandingFacts DEF QuietInv
  <2>8. ASSUME NEW g \in Mirrors
        PROVE  \/ [id |-> g, name |-> NameOf(g), path |-> pathOf[g]] \in listed'
               \/ NameOf(g) \in DOMAIN mirrorSeen' /\ mirrorSeen'[NameOf(g)].id = g
    <3>1. CASE NameOf(g) = m.name
      BY <2>3, <2>4, <2>7, <3>1
    <3>2. CASE NameOf(g) # m.name
      <4>. DEFINE r == [id |-> g, name |-> NameOf(g), path |-> pathOf[g]]
      <4>1. r # m
        BY <3>2
      <4>2. r \in listed \/ (NameOf(g) \in DOMAIN mirrorSeen /\ mirrorSeen[NameOf(g)].id = g)
        BY <2>5 DEF KeycloakSeen
      <4>. HIDE DEF r
      <4>3. r \in listed' \/ (NameOf(g) \in DOMAIN mirrorSeen' /\ mirrorSeen'[NameOf(g)].id = g)
        BY <2>1, <2>4, <3>2, <4>1, <4>2
      <4>. QED
        BY <4>3 DEF r
    <3>. QED
      BY <3>1, <3>2
  <2>9. ASSUME NEW n \in DOMAIN mirrorSeen'
        PROVE  mirrorSeen'[n].id \in live /\ mirrorSeen'[n].members = members[mirrorSeen'[n].id]
    BY <2>1, <2>3, <2>4, <2>5 DEF KeycloakSeen
  <2>. QED
    BY <2>1, <2>8, <2>9 DEF KeycloakSeen, Mirrors, IsMirrorGroup, NameOf, realm
<1>4. CASE stage' \notin {"irods", "keycloak"}
  BY <1>4 DEF ScanInv
<1>5. CASE UNCHANGED <<realm, listed, mirrorSeen, stage, quiet>>
  BY <1>5 DEF ScanInv, KeycloakSeen, Mirrors, IsMirrorGroup, NameOf, realm
<1>6. CASE IrodsChanges \/ KeycloakDrifts
  <2>1. quiet' = FALSE /\ UNCHANGED <<stage, listed, mirrorSeen>>
    BY <1>6 DEF IrodsChanges, KeycloakDrifts, scan
  <2>. QED
    BY <2>1 DEF ScanInv
<1>7. CASE ApplyStep \/ MissOperation \/ Crash \/ ScanFails \/ WritePlan
  <2>1. stage' \in {"idle", "planned", "applying", "done"}
    BY <1>7, Zenon DEF ApplyStep, BeginApply, ApplyOperation, EndApply, MissOperation, Crash,
      ScanFails, WritePlan
  <2>. QED
    BY <1>4, <2>1
<1>8. CASE UNCHANGED vars \/ \E n \in unread : ReadIrodsGroup(n)
  <2>1. UNCHANGED <<realm, listed, mirrorSeen, stage, quiet>>
    BY <1>8 DEF ReadIrodsGroup, vars, scan
  <2>. QED
    BY <1>5, <2>1
<1>. QED
  BY <1>1, <1>2, <1>3, <1>6, <1>7, <1>8 DEF Next, ScanStep

\* The plan written at the end of a quiet scan mends every difference.
LEMMA WrittenPlanMends ==
    ASSUME QuietInv, quiet, KeycloakSeen, unread = {}, listed = {}
    PROVE  LET p == PlanRepair(Zone, irodsSeen, mirrorSeen)
           IN  /\ \A n : Missing(n) => \E i \in DOMAIN p : Creates(p[i], n)
               /\ \A n : Stale(n) => \E i \in DOMAIN p : Deletes(p[i], n)
               /\ \A n : \A u \in User : Lacks(n, u) => \E i \in DOMAIN p : GivesTo(p[i], n, u)
               /\ \A n : \A u \in User : Extra(n, u) =>
                    \E i \in DOMAIN p : TakesFrom(p[i], n, u) \/ Deletes(p[i], n)
<1>. DEFINE p == PlanRepair(Zone, irodsSeen, mirrorSeen)
<1>1. /\ p \in Seq(Operation)
      /\ \A o \in Wanted(irodsSeen, mirrorSeen) : \E i \in DOMAIN p : Unnumbered(p[i]) = o
  BY PlanFacts DEF QuietInv, RepairInv, TypeInv
<1>. HIDE DEF p
<1>2. ASSUME NEW o \in Wanted(irodsSeen, mirrorSeen)
      PROVE  \E i \in DOMAIN p : /\ p[i].action = o.action /\ p[i].path = o.path
                                 /\ p[i].gid = o.gid /\ p[i].user = o.user
  <2>1. PICK i \in DOMAIN p : Unnumbered(p[i]) = o
    BY <1>1
  <2>2. p[i] \in Operation
    BY <1>1
  <2>. DEFINE q == p[i]
  <2>3. q \in Operation /\ Unnumbered(q) = o
    BY <2>1, <2>2
  <2>. HIDE DEF q
  <2>4. q.action = o.action /\ q.path = o.path /\ q.gid = o.gid /\ q.user = o.user
    BY <2>3 DEF Unnumbered, Operation
  <2>. QED
    BY <2>4 DEF q
<1>3. /\ DOMAIN irods = DOMAIN irodsSeen /\ DOMAIN irodsSeen \subseteq Names
      /\ \A n \in DOMAIN irodsSeen : \A u \in User : u \in irodsSeen[n] <=> Grants(n, u)
  BY DEF QuietInv, RepairInv, SeenIsTrue, TypeInv, IrodsSnapshot
<1>4. ASSUME NEW n, NEW g \in MirrorsOf(n)
      PROVE  /\ n \in DOMAIN mirrorSeen /\ mirrorSeen[n].id = g /\ mirrorSeen[n].members = members[g]
             /\ n \in Names /\ MirrorsOf(n) = {g}
  <2>1. n \in DOMAIN mirrorSeen /\ mirrorSeen[n].id = g /\ mirrorSeen[n].members = members[g]
    BY <1>4 DEF KeycloakSeen, MirrorsOf
  <2>2. n \in Names /\ MirrorsOf(n) = {g}
    BY <1>4, MirrorsStand, StandingFacts DEF QuietInv
  <2>. QED
    BY <2>1, <2>2
<1>5. ASSUME NEW n \in DOMAIN mirrorSeen PROVE mirrorSeen[n].id \in MirrorsOf(n)
  BY <1>5 DEF KeycloakSeen, QuietInv, RepairInv, RecordsAreTrue, Recorded, MirrorsOf, Mirrors
<1>6. ASSUME NEW n, Missing(n) PROVE \E i \in DOMAIN p : Creates(p[i], n)
  <2>1. n \in DOMAIN irodsSeen \ DOMAIN mirrorSeen
    BY <1>3, <1>5, <1>6 DEF Missing
  <2>2. CreateOp(n, Zone) \in Wanted(irodsSeen, mirrorSeen)
    BY <2>1 DEF Wanted, WantedFor
  <2>. QED
    BY <1>2, <2>2 DEF Creates, CreateOp, NewOp
<1>7. ASSUME NEW n, Stale(n) PROVE \E i \in DOMAIN p : Deletes(p[i], n)
  <2>1. PICK g : g \in MirrorsOf(n)
    BY <1>7 DEF Stale
  <2>2. n \in Names \cap (DOMAIN mirrorSeen \ DOMAIN irodsSeen) /\ mirrorSeen[n].id = g
    BY <1>3, <1>4, <1>7, <2>1 DEF Stale
  <2>. DEFINE o == DeleteOp(Zone, mirrorSeen[n].path, mirrorSeen[n].id)
  <2>3. o \in Wanted(irodsSeen, mirrorSeen)
    BY <2>2 DEF Wanted
  <2>4. o.action = "group_delete" /\ o.gid = g
    BY <2>2 DEF DeleteOp, NewOp
  <2>. HIDE DEF o
  <2>. QED
    BY <1>2, <2>1, <2>3, <2>4 DEF Deletes
<1>8. ASSUME NEW n, NEW u \in User, Lacks(n, u) PROVE \E i \in DOMAIN p : GivesTo(p[i], n, u)
  <2>1. n \in DOMAIN irodsSeen /\ u \in irodsSeen[n]
    BY <1>3, <1>8 DEF Lacks, Grants
  <2>2. CASE MirrorsOf(n) = {}
    <3>1. n \notin DOMAIN mirrorSeen
      BY <1>5, <2>2
    <3>. DEFINE o == AddOp(Zone, MirrorPath(n), None, u)
    <3>2. o \in Wanted(irodsSeen, mirrorSeen)
      BY <2>1, <3>1 DEF Wanted, WantedFor, Adds
    <3>3. o.action = "member_add" /\ o.gid = None /\ o.user = u /\ o.path = MirrorPath(n)
      BY DEF AddOp, NewOp
    <3>. HIDE DEF o
    <3>. QED
      BY <1>2, <3>2, <3>3 DEF GivesTo
  <2>3. CASE MirrorsOf(n) # {}
    <3>1. PICK g \in MirrorsOf(n) : u \notin members[g]
      BY <1>8, <2>3 DEF Lacks
    <3>2. n \in DOMAIN mirrorSeen /\ mirrorSeen[n].id = g /\ mirrorSeen[n].members = members[g]
      BY <1>4, <3>1
    <3>. DEFINE o == AddOp(Zone, mirrorSeen[n].path, mirrorSeen[n].id, u)
    <3>3. o \in Wanted(irodsSeen, mirrorSeen)
      BY <2>1, <3>1, <3>2 DEF Wanted, WantedFor, Adds
    <3>4. o.action = "member_add" /\ o.gid = g /\ o.user = u
      BY <3>2 DEF AddOp, NewOp
    <3>. HIDE DEF o
    <3>. QED
      BY <1>2, <3>1, <3>3, <3>4 DEF GivesTo
  <2>. QED
    BY <2>2, <2>3
<1>9. ASSUME NEW n, NEW u \in User, Extra(n, u)
      PROVE  \E i \in DOMAIN p : TakesFrom(p[i], n, u) \/ Deletes(p[i], n)
  <2>1. PICK g \in MirrorsOf(n) : u \in members[g]
    BY <1>9 DEF Extra
  <2>2. CASE n \notin DOMAIN irods
    BY <1>7, <2>1, <2>2 DEF Stale
  <2>3. CASE n \in DOMAIN irods
    <3>1. n \in DOMAIN mirrorSeen /\ mirrorSeen[n].id = g /\ mirrorSeen[n].members = members[g]
      BY <1>4, <2>1
    <3>2. n \in DOMAIN irodsSeen /\ u \notin irodsSeen[n]
      BY <1>3, <1>9, <2>3 DEF Extra
    <3>. DEFINE o == RemoveOp(Zone, mirrorSeen[n].path, mirrorSeen[n].id, u)
    <3>3. o \in Wanted(irodsSeen, mirrorSeen)
      BY <2>1, <3>1, <3>2 DEF Wanted, WantedFor, Removes
    <3>4. o.action = "member_remove" /\ o.gid = g /\ o.user = u
      BY <3>1 DEF RemoveOp, NewOp
    <3>. HIDE DEF o
    <3>. QED
      BY <1>2, <2>1, <3>3, <3>4 DEF TakesFrom
  <2>. QED
    BY <2>2, <2>3
<1>. QED
  BY <1>6, <1>7, <1>8, <1>9 DEF p

(***************************************************************************)
(* Applying the plan: a difference is mended by its operation, and until   *)
(* then the operation is still in the plan.                                *)
(***************************************************************************)
\* An operation is carried out next, or stays in the plan.
Stays(o) == \E j \in DOMAIN plan' : plan'[j] = o

\* An operation that is not the next one stays in the plan.
LEMMA NextOrStays ==
    ASSUME QuietInv, plan # << >>, plan' = plan \/ plan' = Tail(plan)
    PROVE  \A i \in DOMAIN plan : Stays(plan[i]) \/ (plan[i] = plan[1] /\ plan' = Tail(plan))
<1>1. plan \in Seq(Operation)
  BY DEF QuietInv, RepairInv, TypeInv
<1>. QED
  BY <1>1, RestOfPlan DEF Stays

\* A group still without a mirror after an operation still has its creation.
LEMMA MissingStaysMended ==
    ASSUME QuietInv, complete', NEW o, NEW m, Effect(o, m), NEW n \in Names, Creates(o, n),
           MirrorsOf(n)' = Standing(n)', Missing(n)', plan' = Tail(plan)
    PROVE  Stays(o) \/ plan' = plan
<1>1. Standing(n)' = {}
  BY DEF Missing
<1>2. CASE o.action = "group_create" /\ m \in Names /\ o.path = MirrorPath(m)
           /\ (Created(m) \/ (Unmoved /\ Standing(m) # {}))
  <2>1. m = n
    BY <1>2, MirrorFacts DEF Creates
  <2>. QED
    BY <1>1, <1>2, <2>1 DEF Created, Unmoved
<1>. QED
  BY <1>2 DEF Effect, Creates

\* A stale mirror that is still there was not up for deletion.
LEMMA StaleStaysMended ==
    ASSUME QuietInv, complete', NEW o, NEW m, Effect(o, m), NEW n, o.gid \in Standing(n),
           o.action = "group_delete", Standing(n)' # {}
    PROVE  plan' = plan
<1>1. o.gid \in live /\ \A k : o.gid \in Standing(k) => k = n
  BY DEF Standing
<1>. QED
  BY <1>1 DEF Effect, Dropped

\* A membership still lacking was not the one being given.
LEMMA LacksStaysMended ==
    ASSUME QuietInv, complete', NEW o, NEW m, Effect(o, m), NEW n \in Names, NEW u,
           o.action = "member_add", o.user = u,
           o.gid \in Standing(n) \/ (o.gid = None /\ o.path = MirrorPath(n)),
           NEW g \in Standing(n)', u \notin members'[g]
    PROVE  plan' = plan
<1>1. CASE MeantFor(o, m) /\ Joined(m, u)
  <2>1. m = n
    <3>1. CASE o.gid # None
      <4>1. o.gid \in Standing(n) /\ o.gid \in live
        BY <3>1 DEF Standing
      <4>2. o.gid \in Standing(m)
        <5>1. o.gid \in ActsOn(o)
          BY <3>1, <4>1 DEF ActsOn
        <5>. QED
          BY <1>1, <5>1, ActsOnStanding
      <4>. QED
        BY <4>1, <4>2 DEF Standing
    <3>2. CASE o.gid = None
      <4>1. o.path = MirrorPath(n)
        BY <3>2, NoneAssumption, StandingFacts DEF QuietInv
      <4>2. m \in Names /\ o.path = MirrorPath(m)
        BY <1>1, <3>2 DEF MeantFor
      <4>. QED
        BY <4>1, <4>2, MirrorFacts
    <3>. QED
      BY <3>1, <3>2
  <2>2. g \in Standing(m) /\ u \in members'[g]
    BY <1>1, <2>1 DEF Joined
  <2>. QED
    BY <2>2
<1>. QED
  BY <1>1 DEF Effect

\* A membership still too many was not the one being taken away.
LEMMA ExtraStaysMended ==
    ASSUME QuietInv, OnePage, complete', NEW o, NEW m, Effect(o, m), NEW n, NEW u,
           \/ o.action = "member_remove" /\ o.user = u
           \/ o.action = "group_delete",
           o.gid \in Standing(n), o.gid \in Standing(n)', u \in members'[o.gid]
    PROVE  plan' = plan
<1>1. o.gid \in live /\ \A k : o.gid \in Standing(k) => k = n
  BY DEF Standing
<1>2. \A page \in MemberPages(o.gid) : page = members[o.gid]
  BY <1>1, PageIsComplete
<1>3. Standing(n) = {o.gid}
  BY StandingFacts DEF QuietInv
<1>4. CASE o.action = "member_remove" /\ o.user = u
  <2>1. CASE o.gid \in Standing(m) /\ Left(m, u)
    BY <1>1, <1>3, <2>1 DEF Left
  <2>2. CASE Unmoved /\ \E page \in MemberPages(o.gid) : u \notin page
    BY <1>1, <1>2, <2>2 DEF Unmoved, SameMembers
  <2>. QED
    BY <1>1, <1>4, <2>1, <2>2 DEF Effect
<1>5. CASE o.action = "group_delete"
  BY <1>1, <1>5 DEF Effect, Dropped
<1>. QED
  BY <1>4, <1>5

\* An operation takes no mirror from a group of iRODS, gives none to another, and
\* the mirror it creates has no members.
LEMMA MirrorsAfter ==
    ASSUME NEW o, NEW m, Effect(o, m), NEW n
    PROVE  /\ n \notin DOMAIN irods => Standing(n)' \subseteq Standing(n)
           /\ n \in DOMAIN irods => Standing(n) \subseteq Standing(n)'
           /\ \A g \in Standing(n)' \ Standing(n) : members'[g] = {}
<1>1. CASE \A k : Standing(k)' = Standing(k)
  BY <1>1
<1>2. CASE m \in DOMAIN irods /\ Created(m)
  BY <1>2 DEF Created, OnlyMoves
<1>3. CASE m \notin DOMAIN irods /\ Dropped(m)
  BY <1>3 DEF Dropped, OnlyMoves
<1>. QED
  BY <1>1, <1>2, <1>3 DEF Effect, Unmoved, Joined, Left

\* After an operation, every difference left still has one that mends it.
LEMMA OperationKeepsMends ==
    ASSUME QuietInv, OnePage, PlanMends, AllInPlace', irods' = irods, quiet, complete',
           ApplyOperation
    PROVE  PlanMends'
<1>1. PICK m : Effect(plan[1], m)
  BY OperationEffect
<1>2. plan # << >> /\ 1 \in DOMAIN plan
  BY OperationEffect, NextOperation DEF QuietInv
<1>3. plan' = plan \/ plan' = Tail(plan)
  BY <1>1 DEF Effect
<1>4. \A i \in DOMAIN plan : Stays(plan[i]) \/ (plan[i] = plan[1] /\ plan' = Tail(plan))
  BY <1>2, <1>3, NextOrStays
<1>5. plan' = plan => \A i \in DOMAIN plan : Stays(plan[i])
  BY DEF Stays
<1>6. \A k : MirrorsOf(k) = Standing(k) /\ MirrorsOf(k)' = Standing(k)'
  <2>1. (\A k : AllInPlace => MirrorsOf(k) = Standing(k))'
    BY MirrorsStand, PTL
  <2>. QED
    BY <2>1, MirrorsStand DEF QuietInv
<1>7. \A n : /\ Missing(n)' => Missing(n)
             /\ Stale(n)' => Stale(n)
             /\ \A u : Lacks(n, u)' => Lacks(n, u)
             /\ \A u : Extra(n, u)' => Extra(n, u)
  BY <1>1, EffectShrinks DEF QuietInv
<1>8. DOMAIN irods \subseteq Names
  BY DEF QuietInv, RepairInv, TypeInv, TypeOK
<1>9. ASSUME NEW n, Missing(n)' PROVE CreationDue(n)'
  <2>1. n \in Names /\ MirrorsOf(n)' = Standing(n)'
    BY <1>6, <1>7, <1>8, <1>9 DEF Missing
  <2>2. PICK i \in DOMAIN plan : Creates(plan[i], n)
    BY <1>7, <1>9 DEF PlanMends, CreationDue
  <2>3. Stays(plan[i])
    BY <1>1, <1>4, <1>5, <1>9, <2>1, <2>2, MissingStaysMended
  <2>. QED
    BY <2>2, <2>3 DEF Stays, Creates, CreationDue
<1>10. ASSUME NEW n, Stale(n)' PROVE DeletionDue(n)'
  <2>1. PICK i \in DOMAIN plan : Deletes(plan[i], n)
    BY <1>7, <1>10 DEF PlanMends, DeletionDue
  <2>. DEFINE o == plan[i]
  <2>2. o.action = "group_delete" /\ o.gid \in Standing(n)
    BY <1>6, <2>1 DEF Deletes
  <2>3. Standing(n)' # {} /\ n \notin DOMAIN irods
    BY <1>6, <1>10 DEF Stale
  <2>4. o.gid \in Standing(n)'
    BY <1>1, <2>2, <2>3, MirrorsAfter, StandingFacts DEF QuietInv
  <2>5. Stays(o)
    BY <1>1, <1>4, <1>5, <2>2, <2>3, StaleStaysMended
  <2>6. o.gid \in MirrorsOf(n)'
    BY <1>6, <2>4
  <2>. HIDE DEF o
  <2>. QED
    BY <2>2, <2>5, <2>6 DEF Stays, Deletes, DeletionDue
<1>11. ASSUME NEW n, NEW u \in User, Lacks(n, u)'
       PROVE  GiftDue(n, u)'
  <2>1. PICK i \in DOMAIN plan : GivesTo(plan[i], n, u)
    BY <1>7, <1>11 DEF PlanMends, GiftDue
  <2>. DEFINE o == plan[i]
  <2>2. /\ o.action = "member_add" /\ o.user = u
        /\ o.gid \in Standing(n) \/ (o.gid = None /\ o.path = MirrorPath(n))
    BY <1>6, <2>1 DEF GivesTo
  <2>3. n \in DOMAIN irods /\ n \in Names
    BY <1>8, <1>11 DEF Lacks, Grants
  <2>4. Standing(n) \subseteq Standing(n)'
    BY <1>1, <2>3, MirrorsAfter
  <2>5. o.gid \in MirrorsOf(n)' \/ (o.gid = None /\ o.path = MirrorPath(n))
    BY <1>6, <2>2, <2>4
  <2>6. o = plan[1] /\ plan' = Tail(plan) => plan' = plan
    <3>. SUFFICES ASSUME o = plan[1] PROVE plan' = plan
      OBVIOUS
    <3>1. CASE Standing(n)' # {}
      <4>1. PICK g \in Standing(n)' : u \notin members'[g]
        BY <1>6, <1>11, <3>1 DEF Lacks
      <4>. QED
        BY <1>1, <2>2, <2>3, <4>1, LacksStaysMended
    <3>2. CASE Standing(n)' = {}
      <4>1. o.gid = None /\ o.path = MirrorPath(n)
        BY <2>2, <2>4, <3>2
      <4>2. ~(MeantFor(o, m) /\ Joined(m, u))
        <5>. SUFFICES ASSUME MeantFor(o, m), Joined(m, u) PROVE FALSE
          OBVIOUS
        <5>1. m = n
          BY <2>3, <4>1, MirrorFacts DEF MeantFor
        <5>. QED
          BY <3>2, <5>1 DEF Joined
      <4>. QED
        BY <1>1, <2>2, <4>2 DEF Effect
    <3>. QED
      BY <3>1, <3>2
  <2>7. Stays(o)
    BY <1>4, <1>5, <2>6
  <2>. HIDE DEF o
  <2>. QED
    BY <2>2, <2>5, <2>7 DEF Stays, GivesTo, GiftDue
<1>12. ASSUME NEW n, NEW u \in User, Extra(n, u)'
       PROVE  LossDue(n, u)'
  <2>1. PICK i \in DOMAIN plan : TakesFrom(plan[i], n, u) \/ Deletes(plan[i], n)
    BY <1>7, <1>12 DEF PlanMends, LossDue
  <2>. DEFINE o == plan[i]
  <2>2. /\ o.gid \in Standing(n)
        /\ (o.action = "member_remove" /\ o.user = u) \/ o.action = "group_delete"
    BY <1>6, <2>1 DEF TakesFrom, Deletes
  <2>3. PICK g \in Standing(n)' : u \in members'[g]
    BY <1>6, <1>12 DEF Extra
  <2>4. g = o.gid
    BY <1>1, <2>2, <2>3, MirrorsAfter, StandingFacts DEF QuietInv
  <2>5. Stays(o)
    BY <1>1, <1>4, <1>5, <2>2, <2>3, <2>4, ExtraStaysMended
  <2>6. o.gid \in MirrorsOf(n)'
    BY <1>6, <2>3, <2>4
  <2>. HIDE DEF o
  <2>. QED
    BY <2>2, <2>5, <2>6 DEF Stays, TakesFrom, Deletes, LossDue
<1>. QED
  BY <1>9, <1>10, <1>11, <1>12 DEF PlanMends

\* A plan that is complete after an operation was complete before it.
LEMMA OperationsMiss ==
    ASSUME ApplyOperation, complete'
    PROVE  complete
<1>1. \E ok \in BOOLEAN : complete' = (complete /\ ok) \/ complete' = complete
  BY Zenon DEF ApplyOperation, ApplyCreate, ApplyAdd, ApplyRemove, ApplyDelete, Took
<1>. QED
  BY <1>1, Zenon

\* So every step keeps a mending plan mending.
LEMMA StepsKeepMends ==
    ASSUME QuietInv, QuietInv', ScanInv, MendInv, OnePage, [Next]_vars
    PROVE  MendInv'
<1>1. CASE stage' \notin {"planned", "applying", "done"}
  BY <1>1 DEF MendInv
<1>2. CASE IrodsChanges \/ KeycloakDrifts
  <2>1. quiet' = FALSE /\ UNCHANGED <<stage, plan>>
    BY <1>2 DEF IrodsChanges, KeycloakDrifts
  <2>. QED
    BY <2>1 DEF MendInv
<1>3. CASE UNCHANGED <<realm, irods, plan, quiet, complete>> /\ stage \in {"planned", "applying", "done"}
           /\ (stage' = "done" => stage = "done" \/ plan = << >>)
  <2>1. PlanMends => PlanMends'
    BY <1>3 DEF PlanMends, Missing, Stale, Lacks, Extra, CreationDue, DeletionDue, GiftDue, LossDue,
      Creates, Deletes, GivesTo, TakesFrom, Grants, MirrorsOf, Mirrors, IsMirrorGroup, NameOf, realm
  <2>. QED
    BY <1>3, <2>1 DEF MendInv
<1>4. CASE WritePlan
  <2>1. /\ stage = "keycloak" /\ listed = {} /\ stage' = "planned" /\ quiet' = quiet
        /\ plan' = PlanRepair(Zone, irodsSeen, mirrorSeen) /\ UNCHANGED <<realm, irods>>
    BY <1>4 DEF WritePlan
  <2>2. unread = {}
    BY <2>1 DEF QuietInv, RepairInv, SeenIsTrue
  <2>3. ASSUME quiet PROVE PlanMends'
    <3>1. KeycloakSeen
      BY <2>1, <2>3 DEF ScanInv
    <3>2. /\ \A n : Missing(n) => \E i \in DOMAIN plan' : Creates(plan'[i], n)
          /\ \A n : Stale(n) => \E i \in DOMAIN plan' : Deletes(plan'[i], n)
          /\ \A n : \A u \in User : Lacks(n, u) => \E i \in DOMAIN plan' : GivesTo(plan'[i], n, u)
          /\ \A n : \A u \in User : Extra(n, u) =>
               \E i \in DOMAIN plan' : TakesFrom(plan'[i], n, u) \/ Deletes(plan'[i], n)
      BY <2>1, <2>2, <2>3, <3>1, WrittenPlanMends
    <3>. QED
      BY <2>1, <3>2 DEF PlanMends, Missing, Stale, Lacks, Extra, CreationDue, DeletionDue, GiftDue,
        LossDue, Creates, Deletes, GivesTo, TakesFrom, Grants, MirrorsOf, Mirrors, IsMirrorGroup,
        NameOf, realm
  <2>. QED
    BY <2>1, <2>3 DEF MendInv
<1>5. CASE MissOperation
  <2>1. complete' = FALSE /\ stage' = "applying"
    BY <1>5 DEF MissOperation, Took
  <2>. QED
    BY <2>1 DEF MendInv
<1>6. CASE ApplyOperation
  <2>1. stage = "applying" /\ stage' = stage /\ irods' = irods /\ quiet' = quiet
    BY <1>6 DEF ApplyOperation
  <2>2. complete' => complete
    BY <1>6, OperationsMiss
  <2>3. quiet /\ complete' => PlanMends'
    BY <1>6, <2>1, <2>2, OperationKeepsMends DEF MendInv, QuietInv
  <2>. QED
    BY <2>1, <2>3 DEF MendInv
<1>7. CASE UNCHANGED vars \/ BeginApply \/ EndApply
  BY <1>1, <1>3, <1>7 DEF vars, BeginApply, EndApply, MendInv
<1>8. CASE \/ BeginScan \/ ListMirrors \/ ScanFails \/ Crash
           \/ (\E n \in unread : ReadIrodsGroup(n)) \/ (\E m \in listed : ReadMirror(m))
  BY <1>1, <1>8 DEF BeginScan, ListMirrors, ScanFails, Crash, ReadIrodsGroup, ReadMirror
<1>. QED
  BY <1>2, <1>4, <1>5, <1>6, <1>7, <1>8 DEF Next, ScanStep, ApplyStep

\* CleanCycleSyncs: where every mirror stands at the path apply gives it, and no
\* group has more members than one page lists, a cycle during which nobody else
\* changed anything, and of which no operation failed or was skipped, leaves
\* Keycloak matching iRODS.
THEOREM CleanCyclesSync ==
    ASSUME MirrorsInPlace
    PROVE  Spec /\ []OnePage => []CleanCycleSyncs
<1>1. Init => CycleInv
  <2>1. Init => stage = "idle"
    BY DEF Init
  <2>. QED
    BY <2>1, InitQuiet DEF CycleInv, QuietInv, ScanInv, MendInv
<1>2. CycleInv /\ OnePage /\ [Next]_vars => CycleInv'
  <2>. SUFFICES ASSUME CycleInv, OnePage, [Next]_vars PROVE CycleInv'
    OBVIOUS
  <2>1. QuietInv /\ ScanInv /\ MendInv
    BY DEF CycleInv, QuietInv
  <2>2. QuietInv' /\ ScanInv'
    BY <2>1, StepsKeepQuiet, ScanStaysComplete
  <2>3. MendInv'
    BY <2>1, <2>2, StepsKeepMends
  <2>. QED
    BY <2>2, <2>3 DEF CycleInv, QuietInv
<1>3. CycleInv => CleanCycleSyncs
  <2>. SUFFICES ASSUME CycleInv, stage = "done", quiet, complete PROVE Drift = {}
    BY DEF CleanCycleSyncs, InSync
  <2>1. PlanMends /\ DOMAIN plan = {}
    BY DEF CycleInv, MendInv
  <2>2. \A n : ~Missing(n) /\ ~Stale(n) /\ \A u \in User : ~Lacks(n, u) /\ ~Extra(n, u)
    BY <2>1 DEF PlanMends, CreationDue, DeletionDue, GiftDue, LossDue
  <2>3. \A x : x \notin Drift
    BY <2>2, DriftIs, Zenon
  <2>. QED
    BY <2>3
<1>. QED
  BY <1>1, <1>2, <1>3, PTL DEF Spec
==============================================================================
