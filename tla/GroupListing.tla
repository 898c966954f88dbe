----------------------------- MODULE GroupListing -----------------------------
(***************************************************************************)
(* internal/keycloakadmin/http_client.go: ListGroups with                  *)
(* appendGroupHierarchy and listGroupChildren, request by request.  Top    *)
(* groups and the children of each group are read page by page, by offset, *)
(* while an administrator creates and deletes groups: a deletion shifts    *)
(* the groups behind it to the left, a creation to the right.  The other   *)
(* modules take a listing as one step; this one says what it may miss.     *)
(*                                                                         *)
(* The recursion over the hierarchy is a list of the work still to do,     *)
(* first work first.                                                       *)
(***************************************************************************)
EXTENDS KeycloakRealm, SequencesExt

CONSTANTS
    NameRank,  \* Keycloak sorts siblings by name: the rank of every name
    Answers,   \* how Keycloak shows the groups below one: its children are
               \* counted (to be asked for), embedded in the answer, or both
    MaxEdits   \* bound: groups created and deleted meanwhile

ASSUME ListingAssumption ==
    /\ NameRank \in [Segment -> Nat] /\ MaxEdits \in Nat
    /\ \A m, n \in Segment : NameRank[m] = NameRank[n] => m = n
    /\ \A s \in StartRealms : IsFiniteSet(s.live)
    /\ Answers \subseteq {"counted", "embedded", "both"}

VARIABLES
    style,     \* one of Answers: the server's version does not change
    work,      \* what the listing has still to do
    result,    \* the ids appended so far
    seen,      \* the ids met so far
    status,    \* "listing", "ok" or "failed"
    stable,    \* the groups that have existed since the listing began
    edits, drops \* edits so far, deletions among them

vars == <<realm, style, work, result, seen, status, stable, edits, drops>>

(***************************************************************************)
(* Keycloak's answers.  An answer is taken from the realm as it is then: a *)
(* group in it carries the tree that is embedded below it, if any.         *)
(***************************************************************************)
Now == [live |-> live, pathOf |-> pathOf]

ChildrenIn(tree, p) ==
    {g \in tree.live : Len(tree.pathOf[g]) = Len(p) + 1 /\ Under(p, tree.pathOf[g])}
RankIn(tree, g) == NameRank[Last(tree.pathOf[g])]
Sorted(tree, p) ==
    LET kids      == ChildrenIn(tree, p)
        before(g) == {h \in kids : RankIn(tree, h) < RankIn(tree, g)}
    IN  [i \in 1..Cardinality(kids) |-> CHOOSE g \in kids : Cardinality(before(g)) = i - 1]
Shown(tree, p) ==
    LET kids == Sorted(tree, p)
    IN  [i \in DOMAIN kids |-> [do |-> "append", id |-> kids[i], tree |-> tree]]

Page(p, first) ==
    LET all == Shown(Now, p)
    IN  SubSeq(all, first + 1, IF first + PageSize < Len(all) THEN first + PageSize ELSE Len(all))

Counted(item)  == style # "embedded"
                  /\ ChildrenIn(item.tree, item.tree.pathOf[item.id]) # {}
Embedded(item) == IF style = "counted" THEN << >>
                                       ELSE Shown(item.tree, item.tree.pathOf[item.id])

(***************************************************************************)
(* The listing.                                                            *)
(***************************************************************************)
Tops(first) == [do |-> "tops", first |-> first]
Kids(item, first, got) == [do |-> "kids", of |-> item, first |-> first, got |-> got]

Init ==
    /\ RealmInit
    /\ style \in Answers
    /\ work = <<Tops(0)>>
    /\ result = << >> /\ seen = {} /\ status = "listing"
    /\ stable = live /\ edits = 0 /\ drops = 0

Doing(what) == status = "listing" /\ work # << >> /\ Head(work).do = what

NextPageStuck(first) == first
NextPage(first)      == first + PageSize

IsLastAtFullPage(page) == Len(page) <= PageSize
IsLast(page)           == Len(page) < PageSize

\* One request of ListGroups; the groups of its page are appended, with all that
\* is below them, before the next page is asked for.
TopPage ==
    /\ Doing("tops")
    /\ LET first == Head(work).first
           page  == Page(<< >>, first)
       IN  work' = page \o (IF IsLast(page) THEN << >> ELSE <<Tops(NextPage(first))>>) \o Tail(work)
    /\ UNCHANGED <<realm, style, result, seen, status, stable, edits, drops>>

MarkNothing(id) == seen
MarkPath(id)    == seen \cup {pathOf[id]}
Mark(id)        == seen \cup {id}

Below(item) == IF Counted(item) THEN <<Kids(item, 0, << >>)>> ELSE Embedded(item)

\* appendGroupHierarchy up to the request for the children.
AppendGroup ==
    /\ Doing("append")
    /\ LET item == Head(work)
       IN  IF item.id \in seen
           THEN /\ work' = Tail(work)
                /\ UNCHANGED <<result, seen>>
           ELSE /\ seen' = Mark(item.id)
                /\ result' = Append(result, item.id)
                /\ work' = Below(item) \o Tail(work)
    /\ UNCHANGED <<realm, style, status, stable, edits, drops>>

\* One request of listGroupChildren; after the last page the children are appended,
\* or what was embedded if there are none any more.
KidsPage ==
    /\ Doing("kids")
    /\ Head(work).of.id \in live
    /\ LET k    == Head(work)
           page == Page(pathOf[k.of.id], k.first)
           all  == k.got \o page
       IN  work' = (IF ~IsLast(page) THEN <<Kids(k.of, NextPage(k.first), all)>>
                    ELSE IF all = << >> THEN Embedded(k.of) ELSE all) \o Tail(work)
    /\ UNCHANGED <<realm, style, result, seen, status, stable, edits, drops>>

Finish ==
    /\ status = "listing" /\ work = << >>
    /\ status' = "ok"
    /\ UNCHANGED <<realm, style, work, result, seen, stable, edits, drops>>

\* The children of a group that is gone are a 404; any other request may fail too.
Fail ==
    /\ Doing("tops") \/ Doing("kids")
    /\ status' = "failed"
    /\ UNCHANGED <<realm, style, work, result, seen, stable, edits, drops>>

Edit ==
    /\ status = "listing" /\ edits < MaxEdits
    /\ AdminEdit
    /\ edits' = edits + 1
    /\ drops' = IF live \subseteq live' THEN drops ELSE drops + 1
    /\ stable' = stable \cap live'
    /\ UNCHANGED <<style, work, result, seen, status>>

Listing == TopPage \/ AppendGroup \/ KidsPage \/ Finish \/ Fail
Next == Listing \/ Edit

Spec == Init /\ [][Next]_vars
FairSpec == Spec /\ WF_vars(Listing)

(***************************************************************************)
(* Properties.                                                             *)
(***************************************************************************)
WorkItem(w) ==
    CASE w.do = "tops"   -> w.first \in Nat
      [] w.do = "append" -> w.id \in GroupId
      [] w.do = "kids"   -> w.first \in Nat /\ w.of.id \in ToSet(result)
TypeOK ==
    /\ RealmTypeOK
    /\ style \in Answers
    /\ \A i \in DOMAIN work : WorkItem(work[i])
    /\ result \in Seq(GroupId) /\ seen \subseteq GroupId
    /\ status \in {"listing", "ok", "failed"}
    /\ stable \subseteq live
    /\ edits \in 0..MaxEdits /\ drops \in 0..edits

\* Nothing is listed twice, and a group comes after its parent, whatever is created
\* or deleted while pages are read: the dry run builds one mirror per listed group.
ListedOnceAfterParent ==
    \A i \in DOMAIN result :
        /\ \A j \in DOMAIN result : result[i] = result[j] => i = j
        /\ Len(pathOf[result[i]]) > 1 =>
             \E j \in 1..(i - 1) : pathOf[result[j]] = Parent(pathOf[result[i]])

\* The groups a finished listing has missed although they were there all the time
\* (below one of them it misses everything).
Missed == {g \in stable : /\ g \notin ToSet(result)
                          /\ Len(pathOf[g]) > 1 => \E h \in ToSet(result) :
                                                      pathOf[h] = Parent(pathOf[g])}

\* A listing misses at most one group, with what is below it, for each group that
\* is deleted while it runs: none without deletions, however many are created.
\* (findGroupByPath takes a missed group for absent.)
DeletionsHideOneEach == status = "ok" => Cardinality(Missed) <= drops

\* A listing ends, whatever is created and deleted meanwhile, if that is finitely
\* much (MaxEdits): groups created for ever, each before the next page is asked
\* for, would keep it going for ever.
ListingEnds == <>(status # "listing")
==============================================================================
