---------------------------- MODULE KeycloakRealm ----------------------------
(***************************************************************************)
(* The group tree of one Keycloak realm, as seen through the Admin REST    *)
(* API.  Keycloak itself is not part of the repository: this module states *)
(* what internal/keycloakadmin/http_client.go relies on when it lists,     *)
(* creates, updates and deletes groups and memberships, and is marked      *)
(* external.  A group has an id that is never issued twice, a path that    *)
(* follows from its parent, attributes and members, which are accounts of  *)
(* the realm; siblings have distinct names, and deleting a group deletes   *)
(* everything below it.                                                    *)
(***************************************************************************)
EXTENDS Naturals, Sequences, FiniteSets

CONSTANTS
    GroupId,   \* the ids Keycloak can issue
    Segment,   \* group names, one level each
    Path,      \* the group paths considered, as sequences of names
    User,      \* usernames (an account's id and its name are one value here)
    Account,   \* the users that have a Keycloak account
    Attrs,     \* group attribute maps
    NoAttrs,   \* the empty attribute map
    EditAttrs, \* the attribute maps an administrator gives to new groups
    None,      \* "no group", "no user"
    PageSize,  \* the most members one GET of a group's members returns
    StartRealms \* the realms an execution may start from

ASSUME PathAssumption ==
    /\ Path \subseteq Seq(Segment)
    /\ \A p \in Path : Len(p) > 0
    /\ \A p \in Path : \A k \in 1..Len(p) : SubSeq(p, 1, k) \in Path
ASSUME NoneAssumption  == None \notin GroupId /\ None \notin User
                          /\ None \notin Path
ASSUME AttrsAssumption == NoAttrs \in Attrs /\ EditAttrs \subseteq Attrs
ASSUME AccountAssumption == Account \subseteq User
ASSUME PageSizeAssumption == PageSize \in Nat \ {0}

VARIABLES
    live,      \* the groups that exist
    pathOf,    \* the path of every group ever created, None if never
    attrs,     \* the attributes of every group
    members    \* the members of every group

realm == <<live, pathOf, attrs, members>>

RealmTypeOK ==
    /\ live \subseteq GroupId
    /\ pathOf \in [GroupId -> Path \cup {None}]
    /\ attrs \in [GroupId -> Attrs]
    /\ members \in [GroupId -> SUBSET Account]
    /\ \A g \in live : pathOf[g] \in Path

Parent(p) == SubSeq(p, 1, Len(p) - 1)
Under(p, q) == Len(p) <= Len(q) /\ SubSeq(q, 1, Len(p)) = p

ASSUME StartAssumption ==
    \A s \in StartRealms :
        /\ s \in [live : SUBSET GroupId, pathOf : [GroupId -> Path \cup {None}],
                  attrs : [GroupId -> Attrs], members : [GroupId -> SUBSET Account]]
        /\ \A g \in s.live : s.pathOf[g] \in Path
        /\ \A g \in GroupId : s.pathOf[g] = None => s.members[g] = {}
        /\ \A g, h \in s.live : s.pathOf[g] = s.pathOf[h] => g = h
        /\ \A g \in s.live : Len(s.pathOf[g]) > 1 =>
               \E h \in s.live : s.pathOf[h] = Parent(s.pathOf[g])

RealmInit == \E s \in StartRealms :
    live = s.live /\ pathOf = s.pathOf /\ attrs = s.attrs /\ members = s.members

(***************************************************************************)
(* Reading the tree.                                                       *)
(***************************************************************************)
GroupsAt(p) == {g \in live : pathOf[g] = p}
GroupAt(p)  == IF GroupsAt(p) = {} THEN None ELSE CHOOSE g \in GroupsAt(p) : TRUE

\* A member listing without "first" and "max" holds one page of the members.
MemberPages(g) ==
    {page \in SUBSET members[g] :
        \/ page = members[g] /\ Cardinality(members[g]) <= PageSize
        \/ Cardinality(members[g]) > PageSize /\ Cardinality(page) = PageSize}

(***************************************************************************)
(* Requests that change the realm, the status Keycloak answers them with,  *)
(* and their effect.  A request that is refused changes nothing.           *)
(***************************************************************************)
Verb    == {"post", "put", "delete", "join", "leave"}
Request == [verb : Verb, group : GroupId \cup {None}, name : Segment \cup {None},
            user : User \cup {None}, attrs : Attrs]

NewPath(r) == IF r.group = None THEN <<r.name>>
                                ELSE Append(pathOf[r.group], r.name)

Answer(r) ==
    IF \/ r.group \notin live /\ ~(r.verb = "post" /\ r.group = None)
       \/ r.verb \in {"join", "leave"} /\ r.user \notin Account
    THEN 404
    ELSE IF r.verb = "post" /\ GroupsAt(NewPath(r)) # {} THEN 409 ELSE 204

AddGroup(g, p, a) ==
    /\ pathOf[g] = None
    /\ GroupsAt(p) = {}
    /\ Len(p) > 1 => GroupsAt(Parent(p)) # {}
    /\ live'    = live \cup {g}
    /\ pathOf'  = [pathOf EXCEPT ![g] = p]
    /\ attrs'   = [attrs EXCEPT ![g] = a]
    /\ members' = [members EXCEPT ![g] = {}]

SetAttrs(g, a) == attrs' = [attrs EXCEPT ![g] = a]
                  /\ UNCHANGED <<live, pathOf, members>>
DropGroup(g)   == live' = {h \in live : ~Under(pathOf[g], pathOf[h])}
                  /\ UNCHANGED <<pathOf, attrs, members>>
Join(g, u)     == members' = [members EXCEPT ![g] = @ \cup {u}]
                  /\ UNCHANGED <<live, pathOf, attrs>>
Leave(g, u)    == members' = [members EXCEPT ![g] = @ \ {u}]
                  /\ UNCHANGED <<live, pathOf, attrs>>

Serve(r) ==
    \/ Answer(r) # 204 /\ UNCHANGED realm
    \/ /\ Answer(r) = 204
       /\ \/ r.verb = "post"   /\ \E g \in GroupId : AddGroup(g, NewPath(r), r.attrs)
          \/ r.verb = "put"    /\ SetAttrs(r.group, r.attrs)
          \/ r.verb = "delete" /\ DropGroup(r.group)
          \/ r.verb = "join"   /\ Join(r.group, r.user)
          \/ r.verb = "leave"  /\ Leave(r.group, r.user)

\* What an administrator (or another tool) may do to the realm meanwhile.
AdminEdit ==
    \/ \E g \in GroupId, p \in Path, a \in EditAttrs : AddGroup(g, p, a)
    \/ \E g \in live : \/ DropGroup(g)
                       \/ \E u \in Account : Join(g, u) \/ Leave(g, u)

(***************************************************************************)
(* One group per path, and the parent of every group exists.               *)
(***************************************************************************)
OneGroupPerPath == \A g, h \in live : pathOf[g] = pathOf[h] => g = h
ParentsExist    == \A g \in live : Len(pathOf[g]) > 1
                                   => GroupsAt(Parent(pathOf[g])) # {}
==============================================================================
