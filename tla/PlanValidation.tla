---------------------------- MODULE PlanValidation ----------------------------
(***************************************************************************)
(* internal/plan/plan.go: what makes a plan file fit for apply.            *)
(* Operations are records; the target of an operation is its path and,     *)
(* for membership operations, its user.  A piece of evidence that an       *)
(* operation does not carry is "" (<<>> for the path), and is not checked. *)
(***************************************************************************)
EXTENDS Naturals, Sequences

CONSTANT Irregular  \* the usernames with a '#' or a '/' in them

Memberships == {"member_add", "member_remove"}

Agrees(p, o) ==
    /\ o.evidence.realm \in {"", p.realm}
    /\ o.evidence.zone \in {"", p.zone}
    /\ o.evidence.path \in {<<>>, o.path}

ValidOperationAnyRisk(p, o) ==
    Agrees(p, o) /\ (o.action \in Memberships => o.user \notin Irregular)
ValidOperation(p, o) ==
    /\ Agrees(p, o)
    /\ o.action \in Memberships => o.user \notin Irregular
    /\ o.action = "group_delete" => o.risk = "requires_approval"

\* Format version, mode and authority are one header.
ValidPlan(p, expected) ==
    /\ p.header = "repair_keycloak"
    /\ p.realm = expected.realm
    /\ p.zone = expected.zone
    /\ \A i \in DOMAIN p.ops : ValidOperation(p, p.ops[i])
    /\ \A i, j \in DOMAIN p.ops : p.ops[i].id = p.ops[j].id => i = j
==============================================================================
