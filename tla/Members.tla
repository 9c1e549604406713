-------------------------------- MODULE Members --------------------------------
(***************************************************************************)
(* The members of one organization in the OrgBillingChatStore: creation,   *)
(* role change and removal, guarded by assertRoleMutationAllowed.  The     *)
(* handlers run from request to response without an await, so each is one  *)
(* step.  The actor's role and user id come with the request: the          *)
(* organization's own routes pass admin or jurist, the platform's routes   *)
(* always pass owner and the id of an operator.                            *)
(***************************************************************************)
EXTENDS Integers, FiniteSets

CONSTANTS
    Member,     \* member ids; one is a member while it has a role, and may be given out
                \* again once free, which only adds to the histories of createId's fresh ids
    Founder,    \* the owner the organization was created with
    FirstJurist,\* the jurist it was created with
    Outsider,   \* a user id that is no member's, such as a platform operator's
    NoRole      \* not a member

Roles      == {"owner", "admin", "jurist"}
ActorRoles == {"owner", "admin", "jurist"}
\* Mutant: the role of before the product roles is still accepted.
LegacyRoles == {"admin", "jurist", "member"}
NextRoles  == {"admin", "jurist"}       \* memberRoleSchema

ASSUME MembersAssumption ==
    /\ IsFiniteSet(Member)
    /\ {Founder, FirstJurist} \subseteq Member /\ Founder # FirstJurist
    /\ Outsider \notin Member
    /\ NoRole \notin Roles

VARIABLE role   \* role[m], NoRole for an id that is not a member

MembersInit == role = [m \in Member |-> IF m = Founder THEN "owner"
                                 ELSE IF m = FirstJurist THEN "jurist" ELSE NoRole]

IsAdminRole(r) == r \in {"owner", "admin"}
Admins         == {m \in Member : IsAdminRole(role[m])}
LastAdmin      == Cardinality(Admins) <= 1

\* assertRoleMutationAllowed for a removal: nextRole is undefined.
RemovalAllowed(actorRole, target, isSelf) ==
    /\ IsAdminRole(actorRole)
    /\ target = "owner" => isSelf
    /\ IsAdminRole(target) => ~LastAdmin

\* Mutant: whoever manages members may demote the owner.
OwnerChangeAllowed(actorRole, target, next) ==
    /\ IsAdminRole(actorRole)
    /\ IsAdminRole(target) /\ ~IsAdminRole(next) => ~LastAdmin

\* Mutant: the guard on the last admin is there for removals only.
UncountedChangeAllowed(actorRole, target, next) ==
    /\ IsAdminRole(actorRole)
    /\ target = "owner" => next = "owner"

\* The same for a role change; creation asks it with target "jurist".
ChangeAllowed(actorRole, target, next) ==
    /\ IsAdminRole(actorRole)
    /\ target = "owner" => next = "owner"
    /\ IsAdminRole(target) /\ ~IsAdminRole(next) => ~LastAdmin

CreateMember(m, next, actorRole) ==
    /\ role[m] = NoRole
    /\ ChangeAllowed(actorRole, "jurist", next)
    /\ role' = [role EXCEPT ![m] = next]

UpdateMember(m, next, actorRole) ==
    /\ role[m] # NoRole
    /\ ChangeAllowed(actorRole, role[m], next)
    /\ role' = [role EXCEPT ![m] = next]

RemoveMember(m, actorRole, actor) ==
    /\ role[m] # NoRole
    /\ RemovalAllowed(actorRole, role[m], m = actor)
    /\ role' = [role EXCEPT ![m] = NoRole]

MembersNext ==
    \E m \in Member, actorRole \in ActorRoles :
        \/ \E next \in NextRoles : CreateMember(m, next, actorRole)
        \/ \E next \in NextRoles : UpdateMember(m, next, actorRole)
        \/ \E actor \in Member \cup {Outsider} : RemoveMember(m, actorRole, actor)

MembersSpec == MembersInit /\ [][MembersNext]_role

-------------------------------------------------------------------------------
\* Every id has one of the roles members have, or none.
MembersTypeOK == role \in [Member -> Roles \cup {NoRole}]

\* Through every order of creations, promotions, demotions and removals the
\* organization keeps a member who may manage it (org-store.ts, roles.ts).
AdminRemains == \E m \in Member : IsAdminRole(role[m])

\* The owner is nobody's to change: who stops being owner leaves the organization
\* altogether, at a moment when another administrator is there, and nobody else
\* ever becomes owner.
OwnerLeavesOnly ==
    [][\A m \in Member :
        /\ role[m] = "owner" => role'[m] \in {"owner", NoRole}
        /\ role[m] = "owner" /\ role'[m] = NoRole => \E n \in Member \ {m} : IsAdminRole(role'[n])
        /\ role'[m] = "owner" => role[m] = "owner"]_role
===============================================================================
