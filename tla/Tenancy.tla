------------------------------ MODULE Tenancy ------------------------------
(***************************************************************************)
(* Who a request is from (apps/api/src/tenancy, app.ts): the choice of the *)
(* store and of the membership lookup when the process starts, and the     *)
(* hook that resolves the tenant of each request over up to three awaits,  *)
(* while memberships change in the database underneath it.                 *)
(*                                                                         *)
(* Data kept: a user, the organization of a membership row, the kind of    *)
(* service key, the user and the role that the demo headers name.  Left    *)
(* out: tokens, workspaces, display names, the role of a membership row    *)
(* (no route reads it), and the self-check at the start: it pings the      *)
(* store once more and only logs what it finds.                            *)
(***************************************************************************)
EXTENDS FiniteSets

CONSTANTS
    Users,          \* user ids
    Tenants,        \* organizations
    Seed,           \* the demo owner, also the demo operator
    DemoRows,       \* the demo directory: the organization of each demo user
    Hooks,          \* requests that may be resolved at once
    NoOne           \* no user, no organization

ASSUME TenancyAssumption ==
    /\ Seed \in DOMAIN DemoRows /\ DOMAIN DemoRows \subseteq Users
    /\ \A u \in DOMAIN DemoRows : DemoRows[u] \in Tenants
    /\ NoOne \notin Users /\ NoOne \notin Tenants

VARIABLES
    env,            \* the configuration the process is started with
    store,          \* the store it runs on: "none" before it started
    rows,           \* the membership row of each user, or NoOne
    operators,      \* the active rows of platform_users
    hooks,          \* the requests being resolved or handled
    held            \* history: what a request's user held since it came in

tenancyVars == <<env, store, rows, operators, hooks, held>>

Keys == {"placeholder", "opaque", "jwt"}
HeaderRoles == {"admin", "jurist"}      \* what x-demo-role can come to
Free == [at |-> "free"]
Nothing == [orgs |-> {}, operator |-> FALSE]

TenancyTypeOK ==
    /\ env \in [key : Keys, allowDemo : BOOLEAN, demoAuth : BOOLEAN]
    /\ store \in {"none", "demo", "postgres", "refused"}
    /\ rows \in [Users -> Tenants \cup {NoOne}]
    /\ operators \subseteq Users
    /\ \A h \in Hooks :
        /\ hooks[h].at \in {"free", "jwt", "member", "operator", "handling"}
        /\ hooks[h].at \in {"operator", "handling"} => hooks[h].org \in Tenants
        /\ hooks[h].at = "handling" => hooks[h].actor \in Users /\ hooks[h].role \in HeaderRoles
    /\ held \in [Hooks -> [orgs : SUBSET Tenants, operator : BOOLEAN]]

TenancyInit ==
    /\ env \in [key : Keys, allowDemo : BOOLEAN, demoAuth : BOOLEAN]
    /\ store = "none"
    /\ rows \in [Users -> Tenants \cup {NoOne}]
    /\ operators \in SUBSET {Seed}
    /\ hooks = [h \in Hooks |-> Free]
    /\ held = [h \in Hooks |-> Nothing]

-----------------------------------------------------------------------------
\* createAppStore: without a service key only the demo store, with one
\* Postgres when it answers the probe in time; the demo store only where it is
\* allowed.
StoreChoice(answers) ==
    CASE env.key # "placeholder" /\ answers -> "postgres"
      [] env.allowDemo -> "demo"
      [] OTHER -> "refused"

\* createMembershipLookup asks Supabase only with a key that looks like a JWT.
Live == env.key = "jwt"

DemoRow(u) == IF u \in DOMAIN DemoRows THEN DemoRows[u] ELSE NoOne

\* buildApp: nothing is served before the store was chosen; what the
\* self-check then finds stops nothing.
Boot(answers) ==
    /\ store = "none"
    /\ store' = StoreChoice(answers)
    /\ UNCHANGED <<env, rows, operators, hooks, held>>

\* What the history of a request knows when it comes in for user u.
Holding(u) ==
    [orgs |-> IF u \in Users THEN {rows[u]} \ {NoOne} ELSE {},
     operator |-> u \in operators]

HookIs(h, state) == hooks' = [hooks EXCEPT ![h] = state]

\* The hook up to its first await, for a request with the bearer of some user
\* (NoOne for one that is not valid), or without bearer.  A bearer is used only
\* if the lookup can resolve it; demo headers choose the tenant only if demo
\* auth is on.  Either request may carry them: an actor (the demo owner where
\* the header is missing) and a role (admin where it is).
WithBearer(h, bearer, actor, role) ==
    /\ store \in {"demo", "postgres"} /\ hooks[h] = Free /\ Live
    /\ HookIs(h, [at |-> "jwt", user |-> bearer, mode |-> "jwt", actor |-> actor, role |-> role])
    /\ held' = [held EXCEPT ![h] = Holding(bearer)]
    /\ UNCHANGED <<env, store, rows, operators>>

WithHeaders(h, user, role) ==
    /\ store \in {"demo", "postgres"} /\ hooks[h] = Free /\ env.demoAuth
    /\ HookIs(h, [at |-> "member", user |-> user, mode |-> "demo", actor |-> user, role |-> role])
    /\ held' = [held EXCEPT ![h] = Holding(user)]
    /\ UNCHANGED <<env, store, rows, operators>>

\* resolveUserIdFromJwt: no user, or no answer, is a 401.
JwtAnswered(h, fails) ==
    /\ hooks[h].at = "jwt"
    /\ IF fails \/ hooks[h].user = NoOne
       THEN HookIs(h, Free)
       ELSE HookIs(h, [hooks[h] EXCEPT !.at = "member"])
    /\ UNCHANGED <<env, store, rows, operators, held>>

\* Mutant: a user without membership is a member of the demo organization.
SeedFallback(u, fails) ==
    IF Live /\ ~fails /\ rows[u] # NoOne THEN rows[u] ELSE DemoRows[Seed]

\* findMembershipByUserId: the row; without one, or without an answer, what the
\* demo directory says.
Membership(u, fails) ==
    IF Live /\ ~fails /\ rows[u] # NoOne THEN rows[u] ELSE DemoRow(u)

\* Mutant: no membership is not refused.
MemberUnchecked(h, fails) ==
    /\ hooks[h].at = "member"
    /\ HookIs(h, [at |-> "operator", user |-> hooks[h].user,
                  org |-> Membership(hooks[h].user, fails),
                  mode |-> hooks[h].mode, actor |-> hooks[h].actor, role |-> hooks[h].role])
    /\ UNCHANGED <<env, store, rows, operators, held>>

MemberAnswered(h, fails) ==
    LET org == Membership(hooks[h].user, fails) IN
    /\ hooks[h].at = "member"
    /\ IF org = NoOne
       THEN HookIs(h, Free)
       ELSE HookIs(h, [at |-> "operator", user |-> hooks[h].user, org |-> org,
                     mode |-> hooks[h].mode, actor |-> hooks[h].actor, role |-> hooks[h].role])
    /\ UNCHANGED <<env, store, rows, operators, held>>

\* isPlatformOperator: no row is no operator; the demo directory answers only
\* where the lookup fails or is not live.
IsOperator(u, fails) == IF Live /\ ~fails THEN u \in operators ELSE u = Seed

\* The tenant is on the request.  The handlers of members and of the chat take
\* the acting user and role from the demo headers all the same
\* (resolveDemoRequestContext), however the tenant was resolved.
OperatorAnswered(h, fails) ==
    /\ hooks[h].at = "operator"
    /\ HookIs(h, [at |-> "handling", user |-> hooks[h].user, org |-> hooks[h].org,
                mode |-> hooks[h].mode, actor |-> hooks[h].actor, role |-> hooks[h].role,
                operator |-> IsOperator(hooks[h].user, fails)])
    /\ UNCHANGED <<env, store, rows, operators, held>>

Responds(h) ==
    /\ hooks[h].at = "handling"
    /\ HookIs(h, Free)
    /\ held' = [held EXCEPT ![h] = Nothing]
    /\ UNCHANGED <<env, store, rows, operators>>

\* A membership row is written, moved or deleted in the database.
RowChanges(u, org) ==
    /\ rows[u] # org
    /\ rows' = [rows EXCEPT ![u] = org]
    /\ held' = [h \in Hooks |->
           IF hooks[h] # Free /\ hooks[h].user = u
           THEN [held[h] EXCEPT !.orgs = @ \cup ({org} \ {NoOne})] ELSE held[h]]
    /\ UNCHANGED <<env, store, operators, hooks>>

\* An operator is activated or deactivated.
OperatorChanges(u) ==
    /\ operators' = IF u \in operators THEN operators \ {u} ELSE operators \cup {u}
    /\ held' = [h \in Hooks |->
           IF hooks[h] # Free /\ hooks[h].user = u
           THEN [held[h] EXCEPT !.operator = TRUE] ELSE held[h]]
    /\ UNCHANGED <<env, store, rows, hooks>>

TenancyNext ==
    \/ \E answers \in BOOLEAN : Boot(answers)
    \/ \E h \in Hooks, u \in Users \cup {NoOne}, actor \in Users, role \in HeaderRoles :
           WithBearer(h, u, actor, role)
    \/ \E h \in Hooks, u \in Users, role \in HeaderRoles : WithHeaders(h, u, role)
    \/ \E h \in Hooks, fails \in BOOLEAN :
           JwtAnswered(h, fails) \/ MemberAnswered(h, fails) \/ OperatorAnswered(h, fails)
    \/ \E h \in Hooks : Responds(h)
    \/ \E u \in Users, org \in Tenants \cup {NoOne} : RowChanges(u, org)
    \/ \E u \in Users : OperatorChanges(u)

TenancySpec == TenancyInit /\ [][TenancyNext]_tenancyVars

-----------------------------------------------------------------------------
\* A handler runs for an organization its user was a member of at some moment
\* since the request came in, or for the one the demo directory names, whatever
\* changed or failed during the three awaits (resolve-tenant.ts:98-169); and
\* with an operator's rights only if the user had them then.
TenantHeld ==
    \A h \in Hooks :
        hooks[h].at = "handling" =>
            /\ \/ hooks[h].org \in held[h].orgs
               \/ hooks[h].org = DemoRow(hooks[h].user)
            /\ hooks[h].operator => held[h].operator \/ hooks[h].user = Seed

\* Demo headers choose no tenant where demo auth is off: every handler then
\* runs for the organization of a bearer that was valid (resolve-tenant.ts:133).
\* Whom it acts as is another matter: see ActorIsUser.
TenantFromBearer ==
    \A h \in Hooks :
        hooks[h].at = "handling" /\ ~env.demoAuth =>
            hooks[h].mode = "jwt" /\ Live /\ hooks[h].user \in Users

\* A request is confined to a tenant its user holds, in the name of a bearer
\* unless this is a demo.
RequestsConfined == TenantHeld /\ TenantFromBearer

\* What resolve-tenant.ts:82 says of the demo headers, that they are an identity
\* only where demo auth is on: elsewhere a handler acts as the user it was
\* resolved for.  It does not hold: the members' and the chat's handlers take
\* the acting user and role from the headers on every request.
ActorIsUser ==
    \A h \in Hooks :
        hooks[h].at = "handling" /\ ~env.demoAuth => hooks[h].actor = hooks[h].user
=============================================================================
