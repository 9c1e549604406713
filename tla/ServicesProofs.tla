---------------------------- MODULE ServicesProofs ----------------------------
(***************************************************************************)
(* The services around the pipelines, each for every value of its          *)
(* constants and on its own: who a request is from (Tenancy), the token    *)
(* the register client shares (AccessToken), the budget its assessments    *)
(* spend (AiAssessment), the cursor its delta loop keeps                   *)
(* (RegisterConnectors), the account the cockpit gives of what its         *)
(* operators did (RegisterCockpit), the weights a score is made with       *)
(* (WeightProfiles), the rules that give advice (RiskRules) and the last   *)
(* day to oppose (OppositionWindow).  The eight share no variable, so each *)
(* section proves a specification of its own.                              *)
(***************************************************************************)
EXTENDS AiAssessment, AccessToken, RegisterConnectors, RegisterCockpit, Tenancy,
        WeightProfiles, RiskRules, OppositionWindow, FiniteSetTheorems, WellFoundedInduction, TLAPS

--------------------------------------------------------------------------------
(***************************************************************************)
(* Tenancy.  TenantHeld says something of handlers only; the invariant     *)
(* says of every request under way that its history knows what its user    *)
(* holds now, so that what a later await reads is in the history too.      *)
(***************************************************************************)

Envs == [key : Keys, allowDemo : BOOLEAN, demoAuth : BOOLEAN]

\* The states of a request in the hook, with what each may rely on.
Asked(s)    == /\ s \in [at : {"jwt"}, user : Users \cup {NoOne}, mode : {"jwt"},
                         actor : Users, role : HeaderRoles]
               /\ Live
ByRight(s)  == \/ s.mode = "jwt" /\ Live
               \/ s.mode = "demo" /\ env.demoAuth
Known(s)    == /\ s \in [at : {"member"}, user : Users, mode : {"jwt", "demo"},
                         actor : Users, role : HeaderRoles]
               /\ ByRight(s)
Placed(s)   == /\ s \in [at : {"operator"}, user : Users, org : Tenants,
                         mode : {"jwt", "demo"}, actor : Users, role : HeaderRoles]
               /\ ByRight(s)
Handled(s)  == /\ s \in [at : {"handling"}, user : Users, org : Tenants,
                         mode : {"jwt", "demo"}, actor : Users, role : HeaderRoles,
                         operator : BOOLEAN]
               /\ ByRight(s)
HookOK(s)   == s = Free \/ Asked(s) \/ Known(s) \/ Placed(s) \/ Handled(s)

\* The history of a request holds what its user holds.
Covered(s, past) ==
    s # Free /\ s.user \in Users =>
        /\ rows[s.user] \in past.orgs \cup {NoOne}
        /\ s.user \in operators => past.operator

\* What was read at an await is in the history, or is what the demo directory says.
Grounded(s, past) ==
    /\ s.at \in {"operator", "handling"} => s.org \in past.orgs \/ s.org = DemoRow(s.user)
    /\ s.at = "handling" /\ s.operator => past.operator \/ s.user = Seed

Base ==
    /\ env \in Envs
    /\ store \in {"none", "demo", "postgres", "refused"}
    /\ rows \in [Users -> Tenants \cup {NoOne}]
    /\ operators \subseteq Users
    /\ hooks = [h \in Hooks |-> hooks[h]]
    /\ held \in [Hooks -> [orgs : SUBSET Tenants, operator : BOOLEAN]]

EachHook ==
    \A h \in Hooks :
        HookOK(hooks[h]) /\ Covered(hooks[h], held[h]) /\ Grounded(hooks[h], held[h])

HInv == Base /\ EachHook

-------------------------------------------------------------------------------
LEMMA SeedIsUser == Seed \in Users
  BY TenancyAssumption

LEMMA DemoRowTyped == ASSUME NEW u PROVE DemoRow(u) \in Tenants \cup {NoOne}
  BY TenancyAssumption DEF DemoRow

\* What findMembershipByUserId answers is a membership row or the demo directory's.
LEMMA MembershipFrom ==
    ASSUME NEW u \in Users, NEW fails \in BOOLEAN,
           rows \in [Users -> Tenants \cup {NoOne}]
    PROVE  /\ Membership(u, fails) \in Tenants \cup {NoOne}
           /\ Membership(u, fails) = rows[u] \/ Membership(u, fails) = DemoRow(u)
  BY DemoRowTyped DEF Membership

LEMMA TenancyInitInv == TenancyInit => HInv
<1> SUFFICES ASSUME TenancyInit PROVE HInv
  OBVIOUS
<1>1. Base
  BY SeedIsUser DEF TenancyInit, Base, Envs, Nothing
<1>2. EachHook
  BY DEF TenancyInit, EachHook, HookOK, Covered, Grounded, Free
<1> QED
  BY <1>1, <1>2 DEF HInv
\* A step of one request, which keeps or replaces its history, concerns no other request.
LEMMA OneHookMoves ==
    ASSUME HInv, NEW h \in Hooks, NEW s,
           NEW past \in [orgs : SUBSET Tenants, operator : BOOLEAN],
           HookIs(h, s), held' = [held EXCEPT ![h] = past],
           UNCHANGED <<env, store, rows, operators>>,
           HookOK(s), Covered(s, past), Grounded(s, past)
    PROVE  HInv'
<1>1. Base'
  BY DEF HInv, Base, HookIs
<1>2. ASSUME NEW g \in Hooks
      PROVE  (HookOK(hooks[g]) /\ Covered(hooks[g], held[g]) /\ Grounded(hooks[g], held[g]))'
  <2>1. CASE g = h
    <3>1. hooks'[g] = s /\ held'[g] = past
      BY <2>1 DEF HInv, Base, HookIs
    <3> QED
      BY <3>1 DEF HookOK, Asked, Known, Placed, Handled, ByRight, Live, Covered, Grounded
  <2>2. CASE g # h
    <3>1. hooks'[g] = hooks[g] /\ held'[g] = held[g]
      BY <2>2 DEF HInv, Base, HookIs
    <3>2. HookOK(hooks[g]) /\ Covered(hooks[g], held[g]) /\ Grounded(hooks[g], held[g])
      BY DEF HInv, EachHook
    <3> QED
      BY <3>1, <3>2 DEF HookOK, Asked, Known, Placed, Handled, ByRight, Live, Covered, Grounded
  <2> QED
    BY <2>1, <2>2
<1>3. EachHook'
  BY <1>2 DEF EachHook
<1> QED
  BY <1>1, <1>3 DEF HInv

\* What a request starts with covers what its user holds.
LEMMA HoldingCovers ==
    ASSUME HInv, NEW u \in Users \cup {NoOne}
    PROVE  /\ Holding(u) \in [orgs : SUBSET Tenants, operator : BOOLEAN]
           /\ u \in Users => rows[u] \in Holding(u).orgs \cup {NoOne}
           /\ u \in operators => Holding(u).operator
<1> DEFINE orgs == IF u \in Users THEN {rows[u]} \ {NoOne} ELSE {}
           operator == u \in operators
<1>1. orgs \in SUBSET Tenants /\ (u \in Users => rows[u] \in orgs \cup {NoOne})
  BY DEF HInv, Base
<1>2. operator \in BOOLEAN /\ (u \in operators => operator)
  OBVIOUS
<1>3. Holding(u) = [orgs |-> orgs, operator |-> operator]
  BY DEF Holding
<1> HIDE DEF orgs, operator
<1> QED
  BY <1>1, <1>2, <1>3

\* A request that goes on with what it knew keeps its history.
LEMMA HookGoesOn ==
    ASSUME HInv, NEW h \in Hooks, NEW s,
           HookIs(h, s), UNCHANGED <<env, store, rows, operators, held>>,
           HookOK(s), Covered(s, held[h]), Grounded(s, held[h])
    PROVE  HInv'
<1>1. held[h] \in [orgs : SUBSET Tenants, operator : BOOLEAN]
  BY DEF HInv, Base
<1>2. held' = [held EXCEPT ![h] = held[h]]
  BY DEF HInv, Base
<1> QED
  BY <1>1, <1>2, OneHookMoves

LEMMA FreeIsFine == ASSUME NEW past PROVE HookOK(Free) /\ Covered(Free, past) /\ Grounded(Free, past)
  BY DEF HookOK, Covered, Grounded, Free

LEMMA HookState ==
    ASSUME HInv, NEW h \in Hooks
    PROVE  /\ HookOK(hooks[h]) /\ Covered(hooks[h], held[h]) /\ Grounded(hooks[h], held[h])
           /\ hooks[h].at = "jwt" => Asked(hooks[h])
           /\ hooks[h].at = "member" => Known(hooks[h])
           /\ hooks[h].at = "operator" => Placed(hooks[h])
           /\ hooks[h].at = "handling" => Handled(hooks[h])
  BY DEF HInv, EachHook, HookOK, Asked, Known, Placed, Handled, Free

-------------------------------------------------------------------------------
LEMMA BootInv == ASSUME HInv, NEW answers \in BOOLEAN, Boot(answers) PROVE HInv'
<1>1. Base'
  BY DEF HInv, Base, Boot, StoreChoice
<1>2. EachHook'
  BY DEF HInv, EachHook, Boot, HookOK, Asked, Known, Placed, Handled, ByRight, Live, Covered, Grounded
<1> QED
  BY <1>1, <1>2 DEF HInv

LEMMA WithBearerInv ==
    ASSUME HInv, NEW h \in Hooks, NEW u \in Users \cup {NoOne}, NEW actor \in Users,
           NEW role \in HeaderRoles, WithBearer(h, u, actor, role)
    PROVE  HInv'
<1> DEFINE s == [at |-> "jwt", user |-> u, mode |-> "jwt", actor |-> actor, role |-> role]
<1>1. HookOK(s)
  BY DEF HookOK, Asked, WithBearer
<1>2. Covered(s, Holding(u)) /\ Grounded(s, Holding(u))
  BY HoldingCovers DEF Covered, Grounded
<1> QED
  BY <1>1, <1>2, HoldingCovers, OneHookMoves DEF WithBearer

LEMMA WithHeadersInv ==
    ASSUME HInv, NEW h \in Hooks, NEW u \in Users, NEW role \in HeaderRoles,
           WithHeaders(h, u, role)
    PROVE  HInv'
<1> DEFINE s == [at |-> "member", user |-> u, mode |-> "demo", actor |-> u, role |-> role]
<1>1. HookOK(s)
  BY DEF HookOK, Known, ByRight, WithHeaders
<1>2. Covered(s, Holding(u)) /\ Grounded(s, Holding(u))
  BY HoldingCovers DEF Covered, Grounded
<1> QED
  BY <1>1, <1>2, HoldingCovers, OneHookMoves DEF WithHeaders

LEMMA JwtAnsweredInv ==
    ASSUME HInv, NEW h \in Hooks, NEW fails \in BOOLEAN, JwtAnswered(h, fails) PROVE HInv'
<1>1. CASE HookIs(h, Free)
  BY <1>1, FreeIsFine, HookGoesOn DEF JwtAnswered
<1>2. CASE hooks[h].user # NoOne /\ HookIs(h, [hooks[h] EXCEPT !.at = "member"])
  <2> DEFINE s == [hooks[h] EXCEPT !.at = "member"]
  <2>1. Asked(hooks[h]) /\ Covered(hooks[h], held[h])
    BY HookState DEF JwtAnswered
  <2>2. /\ s \in [at : {"member"}, user : Users, mode : {"jwt", "demo"},
                   actor : Users, role : HeaderRoles]
        /\ s.mode = "jwt" /\ s.at = "member" /\ s.user = hooks[h].user /\ hooks[h] # Free
    BY <1>2, <2>1 DEF Asked, Free
  <2> HIDE DEF s
  <2>3. HookOK(s)
    BY <2>1, <2>2 DEF HookOK, Known, ByRight, Asked
  <2>4. Covered(s, held[h]) /\ Grounded(s, held[h])
    BY <2>1, <2>2 DEF Covered, Grounded
  <2>5. HookIs(h, s)
    BY <1>2 DEF s
  <2> QED
    BY <2>3, <2>4, <2>5, HookGoesOn DEF JwtAnswered
<1> QED
  BY <1>1, <1>2 DEF JwtAnswered

LEMMA MemberAnsweredInv ==
    ASSUME HInv, NEW h \in Hooks, NEW fails \in BOOLEAN, MemberAnswered(h, fails) PROVE HInv'
<1> DEFINE org == Membership(hooks[h].user, fails)
           s == [at |-> "operator", user |-> hooks[h].user, org |-> org,
                 mode |-> hooks[h].mode, actor |-> hooks[h].actor, role |-> hooks[h].role]
<1>1. CASE HookIs(h, Free)
  BY <1>1, FreeIsFine, HookGoesOn DEF MemberAnswered
<1>2. CASE org # NoOne /\ HookIs(h, s)
  <2>1. Known(hooks[h]) /\ Covered(hooks[h], held[h])
    BY HookState DEF MemberAnswered
  <2>2. /\ hooks[h].user \in Users /\ hooks[h].mode \in {"jwt", "demo"}
        /\ hooks[h].actor \in Users /\ hooks[h].role \in HeaderRoles
        /\ hooks[h] # Free /\ ByRight(hooks[h])
    BY <2>1 DEF Known, Free
  <2>3. /\ org \in Tenants \cup {NoOne}
        /\ org = rows[hooks[h].user] \/ org = DemoRow(hooks[h].user)
    BY <2>2, MembershipFrom DEF HInv, Base
  <2> HIDE DEF org
  <2>4. s \in [at : {"operator"}, user : Users, org : Tenants, mode : {"jwt", "demo"},
                actor : Users, role : HeaderRoles]
    BY <1>2, <2>2, <2>3
  <2>5. /\ s.at = "operator" /\ s.user = hooks[h].user /\ s.org = org
        /\ s.mode = hooks[h].mode
    OBVIOUS
  <2> HIDE DEF s
  <2>6. HookOK(s)
    BY <2>2, <2>4, <2>5 DEF HookOK, Placed, ByRight
  <2>7. Covered(s, held[h])
    BY <2>1, <2>2, <2>5 DEF Covered
  <2>8. Grounded(s, held[h])
    BY <1>2, <2>1, <2>2, <2>3, <2>5 DEF Covered, Grounded
  <2> QED
    BY <1>2, <2>6, <2>7, <2>8, HookGoesOn DEF MemberAnswered
<1> QED
  BY <1>1, <1>2 DEF MemberAnswered

LEMMA OperatorAnsweredInv ==
    ASSUME HInv, NEW h \in Hooks, NEW fails \in BOOLEAN, OperatorAnswered(h, fails) PROVE HInv'
<1> DEFINE op == IsOperator(hooks[h].user, fails)
           s == [at |-> "handling", user |-> hooks[h].user, org |-> hooks[h].org,
                 mode |-> hooks[h].mode, actor |-> hooks[h].actor, role |-> hooks[h].role,
                 operator |-> op]
<1>1. Placed(hooks[h]) /\ Covered(hooks[h], held[h]) /\ Grounded(hooks[h], held[h])
  BY HookState DEF OperatorAnswered
<1>2. /\ hooks[h].user \in Users /\ hooks[h].org \in Tenants /\ hooks[h].mode \in {"jwt", "demo"}
      /\ hooks[h].actor \in Users /\ hooks[h].role \in HeaderRoles /\ hooks[h] # Free /\ ByRight(hooks[h])
      /\ hooks[h].at = "operator"
  BY <1>1 DEF Placed, Free
<1>3. op \in BOOLEAN /\ (op => hooks[h].user \in operators \/ hooks[h].user = Seed)
  <2>1. CASE Live /\ ~fails
    <3>1. op <=> hooks[h].user \in operators
      BY <2>1, Zenon DEF IsOperator
    <3>2. op \in BOOLEAN
      BY <2>1 DEF IsOperator
    <3> QED
      BY <3>1, <3>2
  <2>2. CASE ~(Live /\ ~fails)
    <3>1. op <=> hooks[h].user = Seed
      BY <2>2, Zenon DEF IsOperator
    <3>2. op \in BOOLEAN
      BY <2>2, Zenon DEF IsOperator
    <3> QED
      BY <3>1, <3>2
  <2> QED
    BY <2>1, <2>2
<1>4. HookIs(h, s)
  BY DEF OperatorAnswered
<1> HIDE DEF op
<1>5. s \in [at : {"handling"}, user : Users, org : Tenants, mode : {"jwt", "demo"},
              actor : Users, role : HeaderRoles, operator : BOOLEAN]
  BY <1>2, <1>3
<1>6. /\ s.at = "handling" /\ s.user = hooks[h].user /\ s.org = hooks[h].org
      /\ s.mode = hooks[h].mode /\ s.operator = op
  OBVIOUS
<1> HIDE DEF s
<1>7. HookOK(s)
  BY <1>2, <1>5, <1>6 DEF HookOK, Handled, ByRight
<1>8. Covered(s, held[h])
  BY <1>1, <1>2, <1>6 DEF Covered
<1>9. Grounded(s, held[h])
  BY <1>1, <1>2, <1>3, <1>6 DEF Covered, Grounded
<1> QED
  BY <1>4, <1>7, <1>8, <1>9, HookGoesOn DEF OperatorAnswered

LEMMA RespondsInv == ASSUME HInv, NEW h \in Hooks, Responds(h) PROVE HInv'
<1>1. Nothing \in [orgs : SUBSET Tenants, operator : BOOLEAN]
  BY DEF Nothing
<1> QED
  BY <1>1, FreeIsFine, OneHookMoves DEF Responds

\* The database changes underneath: every history of the user's requests hears of it.
LEMMA RowChangesInv ==
    ASSUME HInv, NEW u \in Users, NEW org \in Tenants \cup {NoOne}, RowChanges(u, org) PROVE HInv'
<1>1. ASSUME NEW g \in Hooks
      PROVE  /\ held'[g] \in [orgs : SUBSET Tenants, operator : BOOLEAN]
             /\ held[g].orgs \subseteq held'[g].orgs /\ held'[g].operator = held[g].operator
             /\ hooks[g] # Free /\ hooks[g].user = u => org \in held'[g].orgs \cup {NoOne}
  BY DEF HInv, Base, RowChanges
<1>2. Base'
  BY <1>1 DEF HInv, Base, RowChanges
<1>3. ASSUME NEW g \in Hooks
      PROVE  (HookOK(hooks[g]) /\ Covered(hooks[g], held[g]) /\ Grounded(hooks[g], held[g]))'
  <2>1. HookOK(hooks[g]) /\ Covered(hooks[g], held[g]) /\ Grounded(hooks[g], held[g])
    BY HookState
  <2>2. HookOK(hooks[g])'
    BY <2>1 DEF RowChanges, HookOK, Asked, Known, Placed, Handled, ByRight, Live
  <2>3. Grounded(hooks[g], held[g])'
    BY <1>1, <2>1 DEF RowChanges, Grounded
  <2>4. Covered(hooks[g], held[g])'
    BY <1>1, <2>1 DEF RowChanges, Covered, HInv, Base
  <2> QED
    BY <2>2, <2>3, <2>4
<1>4. EachHook'
  BY <1>3 DEF EachHook
<1> QED
  BY <1>2, <1>4 DEF HInv

LEMMA OperatorChangesInv == ASSUME HInv, NEW u \in Users, OperatorChanges(u) PROVE HInv'
<1>1. ASSUME NEW g \in Hooks
      PROVE  /\ held'[g] \in [orgs : SUBSET Tenants, operator : BOOLEAN]
             /\ held'[g].orgs = held[g].orgs /\ (held[g].operator => held'[g].operator)
             /\ hooks[g] # Free /\ hooks[g].user = u => held'[g].operator
  BY DEF HInv, Base, OperatorChanges
<1>2. Base'
  BY <1>1 DEF HInv, Base, OperatorChanges
<1>3. ASSUME NEW g \in Hooks
      PROVE  (HookOK(hooks[g]) /\ Covered(hooks[g], held[g]) /\ Grounded(hooks[g], held[g]))'
  <2>1. HookOK(hooks[g]) /\ Covered(hooks[g], held[g]) /\ Grounded(hooks[g], held[g])
    BY HookState
  <2>2. HookOK(hooks[g])'
    BY <2>1 DEF OperatorChanges, HookOK, Asked, Known, Placed, Handled, ByRight, Live
  <2>3. Grounded(hooks[g], held[g])'
    BY <1>1, <2>1 DEF OperatorChanges, Grounded
  <2>4. Covered(hooks[g], held[g])'
    BY <1>1, <2>1 DEF OperatorChanges, Covered
  <2> QED
    BY <2>2, <2>3, <2>4
<1>4. EachHook'
  BY <1>3 DEF EachHook
<1> QED
  BY <1>2, <1>4 DEF HInv

-------------------------------------------------------------------------------
LEMMA TenancyStepInv == HInv /\ [TenancyNext]_tenancyVars => HInv'
<1> SUFFICES ASSUME HInv, [TenancyNext]_tenancyVars PROVE HInv'
  OBVIOUS
<1>1. CASE UNCHANGED tenancyVars
  <2>1. Base'
    BY <1>1 DEF HInv, Base, tenancyVars
  <2>2. EachHook'
    BY <1>1 DEF HInv, EachHook, HookOK, Asked, Known, Placed, Handled, ByRight, Live, Covered,
                Grounded, tenancyVars
  <2> QED
    BY <2>1, <2>2 DEF HInv
<1>2. CASE TenancyNext
  BY <1>2, BootInv, WithBearerInv, WithHeadersInv, JwtAnsweredInv, MemberAnsweredInv,
     OperatorAnsweredInv, RespondsInv, RowChangesInv, OperatorChangesInv DEF TenancyNext
<1> QED
  BY <1>1, <1>2

LEMMA TenancyInvariant == TenancySpec => []HInv
  BY TenancyInitInv, TenancyStepInv, PTL DEF TenancySpec

\* The state keeps its type: no request is handled for an organization that is none.
THEOREM TenancyTyped == TenancySpec => []TenancyTypeOK
<1>1. HInv => TenancyTypeOK
  <2> SUFFICES ASSUME HInv PROVE TenancyTypeOK
    OBVIOUS
  <2>1. ASSUME NEW h \in Hooks
        PROVE  /\ hooks[h].at \in {"free", "jwt", "member", "operator", "handling"}
               /\ hooks[h].at \in {"operator", "handling"} => hooks[h].org \in Tenants
               /\ hooks[h].at = "handling" =>
                      hooks[h].actor \in Users /\ hooks[h].role \in HeaderRoles
    BY HookState DEF HookOK, Asked, Known, Placed, Handled, Free
  <2> QED
    BY <2>1 DEF HInv, Base, Envs, TenancyTypeOK
<1> QED
  BY <1>1, TenancyInvariant, PTL

\* Whatever changes or fails during a request's awaits, it is handled for an organization its
\* user was a member of since it came in, or the one of the demo directory.
THEOREM TenantIsHeld == TenancySpec => []TenantHeld
<1>1. HInv => TenantHeld
  BY HookState DEF TenantHeld, Grounded
<1> QED
  BY <1>1, TenancyInvariant, PTL

\* Where demo auth is off, every handler runs for the organization of a bearer's user.
THEOREM TenantIsBearers == TenancySpec => []TenantFromBearer
<1>1. HInv => TenantFromBearer
  BY HookState DEF TenantFromBearer, Handled, ByRight
<1> QED
  BY <1>1, TenancyInvariant, PTL

\* Both: whom a handler runs for is never the choice of a header outside a demo, and never an
\* organization the user did not hold.
THEOREM RequestsAreConfined == TenancySpec => []RequestsConfined
<1> QED
  BY TenantIsHeld, TenantIsBearers, PTL DEF RequestsConfined

--------------------------------------------------------------------------------
(***************************************************************************)
(* AccessToken.  The cache keeps a token for less than it lives, but the   *)
(* client counts from when it arrived: the invariant bounds how long a     *)
(* cached token is used after it died by how long its request took.        *)
(***************************************************************************)

Tokens == [until : Nat, dies : Nat, life : Nat, took : Nat]

\* A token is used until its request overran the margin, or no longer at all.
Usable(token, now) == token.until <= now \/ token.until + Margin <= token.dies + token.took

\* What BearerAlive says of one call.
SentWell(s) ==
    s.at = "get" /\ s.dies <= s.sent => s.life <= s.took \/ s.sent + Margin < s.dies + s.took

TokenInv ==
    /\ TokenTypeOK
    /\ Usable(cachedToken, second)
    /\ \A c \in Fetchers : fetching[c].at = "token" => fetching[c].asked <= second
    /\ \A c \in Fetchers : SentWell(fetching[c])

LEMMA FetchStates ==
    ASSUME TokenTypeOK, NEW c \in Fetchers
    PROVE  /\ fetching[c].at \in {"idle", "token", "get"}
           /\ fetching[c].at = "token" => fetching[c].asked \in Nat
<1>1. fetching[c] \in FetchState
  BY DEF TokenTypeOK
<1>. QED
  BY <1>1 DEF FetchState, NotFetching

\* One call moves to another state, and the clock stays.
LEMMA FetcherMoves ==
    ASSUME TokenInv, NEW c \in Fetchers, NEW s \in FetchState,
           fetching' = [fetching EXCEPT ![c] = s],
           s.at = "token" => s.asked = second, SentWell(s),
           second' = second, cachedToken' \in Tokens, Usable(cachedToken', second)
    PROVE  TokenInv'
<1>1. TokenTypeOK'
  BY DEF TokenInv, TokenTypeOK, Tokens
<1>2. \A d \in Fetchers : fetching'[d] = IF d = c THEN s ELSE fetching[d]
  BY DEF TokenInv, TokenTypeOK
<1>3. second \in Nat
  BY DEF TokenInv, TokenTypeOK
<1>4. (\A d \in Fetchers : fetching[d].at = "token" => fetching[d].asked <= second)'
  BY <1>2, <1>3 DEF TokenInv
<1>5. (\A d \in Fetchers : SentWell(fetching[d]))'
  BY <1>2 DEF TokenInv, SentWell
<1>6. Usable(cachedToken, second)'
  BY DEF Usable
<1>. QED
  BY <1>1, <1>4, <1>5, <1>6 DEF TokenInv

\* The call that brings the token sends it at once, and the cache keeps it until its margin.
LEMMA TokenArrivesKeeps ==
    ASSUME TokenInv, NEW c \in Fetchers, NEW lifetime \in Lifetimes, TokenArrives(c, lifetime)
    PROVE  TokenInv'
<1>. DEFINE asked == fetching[c].asked
            took == second - asked
            token == [until |-> UsedUntil(lifetime), dies |-> asked + lifetime,
                      life |-> lifetime, took |-> took]
            s == [at |-> "get", sent |-> second, dies |-> asked + lifetime,
                  life |-> lifetime, took |-> took]
<1>1. /\ asked \in Nat /\ lifetime \in Nat /\ second \in Nat /\ Margin \in Nat
      /\ asked <= second
  BY TokenAssumption, FetchStates DEF TokenInv, TokenTypeOK, TokenArrives
<1>2. took \in Nat /\ asked + took = second
  BY <1>1
<1>3. UsedUntil(lifetime) \in Nat
      /\ (UsedUntil(lifetime) <= second \/ UsedUntil(lifetime) + Margin = second + lifetime)
  BY <1>1 DEF UsedUntil
<1>4. cachedToken' = token /\ fetching' = [fetching EXCEPT ![c] = s] /\ second' = second
  BY DEF TokenArrives, Send
<1>. HIDE DEF took, asked
<1>5. token \in Tokens /\ Usable(token, second)
  BY <1>1, <1>2, <1>3 DEF Tokens, Usable
<1>6. s \in FetchState /\ s.at = "get"
  BY <1>1, <1>2 DEF FetchState
<1>7. SentWell(s)
  BY <1>1, <1>2 DEF SentWell
<1>. HIDE DEF s, token
<1>. QED
  BY <1>4, <1>5, <1>6, <1>7, FetcherMoves

LEMMA TokenNextInv == TokenInv /\ [TokenNext]_tokenVars => TokenInv'
<1>. SUFFICES ASSUME TokenInv, [TokenNext]_tokenVars PROVE TokenInv'
  OBVIOUS
<1>0. /\ second \in Nat /\ Margin \in Nat /\ cachedToken \in Tokens /\ NotFetching \in FetchState
      /\ NotFetching.at = "idle" /\ SentWell(NotFetching)
  BY TokenAssumption DEF TokenInv, TokenTypeOK, FetchState, NotFetching, Tokens, SentWell
<1>1. CASE UNCHANGED tokenVars
  BY <1>1 DEF TokenInv, TokenTypeOK, SentWell, Usable, tokenVars
<1>2. ASSUME NEW c \in Fetchers, UseCached(c) PROVE TokenInv'
  <2>. DEFINE s == [at |-> "get", sent |-> second, dies |-> cachedToken.dies,
                    life |-> cachedToken.life, took |-> cachedToken.took]
  <2>1. s \in FetchState /\ s.at = "get"
    BY <1>0 DEF FetchState, Tokens
  <2>3. SentWell(s)
    BY <1>0, <1>2 DEF TokenInv, UseCached, Usable, SentWell, Tokens
  <2>2. fetching' = [fetching EXCEPT ![c] = s] /\ UNCHANGED <<second, cachedToken>>
    BY <1>2 DEF UseCached, Send
  <2>. HIDE DEF s
  <2>. QED
    BY <1>0, <2>1, <2>2, <2>3, FetcherMoves DEF TokenInv
<1>3. ASSUME NEW c \in Fetchers, AskToken(c) PROVE TokenInv'
  <2>. DEFINE s == [at |-> "token", asked |-> second]
  <2>1. s \in FetchState /\ s.at = "token" /\ s.asked = second /\ SentWell(s)
    BY <1>0 DEF FetchState, SentWell
  <2>2. fetching' = [fetching EXCEPT ![c] = s] /\ UNCHANGED <<second, cachedToken>>
    BY <1>3 DEF AskToken
  <2>. HIDE DEF s
  <2>. QED
    BY <1>0, <2>1, <2>2, FetcherMoves DEF TokenInv
<1>4. ASSUME NEW c \in Fetchers, NEW lifetime \in Lifetimes, TokenArrives(c, lifetime) PROVE TokenInv'
  BY <1>4, TokenArrivesKeeps
<1>5. ASSUME NEW c \in Fetchers, TokenRefused(c) \/ Answered(c) PROVE TokenInv'
  <2>1. fetching' = [fetching EXCEPT ![c] = NotFetching] /\ UNCHANGED <<second, cachedToken>>
    BY <1>5 DEF TokenRefused, Answered
  <2>. QED
    BY <1>0, <2>1, FetcherMoves DEF TokenInv
<1>6. CASE SecondPasses
  <2>1. \A c \in Fetchers : fetching[c].at = "token" => fetching[c].asked \in Nat
    BY FetchStates DEF TokenInv
  <2>. QED
    BY <1>0, <1>6, <2>1 DEF SecondPasses, TokenInv, TokenTypeOK, SentWell, Usable, Tokens
<1>. QED
  BY <1>1, <1>2, <1>3, <1>4, <1>5, <1>6 DEF TokenNext

LEMMA TokenInvariant == TokenSpec => []TokenInv
<1>1. TokenInit => TokenInv
  BY DEF TokenInit, TokenInv, TokenTypeOK, SentWell, Usable, NoToken, FetchState, NotFetching
<1>. QED
  BY <1>1, TokenNextInv, PTL DEF TokenSpec

\* A request is sent with a void token only where that token's own request took its life or
\* overran the margin, for every lifetime, margin and latency and any number of calls.
THEOREM BearersAlive == TokenSpec => []BearerAlive
<1>1. TokenInv => BearerAlive
  BY DEF TokenInv, BearerAlive, SentWell
<1>. QED
  BY <1>1, TokenInvariant, PTL

--------------------------------------------------------------------------------
(***************************************************************************)
(* AiAssessment.  The budget is read before the request and charged after  *)
(* it, so the overrun is bounded by the calls in between: each holds a     *)
(* permit, and a permit is only given while the budget has room.           *)
(***************************************************************************)

\* A request is only made by a call that a budget let through.
AssessInv ==
    /\ AssessTypeOK
    /\ \A a \in Assessors : assessing[a].at = "request" => Limit > 0
    /\ OverrunBounded

LEMMA AssessStates ==
    ASSUME AssessTypeOK, NEW a \in Assessors
    PROVE  /\ assessing[a].at \in {"idle", "budget", "request"}
           /\ assessing[a].at = "idle" => assessing[a] = NotAssessing
           /\ assessing[a].at = "budget" =>
                  /\ assessing[a].scope \in Scopes /\ assessing[a].pair \in PairKeys
                  /\ assessing[a].used \in Nat
           /\ assessing[a].at = "request" =>
                  /\ assessing[a].scope \in Scopes /\ assessing[a].pair \in PairKeys
                  /\ assessing[a].attempt \in Attempts
                  /\ assessing[a] \in [at : {"request"}, scope : Scopes, pair : PairKeys, attempt : Attempts]
<1>1. assessing[a] \in AssessState
  BY DEF AssessTypeOK
<1>. QED
  BY <1>1 DEF AssessState, NotAssessing

\* There are at most two permits for each call.
LEMMA PermitsBounded ==
    ASSUME NEW S \in SUBSET (Assessors \X Attempts)
    PROVE  /\ IsFiniteSet(S) /\ Cardinality(S) \in Nat
           /\ Cardinality(S) <= 2 * Cardinality(Assessors)
<1>1. IsFiniteSet(Attempts) /\ Cardinality(Attempts) = 2
  <2>1. IsFiniteSet(1..2) /\ Cardinality(1..2) = IF 1 > 2 THEN 0 ELSE 2 - 1 + 1
    <3>1. 1 \in Int /\ 2 \in Int
      OBVIOUS
    <3>. QED
      BY <3>1, FS_Interval
  <2>. QED
    BY <2>1 DEF Attempts
<1>2. IsFiniteSet(Assessors) /\ Cardinality(Assessors) \in Nat
  BY AssessAssumption, FS_CardinalityType
<1>3. /\ IsFiniteSet(Assessors \X Attempts)
      /\ Cardinality(Assessors \X Attempts) = Cardinality(Assessors) * Cardinality(Attempts)
  BY <1>1, <1>2, FS_Product
<1>4. /\ IsFiniteSet(S)
      /\ Cardinality(S) <= Cardinality(Assessors \X Attempts)
  BY <1>3, FS_Subset
<1>. QED
  BY <1>1, <1>2, <1>3, <1>4, FS_CardinalityType

\* A permit that is used up pays for what it cost.
LEMMA OnePermitPays ==
    ASSUME NEW k \in Nat, NEW p \in Nat, NEW r \in Nat, r + 1 <= p PROVE k * r + k <= k * p
<1>1. PICK d \in Nat : p = r + 1 + d
  <2>1. p - (r + 1) \in Nat /\ p = r + 1 + (p - (r + 1))
    OBVIOUS
  <2>. QED
    BY <2>1
<1>2. k * p = k * r + k + k * d /\ k * d \in Nat
  BY <1>1
<1>. QED
  BY <1>2

LEMMA FewerPermits ==
    ASSUME NEW k \in Nat, NEW p \in Nat, NEW r \in Nat, r <= p PROVE k * r <= k * p
<1>1. PICK d \in Nat : p = r + d
  <2>1. p - r \in Nat /\ p = r + (p - r)
    OBVIOUS
  <2>. QED
    BY <2>1
<1>2. k * p = k * r + k * d /\ k * d \in Nat
  BY <1>1
<1>. QED
  BY <1>2

\* A step that spends nothing and adds no permit of a scope whose budget is reached.
LEMMA NothingSpent ==
    ASSUME AssessInv, AssessTypeOK', NEW s \in Scopes,
           spent'[s] <= spent[s],
           spent[s] >= Limit => Permits(s)' \subseteq Permits(s)
    PROVE  (spent[s] >= Limit => spent[s] + MaxCost * Cardinality(Permits(s)) <= Allowance)'
<1>. SUFFICES ASSUME spent'[s] >= Limit
              PROVE  spent'[s] + MaxCost * Cardinality(Permits(s)') <= Allowance
  BY DEF Allowance
<1>1. spent[s] \in Nat /\ spent'[s] \in Nat /\ Limit \in Nat /\ MaxCost \in Nat
  BY AssessAssumption DEF AssessInv, AssessTypeOK
<1>2. /\ Permits(s) \in SUBSET (Assessors \X Attempts)
      /\ Permits(s)' \in SUBSET (Assessors \X Attempts)
  BY DEF Permits
<1>3. Permits(s)' \subseteq Permits(s)
  BY <1>1
<1>4. /\ Cardinality(Permits(s)') <= Cardinality(Permits(s))
      /\ Cardinality(Permits(s)') \in Nat /\ Cardinality(Permits(s)) \in Nat
  BY <1>2, <1>3, PermitsBounded, FS_Subset
<1>5. MaxCost * Cardinality(Permits(s)') <= MaxCost * Cardinality(Permits(s))
  BY <1>1, <1>4, FewerPermits
<1>6. spent[s] + MaxCost * Cardinality(Permits(s)) <= Allowance
  BY <1>1 DEF AssessInv, OverrunBounded
<1>7. Allowance \in Nat
  BY <1>1, AssessAssumption, FS_CardinalityType DEF Allowance
<1>8. /\ MaxCost * Cardinality(Permits(s)') \in Nat
      /\ MaxCost * Cardinality(Permits(s)) \in Nat
  BY <1>1, <1>4
<1>. HIDE DEF Allowance
<1>. QED
  BY <1>1, <1>5, <1>6, <1>7, <1>8

\* A step that charges a scope for one of its permits.
LEMMA PermitSpent ==
    ASSUME AssessInv, AssessTypeOK', Limit > 0, NEW s \in Scopes, NEW cost \in 0..MaxCost,
           spent'[s] = spent[s] + cost,
           NEW x \in Permits(s), Permits(s)' \subseteq Permits(s) \ {x}
    PROVE  (spent[s] >= Limit => spent[s] + MaxCost * Cardinality(Permits(s)) <= Allowance)'
<1>. SUFFICES ASSUME spent'[s] >= Limit
              PROVE  spent'[s] + MaxCost * Cardinality(Permits(s)') <= Allowance
  BY DEF Allowance
<1>. DEFINE before == Cardinality(Permits(s))
            after == Cardinality(Permits(s)')
            calls == Cardinality(Assessors)
<1>1. spent[s] \in Nat /\ Limit \in Nat /\ MaxCost \in Nat /\ cost \in Nat /\ cost <= MaxCost
      /\ calls \in Nat
  BY AssessAssumption, FS_CardinalityType DEF AssessInv, AssessTypeOK
<1>2. /\ Permits(s) \in SUBSET (Assessors \X Attempts)
      /\ Permits(s)' \in SUBSET (Assessors \X Attempts)
  BY DEF Permits
<1>3. IsFiniteSet(Permits(s)) /\ before \in Nat /\ after \in Nat /\ before <= 2 * calls
  BY <1>2, PermitsBounded
<1>4. after + 1 <= before
  <2>1. Cardinality(Permits(s) \ {x}) = before - 1 /\ IsFiniteSet(Permits(s) \ {x})
    BY <1>3, FS_RemoveElement
  <2>2. after <= Cardinality(Permits(s) \ {x})
    BY <2>1, FS_Subset
  <2>. QED
    BY <1>3, <2>1, <2>2
<1>5. MaxCost * after + MaxCost <= MaxCost * before
  BY <1>1, <1>3, <1>4, OnePermitPays
<1>6. MaxCost * before <= MaxCost * (2 * calls)
  BY <1>1, <1>3, FewerPermits
<1>7. Allowance = (Limit - 1) + MaxCost * (2 * calls)
  BY <1>1 DEF Allowance
<1>8. spent[s] >= Limit => spent[s] + MaxCost * before <= Allowance
  BY DEF AssessInv, OverrunBounded
<1>9. /\ MaxCost * after \in Nat /\ MaxCost * before \in Nat
      /\ MaxCost * (2 * calls) \in Nat
  BY <1>1, <1>3
<1>. HIDE DEF before, after, calls
<1>10. spent[s] + cost + MaxCost * after <= Allowance
  <2>1. CASE spent[s] >= Limit
    BY <1>1, <1>5, <1>7, <1>8, <1>9, <2>1
  <2>2. CASE ~(spent[s] >= Limit)
    BY <1>1, <1>5, <1>6, <1>7, <1>9, <2>2
  <2>. QED
    BY <2>1, <2>2
<1>. QED
  BY <1>10 DEF after
\* The requests a call in state c may still make for scope s: the n-th attempt among them.
Allows(c, s, n) ==
    \/ c.at = "budget" /\ c.scope = s /\ CanProceed(c.used)
    \/ c.at = "request" /\ c.scope = s /\ c.attempt <= n

LEMMA PermitsMove ==
    ASSUME AssessTypeOK, NEW a \in Assessors, NEW state, Assessing(a, state), NEW s \in Scopes,
           \A n \in Attempts : Allows(state, s, n) => Allows(assessing[a], s, n)
    PROVE  /\ Permits(s)' \subseteq Permits(s)
           /\ \A n \in Attempts : ~Allows(state, s, n) => <<a, n>> \notin Permits(s)'
<1>1. \A b \in Assessors : assessing'[b] = IF b = a THEN state ELSE assessing[b]
  BY DEF AssessTypeOK, Assessing
<1>2. Permits(s) = {x \in Assessors \X Attempts : Allows(assessing[x[1]], s, x[2])}
  BY DEF Permits, Allows
<1>3. Permits(s)' = {x \in Assessors \X Attempts : Allows(assessing'[x[1]], s, x[2])}
  BY DEF Permits, Allows, CanProceed
<1>. QED
  BY <1>1, <1>2, <1>3

\* The answer to an attempt, valid or not, uses that attempt up.
LEMMA AnswerKeeps ==
    ASSUME AssessInv, AssessTypeOK', NEW a \in Assessors, assessing[a].at = "request",
           Assessing(a, NotAssessing) \/ TryAgain(a),
           NEW cost \in 0..MaxCost, Charge(assessing[a].scope, cost) \/ spent' = spent
    PROVE  AssessInv'
<1>. DEFINE n == assessing[a].attempt
            scope == assessing[a].scope
<1>1. /\ AssessTypeOK /\ Limit > 0 /\ n \in Attempts /\ scope \in Scopes
      /\ assessing[a] \in [at : {"request"}, scope : Scopes, pair : PairKeys, attempt : Attempts]
  BY AssessStates DEF AssessInv
<1>2. PICK state : /\ Assessing(a, state)
                   /\ \/ state = NotAssessing
                      \/ n = 1 /\ state = [assessing[a] EXCEPT !.attempt = 2]
  BY DEF TryAgain
<1>3. /\ \A t \in Scopes, m \in Attempts : Allows(state, t, m) => Allows(assessing[a], t, m)
      /\ \A t \in Scopes : ~Allows(state, t, n)
      /\ state.at \in {"idle", "request"}
  BY <1>1, <1>2 DEF Allows, NotAssessing, Attempts
<1>4. \A b \in Assessors : assessing'[b].at = "request" => Limit > 0
  BY <1>1
<1>5. ASSUME NEW t \in Scopes
      PROVE  (spent[t] >= Limit => spent[t] + MaxCost * Cardinality(Permits(t)) <= Allowance)'
  <2>1. /\ Permits(t)' \subseteq Permits(t)
        /\ <<a, n>> \notin Permits(t)'
    BY <1>1, <1>2, <1>3, PermitsMove
  <2>2. CASE spent' = spent \/ t # scope
    <3>1. spent'[t] <= spent[t]
      BY <1>1, <2>2 DEF AssessTypeOK, Charge
    <3>. QED
      BY <2>1, <3>1, NothingSpent
  <2>3. CASE Charge(scope, cost) /\ t = scope
    <3>1. spent'[t] = spent[t] + cost
      BY <1>1, <2>3 DEF AssessTypeOK, Charge
    <3>2. <<a, n>> \in Permits(t)
      BY <1>1, <2>3 DEF Permits, Attempts
    <3>. QED
      BY <1>1, <2>1, <3>1, <3>2, PermitSpent
  <2>. QED
    BY <2>2, <2>3
<1>. QED
  BY <1>4, <1>5 DEF AssessInv, OverrunBounded

\* A step of one call that spends nothing.
LEMMA FreeMoveKeeps ==
    ASSUME AssessInv, AssessTypeOK', NEW a \in Assessors, NEW state, Assessing(a, state),
           spent' = spent, state.at = "request" => Limit > 0,
           \A t \in Scopes, n \in Attempts :
               spent[t] >= Limit /\ Allows(state, t, n) => Allows(assessing[a], t, n)
    PROVE  AssessInv'
<1>1. AssessTypeOK
  BY DEF AssessInv
<1>2. \A b \in Assessors : assessing'[b].at = "request" => Limit > 0
  BY <1>1 DEF AssessInv, AssessTypeOK, Assessing
<1>3. ASSUME NEW t \in Scopes
      PROVE  (spent[t] >= Limit => spent[t] + MaxCost * Cardinality(Permits(t)) <= Allowance)'
  <2>1. spent'[t] <= spent[t]
    BY <1>1 DEF AssessTypeOK
  <2>2. spent[t] >= Limit => Permits(t)' \subseteq Permits(t)
    BY <1>1, PermitsMove
  <2>. QED
    BY <2>1, <2>2, NothingSpent
<1>. QED
  BY <1>2, <1>3 DEF AssessInv, OverrunBounded

LEMMA AssessTyped == AssessTypeOK /\ [AssessNext]_assessVars => AssessTypeOK'
<1>. SUFFICES ASSUME AssessTypeOK, [AssessNext]_assessVars PROVE AssessTypeOK'
  OBVIOUS
<1>0. /\ hour \in Nat /\ CacheTtl \in Nat /\ MaxCost \in Nat
      /\ spent \in [Scopes -> Nat] /\ cached \in [PairKeys -> Nat]
      /\ NotAssessing \in AssessState
  BY AssessAssumption DEF AssessTypeOK, AssessState
<1>1. ASSUME NEW a \in Assessors, NEW state \in AssessState, Assessing(a, state)
      PROVE  assessing' \in [Assessors -> AssessState]
  BY <1>1 DEF Assessing, AssessTypeOK
<1>2. ASSUME NEW a \in Assessors, assessing[a].at = "request", Assessing(a, NotAssessing) \/ TryAgain(a)
      PROVE  assessing' \in [Assessors -> AssessState]
  <2>1. assessing[a] \in [at : {"request"}, scope : Scopes, pair : PairKeys, attempt : Attempts]
    BY <1>2, AssessStates
  <2>2. [assessing[a] EXCEPT !.attempt = 2] \in AssessState
    BY <2>1 DEF AssessState, Attempts
  <2>. QED
    BY <1>0, <1>1, <1>2, <2>2 DEF TryAgain
<1>3. CASE UNCHANGED assessVars
  BY <1>3 DEF AssessTypeOK, assessVars
<1>4. ASSUME NEW a \in Assessors, NEW s \in Scopes, NEW p \in PairKeys, Assess(a, s, p)
      PROVE  AssessTypeOK'
  <2>1. [at |-> "budget", scope |-> s, pair |-> p, used |-> spent[s]] \in AssessState
    BY <1>0 DEF AssessState
  <2>. QED
    BY <1>1, <1>4, <2>1 DEF Assess, AssessTypeOK
<1>5. ASSUME NEW a \in Assessors, BudgetRead(a) PROVE AssessTypeOK'
  <2>1. assessing[a].scope \in Scopes /\ assessing[a].pair \in PairKeys
    BY <1>5, AssessStates DEF BudgetRead
  <2>2. [at |-> "request", scope |-> assessing[a].scope, pair |-> assessing[a].pair, attempt |-> 1]
            \in AssessState
    BY <2>1 DEF AssessState, Attempts
  <2>3. assessing' \in [Assessors -> AssessState]
    BY <1>0, <1>1, <1>5, <2>2 DEF BudgetRead
  <2>4. cached' \in [PairKeys -> Nat]
    BY <1>0, <1>5 DEF BudgetRead
  <2>. QED
    BY <1>5, <2>3, <2>4 DEF BudgetRead, AssessTypeOK
<1>6. ASSUME NEW a \in Assessors, NEW cost \in 0..MaxCost, ValidAnswer(a, cost) \/ InvalidAnswer(a, cost)
      PROVE  AssessTypeOK'
  <2>1. spent' \in [Scopes -> Nat]
    <3>1. \A s \in Scopes : spent[s] + cost \in Nat
      BY <1>0
    <3>. QED
      BY <1>0, <1>6, <3>1 DEF ValidAnswer, InvalidAnswer, Charge
  <2>2. cached' \in [PairKeys -> Nat]
    BY <1>0, <1>6 DEF ValidAnswer, InvalidAnswer
  <2>. QED
    BY <1>2, <1>6, <2>1, <2>2 DEF ValidAnswer, InvalidAnswer, AssessTypeOK
<1>7. ASSUME NEW a \in Assessors, NoAnswer(a) PROVE AssessTypeOK'
  BY <1>2, <1>7 DEF NoAnswer, AssessTypeOK
<1>8. CASE HourPasses
  BY <1>0, <1>8 DEF HourPasses, AssessTypeOK
<1>. QED
  BY <1>3, <1>4, <1>5, <1>6, <1>7, <1>8 DEF AssessNext, AssessProgress

LEMMA AssessNextInv == AssessInv /\ [AssessNext]_assessVars => AssessInv'
<1>. SUFFICES ASSUME AssessInv, [AssessNext]_assessVars PROVE AssessInv'
  OBVIOUS
<1>0. AssessTypeOK /\ AssessTypeOK' /\ Limit \in Nat /\ MaxCost \in Nat
  BY AssessTyped, AssessAssumption DEF AssessInv
<1>1. CASE UNCHANGED assessVars
  BY <1>0, <1>1 DEF AssessInv, OverrunBounded, Permits, assessVars
<1>2. ASSUME NEW a \in Assessors, NEW s \in Scopes, NEW p \in PairKeys, Assess(a, s, p)
      PROVE  AssessInv'
  <2>. DEFINE state == [at |-> "budget", scope |-> s, pair |-> p, used |-> spent[s]]
  <2>1. spent[s] \in Nat
    BY <1>0 DEF AssessTypeOK
  <2>2. \A t \in Scopes, n \in Attempts : spent[t] >= Limit => ~Allows(state, t, n)
    BY <1>0, <2>1 DEF Allows, CanProceed
  <2>3. Assessing(a, state) /\ spent' = spent /\ state.at # "request"
    BY <1>2 DEF Assess
  <2>. HIDE DEF state
  <2>. QED
    BY <1>0, <2>2, <2>3, FreeMoveKeeps
<1>3. ASSUME NEW a \in Assessors, BudgetRead(a) PROVE AssessInv'
  <2>. DEFINE state == [at |-> "request", scope |-> assessing[a].scope,
                        pair |-> assessing[a].pair, attempt |-> 1]
  <2>1. spent' = spent /\ assessing[a].at = "budget" /\ assessing[a].used \in Nat
    BY <1>0, <1>3, AssessStates DEF BudgetRead
  <2>2. CASE Assessing(a, NotAssessing)
    <3>1. NotAssessing.at = "idle"
      BY DEF NotAssessing
    <3>2. \A t \in Scopes, n \in Attempts : ~Allows(NotAssessing, t, n)
      BY <3>1 DEF Allows
    <3>. QED
      BY <1>0, <2>1, <2>2, <3>1, <3>2, FreeMoveKeeps
  <2>3. CASE CanProceed(assessing[a].used) /\ Assessing(a, state)
    <3>1. \A t \in Scopes, n \in Attempts : Allows(state, t, n) => Allows(assessing[a], t, n)
      BY <2>1, <2>3 DEF Allows
    <3>2. Limit > 0
      BY <1>0, <2>1, <2>3 DEF CanProceed
    <3>. HIDE DEF state
    <3>. QED
      BY <1>0, <2>1, <2>3, <3>1, <3>2, FreeMoveKeeps
  <2>. QED
    BY <1>3, <2>2, <2>3 DEF BudgetRead
<1>4. ASSUME NEW a \in Assessors, NEW cost \in 0..MaxCost, ValidAnswer(a, cost) \/ InvalidAnswer(a, cost)
      PROVE  AssessInv'
  BY <1>0, <1>4, AnswerKeeps DEF ValidAnswer, InvalidAnswer
<1>5. ASSUME NEW a \in Assessors, NoAnswer(a) PROVE AssessInv'
  <2>1. 0 \in 0..MaxCost
    BY <1>0
  <2>. QED
    BY <1>0, <1>5, <2>1, AnswerKeeps DEF NoAnswer
<1>6. CASE HourPasses
  <2>1. assessing' = assessing /\ \A t \in Scopes : spent'[t] <= spent[t]
    BY <1>0, <1>6 DEF HourPasses, AssessTypeOK
  <2>2. \A t \in Scopes : Permits(t)' = Permits(t)
    BY <2>1 DEF Permits
  <2>3. ASSUME NEW t \in Scopes
        PROVE  (spent[t] >= Limit => spent[t] + MaxCost * Cardinality(Permits(t)) <= Allowance)'
    BY <1>0, <2>1, <2>2, NothingSpent
  <2>. QED
    BY <1>0, <2>1, <2>3 DEF AssessInv, OverrunBounded
<1>. QED
  BY <1>1, <1>2, <1>3, <1>4, <1>5, <1>6 DEF AssessNext, AssessProgress

LEMMA AssessInitInv == AssessInit => AssessInv
<1>. SUFFICES ASSUME AssessInit PROVE AssessInv
  OBVIOUS
<1>1. AssessTypeOK
  BY DEF AssessInit, AssessTypeOK, AssessState
<1>2. \A a \in Assessors : assessing[a].at = "idle"
  BY DEF AssessInit, NotAssessing
<1>3. ASSUME NEW s \in Scopes, spent[s] >= Limit
      PROVE  spent[s] + MaxCost * Cardinality(Permits(s)) <= Allowance
  <2>1. spent[s] = 0 /\ Limit = 0 /\ MaxCost \in Nat
    BY <1>3, AssessAssumption DEF AssessInit
  <2>2. Permits(s) = {}
    BY <1>2 DEF Permits
  <2>3. Cardinality(Permits(s)) = 0
    BY <2>2, FS_EmptySet
  <2>. QED
    BY <2>1, <2>3 DEF Allowance
<1>. QED
  BY <1>1, <1>2, <1>3 DEF AssessInv, OverrunBounded

LEMMA AssessInvariant == AssessSpec => []AssessInv
  BY AssessInitInv, AssessNextInv, PTL DEF AssessSpec

\* However many calls overlap, whatever they cost and however often they retry, a budget is
\* overrun by no more than was under way when it was reached.
THEOREM OverrunsBounded == AssessSpec => []OverrunBounded
<1>1. AssessInv => OverrunBounded
  BY DEF AssessInv
<1>. QED
  BY <1>1, AssessInvariant, PTL

--------------------------------------------------------------------------------
(***************************************************************************)
(* RegisterConnectors.  The cursor moves past days in the order they are   *)
(* listed, and what is listed may grow while the loop runs: the invariant  *)
(* says what the loop took with it when it began.                          *)
(***************************************************************************)

\* Days up to the cursor are delivered; a loop was started with days that are still there; a
\* file in flight is the first after the cursor, and the last of the loop's days if no more
\* were listed.
ConnectorInv ==
    /\ ConnectorTypeOK
    /\ cursor \in DOMAIN published \cup {0}
    /\ CursorSkipsNothing
    /\ loop.at # "idle" => loop.since \subseteq DOMAIN published
    /\ loop.at = "file" =>
           /\ loop.day \in DOMAIN published
           /\ \A d \in DOMAIN published : d > cursor => d >= loop.day
           /\ ~loop.more => \A d \in loop.since : d <= loop.day

LEMMA MinOfNaturals ==
    ASSUME NEW S \in SUBSET Nat, S # {}
    PROVE  Min(S) \in S /\ \A d \in S : Min(S) <= d
<1>1. PICK x \in S : \A y \in S : <<y, x>> \notin OpToRel(<, Nat)
  BY WFMin, NatLessThanWellFounded, Zenon
<1>2. \A y \in S : ~(y < x)
  BY <1>1, Zenon DEF OpToRel
<1>3. \A y \in S : x <= y
  BY <1>2
<1>. QED
  BY <1>3 DEF Min

LEMMA MaxOfDays ==
    ASSUME NEW S \in SUBSET Nat, IsFiniteSet(S), S # {}
    PROVE  Max(S) \in S /\ \A d \in S : d <= Max(S)
<1>. DEFINE Above(d) == {e \in S : e > d}
            Sizes == {Cardinality(Above(d)) : d \in S}
<1>1. \A d \in S : IsFiniteSet(Above(d)) /\ Cardinality(Above(d)) \in Nat
  BY FS_Subset, FS_CardinalityType
<1>2. Sizes \in SUBSET Nat /\ Sizes # {}
  BY <1>1
<1>3. PICK d \in S : \A e \in S : Cardinality(Above(d)) <= Cardinality(Above(e))
  <2>1. Min(Sizes) \in Sizes /\ \A n \in Sizes : Min(Sizes) <= n
    BY <1>2, MinOfNaturals
  <2>. QED
    BY <2>1, Zenon
<1>4. ASSUME NEW e \in S, e > d PROVE FALSE
  <2>1. Above(e) \subseteq Above(d) /\ e \in Above(d) /\ e \notin Above(e)
    <3>1. d \in Nat /\ e \in Nat /\ \A x \in S : x \in Nat
      OBVIOUS
    <3>2. \A x \in S : x > e => x > d
      BY <1>4, <3>1
    <3>3. ~(e > e)
      BY <3>1
    <3>. QED
      BY <1>4, <3>2, <3>3
  <2>2. Cardinality(Above(e)) < Cardinality(Above(d))
    BY <1>1, <2>1, FS_Subset
  <2>. QED
    BY <1>1, <1>3, <2>2
<1>5. \A e \in S : d >= e
  BY <1>4
<1>. QED
  BY <1>5 DEF Max
LEMMA DaysAreNumbers ==
    ASSUME NEW S \in SUBSET Days
    PROVE  S \in SUBSET Nat /\ IsFiniteSet(S) /\ \A d \in S : d \in Nat /\ d > 0
<1>1. IsFiniteSet(S)
  BY ConnectorAssumption, FS_Subset
<1>2. \A d \in S : d \in Nat /\ d > 0
  BY ConnectorAssumption
<1>. QED
  BY <1>1, <1>2

\* A page is the beginning of what is left, and never empty when something is.
LEMMA FirstPageBegins ==
    ASSUME NEW S \in SUBSET Days
    PROVE  /\ FirstPage(S) \subseteq S
           /\ S # {} => FirstPage(S) # {}
           /\ \A d \in S, e \in FirstPage(S) : d <= e => d \in FirstPage(S)
<1>. DEFINE Sooner(d) == {e \in S : e < d}
<1>0. \A d \in S : d \in Nat
  BY DaysAreNumbers
<1>1. S \in SUBSET Nat /\ \A d \in S : IsFiniteSet(Sooner(d)) /\ Cardinality(Sooner(d)) \in Nat
  BY DaysAreNumbers, FS_Subset, FS_CardinalityType
<1>2. PageSize \in Nat /\ PageSize > 0
  BY ConnectorAssumption
<1>3. FirstPage(S) \subseteq S /\ \A d \in S : d \in FirstPage(S) <=> Cardinality(Sooner(d)) < PageSize
  BY DEF FirstPage
<1>4. ASSUME S # {} PROVE FirstPage(S) # {}
  <2>1. Min(S) \in S /\ \A d \in S : Min(S) <= d
    BY <1>1, <1>4, MinOfNaturals
  <2>2. Sooner(Min(S)) = {}
    BY <1>0, <2>1
  <2>3. Cardinality(Sooner(Min(S))) = 0
    BY <2>2, FS_EmptySet
  <2>. QED
    BY <1>2, <1>3, <2>1, <2>3
<1>5. ASSUME NEW d \in S, NEW e \in FirstPage(S), d <= e PROVE d \in FirstPage(S)
  <2>1. e \in S /\ Cardinality(Sooner(e)) < PageSize
    BY <1>3
  <2>2. Sooner(d) \subseteq Sooner(e)
    BY <1>0, <1>5, <2>1
  <2>3. Cardinality(Sooner(d)) <= Cardinality(Sooner(e))
    BY <1>1, <2>1, <2>2, FS_Subset
  <2>. QED
    BY <1>1, <1>2, <1>3, <2>1, <2>3
<1>. QED
  BY <1>3, <1>4, <1>5

LEMMA WhatIsLeft ==
    ASSUME ConnectorInv
    PROVE  /\ After(cursor) \in SUBSET Days /\ After(cursor) \subseteq DOMAIN published
           /\ cursor \in Nat
           /\ DOMAIN published \subseteq delivered \cup After(cursor)
<1>1. DOMAIN published \in SUBSET Days
  BY DEF ConnectorInv, ConnectorTypeOK
<1>2. cursor \in Nat
  BY DaysAreNumbers DEF ConnectorInv, ConnectorTypeOK
<1>3. \A d \in DOMAIN published : d <= cursor \/ d > cursor
  BY <1>1, <1>2, DaysAreNumbers
<1>. QED
  BY <1>1, <1>2, <1>3 DEF After, ConnectorInv, CursorSkipsNothing

\* A page that arrives with the cursor of one of its days, or with none.
LEMMA PageKeeps ==
    ASSUME ConnectorInv, loop.at = "page", NEW page \in SUBSET After(cursor),
           NEW next \in {cursor} \cup page,
           \A d \in After(cursor) : d <= next => d \in page,
           NEW more \in BOOLEAN, Page(page, next, more), UNCHANGED <<way, published, faults>>
    PROVE  ConnectorInv'
<1>1. /\ After(cursor) \in SUBSET Days /\ After(cursor) \subseteq DOMAIN published
      /\ cursor \in Nat
      /\ DOMAIN published \subseteq delivered \cup After(cursor)
  BY WhatIsLeft
<1>2. loop' = loop \/ loop' = NoLoop
  BY DEF Page
<1>3. cursor' = next /\ delivered' = delivered \cup page
  BY DEF Page
<1>4. ConnectorTypeOK'
  <2>1. loop' \in LoopState
    <3>1. NoLoop \in LoopState
      BY DEF LoopState, NoLoop
    <3>. QED
      BY <1>2, <3>1 DEF ConnectorInv, ConnectorTypeOK
  <2>. QED
    BY <1>1, <1>3, <2>1 DEF ConnectorInv, ConnectorTypeOK
<1>5. cursor' \in DOMAIN published' \cup {0}
  BY <1>1, <1>3 DEF ConnectorInv
<1>6. CursorSkipsNothing'
  <2>. SUFFICES ASSUME NEW d \in DOMAIN published, d <= next PROVE d \in delivered \cup page
    BY <1>3 DEF CursorSkipsNothing
  <2>1. CASE d \in After(cursor)
    BY <2>1
  <2>2. CASE d \notin After(cursor)
    BY <1>1, <2>2
  <2>. QED
    BY <2>1, <2>2
<1>7. loop'.at # "file" /\ (loop'.at # "idle" => loop' = loop)
  BY <1>2 DEF NoLoop
<1>. QED
  BY <1>4, <1>5, <1>6, <1>7 DEF ConnectorInv

\* A loop that fails keeps cursor and deliveries.
LEMMA FailureKeeps ==
    ASSUME ConnectorInv, LoopFails, UNCHANGED <<way, published, cursor, delivered>>,
           faults' \in 0..Faults
    PROVE  ConnectorInv'
<1>1. loop' = [at |-> "idle", failed |-> TRUE]
  BY DEF LoopFails, NoLoop
<1>2. loop' \in LoopState /\ loop'.at = "idle"
  BY <1>1 DEF LoopState
<1>. QED
  BY <1>2 DEF ConnectorInv, ConnectorTypeOK, CursorSkipsNothing

LEMMA PublishDayKeeps ==
    ASSUME ConnectorInv, NEW d \in Days, NEW content \in {"good", "partly", "bad"},
           PublishDay(d, content)
    PROVE  ConnectorInv'
<1>1. /\ DOMAIN published' = DOMAIN published \cup {d}
      /\ \A e \in DOMAIN published : published'[e] = published[e] \/ published'[e] = content
      /\ published'[d] = content
      /\ UNCHANGED <<way, cursor, delivered, loop, faults>>
      /\ \A e \in DOMAIN published : e < d
  BY DEF PublishDay
<1>2. d \in Nat /\ d > 0 /\ \A e \in DOMAIN published : e \in Nat
  BY DaysAreNumbers DEF ConnectorInv, ConnectorTypeOK
<1>3. ConnectorTypeOK'
  BY <1>1 DEF ConnectorInv, ConnectorTypeOK
<1>4. cursor \in Nat /\ cursor < d
  BY <1>1, <1>2 DEF ConnectorInv
<1>5. ~(d <= cursor)
  BY <1>2, <1>4
<1>6. CursorSkipsNothing'
  BY <1>1, <1>5 DEF ConnectorInv, CursorSkipsNothing
<1>7. loop.at = "file" => loop.day < d /\ loop.day \in Nat
  BY <1>1, <1>2 DEF ConnectorInv
<1>8. loop.at = "file" => d >= loop.day
  BY <1>2, <1>7
<1>. QED
  BY <1>1, <1>3, <1>6, <1>8 DEF ConnectorInv

LEMMA LoopStartKeeps ==
    ASSUME ConnectorInv, StartLoop PROVE ConnectorInv'
<1>1. loop' = [at |-> "page", since |-> DOMAIN published]
  BY DEF StartLoop, Asking
<1>2. loop' \in LoopState /\ loop'.at = "page" /\ loop'.since = DOMAIN published
  BY <1>1 DEF LoopState, ConnectorInv, ConnectorTypeOK
<1>. QED
  BY <1>2 DEF StartLoop, ConnectorInv, ConnectorTypeOK, CursorSkipsNothing

\* What an answered page delivers, and what the loop then knows.
LEMMA PagesKeep ==
    ASSUME ConnectorInv, WholeAnswered \/ IndexedAnswered \/ CountedAnswered \/ LiveAnswered
    PROVE  /\ ConnectorInv'
           /\ loop'.at = "idle" /\ ~loop'.failed => loop.since \subseteq delivered'
<1>. DEFINE page == FirstPage(After(cursor))
            more == After(cursor) # page
<1>1. /\ After(cursor) \in SUBSET Days /\ After(cursor) \subseteq DOMAIN published
      /\ cursor \in Nat
      /\ DOMAIN published \subseteq delivered \cup After(cursor)
  BY WhatIsLeft
<1>2. loop.at = "page" /\ loop.since \subseteq DOMAIN published
  BY DEF ConnectorInv, WholeAnswered, IndexedAnswered, CountedAnswered, LiveAnswered
<1>3. /\ page \subseteq After(cursor)
      /\ After(cursor) # {} => page # {}
      /\ \A d \in After(cursor), e \in page : d <= e => d \in page
  BY <1>1, FirstPageBegins
<1>4. \A d \in After(cursor) : d \in Nat /\ d > cursor
  BY <1>1, DaysAreNumbers DEF After
<1>5. page # {} => Max(page) \in page
  BY <1>1, <1>3, DaysAreNumbers, MaxOfDays
<1>6. ~more => DOMAIN published \subseteq delivered \cup page
  BY <1>1
<1>7. UNCHANGED <<way, published, faults>>
  BY DEF WholeAnswered, IndexedAnswered, CountedAnswered, LiveAnswered
<1>8. loop.at # "idle"
  BY <1>2
<1>. HIDE DEF page
<1>9. ASSUME NEW next \in {cursor} \cup page, Page(page, next, more)
      PROVE  /\ ConnectorInv'
             /\ loop'.at = "idle" /\ ~loop'.failed => loop.since \subseteq delivered'
  <2>1. \A d \in After(cursor) : d <= next => d \in page
    BY <1>1, <1>3, <1>4
  <2>2. more \in BOOLEAN
    OBVIOUS
  <2>3. ConnectorInv'
    BY <1>2, <1>3, <1>7, <1>9, <2>1, <2>2, PageKeeps
  <2>4. loop'.at = "idle" => ~more
    BY <1>2, <1>9 DEF Page
  <2>5. delivered' = delivered \cup page
    BY <1>9 DEF Page
  <2>. QED
    BY <1>2, <1>6, <2>3, <2>4, <2>5
<1>10. CASE WholeAnswered
  <2>1. Page(DOMAIN published, cursor, FALSE)
    BY <1>10 DEF WholeAnswered
  <2>2. delivered' = delivered \cup DOMAIN published /\ cursor' = cursor /\ loop' = NoLoop
    BY <2>1 DEF Page
  <2>3. loop'.at = "idle" /\ loop' \in LoopState
    BY <2>2 DEF NoLoop, LoopState
  <2>. QED
    BY <1>2, <1>7, <2>2, <2>3 DEF ConnectorInv, ConnectorTypeOK, CursorSkipsNothing
<1>11. CASE IndexedAnswered
  <2>1. more => page # {}
    BY <1>3
  <2>2. Page(page, IF more THEN Max(page) ELSE cursor, more)
    BY <1>11 DEF IndexedAnswered, page
  <2>3. (IF more THEN Max(page) ELSE cursor) \in {cursor} \cup page
    BY <1>5, <2>1
  <2>. QED
    BY <1>9, <2>2, <2>3
<1>12. CASE CountedAnswered
  <2>1. Page(page, IF page = {} THEN cursor ELSE Max(page), more)
    BY <1>12 DEF CountedAnswered, page
  <2>2. (IF page = {} THEN cursor ELSE Max(page)) \in {cursor} \cup page
    BY <1>5
  <2>. QED
    BY <1>9, <2>1, <2>2
<1>13. CASE LiveAnswered
  <2>1. \/ \E next \in {cursor} \cup page : Page(page, next, more)
        \/ LoopFails /\ UNCHANGED <<cursor, delivered>>
    BY <1>13 DEF LiveAnswered, page
  <2>2. CASE LoopFails /\ UNCHANGED <<cursor, delivered>>
    <3>1. loop'.failed
      BY <2>2 DEF LoopFails, NoLoop
    <3>2. faults' \in 0..Faults
      BY <1>7 DEF ConnectorInv, ConnectorTypeOK
    <3>. QED
      BY <1>7, <2>2, <3>1, <3>2, FailureKeeps
  <2>. QED
    BY <1>9, <2>1, <2>2
<1>. QED
  BY <1>10, <1>11, <1>12, <1>13

LEMMA DeltaKeeps ==
    ASSUME ConnectorInv, DeltaListed \/ DeltaRead
    PROVE  /\ ConnectorInv'
           /\ loop'.at = "idle" /\ ~loop'.failed => loop.since \subseteq delivered'
<1>1. /\ After(cursor) \in SUBSET Days /\ After(cursor) \subseteq DOMAIN published
      /\ cursor \in Nat
      /\ DOMAIN published \subseteq delivered \cup After(cursor)
  BY WhatIsLeft
<1>2. /\ loop.at # "idle" /\ loop.since \subseteq DOMAIN published
      /\ loop \in LoopState /\ DOMAIN published \subseteq Days
  BY DEF ConnectorInv, ConnectorTypeOK, DeltaListed, DeltaRead
<1>3. UNCHANGED <<way, published, faults>>
  BY DEF DeltaListed, DeltaRead
<1>4. \A d \in DOMAIN published : d \in Nat
  BY <1>2, DaysAreNumbers
<1>5. CASE DeltaListed /\ After(cursor) = {}
  <2>1. loop' = NoLoop /\ UNCHANGED <<cursor, delivered>>
    BY <1>5 DEF DeltaListed
  <2>2. loop'.at = "idle" /\ loop' \in LoopState
    BY <2>1 DEF NoLoop, LoopState
  <2>. QED
    BY <1>1, <1>2, <1>3, <1>5, <2>1, <2>2 DEF ConnectorInv, ConnectorTypeOK, CursorSkipsNothing
<1>6. CASE DeltaListed /\ After(cursor) # {}
  <2>. DEFINE day == Min(After(cursor))
              next == [at |-> "file", since |-> loop.since, day |-> day,
                       more |-> Cardinality(After(cursor)) > 1]
  <2>1. day \in After(cursor) /\ \A d \in After(cursor) : day <= d
    BY <1>1, <1>6, DaysAreNumbers, MinOfNaturals
  <2>2. loop' = next /\ UNCHANGED <<cursor, delivered>>
    BY <1>6 DEF DeltaListed
  <2>3. ~next.more => \A d \in After(cursor) : d = day
    <3>. SUFFICES ASSUME ~(Cardinality(After(cursor)) > 1), NEW d \in After(cursor) PROVE d = day
      OBVIOUS
    <3>1. IsFiniteSet(After(cursor)) /\ Cardinality(After(cursor)) \in Nat
      BY <1>1, DaysAreNumbers, FS_CardinalityType
    <3>2. IsFiniteSet({d, day}) /\ Cardinality({d, day}) <= Cardinality(After(cursor))
      BY <2>1, <3>1, FS_Subset
    <3>3. Cardinality({d, day}) \in Nat
      BY <3>2, FS_CardinalityType
    <3>4. CASE d # day
      <4>1. IsFiniteSet({d}) /\ Cardinality({d}) = 1
        BY FS_Singleton
      <4>2. day \notin {d} /\ {d, day} = {d} \cup {day}
        BY <3>4
      <4>3. Cardinality({d} \cup {day}) = Cardinality({d}) + 1
        BY <4>1, <4>2, FS_AddElement
      <4>4. Cardinality({d, day}) = 2
        BY <4>1, <4>2, <4>3
      <4>. QED
        BY <3>1, <3>2, <4>4
    <3>. QED
      BY <3>4
  <2>4. next.at = "file" /\ next.since = loop.since /\ next.day = day /\ next \in LoopState
    <3>1. loop.since \in SUBSET Days /\ day \in Days
      BY <1>1, <1>2, <2>1
    <3>2. (Cardinality(After(cursor)) > 1) \in BOOLEAN
      OBVIOUS
    <3>. QED
      BY <3>1, <3>2 DEF LoopState
  <2>. HIDE DEF next, day
  <2>5. \A d \in DOMAIN published : d > cursor => d >= day
    BY <1>1, <1>4, <2>1 DEF After
  <2>6. ~next.more => \A d \in loop.since : d <= day
    <3>. SUFFICES ASSUME ~next.more, NEW d \in loop.since PROVE d <= day
      OBVIOUS
    <3>1. d \in Nat /\ day \in Nat /\ day > cursor
      BY <1>1, <1>2, <1>4, <2>1 DEF After
    <3>2. CASE d > cursor
      BY <1>2, <2>3, <3>1, <3>2 DEF After
    <3>3. CASE ~(d > cursor)
      BY <1>1, <3>1, <3>3
    <3>. QED
      BY <3>2, <3>3
  <2>7. day \in DOMAIN published
    BY <1>1, <2>1
  <2>. QED
    BY <1>2, <1>3, <2>2, <2>4, <2>5, <2>6, <2>7 DEF ConnectorInv, ConnectorTypeOK, CursorSkipsNothing
<1>7. CASE DeltaRead
  <2>1. /\ loop.at = "file" /\ loop.day \in DOMAIN published
        /\ \A d \in DOMAIN published : d > cursor => d >= loop.day
        /\ ~loop.more => \A d \in loop.since : d <= loop.day
    BY <1>7 DEF ConnectorInv, DeltaRead
  <2>2. CASE LoopFails /\ UNCHANGED <<cursor, delivered>>
    <3>1. loop'.failed
      BY <2>2 DEF LoopFails, NoLoop
    <3>2. faults' \in 0..Faults
      BY <1>3 DEF ConnectorInv, ConnectorTypeOK
    <3>. QED
      BY <1>3, <2>2, <3>1, <3>2, FailureKeeps
  <2>3. CASE /\ delivered' = delivered \cup {loop.day} /\ cursor' = loop.day
             /\ loop' = IF loop.more THEN Asking(loop.since) ELSE NoLoop
    <3>1. ASSUME NEW d \in DOMAIN published, d <= loop.day PROVE d \in delivered'
      <4>1. d \in Nat /\ loop.day \in Nat
        BY <1>4, <2>1
      <4>2. CASE d > cursor
        BY <2>1, <2>3, <3>1, <4>1, <4>2
      <4>3. CASE ~(d > cursor)
        BY <1>1, <2>3, <4>1, <4>3 DEF ConnectorInv, CursorSkipsNothing
      <4>. QED
        BY <4>2, <4>3
    <3>2. CASE loop.more
      <4>1. loop' = [at |-> "page", since |-> loop.since]
        BY <2>3, <3>2 DEF Asking
      <4>2. loop'.at = "page" /\ loop'.since = loop.since /\ loop' \in LoopState
        BY <1>2, <4>1 DEF LoopState
      <4>. QED
        BY <1>2, <1>3, <2>1, <2>3, <3>1, <4>2 DEF ConnectorInv, ConnectorTypeOK, CursorSkipsNothing
    <3>3. CASE ~loop.more
      <4>1. loop'.at = "idle" /\ loop' \in LoopState
        BY <2>3, <3>3 DEF NoLoop, LoopState
      <4>2. loop.since \subseteq delivered'
        BY <1>2, <2>1, <3>1, <3>3
      <4>. QED
        BY <1>2, <1>3, <2>1, <2>3, <3>1, <4>1, <4>2 DEF ConnectorInv, ConnectorTypeOK, CursorSkipsNothing
    <3>. QED
      BY <3>2, <3>3
  <2>. QED
    BY <1>7, <2>2, <2>3 DEF DeltaRead
<1>. QED
  BY <1>5, <1>6, <1>7

LEMMA ConnectorNextInv ==
    ConnectorInv /\ [ConnectorNext]_connectorVars =>
        /\ ConnectorInv'
        /\ [loop.at # "idle" /\ loop'.at = "idle" /\ ~loop'.failed
               => loop.since \subseteq delivered']_connectorVars
<1>. DEFINE Read == loop.at # "idle" /\ loop'.at = "idle" /\ ~loop'.failed
                       => loop.since \subseteq delivered'
<1>. SUFFICES ASSUME ConnectorInv, [ConnectorNext]_connectorVars
              PROVE  ConnectorInv' /\ (Read \/ UNCHANGED connectorVars)
  OBVIOUS
<1>1. CASE UNCHANGED connectorVars
  BY <1>1 DEF ConnectorInv, ConnectorTypeOK, CursorSkipsNothing, connectorVars
<1>2. ASSUME NEW d \in Days, NEW content \in {"good", "partly", "bad"}, PublishDay(d, content)
      PROVE  ConnectorInv' /\ Read
  BY <1>2, PublishDayKeeps DEF PublishDay
<1>3. CASE StartLoop
  BY <1>3, LoopStartKeeps DEF StartLoop
<1>4. CASE WholeAnswered \/ IndexedAnswered \/ CountedAnswered \/ LiveAnswered
  BY <1>4, PagesKeep
<1>5. CASE DeltaListed \/ DeltaRead
  BY <1>5, DeltaKeeps
<1>6. CASE RequestFails
  <2>1. faults' \in 0..Faults
    BY <1>6, ConnectorAssumption DEF RequestFails, ConnectorInv, ConnectorTypeOK
  <2>2. loop'.failed
    BY <1>6 DEF RequestFails, LoopFails, NoLoop
  <2>. QED
    BY <1>6, <2>1, <2>2, FailureKeeps DEF RequestFails
<1>. QED
  BY <1>1, <1>2, <1>3, <1>4, <1>5, <1>6 DEF ConnectorNext

LEMMA ConnectorInitInv == ConnectorInit => ConnectorInv
<1>. SUFFICES ASSUME ConnectorInit PROVE ConnectorInv
  OBVIOUS
<1>1. DOMAIN published \subseteq Days /\ \A d \in DOMAIN published : published[d] = "good"
  BY DEF ConnectorInit
<1>2. loop \in LoopState /\ loop.at = "idle"
  BY DEF ConnectorInit, NoLoop, LoopState
<1>3. ConnectorTypeOK
  BY <1>1, <1>2, ConnectorAssumption DEF ConnectorInit, ConnectorTypeOK
<1>4. CursorSkipsNothing
  BY <1>1, DaysAreNumbers DEF ConnectorInit, CursorSkipsNothing
<1>. QED
  BY <1>2, <1>3, <1>4 DEF ConnectorInit, ConnectorInv

LEMMA ConnectorInvariant == ConnectorSpec => []ConnectorInv
  BY ConnectorInitInv, ConnectorNextInv, PTL DEF ConnectorSpec

\* In every way of paging, for every page size and however publications, failures and
\* downloads overlap, the cursor passes no day that was not delivered.
THEOREM CursorsSkipNothing == ConnectorSpec => []CursorSkipsNothing
<1>1. ConnectorInv => CursorSkipsNothing
  BY DEF ConnectorInv
<1>. QED
  BY <1>1, ConnectorInvariant, PTL

\* And a loop that ends well has delivered all that was there when it began.
THEOREM LoopsReadAll == ConnectorSpec => LoopReadsAll
<1>. QED
  BY ConnectorInitInv, ConnectorNextInv, PTL DEF ConnectorSpec, LoopReadsAll

--------------------------------------------------------------------------------
(***************************************************************************)
(* RegisterCockpit.  Every count the cockpit shows is also in the trail    *)
(* its operators leave; the invariant splits the account by job and by     *)
(* register, and says that no two requests fetch for one job.              *)
(***************************************************************************)

Job == [status : {"pending", "succeeded", "failed"}, attempt : Nat \ {0}]
Row == [probe : Answers \cup {"never", "configuration_required"},
        key : BOOLEAN, reason : BOOLEAN, fetched : BOOLEAN]
Entry == [status : States, watch : BOOLEAN]
Fetching(j) == [at |-> "fetch", job |-> j]

\* A request under way is in one of the states its handler puts it in.
RequestOK(s) ==
    /\ s.at \in {"idle", "probe", "fetch", "tell"}
    /\ s.at = "fetch" => s = Fetching(s.job)
    /\ s.at = "tell" =>
           /\ s.register \in Registers
           /\ s = [at |-> "tell", register |-> s.register, left |-> s.left, affected |-> s.affected]

CockpitBase ==
    /\ catalog \in [Registers -> Entry]
    /\ cockpit \in [Registers -> Row]
    /\ jobs \in Seq(Job)
    /\ importRow \in {"never", "succeeded", "failed"}
    /\ IsABag(trail)
    /\ requests = [q \in Requests |-> requests[q]]
    /\ \A q \in Requests : RequestOK(requests[q])

\* A fetch under way is of a job that is pending for the first time, no two are of the same
\* job, and the trail names no job that is not there.
FetchesApart ==
    /\ \A q \in Requests :
           requests[q].at = "fetch" =>
               /\ requests[q].job \in DOMAIN jobs
               /\ jobs[requests[q].job].status = "pending" /\ jobs[requests[q].job].attempt = 1
    /\ \A p, q \in Requests :
           requests[p].at = "fetch" /\ requests[q].at = "fetch" /\ requests[p].job = requests[q].job
               => p = q
    /\ \A j \in Nat \ DOMAIN jobs :
           /\ Entries("sync", "succeeded", j) = 0 /\ Entries("sync", "failed", j) = 0
           /\ Entries("job_retried", "done", j) = 0

CockpitInv == CockpitBase /\ FetchesApart /\ CockpitAccounted

-------------------------------------------------------------------------------
LEMMA CopiesCount ==
    ASSUME NEW bag, IsABag(bag), NEW x PROVE Copies(x, bag) \in Nat
  BY DEF IsABag, Copies, BagIn, BagToSet

LEMMA CopyAdded ==
    ASSUME NEW bag, IsABag(bag), NEW e
    PROVE  /\ IsABag(bag (+) SetToBag({e}))
           /\ \A x : Copies(x, bag (+) SetToBag({e})) = Copies(x, bag) + (IF x = e THEN 1 ELSE 0)
  BY DEF IsABag, SetToBag, (+), Copies, BagIn, BagToSet

\* The trail only grows, and by what is recorded.
LEMMA TrailGrows ==
    ASSUME IsABag(trail), NEW action, NEW detail, NEW target, Recorded(action, detail, target)
    PROVE  /\ IsABag(trail')
           /\ \A x : Copies(x, trail') \in Nat /\ Copies(x, trail') >= Copies(x, trail)
           /\ Copies(<<action, detail, target>>, trail') = Copies(<<action, detail, target>>, trail) + 1
           /\ \A x : x # <<action, detail, target>> => Copies(x, trail') = Copies(x, trail)
<1>1. /\ IsABag(trail')
      /\ \A x : Copies(x, trail') = Copies(x, trail) + (IF x = <<action, detail, target>> THEN 1 ELSE 0)
  BY CopyAdded DEF Recorded
<1>2. \A x : Copies(x, trail) \in Nat
  BY CopiesCount
<1>. QED
  BY <1>1, <1>2

\* What changes neither jobs nor syncs leaves them accounted for.
LEMMA SyncsKept ==
    ASSUME CockpitInv, UNCHANGED <<jobs, importRow>>, cockpit'[Boip].fetched = cockpit[Boip].fetched,
           \A q \in Requests : \/ requests'[q] = requests[q]
                               \/ requests[q].at # "fetch" /\ requests'[q].at # "fetch",
           \A d, j : /\ Copies(<<"sync", d, j>>, trail') = Copies(<<"sync", d, j>>, trail)
                     /\ Copies(<<"job_retried", d, j>>, trail') = Copies(<<"job_retried", d, j>>, trail)
    PROVE  FetchesApart' /\ SyncsAccounted'
<1>1. ASSUME NEW q \in Requests
      PROVE  /\ requests'[q].at = "fetch" => requests[q].at = "fetch" /\ requests'[q] = requests[q]
             /\ requests[q].at = "fetch" => requests'[q] = requests[q]
  OBVIOUS
<1>2. FetchesApart'
  BY <1>1 DEF CockpitInv, FetchesApart, Entries
<1>3. \A j \in DOMAIN jobs, q \in Requests :
          requests[q] = [at |-> "fetch", job |-> j] <=> requests'[q] = [at |-> "fetch", job |-> j]
  <2>1. \A j : [at |-> "fetch", job |-> j].at = "fetch"
    OBVIOUS
  <2>. QED
    BY <1>1, <2>1
<1>4. SyncsAccounted'
  BY <1>3 DEF CockpitInv, CockpitAccounted, SyncsAccounted, Entries
<1>. QED
  BY <1>2, <1>4

\* The trail's explanations stay as long as nothing they explain changes.
LEMMA SeenKept ==
    ASSUME CockpitInv, catalog' = catalog,
           \A r \in Registers : cockpit'[r].probe = cockpit[r].probe /\ cockpit'[r].key = cockpit[r].key,
           \A x : Copies(x, trail') >= Copies(x, trail) /\ Copies(x, trail') \in Nat,
           broken \subseteq broken',
           \A q \in Requests :
               requests[q].at = "tell" =>
                   \/ requests'[q].at = "tell" /\ requests'[q].register = requests[q].register
                   \/ requests[q].register \in broken'
                   \/ Copies(<<"catalog_updated", "done", requests[q].register>>, trail') > 0
    PROVE  NothingChangesUnseen'
<1>1. \A x : Copies(x, trail) \in Nat
  BY CopiesCount DEF CockpitInv, CockpitBase
<1>2. \A x : Copies(x, trail) > 0 => Copies(x, trail') > 0
  BY <1>1
<1>3. ASSUME NEW r \in Registers
      PROVE  /\ \/ Copies(<<"catalog_updated", "done", r>>, trail') > 0 \/ UnderWay(r)' \/ r \in broken'
                \/ catalog'[r] = [status |-> IF r = Boip THEN "live" ELSE "coming_soon", watch |-> r = Boip]
             /\ \/ cockpit'[r].probe = IF r = Boip THEN "ok" ELSE "never"
                \/ Copies(<<"probed", cockpit'[r].probe, r>>, trail') > 0
             /\ cockpit'[r].key => Copies(<<"credentials_updated", "done", r>>, trail') > 0
  <2>1. /\ \/ Copies(<<"catalog_updated", "done", r>>, trail) > 0 \/ UnderWay(r) \/ r \in broken
           \/ catalog[r] = [status |-> IF r = Boip THEN "live" ELSE "coming_soon", watch |-> r = Boip]
        /\ \/ cockpit[r].probe = IF r = Boip THEN "ok" ELSE "never"
           \/ Copies(<<"probed", cockpit[r].probe, r>>, trail) > 0
        /\ cockpit[r].key => Copies(<<"credentials_updated", "done", r>>, trail) > 0
    BY DEF CockpitInv, CockpitAccounted, NothingChangesUnseen, Entries
  <2>2. UnderWay(r) => \/ UnderWay(r)' \/ r \in broken'
                       \/ Copies(<<"catalog_updated", "done", r>>, trail') > 0
    BY DEF UnderWay
  <2>. QED
    BY <1>2, <2>1, <2>2
<1>. QED
  BY <1>3 DEF NothingChangesUnseen, Entries
LEMMA RequestSet ==
    ASSUME CockpitInv, NEW q \in Requests, NEW s, Sets(q, s), RequestOK(s)
    PROVE  /\ requests' = [p \in Requests |-> requests'[p]]
           /\ \A p \in Requests : requests'[p] = IF p = q THEN s ELSE requests[p]
           /\ \A p \in Requests : RequestOK(requests[p])'
<1>1. /\ requests' = [p \in Requests |-> requests'[p]]
      /\ \A p \in Requests : requests'[p] = IF p = q THEN s ELSE requests[p]
  BY DEF CockpitInv, CockpitBase, Sets
<1>2. \A p \in Requests : RequestOK(requests[p])'
  BY <1>1 DEF CockpitInv, CockpitBase, RequestOK, Fetching
<1>. QED
  BY <1>1, <1>2

LEMMA IdleIsOK == RequestOK(Idle) /\ Idle.at = "idle"
  BY DEF RequestOK, Idle

LEMMA ReasonsKept ==
    ASSUME CockpitInv, catalog' = catalog,
           \A r \in Registers : cockpit'[r].reason = cockpit[r].reason
    PROVE  DisabledHasReason'
  BY DEF CockpitInv, CockpitAccounted, DisabledHasReason

\* The trail of a step that records what is not about a job, or records nothing.
LEMMA OtherRecord ==
    ASSUME CockpitInv, NEW action \in {"probed", "credentials_updated", "catalog_updated"},
           NEW detail, NEW target,
           Recorded(action, detail, target) \/ trail' = trail
    PROVE  /\ IsABag(trail')
           /\ \A x : Copies(x, trail') >= Copies(x, trail) /\ Copies(x, trail') \in Nat
           /\ Recorded(action, detail, target) => Copies(<<action, detail, target>>, trail') > 0
           /\ \A d, j : /\ Copies(<<"sync", d, j>>, trail') = Copies(<<"sync", d, j>>, trail)
                        /\ Copies(<<"job_retried", d, j>>, trail') = Copies(<<"job_retried", d, j>>, trail)
<1>1. IsABag(trail)
  BY DEF CockpitInv, CockpitBase
<1>2. \A x : Copies(x, trail) \in Nat
  BY <1>1, CopiesCount
<1>3. CASE trail' = trail /\ ~Recorded(action, detail, target)
  BY <1>1, <1>2, <1>3
<1>4. CASE Recorded(action, detail, target)
  <2>1. \A d, j : <<"sync", d, j>> # <<action, detail, target>>
                  /\ <<"job_retried", d, j>> # <<action, detail, target>>
    OBVIOUS
  <2>. QED
    BY <1>1, <1>2, <1>4, <2>1, TrailGrows
<1>. QED
  BY <1>3, <1>4

\* A probe or a change of credentials shows in the row what it records.
LEMMA RowRecorded ==
    ASSUME CockpitInv, NEW r \in Registers, NEW row \in Row, cockpit' = [cockpit EXCEPT ![r] = row],
           row.reason = cockpit[r].reason, row.fetched = cockpit[r].fetched,
           UNCHANGED <<catalog, jobs, importRow, broken>>,
           NEW action \in {"probed", "credentials_updated"}, NEW detail, Recorded(action, detail, r),
           row.probe = cockpit[r].probe \/ (action = "probed" /\ detail = row.probe),
           row.key = cockpit[r].key \/ (action = "credentials_updated" /\ detail = "done"),
           requests' = [p \in Requests |-> requests'[p]],
           \A p \in Requests : RequestOK(requests[p])',
           \A p \in Requests : \/ requests'[p] = requests[p]
                               \/ requests[p].at \notin {"fetch", "tell"} /\ requests'[p].at # "fetch"
    PROVE  CockpitInv'
<1>1. /\ cockpit' \in [Registers -> Row]
      /\ \A s \in Registers : cockpit'[s] = IF s = r THEN row ELSE cockpit[s]
  BY DEF CockpitInv, CockpitBase
<1>2. /\ IsABag(trail')
      /\ \A x : Copies(x, trail') >= Copies(x, trail) /\ Copies(x, trail') \in Nat
      /\ Copies(<<action, detail, r>>, trail') > 0
      /\ \A d, j : /\ Copies(<<"sync", d, j>>, trail') = Copies(<<"sync", d, j>>, trail)
                   /\ Copies(<<"job_retried", d, j>>, trail') = Copies(<<"job_retried", d, j>>, trail)
  BY OtherRecord
<1>3. CockpitBase'
  BY <1>1, <1>2 DEF CockpitInv, CockpitBase
<1>4. cockpit'[Boip].fetched = cockpit[Boip].fetched
  BY <1>1, CockpitAssumption
<1>5. FetchesApart' /\ SyncsAccounted'
  BY <1>2, <1>4, SyncsKept
<1>6. DisabledHasReason'
  BY <1>1, ReasonsKept
<1>7. ASSUME NEW s \in Registers
      PROVE  /\ \/ Copies(<<"catalog_updated", "done", s>>, trail') > 0 \/ UnderWay(s)' \/ s \in broken'
                \/ catalog'[s] = [status |-> IF s = Boip THEN "live" ELSE "coming_soon", watch |-> s = Boip]
             /\ \/ cockpit'[s].probe = IF s = Boip THEN "ok" ELSE "never"
                \/ Copies(<<"probed", cockpit'[s].probe, s>>, trail') > 0
             /\ cockpit'[s].key => Copies(<<"credentials_updated", "done", s>>, trail') > 0
  <2>1. /\ \/ Copies(<<"catalog_updated", "done", s>>, trail) > 0 \/ UnderWay(s) \/ s \in broken
           \/ catalog[s] = [status |-> IF s = Boip THEN "live" ELSE "coming_soon", watch |-> s = Boip]
        /\ \/ cockpit[s].probe = IF s = Boip THEN "ok" ELSE "never"
           \/ Copies(<<"probed", cockpit[s].probe, s>>, trail) > 0
        /\ cockpit[s].key => Copies(<<"credentials_updated", "done", s>>, trail) > 0
    BY DEF CockpitInv, CockpitAccounted, NothingChangesUnseen, Entries
  <2>2. \A x : Copies(x, trail) > 0 => Copies(x, trail') > 0
    <3>1. \A x : Copies(x, trail) \in Nat
      BY CopiesCount DEF CockpitInv, CockpitBase
    <3>. QED
      BY <1>2, <3>1
  <2>3. UnderWay(s) => UnderWay(s)'
    BY DEF UnderWay
  <2>. QED
    BY <1>1, <1>2, <2>1, <2>2, <2>3
<1>8. NothingChangesUnseen'
  BY <1>7 DEF NothingChangesUnseen, Entries
<1>. QED
  BY <1>3, <1>5, <1>6, <1>8 DEF CockpitInv, CockpitAccounted

LEMMA ProbesKeep ==
    ASSUME CockpitInv, NEW q \in Requests, NEW r \in Registers,
           \/ ProbeUnconnected(q, r)
           \/ \E answer \in Answers : ProbeReturns(q, answer)
           \/ \E key \in BOOLEAN : SetCredentials(q, r, key)
    PROVE  CockpitInv'
<1>1. /\ cockpit \in [Registers -> Row] /\ Boip \in Registers
      /\ requests = [p \in Requests |-> requests[p]]
      /\ \A p \in Requests : RequestOK(requests[p])
  BY CockpitAssumption DEF CockpitInv, CockpitBase
<1>2. ASSUME requests' = requests PROVE \A p \in Requests : RequestOK(requests[p])'
  BY <1>1, <1>2 DEF RequestOK, Fetching
<1>3. CASE ProbeUnconnected(q, r)
  <2>. DEFINE answer == IF cockpit[r].key THEN "ok" ELSE "configuration_required"
              row == [cockpit[r] EXCEPT !.probe = answer]
  <2>1. /\ cockpit' = [cockpit EXCEPT ![r] = row] /\ Recorded("probed", answer, r)
        /\ UNCHANGED <<catalog, jobs, importRow, broken, requests>>
    BY <1>3 DEF ProbeUnconnected
  <2>2. /\ row \in Row /\ row.probe = answer /\ row.reason = cockpit[r].reason
        /\ row.fetched = cockpit[r].fetched /\ row.key = cockpit[r].key
    BY <1>1 DEF Row, Answers
  <2>. HIDE DEF row, answer
  <2>. QED
    BY <1>1, <1>2, <2>1, <2>2, RowRecorded
<1>4. ASSUME NEW answer \in Answers, ProbeReturns(q, answer) PROVE CockpitInv'
  <2>. DEFINE row == [cockpit[Boip] EXCEPT !.probe = answer]
  <2>1. /\ cockpit' = [cockpit EXCEPT ![Boip] = row] /\ Recorded("probed", answer, Boip)
        /\ UNCHANGED <<catalog, jobs, importRow, broken>>
        /\ requests[q].at = "probe" /\ Sets(q, Idle)
    BY <1>4 DEF ProbeReturns
  <2>2. /\ row \in Row /\ row.probe = answer /\ row.reason = cockpit[Boip].reason
        /\ row.fetched = cockpit[Boip].fetched /\ row.key = cockpit[Boip].key
    BY <1>1 DEF Row
  <2>3. /\ requests' = [p \in Requests |-> requests'[p]]
        /\ \A p \in Requests : requests'[p] = IF p = q THEN Idle ELSE requests[p]
        /\ \A p \in Requests : RequestOK(requests[p])'
    BY <2>1, IdleIsOK, RequestSet
  <2>4. \A p \in Requests : \/ requests'[p] = requests[p]
                            \/ requests[p].at \notin {"fetch", "tell"} /\ requests'[p].at # "fetch"
    BY <2>1, <2>3, IdleIsOK
  <2>. HIDE DEF row
  <2>. QED
    BY <1>1, <2>1, <2>2, <2>3, <2>4, RowRecorded
<1>5. ASSUME NEW key \in BOOLEAN, SetCredentials(q, r, key) PROVE CockpitInv'
  <2>. DEFINE row == [cockpit[r] EXCEPT !.key = key]
  <2>1. /\ cockpit' = [cockpit EXCEPT ![r] = row] /\ Recorded("credentials_updated", "done", r)
        /\ UNCHANGED <<catalog, jobs, importRow, broken, requests>>
    BY <1>5 DEF SetCredentials
  <2>2. /\ row \in Row /\ row.probe = cockpit[r].probe /\ row.reason = cockpit[r].reason
        /\ row.fetched = cockpit[r].fetched
    BY <1>1 DEF Row
  <2>. HIDE DEF row
  <2>. QED
    BY <1>1, <1>2, <2>1, <2>2, RowRecorded
<1>. QED
  BY <1>3, <1>4, <1>5
\* A patch is seen in the trail, or its handler is under way to it.
LEMMA PatchKeeps ==
    ASSUME CockpitInv, NEW q \in Requests, NEW patch \in CatalogPatches,
           PatchCatalog(q, patch.register, patch)
    PROVE  CockpitInv'
<1>. DEFINE r == patch.register
            entry == Patched(catalog[r], patch)
            row == [cockpit[r] EXCEPT !.reason = ReasonAfter(r, patch)]
            loop0 == [at |-> "tell", register |-> r, left |-> Organizations,
                      affected |-> Affected(Organizations, r)]
<1>1. /\ r \in Registers /\ Boip \in Registers /\ patch.status \in States \cup {Unset}
      /\ catalog \in [Registers -> Entry] /\ cockpit \in [Registers -> Row]
      /\ requests = [p \in Requests |-> requests[p]]
      /\ \A p \in Requests : RequestOK(requests[p])
      /\ requests[q] = Idle
  BY CockpitAssumption DEF CockpitInv, CockpitBase, PatchCatalog, Starts
<1>2. /\ entry \in Entry
      /\ entry.status = IF patch.status = Unset THEN catalog[r].status ELSE patch.status
  BY <1>1 DEF Entry, Patched, States
<1>3. /\ ReasonAfter(r, patch) \in BOOLEAN
      /\ patch.status = "disabled" => ReasonAfter(r, patch)
      /\ patch.status = Unset => ReasonAfter(r, patch) = cockpit[r].reason
  BY <1>1 DEF ReasonAfter, Row, States, Unset
<1>4. /\ row \in Row /\ row.reason = ReasonAfter(r, patch) /\ row.probe = cockpit[r].probe
      /\ row.key = cockpit[r].key /\ row.fetched = cockpit[r].fetched
  BY <1>1, <1>3 DEF Row
<1>5. /\ catalog' = [catalog EXCEPT ![r] = entry] /\ cockpit' = [cockpit EXCEPT ![r] = row]
      /\ \/ Sets(q, loop0) /\ UNCHANGED trail
         \/ Recorded("catalog_updated", "done", r) /\ UNCHANGED requests
      /\ UNCHANGED <<jobs, importRow, watching, told, broken>>
  <2>1. catalog' = [catalog EXCEPT ![r] = entry]
    BY DEF PatchCatalog
  <2>2. cockpit' = [cockpit EXCEPT ![r] = row]
    BY DEF PatchCatalog
  <2>3. \/ Sets(q, loop0) /\ UNCHANGED trail
        \/ Recorded("catalog_updated", "done", r) /\ UNCHANGED requests
    BY DEF PatchCatalog
  <2>. QED
    BY <2>1, <2>2, <2>3 DEF PatchCatalog
<1>. HIDE DEF entry, row
<1>6. /\ catalog' \in [Registers -> Entry] /\ cockpit' \in [Registers -> Row]
      /\ \A s \in Registers : /\ catalog'[s] = IF s = r THEN entry ELSE catalog[s]
                              /\ cockpit'[s] = IF s = r THEN row ELSE cockpit[s]
  BY <1>1, <1>2, <1>4, <1>5
<1>7. /\ IsABag(trail')
      /\ \A x : Copies(x, trail') >= Copies(x, trail) /\ Copies(x, trail') \in Nat
      /\ Recorded("catalog_updated", "done", r) => Copies(<<"catalog_updated", "done", r>>, trail') > 0
      /\ \A d, j : /\ Copies(<<"sync", d, j>>, trail') = Copies(<<"sync", d, j>>, trail)
                   /\ Copies(<<"job_retried", d, j>>, trail') = Copies(<<"job_retried", d, j>>, trail)
  BY <1>5, OtherRecord
<1>8. RequestOK(loop0) /\ loop0.at = "tell" /\ loop0.register = r
  BY <1>1 DEF RequestOK
<1>. HIDE DEF loop0
<1>9. /\ requests' = [p \in Requests |-> requests'[p]]
      /\ \A p \in Requests : RequestOK(requests[p])'
      /\ \A p \in Requests : requests'[p] = requests[p] \/ (p = q /\ requests'[p] = loop0)
      /\ requests'[q] = loop0 \/ Recorded("catalog_updated", "done", r)
  <2>1. CASE Sets(q, loop0)
    BY <1>8, <2>1, RequestSet
  <2>2. CASE Recorded("catalog_updated", "done", r) /\ UNCHANGED requests
    BY <1>1, <2>2 DEF RequestOK, Fetching
  <2>. QED
    BY <1>5, <2>1, <2>2
<1>10. CockpitBase'
  BY <1>5, <1>6, <1>7, <1>9 DEF CockpitInv, CockpitBase
<1>11. FetchesApart' /\ SyncsAccounted'
  <2>1. cockpit'[Boip].fetched = cockpit[Boip].fetched
    BY <1>1, <1>4, <1>6
  <2>2. \A p \in Requests : \/ requests'[p] = requests[p]
                            \/ requests[p].at # "fetch" /\ requests'[p].at # "fetch"
    BY <1>1, <1>8, <1>9, IdleIsOK
  <2>. QED
    BY <1>5, <1>7, <2>1, <2>2, SyncsKept
<1>12. DisabledHasReason'
  BY <1>2, <1>3, <1>4, <1>6 DEF CockpitInv, CockpitAccounted, DisabledHasReason, Unset
<1>13. ASSUME NEW s \in Registers
       PROVE  /\ \/ Copies(<<"catalog_updated", "done", s>>, trail') > 0 \/ UnderWay(s)' \/ s \in broken'
                 \/ catalog'[s] = [status |-> IF s = Boip THEN "live" ELSE "coming_soon", watch |-> s = Boip]
              /\ \/ cockpit'[s].probe = IF s = Boip THEN "ok" ELSE "never"
                 \/ Copies(<<"probed", cockpit'[s].probe, s>>, trail') > 0
              /\ cockpit'[s].key => Copies(<<"credentials_updated", "done", s>>, trail') > 0
  <2>1. /\ \/ Copies(<<"catalog_updated", "done", s>>, trail) > 0 \/ UnderWay(s) \/ s \in broken
           \/ catalog[s] = [status |-> IF s = Boip THEN "live" ELSE "coming_soon", watch |-> s = Boip]
        /\ \/ cockpit[s].probe = IF s = Boip THEN "ok" ELSE "never"
           \/ Copies(<<"probed", cockpit[s].probe, s>>, trail) > 0
        /\ cockpit[s].key => Copies(<<"credentials_updated", "done", s>>, trail) > 0
    BY DEF CockpitInv, CockpitAccounted, NothingChangesUnseen, Entries
  <2>2. \A x : Copies(x, trail) > 0 => Copies(x, trail') > 0
    <3>1. \A x : Copies(x, trail) \in Nat
      BY CopiesCount DEF CockpitInv, CockpitBase
    <3>. QED
      BY <1>7, <3>1
  <2>3. UnderWay(s) => UnderWay(s)'
    BY <1>1, <1>9, IdleIsOK DEF UnderWay
  <2>4. s = r => UnderWay(s)' \/ Copies(<<"catalog_updated", "done", s>>, trail') > 0
    BY <1>7, <1>8, <1>9 DEF UnderWay
  <2>5. cockpit'[s].probe = cockpit[s].probe /\ cockpit'[s].key = cockpit[s].key
    BY <1>4, <1>6
  <2>6. CASE s = r
    BY <1>5, <2>1, <2>2, <2>4, <2>5, <2>6
  <2>7. CASE s # r
    BY <1>5, <1>6, <2>1, <2>2, <2>3, <2>5, <2>7
  <2>. QED
    BY <2>6, <2>7
<1>14. NothingChangesUnseen'
  BY <1>13 DEF NothingChangesUnseen, Entries
<1>. QED
  BY <1>10, <1>11, <1>12, <1>14 DEF CockpitInv, CockpitAccounted

\* The steps that leave the catalogue, the rows and the jobs alone.
LEMMA RestKeeps ==
    ASSUME CockpitInv, NEW q \in Requests,
           ProbeStarts(q) \/ TellNext(q) \/ TellFails(q)
    PROVE  CockpitInv'
<1>. DEFINE r == requests[q].register
            on == [requests[q] EXCEPT !.left = Tail(requests[q].left),
                                      !.affected = Affected(Tail(requests[q].left), r)]
<1>1. /\ UNCHANGED <<catalog, cockpit, jobs, importRow>>
      /\ broken \subseteq broken'
      /\ Recorded("catalog_updated", "done", r) \/ trail' = trail
  BY DEF ProbeStarts, TellNext, TellFails
<1>2. RequestOK(requests[q])
  BY DEF CockpitInv, CockpitBase
<1>3. PICK s :
          /\ Sets(q, s)
          /\ \/ requests[q] = Idle /\ s = [at |-> "probe"]
             \/ /\ requests[q].at = "tell" /\ s = Idle
                /\ Recorded("catalog_updated", "done", r) \/ r \in broken'
             \/ requests[q].at = "tell" /\ s = on
  <2>1. CASE ProbeStarts(q)
    BY <2>1 DEF ProbeStarts, Starts
  <2>2. CASE TellNext(q)
    BY <2>2 DEF TellNext
  <2>3. CASE TellFails(q)
    BY <2>3 DEF TellFails
  <2>. QED
    BY <2>1, <2>2, <2>3
<1>4. /\ RequestOK(s) /\ s.at # "fetch" /\ requests[q].at # "fetch"
      /\ requests[q].at = "tell" =>
             \/ s.at = "tell" /\ s.register = r
             \/ Recorded("catalog_updated", "done", r) \/ r \in broken'
  <2>1. CASE requests[q] = Idle /\ s = [at |-> "probe"]
    BY <2>1, IdleIsOK DEF RequestOK
  <2>2. CASE /\ requests[q].at = "tell" /\ s = Idle
             /\ Recorded("catalog_updated", "done", r) \/ r \in broken'
    BY <2>2, IdleIsOK
  <2>3. CASE requests[q].at = "tell" /\ s = on
    <3>1. /\ r \in Registers
          /\ requests[q] = [at |-> "tell", register |-> r, left |-> requests[q].left,
                            affected |-> requests[q].affected]
      BY <1>2, <2>3 DEF RequestOK
    <3>2. s = [at |-> "tell", register |-> r, left |-> Tail(requests[q].left),
               affected |-> Affected(Tail(requests[q].left), r)]
      BY <2>3, <3>1
    <3>. QED
      BY <2>3, <3>1, <3>2 DEF RequestOK
  <2>. QED
    BY <1>3, <2>1, <2>2, <2>3
<1>5. /\ requests' = [p \in Requests |-> requests'[p]]
      /\ \A p \in Requests : requests'[p] = IF p = q THEN s ELSE requests[p]
      /\ \A p \in Requests : RequestOK(requests[p])'
  BY <1>3, <1>4, RequestSet
<1>6. /\ IsABag(trail')
      /\ \A x : Copies(x, trail') >= Copies(x, trail) /\ Copies(x, trail') \in Nat
      /\ Recorded("catalog_updated", "done", r) => Copies(<<"catalog_updated", "done", r>>, trail') > 0
      /\ \A d, j : /\ Copies(<<"sync", d, j>>, trail') = Copies(<<"sync", d, j>>, trail)
                   /\ Copies(<<"job_retried", d, j>>, trail') = Copies(<<"job_retried", d, j>>, trail)
  BY <1>1, OtherRecord
<1>7. CockpitBase'
  BY <1>1, <1>5, <1>6 DEF CockpitInv, CockpitBase
<1>8. FetchesApart' /\ SyncsAccounted'
  BY <1>1, <1>4, <1>5, <1>6, SyncsKept
<1>9. NothingChangesUnseen'
  BY <1>1, <1>4, <1>5, <1>6, SeenKept
<1>10. DisabledHasReason'
  BY <1>1, ReasonsKept
<1>. QED
  BY <1>7, <1>8, <1>9, <1>10 DEF CockpitInv, CockpitAccounted

LEMMA WatchingKeeps ==
    ASSUME CockpitInv, NEW o, WatchChanges(o, Boip) PROVE CockpitInv'
<1>1. UNCHANGED <<catalog, cockpit, jobs, importRow, requests, trail, broken>>
  BY DEF WatchChanges
<1>2. CockpitBase'
  BY <1>1 DEF CockpitInv, CockpitBase, RequestOK, Fetching
<1>3. FetchesApart' /\ SyncsAccounted'
  BY <1>1, SyncsKept
<1>4. \A x : Copies(x, trail') \in Nat
  BY <1>1, CopiesCount DEF CockpitInv, CockpitBase
<1>5. NothingChangesUnseen'
  BY <1>1, <1>4, SeenKept
<1>. QED
  BY <1>1, <1>2, <1>3, <1>5, ReasonsKept DEF CockpitInv, CockpitAccounted
\* What is said of a job.
JobAccounted(j) ==
    /\ Entries("sync", "succeeded", j) + Entries("sync", "failed", j) =
           IF \E q \in Requests : requests[q] = Fetching(j) THEN 0 ELSE 1
    /\ jobs[j].status = "succeeded" => Entries("sync", "succeeded", j) = 1
    /\ jobs[j].status = "failed" => Entries("sync", "failed", j) = 1 /\ jobs[j].attempt = 1
    /\ jobs[j].attempt = 1 + Entries("job_retried", "done", j)

RowsAccounted ==
    /\ importRow \in {"succeeded", "failed"} => \E j \in DOMAIN jobs : Entries("sync", importRow, j) = 1
    /\ cockpit[Boip].fetched <=> \E j \in DOMAIN jobs : Entries("sync", "succeeded", j) = 1

LEMMA SyncsSplit == SyncsAccounted <=> (\A j \in DOMAIN jobs : JobAccounted(j)) /\ RowsAccounted
  BY DEF SyncsAccounted, JobAccounted, RowsAccounted, Fetching

\* What a step on the jobs leaves alone.
LEMMA JobStep ==
    ASSUME CockpitInv, UNCHANGED <<catalog, broken>>,
           \A r \in Registers : /\ cockpit'[r].probe = cockpit[r].probe
                                /\ cockpit'[r].key = cockpit[r].key
                                /\ cockpit'[r].reason = cockpit[r].reason,
           \A x : Copies(x, trail') >= Copies(x, trail) /\ Copies(x, trail') \in Nat,
           \A p \in Requests : requests[p].at = "tell" => requests'[p] = requests[p]
    PROVE  NothingChangesUnseen' /\ DisabledHasReason'
<1>1. NothingChangesUnseen'
  BY SeenKept
<1>. QED
  BY <1>1, ReasonsKept

LEMMA JobFacts ==
    ASSUME CockpitInv
    PROVE  /\ jobs \in Seq(Job) /\ DOMAIN jobs = 1..Len(jobs) /\ Len(jobs) \in Nat
           /\ \A j \in DOMAIN jobs : jobs[j] \in Job
           /\ \A x : Copies(x, trail) \in Nat
           /\ \A j \in DOMAIN jobs : JobAccounted(j)
           /\ RowsAccounted
           /\ \A p \in Requests : \A j :
                  requests[p] = Fetching(j) <=> requests[p].at = "fetch" /\ requests[p].job = j
           /\ requests = [p \in Requests |-> requests[p]]
           /\ cockpit \in [Registers -> Row] /\ Boip \in Registers
<1>1. jobs \in Seq(Job) /\ IsABag(trail) /\ \A p \in Requests : RequestOK(requests[p])
  BY DEF CockpitInv, CockpitBase
<1>2. DOMAIN jobs = 1..Len(jobs) /\ Len(jobs) \in Nat /\ \A j \in DOMAIN jobs : jobs[j] \in Job
  BY <1>1
<1>3. (\A j \in DOMAIN jobs : JobAccounted(j)) /\ RowsAccounted
  BY SyncsSplit DEF CockpitInv, CockpitAccounted
<1>4. \A p \in Requests : \A j :
          requests[p] = Fetching(j) <=> requests[p].at = "fetch" /\ requests[p].job = j
  <2>1. \A j : Fetching(j).at = "fetch" /\ Fetching(j).job = j
    BY DEF Fetching
  <2>2. \A p \in Requests : requests[p].at = "fetch" => requests[p] = Fetching(requests[p].job)
    BY <1>1 DEF RequestOK
  <2>. QED
    BY <2>1, <2>2
<1>5. \A x : Copies(x, trail) \in Nat
  BY <1>1, CopiesCount
<1>. QED
  BY <1>1, <1>2, <1>3, <1>4, <1>5, CockpitAssumption DEF CockpitInv, CockpitBase

LEMMA SyncStartsKeeps == ASSUME CockpitInv, NEW q \in Requests, SyncStarts(q) PROVE CockpitInv'
<1>. DEFINE n == Len(jobs) + 1
            new == [status |-> "pending", attempt |-> 1]
<1>1. /\ jobs \in Seq(Job) /\ DOMAIN jobs = 1..Len(jobs) /\ Len(jobs) \in Nat
      /\ \A x : Copies(x, trail) \in Nat
      /\ \A j \in DOMAIN jobs : JobAccounted(j)
      /\ RowsAccounted
  BY JobFacts
<1>2. /\ requests[q] = Idle /\ jobs' = Append(jobs, new) /\ Sets(q, Fetching(n))
      /\ UNCHANGED <<catalog, cockpit, importRow, trail, broken>>
  BY DEF SyncStarts, Starts, Fetching
<1>3. /\ DOMAIN jobs' = DOMAIN jobs \cup {n} /\ n \in Nat \ DOMAIN jobs
      /\ \A j \in DOMAIN jobs : jobs'[j] = jobs[j]
      /\ jobs'[n] = new /\ new \in Job /\ jobs' \in Seq(Job)
  <2>1. new \in Job
    BY DEF Job
  <2>2. /\ jobs' \in Seq(Job) /\ Len(jobs') = n /\ jobs'[n] = new
        /\ \A j \in 1..Len(jobs) : jobs'[j] = jobs[j]
    BY <1>1, <1>2, <2>1
  <2>3. DOMAIN jobs' = 1..n /\ 1..n = 1..Len(jobs) \cup {n} /\ n \notin 1..Len(jobs)
    BY <1>1, <2>2
  <2>. QED
    BY <1>1, <2>1, <2>2, <2>3
<1>4. new.status = "pending" /\ new.attempt = 1
  OBVIOUS
<1>. HIDE DEF n, new
<1>5. RequestOK(Fetching(n)) /\ Fetching(n).at = "fetch" /\ Fetching(n).job = n
  BY DEF RequestOK, Fetching
<1>6. /\ requests' = [p \in Requests |-> requests'[p]]
      /\ \A p \in Requests : requests'[p] = IF p = q THEN Fetching(n) ELSE requests[p]
      /\ \A p \in Requests : RequestOK(requests[p])'
  BY <1>2, <1>5, RequestSet
<1>7. CockpitBase'
  BY <1>2, <1>3, <1>6 DEF CockpitInv, CockpitBase
<1>8. FetchesApart'
  BY <1>2, <1>3, <1>4, <1>5, <1>6 DEF CockpitInv, FetchesApart, Entries
<1>9. ASSUME NEW j \in DOMAIN jobs' PROVE JobAccounted(j)'
  <2>1. CASE j = n
    <3>1. /\ Copies(<<"sync", "succeeded", n>>, trail) = 0 /\ Copies(<<"sync", "failed", n>>, trail) = 0
          /\ Copies(<<"job_retried", "done", n>>, trail) = 0
      BY <1>3 DEF CockpitInv, FetchesApart, Entries
    <3>2. \E p \in Requests : requests'[p] = Fetching(j)
      BY <1>6, <2>1
    <3>. QED
      BY <1>2, <1>3, <1>4, <2>1, <3>1, <3>2 DEF JobAccounted, Entries
  <2>2. CASE j # n
    <3>1. j \in DOMAIN jobs /\ jobs'[j] = jobs[j] /\ JobAccounted(j)
      BY <1>1, <1>3, <2>2
    <3>2. (\E p \in Requests : requests'[p] = Fetching(j)) <=> (\E p \in Requests : requests[p] = Fetching(j))
      <4>1. Idle # Fetching(j) /\ Fetching(n) # Fetching(j)
        BY <2>2, IdleIsOK DEF Fetching
      <4>. QED
        BY <1>2, <1>6, <4>1
    <3>. QED
      BY <1>2, <3>1, <3>2 DEF JobAccounted, Entries
  <2>. QED
    BY <2>1, <2>2
<1>10. RowsAccounted'
  <2>1. Copies(<<"sync", "succeeded", n>>, trail) = 0
    BY <1>3 DEF CockpitInv, FetchesApart, Entries
  <2>. QED
    <3>1. importRow \in {"succeeded", "failed"} =>
              \E j \in DOMAIN jobs' : Copies(<<"sync", importRow, j>>, trail) = 1
      BY <1>1, <1>3 DEF RowsAccounted, Entries
    <3>2. (\E j \in DOMAIN jobs' : Copies(<<"sync", "succeeded", j>>, trail) = 1)
              <=> (\E j \in DOMAIN jobs : Copies(<<"sync", "succeeded", j>>, trail) = 1)
      <4>1. \A j : j = n => Copies(<<"sync", "succeeded", j>>, trail) # 1
        BY <2>1
      <4>. QED
        BY <1>3, <4>1, Zenon
    <3>3. cockpit[Boip].fetched <=> \E j \in DOMAIN jobs' : Copies(<<"sync", "succeeded", j>>, trail) = 1
      BY <1>1, <3>2, Zenon DEF RowsAccounted, Entries
    <3>. QED
      BY <1>2, <3>1, <3>3, Zenon DEF RowsAccounted, Entries
<1>11. SyncsAccounted'
  BY <1>9, <1>10 DEF SyncsAccounted, JobAccounted, RowsAccounted, Fetching
<1>12. NothingChangesUnseen' /\ DisabledHasReason'
  BY <1>1, <1>2, <1>6, IdleIsOK, JobStep
<1>. QED
  BY <1>7, <1>8, <1>11, <1>12 DEF CockpitInv, CockpitAccounted

\* A fetch comes back: its job had no entry before, and has the one of its outcome now.
LEMMA SyncReturnsKeeps ==
    ASSUME CockpitInv, NEW q \in Requests, NEW outcome \in {"succeeded", "failed"},
           SyncReturns(q, outcome)
    PROVE  CockpitInv'
<1>. DEFINE n == requests[q].job
            row == [cockpit[Boip] EXCEPT !.fetched = @ \/ outcome = "succeeded"]
            done == [jobs[n] EXCEPT !.status = outcome]
<1>1. /\ jobs \in Seq(Job) /\ DOMAIN jobs = 1..Len(jobs) /\ Len(jobs) \in Nat
      /\ \A j \in DOMAIN jobs : jobs[j] \in Job
      /\ \A x : Copies(x, trail) \in Nat
      /\ \A j \in DOMAIN jobs : JobAccounted(j)
      /\ RowsAccounted
      /\ \A p \in Requests : \A j :
                  requests[p] = Fetching(j) <=> requests[p].at = "fetch" /\ requests[p].job = j
      /\ cockpit \in [Registers -> Row] /\ Boip \in Registers
  BY JobFacts
<1>2. /\ requests[q].at = "fetch" /\ n \in DOMAIN jobs /\ requests[q] = Fetching(n)
      /\ jobs[n].attempt = 1
  BY <1>1 DEF SyncReturns, CockpitInv, FetchesApart
<1>3. /\ jobs' = [jobs EXCEPT ![n] = done] /\ cockpit' = [cockpit EXCEPT ![Boip] = row]
      /\ importRow' = outcome /\ Recorded("sync", outcome, n) /\ Sets(q, Idle)
      /\ UNCHANGED <<catalog, broken>>
  BY DEF SyncReturns
<1>4. done \in Job /\ done.status = outcome /\ done.attempt = 1
  BY <1>1, <1>2 DEF Job
<1>5. /\ row \in Row /\ row.probe = cockpit[Boip].probe /\ row.key = cockpit[Boip].key
      /\ row.reason = cockpit[Boip].reason
      /\ row.fetched <=> cockpit[Boip].fetched \/ outcome = "succeeded"
  <2>. DEFINE fetched == cockpit[Boip].fetched \/ outcome = "succeeded"
  <2>1. /\ cockpit[Boip] \in Row /\ fetched \in BOOLEAN
        /\ row = [cockpit[Boip] EXCEPT !.fetched = fetched]
    BY <1>1 DEF Row
  <2>. HIDE DEF row, fetched
  <2>2. /\ row \in Row /\ row.probe = cockpit[Boip].probe /\ row.key = cockpit[Boip].key
        /\ row.reason = cockpit[Boip].reason /\ row.fetched = fetched
    BY <2>1 DEF Row
  <2>. QED
    BY <2>2, Zenon DEF fetched
<1>. HIDE DEF n, row, done
<1>6. /\ jobs' \in Seq(Job) /\ DOMAIN jobs' = DOMAIN jobs
      /\ \A j \in DOMAIN jobs : jobs'[j] = IF j = n THEN done ELSE jobs[j]
  BY <1>1, <1>2, <1>3, <1>4
<1>7. /\ cockpit' \in [Registers -> Row]
      /\ \A r \in Registers : cockpit'[r] = IF r = Boip THEN row ELSE cockpit[r]
  BY <1>1, <1>3, <1>5
<1>8. /\ IsABag(trail')
      /\ \A x : Copies(x, trail') \in Nat /\ Copies(x, trail') >= Copies(x, trail)
      /\ Copies(<<"sync", outcome, n>>, trail') = Copies(<<"sync", outcome, n>>, trail) + 1
      /\ \A x : x # <<"sync", outcome, n>> => Copies(x, trail') = Copies(x, trail)
  BY <1>3, TrailGrows DEF CockpitInv, CockpitBase
<1>9. /\ requests' = [p \in Requests |-> requests'[p]]
      /\ \A p \in Requests : requests'[p] = IF p = q THEN Idle ELSE requests[p]
      /\ \A p \in Requests : RequestOK(requests[p])'
  BY <1>3, IdleIsOK, RequestSet
<1>10. CockpitBase'
  BY <1>3, <1>6, <1>7, <1>8, <1>9 DEF CockpitInv, CockpitBase
<1>11. \A p \in Requests : requests[p] = Fetching(n) => p = q
  BY <1>1, <1>2 DEF CockpitInv, FetchesApart
<1>12. FetchesApart'
  <2>1. ASSUME NEW p \in Requests, requests'[p].at = "fetch"
        PROVE  /\ requests[p].at = "fetch" /\ requests'[p] = requests[p]
               /\ requests[p].job # n
    BY <1>1, <1>2, <1>9, <1>11, <2>1, IdleIsOK
  <2>2. \A j \in Nat \ DOMAIN jobs : \A d : <<"sync", d, j>> # <<"sync", outcome, n>>
    BY <1>2
  <2>3. \A j, d : <<"job_retried", d, j>> # <<"sync", outcome, n>>
    OBVIOUS
  <2>4. \A j \in Nat \ DOMAIN jobs :
           /\ Copies(<<"sync", "succeeded", j>>, trail') = 0 /\ Copies(<<"sync", "failed", j>>, trail') = 0
           /\ Copies(<<"job_retried", "done", j>>, trail') = 0
    BY <1>8, <2>2, <2>3 DEF CockpitInv, FetchesApart, Entries
  <2>5. \A p \in Requests :
           requests'[p].at = "fetch" =>
               /\ requests'[p].job \in DOMAIN jobs
               /\ jobs'[requests'[p].job].status = "pending" /\ jobs'[requests'[p].job].attempt = 1
    BY <1>6, <2>1 DEF CockpitInv, FetchesApart
  <2>6. \A p, o \in Requests :
           requests'[p].at = "fetch" /\ requests'[o].at = "fetch" /\ requests'[p].job = requests'[o].job
               => p = o
    BY <2>1 DEF CockpitInv, FetchesApart
  <2>. QED
    BY <1>6, <2>4, <2>5, <2>6 DEF FetchesApart, Entries
<1>13. /\ Copies(<<"sync", "succeeded", n>>, trail) = 0 /\ Copies(<<"sync", "failed", n>>, trail) = 0
       /\ Copies(<<"job_retried", "done", n>>, trail) = 0
  <2>1. JobAccounted(n) /\ \E p \in Requests : requests[p] = Fetching(n)
    BY <1>1, <1>2
  <2>2. /\ Copies(<<"sync", "succeeded", n>>, trail) + Copies(<<"sync", "failed", n>>, trail) = 0
        /\ jobs[n].attempt = 1 + Copies(<<"job_retried", "done", n>>, trail)
    BY <2>1 DEF JobAccounted, Entries
  <2>3. /\ Copies(<<"sync", "succeeded", n>>, trail) \in Nat
        /\ Copies(<<"sync", "failed", n>>, trail) \in Nat
        /\ Copies(<<"job_retried", "done", n>>, trail) \in Nat
    BY <1>1
  <2>. QED
    BY <1>2, <2>2, <2>3
<1>14. ASSUME NEW j \in DOMAIN jobs' PROVE JobAccounted(j)'
  <2>1. CASE j = n
    <3>1. ~(\E p \in Requests : requests'[p] = Fetching(n))
      <4>1. Idle # Fetching(n)
        BY IdleIsOK DEF Fetching
      <4>. QED
        BY <1>9, <1>11, <4>1
    <3>2. CASE outcome = "succeeded"
      <4>1. <<"sync", "failed", n>> # <<"sync", outcome, n>> /\ <<"job_retried", "done", n>> # <<"sync", outcome, n>>
        BY <3>2
      <4>2. /\ Copies(<<"sync", "succeeded", n>>, trail') = 1 /\ Copies(<<"sync", "failed", n>>, trail') = 0
            /\ Copies(<<"job_retried", "done", n>>, trail') = 0
        BY <1>8, <1>13, <3>2, <4>1
      <4>. QED
        BY <1>2, <1>4, <1>6, <2>1, <3>1, <3>2, <4>2 DEF JobAccounted, Entries
    <3>3. CASE outcome = "failed"
      <4>1. <<"sync", "succeeded", n>> # <<"sync", outcome, n>> /\ <<"job_retried", "done", n>> # <<"sync", outcome, n>>
        BY <3>3
      <4>2. /\ Copies(<<"sync", "succeeded", n>>, trail') = 0 /\ Copies(<<"sync", "failed", n>>, trail') = 1
            /\ Copies(<<"job_retried", "done", n>>, trail') = 0
        BY <1>8, <1>13, <3>3, <4>1
      <4>. QED
        BY <1>2, <1>4, <1>6, <2>1, <3>1, <3>3, <4>2 DEF JobAccounted, Entries
    <3>. QED
      BY <3>2, <3>3
  <2>2. CASE j # n
    <3>1. jobs'[j] = jobs[j] /\ JobAccounted(j)
      BY <1>1, <1>6, <2>2
    <3>2. (\E p \in Requests : requests'[p] = Fetching(j)) <=> (\E p \in Requests : requests[p] = Fetching(j))
      <4>1. Idle # Fetching(j) /\ Fetching(n) # Fetching(j)
        BY <2>2, IdleIsOK DEF Fetching
      <4>. QED
        BY <1>2, <1>9, <4>1
    <3>3. /\ \A d : <<"sync", d, j>> # <<"sync", outcome, n>>
          /\ <<"job_retried", "done", j>> # <<"sync", outcome, n>>
      BY <2>2
    <3>4. /\ Copies(<<"sync", "succeeded", j>>, trail') = Copies(<<"sync", "succeeded", j>>, trail)
          /\ Copies(<<"sync", "failed", j>>, trail') = Copies(<<"sync", "failed", j>>, trail)
          /\ Copies(<<"job_retried", "done", j>>, trail') = Copies(<<"job_retried", "done", j>>, trail)
      BY <1>8, <3>3
    <3>. QED
      BY <3>1, <3>2, <3>4 DEF JobAccounted, Entries
  <2>. QED
    BY <2>1, <2>2
<1>15. RowsAccounted'
  <2>1. Copies(<<"sync", outcome, n>>, trail') = 1
    BY <1>8, <1>13
  <2>2. \A j \in DOMAIN jobs : j # n =>
            Copies(<<"sync", "succeeded", j>>, trail') = Copies(<<"sync", "succeeded", j>>, trail)
    <3>1. \A j : j # n => <<"sync", "succeeded", j>> # <<"sync", outcome, n>>
      OBVIOUS
    <3>. QED
      BY <1>8, <3>1
  <2>3. outcome # "succeeded" => Copies(<<"sync", "succeeded", n>>, trail') = 0
    <3>1. outcome # "succeeded" => <<"sync", "succeeded", n>> # <<"sync", outcome, n>>
      OBVIOUS
    <3>. QED
      BY <1>8, <1>13, <3>1
  <2>4. cockpit'[Boip].fetched <=> cockpit[Boip].fetched \/ outcome = "succeeded"
    BY <1>1, <1>5, <1>7
  <2>5. cockpit[Boip].fetched <=> \E j \in DOMAIN jobs : Copies(<<"sync", "succeeded", j>>, trail) = 1
    BY <1>1 DEF RowsAccounted, Entries
  <2>6. cockpit'[Boip].fetched <=> \E j \in DOMAIN jobs : Copies(<<"sync", "succeeded", j>>, trail') = 1
    BY <1>2, <1>13, <2>1, <2>2, <2>3, <2>4, <2>5
  <2>. QED
    BY <1>2, <1>3, <1>6, <2>1, <2>6 DEF RowsAccounted, Entries
<1>16. SyncsAccounted'
  BY <1>14, <1>15 DEF SyncsAccounted, JobAccounted, RowsAccounted, Fetching
<1>17. NothingChangesUnseen' /\ DisabledHasReason'
  BY <1>1, <1>2, <1>3, <1>5, <1>7, <1>8, <1>9, JobStep
<1>. QED
  BY <1>10, <1>12, <1>16, <1>17 DEF CockpitInv, CockpitAccounted

\* A failed job is pending once more: it has failed once and was never retried.
LEMMA RetryJobKeeps ==
    ASSUME CockpitInv, NEW q \in Requests, NEW n \in DOMAIN jobs, RetryJob(q, n) PROVE CockpitInv'
<1>. DEFINE again == [status |-> "pending", attempt |-> jobs[n].attempt + 1]
<1>1. /\ jobs \in Seq(Job) /\ DOMAIN jobs = 1..Len(jobs) /\ Len(jobs) \in Nat
      /\ \A j \in DOMAIN jobs : jobs[j] \in Job
      /\ \A x : Copies(x, trail) \in Nat
      /\ \A j \in DOMAIN jobs : JobAccounted(j)
      /\ RowsAccounted
      /\ \A p \in Requests : \A j :
                  requests[p] = Fetching(j) <=> requests[p].at = "fetch" /\ requests[p].job = j
  BY JobFacts
<1>2. /\ jobs[n].status = "failed" /\ Recorded("job_retried", "done", n)
      /\ UNCHANGED <<catalog, cockpit, importRow, requests, broken>>
  BY DEF RetryJob
<1>3. jobs' = [jobs EXCEPT ![n] = again]
  <2>1. jobs[n] = [status |-> jobs[n].status, attempt |-> jobs[n].attempt]
    BY <1>1 DEF Job
  <2>. DEFINE pending == [jobs[n] EXCEPT !.status = "pending"]
              between == [jobs EXCEPT ![n] = pending]
  <2>2. pending = [status |-> "pending", attempt |-> jobs[n].attempt]
    BY <2>1
  <2>3. /\ between[n] = pending /\ DOMAIN between = DOMAIN jobs
        /\ \A j \in DOMAIN jobs : j # n => between[j] = jobs[j]
        /\ between = [j \in DOMAIN jobs |-> between[j]]
    BY <1>1
  <2>4. jobs' = [between EXCEPT ![n] = [between[n] EXCEPT !.attempt = jobs[n].attempt + 1]]
    BY DEF RetryJob
  <2>. HIDE DEF between, pending
  <2>5. [between[n] EXCEPT !.attempt = jobs[n].attempt + 1] = again
    BY <2>2, <2>3
  <2>6. jobs' = [between EXCEPT ![n] = again]
    BY <2>4, <2>5
  <2>. HIDE DEF again
  <2>7. jobs' = [j \in DOMAIN jobs |-> IF j = n THEN again ELSE jobs[j]]
    BY <2>3, <2>6
  <2>. QED
    BY <1>1, <2>7
<1>4. again \in Job /\ again.status = "pending" /\ again.attempt = 2
  <2>1. jobs[n].attempt = 1
    BY <1>1, <1>2 DEF JobAccounted
  <2>. QED
    BY <2>1 DEF Job
<1>. HIDE DEF again
<1>5. /\ jobs' \in Seq(Job) /\ DOMAIN jobs' = DOMAIN jobs
      /\ \A j \in DOMAIN jobs : jobs'[j] = IF j = n THEN again ELSE jobs[j]
  BY <1>1, <1>3, <1>4
<1>6. /\ IsABag(trail')
      /\ \A x : Copies(x, trail') \in Nat /\ Copies(x, trail') >= Copies(x, trail)
      /\ Copies(<<"job_retried", "done", n>>, trail') = Copies(<<"job_retried", "done", n>>, trail) + 1
      /\ \A x : x # <<"job_retried", "done", n>> => Copies(x, trail') = Copies(x, trail)
  BY <1>2, TrailGrows DEF CockpitInv, CockpitBase
<1>7. /\ \A j, d : Copies(<<"sync", d, j>>, trail') = Copies(<<"sync", d, j>>, trail)
      /\ \A j : j # n => Copies(<<"job_retried", "done", j>>, trail') = Copies(<<"job_retried", "done", j>>, trail)
  <2>1. \A j, d : <<"sync", d, j>> # <<"job_retried", "done", n>>
    OBVIOUS
  <2>2. \A j : j # n => <<"job_retried", "done", j>> # <<"job_retried", "done", n>>
    OBVIOUS
  <2>. QED
    BY <1>6, <2>1, <2>2
<1>8. CockpitBase'
  <2>1. \A p \in Requests : RequestOK(requests[p])'
    BY <1>2 DEF CockpitInv, CockpitBase, RequestOK, Fetching
  <2>. QED
    BY <1>2, <1>5, <1>6, <2>1 DEF CockpitInv, CockpitBase
<1>9. \A p \in Requests : requests[p].at = "fetch" => requests[p].job # n
  BY <1>2 DEF CockpitInv, FetchesApart
<1>10. FetchesApart'
  BY <1>2, <1>5, <1>7, <1>9 DEF CockpitInv, FetchesApart, Entries
<1>11. ASSUME NEW j \in DOMAIN jobs' PROVE JobAccounted(j)'
  <2>1. JobAccounted(j)
    BY <1>1, <1>5
  <2>2. CASE j = n
    <3>1. Copies(<<"job_retried", "done", n>>, trail) = 0
      BY <1>1, <1>2, <2>1, <2>2 DEF JobAccounted, Entries
    <3>. QED
      BY <1>2, <1>4, <1>5, <1>6, <1>7, <2>1, <2>2, <3>1 DEF JobAccounted, Entries
  <2>3. CASE j # n
    BY <1>2, <1>5, <1>7, <2>1, <2>3 DEF JobAccounted, Entries
  <2>. QED
    BY <2>2, <2>3
<1>12. RowsAccounted'
  <2>1. importRow \in {"succeeded", "failed"} =>
            \E j \in DOMAIN jobs : Copies(<<"sync", importRow, j>>, trail') = 1
    BY <1>1, <1>7 DEF RowsAccounted, Entries
  <2>2. (\E j \in DOMAIN jobs : Copies(<<"sync", "succeeded", j>>, trail') = 1)
            <=> (\E j \in DOMAIN jobs : Copies(<<"sync", "succeeded", j>>, trail) = 1)
    BY <1>7
  <2>3. cockpit[Boip].fetched <=> \E j \in DOMAIN jobs : Copies(<<"sync", "succeeded", j>>, trail') = 1
    BY <1>1, <2>2, Zenon DEF RowsAccounted, Entries
  <2>. QED
    BY <1>2, <1>5, <2>1, <2>3, Zenon DEF RowsAccounted, Entries
<1>13. SyncsAccounted'
  BY <1>11, <1>12 DEF SyncsAccounted, JobAccounted, RowsAccounted, Fetching
<1>14. NothingChangesUnseen' /\ DisabledHasReason'
  BY <1>2, <1>6, JobStep
<1>. QED
  BY <1>8, <1>10, <1>13, <1>14 DEF CockpitInv, CockpitAccounted

LEMMA CockpitInitInv == CockpitInit => CockpitInv
<1>. SUFFICES ASSUME CockpitInit PROVE CockpitInv
  OBVIOUS
<1>1. IsABag(trail) /\ \A x : Copies(x, trail) = 0
  BY DEF CockpitInit, EmptyBag, SetToBag, IsABag, Copies, BagIn, BagToSet
<1>2. jobs \in Seq(Job) /\ DOMAIN jobs = {}
  BY DEF CockpitInit
<1>3. /\ requests = [q \in Requests |-> requests[q]]
      /\ \A q \in Requests : requests[q].at = "idle" /\ RequestOK(requests[q])
  BY IdleIsOK DEF CockpitInit
<1>4. catalog \in [Registers -> Entry] /\ cockpit \in [Registers -> Row]
  BY DEF CockpitInit, Entry, Row, States, Answers
<1>5. CockpitBase
  BY <1>1, <1>2, <1>3, <1>4 DEF CockpitInit, CockpitBase
<1>6. FetchesApart
  BY <1>1, <1>3 DEF FetchesApart, Entries
<1>7. NothingChangesUnseen
  BY CockpitAssumption DEF CockpitInit, NothingChangesUnseen
<1>8. SyncsAccounted
  BY <1>2, CockpitAssumption DEF CockpitInit, SyncsAccounted
<1>9. DisabledHasReason
  BY DEF CockpitInit, DisabledHasReason
<1>. QED
  BY <1>5, <1>6, <1>7, <1>8, <1>9 DEF CockpitInv, CockpitAccounted

LEMMA CockpitNextInv == CockpitInv /\ [CockpitNext]_cockpitVars => CockpitInv'
<1>. SUFFICES ASSUME CockpitInv, [CockpitNext]_cockpitVars PROVE CockpitInv'
  OBVIOUS
<1>1. CASE UNCHANGED cockpitVars
  <2>1. UNCHANGED <<catalog, cockpit, jobs, importRow, requests, trail, broken>>
    BY <1>1 DEF cockpitVars
  <2>2. CockpitBase'
    BY <2>1 DEF CockpitInv, CockpitBase, RequestOK, Fetching
  <2>3. FetchesApart' /\ SyncsAccounted'
    BY <2>1, SyncsKept
  <2>4. \A x : Copies(x, trail') \in Nat
    BY <2>1, CopiesCount DEF CockpitInv, CockpitBase
  <2>5. NothingChangesUnseen'
    BY <2>1, <2>4, SeenKept
  <2>. QED
    BY <2>1, <2>2, <2>3, <2>5, ReasonsKept DEF CockpitInv, CockpitAccounted
<1>2. ASSUME NEW q \in Requests, NEW r \in Registers,
             ProbeUnconnected(q, r) \/ \E key \in BOOLEAN : SetCredentials(q, r, key)
      PROVE  CockpitInv'
  BY <1>2, ProbesKeep
<1>3. ASSUME NEW q \in Requests, NEW patch \in CatalogPatches, PatchCatalog(q, patch.register, patch)
      PROVE  CockpitInv'
  BY <1>3, PatchKeeps
<1>4. ASSUME NEW q \in Requests,
             ProbeStarts(q) \/ SyncStarts(q) \/ TellFails(q) \/ CockpitProgress(q)
      PROVE  CockpitInv'
  BY <1>4, RestKeeps, SyncStartsKeeps, SyncReturnsKeeps, ProbesKeep, CockpitAssumption DEF CockpitProgress
<1>5. ASSUME NEW q \in Requests, NEW j \in DOMAIN jobs, RetryJob(q, j) PROVE CockpitInv'
  BY <1>5, RetryJobKeeps
<1>6. ASSUME NEW o \in Orgs, WatchChanges(o, Boip) PROVE CockpitInv'
  BY <1>6, WatchingKeeps
<1>. QED
  BY <1>1, <1>2, <1>3, <1>4, <1>5, <1>6 DEF CockpitNext

\* Whatever overlaps or breaks off, the trail explains the catalogue and the cockpit, every
\* sync is accounted for once, and a register that is disabled says why.
THEOREM CockpitIsAccounted == CockpitSpec => []CockpitAccounted
<1>1. CockpitInv => CockpitAccounted
  BY DEF CockpitInv
<1>. QED
  BY <1>1, CockpitInitInv, CockpitNextInv, PTL DEF CockpitSpec

\* Who is told watches: what a loop read of the next organization came from the watches.
Told ==
    /\ watching \subseteq Orgs \X Registers /\ told \subseteq Orgs \X Registers
    /\ broken \subseteq Registers
    /\ \A q \in Requests :
           requests[q].at = "tell" /\ requests[q].affected =>
               <<Head(requests[q].left), requests[q].register>> \in Orgs \X Registers

LEMMA ToldKeeps == CockpitInv /\ Told /\ [CockpitNext]_cockpitVars => Told'
<1> SUFFICES ASSUME CockpitInv, Told, [CockpitNext]_cockpitVars PROVE Told'
  OBVIOUS
<1>1. ASSUME NEW q \in Requests, NEW s, Sets(q, s),
             s.at = "tell" /\ s.affected => <<Head(s.left), s.register>> \in Orgs \X Registers,
             UNCHANGED watching, told' \subseteq Orgs \X Registers, broken' \subseteq Registers
      PROVE  Told'
  BY <1>1 DEF Told, Sets, CockpitInv, CockpitBase
<1>2. ASSUME UNCHANGED <<requests, watching, told, broken>> PROVE Told'
  BY <1>2 DEF Told
<1>3. Idle.at # "tell"  BY DEF Idle
<1>4. ASSUME NEW q \in Requests, ProbeStarts(q) PROVE Told'
  <2>1. Sets(q, [at |-> "probe"]) /\ UNCHANGED <<watching, told, broken>>
    BY <1>4 DEF ProbeStarts
  <2> QED  BY <1>1, <2>1 DEF Told
<1>5. ASSUME NEW q \in Requests, SyncStarts(q) PROVE Told'
  <2>1. Sets(q, [at |-> "fetch", job |-> Len(jobs) + 1]) /\ UNCHANGED <<watching, told, broken>>
    BY <1>5 DEF SyncStarts
  <2> QED  BY <1>1, <2>1 DEF Told
<1>6. ASSUME NEW q \in Requests, TellFails(q) PROVE Told'
  <2>1. requests[q].register \in Registers
    BY <1>6 DEF TellFails, CockpitInv, CockpitBase, RequestOK
  <2> QED  BY <1>1, <1>3, <1>6, <2>1 DEF TellFails, Told
<1>7. ASSUME NEW q \in Requests, TellNext(q) PROVE Told'
  <2> DEFINE r == requests[q].register  left == requests[q].left
             s == [requests[q] EXCEPT !.left = Tail(left), !.affected = Affected(Tail(left), r)]
  <2>1. told' \subseteq Orgs \X Registers  BY <1>7 DEF TellNext, Told
  <2>2. /\ r \in Registers
        /\ s.register = r /\ s.left = Tail(left) /\ s.affected = Affected(Tail(left), r)
    <3> DEFINE c == requests[q].affected
    <3>1. /\ r \in Registers
          /\ requests[q] = [at |-> "tell", register |-> r, left |-> left, affected |-> c]
      BY <1>7 DEF TellNext, CockpitInv, CockpitBase, RequestOK
    <3> HIDE DEF r, left, c
    <3> QED  BY <3>1
  <2>3. s.affected => <<Head(s.left), s.register>> \in Orgs \X Registers
    BY <2>2 DEF Affected, Told
  <2>4. Sets(q, Idle) \/ Sets(q, s)  BY <1>7 DEF TellNext
  <2>5. UNCHANGED <<watching, broken>>  BY <1>7 DEF TellNext
  <2> HIDE DEF s
  <2> QED  BY <1>1, <1>3, <2>1, <2>3, <2>4, <2>5 DEF Told
<1>8. ASSUME NEW q \in Requests, NEW answer \in Answers, ProbeReturns(q, answer) PROVE Told'
  BY <1>1, <1>3, <1>8 DEF ProbeReturns, Told
<1>9. ASSUME NEW q \in Requests, NEW outcome, SyncReturns(q, outcome) PROVE Told'
  BY <1>1, <1>3, <1>9 DEF SyncReturns, Told
<1>10. ASSUME NEW q \in Requests, NEW patch \in CatalogPatches, PatchCatalog(q, patch.register, patch)
       PROVE  Told'
  <2> DEFINE r == patch.register
             s == [at |-> "tell", register |-> r, left |-> Organizations,
                   affected |-> Affected(Organizations, r)]
  <2>1. Sets(q, s) \/ UNCHANGED requests  BY <1>10 DEF PatchCatalog
  <2>2. UNCHANGED <<watching, told, broken>>  BY <1>10 DEF PatchCatalog
  <2>3. s.affected => <<Head(s.left), s.register>> \in Orgs \X Registers
    BY DEF Affected, Told
  <2> HIDE DEF s
  <2> QED  BY <1>1, <1>2, <2>1, <2>2, <2>3 DEF Told
<1>11. ASSUME NEW q \in Requests, NEW r \in Registers,
              ProbeUnconnected(q, r) \/ \E key \in BOOLEAN : SetCredentials(q, r, key)
       PROVE  Told'
  BY <1>2, <1>11 DEF ProbeUnconnected, SetCredentials
<1>12. ASSUME NEW q \in Requests, NEW j \in DOMAIN jobs, RetryJob(q, j) PROVE Told'
  BY <1>2, <1>12 DEF RetryJob
<1>13. ASSUME NEW o \in Orgs, WatchChanges(o, Boip) PROVE Told'
  BY <1>13, CockpitAssumption DEF WatchChanges, Told
<1>14. CASE UNCHANGED cockpitVars  BY <1>2, <1>14 DEF cockpitVars
<1> QED
  BY <1>4, <1>5, <1>6, <1>7, <1>8, <1>9, <1>10, <1>11, <1>12, <1>13, <1>14
     DEF CockpitNext, CockpitProgress

\* The rows of the cockpit, its jobs, its requests and whom they told have their types.
THEOREM CockpitTyped == CockpitSpec => []CockpitTypeOK
<1>1. CockpitInit => Told  BY CockpitAssumption DEF CockpitInit, Told, Idle
<1>2. CockpitInv /\ Told => CockpitTypeOK
  <2> SUFFICES ASSUME CockpitInv, Told PROVE CockpitTypeOK  OBVIOUS
  <2>1. \A j \in DOMAIN jobs : jobs[j] \in Job  BY DEF CockpitInv, CockpitBase
  <2> QED  BY <2>1 DEF CockpitInv, CockpitBase, Told, CockpitTypeOK, Entry, Row, Job, RequestOK
<1> QED  BY <1>1, <1>2, CockpitInitInv, CockpitNextInv, ToldKeeps, PTL DEF CockpitSpec

--------------------------------------------------------------------------------
(***************************************************************************)
(* Sums.                                                                   *)
(***************************************************************************)
\* SumFunction takes the terms in an order of its own, one of a set at a time.
Taken(s) == CHOOSE x \in s : TRUE
Step(f, g, s) == g[s] = IF s = {} THEN 0 ELSE f[Taken(s)] + g[s \ {Taken(s)}]
Sums(f, g, S) == g \in [SUBSET S -> Int] /\ \A s \in SUBSET S : Step(f, g, s)
SumOver(f, S) ==
    CHOOSE g : g = [s \in SUBSET S |-> IF s = {} THEN 0 ELSE f[Taken(s)] + g[s \ {Taken(s)}]]

LEMMA SumFunctionIs == ASSUME NEW f PROVE SumFunction(f) = SumOver(f, DOMAIN f)[DOMAIN f]
  BY DEF SumFunction, SumFunctionOnSet, FoldFunctionOnSet, MapThenFoldSet, SumOver, Taken

LEMMA TakenIs ==
    ASSUME NEW S, IsFiniteSet(S), NEW s \in SUBSET S, s # {}
    PROVE  /\ Taken(s) \in s /\ s \ {Taken(s)} \in SUBSET S
           /\ Cardinality(s) \in Nat /\ Cardinality(s \ {Taken(s)}) = Cardinality(s) - 1
<1>1. Taken(s) \in s  BY DEF Taken
<1>2. IsFiniteSet(s)  BY FS_Subset
<1> QED  BY <1>1, <1>2, FS_RemoveElement, FS_CardinalityType

\* Any property of numbers that fails fails for a smallest one.
LEMMA Smallest ==
    ASSUME NEW T \in SUBSET Nat, T # {}
    PROVE  \E n \in T : n = 0 \/ (n - 1 \in Nat /\ n - 1 \notin T)
<1>1. PICK n \in T : \A k \in T : <<k, n>> \notin OpToRel(<, Nat)
  BY WFMin, NatLessThanWellFounded, Zenon
<1>2. \A k \in T : ~(k < n)  BY <1>1, Zenon DEF OpToRel
<1> QED  BY <1>2

\* The partial sums of integers exist, so that SumFunction is one of them.
LEMMA SumsExist ==
    ASSUME NEW S, IsFiniteSet(S), NEW f, \A x \in S : f[x] \in Int
    PROVE  \E g : Sums(f, g, S)
<1> DEFINE UpTo(n, g) == /\ g \in [SUBSET S -> Int]
                         /\ \A s \in SUBSET S : Cardinality(s) <= n => Step(f, g, s)
           T == {n \in Nat : ~\E g : UpTo(n, g)}
<1>1. \A s \in SUBSET S : Cardinality(s) \in Nat
  BY FS_Subset, FS_CardinalityType
<1>2. \E g : UpTo(0, g)
  <2> DEFINE g == [s \in SUBSET S |-> 0]
  <2>1. \A s \in SUBSET S : Cardinality(s) <= 0 => s = {}
    BY <1>1, FS_Subset, FS_EmptySet
  <2>2. UpTo(0, g)  BY <2>1 DEF Step
  <2> QED  BY <2>2
<1>3. ASSUME NEW n \in Nat, NEW g, UpTo(n, g) PROVE \E h : UpTo(n + 1, h)
  <2> DEFINE h == [s \in SUBSET S |-> IF Cardinality(s) = n + 1 THEN f[Taken(s)] + g[s \ {Taken(s)}] ELSE g[s]]
  <2>1. \A s \in SUBSET S : s # {} => f[Taken(s)] + g[s \ {Taken(s)}] \in Int
    <3> SUFFICES ASSUME NEW s \in SUBSET S, s # {} PROVE f[Taken(s)] + g[s \ {Taken(s)}] \in Int
      OBVIOUS
    <3>1. Taken(s) \in S /\ s \ {Taken(s)} \in SUBSET S  BY TakenIs
    <3>2. f[Taken(s)] \in Int /\ g[s \ {Taken(s)}] \in Int  BY <1>3, <3>1
    <3> QED  BY <3>2
  <2>2. ASSUME NEW s \in SUBSET S, Cardinality(s) = n + 1 PROVE s # {}
    BY <2>2, FS_EmptySet
  <2>3. h \in [SUBSET S -> Int]  BY <1>3, <2>1, <2>2
  <2>4. ASSUME NEW s \in SUBSET S, Cardinality(s) <= n + 1 PROVE Step(f, h, s)
    <3>1. CASE s = {}
      <4>1. Cardinality(s) = 0  BY <3>1, FS_EmptySet
      <4>2. h[s] = g[s]  BY <4>1
      <4>3. Step(f, g, s)  BY <1>3, <4>1
      <4> QED  BY <3>1, <4>2, <4>3 DEF Step
    <3>2. CASE s # {}
      <4> DEFINE r == s \ {Taken(s)}
      <4>1. r \in SUBSET S /\ Cardinality(s) \in Nat /\ Cardinality(r) = Cardinality(s) - 1
        BY <3>2, TakenIs
      <4>2. Cardinality(r) # n + 1  BY <2>4, <4>1
      <4>3. h[r] = g[r]  BY <4>1, <4>2
      <4>4. CASE Cardinality(s) = n + 1
        <5>1. h[s] = f[Taken(s)] + g[r]  BY <4>4
        <5> QED  BY <3>2, <4>3, <5>1 DEF Step
      <4>5. CASE Cardinality(s) # n + 1
        <5>1. h[s] = g[s] /\ Cardinality(s) <= n  BY <2>4, <4>1, <4>5
        <5>2. Step(f, g, s)  BY <1>3, <5>1
        <5> QED  BY <3>2, <4>3, <5>1, <5>2 DEF Step
      <4> QED  BY <4>4, <4>5
    <3> QED  BY <3>1, <3>2
  <2> HIDE DEF h
  <2>5. UpTo(n + 1, h)  BY <2>3, <2>4
  <2> QED  BY <2>5
<1>4. \A n \in Nat : \E g : UpTo(n, g)
  <2> SUFFICES ASSUME T # {} PROVE FALSE  OBVIOUS
  <2>1. PICK n \in T : n = 0 \/ (n - 1 \in Nat /\ n - 1 \notin T)
    <3> HIDE DEF T
    <3>1. T \in SUBSET Nat  BY DEF T
    <3> QED  BY <3>1, Smallest
  <2>2. n \in Nat /\ ~\E g : UpTo(n, g)  OBVIOUS
  <2>3. CASE n = 0  BY <1>2, <2>2, <2>3
  <2>4. CASE n - 1 \in Nat /\ n - 1 \notin T
    <3>1. \E g : UpTo(n - 1, g)  BY <2>4
    <3>2. (n - 1) + 1 = n  BY <2>2
    <3> HIDE DEF UpTo
    <3>3. \E h : UpTo((n - 1) + 1, h)  BY <1>3, <2>4, <3>1
    <3> QED  BY <2>2, <3>2, <3>3
  <2> QED  BY <2>1, <2>3, <2>4
<1>5. PICK g : UpTo(Cardinality(S), g)  BY <1>1, <1>4
<1>6. \A s \in SUBSET S : Cardinality(s) <= Cardinality(S)  BY FS_Subset
<1> QED  BY <1>5, <1>6 DEF Sums

LEMMA SumOverIs ==
    ASSUME NEW S, IsFiniteSet(S), NEW f, \A x \in S : f[x] \in Int
    PROVE  Sums(f, SumOver(f, S), S)
<1> DEFINE P(g) == g = [s \in SUBSET S |-> IF s = {} THEN 0 ELSE f[Taken(s)] + g[s \ {Taken(s)}]]
<1>1. PICK h : Sums(f, h, S)  BY SumsExist
<1>2. P(h)  BY <1>1 DEF Sums, Step
<1>3. SumOver(f, S) = CHOOSE g : P(g)  BY DEF SumOver
<1> DEFINE g == SumOver(f, S)
<1>4. P(g)  BY <1>2, <1>3
<1>5. g = [s \in SUBSET S |-> IF s = {} THEN 0 ELSE f[Taken(s)] + g[s \ {Taken(s)}]]  BY <1>4
<1> HIDE DEF g
<1>6. \A s \in SUBSET S : Step(f, g, s)  BY <1>5 DEF Step
<1>7. g \in [SUBSET S -> Int]
  <2> DEFINE Bad == {s \in SUBSET S : g[s] \notin Int}
             T == {Cardinality(s) : s \in Bad}
  <2> SUFFICES ASSUME Bad # {} PROVE FALSE  BY <1>5
  <2>1. \A s \in SUBSET S : Cardinality(s) \in Nat
    BY FS_Subset, FS_CardinalityType
  <2>2. PICK n \in T : n = 0 \/ (n - 1 \in Nat /\ n - 1 \notin T)
    <3>1. T \in SUBSET Nat /\ T # {}  BY <2>1
    <3> HIDE DEF T
    <3> QED  BY <3>1, Smallest
  <2>3. PICK s \in Bad : Cardinality(s) = n  OBVIOUS
  <2>4. s \in SUBSET S /\ g[s] \notin Int  OBVIOUS
  <2>5. s # {}  BY <1>6, <2>4 DEF Step
  <2>6. /\ Taken(s) \in s /\ s \ {Taken(s)} \in SUBSET S
        /\ Cardinality(s) \in Nat /\ Cardinality(s \ {Taken(s)}) = Cardinality(s) - 1
    BY <2>4, <2>5, TakenIs
  <2>7. Cardinality(s) # 0
    <3>1. Cardinality(s \ {Taken(s)}) \in Nat  BY <2>1, <2>6
    <3> QED  BY <2>6, <3>1
  <2>8. s \ {Taken(s)} \notin Bad  BY <2>2, <2>3, <2>6, <2>7
  <2>9. g[s \ {Taken(s)}] \in Int  BY <2>6, <2>8
  <2>10. g[s] = f[Taken(s)] + g[s \ {Taken(s)}]  BY <1>6, <2>4, <2>5 DEF Step
  <2> QED  BY <2>4, <2>6, <2>9, <2>10
<1> QED  BY <1>6, <1>7 DEF g, Sums

LEMMA SumOfNaturals ==
    ASSUME NEW S, IsFiniteSet(S), NEW f \in [S -> Nat]
    PROVE  SumFunction(f) \in Nat
<1> DEFINE g == SumOver(f, S)
           Bad == {s \in SUBSET S : g[s] \notin Nat}
           T == {Cardinality(s) : s \in Bad}
<1>1. Sums(f, g, S)  BY SumOverIs
<1>2. SumFunction(f) = g[S]  BY SumFunctionIs
<1> HIDE DEF g
<1> SUFFICES ASSUME Bad # {} PROVE FALSE  BY <1>2
<1>3. \A s \in SUBSET S : Cardinality(s) \in Nat
  BY FS_Subset, FS_CardinalityType
<1>4. PICK n \in T : n = 0 \/ (n - 1 \in Nat /\ n - 1 \notin T)
  <2>1. T \in SUBSET Nat /\ T # {}  BY <1>3
  <2> HIDE DEF T
  <2> QED  BY <2>1, Smallest
<1>5. PICK s \in Bad : Cardinality(s) = n  OBVIOUS
<1>6. s \in SUBSET S /\ g[s] \notin Nat  OBVIOUS
<1>7. s # {}
  <2>1. Step(f, g, s)  BY <1>1, <1>6 DEF Sums
  <2>2. s = {} => g[s] = 0  BY <2>1 DEF Step
  <2> QED  BY <1>6, <2>2
<1> DEFINE r == s \ {Taken(s)}
<1>8. /\ Taken(s) \in S /\ r \in SUBSET S
      /\ Cardinality(s) \in Nat /\ Cardinality(r) = Cardinality(s) - 1
  BY <1>6, <1>7, TakenIs
<1>9. Cardinality(s) # 0
  <2>1. Cardinality(r) \in Nat  BY <1>3, <1>8
  <2> QED  BY <1>8, <2>1
<1>10. r \notin Bad  BY <1>4, <1>5, <1>8, <1>9
<1>11. g[r] \in Nat  BY <1>8, <1>10
<1>12. g[s] = f[Taken(s)] + g[r]  BY <1>1, <1>6, <1>7 DEF Sums, Step
<1>13. f[Taken(s)] \in Nat  BY <1>8
<1> QED  BY <1>6, <1>11, <1>12, <1>13

\* What a sum is when one of its terms is another.
LEMMA SumOfChanged ==
    ASSUME NEW S, IsFiniteSet(S), NEW f \in [S -> Int], NEW h \in [S -> Int], NEW a \in S,
           \A x \in S \ {a} : h[x] = f[x]
    PROVE  /\ SumFunction(f) \in Int /\ SumFunction(h) \in Int
           /\ SumFunction(h) = SumFunction(f) + (h[a] - f[a])
<1> DEFINE g == SumOver(f, S)  k == SumOver(h, S)
           Apart(s) == k[s] = g[s] + (IF a \in s THEN h[a] - f[a] ELSE 0)
           Bad == {s \in SUBSET S : ~Apart(s)}
           T == {Cardinality(s) : s \in Bad}
<1>1. Sums(f, g, S) /\ Sums(h, k, S)  BY SumOverIs
<1>2. SumFunction(f) = g[S] /\ SumFunction(h) = k[S]  BY SumFunctionIs
<1> HIDE DEF g, k
<1>3. Bad = {}
  <2> SUFFICES ASSUME Bad # {} PROVE FALSE  OBVIOUS
  <2>1. \A s \in SUBSET S : Cardinality(s) \in Nat
    BY FS_Subset, FS_CardinalityType
  <2>2. PICK n \in T : n = 0 \/ (n - 1 \in Nat /\ n - 1 \notin T)
    <3>1. T \in SUBSET Nat /\ T # {}  BY <2>1
    <3> HIDE DEF T
    <3> QED  BY <3>1, Smallest
  <2>3. PICK s \in Bad : Cardinality(s) = n  OBVIOUS
  <2>4. s \in SUBSET S /\ ~Apart(s)  OBVIOUS
  <2>5. s # {}
    <3> SUFFICES ASSUME s = {} PROVE Apart(s)  BY <2>4
    <3>1. g[{}] = 0 /\ k[{}] = 0  BY <1>1 DEF Sums, Step
    <3>2. k[s] = 0 /\ g[s] = 0 /\ a \notin s  BY <3>1
    <3> QED  BY <3>2
  <2> DEFINE x == Taken(s)  r == s \ {x}
  <2>6. /\ x \in s /\ r \in SUBSET S
        /\ Cardinality(s) \in Nat /\ Cardinality(r) = Cardinality(s) - 1
    BY <2>4, <2>5, TakenIs
  <2>7. Cardinality(s) # 0
    <3>1. Cardinality(r) \in Nat  BY <2>1, <2>6
    <3> QED  BY <2>6, <3>1
  <2>8. Apart(r)
    <3>1. r \notin Bad
      <4> SUFFICES ASSUME r \in Bad PROVE FALSE  OBVIOUS
      <4>1. Cardinality(r) \in T  OBVIOUS
      <4> QED  BY <2>2, <2>3, <2>6, <2>7, <4>1
    <3> QED  BY <2>6, <3>1
  <2>9. g[s] = f[x] + g[r] /\ k[s] = h[x] + k[r]
    BY <1>1, <2>4, <2>5 DEF Sums, Step
  <2>10. g[s] \in Int /\ k[s] \in Int /\ g[r] \in Int /\ k[r] \in Int
    BY <1>1, <2>4, <2>6 DEF Sums
  <2>11. f[x] \in Int /\ h[x] \in Int /\ f[a] \in Int /\ h[a] \in Int  BY <2>4, <2>6
  <2> HIDE DEF x, r
  <2>12. CASE x = a
    <3>1. a \in s /\ a \notin r  BY <2>6, <2>12 DEF r
    <3>2. k[r] = g[r]  BY <2>8, <2>10, <3>1
    <3>3. k[s] = g[s] + (h[a] - f[a])  BY <2>9, <2>10, <2>11, <2>12, <3>2
    <3> QED  BY <2>4, <3>1, <3>3
  <2>13. CASE x # a
    <3>1. a \in s <=> a \in r  BY <2>6, <2>13 DEF r
    <3>2. h[x] = f[x]  BY <2>4, <2>6, <2>13
    <3>3. CASE a \in s
      <4>1. k[r] = g[r] + (h[a] - f[a])  BY <2>8, <3>1, <3>3
      <4>2. k[s] = g[s] + (h[a] - f[a])  BY <2>9, <2>10, <2>11, <3>2, <4>1
      <4> QED  BY <2>4, <3>3, <4>2
    <3>4. CASE a \notin s
      <4>1. k[r] = g[r]  BY <2>8, <2>10, <3>1, <3>4
      <4>2. k[s] = g[s]  BY <2>9, <3>2, <4>1
      <4> QED  BY <2>4, <2>10, <3>4, <4>2
    <3> QED  BY <3>3, <3>4
  <2> QED  BY <2>12, <2>13
<1>4. Apart(S)  BY <1>3
<1>5. g[S] \in Int /\ k[S] \in Int  BY <1>1 DEF Sums
<1> QED  BY <1>2, <1>4, <1>5

--------------------------------------------------------------------------------
(***************************************************************************)
(* WeightProfiles.  Nothing is ever published in the worker, so that every *)
(* score is made with the profile of its code, which is the first of every *)
(* process: that is the invariant, and why a score can be computed again.  *)
(***************************************************************************)
Parts == Components \cup {Ai}

CallOK(c) ==
    c = None \/ (/\ c.profile = 1 /\ c.weights = DefaultWeights
                 /\ c.shares \in [Components -> Int])

ScoreOK(s) ==
    s = None \/ (/\ s.profile = 1 /\ s.scores \in [Parts -> Int]
                 /\ s.scores[Ai] \in -100..100
                 /\ s.total = Total(s.scores, DefaultWeights))

WeightsInv ==
    /\ versions = [p \in Processes |-> versions[p]] /\ active = [p \in Processes |-> active[p]]
    /\ versions["worker"] = <<DefaultWeights>> /\ active["worker"] = 1
    /\ versions["api"] \in Seq(Weights) /\ active["api"] \in DOMAIN versions["api"]
    /\ versions["api"][1] = DefaultWeights
    /\ \A n \in DOMAIN versions["api"] : SumFunction(versions["api"][n]) = 100
    /\ scoring = [m \in Scorings |-> scoring[m]] /\ scored = [m \in Scorings |-> scored[m]]
    /\ \A m \in Scorings : CallOK(scoring[m]) /\ ScoreOK(scored[m])

LEMMA ClampWithin ==
    ASSUME NEW v \in Int, NEW low \in Int, NEW high \in Int, low <= high
    PROVE  Clamp(v, low, high) \in low..high
  BY DEF Clamp

\* What a share is worth, for every component.
Terms(scores) == [k \in Parts |-> scores[k] * DefaultWeights[k]]

LEMMA TermsAre ==
    ASSUME NEW scores \in [Parts -> Int]
    PROVE  /\ Terms(scores) \in [Parts -> Int] /\ IsFiniteSet(Parts) /\ Ai \in Parts
           /\ DefaultWeights[Ai] \in Nat
           /\ Total(scores, DefaultWeights) = Clamp(SumFunction(Terms(scores)), 0, Full)
<1>1. DefaultWeights \in [Parts -> Int]  BY WeightsAssumption DEF Weights, Parts
<1>2. IsFiniteSet(Parts)  BY WeightsAssumption, FS_AddElement DEF Parts
<1>3. \A k \in Parts : scores[k] * DefaultWeights[k] \in Int
  <2>1. \A m, n \in Int : m * n \in Int  OBVIOUS
  <2> QED  BY <1>1, <2>1
<1>4. Total(scores, DefaultWeights) = Clamp(SumFunction(Terms(scores)), 0, Full)
  BY <1>1 DEF Total, Terms
<1>5. Ai \in Parts  BY DEF Parts
<1>6. DefaultWeights[Ai] \in Nat  BY <1>1, <1>5, WeightsAssumption
<1> QED  BY <1>2, <1>3, <1>4, <1>5, <1>6 DEF Terms

\* One score less or more moves a total by no more than the score's weight makes of it.
LEMMA NudgeBounded ==
    ASSUME NEW scores \in [Parts -> Int], scores[Ai] \in -100..100
    PROVE  LET alone == Total([scores EXCEPT ![Ai] = 0], DefaultWeights)
           IN  /\ Total(scores, DefaultWeights) \in 0..Full
               /\ Total(scores, DefaultWeights) - alone
                    \in -100 * DefaultWeights[Ai]..100 * DefaultWeights[Ai]
<1> DEFINE rest == [scores EXCEPT ![Ai] = 0]
           w == DefaultWeights[Ai]  o == scores[Ai]
           sum == SumFunction(Terms(scores))  less == SumFunction(Terms(rest))
<1>0. Ai \in Parts  BY DEF Parts
<1>1. rest \in [Parts -> Int] /\ rest[Ai] = 0 /\ \A k \in Parts \ {Ai} : rest[k] = scores[k]
  BY <1>0
<1> HIDE DEF rest
<1>2. /\ Terms(scores) \in [Parts -> Int] /\ Terms(rest) \in [Parts -> Int]
      /\ IsFiniteSet(Parts) /\ w \in Nat
      /\ Total(scores, DefaultWeights) = Clamp(sum, 0, Full)
      /\ Total(rest, DefaultWeights) = Clamp(less, 0, Full)
  BY <1>1, TermsAre
<1>3. /\ \A k \in Parts \ {Ai} : Terms(rest)[k] = Terms(scores)[k]
      /\ Terms(scores)[Ai] = o * w /\ Terms(rest)[Ai] = 0 * w
  BY <1>0, <1>1 DEF Terms
<1>4. sum \in Int /\ less \in Int /\ less = sum + (0 * w - o * w)
  BY <1>0, <1>2, <1>3, SumOfChanged
<1> HIDE DEF sum, less, w, o
<1>5. o \in -100..100  BY DEF o
<1>6. o * w \in Int /\ -100 * w <= o * w /\ o * w <= 100 * w
  <2>1. -100 <= o /\ o <= 100 /\ o \in Int /\ w \in Int /\ w >= 0  BY <1>2, <1>5
  <2> QED  BY <2>1
<1> DEFINE d == o * w  top == 100 * w
<1>7. d \in Int /\ top \in Int /\ -top <= d /\ d <= top /\ -100 * w = -top
  BY <1>2, <1>6
<1>8. less = sum - d  BY <1>2, <1>4, <1>7
<1> HIDE DEF d, top
<1>9. Clamp(sum, 0, Full) - Clamp(less, 0, Full) \in -top..top /\ Clamp(sum, 0, Full) \in 0..Full
  BY <1>4, <1>7, <1>8 DEF Clamp, Full
<1> QED  BY <1>2, <1>7, <1>9 DEF rest, w, top

LEMMA WeightsInitInv == WeightsInit => WeightsInv
<1> SUFFICES ASSUME WeightsInit PROVE WeightsInv  OBVIOUS
<1>1. <<DefaultWeights>> \in Seq(Weights) /\ DOMAIN <<DefaultWeights>> = {1}
      /\ <<DefaultWeights>>[1] = DefaultWeights
  BY WeightsAssumption
<1>2. versions["worker"] = <<DefaultWeights>> /\ versions["api"] = <<DefaultWeights>>
      /\ active["worker"] = 1 /\ active["api"] = 1
  BY DEF WeightsInit, Processes
<1>3. \A n \in {1} : SumFunction(<<DefaultWeights>>[n]) = 100
  BY <1>1, WeightsAssumption
<1> QED  BY <1>1, <1>2, <1>3 DEF WeightsInit, WeightsInv, CallOK, ScoreOK

LEMMA PublishKeeps == ASSUME WeightsInv, NEW w \in Publishable, Publish(w) PROVE WeightsInv'
<1> DEFINE s == versions["api"]  t == [n \in DOMAIN s \cup {Len(s) + 1} |-> IF n = Len(s) + 1 THEN w ELSE s[n]]
<1>1. s \in Seq(Weights) /\ w \in Weights /\ Len(s) \in Nat /\ DOMAIN s = 1..Len(s)
      /\ Len(s) >= 1 /\ s[1] = DefaultWeights
  BY WeightsAssumption DEF WeightsInv
<1>2. versions' = [versions EXCEPT !["api"] = t] /\ active' = [active EXCEPT !["api"] = Len(s) + 1]
  BY DEF Publish, NextVersion
<1> HIDE DEF s
<1>3. DOMAIN t = 1..Len(s) + 1 /\ t \in [1..Len(s) + 1 -> Weights]  BY <1>1
<1>4. t \in Seq(Weights)
  <2>1. \A k \in Nat : \A f \in [1..k -> Weights] : f \in Seq(Weights)  OBVIOUS
  <2>2. Len(s) + 1 \in Nat  BY <1>1
  <2> QED  BY <1>3, <2>1, <2>2
<1>5. t[1] = DefaultWeights  BY <1>1
<1>6. \A n \in DOMAIN t : SumFunction(t[n]) = 100
  <2>1. SumFunction(w) = 100  BY DEF Publish
  <2>2. \A n \in DOMAIN s : SumFunction(s[n]) = 100  BY DEF WeightsInv, s
  <2> QED  BY <1>1, <1>3, <2>1, <2>2
<1>7. Len(s) + 1 \in DOMAIN t  BY <1>1, <1>3
<1> HIDE DEF t
<1>8. versions'["api"] = t /\ versions'["worker"] = versions["worker"]
      /\ active'["api"] = Len(s) + 1 /\ active'["worker"] = active["worker"]
      /\ versions' = [p \in Processes |-> versions'[p]] /\ active' = [p \in Processes |-> active'[p]]
  BY <1>2 DEF WeightsInv, Processes
<1>9. scoring' = scoring /\ scored' = scored  BY DEF Publish
<1> QED  BY <1>4, <1>5, <1>6, <1>7, <1>8, <1>9 DEF WeightsInv

LEMMA RestartKeeps == ASSUME WeightsInv, NEW p \in Processes, Restart(p) PROVE WeightsInv'
<1>1. <<DefaultWeights>> \in Seq(Weights) /\ DOMAIN <<DefaultWeights>> = {1}
      /\ <<DefaultWeights>>[1] = DefaultWeights
  BY WeightsAssumption
<1>2. \A n \in {1} : SumFunction(<<DefaultWeights>>[n]) = 100
  BY <1>1, WeightsAssumption
<1>3. /\ versions' = [versions EXCEPT ![p] = <<DefaultWeights>>]
      /\ active' = [active EXCEPT ![p] = 1]
      /\ scoring' = (IF p = "worker" THEN [m \in Scorings |-> None] ELSE scoring)
      /\ scored' = scored
  BY DEF Restart
<1>4. /\ versions' = [q \in Processes |-> versions'[q]] /\ active' = [q \in Processes |-> active'[q]]
  BY <1>3 DEF WeightsInv
<1>5. versions'["worker"] = <<DefaultWeights>> /\ active'["worker"] = 1
  BY <1>3 DEF WeightsInv, Processes
<1>6. /\ versions'["api"] \in Seq(Weights) /\ active'["api"] \in DOMAIN versions'["api"]
      /\ versions'["api"][1] = DefaultWeights
      /\ \A n \in DOMAIN versions'["api"] : SumFunction(versions'["api"][n]) = 100
  <2>1. CASE p = "api"
    <3>1. versions'["api"] = <<DefaultWeights>> /\ active'["api"] = 1
      BY <1>3, <2>1 DEF WeightsInv, Processes
    <3> QED  BY <1>1, <1>2, <3>1
  <2>2. CASE p # "api"
    <3>1. versions'["api"] = versions["api"] /\ active'["api"] = active["api"]
      BY <1>3, <2>2 DEF WeightsInv, Processes
    <3> QED  BY <3>1 DEF WeightsInv
  <2> QED  BY <2>1, <2>2
<1>7. /\ scoring' = [m \in Scorings |-> scoring'[m]] /\ scored' = [m \in Scorings |-> scored'[m]]
      /\ \A m \in Scorings : CallOK(scoring'[m]) /\ ScoreOK(scored'[m])
  <2>1. CASE p = "worker"  BY <1>3, <2>1 DEF WeightsInv, CallOK
  <2>2. CASE p # "worker"  BY <1>3, <2>2 DEF WeightsInv
  <2> QED  BY <2>1, <2>2
<1> QED  BY <1>4, <1>5, <1>6, <1>7 DEF WeightsInv

LEMMA ScoreStartsKeeps ==
    ASSUME WeightsInv, NEW m \in Scorings, NEW shares \in [Components -> Shares], ScoreStarts(m, shares)
    PROVE  WeightsInv'
<1> DEFINE c == [profile |-> 1, weights |-> DefaultWeights,
                 shares |-> [k \in Components |-> Clamp(shares[k], 0, 100)]]
<1>1. active["worker"] = 1 /\ versions["worker"][1] = DefaultWeights
  <2>1. <<DefaultWeights>>[1] = DefaultWeights  OBVIOUS
  <2> QED  BY <2>1 DEF WeightsInv
<1>2. scoring' = [scoring EXCEPT ![m] = c]  BY <1>1 DEF ScoreStarts
<1>3. CallOK(c)
  <2>1. ASSUME NEW k \in Components PROVE Clamp(shares[k], 0, 100) \in Int
    <3>1. shares[k] \in Shares  OBVIOUS
    <3>2. Shares \subseteq Int  BY WeightsAssumption
    <3>3. shares[k] \in Int  BY <3>1, <3>2
    <3> QED  BY <3>3 DEF Clamp
  <2> QED  BY <2>1 DEF CallOK
<1> HIDE DEF c
<1>4. /\ scoring' = [n \in Scorings |-> scoring'[n]] /\ scored' = scored
      /\ \A n \in Scorings : scoring'[n] = IF n = m THEN c ELSE scoring[n]
  BY <1>2 DEF WeightsInv, ScoreStarts
<1>5. versions' = versions /\ active' = active  BY DEF ScoreStarts
<1> QED  BY <1>3, <1>4, <1>5 DEF WeightsInv

LEMMA ScoreEndsKeeps ==
    ASSUME WeightsInv, NEW m \in Scorings, NEW opinion \in Opinions \cup {0}, ScoreEnds(m, opinion)
    PROVE  WeightsInv'
<1> DEFINE o == Adjustment(opinion)  s == Stored(scoring[m], o)
           scores == [k \in Parts |-> IF k = Ai THEN o ELSE scoring[m].shares[k]]
<1>1. scored' = [scored EXCEPT ![m] = s] /\ scoring' = [scoring EXCEPT ![m] = None]
      /\ scoring[m] # None /\ versions' = versions /\ active' = active
  BY DEF ScoreEnds
<1>2. scoring[m].profile = 1 /\ scoring[m].weights = DefaultWeights
      /\ scoring[m].shares \in [Components -> Int]
  BY <1>1 DEF WeightsInv, CallOK
<1>3. o \in -100..100
  BY WeightsAssumption DEF Adjustment, Clamp
<1>4. scores \in [Parts -> Int] /\ scores[Ai] = o
  BY <1>2, <1>3, WeightsAssumption DEF Parts
<1>5. s.profile = 1 /\ s.scores = scores /\ s.total = Total(scores, DefaultWeights)
  BY <1>2 DEF Stored, Parts
<1> HIDE DEF s, scores, o
<1>6. ScoreOK(s)  BY <1>3, <1>4, <1>5 DEF ScoreOK
<1>7. /\ scoring' = [n \in Scorings |-> scoring'[n]] /\ scored' = [n \in Scorings |-> scored'[n]]
      /\ \A n \in Scorings : /\ scoring'[n] = IF n = m THEN None ELSE scoring[n]
                             /\ scored'[n] = IF n = m THEN s ELSE scored[n]
  BY <1>1 DEF WeightsInv
<1>8. CallOK(None)  BY DEF CallOK
<1> QED  BY <1>1, <1>6, <1>7, <1>8 DEF WeightsInv

LEMMA WeightsStepInv == WeightsInv /\ [WeightsNext]_weightVars => WeightsInv'
<1> SUFFICES ASSUME WeightsInv, [WeightsNext]_weightVars PROVE WeightsInv'  OBVIOUS
<1>1. CASE WeightsNext
  BY <1>1, PublishKeeps, RestartKeeps, ScoreStartsKeeps, ScoreEndsKeeps DEF WeightsNext
<1>2. CASE UNCHANGED weightVars
  BY <1>2 DEF weightVars, WeightsInv
<1> QED  BY <1>1, <1>2

LEMMA WeightsInvariant == WeightsSpec => []WeightsInv
  BY WeightsInitInv, WeightsStepInv, PTL DEF WeightsSpec

\* Whatever the weights, the profiles published and the opinions of the AI layer, a total is
\* within its bounds and the profiles in use sum to 100 (publishWeightProfile, scoreMatch).
THEOREM WeightsTyped == WeightsSpec => []WeightsTypeOK
<1>1. WeightsInv => WeightsTypeOK
  <2> SUFFICES ASSUME WeightsInv PROVE WeightsTypeOK  OBVIOUS
  <2>1. ASSUME NEW p \in Processes
        PROVE  /\ active[p] \in DOMAIN versions[p]
               /\ \A n \in DOMAIN versions[p] : SumFunction(versions[p][n]) = 100
    <3>1. CASE p = "api"  BY <3>1 DEF WeightsInv
    <3>2. CASE p = "worker"
      <4>1. DOMAIN <<DefaultWeights>> = {1} /\ <<DefaultWeights>>[1] = DefaultWeights  OBVIOUS
      <4>2. versions[p] = <<DefaultWeights>> /\ active[p] = 1  BY <3>2 DEF WeightsInv
      <4> QED  BY <4>1, <4>2, WeightsAssumption
    <3> QED  BY <3>1, <3>2 DEF Processes
  <2>2. ASSUME NEW m \in Scorings, scored[m] # None PROVE scored[m].total \in 0..Full
    <3>1. scored[m].scores \in [Parts -> Int] /\ scored[m].scores[Ai] \in -100..100
          /\ scored[m].total = Total(scored[m].scores, DefaultWeights)
      BY <2>2 DEF WeightsInv, ScoreOK
    <3> QED  BY <3>1, NudgeBounded
  <2> QED  BY <2>1, <2>2 DEF WeightsTypeOK
<1> QED  BY <1>1, WeightsInvariant, PTL

\* Whatever the weights, the profiles published and the restarts, a stored total can be computed
\* again in every process that knows the profile it names, and the AI layer moved it by no more
\* than its weight (docs/scoring/weights.md).
THEOREM ScoresAlwaysHold == WeightsSpec => []ScoresHold
<1>1. WeightsInv => ScoresHold
  <2> SUFFICES ASSUME WeightsInv PROVE ScoresHold  OBVIOUS
  <2>1. ASSUME NEW m \in Scorings, scored[m] # None
        PROVE  /\ scored[m].profile = 1
               /\ scored[m].scores \in [Parts -> Int] /\ scored[m].scores[Ai] \in -100..100
               /\ scored[m].total = Total(scored[m].scores, DefaultWeights)
    BY <2>1 DEF WeightsInv, ScoreOK
  <2>2. \A p \in Processes : versions[p][1] = DefaultWeights
    <3>1. <<DefaultWeights>>[1] = DefaultWeights  OBVIOUS
    <3> QED  BY <3>1 DEF WeightsInv, Processes
  <2>3. ScoresReproducible
    BY <2>1, <2>2 DEF ScoresReproducible
  <2>4. AiOnlyNudges
    BY <2>1, NudgeBounded DEF AiOnlyNudges
  <2> QED  BY <2>3, <2>4 DEF ScoresHold
<1> QED  BY <1>1, WeightsInvariant, PTL

--------------------------------------------------------------------------------
(***************************************************************************)
(* RiskRules.  The pairs that are met are pairs: their similarities are    *)
(* percentages, and what is called exact is alike in every respect.  On    *)
(* such pairs every measure is between 0 and the whole, a pair that is     *)
(* more alike keeps every rule it had, and none of the measures can tell   *)
(* the watched mark from the other.                                        *)
(***************************************************************************)
\* What the features of a pair may be.
Pairs ==
    [exact : BOOLEAN, spelling : 0..100, sound : 0..100,
     leftTokens : SUBSET MarkTokens, rightTokens : SUBSET MarkTokens,
     leftNice : MarkClasses \cup {{}, {9}, {25}}, rightNice : MarkClasses \cup {{}, {9}, {25}},
     leftGoods : SUBSET GoodsTerms, rightGoods : SUBSET GoodsTerms]

Within(k, high) == k \in Int /\ 0 <= k /\ k <= high

\* The largest of a few integers is one of them, and none is larger.
LEMMA MaxOfFour ==
    ASSUME NEW i \in Int, NEW j \in Int, NEW k \in Int, NEW l \in Int
    PROVE  /\ Max({i, j, k, l}) \in {i, j, k, l}
           /\ \A n \in {i, j, k, l} : Max({i, j, k, l}) >= n
<1>1. \E n \in {i, j, k, l} : \A o \in {i, j, k, l} : n >= o
  OBVIOUS
<1> QED  BY <1>1 DEF Max

LEMMA MaxOfThree ==
    ASSUME NEW i \in Int, NEW j \in Int, NEW k \in Int
    PROVE  /\ Max({i, j, k}) \in {i, j, k}
           /\ \A n \in {i, j, k} : Max({i, j, k}) >= n
<1>1. \E n \in {i, j, k} : \A o \in {i, j, k} : n >= o
  OBVIOUS
<1> QED  BY <1>1 DEF Max

LEMMA MaxOfRanks ==
    ASSUME NEW S \in SUBSET (0..4), S # {}
    PROVE  Max(S) \in S /\ \A n \in S : Max(S) >= n
<1>1. \E n \in S : \A o \in S : n >= o
  <2>1. CASE 4 \in S  BY <2>1
  <2>2. CASE 4 \notin S /\ 3 \in S  BY <2>2
  <2>3. CASE 4 \notin S /\ 3 \notin S /\ 2 \in S  BY <2>3
  <2>4. CASE 4 \notin S /\ 3 \notin S /\ 2 \notin S /\ 1 \in S  BY <2>4
  <2>5. CASE 4 \notin S /\ 3 \notin S /\ 2 \notin S /\ 1 \notin S
    <3>1. \A n \in S : n = 0  BY <2>5
    <3>2. 0 \in S  BY <3>1
    <3> QED  BY <3>1, <3>2
  <2> QED  BY <2>1, <2>2, <2>3, <2>4, <2>5
<1> QED  BY <1>1 DEF Max

\* A share of a finite set that is not empty is a share.
LEMMA ShareOfSet ==
    ASSUME NEW A, NEW B, IsFiniteSet(A), IsFiniteSet(B), A \cup B # {}
    PROVE  /\ Within((100 * Cardinality(A \cap B)) \div Cardinality(A \cup B), 100)
           /\ Within(Share(Cardinality(A \cap B), Cardinality(A \cup B)), Whole)
<1>0. A \cap B \subseteq A \cup B  OBVIOUS
<1>1. IsFiniteSet(A \cup B)
  <2> HIDE <1>0
  <2> QED  BY FS_Union, ZenonT(30)
<1>2. Cardinality(A \cap B) \in Nat /\ Cardinality(A \cup B) \in Nat
       /\ Cardinality(A \cap B) <= Cardinality(A \cup B)
  BY <1>0, <1>1, FS_Subset, FS_CardinalityType
<1>3. Cardinality(A \cup B) # 0  BY <1>1, FS_EmptySet
<1> DEFINE n == Cardinality(A \cap B)  d == Cardinality(A \cup B)
<1>4. n \in Nat /\ d \in Nat \ {0} /\ n <= d  BY <1>2, <1>3
<1> HIDE DEF n, d
<1>5. Within((100 * n) \div d, 100)  BY <1>4 DEF Within
<1>6. Within(Share(n, d), Whole)  BY <1>4 DEF Within, Share, Whole
<1> QED  BY <1>5, <1>6 DEF n, d

LEMMA NiceFinite == ASSUME NEW p \in Pairs PROVE IsFiniteSet(p.leftNice) /\ IsFiniteSet(p.rightNice)
<1>1. IsFiniteSet({}) /\ IsFiniteSet({9}) /\ IsFiniteSet({25})
  BY FS_EmptySet, FS_Singleton
<1>2. p.leftNice \in MarkClasses \cup {{}, {9}, {25}} /\ p.rightNice \in MarkClasses \cup {{}, {9}, {25}}
  BY DEF Pairs
<1> QED  BY <1>1, <1>2, RiskAssumption

LEMMA TokenSetIs == ASSUME NEW p \in Pairs PROVE Within(TokenSet(p), 100)
<1>1. IsFiniteSet(p.leftTokens) /\ IsFiniteSet(p.rightTokens)
  BY FS_Subset, RiskAssumption DEF Pairs
<1>2. CASE p.leftTokens \cup p.rightTokens = {}  BY <1>2 DEF TokenSet, Within
<1>3. CASE p.leftTokens \cup p.rightTokens # {}
  <2>1. Within((100 * Cardinality(p.leftTokens \cap p.rightTokens))
            \div Cardinality(p.leftTokens \cup p.rightTokens), 100)
    BY <1>1, <1>3, ShareOfSet
  <2> QED  BY <1>3, <2>1 DEF TokenSet
<1> QED  BY <1>2, <1>3

LEMMA NiceJaccardIs == ASSUME NEW p \in Pairs PROVE Within(NiceJaccard(p), Whole)
<1>2. CASE p.leftNice \cup p.rightNice = {}  BY <1>2 DEF NiceJaccard, Within, Whole
<1>3. CASE p.leftNice \cup p.rightNice # {}
  <2>1. Within(Share(Cardinality(p.leftNice \cap p.rightNice),
                     Cardinality(p.leftNice \cup p.rightNice)), Whole)
    BY NiceFinite, <1>3, ShareOfSet
  <2> QED  BY <1>3, <2>1 DEF NiceJaccard
<1> QED  BY <1>2, <1>3

LEMMA TextSimilarityIs == ASSUME NEW p \in Pairs, HasText(p) PROVE Within(TextSimilarity(p), Whole)
<1>1. IsFiniteSet(p.leftGoods) /\ IsFiniteSet(p.rightGoods)
  BY FS_Subset, RiskAssumption DEF Pairs
<1>2. p.leftGoods \cup p.rightGoods # {}  BY DEF HasText
<1>3. Within(Share(Cardinality(p.leftGoods \cap p.rightGoods),
                   Cardinality(p.leftGoods \cup p.rightGoods)), Whole)
  BY <1>1, <1>2, ShareOfSet
<1> QED  BY <1>3 DEF TextSimilarity

\* How near classes of two kinds are.
LEMMA CrossClassStrengthIs == ASSUME NEW p PROVE Within(CrossClassStrength(p), 55)
<1> DEFINE T == {0} \cup {r[2] : r \in {x \in CrossClassRelations :
                    \E c \in p.leftNice, d \in p.rightNice : {c, d} = x[1]}}
<1>1. T \subseteq {0, 40, 45, 50, 55} /\ 0 \in T
  BY DEF CrossClassRelations
<1>2. CrossClassStrength(p) = Max(T)  BY DEF CrossClassStrength
<1> HIDE DEF T
<1>3. \E n \in T : \A o \in T : n >= o
  <2>1. CASE 55 \in T  BY <1>1, <2>1
  <2>2. CASE 55 \notin T /\ 50 \in T  BY <1>1, <2>2
  <2>3. CASE 55 \notin T /\ 50 \notin T /\ 45 \in T  BY <1>1, <2>3
  <2>4. CASE 55 \notin T /\ 50 \notin T /\ 45 \notin T /\ 40 \in T  BY <1>1, <2>4
  <2>5. CASE 55 \notin T /\ 50 \notin T /\ 45 \notin T /\ 40 \notin T
    <3>1. T \subseteq {0}  BY <1>1, <2>5
    <3> QED  BY <1>1, <3>1
  <2> QED  BY <2>1, <2>2, <2>3, <2>4, <2>5
<1>4. Max(T) \in T  BY <1>3 DEF Max
<1>5. \A k \in {0, 40, 45, 50, 55} : Within(k, 55)  BY DEF Within
<1>6. Max(T) \in {0, 40, 45, 50, 55}  BY <1>1, <1>4
<1> QED  BY <1>2, <1>5, <1>6

LEMMA OverallIs ==
    ASSUME NEW p \in Pairs
    PROVE  /\ Within(Overall(p), Whole)
           /\ ~HasText(p) => Overall(p) >= (NiceJaccard(p) * 60) \div 100
           /\ ~HasText(p) /\ NiceJaccard(p) = 0 => Overall(p) <= 3850
<1> DEFINE n == NiceJaccard(p)  s == CrossClassStrength(p)  t == TextSimilarity(p)
           i == (n * 50) \div 100  j == s * 55  k == (n * 60) \div 100  l == s * 70
<1>1. Within(n, Whole) /\ Within(s, 55)
  BY NiceJaccardIs, CrossClassStrengthIs
<1>2. Within(i, Whole) /\ Within(j, Whole) /\ Within(k, 6000) /\ Within(l, 3850) /\ (n = 0 => k = 0)
  <2> HIDE DEF n, s
  <2> QED  BY <1>1 DEF Within, Whole
<1>3. CASE HasText(p)
  <2>1. Within(t, Whole)  BY <1>3, TextSimilarityIs
  <2>2. Overall(p) = Max({t, i, j})  BY <1>3 DEF Overall
  <2> HIDE DEF i, j, t
  <2>4. t \in Int /\ i \in Int /\ j \in Int  BY <1>2, <2>1 DEF Within
  <2>3. Max({t, i, j}) \in {t, i, j}  BY <2>4, MaxOfThree
  <2> QED  BY <1>2, <1>3, <2>1, <2>2, <2>3
<1>4. CASE ~HasText(p)
  <2>1. Overall(p) = OfTwo(k, l)  BY <1>4 DEF Overall
  <2> HIDE DEF k, l, n
  <2>2. /\ Within(OfTwo(k, l), Whole) /\ OfTwo(k, l) >= k /\ (k = 0 => OfTwo(k, l) <= 3850)
    BY <1>2 DEF OfTwo, Within, Whole
  <2> QED  BY <1>2, <1>4, <2>1, <2>2 DEF k, n
<1> QED  BY <1>3, <1>4

LEMMA GoodsStrengthIs ==
    ASSUME NEW p \in Pairs
    PROVE  /\ Within(GoodsStrength(p), Whole)
           /\ GoodsStrength(p) >= Overall(p)
           /\ ~HasText(p) /\ Overall(p) <= 4000 => GoodsStrength(p) <= 4000
<1> DEFINE o == Overall(p)  c == Coverage(p)
<1>1. Within(o, Whole)  BY OverallIs
<1>2. c \in {8500, 4000, 2000} /\ (~HasText(p) => c <= 4000)
  BY DEF Coverage
<1>3. GoodsStrength(p) = OfTwo(o, c)  BY DEF GoodsStrength
<1> HIDE DEF o, c
<1>4. /\ Within(OfTwo(o, c), Whole) /\ OfTwo(o, c) >= o
      /\ c <= 4000 /\ o <= 4000 => OfTwo(o, c) <= 4000
  BY <1>1, <1>2 DEF OfTwo, Within, Whole
<1> QED  BY <1>2, <1>3, <1>4 DEF o

--------------------------------------------------------------------------------
LEMMA SignStrengthIs ==
    ASSUME NEW p \in Pairs
    PROVE  /\ Within(SignStrength(p), 100)
           /\ p.exact => SignStrength(p) = 100
           /\ SignStrength(p) >= p.spelling /\ SignStrength(p) >= p.sound
           /\ SignStrength(p) >= TokenSet(p)
<1> DEFINE e == IF p.exact THEN 100 ELSE 0
           i == p.spelling  j == p.sound  k == TokenSet(p)
<1>1. /\ e \in Int /\ i \in Int /\ j \in Int /\ k \in Int
      /\ Within(e, 100) /\ Within(i, 100) /\ Within(j, 100) /\ Within(k, 100)
      /\ p.exact => e = 100
  BY TokenSetIs DEF Pairs, Within
<1>2. SignStrength(p) = Max({e, i, j, k})  BY DEF SignStrength
<1> HIDE DEF e, i, j, k
<1>3. /\ Max({e, i, j, k}) \in {e, i, j, k}
      /\ \A n \in {e, i, j, k} : Max({e, i, j, k}) >= n
  BY <1>1, MaxOfFour
<1> DEFINE m == Max({e, i, j, k})
<1>4. m \in {e, i, j, k} /\ m >= e /\ m >= i /\ m >= j /\ m >= k  BY <1>3
<1> HIDE DEF m
<1>5. Within(m, 100) /\ (p.exact => m = 100)  BY <1>1, <1>4 DEF Within
<1> QED  BY <1>2, <1>4, <1>5 DEF m, i, j, k

\* A pair whose every feature is at least as alike has at least the sign strength.
LEMMA SignStrengthGrows ==
    ASSUME NEW p \in Pairs, NEW q \in Pairs, p.exact => q.exact,
           p.spelling <= q.spelling, p.sound <= q.sound, TokenSet(p) <= TokenSet(q)
    PROVE  SignStrength(p) <= SignStrength(q)
<1> DEFINE e == IF p.exact THEN 100 ELSE 0
           i == p.spelling  j == p.sound  k == TokenSet(p)
<1>1. /\ e \in Int /\ i \in Int /\ j \in Int /\ k \in Int
  BY TokenSetIs DEF Pairs, Within
<1>2. SignStrength(p) = Max({e, i, j, k})  BY DEF SignStrength
<1>3. /\ i <= SignStrength(q) /\ j <= SignStrength(q) /\ k <= SignStrength(q)
      /\ e <= SignStrength(q)
  <2>1. i \in Int /\ j \in Int /\ q.spelling \in Int /\ q.sound \in Int
        /\ k \in Int /\ TokenSet(q) \in Int /\ SignStrength(q) \in Int /\ SignStrength(q) >= 0
    BY TokenSetIs, SignStrengthIs DEF Pairs, Within
  <2>2. SignStrength(q) >= q.spelling /\ SignStrength(q) >= q.sound
           /\ SignStrength(q) >= TokenSet(q) /\ (q.exact => SignStrength(q) = 100)
    BY SignStrengthIs
  <2>3. i <= q.spelling /\ j <= q.sound /\ k <= TokenSet(q) /\ (p.exact => q.exact)
    OBVIOUS
  <2>4. e <= SignStrength(q)
    <3>1. CASE p.exact  BY <2>2, <3>1
    <3>2. CASE ~p.exact  BY <2>1, <3>2
    <3> QED  BY <3>1, <3>2
  <2> QED  BY <2>1, <2>2, <2>3, <2>4
<1> HIDE DEF e, i, j, k
<1>4. Max({e, i, j, k}) \in {e, i, j, k}  BY <1>1, MaxOfFour
<1> QED  BY <1>2, <1>3, <1>4

\* The ranks that rules raise a pair to.
Ranks(p) == {Irrelevant} \cup {r[1] : r \in Rules(p)}

LEMMA RanksAre ==
    ASSUME NEW p \in Pairs
    PROVE  /\ 0 \in Ranks(p)
           /\ \A n : n \in Ranks(p) <=>
                \/ n = 0
                \/ n = (IF GoodsStrength(p) >= 5000 THEN 4 ELSE 3) /\ p.exact
                \/ n = 3 /\ SignStrength(p) >= 90 /\ SharesWord(p) /\ GoodsStrength(p) >= 5500
                \/ n = 3 /\ p.sound >= 90 /\ SignStrength(p) >= 75 /\ GoodsStrength(p) >= 5000
                \/ n = 4 /\ SignStrength(p) >= 80 /\ GoodsStrength(p) >= 7000
                \/ n = 2 /\ SignStrength(p) >= 70 /\ GoodsStrength(p) >= 4000
                \/ n = 1 /\ SignStrength(p) >= 55
<1> DEFINE g == GoodsStrength(p)  s == SignStrength(p)
           c1 == p.exact
           c2 == s >= 90 /\ SharesWord(p) /\ g >= 5500
           c3 == p.sound >= 90 /\ s >= 75 /\ g >= 5000
           c4 == s >= 80 /\ g >= 7000
           c5 == s >= 70 /\ g >= 4000
           c6 == s >= 55
           top == IF g >= 5000 THEN 4 ELSE 3
           All == {<<top, c1>>, <<3, c2>>, <<3, c3>>, <<4, c4>>, <<2, c5>>, <<1, c6>>}
<1>1. Rules(p) = {r \in All : r[2]}
  BY DEF Rules, Weak, Borderline, Relevant, Strong
<1>2. Ranks(p) = {0} \cup {r[1] : r \in {r \in All : r[2]}}
  BY <1>1 DEF Ranks, Irrelevant
<1> DEFINE Raises(n) == (n = top /\ c1) \/ (n = 3 /\ (c2 \/ c3)) \/ (n = 4 /\ c4) \/ (n = 2 /\ c5) \/ (n = 1 /\ c6)
<1>b. c1 \in BOOLEAN /\ c2 \in BOOLEAN /\ c3 \in BOOLEAN /\ c4 \in BOOLEAN /\ c5 \in BOOLEAN
      /\ c6 \in BOOLEAN
  BY DEF Pairs
<1> HIDE DEF c1, c2, c3, c4, c5, c6, top
<1>3. \A n : n \in {r[1] : r \in {r \in All : r[2]}} <=> Raises(n)
  <2>1. ASSUME NEW r \in All, r[2] PROVE Raises(r[1])
    <3>1. CASE r = <<top, c1>>  BY <1>b, <2>1, <3>1
    <3>2. CASE r = <<3, c2>>  BY <1>b, <2>1, <3>2
    <3>3. CASE r = <<3, c3>>  BY <1>b, <2>1, <3>3
    <3>4. CASE r = <<4, c4>>  BY <1>b, <2>1, <3>4
    <3>5. CASE r = <<2, c5>>  BY <1>b, <2>1, <3>5
    <3>6. CASE r = <<1, c6>>  BY <1>b, <2>1, <3>6
    <3> QED  BY <3>1, <3>2, <3>3, <3>4, <3>5, <3>6
  <2>2. ASSUME NEW n, Raises(n) PROVE \E r \in All : r[2] /\ r[1] = n
    <3>1. CASE n = top /\ c1
      <4>1. <<top, c1>>[2] /\ <<top, c1>>[1] = n  BY <1>b, <3>1
      <4> QED  BY <4>1
    <3>2. CASE n = 3 /\ c2
      <4>1. <<3, c2>>[2] /\ <<3, c2>>[1] = n  BY <1>b, <3>2
      <4> QED  BY <4>1
    <3>3. CASE n = 3 /\ c3
      <4>1. <<3, c3>>[2] /\ <<3, c3>>[1] = n  BY <1>b, <3>3
      <4> QED  BY <4>1
    <3>4. CASE n = 4 /\ c4
      <4>1. <<4, c4>>[2] /\ <<4, c4>>[1] = n  BY <1>b, <3>4
      <4> QED  BY <4>1
    <3>5. CASE n = 2 /\ c5
      <4>1. <<2, c5>>[2] /\ <<2, c5>>[1] = n  BY <1>b, <3>5
      <4> QED  BY <4>1
    <3>6. CASE n = 1 /\ c6
      <4>1. <<1, c6>>[2] /\ <<1, c6>>[1] = n  BY <1>b, <3>6
      <4> QED  BY <4>1
    <3> QED  BY <2>2, <3>1, <3>2, <3>3, <3>4, <3>5, <3>6
  <2> HIDE DEF All, Raises
  <2> QED  BY <2>1, <2>2
<1>4. \A n : n \in Ranks(p) <=>
        (n = 0) \/ (n = top /\ c1) \/ (n = 3 /\ (c2 \/ c3)) \/ (n = 4 /\ c4) \/ (n = 2 /\ c5) \/ (n = 1 /\ c6)
  BY <1>2, <1>3
<1> QED  BY <1>4 DEF c1, c2, c3, c4, c5, c6, top

LEMMA BandIs ==
    ASSUME NEW p \in Pairs
    PROVE  /\ Within(Band(p), 4)
           /\ Band(p) \in Ranks(p) /\ \A n \in Ranks(p) : Band(p) >= n
<1>1. Ranks(p) \subseteq 0..4  BY RanksAre
<1>2. Band(p) = Max(Ranks(p))  BY DEF Band, Ranks
<1>3. Band(p) \in Ranks(p) /\ \A n \in Ranks(p) : Band(p) >= n
  BY <1>1, <1>2, MaxOfRanks, RanksAre
<1> QED  BY <1>1, <1>3 DEF Within

\* No rule is lost to a pair that is as strong in its signs and in its goods.
LEMMA BandGrows ==
    ASSUME NEW p \in Pairs, NEW q \in Pairs, p.exact => q.exact, p.sound <= q.sound,
           SharesWord(p) => SharesWord(q), SignStrength(p) <= SignStrength(q),
           GoodsStrength(p) <= GoodsStrength(q)
    PROVE  Band(p) <= Band(q)
<1> DEFINE b == Band(p)  sp == SignStrength(p)  sq == SignStrength(q)
           gp == GoodsStrength(p)  gq == GoodsStrength(q)
<1>1. /\ Within(sp, 100) /\ Within(sq, 100) /\ Within(gp, Whole) /\ Within(gq, Whole)
      /\ p.sound \in Int /\ q.sound \in Int /\ Within(b, 4) /\ Within(Band(q), 4)
  BY SignStrengthIs, GoodsStrengthIs, BandIs DEF Pairs
<1>2. sp <= sq /\ gp <= gq /\ p.sound <= q.sound  OBVIOUS
<1>3. b \in Ranks(p)  BY BandIs
<1>4. \/ b = 0
      \/ b = (IF gp >= 5000 THEN 4 ELSE 3) /\ p.exact
      \/ b = 3 /\ sp >= 90 /\ SharesWord(p) /\ gp >= 5500
      \/ b = 3 /\ p.sound >= 90 /\ sp >= 75 /\ gp >= 5000
      \/ b = 4 /\ sp >= 80 /\ gp >= 7000
      \/ b = 2 /\ sp >= 70 /\ gp >= 4000
      \/ b = 1 /\ sp >= 55
  BY <1>3, RanksAre
<1> HIDE DEF b, sp, sq, gp, gq
<1>5. \/ b = 0
      \/ b = 3 /\ q.exact
      \/ b = 4 /\ q.exact /\ gq >= 5000
      \/ b = 3 /\ sq >= 90 /\ SharesWord(q) /\ gq >= 5500
      \/ b = 3 /\ q.sound >= 90 /\ sq >= 75 /\ gq >= 5000
      \/ b = 4 /\ sq >= 80 /\ gq >= 7000
      \/ b = 2 /\ sq >= 70 /\ gq >= 4000
      \/ b = 1 /\ sq >= 55
  <2>1. /\ sp \in Int /\ sq \in Int /\ gp \in Int /\ gq \in Int
        /\ p.sound \in Int /\ q.sound \in Int
    BY <1>1 DEF Within
  <2>2. \A n \in {55, 70, 75, 80, 90} : sp >= n => sq >= n  BY <1>2, <2>1
  <2>3. \A n \in {4000, 5000, 5500, 7000} : gp >= n => gq >= n  BY <1>2, <2>1
  <2>4. p.sound >= 90 => q.sound >= 90  BY <1>2, <2>1
  <2>5. CASE b = (IF gp >= 5000 THEN 4 ELSE 3) /\ p.exact
    <3>1. q.exact  BY <2>5
    <3>2. CASE gp >= 5000  BY <2>3, <2>5, <3>1, <3>2
    <3>3. CASE ~(gp >= 5000)  BY <2>5, <3>1, <3>3
    <3> QED  BY <3>2, <3>3
  <2>6. CASE b = 3 /\ sp >= 90 /\ SharesWord(p) /\ gp >= 5500  BY <2>2, <2>3, <2>6
  <2>7. CASE b = 3 /\ p.sound >= 90 /\ sp >= 75 /\ gp >= 5000  BY <2>2, <2>3, <2>4, <2>7
  <2>8. CASE b = 4 /\ sp >= 80 /\ gp >= 7000  BY <2>2, <2>3, <2>8
  <2>9. CASE b = 2 /\ sp >= 70 /\ gp >= 4000  BY <2>2, <2>3, <2>9
  <2>10. CASE b = 1 /\ sp >= 55  BY <2>2, <2>10
  <2> QED  BY <1>4, <2>5, <2>6, <2>7, <2>8, <2>9, <2>10
<1>6. \/ b \in Ranks(q)
      \/ b = 3 /\ 4 \in Ranks(q)
  BY <1>5, RanksAre DEF sq, gq
<1>7. \A n \in Ranks(q) : Band(q) >= n  BY BandIs
<1>8. b <= Band(q)
  <2>1. CASE b \in Ranks(q)  BY <1>1, <1>7, <2>1 DEF Within
  <2>2. CASE b = 3 /\ 4 \in Ranks(q)
    <3>1. Band(q) >= 4  BY <1>7, <2>2
    <3> QED  BY <1>1, <2>2, <3>1 DEF Within
  <2> QED  BY <1>6, <2>1, <2>2
<1> QED  BY <1>8 DEF b

LEMMA RiskOf ==
    ASSUME NEW k \in Int, NEW s \in Int, NEW g \in Int,
           NEW l \in Int, NEW t \in Int, NEW h \in Int, k <= l, s <= t, g <= h
    PROVE  (k * 14 * Whole + s * 2000 + g * 10 + Whole \div 2) \div Whole
               <= (l * 14 * Whole + t * 2000 + h * 10 + Whole \div 2) \div Whole
  BY DEF Whole

\* The value of the risk grows with its band and its strengths.
LEMMA RiskGrows ==
    ASSUME NEW p \in Pairs, NEW q \in Pairs, Band(p) <= Band(q),
           SignStrength(p) <= SignStrength(q), GoodsStrength(p) <= GoodsStrength(q)
    PROVE  RiskValue(p) <= RiskValue(q)
<1>1. /\ Band(p) \in Int /\ Band(q) \in Int /\ SignStrength(p) \in Int /\ SignStrength(q) \in Int
      /\ GoodsStrength(p) \in Int /\ GoodsStrength(q) \in Int
  BY BandIs, SignStrengthIs, GoodsStrengthIs DEF Within
<1> QED  BY <1>1, RiskOf DEF RiskValue

LEMMA GoodsGrow ==
    ASSUME NEW p \in Pairs, NEW q \in Pairs, HasText(p) = HasText(q), Overall(p) <= Overall(q)
    PROVE  GoodsStrength(p) <= GoodsStrength(q)
<1> DEFINE o == Overall(p)  r == Overall(q)  c == Coverage(p)  d == Coverage(q)
<1>1. o \in Int /\ r \in Int /\ o <= r  BY OverallIs DEF Within
<1>2. c \in {8500, 4000, 2000} /\ d \in {8500, 4000, 2000} /\ c <= d
  <2>1. HasText(p) \in BOOLEAN /\ HasText(q) \in BOOLEAN  BY DEF HasText
  <2> HIDE DEF o, r
  <2>2. CASE HasText(p)  BY <2>1, <2>2 DEF Coverage
  <2>3. CASE ~HasText(p)
    <3>1. c = (IF o > 0 THEN 4000 ELSE 2000) /\ d = (IF r > 0 THEN 4000 ELSE 2000)
      BY <2>1, <2>3 DEF Coverage, o, r
    <3> HIDE DEF c, d
    <3> QED  BY <1>1, <3>1
  <2> QED  BY <2>2, <2>3
<1>3. GoodsStrength(p) = OfTwo(o, c) /\ GoodsStrength(q) = OfTwo(r, d)  BY DEF GoodsStrength
<1> HIDE DEF o, r, c, d
<1> QED  BY <1>1, <1>2, <1>3 DEF OfTwo

\* Every pair that is met is one.
PairOK(p) == p \in Pairs /\ Fits(p)
PairInv == PairOK(pair)

LEMMA UnlikeIsPair == PairOK(Unlike)
<1>1. SignShares \in SUBSET Nat  BY RiskAssumption
<1>2. Min(SignShares) \in SignShares  BY <1>1, MinOfNaturals, RiskAssumption
<1>3. Min(SignShares) \in 0..100  BY <1>2, RiskAssumption
<1> QED  BY <1>3 DEF Unlike, PairOK, Pairs, Fits

LEMMA PairStep == PairInv /\ [RiskNext]_riskVars => PairInv'
<1> SUFFICES ASSUME PairOK(pair), [RiskNext]_riskVars PROVE PairOK(pair')
  BY DEF PairInv
<1>0. /\ pair.exact \in BOOLEAN /\ pair.spelling \in 0..100 /\ pair.sound \in 0..100
      /\ pair.leftTokens \in SUBSET MarkTokens /\ pair.rightTokens \in SUBSET MarkTokens
      /\ pair \in Pairs
  BY DEF PairOK, Pairs
<1>1. CASE RiskNext
  <2> SUFFICES pair' \in Pairs  BY <1>1 DEF RiskNext, PairOK
  <2>1. ASSUME NEW s \in SignShares, pair' = [pair EXCEPT !.exact = FALSE, !.spelling = s]
        PROVE  pair' \in Pairs
    BY <1>0, <2>1, RiskAssumption DEF Pairs
  <2>2. ASSUME NEW s \in SignShares \cup {100}, pair' = [pair EXCEPT !.exact = FALSE, !.sound = s]
        PROVE  pair' \in Pairs
    <3>1. s \in 0..100  BY <2>2, RiskAssumption
    <3> QED  BY <1>0, <2>2, <3>1 DEF Pairs
  <2>3. CASE pair' = [pair EXCEPT !.exact = TRUE, !.spelling = 100, !.sound = 100,
                               !.rightTokens = pair.leftTokens]
    <3>1. pair' = [exact |-> TRUE, spelling |-> 100, sound |-> 100,
                   leftTokens |-> pair.leftTokens, rightTokens |-> pair.leftTokens,
                   leftNice |-> pair.leftNice, rightNice |-> pair.rightNice,
                   leftGoods |-> pair.leftGoods, rightGoods |-> pair.rightGoods]
      BY <1>0, <2>3 DEF Pairs
    <3> QED  BY <1>0, <3>1 DEF Pairs
  <2>4. ASSUME NEW T \in SUBSET MarkTokens, pair' = [pair EXCEPT !.exact = FALSE, !.rightTokens = T]
        PROVE  pair' \in Pairs
    BY <1>0, <2>4 DEF Pairs
  <2>5. ASSUME NEW T \in SUBSET MarkTokens, pair' = [pair EXCEPT !.exact = FALSE, !.leftTokens = T]
        PROVE  pair' \in Pairs
    BY <1>0, <2>5 DEF Pairs
  <2>6. ASSUME NEW C \in MarkClasses, pair' = [pair EXCEPT !.leftNice = C]
        PROVE  pair' \in Pairs
    BY <1>0, <2>6 DEF Pairs
  <2>7. ASSUME NEW C \in MarkClasses, pair' = [pair EXCEPT !.rightNice = C]
        PROVE  pair' \in Pairs
    BY <1>0, <2>7 DEF Pairs
  <2>8. ASSUME NEW G \in SUBSET GoodsTerms, pair' = [pair EXCEPT !.leftGoods = G]
        PROVE  pair' \in Pairs
    BY <1>0, <2>8 DEF Pairs
  <2>9. ASSUME NEW G \in SUBSET GoodsTerms, pair' = [pair EXCEPT !.rightGoods = G]
        PROVE  pair' \in Pairs
    BY <1>0, <2>9 DEF Pairs
  <2> DEFINE spelled == \E s \in SignShares : pair' = [pair EXCEPT !.exact = FALSE, !.spelling = s]
             sounds == \E s \in SignShares \cup {100} : pair' = [pair EXCEPT !.exact = FALSE, !.sound = s]
             same == pair' = [pair EXCEPT !.exact = TRUE, !.spelling = 100, !.sound = 100,
                                          !.rightTokens = pair.leftTokens]
             token(T) == \/ pair' = [pair EXCEPT !.exact = FALSE, !.rightTokens = T]
                         \/ pair' = [pair EXCEPT !.exact = FALSE, !.leftTokens = T]
             nice(C) == \/ pair' = [pair EXCEPT !.leftNice = C]
                        \/ pair' = [pair EXCEPT !.rightNice = C]
             good(G) == \/ pair' = [pair EXCEPT !.leftGoods = G]
                        \/ pair' = [pair EXCEPT !.rightGoods = G]
  <2>10. \/ spelled \/ sounds \/ same
         \/ \E T \in SUBSET MarkTokens : token(T)
         \/ \E C \in MarkClasses : nice(C)
         \/ \E G \in SUBSET GoodsTerms : good(G)
    BY <1>1, Zenon DEF RiskNext
  <2>11. spelled \/ sounds \/ same => pair' \in Pairs  BY <2>1, <2>2, <2>3, Zenon
  <2>12. \A T \in SUBSET MarkTokens : token(T) => pair' \in Pairs  BY <2>4, <2>5, Zenon
  <2>13. \A C \in MarkClasses : nice(C) => pair' \in Pairs  BY <2>6, <2>7, Zenon
  <2>14. \A G \in SUBSET GoodsTerms : good(G) => pair' \in Pairs  BY <2>8, <2>9, Zenon
  <2> HIDE DEF spelled, sounds, same, token, nice, good
  <2> QED  BY <2>10, <2>11, <2>12, <2>13, <2>14, Zenon
<1>2. CASE UNCHANGED riskVars  BY <1>2 DEF riskVars
<1> QED  BY <1>1, <1>2

LEMMA PairsOnly == RiskSpec => []PairInv
<1>1. RiskInit => PairInv  BY UnlikeIsPair DEF RiskInit, PairInv
<1> QED  BY <1>1, PairStep, PTL DEF RiskSpec

\* Whatever the pairs, one that becomes more alike in signs and goods is never thought less of a
\* risk by the rules and their value (assessRiskFromFeatures).
THEOREM MoreAlikeIsNeverSafer == RiskSpec => MoreAlikeNeverSafer
<1>1. PairInv /\ [RiskNext]_riskVars =>
        [MoreAlike(pair, pair') =>
            Band(pair) <= Band(pair') /\ RiskValue(pair) <= RiskValue(pair')]_riskVars
  <2> SUFFICES ASSUME PairInv, [RiskNext]_riskVars, MoreAlike(pair, pair')
               PROVE  Band(pair) <= Band(pair') /\ RiskValue(pair) <= RiskValue(pair')
    OBVIOUS
  <2>1. pair \in Pairs /\ pair' \in Pairs  BY PairStep DEF PairOK, PairInv
  <2>2. SignStrength(pair) <= SignStrength(pair')
    BY <2>1, SignStrengthGrows DEF MoreAlike
  <2>3. GoodsStrength(pair) <= GoodsStrength(pair')
    BY <2>1, GoodsGrow DEF MoreAlike
  <2>4. Band(pair) <= Band(pair')  BY <2>1, <2>2, <2>3, BandGrows DEF MoreAlike
  <2> QED  BY <2>1, <2>2, <2>3, <2>4, RiskGrows
<1> QED  BY <1>1, PairsOnly, PTL DEF RiskSpec, MoreAlikeNeverSafer

LEMMA ExactIs ==
    ASSUME NEW p \in Pairs, Fits(p), p.exact
    PROVE  p.spelling = 100 /\ p.sound = 100 /\ SignStrength(p) = 100
  BY SignStrengthIs DEF Fits

\* The risk of a name that is taken, and the most a risk can be.
LEMMA RiskValueIs ==
    ASSUME NEW p \in Pairs
    PROVE  /\ Within(RiskValue(p), 86)
           /\ SignStrength(p) = 100 /\ Band(p) >= 3 => RiskValue(p) >= 60
           /\ SignStrength(p) = 100 /\ Band(p) = 4 => RiskValue(p) >= 76
<1> DEFINE b == Band(p)  s == SignStrength(p)  g == GoodsStrength(p)
<1>1. Within(b, 4) /\ Within(s, 100) /\ Within(g, Whole)
  BY BandIs, SignStrengthIs, GoodsStrengthIs
<1>2. RiskValue(p) = (b * 14 * Whole + s * 2000 + g * 10 + Whole \div 2) \div Whole
  BY DEF RiskValue
<1> HIDE DEF b, s, g
<1>3. Within(RiskValue(p), 86)  BY <1>1, <1>2 DEF Within, Whole
<1>4. s = 100 /\ b >= 3 => RiskValue(p) >= 60  BY <1>1, <1>2 DEF Within, Whole
<1>5. s = 100 /\ b = 4 => RiskValue(p) >= 76  BY <1>1, <1>2 DEF Within, Whole
<1> QED  BY <1>3, <1>4, <1>5 DEF s, b

LEMMA ExactRanks ==
    ASSUME NEW p \in Pairs, p.exact
    PROVE  Band(p) >= 3 /\ (GoodsStrength(p) >= 5000 => Band(p) = 4)
<1>1. CASE GoodsStrength(p) >= 5000
  <2>1. 4 \in Ranks(p)  BY <1>1, RanksAre
  <2>2. Band(p) >= 4  BY <2>1, BandIs
  <2> QED  BY <2>2, BandIs DEF Within
<1>2. CASE ~(GoodsStrength(p) >= 5000)
  <2>1. 3 \in Ranks(p)  BY <1>2, RanksAre
  <2> QED  BY <1>2, <2>1, BandIs
<1> QED  BY <1>1, <1>2

\* A pair of names in research: what its goods come to.
LEMMA ResearchPair ==
    ASSUME NEW p \in Pairs, NEW overlap \in BOOLEAN
    PROVE  LET r == AsResearch(p, overlap)
           IN  /\ r \in Pairs
               /\ r.exact = p.exact /\ r.spelling = p.spelling /\ r.sound = p.sound
               /\ r.leftTokens = p.leftTokens /\ r.rightTokens = p.rightTokens
               /\ ~HasText(r)
               /\ r.leftNice = {9} /\ r.rightNice = IF overlap THEN {9} ELSE {25}
<1> DEFINE r == AsResearch(p, overlap)
<1>1. r = [exact |-> p.exact, spelling |-> p.spelling, sound |-> p.sound,
           leftTokens |-> p.leftTokens, rightTokens |-> p.rightTokens,
           leftNice |-> {9}, rightNice |-> IF overlap THEN {9} ELSE {25},
           leftGoods |-> {}, rightGoods |-> {}]
  <2> DEFINE n == IF overlap THEN {9} ELSE {25}
  <2>1. r = [p EXCEPT !.leftGoods = {}, !.rightGoods = {}, !.leftNice = {9}, !.rightNice = n]
    BY DEF AsResearch
  <2> HIDE DEF r, n
  <2> DEFINE p1 == [p EXCEPT !.leftGoods = {}]  p2 == [p1 EXCEPT !.rightGoods = {}]
             p3 == [p2 EXCEPT !.leftNice = {9}]  p4 == [p3 EXCEPT !.rightNice = n]
  <2>2. r = p4  BY <2>1
  <2>3. p1 = [exact |-> p.exact, spelling |-> p.spelling, sound |-> p.sound,
              leftTokens |-> p.leftTokens, rightTokens |-> p.rightTokens,
              leftNice |-> p.leftNice, rightNice |-> p.rightNice,
              leftGoods |-> {}, rightGoods |-> p.rightGoods]
    BY DEF Pairs
  <2> HIDE DEF p1
  <2>4. p2 = [exact |-> p.exact, spelling |-> p.spelling, sound |-> p.sound,
              leftTokens |-> p.leftTokens, rightTokens |-> p.rightTokens,
              leftNice |-> p.leftNice, rightNice |-> p.rightNice,
              leftGoods |-> {}, rightGoods |-> {}]
    BY <2>3
  <2> HIDE DEF p2
  <2>5. p3 = [exact |-> p.exact, spelling |-> p.spelling, sound |-> p.sound,
              leftTokens |-> p.leftTokens, rightTokens |-> p.rightTokens,
              leftNice |-> {9}, rightNice |-> p.rightNice,
              leftGoods |-> {}, rightGoods |-> {}]
    BY <2>4
  <2> HIDE DEF p3
  <2>6. p4 = [exact |-> p.exact, spelling |-> p.spelling, sound |-> p.sound,
              leftTokens |-> p.leftTokens, rightTokens |-> p.rightTokens,
              leftNice |-> {9}, rightNice |-> n, leftGoods |-> {}, rightGoods |-> {}]
    BY <2>5
  <2> QED  BY <2>2, <2>6 DEF n
<1> HIDE DEF r
<1>2. r \in Pairs
  <2>1. (IF overlap THEN {9} ELSE {25}) \in MarkClasses \cup {{}, {9}, {25}}  OBVIOUS
  <2> DEFINE n == IF overlap THEN {9} ELSE {25}
  <2>2. r = [exact |-> p.exact, spelling |-> p.spelling, sound |-> p.sound,
           leftTokens |-> p.leftTokens, rightTokens |-> p.rightTokens,
           leftNice |-> {9}, rightNice |-> n, leftGoods |-> {}, rightGoods |-> {}]
    BY <1>1
  <2>3. n \in MarkClasses \cup {{}, {9}, {25}}  BY <2>1
  <2> HIDE DEF n
  <2> QED  BY <2>2, <2>3 DEF Pairs
<1> QED  BY <1>1, <1>2 DEF HasText, r

LEMMA OneClassGoods ==
    ASSUME NEW r \in Pairs, ~HasText(r), r.leftNice = {9}, r.rightNice = {9}
    PROVE  GoodsStrength(r) >= 5000
<1>1. r.leftNice \cap r.rightNice = {9} /\ r.leftNice \cup r.rightNice = {9} /\ {9} # {}
  OBVIOUS
<1>2. Cardinality({9}) = 1  BY FS_Singleton
<1>3. NiceJaccard(r) = Share(1, 1)
  BY <1>1, <1>2 DEF NiceJaccard
<1>4. Overall(r) >= (NiceJaccard(r) * 60) \div 100  BY OverallIs
<1>5. (NiceJaccard(r) * 60) \div 100 = 6000  BY <1>3 DEF Share, Whole
<1>6. GoodsStrength(r) >= Overall(r) /\ GoodsStrength(r) \in Int /\ Overall(r) \in Int
  BY GoodsStrengthIs, OverallIs DEF Within
<1> QED  BY <1>4, <1>5, <1>6

LEMMA TwoClassGoods ==
    ASSUME NEW q \in Pairs, ~HasText(q), q.leftNice = {9}, q.rightNice = {25}
    PROVE  GoodsStrength(q) <= 4000
<1>1. q.leftNice \cap q.rightNice = {} /\ q.leftNice \cup q.rightNice = {9, 25} /\ {9, 25} # {}
  OBVIOUS
<1>2. Cardinality({}) = 0 /\ IsFiniteSet({9, 25})
  <2>1. IsFiniteSet({9}) /\ IsFiniteSet({25}) /\ {9, 25} = {9} \cup {25}  BY FS_Singleton
  <2>2. IsFiniteSet({9} \cup {25})  BY <2>1, FS_AddElement
  <2> QED  BY <2>1, <2>2, FS_EmptySet
<1>3. NiceJaccard(q) = Share(0, Cardinality({9, 25}))  BY <1>1, <1>2 DEF NiceJaccard
<1>4. Cardinality({9, 25}) \in Nat \ {0}  BY <1>2, FS_CardinalityType, FS_EmptySet
<1>5. \A d \in Nat \ {0} : Share(0, d) = 0  BY DEF Share, Whole
<1>6. NiceJaccard(q) = 0  BY <1>3, <1>4, <1>5
<1>7. Overall(q) <= 3850 /\ Overall(q) \in Int  BY <1>6, OverallIs DEF Within
<1>8. Overall(q) <= 4000  BY <1>7
<1> QED  BY <1>8, GoodsStrengthIs

\* Advice is never milder for classes that overlap.
LEMMA OverlapCounts ==
    ASSUME NEW p \in Pairs
    PROVE  /\ AsResearch(p, TRUE) \in Pairs /\ AsResearch(p, FALSE) \in Pairs
           /\ RiskValue(AsResearch(p, FALSE)) <= RiskValue(AsResearch(p, TRUE))
<1> DEFINE r == AsResearch(p, TRUE)  q == AsResearch(p, FALSE)
<1>1. /\ r \in Pairs /\ q \in Pairs /\ r.exact = q.exact /\ r.spelling = q.spelling
      /\ r.sound = q.sound /\ r.leftTokens = q.leftTokens /\ r.rightTokens = q.rightTokens
      /\ ~HasText(r) /\ r.leftNice = {9} /\ r.rightNice = {9}
      /\ ~HasText(q) /\ q.leftNice = {9} /\ q.rightNice = {25}
  BY ResearchPair
<1> HIDE DEF r, q
<1>2. GoodsStrength(q) <= GoodsStrength(r)
  <2>1. GoodsStrength(r) >= 5000 /\ GoodsStrength(q) <= 4000
    BY <1>1, OneClassGoods, TwoClassGoods
  <2>2. GoodsStrength(r) \in Int /\ GoodsStrength(q) \in Int  BY <1>1, GoodsStrengthIs DEF Within
  <2> QED  BY <2>1, <2>2
<1>3. TokenSet(q) = TokenSet(r) /\ SharesWord(q) = SharesWord(r)
  BY <1>1 DEF TokenSet, SharesWord
<1>4. SignStrength(q) = SignStrength(r)
  BY <1>1, <1>3 DEF SignStrength
<1>5. SignStrength(q) <= SignStrength(r) /\ q.sound <= r.sound
  <2>1. SignStrength(r) \in Int /\ r.sound \in Int  BY <1>1, SignStrengthIs DEF Within, Pairs
  <2> QED  BY <1>1, <1>4, <2>1
<1>6. Band(q) <= Band(r)  BY <1>1, <1>2, <1>3, <1>5, BandGrows
<1>7. RiskValue(q) <= RiskValue(r)  BY <1>1, <1>2, <1>5, <1>6, RiskGrows
<1> QED  BY <1>1, <1>7 DEF r, q

LEMMA TakenIsHigh == ASSUME PairInv PROVE TakenNameIsHigh
<1> DEFINE r == AsResearch(pair, TRUE)  q == AsResearch(pair, FALSE)
<1>1. pair \in Pairs /\ Fits(pair)  BY DEF PairInv, PairOK
<1>2. /\ r \in Pairs /\ q \in Pairs /\ RiskValue(q) <= RiskValue(r)
  BY <1>1, OverlapCounts
<1>3. /\ r.exact = pair.exact /\ r.spelling = pair.spelling /\ r.sound = pair.sound
      /\ r.leftTokens = pair.leftTokens /\ r.rightTokens = pair.rightTokens
      /\ ~HasText(r) /\ r.leftNice = {9} /\ r.rightNice = {9}
  BY <1>1, ResearchPair
<1> DEFINE v == RiskValue(r)  w == RiskValue(q)  i == pair.spelling  j == pair.sound
           near == ResearchRisk(pair, TRUE)  far == ResearchRisk(pair, FALSE)
<1>4. /\ near = (70 * v + 15 * i + 10 * j + 5 * 80 + 50) \div 100
      /\ far = (70 * w + 15 * i + 10 * j + 5 * 15 + 50) \div 100
  BY DEF ResearchRisk
<1> HIDE DEF near, far, r, q
<1>5. Within(v, 86) /\ Within(w, 86) /\ w <= v /\ Within(i, 100) /\ Within(j, 100)
  BY <1>1, <1>2, RiskValueIs DEF Within, Pairs
<1>6. ASSUME pair.exact
      PROVE  RiskValue(pair) >= 60 /\ v >= 76 /\ i = 100 /\ j = 100
  <2>1. i = 100 /\ j = 100 /\ SignStrength(pair) = 100  BY <1>1, <1>6, ExactIs
  <2>2. RiskValue(pair) >= 60  BY <1>1, <1>6, <2>1, ExactRanks, RiskValueIs
  <2>3. Fits(r) /\ r.exact  BY <1>1, <1>3, <1>6 DEF Fits
  <2>4. SignStrength(r) = 100  BY <1>2, <2>3, ExactIs
  <2>5. GoodsStrength(r) >= 5000  BY <1>2, <1>3, OneClassGoods
  <2>6. Band(r) = 4  BY <1>2, <2>3, <2>5, ExactRanks
  <2>7. v >= 76  BY <1>2, <2>4, <2>6, RiskValueIs
  <2> QED  BY <2>1, <2>2, <2>7
<1> HIDE DEF v, w, i, j, r, q
<1>7. far <= near  BY <1>4, <1>5 DEF Within
<1>8. Within(near, 100)  BY <1>4, <1>5 DEF Within
<1>9. ASSUME pair.exact PROVE near >= 70  BY <1>4, <1>5, <1>6, <1>9 DEF Within
<1>10. near \in 0..100  BY <1>8 DEF Within
<1>11. AdviceBand(near) = IF near >= 70 THEN "high" ELSE IF near >= 40 THEN "medium" ELSE "low"
  BY DEF AdviceBand
<1>12. pair.exact => RiskValue(pair) >= 60 /\ AdviceBand(near) = "high"
  BY <1>6, <1>9, <1>11
<1>13. near = ResearchRisk(pair, TRUE) /\ far = ResearchRisk(pair, FALSE)
  BY DEF near, far
<1> QED  BY <1>7, <1>10, <1>12, <1>13 DEF TakenNameIsHigh

\* The same two marks, the other one watched.
TurnedPair(p) ==
    [p EXCEPT !.leftTokens = p.rightTokens, !.rightTokens = p.leftTokens,
              !.leftNice = p.rightNice, !.rightNice = p.leftNice,
              !.leftGoods = p.rightGoods, !.rightGoods = p.leftGoods]

LEMMA TurnedIs ==
    ASSUME NEW p \in Pairs
    PROVE  TurnedPair(p) = [exact |-> p.exact, spelling |-> p.spelling, sound |-> p.sound,
                        leftTokens |-> p.rightTokens, rightTokens |-> p.leftTokens,
                        leftNice |-> p.rightNice, rightNice |-> p.leftNice,
                        leftGoods |-> p.rightGoods, rightGoods |-> p.leftGoods]
<1> DEFINE p1 == [p EXCEPT !.leftTokens = p.rightTokens]  p2 == [p1 EXCEPT !.rightTokens = p.leftTokens]
           p3 == [p2 EXCEPT !.leftNice = p.rightNice]  p4 == [p3 EXCEPT !.rightNice = p.leftNice]
           p5 == [p4 EXCEPT !.leftGoods = p.rightGoods]  p6 == [p5 EXCEPT !.rightGoods = p.leftGoods]
<1>1. TurnedPair(p) = p6  BY DEF TurnedPair
<1>2. p1 = [exact |-> p.exact, spelling |-> p.spelling, sound |-> p.sound,
            leftTokens |-> p.rightTokens, rightTokens |-> p.rightTokens,
            leftNice |-> p.leftNice, rightNice |-> p.rightNice,
            leftGoods |-> p.leftGoods, rightGoods |-> p.rightGoods]
  BY DEF Pairs
<1> HIDE DEF p1
<1>3. p2 = [exact |-> p.exact, spelling |-> p.spelling, sound |-> p.sound,
            leftTokens |-> p.rightTokens, rightTokens |-> p.leftTokens,
            leftNice |-> p.leftNice, rightNice |-> p.rightNice,
            leftGoods |-> p.leftGoods, rightGoods |-> p.rightGoods]
  BY <1>2
<1> HIDE DEF p2
<1>4. p3 = [exact |-> p.exact, spelling |-> p.spelling, sound |-> p.sound,
            leftTokens |-> p.rightTokens, rightTokens |-> p.leftTokens,
            leftNice |-> p.rightNice, rightNice |-> p.rightNice,
            leftGoods |-> p.leftGoods, rightGoods |-> p.rightGoods]
  BY <1>3
<1> HIDE DEF p3
<1>5. p4 = [exact |-> p.exact, spelling |-> p.spelling, sound |-> p.sound,
            leftTokens |-> p.rightTokens, rightTokens |-> p.leftTokens,
            leftNice |-> p.rightNice, rightNice |-> p.leftNice,
            leftGoods |-> p.leftGoods, rightGoods |-> p.rightGoods]
  BY <1>4
<1> HIDE DEF p4
<1>6. p5 = [exact |-> p.exact, spelling |-> p.spelling, sound |-> p.sound,
            leftTokens |-> p.rightTokens, rightTokens |-> p.leftTokens,
            leftNice |-> p.rightNice, rightNice |-> p.leftNice,
            leftGoods |-> p.rightGoods, rightGoods |-> p.rightGoods]
  BY <1>5
<1> HIDE DEF p5
<1> QED  BY <1>1, <1>6

Related(A, B) == {x \in CrossClassRelations : \E c \in A, d \in B : {c, d} = x[1]}

LEMMA RelatedBothWays == ASSUME NEW A, NEW B PROVE Related(A, B) = Related(B, A)
<1> DEFINE Both(z, C, D) == \E c \in C, d \in D : {c, d} = z
<1>1. ASSUME NEW z, NEW C, NEW D, Both(z, C, D) PROVE Both(z, D, C)
  <2>1. PICK c \in C, d \in D : {c, d} = z  BY <1>1
  <2>2. {d, c} = z  BY <2>1
  <2> QED  BY <2>2
<1>2. Related(A, B) = {x \in CrossClassRelations : Both(x[1], A, B)}
       /\ Related(B, A) = {x \in CrossClassRelations : Both(x[1], B, A)}
  BY DEF Related
<1> HIDE DEF Both
<1> QED  BY <1>1, <1>2

LEMMA TurnedAgrees ==
    ASSUME NEW p \in Pairs
    PROVE  Band(TurnedPair(p)) = Band(p) /\ RiskValue(TurnedPair(p)) = RiskValue(p)
<1> DEFINE t == TurnedPair(p)
<1>1. /\ t.exact = p.exact /\ t.spelling = p.spelling /\ t.sound = p.sound
      /\ t.leftTokens = p.rightTokens /\ t.rightTokens = p.leftTokens
      /\ t.leftNice = p.rightNice /\ t.rightNice = p.leftNice
      /\ t.leftGoods = p.rightGoods /\ t.rightGoods = p.leftGoods
  BY TurnedIs
<1> HIDE DEF t
<1>2. /\ t.leftTokens \cap t.rightTokens = p.leftTokens \cap p.rightTokens
      /\ t.leftTokens \cup t.rightTokens = p.leftTokens \cup p.rightTokens
      /\ t.leftNice \cap t.rightNice = p.leftNice \cap p.rightNice
      /\ t.leftNice \cup t.rightNice = p.leftNice \cup p.rightNice
      /\ t.leftGoods \cap t.rightGoods = p.leftGoods \cap p.rightGoods
      /\ t.leftGoods \cup t.rightGoods = p.leftGoods \cup p.rightGoods
  BY <1>1
<1>3. TokenSet(t) = TokenSet(p) /\ SharesWord(t) = SharesWord(p)
  BY <1>2 DEF TokenSet, SharesWord
<1>4. SignStrength(t) = SignStrength(p)  BY <1>1, <1>3 DEF SignStrength
<1>5. HasText(t) = HasText(p)  BY <1>1 DEF HasText
<1>6. TextSimilarity(t) = TextSimilarity(p) /\ NiceJaccard(t) = NiceJaccard(p)
  BY <1>2 DEF TextSimilarity, NiceJaccard
<1>7. CrossClassStrength(t) = CrossClassStrength(p)
  <2>1. CrossClassStrength(t) = Max({0} \cup {r[2] : r \in Related(p.rightNice, p.leftNice)})
    BY <1>1, Zenon DEF CrossClassStrength, Related
  <2>2. CrossClassStrength(p) = Max({0} \cup {r[2] : r \in Related(p.leftNice, p.rightNice)})
    BY Zenon DEF CrossClassStrength, Related
  <2>3. Related(p.rightNice, p.leftNice) = Related(p.leftNice, p.rightNice)
    BY RelatedBothWays, Zenon
  <2> QED  BY <2>1, <2>2, <2>3, Zenon
<1>8. Overall(t) = Overall(p)  BY <1>5, <1>6, <1>7 DEF Overall
<1>9. GoodsStrength(t) = GoodsStrength(p)  BY <1>5, <1>8 DEF GoodsStrength, Coverage
<1>10. Rules(t) = Rules(p)  BY <1>1, <1>3, <1>4, <1>9 DEF Rules
<1>11. Band(t) = Band(p)  BY <1>10 DEF Band
<1>12. RiskValue(t) = RiskValue(p)  BY <1>4, <1>9, <1>11 DEF RiskValue
<1> QED  BY <1>11, <1>12 DEF t

\* Whatever the pairs, the advice does not depend on which of the marks is the watched one, a name
\* that is taken is advised against in research whatever its classes, and classes that overlap
\* never make the advice milder (assessRiskFromFeatures, clearanceRiskScoreViaSharedEngine).
THEOREM AdviceIsSound == RiskSpec => []AdviceSound
<1>1. PairInv => AdviceSound
  <2> SUFFICES ASSUME PairInv PROVE AdviceSound  OBVIOUS
  <2>1. TakenNameIsHigh  BY TakenIsHigh
  <2>2. pair \in Pairs  BY DEF PairInv, PairOK
  <2>3. RiskSymmetric  BY <2>2, TurnedAgrees DEF RiskSymmetric, TurnedPair
  <2> QED  BY <2>1, <2>3 DEF AdviceSound
<1> QED  BY <1>1, PairsOnly, PTL

--------------------------------------------------------------------------------
(***************************************************************************)
(* The last day to oppose.  The model computes it with the numbers of days *)
(* that JavaScript's dates are, and walks a calendar of leaves beside      *)
(* them.  The lemmas say of those numbers what a calendar has to do with   *)
(* them: that a year and a month start where the one before ends, so that  *)
(* the number of a date is taken back to it, keeps the order of dates and  *)
(* is one more the day after.  The invariant counts the leaves: today is   *)
(* that many days, and ends of months, after the window opened.            *)
(***************************************************************************)

\* The day a year has more than 365.
Leap(y) == IF (y % 4 = 0 /\ y % 100 # 0) \/ y % 400 = 0 THEN 1 ELSE 0

LEMMA LeapYearsStep == ASSUME NEW y \in Int PROVE LeapYears(y) - LeapYears(y - 1) = Leap(y)
<1>1. y \div 4 - (y - 1) \div 4 = IF y % 4 = 0 THEN 1 ELSE 0  OBVIOUS
<1>2. y \div 100 - (y - 1) \div 100 = IF y % 100 = 0 THEN 1 ELSE 0  OBVIOUS
<1>3. y \div 400 - (y - 1) \div 400 = IF y % 400 = 0 THEN 1 ELSE 0  OBVIOUS
<1>4. y % 400 = 0 => y % 100 = 0  OBVIOUS
<1>5. y % 100 = 0 => y % 4 = 0  OBVIOUS
<1> QED  BY <1>1, <1>2, <1>3, <1>4, <1>5 DEF Leap, LeapYears

LEMMA YearStarts ==
    ASSUME NEW y \in Int
    PROVE  /\ YearStart(y) \in Int /\ Leap(y) \in 0..1
           /\ YearStart(y + 1) = YearStart(y) + 365 + Leap(y)
<1>1. YearStart(y) \in Int /\ Leap(y) \in 0..1  BY DEF YearStart, LeapYears, Leap
<1>2. LeapYears(y) - LeapYears(y - 1) = Leap(y)  BY LeapYearsStep
<1>3. LeapYears(y) \in Int /\ LeapYears(y - 1) \in Int  BY DEF LeapYears
<1>4. YearStart(y + 1) = 365 * (y + 1) + LeapYears(y)  BY DEF YearStart
<1>5. YearStart(y) = 365 * y + LeapYears(y - 1)  BY DEF YearStart
<1> QED  BY <1>1, <1>2, <1>3, <1>4, <1>5

LEMMA YearsInOrder ==
    ASSUME NEW y \in Int, NEW z \in Int, y < z PROVE YearStart(y + 1) <= YearStart(z)
<1>1. \A k \in Int : k \div 100 = (k \div 4) \div 25  OBVIOUS
<1>2. y \div 4 <= (z - 1) \div 4 /\ y \div 400 <= (z - 1) \div 400  OBVIOUS
<1>3. \A k, l \in Int : k <= l => k - k \div 25 <= l - l \div 25  OBVIOUS
<1>4. LeapYears(y) <= LeapYears(z - 1)
  <2> DEFINE k == y \div 4  l == (z - 1) \div 4
  <2>1. k \in Int /\ l \in Int /\ k <= l  BY <1>2
  <2>2. y \div 100 = k \div 25 /\ (z - 1) \div 100 = l \div 25  BY <1>1
  <2>3. k - k \div 25 <= l - l \div 25  BY <1>3, <2>1
  <2> QED  BY <1>2, <2>1, <2>2, <2>3 DEF LeapYears
<1>5. YearStart(y + 1) = 365 * (y + 1) + LeapYears(y) /\ YearStart(z) = 365 * z + LeapYears(z - 1)
  BY DEF YearStart
<1>6. LeapYears(y) \in Int /\ LeapYears(z - 1) \in Int  BY DEF LeapYears
<1> QED  BY <1>4, <1>5, <1>6

--------------------------------------------------------------------------------
\* The first day of a month, its months counted from 0, is its length before that of the next.
LEMMA MonthStarts ==
    ASSUME NEW y \in Int, NEW m \in 0..11
    PROVE  /\ MonthStart(y, m) \in Int /\ LengthOfMonth(y, m + 1) \in Int
           /\ 28 <= LengthOfMonth(y, m + 1) /\ LengthOfMonth(y, m + 1) <= 31
           /\ m < 11 => MonthStart(y, m + 1) = MonthStart(y, m) + LengthOfMonth(y, m + 1)
           /\ m = 11 => YearStart(y + 1) = MonthStart(y, m) + LengthOfMonth(y, m + 1)
<1>1. YearStart(y) \in Int /\ Leap(y) \in 0..1 /\ YearStart(y + 1) = YearStart(y) + 365 + Leap(y)
  BY YearStarts
<1>2. LeapYears(y) - LeapYears(y - 1) = Leap(y)  BY LeapYearsStep
<1>3. \A k \in 0..11 : MonthStart(y, k) = YearStart(y) + DaysBefore[k + 1] + (IF k > 1 THEN Leap(y) ELSE 0)
  BY <1>2 DEF MonthStart
<1>4. LengthOfMonth(y, m + 1) = IF m + 1 = 2 THEN 28 + Leap(y) ELSE IF m + 1 \in {4, 6, 9, 11} THEN 30 ELSE 31
  BY DEF LengthOfMonth, Leap
<1>5. /\ DaysBefore[1] = 0 /\ DaysBefore[2] = 31 /\ DaysBefore[3] = 59 /\ DaysBefore[4] = 90
      /\ DaysBefore[5] = 120 /\ DaysBefore[6] = 151 /\ DaysBefore[7] = 181 /\ DaysBefore[8] = 212
      /\ DaysBefore[9] = 243 /\ DaysBefore[10] = 273 /\ DaysBefore[11] = 304 /\ DaysBefore[12] = 334
  BY DEF DaysBefore
<1>6. m \in {0, 1, 2, 3, 4, 5, 6, 7, 8, 9, 10, 11}  OBVIOUS
<1>7. DaysBefore[m + 1] \in Int  BY <1>5, <1>6
<1> HIDE DEF DaysBefore
<1>8. MonthStart(y, m) = YearStart(y) + DaysBefore[m + 1] + (IF m > 1 THEN Leap(y) ELSE 0)  BY <1>3
<1>9. CASE m < 11
  <2>1. MonthStart(y, m + 1) = YearStart(y) + DaysBefore[m + 2] + (IF m > 0 THEN Leap(y) ELSE 0)
    BY <1>3, <1>9
  <2>2. DaysBefore[m + 2] = DaysBefore[m + 1]
          + (IF m + 1 = 2 THEN 28 ELSE IF m + 1 \in {4, 6, 9, 11} THEN 30 ELSE 31)
    BY <1>5, <1>6, <1>9
  <2> QED  BY <1>1, <1>4, <1>7, <1>8, <1>9, <2>1, <2>2
<1>10. CASE m = 11  BY <1>1, <1>4, <1>5, <1>8, <1>10
<1> QED  BY <1>9, <1>10

\* The number of a month's first day, and that the months of a year are in order.
LEMMA FirstOfMonth ==
    ASSUME NEW y \in Int, NEW m \in 0..11
    PROVE  /\ UTC(y, m, 1) = MonthStart(y, m)
           /\ UTC(y, m + 1, 1) = MonthStart(y, m) + LengthOfMonth(y, m + 1)
           /\ UTC(y, m + 1, 0) = MonthStart(y, m) + LengthOfMonth(y, m + 1) - 1
<1>1. MonthStart(y, m) \in Int /\ LengthOfMonth(y, m + 1) \in Int  BY MonthStarts
<1>2. m \div 12 = 0 /\ m % 12 = m  OBVIOUS
<1>3. UTC(y, m, 1) = MonthStart(y + 0, m) + 1 - 1  BY <1>2 DEF UTC
<1>4. CASE m < 11
  <2>1. (m + 1) \div 12 = 0 /\ (m + 1) % 12 = m + 1  BY <1>4
  <2>2. \A d \in Int : UTC(y, m + 1, d) = MonthStart(y, m + 1) + d - 1  BY <2>1 DEF UTC
  <2>3. MonthStart(y, m + 1) = MonthStart(y, m) + LengthOfMonth(y, m + 1)  BY <1>4, MonthStarts
  <2> QED  BY <1>1, <1>3, <2>2, <2>3
<1>5. CASE m = 11
  <2>1. (m + 1) \div 12 = 1 /\ (m + 1) % 12 = 0  BY <1>5
  <2>2. \A d \in Int : UTC(y, m + 1, d) = MonthStart(y + 1, 0) + d - 1  BY <2>1 DEF UTC
  <2>3. MonthStart(y + 1, 0) = YearStart(y + 1)
    BY YearStarts DEF MonthStart, DaysBefore
  <2>4. YearStart(y + 1) = MonthStart(y, m) + LengthOfMonth(y, m + 1)  BY <1>5, MonthStarts
  <2> QED  BY <1>1, <1>3, <2>2, <2>3, <2>4
<1> QED  BY <1>4, <1>5

LEMMA MonthsInOrder ==
    ASSUME NEW y \in Int, NEW m \in 0..11, NEW n \in 0..11
    PROVE  /\ m < n => MonthStart(y, m) + LengthOfMonth(y, m + 1) <= MonthStart(y, n)
           /\ YearStart(y) <= MonthStart(y, m)
           /\ MonthStart(y, m) + LengthOfMonth(y, m + 1) <= YearStart(y + 1)
<1> DEFINE S == [k \in 0..11 |-> MonthStart(y, k)]
           L == [k \in 0..11 |-> LengthOfMonth(y, k + 1)]
<1>1. \A k \in 0..11 : /\ S[k] \in Int /\ L[k] \in Int
                       /\ k < 11 => S[k + 1] = S[k] + L[k]
                       /\ k = 11 => YearStart(y + 1) = S[k] + L[k]
                       /\ L[k] > 0
  <2> SUFFICES ASSUME NEW k \in 0..11
               PROVE  /\ S[k] \in Int /\ L[k] \in Int /\ L[k] > 0
                      /\ k < 11 => S[k + 1] = S[k] + L[k]
                      /\ k = 11 => YearStart(y + 1) = S[k] + L[k]
    OBVIOUS
  <2>1. S[k] = MonthStart(y, k) /\ L[k] = LengthOfMonth(y, k + 1)  OBVIOUS
  <2>2. k < 11 => S[k + 1] = MonthStart(y, k + 1)  OBVIOUS
  <2>3. /\ MonthStart(y, k) \in Int /\ LengthOfMonth(y, k + 1) \in Int
        /\ 28 <= LengthOfMonth(y, k + 1)
        /\ k < 11 => MonthStart(y, k + 1) = MonthStart(y, k) + LengthOfMonth(y, k + 1)
        /\ k = 11 => YearStart(y + 1) = MonthStart(y, k) + LengthOfMonth(y, k + 1)
    BY MonthStarts
  <2> HIDE DEF S, L
  <2> QED  BY <2>1, <2>2, <2>3
<1>2. YearStart(y) = S[0]  BY YearStarts DEF MonthStart, DaysBefore
<1> HIDE DEF S, L
<1>3. /\ S[0] < S[1] /\ S[1] < S[2] /\ S[2] < S[3] /\ S[3] < S[4] /\ S[4] < S[5] /\ S[5] < S[6]
      /\ S[6] < S[7] /\ S[7] < S[8] /\ S[8] < S[9] /\ S[9] < S[10] /\ S[10] < S[11]
      /\ S[11] < YearStart(y + 1)
  <2>1. YearStart(y + 1) \in Int  BY YearStarts
  <2>2. \A k \in 0..10 : S[k] < S[k + 1]  BY <1>1
  <2> QED  BY <1>1, <2>1, <2>2
<1>4. \A k \in 0..11 : k \in {0, 1, 2, 3, 4, 5, 6, 7, 8, 9, 10, 11}  OBVIOUS
<1>5. \A k, l \in 0..11 : k <= l => S[k] <= S[l]
  <2> SUFFICES ASSUME NEW k \in 0..11, NEW l \in 0..11, k <= l PROVE S[k] <= S[l]  OBVIOUS
  <2> QED  BY <1>1, <1>3, <1>4
<1>6. m < n => S[m] + L[m] <= S[n]
  <2> SUFFICES ASSUME m < n PROVE S[m] + L[m] <= S[n]  OBVIOUS
  <2>1. m < 11 /\ m + 1 \in 0..11 /\ m + 1 <= n  OBVIOUS
  <2>2. S[m + 1] = S[m] + L[m]  BY <1>1, <2>1
  <2> QED  BY <1>5, <2>1, <2>2
<1>7. YearStart(y) <= S[m]  BY <1>2, <1>5
<1>8. S[m] + L[m] <= YearStart(y + 1)
  <2>1. CASE m = 11  BY <1>1, <2>1
  <2>2. CASE m < 11
    <3>1. S[m + 1] = S[m] + L[m] /\ S[m + 1] <= S[11]  BY <1>1, <1>5, <2>2
    <3>2. YearStart(y + 1) = S[11] + L[11] /\ L[11] > 0 /\ S[11] \in Int /\ L[11] \in Int
      BY <1>1
    <3>3. S[m + 1] \in Int /\ S[m] + L[m] \in Int  BY <1>1, <2>2
    <3> QED  BY <3>1, <3>2, <3>3
  <2> QED  BY <2>1, <2>2
<1> QED  BY <1>6, <1>7, <1>8 DEF S, L

--------------------------------------------------------------------------------
\* A date that is written and the number of its day are the same, in the years that are looked for.
LEMMA DateIs ==
    ASSUME NEW d, IsDate(d)
    PROVE  /\ d.year \in Int /\ d.month - 1 \in 0..11 /\ d.day \in Int
           /\ 1 <= d.day /\ d.day <= LengthOfMonth(d.year, d.month)
           /\ d = Date(d.year, d.month, d.day)
           /\ ParseIsoDate(d) = MonthStart(d.year, d.month - 1) + d.day - 1
           /\ ParseIsoDate(d) \in Int
<1>1. d.year \in Int /\ d.month \in 1..12 /\ d.day \in 1..31 /\ d.day <= LengthOfMonth(d.year, d.month)
  BY DEF IsDate
<1>2. d = Date(d.year, d.month, d.day)  BY DEF IsDate, Date
<1>3. (d.month - 1) \div 12 = 0 /\ (d.month - 1) % 12 = d.month - 1 /\ d.month - 1 \in 0..11  BY <1>1
<1>4. MonthStart(d.year, d.month - 1) \in Int  BY <1>1, <1>3, MonthStarts
<1>5. ParseIsoDate(d) = MonthStart(d.year + 0, d.month - 1) + d.day - 1
  BY <1>3 DEF ParseIsoDate, UTC
<1> QED  BY <1>1, <1>2, <1>3, <1>4, <1>5

LEMMA DateInYear ==
    ASSUME NEW d, IsDate(d)
    PROVE  /\ YearStart(d.year) <= ParseIsoDate(d) /\ ParseIsoDate(d) < YearStart(d.year + 1)
           /\ UTC(d.year, d.month - 1, 1) <= ParseIsoDate(d)
           /\ ParseIsoDate(d) < UTC(d.year, d.month, 1)
<1> DEFINE y == d.year  m == d.month - 1
<1>1. y \in Int /\ m \in 0..11 /\ d.month = m + 1 /\ d.day \in Int /\ 1 <= d.day
      /\ d.day <= LengthOfMonth(y, m + 1) /\ ParseIsoDate(d) = MonthStart(y, m) + d.day - 1
  <2>1. d.month \in Int  BY DEF IsDate
  <2> QED  BY <2>1, DateIs
<1> HIDE DEF y, m
<1>2. MonthStart(y, m) \in Int /\ LengthOfMonth(y, m + 1) \in Int  BY <1>1, MonthStarts
<1>3. YearStart(y) <= MonthStart(y, m) /\ MonthStart(y, m) + LengthOfMonth(y, m + 1) <= YearStart(y + 1)
  BY <1>1, MonthsInOrder
<1>4. UTC(y, m, 1) = MonthStart(y, m) /\ UTC(y, m + 1, 1) = MonthStart(y, m) + LengthOfMonth(y, m + 1)
  BY <1>1, FirstOfMonth
<1>5. YearStart(y) \in Int /\ YearStart(y + 1) \in Int  BY <1>1, YearStarts
<1> QED  BY <1>1, <1>2, <1>3, <1>4, <1>5 DEF y, m

LEMMA YearsAre == ASSUME NEW y \in Years PROVE y \in Int
<1>1. PICK o \in Openings : y \in o.year - 1 .. o.year + 2  BY DEF Years
<1>2. o.year \in Int  BY WindowAssumption DEF IsDate
<1> QED  BY <1>1, <1>2

LEMMA WrittenAgain ==
    ASSUME NEW d, IsDate(d), d.year \in Years
    PROVE  /\ UTCFullYear(ParseIsoDate(d)) = d.year /\ UTCMonth(ParseIsoDate(d)) = d.month - 1
           /\ UTCDate(ParseIsoDate(d)) = d.day /\ FormatIsoDate(ParseIsoDate(d)) = d
<1> DEFINE y == d.year  m == d.month - 1  t == ParseIsoDate(d)
<1>1. y \in Int /\ m \in 0..11 /\ d.month = m + 1 /\ t \in Int /\ d.day \in Int
      /\ t = MonthStart(y, m) + d.day - 1 /\ d = Date(y, m + 1, d.day)
  <2>1. d.month \in Int  BY DEF IsDate
  <2> QED  BY <2>1, DateIs
<1>2. YearStart(y) <= t /\ t < YearStart(y + 1) /\ UTC(y, m, 1) <= t /\ t < UTC(y, m + 1, 1)
  BY <1>1, DateInYear
<1>y. y \in Years  OBVIOUS
<1> HIDE DEF y, m, t
<1>3. UTCFullYear(t) = y
  <2>1. ASSUME NEW z \in Years, YearStart(z) <= t, t < YearStart(z + 1) PROVE z = y
    <3>1. z \in Int  BY YearsAre
    <3>2. /\ YearStart(z) \in Int /\ YearStart(z + 1) \in Int
          /\ YearStart(y) \in Int /\ YearStart(y + 1) \in Int
      BY <1>1, <3>1, YearStarts
    <3>3. ~(z < y)  BY <1>1, <1>2, <2>1, <3>1, <3>2, YearsInOrder
    <3>4. ~(y < z)  BY <1>1, <1>2, <2>1, <3>1, <3>2, YearsInOrder
    <3> QED  BY <1>1, <3>1, <3>3, <3>4
  <2> QED  BY <1>2, <1>y, <2>1 DEF UTCFullYear
<1>4. UTCMonth(t) = m
  <2>1. ASSUME NEW n \in 0..11, UTC(y, n, 1) <= t, t < UTC(y, n + 1, 1) PROVE n = m
    <3>1. /\ UTC(y, n, 1) = MonthStart(y, n) /\ UTC(y, n + 1, 1) = MonthStart(y, n) + LengthOfMonth(y, n + 1)
          /\ UTC(y, m, 1) = MonthStart(y, m) /\ UTC(y, m + 1, 1) = MonthStart(y, m) + LengthOfMonth(y, m + 1)
      BY <1>1, FirstOfMonth
    <3>2. /\ MonthStart(y, n) \in Int /\ LengthOfMonth(y, n + 1) \in Int
          /\ MonthStart(y, m) \in Int /\ LengthOfMonth(y, m + 1) \in Int
      BY <1>1, MonthStarts
    <3>3. /\ n < m => MonthStart(y, n) + LengthOfMonth(y, n + 1) <= MonthStart(y, m)
          /\ m < n => MonthStart(y, m) + LengthOfMonth(y, m + 1) <= MonthStart(y, n)
      BY <1>1, MonthsInOrder
    <3> QED  BY <1>1, <1>2, <2>1, <3>1, <3>2, <3>3
  <2> QED  BY <1>1, <1>2, <1>3, <2>1 DEF UTCMonth
<1>5. UTCDate(t) = d.day
  <2>1. UTC(y, m, 1) = MonthStart(y, m) /\ MonthStart(y, m) \in Int  BY <1>1, FirstOfMonth, MonthStarts
  <2> QED  BY <1>1, <1>3, <1>4, <2>1 DEF UTCDate
<1>6. FormatIsoDate(t) = d  BY <1>1, <1>3, <1>4, <1>5 DEF FormatIsoDate
<1> QED  BY <1>3, <1>4, <1>5, <1>6 DEF y, m, t

\* Days are numbered in their order.
LEMMA EarlierIsLess ==
    ASSUME NEW d, NEW e, IsDate(d), IsDate(e), Before(d, e)
    PROVE  ParseIsoDate(d) < ParseIsoDate(e)
<1>1. /\ d.year \in Int /\ d.month - 1 \in 0..11 /\ d.day \in Int /\ 1 <= d.day
      /\ d.day <= LengthOfMonth(d.year, d.month) /\ d.month \in Int
      /\ ParseIsoDate(d) = MonthStart(d.year, d.month - 1) + d.day - 1 /\ ParseIsoDate(d) \in Int
  BY DateIs DEF IsDate
<1>2. /\ e.year \in Int /\ e.month - 1 \in 0..11 /\ e.day \in Int /\ 1 <= e.day
      /\ e.month \in Int
      /\ ParseIsoDate(e) = MonthStart(e.year, e.month - 1) + e.day - 1 /\ ParseIsoDate(e) \in Int
  BY DateIs DEF IsDate
<1>3. CASE d.year < e.year
  <2>1. ParseIsoDate(d) < YearStart(d.year + 1) /\ YearStart(e.year) <= ParseIsoDate(e)
    BY DateInYear
  <2>2. YearStart(d.year + 1) <= YearStart(e.year)  BY <1>1, <1>2, <1>3, YearsInOrder
  <2>3. YearStart(d.year + 1) \in Int /\ YearStart(e.year) \in Int  BY <1>1, <1>2, YearStarts
  <2> QED  BY <1>1, <1>2, <2>1, <2>2, <2>3
<1>4. CASE d.year = e.year /\ d.month < e.month
  <2> DEFINE y == d.year  m == d.month - 1  n == e.month - 1
  <2>1. m \in 0..11 /\ n \in 0..11 /\ m < n /\ y \in Int /\ d.month = m + 1  BY <1>1, <1>2, <1>4
  <2>2. MonthStart(y, m) + LengthOfMonth(y, m + 1) <= MonthStart(y, n)  BY <2>1, MonthsInOrder
  <2>3. MonthStart(y, m) \in Int /\ MonthStart(y, n) \in Int /\ LengthOfMonth(y, m + 1) \in Int
    BY <2>1, MonthStarts
  <2>4. d.day <= LengthOfMonth(y, m + 1)  BY <1>1, <2>1
  <2>5. ParseIsoDate(d) = MonthStart(y, m) + d.day - 1 /\ ParseIsoDate(e) = MonthStart(y, n) + e.day - 1
    BY <1>1, <1>2, <1>4
  <2> HIDE DEF y, m, n
  <2> QED  BY <1>1, <1>2, <2>2, <2>3, <2>4, <2>5
<1>5. CASE d.year = e.year /\ d.month = e.month /\ d.day < e.day
  <2>1. MonthStart(d.year, d.month - 1) \in Int  BY <1>1, MonthStarts
  <2> QED  BY <1>1, <1>2, <1>5, <2>1
<1> QED  BY <1>3, <1>4, <1>5 DEF Before

LEMMA DatesInOrder ==
    ASSUME NEW d, NEW e, IsDate(d), IsDate(e)
    PROVE  /\ Before(d, e) <=> ParseIsoDate(d) < ParseIsoDate(e)
           /\ d = e <=> ParseIsoDate(d) = ParseIsoDate(e)
<1>1. Before(d, e) \/ Before(e, d) \/ d = e
  <2>1. /\ d.year \in Int /\ d.month \in Int /\ d.day \in Int
        /\ e.year \in Int /\ e.month \in Int /\ e.day \in Int
    BY DEF IsDate
  <2>2. d = Date(d.year, d.month, d.day) /\ e = Date(e.year, e.month, e.day)  BY DateIs
  <2>3. d.year = e.year /\ d.month = e.month /\ d.day = e.day => d = e
    BY <2>2
  <2> QED  BY <2>1, <2>3 DEF Before
<1>2. ParseIsoDate(d) \in Int /\ ParseIsoDate(e) \in Int  BY DateIs
<1>3. Before(d, e) => ParseIsoDate(d) < ParseIsoDate(e)  BY EarlierIsLess
<1>4. Before(e, d) => ParseIsoDate(e) < ParseIsoDate(d)  BY EarlierIsLess
<1> QED  BY <1>1, <1>2, <1>3, <1>4

\* The leaves of the calendar are dates, numbered one after the other.
LEMMA TomorrowIs ==
    ASSUME NEW d, IsDate(d)
    PROVE  IsDate(Tomorrow(d)) /\ ParseIsoDate(Tomorrow(d)) = ParseIsoDate(d) + 1
<1> DEFINE y == d.year  m == d.month - 1
<1>1. /\ y \in Int /\ m \in 0..11 /\ d.month = m + 1 /\ d.day \in Int /\ 1 <= d.day
      /\ d.day <= LengthOfMonth(y, m + 1) /\ ParseIsoDate(d) = MonthStart(y, m) + d.day - 1
  <2>1. d.month \in Int  BY DEF IsDate
  <2> QED  BY <2>1, DateIs
<1>n. d.year = y /\ d.month = m + 1  BY <1>1
<1> HIDE DEF y, m
<1>2. /\ MonthStart(y, m) \in Int /\ LengthOfMonth(y, m + 1) \in Int /\ LengthOfMonth(y, m + 1) <= 31
      /\ m < 11 => MonthStart(y, m + 1) = MonthStart(y, m) + LengthOfMonth(y, m + 1)
      /\ m = 11 => YearStart(y + 1) = MonthStart(y, m) + LengthOfMonth(y, m + 1)
  BY <1>1, MonthStarts
<1>3. CASE ~EndsMonth(d)
  <2> DEFINE e == Date(y, m + 1, d.day + 1)
  <2>1. Tomorrow(d) = e  BY <1>3, <1>n DEF Tomorrow
  <2>2. d.day # LengthOfMonth(y, m + 1)  BY <1>3, <1>n DEF EndsMonth
  <2>3. IsDate(e)  BY <1>1, <1>2, <2>2 DEF IsDate, Date
  <2>4. ParseIsoDate(e) = MonthStart(e.year, e.month - 1) + e.day - 1  BY <2>3, DateIs
  <2>5. e.year = y /\ e.month - 1 = m /\ e.day = d.day + 1  BY <1>1 DEF Date
  <2> HIDE DEF e
  <2> QED  BY <1>1, <1>2, <2>1, <2>3, <2>4, <2>5
<1>4. CASE EndsMonth(d) /\ m < 11
  <2> DEFINE e == Date(y, m + 2, 1)
  <2>1. Tomorrow(d) = e
    <3>1. d.month < 12 /\ d.month + 1 = m + 2  BY <1>1, <1>4, <1>n
    <3> QED  BY <1>4, <1>n, <3>1 DEF Tomorrow
  <2>2. d.day = LengthOfMonth(y, m + 1)  BY <1>4, <1>n DEF EndsMonth
  <2>3. IsDate(e)
    <3>1. m + 1 \in 0..11 /\ (m + 1) + 1 = m + 2  BY <1>1, <1>4
    <3>2. LengthOfMonth(y, m + 2) \in Int /\ 28 <= LengthOfMonth(y, m + 2)
      BY <1>1, <3>1, MonthStarts
    <3> QED  BY <1>1, <1>4, <3>2 DEF IsDate, Date
  <2>4. ParseIsoDate(e) = MonthStart(e.year, e.month - 1) + e.day - 1  BY <2>3, DateIs
  <2>5. e.year = y /\ e.month - 1 = m + 1 /\ e.day = 1  BY <1>1 DEF Date
  <2> HIDE DEF e
  <2> QED  BY <1>1, <1>2, <1>4, <2>1, <2>2, <2>3, <2>4, <2>5
<1>5. CASE EndsMonth(d) /\ m = 11
  <2> DEFINE e == Date(y + 1, 1, 1)
  <2>1. Tomorrow(d) = e  BY <1>1, <1>5, <1>n DEF Tomorrow
  <2>2. d.day = LengthOfMonth(y, m + 1)  BY <1>5, <1>n DEF EndsMonth
  <2>3. IsDate(e)
    <3>1. LengthOfMonth(y + 1, 1) = 31  BY DEF LengthOfMonth
    <3> QED  BY <1>1, <3>1 DEF IsDate, Date
  <2>4. ParseIsoDate(e) = MonthStart(e.year, e.month - 1) + e.day - 1  BY <2>3, DateIs
  <2>5. e.year = y + 1 /\ e.month - 1 = 0 /\ e.day = 1  BY DEF Date
  <2>6. MonthStart(y + 1, 0) = YearStart(y + 1) /\ YearStart(y + 1) \in Int
    BY <1>1, YearStarts DEF MonthStart, DaysBefore
  <2> HIDE DEF e
  <2> QED  BY <1>1, <1>2, <1>5, <2>1, <2>2, <2>3, <2>4, <2>5, <2>6
<1> QED  BY <1>1, <1>3, <1>4, <1>5

\* There is a date any number of days later.
LEMMA DaysOn ==
    ASSUME NEW d, IsDate(d), NEW n \in Nat
    PROVE  \E e : IsDate(e) /\ ParseIsoDate(e) = ParseIsoDate(d) + n
<1> DEFINE On(k) == \E e : IsDate(e) /\ ParseIsoDate(e) = ParseIsoDate(d) + k
           T == {k \in Nat : ~On(k)}
<1>1. ParseIsoDate(d) \in Int  BY DateIs
<1>2. On(0)  BY <1>1
<1>3. ASSUME NEW k \in Nat, On(k) PROVE On(k + 1)
  <2>1. PICK e : IsDate(e) /\ ParseIsoDate(e) = ParseIsoDate(d) + k  BY <1>3
  <2>2. IsDate(Tomorrow(e)) /\ ParseIsoDate(Tomorrow(e)) = ParseIsoDate(d) + (k + 1)
    BY <1>1, <2>1, TomorrowIs
  <2> QED  BY <2>2
<1> HIDE DEF On
<1>4. T = {}
  <2> SUFFICES ASSUME T # {} PROVE FALSE  OBVIOUS
  <2>1. PICK k \in T : k = 0 \/ (k - 1 \in Nat /\ k - 1 \notin T)
    <3>1. T \in SUBSET Nat  OBVIOUS
    <3> HIDE DEF T
    <3> QED  BY <3>1, Smallest
  <2>2. k # 0  BY <1>2, <2>1
  <2>3. k - 1 \in Nat /\ On(k - 1) /\ ~On(k)  BY <2>1, <2>2
  <2>4. (k - 1) + 1 = k  BY <2>1
  <2> QED  BY <1>3, <2>3, <2>4
<1>5. On(n)  BY <1>4
<1> QED  BY <1>5 DEF On

\* A year goes by in a year.
LEMMA WithinAYear ==
    ASSUME NEW d, NEW e, IsDate(d), IsDate(e), NEW n \in 0..365,
           ParseIsoDate(e) = ParseIsoDate(d) + n
    PROVE  e.year = d.year \/ e.year = d.year + 1
<1>1. d.year \in Int /\ e.year \in Int /\ ParseIsoDate(d) \in Int  BY DateIs
<1>2. ~Before(e, d)  BY <1>1, DatesInOrder
<1>3. d.year <= e.year  BY <1>1, <1>2 DEF Before
<1>4. ~(d.year + 1 < e.year)
  <2> SUFFICES ASSUME d.year + 1 < e.year PROVE FALSE  OBVIOUS
  <2>1. YearStart((d.year + 1) + 1) <= YearStart(e.year)  BY <1>1, YearsInOrder
  <2>2. YearStart((d.year + 1) + 1) = YearStart(d.year + 1) + 365 + Leap(d.year + 1)
        /\ Leap(d.year + 1) \in 0..1 /\ YearStart(d.year + 1) \in Int
    BY <1>1, YearStarts
  <2>3. ParseIsoDate(d) < YearStart(d.year + 1) /\ YearStart(e.year) <= ParseIsoDate(e)  BY DateInYear
  <2>4. YearStart(e.year) \in Int  BY <1>1, YearStarts
  <2> QED  BY <1>1, <2>1, <2>2, <2>3, <2>4
<1>5. \A k, l \in Int : k <= l /\ ~(k + 1 < l) => l = k \/ l = k + 1  OBVIOUS
<1> QED  BY <1>1, <1>3, <1>4, <1>5

--------------------------------------------------------------------------------
\* The last day by a rule, for a window that opens on day d.
LastByRule(d, rule, e) ==
    /\ IsDate(e)
    /\ rule.kind = "calendar_days" => ParseIsoDate(e) = ParseIsoDate(d) + rule.n
    /\ rule.kind = "months" =>
           /\ 12 * e.year + e.month = 12 * d.year + d.month + rule.n
           /\ e.day = IF d.day <= LengthOfMonth(e.year, e.month) THEN d.day
                      ELSE LengthOfMonth(e.year, e.month)

LEMMA RuleSetsAre ==
    ASSUME NEW rule \in RuleSets
    PROVE  /\ rule.startsFrom = "publication_date"
           /\ \/ rule.kind = "calendar_days" /\ rule.n = 30
              \/ rule.kind = "months" /\ rule.n \in {2, 3}
  BY DEF RuleSets, RuleSet, BoipOppositionRuleSet, EuipoOppositionRuleSet, UsptoOppositionRuleSet,
         WipoOppositionRuleSet, ConfiguredOppositionRuleSet

\* Any day of the month can be the day counted in, however many days it is.
LEMMA DaysAdded ==
    ASSUME NEW d, IsDate(d), d.year \in Years, NEW n \in Int
    PROVE  AddCalendarDays(ParseIsoDate(d), n) = ParseIsoDate(d) + n
<1>1. /\ UTCFullYear(ParseIsoDate(d)) = d.year /\ UTCMonth(ParseIsoDate(d)) = d.month - 1
      /\ UTCDate(ParseIsoDate(d)) = d.day
  BY WrittenAgain
<1>2. AddCalendarDays(ParseIsoDate(d), n) = UTC(d.year, d.month - 1, d.day + n)
  BY <1>1 DEF AddCalendarDays
<1>3. /\ d.year \in Int /\ d.month - 1 \in 0..11 /\ d.day \in Int
      /\ ParseIsoDate(d) = MonthStart(d.year, d.month - 1) + d.day - 1
  BY DateIs
<1> DEFINE m == d.month - 1
<1>4. m \div 12 = 0 /\ m % 12 = m  BY <1>3
<1>5. MonthStart(d.year, m) \in Int  BY <1>3, MonthStarts
<1>6. UTC(d.year, m, d.day + n) = MonthStart(d.year + 0, m) + (d.day + n) - 1  BY <1>4 DEF UTC
<1> QED  BY <1>2, <1>3, <1>5, <1>6

\* A month has a last day, and a day it does not have is counted as that one.
LEMMA MonthsAdded ==
    ASSUME NEW d, IsDate(d), d.year \in Years, d.year + 1 \in Years, NEW n \in {2, 3}
    PROVE  \E e : /\ IsDate(e) /\ AddCalendarMonths(ParseIsoDate(d), n) = ParseIsoDate(e)
                  /\ e.year \in Years /\ 12 * e.year + e.month = 12 * d.year + d.month + n
                  /\ e.day = IF d.day <= LengthOfMonth(e.year, e.month) THEN d.day
                             ELSE LengthOfMonth(e.year, e.month)
<1> DEFINE t == ParseIsoDate(d)
           target == d.month - 1 + n
           y == d.year + target \div 12
           m == target % 12
           len == LengthOfMonth(y, m + 1)
           day == IF d.day <= len THEN d.day ELSE len
           e == Date(y, m + 1, day)
<1>1. /\ d.year \in Int /\ d.month \in 1..12 /\ d.day \in Int /\ 1 <= d.day
  BY DateIs DEF IsDate
<1>2. target \in Int /\ m \in 0..11 /\ y \in Int /\ (y = d.year \/ y = d.year + 1)
      /\ 12 * y + m = 12 * d.year + d.month - 1 + n
  <2> DEFINE q == target \div 12
  <2>1. target \in Int /\ 0 <= target /\ target < 24  BY <1>1
  <2>2. q \in Int /\ m \in Int /\ 0 <= m /\ m < 12 /\ 12 * q + m = target
    <3> HIDE DEF target
    <3> QED  BY <2>1
  <2>3. y = d.year + q /\ target = d.month - 1 + n  OBVIOUS
  <2> HIDE DEF target, q, m, y
  <2>4. q = 0 \/ q = 1  BY <2>1, <2>2
  <2>5. m \in 0..11  BY <2>2
  <2>6. d.month \in Int /\ n \in Int  BY <1>1
  <2>7. 12 * y + m = 12 * d.year + d.month - 1 + n
    <3>1. 12 * y = 12 * d.year + 12 * q  BY <1>1, <2>2, <2>3
    <3> QED  BY <1>1, <2>1, <2>2, <2>3, <2>6, <3>1
  <2> QED  BY <1>1, <2>1, <2>2, <2>3, <2>4, <2>5, <2>7
<1>3. /\ UTCFullYear(t) = d.year /\ UTCMonth(t) = d.month - 1 /\ UTCDate(t) = d.day
  BY WrittenAgain
<1>4. y \in Years  BY <1>2
<1>5. len \in Int /\ 28 <= len /\ len <= 31  BY <1>2, MonthStarts
<1>6. /\ y \in Int /\ m \in 0..11 /\ len = LengthOfMonth(y, m + 1) /\ m + 1 \in Int
      /\ day = IF d.day <= len THEN d.day ELSE len
  BY <1>2
<1>7. AddCalendarMonths(t, n)
        = UTC(y, m, IF UTCDate(t) <= UTCDate(UTC(y, m + 1, 0)) THEN UTCDate(t)
                    ELSE UTCDate(UTC(y, m + 1, 0)))
  BY <1>3 DEF AddCalendarMonths
<1> HIDE DEF y, m, len, day, target
<1>8. UTCDate(UTC(y, m + 1, 0)) = len
  <2> DEFINE f == Date(y, m + 1, len)
  <2>1. IsDate(f)  BY <1>5, <1>6 DEF IsDate, Date
  <2>2. f.year = y /\ f.month - 1 = m /\ f.day = len  BY <1>6 DEF Date
  <2>3. ParseIsoDate(f) = MonthStart(y, m) + len - 1  BY <2>1, <2>2, DateIs
  <2>4. UTC(y, m + 1, 0) = MonthStart(y, m) + len - 1  BY <1>6, FirstOfMonth
  <2>5. UTCDate(ParseIsoDate(f)) = f.day  BY <1>4, <2>1, <2>2, WrittenAgain
  <2> QED  BY <2>2, <2>3, <2>4, <2>5
<1>9. AddCalendarMonths(t, n) = UTC(y, m, day)  BY <1>3, <1>6, <1>7, <1>8
<1>10. IsDate(e)  BY <1>1, <1>5, <1>6 DEF IsDate, Date
<1>11. e.year = y /\ e.month = m + 1 /\ e.day = day /\ e.month - 1 = m  BY <1>6 DEF Date
<1>12. ParseIsoDate(e) = UTC(y, m, day)  BY <1>11 DEF ParseIsoDate
<1>13. 12 * e.year + e.month = 12 * d.year + d.month + n
  BY <1>1, <1>2, <1>6, <1>11
<1>14. e.day = IF d.day <= LengthOfMonth(e.year, e.month) THEN d.day ELSE LengthOfMonth(e.year, e.month)
  BY <1>6, <1>11
<1> HIDE DEF e
<1> QED  BY <1>4, <1>9, <1>10, <1>11, <1>12, <1>13, <1>14 DEF t

LEMMA DeadlineIs ==
    ASSUME NEW c, IsDate(c.published), c.rule \in RuleSets,
           c.published.year \in Years, c.published.year + 1 \in Years
    PROVE  /\ CalculateOppositionDeadline(c).startDate = c.published
           /\ LastByRule(c.published, c.rule, CalculateOppositionDeadline(c).deadlineDate)
           /\ CalculateOppositionDeadline(c) # RangeError
<1> DEFINE d == c.published  n == c.rule.n
           due == IF c.rule.kind = "calendar_days" THEN AddCalendarDays(ParseIsoDate(d), n)
                  ELSE AddCalendarMonths(ParseIsoDate(d), n)
           w == CalculateOppositionDeadline(c)
<1>1. d # Unreadable  BY DEF Unreadable, Date, IsDate
<1>2. c.rule.startsFrom = "publication_date"  BY RuleSetsAre
<1>3. w = [startDate |-> FormatIsoDate(ParseIsoDate(d)), deadlineDate |-> FormatIsoDate(due)]
  BY <1>1, <1>2 DEF CalculateOppositionDeadline
<1>4. FormatIsoDate(ParseIsoDate(d)) = d  BY WrittenAgain
<1>5. w.startDate = d /\ w.deadlineDate = FormatIsoDate(due)  BY <1>3, <1>4
<1>6. w # RangeError
  <2>1. RangeError.startDate = Unreadable  BY DEF RangeError
  <2> HIDE DEF w, d
  <2> QED  BY <1>1, <1>5, <2>1
<1>7. CASE c.rule.kind = "calendar_days" /\ n = 30
  <2>1. due = ParseIsoDate(d) + 30  BY <1>7, DaysAdded
  <2>2. PICK e : IsDate(e) /\ ParseIsoDate(e) = ParseIsoDate(d) + 30  BY DaysOn
  <2>3. e.year \in Years
    <3>1. 30 \in 0..365  OBVIOUS
    <3>2. e.year = d.year \/ e.year = d.year + 1  BY <2>2, <3>1, WithinAYear
    <3> QED  BY <3>2
  <2>4. FormatIsoDate(due) = e  BY <2>1, <2>2, <2>3, WrittenAgain
  <2>5. LastByRule(d, c.rule, e)  BY <1>7, <2>2 DEF LastByRule
  <2> QED  BY <1>5, <1>6, <2>4, <2>5
<1>8. CASE c.rule.kind = "months" /\ n \in {2, 3}
  <2>1. due = AddCalendarMonths(ParseIsoDate(d), n)  BY <1>8
  <2>2. PICK e : /\ IsDate(e) /\ AddCalendarMonths(ParseIsoDate(d), n) = ParseIsoDate(e)
                 /\ e.year \in Years /\ 12 * e.year + e.month = 12 * d.year + d.month + n
                 /\ e.day = IF d.day <= LengthOfMonth(e.year, e.month) THEN d.day
                            ELSE LengthOfMonth(e.year, e.month)
    BY <1>8, MonthsAdded
  <2>3. FormatIsoDate(due) = e  BY <2>1, <2>2, WrittenAgain
  <2>4. LastByRule(d, c.rule, e)  BY <1>8, <2>2 DEF LastByRule
  <2> QED  BY <1>5, <1>6, <2>3, <2>4
<1> QED  BY <1>7, <1>8, RuleSetsAre

--------------------------------------------------------------------------------
(***************************************************************************)
(* What the leaves of the calendar say of the days and months gone by.     *)
(***************************************************************************)
WindowInv ==
    /\ candidate = [published |-> candidate.published, filed |-> Unreadable, rule |-> candidate.rule]
    /\ candidate.published \in Openings /\ candidate.rule \in RuleSets
    /\ leaf = [date |-> leaf.date, tick |-> leaf.tick]
    /\ IsDate(leaf.date) /\ leaf.tick \in 0..MomentsADay - 1
    /\ gone = [days |-> gone.days, months |-> gone.months]
    /\ gone.days \in 0..DaysWalked /\ gone.months \in 0..gone.days
    /\ ParseIsoDate(leaf.date) = ParseIsoDate(candidate.published) + gone.days
    /\ 12 * leaf.date.year + leaf.date.month
          = 12 * candidate.published.year + candidate.published.month + gone.months

LEMMA WindowInitInv == WindowInit => WindowInv
<1> SUFFICES ASSUME WindowInit PROVE WindowInv  OBVIOUS
<1>1. PICK d \in Openings, rule \in RuleSets :
        /\ candidate = [published |-> d, filed |-> Unreadable, rule |-> rule]
        /\ leaf = [date |-> d, tick |-> 0]
        /\ gone = [days |-> 0, months |-> 0]
  BY DEF WindowInit
<1>2. IsDate(d) /\ ParseIsoDate(d) \in Int /\ d.year \in Int /\ d.month \in Int
  BY WindowAssumption, DateIs DEF IsDate
<1>3. MomentsADay \in Nat \ {0} /\ DaysWalked \in Nat  BY WindowAssumption
<1> QED  BY <1>1, <1>2, <1>3 DEF WindowInv

LEMMA WindowStepInv == WindowInv /\ [WindowNext]_windowVars => WindowInv'
<1> SUFFICES ASSUME WindowInv, [WindowNext]_windowVars PROVE WindowInv'  OBVIOUS
<1>0. MomentsADay \in Nat \ {0} /\ DaysWalked \in Nat  BY WindowAssumption
<1>1. CASE UNCHANGED windowVars  BY <1>1 DEF WindowInv, windowVars
<1>2. CASE HoursPass
  <2>1. /\ leaf' = [date |-> leaf.date, tick |-> leaf.tick + 1] /\ leaf.tick < MomentsADay - 1
        /\ UNCHANGED <<candidate, gone>>
    BY <1>2 DEF HoursPass, WindowInv
  <2>2. leaf'.date = leaf.date /\ leaf'.tick = leaf.tick + 1  BY <2>1
  <2> QED  BY <1>0, <2>1, <2>2 DEF WindowInv
<1>3. CASE DayPasses
  <2> DEFINE d == leaf.date  e == Tomorrow(d)  p == candidate.published
  <2>1. /\ leaf' = [date |-> e, tick |-> 0] /\ candidate' = candidate /\ gone.days < DaysWalked
        /\ gone' = [days |-> gone.days + 1,
                    months |-> gone.months + (IF EndsMonth(d) THEN 1 ELSE 0)]
    BY <1>3 DEF DayPasses
  <2>2. IsDate(e) /\ ParseIsoDate(e) = ParseIsoDate(d) + 1  BY TomorrowIs DEF WindowInv
  <2>3. 12 * e.year + e.month = 12 * d.year + d.month + (IF EndsMonth(d) THEN 1 ELSE 0)
    <3>1. d.year \in Int /\ d.month \in 1..12  BY DEF WindowInv, IsDate
    <3>2. CASE ~EndsMonth(d)  BY <3>1, <3>2 DEF Tomorrow, Date
    <3>3. CASE EndsMonth(d) /\ d.month < 12  BY <3>1, <3>3 DEF Tomorrow, Date
    <3>4. CASE EndsMonth(d) /\ d.month = 12
      <4>1. e = Date(d.year + 1, 1, 1)  BY <3>1, <3>4 DEF Tomorrow
      <4> QED  BY <3>1, <3>4, <4>1 DEF Date
    <3> QED  BY <3>1, <3>2, <3>3, <3>4
  <2>4. /\ d.year \in Int /\ d.month \in Int /\ e.year \in Int /\ e.month \in Int
        /\ p.year \in Int /\ p.month \in Int /\ ParseIsoDate(p) \in Int
        /\ ParseIsoDate(d) = ParseIsoDate(p) + gone.days
        /\ 12 * d.year + d.month = 12 * p.year + p.month + gone.months
        /\ gone.days \in Nat /\ gone.months \in Nat /\ gone.months <= gone.days
    BY <1>0, <2>2, WindowAssumption, DateIs DEF WindowInv, IsDate
  <2> DEFINE k == IF EndsMonth(d) THEN 1 ELSE 0
  <2>5. k \in 0..1  OBVIOUS
  <2>6. /\ gone'.days = gone.days + 1 /\ gone'.months = gone.months + k
        /\ gone' = [days |-> gone'.days, months |-> gone'.months]
        /\ leaf'.date = e /\ leaf'.tick = 0 /\ leaf' = [date |-> leaf'.date, tick |-> leaf'.tick]
    BY <2>1
  <2>7. 12 * e.year + e.month = 12 * d.year + d.month + k  BY <2>3
  <2> HIDE DEF d, e, k, p
  <2>8. /\ ParseIsoDate(e) = ParseIsoDate(p) + gone'.days
        /\ 12 * e.year + e.month = 12 * p.year + p.month + gone'.months
        /\ gone'.days \in 0..DaysWalked /\ gone'.months \in 0..gone'.days
    <3>1. gone'.days \in 0..DaysWalked  BY <1>0, <2>1, <2>4, <2>6
    <3>2. gone'.months \in 0..gone'.days  BY <2>4, <2>5, <2>6
    <3>3. ParseIsoDate(e) = ParseIsoDate(p) + gone'.days  BY <2>2, <2>4, <2>6
    <3>4. 12 * e.year + e.month = 12 * p.year + p.month + gone'.months
      <4>1. \A i, j, l, n, o \in Int : i = j + l /\ j = n + o => i = n + (o + l)  OBVIOUS
      <4>2. /\ 12 * e.year + e.month \in Int /\ 12 * d.year + d.month \in Int
            /\ 12 * p.year + p.month \in Int /\ gone.months \in Int /\ k \in Int
        BY <2>4, <2>5
      <4> QED  BY <2>4, <2>6, <2>7, <4>1, <4>2
    <3> QED  BY <3>1, <3>2, <3>3, <3>4
  <2>9. p = candidate.published  BY DEF p
  <2> QED  BY <1>0, <2>1, <2>2, <2>6, <2>8, <2>9 DEF WindowInv
<1> QED  BY <1>1, <1>2, <1>3 DEF WindowNext

LEMMA WindowAlways == WindowSpec => []WindowInv
  BY WindowInitInv, WindowStepInv, PTL DEF WindowSpec

\* The types of the calendar's walk, for every day a window opens on.
THEOREM WindowTyped == WindowSpec => []WindowTypeOK
<1>1. WindowInv => WindowTypeOK  BY DEF WindowInv, WindowTypeOK
<1> QED  BY <1>1, WindowAlways, PTL

LEMMA OpeningYears ==
    ASSUME NEW o \in Openings
    PROVE  o.year \in Years /\ o.year + 1 \in Years /\ o.year + 2 \in Years
<1>1. o.year \in Int  BY WindowAssumption DEF IsDate
<1> QED  BY <1>1 DEF Years

LEMMA MonthsCount ==
    ASSUME NEW y \in Int, NEW z \in Int, NEW m \in 1..12, NEW n \in 1..12
    PROVE  /\ 12 * y + m < 12 * z + n <=> y < z \/ (y = z /\ m < n)
           /\ 12 * y + m = 12 * z + n <=> y = z /\ m = n
<1>1. m \in Int /\ 1 <= m /\ m <= 12 /\ n \in Int /\ 1 <= n /\ n <= 12  OBVIOUS
<1> QED  BY <1>1

\* Which day is the last one, by the rule and by what the leaves of the calendar say.
LEMMA LastDayIs ==
    ASSUME WindowInv, NEW e, LastByRule(candidate.published, Rule, e)
    PROVE  /\ leaf.date = e <=> LastDay
           /\ Before(e, leaf.date) <=> TooLate
<1> DEFINE p == candidate.published  d == leaf.date
<1>1. IsDate(p) /\ IsDate(d) /\ IsDate(e)  BY WindowAssumption DEF WindowInv, LastByRule
<1>2. /\ ParseIsoDate(p) \in Int /\ ParseIsoDate(d) \in Int /\ ParseIsoDate(e) \in Int
      /\ p.year \in Int /\ p.month \in 1..12 /\ p.day \in Int
      /\ d.year \in Int /\ d.month \in 1..12 /\ d.day \in Int
      /\ e.year \in Int /\ e.month \in 1..12 /\ e.day \in Int
      /\ d = Date(d.year, d.month, d.day) /\ e = Date(e.year, e.month, e.day)
      /\ d.day <= LengthOfMonth(d.year, d.month)
  BY <1>1, DateIs DEF IsDate
<1>3. /\ ParseIsoDate(d) = ParseIsoDate(p) + gone.days /\ gone.days \in Int
      /\ 12 * d.year + d.month = 12 * p.year + p.month + gone.months /\ gone.months \in Int
      /\ Rule \in RuleSets
  BY WindowAssumption DEF WindowInv, Rule
<1>4. CASE Rule.kind = "calendar_days" /\ Rule.n = 30
  <2>1. ParseIsoDate(e) = ParseIsoDate(p) + 30  BY <1>4 DEF LastByRule
  <2>2. LastDay <=> gone.days = 30  BY <1>4 DEF LastDay
  <2>3. TooLate <=> gone.days > 30  BY <1>4 DEF TooLate
  <2>4. d = e <=> ParseIsoDate(d) = ParseIsoDate(e)  BY <1>1, DatesInOrder
  <2>5. Before(e, d) <=> ParseIsoDate(e) < ParseIsoDate(d)  BY <1>1, DatesInOrder
  <2> HIDE DEF p, d
  <2>6. /\ ParseIsoDate(d) = ParseIsoDate(e) <=> gone.days = 30
        /\ ParseIsoDate(e) < ParseIsoDate(d) <=> gone.days > 30
    BY <1>2, <1>3, <2>1
  <2> QED  BY <2>2, <2>3, <2>4, <2>5, <2>6 DEF d
<1>5. CASE Rule.kind = "months" /\ Rule.n \in {2, 3}
  <2> DEFINE n == Rule.n  len == LengthOfMonth(e.year, e.month)
  <2>1. /\ 12 * e.year + e.month = 12 * p.year + p.month + n /\ n \in Int
        /\ e.day = IF p.day <= len THEN p.day ELSE len
    BY <1>5 DEF LastByRule
  <2>2. LastDay <=> gone.months = n /\ (d.day = p.day \/ (d.day < p.day /\ d.day = LengthOfMonth(d.year, d.month)))
    BY <1>5 DEF LastDay, EndsMonth, OpenedOn
  <2>3. TooLate <=> gone.months > n \/ (gone.months = n /\ d.day > p.day)
    BY <1>5 DEF TooLate, OpenedOn
  <2>4. /\ gone.months = n <=> e.year = d.year /\ e.month = d.month
        /\ gone.months > n <=> e.year < d.year \/ (e.year = d.year /\ e.month < d.month)
    <3>1. /\ 12 * e.year + e.month < 12 * d.year + d.month <=> e.year < d.year \/ (e.year = d.year /\ e.month < d.month)
          /\ 12 * e.year + e.month = 12 * d.year + d.month <=> e.year = d.year /\ e.month = d.month
      BY <1>2, MonthsCount
    <3> DEFINE ed == 12 * e.year + e.month  dd == 12 * d.year + d.month
               pd == 12 * p.year + p.month
    <3>2. ed \in Int /\ dd \in Int /\ pd \in Int  BY <1>2
    <3>3. dd = pd + gone.months /\ gone.months \in Int  BY <1>3
    <3>4. ed = pd + n /\ n \in Int  BY <2>1
    <3> HIDE DEF p, d, n, ed, dd, pd
    <3>5. (ed < dd <=> gone.months > n) /\ (ed = dd <=> gone.months = n)  BY <3>2, <3>3, <3>4
    <3> QED  BY <3>1, <3>5 DEF ed, dd
  <2>5. Before(e, d) <=> \/ e.year < d.year \/ (e.year = d.year /\ e.month < d.month)
                        \/ (e.year = d.year /\ e.month = d.month /\ e.day < d.day)
    BY DEF Before
  <2>6. e.year = d.year /\ e.month = d.month =>
          /\ d.day = e.day <=> d.day = p.day \/ (d.day < p.day /\ d.day = LengthOfMonth(d.year, d.month))
          /\ e.day < d.day <=> d.day > p.day
    <3> SUFFICES ASSUME e.year = d.year /\ e.month = d.month
                 PROVE  /\ d.day = e.day <=> d.day = p.day \/ (d.day < p.day /\ d.day = LengthOfMonth(d.year, d.month))
                        /\ e.day < d.day <=> d.day > p.day
      OBVIOUS
    <3>1. len = LengthOfMonth(d.year, d.month)  OBVIOUS
    <3>2. len \in Int
      <4>1. d.month - 1 \in 0..11 /\ (d.month - 1) + 1 = d.month  BY <1>2
      <4>2. LengthOfMonth(d.year, (d.month - 1) + 1) \in Int  BY <1>2, <4>1, MonthStarts
      <4> QED  BY <3>1, <4>1, <4>2
    <3> HIDE DEF p, d, len
    <3> QED  BY <1>2, <2>1, <3>1, <3>2
  <2>7. d = e <=> d.year = e.year /\ d.month = e.month /\ d.day = e.day
    <3> HIDE DEF d
    <3> QED  BY <1>2
  <2> HIDE DEF p, d, n
  <2>8. d = e <=> LastDay  BY <2>2, <2>4, <2>6, <2>7
  <2>9. Before(e, d) <=> TooLate  BY <2>3, <2>4, <2>5, <2>6
  <2> QED  BY <2>8, <2>9 DEF d
<1> QED  BY <1>3, <1>4, <1>5, RuleSetsAre

\* A window that opens a day later ends no earlier.
LEMMA LaterEndsLater ==
    ASSUME NEW d, IsDate(d), NEW rule \in RuleSets, NEW e, NEW f,
           LastByRule(d, rule, e), LastByRule(Tomorrow(d), rule, f)
    PROVE  ~Before(f, e)
<1> DEFINE l == Tomorrow(d)
<1>1. IsDate(l) /\ ParseIsoDate(l) = ParseIsoDate(d) + 1  BY TomorrowIs
<1>2. IsDate(e) /\ IsDate(f)  BY DEF LastByRule
<1>3. /\ ParseIsoDate(d) \in Int /\ ParseIsoDate(e) \in Int /\ ParseIsoDate(f) \in Int
      /\ e.year \in Int /\ e.month \in 1..12 /\ e.day \in Int
      /\ f.year \in Int /\ f.month \in 1..12 /\ f.day \in Int
      /\ d.year \in Int /\ d.month \in 1..12 /\ d.day \in Int
  BY <1>2, DateIs DEF IsDate
<1>4. CASE rule.kind = "calendar_days" /\ rule.n = 30
  <2>1. ParseIsoDate(e) = ParseIsoDate(d) + 30 /\ ParseIsoDate(f) = ParseIsoDate(l) + 30
    BY <1>4 DEF LastByRule
  <2>2. Before(f, e) <=> ParseIsoDate(f) < ParseIsoDate(e)  BY <1>2, DatesInOrder
  <2> HIDE DEF l
  <2> QED  BY <1>1, <1>3, <2>1, <2>2
<1>5. CASE rule.kind = "months" /\ rule.n \in {2, 3}
  <2> DEFINE n == rule.n
  <2>1. /\ 12 * e.year + e.month = 12 * d.year + d.month + n /\ n \in Int
        /\ e.day = IF d.day <= LengthOfMonth(e.year, e.month) THEN d.day ELSE LengthOfMonth(e.year, e.month)
        /\ 12 * f.year + f.month = 12 * l.year + l.month + n
        /\ f.day = IF l.day <= LengthOfMonth(f.year, f.month) THEN l.day ELSE LengthOfMonth(f.year, f.month)
    BY <1>5 DEF LastByRule
  <2>2. Before(f, e) <=> \/ f.year < e.year \/ (f.year = e.year /\ f.month < e.month)
                        \/ (f.year = e.year /\ f.month = e.month /\ f.day < e.day)
    BY DEF Before
  <2>3. /\ 12 * f.year + f.month < 12 * e.year + e.month <=> f.year < e.year \/ (f.year = e.year /\ f.month < e.month)
        /\ 12 * f.year + f.month = 12 * e.year + e.month <=> f.year = e.year /\ f.month = e.month
    BY <1>3, MonthsCount
  <2>4. CASE ~EndsMonth(d)
    <3>1. l = Date(d.year, d.month, d.day + 1)  BY <2>4 DEF Tomorrow
    <3>2. l.year = d.year /\ l.month = d.month /\ l.day = d.day + 1  BY <3>1 DEF Date
    <3> DEFINE len == LengthOfMonth(e.year, e.month)
    <3>3. f.year = e.year /\ f.month = e.month
      <4> HIDE DEF l, n
      <4>1. 12 * f.year + f.month = 12 * e.year + e.month  BY <2>1, <3>2
      <4> QED  BY <2>3, <4>1
    <3>4. len \in Int
      <4>1. e.month - 1 \in 0..11 /\ (e.month - 1) + 1 = e.month  BY <1>3
      <4>2. LengthOfMonth(e.year, (e.month - 1) + 1) \in Int  BY <1>3, <4>1, MonthStarts
      <4> QED  BY <4>1, <4>2
    <3>5. /\ e.day = IF d.day <= len THEN d.day ELSE len
          /\ f.day = IF d.day + 1 <= len THEN d.day + 1 ELSE len
      BY <2>1, <3>2, <3>3
    <3> HIDE DEF len, l, n
    <3>6. ~(f.day < e.day)  BY <1>3, <3>4, <3>5
    <3> QED  BY <1>3, <2>2, <3>3, <3>6
  <2>5. CASE EndsMonth(d)
    <3>1. 12 * l.year + l.month = 12 * d.year + d.month + 1
      <4>1. CASE d.month < 12
        <5>1. l = Date(d.year, d.month + 1, 1)  BY <2>5, <4>1 DEF Tomorrow
        <5> QED  BY <1>3, <5>1 DEF Date
      <4>2. CASE d.month = 12
        <5>1. l = Date(d.year + 1, 1, 1)  BY <2>5, <4>2 DEF Tomorrow
        <5> QED  BY <1>3, <4>2, <5>1 DEF Date
      <4> QED  BY <1>3, <4>1, <4>2
    <3>2. 12 * e.year + e.month \in Int /\ 12 * d.year + d.month \in Int /\ 12 * f.year + f.month \in Int
      BY <1>3
    <3> HIDE DEF l, n
    <3>3. 12 * e.year + e.month < 12 * f.year + f.month  BY <2>1, <3>1, <3>2
    <3>4. ~(12 * f.year + f.month < 12 * e.year + e.month) /\ 12 * f.year + f.month # 12 * e.year + e.month
      BY <3>2, <3>3
    <3> QED  BY <2>2, <2>3, <3>4
  <2> QED  BY <2>4, <2>5
<1> QED  BY <1>4, <1>5, RuleSetsAre

--------------------------------------------------------------------------------
\* A number of whole days and a part of one.
LEMMA WholeDays ==
    ASSUME NEW M \in Nat \ {0}, NEW k \in Int, NEW r \in 0..(M - 1)
    PROVE  (M * k + r) \div M = k
OBVIOUS

LEMMA WindowIs ==
    ASSUME WindowInv
    PROVE  /\ Window.startDate = candidate.published /\ Window # RangeError
           /\ LastByRule(candidate.published, Rule, Window.deadlineDate)
<1>1. /\ candidate.published \in Openings /\ IsDate(candidate.published) /\ candidate.rule \in RuleSets
  BY WindowAssumption DEF WindowInv
<1>2. candidate.published.year \in Years /\ candidate.published.year + 1 \in Years
  BY <1>1, OpeningYears
<1> QED  BY <1>1, <1>2, DeadlineIs DEF Window, Rule

LEMMA CountedDown == ASSUME WindowInv PROVE CountsDownToLastDay
<1> DEFINE w == Window  e == Window.deadlineDate  M == MomentsADay
           today == ParseIsoDate(leaf.date)  last == ParseIsoDate(e)  tick == leaf.tick
<1>1. /\ LastByRule(candidate.published, Rule, e)  BY WindowIs
<1>2. IsDate(e) /\ IsDate(leaf.date)  BY <1>1 DEF LastByRule, WindowInv
<1>3. /\ today \in Int /\ last \in Int /\ M \in Nat \ {0} /\ tick \in 0..M - 1
  BY <1>2, DateIs, WindowAssumption DEF WindowInv
<1>4. (leaf.date = e <=> LastDay) /\ (Before(e, leaf.date) <=> TooLate)  BY <1>1, LastDayIs
<1>5. /\ Before(e, leaf.date) <=> last < today
      /\ leaf.date = e <=> today = last
  BY <1>2, DatesInOrder
<1>6. Now = M * today + tick /\ Moment(e, 0) = M * last + 0  BY DEF Now, Moment
<1>7. DaysRemaining(w) = -(((M * today + tick) - (M * last + 0)) \div M)
  <2> DEFINE a == M * today + tick  b == M * last + 0
  <2>1. Now = a /\ Moment(e, 0) = b  BY <1>6
  <2> HIDE DEF a, b, w
  <2>2. DaysRemaining(w) = -((a - b) \div M)
    BY <2>1, Zenon DEF DaysRemaining, DaysBetween, w, e
  <2> QED  BY <2>2 DEF a, b
<1>8. DeriveEffectiveProceduralStatus("published", w) = "opposition_period"
        => M * today + tick <= M * last + 0
  BY <1>6 DEF DeriveEffectiveProceduralStatus
<1>a. /\ CountsDownToLastDay <=>
           /\ DaysRemaining(w) >= 0 <=> ~TooLate
           /\ DaysRemaining(w) = 0 <=> LastDay
           /\ DeriveEffectiveProceduralStatus("published", w) = "opposition_period" => ~TooLate
  BY DEF CountsDownToLastDay, ShownAsOpen
<1> HIDE DEF w, e, M, today, last, tick
<1>9. DaysRemaining(w) = last - today
  <2>1. M * today \in Int /\ M * last \in Int /\ tick \in Int  BY <1>3
  <2>2. M * (today - last) = M * today - M * last  BY <1>3
  <2>3. (M * today + tick) - (M * last + 0) = M * (today - last) + tick  BY <2>1, <2>2
  <2>4. (M * (today - last) + tick) \div M = today - last
    <3>1. today - last \in Int  BY <1>3
    <3> QED  BY <1>3, <3>1, WholeDays
  <2>5. -(today - last) = last - today  BY <1>3
  <2> QED  BY <1>7, <2>3, <2>4, <2>5
<1>10. M * today + tick <= M * last + 0 => today <= last
  <2> SUFFICES ASSUME M * today + tick <= M * last + 0, last < today PROVE FALSE  BY <1>3
  <2>1. M * today \in Int /\ M * last \in Int /\ tick \in Int /\ 0 <= tick /\ 0 < M /\ M \in Int
    BY <1>3
  <2>2. M * (today - last) > 0  BY <1>3, <2>1
  <2>3. M * (today - last) = M * today - M * last  BY <1>3, <2>1
  <2> QED  BY <2>1, <2>2, <2>3
<1>11. /\ DaysRemaining(w) >= 0 <=> ~(last < today)
       /\ DaysRemaining(w) = 0 <=> today = last
  BY <1>3, <1>9
<1>12. today <= last <=> ~(last < today)  BY <1>3
<1> QED  BY <1>4, <1>5, <1>8, <1>a, <1>10, <1>11, <1>12

LEMMA NeverEarlier == ASSUME WindowInv PROVE LaterIsNeverEarlier
<1> DEFINE d == leaf.date  l == Tomorrow(d)  p == candidate.published
           on(x) == [candidate EXCEPT !.published = x]
           end(x) == CalculateOppositionDeadline(on(x)).deadlineDate
<1>1. /\ IsDate(d) /\ IsDate(l) /\ IsDate(p) /\ p \in Openings /\ candidate.rule \in RuleSets
      /\ ParseIsoDate(p) \in Int
      /\ ParseIsoDate(l) = ParseIsoDate(d) + 1 /\ ParseIsoDate(d) = ParseIsoDate(p) + gone.days
      /\ gone.days \in Int /\ 0 <= gone.days /\ gone.days <= 364
  <2>1. DaysWalked \in Int /\ DaysWalked <= 364  BY WindowAssumption
  <2>2. gone.days \in 0..DaysWalked  BY DEF WindowInv
  <2>3. gone.days \in Int /\ 0 <= gone.days /\ gone.days <= 364  BY <2>1, <2>2
  <2> QED  BY <2>3, WindowAssumption, TomorrowIs, DateIs DEF WindowInv
<1>2. candidate = [published |-> p, filed |-> Unreadable, rule |-> candidate.rule]
  BY DEF WindowInv
<1>3. \A x : on(x).published = x /\ on(x).rule = candidate.rule
  BY <1>2
<1>4. d.year \in Years /\ d.year + 1 \in Years /\ l.year \in Years /\ l.year + 1 \in Years
  <2>1. p.year \in Years /\ p.year + 1 \in Years /\ p.year + 2 \in Years /\ p.year \in Int
    BY <1>1, OpeningYears DEF IsDate
  <2>2. (p.year + 1) + 1 = p.year + 2  BY <2>1
  <2>3. gone.days \in 0..365 /\ gone.days + 1 \in 0..365  BY <1>1
  <2>4. ParseIsoDate(l) = ParseIsoDate(p) + (gone.days + 1)  BY <1>1
  <2>5. d.year = p.year \/ d.year = p.year + 1  BY <1>1, <2>3, WithinAYear
  <2>6. l.year = p.year \/ l.year = p.year + 1  BY <1>1, <2>3, <2>4, WithinAYear
  <2> QED  BY <2>1, <2>2, <2>5, <2>6
<1>5. LastByRule(d, candidate.rule, end(d))
  <2>1. on(d).published = d /\ on(d).rule = candidate.rule  BY <1>3
  <2> HIDE DEF on, d
  <2> QED  BY <1>1, <1>4, <2>1, DeadlineIs
<1>6. LastByRule(l, candidate.rule, end(l))
  <2>1. on(l).published = l /\ on(l).rule = candidate.rule  BY <1>3
  <2> HIDE DEF on, l
  <2> QED  BY <1>1, <1>4, <2>1, DeadlineIs
<1>7. ~Before(end(l), end(d))
  <2> HIDE DEF end
  <2> QED  BY <1>1, <1>5, <1>6, LaterEndsLater
<1> QED  BY <1>7 DEF LaterIsNeverEarlier

\* Whatever day an application is published on and whichever the register's rule, its deadline is
\* the last day to oppose by the calendar, the page of deadlines counts down to it, and nobody who
\* published later has to be opposed earlier (calculateOppositionDeadline).
THEOREM DeadlinesAreSound == WindowSpec => []WindowSound
<1>1. WindowInv => WindowSound
  <2> SUFFICES ASSUME WindowInv PROVE WindowSound  OBVIOUS
  <2>1. DeadlineLands
    <3>1. Window # RangeError /\ LastByRule(candidate.published, Rule, Window.deadlineDate)  BY WindowIs
    <3>2. leaf.date = Window.deadlineDate <=> LastDay  BY <3>1, LastDayIs
    <3> QED  BY <3>1, <3>2 DEF DeadlineLands
  <2> QED  BY <2>1, NeverEarlier, CountedDown DEF WindowSound
<1> QED  BY <1>1, WindowAlways, PTL

================================================================================
