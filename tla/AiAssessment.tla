---------------------------- MODULE AiAssessment ----------------------------
(***************************************************************************)
(* The optional AI assessment of a scored pair (packages/ai), as the       *)
(* worker wires it to the usage ledger of its JobStore.  A call reads the  *)
(* month's spending, looks in the cache, and asks the provider at most     *)
(* twice.  Calls interleave at each await: after the spending was read,    *)
(* and while the provider answers.                                         *)
(*                                                                         *)
(* Data kept: amounts in cents, a pair for the cache key, whether an       *)
(* answer was valid.  Left out: prompts, tokens and wording.               *)
(***************************************************************************)
EXTENDS Naturals, FiniteSets

CONSTANTS
    Assessors,      \* calls that may be in flight at once
    Scopes,         \* organizations, whose spending is counted apart
    PairKeys,       \* cache keys: mark texts, classes, prompt and model
    Configured,     \* whether the provider has an API key
    Limit,          \* monthly budget
    MaxCost,        \* the dearest request the token limit allows
    CacheTtl,       \* ticks a cached result is served
    MonthLength,    \* ticks of a calendar month
    MaxHours        \* bound on the clock

ASSUME AssessAssumption ==
    /\ IsFiniteSet(Assessors)
    /\ Configured \in BOOLEAN
    /\ Limit \in Nat /\ MaxCost \in Nat /\ CacheTtl \in Nat
    /\ MonthLength \in Nat \ {0} /\ MaxHours \in Nat

VARIABLES
    hour,           \* Date.now()
    spent,          \* the ledger: what each scope spent this month
    cached,         \* per pair when its result expires; 0 without result
    assessing       \* the calls in flight

assessVars == <<hour, spent, cached, assessing>>

NotAssessing == [at |-> "idle"]

Attempts == 1..2

\* The states of a call: waiting for the month's spending (read when asked),
\* or for the provider's answer to one of its attempts.
AssessState ==
    {NotAssessing}
    \cup [at : {"budget"}, scope : Scopes, pair : PairKeys, used : Nat]
    \cup [at : {"request"}, scope : Scopes, pair : PairKeys, attempt : Attempts]

AssessTypeOK ==
    /\ hour \in Nat
    /\ spent \in [Scopes -> Nat]
    /\ cached \in [PairKeys -> Nat]
    /\ assessing \in [Assessors -> AssessState]

AssessInit ==
    /\ hour = 1
    /\ spent = [s \in Scopes |-> 0]
    /\ cached = [p \in PairKeys |-> 0]
    /\ assessing = [a \in Assessors |-> NotAssessing]

-----------------------------------------------------------------------------
\* Mutant: the budget is exhausted only above its limit.
ProceedAtLimit(used) == used <= Limit

\* checkMonthlyBudget: exhausted at the limit, not only above it.
CanProceed(used) == used < Limit

\* InMemoryAiResponseCache.get: an entry is stale from its expiry on.
CacheHit(p) == cached[p] > hour

Assessing(a, state) == assessing' = [assessing EXCEPT ![a] = state]

\* A finished attempt without result: the second ends the call with null.
TryAgain(a) ==
    IF assessing[a].attempt = 1
    THEN Assessing(a, [assessing[a] EXCEPT !.attempt = 2])
    ELSE Assessing(a, NotAssessing)

\* assessTrademarkMatch up to its first await.
Assess(a, s, p) ==
    /\ Configured
    /\ assessing[a] = NotAssessing
    /\ Assessing(a, [at |-> "budget", scope |-> s, pair |-> p, used |-> spent[s]])
    /\ UNCHANGED <<hour, spent, cached>>

\* The spending arrives: no budget, a cached result, or a first request.  The
\* cache is asked only after the budget; an expired entry is deleted.
BudgetRead(a) ==
    LET p == assessing[a].pair IN
    /\ assessing[a].at = "budget"
    /\ IF CanProceed(assessing[a].used)
       THEN IF CacheHit(p)
            THEN Assessing(a, NotAssessing) /\ UNCHANGED cached
            ELSE /\ Assessing(a, [at |-> "request", scope |-> assessing[a].scope,
                             pair |-> p, attempt |-> 1])
                 /\ cached' = [cached EXCEPT ![p] = 0]
       ELSE Assessing(a, NotAssessing) /\ UNCHANGED cached
    /\ UNCHANGED <<hour, spent>>

\* recordAiUsage: the ledger is charged as soon as there is content, before it
\* is parsed or validated.
Charge(s, cost) == spent' = [spent EXCEPT ![s] = @ + cost]

\* A valid assessment: charged, cached for a day, returned.
ValidAnswer(a, cost) ==
    /\ assessing[a].at = "request"
    /\ Charge(assessing[a].scope, cost)
    /\ cached' = [cached EXCEPT ![assessing[a].pair] = hour + CacheTtl]
    /\ Assessing(a, NotAssessing)
    /\ UNCHANGED hour

\* Content that is no JSON, fails the schema or holds a forbidden phrase:
\* charged, and tried once more without asking the budget again.
InvalidAnswer(a, cost) ==
    /\ assessing[a].at = "request"
    /\ Charge(assessing[a].scope, cost)
    /\ TryAgain(a)
    /\ UNCHANGED <<hour, cached>>

\* An HTTP error, a network failure or an empty answer: nothing is charged.
NoAnswer(a) ==
    /\ assessing[a].at = "request"
    /\ TryAgain(a)
    /\ UNCHANGED <<hour, spent, cached>>

\* getMonthlyUsageEur counts the entries of the current calendar month only.
HourPasses ==
    /\ hour < MaxHours
    /\ hour' = hour + 1
    /\ spent' = IF hour' % MonthLength = 0 THEN [s \in Scopes |-> 0] ELSE spent
    /\ UNCHANGED <<cached, assessing>>

AssessProgress(a) ==
    \/ BudgetRead(a)
    \/ \E cost \in 0..MaxCost : ValidAnswer(a, cost) \/ InvalidAnswer(a, cost)
    \/ NoAnswer(a)

AssessNext ==
    \/ \E a \in Assessors, s \in Scopes, p \in PairKeys : Assess(a, s, p)
    \/ \E a \in Assessors : AssessProgress(a)
    \/ HourPasses

AssessSpec == AssessInit /\ [][AssessNext]_assessVars

-----------------------------------------------------------------------------
\* The requests that calls in flight may still make for scope s, the budget
\* having been read.
Permits(s) ==
    {x \in Assessors \X Attempts :
        LET c == assessing[x[1]] IN
        \/ c.at = "budget" /\ c.scope = s /\ CanProceed(c.used)
        \/ c.at = "request" /\ c.scope = s /\ c.attempt <= x[2]}

\* The most the ledger of a month may hold: a cent below the budget, and two
\* requests of each call that can be in flight.
Allowance ==
    IF Limit = 0 THEN 0 ELSE (Limit - 1) + MaxCost * (2 * Cardinality(Assessors))

\* The budget is read before, and charged after, the provider's answer
\* (openai-provider.ts:191), so concurrent calls overrun it, but by no more
\* than what was under way: once the budget is reached, what is spent and what
\* permitted requests may still cost stay within the allowance, retries
\* included, and nobody who asks after that adds to it.
OverrunBounded ==
    \A s \in Scopes :
        spent[s] >= Limit =>
            spent[s] + MaxCost * Cardinality(Permits(s)) <= Allowance

\* Every call comes back, with a result or without: the scoring job behind it
\* never waits for ever (assessWithRetry gives up after its second attempt).
AssessmentsSettle ==
    \A a \in Assessors :
        assessing[a] # NotAssessing ~> assessing[a] = NotAssessing
=============================================================================
