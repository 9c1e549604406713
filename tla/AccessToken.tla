---------------------------- MODULE AccessToken ----------------------------
(***************************************************************************)
(* The access token of the EUIPO client (euipo.oauth-client.ts): fetched   *)
(* with client credentials, cached until shortly before it expires, and    *)
(* sent with each request.  Calls interleave while a token or an answer is *)
(* on its way; each call that finds no live token fetches one, and the     *)
(* last answer is what stays cached.                                       *)
(***************************************************************************)
EXTENDS Naturals, FiniteSets

CONSTANTS
    Fetchers,       \* calls of getAuthenticated in flight
    Lifetimes,      \* values of expires_in
    Margin,         \* TOKEN_EXPIRY_SAFETY_MARGIN_MS
    MaxSeconds      \* bound on the clock

ASSUME TokenAssumption ==
    /\ Margin \in Nat /\ MaxSeconds \in Nat
    /\ Lifetimes \subseteq Nat

VARIABLES
    second,         \* Date.now()
    cachedToken,    \* until: when the client stops using it; dies: when it is void;
                    \* history: its life, and how long its own request took
    fetching        \* the calls in flight

tokenVars == <<second, cachedToken, fetching>>

NotFetching == [at |-> "idle"]
NoToken == [until |-> 0, dies |-> 0, life |-> 0, took |-> 0]

FetchState ==
    {NotFetching}
    \cup [at : {"token"}, asked : Nat]
    \cup [at : {"get"}, sent : Nat, dies : Nat, life : Nat, took : Nat]

TokenTypeOK ==
    /\ second \in Nat
    /\ cachedToken \in [until : Nat, dies : Nat, life : Nat, took : Nat]
    /\ fetching \in [Fetchers -> FetchState]

TokenInit ==
    /\ second = 1
    /\ cachedToken = NoToken
    /\ fetching = [c \in Fetchers |-> NotFetching]

-----------------------------------------------------------------------------
\* Mutant: the safety margin is forgotten.
UsedToTheEnd(lifetime) == second + lifetime

\* The time from which the client no longer uses a token it receives now.
UsedUntil(lifetime) == second + (IF lifetime > Margin THEN lifetime - Margin ELSE 0)

Send(c, token) ==
    fetching' = [fetching EXCEPT ![c] = [at |-> "get", sent |-> second, dies |-> token.dies,
                                         life |-> token.life, took |-> token.took]]

\* getAccessToken finds a token it may still use.
UseCached(c) ==
    /\ fetching[c] = NotFetching
    /\ cachedToken.until > second
    /\ Send(c, cachedToken)
    /\ UNCHANGED <<second, cachedToken>>

\* Otherwise it asks for a new one, whoever else is doing the same.
AskToken(c) ==
    /\ fetching[c] = NotFetching
    /\ cachedToken.until <= second
    /\ fetching' = [fetching EXCEPT ![c] = [at |-> "token", asked |-> second]]
    /\ UNCHANGED <<second, cachedToken>>

\* The token arrives, however long that took, and is sent with the request.
\* Its life began at the endpoint, which may be as early as when it was asked
\* for; the client counts from now.
TokenArrives(c, lifetime) ==
    /\ fetching[c].at = "token"
    /\ cachedToken' = [until |-> UsedUntil(lifetime), dies |-> fetching[c].asked + lifetime,
                       life |-> lifetime, took |-> second - fetching[c].asked]
    /\ Send(c, cachedToken')
    /\ UNCHANGED second

\* A refused, failed or unreadable token request throws and caches nothing.
TokenRefused(c) ==
    /\ fetching[c].at = "token"
    /\ fetching' = [fetching EXCEPT ![c] = NotFetching]
    /\ UNCHANGED <<second, cachedToken>>

\* The request ends in any way, also in a 401: the cached token stays.
Answered(c) ==
    /\ fetching[c].at = "get"
    /\ fetching' = [fetching EXCEPT ![c] = NotFetching]
    /\ UNCHANGED <<second, cachedToken>>

SecondPasses ==
    /\ second < MaxSeconds
    /\ second' = second + 1
    /\ UNCHANGED <<cachedToken, fetching>>

TokenNext ==
    \/ \E c \in Fetchers :
          \/ UseCached(c)
          \/ AskToken(c)
          \/ \E lifetime \in Lifetimes : TokenArrives(c, lifetime)
          \/ TokenRefused(c)
          \/ Answered(c)
    \/ SecondPasses

TokenSpec == TokenInit /\ [][TokenNext]_tokenVars

-----------------------------------------------------------------------------
\* A request carries a void token only because of that token's own request: it
\* took as long as the token lives, or longer than the margin, and then the
\* token is void for less than it took longer.  However the others interleave,
\* and although an older token may overwrite a newer one, nothing else makes
\* the client send a void token (euipo.oauth-client.ts:14, :154).  The request
\* for a token has no timeout (:124), so neither can be excluded.
BearerAlive ==
    \A c \in Fetchers :
        LET bearer == fetching[c] IN
        bearer.at = "get" /\ bearer.dies <= bearer.sent =>
            bearer.life <= bearer.took \/ bearer.sent + Margin < bearer.dies + bearer.took
=============================================================================
