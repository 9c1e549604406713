----------------------------- MODULE MatchDispatch -----------------------------
(***************************************************************************)
(* What the match job queue promises, without queue, pipelines or clock:   *)
(* a match job, named by its idempotency key, is claimed by one handler    *)
(* call, at most once ever, and that call gives it up only by scoring it.  *)
(***************************************************************************)
CONSTANTS Job, Key

VARIABLES
    claimed,    \* the keys claimed so far
    held        \* held[j]: the keys handler call j has claimed and not yet scored

vars == <<claimed, held>>

Init == claimed = {} /\ held = [j \in Job |-> {}]

Claim(j, S) ==
    /\ held[j] = {}
    /\ S \cap claimed = {}
    /\ claimed' = claimed \cup S
    /\ held' = [held EXCEPT ![j] = S]

Score(j, k) ==
    /\ k \in held[j]
    /\ held' = [held EXCEPT ![j] = @ \ {k}]
    /\ UNCHANGED claimed

Next == \E j \in Job : (\E S \in SUBSET Key : Claim(j, S)) \/ (\E k \in Key : Score(j, k))

Spec == Init /\ [][Next]_vars
=============================================================================
