----------------------------- MODULE MCSubscription ----------------------------
(***************************************************************************)
(* A small catalog for TLC: two plans that grow in every limit, of which   *)
(* the larger allows more recipients than the hard cap does.               *)
(***************************************************************************)
EXTENDS Subscription, TLC

CONSTANTS basis, plus, w1, w2, w3, q1, q2

Of(w, e, p) == [watches |-> w, emails |-> e, price |-> p, isActive |-> TRUE]

Sizes   == basis :> Of(1, 1, 1) @@ plus :> Of(2, 4, 2)
Growing == [p \in Plan |-> Sizes[p]]

\* A withdrawn plan, and one with more recipients than the cap for no price.
Edits == {[Sizes[plus] EXCEPT !.isActive = FALSE], Of(3, 9, 0)}
NoEdits == {}

\* Bound on what is explored once an operator has stepped in: one call at a time, one watch.
SteeredLightly ==
    steered => /\ Cardinality({q \in Request : pc[q] # "idle"}) <= 1
               /\ Cardinality({w \in Watch : watch[w] # None}) <= 1

Watches  == Permutations(Watch)
Requests == Permutations(Request)
Swaps    == Watches \cup Requests
===============================================================================
