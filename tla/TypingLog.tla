----------------------------- MODULE TypingLog -----------------------------
(***************************************************************************)
(* What the injection queue of connection.rs promises each service: every  *)
(* accepted text is attempted once, in the order of acceptance, and at     *)
(* most Limit texts wait behind the one being typed.  How texts wait and   *)
(* who types them is left to TextInjection, which implements this.         *)
(***************************************************************************)
EXTENDS Naturals, Sequences

CONSTANTS Services, Texts, Limit

VARIABLES
    accepted,   \* per service: the texts acknowledged, in order
    attempted   \* per service: the texts typed or given up, in order

Init ==
    /\ accepted = [g \in Services |-> <<>>]
    /\ attempted = [g \in Services |-> <<>>]

Accept(g, t) ==
    /\ Len(accepted[g]) - Len(attempted[g]) <= Limit
    /\ accepted' = [accepted EXCEPT ![g] = Append(@, t)]
    /\ UNCHANGED attempted

Attempt(g) ==
    /\ Len(attempted[g]) < Len(accepted[g])
    /\ attempted' = [attempted EXCEPT ![g] = Append(@, accepted[g][Len(@) + 1])]
    /\ UNCHANGED accepted

Next == \E g \in Services : Attempt(g) \/ \E t \in Texts : Accept(g, t)

Spec == Init /\ [][Next]_<<accepted, attempted>>
=============================================================================
