----------------------------- MODULE Friendship -----------------------------
(***************************************************************************)
(* What the friend service promises, without threads, packets or tables:   *)
(* two users are strangers, or one has asked the other, or they are        *)
(* friends. Only the one who was asked decides, and only once; friends     *)
(* stay friends.                                                           *)
(***************************************************************************)
CONSTANT Users

VARIABLES
    friends,    \* pairs {a, b} of friends
    asked       \* <<a, b>>: a has asked b, who has not decided

vars == <<friends, asked>>

Init ==
    /\ friends = {}
    /\ asked = {}

Strangers(a, b) ==
    /\ {a, b} \notin friends
    /\ {<<a, b>>, <<b, a>>} \cap asked = {}

Ask(a, b) ==
    /\ a # b /\ Strangers(a, b)
    /\ asked' = asked \cup {<<a, b>>}
    /\ UNCHANGED friends

Accept(a, b) ==
    /\ <<a, b>> \in asked
    /\ asked' = asked \ {<<a, b>>}
    /\ friends' = friends \cup {{a, b}}

Reject(a, b) ==
    /\ <<a, b>> \in asked
    /\ asked' = asked \ {<<a, b>>}
    /\ UNCHANGED friends

Next == \E a, b \in Users : Ask(a, b) \/ Accept(a, b) \/ Reject(a, b)

Spec == Init /\ [][Next]_vars
=============================================================================
