------------------------- MODULE MCGovernanceVote --------------------------
(* Three proposals ending at blocks 1, 3 and 2; two known at start; the    *)
(* chain grows from 0 to 3; the user searches for nothing or for p2.       *)
EXTENDS GovernanceVote

CONSTANTS p1, p2, p3

MCProposals == {p1, p2, p3}
MCOrder == <<p1, p2, p3>>
MCBlockEnd(p) == CASE p = p1 -> 1 [] p = p2 -> 3 [] p = p3 -> 2
MCInitKnown == {p2, p3}
MCSearches == {MCProposals, {p2}}
====
