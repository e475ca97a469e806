---------------------------- MODULE FollowRelation ----------------------------
(***************************************************************************)
(* What User.follow and User.unfollow promise: one relation that is as the *)
(* follower's last tap says.  When the follower's client fails, taps may   *)
(* be forgotten, and pairs whose last tap is not through may end up either *)
(* way; those stay marked as torn until the follower taps again.           *)
(***************************************************************************)
CONSTANT Users

VARIABLES
    rel,     \* the pairs <<c, u>> such that c follows u
    lastTap, \* [<<c, u>>]: "follow", "unfollow", or "none" since c's app started
    torn     \* the pairs whose last tap was cut short

relVars == <<rel, lastTap, torn>>

Init ==
    /\ rel = {}
    /\ lastTap = [r \in Users \X Users |-> "none"]
    /\ torn = {}

Follow(c, u) ==
    /\ rel' = rel \cup {<<c, u>>}
    /\ lastTap' = [lastTap EXCEPT ![<<c, u>>] = "follow"]
    /\ torn' = torn \ {<<c, u>>}

Unfollow(c, u) ==
    /\ rel' = rel \ {<<c, u>>}
    /\ lastTap' = [lastTap EXCEPT ![<<c, u>>] = "unfollow"]
    /\ torn' = torn \ {<<c, u>>}

\* The client of c fails: nobody else's pairs are touched, and the relation
\* changes in none of c's that is not marked.
Cut(c) ==
    /\ torn \subseteq torn'
    /\ torn' \ torn \subseteq {c} \X Users
    /\ rel' \subseteq Users \X Users
    /\ \A r \in Users \X Users :
           r \notin {c} \X Users \/ r \notin torn' => (r \in rel' <=> r \in rel)
    /\ \/ UNCHANGED lastTap
       \/ lastTap' = [r \in Users \X Users |-> IF r[1] = c THEN "none" ELSE lastTap[r]]

\* Most steps of a client change nothing here.
Next == \/ UNCHANGED relVars
        \/ \E c \in Users : \/ \E u \in Users : Follow(c, u) \/ Unfollow(c, u)
                            \/ Cut(c)

Spec == Init /\ [][Next]_relVars

=============================================================================
