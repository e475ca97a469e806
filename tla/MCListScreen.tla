----------------------------- MODULE MCListScreen -----------------------------
(* A small instance of ListScreen for TLC.                                   *)
EXTENDS ListScreen

CONSTANTS p1, p2, dangling, orphan, h1, h2

MCIds       == {p1, p2, dangling, orphan}
MCFetchable == {p1, p2}
MCOwnerless == {orphan}
TwoHeaders  == {h1, h2}

MCDate == [p \in MCIds |-> IF p = p1 THEN 1 ELSE 2]

\* Bound: where entries are removed p1 leaves the list and comes back; users
\* have no owner.
MCAdds ==
    [s \in Screens |->
        [p \in MCIds |-> CASE p = p1 /\ s \in {"feed", "follows"} -> 2
                           [] p = orphan /\ s # "feed" -> 0
                           [] OTHER -> 1]]

=============================================================================
