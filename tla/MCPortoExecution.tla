-------------------------- MODULE MCPortoExecution --------------------------
(* Two overlapping calls, and credentials that change meanwhile. *)
EXTENDS PortoExecution

CONSTANTS dp, sp, old, new, t1, t2, k1, k2

Sorted == [p \in {dp, sp} |-> IF p = dp THEN 1 ELSE 2]

Item == [fit |-> "ok", value |-> 1, key |-> NoKey, mime |-> NoMime, allowed |-> {"png", "pdf"}]

FewAsks ==
    {[many |-> FALSE, items |-> <<[Item EXCEPT !.key = k1, !.mime = "png"]>>],
     [many |-> TRUE, items |-> <<Item, [Item EXCEPT !.value = 2, !.key = k2, !.allowed = {"pdf"}]>>],
     [many |-> TRUE, items |-> <<Item, [Item EXCEPT !.fit = "unprepared"]>>],
     [many |-> TRUE, items |-> <<Item, [Item EXCEPT !.fit = "unsold"]>>],
     [many |-> TRUE, items |-> <<>>]}

Plain == [key |-> NoKey, login |-> NoLogin, app |-> FALSE, mime |-> "png", pin |-> TRUE]

Symmetry == Permutations(Tasks)

FewExecutions == {Plain, [Plain EXCEPT !.login = new]}
=============================================================================
