----------------------------- MODULE MCListPage -----------------------------
(* ListPage for TLC: three rows on two pages; rows 1 and 2 are named "a",   *)
(* rows 2 and 3 belong to owner 1, row 1 to owner 2.                        *)
EXTENDS ListPage

MCMatches(i, name, owner) ==
    /\ name = "" \/ i \in {1, 2}
    /\ owner = 0 \/ (owner = 1 <=> i \in {2, 3})
=============================================================================
