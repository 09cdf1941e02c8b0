--------------------------- MODULE MCAccountList ---------------------------
(***************************************************************************)
(* Every sort by one or both of the columns status and created_at, in both *)
(* directions, pages of one row and of the default size, with and without  *)
(* a filter.                                                               *)
(***************************************************************************)
EXTENDS AccountList

SmallValues == [c \in SortField |-> IF c = "currency" THEN {1} ELSE {1, 2}]

Sorts ==
    LET keys == [field : {"status", "created_at"}, dir : {"asc", "desc"}]
    IN  {<<k>> : k \in keys}
            \cup {s \in keys \X keys : s[1].field # s[2].field}

SmallQueries ==
    [sort : Sorts, count : {1, None}, where : {<<>>, [status |-> {1}]}]

=============================================================================
