----------------------------- MODULE Delegation -----------------------------
(***************************************************************************)
(* The delegation forest: a table whose rows name a parent row, or None.   *)
(***************************************************************************)
CONSTANT None  \* SQL NULL

(* _ancestors walks the parent links: the chain of a is the least set that *)
(* holds a and, with an account, its parent.                               *)
Chain(rows, a) ==
  {b \in DOMAIN rows : \A S \in SUBSET DOMAIN rows :
     a \in S /\ (\A c \in S : rows[c].parent \in S \cup {None}) => b \in S}
=============================================================================
