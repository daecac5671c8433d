--------------------------- MODULE MCTodoService ---------------------------
(* Small instances of TodoService.                                         *)
EXTENDS TodoService, TLC

\* A title of blanks, a padded one, one at the limit and one beyond it.
MCTitles == {[pad |-> 1, runes |-> 0], [pad |-> 1, runes |-> 1],
             [pad |-> 0, runes |-> 2], [pad |-> 0, runes |-> 3]}
\* One kind of title, for the runs about pages.
MCPlainTitles == {[pad |-> 0, runes |-> 1]}
MCSentIds == Ids \cup {NotUuid, OverlongId}
MCLimits == {0, 1, 3}
MCNoLimits == {}
Symmetry == Permutations(Clients)
=============================================================================
