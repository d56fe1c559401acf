------------------------------ MODULE MCConsole ------------------------------
(***************************************************************************)
(* Console on small sets, and the loops of treetable.js one iteration at a *)
(* time, as the reference for the sets of TreeTable.                       *)
(***************************************************************************)
EXTENDS Console, SequencesExt

CONSTANTS f1, f2, f3

Names == (f1 :> 1) @@ (f2 :> 1) @@ (f3 :> 2)

(* Files of one name can be exchanged. *)
Symmetry == Permutations({f1, f2})

-----------------------------------------------------------------------------
(* The rows in the order of the list the server sent. *)
List == SetToSeq(Rows)

(* sort, at index i of its loop over the children of id; m is mData, and    *)
(* its rows marked isParent.                                                *)
RECURSIVE SortFrom(_, _, _, _)
SortFrom(p, id, i, m) ==
    IF i > Len(List) THEN m
    ELSE IF p[List[i]] # id THEN SortFrom(p, id, i + 1, m)
    ELSE LET dirs == IF m.rows # <<>> /\ Last(m.rows) = id
                     THEN m.dirs \cup {id} ELSE m.dirs
             deeper == SortFrom(p, List[i], 1, [rows |-> Append(m.rows, List[i]),
                                                dirs |-> dirs])
         IN SortFrom(p, id, i + 1, deeper)

Sorted(p) == SortFrom(p, Root, 1, [rows |-> <<>>, dirs |-> {}])

(* toggleRows on the row d of the table t, whose rows are m: flip the icon, *)
(* then loop over all rows from index i.                                    *)
RECURSIVE RowsFrom(_, _, _, _, _)
RowsFrom(m, d, isOpen, i, t) ==
    IF i > Len(m.rows) THEN t
    ELSE LET r == m.rows[i]
             hidden1 == [t EXCEPT !.shown = @ \ {r}]
             flipped == [hidden1 EXCEPT !.open = @ \ {r}]
         IN RowsFrom(m, d, isOpen, i + 1,
                IF parent[r] # d THEN t
                ELSE IF ~isOpen THEN [t EXCEPT !.shown = @ \cup {r}]
                ELSE IF r \in m.dirs /\ r \in t.open
                THEN RowsFrom(m, r, TRUE, 1, flipped)
                ELSE hidden1)

Click(m, d, t) ==
    RowsFrom(m, d, d \in t.open, 1,
             [t EXCEPT !.open = IF d \in @ THEN @ \ {d} ELSE @ \cup {d}])

(* expandAll, at index i of its loop. *)
RECURSIVE ExpandFrom(_, _, _)
ExpandFrom(m, i, t) ==
    IF i > Len(m.rows) THEN t
    ELSE ExpandFrom(m, i + 1,
             IF m.rows[i] \in m.dirs \ t.open THEN Click(m, m.rows[i], t) ELSE t)

Seen == [shown |-> shown, open |-> open]

(* The steps of TreeTable are those of the code's loops: what gets a place  *)
(* in the table (no row of a cycle or below a deleted parent), what a click *)
(* hides and shows with the clicks it triggers, what a search opens.  (Of   *)
(* the renders those that follow an empty table are compared.)              *)
TreeStepsAsCoded ==
    [][ /\ parent' # parent /\ shown = {} =>
              LET m == Sorted(parent') IN
              Seen' = [shown |-> Range(m.rows), open |-> m.dirs]
        /\ parent' = parent /\ Seen' # Seen =>
              LET m == Sorted(parent) IN
              \/ \E d \in shown : Toggle(d) /\ Seen' = Click(m, d, Seen)
              \/ ExpandAll /\ Seen' = ExpandFrom(m, 1, Seen) ]_treeVars
=============================================================================
