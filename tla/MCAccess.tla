------------------------------- MODULE MCAccess -------------------------------
EXTENDS Access, TLC

NoParents == [a \in Authorities |-> None]

OneChild ==
    LET top == CHOOSE a \in Authorities : TRUE
    IN [a \in Authorities |-> IF a = top THEN None ELSE top]

Symmetry == Permutations(Users) \cup Permutations(Browsers)
=============================================================================
