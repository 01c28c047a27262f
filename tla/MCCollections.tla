---------------------------- MODULE MCCollections ----------------------------
EXTENDS Collections, TLC

Symmetry == Permutations(Objects) \cup Permutations(Vars)

Program(makes, numObjects, numLinks, numCells, nulls, leaves) ==
    [makes |-> makes, objects |-> numObjects, links |-> numLinks, cells |-> numCells,
     nulls |-> nulls, leaves |-> leaves]

\* Three links let one be taken out of the middle of a list; three objects let
\* a deletion run on, and in one program it runs through all kinds.  Smaller
\* ones leave an object on the stack under their methods.
SmallPrograms == {
    Program({"list"}, 2, 3, 0, FALSE, FALSE),
    Program({"item", "list"}, 3, 2, 0, FALSE, FALSE),
    Program({"array"}, 3, 0, 2, FALSE, FALSE),
    Program({"intMap"}, 3, 0, 2, FALSE, FALSE),
    Program({"list", "array", "intMap"}, 3, 1, 1, TRUE, FALSE),
    Program({"item", "list"}, 2, 2, 0, FALSE, TRUE),
    Program({"item", "array"}, 2, 0, 2, FALSE, TRUE),
    Program({"item", "intMap"}, 2, 0, 2, FALSE, TRUE) }
=============================================================================
