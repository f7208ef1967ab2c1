------------------------------- MODULE MCPlans --------------------------------
EXTENDS Plans, TLC
MCUsers == {1, 2}
On(id) == [plan |-> id, own |-> NoOwn]
MCStarts ==
    {1 :> NoRow @@ 2 :> NoRow, 1 :> On(1) @@ 2 :> NoRow, 1 :> NoRow @@ 2 :> On(0),
     1 :> On(0) @@ 2 :> On(0), 1 :> On(1) @@ 2 :> On(1), 1 :> On(0) @@ 2 :> On(2),
     1 :> On(2) @@ 2 :> On(1)}
\* Sound while no terms, or all of them, are among the Pointers.
Symmetry == Permutations(Procs) \cup Permutations(Terms)
===============================================================================
