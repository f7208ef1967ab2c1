---------------------------- MODULE MCReservations ----------------------------
EXTENDS Reservations, TLC

Symmetry == Permutations(Ids) \cup Permutations(Users) \cup Permutations(Types)

\* -1, as int64 of a larger size is, and 0 are refused; 2 + 2 does not fit into MCMaxInt.
MCSizes == {-1, 0, 1, 2}
MCMaxInt == 3
=============================================================================
