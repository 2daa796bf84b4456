--------------------------- MODULE MCParportShare ---------------------------
(* Instances of ParportShare for TLC: the devices are model values given by *)
(* each configuration.                                                      *)
EXTENDS ParportShare, TLC

CONSTANTS d1, d2, d3

\* Which devices may have each role.
None == {}
JustD1 == {d1}
JustD2 == {d2}
D1D2 == {d1, d2}
D2D3 == {d2, d3}
AllThree == {d1, d2, d3}

\* Devices of the same roles are interchangeable.
SymmetryAll == Permutations(AllThree)
SymmetryD2D3 == Permutations({d2, d3})

=============================================================================
