------------------------------ MODULE MCPkgd ------------------------------
EXTENDS Pkgd

\* Names of packages and sessions are alike.
Symmetry == Permutations(Names) \cup Permutations(Sessions)

\* Bound: what goes wrong since the machine started, with the failures and the
\* crashes of before; any two such events meet.
MaxMishaps == 2
Mishaps ==
    fails + crashes + Cardinality(stuck) + Cardinality(Sessions \ alive)
        + IF hasty THEN 1 ELSE 0
FewMishaps == Mishaps <= MaxMishaps
=============================================================================
