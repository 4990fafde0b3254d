------------------------------ MODULE MCSteps ------------------------------
\* One step by number and the children it can be split into.
EXTENDS Steps, TLC

CONSTANTS wp1, wp2

SomeIds == {<<1>>, <<1, 1>>, <<1, 2>>}
SomePackages == {wp1, wp2}
SomeMentioning == {<<1>>}
SomeDeps == {{}, {<<1>>}}

PackageSymmetry == Permutations(SomePackages)
=============================================================================
