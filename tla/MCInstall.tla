----------------------------- MODULE MCInstall -----------------------------
\* OpenCode and Pi, which share a root unless an override moves one of them,
\* one skill, and two releases of it: the second one has dropped old.md.
EXTENDS Install

CONSTANTS p1, opencode, pi, aider, agents, moved, skill, old

Defaults == [h \in Harnesses |-> agents]
Override == [h \in Harnesses |-> IF h = pi THEN moved ELSE agents]
TwoEnvironments == {Defaults, Override}

TwoReleases == {[s \in Skills |-> {Marker, old}], [s \in Skills |-> {Marker}]}
=============================================================================
