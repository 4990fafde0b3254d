\* Steps added, split, removed, moved and worked on by several executors, and
\* the steps mp next offers.
CONSTANTS
    wp1 = wp1
    wp2 = wp2
    Ids <- SomeIds
    Packages <- SomePackages
    Elsewhere = Elsewhere
    GivenDeps <- SomeDeps
    Mentioning <- SomeMentioning
    MaxEdits = 5
SPECIFICATION Spec
CHECK_DEADLOCK FALSE
INVARIANT InferredWorkIsOffered
SYMMETRY PackageSymmetry
