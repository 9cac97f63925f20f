SPECIFICATION Spec
CONSTANT Release = {r1, r2}
INVARIANTS
    OkMeansWhole
    NoMixedBoot
