\* keys encrypt under a KEK that does not open every row.
SPECIFICATION Spec
CONSTANTS
    Kids = {1, 2, 3}
    Keks = {k1, k2}
    NoKek = none
    Replicas = {r1}
    MaxStarts = 1
INVARIANT SomeKekOpensAll
CHECK_DEADLOCK FALSE
