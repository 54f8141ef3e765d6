\* Three sets of gains, errors of either sign, intervals of 0, 1 and 2 ticks.
SPECIFICATION Spec
CONSTANTS
    Gains <- FewGains
    Errors <- SmallErrors
    MaxError = 3
    Dts <- ZeroOrMore
INVARIANTS
    WithinClamp
    NoWindup
    FilterDoesNotAmplify
