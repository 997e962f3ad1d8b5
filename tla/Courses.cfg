SPECIFICATION Spec
CONSTANTS
    Fds = {1, 2}
    Lengths = {0, 2, 3}
    Params = 2
    MaxSets = 3
INVARIANTS TypeOK ListIsSelection CrashNeedsOverlap
PROPERTY AnswersAreWhole
