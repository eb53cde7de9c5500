CONSTANTS
    ab = ab
    ba = ba
    px = px
    Pairs = {ab, ba}
    Marks = {px}
    Opposite <- MCOpposite
    Streamed = {ab, ba}
    Saved <- MCSaved
    MaxRuns = 3
    Budgets <- MCBudgets
SPECIFICATION Spec
CHECK_DEADLOCK FALSE
INVARIANTS TypeOK LiveIsTracked ClearAnswerTrue NothingOutlivesItsPair
PROPERTIES MarksInOrder ClearsOwnQuote
