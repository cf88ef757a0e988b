SPECIFICATION ButtonSpec
CONSTANTS
    Source = {n1}
    Consumer = {c1}
    MaxPresses = 2
    MaxLives = 2
CHECK_DEADLOCK FALSE
INVARIANT StopsAreDistinct
