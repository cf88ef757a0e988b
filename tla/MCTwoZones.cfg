SPECIFICATION ExampleSpec
CONSTANTS
    Zone = {stop, slow}
    Distance = 2
    Limit = 5
    MaxEvents = 2
PROPERTY BreachStops
\* A node that is down has nothing more to do.
CHECK_DEADLOCK FALSE
