SPECIFICATION LookupSpec
CONSTANTS
    Width = 3
    Height = 2
    Resolution = 4
    Reach = 5
INVARIANT OffTheMapIsNotFree
