\* Three jobs; three callers and a grower of an active object; two callers of
\* a composite of two children, which may fail to start.  Texts of up to three
\* bytes, code points or characters (five to be decoded in place).
CONSTANTS
    c1 = c1
    c2 = c2
    c3 = c3
    g1 = g1
    x1 = x1
    x2 = x2
    NumberOfJobs = 3
    MaxLeaks = 1
    StartThreads = 2
    NumberOfThreads = 3
    Overlap = FALSE
    Bytes = {0, 32, 37, 65, 191, 255}
    CodePoints = {10, 34, 45, 65, 128, 8233, 55295, 65536}
    Escaped = {8, 9, 12, 13, 31, 38, 39, 44, 47, 60, 62, 92}
    Characters = {37, 43, 45, 49, 50, 55, 56}
    MimeCharacters = {37, 43, 50, 53}
    MaxLength = 3
    IntegerBits = 8
SPECIFICATION FairSpecs
INVARIANTS GateInv NoThreadForgotten NoJobAfterFailure HandlesValid StopOrder CodecsExact NumbersExact
PROPERTIES ImplementsActiveObject CallsReturn
