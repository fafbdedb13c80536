\* Files of up to three bytes, read with getline() into a string_view.
CONSTANTS
    Chars = {a, b}
    MaxFile = 3
    MaxBuffer = 4
    Overloads = {"view"}
SPECIFICATION ReaderSpec
INVARIANT LoopReadsAll
CHECK_DEADLOCK FALSE
