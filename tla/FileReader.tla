----------------------------- MODULE FileReader -----------------------------
(***************************************************************************)
(* FileManager::FileReader (src/UServerUtils/FileManager/FileReader.ipp):  *)
(* a buffered reader of delimited lines.  The byte behind the buffered     *)
(* data is a sentinel delimiter, so a scan stops there at the latest; then *)
(* the buffer is filled again.  getline(string) copies what it has and     *)
(* fills the whole buffer; getline(string_view) keeps the beginning of the *)
(* line in the buffer, moved to the front or in a buffer grown for it.     *)
(*                                                                         *)
(* Cell i + 1 of r.buffer is p_buffer_[i]; positions count from zero.      *)
(***************************************************************************)
EXTENDS Integers, Sequences, SequencesExt

CONSTANTS
    Chars,                      \* bytes other than the delimiter
    MaxFile, MaxBuffer,         \* bounds of the file and of initial_buffer_size
    Overloads                   \* subset of {"string", "view"}

Delimiter == "delimiter"
Zero == "zero"                  \* what resize() fills with

VARIABLES
    file, broken,               \* the content of the file; reads from broken on fail
    overload,                   \* which getline() is used
    reader,                     \* the members of the FileReader
    lines,                      \* what getline() has returned with good()
    rest                        \* what it has returned when good() ended

readerVars == <<file, broken, overload, reader, lines, rest>>

Zeros(n) == [i \in 1 .. n |-> Zero]
WithSentinel(buffer, size) == Append(SubSeq(buffer, 1, size), Delimiter)

\* The constructor.
ReaderInit ==
    /\ file \in UNION {[1 .. n -> Chars \cup {Delimiter}] : n \in 0 .. MaxFile}
    /\ broken \in 0 .. MaxFile + 1
    /\ overload \in Overloads
    /\ \E initial \in 1 .. MaxBuffer :
         LET size == (IF initial <= 2 THEN 2 ELSE initial) - 1
         IN  reader = [buffer |-> WithSentinel(Zeros(size), size), size |-> size, position |-> size,
                       state |-> "good", file_state |-> "good", file_position |-> 0]
    /\ lines = << >> /\ rest = << >>

\* load_buffer(): read() into the cells from position on.  A read that returns
\* less than it was asked for is taken for the end of the file; after one that
\* fails every caller sets state_ to Bad.  Loaded() is the size of the span it
\* leaves.
Load(r, position) ==
    LET room == r.size - position
        left == Len(file) - r.file_position
        n == IF left < room THEN left ELSE room
        data == SubSeq(file, r.file_position + 1, r.file_position + n)
    IN  IF r.file_position >= broken THEN [r EXCEPT !.file_state = "bad", !.state = "bad"] ELSE
        [r EXCEPT !.buffer = SubSeq(@, 1, position) \o data \o SubSeq(@, position + n + 1, Len(@)),
                  !.file_position = @ + n,
                  !.file_state = IF n < room THEN "eof" ELSE "good"]

Loaded(before, r) == r.file_position - before.file_position

\* The buffer is cut to the data it has.
Shrink(r, size) == [r EXCEPT !.buffer = WithSentinel(@, size), !.size = size]

\* Where a scan from the current position stops: *position_ == delimeter_.
Scan(r) == CHOOSE i \in r.position .. r.size :
             r.buffer[i + 1] = Delimiter /\ \A j \in r.position .. i - 1 : r.buffer[j + 1] # Delimiter

Text(r, from, to) == SubSeq(r.buffer, from + 1, to)
Answer(r, str) == [reader |-> r, str |-> str]

-----------------------------------------------------------------------------
\* getline(std::string&) from the current position, str read so far.
RECURSIVE GetString(_, _)
GetString(r, str) ==
    LET found == Scan(r)
        text == str \o Text(r, r.position, found)
        here == [r EXCEPT !.position = found]
        full == Load(here, 0)
        n == Loaded(here, full)
    IN  IF found # r.size THEN Answer([r EXCEPT !.position = found + 1], text)
        ELSE IF r.file_state = "eof" THEN Answer([here EXCEPT !.state = "eof"], text)
        ELSE IF full.state = "bad" THEN Answer(full, text)
        ELSE IF n = 0
             THEN Answer([full EXCEPT !.state = IF text = << >> THEN "eof" ELSE @], text)
             ELSE GetString([(IF n < r.size THEN Shrink(full, n) ELSE full) EXCEPT !.position = 0], text)

\* A line is moved to the front only, where it may be read over.
MutMakeRoom(r, start) ==
    IF start = r.size THEN [reader |-> [r EXCEPT !.position = 0], start |-> 0]
    ELSE [reader |-> [r EXCEPT !.buffer = Text(r, start, r.size) \o SubSeq(@, r.size - start + 1, Len(@)),
                               !.position = IF 2 * start > r.size THEN r.size - start ELSE 0],
          start |-> 0]

\* Room for more of a line that begins at start: at the front, by moving it
\* there, or in a grown buffer.  The new start is 0 or the old one.
MakeRoom(r, start) ==
    IF start = r.size THEN [reader |-> [r EXCEPT !.position = 0], start |-> 0]
    ELSE IF 2 * start >= r.size
    THEN [reader |-> [r EXCEPT !.buffer = Text(r, start, r.size) \o SubSeq(@, r.size - start + 1, Len(@)),
                               !.position = r.size - start],
          start |-> 0]
    ELSE LET more == 1 + r.size \div 2
             size == r.size + more
         IN  [reader |-> [r EXCEPT !.buffer = WithSentinel(@ \o Zeros(more), size), !.size = size],
              start |-> start]

\* The file ends: what has been read is the last line, if there is any.
LastView(r, start) ==
    IF r.position = start THEN Answer([r EXCEPT !.state = "eof"], << >>)
    ELSE Answer(r, Text(r, start, r.position))

\* getline(std::string_view&) from the current position, the line begun at start.
RECURSIVE GetView(_, _)
GetView(r, start) ==
    LET found == Scan(r)
        here == [r EXCEPT !.position = found]
        room == MakeRoom(here, start)
        full == Load(room.reader, room.reader.position)
        n == Loaded(here, full)
    IN  IF found # r.size THEN Answer([r EXCEPT !.position = found + 1], Text(r, start, found))
        ELSE IF r.file_state = "eof" THEN LastView(here, start)
        ELSE IF full.state = "bad" THEN Answer(full, << >>)
        ELSE IF n = 0 THEN LastView(full, room.start)
        ELSE GetView(IF full.position + n < full.size THEN Shrink(full, full.position + n) ELSE full,
                     room.start)

\* peek(): fills the buffer when nothing is left in it.
Peeked(r) ==
    LET full == Load(r, 0)
        n == Loaded(r, full)
    IN  IF r.position # r.size \/ r.file_state = "eof" THEN r
        ELSE IF n = 0 THEN full
        ELSE [(IF n < r.size THEN Shrink(full, n) ELSE full) EXCEPT !.position = 0]

Getline ==
    /\ reader.state = "good"
    /\ LET answer == IF overload = "string" THEN GetString(reader, << >>)
                                            ELSE GetView(reader, reader.position)
       IN  /\ reader' = answer.reader
           /\ IF answer.reader.state = "good"
              THEN lines' = Append(lines, answer.str) /\ UNCHANGED rest
              ELSE rest' = answer.str /\ UNCHANGED lines
    /\ UNCHANGED <<file, broken, overload>>

Peek ==
    /\ reader.state = "good"
    /\ reader' = Peeked(reader)
    /\ UNCHANGED <<file, broken, overload, lines, rest>>

ReaderNext == Getline \/ Peek

ReaderSpec == ReaderInit /\ [][ReaderNext]_readerVars

-----------------------------------------------------------------------------
\* The lines of a sequence of bytes, the last one with or without a delimiter.
RECURSIVE Split(_)
Split(seq) ==
    IF seq = << >> THEN << >>
    ELSE LET ends == {i \in DOMAIN seq : seq[i] = Delimiter}
             first == IF ends = {} THEN Len(seq) + 1
                      ELSE CHOOSE i \in ends : \A j \in ends : i <= j
         IN  <<SubSeq(seq, 1, first - 1)>> \o Split(SubSeq(seq, first + 1, Len(seq)))

Terminated == file = << >> \/ file[Len(file)] = Delimiter

\* Of a file whose last line is terminated, getline() returns the lines, whole
\* and in order, whatever the size of the buffer, and however the buffer was
\* moved, grown, cut or filled by peek() on the way; at the end it has returned
\* them all.
TerminatedLinesExact ==
    Terminated => /\ IsPrefix(lines, Split(file))
                  /\ reader.state = "eof" => lines = Split(file) /\ rest = << >>

\* A loop over getline() reads every byte of the file but the delimiters
\* ("EXPECT_EQ(result, "abcd")" for the file a;b;c;d in StringView_Test4,
\* src/UServerUtils/Test/file_manager_test.cpp:1265).
LoopReadsAll ==
    reader.state = "eof" => FlattenSeq(lines) = SelectSeq(file, LAMBDA c : c # Delimiter)
=============================================================================
