---------------------------- MODULE PlainStorage ----------------------------
(***************************************************************************)
(* PlainStorage::Map (src/PlainStorage): a map from keys to data in a file *)
(* of blocks.  Each block has the index of the next one of its chain and   *)
(* the size it uses.  There are the chain of free blocks, that of the      *)
(* blocks with key headers, and one chain of data for each key.  The file  *)
(* is mapped into memory: an operation is a sequence of stores, which      *)
(* reach the file one by one (log), and the process may end between two of *)
(* them.  The map is then loaded from the file as it is.  save_() counts   *)
(* the header of a new key in the size of its block before it has stored   *)
(* the header: what load() then makes of that place depends on what the    *)
(* block has had there before.  If that was the header of an erased key,   *)
(* it is taken for one; with other bytes there, nothing follows.           *)
(***************************************************************************)
EXTENDS Integers, Sequences, FiniteSets, SequencesExt

CONSTANTS
    NKeys,                      \* keys are numbers, in the order of the map
    LargeKeys,                  \* keys that are larger than a block
    Lengths,                    \* of the data that is written
    BlockSize,                  \* block_data_size(), for data or keys
    ALLOCATE_PORTION,
    MaxBlocks,                  \* bound of the file
    MaxCrashes                  \* bound of the processes that end within an operation

Keys == 1 .. NKeys
LENGTH == 0     \* the header block does not change: its place keeps the length of the file
ALLOCATOR == 1  \* holds the first free block
INDEX == 2      \* holds the first block of keys

VARIABLES
    file,                       \* [next, size, cells] of each block
    log,                        \* stores of the operation that have not been done
    map,                        \* what the process has in memory
    expected,                   \* what has been stored for each key
    doubt,                      \* keys of an operation that is not complete
    torn,                       \* the place whose header the last process has left half stored
    revived,                    \* such a file has been loaded
    crashes                     \* processes that have ended within an operation

storageVars == <<file, log, map, expected, doubt, torn, revived, crashes>>

Zero == <<"zero">>
Cells == 0 .. BlockSize - 1
KeySize(k) == IF k \in LargeKeys THEN BlockSize + 1 ELSE 1

\* The header of a key in its block: size, first block of the data, mark, key.
\* Fields that have not been stored yet are those of the header that was there
\* before, or anything: they are not known.
Header(key, first) == <<KeySize(key), first, "valid", key>>
HeaderAt(cell) == IF Len(cell) = 4 THEN cell ELSE <<0, 0, "unknown", 0>>

Data(k, length) == [i \in 1 .. length |-> <<k, i>>]
Absent == [is |-> "absent", data |-> <<>>]

\* A store, noted if it changes anything.
Put(st, b, field, value) ==
    IF st.file[b][field] = value THEN st
    ELSE [st EXCEPT !.file[b][field] = value, !.log = Append(@, <<b, field, value>>)]

RECURSIVE Follow(_, _, _)
Follow(f, b, fuel) == IF b = 0 \/ fuel = 0 THEN <<>> ELSE <<b>> \o Follow(f, f[b].next, fuel - 1)

\* The blocks from b on.
Chain(f, b) == Follow(f, b, MaxBlocks)

Sum(f, chain) == FoldLeft(LAMBDA n, b : n + f[b].size, 0, chain)

-----------------------------------------------------------------------------
(* DefaultBlockAllocator *)

\* The file grows: the loop gives the last new block a next one, too, and so
\* makes one more.
Grow(st) ==
    LET m == st.file[LENGTH].cells
        link(s, i) == Put(s, i, "next", i + 1)
        linked == FoldLeft(link, Put(st, LENGTH, "cells", m + ALLOCATE_PORTION),
                           [i \in 1 .. ALLOCATE_PORTION |-> m + i - 1])
    IN  [Put(linked, LENGTH, "cells", m + ALLOCATE_PORTION + 1) EXCEPT !.first_free_ = m]

Allocate(st) ==
    LET Take(s, b, rest) ==
            [Put(Put(s, b, "next", 0), ALLOCATOR, "cells", rest) EXCEPT !.first_free_ = rest, !.allocated = b]
        TakeFirst(s) == Take(s, s.first_free_, s.file[s.first_free_].next)
    IN  TakeFirst(IF st.first_free_ = 0 THEN Grow(st) ELSE st)

Deallocate(st, b) ==
    [Put(Put(st, b, "next", st.first_free_), ALLOCATOR, "cells", b) EXCEPT !.first_free_ = b]

-----------------------------------------------------------------------------
(* PlainWriter::write_i_() *)

\* What the chain has too much goes to the free blocks.
CutAfter(st, b) ==
    LET excess == Chain(st.file, st.file[b].next)
    IN  FoldLeft(Deallocate, Put(st, b, "next", 0), excess)

\* Data from block b on, in the blocks of the chain or new ones behind them.
RECURSIVE WriteFrom(_, _, _)
WriteFrom(st, b, data) ==
    LET n == IF Len(data) < BlockSize THEN Len(data) ELSE BlockSize
        cells == [c \in Cells |-> IF c < n THEN data[c + 1] ELSE st.file[b].cells[c]]
        Extend(more, rest) == WriteFrom(Put(more, b, "next", more.allocated), more.allocated, rest)
        Continue(here, rest) ==
            IF rest = <<>> THEN CutAfter(here, b)
            ELSE IF here.file[b].next # 0 THEN WriteFrom(here, here.file[b].next, rest)
            ELSE Extend(Allocate(here), rest)
    IN  Continue(Put(Put(st, b, "size", n), b, "cells", cells), SubSeq(data, n + 1, Len(data)))

\* PlainReader::read_i_()
ReadAll(f, b) ==
    FlattenSeq([i \in DOMAIN Chain(f, b) |->
                  LET block == f[Chain(f, b)[i]]
                  IN  [c \in 1 .. block.size |-> block.cells[c - 1]]])

-----------------------------------------------------------------------------
(* DefaultSyncIndexStrategy *)

\* save_() and the sync_() after it: the size of the block, then the header in
\* four stores.  A new block of keys goes in front of the others, also when the
\* key is too large for any.
Save(st, key, first_data_block) ==
    LET old == st.first_keys_
        used == st.file[old].size
        InFront(fresh) ==
            [Put(fresh, fresh.allocated, "next", old) EXCEPT !.first_keys_ = fresh.allocated]
        Entry(s, b, at) ==
            LET Field(t, i) ==
                    Put(t, b, "cells",
                        [t.file[b].cells EXCEPT
                           ![at] = [HeaderAt(@) EXCEPT ![i] = Header(key, first_data_block)[i]]])
            IN  FoldLeft(Field, Put(s, b, "size", at + KeySize(key)), <<1, 2, 3, 4>>)
        Sync(s, b, at) ==
            [(IF b # old THEN Put(s, INDEX, "cells", b) ELSE s) EXCEPT !.place = <<b, at>>]
        SaveIn(s, at) ==
            IF KeySize(key) > BlockSize THEN [s EXCEPT !.failed = TRUE]
            ELSE Sync(Entry(s, s.first_keys_, at), s.first_keys_, at)
    IN  IF BlockSize - used < KeySize(key) THEN SaveIn(InFront(Allocate(st)), 0) ELSE SaveIn(st, used)

\* erase() of the last key of a block frees its room, another key is marked.
\* The blocks of its data stay as they are.
EraseKey(st, key) ==
    LET b == st.container[key].block
        at == st.container[key].offset
        cells == st.file[b].cells
    IN  IF st.file[b].size = at + KeySize(key) THEN Put(st, b, "size", at)
        ELSE Put(st, b, "cells", [cells EXCEPT ![at][3] = "deleted"])

\* load() from a place on; a place without a whole header cannot be read.
RECURSIVE LoadFrom(_, _, _, _)
LoadFrom(f, b, at, container) ==
    LET cell == f[b].cells[at]
        key == cell[4]
        value == [first |-> cell[2], data_size |-> Sum(f, Chain(f, cell[2])), block |-> b, offset |-> at]
        more == IF cell[3] = "deleted" \/ key \in DOMAIN container THEN container
                ELSE [k \in DOMAIN container \cup {key} |-> IF k = key THEN value ELSE container[k]]
    IN  IF b = 0 THEN [ok |-> TRUE, container |-> container]
        ELSE IF at >= f[b].size THEN LoadFrom(f, f[b].next, 0, container)
        ELSE IF HeaderAt(cell)[4] = 0 THEN [ok |-> FALSE, container |-> container]
        ELSE LoadFrom(f, b, at + cell[1], more)

Loaded(f) == LoadFrom(f, f[INDEX].cells, 0, [k \in {} |-> 0])

-----------------------------------------------------------------------------
(* Map *)

\* What an operation starts from and works on.
Start == [file |-> file, log |-> <<>>, container |-> map.container, first_keys_ |-> map.first_keys_,
          first_free_ |-> map.first_free_, allocated |-> 0, place |-> <<>>, failed |-> FALSE]

Memory(container, first_keys_, first_free_) ==
    [open |-> TRUE, container |-> container, first_keys_ |-> first_keys_, first_free_ |-> first_free_]

Closed == [open |-> FALSE, container |-> [k \in {} |-> 0], first_keys_ |-> 0, first_free_ |-> 0]

\* The operation has come to st and leaves container in memory.
Done(st, container, changed, value) ==
    /\ log' = st.log
    /\ map' = Memory(container, st.first_keys_, st.first_free_)
    /\ expected' = [k \in Keys |-> IF k \in changed THEN value ELSE expected[k]]
    /\ doubt' = IF st.log = <<>> THEN {} ELSE changed
    /\ UNCHANGED <<file, torn, revived, crashes>>

\* Two free blocks, which is the most that an operation takes, or room to grow.
Room ==
    \/ Len(Chain(file, map.first_free_)) >= 2
    \/ file[LENGTH].cells + ALLOCATE_PORTION <= MaxBlocks

Ready == map.open /\ log = <<>> /\ Room

\* create_head_() and the first load() of an empty file.
StorageInit ==
    LET zero == [next |-> 0, size |-> 0, cells |-> [c \in Cells |-> Zero]]
        empty == [b \in 0 .. MaxBlocks |->
                    IF b <= INDEX THEN [next |-> 0, size |-> 1, cells |-> IF b = LENGTH THEN 3 ELSE 0] ELSE zero]
        st == Allocate([file |-> empty, log |-> <<>>, first_free_ |-> 0, allocated |-> 0])
    IN  /\ file = [st.file EXCEPT ![INDEX].cells = st.allocated]
        /\ log = <<>>
        /\ map = Memory([k \in {} |-> 0], st.allocated, st.first_free_)
        /\ expected = [k \in Keys |-> Absent]
        /\ doubt = {} /\ torn = <<>> /\ revived = FALSE /\ crashes = 0

\* The first block of the data is not taken from the free ones.
MutInsert(k) ==
    LET first == map.first_free_
        st == Save(Start, k, first)
        new == [first |-> first, data_size |-> 0, block |-> st.place[1], offset |-> st.place[2]]
    IN  /\ Ready /\ first # 0 /\ k \notin DOMAIN map.container
        /\ Done(st, [i \in DOMAIN map.container \cup {k} |-> IF i = k THEN new ELSE map.container[i]],
                {k}, [is |-> "new", data |-> <<>>])

Insert(k) ==
    LET With(new) == [i \in DOMAIN map.container \cup {k} |-> IF i = k THEN new ELSE map.container[i]]
        Saved(st, first) ==
            IF st.failed THEN Done(st, map.container, {}, Absent)
            ELSE Done(st, With([first |-> first, data_size |-> 0,
                                block |-> st.place[1], offset |-> st.place[2]]),
                      {k}, [is |-> "new", data |-> <<>>])
        Key(value) == Saved(Save(value, k, value.allocated), value.allocated)
    IN  /\ Ready /\ k \notin DOMAIN map.container
        /\ Key(Allocate(Start))

\* The size that the map keeps is not brought up to date.
MutWrite(k, data) ==
    /\ Ready /\ k \in DOMAIN map.container
    /\ Done(WriteFrom(Start, map.container[k].first, data), map.container, {k}, [is |-> "data", data |-> data])

Write(k, data) ==
    LET st == WriteFrom(Start, map.container[k].first, data)
    IN  /\ Ready /\ k \in DOMAIN map.container
        /\ Done(st, [map.container EXCEPT ![k].data_size = Len(data)], {k}, [is |-> "data", data |-> data])

Erase(k) ==
    /\ Ready /\ k \in DOMAIN map.container
    /\ Done(EraseKey(Start, k), [i \in DOMAIN map.container \ {k} |-> map.container[i]], {k}, Absent)

Clear ==
    LET keys == DOMAIN map.container
    IN  /\ Ready /\ keys # {}
        /\ Done(FoldLeft(EraseKey, Start, SetToSortSeq(keys, <)), [k \in {} |-> 0], keys, Absent)

\* The next store is done.
Store ==
    /\ log # <<>>
    /\ file' = [file EXCEPT ![log[1][1]][log[1][2]] = log[1][3]]
    /\ log' = Tail(log)
    /\ doubt' = IF Len(log) = 1 THEN {} ELSE doubt
    /\ UNCHANGED <<map, expected, torn, revived, crashes>>

\* The place that the index counts and whose header save_() has not completed.
HalfSaved ==
    LET Place(k) == <<map.container[k].block, map.container[k].offset>>
        Half(b, at, header) ==
            /\ b \in Range(Chain(file, file[INDEX].cells)) /\ file[b].size > at
            /\ file[b].cells[at] # header
        half == {k \in doubt \cap DOMAIN map.container :
                   Half(Place(k)[1], Place(k)[2], Header(k, map.container[k].first))}
    IN  IF half = {} THEN <<>> ELSE Place(CHOOSE k \in half : TRUE)

\* close(), or the end of the process at any time.
Close ==
    /\ map.open
    /\ crashes' = IF log = <<>> THEN crashes ELSE crashes + 1
    /\ crashes' <= MaxCrashes
    /\ map' = Closed
    /\ log' = <<>>
    /\ torn' = HalfSaved
    /\ UNCHANGED <<file, expected, doubt, revived>>

\* What an operation that was cut off has left of its keys is not known.
Load ==
    /\ ~map.open /\ Loaded(file).ok
    /\ map' = Memory(Loaded(file).container, file[INDEX].cells, file[ALLOCATOR].cells)
    /\ expected' = [k \in Keys |->
                      IF k \notin doubt THEN expected[k]
                      ELSE IF k \in DOMAIN Loaded(file).container THEN [is |-> "unknown", data |-> <<>>]
                      ELSE Absent]
    /\ doubt' = {} /\ torn' = <<>> /\ revived' = (revived \/ torn # <<>>)
    /\ UNCHANGED <<file, log, crashes>>

StorageNext ==
    \/ \E k \in Keys : Insert(k) \/ Erase(k) \/ (\E length \in Lengths : Write(k, Data(k, length)))
    \/ Clear \/ Store \/ Close \/ Load

StorageSpec == StorageInit /\ [][StorageNext]_storageVars

-----------------------------------------------------------------------------
\* Wherever a process ends, no more is damaged than the header of the key
\* that save_() is about to store: the file without that place, or all of it
\* at any other time, can be loaded and its blocks are in order, that is the
\* chains of the free blocks, of the keys and of the data of every key end
\* within the file, and no two of them share a block.
BlocksInOrder ==
    LET place == IF map.open THEN HalfSaved ELSE torn
        whole == IF place = <<>> THEN file ELSE [file EXCEPT ![place[1]].size = place[2]]
        keys == Loaded(whole).container
        heads == {file[ALLOCATOR].cells, file[INDEX].cells} \cup {keys[k].first : k \in DOMAIN keys}
        chain(b) == Chain(file, b)
    IN  /\ Loaded(whole).ok
        /\ Cardinality(heads) = 2 + Cardinality(DOMAIN keys)
        /\ \A b \in heads \ {0} :
             /\ IsInjective(chain(b)) /\ file[Last(chain(b))].next = 0
             /\ Range(chain(b)) \subseteq INDEX + 1 .. file[LENGTH].cells - 1
        /\ \A b, c \in heads : b # c => Range(chain(b)) \cap Range(chain(c)) = {}

\* Between two operations the map has the keys that were put into it and not
\* erased, and the data of each is what was written last, in memory and in the
\* file, through erasing of others, growth, loading and ends of the process;
\* but no more after a file has been loaded whose last header was half stored,
\* since load() may take up an erased key from it.
DataKept ==
    map.open /\ log = <<>> /\ ~revived =>
      \A k \in Keys :
        /\ k \in DOMAIN map.container <=> expected[k].is # "absent"
        /\ expected[k].is = "data" =>
             /\ ReadAll(file, map.container[k].first) = expected[k].data
             /\ map.container[k].data_size = Len(expected[k].data)

\* A key that was inserted and not written has no data: "Allocate Data block
\* and create PlainWriter with it, size of data is zero" (Map.hpp:1178).
NewValueEmpty ==
    map.open /\ log = <<>> =>
      \A k \in DOMAIN map.container : expected[k].is = "new" => map.container[k].data_size = 0
=============================================================================
