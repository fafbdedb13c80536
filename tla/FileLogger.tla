----------------------------- MODULE FileLogger -----------------------------
(***************************************************************************)
(* Logging::File::Handler (src/Logger/FileLogger.cpp), whose publish() is  *)
(* called under the lock_ of Simple::Logger: a record is appended to the   *)
(* current file, which is renamed before when a policy wants a new one.    *)
(* Another process may remove (or move away) the current file between any  *)
(* two system calls, and a system call may fail.  Records are numbered in  *)
(* the order of their calls; their times need not grow.  A file is the     *)
(* sequence of its records, each of size 1; an archive is named by a time. *)
(***************************************************************************)
EXTENDS Integers, Sequences, SequencesExt

CONSTANTS
    NRecords, Times,
    SameTimes,                  \* records may have the same time
    RotationSize, RotationTime, Day, StartTime,
    MaxFailures, MaxRemovals    \* bounds of what goes wrong

ZERO == 0

Records == 1 .. NRecords

VARIABLES
    log_policy, time,
    files,                      \* the files ever created
    current, archives,          \* what the names stand for, 0 for nothing
    outfile_, log_time_, log_create_time_,
    border_time_, last_create_time_,    \* of AlignedTimeSpanPolicy
    call, record,               \* what publish() does and with which record
    returned, discarded,        \* records published; records others have removed
    failures, removals, unrenamed

logVars == <<log_policy, time, files, current, archives, outfile_, log_time_, log_create_time_,
             border_time_, last_create_time_, call, record, returned, discarded, failures, removals,
             unrenamed>>

\* Record 0 is what an earlier process has left in the file, if anything.
LogInit ==
    /\ log_policy \in {"size", "time", "aligned"}
    /\ time \in [0 .. NRecords -> Times]
    /\ ~SameTimes => \A r, q \in Records : r # q => time[r] # time[q]
    /\ \E left \in BOOLEAN :
         /\ files = <<IF left THEN <<0>> ELSE <<>>>>
         /\ log_create_time_ = IF left THEN ZERO ELSE time[0]
    /\ current = 1 /\ outfile_ = 1
    /\ archives = [t \in Times |-> 0]
    /\ log_time_ = ZERO
    /\ border_time_ = ZERO /\ last_create_time_ = ZERO
    /\ call = "none" /\ record = 0
    /\ returned = {} /\ discarded = {}
    /\ failures = 0 /\ removals = 0 /\ unrenamed = FALSE

-----------------------------------------------------------------------------
(* The policies. *)

\* The first border not before the time the file was made.
Border(created) ==
    LET today == created - (created % Day) + StartTime
        anchor == IF today > created THEN today - Day ELSE today
    IN  anchor + RotationTime * ((created - anchor + RotationTime - 1) \div RotationTime)

\* AlignedTimeSpanPolicy keeps the border of a file; one found by the
\* constructor was made at the time of its last record.
BorderTime(f) ==
    IF border_time_ = ZERO \/ log_create_time_ # last_create_time_
    THEN Border(IF log_create_time_ = ZERO THEN time[Last(files[f])] ELSE log_create_time_)
    ELSE border_time_

MutNeedRotation(f) ==
    CASE log_policy = "size" -> Len(files[f]) > RotationSize
      [] log_policy = "time" -> files[f] # <<>> /\ log_time_ >= log_create_time_ + RotationTime
      [] log_policy = "aligned" -> files[f] # <<>> /\ log_time_ > BorderTime(f)

NeedRotation(f) ==
    CASE log_policy = "size" -> Len(files[f]) >= RotationSize
      [] log_policy = "time" -> files[f] # <<>> /\ log_time_ >= log_create_time_ + RotationTime
      [] log_policy = "aligned" -> files[f] # <<>> /\ log_time_ > BorderTime(f)

-----------------------------------------------------------------------------
(* publish() *)

\* fopen(cur_file_name_, "a")
Open(next) ==
    \/ /\ current # 0
       /\ outfile_' = current
       /\ call' = next
       /\ UNCHANGED <<files, current, failures>>
    \/ /\ current = 0
       /\ files' = Append(files, <<>>)
       /\ current' = Len(files) + 1
       /\ outfile_' = Len(files) + 1
       /\ call' = next
       /\ UNCHANGED failures
    \/ /\ failures < MaxFailures
       /\ failures' = failures + 1
       /\ outfile_' = 0
       /\ call' = "none"
       /\ UNCHANGED <<files, current>>

Publish ==
    /\ call = "none" /\ record < NRecords
    /\ record' = record + 1
    /\ log_time_' = IF log_time_ < time[record + 1] THEN time[record + 1] ELSE log_time_
    /\ call' = "check"
    /\ UNCHANGED <<log_policy, time, files, current, archives, outfile_, log_create_time_,
                   border_time_, last_create_time_, returned, discarded, failures, removals,
                   unrenamed>>

\* rotate_if_required() opens the file again if it is closed or has gone.
Reopen ==
    /\ \/ call = "check" /\ (outfile_ = 0 \/ current = 0) /\ Open("reopened")
       \/ call = "renamed" /\ Open("write")
       \/ call = "again" /\ Open("rewrite")
    /\ UNCHANGED <<log_policy, time, archives, log_time_, log_create_time_, border_time_,
                   last_create_time_, record, returned, discarded, removals, unrenamed>>

\* stat() succeeds: the policies are asked and rotate() begins.
Stat ==
    /\ call = "reopened" \/ (call = "check" /\ outfile_ # 0)
    /\ current # 0
    /\ call' = IF NeedRotation(current) THEN "rotate" ELSE "write"
    /\ log_create_time_' = IF NeedRotation(current) THEN log_time_ ELSE log_create_time_
    /\ outfile_' = IF NeedRotation(current) THEN 0 ELSE outfile_
    /\ IF log_policy = "aligned" /\ files[current] # <<>>
       THEN border_time_' = BorderTime(current) /\ last_create_time_' = log_create_time_
       ELSE UNCHANGED <<border_time_, last_create_time_>>
    /\ UNCHANGED <<log_policy, time, files, current, archives, log_time_, record, returned,
                   discarded, failures, removals, unrenamed>>

\* The file has gone again.
StatFails ==
    /\ call = "reopened" /\ current = 0
    /\ call' = "none"
    /\ UNCHANGED <<log_policy, time, files, current, archives, outfile_, log_time_,
                   log_create_time_, border_time_, last_create_time_, record, returned, discarded,
                   failures, removals, unrenamed>>

\* rename() in rotate(): the archive has the record's time in its name, and
\* replaces one of that name.
Rename ==
    /\ call = "rotate"
    /\ \/ /\ current # 0
          /\ archives' = [archives EXCEPT ![time[record]] = current]
          /\ current' = 0
          /\ call' = "renamed"
          /\ UNCHANGED <<failures, unrenamed>>
       \/ /\ current = 0 \/ failures < MaxFailures
          /\ failures' = IF current = 0 THEN failures ELSE failures + 1
          /\ unrenamed' = TRUE
          /\ call' = "none"
          /\ UNCHANGED <<archives, current>>
    /\ UNCHANGED <<log_policy, time, files, outfile_, log_time_, log_create_time_, border_time_,
                   last_create_time_, record, returned, discarded, removals>>

\* fputs() and fflush(), the second time without another try.
Write ==
    /\ call \in {"write", "rewrite"}
    /\ \/ /\ files' = [files EXCEPT ![outfile_] = Append(@, record)]
          /\ call' = IF call = "write" THEN "written" ELSE "rewritten"
          /\ UNCHANGED failures
       \/ /\ failures < MaxFailures /\ failures' = failures + 1
          /\ call' = IF call = "write" THEN "again" ELSE "none"
          /\ UNCHANGED files
    /\ UNCHANGED <<log_policy, time, current, archives, outfile_, log_time_, log_create_time_,
                   border_time_, last_create_time_, record, returned, discarded, removals, unrenamed>>

MutWritten ==
    /\ call \in {"written", "rewritten"}
    /\ call' = "none"
    /\ returned' = returned \cup {record}
    /\ UNCHANGED <<log_policy, time, files, current, archives, outfile_, log_time_, log_create_time_,
                   border_time_, last_create_time_, record, discarded, failures, removals, unrenamed>>

\* The stat() after it finds out whether the file is still there.
Written ==
    /\ call \in {"written", "rewritten"}
    /\ \/ /\ current # 0
          /\ call' = "none"
          /\ returned' = returned \cup {record}
       \/ /\ current = 0
          /\ call' = IF call = "written" THEN "again" ELSE "none"
          /\ UNCHANGED returned
    /\ UNCHANGED <<log_policy, time, files, current, archives, outfile_, log_time_, log_create_time_,
                   border_time_, last_create_time_, record, discarded, failures, removals, unrenamed>>

\* Another process removes the file, with the records published so far.
Removed ==
    /\ current # 0 /\ removals < MaxRemovals
    /\ removals' = removals + 1
    /\ current' = 0
    /\ discarded' = discarded \cup (Range(files[current]) \cap returned)
    /\ UNCHANGED <<log_policy, time, files, archives, outfile_, log_time_, log_create_time_,
                   border_time_, last_create_time_, call, record, returned, failures, unrenamed>>

LogNext ==
    \/ Publish \/ Reopen \/ Stat \/ StatFails \/ Rename \/ Write \/ Written
    \/ Removed

-----------------------------------------------------------------------------
\* A record whose publish() has returned is in a file that has a name, unless
\* another process has removed it since: neither a rotation nor the removal of
\* the file while publish() writes to it loses the record.
RecordKept ==
    \A r \in returned \ discarded :
      \E f \in {current} \cup Range(archives) : f # 0 /\ r \in Range(files[f])

\* A file does not outgrow what its policy allows: rotation_size records, a
\* time of rotation_time, or the time between two borders.  For the times this
\* needs records in order and renames that succeed (a failed one starts a new
\* period with the old file).
FileBounded ==
    \A f \in DOMAIN files :
      /\ log_policy = "size" => Len(files[f]) <= RotationSize
      /\ ~unrenamed /\ (\A r \in Records : time[r - 1] <= time[r]) =>
           \A i \in DOMAIN files[f], j \in DOMAIN files[f] :
             LET from == time[files[f][i]]
                 to == time[files[f][j]]
             IN  /\ log_policy = "time" => to < from + RotationTime
                 /\ log_policy = "aligned" /\ from <= to =>
                      (from - StartTime - 1) \div RotationTime = (to - StartTime - 1) \div RotationTime
=============================================================================
