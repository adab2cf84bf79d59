----------------------------- MODULE RollingLog -----------------------------
(***************************************************************************)
(* The log file of the managed process and its numbered backups            *)
(* (internal/guicore/filelog.go).  The log's mutex makes each call one     *)
(* after the other, but a rotation is a chain of renames on the disk: any  *)
(* of them may fail, and the GUI may die between two of them.              *)
(*                                                                         *)
(* File 0 is the log, file k its backup ".k".  A file is the sequence of   *)
(* its bytes, a byte the number of its turn in the output; an absent file  *)
(* is an empty one.  Closing a file is taken to succeed.                   *)
(***************************************************************************)
EXTENDS Integers, Sequences, FiniteSets

CONSTANTS
    MaxSize,   \* maxSize (5 MiB in the code)
    Backups,   \* backups (3 in the code)
    MaxBytes   \* bound of the model: bytes of output

ASSUME RollingLogAssumption ==
    /\ MaxSize \in Nat \ {0}
    /\ Backups \in Nat \ {0}
    /\ MaxBytes \in Nat

\* The rotation also moves ".3" to ".4".
Names == 0..(Backups + 1)

VARIABLES
    files,    \* the bytes of each file
    isOpen,   \* rollingLog.file is not nil
    size,     \* rollingLog.size
    pc,       \* "idle", or the step of the call at work
    index,    \* the loop of rotateLocked
    queued,   \* the bytes of the Write that waits for the rotation
    out,      \* bytes of output so far
    written   \* history: the bytes that reached the disk

logVars == <<files, isOpen, size, pc, index, queued, out, written>>

-----------------------------------------------------------------------------
(* rotateLocked, called by Open with nothing queued and by Write.          *)

Rotate ==
    /\ isOpen' = FALSE
    /\ pc' = "shift"
    /\ index' = Backups

LastRound == index = 1

\* os.Remove and os.Rename: the next older file is replaced.
Shift ==
    /\ pc = "shift"
    /\ files' = [files EXCEPT ![index + 1] = files[index], ![index] = <<>>]
    /\ index' = IF LastRound THEN Backups ELSE index - 1
    /\ pc' = IF LastRound THEN "last" ELSE "shift"
    /\ UNCHANGED <<isOpen, size, queued, out, written>>

\* The log becomes ".1".
ShiftLog ==
    /\ pc = "last"
    /\ files' = [files EXCEPT ![1] = files[0], ![0] = <<>>]
    /\ pc' = "create"
    /\ UNCHANGED <<isOpen, size, index, queued, out, written>>

\* A slip: an error of the last rename is ignored, as those of removals are.
AfterShiftErrIgnored == IF pc = "last" THEN "create" ELSE "idle"

AfterShiftErr == "idle"

\* A rename fails, after the older file was removed or could not be removed.
ShiftErr ==
    /\ pc \in {"shift", "last"}
    /\ \/ files' = [files EXCEPT ![IF pc = "last" THEN 1 ELSE index + 1] = <<>>]
       \/ files' = files
    /\ pc' = AfterShiftErr
    /\ index' = Backups
    /\ queued' = <<>>
    /\ UNCHANGED <<isOpen, size, out, written>>

\* The new log is created or truncated, and the call that rotated goes on.  An
\* Open opens the file once more and takes its size.
Create ==
    /\ pc = "create"
    /\ files' = [files EXCEPT ![0] = <<>>]
    /\ isOpen' = TRUE
    /\ size' = 0
    /\ pc' = IF queued = <<>> THEN "idle" ELSE "append"
    /\ UNCHANGED <<index, queued, out, written>>

CreateErr ==
    /\ pc = "create"
    /\ pc' = "idle"
    /\ queued' = <<>>
    /\ UNCHANGED <<files, isOpen, size, index, out, written>>

-----------------------------------------------------------------------------
(* Calls.                                                                  *)

\* Open of a file that is full rotates first.
OpenRotates ==
    /\ pc = "idle"
    /\ ~isOpen
    /\ Len(files[0]) >= MaxSize
    /\ Rotate
    /\ UNCHANGED <<files, size, queued, out, written>>

\* A slip: a file that exists is taken to be empty.
SizeAtOpenZero == 0

SizeAtOpen == Len(files[0])

Open ==
    /\ pc = "idle"
    /\ ~isOpen
    /\ Len(files[0]) < MaxSize
    /\ isOpen' = TRUE
    /\ size' = SizeAtOpen
    /\ UNCHANGED <<files, pc, index, queued, out, written>>

\* Of an oversized write the newest bytes are kept.
Trimmed(p) == IF Len(p) > MaxSize THEN SubSeq(p, Len(p) - MaxSize + 1, Len(p)) ELSE p

\* Write of the next n bytes of output, up to the test for room.  On a closed
\* log it fails, and the bytes are lost.
Write(n) ==
    /\ pc = "idle"
    /\ out + n <= MaxBytes
    /\ out' = out + n
    /\ LET p == Trimmed([k \in 1..n |-> out + k])
       IN  IF ~isOpen
           THEN UNCHANGED <<isOpen, pc, index, queued>>
           ELSE /\ queued' = p
                /\ IF size > 0 /\ size + Len(p) > MaxSize
                   THEN Rotate
                   ELSE pc' = "append" /\ UNCHANGED <<isOpen, index>>
    /\ UNCHANGED <<files, size, written>>

\* A slip: the file is not opened for appending.
AppendedAtStart(p) == p \o SubSeq(files[0], Len(p) + 1, Len(files[0]))

Appended(p) == files[0] \o p

\* file.Write writes k bytes: all, or fewer with an error.
FileWrite(k) ==
    /\ pc = "append"
    /\ k \in 0..Len(queued)
    /\ LET p == SubSeq(queued, 1, k)
       IN  /\ files' = [files EXCEPT ![0] = Appended(p)]
           /\ written' = written \cup {p[j] : j \in 1..k}
    /\ size' = size + k
    /\ queued' = <<>>
    /\ pc' = "idle"
    /\ UNCHANGED <<isOpen, index, out>>

Close ==
    /\ pc = "idle"
    /\ isOpen
    /\ isOpen' = FALSE
    /\ size' = 0
    /\ UNCHANGED <<files, pc, index, queued, out, written>>

\* The GUI dies, at any point of a rotation, and is started again.
LogDies ==
    /\ isOpen' = FALSE
    /\ size' = 0
    /\ pc' = "idle"
    /\ index' = Backups
    /\ queued' = <<>>
    /\ UNCHANGED <<files, out, written>>

-----------------------------------------------------------------------------

LogInit ==
    /\ files = [k \in Names |-> <<>>]
    /\ isOpen = FALSE
    /\ size = 0
    /\ pc = "idle"
    /\ index = Backups
    /\ queued = <<>>
    /\ out = 0
    /\ written = {}

LogNext ==
    \/ Shift \/ ShiftLog \/ ShiftErr \/ Create \/ CreateErr
    \/ OpenRotates \/ Open \/ Close
    \/ \E n \in 1..MaxBytes : Write(n)
    \/ \E k \in 0..MaxBytes : FileWrite(k)
    \/ LogDies

LogSpec == LogInit /\ [][LogNext]_logVars

-----------------------------------------------------------------------------
(* Properties.                                                             *)

Bytes(k) == {files[k][j] : j \in DOMAIN files[k]}

\* No file outgrows the limit, whatever failed or died before: the counted
\* size and the file's own never part while the log is open.
WithinLimit ==
    /\ \A k \in Names : Len(files[k]) <= MaxSize
    /\ isOpen => size = Len(files[0])

\* Read from the oldest backup to the log, the output is in the order it was
\* written, also after a rotation that stopped half way.
InOrder ==
    /\ \A k \in Names : \A i, j \in DOMAIN files[k] : i < j => files[k][i] < files[k][j]
    /\ \A k, l \in Names : k < l => \A b \in Bytes(k), c \in Bytes(l) : c < b

\* A byte that is gone from the disk went with all bytes older than it: a
\* rotation that fails or is cut short loses the oldest output only.
LosesOldestOnly ==
    LET kept == UNION {Bytes(k) : k \in Names}
    IN  \A b \in written \ kept : \A c \in kept : b < c
=============================================================================
