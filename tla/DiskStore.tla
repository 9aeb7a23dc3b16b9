----------------------------- MODULE DiskStore -----------------------------
(***************************************************************************)
(* internal/storage/disk.go: the key-value store kept as an append-only    *)
(* file of JSON lines, under failing writes, failing syncs, power losses   *)
(* and restarts.                                                           *)
(*                                                                         *)
(* The file is a sequence of pieces: Whole, the complete JSON text of the  *)
(* n-th record; Half, a proper prefix of it; NewLine.  The n-th Put writes *)
(* value n, so that a greater value is a later one.                        *)
(*                                                                         *)
(* Put holds s.mu from its write to its last assignment, and Get waits for *)
(* it: what a Get sees is `data' while no Put is under way.                *)
(***************************************************************************)
EXTENDS Integers, Sequences

CONSTANTS Key,
          Faults,      \* which of WriteError, SyncError, PowerLoss can happen
          MaxPuts,     \* bound: number of Puts
          MaxRestarts  \* bound: number of restarts

ASSUME StoreAssumption ==
    /\ Faults \subseteq {"WriteError", "SyncError", "PowerLoss"}
    /\ {MaxPuts, MaxRestarts} \subseteq Nat

VARIABLES
    file,      \* what the file reads as
    durable,   \* how much of it a power loss cannot take away
    data,      \* s.data: per key the value, 0 if there is none
    step,      \* where Put is: Idle, Written, Synced
    putting,   \* the key of the Put under way, or of the last one
    process,   \* Up, Down, or Refused: NewDiskStore returned an error
    closed,    \* s.file = nil
    puts,      \* number of Puts so far
    restarts,
    acked      \* history: per key the last value whose Put returned nil

vars == <<file, durable, data, step, putting, process, closed, puts, restarts, acked>>

Whole(key, n) == <<"Whole", key, n>>
Half          == <<"Half">>
NewLine       == <<"NewLine">>

Init ==
    /\ file = <<>> /\ durable = 0
    /\ data = [k \in Key |-> 0]
    /\ step = "Idle" /\ putting \in Key
    /\ process = "Up" /\ closed = FALSE
    /\ puts = 0 /\ restarts = 0
    /\ acked = [k \in Key |-> 0]

-----------------------------------------------------------------------------
(* Put.                                                                     *)

\* The write comes through, with its newline.
WriteRecord(key) ==
    /\ process = "Up" /\ step = "Idle" /\ ~closed /\ puts < MaxPuts
    /\ puts' = puts + 1
    /\ putting' = key
    /\ file' = file \o <<Whole(key, puts + 1), NewLine>>
    /\ step' = "Written"
    /\ UNCHANGED <<durable, data, process, closed, restarts, acked>>

\* The write fails (no space): some prefix of the line may be in the file.
\* Put returns the error.
WriteFails(key) ==
    /\ "WriteError" \in Faults
    /\ process = "Up" /\ step = "Idle" /\ ~closed /\ puts < MaxPuts
    /\ puts' = puts + 1
    /\ putting' = key
    /\ \E part \in {<<>>, <<Half>>, <<Whole(key, puts + 1)>>} : file' = file \o part
    /\ UNCHANGED <<durable, data, step, process, closed, restarts, acked>>

\* A bug: the file is not synced.
SyncNothing == UNCHANGED durable

\* What Sync makes durable.
SyncFile == durable' = Len(file)

Sync ==
    /\ process = "Up" /\ step = "Written"
    /\ SyncFile
    /\ step' = "Synced"
    /\ UNCHANGED <<file, data, putting, process, closed, puts, restarts, acked>>

\* Sync fails: Put returns the error, the record stays in the file.
SyncFails ==
    /\ "SyncError" \in Faults
    /\ process = "Up" /\ step = "Written"
    /\ step' = "Idle"
    /\ UNCHANGED <<file, durable, data, putting, process, closed, puts, restarts, acked>>

\* The map is set, and Put returns nil.
Assign ==
    /\ process = "Up" /\ step = "Synced"
    /\ data'  = [data EXCEPT ![putting] = puts]
    /\ acked' = [acked EXCEPT ![putting] = puts]
    /\ step'  = "Idle"
    /\ UNCHANGED <<file, durable, putting, process, closed, puts, restarts>>

\* A bug: Close does not take s.mu.
CloseUnlocked ==
    /\ process = "Up" /\ ~closed
    /\ closed' = TRUE
    /\ UNCHANGED <<file, durable, data, step, putting, process, puts, restarts, acked>>

\* Close, once no Put holds s.mu; a later Put fails on the nil file.
Close ==
    /\ process = "Up" /\ step = "Idle" /\ ~closed
    /\ closed' = TRUE
    /\ UNCHANGED <<file, durable, data, step, putting, process, puts, restarts, acked>>

-----------------------------------------------------------------------------
(* Stops and restarts.                                                      *)

Ends ==
    /\ process' = "Down" /\ step' = "Idle" /\ closed' = FALSE
    /\ UNCHANGED <<data, putting, puts, restarts, acked>>

\* The process ends, killed or not: the system still has what was written.
ProcessEnds == process = "Up" /\ Ends /\ UNCHANGED <<file, durable>>

\* The machine loses power: of what was not synced some prefix is left, the
\* last record of it perhaps torn.
PowerLoss ==
    /\ "PowerLoss" \in Faults
    /\ process = "Up" /\ Ends
    /\ \E n \in durable..Len(file) :
          \/ file' = SubSeq(file, 1, n) /\ durable' = n
          \/ /\ n < Len(file) /\ file[n + 1][1] = "Whole"
             /\ file' = Append(SubSeq(file, 1, n), Half) /\ durable' = n + 1

\* The piece at n stands alone on its line.
OwnLine(n) ==
    /\ n = 1 \/ file[n - 1] = NewLine
    /\ n = Len(file) \/ file[n + 1] = NewLine

\* restore gets to the end: every line is one JSON value.  (It also has to fit
\* bufio.Scanner, whose limit is 64 KiB: lines are taken as short.)
Readable ==
    \A n \in DOMAIN file : file[n] # NewLine =>
        file[n][1] = "Whole" /\ OwnLine(n)

\* The values of key in the file, of which restore leaves the last in data.
ValuesOf(key) == {n \in 1..puts : \E p \in DOMAIN file : file[p] = Whole(key, n)}

\* A bug: the first record of a key is kept.
RestoredFirst(key) ==
    IF ValuesOf(key) = {} THEN 0
    ELSE CHOOSE n \in ValuesOf(key) : \A k \in ValuesOf(key) : n <= k

Restored(key) ==
    IF ValuesOf(key) = {} THEN 0
    ELSE CHOOSE n \in ValuesOf(key) : \A k \in ValuesOf(key) : n >= k

\* NewDiskStore of a new process: restore.
Restart ==
    /\ process = "Down" /\ restarts < MaxRestarts
    /\ restarts' = restarts + 1
    /\ IF Readable
       THEN process' = "Up" /\ data' = [k \in Key |-> Restored(k)]
       ELSE process' = "Refused" /\ data' = [k \in Key |-> 0]
    /\ UNCHANGED <<file, durable, step, putting, closed, puts, acked>>

Next ==
    \/ \E k \in Key : WriteRecord(k)
    \/ \E k \in Key : WriteFails(k)
    \/ Sync
    \/ SyncFails
    \/ Assign
    \/ Close
    \/ ProcessEnds
    \/ PowerLoss
    \/ Restart

Spec == Init /\ [][Next]_vars

-----------------------------------------------------------------------------
(* Properties.                                                              *)

Piece == {Half, NewLine} \cup {Whole(k, n) : k \in Key, n \in 1..MaxPuts}

\* A Put is under way on an open file only: Close waits for it.
StoreTypeOK ==
    /\ file \in Seq(Piece) /\ durable \in 0..Len(file)
    /\ data \in [Key -> 0..MaxPuts] /\ acked \in [Key -> 0..MaxPuts]
    /\ step \in {"Idle", "Written", "Synced"} /\ putting \in Key
    /\ process \in {"Up", "Down", "Refused"} /\ closed \in BOOLEAN
    /\ puts \in 0..MaxPuts /\ restarts \in 0..MaxRestarts
    /\ step # "Idle" => process = "Up" /\ ~closed

\* What Put has acknowledged is in the part of the file that survives a power
\* loss, whatever failed before and after it.
AckedDurable ==
    \A k \in Key : acked[k] # 0 =>
        \E p \in 1..durable : file[p] = Whole(k, acked[k])

\* A running store never answers with something older than it acknowledged,
\* before or after a restart.
NeverOlder == process = "Up" => \A k \in Key : data[k] >= acked[k]
=============================================================================
