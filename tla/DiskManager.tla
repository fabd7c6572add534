---------------------------- MODULE DiskManager ----------------------------
(***************************************************************************)
(* The disk actor (managers/disk_manager.rs): the torrent is one stream of *)
(* bytes that lies in consecutive files, pieces are ranges of the stream,  *)
(* and a flush or a read of a range goes through the files one by one.     *)
(* A byte is represented by its position in the stream.                    *)
(*                                                                         *)
(* The file handles are tokio Files (external): a write returns when the   *)
(* data is buffered, the next seek on the handle waits for it to reach the *)
(* file, and an error on the way is returned by the next write.            *)
(***************************************************************************)
EXTENDS Integers, Sequences

CONSTANTS
  Layouts,    \* sequences of file sizes to choose from
  PieceLens,  \* piece lengths to choose from
  DiskFaults  \* a seek, a read or a buffered write may fail

ASSUME DiskManagerAssumptions ==
  /\ Layouts \subseteq Seq(Nat)
  /\ PieceLens \subseteq Nat \ {0}
  /\ DiskFaults \in BOOLEAN

VARIABLES
  files,         \* sizes of the files, in order
  std_piece_len,
  job,           \* the message being handled
  disk,          \* per file, the bytes at the positions written so far
  buffered,      \* per file, the bytes of a write that has not reached it
  write_err,     \* files whose last write failed, with the error unreported
  stored,        \* pieces whose flush was answered with true
  answer,        \* the answer to the last read
  alive          \* the actor runs

vars == <<files, std_piece_len, job, disk, buffered, write_err, stored, answer, alive>>

Files == DOMAIN files

\* The bytes of the stream that lie in the first n files.
ByteOffset(sizes) ==
  LET byte_offset[n \in 0 .. Len(sizes)] ==
        IF n = 0 THEN 0 ELSE byte_offset[n - 1] + sizes[n]
  IN  byte_offset

DownloadSize == ByteOffset(files)[Len(files)]
FileStart(f) == ByteOffset(files)[f - 1]
FileEnd(f) == FileStart(f) + files[f]

\* ceil(download size / piece length)
NumberOfPieces == (DownloadSize + std_piece_len - 1) \div std_piece_len
Pieces == 0 .. NumberOfPieces - 1

\* Variant: the last piece is never shorter.
FullLength(i) == std_piece_len

PieceLength(i) ==
  IF i = NumberOfPieces - 1 /\ DownloadSize % std_piece_len # 0
    THEN DownloadSize % std_piece_len
    ELSE std_piece_len

NoJob == [kind |-> "none"]

Init ==
  /\ files \in Layouts
  /\ std_piece_len \in PieceLens
  /\ job = NoJob
  /\ disk = [f \in Files |-> << >>]
  /\ buffered = [f \in Files |-> << >>]
  /\ write_err = {}
  /\ stored = {}
  /\ answer = [of |-> << >>, data |-> << >>]
  /\ alive = TRUE

----------------------------------------------------------------------------
(* The messages                                                            *)

Start(kind, piece, from, length) ==
  /\ alive /\ job = NoJob
  /\ job' = [kind |-> kind, piece |-> piece, from |-> from, to |-> from + length,
             pending |-> length, file |-> 1, data |-> << >>]
  /\ UNCHANGED <<files, std_piece_len, disk, buffered, write_err, stored, answer, alive>>

\* The manager flushes every piece once.
FlushPieceToDisk(i) ==
  i \notin stored /\ Start("flush", i, i * std_piece_len, PieceLength(i))

\* A range of a piece that the manager holds complete.
GetDataWithLength(i, offset, length) ==
  /\ i \in stored
  /\ offset + length <= PieceLength(i)
  /\ Start("read", i, i * std_piece_len + offset, length)

----------------------------------------------------------------------------
(* One file of the loop over the handles                                   *)

\* The loop is over: nothing is pending, no file is left, or the range ends
\* before this file.
AtEnd ==
  job.pending > 0 /\ job.file \in Files =>
    job.from < FileEnd(job.file) /\ job.to <= FileStart(job.file)

SkipsFile == ~AtEnd /\ job.from >= FileEnd(job.file)

\* Variant: a piece that goes on in a file keeps the offset of its start.
OffsetOfFirstFile == job.from - FileStart(1)

OffsetInFile ==
  IF job.from < FileStart(job.file) THEN 0 ELSE job.from - FileStart(job.file)

\* Variant: takes all that is pending from or to this file.
AllPending == job.pending

BytesInFile ==
  LET remaining == FileEnd(job.file) - (FileStart(job.file) + OffsetInFile)
  IN  IF job.pending > remaining THEN remaining ELSE job.pending

\* Variant: every file gets the first bytes of the piece.
FromPieceStart == 0

\* Where the bytes for this file start in the piece's buffer.
OffsetInPiece == PieceLength(job.piece) - job.pending

\* The seek has waited for the last write of this file.
Settled == DOMAIN buffered[job.file] = {}

NextFile == [job EXCEPT !.file = @ + 1, !.pending = @ - BytesInFile]

SkipFile ==
  /\ alive /\ job # NoJob
  /\ SkipsFile
  /\ job' = [job EXCEPT !.file = @ + 1]
  /\ UNCHANGED <<files, std_piece_len, disk, buffered, write_err, stored, answer, alive>>

WriteFile ==
  /\ alive /\ job.kind = "flush"
  /\ ~AtEnd /\ ~SkipsFile /\ Settled
  /\ job.file \notin write_err
  /\ buffered' = [buffered EXCEPT ![job.file] =
       [x \in OffsetInFile .. OffsetInFile + BytesInFile - 1 |->
          job.piece * std_piece_len + OffsetInPiece + (x - OffsetInFile)]]
  /\ job' = NextFile
  /\ UNCHANGED <<files, std_piece_len, disk, write_err, stored, answer, alive>>

\* The seek fails, or the write with the error of an earlier one: the answer
\* is false and the actor ends.
WriteFails ==
  /\ alive /\ job.kind = "flush"
  /\ ~AtEnd /\ ~SkipsFile /\ Settled
  /\ DiskFaults \/ job.file \in write_err
  /\ job' = NoJob
  /\ alive' = FALSE
  /\ UNCHANGED <<files, std_piece_len, disk, buffered, write_err, stored, answer>>

\* A position before the end of the file that was never written is a hole.
Hole == -1
LengthOnDisk(f) == IF disk[f] = << >> THEN 0
                   ELSE (CHOOSE x \in DOMAIN disk[f] : \A y \in DOMAIN disk[f] : y <= x) + 1
ByteAt(f, x) == IF x \in DOMAIN disk[f] THEN disk[f][x] ELSE Hole

ReadFile ==
  /\ alive /\ job.kind = "read"
  /\ ~AtEnd /\ ~SkipsFile /\ Settled
  /\ OffsetInFile + BytesInFile <= LengthOnDisk(job.file)
  /\ job' = [NextFile EXCEPT !.data =
       @ \o [k \in 1 .. BytesInFile |-> ByteAt(job.file, OffsetInFile + k - 1)]]
  /\ UNCHANGED <<files, std_piece_len, disk, buffered, write_err, stored, answer, alive>>

\* The seek or the read fails, or meets the end of the file: no data, and the
\* actor ends.
ReadFails ==
  /\ alive /\ job.kind = "read"
  /\ ~AtEnd /\ ~SkipsFile /\ Settled
  /\ DiskFaults \/ OffsetInFile + BytesInFile > LengthOnDisk(job.file)
  /\ job' = NoJob
  /\ alive' = FALSE
  /\ UNCHANGED <<files, std_piece_len, disk, buffered, write_err, stored, answer>>

Reply ==
  /\ alive /\ job # NoJob
  /\ AtEnd
  /\ IF job.kind = "flush"
       THEN stored' = stored \cup {job.piece} /\ UNCHANGED answer
       ELSE /\ answer' = [of |-> [k \in 1 .. job.to - job.from |-> job.from + k - 1],
                          data |-> job.data]
            /\ UNCHANGED stored
  /\ job' = NoJob
  /\ UNCHANGED <<files, std_piece_len, disk, buffered, write_err, alive>>

----------------------------------------------------------------------------
(* The file handles                                                        *)

\* A buffered write reaches the file, or fails and leaves its error behind.
Settle(f) ==
  /\ DOMAIN buffered[f] # {}
  /\ buffered' = [buffered EXCEPT ![f] = << >>]
  /\ \/ /\ disk' = [disk EXCEPT ![f] =
              [x \in DOMAIN @ \cup DOMAIN buffered[f] |->
                 IF x \in DOMAIN buffered[f] THEN buffered[f][x] ELSE @[x]]]
        /\ UNCHANGED write_err
     \/ /\ DiskFaults
        /\ write_err' = write_err \cup {f}
        /\ UNCHANGED disk
  /\ UNCHANGED <<files, std_piece_len, job, stored, answer, alive>>

Next ==
  \/ \E i \in Pieces :
       \/ FlushPieceToDisk(i)
       \/ \E offset \in 0 .. std_piece_len - 1 : \E length \in 1 .. std_piece_len :
            GetDataWithLength(i, offset, length)
  \/ SkipFile \/ WriteFile \/ WriteFails \/ ReadFile \/ ReadFails \/ Reply
  \/ \E f \in Files : Settle(f)

Spec == Init /\ [][Next]_vars

----------------------------------------------------------------------------
(* Properties                                                              *)

TypeOK ==
  /\ files \in Layouts /\ std_piece_len \in PieceLens
  /\ job = NoJob \/ job.pending \in 0 .. std_piece_len
  /\ \A f \in Files : DOMAIN disk[f] \cup DOMAIN buffered[f] \subseteq 0 .. files[f] - 1
  /\ write_err \subseteq Files
  /\ stored \subseteq Pieces
  /\ alive \in BOOLEAN

\* Every byte in a file is the byte of the stream that belongs there, for
\* pieces that lie in several files, start in the middle of one, or meet an
\* empty one, in any order of flushes (lines 66-108).
BytesInPlace ==
  \A f \in Files : \A x \in DOMAIN disk[f] : disk[f][x] = FileStart(f) + x

\* The positions of file f that are written or about to be.
Covered(f) == DOMAIN disk[f] \cup DOMAIN buffered[f]

IsStored(i) ==
  \A g \in i * std_piece_len .. i * std_piece_len + PieceLength(i) - 1 :
    \E f \in Files : g - FileStart(f) \in Covered(f)

\* As long as no buffered write has failed, a flush that was answered with
\* true has written, or will have written, every byte of the piece, and once
\* all pieces are flushed the files are complete, short last piece and empty
\* files included (lines 62-112).
FlushesAreComplete ==
  write_err = {} =>
    /\ \A i \in stored : IsStored(i)
    /\ stored = Pieces => \A f \in Files : Covered(f) = 0 .. files[f] - 1

\* "Persisted piece to disk successfully." (line 111): a piece whose flush
\* was answered with true is in the files or in their buffers.
PersistedIsStored == \A i \in stored : IsStored(i)

\* As long as no buffered write has failed, a read is answered with exactly
\* the bytes asked for, although the range may go over several files and
\* their last writes may still be under way (lines 113-166).
ReadBackExact == write_err = {} => answer.data = answer.of
=============================================================================
