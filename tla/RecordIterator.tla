--------------------------- MODULE RecordIterator ---------------------------
(***************************************************************************)
(* TrainingDataIterator (neat-core/src/training_data.rs): one record per    *)
(* call over the files of a directory, each of which must hold whole        *)
(* records.  A caller may call again after an error.  The reader is a       *)
(* position in the open file; files do not change while they are read.      *)
(*                                                                         *)
(* And what its module lends mse_mean_streaming: a directory whose .bin     *)
(* files, in the order of find_bin_files, are the first `listed` files of   *)
(* the corpus, and records of num_inputs + num_outputs packed f32 values.   *)
(* A byte is named by its place in the corpus.                              *)
(***************************************************************************)
EXTENDS Corpus, Sequences

CONSTANT Shapes    \* the [in, out] record shapes a caller may ask for

ASSUME ShapesAssumption == Shapes \subseteq [in : Nat, out : Nat]

VARIABLES
  shape,     \* num_inputs and num_outputs
  listed     \* number of .bin files in the directory

layout == <<shape, listed>>

RecordBytes == (shape.in + shape.out) * 4

Byte == (0 .. NFiles) \X Nat

\* The bytes of chunk c, in order.
Bytes(c) == [i \in 1 .. c.n |-> <<c.file, c.off + i - 1>>]

LayoutInit == shape \in Shapes /\ listed \in 0 .. NFiles

-----------------------------------------------------------------------------
VARIABLES
  ipc,        \* "new", "opening", "reading", "idle" (built) or "dead" (not built)
  built,      \* TrainingDataIterator::new has returned an iterator
  index,      \* current_file_index: files passed so far
  rfile,      \* the file open in current_reader, 0 for None
  rpos,       \* the reader's position in it
  remaining,  \* records_remaining
  yielded,    \* the bytes of the records yielded so far
  opened,     \* the files opened so far
  errors,     \* the kinds of error returned so far
  answer      \* what the last call returned: "none", "record", "end" or "error"

ivars == <<ipc, built, index, rfile, rpos, remaining, yielded, opened, errors, answer>>

IteratorInit ==
  /\ ipc = "new" /\ built = FALSE
  /\ index = 0 /\ rfile = 0 /\ rpos = 0 /\ remaining = 0
  /\ yielded = <<>> /\ opened = <<>>
  /\ errors = {} /\ answer = "none"

\* The call returns an error; new() gives up, next_record may be called again.
IteratorFails(e) ==
  /\ ipc' = IF built THEN "idle" ELSE "dead"
  /\ errors' = errors \cup {e}
  /\ answer' = "error"

\* validate_config refuses records without inputs or without outputs.
RefuseShape ==
  /\ ipc = "new"
  /\ shape.in = 0 \/ shape.out = 0
  /\ IteratorFails("config")
  /\ UNCHANGED <<built, index, rfile, rpos, remaining, yielded, opened>>

ListingFails ==
  /\ ipc = "new"
  /\ shape.in > 0 /\ shape.out > 0
  /\ IteratorFails("list")
  /\ UNCHANGED <<built, index, rfile, rpos, remaining, yielded, opened>>

NewIterator ==
  /\ ipc = "new"
  /\ shape.in > 0 /\ shape.out > 0
  /\ ipc' = "opening"
  /\ UNCHANGED <<built, index, rfile, rpos, remaining, yielded, opened, errors, answer>>

CallNext ==
  /\ ipc = "idle"
  /\ ipc' = IF remaining > 0 THEN "reading" ELSE "opening"
  /\ UNCHANGED <<built, index, rfile, rpos, remaining, yielded, opened, errors, answer>>

-----------------------------------------------------------------------------
(* open_next_file: one iteration of its loop per action.                    *)

NextLen == FileLen[index + 1]

StatFails ==
  /\ ipc = "opening" /\ index < listed
  /\ IteratorFails("stat")
  /\ UNCHANGED <<built, index, rfile, rpos, remaining, yielded, opened>>

\* validate_file_size: the file does not hold whole records; it is not passed.
WrongSize ==
  /\ ipc = "opening" /\ index < listed
  /\ NextLen % RecordBytes # 0
  /\ IteratorFails("size")
  /\ UNCHANGED <<built, index, rfile, rpos, remaining, yielded, opened>>

\* Mutant: an empty file ends the iteration.
SkipEmptyEnds ==
  /\ ipc = "opening" /\ index < listed
  /\ NextLen = 0
  /\ index' = listed
  /\ UNCHANGED <<ipc, built, rfile, rpos, remaining, yielded, opened, errors, answer>>

SkipEmpty ==
  /\ ipc = "opening" /\ index < listed
  /\ NextLen = 0
  /\ index' = index + 1
  /\ UNCHANGED <<ipc, built, rfile, rpos, remaining, yielded, opened, errors, answer>>

\* The file is passed even when it cannot be opened.
OpenFails ==
  /\ ipc = "opening" /\ index < listed
  /\ NextLen > 0 /\ NextLen % RecordBytes = 0
  /\ index' = index + 1
  /\ IteratorFails("open")
  /\ UNCHANGED <<built, rfile, rpos, remaining, yielded, opened>>

\* Mutant: the count of the file before is kept.
OpenFileOldCount ==
  /\ ipc = "opening" /\ index < listed
  /\ NextLen > 0 /\ NextLen % RecordBytes = 0
  /\ index' = index + 1
  /\ rfile' = index + 1 /\ rpos' = 0
  /\ remaining' = IF index = 0 THEN NextLen \div RecordBytes ELSE FileLen[index] \div RecordBytes
  /\ opened' = Append(opened, index + 1)
  /\ built' = TRUE
  /\ ipc' = IF built THEN "reading" ELSE "idle"
  /\ UNCHANGED <<yielded, errors, answer>>

OpenFile ==
  /\ ipc = "opening" /\ index < listed
  /\ NextLen > 0 /\ NextLen % RecordBytes = 0
  /\ index' = index + 1
  /\ rfile' = index + 1 /\ rpos' = 0
  /\ remaining' = NextLen \div RecordBytes
  /\ opened' = Append(opened, index + 1)
  /\ built' = TRUE
  /\ ipc' = IF built THEN "reading" ELSE "idle"
  /\ UNCHANGED <<yielded, errors, answer>>

NoMoreFiles ==
  /\ ipc = "opening" /\ index = listed
  /\ rfile' = 0 /\ remaining' = 0
  /\ built' = TRUE
  /\ ipc' = "idle"
  /\ answer' = IF built THEN "end" ELSE "none"
  /\ UNCHANGED <<index, rpos, yielded, opened, errors>>

-----------------------------------------------------------------------------
(* read_exact of one record.                                                *)

ReadRecord ==
  /\ ipc = "reading"
  /\ rpos + RecordBytes <= LenOf(rfile)
  /\ yielded' = yielded \o Bytes([file |-> rfile, off |-> rpos, n |-> RecordBytes])
  /\ rpos' = rpos + RecordBytes /\ remaining' = remaining - 1
  /\ ipc' = "idle" /\ answer' = "record"
  /\ UNCHANGED <<built, index, rfile, opened, errors>>

\* The read fails part way, or meets the end of the file; what was consumed
\* stays consumed and the record is still counted as remaining.
ReadFails ==
  /\ ipc = "reading"
  /\ \E p \in rpos .. rpos + RecordBytes :
       /\ p <= LenOf(rfile)
       /\ rpos' = p
  /\ IteratorFails("read")
  /\ UNCHANGED <<built, index, rfile, remaining, yielded, opened>>

IteratorNext ==
  \/ RefuseShape \/ ListingFails \/ NewIterator \/ CallNext
  \/ StatFails \/ WrongSize \/ SkipEmpty \/ OpenFails \/ OpenFile \/ NoMoreFiles
  \/ ReadRecord \/ ReadFails

=============================================================================
