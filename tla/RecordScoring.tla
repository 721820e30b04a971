--------------------------- MODULE RecordScoring ---------------------------
(***************************************************************************)
(* mse_mean_streaming (neat-core/src/loss.rs): the mean error of a network  *)
(* over a directory, read in chunks of any length by                        *)
(* for_each_read_chunk_with_mode, whose promise (ChunkDelivery) is the      *)
(* environment here.  A record split across chunks or files is carried in   *)
(* `pending`; max_records caps the scan.  The error sum is abstracted to    *)
(* the bytes that were handed to mse_sum_batch_packed, in order.            *)
(***************************************************************************)
EXTENDS RecordIterator

CONSTANTS
  Maxima,     \* the values of max_records, NoMax among them
  NoMax,      \* max_records is None
  MaxChunk    \* the longest chunk the stream delivers

ASSUME MaximaAssumption ==
  /\ NoMax \notin Nat
  /\ Maxima \subseteq Nat \cup {NoMax}

VARIABLES
  max,        \* max_records
  kept,       \* number of files left after truncate_bin_files_to_cap
  spc,        \* "start", "scan" or "end"
  pending,    \* the bytes of a record split across a chunk or file boundary
  scored,     \* the bytes scored so far
  done,       \* records_done
  capped,     \* the cap has been reached
  arrived,    \* the last chunk delivered
  delivered,  \* every byte delivered before the cap was reached
  result      \* "running", "ok", "io" or "trailing"

svars == <<max, kept, spc, pending, scored, done, capped, arrived, delivered, result>>

ScoringInit ==
  /\ max \in Maxima
  /\ kept = 0 /\ spc = "start"
  /\ pending = <<>> /\ scored = <<>>
  /\ done = 0 /\ capped = FALSE
  /\ arrived = CorpusStart /\ delivered = <<>>
  /\ result = "running"

ScoringReturns(o) == spc' = "end" /\ result' = o

Idle == <<max, kept, pending, scored, done, capped, arrived, delivered>>

\* A zero-width record, a cap of zero or an empty directory scores nothing.
NothingToScore ==
  /\ spc = "start"
  /\ RecordBytes = 0 \/ max = 0 \/ listed = 0
  /\ ScoringReturns("ok")
  /\ UNCHANGED Idle

\* The path is no directory, or it cannot be listed, or (under a cap) a file
\* cannot be sized.
DirectoryFails ==
  /\ spc = "start"
  /\ RecordBytes > 0 /\ max # 0
  /\ ScoringReturns("io")
  /\ UNCHANGED Idle

\* Bytes in the first f files.
BytesUpTo[f \in 0 .. NFiles] == IF f = 0 THEN 0 ELSE BytesUpTo[f - 1] + FileLen[f]

\* truncate_bin_files_to_cap: the shortest prefix of the list that holds m records.
Covering(m) ==
  {f \in 1 .. listed : BytesUpTo[f] >= m * RecordBytes /\ BytesUpTo[f - 1] < m * RecordBytes}

KeptFiles(m) ==
  IF m = NoMax \/ Covering(m) = {} THEN listed ELSE CHOOSE f \in Covering(m) : TRUE

StartScan ==
  /\ spc = "start"
  /\ RecordBytes > 0 /\ max # 0 /\ listed > 0
  /\ kept' = KeptFiles(max)
  /\ spc' = "scan"
  /\ UNCHANGED <<max, pending, scored, done, capped, arrived, delivered, result>>

-----------------------------------------------------------------------------
(* The callback.                                                            *)

\* The chunks the stream may deliver next, out of the files it was given.
NextChunks ==
  {c \in [file : arrived.file .. kept, off : {0, arrived.off + arrived.n}, n : 1 .. MaxChunk] :
     Follows(arrived, c)}

\* The stream hands chunk c to the callback.
Delivers(c) == spc = "scan" /\ arrived' = c

\* Once capped, chunks are ignored.
IgnoreChunk(c) ==
  /\ Delivers(c)
  /\ capped
  /\ UNCHANGED <<max, kept, spc, pending, scored, done, capped, delivered, result>>

\* The chunk does not complete the record left pending.
CarryChunk(c) ==
  /\ Delivers(c)
  /\ ~capped
  /\ pending # <<>> /\ Len(pending) + c.n < RecordBytes
  /\ pending' = pending \o Bytes(c)
  /\ delivered' = delivered \o Bytes(c)
  /\ UNCHANGED <<max, kept, spc, scored, done, capped, result>>

\* How many of a chunk's bytes complete the pending record.
Missing == IF pending = <<>> THEN 0 ELSE RecordBytes - Len(pending)

\* The bytes of chunk c after those, and how many of them form whole records.
AfterPending(c) == SubSeq(Bytes(c), Missing + 1, c.n)
WholeBytes(c) == (Len(AfterPending(c)) \div RecordBytes) * RecordBytes

\* The records completed by chunk c, and what is left over.
Packed(c) == (pending \o SubSeq(Bytes(c), 1, Missing)) \o SubSeq(AfterPending(c), 1, WholeBytes(c))

Residue(c) == SubSeq(AfterPending(c), WholeBytes(c) + 1, c.n - Missing)

Found(c) == Len(Packed(c)) \div RecordBytes

\* The cap is met by chunk c.
Fills(c) == max # NoMax /\ Found(c) >= max - done

Taken(c) == IF Fills(c) THEN max - done ELSE Found(c)

ScoreChunk(c) ==
  /\ Delivers(c)
  /\ ~capped
  /\ pending = <<>> \/ Len(pending) + c.n >= RecordBytes
  /\ scored' = scored \o SubSeq(Packed(c), 1, Taken(c) * RecordBytes)
  /\ done' = done + Taken(c)
  /\ capped' = Fills(c)
  /\ pending' = Residue(c)
  /\ delivered' = delivered \o Bytes(c)
  /\ UNCHANGED <<max, kept, spc, result>>

\* Opening or reading a file fails.
StreamFails ==
  /\ spc = "scan"
  /\ ScoringReturns("io")
  /\ UNCHANGED Idle

\* Mutant: the residue is not looked at.
StreamEndsQuietly ==
  /\ spc = "scan"
  /\ EndsFile(arrived) /\ EmptyBetween(arrived.file, kept + 1)
  /\ ScoringReturns("ok")
  /\ UNCHANGED Idle

\* The stream ends; a residue is an error unless the cap was reached.
StreamEnds ==
  /\ spc = "scan"
  /\ EndsFile(arrived) /\ EmptyBetween(arrived.file, kept + 1)
  /\ ScoringReturns(IF pending # <<>> /\ ~capped THEN "trailing" ELSE "ok")
  /\ UNCHANGED Idle

ScoringNext ==
  \/ NothingToScore \/ DirectoryFails \/ StartScan
  \/ \E c \in NextChunks : IgnoreChunk(c) \/ CarryChunk(c) \/ ScoreChunk(c)
  \/ StreamFails \/ StreamEnds

-----------------------------------------------------------------------------
(* Properties.                                                              *)

ScoringTypeOK ==
  /\ shape \in Shapes /\ listed \in 0 .. NFiles
  /\ max \in Maxima /\ kept \in 0 .. listed
  /\ spc \in {"start", "scan", "end"}
  /\ pending \in Seq(Byte) /\ scored \in Seq(Byte) /\ delivered \in Seq(Byte)
  /\ done \in Nat /\ capped \in BOOLEAN
  /\ arrived \in Chunk
  /\ result \in {"running", "ok", "io", "trailing"}

\* However records fall across chunks and files, the bytes scored are the
\* first bytes delivered, in order and once each, in whole records; what is
\* not scored is pending and shorter than a record, a cap cuts exactly after
\* its last record, and without a cap Ok leaves nothing pending.
LineOfBytes ==
  /\ Len(scored) = done * RecordBytes
  /\ capped =>
       /\ max # NoMax /\ done = max
       /\ Len(scored) <= Len(delivered) /\ scored = SubSeq(delivered, 1, done * RecordBytes)
  /\ ~capped => delivered = scored \o pending
  /\ ~capped /\ result = "ok" => delivered = scored
  /\ RecordBytes > 0 => Len(pending) < RecordBytes

\* records_done never passes max_records and reaches it only by capping, so
\* that max - records_done neither underflows nor is zero in the callback.
CapBound ==
  spc = "scan" /\ max # NoMax => done <= max /\ (done = max <=> capped)

\* Before the scan nothing has happened; a scan has records to look for.
ScoringPhases ==
  /\ spc = "start" =>
       done = 0 /\ ~capped /\ pending = <<>> /\ scored = <<>> /\ delivered = <<>>
  /\ spc \in {"start", "scan"} => result = "running"
  /\ spc = "scan" => RecordBytes > 0 /\ max # 0

ScoringInv == ScoringTypeOK /\ LineOfBytes /\ CapBound /\ ScoringPhases
=============================================================================
