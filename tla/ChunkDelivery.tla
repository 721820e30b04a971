--------------------------- MODULE ChunkDelivery ---------------------------
(***************************************************************************)
(* What for_each_read_chunk_with_mode (neat-core/src/training_bin_stream.rs)*)
(* promises its caller, whatever the read mode: the callback sees every     *)
(* byte of the files, in order and exactly once, in non-empty chunks that   *)
(* never span two files; the call returns Ok only after the last byte and   *)
(* only when nothing failed, and an error only when something did fail.     *)
(***************************************************************************)
EXTENDS Corpus

VARIABLES
  last,      \* the last chunk the callback was given
  faulty,    \* the request, an open, a read or the callback has failed
  outcome    \* "running", then "ok", "err" or "panic"

dvars == <<last, faulty, outcome>>

DInit ==
  /\ last = CorpusStart
  /\ faulty = FALSE
  /\ outcome = "running"

\* The callback gets the next chunk, and may itself fail on it.
Deliver ==
  /\ outcome = "running"
  /\ last' \in Chunk
  /\ Follows(last, last')
  /\ \/ UNCHANGED <<faulty, outcome>>
     \/ faulty' = TRUE /\ outcome' \in {"running", "err", "panic"}

\* Something failed; the call ends at once or later.
Fail ==
  /\ outcome = "running"
  /\ faulty' = TRUE
  /\ outcome' \in {"running", "err", "panic"}
  /\ UNCHANGED last

ReturnOk ==
  /\ outcome = "running"
  /\ EndsCorpus(last)
  /\ ~faulty
  /\ outcome' = "ok"
  /\ UNCHANGED <<last, faulty>>

DNext == Deliver \/ Fail \/ ReturnOk

DSpec == DInit /\ [][DNext]_dvars
=============================================================================
