------------------------- MODULE TrainingBinStream -------------------------
(***************************************************************************)
(* The training corpus reader, neat-core/src/training_bin_stream.rs.        *)
(*                                                                          *)
(* Pipelined mode: a reader thread fills two ping-pong buffers and sends    *)
(* them over a channel of capacity one; the calling thread runs on_chunk    *)
(* and returns each buffer over a channel of capacity two (the pool); a     *)
(* third channel is the shutdown gate the reader parks on after "Done", so  *)
(* that the pool's receiver outlives the last return.  Sequential mode: the *)
(* calling thread does everything.  A channel is modelled by its queue and  *)
(* by whether its receiver or its last foreign sender is still held; a      *)
(* buffer's bytes are abstracted to the file range they were read from.     *)
(***************************************************************************)
EXTENDS Corpus

CONSTANTS
  BufLens,    \* the values of read_buf_len a caller may pass
  MayPanic    \* whether the callback may panic

ASSUME CallerAssumption == BufLens \subseteq Nat /\ MayPanic \in BOOLEAN

VARIABLES
  mode,      \* TrainingReadMode: "pipelined" or "sequential"
  bufLen,    \* read_buf_len
  rpc,       \* where the reader thread is ("gone" in sequential mode)
  cpc,       \* where the calling thread is
  file, off, \* the open file and the position in it (0 before the first open)
  rbuf,      \* the chunk in the reader's hand
  cbuf,      \* the chunk in the caller's hand
  fill,      \* the one slot of the fill channel: NoChunk, a chunk or CorpusDone
  pool,      \* number of free buffers queued in the pool
  held,      \* channel ends still held: the reader's empty_rx ("poolRx") and
             \* fill_tx ("fillTx"), the caller's fill_rx ("fillRx")
  gate,      \* the shutdown gate, "closed" until the caller releases it
  rres,      \* the reader thread's result: "none", "ok" or "err"
  cres,      \* the consumer loop's result: "none", "ok", "err" or "panic"
  last,      \* the last chunk the callback was given
  faults,    \* what has failed so far: "request", "io", "callback"
  outcome    \* what the call returned: "running", then "ok", "err" or "panic"

reader   == <<rpc, rbuf, rres>>
consumer == <<cpc, cbuf, gate, cres>>
delivery == <<last, faults, outcome>>
vars == <<mode, bufLen, rpc, cpc, file, off, rbuf, cbuf, fill, pool, held,
          gate, rres, cres, last, faults, outcome>>

NoChunk == CorpusStart
CorpusDone == [file |-> 0, off |-> 1, n |-> 0]

ReaderPCs   == {"open", "take", "read", "forward", "done", "park", "exit", "gone"}
ConsumerPCs == {"start", "recv", "call", "return", "giveback", "release", "drop", "join",
                "open", "read", "seqcall", "end"}

Buffers == 2
PoolCapacity == 2

Init ==
  /\ mode \in {"pipelined", "sequential"}
  /\ bufLen \in BufLens
  /\ rpc = "gone" /\ cpc = "start"
  /\ file = 0 /\ off = 0
  /\ rbuf = NoChunk /\ cbuf = NoChunk
  /\ fill = NoChunk /\ pool = 0
  /\ held = {} /\ gate = "closed"
  /\ rres = "none" /\ cres = "none"
  /\ last = CorpusStart /\ faults = {} /\ outcome = "running"

\* for_each_read_chunk_with_mode refuses a buffer of length 0.
Refuse ==
  /\ cpc = "start" /\ bufLen = 0
  /\ cpc' = "end" /\ outcome' = "err" /\ faults' = faults \cup {"request"}
  /\ UNCHANGED <<mode, bufLen, file, off, cbuf, fill, pool, held, gate, cres, reader, last>>

\* Pipelined: create the channels, seed the pool, spawn the reader.
StartPipelined ==
  /\ cpc = "start" /\ bufLen > 0 /\ mode = "pipelined"
  /\ pool' = Buffers
  /\ held' = {"poolRx", "fillTx", "fillRx"}
  /\ rpc' = "open" /\ cpc' = "recv"
  /\ UNCHANGED <<mode, bufLen, file, off, rbuf, cbuf, fill, gate, rres, cres, delivery>>

StartSequential ==
  /\ cpc = "start" /\ bufLen > 0 /\ mode = "sequential"
  /\ cpc' = "open"
  /\ UNCHANGED <<mode, bufLen, file, off, cbuf, fill, pool, held, gate, cres, reader, delivery>>

-----------------------------------------------------------------------------
(* The reader thread.                                                       *)

\* The reader closure returns r; its channel ends are dropped afterwards.
ReaderReturns(r) == rpc' = "exit" /\ rres' = r

ROpen ==
  /\ rpc = "open" /\ file < NFiles
  /\ file' = file + 1 /\ off' = 0
  /\ rpc' = "take"
  /\ UNCHANGED <<mode, bufLen, rbuf, rres, fill, pool, held, consumer, delivery>>

ROpenFails ==
  /\ rpc = "open" /\ file < NFiles
  /\ ReaderReturns("err")
  /\ faults' = faults \cup {"io"}
  /\ UNCHANGED <<mode, bufLen, file, off, rbuf, fill, pool, held, consumer, last, outcome>>

\* empty_rx.recv(): the reader keeps a sender of its own, so the receive never
\* fails; it waits for as long as the pool is empty.
RTake ==
  /\ rpc = "take"
  /\ pool > 0
  /\ pool' = pool - 1
  /\ rpc' = "read"
  /\ UNCHANGED <<mode, bufLen, file, off, rbuf, fill, held, rres, consumer, delivery>>

\* Mutant: a short read is forwarded as a full buffer.
RReadWholeBuffer ==
  /\ rpc = "read"
  /\ \E n \in 1 .. bufLen :
       /\ off + n <= LenOf(file)
       /\ rbuf' = [file |-> file, off |-> off, n |-> bufLen]
       /\ off' = off + n
  /\ rpc' = "forward"
  /\ UNCHANGED <<mode, bufLen, file, fill, pool, held, rres, consumer, delivery>>

\* file.read() may return fewer bytes than the buffer holds.
RRead ==
  /\ rpc = "read"
  /\ \E n \in 1 .. bufLen :
       /\ off + n <= LenOf(file)
       /\ rbuf' = [file |-> file, off |-> off, n |-> n]
       /\ off' = off + n
  /\ rpc' = "forward"
  /\ UNCHANGED <<mode, bufLen, file, fill, pool, held, rres, consumer, delivery>>

\* Mutant: the buffer of an end-of-file read is dropped.
REofDropsBuffer ==
  /\ rpc = "read" /\ off = LenOf(file)
  /\ rpc' = "open"
  /\ UNCHANGED <<mode, bufLen, file, off, rbuf, fill, pool, held, rres, consumer, delivery>>

\* End of file: the buffer goes back to the pool through the reader's own sender.
REof ==
  /\ rpc = "read" /\ off = LenOf(file)
  /\ pool < PoolCapacity
  /\ pool' = pool + 1
  /\ rpc' = "open"
  /\ UNCHANGED <<mode, bufLen, file, off, rbuf, fill, held, rres, consumer, delivery>>

RReadFails ==
  /\ rpc = "read"
  /\ ReaderReturns("err")
  /\ faults' = faults \cup {"io"}
  /\ UNCHANGED <<mode, bufLen, file, off, rbuf, fill, pool, held, consumer, last, outcome>>

\* fill_tx.send(): blocks while the channel is full, fails once fill_rx is gone.
RForward ==
  /\ rpc = "forward"
  /\ "fillRx" \in held /\ fill = NoChunk
  /\ fill' = rbuf /\ rbuf' = NoChunk
  /\ rpc' = "take"
  /\ UNCHANGED <<mode, bufLen, file, off, pool, held, rres, consumer, delivery>>

RForwardFails ==
  /\ rpc = "forward"
  /\ "fillRx" \notin held
  /\ ReaderReturns("ok")
  /\ rbuf' = NoChunk
  /\ UNCHANGED <<mode, bufLen, file, off, fill, pool, held, consumer, delivery>>

RAllDrained ==
  /\ rpc = "open" /\ file = NFiles
  /\ rpc' = "done"
  /\ UNCHANGED <<mode, bufLen, file, off, rbuf, fill, pool, held, rres, consumer, delivery>>

\* Mutant: no shutdown gate; the reader exits after Done (issue #25).
RSendDoneAndExit ==
  /\ rpc = "done"
  /\ ("fillRx" \in held) => fill = NoChunk
  /\ fill' = IF "fillRx" \in held THEN CorpusDone ELSE fill
  /\ ReaderReturns("ok")
  /\ UNCHANGED <<mode, bufLen, file, off, rbuf, pool, held, consumer, delivery>>

\* `let _ = fill_tx.send(Done)`: the result is ignored.
RSendDone ==
  /\ rpc = "done"
  /\ ("fillRx" \in held) => fill = NoChunk
  /\ fill' = IF "fillRx" \in held THEN CorpusDone ELSE fill
  /\ rpc' = "park"
  /\ UNCHANGED <<mode, bufLen, file, off, rbuf, pool, held, rres, consumer, delivery>>

RPark ==
  /\ rpc = "park"
  /\ gate = "open"
  /\ ReaderReturns("ok")
  /\ UNCHANGED <<mode, bufLen, file, off, rbuf, fill, pool, held, consumer, delivery>>

\* The closure's captures are dropped one by one, in an order the code does not fix.
RDropPoolRx ==
  /\ rpc = "exit" /\ "poolRx" \in held
  /\ held' = held \ {"poolRx"} /\ pool' = 0
  /\ UNCHANGED <<mode, bufLen, rpc, file, off, rbuf, fill, rres, consumer, delivery>>

RDropFillTx ==
  /\ rpc = "exit" /\ "fillTx" \in held
  /\ held' = held \ {"fillTx"}
  /\ UNCHANGED <<mode, bufLen, rpc, file, off, rbuf, fill, pool, rres, consumer, delivery>>

RGone ==
  /\ rpc = "exit" /\ "poolRx" \notin held /\ "fillTx" \notin held
  /\ rpc' = "gone"
  /\ UNCHANGED <<mode, bufLen, file, off, rbuf, fill, pool, held, rres, consumer, delivery>>

ReaderStep ==
  \/ ROpen \/ ROpenFails \/ RTake \/ RRead \/ REof \/ RReadFails
  \/ RForward \/ RForwardFails \/ RAllDrained \/ RSendDone \/ RPark
  \/ RDropPoolRx \/ RDropFillTx \/ RGone

-----------------------------------------------------------------------------
(* The calling thread in pipelined mode.                                    *)

\* The consumer loop ends with r.
LoopReturns(r) == cpc' = "release" /\ cres' = r

CRecv ==
  /\ cpc = "recv" /\ fill.n > 0
  /\ cbuf' = fill /\ fill' = NoChunk
  /\ cpc' = "call"
  /\ UNCHANGED <<mode, bufLen, file, off, pool, held, gate, cres, reader, delivery>>

CRecvDone ==
  /\ cpc = "recv" /\ fill = CorpusDone
  /\ fill' = NoChunk
  /\ LoopReturns("ok")
  /\ UNCHANGED <<mode, bufLen, file, off, cbuf, pool, held, gate, reader, delivery>>

CDisconnected ==
  /\ cpc = "recv" /\ fill = NoChunk /\ "fillTx" \notin held
  /\ LoopReturns("err")
  /\ UNCHANGED <<mode, bufLen, file, off, cbuf, fill, pool, held, gate, reader, delivery>>

CCallOk ==
  /\ cpc = "call"
  /\ last' = cbuf
  /\ cpc' = "return"
  /\ UNCHANGED <<mode, bufLen, file, off, cbuf, fill, pool, held, gate, cres, reader, faults, outcome>>

CCallFails ==
  /\ cpc = "call"
  /\ last' = cbuf /\ faults' = faults \cup {"callback"}
  /\ cpc' = "giveback"
  /\ UNCHANGED <<mode, bufLen, file, off, cbuf, fill, pool, held, gate, cres, reader, outcome>>

\* The callback panics: its buffer is freed and the unwinding drops the caller's
\* channel ends in the order of an ordinary return, but joins no thread.
CCallPanics ==
  /\ MayPanic
  /\ cpc = "call"
  /\ last' = cbuf /\ faults' = faults \cup {"callback"}
  /\ cbuf' = NoChunk
  /\ LoopReturns("panic")
  /\ UNCHANGED <<mode, bufLen, file, off, fill, pool, held, gate, reader, outcome>>

\* empty_tx.send(): never blocks on a pool of two; fails once empty_rx is gone.
CReturn ==
  /\ cpc = "return"
  /\ "poolRx" \in held /\ pool < PoolCapacity
  /\ pool' = pool + 1 /\ cbuf' = NoChunk
  /\ cpc' = "recv"
  /\ UNCHANGED <<mode, bufLen, file, off, fill, held, gate, cres, reader, delivery>>

CReturnFails ==
  /\ cpc = "return"
  /\ "poolRx" \notin held
  /\ cbuf' = NoChunk
  /\ LoopReturns("err")
  /\ UNCHANGED <<mode, bufLen, file, off, fill, pool, held, gate, reader, delivery>>

\* Mutant: no best-effort return after a failed callback.
CGiveBackNothing ==
  /\ cpc = "giveback"
  /\ cbuf' = NoChunk
  /\ LoopReturns("err")
  /\ UNCHANGED <<mode, bufLen, file, off, fill, pool, held, gate, reader, delivery>>

\* The best-effort return after a failed callback.
CGiveBack ==
  /\ cpc = "giveback"
  /\ ("poolRx" \in held) => pool < PoolCapacity
  /\ pool' = IF "poolRx" \in held THEN pool + 1 ELSE pool
  /\ cbuf' = NoChunk
  /\ LoopReturns("err")
  /\ UNCHANGED <<mode, bufLen, file, off, fill, held, gate, reader, delivery>>

CRelease ==
  /\ cpc = "release"
  /\ gate' = "open"
  /\ cpc' = "drop"
  /\ UNCHANGED <<mode, bufLen, file, off, cbuf, fill, pool, held, cres, reader, delivery>>

\* drop(fill_rx) frees whatever the channel still holds.
CDrop ==
  /\ cpc = "drop"
  /\ held' = held \ {"fillRx"} /\ fill' = NoChunk
  /\ cpc' = IF cres = "panic" THEN "end" ELSE "join"
  /\ outcome' = IF cres = "panic" THEN "panic" ELSE outcome
  /\ UNCHANGED <<mode, bufLen, file, off, cbuf, pool, gate, cres, reader, last, faults>>

\* The reader's error wins, with the consumer's behind it.
CJoin ==
  /\ cpc = "join" /\ rpc = "gone"
  /\ outcome' = IF rres = "ok" THEN cres ELSE "err"
  /\ cpc' = "end"
  /\ UNCHANGED <<mode, bufLen, file, off, cbuf, fill, pool, held, gate, cres, reader, last, faults>>

ConsumerStep ==
  \/ CRecv \/ CRecvDone \/ CDisconnected \/ CCallOk \/ CCallFails \/ CCallPanics
  \/ CReturn \/ CReturnFails \/ CGiveBack \/ CRelease \/ CDrop \/ CJoin

-----------------------------------------------------------------------------
(* The calling thread in sequential mode.                                   *)

SeqUnchanged == UNCHANGED <<mode, bufLen, reader, fill, pool, held, gate, cres>>

SOpen ==
  /\ cpc = "open" /\ file < NFiles
  /\ file' = file + 1 /\ off' = 0
  /\ cpc' = "read"
  /\ SeqUnchanged /\ UNCHANGED <<cbuf, delivery>>

SRead ==
  /\ cpc = "read"
  /\ \E n \in 1 .. bufLen :
       /\ off + n <= LenOf(file)
       /\ cbuf' = [file |-> file, off |-> off, n |-> n]
       /\ off' = off + n
  /\ cpc' = "seqcall"
  /\ SeqUnchanged /\ UNCHANGED <<file, delivery>>

SEof ==
  /\ cpc = "read" /\ off = LenOf(file)
  /\ cpc' = "open"
  /\ SeqUnchanged /\ UNCHANGED <<file, off, cbuf, delivery>>

\* A failed open or read ends the loop at once.
SIoFails ==
  /\ \/ cpc = "open" /\ file < NFiles
     \/ cpc = "read"
  /\ faults' = faults \cup {"io"}
  /\ outcome' = "err" /\ cpc' = "end"
  /\ SeqUnchanged /\ UNCHANGED <<file, off, cbuf, last>>

SCall ==
  /\ cpc = "seqcall"
  /\ last' = cbuf /\ cbuf' = NoChunk
  /\ cpc' = "read"
  /\ SeqUnchanged /\ UNCHANGED <<file, off, faults, outcome>>

SCallFails ==
  /\ cpc = "seqcall"
  /\ last' = cbuf /\ cbuf' = NoChunk
  /\ faults' = faults \cup {"callback"}
  /\ outcome' \in {"err"} \cup (IF MayPanic THEN {"panic"} ELSE {})
  /\ cpc' = "end"
  /\ SeqUnchanged /\ UNCHANGED <<file, off>>

SReturn ==
  /\ cpc = "open" /\ file = NFiles
  /\ outcome' = "ok" /\ cpc' = "end"
  /\ SeqUnchanged /\ UNCHANGED <<file, off, cbuf, last, faults>>

SequentialStep == SOpen \/ SRead \/ SEof \/ SIoFails \/ SCall \/ SCallFails \/ SReturn

-----------------------------------------------------------------------------
Finished == cpc = "end" /\ rpc = "gone" /\ UNCHANGED vars

CallerStep == Refuse \/ StartPipelined \/ StartSequential \/ ConsumerStep \/ SequentialStep

Next == ReaderStep \/ CallerStep \/ Finished

Spec == Init /\ [][Next]_vars

\* Both threads are scheduled by the operating system, reads return, and the
\* callback returns.
FairSpec == Spec /\ WF_vars(ReaderStep) /\ WF_vars(CallerStep)

-----------------------------------------------------------------------------
TypeOK ==
  /\ mode \in {"pipelined", "sequential"}
  /\ bufLen \in BufLens
  /\ rpc \in ReaderPCs
  /\ cpc \in ConsumerPCs
  /\ file \in 0 .. NFiles
  /\ off \in Nat
  /\ rbuf \in Chunk
  /\ cbuf \in Chunk
  /\ fill \in Chunk
  /\ pool \in 0 .. PoolCapacity
  /\ held \subseteq {"poolRx", "fillTx", "fillRx"}
  /\ gate \in {"closed", "open"}
  /\ rres \in {"none", "ok", "err"}
  /\ cres \in {"none", "ok", "err", "panic"}
  /\ last \in Chunk
  /\ faults \subseteq {"request", "io", "callback"}
  /\ outcome \in {"running", "ok", "err", "panic"}

ReaderHolds == IF rpc \in {"read", "forward"} THEN 1 ELSE 0
CallerHolds == IF cpc \in {"call", "return", "giveback"} THEN 1 ELSE 0
QueuedChunks == IF fill.n > 0 THEN 1 ELSE 0

\* The pool neither loses nor invents a buffer while both ends are at work: the
\* reader's own sender (end of file) and the best-effort return of a failed
\* callback are what keeps both ping-pong buffers in play, and because no more
\* than two exist no send into the pool can block.
BuffersConserved ==
  ("poolRx" \in held /\ "fillRx" \in held /\ rpc # "exit" /\ cres # "panic")
    => pool + ReaderHolds + CallerHolds + QueuedChunks = Buffers

\* A call that returns tells the truth: Ok means that every byte of every file
\* went through the callback and nothing failed; an error means that an open, a
\* read or the callback really failed, never that the two threads tore the
\* channels down in the wrong order (issue #25).
OutcomeSound ==
  /\ outcome = "ok" => EndsCorpus(last) /\ faults = {}
  /\ outcome \in {"err", "panic"} => faults # {}

\* Every call returns, and unless the callback panicked no reader thread is left
\* behind: whatever fails and wherever the other thread is, both stop.
EveryCallEnds == <>(cpc = "end" /\ (rpc = "gone" \/ outcome = "panic"))

\* The reader closure's comment on a failed take: "Consumer shut down; nothing more
\* to do" - a reader outlives its consumer only for as long as it takes to notice.
ReaderFollowsConsumer == (cpc = "end") ~> (rpc = "gone")

\* When an open or a read fails, the callback has still been given every byte that
\* had been read by then, in pipelined mode as in the sequential loop ("both modes
\* ... produce byte-identical output for a given corpus"): with two buffers the
\* reader can only fail while holding one, so at most one chunk is under way.
FaultAfterPrefix ==
  (outcome = "err" /\ faults = {"io"}) => Reaches(last, file, off)

\* The promise of module ChunkDelivery, kept by both modes.
Delivery == INSTANCE ChunkDelivery WITH faulty <- faults # {}
KeepsDelivery == Delivery!DSpec

-----------------------------------------------------------------------------
(* The inductive invariant behind the theorems of TrainingBinStreamProofs.  *)

ReaderDead  == rpc \in {"exit", "gone"}
CallerEnding == cpc \in {"release", "drop", "join", "end"}
InCall == cpc \in {"call", "seqcall"}

\* The bytes under way form one line: last chunk delivered, chunk in the caller's
\* hand, chunk in the slot, chunk in the reader's hand, position in the file.
CallerTip == IF InCall THEN cbuf ELSE last
SlotTip   == IF fill.n > 0 THEN fill ELSE CallerTip
ReaderTip == IF rpc = "forward" THEN rbuf ELSE SlotTip

\* drop(fill_rx) cuts the line.
Linked == "fillRx" \in held \/ mode = "sequential" \/ cpc = "start"

Line ==
  /\ InCall => Follows(last, cbuf)
  /\ fill.n > 0 => Follows(CallerTip, fill)
  /\ Linked =>
       /\ rpc = "forward" => Follows(SlotTip, rbuf)
       /\ Reaches(ReaderTip, file, off)

\* Which thread may be where, and which channel ends it still holds.
Control ==
  /\ cpc = "start" => /\ gate = "closed" /\ rpc = "gone" /\ file = 0 /\ off = 0 /\ last = CorpusStart
                      /\ fill = NoChunk /\ "fillRx" \notin held /\ faults = {} /\ rres = "none"
                      /\ cres = "none" /\ outcome = "running"
  /\ mode = "sequential" => /\ rpc = "gone" /\ "fillRx" \notin held /\ fill = NoChunk
                            /\ cpc \in {"start", "open", "read", "seqcall", "end"}
                            /\ rres = "none" /\ cres = "none"
                            /\ (outcome = "running") <=> (cpc # "end")
  /\ mode = "pipelined" => cpc \notin {"open", "read", "seqcall"}
  /\ mode = "pipelined" /\ cpc # "start" /\ ~(cpc = "end" /\ cres = "none") =>
       /\ ReaderDead <=> (rres # "none")
       /\ rpc \notin {"exit", "gone"} => "poolRx" \in held /\ "fillTx" \in held
       /\ rpc = "gone" => "poolRx" \notin held
       /\ ("fillRx" \in held) <=> (cpc \notin {"join", "end"})
       /\ gate = "open" => cpc \in {"drop", "join", "end"}
       /\ CallerEnding <=> (cres # "none")
       /\ cpc = "join" => cres # "panic"
       /\ outcome = "running" \/ cpc = "end"
       /\ cpc = "end" => outcome # "running" /\ (outcome # "panic" => rpc = "gone")
       /\ (outcome = "panic") <=> (cpc = "end" /\ cres = "panic")
  /\ mode = "pipelined" /\ cpc = "end" /\ cres = "none" =>
       rpc = "gone" /\ "fillRx" \notin held /\ outcome = "err" /\ faults = {"request"}
  /\ fill.n = 0 => fill \in {NoChunk, CorpusDone}
  /\ "fillRx" \notin held => fill = NoChunk

\* The end of the corpus is announced once, by a reader with nothing more to read.
AtEnd ==
  /\ rpc = "open" \/ cpc = "open" => off = LenOf(file)
  /\ fill = CorpusDone \/ cres = "ok" =>
       /\ rpc \in {"park", "exit", "gone"}
       /\ rres # "err"
  /\ fill = CorpusDone \/ cres = "ok" \/ rpc \in {"done", "park"} =>
       /\ file = NFiles /\ off = LenOf(file)
  /\ cres = "ok" => EndsCorpus(last) /\ fill = NoChunk
  /\ outcome = "ok" => EndsCorpus(last)

\* Who has failed, and who knows.
Blame ==
  /\ rres = "err" => "io" \in faults
  /\ rres = "ok" => cpc \in {"drop", "join", "end"}
  /\ mode = "pipelined" /\ "io" \in faults => rres = "err"
  /\ "callback" \in faults => cpc = "giveback" \/ cres \in {"err", "panic"} \/ outcome \in {"err", "panic"}
  /\ cpc = "giveback" \/ cres = "panic" => "callback" \in faults
  /\ cres = "err" => faults # {}
  /\ outcome = "ok" => faults = {}
  /\ outcome \in {"err", "panic"} => faults # {}
  /\ mode = "sequential" /\ faults # {} => cpc = "end"
  /\ "request" \in faults => cpc = "end" /\ faults = {"request"}

\* Where the two buffers are.
Count ==
  /\ "poolRx" \in held => pool + ReaderHolds + CallerHolds + QueuedChunks <= Buffers
  /\ BuffersConserved
  /\ rpc = "open" /\ "fillRx" \in held /\ cres # "panic" => pool > 0
  /\ rres = "err" => CallerHolds + QueuedChunks <= 1

\* Every byte read before a failed open or read has reached the callback.
Prefix ==
  cres = "err" /\ "callback" \notin faults => rres = "err" /\ Reaches(last, file, off)

IInv == TypeOK /\ Line /\ Control /\ AtEnd /\ Blame /\ Count /\ Prefix
=============================================================================
