---------------------------- MODULE CorpusProofs ----------------------------
(***************************************************************************)
(* Proofs about the training corpus: for_each_read_chunk_with_mode delivers *)
(* it, for every corpus, every buffer length, every order of the two        *)
(* threads' steps and every failure; mse_mean_streaming scores every byte   *)
(* delivered once and in order, whatever the files, the record shape, the   *)
(* chunks and the cap; what it returns is of the whole directory; and       *)
(* TrainingDataIterator yields the same records.                            *)
(***************************************************************************)
EXTENDS TrainingBinStream, Records, Iteration, SequenceTheorems, TLAPS

-----------------------------------------------------------------------------
(* Facts about chunks. *)

\* The pseudo-chunks are well formed and told apart from every chunk that carries bytes.
LEMMA ChunkFacts ==
  /\ NoChunk \in Chunk /\ CorpusDone \in Chunk /\ CorpusStart \in Chunk
  /\ CorpusDone # NoChunk
  /\ NoChunk.n = 0 /\ CorpusDone.n = 0
  /\ \A c \in Chunk : c.file \in 0 .. NFiles /\ c.off \in Nat /\ c.n \in Nat
BY CorpusAssumption DEF Chunk, NoChunk, CorpusDone, CorpusStart

\* Reading on from where a chunk reaches gives the next chunk.
LEMMA ReadNext ==
  ASSUME NEW c \in Chunk, NEW f \in 0 .. NFiles, NEW o \in Nat, NEW n \in Nat,
         n > 0, o + n <= LenOf(f), Reaches(c, f, o)
  PROVE  LET d == [file |-> f, off |-> o, n |-> n]
         IN  d \in Chunk /\ Follows(c, d) /\ Reaches(d, f, o + n)
BY CorpusAssumption DEF Chunk, Follows, Reaches

\* Opening the next file keeps the reach.
LEMMA OpenNext ==
  ASSUME NEW c \in Chunk, NEW f \in 0 .. NFiles, f < NFiles, Reaches(c, f, LenOf(f))
  PROVE  Reaches(c, f + 1, 0)
BY CorpusAssumption DEF Chunk, Reaches, EndsFile, EmptyBetween, LenOf

\* Reaching the end of the last file is the end of the corpus.
LEMMA EndReached ==
  ASSUME NEW c \in Chunk, Reaches(c, NFiles, LenOf(NFiles))
  PROVE  EndsCorpus(c)
BY CorpusAssumption DEF Chunk, Reaches, EndsFile, EmptyBetween, EndsCorpus, LenOf

\* Nothing lies before the start of the corpus.
LEMMA StartReached == Reaches(CorpusStart, 0, 0) /\ LenOf(0) = 0
BY DEF Reaches, CorpusStart, LenOf

\* A chunk that follows another carries bytes.
LEMMA FollowsNonEmpty ==
  ASSUME NEW c, NEW d, Follows(c, d)
  PROVE  d.n > 0 /\ d # NoChunk /\ d # CorpusDone
BY DEF Follows, NoChunk, CorpusDone, CorpusStart
-----------------------------------------------------------------------------
\* The initial states satisfy the inductive invariant.
LEMMA InitIInv == Init => IInv
<1> SUFFICES ASSUME Init PROVE IInv
  OBVIOUS
<1> USE ChunkFacts, StartReached DEF Init
<1>1. TypeOK
  BY CorpusAssumption DEF TypeOK, ReaderPCs, ConsumerPCs, PoolCapacity
<1>2. Line
  BY DEF Line, CallerTip, SlotTip, ReaderTip, InCall
<1>3. Control
  BY DEF Control
<1>4. AtEnd
  BY DEF AtEnd
<1>5. Blame
  BY DEF Blame
<1>6. Count /\ Prefix
  BY DEF Count, Prefix, BuffersConserved
<1>7. QED
  BY <1>1, <1>2, <1>3, <1>4, <1>5, <1>6 DEF IInv

\* Every step keeps the types.
LEMMA TypeStep == IInv /\ Next => TypeOK'
<1> SUFFICES ASSUME IInv, Next PROVE TypeOK'
  OBVIOUS
<1> USE CorpusAssumption, ChunkFacts DEF IInv, TypeOK, ReaderPCs, ConsumerPCs, PoolCapacity,
    Buffers,
        reader, consumer, delivery
<1>1. CASE ROpen
  BY <1>1 DEF ROpen
<1>2. CASE ROpenFails
  BY <1>2 DEF ROpenFails, ReaderReturns
<1>3. CASE RTake
  BY <1>3 DEF RTake
<1>4. CASE RRead
  <2>1. PICK n \in 1 .. bufLen : /\ off + n <= LenOf(file)
                                 /\ rbuf' = [file |-> file, off |-> off, n |-> n]
                                 /\ off' = off + n
    BY <1>4 DEF RRead
  <2>2. rbuf' \in Chunk /\ off' \in Nat
    BY <2>1, CallerAssumption DEF Chunk
  <2>3. QED
    BY <2>2, <1>4 DEF RRead
<1>5. CASE REof
  BY <1>5 DEF REof
<1>6. CASE RReadFails
  BY <1>6 DEF RReadFails, ReaderReturns
<1>7. CASE RForward
  BY <1>7 DEF RForward
<1>8. CASE RForwardFails
  BY <1>8 DEF RForwardFails, ReaderReturns
<1>9. CASE RAllDrained
  BY <1>9 DEF RAllDrained
<1>10. CASE RSendDone
  BY <1>10 DEF RSendDone
<1>11. CASE RPark
  BY <1>11 DEF RPark, ReaderReturns
<1>12. CASE RDropPoolRx
  BY <1>12 DEF RDropPoolRx
<1>13. CASE RDropFillTx
  BY <1>13 DEF RDropFillTx
<1>14. CASE RGone
  BY <1>14 DEF RGone
<1>15. CASE Refuse
  BY <1>15 DEF Refuse
<1>16. CASE StartPipelined
  BY <1>16 DEF StartPipelined
<1>17. CASE StartSequential
  BY <1>17 DEF StartSequential
<1>18. CASE CRecv
  BY <1>18 DEF CRecv
<1>19. CASE CRecvDone
  BY <1>19 DEF CRecvDone, LoopReturns
<1>20. CASE CDisconnected
  BY <1>20 DEF CDisconnected, LoopReturns
<1>21. CASE CCallOk
  BY <1>21 DEF CCallOk
<1>22. CASE CCallFails
  BY <1>22 DEF CCallFails
<1>23. CASE CCallPanics
  BY <1>23 DEF CCallPanics, LoopReturns
<1>24. CASE CReturn
  BY <1>24 DEF CReturn
<1>25. CASE CReturnFails
  BY <1>25 DEF CReturnFails, LoopReturns
<1>26. CASE CGiveBack
  BY <1>26 DEF CGiveBack, LoopReturns
<1>27. CASE CRelease
  BY <1>27 DEF CRelease
<1>28. CASE CDrop
  BY <1>28 DEF CDrop
<1>29. CASE CJoin
  <2>1. cres \in {"ok", "err"}
    BY <1>29 DEF CJoin, Control, CallerEnding
  <2>2. QED
    BY <2>1, <1>29 DEF CJoin
<1>30. CASE SOpen
  BY <1>30 DEF SOpen, SeqUnchanged
<1>31. CASE SRead
  <2>1. PICK n \in 1 .. bufLen : /\ off + n <= LenOf(file)
                                 /\ cbuf' = [file |-> file, off |-> off, n |-> n]
                                 /\ off' = off + n
    BY <1>31 DEF SRead
  <2>2. cbuf' \in Chunk /\ off' \in Nat
    BY <2>1, CallerAssumption DEF Chunk
  <2>3. QED
    BY <2>2, <1>31 DEF SRead, SeqUnchanged
<1>32. CASE SEof
  BY <1>32 DEF SEof, SeqUnchanged
<1>33. CASE SIoFails
  BY <1>33 DEF SIoFails, SeqUnchanged
<1>34. CASE SCall
  BY <1>34 DEF SCall, SeqUnchanged
<1>35. CASE SCallFails
  BY <1>35 DEF SCallFails, SeqUnchanged
<1>36. CASE SReturn
  BY <1>36 DEF SReturn, SeqUnchanged
<1>37. CASE Finished
  BY <1>37 DEF Finished, vars
<1>38. QED
  BY <1>1, <1>2, <1>3, <1>4, <1>5, <1>6, <1>7, <1>8, <1>9, <1>10, <1>11, <1>12, <1>13, <1>14,
     <1>15, <1>16, <1>17, <1>18, <1>19, <1>20, <1>21, <1>22, <1>23, <1>24, <1>25, <1>26, <1>27,
     <1>28, <1>29, <1>30, <1>31, <1>32, <1>33, <1>34, <1>35, <1>36, <1>37 DEF Next, ReaderStep,
     CallerStep, ConsumerStep, SequentialStep

\* Every step keeps the two threads' positions, channel ends and results consistent.
LEMMA ControlStep == IInv /\ Next => Control'
<1> SUFFICES ASSUME IInv, Next PROVE Control'
  OBVIOUS
<1> USE ChunkFacts, FollowsNonEmpty DEF IInv, TypeOK, Control, Line, Linked, SlotTip, CallerTip,
    ReaderDead, CallerEnding, AtEnd, Blame,
        reader, consumer, delivery
<1>1. CASE ROpen
  BY <1>1 DEF ROpen
<1>2. CASE ROpenFails
  BY <1>2 DEF ROpenFails, ReaderReturns
<1>3. CASE RTake
  BY <1>3 DEF RTake
<1>4. CASE RRead
  BY <1>4 DEF RRead
<1>5. CASE REof
  BY <1>5 DEF REof
<1>6. CASE RReadFails
  BY <1>6 DEF RReadFails, ReaderReturns
<1>7. CASE RForward
  BY <1>7 DEF RForward
<1>8. CASE RForwardFails
  BY <1>8 DEF RForwardFails, ReaderReturns
<1>9. CASE RAllDrained
  BY <1>9 DEF RAllDrained
<1>10. CASE RSendDone
  BY <1>10 DEF RSendDone
<1>11. CASE RPark
  BY <1>11 DEF RPark, ReaderReturns
<1>12. CASE RDropPoolRx
  BY <1>12 DEF RDropPoolRx
<1>13. CASE RDropFillTx
  BY <1>13 DEF RDropFillTx
<1>14. CASE RGone
  BY <1>14 DEF RGone
<1>15. CASE Refuse
  BY <1>15 DEF Refuse
<1>16. CASE StartPipelined
  BY <1>16 DEF StartPipelined
<1>17. CASE StartSequential
  BY <1>17 DEF StartSequential
<1>18. CASE CRecv
  BY <1>18 DEF CRecv
<1>19. CASE CRecvDone
  BY <1>19 DEF CRecvDone, LoopReturns
<1>20. CASE CDisconnected
  BY <1>20 DEF CDisconnected, LoopReturns
<1>21. CASE CCallOk
  BY <1>21 DEF CCallOk
<1>22. CASE CCallFails
  BY <1>22 DEF CCallFails
<1>23. CASE CCallPanics
  BY <1>23 DEF CCallPanics, LoopReturns
<1>24. CASE CReturn
  BY <1>24 DEF CReturn
<1>25. CASE CReturnFails
  BY <1>25 DEF CReturnFails, LoopReturns
<1>26. CASE CGiveBack
  BY <1>26 DEF CGiveBack, LoopReturns
<1>27. CASE CRelease
  BY <1>27 DEF CRelease
<1>28. CASE CDrop
  BY <1>28 DEF CDrop
<1>29. CASE CJoin
  <2>1. cres \in {"ok", "err"} /\ outcome' \in {"ok", "err"}
    BY <1>29 DEF CJoin
  <2>2. QED
    BY <2>1, <1>29 DEF CJoin
<1>30. CASE SOpen
  BY <1>30 DEF SOpen, SeqUnchanged
<1>31. CASE SRead
  BY <1>31 DEF SRead, SeqUnchanged
<1>32. CASE SEof
  BY <1>32 DEF SEof, SeqUnchanged
<1>33. CASE SIoFails
  BY <1>33 DEF SIoFails, SeqUnchanged
<1>34. CASE SCall
  BY <1>34 DEF SCall, SeqUnchanged
<1>35. CASE SCallFails
  BY <1>35 DEF SCallFails, SeqUnchanged
<1>36. CASE SReturn
  BY <1>36 DEF SReturn, SeqUnchanged
<1>37. CASE Finished
  BY <1>37 DEF Finished, vars
<1>38. QED
  BY <1>1, <1>2, <1>3, <1>4, <1>5, <1>6, <1>7, <1>8, <1>9, <1>10, <1>11, <1>12, <1>13, <1>14,
     <1>15, <1>16, <1>17, <1>18, <1>19, <1>20, <1>21, <1>22, <1>23, <1>24, <1>25, <1>26, <1>27,
     <1>28, <1>29, <1>30, <1>31, <1>32, <1>33, <1>34, <1>35, <1>36, <1>37 DEF Next, ReaderStep,
     CallerStep, ConsumerStep, SequentialStep

\* The bytes under way stay in line: a read continues the line at its end (ReadNext),
\* opening the next file keeps its reach (OpenNext), every other step moves one chunk along it.
LEMMA LineStep == IInv /\ Next => Line'
<1> SUFFICES ASSUME IInv, Next PROVE Line'
  OBVIOUS
<1> USE ChunkFacts, FollowsNonEmpty DEF IInv, TypeOK, Control, Line, Linked, InCall, ReaderTip,
    SlotTip, CallerTip, ReaderDead, CallerEnding, AtEnd,
        reader, consumer, delivery
<1>1. CASE ROpen
  <2>1. ReaderTip \in Chunk /\ (Linked => Reaches(ReaderTip, file, LenOf(file)))
    BY <1>1 DEF ROpen
  <2>2. Linked => Reaches(ReaderTip, file + 1, 0)
    BY <2>1, <1>1, OpenNext DEF ROpen
  <2>3. ReaderTip' = ReaderTip
    BY <1>1 DEF ROpen
  <2>4. QED
    BY <2>2, <2>3, <1>1 DEF ROpen
<1>2. CASE ROpenFails
  BY <1>2 DEF ROpenFails, ReaderReturns
<1>3. CASE RTake
  BY <1>3 DEF RTake
<1>4. CASE RRead
  <2>1. PICK n \in 1 .. bufLen : /\ off + n <= LenOf(file)
                                 /\ rbuf' = [file |-> file, off |-> off, n |-> n]
                                 /\ off' = off + n
    BY <1>4 DEF RRead
  <2>2. n \in Nat /\ n > 0
    BY CallerAssumption
  <2>3. SlotTip \in Chunk /\ (Linked => Reaches(SlotTip, file, off))
    BY <1>4 DEF RRead
  <2>4. Linked => Follows(SlotTip, rbuf') /\ Reaches(rbuf', file, off')
    BY <2>1, <2>2, <2>3, ReadNext
  <2>5. QED
    BY <2>3, <2>4, <1>4 DEF RRead
<1>5. CASE REof
  BY <1>5 DEF REof
<1>6. CASE RReadFails
  BY <1>6 DEF RReadFails, ReaderReturns
<1>7. CASE RForward
  BY <1>7 DEF RForward
<1>8. CASE RForwardFails
  BY <1>8 DEF RForwardFails, ReaderReturns
<1>9. CASE RAllDrained
  BY <1>9 DEF RAllDrained
<1>10. CASE RSendDone
  BY <1>10 DEF RSendDone
<1>11. CASE RPark
  BY <1>11 DEF RPark, ReaderReturns
<1>12. CASE RDropPoolRx
  BY <1>12 DEF RDropPoolRx
<1>13. CASE RDropFillTx
  BY <1>13 DEF RDropFillTx
<1>14. CASE RGone
  BY <1>14 DEF RGone
<1>15. CASE Refuse
  BY <1>15 DEF Refuse
<1>16. CASE StartPipelined
  BY <1>16 DEF StartPipelined
<1>17. CASE StartSequential
  BY <1>17 DEF StartSequential
<1>18. CASE CRecv
  BY <1>18 DEF CRecv
<1>19. CASE CRecvDone
  BY <1>19 DEF CRecvDone, LoopReturns
<1>20. CASE CDisconnected
  BY <1>20 DEF CDisconnected, LoopReturns
<1>21. CASE CCallOk
  BY <1>21 DEF CCallOk
<1>22. CASE CCallFails
  BY <1>22 DEF CCallFails
<1>23. CASE CCallPanics
  BY <1>23 DEF CCallPanics, LoopReturns
<1>24. CASE CReturn
  BY <1>24 DEF CReturn
<1>25. CASE CReturnFails
  BY <1>25 DEF CReturnFails, LoopReturns
<1>26. CASE CGiveBack
  BY <1>26 DEF CGiveBack, LoopReturns
<1>27. CASE CRelease
  BY <1>27 DEF CRelease
<1>28. CASE CDrop
  BY <1>28 DEF CDrop
<1>29. CASE CJoin
  BY <1>29 DEF CJoin
<1>30. CASE SOpen
  <2>1. ReaderTip \in Chunk /\ (Linked => Reaches(ReaderTip, file, LenOf(file)))
    BY <1>30 DEF SOpen
  <2>2. Linked => Reaches(ReaderTip, file + 1, 0)
    BY <2>1, <1>30, OpenNext DEF SOpen
  <2>3. ReaderTip' = ReaderTip
    BY <1>30 DEF SOpen, SeqUnchanged
  <2>4. QED
    BY <2>2, <2>3, <1>30 DEF SOpen, SeqUnchanged
<1>31. CASE SRead
  <2>1. PICK n \in 1 .. bufLen : /\ off + n <= LenOf(file)
                                 /\ cbuf' = [file |-> file, off |-> off, n |-> n]
                                 /\ off' = off + n
    BY <1>31 DEF SRead
  <2>2. n \in Nat /\ n > 0
    BY CallerAssumption
  <2>3. last \in Chunk /\ (Linked => Reaches(last, file, off))
    BY <1>31 DEF SRead
  <2>4. Linked => Follows(last, cbuf') /\ Reaches(cbuf', file, off')
    BY <2>1, <2>2, <2>3, ReadNext
  <2>5. QED
    BY <2>3, <2>4, <1>31 DEF SRead, SeqUnchanged
<1>32. CASE SEof
  BY <1>32 DEF SEof, SeqUnchanged
<1>33. CASE SIoFails
  BY <1>33 DEF SIoFails, SeqUnchanged
<1>34. CASE SCall
  BY <1>34 DEF SCall, SeqUnchanged
<1>35. CASE SCallFails
  BY <1>35 DEF SCallFails, SeqUnchanged
<1>36. CASE SReturn
  BY <1>36 DEF SReturn, SeqUnchanged
<1>37. CASE Finished
  BY <1>37 DEF Finished, vars
<1>38. QED
  BY <1>1, <1>2, <1>3, <1>4, <1>5, <1>6, <1>7, <1>8, <1>9, <1>10, <1>11, <1>12, <1>13, <1>14,
     <1>15, <1>16, <1>17, <1>18, <1>19, <1>20, <1>21, <1>22, <1>23, <1>24, <1>25, <1>26, <1>27,
     <1>28, <1>29, <1>30, <1>31, <1>32, <1>33, <1>34, <1>35, <1>36, <1>37 DEF Next, ReaderStep,
     CallerStep, ConsumerStep, SequentialStep

\* The end of the corpus is announced only when everything has been read, and by the
\* time the caller takes the announcement everything has been delivered (EndReached).
LEMMA AtEndStep == IInv /\ Next => AtEnd'
<1> SUFFICES ASSUME IInv, Next PROVE AtEnd'
  OBVIOUS
<1> USE ChunkFacts, FollowsNonEmpty DEF IInv, TypeOK, Control, Line, Linked, InCall, ReaderTip,
    SlotTip, CallerTip, ReaderDead, CallerEnding, AtEnd,
        reader, consumer, delivery
<1>1. CASE ROpen
  BY <1>1 DEF ROpen
<1>2. CASE ROpenFails
  BY <1>2 DEF ROpenFails, ReaderReturns
<1>3. CASE RTake
  BY <1>3 DEF RTake
<1>4. CASE RRead
  BY <1>4 DEF RRead
<1>5. CASE REof
  BY <1>5 DEF REof
<1>6. CASE RReadFails
  BY <1>6 DEF RReadFails, ReaderReturns
<1>7. CASE RForward
  BY <1>7 DEF RForward
<1>8. CASE RForwardFails
  BY <1>8 DEF RForwardFails, ReaderReturns
<1>9. CASE RAllDrained
  BY <1>9 DEF RAllDrained
<1>10. CASE RSendDone
  BY <1>10 DEF RSendDone
<1>11. CASE RPark
  BY <1>11 DEF RPark, ReaderReturns
<1>12. CASE RDropPoolRx
  BY <1>12 DEF RDropPoolRx
<1>13. CASE RDropFillTx
  BY <1>13 DEF RDropFillTx
<1>14. CASE RGone
  BY <1>14 DEF RGone
<1>15. CASE Refuse
  BY <1>15 DEF Refuse
<1>16. CASE StartPipelined
  BY <1>16, StartReached DEF StartPipelined
<1>17. CASE StartSequential
  BY <1>17, StartReached DEF StartSequential
<1>18. CASE CRecv
  BY <1>18 DEF CRecv
<1>19. CASE CRecvDone
  <2>1. Reaches(last, NFiles, LenOf(NFiles))
    BY <1>19 DEF CRecvDone
  <2>2. EndsCorpus(last)
    BY <2>1, EndReached
  <2>3. QED
    BY <2>2, <1>19 DEF CRecvDone, LoopReturns
<1>20. CASE CDisconnected
  BY <1>20 DEF CDisconnected, LoopReturns
<1>21. CASE CCallOk
  BY <1>21 DEF CCallOk
<1>22. CASE CCallFails
  BY <1>22 DEF CCallFails
<1>23. CASE CCallPanics
  BY <1>23 DEF CCallPanics, LoopReturns
<1>24. CASE CReturn
  BY <1>24 DEF CReturn
<1>25. CASE CReturnFails
  BY <1>25 DEF CReturnFails, LoopReturns
<1>26. CASE CGiveBack
  BY <1>26 DEF CGiveBack, LoopReturns
<1>27. CASE CRelease
  BY <1>27 DEF CRelease
<1>28. CASE CDrop
  BY <1>28 DEF CDrop
<1>29. CASE CJoin
  BY <1>29 DEF CJoin
<1>30. CASE SOpen
  BY <1>30 DEF SOpen, SeqUnchanged
<1>31. CASE SRead
  BY <1>31 DEF SRead, SeqUnchanged
<1>32. CASE SEof
  BY <1>32 DEF SEof, SeqUnchanged
<1>33. CASE SIoFails
  BY <1>33 DEF SIoFails, SeqUnchanged
<1>34. CASE SCall
  BY <1>34 DEF SCall, SeqUnchanged
<1>35. CASE SCallFails
  BY <1>35 DEF SCallFails, SeqUnchanged
<1>36. CASE SReturn
  <2>1. Reaches(last, NFiles, LenOf(NFiles))
    BY <1>36 DEF SReturn
  <2>2. EndsCorpus(last)
    BY <2>1, EndReached
  <2>3. QED
    BY <2>2, <1>36 DEF SReturn, SeqUnchanged
<1>37. CASE Finished
  BY <1>37 DEF Finished, vars
<1>38. QED
  BY <1>1, <1>2, <1>3, <1>4, <1>5, <1>6, <1>7, <1>8, <1>9, <1>10, <1>11, <1>12, <1>13, <1>14,
     <1>15, <1>16, <1>17, <1>18, <1>19, <1>20, <1>21, <1>22, <1>23, <1>24, <1>25, <1>26, <1>27,
     <1>28, <1>29, <1>30, <1>31, <1>32, <1>33, <1>34, <1>35, <1>36, <1>37 DEF Next, ReaderStep,
     CallerStep, ConsumerStep, SequentialStep

\* Results and failures agree: nobody reports a failure that did not happen.
LEMMA BlameStep == IInv /\ Next => Blame'
<1> SUFFICES ASSUME IInv, Next PROVE Blame'
  OBVIOUS
<1> USE DEF IInv, TypeOK, Control, Blame, ReaderDead, CallerEnding, AtEnd,
        reader, consumer, delivery
<1>1. CASE ROpen
  BY <1>1 DEF ROpen
<1>2. CASE ROpenFails
  BY <1>2 DEF ROpenFails, ReaderReturns
<1>3. CASE RTake
  BY <1>3 DEF RTake
<1>4. CASE RRead
  BY <1>4 DEF RRead
<1>5. CASE REof
  BY <1>5 DEF REof
<1>6. CASE RReadFails
  BY <1>6 DEF RReadFails, ReaderReturns
<1>7. CASE RForward
  BY <1>7 DEF RForward
<1>8. CASE RForwardFails
  BY <1>8 DEF RForwardFails, ReaderReturns
<1>9. CASE RAllDrained
  BY <1>9 DEF RAllDrained
<1>10. CASE RSendDone
  BY <1>10 DEF RSendDone
<1>11. CASE RPark
  BY <1>11 DEF RPark, ReaderReturns
<1>12. CASE RDropPoolRx
  BY <1>12 DEF RDropPoolRx
<1>13. CASE RDropFillTx
  BY <1>13 DEF RDropFillTx
<1>14. CASE RGone
  BY <1>14 DEF RGone
<1>15. CASE Refuse
  BY <1>15 DEF Refuse
<1>16. CASE StartPipelined
  BY <1>16 DEF StartPipelined
<1>17. CASE StartSequential
  BY <1>17 DEF StartSequential
<1>18. CASE CRecv
  BY <1>18 DEF CRecv
<1>19. CASE CRecvDone
  BY <1>19 DEF CRecvDone, LoopReturns
<1>20. CASE CDisconnected
  BY <1>20 DEF CDisconnected, LoopReturns
<1>21. CASE CCallOk
  BY <1>21 DEF CCallOk
<1>22. CASE CCallFails
  BY <1>22 DEF CCallFails
<1>23. CASE CCallPanics
  BY <1>23 DEF CCallPanics, LoopReturns
<1>24. CASE CReturn
  BY <1>24 DEF CReturn
<1>25. CASE CReturnFails
  BY <1>25 DEF CReturnFails, LoopReturns
<1>26. CASE CGiveBack
  BY <1>26 DEF CGiveBack, LoopReturns
<1>27. CASE CRelease
  BY <1>27 DEF CRelease
<1>28. CASE CDrop
  BY <1>28 DEF CDrop
<1>29. CASE CJoin
  BY <1>29 DEF CJoin
<1>30. CASE SOpen
  BY <1>30 DEF SOpen, SeqUnchanged
<1>31. CASE SRead
  BY <1>31 DEF SRead, SeqUnchanged
<1>32. CASE SEof
  BY <1>32 DEF SEof, SeqUnchanged
<1>33. CASE SIoFails
  BY <1>33 DEF SIoFails, SeqUnchanged
<1>34. CASE SCall
  BY <1>34 DEF SCall, SeqUnchanged
<1>35. CASE SCallFails
  BY <1>35 DEF SCallFails, SeqUnchanged
<1>36. CASE SReturn
  BY <1>36 DEF SReturn, SeqUnchanged
<1>37. CASE Finished
  BY <1>37 DEF Finished, vars
<1>38. QED
  BY <1>1, <1>2, <1>3, <1>4, <1>5, <1>6, <1>7, <1>8, <1>9, <1>10, <1>11, <1>12, <1>13, <1>14,
     <1>15, <1>16, <1>17, <1>18, <1>19, <1>20, <1>21, <1>22, <1>23, <1>24, <1>25, <1>26, <1>27,
     <1>28, <1>29, <1>30, <1>31, <1>32, <1>33, <1>34, <1>35, <1>36, <1>37 DEF Next, ReaderStep,
     CallerStep, ConsumerStep, SequentialStep

\* Buffers move between pool, reader, slot and caller; none is made and none is lost.
LEMMA CountStep == IInv /\ Next => Count'
<1> SUFFICES ASSUME IInv, Next PROVE Count'
  OBVIOUS
<1> USE ChunkFacts, FollowsNonEmpty DEF IInv, TypeOK, Control, Count, BuffersConserved,
    ReaderHolds, CallerHolds, QueuedChunks, Buffers, PoolCapacity, Line, Linked, ReaderDead,
    CallerEnding, Blame,
        reader, consumer, delivery
<1>1. CASE ROpen
  BY <1>1 DEF ROpen
<1>2. CASE ROpenFails
  BY <1>2 DEF ROpenFails, ReaderReturns
<1>3. CASE RTake
  BY <1>3 DEF RTake
<1>4. CASE RRead
  BY <1>4 DEF RRead
<1>5. CASE REof
  BY <1>5 DEF REof
<1>6. CASE RReadFails
  BY <1>6 DEF RReadFails, ReaderReturns
<1>7. CASE RForward
  BY <1>7 DEF RForward
<1>8. CASE RForwardFails
  BY <1>8 DEF RForwardFails, ReaderReturns
<1>9. CASE RAllDrained
  BY <1>9 DEF RAllDrained
<1>10. CASE RSendDone
  BY <1>10 DEF RSendDone
<1>11. CASE RPark
  BY <1>11 DEF RPark, ReaderReturns
<1>12. CASE RDropPoolRx
  BY <1>12 DEF RDropPoolRx
<1>13. CASE RDropFillTx
  BY <1>13 DEF RDropFillTx
<1>14. CASE RGone
  BY <1>14 DEF RGone
<1>15. CASE Refuse
  BY <1>15 DEF Refuse
<1>16. CASE StartPipelined
  BY <1>16 DEF StartPipelined
<1>17. CASE StartSequential
  BY <1>17 DEF StartSequential
<1>18. CASE CRecv
  BY <1>18 DEF CRecv
<1>19. CASE CRecvDone
  BY <1>19 DEF CRecvDone, LoopReturns
<1>20. CASE CDisconnected
  BY <1>20 DEF CDisconnected, LoopReturns
<1>21. CASE CCallOk
  BY <1>21 DEF CCallOk
<1>22. CASE CCallFails
  BY <1>22 DEF CCallFails
<1>23. CASE CCallPanics
  BY <1>23 DEF CCallPanics, LoopReturns
<1>24. CASE CReturn
  BY <1>24 DEF CReturn
<1>25. CASE CReturnFails
  BY <1>25 DEF CReturnFails, LoopReturns
<1>26. CASE CGiveBack
  BY <1>26 DEF CGiveBack, LoopReturns
<1>27. CASE CRelease
  BY <1>27 DEF CRelease
<1>28. CASE CDrop
  BY <1>28 DEF CDrop
<1>29. CASE CJoin
  BY <1>29 DEF CJoin
<1>30. CASE SOpen
  BY <1>30 DEF SOpen, SeqUnchanged
<1>31. CASE SRead
  BY <1>31 DEF SRead, SeqUnchanged
<1>32. CASE SEof
  BY <1>32 DEF SEof, SeqUnchanged
<1>33. CASE SIoFails
  BY <1>33 DEF SIoFails, SeqUnchanged
<1>34. CASE SCall
  BY <1>34 DEF SCall, SeqUnchanged
<1>35. CASE SCallFails
  BY <1>35 DEF SCallFails, SeqUnchanged
<1>36. CASE SReturn
  BY <1>36 DEF SReturn, SeqUnchanged
<1>37. CASE Finished
  BY <1>37 DEF Finished, vars
<1>38. QED
  BY <1>1, <1>2, <1>3, <1>4, <1>5, <1>6, <1>7, <1>8, <1>9, <1>10, <1>11, <1>12, <1>13, <1>14,
     <1>15, <1>16, <1>17, <1>18, <1>19, <1>20, <1>21, <1>22, <1>23, <1>24, <1>25, <1>26, <1>27,
     <1>28, <1>29, <1>30, <1>31, <1>32, <1>33, <1>34, <1>35, <1>36, <1>37 DEF Next, ReaderStep,
     CallerStep, ConsumerStep, SequentialStep

\* A caller that stops because the reader failed has delivered all that was read.
LEMMA PrefixStep == IInv /\ Next => Prefix'
<1> SUFFICES ASSUME IInv, Next PROVE Prefix'
  OBVIOUS
<1> USE ChunkFacts, FollowsNonEmpty DEF IInv, TypeOK, Control, Line, Linked, InCall, ReaderTip,
    SlotTip, CallerTip, Count, CallerHolds, QueuedChunks, Prefix, ReaderDead, CallerEnding, Blame,
        reader, consumer, delivery
<1>1. CASE ROpen
  BY <1>1 DEF ROpen
<1>2. CASE ROpenFails
  BY <1>2 DEF ROpenFails, ReaderReturns
<1>3. CASE RTake
  BY <1>3 DEF RTake
<1>4. CASE RRead
  BY <1>4 DEF RRead
<1>5. CASE REof
  BY <1>5 DEF REof
<1>6. CASE RReadFails
  BY <1>6 DEF RReadFails, ReaderReturns
<1>7. CASE RForward
  BY <1>7 DEF RForward
<1>8. CASE RForwardFails
  BY <1>8 DEF RForwardFails, ReaderReturns
<1>9. CASE RAllDrained
  BY <1>9 DEF RAllDrained
<1>10. CASE RSendDone
  BY <1>10 DEF RSendDone
<1>11. CASE RPark
  BY <1>11 DEF RPark, ReaderReturns
<1>12. CASE RDropPoolRx
  BY <1>12 DEF RDropPoolRx
<1>13. CASE RDropFillTx
  BY <1>13 DEF RDropFillTx
<1>14. CASE RGone
  BY <1>14 DEF RGone
<1>15. CASE Refuse
  BY <1>15 DEF Refuse
<1>16. CASE StartPipelined
  BY <1>16 DEF StartPipelined
<1>17. CASE StartSequential
  BY <1>17 DEF StartSequential
<1>18. CASE CRecv
  BY <1>18 DEF CRecv
<1>19. CASE CRecvDone
  BY <1>19 DEF CRecvDone, LoopReturns
<1>20. CASE CDisconnected
  BY <1>20 DEF CDisconnected, LoopReturns
<1>21. CASE CCallOk
  BY <1>21 DEF CCallOk
<1>22. CASE CCallFails
  BY <1>22 DEF CCallFails
<1>23. CASE CCallPanics
  BY <1>23 DEF CCallPanics, LoopReturns
<1>24. CASE CReturn
  BY <1>24 DEF CReturn
<1>25. CASE CReturnFails
  BY <1>25 DEF CReturnFails, LoopReturns
<1>26. CASE CGiveBack
  BY <1>26 DEF CGiveBack, LoopReturns
<1>27. CASE CRelease
  BY <1>27 DEF CRelease
<1>28. CASE CDrop
  BY <1>28 DEF CDrop
<1>29. CASE CJoin
  BY <1>29 DEF CJoin
<1>30. CASE SOpen
  BY <1>30 DEF SOpen, SeqUnchanged
<1>31. CASE SRead
  BY <1>31 DEF SRead, SeqUnchanged
<1>32. CASE SEof
  BY <1>32 DEF SEof, SeqUnchanged
<1>33. CASE SIoFails
  BY <1>33 DEF SIoFails, SeqUnchanged
<1>34. CASE SCall
  BY <1>34 DEF SCall, SeqUnchanged
<1>35. CASE SCallFails
  BY <1>35 DEF SCallFails, SeqUnchanged
<1>36. CASE SReturn
  BY <1>36 DEF SReturn, SeqUnchanged
<1>37. CASE Finished
  BY <1>37 DEF Finished, vars
<1>38. QED
  BY <1>1, <1>2, <1>3, <1>4, <1>5, <1>6, <1>7, <1>8, <1>9, <1>10, <1>11, <1>12, <1>13, <1>14,
     <1>15, <1>16, <1>17, <1>18, <1>19, <1>20, <1>21, <1>22, <1>23, <1>24, <1>25, <1>26, <1>27,
     <1>28, <1>29, <1>30, <1>31, <1>32, <1>33, <1>34, <1>35, <1>36, <1>37 DEF Next, ReaderStep,
     CallerStep, ConsumerStep, SequentialStep

-----------------------------------------------------------------------------
\* The inductive invariant holds of every execution: Init establishes it and each step
\* keeps each of its parts.
THEOREM Invariance == Spec => []IInv
<1>1. Init => IInv
  BY InitIInv
<1>2. IInv /\ [Next]_vars => IInv'
  <2>1. IInv /\ UNCHANGED vars => IInv'
    BY DEF vars, IInv, TypeOK, Line, Linked, InCall, ReaderTip, SlotTip, CallerTip, Control,
           ReaderDead, CallerEnding, AtEnd, Blame, Count, BuffersConserved, ReaderHolds,
           CallerHolds, QueuedChunks, Prefix
  <2>2. QED
    BY <2>1, TypeStep, ControlStep, LineStep, AtEndStep, BlameStep, CountStep, PrefixStep DEF IInv
<1>3. QED
  BY <1>1, <1>2, PTL DEF Spec

\* Every variable keeps its type.
THEOREM TypeCorrect == Spec => []TypeOK
BY Invariance, PTL DEF IInv

\* No buffer is lost from or invented in the pool while both threads are at work (end of
\* file and failed callback give theirs back), so no send into the pool ever blocks.
THEOREM BufferConservation == Spec => []BuffersConserved
BY Invariance, PTL DEF IInv, Count

\* for_each_read_chunk_with_mode returns Ok only when every byte was delivered and nothing
\* failed, and an error only when something failed: the teardown race of issue #25 is closed.
THEOREM TruthfulOutcome == Spec => []OutcomeSound
<1>1. IInv => OutcomeSound
  BY DEF IInv, AtEnd, Blame, OutcomeSound
<1>2. QED
  BY <1>1, Invariance, PTL

\* When an open or a read fails, every byte read before it has reached the callback.
THEOREM PrefixBeforeFault == Spec => []FaultAfterPrefix
<1>1. IInv => FaultAfterPrefix
  <2> SUFFICES ASSUME IInv, outcome = "err", faults = {"io"}
               PROVE  Reaches(last, file, off)
    BY DEF FaultAfterPrefix
  <2> USE DEF IInv, TypeOK, Control, Blame
  <2>1. CASE mode = "pipelined"
    BY <2>1 DEF Prefix, ReaderDead, CallerEnding, AtEnd
  <2>2. CASE mode = "sequential"
    BY <2>2 DEF Line, Linked, ReaderTip, SlotTip, CallerTip, InCall, NoChunk, CorpusStart
  <2>3. QED
    BY <2>1, <2>2
<1>2. QED
  BY <1>1, Invariance, PTL

\* The definitions the contract takes from Corpus are the ones used here.
LEMMA SameCorpus ==
  /\ Delivery!Chunk = Chunk /\ Delivery!CorpusStart = CorpusStart
  /\ \A c, d : Delivery!Follows(c, d) <=> Follows(c, d)
  /\ \A c : Delivery!EndsCorpus(c) <=> EndsCorpus(c)
BY DEF Delivery!Chunk, Chunk, Delivery!CorpusStart, CorpusStart, Delivery!Follows, Follows,
       Delivery!EndsCorpus, EndsCorpus, Delivery!EndsFile, EndsFile, Delivery!EmptyBetween,
       EmptyBetween, Delivery!LenOf, LenOf

\* Every step of either mode is a step of the contract or leaves it alone.
LEMMA StepDelivers == IInv /\ Next => [Delivery!DNext]_(Delivery!dvars)
<1> SUFFICES ASSUME IInv, Next PROVE Delivery!DNext \/ UNCHANGED Delivery!dvars
  OBVIOUS
<1> USE SameCorpus DEF Delivery!DNext, Delivery!dvars, reader, consumer, delivery
<1>1. CASE RTake \/ RRead \/ REof \/ ROpen \/ RForward \/ RForwardFails
  BY <1>1 DEF RTake, RRead, REof, ROpen, RForward, RForwardFails, ReaderReturns
<1>2. CASE RAllDrained \/ RSendDone \/ RPark \/ RDropPoolRx \/ RDropFillTx \/ RGone
  BY <1>2 DEF RAllDrained, RSendDone, RPark, ReaderReturns, RDropPoolRx, RDropFillTx, RGone
<1>3. CASE StartPipelined \/ StartSequential \/ CRecv \/ CRecvDone \/ CDisconnected
  BY <1>3 DEF StartPipelined, StartSequential, CRecv, CRecvDone, LoopReturns, CDisconnected
<1>4. CASE CReturn \/ CReturnFails \/ CGiveBack \/ CRelease \/ Finished
  BY <1>4 DEF CReturn, CReturnFails, LoopReturns, CGiveBack, CRelease, Finished, vars
<1>5. CASE SOpen \/ SRead \/ SEof
  BY <1>5 DEF SOpen, SeqUnchanged, SRead, SEof
<1>6. CASE CCallOk
  <2>1. outcome = "running" /\ cbuf \in Chunk /\ Follows(last, cbuf)
    BY <1>6 DEF CCallOk, IInv, TypeOK, Control, Line, InCall, CallerEnding
  <2>2. QED
    BY <2>1, <1>6 DEF CCallOk, Delivery!Deliver
<1>7. CASE CCallFails
  <2>1. outcome = "running" /\ cbuf \in Chunk /\ Follows(last, cbuf)
    BY <1>7 DEF CCallFails, IInv, TypeOK, Control, Line, InCall, CallerEnding
  <2>2. QED
    BY <2>1, <1>7 DEF CCallFails, Delivery!Deliver
<1>8. CASE CCallPanics
  <2>1. outcome = "running" /\ cbuf \in Chunk /\ Follows(last, cbuf)
    BY <1>8 DEF CCallPanics, IInv, TypeOK, Control, Line, InCall, CallerEnding
  <2>2. QED
    BY <2>1, <1>8 DEF CCallPanics, LoopReturns, Delivery!Deliver
<1>9. CASE SCall
  <2>1. outcome = "running" /\ cbuf \in Chunk /\ Follows(last, cbuf)
    BY <1>9 DEF SCall, IInv, TypeOK, Control, Line, InCall, CallerEnding
  <2>2. QED
    BY <2>1, <1>9 DEF SCall, SeqUnchanged, Delivery!Deliver
<1>10. CASE SCallFails
  <2>1. outcome = "running" /\ cbuf \in Chunk /\ Follows(last, cbuf)
    BY <1>10 DEF SCallFails, IInv, TypeOK, Control, Line, InCall, CallerEnding
  <2>2. QED
    BY <2>1, <1>10 DEF SCallFails, SeqUnchanged, Delivery!Deliver
<1>11. CASE Refuse
  <2>1. outcome = "running"
    BY <1>11 DEF Refuse, IInv, TypeOK, Control
  <2>2. faults' # {} /\ outcome' = "err" /\ UNCHANGED last
    BY <1>11 DEF Refuse
  <2>3. QED
    BY <2>1, <2>2 DEF Delivery!Fail
<1>12. CASE ROpenFails
  <2>1. outcome = "running" \/ faults # {}
    BY <1>12 DEF ROpenFails, IInv, TypeOK, Control, Blame, CallerEnding
  <2>2. "io" \in faults' /\ UNCHANGED <<last, outcome>>
    BY <1>12 DEF ROpenFails, ReaderReturns
  <2>3. QED
    BY <2>1, <2>2 DEF Delivery!Fail
<1>13. CASE RReadFails
  <2>1. outcome = "running" \/ faults # {}
    BY <1>13 DEF RReadFails, IInv, TypeOK, Control, Blame, CallerEnding
  <2>2. "io" \in faults' /\ UNCHANGED <<last, outcome>>
    BY <1>13 DEF RReadFails, ReaderReturns
  <2>3. QED
    BY <2>1, <2>2 DEF Delivery!Fail
<1>14. CASE SIoFails
  <2>1. outcome = "running"
    BY <1>14 DEF SIoFails, IInv, TypeOK, Control
  <2>2. faults' # {} /\ outcome' = "err" /\ UNCHANGED last
    BY <1>14 DEF SIoFails, SeqUnchanged
  <2>3. QED
    BY <2>1, <2>2 DEF Delivery!Fail
<1>15. CASE CDrop
  <2>1. outcome = "running" /\ (cres = "panic" => faults # {})
    BY <1>15 DEF CDrop, IInv, TypeOK, Control, Blame, CallerEnding
  <2>2. QED
    BY <2>1, <1>15 DEF CDrop, Delivery!Fail
<1>16. CASE CJoin
  <2> USE <1>16 DEF CJoin, IInv, TypeOK, Control, Blame, AtEnd, CallerEnding, ReaderDead
  <2>1. outcome = "running" /\ cres \in {"ok", "err"} /\ rres \in {"ok", "err"}
    OBVIOUS
  <2>2. CASE rres = "ok" /\ cres = "ok"
    <3>1. EndsCorpus(last) /\ faults = {} /\ outcome' = "ok"
      BY <2>2
    <3>2. QED
      BY <2>1, <3>1 DEF Delivery!ReturnOk
  <2>3. CASE rres = "err" \/ cres = "err"
    <3>1. faults # {} /\ outcome' = "err"
      BY <2>1, <2>3
    <3>2. QED
      BY <2>1, <3>1 DEF Delivery!Fail
  <2>4. QED
    BY <2>1, <2>2, <2>3
<1>17. CASE SReturn
  <2>1. outcome = "running" /\ faults = {} /\ Reaches(last, NFiles, LenOf(NFiles)) /\ last \in Chunk
    BY <1>17 DEF SReturn, IInv, TypeOK, Control, Blame, AtEnd, Line, Linked, ReaderTip, SlotTip,
       CallerTip, InCall, NoChunk, CorpusStart
  <2>2. EndsCorpus(last)
    BY <2>1, EndReached
  <2>3. QED
    BY <2>1, <2>2, <1>17 DEF SReturn, SeqUnchanged, Delivery!ReturnOk
<1>18. QED
  BY <1>1, <1>2, <1>3, <1>4, <1>5, <1>6, <1>7, <1>8, <1>9, <1>10, <1>11, <1>12, <1>13, <1>14,
     <1>15, <1>16, <1>17 DEF Next, ReaderStep, CallerStep, ConsumerStep, SequentialStep

\* Both read modes implement the contract of module ChunkDelivery.
THEOREM Refinement == Spec => KeepsDelivery
<1>1. Init => Delivery!DInit
  BY SameCorpus DEF Init, Delivery!DInit
<1>2. IInv /\ [Next]_vars => [Delivery!DNext]_(Delivery!dvars)
  <2>1. UNCHANGED vars => UNCHANGED Delivery!dvars
    BY DEF vars, Delivery!dvars
  <2>2. QED
    BY <2>1, StepDelivers
<1>3. QED
  BY <1>1, <1>2, Invariance, PTL DEF Spec, KeepsDelivery, Delivery!DSpec

-----------------------------------------------------------------------------
(* Cutting sequences.                                                       *)

LEMMA Cut == ASSUME NEW S, NEW s \in Seq(S), NEW k \in 0 .. Len(s)
             PROVE  /\ SubSeq(s, 1, k) \in Seq(S) /\ Len(SubSeq(s, 1, k)) = k
                    /\ SubSeq(s, k + 1, Len(s)) \in Seq(S)
                    /\ Len(SubSeq(s, k + 1, Len(s))) = Len(s) - k
                    /\ SubSeq(s, 1, k) \o SubSeq(s, k + 1, Len(s)) = s
<1>1. Len(s) \in Nat BY LenProperties
<1>2. \A i \in 1 .. Len(s) : s[i] \in S BY ElementOfSeq
<1>3. SubSeq(s, 1, k) \in Seq(S) /\ Len(SubSeq(s, 1, k)) = k
  BY <1>1, <1>2, SubSeqProperties
<1>4. /\ SubSeq(s, k + 1, Len(s)) \in Seq(S)
      /\ Len(SubSeq(s, k + 1, Len(s))) = Len(s) - k
  <2>1. \A i \in k + 1 .. Len(s) : s[i] \in S BY <1>1, <1>2
  <2> QED BY <1>1, <2>1, SubSeqProperties
<1>5. SubSeq(s, 1, k) \o SubSeq(s, k + 1, Len(s)) = SubSeq(s, 1, Len(s))
  <2>1. 1 \in 1 .. Len(s) + 1 /\ k \in 1 - 1 .. Len(s) /\ Len(s) \in k .. Len(s) BY <1>1
  <2> QED BY <2>1, ConcatAdjacentSubSeq
<1>6. SubSeq(s, 1, Len(s)) = s BY SubSeqFull
<1> QED BY <1>3, <1>4, <1>5, <1>6

LEMMA FrontOf == ASSUME NEW S, NEW s \in Seq(S), NEW t \in Seq(S)
                PROVE  SubSeq(s \o t, 1, Len(s)) = s
<1>1. Len(s) \in Nat BY LenProperties
<1>2. CASE s = <<>> BY <1>2, SubSeqEmpty
<1>3. CASE s # <<>>
  <2>1. Len(s) \in 1 .. Len(s) /\ 1 \in 1 .. Len(s) BY <1>1, <1>3, EmptySeq
  <2> QED BY <2>1, SubSeqOfConcat1, SubSeqFull
<1> QED BY <1>2, <1>3

\* Named, so that the steps below instantiate them at the sequences they mean.
Assoc(s, t, u) == (s \o t) \o u = s \o (t \o u)
Joins(s, t) == s \o t \in Seq(Byte) /\ Len(s \o t) = Len(s) + Len(t)

LEMMA AssocAll == \A s, t, u \in Seq(Byte) : Assoc(s, t, u)
  BY ConcatAssociative DEF Assoc

LEMMA JoinsAll == \A s, t \in Seq(Byte) : Joins(s, t)
  BY ConcatProperties DEF Joins

\* Where the elements of s and t are in s \o t.
Keeps(s, t) ==
  /\ \A i \in 1 .. Len(s) : (s \o t)[i] = s[i]
  /\ \A j \in 1 .. Len(t) : (s \o t)[Len(s) + j] = t[j]

LEMMA KeepsAll == \A s, t \in Seq(Byte) : Keeps(s, t)
<1> TAKE s, t \in Seq(Byte)
<1>1. Len(s) \in Nat /\ Len(t) \in Nat BY LenProperties
<1>2. \A i \in 1 .. Len(s) + Len(t) :
        (s \o t)[i] = IF i <= Len(s) THEN s[i] ELSE t[i - Len(s)]
  BY ConcatProperties
<1>3. ASSUME NEW i \in 1 .. Len(s) PROVE (s \o t)[i] = s[i]
  <2>1. i \in 1 .. Len(s) + Len(t) /\ i <= Len(s) BY <1>1
  <2> QED BY <1>2, <2>1
<1>4. ASSUME NEW j \in 1 .. Len(t) PROVE (s \o t)[Len(s) + j] = t[j]
  <2>1. /\ Len(s) + j \in 1 .. Len(s) + Len(t) /\ ~(Len(s) + j <= Len(s))
        /\ (Len(s) + j) - Len(s) = j
    BY <1>1
  <2>2. (s \o t)[Len(s) + j] = t[(Len(s) + j) - Len(s)] BY <1>2, <2>1
  <2> QED BY <2>1, <2>2
<1> QED BY <1>3, <1>4 DEF Keeps

Regroups(p, b1, a1, r) ==
  /\ (p \o b1) \o a1 \in Seq(Byte)
  /\ Len((p \o b1) \o a1) = Len(p) + Len(b1) + Len(a1)
  /\ ((p \o b1) \o a1) \o r = p \o (b1 \o (a1 \o r))

LEMMA Regroup ==
  ASSUME NEW p \in Seq(Byte), NEW b1 \in Seq(Byte), NEW a1 \in Seq(Byte), NEW r \in Seq(Byte)
  PROVE  Regroups(p, b1, a1, r)
<1>1. Joins(p, b1) /\ Joins(a1, r) BY JoinsAll
<1>2. p \o b1 \in Seq(Byte) /\ a1 \o r \in Seq(Byte) BY <1>1, Zenon DEF Joins
<1>3. Joins(p \o b1, a1) BY <1>2, JoinsAll, Zenon
<1>4. Assoc(p \o b1, a1, r) /\ Assoc(p, b1, a1 \o r) BY <1>2, AssocAll, Zenon
<1> QED BY <1>1, <1>3, <1>4, Zenon DEF Joins, Assoc, Regroups

-----------------------------------------------------------------------------
(* One chunk.                                                               *)

LEMMA BytesOfChunk == ASSUME NEW c \in Chunk
                      PROVE  Bytes(c) \in Seq(Byte) /\ Len(Bytes(c)) = c.n
<1>1. c.n \in Nat /\ c.off \in Nat /\ c.file \in 0 .. NFiles BY DEF Chunk
<1>2. \A i \in 1 .. c.n : <<c.file, c.off + i - 1>> \in Byte BY <1>1 DEF Byte
<1>3. Bytes(c) \in [1 .. c.n -> Byte] BY <1>2 DEF Bytes
<1> QED BY <1>1, <1>3

\* What ScoreChunk carves out of a chunk: Packed(c) is a number of whole records,
\* Residue(c) is less than one, and together they are the pending bytes followed
\* by the chunk.
LEMMA Carving ==
  ASSUME NEW c \in Chunk, pending \in Seq(Byte), RecordBytes \in Nat, RecordBytes > 0,
         Len(pending) < RecordBytes,
         pending = <<>> \/ Len(pending) + c.n >= RecordBytes
  PROVE  /\ Packed(c) \in Seq(Byte) /\ Residue(c) \in Seq(Byte)
         /\ Found(c) \in Nat /\ Len(Packed(c)) = Found(c) * RecordBytes
         /\ Len(Residue(c)) < RecordBytes
         /\ Packed(c) \o Residue(c) = pending \o Bytes(c)
<1> DEFINE B == Bytes(c)
           A == AfterPending(c)
           B1 == SubSeq(B, 1, Missing)
           A1 == SubSeq(A, 1, WholeBytes(c))
           q == Len(A) \div RecordBytes
<1>1. B \in Seq(Byte) /\ Len(B) = c.n /\ c.n \in Nat BY BytesOfChunk DEF Chunk
<1>2. Len(pending) \in Nat /\ (pending = <<>> => Len(pending) = 0) BY LenProperties, EmptySeq
<1>3. /\ Missing \in 0 .. c.n
      /\ Len(pending) + Missing = IF pending = <<>> THEN 0 ELSE RecordBytes
  BY <1>1, <1>2 DEF Missing
<1>4. /\ B1 \in Seq(Byte) /\ Len(B1) = Missing
      /\ A \in Seq(Byte) /\ Len(A) = c.n - Missing
      /\ B1 \o A = B
  <2>1. Missing \in 0 .. Len(B) BY <1>1, <1>3
  <2>2. A = SubSeq(B, Missing + 1, Len(B)) BY <1>1 DEF AfterPending
  <2> HIDE DEF B
  <2> QED BY <1>1, <2>1, <2>2, Cut
<1>5. Len(A) \in Nat BY <1>3, <1>4
<1>6. /\ q \in Nat /\ WholeBytes(c) = q * RecordBytes
      /\ WholeBytes(c) \in 0 .. Len(A)
      /\ Len(A) - WholeBytes(c) < RecordBytes
  <2>1. q \in Nat /\ q * RecordBytes <= Len(A) /\ Len(A) - q * RecordBytes < RecordBytes
    <3> HIDE DEF A
    <3> QED BY <1>5, Division
  <2>2. q * RecordBytes \in Nat /\ 0 <= q * RecordBytes
    <3> HIDE DEF q
    <3> QED BY <2>1, Monotone
  <2>3. WholeBytes(c) = q * RecordBytes BY DEF WholeBytes
  <2> HIDE DEF q, A
  <2> QED BY <1>5, <2>1, <2>2, <2>3
<1>7. /\ A1 \in Seq(Byte) /\ Len(A1) = WholeBytes(c)
      /\ Residue(c) \in Seq(Byte) /\ Len(Residue(c)) = Len(A) - WholeBytes(c)
      /\ A1 \o Residue(c) = A
  <2>1. Residue(c) = SubSeq(A, WholeBytes(c) + 1, Len(A)) BY <1>4 DEF Residue
  <2>2. A \in Seq(Byte) /\ WholeBytes(c) \in 0 .. Len(A) BY <1>4, <1>6
  <2> HIDE DEF A, q
  <2> QED BY <2>1, <2>2, Cut
<1>8. Packed(c) = (pending \o B1) \o A1 BY DEF Packed
<1>9. /\ Packed(c) \in Seq(Byte)
      /\ Len(Packed(c)) = Len(pending) + Len(B1) + Len(A1)
      /\ Packed(c) \o Residue(c) = pending \o B
  <2> HIDE DEF A, A1, B, B1, q
  <2>1. pending \in Seq(Byte) /\ B1 \in Seq(Byte) /\ A1 \in Seq(Byte) /\ Residue(c) \in Seq(Byte)
    BY <1>4, <1>7
  <2>2. Regroups(pending, B1, A1, Residue(c)) BY <2>1, Regroup, Zenon
  <2> QED BY <1>4, <1>7, <1>8, <2>2 DEF Regroups
<1>10. Len(Packed(c)) = (IF pending = <<>> THEN 0 ELSE RecordBytes) + q * RecordBytes
  <2> HIDE DEF A, A1, B, B1, q
  <2> QED BY <1>2, <1>3, <1>4, <1>6, <1>7, <1>9
<1>11. \E k \in Nat : Len(Packed(c)) = k * RecordBytes
  <2> HIDE DEF q
  <2>1. q * RecordBytes \in Nat BY <1>6, Monotone
  <2>2. RecordBytes + q * RecordBytes = (q + 1) * RecordBytes BY <1>6, SMT
  <2>3. q + 1 \in Nat /\ q \in Nat BY <1>6
  <2>4. CASE pending = <<>>
    <3>1. Len(Packed(c)) = q * RecordBytes BY <1>10, <2>1, <2>4
    <3> QED BY <2>3, <3>1
  <2>5. CASE pending # <<>>
    <3>1. Len(Packed(c)) = RecordBytes + q * RecordBytes BY <1>10, <2>5
    <3> QED BY <2>2, <2>3, <3>1
  <2> QED BY <2>4, <2>5
<1>12. Found(c) \in Nat /\ Len(Packed(c)) = Found(c) * RecordBytes
  <2>1. PICK k \in Nat : Len(Packed(c)) = k * RecordBytes BY <1>11
  <2>2. (k * RecordBytes) \div RecordBytes = k BY ExactDivision
  <2> QED BY <2>1, <2>2 DEF Found
<1>13. Len(Residue(c)) < RecordBytes
  <2> HIDE DEF A, q
  <2> QED BY <1>6, <1>7
<1> QED BY <1>7, <1>9, <1>12, <1>13

-----------------------------------------------------------------------------
(* The invariant.                                                           *)

LEMMA RecordSize == ASSUME shape \in Shapes PROVE RecordBytes \in Nat
  BY ShapesAssumption DEF RecordBytes

LEMMA ScoringStarts == RecordsInit => ScoringInv
<1> SUFFICES ASSUME RecordsInit PROVE ScoringInv OBVIOUS
<1> USE DEF RecordsInit, LayoutInit, ScoringInit
<1>1. RecordBytes \in Nat BY RecordSize
<1>2. CorpusStart \in Chunk BY CorpusAssumption DEF CorpusStart, Chunk
<1>3. <<>> \in Seq(Byte) /\ Len(<<>>) = 0 BY EmptySeq
<1>4. <<>> \o <<>> = <<>> BY <1>3, ConcatEmptySeq
<1>5. ScoringTypeOK
  <2>1. kept \in 0 .. listed /\ done \in Nat BY CorpusAssumption
  <2> QED BY <1>2, <1>3, <2>1 DEF ScoringTypeOK
<1>6. LineOfBytes BY <1>1, <1>3, <1>4 DEF LineOfBytes
<1> QED BY <1>5, <1>6 DEF ScoringInv, CapBound, ScoringPhases

\* A delivered chunk of a kept file is a chunk of the corpus.
LEMMA NextChunkType ==
  ASSUME ScoringTypeOK, NEW c \in NextChunks
  PROVE  c \in Chunk
<1>1. arrived.file \in 0 .. NFiles /\ arrived.off + arrived.n \in Nat /\ kept \in 0 .. NFiles
  BY CorpusAssumption DEF ScoringTypeOK, Chunk
<1>2. c \in [file : arrived.file .. kept, off : {0, arrived.off + arrived.n}, n : 1 .. MaxChunk]
      /\ c.n > 0
  BY DEF NextChunks, Follows
<1>3. c \in [file : 0 .. NFiles, off : Nat, n : Nat] BY CorpusAssumption, <1>1, <1>2
<1> QED BY <1>3 DEF Chunk

LEMMA KeptFilesListed ==
  ASSUME listed \in 0 .. NFiles
  PROVE  KeptFiles(max) \in 0 .. listed
<1>1. Covering(max) \subseteq 0 .. listed BY CorpusAssumption DEF Covering
<1>2. CASE max = NoMax \/ Covering(max) = {} BY CorpusAssumption, <1>2 DEF KeptFiles
<1>3. CASE ~(max = NoMax \/ Covering(max) = {})
  <2>1. \E f : f \in Covering(max) BY <1>3
  <2>2. (CHOOSE f \in Covering(max) : TRUE) \in Covering(max) BY <2>1
  <2> QED BY <1>1, <1>3, <2>2 DEF KeptFiles
<1> QED BY <1>2, <1>3

\* The step that scores: what is taken from the packed records is what the
\* delivered bytes have at that place.
LEMMA ScoringStep ==
  ASSUME ScoringInv, shape' = shape, listed' = listed, NEW c \in NextChunks, ScoreChunk(c)
  PROVE  ScoringInv'
<1> DEFINE k == Found(c) * RecordBytes
           t == Taken(c) * RecordBytes
           P == Packed(c)
           R == Residue(c)
           T1 == SubSeq(P, 1, t)
           T2 == SubSeq(P, t + 1, Len(P))
<1>1. /\ ScoringTypeOK /\ LineOfBytes /\ CapBound /\ ScoringPhases BY DEF ScoringInv
<1>2. RecordBytes \in Nat /\ RecordBytes' = RecordBytes
  BY <1>1, RecordSize DEF ScoringTypeOK, RecordBytes
<1>3. spc = "scan" /\ ~capped /\ arrived' = c /\ RecordBytes > 0 /\ c \in Chunk
  BY <1>1, NextChunkType DEF ScoreChunk, Delivers, ScoringPhases
<1>4. /\ P \in Seq(Byte) /\ R \in Seq(Byte)
      /\ Found(c) \in Nat /\ Len(P) = k
      /\ Len(R) < RecordBytes
      /\ P \o R = pending \o Bytes(c)
  BY <1>1, <1>2, <1>3, Carving DEF ScoringTypeOK, LineOfBytes, ScoreChunk
<1>5. /\ Taken(c) \in Nat /\ Taken(c) <= Found(c)
      /\ ~Fills(c) => Taken(c) = Found(c)
      /\ Fills(c) => max \in Nat /\ max # NoMax /\ done + Taken(c) = max
      /\ max # NoMax /\ ~Fills(c) => done + Taken(c) < max
  <2>1. done \in Nat /\ (max # NoMax => max \in Nat /\ done < max)
    BY <1>1, <1>3, MaximaAssumption DEF ScoringTypeOK, CapBound
  <2>2. CASE Fills(c)
    <3>1. max # NoMax /\ Found(c) >= max - done BY <2>2 DEF Fills
    <3>2. Taken(c) = max - done BY <2>2 DEF Taken
    <3>3. Found(c) \in Nat /\ max \in Nat /\ done \in Nat /\ done < max BY <1>4, <2>1, <3>1, Zenon
    <3>4. Taken(c) \in Nat /\ Taken(c) <= Found(c) /\ done + Taken(c) = max BY <3>1, <3>2, <3>3
    <3> QED BY <2>2, <3>1, <3>3, <3>4, Zenon
  <2>3. CASE ~Fills(c)
    <3>1. max # NoMax => ~(Found(c) >= max - done) BY <2>3 DEF Fills
    <3>2. Taken(c) = Found(c) BY <2>3 DEF Taken
    <3>3. Taken(c) \in Nat /\ Taken(c) <= Found(c) BY <1>4, <3>2
    <3>4. max # NoMax => done + Taken(c) < max BY <1>4, <2>1, <3>1, <3>2
    <3> QED BY <2>3, <3>2, <3>3, <3>4, Zenon
  <2> QED BY <2>2, <2>3
<1>6. t \in Nat /\ k \in Nat /\ t <= k BY <1>2, <1>4, <1>5, Monotone
<1>7. /\ T1 \in Seq(Byte) /\ Len(T1) = t
      /\ T2 \in Seq(Byte) /\ T1 \o T2 = P
  <2>1. t \in 0 .. Len(P) /\ P \in Seq(Byte) BY <1>4, <1>6
  <2> HIDE DEF t, P
  <2> QED BY <2>1, Cut
<1>8. /\ scored' = scored \o T1 /\ done' = done + Taken(c) /\ capped' = Fills(c)
      /\ pending' = R /\ delivered' = delivered \o Bytes(c)
      /\ UNCHANGED <<max, kept, spc, result, shape, listed>>
  BY DEF ScoreChunk
<1>9. /\ Bytes(c) \in Seq(Byte) /\ pending \in Seq(Byte) /\ scored \in Seq(Byte)
      /\ delivered = scored \o pending /\ delivered \in Seq(Byte)
      /\ done \in Nat /\ Len(scored) = done * RecordBytes
  BY <1>1, <1>3, BytesOfChunk DEF ScoringTypeOK, LineOfBytes
<1> HIDE DEF k, t, P, R, T1, T2
<1>10. delivered' = scored \o (P \o R)
  <2>1. Assoc(scored, pending, Bytes(c)) BY <1>9, AssocAll, Zenon
  <2> QED BY <1>4, <1>8, <1>9, <2>1 DEF Assoc
<1>11. /\ scored' \in Seq(Byte) /\ delivered' \in Seq(Byte)
       /\ Len(scored') = done' * RecordBytes'
  <2>1. Joins(scored, T1) /\ Joins(delivered, Bytes(c)) BY <1>7, <1>9, JoinsAll, Zenon
  <2>2. done * RecordBytes + t = (done + Taken(c)) * RecordBytes
    BY <1>2, <1>5, <1>9, SMT DEF t
  <2> QED BY <1>2, <1>7, <1>8, <1>9, <2>1, <2>2 DEF Joins
<1>12. ScoringTypeOK'
  <2>1. capped' \in BOOLEAN /\ done' \in Nat BY <1>5, <1>8, <1>9 DEF Fills
  <2> QED BY <1>1, <1>3, <1>4, <1>8, <1>11, <2>1 DEF ScoringTypeOK
<1>13. ScoringPhases' BY <1>1, <1>2, <1>3, <1>8 DEF ScoringPhases
<1>14. CASE Fills(c)
  <2>1. P \o R = T1 \o (T2 \o R)
    <3>1. Assoc(T1, T2, R) BY <1>4, <1>7, AssocAll, Zenon
    <3> QED BY <1>7, <3>1 DEF Assoc
  <2>2. T2 \o R \in Seq(Byte)
    <3>1. Joins(T2, R) BY <1>4, <1>7, JoinsAll, Zenon
    <3> QED BY <3>1 DEF Joins
  <2>3. delivered' = scored' \o (T2 \o R)
    <3>1. Assoc(scored, T1, T2 \o R) BY <1>7, <1>9, <2>2, AssocAll, Zenon
    <3> QED BY <1>8, <1>10, <2>1, <3>1 DEF Assoc
  <2>4. SubSeq(delivered', 1, Len(scored')) = scored' BY <1>11, <2>2, <2>3, FrontOf
  <2>5. Len(scored') <= Len(delivered')
    <3>1. Joins(scored', T2 \o R) BY <1>11, <2>2, JoinsAll, Zenon
    <3>2. Len(scored') \in Nat /\ Len(T2 \o R) \in Nat BY <1>11, <2>2, LenProperties
    <3> QED BY <2>3, <3>1, <3>2 DEF Joins
  <2>6. LineOfBytes' BY <1>2, <1>3, <1>4, <1>5, <1>8, <1>11, <1>14, <2>4, <2>5 DEF LineOfBytes
  <2>7. CapBound' BY <1>5, <1>8, <1>14 DEF CapBound
  <2> QED BY <1>12, <1>13, <2>6, <2>7 DEF ScoringInv
<1>15. CASE ~Fills(c)
  <2>1. T1 = P
    <3>1. t = Len(P) BY <1>4, <1>5, <1>15 DEF t, k
    <3> QED BY <1>4, <3>1, SubSeqFull DEF T1
  <2>2. delivered' = scored' \o pending'
    <3>1. Assoc(scored, P, R) BY <1>4, <1>9, AssocAll, Zenon
    <3> QED BY <1>8, <1>10, <2>1, <3>1 DEF Assoc
  <2>3. result' # "ok" BY <1>1, <1>3, <1>8 DEF ScoringPhases
  <2>4. LineOfBytes' BY <1>2, <1>4, <1>8, <1>11, <1>15, <2>2, <2>3 DEF LineOfBytes
  <2>5. CapBound'
    <3>1. done' \in Nat /\ max \in Nat \cup {NoMax}
      BY <1>1, <1>12, MaximaAssumption DEF ScoringTypeOK
    <3>2. max # NoMax => done' <= max /\ done' # max BY <1>5, <1>8, <1>15, <3>1
    <3>3. ~capped' BY <1>8, <1>15
    <3> QED BY <1>8, <3>2, <3>3 DEF CapBound
  <2> QED BY <1>12, <1>13, <2>4, <2>5 DEF ScoringInv
<1> QED BY <1>14, <1>15

LEMMA CarryStep ==
  ASSUME ScoringInv, shape' = shape, listed' = listed, NEW c \in NextChunks, CarryChunk(c)
  PROVE  ScoringInv'
<1>1. /\ ScoringTypeOK /\ LineOfBytes /\ CapBound /\ ScoringPhases BY DEF ScoringInv
<1>2. RecordBytes \in Nat /\ RecordBytes' = RecordBytes
  BY <1>1, RecordSize DEF ScoringTypeOK, RecordBytes
<1>3. /\ spc = "scan" /\ ~capped /\ arrived' = c /\ c \in Chunk
      /\ Len(pending) + c.n < RecordBytes
      /\ pending' = pending \o Bytes(c) /\ delivered' = delivered \o Bytes(c)
      /\ UNCHANGED <<max, kept, spc, scored, done, capped, result, shape, listed>>
  BY <1>1, NextChunkType DEF CarryChunk, Delivers
<1>4. /\ Bytes(c) \in Seq(Byte) /\ Len(Bytes(c)) = c.n
      /\ pending \in Seq(Byte) /\ scored \in Seq(Byte) /\ delivered \in Seq(Byte)
      /\ delivered = scored \o pending
  BY <1>1, <1>3, BytesOfChunk DEF ScoringTypeOK, LineOfBytes
<1>5. /\ pending' \in Seq(Byte) /\ Len(pending') = Len(pending) + Len(Bytes(c))
      /\ delivered' \in Seq(Byte)
  <2>1. Joins(pending, Bytes(c)) /\ Joins(delivered, Bytes(c)) BY <1>4, JoinsAll, Zenon
  <2> QED BY <1>3, <2>1, Zenon DEF Joins
<1>6. delivered' = scored' \o pending'
  <2>1. Assoc(scored, pending, Bytes(c)) BY <1>4, AssocAll, Zenon
  <2> QED BY <1>3, <1>4, <2>1, Zenon DEF Assoc
<1>7. Len(pending') < RecordBytes' BY <1>2, <1>3, <1>4, <1>5
<1>8. ScoringTypeOK' BY <1>1, <1>3, <1>5 DEF ScoringTypeOK
<1>9. LineOfBytes'
  <2>1. Len(scored') = done' * RecordBytes' BY <1>1, <1>2, <1>3 DEF LineOfBytes
  <2>2. ~capped' /\ result' # "ok" BY <1>1, <1>3 DEF ScoringPhases
  <2> QED BY <1>6, <1>7, <2>1, <2>2 DEF LineOfBytes
<1>10. CapBound' /\ ScoringPhases' BY <1>1, <1>2, <1>3 DEF CapBound, ScoringPhases
<1> QED BY <1>8, <1>9, <1>10 DEF ScoringInv

\* The steps that move no bytes.
LEMMA OtherSteps ==
  ASSUME ScoringInv, shape' = shape, listed' = listed,
         \/ NothingToScore \/ DirectoryFails \/ StartScan \/ StreamFails \/ StreamEnds
         \/ \E c \in NextChunks : IgnoreChunk(c)
         \/ UNCHANGED svars
  PROVE  ScoringInv'
<1>1. /\ ScoringTypeOK /\ LineOfBytes /\ CapBound /\ ScoringPhases BY DEF ScoringInv
<1>2. RecordBytes \in Nat /\ RecordBytes' = RecordBytes
  BY <1>1, RecordSize DEF ScoringTypeOK, RecordBytes
<1>3. UNCHANGED <<max, pending, scored, done, capped, delivered>>
  BY DEF NothingToScore, DirectoryFails, StartScan, StreamFails, StreamEnds, IgnoreChunk, Idle,
         svars
<1>4. ScoringTypeOK'
  <2>1. arrived' \in Chunk
    <3>1. arrived' = arrived \/ \E c \in NextChunks : arrived' = c
      BY DEF NothingToScore, DirectoryFails, StartScan, StreamFails, StreamEnds, IgnoreChunk,
             Delivers, Idle, svars
    <3> QED BY <1>1, <3>1, NextChunkType DEF ScoringTypeOK
  <2>2. kept' \in 0 .. listed
    <3>1. kept' = kept \/ kept' = KeptFiles(max)
      BY DEF NothingToScore, DirectoryFails, StartScan, StreamFails, StreamEnds, IgnoreChunk, Idle,
             svars
    <3> QED BY <1>1, <3>1, KeptFilesListed DEF ScoringTypeOK
  <2>3. spc' \in {"start", "scan", "end"} /\ result' \in {"running", "ok", "io", "trailing"}
    BY <1>1 DEF ScoringTypeOK, NothingToScore, DirectoryFails, StartScan, StreamFails, StreamEnds,
             IgnoreChunk, Delivers, ScoringReturns, svars
  <2> QED BY <1>1, <1>3, <2>1, <2>2, <2>3 DEF ScoringTypeOK
<1>5. ~capped /\ result' = "ok" => delivered = scored
  <2>1. SUFFICES ASSUME ~capped, result' = "ok" PROVE delivered = scored OBVIOUS
  <2>2. result = "ok" \/ pending = <<>>
    BY <1>1, <2>1 DEF NothingToScore, DirectoryFails, StartScan, StreamFails, StreamEnds,
             IgnoreChunk, ScoringReturns, svars, ScoringPhases
  <2>3. pending = <<>> => scored \o pending = scored
    BY <1>1, ConcatEmptySeq DEF ScoringTypeOK
  <2> QED BY <1>1, <2>1, <2>2, <2>3 DEF LineOfBytes
<1>6. LineOfBytes' BY <1>1, <1>2, <1>3, <1>5 DEF LineOfBytes
<1>7. ScoringPhases' /\ CapBound'
  <2>1. spc' \in {"start", "scan"} => result' = "running"
    BY <1>1 DEF NothingToScore, DirectoryFails, StartScan, StreamFails, StreamEnds, IgnoreChunk,
             Delivers, ScoringReturns, svars, ScoringPhases
  <2>2. spc' = "start" => spc = "start"
    BY DEF NothingToScore, DirectoryFails, StartScan, StreamFails, StreamEnds, IgnoreChunk,
             Delivers, ScoringReturns, svars
  <2>3. spc' = "scan" => spc = "scan" \/ (spc = "start" /\ RecordBytes > 0 /\ max # 0)
    BY DEF NothingToScore, DirectoryFails, StartScan, StreamFails, StreamEnds, IgnoreChunk,
             Delivers, ScoringReturns, svars
  <2>4. ScoringPhases' BY <1>1, <1>2, <1>3, <2>1, <2>2, <2>3 DEF ScoringPhases
  <2>5. ASSUME spc = "start", max # 0, max # NoMax PROVE done <= max /\ done # max /\ ~capped
    <3>1. max \in Nat BY <1>1, <2>5, MaximaAssumption DEF ScoringTypeOK
    <3>2. done = 0 /\ ~capped BY <1>1, <2>5 DEF ScoringPhases
    <3>3. done <= max /\ done # max BY <2>5, <3>1, <3>2
    <3> QED BY <3>2, <3>3
  <2>6. CapBound' BY <1>1, <1>3, <2>3, <2>5 DEF CapBound
  <2> QED BY <2>4, <2>6
<1> QED BY <1>4, <1>6, <1>7 DEF ScoringInv

LEMMA ScoringInvStep == ScoringInv /\ [RecordsNext]_<<layout, svars, ivars>> => ScoringInv'
<1> SUFFICES ASSUME ScoringInv, [RecordsNext]_<<layout, svars, ivars>> PROVE ScoringInv' OBVIOUS
<1>1. shape' = shape /\ listed' = listed BY DEF RecordsNext, layout
<1>2. \/ ScoringNext
      \/ UNCHANGED svars
  BY DEF RecordsNext
<1>3. CASE UNCHANGED svars BY <1>1, <1>3, OtherSteps
<1>4. CASE ScoringNext
  <2>1. ASSUME NEW c \in NextChunks, ScoreChunk(c) PROVE ScoringInv'
    BY <1>1, <2>1, ScoringStep
  <2>2. ASSUME NEW c \in NextChunks, CarryChunk(c) PROVE ScoringInv'
    BY <1>1, <2>2, CarryStep
  <2>3. CASE \/ NothingToScore \/ DirectoryFails \/ StartScan \/ StreamFails \/ StreamEnds
             \/ \E c \in NextChunks : IgnoreChunk(c)
    BY <1>1, <2>3, OtherSteps
  <2> QED BY <1>4, <2>1, <2>2, <2>3 DEF ScoringNext
<1> QED BY <1>2, <1>3, <1>4

-----------------------------------------------------------------------------
(* The theorems.                                                            *)

\* The inductive invariant of mse_mean_streaming holds in every execution.
THEOREM ScoringInvariance == RecordsSpec => []ScoringInv
<1>1. RecordsInit => ScoringInv BY ScoringStarts
<1>2. ScoringInv /\ [RecordsNext]_<<layout, svars, ivars>> => ScoringInv' BY ScoringInvStep
<1> QED BY <1>1, <1>2, PTL DEF RecordsSpec

\* For every directory, record shape, cap and division into chunks, the bytes
\* mse_mean_streaming scores are the first bytes delivered, in whole records,
\* in order and once each; what is unscored is pending and less than a record.
THEOREM EveryByteOnce == RecordsSpec => []LineOfBytes
<1>1. ScoringInv => LineOfBytes BY DEF ScoringInv
<1> QED BY <1>1, ScoringInvariance, PTL

\* records_done stays below max_records until the scan is capped, so the
\* callback's max - records_done neither underflows nor is zero.
THEOREM CapNeverPassed == RecordsSpec => []CapBound
<1>1. ScoringInv => CapBound BY DEF ScoringInv
<1> QED BY <1>1, ScoringInvariance, PTL

-----------------------------------------------------------------------------
(* The bytes of the files.                                                  *)

LEMMA UpToFile ==
  /\ BytesUpTo[0] = 0
  /\ \A f \in 0 .. NFiles : BytesUpTo[f] \in Nat
  /\ \A f \in 1 .. NFiles : f - 1 \in 0 .. NFiles /\ BytesUpTo[f] = BytesUpTo[f - 1] + FileLen[f]
<1> DEFINE D == 0 .. NFiles
           zero == 0
           step == [p \in (0 .. NFiles - 1) \X Nat |-> p[2] + FileLen[p[1] + 1]]
<1>1. NFiles \in Nat /\ \A f \in 1 .. NFiles : FileLen[f] \in Nat /\ f - 1 \in D
  BY CorpusAssumption
<1>2. PICK g \in [D -> Nat] : Iterates(g, NFiles, zero, step)
  <2>1. \A i \in 0 .. NFiles - 1 : \A x \in Nat : step[<<i, x>>] \in Nat
    <3> TAKE i \in 0 .. NFiles - 1
    <3>1. i + 1 \in 1 .. NFiles BY <1>1
    <3> QED BY <1>1, <3>1
  <2> HIDE DEF step, zero
  <2>2. zero \in Nat BY DEF zero
  <2> QED BY <1>1, <2>1, <2>2, IterationUpTo
<1>3. g[0] = 0 /\ \A f \in 1 .. NFiles : g[f] = g[f - 1] + FileLen[f]
  <2>1. ASSUME NEW f \in 1 .. NFiles PROVE g[f] = g[f - 1] + FileLen[f]
    <3>1. f - 1 \in 0 .. NFiles - 1 /\ (f - 1) + 1 = f /\ g[f - 1] \in Nat BY <1>1
    <3>2. g[(f - 1) + 1] = step[<<f - 1, g[f - 1]>>]
      <4> HIDE DEF step
      <4> QED BY <1>2, <3>1 DEF Iterates
    <3> QED BY <3>1, <3>2
  <2> QED BY <1>2, <2>1 DEF Iterates
<1>4. g = [f \in D |-> IF f = 0 THEN 0 ELSE g[f - 1] + FileLen[f]]
  <2>1. \A f \in D : g[f] = IF f = 0 THEN 0 ELSE g[f - 1] + FileLen[f] BY <1>1, <1>3
  <2> QED BY <2>1
<1>5. BytesUpTo = [f \in D |-> IF f = 0 THEN 0 ELSE BytesUpTo[f - 1] + FileLen[f]]
  BY <1>4 DEF BytesUpTo
<1>6. BytesUpTo[0] = 0 /\ \A f \in 1 .. NFiles : BytesUpTo[f] = BytesUpTo[f - 1] + FileLen[f]
  <2>1. 0 \in D /\ \A f \in 1 .. NFiles : f \in D /\ f # 0 BY <1>1
  <2> HIDE DEF D
  <2> QED BY <1>5, <2>1
<1>7. \A f \in D : BytesUpTo[f] \in Nat
  <2> DEFINE T == {f \in Nat : f \in D => BytesUpTo[f] \in Nat}
  <2>1. 0 \in T BY <1>6
  <2>2. ASSUME NEW f \in Nat, f \in T PROVE f + 1 \in T
    <3> SUFFICES ASSUME f + 1 \in D PROVE BytesUpTo[f + 1] \in Nat OBVIOUS
    <3>1. f \in D /\ f + 1 \in 1 .. NFiles /\ (f + 1) - 1 = f BY <1>1
    <3>2. BytesUpTo[f] \in Nat /\ FileLen[f + 1] \in Nat BY <1>1, <2>2, <3>1
    <3>3. BytesUpTo[f + 1] = BytesUpTo[(f + 1) - 1] + FileLen[f + 1] BY <1>6, <3>1
    <3> QED BY <3>1, <3>2, <3>3
  <2>3. Nat \subseteq T
    <3> HIDE DEF T
    <3> QED BY <2>1, <2>2, Induction
  <2> QED BY <1>1, <2>3
<1> QED BY <1>1, <1>6, <1>7

FileBytes(f) == Bytes([file |-> f, off |-> 0, n |-> FileLen[f]])

LEMMA BytesOfFile ==
  ASSUME NEW f \in 1 .. NFiles
  PROVE  /\ FileBytes(f) \in Seq(Byte) /\ Len(FileBytes(f)) = FileLen[f] /\ FileLen[f] \in Nat
         /\ \A i \in 1 .. FileLen[f] : FileBytes(f)[i] = <<f, i - 1>>
<1> DEFINE c == [file |-> f, off |-> 0, n |-> FileLen[f]]
<1>1. c \in Chunk /\ c.n = FileLen[f] /\ c.file = f /\ c.off = 0 /\ FileLen[f] \in Nat
  BY CorpusAssumption DEF Chunk
<1> HIDE DEF c
<1>2. FileBytes(f) = Bytes(c) BY DEF FileBytes, c
<1>3. \A i \in 1 .. FileLen[f] : Bytes(c)[i] = <<f, 0 + i - 1>> BY <1>1 DEF Bytes
<1>4. \A i \in 1 .. FileLen[f] : 0 + i - 1 = i - 1 BY <1>1
<1> QED BY <1>1, <1>2, <1>3, <1>4, BytesOfChunk

\* How BytesOf joins the files of fs.
Joining(fs) ==
  [p \in (0 .. Len(fs) - 1) \X Seq(Byte) |-> p[2] \o FileBytes(fs[p[1] + 1])]

LEMMA BytesOfJoins ==
  ASSUME NEW fs \in Seq(1 .. NFiles)
  PROVE  \E g \in [0 .. Len(fs) -> Seq(Byte)] :
           /\ Iterates(g, Len(fs), <<>>, Joining(fs))
           /\ BytesOf(fs) = g[Len(fs)]
<1> DEFINE L == Len(fs)
           D == 0 .. L
           X == Seq(Byte)
           none == <<>>
           step == Joining(fs)
           upTo[i \in 0 .. Len(fs)] ==
             IF i = 0 THEN <<>>
             ELSE upTo[i - 1] \o Bytes([file |-> fs[i], off |-> 0, n |-> FileLen[fs[i]]])
<1>1. L \in Nat /\ \A i \in 1 .. L : fs[i] \in 1 .. NFiles BY LenProperties, ElementOfSeq
<1>2. \A i \in 0 .. L - 1 : \A x \in X : step[<<i, x>>] = x \o FileBytes(fs[i + 1])
  BY DEF Joining
<1>3. PICK g \in [D -> X] : Iterates(g, L, none, step)
  <2>1. ASSUME NEW i \in 0 .. L - 1, NEW x \in X PROVE step[<<i, x>>] \in X
    <3>1. i + 1 \in 1 .. L BY <1>1
    <3>2. Joins(x, FileBytes(fs[i + 1])) BY <1>1, <3>1, BytesOfFile, JoinsAll
    <3> QED BY <1>2, <3>2 DEF Joins
  <2>2. none \in X OBVIOUS
  <2> HIDE DEF step, none, X
  <2> QED BY <1>1, <2>1, <2>2, IterationUpTo
<1>4. ASSUME NEW i \in 1 .. L PROVE g[i] = g[i - 1] \o FileBytes(fs[i])
  <2>1. i - 1 \in 0 .. L - 1 /\ (i - 1) + 1 = i /\ g[i - 1] \in X BY <1>1
  <2>2. g[(i - 1) + 1] = step[<<i - 1, g[i - 1]>>]
    <3> HIDE DEF step
    <3> QED BY <1>3, <2>1 DEF Iterates
  <2> HIDE DEF step
  <2> QED BY <1>2, <2>1, <2>2
<1>5. g = [i \in D |-> IF i = 0 THEN <<>>
                       ELSE g[i - 1] \o Bytes([file |-> fs[i], off |-> 0, n |-> FileLen[fs[i]]])]
  <2>1. \A i \in D : g[i] = IF i = 0 THEN <<>>
                            ELSE g[i - 1] \o Bytes([file |-> fs[i], off |-> 0, n |-> FileLen[fs[i]]])
    <3> TAKE i \in D
    <3>1. i = 0 => g[i] = <<>> BY <1>3 DEF Iterates
    <3>2. i # 0 => i \in 1 .. L BY <1>1
    <3> HIDE DEF D
    <3> QED BY <1>4, <3>1, <3>2 DEF FileBytes
  <2> HIDE DEF D
  <2> QED BY <1>3, <2>1
<1>6. upTo = [i \in D |-> IF i = 0 THEN <<>>
                          ELSE upTo[i - 1] \o Bytes([file |-> fs[i], off |-> 0, n |-> FileLen[fs[i]]])]
  BY <1>5
<1> HIDE DEF upTo
<1>7. BytesOf(fs) = upTo[L] BY DEF BytesOf, upTo
<1>8. \A i \in D : upTo[i] = g[i]
  <2> DEFINE T == {i \in Nat : i \in D => upTo[i] = g[i]}
  <2>1. 0 \in T BY <1>1, <1>3, <1>6 DEF Iterates
  <2>2. ASSUME NEW i \in Nat, i \in T PROVE i + 1 \in T
    <3> SUFFICES ASSUME i + 1 \in D PROVE upTo[i + 1] = g[i + 1] OBVIOUS
    <3>1. i \in D /\ i + 1 \in 1 .. L /\ (i + 1) - 1 = i /\ i + 1 # 0 BY <1>1
    <3>2. upTo[i + 1] = upTo[i] \o FileBytes(fs[i + 1])
      BY <1>6, <3>1 DEF FileBytes
    <3> QED BY <1>4, <2>2, <3>1, <3>2
  <2>3. Nat \subseteq T
    <3> HIDE DEF T
    <3> QED BY <2>1, <2>2, Induction
  <2> QED BY <1>1, <2>3
<1> QED BY <1>1, <1>3, <1>7, <1>8

LEMMA BytesOfNothing == BytesOf(<<>>) = <<>>
<1>1. <<>> \in Seq(1 .. NFiles) /\ Len(<<>>) = 0 OBVIOUS
<1>2. PICK g : Iterates(g, Len(<<>>), <<>>, Joining(<<>>)) /\ BytesOf(<<>>) = g[Len(<<>>)]
  BY <1>1, BytesOfJoins
<1> QED BY <1>1, <1>2 DEF Iterates

LEMMA BytesOfAppend ==
  ASSUME NEW fs \in Seq(1 .. NFiles), NEW f \in 1 .. NFiles
  PROVE  /\ BytesOf(fs) \in Seq(Byte)
         /\ BytesOf(Append(fs, f)) = BytesOf(fs) \o FileBytes(f)
<1> DEFINE gs == Append(fs, f)
           L == Len(fs)
           none == <<>>
           step == Joining(gs)
<1>1. /\ gs \in Seq(1 .. NFiles) /\ Len(gs) = L + 1 /\ L \in Nat /\ gs[L + 1] = f
      /\ \A i \in 1 .. L : gs[i] = fs[i]
  BY AppendProperties, LenProperties
<1> HIDE DEF gs
<1>2. PICK g \in [0 .. L -> Seq(Byte)] : Iterates(g, L, none, Joining(fs)) /\ BytesOf(fs) = g[L]
  BY BytesOfJoins
<1>3. PICK h \in [0 .. L + 1 -> Seq(Byte)] :
        Iterates(h, L + 1, none, step) /\ BytesOf(gs) = h[L + 1]
  BY <1>1, BytesOfJoins
<1>4. Iterates(g, L, none, step)
  <2>1. ASSUME NEW i \in 0 .. L - 1 PROVE g[i + 1] = step[<<i, g[i]>>]
    <3>1. /\ i + 1 \in 1 .. L /\ i \in 0 .. (L + 1) - 1 /\ i \in 0 .. Len(gs) - 1
          /\ g[i] \in Seq(Byte)
      BY <1>1, <1>2
    <3>2. g[i + 1] = Joining(fs)[<<i, g[i]>>] BY <1>2 DEF Iterates
    <3>3. Joining(fs)[<<i, g[i]>>] = g[i] \o FileBytes(fs[i + 1]) BY <3>1 DEF Joining
    <3>4. step[<<i, g[i]>>] = g[i] \o FileBytes(gs[i + 1]) BY <3>1 DEF Joining
    <3> QED BY <1>1, <3>1, <3>2, <3>3, <3>4, Zenon
  <2> HIDE DEF step
  <2> QED BY <1>2, <2>1 DEF Iterates
<1>5. h[L] = g[L]
  <2> HIDE DEF step, none
  <2>1. \A i \in Nat : i <= L + 1 /\ i <= L => h[i] = g[i]
    <3> DEFINE m == L + 1
    <3>1. m \in Nat /\ Iterates(h, m, none, step) BY <1>1, <1>3
    <3> HIDE DEF m
    <3>2. \A i \in Nat : i <= m /\ i <= L => h[i] = g[i] BY <1>1, <1>4, <3>1, IteratesUnique
    <3> QED BY <3>2 DEF m
  <2> QED BY <1>1, <2>1
<1>6. h[L + 1] = h[L] \o FileBytes(f)
  <2>1. L \in 0 .. (L + 1) - 1 /\ L \in 0 .. Len(gs) - 1 /\ h[L] \in Seq(Byte) BY <1>1, <1>3
  <2>2. h[L + 1] = step[<<L, h[L]>>] BY <1>3, <2>1 DEF Iterates
  <2>3. step[<<L, h[L]>>] = h[L] \o FileBytes(gs[L + 1]) BY <2>1 DEF Joining
  <2> QED BY <1>1, <2>2, <2>3, Zenon
<1>7. BytesOf(fs) \in Seq(Byte) BY <1>1, <1>2
<1> QED BY <1>2, <1>3, <1>5, <1>6, <1>7 DEF gs

\* The bytes of the first f files, and where each byte of a file is among them.
FirstFiles(f) == BytesOf([i \in 1 .. f |-> i])

LEMMA FirstFilesBytes ==
  /\ FirstFiles(0) = <<>>
  /\ \A f \in 0 .. NFiles : FirstFiles(f) \in Seq(Byte) /\ Len(FirstFiles(f)) = BytesUpTo[f]
  /\ \A f \in 1 .. NFiles : FirstFiles(f) = FirstFiles(f - 1) \o FileBytes(f)
<1> DEFINE ids(f) == [i \in 1 .. f |-> i]
<1>1. NFiles \in Nat BY CorpusAssumption
<1>2. FirstFiles(0) = <<>>
  <2>1. ids(0) = <<>> OBVIOUS
  <2> QED BY <2>1, BytesOfNothing DEF FirstFiles
<1>3. ASSUME NEW f \in Nat, f + 1 \in 1 .. NFiles
      PROVE  /\ FirstFiles(f) \in Seq(Byte)
             /\ FirstFiles(f + 1) = FirstFiles(f) \o FileBytes(f + 1)
  <2>1. ids(f) \in [1 .. f -> 1 .. NFiles] BY <1>1, <1>3
  <2>2. ids(f) \in Seq(1 .. NFiles) /\ Len(ids(f)) = f BY <2>1
  <2>3. ids(f + 1) = Append(ids(f), f + 1)
    <3>1. Append(ids(f), f + 1) = [i \in 1 .. f + 1 |-> IF i <= f THEN ids(f)[i] ELSE f + 1]
      BY <2>2, <1>3
    <3>2. \A i \in 1 .. f + 1 : (IF i <= f THEN ids(f)[i] ELSE f + 1) = i BY <1>3
    <3> QED BY <3>1, <3>2
  <2> HIDE DEF ids
  <2>4. BytesOf(ids(f)) \in Seq(Byte) /\ BytesOf(ids(f + 1)) = BytesOf(ids(f)) \o FileBytes(f + 1)
    BY <1>3, <2>2, <2>3, BytesOfAppend
  <2> QED BY <2>4 DEF FirstFiles, ids
<1>4. ASSUME NEW f \in 1 .. NFiles PROVE FirstFiles(f) = FirstFiles(f - 1) \o FileBytes(f)
  <2> DEFINE e == f - 1
  <2>1. e \in Nat /\ e + 1 = f BY <1>1
  <2> HIDE DEF e
  <2>2. FirstFiles(e + 1) = FirstFiles(e) \o FileBytes(e + 1) BY <1>3, <2>1
  <2> QED BY <2>1, <2>2 DEF e
<1>5. \A f \in 0 .. NFiles : FirstFiles(f) \in Seq(Byte) /\ Len(FirstFiles(f)) = BytesUpTo[f]
  <2> DEFINE T == {f \in Nat : f \in 0 .. NFiles =>
                     FirstFiles(f) \in Seq(Byte) /\ Len(FirstFiles(f)) = BytesUpTo[f]}
  <2>1. 0 \in T
    <3>1. Len(<<>>) = 0 /\ <<>> \in Seq(Byte) OBVIOUS
    <3> QED BY <1>2, <3>1, UpToFile
  <2>2. ASSUME NEW f \in Nat, f \in T PROVE f + 1 \in T
    <3> SUFFICES ASSUME f + 1 \in 0 .. NFiles
                 PROVE  /\ FirstFiles(f + 1) \in Seq(Byte)
                        /\ Len(FirstFiles(f + 1)) = BytesUpTo[f + 1]
      OBVIOUS
    <3>1. f \in 0 .. NFiles /\ f + 1 \in 1 .. NFiles /\ (f + 1) - 1 = f BY <1>1
    <3>2. /\ FirstFiles(f) \in Seq(Byte) /\ Len(FirstFiles(f)) = BytesUpTo[f]
          /\ FirstFiles(f + 1) = FirstFiles(f) \o FileBytes(f + 1)
      BY <1>3, <2>2, <3>1
    <3>3. FileBytes(f + 1) \in Seq(Byte) /\ Len(FileBytes(f + 1)) = FileLen[f + 1]
      BY <3>1, BytesOfFile
    <3>4. Joins(FirstFiles(f), FileBytes(f + 1)) BY <3>2, <3>3, JoinsAll
    <3>5. BytesUpTo[f + 1] = BytesUpTo[f] + FileLen[f + 1] BY <3>1, UpToFile
    <3> QED BY <3>2, <3>3, <3>4, <3>5 DEF Joins
  <2>3. Nat \subseteq T
    <3> HIDE DEF T
    <3> QED BY <2>1, <2>2, Induction
  <2> QED BY <1>1, <2>3
<1> QED BY <1>2, <1>4, <1>5

LEMMA UpToGrows ==
  ASSUME NEW f \in 0 .. NFiles
  PROVE  \A g \in f .. NFiles :
           /\ BytesUpTo[f] <= BytesUpTo[g]
           /\ (\A h \in f + 1 .. g : FileLen[h] = 0) => BytesUpTo[g] = BytesUpTo[f]
<1>1. NFiles \in Nat /\ \A h \in 1 .. NFiles : FileLen[h] \in Nat BY CorpusAssumption
<1> DEFINE Grown(g) == /\ BytesUpTo[f] <= BytesUpTo[g]
                       /\ (\A h \in f + 1 .. g : FileLen[h] = 0) => BytesUpTo[g] = BytesUpTo[f]
           T == {g \in Nat : g \in f .. NFiles => Grown(g)}
<1>2. 0 \in T
  <2> SUFFICES ASSUME 0 \in f .. NFiles PROVE Grown(0) OBVIOUS
  <2>1. f = 0 BY <1>1
  <2> QED BY <2>1, UpToFile
<1>3. ASSUME NEW g \in Nat, g \in T PROVE g + 1 \in T
  <2> SUFFICES ASSUME g + 1 \in f .. NFiles PROVE Grown(g + 1) OBVIOUS
  <2>1. f \in Nat /\ f <= g + 1 /\ g + 1 \in 1 .. NFiles /\ (g + 1) - 1 = g BY <1>1
  <2>2. BytesUpTo[g + 1] = BytesUpTo[g] + FileLen[g + 1] BY <2>1, UpToFile
  <2>3. FileLen[g + 1] \in Nat /\ BytesUpTo[f] \in Nat BY <1>1, <2>1, UpToFile
  <2>4. CASE f = g + 1 BY <2>3, <2>4
  <2>5. CASE f # g + 1
    <3>1. g \in f .. NFiles /\ g \in 0 .. NFiles BY <1>1, <2>1, <2>5
    <3>2. Grown(g) /\ BytesUpTo[g] \in Nat BY <1>3, <3>1, UpToFile
    <3>3. BytesUpTo[f] <= BytesUpTo[g + 1] BY <2>2, <2>3, <3>2
    <3>4. ASSUME \A h \in f + 1 .. g + 1 : FileLen[h] = 0 PROVE BytesUpTo[g + 1] = BytesUpTo[f]
      <4>1. g + 1 \in f + 1 .. g + 1 /\ \A h \in f + 1 .. g : h \in f + 1 .. g + 1 BY <2>1, <3>1
      <4>2. FileLen[g + 1] = 0 /\ BytesUpTo[g] = BytesUpTo[f] BY <3>2, <3>4, <4>1
      <4> QED BY <2>2, <2>3, <4>2
    <3> QED BY <3>3, <3>4
  <2> QED BY <2>4, <2>5
<1>4. Nat \subseteq T
  <2> HIDE DEF T
  <2> QED BY <1>2, <1>3, Induction
<1>5. \A g \in f .. NFiles : g \in Nat BY <1>1
<1> QED BY <1>4, <1>5

LEMMA ByteOfFile ==
  ASSUME NEW f \in 1 .. NFiles, NEW o \in 1 .. FileLen[f]
  PROVE  \A g \in f .. NFiles :
           /\ BytesUpTo[f - 1] + o \in 1 .. BytesUpTo[g]
           /\ FirstFiles(g)[BytesUpTo[f - 1] + o] = <<f, o - 1>>
<1> DEFINE e == f - 1
           at == BytesUpTo[e] + o
           Found1(g) == at \in 1 .. BytesUpTo[g] /\ FirstFiles(g)[at] = <<f, o - 1>>
           T == {g \in Nat : g \in f .. NFiles => Found1(g)}
<1>1. /\ NFiles \in Nat /\ FileLen[f] \in Nat /\ e \in 0 .. NFiles /\ e + 1 = f
      /\ o \in Nat /\ 1 <= o /\ o <= FileLen[f]
  BY CorpusAssumption
<1>2. 0 \in T BY <1>1
<1>3. ASSUME NEW g \in Nat, g \in T PROVE g + 1 \in T
  <2> SUFFICES ASSUME g + 1 \in f .. NFiles PROVE Found1(g + 1) OBVIOUS
  <2>1. g + 1 \in 1 .. NFiles /\ (g + 1) - 1 = g /\ g \in 0 .. NFiles BY <1>1
  <2> HIDE DEF e
  <2>2. /\ BytesUpTo[g + 1] = BytesUpTo[g] + FileLen[g + 1]
        /\ BytesUpTo[g] \in Nat /\ BytesUpTo[e] \in Nat
    BY <1>1, <2>1, UpToFile
  <2>3. /\ FirstFiles(g) \in Seq(Byte) /\ Len(FirstFiles(g)) = BytesUpTo[g]
        /\ FirstFiles(g + 1) = FirstFiles(g) \o FileBytes(g + 1)
    BY <2>1, FirstFilesBytes
  <2>4. /\ FileBytes(g + 1) \in Seq(Byte) /\ Len(FileBytes(g + 1)) = FileLen[g + 1]
        /\ FileLen[g + 1] \in Nat
        /\ \A i \in 1 .. FileLen[g + 1] : FileBytes(g + 1)[i] = <<g + 1, i - 1>>
    BY <2>1, BytesOfFile
  <2>5. CASE f = g + 1
    <3>1. g = e BY <1>1, <2>5
    <3>2. at \in BytesUpTo[g] + 1 .. BytesUpTo[g] + FileLen[g + 1] /\ at - BytesUpTo[g] = o
      BY <1>1, <2>2, <2>4, <2>5, <3>1
    <3>3. FirstFiles(g + 1)[at] = FileBytes(g + 1)[o]
      <4>1. Keeps(FirstFiles(g), FileBytes(g + 1)) BY <2>3, <2>4, KeepsAll
      <4>2. at = Len(FirstFiles(g)) + o /\ o \in 1 .. Len(FileBytes(g + 1))
        BY <1>1, <2>3, <2>4, <2>5, <3>1
      <4> HIDE DEF at
      <4> QED BY <2>3, <4>1, <4>2 DEF Keeps
    <3>4. at \in 1 .. BytesUpTo[g + 1] BY <2>2, <2>4, <3>2
    <3> HIDE DEF at
    <3> QED BY <1>1, <2>4, <2>5, <3>3, <3>4
  <2>6. CASE f # g + 1
    <3>1. g \in f .. NFiles BY <1>1, <2>1, <2>6
    <3>2. Found1(g) BY <1>3, <3>1
    <3> HIDE DEF at
    <3>3. at \in 1 .. BytesUpTo[g + 1] BY <2>2, <2>4, <3>2
    <3>4. at \in 1 .. Len(FirstFiles(g)) BY <2>3, <3>2
    <3>5. Keeps(FirstFiles(g), FileBytes(g + 1)) BY <2>3, <2>4, KeepsAll
    <3>6. FirstFiles(g + 1)[at] = FirstFiles(g)[at] BY <2>3, <3>4, <3>5 DEF Keeps
    <3> QED BY <3>2, <3>3, <3>6
  <2> QED BY <2>5, <2>6
<1>4. Nat \subseteq T
  <2> HIDE DEF T
  <2> QED BY <1>2, <1>3, Induction
<1>5. \A g \in f .. NFiles : g \in Nat BY <1>1
<1> QED BY <1>4, <1>5 DEF e

-----------------------------------------------------------------------------
(* What the readers return.                                                 *)

\* How much of the corpus chunk c and everything before it are.
Place(c) == IF c.file = 0 THEN 0 ELSE BytesUpTo[c.file - 1] + (c.off + c.n)

\* s is the beginning of t.
Begins(s, t) == Len(s) <= Len(t) /\ \A i \in 1 .. Len(s) : s[i] = t[i]

\* What mse_mean_streaming was given is the beginning of the directory, up to the
\* last chunk, and a cap leaves out no file before it is met.
CorpusInv ==
  /\ spc = "start" => arrived = CorpusStart
  /\ arrived.off + arrived.n <= LenOf(arrived.file)
  /\ spc = "scan" =>
       /\ arrived.file <= kept
       /\ \/ kept = listed
          \/ max # NoMax /\ kept # 0 /\ BytesUpTo[kept] >= max * RecordBytes
  /\ ~capped => Len(delivered) = Place(arrived)
  /\ Begins(delivered, Listing)
  /\ ResultIsCorpus

\* What is left of the file the iterator reads.
Rest == [file |-> rfile, off |-> rpos, n |-> remaining * RecordBytes]

IteratorTypeOK ==
  /\ shape \in Shapes /\ listed \in 0 .. NFiles
  /\ index \in 0 .. listed
  /\ rfile \in 0 .. NFiles /\ rpos \in Nat /\ remaining \in Nat
  /\ yielded \in Seq(Byte) /\ opened \in Seq(1 .. NFiles)

IteratorPhases ==
  /\ ipc = "new" => ~built
  /\ ipc \notin {"new", "dead"} => RecordBytes > 0
  /\ ipc \in {"new", "opening"} => remaining = 0
  /\ ipc = "reading" => remaining > 0
  /\ answer = "end" =>
       ipc \in {"idle", "opening"} /\ index = listed /\ remaining = 0 /\ RecordBytes > 0

FilesInOrder ==
  /\ \A f \in 1 .. index : FileLen[f] % RecordBytes = 0
  /\ \A i \in 1 .. Len(opened) :
       opened[i] <= index /\ \A j \in 1 .. i - 1 : opened[j] < opened[i]

IteratorInv ==
  /\ IteratorTypeOK /\ IteratorPhases /\ FilesInOrder
  /\ "read" \notin errors => BytesOf(opened) = yielded \o Bytes(Rest)
  /\ "open" \notin errors => BytesOf(opened) = FirstFiles(index)

LEMMA Remainder == ASSUME NEW r \in Nat, r > 0, NEW k \in Nat, NEW p \in Nat, p < r
                   PROVE  (k * r + p) % r = p
  BY SMT

LEMMA ListingBytes ==
  ASSUME listed \in 0 .. NFiles
  PROVE  Listing \in Seq(Byte) /\ Len(Listing) = Total /\ Total \in Nat
<1>1. Listing = FirstFiles(listed) BY DEF Listing, FirstFiles
<1> QED BY <1>1, FirstFilesBytes, UpToFile DEF Total

\* A chunk that follows the last one starts at its place.
LEMMA NextPlace ==
  ASSUME arrived \in Chunk, listed \in 0 .. NFiles, kept \in 0 .. listed,
         arrived.off + arrived.n <= LenOf(arrived.file), NEW c \in NextChunks
  PROVE  /\ c.file \in 1 .. kept /\ c.file \in 1 .. NFiles
         /\ c.n \in Nat /\ c.off \in Nat /\ c.off + c.n <= FileLen[c.file]
         /\ Place(arrived) = BytesUpTo[c.file - 1] + c.off
         /\ Place(c) = Place(arrived) + c.n
         /\ Place(arrived) \in Nat
<1>1. /\ NFiles \in Nat /\ \A f \in 1 .. NFiles : FileLen[f] \in Nat
      /\ arrived.file \in 0 .. NFiles /\ arrived.off \in Nat /\ arrived.n \in Nat
  BY CorpusAssumption DEF Chunk
<1>2. /\ c.file \in arrived.file .. kept /\ c.off \in {0, arrived.off + arrived.n} /\ c.n \in 1 .. MaxChunk
      /\ Follows(arrived, c)
  BY DEF NextChunks
<1>3. c.n \in Nat /\ c.n > 0 /\ c.off \in Nat /\ c.off + c.n <= LenOf(c.file)
  BY <1>1, <1>2 DEF Follows
<1>4. c.file # 0 BY <1>3 DEF LenOf
<1>5. c.file \in 1 .. kept /\ c.file \in 1 .. NFiles /\ c.file \in Nat BY <1>1, <1>2, <1>4
<1>6. LenOf(c.file) = FileLen[c.file] BY <1>4 DEF LenOf
<1>7. \A f \in 1 .. NFiles : BytesUpTo[f - 1] \in Nat BY UpToFile
<1>8. Place(arrived) = BytesUpTo[c.file - 1] + c.off
  <2>1. CASE c.file = arrived.file /\ c.off = arrived.off + arrived.n
    BY <1>4, <2>1 DEF Place
  <2>2. CASE c.file > arrived.file /\ c.off = 0 /\ EndsFile(arrived) /\ EmptyBetween(arrived.file, c.file)
    <3>1. c.file - 1 \in arrived.file .. NFiles BY <1>1, <1>5, <2>2
    <3>2. \A h \in arrived.file + 1 .. c.file - 1 : FileLen[h] = 0
      <4>1. \A h \in arrived.file + 1 .. c.file - 1 : h \in 1 .. NFiles /\ arrived.file < h /\ h < c.file
        BY <1>1, <1>5
      <4> QED BY <2>2, <4>1 DEF EmptyBetween
    <3>3. BytesUpTo[c.file - 1] = BytesUpTo[arrived.file] BY <1>1, <3>1, <3>2, UpToGrows
    <3>4. Place(arrived) = BytesUpTo[arrived.file]
      <4>1. CASE arrived.file = 0 BY <4>1, UpToFile DEF Place
      <4>2. CASE arrived.file # 0
        <5>1. arrived.file \in 1 .. NFiles /\ arrived.off + arrived.n = FileLen[arrived.file]
          BY <1>1, <2>2, <4>2 DEF EndsFile, LenOf
        <5>2. BytesUpTo[arrived.file] = BytesUpTo[arrived.file - 1] + FileLen[arrived.file]
          BY <5>1, UpToFile
        <5> QED BY <4>2, <5>1, <5>2 DEF Place
      <4> QED BY <4>1, <4>2
    <3>5. BytesUpTo[c.file - 1] \in Nat BY <1>5, <1>7
    <3> QED BY <2>2, <3>3, <3>4, <3>5
  <2> QED BY <1>2, <2>1, <2>2 DEF Follows
<1>9. Place(c) = BytesUpTo[c.file - 1] + (c.off + c.n) BY <1>4 DEF Place
<1>10. BytesUpTo[c.file - 1] \in Nat BY <1>5, <1>7
<1> QED BY <1>3, <1>5, <1>6, <1>8, <1>9, <1>10

LEMMA DeliveredInPlace ==
  ASSUME ScoringTypeOK, Begins(delivered, Listing), Len(delivered) = Place(arrived),
         arrived.off + arrived.n <= LenOf(arrived.file), NEW c \in NextChunks
  PROVE  /\ Begins(delivered \o Bytes(c), Listing)
         /\ Len(delivered \o Bytes(c)) = Place(c)
         /\ c.off + c.n <= LenOf(c.file)
<1> DEFINE B == Bytes(c)
           b == BytesUpTo[c.file - 1] + c.off
<1>1. /\ listed \in 0 .. NFiles /\ kept \in 0 .. listed /\ arrived \in Chunk
      /\ delivered \in Seq(Byte) /\ c \in Chunk
  BY NextChunkType DEF ScoringTypeOK
<1>2. /\ c.file \in 1 .. kept /\ c.file \in 1 .. NFiles
      /\ c.n \in Nat /\ c.off \in Nat /\ c.off + c.n <= FileLen[c.file]
      /\ Place(arrived) = b /\ Place(c) = b + c.n /\ b \in Nat
  BY <1>1, NextPlace
<1>3. B \in Seq(Byte) /\ Len(B) = c.n /\ \A j \in 1 .. c.n : B[j] = <<c.file, c.off + j - 1>>
  BY <1>1, BytesOfChunk DEF Bytes
<1>4. Joins(delivered, B) /\ Keeps(delivered, B) BY <1>1, <1>3, JoinsAll, KeepsAll
<1>5. NFiles \in Nat /\ FileLen[c.file] \in Nat BY <1>2, CorpusAssumption
<1>6. Listing = FirstFiles(listed) /\ Len(Listing) = Total /\ Total \in Nat
  BY <1>1, ListingBytes DEF Listing, FirstFiles
<1>7. ASSUME NEW j \in 1 .. c.n
      PROVE  /\ b + j \in 1 .. Total
             /\ (delivered \o B)[b + j] = Listing[b + j]
  <2> DEFINE o == c.off + j
  <2>1. o \in 1 .. FileLen[c.file] /\ listed \in c.file .. NFiles
    <3>1. j \in Nat /\ 1 <= j /\ j <= c.n BY <1>2
    <3>2. o \in 1 .. FileLen[c.file] BY <1>2, <1>5, <3>1
    <3>3. listed \in Nat /\ listed <= NFiles /\ c.file \in Nat /\ c.file <= listed
      BY <1>1, <1>2, <1>5
    <3> QED BY <1>5, <3>2, <3>3
  <2>2. BytesUpTo[c.file - 1] \in Nat BY <1>2, UpToFile
  <2>3. b + j = BytesUpTo[c.file - 1] + o BY <1>2, <2>2
  <2>4. (delivered \o B)[b + j] = <<c.file, c.off + j - 1>> BY <1>2, <1>3, <1>4 DEF Keeps
  <2>5. c.off + j - 1 = o - 1 BY <1>2
  <2> HIDE DEF o
  <2>6. /\ BytesUpTo[c.file - 1] + o \in 1 .. BytesUpTo[listed]
        /\ FirstFiles(listed)[BytesUpTo[c.file - 1] + o] = <<c.file, o - 1>>
    BY <1>2, <2>1, ByteOfFile
  <2> QED BY <1>6, <2>3, <2>4, <2>5, <2>6 DEF Total
<1> HIDE DEF B, b
<1>8. Len(delivered \o B) = b + c.n BY <1>2, <1>3, <1>4 DEF Joins
<1>9. b + c.n <= Total
  <2>1. CASE c.n = 0 BY <1>2, <1>6, <2>1 DEF Begins
  <2>2. CASE c.n # 0
    <3>1. c.n \in 1 .. c.n BY <1>2, <2>2
    <3> QED BY <1>2, <1>6, <1>7, <3>1
  <2> QED BY <2>1, <2>2
<1>10. ASSUME NEW i \in 1 .. b + c.n PROVE (delivered \o B)[i] = Listing[i]
  <2>1. CASE i <= b
    <3>1. i \in 1 .. Len(delivered) BY <1>2, <2>1
    <3> QED BY <1>4, <3>1 DEF Keeps, Begins
  <2>2. CASE ~(i <= b)
    <3>1. i - b \in 1 .. c.n /\ b + (i - b) = i BY <1>2, <2>2
    <3> QED BY <1>7, <3>1
  <2> QED BY <2>1, <2>2
<1>11. c.off + c.n <= LenOf(c.file) BY <1>2 DEF LenOf
<1> QED BY <1>2, <1>6, <1>8, <1>9, <1>10, <1>11 DEF Begins, B

LEMMA CorpusStarts == RecordsInit => CorpusInv
<1> SUFFICES ASSUME RecordsInit PROVE CorpusInv OBVIOUS
<1> USE DEF RecordsInit, LayoutInit, ScoringInit
<1>1. listed \in 0 .. NFiles /\ Len(Listing) = Total /\ Total \in Nat BY ListingBytes
<1>2. arrived = CorpusStart /\ arrived.file = 0 /\ arrived.off + arrived.n = 0 /\ LenOf(arrived.file) = 0
  BY DEF CorpusStart, LenOf
<1>3. delivered = <<>> /\ Len(delivered) = 0 /\ Place(arrived) = 0 BY <1>2 DEF Place
<1>4. Begins(delivered, Listing) BY <1>1, <1>3 DEF Begins
<1>5. ResultIsCorpus BY DEF ResultIsCorpus
<1> QED BY <1>2, <1>3, <1>4, <1>5 DEF CorpusInv

\* A chunk that is not ignored is delivered in its place.
LEMMA DeliveryStep ==
  ASSUME ScoringInv, CorpusInv, UNCHANGED layout, NEW c \in NextChunks,
         ScoreChunk(c) \/ CarryChunk(c)
  PROVE  CorpusInv'
<1>1. /\ spc = "scan" /\ ~capped /\ arrived' = c /\ delivered' = delivered \o Bytes(c)
      /\ UNCHANGED <<max, kept, spc, result, shape, listed>>
  BY DEF ScoreChunk, CarryChunk, Delivers, layout
<1>2. ScoringTypeOK /\ ScoringPhases BY DEF ScoringInv
<1>3. /\ Begins(delivered \o Bytes(c), Listing)
      /\ Len(delivered \o Bytes(c)) = Place(c)
      /\ c.off + c.n <= LenOf(c.file)
  BY <1>1, <1>2, DeliveredInPlace DEF CorpusInv
<1>4. Listing' = Listing /\ RecordBytes' = RecordBytes
  BY <1>1 DEF Listing, RecordBytes
<1>5. c.file <= kept
  <2>1. arrived.file \in Nat /\ kept \in Nat BY <1>2, CorpusAssumption DEF ScoringTypeOK, Chunk
  <2>2. c.file \in arrived.file .. kept BY DEF NextChunks
  <2> QED BY <2>1, <2>2
<1>6. Begins(delivered', Listing') BY <1>1, <1>3, <1>4
<1>7. Len(delivered') = Place(arrived') BY <1>1, <1>3
<1>8. result' = "running" BY <1>1, <1>2 DEF ScoringPhases
<1>9. ResultIsCorpus' BY <1>8 DEF ResultIsCorpus
<1>10. spc' # "start" /\ spc' = "scan" BY <1>1
<1>11. /\ arrived'.off + arrived'.n <= LenOf(arrived'.file)
       /\ arrived'.file <= kept'
  BY <1>1, <1>3, <1>5
<1>12. kept' = listed' \/ (max' # NoMax /\ kept' # 0 /\ BytesUpTo[kept'] >= max' * RecordBytes')
  BY <1>1, <1>4 DEF CorpusInv
<1> QED BY <1>6, <1>7, <1>9, <1>10, <1>11, <1>12 DEF CorpusInv

\* Where the stream ends everything kept has been delivered.
LEMMA KeptDelivered ==
  ASSUME ScoringTypeOK, CorpusInv, spc = "scan",
         EndsFile(arrived), EmptyBetween(arrived.file, kept + 1)
  PROVE  Place(arrived) = BytesUpTo[kept] /\ kept \in 0 .. NFiles /\ BytesUpTo[kept] \in Nat
<1>1. /\ NFiles \in Nat /\ \A f \in 1 .. NFiles : FileLen[f] \in Nat
      /\ arrived.file \in 0 .. NFiles /\ arrived.off \in Nat /\ arrived.n \in Nat
      /\ listed \in 0 .. NFiles /\ kept \in 0 .. listed
  BY CorpusAssumption DEF ScoringTypeOK, Chunk
<1>2. kept \in arrived.file .. NFiles /\ kept \in 0 .. NFiles BY <1>1 DEF CorpusInv
<1>3. \A h \in arrived.file + 1 .. kept : FileLen[h] = 0
  <2>1. \A h \in arrived.file + 1 .. kept : h \in 1 .. NFiles /\ arrived.file < h /\ h < kept + 1
    BY <1>1, <1>2
  <2> QED BY <2>1 DEF EmptyBetween
<1>4. BytesUpTo[kept] = BytesUpTo[arrived.file] BY <1>1, <1>2, <1>3, UpToGrows
<1>5. Place(arrived) = BytesUpTo[arrived.file]
  <2>1. CASE arrived.file = 0 BY <2>1, UpToFile DEF Place
  <2>2. CASE arrived.file # 0
    <3>1. arrived.file \in 1 .. NFiles /\ arrived.off + arrived.n = FileLen[arrived.file]
      BY <1>1, <2>2 DEF EndsFile, LenOf
    <3>2. BytesUpTo[arrived.file] = BytesUpTo[arrived.file - 1] + FileLen[arrived.file]
      BY <3>1, UpToFile
    <3> QED BY <2>2, <3>1, <3>2 DEF Place
  <2> QED BY <2>1, <2>2
<1> QED BY <1>2, <1>4, <1>5, UpToFile

\* What mse_mean_streaming returns at the end of the stream.
LEMMA StreamEndsRight ==
  ASSUME ScoringInv, CorpusInv, UNCHANGED layout, StreamEnds
  PROVE  ResultIsCorpus'
<1> DEFINE r == RecordBytes
           d == done
           p == Len(pending)
<1>1. ScoringTypeOK /\ LineOfBytes /\ CapBound /\ ScoringPhases BY DEF ScoringInv
<1>2. /\ spc = "scan" /\ EndsFile(arrived) /\ EmptyBetween(arrived.file, kept + 1)
      /\ result' = (IF pending # <<>> /\ ~capped THEN "trailing" ELSE "ok")
      /\ UNCHANGED <<max, kept, pending, scored, done, capped, delivered, shape, listed>>
  BY DEF StreamEnds, ScoringReturns, Idle, layout
<1>3. RecordBytes' = RecordBytes /\ Listing' = Listing /\ Total' = Total
  BY <1>2 DEF RecordBytes, Listing, Total
<1>4. r \in Nat /\ r > 0 /\ d \in Nat /\ p \in Nat /\ p < r /\ (pending # <<>> => p # 0)
      /\ (pending = <<>> => p = 0)
  BY <1>1, <1>2, RecordSize, EmptySeq, LenProperties DEF ScoringTypeOK, ScoringPhases, LineOfBytes
<1>5. d * r \in Nat BY <1>4, SMT
<1>6. /\ Place(arrived) = BytesUpTo[kept] /\ kept \in 0 .. NFiles /\ BytesUpTo[kept] \in Nat
  BY <1>1, <1>2, KeptDelivered
<1>7. listed \in 0 .. NFiles /\ Listing \in Seq(Byte) /\ Len(Listing) = Total /\ Total \in Nat
  BY <1>1, ListingBytes DEF ScoringTypeOK
<1>8. /\ scored \in Seq(Byte) /\ pending \in Seq(Byte) /\ delivered \in Seq(Byte)
      /\ Len(scored) = d * r /\ Len(delivered) \in Nat
  BY <1>1, LenProperties DEF ScoringTypeOK, LineOfBytes
<1>9. Begins(scored, delivered)
  <2>1. CASE capped
    <3>1. Len(scored) <= Len(delivered) /\ scored = SubSeq(delivered, 1, d * r)
      BY <1>1, <2>1 DEF LineOfBytes
    <3>2. ASSUME NEW i \in 1 .. d * r PROVE SubSeq(delivered, 1, d * r)[i] = delivered[i]
      <4> HIDE DEF d, r
      <4>1. \A j \in 1 .. d * r : delivered[j] \in Byte
        <5>1. \A j \in 1 .. d * r : j \in 1 .. Len(delivered) BY <1>5, <1>8, <3>1
        <5> QED BY <1>8, <5>1, ElementOfSeq
      <4>2. i \in 1 .. d * r - 1 + 1 /\ 1 + i - 1 = i /\ 1 \in Int /\ d * r \in Int BY <1>5
      <4>3. \A j \in 1 .. d * r - 1 + 1 :
              SubSeq(delivered, 1, d * r)[j] = delivered[1 + j - 1]
        BY <4>1, <4>2, SubSeqProperties
      <4> QED BY <4>2, <4>3
    <3> QED BY <1>8, <3>1, <3>2 DEF Begins
  <2>2. CASE ~capped
    <3>1. delivered = scored \o pending BY <1>1, <2>2 DEF LineOfBytes
    <3>2. Joins(scored, pending) /\ Keeps(scored, pending) BY <1>8, JoinsAll, KeepsAll
    <3> HIDE DEF d, r, p
    <3>3. Len(scored) <= Len(delivered) BY <1>4, <1>5, <1>8, <3>1, <3>2 DEF Joins, p
    <3> QED BY <3>1, <3>2, <3>3 DEF Begins, Keeps
  <2> QED BY <2>1, <2>2
<1>10. d * r <= Total /\ scored = SubSeq(Listing, 1, d * r)
  <2>1. Begins(delivered, Listing) BY DEF CorpusInv
  <2>2. Begins(scored, Listing)
    <3>1. Len(scored) \in Nat /\ Len(Listing) \in Nat BY <1>5, <1>7, <1>8
    <3> QED BY <1>8, <1>9, <2>1, <3>1 DEF Begins
  <2> HIDE DEF d, r
  <2>3. d * r <= Total BY <1>7, <1>8, <2>2 DEF Begins
  <2>4. \A i \in 1 .. d * r : Listing[i] \in Byte
    <3>1. \A i \in 1 .. d * r : i \in 1 .. Len(Listing) BY <1>5, <1>7, <2>3
    <3> QED BY <1>7, <3>1, ElementOfSeq
  <2> DEFINE m == d * r
             t == SubSeq(Listing, 1, m)
  <2>5. t \in Seq(Byte) /\ Len(t) = m /\ \A i \in 1 .. m : t[i] = Listing[i]
    <3>1. m \in Nat /\ (\A i \in 1 .. m : Listing[i] \in Byte) BY <1>5, <2>4
    <3> HIDE DEF m
    <3>2. /\ t \in Seq(Byte) /\ Len(t) = (IF 1 <= m THEN m - 1 + 1 ELSE 0)
          /\ \A i \in 1 .. m - 1 + 1 : t[i] = Listing[1 + i - 1]
      BY <3>1, SubSeqProperties
    <3>3. \A i \in 1 .. m : i \in 1 .. m - 1 + 1 /\ 1 + i - 1 = i BY <3>1
    <3>4. (IF 1 <= m THEN m - 1 + 1 ELSE 0) = m BY <3>1
    <3> HIDE DEF t
    <3> QED BY <3>2, <3>3, <3>4
  <2> HIDE DEF t, m
  <2>6. scored = t
    <3>1. Len(scored) = Len(t) /\ \A i \in 1 .. Len(scored) : scored[i] = t[i]
      BY <1>8, <2>2, <2>5 DEF Begins, m
    <3> QED BY <1>8, <2>5, <3>1, SeqEqual
  <2> QED BY <2>3, <2>6 DEF t, m
<1>11. ASSUME ~capped
       PROVE  /\ kept = listed \/ d * r + p >= max * r
              /\ d * r + p = BytesUpTo[kept]
              /\ kept # listed => max # NoMax
              /\ max # NoMax => max \in Nat /\ d < max /\ d * r + r <= max * r
  <2>1. delivered = scored \o pending /\ Joins(scored, pending)
    BY <1>1, <1>8, <1>11, JoinsAll DEF LineOfBytes
  <2>2. Len(delivered) = BytesUpTo[kept] BY <1>6, <1>11 DEF CorpusInv
  <2>3. d * r + p = BytesUpTo[kept] BY <1>8, <2>1, <2>2 DEF Joins
  <2>4. ASSUME max # NoMax PROVE max \in Nat /\ d < max /\ d * r + r <= max * r
    <3>1. max \in Nat /\ d <= max /\ d # max
      BY <1>1, <1>2, <1>11, <2>4, MaximaAssumption DEF ScoringTypeOK, CapBound
    <3>2. d < max /\ d + 1 \in Nat /\ d + 1 <= max BY <1>4, <3>1
    <3> HIDE DEF d, r
    <3>3. (d + 1) * r <= max * r BY <1>4, <3>1, <3>2, Monotone
    <3>4. (d + 1) * r = d * r + r BY <1>4, SMT
    <3> QED BY <3>1, <3>2, <3>3, <3>4
  <2>5. kept = listed \/ (max # NoMax /\ BytesUpTo[kept] >= max * r) BY <1>2 DEF CorpusInv
  <2> HIDE DEF d, r, p
  <2> QED BY <2>3, <2>4, <2>5
<1>12. ASSUME ~capped PROVE kept = listed
  <2>1. SUFFICES ASSUME kept # listed PROVE FALSE OBVIOUS
  <2>2. d * r + p >= max * r /\ max \in Nat /\ d * r + r <= max * r BY <1>11, <1>12, <2>1
  <2> HIDE DEF d, r, p
  <2>3. max * r \in Nat BY <1>4, <2>2, SMT
  <2> QED BY <1>4, <1>5, <2>2, <2>3
<1>13. CASE result' = "ok"
  <2>1. CASE capped
    <3>1. max # NoMax /\ done = max BY <1>1, <2>1 DEF LineOfBytes
    <3> QED BY <1>2, <1>3, <1>10, <1>13, <3>1 DEF ResultIsCorpus
  <2>2. CASE ~capped
    <3>1. pending = <<>> BY <1>2, <1>13, <2>2
    <3>2. d * r + p = Total BY <1>11, <1>12, <2>2 DEF Total
    <3>3. d * r = Total BY <1>4, <1>5, <3>1, <3>2
    <3> QED BY <1>2, <1>3, <1>10, <1>13, <3>3 DEF ResultIsCorpus
  <2> QED BY <2>1, <2>2
<1>14. CASE result' # "ok"
  <2>1. ~capped /\ pending # <<>> BY <1>2, <1>14
  <2>2. d * r + p = Total /\ p # 0 BY <1>4, <1>11, <1>12, <2>1 DEF Total
  <2>3. Total % r # 0
    <3> HIDE DEF d, r, p
    <3>1. (d * r + p) % r = p BY <1>4, Remainder
    <3> QED BY <2>2, <3>1
  <2>4. max # NoMax => Total < max * r
    <3> SUFFICES ASSUME max # NoMax PROVE Total < max * r OBVIOUS
    <3>1. max \in Nat /\ d * r + r <= max * r BY <1>11, <2>1
    <3> HIDE DEF d, r, p
    <3>2. max * r \in Nat BY <1>4, <3>1, SMT
    <3> QED BY <1>4, <1>5, <2>2, <3>1, <3>2
  <2> QED BY <1>2, <1>3, <1>14, <2>3, <2>4 DEF ResultIsCorpus
<1> QED BY <1>13, <1>14

LEMMA NothingScoredRight ==
  ASSUME ScoringInv, UNCHANGED layout, NothingToScore
  PROVE  ResultIsCorpus'
<1>1. ScoringTypeOK /\ ScoringPhases BY DEF ScoringInv
<1>2. /\ spc = "start" /\ result' = "ok" /\ (RecordBytes = 0 \/ max = 0 \/ listed = 0)
      /\ done' = 0 /\ scored' = <<>> /\ max' = max /\ listed' = listed /\ shape' = shape
  BY <1>1 DEF NothingToScore, ScoringReturns, Idle, layout, ScoringPhases
<1>3. RecordBytes' = RecordBytes /\ Total' = Total /\ Listing' = Listing /\ RecordBytes \in Nat
  BY <1>1, <1>2, RecordSize DEF RecordBytes, Total, Listing, ScoringTypeOK
<1>4. 0 * RecordBytes = 0 BY <1>3
<1>5. SubSeq(Listing, 1, 0 * RecordBytes) = <<>> BY <1>4, SubSeqEmpty
<1>6. max = 0 => max # NoMax BY MaximaAssumption
<1>7. listed = 0 => Total = 0 BY UpToFile DEF Total
<1> QED BY <1>2, <1>3, <1>4, <1>5, <1>6, <1>7 DEF ResultIsCorpus

LEMMA CoverOrAll ==
  \/ KeptFiles(max) = listed
  \/ max # NoMax /\ KeptFiles(max) # 0 /\ BytesUpTo[KeptFiles(max)] >= max * RecordBytes
<1>1. CASE max = NoMax \/ Covering(max) = {} BY <1>1 DEF KeptFiles
<1>2. CASE ~(max = NoMax \/ Covering(max) = {})
  <2>1. \E f : f \in Covering(max) BY <1>2
  <2>2. KeptFiles(max) \in Covering(max) BY <1>2, <2>1 DEF KeptFiles
  <2> QED BY <1>2, <2>2 DEF Covering
<1> QED BY <1>1, <1>2

LEMMA CorpusStep ==
  ASSUME ScoringInv, CorpusInv, [RecordsNext]_<<layout, svars, ivars>>
  PROVE  CorpusInv'
<1>1. UNCHANGED layout /\ shape' = shape /\ listed' = listed /\ RecordBytes' = RecordBytes
      /\ Listing' = Listing /\ Total' = Total
  BY DEF RecordsNext, layout, RecordBytes, Listing, Total
<1>2. ScoringTypeOK /\ LineOfBytes /\ ScoringPhases BY DEF ScoringInv
<1>3. ASSUME UNCHANGED <<max, delivered, capped>>, ResultIsCorpus', spc' # "start",
             UNCHANGED arrived \/ (capped /\ \E c \in NextChunks : spc = "scan" /\ arrived' = c),
             spc' = "scan" => /\ arrived'.file <= kept'
                              /\ \/ kept' = listed
                                 \/ max # NoMax /\ kept' # 0 /\ BytesUpTo[kept'] >= max * RecordBytes
      PROVE  CorpusInv'
  <2>1. arrived'.off + arrived'.n <= LenOf(arrived'.file)
    <3>1. CASE UNCHANGED arrived BY <3>1 DEF CorpusInv
    <3>2. ASSUME NEW c \in NextChunks, arrived' = c PROVE arrived'.off + arrived'.n <= LenOf(arrived'.file)
      BY <3>2 DEF NextChunks, Follows
    <3> QED BY <1>3, <3>1, <3>2
  <2>2. ~capped' => Len(delivered') = Place(arrived') BY <1>3 DEF CorpusInv
  <2>3. Begins(delivered', Listing') BY <1>1, <1>3 DEF CorpusInv
  <2>4. spc' = "scan" =>
          /\ arrived'.file <= kept'
          /\ \/ kept' = listed'
             \/ max' # NoMax /\ kept' # 0 /\ BytesUpTo[kept'] >= max' * RecordBytes'
    BY <1>1, <1>3
  <2> QED BY <1>3, <2>1, <2>2, <2>3, <2>4 DEF CorpusInv
<1>4. CASE UNCHANGED svars
  <2>1. UNCHANGED <<max, kept, spc, pending, scored, done, capped, arrived, delivered, result>>
    BY <1>4 DEF svars
  <2>2. ResultIsCorpus' BY <1>1, <2>1 DEF ResultIsCorpus, CorpusInv
  <2>3. Begins(delivered', Listing') BY <1>1, <2>1 DEF CorpusInv
  <2>4. ~capped' => Len(delivered') = Place(arrived') BY <2>1 DEF CorpusInv
  <2> QED BY <1>1, <2>1, <2>2, <2>3, <2>4 DEF CorpusInv
<1>5. CASE ScoringNext
  <2>1. ASSUME NEW c \in NextChunks, ScoreChunk(c) \/ CarryChunk(c) PROVE CorpusInv'
    BY <1>1, <2>1, DeliveryStep
  <2>2. CASE NothingToScore
    <3>1. UNCHANGED <<max, delivered, capped, arrived>> /\ spc' = "end"
      BY <2>2 DEF NothingToScore, ScoringReturns, Idle
    <3>2. ResultIsCorpus' BY <1>1, <2>2, NothingScoredRight
    <3> QED BY <1>3, <3>1, <3>2
  <2>3. CASE StreamEnds
    <3>1. UNCHANGED <<max, delivered, capped, arrived>> /\ spc' = "end"
      BY <2>3 DEF StreamEnds, ScoringReturns, Idle
    <3>2. ResultIsCorpus' BY <1>1, <2>3, StreamEndsRight
    <3> QED BY <1>3, <3>1, <3>2
  <2>4. CASE DirectoryFails \/ StreamFails
    <3>1. UNCHANGED <<max, delivered, capped, arrived>> /\ spc' = "end" /\ result' = "io"
      BY <2>4 DEF DirectoryFails, StreamFails, ScoringReturns, Idle
    <3>2. ResultIsCorpus' BY <3>1 DEF ResultIsCorpus
    <3> QED BY <1>3, <3>1, <3>2
  <2>5. CASE StartScan
    <3>1. UNCHANGED <<max, delivered, capped, arrived>> /\ spc' = "scan" /\ result' = "running"
          /\ kept' = KeptFiles(max) /\ arrived = CorpusStart
      BY <1>2, <2>5 DEF StartScan, ScoringPhases, CorpusInv
    <3>2. ResultIsCorpus' BY <3>1 DEF ResultIsCorpus
    <3>3. arrived'.file <= kept'
      <4>1. kept' \in 0 .. listed /\ listed \in Nat
        BY <1>2, <3>1, KeptFilesListed, CorpusAssumption DEF ScoringTypeOK
      <4> QED BY <3>1, <4>1 DEF CorpusStart
    <3> QED BY <1>3, <3>1, <3>2, <3>3, CoverOrAll
  <2>6. ASSUME NEW c \in NextChunks, IgnoreChunk(c) PROVE CorpusInv'
    <3>1. UNCHANGED <<max, delivered, capped, kept, spc, result>> /\ spc = "scan" /\ capped
          /\ arrived' = c
      BY <2>6 DEF IgnoreChunk, Delivers
    <3>2. ResultIsCorpus' BY <1>2, <3>1 DEF ResultIsCorpus, ScoringPhases
    <3>3. arrived'.file <= kept'
      <4>1. arrived.file \in Nat /\ kept \in Nat BY <1>2, CorpusAssumption DEF ScoringTypeOK, Chunk
      <4>2. c.file \in arrived.file .. kept BY DEF NextChunks
      <4> QED BY <3>1, <4>1, <4>2
    <3>4. kept' = listed
          \/ (max # NoMax /\ kept' # 0 /\ BytesUpTo[kept'] >= max * RecordBytes)
      BY <3>1 DEF CorpusInv
    <3> QED BY <1>3, <3>1, <3>2, <3>3, <3>4
  <2> QED BY <1>5, <2>1, <2>2, <2>3, <2>4, <2>5, <2>6 DEF ScoringNext
<1> QED BY <1>4, <1>5 DEF RecordsNext

-----------------------------------------------------------------------------
(* The iterator.                                                            *)

Span(f, o, m) == [file |-> f, off |-> o, n |-> m]

LEMMA SpanBytes ==
  ASSUME NEW f \in 0 .. NFiles, NEW o \in Nat, NEW m \in Nat
  PROVE  /\ Bytes(Span(f, o, m)) \in Seq(Byte) /\ Len(Bytes(Span(f, o, m))) = m
         /\ \A i \in 1 .. m : Bytes(Span(f, o, m))[i] = <<f, o + i - 1>>
<1>1. Span(f, o, m) \in Chunk /\ Span(f, o, m).n = m BY DEF Chunk, Span
<1>2. \A i \in 1 .. m : Bytes(Span(f, o, m))[i] = <<f, o + i - 1>> BY DEF Bytes, Span
<1> QED BY <1>1, <1>2, BytesOfChunk

LEMMA SpanSplits ==
  ASSUME NEW f \in 0 .. NFiles, NEW o \in Nat, NEW a \in Nat, NEW b \in Nat
  PROVE  Bytes(Span(f, o, a + b)) = Bytes(Span(f, o, a)) \o Bytes(Span(f, o + a, b))
<1> DEFINE s == Bytes(Span(f, o, a))
           t == Bytes(Span(f, o + a, b))
           u == Bytes(Span(f, o, a + b))
<1>1. s \in Seq(Byte) /\ Len(s) = a /\ \A i \in 1 .. a : s[i] = <<f, o + i - 1>> BY SpanBytes
<1>2. t \in Seq(Byte) /\ Len(t) = b /\ \A i \in 1 .. b : t[i] = <<f, (o + a) + i - 1>>
  <2>1. o + a \in Nat OBVIOUS
  <2> QED BY <2>1, SpanBytes
<1>3. u \in Seq(Byte) /\ Len(u) = a + b /\ \A i \in 1 .. a + b : u[i] = <<f, o + i - 1>>
  <2>1. a + b \in Nat OBVIOUS
  <2> QED BY <2>1, SpanBytes
<1> HIDE DEF s, t, u
<1>4. Joins(s, t) /\ Keeps(s, t) BY <1>1, <1>2, JoinsAll, KeepsAll
<1>5. ASSUME NEW i \in 1 .. a + b PROVE u[i] = (s \o t)[i]
  <2>1. CASE i <= a
    <3>1. i \in 1 .. a BY <2>1
    <3> QED BY <1>1, <1>3, <1>4, <3>1 DEF Keeps
  <2>2. CASE ~(i <= a)
    <3> DEFINE j == i - a
    <3>1. j \in 1 .. b /\ a + j = i /\ (o + a) + j - 1 = o + i - 1 BY <2>2
    <3> HIDE DEF j
    <3>2. (s \o t)[a + j] = t[j] BY <1>1, <1>2, <1>4, <3>1 DEF Keeps
    <3> QED BY <1>2, <1>3, <3>1, <3>2
  <2> QED BY <2>1, <2>2
<1>6. s \o t \in Seq(Byte) /\ Len(s \o t) = a + b BY <1>1, <1>2, <1>4 DEF Joins
<1>7. u = s \o t BY <1>3, <1>5, <1>6, SeqEqual
<1> QED BY <1>7 DEF s, t, u

LEMMA NoBytes == ASSUME NEW f, NEW o PROVE Bytes(Span(f, o, 0)) = <<>>
<1>1. Span(f, o, 0).n = 0 BY DEF Span
<1>2. Bytes(Span(f, o, 0)) = [i \in 1 .. 0 |-> <<Span(f, o, 0).file, Span(f, o, 0).off + i - 1>>]
  BY <1>1 DEF Bytes
<1> QED BY <1>2

LEMMA WholeRecords ==
  ASSUME NEW r \in Nat, r > 0, NEW n \in Nat, n % r = 0
  PROVE  n \div r \in Nat /\ (n \div r) * r = n /\ (n > 0 => n \div r > 0)
<1>1. n \div r \in Nat BY Division
<1>2. n = r * (n \div r) + (n % r) BY SMT
<1>3. r * (n \div r) = (n \div r) * r BY <1>1, SMT
<1>4. (n \div r) * r \in Nat BY <1>1, SMT
<1>5. (n \div r) * r = n BY <1>2, <1>3, <1>4
<1>6. n \div r = 0 => (n \div r) * r = 0 BY SMT
<1> QED BY <1>1, <1>5, <1>6

LEMMA IteratorStarts == RecordsInit => IteratorInv
<1> SUFFICES ASSUME RecordsInit PROVE IteratorInv OBVIOUS
<1> USE DEF RecordsInit, LayoutInit, IteratorInit
<1>1. IteratorTypeOK
  <2>1. 0 \in 0 .. listed /\ 0 \in 0 .. NFiles BY CorpusAssumption
  <2> QED BY <2>1 DEF IteratorTypeOK
<1>2. IteratorPhases BY DEF IteratorPhases
<1>3. FilesInOrder BY DEF FilesInOrder
<1>4. BytesOf(opened) = <<>> BY BytesOfNothing
<1>5. RecordBytes \in Nat BY RecordSize
<1>6. Rest = Span(0, 0, 0) BY <1>5 DEF Rest, Span
<1>7. Bytes(Rest) = <<>> /\ <<>> \o <<>> = <<>>
  <2>1. <<>> \in Seq(Byte) OBVIOUS
  <2> QED BY <1>6, <2>1, NoBytes, ConcatEmptySeq
<1>8. FirstFiles(index) = <<>> BY FirstFilesBytes
<1> QED BY <1>1, <1>2, <1>3, <1>4, <1>7, <1>8 DEF IteratorInv

\* What the iterator has and has not read, for steps that touch neither.
Unread == <<rfile, rpos, remaining, yielded, opened>>

LEMMA StillUnread ==
  ASSUME IteratorInv, UNCHANGED layout, UNCHANGED Unread
  PROVE  /\ RecordBytes' = RecordBytes /\ Rest' = Rest /\ BytesOf(opened)' = BytesOf(opened)
         /\ "read" \notin errors => BytesOf(opened)' = (yielded \o Bytes(Rest))'
<1>1. /\ shape' = shape /\ rfile' = rfile /\ rpos' = rpos /\ remaining' = remaining
      /\ yielded' = yielded /\ opened' = opened
  BY DEF layout, Unread
<1>2. RecordBytes' = RecordBytes BY <1>1 DEF RecordBytes
<1>3. Rest' = Rest BY <1>1, <1>2 DEF Rest
<1>4. BytesOf(opened)' = BytesOf(opened) BY <1>1 DEF BytesOf
<1>5. Bytes(Rest)' = Bytes(Rest) BY <1>3 DEF Bytes
<1> QED BY <1>1, <1>2, <1>3, <1>4, <1>5 DEF IteratorInv

\* The calls and the errors that pass no file.
LEMMA WaitingStep ==
  ASSUME IteratorInv, UNCHANGED layout,
         \/ RefuseShape \/ ListingFails \/ NewIterator \/ CallNext \/ StatFails \/ WrongSize
         \/ UNCHANGED ivars
  PROVE  IteratorInv'
<1>1. /\ IteratorTypeOK /\ IteratorPhases /\ FilesInOrder BY DEF IteratorInv
<1>2. UNCHANGED Unread /\ index' = index /\ shape' = shape /\ listed' = listed
  BY DEF RefuseShape, ListingFails, NewIterator, CallNext, StatFails, WrongSize, ivars, Unread,
         layout
<1>3. /\ RecordBytes' = RecordBytes /\ BytesOf(opened)' = BytesOf(opened)
      /\ "read" \notin errors => BytesOf(opened)' = (yielded \o Bytes(Rest))'
  BY <1>2, StillUnread
<1>4. errors \subseteq errors'
  BY DEF RefuseShape, ListingFails, NewIterator, CallNext, StatFails, WrongSize, ivars,
         IteratorFails
<1>5. IteratorTypeOK' /\ FilesInOrder' BY <1>1, <1>2, <1>3 DEF IteratorTypeOK, FilesInOrder, Unread
<1>6. IteratorPhases'
  <2>1. RecordBytes \in Nat BY <1>1, RecordSize DEF IteratorTypeOK
  <2>2. remaining' = remaining /\ remaining \in Nat BY <1>1, <1>2 DEF Unread, IteratorTypeOK
  <2>3. CASE NewIterator
    <3>1. shape \in [in : Nat, out : Nat] BY <1>1, ShapesAssumption DEF IteratorTypeOK
    <3>2. RecordBytes > 0 BY <2>3, <3>1 DEF NewIterator, RecordBytes
    <3> QED BY <1>1, <1>2, <1>3, <2>2, <2>3, <3>2 DEF NewIterator, IteratorPhases
  <2>4. CASE CallNext
    BY <1>1, <1>2, <1>3, <2>2, <2>4 DEF CallNext, IteratorPhases
  <2>5. CASE RefuseShape \/ ListingFails \/ StatFails \/ WrongSize
    <3>1. ipc' \in {"idle", "dead"} /\ answer' = "error" /\ (ipc' = "idle" => ipc # "new")
      BY <1>1, <2>5 DEF IteratorPhases, RefuseShape, ListingFails, StatFails, WrongSize, IteratorFails
    <3>2. ipc' = "idle" => RecordBytes > 0
      BY <1>1, <2>5, <3>1 DEF RefuseShape, ListingFails, StatFails, WrongSize, IteratorPhases
    <3> QED BY <1>3, <3>1, <3>2 DEF IteratorPhases
  <2>6. CASE UNCHANGED ivars
    BY <1>1, <1>2, <1>3, <2>2, <2>6 DEF ivars, IteratorPhases
  <2> QED BY <2>3, <2>4, <2>5, <2>6
<1>7. "open" \notin errors' => BytesOf(opened)' = FirstFiles(index')
  BY <1>2, <1>3, <1>4 DEF IteratorInv
<1>8. FirstFiles(index)' = FirstFiles(index')
  BY DEF FirstFiles, BytesOf
<1> QED BY <1>3, <1>4, <1>5, <1>6, <1>7, <1>8 DEF IteratorInv

LEMMA SkipStep ==
  ASSUME IteratorInv, UNCHANGED layout, SkipEmpty \/ OpenFails
  PROVE  IteratorInv'
<1> DEFINE f == index + 1
<1>1. /\ IteratorTypeOK /\ IteratorPhases /\ FilesInOrder BY DEF IteratorInv
<1>2. /\ UNCHANGED Unread /\ shape' = shape /\ listed' = listed
      /\ index' = f /\ ipc = "opening" /\ index < listed /\ errors \subseteq errors'
      /\ NextLen = 0 \/ NextLen % RecordBytes = 0
  BY DEF SkipEmpty, OpenFails, Unread, layout, IteratorFails
<1>3. /\ RecordBytes' = RecordBytes /\ BytesOf(opened)' = BytesOf(opened)
      /\ "read" \notin errors => BytesOf(opened)' = (yielded \o Bytes(Rest))'
  BY <1>2, StillUnread
<1>4. /\ RecordBytes \in Nat /\ RecordBytes > 0
      /\ index \in 0 .. listed /\ listed \in 0 .. NFiles /\ NFiles \in Nat
  BY <1>1, <1>2, RecordSize, CorpusAssumption DEF IteratorTypeOK, IteratorPhases
<1>5. f \in 1 .. NFiles /\ f \in 0 .. listed /\ index \in Nat /\ f - 1 = index BY <1>2, <1>4
<1>6. FileLen[f] % RecordBytes = 0
  <2>1. 0 % RecordBytes = 0 BY <1>4
  <2> QED BY <1>2, <2>1 DEF NextLen
<1>7. IteratorTypeOK' BY <1>1, <1>2, <1>5 DEF IteratorTypeOK, Unread
<1>8. FilesInOrder'
  <2>1. \A g \in 1 .. index' : FileLen[g] % RecordBytes = 0
    <3>1. \A g \in 1 .. index' : g \in 1 .. index \/ g = f BY <1>2, <1>5
    <3> QED BY <1>1, <1>6, <3>1 DEF FilesInOrder
  <2>2. \A i \in 1 .. Len(opened) :
          opened[i] <= index' /\ \A j \in 1 .. i - 1 : opened[j] < opened[i]
    <3> TAKE i \in 1 .. Len(opened)
    <3>1. opened[i] \in 1 .. NFiles BY <1>1, ElementOfSeq DEF IteratorTypeOK
    <3>2. opened[i] <= index /\ \A j \in 1 .. i - 1 : opened[j] < opened[i]
      BY <1>1 DEF FilesInOrder
    <3> QED BY <1>2, <1>5, <3>1, <3>2
  <2> QED BY <1>2, <1>3, <2>1, <2>2 DEF FilesInOrder, Unread
<1>9. IteratorPhases'
  <2>1. remaining' = 0 /\ ipc' # "reading" /\ answer' # "end" /\ (ipc' = "new" => FALSE)
    <3>1. index # listed BY <1>2, <1>4
    <3>2. answer # "end" BY <1>1, <3>1 DEF IteratorPhases
    <3> QED BY <1>1, <1>2, <3>2 DEF SkipEmpty, OpenFails, IteratorFails, Unread, IteratorPhases
  <2> QED BY <1>3, <1>4, <2>1 DEF IteratorPhases
<1>10. "open" \notin errors' => BytesOf(opened)' = FirstFiles(index')
  <2> SUFFICES ASSUME "open" \notin errors' PROVE BytesOf(opened) = FirstFiles(f)
    BY <1>2, <1>3
  <2>1. SkipEmpty BY DEF OpenFails, IteratorFails
  <2>2. FileLen[f] = 0 BY <2>1 DEF SkipEmpty, NextLen
  <2>3. BytesOf(opened) = FirstFiles(index) BY <1>2 DEF IteratorInv
  <2> HIDE DEF f
  <2>4. FirstFiles(f) = FirstFiles(f - 1) \o FileBytes(f) /\ FirstFiles(f - 1) \in Seq(Byte)
    <3>1. f - 1 \in 0 .. NFiles BY <1>4, <1>5
    <3> QED BY <1>5, <3>1, FirstFilesBytes
  <2>5. FileBytes(f) = <<>> BY <2>2, NoBytes DEF FileBytes, Span
  <2> QED BY <1>5, <2>3, <2>4, <2>5, ConcatEmptySeq
<1>11. FirstFiles(index)' = FirstFiles(index') BY DEF FirstFiles, BytesOf
<1> QED BY <1>2, <1>3, <1>7, <1>8, <1>9, <1>10, <1>11 DEF IteratorInv

LEMMA OpenStep ==
  ASSUME IteratorInv, UNCHANGED layout, OpenFile
  PROVE  IteratorInv'
<1> DEFINE f == index + 1
           k == NextLen \div RecordBytes
<1>1. /\ IteratorTypeOK /\ IteratorPhases /\ FilesInOrder BY DEF IteratorInv
<1>2. /\ shape' = shape /\ listed' = listed /\ yielded' = yielded /\ errors' = errors
      /\ index' = f /\ rfile' = f /\ rpos' = 0 /\ remaining' = k /\ opened' = Append(opened, f)
      /\ ipc = "opening" /\ index < listed /\ ipc' \in {"reading", "idle"} /\ answer' = answer
      /\ FileLen[f] > 0 /\ FileLen[f] % RecordBytes = 0
  BY DEF OpenFile, NextLen, layout
<1>3. RecordBytes' = RecordBytes BY <1>2 DEF RecordBytes
<1>4. /\ RecordBytes \in Nat /\ RecordBytes > 0 /\ remaining = 0
      /\ index \in 0 .. listed /\ listed \in 0 .. NFiles /\ NFiles \in Nat
  BY <1>1, <1>2, RecordSize, CorpusAssumption DEF IteratorTypeOK, IteratorPhases
<1>5. f \in 1 .. NFiles /\ f \in 0 .. listed /\ index \in Nat /\ f - 1 = index
      /\ f \in 0 .. NFiles
  BY <1>2, <1>4
<1>6. FileLen[f] \in Nat BY <1>5, CorpusAssumption
<1>7. k \in Nat /\ k > 0 /\ k * RecordBytes = FileLen[f] BY <1>2, <1>4, <1>6, WholeRecords DEF NextLen
<1>8. opened \in Seq(1 .. NFiles) /\ yielded \in Seq(Byte) BY <1>1 DEF IteratorTypeOK
<1> HIDE DEF k
<1>9. /\ opened' \in Seq(1 .. NFiles) /\ Len(opened') = Len(opened) + 1 /\ Len(opened) \in Nat
      /\ opened'[Len(opened) + 1] = f
      /\ \A i \in 1 .. Len(opened) : opened'[i] = opened[i] /\ opened[i] \in 1 .. NFiles
  <2> HIDE DEF f
  <2>1. /\ Append(opened, f) \in Seq(1 .. NFiles) /\ Len(Append(opened, f)) = Len(opened) + 1
        /\ Append(opened, f)[Len(opened) + 1] = f
        /\ \A i \in 1 .. Len(opened) : Append(opened, f)[i] = opened[i]
    BY <1>5, <1>8, AppendProperties
  <2>2. Len(opened) \in Nat /\ \A i \in 1 .. Len(opened) : opened[i] \in 1 .. NFiles
    BY <1>8, LenProperties, ElementOfSeq
  <2> QED BY <1>2, <2>1, <2>2
<1>10. IteratorTypeOK' BY <1>1, <1>2, <1>5, <1>7, <1>9 DEF IteratorTypeOK
<1>11. FilesInOrder'
  <2>1. \A g \in 1 .. f : FileLen[g] % RecordBytes = 0
    <3>1. \A g \in 1 .. f : g \in 1 .. index \/ g = f BY <1>5
    <3> QED BY <1>1, <1>2, <3>1 DEF FilesInOrder
  <2>2. ASSUME NEW i \in 1 .. Len(opened) + 1
        PROVE  opened'[i] <= f /\ \A j \in 1 .. i - 1 : opened'[j] < opened'[i]
    <3>1. CASE i \in 1 .. Len(opened)
      <4>1. opened'[i] = opened[i] /\ opened[i] \in 1 .. NFiles BY <1>9, <3>1
      <4>2. opened[i] <= index /\ \A j \in 1 .. i - 1 : opened[j] < opened[i]
        BY <1>1, <3>1 DEF FilesInOrder
      <4>3. \A j \in 1 .. i - 1 : j \in 1 .. Len(opened) BY <1>9, <3>1
      <4> QED BY <1>5, <1>9, <4>1, <4>2, <4>3
    <3>2. CASE i = Len(opened) + 1
      <4>1. \A j \in 1 .. i - 1 : j \in 1 .. Len(opened) BY <1>9, <3>2
      <4>2. \A j \in 1 .. Len(opened) : opened[j] <= index BY <1>1 DEF FilesInOrder
      <4>3. opened'[i] = f BY <1>9, <3>2
      <4>4. \A j \in 1 .. i - 1 : opened'[j] = opened[j] /\ opened[j] \in Nat /\ opened[j] <= index
        BY <1>9, <4>1, <4>2
      <4>5. \A n \in Nat : n <= index => n < f BY <1>5
      <4>6. f <= f BY <1>5
      <4> QED BY <4>3, <4>4, <4>5, <4>6
    <3> QED BY <1>9, <3>1, <3>2
  <2> QED BY <1>2, <1>3, <1>9, <2>1, <2>2 DEF FilesInOrder
<1>12. IteratorPhases'
  <2>1. answer' # "end" BY <1>1, <1>2, <1>4 DEF IteratorPhases
  <2> QED BY <1>2, <1>3, <1>4, <1>7, <2>1 DEF IteratorPhases
<1>13. /\ BytesOf(opened) \in Seq(Byte)
       /\ BytesOf(opened)' = BytesOf(opened) \o FileBytes(f)
  <2>1. BytesOf(opened)' = BytesOf(opened') BY DEF BytesOf
  <2> HIDE DEF f
  <2> QED BY <1>2, <1>5, <1>8, <2>1, BytesOfAppend
<1>14. Rest' = Span(f, 0, FileLen[f]) BY <1>2, <1>3, <1>7 DEF Rest, Span
<1>15. Bytes(Rest)' = FileBytes(f)
  <2>1. Bytes(Rest)' = Bytes(Rest') BY DEF Bytes
  <2> QED BY <1>14, <2>1 DEF FileBytes, Span
<1>16. "read" \notin errors' => BytesOf(opened)' = (yielded \o Bytes(Rest))'
  <2> SUFFICES ASSUME "read" \notin errors PROVE BytesOf(opened) = yielded
    BY <1>2, <1>13, <1>15
  <2>1. BytesOf(opened) = yielded \o Bytes(Rest) BY DEF IteratorInv
  <2>2. Rest = Span(rfile, rpos, 0)
    <3>1. 0 * RecordBytes = 0 BY <1>4
    <3> QED BY <1>4, <3>1 DEF Rest, Span
  <2> QED BY <1>8, <2>1, <2>2, NoBytes, ConcatEmptySeq
<1>17. "open" \notin errors' => BytesOf(opened)' = FirstFiles(index')
  <2> SUFFICES ASSUME "open" \notin errors PROVE BytesOf(opened) \o FileBytes(f) = FirstFiles(f)
    BY <1>2, <1>13
  <2>1. BytesOf(opened) = FirstFiles(f - 1) BY <1>5 DEF IteratorInv
  <2> HIDE DEF f
  <2> QED BY <1>5, <2>1, FirstFilesBytes
<1>18. FirstFiles(index)' = FirstFiles(index') BY DEF FirstFiles, BytesOf
<1> QED BY <1>10, <1>11, <1>12, <1>16, <1>17, <1>18 DEF IteratorInv

LEMMA NoMoreStep ==
  ASSUME IteratorInv, UNCHANGED layout, NoMoreFiles
  PROVE  IteratorInv'
<1>1. /\ IteratorTypeOK /\ IteratorPhases /\ FilesInOrder BY DEF IteratorInv
<1>2. /\ shape' = shape /\ listed' = listed /\ yielded' = yielded /\ errors' = errors
      /\ index' = index /\ rfile' = 0 /\ rpos' = rpos /\ remaining' = 0 /\ opened' = opened
      /\ ipc = "opening" /\ index = listed /\ ipc' = "idle"
  BY DEF NoMoreFiles, layout
<1>3. RecordBytes' = RecordBytes /\ RecordBytes \in Nat /\ RecordBytes > 0 /\ remaining = 0
  BY <1>1, <1>2, RecordSize DEF RecordBytes, IteratorTypeOK, IteratorPhases
<1>4. IteratorTypeOK' BY <1>1, <1>2, CorpusAssumption DEF IteratorTypeOK
<1>5. IteratorPhases' /\ FilesInOrder' BY <1>1, <1>2, <1>3 DEF IteratorPhases, FilesInOrder
<1>6. BytesOf(opened)' = BytesOf(opened) /\ FirstFiles(index)' = FirstFiles(index)
  BY <1>2 DEF BytesOf, FirstFiles
<1>7. Bytes(Rest) = <<>> /\ Bytes(Rest)' = <<>>
  <2>1. 0 * RecordBytes = 0 /\ 0 * RecordBytes' = 0 BY <1>3
  <2>2. Rest = Span(rfile, rpos, 0) /\ Rest' = Span(0, rpos, 0)
    BY <1>2, <1>3, <2>1 DEF Rest, Span
  <2>3. Bytes(Rest)' = Bytes(Rest') BY DEF Bytes
  <2> QED BY <2>2, <2>3, NoBytes
<1>8. "read" \notin errors' => BytesOf(opened)' = (yielded \o Bytes(Rest))'
  BY <1>2, <1>6, <1>7 DEF IteratorInv
<1> QED BY <1>2, <1>4, <1>5, <1>6, <1>8 DEF IteratorInv

LEMMA ReadStep ==
  ASSUME IteratorInv, UNCHANGED layout, ReadRecord
  PROVE  IteratorInv'
<1> DEFINE r == RecordBytes
           m == (remaining - 1) * r
           rec == Bytes(Span(rfile, rpos, r))
           more == Bytes(Span(rfile, rpos + r, m))
<1>1. /\ IteratorTypeOK /\ IteratorPhases /\ FilesInOrder BY DEF IteratorInv
<1>2. /\ shape' = shape /\ listed' = listed /\ errors' = errors /\ index' = index
      /\ rfile' = rfile /\ rpos' = rpos + r /\ remaining' = remaining - 1 /\ opened' = opened
      /\ ipc = "reading" /\ ipc' = "idle" /\ answer' = "record"
      /\ yielded' = yielded \o rec
  BY DEF ReadRecord, layout, Span
<1>3. /\ RecordBytes' = RecordBytes /\ r \in Nat /\ r > 0 /\ remaining \in Nat /\ remaining > 0
      /\ rpos \in Nat /\ rfile \in 0 .. NFiles /\ yielded \in Seq(Byte)
  BY <1>1, <1>2, RecordSize DEF RecordBytes, IteratorTypeOK, IteratorPhases
<1>4. remaining - 1 \in Nat /\ rpos + r \in Nat BY <1>3
<1>5. m \in Nat /\ remaining * r = r + m
  <2> HIDE DEF r
  <2>1. m \in Nat BY <1>3, <1>4, SMT
  <2>2. remaining * r = r + (remaining - 1) * r BY <1>3, SMT
  <2> QED BY <2>1, <2>2
<1>6. rec \in Seq(Byte) /\ more \in Seq(Byte)
  <2> HIDE DEF r, m
  <2> QED BY <1>3, <1>4, <1>5, SpanBytes
<1>7. Bytes(Rest) = rec \o more
  <2>1. Rest = Span(rfile, rpos, r + m) BY <1>5 DEF Rest, Span
  <2> HIDE DEF r, m
  <2> QED BY <1>3, <1>5, <2>1, SpanSplits
<1>8. Bytes(Rest)' = more
  <2>1. Bytes(Rest)' = Bytes(Rest') BY DEF Bytes
  <2>2. Rest' = Span(rfile, rpos + r, m) BY <1>2, <1>3 DEF Rest, Span
  <2> QED BY <2>1, <2>2
<1> HIDE DEF r, m, rec, more
<1>9. yielded' \in Seq(Byte) /\ yielded' \o more = yielded \o (rec \o more)
  <2>1. Joins(yielded, rec) /\ Assoc(yielded, rec, more) BY <1>3, <1>6, JoinsAll, AssocAll
  <2> QED BY <1>2, <2>1 DEF Joins, Assoc
<1>10. BytesOf(opened)' = BytesOf(opened) /\ FirstFiles(index)' = FirstFiles(index)
  BY <1>2 DEF BytesOf, FirstFiles
<1>11. "read" \notin errors' => BytesOf(opened)' = (yielded \o Bytes(Rest))'
  BY <1>2, <1>7, <1>8, <1>9, <1>10 DEF IteratorInv
<1>12. IteratorTypeOK' BY <1>1, <1>2, <1>4, <1>9 DEF IteratorTypeOK
<1>13. IteratorPhases' /\ FilesInOrder'
  BY <1>1, <1>2, <1>3 DEF IteratorPhases, FilesInOrder, r
<1> QED BY <1>2, <1>10, <1>11, <1>12, <1>13 DEF IteratorInv

LEMMA ReadFailsStep ==
  ASSUME IteratorInv, UNCHANGED layout, ReadFails
  PROVE  IteratorInv'
<1>1. /\ IteratorTypeOK /\ IteratorPhases /\ FilesInOrder BY DEF IteratorInv
<1>2. /\ shape' = shape /\ listed' = listed /\ index' = index /\ rfile' = rfile
      /\ remaining' = remaining /\ opened' = opened /\ yielded' = yielded
      /\ ipc = "reading" /\ ipc' \in {"idle", "dead"} /\ answer' = "error"
      /\ "read" \in errors' /\ errors \subseteq errors'
      /\ \E p \in rpos .. rpos + RecordBytes : rpos' = p
  BY DEF ReadFails, IteratorFails, layout
<1>3. RecordBytes' = RecordBytes /\ RecordBytes \in Nat /\ RecordBytes > 0 /\ rpos \in Nat
  BY <1>1, <1>2, RecordSize DEF RecordBytes, IteratorTypeOK, IteratorPhases
<1>4. rpos' \in Nat BY <1>2, <1>3
<1>5. IteratorTypeOK' BY <1>1, <1>2, <1>4 DEF IteratorTypeOK
<1>6. IteratorPhases' /\ FilesInOrder' BY <1>1, <1>2, <1>3 DEF IteratorPhases, FilesInOrder
<1>7. BytesOf(opened)' = BytesOf(opened) /\ FirstFiles(index)' = FirstFiles(index)
  BY <1>2 DEF BytesOf, FirstFiles
<1> QED BY <1>2, <1>5, <1>6, <1>7 DEF IteratorInv

LEMMA IteratorStep ==
  ASSUME IteratorInv, [RecordsNext]_<<layout, svars, ivars>>
  PROVE  IteratorInv'
<1>1. UNCHANGED layout /\ (IteratorNext \/ UNCHANGED ivars) BY DEF RecordsNext
<1> QED BY <1>1, WaitingStep, SkipStep, OpenStep, NoMoreStep, ReadStep, ReadFailsStep
        DEF IteratorNext

-----------------------------------------------------------------------------
\* A directory of files that hold whole records is whole records.
LEMMA WholeDirectory ==
  ASSUME NEW r \in Nat, r > 0, NEW g \in 0 .. NFiles, \A f \in 1 .. g : FileLen[f] % r = 0
  PROVE  BytesUpTo[g] % r = 0
<1>1. NFiles \in Nat /\ \A f \in 1 .. NFiles : FileLen[f] \in Nat BY CorpusAssumption
<1> DEFINE Whole(n) == \E k \in Nat : n = k * r
           T == {f \in Nat : f \in 0 .. g => Whole(BytesUpTo[f])}
<1>2. 0 \in T
  <2>1. 0 = 0 * r BY SMT
  <2> QED BY <2>1, UpToFile
<1>3. ASSUME NEW f \in Nat, f \in T PROVE f + 1 \in T
  <2> SUFFICES ASSUME f + 1 \in 0 .. g PROVE Whole(BytesUpTo[f + 1]) OBVIOUS
  <2>1. f \in 0 .. g /\ f + 1 \in 1 .. g /\ f + 1 \in 1 .. NFiles /\ (f + 1) - 1 = f BY <1>1
  <2>2. PICK k \in Nat : BytesUpTo[f] = k * r BY <1>3, <2>1
  <2>3. FileLen[f + 1] \in Nat /\ FileLen[f + 1] % r = 0 BY <1>1, <2>1
  <2> DEFINE j == FileLen[f + 1] \div r
  <2>4. j \in Nat /\ j * r = FileLen[f + 1] BY <2>3, WholeRecords
  <2>5. BytesUpTo[f + 1] = BytesUpTo[f] + FileLen[f + 1] BY <2>1, UpToFile
  <2> HIDE DEF j
  <2>6. k * r + j * r = (k + j) * r BY <2>4, SMT
  <2>7. k + j \in Nat BY <2>4
  <2> QED BY <2>2, <2>4, <2>5, <2>6, <2>7
<1>4. Nat \subseteq T
  <2> HIDE DEF T
  <2> QED BY <1>2, <1>3, Induction
<1>5. PICK k \in Nat : BytesUpTo[g] = k * r BY <1>1, <1>4
<1>6. (k * r + 0) % r = 0 BY Remainder
<1>7. k * r + 0 = k * r BY SMT
<1> QED BY <1>5, <1>6, <1>7

LEMMA YieldsFiles == IteratorInv => YieldsOpenedFiles
<1> SUFFICES ASSUME IteratorInv PROVE YieldsOpenedFiles OBVIOUS
<1>1. IteratorTypeOK /\ IteratorPhases /\ FilesInOrder BY DEF IteratorInv
<1>2. ASSUME NEW i \in 1 .. Len(opened)
      PROVE  /\ \A f \in 1 .. opened[i] : FileLen[f] % RecordBytes = 0
             /\ \A j \in 1 .. i - 1 : opened[j] < opened[i]
  <2>1. opened[i] \in 1 .. NFiles BY <1>1, ElementOfSeq DEF IteratorTypeOK
  <2>2. opened[i] <= index /\ \A j \in 1 .. i - 1 : opened[j] < opened[i]
    BY <1>1 DEF FilesInOrder
  <2>3. \A f \in 1 .. opened[i] : f \in 1 .. index
    BY <1>1, <2>1, <2>2 DEF IteratorTypeOK
  <2> QED BY <1>1, <2>2, <2>3 DEF FilesInOrder
<1>3. ASSUME "read" \notin errors
      PROVE  /\ yielded = SubSeq(BytesOf(opened), 1,
                                 Len(BytesOf(opened)) - remaining * RecordBytes)
             /\ answer = "end" /\ "open" \notin errors => yielded = Listing
  <2> DEFINE m == remaining * RecordBytes
  <2>1. BytesOf(opened) = yielded \o Bytes(Rest) BY <1>3 DEF IteratorInv
  <2>2. /\ RecordBytes \in Nat /\ remaining \in Nat /\ rpos \in Nat /\ rfile \in 0 .. NFiles
        /\ yielded \in Seq(Byte)
    BY <1>1, RecordSize DEF IteratorTypeOK
  <2>3. m \in Nat BY <2>2, SMT
  <2>4. Bytes(Rest) \in Seq(Byte) /\ Len(Bytes(Rest)) = m
    <3>1. Rest = Span(rfile, rpos, m) BY DEF Rest, Span
    <3> HIDE DEF m
    <3> QED BY <2>2, <2>3, <3>1, SpanBytes
  <2> HIDE DEF m
  <2>5. Joins(yielded, Bytes(Rest)) BY <2>2, <2>4, JoinsAll
  <2>6. Len(yielded) \in Nat BY <2>2, LenProperties
  <2>7. Len(BytesOf(opened)) - m = Len(yielded) BY <2>1, <2>3, <2>4, <2>5, <2>6 DEF Joins
  <2>8. SubSeq(yielded \o Bytes(Rest), 1, Len(yielded)) = yielded BY <2>2, <2>4, FrontOf
  <2>9. yielded = SubSeq(BytesOf(opened), 1, Len(BytesOf(opened)) - m) BY <2>1, <2>7, <2>8
  <2>10. ASSUME answer = "end", "open" \notin errors PROVE yielded = Listing
    <3>1. index = listed /\ remaining = 0 BY <1>1, <2>10 DEF IteratorPhases
    <3>2. BytesOf(opened) = Listing BY <2>10, <3>1 DEF IteratorInv, Listing, FirstFiles
    <3>3. Rest = Span(rfile, rpos, 0)
      <4>1. 0 * RecordBytes = 0 BY <2>2
      <4> QED BY <3>1, <4>1 DEF Rest, Span
    <3> QED BY <2>1, <2>2, <3>2, <3>3, NoBytes, ConcatEmptySeq
  <2> QED BY <2>9, <2>10 DEF m
<1> QED BY <1>2, <1>3 DEF YieldsOpenedFiles

LEMMA BothAgree == CorpusInv /\ IteratorInv => ReadersAgree
<1> SUFFICES ASSUME CorpusInv, IteratorInv, answer = "end", errors = {}
             PROVE  /\ result # "trailing"
                    /\ result = "ok" /\ max = NoMax => scored = yielded
  BY DEF ReadersAgree
<1>1. IteratorTypeOK /\ IteratorPhases /\ FilesInOrder /\ ResultIsCorpus
  BY DEF IteratorInv, CorpusInv
<1>2. RecordBytes \in Nat /\ RecordBytes > 0 /\ index = listed /\ listed \in 0 .. NFiles
  BY <1>1, RecordSize DEF IteratorTypeOK, IteratorPhases
<1>3. Total % RecordBytes = 0 BY <1>1, <1>2, WholeDirectory DEF FilesInOrder, Total
<1>4. yielded = Listing BY YieldsFiles DEF YieldsOpenedFiles
<1>5. ASSUME result = "ok", max = NoMax PROVE scored = Listing
  <2>1. scored = SubSeq(Listing, 1, Total) BY <1>1, <1>2, <1>5 DEF ResultIsCorpus
  <2>2. Listing \in Seq(Byte) /\ Len(Listing) = Total BY <1>2, ListingBytes
  <2>3. SubSeq(Listing, 1, Len(Listing)) = Listing BY <2>2, SubSeqFull
  <2> QED BY <2>1, <2>2, <2>3
<1> QED BY <1>1, <1>3, <1>4, <1>5 DEF ResultIsCorpus

-----------------------------------------------------------------------------
\* For every directory, record shape, cap and division into chunks:
\* mse_mean_streaming returns Ok with the records of the whole directory or its
\* first max_records, and complains of trailing bytes only where they are.
THEOREM ResultCorrect == RecordsSpec => []ResultIsCorpus
<1>1. RecordsInit => CorpusInv BY CorpusStarts
<1>2. ScoringInv /\ CorpusInv /\ [RecordsNext]_<<layout, svars, ivars>> => CorpusInv' BY CorpusStep
<1>3. CorpusInv => ResultIsCorpus BY DEF CorpusInv
<1> QED BY <1>1, <1>2, <1>3, ScoringInvariance, PTL DEF RecordsSpec

\* For every directory and record shape, and whichever of its calls fail,
\* TrainingDataIterator yields the files it opened, whole and in order, passes no
\* file of the wrong size, and has yielded the directory when it ends.
THEOREM FilesYieldedWhole == RecordsSpec => []YieldsOpenedFiles
<1>1. RecordsInit => IteratorInv BY IteratorStarts
<1>2. IteratorInv /\ [RecordsNext]_<<layout, svars, ivars>> => IteratorInv' BY IteratorStep
<1>3. IteratorInv => YieldsOpenedFiles BY YieldsFiles
<1> QED BY <1>1, <1>2, <1>3, PTL DEF RecordsSpec

\* Where the iterator reads a directory to its end without an error,
\* mse_mean_streaming scores the same records and finds no trailing bytes.
THEOREM ReadersReadTheSame == RecordsSpec => []ReadersAgree
<1>1. RecordsInit => CorpusInv /\ IteratorInv BY CorpusStarts, IteratorStarts
<1>2. ScoringInv /\ CorpusInv /\ [RecordsNext]_<<layout, svars, ivars>> => CorpusInv' BY CorpusStep
<1>3. IteratorInv /\ [RecordsNext]_<<layout, svars, ivars>> => IteratorInv' BY IteratorStep
<1>4. CorpusInv /\ IteratorInv => ReadersAgree BY BothAgree
<1> QED BY <1>1, <1>2, <1>3, <1>4, ScoringInvariance, PTL DEF RecordsSpec
=============================================================================
