------------------------------- MODULE Corpus -------------------------------
(***************************************************************************)
(* The bytes of a training corpus, as the readers of                        *)
(* neat-core/src/training_bin_stream.rs see them: a list of .bin files and  *)
(* the chunks (file, offset, length) they are read in.  Files are numbered  *)
(* 1..NFiles; the place before the first byte is an empty chunk of an empty *)
(* file number 0.                                                           *)
(***************************************************************************)
EXTENDS Naturals

CONSTANTS
  NFiles,    \* how many .bin files the caller passed
  FileLen    \* FileLen[f] is the length of file f in bytes

ASSUME CorpusAssumption ==
  /\ NFiles \in Nat
  /\ FileLen \in [1 .. NFiles -> Nat]

Chunk == [file : 0 .. NFiles, off : Nat, n : Nat]

CorpusStart == [file |-> 0, off |-> 0, n |-> 0]

LenOf(f) == IF f = 0 THEN 0 ELSE FileLen[f]

\* Nothing is left of chunk c's file behind c.
EndsFile(c) == c.off + c.n = LenOf(c.file)

EmptyBetween(f, g) == \A h \in 1 .. NFiles : f < h /\ h < g => FileLen[h] = 0

\* Chunk d is the next one after chunk c: it continues c's file, or c ended its
\* file and d starts the next file that has any bytes.
Follows(c, d) ==
  /\ d.n > 0
  /\ d.off + d.n <= LenOf(d.file)
  /\ \/ d.file = c.file /\ d.off = c.off + c.n
     \/ d.file > c.file /\ d.off = 0 /\ EndsFile(c) /\ EmptyBetween(c.file, d.file)

\* Chunk c ends the corpus.
EndsCorpus(c) == EndsFile(c) /\ EmptyBetween(c.file, NFiles + 1)

\* Everything up to position o of file f is in chunk c or before it.
Reaches(c, f, o) ==
  \/ c.file = f /\ c.off + c.n = o
  \/ c.file < f /\ o = 0 /\ EndsFile(c) /\ EmptyBetween(c.file, f)
=============================================================================
