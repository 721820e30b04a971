------------------------------ MODULE Records ------------------------------
(***************************************************************************)
(* The two ways neat-core reads the records of one directory, side by side: *)
(* mse_mean_streaming, which lets a record straddle files, and              *)
(* TrainingDataIterator, which wants whole records in every file.           *)
(***************************************************************************)
EXTENDS RecordScoring

RecordsInit == LayoutInit /\ ScoringInit /\ IteratorInit

\* Neither reader writes anything, so their steps need no interleaving: the
\* iterator follows a scan that met no I/O error.
RecordsNext ==
  /\ \/ ScoringNext /\ UNCHANGED ivars
     \/ IteratorNext /\ result \in {"ok", "trailing"} /\ UNCHANGED svars
  /\ UNCHANGED layout

RecordsSpec == RecordsInit /\ [][RecordsNext]_<<layout, svars, ivars>>

-----------------------------------------------------------------------------
\* The bytes of the files in the sequence fs, one file after the other.
BytesOf(fs) ==
  LET upTo[i \in 0 .. Len(fs)] ==
        IF i = 0 THEN <<>>
        ELSE upTo[i - 1] \o Bytes([file |-> fs[i], off |-> 0, n |-> FileLen[fs[i]]])
  IN  upTo[Len(fs)]

Listing == BytesOf([i \in 1 .. listed |-> i])
Total == BytesUpTo[listed]

\* mse_mean_streaming returns Ok only with the records of the whole directory,
\* or with its first max_records records; it reports trailing bytes only when
\* the directory does not end with a whole record and no cap hid that.
ResultIsCorpus ==
  /\ result = "ok" /\ RecordBytes > 0 =>
       /\ scored = SubSeq(Listing, 1, done * RecordBytes)
       /\ \/ max # NoMax /\ done = max
          \/ done * RecordBytes = Total
  /\ result = "trailing" =>
       /\ Total % RecordBytes # 0
       /\ max # NoMax => Total < max * RecordBytes

\* The iterator opens files in order and never passes one of the wrong size: every
\* later call meets it again.  Unless a read failed, it has yielded the files it
\* opened, whole but for the records it still counts as remaining; files are
\* missing only after an error.
YieldsOpenedFiles ==
  /\ \A i \in 1 .. Len(opened) :
       /\ \A f \in 1 .. opened[i] : FileLen[f] % RecordBytes = 0
       /\ \A j \in 1 .. i - 1 : opened[j] < opened[i]
  /\ "read" \notin errors =>
    /\ yielded = SubSeq(BytesOf(opened), 1, Len(BytesOf(opened)) - remaining * RecordBytes)
    /\ answer = "end" /\ "open" \notin errors => yielded = Listing

\* Where the iterator ends without an error, an uncapped mse_mean_streaming
\* scores the same records and never complains of trailing bytes.
ReadersAgree ==
  answer = "end" /\ errors = {} =>
    /\ result # "trailing"
    /\ result = "ok" /\ max = NoMax => scored = yielded
=============================================================================
