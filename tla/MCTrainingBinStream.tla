------------------------ MODULE MCTrainingBinStream ------------------------
(* Corpora for the checks of TrainingBinStream: empty files at both ends    *)
(* and in the middle, files longer and shorter than a buffer.               *)
EXTENDS TrainingBinStream, Sequences

MCFileLen == <<0, 3, 0, 2, 0>>
MCNFiles == Len(MCFileLen)
=============================================================================
