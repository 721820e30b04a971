----------------------------- MODULE MCRecords -----------------------------
(* A directory for the checks of Records: an empty file, files that hold    *)
(* whole records of one shape but not of another, and a file that ends in   *)
(* the middle of a value with another file behind it.                       *)
EXTENDS Records

MCFileLen == <<8, 0, 16, 7, 8>>
MCNFiles == Len(MCFileLen)

\* Records of 0, 4, 8, 12 and 16 bytes.
MCShapes ==
  {[in |-> 0, out |-> 0], [in |-> 0, out |-> 1], [in |-> 1, out |-> 1],
   [in |-> 2, out |-> 1], [in |-> 2, out |-> 2]}
=============================================================================
