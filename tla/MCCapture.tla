------------------------------ MODULE MCCapture ------------------------------
(***************************************************************************)
(* Directories for Capture: none (or one that does not exist), a full pair *)
(* with a single left image, and one with two files of a side and one that *)
(* cannot be read.                                                         *)
(***************************************************************************)
EXTENDS Capture

MCFile(i, s, n, ok) == [index |-> i, side |-> s, name |-> n, readable |-> ok]

MCDirectories ==
    {{},
     {MCFile(3, "l", "a", TRUE), MCFile(3, "r", "a", TRUE), MCFile(10, "l", "a", TRUE)},
     {MCFile(1, "l", "a", TRUE), MCFile(1, "l", "b", TRUE), MCFile(1, "r", "a", FALSE),
      MCFile(2, "r", "a", TRUE)}}
=============================================================================
