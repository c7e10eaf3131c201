--------------------------- MODULE MCFileTransfer ---------------------------
(***************************************************************************)
(* Small instances of FileTransfer: one or two files, two clients one      *)
(* after the other, two transfers.                                         *)
(***************************************************************************)
EXTENDS FileTransfer, TLC

CONSTANTS f1, f2

OneFile == {f1}
TwoFiles == {f1, f2}

(* For safety only: the files are interchangeable.                         *)
Symmetry == Permutations(Files)

=============================================================================
