----------------------------- MODULE MCFileData -----------------------------
(* Sectors of two bytes, files of two sectors, as many as FS's buffer has, *)
(* and archives of one or two files of sizes around those of a sector and  *)
(* of a file.                                                              *)
EXTENDS FileData

MCArchives == { <<[file |-> 0, size |-> 3], [file |-> 1, size |-> 1]>>,
                <<[file |-> 1, size |-> 4], [file |-> 0, size |-> 0]>> }
MCLens == 1..3
MCWritten == {1000}
MCDesc == {"d1", "d2"}

=============================================================================
