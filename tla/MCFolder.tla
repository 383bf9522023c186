------------------------------ MODULE MCFolder ------------------------------
(* Instances of Folder: an empty folder, and folders of one and two files. *)
EXTENDS Folder
CONSTANTS f1, f2
MCFolders == {<< >>, <<f1>>, <<f1, f2>>}
=============================================================================
