------------------------------ MODULE MCDelete ------------------------------
(* Instances of DeleteTransaction: the source, a page it shares with other *)
(* sources, a page only it feeds, and the index, which also stands for the *)
(* operation log: both are files rewritten from what was just read.        *)
EXTENDS DeleteTransaction

Files == {"source", "page", "index"}
FilesAndOrphan == Files \cup {"orphan"}
OldFiles == [p \in Files |-> "old"]
OldFilesAndOrphan == [p \in FilesAndOrphan |-> "old"]
Nothing == {}
Page == {"page"}
Orphan == {"orphan"}
IndexOnly == {"index"}
PageAndIndex == {"page", "index"}
=============================================================================
