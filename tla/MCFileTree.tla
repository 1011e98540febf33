----------------------------- MODULE MCFileTree -----------------------------
(***************************************************************************)
(* FileTree with one directory and two files in it.                        *)
(***************************************************************************)
EXTENDS FileTree, TLC

MCDirPath  == {<<<<"a">>>>}
MCFilePath == {<<<<"a">>, <<"b">>>>, <<<<"a">>, <<"c">>>>}

Interchangeable == Permutations(Thread) \cup Permutations(File \ {root})
=============================================================================
