---------------------------- MODULE MCInitramfs ----------------------------
(***************************************************************************)
(* Initramfs with two directories, a and ab, and a file in the first.      *)
(***************************************************************************)
EXTENDS Initramfs

MCDirPath  == {<<<<"a">>>>, <<<<"a", "b">>>>}
MCFilePath == {<<<<"a">>, <<"b">>>>}
=============================================================================
