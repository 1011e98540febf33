----------------------------- MODULE MCFileData -----------------------------
(***************************************************************************)
(* FileData with two descriptors, blocks of 1, 2 and 4 bytes.              *)
(***************************************************************************)
EXTENDS FileData

MCByte   == {1, 2}
MCBuffer == {<<>>, <<1>>, <<2, 1>>}
=============================================================================
