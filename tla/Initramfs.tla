----------------------------- MODULE Initramfs -----------------------------
(***************************************************************************)
(* initramfs.c: the main thread makes the files of a cpio archive in the   *)
(* tree of FileTree, in the archive's order, and halts the kernel when one *)
(* cannot be made.  Headers, alignment and data are left out; an archive   *)
(* is a sequence of nodes, memory does not run out.                        *)
(***************************************************************************)
EXTENDS FileTree

CONSTANT main  \* the thread, in Thread, that runs initramfs_load

VARIABLES
  archive, \* the nodes not loaded yet
  loading, \* the node the main thread is making
  halted   \* "Failed to create ..."

initramfs == <<archive, loading, halted>>

Nodes == [directory : {TRUE}, path : DirPath] \cup [directory : {FALSE}, path : FilePath]

(* find lists every node once, a directory before what it contains, and    *)
(* siblings in any order.                                                  *)
Archives ==
  {s \in SetToSeqs(Nodes) :
     \A j, k \in DOMAIN s : IsStrictPrefix(s[j].path, s[k].path) => j < k}

LoadInit ==
  /\ Init
  /\ archive \in Archives
  /\ loading = <<>>
  /\ halted = FALSE

(* The next header of __load's loop: mkdir or open.                        *)
LoadNode ==
  /\ ~halted /\ loading = <<>> /\ archive # <<>>
  /\ loading' = <<Head(archive)>>
  /\ archive' = Tail(archive)
  /\ IF Head(archive).directory
     THEN Mkdir(main, Head(archive).path)
     ELSE Open(main, Head(archive).path, TRUE)
  /\ UNCHANGED halted

LoadStep ==
  /\ Walk(main) \/ WalkFails(main) \/ Find(main) \/ MkdirCreates(main)
       \/ \E f \in File : Create(main, f)
  /\ UNCHANGED initramfs

(* mkdir is false when file_open has found something without O_CREAT.      *)
Made == answer[main] # NULL /\ (call[main] = "mkdir" => creat[main])

NodeLoaded ==
  /\ loading # <<>> /\ pc[main] = "idle"
  /\ halted' = ~Made
  /\ loading' = <<>>
  /\ UNCHANGED <<archive, vars>>

LoadNext == LoadNode \/ LoadStep \/ NodeLoaded

LoadSpec == LoadInit /\ [][LoadNext]_<<vars, initramfs>>

(* initramfs.c:47 and initramfs.c:52 halt the kernel when a node of the    *)
(* archive cannot be made: with enough memory every archive that find and  *)
(* cpio write is loaded.                                                   *)
EveryArchiveLoads == ~halted
=============================================================================
