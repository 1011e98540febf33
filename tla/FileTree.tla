------------------------------ MODULE FileTree ------------------------------
(***************************************************************************)
(* fs.c: the tree of files, as threads look it up and extend it.  A file   *)
(* is a struct file, a path is the sequence of its components.  What is    *)
(* done to a file inside its lock is one step, unless it keeps the lock    *)
(* across a call of an allocator or while it waits for another lock.       *)
(* The mutexes are those of Monitor; the contents of files are in FileData.*)
(***************************************************************************)
EXTENDS Naturals, Sequences, FiniteSets, SequencesExt, FiniteSetsExt

CONSTANTS
  Thread,
  File,     \* root and the slots of dir_entry_allocator
  root,
  NULL,     \* no file, no thread
  DirPath,  \* the paths clients make and open directories at
  FilePath  \* the paths clients open regular files at

(* Operators named Fault... are not part of the specification: each is the *)
(* definition after it with a plausible bug, for the properties to see.    *)

ASSUME FileAssumption ==
  /\ root \in File
  /\ NULL \notin File \cup Thread

(* A path is a sequence of names, a name a sequence of characters.  Clients*)
(* look for directories and for files at different paths, and only below   *)
(* directories.  (Below a regular file, file_open would link the new entry *)
(* to an entries_head that file_init has not initialised.)                 *)
ASSUME PathAssumption ==
  /\ DirPath \cap FilePath = {}
  /\ \A p \in DirPath \cup FilePath :
       /\ p \in Seq(ToSet(p)) /\ p # <<>>
       /\ \A name \in ToSet(p) : name \in Seq(ToSet(name))
       /\ \A n \in 1 .. Len(p) - 1 : SubSeq(p, 1, n) \in DirPath

VARIABLES
  type,    \* type[f]: f->type, or "unused"
  entries, \* entries[f]: the directory f's list of [name, file]
  lock,    \* lock[f]: the thread that has locked f->lock, or NULL
  pc,      \* where thread t is: "idle" in its client's code
  call,    \* call[t]: the function t has called
  path,    \* path[t]: its argument
  creat,   \* creat[t]: flags & O_CREAT, in file_open
  dir,     \* dir[t]: the file t has arrived at, in file_open and __ls
  step,    \* step[t]: the component of path[t] that t looks up next
  cursor,  \* cursor[t]: t's struct directory_desc; next is 0 at the end
  stack,   \* stack[t]: the activations <<file, next entry>> of __ls
  existed, \* what path[t] led to when the call began       (history)
  answer,  \* what file_open has found or created at last   (history)
  seen,    \* seen[t]: what readdir has returned for cursor (history)
  unread,  \* how many entries opendir found                (history)
  leaked   \* the directories whose lock file_open has kept (history)

tree  == <<type, entries>>
walk  == <<call, path, creat, dir, step, existed, answer>>
lists == <<cursor, seen, unread>>
vars  == <<tree, lock, pc, walk, lists, stack, leaked>>

Kind(t) == IF call[t] = "open" THEN "T_REGULAR" ELSE "T_DIRECTORY"
Unlocked(f) == lock[f] = NULL

----------------------------------------------------------------------------
(* path_step: the last entry whose name begins with the component.         *)

(* The comparison stops one character early.                               *)
FaultPathStep(d, name) ==
  LET hits == {k \in DOMAIN entries[d] : IsPrefix(Front(name), entries[d][k].name)}
  IN IF type[d] # "T_DIRECTORY" \/ hits = {} THEN NULL ELSE entries[d][Max(hits)].file

PathStep(d, name) ==
  LET hits == {k \in DOMAIN entries[d] : IsPrefix(name, entries[d][k].name)}
  IN IF type[d] # "T_DIRECTORY" \/ hits = {} THEN NULL ELSE entries[d][Max(hits)].file

(* What a path means, one component after the other and name by name.      *)
Resolve(p) ==
  LET at[n \in 0 .. Len(p)] ==
        IF n = 0 THEN root
        ELSE LET d == at[n - 1]
                 here == IF d = NULL THEN {} ELSE
                           {k \in DOMAIN entries[d] : entries[d][k].name = p[n]}
             IN IF here = {} THEN NULL ELSE entries[d][CHOOSE k \in here : TRUE].file
  IN at[Len(p)]

----------------------------------------------------------------------------
(* The calls that start with file_open.                                    *)

Start(t, function, p, flag) ==
  /\ pc[t] = "idle"
  /\ pc' = [pc EXCEPT ![t] = "walk"]
  /\ call' = [call EXCEPT ![t] = function]
  /\ path' = [path EXCEPT ![t] = p]
  /\ creat' = [creat EXCEPT ![t] = flag]
  /\ dir' = [dir EXCEPT ![t] = root]
  /\ step' = [step EXCEPT ![t] = 1]
  /\ existed' = [existed EXCEPT ![t] = Resolve(p)]
  /\ answer' = [answer EXCEPT ![t] = NULL]
  /\ UNCHANGED <<tree, lock, lists, stack, leaked>>

Open(t, p, flag) == p \in FilePath /\ Start(t, "open", p, flag)
Mkdir(t, p)      == p \in DirPath /\ Start(t, "mkdir", p, FALSE)
Opendir(t, p)    == cursor[t].dir = NULL /\ p \in DirPath /\ Start(t, "opendir", p, FALSE)

(* file_open returns f.  mkdir calls it again, with O_CREAT, when f is NULL*)
(* and opendir allocates a descriptor when it is not.                      *)
Return(t, f) ==
  /\ answer' = [answer EXCEPT ![t] = f]
  /\ dir' = [dir EXCEPT ![t] = f]
  /\ IF call[t] = "mkdir" /\ ~creat[t] /\ f = NULL
     THEN pc' = [pc EXCEPT ![t] = "mkdir"]
     ELSE IF call[t] = "opendir" /\ f # NULL
     THEN pc' = [pc EXCEPT ![t] = "opendir"]
     ELSE pc' = [pc EXCEPT ![t] = "idle"]

(* One component: lock the directory, look it up, unlock the directory.    *)
Walk(t) ==
  /\ pc[t] = "walk"
  /\ step[t] < Len(path[t])
  /\ dir[t] # NULL
  /\ Unlocked(dir[t])
  /\ dir' = [dir EXCEPT ![t] = PathStep(dir[t], path[t][step[t]])]
  /\ step' = [step EXCEPT ![t] = @ + 1]
  /\ UNCHANGED <<tree, lock, pc, call, path, creat, existed, answer, lists, stack, leaked>>

WalkFails(t) ==
  /\ pc[t] = "walk"
  /\ dir[t] = NULL
  /\ Return(t, NULL)
  /\ UNCHANGED <<tree, lock, call, path, creat, step, existed, lists, stack, leaked>>

(* The directory is unlocked between the search and the creation.          *)
FaultFind(t) ==
  LET f == PathStep(dir[t], path[t][step[t]])
  IN /\ pc[t] = "walk"
     /\ step[t] = Len(path[t])
     /\ dir[t] # NULL
     /\ Unlocked(dir[t])
     /\ IF f # NULL \/ ~creat[t]
        THEN Return(t, f)
        ELSE pc' = [pc EXCEPT ![t] = "create"] /\ UNCHANGED <<dir, answer>>
     /\ UNCHANGED <<tree, lock, call, path, creat, step, existed, lists, stack, leaked>>

(* The last component: the directory stays locked when it is to be created.*)
Find(t) ==
  LET f == PathStep(dir[t], path[t][step[t]])
  IN /\ pc[t] = "walk"
     /\ step[t] = Len(path[t])
     /\ dir[t] # NULL
     /\ Unlocked(dir[t])
     /\ IF f # NULL \/ ~creat[t]
        THEN Return(t, f) /\ UNCHANGED lock
        ELSE /\ pc' = [pc EXCEPT ![t] = "create"]
             /\ lock' = [lock EXCEPT ![dir[t]] = t]
             /\ UNCHANGED <<dir, answer>>
     /\ UNCHANGED <<tree, call, path, creat, step, existed, lists, stack, leaked>>

(* The error path returns without the unlock.                              *)
FaultCreateFails(t) ==
  /\ pc[t] = "create"
  /\ Return(t, NULL)
  /\ UNCHANGED <<tree, lock, call, path, creat, step, existed, lists, stack, leaked>>

(* slab_alloc has no memory for the entry.                                 *)
CreateFails(t) ==
  /\ pc[t] = "create"
  /\ lock' = [lock EXCEPT ![dir[t]] = NULL]
  /\ Return(t, NULL)
  /\ UNCHANGED <<tree, call, path, creat, step, existed, lists, stack, leaked>>

(* file_init has no memory for the data of a regular file: the entry is    *)
(* freed, but the directory is left locked.                                *)
InitFails(t) ==
  /\ pc[t] = "create"
  /\ Kind(t) = "T_REGULAR"
  /\ \E f \in File : type[f] = "unused"
  /\ leaked' = leaked \cup {dir[t]}
  /\ Return(t, NULL)
  /\ UNCHANGED <<tree, lock, call, path, creat, step, existed, lists, stack>>

Create(t, f) ==
  /\ pc[t] = "create"
  /\ type[f] = "unused"
  /\ type' = [type EXCEPT ![f] = Kind(t)]
  /\ entries' = [entries EXCEPT ![f] = <<>>,
                   ![dir[t]] = Append(@, [name |-> Last(path[t]), file |-> f])]
  /\ lock' = [lock EXCEPT ![dir[t]] = NULL]
  /\ Return(t, f)
  /\ UNCHANGED <<call, path, creat, step, existed, lists, stack, leaked>>

(* mkdir has found nothing at its path and calls file_open with O_CREAT.   *)
MkdirCreates(t) ==
  /\ pc[t] = "mkdir"
  /\ pc' = [pc EXCEPT ![t] = "walk"]
  /\ creat' = [creat EXCEPT ![t] = TRUE]
  /\ dir' = [dir EXCEPT ![t] = root]
  /\ step' = [step EXCEPT ![t] = 1]
  /\ UNCHANGED <<tree, lock, call, path, existed, answer, lists, stack, leaked>>

----------------------------------------------------------------------------
(* Directory descriptors.                                                  *)

NoDirDesc(t) ==
  /\ pc[t] = "opendir"
  /\ pc' = [pc EXCEPT ![t] = "idle"]
  /\ UNCHANGED <<tree, lock, walk, lists, stack, leaked>>

OpendirDone(t) ==
  /\ pc[t] = "opendir"
  /\ Unlocked(dir[t])
  /\ cursor' = [cursor EXCEPT ![t] =
                  [dir |-> dir[t], next |-> IF entries[dir[t]] = <<>> THEN 0 ELSE 1]]
  /\ seen' = [seen EXCEPT ![t] = <<>>]
  /\ unread' = [unread EXCEPT ![t] = Len(entries[dir[t]])]
  /\ pc' = [pc EXCEPT ![t] = "idle"]
  /\ UNCHANGED <<tree, lock, walk, stack, leaked>>

(* The cursor moves before the entry is read.                              *)
FaultReaddir(t) ==
  LET d == cursor[t].dir
      k == cursor[t].next
  IN /\ pc[t] = "idle"
     /\ d # NULL
     /\ Unlocked(d)
     /\ k # 0 /\ k < Len(entries[d])
     /\ seen' = [seen EXCEPT ![t] = Append(@, entries[d][k + 1].file)]
     /\ cursor' = [cursor EXCEPT ![t].next = k + 1]
     /\ UNCHANGED <<tree, lock, pc, walk, unread, stack, leaked>>

(* readdir; at the end (next = 0) it returns NULL and changes nothing.     *)
Readdir(t) ==
  LET d == cursor[t].dir
      k == cursor[t].next
  IN /\ pc[t] = "idle"
     /\ d # NULL
     /\ Unlocked(d)
     /\ k # 0
     /\ seen' = [seen EXCEPT ![t] = Append(@, entries[d][k].file)]
     /\ cursor' = [cursor EXCEPT ![t].next = IF k = Len(entries[d]) THEN 0 ELSE k + 1]
     /\ UNCHANGED <<tree, lock, pc, walk, unread, stack, leaked>>

Closedir(t) ==
  /\ pc[t] = "idle"
  /\ cursor[t].dir # NULL
  /\ cursor' = [cursor EXCEPT ![t] = [dir |-> NULL, next |-> 0]]
  /\ seen' = [seen EXCEPT ![t] = <<>>]
  /\ unread' = [unread EXCEPT ![t] = 0]
  /\ UNCHANGED <<tree, lock, pc, walk, stack, leaked>>

----------------------------------------------------------------------------
(* ls: every activation of __ls keeps its file locked while it goes down.  *)

Ls(t) ==
  /\ pc[t] = "idle"
  /\ pc' = [pc EXCEPT ![t] = "ls"]
  /\ dir' = [dir EXCEPT ![t] = root]
  /\ UNCHANGED <<tree, lock, call, path, creat, step, existed, answer, lists, stack, leaked>>

LsLock(t) ==
  /\ pc[t] = "ls"
  /\ dir[t] # NULL
  /\ Unlocked(dir[t])
  /\ lock' = [lock EXCEPT ![dir[t]] = t]
  /\ stack' = [stack EXCEPT ![t] = Append(@, <<dir[t], 1>>)]
  /\ dir' = [dir EXCEPT ![t] = NULL]
  /\ UNCHANGED <<tree, pc, call, path, creat, step, existed, answer, lists, leaked>>

LsNext(t) ==
  LET f == Last(stack[t])[1]
      k == Last(stack[t])[2]
  IN /\ pc[t] = "ls"
     /\ dir[t] = NULL
     /\ k <= Len(entries[f])
     /\ dir' = [dir EXCEPT ![t] = entries[f][k].file]
     /\ stack' = [stack EXCEPT ![t] = Append(Front(@), <<f, k + 1>>)]
     /\ UNCHANGED <<tree, lock, pc, call, path, creat, step, existed, answer, lists, leaked>>

(* The lock of a directory is kept.                                        *)
FaultLsUnlock(t) ==
  LET f == Last(stack[t])[1]
      k == Last(stack[t])[2]
  IN /\ pc[t] = "ls"
     /\ dir[t] = NULL
     /\ k > Len(entries[f])
     /\ stack' = [stack EXCEPT ![t] = Front(@)]
     /\ pc' = [pc EXCEPT ![t] = IF Len(stack[t]) = 1 THEN "idle" ELSE "ls"]
     /\ UNCHANGED <<tree, lock, walk, lists, leaked>>

LsUnlock(t) ==
  LET f == Last(stack[t])[1]
      k == Last(stack[t])[2]
  IN /\ pc[t] = "ls"
     /\ dir[t] = NULL
     /\ k > Len(entries[f])
     /\ lock' = [lock EXCEPT ![f] = NULL]
     /\ stack' = [stack EXCEPT ![t] = Front(@)]
     /\ pc' = [pc EXCEPT ![t] = IF Len(stack[t]) = 1 THEN "idle" ELSE "ls"]
     /\ UNCHANGED <<tree, walk, lists, leaked>>

----------------------------------------------------------------------------
Init ==
  /\ type = [f \in File |-> IF f = root THEN "T_DIRECTORY" ELSE "unused"]
  /\ entries = [f \in File |-> <<>>]
  /\ lock = [f \in File |-> NULL]
  /\ pc = [t \in Thread |-> "idle"]
  /\ call = [t \in Thread |-> "open"]
  /\ path = [t \in Thread |-> <<>>]
  /\ creat = [t \in Thread |-> FALSE]
  /\ dir = [t \in Thread |-> NULL]
  /\ step = [t \in Thread |-> 1]
  /\ cursor = [t \in Thread |-> [dir |-> NULL, next |-> 0]]
  /\ stack = [t \in Thread |-> <<>>]
  /\ existed = [t \in Thread |-> NULL]
  /\ answer = [t \in Thread |-> NULL]
  /\ seen = [t \in Thread |-> <<>>]
  /\ unread = [t \in Thread |-> 0]
  /\ leaked = {}

Calls(t) ==
  \/ \E p \in FilePath, flag \in BOOLEAN : Open(t, p, flag)
  \/ \E p \in DirPath : Mkdir(t, p) \/ Opendir(t, p)
  \/ Readdir(t) \/ Closedir(t) \/ Ls(t)

Steps(t) ==
  \/ Walk(t) \/ WalkFails(t) \/ Find(t)
  \/ CreateFails(t) \/ InitFails(t) \/ \E f \in File : Create(t, f)
  \/ MkdirCreates(t)
  \/ NoDirDesc(t) \/ OpendirDone(t)
  \/ LsLock(t) \/ LsNext(t) \/ LsUnlock(t)

Next == \E t \in Thread : Calls(t) \/ Steps(t)

Spec == Init /\ [][Next]_vars

----------------------------------------------------------------------------
(* Properties.                                                             *)

(* The types of the variables.                                             *)
TypeOK ==
  /\ type \in [File -> {"unused", "T_REGULAR", "T_DIRECTORY"}]
  /\ lock \in [File -> Thread \cup {NULL}]
  /\ pc \in [Thread -> {"idle", "walk", "create", "mkdir", "opendir", "ls"}]
  /\ call \in [Thread -> {"open", "mkdir", "opendir"}]
  /\ creat \in [Thread -> BOOLEAN]
  /\ dir \in [Thread -> File \cup {NULL}]
  /\ answer \in [Thread -> File \cup {NULL}]
  /\ leaked \subseteq File
  /\ \A t \in Thread :
       /\ step[t] \in 1 .. Len(path[t]) + 1
       /\ cursor[t].next # 0 => cursor[t].next \in DOMAIN entries[cursor[t].dir]
       /\ pc[t] = "opendir" => dir[t] \in File

(* file_open searches and creates under the directory's lock: whatever     *)
(* threads create at the same time, the names in a directory differ, each  *)
(* existing file but the root has one entry in one directory, and a slot   *)
(* that was freed after a failure has none.                                *)
EntriesFormATree ==
  /\ TypeOK
  /\ \A d \in File : \A k, l \in DOMAIN entries[d] :
       k # l => entries[d][k].name # entries[d][l].name
  /\ \A f \in File :
       LET places == UNION {{<<d, k>> : k \in {l \in DOMAIN entries[d] : entries[d][l].file = f}} :
                            d \in File}
       IN Cardinality(places) = IF type[f] = "unused" \/ f = root THEN 0 ELSE 1

(* file_open locks one directory after the other and never two at once: all*)
(* the same a call finds the file that was at its path when it began, and  *)
(* what it finds is what is at the path when it returns.                   *)
LookupSeesWhatExists ==
  \A t \in Thread :
    LET returned == pc[t] \in {"mkdir", "opendir"}
                      \/ (pc[t] = "idle" /\ path[t] # <<>>)
    IN returned =>
         /\ existed[t] # NULL => answer[t] = existed[t]
         /\ answer[t] # NULL => answer[t] = Resolve(path[t])

(* The file whose lock thread t waits for, and those it has locked itself. *)
WaitsFor(t) ==
  IF pc[t] \in {"walk", "opendir", "ls"} /\ dir[t] # NULL THEN {dir[t]} ELSE {}
Locked(t) == {f \in File \ leaked : lock[f] = t}
Child(d, f) == \E k \in DOMAIN entries[d] : entries[d][k].file = f

(* ls waits for locks while it holds others, file_open waits with none: a  *)
(* thread holds a chain of directories that goes down the tree to the file *)
(* it waits for, so that no two threads wait for each other.               *)
NoCircularWait ==
  \A t \in Thread : WaitsFor(t) # {} =>
    \A g \in Locked(t) : \E f \in Locked(t) \cup WaitsFor(t) : Child(g, f)

(* A thread that has left fs.c has unlocked everything it had locked, but  *)
(* for the directory in which the data of a new file could not be allocated*)
(* (fs.c:130), which stays locked for ever.                                *)
OnlyFailedInitKeepsLock ==
  \A f \in File \ leaked : lock[f] # NULL =>
    LET t == lock[f]
    IN \/ pc[t] = "create" /\ dir[t] = f
       \/ pc[t] = "ls" /\ \E k \in DOMAIN stack[t] : stack[t][k][1] = f

(* readdir returns the entries in their order, each once, while other      *)
(* threads add new ones, and reaches the end only when it has returned all *)
(* those there were at opendir.                                            *)
ReaddirComplete ==
  \A t \in Thread : cursor[t].dir # NULL =>
    LET listed == entries[cursor[t].dir]
    IN /\ Len(seen[t]) <= Len(listed)
       /\ \A k \in DOMAIN seen[t] : seen[t][k] = listed[k].file
       /\ cursor[t].next # 0 => cursor[t].next = Len(seen[t]) + 1
       /\ cursor[t].next = 0 => Len(seen[t]) >= unread[t]
=============================================================================
