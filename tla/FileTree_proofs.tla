-------------------------- MODULE FileTree_proofs --------------------------
(***************************************************************************)
(* Proofs about the file system: the entries form a tree, file_open sees   *)
(* what exists, readdir misses nothing, and no lock is kept or waited for  *)
(* in a circle, for any number of threads, files and paths.                *)
(* Two of them need that no name begins another: path_step takes a longer  *)
(* name for the one it looks for.                                          *)
(***************************************************************************)
EXTENDS Initramfs, TLAPS, SequenceTheorems, FiniteSetTheorems, WellFoundedInduction

Path  == DirPath \cup FilePath
Name  == UNION {ToSet(p) : p \in Path}
Entry == [name : Name, file : File]
Used  == {f \in File : type[f] # "unused"}

(* Which names path_step cannot mix up.                                    *)
NamesApart == \A m, n \in Name : IsPrefix(m, n) => m = n

FileTypes ==
  /\ type \in [File -> {"unused", "T_REGULAR", "T_DIRECTORY"}]
  /\ entries \in [File -> Seq(Entry)]
  /\ lock \in [File -> Thread \cup {NULL}]
  /\ pc \in [Thread -> {"idle", "walk", "create", "mkdir", "opendir", "ls"}]
  /\ call \in [Thread -> {"open", "mkdir", "opendir"}]
  /\ path \in [Thread -> Path \cup {<<>>}]
  /\ creat \in [Thread -> BOOLEAN]
  /\ dir \in [Thread -> File \cup {NULL}]
  /\ step \in [Thread -> Nat]
  /\ cursor \in [Thread -> [dir : File \cup {NULL}, next : Nat]]
  /\ stack \in [Thread -> Seq(File \X Nat)]
  /\ answer \in [Thread -> File \cup {NULL}]
  /\ seen \in [Thread -> Seq(File)]
  /\ unread \in [Thread -> Nat]
  /\ leaked \subseteq File
  /\ existed = [t \in Thread |-> existed[t]]
  /\ \A t \in Thread : step[t] \in 1 .. Len(path[t]) + 1

(* Every file but the root has one entry, and threads are at files.        *)
TreeInv ==
  /\ root \in Used
  /\ \A f \in File \ Used : entries[f] = <<>>
  /\ \A d \in File : \A k \in DOMAIN entries[d] : entries[d][k].file \in Used \ {root}
  /\ \A d, e \in File : \A k \in DOMAIN entries[d], l \in DOMAIN entries[e] :
       entries[d][k].file = entries[e][l].file => d = e /\ k = l
  /\ \A f \in Used \ {root} : \E d \in Used : Child(d, f)
  /\ \A t \in Thread : dir[t] \in Used \cup {NULL} /\ cursor[t].dir \in Used \cup {NULL}
  /\ \A t \in Thread : pc[t] = "opendir" => dir[t] \in Used

(* What thread t has locked, by where it is.                               *)
Holds(t) ==
  /\ pc[t] = "create" =>
       dir[t] \in Used /\ lock[dir[t]] = t /\ dir[t] \notin leaked /\ step[t] = Len(path[t])
  /\ \A i \in DOMAIN stack[t] : lock[stack[t][i][1]] = t /\ stack[t][i][1] \notin leaked
  /\ \A i, j \in DOMAIN stack[t] : stack[t][i][1] = stack[t][j][1] => i = j
  /\ pc[t] # "ls" => stack[t] = <<>>
  /\ pc[t] = "ls" /\ dir[t] = NULL => stack[t] # <<>>
  /\ \A f \in File \ leaked : lock[f] = t =>
       \/ pc[t] = "create" /\ dir[t] = f
       \/ pc[t] = "ls" /\ \E i \in DOMAIN stack[t] : stack[t][i][1] = f

HoldsInv ==
  /\ \A t \in Thread : Holds(t)
  /\ \A f \in leaked : lock[f] # NULL

(* What __ls has locked goes down the tree to where it waits.              *)
Descent(t) ==
  /\ \A i \in DOMAIN stack[t] : stack[t][i][2] >= 1
  /\ \A i \in 1 .. Len(stack[t]) - 1 : Child(stack[t][i][1], stack[t][i + 1][1])
  /\ pc[t] = "ls" /\ dir[t] # NULL /\ stack[t] # <<>> =>
       Child(stack[t][Len(stack[t])][1], dir[t])

DescentInv == \A t \in Thread : Descent(t)

(* What t has read of the directory it has opened.                         *)
Reads(t) ==
  LET listed == entries[cursor[t].dir]
  IN cursor[t].dir # NULL =>
       /\ Len(seen[t]) <= Len(listed)
       /\ \A k \in DOMAIN seen[t] : seen[t][k] = listed[k].file
       /\ unread[t] <= Len(listed)
       /\ cursor[t].next # 0 => /\ cursor[t].next = Len(seen[t]) + 1
                                /\ cursor[t].next \in DOMAIN listed
       /\ cursor[t].next = 0 => Len(seen[t]) >= unread[t]

ReadInv == \A t \in Thread : Reads(t)

(* The walk of file_open, and the calls it is made for.                    *)
CallInv ==
  \A t \in Thread :
    /\ pc[t] \in {"walk", "create", "mkdir"} =>
         path[t] \in IF call[t] = "open" THEN FilePath ELSE DirPath
    /\ cursor[t].dir = NULL => cursor[t].next = 0

FileInv == FileTypes /\ TreeInv /\ HoldsInv /\ DescentInv /\ ReadInv /\ CallInv

(* place[f] is the path at which f was made ...                            *)
Placed(place) ==
  /\ place[root] = <<>> /\ type[root] = "T_DIRECTORY"
  /\ \A f \in Used \ {root} :
       \/ place[f] \in DirPath /\ type[f] = "T_DIRECTORY"
       \/ place[f] \in FilePath /\ type[f] = "T_REGULAR"
  /\ \A f, g \in Used : place[f] = place[g] => f = g
  /\ \A f \in Used : \A n \in 0 .. Len(place[f]) : \E g \in Used : place[g] = SubSeq(place[f], 1, n)
  /\ \A d \in File : \A k \in DOMAIN entries[d] :
       place[entries[d][k].file] = Append(place[d], entries[d][k].name)

(* ... and t is, or its call has ended, where path[t] leads to; what was   *)
(* there when the call began is found.                                     *)
OnPath(place, t) ==
  /\ pc[t] \in {"walk", "create"} =>
       /\ dir[t] # NULL => step[t] <= Len(path[t]) /\ place[dir[t]] = SubSeq(path[t], 1, step[t] - 1)
       /\ existed[t] # NULL => dir[t] # NULL
  /\ pc[t] = "create" => \A f \in Used : place[f] # path[t]
  /\ existed[t] # NULL => existed[t] \in Used /\ place[existed[t]] = path[t]
  /\ pc[t] \notin {"walk", "create"} =>
       /\ answer[t] # NULL => answer[t] \in Used /\ place[answer[t]] = path[t]
       /\ existed[t] # NULL => answer[t] = existed[t]
  /\ pc[t] = "mkdir" => answer[t] = NULL

PlaceInv ==
  \E place \in [File -> Path \cup {<<>>}] : Placed(place) /\ \A t \in Thread : OnPath(place, t)

-----------------------------------------------------------------------------
(* Numbers and sequences.                                                  *)

LEMMA LeastNumber ==
  ASSUME NEW T, T \subseteq Nat, T # {}
  PROVE  \E m \in T : \A k \in T : m <= k
<1> DEFINE R == OpToRel(<, Nat)
<1>1. IsWellFoundedOn(R, Nat)
  BY NatLessThanWellFounded
<1>2. \A x, y \in Nat : <<y, x>> \in R <=> y < x
  BY DEF OpToRel
<1> HIDE DEF R
<1>3. PICK x \in T : \A y \in T : ~ (<<y, x>> \in R)
  BY <1>1, WFMin
<1>4. ASSUME NEW k \in T PROVE x <= k
  <2>1. x \in Nat /\ k \in Nat /\ ~ (k < x)
    BY <1>2, <1>3
  <2> QED BY <2>1
<1> QED BY <1>4

(* Max, which path_step's loop is written with, exists.                    *)
LEMMA LargestNumber ==
  ASSUME NEW n \in Nat, NEW T, T \subseteq 1 .. n, T # {}
  PROVE  Max(T) \in T /\ \A k \in T : k <= Max(T)
<1> DEFINE D == {n - k : k \in T}
<1>1. D \subseteq Nat /\ D # {}
  <2>1. \A k \in T : n - k \in Nat
    OBVIOUS
  <2> QED BY <2>1
<1>2. PICK m \in D : \A k \in D : m <= k
  <2> HIDE DEF D
  <2> QED BY <1>1, LeastNumber
<1>3. PICK x \in T : m = n - x
  BY <1>2
<1>4. \A y \in T : x >= y
  <2>1. ASSUME NEW y \in T PROVE x >= y
    <3>1. n - y \in D /\ x \in 1 .. n /\ y \in 1 .. n
      OBVIOUS
    <3>2. n - x <= n - y
      BY <3>1, <1>2, <1>3
    <3> QED BY <3>1, <3>2
  <2> QED BY <2>1
<1> HIDE DEF D
<1>5. Max(T) \in T /\ \A y \in T : Max(T) >= y
  BY <1>3, <1>4 DEF Max
<1> QED BY <1>5

(* What Append, Front and Last, which the stacks of __ls are kept with, do.*)
LEMMA AppendIs ==
  ASSUME NEW S, NEW s \in Seq(S), NEW a \in S
  PROVE  /\ Append(s, a) \in Seq(S) /\ Append(s, a) # <<>>
         /\ Len(s) \in Nat /\ DOMAIN s = 1 .. Len(s)
         /\ Len(Append(s, a)) = Len(s) + 1
         /\ DOMAIN Append(s, a) = 1 .. Len(s) + 1
         /\ \A i \in 1 .. Len(s) : Append(s, a)[i] = s[i]
         /\ Append(s, a)[Len(s) + 1] = a
<1>1. /\ Append(s, a) \in Seq(S) /\ Append(s, a) # <<>>
      /\ Len(Append(s, a)) = Len(s) + 1
      /\ \A i \in 1 .. Len(s) : Append(s, a)[i] = s[i]
      /\ Append(s, a)[Len(s) + 1] = a
  BY AppendProperties
<1> QED BY <1>1

LEMMA FrontIs ==
  ASSUME NEW S, NEW s \in Seq(S), s # <<>>
  PROVE  /\ Len(s) \in Nat /\ Len(s) > 0 /\ DOMAIN s = 1 .. Len(s)
         /\ Last(s) \in S /\ Last(s) = s[Len(s)]
         /\ Front(s) \in Seq(S) /\ Len(Front(s)) = Len(s) - 1
         /\ DOMAIN Front(s) = 1 .. Len(s) - 1
         /\ \A i \in 1 .. Len(s) - 1 : Front(s)[i] = s[i]
<1>1. Len(s) \in Nat /\ Len(s) > 0 /\ DOMAIN s = 1 .. Len(s)
  BY EmptySeq
<1>2. \A i \in 1 .. Len(s) : s[i] \in S
  BY ElementOfSeq
<1>3. Len(s) - 1 \in Int /\ 1 \in Int /\ \A i \in 1 .. Len(s) - 1 : s[i] \in S
  BY <1>1, <1>2
<1>4. /\ SubSeq(s, 1, Len(s) - 1) \in Seq(S)
      /\ Len(SubSeq(s, 1, Len(s) - 1))
           = IF 1 <= Len(s) - 1 THEN Len(s) - 1 - 1 + 1 ELSE 0
      /\ \A i \in 1 .. Len(s) - 1 - 1 + 1 : SubSeq(s, 1, Len(s) - 1)[i] = s[1 + i - 1]
  BY <1>3, SubSeqProperties
<1>5. /\ Front(s) = SubSeq(s, 1, Len(s) - 1)
      /\ Len(s) - 1 - 1 + 1 = Len(s) - 1
  BY <1>1 DEF Front
<1>6. Len(Front(s)) = Len(s) - 1
  BY <1>1, <1>4, <1>5
<1>7. \A i \in 1 .. Len(s) - 1 : 1 + i - 1 = i
  OBVIOUS
<1>8. \A i \in 1 .. Len(s) - 1 : Front(s)[i] = s[i]
  BY <1>4, <1>5, <1>7
<1>9. Front(s) \in Seq(S) /\ DOMAIN Front(s) = 1 .. Len(s) - 1
  BY <1>4, <1>5, <1>6
<1>10. Last(s) = s[Len(s)] /\ Last(s) \in S
  BY <1>1, <1>2 DEF Last
<1> QED BY <1>1, <1>6, <1>8, <1>9, <1>10

(* The stack of __ls.                                                      *)
LEMMA StackIs ==
  ASSUME NEW s \in Seq(File \X Nat), s # <<>>
  PROVE  /\ Len(s) \in Nat /\ Len(s) > 0 /\ DOMAIN s = 1 .. Len(s)
         /\ Last(s) = s[Len(s)] /\ Last(s) \in File \X Nat
         /\ Front(s) \in Seq(File \X Nat) /\ Len(Front(s)) = Len(s) - 1
         /\ DOMAIN Front(s) = 1 .. Len(s) - 1
         /\ \A i \in 1 .. Len(s) - 1 : Front(s)[i] = s[i]
         /\ \A i \in 1 .. Len(s) : s[i] \in File \X Nat
<1> DEFINE Activation == File \X Nat
<1>1. s \in Seq(Activation)
  OBVIOUS
<1> HIDE DEF Activation
<1>2. /\ Len(s) \in Nat /\ Len(s) > 0 /\ DOMAIN s = 1 .. Len(s)
      /\ Last(s) \in Activation /\ Last(s) = s[Len(s)]
      /\ Front(s) \in Seq(Activation) /\ Len(Front(s)) = Len(s) - 1
      /\ DOMAIN Front(s) = 1 .. Len(s) - 1
      /\ \A i \in 1 .. Len(s) - 1 : Front(s)[i] = s[i]
  BY <1>1, FrontIs
<1>3. \A i \in 1 .. Len(s) : s[i] \in Activation
  BY <1>1, ElementOfSeq
<1> QED BY <1>2, <1>3 DEF Activation

-----------------------------------------------------------------------------
(* path_step.                                                              *)

LEMMA NullIsNoFile == NULL \notin File /\ NULL \notin Thread /\ root \in File
BY FileAssumption

LEMMA EntryIs ==
  ASSUME FileTypes, NEW d \in File
  PROVE  /\ entries[d] \in Seq(Entry)
         /\ Len(entries[d]) \in Nat /\ DOMAIN entries[d] = 1 .. Len(entries[d])
         /\ \A k \in DOMAIN entries[d] :
              entries[d][k].file \in File /\ entries[d][k].name \in Name
<1>1. entries[d] \in Seq(Entry)
  BY DEF FileTypes
<1>2. Len(entries[d]) \in Nat /\ DOMAIN entries[d] = 1 .. Len(entries[d])
  BY <1>1
<1>3. \A k \in DOMAIN entries[d] : entries[d][k] \in Entry
  BY <1>1, <1>2, ElementOfSeq
<1> QED BY <1>1, <1>2, <1>3 DEF Entry

(* It returns a file of the directory whose name begins with the one it    *)
(* looks for, and NULL only when the directory has none.                   *)
LEMMA PathStepIs ==
  ASSUME FileTypes, NEW d \in File, NEW name
  PROVE  /\ PathStep(d, name) # NULL =>
              \E k \in DOMAIN entries[d] : /\ IsPrefix(name, entries[d][k].name)
                                           /\ PathStep(d, name) = entries[d][k].file
         /\ PathStep(d, name) = NULL /\ type[d] = "T_DIRECTORY" =>
              \A k \in DOMAIN entries[d] : ~ IsPrefix(name, entries[d][k].name)
         /\ PathStep(d, name) \in File \cup {NULL}
<1> DEFINE hits == {k \in DOMAIN entries[d] : IsPrefix(name, entries[d][k].name)}
<1>1. Len(entries[d]) \in Nat /\ DOMAIN entries[d] = 1 .. Len(entries[d])
  BY EntryIs
<1>2. hits # {} => Max(hits) \in hits
  <2>1. hits \subseteq 1 .. Len(entries[d])
    BY <1>1
  <2> HIDE DEF hits
  <2> QED BY <2>1, <1>1, LargestNumber
<1>3. \A k \in DOMAIN entries[d] : entries[d][k].file \in File
  BY EntryIs
<1>4. PathStep(d, name) = IF type[d] # "T_DIRECTORY" \/ hits = {} THEN NULL
                          ELSE entries[d][Max(hits)].file
  BY DEF PathStep
<1> QED BY <1>2, <1>3, <1>4, NullIsNoFile

-----------------------------------------------------------------------------
(* What the steps have in common.                                          *)

(* One thread's step leaves the others where they are.                     *)
Others(t) ==
  \A u \in Thread \ {t} :
    /\ pc'[u] = pc[u] /\ call'[u] = call[u] /\ path'[u] = path[u] /\ creat'[u] = creat[u]
    /\ dir'[u] = dir[u] /\ step'[u] = step[u] /\ cursor'[u] = cursor[u] /\ stack'[u] = stack[u]
    /\ existed'[u] = existed[u] /\ answer'[u] = answer[u] /\ seen'[u] = seen[u]
    /\ unread'[u] = unread[u]

(* All that the threads keep are functions on them.                        *)
IsFunctions ==
  LET is(f) == f = [u \in Thread |-> f[u]]
  IN /\ is(pc) /\ is(call) /\ is(path) /\ is(creat) /\ is(dir) /\ is(step) /\ is(cursor)
     /\ is(stack) /\ is(existed) /\ is(answer) /\ is(seen) /\ is(unread)

(* file_open's return, and what its caller does then.                      *)
LEMMA ReturnIs ==
  ASSUME FileTypes, NEW t \in Thread, NEW f \in File \cup {NULL}, Return(t, f)
  PROVE  /\ answer' = [answer EXCEPT ![t] = f]
         /\ dir' = [dir EXCEPT ![t] = f]
         /\ \E r \in {"idle", "mkdir", "opendir"} :
              /\ pc' = [pc EXCEPT ![t] = r]
              /\ r = "opendir" => f # NULL
              /\ r = "mkdir" => f = NULL /\ call[t] = "mkdir"
BY DEF Return

LEMMA PathFacts ==
  ASSUME NEW p \in Path \cup {<<>>}
  PROVE  /\ p \in Seq(Name) /\ Len(p) \in Nat
         /\ p \in Path => Len(p) > 0 /\ Last(p) \in Name /\ Last(p) = p[Len(p)]
         /\ \A i \in 1 .. Len(p) : p[i] \in Name
<1>1. CASE p = <<>>
  <2>1. <<>> \in Seq(Name) /\ Len(<<>>) = 0
    OBVIOUS
  <2>2. <<>> \notin Path
    BY PathAssumption DEF Path
  <2> QED BY <1>1, <2>1, <2>2
<1>2. CASE p \in Path
  <2>1. p \in Seq(ToSet(p)) /\ p # <<>>
    BY <1>2, PathAssumption DEF Path
  <2>2. Len(p) \in Nat /\ Len(p) > 0
    BY <2>1, EmptySeq
  <2>3. \A i \in 1 .. Len(p) : p[i] \in ToSet(p)
    BY <2>1, ElementOfSeq
  <2>4. \A i \in 1 .. Len(p) : p[i] \in Name
    BY <1>2, <2>3 DEF Name
  <2>5. p \in Seq(Name)
    <3>1. p = [i \in 1 .. Len(p) |-> p[i]]
      BY <2>1
    <3>2. p \in [1 .. Len(p) -> Name]
      BY <2>4, <3>1
    <3> QED BY <2>2, <3>2
  <2> QED BY <2>2, <2>4, <2>5 DEF Last
<1> QED BY <1>1, <1>2


LEMMA OneThread ==
  ASSUME FileTypes, NEW t \in Thread, Calls(t) \/ Steps(t)
  PROVE  Others(t) /\ IsFunctions'
<1>1. IsFunctions
  BY DEF FileTypes, IsFunctions
<1> USE <1>1 DEF IsFunctions, Others
<1>2. ASSUME NEW function, NEW p, NEW flag, Start(t, function, p, flag)
      PROVE  Others(t) /\ IsFunctions'
  BY <1>2 DEF Start, lists
<1>3. CASE Calls(t)
  <2>1. CASE Readdir(t) \/ Closedir(t) \/ Ls(t)
    BY <2>1 DEF Readdir, Closedir, Ls, walk, lists
  <2> QED BY <2>1, <1>2, <1>3 DEF Calls, Open, Mkdir, Opendir
<1>4. CASE Steps(t)
  <2>1. CASE Walk(t) \/ MkdirCreates(t) \/ NoDirDesc(t) \/ OpendirDone(t)
    BY <2>1 DEF Walk, MkdirCreates, NoDirDesc, OpendirDone, walk, lists
  <2>2. CASE LsLock(t) \/ LsNext(t) \/ LsUnlock(t)
    BY <2>2 DEF LsLock, LsNext, LsUnlock, walk, lists
  <2>3. CASE WalkFails(t) \/ CreateFails(t) \/ InitFails(t)
    BY <2>3 DEF WalkFails, CreateFails, InitFails, Return, lists
  <2>4. CASE Find(t)
    BY <2>4 DEF Find, Return, lists
  <2>5. CASE \E f \in File : Create(t, f)
    BY <2>5 DEF Create, Return, lists
  <2> QED BY <2>1, <2>2, <2>3, <2>4, <2>5, <1>4 DEF Steps
<1> QED BY <1>3, <1>4


(* The types of what a thread keeps.                                       *)
ThreadTypes(t) ==
  /\ pc[t] \in {"idle", "walk", "create", "mkdir", "opendir", "ls"}
  /\ call[t] \in {"open", "mkdir", "opendir"}
  /\ path[t] \in Path \cup {<<>>}
  /\ creat[t] \in BOOLEAN
  /\ dir[t] \in File \cup {NULL}
  /\ step[t] \in Nat /\ step[t] \in 1 .. Len(path[t]) + 1
  /\ cursor[t] \in [dir : File \cup {NULL}, next : Nat]
  /\ stack[t] \in Seq(File \X Nat)
  /\ answer[t] \in File \cup {NULL}
  /\ seen[t] \in Seq(File)
  /\ unread[t] \in Nat

TreeTypes ==
  /\ type \in [File -> {"unused", "T_REGULAR", "T_DIRECTORY"}]
  /\ entries \in [File -> Seq(Entry)]
  /\ lock \in [File -> Thread \cup {NULL}]
  /\ leaked \subseteq File

LEMMA TypesAt == FileTypes => IsFunctions /\ TreeTypes /\ \A t \in Thread : ThreadTypes(t)
BY DEF FileTypes, IsFunctions, TreeTypes, ThreadTypes

LEMMA TypesFrom ==
  ASSUME FileTypes, NEW t \in Thread, Others(t), IsFunctions', TreeTypes', ThreadTypes(t)'
  PROVE  FileTypes'
<1> HIDE DEF Path, Entry
<1>1. ASSUME NEW u \in Thread PROVE ThreadTypes(u)'
  <2>1. CASE u = t
    BY <2>1
  <2>2. CASE u # t
    <3>1. ThreadTypes(u)
      BY TypesAt
    <3> QED BY <2>2, <3>1 DEF ThreadTypes, Others
  <2> QED BY <2>1, <2>2
<1>2. \A u \in Thread : step'[u] \in 1 .. Len(path'[u]) + 1
  BY <1>1 DEF ThreadTypes
<1>3. /\ pc' \in [Thread -> {"idle", "walk", "create", "mkdir", "opendir", "ls"}]
      /\ call' \in [Thread -> {"open", "mkdir", "opendir"}]
      /\ path' \in [Thread -> Path \cup {<<>>}]
      /\ creat' \in [Thread -> BOOLEAN]
  BY <1>1 DEF ThreadTypes, IsFunctions
<1>4. /\ dir' \in [Thread -> File \cup {NULL}]
      /\ step' \in [Thread -> Nat]
      /\ cursor' \in [Thread -> [dir : File \cup {NULL}, next : Nat]]
      /\ stack' \in [Thread -> Seq(File \X Nat)]
  BY <1>1 DEF ThreadTypes, IsFunctions
<1>5. /\ answer' \in [Thread -> File \cup {NULL}]
      /\ seen' \in [Thread -> Seq(File)]
      /\ unread' \in [Thread -> Nat]
      /\ existed' = [u \in Thread |-> existed'[u]]
  BY <1>1 DEF ThreadTypes, IsFunctions
<1> QED BY <1>2, <1>3, <1>4, <1>5 DEF FileTypes, TreeTypes

LEMMA TypesStep ==
  ASSUME FileInv, NEW t \in Thread, Calls(t) \/ Steps(t)
  PROVE  FileTypes'
<1> HIDE DEF Path, Entry
<1>6. FileTypes
  BY DEF FileInv
<1> SUFFICES TreeTypes' /\ ThreadTypes(t)'
  BY <1>6, OneThread, TypesFrom
<1>1. IsFunctions /\ TreeTypes /\ ThreadTypes(t)
  BY <1>6, TypesAt
<1>2. Len(path[t]) \in Nat
  BY <1>1, PathFacts DEF ThreadTypes
<1>3. ASSUME NEW function \in {"open", "mkdir", "opendir"}, NEW p \in Path, NEW flag \in BOOLEAN,
             Start(t, function, p, flag)
      PROVE  TreeTypes' /\ ThreadTypes(t)'
  <2>1. Len(p) \in Nat
    BY PathFacts
  <2> QED BY <1>1, <1>3, <2>1, NullIsNoFile
          DEF TreeTypes, ThreadTypes, IsFunctions, Start, tree, lists
<1>4. CASE Calls(t)
  <2>1. CASE Readdir(t)
    <3> DEFINE d == cursor[t].dir
               k == cursor[t].next
    <3>1. d \in File /\ k \in Nat
      BY <1>1, <2>1 DEF Readdir, ThreadTypes
    <3>2. entries[d][k].file \in File /\ Len(entries[d]) \in Nat
      <4>1. k \in DOMAIN entries[d]
        BY <2>1 DEF FileInv, ReadInv, Reads, Readdir
      <4> QED BY <4>1, <3>1, <1>6, EntryIs
    <3>3. /\ seen' = [seen EXCEPT ![t] = Append(@, entries[d][k].file)]
          /\ cursor' = [cursor EXCEPT ![t].next = IF k = Len(entries[d]) THEN 0 ELSE k + 1]
          /\ UNCHANGED <<tree, lock, pc, walk, unread, stack, leaked>>
      BY <2>1 DEF Readdir
    <3>4. cursor'[t] \in [dir : File \cup {NULL}, next : Nat] /\ seen'[t] \in Seq(File)
      <4>1. cursor'[t] = [cursor[t] EXCEPT !.next = IF k = Len(entries[d]) THEN 0 ELSE k + 1]
        BY <1>1, <3>3 DEF IsFunctions
      <4>2. cursor[t] \in [dir : File \cup {NULL}, next : Nat]
        BY <1>1 DEF ThreadTypes
      <4>3. cursor'[t] \in [dir : File \cup {NULL}, next : Nat]
        <5> DEFINE n == IF k = Len(entries[d]) THEN 0 ELSE k + 1
        <5>1. n \in Nat
          BY <3>1
        <5> HIDE DEF n, k, d
        <5> QED BY <5>1, <4>1, <4>2 DEF n
      <4>4. seen'[t] = Append(seen[t], entries[d][k].file) /\ seen[t] \in Seq(File)
        BY <1>1, <3>3 DEF IsFunctions, ThreadTypes
      <4> QED BY <4>3, <4>4, <3>2
    <3> QED BY <3>3, <3>4, <1>1 DEF TreeTypes, ThreadTypes, tree, walk
  <2>2. CASE Closedir(t)
    BY <2>2, <1>1, NullIsNoFile DEF Closedir, TreeTypes, ThreadTypes, IsFunctions, tree, walk
  <2>3. CASE Ls(t)
    BY <2>3, <1>1, NullIsNoFile DEF Ls, TreeTypes, ThreadTypes, IsFunctions, tree, lists
  <2> QED BY <2>1, <2>2, <2>3, <1>3, <1>4 DEF Calls, Open, Mkdir, Opendir, Path
<1>5. CASE Steps(t)
  <2>1. CASE Walk(t)
    <3>1. PathStep(dir[t], path[t][step[t]]) \in File \cup {NULL}
      BY <1>1, <1>6, <2>1, PathStepIs DEF Walk, ThreadTypes
    <3> QED BY <2>1, <3>1, <1>1, <1>2 DEF Walk, TreeTypes, ThreadTypes, IsFunctions, tree, lists
  <2>2. ASSUME NEW f \in File \cup {NULL}, Return(t, f)
        PROVE  /\ pc'[t] \in {"idle", "mkdir", "opendir"}
               /\ dir'[t] \in File \cup {NULL} /\ answer'[t] \in File \cup {NULL}
    BY <2>2, <1>1 DEF Return, IsFunctions
  <2>3. CASE WalkFails(t) \/ CreateFails(t) \/ InitFails(t)
    <3>1. /\ pc'[t] \in {"idle", "mkdir", "opendir"}
          /\ dir'[t] \in File \cup {NULL} /\ answer'[t] \in File \cup {NULL}
      BY <2>2, <2>3 DEF WalkFails, CreateFails, InitFails
    <3>2. TreeTypes'
      <4>1. pc[t] = "create" => dir[t] \in File
        BY DEF FileInv, HoldsInv, Holds, Used
      <4> QED BY <2>3, <4>1, <1>1 DEF WalkFails, CreateFails, InitFails, TreeTypes, tree
    <3>3. UNCHANGED <<call, path, creat, step, cursor, seen, unread, stack>>
      BY <2>3 DEF WalkFails, CreateFails, InitFails, lists
    <3> QED BY <3>1, <3>2, <3>3, <1>1 DEF ThreadTypes
  <2>4. CASE Find(t)
    <3>1. PathStep(dir[t], path[t][step[t]]) \in File \cup {NULL}
      BY <1>1, <1>6, <2>4, PathStepIs DEF Find, ThreadTypes
    <3>2. /\ pc'[t] \in {"idle", "mkdir", "opendir", "create"}
          /\ dir'[t] \in File \cup {NULL} /\ answer'[t] \in File \cup {NULL}
      BY <1>1, <2>2, <2>4, <3>1 DEF Find, ThreadTypes, IsFunctions
    <3> QED BY <2>4, <3>2, <1>1 DEF Find, TreeTypes, ThreadTypes, tree, lists
  <2>5. ASSUME NEW f \in File, Create(t, f) PROVE TreeTypes' /\ ThreadTypes(t)'
    <3> DEFINE e == [name |-> Last(path[t]), file |-> f]
               d == dir[t]
    <3>1. d \in File /\ pc[t] = "create" /\ step[t] = Len(path[t])
      BY <2>5 DEF FileInv, HoldsInv, Holds, Create, Used
    <3>2. path[t] \in Path
      BY <2>5 DEF FileInv, CallInv, Create, Path
    <3>3. e \in Entry
      BY <3>2, PathFacts DEF Entry
    <3>4. Append(entries[d], e) \in Seq(Entry) /\ <<>> \in Seq(Entry)
      BY <1>6, <3>1, <3>3, EntryIs, AppendIs
    <3>5. entries' = [entries EXCEPT ![f] = <<>>, ![d] = Append(@, e)]
      BY <2>5 DEF Create
    <3> HIDE DEF e
    <3>6. entries' \in [File -> Seq(Entry)]
      BY <3>1, <3>3, <3>4, <3>5, <1>1 DEF TreeTypes
    <3>7. /\ type' \in [File -> {"unused", "T_REGULAR", "T_DIRECTORY"}]
          /\ lock' \in [File -> Thread \cup {NULL}]
          /\ leaked' \subseteq File
      BY <2>5, <1>1 DEF Create, TreeTypes, Kind
    <3>8. /\ pc'[t] \in {"idle", "mkdir", "opendir"}
          /\ dir'[t] \in File \cup {NULL} /\ answer'[t] \in File \cup {NULL}
      BY <2>2, <2>5 DEF Create
    <3>9. UNCHANGED <<call, path, creat, step, cursor, seen, unread, stack>>
      BY <2>5 DEF Create, lists
    <3> QED BY <3>6, <3>7, <3>8, <3>9, <1>1 DEF ThreadTypes, TreeTypes
  <2>6. CASE MkdirCreates(t)
    <3>1. dir'[t] = root /\ step'[t] = 1 /\ creat'[t] = TRUE /\ pc'[t] = "walk"
      BY <2>6, <1>1 DEF MkdirCreates, IsFunctions
    <3>2. UNCHANGED <<type, entries, lock, leaked, call, path, cursor, seen, unread, answer, stack>>
      BY <2>6 DEF MkdirCreates, tree, lists
    <3>3. step'[t] \in Nat /\ step'[t] \in 1 .. Len(path'[t]) + 1
      BY <3>1, <3>2, <1>2
    <3>4. dir'[t] \in File
      BY <3>1, NullIsNoFile
    <3> QED BY <3>1, <3>2, <3>3, <3>4, <1>1 DEF TreeTypes, ThreadTypes
  <2>7. CASE NoDirDesc(t)
    BY <2>7, <1>1 DEF NoDirDesc, TreeTypes, ThreadTypes, IsFunctions, tree, walk, lists
  <2>8. CASE OpendirDone(t)
    <3>1. dir[t] \in File /\ Len(entries[dir[t]]) \in Nat
      <4>1. dir[t] \in File
        BY <2>8 DEF FileInv, TreeInv, OpendirDone, Used
      <4> QED BY <4>1, <1>6, EntryIs
    <3> QED BY <2>8, <3>1, <1>1 DEF OpendirDone, TreeTypes, ThreadTypes, IsFunctions, tree, walk
  <2>9. CASE LsLock(t)
    BY <2>9, <1>1, NullIsNoFile DEF LsLock, TreeTypes, ThreadTypes, IsFunctions, tree, lists
  <2>10. CASE LsNext(t)
    <3> DEFINE f == Last(stack[t])[1]
               k == Last(stack[t])[2]
    <3>1. pc[t] = "ls" /\ dir[t] = NULL /\ k <= Len(entries[f])
          /\ dir' = [dir EXCEPT ![t] = entries[f][k].file]
          /\ stack' = [stack EXCEPT ![t] = Append(Front(@), <<f, k + 1>>)]
          /\ UNCHANGED <<tree, lock, pc, call, path, creat, step, existed, answer, lists, leaked>>
      BY <2>10 DEF LsNext
    <3>2. stack[t] \in Seq(File \X Nat) /\ stack[t] # <<>>
      BY <1>1, <3>1 DEF ThreadTypes, FileInv, HoldsInv, Holds
    <3>9. /\ Last(stack[t]) \in File \X Nat /\ Front(stack[t]) \in Seq(File \X Nat)
          /\ Last(stack[t]) = stack[t][Len(stack[t])]
      BY <3>2, StackIs
    <3>10. Len(stack[t]) \in DOMAIN stack[t]
      BY <3>2, StackIs
    <3>3. Last(stack[t])[2] >= 1
      BY <3>9, <3>10 DEF FileInv, DescentInv, Descent
    <3>4. f \in File /\ k \in Nat /\ k >= 1
      BY <3>3, <3>9
    <3>5. entries[f][k].file \in File
      BY <3>1, <3>4, <1>6, EntryIs
    <3>6. <<f, k + 1>> \in File \X Nat
      BY <3>4
    <3>7. Append(Front(stack[t]), <<f, k + 1>>) \in Seq(File \X Nat)
      BY <3>9, <3>6, AppendIs
    <3> HIDE DEF f, k
    <3>8. stack'[t] \in Seq(File \X Nat) /\ dir'[t] \in File
      BY <3>1, <3>5, <3>7, <1>1 DEF IsFunctions
    <3> QED BY <3>1, <3>8, <1>1 DEF TreeTypes, ThreadTypes, tree, lists
  <2>11. CASE LsUnlock(t)
    <3>1. stack[t] \in Seq(File \X Nat) /\ stack[t] # <<>>
      BY <1>1, <2>11 DEF ThreadTypes, FileInv, HoldsInv, Holds, LsUnlock
    <3>2. stack'[t] \in Seq(File \X Nat)
      BY <3>1, <2>11, <1>1, StackIs DEF LsUnlock, IsFunctions
    <3> QED BY <3>2, <2>11, <1>1 DEF LsUnlock, TreeTypes, ThreadTypes, IsFunctions, tree, walk, lists
  <2> QED BY <2>1, <2>3, <2>4, <2>5, <2>6, <2>7, <2>8, <2>9, <2>10, <2>11, <1>5 DEF Steps
<1> QED BY <1>4, <1>5

-----------------------------------------------------------------------------
(* How the tree changes.                                                   *)

LEMMA TreeChanges ==
  ASSUME NEW t \in Thread, Calls(t) \/ Steps(t)
  PROVE  UNCHANGED tree \/ \E f \in File : Create(t, f)
<1>1. CASE Calls(t)
  BY <1>1 DEF Calls, Open, Mkdir, Opendir, Start, Readdir, Closedir, Ls
<1>2. CASE Steps(t)
  BY <1>2 DEF Steps, Walk, WalkFails, Find, CreateFails, InitFails, MkdirCreates, NoDirDesc,
              OpendirDone, LsLock, LsNext, LsUnlock
<1> QED BY <1>1, <1>2

LEMMA CreateIs ==
  ASSUME FileInv, NEW t \in Thread, NEW f \in File, Create(t, f)
  PROVE  LET d == dir[t]
             n == Len(entries[d])
         IN /\ f \in File \ Used /\ d \in Used /\ d # f /\ n \in Nat
            /\ DOMAIN entries[d] = 1 .. n
            /\ Used' = Used \cup {f}
            /\ \A g \in File \ {f} : type'[g] = type[g]
            /\ type'[f] = Kind(t)
            /\ \A g \in File \ {d} : entries'[g] = entries[g]
            /\ Len(entries'[d]) = n + 1 /\ DOMAIN entries'[d] = 1 .. n + 1
            /\ \A k \in 1 .. n : entries'[d][k] = entries[d][k]
            /\ entries'[d][n + 1] = [name |-> Last(path[t]), file |-> f]
            /\ path[t] \in Path
<1> DEFINE d == dir[t]
           n == Len(entries[d])
           e == [name |-> Last(path[t]), file |-> f]
<1> HIDE DEF Path, Entry
<1>1. FileTypes
  BY DEF FileInv
<1>2. f \in File \ Used /\ d \in Used /\ d # f /\ d \in File
  BY DEF Create, Used, FileInv, HoldsInv, Holds
<1>3. path[t] \in Path
  BY DEF FileInv, CallInv, Create, Path
<1>4. e \in Entry
  BY <1>3, PathFacts DEF Entry
<1>5. entries[d] \in Seq(Entry)
  BY <1>1, <1>2, EntryIs
<1>6. entries[f] = <<>>
  BY <1>2 DEF FileInv, TreeInv
<1>7. /\ \A g \in File \ {d} : entries'[g] = entries[g]
      /\ entries'[d] = Append(entries[d], e)
  <2>1. entries' = [entries EXCEPT ![f] = <<>>, ![d] = Append(@, e)]
    BY DEF Create
  <2> HIDE DEF e
  <2> QED BY <2>1, <1>1, <1>2, <1>6 DEF FileTypes
<1>8. type' = [type EXCEPT ![f] = Kind(t)] /\ Kind(t) # "unused"
  BY DEF Create, Kind
<1>9. /\ \A g \in File \ {f} : type'[g] = type[g]
      /\ type'[f] = Kind(t)
  BY <1>1, <1>8 DEF FileTypes
<1>10. Used' = Used \cup {f}
  BY <1>8, <1>9 DEF Used
<1> HIDE DEF e
<1>11. /\ n \in Nat /\ DOMAIN entries[d] = 1 .. n
       /\ Len(Append(entries[d], e)) = n + 1 /\ DOMAIN Append(entries[d], e) = 1 .. n + 1
       /\ \A k \in 1 .. n : Append(entries[d], e)[k] = entries[d][k]
       /\ Append(entries[d], e)[n + 1] = e
  BY <1>4, <1>5, AppendIs
<1> QED BY <1>2, <1>3, <1>7, <1>9, <1>10, <1>11 DEF e

(* Nothing is ever taken out of the tree.                                  *)
LEMMA TreeGrows ==
  ASSUME FileInv, NEW t \in Thread, Calls(t) \/ Steps(t)
  PROVE  /\ Used \subseteq Used'
         /\ \A d \in File : Len(entries[d]) <= Len(entries'[d])
         /\ \A d \in File : \A k \in DOMAIN entries[d] :
              k \in DOMAIN entries'[d] /\ entries'[d][k] = entries[d][k]
<1>1. \A d \in File : Len(entries[d]) \in Nat /\ DOMAIN entries[d] = 1 .. Len(entries[d])
  BY EntryIs DEF FileInv
<1>2. CASE UNCHANGED tree
  BY <1>1, <1>2 DEF tree, Used
<1>3. ASSUME NEW f \in File, Create(t, f)
      PROVE  /\ Used \subseteq Used'
             /\ \A d \in File : Len(entries[d]) <= Len(entries'[d])
             /\ \A d \in File : \A k \in DOMAIN entries[d] :
                  k \in DOMAIN entries'[d] /\ entries'[d][k] = entries[d][k]
  <2> DEFINE e == dir[t]
             n == Len(entries[e])
  <2>1. /\ e \in File /\ n \in Nat
        /\ Used' = Used \cup {f}
        /\ \A g \in File \ {e} : entries'[g] = entries[g]
        /\ Len(entries'[e]) = n + 1 /\ DOMAIN entries'[e] = 1 .. n + 1
        /\ \A k \in 1 .. n : entries'[e][k] = entries[e][k]
    BY <1>3, CreateIs DEF Used
  <2> QED BY <2>1, <1>1
<1> QED BY <1>2, <1>3, TreeChanges

(* Threads only arrive at files that are used.                             *)
LEMMA Arrives ==
  ASSUME FileInv, NEW t \in Thread, Calls(t) \/ Steps(t)
  PROVE  /\ dir'[t] \in Used' \cup {NULL} /\ cursor'[t].dir \in Used' \cup {NULL}
         /\ pc'[t] = "opendir" => dir'[t] \in Used'
<1> HIDE DEF Path, Entry
<1>1. FileTypes /\ IsFunctions /\ ThreadTypes(t)
  BY TypesAt DEF FileInv
<1>2. /\ dir[t] \in Used \cup {NULL} /\ cursor[t].dir \in Used \cup {NULL}
      /\ pc[t] = "opendir" => dir[t] \in Used
      /\ root \in Used /\ Used \subseteq Used'
  BY TreeGrows DEF FileInv, TreeInv
<1>3. \A d \in File : \A name : PathStep(d, name) \in Used \cup {NULL}
  <2>1. ASSUME NEW d \in File, NEW name PROVE PathStep(d, name) \in Used \cup {NULL}
    BY <1>1, PathStepIs DEF FileInv, TreeInv
  <2> QED BY <2>1
<1>4. ASSUME NEW f \in Used' \cup {NULL}, Return(t, f)
      PROVE  dir'[t] = f /\ (pc'[t] = "opendir" => f # NULL)
  BY <1>1, <1>4 DEF Return, IsFunctions
<1>5. ASSUME NEW function, NEW p, NEW flag, Start(t, function, p, flag)
      PROVE  dir'[t] = root /\ cursor'[t] = cursor[t] /\ pc'[t] = "walk"
  BY <1>5, <1>1 DEF Start, IsFunctions, lists
<1>6. CASE Calls(t)
  <2>1. CASE Readdir(t)
    <3>1. cursor'[t].dir = cursor[t].dir
      BY <2>1, <1>1 DEF Readdir, IsFunctions, ThreadTypes
    <3>2. dir'[t] = dir[t] /\ pc'[t] = "idle"
      BY <2>1, <1>1 DEF Readdir, walk
    <3> QED BY <3>1, <3>2, <1>2
  <2>2. CASE Closedir(t) \/ Ls(t)
    BY <2>2, <1>1, <1>2 DEF Closedir, Ls, IsFunctions, walk, lists
  <2> QED BY <2>1, <2>2, <1>2, <1>5, <1>6 DEF Calls, Open, Mkdir, Opendir
<1>7. CASE Steps(t)
  <2>1. CASE Walk(t)
    BY <2>1, <1>1, <1>2, <1>3 DEF Walk, IsFunctions, ThreadTypes, lists
  <2>2. CASE WalkFails(t) \/ CreateFails(t) \/ InitFails(t)
    BY <2>2, <1>2, <1>4 DEF WalkFails, CreateFails, InitFails, lists
  <2>3. CASE Find(t)
    <3> DEFINE f == PathStep(dir[t], path[t][step[t]])
    <3>1. f \in Used' \cup {NULL} /\ cursor' = cursor
      BY <2>3, <1>1, <1>2, <1>3 DEF Find, ThreadTypes, lists
    <3>2. CASE f # NULL \/ ~ creat[t]
      BY <2>3, <3>1, <3>2, <1>2, <1>4 DEF Find
    <3>3. CASE ~ (f # NULL \/ ~ creat[t])
      <4>1. pc'[t] = "create" /\ dir' = dir
        BY <2>3, <3>3, <1>1 DEF Find, IsFunctions
      <4> QED BY <4>1, <3>1, <1>2
    <3> QED BY <3>2, <3>3
  <2>4. ASSUME NEW f \in File, Create(t, f)
        PROVE  dir'[t] \in Used' /\ cursor' = cursor
    <3>0. Used' = Used \cup {f}
      BY <2>4, CreateIs
    <3>1. f \in Used'
      BY <3>0
    <3> QED BY <2>4, <3>1, <1>4, NullIsNoFile DEF Create, lists, Used
  <2>5. CASE MkdirCreates(t) \/ NoDirDesc(t)
    BY <2>5, <1>1, <1>2 DEF MkdirCreates, NoDirDesc, IsFunctions, walk, lists
  <2>6. CASE OpendirDone(t)
    BY <2>6, <1>1, <1>2 DEF OpendirDone, IsFunctions, walk
  <2>7. CASE LsLock(t) \/ LsUnlock(t)
    BY <2>7, <1>1, <1>2 DEF LsLock, LsUnlock, IsFunctions, walk, lists
  <2>8. CASE LsNext(t)
    <3> DEFINE f == Last(stack[t])[1]
               k == Last(stack[t])[2]
    <3>1. /\ pc[t] = "ls" /\ dir[t] = NULL /\ k <= Len(entries[f])
          /\ dir'[t] = entries[f][k].file /\ pc' = pc /\ cursor' = cursor
      BY <2>8, <1>1 DEF LsNext, IsFunctions, lists
    <3>2. stack[t] \in Seq(File \X Nat) /\ stack[t] # <<>>
      BY <1>1, <3>1 DEF ThreadTypes, FileInv, HoldsInv, Holds
    <3>3. f \in File /\ k \in Nat /\ k >= 1
      <4>1. Last(stack[t]) = stack[t][Len(stack[t])] /\ Last(stack[t]) \in File \X Nat
        BY <3>2, StackIs
      <4>2. Len(stack[t]) \in DOMAIN stack[t]
        BY <3>2, StackIs
      <4> QED BY <4>1, <4>2 DEF FileInv, DescentInv, Descent
    <3>4. k \in DOMAIN entries[f]
      BY <3>1, <3>3, <1>1, EntryIs
    <3> HIDE DEF f, k
    <3>5. entries[f][k].file \in Used
      BY <3>3, <3>4 DEF FileInv, TreeInv
    <3> QED BY <3>1, <3>5, <1>2
  <2> QED BY <2>1, <2>2, <2>3, <2>4, <2>5, <2>6, <2>7, <2>8, <1>2, <1>7 DEF Steps
<1> QED BY <1>6, <1>7

LEMMA TreeStep ==
  ASSUME FileInv, NEW t \in Thread, Calls(t) \/ Steps(t)
  PROVE  TreeInv'
<1> HIDE DEF Path, Entry
<1>1. FileTypes /\ TreeInv
  BY DEF FileInv
<1>2. ASSUME NEW u \in Thread
      PROVE  /\ dir'[u] \in Used' \cup {NULL} /\ cursor'[u].dir \in Used' \cup {NULL}
             /\ pc'[u] = "opendir" => dir'[u] \in Used'
  <2>1. CASE u = t
    BY <2>1, Arrives
  <2>2. CASE u # t
    <3>1. dir'[u] = dir[u] /\ cursor'[u] = cursor[u] /\ pc'[u] = pc[u]
      BY <2>2, <1>1, OneThread DEF Others
    <3>2. Used \subseteq Used'
      BY TreeGrows
    <3> QED BY <3>1, <3>2, <1>1 DEF TreeInv
  <2> QED BY <2>1, <2>2
<1>3. CASE UNCHANGED tree
  <2>1. Used' = Used /\ entries' = entries
    BY <1>3 DEF tree, Used
  <2> QED BY <2>1, <1>1, <1>2 DEF TreeInv, Child
<1>4. ASSUME NEW f \in File, Create(t, f) PROVE TreeInv'
  <2> DEFINE d == dir[t]
             n == Len(entries[d])
             e == [name |-> Last(path[t]), file |-> f]
  <2>1. /\ f \in File \ Used /\ d \in Used /\ d # f /\ n \in Nat
        /\ DOMAIN entries[d] = 1 .. n
        /\ Used' = Used \cup {f}
        /\ \A g \in File \ {d} : entries'[g] = entries[g]
        /\ DOMAIN entries'[d] = 1 .. n + 1
        /\ \A k \in 1 .. n : entries'[d][k] = entries[d][k]
        /\ entries'[d][n + 1] = e
    BY <1>4, CreateIs
  <2> HIDE DEF n, d
  <2>10. entries'[d][n + 1].file = f
    BY <2>1
  <2>2. \A g \in File : \A k \in DOMAIN entries'[g] :
          \/ g = d /\ k = n + 1 /\ entries'[g][k].file = f
          \/ k \in DOMAIN entries[g] /\ entries'[g][k] = entries[g][k]
    BY <2>1, <2>10
  <2>3. \A g \in File : \A k \in DOMAIN entries[g] :
          k \in DOMAIN entries'[g] /\ entries'[g][k] = entries[g][k]
    BY <2>1
  <2>4. \A g \in File : \A k \in DOMAIN entries[g] : entries[g][k].file \in Used \ {root}
    BY <1>1 DEF TreeInv
  <2>5. root \in Used' /\ f # root /\ Used \subseteq File
    BY <2>1, <1>1 DEF TreeInv, Used
  <2>6. \A g \in File \ Used' : entries'[g] = <<>>
    BY <2>1, <1>1 DEF TreeInv
  <2>7. \A g \in File : \A k \in DOMAIN entries'[g] : entries'[g][k].file \in Used' \ {root}
    BY <2>1, <2>2, <2>4, <2>5
  <2>8. \A g, h \in File : \A k \in DOMAIN entries'[g], l \in DOMAIN entries'[h] :
          entries'[g][k].file = entries'[h][l].file => g = h /\ k = l
    <3> SUFFICES ASSUME NEW g \in File, NEW h \in File,
                        NEW k \in DOMAIN entries'[g], NEW l \in DOMAIN entries'[h],
                        entries'[g][k].file = entries'[h][l].file
                 PROVE  g = h /\ k = l
      OBVIOUS
    <3>1. CASE k \in DOMAIN entries[g] /\ l \in DOMAIN entries[h]
      <4>1. entries'[g][k] = entries[g][k] /\ entries'[h][l] = entries[h][l]
        BY <3>1, <2>3
      <4> QED BY <3>1, <4>1, <1>1 DEF TreeInv
    <3>2. CASE k \notin DOMAIN entries[g] /\ l \notin DOMAIN entries[h]
      BY <3>2, <2>2
    <3>3. CASE k \in DOMAIN entries[g] /\ l \notin DOMAIN entries[h]
      <4>1. entries'[h][l].file = f /\ entries'[g][k].file \in Used
        BY <3>3, <2>2, <2>3, <2>4
      <4> QED BY <4>1, <2>1
    <3>4. CASE k \notin DOMAIN entries[g] /\ l \in DOMAIN entries[h]
      <4>1. entries'[g][k].file = f /\ entries'[h][l].file \in Used
        BY <3>4, <2>2, <2>3, <2>4
      <4> QED BY <4>1, <2>1
    <3> QED BY <3>1, <3>2, <3>3, <3>4
  <2>9. ASSUME NEW g \in Used' \ {root}
        PROVE  \E h \in Used' : \E k \in DOMAIN entries'[h] : entries'[h][k].file = g
    <3>1. CASE g = f
      <4>1. n + 1 \in DOMAIN entries'[d]
        BY <2>1
      <4> QED BY <4>1, <3>1, <2>1, <2>10
    <3>2. CASE g # f
      <4>1. PICK h \in Used : \E k \in DOMAIN entries[h] : entries[h][k].file = g
        BY <3>2, <2>1, <1>1 DEF TreeInv, Child
      <4>2. h \in Used' /\ h \in File
        BY <2>1, <2>5
      <4> QED BY <4>1, <4>2, <2>3
    <3> QED BY <3>1, <3>2
  <2> QED BY <2>5, <2>6, <2>7, <2>8, <2>9, <1>2 DEF TreeInv, Child
<1> QED BY <1>3, <1>4, TreeChanges

-----------------------------------------------------------------------------
(* What threads have locked.                                               *)

LEMMA HoldsFrom ==
  ASSUME FileInv, NEW t \in Thread, Others(t), Used \subseteq Used',
         \A g \in File : \/ lock'[g] = lock[g]
                         \/ lock[g] = NULL /\ lock'[g] = t
                         \/ lock[g] = t /\ lock'[g] = NULL,
         leaked \subseteq leaked', \A g \in leaked' \ leaked : lock[g] = t,
         \A g \in leaked' : lock'[g] # NULL,
         Holds(t)'
  PROVE  HoldsInv'
<1>1. ASSUME NEW u \in Thread, u # t PROVE Holds(u)'
  <2>1. /\ pc'[u] = pc[u] /\ dir'[u] = dir[u] /\ stack'[u] = stack[u]
        /\ step'[u] = step[u] /\ path'[u] = path[u]
    BY <1>1 DEF Others
  <2>2. Holds(u) /\ u # NULL
    BY NullIsNoFile DEF FileInv, HoldsInv
  <2>3. \A g \in File : lock[g] = u <=> lock'[g] = u
    BY <1>1, <2>2
  <2>4. \A g \in File : lock[g] = u => (g \in leaked' <=> g \in leaked)
    BY <1>1
  <2>5. \A i \in DOMAIN stack[u] : stack[u][i][1] \in File
    <3>1. stack[u] \in Seq(File \X Nat)
      BY TypesAt DEF FileInv, ThreadTypes
    <3> QED BY <3>1, ElementOfSeq
  <2>6. pc'[u] = "create" =>
          dir'[u] \in Used' /\ lock'[dir'[u]] = u /\ dir'[u] \notin leaked' /\ step'[u] = Len(path'[u])
    <3> SUFFICES ASSUME pc[u] = "create"
                 PROVE  dir[u] \in Used' /\ lock'[dir[u]] = u /\ dir[u] \notin leaked' /\ step[u] = Len(path[u])
      BY <2>1
    <3>1. dir[u] \in Used /\ lock[dir[u]] = u /\ dir[u] \notin leaked /\ step[u] = Len(path[u])
      BY <2>2 DEF Holds
    <3>2. dir[u] \in File
      BY <3>1 DEF Used
    <3> QED BY <3>1, <3>2, <2>3, <2>4
  <2>7. \A i \in DOMAIN stack'[u] : lock'[stack'[u][i][1]] = u /\ stack'[u][i][1] \notin leaked'
    BY <2>1, <2>2, <2>3, <2>4, <2>5 DEF Holds
  <2>8. \A f \in File \ leaked' : lock'[f] = u =>
          \/ pc'[u] = "create" /\ dir'[u] = f
          \/ pc'[u] = "ls" /\ \E i \in DOMAIN stack'[u] : stack'[u][i][1] = f
    <3> SUFFICES ASSUME NEW f \in File \ leaked', lock'[f] = u
                 PROVE  \/ pc[u] = "create" /\ dir[u] = f
                        \/ pc[u] = "ls" /\ \E i \in DOMAIN stack[u] : stack[u][i][1] = f
      BY <2>1
    <3>1. lock[f] = u /\ f \notin leaked
      BY <2>3, <2>4
    <3> QED BY <3>1, <2>2 DEF Holds
  <2>9. /\ \A i, j \in DOMAIN stack'[u] : stack'[u][i][1] = stack'[u][j][1] => i = j
        /\ pc'[u] # "ls" => stack'[u] = <<>>
        /\ pc'[u] = "ls" /\ dir'[u] = NULL => stack'[u] # <<>>
    BY <2>1, <2>2 DEF Holds
  <2> QED BY <2>6, <2>7, <2>8, <2>9 DEF Holds
<1> QED BY <1>1 DEF HoldsInv

(* A thread that holds nothing and takes nothing.                          *)
LEMMA HoldsQuiet ==
  ASSUME FileInv, NEW t \in Thread, Calls(t) \/ Steps(t),
         UNCHANGED <<lock, leaked, stack>>,
         pc[t] \notin {"create", "ls"}, pc'[t] # "create", pc'[t] = "ls" => dir'[t] # NULL
  PROVE  HoldsInv'
<1>1. Others(t) /\ Used \subseteq Used'
  BY OneThread, TreeGrows DEF FileInv
<1>2. Holds(t) /\ \A g \in leaked : lock[g] # NULL
  BY DEF FileInv, HoldsInv
<1>3. stack'[t] = <<>> /\ DOMAIN stack'[t] = {}
  BY <1>2 DEF Holds
<1>4. \A f \in File \ leaked' : lock'[f] # t
  BY <1>2 DEF Holds
<1>5. Holds(t)'
  BY <1>3, <1>4 DEF Holds
<1> QED BY <1>1, <1>2, <1>5, HoldsFrom

(* The activation on top of the stack looks at its next entry.             *)
LEMMA LsNextIs ==
  ASSUME FileInv, NEW t \in Thread, LsNext(t)
  PROVE  LET n == Len(stack[t])
             f == stack[t][n][1]
             k == stack[t][n][2]
         IN /\ n \in Nat /\ n > 0 /\ DOMAIN stack[t] = 1 .. n
            /\ f \in File /\ k \in DOMAIN entries[f] /\ k >= 1
            /\ Len(stack'[t]) = n /\ DOMAIN stack'[t] = 1 .. n /\ stack'[t] # <<>>
            /\ \A i \in 1 .. n - 1 : stack'[t][i] = stack[t][i]
            /\ stack'[t][n] = <<f, k + 1>>
            /\ dir'[t] = entries[f][k].file /\ dir'[t] # NULL
            /\ UNCHANGED <<tree, lock, pc, leaked, cursor, seen, unread, call, path>>
            /\ pc[t] = "ls"
<1> DEFINE n == Len(stack[t])
           f == stack[t][n][1]
           k == stack[t][n][2]
           Activation == File \X Nat
<1>1. FileTypes /\ IsFunctions /\ ThreadTypes(t)
  BY TypesAt DEF FileInv
<1>2. pc[t] = "ls" /\ dir[t] = NULL
  BY DEF LsNext
<1>3. stack[t] \in Seq(File \X Nat) /\ stack[t] # <<>>
  BY <1>1, <1>2 DEF ThreadTypes, FileInv, HoldsInv, Holds
<1>4. /\ n \in Nat /\ n > 0 /\ DOMAIN stack[t] = 1 .. n
      /\ Last(stack[t]) = stack[t][n] /\ Last(stack[t]) \in File \X Nat
  BY <1>3, StackIs
<1>5. /\ Front(stack[t]) \in Seq(File \X Nat) /\ Len(Front(stack[t])) = n - 1
      /\ \A i \in 1 .. n - 1 : Front(stack[t])[i] = stack[t][i]
  BY <1>3, StackIs
<1>6. f \in File /\ k \in Nat /\ k >= 1
  BY <1>4 DEF FileInv, DescentInv, Descent
<1>7. /\ k <= Len(entries[f]) /\ dir'[t] = entries[f][k].file
      /\ stack'[t] = Append(Front(stack[t]), <<f, k + 1>>)
  BY <1>1, <1>4 DEF LsNext, IsFunctions
<1>8. k \in DOMAIN entries[f] /\ dir'[t] \in File
  BY <1>1, <1>6, <1>7, EntryIs
<1>9. /\ Len(stack'[t]) = n /\ DOMAIN stack'[t] = 1 .. n /\ stack'[t] # <<>>
      /\ \A i \in 1 .. n - 1 : stack'[t][i] = stack[t][i]
      /\ stack'[t][n] = <<f, k + 1>>
  <2> DEFINE a == <<f, k + 1>>
             s == Front(stack[t])
  <2>1. a \in Activation /\ s \in Seq(Activation) /\ stack'[t] = Append(s, a)
    BY <1>5, <1>6, <1>7
  <2>2. Len(s) = n - 1 /\ \A i \in 1 .. n - 1 : s[i] = stack[t][i]
    BY <1>5
  <2> HIDE DEF a, s, Activation, n
  <2>3. /\ Append(s, a) # <<>>
        /\ Len(Append(s, a)) = Len(s) + 1
        /\ DOMAIN Append(s, a) = 1 .. Len(s) + 1
        /\ \A i \in 1 .. Len(s) : Append(s, a)[i] = s[i]
        /\ Append(s, a)[Len(s) + 1] = a
    BY <2>1, AppendIs
  <2>4. Len(s) + 1 = n
    BY <2>2, <1>4
  <2>5. /\ Len(stack'[t]) = n /\ DOMAIN stack'[t] = 1 .. n /\ stack'[t] # <<>>
        /\ \A i \in 1 .. n - 1 : stack'[t][i] = stack[t][i]
        /\ stack'[t][n] = a
    BY <2>1, <2>2, <2>3, <2>4
  <2> QED BY <2>5 DEF a
<1>10. UNCHANGED <<tree, lock, pc, leaked, cursor, seen, unread, call, path>>
  BY DEF LsNext, lists
<1> QED BY <1>2, <1>4, <1>6, <1>7, <1>8, <1>9, <1>10, NullIsNoFile

(* It goes down to the file it has waited for.                             *)
LEMMA LsLockIs ==
  ASSUME FileInv, NEW t \in Thread, LsLock(t)
  PROVE  LET n == Len(stack[t])
         IN /\ n \in Nat /\ DOMAIN stack[t] = 1 .. n
            /\ \A i \in 1 .. n : stack[t][i] \in File \X Nat
            /\ Len(stack'[t]) = n + 1 /\ DOMAIN stack'[t] = 1 .. n + 1 /\ stack'[t] # <<>>
            /\ \A i \in 1 .. n : stack'[t][i] = stack[t][i]
            /\ stack'[t][n + 1] = <<dir[t], 1>>
            /\ dir[t] \in Used /\ dir'[t] = NULL /\ pc[t] = "ls" /\ pc'[t] = "ls"
            /\ lock[dir[t]] = NULL /\ lock' = [lock EXCEPT ![dir[t]] = t]
            /\ leaked' = leaked /\ UNCHANGED tree
<1> DEFINE n == Len(stack[t])
           s == stack[t]
           Activation == File \X Nat
           a == <<dir[t], 1>>
<1>1. FileTypes /\ IsFunctions /\ ThreadTypes(t)
  BY TypesAt DEF FileInv
<1>2. /\ dir[t] \in Used /\ dir'[t] = NULL /\ pc[t] = "ls" /\ pc'[t] = "ls"
      /\ lock[dir[t]] = NULL /\ lock' = [lock EXCEPT ![dir[t]] = t]
      /\ stack'[t] = Append(stack[t], a) /\ leaked' = leaked /\ UNCHANGED tree
  BY <1>1 DEF LsLock, Unlocked, IsFunctions, FileInv, TreeInv
<1>3. s \in Seq(Activation) /\ a \in Activation
  BY <1>1, <1>2 DEF ThreadTypes, Used
<1>4. /\ n \in Nat /\ DOMAIN s = 1 .. n /\ Append(s, a) # <<>>
      /\ Len(Append(s, a)) = n + 1 /\ DOMAIN Append(s, a) = 1 .. n + 1
      /\ \A i \in 1 .. n : Append(s, a)[i] = s[i]
      /\ Append(s, a)[n + 1] = a
  <2> HIDE DEF s, a, Activation
  <2>1. /\ Len(s) \in Nat /\ DOMAIN s = 1 .. Len(s) /\ Append(s, a) # <<>>
        /\ Len(Append(s, a)) = Len(s) + 1 /\ DOMAIN Append(s, a) = 1 .. Len(s) + 1
        /\ \A i \in 1 .. Len(s) : Append(s, a)[i] = s[i]
        /\ Append(s, a)[Len(s) + 1] = a
    BY <1>3, AppendIs
  <2> QED BY <2>1 DEF s
<1>5. \A i \in 1 .. n : s[i] \in Activation
  BY <1>3, <1>4, ElementOfSeq
<1> QED BY <1>2, <1>4, <1>5

(* It leaves the file it has listed.                                       *)
LEMMA LsUnlockIs ==
  ASSUME FileInv, NEW t \in Thread, LsUnlock(t)
  PROVE  LET n == Len(stack[t])
             f == stack[t][n][1]
         IN /\ n \in Nat /\ n > 0 /\ DOMAIN stack[t] = 1 .. n /\ f \in File
            /\ \A i \in 1 .. n : stack[t][i][1] \in File
            /\ Len(stack'[t]) = n - 1 /\ DOMAIN stack'[t] = 1 .. n - 1
            /\ n = 1 => stack'[t] = <<>>
            /\ \A i \in 1 .. n - 1 : stack'[t][i] = stack[t][i]
            /\ dir[t] = NULL /\ dir'[t] = NULL /\ pc[t] = "ls"
            /\ pc'[t] = IF n = 1 THEN "idle" ELSE "ls"
            /\ lock' = [lock EXCEPT ![f] = NULL]
            /\ leaked' = leaked /\ UNCHANGED tree
<1> DEFINE n == Len(stack[t])
           s == stack[t]
<1>1. FileTypes /\ IsFunctions /\ ThreadTypes(t)
  BY TypesAt DEF FileInv
<1>2. dir[t] = NULL /\ dir'[t] = NULL /\ pc[t] = "ls" /\ pc'[t] = (IF n = 1 THEN "idle" ELSE "ls")
  BY <1>1 DEF LsUnlock, IsFunctions, walk
<1>3. s \in Seq(File \X Nat) /\ s # <<>>
  BY <1>1, <1>2 DEF ThreadTypes, FileInv, HoldsInv, Holds
<1>4. /\ n \in Nat /\ n > 0 /\ DOMAIN s = 1 .. n
      /\ Last(s) = s[n] /\ Last(s) \in File \X Nat
      /\ \A i \in 1 .. n : s[i] \in File \X Nat
  BY <1>3, StackIs
<1>5. /\ Front(s) \in Seq(File \X Nat) /\ Len(Front(s)) = n - 1 /\ DOMAIN Front(s) = 1 .. n - 1
      /\ \A i \in 1 .. n - 1 : Front(s)[i] = s[i]
  BY <1>3, StackIs
<1>6. n = 1 => Front(s) = <<>>
  BY <1>5, EmptySeq
<1>7. /\ stack'[t] = Front(s) /\ leaked' = leaked /\ UNCHANGED tree
      /\ lock' = [lock EXCEPT ![s[n][1]] = NULL] /\ s[n][1] \in File
  BY <1>1, <1>4 DEF LsUnlock, IsFunctions
<1> QED BY <1>2, <1>4, <1>5, <1>6, <1>7

LEMMA HoldsStep ==
  ASSUME FileInv, NEW t \in Thread, Calls(t) \/ Steps(t)
  PROVE  HoldsInv'
<1> HIDE DEF Path, Entry
<1>1. FileTypes /\ IsFunctions /\ ThreadTypes(t)
  BY TypesAt DEF FileInv
<1>2. Others(t) /\ Used \subseteq Used'
  BY <1>1, OneThread, TreeGrows
<1>3. Holds(t) /\ \A g \in leaked : lock[g] # NULL
  BY DEF FileInv, HoldsInv
<1>4. root # NULL /\ t # NULL /\ lock \in [File -> Thread \cup {NULL}] /\ leaked \subseteq File
  BY <1>1, NullIsNoFile DEF FileTypes
<1>14. /\ \A i \in DOMAIN stack[t] : lock[stack[t][i][1]] = t /\ stack[t][i][1] \notin leaked
       /\ \A i, j \in DOMAIN stack[t] : stack[t][i][1] = stack[t][j][1] => i = j
  BY <1>3 DEF Holds
<1>5. ASSUME NEW f, Return(t, f)
      PROVE  pc'[t] \in {"idle", "mkdir", "opendir"}
  BY <1>5, <1>1 DEF Return, IsFunctions
<1>6. CASE Calls(t)
  <2>1. /\ UNCHANGED <<lock, leaked, stack>> /\ pc[t] = "idle"
        /\ pc'[t] # "create" /\ (pc'[t] = "ls" => dir'[t] # NULL)
    BY <1>1, <1>4, <1>6 DEF Calls, Open, Mkdir, Opendir, Start, Readdir, Closedir, Ls, IsFunctions
  <2> QED BY <2>1, HoldsQuiet
<1>7. CASE Walk(t) \/ WalkFails(t) \/ MkdirCreates(t) \/ NoDirDesc(t) \/ OpendirDone(t)
  <2>1. /\ UNCHANGED <<lock, leaked, stack>> /\ pc[t] \notin {"create", "ls"}
        /\ pc'[t] \notin {"create", "ls"}
    BY <1>1, <1>5, <1>7 DEF Walk, WalkFails, MkdirCreates, NoDirDesc, OpendirDone, IsFunctions
  <2>2. Steps(t)
    BY <1>7 DEF Steps
  <2> QED BY <2>1, <2>2, HoldsQuiet
<1>8. CASE Find(t)
  <2> DEFINE f == PathStep(dir[t], path[t][step[t]])
  <2>1. CASE f # NULL \/ ~ creat[t]
    <3>1. /\ UNCHANGED <<lock, leaked, stack>> /\ pc[t] = "walk"
          /\ pc'[t] \notin {"create", "ls"}
      BY <1>5, <1>8, <2>1 DEF Find
    <3> QED BY <3>1, HoldsQuiet
  <2>2. CASE ~ (f # NULL \/ ~ creat[t])
    <3>1. /\ pc[t] = "walk" /\ pc'[t] = "create" /\ dir[t] # NULL /\ dir'[t] = dir[t]
          /\ step' = step /\ path' = path /\ step[t] = Len(path[t])
          /\ lock[dir[t]] = NULL /\ lock' = [lock EXCEPT ![dir[t]] = t]
          /\ leaked' = leaked /\ stack' = stack
      BY <1>1, <1>8, <2>2 DEF Find, Unlocked, IsFunctions
    <3>2. dir[t] \in Used /\ dir[t] \in File /\ dir[t] \notin leaked
      BY <3>1, <1>3 DEF FileInv, TreeInv, Used
    <3>3. stack'[t] = <<>> /\ DOMAIN stack'[t] = {}
      BY <3>1, <1>3 DEF Holds
    <3>4. /\ lock'[dir[t]] = t
          /\ \A g \in File : g # dir[t] => lock'[g] = lock[g]
      BY <3>1, <3>2, <1>4
    <3>5. \A g \in File \ leaked' : lock'[g] = t => dir'[t] = g
      BY <3>1, <3>4, <1>3 DEF Holds
    <3>6. Holds(t)'
      BY <3>1, <3>2, <3>3, <3>4, <3>5, <1>2 DEF Holds
    <3>7. \A g \in leaked' : lock'[g] # NULL
      BY <3>1, <3>2, <3>4, <1>3, <1>4
    <3> QED BY <3>1, <3>4, <3>6, <3>7, <1>2, HoldsFrom
  <2> QED BY <2>1, <2>2
<1>9. CASE CreateFails(t) \/ \E f \in File : Create(t, f)
  <2>1. /\ pc[t] = "create" /\ pc'[t] \notin {"create", "ls"}
        /\ lock' = [lock EXCEPT ![dir[t]] = NULL] /\ leaked' = leaked /\ stack' = stack
    BY <1>5, <1>9 DEF CreateFails, Create
  <2>2. dir[t] \in File /\ lock[dir[t]] = t /\ dir[t] \notin leaked /\ stack[t] = <<>>
    BY <2>1, <1>3 DEF Holds, Used
  <2>3. /\ lock'[dir[t]] = NULL
        /\ \A g \in File : g # dir[t] => lock'[g] = lock[g]
    BY <2>1, <2>2, <1>4
  <2>4. \A g \in File \ leaked' : lock'[g] # t
    BY <2>1, <2>2, <2>3, <1>3, <1>4 DEF Holds
  <2>5. stack'[t] = <<>> /\ DOMAIN stack'[t] = {}
    BY <2>1, <2>2
  <2>6. Holds(t)'
    BY <2>1, <2>4, <2>5 DEF Holds
  <2>7. \A g \in leaked' : lock'[g] # NULL
    BY <2>1, <2>2, <2>3, <1>3, <1>4
  <2> QED BY <2>1, <2>2, <2>3, <2>6, <2>7, <1>2, HoldsFrom
<1>10. CASE InitFails(t)
  <2>1. /\ pc[t] = "create" /\ pc'[t] \notin {"create", "ls"}
        /\ lock' = lock /\ leaked' = leaked \cup {dir[t]} /\ stack' = stack
    BY <1>5, <1>10 DEF InitFails
  <2>2. dir[t] \in File /\ lock[dir[t]] = t /\ stack[t] = <<>>
    BY <2>1, <1>3 DEF Holds, Used
  <2>3. \A g \in File \ leaked' : lock'[g] # t
    BY <2>1, <2>2, <1>3 DEF Holds
  <2>4. stack'[t] = <<>> /\ DOMAIN stack'[t] = {}
    BY <2>1, <2>2
  <2>5. Holds(t)'
    BY <2>1, <2>3, <2>4 DEF Holds
  <2>6. \A g \in leaked' : lock'[g] # NULL
    BY <2>1, <2>2, <1>3, <1>4
  <2> QED BY <2>1, <2>2, <2>5, <2>6, <1>2, HoldsFrom
<1>11. CASE LsLock(t)
  <2> DEFINE n == Len(stack[t])
  <2>1. /\ n \in Nat /\ DOMAIN stack[t] = 1 .. n
        /\ \A i \in 1 .. n : stack[t][i] \in File \X Nat
        /\ Len(stack'[t]) = n + 1 /\ DOMAIN stack'[t] = 1 .. n + 1 /\ stack'[t] # <<>>
        /\ \A i \in 1 .. n : stack'[t][i] = stack[t][i]
        /\ stack'[t][n + 1] = <<dir[t], 1>>
        /\ dir[t] \in Used /\ dir'[t] = NULL /\ pc[t] = "ls" /\ pc'[t] = "ls"
        /\ lock[dir[t]] = NULL /\ lock' = [lock EXCEPT ![dir[t]] = t]
        /\ leaked' = leaked /\ UNCHANGED tree
    BY <1>11, LsLockIs
  <2> HIDE DEF n
  <2>2. dir[t] \in File /\ dir[t] \notin leaked
    BY <2>1, <1>3 DEF Used
  <2>3. /\ lock'[dir[t]] = t
        /\ \A g \in File : g # dir[t] => lock'[g] = lock[g]
    BY <2>1, <2>2, <1>4
  <2>11. \A i \in 1 .. n : stack[t][i][1] \in File
    BY <2>1
  <2>4. \A i \in 1 .. n : /\ stack[t][i][1] \in File
                          /\ lock[stack[t][i][1]] = t /\ stack[t][i][1] \notin leaked
                          /\ stack[t][i][1] # dir[t]
    <3>1. DOMAIN stack[t] = 1 .. n /\ lock[dir[t]] = NULL
      BY <2>1
    <3> QED BY <3>1, <2>11, <1>14, <1>4
  <2>5. \A i \in DOMAIN stack'[t] :
          \/ i \in 1 .. n /\ stack'[t][i] = stack[t][i]
          \/ i = n + 1 /\ stack'[t][i][1] = dir[t]
    BY <2>1
  <2>6. \A i \in DOMAIN stack'[t] : lock'[stack'[t][i][1]] = t /\ stack'[t][i][1] \notin leaked'
    BY <2>1, <2>2, <2>3, <2>4, <2>5
  <2>7. \A i, j \in DOMAIN stack'[t] : stack'[t][i][1] = stack'[t][j][1] => i = j
    BY <2>1, <2>4, <2>5, <1>3 DEF Holds
  <2>8. \A g \in File \ leaked' : lock'[g] = t => \E i \in DOMAIN stack'[t] : stack'[t][i][1] = g
    <3> SUFFICES ASSUME NEW g \in File \ leaked', lock'[g] = t
                 PROVE  \E i \in DOMAIN stack'[t] : stack'[t][i][1] = g
      OBVIOUS
    <3>1. CASE g = dir[t]
      <4>1. n + 1 \in DOMAIN stack'[t] /\ stack'[t][n + 1][1] = g
        BY <3>1, <2>1
      <4> QED BY <4>1
    <3>2. CASE g # dir[t]
      <4>1. PICK i \in 1 .. n : stack[t][i][1] = g
        BY <3>2, <2>1, <2>3, <1>3 DEF Holds
      <4>2. i \in DOMAIN stack'[t] /\ stack'[t][i] = stack[t][i]
        BY <2>1
      <4> QED BY <4>1, <4>2
    <3> QED BY <3>1, <3>2
  <2>9. Holds(t)'
    BY <2>1, <2>6, <2>7, <2>8 DEF Holds
  <2>10. \A g \in leaked' : lock'[g] # NULL
    BY <2>1, <2>2, <2>3, <1>3, <1>4
  <2> QED BY <2>1, <2>3, <2>9, <2>10, <1>2, HoldsFrom
<1>12. CASE LsNext(t)
  <2> DEFINE n == Len(stack[t])
             f == stack[t][n][1]
             k == stack[t][n][2]
  <2>1. /\ n \in Nat /\ n > 0 /\ DOMAIN stack[t] = 1 .. n
        /\ DOMAIN stack'[t] = 1 .. n /\ stack'[t] # <<>>
        /\ \A i \in 1 .. n - 1 : stack'[t][i] = stack[t][i]
        /\ stack'[t][n] = <<f, k + 1>> /\ dir'[t] # NULL
        /\ UNCHANGED <<tree, lock, pc, leaked, cursor, seen, unread, call, path>>
        /\ pc[t] = "ls"
    BY <1>12, LsNextIs
  <2>2. \A i \in 1 .. n : stack'[t][i][1] = stack[t][i][1]
    BY <2>1
  <2>3. /\ lock' = lock /\ leaked' = leaked /\ pc' = pc
    BY <2>1
  <2> HIDE DEF n, f, k
  <2>4. /\ \A i \in DOMAIN stack'[t] : lock'[stack'[t][i][1]] = t /\ stack'[t][i][1] \notin leaked'
        /\ \A i, j \in DOMAIN stack'[t] : stack'[t][i][1] = stack'[t][j][1] => i = j
    BY <2>1, <2>2, <2>3, <1>3 DEF Holds
  <2>5. \A g \in File \ leaked' : lock'[g] = t => \E i \in DOMAIN stack'[t] : stack'[t][i][1] = g
    BY <2>1, <2>2, <2>3, <1>3 DEF Holds
  <2>6. Holds(t)'
    BY <2>1, <2>3, <2>4, <2>5 DEF Holds
  <2> QED BY <2>3, <2>6, <1>2, <1>3, HoldsFrom
<1>13. CASE LsUnlock(t)
  <2> DEFINE n == Len(stack[t])
             f == stack[t][n][1]
  <2>1. /\ n \in Nat /\ n > 0 /\ DOMAIN stack[t] = 1 .. n /\ f \in File
        /\ \A i \in 1 .. n : stack[t][i][1] \in File
        /\ Len(stack'[t]) = n - 1 /\ DOMAIN stack'[t] = 1 .. n - 1
        /\ n = 1 => stack'[t] = <<>>
        /\ \A i \in 1 .. n - 1 : stack'[t][i] = stack[t][i]
        /\ dir[t] = NULL /\ dir'[t] = NULL /\ pc[t] = "ls"
        /\ pc'[t] = IF n = 1 THEN "idle" ELSE "ls"
        /\ lock' = [lock EXCEPT ![f] = NULL]
        /\ leaked' = leaked /\ UNCHANGED tree
    BY <1>13, LsUnlockIs
  <2>2. n \in DOMAIN stack[t] /\ lock[f] = t /\ f \notin leaked
    BY <2>1, <1>3 DEF Holds
  <2>3. \A i \in 1 .. n - 1 : stack[t][i][1] # f
    <3>1. \A i \in 1 .. n - 1 : i \in DOMAIN stack[t] /\ i # n
      BY <2>1
    <3> QED BY <3>1, <2>2, <1>14
  <2>7. pc'[t] # "ls" => n = 1
    BY <2>1
  <2>8. pc'[t] = "ls" => stack'[t] # <<>>
    <3> SUFFICES ASSUME pc'[t] = "ls", stack'[t] = <<>> PROVE FALSE
      OBVIOUS
    <3>1. Len(stack'[t]) = 0 /\ n # 1
      BY <2>1
    <3> QED BY <3>1, <2>1
  <2>9. pc'[t] # "create"
    BY <2>1
  <2> HIDE DEF n, f
  <2>4. /\ lock'[f] = NULL
        /\ \A g \in File : g # f => lock'[g] = lock[g]
    BY <2>1, <1>4
  <2>5. \A i \in 1 .. n - 1 : /\ stack'[t][i] = stack[t][i] /\ stack[t][i][1] \in File
                              /\ i \in DOMAIN stack[t]
    BY <2>1
  <2>6. /\ \A i \in DOMAIN stack'[t] : lock'[stack'[t][i][1]] = t /\ stack'[t][i][1] \notin leaked'
        /\ \A i, j \in DOMAIN stack'[t] : stack'[t][i][1] = stack'[t][j][1] => i = j
    <3>1. DOMAIN stack'[t] = 1 .. n - 1 /\ leaked' = leaked
      BY <2>1
    <3> QED BY <3>1, <2>3, <2>4, <2>5, <1>14
  <2>10. \A g \in File \ leaked' : lock'[g] = t =>
           pc'[t] = "ls" /\ \E i \in DOMAIN stack'[t] : stack'[t][i][1] = g
    <3> SUFFICES ASSUME NEW g \in File \ leaked', lock'[g] = t
                 PROVE  pc'[t] = "ls" /\ \E i \in DOMAIN stack'[t] : stack'[t][i][1] = g
      OBVIOUS
    <3>1. g # f /\ lock[g] = t /\ g \notin leaked
      BY <2>1, <2>4, <1>4
    <3>2. PICK i \in DOMAIN stack[t] : stack[t][i][1] = g
      BY <3>1, <2>1, <1>3 DEF Holds
    <3>3. i # n
      BY <3>1, <3>2 DEF f
    <3>4. i \in 1 .. n - 1
      BY <3>3, <2>1
    <3>5. pc'[t] = "ls"
      BY <3>4, <2>1, <2>7
    <3> QED BY <3>2, <3>4, <3>5, <2>1, <2>5
  <2>11. Holds(t)'
    BY <2>1, <2>6, <2>7, <2>8, <2>9, <2>10 DEF Holds
  <2>12. \A g \in leaked' : lock'[g] # NULL
    BY <2>1, <2>2, <2>4, <1>3, <1>4
  <2>13. \A g \in File : \/ lock'[g] = lock[g]
                         \/ lock[g] = NULL /\ lock'[g] = t
                         \/ lock[g] = t /\ lock'[g] = NULL
    BY <2>2, <2>4
  <2>14. leaked \subseteq leaked' /\ \A g \in leaked' \ leaked : lock[g] = t
    BY <2>1
  <2> QED BY <2>11, <2>12, <2>13, <2>14, <1>2, HoldsFrom
<1> QED BY <1>6, <1>7, <1>8, <1>9, <1>10, <1>11, <1>12, <1>13 DEF Steps

-----------------------------------------------------------------------------
(* How __ls goes down.                                                     *)

LEMMA ChildStays ==
  ASSUME FileInv, NEW t \in Thread, Calls(t) \/ Steps(t), NEW d \in File, NEW f, Child(d, f)
  PROVE  \E k \in DOMAIN entries'[d] : entries'[d][k].file = f
<1>1. PICK k \in DOMAIN entries[d] : entries[d][k].file = f
  BY DEF Child
<1>2. k \in DOMAIN entries'[d] /\ entries'[d][k] = entries[d][k]
  BY <1>1, TreeGrows
<1> QED BY <1>1, <1>2

(* The stack of a thread is not touched.                                   *)
LEMMA DescentStays ==
  ASSUME FileInv, NEW t \in Thread, Calls(t) \/ Steps(t), NEW u \in Thread,
         stack'[u] = stack[u], pc'[u] = pc[u], dir'[u] = dir[u]
  PROVE  Descent(u)'
<1>1. Descent(u)
  BY DEF FileInv, DescentInv
<1>2. stack[u] \in Seq(File \X Nat)
  BY TypesAt DEF FileInv, ThreadTypes
<1>3. Len(stack[u]) \in Nat /\ DOMAIN stack[u] = 1 .. Len(stack[u])
  BY <1>2
<1>4. \A i \in 1 .. Len(stack[u]) : stack[u][i][1] \in File
  BY <1>2, ElementOfSeq
<1>5. ASSUME NEW i \in 1 .. Len(stack[u]) - 1
      PROVE  \E k \in DOMAIN entries'[stack[u][i][1]] :
               entries'[stack[u][i][1]][k].file = stack[u][i + 1][1]
  <2>1. i \in 1 .. Len(stack[u])
    BY <1>3
  <2>2. stack[u][i][1] \in File
    BY <1>4, <2>1
  <2>3. Child(stack[u][i][1], stack[u][i + 1][1])
    BY <1>1 DEF Descent
  <2> QED BY <2>2, <2>3, ChildStays
<1>6. ASSUME pc[u] = "ls", dir[u] # NULL, stack[u] # <<>>
      PROVE  \E k \in DOMAIN entries'[stack[u][Len(stack[u])][1]] :
               entries'[stack[u][Len(stack[u])][1]][k].file = dir[u]
  <2>1. Len(stack[u]) > 0
    BY <1>2, <1>6, StackIs
  <2>4. Len(stack[u]) \in 1 .. Len(stack[u])
    BY <2>1, <1>3
  <2>2. stack[u][Len(stack[u])][1] \in File
    BY <1>4, <2>4
  <2>3. Child(stack[u][Len(stack[u])][1], dir[u])
    BY <1>1, <1>6 DEF Descent
  <2> QED BY <2>2, <2>3, ChildStays
<1>7. \A i \in DOMAIN stack[u] : stack[u][i][2] >= 1
  BY <1>1 DEF Descent
<1> QED BY <1>5, <1>6, <1>7 DEF Descent, Child

LEMMA DescentStep ==
  ASSUME FileInv, NEW t \in Thread, Calls(t) \/ Steps(t), HoldsInv'
  PROVE  DescentInv'
<1> HIDE DEF Path, Entry
<1>1. FileTypes /\ IsFunctions /\ ThreadTypes(t)
  BY TypesAt DEF FileInv
<1>2. Holds(t)' /\ Holds(t) /\ Descent(t)
  BY DEF FileInv, HoldsInv, DescentInv
<1>3. SUFFICES Descent(t)'
  <2>1. ASSUME NEW u \in Thread, u # t PROVE Descent(u)'
    <3>1. stack'[u] = stack[u] /\ pc'[u] = pc[u] /\ dir'[u] = dir[u]
      BY <2>1, <1>1, OneThread DEF Others
    <3> QED BY <3>1, DescentStays
  <2> QED BY <2>1 DEF DescentInv
<1>4. CASE stack'[t] = <<>>
  <2>1. DOMAIN stack'[t] = {} /\ Len(stack'[t]) = 0
    BY <1>4
  <2>2. 1 .. Len(stack'[t]) - 1 = {}
    BY <2>1
  <2> QED BY <1>4, <2>1, <2>2 DEF Descent
<1>5. CASE pc'[t] # "ls"
  BY <1>2, <1>4, <1>5 DEF Holds
<1>6. CASE LsLock(t)
  <2> DEFINE n == Len(stack[t])
  <2>1. /\ n \in Nat /\ DOMAIN stack[t] = 1 .. n
        /\ \A i \in 1 .. n : stack[t][i] \in File \X Nat
        /\ Len(stack'[t]) = n + 1 /\ DOMAIN stack'[t] = 1 .. n + 1 /\ stack'[t] # <<>>
        /\ \A i \in 1 .. n : stack'[t][i] = stack[t][i]
        /\ stack'[t][n + 1] = <<dir[t], 1>>
        /\ dir[t] \in Used /\ dir'[t] = NULL /\ pc[t] = "ls" /\ pc'[t] = "ls"
        /\ lock[dir[t]] = NULL /\ lock' = [lock EXCEPT ![dir[t]] = t]
        /\ leaked' = leaked /\ UNCHANGED tree
    BY <1>6, LsLockIs
  <2>2. entries' = entries /\ dir[t] # NULL
    BY <2>1, NullIsNoFile DEF tree, Used
  <2>3. \A i \in DOMAIN stack'[t] : stack'[t][i][2] >= 1
    <3>1. ASSUME NEW i \in DOMAIN stack'[t] PROVE stack'[t][i][2] >= 1
      <4>1. CASE i = n + 1
        BY <4>1, <2>1
      <4>2. CASE i # n + 1
        <5>1. i \in 1 .. n
          BY <4>2, <2>1
        <5> QED BY <5>1, <2>1, <1>2 DEF Descent
      <4> QED BY <4>1, <4>2
    <3> QED BY <3>1
  <2>4. ASSUME NEW i \in 1 .. Len(stack'[t]) - 1
        PROVE  Child(stack'[t][i][1], stack'[t][i + 1][1])
    <3>1. i \in 1 .. n
      BY <2>1
    <3>2. CASE i = n
      <4>1. stack[t] # <<>>
        BY <3>1, <2>1
      <4>2. Child(stack[t][n][1], dir[t])
        BY <4>1, <2>1, <2>2, <1>2 DEF Descent
      <4>3. stack'[t][i] = stack[t][n] /\ stack'[t][i + 1] = <<dir[t], 1>>
        BY <3>1, <3>2, <2>1
      <4> QED BY <4>2, <4>3
    <3>3. CASE i # n
      <4>1. i \in 1 .. n - 1 /\ i + 1 \in 1 .. n
        BY <3>1, <3>3, <2>1
      <4>2. Child(stack[t][i][1], stack[t][i + 1][1])
        BY <4>1, <1>2 DEF Descent
      <4>3. stack'[t][i] = stack[t][i] /\ stack'[t][i + 1] = stack[t][i + 1]
        BY <3>1, <4>1, <2>1
      <4> QED BY <4>2, <4>3
    <3> QED BY <3>2, <3>3
  <2> QED BY <2>1, <2>2, <2>3, <2>4 DEF Descent, Child
<1>7. CASE LsNext(t)
  <2> DEFINE n == Len(stack[t])
             f == stack[t][n][1]
             k == stack[t][n][2]
  <2>1. /\ n \in Nat /\ n > 0 /\ DOMAIN stack[t] = 1 .. n
        /\ f \in File /\ k \in DOMAIN entries[f] /\ k >= 1
        /\ Len(stack'[t]) = n /\ DOMAIN stack'[t] = 1 .. n /\ stack'[t] # <<>>
        /\ \A i \in 1 .. n - 1 : stack'[t][i] = stack[t][i]
        /\ stack'[t][n] = <<f, k + 1>>
        /\ dir'[t] = entries[f][k].file /\ dir'[t] # NULL
        /\ UNCHANGED <<tree, lock, pc, leaked, cursor, seen, unread, call, path>>
        /\ pc[t] = "ls"
    BY <1>7, LsNextIs
  <2>2. entries' = entries
    BY <2>1 DEF tree
  <2>3. Child(f, dir'[t])
    BY <2>1 DEF Child
  <2>4. \A i \in 1 .. n : stack'[t][i][1] = stack[t][i][1]
    BY <2>1
  <2>9. k \in Nat
    <3>1. stack[t] \in Seq(File \X Nat) /\ n \in DOMAIN stack[t]
      BY <1>1, <2>1 DEF ThreadTypes
    <3> QED BY <3>1, ElementOfSeq
  <2>5. \A i \in DOMAIN stack'[t] : stack'[t][i][2] >= 1
    <3>1. ASSUME NEW i \in DOMAIN stack'[t] PROVE stack'[t][i][2] >= 1
      <4>1. CASE i = n
        BY <4>1, <2>1, <2>9
      <4>2. CASE i # n
        <5>1. i \in 1 .. n - 1 /\ i \in DOMAIN stack[t]
          BY <4>2, <2>1
        <5>2. stack'[t][i] = stack[t][i]
          BY <5>1, <2>1
        <5> QED BY <5>1, <5>2, <1>2 DEF Descent
      <4> QED BY <4>1, <4>2
    <3> QED BY <3>1
  <2>6. ASSUME NEW i \in 1 .. Len(stack'[t]) - 1
        PROVE  Child(stack'[t][i][1], stack'[t][i + 1][1])
    <3>1. i \in 1 .. n - 1 /\ i \in 1 .. n /\ i + 1 \in 1 .. n
      BY <2>1
    <3>2. Child(stack[t][i][1], stack[t][i + 1][1])
      BY <3>1, <1>2 DEF Descent
    <3> QED BY <3>1, <3>2, <2>4
  <2>7. stack'[t][Len(stack'[t])][1] = f
    BY <2>1
  <2> HIDE DEF f, k, n
  <2> QED BY <2>2, <2>3, <2>5, <2>6, <2>7 DEF Descent, Child
<1>8. CASE LsUnlock(t)
  <2> DEFINE n == Len(stack[t])
  <2>1. /\ n \in Nat /\ n > 0 /\ DOMAIN stack[t] = 1 .. n
        /\ Len(stack'[t]) = n - 1 /\ DOMAIN stack'[t] = 1 .. n - 1
        /\ \A i \in 1 .. n - 1 : stack'[t][i] = stack[t][i]
        /\ dir'[t] = NULL /\ UNCHANGED tree
    BY <1>8, LsUnlockIs
  <2>2. entries' = entries
    BY <2>1 DEF tree
  <2>3. \A i \in DOMAIN stack'[t] : stack'[t][i][2] >= 1
    BY <2>1, <1>2 DEF Descent
  <2>4. ASSUME NEW i \in 1 .. Len(stack'[t]) - 1
        PROVE  Child(stack'[t][i][1], stack'[t][i + 1][1])
    <3>1. i \in 1 .. n - 1 /\ i + 1 \in 1 .. n - 1
      BY <2>1
    <3>2. Child(stack[t][i][1], stack[t][i + 1][1])
      BY <3>1, <1>2 DEF Descent
    <3> QED BY <3>1, <3>2, <2>1
  <2> QED BY <2>1, <2>2, <2>3, <2>4 DEF Descent, Child
<1>9. CASE Ls(t)
  <2>1. stack'[t] = stack[t] /\ pc[t] = "idle"
    BY <1>9 DEF Ls
  <2> QED BY <2>1, <1>2, <1>4 DEF Holds
<1>10. CASE Readdir(t) \/ Closedir(t)
  BY <1>5, <1>10, <1>1 DEF Readdir, Closedir
<1>11. ASSUME NEW function, NEW p, NEW flag, Start(t, function, p, flag)
       PROVE  pc'[t] # "ls"
  BY <1>1, <1>11 DEF Start, IsFunctions
<1>12. CASE Calls(t)
  BY <1>5, <1>9, <1>10, <1>11, <1>12 DEF Calls, Open, Mkdir, Opendir
<1>13. ASSUME NEW f, Return(t, f) PROVE pc'[t] # "ls"
  BY <1>13, <1>1 DEF Return, IsFunctions
<1>14. CASE \/ Walk(t) \/ WalkFails(t) \/ Find(t) \/ CreateFails(t) \/ InitFails(t)
            \/ \E f \in File : Create(t, f)
            \/ MkdirCreates(t) \/ NoDirDesc(t) \/ OpendirDone(t)
  <2>1. pc'[t] # "ls"
    BY <1>1, <1>13, <1>14 DEF Walk, WalkFails, Find, CreateFails, InitFails, Create,
                              MkdirCreates, NoDirDesc, OpendirDone, IsFunctions
  <2> QED BY <2>1, <1>5
<1> QED BY <1>6, <1>7, <1>8, <1>12, <1>14 DEF Steps

-----------------------------------------------------------------------------
(* What readdir has returned, and what file_open is called for.            *)

(* A descriptor that nobody reads from.                                    *)
LEMMA ReadsStay ==
  ASSUME FileInv, NEW t \in Thread, Calls(t) \/ Steps(t), NEW u \in Thread,
         cursor'[u] = cursor[u], seen'[u] = seen[u], unread'[u] = unread[u]
  PROVE  Reads(u)'
<1> DEFINE d == cursor[u].dir
<1>1. Reads(u) /\ FileTypes /\ ThreadTypes(u)
  BY TypesAt DEF FileInv, ReadInv
<1> SUFFICES ASSUME d # NULL PROVE Reads(u)'
  BY DEF Reads
<1>2. d \in File
  BY <1>1 DEF ThreadTypes
<1>3. /\ Len(seen[u]) \in Nat /\ DOMAIN seen[u] = 1 .. Len(seen[u]) /\ unread[u] \in Nat
      /\ Len(entries[d]) \in Nat /\ DOMAIN entries[d] = 1 .. Len(entries[d])
  BY <1>1, <1>2, EntryIs DEF ThreadTypes
<1>4. /\ Len(entries[d]) <= Len(entries'[d])
      /\ \A k \in DOMAIN entries[d] : k \in DOMAIN entries'[d] /\ entries'[d][k] = entries[d][k]
  BY <1>2, TreeGrows
<1>5. /\ Len(seen[u]) <= Len(entries[d]) /\ unread[u] <= Len(entries[d])
      /\ \A k \in DOMAIN seen[u] : seen[u][k] = entries[d][k].file
      /\ cursor[u].next # 0 => /\ cursor[u].next = Len(seen[u]) + 1
                               /\ cursor[u].next \in DOMAIN entries[d]
      /\ cursor[u].next = 0 => Len(seen[u]) >= unread[u]
  BY <1>1 DEF Reads
<1>6. \A k \in DOMAIN seen[u] : k \in DOMAIN entries[d]
  BY <1>3, <1>5
<1>9. Len(entries'[d]) \in Nat
  <2>1. FileTypes'
    BY TypesStep
  <2> QED BY <2>1, <1>2 DEF FileTypes
<1>7. Len(seen[u]) <= Len(entries'[d]) /\ unread[u] <= Len(entries'[d])
  BY <1>3, <1>4, <1>5, <1>9
<1>8. \A k \in DOMAIN seen[u] : seen[u][k] = entries'[d][k].file
  BY <1>4, <1>5, <1>6
<1> QED BY <1>4, <1>5, <1>7, <1>8 DEF Reads

LEMMA ReadStep ==
  ASSUME FileInv, NEW t \in Thread, Calls(t) \/ Steps(t)
  PROVE  ReadInv'
<1> HIDE DEF Path, Entry
<1>1. FileTypes /\ IsFunctions /\ ThreadTypes(t) /\ Reads(t)
  BY TypesAt DEF FileInv, ReadInv
<1>2. SUFFICES Reads(t)'
  <2>1. ASSUME NEW u \in Thread, u # t PROVE Reads(u)'
    <3>1. cursor'[u] = cursor[u] /\ seen'[u] = seen[u] /\ unread'[u] = unread[u]
      BY <2>1, <1>1, OneThread DEF Others
    <3> QED BY <3>1, ReadsStay
  <2> QED BY <2>1 DEF ReadInv
<1>3. CASE UNCHANGED lists
  BY <1>3, ReadsStay DEF lists
<1>4. CASE OpendirDone(t)
  <2>1. /\ cursor'[t] = [dir |-> dir[t], next |-> IF entries[dir[t]] = <<>> THEN 0 ELSE 1]
        /\ seen'[t] = <<>> /\ unread'[t] = Len(entries[dir[t]]) /\ entries' = entries
    BY <1>1, <1>4 DEF OpendirDone, IsFunctions, tree
  <2>2. dir[t] \in File
    BY <1>4 DEF OpendirDone, FileInv, TreeInv, Used
  <2>3. /\ Len(entries[dir[t]]) \in Nat /\ DOMAIN entries[dir[t]] = 1 .. Len(entries[dir[t]])
        /\ entries[dir[t]] \in Seq(Entry)
    BY <1>1, <2>2, EntryIs
  <2>4. CASE entries[dir[t]] = <<>>
    BY <2>1, <2>3, <2>4 DEF Reads
  <2>5. CASE entries[dir[t]] # <<>>
    <3>1. Len(entries[dir[t]]) > 0
      BY <2>3, <2>5, EmptySeq
    <3>2. 1 \in DOMAIN entries[dir[t]] /\ DOMAIN seen'[t] = {} /\ Len(seen'[t]) = 0
      BY <2>1, <2>3, <3>1
    <3> QED BY <2>1, <2>3, <2>5, <3>1, <3>2 DEF Reads
  <2> QED BY <2>4, <2>5
<1>5. CASE Readdir(t)
  <2> DEFINE d == cursor[t].dir
             k == cursor[t].next
             s == seen[t]
             f == entries[d][k].file
  <2>1. d \in File /\ k \in Nat /\ k # 0 /\ d # NULL /\ s \in Seq(File)
    BY <1>1, <1>5 DEF Readdir, ThreadTypes
  <2>2. Len(entries[d]) \in Nat /\ DOMAIN entries[d] = 1 .. Len(entries[d])
    BY <2>1, <1>1, EntryIs
  <2>3. /\ Len(s) <= Len(entries[d]) /\ unread[t] <= Len(entries[d])
        /\ \A i \in DOMAIN s : s[i] = entries[d][i].file
        /\ k = Len(s) + 1 /\ k \in DOMAIN entries[d]
    BY <1>1, <2>1 DEF Reads
  <2>4. f \in File
    BY <1>1, <2>1, <2>3, EntryIs
  <2>5. /\ cursor'[t] = [cursor[t] EXCEPT !.next = IF k = Len(entries[d]) THEN 0 ELSE k + 1]
        /\ seen'[t] = Append(s, f) /\ unread' = unread /\ entries' = entries
    BY <1>1, <1>5 DEF Readdir, IsFunctions, tree
  <2>6. /\ cursor'[t].dir = d
        /\ cursor'[t].next = IF k = Len(entries[d]) THEN 0 ELSE k + 1
    BY <2>5, <1>1 DEF ThreadTypes
  <2> HIDE DEF d, k, s, f
  <2>7. /\ Len(s) \in Nat /\ DOMAIN s = 1 .. Len(s)
        /\ Len(Append(s, f)) = Len(s) + 1
        /\ DOMAIN Append(s, f) = 1 .. Len(s) + 1
        /\ \A i \in 1 .. Len(s) : Append(s, f)[i] = s[i]
        /\ Append(s, f)[Len(s) + 1] = f
    BY <2>1, <2>4, AppendIs
  <2>8. \A i \in DOMAIN seen'[t] : seen'[t][i] = entries'[d][i].file
    <3>1. ASSUME NEW i \in DOMAIN seen'[t] PROVE seen'[t][i] = entries[d][i].file
      <4>1. CASE i = k
        BY <4>1, <2>3, <2>5, <2>7 DEF f
      <4>2. CASE i # k
        <5>1. i \in 1 .. Len(s)
          BY <4>2, <2>3, <2>5, <2>7
        <5> QED BY <5>1, <2>3, <2>5, <2>7
      <4> QED BY <4>1, <4>2
    <3> QED BY <3>1, <2>5
  <2>9. Len(seen'[t]) = k /\ k <= Len(entries[d]) /\ k \in Nat
    BY <2>1, <2>2, <2>3, <2>5, <2>7
  <2>10. unread[t] \in Nat
    BY <1>1 DEF ThreadTypes
  <2>11. cursor'[t].next # 0 => cursor'[t].next = k + 1 /\ k + 1 \in DOMAIN entries[d]
    BY <2>2, <2>6, <2>9
  <2>12. cursor'[t].next = 0 => k >= unread[t]
    BY <2>2, <2>3, <2>6, <2>9, <2>10
  <2> QED BY <2>3, <2>5, <2>6, <2>8, <2>9, <2>11, <2>12 DEF Reads
<1>6. CASE Closedir(t)
  <2>1. cursor'[t].dir = NULL
    BY <1>1, <1>6 DEF Closedir, IsFunctions
  <2> QED BY <2>1 DEF Reads
<1>7. CASE Calls(t)
  <2>1. ASSUME NEW function, NEW p, NEW flag, Start(t, function, p, flag)
        PROVE  UNCHANGED lists
    BY <2>1 DEF Start
  <2>2. Ls(t) => UNCHANGED lists
    BY DEF Ls
  <2> QED BY <2>1, <2>2, <1>3, <1>5, <1>6, <1>7 DEF Calls, Open, Mkdir, Opendir
<1>8. CASE Steps(t)
  BY <1>3, <1>4, <1>8 DEF Steps, Walk, WalkFails, Find, CreateFails, InitFails, Create,
        MkdirCreates, NoDirDesc, LsLock, LsNext, LsUnlock
<1> QED BY <1>7, <1>8

LEMMA CallStep ==
  ASSUME FileInv, NEW t \in Thread, Calls(t) \/ Steps(t)
  PROVE  CallInv'
<1> HIDE DEF Path, Entry
<1> DEFINE Ok(u) == /\ pc'[u] \in {"walk", "create", "mkdir"} =>
                         path'[u] \in IF call'[u] = "open" THEN FilePath ELSE DirPath
                    /\ cursor'[u].dir = NULL => cursor'[u].next = 0
<1>1. FileTypes /\ IsFunctions /\ ThreadTypes(t)
  BY TypesAt DEF FileInv
<1>2. /\ pc[t] \in {"walk", "create", "mkdir"} =>
           path[t] \in IF call[t] = "open" THEN FilePath ELSE DirPath
      /\ cursor[t].dir = NULL => cursor[t].next = 0
  BY DEF FileInv, CallInv
<1>3. ASSUME NEW u \in Thread, u # t PROVE Ok(u)
  <2>1. pc'[u] = pc[u] /\ call'[u] = call[u] /\ path'[u] = path[u] /\ cursor'[u] = cursor[u]
    BY <1>1, <1>3, OneThread DEF Others
  <2> QED BY <2>1 DEF FileInv, CallInv
<1>7. SUFFICES Ok(t)
  BY <1>3 DEF CallInv
<1>4. ASSUME NEW f, Return(t, f)
      PROVE  pc'[t] \in {"idle", "opendir", "mkdir"}
  BY <1>4, <1>1 DEF Return, IsFunctions
<1>5. CASE Calls(t)
  <2>1. ASSUME NEW p \in FilePath, NEW flag, Open(t, p, flag) PROVE Ok(t)
    BY <2>1, <1>1, <1>2 DEF Open, Start, IsFunctions, lists
  <2>2. ASSUME NEW p \in DirPath, Mkdir(t, p) \/ Opendir(t, p) PROVE Ok(t)
    BY <2>2, <1>1, <1>2 DEF Mkdir, Opendir, Start, IsFunctions, lists
  <2>3. CASE Readdir(t)
    <3>1. cursor'[t].dir # NULL /\ pc'[t] = "idle"
      BY <2>3, <1>1 DEF Readdir, IsFunctions, ThreadTypes
    <3> QED BY <3>1
  <2>4. CASE Closedir(t) \/ Ls(t)
    BY <2>4, <1>1, <1>2 DEF Closedir, Ls, IsFunctions, walk, lists
  <2> QED BY <2>1, <2>2, <2>3, <2>4, <1>5 DEF Calls
<1>6. CASE Steps(t)
  <2>1. CASE OpendirDone(t)
    <3>1. cursor'[t].dir = dir[t] /\ dir[t] # NULL /\ pc'[t] = "idle"
      BY <2>1, <1>1, NullIsNoFile DEF OpendirDone, IsFunctions, FileInv, TreeInv, Used
    <3> QED BY <3>1
  <2>2. CASE ~ OpendirDone(t)
    <3>1. UNCHANGED <<call, path, cursor>>
      BY <2>2, <1>6 DEF Steps, Walk, WalkFails, Find, CreateFails, InitFails, Create,
            MkdirCreates, NoDirDesc, LsLock, LsNext, LsUnlock, lists, walk
    <3>2. pc'[t] \in {"walk", "create", "mkdir"} => pc[t] \in {"walk", "create", "mkdir"}
      <4>1. CASE WalkFails(t) \/ CreateFails(t) \/ InitFails(t) \/ \E f \in File : Create(t, f)
        BY <4>1 DEF WalkFails, CreateFails, InitFails, Create
      <4>2. CASE Walk(t) \/ Find(t) \/ MkdirCreates(t)
        BY <4>2 DEF Walk, Find, MkdirCreates
      <4>3. CASE NoDirDesc(t) \/ LsLock(t) \/ LsNext(t) \/ LsUnlock(t)
        BY <4>3, <1>1 DEF NoDirDesc, LsLock, LsNext, LsUnlock, IsFunctions
      <4> QED BY <4>1, <4>2, <4>3, <2>2, <1>6 DEF Steps
    <3> QED BY <3>1, <3>2, <1>2
  <2> QED BY <2>1, <2>2
<1> QED BY <1>5, <1>6

LEMMA FileInit == Init => FileInv
<1> SUFFICES ASSUME Init PROVE FileInv
  OBVIOUS
<1> HIDE DEF Path, Entry
<1> USE NullIsNoFile
<1>1. FileTypes
  <2>1. <<>> \in Seq(Entry) /\ <<>> \in Seq(File) /\ <<>> \in Seq(File \X Nat)
    OBVIOUS
  <2>2. /\ type \in [File -> {"unused", "T_REGULAR", "T_DIRECTORY"}]
        /\ entries \in [File -> Seq(Entry)]
        /\ lock \in [File -> Thread \cup {NULL}]
        /\ leaked \subseteq File
    BY <2>1 DEF Init
  <2>3. /\ pc \in [Thread -> {"idle", "walk", "create", "mkdir", "opendir", "ls"}]
        /\ call \in [Thread -> {"open", "mkdir", "opendir"}]
        /\ path \in [Thread -> Path \cup {<<>>}]
        /\ creat \in [Thread -> BOOLEAN]
        /\ dir \in [Thread -> File \cup {NULL}]
        /\ step \in [Thread -> Nat]
    BY DEF Init
  <2>4. /\ cursor \in [Thread -> [dir : File \cup {NULL}, next : Nat]]
        /\ stack \in [Thread -> Seq(File \X Nat)]
        /\ answer \in [Thread -> File \cup {NULL}]
        /\ seen \in [Thread -> Seq(File)]
        /\ unread \in [Thread -> Nat]
        /\ existed = [t \in Thread |-> existed[t]]
    BY <2>1 DEF Init
  <2>5. \A t \in Thread : step[t] \in 1 .. Len(path[t]) + 1
    BY DEF Init
  <2> QED BY <2>2, <2>3, <2>4, <2>5 DEF FileTypes
<1>2. Used = {root} /\ \A f \in File : entries[f] = <<>> /\ DOMAIN entries[f] = {}
  BY DEF Init, Used
<1>3. TreeInv
  BY <1>2 DEF Init, TreeInv, Child
<1>4. \A t \in Thread : /\ pc[t] = "idle" /\ stack[t] = <<>> /\ DOMAIN stack[t] = {}
                        /\ Len(stack[t]) = 0 /\ cursor[t].dir = NULL /\ cursor[t].next = 0
  BY DEF Init
<1>5. HoldsInv
  BY <1>4 DEF Init, HoldsInv, Holds
<1>6. DescentInv
  <2>1. 1 .. 0 - 1 = {}
    OBVIOUS
  <2> QED BY <1>4, <2>1 DEF DescentInv, Descent
<1>7. ReadInv /\ CallInv
  BY <1>4 DEF ReadInv, Reads, CallInv
<1> QED BY <1>1, <1>3, <1>5, <1>6, <1>7 DEF FileInv

LEMMA FileNext == FileInv /\ [Next]_vars => FileInv'
<1> SUFFICES ASSUME FileInv, [Next]_vars PROVE FileInv'
  OBVIOUS
<1> HIDE DEF Path, Entry
<1>1. CASE UNCHANGED vars
  <2>1. /\ UNCHANGED <<type, entries, lock, pc, call, path, creat, dir, step, cursor>>
        /\ UNCHANGED <<stack, existed, answer, seen, unread, leaked>>
    BY <1>1 DEF vars, tree, walk, lists
  <2>2. FileTypes'
    BY <2>1 DEF FileInv, FileTypes
  <2>3. TreeInv'
    BY <2>1 DEF FileInv, TreeInv, Used, Child
  <2>4. HoldsInv' /\ DescentInv'
    BY <2>1 DEF FileInv, HoldsInv, Holds, DescentInv, Descent, Used, Child
  <2>5. ReadInv' /\ CallInv'
    BY <2>1 DEF FileInv, ReadInv, Reads, CallInv
  <2> QED BY <2>2, <2>3, <2>4, <2>5 DEF FileInv
<1>2. ASSUME NEW t \in Thread, Calls(t) \/ Steps(t) PROVE FileInv'
  BY <1>2, TypesStep, TreeStep, HoldsStep, DescentStep, ReadStep, CallStep DEF FileInv
<1> QED BY <1>1, <1>2 DEF Next

-----------------------------------------------------------------------------
(* The invariant of the file system: what the threads are at is in the     *)
(* tree, what they have locked is on the way down it, and what readdir has *)
(* returned is what the directory lists.                                   *)
THEOREM FilesInvariant == Spec => []FileInv
BY FileInit, FileNext, PTL DEF Spec

(* Only a failed allocation of a file's data leaves a directory locked.    *)
THEOREM LocksAreReleased == Spec => []OnlyFailedInitKeepsLock
<1>1. FileInv => OnlyFailedInitKeepsLock
  <2> SUFFICES ASSUME FileInv, NEW f \in File \ leaked, lock[f] # NULL
               PROVE  \/ pc[lock[f]] = "create" /\ dir[lock[f]] = f
                      \/ pc[lock[f]] = "ls" /\ \E k \in DOMAIN stack[lock[f]] : stack[lock[f]][k][1] = f
    BY DEF OnlyFailedInitKeepsLock
  <2>1. lock[f] \in Thread
    BY DEF FileInv, FileTypes
  <2>2. Holds(lock[f])
    BY <2>1 DEF FileInv, HoldsInv
  <2> QED BY <2>2 DEF Holds
<1> QED BY <1>1, FilesInvariant, PTL

(* Whoever waits for a file's lock holds only directories on the way to it.*)
THEOREM LocksAreNested == Spec => []NoCircularWait
<1>1. FileInv => NoCircularWait
  <2> SUFFICES ASSUME FileInv, NEW t \in Thread, WaitsFor(t) # {}, NEW g \in Locked(t)
               PROVE  \E f \in Locked(t) \cup WaitsFor(t) : Child(g, f)
    BY DEF NoCircularWait
  <2>1. pc[t] \in {"walk", "opendir", "ls"} /\ dir[t] # NULL /\ WaitsFor(t) = {dir[t]}
    BY DEF WaitsFor
  <2>2. g \in File \ leaked /\ lock[g] = t
    BY DEF Locked
  <2>3. Holds(t) /\ Descent(t) /\ stack[t] \in Seq(File \X Nat)
    BY TypesAt DEF FileInv, HoldsInv, DescentInv, ThreadTypes
  <2>4. PICK i \in DOMAIN stack[t] : stack[t][i][1] = g /\ pc[t] = "ls"
    BY <2>1, <2>2, <2>3 DEF Holds
  <2>5. Len(stack[t]) \in Nat /\ DOMAIN stack[t] = 1 .. Len(stack[t]) /\ stack[t] # <<>>
    BY <2>3, <2>4
  <2>6. CASE i = Len(stack[t])
    BY <2>1, <2>3, <2>4, <2>5, <2>6 DEF Descent
  <2>7. CASE i # Len(stack[t])
    <3>1. i \in 1 .. Len(stack[t]) - 1 /\ i + 1 \in DOMAIN stack[t]
      BY <2>5, <2>7
    <3>2. Child(g, stack[t][i + 1][1])
      BY <3>1, <2>3, <2>4 DEF Descent
    <3>3. lock[stack[t][i + 1][1]] = t /\ stack[t][i + 1][1] \notin leaked
      BY <3>1, <2>3 DEF Holds
    <3>4. stack[t][i + 1][1] \in File
      BY <3>1, <2>3, ElementOfSeq
    <3> QED BY <3>2, <3>3, <3>4 DEF Locked
  <2> QED BY <2>6, <2>7
<1> QED BY <1>1, FilesInvariant, PTL

(* readdir returns what was there at opendir, in order, each entry once.   *)
THEOREM ReaddirIsComplete == Spec => []ReaddirComplete
<1>1. FileInv => ReaddirComplete
  BY DEF FileInv, ReadInv, Reads, ReaddirComplete
<1> QED BY <1>1, FilesInvariant, PTL

-----------------------------------------------------------------------------
(* Paths.                                                                  *)

LEMMA LastOne ==
  ASSUME NEW S, NEW s \in Seq(S), NEW r \in Seq(S), NEW a \in S, NEW b \in S,
         Append(s, a) = Append(r, b)
  PROVE  s = r /\ a = b
<1>1. /\ Len(s) \in Nat /\ Len(Append(s, a)) = Len(s) + 1
      /\ \A i \in 1 .. Len(s) : Append(s, a)[i] = s[i]
      /\ Append(s, a)[Len(s) + 1] = a
  BY AppendIs
<1>2. /\ Len(r) \in Nat /\ Len(Append(r, b)) = Len(r) + 1
      /\ \A i \in 1 .. Len(r) : Append(r, b)[i] = r[i]
      /\ Append(r, b)[Len(r) + 1] = b
  BY AppendIs
<1>3. Len(s) = Len(r)
  BY <1>1, <1>2
<1>4. \A i \in 1 .. Len(s) : s[i] = r[i]
  BY <1>1, <1>2, <1>3
<1>5. s = r
  BY <1>3, <1>4, SeqEqual
<1> QED BY <1>1, <1>2, <1>5

(* The beginnings of a sequence.                                           *)
LEMMA BeginningIs ==
  ASSUME NEW S, NEW p \in Seq(S), NEW n \in 0 .. Len(p)
  PROVE  /\ SubSeq(p, 1, n) \in Seq(S) /\ Len(SubSeq(p, 1, n)) = n
         /\ \A i \in 1 .. n : SubSeq(p, 1, n)[i] = p[i]
<1>1. Len(p) \in Nat /\ n \in Int /\ 1 \in Int /\ n \in Nat
  OBVIOUS
<1>2. \A i \in 1 .. n : p[i] \in S
  BY <1>1, ElementOfSeq
<1>3. /\ SubSeq(p, 1, n) \in Seq(S)
      /\ Len(SubSeq(p, 1, n)) = IF 1 <= n THEN n - 1 + 1 ELSE 0
      /\ \A i \in 1 .. n - 1 + 1 : SubSeq(p, 1, n)[i] = p[1 + i - 1]
  BY <1>1, <1>2, SubSeqProperties
<1>4. Len(SubSeq(p, 1, n)) = n
  BY <1>1, <1>3
<1>5. \A i \in 1 .. n : SubSeq(p, 1, n)[i] = p[i]
  <2>1. \A i \in 1 .. n : i \in 1 .. n - 1 + 1 /\ 1 + i - 1 = i
    BY <1>1
  <2> QED BY <1>3, <2>1
<1> QED BY <1>3, <1>4, <1>5

LEMMA NextOne ==
  ASSUME NEW S, NEW p \in Seq(S), NEW n \in 1 .. Len(p)
  PROVE  /\ n - 1 \in 0 .. Len(p) /\ p[n] \in S
         /\ Append(SubSeq(p, 1, n - 1), p[n]) = SubSeq(p, 1, n)
<1> DEFINE s == SubSeq(p, 1, n - 1)
           r == SubSeq(p, 1, n)
<1>1. Len(p) \in Nat /\ n - 1 \in 0 .. Len(p) /\ n \in 0 .. Len(p) /\ p[n] \in S
  BY ElementOfSeq
<1>2. s \in Seq(S) /\ Len(s) = n - 1 /\ \A i \in 1 .. n - 1 : s[i] = p[i]
  BY <1>1, BeginningIs
<1>3. r \in Seq(S) /\ Len(r) = n /\ \A i \in 1 .. n : r[i] = p[i]
  BY <1>1, BeginningIs
<1> HIDE DEF s, r
<1>4. /\ Append(s, p[n]) \in Seq(S) /\ Len(Append(s, p[n])) = Len(s) + 1
      /\ \A i \in 1 .. Len(s) : Append(s, p[n])[i] = s[i]
      /\ Append(s, p[n])[Len(s) + 1] = p[n]
  BY <1>1, <1>2, AppendIs
<1>5. Len(Append(s, p[n])) = n /\ Append(s, p[n])[n] = p[n]
  BY <1>1, <1>2, <1>4
<1>6. ASSUME NEW i \in 1 .. n PROVE Append(s, p[n])[i] = r[i]
  <2>1. CASE i = n
    BY <2>1, <1>3, <1>5
  <2>2. CASE i # n
    <3>1. i \in 1 .. n - 1
      BY <2>2, <1>1
    <3> QED BY <3>1, <1>2, <1>3, <1>4
  <2> QED BY <2>1, <2>2
<1>7. Append(s, p[n]) = r
  BY <1>3, <1>4, <1>5, <1>6, SeqEqual
<1> QED BY <1>1, <1>7 DEF s, r

LEMMA BeginningOfBeginning ==
  ASSUME NEW S, NEW p \in Seq(S), NEW n \in 0 .. Len(p), NEW m \in 0 .. n
  PROVE  SubSeq(SubSeq(p, 1, n), 1, m) = SubSeq(p, 1, m)
<1> DEFINE r == SubSeq(p, 1, n)
           s == SubSeq(r, 1, m)
           q == SubSeq(p, 1, m)
<1>1. Len(p) \in Nat /\ m \in 0 .. Len(p)
  OBVIOUS
<1>2. r \in Seq(S) /\ Len(r) = n /\ \A i \in 1 .. n : r[i] = p[i]
  BY BeginningIs
<1>3. q \in Seq(S) /\ Len(q) = m /\ \A i \in 1 .. m : q[i] = p[i]
  BY <1>1, BeginningIs
<1>4. s \in Seq(S) /\ Len(s) = m /\ \A i \in 1 .. m : s[i] = r[i]
  <2> HIDE DEF r
  <2>1. m \in 0 .. Len(r)
    BY <1>2
  <2> QED BY <1>2, <2>1, BeginningIs
<1>5. \A i \in 1 .. m : s[i] = q[i]
  <2>1. \A i \in 1 .. m : i \in 1 .. n
    BY <1>1
  <2> QED BY <1>2, <1>3, <1>4, <2>1
<1> HIDE DEF s, q
<1>6. s = q
  BY <1>3, <1>4, <1>5, SeqEqual
<1> QED BY <1>6 DEF s, q

(* A name is a prefix of itself.                                           *)
LEMMA PrefixOfItself ==
  ASSUME NEW m \in Name
  PROVE  IsPrefix(m, m)
<1>1. m \in Seq(ToSet(m))
  BY PathAssumption DEF Name, Path
<1>2. Len(m) \in Nat
  BY <1>1
<1> QED BY <1>2 DEF IsPrefix

-----------------------------------------------------------------------------
(* What the directories lead to.                                           *)

Places == [File -> Path \cup {<<>>}]

(* A directory lists exactly the files that were made in it.               *)
LEMMA EntryFinds ==
  ASSUME FileInv, NEW place \in Places, Placed(place), NEW d \in Used, NEW name \in Name
  PROVE  /\ \A k \in DOMAIN entries[d] : entries[d][k].name = name =>
              entries[d][k].file \in Used /\ place[entries[d][k].file] = Append(place[d], name)
         /\ \A f \in Used : place[f] = Append(place[d], name) =>
              \E k \in DOMAIN entries[d] : entries[d][k].name = name /\ entries[d][k].file = f
<1> HIDE DEF Path, Name
<1>1. d \in File /\ FileTypes /\ TreeInv /\ Used \subseteq File
  BY DEF Used, FileInv
<1>2. ASSUME NEW k \in DOMAIN entries[d], entries[d][k].name = name
      PROVE  entries[d][k].file \in Used /\ place[entries[d][k].file] = Append(place[d], name)
  BY <1>1, <1>2 DEF TreeInv, Placed
<1>3. ASSUME NEW f \in Used, place[f] = Append(place[d], name)
      PROVE  \E k \in DOMAIN entries[d] : entries[d][k].name = name /\ entries[d][k].file = f
  <2>1. place[d] \in Seq(Name)
    <3>1. place[d] \in Path \cup {<<>>}
      BY <1>1 DEF Places
    <3> QED BY <3>1, PathFacts
  <2>2. Append(place[d], name) # <<>>
    BY <2>1, AppendIs
  <2>3. f # root
    BY <1>3, <2>2 DEF Placed
  <2>4. PICK e \in Used : \E k \in DOMAIN entries[e] : entries[e][k].file = f
    BY <1>1, <2>3 DEF TreeInv, Child
  <2>5. PICK k \in DOMAIN entries[e] : entries[e][k].file = f
    BY <2>4
  <2>6. e \in File
    BY <1>1
  <2>7. entries[e][k].name \in Name
    BY <1>1, <2>6, EntryIs
  <2>8. place[f] = Append(place[e], entries[e][k].name)
    BY <2>5, <2>6 DEF Placed
  <2>9. place[e] \in Seq(Name)
    <3>1. place[e] \in Path \cup {<<>>}
      BY <2>6 DEF Places
    <3> QED BY <3>1, PathFacts
  <2>10. place[e] = place[d] /\ entries[e][k].name = name
    <3> DEFINE S == Name
               s == place[e]
               a == entries[e][k].name
    <3>1. s \in Seq(S) /\ a \in S /\ place[d] \in Seq(S) /\ name \in S
      BY <2>1, <2>7, <2>9
    <3>2. Append(s, a) = Append(place[d], name)
      BY <1>3, <2>8
    <3> HIDE DEF S, s, a
    <3>3. s = place[d] /\ a = name
      BY <3>1, <3>2, LastOne
    <3> QED BY <3>3 DEF s, a
  <2>11. e = d
    BY <2>10 DEF Placed
  <2> QED BY <2>5, <2>10, <2>11
<1> QED BY <1>2, <1>3

(* path_step looks it up, when no name begins another.                     *)
LEMMA StepFinds ==
  ASSUME NamesApart, FileInv, NEW place \in Places, Placed(place),
         NEW d \in Used, type[d] = "T_DIRECTORY", NEW name \in Name
  PROVE  /\ PathStep(d, name) # NULL =>
              PathStep(d, name) \in Used /\ place[PathStep(d, name)] = Append(place[d], name)
         /\ \A f \in Used : place[f] = Append(place[d], name) => PathStep(d, name) = f
<1> HIDE DEF Path, Name
<1>1. d \in File /\ FileTypes
  BY DEF Used, FileInv
<1>2. \A k \in DOMAIN entries[d] : IsPrefix(name, entries[d][k].name) => entries[d][k].name = name
  BY <1>1, EntryIs DEF NamesApart
<1>3. /\ \A k \in DOMAIN entries[d] : entries[d][k].name = name =>
           entries[d][k].file \in Used /\ place[entries[d][k].file] = Append(place[d], name)
      /\ \A f \in Used : place[f] = Append(place[d], name) =>
           \E k \in DOMAIN entries[d] : entries[d][k].name = name /\ entries[d][k].file = f
  BY EntryFinds
<1>4. /\ PathStep(d, name) # NULL =>
              \E k \in DOMAIN entries[d] : /\ IsPrefix(name, entries[d][k].name)
                                           /\ PathStep(d, name) = entries[d][k].file
      /\ PathStep(d, name) = NULL /\ type[d] = "T_DIRECTORY" =>
              \A k \in DOMAIN entries[d] : ~ IsPrefix(name, entries[d][k].name)
      /\ PathStep(d, name) \in File \cup {NULL}
  BY <1>1, PathStepIs
<1>5. PathStep(d, name) # NULL =>
        PathStep(d, name) \in Used /\ place[PathStep(d, name)] = Append(place[d], name)
  BY <1>2, <1>3, <1>4
<1>6. ASSUME NEW f \in Used, place[f] = Append(place[d], name) PROVE PathStep(d, name) = f
  <2>1. PICK k \in DOMAIN entries[d] : entries[d][k].name = name /\ entries[d][k].file = f
    BY <1>3, <1>6
  <2>2. IsPrefix(name, entries[d][k].name)
    BY <2>1, PrefixOfItself
  <2>3. PathStep(d, name) # NULL
    BY <1>4, <2>2
  <2> QED BY <1>5, <1>6, <2>3 DEF Placed
<1> QED BY <1>5, <1>6

(* Resolve computes what follows from the entries one component at a time. *)
After(d, name) ==
  LET here == IF d = NULL THEN {} ELSE {k \in DOMAIN entries[d] : entries[d][k].name = name}
  IN IF here = {} THEN NULL ELSE entries[d][CHOOSE k \in here : TRUE].file

Along(h, p) ==
  [n \in 0 .. Len(p) |-> IF n = 0 THEN root ELSE After(h[n - 1], p[n])]

LEMMA ResolveUnfolds ==
  ASSUME NEW p, NEW g, g = Along(g, p), \A h : h = Along(h, p) => h = g
  PROVE  Resolve(p) = g[Len(p)]
BY DEF Resolve, Along, After

(* It leads to the file that was made there.                               *)
LEMMA ResolveIs ==
  ASSUME FileInv, NEW place \in Places, Placed(place), NEW p \in Path \cup {<<>>}
  PROVE  /\ Resolve(p) # NULL => Resolve(p) \in Used /\ place[Resolve(p)] = p
         /\ \A f \in Used : place[f] = p => Resolve(p) = f
<1> HIDE DEF Path, Name
<1> DEFINE At(n) == {f \in Used : place[f] = SubSeq(p, 1, n)}
           g == [n \in 0 .. Len(p) |-> IF At(n) = {} THEN NULL ELSE CHOOSE f \in At(n) : TRUE]
<1>1. p \in Seq(Name) /\ Len(p) \in Nat
  BY PathFacts
<1>2. Used \subseteq File /\ root \in Used /\ NULL \notin Used
  BY NullIsNoFile DEF Used, FileInv, TreeInv
<1>3. ASSUME NEW n \in 0 .. Len(p)
      PROVE  /\ g[n] # NULL => g[n] \in Used /\ place[g[n]] = SubSeq(p, 1, n)
             /\ \A f \in Used : place[f] = SubSeq(p, 1, n) => g[n] = f
  <2>1. g[n] = IF At(n) = {} THEN NULL ELSE CHOOSE f \in At(n) : TRUE
    OBVIOUS
  <2>2. At(n) # {} => (CHOOSE f \in At(n) : TRUE) \in At(n)
    OBVIOUS
  <2>3. \A e, f \in At(n) : e = f
    BY DEF Placed
  <2> HIDE DEF g
  <2>4. g[n] # NULL => g[n] \in At(n)
    BY <2>1, <2>2
  <2>5. ASSUME NEW f \in Used, place[f] = SubSeq(p, 1, n) PROVE g[n] = f
    <3>1. f \in At(n)
      BY <2>5
    <3> QED BY <3>1, <2>1, <2>2, <2>3
  <2> QED BY <2>4, <2>5
<1> HIDE DEF g
<1>4. g[0] = root
  <2>1. SubSeq(p, 1, 0) = <<>> /\ 0 \in 0 .. Len(p)
    BY <1>1, SubSeqEmpty
  <2>2. place[root] = SubSeq(p, 1, 0)
    BY <2>1 DEF Placed
  <2> QED BY <1>2, <1>3, <2>1, <2>2
<1>5. ASSUME NEW n \in 1 .. Len(p)
      PROVE  g[n] = After(g[n - 1], p[n])
  <2> DEFINE d == g[n - 1]
             here == IF d = NULL THEN {} ELSE
                       {k \in DOMAIN entries[d] : entries[d][k].name = p[n]}
  <2>1. /\ n - 1 \in 0 .. Len(p) /\ p[n] \in Name /\ n \in 0 .. Len(p)
        /\ Append(SubSeq(p, 1, n - 1), p[n]) = SubSeq(p, 1, n)
    BY <1>1, NextOne
  <2>2. CASE d = NULL
    <3>1. \A f \in Used : place[f] # SubSeq(p, 1, n)
      <4> SUFFICES ASSUME NEW f \in Used, place[f] = SubSeq(p, 1, n) PROVE FALSE
        OBVIOUS
      <4>1. Len(place[f]) = n
        BY <1>1, <2>1, BeginningIs
      <4>2. n - 1 \in 0 .. Len(place[f])
        BY <4>1, <2>1
      <4>3. PICK e \in Used : place[e] = SubSeq(place[f], 1, n - 1)
        BY <4>2 DEF Placed
      <4>4. n - 1 \in 0 .. n
        BY <2>1
      <4>5. SubSeq(SubSeq(p, 1, n), 1, n - 1) = SubSeq(p, 1, n - 1)
        BY <1>1, <2>1, <4>4, BeginningOfBeginning
      <4>6. d = e
        BY <1>3, <2>1, <4>3, <4>5
      <4> QED BY <1>2, <2>2, <4>6
    <3>2. g[n] = NULL
      BY <1>3, <2>1, <3>1
    <3> QED BY <2>2, <3>2 DEF After
  <2>3. CASE d # NULL
    <3>1. d \in Used /\ place[d] = SubSeq(p, 1, n - 1)
      BY <1>3, <2>1, <2>3
    <3>2. here = {k \in DOMAIN entries[d] : entries[d][k].name = p[n]}
      BY <2>3
    <3> HIDE DEF d, here
    <3>3. /\ \A k \in DOMAIN entries[d] : entries[d][k].name = p[n] =>
                entries[d][k].file \in Used /\ place[entries[d][k].file] = Append(place[d], p[n])
          /\ \A f \in Used : place[f] = Append(place[d], p[n]) =>
                \E k \in DOMAIN entries[d] : entries[d][k].name = p[n] /\ entries[d][k].file = f
      BY <2>1, <3>1, EntryFinds
    <3>4. CASE here = {}
      <4>1. \A f \in Used : place[f] # SubSeq(p, 1, n)
        BY <2>1, <3>1, <3>2, <3>3, <3>4
      <4>2. g[n] = NULL
        BY <1>3, <2>1, <4>1
      <4> QED BY <3>4, <4>2 DEF d, here, After
    <3>5. CASE here # {}
      <4> DEFINE k == CHOOSE i \in here : TRUE
      <4>1. k \in here
        BY <3>5
      <4> HIDE DEF k
      <4>2. entries[d][k].file \in Used /\ place[entries[d][k].file] = SubSeq(p, 1, n)
        BY <2>1, <3>1, <3>2, <3>3, <4>1
      <4>3. g[n] = entries[d][k].file
        BY <1>3, <2>1, <4>2
      <4> QED BY <3>5, <4>3 DEF d, here, k, After
    <3> QED BY <3>4, <3>5
  <2> QED BY <2>2, <2>3
<1>6. DOMAIN g = 0 .. Len(p) /\ g = [n \in 0 .. Len(p) |-> g[n]]
  BY DEF g
<1>7. g = Along(g, p)
  <2>1. ASSUME NEW n \in 0 .. Len(p) PROVE g[n] = Along(g, p)[n]
    <3>1. CASE n = 0
      BY <3>1, <1>4 DEF Along
    <3>2. CASE n # 0
      <4>1. n \in 1 .. Len(p)
        BY <3>2, <1>1
      <4> QED BY <4>1, <3>2, <1>5 DEF Along
    <3> QED BY <3>1, <3>2
  <2>2. Along(g, p) = [n \in 0 .. Len(p) |-> Along(g, p)[n]]
    BY DEF Along
  <2> QED BY <1>6, <2>1, <2>2
<1>8. ASSUME NEW h, h = Along(h, p) PROVE h = g
  <2>1. h = [n \in 0 .. Len(p) |-> h[n]]
    <3>1. Along(h, p) = [n \in 0 .. Len(p) |-> Along(h, p)[n]]
      BY DEF Along
    <3> QED BY <1>8, <3>1
  <2>2. ASSUME NEW n \in 1 .. Len(p), h[n - 1] = g[n - 1] PROVE h[n] = g[n]
    <3>1. Along(h, p)[n] = Along(g, p)[n]
      <4>1. n \in 0 .. Len(p) /\ n # 0
        BY <1>1
      <4> QED BY <4>1, <2>2 DEF Along
    <3> QED BY <3>1, <1>7, <1>8
  <2>3. h[0] = g[0]
    <3>1. Along(h, p)[0] = root
      BY <1>1 DEF Along
    <3> QED BY <3>1, <1>4, <1>8
  <2> DEFINE Bad == {n \in 0 .. Len(p) : h[n] # g[n]}
  <2>4. CASE Bad # {}
    <3>1. Bad \subseteq Nat
      OBVIOUS
    <3> HIDE DEF Bad
    <3>2. PICK m \in Bad : \A n \in Bad : m <= n
      BY <2>4, <3>1, LeastNumber
    <3>3. m \in 0 .. Len(p) /\ h[m] # g[m]
      BY <3>2 DEF Bad
    <3>4. m \in 1 .. Len(p)
      BY <3>3, <2>3, <1>1
    <3>5. m - 1 \notin Bad /\ m - 1 \in 0 .. Len(p)
      BY <3>2, <3>4, <1>1
    <3>6. h[m - 1] = g[m - 1]
      BY <3>5 DEF Bad
    <3> QED BY <3>3, <3>4, <3>6, <2>2
  <2>5. CASE Bad = {}
    <3>1. \A n \in 0 .. Len(p) : h[n] = g[n]
      BY <2>5
    <3> QED BY <3>1, <2>1, <1>6
  <2> QED BY <2>4, <2>5
<1>9. Resolve(p) = g[Len(p)]
  BY <1>7, <1>8, ResolveUnfolds
<1>10. SubSeq(p, 1, Len(p)) = p /\ Len(p) \in 0 .. Len(p)
  BY <1>1, SubSeqFull
<1> QED BY <1>3, <1>9, <1>10

-----------------------------------------------------------------------------
(* What threads find.                                                      *)

AllOnPath(place) == \A u \in Thread : OnPath(place, u)

(* A walk has arrived at a directory.                                      *)
LEMMA WalksDirectories ==
  ASSUME FileInv, NEW place \in Places, Placed(place), NEW t \in Thread, OnPath(place, t),
         pc[t] \in {"walk", "create"}, dir[t] # NULL
  PROVE  /\ dir[t] \in Used /\ type[dir[t]] = "T_DIRECTORY"
         /\ path[t] \in Path /\ path[t] \in Seq(Name) /\ Len(path[t]) \in Nat
         /\ step[t] \in 1 .. Len(path[t]) /\ place[dir[t]] = SubSeq(path[t], 1, step[t] - 1)
<1>1. dir[t] \in Used
  BY DEF FileInv, TreeInv
<1>2. path[t] \in Path
  BY DEF FileInv, CallInv, Path
<1>3. /\ path[t] \in Seq(Name) /\ Len(path[t]) \in Nat
      /\ path[t] \in Seq(ToSet(path[t])) /\ path[t] # <<>>
      /\ \A n \in 1 .. Len(path[t]) - 1 : SubSeq(path[t], 1, n) \in DirPath
  BY <1>2, PathFacts, PathAssumption DEF Path
<1>4. step[t] \in Nat /\ step[t] \in 1 .. Len(path[t]) + 1
  BY TypesAt DEF FileInv, ThreadTypes
<1>5. step[t] <= Len(path[t]) /\ place[dir[t]] = SubSeq(path[t], 1, step[t] - 1)
  BY DEF OnPath
<1>6. step[t] \in 1 .. Len(path[t])
  BY <1>3, <1>4, <1>5
<1>7. type[dir[t]] = "T_DIRECTORY"
  <2>1. CASE dir[t] = root
    BY <2>1 DEF Placed
  <2>2. CASE dir[t] # root
    <3>1. step[t] # 1
      <4> SUFFICES ASSUME step[t] = 1 PROVE FALSE
        OBVIOUS
      <4>1. SubSeq(path[t], 1, step[t] - 1) = <<>>
        BY SubSeqEmpty
      <4>2. place[dir[t]] = place[root] /\ root \in Used
        BY <1>5, <4>1 DEF Placed, FileInv, TreeInv
      <4> QED BY <1>1, <2>2, <4>2 DEF Placed
    <3>2. step[t] - 1 \in 1 .. Len(path[t]) - 1
      BY <1>3, <1>6, <3>1
    <3>3. place[dir[t]] \in DirPath
      BY <1>3, <1>5, <3>2
    <3>4. place[dir[t]] \notin FilePath
      BY <3>3, PathAssumption
    <3> QED BY <1>1, <2>2, <3>4 DEF Placed
  <2> QED BY <2>1, <2>2
<1> QED BY <1>1, <1>2, <1>3, <1>5, <1>6, <1>7

(* It finds the file at the next component, if there is one.               *)
LEMMA WalkFinds ==
  ASSUME NamesApart, FileInv, NEW place \in Places, Placed(place), NEW t \in Thread,
         OnPath(place, t), pc[t] \in {"walk", "create"}, dir[t] # NULL
  PROVE  LET f == PathStep(dir[t], path[t][step[t]])
         IN /\ f # NULL => f \in Used /\ place[f] = SubSeq(path[t], 1, step[t])
            /\ \A g \in Used : place[g] = SubSeq(path[t], 1, step[t]) => f = g
            /\ existed[t] # NULL => f # NULL
<1> DEFINE d == dir[t]
           p == path[t]
           n == step[t]
           f == PathStep(d, p[n])
<1> HIDE DEF Path, Name
<1>1. /\ d \in Used /\ type[d] = "T_DIRECTORY" /\ p \in Seq(Name) /\ Len(p) \in Nat
      /\ n \in 1 .. Len(p) /\ place[d] = SubSeq(p, 1, n - 1)
  BY WalksDirectories
<1>2. existed[t] # NULL => existed[t] \in Used /\ place[existed[t]] = p
  BY DEF OnPath
<1> HIDE DEF d, p, n
<1>3. Append(place[d], p[n]) = SubSeq(p, 1, n) /\ p[n] \in Name
  BY <1>1, NextOne
<1>4. /\ f # NULL => f \in Used /\ place[f] = Append(place[d], p[n])
      /\ \A g \in Used : place[g] = Append(place[d], p[n]) => f = g
  BY <1>1, <1>3, StepFinds
<1>5. existed[t] # NULL => f # NULL
  <2> SUFFICES ASSUME existed[t] # NULL PROVE f # NULL
    OBVIOUS
  <2>1. n \in 0 .. Len(place[existed[t]])
    BY <1>1, <1>2
  <2>2. PICK g \in Used : place[g] = SubSeq(place[existed[t]], 1, n)
    BY <1>2, <2>1 DEF Placed
  <2>3. f = g
    BY <1>2, <1>3, <1>4, <2>2
  <2> QED BY <2>3, NullIsNoFile DEF Used
<1> QED BY <1>3, <1>4, <1>5 DEF d, p, n

(* file_open returns what its path leads to.                               *)
LEMMA ReturnsOnPath ==
  ASSUME FileInv, NEW place, NEW t \in Thread, OnPath(place, t),
         NEW f \in File \cup {NULL}, Return(t, f), Used \subseteq Used',
         UNCHANGED <<path, existed>>, existed[t] # NULL => f = existed[t],
         f # NULL => f \in Used' /\ place[f] = path[t]
  PROVE  OnPath(place, t)'
<1>1. IsFunctions
  BY TypesAt DEF FileInv
<1>2. /\ answer'[t] = f /\ pc'[t] \in {"idle", "mkdir", "opendir"}
      /\ pc'[t] = "mkdir" => f = NULL
  BY <1>1 DEF Return, IsFunctions
<1>3. existed[t] # NULL => existed[t] \in Used' /\ place[existed[t]] = path[t]
  BY DEF OnPath
<1> QED BY <1>2, <1>3 DEF OnPath

(* A thread that is not touched.                                           *)
LEMMA StaysOnPath ==
  ASSUME NEW place, NEW u, OnPath(place, u), Used' = Used,
         pc'[u] = pc[u], path'[u] = path[u], dir'[u] = dir[u], step'[u] = step[u],
         existed'[u] = existed[u], answer'[u] = answer[u]
  PROVE  OnPath(place, u)'
BY DEF OnPath

(* A step of t that leaves the tree as it is.                              *)
LEMMA MovesOnPath ==
  ASSUME NamesApart, FileInv, NEW place \in Places, Placed(place), NEW t \in Thread,
         OnPath(place, t), Calls(t) \/ Steps(t), UNCHANGED tree
  PROVE  OnPath(place, t)'
<1> HIDE DEF Path, Name
<1>1. FileTypes /\ IsFunctions /\ ThreadTypes(t)
  BY TypesAt DEF FileInv
<1>2. Used' = Used /\ root \in Used /\ Used \subseteq File /\ root # NULL
  BY NullIsNoFile DEF tree, Used, FileInv, TreeInv
<1>3. /\ existed[t] # NULL => existed[t] \in Used /\ place[existed[t]] = path[t]
      /\ pc[t] \notin {"walk", "create"} =>
           /\ answer[t] # NULL => answer[t] \in Used /\ place[answer[t]] = path[t]
           /\ existed[t] # NULL => answer[t] = existed[t]
  BY DEF OnPath
<1>4. ASSUME pc[t] \notin {"walk", "create"}, pc'[t] \notin {"walk", "create", "mkdir"},
             UNCHANGED <<path, existed, answer>>
      PROVE  OnPath(place, t)'
  BY <1>2, <1>3, <1>4 DEF OnPath
<1>5. place[root] = SubSeq(path'[t], 1, 0)
  <2>1. SubSeq(path'[t], 1, 0) = <<>>
    BY SubSeqEmpty
  <2> QED BY <2>1 DEF Placed
<1>6. ASSUME NEW function, NEW p \in Path, NEW flag, Start(t, function, p, flag)
      PROVE  OnPath(place, t)'
  <2>1. /\ pc'[t] = "walk" /\ path'[t] = p /\ dir'[t] = root /\ step'[t] = 1
        /\ existed'[t] = Resolve(p)
    BY <1>1, <1>6 DEF Start, IsFunctions
  <2>2. Resolve(p) # NULL => Resolve(p) \in Used /\ place[Resolve(p)] = p
    BY ResolveIs
  <2>3. 1 <= Len(p)
    BY PathFacts
  <2>4. /\ step'[t] - 1 = 0 /\ step'[t] <= Len(path'[t]) /\ dir'[t] = root
        /\ place[dir'[t]] = SubSeq(path'[t], 1, step'[t] - 1)
    BY <1>5, <2>1, <2>3
  <2>5. existed'[t] # NULL => existed'[t] \in Used' /\ place[existed'[t]] = path'[t]
    BY <1>2, <2>1, <2>2
  <2> QED BY <1>2, <2>1, <2>4, <2>5 DEF OnPath
<1>7. CASE Calls(t)
  <2>1. CASE Readdir(t) \/ Closedir(t)
    <3>1. /\ pc' = pc /\ path' = path /\ dir' = dir /\ step' = step
          /\ existed' = existed /\ answer' = answer
      BY <2>1 DEF Readdir, Closedir, walk
    <3> QED BY <1>2, <3>1, StaysOnPath
  <2>2. CASE Ls(t)
    BY <1>1, <1>4, <2>2 DEF Ls, IsFunctions
  <2> QED BY <1>6, <1>7, <2>1, <2>2 DEF Calls, Open, Mkdir, Opendir, Path
<1>8. CASE Walk(t)
  <2> DEFINE f == PathStep(dir[t], path[t][step[t]])
  <2>1. /\ pc[t] = "walk" /\ pc'[t] = "walk" /\ step[t] < Len(path[t]) /\ dir[t] # NULL
        /\ dir'[t] = f /\ step'[t] = step[t] + 1 /\ UNCHANGED <<path, existed>>
    BY <1>1, <1>8 DEF Walk, IsFunctions
  <2>2. /\ f # NULL => f \in Used /\ place[f] = SubSeq(path[t], 1, step[t])
        /\ existed[t] # NULL => f # NULL
    BY <2>1, WalkFinds
  <2>3. step[t] \in Nat /\ Len(path[t]) \in Nat /\ step[t] < Len(path[t])
    BY <1>1, <2>1, PathFacts DEF ThreadTypes
  <2> HIDE DEF f
  <2>7. path'[t] = path[t] /\ existed'[t] = existed[t] /\ step'[t] = step[t] + 1
    BY <2>1
  <2>4. /\ step'[t] <= Len(path'[t]) /\ step'[t] - 1 = step[t]
        /\ path'[t] = path[t] /\ existed'[t] = existed[t]
    BY <2>3, <2>7
  <2>5. dir'[t] # NULL => place[dir'[t]] = SubSeq(path'[t], 1, step'[t] - 1)
    BY <2>1, <2>2, <2>4
  <2>6. existed'[t] # NULL => dir'[t] # NULL /\ existed'[t] \in Used' /\ place[existed'[t]] = path'[t]
    BY <1>2, <1>3, <2>1, <2>2, <2>4
  <2> QED BY <2>1, <2>4, <2>5, <2>6 DEF OnPath
<1>9. CASE WalkFails(t)
  <2>1. existed[t] = NULL /\ Return(t, NULL) /\ UNCHANGED <<path, existed>>
    BY <1>9 DEF WalkFails, OnPath
  <2> QED BY <1>2, <2>1, ReturnsOnPath
<1>10. CASE Find(t)
  <2> DEFINE f == PathStep(dir[t], path[t][step[t]])
  <2>1. /\ pc[t] = "walk" /\ step[t] = Len(path[t]) /\ dir[t] # NULL
        /\ UNCHANGED <<path, existed, step>>
    BY <1>10 DEF Find
  <2>2. /\ path[t] \in Seq(Name) /\ step[t] \in 1 .. Len(path[t])
        /\ place[dir[t]] = SubSeq(path[t], 1, step[t] - 1)
    BY <2>1, WalksDirectories
  <2>3. SubSeq(path[t], 1, step[t]) = path[t]
    BY <2>1, <2>2, SubSeqFull
  <2>4. /\ f # NULL => f \in Used /\ place[f] = path[t]
        /\ \A g \in Used : place[g] = path[t] => f = g
    BY <2>1, <2>3, WalkFinds
  <2>5. f \in File \cup {NULL}
    BY <1>2, <2>4
  <2>6. CASE f # NULL \/ ~ creat[t]
    <3>1. Return(t, f)
      BY <1>10, <2>6 DEF Find
    <3>2. existed[t] # NULL => f = existed[t]
      BY <1>3, <2>4
    <3> HIDE DEF f
    <3> QED BY <1>2, <2>1, <2>4, <2>5, <3>1, <3>2, ReturnsOnPath
  <2>7. CASE ~ (f # NULL \/ ~ creat[t])
    <3>1. /\ pc'[t] = "create" /\ dir'[t] = dir[t] /\ answer' = answer
      BY <1>1, <1>10, <2>7 DEF Find, IsFunctions
    <3>2. \A g \in Used : place[g] # path[t]
      BY <1>2, <2>4, <2>7, NullIsNoFile
    <3> HIDE DEF f
    <3>3. step'[t] <= Len(path'[t])
      BY <2>1, <2>2
    <3>4. path'[t] = path[t] /\ existed'[t] = existed[t] /\ step'[t] = step[t]
      BY <2>1
    <3> QED BY <1>2, <1>3, <2>1, <2>2, <3>1, <3>2, <3>3, <3>4 DEF OnPath
  <2> QED BY <2>6, <2>7
<1>11. CASE CreateFails(t) \/ InitFails(t)
  <2>1. pc[t] = "create" /\ Return(t, NULL) /\ UNCHANGED <<path, existed>>
    BY <1>11 DEF CreateFails, InitFails
  <2>2. existed[t] = NULL
    BY <1>3, <2>1 DEF OnPath
  <2> QED BY <1>2, <2>1, <2>2, ReturnsOnPath
<1>12. CASE \E f \in File : Create(t, f)
  <2>1. PICK f \in File : Create(t, f)
    BY <1>12
  <2>2. f \in Used' /\ f \notin Used
    <3>1. f \in File \ Used /\ Used' = Used \cup {f}
      BY <2>1, CreateIs
    <3> QED BY <3>1
  <2> QED BY <1>2, <2>2
<1>13. CASE MkdirCreates(t)
  <2>1. /\ pc[t] = "mkdir" /\ pc'[t] = "walk" /\ dir'[t] = root /\ step'[t] = 1
        /\ UNCHANGED <<path, existed>>
    BY <1>1, <1>13 DEF MkdirCreates, IsFunctions
  <2>2. path[t] \in Path
    BY <2>1 DEF FileInv, CallInv, Path
  <2>3. 1 <= Len(path[t])
    BY <2>2, PathFacts
  <2> QED BY <1>2, <1>3, <1>5, <2>1, <2>3 DEF OnPath
<1>14. CASE NoDirDesc(t) \/ OpendirDone(t)
  BY <1>1, <1>4, <1>14 DEF NoDirDesc, OpendirDone, IsFunctions, walk
<1>15. CASE LsLock(t) \/ LsNext(t) \/ LsUnlock(t)
  BY <1>1, <1>4, <1>15 DEF LsLock, LsNext, LsUnlock, IsFunctions, walk
<1> QED BY <1>7, <1>8, <1>9, <1>10, <1>11, <1>12, <1>13, <1>14, <1>15 DEF Steps

(* A new file is where its path says.                                      *)
LEMMA CreatesOnPath ==
  ASSUME FileInv, NEW place \in Places, Placed(place), AllOnPath(place),
         NEW t \in Thread, NEW f \in File, Create(t, f),
         NEW q, q = [place EXCEPT ![f] = path[t]]
  PROVE  q \in Places /\ Placed(q)' /\ AllOnPath(q)'
<1> DEFINE d == dir[t]
           n == Len(entries[d])
           e == [name |-> Last(path[t]), file |-> f]
           p == path[t]
<1> HIDE DEF Path, Name
<1>1. FileTypes /\ TreeInv /\ IsFunctions /\ ThreadTypes(t) /\ OnPath(place, t)
  BY TypesAt DEF FileInv, AllOnPath
<1>2. /\ pc[t] = "create" /\ d \in Used /\ lock[d] = t /\ step[t] = Len(p)
      /\ Return(t, f) /\ UNCHANGED <<call, path, existed, step>>
  BY DEF Create, FileInv, HoldsInv, Holds
<1>3. /\ f \in File \ Used /\ d # f /\ n \in Nat
      /\ DOMAIN entries[d] = 1 .. n
      /\ Used' = Used \cup {f}
      /\ \A g \in File \ {f} : type'[g] = type[g]
      /\ type'[f] = Kind(t)
      /\ \A g \in File \ {d} : entries'[g] = entries[g]
      /\ Len(entries'[d]) = n + 1 /\ DOMAIN entries'[d] = 1 .. n + 1
      /\ \A k \in 1 .. n : entries'[d][k] = entries[d][k]
      /\ entries'[d][n + 1] = e
      /\ p \in Path
  BY CreateIs
<1>4. Used \subseteq File /\ root \in Used /\ f # NULL /\ NULL \notin Used
  BY <1>1, NullIsNoFile DEF Used, TreeInv
<1>5. /\ p \in Seq(Name) /\ Len(p) \in Nat /\ Len(p) > 0 /\ Last(p) = p[Len(p)]
  BY <1>3, PathFacts
<1>6. place[d] = SubSeq(p, 1, Len(p) - 1) /\ d # NULL
  BY <1>1, <1>2, <1>4 DEF OnPath
<1>7. Append(place[d], Last(p)) = p
  <2>1. Len(p) \in 1 .. Len(p)
    BY <1>5
  <2>2. Append(SubSeq(p, 1, Len(p) - 1), p[Len(p)]) = SubSeq(p, 1, Len(p))
    BY <1>5, <2>1, NextOne
  <2> QED BY <1>5, <1>6, <2>2, SubSeqFull
<1>8. \A g \in Used : place[g] # p
  BY <1>1, <1>2 DEF OnPath
<1>9. existed[t] = NULL
  BY <1>1, <1>8 DEF OnPath
<1>10. /\ q \in Places /\ q[f] = p
       /\ \A g \in File : g # f => q[g] = place[g]
  BY <1>3 DEF Places
<1>11. \A g \in Used : q[g] = place[g] /\ g # f
  BY <1>3, <1>4, <1>10
<1>12. \/ p \in DirPath /\ type'[f] = "T_DIRECTORY"
       \/ p \in FilePath /\ type'[f] = "T_REGULAR"
  <2>1. CallInv
    BY DEF FileInv
  <2>2. p \in IF call[t] = "open" THEN FilePath ELSE DirPath
    BY <1>2, <2>1 DEF CallInv
  <2>3. type'[f] = IF call[t] = "open" THEN "T_REGULAR" ELSE "T_DIRECTORY"
    BY <1>3 DEF Kind
  <2> QED BY <2>2, <2>3
<1> HIDE DEF d, n, p
<1>13. Placed(q)'
  <2>1. q[root] = <<>> /\ type'[root] = "T_DIRECTORY"
    BY <1>3, <1>4, <1>11 DEF Placed
  <2>2. \A g \in Used' \ {root} :
          \/ q[g] \in DirPath /\ type'[g] = "T_DIRECTORY"
          \/ q[g] \in FilePath /\ type'[g] = "T_REGULAR"
    <3> SUFFICES ASSUME NEW g \in Used' \ {root}
                 PROVE  \/ q[g] \in DirPath /\ type'[g] = "T_DIRECTORY"
                        \/ q[g] \in FilePath /\ type'[g] = "T_REGULAR"
      OBVIOUS
    <3>1. CASE g = f
      BY <3>1, <1>10, <1>12
    <3>2. CASE g # f
      <4>1. g \in Used \ {root} /\ g \in File \ {f} /\ q[g] = place[g]
        BY <3>2, <1>3, <1>4, <1>11
      <4> QED BY <4>1, <1>3 DEF Placed
    <3> QED BY <3>1, <3>2
  <2>3. \A g, h \in Used' : q[g] = q[h] => g = h
    BY <1>3, <1>8, <1>10, <1>11 DEF Placed
  <2>4. \A g \in Used' : \A m \in 0 .. Len(q[g]) : \E h \in Used' : q[h] = SubSeq(q[g], 1, m)
    <3> SUFFICES ASSUME NEW g \in Used', NEW m \in 0 .. Len(q[g])
                 PROVE  \E h \in Used' : q[h] = SubSeq(q[g], 1, m)
      OBVIOUS
    <3>1. CASE g \in Used
      <4>1. PICK h \in Used : place[h] = SubSeq(place[g], 1, m)
        BY <3>1, <1>11 DEF Placed
      <4> QED BY <3>1, <4>1, <1>3, <1>11
    <3>2. CASE g = f
      <4>1. q[g] = p /\ m \in 0 .. Len(p)
        BY <3>2, <1>10
      <4>2. CASE m = Len(p)
        <5>1. q[f] = SubSeq(q[g], 1, m)
          BY <4>1, <4>2, <1>5, <1>10, SubSeqFull
        <5> QED BY <5>1, <1>3
      <4>3. CASE m # Len(p)
        <5>1. m \in 0 .. Len(p) - 1 /\ Len(p) - 1 \in 0 .. Len(p)
          BY <4>1, <4>3, <1>5
        <5>2. Len(place[d]) = Len(p) - 1
          BY <5>1, <1>5, <1>6, BeginningIs
        <5>3. PICK h \in Used : place[h] = SubSeq(place[d], 1, m)
          BY <5>1, <5>2, <1>2 DEF Placed
        <5>4. SubSeq(SubSeq(p, 1, Len(p) - 1), 1, m) = SubSeq(p, 1, m)
          BY <5>1, <1>5, BeginningOfBeginning
        <5>5. q[h] = SubSeq(q[g], 1, m)
          BY <4>1, <5>3, <5>4, <1>6, <1>11
        <5> QED BY <5>5, <1>3
      <4> QED BY <4>2, <4>3
    <3> QED BY <3>1, <3>2, <1>3
  <2>5. \A g \in File : \A k \in DOMAIN entries'[g] :
          q[entries'[g][k].file] = Append(q[g], entries'[g][k].name)
    <3> SUFFICES ASSUME NEW g \in File, NEW k \in DOMAIN entries'[g]
                 PROVE  q[entries'[g][k].file] = Append(q[g], entries'[g][k].name)
      OBVIOUS
    <3>1. CASE g = d /\ k = n + 1
      <4>1. entries'[g][k].file = f /\ entries'[g][k].name = Last(p)
        BY <3>1, <1>3 DEF p
      <4> QED BY <3>1, <4>1, <1>2, <1>7, <1>10, <1>11
    <3>2. CASE ~ (g = d /\ k = n + 1)
      <4>1. k \in DOMAIN entries[g] /\ entries'[g][k] = entries[g][k]
        <5>1. CASE g = d
          <6>1. k \in 1 .. n
            BY <3>2, <5>1, <1>3
          <6> QED BY <5>1, <6>1, <1>3
        <5>2. CASE g # d
          BY <5>2, <1>3
        <5> QED BY <5>1, <5>2
      <4>2. entries[g][k].file \in Used /\ g \in Used
        BY <4>1, <1>1 DEF TreeInv
      <4>3. place[entries[g][k].file] = Append(place[g], entries[g][k].name)
        BY <4>1 DEF Placed
      <4> QED BY <4>1, <4>2, <4>3, <1>11
    <3> QED BY <3>1, <3>2
  <2> QED BY <2>1, <2>2, <2>3, <2>4, <2>5 DEF Placed
<1>14. OnPath(q, t)'
  <2>1. answer'[t] = f /\ pc'[t] \in {"idle", "mkdir", "opendir"} /\ (pc'[t] = "mkdir" => f = NULL)
    BY <1>1, <1>2 DEF Return, IsFunctions
  <2>2. path'[t] = p /\ existed'[t] = NULL /\ f \in Used' /\ q[f] = p
    BY <1>2, <1>3, <1>9, <1>10 DEF p
  <2> QED BY <1>4, <2>1, <2>2 DEF OnPath
<1>15. ASSUME NEW u \in Thread, u # t PROVE OnPath(q, u)'
  <2>1. /\ pc'[u] = pc[u] /\ path'[u] = path[u] /\ dir'[u] = dir[u] /\ step'[u] = step[u]
        /\ existed'[u] = existed[u] /\ answer'[u] = answer[u]
    <3>1. Others(t)
      BY <1>1, OneThread DEF Steps
    <3> QED BY <1>15, <3>1 DEF Others
  <2>2. OnPath(place, u) /\ Holds(u) /\ dir[u] \in Used \cup {NULL}
    BY <1>1 DEF AllOnPath, FileInv, HoldsInv, TreeInv
  <2>3. pc[u] \in {"walk", "create"} /\ dir[u] # NULL =>
          step[u] <= Len(path[u]) /\ q[dir[u]] = SubSeq(path[u], 1, step[u] - 1)
    BY <2>2, <1>11 DEF OnPath
  <2>4. /\ existed[u] # NULL => existed[u] \in Used' /\ q[existed[u]] = path[u]
        /\ pc[u] \in {"walk", "create"} /\ existed[u] # NULL => dir[u] # NULL
    BY <2>2, <1>3, <1>11 DEF OnPath
  <2>5. pc[u] \notin {"walk", "create"} =>
          /\ answer[u] # NULL => answer[u] \in Used' /\ q[answer[u]] = path[u]
          /\ existed[u] # NULL => answer[u] = existed[u]
    BY <2>2, <1>3, <1>11 DEF OnPath
  <2>6. pc[u] = "mkdir" => answer[u] = NULL
    BY <2>2 DEF OnPath
  <2>7. ASSUME pc[u] = "create" PROVE \A g \in Used' : q[g] # path[u]
    <3>1. dir[u] \in Used /\ lock[dir[u]] = u /\ step[u] = Len(path[u])
      BY <2>2, <2>7 DEF Holds
    <3>2. place[dir[u]] = SubSeq(path[u], 1, Len(path[u]) - 1)
      BY <2>2, <2>7, <3>1, <1>4 DEF OnPath
    <3>3. p # path[u]
      <4> SUFFICES ASSUME p = path[u] PROVE FALSE
        OBVIOUS
      <4>1. dir[u] = d
        BY <3>1, <3>2, <1>2, <1>6 DEF Placed
      <4> QED BY <3>1, <4>1, <1>2, <1>15
    <3>4. \A g \in Used : place[g] # path[u]
      BY <2>2, <2>7 DEF OnPath
    <3> QED BY <3>3, <3>4, <1>3, <1>10, <1>11
  <2> QED BY <2>1, <2>3, <2>4, <2>5, <2>6, <2>7 DEF OnPath
<1> QED BY <1>10, <1>13, <1>14, <1>15 DEF AllOnPath

LEMMA PlaceInit == Init => PlaceInv
<1> SUFFICES ASSUME Init PROVE PlaceInv
  OBVIOUS
<1> DEFINE place == [f \in File |-> <<>>]
<1>1. Used = {root} /\ type[root] = "T_DIRECTORY" /\ \A f \in File : DOMAIN entries[f] = {}
  BY NullIsNoFile DEF Init, Used
<1>2. place \in [File -> Path \cup {<<>>}] /\ place[root] = <<>>
  BY NullIsNoFile
<1>3. \A n \in 0 .. Len(<<>>) : SubSeq(<<>>, 1, n) = <<>>
  <2>1. \A n \in 0 .. Len(<<>>) : n = 0
    OBVIOUS
  <2>2. SubSeq(<<>>, 1, 0) = <<>>
    BY SubSeqEmpty
  <2> QED BY <2>1, <2>2
<1>4. Placed(place)
  BY <1>1, <1>2, <1>3 DEF Placed
<1>5. \A t \in Thread : OnPath(place, t)
  BY DEF Init, OnPath
<1> QED BY <1>2, <1>4, <1>5 DEF PlaceInv

(* A step that makes no file leaves all at their places.                   *)
LEMMA PlacesStay ==
  ASSUME NamesApart, FileInv, NEW place \in Places, Placed(place), AllOnPath(place),
         NEW t \in Thread, Calls(t) \/ Steps(t), UNCHANGED tree
  PROVE  Placed(place)' /\ AllOnPath(place)'
<1> HIDE DEF Path, Name
<1>1. Placed(place)'
  BY DEF Placed, Used, tree
<1>2. OnPath(place, t)'
  BY MovesOnPath DEF AllOnPath
<1>3. ASSUME NEW u \in Thread, u # t PROVE OnPath(place, u)'
  <2>1. /\ pc'[u] = pc[u] /\ path'[u] = path[u] /\ dir'[u] = dir[u] /\ step'[u] = step[u]
        /\ existed'[u] = existed[u] /\ answer'[u] = answer[u]
    BY <1>3, OneThread DEF FileInv, Others
  <2>2. Used' = Used /\ OnPath(place, u)
    BY DEF tree, Used, AllOnPath
  <2> QED BY <2>1, <2>2, StaysOnPath
<1> QED BY <1>1, <1>2, <1>3 DEF AllOnPath

LEMMA PlaceNext ==
  ASSUME NamesApart
  PROVE  FileInv /\ PlaceInv /\ [Next]_vars => PlaceInv'
<1> SUFFICES ASSUME FileInv, PlaceInv, [Next]_vars PROVE PlaceInv'
  OBVIOUS
<1> HIDE DEF Path, Name
<1>1. PICK place \in Places : Placed(place) /\ AllOnPath(place)
  BY DEF PlaceInv, Places, AllOnPath
<1>2. ASSUME Placed(place)', AllOnPath(place)' PROVE PlaceInv'
  BY <1>2 DEF PlaceInv, Places, AllOnPath
<1>3. CASE UNCHANGED vars
  <2>1. /\ UNCHANGED tree /\ UNCHANGED <<pc, path, dir, step, existed, answer>>
    BY <1>3 DEF vars, walk
  <2>2. Used' = Used
    BY <2>1 DEF Used, tree
  <2>3. AllOnPath(place)'
    BY <1>1, <2>1, <2>2 DEF AllOnPath, OnPath
  <2>4. Placed(place)'
    BY <1>1, <2>1 DEF Placed, Used, tree
  <2> QED BY <1>2, <2>3, <2>4
<1>4. ASSUME NEW t \in Thread, Calls(t) \/ Steps(t) PROVE PlaceInv'
  <2>1. CASE UNCHANGED tree
    BY <1>1, <1>2, <1>4, <2>1, PlacesStay
  <2>2. ASSUME NEW f \in File, Create(t, f) PROVE PlaceInv'
    <3>1. PICK q : q = [place EXCEPT ![f] = path[t]]
      OBVIOUS
    <3>2. q \in Places /\ Placed(q)' /\ AllOnPath(q)'
      BY <1>1, <2>2, <3>1, CreatesOnPath
    <3> QED BY <3>2 DEF PlaceInv, Places, AllOnPath
  <2> QED BY <1>4, <2>1, <2>2, TreeChanges
<1> QED BY <1>3, <1>4 DEF Next

(* Where no name begins another, file_open finds and makes every file at   *)
(* its path: place is the tree as its clients see it.                      *)
THEOREM FilesInPlace ==
  ASSUME NamesApart
  PROVE  Spec => []PlaceInv
BY FileInit, FileNext, FilesInvariant, PlaceInit, PlaceNext, PTL DEF Spec

(* The names in a directory differ, and each file has its one entry.       *)
THEOREM EntriesAreATree ==
  ASSUME NamesApart
  PROVE  Spec => []EntriesFormATree
<1>1. FileInv /\ PlaceInv => EntriesFormATree
  <2> SUFFICES ASSUME FileInv, PlaceInv PROVE EntriesFormATree
    OBVIOUS
  <2> HIDE DEF Path, Name
  <2>1. FileTypes /\ TreeInv /\ ReadInv /\ CallInv /\ root \in File /\ Used \subseteq File
    BY NullIsNoFile DEF FileInv, Used
  <2>2. PICK place \in Places : Placed(place)
    BY DEF PlaceInv, Places
  <2>3. TypeOK
    <3>1. \A t \in Thread : cursor[t].next # 0 => cursor[t].next \in DOMAIN entries[cursor[t].dir]
      BY <2>1 DEF ReadInv, Reads, CallInv
    <3>2. \A t \in Thread : pc[t] = "opendir" => dir[t] \in File
      BY <2>1 DEF TreeInv
    <3> QED BY <2>1, <3>1, <3>2 DEF TypeOK, FileTypes
  <2>4. ASSUME NEW d \in File, NEW k \in DOMAIN entries[d], NEW l \in DOMAIN entries[d],
               entries[d][k].name = entries[d][l].name
        PROVE  k = l
    <3>1. /\ place[entries[d][k].file] = Append(place[d], entries[d][k].name)
          /\ place[entries[d][l].file] = Append(place[d], entries[d][l].name)
      BY <2>2 DEF Placed
    <3>2. entries[d][k].file \in Used /\ entries[d][l].file \in Used
      BY <2>1 DEF TreeInv
    <3>4. place[entries[d][k].file] = place[entries[d][l].file]
      BY <3>1, <2>4
    <3>5. \A f, g \in Used : place[f] = place[g] => f = g
      BY <2>2 DEF Placed
    <3>3. entries[d][k].file = entries[d][l].file
      BY <3>2, <3>4, <3>5
    <3> QED BY <3>3, <2>1 DEF TreeInv
  <2>5. ASSUME NEW f \in File
        PROVE  Cardinality(UNION {{<<d, k>> : k \in {l \in DOMAIN entries[d] : entries[d][l].file = f}} :
                                  d \in File})
                 = IF type[f] = "unused" \/ f = root THEN 0 ELSE 1
    <3> DEFINE places == UNION {{<<d, k>> : k \in {l \in DOMAIN entries[d] : entries[d][l].file = f}} :
                                d \in File}
    <3>1. \A x : x \in places <=>
            \E d \in File : \E k \in DOMAIN entries[d] : entries[d][k].file = f /\ x = <<d, k>>
      OBVIOUS
    <3> HIDE DEF places
    <3>2. CASE f \in Used /\ f # root
      <4>1. PICK d \in Used : \E k \in DOMAIN entries[d] : entries[d][k].file = f
        BY <3>2, <2>1 DEF TreeInv, Child
      <4>2. PICK k \in DOMAIN entries[d] : entries[d][k].file = f
        BY <4>1
      <4>3. d \in File /\ <<d, k>> \in places
        BY <2>1, <3>1, <4>2
      <4>4. \A x \in places : x = <<d, k>>
        BY <2>1, <3>1, <4>2, <4>3 DEF TreeInv
      <4>5. places = {<<d, k>>}
        BY <4>3, <4>4
      <4>6. Cardinality(places) = 1
        BY <4>5, FS_Singleton
      <4> QED BY <4>6, <3>2 DEF places, Used
    <3>3. CASE ~ (f \in Used /\ f # root)
      <4>1. \A d \in File : \A k \in DOMAIN entries[d] : entries[d][k].file # f
        BY <3>3, <2>1 DEF TreeInv
      <4>2. places = {}
        BY <3>1, <4>1
      <4>3. Cardinality(places) = 0
        BY <4>2, FS_EmptySet
      <4> QED BY <4>3, <3>3 DEF places, Used
    <3> QED BY <3>2, <3>3
  <2> QED BY <2>3, <2>4, <2>5 DEF EntriesFormATree
<1> QED BY <1>1, FilesInvariant, FilesInPlace, PTL

(* A call finds what was at its path when it began, and what it has found  *)
(* is what the path leads to when it returns.                              *)
THEOREM LookupsSeeWhatExists ==
  ASSUME NamesApart
  PROVE  Spec => []LookupSeesWhatExists
<1>1. FileInv /\ PlaceInv => LookupSeesWhatExists
  <2> SUFFICES ASSUME FileInv, PlaceInv, NEW t \in Thread,
                      pc[t] \in {"mkdir", "opendir", "idle"}
               PROVE  /\ existed[t] # NULL => answer[t] = existed[t]
                      /\ answer[t] # NULL => answer[t] = Resolve(path[t])
    BY DEF LookupSeesWhatExists
  <2> HIDE DEF Path, Name
  <2>1. PICK place \in Places : Placed(place) /\ AllOnPath(place)
    BY DEF PlaceInv, Places, AllOnPath
  <2>2. /\ existed[t] # NULL => answer[t] = existed[t]
        /\ answer[t] # NULL => answer[t] \in Used /\ place[answer[t]] = path[t]
    BY <2>1 DEF AllOnPath, OnPath
  <2>3. path[t] \in Path \cup {<<>>}
    BY TypesAt DEF FileInv, ThreadTypes
  <2>4. \A f \in Used : place[f] = path[t] => Resolve(path[t]) = f
    BY <2>1, <2>3, ResolveIs
  <2> QED BY <2>2, <2>4
<1> QED BY <1>1, FilesInvariant, FilesInPlace, PTL

-----------------------------------------------------------------------------
(* The archive.                                                            *)

(* There is a file at path p.                                              *)
There(place, p) == \E f \in Used : place[f] = p

(* The main thread is making node n, or has made it.                       *)
Making(place, n) ==
  /\ \A m \in ToSet(archive) : m # n /\ ~IsStrictPrefix(m.path, n.path)
  /\ path[main] = n.path /\ call[main] = IF n.directory THEN "mkdir" ELSE "open"
  /\ pc[main] \in {"idle", "walk", "create", "mkdir"}
  /\ pc[main] \in {"create", "idle"} \/ ~n.directory => creat[main]
  /\ pc[main] # "idle" => ~There(place, n.path)
  /\ pc[main] \in {"walk", "create"} => dir[main] # NULL
  /\ pc[main] = "idle" => There(place, n.path) /\ answer[main] # NULL

(* What is not in the archive any more is in the tree, and what is left of *)
(* it is in order.                                                         *)
Loaded(place) ==
  /\ ~halted
  /\ archive \in Seq(Nodes)
  /\ loading \in {<<>>} \cup {<<n>> : n \in Nodes}
  /\ \A n \in Nodes \ (ToSet(archive) \cup ToSet(loading)) : There(place, n.path)
  /\ \A n \in ToSet(archive) : ~There(place, n.path)
  /\ \A j, k \in DOMAIN archive : j # k =>
       /\ archive[j] # archive[k]
       /\ IsStrictPrefix(archive[j].path, archive[k].path) => j < k
  /\ loading = <<>> => pc[main] = "idle"
  /\ \A n \in Nodes : loading = <<n>> => Making(place, n)

LoadInv == \E place \in Places : Placed(place) /\ AllOnPath(place) /\ Loaded(place)

(* The loader is one of the clients of the file system.                    *)
LEMMA LoadNextIs ==
  ASSUME main \in Thread, LoadNext
  PROVE  Calls(main) \/ Steps(main) \/ UNCHANGED vars
<1>1. CASE LoadNode
  <2>1. archive # <<>> /\ (Mkdir(main, Head(archive).path) \/ Open(main, Head(archive).path, TRUE))
    BY <1>1 DEF LoadNode
  <2>2. Mkdir(main, Head(archive).path) => Head(archive).path \in DirPath
    BY DEF Mkdir
  <2>3. Open(main, Head(archive).path, TRUE) => Head(archive).path \in FilePath
    BY DEF Open
  <2> QED BY <2>1, <2>2, <2>3 DEF Calls
<1>2. CASE LoadStep
  BY <1>2 DEF LoadStep, Steps
<1>3. CASE NodeLoaded
  BY <1>3 DEF NodeLoaded
<1> QED BY <1>1, <1>2, <1>3 DEF LoadNext

(* initramfs_load does nothing to the tree but what a thread may do, so    *)
(* that all that is proved of the file system holds while it runs.         *)
THEOREM LoaderUsesFiles ==
  ASSUME main \in Thread
  PROVE  LoadSpec => Spec
<1>1. LoadInit => Init
  BY DEF LoadInit
<1>2. [LoadNext]_<<vars, initramfs>> => [Next]_vars
  BY LoadNextIs DEF Next
<1> QED BY <1>1, <1>2, PTL DEF LoadSpec, Spec

(* A component before the last has been loaded.                            *)
LEMMA DirectoriesLoaded ==
  ASSUME NEW place \in Places, Loaded(place), NEW n \in Nodes, loading = <<n>>,
         NEW m \in 1 .. Len(n.path) - 1
  PROVE  There(place, SubSeq(n.path, 1, m))
<1> DEFINE p == n.path
           d == [directory |-> TRUE, path |-> SubSeq(p, 1, m)]
<1> HIDE DEF Path, Name
<1>1. p \in Path
  BY DEF Nodes, Path
<1>2. p \in Seq(Name) /\ Len(p) \in Nat /\ SubSeq(p, 1, m) \in DirPath
  <2>1. \A k \in 1 .. Len(p) - 1 : SubSeq(p, 1, k) \in DirPath
    BY <1>1, PathAssumption DEF Path
  <2> QED BY <1>1, <2>1, PathFacts
<1> HIDE DEF p
<1>3. d \in Nodes
  BY <1>2 DEF Nodes
<1>4. m \in 0 .. Len(p) /\ m # Len(p)
  BY <1>2 DEF p
<1>5. Len(d.path) = m
  BY <1>2, <1>4, BeginningIs
<1>6. IsStrictPrefix(d.path, p)
  <2>1. d.path \in Seq(Name) /\ d.path = SubSeq(p, 1, m)
    BY <1>2, <1>4, BeginningIs
  <2>2. SubSeq(d.path, 1, m) = d.path
    BY <1>5, <2>1, SubSeqFull
  <2> HIDE DEF d
  <2> QED BY <1>4, <1>5, <2>1, <2>2 DEF IsStrictPrefix, IsPrefix
<1>7. d \notin ToSet(archive)
  BY <1>6 DEF Loaded, Making, p
<1>8. d \notin ToSet(loading)
  <2>1. d # n
    BY <1>4, <1>5 DEF p
  <2>2. ToSet(loading) = {n}
    BY DEF ToSet
  <2> QED BY <2>1, <2>2
<1>9. There(place, d.path)
  BY <1>3, <1>7, <1>8 DEF Loaded
<1> QED BY <1>9 DEF p

(* What is left of the archive when its first node is taken.               *)
LEMMA TakeNode ==
  ASSUME NEW s \in Seq(Nodes), s # <<>>,
         \A j, k \in DOMAIN s : j # k =>
           /\ s[j] # s[k]
           /\ IsStrictPrefix(s[j].path, s[k].path) => j < k
  PROVE  /\ Head(s) \in Nodes /\ Tail(s) \in Seq(Nodes)
         /\ ToSet(s) = {Head(s)} \cup ToSet(Tail(s))
         /\ \A m \in ToSet(Tail(s)) : m # Head(s) /\ ~IsStrictPrefix(m.path, Head(s).path)
         /\ \A j, k \in DOMAIN Tail(s) : j # k =>
              /\ Tail(s)[j] # Tail(s)[k]
              /\ IsStrictPrefix(Tail(s)[j].path, Tail(s)[k].path) => j < k
<1> HIDE DEF Nodes
<1> DEFINE r == Tail(s)
<1>1. Len(s) \in Nat /\ Len(s) > 0 /\ DOMAIN s = 1 .. Len(s) /\ Head(s) = s[1] /\ s[1] \in Nodes
  BY EmptySeq, ElementOfSeq
<1>2. /\ r \in Seq(Nodes) /\ Len(r) = Len(s) - 1 /\ DOMAIN r = 1 .. Len(s) - 1
      /\ \A j \in 1 .. Len(s) - 1 : r[j] = s[j + 1]
  BY <1>1
<1> HIDE DEF r
<1>3. \A j \in DOMAIN r : j + 1 \in DOMAIN s /\ j + 1 # 1 /\ r[j] = s[j + 1] /\ j \in Nat
  BY <1>1, <1>2
<1>4. \A k \in DOMAIN s : k # 1 => k - 1 \in DOMAIN r /\ s[k] = r[k - 1]
  BY <1>1, <1>2
<1>5. ToSet(s) = {Head(s)} \cup ToSet(r)
  <2>1. 1 \in DOMAIN s
    BY <1>1
  <2>2. \A x \in ToSet(s) : x = s[1] \/ \E j \in DOMAIN r : x = r[j]
    <3> SUFFICES ASSUME NEW k \in DOMAIN s PROVE s[k] = s[1] \/ \E j \in DOMAIN r : s[k] = r[j]
      BY DEF ToSet
    <3> QED BY <1>4
  <2>3. \A j \in DOMAIN r : r[j] \in ToSet(s)
    BY <1>3 DEF ToSet
  <2>4. s[1] \in ToSet(s)
    BY <2>1 DEF ToSet
  <2> QED BY <1>1, <2>2, <2>3, <2>4 DEF ToSet
<1>6. ASSUME NEW j \in DOMAIN r
      PROVE  r[j] # s[1] /\ ~IsStrictPrefix(r[j].path, s[1].path)
  <2>1. PICK a \in DOMAIN s : a = j + 1 /\ a # 1 /\ r[j] = s[a] /\ a \in Nat
    BY <1>3
  <2>2. 1 \in DOMAIN s /\ ~(a < 1)
    BY <1>1, <2>1
  <2>3. s[a] # s[1] /\ (IsStrictPrefix(s[a].path, s[1].path) => a < 1)
    BY <2>1, <2>2, Zenon
  <2> QED BY <2>1, <2>2, <2>3
<1>7. ASSUME NEW j \in DOMAIN r, NEW k \in DOMAIN r, j # k
      PROVE  r[j] # r[k] /\ (IsStrictPrefix(r[j].path, r[k].path) => j < k)
  <2>1. PICK a \in DOMAIN s : a = j + 1 /\ r[j] = s[a] /\ j \in Nat
    BY <1>3
  <2>2. PICK b \in DOMAIN s : b = k + 1 /\ r[k] = s[b] /\ k \in Nat
    BY <1>3
  <2>3. a # b /\ (a < b => j < k)
    BY <1>7, <2>1, <2>2
  <2>4. s[a] # s[b] /\ (IsStrictPrefix(s[a].path, s[b].path) => a < b)
    BY <2>3, Zenon
  <2> QED BY <2>1, <2>2, <2>3, <2>4
<1>8. \A m \in ToSet(r) : m # Head(s) /\ ~IsStrictPrefix(m.path, Head(s).path)
  BY <1>1, <1>6 DEF ToSet
<1> QED BY <1>1, <1>2, <1>5, <1>7, <1>8 DEF r

LEMMA LoadStarts ==
  ASSUME main \in Thread, IsFiniteSet(Nodes), LoadInit
  PROVE  LoadInv
<1> HIDE DEF Path, Name
<1>1. PICK place \in Places : Placed(place) /\ AllOnPath(place)
  BY PlaceInit DEF LoadInit, PlaceInv, Places, AllOnPath
<1>2. \A n \in Nodes : n.path # <<>>
  BY PathAssumption DEF Nodes
<1>3. \A n \in Nodes : ~There(place, n.path)
  <2>1. Used = {root} /\ place[root] = <<>>
    BY <1>1, NullIsNoFile DEF Placed, LoadInit, Init, Used
  <2> QED BY <1>2, <2>1 DEF There
<1> HIDE DEF Nodes
<1>4. /\ archive \in SetToSeqs(Nodes)
      /\ \A j, k \in DOMAIN archive : IsStrictPrefix(archive[j].path, archive[k].path) => j < k
      /\ loading = <<>> /\ halted = FALSE /\ pc[main] = "idle"
  BY DEF LoadInit, Init, Archives
<1> DEFINE D == 1 .. Cardinality(Nodes)
<1>5. /\ archive \in [D -> Nodes]
      /\ \A j, k \in D : j # k => archive[j] # archive[k]
      /\ Cardinality(Nodes) \in Nat
  BY <1>4, FS_CardinalityType DEF SetToSeqs
<1>6. archive \in Seq(Nodes)
  BY <1>5
<1>7. ToSet(archive) = Nodes
  <2>1. archive \in Injection(D, Nodes)
    BY <1>5 DEF Injection, IsInjective
  <2>2. Cardinality(D) = Cardinality(Nodes)
    BY <1>5, FS_Interval
  <2>3. archive \in Surjection(D, Nodes)
    BY <2>1, <2>2, FS_Injection
  <2>4. \A n \in Nodes : \E j \in D : archive[j] = n
    BY <2>3 DEF Surjection
  <2> QED BY <1>5, <2>4 DEF ToSet
<1>8. Loaded(place)
  <2>1. DOMAIN archive = D
    BY <1>5
  <2>2. ~halted /\ loading \in {<<>>} \cup {<<n>> : n \in Nodes} /\ \A n : loading # <<n>>
    BY <1>4
  <2>3. \A n \in Nodes \ (ToSet(archive) \cup ToSet(loading)) : There(place, n.path)
    BY <1>7
  <2>4. \A n \in ToSet(archive) : ~There(place, n.path)
    BY <1>3, <1>7
  <2> QED BY <1>4, <1>5, <1>6, <2>1, <2>2, <2>3, <2>4 DEF Loaded
<1> QED BY <1>1, <1>8 DEF LoadInv

(* A call of the loader begins: nothing of the tree changes.               *)
LEMMA LoadTakes ==
  ASSUME NamesApart, main \in Thread, FileInv, LoadNode,
         NEW place \in Places, Placed(place), AllOnPath(place), Loaded(place)
  PROVE  LoadInv'
<1> HIDE DEF Path, Name
<1>0. archive # <<>> /\ archive \in Seq(Nodes) /\ Head(archive) \in Nodes
  <2>1. archive # <<>> /\ archive \in Seq(Nodes)
    BY DEF LoadNode, Loaded
  <2> QED BY <2>1
<1>1. PICK n \in Nodes, r \in Seq(Nodes) : n = Head(archive) /\ r = Tail(archive)
  <2>1. Tail(archive) \in Seq(Nodes)
    BY <1>0
  <2> QED BY <1>0, <2>1
<1>2. /\ loading = <<>> /\ ~halted /\ ~halted' /\ loading' = <<n>> /\ archive' = r
      /\ r \in Seq(Nodes) /\ ToSet(archive) = {n} \cup ToSet(r)
      /\ \A m \in ToSet(r) : m # n /\ ~IsStrictPrefix(m.path, n.path)
      /\ \A j, k \in DOMAIN r : j # k =>
           /\ r[j] # r[k]
           /\ IsStrictPrefix(r[j].path, r[k].path) => j < k
  <2>1. \A j, k \in DOMAIN archive : j # k =>
          /\ archive[j] # archive[k]
          /\ IsStrictPrefix(archive[j].path, archive[k].path) => j < k
    BY DEF Loaded
  <2>2. loading = <<>> /\ ~halted /\ ~halted' /\ loading' = <<n>> /\ archive' = r
    BY <1>1 DEF LoadNode, Loaded
  <2> QED BY <1>0, <1>1, <2>1, <2>2, TakeNode
<1>3. /\ Calls(main)
      /\ Start(main, IF n.directory THEN "mkdir" ELSE "open", n.path, ~n.directory)
  <2>1. CASE n.directory
    <3>1. Mkdir(main, n.path)
      BY <1>1, <2>1 DEF LoadNode
    <3> QED BY <2>1, <3>1 DEF Calls, Mkdir
  <2>2. CASE ~n.directory
    <3>1. Open(main, n.path, TRUE)
      BY <1>1, <2>2 DEF LoadNode
    <3> QED BY <2>2, <3>1 DEF Calls, Open
  <2> QED BY <2>1, <2>2
<1>4. IsFunctions /\ root # NULL
  BY TypesAt, NullIsNoFile DEF FileInv
<1>5. /\ UNCHANGED tree /\ pc'[main] = "walk" /\ path'[main] = n.path /\ dir'[main] = root
      /\ call'[main] = (IF n.directory THEN "mkdir" ELSE "open") /\ creat'[main] = ~n.directory
  BY <1>3, <1>4 DEF Start, IsFunctions
<1>6. Placed(place)' /\ AllOnPath(place)'
  BY <1>3, <1>5, PlacesStay
<1>7. Used' = Used /\ \A p : There(place, p)' <=> There(place, p)
  BY <1>5 DEF There, Used, tree
<1>8. ~There(place, n.path)
  BY <1>2 DEF Loaded
<1>9. Making(place, n)'
  <2>1. \A m \in ToSet(archive') : m # n /\ ~IsStrictPrefix(m.path, n.path)
    BY <1>2
  <2>2. ~n.directory => creat'[main]
    BY <1>5
  <2>3. pc'[main] = "walk" /\ ~There(place, n.path)'
    BY <1>5, <1>7, <1>8
  <2>4. /\ pc'[main] \in {"idle", "walk", "create", "mkdir"}
        /\ pc'[main] # "create" /\ pc'[main] # "idle" /\ dir'[main] # NULL
    BY <1>4, <1>5
  <2> QED BY <1>5, <2>1, <2>2, <2>3, <2>4 DEF Making
<1>10. ToSet(loading') = {n}
  BY <1>2 DEF ToSet
<1>11. \A m \in Nodes \ (ToSet(r) \cup {n}) : There(place, m.path)
  <2>1. ToSet(loading) = {}
    BY <1>2 DEF ToSet
  <2> QED BY <1>2, <2>1 DEF Loaded
<1>12. \A m \in ToSet(r) : ~There(place, m.path)
  BY <1>2 DEF Loaded
<1>13. \A m : loading' = <<m>> => m = n
  BY <1>2
<1>14. loading' # <<>> /\ loading' \in {<<m>> : m \in Nodes}
  BY <1>2
<1>15. Loaded(place)'
  <2>1. \A m \in Nodes : loading' = <<m>> => Making(place, m)'
    BY <1>9, <1>13
  <2>2. \A m \in Nodes \ (ToSet(archive') \cup ToSet(loading')) : There(place, m.path)'
    BY <1>2, <1>7, <1>10, <1>11
  <2>3. \A m \in ToSet(archive') : ~There(place, m.path)'
    BY <1>2, <1>7, <1>12
  <2> QED BY <1>2, <1>14, <2>1, <2>2, <2>3 DEF Loaded
<1> QED BY <1>6, <1>15 DEF LoadInv

(* A call has ended: its node was made.                                    *)
LEMMA LoadEnds ==
  ASSUME NodeLoaded, NEW place \in Places, Placed(place), AllOnPath(place), Loaded(place)
  PROVE  LoadInv'
<1> HIDE DEF Path, Name
<1>1. PICK n \in Nodes : loading = <<n>>
  BY DEF NodeLoaded, Loaded
<1>2. Making(place, n) /\ pc[main] = "idle"
  BY <1>1 DEF Loaded, NodeLoaded
<1>3. Made
  BY <1>2 DEF Made, Making
<1>4. /\ ~halted' /\ loading' = <<>> /\ archive' = archive /\ pc' = pc /\ type' = type
      /\ UNCHANGED <<entries, path, dir, step, existed, answer>>
  BY <1>3 DEF NodeLoaded, vars, tree, walk
<1>5. Used' = Used /\ \A p : There(place, p)' <=> There(place, p)
  BY <1>4 DEF There, Used
<1>6. Placed(place)' /\ AllOnPath(place)'
  BY <1>4, <1>5 DEF Placed, AllOnPath, OnPath
<1>7. ToSet(loading) = {n} /\ ToSet(loading') = {}
  BY <1>1, <1>4 DEF ToSet
<1>8. \A m \in Nodes \ ToSet(archive) : There(place, m.path)
  BY <1>2, <1>7 DEF Loaded, Making
<1>9. \A m : loading' # <<m>>
  BY <1>4
<1>10. Loaded(place)'
  BY <1>2, <1>4, <1>5, <1>7, <1>8, <1>9 DEF Loaded
<1> QED BY <1>6, <1>10 DEF LoadInv

(* A node of the archive is the only one with its path.                    *)
LEMMA OnePathEach ==
  ASSUME NEW m \in Nodes, NEW n \in Nodes, m.path = n.path
  PROVE  m = n
<1>1. \A x \in Nodes : /\ x = [directory |-> x.directory, path |-> x.path]
                       /\ x.directory <=> x.path \in DirPath
                       /\ x.directory \in BOOLEAN
  <2>1. ASSUME NEW x \in [directory : {TRUE}, path : DirPath]
        PROVE  x = [directory |-> TRUE, path |-> x.path] /\ x.path \in DirPath
    OBVIOUS
  <2>2. ASSUME NEW x \in [directory : {FALSE}, path : FilePath]
        PROVE  x = [directory |-> FALSE, path |-> x.path] /\ x.path \in FilePath
    OBVIOUS
  <2>3. DirPath \cap FilePath = {}
    BY PathAssumption
  <2>4. ASSUME NEW x, x = [directory |-> TRUE, path |-> x.path] PROVE x.directory = TRUE
    BY <2>4
  <2>5. ASSUME NEW x, x = [directory |-> FALSE, path |-> x.path] PROVE x.directory = FALSE
    BY <2>5
  <2> QED BY <2>1, <2>2, <2>3, <2>4, <2>5 DEF Nodes
<1>2. m.directory = n.directory
  BY <1>1
<1> QED BY <1>1, <1>2

(* The main thread is inside a call: it has not come to its node's path,   *)
(* or it makes the file there.                                             *)
LEMMA LoadMoves ==
  ASSUME NamesApart, main \in Thread, FileInv, LoadStep,
         NEW place \in Places, Placed(place), AllOnPath(place), Loaded(place)
  PROVE  LoadInv'
<1> HIDE DEF Path, Name
<1>1. pc[main] # "idle" /\ (Calls(main) \/ Steps(main)) /\ UNCHANGED initramfs
  <2>1. Steps(main) /\ UNCHANGED initramfs
    BY DEF LoadStep, Steps
  <2>2. pc[main] # "idle"
    BY DEF LoadStep, Walk, WalkFails, Find, MkdirCreates, Create
  <2> QED BY <2>1, <2>2
<1>2. PICK n \in Nodes : loading = <<n>>
  BY <1>1 DEF Loaded
<1>3. /\ Making(place, n) /\ path[main] = n.path /\ ~There(place, n.path)
      /\ archive' = archive /\ loading' = loading /\ halted' = halted
  BY <1>1, <1>2 DEF Loaded, Making, initramfs
<1>4. /\ IsFunctions /\ path[main] \in Path \cup {<<>>} /\ root # NULL
      /\ dir[main] \in File \cup {NULL} /\ FileTypes
  BY TypesAt, NullIsNoFile DEF FileInv, ThreadTypes
<1>5. OnPath(place, main)
  BY DEF AllOnPath
<1>6. ASSUME NEW q \in Places, Placed(q)', AllOnPath(q)', Making(q, n)',
             \A p : There(q, p)' <=> There(place, p) \/ (pc'[main] = "idle" /\ p = n.path)
      PROVE  LoadInv'
  <2>1. \A m \in Nodes \ (ToSet(archive) \cup ToSet(loading)) : There(q, m.path)'
    BY <1>6 DEF Loaded
  <2>2. \A m \in ToSet(archive) : ~There(q, m.path)'
    <3>1. SUFFICES ASSUME NEW m \in ToSet(archive) PROVE m.path # n.path
      BY <1>6 DEF Loaded
    <3>2. m \in Nodes
      BY DEF Loaded, ToSet
    <3>3. m # n
      BY <1>3 DEF Making
    <3> QED BY <3>2, <3>3, OnePathEach
  <2>3. \A m : loading' = <<m>> => m = n
    BY <1>2, <1>3
  <2>4. loading' # <<>>
    BY <1>2, <1>3
  <2>5. Loaded(q)'
    BY <1>3, <1>6, <2>1, <2>2, <2>3, <2>4 DEF Loaded
  <2> QED BY <1>6, <2>5 DEF LoadInv
<1>7. ASSUME UNCHANGED tree, pc'[main] # "idle", path'[main] = path[main], call'[main] = call[main],
             pc'[main] \in {"walk", "create", "mkdir"},
             pc'[main] = "create" \/ ~n.directory => creat'[main],
             pc'[main] \in {"walk", "create"} => dir'[main] # NULL
      PROVE  LoadInv'
  <2>1. Placed(place)' /\ AllOnPath(place)'
    BY <1>1, <1>7, PlacesStay
  <2>2. \A p : There(place, p)' <=> There(place, p)
    BY <1>7 DEF There, Used, tree
  <2>3. Making(place, n)'
    BY <1>3, <1>7, <2>2 DEF Making
  <2> QED BY <1>6, <1>7, <2>1, <2>2, <2>3
<1>8. ASSUME pc[main] = "walk"
      PROVE  /\ dir[main] # NULL /\ Len(n.path) \in Nat /\ step[main] \in 1 .. Len(n.path)
             /\ step[main] < Len(n.path) => PathStep(dir[main], path[main][step[main]]) # NULL
             /\ step[main] = Len(n.path) => PathStep(dir[main], path[main][step[main]]) = NULL
  <2> DEFINE f == PathStep(dir[main], path[main][step[main]])
  <2>1. dir[main] # NULL
    BY <1>3, <1>8 DEF Making
  <2>2. Len(n.path) \in Nat /\ step[main] \in 1 .. Len(n.path) /\ n.path \in Seq(Name)
    BY <1>3, <1>5, <1>8, <2>1, WalksDirectories
  <2>3. /\ f # NULL => f \in Used /\ place[f] = SubSeq(n.path, 1, step[main])
        /\ \A g \in Used : place[g] = SubSeq(n.path, 1, step[main]) => f = g
    BY <1>3, <1>5, <1>8, <2>1, WalkFinds
  <2> HIDE DEF f
  <2>4. ASSUME step[main] < Len(n.path) PROVE f # NULL
    <3>1. step[main] \in 1 .. Len(n.path) - 1
      BY <2>2, <2>4
    <3>2. There(place, SubSeq(n.path, 1, step[main]))
      BY <1>2, <3>1, DirectoriesLoaded
    <3>3. NULL \notin Used
      BY NullIsNoFile DEF Used
    <3> QED BY <2>3, <3>2, <3>3 DEF There
  <2>5. ASSUME step[main] = Len(n.path) PROVE f = NULL
    <3>1. SubSeq(n.path, 1, step[main]) = n.path
      BY <2>2, <2>5, SubSeqFull
    <3> QED BY <1>3, <2>3, <3>1 DEF There
  <2> QED BY <2>1, <2>2, <2>4, <2>5 DEF f
<1>9. CASE Walk(main)
  <2>1. /\ pc[main] = "walk" /\ step[main] < Len(n.path)
        /\ UNCHANGED <<tree, pc, call, path, creat>>
        /\ dir'[main] = PathStep(dir[main], path[main][step[main]])
    BY <1>3, <1>4, <1>9 DEF Walk, IsFunctions
  <2>2. dir'[main] # NULL
    BY <1>8, <2>1
  <2>3. ~n.directory => creat'[main]
    BY <1>3, <2>1 DEF Making
  <2> QED BY <1>7, <2>1, <2>2, <2>3
<1>10. CASE WalkFails(main)
  BY <1>8, <1>10 DEF WalkFails
<1>11. CASE Find(main)
  <2>1. pc[main] = "walk" /\ step[main] = Len(n.path) /\ UNCHANGED <<tree, call, path, creat>>
    BY <1>3, <1>11 DEF Find
  <2>2. PathStep(dir[main], path[main][step[main]]) = NULL /\ dir[main] # NULL
    BY <1>8, <2>1
  <2>3. CASE creat[main]
    <3>1. pc'[main] = "create" /\ dir' = dir
      BY <1>4, <1>11, <2>2, <2>3 DEF Find, IsFunctions
    <3> QED BY <1>7, <2>1, <2>2, <2>3, <3>1
  <2>4. CASE ~creat[main]
    <3>1. n.directory /\ call[main] = "mkdir"
      BY <1>3, <2>1, <2>4 DEF Making
    <3>2. Return(main, NULL)
      BY <1>11, <2>2, <2>4 DEF Find
    <3>3. pc'[main] = "mkdir"
      BY <1>4, <2>4, <3>1, <3>2 DEF Return, IsFunctions
    <3> QED BY <1>7, <2>1, <3>1, <3>3
  <2> QED BY <2>3, <2>4
<1>12. CASE MkdirCreates(main)
  <2>1. /\ pc'[main] = "walk" /\ creat'[main] /\ dir'[main] = root
        /\ UNCHANGED <<tree, call, path>>
    BY <1>4, <1>12 DEF MkdirCreates, IsFunctions
  <2> QED BY <1>4, <1>7, <2>1
<1>13. ASSUME NEW f \in File, Create(main, f) PROVE LoadInv'
  <2>1. PICK q : q = [place EXCEPT ![f] = path[main]]
    OBVIOUS
  <2>2. q \in Places /\ Placed(q)' /\ AllOnPath(q)'
    BY <1>13, <2>1, CreatesOnPath
  <2>3. f \notin Used /\ Used' = Used \cup {f}
    BY <1>13, CreateIs
  <2>4. q[f] = n.path /\ \A g \in Used : q[g] = place[g]
    <3>1. DOMAIN place = File /\ Used \subseteq File
      BY DEF Places, Used
    <3> QED BY <1>3, <2>1, <2>3, <3>1
  <2>5. \A p : There(q, p)' <=> There(place, p) \/ p = n.path
    BY <2>3, <2>4 DEF There
  <2>6. /\ Return(main, f) /\ f # NULL /\ pc[main] = "create" /\ creat[main]
        /\ UNCHANGED <<call, path, creat>>
    BY <1>3, <1>13, NullIsNoFile DEF Create, Making
  <2>7. pc'[main] = "idle" /\ answer'[main] = f
    BY <1>3, <1>4, <2>6 DEF Return, IsFunctions, Making
  <2>8. Making(q, n)'
    BY <1>3, <2>5, <2>6, <2>7 DEF Making
  <2> QED BY <1>6, <2>2, <2>5, <2>7, <2>8
<1> QED BY <1>9, <1>10, <1>11, <1>12, <1>13 DEF LoadStep

LEMMA LoadNextKeeps ==
  ASSUME NamesApart, main \in Thread
  PROVE  FileInv /\ LoadInv /\ [LoadNext]_<<vars, initramfs>> => LoadInv'
<1> SUFFICES ASSUME FileInv, LoadInv, [LoadNext]_<<vars, initramfs>> PROVE LoadInv'
  OBVIOUS
<1> HIDE DEF Path, Name
<1>1. PICK place \in Places : Placed(place) /\ AllOnPath(place) /\ Loaded(place)
  BY DEF LoadInv
<1>2. CASE LoadNode
  BY <1>1, <1>2, LoadTakes
<1>3. CASE LoadStep
  BY <1>1, <1>3, LoadMoves
<1>4. CASE NodeLoaded
  BY <1>1, <1>4, LoadEnds
<1>5. CASE UNCHANGED <<vars, initramfs>>
  <2>1. /\ UNCHANGED <<type, entries, pc, call, path, creat, dir, step, existed, answer>>
        /\ UNCHANGED <<archive, loading, halted>>
    BY <1>5 DEF vars, tree, walk, initramfs
  <2>2. Used' = Used /\ \A p : There(place, p)' <=> There(place, p)
    BY <2>1 DEF There, Used
  <2>3. Placed(place)' /\ AllOnPath(place)'
    BY <1>1, <2>1, <2>2 DEF Placed, AllOnPath, OnPath
  <2>4. \A n \in Nodes : Making(place, n)' <=> Making(place, n)
    BY <2>1, <2>2 DEF Making
  <2>5. Loaded(place)'
    BY <1>1, <2>1, <2>2, <2>4 DEF Loaded
  <2> QED BY <2>3, <2>5 DEF LoadInv
<1> QED BY <1>2, <1>3, <1>4, <1>5 DEF LoadNext

(* Where no name begins another, all that has left the archive is in the   *)
(* tree or being made.                                                     *)
THEOREM ArchiveInTree ==
  ASSUME NamesApart, main \in Thread, IsFiniteSet(Nodes)
  PROVE  LoadSpec => []LoadInv
BY LoadStarts, LoadNextKeeps, LoaderUsesFiles, FilesInvariant, PTL DEF LoadSpec

(* With enough memory the kernel does not halt for a node that cannot be   *)
(* made: that one name begins another is all that run initramfs needs to   *)
(* violate it.                                                             *)
THEOREM ArchivesLoad ==
  ASSUME NamesApart, main \in Thread, IsFiniteSet(Nodes)
  PROVE  LoadSpec => []EveryArchiveLoads
<1>1. LoadInv => EveryArchiveLoads
  BY DEF LoadInv, Loaded, EveryArchiveLoads
<1> QED BY <1>1, ArchiveInTree, PTL

(* When initramfs_load has come to the archive's end, each node's path     *)
(* leads to a file of its own and of the node's type.                      *)
WholeArchive ==
  archive = <<>> /\ loading = <<>> =>
    /\ \A n \in Nodes :
         /\ Resolve(n.path) \in Used
         /\ type[Resolve(n.path)] = IF n.directory THEN "T_DIRECTORY" ELSE "T_REGULAR"
    /\ \A m, n \in Nodes : Resolve(m.path) = Resolve(n.path) => m = n

(* initramfs_load leaves no node of the archive out and mixes up no two.   *)
THEOREM ArchivesAreWhole ==
  ASSUME NamesApart, main \in Thread, IsFiniteSet(Nodes)
  PROVE  LoadSpec => []WholeArchive
<1>1. FileInv /\ LoadInv => WholeArchive
  <2> SUFFICES ASSUME FileInv, LoadInv, archive = <<>>, loading = <<>> PROVE WholeArchive
    BY DEF WholeArchive
  <2>1. PICK place \in Places : Placed(place) /\ Loaded(place)
    BY DEF LoadInv
  <2>2. ASSUME NEW n \in Nodes
        PROVE  /\ Resolve(n.path) \in Used /\ place[Resolve(n.path)] = n.path
               /\ type[Resolve(n.path)] = IF n.directory THEN "T_DIRECTORY" ELSE "T_REGULAR"
    <3>1. n.path \in IF n.directory THEN DirPath ELSE FilePath
      BY DEF Nodes
    <3>2. n.path \in Path /\ n.path # <<>>
      BY <3>1, PathAssumption DEF Path
    <3>3. ToSet(archive) = {} /\ ToSet(loading) = {}
      BY DEF ToSet
    <3> HIDE DEF Path, Name
    <3>4. PICK f \in Used : place[f] = n.path
      BY <2>1, <3>3 DEF Loaded, There
    <3>5. Resolve(n.path) = f
      BY <2>1, <3>2, <3>4, ResolveIs
    <3>6. f # root
      BY <2>1, <3>2, <3>4 DEF Placed
    <3>7. type[f] = IF n.directory THEN "T_DIRECTORY" ELSE "T_REGULAR"
      BY <2>1, <3>1, <3>4, <3>6, PathAssumption DEF Placed
    <3> QED BY <3>4, <3>5, <3>7
  <2>3. \A m, n \in Nodes : Resolve(m.path) = Resolve(n.path) => m = n
    BY <2>2, OnePathEach
  <2> QED BY <2>2, <2>3 DEF WholeArchive
<1> QED BY <1>1, ArchiveInTree, LoaderUsesFiles, FilesInvariant, PTL
=============================================================================
