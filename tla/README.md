# A verification of spbau-term4-os

TLA+ models of the kernel in this repository, checked with TLC and, for the
scheduler, the page and slab allocators, the file system, the interrupts, the
lists and `snprintf`, proved with TLAPS. The kernel runs on one
x86-64 CPU, preempts threads from a timer interrupt and builds everything else on that:
mutexes and condition variables, two layers of memory allocators, a file system
in memory that is filled from an initramfs.

## 1. The system

| Component | State | Operations | Used by |
|---|---|---|---|
| Threads (`threads.c`, `threads-wrappers.S`) | `scheduler`: current, alive / sleep / dead lists; in every mutex `is_occupied` and its condition; in every condition a waiting list; in every thread its lock, `is_dead`, `is_over`, stack | `mutex_*`, `cv_*`, `thread_create`, `thread_run`, `thread_join`, `yield`, `schedule` | everything |
| Timer (`pit.c`) | `ticks` | `pit_handler` → `schedule(ALIVE)` | interrupts whatever runs with interrupts on |
| Self-tests (`test.c`) | `struct test_cv_data` | `test_condition_variable`, `test_threads` | `main` |
| Buddy allocator (`buddy.c`) | nodes (level, is_free, links), list heads, `lock` | `buddy_alloc`, `buddy_free` | slabs, stacks, page tables, file data |
| Bootstrap allocator (`bootstrap-alloc.c`, `memory.c`, `buddy_init`) | `bootstrap_mmap` | cut regions out of the firmware's map, allocate the nodes, free what is left | boot |
| Slab allocators (`slab-allocator.c`, `page_descr.h`) | per allocator: `lock`, list of slabs; per slab: list of free objects; per page: its owner | `slab_init`, `slab_finit`, `slab_alloc`, `slab_free` | threads, file system |
| File system (`fs.c`) | tree of `struct file`, each with its lock; a block of data; descriptors | `open`, `read`, `write`, `close`, `mkdir`, `opendir`, `readdir`, `closedir`, `ls` | initramfs, tests |
| Initramfs (`initramfs.c`) | – | cpio archive → `mkdir` / `open` / `write` | boot |
| Lists (`list.c`) | the two pointers in every `struct list_node` | `list_add`, `list_add_tail`, `list_delete`, `list_first`, `list_empty` | threads, slabs, fs |
| Paging (`paging.c`) | page tables | `paging_build`, between the freeing of low and of high memory | boot |
| Interrupts (`interrupt*.c/.S`, `pic.c`) | IDT, handlers, the controller's lines requested and in service, the CPU's flag, a frame on the stack per interrupt | `interrupt_init`, `pic_init`, `pit_init`; `interrupt_handler`, `pic_eoi`, `interrupt_handler_halt` | timer, exceptions |
| Printing (`print.c`) | a printer: buffer and room left; per directive its flags, width, size | `ovprintf` and its six callers | log, tests, fs paths |
| Logging (`log.c`) | level and colours | `log`, `halt` | everything |
| Command line (`cmdline.c`) | the log's settings | `read_cmdline` | boot |
| Boot (`main.c`, `bootstrap.S`) | how far it is | the order of the above | – |
| Devices (serial line, VGA), strings | – | – | printing, all |

How they interact. Everything runs on one CPU, so concurrency is preemption:
`pit_handler` calls `schedule()` between any two instructions executed with the
interrupt flag set. `hard_lock`/`hard_unlock` clear and restore that flag;
inside, the only switches are explicit calls of `schedule()`. Locks nest:
`thread_create` and `slab_alloc` take a slab allocator's lock and then the buddy
allocator's; `fs.c` calls the slab and buddy allocators with a directory or a
file locked; `ls` holds the locks of a whole path. `slab_free` finds the owner
of a pointer through the page descriptor, without a lock.

What is hard, per component, and what correctness means there (every item, with
its line, is under `hazards` in `PROJECT.json`):

* **Threads** – wake-ups that lose the race for the mutex; a notification
  between unlocking and sleeping; a thread on two lists or on none; an empty run
  queue; a joiner that frees the stack of a thread still on it; a reused slot.
* **Buddy** – links are numbers with NULL = -21 and 0 a real node; splitting
  trusts what old merges have left in the upper half; fragmentation.
* **Bootstrap** – regions overlapping map entries anyhow; whole pages only; the
  border between low and high memory.
* **Paging** – tables shared by two regions; pages for tables while only low
  memory is free; the end of memory found in a map that has been cut.
* **Interrupts, log** – the flag restored through any nesting of handlers, log
  lines and switches; an acknowledgement that must not wait for a switch; two
  kinds of stack frames; lines of the log that stay whole; all set up before the
  first interrupt.
* **Printing** – a buffer of size 0 or 1; a directive that prints nothing; the
  smallest negative number; widths.
* **Command line** – keys of one length compared and another skipped; a name
  longer than its buffer.
* **Lists** – operations that are not told the list; a neighbour that is the head.
* **Slab** – an owner read before the lock; pages that change hands; growth.
* **File system** – hand-over-hand locks without holding two; search and
  creation in one critical section; error paths; a block exchanged under other
  descriptors; a descriptor beyond the end.

## 2. The modules

| Module | Models | Composition |
|---|---|---|
| `Threads` | `threads.c`, `pit_handler` | base |
| `Monitor` | what `threads.h` promises | abstract; implemented by `Threads` (`MonitorSpec`) |
| `Threads_proofs` | theorems about `Threads`: types, locks, lists, `Monitor` | EXTENDS `Threads` |
| `ThreadsTest` | `test_threads` | EXTENDS `Threads`, its clients are fixed programs |
| `CvTest` | `test_condition_variable` after `test_threads` | EXTENDS `ThreadsTest` |
| `Lists` | `list.c` on the nodes' pointers | base; `Threads`, `Slab`, `FileTree` have sequences or sets in its place |
| `Buddy` | `__buddy_alloc`, `__buddy_free`, lists of numbers | base |
| `Buddy_proofs` | theorems about `Buddy` and `PageAllocator` | EXTENDS `Buddy` |
| `PageAllocator` | what `buddy_alloc`/`buddy_free` promise | abstract; implemented by `Buddy` (`PageAllocatorSpec`) |
| `Bootstrap` | `bootstrap-alloc.c`, `buddy_init`, `buddy_init_high` | ends where `Buddy` begins (its `Free0`) |
| `Paging` | `paging_build` inside `init_memory` | EXTENDS `Bootstrap`, whose two halves its steps lie between |
| `Paging_proofs` | theorems about `Bootstrap` and `Paging` | EXTENDS `Paging` |
| `Slab` | `slab-allocator.c` | mutexes and pages as promised by `Monitor`, `PageAllocator` |
| `Slab_proofs` | theorems about `Slab` | EXTENDS `Slab` |
| `FileTree` | paths, directories and locks of `fs.c` | mutexes as promised by `Monitor` |
| `FileTree_proofs` | theorems about `FileTree` and `Initramfs` | EXTENDS `Initramfs` |
| `Initramfs` | the order of calls in `initramfs.c` | EXTENDS `FileTree` |
| `FileData` | the data of a regular file | base |
| `FileData_proofs` | theorems about `FileData` and `RegularFile` | EXTENDS `FileData` |
| `RegularFile` | what `open`/`read`/`write` promise | abstract; implemented by `FileData` (`RegularFileSpec`) |
| `BufferPrinter` | the printers of `print.c` | base |
| `Library_proofs` | theorems about `Lists`, `BufferPrinter` and `Ovprintf` | EXTENDS `Lists`, `Ovprintf` |
| `Ovprintf` | `ovprintf` | EXTENDS `BufferPrinter`, which receives what it prints |
| `Cmdline` | `read_cmdline` | base |
| `Interrupts` | `main()`'s order, interrupts, controller, log, halt | EXTENDS `Cmdline`, whose result it boots with |
| `Interrupts_proofs` | theorems about `Interrupts` and `Cmdline` | EXTENDS `Interrupts` |
| `MC*` | small instances | EXTENDS the module checked |

Operators called `Fault…` are no part of any specification. Each is the
definition below it with one plausible bug; replacing the definition by it makes
the property that `PROJECT.json` names (under `mutants`) fail, which shows that
the property looks at that code.

### Threads

One variable per field of `scheduler`, of the mutexes and of the conditions.
`alive`, the lists of lockers and waiters are sequences (head first: the code
adds at the head and takes from the head, so they are stacks); `sleep` and
`dead` are sets, because nobody ever reads their order. `pc[t]` is where the
thread is: `"run"` in its client, else a point inside `threads.c`. Two further
variables say what the thread's own code knows: `held` and `target`.

* Code under `hard_lock` up to the next `schedule()` is one step. `Masked` and
  `Enabled` split the points by the interrupt flag; `PitHandler` may fire at
  `Enabled` points only. `thread_run` calls `hard_lock` before it locks its own
  mutex and `thread_join` before it frees: those points are `Masked`. A thread
  that sleeps there gets its flag back with its stack, which is why the flag is
  a function of `pc[current]` and no variable.
* `mutex_lock` is the point `"lock"`, from which `LockWait` and `LockTake`
  leave; `want` and `ret` are its argument and its return address.
* The client is arbitrary but legal: it locks no mutex twice, unlocks what it
  has locked, waits with the condition's mutex locked, returns from its thread
  function with nothing locked, and a thread is joined at most once, not by
  itself and not when it is the idle thread. The code neither checks nor
  survives the opposite.
* Allocators appear by their locks (`BuddyLock`, `ThreadSlab`) and by the fact
  that any allocation may fail.

### ThreadsTest, CvTest

The kernel's self-tests on top of `Threads`, one after the other as in
`main.c`. The threads are programs of statements over the calls of `Threads`,
with a timer interrupt wherever the code can be preempted. In `test_threads`
every thread above the last level creates two more, joins them in order and
compares what they return with the numbers they were given (`data` is
`t->data`, which `thread_join` reads before it frees the slot, `got` is what it
returned); a difference halts. In `test_condition_variable` `main`, the waiter
and the setter meet. Memory does not run out and the random sum is not 0.

### Lists

A ring of pointers as two functions on nodes; each function of `list.c` is an
operator from links to links, with the writes in the order of the code, because
`prev` and `next` may be one node. `IsList(l, head, s)` says that the ring with
that head stands for the sequence `s`: its nodes are different and the links
lead along them, both ways.

### Buddy, PageAllocator

Nodes have the numbers the code gives them: real node of page p is p, head of
list k is k - LEVELS + 1, NULL is -LEVELS. All links, including the one NULL
would have, are functions on these numbers, so that writing through NULL is
visible. The calls are serialised by `buddy_allocator.lock`; iterations of the
two loops are steps. The state observed by callers is `owned` and `result`.
When `nodes_count` is no multiple of a block's size, the buddy of the last block
is the node numbered `nodes_count`, which `__buddy_free` reads behind the end of
its array; what may lie there is the constant `PastTheEnd`. The assumption on
it, that it is not a free node of exactly the level of that block, is needed: with
one there, the pages behind the array would be merged and given away. The other
assumption on the size of the memory is that there are fewer than 2^LEVELS
pages (8 GB): with more, merging can reach the level whose list's head has the
number of page 0 (section 6).
`PageAllocator` hands out aligned blocks, never overlapping, and fails only when
no block of the size *asked for* is free; a request is a step of its own, so that
a NULL cannot be excused by another size.

### Bootstrap

`map` is `bootstrap_mmap` as a sequence of entries; each step is one pass of
`mmap_iterate` over it: `Purge` cuts the next region (BIOS, kernel, modules'
array, modules), `CountNodes` finds the end of memory, `AllocNodes` is
`bootstrap_alloc`, `InitLow` and `InitHigh` call `buddy_free` for whole pages.
Entries of the firmware are disjoint, those that touch have different types,
and there is at least one module. Addresses do not overflow.

### Paging

`tables[p]` is the table on page p, an entry is the table it points to or, in
the last level, the physical address of a big page. `PagingStart` is
`paging_build` up to its first region, each `MapBigPage` one iteration of
`paging_build_region` with the tables it has to make, `PagingOn` the write of
cr3. `NewPages` is what `PageAllocator` promises of `buddy_alloc(0)`: any page
freed so far. How the processor goes through the three levels is `Translate`.
`UsedIsMapped` says what must be reached through it once paging is on: what the map
lists and the nodes (pages given away later), the kernel, and of what was cut out of
the map, which `initramfs_load` reads later, all but what is above everything that
the map still lists (section 6). Addresses are taken modulo the bits the tables look at, so
`HIGH_BASE` is the middle of the address space and `KERNEL_BASE` is
`KERNEL_SIZE` below its end, as in `memory.h`. (`BIG_PAGE_SIZE` has no
parentheses there; where it is used, `<<` binds as intended.) Without a free
page the boot goes on with a table at address 0; the model stops at `NoNewPage`.

### Slab

A pointer is an address, a slab is named by its page; `free[p]` is the list of
free objects in the order in which they will be used. The step boundaries are
the points where another thread can observe the difference: the lock, the call
of the buddy allocator, the write of the page descriptor, `list_add`. Object
positions are computed as `slab_small_new` does. Callers may pass pointers
between threads. `slab_init`/`slab_finit` are called when nobody else uses the
allocator, `slab_init` when there is memory (it does not look at NULL).

### FileTree, Initramfs

`entries[f]` is the list of a directory, a name is a sequence of characters and
a path a sequence of names. `path_step` compares as the code does: the *last*
entry whose name *begins with* the component. A step covers what happens inside
one lock; where the code keeps a lock across an allocation or while waiting for
another (`file_open` creating, `__ls`), the lock is a variable. History
variables (`existed`, `answer`, `seen`, `unread`, `leaked`) only serve the
properties. Clients use different paths for directories and files and go only
through directories (`PathAssumption`, which also says that a path is a sequence
of names, a name one of characters, and that what a path goes through is a path
of a directory); the passing run uses names none of which is a prefix of
another. `Initramfs` has one thread, no lack of memory and archives whose
directories precede their contents, with siblings in any order.

### FileData, RegularFile

One file, as bytes in a block of 2^level pages; a write grows the block level by
level and may be stopped by a failed allocation at each; a truncation exchanges
the block or, without memory, keeps it. Each call is one step because it holds
the file's lock. Clients' buffers are any sequences of bytes (`DataAssumption`).
A new block begins with what was copied; the rest of it is what its last owner has
left there, any bytes, which stay (`Contents`, `Resized`). Memory behind the block
belongs to others, who change it at any time: it has the mark `Foreign`, and each
read that comes there, after a write without memory has moved the end of the file
out of its block (fs.c:189), gets any bytes anew (`Readable`). `RegularFile` is a
sequence of bytes and holes with descriptors; a read says how many bytes were asked
for, so that it may be short only at the end of the file, and returns anything where
there is a hole; a write may be short without memory, and between the old end and
the position written to it leaves any bytes or holes.

### BufferPrinter, Ovprintf

`BufferPrinter` drives the serial printer and the buffer printer at once, so
that what is stored can be compared with what was printed. `Ovprintf` walks over
a format: `PlainChar`, `OpenDirective`, one action per kind of character in a
directive and one per conversion; `pending` is what a conversion has yet to print.
The numbers of `%d` and its relatives are printed as the code does, digits from
the last to the first into a buffer and back. Conversions go by the type that
the size and the letter select; unknown pairs print nothing and leave their
argument. Formats are concatenations of *pieces*, each a plain character or a
directive with its flag, width, size, letter and the argument a caller would pass
for it; `PrintsMeaning` says piece by piece what has to come out, with each digit
given by its place (`Numeral`) and not by the order in which the code finds them.
`OvprintfAssumption` asks of the pieces what the code asks of its callers
(`GoodPiece`): an argument of the type that the directive takes, a width that the
buffer of digits holds, a number of at most 32 digits; and that `size_t` is a whole
number of hexadecimal digits, since `%p` prints so many. `int` has 16 bits and `long` 20 in the instance: the borders of
both matter, their distance does not. A `-` comes before the padding, as in the
code. Left out: widths above 65 (the code's buffer of digits is too small for
them), formats that end within a directive, colours.

### Cmdline, Interrupts

`read_cmdline` is a function on strings: `Turn` is one turn of its loop, which
`Options` repeats until it comes to rest. `Setting` says independently what a
command line, given as a name and words, should mean; words have no space in
them, none is `log_clr` alone, and a name too long has no key at the place where
the code gives it up (`CommandLinesAssumption`). `Interrupts` starts in `main()`
with any of the command lines, goes through `log` settings, `read_cmdline`,
`pic_init`, `interrupt_init`, `pit_init`, `scheduler_init` and `sti`, and then lets
threads log, print, yield, halt and raise exceptions while lines of the
controller are requested at any time. `stack[t]` is what is under way on
thread t's stack: its code, log lines (with the flags `hard_lock` has saved and
the part of the line reached), interrupts (number, flags, point in the handler
and words on the stack), switches and halts. What the scheduler does with the
threads is in `Threads`; here `Schedule` may choose any. The controller is that of
a PC: a request is latched once, and one in service keeps later lines back
until `pic_eoi`.

## 3. The runs

| Run | Instance | Shows |
|---|---|---|
| `threads_safety` | idle + 3 threads, one mutex, one condition, time slice of one tick | mutual exclusion and the inductive invariants of locks and lists (`ListInv`, with `LockInv` in it), scheduler and waiting lists, no lost wake-up or death, never halts, quiet reaping, lock order; `Threads` implements `Monitor` |
| `threads_liveness` | idle + 2 threads, time slice of 2 ticks | a thread on the alive list runs again; a join of a finished thread returns; the buddy lock is given back |
| `cvtest` | three threads, tree of one level, then the condition variable test | both tests always end, with every result its own |
| `buddy` | ten pages, seven of them free at boot, levels 0 to 3, all requests in every order | no page lost or shared, halves ready, lists well formed; `Buddy` implements `PageAllocator`, so blocks merge as far as they can |
| `buddy_null_node` | same | **violated**: the last node of a list is deleted by a write through NULL |
| `paging` | maps of 1 or 2 entries on 10 pages, tables of 2 entries, big pages of 4 pages | the map is the firmware's minus what was cut; exactly the free whole pages are freed, once; nodes, freed pages and kernel are mapped, modules too unless they are above all the rest, nothing but the two windows is; tables on pages of their own |
| `slab` | 2 threads, 2 allocators, 3 pages, 2 objects per page; `list.c` on all contents of 3 nodes | every object in one place, owner found, no overlap, growth only when full; lists behave as sequences (an assumption TLC evaluates) |
| `file_tree` | 2 threads, a directory with 2 files | a tree, honest lookups, no circular wait, complete listings, one leaked lock and no other |
| `file_data` | 2 descriptors, blocks of 1, 2 and 4 bytes | the end inside the block; `FileData` implements `RegularFile` |
| `ovprintf` | formats of up to two pieces out of some fifty, buffers of sizes 0, 1, 5 and 30 | what is printed is what the pieces mean; what is stored is what fits |
| `interrupts` | three threads, timer and keyboard lines, a page fault, an exception with and one without error code and no handler; command lines of a name and up to three words | the flag follows the stack, interrupts find what they need, log lines are whole, options apply, the timer goes on |
| `initramfs` | directories `a`, `ab`, a file in `a` | **violated**: an archive with `ab` before `a` halts the kernel |

Why the bounds are enough to mean something. Three created threads give a lock
holder, a sleeper and a third that takes the mutex between wake-up and test, and
let a slot be joined, freed and reused while others run. A slice of one tick is
the worst preemption (every step), the slice of two checks the counter. Buddy
has four levels, for a split of a split and merges that cascade, and ten
pages, so that the last block of level 1 has its buddy behind the array and the
first pages, the kernel's, are never free. The tree of `test_threads` has one
level of children: it fills all slots (two levels are too large for TLC). Two pieces of a format
show that nothing is carried from one directive into the next; three words of a
command line that an option may be repeated, reset and cut off. Three pages
for two allocators force a page to go from one to the other, and one allocator to
grow. Two files in a directory and two threads cover creation against creation,
lookup and listing; the longest chain of locks that `ls` can hold (root,
directory, file) occurs. A file with three block sizes grows twice in one write,
and stops before, between and after. With ten pages of eight bytes an entry may
begin or end at, before and after the borders of pages, big pages, regions and
low memory (`Border`); memory takes up to three big pages, so that the window
at `HIGH_BASE` needs two tables of the last level and shares one with the
kernel's. Many of these maps leave less low memory than the tables need: the
run goes through both.

`CHECK_DEADLOCK FALSE` is used where the system really stops: boot code ends
(`paging`, `initramfs`), the tree's slots are used up or a directory stays
locked for ever (`file_tree`), memory is used up by others (`slab`), the tests are
over (`cvtest`).

Symmetry is used in the safety runs only, over created threads and over files.

## 4. Fairness

`threads_liveness` and `cvtest` assume strong fairness of what `threads.c` does
by itself for each thread (`KernelStep` while that thread is current) and of
`PitHandler`. A time slice has more than zero instructions, so a thread that is
made current infinitely often inside `threads.c` gets on; an interrupt that is
raised while the flag is clear stays latched in the PIC and is delivered when it
is set, so it cannot be missed for ever. Nothing is assumed of clients in
`threads_liveness`: a client may keep a mutex for ever, or loop. In `cvtest`
the clients' own statements are the programs of the test and are fair too.

`interrupts` assumes weak fairness of the CPU (`CpuStep`: it always executes the
next instruction, not any particular one) and of the timer's ticks
(`Request(0)`), and strong fairness of `Deliver(0)`: the CPU looks for interrupts
after every instruction, so that one that can be taken again and again is.
Nothing is assumed of the other devices, which may interrupt as often as they
like after the timer in priority, nor of the threads, which may halt.

Not claimed, because false: that each thread gets a mutex it waits for. The
lists of lockers are stacks and `mutex_unlock` does not hand over, so a thread
can be overtaken for ever.

## 5. What is proved

Each theorem holds for every value of the constants that satisfies the
assumptions named in the component's module; TLC evaluates these assumptions in
the runs. The inductive invariants are stronger than the properties of the runs;
TLC checks `ListInv` in `threads_safety`, the other ones stand on their proofs.

**`Threads_proofs`** – every set of threads, mutexes and conditions, every
length of the time slice.

* `TypeCorrect`: `TypeOK`, inductive by itself, with lemmas on what the list
  operations return.
* `LockInvariant`, `MutualExclusionHolds`: mutual exclusion is not inductive: a
  thread deep in `thread_create` unlocks `BuddyLock` without a test, and
  `ThreadPublished` clears `is_occupied` of a reused slot. `LockInv` therefore
  says what each thread has locked at each point (`LockPoints`), who may hold a
  thread's own lock (`OwnLocks`), and that a slot is created, joined and freed by
  one thread at a time and is dead before it is freed (`Targets`). The scheduler's
  lists play no part in it: mutual exclusion does not depend on who is woken,
  only on the second test of `is_occupied`.
* `AllocatorLocksNest`: `AllocatorLockOrder`, from `HeldPoints` (who is between
  two points of `thread_create` or `thread_join` holds what it needs).
* `ListInvariant`: everything about lists follows from `ListInv`, in which each
  part needs the others. That a sleeper is on one waiting list (`WaitingLists`)
  needs that one who is awake is on none; that a woken thread was asleep
  (`SchedulerLists`) needs the same the other way round; that the alive list is
  not empty when someone sleeps (`~halted`) needs that the idle thread is on no
  waiting list and never ends (`IdleLives`). `NoLostWakeup` needs that a thread
  taken off a list of lockers tries that mutex next. `NoLostDeath` needs
  `LockInv`: a thread has one joiner, which has tested `is_over` with the thread's
  mutex locked, so that the one `cv_notify` of `thread_run` empties the list.
  From it: `SchedulerListsPartition` (`OneSchedulerList`),
  `SchedulerNeverHalts` (`NeverHalts`, with the idle thread always running or
  alive), `WakeupsNotLost`, `DeathsNotLost`,
  `ReapedThreadsAreQuiet` and `SleepersWaitOnce`.
* `ThreadsImplementMonitor`: `Spec => MonitorSpec`. Every step is one operation
  of a monitor or a stutter: `mutex_lock` takes effect at `LockTake`, `cv_wait`
  where it gives the mutex back, a death where `is_over` is set.

**`Buddy_proofs`** – any number of pages below 2^LEVELS, any pages free at boot,
anything behind the array that `PastTheEnd` allows.

* `BuddyInvariant`: `BuddyInv` says that there is a set F of nodes, those on the
  free lists, with
  a rank that falls along each list, so that no list has a ring (`ListsAre`); that
  the blocks of F, those owned and the one in hand inside a call are aligned,
  disjoint and fill the available pages (`BlockSet`); what the nodes *inside* such
  a block carry from earlier merges (`Marks`: every one but the first is
  marked free, at the largest level its number is aligned to, which is what
  splitting trusts); and what the marks of
  the blocks themselves are (`NodesMarked`). `CallsFit` adds where a call is:
  no two free buddies exist, except the one pair that `merge` is about to join.
* From it `PagesHaveOneBlock` (`BlocksPartitionMemory`), `HalvesAreReady`
  (`HalvesReady`) and `ListsStayWellFormed` (`ListsWellFormed`). The
  walk along a list in the latter is a recursive function that only some states
  define: the rank shows that it ends, counting the nodes that it has reached them
  all.
* `BuddyImplementsPageAllocator`: `Spec => PageAllocatorSpec`. The hard half is
  that NULL is the honest answer: a free block of the size asked for would lie
  within blocks too small for it, and among the smallest of these are two buddies
  both free (`TwoHalves`), which `CallsFit` excludes.
* Powers of 2 have no theory in the library: 2^n is treated as the number of
  subsets of a set of n elements, with the library's facts on cardinalities. These
  are the library's statements, among them that of `FS_SUBSET`.

**`Slab_proofs`** – any threads, allocators, sizes of pages and objects.

* `SlabInvariant`: `SlabInv` says what a thread knows at each point of a call
  (`CallsInv`), that a page is in one list of slabs, in the hands of one thread,
  or the page allocator's (`PagesInv`), and that every object is on the list of its
  page, with a caller or in a thread's hand, on no two of them (`ObjectsInv`).
  `slab_free` reads the owner before it takes the lock: that the answer is
  still true then needs that a page with an object out stays in its list.
* `ObjectsHaveOnePlace` (`EachObjectOnce`), `OwnersAreFound`
  (`DescriptorNamesOwner`), `ObjectsStayApart` (`ObjectsDisjoint`) and
  `SlabsGrowWhenFull` (`GrowsOnlyWhenFull`). Positions of objects need lemmas on
  products, quotients and remainders; the sums that `EachObjectOnce` compares
  are compared by bijections.

**`FileTree_proofs`** – any threads, files, names and paths.

* `FilesInvariant`: `FileInv` says that every file but the root has one entry
  (`TreeInv`), what a thread has locked at each point (`HoldsInv`), that the locks
  `ls` holds lead down the tree to where it waits (`DescentInv`), what an open
  directory has returned so far (`ReadInv`). From it `LocksAreReleased`
  (`OnlyFailedInitKeepsLock`), `LocksAreNested` (`NoCircularWait`: a circle of
  waiting threads would be a circle in the tree) and `ReaddirIsComplete`.
* `FilesInPlace`, under the hypothesis `NamesApart`, that no name begins another:
  there is a function from files to paths that agrees with every entry, and a walk
  is at the file whose path is what it has gone through (`PlaceInv`). From it
  `EntriesAreATree` (`EntriesFormATree`) and `LookupsSeeWhatExists`. The
  hypothesis is what the code needs and does not check: `initramfs` shows
  what happens without it.
* `LoaderUsesFiles`: every step of `Initramfs` is a step of `FileTree` or leaves it
  alone, so that all the above holds of the boot as well. `ArchiveInTree` adds,
  under `NamesApart`, where each node of the archive is (`ArchiveInv`): with those
  still to come, at its path in the tree, or in the call that makes it; and a
  directory is in the tree before what it contains. From it `ArchivesLoad`
  (`EveryArchiveLoads`): the violation that `initramfs` shows needs a name that
  begins another. And `ArchivesAreWhole`: at the end of the archive each of its
  paths leads to a file of the node's type, no two to the same.

**`FileData_proofs`** – any size of pages, any number of levels, any buffers and
descriptors, anything in memory that nobody has written. `DataInvariant`,
`FilesFitBlocks` (`SizeFits`), and `DataImplementsFile`: `Spec => RegularFileSpec`,
that is, growing block by block, truncating and the descriptors' positions amount to
a sequence of bytes in which what was written stays; the part of it behind the block,
in the case that `SizeFits` excepts, consists of holes, of which nothing is promised.

**`Interrupts_proofs`** – any threads, lines, exceptions and command lines.
`StacksInvariant`: `InterruptsInv` says that whatever has saved the flags on a
stack has saved what is right for the stack below it, that only the top of a stack
can be a log line or a switch, that all stacks but the CPU's end in a switch, and how
far the boot is. From it `MaskIsRight` (`MaskMatchesStack`), `KernelIsFound`
(`InterruptsFindKernel`) and `LinesStayWhole` (`LogLinesWhole`).

`OptionsAreApplied` (`OptionsApplied`) is about the loop over the command line, of
any length. `Layout` says where in the text each word lies; at the end of a
word the loop takes the next one if it is an option and rests there if not
(`TurnTakes`, `TurnStops`), so that after the k-th turn the settings are those of the last
option of each key among the first k words (`Latest`). `Options` is a function
defined by recursion; that it is the loop's states one after the other is shown by
the least turn at which the two could differ (`LoopIs`).

**`Paging_proofs`** – any map of the firmware that `BootAssumption` allows, any
modules and kernel, any sizes of pages, big pages and tables that divide as
`PagingAssumption` says, and any page that `buddy_alloc` may return.

* `BootInvariant`: `BootInv` says that the bytes of a type in the map are the
  firmware's without those cut out so far, and that its entries are in order and
  apart, those of one type by a gap, so that a page whose bytes are all available
  lies in one entry (`GoodMap`, `LeftInv`); that the nodes suffice for every available page and end
  before an entry does (`EndsInv`); and that a page was freed once for each entry
  it is a whole page of (`FreesInv`). Cutting is a `FlattenSeq` over
  the entries and the number of nodes a `Max`: both are reduced to what their
  result contains, by the least place at which a claim about them could fail.
* `PagingIsBoot`: a behaviour of `Paging` is one of `Bootstrap`, so that what
  holds of the map holds with the page tables built in the middle. From the two,
  `MapIsLeftAlways` (`MapIsWhatIsLeft`) and `FreeMemoryFreedAlways`
  (`FreeMemoryFreed`): available pages have at most one entry, because entries are
  disjoint, and are freed below the limit or above it.
* `PagingInvariant`: `PagingInv` says where in `init_memory` the tables are built
  (`StageInv`); that they are a tree of three levels in which every table but the
  top has one pointer and lies on a low page that was freed (`TreeInv`); and how
  many big pages of high memory and of the kernel are mapped, which determines
  both the regions left and every entry of every table (`WindowInv`). An entry
  is found by three indices; that they determine the address, in tables of any
  size, needs lemmas on quotients and remainders. From it `TablesApartAlways`
  (`TablesApart`) and `WindowsMappedAlways` (`WindowsMapped`): high memory is mapped
  up to the big page in which the end of the map lies, which is enough for
  everything listed and, by `BootInv`, for the nodes; of what was cut out the
  theorem can only say it of the part below that end (section 6).

**`Library_proofs`** – every set of characters and every buffer size; every set of
nodes and lists of every length.

* `BufferHoldsWhatFits`: `PrinterSpec => []StoresWhatFits`. The invariant adds
  that `left` is what is missing up to the limit, where size 0 has wrapped around
  to the largest value of `size_t`.
* `FirstIsFirst`, `AddIsFirst`, `AddTailIsLast`, `DeleteIsWithout` and
  `OtherListsKept` are what `Threads`, `Slab` and `FileTree` take for granted when
  they have sequences or sets where the code has rings. The writes are reduced to
  what they leave in every node (`Inserted`, `Removed`), the ring to its
  neighbours (`ListLinks`, `MakesList`); each theorem then goes through the
  positions of the new ring.
* `MeaningIsPrinted`: `Spec => []PrintsMeaning`, for every set of good pieces,
  formats and strings of every length and every size of the buffer. What a call
  prints is only known when it ends; the invariant `CallInv` says it of a format
  read in part: `k` pieces are read, and `j` characters of the directive after
  them. The arguments taken, the characters printed or pending and the number
  counted are those of the first `k` pieces (`Shared`); between two pieces no
  directive is open (`Between`); within one, its locals are what its first `j`
  characters make them (`After`), so that nothing of the last directive is left.
  Each action is shown to read the character that the piece has there and no
  other. The conversion of numbers is a recursion, over which the provers have no
  induction: a fact that fails for some number fails for a least one, and
  `FillIsFilled` and `DigitsFewer` get their contradiction from there. What the
  loop leaves in the buffer is then, place by place, the numeral of
  `Numeral`, and `FoursAreSeparated` counts the separators of `%p` from the right.
* `OvprintfUsesPrinter`: `Spec => PrinterSpec`, each step a step of the printers
  or a stutter; with `BufferHoldsWhatFits`, `StoredFits` (`Spec => []StoresWhatFits`).

Only model-checked:

* Liveness under fairness, which the proof system cannot reach: `AliveRuns`,
  `DeathReachesJoiner`, `BuddyLockReleased`, `TestEnds`, `TimerGoesOn`.
* The two runs that find a violation.

All invariants and all action properties that the passing runs check are proved.

## 6. What the work found

* `buddy.c:73,76` – neighbours are compared with 0 where NULL is -21. Deleting
  the last node of a list writes into the allocator's lock (`buddy_null_node`).
  The lists survive (`ListsWellFormed` holds: node 0 is never in a list as long
  as page 0 is not available), the lock's pointer to its mutex does not.
* `buddy.c:14` – the head of list 20 has number 0, the number of page 0. Below
  8 GB no block reaches that level and with page 0 never free this does no harm.
  From 2^21 pages on, a block of 2^20 pages can be merged together; it is put on
  a list whose head is page 0's node, which `buddy_alloc` takes for an empty one,
  and is lost. `BuddyAssumption` excludes that much memory.
* `fs.c:83` – a lookup matches longer names (`initramfs`).
* `fs.c:130` – a failed creation leaves its directory locked;
  `OnlyFailedInitKeepsLock` says that it is the only such case.
* `fs.c:189` – a write without memory behind a truncation moves the end of the
  file out of its block; `SizeFits` says that it is the only such case.
* `paging.c:13` – high memory is mapped up to the end of what the map still lists
  after the modules and their array were cut out of it (bootstrap-alloc.c:112-115),
  but `initramfs_load` reads them there (initramfs.c:69, 74, 79). A module above
  everything that is left is mapped only where it shares the last big page: with
  big pages of 32 bytes, memory up to 80 and a module from 64 to 80, address 64 is
  not mapped. `UsedIsMapped` says that what was cut out is reached in all other cases;
  run `paging` has this one and that of a shared page among its modules.

The last three are stated as exceptions in properties that hold, since no comment
or test of the repository says otherwise. For the same reason the following are
notes, where the models stop or assume and no run refutes anything:

* `test.c:66` – the setter yields once to let the waiter go first; that the test
  halts with "Too slow..." depends on that timing only, not on the condition
  variable.
* `buddy.c:201` – the read behind the array: that what lies there is not taken for
  a free block is assumed (`PastTheEnd`), not shown; `buddy.c:139` –
  without an entry large enough, the nodes go to address 0; `paging.c:25` – so
  does a page table without memory; `bootstrap-alloc.c:25` – the number of entries
  is not bounded.
* `print.c:43` – a width above 65 overflows the buffer of digits; a format that
  ends within a directive is read past its end; the sign is printed before the
  padding; `%zd` and other unknown pairs leave their argument to the next.
* `cmdline.c:54` – `log_clr` as the last word without `=` is read past the string's
  zero.
* `log.c:66` – between `halt`'s message and its `interrupt_disable` other threads
  still run; an exception without a handler returns to the instruction that
  raised it.
* `test.c:24` – what `thread_create` returns is not looked at.

## 7. Not modelled, and the plan

Not modelled: the `big_` half of the slab allocator (no allocator of the kernel
has objects that large); `slab_init` without memory; the text and alignment of
cpio headers (offsets into bytes, without state beyond the position); registers
of the timer, the serial line and the screen (`Devices`: single port writes
and busy waiting); loops over strings other than where they decide something
(`strncmp` in `FileTree` and `Cmdline`, padding in `Ovprintf`); `bootstrap.S`, the
linker script and the build. `Threads` assumes intact mutexes, that is, not the
stray write of `buddy_null_node`, and `Interrupts` any scheduler; of the nestings
of `hard_lock` the latter has those of log lines, `halt` and `schedule`, in threads
and in handlers, and the critical sections of `threads.c` (52-74, 117-133, 221-230) are in
`Threads` only. The boot loader's info structure and the strings it points to are
not cut out of the map though they are read later (initramfs.c:64, 79): that they
lie outside of available memory is left to the loader.

Order of the work:

1. Done: all modules of section 2; the inductive invariants, safety
   invariants and refinements of `Threads`, `Buddy`, `Slab`, `FileTree`,
   `FileData`, `Interrupts`, `Bootstrap`, `Paging`, `BufferPrinter`, `Ovprintf` and
   `Lists` proved.
2. Left to prove: what the self-tests claim beyond liveness (`ThreadsTest`, `CvTest`);
   the `big_` half of the slab allocator, when an allocator needs it, by the
   argument of `SlabInv`.
