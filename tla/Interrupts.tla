----------------------------- MODULE Interrupts -----------------------------
(***************************************************************************)
(* The boot sequence of main.c and what it sets up: the log with the       *)
(* options of the command line, the interrupt controller, the descriptor   *)
(* table with its wrappers, the timer and the scheduler; and the kernel    *)
(* that runs on them, with interrupts that come at any moment.  Threads    *)
(* has what the scheduler does with the threads; here it only matters      *)
(* which stack the CPU is on, and what lies on it: the calls, interrupts   *)
(* and switches that are under way, each with the flags it saved.          *)
(***************************************************************************)
EXTENDS Cmdline, FiniteSets

CONSTANTS Thread, Main,  \* the threads and the one that boots
          NULL,
          CommandLines,  \* the command lines checked, records with a name and words
          LogLevels,     \* the levels at which the threads' own code logs
          Line,          \* the request lines of the controller; 0 is the timer's
          Exception,     \* the exceptions that a thread's code can raise
          PIT_TICKS      \* timer interrupts in a time slice

ASSUME InterruptsAssumption ==
  /\ Main \in Thread /\ NULL \notin Thread
  /\ 0 \in Line /\ Line \subseteq 0 .. 15
  /\ Exception \subseteq 0 .. 31
  /\ PIT_TICKS \in Nat \ {0}

\* No word has a space in it, and log_clr at a word's end is left out: there the code reads behind
\* the word.  In a name that does not fit, log_lvl= does not come just where the code stops reading
\* it: the code would take it for an option.
ASSUME CommandLinesAssumption ==
  \A line \in CommandLines :
     /\ line.name \in Seq(STRING \ {Space})
     /\ Len(line.name) > NAME_SIZE => line.name[NAME_SIZE + 1] \notin {"L", "C"}
     /\ line.words \in Seq(Seq(STRING \ {Space}))
     /\ \A k \in DOMAIN line.words : line.words[k] # <<"C">>

VARIABLES
  stage,     \* how far main() is
  cmdline,   \* the command line until it has been read
  settings,  \* log_level, and whether colors[] is set
  pic,       \* the controller: first vector, lines requested and lines in service
  idt,       \* whether interrupt_set_idt has been called
  handlers,  \* handlers[]
  flag,      \* the CPU's interrupt flag
  cpu,       \* the thread whose stack the CPU is on
  current,   \* scheduler.current
  stack,     \* what is under way on each stack, the innermost last
  counter,   \* pit_handler's counter
  last       \* the last part of a line put out, <<>> when it was a line's end

boot == <<stage, cmdline, settings, idt, current>>
vars == <<boot, pic, handlers, flag, cpu, stack, counter, last>>

-----------------------------------------------------------------------------

LEVEL_VVV   == 1
LEVEL_VV    == 10
LEVEL_LOG   == 30
LEVEL_WARN  == 50
LEVEL_ERROR == 60
LEVEL_FAULT == 70

INTERRUPT_PIC_MASTER == 32
INTERRUPT_PIT        == INTERRUPT_PIC_MASTER + 0
Vector               == Exception \cup {INTERRUPT_PIC_MASTER + l : l \in Line}

\* The words on a stack between the registers and what was interrupted: the CPU pushes five and,
\* for some exceptions, an error code; the wrapper pushes the number and, where the CPU has not,
\* a zero for the error code.
CpuWords(v)     == IF v \in {8, 10, 11, 12, 13, 14, 17} THEN 6 ELSE 5
FaultWrapperWords(v) == IF v \in 8 .. 14 THEN 1 ELSE 2  \* two ranges instead of four
WrapperWords(v) == IF v = 8 \/ v \in 10 .. 14 \/ v = 17 THEN 1 ELSE 2

Code              == [kind |-> "code"]
Interrupt(v, fl)  == [kind |-> "interrupt", id |-> v, rflags |-> fl, pc |-> "entry",
                      words |-> CpuWords(v) + WrapperWords(v)]
Logging(fl)       == [kind |-> "log", rflags |-> fl, part |-> 1]
Switched(fl)      == [kind |-> "schedule", rflags |-> fl]
Halting(pc)       == [kind |-> "halt", pc |-> pc]

Top     == Last(stack[cpu])
Calls   == Front(stack[cpu])
Running == stage = "running"

\* The innermost activation, of that kind, goes on at pc.
At(kind, pc) == Top.kind = kind /\ Top.pc = pc
Then(pc)     == Append(Calls, [Top EXCEPT !.pc = pc])

OnStack(s) == stack' = [stack EXCEPT ![cpu] = s]

-----------------------------------------------------------------------------
(* hard_lock, hard_unlock and the log.                                      *)

FaultHardUnlock(fl) == flag' = TRUE  \* the flag is set instead of restored
HardUnlock(fl)      == flag' = fl

FaultCallLog(level, s) ==  \* the line is put out with interrupts on
  OnStack(IF level < settings.level THEN s ELSE Append(s, Logging(flag))) /\ UNCHANGED flag

\* log_tagged is called with the stack s: it returns at once below the log level, else it saves
\* the flags and masks the interrupts.
CallLog(level, s) ==
  IF level < settings.level
    THEN OnStack(s) /\ UNCHANGED flag
    ELSE OnStack(Append(s, Logging(flag))) /\ flag' = FALSE

\* One of the three printf calls of vlog_tagged.
LogPart ==
  /\ Top.kind = "log" /\ Top.part <= 3
  /\ last' = IF Top.part = 3 THEN <<>> ELSE <<cpu, Len(stack[cpu]), Top.part>>
  /\ OnStack(Append(Calls, [Top EXCEPT !.part = @ + 1]))
  /\ UNCHANGED <<boot, pic, handlers, flag, cpu, counter>>

LogReturn ==
  /\ Top.kind = "log" /\ Top.part > 3
  /\ HardUnlock(Top.rflags) /\ OnStack(Calls)
  /\ UNCHANGED <<boot, pic, handlers, cpu, counter, last>>

-----------------------------------------------------------------------------
(* main().                                                                  *)

Init ==
  /\ stage = "settings"
  /\ cmdline \in CommandLines
  /\ settings = [level |-> 40, color |-> FALSE]
  /\ pic = [base |-> 8, requested |-> {}, inService |-> {}]
  /\ idt = FALSE /\ handlers = [v \in Vector |-> NULL]
  /\ flag = FALSE /\ cpu = Main /\ current = NULL
  /\ stack = [t \in Thread |-> IF t = Main THEN <<Code>> ELSE <<>>]
  /\ counter = 0 /\ last = <<>>

\* main() goes on with the next stage.
Stage(this, next) == Top = Code /\ stage = this /\ stage' = next

SetLogDefaults ==
  /\ Stage("settings", "cmdline")
  /\ settings' = [level |-> LEVEL_LOG, color |-> FALSE]
  /\ UNCHANGED <<cmdline, pic, idt, handlers, flag, cpu, current, stack, counter, last>>

ReadCmdline ==
  /\ Stage("cmdline", "pic")
  /\ settings' = read_cmdline(Text(cmdline.name, cmdline.words), settings)
  /\ UNCHANGED <<cmdline, pic, idt, handlers, flag, cpu, current, stack, counter, last>>

\* The initialisation words move the lines to the vectors from 32 on; the controller forgets
\* what it had latched.
PicInit ==
  /\ Stage("pic", "interrupts")
  /\ pic' = [base |-> INTERRUPT_PIC_MASTER, requested |-> {}, inService |-> {}]
  /\ cmdline' = <<>>   \* it is not read again
  /\ UNCHANGED <<settings, idt, handlers, flag, cpu, current, stack, counter, last>>

InterruptInit ==
  /\ Stage("interrupts", "pit")
  /\ idt' = TRUE
  /\ handlers' = [v \in Vector |-> IF v \in {6, 8, 13, 14} THEN "halt" ELSE handlers[v]]
  /\ UNCHANGED <<cmdline, settings, pic, flag, cpu, current, stack, counter, last>>

PitInit ==
  /\ Stage("pit", "scheduler")
  /\ handlers' = [handlers EXCEPT ![INTERRUPT_PIT] = "pit"]
  /\ UNCHANGED <<cmdline, settings, pic, idt, flag, cpu, current, stack, counter, last>>

SchedulerInit ==
  /\ Stage("scheduler", "enable")
  /\ current' = Main
  /\ UNCHANGED <<cmdline, settings, pic, idt, handlers, flag, cpu, stack, counter, last>>

InterruptEnable ==
  /\ Stage("enable", "running")
  /\ flag' = TRUE
  /\ UNCHANGED <<cmdline, settings, pic, idt, handlers, cpu, current, stack, counter, last>>

-----------------------------------------------------------------------------
(* The code of the threads.                                                 *)

Log ==
  /\ Top = Code /\ stage # "settings"
  /\ \E level \in LogLevels : CallLog(level, stack[cpu])
  /\ UNCHANGED <<boot, pic, handlers, cpu, counter, last>>

\* printf without the log, as the tests and main's loop call it.
Printf ==
  /\ Top = Code /\ Running
  /\ last' = <<>>
  /\ UNCHANGED <<boot, pic, handlers, flag, cpu, stack, counter>>

\* schedule(), called with the stack s, gives the CPU to u: a thread that has not run starts with
\* interrupts enabled, any other returns from its own call of schedule.
Schedule(s, fl, u) ==
  /\ current' = u /\ cpu' = u
  /\ IF u = cpu
       THEN OnStack(s) /\ HardUnlock(fl)
       ELSE IF stack[u] = <<>>
       THEN /\ stack' = [stack EXCEPT ![cpu] = Append(s, Switched(fl)), ![u] = <<Code>>]
            /\ flag' = TRUE
       ELSE /\ stack' = [stack EXCEPT ![cpu] = Append(s, Switched(fl)), ![u] = Front(@)]
            /\ HardUnlock(Last(stack[u]).rflags)
  /\ last' = IF LEVEL_VV < settings.level THEN last ELSE <<>>   \* its own log lines

Yield ==
  /\ Top = Code /\ Running
  /\ \E u \in Thread : Schedule(stack[cpu], flag, u)
  /\ UNCHANGED <<stage, cmdline, settings, idt, pic, handlers, counter>>

\* halt(), whose message comes first.
CallHalt ==
  /\ Top = Code /\ Running
  /\ CallLog(LEVEL_FAULT, Append(stack[cpu], Halting("disable")))
  /\ UNCHANGED <<boot, pic, handlers, cpu, counter, last>>

HaltDisable ==
  /\ At("halt", "disable")
  /\ flag' = FALSE /\ OnStack(Then("halted"))
  /\ last' = <<>>      \* "System halted."
  /\ UNCHANGED <<boot, pic, handlers, cpu, counter>>

HaltLoop == At("halt", "halted") /\ UNCHANGED vars

-----------------------------------------------------------------------------
(* Interrupts.                                                              *)

\* A device raises its line; the controller remembers it once.
Request(l) ==
  /\ l \notin pic.requested
  /\ pic' = [pic EXCEPT !.requested = @ \cup {l}]
  /\ UNCHANGED <<boot, handlers, flag, cpu, stack, counter, last>>

\* The CPU and the wrapper of the vector.
Enter(v) == flag' = FALSE /\ OnStack(Append(stack[cpu], Interrupt(v, flag)))

\* The controller passes on the first line requested unless that or an earlier one is in service.
Deliver(l) ==
  /\ flag /\ l \in pic.requested
  /\ \A q \in pic.requested : l <= q
  /\ \A q \in pic.inService : l < q
  /\ pic' = [pic EXCEPT !.requested = @ \ {l}, !.inService = @ \cup {l}]
  /\ Enter(pic.base + l)
  /\ UNCHANGED <<boot, handlers, cpu, counter, last>>

Raise(v) ==
  /\ Top = Code /\ Running
  /\ Enter(v)
  /\ UNCHANGED <<boot, pic, handlers, cpu, counter, last>>

InterruptEntry ==
  /\ At("interrupt", "entry")
  /\ CallLog(LEVEL_VVV, Then("dispatch"))
  /\ UNCHANGED <<boot, pic, handlers, cpu, counter, last>>

NoHandler ==
  /\ At("interrupt", "dispatch") /\ handlers[Top.id] = NULL
  /\ CallLog(LEVEL_WARN, Then("return"))
  /\ UNCHANGED <<boot, pic, handlers, cpu, counter, last>>

\* The lines of interrupt_handler_halt stand as one.
HandlerHalt ==
  /\ At("interrupt", "dispatch") /\ handlers[Top.id] = "halt"
  /\ CallLog(LEVEL_ERROR, Append(Then("return"), Halting("message")))
  /\ UNCHANGED <<boot, pic, handlers, cpu, counter, last>>

HaltMessage ==
  /\ At("halt", "message")
  /\ CallLog(LEVEL_FAULT, Then("disable"))
  /\ UNCHANGED <<boot, pic, handlers, cpu, counter, last>>

\* A non-specific end of interrupt: the first line in service is no longer.
Acknowledged == [pic EXCEPT !.inService =
                   @ \ {l \in @ : \A q \in @ : l <= q}]

FaultPitHandler ==  \* the interrupt is acknowledged only after the slice has gone on
  /\ At("interrupt", "dispatch") /\ handlers[Top.id] = "pit"
  /\ IF counter + 1 < PIT_TICKS
       THEN /\ counter' = counter + 1
            /\ pic' = Acknowledged
            /\ OnStack(Then("return")) /\ UNCHANGED <<flag, cpu, current, last>>
       ELSE /\ counter' = 0
            /\ UNCHANGED pic
            /\ \E u \in Thread : Schedule(Then("return"), flag, u)
  /\ UNCHANGED <<stage, cmdline, settings, idt, handlers>>

PitHandler ==
  /\ At("interrupt", "dispatch") /\ handlers[Top.id] = "pit"
  /\ pic' = Acknowledged
  /\ IF counter + 1 < PIT_TICKS
       THEN /\ counter' = counter + 1
            /\ OnStack(Then("return")) /\ UNCHANGED <<flag, cpu, current, last>>
       ELSE /\ counter' = 0
            /\ \E u \in Thread : Schedule(Then("return"), flag, u)
  /\ UNCHANGED <<stage, cmdline, settings, idt, handlers>>

InterruptReturn ==
  /\ At("interrupt", "return")
  /\ flag' = Top.rflags /\ OnStack(Calls)
  /\ UNCHANGED <<boot, pic, handlers, cpu, counter, last>>

-----------------------------------------------------------------------------

Boot == \/ SetLogDefaults \/ ReadCmdline \/ PicInit \/ InterruptInit \/ PitInit
        \/ SchedulerInit \/ InterruptEnable

CpuStep == \/ Boot \/ LogPart \/ LogReturn \/ Log \/ Printf \/ Yield \/ CallHalt \/ HaltDisable
           \/ InterruptEntry \/ NoHandler \/ HandlerHalt \/ HaltMessage \/ PitHandler
           \/ InterruptReturn \/ \E v \in Exception : Raise(v)

Next == CpuStep \/ HaltLoop \/ \E l \in Line : Request(l) \/ Deliver(l)

\* The CPU goes on, the timer goes on ticking, and an interrupt that the CPU would take again and
\* again is taken: it looks for one after every instruction.
Fairness == WF_vars(CpuStep) /\ WF_vars(Request(0)) /\ SF_vars(Deliver(0))

Spec == Init /\ [][Next]_vars /\ Fairness

-----------------------------------------------------------------------------
(* Properties.                                                              *)

Halted == stack[cpu] # <<>> /\ Top.kind = "halt" /\ Top.pc = "halted"

\* The interrupts are masked exactly while the kernel boots, and while the stack the CPU is on has
\* an interrupt, a log line or a switch under way: the hard_lock and hard_unlock of log lines, of
\* halt and of schedule(), called by threads or inside the handlers and across switches, neither
\* leak the mask nor lift one they did not set (the critical sections of threads.c's locks are in
\* Threads).  Interrupts therefore never nest, and the stacks do not grow.
MaskMatchesStack ==
  flag <=> /\ Running /\ ~Halted
           /\ \A i \in DOMAIN stack[cpu] : stack[cpu][i].kind \in {"code", "halt"}

\* Whenever an interrupt can come, all is there that it needs: the vectors moved away from the
\* exceptions', the descriptor table, the timer's handler, a current thread for schedule() to
\* preempt, which is the one whose stack the CPU is on.
KernelReady ==
  flag => /\ pic.base = INTERRUPT_PIC_MASTER /\ idt
          /\ handlers[INTERRUPT_PIT] = "pit"
          /\ current = cpu

\* iretq finds the CPU's five words above the two that the wrapper skips, for every vector that
\* came in, with an error code or without.
FramesMatch ==
  \A t \in Thread : \A i \in DOMAIN stack[t] :
     stack[t][i].kind = "interrupt" => stack[t][i].words = 5 + 2

\* Interrupts come only when the boot is done, find their way in and, past either kind of stack
\* frame, out again (main, interrupt-wrappers.S).
InterruptsFindKernel == KernelReady /\ FramesMatch

\* A line of the log is put out in one piece: nothing comes between its parts, from another
\* thread, from a handler, or from printf.
LogLinesWhole ==
  \A t \in Thread : \A i \in DOMAIN stack[t] :
     LET a == stack[t][i]
     IN  a.kind = "log" /\ a.part \in {2, 3} => last = <<t, i, a.part - 1>>

\* After the command line was read, the log's level and coloring are those of the last option of
\* each kind, of the words up to the first that is no option; a name too long for name[] makes
\* all options void.
OptionsApplied ==
  stage = "pic" =>
    /\ settings.level = Setting(cmdline.name, cmdline.words, "L", LEVEL_LOG)
    /\ settings.color = (Setting(cmdline.name, cmdline.words, "C", 0) # 0)

\* A timer interrupt that is requested is taken in the end, or the kernel halts: no device whose
\* interrupts nobody acknowledges, no thread that is preempted in the handler, and no switch to a
\* new thread keeps the controller waiting for an acknowledgement.
TimerGoesOn == (Running /\ 0 \in pic.requested) ~> (0 \notin pic.requested \/ Halted)
=============================================================================
