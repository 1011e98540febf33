------------------------ MODULE Interrupts_proofs --------------------------
(***************************************************************************)
(* Proofs about the interrupts: that the mask always is what lies on the   *)
(* stack says it is, that an interrupt finds the kernel ready and its      *)
(* frame whole, and that no line of the log is torn, for any threads,      *)
(* lines, exceptions and command lines; and that the loop over a command   *)
(* line sets what its options say.  That the timer goes on needs fairness: *)
(* it stays with TLC.                                                      *)
(***************************************************************************)
EXTENDS Interrupts, TLAPS, SequenceTheorems, WellFoundedInduction

(* What can be under way on a stack.                                       *)
Activation ==
  [kind : {"code"}]
    \cup [kind : {"interrupt"}, id : Vector, rflags : BOOLEAN,
          pc : {"entry", "dispatch", "return"}, words : Nat]
    \cup [kind : {"log"}, rflags : BOOLEAN, part : 1 .. 4]
    \cup [kind : {"schedule"}, rflags : BOOLEAN]
    \cup [kind : {"halt"}, pc : {"message", "disable", "halted"}]

Saving    == {"interrupt", "log", "schedule"}  \* the kinds that save the flags
Final(a)  == a.kind = "halt" /\ a.pc = "halted"
Masks(a)  == a.kind \in Saving \/ Final(a)

(* Nothing of the first n activations of s keeps the interrupts masked.    *)
Unmasked(s, n) == \A i \in 1 .. n : ~Masks(s[i])

(* A stack: the thread's code at its bottom; whoever saved the flags saved *)
(* what was right for the stack below it; a log line, a switch and the     *)
(* halted kernel are interrupted by nothing; and before the kernel runs    *)
(* there is only boot code that logs.                                      *)
Stacked(s, run) ==
  /\ s # <<>>
  /\ \A i \in 1 .. Len(s) :
       /\ s[i].kind = "code" <=> i = 1
       /\ s[i].kind \in Saving => (s[i].rflags <=> run /\ Unmasked(s, i - 1))
       /\ s[i].kind \in {"log", "schedule"} \/ Final(s[i]) => i = Len(s)
       /\ s[i].kind = "interrupt" => s[i].words = 7
       /\ s[i].kind \notin {"code", "log"} => run

StackTypes ==
  /\ stack \in [Thread -> Seq(Activation)]
  /\ cpu \in Thread
  /\ flag \in BOOLEAN
  /\ DOMAIN handlers = Vector

(* The CPU's stack says what the flag is, every other one was left by a    *)
(* switch or never used, and while the kernel boots there is one only.     *)
StacksInv ==
  /\ \A t \in Thread : stack[t] # <<>> => Stacked(stack[t], Running)
  /\ \A t \in Thread : stack[t] # <<>> =>
       (stack[t][Len(stack[t])].kind = "schedule" <=> t # cpu)
  /\ stack[cpu] # <<>>
  /\ flag <=> Running /\ Unmasked(stack[cpu], Len(stack[cpu]))
  /\ ~Running => cpu = Main /\ \A t \in Thread : t # Main => stack[t] = <<>>

BootInv ==
  LET done(stages) == stage \notin stages
      start == {"settings", "cmdline", "pic"}
  IN /\ pic \in [base : Nat, requested : SUBSET Line, inService : SUBSET Line]
     /\ done(start) => pic.base = INTERRUPT_PIC_MASTER
     /\ done(start \cup {"interrupts"}) => idt
     /\ done(start \cup {"interrupts", "pit"}) => handlers[INTERRUPT_PIT] = "pit"
     /\ done(start \cup {"interrupts", "pit", "scheduler"}) => current = cpu

InterruptsInv == StackTypes /\ StacksInv /\ BootInv /\ LogLinesWhole
-----------------------------------------------------------------------------
(* Stacks.                                                                 *)

(* The top of s can be interrupted or can call.                            *)
Open(s) == ~(Last(s).kind \in {"log", "schedule"} \/ Final(Last(s)))

(* s is a stack on which the CPU runs with the flag fl.                    *)
Fits(s, fl, run) ==
  /\ s \in Seq(Activation)
  /\ Stacked(s, run)
  /\ fl <=> run /\ Unmasked(s, Len(s))

(* What Append and Front, which the model is made of, do to a stack.       *)
LEMMA AppendIs ==
  ASSUME NEW s \in Seq(Activation), NEW a \in Activation
  PROVE  /\ Append(s, a) \in Seq(Activation)
         /\ Append(s, a) # <<>>
         /\ Len(Append(s, a)) = Len(s) + 1
         /\ \A i \in 1 .. Len(s) : Append(s, a)[i] = s[i]
         /\ Append(s, a)[Len(s) + 1] = a
         /\ Last(Append(s, a)) = a
<1>1. /\ Append(s, a) \in Seq(Activation)
      /\ Append(s, a) # <<>>
      /\ Len(Append(s, a)) = Len(s) + 1
      /\ \A i \in 1 .. Len(s) : Append(s, a)[i] = s[i]
      /\ Append(s, a)[Len(s) + 1] = a
  BY AppendProperties
<1> QED BY <1>1 DEF Last

LEMMA FrontIs ==
  ASSUME NEW s \in Seq(Activation), s # <<>>
  PROVE  /\ Len(s) \in Nat /\ Len(s) > 0
         /\ Front(s) \in Seq(Activation)
         /\ Len(Front(s)) = Len(s) - 1
         /\ \A i \in 1 .. Len(s) - 1 : Front(s)[i] = s[i]
         /\ Last(s) \in Activation
<1>1. Len(s) \in Nat /\ Len(s) > 0
  BY EmptySeq
<1>2. \A i \in 1 .. Len(s) - 1 : s[i] \in Activation
  BY <1>1, ElementOfSeq
<1>3. Len(s) - 1 \in Int /\ 1 \in Int
  BY <1>1
<1>4. /\ SubSeq(s, 1, Len(s) - 1) \in Seq(Activation)
      /\ Len(SubSeq(s, 1, Len(s) - 1))
           = IF 1 <= Len(s) - 1 THEN Len(s) - 1 - 1 + 1 ELSE 0
      /\ \A i \in 1 .. Len(s) - 1 - 1 + 1 : SubSeq(s, 1, Len(s) - 1)[i] = s[1 + i - 1]
  BY <1>2, <1>3, SubSeqProperties
<1>5. Last(s) \in Activation
  BY <1>1, ElementOfSeq DEF Last
<1>6. /\ Front(s) = SubSeq(s, 1, Len(s) - 1)
      /\ Len(s) - 1 - 1 + 1 = Len(s) - 1
  BY <1>1 DEF Front
<1>7. Len(Front(s)) = Len(s) - 1
  BY <1>1, <1>4, <1>6
<1>8. \A i \in 1 .. Len(s) - 1 : 1 + i - 1 = i
  OBVIOUS
<1>9. \A i \in 1 .. Len(s) - 1 : Front(s)[i] = s[i]
  BY <1>4, <1>6, <1>8
<1> HIDE DEF Front, Activation
<1> QED BY <1>1, <1>4, <1>5, <1>6, <1>7, <1>9

(* A call, an interrupt or a switch on an open stack: one that saves the   *)
(* flags masks the interrupts, one that does not leaves them.              *)
LEMMA PushFits ==
  ASSUME NEW s, NEW fl, NEW run, NEW a \in Activation,
         Fits(s, fl, run), Open(s),
         a.kind # "code", a.kind # "log" => run,
         a.kind \in Saving => (a.rflags <=> fl),
         a.kind = "interrupt" => a.words = 7
  PROVE  /\ Masks(a) => Fits(Append(s, a), FALSE, run)
         /\ ~Masks(a) => Fits(Append(s, a), fl, run)
<1> DEFINE n == Len(s)
           p == Append(s, a)
<1>1. /\ s \in Seq(Activation) /\ s # <<>>
      /\ Stacked(s, run)
      /\ fl <=> run /\ Unmasked(s, n)
  BY DEF Fits, Stacked
<1>2. n \in Nat /\ n > 0
  BY <1>1, FrontIs
<1>3. /\ p \in Seq(Activation) /\ p # <<>> /\ Len(p) = n + 1
      /\ \A i \in 1 .. n : p[i] = s[i]
      /\ p[n + 1] = a
  BY <1>1, AppendIs
<1> HIDE DEF n, p, Activation
<1>4. ASSUME NEW i \in 0 .. n
      PROVE  Unmasked(p, i) <=> Unmasked(s, i)
  <2>1. \A j \in 1 .. i : j \in 1 .. n
    BY <1>2
  <2> QED BY <2>1, <1>3 DEF Unmasked
<1>5. Unmasked(p, n + 1) <=> Unmasked(s, n) /\ ~Masks(a)
  <2>1. 1 .. n + 1 = (1 .. n) \cup {n + 1}
    BY <1>2
  <2>2. Unmasked(p, n + 1) <=> Unmasked(p, n) /\ ~Masks(p[n + 1])
    BY <2>1 DEF Unmasked
  <2> QED BY <2>2, <1>2, <1>3, <1>4
<1>6. Stacked(p, run)
  <2> SUFFICES ASSUME NEW i \in 1 .. n + 1
               PROVE  /\ p[i].kind = "code" <=> i = 1
                      /\ p[i].kind \in Saving => (p[i].rflags <=> run /\ Unmasked(p, i - 1))
                      /\ p[i].kind \in {"log", "schedule"} \/ Final(p[i]) => i = n + 1
                      /\ p[i].kind = "interrupt" => p[i].words = 7
                      /\ p[i].kind \notin {"code", "log"} => run
    BY <1>3 DEF Stacked
  <2>1. CASE i = n + 1
    <3>1. p[i] = a /\ i - 1 = n /\ i # 1
      BY <2>1, <1>2, <1>3
    <3>2. Unmasked(p, i - 1) <=> Unmasked(s, n)
      BY <3>1, <1>2, <1>4
    <3> QED BY <3>1, <3>2, <1>1, <2>1
  <2>2. CASE i # n + 1
    <3>1. i \in 1 .. n /\ i - 1 \in 0 .. n /\ p[i] = s[i]
      BY <2>2, <1>2, <1>3
    <3>2. Unmasked(p, i - 1) <=> Unmasked(s, i - 1)
      BY <3>1, <1>4
    <3>3. /\ s[i].kind = "code" <=> i = 1
          /\ s[i].kind \in Saving => (s[i].rflags <=> run /\ Unmasked(s, i - 1))
          /\ s[i].kind \in {"log", "schedule"} \/ Final(s[i]) => i = n
          /\ s[i].kind = "interrupt" => s[i].words = 7
          /\ s[i].kind \notin {"code", "log"} => run
      BY <3>1, <1>1 DEF Stacked, n
    <3>4. ~(s[n].kind \in {"log", "schedule"} \/ Final(s[n]))
      BY DEF Open, Last, n
    <3> QED BY <3>1, <3>2, <3>3, <3>4
  <2> QED BY <2>1, <2>2
<1> QED BY <1>1, <1>3, <1>5, <1>6 DEF Fits, p

(* What is under way returns: the flags it saved are right for the rest.   *)
LEMMA PopFits ==
  ASSUME NEW s, NEW run, s \in Seq(Activation), Stacked(s, run),
         Last(s).kind # "code"
  PROVE  /\ Len(s) > 1
         /\ Front(s) # <<>>
         /\ Stacked(Front(s), run)
         /\ Open(Front(s))
         /\ Last(s).kind \in Saving => Fits(Front(s), Last(s).rflags, run)
<1> DEFINE n == Len(s)
           p == Front(s)
<1>1. /\ s # <<>> /\ n \in Nat /\ n > 0 /\ p \in Seq(Activation)
      /\ Len(p) = n - 1
      /\ \A i \in 1 .. n - 1 : p[i] = s[i]
  BY FrontIs DEF Stacked
<1> HIDE DEF n, p, Activation
<1>2. ASSUME NEW i \in 1 .. n
      PROVE  /\ s[i].kind = "code" <=> i = 1
             /\ s[i].kind \in Saving => (s[i].rflags <=> run /\ Unmasked(s, i - 1))
             /\ s[i].kind \in {"log", "schedule"} \/ Final(s[i]) => i = n
             /\ s[i].kind = "interrupt" => s[i].words = 7
             /\ s[i].kind \notin {"code", "log"} => run
  BY DEF Stacked, n
<1>3. Last(s) = s[n]
  BY DEF Last, n
<1>4. n > 1
  <2>1. n \in 1 .. n
    BY <1>1
  <2>2. n # 1
    BY <2>1, <1>2, <1>3
  <2> QED BY <2>2, <1>1
<1>5. p # <<>>
  <2>1. Len(p) # 0
    BY <1>1, <1>4
  <2> QED BY <2>1, EmptySeq
<1>6. ASSUME NEW i \in 0 .. n - 1
      PROVE  Unmasked(p, i) <=> Unmasked(s, i)
  <2>1. \A j \in 1 .. i : j \in 1 .. n - 1
    BY <1>1
  <2> QED BY <2>1, <1>1 DEF Unmasked
<1>7. Stacked(p, run)
  <2> SUFFICES ASSUME NEW i \in 1 .. n - 1
               PROVE  /\ p[i].kind = "code" <=> i = 1
                      /\ p[i].kind \in Saving => (p[i].rflags <=> run /\ Unmasked(p, i - 1))
                      /\ p[i].kind \in {"log", "schedule"} \/ Final(p[i]) => i = n - 1
                      /\ p[i].kind = "interrupt" => p[i].words = 7
                      /\ p[i].kind \notin {"code", "log"} => run
    BY <1>1, <1>5 DEF Stacked
  <2>1. i \in 1 .. n /\ i # n /\ i - 1 \in 0 .. n - 1 /\ p[i] = s[i]
    BY <1>1
  <2>2. Unmasked(p, i - 1) <=> Unmasked(s, i - 1)
    BY <2>1, <1>6
  <2> QED BY <2>1, <2>2, <1>2
<1>8. Open(p)
  <2>1. n - 1 \in 1 .. n /\ n - 1 # n /\ n - 1 \in 1 .. n - 1
    BY <1>1, <1>4
  <2>2. ~(s[n - 1].kind \in {"log", "schedule"} \/ Final(s[n - 1]))
    BY <2>1, <1>2
  <2>3. Last(p) = s[n - 1]
    BY <2>1, <1>1 DEF Last
  <2> QED BY <2>2, <2>3 DEF Open
<1>9. s[n].kind \in Saving => (s[n].rflags <=> run /\ Unmasked(p, n - 1))
  <2>1. n \in 1 .. n /\ n - 1 \in 0 .. n - 1
    BY <1>1
  <2>2. Unmasked(p, n - 1) <=> Unmasked(s, n - 1)
    BY <2>1, <1>6
  <2> QED BY <2>1, <2>2, <1>2
<1> QED BY <1>1, <1>3, <1>4, <1>5, <1>7, <1>8, <1>9 DEF Fits, n, p

(* halt() saves no flags: the rest of the stack has the same.              *)
LEMMA UncoverFits ==
  ASSUME NEW s, NEW fl, NEW run, Fits(s, fl, run),
         Last(s).kind = "halt", ~Final(Last(s))
  PROVE  /\ Fits(Front(s), fl, run)
         /\ Open(Front(s))
<1> DEFINE n == Len(s)
           p == Front(s)
<1>1. s \in Seq(Activation) /\ Stacked(s, run) /\ (fl <=> run /\ Unmasked(s, n))
  BY DEF Fits
<1>2. s # <<>>
  BY <1>1 DEF Stacked
<1>3. /\ n \in Nat /\ n > 0 /\ p \in Seq(Activation)
      /\ Len(p) = n - 1
      /\ \A i \in 1 .. n - 1 : p[i] = s[i]
  BY <1>1, <1>2, FrontIs
<1>4. Stacked(p, run) /\ Open(p)
  <2>1. Last(s).kind # "code"
    OBVIOUS
  <2> QED BY <2>1, <1>1, PopFits
<1>5. ~Masks(s[n])
  BY DEF Masks, Saving, Last, n
<1> HIDE DEF n, p, Activation
<1>6. Unmasked(s, n) <=> Unmasked(p, n - 1)
  <2>1. 1 .. n = (1 .. n - 1) \cup {n}
    BY <1>3
  <2> QED BY <2>1, <1>3, <1>5 DEF Unmasked
<1> QED BY <1>1, <1>3, <1>4, <1>6 DEF Fits, p

(* The innermost activation goes on to a: it saved the same, and ends up   *)
(* masking the interrupts if it did before.                                *)
LEMMA ReplaceFits ==
  ASSUME NEW s, NEW fl, NEW run, NEW a \in Activation,
         Fits(s, fl, run),
         a.kind = Last(s).kind, a.kind # "code",
         a.kind \in Saving => (a.rflags <=> Last(s).rflags),
         a.kind = "interrupt" => a.words = 7,
         a.kind \notin Saving => a.kind = "halt" /\ ~Final(Last(s))
  PROVE  /\ Masks(a) => Fits(Append(Front(s), a), FALSE, run)
         /\ ~Masks(a) => Fits(Append(Front(s), a), fl, run)
<1>1. s \in Seq(Activation) /\ Stacked(s, run)
  BY DEF Fits
<1>4. a.kind # "log" => run
  <2>1. s # <<>>
    BY <1>1 DEF Stacked
  <2>2. Len(s) \in 1 .. Len(s)
    BY <1>1, <2>1, FrontIs
  <2> QED BY <2>2, <1>1 DEF Stacked, Last
<1>2. CASE a.kind \in Saving
  <2>1. Fits(Front(s), Last(s).rflags, run) /\ Open(Front(s))
    BY <1>1, <1>2, PopFits
  <2>2. Masks(a)
    BY <1>2 DEF Masks
  <2>3. Masks(a) => Fits(Append(Front(s), a), FALSE, run)
    BY <2>1, <1>2, <1>4, PushFits
  <2> QED BY <2>2, <2>3
<1>3. CASE a.kind \notin Saving
  <2>1. Fits(Front(s), fl, run) /\ Open(Front(s))
    BY <1>3, UncoverFits
  <2> QED BY <2>1, <1>3, <1>4, PushFits
<1> QED BY <1>2, <1>3

-----------------------------------------------------------------------------
(* What a step does to the stacks.                                         *)

(* The stack the CPU is on, and its top.                                   *)
LEMMA CpuStack ==
  ASSUME StackTypes, StacksInv
  PROVE  /\ stack[cpu] # <<>>
         /\ stack[cpu] \in Seq(Activation)
         /\ Fits(stack[cpu], flag, Running)
         /\ Top \in Activation
         /\ Last(stack[cpu]) = Top
         /\ Top.kind # "schedule"
         /\ Top.kind # "log" /\ ~Final(Top) => Open(stack[cpu])
         /\ Masks(Top) => flag = FALSE
         /\ Top.kind \notin {"code", "log"} => Running
         /\ Top.kind = "code" <=> Len(stack[cpu]) = 1
         /\ Top.kind = "interrupt" => Top.words = 7
<1> DEFINE s == stack[cpu]
<1> HIDE DEF Activation
<1>1. s \in Seq(Activation) /\ s # <<>>
  BY DEF StackTypes, StacksInv
<1>2. Top \in Activation /\ Len(s) \in 1 .. Len(s) /\ Top = s[Len(s)]
  BY <1>1, FrontIs DEF Top, Last
<1>3. Fits(s, flag, Running)
  BY <1>1 DEF Fits, StackTypes, StacksInv
<1>4. Top.kind # "schedule"
  BY <1>1, <1>2 DEF StackTypes, StacksInv
<1>5. Masks(Top) => flag = FALSE
  BY <1>2 DEF StackTypes, StacksInv, Unmasked
<1>6. /\ Top.kind \notin {"code", "log"} => Running
      /\ Top.kind = "code" <=> Len(s) = 1
      /\ Top.kind = "interrupt" => Top.words = 7
  BY <1>2, <1>3 DEF Fits, Stacked
<1> QED BY <1>1, <1>2, <1>3, <1>4, <1>5, <1>6 DEF Top, Open

(* The CPU stays on its stack, which becomes s.                            *)
LEMMA OwnStack ==
  ASSUME StackTypes, StacksInv, NEW s, OnStack(s),
         Fits(s, flag', Running), Last(s).kind # "schedule",
         flag' \in BOOLEAN,
         UNCHANGED <<cpu, stage, handlers>>
  PROVE  /\ StackTypes' /\ StacksInv'
         /\ stack'[cpu'] = s
<1> HIDE DEF Activation
<1>1. /\ s \in Seq(Activation) /\ s # <<>> /\ Stacked(s, Running)
      /\ flag' <=> Running /\ Unmasked(s, Len(s))
      /\ s[Len(s)].kind # "schedule"
  BY DEF Fits, Stacked, Last
<1>2. cpu \in Thread /\ stack \in [Thread -> Seq(Activation)]
  BY DEF StackTypes
<1>3. /\ stack' \in [Thread -> Seq(Activation)]
      /\ stack'[cpu] = s
      /\ \A t \in Thread : t # cpu => stack'[t] = stack[t]
  BY <1>1, <1>2 DEF OnStack
<1>4. StackTypes'
  BY <1>2, <1>3 DEF StackTypes
<1>5. Running' <=> Running
  BY DEF Running
<1>6. \A t \in Thread : stack'[t] # <<>> => Stacked(stack'[t], Running)
  BY <1>1, <1>3 DEF StacksInv
<1>7. \A t \in Thread : stack'[t] # <<>> =>
        (stack'[t][Len(stack'[t])].kind = "schedule" <=> t # cpu)
  BY <1>1, <1>3 DEF StacksInv
<1>8. ~Running => cpu = Main /\ \A t \in Thread : t # Main => stack'[t] = <<>>
  BY <1>3 DEF StacksInv
<1>9. StacksInv'
  <2>1. Running' = Running
    BY DEF Running
  <2> QED BY <2>1, <1>1, <1>3, <1>6, <1>7, <1>8 DEF StacksInv
<1> QED BY <1>3, <1>4, <1>9

(* A log line is on top of the stack the CPU is on; so after a step it is  *)
(* enough to look there.                                                   *)
LEMMA LinesWhole ==
  ASSUME StackTypes', StacksInv',
         Top'.kind = "log" /\ Top'.part \in {2, 3} =>
           last' = <<cpu', Len(stack'[cpu']), Top'.part - 1>>
  PROVE  LogLinesWhole'
<1> HIDE DEF Activation
<1> SUFFICES ASSUME NEW t \in Thread, NEW i \in DOMAIN stack'[t],
                    stack'[t][i].kind = "log"
             PROVE  t = cpu' /\ i = Len(stack'[t])
  BY DEF LogLinesWhole, Top, Last
<1>1. stack'[t] \in Seq(Activation)
  BY DEF StackTypes
<1>2. i \in 1 .. Len(stack'[t]) /\ Len(stack'[t]) \in Nat
  BY <1>1
<1>3. stack'[t] # <<>>
  BY <1>2
<1>4. Stacked(stack[t], Running)'
  BY <1>3 DEF StacksInv
<1>5. i = Len(stack'[t])
  BY <1>2, <1>4 DEF Stacked
<1> QED BY <1>3, <1>5 DEF StacksInv

(* log_tagged called on an open stack.                                     *)
LEMMA CallLogStep ==
  ASSUME StackTypes, StacksInv, NEW s, NEW level,
         Fits(s, flag, Running), Open(s),
         CallLog(level, s),
         UNCHANGED <<cpu, stage, handlers>>
  PROVE  /\ StackTypes' /\ StacksInv'
         /\ Top'.kind = "log" => Top'.part = 1
<1>1. Last(s).kind # "schedule" /\ Last(s).kind # "log" /\ flag \in BOOLEAN
  BY DEF Open, StackTypes
<1>2. CASE OnStack(s) /\ UNCHANGED flag
  <2>1. Fits(s, flag', Running) /\ flag' \in BOOLEAN
    BY <1>1, <1>2
  <2>2. StackTypes' /\ StacksInv' /\ stack'[cpu'] = s
    BY <2>1, <1>1, <1>2, OwnStack
  <2> QED BY <2>2, <1>1 DEF Top
<1>3. CASE OnStack(Append(s, Logging(flag))) /\ flag' = FALSE
  <2> DEFINE a == Logging(flag)
  <2>1. /\ a \in Activation /\ a.kind = "log" /\ a.part = 1 /\ a.rflags = flag
    BY <1>1 DEF Logging, Activation
  <2>2. Masks(a)
    BY <2>1 DEF Masks, Saving
  <2>3. s \in Seq(Activation)
    BY DEF Fits
  <2> HIDE DEF a, Activation
  <2>4. Fits(Append(s, a), FALSE, Running)
    BY <2>1, <2>2, PushFits
  <2>5. Last(Append(s, a)) = a
    BY <2>1, <2>3, AppendIs
  <2>6. Fits(Append(s, a), flag', Running) /\ flag' \in BOOLEAN /\ OnStack(Append(s, a))
    BY <2>4, <1>3 DEF a
  <2>7. StackTypes' /\ StacksInv' /\ stack'[cpu'] = Append(s, a)
    BY <2>1, <2>5, <2>6, OwnStack
  <2> QED BY <2>1, <2>5, <2>7 DEF Top
<1> QED BY <1>2, <1>3 DEF CallLog

(* schedule() called on an open stack.                                     *)
LEMMA ScheduleStep ==
  ASSUME StackTypes, StacksInv, Running, NEW s, NEW u \in Thread,
         Fits(s, flag, Running), Open(s),
         Schedule(s, flag, u),
         UNCHANGED <<stage, handlers>>
  PROVE  /\ StackTypes' /\ StacksInv'
         /\ Top'.kind # "log"
         /\ current' = cpu'
<1> HIDE DEF Activation
<1>1. Last(s).kind # "schedule" /\ Last(s).kind # "log"
  BY DEF Open
<1>2. flag \in BOOLEAN /\ cpu \in Thread /\ stack \in [Thread -> Seq(Activation)]
  BY DEF StackTypes
<1>3. current' = cpu' /\ cpu' = u
  BY DEF Schedule
<1>4. CASE u = cpu
  <2>1. OnStack(s) /\ flag' = flag
    BY <1>4 DEF Schedule, HardUnlock
  <2>2. Fits(s, flag', Running) /\ flag' \in BOOLEAN /\ cpu' = cpu
    BY <2>1, <1>2, <1>3, <1>4
  <2>3. StackTypes' /\ StacksInv' /\ stack'[cpu'] = s
    BY <2>1, <2>2, <1>1, OwnStack
  <2> QED BY <2>3, <1>1, <1>3 DEF Top
<1>5. ASSUME u # cpu,
             NEW v \in Seq(Activation), v # <<>>, Fits(v, flag', Running), flag' \in BOOLEAN,
             Last(v).kind # "schedule", Last(v).kind # "log",
             stack' = [stack EXCEPT ![cpu] = Append(s, Switched(flag)), ![u] = v]
      PROVE  StackTypes' /\ StacksInv' /\ Top'.kind # "log"
  <2> DEFINE a == Switched(flag)
             q == Append(s, a)
  <2>1. a \in Activation /\ a.kind = "schedule" /\ a.rflags = flag
    BY <1>2 DEF Switched, Activation
  <2>2. Masks(a)
    BY <2>1 DEF Masks, Saving
  <2>3. s \in Seq(Activation)
    BY DEF Fits
  <2> HIDE DEF a
  <2>4. Fits(q, FALSE, Running)
    BY <2>1, <2>2, PushFits
  <2>5. q \in Seq(Activation) /\ q # <<>> /\ q[Len(q)] = a
    BY <2>1, <2>3, AppendIs DEF Last
  <2>6. stack' = [stack EXCEPT ![cpu] = q, ![u] = v]
    BY <1>5 DEF a
  <2> HIDE DEF q
  <2>7. /\ stack' \in [Thread -> Seq(Activation)]
        /\ stack'[cpu] = q /\ stack'[u] = v
        /\ \A t \in Thread : t # cpu /\ t # u => stack'[t] = stack[t]
    BY <2>5, <2>6, <1>2, <1>5
  <2>8. StackTypes'
    BY <2>7, <1>2, <1>3, <1>5 DEF StackTypes
  <2>9. Stacked(q, Running) /\ Stacked(v, Running) /\ (flag' <=> Running /\ Unmasked(v, Len(v)))
    BY <2>4, <1>5 DEF Fits
  <2>10. \A t \in Thread : stack'[t] # <<>> => Stacked(stack'[t], Running)
    BY <2>7, <2>9 DEF StacksInv
  <2>11. \A t \in Thread : stack'[t] # <<>> =>
           (stack'[t][Len(stack'[t])].kind = "schedule" <=> t # u)
    BY <2>1, <2>5, <2>7, <1>5 DEF StacksInv, Last
  <2>12. Running' = Running
    BY DEF Running
  <2>13. StacksInv'
    BY <2>7, <2>9, <2>10, <2>11, <2>12, <1>3, <1>5 DEF StacksInv
  <2> QED BY <2>7, <2>8, <2>13, <1>3, <1>5 DEF Top
<1>6. CASE u # cpu /\ stack[u] = <<>>
  <2> DEFINE v == <<Code>>
  <2>1. /\ v \in Seq(Activation) /\ v # <<>> /\ Len(v) = 1 /\ v[1] = Code
    BY DEF Code, Activation
  <2>2. Unmasked(v, 1) /\ Last(v).kind = "code"
    BY <2>1 DEF Unmasked, Masks, Final, Saving, Last, Code
  <2>3. Stacked(v, Running)
    BY <2>1 DEF Stacked, Code, Saving, Final
  <2>4. flag' = TRUE /\ stack' = [stack EXCEPT ![cpu] = Append(s, Switched(flag)), ![u] = v]
    BY <1>6 DEF Schedule
  <2>5. Fits(v, flag', Running)
    BY <2>1, <2>2, <2>3, <2>4 DEF Fits
  <2> HIDE DEF v
  <2> QED BY <2>1, <2>2, <2>4, <2>5, <1>3, <1>5, <1>6
<1>7. CASE u # cpu /\ stack[u] # <<>>
  <2> DEFINE v == Front(stack[u])
  <2>1. /\ flag' = Last(stack[u]).rflags
        /\ stack' = [stack EXCEPT ![cpu] = Append(s, Switched(flag)), ![u] = v]
    BY <1>2, <1>7 DEF Schedule, HardUnlock
  <2>2. stack[u] \in Seq(Activation) /\ Stacked(stack[u], Running)
    BY <1>2, <1>7 DEF StacksInv
  <2>3. Last(stack[u]).kind = "schedule"
    BY <1>7 DEF StacksInv, Last
  <2>4. Last(stack[u]) \in Activation
    BY <2>2, <1>7, FrontIs
  <2>5. Last(stack[u]).rflags \in BOOLEAN
    BY <2>3, <2>4 DEF Activation
  <2>6. v # <<>> /\ Open(v) /\ Fits(v, Last(stack[u]).rflags, Running)
    <3>1. Last(stack[u]).kind # "code" /\ Last(stack[u]).kind \in Saving
      BY <2>3 DEF Saving
    <3> QED BY <3>1, <2>2, PopFits
  <2>7. /\ v \in Seq(Activation) /\ Last(v).kind # "schedule" /\ Last(v).kind # "log"
    BY <2>6 DEF Fits, Open
  <2>8. Fits(v, flag', Running) /\ flag' \in BOOLEAN
    BY <2>1, <2>5, <2>6
  <2> HIDE DEF v
  <2> QED BY <2>1, <2>6, <2>7, <2>8, <1>3, <1>5, <1>7
<1> QED BY <1>3, <1>4, <1>6, <1>7

(* A handler goes on at another point.                                     *)
LEMMA ThenFits ==
  ASSUME StackTypes, StacksInv, Top.kind = "interrupt",
         NEW p \in {"dispatch", "return"}
  PROVE  /\ Fits(Then(p), flag, Running)
         /\ Open(Then(p))
         /\ Last(Then(p)).kind = "interrupt"
         /\ flag = FALSE /\ Running
<1> DEFINE a == [Top EXCEPT !.pc = p]
<1> USE CpuStack
<1>1. /\ a \in Activation /\ a.kind = "interrupt"
      /\ a.rflags = Top.rflags /\ a.words = Top.words
  BY DEF Activation
<1>2. Masks(a) /\ Masks(Top)
  BY <1>1 DEF Masks, Saving
<1>3. flag = FALSE /\ Running
  BY <1>2
<1> HIDE DEF Activation, a
<1>4. Fits(Append(Front(stack[cpu]), a), FALSE, Running)
  BY <1>1, <1>2, ReplaceFits DEF Saving
<1>5. Front(stack[cpu]) \in Seq(Activation)
  BY FrontIs
<1>6. Last(Append(Front(stack[cpu]), a)) = a
  BY <1>1, <1>5, AppendIs
<1>7. Then(p) = Append(Front(stack[cpu]), a)
  BY DEF Then, Calls, a
<1>8. Final(a) = FALSE
  BY <1>1 DEF Final
<1> QED BY <1>1, <1>3, <1>4, <1>6, <1>7, <1>8 DEF Open

(* The boot is not disturbed by what comes after it.                       *)
LEMMA BootKept ==
  ASSUME BootInv,
         pic' \in [base : Nat, requested : SUBSET Line, inService : SUBSET Line],
         pic'.base = pic.base,
         UNCHANGED <<stage, idt, handlers>>,
         current' = cpu' \/ UNCHANGED <<current, cpu>>
  PROVE  BootInv'
BY DEF BootInv

-----------------------------------------------------------------------------
(* The steps.                                                              *)

LEMMA InvInit == Init => InterruptsInv
<1> SUFFICES ASSUME Init PROVE InterruptsInv
  OBVIOUS
<1> DEFINE s == <<Code>>
<1>1. Main \in Thread
  BY InterruptsAssumption
<1>2. s \in Seq(Activation) /\ s # <<>> /\ Len(s) = 1 /\ s[1] = Code /\ <<>> \in Seq(Activation)
  BY DEF Code, Activation
<1> HIDE DEF Activation, s
<1>3. stack \in [Thread -> Seq(Activation)] /\ stack[Main] = s
      /\ \A t \in Thread : t # Main => stack[t] = <<>>
  BY <1>1, <1>2 DEF Init, s
<1>4. StackTypes
  BY <1>1, <1>3 DEF Init, StackTypes
<1>5. Stacked(s, Running)
  BY <1>2 DEF Stacked, Code, Saving, Final
<1>6. ~Running /\ cpu = Main /\ flag = FALSE
  BY DEF Init, Running
<1>7. StacksInv
  <2>1. \A t \in Thread : stack[t] # <<>> => Stacked(stack[t], Running)
    BY <1>3, <1>5
  <2>2. \A t \in Thread : stack[t] # <<>> =>
          (stack[t][Len(stack[t])].kind = "schedule" <=> t # cpu)
    BY <1>2, <1>3, <1>6 DEF Code
  <2> QED BY <2>1, <2>2, <1>2, <1>3, <1>6 DEF StacksInv
<1>8. BootInv
  BY DEF Init, BootInv
<1>9. LogLinesWhole
  BY <1>2, <1>3 DEF LogLinesWhole, Code
<1> QED BY <1>4, <1>7, <1>8, <1>9 DEF InterruptsInv

(* main() goes on: only the last stage, which starts the kernel, touches   *)
(* what the stacks are measured with.                                      *)
LEMMA BootStep == InterruptsInv /\ Boot => InterruptsInv'
<1> SUFFICES ASSUME InterruptsInv, Boot PROVE InterruptsInv'
  OBVIOUS
<1> USE DEF InterruptsInv
<1> HIDE DEF Activation
<1>1. Top = Code /\ UNCHANGED <<cpu, stack, counter, last>>
  BY DEF Boot, SetLogDefaults, ReadCmdline, PicInit, InterruptInit, PitInit, SchedulerInit,
         InterruptEnable, Stage
<1>2. ~Running
  BY DEF Boot, SetLogDefaults, ReadCmdline, PicInit, InterruptInit, PitInit, SchedulerInit,
         InterruptEnable, Stage, Running
<1>3. 0 \in Line /\ INTERRUPT_PIT \in Vector
  BY InterruptsAssumption DEF INTERRUPT_PIT, INTERRUPT_PIC_MASTER, Vector
<1>4. LogLinesWhole'
  BY <1>1 DEF LogLinesWhole
<1>5. CASE InterruptEnable
  <2>1. stage' = "running" /\ flag' = TRUE /\ UNCHANGED <<pic, idt, handlers, current>>
    BY <1>5 DEF InterruptEnable, Stage
  <2>2. Running' = TRUE
    BY <2>1 DEF Running
  <2>3. StackTypes'
    BY <1>1, <2>1 DEF StackTypes
  <2>4. /\ cpu = Main /\ \A t \in Thread : t # Main => stack[t] = <<>>
        /\ Len(stack[cpu]) = 1 /\ stack[cpu][1] = Code
    <3>1. cpu = Main /\ \A t \in Thread : t # Main => stack[t] = <<>>
      BY <1>2 DEF StacksInv
    <3>2. Len(stack[cpu]) = 1
      BY <1>1, CpuStack DEF Code
    <3>3. stack[cpu][1] = Code
      BY <3>2, <1>1 DEF Top, Last
    <3> QED BY <3>1, <3>2, <3>3
  <2>5. Stacked(stack[cpu], TRUE) /\ Unmasked(stack[cpu], 1)
    BY <2>4, CpuStack DEF Stacked, Code, Saving, Final, Unmasked, Masks
  <2>6. StacksInv'
    BY <1>1, <2>1, <2>2, <2>4, <2>5, CpuStack DEF StacksInv, Code
  <2>7. BootInv'
    BY <1>1, <1>5, <2>1 DEF BootInv, InterruptEnable, Stage
  <2> QED BY <1>4, <2>3, <2>6, <2>7
<1>6. CASE ~InterruptEnable
  <2>1. ~Running' /\ flag' = flag
    BY <1>6 DEF Boot, SetLogDefaults, ReadCmdline, PicInit, InterruptInit, PitInit, SchedulerInit,
                Stage, Running
  <2>2. DOMAIN handlers' = Vector
    BY <1>6 DEF Boot, SetLogDefaults, ReadCmdline, PicInit, InterruptInit, PitInit, SchedulerInit,
                StackTypes
  <2>3. StackTypes'
    BY <1>1, <2>1, <2>2 DEF StackTypes
  <2>4. Running' = Running
    BY <1>2, <2>1 DEF Running
  <2>5. StacksInv'
    BY <1>1, <2>1, <2>4 DEF StacksInv
  <2>6. BootInv'
    <3>1. CASE SetLogDefaults \/ ReadCmdline
      BY <3>1, <1>1 DEF BootInv, SetLogDefaults, ReadCmdline, Stage
    <3>2. CASE PicInit
      BY <3>2, <1>1 DEF BootInv, PicInit, Stage, INTERRUPT_PIC_MASTER
    <3>3. CASE InterruptInit
      BY <3>3, <1>1 DEF BootInv, InterruptInit, Stage
    <3>4. CASE PitInit
      BY <3>4, <1>1, <1>3 DEF BootInv, PitInit, Stage, StackTypes
    <3>5. CASE SchedulerInit
      BY <3>5, <1>1, <1>2 DEF BootInv, SchedulerInit, Stage, StacksInv
    <3> QED BY <3>1, <3>2, <3>3, <3>4, <3>5, <1>6 DEF Boot
  <2> QED BY <1>4, <2>3, <2>5, <2>6
<1> QED BY <1>5, <1>6

(* The CPU's stack becomes s, the rest of the log line on top of it, if    *)
(* there is one, still to come.                                            *)
LEMMA OwnStep ==
  ASSUME InterruptsInv, NEW s, OnStack(s),
         Fits(s, flag', Running), Last(s).kind # "schedule", flag' \in BOOLEAN,
         Last(s).kind = "log" /\ Last(s).part \in {2, 3} =>
           last' = <<cpu, Len(s), Last(s).part - 1>>,
         UNCHANGED <<boot, handlers, cpu>>,
         pic' \in [base : Nat, requested : SUBSET Line, inService : SUBSET Line],
         pic'.base = pic.base
  PROVE  InterruptsInv'
<1>1. StackTypes' /\ StacksInv' /\ stack'[cpu'] = s
  BY OwnStack DEF InterruptsInv, boot
<1>2. LogLinesWhole'
  BY <1>1, LinesWhole DEF Top
<1>3. BootInv'
  BY BootKept DEF InterruptsInv, boot
<1> QED BY <1>1, <1>2, <1>3 DEF InterruptsInv

(* A step that calls the log on an open stack.                             *)
LEMMA LoggingStep ==
  ASSUME InterruptsInv, NEW s, NEW level,
         Fits(s, flag, Running), Open(s), CallLog(level, s),
         UNCHANGED <<boot, pic, handlers, cpu>>
  PROVE  InterruptsInv'
<1>1. StackTypes' /\ StacksInv' /\ (Top'.kind = "log" => Top'.part = 1)
  BY CallLogStep DEF InterruptsInv, boot
<1>2. LogLinesWhole'
  BY <1>1, LinesWhole
<1>3. BootInv'
  BY BootKept DEF InterruptsInv, boot, BootInv
<1> QED BY <1>1, <1>2, <1>3 DEF InterruptsInv

LEMMA LogPartStep == InterruptsInv /\ LogPart => InterruptsInv'
<1> SUFFICES ASSUME InterruptsInv, LogPart PROVE InterruptsInv'
  OBVIOUS
<1> DEFINE a == [Top EXCEPT !.part = @ + 1]
           s == Append(Front(stack[cpu]), a)
<1>1. /\ StackTypes /\ StacksInv /\ BootInv
      /\ Top.kind = "log" /\ Top.part <= 3
      /\ last' = IF Top.part = 3 THEN <<>> ELSE <<cpu, Len(stack[cpu]), Top.part>>
      /\ OnStack(s)
      /\ UNCHANGED <<boot, pic, handlers, flag, cpu>>
  BY DEF LogPart, InterruptsInv, Calls
<1> HIDE DEF Activation
<1>2. /\ Top \in Activation /\ stack[cpu] \in Seq(Activation) /\ stack[cpu] # <<>>
      /\ Fits(stack[cpu], flag, Running) /\ Last(stack[cpu]) = Top
      /\ Masks(Top) => flag = FALSE
  BY <1>1, CpuStack
<1>3. /\ a \in Activation /\ a.kind = "log" /\ a.rflags = Top.rflags
      /\ Top.part \in 1 .. 3 /\ a.part = Top.part + 1
  BY <1>1, <1>2 DEF Activation
<1>4. Masks(a) /\ Masks(Top)
  BY <1>1, <1>3 DEF Masks, Saving
<1> HIDE DEF a
<1>5. Fits(s, FALSE, Running)
  <2>1. a.kind = Last(stack[cpu]).kind /\ a.rflags = Last(stack[cpu]).rflags /\ a.kind \in Saving
    BY <1>1, <1>2, <1>3 DEF Saving
  <2> QED BY <2>1, <1>2, <1>3, <1>4, ReplaceFits
<1>6. /\ Front(stack[cpu]) \in Seq(Activation)
      /\ Len(Front(stack[cpu])) = Len(stack[cpu]) - 1
      /\ Len(stack[cpu]) \in Nat
  BY <1>2, FrontIs
<1>7. Last(s) = a /\ Len(s) = Len(stack[cpu])
  BY <1>3, <1>6, AppendIs
<1>8. Last(s).kind = "log" /\ Last(s).part \in {2, 3} =>
        last' = <<cpu, Len(s), Last(s).part - 1>>
  BY <1>1, <1>3, <1>7
<1>9. Fits(s, flag', Running) /\ flag' \in BOOLEAN /\ Last(s).kind # "schedule"
  BY <1>1, <1>2, <1>3, <1>4, <1>5, <1>7
<1>10. /\ pic' \in [base : Nat, requested : SUBSET Line, inService : SUBSET Line]
       /\ pic'.base = pic.base
  BY <1>1 DEF BootInv
<1> HIDE DEF s
<1> QED BY <1>1, <1>8, <1>9, <1>10, OwnStep

(* Both returns lift the mask if what they saved says so.                  *)
LEMMA ReturnStep ==
  ASSUME InterruptsInv, Top.kind \in {"log", "interrupt"},
         flag' = Top.rflags, OnStack(Calls),
         UNCHANGED <<boot, pic, handlers, cpu>>
  PROVE  InterruptsInv'
<1> DEFINE s == Front(stack[cpu])
<1>1. StackTypes /\ StacksInv /\ BootInv
  BY DEF InterruptsInv
<1> HIDE DEF Activation
<1>2. /\ Top \in Activation /\ stack[cpu] \in Seq(Activation)
      /\ Stacked(stack[cpu], Running) /\ Last(stack[cpu]) = Top
  BY <1>1, CpuStack DEF Fits
<1>3. Top.rflags \in BOOLEAN
  BY <1>2 DEF Activation
<1>4. Fits(s, Top.rflags, Running) /\ Open(s)
  <2>1. Last(stack[cpu]).kind # "code" /\ Last(stack[cpu]).kind \in Saving
    BY <1>2 DEF Saving
  <2> QED BY <2>1, <1>2, PopFits
<1>5. Last(s).kind # "schedule" /\ Last(s).kind # "log"
  BY <1>4 DEF Open
<1>6. Fits(s, flag', Running) /\ flag' \in BOOLEAN /\ OnStack(s)
  BY <1>3, <1>4 DEF Calls
<1>7. /\ pic' \in [base : Nat, requested : SUBSET Line, inService : SUBSET Line]
      /\ pic'.base = pic.base
  BY <1>1 DEF BootInv
<1> HIDE DEF s
<1> QED BY <1>5, <1>6, <1>7, OwnStep

(* An interrupt or an exception comes in.                                  *)
LEMMA EnterStep ==
  ASSUME InterruptsInv, Running, Open(stack[cpu]), NEW v \in Vector, Enter(v),
         UNCHANGED <<boot, handlers, cpu>>,
         pic' \in [base : Nat, requested : SUBSET Line, inService : SUBSET Line],
         pic'.base = pic.base
  PROVE  InterruptsInv'
<1> DEFINE a == Interrupt(v, flag)
           s == Append(stack[cpu], a)
<1>1. StackTypes /\ StacksInv
  BY DEF InterruptsInv
<1>2. CpuWords(v) + WrapperWords(v) = 7
  BY InterruptsAssumption DEF CpuWords, WrapperWords, Vector, INTERRUPT_PIC_MASTER
<1>3. a \in Activation /\ a.kind = "interrupt" /\ a.words = 7 /\ a.rflags = flag
  BY <1>1, <1>2 DEF Interrupt, Activation, StackTypes
<1> HIDE DEF Activation
<1>4. Fits(stack[cpu], flag, Running) /\ stack[cpu] \in Seq(Activation)
  BY <1>1, CpuStack
<1>5. Masks(a)
  BY <1>3 DEF Masks, Saving
<1>6. OnStack(s) /\ flag' = FALSE
  BY DEF Enter
<1> HIDE DEF a
<1>7. Fits(s, FALSE, Running)
  BY <1>3, <1>4, <1>5, PushFits
<1>8. Last(s) = a
  BY <1>3, <1>4, AppendIs
<1>9. Fits(s, flag', Running) /\ flag' \in BOOLEAN
  BY <1>6, <1>7
<1> HIDE DEF s
<1> QED BY <1>3, <1>6, <1>8, <1>9, OwnStep

(* halt() is called on an open stack.                                      *)
LEMMA HaltingFits ==
  ASSUME NEW s, NEW fl, NEW run, Fits(s, fl, run), Open(s), run,
         NEW p \in {"message", "disable"}
  PROVE  /\ Fits(Append(s, Halting(p)), fl, run)
         /\ Open(Append(s, Halting(p)))
<1> DEFINE a == Halting(p)
<1>1. a \in Activation /\ a.kind = "halt" /\ a.pc # "halted"
  BY DEF Halting, Activation
<1>2. ~Masks(a) /\ a.kind \notin Saving
  BY <1>1 DEF Masks, Final, Saving
<1>3. s \in Seq(Activation)
  BY DEF Fits
<1> HIDE DEF a, Activation
<1>4. Fits(Append(s, a), fl, run)
  BY <1>1, <1>2, PushFits
<1>5. Last(Append(s, a)) = a
  BY <1>1, <1>3, AppendIs
<1> QED BY <1>1, <1>4, <1>5 DEF Open, Final, a

LEMMA HaltSteps == InterruptsInv /\ (CallHalt \/ HandlerHalt \/ HaltMessage \/ HaltDisable)
                     => InterruptsInv'
<1> SUFFICES ASSUME InterruptsInv, CallHalt \/ HandlerHalt \/ HaltMessage \/ HaltDisable
             PROVE  InterruptsInv'
  OBVIOUS
<1>1. StackTypes /\ StacksInv /\ BootInv
  BY DEF InterruptsInv
<1> HIDE DEF Activation
<1>2. /\ Top \in Activation /\ stack[cpu] \in Seq(Activation) /\ stack[cpu] # <<>>
      /\ Fits(stack[cpu], flag, Running) /\ Last(stack[cpu]) = Top
      /\ Top.kind # "log" /\ ~Final(Top) => Open(stack[cpu])
      /\ Top.kind \notin {"code", "log"} => Running
  BY <1>1, CpuStack
<1>3. CASE CallHalt
  <2> DEFINE s == Append(stack[cpu], Halting("disable"))
  <2>1. Running /\ CallLog(LEVEL_FAULT, s) /\ UNCHANGED <<boot, pic, handlers, cpu>>
    BY <1>3 DEF CallHalt
  <2>2. Open(stack[cpu])
    BY <1>2, <1>3 DEF CallHalt, Code, Final
  <2>3. Fits(s, flag, Running) /\ Open(s)
    BY <1>2, <2>1, <2>2, HaltingFits
  <2> HIDE DEF s
  <2> QED BY <2>1, <2>3, LoggingStep
<1>4. CASE HandlerHalt
  <2> DEFINE r == Then("return")
             s == Append(r, Halting("message"))
  <2>1. Top.kind = "interrupt" /\ CallLog(LEVEL_ERROR, s) /\ UNCHANGED <<boot, pic, handlers, cpu>>
    BY <1>4 DEF HandlerHalt, At
  <2>2. Fits(r, flag, Running) /\ Open(r) /\ Running
    BY <1>1, <2>1, ThenFits
  <2> HIDE DEF r
  <2>3. Fits(s, flag, Running) /\ Open(s)
    BY <2>2, HaltingFits
  <2> HIDE DEF s
  <2> QED BY <2>1, <2>3, LoggingStep
<1>5. ASSUME NEW p \in {"disable", "halted"}, Top.kind = "halt", Top.pc # "halted"
      PROVE  /\ Last(Then(p)) = [kind |-> "halt", pc |-> p]
             /\ p = "halted" => Fits(Then(p), FALSE, Running)
             /\ p # "halted" => Fits(Then(p), flag, Running)
  <2> DEFINE a == [Top EXCEPT !.pc = p]
  <2>1. a \in Activation /\ a = [kind |-> "halt", pc |-> p] /\ a.kind = "halt" /\ a.pc = p
    BY <1>2, <1>5 DEF Activation
  <2>2. Masks(a) <=> p = "halted"
    BY <2>1 DEF Masks, Saving, Final
  <2>3. ~Final(Top) /\ a.kind \notin Saving /\ a.kind = Top.kind
    BY <1>5, <2>1 DEF Final, Saving
  <2>4. Then(p) = Append(Front(stack[cpu]), a)
    BY DEF Then, Calls
  <2>5. Front(stack[cpu]) \in Seq(Activation)
    BY <1>2, FrontIs
  <2> HIDE DEF a
  <2>6. Last(Then(p)) = a
    BY <2>1, <2>4, <2>5, AppendIs
  <2>7. /\ Masks(a) => Fits(Append(Front(stack[cpu]), a), FALSE, Running)
        /\ ~Masks(a) => Fits(Append(Front(stack[cpu]), a), flag, Running)
    BY <1>2, <2>1, <2>3, ReplaceFits
  <2> QED BY <2>1, <2>2, <2>4, <2>6, <2>7
<1>6. CASE HaltMessage
  <2> DEFINE s == Then("disable")
  <2>1. /\ Top.kind = "halt" /\ Top.pc # "halted"
        /\ CallLog(LEVEL_FAULT, s) /\ UNCHANGED <<boot, pic, handlers, cpu>>
    BY <1>6 DEF HaltMessage, At
  <2>2. Last(s) = [kind |-> "halt", pc |-> "disable"] /\ Fits(s, flag, Running)
    BY <1>5, <2>1
  <2>3. Open(s)
    BY <2>2 DEF Open, Final
  <2> HIDE DEF s
  <2> QED BY <2>1, <2>2, <2>3, LoggingStep
<1>7. CASE HaltDisable
  <2> DEFINE s == Then("halted")
  <2>1. /\ Top.kind = "halt" /\ Top.pc # "halted"
        /\ OnStack(s) /\ flag' = FALSE /\ UNCHANGED <<boot, pic, handlers, cpu>>
    BY <1>7 DEF HaltDisable, At
  <2>2. Last(s) = [kind |-> "halt", pc |-> "halted"] /\ Fits(s, FALSE, Running)
    BY <1>5, <2>1
  <2>3. /\ pic' \in [base : Nat, requested : SUBSET Line, inService : SUBSET Line]
        /\ pic'.base = pic.base
    BY <1>1, <2>1 DEF BootInv
  <2>4. Fits(s, flag', Running) /\ flag' \in BOOLEAN
    BY <2>1, <2>2
  <2>5. Last(s).kind # "schedule" /\ Last(s).kind # "log"
    BY <2>2
  <2>6. OnStack(s) /\ UNCHANGED <<boot, handlers, cpu>>
    BY <2>1
  <2> HIDE DEF s
  <2> QED BY <2>3, <2>4, <2>5, <2>6, OwnStep
<1> QED BY <1>3, <1>4, <1>6, <1>7

(* A switch.                                                               *)
LEMMA SwitchStep ==
  ASSUME InterruptsInv, Running, NEW s, NEW u \in Thread,
         Fits(s, flag, Running), Open(s), Schedule(s, flag, u),
         UNCHANGED <<stage, idt, handlers>>,
         pic' \in [base : Nat, requested : SUBSET Line, inService : SUBSET Line],
         pic'.base = pic.base
  PROVE  InterruptsInv'
<1>1. StackTypes' /\ StacksInv' /\ Top'.kind # "log" /\ current' = cpu'
  BY ScheduleStep DEF InterruptsInv
<1>2. LogLinesWhole'
  BY <1>1, LinesWhole
<1>3. BootInv'
  BY <1>1, BootKept DEF InterruptsInv
<1> QED BY <1>1, <1>2, <1>3 DEF InterruptsInv

LEMMA PitHandlerStep == InterruptsInv /\ PitHandler => InterruptsInv'
<1> SUFFICES ASSUME InterruptsInv, PitHandler PROVE InterruptsInv'
  OBVIOUS
<1> DEFINE s == Then("return")
<1>1. Top.kind = "interrupt" /\ StackTypes /\ StacksInv /\ BootInv
  BY DEF PitHandler, At, InterruptsInv
<1>2. /\ Fits(s, flag, Running) /\ Open(s) /\ Last(s).kind = "interrupt"
      /\ flag = FALSE /\ Running
  BY <1>1, ThenFits
<1>3. /\ pic' \in [base : Nat, requested : SUBSET Line, inService : SUBSET Line]
      /\ pic'.base = pic.base
  BY <1>1 DEF PitHandler, Acknowledged, BootInv
<1>4. \/ OnStack(s) /\ UNCHANGED <<flag, cpu, current, last>>
      \/ \E u \in Thread : Schedule(s, flag, u)
  BY DEF PitHandler
<1>5. UNCHANGED <<stage, cmdline, settings, idt, handlers>>
  BY DEF PitHandler
<1> HIDE DEF s
<1>6. CASE OnStack(s) /\ UNCHANGED <<flag, cpu, current, last>>
  <2>1. Fits(s, flag', Running) /\ flag' \in BOOLEAN
    BY <1>2, <1>6
  <2>2. UNCHANGED <<boot, handlers, cpu>>
    BY <1>5, <1>6 DEF boot
  <2> QED BY <1>2, <1>3, <1>6, <2>1, <2>2, OwnStep
<1>7. CASE \E u \in Thread : Schedule(s, flag, u)
  <2>1. PICK u \in Thread : Schedule(s, flag, u)
    BY <1>7
  <2> QED BY <2>1, <1>2, <1>3, <1>5, SwitchStep
<1> QED BY <1>4, <1>6, <1>7

LEMMA InvNext == InterruptsInv /\ [Next]_vars => InterruptsInv'
<1> SUFFICES ASSUME InterruptsInv, [Next]_vars PROVE InterruptsInv'
  OBVIOUS
<1>1. StackTypes /\ StacksInv /\ BootInv
  BY DEF InterruptsInv
<1> HIDE DEF Activation
<1>2. /\ Fits(stack[cpu], flag, Running) /\ Last(stack[cpu]) = Top
      /\ Top.kind # "log" /\ ~Final(Top) => Open(stack[cpu])
      /\ Masks(Top) => flag = FALSE
      /\ flag => Running
  BY <1>1, CpuStack DEF StacksInv
<1>3. Top = Code => Open(stack[cpu])
  BY <1>2 DEF Code, Final
<1>4. /\ pic \in [base : Nat, requested : SUBSET Line, inService : SUBSET Line]
  BY <1>1 DEF BootInv
<1>5. CASE Boot
  BY <1>5, BootStep
<1>6. CASE LogPart
  BY <1>6, LogPartStep
<1>7. CASE LogReturn \/ InterruptReturn
  BY <1>7, ReturnStep DEF LogReturn, InterruptReturn, HardUnlock, At
<1>8. CASE Log
  <2>1. PICK level \in LogLevels : CallLog(level, stack[cpu])
    BY <1>8 DEF Log
  <2> QED BY <2>1, <1>2, <1>3, <1>8, LoggingStep DEF Log
<1>9. CASE Printf
  <2>1. Top.kind = "code" /\ UNCHANGED <<boot, pic, handlers, flag, cpu, stack>>
    BY <1>9 DEF Printf, Code
  <2>2. StackTypes' /\ StacksInv'
    BY <1>1, <2>1 DEF StackTypes, StacksInv, Running, boot
  <2>4. Top' = Top
    BY <2>1 DEF Top
  <2>3. LogLinesWhole'
    BY <2>1, <2>2, <2>4, LinesWhole
  <2> QED BY <2>1, <2>2, <2>3, <1>1, <1>4, BootKept DEF InterruptsInv, boot
<1>10. CASE Yield
  <2>1. PICK u \in Thread : Schedule(stack[cpu], flag, u)
    BY <1>10 DEF Yield
  <2>2. /\ Running /\ Open(stack[cpu])
        /\ UNCHANGED <<stage, idt, handlers, pic>>
    BY <1>3, <1>10 DEF Yield
  <2> QED BY <2>1, <2>2, <1>2, <1>4, SwitchStep
<1>11. CASE CallHalt \/ HandlerHalt \/ HaltMessage \/ HaltDisable
  BY <1>11, HaltSteps
<1>12. CASE InterruptEntry \/ NoHandler
  <2>1. PICK level \in {LEVEL_VVV, LEVEL_WARN}, p \in {"dispatch", "return"} :
          CallLog(level, Then(p))
    BY <1>12 DEF InterruptEntry, NoHandler
  <2>2. Top.kind = "interrupt" /\ UNCHANGED <<boot, pic, handlers, cpu>>
    BY <1>12 DEF InterruptEntry, NoHandler, At
  <2>3. Fits(Then(p), flag, Running) /\ Open(Then(p))
    BY <1>1, <2>2, ThenFits
  <2> QED BY <2>1, <2>2, <2>3, LoggingStep
<1>13. CASE PitHandler
  BY <1>13, PitHandlerStep
<1>14. CASE \E v \in Exception : Raise(v)
  <2>1. PICK v \in Exception : Raise(v)
    BY <1>14
  <2>2. v \in Vector /\ Running /\ Open(stack[cpu])
        /\ Enter(v) /\ UNCHANGED <<boot, pic, handlers, cpu>>
    BY <2>1, <1>3 DEF Raise, Vector
  <2> QED BY <2>2, <1>4, EnterStep
<1>15. CASE \E l \in Line : Request(l)
  <2>1. PICK l \in Line : Request(l)
    BY <1>15
  <2>2. /\ UNCHANGED <<boot, handlers, flag, cpu, stack, last>>
        /\ pic' \in [base : Nat, requested : SUBSET Line, inService : SUBSET Line]
        /\ pic'.base = pic.base
    BY <2>1, <1>4 DEF Request
  <2>3. StackTypes' /\ StacksInv' /\ LogLinesWhole'
    BY <2>2 DEF InterruptsInv, StackTypes, StacksInv, LogLinesWhole, Running, boot
  <2> QED BY <2>2, <2>3, <1>1, BootKept DEF InterruptsInv, boot
<1>16. CASE \E l \in Line : Deliver(l)
  <2>1. PICK l \in Line : Deliver(l)
    BY <1>16
  <2>2. /\ flag /\ Enter(pic.base + l) /\ UNCHANGED <<boot, handlers, cpu>>
        /\ pic' \in [base : Nat, requested : SUBSET Line, inService : SUBSET Line]
        /\ pic'.base = pic.base
    BY <2>1, <1>4 DEF Deliver
  <2>3. Running /\ ~Masks(Top)
    BY <2>2, <1>2
  <2>4. Open(stack[cpu])
    BY <2>3, <1>2 DEF Masks, Saving
  <2>5. pic.base = INTERRUPT_PIC_MASTER
    BY <2>3, <1>1 DEF BootInv, Running
  <2>6. pic.base + l \in Vector
    BY <2>5 DEF Vector
  <2> QED BY <2>2, <2>3, <2>4, <2>6, EnterStep
<1>17. CASE UNCHANGED vars \/ HaltLoop
  BY <1>17 DEF HaltLoop, vars, boot, InterruptsInv, StackTypes, StacksInv, BootInv, LogLinesWhole,
               Running
<1> QED BY <1>5, <1>6, <1>7, <1>8, <1>9, <1>10, <1>11, <1>12, <1>13, <1>14, <1>15, <1>16, <1>17
        DEF Next, CpuStep

-----------------------------------------------------------------------------

(* The inductive invariant: the flags saved anywhere on a stack are those  *)
(* of the stack below, as deep as calls, interrupts and switches go        *)
(* (hard_lock and hard_unlock, schedule, the interrupt wrappers).          *)
THEOREM StacksInvariant == Spec => []InterruptsInv
BY InvInit, InvNext, PTL DEF Spec

(* Interrupts are masked exactly while the boot, an interrupt, a log line  *)
(* or a switch is under way on the stack the CPU is on: hard_unlock, the   *)
(* return from an interrupt and the switch to another thread neither leak  *)
(* the mask nor lift one they did not set.                                 *)
THEOREM MaskIsRight == Spec => []MaskMatchesStack
<1>1. InterruptsInv => MaskMatchesStack
  <2> SUFFICES ASSUME InterruptsInv PROVE MaskMatchesStack
    OBVIOUS
  <2> HIDE DEF Activation
  <2> DEFINE s == stack[cpu]
             n == Len(s)
  <2>1. StackTypes /\ StacksInv
    BY DEF InterruptsInv
  <2>2. /\ s # <<>> /\ s \in Seq(Activation) /\ Stacked(s, Running) /\ Top = s[n]
    BY <2>1, CpuStack DEF Fits, Top, Last
  <2>3. n \in 1 .. n /\ DOMAIN s = 1 .. n
    BY <2>2, FrontIs
  <2>4. \A i \in 1 .. n : s[i] \in Activation
    BY <2>2, ElementOfSeq
  <2>5. \A i \in 1 .. n : s[i].kind \notin Saving <=> s[i].kind \in {"code", "halt"}
    BY <2>4 DEF Activation, Saving
  <2>6. Halted <=> Final(s[n])
    BY <2>2 DEF Halted, Final
  <2>7. \A i \in 1 .. n : Final(s[i]) => i = n
    BY <2>2 DEF Stacked
  <2>8. Unmasked(s, n) <=> ~Halted /\ \A i \in 1 .. n : s[i].kind \in {"code", "halt"}
    BY <2>3, <2>5, <2>6, <2>7 DEF Unmasked, Masks
  <2>9. flag <=> Running /\ Unmasked(s, n)
    BY <2>1 DEF StacksInv
  <2> QED BY <2>3, <2>8, <2>9 DEF MaskMatchesStack
<1> QED BY <1>1, StacksInvariant, PTL

(* No interrupt comes before what it needs is set up, and every one finds  *)
(* its way out past its stack frame (main, interrupt-wrappers.S).          *)
THEOREM KernelIsFound == Spec => []InterruptsFindKernel
<1>1. InterruptsInv => InterruptsFindKernel
  <2> SUFFICES ASSUME InterruptsInv PROVE InterruptsFindKernel
    OBVIOUS
  <2> HIDE DEF Activation
  <2>1. StackTypes /\ StacksInv /\ BootInv
    BY DEF InterruptsInv
  <2>2. flag => Running
    BY <2>1 DEF StacksInv
  <2>3. KernelReady
    BY <2>1, <2>2 DEF KernelReady, BootInv, Running
  <2>4. ASSUME NEW t \in Thread, NEW i \in DOMAIN stack[t]
        PROVE  stack[t][i].kind = "interrupt" => stack[t][i].words = 5 + 2
    <3>1. stack[t] \in Seq(Activation)
      BY <2>1 DEF StackTypes
    <3>2. i \in 1 .. Len(stack[t]) /\ stack[t] # <<>>
      BY <3>1, EmptySeq
    <3>3. Stacked(stack[t], Running)
      BY <3>2, <2>1 DEF StacksInv
    <3> QED BY <3>2, <3>3 DEF Stacked
  <2> QED BY <2>3, <2>4 DEF InterruptsFindKernel, FramesMatch
<1> QED BY <1>1, StacksInvariant, PTL

(* Nothing comes between the parts of a log line (vlog_tagged under        *)
(* hard_lock).                                                             *)
THEOREM LinesStayWhole == Spec => []LogLinesWhole
<1>1. InterruptsInv => LogLinesWhole
  BY DEF InterruptsInv
<1> QED BY <1>1, StacksInvariant, PTL

-----------------------------------------------------------------------------
(* About numbers and sequences, for the command line.                      *)

(* A set of numbers has a least one.                                       *)
LEMMA LeastNumber ==
  ASSUME NEW T, T \subseteq Nat, T # {}
  PROVE  \E m \in T : \A k \in T : m <= k
<1> DEFINE R == OpToRel(<, Nat)
<1>1. IsWellFoundedOn(R, Nat)
  BY NatLessThanWellFounded
<1>2. \A x, y \in Nat : <<y, x>> \in R <=> y < x
  BY DEF OpToRel
<1> HIDE DEF R
<1>3. PICK x \in T : \A y \in T : ~ (<<y, x>> \in R)
  BY <1>1, WFMin
<1>4. ASSUME NEW k \in T PROVE x <= k
  <2>1. x \in Nat /\ k \in Nat /\ ~ (k < x)
    BY <1>2, <1>3
  <2> QED BY <2>1
<1> QED BY <1>4

(* FlattenSeq's function.                                                  *)
IsFlat(g, ss, n) == g = [i \in 1 .. n |-> IF i = 1 THEN ss[i] ELSE g[i - 1] \o ss[i]]

LEMMA FlatExists ==
  ASSUME NEW ss, NEW n \in Nat
  PROVE  \E g : IsFlat(g, ss, n)
<1> DEFINE T == {j \in Nat : ~ \E g : IsFlat(g, ss, j)}
<1> SUFFICES ASSUME T # {} PROVE FALSE
  OBVIOUS
<1>1. PICK j \in T : \A i \in T : j <= i
  BY LeastNumber
<1>2. j \in Nat /\ ~ \E g : IsFlat(g, ss, j)
  OBVIOUS
<1>3. CASE j = 0
  <2> DEFINE g == [i \in 1 .. 0 |-> <<>>]
  <2>1. IsFlat(g, ss, 0)
    BY DEF IsFlat
  <2> QED BY <1>2, <1>3, <2>1
<1>4. CASE j # 0
  <2>1. j - 1 \in Nat /\ ~ (j <= j - 1)
    BY <1>2, <1>4
  <2>2. \E g : IsFlat(g, ss, j - 1)
    BY <1>1, <2>1
  <2>3. PICK g : IsFlat(g, ss, j - 1)
    BY <2>2
  <2> DEFINE v(i) == g[i - 1] \o ss[i]
             h == [i \in 1 .. j |-> IF i = j THEN (IF j = 1 THEN ss[j] ELSE v(j)) ELSE g[i]]
  <2>4. \A i \in 1 .. j - 1 : g[i] = IF i = 1 THEN ss[i] ELSE v(i)
    BY <2>3 DEF IsFlat
  <2> HIDE DEF v
  <2>5. \A i \in 1 .. j - 1 : h[i] = g[i] /\ i \in 1 .. j
    BY <1>2
  <2>6. \A i \in 1 .. j : i # 1 => i - 1 \in 1 .. j - 1
    BY <1>2
  <2>7. \A i \in 1 .. j : h[i] = IF i = 1 THEN ss[i] ELSE v(i)
    BY <1>2, <1>4, <2>4
  <2>8. \A i \in 1 .. j : i # 1 => v(i) = h[i - 1] \o ss[i]
    BY <2>5, <2>6 DEF v
  <2>9. h = [i \in 1 .. j |-> h[i]]
    OBVIOUS
  <2> HIDE DEF h
  <2>10. IsFlat(h, ss, j)
    BY <2>7, <2>8, <2>9 DEF IsFlat
  <2> QED BY <1>2, <2>10
<1> QED BY <1>3, <1>4

(* The sequences of ss one after the other: g[i] are the first i of them.  *)
Concatenates(g, ss, n) ==
  /\ g[0] = <<>>
  /\ \A i \in 1 .. n : g[i] = g[i - 1] \o ss[i]
  /\ FlattenSeq(ss) = g[n]

LEMMA FlattenIs ==
  ASSUME NEW S, NEW n \in Nat, NEW ss \in [1 .. n -> Seq(S)]
  PROVE  \E g : Concatenates(g, ss, n)
<1> DEFINE flat == CHOOSE h : IsFlat(h, ss, n)
           g == [i \in 0 .. n |-> IF i = 0 THEN <<>> ELSE flat[i]]
<1>1. Len(ss) = n
  <2>1. ss = [i \in 1 .. n |-> ss[i]]
    OBVIOUS
  <2>2. DOMAIN ss = 1 .. n /\ ss \in Seq(Seq(S))
    OBVIOUS
  <2> QED BY <2>2
<1>2. FlattenSeq(ss) = IF n = 0 THEN ss ELSE flat[n]
  BY <1>1 DEF FlattenSeq, IsFlat
<1>3. IsFlat(flat, ss, n)
  <2>1. \E h : IsFlat(h, ss, n)
    BY FlatExists
  <2> QED BY <2>1
<1> HIDE DEF flat
<1>4. \A i \in 1 .. n : flat[i] = IF i = 1 THEN ss[i] ELSE flat[i - 1] \o ss[i]
  BY <1>3 DEF IsFlat
<1>5. g[0] = <<>> /\ \A i \in 1 .. n : g[i] = flat[i]
  OBVIOUS
<1> HIDE DEF g
<1>6. ASSUME NEW i \in 1 .. n PROVE g[i] = g[i - 1] \o ss[i]
  <2>1. CASE i = 1
    <3>1. g[1] = ss[1] /\ ss[1] \in Seq(S)
      BY <1>4, <1>5, <2>1
    <3>2. <<>> \o ss[1] = ss[1]
      BY <3>1, ConcatEmptySeq
    <3> QED BY <1>5, <2>1, <3>1, <3>2
  <2>2. CASE i # 1
    <3>1. i - 1 \in 1 .. n
      BY <2>2
    <3> QED BY <1>4, <1>5, <2>2, <3>1
  <2> QED BY <2>1, <2>2
<1>7. FlattenSeq(ss) = g[n]
  <2>1. CASE n = 0
    <3>1. ss = <<>>
      BY <1>1, <2>1
    <3> QED BY <1>2, <1>5, <2>1, <3>1
  <2>2. CASE n # 0
    <3>1. n \in 1 .. n
      BY <2>2
    <3> QED BY <1>2, <1>5, <2>2, <3>1
  <2> QED BY <2>1, <2>2
<1>8. Concatenates(g, ss, n)
  BY <1>5, <1>6, <1>7 DEF Concatenates
<1> QED BY <1>8

(* Max, which Setting is written with, exists.                    *)
LEMMA LargestNumber ==
  ASSUME NEW n \in Nat, NEW T, T \subseteq 1 .. n, T # {}
  PROVE  Max(T) \in T /\ \A k \in T : k <= Max(T)
<1> DEFINE D == {n - k : k \in T}
<1>1. D \subseteq Nat /\ D # {}
  <2>1. \A k \in T : n - k \in Nat
    OBVIOUS
  <2> QED BY <2>1
<1>2. PICK m \in D : \A k \in D : m <= k
  <2> HIDE DEF D
  <2> QED BY <1>1, LeastNumber
<1>3. PICK x \in T : m = n - x
  BY <1>2
<1>4. \A y \in T : x >= y
  <2>1. ASSUME NEW y \in T PROVE x >= y
    <3>1. n - y \in D /\ x \in 1 .. n /\ y \in 1 .. n
      OBVIOUS
    <3>2. n - x <= n - y
      BY <3>1, <1>2, <1>3
    <3> QED BY <3>1, <3>2
  <2> QED BY <2>1
<1> HIDE DEF D
<1>5. Max(T) \in T /\ \A y \in T : Max(T) >= y
  BY <1>3, <1>4 DEF Max
<1> QED BY <1>5

-----------------------------------------------------------------------------
(* The command line: its text, word by word.                               *)

(* The text is the name and the words one after the other: word k follows  *)
(* the space at g[k - 1].                                                  *)
Layout(g, name, words) ==
  LET s == Text(name, words)
      n == Len(words)
  IN /\ Len(s) \in Nat
     /\ g \in [0 .. n -> Nat] /\ g[0] = Len(name) + 1 /\ g[n] = Len(s) + 1
     /\ \A k \in 0 .. n : g[k] > k /\ g[k] <= Len(s) + 1
     /\ \A j \in 1 .. Len(name) : s[j] = name[j]
     /\ \A k \in 1 .. n : /\ g[k] = g[k - 1] + 1 + Len(words[k])
                          /\ s[g[k - 1]] = Space
                          /\ \A j \in 1 .. Len(words[k]) : s[g[k - 1] + j] = words[k][j]

(* What the first k sequences give is the beginning of what all give.      *)
Grows(f, n, S) ==
  \A m \in 0 .. n :
    /\ f[m] \in Seq(S) /\ Len(f[m]) \in Nat /\ Len(f[m]) >= m
    /\ \A k \in 0 .. m : /\ Len(f[k]) \in Nat /\ Len(f[k]) <= Len(f[m])
                         /\ \A j \in 1 .. Len(f[k]) : f[m][j] = f[k][j]

Pieces(ss, n, S) == ss \in [1 .. n -> Seq(S)] /\ \A k \in 1 .. n : ss[k] # <<>>

LEMMA FlatGrows ==
  ASSUME NEW S, NEW n \in Nat, NEW ss, Pieces(ss, n, S), NEW f, Concatenates(f, ss, n)
  PROVE  Grows(f, n, S)
<1> DEFINE Good(m) ==
      /\ f[m] \in Seq(S) /\ Len(f[m]) \in Nat /\ Len(f[m]) >= m
      /\ \A k \in 0 .. m : /\ Len(f[k]) \in Nat /\ Len(f[k]) <= Len(f[m])
                           /\ \A j \in 1 .. Len(f[k]) : f[m][j] = f[k][j]
           T == {m \in 0 .. n : ~Good(m)}
<1> SUFFICES ASSUME T # {} PROVE FALSE
  BY DEF Grows
<1>1. T \subseteq Nat
  OBVIOUS
<1> HIDE DEF Good
<1>2. PICK m \in T : \A i \in T : m <= i
  <2> HIDE DEF T
  <2> QED BY <1>1, LeastNumber
<1>3. m \in 0 .. n /\ ~Good(m)
  OBVIOUS
<1>4. CASE m = 0
  <2>1. f[0] = <<>> /\ Len(f[0]) = 0 /\ f[0] \in Seq(S)
    BY DEF Concatenates
  <2>2. \A k \in 0 .. 0 : k = 0
    OBVIOUS
  <2> QED BY <1>3, <1>4, <2>1, <2>2 DEF Good
<1>5. CASE m # 0
  <2> DEFINE a == f[m - 1]
             b == ss[m]
  <2>1. m - 1 \in 0 .. n /\ m \in 1 .. n /\ m - 1 \notin T
    BY <1>2, <1>3, <1>5
  <2>2. Good(m - 1)
    BY <2>1
  <2>3. f[m] = a \o b /\ b \in Seq(S) /\ b # <<>>
    <3>1. f[m] = a \o b
      BY <2>1 DEF Concatenates
    <3>2. b \in Seq(S) /\ b # <<>>
      BY <2>1 DEF Pieces
    <3> QED BY <3>1, <3>2
  <2>4. a \in Seq(S) /\ Len(a) \in Nat /\ Len(a) >= m - 1
    BY <2>2 DEF Good
  <2> HIDE DEF a, b
  <2>5. Len(b) \in Nat /\ Len(b) > 0
    BY <2>3, EmptySeq
  <2>6. /\ f[m] \in Seq(S) /\ Len(f[m]) = Len(a) + Len(b)
        /\ \A i \in 1 .. Len(a) + Len(b) : f[m][i] = IF i <= Len(a) THEN a[i] ELSE b[i - Len(a)]
    BY <2>3, <2>4, ConcatProperties
  <2>7. \A i \in 1 .. Len(a) : f[m][i] = a[i]
    <3> SUFFICES ASSUME NEW i \in 1 .. Len(a) PROVE f[m][i] = a[i]
      OBVIOUS
    <3>1. i \in 1 .. Len(a) + Len(b) /\ i <= Len(a)
      BY <2>4, <2>5
    <3> QED BY <2>6, <3>1
  <2>8. ASSUME NEW k \in 0 .. m
        PROVE  /\ Len(f[k]) \in Nat /\ Len(f[k]) <= Len(f[m])
               /\ \A j \in 1 .. Len(f[k]) : f[m][j] = f[k][j]
    <3>1. CASE k = m
      BY <2>4, <2>5, <2>6, <3>1
    <3>2. CASE k # m
      <4>1. k \in 0 .. m - 1
        BY <3>2, <1>3
      <4>2. /\ Len(f[k]) \in Nat /\ Len(f[k]) <= Len(a)
            /\ \A j \in 1 .. Len(f[k]) : a[j] = f[k][j]
        BY <2>2, <4>1 DEF Good, a
      <4> QED BY <2>4, <2>5, <2>6, <2>7, <4>2
    <3> QED BY <3>1, <3>2
  <2>9. Len(f[m]) \in Nat /\ Len(f[m]) >= m
    BY <1>3, <2>4, <2>5, <2>6
  <2> QED BY <1>3, <2>6, <2>8, <2>9 DEF Good
<1> QED BY <1>4, <1>5

LEMMA TextLayout ==
  ASSUME NEW S, Space \in S, NEW name \in Seq(S), NEW words \in Seq(Seq(S))
  PROVE  Text(name, words) \in Seq(S) /\ \E g : Layout(g, name, words)
<1> DEFINE n == Len(words)
           ss == [i \in DOMAIN words |-> <<Space>> \o words[i]]
           s == Text(name, words)
           N == Len(name)
<1>1. n \in Nat /\ N \in Nat /\ DOMAIN words = 1 .. n
  OBVIOUS
<1>2. ASSUME NEW k \in 1 .. n
      PROVE  /\ words[k] \in Seq(S) /\ Len(words[k]) \in Nat
             /\ ss[k] \in Seq(S) /\ ss[k] # <<>> /\ Len(ss[k]) = 1 + Len(words[k])
             /\ ss[k][1] = Space /\ \A j \in 1 .. Len(words[k]) : ss[k][1 + j] = words[k][j]
  <2> DEFINE w == words[k]
             b == <<Space>>
  <2>1. w \in Seq(S) /\ Len(w) \in Nat
    BY <1>1, ElementOfSeq
  <2>2. b \in Seq(S) /\ Len(b) = 1 /\ b[1] = Space
    OBVIOUS
  <2>3. ss[k] = b \o w
    BY <1>1
  <2> HIDE DEF w, b, ss
  <2> DEFINE c == b \o w
  <2>a. b \in Seq(S) /\ w \in Seq(S)
    BY <2>1, <2>2
  <2>b. /\ c \in Seq(S) /\ Len(c) = Len(b) + Len(w)
        /\ \A i \in 1 .. Len(b) + Len(w) : c[i] = IF i <= Len(b) THEN b[i] ELSE w[i - Len(b)]
    BY <2>a, ConcatProperties
  <2> HIDE DEF c
  <2>c. ss[k] = c
    BY <2>3 DEF c
  <2>4. /\ ss[k] \in Seq(S) /\ Len(ss[k]) = 1 + Len(w)
        /\ \A i \in 1 .. 1 + Len(w) : ss[k][i] = IF i <= 1 THEN b[i] ELSE w[i - 1]
    BY <2>2, <2>b, <2>c
  <2>5. ss[k][1] = Space
    <3>1. 1 \in 1 .. 1 + Len(w)
      BY <2>1
    <3> QED BY <2>2, <2>4, <3>1
  <2>6. ASSUME NEW j \in 1 .. Len(w) PROVE ss[k][1 + j] = w[j]
    <3>1. PICK i \in 1 .. 1 + Len(w) : i = 1 + j /\ ~(i <= 1) /\ i - 1 = j
      BY <2>1
    <3>2. ss[k][i] = w[i - 1]
      BY <2>4, <3>1
    <3> QED BY <3>1, <3>2
  <2>7. ss[k] # <<>>
    BY <2>1, <2>4, EmptySeq
  <2> QED BY <2>1, <2>4, <2>5, <2>6, <2>7 DEF w
<1>3. ss \in [1 .. n -> Seq(S)]
  <2>1. ss = [i \in 1 .. n |-> ss[i]]
    BY <1>1
  <2> HIDE DEF ss
  <2> QED BY <1>2, <2>1
<1>4. s = name \o FlattenSeq(ss)
  BY DEF Text
<1> HIDE DEF ss, s, n
<1>5. PICK f : Concatenates(f, ss, n)
  BY <1>1, <1>3, FlattenIs
<1>6. \A m \in 0 .. n :
        /\ f[m] \in Seq(S) /\ Len(f[m]) \in Nat /\ Len(f[m]) >= m
        /\ \A k \in 0 .. m : /\ Len(f[k]) \in Nat /\ Len(f[k]) <= Len(f[m])
                             /\ \A j \in 1 .. Len(f[k]) : f[m][j] = f[k][j]
  <2>1. Pieces(ss, n, S)
    BY <1>2, <1>3 DEF Pieces
  <2>2. Grows(f, n, S)
    BY <1>1, <1>5, <2>1, FlatGrows
  <2> QED BY <2>2 DEF Grows
<1>7. FlattenSeq(ss) = f[n] /\ f[0] = <<>> /\ \A i \in 1 .. n : f[i] = f[i - 1] \o ss[i]
  BY <1>5 DEF Concatenates
<1>8. n \in 0 .. n /\ 0 \in 0 .. n
  BY <1>1
<1>9. /\ s \in Seq(S) /\ Len(s) = N + Len(f[n])
      /\ \A i \in 1 .. N + Len(f[n]) : s[i] = IF i <= N THEN name[i] ELSE f[n][i - N]
  BY <1>4, <1>6, <1>7, <1>8, ConcatProperties
<1> DEFINE g == [k \in 0 .. n |-> N + Len(f[k]) + 1]
<1>10. /\ g \in [0 .. n -> Nat] /\ g[0] = N + 1 /\ g[n] = Len(s) + 1
       /\ \A k \in 0 .. n : g[k] > k /\ g[k] <= Len(s) + 1
  BY <1>1, <1>6, <1>7, <1>8, <1>9
<1>11. \A j \in 1 .. N : s[j] = name[j]
  BY <1>1, <1>6, <1>8, <1>9
<1>12. ASSUME NEW k \in 1 .. n
       PROVE  /\ g[k] = g[k - 1] + 1 + Len(words[k]) /\ s[g[k - 1]] = Space
              /\ \A j \in 1 .. Len(words[k]) : s[g[k - 1] + j] = words[k][j]
  <2> DEFINE a == f[k - 1]
             w == words[k]
             b == ss[k]
             c == f[k]
  <2>1. k - 1 \in 0 .. n /\ k \in 0 .. n /\ k \in 0 .. n
    BY <1>1
  <2>2. a \in Seq(S) /\ Len(a) \in Nat /\ c = a \o b /\ Len(c) \in Nat
    BY <1>6, <1>7, <2>1
  <2>3. /\ b \in Seq(S) /\ Len(b) = 1 + Len(w) /\ Len(w) \in Nat
        /\ b[1] = Space /\ \A j \in 1 .. Len(w) : b[1 + j] = w[j]
    BY <1>2
  <2>4. Len(f[n]) \in Nat /\ Len(c) <= Len(f[n]) /\ \A j \in 1 .. Len(c) : f[n][j] = c[j]
    BY <1>6, <1>8, <2>1
  <2>5. g[k] = N + Len(c) + 1 /\ g[k - 1] = N + Len(a) + 1
    BY <2>1
  <2> HIDE DEF a, b, c, w, g
  <2>6. /\ Len(c) = Len(a) + Len(b)
        /\ \A i \in 1 .. Len(a) + Len(b) : c[i] = IF i <= Len(a) THEN a[i] ELSE b[i - Len(a)]
    <3>1. a \in Seq(S) /\ b \in Seq(S)
      BY <2>2, <2>3
    <3>2. /\ Len(a \o b) = Len(a) + Len(b)
          /\ \A i \in 1 .. Len(a) + Len(b) : (a \o b)[i] = IF i <= Len(a) THEN a[i] ELSE b[i - Len(a)]
      BY <3>1, ConcatProperties
    <3>3. c = a \o b
      BY <2>2
    <3> QED BY <3>2, <3>3
  <2>7. \A i \in 1 .. Len(b) : s[N + Len(a) + i] = b[i]
    <3> SUFFICES ASSUME NEW i \in 1 .. Len(b) PROVE s[N + Len(a) + i] = b[i]
      OBVIOUS
    <3>1. /\ Len(a) + i \in 1 .. Len(a) + Len(b) /\ ~(Len(a) + i <= Len(a))
          /\ Len(a) + i - Len(a) = i
      BY <2>2, <2>3
    <3>2. c[Len(a) + i] = b[i]
      BY <2>6, <3>1
    <3>3. f[n][Len(a) + i] = b[i]
      BY <2>4, <2>6, <3>1, <3>2
    <3>4. /\ N + Len(a) + i \in 1 .. N + Len(f[n]) /\ ~(N + Len(a) + i <= N)
          /\ N + Len(a) + i - N = Len(a) + i
      BY <1>1, <2>2, <2>3, <2>4, <2>6
    <3> QED BY <1>9, <3>3, <3>4
  <2>8. s[g[k - 1]] = Space
    BY <2>3, <2>5, <2>7
  <2>9. ASSUME NEW j \in 1 .. Len(w) PROVE s[g[k - 1] + j] = w[j]
    <3>1. 1 + j \in 1 .. Len(b) /\ N + Len(a) + (1 + j) = g[k - 1] + j
      BY <1>1, <2>2, <2>3, <2>5
    <3> QED BY <2>3, <2>7, <3>1
  <2>10. g[k] = g[k - 1] + 1 + Len(w)
    BY <1>1, <2>2, <2>3, <2>5, <2>6
  <2> QED BY <2>8, <2>9, <2>10 DEF w
<1>13. Len(s) \in Nat
  BY <1>1, <1>6, <1>8, <1>9
<1> HIDE DEF g
<1>14. Layout(g, name, words)
  BY <1>10, <1>11, <1>12, <1>13 DEF Layout, s, n
<1> QED BY <1>9, <1>14 DEF s


LEMMA WordEndIs ==
  ASSUME NEW s, Len(s) \in Nat, NEW i \in Nat, NEW e \in i .. Len(s) + 1,
         e = Len(s) + 1 \/ s[e] = Space, \A k \in i .. e - 1 : s[k] # Space
  PROVE  WordEnd(s, i) = e
<1> DEFINE P(x) == (x = Len(s) + 1 \/ s[x] = Space) /\ \A k \in i .. x - 1 : s[k] # Space
<1>1. P(e)
  OBVIOUS
<1>2. ASSUME NEW x \in i .. Len(s) + 1, P(x) PROVE x = e
  <2>1. CASE x < e
    <3>1. x \in i .. e - 1 /\ x # Len(s) + 1
      BY <2>1
    <3> QED BY <1>2, <3>1
  <2>2. CASE e < x
    <3>1. e \in i .. x - 1 /\ e # Len(s) + 1
      BY <2>2
    <3> QED BY <1>1, <1>2, <3>1
  <2> QED BY <2>1, <2>2
<1>3. WordEnd(s, i) = CHOOSE x \in i .. Len(s) + 1 : P(x)
  BY DEF WordEnd
<1> HIDE DEF P
<1> QED BY <1>1, <1>2, <1>3

LEMMA SliceIs ==
  ASSUME NEW S, NEW s \in Seq(S), NEW p \in Nat \ {0}, NEW q \in Nat, q <= Len(s), p <= q + 1
  PROVE  LET x == SubSeq(s, p, q)
         IN  /\ x \in Seq(S) /\ Len(x) = q - p + 1
             /\ \A i \in 1 .. q - p + 1 : x[i] = s[p + i - 1]
<1>1. \A i \in 1 .. Len(s) : s[i] \in S
  BY ElementOfSeq
<1>2. \A i \in p .. q : s[i] \in S
  BY <1>1
<1>3. p \in Int /\ q \in Int
  OBVIOUS
<1> DEFINE x == SubSeq(s, p, q)
<1>4. /\ x \in Seq(S) /\ Len(x) = (IF p <= q THEN q - p + 1 ELSE 0)
      /\ \A i \in 1 .. q - p + 1 : x[i] = s[p + i - 1]
  BY <1>2, <1>3, SubSeqProperties
<1>5. Len(x) = q - p + 1
  BY <1>4
<1> HIDE DEF x
<1> QED BY <1>4, <1>5 DEF x

LEMMA SubSeqSame ==
  ASSUME NEW S, NEW s \in Seq(S), NEW w \in Seq(S), NEW b \in Nat, b + Len(w) <= Len(s),
         \A j \in 1 .. Len(w) : s[b + j] = w[j], NEW a \in 1 .. Len(w) + 1
  PROVE  SubSeq(s, b + a, b + Len(w)) = SubSeq(w, a, Len(w))
<1> DEFINE n == Len(w)
           x == SubSeq(s, b + a, b + n)
           y == SubSeq(w, a, n)
<1>1. n \in Nat /\ Len(s) \in Nat /\ a \in Nat
  OBVIOUS
<1>2. /\ b + a \in Nat \ {0} /\ b + n \in Nat /\ b + n <= Len(s) /\ b + a <= b + n + 1
      /\ a \in Nat \ {0} /\ n <= Len(w) /\ a <= n + 1
  BY <1>1
<1>3. /\ x \in Seq(S) /\ Len(x) = n - a + 1
      /\ \A i \in 1 .. n - a + 1 : x[i] = s[b + (a + i - 1)]
  <2> DEFINE p == b + a
             q == b + n
  <2>1. /\ p \in Nat \ {0} /\ q \in Nat /\ q <= Len(s) /\ p <= q + 1
        /\ x = SubSeq(s, p, q)
    BY <1>2
  <2>2. q - p + 1 = n - a + 1 /\ \A i \in 1 .. n - a + 1 : p + i - 1 = b + (a + i - 1)
    BY <1>1
  <2> HIDE DEF n, x, p, q
  <2>3. /\ x \in Seq(S) /\ Len(x) = q - p + 1
        /\ \A i \in 1 .. q - p + 1 : x[i] = s[p + i - 1]
    BY <2>1, SliceIs
  <2> QED BY <2>2, <2>3
<1>4. /\ y \in Seq(S) /\ Len(y) = n - a + 1
      /\ \A i \in 1 .. n - a + 1 : y[i] = w[a + i - 1]
  <2> HIDE DEF n
  <2> QED BY <1>1, <1>2, SliceIs
<1> HIDE DEF n, x, y
<1>5. ASSUME NEW i \in 1 .. Len(x) PROVE x[i] = y[i]
  <2>1. i \in 1 .. n - a + 1 /\ a + i - 1 \in 1 .. n
    BY <1>1, <1>2, <1>3
  <2>2. x[i] = s[b + (a + i - 1)] /\ y[i] = w[a + i - 1]
    BY <1>3, <1>4, <2>1
  <2> QED BY <2>1, <2>2 DEF n
<1>6. x = y
  BY <1>3, <1>4, <1>5, SeqEqual
<1> QED BY <1>6 DEF n, x, y

LEMMA SeqWider ==
  ASSUME NEW A, NEW B, A \subseteq B
  PROVE  Seq(A) \subseteq Seq(B)
OBVIOUS

LEMMA SpaceIs == Space # "L" /\ Space # "C"
BY Zenon DEF Space

(* A command line as CommandLinesAssumption has it, and where its words    *)
(* are in its text.                                                        *)
Lawful(name, words) ==
  /\ name \in Seq(STRING \ {Space})
  /\ Len(name) > NAME_SIZE => name[NAME_SIZE + 1] \notin {"L", "C"}
  /\ words \in Seq(Seq(STRING \ {Space}))
  /\ \A k \in DOMAIN words : words[k] # <<"C">>

Written(g, name, words) == Lawful(name, words) /\ Layout(g, name, words)

LEMMA WordEndIn ==
  ASSUME NEW name, NEW words, NEW g, Written(g, name, words),
         NEW k \in 1 .. Len(words), NEW p \in g[k - 1] + 1 .. g[k]
  PROVE  WordEnd(Text(name, words), p) = g[k]
<1> DEFINE s == Text(name, words)
           n == Len(words)
           w == words[k]
<1>1. n \in Nat /\ w \in Seq(STRING \ {Space})
  <2>1. words \in Seq(Seq(STRING \ {Space}))
    BY DEF Written, Lawful
  <2> QED BY <2>1, ElementOfSeq
<1>2. Layout(g, name, words)
  BY DEF Written
<1>3. k \in 0 .. n /\ k - 1 \in 0 .. n
  BY <1>1
<1>4. /\ Len(s) \in Nat /\ g[k - 1] \in Nat /\ g[k] \in Nat /\ g[k] <= Len(s) + 1
      /\ g[k] = g[k - 1] + 1 + Len(w)
      /\ \A j \in 1 .. Len(w) : s[g[k - 1] + j] = w[j]
  BY <1>2, <1>3 DEF Layout
<1>5. g[k] = Len(s) + 1 \/ s[g[k]] = Space
  <2>1. CASE k = n
    BY <1>2, <2>1 DEF Layout
  <2>2. CASE k # n
    <3>1. k + 1 \in 1 .. n /\ k + 1 - 1 = k
      BY <1>1, <2>2
    <3>2. s[g[k + 1 - 1]] = Space
      BY <1>2, <3>1 DEF Layout
    <3> QED BY <3>1, <3>2
  <2> QED BY <2>1, <2>2
<1> HIDE DEF s, w
<1>6. Len(w) \in Nat /\ \A j \in 1 .. Len(w) : w[j] # Space
  BY <1>1, ElementOfSeq
<1>7. ASSUME NEW q \in p .. g[k] - 1 PROVE s[q] # Space
  <2>1. PICK j \in 1 .. Len(w) : q = g[k - 1] + j
    <3>1. q - g[k - 1] \in 1 .. Len(w) /\ q = g[k - 1] + (q - g[k - 1])
      BY <1>4, <1>6
    <3> QED BY <3>1
  <2> QED BY <1>4, <1>6, <2>1
<1>8. p \in Nat /\ g[k] \in p .. Len(s) + 1
  BY <1>4
<1>9. WordEnd(s, p) = g[k]
  BY <1>4, <1>5, <1>7, <1>8, WordEndIs
<1> QED BY <1>9 DEF s

(* What an option does to the settings.                                    *)
Applied(set, w) ==
  IF Head(w) = "L" THEN [set EXCEPT !.level = NumberIn(w)]
                   ELSE [set EXCEPT !.color = NumberIn(w) # 0]

(* The loop, at the space before an option, takes it and goes to its end.  *)
LEMMA TurnTakes ==
  ASSUME NEW name, NEW words, NEW g, Written(g, name, words),
         NEW k \in 1 .. Len(words), IsOption(words[k]), NEW set
  PROVE  Turn(Text(name, words), [at |-> g[k - 1], set |-> set])
           = [at |-> g[k], set |-> Applied(set, words[k])]
<1> DEFINE s == Text(name, words)
           n == Len(words)
           w == words[k]
           i == g[k - 1]
           S == STRING \ {Space}
           loop == [at |-> i, set |-> set]
<1>1. n \in Nat /\ w \in Seq(S) /\ w # <<"C">>
  <2>1. words \in Seq(Seq(S)) /\ \A q \in DOMAIN words : words[q] # <<"C">>
    BY DEF Written, Lawful
  <2> QED BY <2>1, ElementOfSeq, LenProperties
<1>2. Layout(g, name, words)
  BY DEF Written
<1>3. k \in 0 .. n /\ k - 1 \in 0 .. n
  BY <1>1
<1>4. /\ Len(s) \in Nat /\ i \in Nat /\ g[k] \in Nat /\ g[k] <= Len(s) + 1
      /\ g[k] = i + 1 + Len(w)
      /\ \A j \in 1 .. Len(w) : s[i + j] = w[j]
  BY <1>2, <1>3 DEF Layout
<1>5. w # <<>> /\ Head(w) \in {"L", "C"}
  BY DEF IsOption
<1>6. \A p \in i + 1 .. g[k] : WordEnd(s, p) = g[k]
  BY WordEndIn
<1> HIDE DEF s, w, i, S, n
<1>7. Len(w) \in Nat /\ Len(w) >= 1 /\ Head(w) = w[1] /\ 1 \in 1 .. Len(w)
  <2>1. Len(w) \in Nat \ {0}
    BY <1>1, <1>5, EmptySeq
  <2>2. Head(w) = w[1]
    BY <1>1, <1>5
  <2> QED BY <2>1, <2>2
<1>8. s[i + 1] = Head(w) /\ i <= Len(s) /\ i + 1 <= Len(s)
  BY <1>4, <1>7
<1>9. ASSUME NEW a \in 2 .. 3, a <= Len(w) + 1
      PROVE  /\ WordEnd(s, i + a) = g[k]
             /\ read_arg_num(s, i + a) = Number(SubSeq(w, a, Len(w)))
  <2>1. i + a \in i + 1 .. g[k] /\ g[k] - 1 = i + Len(w)
    BY <1>4, <1>7, <1>9
  <2>2. WordEnd(s, i + a) = g[k]
    BY <1>6, <2>1
  <2>3. a \in 1 .. Len(w) + 1 /\ i + Len(w) <= Len(s)
    BY <1>4, <1>7, <1>9
  <2>4. SubSeq(s, i + a, i + Len(w)) = SubSeq(w, a, Len(w))
    <3> DEFINE C == STRING \cup {Space}
    <3>1. s \in Seq(C) /\ w \in Seq(C)
      <4>1. S \subseteq C /\ Space \in C
        BY DEF S
      <4>2. Seq(S) \subseteq Seq(C) /\ name \in Seq(C)
        <5>1. Seq(S) \subseteq Seq(C)
          BY <4>1, SeqWider
        <5> QED BY <5>1 DEF Written, Lawful, S
      <4>3. words \in Seq(Seq(C))
        <5>1. Seq(Seq(S)) \subseteq Seq(Seq(C))
          BY <4>2, SeqWider
        <5> QED BY <5>1 DEF Written, Lawful, S
      <4>4. s \in Seq(C)
        <5> HIDE DEF C
        <5> QED BY <4>1, <4>2, <4>3, TextLayout DEF s
      <4> QED BY <1>1, <4>2, <4>4
    <3> HIDE DEF C
    <3> QED BY <1>4, <2>3, <3>1, SubSeqSame
  <2> QED BY <2>1, <2>2, <2>4 DEF read_arg_num
<1>a. loop.at = i /\ loop.set = set /\ ~(i > Len(s))
  BY <1>4, <1>8
<1> HIDE DEF loop
<1>10. CASE Head(w) = "L"
  <2>1. StartsWith(s, i + 1, "L")
    BY <1>8, <1>10 DEF StartsWith
  <2>2. ~StartsWith(s, i + 1, "C")
    BY <1>8, <1>10 DEF StartsWith
  <2>3. Turn(s, loop) = [at |-> WordEnd(s, i + 2),
                         set |-> [set EXCEPT !.level = read_arg_num(s, i + 2)]]
    BY <1>8, <1>a, <2>1, <2>2 DEF Turn
  <2>4. NumberIn(w) = Number(SubSeq(w, 2, Len(w)))
    BY <1>10 DEF NumberIn
  <2>5. WordEnd(s, i + 2) = g[k] /\ read_arg_num(s, i + 2) = NumberIn(w)
    BY <1>7, <1>9, <2>4
  <2>6. Applied(set, w) = [set EXCEPT !.level = NumberIn(w)]
    BY <1>10 DEF Applied
  <2> QED BY <2>3, <2>5, <2>6 DEF s, w, i, loop
<1>11. CASE Head(w) = "C"
  <2>1. StartsWith(s, i + 1, "C")
    BY <1>8, <1>11 DEF StartsWith
  <2>2. ~StartsWith(s, i + 1, "L")
    BY <1>8, <1>11 DEF StartsWith
  <2>3. Turn(s, loop) = [at |-> WordEnd(s, i + 3),
                         set |-> [set EXCEPT !.color = read_arg_num(s, i + 3) # 0]]
    BY <1>8, <1>a, <2>1, <2>2 DEF Turn
  <2>4. NumberIn(w) = Number(SubSeq(w, 3, Len(w)))
    BY <1>11 DEF NumberIn
  <2>5. Len(w) >= 2
    <3>1. ASSUME Len(w) = 1 PROVE FALSE
      <4>1. w = <<w[1]>>
        BY <1>1, <3>1
      <4> QED BY <1>1, <1>7, <1>11, <4>1
    <3> QED BY <1>7, <3>1
  <2>6. WordEnd(s, i + 3) = g[k] /\ read_arg_num(s, i + 3) = NumberIn(w)
    BY <1>7, <1>9, <2>4, <2>5
  <2>7. Applied(set, w) = [set EXCEPT !.color = NumberIn(w) # 0]
    BY <1>11 DEF Applied
  <2> QED BY <2>3, <2>6, <2>7 DEF s, w, i, loop
<1> QED BY <1>5, <1>10, <1>11


(* At the end of the name or of a word the loop stops when what follows is *)
(* no option.                                                              *)
LEMMA TurnStops ==
  ASSUME NEW name, NEW words, NEW g, Written(g, name, words),
         NEW k \in 0 .. Len(words), k = Len(words) \/ ~IsOption(words[k + 1]), NEW set
  PROVE  Turn(Text(name, words), [at |-> g[k], set |-> set]) = [at |-> g[k], set |-> set]
<1> DEFINE s == Text(name, words)
           n == Len(words)
           i == g[k]
           loop == [at |-> i, set |-> set]
<1>1. Layout(g, name, words) /\ words \in Seq(Seq(STRING \ {Space}))
  BY DEF Written, Lawful
<1>2. n \in Nat
  BY <1>1
<1>3. loop.at = i /\ loop.set = set
  OBVIOUS
<1>4. CASE k = n
  <2>1. i = Len(s) + 1 /\ Len(s) \in Nat
    BY <1>1, <1>4 DEF Layout
  <2> HIDE DEF s, i, loop, n
  <2>2. i > Len(s)
    BY <2>1
  <2> QED BY <1>3, <2>2 DEF Turn, s, i, loop
<1>5. CASE k # n
  <2> DEFINE w == words[k + 1]
  <2>1. k + 1 \in 1 .. n /\ k + 1 - 1 = k /\ k + 1 \in 0 .. n /\ k \in 0 .. n
    BY <1>2, <1>5
  <2>2. i \in Nat
    BY <1>1, <2>1 DEF Layout
  <2>3. g[k + 1] = i + 1 + Len(w) /\ \A j \in 1 .. Len(w) : s[i + j] = w[j]
    <3>1. PICK q \in 1 .. n : q = k + 1 /\ q - 1 = k
      BY <2>1
    <3>2. /\ g[q] = g[q - 1] + 1 + Len(words[q])
          /\ \A j \in 1 .. Len(words[q]) : s[g[q - 1] + j] = words[q][j]
      BY <1>1 DEF Layout
    <3> QED BY <3>1, <3>2
  <2>4. w \in Seq(STRING \ {Space}) /\ ~IsOption(w)
    BY <1>1, <1>5, <2>1, ElementOfSeq
  <2>5. g[k + 1] = Len(s) + 1 \/ s[g[k + 1]] = Space
    <3>1. CASE k + 1 = n
      BY <1>1, <3>1 DEF Layout
    <3>2. CASE k + 1 # n
      <4>1. PICK q \in 1 .. n : q - 1 = k + 1
        <5>1. k + 2 \in 1 .. n /\ k + 2 - 1 = k + 1
          BY <1>2, <2>1, <3>2
        <5> QED BY <5>1
      <4>2. s[g[q - 1]] = Space
        BY <1>1 DEF Layout
      <4> QED BY <4>1, <4>2
    <3> QED BY <3>1, <3>2
  <2> HIDE DEF s, i, loop, n, w
  <2>6. i + 1 <= Len(s) => s[i + 1] # "L" /\ s[i + 1] # "C"
    <3>1. CASE w = <<>>
      <4>1. g[k + 1] = i + 1
        BY <2>2, <2>3, <3>1, EmptySeq
      <4>2. Len(s) \in Nat
        BY <1>1 DEF Layout, s
      <4>3. i + 1 <= Len(s) => s[i + 1] = Space
        BY <2>2, <2>5, <4>1, <4>2
      <4> QED BY <4>3, SpaceIs
    <3>2. CASE w # <<>>
      <4>1. Len(w) \in Nat \ {0} /\ Head(w) = w[1]
        BY <2>4, <3>2, EmptySeq
      <4>2. s[i + 1] = Head(w)
        <5>1. 1 \in 1 .. Len(w)
          BY <4>1
        <5> QED BY <2>3, <4>1, <5>1
      <4>3. Head(w) \notin {"L", "C"}
        BY <2>4, <3>2 DEF IsOption
      <4> QED BY <4>2, <4>3
    <3> QED BY <3>1, <3>2
  <2>7. ~StartsWith(s, i + 1, "L") /\ ~StartsWith(s, i + 1, "C")
    BY <2>6 DEF StartsWith
  <2> QED BY <1>3, <2>7 DEF Turn, s, i, loop
<1> QED BY <1>4, <1>5

LEMMA NameEnds ==
  ASSUME NEW name, NEW words, NEW g, Written(g, name, words)
  PROVE  LET s == Text(name, words)
             e == Len(name) + 1
         IN  /\ Len(s) \in Nat /\ e \in 1 .. Len(s) + 1 /\ g[0] = e
             /\ e = Len(s) + 1 \/ s[e] = Space
             /\ \A j \in 1 .. Len(name) : s[j] = name[j] /\ s[j] # Space
             /\ WordEnd(s, 1) = e
<1> DEFINE s == Text(name, words)
           n == Len(words)
           e == Len(name) + 1
<1>1. /\ Layout(g, name, words) /\ name \in Seq(STRING \ {Space})
      /\ n \in Nat /\ Len(name) \in Nat
  BY DEF Written, Lawful
<1>2. 0 \in 0 .. n
  BY <1>1
<1>3. Len(s) \in Nat /\ g[0] = e /\ e \in 1 .. Len(s) + 1
  BY <1>1, <1>2 DEF Layout
<1>4. e = Len(s) + 1 \/ s[e] = Space
  <2>1. CASE n = 0
    BY <1>1, <1>3, <2>1 DEF Layout
  <2>2. CASE n # 0
    <3>1. 1 \in 1 .. n /\ 1 - 1 = 0
      BY <1>1, <2>2
    <3>2. s[g[1 - 1]] = Space
      BY <1>1, <3>1 DEF Layout
    <3> QED BY <1>3, <3>1, <3>2
  <2> QED BY <2>1, <2>2
<1>5. ASSUME NEW j \in 1 .. Len(name) PROVE s[j] = name[j] /\ s[j] # Space
  <2>1. s[j] = name[j]
    BY <1>1 DEF Layout
  <2>2. name[j] \in STRING \ {Space}
    BY <1>1, ElementOfSeq
  <2> QED BY <2>1, <2>2
<1> HIDE DEF s
<1>6. WordEnd(s, 1) = e
  <2>1. ASSUME NEW q \in 1 .. e - 1 PROVE s[q] # Space
    <3>1. q \in 1 .. Len(name)
      BY <1>1
    <3> QED BY <1>5, <3>1
  <2> HIDE DEF e
  <2> QED BY <1>3, <1>4, <2>1, WordEndIs
<1> QED BY <1>3, <1>4, <1>5, <1>6 DEF s

(* A name that does not fit: the loop starts in it and stays there.        *)
LEMMA TurnInName ==
  ASSUME NEW name, NEW words, NEW g, Written(g, name, words), Len(name) >= NAME_SIZE, NEW set
  PROVE  LET s == Text(name, words)
             loop == [at |-> NAME_SIZE, set |-> set]
         IN  read_arg_str(s, NAME_SIZE) = NAME_SIZE /\ Turn(s, loop) = loop
<1> DEFINE s == Text(name, words)
           i == NAME_SIZE
           e == Len(name) + 1
           loop == [at |-> i, set |-> set]
<1>1. /\ Len(s) \in Nat /\ e \in 1 .. Len(s) + 1
      /\ e = Len(s) + 1 \/ s[e] = Space
      /\ \A j \in 1 .. Len(name) : s[j] = name[j]
      /\ WordEnd(s, 1) = e
  BY NameEnds
<1>2. Len(name) \in Nat /\ i \in Nat /\ (Len(name) > i => name[i + 1] \notin {"L", "C"})
  BY CmdlineAssumption DEF Written, Lawful
<1>3. loop.at = i /\ loop.set = set
  OBVIOUS
<1> HIDE DEF s, loop
<1>4. i + 1 <= Len(s) => s[i + 1] # "L" /\ s[i + 1] # "C"
  <2>1. CASE i = Len(name)
    <3>1. i + 1 <= Len(s) => s[i + 1] = Space
      BY <1>1, <1>2, <2>1
    <3> QED BY <3>1, SpaceIs
  <2>2. CASE i # Len(name)
    <3>1. i + 1 \in 1 .. Len(name)
      BY <1>2, <2>2
    <3>2. s[i + 1] = name[i + 1] /\ Len(name) > i
      BY <1>1, <1>2, <3>1
    <3> QED BY <1>2, <3>2
  <2> QED BY <2>1, <2>2
<1>5. ~StartsWith(s, i + 1, "L") /\ ~StartsWith(s, i + 1, "C")
  BY <1>4 DEF StartsWith
<1>6. Turn(s, loop) = loop
  BY <1>3, <1>5 DEF Turn
<1>7. read_arg_str(s, i) = i
  <2>1. e > i
    BY <1>2
  <2> QED BY <1>1, <2>1 DEF read_arg_str
<1> QED BY <1>6, <1>7 DEF s, loop

-----------------------------------------------------------------------------
(* Options: the loop's function.                                           *)

IsTurns(h, s, start, default) ==
  h = [n \in 0 .. Len(s) |->
        IF n = 0 THEN {[at |-> start, set |-> default]}
        ELSE {Turn(s, loop) : loop \in h[n - 1]}]

(* st are the states of a loop that comes to rest after m turns.           *)
Rests(st, m, s) ==
  /\ \A k \in 1 .. m : Turn(s, st[k - 1]) = st[k]
  /\ Turn(s, st[m]) = st[m]

LEMMA LoopIs ==
  ASSUME NEW s, Len(s) \in Nat, NEW start, NEW default, NEW m \in 0 .. Len(s), NEW st,
         st[0] = [at |-> start, set |-> default], Rests(st, m, s)
  PROVE  Options(s, start, default) = st[m].set
<1> DEFINE N == Len(s)
           lo(n) == IF n <= m THEN st[n] ELSE st[m]
           tr == [n \in 0 .. N |-> {lo(n)}]
           H == CHOOSE h : IsTurns(h, s, start, default)
<1>1. \A n \in 1 .. N : Turn(s, lo(n - 1)) = lo(n)
  <2> SUFFICES ASSUME NEW n \in 1 .. N PROVE Turn(s, lo(n - 1)) = lo(n)
    OBVIOUS
  <2>1. CASE n <= m
    <3>1. n \in 1 .. m /\ n - 1 <= m
      BY <2>1
    <3> QED BY <3>1 DEF Rests
  <2>2. CASE n = m + 1
    <3>1. n - 1 = m /\ ~(n <= m)
      BY <2>2
    <3> QED BY <3>1 DEF Rests
  <2>3. CASE n > m + 1
    <3>1. ~(n - 1 <= m) /\ ~(n <= m)
      BY <2>3
    <3> QED BY <3>1 DEF Rests
  <2> QED BY <2>1, <2>2, <2>3
<1>2. lo(0) = [at |-> start, set |-> default] /\ lo(N) = st[m]
  <2>1. 0 <= m /\ (N <= m => N = m)
    OBVIOUS
  <2> QED BY <2>1
<1> HIDE DEF lo
<1>3. IsTurns(tr, s, start, default)
  <2>1. ASSUME NEW n \in 0 .. N
        PROVE  tr[n] = IF n = 0 THEN {[at |-> start, set |-> default]}
                       ELSE {Turn(s, loop) : loop \in tr[n - 1]}
    <3>1. CASE n = 0
      BY <1>2, <3>1
    <3>2. CASE n # 0
      <4>1. n \in 1 .. N /\ n - 1 \in 0 .. N
        BY <3>2
      <4>2. tr[n - 1] = {lo(n - 1)} /\ tr[n] = {lo(n)}
        BY <4>1
      <4> QED BY <1>1, <3>2, <4>1, <4>2
    <3> QED BY <3>1, <3>2
  <2>2. tr = [n \in 0 .. N |-> tr[n]]
    OBVIOUS
  <2> HIDE DEF tr
  <2> QED BY <2>1, <2>2 DEF IsTurns
<1>4. IsTurns(H, s, start, default)
  <2> HIDE DEF tr
  <2> QED BY <1>3
<1> HIDE DEF H
<1>5. \A n \in 0 .. N : H[n] = tr[n]
  <2> DEFINE T == {n \in 0 .. N : H[n] # tr[n]}
  <2> SUFFICES ASSUME T # {} PROVE FALSE
    OBVIOUS
  <2>1. T \subseteq Nat
    OBVIOUS
  <2>2. PICK n \in T : \A q \in T : n <= q
    <3> HIDE DEF T
    <3> QED BY <2>1, LeastNumber
  <2>3. n \in 0 .. N /\ H[n] # tr[n]
    OBVIOUS
  <2> HIDE DEF tr
  <2>4. CASE n = 0
    <3>1. H[0] = {[at |-> start, set |-> default]} /\ tr[0] = {[at |-> start, set |-> default]}
      BY <1>3, <1>4 DEF IsTurns
    <3> QED BY <2>3, <2>4, <3>1
  <2>5. CASE n # 0
    <3>1. n - 1 \in 0 .. N /\ n - 1 \notin T
      BY <2>2, <2>3, <2>5
    <3>2. H[n - 1] = tr[n - 1]
      BY <3>1
    <3>3. H[n] = {Turn(s, loop) : loop \in H[n - 1]}
      BY <1>4, <2>3, <2>5 DEF IsTurns
    <3>4. tr[n] = {Turn(s, loop) : loop \in tr[n - 1]}
      BY <1>3, <2>3, <2>5 DEF IsTurns
    <3> QED BY <2>3, <3>2, <3>3, <3>4
  <2> QED BY <2>4, <2>5
<1>6. H[N] = {st[m]}
  <2>1. N \in 0 .. N
    OBVIOUS
  <2> QED BY <1>2, <1>5, <2>1
<1>7. Options(s, start, default) = (CHOOSE loop \in H[N] : TRUE).set
  BY DEF Options, H, IsTurns
<1>8. (CHOOSE loop \in {st[m]} : TRUE) = st[m]
  OBVIOUS
<1> QED BY <1>6, <1>7, <1>8


-----------------------------------------------------------------------------
(* What the options mean.                                                  *)

LEMMA LastIs ==
  ASSUME NEW k \in Nat, NEW T, T \subseteq 1 .. k, k \in T
  PROVE  Max(T) = k
<1>1. Max(T) \in T /\ k <= Max(T)
  BY LargestNumber
<1>2. Max(T) \in 1 .. k
  BY <1>1
<1> QED BY <1>1, <1>2

(* The first m words are options and the next one, if any, is not.         *)
FirstOptions(words, m) ==
  /\ \A i \in 1 .. m : IsOption(words[i])
  /\ m = Len(words) \/ ~IsOption(words[m + 1])

LEMMA FirstOptionsExist ==
  ASSUME NEW words, Len(words) \in Nat
  PROVE  \E m \in 0 .. Len(words) : FirstOptions(words, m)
<1> DEFINE n == Len(words)
           T == {k \in 0 .. n : k = n \/ ~IsOption(words[k + 1])}
<1>1. T \subseteq Nat /\ n \in T
  OBVIOUS
<1>2. PICK m \in T : \A k \in T : m <= k
  <2> HIDE DEF T
  <2> QED BY <1>1, LeastNumber
<1>3. ASSUME NEW i \in 1 .. m PROVE IsOption(words[i])
  <2>1. PICK q \in 0 .. n : q + 1 = i /\ ~(m <= q)
    <3>1. i - 1 \in 0 .. n /\ (i - 1) + 1 = i /\ ~(m <= i - 1)
      OBVIOUS
    <3> QED BY <3>1
  <2> QED BY <1>2, <2>1
<1> QED BY <1>3 DEF FirstOptions

(* The number of the last of the first k words with the key.               *)
Chosen(words, k, key) == {j \in 1 .. k : Head(words[j]) = key}

Latest(words, k, key, default) ==
  IF Chosen(words, k, key) = {} THEN default ELSE NumberIn(words[Max(Chosen(words, k, key))])

LEMMA LatestNext ==
  ASSUME NEW words, NEW k \in Nat \ {0}, NEW key, NEW default
  PROVE  Latest(words, k, key, default)
           = IF Head(words[k]) = key THEN NumberIn(words[k])
                                     ELSE Latest(words, k - 1, key, default)
<1> DEFINE C == Chosen(words, k, key)
<1>1. CASE Head(words[k]) = key
  <2>1. k \in C /\ C \subseteq 1 .. k
    BY <1>1 DEF Chosen
  <2> HIDE DEF C
  <2>2. Max(C) = k /\ C # {}
    BY <2>1, LastIs
  <2> QED BY <1>1, <2>2 DEF Latest, C
<1>2. CASE Head(words[k]) # key
  <2>1. C = Chosen(words, k - 1, key)
    BY <1>2 DEF Chosen
  <2> QED BY <1>2, <2>1 DEF Latest
<1> QED BY <1>1, <1>2

LEMMA SettingIs ==
  ASSUME NEW name, NEW words, Lawful(name, words), NEW key, NEW default
  PROVE  \/ /\ Len(name) >= NAME_SIZE
            /\ Setting(name, words, key, default) = default
         \/ /\ Len(name) < NAME_SIZE
            /\ \E m \in 0 .. Len(words) :
                 /\ FirstOptions(words, m)
                 /\ m = CHOOSE k \in 0 .. Len(words) : FirstOptions(words, k)
                 /\ Setting(name, words, key, default) = Latest(words, m, key, default)
<1> DEFINE n == Len(words)
           valid == Valid(name, words)
           T == {k \in DOMAIN valid : Head(valid[k]) = key}
<1>1. /\ n \in Nat /\ Len(name) \in Nat /\ NAME_SIZE \in Nat
      /\ words \in Seq(Seq(STRING \ {Space}))
  BY CmdlineAssumption DEF Lawful
<1>2. Setting(name, words, key, default)
        = IF T = {} THEN default ELSE NumberIn(valid[Max(T)])
  BY DEF Setting
<1>3. CASE Len(name) >= NAME_SIZE
  <2>1. valid = <<>>
    BY <1>3 DEF Valid
  <2>2. T = {}
    BY <2>1
  <2> QED BY <1>2, <1>3, <2>2
<1>4. CASE Len(name) < NAME_SIZE
  <2> DEFINE m == CHOOSE k \in 0 .. n : FirstOptions(words, k)
  <2>1. m \in 0 .. n /\ FirstOptions(words, m)
    BY <1>1, FirstOptionsExist
  <2>2. valid = SubSeq(words, 1, m)
    <3>1. ~(Len(name) >= NAME_SIZE)
      BY <1>1, <1>4
    <3>2. valid = IF Len(name) >= NAME_SIZE THEN <<>> ELSE SubSeq(words, 1, m)
      BY DEF Valid, FirstOptions
    <3> QED BY <3>1, <3>2
  <2> HIDE DEF m, n, valid
  <2>3. DOMAIN valid = 1 .. m /\ \A k \in 1 .. m : valid[k] = words[k]
    BY <1>1, <2>1, <2>2 DEF n
  <2>4. T = Chosen(words, m, key)
    BY <2>3 DEF Chosen
  <2>5. T # {} => Max(T) \in 1 .. m
    <3>1. T \subseteq 1 .. m /\ m \in Nat
      BY <1>1, <2>1, <2>4 DEF Chosen
    <3> HIDE DEF T
    <3> QED BY <3>1, LargestNumber
  <2> HIDE DEF T
  <2>6. Setting(name, words, key, default) = Latest(words, m, key, default)
    BY <1>2, <2>3, <2>4, <2>5 DEF Latest
  <2> QED BY <1>4, <2>1, <2>6 DEF m, n
<1> QED BY <1>1, <1>3, <1>4

LEMMA OptionsMean ==
  ASSUME NEW name, NEW words, Lawful(name, words), NEW level
  PROVE  LET set == read_cmdline(Text(name, words), [level |-> level, color |-> FALSE])
         IN  /\ set.level = Setting(name, words, "L", level)
             /\ set.color = (Setting(name, words, "C", 0) # 0)
<1> DEFINE s == Text(name, words)
           n == Len(words)
           default == [level |-> level, color |-> FALSE]
           e == read_arg_str(s, NAME_SIZE)
<1>1. n \in Nat /\ Len(name) \in Nat /\ NAME_SIZE \in Nat \ {0}
  BY CmdlineAssumption DEF Lawful
<1>2. PICK g : Written(g, name, words)
  <2> DEFINE C == STRING \cup {Space}
  <2>1. STRING \ {Space} \subseteq C /\ Space \in C
    OBVIOUS
  <2>2. Seq(STRING \ {Space}) \subseteq Seq(C)
    BY <2>1, SeqWider
  <2>3. Seq(Seq(STRING \ {Space})) \subseteq Seq(Seq(C))
    BY <2>2, SeqWider
  <2>4. name \in Seq(C) /\ words \in Seq(Seq(C))
    BY <2>2, <2>3 DEF Lawful
  <2> HIDE DEF C
  <2>5. \E g : Layout(g, name, words)
    BY <2>1, <2>4, TextLayout
  <2> QED BY <2>5 DEF Written
<1>3. Len(s) \in Nat /\ WordEnd(s, 1) = Len(name) + 1 /\ g[0] = Len(name) + 1
  BY <1>2, NameEnds
<1>4. read_cmdline(s, default) = Options(s, e, default)
  BY DEF read_cmdline
<1>5. CASE Len(name) >= NAME_SIZE
  <2> DEFINE st == [k \in {0} |-> [at |-> NAME_SIZE, set |-> default]]
  <2>1. e = NAME_SIZE /\ Turn(s, st[0]) = st[0]
    BY <1>2, <1>5, TurnInName
  <2>2. Rests(st, 0, s)
    BY <2>1 DEF Rests
  <2>3. st[0] = [at |-> e, set |-> default] /\ st[0].set = default
    BY <2>1
  <2> HIDE DEF s, st, default, e
  <2>4. Options(s, e, default) = default
    <3>1. 0 \in 0 .. Len(s)
      BY <1>3
    <3> QED BY <1>3, <2>2, <2>3, <3>1, LoopIs
  <2>5. Setting(name, words, "L", level) = level /\ Setting(name, words, "C", 0) = 0
    <3>1. ~(Len(name) < NAME_SIZE)
      BY <1>1, <1>5
    <3>2. Setting(name, words, "L", level) = level
      BY <3>1, SettingIs
    <3>3. Setting(name, words, "C", 0) = 0
      BY <3>1, SettingIs
    <3> QED BY <3>2, <3>3
  <2>6. (Setting(name, words, "C", 0) # 0) = FALSE
    BY <2>5
  <2>7. read_cmdline(s, default) = [level |-> Setting(name, words, "L", level),
                                    color |-> Setting(name, words, "C", 0) # 0]
    BY <1>4, <2>4, <2>5, <2>6 DEF default
  <2> QED BY <2>7 DEF s, default
<1>6. CASE Len(name) < NAME_SIZE
  <2> DEFINE m == CHOOSE k \in 0 .. n : FirstOptions(words, k)
             st == [k \in 0 .. m |->
                      [at  |-> g[k],
                       set |-> [level |-> Latest(words, k, "L", level),
                                color |-> Latest(words, k, "C", 0) # 0]]]
  <2>1. /\ m \in 0 .. n /\ FirstOptions(words, m)
        /\ Setting(name, words, "L", level) = Latest(words, m, "L", level)
        /\ Setting(name, words, "C", 0) = Latest(words, m, "C", 0)
    <3>1. ~(Len(name) >= NAME_SIZE)
      BY <1>1, <1>6
    <3>2. PICK k \in 0 .. n : /\ FirstOptions(words, k) /\ k = m
                              /\ Setting(name, words, "L", level) = Latest(words, k, "L", level)
      BY <3>1, SettingIs
    <3>3. PICK q \in 0 .. n : q = m /\ Setting(name, words, "C", 0) = Latest(words, q, "C", 0)
      BY <3>1, SettingIs
    <3> QED BY <3>2, <3>3
  <2> HIDE DEF m
  <2>2. e = Len(name) + 1
    <3>1. ~(Len(name) + 1 > NAME_SIZE)
      BY <1>1, <1>6
    <3> QED BY <1>3, <3>1 DEF read_arg_str
  <2>3. m \in 0 .. Len(s) /\ m \in Nat
    <3>1. g[n] = Len(s) + 1 /\ g[n] > n
      BY <1>1, <1>2 DEF Written, Layout
    <3> QED BY <1>1, <1>3, <2>1, <3>1
  <2>4. st[0] = [at |-> e, set |-> default]
    <3>1. Chosen(words, 0, "L") = {} /\ Chosen(words, 0, "C") = {}
      BY DEF Chosen
    <3>2. Latest(words, 0, "L", level) = level /\ Latest(words, 0, "C", 0) = 0
      BY <3>1 DEF Latest
    <3>3. 0 \in 0 .. m
      BY <2>3
    <3>4. st[0] = [at  |-> g[0], set |-> [level |-> Latest(words, 0, "L", level),
                                         color |-> Latest(words, 0, "C", 0) # 0]]
      BY <3>3
    <3>5. (Latest(words, 0, "C", 0) # 0) = FALSE
      BY <3>2
    <3> QED BY <1>3, <2>2, <3>2, <3>4, <3>5
  <2>5. ASSUME NEW k \in 1 .. m PROVE Turn(s, st[k - 1]) = st[k]
    <3> DEFINE w == words[k]
               l == Latest(words, k - 1, "L", level)
               c == Latest(words, k - 1, "C", 0)
               before == [level |-> l, color |-> c # 0]
    <3>1. k \in 1 .. n /\ IsOption(w) /\ k - 1 \in 0 .. m /\ k \in 0 .. m /\ k \in Nat \ {0}
      BY <1>1, <2>1, <2>3 DEF FirstOptions
    <3>2. st[k - 1] = [at |-> g[k - 1], set |-> before]
      BY <3>1
    <3>3. Turn(s, st[k - 1]) = [at |-> g[k], set |-> Applied(before, w)]
      <4> HIDE DEF before, st
      <4> QED BY <1>2, <3>1, <3>2, TurnTakes
    <3>4. Head(w) \in {"L", "C"}
      BY <3>1 DEF IsOption
    <3>5. /\ Latest(words, k, "L", level) = IF Head(w) = "L" THEN NumberIn(w) ELSE l
          /\ Latest(words, k, "C", 0) = IF Head(w) = "C" THEN NumberIn(w) ELSE c
      BY <3>1, LatestNext
    <3>6. st[k] = [at |-> g[k], set |-> [level |-> Latest(words, k, "L", level),
                                         color |-> Latest(words, k, "C", 0) # 0]]
      BY <3>1
    <3> HIDE DEF w, l, c, st
    <3>7. Applied(before, w) = [level |-> Latest(words, k, "L", level),
                                color |-> Latest(words, k, "C", 0) # 0]
      <4>1. CASE Head(w) = "L"
        <5>1. Applied(before, w) = [level |-> NumberIn(w), color |-> c # 0]
          BY <4>1 DEF Applied
        <5> QED BY <3>5, <4>1, <5>1
      <4>2. CASE Head(w) = "C"
        <5>1. Applied(before, w) = [level |-> l, color |-> NumberIn(w) # 0]
          BY <4>2 DEF Applied
        <5> QED BY <3>5, <4>2, <5>1
      <4> QED BY <3>4, <4>1, <4>2
    <3> QED BY <3>3, <3>6, <3>7
  <2>6. Turn(s, st[m]) = st[m]
    <3>1. m \in 0 .. m
      BY <2>3
    <3>2. st[m] = [at |-> g[m], set |-> [level |-> Latest(words, m, "L", level),
                                         color |-> Latest(words, m, "C", 0) # 0]]
      BY <3>1
    <3>3. m = Len(words) \/ ~IsOption(words[m + 1])
      BY <2>1 DEF FirstOptions
    <3> HIDE DEF st
    <3> QED BY <1>2, <2>1, <3>2, <3>3, TurnStops
  <2>7. st[m].set = [level |-> Latest(words, m, "L", level), color |-> Latest(words, m, "C", 0) # 0]
    <3>1. m \in 0 .. m
      BY <2>3
    <3> QED BY <3>1
  <2> HIDE DEF s, st, default, e
  <2>8. Options(s, e, default) = st[m].set
    <3>1. Rests(st, m, s)
      BY <2>5, <2>6 DEF Rests
    <3> QED BY <1>3, <2>3, <2>4, <3>1, LoopIs
  <2>9. read_cmdline(s, default) = [level |-> Setting(name, words, "L", level),
                                    color |-> Setting(name, words, "C", 0) # 0]
    BY <1>4, <2>1, <2>7, <2>8
  <2> QED BY <2>9 DEF s, default
<1> QED BY <1>1, <1>5, <1>6

(* What is set as far as the boot has come.                                *)
SettingsInv ==
  /\ stage \in {"settings", "cmdline", "pic"} => cmdline \in CommandLines
  /\ stage = "cmdline" => settings = [level |-> LEVEL_LOG, color |-> FALSE]
  /\ stage = "pic" =>
       settings = read_cmdline(Text(cmdline.name, cmdline.words),
                               [level |-> LEVEL_LOG, color |-> FALSE])

LEMMA SettingsStep == SettingsInv /\ [Next]_vars => SettingsInv'
<1> SUFFICES ASSUME SettingsInv, [Next]_vars PROVE SettingsInv'
  OBVIOUS
<1> DEFINE Same == stage' = stage /\ cmdline' = cmdline /\ settings' = settings
<1>1. ASSUME Same PROVE SettingsInv'
  BY <1>1 DEF SettingsInv
<1>2. CASE UNCHANGED vars
  BY <1>1, <1>2 DEF vars, boot
<1>3. CASE SetLogDefaults
  BY <1>3 DEF SetLogDefaults, Stage, SettingsInv
<1>4. CASE ReadCmdline
  <2>1. stage = "cmdline" /\ stage' = "pic" /\ cmdline' = cmdline
        /\ settings' = read_cmdline(Text(cmdline.name, cmdline.words), settings)
    BY <1>4 DEF ReadCmdline, Stage
  <2> QED BY <2>1 DEF SettingsInv
<1>5. CASE PicInit
  BY <1>5 DEF PicInit, Stage, SettingsInv
<1>6. CASE InterruptInit
  BY <1>6 DEF InterruptInit, Stage, SettingsInv
<1>7. CASE PitInit
  BY <1>7 DEF PitInit, Stage, SettingsInv
<1>8. CASE SchedulerInit
  BY <1>8 DEF SchedulerInit, Stage, SettingsInv
<1>9. CASE InterruptEnable
  BY <1>9 DEF InterruptEnable, Stage, SettingsInv
<1>10. CASE \/ LogPart \/ LogReturn \/ Log \/ Printf \/ CallHalt \/ HaltDisable
            \/ InterruptEntry \/ NoHandler \/ HandlerHalt \/ HaltMessage \/ InterruptReturn
            \/ (\E v \in Exception : Raise(v)) \/ (\E l \in Line : Request(l) \/ Deliver(l))
  BY <1>1, <1>10 DEF LogPart, LogReturn, Log, Printf, CallHalt, HaltDisable, InterruptEntry,
     NoHandler, HandlerHalt, HaltMessage, InterruptReturn, Raise, Request, Deliver, boot
<1>11. CASE Yield \/ PitHandler \/ HaltLoop
  BY <1>1, <1>11 DEF Yield, PitHandler, HaltLoop, vars, boot
<1> QED BY <1>2, <1>3, <1>4, <1>5, <1>6, <1>7, <1>8, <1>9, <1>10, <1>11
        DEF Next, CpuStep, Boot

(* The settings are those of the last option of each kind, among the words *)
(* up to the first that is no option, for every command line and every     *)
(* size of name[] (cmdline.c, main.c).                                     *)
THEOREM OptionsAreApplied == Spec => []OptionsApplied
<1>1. Init => SettingsInv
  BY DEF Init, SettingsInv
<1>2. SettingsInv => OptionsApplied
  <2> SUFFICES ASSUME SettingsInv, stage = "pic" PROVE OptionsApplied
    BY DEF OptionsApplied
  <2> DEFINE name == cmdline.name
             words == cmdline.words
  <2>1. /\ cmdline \in CommandLines
        /\ settings = read_cmdline(Text(name, words), [level |-> LEVEL_LOG, color |-> FALSE])
    BY DEF SettingsInv
  <2>2. Lawful(name, words)
    BY <2>1, CommandLinesAssumption DEF Lawful
  <2> HIDE DEF name, words
  <2>3. /\ settings.level = Setting(name, words, "L", LEVEL_LOG)
        /\ settings.color = (Setting(name, words, "C", 0) # 0)
    BY <2>1, <2>2, OptionsMean
  <2> QED BY <2>3 DEF OptionsApplied, name, words
<1> QED BY <1>1, <1>2, SettingsStep, PTL DEF Spec
=============================================================================
