--------------------------- MODULE Startup_proofs ---------------------------
(***************************************************************************)
(* Theorems about Startup for every initial critical section count, every  *)
(* set of partition starts and any number of resets.                       *)
(***************************************************************************)
EXTENDS Startup, SequenceTheorems, TLAPS

(***************************************************************************)
(* The inductive invariant.  That no tick asks for a context switch rests  *)
(* on what is in the ready lists when the scheduler is about to start:     *)
(* tasks were created in the order of their table, up to the first there   *)
(* was no memory for, and the idle task behind them, so every priority is  *)
(* lower than the one before it.                                           *)
(***************************************************************************)

Descending(s) == \A j, k \in 1..Len(s) : j < k => s[k] < s[j]

Created ==
    /\ stage \notin {"running", "lowered", "tasks"} => ready \in Seq(1..3)
    /\ Descending(ready)

IInv == BootTypeOK /\ Created /\ NoSwitchBeforeFirstTask

(***************************************************************************)
(* Operators                                                               *)
(***************************************************************************)

\* createTasksFromArray creates a beginning of the table.
LEMMA TablePrefixes ==
  ASSUME NEW n \in 0..Len(TaskPriorities)
  PROVE  LET s == SubSeq(TaskPriorities, 1, n)
         IN s \in Seq(1..3) /\ Descending(s)
<1> DEFINE T == TaskPriorities
           s == SubSeq(T, 1, n)
<1>1. T \in Seq(1..3) /\ Len(T) = 2 /\ T[1] = 3 /\ T[2] = 2
  <2>1. <<3, 2>> \in Seq(1..3) /\ Len(<<3, 2>>) = 2 /\ <<3, 2>>[1] = 3 /\ <<3, 2>>[2] = 2
    OBVIOUS
  <2>2. T = <<3, 2>>
    BY DEF TaskPriorities
  <2>3. QED
    BY <2>1, <2>2, Zenon
<1>5. n \in 0..2
  BY <1>1
<1> HIDE DEF T
<1>2. s \in Seq(1..3) /\ Len(s) = n /\ \A j \in 1..n : s[j] = T[j]
  <2>1. \A j \in 1..n : T[j] \in 1..3
    BY <1>1, <1>5
  <2>2. /\ s \in Seq(1..3) /\ Len(s) = IF 1 <= n THEN n - 1 + 1 ELSE 0
        /\ \A j \in 1..(n - 1 + 1) : s[j] = T[1 + j - 1]
    <3>1. 1 \in Int /\ n \in Int
      BY <1>5
    <3>2. QED
      BY <2>1, <3>1, SubSeqProperties
  <2>3. QED
    BY <1>5, <2>2
<1>3. Descending(s)
  BY <1>1, <1>2, <1>5 DEF Descending
<1>4. QED
  BY <1>2, <1>3 DEF T

\* The idle task is created last.
LEMMA IdleLast ==
  ASSUME NEW s \in Seq(1..3), Descending(s)
  PROVE  Append(s, 0) \in Seq(0..3) /\ Descending(Append(s, 0))
<1>1. /\ Append(s, 0) \in Seq(0..3) /\ Len(Append(s, 0)) = Len(s) + 1
      /\ \A j \in 1..Len(s) : Append(s, 0)[j] = s[j] /\ s[j] \in 1..3
      /\ Append(s, 0)[Len(s) + 1] = 0
  OBVIOUS
<1>2. Descending(Append(s, 0))
  BY <1>1 DEF Descending
<1>3. QED
  BY <1>1, <1>2

\* No two of these tasks have the same priority.
LEMMA NoTimeSlice ==
  ASSUME ready \in Seq(0..3), Descending(ready)
  PROVE  ~TimeSlice
<1>1. ASSUME NEW j \in DOMAIN ready, NEW k \in DOMAIN ready, j # k
      PROVE  ready[j] # ready[k]
  <2>1. j \in 1..Len(ready) /\ k \in 1..Len(ready) /\ (j < k \/ k < j)
    BY <1>1
  <2>2. ready[j] \in 0..3 /\ ready[k] \in 0..3
    BY <2>1
  <2>3. QED
    BY <2>1, <2>2 DEF Descending
<1>2. QED
  BY <1>1 DEF TimeSlice

\* A critical section leaves the count as it found it.
LEMMA SectionKeepsCount ==
  ASSUME BootTypeOK, CriticalSection
  PROVE  cpu' \in [masked : BOOLEAN, nesting : {0, Unset}, systick : {0, Lowest}]
<1> DEFINE Cpus(N) == [masked : BOOLEAN, nesting : N, systick : {0, Lowest}]
           c == vPortEnterCritical(cpu)
<1>1. cpu \in Cpus({0, Unset}) /\ cpu.nesting \in Nat
  BY StartupAssumption DEF BootTypeOK
<1>2. c \in Cpus(Nat) /\ c.nesting = cpu.nesting + 1
  <2>1. /\ DOMAIN c = {"masked", "nesting", "systick"}
        /\ c = [n \in DOMAIN c |-> c[n]]
        /\ c["nesting"] = cpu.nesting + 1 /\ c["systick"] = cpu.systick
    BY <1>1 DEF vPortEnterCritical
  <2>2. c["masked"] \in BOOLEAN
    BY <1>1 DEF vPortEnterCritical
  <2>3. QED
    BY <1>1, <2>1, <2>2
<1>3. cpu' = [c EXCEPT !.masked = c.nesting # 1 /\ @, !.nesting = @ - 1]
  BY DEF CriticalSection, vPortExitCritical
<1> HIDE DEF c
<1>4. /\ DOMAIN cpu' = {"masked", "nesting", "systick"}
      /\ cpu' = [n \in DOMAIN cpu' |-> cpu'[n]]
      /\ cpu'["nesting"] = cpu.nesting /\ cpu'["systick"] \in {0, Lowest}
  <2>1. DOMAIN cpu' = DOMAIN c /\ cpu' = [n \in DOMAIN c |-> cpu'[n]]
    BY <1>3
  <2>2. DOMAIN c = {"masked", "nesting", "systick"} /\ c["systick"] \in {0, Lowest}
    BY <1>2
  <2>3. cpu'["nesting"] = c.nesting - 1 /\ cpu'["systick"] = c["systick"]
    BY <1>3, <2>2
  <2>4. c.nesting - 1 = cpu.nesting
    BY <1>1, <1>2
  <2>5. QED
    BY <2>1, <2>2, <2>3, <2>4
<1>5. cpu'["masked"] \in BOOLEAN
  BY <1>2, <1>3
<1>6. QED
  BY <1>1, <1>4, <1>5

(***************************************************************************)
(* Steps                                                                   *)
(***************************************************************************)

\* What HAL_Init leaves is of the right type.
LEMMA PowerOnType ==
  /\ AfterHalInit \in [masked : BOOLEAN, nesting : {0, Unset}, systick : {0, Lowest}]
  /\ <<>> \in Seq(0..3) /\ <<>> \in Seq(1..3) /\ Len(<<>>) = 0
BY DEF AfterHalInit

\* Nothing created is in descending order.
LEMMA NothingCreated == Descending(<<>>)
<1>1. 1..Len(<<>>) = {}
  BY PowerOnType
<1>2. QED
  BY <1>1 DEF Descending

\* Power-on satisfies the invariant.
LEMMA InitEstablishes == BootInit => IInv
<1> SUFFICES ASSUME BootInit PROVE IInv
  OBVIOUS
<1>1. BootTypeOK
  <2>1. NoDelay \in 0..NoDelay
    BY DEF NoDelay, SdDelay
  <2>2. QED
    BY <2>1, PowerOnType, Zenon DEF BootInit, BootTypeOK
<1>2. Created
  BY PowerOnType, NothingCreated DEF BootInit, Created
<1>3. NoSwitchBeforeFirstTask
  BY DEF BootInit, NoSwitchBeforeFirstTask
<1>4. QED
  BY <1>1, <1>2, <1>3 DEF IInv

\* The steps of main() keep it.
LEMMA MainKeeps ==
  ASSUME IInv, main
  PROVE  IInv'
<1> USE DEF IInv, Created, NoSwitchBeforeFirstTask
<1>0. /\ waited \in 0..NoDelay /\ ready \in Seq(0..3) /\ pendSV = FALSE
      /\ cpu \in [masked : BOOLEAN, nesting : {0, Unset}, systick : {0, Lowest}]
  BY DEF BootTypeOK
<1>1. CASE SystemClock_Config
  BY <1>0, <1>1 DEF SystemClock_Config, SysTickPriority, kernel, BootTypeOK, Descending
<1>2. CASE elog_init
  BY <1>0, <1>2, SectionKeepsCount DEF elog_init, kernel, BootTypeOK, Descending
<1>3. CASE HAL_Delay
  BY <1>0, <1>3 DEF HAL_Delay, kernel, BootTypeOK, Descending, NoDelay, SdDelay
<1>4. CASE StorageStep
  BY <1>0, <1>4 DEF StorageStep, kernel, BootTypeOK, Descending, NoDelay, SdDelay
<1>5. CASE task_init
  <2>1. PICK n \in 0..Len(TaskPriorities) : ready' = SubSeq(TaskPriorities, 1, n)
    BY <1>5 DEF task_init
  <2>2. ready' \in Seq(1..3) /\ Descending(ready')
    BY <2>1, TablePrefixes
  <2>3. QED
    BY <1>0, <1>5, <2>2, SectionKeepsCount DEF task_init, BootTypeOK, Descending
<1>6. CASE vTaskStartScheduler
  <2>0. stage = "start" /\ UNCHANGED <<waited, pendSV>>
    BY <1>6 DEF vTaskStartScheduler
  <2>1. CASE stage' = "asserted"
    BY <1>0, <1>6, <2>0, <2>1 DEF vTaskStartScheduler, BootTypeOK, Descending
  <2>2. CASE stage' = "running"
    <3>1. ready' = Append(ready, 0) /\ cpu' = [cpu EXCEPT !.masked = TRUE]
      BY <1>6, <2>2 DEF vTaskStartScheduler
    <3>2. ready' \in Seq(0..3) /\ Descending(ready')
      BY <2>0, <3>1, IdleLast
    <3>3. QED
      BY <1>0, <2>0, <2>2, <3>1, <3>2 DEF BootTypeOK, Descending
  <2>3. QED
    BY <1>6, <2>1, <2>2 DEF vTaskStartScheduler
<1>7. CASE xPortStartScheduler
  BY <1>0, <1>7 DEF xPortStartScheduler, kernel, BootTypeOK, Descending
<1>8. CASE prvStartFirstTask
  BY <1>0, <1>8 DEF prvStartFirstTask, kernel, BootTypeOK, Descending
<1>9. QED
  BY <1>1, <1>2, <1>3, <1>4, <1>5, <1>6, <1>7, <1>8 DEF main

\* A tick keeps it: while the scheduler starts, the running task shares its
\* priority with no other.
LEMMA TickKeeps ==
  ASSUME IInv, SysTick_Handler
  PROVE  IInv'
<1> USE DEF IInv
<1>1. UNCHANGED <<stage, cpu, ready>> /\ waited' \in 0..NoDelay
  BY DEF SysTick_Handler, BootTypeOK, NoDelay, SdDelay
<1>2. ~(Running /\ TimeSlice)
  BY NoTimeSlice DEF Created, BootTypeOK
<1>3. pendSV' = (FALSE \/ FALSE)
  BY <1>2 DEF SysTick_Handler, NoSwitchBeforeFirstTask
<1>4. QED
  BY <1>1, <1>3 DEF BootTypeOK, Created, Descending, NoSwitchBeforeFirstTask

\* A reset of the board is a power-on, but for the card.
LEMMA ResetKeeps ==
  ASSUME IInv, BoardReset
  PROVE  IInv'
<1>1. BootTypeOK'
  <2>1. NoDelay \in 0..NoDelay
    BY DEF NoDelay, SdDelay
  <2>2. QED
    BY <2>1, PowerOnType, Zenon DEF BoardReset, BootTypeOK
<1>2. Created'
  BY PowerOnType, NothingCreated DEF BoardReset, Created, Descending
<1>3. NoSwitchBeforeFirstTask'
  BY DEF BoardReset, NoSwitchBeforeFirstTask
<1>4. QED
  BY <1>1, <1>2, <1>3 DEF IInv

\* Every step keeps it.
LEMMA StepKeeps == IInv /\ [BootNext]_bootVars => IInv'
<1> SUFFICES ASSUME IInv, [BootNext]_bootVars PROVE IInv'
  OBVIOUS
<1>1. CASE UNCHANGED bootVars
  BY <1>1 DEF bootVars, kernel, IInv, BootTypeOK, Created, Descending,
     NoSwitchBeforeFirstTask
<1>2. QED
  BY <1>1, MainKeeps, TickKeeps, ResetKeeps DEF BootNext

\* It holds in every reachable state.
LEMMA Invariance == BootSpec => []IInv
BY InitEstablishes, StepKeeps, PTL DEF BootSpec

(***************************************************************************)
(* The theorems                                                            *)
(***************************************************************************)

\* The critical sections of elog_port_init and createTasksFromArray balance:
\* between the steps of main() the count is the initial one, or 0 once the
\* first task has started.
THEOREM SectionsBalance == BootSpec => []BootTypeOK
<1>1. IInv => BootTypeOK
  BY DEF IInv
<1>2. QED
  BY <1>1, Invariance, PTL

\* The ticks that come while vTaskStartScheduler() believes them masked ask
\* for no context switch before the first task runs.
THEOREM TicksAreHarmless == BootSpec => []NoSwitchBeforeFirstTask
<1>1. IInv => NoSwitchBeforeFirstTask
  BY DEF IInv
<1>2. QED
  BY <1>1, Invariance, PTL
=============================================================================
