------------------------------ MODULE Startup ------------------------------
(***************************************************************************)
(* main() of App from HAL_Init to the first task: SystemClock_Config sets  *)
(* the priority of SysTick, elog_init creates the mutex of the logger,     *)
(* fatfs_init (module Storage) brings the card up, task_init creates the   *)
(* tasks and vTaskStartScheduler begins multitasking.                      *)
(*                                                                         *)
(* What ties these steps together is the interrupt mask.  The critical     *)
(* section count of the FreeRTOS port starts at 0xaaaaaaaa, and leaving a  *)
(* critical section clears BASEPRI only when the count comes back to 0, so *)
(* BASEPRI stays raised from the first FreeRTOS call to the first task.    *)
(* HAL_SD_InitCard waits meanwhile for ticks that SysTick_Handler counts:  *)
(* they come because BASEPRI does not mask priority 0.  For the same       *)
(* reason they come while vTaskStartScheduler() believes them masked.      *)
(***************************************************************************)
EXTENDS Storage, Sequences

CONSTANT
    Unset     \* uxCriticalNesting before the scheduler, positive (0xaaaaaaaa)

ASSUME StartupAssumption == Unset \in Nat \ {0}

VARIABLES
    stage,      \* where main() is
    cpu,        \* BASEPRI raised, critical section count, priority of SysTick
    waited,     \* HAL_GetTick() - tickstart in HAL_Delay, up to its wait, or NoDelay
    ready,      \* priorities of the tasks created
    pendSV      \* a context switch was asked for before there is a first task

kernel   == <<ready, pendSV>>
bootVars == <<vars, stage, cpu, waited, kernel>>

SdDelay == 3          \* the wait of HAL_Delay(2U), which adds one tick
NoDelay == SdDelay + 1

\* configLIBRARY_..._INTERRUPT_PRIORITY: a smaller number is more urgent
Lowest     == 15
MaxSyscall == 5       \* BASEPRI masks this priority and the less urgent ones

\* Mutant of vPortExitCritical: the count is left as it is.
vPortExitUncounted(c) == c

vPortEnterCritical(c) == [c EXCEPT !.masked = TRUE, !.nesting = @ + 1]
vPortExitCritical(c)  ==
    [c EXCEPT !.masked = c.nesting # 1 /\ @, !.nesting = @ - 1]

\* A FreeRTOS call that enters and leaves a critical section
CriticalSection == cpu' = vPortExitCritical(vPortEnterCritical(cpu))

\* HAL_Init gives SysTick the lowest priority (TICK_INT_PRIORITY).
AfterHalInit == [masked |-> FALSE, nesting |-> Unset, systick |-> Lowest]

BootInit ==
    /\ Init /\ stage = "clock" /\ cpu = AfterHalInit /\ waited = NoDelay
    /\ ready = <<>> /\ pendSV = FALSE

\* Mutant of SysTickPriority: SysTick keeps what HAL_Init gave it.
SysTickUntouched == Lowest

\* The call of HAL_NVIC_SetPriority at the end of SystemClock_Config
SysTickPriority == 0

SystemClock_Config ==
    /\ stage = "clock" /\ stage' = "elog"
    /\ cpu' = [cpu EXCEPT !.systick = SysTickPriority]
    /\ UNCHANGED <<vars, waited, kernel>>

\* elog_port_init: xSemaphoreCreateMutex allocates, resets and gives the
\* mutex, each in a critical section of its own.
elog_init ==
    /\ stage = "elog" /\ stage' = "storage" /\ CriticalSection
    /\ UNCHANGED <<vars, waited, kernel>>

\* xSchedulerRunning
Running == stage \in {"running", "lowered", "tasks"}

\* xTaskIncrementTick with no task delayed: a switch between the ready tasks
\* of the priority of pxCurrentTCB, the highest, when there is more than one.
TimeSlice ==
    \E j, k \in DOMAIN ready :
        j # k /\ ready[j] = ready[k] /\ \A l \in DOMAIN ready : ready[l] <= ready[j]

\* SysTick is taken unless BASEPRI masks its priority.  The tick is counted for
\* the HAL, and for the kernel once xSchedulerRunning is set.  What it does
\* after the first task has started is not part of the boot.
SysTick_Handler ==
    /\ stage # "tasks"
    /\ ~cpu.masked \/ cpu.systick < MaxSyscall
    /\ waited' = IF waited < SdDelay THEN waited + 1 ELSE waited
    /\ pendSV' = (pendSV \/ (Running /\ TimeSlice))
    /\ UNCHANGED <<vars, stage, cpu, ready>>

\* HAL_SD_InitCard powers the card up and waits.
PoweringUp == pc = "initialize" /\ ~is_initialized

HAL_Delay ==
    /\ stage = "storage" /\ PoweringUp /\ waited = NoDelay /\ waited' = 0
    /\ UNCHANGED <<vars, stage, cpu, kernel>>

StorageStep ==
    /\ stage = "storage" /\ fatfs_init
    /\ PoweringUp => waited = SdDelay
    /\ waited' = NoDelay /\ UNCHANGED <<stage, cpu, kernel>>

\* Mutant of TaskPriorities: test_task is raised to the bootstrap thread's.
TasksAlike == <<3, 3>>

\* taskParamsArray: lwip_bootstrap and test_task
TaskPriorities == <<3, 2>>

\* createTasksFromArray stops at the first task there is no memory for; its
\* result is ignored.
task_init ==
    /\ stage = "storage" /\ pc = "running" /\ stage' = "start" /\ CriticalSection
    /\ \E n \in 0..Len(TaskPriorities) : ready' = SubSeq(TaskPriorities, 1, n)
    /\ UNCHANGED <<vars, waited, pendSV>>

\* Up to xSchedulerRunning = pdTRUE: without memory for the idle task the
\* scheduler does not start, with it interrupts are "turned off".
vTaskStartScheduler ==
    /\ stage = "start"
    /\ \/ stage' = "asserted" /\ UNCHANGED <<cpu, ready>>
       \/ /\ stage' = "running" /\ ready' = Append(ready, 0)
          /\ cpu' = [cpu EXCEPT !.masked = TRUE]
    /\ UNCHANGED <<vars, waited, pendSV>>

\* xPortStartScheduler makes PendSV and SysTick the lowest priority interrupts.
xPortStartScheduler ==
    /\ stage = "running" /\ stage' = "lowered"
    /\ cpu' = [cpu EXCEPT !.systick = Lowest]
    /\ UNCHANGED <<vars, waited, kernel>>

\* The count is cleared, and the first task starts unmasked.
prvStartFirstTask ==
    /\ stage = "lowered" /\ stage' = "tasks"
    /\ cpu' = [cpu EXCEPT !.masked = FALSE, !.nesting = 0]
    /\ UNCHANGED <<vars, waited, kernel>>

main ==
    \/ SystemClock_Config \/ elog_init \/ HAL_Delay \/ StorageStep \/ task_init
    \/ vTaskStartScheduler \/ xPortStartScheduler \/ prvStartFirstTask

\* A reset of the board starts everything over, but for the card.
BoardReset ==
    /\ Reset /\ stage' = "clock" /\ cpu' = AfterHalInit /\ waited' = NoDelay
    /\ ready' = <<>> /\ pendSV' = FALSE

BootNext == main \/ SysTick_Handler \/ BoardReset

\* The processor executes main(), and the timer of SysTick never stops.
BootSpec == /\ BootInit /\ [][BootNext]_bootVars
            /\ WF_bootVars(main) /\ WF_bootVars(SysTick_Handler)

-----------------------------------------------------------------------------
\* The type invariant; between two steps of main() every critical section
\* that was entered has been left (elog_port_init, createTasksFromArray).
BootTypeOK ==
    /\ stage \in {"clock", "elog", "storage", "start", "running", "lowered",
                  "tasks", "asserted"}
    /\ cpu \in [masked : BOOLEAN, nesting : {0, Unset}, systick : {0, Lowest}]
    /\ waited \in 0..NoDelay
    /\ ready \in Seq(0..3) /\ pendSV \in BOOLEAN

\* tasks.c: interrupts are turned off so that no tick occurs before or during
\* xPortStartScheduler().  SysTick is above the mask until the port lowers it,
\* so a tick does come, and is counted; it must not ask for a context switch,
\* which PendSV, then of priority 0 too, would make at once from a task that
\* never ran.
NoSwitchBeforeFirstTask == ~pendSV

\* init.c: mounting initialises the SD card.  Every f_mount ends with the card
\* ready or with its failure reported, whatever the card does: the wait for
\* its power-up ends although BASEPRI is raised.
MountInitialisesCard == pc = "mount" ~> (Stat = "ready" \/ pc = "halted")
=============================================================================
