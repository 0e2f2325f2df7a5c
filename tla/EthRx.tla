------------------------------- MODULE EthRx -------------------------------
(***************************************************************************)
(* Reception of Ethernet frames: the DMA fills a ring of descriptors and   *)
(* raises the receive flag, ETH_IRQHandler gives s_xSemaphore, the ETHIN   *)
(* thread (ethernetif_input) takes the frames out of the ring with         *)
(* low_level_input and posts them to the mailbox of tcpip_thread           *)
(* (App/User/arch/ethernetif.c, App/HAL/BSP/eth/bsp_eth.c and the HAL).    *)
(*                                                                         *)
(* Frames are numbered in their order of arrival.  Every frame fits one    *)
(* descriptor (ETH_RX_BUF_SIZE is the largest frame).  A critical section  *)
(* masks the Ethernet interrupt (priority 6, below the mask at 5) and task *)
(* switches; when neither is in force, ETHIN, tcpip_thread and a sender in *)
(* HAL_ETH_TransmitFrame share the processor by time slices.               *)
(***************************************************************************)
EXTENDS Integers, Sequences

CONSTANTS
  RxBufs,      \* ETH_RXBUFNB, 8 in the code
  SemMax,      \* limit of the counting semaphore, 40 in the code
  MboxSize,    \* TCPIP_MBOX_SIZE and MEMP_NUM_TCPIP_MSG_INPKT, both 8
  PoolSize,    \* PBUF_POOL_SIZE, 20
  MaxFrames,   \* bound: frames that arrive
  TxContends   \* whether another thread sends frames meanwhile

ASSUME RingAssumption == RxBufs \in Nat \ {0} /\ SemMax \in Nat \ {0}
ASSUME MemAssumption  == MboxSize \in Nat \ {0} /\ PoolSize \in Nat \ {0}
ASSUME LoadAssumption == MaxFrames \in Nat /\ TxContends \in BOOLEAN

VARIABLES
  ring,       \* ring[i]: 0 while the DMA owns descriptor i, else the frame in it
  dma,        \* the descriptor the DMA fills next
  cpu,        \* heth.RxDesc
  arrived,    \* frames that came in, stored or not
  rbus,       \* receive buffer unavailable: the DMA is suspended
  rflag,      \* receive flag of the DMA, which requests the interrupt
  isr,        \* "idle", or "given" between the callback and the flag's clearing
  sem,        \* count of s_xSemaphore
  pc,         \* ETHIN: "wait", "poll" (in low_level_input) or "post"
  crit,       \* nesting of ETHIN's critical section
  p,          \* the frame in the pbuf p of ETHIN, 0 for NULL
  pool,       \* free pbufs
  held,       \* pbufs that netconns hold until their threads read them
  mbox,       \* frames posted to tcpip_thread and not yet processed
  delivered,  \* frames tcpip_thread processed
  sending,    \* whether a sender is inside HAL_ETH_TransmitFrame
  lock        \* heth.Lock

dmaVars  == <<ring, dma, arrived, rbus>>
ethinVars == <<cpu, pc, crit, p>>
vars == <<dmaVars, rflag, isr, sem, ethinVars, pool, held, mbox, delivered, sending, lock>>

Desc == 0 .. RxBufs - 1
Succ(i) == (i + 1) % RxBufs

\* A task may run outside critical sections while no interrupt is served or due.
TasksRun == crit = 0 /\ isr = "idle" /\ ~rflag

Init ==
  /\ ring = [i \in Desc |-> 0] /\ dma = 0 /\ cpu = 0 /\ arrived = 0
  /\ rbus = FALSE /\ rflag = FALSE /\ isr = "idle" /\ sem = 0
  /\ pc = "wait" /\ crit = 0 /\ p = 0
  /\ pool = PoolSize /\ held = 0 /\ mbox = << >> /\ delivered = << >>
  /\ sending = FALSE /\ lock = FALSE

(***************************************************************************)
(* The DMA and the interrupt                                               *)
(***************************************************************************)

\* A frame arrives: stored when the DMA owns the next descriptor, lost
\* otherwise, and lost while the DMA is suspended.
FrameArrives ==
  /\ arrived < MaxFrames /\ arrived' = arrived + 1
  /\ IF ~rbus /\ ring[dma] = 0
     THEN /\ ring' = [ring EXCEPT ![dma] = arrived + 1]
          /\ dma' = Succ(dma) /\ rflag' = TRUE /\ UNCHANGED rbus
     ELSE rbus' = TRUE /\ UNCHANGED <<ring, dma, rflag>>
  /\ UNCHANGED <<isr, sem, ethinVars, pool, held, mbox, delivered, sending, lock>>

\* Mutant of Signalled: the counting semaphore has no limit.
CountedUp == sem + 1

\* xSemaphoreGiveFromISR on a counting semaphore: a full one stays full.
Signalled == IF sem < SemMax THEN sem + 1 ELSE sem

\* HAL_ETH_IRQHandler finds the receive flag: HAL_ETH_RxCpltCallback.
IrqGive ==
  /\ rflag /\ crit = 0 /\ isr = "idle"
  /\ isr' = "given"
  /\ sem' = Signalled
  /\ UNCHANGED <<dmaVars, rflag, ethinVars, pool, held, mbox, delivered, sending, lock>>

\* It then clears the flag, of later frames too, and unlocks the handle
\* whoever holds it.
IrqClear ==
  /\ isr = "given"
  /\ isr' = "idle" /\ rflag' = FALSE /\ lock' = FALSE
  /\ UNCHANGED <<dmaVars, sem, ethinVars, pool, held, mbox, delivered, sending>>

(***************************************************************************)
(* ethernetif_input, the ETHIN thread                                      *)
(***************************************************************************)

WaitSemaphore ==
  /\ pc = "wait" /\ TasksRun /\ sem > 0
  /\ sem' = sem - 1 /\ crit' = crit + 1 /\ pc' = "poll"
  /\ UNCHANGED <<dmaVars, rflag, isr, cpu, p, pool, held, mbox, delivered, sending, lock>>

\* Mutant of LeavePoll: the critical section ends only for a frame.
LeavePollWithFrame(frame) ==
  /\ p' = frame
  /\ crit' = IF frame # 0 THEN crit - 1 ELSE crit
  /\ pc' = IF frame # 0 THEN "post" ELSE "wait"

\* After low_level_input the critical section ends, and with it the round
\* when there is no pbuf.
LeavePoll(frame) ==
  /\ p' = frame
  /\ crit' = crit - 1
  /\ pc' = IF frame # 0 THEN "post" ELSE "wait"

\* low_level_input: HAL_ETH_GetReceivedFrame finds heth locked, or no frame.
PollNothing ==
  /\ pc = "poll"
  /\ lock \/ ring[cpu] = 0
  /\ LeavePoll(0)
  /\ UNCHANGED <<dmaVars, rflag, isr, sem, cpu, pool, held, mbox, delivered, sending, lock>>

\* Mutant of AdvanceRx: heth.RxDesc stays.
StayRx == UNCHANGED cpu

\* HAL_ETH_GetReceivedFrame moves heth.RxDesc behind the frame.
AdvanceRx == cpu' = Succ(cpu)

\* Mutant of ReleaseDesc: only a copied frame gives its descriptor back.
ReleaseCopied == ring' = IF pool > 0 THEN [ring EXCEPT ![cpu] = 0] ELSE ring

\* The descriptor goes back to the DMA, with or without a pbuf for its frame.
ReleaseDesc == ring' = [ring EXCEPT ![cpu] = 0]

\* Mutant of ResumeDma: the DMA is not resumed.
LeaveDma == UNCHANGED rbus

\* A suspended DMA resumes.
ResumeDma == rbus' = FALSE

\* low_level_input: the head frame goes into a pbuf, if there is one.
PollFrame ==
  /\ pc = "poll" /\ ~lock /\ ring[cpu] # 0
  /\ IF pool > 0 THEN LeavePoll(ring[cpu]) /\ pool' = pool - 1
                 ELSE LeavePoll(0) /\ UNCHANGED pool
  /\ AdvanceRx /\ ReleaseDesc /\ ResumeDma
  /\ UNCHANGED <<dma, arrived, rflag, isr, sem, held, mbox, delivered, sending, lock>>

\* Mutant of PostFrame: ETHIN waits for a signal after every frame.
PostFrameOnce ==
  /\ pc = "post" /\ TasksRun /\ Len(mbox) < MboxSize
  /\ mbox' = Append(mbox, p) /\ pc' = "wait"
  /\ UNCHANGED <<dmaVars, rflag, isr, sem, crit, cpu, p, pool, held, delivered, sending, lock>>

\* netif->input takes the pbuf: one signal is consumed, if there is one, and
\* the next frame is polled, all in the critical section.
PostFrame ==
  /\ pc = "post" /\ TasksRun /\ Len(mbox) < MboxSize
  /\ mbox' = Append(mbox, p)
  /\ sem' = IF sem > 0 THEN sem - 1 ELSE 0
  /\ crit' = crit + 1 /\ pc' = "poll"
  /\ UNCHANGED <<dmaVars, rflag, isr, cpu, p, pool, held, delivered, sending, lock>>

\* Mutant of PostFails: the refused pbuf is not freed.
PostFailsLeaks ==
  /\ pc = "post" /\ TasksRun /\ Len(mbox) = MboxSize
  /\ p' = 0 /\ pc' = "wait"
  /\ UNCHANGED <<dmaVars, rflag, isr, sem, cpu, crit, pool, held, mbox, delivered, sending, lock>>

\* netif->input refuses the pbuf: it is freed and ETHIN waits for a signal.
PostFails ==
  /\ pc = "post" /\ TasksRun /\ Len(mbox) = MboxSize
  /\ p' = 0 /\ pool' = pool + 1 /\ pc' = "wait"
  /\ UNCHANGED <<dmaVars, rflag, isr, sem, cpu, crit, held, mbox, delivered, sending, lock>>

Ethin == WaitSemaphore \/ PollNothing \/ PollFrame \/ PostFrame \/ PostFails

(***************************************************************************)
(* The other threads                                                       *)
(***************************************************************************)

\* tcpip_thread processes a message and frees its pbuf or, when it holds data
\* for a netconn, hands it to the thread that reads from the netconn.
TcpipThread ==
  /\ mbox # << >> /\ TasksRun
  /\ delivered' = Append(delivered, Head(mbox))
  /\ mbox' = Tail(mbox)
  /\ \/ pool' = pool + 1 /\ UNCHANGED held
     \/ held' = held + 1 /\ UNCHANGED pool
  /\ UNCHANGED <<dmaVars, rflag, isr, sem, ethinVars, sending, lock>>

\* The thread that received the data frees it (netbuf_delete of upgrade_task).
ReadData ==
  /\ held > 0 /\ TasksRun
  /\ held' = held - 1 /\ pool' = pool + 1
  /\ UNCHANGED <<dmaVars, rflag, isr, sem, ethinVars, mbox, delivered, sending, lock>>

\* A sender enters HAL_ETH_TransmitFrame: __HAL_LOCK.
TransmitEnter ==
  /\ TxContends /\ TasksRun /\ ~sending /\ ~lock
  /\ sending' = TRUE /\ lock' = TRUE
  /\ UNCHANGED <<dmaVars, rflag, isr, sem, ethinVars, pool, held, mbox, delivered>>

\* The sender leaves it: __HAL_UNLOCK.
TransmitLeave ==
  /\ sending /\ TasksRun
  /\ sending' = FALSE /\ lock' = FALSE
  /\ UNCHANGED <<dmaVars, rflag, isr, sem, ethinVars, pool, held, mbox, delivered>>

Transmit == TransmitEnter \/ TransmitLeave

Interrupt == IrqGive \/ IrqClear

Next == FrameArrives \/ Interrupt \/ Ethin \/ TcpipThread \/ ReadData \/ Transmit

Spec == Init /\ [][Next]_vars

\* Time slicing among threads of one priority: each thread that stays ready
\* runs.  Interrupts are served.  Nothing makes frames arrive.
FairSpec == /\ Spec
            /\ WF_vars(Interrupt) /\ WF_vars(Ethin) /\ WF_vars(TcpipThread)
            /\ WF_vars(TransmitLeave)

-----------------------------------------------------------------------------
\* Every variable has its type; semaphore and mailbox keep to their limits.
TypeOK ==
  /\ ring \in [Desc -> 0 .. MaxFrames] /\ dma \in Desc /\ cpu \in Desc
  /\ arrived \in 0 .. MaxFrames /\ rbus \in BOOLEAN /\ rflag \in BOOLEAN
  /\ isr \in {"idle", "given"} /\ sem \in 0 .. SemMax
  /\ pc \in {"wait", "poll", "post"} /\ crit \in 0 .. 1 /\ p \in 0 .. MaxFrames
  /\ pool \in 0 .. PoolSize /\ held \in 0 .. PoolSize
  /\ mbox \in Seq(1 .. MaxFrames) /\ Len(mbox) <= MboxSize
  /\ delivered \in Seq(1 .. MaxFrames)
  /\ sending \in BOOLEAN /\ lock \in BOOLEAN

\* ETHIN never blocks on the semaphore inside its critical section, and always
\* polls the ring inside it: the goto into the section keeps the nesting even.
CriticalBalanced ==
  /\ pc = "wait" => crit = 0
  /\ pc = "post" => crit = 0 /\ p # 0
  /\ pc = "poll" => crit = 1

\* Every pbuf of the pool is free, in ETHIN's hands, with tcpip_thread or with a
\* reader, on the paths where the mailbox is full or memory runs out too.
InHand == IF pc = "post" THEN 1 ELSE 0

PbufsAccounted == pool + InHand + Len(mbox) + held = PoolSize

InTransit == delivered \o mbox \o (IF pc = "post" THEN <<p>> ELSE << >>)

Filled == {i \in Desc : ring[i] # 0}
Ahead(i) == (i - cpu) % RxBufs

\* Frames reach tcpip_thread in the order of their arrival, none twice, although
\* some may be dropped: delivered, queued, in hand and in the ring they ascend.
InOrder ==
  /\ \A k, l \in 1 .. Len(InTransit) : k < l => InTransit[k] < InTransit[l]
  /\ \A k \in 1 .. Len(InTransit), i \in Filled : InTransit[k] < ring[i]
  /\ \A i, j \in Filled : Ahead(i) < Ahead(j) => ring[i] < ring[j]

\* The frames under way between the DMA and tcpip_thread.
UnderWay ==
  {mbox[k] : k \in 1 .. Len(mbox)} \cup (IF pc = "post" THEN {p} ELSE {})
    \cup {ring[i] : i \in Filled}

\* Ring, ETHIN and mailbox together are a queue that may lose frames: what
\* tcpip_thread processes came in, in this order and once, whatever is dropped
\* for want of a descriptor, a pbuf or a mailbox entry.
Channel == INSTANCE FrameChannel
           WITH entered <- arrived, pending <- UnderWay, out <- delivered
InputIsQueue == Channel!Spec

\* The DMA and the thread agree on the ring: the descriptors that hold frames
\* are those from heth.RxDesc up to the DMA's own, so neither skips one.
RingContiguous ==
  \/ Filled = {} /\ cpu = dma
  \/ Filled = Desc /\ cpu = dma
  \/ /\ cpu # dma
     /\ Filled = {i \in Desc : Ahead(i) < Ahead(dma)}

\* "When Rx Buffer unavailable flag is set: clear it and resume reception":
\* reception cannot stop for good.  When the ring is full, or the DMA suspended,
\* ETHIN is at work or a signal for it is on its way, even after drops.
SignalDue == sem > 0 \/ rflag \/ isr # "idle"

NeverStalls ==
  (Filled = Desc \/ rbus) /\ pc = "wait" => SignalDue

\* The same as long as low_level_input never finds heth locked by a sender.
PollRefused == pc = "poll" /\ lock

StallsOnlyIfRefused == []~PollRefused => []NeverStalls

\* With pbufs and mailbox entries to spare, and no refused poll, tcpip_thread
\* processes every frame that the DMA stored, although interrupts are coalesced.
Short == pool = 0 \/ Len(mbox) = MboxSize

EveryFrameDelivered ==
  [](~Short /\ ~PollRefused) =>
    \A f \in 1 .. MaxFrames :
      (\E i \in Desc : ring[i] = f) ~> (\E k \in 1 .. Len(delivered) : delivered[k] = f)
=============================================================================
