--------------------------- MODULE EthRx_proofs ---------------------------
(***************************************************************************)
(* Theorems about EthRx for every size of the ring, of the mailbox, of the *)
(* pool of pbufs and of the semaphore, and every number of frames, with    *)
(* and without a sender that competes for heth.                            *)
(***************************************************************************)
EXTENDS EthRx, SequenceTheorems, TLAPS

(***************************************************************************)
(* The inductive invariant.  Types and the balance of the critical section *)
(* need each other, and the bound on the free pbufs needs their account.   *)
(* RingContiguous measures distances modulo the size of the ring; Layout   *)
(* says the same of a ring that is cut open at descriptor 0, which is what *)
(* a step of the DMA or of ETHIN changes at one end only.  Frames are      *)
(* numbered as they arrive, so the newest is behind all others (Arrived),  *)
(* and from then on the steps only move them forward: InOrder.             *)
(***************************************************************************)

\* Descriptor i lies from c up to but not at d, over the end if need be.
Window(c, d, i) == IF c < d THEN c <= i /\ i < d ELSE c <= i \/ i < d

Layout ==
  \/ cpu = dma /\ \A i \in Desc : ring[i] = 0
  \/ cpu = dma /\ \A i \in Desc : ring[i] # 0
  \/ cpu # dma /\ \A i \in Desc : ring[i] # 0 <=> Window(cpu, dma, i)

\* No frame is numbered before it arrives.
Arrived ==
  /\ \A i \in Desc : ring[i] <= arrived
  /\ \A k \in 1 .. Len(InTransit) : InTransit[k] <= arrived

IInv == TypeOK /\ CriticalBalanced /\ PbufsAccounted /\ Layout /\ Arrived /\ InOrder

(***************************************************************************)
(* Arithmetic of the ring                                                  *)
(***************************************************************************)

\* A number below the divisor is its own remainder.
LEMMA SmallRemainder ==
  ASSUME NEW n \in Nat \ {0}, NEW x \in 0 .. n - 1
  PROVE  x % n = x
BY SMT

\* A negative number not below minus the divisor leaves the divisor above it.
LEMMA NegativeRemainder ==
  ASSUME NEW n \in Nat \ {0}, NEW x \in Int, 0 < -x, -x < n
  PROVE  x % n = x + n
BY SMT

\* The number of the next descriptor.
LEMMA SuccFacts ==
  ASSUME NEW i \in Desc
  PROVE  Succ(i) \in Desc /\ Succ(i) = IF i = RxBufs - 1 THEN 0 ELSE i + 1
<1>1. CASE i = RxBufs - 1
  BY <1>1, RingAssumption DEF Succ, Desc
<1>2. CASE i # RxBufs - 1
  BY <1>2, RingAssumption, SmallRemainder DEF Succ, Desc
<1>3. QED
  BY <1>1, <1>2

\* The distance from one descriptor to another, along the ring.
LEMMA Distance ==
  ASSUME NEW i \in Desc, NEW c \in Desc
  PROVE  (i - c) % RxBufs = IF c <= i THEN i - c ELSE i - c + RxBufs
<1>1. CASE c <= i
  <2>1. i - c \in 0 .. RxBufs - 1
    BY <1>1, RingAssumption DEF Desc
  <2>2. QED
    BY <1>1, <2>1, RingAssumption, SmallRemainder
<1>2. CASE ~(c <= i)
  <2>1. i - c \in Int /\ 0 < -(i - c) /\ -(i - c) < RxBufs
    BY <1>2, RingAssumption DEF Desc
  <2>2. QED
    BY <1>2, <2>1, RingAssumption, NegativeRemainder
<1>3. QED
  BY <1>1, <1>2

\* The window grows by the descriptor at its end, until it is the whole ring.
LEMMA WindowGrows ==
  ASSUME NEW c \in Desc, NEW d \in Desc, NEW i \in Desc
  PROVE  i = d \/ (c # d /\ Window(c, d, i)) <=> Succ(d) = c \/ Window(c, Succ(d), i)
BY SuccFacts, RingAssumption DEF Window, Desc

\* The window loses the descriptor at its beginning, until it is empty.
LEMMA WindowShrinks ==
  ASSUME NEW c \in Desc, NEW d \in Desc, NEW i \in Desc
  PROVE  i # c /\ (c = d \/ Window(c, d, i)) <=> Succ(c) # d /\ Window(Succ(c), d, i)
BY SuccFacts, RingAssumption DEF Window, Desc

\* A ring laid out between the two descriptors is contiguous.
LEMMA LayoutContiguous ==
  ASSUME TypeOK, Layout
  PROVE  RingContiguous
<1>1. cpu \in Desc /\ dma \in Desc
  BY DEF TypeOK
<1>2. CASE cpu = dma
  BY <1>2 DEF Layout, RingContiguous, Filled, Ahead
<1>3. CASE cpu # dma
  <2>1. ASSUME NEW i \in Desc
        PROVE  ring[i] # 0 <=> (i - cpu) % RxBufs < (dma - cpu) % RxBufs
    <3>1. ring[i] # 0 <=> Window(cpu, dma, i)
      BY <1>3, <2>1 DEF Layout
    <3>2. /\ (i - cpu) % RxBufs = IF cpu <= i THEN i - cpu ELSE i - cpu + RxBufs
          /\ (dma - cpu) % RxBufs = IF cpu <= dma THEN dma - cpu ELSE dma - cpu + RxBufs
      BY <1>1, <2>1, Distance
    <3>3. Window(cpu, dma, i) <=> (IF cpu <= i THEN i - cpu ELSE i - cpu + RxBufs)
                          < (IF cpu <= dma THEN dma - cpu ELSE dma - cpu + RxBufs)
      BY <1>1, <1>3, <2>1, RingAssumption DEF Window, Desc
    <3>4. QED
      BY <3>1, <3>2, <3>3
  <2>2. QED
    BY <1>3, <2>1 DEF RingContiguous, Filled, Ahead
<1>4. QED
  BY <1>2, <1>3

(***************************************************************************)
(* The steps                                                               *)
(***************************************************************************)

\* Power-on satisfies the invariant.
LEMMA InitEstablishes == Init => IInv
<1> SUFFICES ASSUME Init PROVE IInv
  OBVIOUS
<1> USE RingAssumption, MemAssumption, LoadAssumption
<1>1. TypeOK
  <2>1. /\ ring \in [Desc -> 0 .. MaxFrames] /\ dma \in Desc /\ cpu \in Desc
        /\ arrived \in 0 .. MaxFrames
        /\ isr \in {"idle", "given"} /\ sem \in 0 .. SemMax
        /\ pc \in {"wait", "poll", "post"} /\ crit \in 0 .. 1 /\ p \in 0 .. MaxFrames
        /\ pool \in 0 .. PoolSize /\ held \in 0 .. PoolSize
    BY DEF Init, Desc
  <2>2. mbox \in Seq(1 .. MaxFrames) /\ Len(mbox) <= MboxSize
    BY DEF Init
  <2>3. delivered \in Seq(1 .. MaxFrames)
    BY DEF Init
  <2>4. rbus \in BOOLEAN /\ rflag \in BOOLEAN /\ sending \in BOOLEAN /\ lock \in BOOLEAN
    BY Zenon DEF Init
  <2>5. QED
    BY <2>1, <2>2, <2>3, <2>4, Zenon DEF TypeOK
<1>2. CriticalBalanced
  BY DEF Init, CriticalBalanced
<1>3. PbufsAccounted
  BY DEF Init, PbufsAccounted, InHand
<1>4. Layout
  BY DEF Init, Layout
<1>5. Arrived /\ InOrder
  <2>1. Len(InTransit) = 0 /\ Filled = {} /\ \A i \in Desc : ring[i] <= arrived
    BY DEF Init, InTransit, Filled
  <2>2. QED
    BY <2>1 DEF Arrived, InOrder
<1>6. QED
  BY <1>1, <1>2, <1>3, <1>4, <1>5 DEF IInv

\* Every step keeps the critical section balanced: LeavePoll ends it exactly
\* when WaitSemaphore or PostFrame began it.
LEMMA StepBalanced ==
  ASSUME TypeOK, CriticalBalanced, [Next]_vars
  PROVE  CriticalBalanced'
<1> USE DEF CriticalBalanced, TypeOK
<1>1. CASE WaitSemaphore
  BY <1>1 DEF WaitSemaphore
<1>2. CASE PollNothing
  BY <1>2 DEF PollNothing, LeavePoll
<1>3. CASE PollFrame
  BY <1>3 DEF PollFrame, LeavePoll
<1>4. CASE PostFrame \/ PostFails
  BY <1>4 DEF PostFrame, PostFails
<1>5. CASE FrameArrives \/ Interrupt \/ TcpipThread \/ ReadData \/ Transmit \/ UNCHANGED vars
  BY <1>5 DEF FrameArrives, Interrupt, IrqGive, IrqClear, TcpipThread, ReadData, Transmit,
     TransmitEnter, TransmitLeave, ethinVars, vars
<1>6. QED
  BY <1>1, <1>2, <1>3, <1>4, <1>5 DEF Next, Ethin

\* Every step keeps the account of the pbufs.
LEMMA StepAccounted ==
  ASSUME TypeOK, PbufsAccounted, CriticalBalanced, [Next]_vars
  PROVE  PbufsAccounted'
<1> USE DEF PbufsAccounted, InHand
<1>1. /\ Len(mbox) \in Nat /\ pool \in Nat /\ held \in Nat
      /\ mbox \in Seq(1 .. MaxFrames) /\ ring \in [Desc -> 0 .. MaxFrames] /\ cpu \in Desc
  BY MemAssumption DEF TypeOK
<1>2. CASE WaitSemaphore \/ PollNothing
  BY <1>1, <1>2 DEF WaitSemaphore, PollNothing, LeavePoll
<1>3. CASE PollFrame
  BY <1>1, <1>3 DEF PollFrame, LeavePoll
<1>4. CASE PostFrame
  <2>1. Len(mbox') = Len(mbox) + 1
    BY <1>1, <1>4 DEF PostFrame
  <2>2. QED
    BY <1>1, <1>4, <2>1 DEF PostFrame
<1>5. CASE PostFails
  BY <1>1, <1>5 DEF PostFails
<1>6. CASE TcpipThread
  <2>1. Len(mbox') = Len(mbox) - 1
    BY <1>1, <1>6, HeadTailProperties DEF TcpipThread
  <2>2. \/ pool' = pool + 1 /\ held' = held
        \/ held' = held + 1 /\ pool' = pool
    BY <1>6 DEF TcpipThread
  <2>3. pc' = pc
    BY <1>6 DEF TcpipThread, ethinVars
  <2>4. pool + InHand + Len(mbox) + held = PoolSize /\ InHand \in Nat
    OBVIOUS
  <2>5. InHand' = InHand
    BY <2>3
  <2>6. pool' + InHand + Len(mbox') + held' = PoolSize
    <3> HIDE DEF InHand
    <3>1. QED
      BY <1>1, <2>1, <2>2, <2>4
  <2>7. QED
    BY <2>5, <2>6
<1>7. CASE ReadData
  BY <1>1, <1>7 DEF ReadData, ethinVars
<1>8. CASE FrameArrives \/ Interrupt \/ Transmit \/ UNCHANGED vars
  BY <1>8 DEF FrameArrives, Interrupt, IrqGive, IrqClear, Transmit, TransmitEnter,
     TransmitLeave, ethinVars, vars
<1>9. QED
  BY <1>2, <1>3, <1>4, <1>5, <1>6, <1>7, <1>8 DEF Next, Ethin

\* Every step keeps the layout of the ring: the DMA fills the descriptor after
\* the last full one, low_level_input empties the first full one.
LEMMA StepLayout ==
  ASSUME TypeOK, Layout, [Next]_vars
  PROVE  Layout'
<1>1. /\ ring \in [Desc -> 0 .. MaxFrames] /\ dma \in Desc /\ cpu \in Desc
      /\ arrived \in 0 .. MaxFrames /\ MaxFrames \in Nat
  BY LoadAssumption DEF TypeOK
<1>2. CASE FrameArrives
  <2>1. CASE ~rbus /\ ring[dma] = 0
    <3>1. cpu' = cpu /\ dma' = Succ(dma) /\ ring' = [ring EXCEPT ![dma] = arrived + 1]
      BY <1>2, <2>1 DEF FrameArrives, ethinVars
    <3>2. \A i \in Desc : ring'[i] # 0 <=> i = dma \/ ring[i] # 0
      BY <1>1, <3>1
    <3>3. \A i \in Desc : ring[i] # 0 <=> cpu # dma /\ Window(cpu, dma, i)
      BY <1>1, <2>1 DEF Layout
    <3>4. \A i \in Desc : ring'[i] # 0 <=> Succ(dma) = cpu \/ Window(cpu, Succ(dma), i)
      BY <1>1, <3>2, <3>3, WindowGrows
    <3>5. QED
      BY <3>1, <3>4 DEF Layout
  <2>2. CASE ~(~rbus /\ ring[dma] = 0)
    BY <1>2, <2>2 DEF FrameArrives, ethinVars, Layout, Window
  <2>3. QED
    BY <2>1, <2>2
<1>3. CASE PollFrame
  <2>1. dma' = dma /\ cpu' = Succ(cpu) /\ ring' = [ring EXCEPT ![cpu] = 0] /\ ring[cpu] # 0
    BY <1>3 DEF PollFrame, AdvanceRx, ReleaseDesc
  <2>2. \A i \in Desc : ring'[i] # 0 <=> i # cpu /\ ring[i] # 0
    BY <1>1, <2>1
  <2>3. \A i \in Desc : ring[i] # 0 <=> cpu = dma \/ Window(cpu, dma, i)
    BY <1>1, <2>1 DEF Layout
  <2>4. \A i \in Desc : ring'[i] # 0 <=> Succ(cpu) # dma /\ Window(Succ(cpu), dma, i)
    BY <1>1, <2>2, <2>3, WindowShrinks
  <2>5. QED
    BY <2>1, <2>4 DEF Layout
<1>4. CASE UNCHANGED <<ring, cpu, dma>>
  BY <1>4 DEF Layout, Window
<1>5. CASE ~FrameArrives /\ ~PollFrame
  BY <1>4, <1>5 DEF Next, Interrupt, IrqGive, IrqClear, Ethin, WaitSemaphore, PollNothing,
     LeavePoll, PostFrame, PostFails, TcpipThread, ReadData, Transmit, TransmitEnter,
     TransmitLeave, dmaVars, ethinVars, vars
<1>6. QED
  BY <1>2, <1>3, <1>5

Flags == rbus \in BOOLEAN /\ rflag \in BOOLEAN /\ sending \in BOOLEAN /\ lock \in BOOLEAN

\* Every step keeps the types of the flags.
LEMMA StepFlags ==
  ASSUME Flags, [Next]_vars
  PROVE  Flags'
<1>1. rbus' = rbus \/ rbus' = TRUE \/ rbus' = FALSE
  BY Zenon DEF Next, FrameArrives, Interrupt, IrqGive, IrqClear, Ethin, WaitSemaphore,
     PollNothing, PollFrame, ResumeDma, PostFrame, PostFails, TcpipThread, ReadData,
     Transmit, TransmitEnter, TransmitLeave, dmaVars, vars
<1>2. rflag' = rflag \/ rflag' = TRUE \/ rflag' = FALSE
  BY Zenon DEF Next, FrameArrives, Interrupt, IrqGive, IrqClear, Ethin, WaitSemaphore,
     PollNothing, PollFrame, PostFrame, PostFails, TcpipThread, ReadData,
     Transmit, TransmitEnter, TransmitLeave, vars
<1>3. sending' = sending \/ sending' = TRUE \/ sending' = FALSE
  BY Zenon DEF Next, FrameArrives, Interrupt, IrqGive, IrqClear, Ethin, WaitSemaphore,
     PollNothing, PollFrame, PostFrame, PostFails, TcpipThread, ReadData,
     Transmit, TransmitEnter, TransmitLeave, vars
<1>4. lock' = lock \/ lock' = TRUE \/ lock' = FALSE
  BY Zenon DEF Next, FrameArrives, Interrupt, IrqGive, IrqClear, Ethin, WaitSemaphore,
     PollNothing, PollFrame, PostFrame, PostFails, TcpipThread, ReadData,
     Transmit, TransmitEnter, TransmitLeave, vars
<1>5. QED
  BY <1>1, <1>2, <1>3, <1>4, Zenon DEF Flags

Sizes ==
  /\ ring \in [Desc -> 0 .. MaxFrames] /\ dma \in Desc /\ cpu \in Desc
  /\ arrived \in 0 .. MaxFrames
  /\ isr \in {"idle", "given"} /\ sem \in 0 .. SemMax
  /\ pc \in {"wait", "poll", "post"} /\ crit \in 0 .. 1 /\ p \in 0 .. MaxFrames
  /\ pool \in 0 .. PoolSize /\ held \in 0 .. PoolSize
  /\ mbox \in Seq(1 .. MaxFrames) /\ Len(mbox) <= MboxSize
  /\ delivered \in Seq(1 .. MaxFrames)

\* Every step keeps the types of the counters and the queues.
LEMMA StepSizes ==
  ASSUME Sizes, CriticalBalanced, PbufsAccounted, [Next]_vars
  PROVE  Sizes'
<1> USE DEF Sizes
<1>1. /\ RxBufs \in Nat \ {0} /\ SemMax \in Nat \ {0} /\ MboxSize \in Nat \ {0}
      /\ PoolSize \in Nat \ {0} /\ MaxFrames \in Nat
  BY RingAssumption, MemAssumption, LoadAssumption
<1>2. Len(mbox) \in Nat
  OBVIOUS
<1>3. Succ(dma) \in Desc /\ Succ(cpu) \in Desc
  BY SuccFacts
<1>4. CASE FrameArrives
  BY <1>1, <1>3, <1>4 DEF FrameArrives, ethinVars
<1>5. CASE Interrupt
  <2>1. sem' \in 0 .. SemMax /\ isr' \in {"idle", "given"}
    BY <1>1, <1>5 DEF Interrupt, IrqGive, Signalled, IrqClear
  <2>2. UNCHANGED <<ring, dma, cpu, arrived, pc, crit, p, pool, held, mbox, delivered>>
    BY <1>5 DEF Interrupt, IrqGive, IrqClear, dmaVars, ethinVars
  <2>3. QED
    BY <2>1, <2>2
<1>6. CASE WaitSemaphore
  BY <1>1, <1>6 DEF WaitSemaphore, CriticalBalanced, dmaVars
<1>7. CASE PollNothing
  BY <1>1, <1>7 DEF PollNothing, LeavePoll, CriticalBalanced, dmaVars
<1>8. CASE PollFrame
  <2>1. /\ ring' \in [Desc -> 0 .. MaxFrames] /\ cpu' \in Desc
        /\ UNCHANGED <<dma, arrived, isr, sem, held, mbox, delivered>>
    BY <1>1, <1>3, <1>8 DEF PollFrame, AdvanceRx, ReleaseDesc
  <2>2. /\ crit' \in 0 .. 1 /\ p' \in 0 .. MaxFrames /\ pc' \in {"wait", "post"}
        /\ pool' \in 0 .. PoolSize
    BY <1>1, <1>8 DEF PollFrame, LeavePoll, CriticalBalanced
  <2>3. QED
    BY <2>1, <2>2
<1>9. CASE PostFrame
  <2>1. p \in 1 .. MaxFrames
    BY <1>1, <1>9 DEF PostFrame, CriticalBalanced
  <2>2. mbox' \in Seq(1 .. MaxFrames) /\ Len(mbox') <= MboxSize
    BY <1>1, <1>2, <1>9, <2>1, AppendProperties DEF PostFrame
  <2>3. /\ sem' \in 0 .. SemMax /\ crit' \in 0 .. 1 /\ pc' = "poll"
        /\ UNCHANGED <<ring, dma, arrived, isr, cpu, p, pool, held, delivered>>
    BY <1>1, <1>9 DEF PostFrame, CriticalBalanced, dmaVars
  <2>4. QED
    BY <2>2, <2>3
<1>10. CASE PostFails
  BY <1>1, <1>2, <1>10 DEF PostFails, PbufsAccounted, InHand, dmaVars
<1>11. CASE TcpipThread
  <2>1. /\ mbox' \in Seq(1 .. MaxFrames) /\ Len(mbox') = Len(mbox) - 1
        /\ Head(mbox) \in 1 .. MaxFrames
    BY <1>11, HeadTailProperties DEF TcpipThread
  <2>2. delivered' \in Seq(1 .. MaxFrames)
    BY <1>11, <2>1, AppendProperties DEF TcpipThread
  <2>3. Len(mbox) >= 1
    BY <1>2, <1>11 DEF TcpipThread
  <2>4. pool' \in 0 .. PoolSize /\ held' \in 0 .. PoolSize
    <3>1. \/ pool' = pool + 1 /\ held' = held
          \/ held' = held + 1 /\ pool' = pool
      BY <1>11 DEF TcpipThread
    <3>2. pool + held + 1 <= PoolSize
      BY <1>1, <1>2, <2>3 DEF PbufsAccounted, InHand
    <3>3. QED
      BY <1>1, <3>1, <3>2
  <2>5. UNCHANGED <<ring, dma, arrived, isr, sem, cpu, pc, crit, p>>
    BY <1>11 DEF TcpipThread, dmaVars, ethinVars
  <2>6. QED
    BY <1>1, <1>2, <2>1, <2>2, <2>4, <2>5
<1>12. CASE ReadData
  BY <1>1, <1>2, <1>12 DEF ReadData, PbufsAccounted, InHand, dmaVars, ethinVars
<1>13. CASE Transmit
  BY <1>13 DEF Transmit, TransmitEnter, TransmitLeave, dmaVars, ethinVars
<1>14. CASE UNCHANGED vars
  BY <1>14 DEF vars, dmaVars, ethinVars
<1>15. QED
  BY <1>4, <1>5, <1>6, <1>7, <1>8, <1>9, <1>10, <1>11, <1>12, <1>13, <1>14 DEF Next, Ethin

(***************************************************************************)
(* The order of the frames                                                 *)
(***************************************************************************)

\* What is in transit ascends, and may be followed by a later frame.
LEMMA AppendAscends ==
  ASSUME NEW s \in Seq(Int), NEW f \in Int,
         \A k, l \in 1 .. Len(s) : k < l => s[k] < s[l],
         \A k \in 1 .. Len(s) : s[k] < f
  PROVE  LET t == Append(s, f) IN
         /\ Len(t) = Len(s) + 1
         /\ \A k, l \in 1 .. Len(t) : k < l => t[k] < t[l]
         /\ \A k \in 1 .. Len(t) : t[k] = f \/ (k \in 1 .. Len(s) /\ t[k] = s[k])
<1>1. Len(s) \in Nat
  OBVIOUS
<1>2. /\ Len(Append(s, f)) = Len(s) + 1
      /\ \A k \in 1 .. Len(s) : Append(s, f)[k] = s[k]
      /\ Append(s, f)[Len(s) + 1] = f
  OBVIOUS
<1>3. \A k \in 1 .. Len(s) + 1 : k \in 1 .. Len(s) \/ k = Len(s) + 1
  BY <1>1
<1>4. QED
  BY <1>1, <1>2, <1>3

\* How the queues of frames follow each other.
LEMMA QueueFacts ==
  ASSUME NEW d \in Seq(Int), NEW m \in Seq(Int), NEW f \in Int
  PROVE  /\ d \o m \in Seq(Int)
         /\ d \o m \o << >> = d \o m
         /\ d \o m \o <<f>> = Append(d \o m, f)
         /\ d \o Append(m, f) = Append(d \o m, f)
         /\ m # << >> => Append(d, Head(m)) \o Tail(m) = d \o m
<1>1. d \o m \in Seq(Int) /\ <<f>> \in Seq(Int)
  OBVIOUS
<1>2. d \o m \o << >> = d \o m
  BY <1>1, ConcatEmptySeq
<1>3. d \o m \o <<f>> = Append(d \o m, f)
  BY <1>1, AppendIsConcat
<1>4. d \o Append(m, f) = Append(d \o m, f)
  <2>1. Append(m, f) = m \o <<f>>
    BY AppendIsConcat
  <2>2. d \o (m \o <<f>>) = (d \o m) \o <<f>>
    BY <1>1, ConcatAssociative
  <2>3. QED
    BY <1>3, <2>1, <2>2
<1>5. ASSUME m # << >> PROVE Append(d, Head(m)) \o Tail(m) = d \o m
  <2>1. Head(m) \in Int /\ Tail(m) \in Seq(Int) /\ <<Head(m)>> \in Seq(Int)
    BY <1>5
  <2>2. <<Head(m)>> \o Tail(m) = m
    BY <1>5
  <2>3. Append(d, Head(m)) = d \o <<Head(m)>>
    BY <2>1, AppendIsConcat
  <2>4. (d \o <<Head(m)>>) \o Tail(m) = d \o (<<Head(m)>> \o Tail(m))
    BY <2>1, ConcatAssociative
  <2>5. QED
    BY <2>2, <2>3, <2>4
<1>6. QED
  BY <1>1, <1>2, <1>3, <1>4, <1>5

\* The frames in transit are numbers, queued and then in hand.
LEMMA TransitType ==
  ASSUME TypeOK
  PROVE  /\ delivered \in Seq(Int) /\ mbox \in Seq(Int) /\ p \in Int
         /\ delivered \o mbox \in Seq(Int) /\ InTransit \in Seq(Int)
         /\ InTransit = IF pc = "post" THEN Append(delivered \o mbox, p)
                                       ELSE delivered \o mbox
<1>1. delivered \in Seq(Int) /\ mbox \in Seq(Int) /\ p \in Int
  <2>1. 1 .. MaxFrames \subseteq Int
    OBVIOUS
  <2>2. QED
    BY <2>1, SeqMonotonic, LoadAssumption DEF TypeOK
<1>2. InTransit = IF pc = "post" THEN Append(delivered \o mbox, p) ELSE delivered \o mbox
  BY <1>1, QueueFacts DEF InTransit
<1>3. QED
  BY <1>1, <1>2, QueueFacts

\* What a step does to the frames in transit: only low_level_input adds one,
\* the first of the ring, and only a refusal drops one, the last.
LEMMA StepTransit ==
  ASSUME TypeOK, CriticalBalanced, [Next]_vars
  PROVE  \/ InTransit' = InTransit
         \/ PollFrame /\ InTransit' = Append(InTransit, ring[cpu])
         \/ PostFails /\ InTransit' \in Seq(Int) /\ InTransit = Append(InTransit', p)
<1> DEFINE b == delivered \o mbox
<1>1. /\ delivered \in Seq(Int) /\ mbox \in Seq(Int) /\ p \in Int /\ b \in Seq(Int)
      /\ InTransit = IF pc = "post" THEN Append(b, p) ELSE b
  BY TransitType
<1>2. CASE WaitSemaphore \/ PollNothing
  <2>1. pc # "post" /\ pc' # "post" /\ UNCHANGED <<delivered, mbox>>
    BY <1>2 DEF WaitSemaphore, PollNothing, LeavePoll
  <2>2. QED
    BY <2>1 DEF InTransit
<1>3. CASE PollFrame
  <2>1. pc = "poll" /\ ring[cpu] \in Int /\ ring[cpu] # 0 /\ UNCHANGED <<delivered, mbox>>
    BY <1>3, LoadAssumption DEF PollFrame, TypeOK
  <2>2. CASE pool > 0
    <3>1. pc' = "post" /\ p' = ring[cpu]
      BY <1>3, <2>1, <2>2 DEF PollFrame, LeavePoll
    <3>2. InTransit' = b \o <<ring[cpu]>>
      BY <2>1, <3>1 DEF InTransit
    <3>3. QED
      BY <1>1, <1>3, <2>1, <3>2, QueueFacts
  <2>3. CASE ~(pool > 0)
    <3>1. pc' = "wait"
      BY <1>3, <2>3 DEF PollFrame, LeavePoll
    <3>2. QED
      BY <2>1, <3>1 DEF InTransit
  <2>4. QED
    BY <2>2, <2>3
<1>4. CASE PostFrame
  <2>1. pc = "post" /\ pc' = "poll" /\ delivered' = delivered /\ mbox' = Append(mbox, p)
    BY <1>4 DEF PostFrame
  <2>2. InTransit' = delivered \o Append(mbox, p) \o << >>
    BY <2>1 DEF InTransit
  <2>3. Append(mbox, p) \in Seq(Int) /\ InTransit = Append(b, p)
    BY <1>1, <2>1
  <2>4. /\ delivered \o Append(mbox, p) \o << >> = delivered \o Append(mbox, p)
        /\ delivered \o Append(mbox, p) = Append(b, p)
    BY <1>1, <2>3, QueueFacts
  <2>5. QED
    BY <2>2, <2>3, <2>4
<1>5. CASE PostFails
  <2>1. pc = "post" /\ pc' = "wait" /\ UNCHANGED <<delivered, mbox>>
    BY <1>5 DEF PostFails
  <2>2. InTransit' = b
    BY <1>1, <2>1, QueueFacts DEF InTransit
  <2>3. QED
    BY <1>1, <1>5, <2>1, <2>2
<1>6. CASE TcpipThread
  <2>1. /\ mbox # << >> /\ UNCHANGED <<pc, p>>
        /\ delivered' = Append(delivered, Head(mbox)) /\ mbox' = Tail(mbox)
    BY <1>6 DEF TcpipThread, ethinVars
  <2>2. delivered' \o mbox' = b
    BY <1>1, <2>1, QueueFacts
  <2>3. QED
    BY <2>1, <2>2 DEF InTransit
<1>7. CASE FrameArrives \/ Interrupt \/ ReadData \/ Transmit \/ UNCHANGED vars
  <2>1. UNCHANGED <<pc, p, delivered, mbox>>
    BY <1>7 DEF FrameArrives, Interrupt, IrqGive, IrqClear, ReadData, Transmit,
       TransmitEnter, TransmitLeave, ethinVars, vars
  <2>2. QED
    BY <2>1 DEF InTransit
<1>8. QED
  BY <1>2, <1>3, <1>4, <1>5, <1>6, <1>7 DEF Next, Ethin

\* heth.RxDesc moves on: every other descriptor is one step less ahead.
LEMMA AheadMoves ==
  ASSUME NEW c \in Desc, NEW i \in Desc, i # c
  PROVE  (i - Succ(c)) % RxBufs = ((i - c) % RxBufs) - 1
<1>1. Succ(c) \in Desc /\ Succ(c) = IF c = RxBufs - 1 THEN 0 ELSE c + 1
  BY SuccFacts
<1>2. /\ (i - Succ(c)) % RxBufs = IF Succ(c) <= i THEN i - Succ(c) ELSE i - Succ(c) + RxBufs
      /\ (i - c) % RxBufs = IF c <= i THEN i - c ELSE i - c + RxBufs
  BY <1>1, Distance
<1>3. (IF Succ(c) <= i THEN i - Succ(c) ELSE i - Succ(c) + RxBufs)
        = (IF c <= i THEN i - c ELSE i - c + RxBufs) - 1
  BY <1>1, RingAssumption DEF Desc
<1>4. QED
  BY <1>2, <1>3

\* The descriptor at heth.RxDesc is behind every other.
LEMMA AheadFirst ==
  ASSUME NEW c \in Desc, NEW i \in Desc, i # c
  PROVE  (c - c) % RxBufs < (i - c) % RxBufs
<1>1. /\ (c - c) % RxBufs = IF c <= c THEN c - c ELSE c - c + RxBufs
      /\ (i - c) % RxBufs = IF c <= i THEN i - c ELSE i - c + RxBufs
  BY Distance
<1>2. QED
  BY <1>1, RingAssumption DEF Desc

\* What a step does to the ring: the DMA stores the next frame, ETHIN takes one.
LEMMA StepRing ==
  ASSUME TypeOK, [Next]_vars
  PROVE  \/ /\ ~FrameArrives /\ ~PollFrame
            /\ UNCHANGED <<ring, cpu, dma, arrived>>
         \/ /\ FrameArrives /\ arrived' = arrived + 1 /\ cpu' = cpu
            /\ \/ ring' = ring
               \/ ring[dma] = 0 /\ ring' = [ring EXCEPT ![dma] = arrived + 1]
         \/ /\ PollFrame /\ arrived' = arrived /\ cpu' = Succ(cpu) /\ ring[cpu] # 0
            /\ ring' = [ring EXCEPT ![cpu] = 0]
<1>1. CASE FrameArrives
  BY <1>1 DEF FrameArrives, ethinVars
<1>2. CASE PollFrame
  BY <1>2 DEF PollFrame, AdvanceRx, ReleaseDesc
<1>3. CASE ~FrameArrives /\ ~PollFrame
  BY <1>3 DEF Next, Interrupt, IrqGive, IrqClear, Ethin, WaitSemaphore, PollNothing,
     LeavePoll, PostFrame, PostFails, TcpipThread, ReadData, Transmit, TransmitEnter,
     TransmitLeave, dmaVars, ethinVars, vars
<1>4. QED
  BY <1>1, <1>2, <1>3

\* Every step keeps the frames in order, in transit and in the ring.
LEMMA StepInOrder ==
  ASSUME IInv, [Next]_vars
  PROVE  Arrived' /\ InOrder'
<1> USE DEF Arrived, InOrder, Filled, Ahead
<1>1. /\ ring \in [Desc -> 0 .. MaxFrames] /\ cpu \in Desc /\ dma \in Desc
      /\ arrived \in Nat /\ MaxFrames \in Nat /\ p \in Int
      /\ Arrived /\ InOrder /\ TypeOK /\ CriticalBalanced
  BY LoadAssumption DEF IInv, TypeOK
<1>2. InTransit \in Seq(Int) /\ Len(InTransit) \in Nat
      /\ \A k \in 1 .. Len(InTransit) : InTransit[k] \in Int
  BY <1>1, TransitType
<1>3. CASE FrameArrives
  <2>1. InTransit' = InTransit
    BY <1>3 DEF FrameArrives, InTransit, ethinVars
  <2>2. CASE ring' = ring /\ cpu' = cpu /\ arrived' = arrived + 1
    BY <1>1, <1>2, <2>1, <2>2
  <2>3. CASE /\ ring[dma] = 0 /\ ring' = [ring EXCEPT ![dma] = arrived + 1]
             /\ cpu' = cpu /\ arrived' = arrived + 1
    <3>1. \A i \in Desc : ring'[i] = IF i = dma THEN arrived + 1 ELSE ring[i]
      BY <1>1, <2>3
    <3>2. Arrived'
      BY <1>1, <1>2, <2>1, <2>3, <3>1
    <3>3. \A i \in Filled : i # dma /\ (i - cpu) % RxBufs < (dma - cpu) % RxBufs
      BY <1>1, <2>3, LayoutContiguous DEF IInv, RingContiguous
    <3>4. ASSUME NEW i \in Filled', NEW j \in Filled',
                 (i - cpu) % RxBufs < (j - cpu) % RxBufs
          PROVE  ring'[i] < ring'[j]
      <4>1. i \in Desc /\ j \in Desc /\ ring'[i] # 0 /\ ring'[j] # 0
        OBVIOUS
      <4>2. CASE j = dma
        <5>1. i # dma
          BY <1>1, <3>4, <4>2, Distance, RingAssumption DEF Desc
        <5>2. QED
          BY <1>1, <3>1, <4>1, <4>2, <5>1
      <4>3. CASE i = dma /\ j # dma
        <5>1. (j - cpu) % RxBufs < (i - cpu) % RxBufs
          BY <3>1, <3>3, <4>1, <4>3
        <5>2. /\ (j - cpu) % RxBufs \in Int /\ (i - cpu) % RxBufs \in Int
          BY <1>1, <4>1, Distance, RingAssumption DEF Desc
        <5>3. QED
          BY <3>4, <5>1, <5>2
      <4>4. CASE i # dma /\ j # dma
        BY <1>1, <3>1, <3>4, <4>1, <4>4
      <4>5. QED
        BY <4>2, <4>3, <4>4
    <3>5. ASSUME NEW k \in 1 .. Len(InTransit'), NEW i \in Filled'
          PROVE  InTransit'[k] < ring'[i]
      <4>1. /\ i \in Desc /\ ring'[i] # 0 /\ k \in 1 .. Len(InTransit)
            /\ InTransit'[k] = InTransit[k]
        BY <2>1
      <4>2. CASE i = dma
        <5>1. InTransit[k] <= arrived /\ InTransit[k] \in Int /\ ring'[i] = arrived + 1
          BY <1>1, <1>2, <3>1, <4>1, <4>2
        <5>2. InTransit[k] < arrived + 1
          BY <1>1, <5>1
        <5>3. QED
          BY <4>1, <5>1, <5>2
      <4>3. CASE i # dma
        BY <1>1, <3>1, <4>1, <4>3
      <4>4. QED
        BY <4>2, <4>3
    <3>6. QED
      BY <1>1, <2>1, <2>3, <3>2, <3>4, <3>5
  <2>4. /\ cpu' = cpu /\ arrived' = arrived + 1
        /\ \/ ring' = ring
           \/ ring[dma] = 0 /\ ring' = [ring EXCEPT ![dma] = arrived + 1]
    BY <1>3 DEF FrameArrives, ethinVars
  <2>5. QED
    BY <2>2, <2>3, <2>4
<1>4. CASE PollFrame
  <2>1. /\ arrived' = arrived /\ cpu' = Succ(cpu) /\ ring[cpu] # 0
        /\ ring' = [ring EXCEPT ![cpu] = 0]
    BY <1>4 DEF PollFrame, AdvanceRx, ReleaseDesc
  <2>2. \A i \in Desc : ring'[i] = IF i = cpu THEN 0 ELSE ring[i]
    BY <1>1, <2>1
  <2>3. \A i \in Filled' : i \in Filled /\ i # cpu /\ ring'[i] = ring[i]
                         /\ ring[i] \in Int /\ ring[cpu] < ring[i]
    BY <1>1, <2>1, <2>2, AheadFirst
  <2>4. ASSUME NEW i \in Filled', NEW j \in Filled',
               (i - cpu') % RxBufs < (j - cpu') % RxBufs
        PROVE  ring'[i] < ring'[j]
    <3>1. /\ (i - cpu') % RxBufs = ((i - cpu) % RxBufs) - 1
          /\ (j - cpu') % RxBufs = ((j - cpu) % RxBufs) - 1
      BY <1>1, <2>1, <2>3, AheadMoves
    <3>2. (i - cpu) % RxBufs \in Int /\ (j - cpu) % RxBufs \in Int
      BY <1>1, <2>3, Distance, RingAssumption DEF Desc
    <3>3. QED
      BY <1>1, <2>3, <2>4, <3>1, <3>2
  <2>5. /\ \A k, l \in 1 .. Len(InTransit') : k < l => InTransit'[k] < InTransit'[l]
        /\ \A k \in 1 .. Len(InTransit') :
             \/ InTransit'[k] = ring[cpu]
             \/ \E l \in 1 .. Len(InTransit) : InTransit'[k] = InTransit[l]
    <3>1. CASE InTransit' = InTransit
      BY <1>1, <3>1
    <3>2. CASE InTransit' = Append(InTransit, ring[cpu])
      <4>1. ring[cpu] \in Int /\ \A k \in 1 .. Len(InTransit) : InTransit[k] < ring[cpu]
        BY <1>1, <2>1
      <4>2. QED
        BY <1>1, <1>2, <3>2, <4>1, AppendAscends
    <3>3. QED
      BY <1>1, <1>4, <3>1, <3>2, StepTransit DEF PostFails, PollFrame
  <2>6. Arrived'
    BY <1>1, <2>1, <2>2, <2>5
  <2>7. \A k \in 1 .. Len(InTransit'), i \in Filled' : InTransit'[k] < ring'[i]
    BY <1>1, <1>2, <2>3, <2>5
  <2>8. QED
    BY <2>4, <2>5, <2>6, <2>7
<1>5. CASE ~FrameArrives /\ ~PollFrame
  <2>1. UNCHANGED <<ring, cpu, arrived>>
    BY <1>1, <1>5, StepRing
  <2>2. CASE InTransit' = InTransit
    BY <1>1, <2>1, <2>2
  <2>3. CASE InTransit' \in Seq(Int) /\ InTransit = Append(InTransit', p)
    <3>1. \A k \in 1 .. Len(InTransit') :
            k \in 1 .. Len(InTransit) /\ InTransit'[k] = InTransit[k]
      BY <1>1, <2>3, AppendProperties
    <3>2. QED
      BY <1>1, <2>1, <3>1
  <2>4. QED
    BY <1>1, <1>5, <2>2, <2>3, StepTransit
<1>6. QED
  BY <1>3, <1>4, <1>5

(***************************************************************************)
(* The theorems                                                            *)
(***************************************************************************)

\* Every step keeps the inductive invariant.
LEMMA StepKeeps == IInv /\ [Next]_vars => IInv'
<1> SUFFICES ASSUME IInv, [Next]_vars PROVE IInv'
  OBVIOUS
<1> USE DEF IInv
<1>1. CriticalBalanced' /\ PbufsAccounted' /\ Layout'
  BY StepBalanced, StepAccounted, StepLayout
<1>2. Flags /\ Sizes
  BY DEF TypeOK, Flags, Sizes
<1>3. Flags' /\ Sizes'
  BY <1>2, StepFlags, StepSizes
<1>4. TypeOK'
  BY <1>3, Zenon DEF TypeOK, Flags, Sizes
<1>5. Arrived' /\ InOrder'
  BY StepInOrder
<1>6. QED
  BY <1>1, <1>4, <1>5

\* The inductive invariant holds in every reachable state.
LEMMA Invariance == Spec => []IInv
BY InitEstablishes, StepKeeps, PTL DEF Spec

\* Every variable keeps its type: the semaphore and the mailbox their limits,
\* heth.RxDesc and the DMA the ring.
THEOREM TypeCorrect == Spec => []TypeOK
<1>1. IInv => TypeOK
  BY DEF IInv
<1>2. QED
  BY <1>1, Invariance, PTL

\* ETHIN is inside its critical section exactly while it polls the ring.
THEOREM SectionsBalance == Spec => []CriticalBalanced
<1>1. IInv => CriticalBalanced
  BY DEF IInv
<1>2. QED
  BY <1>1, Invariance, PTL

\* No path of reception, delivery or refusal leaks a pbuf or frees one twice.
THEOREM NoPbufLeaks == Spec => []PbufsAccounted
<1>1. IInv => PbufsAccounted
  BY DEF IInv
<1>2. QED
  BY <1>1, Invariance, PTL

\* The DMA and ETHIN never lose their place in the ring relative to each other.
THEOREM RingAgrees == Spec => []RingContiguous
<1>1. IInv => RingContiguous
  BY LayoutContiguous DEF IInv
<1>2. QED
  BY <1>1, Invariance, PTL

\* Frames keep the order of their arrival, whatever is dropped on the way.
THEOREM FramesInOrder == Spec => []InOrder
<1>1. IInv => InOrder
  BY DEF IInv
<1>2. QED
  BY <1>1, Invariance, PTL

-----------------------------------------------------------------------------
(***************************************************************************)
(* Signals.  The semaphore counts interrupts, not frames, and a round of   *)
(* ETHIN takes two of it; nevertheless none is missed as long as every     *)
(* poll looks at the ring, since a ring that fills while ETHIN is away     *)
(* from it was filled by a frame whose signal is still there.              *)
(***************************************************************************)

Full == \A i \in Desc : ring[i] # 0

Signals ==
  /\ rbus => Full
  /\ isr = "given" => sem > 0
  /\ Full /\ pc \in {"wait", "post"} => SignalDue

\* A ring whose next descriptor the DMA does not own is full, ETHIN's included.
LEMMA FullFacts ==
  ASSUME TypeOK, Layout, ring[dma] # 0
  PROVE  Full /\ ring[cpu] # 0
<1>1. cpu \in Desc /\ dma \in Desc /\ (cpu # dma => ~Window(cpu, dma, dma))
  BY DEF TypeOK, Window, Desc
<1>2. QED
  BY <1>1 DEF Layout, Full

\* At the start the ring is empty.
LEMMA SignalsInit == Init => Signals
<1>1. 0 \in Desc
  BY RingAssumption DEF Desc
<1>2. QED
  BY <1>1 DEF Init, Signals, Full

\* Every step that starts without a refused poll keeps a signal for a full ring.
LEMMA StepSignals ==
  ASSUME IInv, Signals, ~PollRefused, [Next]_vars
  PROVE  Signals'
<1> USE DEF Signals
<1>1. /\ TypeOK /\ CriticalBalanced /\ Layout /\ cpu \in Desc /\ dma \in Desc
      /\ ring \in [Desc -> 0 .. MaxFrames] /\ sem \in 0 .. SemMax /\ SemMax \in Nat \ {0}
  BY RingAssumption DEF IInv, TypeOK
<1>2. CASE FrameArrives
  <2>1. CASE ~rbus /\ ring[dma] = 0
    BY <1>2, <2>1 DEF FrameArrives, ethinVars, SignalDue
  <2>2. CASE ~(~rbus /\ ring[dma] = 0)
    <3>1. Full
      BY <1>1, <2>2, FullFacts
    <3>2. UNCHANGED <<ring, rflag, isr, sem, pc>>
      BY <1>2, <2>2 DEF FrameArrives, ethinVars
    <3>3. QED
      BY <3>1, <3>2 DEF Full, SignalDue
  <2>3. QED
    BY <2>1, <2>2
<1>3. CASE IrqGive
  <2>1. sem' > 0
    BY <1>1, <1>3 DEF IrqGive, Signalled
  <2>2. QED
    BY <1>3, <2>1 DEF IrqGive, dmaVars, ethinVars, Full, SignalDue
<1>4. CASE IrqClear
  BY <1>4 DEF IrqClear, dmaVars, ethinVars, Full, SignalDue
<1>5. CASE WaitSemaphore
  BY <1>5 DEF WaitSemaphore, TasksRun, dmaVars, Full
<1>6. CASE PollNothing
  <2>1. ~Full
    BY <1>1, <1>6 DEF PollNothing, PollRefused, Full
  <2>2. QED
    BY <1>6, <2>1 DEF PollNothing, dmaVars, Full
<1>7. CASE PollFrame
  <2>1. ring' = [ring EXCEPT ![cpu] = 0] /\ rbus' = FALSE /\ UNCHANGED <<isr, sem>>
    BY <1>7 DEF PollFrame, ReleaseDesc, ResumeDma
  <2>2. ~Full'
    BY <1>1, <2>1 DEF Full
  <2>3. QED
    BY <2>1, <2>2
<1>8. CASE PostFrame
  BY <1>8 DEF PostFrame, TasksRun, dmaVars, Full
<1>9. CASE PostFails
  BY <1>9 DEF PostFails, dmaVars, Full, SignalDue
<1>10. CASE TcpipThread
  BY <1>10 DEF TcpipThread, dmaVars, ethinVars, Full, SignalDue
<1>11. CASE ReadData \/ Transmit
  BY <1>11 DEF ReadData, Transmit, TransmitEnter, TransmitLeave, dmaVars, ethinVars, Full, SignalDue
<1>12. CASE UNCHANGED vars
  BY <1>12 DEF vars, dmaVars, ethinVars, Full, SignalDue
<1>13. QED
  BY <1>2, <1>3, <1>4, <1>5, <1>6, <1>7, <1>8, <1>9, <1>10, <1>11, <1>12
     DEF Next, Interrupt, Ethin

\* When no poll finds heth locked by a sender, a full ring or a suspended DMA
\* never waits for a signal that has been consumed: reception cannot stop.
THEOREM SignalsSuffice == Spec => StallsOnlyIfRefused
<1>1. Spec => []IInv
  BY Invariance
<1>2. Init => Signals
  BY SignalsInit
<1>3. IInv /\ Signals /\ ~PollRefused /\ [Next]_vars => Signals'
  BY StepSignals
<1>4. Signals => NeverStalls
  <2>1. Filled = Desc <=> Full
    BY DEF Filled, Full
  <2>2. QED
    BY <2>1 DEF Signals, NeverStalls
<1>5. QED
  BY <1>1, <1>2, <1>3, <1>4, PTL DEF Spec, StallsOnlyIfRefused

-----------------------------------------------------------------------------
(***************************************************************************)
(* The refinement: ring, ETHIN and mailbox are a queue that may lose       *)
(* frames.  A frame enters when it arrives, stored or not; it is lost when *)
(* no pbuf or no mailbox entry is left; it comes out when tcpip_thread     *)
(* takes it; the other steps move it along without the queue's notice.     *)
(* Removing one frame removes no other, because they ascend (InOrder).     *)
(***************************************************************************)

Elements(s) == {s[k] : k \in 1 .. Len(s)}
Hand == IF pc = "post" THEN {p} ELSE {}
Ringed == {ring[i] : i \in Filled}

\* What a sequence holds after a frame is put behind it, or its first taken.
LEMMA ElementsFacts ==
  ASSUME NEW s \in Seq(Int), NEW f \in Int
  PROVE  /\ Elements(Append(s, f)) = Elements(s) \cup {f}
         /\ s # << >> => Elements(s) = {Head(s)} \cup Elements(Tail(s))
<1>1. PICK n \in Nat : n = Len(s)
  OBVIOUS
<1>2. Elements(Append(s, f)) = Elements(s) \cup {f}
  <2>1. /\ Len(Append(s, f)) = n + 1 /\ Append(s, f)[n + 1] = f
        /\ \A k \in 1 .. n : Append(s, f)[k] = s[k]
    BY <1>1
  <2>2. 1 .. n + 1 = (1 .. n) \cup {n + 1}
    BY <1>1
  <2>3. QED
    BY <1>1, <2>1, <2>2 DEF Elements
<1>3. ASSUME s # << >> PROVE Elements(s) = {Head(s)} \cup Elements(Tail(s))
  <2>1. /\ n >= 1 /\ Len(Tail(s)) = n - 1 /\ Head(s) = s[1]
        /\ \A k \in 1 .. n - 1 : Tail(s)[k] = s[k + 1]
    BY <1>1, <1>3
  <2>2. /\ \A k \in 1 .. n : k = 1 \/ (k - 1 \in 1 .. n - 1 /\ s[k] = Tail(s)[k - 1])
        /\ \A k \in 1 .. n - 1 : k + 1 \in 1 .. n
        /\ 1 \in 1 .. n
    BY <1>1, <2>1
  <2>3. Elements(s) = {s[k] : k \in 1 .. n}
        /\ Elements(Tail(s)) = {s[k + 1] : k \in 1 .. n - 1}
    <3>1. Elements(Tail(s)) = {Tail(s)[k] : k \in 1 .. n - 1}
      BY <2>1 DEF Elements
    <3>2. QED
      BY <1>1, <2>1, <3>1 DEF Elements
  <2>4. ASSUME NEW x \in Elements(s) PROVE x \in {Head(s)} \cup Elements(Tail(s))
    <3>1. PICK k \in 1 .. n : x = s[k]
      BY <2>3
    <3>2. k = 1 \/ (k - 1 \in 1 .. n - 1 /\ s[(k - 1) + 1] = s[k])
      BY <2>2
    <3>3. QED
      BY <2>1, <2>3, <3>1, <3>2
  <2>5. ASSUME NEW x \in {Head(s)} \cup Elements(Tail(s)) PROVE x \in Elements(s)
    BY <2>1, <2>2, <2>3
  <2>6. QED
    BY <2>4, <2>5
<1>4. QED
  BY <1>2, <1>3

\* The order of the frames in transit, told of mailbox and hand.
LEMMA QueuesAscend ==
  ASSUME TypeOK, InOrder
  PROVE  /\ \A k, l \in 1 .. Len(mbox) : k < l => mbox[k] < mbox[l]
         /\ \A f \in Elements(mbox), i \in Filled : f < ring[i]
         /\ pc = "post" => /\ \A f \in Elements(mbox) : f < p
                           /\ \A i \in Filled : p < ring[i]
<1>1. /\ delivered \in Seq(Int) /\ mbox \in Seq(Int) /\ p \in Int
      /\ delivered \o mbox \in Seq(Int)
      /\ InTransit = IF pc = "post" THEN Append(delivered \o mbox, p) ELSE delivered \o mbox
  BY TransitType
<1>2. PICK d \in Nat, m \in Nat : d = Len(delivered) /\ m = Len(mbox)
  BY <1>1
<1>3. /\ Len(delivered \o mbox) = d + m
      /\ \A k \in 1 .. m : d + k \in 1 .. d + m /\ (delivered \o mbox)[d + k] = mbox[k]
  BY <1>1, <1>2
<1>4. /\ Len(InTransit) = IF pc = "post" THEN d + m + 1 ELSE d + m
      /\ \A k \in 1 .. m : d + k \in 1 .. Len(InTransit) /\ InTransit[d + k] = mbox[k]
      /\ pc = "post" => InTransit[d + m + 1] = p
  <2>1. CASE pc = "post"
    <3>1. InTransit = Append(delivered \o mbox, p)
      BY <1>1, <2>1
    <3>2. /\ Len(InTransit) = d + m + 1 /\ InTransit[d + m + 1] = p
          /\ \A k \in 1 .. d + m : InTransit[k] = (delivered \o mbox)[k]
      BY <1>1, <1>2, <1>3, <3>1
    <3>3. \A k \in 1 .. d + m : k \in 1 .. d + m + 1
      BY <1>2
    <3>4. QED
      BY <1>3, <2>1, <3>2, <3>3
  <2>2. CASE pc # "post"
    BY <1>1, <1>3, <2>2
  <2>3. QED
    BY <2>1, <2>2
<1>5. \A k, l \in 1 .. m : k < l => mbox[k] < mbox[l]
  <2>1. \A k, l \in 1 .. m : k < l => d + k < d + l
    BY <1>2
  <2>2. QED
    BY <1>4, <2>1 DEF InOrder
<1>6. \A k \in 1 .. m, i \in Filled : mbox[k] < ring[i]
  BY <1>4 DEF InOrder
<1>7. ASSUME pc = "post"
      PROVE  (\A k \in 1 .. m : mbox[k] < p) /\ (\A i \in Filled : p < ring[i])
  <2>1. d + m + 1 \in 1 .. Len(InTransit) /\ InTransit[d + m + 1] = p
    BY <1>2, <1>4, <1>7
  <2>2. \A k \in 1 .. m : d + k < d + m + 1
    BY <1>2
  <2>3. QED
    BY <1>4, <2>1, <2>2 DEF InOrder
<1>8. QED
  BY <1>2, <1>5, <1>6, <1>7 DEF Elements

\* The frame at heth.RxDesc is the oldest of the ring, and no other's number.
LEMMA RingAscends ==
  ASSUME TypeOK, InOrder, ring[cpu] # 0
  PROVE  \A i \in Filled : i = cpu \/ ring[cpu] < ring[i]
<1>1. cpu \in Filled /\ \A i \in Filled : i \in Desc
  BY DEF TypeOK, Filled
<1>2. \A i \in Filled : i = cpu \/ Ahead(cpu) < Ahead(i)
  BY <1>1, AheadFirst DEF Ahead, TypeOK
<1>3. QED
  BY <1>1, <1>2 DEF InOrder

\* The frames under way, by place.
LEMMA UnderWayParts ==
  /\ UnderWay = Elements(mbox) \cup Hand \cup Ringed
  /\ UnderWay' = (Elements(mbox) \cup Hand \cup Ringed)'
BY DEF UnderWay, Elements, Hand, Ringed

\* Nothing is under way at the start.
LEMMA InputInit == Init => Channel!Init
<1> SUFFICES ASSUME Init PROVE Channel!Init
  OBVIOUS
<1>1. Elements(mbox) = {} /\ Hand = {} /\ Ringed = {}
  BY DEF Init, Elements, Hand, Ringed, Filled
<1>2. QED
  BY <1>1, UnderWayParts DEF Init, Channel!Init

\* Every step of the reception is one of the queue or none.
LEMMA InputSteps ==
  ASSUME IInv, [Next]_vars
  PROVE  [Channel!Next]_(Channel!vars)
<1> USE DEF Channel!Next, Channel!vars
<1>1. /\ TypeOK /\ CriticalBalanced /\ InOrder
      /\ ring \in [Desc -> 0 .. MaxFrames] /\ cpu \in Desc /\ dma \in Desc
      /\ arrived \in Nat /\ MaxFrames \in Nat /\ mbox \in Seq(Int) /\ p \in Int
  <2>1. TypeOK /\ CriticalBalanced /\ InOrder
    BY DEF IInv
  <2>2. mbox \in Seq(Int) /\ p \in Int
    BY <2>1, TransitType
  <2>3. /\ ring \in [Desc -> 0 .. MaxFrames] /\ cpu \in Desc /\ dma \in Desc
        /\ arrived \in Nat /\ MaxFrames \in Nat
    BY <2>1, LoadAssumption DEF TypeOK
  <2>4. QED
    BY <2>1, <2>2, <2>3
<1>2. CASE FrameArrives
  <2>1. /\ arrived < MaxFrames /\ arrived' = arrived + 1
        /\ UNCHANGED <<pc, p, mbox, delivered>>
    BY <1>2 DEF FrameArrives, ethinVars
  <2>2. UnderWay' \in {UnderWay, UnderWay \cup {arrived'}}
    <3>1. UNCHANGED <<Elements(mbox), Hand>>
      BY <2>1 DEF Elements, Hand
    <3>2. CASE ring' = ring
      BY <3>1, <3>2, UnderWayParts DEF Ringed, Filled
    <3>3. CASE ring[dma] = 0 /\ ring' = [ring EXCEPT ![dma] = arrived + 1]
      <4>1. \A i \in Desc : ring'[i] = IF i = dma THEN arrived + 1 ELSE ring[i]
        BY <1>1, <3>3
      <4>2. Filled' = Filled \cup {dma} /\ dma \notin Filled
        BY <1>1, <3>3, <4>1 DEF Filled
      <4>3. Ringed' = Ringed \cup {arrived + 1}
        BY <1>1, <4>1, <4>2 DEF Ringed, Filled
      <4>4. QED
        BY <2>1, <3>1, <4>3, UnderWayParts
    <3>4. QED
      BY <1>2, <3>2, <3>3 DEF FrameArrives
  <2>3. QED
    BY <2>1, <2>2 DEF Channel!Accept
<1>3. CASE PollFrame
  <2>1. /\ arrived' = arrived /\ ring[cpu] # 0 /\ ring' = [ring EXCEPT ![cpu] = 0]
        /\ pc = "poll" /\ UNCHANGED <<mbox, delivered>>
    BY <1>3 DEF PollFrame, ReleaseDesc
  <2>2. \A i \in Desc : ring'[i] = IF i = cpu THEN 0 ELSE ring[i]
    BY <1>1, <2>1
  <2>3. cpu \in Filled /\ Filled' = Filled \ {cpu}
    BY <1>1, <2>1, <2>2 DEF Filled
  <2>4. \A i \in Filled : i = cpu \/ ring[i] # ring[cpu]
    <3>1. \A i \in Filled : ring[i] \in Int /\ ring[cpu] \in Int
      BY <1>1 DEF Filled
    <3>2. QED
      BY <1>1, <2>1, <3>1, RingAscends
  <2>5. ring[cpu] \in Ringed /\ Ringed' = Ringed \ {ring[cpu]}
    BY <1>1, <2>2, <2>3, <2>4 DEF Ringed, Filled
  <2>6. Hand = {} /\ Elements(mbox)' = Elements(mbox) /\ ring[cpu] \notin Elements(mbox)
    <3>1. \A f \in Elements(mbox) : f < ring[cpu] /\ f \in Int /\ ring[cpu] \in Int
      BY <1>1, <2>3, QueuesAscend DEF Elements
    <3>2. QED
      BY <2>1, <3>1 DEF Hand, Elements
  <2>7. CASE pool > 0
    <3>1. Hand' = {ring[cpu]}
      BY <1>3, <2>1, <2>7 DEF PollFrame, LeavePoll, Hand
    <3>2. UnderWay' = UnderWay
      BY <2>5, <2>6, <3>1, UnderWayParts
    <3>3. QED
      BY <2>1, <3>2
  <2>8. CASE ~(pool > 0)
    <3>1. Hand' = {}
      BY <1>3, <2>8 DEF PollFrame, LeavePoll, Hand
    <3>2. UnderWay' = UnderWay \ {ring[cpu]} /\ ring[cpu] \in UnderWay
      BY <2>5, <2>6, <3>1, UnderWayParts
    <3>3. QED
      BY <2>1, <3>2 DEF Channel!Lose
  <2>9. QED
    BY <2>7, <2>8
<1>4. CASE PostFrame
  <2>1. /\ pc = "post" /\ pc' = "poll" /\ mbox' = Append(mbox, p)
        /\ UNCHANGED <<ring, arrived, delivered>>
    BY <1>4 DEF PostFrame, dmaVars
  <2>2. Hand = {p} /\ Hand' = {} /\ Ringed' = Ringed
    BY <2>1 DEF Hand, Ringed, Filled
  <2>3. Elements(mbox)' = Elements(mbox) \cup {p}
    <3>1. Elements(mbox)' = Elements(Append(mbox, p))
      BY <2>1 DEF Elements
    <3>2. QED
      BY <1>1, <3>1, ElementsFacts
  <2>4. UnderWay' = UnderWay
    BY <2>2, <2>3, UnderWayParts
  <2>5. QED
    BY <2>1, <2>4
<1>5. CASE PostFails
  <2>1. pc = "post" /\ pc' = "wait" /\ UNCHANGED <<ring, arrived, mbox, delivered>>
    BY <1>5 DEF PostFails, dmaVars
  <2>2. Hand = {p} /\ Hand' = {} /\ Ringed' = Ringed /\ Elements(mbox)' = Elements(mbox)
    BY <2>1 DEF Hand, Ringed, Filled, Elements
  <2>3. p \notin Elements(mbox) /\ p \notin Ringed
    <3>1. \A f \in Elements(mbox) : f < p /\ f \in Int
      BY <1>1, <2>1, QueuesAscend DEF Elements
    <3>2. \A i \in Filled : p < ring[i] /\ ring[i] \in Int
      BY <1>1, <2>1, QueuesAscend DEF Filled
    <3>3. QED
      BY <1>1, <3>1, <3>2 DEF Ringed
  <2>4. UnderWay' = UnderWay \ {p} /\ p \in UnderWay
    BY <2>2, <2>3, UnderWayParts
  <2>5. QED
    BY <2>1, <2>4 DEF Channel!Lose
<1>6. CASE TcpipThread
  <2>1. /\ mbox # << >> /\ mbox' = Tail(mbox) /\ delivered' = Append(delivered, Head(mbox))
        /\ UNCHANGED <<ring, arrived, pc, p>>
    BY <1>6 DEF TcpipThread, dmaVars, ethinVars
  <2>2. Hand' = Hand /\ Ringed' = Ringed /\ Elements(mbox)' = Elements(Tail(mbox))
    BY <2>1 DEF Hand, Ringed, Filled, Elements
  <2> DEFINE h == Head(mbox)
  <2>3. h \in Int /\ h \in Elements(mbox) /\ Elements(mbox) = {h} \cup Elements(Tail(mbox))
    BY <1>1, <2>1, ElementsFacts
  <2>4. \A f \in Elements(Tail(mbox)) : f \in Int /\ h < f
    <3>1. PICK n \in Nat : n = Len(mbox)
      BY <1>1
    <3>2. /\ n >= 1 /\ Len(Tail(mbox)) = n - 1 /\ h = mbox[1]
          /\ \A k \in 1 .. n - 1 : Tail(mbox)[k] = mbox[k + 1]
      BY <1>1, <2>1, <3>1
    <3>3. \A k \in 1 .. n - 1 : k + 1 \in 1 .. n /\ 1 \in 1 .. n /\ 1 < k + 1
      BY <3>1, <3>2
    <3>4. \A k \in 1 .. n - 1 : mbox[k + 1] \in Int /\ h < mbox[k + 1]
      BY <1>1, <3>1, <3>2, <3>3, QueuesAscend
    <3>5. ASSUME NEW f \in Elements(Tail(mbox)) PROVE f \in Int /\ h < f
      <4>1. PICK k \in 1 .. Len(Tail(mbox)) : f = Tail(mbox)[k]
        BY DEF Elements
      <4>2. k \in 1 .. n - 1 /\ f = mbox[k + 1]
        BY <3>2, <4>1
      <4>3. QED
        BY <3>4, <4>2
    <3>6. QED
      BY <3>5
  <2>5. \A f \in Hand \cup Ringed : f \in Int /\ h < f
    <3>1. pc = "post" => h < p
      BY <1>1, <2>3, QueuesAscend
    <3>2. \A i \in Filled : h < ring[i]
      BY <1>1, <2>3, QueuesAscend
    <3>3. \A i \in Filled : ring[i] \in Int
      BY <1>1 DEF Filled
    <3>4. QED
      BY <1>1, <3>1, <3>2, <3>3 DEF Hand, Ringed
  <2>6. h \notin Elements(Tail(mbox)) \cup Hand \cup Ringed
    BY <2>3, <2>4, <2>5
  <2>7. h \in UnderWay /\ UnderWay' = UnderWay \ {h}
    BY <2>2, <2>3, <2>6, UnderWayParts
  <2>8. \A g \in UnderWay : h <= g
    BY <2>3, <2>4, <2>5, UnderWayParts
  <2>9. QED
    BY <2>1, <2>7, <2>8 DEF Channel!Deliver
<1>7. CASE WaitSemaphore \/ PollNothing
  <2>1. pc # "post" /\ pc' # "post" /\ UNCHANGED <<ring, arrived, mbox, delivered>>
    BY <1>7 DEF WaitSemaphore, PollNothing, LeavePoll, dmaVars
  <2>2. UnderWay' = UnderWay
    BY <2>1 DEF UnderWay, Filled
  <2>3. QED
    BY <2>1, <2>2
<1>8. CASE Interrupt \/ ReadData \/ Transmit \/ UNCHANGED vars
  <2>1. UNCHANGED <<ring, arrived, pc, p, mbox, delivered>>
    BY <1>8 DEF Interrupt, IrqGive, IrqClear, ReadData, Transmit, TransmitEnter,
       TransmitLeave, dmaVars, ethinVars, vars
  <2>2. UnderWay' = UnderWay
    BY <2>1 DEF UnderWay, Filled
  <2>3. QED
    BY <2>1, <2>2
<1>9. QED
  BY <1>2, <1>3, <1>4, <1>5, <1>6, <1>7, <1>8 DEF Next, Ethin

\* The reception implements a queue that may lose frames but neither reorders
\* nor repeats them, for every ring, pool and mailbox.
THEOREM ReceptionIsQueue == Spec => InputIsQueue
<1>1. IInv /\ [Next]_vars => [Channel!Next]_(Channel!vars)
  BY InputSteps
<1>2. QED
  BY <1>1, Invariance, InputInit, PTL DEF Spec, InputIsQueue, Channel!Spec
=============================================================================
