--------------------------- MODULE EthTx_proofs ---------------------------
(***************************************************************************)
(* Theorems about EthTx for every number of threads, descriptors and       *)
(* frames, for the case in which every sender holds the lwIP core lock.    *)
(* Without that case CopyToFreeBuffer fails: a thread outside the lock may *)
(* give a descriptor to the DMA between another's check and its copy.      *)
(***************************************************************************)
EXTENDS EthTx, FiniteSetTheorems, TLAPS

(***************************************************************************)
(* The inductive invariant.  The lock makes low_level_output's callers     *)
(* exclude each other, so the two reads of heth.TxDesc before the          *)
(* semaphore is taken return one descriptor, which is still heth.TxDesc    *)
(* when the frame is given away, and only the DMA, which frees             *)
(* descriptors, acts on the ring meanwhile.                                *)
(***************************************************************************)

\* A thread inside low_level_output holds the core lock, so it is alone there.
Alone == \A s \in Senders : pc[s] # "idle" => core = s

\* What a thread inside knows of its descriptor.
Loaded == {"check", "wait", "copy", "transmit", "give"}
Free   == {"wait", "copy", "transmit", "give"}
Copied == {"transmit", "give"}

OwnDescriptor ==
  \A s \in Senders :
    /\ pc[s] \in Loaded \cup {"load"} => into[s] = txdesc
    /\ pc[s] \in Loaded => desc[s] = txdesc
    /\ pc[s] \in Free   => ~own[desc[s]]
    /\ pc[s] \in Copied => buf[desc[s]] = frame[s]

IInv == TypeOK /\ Alone /\ OwnDescriptor /\ FramesIntact

\* The successor of a descriptor is a descriptor.
LEMMA SuccType == \A i \in Desc : Succ(i) \in Desc
BY RingAssumption DEF Desc, Succ

\* The number of senders is a natural number.
LEMMA HandlesType == Cardinality(Senders) \in Nat
BY SenderAssumption, FS_CardinalityType

\* Power-on satisfies the invariant.
LEMMA InitEstablishes == Init => IInv
<1> SUFFICES ASSUME Init PROVE IInv
  OBVIOUS
<1>1. 0 \in Desc /\ 0 \in 0 .. MaxFrames
  BY RingAssumption DEF Desc
<1>2. TypeOK
  <2>1. /\ pc \in [Senders -> Labels] /\ frame \in [Senders -> 0 .. MaxFrames]
        /\ into \in [Senders -> Desc] /\ desc \in [Senders -> Desc]
        /\ mine \in [Senders -> {0} \cup Handles]
        /\ result \in [Senders -> {"ERR_OK", "ERR_USE"}]
    BY <1>1 DEF Init, Labels
  <2>2. /\ frames \in 0 .. MaxFrames /\ core \in {"nobody"} \cup CoreLocked
        /\ ousem \in {0} \cup Handles
        /\ txdesc \in Desc /\ dma \in Desc
        /\ buf \in [Desc -> 0 .. MaxFrames] /\ given \in [Desc -> 0 .. MaxFrames]
    BY <1>1 DEF Init
  <2>3. count \in [Handles -> BOOLEAN] /\ own \in [Desc -> BOOLEAN] /\ hal \in BOOLEAN
    BY Zenon DEF Init
  <2>4. wire \in Seq(0 .. MaxFrames)
    BY DEF Init
  <2>5. QED
    BY <2>1, <2>2, <2>3, <2>4, Zenon DEF TypeOK
<1>3. Alone /\ OwnDescriptor /\ FramesIntact
  BY DEF Init, Alone, OwnDescriptor, Loaded, Free, Copied, FramesIntact
<1>4. QED
  BY <1>2, <1>3 DEF IInv

Base ==
  /\ pc \in [Senders -> Labels] /\ frame \in [Senders -> 0 .. MaxFrames]
  /\ into \in [Senders -> Desc] /\ desc \in [Senders -> Desc]
  /\ mine \in [Senders -> {0} \cup Handles]
  /\ result \in [Senders -> {"ERR_OK", "ERR_USE"}]
  /\ frames \in 0 .. MaxFrames /\ core \in {"nobody"} \cup CoreLocked
  /\ ousem \in {0} \cup Handles /\ count \in [Handles -> BOOLEAN]
  /\ txdesc \in Desc /\ own \in [Desc -> BOOLEAN] /\ dma \in Desc
  /\ buf \in [Desc -> 0 .. MaxFrames] /\ given \in [Desc -> 0 .. MaxFrames]
  /\ hal \in BOOLEAN

\* Only the DMA puts a frame on the wire.
LEMMA StepWire ==
  ASSUME TypeOK, [Next]_vars
  PROVE  wire' \in Seq(0 .. MaxFrames)
<1>1. CASE DmaSend
  <2>1. buf[dma] \in 0 .. MaxFrames /\ wire \in Seq(0 .. MaxFrames)
    BY DEF TypeOK
  <2>2. wire' = Append(wire, buf[dma])
    BY <1>1 DEF DmaSend
  <2>3. QED
    BY <2>1, <2>2
<1>2. CASE ~DmaSend
  <2>1. wire' = wire
    BY <1>2 DEF Next, Enter, Output, CreateSem, SignalSem, LoadBuffer, LoadDesc,
       CheckOwn, WaitSem,
       CopyFrame, HalLock, HalGive, Leave, IrqUnlock, ringVars, vars
  <2>2. QED
    BY <2>1 DEF TypeOK
<1>3. QED
  BY <1>1, <1>2

\* Every step keeps the types.
LEMMA StepTyped ==
  ASSUME TypeOK, [Next]_vars
  PROVE  TypeOK'
<1> USE HandlesType, SuccType DEF Base, Labels, Goto
<1>0. Base
  BY DEF TypeOK
<1>1. ASSUME NEW s \in Senders, Enter(s) PROVE Base'
  BY <1>0, <1>1, RingAssumption DEF Enter, semVars, ringVars
<1>2. ASSUME NEW s \in Senders, CreateSem(s) PROVE Base'
  BY <1>0, <1>2 DEF CreateSem, ringVars, Handles
<1>3. ASSUME NEW s \in Senders, SignalSem(s) PROVE Base'
  BY <1>0, <1>3 DEF SignalSem, ringVars
<1>4. ASSUME NEW s \in Senders, LoadBuffer(s) \/ LoadDesc(s) PROVE Base'
  BY <1>0, <1>4 DEF LoadBuffer, LoadDesc, semVars, ringVars
<1>5. ASSUME NEW s \in Senders, CheckOwn(s) PROVE Base'
  BY <1>0, <1>5 DEF CheckOwn, semVars, ringVars
<1>6. ASSUME NEW s \in Senders, WaitSem(s) PROVE Base'
  BY <1>0, <1>6 DEF WaitSem, ringVars
<1>7. ASSUME NEW s \in Senders, CopyFrame(s) PROVE Base'
  BY <1>0, <1>7 DEF CopyFrame, semVars
<1>8. ASSUME NEW s \in Senders, HalLock(s) PROVE Base'
  BY <1>0, <1>8 DEF HalLock, semVars, ringVars
<1>9. ASSUME NEW s \in Senders, HalGive(s) PROVE Base'
  BY <1>0, <1>9 DEF HalGive, semVars
<1>10. ASSUME NEW s \in Senders, Leave(s) PROVE Base'
  BY <1>0, <1>10 DEF Leave, ringVars
<1>11. ASSUME DmaSend PROVE Base'
  BY <1>0, <1>11 DEF DmaSend, threadVars, semVars
<1>12. ASSUME IrqUnlock PROVE Base'
  BY <1>0, <1>12 DEF IrqUnlock, threadVars, semVars, ringVars
<1>13. ASSUME UNCHANGED vars PROVE Base'
  BY <1>0, <1>13 DEF vars, threadVars, semVars, ringVars
<1>14. Base'
  BY <1>1, <1>2, <1>3, <1>4, <1>5, <1>6, <1>7, <1>8, <1>9, <1>10, <1>11, <1>12, <1>13
     DEF Next, Output
<1>15. wire' \in Seq(0 .. MaxFrames)
  BY StepWire
<1>16. QED
  BY <1>14, <1>15 DEF TypeOK

\* When every sender takes the lock, every step keeps them apart.
LEMMA StepAlone ==
  ASSUME CoreLocked = Senders, TypeOK, Alone, [Next]_vars
  PROVE  Alone'
<1> USE NoneAssumption DEF Alone, Goto
<1>0. pc \in [Senders -> Labels]
  BY DEF TypeOK
<1>1. ASSUME NEW s \in Senders, Enter(s) PROVE Alone'
  BY <1>0, <1>1 DEF Enter
<1>2. ASSUME NEW s \in Senders,
             CreateSem(s) \/ SignalSem(s) \/ LoadBuffer(s) \/ LoadDesc(s) \/ CheckOwn(s)
      PROVE  Alone'
  BY <1>0, <1>2 DEF CreateSem, SignalSem, LoadBuffer, LoadDesc, CheckOwn
<1>3. ASSUME NEW s \in Senders, WaitSem(s) \/ CopyFrame(s) \/ HalLock(s) \/ HalGive(s)
      PROVE  Alone'
  BY <1>0, <1>3 DEF WaitSem, CopyFrame, HalLock, HalGive
<1>4. ASSUME NEW s \in Senders, Leave(s) PROVE Alone'
  BY <1>0, <1>4 DEF Leave
<1>5. CASE DmaSend \/ IrqUnlock \/ UNCHANGED vars
  BY <1>0, <1>5 DEF DmaSend, IrqUnlock, vars, threadVars
<1>6. QED
  BY <1>0, <1>1, <1>2, <1>3, <1>4, <1>5 DEF Next, Output

\* When every sender takes the lock, every step keeps a thread's descriptor its
\* own, and intact the frames the DMA has.
LEMMA StepOwnDescriptor ==
  ASSUME TypeOK, Alone, OwnDescriptor, FramesIntact, [Next]_vars
  PROVE  OwnDescriptor' /\ FramesIntact'
<1> USE SuccType DEF OwnDescriptor, FramesIntact, Loaded, Free, Copied, Goto
<1>0. /\ pc \in [Senders -> Labels] /\ frame \in [Senders -> 0 .. MaxFrames]
      /\ into \in [Senders -> Desc] /\ desc \in [Senders -> Desc]
      /\ txdesc \in Desc /\ dma \in Desc
      /\ own \in [Desc -> BOOLEAN]
      /\ buf \in [Desc -> 0 .. MaxFrames] /\ given \in [Desc -> 0 .. MaxFrames]
  BY DEF TypeOK
<1>1. ASSUME NEW s \in Senders, Enter(s) PROVE OwnDescriptor' /\ FramesIntact'
  BY <1>0, <1>1 DEF Enter, ringVars
<1>2. ASSUME NEW s \in Senders, CreateSem(s) \/ SignalSem(s)
      PROVE  OwnDescriptor' /\ FramesIntact'
  BY <1>0, <1>2 DEF CreateSem, SignalSem, ringVars
<1>3. ASSUME NEW s \in Senders, LoadBuffer(s) \/ LoadDesc(s)
      PROVE  OwnDescriptor' /\ FramesIntact'
  BY <1>0, <1>3 DEF LoadBuffer, LoadDesc, ringVars
<1>4. ASSUME NEW s \in Senders, CheckOwn(s) PROVE OwnDescriptor' /\ FramesIntact'
  BY <1>0, <1>4 DEF CheckOwn, ringVars
<1>5. ASSUME NEW s \in Senders, WaitSem(s) \/ HalLock(s) \/ Leave(s)
      PROVE  OwnDescriptor' /\ FramesIntact'
  BY <1>0, <1>5 DEF WaitSem, HalLock, Leave, ringVars
<1>6. ASSUME NEW s \in Senders, CopyFrame(s) PROVE OwnDescriptor' /\ FramesIntact'
  <2>1. \A r \in Senders \ {s} : pc[r] = "idle"
    BY <1>0, <1>6 DEF CopyFrame, Alone
  <2>2. QED
    BY <1>0, <1>6, <2>1 DEF CopyFrame
<1>7. ASSUME NEW s \in Senders, HalGive(s) PROVE OwnDescriptor' /\ FramesIntact'
  <2>1. \A r \in Senders \ {s} : pc[r] = "idle"
    BY <1>0, <1>7 DEF HalGive, Alone
  <2>2. /\ pc[s] = "give" /\ pc' = [pc EXCEPT ![s] = "error"]
        /\ UNCHANGED <<into, desc, frame, buf>>
        /\ \/ UNCHANGED <<txdesc, own, given>>
           \/ /\ own' = [own EXCEPT ![txdesc] = TRUE]
              /\ given' = [given EXCEPT ![txdesc] = frame[s]]
              /\ txdesc' = Succ(txdesc)
    BY <1>0, <1>7 DEF HalGive
  <2>3. \A r \in Senders : pc'[r] \notin Loaded \cup {"load"}
    BY <1>0, <2>1, <2>2
  <2>4. FramesIntact'
    BY <1>0, <2>2
  <2>5. QED
    BY <2>3, <2>4
<1>8. CASE DmaSend
  <2>1. /\ \A i \in Desc : own'[i] => own[i]
        /\ UNCHANGED <<pc, into, desc, frame, txdesc, buf, given>>
    BY <1>0, <1>8 DEF DmaSend, threadVars
  <2>2. \A s \in Senders : desc[s] \in Desc
    BY <1>0
  <2>3. QED
    BY <1>0, <2>1, <2>2
<1>9. CASE IrqUnlock \/ UNCHANGED vars
  BY <1>0, <1>9 DEF IrqUnlock, vars, threadVars, ringVars
<1>10. QED
  BY <1>0, <1>1, <1>2, <1>3, <1>4, <1>5, <1>6, <1>7, <1>8, <1>9 DEF Next, Output

(***************************************************************************)
(* The theorems                                                            *)
(***************************************************************************)

\* Every variable keeps its type, whoever holds the lock: heth.TxDesc never
\* leaves the ring.
THEOREM TypeCorrect == Spec => []TypeOK
<1>1. Init => TypeOK
  BY InitEstablishes DEF IInv
<1>2. QED
  BY <1>1, StepTyped, PTL DEF Spec

\* The inductive invariant holds when every sender takes the core lock.
LEMMA Invariance ==
  ASSUME CoreLocked = Senders PROVE Spec => []IInv
<1>1. IInv /\ [Next]_vars => IInv'
  BY StepTyped, StepAlone, StepOwnDescriptor DEF IInv
<1>2. QED
  BY <1>1, InitEstablishes, PTL DEF Spec

\* Under the core lock no frame is copied into a buffer the DMA is sending:
\* the check of the descriptor is still true at the copy.
THEOREM CopiesToFreeBuffers ==
  ASSUME CoreLocked = Senders PROVE Spec => []CopyToFreeBuffer
<1>1. IInv => CopyToFreeBuffer
  BY DEF IInv, OwnDescriptor, Loaded, Free, CopyToFreeBuffer
<1>2. QED
  BY <1>1, Invariance, PTL

\* Under the core lock the DMA sends every frame as it was given.
THEOREM FramesStayIntact ==
  ASSUME CoreLocked = Senders PROVE Spec => []FramesIntact
<1>1. IInv => FramesIntact
  BY DEF IInv
<1>2. QED
  BY <1>1, Invariance, PTL

-----------------------------------------------------------------------------
(***************************************************************************)
(* The semaphore.  Only the thread that holds the core lock touches it, so *)
(* it is created once, before its first use, and given whenever a thread   *)
(* is about to take it: at the end of a call it is given back, whether the *)
(* call took it or not.                                                    *)
(***************************************************************************)

Taking == {"buffer", "load", "check", "wait"}

Semaphore ==
  /\ (\A s \in Senders : pc[s] = "idle") => ousem = 0 \/ count[ousem]
  /\ \A s \in Senders :
       /\ pc[s] \notin {"idle", "create"} => ousem # 0
       /\ pc[s] = "create" => ousem = 0
       /\ pc[s] \in Taking => count[ousem]
       /\ pc[s] = "wait" => mine[s] = ousem

\* When every sender takes the lock, every step keeps the semaphore as it is
\* expected.
LEMMA StepSemaphore ==
  ASSUME CoreLocked = Senders, IInv, Semaphore, [Next]_vars
  PROVE  Semaphore'
<1> USE HandlesType, NoneAssumption DEF Semaphore, Taking, Goto
<1>1. /\ pc \in [Senders -> Labels] /\ mine \in [Senders -> {0} \cup Handles]
      /\ ousem \in {0} \cup Handles /\ count \in [Handles -> BOOLEAN] /\ 0 \notin Handles
  BY DEF IInv, TypeOK, Handles
<1>2. \A s, r \in Senders : pc[s] # "idle" /\ r # s => pc[r] = "idle"
  BY DEF IInv, Alone
<1>3. ASSUME NEW s \in Senders, Enter(s) PROVE Semaphore'
  <2>1. core = "nobody" /\ pc' = [pc EXCEPT ![s] = IF ousem = 0 THEN "create" ELSE "buffer"]
        /\ UNCHANGED <<mine, ousem, count>>
    BY <1>3 DEF Enter, semVars
  <2>2. \A r \in Senders : pc[r] = "idle"
    BY <2>1 DEF IInv, Alone
  <2>3. QED
    BY <1>1, <2>1, <2>2
<1>4. ASSUME NEW s \in Senders, CreateSem(s) PROVE Semaphore'
  <2>1. pc[s] = "create" /\ pc' = [pc EXCEPT ![s] = "signal"] /\ ousem' = ousem + 1
    BY <1>4 DEF CreateSem
  <2>2. ousem' # 0
    BY <1>1, <2>1
  <2>3. QED
    BY <1>1, <1>2, <2>1, <2>2
<1>5. ASSUME NEW s \in Senders, SignalSem(s) PROVE Semaphore'
  BY <1>1, <1>2, <1>5 DEF SignalSem
<1>6. ASSUME NEW s \in Senders, LoadBuffer(s) \/ LoadDesc(s) \/ CheckOwn(s)
      PROVE  Semaphore'
  BY <1>1, <1>2, <1>6 DEF LoadBuffer, LoadDesc, CheckOwn, semVars
<1>7. ASSUME NEW s \in Senders, WaitSem(s) PROVE Semaphore'
  BY <1>1, <1>2, <1>7 DEF WaitSem
<1>8. ASSUME NEW s \in Senders, CopyFrame(s) \/ HalLock(s) \/ HalGive(s) PROVE Semaphore'
  BY <1>1, <1>2, <1>8 DEF CopyFrame, HalLock, HalGive, semVars
<1>9. ASSUME NEW s \in Senders, Leave(s) PROVE Semaphore'
  BY <1>1, <1>2, <1>9 DEF Leave
<1>10. CASE DmaSend \/ IrqUnlock \/ UNCHANGED vars
  BY <1>10 DEF DmaSend, IrqUnlock, vars, threadVars, semVars
<1>11. QED
  BY <1>3, <1>4, <1>5, <1>6, <1>7, <1>8, <1>9, <1>10 DEF Next, Output

\* Under the core lock no thread blocks on ousem: it waits for the semaphore the
\* others signal, and finds it signalled.
THEOREM NobodyBlocks ==
  ASSUME CoreLocked = Senders PROVE Spec => []SemaphoreFree
<1>1. Init => Semaphore
  BY DEF Init, Semaphore, Taking
<1>2. IInv /\ Semaphore /\ [Next]_vars => Semaphore'
  BY StepSemaphore
<1>3. Semaphore => SemaphoreFree
  BY DEF Semaphore, Taking, SemaphoreFree
<1>4. QED
  BY <1>1, <1>2, <1>3, Invariance, PTL DEF Spec

-----------------------------------------------------------------------------
(***************************************************************************)
(* The refinement: the callers and the ring are a queue that may lose      *)
(* frames.  A frame enters with the call that brings it; it is lost when   *)
(* the call finds the descriptor with the DMA or the handle locked; it     *)
(* comes out when the DMA sends it.  The descriptors of the DMA are the    *)
(* consecutive ones from its own to heth.TxDesc, their frames ascend, and  *)
(* the frame of the call under way is the newest of all.                   *)
(***************************************************************************)

\* The distance of descriptor i from the DMA's along the ring.
Place(i) == IF dma <= i THEN i - dma ELSE i - dma + TxBufs

RingOrder ==
  /\ \E n \in 0 .. TxBufs :
       /\ \A i \in Desc : own[i] <=> Place(i) < n
       /\ txdesc = IF dma + n < TxBufs THEN dma + n ELSE dma + n - TxBufs
  /\ \A i, j \in Desc : own[i] /\ own[j] /\ Place(i) < Place(j) => given[i] < given[j]

Newest ==
  /\ \A i \in Desc : own[i] => given[i] <= frames
  /\ \A s \in Senders : pc[s] \in Holding =>
       frame[s] = frames /\ \A i \in Desc : own[i] => given[i] < frames

\* The number of the next descriptor.
LEMMA SuccFacts ==
  ASSUME NEW i \in Desc
  PROVE  Succ(i) \in Desc /\ Succ(i) = IF i = TxBufs - 1 THEN 0 ELSE i + 1
<1>1. CASE i = TxBufs - 1
  BY <1>1, RingAssumption DEF Succ, Desc
<1>2. CASE i # TxBufs - 1
  <2>1. PICK n \in Nat \ {0} : n = TxBufs
    BY RingAssumption
  <2>2. i + 1 \in 0 .. n - 1
    BY <1>2, <2>1 DEF Desc
  <2>3. (i + 1) % n = i + 1
    BY <2>2
  <2>4. QED
    BY <1>2, <2>1, <2>2, <2>3 DEF Succ, Desc
<1>3. QED
  BY <1>1, <1>2

\* At power-on the ring is empty and no call is under way.
LEMMA InitQueue == Init => RingOrder /\ Newest
<1> SUFFICES ASSUME Init PROVE RingOrder /\ Newest
  OBVIOUS
<1>1. 0 \in 0 .. TxBufs /\ \A i \in Desc : own[i] = FALSE /\ ~(Place(i) < 0)
  BY RingAssumption DEF Init, Desc, Place
<1>2. txdesc = IF dma + 0 < TxBufs THEN dma + 0 ELSE dma + 0 - TxBufs
  BY RingAssumption DEF Init
<1>3. RingOrder
  BY <1>1, <1>2 DEF RingOrder
<1>4. Newest
  BY <1>1 DEF Init, Newest, Holding
<1>5. QED
  BY <1>3, <1>4

\* Every step keeps the descriptors of the DMA together and their frames in
\* order: HAL_ETH_TransmitFrame gives the next one, the DMA takes the first.
LEMMA StepRingOrder ==
  ASSUME CoreLocked = Senders, IInv, RingOrder, Newest, [Next]_vars
  PROVE  RingOrder'
<1>1. /\ txdesc \in Desc /\ dma \in Desc /\ own \in [Desc -> BOOLEAN]
      /\ given \in [Desc -> 0 .. MaxFrames] /\ TxBufs \in Nat \ {0} /\ MaxFrames \in Nat
      /\ frames \in Nat
  BY RingAssumption DEF IInv, TypeOK
<1>2. PICK n \in 0 .. TxBufs :
        /\ \A i \in Desc : own[i] <=> Place(i) < n
        /\ txdesc = IF dma + n < TxBufs THEN dma + n ELSE dma + n - TxBufs
  BY DEF RingOrder
<1>3. \A i, j \in Desc : own[i] /\ own[j] /\ Place(i) < Place(j) => given[i] < given[j]
  BY DEF RingOrder
<1>4. \A i \in Desc : Place(i) \in 0 .. TxBufs - 1
  BY <1>1 DEF Place, Desc
<1>5. CASE UNCHANGED <<txdesc, own, given, dma>>
  BY <1>5 DEF RingOrder, Place
<1>6. ASSUME NEW s \in Senders, HalGive(s), ~own[txdesc] PROVE RingOrder'
  <2>1. /\ own' = [own EXCEPT ![txdesc] = TRUE] /\ given' = [given EXCEPT ![txdesc] = frame[s]]
        /\ txdesc' = Succ(txdesc) /\ dma' = dma /\ pc[s] = "give"
    BY <1>6 DEF HalGive
  <2>2. n < TxBufs /\ Place(txdesc) = n
    BY <1>1, <1>2, <1>6 DEF Place, Desc
  <2>3. \A i \in Desc : i = txdesc \/ Place(i) # n
    BY <1>1, <2>2 DEF Place, Desc
  <2>4. \A i \in Desc : own'[i] <=> Place(i) < n + 1
    BY <1>1, <1>2, <1>4, <2>1, <2>2, <2>3
  <2>5. txdesc' = IF dma + (n + 1) < TxBufs THEN dma + (n + 1) ELSE dma + (n + 1) - TxBufs
    <3>1. txdesc' = IF txdesc = TxBufs - 1 THEN 0 ELSE txdesc + 1
      BY <1>1, <2>1, SuccFacts
    <3>2. QED
      BY <1>1, <1>2, <2>2, <3>1 DEF Desc
  <2>6. frame[s] = frames /\ \A i \in Desc : own[i] => given[i] < frames
    BY <2>1 DEF Newest, Holding
  <2>7. ASSUME NEW i \in Desc, NEW j \in Desc, own'[i], own'[j], Place(i) < Place(j)
        PROVE  given'[i] < given'[j]
    <3>1. i # txdesc /\ own[i] /\ given'[i] = given[i]
      BY <1>1, <1>4, <2>1, <2>2, <2>4, <2>7
    <3>2. CASE j = txdesc
      BY <1>1, <2>1, <2>6, <3>1, <3>2
    <3>3. CASE j # txdesc
      BY <1>1, <1>3, <2>1, <2>7, <3>1, <3>3
    <3>4. QED
      BY <3>2, <3>3
  <2>8. n + 1 \in 0 .. TxBufs /\ \A i \in Desc : Place(i)' = Place(i)
    BY <1>1, <2>1, <2>2 DEF Place
  <2>9. QED
    BY <2>1, <2>4, <2>5, <2>7, <2>8 DEF RingOrder
<1>7. CASE DmaSend
  <2>1. /\ own[dma] /\ own' = [own EXCEPT ![dma] = FALSE] /\ dma' = Succ(dma)
        /\ UNCHANGED <<txdesc, given>>
    BY <1>7 DEF DmaSend
  <2>2. Place(dma) = 0 /\ n > 0
    BY <1>1, <1>2, <2>1 DEF Place, Desc
  <2>3. dma' = IF dma = TxBufs - 1 THEN 0 ELSE dma + 1
    BY <1>1, <2>1, SuccFacts
  <2>4. \A i \in Desc : Place(i)' = IF i = dma THEN TxBufs - 1 ELSE Place(i) - 1
    <3>1. ASSUME NEW i \in Desc
          PROVE  (IF dma' <= i THEN i - dma' ELSE i - dma' + TxBufs)
                   = IF i = dma THEN TxBufs - 1
                     ELSE (IF dma <= i THEN i - dma ELSE i - dma + TxBufs) - 1
      BY <1>1, <2>3 DEF Desc
    <3>2. QED
      BY <3>1 DEF Place
  <2>5. \A i \in Desc : own'[i] <=> Place(i)' < n - 1
    BY <1>1, <1>2, <1>4, <2>1, <2>2, <2>4
  <2>6. txdesc' = IF dma' + (n - 1) < TxBufs THEN dma' + (n - 1) ELSE dma' + (n - 1) - TxBufs
    BY <1>1, <1>2, <2>1, <2>2, <2>3 DEF Desc
  <2>7. ASSUME NEW i \in Desc, NEW j \in Desc, own'[i], own'[j], Place(i)' < Place(j)'
        PROVE  given'[i] < given'[j]
    BY <1>1, <1>3, <1>4, <2>1, <2>4, <2>7
  <2>8. n - 1 \in 0 .. TxBufs
    BY <1>1, <2>2
  <2>9. QED
    BY <2>5, <2>6, <2>7, <2>8 DEF RingOrder
<1>8. QED
  <2>1. ASSUME NEW s \in Senders, HalGive(s), own[txdesc]
        PROVE  UNCHANGED <<txdesc, own, given, dma>>
    BY <2>1 DEF HalGive
  <2>2. ASSUME NEW s \in Senders, Enter(s) \/ (Output(s) /\ ~HalGive(s))
        PROVE  UNCHANGED <<txdesc, own, given, dma>>
    BY <2>2 DEF Enter, Output, CreateSem, SignalSem, LoadBuffer, LoadDesc, CheckOwn,
       WaitSem, CopyFrame,
       HalLock, Leave, ringVars
  <2>3. CASE IrqUnlock \/ UNCHANGED vars
    BY <1>5, <2>3 DEF IrqUnlock, vars, ringVars
  <2>4. ASSUME NEW s \in Senders, Enter(s) \/ Output(s) PROVE RingOrder'
    BY <1>5, <1>6, <2>1, <2>2, <2>4
  <2>5. QED
    BY <1>5, <1>7, <2>3, <2>4 DEF Next

\* Every step keeps the frame of the call under way the newest.
LEMMA StepNewest ==
  ASSUME CoreLocked = Senders, IInv, Newest, [Next]_vars
  PROVE  Newest'
<1> USE DEF Newest, Holding, Goto
<1>1. /\ pc \in [Senders -> Labels] /\ frame \in [Senders -> 0 .. MaxFrames]
      /\ txdesc \in Desc /\ dma \in Desc /\ own \in [Desc -> BOOLEAN]
      /\ given \in [Desc -> 0 .. MaxFrames] /\ frames \in Nat /\ MaxFrames \in Nat
  BY RingAssumption DEF IInv, TypeOK
<1>2. \A s, r \in Senders : pc[s] # "idle" /\ r # s => pc[r] = "idle"
  BY DEF IInv, Alone
<1>3. ASSUME NEW s \in Senders, Enter(s) PROVE Newest'
  <2>1. /\ core = "nobody" /\ frames' = frames + 1
        /\ frame' = [frame EXCEPT ![s] = frames + 1]
        /\ pc' = [pc EXCEPT ![s] = IF ousem = 0 THEN "create" ELSE "buffer"]
        /\ UNCHANGED <<own, given>>
    BY <1>3 DEF Enter, ringVars
  <2>2. \A r \in Senders : pc[r] = "idle"
    BY <2>1, NoneAssumption DEF IInv, Alone
  <2>3. \A i \in Desc : own[i] => given[i] < frames + 1 /\ given[i] <= frames + 1
    BY <1>1
  <2>4. QED
    BY <1>1, <2>1, <2>2, <2>3
<1>4. ASSUME NEW s \in Senders,
               CreateSem(s) \/ SignalSem(s) \/ LoadBuffer(s) \/ LoadDesc(s)
               \/ CheckOwn(s) \/ WaitSem(s)
               \/ CopyFrame(s) \/ HalLock(s) \/ Leave(s)
      PROVE  Newest'
  <2>1. /\ UNCHANGED <<frame, frames, own, given>>
        /\ pc[s] = "error" \/ pc[s] \in Holding
        /\ \/ pc' = [pc EXCEPT ![s] = "idle"] \/ pc' = [pc EXCEPT ![s] = "error"]
           \/ pc[s] \in Holding /\ \E l \in Holding : pc' = [pc EXCEPT ![s] = l]
    BY <1>4 DEF CreateSem, SignalSem, LoadBuffer, LoadDesc, CheckOwn, WaitSem, CopyFrame,
       HalLock, Leave,
       ringVars
  <2>2. QED
    BY <1>1, <2>1
<1>5. ASSUME NEW s \in Senders, HalGive(s) PROVE Newest'
  <2>1. /\ pc[s] = "give" /\ pc' = [pc EXCEPT ![s] = "error"] /\ UNCHANGED <<frame, frames>>
        /\ \/ UNCHANGED <<own, given>>
           \/ /\ own' = [own EXCEPT ![txdesc] = TRUE]
              /\ given' = [given EXCEPT ![txdesc] = frame[s]]
    BY <1>5 DEF HalGive
  <2>2. \A r \in Senders : pc'[r] \notin Holding
    BY <1>1, <1>2, <2>1
  <2>3. \A i \in Desc : own'[i] => given'[i] <= frames
    BY <1>1, <2>1
  <2>4. QED
    BY <2>1, <2>2, <2>3
<1>6. CASE DmaSend
  BY <1>1, <1>6 DEF DmaSend, threadVars
<1>7. CASE IrqUnlock \/ UNCHANGED vars
  BY <1>7 DEF IrqUnlock, vars, threadVars, ringVars
<1>8. QED
  BY <1>3, <1>4, <1>5, <1>6, <1>7 DEF Next, Output

Held  == {frame[s] : s \in {r \in Senders : pc[r] \in Holding}}
Owned == {given[i] : i \in {j \in Desc : own[j]}}

\* When one thread at most is inside a call, the frames of the calls are its own.
LEMMA HeldByOne ==
  ASSUME NEW q, NEW f, NEW s \in Senders, \A r \in Senders \ {s} : q[r] = "idle"
  PROVE  {f[r] : r \in {t \in Senders : q[t] \in Holding}}
           = IF q[s] \in Holding THEN {f[s]} ELSE {}
<1>1. \A r \in Senders : q[r] \in Holding => r = s
  BY DEF Holding
<1>2. QED
  BY <1>1

\* Nothing is under way at power-on.
LEMMA OutputInit == Init => Channel!Init
<1> SUFFICES ASSUME Init PROVE Channel!Init
  OBVIOUS
<1>1. (\A s \in Senders : pc[s] \notin Holding) /\ \A i \in Desc : ~own[i]
  BY DEF Init, Holding
<1>2. UnderWay = {}
  BY <1>1 DEF UnderWay
<1>3. QED
  BY <1>2 DEF Init, Channel!Init

\* Every step of the callers, the HAL and the DMA is one of the queue or none.
LEMMA OutputSteps ==
  ASSUME CoreLocked = Senders, IInv, RingOrder, Newest, [Next]_vars
  PROVE  [Channel!Next]_(Channel!vars)
<1> USE DEF Channel!Next, Channel!vars, Goto
<1>1. /\ pc \in [Senders -> Labels] /\ frame \in [Senders -> 0 .. MaxFrames]
      /\ txdesc \in Desc /\ dma \in Desc /\ own \in [Desc -> BOOLEAN]
      /\ given \in [Desc -> 0 .. MaxFrames] /\ frames \in Nat /\ MaxFrames \in Nat
  BY RingAssumption DEF IInv, TypeOK
<1>2. \A s, r \in Senders : pc[s] # "idle" /\ r # s => pc[r] = "idle"
  BY DEF IInv, Alone
<1>3. UnderWay = Held \cup Owned /\ UnderWay' = Held' \cup Owned'
  BY DEF UnderWay, Held, Owned
<1>4. ASSUME NEW s \in Senders, \A r \in Senders \ {s} : pc[r] = "idle"
      PROVE  Held = IF pc[s] \in Holding THEN {frame[s]} ELSE {}
  BY <1>4, HeldByOne DEF Held
<1>5. ASSUME NEW s \in Senders, \A r \in Senders \ {s} : pc'[r] = "idle"
      PROVE  Held' = IF pc'[s] \in Holding THEN {frame'[s]} ELSE {}
  BY <1>5, HeldByOne DEF Held
<1>6. ASSUME NEW s \in Senders, Enter(s) PROVE [Channel!Next]_(Channel!vars)
  <2>1. /\ core = "nobody" /\ frames < MaxFrames /\ frames' = frames + 1
        /\ frame' = [frame EXCEPT ![s] = frames + 1]
        /\ pc' = [pc EXCEPT ![s] = IF ousem = 0 THEN "create" ELSE "buffer"]
        /\ UNCHANGED <<own, given, wire>>
    BY <1>6 DEF Enter, ringVars
  <2>2. \A r \in Senders : pc[r] = "idle"
    BY <2>1, NoneAssumption DEF IInv, Alone
  <2>3. Held = {}
    BY <1>4, <2>2 DEF Holding
  <2>4. (\A r \in Senders \ {s} : pc'[r] = "idle") /\ pc'[s] \in Holding
        /\ frame'[s] = frames'
    BY <1>1, <2>1, <2>2 DEF Holding
  <2>5. Held' = {frames'}
    BY <1>5, <2>4
  <2>6. UnderWay' = UnderWay \cup {frames'}
    BY <1>3, <2>1, <2>3, <2>5 DEF Owned
  <2>7. QED
    BY <2>1, <2>6 DEF Channel!Accept
<1>7. ASSUME NEW s \in Senders, Output(s) PROVE [Channel!Next]_(Channel!vars)
  <2>1. pc[s] # "idle" /\ \A r \in Senders \ {s} : pc[r] = "idle"
    BY <1>2, <1>7 DEF Output, CreateSem, SignalSem, LoadBuffer, LoadDesc, CheckOwn,
       WaitSem, CopyFrame,
       HalLock, HalGive, Leave
  <2>2. /\ UNCHANGED <<frame, frames, wire>>
        /\ \E l \in Labels : pc' = [pc EXCEPT ![s] = l]
    BY <1>7 DEF Output, CreateSem, SignalSem, LoadBuffer, LoadDesc, CheckOwn, WaitSem,
       CopyFrame,
       HalLock, HalGive, Leave, ringVars, Labels
  <2>3. \A r \in Senders \ {s} : pc'[r] = "idle"
    BY <1>1, <2>1, <2>2
  <2>4. /\ Held = IF pc[s] \in Holding THEN {frame[s]} ELSE {}
        /\ Held' = IF pc'[s] \in Holding THEN {frame[s]} ELSE {}
    BY <1>4, <1>5, <2>1, <2>2, <2>3
  <2>5. pc[s] \in Holding => frame[s] \notin Owned
    <3>1. pc[s] \in Holding =>
            frame[s] = frames /\ \A i \in Desc : own[i] => given[i] < frames
      BY DEF Newest
    <3>2. QED
      BY <1>1, <3>1 DEF Owned
  <2>6. CASE Owned' = Owned /\ (pc'[s] \in Holding <=> pc[s] \in Holding)
    BY <1>3, <2>2, <2>4, <2>6
  <2>7. CASE Owned' = Owned /\ pc[s] \in Holding /\ pc'[s] \notin Holding
    <3>1. UnderWay' = UnderWay \ {frame[s]} /\ frame[s] \in UnderWay
      BY <1>3, <2>4, <2>5, <2>7
    <3>2. QED
      BY <2>2, <3>1 DEF Channel!Lose
  <2>8. CASE Owned' = Owned \cup {frame[s]} /\ pc[s] \in Holding /\ pc'[s] \notin Holding
    BY <1>3, <2>2, <2>4, <2>8
  <2>9. CASE HalGive(s)
    <3>1. pc[s] = "give" /\ pc' = [pc EXCEPT ![s] = "error"]
      BY <2>9 DEF HalGive
    <3>2. pc[s] \in Holding /\ pc'[s] \notin Holding
      BY <1>1, <3>1 DEF Holding
    <3>3. CASE own[txdesc]
      <4>1. UNCHANGED <<own, given>>
        BY <2>9, <3>3 DEF HalGive
      <4>2. QED
        BY <2>7, <3>2, <4>1 DEF Owned
    <3>4. CASE ~own[txdesc]
      <4>1. /\ own' = [own EXCEPT ![txdesc] = TRUE]
            /\ given' = [given EXCEPT ![txdesc] = frame[s]]
        BY <2>9, <3>4 DEF HalGive
      <4>2. /\ \A i \in Desc : own'[i] <=> own[i] \/ i = txdesc
            /\ \A i \in Desc : given'[i] = IF i = txdesc THEN frame[s] ELSE given[i]
        BY <1>1, <4>1
      <4>3. Owned' = Owned \cup {frame[s]}
        BY <1>1, <3>4, <4>2 DEF Owned
      <4>4. QED
        BY <2>8, <3>2, <4>3
    <3>5. QED
      BY <3>3, <3>4
  <2>10. CASE ~HalGive(s)
    <3>1. UNCHANGED <<own, given>>
      BY <1>7, <2>10 DEF Output, CreateSem, SignalSem, LoadBuffer, LoadDesc, CheckOwn,
         WaitSem,
         CopyFrame, HalLock, Leave, ringVars
    <3>2. Owned' = Owned
      BY <3>1 DEF Owned
    <3>3. pc'[s] \in Holding => pc[s] \in Holding
      BY <1>1, <1>7, <2>10 DEF Output, CreateSem, SignalSem, LoadBuffer, LoadDesc,
         CheckOwn, WaitSem,
         CopyFrame, HalLock, Leave, Holding
    <3>4. QED
      BY <2>6, <2>7, <3>2, <3>3
  <2>11. QED
    BY <2>9, <2>10
<1>8. CASE DmaSend
  <2>1. /\ own[dma] /\ own' = [own EXCEPT ![dma] = FALSE]
        /\ wire' = Append(wire, buf[dma]) /\ UNCHANGED <<pc, frame, frames, given>>
    BY <1>8 DEF DmaSend, threadVars
  <2> DEFINE f == given[dma]
  <2>2. buf[dma] = f
    BY <1>1, <2>1 DEF IInv, FramesIntact
  <2>3. \A i \in Desc : own'[i] <=> own[i] /\ i # dma
    BY <1>1, <2>1
  <2>4. \A i \in Desc : own[i] /\ i # dma => f < given[i]
    <3>1. \A i \in Desc : i # dma => Place(dma) < Place(i)
      BY <1>1, RingAssumption DEF Place, Desc
    <3>2. QED
      BY <1>1, <2>1, <3>1 DEF RingOrder
  <2>5. \A g \in Held : f < g
    BY <1>1, <2>1 DEF Newest, Held
  <2>6. f \in Owned /\ Owned' = Owned \ {f}
    <3>1. \A i \in Desc : own[i] /\ i # dma => given[i] # f
      BY <1>1, <2>4
    <3>2. Owned' = {given[i] : i \in {j \in Desc : own[j] /\ j # dma}}
      BY <2>1, <2>3 DEF Owned
    <3>3. QED
      BY <1>1, <2>1, <3>1, <3>2 DEF Owned
  <2>7. Held' = Held /\ f \notin Held
    <3>1. Held' = Held
      BY <2>1 DEF Held
    <3>2. f \in Int /\ \A g \in Held : g # f
      BY <1>1, <2>5
    <3>3. QED
      BY <3>1, <3>2
  <2>8. f \in UnderWay /\ UnderWay' = UnderWay \ {f}
    BY <1>3, <2>6, <2>7
  <2>9. \A g \in UnderWay : f <= g
    <3>1. \A g \in Owned : f <= g
      <4>1. \A i \in Desc : own[i] => f <= given[i]
        BY <1>1, <2>4
      <4>2. QED
        BY <4>1 DEF Owned
    <3>2. \A g \in Held : g \in Int /\ f \in Int
      BY <1>1 DEF Held
    <3>3. \A g \in Held : f <= g
      BY <2>5, <3>2
    <3>4. QED
      BY <1>3, <3>1, <3>3
  <2>10. QED
    BY <2>1, <2>2, <2>8, <2>9 DEF Channel!Deliver
<1>9. CASE IrqUnlock \/ UNCHANGED vars
  <2>1. UNCHANGED <<pc, frame, frames, own, given, wire>>
    BY <1>9 DEF IrqUnlock, vars, threadVars, ringVars
  <2>2. UnderWay' = UnderWay
    BY <2>1 DEF UnderWay
  <2>3. QED
    BY <2>1, <2>2
<1>10. QED
  BY <1>6, <1>7, <1>8, <1>9 DEF Next

\* Under the core lock the transmission implements a queue that may lose frames
\* but neither reorders nor repeats them, for every ring and any threads.
THEOREM TransmissionIsQueue ==
  ASSUME CoreLocked = Senders PROVE Spec => OutputIsQueue
<1> DEFINE Queue == IInv /\ RingOrder /\ Newest
<1>1. Init => RingOrder /\ Newest
  BY InitQueue
<1>2. Queue /\ [Next]_vars => RingOrder' /\ Newest'
  BY StepRingOrder, StepNewest
<1>3. Init => Channel!Init
  BY OutputInit
<1>4. Queue /\ [Next]_vars => [Channel!Next]_(Channel!vars)
  BY OutputSteps
<1>5. QED
  BY <1>1, <1>2, <1>3, <1>4, Invariance, PTL DEF Spec, OutputIsQueue, Channel!Spec
=============================================================================
