------------------------------- MODULE EthTx -------------------------------
(***************************************************************************)
(* Transmission of Ethernet frames: low_level_output of                    *)
(* App/User/arch/ethernetif.c, called by several threads, with its lazily  *)
(* created semaphore ousem, the ring of transmit descriptors and           *)
(* HAL_ETH_TransmitFrame.  A frame fits one descriptor (ETH_TX_BUF_SIZE is *)
(* the largest frame), so the loop over descriptors copies into one.       *)
(*                                                                         *)
(* Threads that send through the lwIP API or from tcpip_thread hold the    *)
(* lwIP core lock while they are in low_level_output (they are the set     *)
(* CoreLocked); lwip_bootstrap, whose TCPIP_Init calls netif_set_up and    *)
(* with it the gratuitous ARP, does not.                                   *)
(***************************************************************************)
EXTENDS Integers, Sequences, FiniteSets

CONSTANTS
  Senders,     \* the threads that send
  CoreLocked,  \* those that hold the lwIP core lock
  TxBufs,      \* ETH_TXBUFNB, 8 in the code
  MaxFrames    \* bound: frames sent in all

ASSUME SenderAssumption ==
  IsFiniteSet(Senders) /\ Senders # {} /\ CoreLocked \subseteq Senders
ASSUME RingAssumption   == TxBufs \in Nat \ {0} /\ MaxFrames \in Nat
ASSUME NoneAssumption   == "nobody" \notin Senders

VARIABLES
  pc,       \* pc[s]: where thread s is in low_level_output
  frame,    \* frame[s]: the frame it sends
  into,     \* into[s]: the descriptor whose Buffer1Addr is its buffer
  desc,     \* desc[s]: its DmaTxDesc
  mine,     \* mine[s]: the semaphore handle it waits on
  result,   \* result[s]: its errval
  frames,   \* frames sent so far
  core,     \* holder of the lwIP core lock, or "nobody"
  ousem,    \* the handle in the static ousem, 0 for NULL
  count,    \* count[h]: whether semaphore h can be taken
  txdesc,   \* heth.TxDesc
  own,      \* own[i]: descriptor i belongs to the DMA
  buf,      \* buf[i]: the frame in the buffer of descriptor i
  given,    \* given[i]: the frame for which descriptor i was given to the DMA
  dma,      \* the descriptor the DMA sends next
  wire,     \* the frames the DMA has sent, in order
  hal       \* heth.Lock

threadVars == <<pc, frame, into, desc, mine, result>>
semVars    == <<ousem, count>>
ringVars   == <<txdesc, own, buf, given, dma, wire>>
vars == <<threadVars, frames, core, semVars, ringVars, hal>>

Desc == 0 .. TxBufs - 1
Handles == 1 .. Cardinality(Senders)

\* Mutant of Succ: the list of descriptors is not closed to a ring.
SuccLinear(i) == i + 1

\* The next descriptor of the chain that HAL_ETH_DMATxDescListInit closes.
Succ(i) == (i + 1) % TxBufs

Goto(s, label) == pc' = [pc EXCEPT ![s] = label]

Init ==
  /\ pc = [s \in Senders |-> "idle"] /\ frame = [s \in Senders |-> 0]
  /\ into = [s \in Senders |-> 0] /\ desc = [s \in Senders |-> 0]
  /\ mine = [s \in Senders |-> 0]
  /\ result = [s \in Senders |-> "ERR_OK"]
  /\ frames = 0 /\ core = "nobody"
  /\ ousem = 0 /\ count = [h \in Handles |-> FALSE]
  /\ txdesc = 0 /\ own = [i \in Desc |-> FALSE] /\ dma = 0
  /\ buf = [i \in Desc |-> 0] /\ given = [i \in Desc |-> 0]
  /\ wire = << >> /\ hal = FALSE

\* Mutant of Enter: the callers hold no core lock.
EnterUnlocked(s) ==
  /\ pc[s] = "idle" /\ frames < MaxFrames
  /\ frames' = frames + 1 /\ frame' = [frame EXCEPT ![s] = frames + 1]
  /\ Goto(s, IF ousem = 0 THEN "create" ELSE "buffer")
  /\ UNCHANGED <<into, desc, mine, result, core, semVars, ringVars, hal>>

\* lwIP calls low_level_output, which looks whether ousem exists.
Enter(s) ==
  /\ pc[s] = "idle" /\ frames < MaxFrames
  /\ frames' = frames + 1 /\ frame' = [frame EXCEPT ![s] = frames + 1]
  /\ IF s \in CoreLocked THEN core = "nobody" /\ core' = s ELSE UNCHANGED core
  /\ Goto(s, IF ousem = 0 THEN "create" ELSE "buffer")
  /\ UNCHANGED <<into, desc, mine, result, semVars, ringVars, hal>>

\* sys_sem_new(&ousem, 0): a fresh binary semaphore, not yet given.
CreateSem(s) ==
  /\ pc[s] = "create" /\ ousem < Cardinality(Senders)
  /\ ousem' = ousem + 1
  /\ Goto(s, "signal")
  /\ UNCHANGED <<frame, into, desc, mine, result, frames, core, count, ringVars, hal>>

\* sys_sem_signal(&ousem) on whatever handle ousem holds by now.
SignalSem(s) ==
  /\ pc[s] = "signal"
  /\ count' = [count EXCEPT ![ousem] = TRUE]
  /\ Goto(s, "buffer")
  /\ UNCHANGED <<frame, into, desc, mine, result, frames, core, ousem, ringVars, hal>>

\* buffer = heth.TxDesc->Buffer1Addr, before the semaphore is taken.
LoadBuffer(s) ==
  /\ pc[s] = "buffer"
  /\ into' = [into EXCEPT ![s] = txdesc]
  /\ Goto(s, "load")
  /\ UNCHANGED <<frame, desc, mine, result, frames, core, semVars, ringVars, hal>>

\* DmaTxDesc = heth.TxDesc, read anew, and still before the semaphore is taken.
LoadDesc(s) ==
  /\ pc[s] = "load"
  /\ desc' = [desc EXCEPT ![s] = txdesc]
  /\ Goto(s, "check")
  /\ UNCHANGED <<frame, into, mine, result, frames, core, semVars, ringVars, hal>>

\* Mutant of CheckOwn: the descriptor is not checked.
NoCheck(s) ==
  /\ pc[s] = "check"
  /\ Goto(s, "wait") /\ mine' = [mine EXCEPT ![s] = ousem]
  /\ UNCHANGED <<frame, into, desc, result, frames, core, semVars, ringVars, hal>>

\* A descriptor of the DMA: ERR_USE and "goto error", past the wait.
CheckOwn(s) ==
  /\ pc[s] = "check"
  /\ IF own[desc[s]]
     THEN Goto(s, "error") /\ result' = [result EXCEPT ![s] = "ERR_USE"] /\ UNCHANGED mine
     ELSE Goto(s, "wait") /\ mine' = [mine EXCEPT ![s] = ousem] /\ UNCHANGED result
  /\ UNCHANGED <<frame, into, desc, frames, core, semVars, ringVars, hal>>

\* sys_sem_wait(&ousem), without a timeout.
WaitSem(s) ==
  /\ pc[s] = "wait" /\ count[mine[s]]
  /\ count' = [count EXCEPT ![mine[s]] = FALSE]
  /\ Goto(s, "copy")
  /\ UNCHANGED <<frame, into, desc, mine, result, frames, core, ousem, ringVars, hal>>

\* The memcpys from the pbuf chain into the buffer.
CopyFrame(s) ==
  /\ pc[s] = "copy"
  /\ buf' = [buf EXCEPT ![into[s]] = frame[s]]
  /\ Goto(s, "transmit")
  /\ UNCHANGED <<frame, into, desc, mine, result, frames, core, semVars, txdesc, own,
                 given, dma, wire, hal>>

\* HAL_ETH_TransmitFrame begins with __HAL_LOCK.  Its HAL_BUSY is not looked at:
\* low_level_output returns ERR_OK for a frame that was never queued.
HalLock(s) ==
  /\ pc[s] = "transmit"
  /\ result' = [result EXCEPT ![s] = "ERR_OK"]
  /\ hal' = TRUE
  /\ Goto(s, IF hal THEN "error" ELSE "give")
  /\ UNCHANGED <<frame, into, desc, mine, frames, core, semVars, ringVars>>

\* HAL_ETH_TransmitFrame hands heth.TxDesc (not the descriptor copied to) to
\* the DMA and moves on, unless the DMA has it already; then __HAL_UNLOCK.
HalGive(s) ==
  /\ pc[s] = "give"
  /\ IF own[txdesc]
     THEN UNCHANGED <<txdesc, own, given>>
     ELSE /\ own' = [own EXCEPT ![txdesc] = TRUE]
          /\ given' = [given EXCEPT ![txdesc] = frame[s]]
          /\ txdesc' = Succ(txdesc)
  /\ hal' = FALSE
  /\ Goto(s, "error")
  /\ UNCHANGED <<frame, into, desc, mine, result, frames, core, semVars, buf, dma, wire>>

\* Mutant of Leave: ousem is not signalled.
LeaveSilent(s) ==
  /\ pc[s] = "error"
  /\ core' = IF s \in CoreLocked THEN "nobody" ELSE core
  /\ Goto(s, "idle")
  /\ UNCHANGED <<frame, into, desc, mine, result, frames, semVars, ringVars, hal>>

\* The error label, which every path reaches: sys_sem_signal(&ousem), return.
Leave(s) ==
  /\ pc[s] = "error"
  /\ count' = [count EXCEPT ![ousem] = TRUE]
  /\ core' = IF s \in CoreLocked THEN "nobody" ELSE core
  /\ Goto(s, "idle")
  /\ UNCHANGED <<frame, into, desc, mine, result, frames, ousem, ringVars, hal>>

\* The DMA sends the frame in its descriptor and gives the descriptor back.
DmaSend ==
  /\ own[dma]
  /\ own' = [own EXCEPT ![dma] = FALSE]
  /\ dma' = Succ(dma) /\ wire' = Append(wire, buf[dma])
  /\ UNCHANGED <<threadVars, frames, core, semVars, txdesc, buf, given, hal>>

\* The receive interrupt unlocks heth whoever holds it (HAL_ETH_IRQHandler).
IrqUnlock ==
  /\ hal /\ hal' = FALSE
  /\ UNCHANGED <<threadVars, frames, core, semVars, ringVars>>

Output(s) == \/ CreateSem(s) \/ SignalSem(s) \/ LoadBuffer(s) \/ LoadDesc(s)
             \/ CheckOwn(s) \/ WaitSem(s) \/ CopyFrame(s) \/ HalLock(s) \/ HalGive(s) \/ Leave(s)

Next == \/ \E s \in Senders : Enter(s) \/ Output(s)
        \/ DmaSend \/ IrqUnlock

Spec == Init /\ [][Next]_vars

\* A thread inside low_level_output goes on; the DMA need not.
FairSpec == Spec /\ \A s \in Senders : WF_vars(Output(s))

-----------------------------------------------------------------------------
Labels == {"idle", "create", "signal", "buffer", "load", "check", "wait", "copy",
           "transmit", "give", "error"}

\* Every variable has its type; heth.TxDesc stays in the ring.
TypeOK ==
  /\ pc \in [Senders -> Labels] /\ frame \in [Senders -> 0 .. MaxFrames]
  /\ into \in [Senders -> Desc] /\ desc \in [Senders -> Desc]
  /\ mine \in [Senders -> {0} \cup Handles]
  /\ result \in [Senders -> {"ERR_OK", "ERR_USE"}]
  /\ frames \in 0 .. MaxFrames /\ core \in {"nobody"} \cup CoreLocked
  /\ ousem \in {0} \cup Handles /\ count \in [Handles -> BOOLEAN]
  /\ txdesc \in Desc /\ own \in [Desc -> BOOLEAN] /\ dma \in Desc
  /\ buf \in [Desc -> 0 .. MaxFrames] /\ given \in [Desc -> 0 .. MaxFrames]
  /\ wire \in Seq(0 .. MaxFrames) /\ hal \in BOOLEAN

\* "Check if the descriptor is owned by the ETHERNET DMA": the check is still
\* true at the copy, so no frame is copied into a buffer the DMA is sending.
CopyToFreeBuffer ==
  \A s \in Senders : pc[s] = "copy" => ~own[into[s]]

\* A descriptor in the hands of the DMA holds the frame it was given for.
FramesIntact == \A i \in Desc : own[i] => buf[i] = given[i]

\* The semaphore is there for the taking when a thread comes to wait for it, and
\* it is the one the others signal: neither the lazy creation nor the error
\* path, which gives it without having taken it, leaves a thread waiting.
SemaphoreFree ==
  \A s \in Senders : pc[s] = "wait" => mine[s] = ousem /\ count[ousem]

\* The frames of calls that have not dropped them, and those with the DMA.
Holding == {"create", "signal", "buffer", "load", "check", "wait", "copy", "transmit",
            "give"}
UnderWay == {frame[s] : s \in {r \in Senders : pc[r] \in Holding}}
              \cup {given[i] : i \in {j \in Desc : own[j]}}

\* low_level_output and the ring are a queue that may drop frames: the wire
\* carries the frames in the order of the calls, none twice and none mixed.
Channel == INSTANCE FrameChannel
           WITH entered <- frames, pending <- UnderWay, out <- wire
OutputIsQueue == Channel!Spec

\* Every call of low_level_output returns: nobody waits for ousem for ever,
\* even if the DMA has stopped and the ring is full.
OutputReturns == \A s \in Senders : pc[s] # "idle" ~> pc[s] = "idle"
=============================================================================
