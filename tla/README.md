# Formal models of the bootloader and of the IAP application

The repository holds two firmware projects for an STM32F407 board:

* `src/App` - the newer tree: bootloader start-up (`User/init.c`), FatFs on the SD
  card, EasyLogger, lwIP over FreeRTOS with its own Ethernet driver;
* `src/LwIP` - the application: a task that downloads firmware over TCP and stores
  it as `0:/firmware.bin`, and a task that talks to an MQTT broker.

This directory holds TLA+ models of the parts that carry the projects' own logic,
the TLC configurations that check them, and TLAPS proofs about each of the
component models. Source paths below are relative to `src/`.

## 1. Inventory

| Component | State | Operations | Interacts with | What is hard |
|---|---|---|---|---|
| Boot of App `App/User/{main,init}.c` | interrupt mask, critical section count, priority of SysTick, tick counter, ready tasks | `SystemClock_Config`, `elog_init`, `fatfs_init`, `task_init`, `vTaskStartScheduler` | FreeRTOS port, HAL, storage | FreeRTOS calls before the scheduler, delays of the HAL with BASEPRI raised, ticks that come while the kernel believes them masked |
| Storage `App/User/init.c`, `App/Middlewares/FatFs`, `App/HAL/BSP/SDIO` | `is_initialized`, `Stat`, partition table, mounted volume | `fatfs_init`, `f_mount`, `find_volume`, `f_mkfs`, `disk_*` | card | failing reads and writes, resets inside `f_mkfs`, errors overwritten by later results |
| Upgrade task `LwIP/User/Tasks/src/tasks_upgrade.c` | `upgrade_state`, sizes, parser state, `packet_buffer`, `firmware_file` | connect, receive, parse header / body, start / data / finish handlers, clean-up | server over netconn, FatFs | arbitrary segmentation, oversized and empty packets, lost connections, failing writes, resets |
| FatFs file `LwIP/FatFs/ff.c` | file object, directory entry | `f_mount`, `f_open`, `f_write`, `f_close` | upgrade task, SD driver | short writes, sticky errors, what survives a reset |
| Ethernet reception `App/User/arch/ethernetif.c`, `App/HAL/BSP/eth/bsp_eth.c`, HAL | descriptor ring, receive semaphore, critical section, pbuf pool, mailbox | DMA, interrupt, `low_level_input`, `ethernetif_input`, `tcpip_thread` | DMA, tcpip thread, senders (through the HAL lock) | merged signals, full ring / mailbox / pool, refused polls |
| Ethernet transmission (same files) | `ousem`, descriptor ring, HAL lock | `low_level_output`, `HAL_ETH_TransmitFrame` | several threads, DMA, receive interrupt | check before wait, lazy creation of the semaphore |
| MQTT client `LwIP/User/Tasks/src/tasks_mqtt.c`, `LwIP/User/MQTT_ALiYun/{mqttclient,transport}.c` | socket, `PacketID`, `mqtt_user_msg` | open, login, subscribe, serve, ping, close; publish from a second task | broker over a socket | two tasks on one socket, time-outs, one slot for messages, lost connections |
| lwIP system layer `App/User/arch/sys_arch.c` | semaphores, mailboxes, thread registry | `sys_sem_*`, `sys_mbox_*`, `sys_thread_new`, `TCPIP_Init` | all network threads | start-up outside the core lock |
| Logger port `App/Lib/EasyLogger/port/elog_port.c` | output lock | init, lock, unlock, output | every task, fault handlers | created before the scheduler; used from interrupts |
| Task tables, delays, DHT11, touch panel, LCD, LED, UART, backtrace | - | - | - | mostly straight-line I/O; cycle-counter wrap-round in the delays |

What makes each modelled component correct:

* **Boot**: whatever the card holds, mounting it ends; no tick disturbs the start of the
  scheduler.
* **Storage**: a card is formatted only when it holds no volume, a volume that is
  mounted is whole, the application runs on the first volume the card offers, and a
  working card takes the boot to its end.
* **Upgrade task**: no copy leaves its buffer, packets are delivered as they were
  sent, the counters agree with the file, "finished" means a whole file, the closed
  file never holds bytes of two transfers, and a transfer that a server runs by the
  protocol ends with the server's image.
* **Reception**: pbufs are never lost, frames keep their order, thread and DMA
  agree on the ring, and reception cannot stop for good.
* **Transmission**: nobody writes to a buffer the DMA sends from; frames leave in the
  order of the calls, none twice; calls return.
* **MQTT client**: it serves only subscribed connections, leaks no socket, tells
  the broker "done" only for processed messages, processes none twice, and replaces
  lost connections. For a message of QoS 1 "done" may be told a moment before.

The code paths that are exposed to these hazards are listed one by one, with the
line where they bite and the properties that watch them, in `PROJECT.json`.

## 2. Modules and the code

| Module | Models | Notes |
|---|---|---|
| `Storage` | `fatfs_init` and what it calls in FatFs, the disk table and the SD driver; failing card operations; resets | one action per call of the disk layer or group of calls without one between them |
| `Startup` | `main()` of App from `HAL_Init` to the first task; `EXTENDS Storage` | `cpu` is BASEPRI, `uxCriticalNesting` and the priority of SysTick, `ready` the priorities in the ready lists; `StorageStep` is `fatfs_init` held back by `HAL_Delay`; SysTick may come between any two steps |
| `Upgrade` | `upgrade_task` and its handlers, FatFs as it uses it, TCP and an arbitrary peer | one action per step of the task's loop; `process_received_packet` and the three handlers are operators inside `ParseData` |
| `FirmwareTransfer` | what a transfer promises (abstract) | begin, extend along the image, complete, leave |
| `UpgradeTransfer` | `Upgrade` with a server that follows the protocol, lost connections and resets | implements `FirmwareTransfer` (`ImplementsTransfer`) |
| `FrameChannel` | what either direction of the Ethernet driver promises (abstract): a queue that may lose frames | accept, lose, deliver the oldest |
| `EthRx` | DMA, receive interrupt, ETHIN thread, `tcpip_thread`, a contending sender | `crit` is the nesting of `taskENTER_CRITICAL`, `lock` is `heth.Lock`; implements `FrameChannel` (`InputIsQueue`) |
| `EthTx` | `low_level_output` in several threads, `HAL_ETH_TransmitFrame`, DMA | one action per access to shared state, so that threads interleave there (`heth.TxDesc` is read twice, `LoadBuffer` and `LoadDesc`); `wire` is what the DMA has sent; implements `FrameChannel` under the core lock (`OutputIsQueue`) |
| `MqttClient` | `mqtt_task`, `mqtt_send_task`, the client functions, a broker and a link that may fail | a function is cut at the points where it blocks or where the other task or the broker may come between; `Publish1` ends with the PUBACK, `ProcessAcked` is the `UserMsgCtl` behind it |
| `Upgrade_proofs`, `Framing_proofs`, `UpgradeTransfer_proofs`, `Storage_proofs`, `EthRx_proofs`, `EthTx_proofs`, `MqttClient_proofs`, `Startup_proofs` | theorems about these modules | section 5 |
| `MC*` | instances for TLC | constants only |

The models compose where the code does: `Startup` runs `Storage` with BASEPRI
raised, `UpgradeTransfer` runs `Upgrade` against a server, `EthRx` lets a sender contend
for the handle that `EthTx` details.

Abstractions, beyond those in the modules' headers:

* **Bytes** (`Upgrade`): the alphabet is small; the words of the text commands are
  single bytes; the header has four bytes in base `Base`. `memcpy`, `strncmp` with
  its NUL, and `atoi` with what lies behind the packet are modelled by what they do:
  `packet_buffer` keeps old bytes, and `handle_upgrade_start` reads them.
* **FatFs file** (`Upgrade`): a file is its bytes; `card` is what a reset would find
  under its name. A short write means a full volume, an error sticks to the file object.
* **Card** (`Storage`): a sector is what `check_fs` and the checks behind it make of
  it; `whole` are the volumes whose FAT and root directory are their own. Every read
  and write may fail, `faulty` records that one did. What the SDIO peripheral does
  inside a transfer is one outcome of the call.
* **Boot** (`Startup`): a priority is a number, smaller is more urgent; BASEPRI masks
  `MaxSyscall` and what is less urgent; SysTick is taken unless it is masked, also inside
  a critical section. The tick is followed as far as the HAL's counter and a request for a
  context switch. `HAL_Delay(2U)` is three ticks. Any of the tasks, or the idle task, may
  find no memory.
* **Ethernet**: frames fit one descriptor (the buffers have the size of the largest
  frame); time-slicing interleaves threads outside critical sections.
* **MQTT**: packets are whole and of no particular size; the broker is external and
  may refuse, publish before its SUBACK, repeat a PUBREL, close or fall silent. The
  packet ID that a QoS 0 PUBLISH leaves behind is an unset variable in the code and
  an arbitrary number in the model. A publication of the send task may also fail to
  be sent, since its length comes from an unset pointer; that is the task not acting.
  The device is not reset: what it has in RAM, `mqtt_user_msg` too, stays.

Operators whose comment says *Mutant of X* are plausible bugs of `X`. They are used
by no specification: each property is checked to fail when `X` is replaced by its
mutant, which shows that the property depends on the code and not on the model.

## 3. Runs

Passing runs:

| Run | Bounds | Shows |
|---|---|---|
| `upgrade_all` | 3 packets of 0 to 5 bytes, buffer of 4, segments of 3 and 20 bytes, 9 bytes in flight; every FatFs call may fail | bounds of copies, framing, counters against file, meaning and finality of "finished" |
| `transfer_safety` | images of 1 to 4 bytes, chunks of any size, one drop and one reset at any moment, failing FatFs, announcements without NUL | the composition implements `FirmwareTransfer`; a closed `firmware.bin` is a beginning of the image (`CardHoldsBeginning`) |
| `transfer_live` | images without the byte "u", NUL-terminated announcements, two drops and one reset, a working card | the announced size is understood, chunks are data, the image is delivered again and again |
| `ethrx_all` | 3 descriptors, semaphore and mailbox of 2, 3 pbufs, 7 frames, a sender | accounting, order, ring, the refinement of `FrameChannel`, and when reception may stop |
| `ethtx_locked` | 2 threads under the core lock, 2 descriptors, 5 frames | buffers and frames are safe, `ousem` is there for whoever waits, the wire carries the frames in the order of the calls (`FrameChannel`), calls return |
| `mqtt_all` | 3 sessions with 2 identifiers, 3 messages of QoS 0 to 2, 2 packets waiting towards the broker | subscription, sockets, processed and acknowledged messages, lost connections |
| `storage_all` | every partition table over two places, every kind of sector, two FAT/root sectors, two resets, any read or write failing | when a card is formatted, what is mounted after a cut format, what the application runs on, that a good card boots |
| `startup_boot` | the tables and sectors of `storage_all`, one reset, any read or write failing | mounting ends with BASEPRI raised, critical sections balance, no context switch is asked for before the first task |

Why the bounds are enough: three packets give a start, data and finish or any
disorder of them; three-byte segments cut headers and bodies at every offset that
matters, segments of 20 bytes hold several packets; a packet one byte larger than the
buffer reaches the oversized branch, and its body is a header and a packet. One drop
and one reset put a broken transfer before a whole one in either order; the second
drop of the live run adds a second broken one. Two or three descriptors are filled,
wrapped and drained more than once by seven frames, and semaphore, mailbox and pool
are all smaller than the load. Two messages are enough for one to replace the other
in the slot, the third meets what they left; three subscriptions meet the wrap-round
of the identifier. Two places give a partition before, at and behind the one `f_mkfs`
writes and an entry whose error a later one hides; the first reset cuts a format
short, the second meets the boot after it.

Runs that end in a violation, each the counterexample of a finding:

| Run | Finding |
|---|---|
| `transfer_prefix` | `tasks_upgrade.c:169`: a chunk that is a beginning of "update finish" ends the transfer |
| `ethrx_stalltx` | `ethernetif.c:327`: a poll refused by the HAL lock loses the last signal; reception stops |
| `ethtx_bootstrap` | `ethernetif.c:244`: the descriptor is checked before the wait and used after it |
| `storage_format` | `ff.c:2339`: a read error on one partition is forgotten when a later entry can be read, and `fatfs_init` formats over the volume |

Several properties are stated with the case that breaks them set apart, so that they
say exactly how far the code can be trusted:

* `StallsOnlyIfRefused`: without refused polls reception never stops.
* `DoneWasHandled`: a completed message was processed, except that a QoS 0 message may have
  left its identifier in the slot in between (`crossed`), and that of QoS 1 the one message
  in the slot may still be to process (`BeingProcessed`): `mqttclient.c:459` sends the PUBACK,
  line 462 processes. While the device runs that window closes; a reset inside it would
  lose a message the broker counts as delivered, and no reset is modelled there.
* `FramingFaithful` speaks of connections on which no packet is larger than the buffer.
* `FormatsOnlyAfterForgottenError`, `HalfFormattedOnlyIfCut` and `RunsOnFirstVolume`
  name the failed reads, the cut format and the overwritten error that they need.
* `CardHoldsBeginning` and `ImplementsTransfer` are checked for images that have the
  word "update " at the end, if at all (`UpdateOnlyAtEnd`), and nowhere the word "start:"
  (`NoStart`); `MCUpgradeTransfer` assumes so of the images of its runs, and section 5
  says what each hypothesis is needed for (see also section 4, `tasks_upgrade.c:58`).

**Deadlock** is checked in `upgrade_all`, `transfer_live` and `transfer_prefix`. It is
off where the system may stop: in `transfer_safety` task and server both wait forever
after a size mismatch (there is no reply and no time-out, `tasks_upgrade.c:240`); in the
Ethernet runs the frames are bounded; in `mqtt_all` the connections are bounded, and a
broker that falls silent after taking the CONNECT blocks the client forever
(`mqttclient.c:97`); in the storage and start-up runs the boot ends or halts in
`fatfs_init`'s `while(1)`, in the assertion of `vTaskStartScheduler()` when there is no memory
for the idle task, or with the first task started.

**Fairness.** All of it is weak fairness.

* `transfer_live`: the task runs whenever it is ready and the server goes on;
  connections drop and the device is reset finitely often.
* `ethrx_all`: interrupts are served, ready threads of one priority share the
  processor, a sender leaves the HAL; no frame has to arrive.
* `ethtx_locked`: a thread inside `low_level_output` goes on; the DMA need not.
* `mqtt_all`: the client task runs and its timers fire, TCP gives up on data it cannot
  deliver, and a broker that is reached reads; it need not answer.
* `storage_all`: `main()` runs alone before the scheduler; resets stop (they are
  bounded), and the card need not work.
* `startup_boot`: `main()` runs, and the timer of SysTick counts, which is of use only while
  the interrupt is not masked: with the priority that `HAL_Init` sets (the mutant of
  `SysTickPriority`) the property fails under the same fairness.

## 4. Findings

The four runs above are the disagreements between the code and its own comments that
the models exhibit; `PROJECT.json` quotes the comments. Further observations that no
run states, because nothing in the repository promises otherwise or the model already
takes them into account, are among the hazards:

* `tasks_upgrade.c:58`: the start command is compared over 13 characters whatever the
  length of the packet, so a shorter packet is compared with what an earlier one left
  in `packet_buffer`. Behind a start packet the chunk "u" is another start: an image
  with a "u" in its middle may end up on the card without what stands before it.
* `tasks_upgrade.c:269`: an oversized packet is not skipped, as the comment at line 272
  has it; its body is parsed as headers.
* `mqttclient.c:147` drops a healthy connection when a message precedes the PINGRESP;
  `mqttclient.c:201` cannot subscribe again after 65,536 subscriptions; `mqttclient.c:318`
  waits for a PUBREC under a comment that says PUBCOMP (no caller publishes at QoS 2).
* `tasks.c:1886` says that interrupts are off while the scheduler starts, "to ensure a tick
  does not occur". SysTick has priority 0 then (`init.c:197`), which BASEPRI does not mask, so
  a tick may occur until the port lowers its priority (`port.c:398`). `startup_boot` shows
  that it does no harm, because no two tasks of the table share the highest priority.
  The same priority is why `HAL_Delay` works between `elog_init` and the first task.
* `tasks_mqtt.c:172`: the send task publishes before the CONNECT; the broker hangs up and
  the client starts again.
* The `LwIP` tree never links the driver of FatFs, and `upgrade_task` is commented out
  of its task table (`tasks_init.c:59-66`): the download is modelled as written.

## 5. Proofs

Each `_proofs` module proves, for every value of the constants that satisfies the named
assumptions of its component module, the type invariant and the safety properties the
runs check. The assumptions are what a configuration obviously has: positive sizes,
bounds in `Nat`, byte values inside the alphabet, finite sets of threads or partition
starts, and (`LengthAssumption`) a packet buffer whose size fits the four header bytes.
`UpgradeTransfer` adds what its server is (`ServerAssumption`): sizes of one digit, packets
no larger than the buffer, and command words that differ from each other and the digits.

| Module | Theorems (properties) |
|---|---|
| `Upgrade_proofs` | `TypeCorrect` (`TypeOK`), `ParserStaysInBounds` (`CopiesInBounds`), `CountsMatch` (`CountMatchesFile`), `FileIsOpen` (`WritesGoToOpenFile`), `FinishIsWhole` (`FinishMeansWholeFile`), `FinishStays` (`FinishIsFinal`, an action property) |
| `Framing_proofs` | `PacketsArrive` (`FramingFaithful`) |
| `UpgradeTransfer_proofs` | `TransferIsPromised` (`ImplementsTransfer`, the refinement), `CardIsBeginning` (`CardHoldsBeginning`), `SizeIsAnnounced` (`AnnouncedSize`), `ChunksAreData` (`ChunkKeepsReceiving`), each for the images its hypotheses name |
| `Storage_proofs` | `TypeCorrect`, `FormatsOnlyWhatItCouldNotRead` (`FormatsOnlyAfterForgottenError`), `FormatsAreWhole` (`HalfFormattedOnlyIfCut`), `ApplicationVolume` (`RunsOnFirstVolume`) |
| `MqttClient_proofs` | `TypeCorrect`, `NoSocketLeaks` (`OneSocket`), `ServesSubscribed` (`SubscribedWhileServing`), `ProcessedOnce` (`HandledOnce`), `AcknowledgedWasProcessed` (`DoneWasHandled`) |
| `EthTx_proofs` | `TypeCorrect`, `CopiesToFreeBuffers` (`CopyToFreeBuffer`), `FramesStayIntact` (`FramesIntact`), `NobodyBlocks` (`SemaphoreFree`), `TransmissionIsQueue` (`OutputIsQueue`, the refinement), all but the first if every sender holds the core lock |
| `Startup_proofs` | `SectionsBalance` (`BootTypeOK`), `TicksAreHarmless` (`NoSwitchBeforeFirstTask`) |
| `EthRx_proofs` | `TypeCorrect`, `SectionsBalance` (`CriticalBalanced`), `NoPbufLeaks` (`PbufsAccounted`), `RingAgrees` (`RingContiguous`), `FramesInOrder` (`InOrder`), `SignalsSuffice` (`StallsOnlyIfRefused`), `ReceptionIsQueue` (`InputIsQueue`, the refinement) |

The arguments, each one inductive invariant:

* **Upgrade**: `IInv == TransferType /\ ParserType /\ CopiesInBounds /\ Counts`. `TypeOK`
  alone is not inductive: `Overwrite` keeps the size of its target only when the copy
  ends inside it, which is `CopiesInBounds`; that needs the types of the lengths.
  `CountMatchesFile` needs `WritesGoToOpenFile` and the state machine to know that a start
  empties the file; `FinishCounts` connects the comparison of two counters to the size
  of the file. `FinishIsFinal` also uses that FINISH_RECEIVED is only seen while a
  segment is being parsed.
* **Framing**: `FramingFaithful` says nothing of a packet that is half parsed. `Framing`
  gives every frame its place in the stream of the connection (`start`), says that the
  unread bytes of segment and wire are the stream from the task's position (`Read`) to
  its end (`Pending`), and that `packet_length` and `packet_buffer` hold the beginning of
  the frame in hand (`InHand`). A parser step moves the position by the bytes it took
  (`PendingShift`), `netconn_recv` moves nothing, a packet of the peer extends the end.
  That the four header bytes spell the length again is `HeaderSpellsLength`, from
  division by products (`DivDiv`).
* **Transfer**: `Delivery` is `IInv` and `Framing` again, now for a server that sends any
  packet that fits (`ServerSends`), with resets, so a packet handed over is one the server
  sent. A function `cut` says how many bytes of the image the packets of the connection
  have carried (`Served`: announcement, chunks, finish), which makes the packet in hand
  an announcement, a chunk between two cuts or the finish command (`PacketKinds`), and a
  step of the parser's body half one of four outcomes (`ParseDataOutcome`). `Along` is the
  invariant about the file: it is a beginning of the image and, while a transfer is on,
  either as long as the cut of the packets handled, or a write failed or fell short (the
  error sticks, so nothing is appended behind a gap), or the image is at its end.
  `SizeInBuffer` keeps the announced size behind every start command that is still in
  `packet_buffer`, `StaysOn` ties `upgrade_state` to the number of packets handled.
  The refinement then has one lemma (`TransferRefines`): a start is `Begin`, a written chunk
  `Extend`, a finish command `Complete` or `Leave`, a reset `Crash`, the rest stutters;
  `FinishIsImage` is why `Complete` may say that the file is the image.
  The hypotheses are the weakest the argument found. `UpdateOnlyAtEnd`: a chunk that
  begins with the word "update " while the task is idle may be taken for a start command
  (section 4), and only at the end of an image does that lose nothing. `NoStart`: a chunk with
  "start:" in second place leaves bytes of the image where the size is expected; after a
  failed `f_open` a last chunk "u" starts a transfer of that size, even 0, and an empty
  file counts as whole. `NoUpdate` is needed for `ChunksAreData`, whose violation without
  it is the finding of `transfer_prefix`.
* **Numbers**: what `Atoi` computes is recursive over its text. The facts the transfer needs
  (`AtoiFacts`: the value is a number, at least its first digit, and just that when no
  digit follows) are proved by induction over a set of numbers (`Induction`, from the least
  element of `Least`), which needs no theorem with an operator parameter.
* **Storage**: how far the boot is (`Progress`), what the search knows of the entries it
  passed (`Search`), what `f_mkfs` has written (`Remount`), and that volumes which can be
  mounted are whole unless a format was cut (`Whole`).
* **MQTT**: `HandledOnce` and `DoneWasHandled` say nothing of packets under way. `Ids`,
  `SlotWaits`, `Fresh` and `Acks` say which packets may meet which slot: a PUBLISH under way
  is the only trace of its message, a valid slot waits to be processed, and only what was
  processed (or crossed), or is about to be (`Known`), is acknowledged.
  `Granting` does the same for the SUBACK.
* **EthTx**: the core lock makes the callers of `low_level_output` exclude each other
  (`Alone`), so both reads of `heth.TxDesc` find the same descriptor, and it is still the one
  used after the wait (`OwnDescriptor`). The counterexample of `ethtx_bootstrap` is the step that fails
  without the assumption. `Semaphore` follows `ousem` through a call: created before its
  first use, given whenever a call is about to take it, given back at the end of every
  path. For the refinement, `RingOrder` says that the DMA owns the consecutive
  descriptors from its own to `heth.TxDesc` and their frames ascend, `Newest` that the frame
  of the call under way is younger than all of them; so a call enters a frame, a refused
  call loses it, giving the descriptor away is a stutter, and what the DMA sends is
  the oldest under way.
* **Boot**: a tick asks for a switch only if two ready tasks share a priority; the tasks are
  a beginning of the table with the idle task behind, so the priorities descend
  (`Descending`, `Created`). The count comes back from each critical section as it was
  (`SectionKeepsCount`), whatever `Unset` is.
* **EthRx**: types and the balance of the critical section need each other, and the
  bound on the free pbufs needs their account. The ring is cut open at descriptor 0
  (`Layout`), where a step of the DMA or of ETHIN changes one end of the window of filled
  descriptors; frames are numbered on arrival (`Arrived`), and ascend from mailbox to
  thread to ring (`InOrder`, stated pairwise). `StallsOnlyIfRefused` assumes a temporal
  formula but is no liveness property: `Signals` is kept by every step that starts without
  a refused poll, because a ring that fills while ETHIN is away from it was filled by a
  frame whose signal is still there, and `PTL` does the rest. In the refinement of
  `FrameChannel` the frames under way are those of ring, hand and mailbox; an arrival
  accepts or loses one, a missing pbuf or mailbox entry loses one, `tcpip_thread` takes the
  oldest, and moves between the places are stutters because no two frames are equal.

Only model-checked: the liveness properties (`ImageDelivered`, `EveryFrameDelivered`,
`OutputReturns`, `LostLinkNoticed`, `GoodCardBoots`,
`MountInitialisesCard`), since liveness and `ENABLED` are
outside what the prover does. The safety they rest on is proved where it can be told apart:
`NobodyBlocks` is why a call of `low_level_output` returns, `SignalsSuffice` why frames in a
full ring are fetched, and `TransferIsPromised` why a transfer that ends well has delivered
the image. Every invariant, action property and refinement of a passing run is a theorem.

## 6. Not modelled

* vendored code (FreeRTOS, lwIP, FatFs, HAL, CMSIS, Paho, cJSON, EasyLogger,
  CmBacktrace), except where the code above depends on what it does. It is nearly all of
  the repository's lines (device headers, code pages, protocol stacks), which is why the
  share of lines the models cover is small although every part with the projects' own
  control logic has a module;
* commands, DMA and time-outs inside one SDIO transfer;
* the chaining of descriptors for frames larger than a buffer, PHY and link changes;
* publishing at QoS 1 and 2 (no caller), sizes of MQTT packets and short reads of one;
* lock and output of the logger, and logging from interrupts;
* the semaphores, mailboxes and the thread registry of `sys_arch.c` as a module of their
  own: `EthRx` and `EthTx` use them as atomic steps;
* LCD, LED, UART, touch panel, DHT11, demonstrations: output or bit timing without
  control state a property could be about;
* `LwIP/User/{arch,eth}`: older copies of the driver files of `App`.

## 7. Plan

What is left, in this order:

1. `SysArch`: semaphores, mailboxes and `TCPIP_Init` over FreeRTOS queues; `EthRx` and
   `EthTx` would use its operations.
2. `MqttStream`: packets in a byte stream with short reads and sizes (`MQTTPacket_read`),
   beside `MqttClient`.
3. Pure algorithms as operators checked over bounded inputs: the cycle-counter delay
   with 32-bit wrap-round, the DHT11 checksum.
