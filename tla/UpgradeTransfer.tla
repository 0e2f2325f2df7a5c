-------------------------- MODULE UpgradeTransfer --------------------------
(***************************************************************************)
(* upgrade_task talking to a server that follows the protocol: on every    *)
(* connection it announces the size of its image, sends the image in       *)
(* chunks and then the finish command.  The server is not in the           *)
(* repository; it is what the comments and handlers of tasks_upgrade.c     *)
(* expect.  It gets no acknowledgement, so it starts over on every         *)
(* connection.  The connection may be lost at any moment, MaxDrops times,  *)
(* and the device may be reset at any moment, MaxResets times.             *)
(***************************************************************************)
EXTENDS Upgrade

CONSTANTS
  Images,         \* the firmware images the server may hold
  MaxChunk,       \* bytes of the image in one packet
  NulTerminated,  \* whether the announcement ends with a NUL byte
  MaxDrops,       \* bound: connections lost
  MaxResets       \* bound: resets of the device

ASSUME ImageAssumption == /\ Images \subseteq Seq(Byte)
                          /\ NulTerminated \in BOOLEAN
                          /\ MaxChunk \in Nat \ {0}
                          /\ MaxDrops \in Nat /\ MaxResets \in Nat
\* A size is one digit, no packet of the server is larger than packet_buffer,
\* and the words of the commands differ from each other and from the digits.
ASSUME ServerAssumption == /\ \A i \in Images : Len(i) \in Digits
                           /\ 4 <= BufSize /\ MaxChunk <= BufSize
                           /\ NUL \notin Digits /\ S # F

VARIABLES
  image,   \* the image the server holds
  stage,   \* what the server does next: "start", "data" or "quiet"
  left,    \* the part of the image not sent on this connection
  drops,   \* connections lost so far
  resets   \* resets of the device so far

serverVars == <<image, stage, left>>
faultVars  == <<drops, resets>>
allVars == <<vars, serverVars, faultVars>>

\* "update start:" and the decimal size, for images shorter than ten bytes.
Announcement(n) == StartCommand \o <<n>> \o (IF NulTerminated THEN <<NUL>> ELSE << >>)

TransferInit ==
  /\ Init
  /\ image \in Images /\ stage = "quiet" /\ left = << >>
  /\ drops = 0 /\ resets = 0

\* The task connects and the server begins the protocol from its first step.
NewSession ==
  /\ Connect
  /\ stage' = "start" /\ left' = image /\ UNCHANGED <<image, faultVars>>

SendStart ==
  /\ stage = "start" /\ PeerSend(Announcement(Len(image)))
  /\ stage' = "data" /\ UNCHANGED <<image, left, faultVars>>

SendChunk ==
  /\ stage = "data" /\ left # << >>
  /\ \E k \in 1 .. AtMost(MaxChunk, Len(left)) :
       PeerSend(SubSeq(left, 1, k)) /\ left' = Drop(left, k)
  /\ UNCHANGED <<image, stage, faultVars>>

SendFinish ==
  /\ stage = "data" /\ left = << >> /\ PeerSend(FinishCommand)
  /\ stage' = "quiet" /\ UNCHANGED <<image, left, faultVars>>

\* The connection is lost, before or after the bytes in flight.
Drops ==
  /\ drops < MaxDrops /\ drops' = drops + 1
  /\ \E how \in {"closed", "reset"} : PeerStop(how)
  /\ UNCHANGED <<serverVars, resets>>

\* The device is reset, a power failure included: of everything the task knows
\* only the card is left, and the directory entry of a file that was not
\* closed says nothing of the bytes written to it.
DeviceReset ==
  /\ resets < MaxResets /\ resets' = resets + 1
  /\ pc' = "connect" /\ peer' = "closed" /\ wire' = << >> /\ seg' = << >>
  /\ upgrade_state' = "IDLE" /\ total_firmware_size' = 0 /\ received_size' = 0
  /\ parse_state' = "HEADER" /\ packet_length' = ZeroLength /\ packet_received' = 0
  /\ packet_buffer' = [i \in 1..BufSize |-> 0]
  /\ file' = << >> /\ file_open' = FALSE /\ file_err' = FALSE /\ disk_full' = FALSE
  /\ sent' = << >> /\ handled' = << >>
  /\ UNCHANGED <<card, serverVars, drops>>

TaskStep ==
  \/ NewSession
  \/ /\ \/ RecvError \/ ParseHeader \/ ParseData \/ SegmentDone \/ Cleanup
        \/ \E n \in Segments : Recv(n)
     /\ UNCHANGED <<serverVars, faultVars>>

ServerStep == SendStart \/ SendChunk \/ SendFinish

TransferNext == TaskStep \/ ServerStep \/ Drops \/ DeviceReset

TransferSpec == TransferInit /\ [][TransferNext]_allVars

\* The scheduler runs upgrade_task whenever it is ready (it is the only task
\* of its priority that does not block), and the server goes on while the
\* connection lives.  Nothing makes a connection drop or the device reset.
FairTransferSpec ==
  TransferSpec /\ WF_allVars(TaskStep) /\ WF_allVars(ServerStep)

-----------------------------------------------------------------------------
\* upgrade_task implements FirmwareTransfer: whatever TCP, the connection and
\* the card do, firmware.bin only ever grows along the image of the server,
\* and FINISH_RECEIVED is reported only when it holds all of it.
Promise == INSTANCE FirmwareTransfer WITH
             phase  <- CASE upgrade_state = "IDLE" -> "none"
                         [] upgrade_state = "FINISH_RECEIVED" -> "done"
                         [] OTHER -> "receiving",
             stored <- file

ImplementsTransfer == Promise!Spec

\* The size in force during a transfer is the size the server announced.
AnnouncedSize == Transferring => total_firmware_size = Len(image)

\* A packet with image bytes is treated as data: after it, and until the
\* finish command or the loss of the connection, the transfer is still on.
LastHandledIsData ==
  Len(handled) > 1 /\ (Len(handled) < Len(sent) \/ stage = "data")

ChunkKeepsReceiving ==
  LastHandledIsData /\ pc \in {"recv", "parse"} => upgrade_state = "RECEIVING_DATA"

\* The word "update " stands at the end of an image, if at all; the word
\* "start:" and the word "update " stand nowhere in one.
UpdateOnlyAtEnd == \A m \in Images : \A i \in 1 .. Len(m) - 1 : m[i] # U
NoStart         == \A m \in Images : \A i \in 1 .. Len(m) : m[i] # S
NoUpdate        == \A m \in Images : \A i \in 1 .. Len(m) : m[i] # U

\* What a reboot finds under the name firmware.bin, when the file was closed,
\* is a beginning of the image, however many transfers, lost connections,
\* failed or short writes and resets it took: never bytes of two transfers.
\* This holds for images whose chunks cannot be taken for a command: a "u"
\* stands at the end of the image, if at all.  handle_upgrade_start compares
\* thirteen characters whatever the packet's length, so behind an earlier
\* start packet in packet_buffer a chunk "u" restarts the transfer.
CardHoldsBeginning == card.closed => IsPrefixOf(card.bytes, image)

\* The connection stops dropping and the device stops being reset some day, so
\* the image is delivered again and again, each time to its end, and closed on
\* the card.
ImageDelivered ==
  []<>(upgrade_state = "FINISH_RECEIVED" /\ card.closed /\ card.bytes = image)
=============================================================================
