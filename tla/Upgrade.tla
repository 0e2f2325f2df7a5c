------------------------------ MODULE Upgrade ------------------------------
(***************************************************************************)
(* upgrade_task of LwIP/User/Tasks/src/tasks_upgrade.c: the task connects  *)
(* to the upgrade server, cuts the TCP byte stream into length-prefixed    *)
(* packets and runs the packets through the state machine IDLE ->          *)
(* START_RECEIVED -> RECEIVING_DATA -> FINISH_RECEIVED, which writes the   *)
(* firmware to 0:/firmware.bin.                                            *)
(*                                                                         *)
(* The peer may send any packets of the set Packets, TCP may cut the       *)
(* stream anywhere, the connection may drop at any moment and, when        *)
(* DiskMayFail, every FatFs call may fail.  Bytes are the numbers          *)
(* 0 .. Base - 1 (Base is 256 in the code); each word of the two text      *)
(* commands is one byte value: "update start:12" is <<U, S, 1, 2>> and     *)
(* "update finish" is <<U, F>>.  A byte of Digits is the digit of its own  *)
(* value.  The u32 counters are natural numbers: they never get near 2^32. *)
(***************************************************************************)
EXTENDS Integers, Sequences

CONSTANTS
  Base,         \* number of byte values
  BufSize,      \* sizeof(packet_buffer), 1500 in the code
  NUL, U, S, F, \* the byte values 0, "update ", "start:" and "finish"
  Digits,       \* the byte values that are decimal digits
  Packets,      \* the packets the peer may send
  MaxPackets,   \* bound: packets sent on one connection
  Segments,     \* the numbers of bytes one netconn_recv may return
  MaxInFlight,  \* bound: bytes the peer sends ahead of the task
  DiskMayFail   \* whether f_mount, f_open, f_write and f_close may fail

Byte == 0 .. Base - 1

ASSUME BaseAssumption   == Base \in Nat \ {0}
ASSUME BufferAssumption == BufSize \in Nat \ {0}
ASSUME CodesAssumption  == {NUL, U, S, F} \cup Digits \subseteq Byte
ASSUME PacketAssumption == Packets \subseteq Seq(Byte)
\* The length of every packet that fits the buffer fits the four header bytes.
ASSUME LengthAssumption == BufSize < Base * Base * Base * Base
ASSUME SegmentAssumption == Segments \subseteq Nat \ {0}
ASSUME DiskAssumption   == DiskMayFail \in BOOLEAN

VARIABLES
  pc,                  \* where upgrade_task is: "connect", "recv", "parse", "cleanup"
  upgrade_state,
  total_firmware_size,
  received_size,
  parse_state,
  packet_length,       \* the four bytes of the u32, least significant first
  packet_received,
  packet_buffer,
  seg,                 \* current_data[0 .. remaining_len - 1] of the netbuf in hand
  wire,                \* bytes of this connection the task has not received yet
  peer,                \* "open", "closed" (FIN) or "reset"
  file,                \* the bytes FatFs counts in firmware_file (fsize of them)
  file_open,           \* firmware_file.fs # 0
  file_err,            \* firmware_file.err, set by ABORT
  disk_full,           \* f_write ran out of clusters since the last f_open
  card,                \* firmware.bin as a reboot would find it, if it was closed
  sent,                \* history: the packets the peer sent on this connection
  handled              \* history: the packets given to process_received_packet

taskVars == <<upgrade_state, total_firmware_size, received_size>>
fileVars == <<file, file_open, file_err, disk_full, card>>
parseVars == <<parse_state, packet_length, packet_received>>
vars == <<pc, taskVars, parseVars, packet_buffer, seg, wire, peer, fileVars,
          sent, handled>>

NoFile == [closed |-> FALSE, bytes |-> << >>]

(***************************************************************************)
(* Operators of the code                                                   *)
(***************************************************************************)

HeaderLength == 4

\* The u32 that memcpy assembled in packet_length.
LengthOf(b) == b[1] + Base * (b[2] + Base * (b[3] + Base * b[4]))

ZeroLength == [i \in 1..HeaderLength |-> 0]

\* The header the peer puts before a packet of n bytes.
Header(n) == <<n % Base, (n \div Base) % Base,
               (n \div (Base * Base)) % Base, (n \div (Base * Base * Base)) % Base>>

Encode(p) == Header(Len(p)) \o p

AtMost(a, b) == IF a <= b THEN a ELSE b

\* Mutant of ToCopy: everything received is copied, needed or not.
CopyAll(remaining, needed) == remaining

\* to_copy of the parser.
ToCopy(remaining, needed) == AtMost(remaining, needed)

\* Mutant of Overwrite: the copy starts at dst instead of dst + off.
OverwriteStart(dst, off, src, k) ==
  [i \in DOMAIN dst |-> IF i <= k THEN src[i] ELSE dst[i]]

\* memcpy(dst + off, src, k); a copy past the end of dst makes it longer.
Overwrite(dst, off, src, k) ==
  [i \in DOMAIN dst \cup off + 1 .. off + k |->
     IF i > off /\ i <= off + k THEN src[i - off] ELSE dst[i]]

Drop(s, k) == SubSeq(s, k + 1, Len(s))

\* Mutant of Oversized: the bound is off by one.
OversizedByTwo(len) == LengthOf(len) > BufSize + 1

\* The size check of the parser.
Oversized(len) == LengthOf(len) > BufSize

\* strncmp(data, text, n) == 0 for a NUL-terminated text of non-NUL bytes.
Matches(data, text, n) ==
  \A i \in 1 .. AtMost(n, Len(text) + 1) : data[i] = Append(text, NUL)[i]

StartCommand  == <<U, S>>
FinishCommand == <<U, F>>

IsStart(data) == Matches(data, StartCommand, Len(StartCommand))

\* Mutant of IsFinish: "== 0" is missing behind strncmp.
IsNotFinish(data, n) == ~Matches(data, FinishCommand, n)

IsFinish(data, n) == Matches(data, FinishCommand, n)

\* Mutant of SizeField: one character too many is skipped.
SizeFieldShifted(data) == Drop(data, Len(StartCommand) + 1)

\* The text behind "update start:".
SizeField(data) == Drop(data, Len(StartCommand))

\* The number of leading digits of s, and atoi(s).
DigitRun(s) == CHOOSE n \in 0 .. Len(s) :
                 /\ \A i \in 1 .. n : s[i] \in Digits
                 /\ n < Len(s) => s[n + 1] \notin Digits

Atoi(s) == LET value[n \in 0 .. Len(s)] ==
                 IF n = 0 THEN 0 ELSE 10 * value[n - 1] + s[n]
           IN  value[DigitRun(s)]

(***************************************************************************)
(* FatFs, as the task uses it                                              *)
(***************************************************************************)

\* Mutant of FileCreated: what an earlier transfer wrote is kept and continued.
FileContinued ==
  /\ file_open' = TRUE /\ file_err' = FALSE /\ disk_full' = FALSE
  /\ card' = NoFile /\ UNCHANGED file

\* f_open(FA_WRITE | FA_CREATE_ALWAYS) succeeds: an empty file, clusters freed.
FileCreated ==
  /\ file' = << >> /\ file_open' = TRUE /\ file_err' = FALSE
  /\ disk_full' = FALSE /\ card' = NoFile

\* f_open clears firmware_file.fs first, so a failed f_open leaves it closed;
\* the old file may be truncated by then.
FileNotOpened ==
  /\ file_open' = FALSE /\ card' \in {card, NoFile}
  /\ UNCHANGED <<file, file_err, disk_full>>

\* f_write returns FR_OK and bytes_written = k; fewer than asked: disk full.
FileWrote(data, n, k) ==
  /\ ~file_err
  /\ k = n => ~disk_full
  /\ k < n => DiskMayFail
  /\ disk_full => k = 0
  /\ file' = file \o SubSeq(data, 1, k)
  /\ disk_full' = (disk_full \/ k < n)
  /\ UNCHANGED <<file_open, file_err, card>>

\* f_write returns an error; the error sticks to the file object.
FileWriteFailed ==
  /\ DiskMayFail \/ file_err
  /\ file_err' = TRUE
  /\ UNCHANGED <<file, file_open, disk_full, card>>

\* Mutant of FileClosed: f_close is not called.
FileLeftOpen == UNCHANGED fileVars

\* f_close, with its result ignored: only when f_sync succeeds does the
\* directory entry on the card get the size and first cluster of the file.
FileClosed ==
  \/ /\ card' = [closed |-> TRUE, bytes |-> file]
     /\ file_open' = FALSE
     /\ UNCHANGED <<file, file_err, disk_full>>
  \/ /\ DiskMayFail
     /\ UNCHANGED fileVars

(***************************************************************************)
(* The packet handlers                                                     *)
(***************************************************************************)

\* handle_upgrade_start; past is what lies behind packet_buffer in memory.
handle_upgrade_start(data) ==
  IF IsStart(data)
  THEN \E past \in Digits \cup {NUL} :
         LET size == Atoi(Append(SizeField(data), past))
         IN  /\ size \in Nat
             /\ total_firmware_size' = size
             /\ received_size' = 0
             /\ \/ DiskMayFail /\ UNCHANGED <<upgrade_state, fileVars>>  \* f_mount
                \/ DiskMayFail /\ FileNotOpened /\ UNCHANGED upgrade_state
                \/ FileCreated /\ upgrade_state' = "START_RECEIVED"
  ELSE UNCHANGED <<taskVars, fileVars>>

\* Mutant of SizeAfter: the bytes count although f_write was cut short.
SizeAfterAny(n, k) == received_size + n

\* received_size after an f_write of n bytes that wrote k.
SizeAfter(n, k) == IF k = n THEN received_size + n ELSE received_size

handle_upgrade_data(data, n) ==
  /\ UNCHANGED total_firmware_size
  /\ \/ FileWriteFailed /\ UNCHANGED <<upgrade_state, received_size>>
     \/ \E k \in 0 .. n :
          /\ FileWrote(data, n, k)
          /\ received_size' = SizeAfter(n, k)
          /\ upgrade_state' = IF k = n THEN "RECEIVING_DATA" ELSE upgrade_state

\* Mutants of StateAfterFinish: "too few" is the only mismatch, the sizes are
\* not compared at all, and a mismatch does not end the transfer.
StateIfEnough ==
  IF received_size >= total_firmware_size THEN "FINISH_RECEIVED" ELSE "IDLE"
StateUnchecked == "FINISH_RECEIVED"
StateKept ==
  IF received_size = total_firmware_size THEN "FINISH_RECEIVED" ELSE upgrade_state

StateAfterFinish ==
  IF received_size = total_firmware_size THEN "FINISH_RECEIVED" ELSE "IDLE"

handle_upgrade_finish ==
  /\ FileClosed
  /\ upgrade_state' = StateAfterFinish
  /\ UNCHANGED <<total_firmware_size, received_size>>

\* Mutant of Receiving: a finished upgrade still takes packets.
NotIdle == upgrade_state # "IDLE"

\* The states in which a packet is data or the finish command.
Receiving == upgrade_state \in {"START_RECEIVED", "RECEIVING_DATA"}

process_received_packet(data, n) ==
  \/ /\ upgrade_state = "IDLE"
     /\ handle_upgrade_start(data)
  \/ /\ Receiving
     /\ IsFinish(data, n)
     /\ handle_upgrade_finish
  \/ /\ Receiving
     /\ ~IsFinish(data, n)
     /\ handle_upgrade_data(data, n)
  \/ /\ upgrade_state = "FINISH_RECEIVED"
     /\ UNCHANGED <<taskVars, fileVars>>

(***************************************************************************)
(* upgrade_task                                                            *)
(***************************************************************************)

Init ==
  /\ pc = "connect"
  /\ upgrade_state = "IDLE" /\ total_firmware_size = 0 /\ received_size = 0
  /\ parse_state = "HEADER" /\ packet_length = ZeroLength /\ packet_received = 0
  /\ packet_buffer = [i \in 1..BufSize |-> 0]
  /\ seg = << >> /\ wire = << >> /\ peer = "closed"
  /\ file = << >> /\ file_open = FALSE /\ file_err = FALSE
  /\ disk_full = FALSE /\ card = NoFile
  /\ sent = << >> /\ handled = << >>

\* netconn_new and netconn_connect succeeded (their failures only delay the
\* loop).  The parser and upgrade_state are reset; firmware_file of a broken
\* transfer stays open and packet_buffer keeps its old bytes.
Connect ==
  /\ pc = "connect"
  /\ pc' = "recv" /\ peer' = "open" /\ wire' = << >>
  /\ parse_state' = "HEADER" /\ packet_length' = ZeroLength /\ packet_received' = 0
  /\ upgrade_state' = "IDLE"
  /\ sent' = << >> /\ handled' = << >>
  /\ UNCHANGED <<total_firmware_size, received_size, packet_buffer, seg, fileVars>>

\* netconn_recv returned a netbuf of at most n bytes, in a single pbuf, since
\* lwipopts.h sets TCP_QUEUE_OOSEQ to 0 and a pool pbuf holds a whole frame.
Recv(n) ==
  /\ pc = "recv" /\ wire # << >>
  /\ LET k == AtMost(n, Len(wire))
     IN  seg' = SubSeq(wire, 1, k) /\ wire' = Drop(wire, k)
  /\ pc' = "parse"
  /\ UNCHANGED <<taskVars, parseVars, packet_buffer, peer, fileVars, sent, handled>>

\* netconn_recv returned ERR_CLSD (after the last byte) or another error.
RecvError ==
  /\ pc = "recv"
  /\ peer = "reset" \/ (peer = "closed" /\ wire = << >>)
  /\ pc' = "cleanup"
  /\ UNCHANGED <<taskVars, parseVars, packet_buffer, seg, wire, peer, fileVars,
                 sent, handled>>

\* Bytes for the length header; a complete header that announces more than
\* packet_buffer holds is forgotten, and the body that follows it is not.
ParseHeader ==
  /\ pc = "parse" /\ seg # << >> /\ parse_state = "HEADER"
  /\ LET k   == ToCopy(Len(seg), HeaderLength - packet_received)
         len == Overwrite(packet_length, packet_received, seg, k)
     IN  /\ seg' = Drop(seg, k)
         /\ IF packet_received + k < HeaderLength
            THEN /\ packet_received' = packet_received + k
                 /\ packet_length' = len
                 /\ UNCHANGED parse_state
            ELSE /\ packet_received' = 0
                 /\ parse_state' = IF Oversized(len) THEN "HEADER" ELSE "DATA"
                 /\ packet_length' = IF Oversized(len) THEN ZeroLength ELSE len
  /\ UNCHANGED <<pc, taskVars, packet_buffer, wire, peer, fileVars, sent, handled>>

\* Bytes for the body; the last one has the packet processed.
ParseData ==
  /\ pc = "parse" /\ seg # << >> /\ parse_state = "DATA"
  /\ LET n   == LengthOf(packet_length)
         k   == ToCopy(Len(seg), n - packet_received)
         buf == Overwrite(packet_buffer, packet_received, seg, k)
     IN  /\ seg' = Drop(seg, k)
         /\ packet_buffer' = buf
         /\ IF packet_received + k < n
            THEN /\ packet_received' = packet_received + k
                 /\ UNCHANGED <<parse_state, packet_length, taskVars, fileVars, handled>>
            ELSE /\ process_received_packet(buf, n)
                 /\ handled' = Append(handled, SubSeq(buf, 1, n))
                 /\ parse_state' = "HEADER"
                 /\ packet_length' = ZeroLength
                 /\ packet_received' = 0
  /\ UNCHANGED <<pc, wire, peer, sent>>

\* netbuf_delete and the check that ends a receive: after a complete upgrade
\* the task goes back to IDLE and reconnects instead of resetting the board.
SegmentDone ==
  /\ pc = "parse" /\ seg = << >>
  /\ IF upgrade_state = "FINISH_RECEIVED"
     THEN pc' = "cleanup" /\ upgrade_state' = "IDLE"
     ELSE pc' = "recv" /\ UNCHANGED upgrade_state
  /\ UNCHANGED <<total_firmware_size, received_size, parseVars, packet_buffer, seg,
                 wire, peer, fileVars, sent, handled>>

\* netconn_close, netconn_delete and the delay before the next attempt.
Cleanup ==
  /\ pc = "cleanup"
  /\ pc' = "connect" /\ peer' = "closed" /\ wire' = << >>
  /\ UNCHANGED <<taskVars, parseVars, packet_buffer, seg, fileVars, sent, handled>>

Task == \/ Connect \/ RecvError \/ ParseHeader \/ ParseData \/ SegmentDone \/ Cleanup
        \/ \E n \in Segments : Recv(n)

(***************************************************************************)
(* The peer and the network                                                *)
(***************************************************************************)

deviceVars == <<pc, taskVars, parseVars, packet_buffer, seg, fileVars, handled>>

PeerSend(p) ==
  /\ peer = "open" /\ Len(sent) < MaxPackets
  /\ Len(wire) + HeaderLength + Len(p) <= MaxInFlight
  /\ wire' = wire \o Encode(p)
  /\ sent' = Append(sent, p)
  /\ UNCHANGED <<deviceVars, peer>>

\* The peer closes, or the connection is lost with bytes still in flight.
PeerStop(how) ==
  /\ peer = "open"
  /\ peer' = how
  /\ UNCHANGED <<deviceVars, wire, sent>>

Environment == \/ \E p \in Packets : PeerSend(p)
               \/ \E how \in {"closed", "reset"} : PeerStop(how)

Next == Task \/ Environment

Spec == Init /\ [][Next]_vars

-----------------------------------------------------------------------------
(***************************************************************************)
(* Properties                                                              *)
(***************************************************************************)

\* Every variable has its type; in particular no memcpy of the parser makes
\* packet_length or packet_buffer longer than it is.
TypeOK ==
  /\ pc \in {"connect", "recv", "parse", "cleanup"}
  /\ upgrade_state \in {"IDLE", "START_RECEIVED", "RECEIVING_DATA", "FINISH_RECEIVED"}
  /\ total_firmware_size \in Nat /\ received_size \in Nat
  /\ parse_state \in {"HEADER", "DATA"}
  /\ packet_length \in [1..HeaderLength -> Byte]
  /\ packet_received \in Nat
  /\ packet_buffer \in [1..BufSize -> Byte]
  /\ seg \in Seq(Byte) /\ wire \in Seq(Byte)
  /\ peer \in {"open", "closed", "reset"}
  /\ file \in Seq(Byte) /\ file_open \in BOOLEAN /\ file_err \in BOOLEAN
  /\ disk_full \in BOOLEAN
  /\ card \in [closed : BOOLEAN, bytes : Seq(Byte)]
  /\ sent \in Seq(Seq(Byte)) /\ handled \in Seq(Seq(Byte))

\* However TCP cuts the stream and whatever length a header announces, what is
\* still needed of a header or a body is never negative (the code subtracts
\* unsigned numbers) and never more than packet_length or packet_buffer holds.
CopiesInBounds ==
  /\ parse_state = "HEADER" => packet_received < HeaderLength
  /\ parse_state = "DATA" => /\ LengthOf(packet_length) <= BufSize
                             /\ packet_received <= LengthOf(packet_length)

\* As long as the peer sends no packet larger than the buffer, what reaches
\* process_received_packet on a connection is exactly what the peer sent, in
\* order and unaltered, wherever TCP cut the stream.
IsPrefixOf(s, t) == Len(s) <= Len(t) /\ s = SubSeq(t, 1, Len(s))

FramingFaithful ==
  (\A i \in 1 .. Len(sent) : Len(sent[i]) <= BufSize) => IsPrefixOf(handled, sent)

\* received_size counts the bytes of the file as long as the volume did not
\* fill up, and never more than the file has, while a transfer is on.
Transferring == upgrade_state # "IDLE"

CountMatchesFile ==
  Transferring => /\ received_size <= Len(file)
                  /\ ~disk_full => received_size = Len(file)

\* FINISH_RECEIVED is reported only for a file that has the announced size
\* (the code compares two counters: that they are the file's size is shown).
FinishMeansWholeFile ==
  upgrade_state = "FINISH_RECEIVED" /\ ~disk_full => Len(file) = total_firmware_size

\* While packets are being written, firmware_file is open.
WritesGoToOpenFile ==
  upgrade_state \in {"START_RECEIVED", "RECEIVING_DATA"} => file_open

\* A finished upgrade is final for its connection: only the reset of the task
\* takes FINISH_RECEIVED away, and no later packet touches the file.
FinishIsFinal ==
  [][upgrade_state = "FINISH_RECEIVED" =>
       /\ upgrade_state' \in {"FINISH_RECEIVED", "IDLE"}
       /\ upgrade_state' = "IDLE" => pc' = "cleanup"
       /\ UNCHANGED <<file, card, received_size>>]_vars
=============================================================================
