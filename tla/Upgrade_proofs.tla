--------------------------- MODULE Upgrade_proofs ---------------------------
(***************************************************************************)
(* Theorems about Upgrade for every buffer size, byte alphabet, packet set *)
(* and segmentation.                                                       *)
(***************************************************************************)
EXTENDS Upgrade, SequenceTheorems, TLAPS

(***************************************************************************)
(* Operators                                                               *)
(***************************************************************************)

\* A memcpy that ends within its target keeps the target's length and bytes.
LEMMA OverwriteType ==
  ASSUME NEW n \in Nat, NEW dst \in [1..n -> Byte], NEW src \in Seq(Byte),
         NEW off \in Nat, NEW k \in Nat, k <= Len(src), off + k <= n
  PROVE  Overwrite(dst, off, src, k) \in [1..n -> Byte]
<1>1. DOMAIN dst \cup off + 1 .. off + k = 1..n
  OBVIOUS
<1>2. ASSUME NEW i \in 1..n, i > off, i <= off + k
      PROVE  src[i - off] \in Byte
  <2>1. i - off \in 1 .. Len(src)
    BY <1>2
  <2>2. QED
    BY <2>1
<1>3. ASSUME NEW i \in 1..n
      PROVE  dst[i] \in Byte
  BY <1>3
<1>4. QED
  BY <1>1, <1>2, <1>3 DEF Overwrite

\* What is left of a byte sequence is a byte sequence, of the length left.
LEMMA DropType ==
  ASSUME NEW s \in Seq(Byte), NEW k \in 0 .. Len(s)
  PROVE  Drop(s, k) \in Seq(Byte) /\ Len(Drop(s, k)) = Len(s) - k
<1>1. \A i \in k + 1 .. Len(s) : s[i] \in Byte
  OBVIOUS
<1>2. QED
  BY <1>1, SubSeqProperties, SMTT(30) DEF Drop

\* A beginning of a byte sequence is a byte sequence.
LEMMA PrefixType ==
  ASSUME NEW s \in Seq(Byte), NEW k \in 0 .. Len(s)
  PROVE  SubSeq(s, 1, k) \in Seq(Byte) /\ Len(SubSeq(s, 1, k)) = k
OBVIOUS

\* The smaller of two numbers is at most either.
LEMMA AtMostType ==
  ASSUME NEW a \in Nat, NEW b \in Nat
  PROVE  AtMost(a, b) \in Nat /\ AtMost(a, b) <= a /\ AtMost(a, b) <= b
BY DEF AtMost

\* The length of a packet is a natural number, and zero after a reset.
LEMMA LengthOfType ==
  ASSUME NEW b \in [1..HeaderLength -> Byte]
  PROVE  LengthOf(b) \in Nat
<1>1. b[1] \in Nat /\ b[2] \in Nat /\ b[3] \in Nat /\ b[4] \in Nat
  BY BaseAssumption DEF HeaderLength, Byte
<1>2. \A x, y \in Nat : x + Base * y \in Nat
  BY BaseAssumption
<1>3. b[3] + Base * b[4] \in Nat
  BY <1>1, <1>2, Zenon
<1>4. b[2] + Base * (b[3] + Base * b[4]) \in Nat
  BY <1>1, <1>2, <1>3, Zenon
<1>5. b[1] + Base * (b[2] + Base * (b[3] + Base * b[4])) \in Nat
  BY <1>1, <1>2, <1>4, Zenon
<1>6. QED
  BY <1>5 DEF LengthOf

\* The header of a packet consists of four bytes.
LEMMA HeaderType ==
  ASSUME NEW n \in Nat
  PROVE  Header(n) \in Seq(Byte) /\ Len(Header(n)) = HeaderLength
<1>1. \A m \in Int : m % Base \in Byte
  BY BaseAssumption DEF Byte
<1>2. n \div Base \in Int
  BY BaseAssumption
<1>3. Base * Base \in Nat \ {0} /\ Base * Base * Base \in Nat \ {0}
  BY BaseAssumption
<1>4. n \div (Base * Base) \in Int /\ n \div (Base * Base * Base) \in Int
  BY <1>3
<1>5. QED
  BY <1>1, <1>2, <1>4 DEF Header, HeaderLength

-----------------------------------------------------------------------------
(***************************************************************************)
(* The inductive invariant.  The counters alone do not say why a finished  *)
(* file has the announced size: what carries it is that every byte counted *)
(* in received_size was appended to the file, that a cut-short write marks *)
(* the volume full, and that FINISH_RECEIVED is entered on equal counters. *)
(***************************************************************************)
FinishCounts ==
  upgrade_state = "FINISH_RECEIVED" => received_size = total_firmware_size

Counts == CountMatchesFile /\ WritesGoToOpenFile /\ FinishCounts

TransferType ==
  /\ upgrade_state \in {"IDLE", "START_RECEIVED", "RECEIVING_DATA", "FINISH_RECEIVED"}
  /\ total_firmware_size \in Nat /\ received_size \in Nat
  /\ file \in Seq(Byte) /\ file_open \in BOOLEAN /\ file_err \in BOOLEAN
  /\ disk_full \in BOOLEAN
  /\ card \in [closed : BOOLEAN, bytes : Seq(Byte)]

ParserType ==
  /\ pc \in {"connect", "recv", "parse", "cleanup"}
  /\ parse_state \in {"HEADER", "DATA"}
  /\ packet_length \in [1..HeaderLength -> Byte]
  /\ packet_received \in Nat
  /\ packet_buffer \in [1..BufSize -> Byte]
  /\ seg \in Seq(Byte) /\ wire \in Seq(Byte)
  /\ peer \in {"open", "closed", "reset"}
  /\ sent \in Seq(Seq(Byte)) /\ handled \in Seq(Seq(Byte))

IInv == TransferType /\ ParserType /\ CopiesInBounds /\ Counts

\* The types of the transfer and those of the parser make up TypeOK.
LEMMA TypeSplit == TypeOK <=> TransferType /\ ParserType
BY DEF TypeOK, TransferType, ParserType

\* Whatever a packet holds and whatever FatFs answers, the handlers keep the
\* types and the accounting.
LEMMA ProcessKeepsCounts ==
  ASSUME TransferType, Counts,
         NEW data \in [1..BufSize -> Byte], NEW n \in 0 .. BufSize,
         process_received_packet(data, n)
  PROVE  TransferType' /\ Counts'
<1> USE DEF TransferType, Counts, CountMatchesFile, Transferring,
            WritesGoToOpenFile, FinishCounts, Receiving
<1>1. CASE upgrade_state = "IDLE" /\ handle_upgrade_start(data)
  <2>1. CASE UNCHANGED <<taskVars, fileVars>>
    BY <1>1, <2>1 DEF taskVars, fileVars
  <2>2. CASE ~UNCHANGED <<taskVars, fileVars>>
    <3>1. PICK size \in Nat :
            /\ total_firmware_size' = size /\ received_size' = 0
            /\ \/ UNCHANGED <<upgrade_state, fileVars>>
               \/ FileNotOpened /\ UNCHANGED upgrade_state
               \/ FileCreated /\ upgrade_state' = "START_RECEIVED"
      BY <1>1, <2>2 DEF handle_upgrade_start
    <3>2. CASE UNCHANGED <<upgrade_state, fileVars>>
      BY <1>1, <3>1, <3>2 DEF fileVars
    <3>3. CASE FileNotOpened /\ UNCHANGED upgrade_state
      <4>1. /\ card' \in {card, NoFile} /\ file_open' = FALSE
            /\ UNCHANGED <<file, file_err, disk_full, upgrade_state>>
        BY <3>3 DEF FileNotOpened
      <4>2. NoFile \in [closed : BOOLEAN, bytes : Seq(Byte)]
        BY DEF NoFile
      <4>3. card' \in [closed : BOOLEAN, bytes : Seq(Byte)]
        BY <4>1, <4>2
      <4>4. QED
        BY <1>1, <3>1, <4>1, <4>3
    <3>4. CASE FileCreated /\ upgrade_state' = "START_RECEIVED"
      <4>1. /\ file' = << >> /\ file_open' = TRUE /\ file_err' = FALSE
            /\ disk_full' = FALSE /\ card' = NoFile
        BY <3>4 DEF FileCreated
      <4>2. file' \in Seq(Byte) /\ Len(file') = 0
        BY <4>1
      <4>3. card' \in [closed : BOOLEAN, bytes : Seq(Byte)]
        BY <4>1 DEF NoFile
      <4>4. disk_full' \in BOOLEAN /\ file_open' \in BOOLEAN /\ file_err' \in BOOLEAN
        BY <4>1
      <4>5. TransferType'
        BY <3>1, <3>4, <4>2, <4>3, <4>4
      <4>6. Counts'
        <5>1. received_size' = 0 /\ Len(file') = 0 /\ file_open' = TRUE
          BY <3>1, <4>1, <4>2
        <5>2. CountMatchesFile'
          BY <5>1
        <5>3. QED
          BY <3>4, <5>1, <5>2
      <4>7. QED
        BY <4>5, <4>6
    <3>5. QED
      BY <3>1, <3>2, <3>3, <3>4
  <2>3. QED
    BY <2>1, <2>2
<1>2. CASE Receiving /\ handle_upgrade_finish
  <2>1. /\ file' = file /\ UNCHANGED <<total_firmware_size, received_size, disk_full>>
        /\ file_open' \in BOOLEAN /\ file_err' \in BOOLEAN
        /\ card' \in [closed : BOOLEAN, bytes : Seq(Byte)]
    <3>1. UNCHANGED <<total_firmware_size, received_size>> /\ FileClosed
      BY <1>2 DEF handle_upgrade_finish
    <3>2. CASE UNCHANGED fileVars
      BY <3>1, <3>2 DEF fileVars
    <3>3. CASE /\ card' = [closed |-> TRUE, bytes |-> file] /\ file_open' = FALSE
               /\ UNCHANGED <<file, file_err, disk_full>>
      <4>1. card' \in [closed : BOOLEAN, bytes : Seq(Byte)]
        BY <3>3
      <4>2. QED
        BY <3>1, <3>3, <4>1
    <3>4. QED
      BY <3>1, <3>2, <3>3 DEF FileClosed
  <2>2. upgrade_state' = IF received_size = total_firmware_size
                         THEN "FINISH_RECEIVED" ELSE "IDLE"
    BY <1>2 DEF handle_upgrade_finish, StateAfterFinish
  <2>3. QED
    BY <1>2, <2>1, <2>2
<1>3. CASE Receiving /\ handle_upgrade_data(data, n)
  <2>1. CASE FileWriteFailed /\ UNCHANGED <<upgrade_state, received_size>>
    BY <1>3, <2>1 DEF handle_upgrade_data, FileWriteFailed
  <2>2. ASSUME NEW k \in 0 .. n, FileWrote(data, n, k),
               received_size' = IF k = n THEN received_size + n ELSE received_size,
               upgrade_state' = IF k = n THEN "RECEIVING_DATA" ELSE upgrade_state
        PROVE  TransferType' /\ Counts'
    <3>1. SubSeq(data, 1, k) \in Seq(Byte) /\ Len(SubSeq(data, 1, k)) = k
      <4>1. \A i \in 1 .. k : data[i] \in Byte
        BY BufferAssumption
      <4>2. QED
        BY <4>1, SubSeqProperties, BufferAssumption
    <3>2. file' \in Seq(Byte) /\ Len(file') = Len(file) + k
      BY <2>2, <3>1, ConcatProperties DEF FileWrote
    <3>3. /\ total_firmware_size' = total_firmware_size
          /\ UNCHANGED <<file_open, file_err, card>>
          /\ disk_full' = (disk_full \/ k < n)
          /\ k = n => ~disk_full
      BY <1>3, <2>2 DEF handle_upgrade_data, FileWrote
    <3>4. TransferType'
      BY <1>3, <2>2, <3>2, <3>3, BufferAssumption
    <3>5. CountMatchesFile'
      <4>1. CASE k = n
        <5>1. received_size' = received_size + n /\ received_size = Len(file)
          BY <1>3, <2>2, <3>3, <4>1
        <5>2. QED
          BY <3>2, <4>1, <5>1
      <4>2. CASE k < n
        <5>1. disk_full' = TRUE
          BY <3>3, <4>2
        <5>2. received_size' = received_size /\ received_size <= Len(file)
          BY <1>3, <2>2, <4>2
        <5>3. received_size' <= Len(file')
          BY <3>2, <5>2
        <5>4. QED
          BY <5>1, <5>3
      <4>3. QED
        BY <4>1, <4>2, BufferAssumption
    <3>6. WritesGoToOpenFile' /\ FinishCounts'
      BY <1>3, <2>2, <3>3
    <3>7. QED
      BY <3>4, <3>5, <3>6
  <2>3. QED
    BY <1>3, <2>1, <2>2 DEF handle_upgrade_data, SizeAfter
<1>4. CASE upgrade_state = "FINISH_RECEIVED" /\ UNCHANGED <<taskVars, fileVars>>
  BY <1>4 DEF taskVars, fileVars
<1>5. QED
  BY <1>1, <1>2, <1>3, <1>4 DEF process_received_packet

\* The invariant holds when upgrade_task starts.
LEMMA InitEstablishes == Init => IInv
<1> SUFFICES ASSUME Init PROVE IInv
  OBVIOUS
<1>1. TransferType
  <2>1. card \in [closed : BOOLEAN, bytes : Seq(Byte)] /\ file \in Seq(Byte)
    BY DEF Init, NoFile
  <2>2. QED
    BY <2>1 DEF Init, TransferType
<1>2. /\ ZeroLength \in [1..HeaderLength -> Byte]
      /\ packet_buffer \in [1..BufSize -> Byte]
  BY BaseAssumption DEF Init, ZeroLength, Byte
<1>3. ParserType
  BY <1>2 DEF Init, ParserType
<1>4. CopiesInBounds /\ Counts
  BY DEF Init, CopiesInBounds, HeaderLength, Counts, CountMatchesFile, Transferring,
         WritesGoToOpenFile, FinishCounts
<1>5. QED
  BY <1>1, <1>3, <1>4 DEF IInv

\* A step that leaves the transfer alone keeps its types and its accounting.
LEMMA TransferUnchanged ==
  ASSUME TransferType, Counts, UNCHANGED <<taskVars, fileVars>>
  PROVE  TransferType' /\ Counts'
BY DEF TransferType, Counts, CountMatchesFile, Transferring, WritesGoToOpenFile,
       FinishCounts, taskVars, fileVars

\* Giving up a transfer, complete or not, keeps them too.
LEMMA TransferLeft ==
  ASSUME TransferType, Counts, upgrade_state' = "IDLE",
         UNCHANGED <<total_firmware_size, received_size, fileVars>>
  PROVE  TransferType' /\ Counts'
BY DEF TransferType, Counts, CountMatchesFile, Transferring, WritesGoToOpenFile,
       FinishCounts, fileVars

\* The header half of the parser: four bytes at most, then the size check.
LEMMA ParseHeaderKeeps == IInv /\ ParseHeader => IInv'
<1> SUFFICES ASSUME IInv, ParseHeader PROVE IInv'
  OBVIOUS
<1> DEFINE k   == ToCopy(Len(seg), HeaderLength - packet_received)
           len == Overwrite(packet_length, packet_received, seg, k)
<1>1. /\ packet_received \in Nat /\ packet_received < HeaderLength /\ seg \in Seq(Byte)
      /\ packet_length \in [1..HeaderLength -> Byte]
  BY DEF IInv, ParserType, CopiesInBounds, ParseHeader
<1>2. k \in Nat /\ k <= Len(seg) /\ k <= HeaderLength - packet_received
  <2>1. HeaderLength - packet_received \in Nat /\ Len(seg) \in Nat
    BY <1>1 DEF HeaderLength
  <2>2. QED
    BY <2>1, AtMostType DEF ToCopy
<1>3. len \in [1..HeaderLength -> Byte] /\ LengthOf(len) \in Nat
  <2>1. HeaderLength \in Nat /\ packet_received + k <= HeaderLength
    BY <1>1, <1>2 DEF HeaderLength
  <2>2. len \in [1..HeaderLength -> Byte]
    BY <1>1, <1>2, <2>1, OverwriteType
  <2>3. QED
    BY <2>2, LengthOfType
<1>4. Drop(seg, k) \in Seq(Byte)
  BY <1>1, <1>2, DropType
<1>5. TransferType' /\ Counts'
  BY TransferUnchanged DEF IInv, ParseHeader
<1>6. UNCHANGED <<pc, packet_buffer, wire, peer, sent, handled>> /\ seg' = Drop(seg, k)
  BY DEF ParseHeader
<1>7. CASE packet_received + k < HeaderLength
  <2>1. /\ packet_received' = packet_received + k /\ packet_length' = len
        /\ parse_state' = parse_state /\ parse_state = "HEADER"
    BY <1>7 DEF ParseHeader
  <2>2. ParserType'
    BY <1>1, <1>2, <1>3, <1>4, <1>6, <2>1 DEF IInv, ParserType
  <2>3. CopiesInBounds'
    BY <1>7, <2>1 DEF CopiesInBounds
  <2>4. QED
    BY <1>5, <2>2, <2>3 DEF IInv
<1>8. CASE ~(packet_received + k < HeaderLength)
  <2>1. /\ packet_received' = 0
        /\ parse_state' = IF Oversized(len) THEN "HEADER" ELSE "DATA"
        /\ packet_length' = IF Oversized(len) THEN ZeroLength ELSE len
    BY <1>8 DEF ParseHeader
  <2>2. ZeroLength \in [1..HeaderLength -> Byte]
    BY BaseAssumption DEF ZeroLength, Byte
  <2>3. ParserType'
    BY <1>3, <1>4, <1>6, <2>1, <2>2 DEF IInv, ParserType
  <2>4. CopiesInBounds'
    BY <1>3, <2>1, BufferAssumption DEF CopiesInBounds, HeaderLength, Oversized
  <2>5. QED
    BY <1>5, <2>3, <2>4 DEF IInv
<1>9. QED
  BY <1>7, <1>8

\* The body half of the parser, with the handler of a completed packet.
LEMMA ParseDataKeeps == IInv /\ ParseData => IInv'
<1> SUFFICES ASSUME IInv, ParseData PROVE IInv'
  OBVIOUS
<1> DEFINE n   == LengthOf(packet_length)
           k   == ToCopy(Len(seg), n - packet_received)
           buf == Overwrite(packet_buffer, packet_received, seg, k)
<1>1. /\ packet_received \in Nat /\ seg \in Seq(Byte)
      /\ packet_length \in [1..HeaderLength -> Byte]
      /\ packet_buffer \in [1..BufSize -> Byte]
      /\ n \in 0 .. BufSize /\ packet_received <= n
  BY LengthOfType, BufferAssumption DEF IInv, ParserType, CopiesInBounds, ParseData
<1>2. k \in Nat /\ k <= Len(seg) /\ k <= n - packet_received
  <2>1. n - packet_received \in Nat /\ Len(seg) \in Nat
    BY <1>1
  <2>2. QED
    BY <2>1, AtMostType DEF ToCopy
<1>3. buf \in [1..BufSize -> Byte]
  BY <1>1, <1>2, OverwriteType, BufferAssumption
<1>4. Drop(seg, k) \in Seq(Byte)
  BY <1>1, <1>2, DropType
<1>5. /\ UNCHANGED <<pc, wire, peer, sent>>
      /\ seg' = Drop(seg, k) /\ packet_buffer' = buf
  BY DEF ParseData
<1>6. CASE packet_received + k < n
  <2>1. /\ packet_received' = packet_received + k
        /\ UNCHANGED <<parse_state, packet_length, taskVars, fileVars, handled>>
    BY <1>6 DEF ParseData
  <2>2. TransferType' /\ Counts'
    BY <2>1, TransferUnchanged DEF IInv
  <2>3. ParserType'
    BY <1>1, <1>2, <1>3, <1>4, <1>5, <2>1 DEF IInv, ParserType
  <2>4. parse_state' = "DATA" /\ LengthOf(packet_length') = n
    BY <2>1 DEF ParseData
  <2>5. CopiesInBounds'
    BY <1>1, <1>6, <2>1, <2>4 DEF CopiesInBounds
  <2>6. QED
    BY <2>2, <2>3, <2>5 DEF IInv
<1>7. CASE ~(packet_received + k < n)
  <2>1. /\ process_received_packet(buf, n)
        /\ handled' = Append(handled, SubSeq(buf, 1, n))
        /\ parse_state' = "HEADER" /\ packet_length' = ZeroLength
        /\ packet_received' = 0
    BY <1>7 DEF ParseData
  <2>2. TransferType' /\ Counts'
    BY <1>1, <1>3, <2>1, ProcessKeepsCounts DEF IInv
  <2>3. SubSeq(buf, 1, n) \in Seq(Byte)
    <3>1. \A i \in 1 .. n : buf[i] \in Byte
      BY <1>1, <1>3, BufferAssumption
    <3>2. QED
      BY <1>1, <3>1, SubSeqProperties
  <2>4. handled' \in Seq(Seq(Byte)) /\ ZeroLength \in [1..HeaderLength -> Byte]
    BY <2>1, <2>3, BaseAssumption DEF IInv, ParserType, ZeroLength, Byte
  <2>5. ParserType'
    BY <1>3, <1>4, <1>5, <2>1, <2>4 DEF IInv, ParserType
  <2>6. CopiesInBounds'
    BY <2>1 DEF CopiesInBounds, HeaderLength
  <2>7. QED
    BY <2>2, <2>5, <2>6 DEF IInv
<1>8. QED
  BY <1>6, <1>7

\* A received segment is a part of what the peer sent.
LEMMA RecvKeeps ==
  ASSUME NEW n \in Segments, IInv, Recv(n)
  PROVE  IInv'
<1> DEFINE k == AtMost(n, Len(wire))
<1>1. wire \in Seq(Byte) /\ k \in 0 .. Len(wire)
  <2>1. wire \in Seq(Byte) /\ Len(wire) \in Nat /\ n \in Nat
    BY SegmentAssumption DEF IInv, ParserType
  <2>2. QED
    BY <2>1, AtMostType DEF ToCopy
<1>2. SubSeq(wire, 1, k) \in Seq(Byte) /\ Drop(wire, k) \in Seq(Byte)
  BY <1>1, PrefixType, DropType
<1>3. /\ seg' = SubSeq(wire, 1, k) /\ wire' = Drop(wire, k) /\ pc' = "parse"
      /\ UNCHANGED <<taskVars, fileVars, parse_state, packet_length, packet_received,
                     packet_buffer, peer, sent, handled>>
  BY DEF Recv, parseVars
<1>4. TransferType' /\ Counts'
  BY <1>3, TransferUnchanged DEF IInv
<1>5. ParserType' /\ CopiesInBounds'
  BY <1>2, <1>3 DEF IInv, ParserType, CopiesInBounds
<1>6. QED
  BY <1>4, <1>5 DEF IInv

\* A packet of the peer adds its header and its bytes to the stream.
LEMMA PeerSendKeeps ==
  ASSUME NEW p \in Seq(Byte), IInv, PeerSend(p)
  PROVE  IInv'
<1>1. p \in Seq(Byte) /\ Len(p) \in Nat
  OBVIOUS
<1>2. Encode(p) \in Seq(Byte)
  BY <1>1, HeaderType, ConcatProperties DEF Encode
<1>3. wire' \in Seq(Byte)
  BY <1>2, ConcatProperties DEF PeerSend, IInv, ParserType
<1>4. sent' \in Seq(Seq(Byte))
  BY <1>1 DEF PeerSend, IInv, ParserType
<1>5. UNCHANGED <<pc, taskVars, fileVars, parse_state, packet_length, packet_received,
                  packet_buffer, seg, peer, handled>>
  BY DEF PeerSend, deviceVars, parseVars
<1>6. TransferType' /\ Counts'
  BY <1>5, TransferUnchanged DEF IInv
<1>7. ParserType' /\ CopiesInBounds'
  BY <1>3, <1>4, <1>5 DEF IInv, ParserType, CopiesInBounds
<1>8. QED
  BY <1>6, <1>7 DEF IInv

\* Every step of the task, the peer and the network keeps the invariant.
LEMMA StepKeeps == IInv /\ [Next]_vars => IInv'
<1> SUFFICES ASSUME IInv, [Next]_vars PROVE IInv'
  OBVIOUS
<1> USE DEF IInv
<1>1. CASE Connect
  <2>1. /\ pc' = "recv" /\ peer' = "open" /\ wire' = << >>
        /\ parse_state' = "HEADER" /\ packet_length' = ZeroLength /\ packet_received' = 0
        /\ sent' = << >> /\ handled' = << >> /\ UNCHANGED <<packet_buffer, seg>>
    BY <1>1 DEF Connect
  <2>2. ZeroLength \in [1..HeaderLength -> Byte]
    BY BaseAssumption DEF ZeroLength, Byte
  <2>3. TransferType' /\ Counts'
    BY <1>1, TransferLeft DEF Connect
  <2>4. ParserType' /\ CopiesInBounds'
    BY <2>1, <2>2 DEF ParserType, CopiesInBounds, HeaderLength
  <2>5. QED
    BY <2>3, <2>4
<1>2. CASE RecvError
  BY <1>2, TransferUnchanged DEF RecvError, ParserType, CopiesInBounds, parseVars
<1>3. CASE ParseHeader
  BY <1>3, ParseHeaderKeeps
<1>4. CASE ParseData
  BY <1>4, ParseDataKeeps
<1>5. CASE SegmentDone
  <2>1. /\ pc' \in {"cleanup", "recv"}
        /\ UNCHANGED <<parse_state, packet_length, packet_received, packet_buffer, seg,
                       wire, peer, sent, handled>>
    BY <1>5 DEF SegmentDone, parseVars
  <2>2. ParserType' /\ CopiesInBounds'
    BY <2>1 DEF ParserType, CopiesInBounds
  <2>3. TransferType' /\ Counts'
    <3>1. CASE upgrade_state' = "IDLE"
      BY <1>5, <3>1, TransferLeft DEF SegmentDone
    <3>2. CASE upgrade_state' = upgrade_state
      BY <1>5, <3>2, TransferUnchanged DEF SegmentDone, taskVars
    <3>3. QED
      BY <1>5, <3>1, <3>2 DEF SegmentDone
  <2>4. QED
    BY <2>2, <2>3
<1>6. CASE Cleanup
  <2>1. TransferType' /\ Counts'
    BY <1>6, TransferUnchanged DEF Cleanup
  <2>2. ParserType' /\ CopiesInBounds'
    BY <1>6 DEF Cleanup, ParserType, CopiesInBounds, parseVars
  <2>3. QED
    BY <2>1, <2>2
<1>7. ASSUME NEW n \in Segments, Recv(n) PROVE IInv'
  BY <1>7, RecvKeeps
<1>8. ASSUME NEW p \in Packets, PeerSend(p) PROVE IInv'
  BY <1>8, PeerSendKeeps, PacketAssumption
<1>9. ASSUME NEW how \in {"closed", "reset"}, PeerStop(how) PROVE IInv'
  <2>1. TransferType' /\ Counts'
    BY <1>9, TransferUnchanged DEF PeerStop, deviceVars
  <2>2. ParserType' /\ CopiesInBounds'
    BY <1>9 DEF PeerStop, deviceVars, parseVars, ParserType, CopiesInBounds
  <2>3. QED
    BY <2>1, <2>2
<1>10. CASE UNCHANGED vars
  <2>1. TransferType' /\ Counts'
    BY <1>10, TransferUnchanged DEF vars
  <2>2. ParserType' /\ CopiesInBounds'
    BY <1>10 DEF vars, parseVars, ParserType, CopiesInBounds
  <2>3. QED
    BY <2>1, <2>2
<1>11. QED
  BY <1>1, <1>2, <1>3, <1>4, <1>5, <1>6, <1>7, <1>8, <1>9, <1>10
     DEF Next, Task, Environment

\* The invariant holds in every reachable state.
LEMMA Invariance == Spec => []IInv
BY InitEstablishes, StepKeeps, PTL DEF Spec

\* Every variable keeps its type.
THEOREM TypeCorrect == Spec => []TypeOK
<1>1. IInv => TypeOK
  BY TypeSplit DEF IInv
<1>2. QED
  BY <1>1, Invariance, PTL

\* Neither memcpy of the parser leaves its target, whatever the peer sends and
\* wherever TCP cuts the stream.
THEOREM ParserStaysInBounds == Spec => []CopiesInBounds
<1>1. IInv => CopiesInBounds
  BY DEF IInv
<1>2. QED
  BY <1>1, Invariance, PTL

\* The counter and the file agree as long as the volume has room.
THEOREM CountsMatch == Spec => []CountMatchesFile
<1>1. IInv => CountMatchesFile
  BY DEF IInv, Counts
<1>2. QED
  BY <1>1, Invariance, PTL

\* A write never goes to a file that is not open.
THEOREM FileIsOpen == Spec => []WritesGoToOpenFile
<1>1. IInv => WritesGoToOpenFile
  BY DEF IInv, Counts
<1>2. QED
  BY <1>1, Invariance, PTL

\* FINISH_RECEIVED is only reported for a file of the announced size.
THEOREM FinishIsWhole == Spec => []FinishMeansWholeFile
<1>1. IInv => FinishMeansWholeFile
  BY DEF IInv, Counts, CountMatchesFile, FinishCounts, Transferring, FinishMeansWholeFile
<1>2. QED
  BY <1>1, Invariance, PTL

\* FINISH_RECEIVED does not outlive the parse loop: the check behind the loop
\* takes it back before the next netconn_recv.
FinishInParse == upgrade_state = "FINISH_RECEIVED" => pc = "parse"

\* FinishInParse is inductive by itself.
LEMMA FinishInParseKept ==
  ASSUME FinishInParse, [Next]_vars
  PROVE  FinishInParse'
<1> USE DEF FinishInParse
<1>1. CASE Connect
  BY <1>1 DEF Connect
<1>2. CASE RecvError \/ Cleanup \/ \E n \in Segments : Recv(n)
  BY <1>2 DEF RecvError, Cleanup, Recv, taskVars
<1>3. CASE ParseHeader
  BY <1>3 DEF ParseHeader, taskVars
<1>4. CASE ParseData
  BY <1>4 DEF ParseData
<1>5. CASE SegmentDone
  BY <1>5 DEF SegmentDone
<1>6. CASE Environment
  BY <1>6 DEF Environment, PeerSend, PeerStop, deviceVars, taskVars
<1>7. CASE UNCHANGED vars
  BY <1>7 DEF vars, taskVars
<1>8. QED
  BY <1>1, <1>2, <1>3, <1>4, <1>5, <1>6, <1>7 DEF Next, Task

\* A finished upgrade is final for its connection: later packets of the same
\* segment touch neither the file nor the counter.
THEOREM FinishStays == Spec => FinishIsFinal
<1> DEFINE Final == upgrade_state = "FINISH_RECEIVED" =>
                      /\ upgrade_state' \in {"FINISH_RECEIVED", "IDLE"}
                      /\ upgrade_state' = "IDLE" => pc' = "cleanup"
                      /\ UNCHANGED <<file, card, received_size>>
<1>1. Init => FinishInParse
  BY DEF Init, FinishInParse
<1>2. FinishInParse /\ [Next]_vars => FinishInParse'
  BY FinishInParseKept
<1>3. FinishInParse /\ [Next]_vars => [Final]_vars
  <2> SUFFICES ASSUME upgrade_state = "FINISH_RECEIVED", pc = "parse", Next
               PROVE  Final
    BY DEF FinishInParse
  <2>1. CASE ParseHeader
    BY <2>1 DEF ParseHeader, taskVars, fileVars
  <2>2. CASE ParseData
    <3>1. UNCHANGED <<taskVars, fileVars>>
      BY <2>2 DEF ParseData, process_received_packet, Receiving
    <3>2. QED
      BY <3>1 DEF taskVars, fileVars
  <2>3. CASE SegmentDone
    BY <2>3 DEF SegmentDone, fileVars
  <2>4. CASE Environment
    BY <2>4 DEF Environment, PeerSend, PeerStop, deviceVars, taskVars, fileVars
  <2>5. QED
    BY <2>1, <2>2, <2>3, <2>4
       DEF Next, Task, Connect, RecvError, Cleanup, Recv
<1>4. QED
  BY <1>1, <1>2, <1>3, PTL DEF Spec, FinishIsFinal
=============================================================================
