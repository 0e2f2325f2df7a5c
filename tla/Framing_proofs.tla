--------------------------- MODULE Framing_proofs ---------------------------
(***************************************************************************)
(* FramingFaithful of Upgrade: wherever TCP cuts the stream, the packets   *)
(* the parser of upgrade_task hands over are those the peer sent.          *)
(*                                                                         *)
(* The property says nothing of a packet that is half parsed, so it is not *)
(* inductive.  Framing adds what is: start[i], where frame i begins in the *)
(* stream of the connection; that the unread bytes of the segment and of   *)
(* the wire are the stream from the task's position in it to its end; and  *)
(* that packet_length and packet_buffer hold the beginning of the frame in *)
(* hand.  A step of the parser moves the position on by the bytes it took. *)
(***************************************************************************)
EXTENDS Upgrade_proofs

\* Division with remainder.
LEMMA DivMod ==
  ASSUME NEW b \in Nat \ {0}, NEW n \in Nat
  PROVE  /\ n \div b \in Nat /\ (n % b) \in Nat
         /\ (n % b) < b /\ n = b * (n \div b) + (n % b)
<1>1. (n % b) \in Nat /\ (n % b) < b /\ n \div b \in Int
  OBVIOUS
<1>2. n = b * (n \div b) + (n % b)
  OBVIOUS
<1>3. n \div b \in Nat
  OBVIOUS
<1>4. QED
  BY <1>1, <1>2, <1>3

\* A factor distributes over a sum, and factors associate.
LEMMA Products ==
  ASSUME NEW a \in Nat, NEW b \in Nat, NEW x \in Nat, NEW y \in Nat
  PROVE  /\ a * (x + y) = a * x + a * y /\ a * (b * x) = (a * b) * x
         /\ a * x \in Nat /\ a * b \in Nat
OBVIOUS

\* Quotient and remainder are the only ones.
LEMMA DivUnique ==
  ASSUME NEW b \in Nat \ {0}, NEW n \in Nat, NEW q \in Nat, NEW r \in Nat,
         r < b, n = b * q + r
  PROVE  n \div b = q
<1>1. /\ n \div b \in Nat /\ (n % b) \in Nat /\ (n % b) < b /\ n = b * (n \div b) + (n % b)
  BY DivMod
<1> DEFINE p == n \div b
<1>2. ASSUME NEW x \in Nat, NEW y \in Nat, x < y
      PROVE  b * x + b <= b * y
  <2>1. y = x + 1 + (y - x - 1) /\ y - x - 1 \in Nat
    BY <1>2
  <2>2. b * y = b * x + b + b * (y - x - 1)
    BY <2>1
  <2>3. b * (y - x - 1) \in Nat
    BY <2>1
  <2>4. QED
    BY <2>2, <2>3
<1>3. CASE p < q
  <2>1. b * p + b <= b * q
    BY <1>1, <1>2, <1>3
  <2>2. b * p \in Nat /\ b * q \in Nat
    BY <1>1
  <2>3. QED
    BY <1>1, <2>1, <2>2
<1>4. CASE q < p
  <2>1. b * q + b <= b * p
    BY <1>1, <1>2, <1>4
  <2>2. b * p \in Nat /\ b * q \in Nat
    BY <1>1
  <2>3. QED
    BY <1>1, <2>1, <2>2
<1>5. QED
  BY <1>1, <1>3, <1>4

\* Dividing by a product is dividing by its factors in turn.
LEMMA DivDiv ==
  ASSUME NEW a \in Nat \ {0}, NEW b \in Nat \ {0}, NEW n \in Nat
  PROVE  n \div (a * b) = (n \div a) \div b
<1> DEFINE q1 == n \div a
           q2 == q1 \div b
           r  == a * (q1 % b) + (n % a)
<1>1. /\ q1 \in Nat /\ (n % a) \in Nat /\ (n % a) < a /\ n = a * q1 + (n % a)
      /\ q2 \in Nat /\ (q1 % b) \in Nat /\ (q1 % b) < b /\ q1 = b * q2 + (q1 % b)
  BY DivMod
<1> HIDE DEF q1, q2
<1>2. a * b \in Nat \ {0}
  OBVIOUS
<1>3. n = (a * b) * q2 + r
  <2>1. a * q1 = a * (b * q2) + a * (q1 % b)
    <3>1. b * q2 \in Nat
      BY <1>1, Products
    <3>2. a * (b * q2 + (q1 % b)) = a * (b * q2) + a * (q1 % b)
      BY <1>1, <3>1, Products
    <3>3. QED
      BY <1>1, <3>2
  <2>2. a * (b * q2) = (a * b) * q2
    BY <1>1, Products
  <2>3. QED
    BY <1>1, <2>1, <2>2
<1>4. r \in Nat /\ r < a * b
  <2>1. a * (q1 % b) + a <= a * b
    <3>1. b = (q1 % b) + 1 + (b - 1 - (q1 % b)) /\ b - 1 - (q1 % b) \in Nat
      BY <1>1
    <3>2. a * b = a * (q1 % b) + a + a * (b - 1 - (q1 % b))
      BY <1>1, <3>1
    <3>3. a * (b - 1 - (q1 % b)) \in Nat
      BY <3>1
    <3>4. QED
      BY <1>1, <3>2, <3>3
  <2>2. a * (q1 % b) \in Nat
    BY <1>1
  <2>3. QED
    BY <1>1, <2>1, <2>2
<1>5. n \div (a * b) = q2
  BY <1>1, <1>2, <1>3, <1>4, DivUnique
<1>6. QED
  BY <1>5 DEF q1, q2

\* The four bytes of a header spell the length they were made from.
LEMMA HeaderSpellsLength ==
  ASSUME NEW n \in Nat, n < Base * Base * Base * Base
  PROVE  LengthOf(Header(n)) = n
<1> DEFINE q1 == n \div Base
           q2 == q1 \div Base
           q3 == q2 \div Base
<1>1. Base \in Nat \ {0} /\ Base * Base \in Nat \ {0} /\ Base * Base * Base \in Nat \ {0}
  BY BaseAssumption
<1>2. /\ q1 \in Nat /\ (n % Base) \in Nat /\ n = Base * q1 + (n % Base)
      /\ q2 \in Nat /\ (q1 % Base) \in Nat /\ q1 = Base * q2 + (q1 % Base)
      /\ q3 \in Nat /\ (q2 % Base) \in Nat /\ q2 = Base * q3 + (q2 % Base)
  BY <1>1, DivMod
<1>3. n \div (Base * Base) = q2
  BY <1>1, DivDiv
<1>4. n \div (Base * Base * Base) = q3
  <2>1. n \div ((Base * Base) * Base) = (n \div (Base * Base)) \div Base
    BY <1>1, DivDiv
  <2>2. QED
    BY <1>3, <2>1
<1> HIDE DEF q1, q2, q3
<1>5. q3 < Base
  <2>1. n = (Base * Base * Base) * q3 + (n % (Base * Base * Base))
        /\ n % (Base * Base * Base) \in Nat
    BY <1>1, <1>4, DivMod
  <2>2. SUFFICES ASSUME Base <= q3 PROVE FALSE
    BY <1>1, <1>2
  <2>3. (Base * Base * Base) * q3 = (Base * Base * Base) * Base + (Base * Base * Base) * (q3 - Base)
    BY <1>1, <1>2
  <2>4. (Base * Base * Base) * (q3 - Base) \in Nat /\ (Base * Base * Base) * Base \in Nat
    BY <1>1, <1>2, <2>2
  <2>5. QED
    BY <2>1, <2>3, <2>4
<1>6. (q3 % Base) = q3
  BY <1>1, <1>2, <1>5, SMT
<1>7. Header(n) = <<(n % Base), (q1 % Base), (q2 % Base), q3>>
  BY <1>3, <1>4, <1>6 DEF Header, q1
<1>8. LengthOf(Header(n)) = (n % Base) + Base * ((q1 % Base) + Base * ((q2 % Base) + Base * q3))
  BY <1>7 DEF LengthOf
<1>9. QED
  BY <1>1, <1>2, <1>8

-----------------------------------------------------------------------------
(***************************************************************************)
(* The invariant: what the task has not parsed yet is the rest of what the *)
(* peer sent, and what it holds of the packet in hand is its beginning.    *)
(***************************************************************************)

\* The bytes on their way to the parser: those of the segment in hand, then
\* those of the wire.
Unread    == Len(seg) + Len(wire)
ByteAt(j) == IF j <= Len(seg) THEN seg[j] ELSE wire[j - Len(seg)]

FrameSize(p) == HeaderLength + Len(p)

\* start[i] is where packet i begins in the stream of the connection, and the
\* last value of start is where the stream ends.
Starts == [1 .. Len(sent) + 1 -> Nat]

Layout(start) ==
  /\ \A i \in 1 .. Len(sent) : start[i + 1] = start[i] + FrameSize(sent[i])
  /\ \A i \in 1 .. Len(sent), j \in 1 .. Len(sent) + 1 :
       i < j => start[i] + FrameSize(sent[i]) <= start[j]

\* How far the stream is parsed, in the packet in hand and as a whole.
Progress    == packet_received + (IF parse_state = "HEADER" THEN 0 ELSE HeaderLength)
Read(start) == start[Len(handled) + 1] + Progress

Pending(start) ==
  /\ Unread = start[Len(sent) + 1] - Read(start)
  /\ \A i \in Len(handled) + 1 .. Len(sent) : \A j \in 1 .. FrameSize(sent[i]) :
       Read(start) < start[i] + j =>
         ByteAt(start[i] + j - Read(start)) = Encode(sent[i])[j]

\* The packet in hand.
Current == sent[Len(handled) + 1]

InHand ==
  Len(handled) < Len(sent) =>
    /\ parse_state = "HEADER" =>
         \A j \in 1 .. packet_received : packet_length[j] = Header(Len(Current))[j]
    /\ parse_state = "DATA" =>
         /\ LengthOf(packet_length) = Len(Current)
         /\ \A j \in 1 .. packet_received : packet_buffer[j] = Current[j]

Delivered ==
  /\ Len(handled) <= Len(sent)
  /\ \A i \in 1 .. Len(handled) : handled[i] = sent[i]

\* The peer has sent no packet larger than packet_buffer.
Fits == \A i \in 1 .. Len(sent) : Len(sent[i]) <= BufSize

Connected == pc \in {"recv", "parse"}

InStep == Connected => InHand /\ \E start \in Starts : Layout(start) /\ Pending(start)

Framing ==
  /\ pc # "parse" => seg = << >>
  /\ Fits => Delivered /\ InStep

-----------------------------------------------------------------------------
\* A frame is a header of four bytes and the packet.
LEMMA EncodeFacts ==
  ASSUME NEW p \in Seq(Byte)
  PROVE  /\ FrameSize(p) \in Nat /\ Len(Encode(p)) = FrameSize(p)
         /\ \A j \in 1 .. HeaderLength : Encode(p)[j] = Header(Len(p))[j]
         /\ \A j \in 1 .. Len(p) : Encode(p)[HeaderLength + j] = p[j]
<1>1. /\ Header(Len(p)) \in Seq(Byte) /\ Len(Header(Len(p))) = HeaderLength
      /\ HeaderLength = 4 /\ Len(p) \in Nat
  BY HeaderType DEF HeaderLength
<1>2. /\ Len(Encode(p)) = HeaderLength + Len(p)
      /\ \A i \in 1 .. HeaderLength + Len(p) : Encode(p)[i] =
            IF i <= HeaderLength THEN Header(Len(p))[i] ELSE p[i - HeaderLength]
  <2> DEFINE H == Header(Len(p))
  <2>1. /\ Len(H \o p) = Len(H) + Len(p)
        /\ \A i \in 1 .. Len(H) + Len(p) :
             (H \o p)[i] = IF i <= Len(H) THEN H[i] ELSE p[i - Len(H)]
    BY <1>1, ConcatProperties
  <2> HIDE DEF H
  <2>2. H \o p = Encode(p) /\ Len(H) = HeaderLength
    BY <1>1 DEF Encode, H
  <2>3. QED
    BY <2>1, <2>2 DEF H
<1>3. QED
  BY <1>1, <1>2 DEF FrameSize

\* What the types say of the numbers of the stream.
LEMMA StreamTypes ==
  ASSUME IInv
  PROVE  /\ seg \in Seq(Byte) /\ wire \in Seq(Byte) /\ Len(seg) \in Nat /\ Len(wire) \in Nat
         /\ sent \in Seq(Seq(Byte)) /\ handled \in Seq(Seq(Byte))
         /\ Len(sent) \in Nat /\ Len(handled) \in Nat
         /\ packet_received \in Nat /\ Progress \in Nat /\ Unread \in Nat
         /\ \A i \in 1 .. Len(sent) : sent[i] \in Seq(Byte) /\ Len(sent[i]) \in Nat
                                     /\ FrameSize(sent[i]) \in Nat
<1>1. /\ seg \in Seq(Byte) /\ wire \in Seq(Byte) /\ sent \in Seq(Seq(Byte))
      /\ handled \in Seq(Seq(Byte)) /\ packet_received \in Nat
  BY DEF IInv, ParserType
<1>2. Progress \in Nat /\ Unread \in Nat
  BY <1>1 DEF Progress, Unread, HeaderLength
<1>3. \A i \in 1 .. Len(sent) : sent[i] \in Seq(Byte)
  BY <1>1
<1>4. QED
  BY <1>1, <1>2, <1>3 DEF FrameSize, HeaderLength

\* While bytes are unread, they go on with the packet in hand.
LEMMA NextBytes ==
  ASSUME IInv, Delivered, NEW start \in Starts, Layout(start), Pending(start),
         Unread > 0
  PROVE  /\ Len(handled) < Len(sent) /\ Current \in Seq(Byte)
         /\ \A i \in 1 .. Unread : Progress + i <= FrameSize(Current) =>
              ByteAt(i) = Encode(Current)[Progress + i]
<1> DEFINE h == Len(handled) + 1
<1>1. /\ Len(handled) \in Nat /\ Len(sent) \in Nat /\ Progress \in Nat /\ Unread \in Nat
      /\ Len(handled) <= Len(sent) /\ h \in 1 .. Len(sent) + 1 /\ start[h] \in Nat
  <2>1. /\ Len(handled) \in Nat /\ Len(sent) \in Nat /\ Progress \in Nat /\ Unread \in Nat
        /\ Len(handled) <= Len(sent)
    BY StreamTypes DEF Delivered
  <2>2. h \in 1 .. Len(sent) + 1
    BY <2>1
  <2>3. QED
    BY <2>1, <2>2 DEF Starts
<1>2. Len(handled) < Len(sent)
  <2>1. SUFFICES ASSUME Len(handled) = Len(sent) PROVE FALSE
    BY <1>1
  <2>2. Unread = start[h] - (start[h] + Progress)
    BY <2>1 DEF Pending, Read
  <2>3. QED
    BY <1>1, <2>2
<1>3. h \in Len(handled) + 1 .. Len(sent) /\ Current = sent[h] /\ Current \in Seq(Byte)
      /\ FrameSize(Current) \in Nat
  BY <1>1, <1>2, StreamTypes DEF Current
<1>4. ASSUME NEW i \in 1 .. Unread, Progress + i <= FrameSize(Current)
      PROVE  ByteAt(i) = Encode(Current)[Progress + i]
  <2>1. Progress + i \in 1 .. FrameSize(sent[h])
    BY <1>1, <1>3, <1>4
  <2>2. Read(start) = start[h] + Progress
    BY DEF Read
  <2>3. Read(start) < start[h] + (Progress + i)
        /\ start[h] + (Progress + i) - Read(start) = i
    BY <1>1, <1>4, <2>2
  <2>4. ByteAt(start[h] + (Progress + i) - Read(start)) = Encode(sent[h])[Progress + i]
    BY <1>3, <2>1, <2>3 DEF Pending
  <2>5. QED
    BY <1>3, <2>3, <2>4
<1>5. QED
  BY <1>2, <1>3, <1>4

\* Byte j of a frame that begins at a, seen from a stream that ends at e and is
\* read up to b, before and after k more bytes are read.
LEMMA Offsets ==
  ASSUME NEW a \in Nat, NEW e \in Nat, NEW f \in Nat, NEW b \in Nat, NEW u \in Nat,
         NEW k \in Nat, NEW c \in Nat, NEW j \in 1 .. f,
         a + f <= e, u = e - b, c = b + k, c < a + j
  PROVE  a + j - c \in 1 .. u - k
OBVIOUS

\* A step that takes k bytes off the stream and counts them as parsed.
LEMMA PendingShift ==
  ASSUME IInv, IInv', NEW start \in Starts, Layout(start), Pending(start), sent' = sent,
         NEW k \in 0 .. Unread, Unread' = Unread - k,
         \A j \in 1 .. Unread - k : ByteAt(j)' = ByteAt(j + k),
         Len(handled) <= Len(handled'), Len(handled') <= Len(sent),
         Read(start)' = Read(start) + k
  PROVE  Layout(start)' /\ Pending(start)'
<1>1. /\ Len(handled) \in Nat /\ Len(sent) \in Nat /\ Progress \in Nat /\ Unread \in Nat
      /\ Len(handled') \in Nat /\ \A i \in 1 .. Len(sent) + 1 : start[i] \in Nat
      /\ \A i \in 1 .. Len(sent) : FrameSize(sent[i]) \in Nat
  <2>1. Len(handled') \in Nat
    BY DEF IInv, ParserType
  <2>2. \A i \in 1 .. Len(sent) + 1 : start[i] \in Nat
    BY DEF Starts
  <2>3. QED
    BY <2>1, <2>2, StreamTypes
<1>2. /\ Read(start) \in Nat /\ Unread = start[Len(sent) + 1] - Read(start)
      /\ start[Len(sent) + 1] \in Nat
  <2>1. Len(handled) + 1 \in 1 .. Len(sent) + 1 /\ Len(sent) + 1 \in 1 .. Len(sent) + 1
    BY <1>1
  <2>2. start[Len(handled) + 1] \in Nat /\ start[Len(sent) + 1] \in Nat
    BY <1>1, <2>1
  <2>3. Read(start) \in Nat
    BY <1>1, <2>2 DEF Read
  <2>4. QED
    BY <2>2, <2>3 DEF Pending
<1>3. Layout(start)'
  BY DEF Layout, FrameSize
<1> DEFINE r == Read(start)'
<1>4. r = Read(start) + k /\ Unread' = start[Len(sent') + 1] - r
  BY <1>1, <1>2
<1>7. r = Read(start)'
  OBVIOUS
<1> HIDE DEF r
<1>5. ASSUME NEW i \in Len(handled') + 1 .. Len(sent), NEW j \in 1 .. FrameSize(sent[i]),
             r < start[i] + j
      PROVE  (ByteAt(start[i] + j - Read(start)) = Encode(sent[i])[j])'
  <2>1. /\ i \in Len(handled) + 1 .. Len(sent) /\ i \in 1 .. Len(sent) /\ start[i] \in Nat
        /\ Len(sent) + 1 \in 1 .. Len(sent) + 1 /\ i < Len(sent) + 1
    BY <1>1
  <2>0. FrameSize(sent[i]) \in Nat /\ j \in Nat /\ k \in Nat /\ r \in Nat
    <3>1. FrameSize(sent[i]) \in Nat
      BY <1>1, <2>1
    <3>2. j \in Nat
      BY <3>1
    <3>3. k \in Nat
      BY <1>1
    <3>4. r \in Nat
      BY <1>2, <1>4, <3>3, SMTT(30)
    <3>5. QED
      BY <3>1, <3>2, <3>3, <3>4
  <2>2. start[i] + FrameSize(sent[i]) <= start[Len(sent) + 1]
    BY <2>1 DEF Layout
  <2>3. PICK x \in 1 .. Unread - k : x = start[i] + j - r
    BY <1>1, <1>2, <1>4, <1>5, <2>0, <2>1, <2>2, Offsets
  <2>4. ByteAt(x)' = ByteAt(x + k)
    BY <2>3
  <2>5. x + k = start[i] + j - Read(start) /\ Read(start) < start[i] + j
    <3>1. PICK a \in Nat, b \in Nat, y \in Nat : a = start[i] /\ b = Read(start) /\ y = j
      BY <1>2, <2>0, <2>1
    <3>2. x = a + y - r /\ r = b + k /\ r < a + y
      BY <1>4, <1>5, <2>3, <3>1
    <3>3. x + k = a + y - b /\ b < a + y
      BY <2>0, <3>2
    <3>4. QED
      BY <3>1, <3>3
  <2>6. ByteAt(start[i] + j - Read(start)) = Encode(sent[i])[j]
    BY <2>1, <2>5 DEF Pending
  <2>7. ByteAt(start[i] + j - Read(start))' = ByteAt(x)'
    BY <1>7, <2>3 DEF ByteAt
  <2>8. QED
    BY <2>4, <2>5, <2>6, <2>7 DEF Encode, Header
<1>6. QED
  BY <1>3, <1>4, <1>5, <1>7 DEF Pending

\* Taking k bytes off the segment shifts the stream by k.
LEMMA SegmentShift ==
  ASSUME IInv, NEW k \in 0 .. Len(seg), seg' = Drop(seg, k), wire' = wire
  PROVE  /\ k \in 0 .. Unread /\ Unread' = Unread - k
         /\ \A j \in 1 .. Unread - k : ByteAt(j)' = ByteAt(j + k)
<1>1. /\ seg \in Seq(Byte) /\ wire \in Seq(Byte) /\ Len(seg) \in Nat /\ Len(wire) \in Nat
      /\ k \in Nat /\ k <= Len(seg)
  BY StreamTypes
<1>2. /\ Len(seg') = Len(seg) - k
      /\ \A j \in 1 .. Len(seg) - k : seg'[j] = seg[j + k]
  <2>1. \A i \in k + 1 .. Len(seg) : seg[i] \in Byte
    BY <1>1
  <2>2. /\ Len(seg') = IF k + 1 <= Len(seg) THEN Len(seg) - (k + 1) + 1 ELSE 0
        /\ \A j \in 1 .. Len(seg) - (k + 1) + 1 : seg'[j] = seg[k + 1 + j - 1]
    BY <1>1, <2>1, SubSeqProperties DEF Drop
  <2>3. Len(seg') = Len(seg) - k
    BY <1>1, <2>2
  <2>4. ASSUME NEW j \in 1 .. Len(seg) - k PROVE seg'[j] = seg[j + k]
    <3>1. j \in 1 .. Len(seg) - (k + 1) + 1 /\ k + 1 + j - 1 = j + k
      BY <1>1
    <3>2. QED
      BY <2>2, <3>1
  <2>5. QED
    BY <2>3, <2>4
<1>3. k \in 0 .. Unread /\ Unread' = Unread - k
  BY <1>1, <1>2 DEF Unread
<1>4. ASSUME NEW j \in 1 .. Unread - k
      PROVE  ByteAt(j)' = ByteAt(j + k)
  <2>1. CASE j <= Len(seg) - k
    <3>1. j \in 1 .. Len(seg) - k /\ j + k <= Len(seg)
      BY <1>1, <2>1
    <3>2. QED
      BY <1>2, <2>1, <3>1 DEF ByteAt
  <2>2. CASE ~(j <= Len(seg) - k)
    <3>1. ~(j + k <= Len(seg)) /\ j - (Len(seg) - k) = j + k - Len(seg)
      BY <1>1, <2>2
    <3>2. QED
      BY <1>2, <2>2, <3>1 DEF ByteAt
  <2>3. QED
    BY <2>1, <2>2
<1>5. QED
  BY <1>3, <1>4

\* The copy of the parser: as much of the segment as is needed, at least a byte
\* unless nothing is needed, and where it puts the bytes.
LEMMA CopyFacts ==
  ASSUME IInv, seg # << >>, NEW size \in Nat, packet_received <= size,
         NEW max \in Nat, size <= max, NEW dst \in [1 .. max -> Byte],
         NEW k, k = ToCopy(Len(seg), size - packet_received)
  PROVE  /\ k \in 0 .. Len(seg) /\ k <= size - packet_received
         /\ packet_received + k < size => k = Len(seg)
         /\ \A j \in 1 .. packet_received + k :
              Overwrite(dst, packet_received, seg, k)[j] =
                IF j <= packet_received THEN dst[j] ELSE ByteAt(j - packet_received)
<1>1. seg \in Seq(Byte) /\ Len(seg) \in Nat /\ packet_received \in Nat
  BY StreamTypes
<1>2. /\ k \in 0 .. Len(seg) /\ k <= size - packet_received
      /\ packet_received + k < size => k = Len(seg)
  BY <1>1 DEF ToCopy, AtMost
<1>3. ASSUME NEW j \in 1 .. packet_received + k
      PROVE  Overwrite(dst, packet_received, seg, k)[j] =
                IF j <= packet_received THEN dst[j] ELSE ByteAt(j - packet_received)
  <2>1. j \in 1 .. max /\ j \in Nat /\ k \in Nat
    BY <1>1, <1>2
  <2>2. j \in DOMAIN dst \cup packet_received + 1 .. packet_received + k
    BY <2>1
  <2>3. Overwrite(dst, packet_received, seg, k)[j] =
          IF j > packet_received /\ j <= packet_received + k
          THEN seg[j - packet_received] ELSE dst[j]
    BY <2>2 DEF Overwrite
  <2>4. ~(j <= packet_received) => j - packet_received <= Len(seg)
    BY <1>1, <1>2, <2>1
  <2>5. QED
    BY <1>1, <2>1, <2>3, <2>4 DEF ByteAt
<1>4. QED
  BY <1>2, <1>3

\* The header half of the parser assembles the length of the packet in hand.
LEMMA ParseHeaderFrames ==
  ASSUME IInv, IInv', Framing, ParseHeader
  PROVE  Framing'
<1>1. /\ pc = "parse" /\ seg # << >> /\ parse_state = "HEADER"
      /\ UNCHANGED <<pc, packet_buffer, wire, sent, handled>>
  BY DEF ParseHeader
<1> SUFFICES ASSUME Fits PROVE Delivered' /\ InStep'
  BY <1>1 DEF Framing, Fits
<1>2. Delivered /\ InHand /\ \E start \in Starts : Layout(start) /\ Pending(start)
  BY <1>1 DEF Framing, InStep, Connected
<1>3. PICK start \in Starts : Layout(start) /\ Pending(start)
  BY <1>2
<1>4. Delivered'
  BY <1>1, <1>2 DEF Delivered
<1> DEFINE k   == ToCopy(Len(seg), HeaderLength - packet_received)
           len == Overwrite(packet_length, packet_received, seg, k)
<1>5. /\ packet_received \in Nat /\ packet_received < HeaderLength
      /\ packet_length \in [1 .. HeaderLength -> Byte] /\ HeaderLength = 4
      /\ Len(seg) \in Nat /\ Len(seg) > 0 /\ Unread > 0 /\ Unread \in Nat
      /\ Len(seg) <= Unread /\ Progress = packet_received
  <2>1. Len(seg) \in Nat /\ Len(wire) \in Nat /\ Len(seg) > 0
    BY <1>1, StreamTypes
  <2>2. Unread > 0 /\ Unread \in Nat /\ Len(seg) <= Unread
    BY <2>1 DEF Unread
  <2>3. /\ packet_received \in Nat /\ packet_received < HeaderLength
        /\ packet_length \in [1 .. HeaderLength -> Byte] /\ HeaderLength = 4
    BY <1>1 DEF IInv, ParserType, CopiesInBounds, HeaderLength
  <2>4. Progress = packet_received
    BY <1>1, <2>3 DEF Progress
  <2>5. QED
    BY <2>1, <2>2, <2>3, <2>4
<1>6. /\ k \in 0 .. Len(seg) /\ k <= HeaderLength - packet_received
      /\ \A j \in 1 .. packet_received + k :
           len[j] = IF j <= packet_received THEN packet_length[j]
                    ELSE ByteAt(j - packet_received)
  <2>1. /\ HeaderLength \in Nat /\ packet_received <= HeaderLength
        /\ HeaderLength <= HeaderLength
    BY <1>5
  <2>2. k = ToCopy(Len(seg), HeaderLength - packet_received)
    OBVIOUS
  <2> HIDE DEF k
  <2>3. packet_length \in [1 .. HeaderLength -> Byte]
    BY <1>5
  <2>6. k \in 0 .. Len(seg) /\ k <= HeaderLength - packet_received
    BY <1>1, <1>5, <2>1, <2>2, CopyFacts
  <2>4. \A j \in 1 .. packet_received + k :
          Overwrite(packet_length, packet_received, seg, k)[j] =
            IF j <= packet_received THEN packet_length[j] ELSE ByteAt(j - packet_received)
    BY <1>1, <2>1, <2>2, <2>3, CopyFacts
  <2>5. QED
    BY <2>4, <2>6
<1>7. seg' = Drop(seg, k)
  BY DEF ParseHeader
<1>8. /\ k \in 0 .. Unread /\ Unread' = Unread - k
      /\ \A j \in 1 .. Unread - k : ByteAt(j)' = ByteAt(j + k)
  BY <1>1, <1>6, <1>7, SegmentShift
<1>9. /\ Len(handled) < Len(sent) /\ Current \in Seq(Byte) /\ Len(Current) \in Nat
      /\ \A i \in 1 .. Unread : Progress + i <= FrameSize(Current) =>
           ByteAt(i) = Encode(Current)[Progress + i]
  BY <1>2, <1>3, <1>5, NextBytes
<1>10. ASSUME NEW j \in 1 .. packet_received + k
       PROVE  len[j] = Header(Len(Current))[j]
  <2>1. j \in 1 .. HeaderLength
    BY <1>5, <1>6
  <2>2. CASE j <= packet_received
    <3>1. len[j] = packet_length[j]
      BY <1>6, <2>2
    <3>2. packet_length[j] = Header(Len(Current))[j]
      BY <1>1, <1>2, <1>5, <1>9, <2>1, <2>2 DEF InHand
    <3>3. QED
      BY <3>1, <3>2
  <2>3. CASE ~(j <= packet_received)
    <3>1. len[j] = ByteAt(j - packet_received)
      BY <1>6, <2>3
    <3>2. /\ j - packet_received \in 1 .. Unread
          /\ Progress + (j - packet_received) = j /\ j <= FrameSize(Current)
      BY <1>5, <1>6, <1>9, <2>1, <2>3 DEF FrameSize
    <3>3. ByteAt(j - packet_received) = Encode(Current)[j]
      BY <1>9, <3>2
    <3>4. QED
      BY <1>9, <2>1, <3>1, <3>3, EncodeFacts
  <2>4. QED
    BY <2>2, <2>3
<1>11. Current' = Current
  BY <1>1 DEF Current
<1>12. Progress' = Progress + k /\ InHand'
  <2>1. CASE packet_received + k < HeaderLength
    <3>1. /\ packet_received' = packet_received + k /\ packet_length' = len
          /\ parse_state' = "HEADER"
      BY <1>1, <2>1 DEF ParseHeader
    <3>2. Progress' = Progress + k
      BY <1>5, <1>6, <3>1 DEF Progress
    <3>3. InHand'
      BY <1>10, <1>11, <3>1 DEF InHand
    <3>4. QED
      BY <3>2, <3>3
  <2>2. CASE ~(packet_received + k < HeaderLength)
    <3>1. packet_received + k = HeaderLength /\ k \in Nat
      BY <1>5, <1>6, <2>2
    <3>2. LengthOf(len) = Len(Current)
      <4>1. \A j \in 1 .. 4 : len[j] = Header(Len(Current))[j]
        BY <1>5, <1>10, <3>1
      <4>2. LengthOf(len) = LengthOf(Header(Len(Current)))
        BY <4>1 DEF LengthOf
      <4>3. Len(Current) <= BufSize
        BY <1>9, StreamTypes DEF Fits, Current
      <4>4. Base * Base * Base * Base \in Nat
        BY BaseAssumption
      <4>5. Len(Current) < Base * Base * Base * Base
        BY <1>9, <4>3, <4>4, LengthAssumption, BufferAssumption
      <4>6. QED
        BY <1>9, <4>2, <4>5, HeaderSpellsLength
    <3>3. ~Oversized(len)
      <4>1. Len(Current) <= BufSize
        BY <1>9, StreamTypes DEF Fits, Current
      <4>2. QED
        BY <1>9, <3>2, <4>1, BufferAssumption DEF Oversized
    <3>4. packet_received' = 0 /\ packet_length' = len /\ parse_state' = "DATA"
      BY <2>2, <3>3 DEF ParseHeader
    <3>5. Progress' = Progress + k
      BY <1>5, <3>1, <3>4 DEF Progress
    <3>6. InHand'
      BY <1>11, <3>2, <3>4 DEF InHand
    <3>7. QED
      BY <3>5, <3>6
  <2>3. QED
    BY <2>1, <2>2
<1>13. Read(start)' = Read(start) + k
  <2>1. Len(handled) + 1 \in 1 .. Len(sent) + 1 /\ Progress \in Nat /\ k \in Nat
    BY <1>6, <1>9, StreamTypes
  <2>2. start[Len(handled) + 1] \in Nat
    BY <2>1 DEF Starts
  <2>3. QED
    BY <1>1, <1>12, <2>1, <2>2 DEF Read
<1>14. Len(handled) <= Len(handled') /\ Len(handled') <= Len(sent) /\ sent' = sent
  BY <1>1, <1>9, StreamTypes
<1>15. Layout(start)' /\ Pending(start)'
  <2> HIDE DEF k
  <2> QED
    BY <1>3, <1>8, <1>13, <1>14, PendingShift
<1>16. start \in Starts'
  BY <1>1 DEF Starts
<1>17. QED
  BY <1>4, <1>12, <1>15, <1>16 DEF InStep

\* The body half of the parser appends the next bytes of the packet in hand to
\* its beginning in packet_buffer, and leaves the rest of the buffer as it was.
LEMMA BodyInHand ==
  ASSUME IInv, Framing, Fits, ParseData,
         NEW n, n = LengthOf(packet_length),
         NEW k, k = ToCopy(Len(seg), n - packet_received),
         NEW buf, buf = Overwrite(packet_buffer, packet_received, seg, k)
  PROVE  /\ Len(handled) < Len(sent) /\ Current \in Seq(Byte)
         /\ n = Len(Current) /\ n \in Nat /\ n <= BufSize
         /\ k \in 0 .. Len(seg) /\ k <= n - packet_received
         /\ packet_received \in Nat /\ packet_received <= n
         /\ buf \in [1 .. BufSize -> Byte]
         /\ \A j \in 1 .. packet_received + k : buf[j] = Current[j]
         /\ \A j \in packet_received + k + 1 .. BufSize : buf[j] = packet_buffer[j]
<1>1. pc = "parse" /\ seg # << >> /\ parse_state = "DATA"
  BY DEF ParseData
<1>2. Delivered /\ InHand /\ \E start \in Starts : Layout(start) /\ Pending(start)
  BY <1>1 DEF Framing, InStep, Connected
<1>3. PICK start \in Starts : Layout(start) /\ Pending(start)
  BY <1>2
<1>4. /\ Len(seg) \in Nat /\ Len(seg) > 0 /\ Unread > 0 /\ Unread \in Nat
      /\ Len(seg) <= Unread
  <2>1. Len(seg) \in Nat /\ Len(wire) \in Nat /\ Len(seg) > 0
    BY <1>1, StreamTypes
  <2>2. QED
    BY <2>1 DEF Unread
<1>5. /\ packet_received \in Nat /\ n \in Nat /\ packet_received <= n /\ n <= BufSize
      /\ BufSize \in Nat /\ packet_buffer \in [1 .. BufSize -> Byte]
      /\ HeaderLength = 4 /\ Progress = HeaderLength + packet_received
  <2>1. /\ packet_received \in Nat /\ packet_length \in [1 .. HeaderLength -> Byte]
        /\ packet_received <= n /\ n <= BufSize /\ packet_buffer \in [1 .. BufSize -> Byte]
    BY <1>1 DEF IInv, ParserType, CopiesInBounds
  <2>2. n \in Nat
    BY <2>1, LengthOfType
  <2>3. HeaderLength = 4 /\ Progress = HeaderLength + packet_received
    BY <1>1, <2>1 DEF Progress, HeaderLength
  <2>4. QED
    BY <2>1, <2>2, <2>3, BufferAssumption
<1>6. /\ k \in 0 .. Len(seg) /\ k <= n - packet_received
      /\ \A j \in 1 .. packet_received + k :
           buf[j] = IF j <= packet_received THEN packet_buffer[j]
                    ELSE ByteAt(j - packet_received)
  <2>2. k \in 0 .. Len(seg) /\ k <= n - packet_received
    BY <1>1, <1>5, CopyFacts
  <2>3. \A j \in 1 .. packet_received + k :
          Overwrite(packet_buffer, packet_received, seg, k)[j] =
            IF j <= packet_received THEN packet_buffer[j] ELSE ByteAt(j - packet_received)
    <3>1. n \in Nat /\ packet_received <= n /\ BufSize \in Nat /\ n <= BufSize
      BY <1>5
    <3>2. packet_buffer \in [1 .. BufSize -> Byte]
      BY <1>5
    <3>3. QED
      BY <1>1, <3>1, <3>2, CopyFacts
  <2>4. QED
    BY <2>2, <2>3
<1>7. /\ Len(handled) < Len(sent) /\ Current \in Seq(Byte) /\ Len(Current) \in Nat
      /\ \A i \in 1 .. Unread : Progress + i <= FrameSize(Current) =>
           ByteAt(i) = Encode(Current)[Progress + i]
  BY <1>2, <1>3, <1>4, NextBytes
<1>8. n = Len(Current) /\ \A j \in 1 .. packet_received : packet_buffer[j] = Current[j]
  BY <1>1, <1>2, <1>7 DEF InHand
<1>9. ASSUME NEW j \in 1 .. packet_received + k
       PROVE  buf[j] = Current[j]
  <2>1. j \in 1 .. Len(Current)
    BY <1>5, <1>6, <1>8
  <2>2. CASE j <= packet_received
    BY <1>6, <1>8, <2>2
  <2>3. CASE ~(j <= packet_received)
    <3>1. buf[j] = ByteAt(j - packet_received)
      BY <1>6, <2>3
    <3>2. /\ j - packet_received \in 1 .. Unread
          /\ Progress + (j - packet_received) = HeaderLength + j
          /\ HeaderLength + j <= FrameSize(Current)
      BY <1>4, <1>5, <1>6, <1>7, <2>1, <2>3 DEF FrameSize
    <3>3. ByteAt(j - packet_received) = Encode(Current)[HeaderLength + j]
      BY <1>7, <3>2
    <3>4. QED
      BY <1>7, <2>1, <3>1, <3>3, EncodeFacts
  <2>4. QED
    BY <2>2, <2>3
<1>10. ASSUME NEW j \in packet_received + k + 1 .. BufSize
       PROVE  buf[j] = packet_buffer[j]
  <2>1. j \in 1 .. BufSize /\ ~(j <= packet_received + k)
    BY <1>4, <1>5, <1>6
  <2>2. QED
    BY <1>5, <2>1 DEF Overwrite
<1>11. buf \in [1 .. BufSize -> Byte]
  <2>1. /\ seg \in Seq(Byte) /\ k \in Nat /\ k <= Len(seg)
        /\ packet_received + k <= BufSize
    BY <1>4, <1>5, <1>6, StreamTypes
  <2>2. QED
    BY <1>5, <2>1, OverwriteType
<1>12. QED
  BY <1>5, <1>6, <1>7, <1>8, <1>9, <1>10, <1>11

\* The body half of the parser hands over what the peer sent.
LEMMA ParseDataFrames ==
  ASSUME IInv, IInv', Framing, ParseData
  PROVE  Framing'
<1>1. /\ pc = "parse" /\ seg # << >> /\ parse_state = "DATA"
      /\ UNCHANGED <<pc, wire, sent>>
  BY DEF ParseData
<1> SUFFICES ASSUME Fits PROVE Delivered' /\ InStep'
  BY <1>1 DEF Framing, Fits
<1>2. Delivered /\ InHand /\ \E start \in Starts : Layout(start) /\ Pending(start)
  BY <1>1 DEF Framing, InStep, Connected
<1>3. PICK start \in Starts : Layout(start) /\ Pending(start)
  BY <1>2
<1> DEFINE n   == LengthOf(packet_length)
           k   == ToCopy(Len(seg), n - packet_received)
           buf == Overwrite(packet_buffer, packet_received, seg, k)
<1>4. n = LengthOf(packet_length) /\ seg' = Drop(seg, k)
  BY DEF ParseData
<1>5. /\ packet_received \in Nat /\ n \in Nat /\ packet_received <= n /\ n <= BufSize
      /\ HeaderLength = 4 /\ Progress = HeaderLength + packet_received
      /\ k \in 0 .. Len(seg) /\ k <= n - packet_received
  <2>1. /\ packet_received \in Nat /\ n \in Nat /\ packet_received <= n /\ n <= BufSize
        /\ k \in 0 .. Len(seg) /\ k <= n - packet_received
    BY BodyInHand
  <2>2. QED
    BY <1>1, <2>1 DEF Progress, HeaderLength
<1>6. /\ Len(handled) < Len(sent) /\ Current \in Seq(Byte) /\ Len(Current) \in Nat
      /\ n = Len(Current) /\ \A j \in 1 .. packet_received + k : buf[j] = Current[j]
  BY BodyInHand
<1>7. /\ k \in 0 .. Unread /\ Unread' = Unread - k
      /\ \A j \in 1 .. Unread - k : ByteAt(j)' = ByteAt(j + k)
  BY <1>1, <1>4, <1>5, SegmentShift
<1> HIDE DEF n, k, buf
<1>8. Len(handled) \in Nat /\ Len(sent) \in Nat /\ handled \in Seq(Seq(Byte))
  BY StreamTypes
<1>9. start \in Starts'
  BY <1>1 DEF Starts
<1>10. CASE packet_received + k < n
  <2>1. /\ packet_received' = packet_received + k /\ packet_buffer' = buf
        /\ UNCHANGED <<parse_state, packet_length, handled>>
    BY <1>10 DEF ParseData, n, k, buf
  <2>2. Delivered' /\ Current' = Current
    BY <1>1, <1>2, <2>1 DEF Delivered, Current
  <2>3. InHand'
    <3>1. LengthOf(packet_length') = Len(Current)
      BY <1>6, <2>1 DEF n
    <3>2. QED
      BY <1>1, <1>6, <2>1, <2>2, <3>1 DEF InHand
  <2>4. Progress' = Progress + k
    BY <1>1, <1>5, <2>1 DEF Progress
  <2>5. Read(start)' = Read(start) + k
    <3>1. Len(handled) + 1 \in 1 .. Len(sent) + 1 /\ Progress \in Nat /\ k \in Nat
      BY <1>5, <1>6, <1>8, StreamTypes
    <3>2. start[Len(handled) + 1] \in Nat
      BY <3>1 DEF Starts
    <3>3. QED
      BY <2>1, <2>4, <3>1, <3>2 DEF Read
  <2>6. Len(handled) <= Len(handled') /\ Len(handled') <= Len(sent) /\ sent' = sent
    BY <1>1, <1>6, <1>8, <2>1
  <2>7. Layout(start)' /\ Pending(start)'
    BY <1>3, <1>7, <2>5, <2>6, PendingShift
  <2>8. QED
    BY <1>9, <2>2, <2>3, <2>7 DEF InStep
<1>11. CASE ~(packet_received + k < n)
  <2>1. /\ handled' = Append(handled, SubSeq(buf, 1, n))
        /\ parse_state' = "HEADER" /\ packet_received' = 0
    BY <1>11 DEF ParseData, n, k, buf
  <2>2. packet_received + k = n /\ k \in Nat
    BY <1>5, <1>11
  <2>3. SubSeq(buf, 1, n) = Current
    <3>1. \A j \in 1 .. n : buf[j] = Current[j] /\ Current[j] \in Byte
      BY <1>6, <2>2
    <3>2. /\ SubSeq(buf, 1, n) \in Seq(Byte) /\ Len(SubSeq(buf, 1, n)) = n
          /\ \A j \in 1 .. n : SubSeq(buf, 1, n)[j] = buf[j]
      BY <1>5, <3>1, SubSeqProperties
    <3>3. QED
      BY <1>6, <3>1, <3>2, SeqEqual
  <2>4. /\ Len(handled') = Len(handled) + 1
        /\ \A i \in 1 .. Len(handled) : handled'[i] = handled[i]
        /\ handled'[Len(handled) + 1] = Current
    BY <1>6, <1>8, <2>1, <2>3, AppendProperties
  <2>5. Delivered'
    <3>1. ASSUME NEW i \in 1 .. Len(handled) + 1 PROVE handled'[i] = sent[i]
      <4>1. CASE i = Len(handled) + 1
        BY <2>4, <4>1 DEF Current
      <4>2. CASE i # Len(handled) + 1
        <5>1. i \in 1 .. Len(handled)
          BY <1>8, <4>2
        <5>2. QED
          BY <1>2, <2>4, <5>1 DEF Delivered
      <4>3. QED
        BY <4>1, <4>2
    <3>2. QED
      BY <1>1, <1>6, <1>8, <2>4, <3>1 DEF Delivered
  <2>6. InHand' /\ Progress' = 0
    BY <2>1 DEF InHand, Progress
  <2>7. Read(start)' = Read(start) + k
    <3>1. /\ Len(handled) + 1 \in 1 .. Len(sent) /\ Len(handled) + 1 \in 1 .. Len(sent) + 1
          /\ Len(handled) + 2 \in 1 .. Len(sent) + 1
      BY <1>6, <1>8
    <3>2. start[Len(handled) + 1] \in Nat /\ start[Len(handled) + 2] \in Nat
      BY <3>1 DEF Starts
    <3>3. start[Len(handled) + 1 + 1] = start[Len(handled) + 1] + FrameSize(Current)
      BY <1>3, <3>1 DEF Layout, Current
    <3>4. start[Len(handled) + 2] = start[Len(handled) + 1] + HeaderLength + n
      <4>1. Len(handled) + 1 + 1 = Len(handled) + 2
        BY <1>8
      <4>2. FrameSize(Current) = HeaderLength + n
        BY <1>6 DEF FrameSize
      <4>3. start[Len(handled) + 2] = start[Len(handled) + 1] + FrameSize(Current)
        BY <3>3, <4>1
      <4>4. QED
        BY <1>5, <3>2, <4>2, <4>3, SMTT(30)
    <3>5. Read(start) = start[Len(handled) + 1] + Progress
      BY DEF Read
    <3>6. Read(start)' = start[Len(handled) + 2] + 0
      BY <1>8, <2>4, <2>6 DEF Read
    <3>7. PICK a \in Nat, b \in Nat :
            a = start[Len(handled) + 1] /\ b = start[Len(handled) + 2]
      BY <3>2
    <3>8. Read(start) = a + Progress /\ Read(start)' = b + 0 /\ b = a + HeaderLength + n
      BY <3>4, <3>5, <3>6, <3>7
    <3>9. QED
      BY <1>5, <2>2, <3>8
  <2>8. Len(handled) <= Len(handled') /\ Len(handled') <= Len(sent) /\ sent' = sent
    BY <1>1, <1>6, <1>8, <2>4
  <2>9. Layout(start)' /\ Pending(start)'
    BY <1>3, <1>7, <2>7, <2>8, PendingShift
  <2>10. QED
    BY <1>9, <2>5, <2>6, <2>9 DEF InStep
<1>12. QED
  BY <1>10, <1>11

\* netconn_recv moves the beginning of the wire into the segment in hand and
\* leaves the order of the bytes alone.
LEMMA RecvFrames ==
  ASSUME IInv, IInv', Framing, NEW m \in Segments, Recv(m)
  PROVE  Framing'
<1>1. /\ pc = "recv" /\ pc' = "parse" /\ seg = << >>
      /\ UNCHANGED <<parse_state, packet_length, packet_received, packet_buffer, sent, handled>>
  BY DEF Recv, Framing, parseVars
<1> SUFFICES ASSUME Fits PROVE Delivered' /\ InStep'
  BY <1>1 DEF Framing, Fits
<1>2. Delivered /\ InHand /\ \E start \in Starts : Layout(start) /\ Pending(start)
  BY <1>1 DEF Framing, InStep, Connected
<1>3. PICK start \in Starts : Layout(start) /\ Pending(start)
  BY <1>2
<1>4. Delivered' /\ InHand' /\ Progress' = Progress
  BY <1>1, <1>2 DEF Delivered, InHand, Progress, Current
<1>5. /\ wire \in Seq(Byte) /\ Len(wire) \in Nat /\ Unread \in Nat /\ Len(seg) = 0
      /\ Len(handled) \in Nat /\ Len(sent) \in Nat /\ Len(handled) <= Len(sent)
      /\ Progress \in Nat
  BY <1>1, <1>2, StreamTypes DEF Delivered
<1>6. PICK c \in 0 .. Len(wire) : seg' = SubSeq(wire, 1, c) /\ wire' = Drop(wire, c)
  BY <1>5, SegmentAssumption DEF Recv, AtMost
<1>7. /\ Len(seg') = c /\ \A j \in 1 .. c : seg'[j] = wire[j]
  <2>1. \A i \in 1 .. c : wire[i] \in Byte
    BY <1>5
  <2>2. QED
    BY <1>5, <1>6, <2>1, SubSeqProperties
<1>8. /\ Len(wire') = Len(wire) - c
      /\ \A j \in 1 .. Len(wire) - c : wire'[j] = wire[j + c]
  <2>1. \A i \in c + 1 .. Len(wire) : wire[i] \in Byte
    BY <1>5
  <2>2. /\ Len(wire') = IF c + 1 <= Len(wire) THEN Len(wire) - (c + 1) + 1 ELSE 0
        /\ \A j \in 1 .. Len(wire) - (c + 1) + 1 : wire'[j] = wire[c + 1 + j - 1]
    BY <1>5, <1>6, <2>1, SubSeqProperties DEF Drop
  <2>3. Len(wire') = Len(wire) - c
    BY <1>5, <2>2
  <2>4. ASSUME NEW j \in 1 .. Len(wire) - c PROVE wire'[j] = wire[j + c]
    <3>1. j \in 1 .. Len(wire) - (c + 1) + 1 /\ c + 1 + j - 1 = j + c
      BY <1>5
    <3>2. QED
      BY <2>2, <3>1
  <2>5. QED
    BY <2>3, <2>4
<1>9. Unread' = Unread - 0 /\ Unread = Len(wire)
  BY <1>5, <1>7, <1>8 DEF Unread
<1>10. ASSUME NEW j \in 1 .. Unread - 0
       PROVE  ByteAt(j)' = ByteAt(j + 0)
  <2>1. j \in 1 .. Len(wire) /\ j + 0 = j /\ ByteAt(j) = wire[j]
    BY <1>5, <1>9 DEF ByteAt
  <2>2. CASE j <= c
    BY <1>7, <2>1, <2>2 DEF ByteAt
  <2>3. CASE ~(j <= c)
    <3>1. j - c \in 1 .. Len(wire) - c /\ (j - c) + c = j
      BY <1>5, <2>1, <2>3
    <3>2. QED
      BY <1>7, <1>8, <2>1, <2>3, <3>1 DEF ByteAt
  <2>4. QED
    BY <2>2, <2>3
<1>11. Read(start)' = Read(start) + 0
  <2>1. Len(handled) + 1 \in 1 .. Len(sent) + 1
    BY <1>5
  <2>2. start[Len(handled) + 1] \in Nat
    BY <2>1 DEF Starts
  <2>3. QED
    BY <1>1, <1>4, <1>5, <2>2 DEF Read
<1>12. 0 \in 0 .. Unread /\ Len(handled) <= Len(handled') /\ Len(handled') <= Len(sent)
       /\ sent' = sent
  BY <1>1, <1>5
<1>13. Layout(start)' /\ Pending(start)'
  BY <1>3, <1>9, <1>10, <1>11, <1>12, PendingShift
<1>14. start \in Starts'
  BY <1>1 DEF Starts
<1>15. QED
  BY <1>4, <1>13, <1>14 DEF InStep

\* Another packet makes the stream longer by its frame and leaves what the task
\* has of the stream alone.
LEMMA PeerSendFrames ==
  ASSUME IInv, IInv', Framing, NEW p \in Seq(Byte), PeerSend(p)
  PROVE  Framing'
<1>1. /\ sent' = Append(sent, p) /\ wire' = wire \o Encode(p)
      /\ UNCHANGED <<pc, parse_state, packet_length, packet_received, packet_buffer,
                     seg, handled>>
  BY DEF PeerSend, deviceVars, parseVars
<1> DEFINE L == Len(sent)
<1>2. /\ p \in Seq(Byte) /\ L \in Nat /\ sent \in Seq(Seq(Byte)) /\ FrameSize(p) \in Nat
      /\ Len(Encode(p)) = FrameSize(p)
  BY StreamTypes, EncodeFacts
<1>3. /\ Len(sent') = L + 1 /\ sent'[L + 1] = p
      /\ \A i \in 1 .. L : sent'[i] = sent[i]
  BY <1>1, <1>2, AppendProperties
<1> HIDE DEF L
<1>4. Fits' => Fits
  BY <1>2, <1>3 DEF Fits, L
<1> SUFFICES ASSUME Fits PROVE Delivered' /\ InStep'
  BY <1>1, <1>4 DEF Framing
<1>5. Delivered
  BY DEF Framing
<1>6. /\ Len(handled) \in Nat /\ Len(handled) <= L /\ Progress \in Nat
      /\ packet_received \in Nat /\ Len(seg) \in Nat /\ Len(wire) \in Nat /\ Unread \in Nat
  BY <1>5, StreamTypes DEF Delivered, L
<1>7. Delivered'
  BY <1>1, <1>2, <1>3, <1>5, <1>6 DEF Delivered, L
<1> SUFFICES ASSUME Connected PROVE InStep'
  BY <1>1, <1>7 DEF InStep, Connected
<1>8. InHand /\ \E start \in Starts : Layout(start) /\ Pending(start)
  BY DEF Framing, InStep
<1>9. PICK start \in [1 .. L + 1 -> Nat] : Layout(start) /\ Pending(start)
  BY <1>8 DEF Starts, L
<1>10. PICK longer : longer = [i \in 1 .. L + 2 |-> IF i <= L + 1 THEN start[i]
                                                    ELSE start[L + 1] + FrameSize(p)]
  OBVIOUS
<1>11. /\ L + 1 \in 1 .. L + 1 /\ start[L + 1] \in Nat
       /\ \A i \in 1 .. L + 1 : longer[i] = start[i] /\ start[i] \in Nat
       /\ longer[L + 2] = start[L + 1] + FrameSize(p)
       /\ longer \in [1 .. L + 2 -> Nat]
  <2>1. L + 1 \in 1 .. L + 1 /\ start[L + 1] \in Nat
    BY <1>2
  <2>2. ASSUME NEW i \in 1 .. L + 1 PROVE longer[i] = start[i] /\ start[i] \in Nat
    <3>1. i \in 1 .. L + 2 /\ i <= L + 1
      BY <1>2
    <3>2. QED
      BY <1>10, <3>1
  <2>3. longer[L + 2] = start[L + 1] + FrameSize(p)
    <3>1. L + 2 \in 1 .. L + 2 /\ ~(L + 2 <= L + 1)
      BY <1>2
    <3>2. QED
      BY <1>10, <3>1
  <2>4. ASSUME NEW i \in 1 .. L + 2 PROVE longer[i] \in Nat
    <3>1. CASE i <= L + 1
      BY <1>2, <2>2, <3>1
    <3>2. CASE ~(i <= L + 1)
      <4>1. i = L + 2
        BY <1>2, <3>2
      <4>2. start[L + 1] + FrameSize(p) \in Nat
        BY <1>2, <2>1
      <4>3. QED
        BY <2>3, <4>1, <4>2
    <3>3. QED
      BY <3>1, <3>2
  <2>5. longer \in [1 .. L + 2 -> Nat]
    BY <1>10, <2>4
  <2>6. QED
    BY <2>1, <2>2, <2>3, <2>5
<1>12. longer \in Starts'
  <2>1. Len(sent') + 1 = L + 2
    BY <1>2, <1>3
  <2>2. QED
    BY <1>11, <2>1 DEF Starts
<1>13. \A i \in 1 .. L : FrameSize(sent[i]) \in Nat
  BY StreamTypes DEF L
<1>14. Layout(longer)'
  <2>1. ASSUME NEW i \in 1 .. L + 1
        PROVE  longer[i + 1] = longer[i] + FrameSize(sent'[i])
    <3>1. CASE i = L + 1
      <4>1. i + 1 = L + 2
        BY <1>2, <3>1
      <4>2. QED
        BY <1>3, <1>11, <3>1, <4>1
    <3>2. CASE i # L + 1
      <4>1. i \in 1 .. L /\ i \in 1 .. L + 1 /\ i + 1 \in 1 .. L + 1
        BY <1>2, <3>2
      <4>2. start[i + 1] = start[i] + FrameSize(sent[i])
        BY <1>9, <4>1 DEF Layout, L
      <4>3. QED
        BY <1>3, <1>11, <4>1, <4>2
    <3>3. QED
      BY <3>1, <3>2
  <2>2. ASSUME NEW i \in 1 .. L + 1, NEW j \in 1 .. L + 2, i < j
        PROVE  longer[i] + FrameSize(sent'[i]) <= longer[j]
    <3>1. CASE i = L + 1
      <4>1. j = L + 2
        BY <1>2, <2>2, <3>1
      <4>2. longer[j] \in Nat
        BY <1>11
      <4>3. QED
        BY <1>2, <1>3, <1>11, <3>1, <4>1, <4>2
    <3>2. CASE i # L + 1
      <4>1. i \in 1 .. L /\ i \in 1 .. L + 1 /\ i < L + 1
        BY <1>2, <3>2
      <4>2. CASE j = L + 2
        <5>1. start[i] + FrameSize(sent[i]) <= start[L + 1]
          BY <1>9, <1>11, <4>1 DEF Layout, L
        <5>2. start[i] + FrameSize(sent[i]) \in Nat
          BY <1>11, <1>13, <4>1
        <5>3. start[L + 1] <= longer[L + 2]
          BY <1>2, <1>11
        <5>4. longer[L + 2] \in Nat
          BY <1>11, <4>2
        <5>5. start[i] + FrameSize(sent[i]) <= longer[L + 2]
          BY <1>11, <5>1, <5>2, <5>3, <5>4
        <5>6. QED
          BY <1>3, <1>11, <4>1, <4>2, <5>5
      <4>3. CASE j # L + 2
        <5>1. j \in 1 .. L + 1
          BY <1>2, <4>3
        <5>2. start[i] + FrameSize(sent[i]) <= start[j]
          BY <1>9, <2>2, <4>1, <5>1 DEF Layout, L
        <5>3. QED
          BY <1>3, <1>11, <4>1, <5>1, <5>2
      <4>4. QED
        BY <4>2, <4>3
    <3>3. QED
      BY <3>1, <3>2
  <2>3. Len(sent') + 1 = L + 2
    BY <1>2, <1>3
  <2>4. QED
    BY <1>3, <2>1, <2>2, <2>3 DEF Layout, FrameSize
<1>15. Read(longer)' = Read(start) /\ Read(start) \in Nat
       /\ Unread = start[L + 1] - Read(start)
  <2>1. Len(handled) + 1 \in 1 .. L + 1
    BY <1>2, <1>6
  <2>2. longer[Len(handled) + 1] = start[Len(handled) + 1] /\ start[Len(handled) + 1] \in Nat
    BY <1>11, <2>1
  <2>3. Progress' = Progress
    BY <1>1 DEF Progress
  <2>4. Read(start) \in Nat
    BY <1>6, <2>2 DEF Read
  <2>5. QED
    BY <1>1, <1>9, <2>2, <2>3, <2>4 DEF Read, Pending, L
<1>16. /\ Len(wire') = Len(wire) + FrameSize(p)
       /\ \A i \in 1 .. Len(wire) + FrameSize(p) :
            wire'[i] = IF i <= Len(wire) THEN wire[i] ELSE Encode(p)[i - Len(wire)]
  <2>1. wire \in Seq(Byte) /\ Encode(p) \in Seq(Byte)
    <3>1. Header(Len(p)) \in Seq(Byte)
      BY <1>2, HeaderType
    <3>2. QED
      BY <1>2, <3>1, StreamTypes, ConcatProperties DEF Encode
  <2>2. QED
    BY <1>1, <1>2, <2>1, ConcatProperties
<1>17. Unread' = Unread + FrameSize(p)
  BY <1>1, <1>2, <1>6, <1>16 DEF Unread
<1>18. ASSUME NEW x \in 1 .. Unread
       PROVE  ByteAt(x)' = ByteAt(x)
  <2>1. CASE x <= Len(seg)
    BY <1>1, <2>1 DEF ByteAt
  <2>2. CASE ~(x <= Len(seg))
    <3>1. /\ x - Len(seg) \in 1 .. Len(wire) + FrameSize(p)
          /\ x - Len(seg) <= Len(wire)
      BY <1>2, <1>6, <2>2 DEF Unread
    <3>2. QED
      BY <1>1, <1>16, <2>2, <3>1 DEF ByteAt
  <2>3. QED
    BY <2>1, <2>2
<1>19. ASSUME NEW j \in 1 .. FrameSize(p), NEW x, x = Unread + j
       PROVE  ByteAt(x)' = Encode(p)[j]
  <2>1. /\ ~(x <= Len(seg)) /\ x - Len(seg) = Len(wire) + j
        /\ Len(wire) + j \in 1 .. Len(wire) + FrameSize(p)
        /\ ~(Len(wire) + j <= Len(wire)) /\ (Len(wire) + j) - Len(wire) = j
    <3>1. j \in Nat /\ j >= 1 /\ j <= FrameSize(p)
      BY <1>2
    <3>2. x = Len(seg) + Len(wire) + j
      BY <1>19 DEF Unread
    <3>3. QED
      BY <1>2, <1>6, <3>1, <3>2
  <2>2. wire'[Len(wire) + j] = Encode(p)[j]
    BY <1>16, <2>1
  <2>3. ByteAt(x)' = wire'[Len(wire) + j]
    BY <1>1, <2>1 DEF ByteAt
  <2>4. QED
    BY <2>2, <2>3
<1>20. Unread' = longer[Len(sent') + 1] - Read(longer)'
  <2>1. Len(sent') + 1 = L + 2
    BY <1>2, <1>3
  <2>2. Unread' = start[L + 1] + FrameSize(p) - Read(start)
    BY <1>2, <1>11, <1>15, <1>17
  <2>3. longer[Len(sent') + 1] = start[L + 1] + FrameSize(p)
    BY <1>11, <2>1
  <2>4. Read(longer)' = Read(start)
    BY <1>15
  <2>5. PICK a \in Nat, f \in Nat, b \in Nat :
          a = start[L + 1] /\ f = FrameSize(p) /\ b = Read(start)
    BY <1>2, <1>11, <1>15
  <2>6. PICK e, r : e = longer[Len(sent') + 1] /\ r = Read(longer)'
    OBVIOUS
  <2>7. e = a + f /\ r = b
    BY <2>3, <2>4, <2>5, <2>6
  <2>8. Unread' = a + f - b
    BY <2>2, <2>5
  <2>9. Unread' = e - r
    BY <2>7, <2>8
  <2>10. QED
    BY <2>6, <2>9
<1>21. ASSUME NEW i \in Len(handled) + 1 .. L + 1, NEW j \in 1 .. FrameSize(sent'[i]),
              Read(start) < longer[i] + j, NEW x, x = longer[i] + j - Read(start)
       PROVE  ByteAt(x)' = Encode(sent'[i])[j]
  <2>1. CASE i = L + 1
    <3>1. sent'[i] = p /\ longer[i] = start[L + 1]
      BY <1>3, <1>11, <2>1
    <3>2. j \in 1 .. FrameSize(p) /\ j \in Nat
      BY <1>2, <3>1
    <3>3. x = Unread + j
      BY <1>11, <1>15, <1>21, <3>1, <3>2
    <3>4. QED
      BY <1>19, <3>1, <3>2, <3>3
  <2>2. CASE i # L + 1
    <3>1. i \in 1 .. L /\ i \in 1 .. L + 1 /\ i < L + 1 /\ i \in Len(handled) + 1 .. L
      BY <1>2, <1>6, <2>2
    <3>2. sent'[i] = sent[i] /\ longer[i] = start[i] /\ start[i] \in Nat
          /\ FrameSize(sent[i]) \in Nat
      BY <1>3, <1>11, <1>13, <3>1
    <3>3. j \in 1 .. FrameSize(sent[i]) /\ j \in Nat
      BY <3>2
    <3>4. start[i] + FrameSize(sent[i]) <= start[L + 1]
      BY <1>9, <1>11, <3>1 DEF Layout, L
    <3>5. x \in 1 .. Unread
      <4>1. /\ Read(start) = Read(start) + 0 /\ 0 \in Nat /\ Unread - 0 = Unread
            /\ Read(start) < start[i] + j /\ x = start[i] + j - Read(start)
        BY <1>6, <1>15, <1>21, <3>2
      <4>2. start[i] + j - Read(start) \in 1 .. Unread - 0
        BY <1>6, <1>11, <1>15, <3>2, <3>3, <3>4, <4>1, Offsets
      <4>3. QED
        BY <4>1, <4>2
    <3>6. ByteAt(x) = Encode(sent[i])[j]
      BY <1>9, <1>21, <3>1, <3>2, <3>3 DEF Pending, L
    <3>7. QED
      BY <1>18, <3>2, <3>5, <3>6
  <2>3. QED
    BY <2>1, <2>2
<1>22. Pending(longer)'
  <2>1. Len(handled') = Len(handled) /\ Len(sent') = L + 1
    BY <1>1, <1>3
  <2>2. ASSUME NEW i \in Len(handled) + 1 .. L + 1, NEW j \in 1 .. FrameSize(sent'[i]),
               Read(longer)' < longer[i] + j
        PROVE  (ByteAt(longer[i] + j - Read(longer)) = Encode(sent[i])[j])'
    <3>1. PICK x : x = longer[i] + j - Read(start)
      OBVIOUS
    <3>2. ByteAt(x)' = Encode(sent'[i])[j]
      BY <1>15, <1>21, <2>2, <3>1
    <3>3. ByteAt(longer[i] + j - Read(longer))' = ByteAt(x)'
      BY <1>15, <3>1 DEF ByteAt
    <3>4. QED
      BY <3>2, <3>3 DEF Encode, Header
  <2>3. QED
    BY <1>20, <2>1, <2>2 DEF Pending, FrameSize
<1>23. InHand'
  <2>1. CASE Len(handled) = L
    <3>1. start[Len(handled) + 1] \in Nat
      BY <1>11, <2>1
    <3>2. Progress = 0
      <4>1. Len(handled) + 1 = L + 1 /\ Unread = start[L + 1] - Read(start)
        BY <1>15, <2>1
      <4>2. Read(start) = start[L + 1] + Progress
        BY <4>1 DEF Read
      <4>3. PICK x : x = start[L + 1]
        OBVIOUS
      <4>4. x \in Nat /\ Progress \in Nat /\ Unread \in Nat
        BY <1>6, <3>1, <4>1, <4>3
      <4>5. Unread = x - (x + Progress)
        BY <4>1, <4>2, <4>3
      <4>6. QED
        BY <4>4, <4>5
    <3>3. parse_state = "HEADER" /\ packet_received = 0
      <4>1. parse_state \in {"HEADER", "DATA"}
        BY DEF IInv, ParserType
      <4>2. QED
        BY <1>6, <3>2, <4>1 DEF Progress, HeaderLength
    <3>4. QED
      BY <1>1, <3>3 DEF InHand
  <2>2. CASE Len(handled) # L
    <3>1. Len(handled) < L /\ Len(handled) + 1 \in 1 .. L
      BY <1>2, <1>6, <2>2
    <3>2. Current' = Current
      BY <1>1, <1>3, <3>1 DEF Current
    <3>3. QED
      BY <1>1, <1>8, <3>1, <3>2 DEF InHand, L
  <2>3. QED
    BY <2>1, <2>2
<1>24. QED
  BY <1>12, <1>14, <1>22, <1>23 DEF InStep

\* A new connection begins with an empty stream.
LEMMA ConnectFrames ==
  ASSUME Framing, Connect
  PROVE  Framing'
<1>1. /\ seg' = << >> /\ wire' = << >> /\ sent' = << >> /\ handled' = << >>
      /\ parse_state' = "HEADER" /\ packet_received' = 0
  BY DEF Connect, Framing
<1>2. PICK start : start = [i \in 1 .. 1 |-> 0]
  OBVIOUS
<1>3. start \in Starts' /\ start[1] = 0
  BY <1>1, <1>2 DEF Starts
<1>4. Delivered' /\ InHand' /\ Layout(start)'
  BY <1>1 DEF Delivered, InHand, Layout
<1>5. Pending(start)'
  BY <1>1, <1>3 DEF Pending, Unread, Read, Progress
<1>6. QED
  BY <1>1, <1>3, <1>4, <1>5 DEF Framing, InStep

\* The other steps leave the stream alone, or there is none.
LEMMA RestFrames ==
  ASSUME Framing,
         \/ RecvError \/ SegmentDone \/ Cleanup
         \/ \E how \in {"closed", "reset"} : PeerStop(how)
         \/ UNCHANGED vars
  PROVE  Framing'
<1>1. /\ UNCHANGED <<parse_state, packet_length, packet_received, packet_buffer, seg,
                     sent, handled>>
      /\ Connected' => Connected /\ UNCHANGED wire
      /\ pc' # "parse" => seg = << >>
  <2>1. CASE RecvError
    BY <2>1 DEF RecvError, Connected, Framing, parseVars
  <2>2. CASE SegmentDone
    BY <2>2 DEF SegmentDone, Connected, Framing, parseVars
  <2>3. CASE Cleanup
    BY <2>3 DEF Cleanup, Connected, Framing, parseVars
  <2>4. CASE \E how \in {"closed", "reset"} : PeerStop(how)
    BY <2>4 DEF PeerStop, deviceVars, Connected, Framing, parseVars
  <2>5. CASE UNCHANGED vars
    BY <2>5 DEF vars, Connected, Framing, parseVars
  <2>6. QED
    BY <2>1, <2>2, <2>3, <2>4, <2>5
<1>2. Fits' = Fits /\ Delivered' = Delivered /\ InHand' = InHand
  BY <1>1 DEF Fits, Delivered, InHand, Current
<1>3. ASSUME UNCHANGED wire, NEW start
      PROVE  /\ (start \in Starts)' <=> start \in Starts
             /\ Layout(start)' <=> Layout(start)
             /\ Pending(start)' <=> Pending(start)
  BY <1>1, <1>3 DEF Starts, Layout, Pending, Unread, Read, Progress, ByteAt,
                    FrameSize, Encode, Header
<1>4. QED
  BY <1>1, <1>2, <1>3 DEF Framing, InStep

\* Every step keeps the stream in order.
LEMMA StepFrames == IInv /\ IInv' /\ Framing /\ [Next]_vars => Framing'
<1> SUFFICES ASSUME IInv, IInv', Framing, [Next]_vars PROVE Framing'
  OBVIOUS
<1>1. CASE ParseHeader
  BY <1>1, ParseHeaderFrames
<1>2. CASE ParseData
  BY <1>2, ParseDataFrames
<1>3. CASE \E m \in Segments : Recv(m)
  BY <1>3, RecvFrames
<1>4. CASE \E p \in Packets : PeerSend(p)
  BY <1>4, PeerSendFrames, PacketAssumption
<1>5. CASE Connect
  BY <1>5, ConnectFrames
<1>6. QED
  BY <1>1, <1>2, <1>3, <1>4, <1>5, RestFrames DEF Next, Task, Environment

\* As long as the peer sends no packet larger than packet_buffer, what reaches
\* process_received_packet is what it sent, in order and unaltered.
THEOREM PacketsArrive == Spec => []FramingFaithful
<1>1. Init => Framing
  BY DEF Init, Framing, Fits, Delivered, InStep, Connected
<1>2. IInv /\ Framing => FramingFaithful
  <2> SUFFICES ASSUME IInv, Framing, Fits PROVE IsPrefixOf(handled, sent)
    BY DEF FramingFaithful, Fits
  <2>1. /\ Len(handled) \in Nat /\ Len(sent) \in Nat /\ Len(handled) <= Len(sent)
        /\ handled \in Seq(Seq(Byte)) /\ sent \in Seq(Seq(Byte))
        /\ \A i \in 1 .. Len(handled) : handled[i] = sent[i]
    BY StreamTypes DEF Framing, Delivered
  <2>2. \A i \in 1 .. Len(handled) : sent[i] \in Seq(Byte)
    BY <2>1
  <2>3. /\ SubSeq(sent, 1, Len(handled)) \in Seq(Seq(Byte))
        /\ Len(SubSeq(sent, 1, Len(handled))) = Len(handled)
        /\ \A i \in 1 .. Len(handled) : SubSeq(sent, 1, Len(handled))[i] = sent[i]
    BY <2>1, <2>2, SubSeqProperties
  <2>4. handled = SubSeq(sent, 1, Len(handled))
    BY <2>1, <2>3, SeqEqual
  <2>5. QED
    BY <2>1, <2>4 DEF IsPrefixOf
<1>3. Spec => []IInv
  BY Invariance
<1>4. IInv /\ IInv' /\ Framing /\ [Next]_vars => Framing'
  BY StepFrames
<1>5. QED
  BY <1>1, <1>2, <1>3, <1>4, PTL DEF Spec
=============================================================================
