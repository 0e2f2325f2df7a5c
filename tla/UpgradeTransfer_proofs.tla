----------------------- MODULE UpgradeTransfer_proofs -----------------------
(***************************************************************************)
(* Theorems about UpgradeTransfer for every image, chunking, segmentation, *)
(* and pattern of lost connections, resets and FatFs failures.             *)
(***************************************************************************)
EXTENDS UpgradeTransfer, Framing_proofs, WellFoundedInduction

(***************************************************************************)
(* Numbers in a text                                                       *)
(***************************************************************************)

\* A set of natural numbers that is not empty has a least element.
LEMMA Least ==
  ASSUME NEW T \in SUBSET Nat, T # {}
  PROVE  \E x \in T : \A y \in T : x <= y
<1> DEFINE R == {ss \in Nat \X Nat : ss[1] < ss[2]}
<1>1. IsWellFoundedOn(R, Nat)
  BY NatLessThanWellFounded DEF OpToRel
<1>2. \A x, y \in Nat : y < x => <<y, x>> \in R
  OBVIOUS
<1> HIDE DEF R
<1>3. T \subseteq Nat /\ T # {}
  OBVIOUS
<1>4. PICK x \in T : \A y \in T : ~(<<y, x>> \in R)
  BY <1>1, <1>3, WFMin, Zenon
<1>5. ASSUME NEW y \in T PROVE x <= y
  <2>1. x \in Nat /\ y \in Nat
    OBVIOUS
  <2>2. ~(y < x)
    BY <1>2, <1>4, <2>1
  <2>3. QED
    BY <2>1, <2>2
<1>6. QED
  BY <1>5

\* Induction over the natural numbers, for a set of them.
LEMMA Induction ==
  ASSUME NEW T \in SUBSET Nat, 0 \in T, \A n \in T : n + 1 \in T
  PROVE  \A n \in Nat : n \in T
<1>1. SUFFICES ASSUME Nat \ T # {} PROVE FALSE
  OBVIOUS
<1>2. PICK x \in Nat \ T : \A y \in Nat \ T : x <= y
  BY <1>1, Least
<1>3. x # 0 /\ x - 1 \in Nat /\ ~(x <= x - 1)
  BY <1>2
<1>4. x - 1 \in T
  BY <1>2, <1>3
<1>5. QED
  BY <1>3, <1>4

\* The digits at the beginning of a text end somewhere.
LEMMA DigitRunFacts ==
  ASSUME NEW s \in Seq(Byte)
  PROVE  /\ DigitRun(s) \in 0 .. Len(s)
         /\ \A i \in 1 .. DigitRun(s) : s[i] \in Digits
         /\ DigitRun(s) < Len(s) => s[DigitRun(s) + 1] \notin Digits
<1> DEFINE Run(n) == /\ \A i \in 1 .. n : s[i] \in Digits
                     /\ n < Len(s) => s[n + 1] \notin Digits
           Others == {i \in 1 .. Len(s) : s[i] \notin Digits}
<1>1. \E n \in 0 .. Len(s) : Run(n)
  <2>1. CASE Others = {}
    BY <2>1
  <2>2. CASE Others # {}
    <3>1. PICK x \in Others : \A y \in Others : x <= y
      <4>1. Others \in SUBSET Nat
        OBVIOUS
      <4> HIDE DEF Others
      <4>2. QED
        BY <2>2, <4>1, Least
    <3>2. x - 1 \in 0 .. Len(s) /\ x - 1 + 1 = x
      BY <3>1
    <3>3. \A i \in 1 .. x - 1 : s[i] \in Digits
      BY <3>1
    <3>4. QED
      BY <3>1, <3>2, <3>3
  <2>3. QED
    BY <2>1, <2>2
<1>2. DigitRun(s) = CHOOSE n \in 0 .. Len(s) : Run(n)
  BY DEF DigitRun
<1>3. QED
  BY <1>1, <1>2

\* What atoi makes of a text that begins with a digit: at least that digit,
\* and just that digit when no other follows.
LEMMA AtoiFacts ==
  ASSUME NEW s \in Seq(Byte), Len(s) > 1, s[1] \in Digits
  PROVE  /\ Atoi(s) \in Nat /\ s[1] <= Atoi(s)
         /\ s[2] \notin Digits => Atoi(s) = s[1]
<1> DEFINE N == Len(s)
           Step(f, n) == IF n = 0 THEN 0 ELSE 10 * f[n - 1] + s[n]
           IsValue(f) == f = [n \in 0 .. N |-> Step(f, n)]
           value == CHOOSE f : IsValue(f)
<1>1. N \in Nat /\ \A i \in 1 .. N : s[i] \in Nat
  BY BaseAssumption DEF Byte
<1>2. \E f : IsValue(f)
  <2> DEFINE T == {m \in Nat : \E f : f = [n \in 0 .. m |-> IF n > N THEN 0 ELSE Step(f, n)]}
  <2>1. 0 \in T
    <3>1. [n \in 0 .. 0 |-> 0] = [n \in 0 .. 0 |-> IF n > N THEN 0 ELSE Step([i \in 0 .. 0 |-> 0], n)]
      BY <1>1
    <3>2. QED
      BY <3>1
  <2>2. ASSUME NEW m \in T PROVE m + 1 \in T
    <3>1. PICK f : f = [n \in 0 .. m |-> IF n > N THEN 0 ELSE Step(f, n)]
      OBVIOUS
    <3>2. PICK g : g = [n \in 0 .. m + 1 |-> IF n > N THEN 0 ELSE Step(f, n)]
      OBVIOUS
    <3>3. \A n \in 0 .. m : g[n] = f[n]
      BY <3>1, <3>2
    <3>4. \A n \in 0 .. m + 1 : Step(f, n) = Step(g, n)
      BY <3>3
    <3>5. g = [n \in 0 .. m + 1 |-> IF n > N THEN 0 ELSE Step(g, n)]
      BY <3>2, <3>4
    <3>6. QED
      BY <3>5
  <2>3. N \in T
    BY <1>1, <2>1, <2>2, Induction
  <2>4. PICK f : f = [n \in 0 .. N |-> IF n > N THEN 0 ELSE Step(f, n)]
    BY <2>3
  <2>5. IsValue(f)
    <3>1. \A n \in 0 .. N : ~(n > N)
      BY <1>1
    <3> HIDE DEF Step, N
    <3>2. [n \in 0 .. N |-> IF n > N THEN 0 ELSE Step(f, n)] = [n \in 0 .. N |-> Step(f, n)]
      BY <3>1
    <3>3. QED
      BY <2>4, <3>2
  <2>6. QED
    BY <2>5
<1>3. IsValue(value)
  BY <1>2
<1>4. Atoi(s) = value[DigitRun(s)]
  BY DEF Atoi
<1> HIDE DEF value
<1>5. \A n \in 0 .. N : value[n] = Step(value, n)
  BY <1>3
<1>6. value[1] = s[1]
  BY <1>1, <1>5
<1>7. ASSUME NEW n \in 1 .. N PROVE value[n] \in Nat /\ s[1] <= value[n]
  <2> DEFINE T == {m \in Nat : m + 1 <= N => value[m + 1] \in Nat /\ s[1] <= value[m + 1]}
  <2>1. 0 \in T
    BY <1>1, <1>6
  <2>2. ASSUME NEW m \in T PROVE m + 1 \in T
    <3>1. SUFFICES ASSUME m + 1 + 1 <= N
                   PROVE  value[m + 1 + 1] \in Nat /\ s[1] <= value[m + 1 + 1]
      OBVIOUS
    <3>2. value[m + 1] \in Nat /\ s[1] <= value[m + 1] /\ s[m + 1 + 1] \in Nat /\ s[1] \in Nat
      BY <1>1, <3>1
    <3>3. value[m + 1 + 1] = 10 * value[m + 1] + s[m + 1 + 1]
      BY <1>1, <1>5, <3>1
    <3>4. QED
      BY <3>2, <3>3
  <2>3. n - 1 \in Nat /\ n - 1 + 1 = n /\ n <= N
    BY <1>1
  <2>4. n - 1 \in T
    BY <2>1, <2>2, <2>3, Induction
  <2>5. QED
    BY <2>3, <2>4
<1>8. DigitRun(s) \in 1 .. N /\ (s[2] \notin Digits => DigitRun(s) = 1)
  <2>1. /\ DigitRun(s) \in 0 .. N
        /\ \A i \in 1 .. DigitRun(s) : s[i] \in Digits
        /\ DigitRun(s) < N => s[DigitRun(s) + 1] \notin Digits
    BY DigitRunFacts
  <2>2. DigitRun(s) # 0
    BY <2>1
  <2>3. QED
    BY <1>1, <2>1, <2>2
<1>9. QED
  BY <1>4, <1>6, <1>7, <1>8
-----------------------------------------------------------------------------
(***************************************************************************)
(* Sequences                                                               *)
(***************************************************************************)

\* A beginning agrees with the whole byte by byte.
LEMMA PrefixFacts ==
  ASSUME NEW s \in Seq(Byte), NEW t \in Seq(Byte)
  PROVE  IsPrefixOf(s, t) <=> /\ Len(s) <= Len(t)
                              /\ \A i \in 1 .. Len(s) : s[i] = t[i]
<1>1. ASSUME Len(s) <= Len(t)
      PROVE  s = SubSeq(t, 1, Len(s)) <=> \A i \in 1 .. Len(s) : s[i] = t[i]
  <2>1. Len(s) \in Nat /\ \A i \in 1 .. Len(s) : t[i] \in Byte
    BY <1>1
  <2>2. /\ SubSeq(t, 1, Len(s)) \in Seq(Byte) /\ Len(SubSeq(t, 1, Len(s))) = Len(s)
        /\ \A i \in 1 .. Len(s) : SubSeq(t, 1, Len(s))[i] = t[i]
    BY <1>1, <2>1, SubSeqProperties
  <2>3. QED
    BY <2>2, SeqEqual
<1>2. QED
  BY <1>1 DEF IsPrefixOf

\* A chunk of a byte sequence has the bytes between its two ends.
LEMMA ChunkFacts ==
  ASSUME NEW s \in Seq(Byte), NEW a \in Nat, NEW b \in Nat, a <= b, b <= Len(s)
  PROVE  /\ SubSeq(s, a + 1, b) \in Seq(Byte) /\ Len(SubSeq(s, a + 1, b)) = b - a
         /\ \A j \in 1 .. b - a : SubSeq(s, a + 1, b)[j] = s[a + j]
<1>1. \A i \in a + 1 .. b : s[i] \in Byte
  OBVIOUS
<1>2. /\ SubSeq(s, a + 1, b) \in Seq(Byte)
      /\ Len(SubSeq(s, a + 1, b)) = IF a + 1 <= b THEN b - (a + 1) + 1 ELSE 0
      /\ \A j \in 1 .. b - (a + 1) + 1 : SubSeq(s, a + 1, b)[j] = s[a + 1 + j - 1]
  BY <1>1, SubSeqProperties
<1>3. Len(SubSeq(s, a + 1, b)) = b - a
  BY <1>2
<1>4. ASSUME NEW j \in 1 .. b - a PROVE SubSeq(s, a + 1, b)[j] = s[a + j]
  <2>1. j \in 1 .. b - (a + 1) + 1 /\ a + 1 + j - 1 = a + j
    OBVIOUS
  <2>2. QED
    BY <1>2, <2>1
<1>5. QED
  BY <1>2, <1>3, <1>4

\* The next k bytes of what is left behind the first a bytes, and what is left
\* behind those.
LEMMA NextChunk ==
  ASSUME NEW s \in Seq(Byte), NEW a \in Nat, NEW k \in Nat, a + k <= Len(s)
  PROVE  /\ Len(Drop(s, a)) = Len(s) - a
         /\ SubSeq(Drop(s, a), 1, k) = SubSeq(s, a + 1, a + k)
         /\ Drop(Drop(s, a), k) = Drop(s, a + k)
<1> DEFINE r == Drop(s, a)
<1>1. /\ r \in Seq(Byte) /\ Len(r) = Len(s) - a
      /\ \A j \in 1 .. Len(s) - a : r[j] = s[a + j]
  BY ChunkFacts DEF Drop
<1> HIDE DEF r
<1>2. SubSeq(r, 1, k) = SubSeq(s, a + 1, a + k)
  <2>1. /\ SubSeq(r, 0 + 1, k) \in Seq(Byte) /\ Len(SubSeq(r, 0 + 1, k)) = k - 0
        /\ \A j \in 1 .. k - 0 : SubSeq(r, 0 + 1, k)[j] = r[0 + j]
    BY <1>1, ChunkFacts
  <2>2. /\ SubSeq(s, a + 1, a + k) \in Seq(Byte) /\ Len(SubSeq(s, a + 1, a + k)) = k
        /\ \A j \in 1 .. k : SubSeq(s, a + 1, a + k)[j] = s[a + j]
    <3>1. a + k \in Nat /\ a <= a + k /\ a + k - a = k
      OBVIOUS
    <3>2. QED
      BY <3>1, ChunkFacts
  <2>3. /\ SubSeq(r, 1, k) \in Seq(Byte) /\ Len(SubSeq(r, 1, k)) = k
        /\ \A j \in 1 .. k : SubSeq(r, 1, k)[j] = r[j]
    BY <2>1
  <2>4. \A j \in 1 .. k : r[j] = s[a + j]
    BY <1>1
  <2>5. QED
    BY <2>2, <2>3, <2>4, SeqEqual
<1>3. Drop(r, k) = Drop(s, a + k)
  <2>1. /\ Drop(r, k) \in Seq(Byte) /\ Len(Drop(r, k)) = Len(r) - k
        /\ \A j \in 1 .. Len(r) - k : Drop(r, k)[j] = r[k + j]
    <3>1. Len(r) \in Nat /\ k <= Len(r) /\ Len(r) <= Len(r)
      BY <1>1
    <3>2. QED
      BY <1>1, <3>1, ChunkFacts DEF Drop
  <2>2. /\ Drop(s, a + k) \in Seq(Byte) /\ Len(Drop(s, a + k)) = Len(s) - (a + k)
        /\ \A j \in 1 .. Len(s) - (a + k) : Drop(s, a + k)[j] = s[a + k + j]
    <3>1. a + k \in Nat
      OBVIOUS
    <3>2. QED
      BY <3>1, ChunkFacts DEF Drop
  <2>3. ASSUME NEW j \in 1 .. Len(s) - (a + k)
        PROVE  Drop(r, k)[j] = Drop(s, a + k)[j]
    <3>1. /\ j \in 1 .. Len(r) - k /\ k + j \in 1 .. Len(s) - a
          /\ a + (k + j) = a + k + j
      BY <1>1
    <3>2. r[k + j] = s[a + (k + j)]
      BY <1>1, <3>1
    <3>3. QED
      BY <2>1, <2>2, <3>1, <3>2
  <2>4. Len(Drop(r, k)) = Len(Drop(s, a + k)) /\ Len(Drop(s, a + k)) = Len(s) - (a + k)
    <3>1. Len(r) - k = Len(s) - (a + k)
      BY <1>1
    <3>2. QED
      BY <2>1, <2>2, <3>1
  <2>5. QED
    BY <2>1, <2>2, <2>3, <2>4, SeqEqual
<1>4. QED
  BY <1>1, <1>2, <1>3 DEF r

-----------------------------------------------------------------------------
(***************************************************************************)
(* The server: every packet it sends fits packet_buffer, and the stream of *)
(* a connection is an announcement, chunks of the image in order and, when *)
(* all of it is sent, the finish command.                                  *)
(***************************************************************************)

ServerType ==
  /\ image \in Images /\ stage \in {"start", "data", "quiet"} /\ left \in Seq(Byte)

\* cut[i] is how many bytes of the image the first i packets have carried.
Cuts == [1 .. Len(sent) -> 0 .. Len(image)]

ChunkSent(cut, i) ==
  /\ cut[i - 1] < cut[i]
  /\ sent[i] = SubSeq(image, cut[i - 1] + 1, cut[i])

FinishSent(cut, i) ==
  /\ i = Len(sent) /\ stage = "quiet" /\ sent[i] = FinishCommand
  /\ cut[i - 1] = Len(image) /\ cut[i] = Len(image)

Served(cut) ==
  /\ stage = "start" <=> Len(sent) = 0
  /\ stage = "start" => left = image
  /\ stage = "data" => left = Drop(image, cut[Len(sent)])
  /\ Len(sent) > 0 => cut[1] = 0 /\ sent[1] = Announcement(Len(image))
  /\ \A i \in 2 .. Len(sent) : ChunkSent(cut, i) \/ FinishSent(cut, i)

Delivery == IInv /\ Framing /\ Fits /\ ServerType

\* What the server holds and announces.
LEMMA AnnouncementFacts ==
  ASSUME image \in Images
  PROVE  /\ image \in Seq(Byte) /\ Len(image) \in Nat
         /\ Len(image) \in Digits /\ Len(image) \in Byte
         /\ Announcement(Len(image)) \in Seq(Byte)
         /\ Len(Announcement(Len(image))) \in 3 .. 4
         /\ NulTerminated => Len(Announcement(Len(image))) = 4
         /\ Announcement(Len(image))[1] = U /\ Announcement(Len(image))[2] = S
         /\ Announcement(Len(image))[3] = Len(image)
         /\ NulTerminated => Announcement(Len(image))[4] = NUL
<1>1. image \in Seq(Byte) /\ Len(image) \in Nat /\ Len(image) \in Digits
  BY ImageAssumption, ServerAssumption
<1>2. /\ U \in Byte /\ S \in Byte /\ NUL \in Byte /\ Len(image) \in Byte
  BY <1>1, CodesAssumption
<1> DEFINE n == Len(image)
           a == StartCommand \o <<n>>
<1>3. /\ a \in Seq(Byte) /\ Len(a) = 3 /\ a[1] = U /\ a[2] = S /\ a[3] = n
  <2>1. /\ StartCommand \in Seq(Byte) /\ Len(StartCommand) = 2
        /\ StartCommand[1] = U /\ StartCommand[2] = S
    BY <1>2 DEF StartCommand
  <2>2. <<n>> \in Seq(Byte) /\ Len(<<n>>) = 1 /\ <<n>>[1] = n
    BY <1>2
  <2> HIDE DEF n
  <2>3. /\ a \in Seq(Byte) /\ Len(a) = 2 + 1
        /\ \A i \in 1 .. 2 + 1 : a[i] = IF i <= 2 THEN StartCommand[i] ELSE <<n>>[i - 2]
    BY <2>1, <2>2, ConcatProperties
  <2>4. QED
    BY <2>1, <2>2, <2>3
<1> HIDE DEF a, n
<1>4. CASE NulTerminated
  <2>1. Announcement(n) = a \o <<NUL>>
    BY <1>4 DEF Announcement, a
  <2>2. <<NUL>> \in Seq(Byte) /\ Len(<<NUL>>) = 1 /\ <<NUL>>[1] = NUL
    BY <1>2
  <2> DEFINE z == <<NUL>>
  <2>3. /\ a \o z \in Seq(Byte) /\ Len(a \o z) = 3 + 1
        /\ \A i \in 1 .. 3 + 1 : (a \o z)[i] = IF i <= 3 THEN a[i] ELSE z[i - 3]
    <3>1. z \in Seq(Byte) /\ Len(z) = 1
      BY <2>2
    <3> HIDE DEF z
    <3>2. /\ a \o z \in Seq(Byte) /\ Len(a \o z) = Len(a) + Len(z)
          /\ \A i \in 1 .. Len(a) + Len(z) :
               (a \o z)[i] = IF i <= Len(a) THEN a[i] ELSE z[i - Len(a)]
      BY <1>3, <3>1, ConcatProperties
    <3>3. QED
      BY <1>3, <3>1, <3>2
  <2>4. /\ Announcement(n) \in Seq(Byte) /\ Len(Announcement(n)) = 4
        /\ \A i \in 1 .. 3 : Announcement(n)[i] = a[i]
        /\ Announcement(n)[4] = NUL
    BY <2>1, <2>2, <2>3
  <2>5. QED
    BY <1>1, <1>2, <1>3, <1>4, <2>4 DEF n
<1>5. CASE ~NulTerminated
  <2>1. Announcement(n) = a \o << >>
    BY <1>5 DEF Announcement, a
  <2>2. Announcement(n) = a
    BY <1>3, <2>1
  <2>3. QED
    BY <1>1, <1>2, <1>3, <1>5, <2>2 DEF n
<1>6. QED
  BY <1>4, <1>5

\* What the server sends next is a packet that fits.
LEMMA ServerSends ==
  ASSUME ServerType, ServerStep
  PROVE  \E p \in Seq(Byte) : Len(p) <= BufSize /\ PeerSend(p)
<1>1. CASE SendStart
  <2>1. /\ Announcement(Len(image)) \in Seq(Byte)
        /\ Len(Announcement(Len(image))) <= BufSize
    <3>1. PICK a : a = Announcement(Len(image))
      OBVIOUS
    <3>2. a \in Seq(Byte)
      BY <3>1, AnnouncementFacts DEF ServerType
    <3>3. PICK n \in 3 .. 4 : Len(a) = n
      BY <3>1, AnnouncementFacts DEF ServerType
    <3>4. n <= BufSize
      BY ServerAssumption, BufferAssumption
    <3>5. QED
      BY <3>1, <3>2, <3>3, <3>4
  <2>2. QED
    BY <1>1, <2>1 DEF SendStart
<1>2. CASE SendChunk
  <2>1. PICK k \in 1 .. AtMost(MaxChunk, Len(left)) : PeerSend(SubSeq(left, 1, k))
    BY <1>2 DEF SendChunk
  <2>2. left \in Seq(Byte) /\ k \in 0 .. Len(left) /\ k <= MaxChunk
    <3>1. left \in Seq(Byte) /\ MaxChunk \in Nat
      BY ImageAssumption DEF ServerType
    <3>2. QED
      BY <3>1 DEF AtMost
  <2>3. SubSeq(left, 1, k) \in Seq(Byte) /\ Len(SubSeq(left, 1, k)) = k
    BY <2>2, PrefixType
  <2>4. k <= BufSize
    BY <2>2, ImageAssumption, ServerAssumption, BufferAssumption
  <2>5. QED
    BY <2>1, <2>3, <2>4
<1>3. CASE SendFinish
  <2>1. FinishCommand \in Seq(Byte) /\ Len(FinishCommand) <= BufSize
    BY CodesAssumption, ServerAssumption, BufferAssumption DEF FinishCommand
  <2>2. QED
    BY <1>3, <2>1 DEF SendFinish
<1>4. QED
  BY <1>1, <1>2, <1>3 DEF ServerStep

\* A step is one of upgrade_task or the network, a packet of the server, or a
\* reset of the device.
LEMMA StepKinds ==
  ASSUME ServerType, [TransferNext]_allVars
  PROVE  \/ /\ Task \/ (\E how \in {"closed", "reset"} : PeerStop(how)) \/ UNCHANGED vars
            /\ UNCHANGED <<image, stage, left>> \/ NewSession
         \/ ServerStep
         \/ DeviceReset
BY DEF TransferNext, TaskStep, NewSession, Drops, Task, allVars, serverVars

\* The types of the server.
LEMMA ServerTypeKept ==
  ASSUME ServerType, [TransferNext]_allVars
  PROVE  ServerType'
<1>1. image \in Seq(Byte)
  BY ImageAssumption DEF ServerType
<1>2. CASE NewSession
  BY <1>1, <1>2 DEF NewSession, ServerType
<1>3. CASE SendStart \/ SendFinish
  BY <1>3 DEF SendStart, SendFinish, ServerType
<1>4. CASE SendChunk
  <2>1. PICK k \in 1 .. AtMost(MaxChunk, Len(left)) : left' = Drop(left, k)
    BY <1>4 DEF SendChunk
  <2>2. left \in Seq(Byte) /\ k \in 0 .. Len(left)
    <3>1. left \in Seq(Byte) /\ MaxChunk \in Nat
      BY ImageAssumption DEF ServerType
    <3>2. QED
      BY <3>1 DEF AtMost
  <2>3. left' \in Seq(Byte)
    BY <2>1, <2>2, DropType
  <2>4. QED
    BY <1>4, <2>3 DEF SendChunk, ServerType
<1>5. CASE UNCHANGED <<image, stage, left>>
  BY <1>5 DEF ServerType
<1>6. CASE DeviceReset
  BY <1>6 DEF DeviceReset, serverVars, ServerType
<1>7. QED
  BY <1>2, <1>3, <1>4, <1>5, <1>6, StepKinds DEF ServerStep

\* A reset brings the task back to its initial state, but for the card.
LEMMA ResetKeeps ==
  ASSUME IInv, DeviceReset
  PROVE  IInv' /\ Framing' /\ Fits'
<1>1. TransferType'
  <2>1. card \in [closed : BOOLEAN, bytes : Seq(Byte)] /\ card' = card
    BY DEF IInv, TransferType, DeviceReset
  <2>2. file' \in Seq(Byte) /\ file_open' = FALSE /\ file_err' = FALSE /\ disk_full' = FALSE
    BY DEF DeviceReset
  <2>3. QED
    BY <2>1, <2>2 DEF DeviceReset, TransferType
<1>2. /\ ZeroLength \in [1..HeaderLength -> Byte]
      /\ [i \in 1..BufSize |-> 0] \in [1..BufSize -> Byte]
  BY BaseAssumption DEF ZeroLength, Byte
<1>3. ParserType'
  BY <1>2 DEF DeviceReset, ParserType
<1>4. CopiesInBounds' /\ Counts'
  BY DEF DeviceReset, CopiesInBounds, HeaderLength, Counts, CountMatchesFile,
         Transferring, WritesGoToOpenFile, FinishCounts
<1>5. Framing' /\ Fits'
  BY DEF DeviceReset, Framing, Fits, Delivered, InStep, Connected
<1>6. QED
  BY <1>1, <1>3, <1>4, <1>5 DEF IInv

\* Every step keeps the parser of the task in step with the server.
LEMMA DeliveryKept ==
  ASSUME Delivery, [TransferNext]_allVars
  PROVE  Delivery'
<1>1. IInv /\ Framing /\ Fits /\ ServerType
  BY DEF Delivery
<1>2. ServerType'
  BY <1>1, ServerTypeKept
<1>3. CASE Task \/ (\E how \in {"closed", "reset"} : PeerStop(how)) \/ UNCHANGED vars
  <2>1. [Next]_vars
    BY <1>3 DEF Next, Environment
  <2>2. IInv' /\ Framing'
    BY <1>1, <2>1, StepKeeps, StepFrames
  <2>3. sent' = sent \/ sent' = << >>
    BY <1>3 DEF Task, Connect, Recv, RecvError, ParseHeader, ParseData, SegmentDone,
                Cleanup, PeerStop, vars
  <2>4. Fits'
    BY <1>1, <2>3 DEF Fits
  <2>5. QED
    BY <1>2, <2>2, <2>4 DEF Delivery
<1>4. CASE ServerStep
  <2>1. PICK p \in Seq(Byte) : Len(p) <= BufSize /\ PeerSend(p)
    BY <1>1, <1>4, ServerSends
  <2>2. IInv'
    BY <1>1, <2>1, PeerSendKeeps
  <2>3. Framing'
    BY <1>1, <2>1, <2>2, PeerSendFrames
  <2>4. Fits'
    <3>1. sent \in Seq(Seq(Byte)) /\ sent' = Append(sent, p)
      BY <1>1, <2>1, StreamTypes DEF PeerSend
    <3>2. /\ Len(sent') = Len(sent) + 1 /\ sent'[Len(sent) + 1] = p
          /\ \A i \in 1 .. Len(sent) : sent'[i] = sent[i]
      BY <3>1, AppendProperties
    <3>3. ASSUME NEW i \in 1 .. Len(sent') PROVE Len(sent'[i]) <= BufSize
      <4>1. i \in 1 .. Len(sent) \/ i = Len(sent) + 1
        BY <3>1, <3>2
      <4>2. QED
        BY <1>1, <2>1, <3>2, <4>1 DEF Fits
    <3>4. QED
      BY <3>3 DEF Fits
  <2>5. QED
    BY <1>2, <2>2, <2>3, <2>4 DEF Delivery
<1>5. CASE DeviceReset
  BY <1>1, <1>2, <1>5, ResetKeeps DEF Delivery
<1>6. QED
  BY <1>1, <1>3, <1>4, <1>5, StepKinds

-----------------------------------------------------------------------------
(***************************************************************************)
(* The stream of a connection                                              *)
(***************************************************************************)

\* Another packet of the server continues the stream.
LEMMA ServedOn ==
  ASSUME Delivery, ServerStep, NEW cut \in Cuts, Served(cut)
  PROVE  \E longer \in Cuts' : /\ Served(longer)'
                              /\ \A i \in 1 .. Len(sent) : longer[i] = cut[i]
<1> DEFINE L == Len(sent)
<1>1. /\ image \in Seq(Byte) /\ Len(image) \in Nat /\ L \in Nat
      /\ sent \in Seq(Seq(Byte)) /\ image' = image
  BY AnnouncementFacts, StreamTypes
     DEF Delivery, ServerType, ServerStep, SendStart, SendChunk, SendFinish
<1>2. PICK p : PeerSend(p)
  BY ServerSends DEF Delivery
<1>3. /\ Len(sent') = L + 1 /\ sent'[L + 1] = p
      /\ \A i \in 1 .. L : sent'[i] = sent[i]
  <2>1. sent' = Append(sent, p)
    BY <1>2 DEF PeerSend
  <2>2. Len(Append(sent, p)) = L + 1
    BY <1>1
  <2>3. QED
    BY <1>1, <2>1, <2>2
<1> HIDE DEF L
<1>4. ASSUME NEW b \in 0 .. Len(image), NEW longer,
             longer = [i \in 1 .. L + 1 |-> IF i <= L THEN cut[i] ELSE b]
      PROVE  /\ longer \in Cuts' /\ longer[L + 1] = b
             /\ \A i \in 1 .. L : longer[i] = cut[i]
  <2>1. L + 1 \in 1 .. L + 1 /\ ~(L + 1 <= L)
    BY <1>1
  <2>2. \A i \in 1 .. L : i \in 1 .. L + 1 /\ i <= L
    BY <1>1
  <2>3. ASSUME NEW i \in 1 .. L + 1
        PROVE  (IF i <= L THEN cut[i] ELSE b) \in 0 .. Len(image)
    <3>1. CASE i <= L
      <4>1. i \in 1 .. L
        BY <1>1, <3>1
      <4>2. QED
        BY <3>1, <4>1 DEF Cuts, L
    <3>2. QED
      BY <3>1
  <2>4. QED
    BY <1>1, <1>3, <1>4, <2>1, <2>2, <2>3 DEF Cuts
<1>5. CASE SendStart
  <2>1. L = 0 /\ left = image /\ stage' = "data" /\ left' = left
        /\ sent'[1] = Announcement(Len(image))
    <3>1. sent' = Append(sent, Announcement(Len(image)))
      BY <1>5 DEF SendStart, PeerSend
    <3>2. QED
      BY <1>1, <1>5, <3>1 DEF SendStart, Served, L
  <2>2. PICK longer : longer = [i \in 1 .. L + 1 |-> IF i <= L THEN cut[i] ELSE 0]
    OBVIOUS
  <2>3. longer \in Cuts' /\ longer[1] = 0 /\ \A i \in 1 .. L : longer[i] = cut[i]
    BY <1>1, <1>4, <2>1, <2>2
  <2>4. Drop(image, 0) = image
    <3>1. /\ Drop(image, 0) \in Seq(Byte) /\ Len(Drop(image, 0)) = Len(image) - 0
          /\ \A j \in 1 .. Len(image) - 0 : Drop(image, 0)[j] = image[0 + j]
      BY <1>1, ChunkFacts DEF Drop
    <3>2. QED
      BY <1>1, <3>1, SeqEqual
  <2>5. Served(longer)'
    BY <1>1, <1>3, <2>1, <2>3, <2>4 DEF Served, Announcement
  <2>6. QED
    BY <2>3, <2>5 DEF L
<1>6. ASSUME stage = "data"
      PROVE  /\ L > 0 /\ L \in 1 .. L /\ cut[L] \in 0 .. Len(image) /\ cut[1] = 0
             /\ left = Drop(image, cut[L]) /\ sent[1] = Announcement(Len(image))
             /\ \A i \in 2 .. L : ChunkSent(cut, i)
  <2>1. L > 0
    BY <1>1, <1>6 DEF Served, L
  <2>2. L \in 1 .. L
    BY <1>1, <2>1
  <2>3. QED
    BY <1>6, <2>1, <2>2 DEF Served, FinishSent, Cuts, L
<1>7. ASSUME stage = "data", NEW b \in 0 .. Len(image), NEW longer \in Cuts',
             longer[L + 1] = b, \A i \in 1 .. L : longer[i] = cut[i],
             stage' = "data" => left' = Drop(image, b), stage' # "start",
             \/ cut[L] < b /\ p = SubSeq(image, cut[L] + 1, b)
             \/ /\ stage' = "quiet" /\ p = FinishCommand
                /\ cut[L] = Len(image) /\ b = Len(image)
      PROVE  Served(longer)'
  <2>1. L > 0 /\ 1 \in 1 .. L /\ longer[1] = 0 /\ sent'[1] = Announcement(Len(image))
    <3>1. L > 0 /\ 1 \in 1 .. L
      BY <1>1, <1>6, <1>7
    <3>2. longer[1] = cut[1] /\ sent'[1] = sent[1]
      BY <1>3, <1>7, <3>1
    <3>3. QED
      BY <1>6, <1>7, <3>1, <3>2
  <2>2. ASSUME NEW i \in 2 .. L + 1
        PROVE  (ChunkSent(longer, i) \/ FinishSent(longer, i))'
    <3>1. CASE i = L + 1
      <4>1. L + 1 - 1 = L /\ L \in 1 .. L
        BY <1>1, <1>6, <1>7
      <4>2. longer[i - 1] = cut[L] /\ longer[i] = b /\ sent'[i] = p
        BY <1>3, <1>7, <3>1, <4>1
      <4>3. QED
        BY <1>1, <1>3, <1>7, <3>1, <4>2 DEF ChunkSent, FinishSent, FinishCommand
    <3>2. CASE i # L + 1
      <4>1. i \in 2 .. L /\ i \in 1 .. L /\ i - 1 \in 1 .. L
        BY <1>1, <3>2
      <4>2. ChunkSent(cut, i)
        BY <1>6, <1>7, <4>1
      <4>3. QED
        BY <1>1, <1>3, <1>7, <4>1, <4>2 DEF ChunkSent
    <3>3. QED
      BY <3>1, <3>2
  <2>3. QED
    BY <1>1, <1>3, <1>7, <2>1, <2>2 DEF Served, Announcement
<1>8. CASE SendChunk
  <2>1. PICK k \in 1 .. AtMost(MaxChunk, Len(left)) :
          PeerSend(SubSeq(left, 1, k)) /\ left' = Drop(left, k)
    BY <1>8 DEF SendChunk
  <2>2. stage = "data" /\ stage' = "data"
    BY <1>8 DEF SendChunk
  <2>3. PICK a \in Nat : a = cut[L] /\ a <= Len(image)
    BY <1>1, <1>6, <2>2
  <2>4. left = Drop(image, a) /\ Len(left) = Len(image) - a
    <3>1. 0 \in Nat /\ a + 0 <= Len(image)
      BY <1>1, <2>3
    <3>2. Len(Drop(image, a)) = Len(image) - a
      BY <1>1, <2>3, <3>1, NextChunk
    <3>3. QED
      BY <1>6, <2>2, <2>3, <3>2
  <2>5. k \in Nat /\ k >= 1 /\ a + k <= Len(image)
    <3>1. MaxChunk \in Nat /\ Len(left) \in Nat
      BY <1>1, <2>3, <2>4, ImageAssumption
    <3>2. k <= Len(left)
      BY <2>1, <3>1 DEF AtMost
    <3>3. k \in Nat /\ k >= 1
      BY <2>1, <3>1, AtMostType
    <3>4. QED
      BY <1>1, <2>3, <2>4, <3>2, <3>3
  <2>6. /\ SubSeq(left, 1, k) = SubSeq(image, a + 1, a + k)
        /\ left' = Drop(image, a + k)
    BY <1>1, <2>1, <2>3, <2>4, <2>5, NextChunk
  <2>7. p = SubSeq(image, a + 1, a + k)
    <3>1. sent' = Append(sent, SubSeq(left, 1, k))
      BY <2>1 DEF PeerSend
    <3>2. sent'[L + 1] = SubSeq(left, 1, k)
      BY <1>1, <3>1 DEF L
    <3>3. QED
      BY <1>3, <2>6, <3>2
  <2>8. PICK b \in 0 .. Len(image) : b = a + k /\ a < b
    BY <1>1, <2>3, <2>5
  <2>9. PICK longer : longer = [i \in 1 .. L + 1 |-> IF i <= L THEN cut[i] ELSE b]
    OBVIOUS
  <2>10. longer \in Cuts' /\ longer[L + 1] = b /\ \A i \in 1 .. L : longer[i] = cut[i]
    BY <1>4, <2>9
  <2>11. Served(longer)'
    BY <1>7, <2>2, <2>3, <2>6, <2>7, <2>8, <2>10
  <2>12. QED
    BY <2>10, <2>11 DEF L
<1>9. CASE SendFinish
  <2>1. stage = "data" /\ left = << >> /\ stage' = "quiet"
    BY <1>9 DEF SendFinish
  <2>2. p = FinishCommand
    <3>1. sent' = Append(sent, FinishCommand)
      BY <1>9 DEF SendFinish, PeerSend
    <3>2. sent'[L + 1] = FinishCommand
      BY <1>1, <3>1 DEF L
    <3>3. QED
      BY <1>3, <3>2
  <2>3. cut[L] = Len(image)
    <3>1. PICK a \in Nat : a = cut[L] /\ a <= Len(image)
      BY <1>1, <1>6, <2>1
    <3>2. 0 \in Nat /\ a + 0 <= Len(image)
      BY <1>1, <3>1
    <3>3. Len(Drop(image, a)) = Len(image) - a
      BY <1>1, <3>1, <3>2, NextChunk
    <3>4. Drop(image, a) = << >>
      BY <1>6, <2>1, <3>1
    <3>5. QED
      BY <1>1, <3>1, <3>3, <3>4
  <2>4. PICK longer : longer = [i \in 1 .. L + 1 |-> IF i <= L THEN cut[i] ELSE Len(image)]
    OBVIOUS
  <2>5. Len(image) \in 0 .. Len(image)
    BY <1>1
  <2>6. longer \in Cuts' /\ longer[L + 1] = Len(image)
        /\ \A i \in 1 .. L : longer[i] = cut[i]
    BY <1>4, <2>4, <2>5
  <2>7. Served(longer)'
    BY <1>7, <2>1, <2>2, <2>3, <2>5, <2>6
  <2>8. QED
    BY <2>6, <2>7 DEF L
<1>10. QED
  BY <1>5, <1>8, <1>9 DEF ServerStep

\* The packet in hand is the announcement, a chunk or the finish command.
Announced(cut) ==
  Len(handled) = 0 /\ cut[1] = 0 /\ Current = Announcement(Len(image))

Chunked(cut) ==
  /\ Len(handled) > 0 /\ cut[Len(handled)] \in Nat /\ cut[Len(handled) + 1] \in Nat
  /\ cut[Len(handled)] < cut[Len(handled) + 1] /\ cut[Len(handled) + 1] <= Len(image)
  /\ Len(Current) = cut[Len(handled) + 1] - cut[Len(handled)]
  /\ \A j \in 1 .. Len(Current) : Current[j] = image[cut[Len(handled)] + j]

Ended(cut) ==
  /\ Len(handled) > 0 /\ Len(handled) + 1 = Len(sent) /\ stage = "quiet"
  /\ Current = FinishCommand
  /\ cut[Len(handled)] = Len(image) /\ cut[Len(handled) + 1] = Len(image)

LEMMA PacketKinds ==
  ASSUME Delivery, NEW cut \in Cuts, Served(cut), Len(handled) < Len(sent)
  PROVE  Announced(cut) \/ Chunked(cut) \/ Ended(cut)
<1>1. /\ Len(handled) \in Nat /\ Len(sent) \in Nat /\ image \in Seq(Byte)
      /\ Len(image) \in Nat
  BY StreamTypes, AnnouncementFacts DEF Delivery, ServerType
<1>2. PICK h \in Nat : h = Len(handled) /\ h < Len(sent)
  BY <1>1
<1>3. CASE h = 0
  BY <1>1, <1>2, <1>3 DEF Announced, Served, Current
<1>4. CASE h > 0
  <2>1. h + 1 \in 2 .. Len(sent) /\ h + 1 - 1 = h /\ h \in 1 .. Len(sent)
        /\ h + 1 \in 1 .. Len(sent) /\ Current = sent[h + 1]
    BY <1>1, <1>2, <1>4 DEF Current
  <2>2. PICK a \in 0 .. Len(image), b \in 0 .. Len(image) : a = cut[h] /\ b = cut[h + 1]
    BY <2>1 DEF Cuts
  <2>3. CASE ChunkSent(cut, h + 1)
    <3>1. a < b /\ Current = SubSeq(image, a + 1, b)
      BY <2>1, <2>2, <2>3 DEF ChunkSent
    <3>2. a \in Nat /\ b \in Nat /\ a <= b /\ b <= Len(image)
      BY <1>1, <2>2, <3>1
    <3>3. /\ Len(Current) = b - a
          /\ \A j \in 1 .. b - a : Current[j] = image[a + j]
      BY <1>1, <3>1, <3>2, ChunkFacts
    <3>4. \A j \in 1 .. Len(Current) : Current[j] = image[a + j]
      BY <3>3
    <3>5. QED
      BY <1>2, <1>4, <2>2, <3>1, <3>2, <3>3, <3>4 DEF Chunked
  <2>4. CASE FinishSent(cut, h + 1)
    BY <1>2, <1>4, <2>1, <2>4 DEF FinishSent, Ended
  <2>5. QED
    BY <2>1, <2>3, <2>4 DEF Served
<1>5. QED
  BY <1>2, <1>3, <1>4

\* What the body half of the parser does: the first m bytes of packet_buffer are
\* those of the packet in hand, the others stay, and with the last byte of the
\* packet it is processed.
LEMMA ParseDataEffect ==
  ASSUME Delivery, ParseData
  PROVE  /\ Len(handled) \in Nat /\ Len(handled) < Len(sent)
         /\ Len(Current) \in Nat /\ Len(Current) <= BufSize
         /\ packet_buffer' \in [1 .. BufSize -> Byte] /\ UNCHANGED <<pc, sent>> /\ Connected
         /\ \E m \in 0 .. Len(Current) :
              /\ \A j \in 1 .. m : packet_buffer'[j] = Current[j]
              /\ \A j \in m + 1 .. BufSize : packet_buffer'[j] = packet_buffer[j]
              /\ \/ UNCHANGED <<taskVars, fileVars, handled>>
                 \/ /\ m = Len(Current) /\ Len(handled') = Len(handled) + 1
                    /\ process_received_packet(packet_buffer', m)
<1>1. IInv /\ Framing /\ Fits
  BY DEF Delivery
<1>2. PICK n : n = LengthOf(packet_length)
  OBVIOUS
<1>3. PICK k : k = ToCopy(Len(seg), n - packet_received)
  OBVIOUS
<1>4. PICK buf : buf = Overwrite(packet_buffer, packet_received, seg, k)
  OBVIOUS
<1>5. /\ Len(handled) < Len(sent) /\ Current \in Seq(Byte)
      /\ n = Len(Current) /\ n \in Nat /\ n <= BufSize
      /\ k \in 0 .. Len(seg) /\ k <= n - packet_received
      /\ packet_received \in Nat /\ packet_received <= n
      /\ buf \in [1 .. BufSize -> Byte]
      /\ \A j \in 1 .. packet_received + k : buf[j] = Current[j]
      /\ \A j \in packet_received + k + 1 .. BufSize : buf[j] = packet_buffer[j]
  BY <1>1, <1>2, <1>3, <1>4, BodyInHand
<1>6. packet_buffer' = buf /\ UNCHANGED <<pc, sent>> /\ Connected
  BY <1>2, <1>3, <1>4 DEF ParseData, Connected
<1>7. PICK m \in 0 .. Len(Current) : m = packet_received + k
  BY <1>1, <1>5, StreamTypes
<1>8. \/ UNCHANGED <<taskVars, fileVars, handled>>
      \/ /\ m = Len(Current) /\ Len(handled') = Len(handled) + 1
         /\ process_received_packet(packet_buffer', m)
  <2>1. CASE m < n
    BY <1>2, <1>3, <1>4, <1>7, <2>1 DEF ParseData
  <2>2. CASE ~(m < n)
    <3>1. /\ process_received_packet(buf, n)
          /\ handled' = Append(handled, SubSeq(buf, 1, n))
      BY <1>2, <1>3, <1>4, <1>7, <2>2 DEF ParseData
    <3>2. m = n
      BY <1>5, <1>7, <2>2
    <3>3. Len(handled') = Len(handled) + 1
      BY <1>1, <3>1, StreamTypes
    <3>4. QED
      BY <1>5, <1>6, <3>1, <3>2, <3>3
  <2>3. QED
    BY <2>1, <2>2
<1>9. /\ \A j \in 1 .. m : packet_buffer'[j] = Current[j]
      /\ \A j \in m + 1 .. BufSize : packet_buffer'[j] = packet_buffer[j]
  BY <1>5, <1>6, <1>7
<1>10. QED
  BY <1>1, <1>5, <1>6, <1>8, <1>9, StreamTypes

\* How the two commands are told from the bytes in packet_buffer.
LEMMA CommandBytes ==
  ASSUME NEW data \in [1 .. BufSize -> Byte], NEW n \in Nat
  PROVE  /\ IsStart(data) <=> data[1] = U /\ data[2] = S
         /\ IsFinish(data, n) /\ n > 0 => data[1] = U
         /\ n = 2 /\ data[1] = U /\ data[2] = F => IsFinish(data, n)
<1>1. ASSUME NEW w \in Byte, NEW s, s = <<U, w>>
      PROVE  Len(s) = 2 /\ Append(s, NUL)[1] = U /\ Append(s, NUL)[2] = w
  <2>1. U \in Byte /\ NUL \in Byte
    BY CodesAssumption
  <2>2. s \in Seq(Byte) /\ Len(s) = 2 /\ s[1] = U /\ s[2] = w
    BY <1>1, <2>1
  <2>3. s \in Seq(Byte) /\ Len(s) \in Nat /\ 1 \in 1 .. Len(s) /\ 2 \in 1 .. Len(s)
    BY <2>2
  <2>4. \A i \in 1 .. Len(s) : Append(s, NUL)[i] = s[i]
    BY <2>1, <2>3, AppendProperties
  <2>5. QED
    BY <2>2, <2>3, <2>4, Zenon
<1>2. S \in Byte /\ F \in Byte
  BY CodesAssumption
<1>3. /\ Len(StartCommand) = 2 /\ Append(StartCommand, NUL)[1] = U
      /\ Append(StartCommand, NUL)[2] = S
  BY <1>1, <1>2 DEF StartCommand
<1>4. /\ Len(FinishCommand) = 2 /\ Append(FinishCommand, NUL)[1] = U
      /\ Append(FinishCommand, NUL)[2] = F
  BY <1>1, <1>2 DEF FinishCommand
<1>5. IsStart(data) <=> \A i \in 1 .. 2 : data[i] = Append(StartCommand, NUL)[i]
  BY <1>3 DEF IsStart, Matches, AtMost
<1>6. IsFinish(data, n) <=> \A i \in 1 .. AtMost(n, 3) : data[i] = Append(FinishCommand, NUL)[i]
  BY <1>4 DEF IsFinish, Matches
<1>7. AtMost(2, 3) = 2 /\ (n > 0 => 1 \in 1 .. AtMost(n, 3))
  BY DEF AtMost
<1>8. IsStart(data) <=> data[1] = U /\ data[2] = S
  BY <1>3, <1>5
<1>9. IsFinish(data, n) /\ n > 0 => data[1] = U
  BY <1>4, <1>6, <1>7
<1>10. n = 2 /\ data[1] = U /\ data[2] = F => IsFinish(data, n)
  <2>1. SUFFICES ASSUME n = 2, data[1] = U, data[2] = F
                 PROVE  \A i \in 1 .. AtMost(n, 3) : data[i] = Append(FinishCommand, NUL)[i]
    BY <1>6
  <2>2. ASSUME NEW i \in 1 .. AtMost(n, 3) PROVE i = 1 \/ i = 2
    BY <1>7, <2>1
  <2>3. QED
    BY <1>4, <2>1, <2>2
<1>11. QED
  BY <1>8, <1>9, <1>10

\* A chunk that begins like a command is the last byte of the image.
LEMMA ChunkLikeCommand ==
  ASSUME Delivery, UpdateOnlyAtEnd, NEW cut, Chunked(cut), Current[1] = U
  PROVE  Len(Current) = 1 /\ cut[Len(handled) + 1] = Len(image)
<1>1. PICK a \in Nat, b \in Nat : /\ a = cut[Len(handled)] /\ b = cut[Len(handled) + 1]
                                /\ a < b /\ b <= Len(image) /\ Len(Current) = b - a
  BY DEF Chunked
<1>2. Len(image) \in Nat /\ image \in Images
  BY AnnouncementFacts DEF Delivery, ServerType
<1>3. image[a + 1] = U
  <2>1. 1 \in 1 .. Len(Current)
    BY <1>1
  <2>2. Current[1] = image[a + 1]
    BY <1>1, <2>1 DEF Chunked
  <2>3. QED
    BY <2>2
<1>4. ~(a + 1 \in 1 .. Len(image) - 1)
  BY <1>2, <1>3 DEF UpdateOnlyAtEnd
<1>5. PICK n \in Nat : n = Len(image) /\ b <= n
  BY <1>1, <1>2
<1>6. b = a + 1 /\ b = n
  <2>1. ~(a + 1 \in 1 .. n - 1)
    BY <1>4, <1>5
  <2>2. a < b /\ b <= n
    BY <1>1, <1>5
  <2>3. QED
    BY <2>1, <2>2
<1>7. Len(Current) = 1
  BY <1>1, <1>6
<1>8. QED
  BY <1>1, <1>5, <1>6, <1>7

\* What handle_upgrade_start leaves: nothing new, a size without a transfer, or
\* a transfer of that size with an empty file.
LEMMA StartEffect ==
  ASSUME NEW data, handle_upgrade_start(data)
  PROVE  \/ UNCHANGED <<taskVars, fileVars>> /\ ~(IsStart(data) /\ ~DiskMayFail)
         \/ /\ IsStart(data)
            /\ \E past \in Digits \cup {NUL} :
                 total_firmware_size' = Atoi(Append(SizeField(data), past))
            /\ \/ /\ DiskMayFail /\ card' \in {card, NoFile}
                  /\ UNCHANGED <<upgrade_state, file, file_err>>
               \/ /\ upgrade_state' = "START_RECEIVED" /\ file' = << >> /\ card' = NoFile
                  /\ file_err' = FALSE
<1>1. CASE IsStart(data)
  <2>1. PICK past \in Digits \cup {NUL} :
          /\ total_firmware_size' = Atoi(Append(SizeField(data), past))
          /\ \/ DiskMayFail /\ UNCHANGED <<upgrade_state, fileVars>>
             \/ DiskMayFail /\ FileNotOpened /\ UNCHANGED upgrade_state
             \/ FileCreated /\ upgrade_state' = "START_RECEIVED"
    BY <1>1 DEF handle_upgrade_start
  <2>2. QED
    BY <1>1, <2>1 DEF fileVars, FileNotOpened, FileCreated
<1>2. CASE ~IsStart(data)
  BY <1>2 DEF handle_upgrade_start
<1>3. QED
  BY <1>1, <1>2

-----------------------------------------------------------------------------
(***************************************************************************)
(* The file: while a transfer is on, it holds what the packets handled so  *)
(* far have carried of the image, unless a write failed or fell short, or  *)
(* the last byte of the image was taken for a start command.               *)
(***************************************************************************)

Written(cut) ==
  Receiving =>
    /\ Len(handled) > 0 /\ Len(file) <= cut[Len(handled)]
    /\ file_err \/ disk_full \/ Len(file) = cut[Len(handled)] \/ cut[Len(handled)] = Len(image)

Along ==
  /\ IsPrefixOf(file, image) /\ CardHoldsBeginning
  /\ Connected => \E cut \in Cuts : Served(cut) /\ Written(cut)

\* Writing a chunk extends the file along the image.
LEMMA ChunkWritten ==
  ASSUME Delivery, NEW cut, Chunked(cut), Written(cut), IsPrefixOf(file, image), Receiving,
         NEW data \in [1 .. BufSize -> Byte], Len(Current) <= BufSize,
         \A j \in 1 .. Len(Current) : data[j] = Current[j],
         handle_upgrade_data(data, Len(Current))
  PROVE  /\ card' = card /\ upgrade_state' \in {"START_RECEIVED", "RECEIVING_DATA"}
         /\ \/ file' = file
            \/ \E e \in Len(file) + 1 .. Len(image) : file' = SubSeq(image, 1, e)
         /\ Len(file') <= cut[Len(handled) + 1]
         /\ file_err' \/ disk_full' \/ Len(file') = cut[Len(handled) + 1]
<1>1. PICK a \in Nat, b \in Nat : /\ a = cut[Len(handled)] /\ b = cut[Len(handled) + 1]
                                /\ a < b /\ b <= Len(image) /\ Len(Current) = b - a
                                /\ \A j \in 1 .. Len(Current) : Current[j] = image[a + j]
  BY DEF Chunked
<1>2. /\ image \in Seq(Byte) /\ Len(image) \in Nat /\ file \in Seq(Byte)
      /\ Len(file) \in Nat /\ BufSize \in Nat
      /\ disk_full \in BOOLEAN /\ file_err \in BOOLEAN
  BY AnnouncementFacts, BufferAssumption DEF Delivery, ServerType, IInv, TransferType
<1>3. Len(file) <= a /\ (file_err \/ disk_full \/ Len(file) = a)
  BY <1>1, <1>2 DEF Written
<1>4. PICK n \in Nat : n = Len(Current) /\ n = b - a /\ n > 0 /\ n <= BufSize
  BY <1>1, <1>2
<1>5. CASE FileWriteFailed /\ UNCHANGED <<upgrade_state, received_size>>
  <2>1. file' = file /\ card' = card /\ file_err' = TRUE /\ upgrade_state' = upgrade_state
    BY <1>5 DEF FileWriteFailed
  <2>2. Len(file) <= b
    BY <1>1, <1>2, <1>3
  <2>3. QED
    BY <1>1, <2>1, <2>2 DEF Receiving
<1>6. ASSUME NEW k \in 0 .. n, FileWrote(data, n, k),
             upgrade_state' = IF k = n THEN "RECEIVING_DATA" ELSE upgrade_state
      PROVE  /\ card' = card /\ upgrade_state' \in {"START_RECEIVED", "RECEIVING_DATA"}
             /\ \/ file' = file
                \/ \E e \in Len(file) + 1 .. Len(image) : file' = SubSeq(image, 1, e)
             /\ Len(file') <= b /\ (file_err' \/ disk_full' \/ Len(file') = b)
  <2>1. /\ ~file_err /\ (k = n => ~disk_full) /\ (disk_full => k = 0) /\ card' = card
        /\ file' = file \o SubSeq(data, 1, k) /\ disk_full' = (disk_full \/ k < n)
    BY <1>6 DEF FileWrote
  <2>2. upgrade_state' \in {"START_RECEIVED", "RECEIVING_DATA"}
    BY <1>6 DEF Receiving
  <2>3. /\ SubSeq(data, 1, k) \in Seq(Byte) /\ Len(SubSeq(data, 1, k)) = k
        /\ \A j \in 1 .. k : SubSeq(data, 1, k)[j] = data[j]
    <3>1. \A i \in 1 .. k : data[i] \in Byte
      BY <1>2, <1>4
    <3>2. QED
      BY <1>2, <1>4, <3>1, SubSeqProperties
  <2>4. CASE k = 0
    <3>1. file' = file
      BY <1>2, <2>1, <2>3, <2>4
    <3>2. disk_full' = TRUE
      BY <1>4, <2>1, <2>4
    <3>3. Len(file) <= b
      BY <1>1, <1>2, <1>3
    <3>4. QED
      BY <2>1, <2>2, <3>1, <3>2, <3>3
  <2>5. CASE k > 0
    <3>1. Len(file) = a
      BY <1>3, <2>1, <2>5
    <3>2. PICK e \in Nat : e = a + k /\ e <= b /\ e \in Len(file) + 1 .. Len(image)
      <4>1. a + k \in Nat /\ a + k <= b
        BY <1>1, <1>4
      <4>2. a + k <= Len(image) /\ a + k >= a + 1
        <5>1. PICK l \in Nat : l = Len(image) /\ b <= l
          BY <1>1, <1>2
        <5>2. k \in Nat /\ a + k <= l /\ a + k >= a + 1
          BY <1>4, <2>5, <4>1, <5>1
        <5>3. QED
          BY <5>1, <5>2
      <4>3. QED
        BY <1>2, <3>1, <4>1, <4>2
    <3>3. /\ file' \in Seq(Byte) /\ Len(file') = e
          /\ \A i \in 1 .. e : file'[i] = IF i <= a THEN file[i] ELSE SubSeq(data, 1, k)[i - a]
      <4> DEFINE w == SubSeq(data, 1, k)
      <4>1. w \in Seq(Byte) /\ Len(w) = k /\ file' = file \o w
        BY <2>1, <2>3
      <4> HIDE DEF w
      <4>2. /\ file' \in Seq(Byte) /\ Len(file') = Len(file) + Len(w)
            /\ \A i \in 1 .. Len(file) + Len(w) :
                 file'[i] = IF i <= Len(file) THEN file[i] ELSE w[i - Len(file)]
        BY <1>2, <4>1, ConcatProperties
      <4>3. Len(file) + Len(w) = e
        BY <3>1, <3>2, <4>1
      <4>4. QED
        BY <3>1, <4>2, <4>3 DEF w
    <3>4. ASSUME NEW i \in 1 .. e PROVE file'[i] = image[i]
      <4>1. CASE i <= a
        <5>1. i \in 1 .. Len(file) /\ file'[i] = file[i]
          BY <3>1, <3>2, <3>3, <4>1
        <5>2. QED
          BY <1>2, <5>1, PrefixFacts
      <4>2. CASE ~(i <= a)
        <5>1. PICK j \in 1 .. k : j = i - a /\ a + j = i
          <6>1. i \in Nat /\ i <= a + k /\ k \in Nat
            BY <1>4, <3>2
          <6>2. a \in Nat
            OBVIOUS
          <6>3. i - a \in 1 .. k /\ a + (i - a) = i
            BY <4>2, <6>1, <6>2, SMT
          <6>4. QED
            BY <6>3
        <5>2. j \in 1 .. Len(Current)
          BY <1>4
        <5>3. file'[i] = data[j] /\ data[j] = Current[j] /\ Current[j] = image[i]
          BY <1>1, <2>3, <3>3, <4>2, <5>1, <5>2
        <5>4. QED
          BY <5>3
      <4>3. QED
        BY <4>1, <4>2
    <3>5. /\ SubSeq(image, 1, e) \in Seq(Byte) /\ Len(SubSeq(image, 1, e)) = e
          /\ \A i \in 1 .. e : SubSeq(image, 1, e)[i] = image[i]
      <4>1. /\ SubSeq(image, 0 + 1, e) \in Seq(Byte) /\ Len(SubSeq(image, 0 + 1, e)) = e - 0
            /\ \A j \in 1 .. e - 0 : SubSeq(image, 0 + 1, e)[j] = image[0 + j]
        BY <1>2, <3>2, ChunkFacts
      <4>2. QED
        BY <3>2, <4>1
    <3>6. file' = SubSeq(image, 1, e)
      BY <3>3, <3>4, <3>5, SeqEqual
    <3>7. Len(file') <= b /\ (disk_full' \/ Len(file') = b)
      <4>1. CASE k = n
        BY <1>1, <1>4, <3>2, <3>3, <4>1
      <4>2. CASE k # n
        <5>1. k < n
          BY <1>4, <4>2
        <5>2. QED
          BY <2>1, <3>2, <3>3, <5>1
      <4>3. QED
        BY <4>1, <4>2
    <3>8. QED
      BY <2>1, <2>2, <3>2, <3>6, <3>7
  <2>6. QED
    BY <1>4, <2>4, <2>5
<1>7. QED
  BY <1>1, <1>4, <1>5, <1>6 DEF handle_upgrade_data

-----------------------------------------------------------------------------
(***************************************************************************)
(* The steps of the body half of the parser                                *)
(***************************************************************************)

\* A packet taken for the start command: the announcement, or the last byte of
\* the image behind an earlier start command in packet_buffer.
StartIn(cut) ==
  /\ upgrade_state = "IDLE" /\ IsStart(packet_buffer') /\ handle_upgrade_start(packet_buffer')
  /\ \/ Announced(cut)
     \/ Chunked(cut) /\ Len(Current) = 1 /\ cut[Len(handled) + 1] = Len(image)

\* A packet taken for data is a chunk.
DataIn(cut) ==
  /\ Receiving /\ Chunked(cut)
  /\ handle_upgrade_data(packet_buffer', Len(Current))

\* A packet taken for the finish command: that, or the last byte of the image.
FinishIn(cut) ==
  /\ Receiving /\ handle_upgrade_finish
  /\ Ended(cut) \/ (Chunked(cut) /\ Current[1] = U /\ Len(Current) = 1)

\* A packet that changes nothing: it follows a finish command, or it is not the
\* announcement and not taken for it.
Ignored(cut) ==
  ~Receiving /\ (upgrade_state = "IDLE" => ~Announced(cut)) /\ UNCHANGED <<taskVars, fileVars>>

\* What a step of the body half does with the stream of the server.
LEMMA ParseDataOutcome ==
  ASSUME Delivery, UpdateOnlyAtEnd, ParseData, NEW cut \in Cuts, Served(cut), Written(cut)
  PROVE  \/ UNCHANGED <<taskVars, fileVars, handled>>
         \/ /\ Len(handled') = Len(handled) + 1
            /\ StartIn(cut) \/ DataIn(cut) \/ FinishIn(cut) \/ Ignored(cut)
<1>1. PICK m \in 0 .. Len(Current) :
        /\ \A j \in 1 .. m : packet_buffer'[j] = Current[j]
        /\ \A j \in m + 1 .. BufSize : packet_buffer'[j] = packet_buffer[j]
        /\ \/ UNCHANGED <<taskVars, fileVars, handled>>
           \/ /\ m = Len(Current) /\ Len(handled') = Len(handled) + 1
              /\ process_received_packet(packet_buffer', m)
  BY ParseDataEffect
<1>2. /\ Len(handled) < Len(sent) /\ Len(Current) \in Nat /\ Len(handled) \in Nat
      /\ Len(Current) <= BufSize /\ packet_buffer' \in [1 .. BufSize -> Byte]
  BY ParseDataEffect
<1>3. Announced(cut) \/ Chunked(cut) \/ Ended(cut)
  BY <1>2, PacketKinds
<1>4. SUFFICES ASSUME m = Len(Current), Len(handled') = Len(handled) + 1,
                      process_received_packet(packet_buffer', m)
               PROVE  StartIn(cut) \/ DataIn(cut) \/ FinishIn(cut) \/ Ignored(cut)
  BY <1>1
<1>5. ASSUME Ended(cut)
      PROVE  m = 2 /\ packet_buffer'[1] = U /\ packet_buffer'[2] = F
  <2>1. PICK c : c = Current
    OBVIOUS
  <2>2. c = <<U, F>>
    BY <1>5, <2>1 DEF Ended, FinishCommand
  <2>3. Len(c) = 2 /\ c[1] = U /\ c[2] = F
    BY <2>2
  <2>4. m = 2 /\ packet_buffer'[1] = c[1] /\ packet_buffer'[2] = c[2]
    BY <1>1, <1>4, <2>1, <2>3
  <2>5. QED
    BY <2>3, <2>4
<1>6. ASSUME Chunked(cut), packet_buffer'[1] = U
      PROVE  Current[1] = U /\ Len(Current) = 1 /\ cut[Len(handled) + 1] = Len(image)
  <2>1. 1 \in 1 .. m
    BY <1>2, <1>4, <1>6 DEF Chunked
  <2>2. Current[1] = U
    BY <1>1, <1>6, <2>1
  <2>3. QED
    BY <1>6, <2>2, ChunkLikeCommand
<1>7. CASE upgrade_state = "IDLE" /\ handle_upgrade_start(packet_buffer')
  <2>1. CASE IsStart(packet_buffer')
    <3>1. packet_buffer'[1] = U /\ packet_buffer'[2] = S
      BY <1>2, <2>1, CommandBytes
    <3>2. ~Ended(cut)
      BY <1>5, <3>1, ServerAssumption
    <3>3. \/ Announced(cut)
          \/ Chunked(cut) /\ Len(Current) = 1 /\ cut[Len(handled) + 1] = Len(image)
      BY <1>3, <1>6, <3>1, <3>2, Zenon
    <3>4. QED
      BY <1>7, <2>1, <3>3, Zenon DEF StartIn
  <2>2. CASE ~IsStart(packet_buffer')
    <3>1. ~Announced(cut)
      <4>1. SUFFICES ASSUME Announced(cut) PROVE FALSE
        OBVIOUS
      <4>2. PICK a : a = Current
        OBVIOUS
      <4>3. Len(a) \in 3 .. 4 /\ a[1] = U /\ a[2] = S
        BY <4>1, <4>2, AnnouncementFacts DEF Announced, Delivery, ServerType
      <4>4. packet_buffer'[1] = U /\ packet_buffer'[2] = S
        BY <1>1, <1>4, <4>2, <4>3
      <4>5. QED
        BY <1>2, <2>2, <4>4, CommandBytes
    <3>2. UNCHANGED <<taskVars, fileVars>>
      BY <1>7, <2>2 DEF handle_upgrade_start
    <3>3. QED
      BY <1>7, <3>1, <3>2, Zenon DEF Ignored, Receiving
  <2>3. QED
    BY <2>1, <2>2
<1>8. ASSUME Receiving PROVE Chunked(cut) \/ Ended(cut)
  BY <1>2, <1>3, <1>8 DEF Announced, Written
<1>9. CASE Receiving /\ IsFinish(packet_buffer', m) /\ handle_upgrade_finish
  <2>1. ASSUME Chunked(cut) PROVE packet_buffer'[1] = U
    <3>1. m \in Nat /\ m > 0
      BY <1>2, <1>4, <2>1 DEF Chunked
    <3>2. QED
      BY <1>2, <1>9, <3>1, CommandBytes
  <2>2. QED
    BY <1>6, <1>8, <1>9, <2>1, Zenon DEF FinishIn
<1>10. CASE Receiving /\ ~IsFinish(packet_buffer', m) /\ handle_upgrade_data(packet_buffer', m)
  <2>1. ~Ended(cut)
    BY <1>2, <1>5, <1>10, CommandBytes
  <2>2. handle_upgrade_data(packet_buffer', Len(Current))
    BY <1>4, <1>10
  <2>3. QED
    BY <1>8, <1>10, <2>1, <2>2, Zenon DEF DataIn
<1>11. CASE upgrade_state = "FINISH_RECEIVED" /\ UNCHANGED <<taskVars, fileVars>>
  BY <1>11 DEF Ignored, Receiving
<1>12. QED
  BY <1>4, <1>7, <1>9, <1>10, <1>11 DEF process_received_packet

\* The steps that are neither a packet of the server, nor bytes for the body of
\* a packet, nor the begin or the loss of everything.
Elsewhere ==
  /\ UNCHANGED <<serverVars, packet_buffer, total_firmware_size, received_size, fileVars,
                 sent, handled>>
  /\ Connected' => Connected
  /\ \/ upgrade_state' = upgrade_state
     \/ upgrade_state = "FINISH_RECEIVED" /\ upgrade_state' = "IDLE" /\ ~Connected'

\* Every step of the system, by what it does to the transfer.
LEMMA TransferSteps ==
  ASSUME [TransferNext]_allVars
  PROVE  /\ image' = image
         /\ \/ Elsewhere
            \/ ParseData /\ UNCHANGED serverVars
            \/ NewSession
            \/ ServerStep /\ UNCHANGED deviceVars
            \/ DeviceReset
<1>1. CASE NewSession
  BY <1>1 DEF NewSession
<1>2. CASE RecvError /\ UNCHANGED <<serverVars, faultVars>>
  BY <1>2 DEF RecvError, Elsewhere, Connected, taskVars, serverVars
<1>3. CASE ParseHeader /\ UNCHANGED <<serverVars, faultVars>>
  BY <1>3 DEF ParseHeader, Elsewhere, Connected, taskVars, serverVars
<1>4. CASE ParseData /\ UNCHANGED <<serverVars, faultVars>>
  BY <1>4 DEF serverVars
<1>5. CASE SegmentDone /\ UNCHANGED <<serverVars, faultVars>>
  BY <1>5 DEF SegmentDone, Elsewhere, Connected, taskVars, serverVars
<1>6. CASE Cleanup /\ UNCHANGED <<serverVars, faultVars>>
  BY <1>6 DEF Cleanup, Elsewhere, Connected, taskVars, serverVars
<1>7. ASSUME NEW n \in Segments, Recv(n), UNCHANGED <<serverVars, faultVars>>
      PROVE  image' = image /\ Elsewhere
  BY <1>7 DEF Recv, Elsewhere, Connected, taskVars, serverVars
<1>8. CASE SendStart
  BY <1>8 DEF SendStart, ServerStep, PeerSend
<1>9. CASE SendChunk
  BY <1>9 DEF SendChunk, ServerStep, PeerSend
<1>10. CASE SendFinish
  BY <1>10 DEF SendFinish, ServerStep, PeerSend
<1>11. CASE Drops
  BY <1>11 DEF Drops, PeerStop, Elsewhere, Connected, deviceVars, taskVars, serverVars
<1>12. CASE DeviceReset
  BY <1>12 DEF DeviceReset, serverVars
<1>13. CASE UNCHANGED allVars
  BY <1>13 DEF allVars, vars, Elsewhere, Connected, taskVars, serverVars
<1>14. QED
  BY <1>1, <1>2, <1>3, <1>4, <1>5, <1>6, <1>7, <1>8, <1>9, <1>10, <1>11, <1>12, <1>13
     DEF TransferNext, TaskStep, ServerStep

\* What a packet taken for the start command does to the file.
LEMMA StartKeeps ==
  ASSUME Delivery, Along, NEW cut \in Cuts, Served(cut), Written(cut), StartIn(cut),
         Len(handled') = Len(handled) + 1, UNCHANGED <<image, sent>>
  PROVE  /\ IsPrefixOf(file', image) /\ Written(cut)' /\ (card' = card \/ card' = NoFile)
<1>1. /\ image \in Seq(Byte) /\ Len(image) \in Nat /\ Len(handled) \in Nat
  BY AnnouncementFacts, StreamTypes DEF Delivery, ServerType
<1>2. cut[Len(handled) + 1] \in Nat /\ (Len(handled) = 0 => cut[1] = 0)
  BY <1>1 DEF StartIn, Announced, Chunked
<1>3. CASE upgrade_state' = upgrade_state /\ file' = file /\ (card' = card \/ card' = NoFile)
  BY <1>3 DEF Along, Written, Receiving, StartIn
<1>4. CASE upgrade_state' = "START_RECEIVED" /\ file' = << >> /\ card' = NoFile
  <2>1. Len(file') = 0 /\ file' \in Seq(Byte)
    BY <1>4
  <2>2. IsPrefixOf(file', image)
    <3>1. PICK e \in Seq(Byte) : e = file'
      BY <2>1
    <3>2. Len(e) = 0 /\ Len(e) <= Len(image) /\ \A i \in 1 .. Len(e) : e[i] = image[i]
      BY <1>1, <2>1, <3>1
    <3>3. IsPrefixOf(e, image)
      BY <1>1, <3>2, PrefixFacts
    <3>4. QED
      BY <3>1, <3>3
  <2>3. cut[Len(handled')] = 0 \/ cut[Len(handled')] = Len(image)
    <3>1. CASE Announced(cut)
      <4>1. Len(handled) + 1 = 1 /\ cut[1] = 0
        BY <3>1 DEF Announced
      <4>2. QED
        BY <4>1
    <3>2. CASE cut[Len(handled) + 1] = Len(image)
      BY <3>2
    <3>3. QED
      BY <3>1, <3>2 DEF StartIn
  <2>4. Written(cut)'
    BY <1>1, <1>2, <2>1, <2>3 DEF Written
  <2>5. QED
    BY <1>4, <2>2, <2>4
<1>5. QED
  BY <1>3, <1>4, StartEffect DEF StartIn, fileVars, taskVars

\* An empty file is a beginning of every image.
LEMMA EmptyPrefix ==
  ASSUME NEW t \in Seq(Byte)
  PROVE  IsPrefixOf(<< >>, t)
<1>1. << >> \in Seq(Byte) /\ Len(<< >>) = 0 /\ Len(t) \in Nat
  OBVIOUS
<1>2. Len(<< >>) <= Len(t) /\ \A i \in 1 .. Len(<< >>) : << >>[i] = t[i]
  BY <1>1
<1>3. QED
  BY <1>1, <1>2, PrefixFacts

\* Every step keeps the file along the image.
LEMMA AlongKept ==
  ASSUME Delivery, UpdateOnlyAtEnd, Along, [TransferNext]_allVars
  PROVE  Along'
<1>1. /\ IInv /\ image \in Seq(Byte) /\ Len(image) \in Nat /\ Len(handled) \in Nat
      /\ Len(sent) \in Nat /\ file \in Seq(Byte) /\ Len(file) \in Nat
  BY AnnouncementFacts, StreamTypes DEF Delivery, ServerType, IInv, TransferType
<1>2. image' = image
  BY TransferSteps
<1>3. IsPrefixOf(file, image) /\ (card.closed => IsPrefixOf(card.bytes, image))
  BY DEF Along, CardHoldsBeginning
<1>4. ASSUME NEW cut \in Cuts, UNCHANGED <<sent, stage, left>>
      PROVE  cut \in Cuts' /\ (Served(cut) => Served(cut)')
  BY <1>2, <1>4 DEF Cuts, Served, ChunkSent, FinishSent, Announcement
<1>5. CASE Elsewhere
  <2>1. file' = file /\ card' = card
    BY <1>5 DEF Elsewhere, fileVars
  <2>2. ASSUME Connected' PROVE \E cut \in Cuts' : Served(cut)' /\ Written(cut)'
    <3>1. PICK cut \in Cuts : Served(cut) /\ Written(cut)
      BY <1>5, <2>2 DEF Elsewhere, Along
    <3>2. upgrade_state' = upgrade_state
      BY <1>5, <2>2 DEF Elsewhere
    <3>3. Written(cut)'
      BY <1>2, <1>5, <3>1, <3>2 DEF Elsewhere, Written, Receiving, fileVars
    <3>4. UNCHANGED <<sent, stage, left>>
      BY <1>5 DEF Elsewhere, serverVars
    <3>5. QED
      BY <1>4, <3>1, <3>3, <3>4
  <2>3. QED
    BY <1>2, <1>3, <2>1, <2>2 DEF Along, CardHoldsBeginning
<1>6. CASE ParseData /\ UNCHANGED serverVars
  <2>1. UNCHANGED <<sent, stage, left>> /\ Connected
    BY <1>6, ParseDataEffect DEF serverVars
  <2>2. PICK cut \in Cuts : Served(cut) /\ Written(cut)
    BY <2>1 DEF Along
  <2>3. SUFFICES ASSUME TRUE
                 PROVE  IsPrefixOf(file', image) /\ CardHoldsBeginning' /\ Written(cut)'
    BY <1>2, <1>4, <2>1, <2>2 DEF Along
  <2>4. CASE UNCHANGED <<taskVars, fileVars, handled>>
    BY <1>2, <1>3, <2>2, <2>4
       DEF Written, Receiving, taskVars, fileVars, CardHoldsBeginning
  <2>5. ASSUME Len(handled') = Len(handled) + 1, StartIn(cut)
        PROVE  IsPrefixOf(file', image) /\ CardHoldsBeginning' /\ Written(cut)'
    BY <1>2, <1>3, <2>1, <2>2, <2>5, StartKeeps DEF CardHoldsBeginning, NoFile
  <2>6. ASSUME Len(handled') = Len(handled) + 1, DataIn(cut)
        PROVE  IsPrefixOf(file', image) /\ CardHoldsBeginning' /\ Written(cut)'
    <3>1. PICK m \in 0 .. Len(Current) :
            /\ \A j \in 1 .. m : packet_buffer'[j] = Current[j]
            /\ \/ UNCHANGED handled
               \/ m = Len(Current)
      BY <1>6, ParseDataEffect
    <3>2. /\ packet_buffer' \in [1 .. BufSize -> Byte] /\ Len(Current) <= BufSize
          /\ m = Len(Current)
      BY <1>1, <1>6, <2>6, <3>1, ParseDataEffect
    <3>3. /\ card' = card
          /\ \/ file' = file
             \/ \E e \in Len(file) + 1 .. Len(image) : file' = SubSeq(image, 1, e)
          /\ Len(file') <= cut[Len(handled) + 1]
          /\ file_err' \/ disk_full' \/ Len(file') = cut[Len(handled) + 1]
      BY <1>3, <2>2, <2>6, <3>1, <3>2, ChunkWritten DEF DataIn
    <3>4. IsPrefixOf(file', image)
      <4>1. ASSUME NEW e \in Len(file) + 1 .. Len(image), file' = SubSeq(image, 1, e)
            PROVE  IsPrefixOf(file', image)
        <5>1. e \in Nat /\ e \in 0 .. Len(image)
          BY <1>1
        <5>2. Len(SubSeq(image, 1, e)) = e
          BY <1>1, <5>1, PrefixType
        <5>3. QED
          BY <4>1, <5>1, <5>2 DEF IsPrefixOf
      <4>2. QED
        BY <1>3, <3>3, <4>1
    <3>5. Written(cut)'
      BY <1>1, <2>6, <3>3 DEF Written
    <3>6. QED
      BY <1>2, <1>3, <3>3, <3>4, <3>5 DEF CardHoldsBeginning
  <2>7. CASE FinishIn(cut)
    <3>1. handle_upgrade_finish
      BY <2>7 DEF FinishIn
    <3>2. /\ file' = file /\ ~Receiving'
          /\ card' = card \/ card' = [closed |-> TRUE, bytes |-> file]
      BY <3>1 DEF handle_upgrade_finish, FileClosed, StateAfterFinish, Receiving, fileVars
    <3>3. CardHoldsBeginning'
      BY <1>2, <1>3, <3>2 DEF CardHoldsBeginning
    <3>4. QED
      BY <1>3, <3>2, <3>3 DEF Written
  <2>8. CASE Ignored(cut)
    BY <1>2, <1>3, <2>8 DEF Ignored, Written, Receiving, taskVars, fileVars, CardHoldsBeginning
  <2>9. QED
    BY <1>6, <2>2, <2>4, <2>5, <2>6, <2>7, <2>8, ParseDataOutcome
<1>7. CASE NewSession
  <2>1. /\ Len(sent') = 0 /\ upgrade_state' = "IDLE" /\ file' = file /\ card' = card
        /\ stage' = "start" /\ left' = image
    BY <1>7 DEF NewSession, Connect, fileVars
  <2>2. PICK cut : cut = [i \in 1 .. 0 |-> 0]
    OBVIOUS
  <2>3. cut \in Cuts' /\ Served(cut)' /\ Written(cut)'
    BY <1>2, <2>1, <2>2 DEF Cuts, Served, Written, Receiving
  <2>4. QED
    BY <1>2, <1>3, <2>1, <2>3 DEF Along, CardHoldsBeginning
<1>8. CASE ServerStep /\ UNCHANGED deviceVars
  <2>1. UNCHANGED <<pc, upgrade_state, file, file_err, disk_full, card, handled>>
    BY <1>8 DEF deviceVars, taskVars, fileVars
  <2>2. ASSUME Connected PROVE \E cut \in Cuts' : Served(cut)' /\ Written(cut)'
    <3>1. PICK cut \in Cuts : Served(cut) /\ Written(cut)
      BY <2>2 DEF Along
    <3>2. PICK longer \in Cuts' : Served(longer)' /\ \A i \in 1 .. Len(sent) : longer[i] = cut[i]
      BY <1>8, <3>1, ServedOn
    <3>3. Len(handled) <= Len(sent)
      BY DEF Delivery, Framing, Delivered
    <3>4. Len(handled) > 0 => longer[Len(handled)] = cut[Len(handled)]
      BY <1>1, <3>2, <3>3
    <3>5. Written(longer)'
      BY <1>2, <2>1, <3>1, <3>4 DEF Written, Receiving
    <3>6. QED
      BY <3>2, <3>5
  <2>3. QED
    BY <1>2, <1>3, <2>1, <2>2 DEF Along, CardHoldsBeginning, Connected
<1>9. CASE DeviceReset
  <2>1. file' = << >> /\ card' = card /\ ~Connected'
    BY <1>9 DEF DeviceReset, Connected
  <2>2. QED
    BY <1>1, <1>2, <1>3, <2>1, EmptyPrefix DEF Along, CardHoldsBeginning
<1>10. QED
  BY <1>5, <1>6, <1>7, <1>8, <1>9, TransferSteps

-----------------------------------------------------------------------------
(***************************************************************************)
(* The size: while a start command is in packet_buffer, the announced size *)
(* is behind it, even when another packet has overwritten its first byte.  *)
(***************************************************************************)

SizeInForce ==
  Transferring => /\ Len(image) <= total_firmware_size
                  /\ NulTerminated => total_firmware_size = Len(image)

SizeInBuffer ==
  Connected /\ Len(handled) > 0 /\ packet_buffer[2] = S =>
    /\ packet_buffer[3] = Len(image)
    /\ NulTerminated => packet_buffer[4] = NUL

\* What atoi makes of the text behind the start command.
LEMMA SizeRead ==
  ASSUME NEW data \in [1 .. BufSize -> Byte], data[3] \in Digits, NEW past \in Digits \cup {NUL}
  PROVE  /\ data[3] <= Atoi(Append(SizeField(data), past))
         /\ data[4] = NUL => Atoi(Append(SizeField(data), past)) = data[3]
<1>1. BufSize \in Nat /\ BufSize >= 4 /\ past \in Byte
  BY BufferAssumption, ServerAssumption, CodesAssumption
<1>2. data \in Seq(Byte) /\ Len(data) = BufSize
  BY <1>1
<1>3. PICK s \in Seq(Byte) : s = SizeField(data) /\ Len(s) = BufSize - 2
                            /\ \A j \in 1 .. BufSize - 2 : s[j] = data[2 + j]
  <2>1. /\ SubSeq(data, 2 + 1, BufSize) \in Seq(Byte)
        /\ Len(SubSeq(data, 2 + 1, BufSize)) = BufSize - 2
        /\ \A j \in 1 .. BufSize - 2 : SubSeq(data, 2 + 1, BufSize)[j] = data[2 + j]
    <3>1. 2 \in Nat /\ 2 <= BufSize /\ BufSize <= Len(data)
      BY <1>1, <1>2
    <3>2. QED
      BY <1>1, <1>2, <3>1, ChunkFacts
  <2>2. SizeField(data) = SubSeq(data, 2 + 1, BufSize)
    <3>1. Len(StartCommand) = 2
      BY DEF StartCommand
    <3>2. QED
      BY <1>2, <3>1 DEF SizeField, Drop
  <2>3. QED
    BY <2>1, <2>2
<1>4. PICK t \in Seq(Byte) : t = Append(s, past) /\ Len(t) = BufSize - 1
                            /\ t[1] = data[3] /\ t[2] = data[4]
  <2>1. Append(s, past) \in Seq(Byte) /\ Len(Append(s, past)) = Len(s) + 1
        /\ \A i \in 1 .. Len(s) : Append(s, past)[i] = s[i]
    BY <1>1, AppendProperties
  <2>2. /\ 1 \in 1 .. Len(s) /\ 2 \in 1 .. Len(s) /\ 1 \in 1 .. BufSize - 2
        /\ 2 \in 1 .. BufSize - 2 /\ Len(s) + 1 = BufSize - 1
    BY <1>1, <1>3
  <2>3. s[1] = data[3] /\ s[2] = data[4]
    BY <1>3, <2>2
  <2>4. QED
    BY <2>1, <2>2, <2>3
<1>5. Len(t) > 1
  BY <1>1, <1>4
<1>6. /\ data[3] <= Atoi(t)
      /\ data[4] \notin Digits => Atoi(t) = data[3]
  BY <1>4, <1>5, AtoiFacts
<1>7. QED
  BY <1>3, <1>4, <1>6, ServerAssumption

\* The body half of the parser leaves the announced size behind every start
\* command in packet_buffer.
LEMMA ParseDataSize ==
  ASSUME Delivery, Along, NoStart, SizeInBuffer, ParseData, UNCHANGED <<image>>
  PROVE  SizeInBuffer'
<1>1. PICK m \in 0 .. Len(Current) :
        /\ \A j \in 1 .. m : packet_buffer'[j] = Current[j]
        /\ \A j \in m + 1 .. BufSize : packet_buffer'[j] = packet_buffer[j]
        /\ \/ UNCHANGED <<taskVars, fileVars, handled>>
           \/ /\ m = Len(Current) /\ Len(handled') = Len(handled) + 1
              /\ process_received_packet(packet_buffer', m)
  BY ParseDataEffect
<1>2. /\ Len(handled) < Len(sent) /\ Len(Current) \in Nat /\ Len(handled) \in Nat
      /\ Len(Current) <= BufSize /\ Connected /\ BufSize \in Nat /\ BufSize >= 4
      /\ image \in Images /\ image \in Seq(Byte) /\ Len(image) \in Nat
  BY ParseDataEffect, AnnouncementFacts, BufferAssumption, ServerAssumption
     DEF Delivery, ServerType
<1>3. PICK cut \in Cuts : Served(cut) /\ Written(cut)
  BY <1>2 DEF Along
<1>4. Announced(cut) \/ Chunked(cut) \/ Ended(cut)
  BY <1>2, <1>3, PacketKinds
<1>5. SUFFICES ASSUME Len(handled') > 0, packet_buffer'[2] = S
               PROVE  /\ packet_buffer'[3] = Len(image)
                      /\ NulTerminated => packet_buffer'[4] = NUL
  BY DEF SizeInBuffer
<1>6. CASE Announced(cut)
  <2>1. m = Len(Current)
    BY <1>1, <1>2, <1>5, <1>6 DEF Announced
  <2>2. PICK a : a = Current
    OBVIOUS
  <2>3. Len(a) \in 3 .. 4 /\ a[3] = Len(image)
        /\ (NulTerminated => Len(a) = 4 /\ a[4] = NUL)
    BY <1>2, <1>6, <2>2, AnnouncementFacts DEF Announced
  <2>4. 3 \in 1 .. m /\ (NulTerminated => 4 \in 1 .. m)
    BY <2>1, <2>2, <2>3
  <2>5. QED
    BY <1>1, <2>2, <2>3, <2>4
<1>7. CASE ~Announced(cut)
  <2>1. Len(handled) > 0
    BY <1>4, <1>7 DEF Chunked, Ended
  <2>2. Len(Current) >= 2 => Current[2] # S
    <3>1. CASE Chunked(cut)
      <4>1. SUFFICES ASSUME Len(Current) >= 2 PROVE Current[2] # S
        OBVIOUS
      <4>2. PICK a \in Nat, b \in Nat : /\ a = cut[Len(handled)] /\ b = cut[Len(handled) + 1]
                                        /\ a < b /\ b <= Len(image) /\ Len(Current) = b - a
        BY <3>1 DEF Chunked
      <4>3. Current[2] = image[a + 2]
        BY <3>1, <4>1, <4>2 DEF Chunked
      <4>4. a + 2 \in 1 .. Len(image)
        <5>1. PICK l \in Nat : l = Len(image) /\ b <= l
          BY <1>2, <4>2
        <5>2. b - a >= 2
          BY <4>1, <4>2
        <5>3. a + 2 \in 1 .. l
          BY <5>1, <5>2
        <5>4. QED
          BY <5>1, <5>3
      <4>5. QED
        BY <1>2, <4>3, <4>4 DEF NoStart
    <3>2. CASE Ended(cut)
      <4>1. PICK c : c = Current
        OBVIOUS
      <4>2. c = <<U, F>>
        BY <3>2, <4>1 DEF Ended, FinishCommand
      <4>3. c[2] = F
        BY <4>2
      <4>4. QED
        BY <4>1, <4>3, ServerAssumption
    <3>3. QED
      BY <1>4, <1>7, <3>1, <3>2
  <2>3. m < 2
    BY <1>1, <1>2, <1>5, <2>2
  <2>4. 2 \in m + 1 .. BufSize /\ 3 \in m + 1 .. BufSize /\ 4 \in m + 1 .. BufSize
    BY <1>2, <2>3
  <2>5. QED
    BY <1>1, <1>2, <1>5, <2>1, <2>4 DEF SizeInBuffer
<1>8. QED
  BY <1>6, <1>7

\* Every step keeps the size the server announced.
LEMMA SizesKept ==
  ASSUME Delivery, UpdateOnlyAtEnd, NoStart, Along, SizeInForce, SizeInBuffer,
         [TransferNext]_allVars
  PROVE  SizeInForce' /\ SizeInBuffer'
<1>1. image' = image
  BY TransferSteps
<1>2. CASE Elsewhere
  BY <1>1, <1>2 DEF Elsewhere, SizeInForce, SizeInBuffer, Transferring
<1>3. CASE ParseData /\ UNCHANGED serverVars
  <2>1. /\ SizeInBuffer' /\ packet_buffer' \in [1 .. BufSize -> Byte]
        /\ Connected /\ UNCHANGED <<pc, sent>> /\ Len(handled) \in Nat
    BY <1>1, <1>3, ParseDataSize, ParseDataEffect
  <2>2. PICK cut \in Cuts : Served(cut) /\ Written(cut)
    BY <2>1 DEF Along
  <2>3. CASE UNCHANGED taskVars
    BY <1>1, <2>1, <2>3 DEF SizeInForce, Transferring, taskVars
  <2>4. ASSUME Len(handled') = Len(handled) + 1, StartIn(cut)
        PROVE  SizeInForce'
    <3>1. packet_buffer'[2] = S
      BY <2>1, <2>4, CommandBytes DEF StartIn
    <3>2. /\ packet_buffer'[3] = Len(image)
          /\ NulTerminated => packet_buffer'[4] = NUL
      BY <1>1, <2>1, <2>4, <3>1 DEF SizeInBuffer, Connected
    <3>3. Len(image) \in Digits
      BY AnnouncementFacts DEF Delivery, ServerType
    <3>4. ASSUME NEW past \in Digits \cup {NUL},
                 total_firmware_size' = Atoi(Append(SizeField(packet_buffer'), past))
          PROVE  SizeInForce'
      <4>1. /\ Len(image) <= total_firmware_size'
            /\ NulTerminated => total_firmware_size' = Len(image)
        BY <2>1, <3>2, <3>3, <3>4, SizeRead
      <4>2. QED
        BY <1>1, <4>1 DEF SizeInForce
    <3>5. \/ UNCHANGED <<taskVars, fileVars>>
          \/ \E past \in Digits \cup {NUL} :
               total_firmware_size' = Atoi(Append(SizeField(packet_buffer'), past))
      <4>1. handle_upgrade_start(packet_buffer')
        BY <2>4 DEF StartIn
      <4>2. QED
        BY <4>1, StartEffect
    <3>6. CASE UNCHANGED <<taskVars, fileVars>>
      BY <2>3, <3>6
    <3>7. QED
      BY <3>4, <3>5, <3>6
  <2>5. CASE DataIn(cut) \/ FinishIn(cut)
    <3>1. total_firmware_size' = total_firmware_size /\ Transferring
      BY <2>5 DEF DataIn, FinishIn, handle_upgrade_data, handle_upgrade_finish,
                  Receiving, Transferring
    <3>2. QED
      BY <1>1, <2>1, <3>1 DEF SizeInForce
  <2>6. QED
    BY <1>3, <2>1, <2>2, <2>3, <2>4, <2>5, ParseDataOutcome DEF Ignored
<1>4. CASE NewSession
  BY <1>4 DEF NewSession, Connect, SizeInForce, SizeInBuffer, Transferring
<1>5. CASE ServerStep /\ UNCHANGED deviceVars
  BY <1>1, <1>5 DEF deviceVars, taskVars, SizeInForce, SizeInBuffer, Transferring, Connected
<1>6. CASE DeviceReset
  BY <1>6 DEF DeviceReset, SizeInForce, SizeInBuffer, Transferring, Connected
<1>7. QED
  BY <1>2, <1>3, <1>4, <1>5, <1>6, TransferSteps

-----------------------------------------------------------------------------
(***************************************************************************)
(* The state, when FatFs does not fail: it follows the server.             *)
(***************************************************************************)

StaysOn ==
  /\ ~file_err
  /\ Connected /\ Len(handled) = 0 => upgrade_state = "IDLE"
  /\ Connected /\ Len(handled) > 0 /\ (Len(handled) < Len(sent) \/ stage = "data") =>
       upgrade_state = IF Len(handled) = 1 THEN "START_RECEIVED" ELSE "RECEIVING_DATA"

\* An image without the word "update " does not have it before its end.
LEMMA NoUpdateIsAtEnd == NoUpdate => UpdateOnlyAtEnd
<1>1. ASSUME NEW m \in Images, NEW i \in 1 .. Len(m) - 1 PROVE i \in 1 .. Len(m)
  <2>1. Len(m) \in Nat
    BY ImageAssumption
  <2>2. QED
    BY <2>1
<1>2. QED
  BY <1>1 DEF NoUpdate, UpdateOnlyAtEnd

\* Every step keeps the state in step with the server.
LEMMA StaysOnKept ==
  ASSUME Delivery, NoUpdate, DiskMayFail = FALSE, Along, StaysOn, [TransferNext]_allVars
  PROVE  StaysOn'
<1>1. /\ Len(handled) \in Nat /\ Len(sent) \in Nat /\ Len(handled) <= Len(sent)
      /\ image \in Images /\ image \in Seq(Byte) /\ Len(image) \in Nat
  BY StreamTypes, AnnouncementFacts DEF Delivery, ServerType, Framing, Delivered
<1>2. UpdateOnlyAtEnd
  BY NoUpdateIsAtEnd
<1>3. CASE Elsewhere
  BY <1>3 DEF Elsewhere, StaysOn, fileVars, serverVars
<1>4. CASE ParseData /\ UNCHANGED serverVars
  <2>1. UNCHANGED <<pc, sent, stage>> /\ Connected /\ Len(handled) < Len(sent)
    BY <1>4, ParseDataEffect DEF serverVars
  <2>2. PICK cut \in Cuts : Served(cut) /\ Written(cut)
    BY <2>1 DEF Along
  <2>3. CASE UNCHANGED <<taskVars, fileVars, handled>>
    BY <2>1, <2>3 DEF StaysOn, Connected, taskVars, fileVars
  <2>4. ASSUME Len(handled') = Len(handled) + 1, StartIn(cut)
        PROVE  StaysOn'
    <3>1. Len(handled) = 0
      BY <1>1, <2>1, <2>4 DEF StartIn, StaysOn
    <3>2. upgrade_state' = "START_RECEIVED" /\ file_err' = FALSE
      BY <2>4, StartEffect DEF StartIn
    <3>3. QED
      BY <2>1, <2>4, <3>1, <3>2 DEF StaysOn
  <2>5. ASSUME Len(handled') = Len(handled) + 1, DataIn(cut)
        PROVE  StaysOn'
    <3>1. Len(handled) > 0 /\ Len(Current) \in Nat
      BY <1>4, <2>5, ParseDataEffect DEF DataIn, Chunked
    <3>2. upgrade_state' = "RECEIVING_DATA" /\ file_err' = file_err
      <4>1. ~FileWriteFailed
        BY DEF FileWriteFailed, StaysOn
      <4>2. PICK k \in 0 .. Len(Current) :
              /\ FileWrote(packet_buffer', Len(Current), k)
              /\ upgrade_state' = IF k = Len(Current) THEN "RECEIVING_DATA" ELSE upgrade_state
        BY <2>5, <4>1 DEF DataIn, handle_upgrade_data
      <4>3. k = Len(Current) /\ file_err' = file_err
        BY <3>1, <4>2 DEF FileWrote
      <4>4. QED
        BY <4>2, <4>3
    <3>3. QED
      BY <1>1, <2>1, <2>5, <3>1, <3>2 DEF StaysOn
  <2>6. ASSUME Len(handled') = Len(handled) + 1, FinishIn(cut)
        PROVE  StaysOn'
    <3>1. ~(Chunked(cut) /\ Current[1] = U /\ Len(Current) = 1)
      <4>1. SUFFICES ASSUME Chunked(cut), Current[1] = U, Len(Current) = 1 PROVE FALSE
        OBVIOUS
      <4>2. PICK a \in Nat : /\ a = cut[Len(handled)] /\ a + 1 <= Len(image)
                            /\ image[a + 1] = Current[1]
        BY <1>1, <4>1 DEF Chunked
      <4>3. QED
        BY <1>1, <4>1, <4>2 DEF NoUpdate
    <3>2. Len(handled) > 0 /\ Len(handled) + 1 = Len(sent) /\ stage = "quiet"
      BY <2>6, <3>1, Zenon DEF FinishIn, Ended
    <3>3. file_err' = file_err
      BY <2>6 DEF FinishIn, handle_upgrade_finish, FileClosed, fileVars
    <3>4. QED
      BY <1>1, <2>1, <2>6, <3>2, <3>3 DEF StaysOn
  <2>7. ASSUME Len(handled') = Len(handled) + 1, Ignored(cut)
        PROVE  StaysOn'
    <3>1. Len(handled) = 0
      BY <1>1, <2>1, <2>7 DEF Ignored, Receiving, StaysOn
    <3>2. Announced(cut)
      BY <2>1, <2>2, <3>1, PacketKinds DEF Chunked, Ended
    <3>3. QED
      BY <2>1, <2>7, <3>1, <3>2 DEF Ignored, StaysOn
  <2>8. QED
    BY <1>2, <1>4, <2>2, <2>3, <2>4, <2>5, <2>6, <2>7, ParseDataOutcome
<1>5. CASE NewSession
  BY <1>5 DEF NewSession, Connect, StaysOn, fileVars
<1>6. CASE ServerStep /\ UNCHANGED deviceVars
  <2>1. UNCHANGED <<pc, upgrade_state, file_err, handled>>
    BY <1>6 DEF deviceVars, taskVars, fileVars
  <2>2. Connected /\ stage = "start" => Len(handled) = 0
    BY <1>1 DEF Along, Served
  <2>3. stage = "start" \/ stage = "data"
    BY <1>6 DEF ServerStep, SendStart, SendChunk, SendFinish
  <2>4. QED
    BY <1>1, <2>1, <2>2, <2>3 DEF StaysOn, Connected
<1>7. CASE DeviceReset
  BY <1>7 DEF DeviceReset, StaysOn, Connected
<1>8. QED
  BY <1>3, <1>4, <1>5, <1>6, <1>7, TransferSteps

-----------------------------------------------------------------------------
(***************************************************************************)
(* The theorems.  They are about images whose chunks are not taken for a   *)
(* command: the hypotheses of each say which words an image may not hold.  *)
(***************************************************************************)

\* At the start the task has nothing and the server is quiet.
LEMMA TransferInitEstablishes ==
  ASSUME TransferInit
  PROVE  Delivery /\ Along /\ SizeInForce /\ SizeInBuffer /\ StaysOn
<1>1. Init /\ image \in Images /\ image \in Seq(Byte) /\ stage = "quiet" /\ left = << >>
  BY ImageAssumption DEF TransferInit
<1>2. /\ pc = "connect" /\ upgrade_state = "IDLE" /\ file = << >> /\ card = NoFile
      /\ file_err = FALSE /\ sent = << >> /\ handled = << >> /\ seg = << >>
  BY <1>1 DEF Init
<1>3. IInv
  BY <1>1, InitEstablishes
<1>4. Framing /\ Fits
  BY <1>2 DEF Framing, Fits, Delivered, InStep, Connected
<1>5. ServerType
  BY <1>1 DEF ServerType
<1>6. Along
  BY <1>1, <1>2, EmptyPrefix DEF Along, CardHoldsBeginning, NoFile, Connected
<1>7. SizeInForce /\ SizeInBuffer /\ StaysOn
  BY <1>2 DEF SizeInForce, SizeInBuffer, StaysOn, Transferring, Connected
<1>8. QED
  BY <1>3, <1>4, <1>5, <1>6, <1>7 DEF Delivery

\* What a reboot finds as a closed firmware.bin is a beginning of the image of
\* the server, whatever the network, FatFs and resets did: the parser hands
\* handle_upgrade_data the chunks in order, and a chunk that follows a failed
\* write finds the error still set in firmware_file.
THEOREM CardIsBeginning ==
  ASSUME UpdateOnlyAtEnd
  PROVE  TransferSpec => []CardHoldsBeginning
<1>1. TransferInit => Delivery /\ Along
  BY TransferInitEstablishes
<1>2. Delivery /\ Along /\ [TransferNext]_allVars => (Delivery /\ Along)'
  BY DeliveryKept, AlongKept
<1>3. Delivery /\ Along => CardHoldsBeginning
  BY DEF Along
<1>4. QED
  BY <1>1, <1>2, <1>3, PTL DEF TransferSpec

\* While a transfer is on, total_firmware_size is the announced size: atoi reads
\* past the end of the announcement, but finds its NUL there.
THEOREM SizeIsAnnounced ==
  ASSUME UpdateOnlyAtEnd, NoStart, NulTerminated
  PROVE  TransferSpec => []AnnouncedSize
<1> DEFINE Inv == Delivery /\ Along /\ SizeInForce /\ SizeInBuffer
<1>1. TransferInit => Inv
  BY TransferInitEstablishes
<1>2. Inv /\ [TransferNext]_allVars => Inv'
  BY DeliveryKept, AlongKept, SizesKept
<1>3. Inv => AnnouncedSize
  BY DEF SizeInForce, AnnouncedSize
<1>4. QED
  BY <1>1, <1>2, <1>3, PTL DEF TransferSpec

\* When FatFs does not fail, every packet behind the announcement that is not
\* the finish command is written as data.
THEOREM ChunksAreData ==
  ASSUME NoUpdate, DiskMayFail = FALSE
  PROVE  TransferSpec => []ChunkKeepsReceiving
<1> DEFINE Inv == Delivery /\ Along /\ StaysOn
<1>1. TransferInit => Inv
  BY TransferInitEstablishes
<1>2. Inv /\ [TransferNext]_allVars => Inv'
  <2>1. UpdateOnlyAtEnd
    BY NoUpdateIsAtEnd
  <2>2. QED
    BY <2>1, DeliveryKept, AlongKept, StaysOnKept
<1>3. Inv => ChunkKeepsReceiving
  <2>1. SUFFICES ASSUME Delivery, StaysOn, LastHandledIsData, Connected
                 PROVE  upgrade_state = "RECEIVING_DATA"
    BY DEF ChunkKeepsReceiving, Connected
  <2>2. PICK n \in Nat : n = Len(handled)
    BY <2>1, StreamTypes DEF Delivery
  <2>3. n > 0 /\ n # 1
    BY <2>1, <2>2 DEF LastHandledIsData
  <2>4. QED
    BY <2>1, <2>2, <2>3 DEF StaysOn, LastHandledIsData
<1>4. QED
  BY <1>1, <1>2, <1>3, PTL DEF TransferSpec

-----------------------------------------------------------------------------
(***************************************************************************)
(* The refinement                                                          *)
(***************************************************************************)

Phase == CASE upgrade_state = "IDLE" -> "none"
           [] upgrade_state = "FINISH_RECEIVED" -> "done"
           [] OTHER -> "receiving"

\* What FirmwareTransfer sees of a state.
LEMMA PhaseFacts ==
  ASSUME IInv
  PROVE  /\ upgrade_state = "IDLE" => Phase = "none"
         /\ upgrade_state = "FINISH_RECEIVED" => Phase = "done"
         /\ Receiving => Phase = "receiving"
         /\ upgrade_state = "IDLE" \/ upgrade_state = "FINISH_RECEIVED" \/ Receiving
BY DEF Phase, Receiving, IInv, TransferType

\* The file is the whole image when the counters agree at the finish command.
LEMMA FinishIsImage ==
  ASSUME Delivery, IsPrefixOf(file, image), SizeInForce, Transferring,
         received_size = total_firmware_size
  PROVE  file = image
<1>1. /\ image \in Seq(Byte) /\ Len(image) \in Nat /\ file \in Seq(Byte)
      /\ received_size \in Nat
  BY AnnouncementFacts DEF Delivery, ServerType, IInv, TransferType
<1>2. received_size <= Len(file) /\ Len(image) <= received_size
  BY DEF Delivery, IInv, Counts, CountMatchesFile, SizeInForce
<1>3. PICK n \in Nat : n = Len(file)
  BY <1>1
<1>4. n <= Len(image) /\ \A i \in 1 .. n : file[i] = image[i]
  BY <1>1, <1>3, PrefixFacts
<1>5. n = Len(image)
  BY <1>1, <1>2, <1>3, <1>4
<1>6. QED
  BY <1>1, <1>3, <1>4, <1>5, SeqEqual

\* Every step of the system is one of FirmwareTransfer or leaves it alone.
LEMMA TransferRefines ==
  ASSUME Delivery, Delivery', UpdateOnlyAtEnd, Along, SizeInForce, [TransferNext]_allVars
  PROVE  [Promise!Next]_(Promise!vars)
<1> DEFINE Stutter == UNCHANGED <<image, Phase, file>>
           Begin == Phase = "none" /\ Phase' = "receiving" /\ file' = << >>
           Extend == /\ Phase = "receiving" /\ Phase' = Phase
                     /\ \E n \in Len(file) + 1 .. Len(image) : file' = SubSeq(image, 1, n)
           Complete == /\ Phase = "receiving" /\ file = image
                       /\ Phase' = "done" /\ file' = file
           Leave == Phase # "none" /\ Phase' = "none" /\ file' = file
           Crash == Phase' = "none" /\ file' = << >>
<1>1. SUFFICES Stutter \/ Begin \/ Extend \/ Complete \/ Leave \/ Crash
  <2>1. image' = image
    BY TransferSteps
  <2>2. QED
    BY <2>1 DEF Promise!Next, Promise!vars, Promise!Begin, Promise!Extend, Promise!Complete,
                Promise!Leave, Promise!Crash, Phase
<1>2. /\ image' = image /\ IInv /\ IInv'
      /\ IsPrefixOf(file, image)
  BY TransferSteps DEF Delivery, Along
<1>3. ASSUME upgrade_state' = upgrade_state PROVE Phase' = Phase
  BY <1>3 DEF Phase
<1>4. /\ upgrade_state = "IDLE" => Phase = "none"
      /\ upgrade_state = "FINISH_RECEIVED" => Phase = "done"
      /\ Receiving => Phase = "receiving"
      /\ upgrade_state = "IDLE" \/ upgrade_state = "FINISH_RECEIVED" \/ Receiving
  BY <1>2, PhaseFacts
<1>5. /\ upgrade_state' = "IDLE" => Phase' = "none"
      /\ upgrade_state' = "FINISH_RECEIVED" => Phase' = "done"
      /\ upgrade_state' \in {"START_RECEIVED", "RECEIVING_DATA"} => Phase' = "receiving"
  BY <1>2 DEF Phase
<1>6. ASSUME upgrade_state' = "IDLE", file' = file PROVE Leave \/ Stutter
  BY <1>2, <1>4, <1>5, <1>6
<1>7. CASE Elsewhere
  BY <1>2, <1>3, <1>6, <1>7 DEF Elsewhere, fileVars
<1>8. CASE ParseData /\ UNCHANGED serverVars
  <2>1. Connected
    BY <1>8, ParseDataEffect
  <2>2. PICK cut \in Cuts : Served(cut) /\ Written(cut)
    BY <2>1 DEF Along
  <2>3. ASSUME UNCHANGED <<taskVars, fileVars>> PROVE Stutter
    BY <1>2, <1>3, <2>3 DEF taskVars, fileVars
  <2>4. CASE StartIn(cut)
    <3>1. \/ UNCHANGED <<taskVars, fileVars>>
          \/ UNCHANGED <<upgrade_state, file>>
          \/ upgrade_state' = "START_RECEIVED" /\ file' = << >>
      BY <2>4, StartEffect DEF StartIn
    <3>2. upgrade_state = "IDLE"
      BY <2>4 DEF StartIn
    <3>3. QED
      BY <1>2, <1>3, <1>4, <1>5, <2>3, <3>1, <3>2
  <2>5. ASSUME DataIn(cut), Len(handled') = Len(handled) + 1 PROVE Stutter \/ Extend
    <3>1. PICK m \in 0 .. Len(Current) :
            /\ \A j \in 1 .. m : packet_buffer'[j] = Current[j]
            /\ UNCHANGED handled \/ m = Len(Current)
      BY <1>8, ParseDataEffect
    <3>2. /\ packet_buffer' \in [1 .. BufSize -> Byte] /\ Len(Current) <= BufSize
          /\ m = Len(Current)
      <4>1. Len(handled) \in Nat
        BY <1>8, ParseDataEffect
      <4>2. QED
        BY <1>8, <2>5, <3>1, <4>1, ParseDataEffect
    <3>3. /\ upgrade_state' \in {"START_RECEIVED", "RECEIVING_DATA"}
          /\ \/ file' = file
             \/ \E e \in Len(file) + 1 .. Len(image) : file' = SubSeq(image, 1, e)
      BY <1>2, <2>2, <2>5, <3>1, <3>2, ChunkWritten DEF DataIn
    <3>4. Phase = "receiving" /\ Phase' = "receiving"
      BY <1>4, <1>5, <2>5, <3>3 DEF DataIn
    <3>5. QED
      BY <1>2, <3>3, <3>4
  <2>6. CASE FinishIn(cut)
    <3>1. Receiving /\ handle_upgrade_finish
      BY <2>6 DEF FinishIn
    <3>2. file' = file /\ Transferring
      BY <3>1 DEF handle_upgrade_finish, FileClosed, fileVars, Receiving, Transferring
    <3>3. CASE received_size = total_firmware_size
      <4>1. upgrade_state' = "FINISH_RECEIVED"
        BY <3>1, <3>3 DEF handle_upgrade_finish, StateAfterFinish
      <4>2. file = image
        BY <1>2, <3>2, <3>3, FinishIsImage
      <4>3. QED
        BY <1>4, <1>5, <3>1, <3>2, <4>1, <4>2
    <3>4. CASE received_size # total_firmware_size
      <4>1. upgrade_state' = "IDLE"
        BY <3>1, <3>4 DEF handle_upgrade_finish, StateAfterFinish
      <4>2. QED
        BY <1>6, <3>2, <4>1
    <3>5. QED
      BY <3>3, <3>4
  <2>7. CASE Ignored(cut)
    BY <2>3, <2>7 DEF Ignored
  <2>8. QED
    BY <1>8, <2>2, <2>3, <2>4, <2>5, <2>6, <2>7, ParseDataOutcome
<1>9. CASE NewSession
  BY <1>6, <1>9 DEF NewSession, Connect, fileVars
<1>10. CASE ServerStep /\ UNCHANGED deviceVars
  BY <1>2, <1>3, <1>10 DEF deviceVars, taskVars, fileVars
<1>11. CASE DeviceReset
  BY <1>5, <1>11 DEF DeviceReset
<1>12. QED
  BY <1>7, <1>8, <1>9, <1>10, <1>11, TransferSteps

\* upgrade_task implements FirmwareTransfer: the file only grows along the image
\* from its beginning, and FINISH_RECEIVED is reported only for the whole of it.
THEOREM TransferIsPromised ==
  ASSUME UpdateOnlyAtEnd, NoStart
  PROVE  TransferSpec => ImplementsTransfer
<1> DEFINE Inv == Delivery /\ Along /\ SizeInForce /\ SizeInBuffer
<1>1. TransferInit => Inv
  BY TransferInitEstablishes
<1>2. Inv /\ [TransferNext]_allVars => Inv'
  BY DeliveryKept, AlongKept, SizesKept
<1>3. TransferInit => Promise!Init
  BY DEF TransferInit, Init, Promise!Init
<1>4. Inv /\ Inv' /\ [TransferNext]_allVars => [Promise!Next]_(Promise!vars)
  BY TransferRefines
<1>5. QED
  BY <1>1, <1>2, <1>3, <1>4, PTL DEF TransferSpec, ImplementsTransfer, Promise!Spec

=============================================================================
