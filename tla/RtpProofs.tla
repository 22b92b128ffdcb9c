----------------------------- MODULE RtpProofs -----------------------------
(***************************************************************************)
(* Proofs about Rtp, for all frames, all lengths and packet sizes, and        *)
(* whatever the network does with the packets and other participants send.   *)
(*                                                                          *)
(* T[k] is the timestamp of frame k.  It is fixed once the file begins, so    *)
(* the invariant holds of one T all along.  What is put together from the     *)
(* packets of one sender is only known while no other participant's packet    *)
(* has come.                                                                *)
(***************************************************************************)
EXTENDS Rtp, Integers, DataLemmas

(* The timestamps of the frames follow each other. *)
Clock(T) ==
  /\ T \in [1..(MaxFrames + 1) -> 0..(TimestampModulus - 1)]
  /\ \A k \in 1..MaxFrames : T[k + 1] = NextTimestamp(T[k])

(* The length of a frame, the number of its packets, and the bytes of the j-th. *)
LenOf(k) == FrameLength(frames[k])
CountOf(k) == PacketCount(LenOf(k))
From(len, j) == FirstByte(len) + (j - 1) * MAX_RTP_BODY_LENGTH
Top(len, j) == Min({len, From(len, j) + MAX_RTP_BODY_LENGTH - 1})

(* The packets of frame k, and what setframe() makes of them. *)
Packets(k, len, ts) == [j \in 1..PacketCount(len) |-> Packet(k, len, ts, j)]
Loaded(k, len, ts) ==
  /\ mux.packet_count = PacketCount(len)
  /\ mux.rtp_buffer = FlattenSeq(Packets(k, len, ts))
  /\ mux.last_packet_length = Len(Packet(k, len, ts, PacketCount(len)))

(* rtp_buffer holds the packets of the frame that is being sent. *)
MuxOK(T) ==
  /\ mux.timestamp_current = T[Len(frames) + 1]
  /\ mux.rtp_buffer \in Seq(Unit)
  /\ sender = "packet" =>
       /\ Len(frames) > 0 /\ i \in 1..CountOf(Len(frames))
       /\ Loaded(Len(frames), LenOf(Len(frames)), T[Len(frames)])

(* The j-th packet of its frame, where its bytes begin, and the order of packets. *)
IsPacket(T, p, j) ==
  /\ FrameOf(p) \in 1..Len(frames) /\ j \in 1..CountOf(FrameOf(p))
  /\ p = Packet(FrameOf(p), LenOf(FrameOf(p)), T[FrameOf(p)], j)
First(p) == IF IsFU(p) THEN p[3][3] ELSE 1
Before(k, x, l, y) == k < l \/ (k = l /\ x < y)

(* Position x of frame k comes before everything that is on its way or still to send. *)
Behind(k, x) ==
  /\ \A n \in 1..Len(net) : Before(k, x, FrameOf(net[n]), First(net[n]))
  /\ sender = "packet" => Before(k, x, Len(frames), From(LenOf(Len(frames)), i))

(* The packets on their way are packets of the frames, in the order in which they were sent. *)
NetOK(T) ==
  /\ net \in Seq(Seq(Unit))
  /\ codec # "h264" => net = <<>>
  /\ \A n \in 1..Len(net) : \E j \in Nat : IsPacket(T, net[n], j)
  /\ \A m, n \in 1..Len(net) : m < n => Before(FrameOf(net[m]), First(net[m]), FrameOf(net[n]), First(net[n]))
  /\ sender = "packet" =>
       \A n \in 1..Len(net) :
         Before(FrameOf(net[n]), First(net[n]), Len(frames), From(LenOf(Len(frames)), i))

(* A start code and bytes of one frame. *)
Assembles(b) ==
  /\ b \in Seq(Unit) /\ Len(b) > 1 /\ b[1] = Start
  /\ b[2][2] \in 1..Len(frames)
  /\ \A n \in 2..Len(b) : b[n] # Start => b[n][2] = b[2][2]
Rising(b) == \A m, n \in 1..Len(b) : m < n => b[m][3] < b[n][3]

BufferOK(T) ==
  demux.rtp_buffer # <<>> =>
    Assembles(demux.rtp_buffer) /\ demux.timestamp = T[demux.rtp_buffer[2][2]]
DeliveredOK == \A n \in 1..Len(delivered) : Assembles(delivered[n].data)

(* When packets are only lost. *)
CutsOK ==
  faults = 0 =>
    /\ \A n \in 1..Len(net) : latest <= FrameOf(net[n])
    /\ \A n \in 1..Len(delivered) : delivered[n].data[2][2] < latest /\ Rising(delivered[n].data)
    /\ \A m, n \in 1..Len(delivered) : m < n => delivered[m].data[2][2] < delivered[n].data[2][2]
    /\ demux.rtp_buffer # <<>> =>
         /\ demux.rtp_buffer[2][2] <= latest
         /\ \A n \in 1..Len(delivered) : delivered[n].data[2][2] < demux.rtp_buffer[2][2]
         /\ Rising(demux.rtp_buffer)
         /\ Behind(demux.rtp_buffer[2][2], demux.rtp_buffer[Len(demux.rtp_buffer)][3])

(* The first bytes of frame k, as framecallback gets them. *)
Whole(k, x) == <<Start>> \o Bytes(k, 1, x)

(* j packets of frame k were passed on; if none was lost, the buffer has all their bytes. *)
Underway(k, j) ==
  /\ Behind(k, Top(LenOf(k), j)) /\ seen[k] <= j
  /\ seen[k] = j => demux.rtp_buffer = Whole(k, Top(LenOf(k), j))

(* When packets are only lost, and not for too long. *)
WholeOK ==
  faults = 0 /\ ~jumped =>
    /\ demux.rtp_buffer # <<>> => demux.rtp_buffer[2][2] = latest
    /\ \A k \in 1..Len(frames) : Copied(k) =>
         /\ k > latest => seen[k] = 0
         /\ k = latest => demux.rtp_buffer # <<>> /\ \E j \in 1..CountOf(k) : Underway(k, j)
         /\ k < latest /\ seen[k] = CountOf(k) =>
              \E n \in 1..Len(delivered) : delivered[n].data = Whole(k, LenOf(k))

(* The variables. *)
RestOK ==
  /\ codec \in Codec /\ frames \in Seq(Frame) /\ Len(frames) <= MaxFrames
  /\ sender \in {"frame", "packet", "end"}
  /\ receiver \in {"starting", "running", "crashed", "ended"}
  /\ demux.rtp_buffer \in Seq(Unit) /\ demux.timestamp \in 0..(TimestampModulus - 1)
  /\ delivered \in Seq([timestamp : 0..(TimestampModulus - 1), data : Seq(Unit)])
  /\ seen \in [1..MaxFrames -> Nat] /\ \A k \in 1..MaxFrames : k > Len(frames) => seen[k] = 0
  /\ latest \in 0..Len(frames) /\ faults \in 0..MaxFaults /\ jumped \in BOOLEAN
  /\ others \in 0..MaxOthers

(* A start code and bytes of frames, of the file or not, that were sent with ts. *)
FrameFits(T, k, ts) == k = 0 \/ (k \in 1..MaxFrames /\ T[k] = ts) \/ k = OtherFrame(ts)
AllFit(T, b, ts) == b \in Seq(Unit) /\ \A n \in 1..Len(b) : FrameFits(T, b[n][2], ts)
Stamped(T, b, ts) == AllFit(T, b, ts) /\ Len(b) > 1 /\ b[1] = Start
StampsOK(T) ==
  /\ demux.rtp_buffer # <<>> => Stamped(T, demux.rtp_buffer, demux.timestamp)
  /\ \A n \in 1..Len(delivered) : Stamped(T, delivered[n].data, delivered[n].timestamp)

(* What the receiver has put together while only one sender's packets came. *)
Lone(T) == BufferOK(T) /\ DeliveredOK /\ CutsOK /\ WholeOK

(* The inductive invariant. *)
Holds(T) == Clock(T) /\ RestOK /\ MuxOK(T) /\ NetOK(T) /\ StampsOK(T) /\ (others = 0 => Lone(T))
IInv == \E T \in [1..(MaxFrames + 1) -> 0..(TimestampModulus - 1)] : Holds(T)

-----------------------------------------------------------------------------
(* Numbers.                                                                  *)

(* The quotient of two numbers. *)
LEMMA Quotient ==
  ASSUME NEW a \in Nat, NEW b \in Nat \ {0}
  PROVE  a \div b \in Nat /\ (a \div b) * b <= a /\ a < (a \div b) * b + b
  OBVIOUS

(* Max and Min of two numbers. *)
LEMMA MinMax ==
  ASSUME NEW a \in Int, NEW b \in Int
  PROVE  /\ Min({a, b}) = IF a <= b THEN a ELSE b
         /\ Max({a, b}) = IF a >= b THEN a ELSE b
<1>1. Min({a, b}) = IF a <= b THEN a ELSE b
  <2>1. \E x \in {a, b} : \A y \in {a, b} : x <= y
    OBVIOUS
  <2> QED
    BY <2>1 DEF Min
<1>2. Max({a, b}) = IF a >= b THEN a ELSE b
  <2>1. \E x \in {a, b} : \A y \in {a, b} : x >= y
    OBVIOUS
  <2> QED
    BY <2>1 DEF Max
<1> QED
  BY <1>1, <1>2

(* The rounds of the muxers' loop. *)
LEMMA Rounds ==
  ASSUME NEW len \in Nat, FirstByte(len) \in 1..len
  PROVE  /\ PacketCount(len) \in Nat \ {0}
         /\ From(len, PacketCount(len)) <= len
         /\ len < From(len, PacketCount(len)) + MAX_RTP_BODY_LENGTH
<1> DEFINE B == MAX_RTP_BODY_LENGTH
           F == FirstByte(len)
           q == (len - F + B) \div B
<1>1. B \in Nat \ {0} /\ F \in Nat /\ len - F \in Nat
  BY BodyAssumption
<1> HIDE DEF B, F
<1>2. PICK a \in Nat : a = len - F + B
  BY <1>1
<1>3. a \div B \in Nat /\ (a \div B) * B <= a /\ a < (a \div B) * B + B
  BY <1>1, Quotient
<1>4. q \in Nat /\ q * B <= len - F + B /\ len - F + B < q * B + B
  BY <1>2, <1>3
<1> HIDE DEF q
<1>5. q # 0
  <2> SUFFICES ASSUME q = 0 PROVE FALSE
    OBVIOUS
  <2>1. q * B = 0
    BY <1>1
  <2> QED
    BY <1>1, <1>4, <2>1
<1>6. PacketCount(len) = q
  <2>1. PacketCount(len) = Max({1, q})
    BY DEF PacketCount, q, F, B
  <2>2. PICK u \in Int, v \in Int : u = 1 /\ v = q
    BY <1>4
  <2>3. Max({u, v}) = IF u >= v THEN u ELSE v
    BY MinMax
  <2> QED
    BY <1>4, <1>5, <2>1, <2>2, <2>3
<1>7. (q - 1) * B = q * B - B
  BY <1>1, <1>4
<1>8. From(len, q) = F + (q * B - B)
  BY <1>7 DEF From, F, B
<1>9. q * B \in Nat
  BY <1>1, <1>4
<1> QED
  BY <1>1, <1>4, <1>5, <1>6, <1>8, <1>9 DEF B

(* Where packet j of a frame begins and ends. *)
LEMMA Extents ==
  ASSUME NEW len \in Nat, FirstByte(len) \in 1..len, NEW j \in 1..PacketCount(len)
  PROVE  /\ From(len, j) \in 1..len /\ Top(len, j) \in Nat
         /\ From(len, j) <= Top(len, j) /\ Top(len, j) <= len
         /\ Top(len, j) <= From(len, j) + MAX_RTP_BODY_LENGTH - 1
         /\ j < PacketCount(len) => /\ Top(len, j) = From(len, j) + MAX_RTP_BODY_LENGTH - 1
                                    /\ From(len, j + 1) = Top(len, j) + 1
         /\ j = PacketCount(len) => Top(len, j) = len
         /\ j = 1 => From(len, j) = FirstByte(len)
<1> DEFINE B == MAX_RTP_BODY_LENGTH
           F == FirstByte(len)
           n == PacketCount(len)
<1>1. B \in Nat \ {0} /\ F \in 1..len /\ n \in Nat \ {0} /\ From(len, n) <= len /\ len < From(len, n) + B
  BY BodyAssumption, Rounds
<1>2. From(len, j) = F + (j - 1) * B /\ From(len, n) = F + (n - 1) * B /\ From(len, j + 1) = F + j * B
  BY <1>1 DEF From
<1>a. Top(len, j) = Min({len, From(len, j) + B - 1})
  BY DEF Top
<1> HIDE DEF B, F, n
<1>3. j \in Nat \ {0} /\ j <= n
  BY <1>1 DEF n
<1>4. (j - 1) * B \in Nat /\ j * B = (j - 1) * B + B
  BY <1>1, <1>3
<1>5. j < n => j * B <= (n - 1) * B
  <2> SUFFICES ASSUME j < n PROVE j * B <= (n - 1) * B
    OBVIOUS
  <2>1. PICK m \in Nat, l \in Nat : m = j - 1 /\ l = n - 1
    BY <1>1, <1>3
  <2>2. m < l /\ B \in Nat
    BY <1>1, <1>3, <2>1
  <2>3. m * B + B <= l * B
    BY <2>2, Multiples
  <2> QED
    BY <1>4, <2>1, <2>3
<1>6. j = n => (j - 1) * B = (n - 1) * B
  OBVIOUS
<1>7. PICK x \in Int : x = From(len, j) + B - 1
  BY <1>1, <1>2, <1>4
<1>8. Top(len, j) = IF len <= x THEN len ELSE x
  BY <1>7, <1>a, MinMax
<1>9. (n - 1) * B \in Nat
  BY <1>1
<1>10. PICK u \in Nat, v \in Nat : u = (j - 1) * B /\ v = (n - 1) * B
  BY <1>4, <1>9
<1>11. /\ From(len, j) = F + u /\ F + v <= len /\ len < F + v + B /\ From(len, j + 1) = F + u + B
       /\ j < n => u + B <= v
       /\ j = n => u = v
       /\ x = F + u + B - 1
  BY <1>1, <1>2, <1>4, <1>5, <1>6, <1>7, <1>10
<1>12. j = 1 => u = 0
  BY <1>1, <1>10
<1>13. u <= v
  BY <1>1, <1>3, <1>11
<1> QED
  BY <1>1, <1>3, <1>8, <1>11, <1>12, <1>13 DEF B, F, n

(* Packets of a frame follow each other. *)
LEMMA Follow ==
  ASSUME NEW len \in Nat, FirstByte(len) \in 1..len,
         NEW j \in 1..PacketCount(len), NEW l \in 1..PacketCount(len), j < l
  PROVE  Top(len, j) < From(len, l)
<1> DEFINE B == MAX_RTP_BODY_LENGTH
<1>1. PICK u \in Nat, v \in Nat : u = j - 1 /\ v = l - 1
  BY Rounds
<1>2. u < v /\ B \in Nat
  BY <1>1, Rounds, BodyAssumption
<1>3. u * B \in Nat /\ v * B \in Nat /\ u * B + B <= v * B
  BY <1>2, Multiples
<1>4. From(len, j) = FirstByte(len) + u * B /\ From(len, l) = FirstByte(len) + v * B
  BY <1>1 DEF From
<1>5. Top(len, j) \in Nat /\ Top(len, j) <= From(len, j) + B - 1
  BY Extents
<1> HIDE DEF B
<1> QED
  BY <1>2, <1>3, <1>4, <1>5

-----------------------------------------------------------------------------
(* Packets.                                                                  *)

(* A frame has a byte to send. *)
LEMMA FrameFacts ==
  ASSUME codec \in Codec, NEW f \in Frame
  PROVE  FrameLength(f) \in Nat \ {0} /\ FirstByte(FrameLength(f)) \in 1..FrameLength(f)
<1>1. f.len \in Nat \ {0}
  BY FileAssumption
<1>2. CASE codec = "aac"
  BY <1>1, <1>2 DEF FrameLength, FirstByte, ADTS_LENGTH
<1>3. CASE codec # "aac"
  <2>1. FrameLength(f) = f.len
    BY <1>1, <1>3 DEF FrameLength
  <2>2. CASE Fragmented(f.len)
    <3>1. f.len > MAX_RTP_BODY_LENGTH /\ FirstByte(f.len) = 2
      BY <1>3, <2>2 DEF Fragmented, FirstByte
    <3> QED
      BY <1>1, <2>1, <3>1, BodyAssumption
  <2>3. CASE ~Fragmented(f.len)
    <3>1. FirstByte(f.len) = 1
      BY <1>3, <2>3 DEF FirstByte
    <3> QED
      BY <1>1, <2>1, <3>1
  <2> QED
    BY <2>2, <2>3
<1> QED
  BY <1>2, <1>3

(* n bytes of frame k, one after the other. *)
IsBytes(s, k, from, n) ==
  s \in Seq(Unit) /\ Len(s) = n /\ \A x \in 1..n : s[x] = <<"byte", k, from + x - 1>>

(* The bytes of a frame from one position to another. *)
LEMMA BytesAre ==
  ASSUME NEW k \in Nat, NEW from \in Nat, NEW to \in Nat, from <= to + 1
  PROVE  IsBytes(Bytes(k, from, to), k, from, to - from + 1)
<1> DEFINE n == to - from + 1
           f == [x \in 1..n |-> <<"byte", k, from + x - 1>>]
<1>1. n \in Nat
  OBVIOUS
<1>2. \A x \in 1..n : from + x - 1 \in Nat
  OBVIOUS
<1>3. f = Bytes(k, from, to)
  BY DEF Bytes
<1>4. \A x \in 1..n : <<"byte", k, from + x - 1>> \in Unit
  BY <1>2 DEF Unit
<1> HIDE DEF n
<1>5. f \in [1..n -> Unit] /\ \A x \in 1..n : f[x] = <<"byte", k, from + x - 1>>
  BY <1>4
<1> HIDE DEF f
<1>6. f \in Seq(Unit) /\ Len(f) = n
  BY <1>1, <1>5
<1> QED
  BY <1>3, <1>5, <1>6 DEF n, IsBytes

(* The number of units between the RTP header and the bytes. *)
HeadLen(len) == IF codec = "aac" \/ Fragmented(len) THEN 1 ELSE 0

(* What setframe() puts before the bytes. *)
LEMMA HeaderIs ==
  ASSUME NEW k \in Nat, NEW len \in Nat
  PROVE  /\ PayloadHeader(k, len) \in Seq(Unit) /\ Len(PayloadHeader(k, len)) = HeadLen(len)
         /\ HeadLen(len) \in 0..1
         /\ Fragmented(len) => codec = "h264" /\ PayloadHeader(k, len)[1] = <<"fu", k, 1>>
         /\ ~Fragmented(len) /\ codec # "aac" => PayloadHeader(k, len) = <<>>
<1>1. <<"au", 0, 0>> \in Unit /\ <<"fu", k, 1>> \in Unit
  BY DEF Unit
<1>2. CASE codec = "aac"
  BY <1>1, <1>2 DEF PayloadHeader, HeadLen, Fragmented
<1>3. CASE codec # "aac" /\ Fragmented(len)
  <2>1. PayloadHeader(k, len) = << <<"fu", k, 1>> >> /\ HeadLen(len) = 1
    BY <1>3 DEF PayloadHeader, HeadLen
  <2> QED
    BY <1>1, <1>3, <2>1 DEF Fragmented
<1>4. CASE codec # "aac" /\ ~Fragmented(len)
  BY <1>4 DEF PayloadHeader, HeadLen
<1> QED
  BY <1>2, <1>3, <1>4

(* A packet's parts, one after the other. *)
PartsOf(p, k, ts, h, from, to) ==
  /\ p \in Seq(Unit) /\ Len(p) = 1 + h + (to - from + 1)
  /\ p[1] = <<"rtp", ts, 0>>
  /\ \A x \in 1..(to - from + 1) : p[1 + h + x] = <<"byte", k, from + x - 1>>

(* What a packet is made of. *)
LEMMA PacketIs ==
  ASSUME NEW k \in Nat, NEW len \in Nat, FirstByte(len) \in 1..len, NEW ts \in Nat,
         NEW j \in 1..PacketCount(len)
  PROVE  /\ PartsOf(Packet(k, len, ts, j), k, ts, HeadLen(len), From(len, j), Top(len, j))
         /\ HeadLen(len) = 1 => Packet(k, len, ts, j)[2] = PayloadHeader(k, len)[1]
<1> DEFINE a == << <<"rtp", ts, 0>> >>
           b == PayloadHeader(k, len)
           c == Bytes(k, From(len, j), Top(len, j))
           n == Top(len, j) - From(len, j) + 1
           h == HeadLen(len)
<1>1. Packet(k, len, ts, j) = (a \o b) \o c
  BY DEF Packet, From, Top
<1>2. /\ From(len, j) \in Nat /\ Top(len, j) \in Nat /\ From(len, j) <= Top(len, j) + 1
      /\ n \in Nat
  BY Extents
<1>3. c \in Seq(Unit) /\ Len(c) = n /\ \A x \in 1..n : c[x] = <<"byte", k, From(len, j) + x - 1>>
  <2>1. IsBytes(c, k, From(len, j), n)
    BY <1>2, BytesAre
  <2> QED
    BY <2>1 DEF IsBytes
<1>4. b \in Seq(Unit) /\ Len(b) = h /\ h \in 0..1
  BY HeaderIs
<1>5. a \in Seq(Unit) /\ Len(a) = 1 /\ a[1] = <<"rtp", ts, 0>>
  BY DEF Unit
<1> HIDE DEF a, b, c, n, h
<1>6. PICK ab : ab = a \o b /\ Joins(a, b, ab)
  BY DEF Joins
<1>7. PICK p : p = ab \o c /\ Joins(ab, c, p)
  BY DEF Joins
<1>8. /\ ab \in Seq(Unit) /\ Len(ab) = 1 + h
      /\ \A x \in 1..1 : ab[x] = a[x]
      /\ \A x \in 1..h : ab[1 + x] = b[x]
  <2>1. PICK one \in Nat : one = 1
    OBVIOUS
  <2>2. /\ ab \in Seq(Unit) /\ Len(ab) = one + h
        /\ \A x \in 1..one : ab[x] = a[x]
        /\ \A x \in 1..h : ab[one + x] = b[x]
    <3>0. h \in Nat
      BY <1>4
    <3>1. IsJoined(Unit, a, one, b, h, ab)
      BY <3>0, <1>4, <1>5, <1>6, <2>1, ConcatIs
    <3> QED
      BY <3>1 DEF IsJoined
  <2> QED
    BY <2>1, <2>2
<1>9. PICK m \in Nat : m = 1 + h
  BY <1>4
<1>10. /\ p \in Seq(Unit) /\ Len(p) = m + n
       /\ \A x \in 1..m : p[x] = ab[x]
       /\ \A x \in 1..n : p[m + x] = c[x]
  <2>1. IsJoined(Unit, ab, m, c, n, p)
    BY <1>2, <1>3, <1>7, <1>8, <1>9, ConcatIs
  <2> QED
    BY <2>1 DEF IsJoined
<1>11. p[1] = a[1] /\ (h = 1 => p[2] = b[1])
  <2>1. 1 \in 1..m /\ 1 \in 1..1 /\ (h = 1 => 2 \in 1..m /\ 1 \in 1..h /\ 1 + 1 = 2)
    BY <1>4, <1>9
  <2> QED
    BY <1>8, <1>10, <2>1
<1>12. Packet(k, len, ts, j) = p
  BY <1>1, <1>6, <1>7
<1> QED
  BY <1>3, <1>5, <1>9, <1>10, <1>11, <1>12 DEF PartsOf, n, h, b

(* From position m + 1 on the units are the bytes from one position to another. *)
EndsWith(p, m, k, from, to) ==
  /\ from <= to + 1 /\ Len(p) = m + (to - from + 1)
  /\ \A x \in 1..(to - from + 1) : p[m + x] = <<"byte", k, from + x - 1>>

TailIs(p, m, r) == SubSeq(p, m + 1, Len(p)) = r

(* The end of such a packet is a stretch of the frame. *)
LEMMA BytesTail ==
  ASSUME NEW p \in Seq(Unit), NEW k \in Nat, NEW from \in Nat, NEW to \in Nat,
         NEW m \in Nat, EndsWith(p, m, k, from, to)
  PROVE  TailIs(p, m, Bytes(k, from, to))
<1> DEFINE n == to - from + 1
           s == SubSeq(p, m + 1, Len(p))
           b == Bytes(k, from, to)
<1>0. from <= to + 1
  BY DEF EndsWith
<1>a. n \in Nat
  BY <1>0
<1>1. n \in Nat /\ Len(p) = m + n /\ \A x \in 1..n : p[m + x] = <<"byte", k, from + x - 1>>
  BY <1>a DEF EndsWith
<1>2. b \in Seq(Unit) /\ Len(b) = n /\ \A x \in 1..n : b[x] = <<"byte", k, from + x - 1>>
  <2>1. IsBytes(b, k, from, n)
    BY <1>0, BytesAre
  <2> QED
    BY <2>1 DEF IsBytes
<1> HIDE DEF n, b
<1>3. s \in Seq(Unit)
  <2>1. \A x \in (m + 1)..Len(p) : p[x] \in Unit
    BY <1>1
  <2> QED
    BY <1>1, <2>1, SubSeqProperties
<1>4. Len(s) = n
  <2>1. (m + 1 <= Len(p) => Len(s) = Len(p) - (m + 1) + 1) /\ (~(m + 1 <= Len(p)) => Len(s) = 0)
    BY <1>1
  <2> QED
    BY <1>1, <2>1
<1>5. \A x \in 1..n : s[x] = p[m + x]
  BY <1>1, <1>4
<1> HIDE DEF s
<1>6. \A x \in 1..n : s[x] = b[x]
  BY <1>1, <1>2, <1>5
<1>7. s = b
  BY <1>2, <1>3, <1>4, <1>6, SeqEqual
<1> QED
  BY <1>7 DEF s, b, TailIs

(* A frame that is not cut up is one packet. *)
LEMMA SinglePacket ==
  ASSUME codec = "h264", NEW len \in Nat, FirstByte(len) \in 1..len, ~Fragmented(len)
  PROVE  FirstByte(len) = 1 /\ PacketCount(len) = 1
<1>1. FirstByte(len) = 1 /\ len <= MAX_RTP_BODY_LENGTH
  BY BodyAssumption DEF FirstByte, Fragmented
<1> DEFINE n == PacketCount(len)
           B == MAX_RTP_BODY_LENGTH
<1>2. n \in Nat \ {0} /\ 1 + (n - 1) * B <= len /\ B \in Nat \ {0}
  BY <1>1, Rounds, BodyAssumption DEF From
<1> HIDE DEF n, B
<1>3. ASSUME n > 1 PROVE FALSE
  <2>1. PICK z \in Nat, m \in Nat : z = 0 /\ m = n - 1
    BY <1>2
  <2>2. z < m /\ B \in Nat
    BY <1>2, <1>3, <2>1
  <2>3. z * B + B <= m * B
    BY <2>2, Multiples
  <2>4. z * B = 0 /\ m * B \in Nat
    BY <1>2, <2>1
  <2>5. B <= m * B /\ 1 + m * B <= len
    BY <1>2, <2>1, <2>3, <2>4
  <2> QED
    BY <1>1, <1>2, <2>4, <2>5 DEF B
<1> QED
  BY <1>1, <1>2, <1>3 DEF n

(* What the receiver reads off a packet of frame k. *)
Shape(p, k, len, ts, j) ==
  /\ p \in Seq(Unit) /\ Len(p) > 1
  /\ FrameOf(p) = k /\ Timestamp(p) = ts
  /\ IsFU(p) <=> Fragmented(len)
  /\ TooShort(p) <=> ~Fragmented(len) /\ len = 1
  /\ Fragmented(len) => /\ SubSeq(p, 3, Len(p)) = Bytes(k, From(len, j), Top(len, j))
                        /\ FirstByte(len) = 2 /\ p[3][3] = From(len, j)
  /\ ~Fragmented(len) => /\ Tail(p) = Bytes(k, 1, len)
                         /\ j = 1 /\ PacketCount(len) = 1

(* Every packet of an H.264 frame has this shape. *)
LEMMA Reads ==
  ASSUME codec = "h264", NEW k \in Nat, NEW len \in Nat, FirstByte(len) \in 1..len, NEW ts \in Nat,
         NEW j \in 1..PacketCount(len)
  PROVE  Shape(Packet(k, len, ts, j), k, len, ts, j)
<1> DEFINE p == Packet(k, len, ts, j)
           n == Top(len, j) - From(len, j) + 1
<1>1. /\ PartsOf(p, k, ts, HeadLen(len), From(len, j), Top(len, j))
      /\ HeadLen(len) = 1 => p[2] = PayloadHeader(k, len)[1]
  BY PacketIs
<1>2. /\ From(len, j) \in Nat \ {0} /\ Top(len, j) \in Nat /\ From(len, j) <= Top(len, j)
      /\ n \in Nat \ {0}
  BY Extents
<1> HIDE DEF p
<1>3. CASE Fragmented(len)
  <2>1. HeadLen(len) = 1 /\ p[2] = <<"fu", k, 1>>
    BY <1>1, <1>3, HeaderIs DEF HeadLen
  <2>2. FirstByte(len) = 2
    BY <1>3 DEF FirstByte
  <2>3. /\ p \in Seq(Unit) /\ Len(p) = 2 + n /\ p[1] = <<"rtp", ts, 0>>
        /\ \A x \in 1..n : p[2 + x] = <<"byte", k, From(len, j) + x - 1>>
    BY <1>1, <2>1 DEF PartsOf
  <2>4. p[3] = <<"byte", k, From(len, j)>>
    <3>1. 1 \in 1..n /\ 2 + 1 = 3 /\ From(len, j) + 1 - 1 = From(len, j)
      BY <1>2
    <3> QED
      BY <2>3, <3>1
  <2>5. SubSeq(p, 3, Len(p)) = Bytes(k, From(len, j), Top(len, j))
    <3>1. PICK m \in Nat, a \in Nat, b \in Nat : m = 2 /\ a = From(len, j) /\ b = Top(len, j)
      BY <1>2
    <3>2. EndsWith(p, m, k, a, b)
      <4>1. n = b - a + 1 /\ a <= b + 1
        BY <1>2, <3>1
      <4>2. Len(p) = m + n
        BY <2>3, <3>1
      <4>3. \A x \in 1..n : p[m + x] = <<"byte", k, a + x - 1>>
        BY <2>3, <3>1
      <4> HIDE DEF n
      <4> QED
        BY <4>1, <4>2, <4>3 DEF EndsWith
    <3>3. TailIs(p, m, Bytes(k, a, b))
      BY <2>3, <3>2, BytesTail
    <3> QED
      BY <3>1, <3>3 DEF TailIs
  <2>6. FrameOf(p) = k /\ Timestamp(p) = ts /\ IsFU(p) /\ ~TooShort(p) /\ Len(p) > 1
    BY <1>2, <2>1, <2>3 DEF FrameOf, Timestamp, IsFU, TooShort
  <2>7. p[3][3] = From(len, j)
    BY <2>4
  <2> HIDE DEF n
  <2> QED
    BY <1>3, <2>2, <2>3, <2>5, <2>6, <2>7 DEF Shape, p
<1>4. CASE ~Fragmented(len)
  <2>1. HeadLen(len) = 0 /\ FirstByte(len) = 1 /\ PacketCount(len) = 1 /\ j = 1
    BY <1>4, SinglePacket DEF HeadLen
  <2>2. From(len, j) = 1 /\ Top(len, j) = len /\ len > 0
    BY <2>1, Extents
  <2>3. /\ p \in Seq(Unit) /\ Len(p) = 1 + len /\ p[1] = <<"rtp", ts, 0>>
        /\ \A x \in 1..len : p[1 + x] = <<"byte", k, x>>
    BY <1>1, <2>1, <2>2 DEF PartsOf
  <2>4. p[2] = <<"byte", k, 1>>
    <3>1. 1 \in 1..len /\ 1 + 1 = 2
      BY <2>2
    <3> QED
      BY <2>3, <3>1
  <2>5. Tail(p) = Bytes(k, 1, len)
    <3>1. PICK m \in Nat, a \in Nat : m = 1 /\ a = 1
      OBVIOUS
    <3>2. EndsWith(p, m, k, a, len)
      <4>0. len - 1 + 1 = len /\ 1 <= len + 1
        OBVIOUS
      <4>a. ASSUME NEW x \in 1..(len - 1 + 1) PROVE p[1 + x] = <<"byte", k, 1 + x - 1>>
        <5>1. x \in 1..len /\ 1 + x - 1 = x
          BY <4>0
        <5> QED
          BY <2>3, <5>1
      <4>1. EndsWith(p, 1, k, 1, len)
        BY <2>3, <4>0, <4>a DEF EndsWith
      <4> QED
        BY <3>1, <4>1
    <3>3. TailIs(p, m, Bytes(k, a, len))
      BY <2>3, <3>2, BytesTail
    <3>4. SubSeq(p, 2, Len(p)) = Tail(p)
      BY <2>3
    <3> QED
      BY <3>1, <3>3, <3>4 DEF TailIs
  <2>6. FrameOf(p) = k /\ Timestamp(p) = ts /\ ~IsFU(p) /\ Len(p) > 1
    BY <2>2, <2>3, <2>4 DEF FrameOf, Timestamp, IsFU
  <2>7. TooShort(p) <=> len = 1
    BY <2>2, <2>3, <2>6 DEF TooShort
  <2> QED
    BY <1>4, <2>1, <2>3, <2>5, <2>6, <2>7 DEF Shape, p
<1> QED
  BY <1>3, <1>4

-----------------------------------------------------------------------------
(* The muxers and sendfile().                                                *)

(* The packets of a frame are sequences of units. *)
LEMMA PacketsType ==
  ASSUME NEW k \in Nat, NEW len \in Nat, FirstByte(len) \in 1..len, NEW ts \in Nat
  PROVE  /\ Packets(k, len, ts) \in Seq(Seq(Unit)) /\ Len(Packets(k, len, ts)) = PacketCount(len)
         /\ \A j \in 1..PacketCount(len) : Packets(k, len, ts)[j] = Packet(k, len, ts, j)
         /\ \A j \in 1..PacketCount(len) : Packet(k, len, ts, j) \in Seq(Unit)
<1>1. \A j \in 1..PacketCount(len) : Packet(k, len, ts, j) \in Seq(Unit)
  BY PacketIs DEF PartsOf
<1>2. PacketCount(len) \in Nat
  BY Rounds
<1>3. Packets(k, len, ts) \in [1..PacketCount(len) -> Seq(Unit)]
  BY <1>1 DEF Packets
<1>4. \A j \in 1..PacketCount(len) : Packets(k, len, ts)[j] = Packet(k, len, ts, j)
  BY DEF Packets
<1>5. Packets(k, len, ts) \in Seq(Seq(Unit)) /\ Len(Packets(k, len, ts)) = PacketCount(len)
  BY <1>2, <1>3
<1> QED
  BY <1>1, <1>4, <1>5

(* All packets of a frame but the last one are as long as rtpmux_*_alloc() says. *)
LEMMA FullPackets ==
  ASSUME codec \in Codec, NEW k \in Nat, NEW len \in Nat, FirstByte(len) \in 1..len, NEW ts \in Nat,
         NEW j \in 1..(PacketCount(len) - 1)
  PROVE  Len(Packet(k, len, ts, j)) = packet_length
<1>1. PacketCount(len) \in Nat /\ j \in 1..PacketCount(len) /\ j < PacketCount(len) /\ PacketCount(len) # 1
  BY Rounds
<1>2. Top(len, j) = From(len, j) + MAX_RTP_BODY_LENGTH - 1 /\ From(len, j) \in Nat
  BY <1>1, Extents
<1>3. Len(Packet(k, len, ts, j)) = 1 + HeadLen(len) + (Top(len, j) - From(len, j) + 1)
  BY <1>1, PacketIs, SMTT(20) DEF PartsOf
<1>4. HeadLen(len) = IF codec = "raw" THEN 0 ELSE 1
  <2>1. codec = "h264" => Fragmented(len)
    BY <1>1, SinglePacket
  <2> QED
    BY <2>1, FileAssumption DEF HeadLen, Fragmented
<1>5. MAX_RTP_BODY_LENGTH \in Nat
  BY BodyAssumption
<1> QED
  BY <1>2, <1>3, <1>4, <1>5 DEF packet_length

(* sendfile() finds the packets where setframe() put them. *)
LEMMA SliceIs ==
  ASSUME codec \in Codec, NEW k \in Nat, NEW len \in Nat, FirstByte(len) \in 1..len, NEW ts \in Nat,
         Loaded(k, len, ts), NEW m \in 1..PacketCount(len)
  PROVE  Slice(m) = Packet(k, len, ts, m)
<1>1. PICK n \in Nat \ {0} : n = PacketCount(len)
  BY Rounds
<1>2. PICK L \in Nat : L = packet_length
  BY BodyAssumption DEF packet_length
<1> DEFINE ps == Packets(k, len, ts)
<1>3. /\ ps \in Seq(Seq(Unit)) /\ Len(ps) = n
      /\ \A j \in 1..n : ps[j] = Packet(k, len, ts, j) /\ ps[j] \in Seq(Unit)
  <2>1. ps \in Seq(Seq(Unit)) /\ Len(ps) = n
    BY <1>1, PacketsType
  <2>2. \A j \in 1..n : ps[j] = Packet(k, len, ts, j)
    BY <1>1, PacketsType
  <2>3. \A j \in 1..n : ps[j] \in Seq(Unit)
    <3> HIDE DEF ps
    <3> QED
      BY <2>1
  <2> QED
    BY <2>1, <2>2, <2>3
<1>4. \A j \in 1..(n - 1) : Len(ps[j]) = L
  BY <1>1, <1>2, <1>3, FullPackets
<1> HIDE DEF ps
<1>5. m \in 1..n
  BY <1>1
<1>6. Cut(FlattenSeq(ps), (m - 1) * L, ps[m])
  BY <1>3, <1>4, <1>5, FlattenCut
<1>7. mux.rtp_buffer = FlattenSeq(ps) /\ mux.packet_count = n /\ mux.last_packet_length = Len(ps[n])
  BY <1>1, <1>3 DEF Loaded, ps
<1>8. Len(ps[m]) = IF m = mux.packet_count THEN mux.last_packet_length ELSE L
  <2>1. m = n \/ m \in 1..(n - 1)
    BY <1>5
  <2>2. m \in 1..(n - 1) => m # n
    BY <1>1
  <2> QED
    BY <1>4, <1>7, <2>1, <2>2
<1>9. Slice(m) = SubSeq(FlattenSeq(ps), (m - 1) * L + 1, (m - 1) * L + Len(ps[m]))
  BY <1>2, <1>7, <1>8 DEF Slice
<1> QED
  BY <1>3, <1>5, <1>6, <1>9 DEF Cut

(* Two stretches of a frame, one after the other. *)
LEMMA BytesJoin ==
  ASSUME NEW k \in Nat, NEW a \in Nat, NEW b \in Nat, NEW c \in Nat, NEW d \in Nat,
         c = b + 1, a <= c, b <= d
  PROVE  Joins(Bytes(k, a, b), Bytes(k, c, d), Bytes(k, a, d))
<1> DEFINE s == Bytes(k, a, b)
           t == Bytes(k, c, d)
           u == Bytes(k, a, d)
<1>1. PICK m \in Nat, n \in Nat : m = b - a + 1 /\ n = d - c + 1
  OBVIOUS
<1>2. s \in Seq(Unit) /\ Len(s) = m /\ \A x \in 1..m : s[x] = <<"byte", k, a + x - 1>>
  <2>1. a <= b + 1
    OBVIOUS
  <2>2. IsBytes(s, k, a, b - a + 1)
    BY <2>1, BytesAre
  <2> QED
    BY <1>1, <2>2 DEF IsBytes
<1>3. t \in Seq(Unit) /\ Len(t) = n /\ \A x \in 1..n : t[x] = <<"byte", k, c + x - 1>>
  <2>1. c <= d + 1
    OBVIOUS
  <2>2. IsBytes(t, k, c, d - c + 1)
    BY <2>1, BytesAre
  <2> QED
    BY <1>1, <2>2 DEF IsBytes
<1>4. d - a + 1 = m + n /\ a <= d + 1
  BY <1>1
<1>5. u \in Seq(Unit) /\ Len(u) = m + n /\ \A x \in 1..(m + n) : u[x] = <<"byte", k, a + x - 1>>
  <2>2. IsBytes(u, k, a, d - a + 1)
    BY <1>4, BytesAre
  <2> QED
    BY <1>4, <2>2 DEF IsBytes
<1> HIDE DEF s, t, u
<1>6. PICK r : r = s \o t /\ Joins(s, t, r)
  BY DEF Joins
<1>7. IsJoined(Unit, s, m, t, n, r)
  BY <1>2, <1>3, <1>6, ConcatIs
<1>8. /\ r \in Seq(Unit) /\ Len(r) = m + n
      /\ \A x \in 1..m : r[x] = s[x]
      /\ \A x \in 1..n : r[m + x] = t[x]
  BY <1>7 DEF IsJoined
<1>9. ASSUME NEW x \in 1..(m + n) PROVE r[x] = u[x]
  <2>1. CASE x \in 1..m
    BY <1>2, <1>5, <1>8, <2>1
  <2>2. CASE x > m
    <3>1. PICK y \in 1..n : x = m + y /\ c + y - 1 = a + x - 1
      <4>1. x - m \in 1..n /\ x = m + (x - m) /\ c + (x - m) - 1 = a + x - 1
        BY <1>1, <2>2
      <4> QED
        BY <4>1
    <3> QED
      BY <1>3, <1>5, <1>8, <3>1
  <2>3. x \in 1..m \/ x > m
    OBVIOUS
  <2> QED
    BY <2>1, <2>2, <2>3, Zenon
<1>10. r = u
  BY <1>5, <1>8, <1>9, SeqEqual
<1> QED
  BY <1>6, <1>10 DEF s, t, u

(* The bytes of the packets of a frame are the bytes of the frame. *)
LEMMA PayloadsAre ==
  ASSUME NEW k \in Nat, NEW len \in Nat, FirstByte(len) \in 1..len,
         NEW ps \in Seq(Seq(Unit)), Len(ps) = PacketCount(len),
         \A j \in 1..PacketCount(len) : ps[j] = Bytes(k, From(len, j), Top(len, j))
  PROVE  FlattenSeq(ps) = Bytes(k, FirstByte(len), len)
<1>1. PICK n \in Nat \ {0} : n = PacketCount(len)
  BY Rounds
<1> DEFINE F == FirstByte(len)
           g == [m \in 1..n |-> Bytes(k, F, Top(len, m))]
<1>2. ASSUME NEW m \in 1..n
      PROVE  Top(len, m) \in Nat /\ From(len, m) \in Nat /\ F <= Top(len, m) /\ F \in Nat
  <2>1. Top(len, m) \in Nat /\ From(len, m) \in Nat /\ From(len, m) <= Top(len, m) /\ F \in Nat
    BY <1>1, Extents
  <2>2. F <= From(len, m)
    <3>1. PICK u \in Nat : u = m - 1
      BY <1>1
    <3>2. u * MAX_RTP_BODY_LENGTH \in Nat
      BY BodyAssumption
    <3> QED
      BY <2>1, <3>1, <3>2 DEF From
  <2> QED
    BY <2>1, <2>2
<1>3. \A m \in 1..n : Bytes(k, F, Top(len, m)) \in Seq(Unit)
  <2> TAKE m \in 1..n
  <2>1. Top(len, m) \in Nat /\ F \in Nat /\ F <= Top(len, m) + 1
    BY <1>2
  <2> QED
    BY <2>1, BytesAre DEF IsBytes
<1>4. g \in [1..n -> Seq(Unit)] /\ \A m \in 1..n : g[m] = Bytes(k, F, Top(len, m))
  BY <1>3
<1> HIDE DEF g
<1>5. g[1] = ps[1]
  <2>1. 1 \in 1..n /\ From(len, 1) = F
    BY <1>1, BodyAssumption DEF From
  <2> QED
    BY <1>1, <1>4, <2>1
<1>6. ASSUME NEW m \in 2..n PROVE g[m] = g[m - 1] \o ps[m]
  <2>1. PICK l \in Nat : l = m - 1 /\ l \in 1..n /\ m \in 1..n /\ l < n /\ m = l + 1
    BY <1>1
  <2>2. /\ From(len, m) = Top(len, l) + 1 /\ Top(len, l) \in Nat /\ Top(len, m) \in Nat
        /\ F <= Top(len, l) /\ From(len, m) <= Top(len, m) /\ From(len, m) \in Nat /\ F \in Nat
    <3>1. From(len, l + 1) = Top(len, l) + 1
      BY <1>1, <2>1, Extents
    <3>2. From(len, m) <= Top(len, m)
      BY <1>1, <2>1, Extents
    <3> QED
      BY <1>2, <2>1, <3>1, <3>2
  <2>3. PICK a \in Nat, b \in Nat, c \in Nat, d \in Nat :
               a = F /\ b = Top(len, l) /\ c = From(len, m) /\ d = Top(len, m)
    BY <2>2
  <2>4. c = b + 1 /\ a <= c /\ b <= d
    BY <2>2, <2>3
  <2>5. Joins(Bytes(k, a, b), Bytes(k, c, d), Bytes(k, a, d))
    BY <2>4, BytesJoin
  <2>6. g[m] = Bytes(k, a, d) /\ g[l] = Bytes(k, a, b) /\ ps[m] = Bytes(k, c, d)
    BY <1>1, <1>4, <2>1, <2>3
  <2> QED
    BY <2>1, <2>5, <2>6 DEF Joins
<1>7. IsFlattening(g, ps, Unit)
  BY <1>1, <1>4, <1>5, <1>6 DEF IsFlattening, Builds
<1>8. FlattenSeq(ps) = g[n]
  <2>1. Len(ps) > 0
    BY <1>1
  <2> QED
    BY <1>1, <1>7, <2>1, FlattenIs
<1>9. Top(len, n) = len /\ n \in 1..n
  BY <1>1, Extents
<1> QED
  BY <1>4, <1>8, <1>9

(* The packets carry the frame. *)
LEMMA LoadedCarries ==
  ASSUME codec \in Codec, frames \in Seq(Frame), NEW k \in Nat, k = Len(frames), k > 0, NEW ts \in Nat,
         Loaded(k, LenOf(k), ts)
  PROVE  PacketsCarryFrame
<1> DEFINE len == LenOf(k)
           skip == 1 + HeadLen(len)
           n == PacketCount(len)
<1>1. frames[k] \in Frame
  OBVIOUS
<1>2. len \in Nat /\ FirstByte(len) \in 1..len
  BY <1>1, FrameFacts DEF LenOf
<1>3. n \in Nat \ {0} /\ mux.packet_count = n
  BY <1>2, Rounds DEF Loaded
<1>4. HeadLen(len) \in 0..1 /\ Len(PayloadHeader(k, len)) = HeadLen(len) /\ PayloadHeader(k, len) \in Seq(Unit)
  BY <1>2, HeaderIs
<1> HIDE DEF len
<1>5. ASSUME NEW j \in 1..n
      PROVE  /\ PartsOf(Slice(j), k, ts, HeadLen(len), From(len, j), Top(len, j))
             /\ HeadLen(len) = 1 => Slice(j)[2] = PayloadHeader(k, len)[1]
             /\ From(len, j) \in Nat /\ Top(len, j) \in Nat /\ From(len, j) <= Top(len, j)
  <2>1. Slice(j) = Packet(k, len, ts, j)
    BY <1>2, SliceIs DEF len
  <2>2. From(len, j) \in Nat /\ Top(len, j) \in Nat /\ From(len, j) <= Top(len, j)
    BY <1>2, Extents
  <2> QED
    BY <1>2, <2>1, <2>2, PacketIs
<1>6. ASSUME NEW j \in 1..n
      PROVE  Slice(j)[1][1] = "rtp" /\ SubSeq(Slice(j), 2, skip) = PayloadHeader(k, len)
  <2>1. PICK p \in Seq(Unit) : p = Slice(j) /\ p[1] = <<"rtp", ts, 0>> /\ Len(p) > HeadLen(len)
    <3>1. /\ Slice(j) \in Seq(Unit) /\ Slice(j)[1] = <<"rtp", ts, 0>>
          /\ Len(Slice(j)) = 1 + HeadLen(len) + (Top(len, j) - From(len, j) + 1)
      BY <1>5 DEF PartsOf
    <3>2. From(len, j) \in Nat /\ Top(len, j) \in Nat /\ From(len, j) <= Top(len, j) /\ HeadLen(len) \in Nat
      BY <1>4, <1>5
    <3>3. 1 + HeadLen(len) + (Top(len, j) - From(len, j) + 1) > HeadLen(len)
      BY <3>2
    <3> QED
      BY <3>1, <3>3
  <2>2. CASE HeadLen(len) = 0
    <3>1. PayloadHeader(k, len) = <<>>
      BY <1>4, <2>2
    <3>2. SubSeq(p, 2, 1) = <<>>
      BY <2>1
    <3> QED
      BY <2>1, <2>2, <3>1, <3>2
  <2>3. CASE HeadLen(len) = 1
    <3>1. Len(p) > 1 /\ p[2] = PayloadHeader(k, len)[1]
      BY <1>5, <2>1, <2>3
    <3>2. PICK h \in Seq(Unit) : h = PayloadHeader(k, len) /\ Len(h) = 1
      BY <1>4, <2>3
    <3>3. SubSeq(p, 2, 2) = <<p[2]>>
      <4>1. SubSeq(p, 2, 2) \in Seq(Unit) /\ Len(SubSeq(p, 2, 2)) = 1 /\ SubSeq(p, 2, 2)[1] = p[2]
        BY <2>1, <3>1
      <4>2. PICK q \in Seq(Unit) : q = SubSeq(p, 2, 2)
        BY <4>1
      <4>3. Len(q) = 1
        BY <4>1, <4>2
      <4>4. q = <<q[1]>>
        BY <4>3
      <4> QED
        BY <4>1, <4>2, <4>4
    <3>4. h = <<h[1]>>
      BY <3>2
    <3> QED
      BY <2>1, <2>3, <3>1, <3>2, <3>3, <3>4
  <2> QED
    BY <1>4, <2>1, <2>2, <2>3
<1>7. ASSUME NEW j \in 1..n
      PROVE  SubSeq(Slice(j), skip + 1, Len(Slice(j))) = Bytes(k, From(len, j), Top(len, j))
  <2>1. PICK p \in Seq(Unit), m \in Nat, a \in Nat, b \in Nat :
               p = Slice(j) /\ m = skip /\ a = From(len, j) /\ b = Top(len, j) /\ a <= b
    BY <1>4, <1>5 DEF PartsOf
  <2>2. EndsWith(p, m, k, a, b)
    <3>1. Len(p) = m + (b - a + 1) /\ \A x \in 1..(b - a + 1) : p[m + x] = <<"byte", k, a + x - 1>>
      BY <1>5, <2>1 DEF PartsOf
    <3>2. a <= b + 1
      BY ONLY a \in Nat, b \in Nat, <2>1
    <3> QED
      BY ONLY <3>1, <3>2, Zenon DEF EndsWith
  <2>3. TailIs(p, m, Bytes(k, a, b))
    BY <2>2, BytesTail
  <2> QED
    BY <2>1, <2>3 DEF TailIs
<1> DEFINE ps == [j \in 1..n |-> SubSeq(Slice(j), skip + 1, Len(Slice(j)))]
<1>8. \A j \in 1..n : ps[j] = Bytes(k, From(len, j), Top(len, j))
  BY <1>7
<1>9. ps \in Seq(Seq(Unit)) /\ Len(ps) = n
  <2>1. \A j \in 1..n : Bytes(k, From(len, j), Top(len, j)) \in Seq(Unit)
    <3> TAKE j \in 1..n
    <3>1. From(len, j) \in Nat /\ Top(len, j) \in Nat /\ From(len, j) <= Top(len, j) + 1
      BY <1>5
    <3> QED
      BY <3>1, BytesAre DEF IsBytes
  <2>2. ps \in [1..n -> Seq(Unit)]
    BY <1>7, <2>1
  <2> HIDE DEF ps
  <2> QED
    BY <1>3, <2>2
<1>10. FlattenSeq(ps) = Bytes(k, FirstByte(len), len)
  <2> HIDE DEF ps
  <2> QED
    BY <1>2, <1>8, <1>9, PayloadsAre
<1> QED
  BY <1>3, <1>4, <1>6, <1>10 DEF PacketsCarryFrame, len, LenOf

-----------------------------------------------------------------------------
(* The timestamps.                                                           *)

(* A timestamp is increased, or starts again. *)
LEMMA NextStamp ==
  ASSUME MaxFrames > 0, NEW v \in 0..(TimestampModulus - 1)
  PROVE  /\ NextTimestamp(v) \in 0..(TimestampModulus - 1)
         /\ \/ NextTimestamp(v) = v + timestamp_increse
            \/ NextTimestamp(v) = v + timestamp_increse - TimestampModulus
<1>1. PICK M \in Nat, d \in Nat \ {0}, N \in Nat \ {0} :
             M = TimestampModulus /\ d = timestamp_increse /\ N = MaxFrames
  BY TimestampsAssumption, BoundsAssumption
<1>2. d < M
  <2>1. PICK m \in Nat : m = N - 1
    OBVIOUS
  <2>2. N * d = m * d + d /\ m * d \in Nat
    BY <2>1
  <2>3. N * d < M
    BY <1>1, TimestampsAssumption
  <2> QED
    BY <2>2, <2>3
<1>3. PICK x \in Nat : x = v + d
  BY <1>1
<1>4. x % M \in 0..(M - 1) /\ (x % M = x \/ x % M = x - M)
  <2>1. x < 2 * M /\ M > 0
    BY <1>1, <1>2, <1>3
  <2>2. x \div M \in Nat /\ (x \div M) * M <= x /\ x < (x \div M) * M + M
    BY <2>1, Quotient
  <2>3. x % M = x - (x \div M) * M
    BY <2>1
  <2>4. PICK q \in Nat : q = x \div M
    BY <2>2
  <2>5. q = 0 \/ q = 1
    <3> SUFFICES ASSUME q > 1 PROVE FALSE
      OBVIOUS
    <3>1. PICK r \in Nat : q = r + 2
      <4>1. q - 2 \in Nat /\ q = (q - 2) + 2
        OBVIOUS
      <4> QED
        BY <4>1
    <3>2. q * M = r * M + 2 * M /\ r * M \in Nat
      BY <3>1
    <3> QED
      BY <2>1, <2>2, <2>4, <3>2
  <2>6. q * M = 0 \/ q * M = M
    BY <2>5
  <2> QED
    BY <2>1, <2>2, <2>3, <2>4, <2>6
<1> QED
  BY <1>1, <1>3, <1>4 DEF NextTimestamp

(* The timestamps of two frames, d frames apart. *)
Apart(T, k, d) ==
  \/ T[k + d] = T[k] + d * timestamp_increse
  \/ T[k + d] = T[k] + d * timestamp_increse - TimestampModulus

(* The timestamps of two frames are as far apart as the frames are, or once around less. *)
LEMMA StampsApart ==
  ASSUME NEW T, Clock(T), NEW k \in 1..(MaxFrames + 1), NEW d \in Nat, k + d <= MaxFrames + 1
  PROVE  Apart(T, k, d)
<1>1. PICK M \in Nat, c \in Nat \ {0}, N \in Nat :
             M = TimestampModulus /\ c = timestamp_increse /\ N = MaxFrames
  BY TimestampsAssumption, BoundsAssumption
<1>2. N * c < M
  BY <1>1, TimestampsAssumption
<1>3. \A l \in 1..(N + 1) : T[l] \in 0..(M - 1)
  BY <1>1 DEF Clock
<1>4. ASSUME NEW l \in 1..N PROVE T[l + 1] = T[l] + c \/ T[l + 1] = T[l] + c - M
  <2>1. MaxFrames > 0 /\ T[l] \in 0..(TimestampModulus - 1)
    BY <1>1, <1>3
  <2>2. T[l + 1] = NextTimestamp(T[l])
    BY <1>1 DEF Clock
  <2>3. NextTimestamp(T[l]) = T[l] + timestamp_increse \/ NextTimestamp(T[l]) = T[l] + timestamp_increse - TimestampModulus
    BY <2>1, NextStamp
  <2> QED
    BY <1>1, <2>2, <2>3
<1> DEFINE D == {e \in Nat : k + e <= N + 1 => T[k + e] = T[k] + e * c \/ T[k + e] = T[k] + e * c - M}
<1>5. 0 \in D
  <2>1. k + 0 = k /\ 0 * c = 0 /\ T[k] \in Int
    BY <1>1, <1>3
  <2>2. T[k] + 0 * c = T[k]
    BY <2>1
  <2> QED
    BY <2>1, <2>2
<1>6. ASSUME NEW e \in Nat, e \in D PROVE e + 1 \in D
  <2> SUFFICES ASSUME k + (e + 1) <= N + 1
               PROVE  \/ T[k + (e + 1)] = T[k] + (e + 1) * c
                      \/ T[k + (e + 1)] = T[k] + (e + 1) * c - M
    OBVIOUS
  <2>1. k + e <= N + 1 /\ k + e \in 1..N /\ k + (e + 1) = (k + e) + 1 /\ k \in 1..(N + 1)
    BY <1>1
  <2>2. PICK y \in Nat : y = (e + 1) * c /\ y = e * c + c
    BY <1>1
  <2>3. y < M
    <3>1. e + 1 <= N
      BY <2>1
    <3>2. PICK f \in Nat : N = (e + 1) + f
      <4>1. N - (e + 1) \in Nat /\ N = (e + 1) + (N - (e + 1))
        BY <3>1
      <4> QED
        BY <4>1
    <3>3. N * c = (e + 1) * c + f * c /\ f * c \in Nat
      BY <3>2
    <3> QED
      BY <1>2, <2>2, <3>3
  <2>4. PICK z \in Nat : z = e * c
    BY <1>1
  <2>5. T[k + e] = T[k] + z \/ T[k + e] = T[k] + z - M
    BY <1>6, <2>1, <2>4
  <2>6. T[(k + e) + 1] = T[k + e] + c \/ T[(k + e) + 1] = T[k + e] + c - M
    BY <1>4, <2>1
  <2>7. PICK u \in 0..(M - 1), v \in 0..(M - 1), w \in 0..(M - 1) : u = T[k] /\ v = T[k + e] /\ w = T[(k + e) + 1]
    BY <1>3, <2>1
  <2>8. y = z + c
    BY <2>2, <2>4
  <2> HIDE DEF D
  <2>9. w = u + y \/ w = u + y - M
    BY <1>1, <2>3, <2>5, <2>6, <2>7, <2>8
  <2> QED
    BY <2>1, <2>2, <2>7, <2>9
<1> HIDE DEF D
<1>7. d \in D
  BY <1>5, <1>6, SetInduction
<1> QED
  BY <1>1, <1>7 DEF D, Apart

(* Two frames have different timestamps. *)
LEMMA StampsDiffer ==
  ASSUME NEW T, Clock(T), NEW k \in 1..MaxFrames, NEW l \in 1..MaxFrames, T[k] = T[l]
  PROVE  k = l
<1>1. ASSUME NEW a \in 1..MaxFrames, NEW b \in 1..MaxFrames, a < b, T[a] = T[b] PROVE FALSE
  <2>1. PICK M \in Nat, c \in Nat \ {0}, N \in Nat :
               M = TimestampModulus /\ c = timestamp_increse /\ N = MaxFrames
    BY TimestampsAssumption, BoundsAssumption
  <2>2. PICK d \in Nat \ {0} : b = a + d /\ d < N
    <3>1. b - a \in Nat \ {0} /\ b = a + (b - a) /\ b - a < N
      BY <1>1, <2>1
    <3> QED
      BY <3>1
  <2>3. a \in 1..(MaxFrames + 1) /\ a + d <= MaxFrames + 1
    BY <2>1, <2>2
  <2>4. Apart(T, a, d)
    BY <2>3, StampsApart
  <2>5. T[a] \in 0..(M - 1)
    BY <2>1, <2>3 DEF Clock
  <2>6. PICK y \in Nat : y = d * c
    BY <2>1
  <2>7. y > 0 /\ y < M
    <3>1. PICK e \in Nat, f \in Nat : d = e + 1 /\ N = d + f
      <4>1. d - 1 \in Nat /\ d = (d - 1) + 1 /\ N - d \in Nat /\ N = d + (N - d)
        BY <2>2
      <4> QED
        BY <4>1
    <3>2. d * c = e * c + c /\ e * c \in Nat /\ N * c = d * c + f * c /\ f * c \in Nat
      BY <3>1
    <3>3. N * c < M
      BY <2>1, TimestampsAssumption
    <3> QED
      BY <2>6, <3>2, <3>3
  <2>8. T[a] = T[a] + y \/ T[a] = T[a] + y - M
    BY <1>1, <2>1, <2>2, <2>4, <2>6 DEF Apart
  <2> QED
    BY <2>5, <2>7, <2>8
<1>2. k < l \/ l < k \/ k = l
  OBVIOUS
<1> QED
  BY <1>1, <1>2

(* A later frame that is not too far away is recognized as later. *)
LEMMA StampsLater ==
  ASSUME NEW T, Clock(T), NEW k \in 1..MaxFrames, NEW l \in 1..MaxFrames, k < l,
         (l - k) * timestamp_increse <= LOOPTIMESTAMPCORNER
  PROVE  T[k] < T[l] \/ (T[k] > LOOPTIMESTAMPCORNER /\ T[l] < LOOPTIMESTAMPCORNER)
<1>1. PICK M \in Nat, c \in Nat \ {0}, C \in Nat, N \in Nat :
             /\ M = TimestampModulus /\ c = timestamp_increse /\ C = LOOPTIMESTAMPCORNER
             /\ N = MaxFrames /\ 2 * C < M
  BY TimestampsAssumption, BoundsAssumption
<1>2. PICK d \in Nat \ {0} : d = l - k /\ l = k + d
  <2>1. l - k \in Nat \ {0} /\ l = k + (l - k)
    BY <1>1
  <2> QED
    BY <2>1
<1>3. k \in 1..(MaxFrames + 1) /\ k + d <= MaxFrames + 1 /\ l \in 1..(MaxFrames + 1)
  BY <1>1, <1>2
<1>4. Apart(T, k, d)
  BY <1>3, StampsApart
<1>5. PICK u \in 0..(M - 1), v \in 0..(M - 1) : u = T[k] /\ v = T[l]
  BY <1>1, <1>3 DEF Clock
<1>6. PICK y \in Nat : y = d * c /\ y > 0
  <2>1. PICK e \in Nat : d = e + 1
    <3>1. d - 1 \in Nat /\ d = (d - 1) + 1
      OBVIOUS
    <3> QED
      BY <3>1
  <2>2. d * c = e * c + c /\ e * c \in Nat
    BY <2>1
  <2> QED
    BY <2>2
<1>7. y <= C
  BY <1>1, <1>2, <1>6
<1>8. v = u + y \/ v = u + y - M
  BY <1>1, <1>2, <1>4, <1>5, <1>6 DEF Apart
<1>9. u < v \/ (u > C /\ v < C)
  BY <1>1, <1>6, <1>7, <1>8
<1> QED
  BY <1>1, <1>5, <1>9

(* There are such timestamps from any first one on. *)
LEMMA ClockExists ==
  ASSUME NEW v \in 0..(TimestampModulus - 1)
  PROVE  \E T : Clock(T) /\ T[1] = v
<1>1. PICK N \in Nat : N = MaxFrames
  BY BoundsAssumption
<1> DEFINE S == 0..(TimestampModulus - 1)
           Part(m) == \E T \in [1..(m + 1) -> S] : T[1] = v /\ \A k \in 1..m : T[k + 1] = NextTimestamp(T[k])
           D == {m \in Nat : m <= N => Part(m)}
<1>2. 0 \in D
  <2> DEFINE T == [k \in 1..1 |-> v]
  <2>1. T \in [1..(0 + 1) -> S] /\ T[1] = v /\ 1..0 = {}
    OBVIOUS
  <2> HIDE DEF T
  <2>2. Part(0)
    BY <2>1
  <2> QED
    BY <2>2
<1>3. ASSUME NEW m \in Nat, m \in D PROVE m + 1 \in D
  <2> HIDE DEF Part
  <2> SUFFICES ASSUME m + 1 <= N PROVE Part(m + 1)
    OBVIOUS
  <2>1. Part(m) /\ MaxFrames > 0
    BY <1>1, <1>3
  <2>2. PICK T \in [1..(m + 1) -> S] : T[1] = v /\ \A k \in 1..m : T[k + 1] = NextTimestamp(T[k])
    BY <2>1 DEF Part
  <2> DEFINE U == [k \in 1..((m + 1) + 1) |-> IF k = m + 2 THEN NextTimestamp(T[m + 1]) ELSE T[k]]
  <2>3. NextTimestamp(T[m + 1]) \in S
    <3>1. T[m + 1] \in S
      BY <2>2
    <3> QED
      BY <2>1, <3>1, NextStamp
  <2>4. U \in [1..((m + 1) + 1) -> S] /\ U[1] = v
    <3>1. \A k \in 1..((m + 1) + 1) : k = m + 2 \/ k \in 1..(m + 1)
      OBVIOUS
    <3> QED
      BY <2>2, <2>3, <3>1
  <2>5. ASSUME NEW k \in 1..(m + 1) PROVE U[k + 1] = NextTimestamp(U[k])
    <3>1. /\ k # m + 2 /\ k \in 1..((m + 1) + 1) /\ k + 1 \in 1..((m + 1) + 1)
          /\ k + 1 = m + 2 \/ k \in 1..m
          /\ k + 1 = m + 2 => k = m + 1
          /\ k \in 1..m => k + 1 # m + 2
      OBVIOUS
    <3>2. U[k] = T[k]
      BY <3>1
    <3>3. U[k + 1] = IF k + 1 = m + 2 THEN NextTimestamp(T[m + 1]) ELSE T[k + 1]
      BY <3>1
    <3> HIDE DEF U
    <3>4. CASE k + 1 = m + 2
      BY <3>1, <3>2, <3>3, <3>4
    <3>5. CASE k \in 1..m
      BY <2>2, <3>1, <3>2, <3>3, <3>5
    <3> QED
      BY <3>1, <3>4, <3>5
  <2> HIDE DEF U
  <2> QED
    BY <2>4, <2>5 DEF Part
<1> HIDE DEF D
<1>4. N \in D
  BY <1>2, <1>3, SetInduction
<1>5. Part(N)
  BY <1>4 DEF D
<1> QED
  BY <1>1, <1>5 DEF Clock

-----------------------------------------------------------------------------
(* rtpdemux_h264_setpacket().                                                *)

(* r is s and then n bytes of frame k. *)
Extends(r, s, m, k, from, n) ==
  /\ r \in Seq(Unit) /\ Len(r) = m + n
  /\ \A x \in 1..m : r[x] = s[x]
  /\ \A x \in 1..n : r[m + x] = <<"byte", k, from + x - 1>>

(* Bytes appended to a buffer. *)
LEMMA JoinBytes ==
  ASSUME NEW s \in Seq(Unit), NEW m \in Nat, Len(s) = m, NEW k \in Nat, NEW from \in Nat, NEW to \in Nat,
         from <= to + 1, NEW r, Joins(s, Bytes(k, from, to), r)
  PROVE  Extends(r, s, m, k, from, to - from + 1)
<1>1. PICK n \in Nat : n = to - from + 1
  OBVIOUS
<1>2. PICK t : t = Bytes(k, from, to)
  OBVIOUS
<1>3. IsBytes(t, k, from, to - from + 1)
  BY <1>2, BytesAre
<1>4. t \in Seq(Unit) /\ Len(t) = n /\ \A x \in 1..n : t[x] = <<"byte", k, from + x - 1>>
  BY <1>1, <1>3 DEF IsBytes
<1>5. Joins(s, t, r)
  BY <1>2
<1>6. IsJoined(Unit, s, m, t, n, r)
  BY <1>4, <1>5, ConcatIs
<1>7. Extends(r, s, m, k, from, n)
  BY <1>4, <1>6 DEF IsJoined, Extends
<1> QED
  BY <1>1, <1>7

(* Whole frames, byte by byte. *)
LEMMA WholeIs ==
  ASSUME NEW k \in Nat, NEW x \in Nat \ {0}
  PROVE  /\ Whole(k, x) \in Seq(Unit) /\ Len(Whole(k, x)) = 1 + x
         /\ Whole(k, x)[1] = Start
         /\ \A y \in 1..x : Whole(k, x)[1 + y] = <<"byte", k, y>>
<1>1. PICK s \in Seq(Unit), m \in Nat, one \in Nat : s = <<Start>> /\ m = 1 /\ Len(s) = m /\ s[1] = Start /\ one = 1
  <2>1. Start \in Unit
    BY DEF Unit, Start
  <2>2. <<Start>> \in Seq(Unit) /\ Len(<<Start>>) = 1 /\ <<Start>>[1] = Start
    BY <2>1
  <2> QED
    BY <2>2
<1>2. PICK r : r = Whole(k, x)
  OBVIOUS
<1>3. Joins(s, Bytes(k, one, x), r)
  BY <1>1, <1>2 DEF Joins, Whole
<1>4. one <= x + 1
  BY <1>1
<1>5. Extends(r, s, m, k, one, x - one + 1)
  BY <1>1, <1>3, <1>4, JoinBytes
<1>6. x - one + 1 = x /\ \A y \in 1..x : one + y - 1 = y
  BY <1>1
<1>7. /\ r \in Seq(Unit) /\ Len(r) = m + x
      /\ \A y \in 1..m : r[y] = s[y]
      /\ \A y \in 1..x : r[m + y] = <<"byte", k, one + y - 1>>
  BY <1>5, <1>6 DEF Extends
<1>8. ASSUME NEW y \in 1..x PROVE r[1 + y] = <<"byte", k, y>>
  BY <1>1, <1>6, <1>7
<1>9. r[1] = Start
  <2>1. 1 \in 1..m
    BY <1>1
  <2> QED
    BY <1>1, <1>7, <2>1
<1> QED
  BY <1>1, <1>2, <1>7, <1>8, <1>9

(* More bytes make more of the frame. *)
LEMMA WholeJoin ==
  ASSUME NEW k \in Nat, NEW x \in Nat \ {0}, NEW c \in Nat, c = x + 1, NEW y \in Nat, x <= y
  PROVE  Joins(Whole(k, x), Bytes(k, c, y), Whole(k, y))
<1>1. PICK one \in Nat : one = 1
  OBVIOUS
<1>2. one <= c /\ x \in Nat /\ c <= y + 1 /\ one <= x + 1
  BY <1>1
<1>3. Joins(Bytes(k, one, x), Bytes(k, c, y), Bytes(k, one, y))
  BY <1>2, BytesJoin
<1>4. PICK a, b : a = Bytes(k, one, x) /\ b = Bytes(k, c, y)
  OBVIOUS
<1>5. IsBytes(a, k, one, x - one + 1) /\ IsBytes(b, k, c, y - c + 1)
  BY <1>2, <1>4, BytesAre
<1>6. a \in Seq(Unit) /\ b \in Seq(Unit)
  BY <1>5 DEF IsBytes
<1>7. PICK s \in Seq(Unit) : s = <<Start>>
  <2>1. Start \in Unit
    BY DEF Unit, Start
  <2>2. <<Start>> \in Seq(Unit)
    BY <2>1
  <2> QED
    BY <2>2
<1>8. s \o (a \o b) = (s \o a) \o b
  BY <1>6, <1>7, Associative
<1>9. a \o b = Bytes(k, 1, y)
  BY <1>1, <1>3, <1>4 DEF Joins
<1>10. Whole(k, x) = s \o a /\ Whole(k, y) = s \o Bytes(k, 1, y)
  BY <1>1, <1>4, <1>7 DEF Whole
<1> QED
  BY <1>4, <1>8, <1>9, <1>10 DEF Joins

(* A buffer with bytes of frame k, whose positions rise to x. *)
Of(b, k) == Assembles(b) /\ b[2][2] = k
Climbs(b, x) == Rising(b) /\ b[Len(b)][3] = x

(* The first bytes of a frame are bytes of one frame in order. *)
LEMMA WholeClimbs ==
  ASSUME NEW k \in Nat, k \in 1..Len(frames), NEW x \in Nat \ {0}
  PROVE  Of(Whole(k, x), k) /\ Climbs(Whole(k, x), x)
<1> DEFINE w == Whole(k, x)
<1>1. /\ w \in Seq(Unit) /\ Len(w) = 1 + x /\ w[1] = Start
      /\ \A y \in 1..x : w[1 + y] = <<"byte", k, y>>
  BY WholeIs
<1> HIDE DEF w
<1>2. ASSUME NEW n \in 2..Len(w) PROVE w[n] = <<"byte", k, n - 1>>
  <2>1. n - 1 \in 1..x /\ 1 + (n - 1) = n
    BY <1>1
  <2> QED
    BY <1>1, <2>1
<1>3. w[2] = <<"byte", k, 1>> /\ Len(w) > 1 /\ Len(w) \in 2..Len(w)
  <2>1. 2 \in 2..Len(w) /\ 2 - 1 = 1 /\ Len(w) > 1 /\ Len(w) \in 2..Len(w)
    BY <1>1
  <2> QED
    BY <1>2, <2>1
<1>4. \A n \in 2..Len(w) : w[n][2] = k /\ w[n][3] = n - 1
  BY <1>2
<1>5. w[2][2] = k
  BY <1>3
<1>6. w[Len(w)][3] = x
  BY <1>1, <1>3, <1>4
<1>7. w[1][3] = 0
  BY <1>1 DEF Start
<1>8. ASSUME NEW m \in 1..Len(w), NEW n \in 1..Len(w), m < n PROVE w[m][3] < w[n][3]
  <2>1. n \in 2..Len(w) /\ w[n][3] = n - 1
    BY <1>1, <1>4, <1>8
  <2>2. m = 1 \/ m \in 2..Len(w)
    BY <1>1
  <2>3. CASE m = 1
    BY <1>7, <2>1, <2>3
  <2>4. CASE m \in 2..Len(w)
    <3>1. w[m][3] = m - 1
      BY <1>4, <2>4
    <3> QED
      BY <1>8, <2>1, <3>1
  <2> QED
    BY <2>2, <2>3, <2>4, Zenon
<1>9. Rising(w)
  BY <1>8 DEF Rising
<1>10. Assembles(w)
  BY <1>1, <1>3, <1>4, <1>5 DEF Assembles
<1> QED
  BY <1>5, <1>6, <1>9, <1>10 DEF Of, Climbs, w

(* More bytes of the same frame. *)
LEMMA Longer ==
  ASSUME NEW k \in Nat, NEW b, Of(b, k), NEW from \in Nat, NEW to \in Nat, from <= to,
         NEW r, Joins(b, Bytes(k, from, to), r)
  PROVE  Of(r, k) /\ \A z \in Nat : Climbs(b, z) /\ z < from => Climbs(r, to)
<1>1. /\ b \in Seq(Unit) /\ Len(b) > 1 /\ b[1] = Start /\ b[2][2] = k /\ k \in 1..Len(frames)
      /\ \A n \in 2..Len(b) : b[n] # Start => b[n][2] = k
  BY DEF Of, Assembles
<1>2. PICK m \in Nat, n \in Nat \ {0} : m = Len(b) /\ n = to - from + 1 /\ m > 1
  BY <1>1
<1>3. from <= to + 1
  OBVIOUS
<1>4. Extends(r, b, m, k, from, to - from + 1)
  BY <1>1, <1>2, <1>3, JoinBytes
<1>5. /\ r \in Seq(Unit) /\ Len(r) = m + n
      /\ \A x \in 1..m : r[x] = b[x]
      /\ \A x \in 1..n : r[m + x] = <<"byte", k, from + x - 1>>
  BY <1>2, <1>4 DEF Extends
<1>6. ASSUME NEW y \in 1..(m + n), y > m PROVE r[y] = <<"byte", k, from + (y - m) - 1>>
  <2>1. y - m \in 1..n /\ m + (y - m) = y
    BY <1>6
  <2> QED
    BY <1>5, <2>1
<1>7. \A y \in 1..(m + n) : y > m => r[y][2] = k /\ r[y][3] = from + (y - m) - 1
  BY <1>6
<1>8. Of(r, k)
  <2>1. 1 \in 1..m /\ 2 \in 1..m
    BY <1>2
  <2>2. r[1] = Start /\ r[2][2] = k
    BY <1>1, <1>5, <2>1
  <2>3. ASSUME NEW y \in 2..Len(r), r[y] # Start PROVE r[y][2] = k
    <3>1. y \in 1..(m + n) /\ (y \in 2..m \/ y > m)
      BY <1>5
    <3>2. CASE y \in 2..m
      <4>1. y \in 1..m /\ y \in 2..Len(b)
        BY <1>2, <3>2
      <4> QED
        BY <1>1, <1>5, <2>3, <4>1
    <3>3. CASE y > m
      BY <1>7, <3>1, <3>3
    <3> QED
      BY <3>1, <3>2, <3>3, Zenon
  <2>4. Len(r) > 1
    BY <1>2, <1>5
  <2> QED
    BY <1>1, <1>5, <2>2, <2>3, <2>4 DEF Of, Assembles
<1>9. ASSUME NEW z \in Nat, Climbs(b, z), z < from PROVE Climbs(r, to)
  <2>1. b[m][3] = z /\ \A x, y \in 1..m : x < y => b[x][3] < b[y][3]
    BY <1>2, <1>9 DEF Climbs, Rising
  <2>2. ASSUME NEW x \in 1..m PROVE b[x][3] <= z /\ b[x][3] \in Nat /\ r[x][3] = b[x][3]
    <3>0. m \in 1..m
      BY <1>2
    <3>1. x = m \/ x < m
      OBVIOUS
    <3>2. b[x] \in Unit
      BY <1>1, <1>2
    <3>3. b[x][3] \in Nat
      BY <3>2 DEF Unit
    <3>4. b[x][3] <= z
      BY <2>1, <3>0, <3>1, <3>3
    <3> QED
      BY <1>5, <3>3, <3>4
  <2>3. ASSUME NEW x \in 1..(m + n), NEW y \in 1..(m + n), x < y PROVE r[x][3] < r[y][3]
    <3>1. CASE y <= m
      <4>1. x \in 1..m /\ y \in 1..m
        BY <2>3, <3>1
      <4> QED
        BY <2>1, <2>2, <2>3, <4>1
    <3>2. CASE y > m /\ x <= m
      <4>1. r[y][3] = from + (y - m) - 1 /\ x \in 1..m
        BY <1>7, <3>2
      <4>2. r[x][3] <= z /\ r[x][3] \in Nat
        BY <2>2, <4>1
      <4> QED
        BY <1>9, <3>2, <4>1, <4>2
    <3>3. CASE y > m /\ x > m
      <4>1. r[y][3] = from + (y - m) - 1 /\ r[x][3] = from + (x - m) - 1
        BY <1>7, <3>3
      <4> QED
        BY <2>3, <4>1
    <3>4. y <= m \/ (y > m /\ x <= m) \/ (y > m /\ x > m)
      OBVIOUS
    <3> QED
      BY <3>1, <3>2, <3>3, <3>4, Zenon
  <2>4. r[m + n][3] = to
    <3>1. m + n \in 1..(m + n) /\ m + n > m /\ from + ((m + n) - m) - 1 = to
      BY <1>2
    <3>2. r[m + n][3] = from + ((m + n) - m) - 1
      BY <1>7, <3>1
    <3> QED
      BY <3>1, <3>2
  <2> QED
    BY <1>5, <2>3, <2>4 DEF Climbs, Rising
<1> QED
  BY <1>8, <1>9

(* A start code in the middle. *)
LEMMA Restarted ==
  ASSUME NEW k \in Nat, NEW b, Of(b, k), NEW r, Joins(b, <<Start>>, r)
  PROVE  Of(r, k)
<1>1. /\ b \in Seq(Unit) /\ Len(b) > 1 /\ b[1] = Start /\ b[2][2] = k /\ k \in 1..Len(frames)
      /\ \A n \in 2..Len(b) : b[n] # Start => b[n][2] = k
  BY DEF Of, Assembles
<1>0. PICK one \in Nat : one = 1
  OBVIOUS
<1>2. PICK s \in Seq(Unit) : s = <<Start>> /\ Len(s) = 1 /\ s[1] = Start
  <2>1. Start \in Unit
    BY DEF Unit, Start
  <2>2. <<Start>> \in Seq(Unit) /\ Len(<<Start>>) = 1 /\ <<Start>>[1] = Start
    BY <2>1
  <2> QED
    BY <2>2
<1>3. PICK m \in Nat : m = Len(b)
  BY <1>1
<1>4. Joins(b, s, r)
  BY <1>2
<1>5. IsJoined(Unit, b, m, s, one, r)
  <2>1. Len(s) = one
    BY <1>0, <1>2
  <2> QED
    BY <1>1, <1>3, <1>4, <2>1, ConcatIs
<1>6. /\ r \in Seq(Unit) /\ Len(r) = m + 1
      /\ \A x \in 1..m : r[x] = b[x]
      /\ r[m + 1] = Start
  <2>1. 1 \in 1..one
    BY <1>0
  <2> QED
    BY <1>0, <1>2, <1>5, <2>1 DEF IsJoined
<1>7. 1 \in 1..m /\ 2 \in 1..m /\ m + 1 > 1
  BY <1>1, <1>3
<1>8. ASSUME NEW y \in 2..Len(r), r[y] # Start PROVE r[y][2] = k
  <2>1. y \in 2..m \/ y = m + 1
    BY <1>6
  <2>2. y # m + 1
    BY <1>6, <1>8
  <2>3. y \in 1..m /\ y \in 2..Len(b)
    BY <1>3, <2>1, <2>2
  <2> QED
    BY <1>1, <1>6, <1>8, <2>3
<1>9. r[1] = Start /\ r[2][2] = k
  BY <1>1, <1>6, <1>7
<1> QED
  BY <1>1, <1>6, <1>7, <1>8, <1>9 DEF Of, Assembles

(* What a packet on its way is. *)
LEMMA PacketReads ==
  ASSUME NEW T, Clock(T), codec = "h264", codec \in Codec, frames \in Seq(Frame), Len(frames) <= MaxFrames,
         NEW p, NEW j, IsPacket(T, p, j), NEW k, k = FrameOf(p), NEW len, len = LenOf(k)
  PROVE  /\ k \in Nat \ {0} /\ k <= Len(frames) /\ len \in Nat /\ FirstByte(len) \in 1..len
         /\ j \in 1..PacketCount(len)
         /\ T[k] \in Nat /\ Shape(p, k, len, T[k], j)
         /\ First(p) = From(len, j)
<1>1. k \in 1..Len(frames) /\ j \in 1..PacketCount(len) /\ p = Packet(k, len, T[k], j)
  BY DEF IsPacket, CountOf
<1>2. frames[k] \in Frame /\ k \in Nat \ {0} /\ k <= Len(frames)
  BY <1>1
<1>3. len \in Nat /\ FirstByte(len) \in 1..len
  BY <1>2, FrameFacts DEF LenOf
<1>4. T[k] \in Nat
  <2>1. k \in 1..(MaxFrames + 1)
    BY <1>2, BoundsAssumption
  <2> QED
    BY <2>1, TimestampsAssumption DEF Clock
<1>5. Shape(Packet(k, len, T[k], j), k, len, T[k], j)
  BY <1>1, <1>2, <1>3, <1>4, Reads
<1>6. Shape(p, k, len, T[k], j)
  BY <1>1, <1>5
<1>7. First(p) = From(len, j)
  <2>1. CASE Fragmented(len)
    BY <1>6, <2>1 DEF First, Shape
  <2>2. CASE ~Fragmented(len)
    <3>1. First(p) = 1 /\ j = 1
      BY <1>6, <2>2 DEF First, Shape
    <3>2. FirstByte(len) = 1
      BY <1>3, <2>2, SinglePacket
    <3>3. From(len, j) = FirstByte(len)
      BY <1>1, <1>3, <3>1, Extents
    <3> QED
      BY <3>1, <3>2, <3>3
  <2> QED
    BY <2>1, <2>2
<1> QED
  BY <1>1, <1>2, <1>3, <1>4, <1>6, <1>7

(* The prefix and the first byte, which setpacket() takes from the FU-A bytes. *)
LEMMA WholeOne ==
  ASSUME NEW k \in Nat
  PROVE  <<Start, <<"byte", k, 1>> >> = Whole(k, 1) /\ <<>> \o <<Start, <<"byte", k, 1>> >> = Whole(k, 1)
<1>1. PICK one \in Nat \ {0} : one = 1
  OBVIOUS
<1>2. PICK w : w = Whole(k, one)
  OBVIOUS
<1>3. /\ w \in Seq(Unit) /\ Len(w) = 1 + one /\ w[1] = Start
      /\ \A y \in 1..one : w[1 + y] = <<"byte", k, y>>
  BY <1>2, WholeIs
<1>4. Len(w) = 2 /\ w[2] = <<"byte", k, 1>>
  <2>1. 1 \in 1..one /\ 1 + 1 = 2
    BY <1>1
  <2> QED
    BY <1>1, <1>3, <2>1
<1>a. w \in Seq(Unit) /\ Len(w) = 2
  BY <1>3, <1>4
<1>5. w = <<w[1], w[2]>>
  BY <1>a
<1>6. w = <<Start, <<"byte", k, 1>> >>
  BY <1>3, <1>4, <1>5
<1>7. <<>> \o w = w
  BY <1>3
<1> QED
  BY <1>1, <1>2, <1>6, <1>7

(* setpacket() begins a frame. *)
LEMMA Fresh ==
  ASSUME NEW T, Clock(T), codec = "h264", codec \in Codec, frames \in Seq(Frame), Len(frames) <= MaxFrames,
         NEW p, NEW j, IsPacket(T, p, j), NEW k, k = FrameOf(p), NEW len, len = LenOf(k),
         NEW b, b = Appended(<<>>, p)
  PROVE  /\ b \in Seq(Unit)
         /\ b # <<>> => Of(b, k) /\ Climbs(b, Top(len, j))
         /\ Copied(k) => b # <<>>
         /\ Copied(k) /\ j = 1 => b = Whole(k, Top(len, j))
<1>1. /\ k \in Nat \ {0} /\ k <= Len(frames) /\ len \in Nat /\ FirstByte(len) \in 1..len
      /\ j \in 1..PacketCount(len)
      /\ Shape(p, k, len, T[k], j)
  BY PacketReads
<1>0. FrameOf(p) = k /\ k <= MaxFrames
  BY <1>1, BoundsAssumption
<1>2. k \in Nat /\ k \in 1..Len(frames)
  BY <1>1
<1>3. CASE Fragmented(len)
  <2>1. PICK x \in Nat \ {0}, from \in Nat, to \in Nat :
               x = 1 /\ from = From(len, j) /\ to = Top(len, j) /\ from <= to /\ x < from
    <3>1. From(len, j) \in Nat /\ Top(len, j) \in Nat /\ From(len, j) <= Top(len, j)
      BY <1>1, Extents
    <3>2. FirstByte(len) = 2
      BY <1>1, <1>3 DEF Shape
    <3>3. PICK m \in Nat : m = j - 1
      BY <1>1, Rounds
    <3>4. m * MAX_RTP_BODY_LENGTH \in Nat
      BY BodyAssumption
    <3>5. 1 < From(len, j)
      BY <3>2, <3>3, <3>4 DEF From
    <3> QED
      BY <3>1, <3>5
  <2>2. b = (<<>> \o <<Start, <<"byte", k, 1>> >>) \o Bytes(k, from, to)
    <3>1. IsFU(p) /\ SubSeq(p, 3, Len(p)) = Bytes(k, from, to)
      BY <1>1, <1>3, <2>1 DEF Shape
    <3> QED
      BY <3>1 DEF Appended
  <2>3. Joins(Whole(k, x), Bytes(k, from, to), b)
    BY <1>2, <2>1, <2>2, WholeOne DEF Joins
  <2>4. Of(Whole(k, x), k) /\ Climbs(Whole(k, x), x)
    BY <1>2, WholeClimbs
  <2>5. Of(b, k) /\ \A z \in Nat : Climbs(Whole(k, x), z) /\ z < from => Climbs(b, to)
    BY <1>2, <2>1, <2>3, <2>4, Longer
  <2>6. Climbs(b, to)
    BY <2>1, <2>4, <2>5
  <2>7. b \in Seq(Unit) /\ Len(b) > 1
    BY <2>5 DEF Of, Assembles
  <2>8. b # <<>>
    BY <2>7
  <2>9. ASSUME j = 1 PROVE b = Whole(k, to)
    <3>1. From(len, j) = FirstByte(len) /\ FirstByte(len) = 2
      BY <1>1, <1>3, <2>9, Extents DEF Shape
    <3>2. from = x + 1 /\ x <= to
      BY <2>1, <3>1
    <3>3. Joins(Whole(k, x), Bytes(k, from, to), Whole(k, to))
      BY <1>2, <3>2, WholeJoin
    <3> QED
      BY <2>3, <3>3 DEF Joins
  <2> QED
    BY <2>1, <2>5, <2>6, <2>7, <2>8, <2>9
<1>4. CASE ~Fragmented(len) /\ frames[k].type = "known"
  <2>1. j = 1 /\ PacketCount(len) = 1 /\ ~IsFU(p) /\ Tail(p) = Bytes(k, 1, len)
    BY <1>1, <1>4 DEF Shape
  <2>2. Top(len, j) = len /\ len \in Nat \ {0}
    BY <1>1, <2>1, Extents
  <2>3. b = (<<>> \o <<Start>>) \o Bytes(k, 1, len)
    <3>1. Known(p)
      BY <1>0, <1>4 DEF Known
    <3> QED
      BY <2>1, <3>1 DEF Appended
  <2>4. <<>> \o <<Start>> = <<Start>>
    <3>1. Start \in Unit
      BY DEF Unit, Start
    <3> QED
      BY <3>1
  <2>5. b = Whole(k, len)
    BY <2>3, <2>4 DEF Whole
  <2>6. Of(b, k) /\ Climbs(b, len)
    BY <1>2, <2>2, <2>5, WholeClimbs
  <2>7. b \in Seq(Unit) /\ Len(b) > 1
    BY <2>6 DEF Of, Assembles
  <2>8. b # <<>>
    BY <2>7
  <2> QED
    BY <2>2, <2>5, <2>6, <2>7, <2>8
<1>5. CASE ~Fragmented(len) /\ frames[k].type # "known"
  <2>1. ~IsFU(p)
    BY <1>1, <1>5 DEF Shape
  <2>2. b = <<>>
    <3>1. ~Known(p)
      BY <1>0, <1>5 DEF Known
    <3> QED
      BY <2>1, <3>1 DEF Appended
  <2>3. ~Copied(k)
    BY <1>5 DEF Copied, LenOf
  <2>4. <<>> \in Seq(Unit)
    OBVIOUS
  <2> QED
    BY <2>2, <2>3, <2>4
<1> QED
  BY <1>3, <1>4, <1>5

(* setpacket() continues the frame it has begun. *)
LEMMA Continued ==
  ASSUME NEW T, Clock(T), codec = "h264", codec \in Codec, frames \in Seq(Frame), Len(frames) <= MaxFrames,
         NEW p, NEW j, IsPacket(T, p, j), NEW k, k = FrameOf(p), NEW len, len = LenOf(k),
         NEW b, Of(b, k), NEW r, r = Appended(b, p)
  PROVE  /\ Of(r, k)
         /\ \A z \in Nat : Climbs(b, z) /\ z < First(p) =>
              Climbs(r, Top(len, j)) /\ Joins(b, Bytes(k, From(len, j), Top(len, j)), r)
<1>1. /\ k \in Nat \ {0} /\ k <= Len(frames) /\ len \in Nat /\ FirstByte(len) \in 1..len
      /\ j \in 1..PacketCount(len)
      /\ Shape(p, k, len, T[k], j) /\ First(p) = From(len, j)
  BY PacketReads
<1>0. FrameOf(p) = k /\ k <= MaxFrames
  BY <1>1, BoundsAssumption
<1>2. k \in Nat /\ b \in Seq(Unit) /\ Len(b) > 1 /\ b[1] = Start
  BY <1>1 DEF Of, Assembles
<1>3. b # <<>>
  BY <1>2
<1>4. PICK from \in Nat, to \in Nat : from = From(len, j) /\ to = Top(len, j) /\ from <= to
  BY <1>1, Extents
<1>5. CASE Fragmented(len)
  <2>1. IsFU(p) /\ SubSeq(p, 3, Len(p)) = Bytes(k, from, to)
    BY <1>1, <1>4, <1>5 DEF Shape
  <2>2. r = (b \o <<>>) \o Bytes(k, from, to)
    BY <1>3, <2>1 DEF Appended
  <2>3. b \o <<>> = b
    BY <1>2
  <2>4. Joins(b, Bytes(k, from, to), r)
    BY <2>2, <2>3 DEF Joins
  <2>5. Of(r, k) /\ \A z \in Nat : Climbs(b, z) /\ z < from => Climbs(r, to)
    BY <1>2, <1>4, <2>4, Longer
  <2> QED
    BY <1>1, <1>4, <2>4, <2>5
<1>6. CASE ~Fragmented(len)
  <2>1. ASSUME NEW z \in Nat, Climbs(b, z), z < First(p) PROVE FALSE
    <3>1. First(p) = 1
      BY <1>1, <1>6 DEF Shape, First
    <3>2. b[1][3] < b[Len(b)][3] /\ b[Len(b)][3] = z
      <4>1. 1 \in 1..Len(b) /\ Len(b) \in 1..Len(b) /\ 1 < Len(b)
        BY <1>2
      <4> QED
        BY <2>1, <4>1 DEF Climbs, Rising
    <3>3. b[1][3] = 0
      BY <1>2 DEF Start
    <3> QED
      BY <2>1, <3>1, <3>2, <3>3
  <2>2. ~IsFU(p) /\ Tail(p) = Bytes(k, 1, len) /\ len > 0
    BY <1>1, <1>6 DEF Shape
  <2>3. CASE frames[k].type = "known"
    <3>1. r = (b \o <<Start>>) \o Bytes(k, 1, len)
      <4>1. Known(p)
        BY <1>0, <2>3 DEF Known
      <4> QED
        BY <2>2, <4>1 DEF Appended
    <3>2. PICK c : c = b \o <<Start>> /\ Joins(b, <<Start>>, c)
      BY DEF Joins
    <3>3. Of(c, k)
      BY <1>2, <3>2, Restarted
    <3>4. PICK one \in Nat : one = 1 /\ one <= len
      BY <1>1, <2>2
    <3>5. Joins(c, Bytes(k, one, len), r)
      BY <3>1, <3>2, <3>4 DEF Joins
    <3>6. Of(r, k)
      BY <1>1, <1>2, <3>3, <3>4, <3>5, Longer
    <3> QED
      BY <2>1, <3>6
  <2>4. CASE frames[k].type # "known"
    <3>1. r = b
      <4>1. ~Known(p)
        BY <1>0, <2>4 DEF Known
      <4> QED
        BY <2>2, <4>1 DEF Appended
    <3> QED
      BY <2>1, <3>1
  <2> QED
    BY <2>3, <2>4
<1> QED
  BY <1>5, <1>6

-----------------------------------------------------------------------------
(* What a step leaves alone.                                                 *)

(* Frames are only added, and what was behind stays behind. *)
Grown ==
  /\ codec' = codec /\ Len(frames') \in Nat /\ Len(frames) <= Len(frames')
  /\ \A k \in 1..Len(frames) : frames'[k] = frames[k]
Forward == \A k, x \in Nat : k <= Len(frames) /\ Behind(k, x) => Behind(k, x)'

(* A frame stays what it is. *)
LEMMA FrameKept ==
  ASSUME Grown, NEW k \in 1..Len(frames)
  PROVE  /\ LenOf(k)' = LenOf(k) /\ CountOf(k)' = CountOf(k) /\ (Copied(k) <=> Copied(k)')
         /\ \A j : From(LenOf(k), j)' = From(LenOf(k), j) /\ Top(LenOf(k), j)' = Top(LenOf(k), j)
<1>1. codec' = codec /\ frames'[k] = frames[k]
  BY DEF Grown
<1>2. LenOf(k)' = LenOf(k)
  BY <1>1 DEF LenOf, FrameLength
<1>3. FirstByte(LenOf(k))' = FirstByte(LenOf(k))
  BY <1>1, <1>2 DEF FirstByte, Fragmented
<1>4. CountOf(k)' = CountOf(k)
  BY <1>2, <1>3 DEF CountOf, PacketCount
<1>5. Copied(k) <=> Copied(k)'
  BY <1>1 DEF Copied, Fragmented, FrameLength
<1>6. ASSUME NEW j PROVE From(LenOf(k), j)' = From(LenOf(k), j) /\ Top(LenOf(k), j)' = Top(LenOf(k), j)
  BY <1>2, <1>3 DEF From, Top
<1> QED
  BY <1>2, <1>4, <1>5, <1>6

(* A packet stays a packet of its frame. *)
LEMMA PacketKept ==
  ASSUME Grown, NEW T, NEW p, NEW j, Len(frames) \in Nat, IsPacket(T, p, j)
  PROVE  IsPacket(T, p, j)'
<1>1. PICK k \in 1..Len(frames) : k = FrameOf(p)
  BY DEF IsPacket
<1>2. codec' = codec /\ frames'[k] = frames[k] /\ k \in 1..Len(frames')
  BY DEF Grown
<1>3. LenOf(k)' = LenOf(k) /\ CountOf(k)' = CountOf(k)
  BY FrameKept
<1>4. Packet(k, LenOf(k), T[k], j)' = Packet(k, LenOf(k), T[k], j)
  <2>1. FirstByte(LenOf(k))' = FirstByte(LenOf(k)) /\ PayloadHeader(k, LenOf(k))' = PayloadHeader(k, LenOf(k))
    BY <1>2, <1>3 DEF FirstByte, Fragmented, PayloadHeader
  <2> QED
    BY <1>3, <2>1 DEF Packet
<1>5. /\ FrameOf(p) \in 1..Len(frames) /\ j \in 1..CountOf(FrameOf(p))
      /\ p = Packet(FrameOf(p), LenOf(FrameOf(p)), T[FrameOf(p)], j)
  BY DEF IsPacket
<1>6. j \in 1..CountOf(k)' /\ p = Packet(k, LenOf(k), T[k], j)'
  BY <1>1, <1>3, <1>4, <1>5
<1>7. FrameOf(p) = k
  BY <1>1
<1> QED
  BY <1>2, <1>6, <1>7 DEF IsPacket

(* A buffer stays a buffer of its frame. *)
LEMMA AssemblesKept ==
  ASSUME Grown, Len(frames) \in Nat, NEW b, Assembles(b)
  PROVE  Assembles(b)'
<1>1. b[2][2] \in 1..Len(frames')
  BY DEF Assembles, Grown
<1> QED
  BY <1>1 DEF Assembles

(* The receiver's part of the invariant, when only the sender or the network moves. *)
LEMMA ReceiverKept ==
  ASSUME NEW T, Holds(T), Grown, Forward, RestOK', others = 0,
         UNCHANGED <<demux, delivered, seen, latest, faults, others, jumped>>,
         faults = 0 /\ others = 0 => \A n \in 1..Len(net') : latest <= FrameOf(net'[n])
  PROVE  Lone(T)'
<1>1. Len(frames) \in Nat /\ latest \in 0..Len(frames) /\ codec' = codec
  BY DEF Holds, RestOK, Grown
<1>2. PICK b : b = demux.rtp_buffer
  OBVIOUS
<1>3. demux'.rtp_buffer = b /\ demux' = demux /\ delivered' = delivered /\ latest' = latest
  BY <1>2
<1>4. BufferOK(T)'
  BY <1>1, <1>2, <1>3, AssemblesKept DEF Holds, Lone, BufferOK
<1>5. DeliveredOK'
  BY <1>1, <1>3, AssemblesKept DEF Holds, Lone, DeliveredOK
<1>6. ASSUME b # <<>> PROVE b[2][2] \in Nat /\ b[2][2] <= Len(frames) /\ b[Len(b)][3] \in Nat
  <2>1. Assembles(b)
    BY <1>2, <1>6 DEF Holds, Lone, BufferOK
  <2>2. b[2][2] \in 1..Len(frames) /\ b \in Seq(Unit) /\ Len(b) > 1
    BY <2>1 DEF Assembles
  <2>3. b[Len(b)] \in Unit
    BY <2>2
  <2>4. b[Len(b)][3] \in Nat
    BY <2>3 DEF Unit
  <2> QED
    BY <1>1, <2>2, <2>4
<1>7. CutsOK'
  <2> SUFFICES ASSUME faults' = 0
               PROVE  /\ \A n \in 1..Len(net') : latest <= FrameOf(net'[n])
                      /\ \A n \in 1..Len(delivered) : delivered[n].data[2][2] < latest /\ Rising(delivered[n].data)
                      /\ \A m, n \in 1..Len(delivered) : m < n => delivered[m].data[2][2] < delivered[n].data[2][2]
                      /\ b # <<>> =>
                           /\ b[2][2] <= latest
                           /\ \A n \in 1..Len(delivered) : delivered[n].data[2][2] < b[2][2]
                           /\ Rising(b)
                           /\ Behind(b[2][2], b[Len(b)][3])'
    BY <1>2, <1>3 DEF CutsOK, Rising
  <2>1. faults = 0
    OBVIOUS
  <2>2. b # <<>> => Behind(b[2][2], b[Len(b)][3])
    BY <1>2, <2>1 DEF Holds, Lone, CutsOK
  <2>3. b # <<>> => Behind(b[2][2], b[Len(b)][3])'
    BY <1>6, <2>2 DEF Forward
  <2> QED
    BY <1>2, <2>1, <2>3 DEF Holds, Lone, CutsOK
<1>8. WholeOK'
  <2> SUFFICES ASSUME faults' = 0, ~jumped'
               PROVE  /\ b # <<>> => b[2][2] = latest
                      /\ \A k \in 1..Len(frames') : Copied(k)' =>
                           /\ k > latest => seen[k] = 0
                           /\ k = latest => b # <<>> /\ \E j \in 1..CountOf(k)' : Underway(k, j)'
                           /\ k < latest /\ seen[k] = CountOf(k)' =>
                                \E n \in 1..Len(delivered) : delivered[n].data = Whole(k, LenOf(k))'
    BY <1>2, <1>3 DEF WholeOK
  <2>1. faults = 0 /\ ~jumped
    OBVIOUS
  <2>2. b # <<>> => b[2][2] = latest
    BY <1>2, <2>1 DEF Holds, Lone, WholeOK
  <2>3. ASSUME NEW k \in 1..Len(frames'), Copied(k)'
        PROVE  /\ k > latest => seen[k] = 0
               /\ k = latest => b # <<>> /\ \E j \in 1..CountOf(k)' : Underway(k, j)'
               /\ k < latest /\ seen[k] = CountOf(k)' =>
                    \E n \in 1..Len(delivered) : delivered[n].data = Whole(k, LenOf(k))'
    <3>1. CASE k > Len(frames)
      <4>1. k > latest /\ ~(k < latest) /\ k # latest
        BY <1>1, <3>1
      <4>2. seen[k] = 0
        <5>1. k \in 1..MaxFrames
          BY BoundsAssumption DEF RestOK
        <5> QED
          BY <3>1, <5>1 DEF Holds, RestOK
      <4> QED
        BY <4>1, <4>2
    <3>2. CASE k <= Len(frames)
      <4>1. k \in 1..Len(frames) /\ k \in Nat
        BY <1>1, <3>2
      <4>2. /\ LenOf(k)' = LenOf(k) /\ CountOf(k)' = CountOf(k) /\ (Copied(k) <=> Copied(k)')
            /\ \A j : Top(LenOf(k), j)' = Top(LenOf(k), j)
        BY <4>1, FrameKept
      <4>3. /\ k > latest => seen[k] = 0
            /\ k = latest => b # <<>> /\ \E j \in 1..CountOf(k) : Underway(k, j)
            /\ k < latest /\ seen[k] = CountOf(k) =>
                 \E n \in 1..Len(delivered) : delivered[n].data = Whole(k, LenOf(k))
        BY <1>2, <2>1, <2>3, <4>1, <4>2 DEF Holds, Lone, WholeOK
      <4>4. Whole(k, LenOf(k))' = Whole(k, LenOf(k))
        BY <4>2 DEF Whole
      <4>5. ASSUME NEW j \in 1..CountOf(k), Underway(k, j) PROVE Underway(k, j)'
        <5>1. Behind(k, Top(LenOf(k), j)) /\ seen[k] <= j /\ (seen[k] = j => b = Whole(k, Top(LenOf(k), j)))
          BY <1>2, <4>5 DEF Underway
        <5>2. PICK x \in Nat : x = Top(LenOf(k), j)
          <6>1. frames[k] \in Frame /\ codec \in Codec
            BY <4>1 DEF Holds, RestOK
          <6>2. LenOf(k) \in Nat /\ FirstByte(LenOf(k)) \in 1..LenOf(k)
            BY <6>1, FrameFacts DEF LenOf
          <6>3. Top(LenOf(k), j) \in Nat
            BY <6>2, Extents DEF CountOf
          <6> QED
            BY <6>3
        <5>3. Behind(k, x)'
          BY <1>1, <3>2, <4>1, <5>1, <5>2 DEF Forward
        <5>4. Top(LenOf(k), j)' = x
          BY <4>2, <5>2
        <5>5. Behind(k, Top(LenOf(k), j))' /\ Whole(k, Top(LenOf(k), j))' = Whole(k, x)
          BY <5>3, <5>4 DEF Behind, Whole
        <5> QED
          BY <1>3, <5>1, <5>2, <5>5 DEF Underway
      <4> QED
        BY <4>2, <4>3, <4>4, <4>5
    <3>3. k > Len(frames) \/ k <= Len(frames)
      BY <1>1 DEF Grown
    <3> QED
      BY <3>1, <3>2, <3>3, Zenon
  <2> QED
    BY <2>2, <2>3
<1> QED
  BY <1>4, <1>5, <1>7, <1>8 DEF Lone

(* What came of the stamps stays while the receiver does nothing. *)
LEMMA StampsKept ==
  ASSUME NEW T, StampsOK(T), UNCHANGED <<demux, delivered>>
  PROVE  StampsOK(T)'
  BY DEF StampsOK, Stamped, AllFit, FrameFits, OtherFrame

-----------------------------------------------------------------------------
(* sendfile() and the network.                                               *)

(* A frame of the file. *)
LEMMA FrameOK ==
  ASSUME codec \in Codec, frames \in Seq(Frame), NEW k \in 1..Len(frames)
  PROVE  /\ LenOf(k) \in Nat /\ FirstByte(LenOf(k)) \in 1..LenOf(k)
         /\ CountOf(k) \in Nat \ {0}
<1>1. frames[k] \in Frame
  OBVIOUS
<1>2. LenOf(k) \in Nat /\ FirstByte(LenOf(k)) \in 1..LenOf(k)
  BY <1>1, FrameFacts DEF LenOf
<1> QED
  BY <1>2, Rounds DEF CountOf

(* The timestamp of a frame. *)
LEMMA StampOK ==
  ASSUME NEW T, Clock(T), NEW k \in 1..(MaxFrames + 1)
  PROVE  T[k] \in Nat /\ T[k] \in 0..(TimestampModulus - 1)
  BY TimestampsAssumption DEF Clock

(* sendfile() reads a frame. *)
LEMMA GetFrameKeeps ==
  ASSUME NEW T, Holds(T), NEW f \in Frame, GetFrame(f)
  PROVE  Holds(T)'
<1>a. PICK K \in Nat : K = Len(frames) + 1
  BY DEF Holds, RestOK
<1>b. PICK len \in Nat : len = FrameLength(f) /\ FirstByte(len) \in 1..len
  BY FrameFacts DEF Holds, RestOK
<1>1. /\ frames \in Seq(Frame) /\ codec \in Codec /\ Len(frames) < MaxFrames /\ Len(frames) \in Nat
      /\ frames' = Append(frames, f) /\ sender' = "packet" /\ i' = 1 /\ codec' = codec /\ net' = net
      /\ UNCHANGED receiving /\ K \in Nat \ {0} /\ K <= MaxFrames
  BY <1>a, BoundsAssumption DEF Holds, RestOK, GetFrame
<1>2. /\ Len(frames') = K /\ frames'[K] = f /\ frames' \in Seq(Frame)
      /\ \A k \in 1..Len(frames) : frames'[k] = frames[k]
  BY <1>a, <1>1
<1>3. Grown
  BY <1>a, <1>1, <1>2 DEF Grown
<1>4. RestOK'
  <2>1. /\ latest \in 0..K
        /\ \A k \in 1..MaxFrames : k > K => seen[k] = 0
    BY <1>a, <1>1, BoundsAssumption DEF Holds, RestOK
  <2> QED
    BY <1>1, <1>2, <2>1 DEF Holds, RestOK, receiving
<1>5. len \in Nat /\ FirstByte(len) \in 1..len
  BY <1>b
<1>6. LenOf(K)' = len /\ CountOf(K)' = PacketCount(len)
  <2>1. LenOf(K)' = len
    BY <1>b, <1>1, <1>2 DEF LenOf, FrameLength
  <2>2. FirstByte(len)' = FirstByte(len)
    BY <1>1 DEF FirstByte, Fragmented
  <2> QED
    BY <2>1, <2>2 DEF CountOf, PacketCount
<1>7. MuxOK(T)'
  <2>1. PICK ts \in Nat : ts = mux.timestamp_current /\ ts = T[K]
    <3>1. mux.timestamp_current = T[K] /\ K \in 1..(MaxFrames + 1)
      <4>1. mux.timestamp_current = T[Len(frames) + 1]
        BY DEF Holds, MuxOK
      <4>2. K \in 1..(MaxFrames + 1)
        BY <1>1, BoundsAssumption
      <4> QED
        BY <1>a, <4>1, <4>2
    <3>2. T[K] \in Nat
      BY <3>1, StampOK DEF Holds
    <3> QED
      BY <3>1, <3>2
  <2>2. mux' = [rtp_buffer |-> FlattenSeq(Packets(K, len, ts)),
                packet_count |-> PacketCount(len),
                last_packet_length |-> Len(Packet(K, len, ts, PacketCount(len))),
                timestamp_current |-> NextTimestamp(ts)]
    BY <1>a, <1>b, <2>1 DEF GetFrame, setframe, Packets
  <2>3. NextTimestamp(ts) = T[K + 1]
    <3>1. K \in 1..MaxFrames
      BY <1>1
    <3> QED
      BY <2>1, <3>1 DEF Holds, Clock
  <2>4. FlattenSeq(Packets(K, len, ts)) \in Seq(Unit)
    <3>1. K \in Nat
      BY <1>1
    <3>2. Packets(K, len, ts) \in Seq(Seq(Unit))
      BY <1>5, <3>1, PacketsType
    <3> QED
      BY <3>2, FlattenType
  <2>5. i' \in 1..CountOf(K)'
    BY <1>1, <1>5, <1>6, Rounds
  <2>6. Loaded(K, LenOf(K), T[K])'
    <3>1. ASSUME NEW k, NEW l, NEW t, NEW j PROVE Packet(k, l, t, j)' = Packet(k, l, t, j)
      BY <1>1 DEF Packet, FirstByte, PayloadHeader, Fragmented
    <3>2. ASSUME NEW l PROVE PacketCount(l)' = PacketCount(l)
      BY <1>1 DEF PacketCount, FirstByte, Fragmented
    <3>3. ASSUME NEW k, NEW l, NEW t PROVE Packets(k, l, t)' = Packets(k, l, t)
      BY <3>1, <3>2 DEF Packets
    <3>4. /\ mux'.packet_count = PacketCount(len)
          /\ mux'.rtp_buffer = FlattenSeq(Packets(K, len, ts))
          /\ mux'.last_packet_length = Len(Packet(K, len, ts, PacketCount(len)))
      BY <2>2
    <3>5. Loaded(K, len, ts)'
      BY <3>1, <3>2, <3>3, <3>4 DEF Loaded
    <3> QED
      BY <1>6, <2>1, <3>5
  <2> QED
    BY <1>1, <1>2, <2>2, <2>3, <2>4, <2>5, <2>6 DEF MuxOK
<1>8. ASSUME NEW n \in 1..Len(net) PROVE FrameOf(net[n]) \in Nat /\ FrameOf(net[n]) < K
  <2>1. FrameOf(net[n]) \in 1..Len(frames)
    BY DEF Holds, NetOK, IsPacket
  <2> QED
    BY <1>a, <1>1, <2>1
<1>9. NetOK(T)'
  <2>1. \A n \in 1..Len(net) : \E j \in Nat : IsPacket(T, net[n], j)'
    BY <1>1, <1>3, PacketKept DEF Holds, NetOK
  <2>2. \A n \in 1..Len(net) : Before(FrameOf(net[n]), First(net[n]), K, From(LenOf(K), i)')
    BY <1>8 DEF Before
  <2> QED
    BY <1>1, <1>2, <2>1, <2>2 DEF Holds, NetOK
<1>10. Forward
  <2> SUFFICES ASSUME NEW k \in Nat, NEW x \in Nat, k <= Len(frames), Behind(k, x) PROVE Behind(k, x)'
    BY DEF Forward
  <2>1. k < K
    BY <1>a, <1>1
  <2>2. Before(k, x, K, From(LenOf(K), i)')
    BY <2>1 DEF Before
  <2> QED
    BY <1>1, <1>2, <2>2 DEF Behind
<1>11. ASSUME others = 0 PROVE Lone(T)'
  <2>1. UNCHANGED <<demux, delivered, seen, latest, faults, others, jumped>>
    BY <1>1 DEF receiving
  <2>2. faults = 0 /\ others = 0 => \A n \in 1..Len(net') : latest <= FrameOf(net'[n])
    BY <1>1 DEF Holds, Lone, CutsOK
  <2> QED
    BY <1>3, <1>4, <1>10, <1>11, <2>1, <2>2, ReceiverKept
<1>12. Clock(T)'
  BY DEF Holds, Clock
<1>13. StampsOK(T)' /\ others' = others
  BY <1>1, StampsKept DEF Holds, receiving
<1> QED
  BY <1>4, <1>7, <1>9, <1>11, <1>12, <1>13 DEF Holds

(* The sender stops, and the receiver's own steps. *)
LEMMA OthersKeep ==
  ASSUME NEW T, Holds(T), UNCHANGED <<codec, frames, mux, i, net, demux, delivered, seen, latest, faults, others, jumped>>,
         sender' \in {"frame", "packet", "end"}, sender' = "packet" => sender = "packet",
         receiver' \in {"starting", "running", "crashed", "ended"}
  PROVE  Holds(T)'
<1>1. Len(frames) \in Nat
  BY DEF Holds, RestOK
<1>2. Grown
  BY <1>1 DEF Grown
<1>3. RestOK'
  BY DEF Holds, RestOK
<1>4. \A k, x : From(LenOf(Len(frames)), i)' = From(LenOf(Len(frames)), i)
  BY DEF From, LenOf, FrameLength, FirstByte, Fragmented
<1>5. Forward
  BY <1>4 DEF Forward, Behind
<1>6. MuxOK(T)'
  <2>1. LenOf(Len(frames))' = LenOf(Len(frames)) /\ CountOf(Len(frames))' = CountOf(Len(frames))
    BY DEF LenOf, CountOf, FrameLength, PacketCount, FirstByte, Fragmented
  <2>2. Loaded(Len(frames), LenOf(Len(frames)), T[Len(frames)])' <=> Loaded(Len(frames), LenOf(Len(frames)), T[Len(frames)])
    BY DEF Loaded, Packets, Packet, PacketCount, FirstByte, Fragmented, PayloadHeader, LenOf, FrameLength
  <2> QED
    BY <2>1, <2>2 DEF Holds, MuxOK
<1>7. NetOK(T)'
  <2>1. \A n \in 1..Len(net) : \E j \in Nat : IsPacket(T, net[n], j)'
    BY <1>1, <1>2, PacketKept DEF Holds, NetOK
  <2> QED
    BY <1>4, <2>1 DEF Holds, NetOK
<1>8. faults = 0 /\ others = 0 => \A n \in 1..Len(net') : latest <= FrameOf(net'[n])
  BY DEF Holds, Lone, CutsOK
<1>9. others = 0 => Lone(T)'
  BY <1>2, <1>3, <1>5, <1>8, ReceiverKept
<1>10. Clock(T)'
  BY DEF Holds, Clock
<1>11. StampsOK(T)'
  BY StampsKept DEF Holds
<1> QED
  BY <1>3, <1>6, <1>7, <1>9, <1>10, <1>11 DEF Holds

(* The packet after one begins after it. *)
LEMMA NextFrom ==
  ASSUME NEW len \in Nat, FirstByte(len) \in 1..len, NEW j \in 1..PacketCount(len), j < PacketCount(len)
  PROVE  From(len, j) \in Nat /\ From(len, j + 1) \in Nat /\ From(len, j) < From(len, j + 1)
<1>1. PICK l \in 1..PacketCount(len) : l = j + 1 /\ j < l
  BY Rounds
<1>2. Top(len, j) < From(len, l)
  BY <1>1, Follow
<1>3. From(len, j) \in Nat /\ From(len, j) <= Top(len, j) /\ Top(len, j) \in Nat /\ From(len, l) \in Nat
  BY Extents
<1> QED
  BY <1>1, <1>2, <1>3

(* Earlier than something earlier. *)
LEMMA BeforeTransitive ==
  ASSUME NEW k \in Nat, NEW x \in Nat, NEW l \in Nat, NEW y \in Nat, NEW z \in Nat,
         Before(k, x, l, y), y < z
  PROVE  Before(k, x, l, z)
  BY DEF Before

(* sendfile() passes a packet on. *)
LEMMA SendPacketKeeps ==
  ASSUME NEW T, Holds(T), SendPacket
  PROVE  Holds(T)'
<1>1. /\ frames \in Seq(Frame) /\ codec \in Codec /\ Len(frames) <= MaxFrames
      /\ sender = "packet" /\ i' = i + 1
      /\ UNCHANGED <<codec, frames, mux, receiving>>
  BY DEF Holds, RestOK, SendPacket
<1>2. PICK K \in Nat : K = Len(frames) /\ K \in 1..Len(frames)
  BY <1>1 DEF Holds, MuxOK
<1>3. PICK len \in Nat : len = LenOf(K) /\ FirstByte(len) \in 1..len
  BY <1>1, <1>2, FrameOK
<1>4. PICK n \in Nat \ {0} : n = PacketCount(len) /\ n = CountOf(K) /\ i \in 1..n /\ mux.packet_count = n
  <2>1. PacketCount(len) \in Nat \ {0}
    BY <1>3, Rounds
  <2>2. i \in 1..CountOf(K) /\ Loaded(K, len, T[K])
    BY <1>1, <1>2, <1>3 DEF Holds, MuxOK
  <2> QED
    BY <1>3, <2>1, <2>2 DEF CountOf, Loaded
<1>a. i \in 1..PacketCount(len)
  BY <1>4
<1>5. PICK ts \in Nat : ts = T[K]
  <2>1. K \in 1..(MaxFrames + 1)
    BY <1>1, <1>2, BoundsAssumption
  <2> QED
    BY <2>1, StampOK DEF Holds
<1>6. PICK p : p = Slice(i) /\ p = Packet(K, len, ts, i)
  <2>1. Loaded(K, len, ts)
    BY <1>1, <1>2, <1>3, <1>5 DEF Holds, MuxOK
  <2>2. Slice(i) = Packet(K, len, ts, i)
    BY <1>1, <1>3, <1>a, <2>1, SliceIs
  <2> QED
    BY <2>2
<1>7. Grown
  BY <1>1, <1>2 DEF Grown
<1>8. RestOK'
  <2>1. sender' \in {"frame", "packet", "end"}
    BY DEF SendPacket
  <2> QED
    BY <1>1, <2>1 DEF Holds, RestOK, receiving
<1>9. sender' = "packet" <=> i # n
  BY <1>4 DEF SendPacket
<1>10. PICK x \in Nat : x = From(len, i)
  BY <1>3, <1>a, Extents
<1>11. From(LenOf(Len(frames)), i) = x
  BY <1>2, <1>3, <1>10
<1>12. ASSUME i # n PROVE From(len, i + 1) \in Nat /\ x < From(len, i + 1)
  <2>1. i \in 1..PacketCount(len) /\ i < PacketCount(len)
    BY <1>4, <1>12
  <2> QED
    BY <1>3, <1>10, <2>1, NextFrom
<1>13. PICK y \in Nat : i # n => y = From(len, i + 1) /\ x < y
  BY <1>12
<1>14. i # n => From(LenOf(Len(frames)), i)' = y
  <2>1. From(LenOf(Len(frames)), i)' = From(len, i + 1)
    BY <1>1, <1>2, <1>3 DEF From, LenOf, FrameLength, FirstByte, Fragmented
  <2> QED
    BY <1>13, <2>1
<1>15. \/ net' = net
       \/ net' = Append(net, p) /\ codec = "h264"
  BY <1>6 DEF SendPacket
<1>16. ASSUME codec = "h264" PROVE p \in Seq(Unit) /\ FrameOf(p) = K /\ First(p) = x /\ IsPacket(T, p, i)
  <2>1. Shape(p, K, len, ts, i)
    BY <1>3, <1>4, <1>6, <1>16, Reads
  <2>2. p \in Seq(Unit) /\ FrameOf(p) = K
    BY <2>1 DEF Shape
  <2>3. IsPacket(T, p, i)
    BY <1>2, <1>3, <1>4, <1>5, <1>6, <2>2 DEF IsPacket
  <2>4. First(p) = From(len, i)
    BY <1>1, <1>3, <1>16, <2>2, <2>3, PacketReads DEF Holds
  <2> QED
    BY <1>10, <2>2, <2>3, <2>4
<1>17. net \in Seq(Seq(Unit)) /\ Len(net) \in Nat
  BY DEF Holds, NetOK
<1>18. /\ net' \in Seq(Seq(Unit)) /\ Len(net) <= Len(net')
       /\ \A m \in 1..Len(net) : net'[m] = net[m]
       /\ \A m \in 1..Len(net') :
            m \in 1..Len(net) \/ (m > Len(net) /\ m = Len(net') /\ codec = "h264" /\ net'[m] = p)
  <2>1. CASE net' = net
    BY <1>17, <2>1
  <2>2. CASE net' = Append(net, p) /\ codec = "h264"
    <3>1. p \in Seq(Unit)
      BY <1>16, <2>2
    <3>2. /\ net' \in Seq(Seq(Unit)) /\ Len(net') = Len(net) + 1 /\ net'[Len(net) + 1] = p
          /\ \A m \in 1..Len(net) : net'[m] = net[m]
      BY <1>17, <2>2, <3>1
    <3> QED
      BY <1>17, <2>2, <3>2
  <2> QED
    BY <1>15, <2>1, <2>2
<1>19. ASSUME NEW m \in 1..Len(net)
       PROVE  FrameOf(net[m]) \in 1..K /\ Before(FrameOf(net[m]), First(net[m]), K, x) /\ First(net[m]) \in Nat
  <2>1. PICK j \in Nat : IsPacket(T, net[m], j)
    BY DEF Holds, NetOK
  <2>2. codec = "h264"
    <3>1. net # <<>>
      BY NotEmpty
    <3> QED
      BY <3>1 DEF Holds, NetOK
  <2>3. PICK k \in 1..K : k = FrameOf(net[m])
    BY <1>2, <2>1 DEF IsPacket
  <2>a. PICK l : l = LenOf(k)
    OBVIOUS
  <2>4. l \in Nat /\ FirstByte(l) \in 1..l /\ j \in 1..PacketCount(l) /\ First(net[m]) = From(l, j)
    BY <1>1, <2>1, <2>2, <2>3, <2>a, PacketReads DEF Holds
  <2>5. From(l, j) \in Nat
    BY <2>4, Extents
  <2>6. Before(FrameOf(net[m]), First(net[m]), Len(frames), From(LenOf(Len(frames)), i))
    BY <1>1 DEF Holds, NetOK
  <2> QED
    BY <1>2, <1>11, <2>3, <2>4, <2>5, <2>6
<1>20. NetOK(T)'
  <2>1. \A m \in 1..Len(net') : \E j \in Nat : IsPacket(T, net[m], j)'
    <3> TAKE m \in 1..Len(net')
    <3>1. \E j \in Nat : IsPacket(T, net'[m], j)
      <4>1. CASE m \in 1..Len(net)
        BY <1>18, <4>1 DEF Holds, NetOK
      <4>2. CASE codec = "h264" /\ net'[m] = p
        BY <1>4, <1>16, <4>2
      <4> QED
        BY <1>18, <4>1, <4>2
    <3>2. PICK q : q = net'[m]
      OBVIOUS
    <3>3. PICK j \in Nat : IsPacket(T, q, j)
      BY <3>1, <3>2
    <3>4. IsPacket(T, q, j)'
      BY <1>1, <1>2, <1>7, <3>3, PacketKept
    <3> QED
      BY <3>2, <3>4
  <2>2. ASSUME NEW l \in 1..Len(net'), NEW m \in 1..Len(net'), l < m
        PROVE  Before(FrameOf(net'[l]), First(net'[l]), FrameOf(net'[m]), First(net'[m]))
    <3>1. l \in 1..Len(net)
      <4>1. l \in 1..Len(net) \/ l = Len(net')
        BY <1>18
      <4>2. Len(net') \in Nat
        BY <1>18
      <4>3. l # Len(net')
        BY ONLY <2>2, <4>2, m \in 1..Len(net')
      <4> QED
        BY ONLY <4>1, <4>3
    <3>2. CASE m \in 1..Len(net)
      BY <1>18, <2>2, <3>1, <3>2 DEF Holds, NetOK
    <3>3. CASE codec = "h264" /\ net'[m] = p
      <4>1. FrameOf(net'[m]) = K /\ First(net'[m]) = x /\ net'[l] = net[l]
        BY <1>16, <1>18, <3>1, <3>3
      <4> QED
        BY <1>19, <3>1, <4>1
    <3> QED
      BY <1>18, <3>2, <3>3
  <2>3. ASSUME sender' = "packet", NEW m \in 1..Len(net')
        PROVE  Before(FrameOf(net'[m]), First(net'[m]), Len(frames), y)
    <3>0. x < y
      BY <1>9, <1>13, <2>3
    <3>1. CASE m \in 1..Len(net)
      <4>1. FrameOf(net[m]) \in Nat /\ Before(FrameOf(net[m]), First(net[m]), K, x) /\ First(net[m]) \in Nat
        BY <1>19, <3>1
      <4>2. Before(FrameOf(net[m]), First(net[m]), K, y)
        BY <3>0, <4>1, BeforeTransitive
      <4> QED
        BY <1>2, <1>18, <3>1, <4>2
    <3>2. CASE codec = "h264" /\ net'[m] = p
      BY <1>2, <1>16, <3>0, <3>2 DEF Before
    <3> QED
      BY <1>18, <3>1, <3>2
  <2>4. codec' # "h264" => net' = <<>>
    BY <1>1, <1>15 DEF Holds, NetOK
  <2> QED
    BY <1>1, <1>9, <1>14, <1>18, <2>1, <2>2, <2>3, <2>4 DEF NetOK
<1>21. Forward
  <2> SUFFICES ASSUME NEW k \in Nat, NEW z \in Nat, k <= Len(frames), Behind(k, z) PROVE Behind(k, z)'
    BY DEF Forward
  <2>1. Before(k, z, K, x)
    BY <1>1, <1>2, <1>11 DEF Behind
  <2>2. ASSUME NEW m \in 1..Len(net') PROVE Before(k, z, FrameOf(net'[m]), First(net'[m]))
    <3>1. CASE m \in 1..Len(net)
      BY <1>18, <3>1 DEF Behind
    <3>2. CASE codec = "h264" /\ net'[m] = p
      BY <1>16, <2>1, <3>2
    <3> QED
      BY <1>18, <3>1, <3>2
  <2>3. ASSUME sender' = "packet" PROVE Before(k, z, Len(frames), y)
    <3>0. x < y
      BY <1>9, <1>13, <2>3
    <3>1. Before(k, z, K, y)
      BY <2>1, <3>0, BeforeTransitive
    <3> QED
      BY <1>2, <3>1
  <2> QED
    BY <1>1, <1>9, <1>14, <2>2, <2>3 DEF Behind
<1>22. MuxOK(T)'
  <2>1. LenOf(Len(frames))' = LenOf(Len(frames)) /\ CountOf(Len(frames))' = CountOf(Len(frames))
    BY <1>1 DEF LenOf, CountOf, FrameLength, PacketCount, FirstByte, Fragmented
  <2>2. Loaded(Len(frames), LenOf(Len(frames)), T[Len(frames)])' <=> Loaded(Len(frames), LenOf(Len(frames)), T[Len(frames)])
    BY <1>1 DEF Loaded, Packets, Packet, PacketCount, FirstByte, Fragmented, PayloadHeader, LenOf, FrameLength
  <2>3. sender' = "packet" => i' \in 1..CountOf(Len(frames))
    BY <1>1, <1>2, <1>4, <1>9
  <2> QED
    BY <1>1, <2>1, <2>2, <2>3 DEF Holds, MuxOK
<1>23. faults = 0 /\ others = 0 => \A m \in 1..Len(net') : latest <= FrameOf(net'[m])
  <2> SUFFICES ASSUME faults = 0, others = 0, NEW m \in 1..Len(net') PROVE latest <= FrameOf(net'[m])
    OBVIOUS
  <2>1. CASE m \in 1..Len(net)
    BY <1>18, <2>1 DEF Holds, Lone, CutsOK
  <2>2. CASE codec = "h264" /\ net'[m] = p
    <3>1. latest <= Len(frames)
      BY DEF Holds, RestOK
    <3> QED
      BY <1>2, <1>16, <2>2, <3>1
  <2> QED
    BY <1>18, <2>1, <2>2
<1>24. ASSUME others = 0 PROVE Lone(T)'
  <2>1. UNCHANGED <<demux, delivered, seen, latest, faults, others, jumped>>
    BY <1>1 DEF receiving
  <2> QED
    BY <1>7, <1>8, <1>21, <1>23, <1>24, <2>1, ReceiverKept
<1>25. Clock(T)'
  BY DEF Holds, Clock
<1>26. StampsOK(T)' /\ others' = others
  BY <1>1, StampsKept DEF Holds, receiving
<1> QED
  BY <1>8, <1>20, <1>22, <1>24, <1>25, <1>26 DEF Holds

(* Where the packets that stay were before the n-th was taken away. *)
Was(m, n) == IF m < n THEN m ELSE m + 1

(* The packets that stay are the others, in their order. *)
LEMMA OthersStay ==
  ASSUME net \in Seq(Seq(Unit)), NEW n \in 1..Len(net), net' = RemoveAt(net, n)
  PROVE  /\ net' \in Seq(Seq(Unit)) /\ Len(net') \in Nat
         /\ \A m \in 1..Len(net') : Was(m, n) \in 1..Len(net) /\ net'[m] = net[Was(m, n)] /\ (n = 1 => Was(m, n) > 1)
         /\ \A l, m \in 1..Len(net') : l < m => Was(l, n) < Was(m, n)
<1>1. /\ net' \in Seq(Seq(Unit)) /\ Len(net') = Len(net) - 1
      /\ \A j \in 1..(Len(net) - 1) : net'[j] = IF j < n THEN net[j] ELSE net[j + 1]
  BY RemoveAtLemma
<1>2. Len(net) \in Nat /\ Len(net') \in Nat
  BY <1>1
<1>3. ASSUME NEW m \in 1..Len(net')
      PROVE  Was(m, n) \in 1..Len(net) /\ net'[m] = net[Was(m, n)] /\ (n = 1 => Was(m, n) > 1)
  <2>1. m \in 1..(Len(net) - 1)
    BY <1>1
  <2>2. net'[m] = net[Was(m, n)]
    BY <1>1, <2>1 DEF Was
  <2>3. Was(m, n) \in 1..Len(net) /\ (n = 1 => Was(m, n) > 1)
    BY <1>2, <2>1 DEF Was
  <2> QED
    BY <2>2, <2>3
<1>4. \A l, m \in 1..Len(net') : l < m => Was(l, n) < Was(m, n)
  BY <1>2 DEF Was
<1> QED
  BY <1>1, <1>2, <1>3, <1>4

(* The sender's part of the invariant, when packets only leave the network. *)
LEMMA NetShrinks ==
  ASSUME NEW T, Holds(T), NEW n \in 1..Len(net), net' = net \/ net' = RemoveAt(net, n),
         UNCHANGED <<codec, frames, mux, sender, i>>
  PROVE  /\ MuxOK(T)' /\ NetOK(T)' /\ Grown /\ Forward
         /\ faults = 0 /\ others = 0 => \A m \in 1..Len(net') : latest <= FrameOf(net'[m])
<1>1. Len(frames) \in Nat /\ net \in Seq(Seq(Unit)) /\ Len(net) \in Nat
  BY DEF Holds, RestOK, NetOK
<1>2. Grown
  BY <1>1 DEF Grown
<1>3. /\ net' \in Seq(Seq(Unit))
      /\ \A m \in 1..Len(net') : \E a \in 1..Len(net) : net'[m] = net[a]
      /\ \A l, m \in 1..Len(net') : l < m => \E a, b \in 1..Len(net) : a < b /\ net'[l] = net[a] /\ net'[m] = net[b]
  <2>1. CASE net' = net
    BY <1>1, <2>1
  <2>2. CASE net' = RemoveAt(net, n)
    <3>1. /\ net' \in Seq(Seq(Unit)) /\ Len(net') \in Nat
          /\ \A m \in 1..Len(net') : Was(m, n) \in 1..Len(net) /\ net'[m] = net[Was(m, n)]
          /\ \A l, m \in 1..Len(net') : l < m => Was(l, n) < Was(m, n)
      BY <1>1, <2>2, OthersStay
    <3> QED
      BY <3>1
  <2> QED
    BY <2>1, <2>2
<1>4. From(LenOf(Len(frames)), i)' = From(LenOf(Len(frames)), i)
  BY DEF From, LenOf, FrameLength, FirstByte, Fragmented
<1>5. MuxOK(T)'
  <2>1. LenOf(Len(frames))' = LenOf(Len(frames)) /\ CountOf(Len(frames))' = CountOf(Len(frames))
    BY DEF LenOf, CountOf, FrameLength, PacketCount, FirstByte, Fragmented
  <2>2. Loaded(Len(frames), LenOf(Len(frames)), T[Len(frames)])' <=> Loaded(Len(frames), LenOf(Len(frames)), T[Len(frames)])
    BY DEF Loaded, Packets, Packet, PacketCount, FirstByte, Fragmented, PayloadHeader, LenOf, FrameLength
  <2> QED
    BY <2>1, <2>2 DEF Holds, MuxOK
<1>6. NetOK(T)'
  <2>1. \A m \in 1..Len(net') : \E j \in Nat : IsPacket(T, net[m], j)'
    <3> TAKE m \in 1..Len(net')
    <3>1. PICK q : q = net'[m]
      OBVIOUS
    <3>2. PICK j \in Nat : IsPacket(T, q, j)
      BY <1>3, <3>1 DEF Holds, NetOK
    <3>3. IsPacket(T, q, j)'
      BY <1>1, <1>2, <3>2, PacketKept
    <3> QED
      BY <3>1, <3>3
  <2>2. \A l, m \in 1..Len(net') : l < m => Before(FrameOf(net'[l]), First(net'[l]), FrameOf(net'[m]), First(net'[m]))
    BY <1>3 DEF Holds, NetOK
  <2>3. sender' = "packet" =>
          \A m \in 1..Len(net') : Before(FrameOf(net'[m]), First(net'[m]), Len(frames), From(LenOf(Len(frames)), i))
    BY <1>3 DEF Holds, NetOK
  <2>4. codec # "h264" => net' = <<>>
    <3>1. codec = "h264"
      <4>1. net # <<>>
        BY NotEmpty
      <4> QED
        BY <4>1 DEF Holds, NetOK
    <3> QED
      BY <3>1
  <2> QED
    BY <1>3, <1>4, <2>1, <2>2, <2>3, <2>4 DEF NetOK
<1>7. Forward
  <2> SUFFICES ASSUME NEW k \in Nat, NEW x \in Nat, Behind(k, x) PROVE Behind(k, x)'
    BY DEF Forward
  <2>1. \A m \in 1..Len(net') : Before(k, x, FrameOf(net'[m]), First(net'[m]))
    BY <1>3 DEF Behind
  <2> QED
    BY <1>4, <2>1 DEF Behind
<1>8. faults = 0 /\ others = 0 => \A m \in 1..Len(net') : latest <= FrameOf(net'[m])
  BY <1>3 DEF Holds, Lone, CutsOK
<1> QED
  BY <1>2, <1>5, <1>6, <1>7, <1>8

(* A packet is lost. *)
LEMMA LoseKeeps ==
  ASSUME NEW T, Holds(T), NEW n \in 1..Len(net), Lose(n)
  PROVE  Holds(T)'
<1>1. /\ net' = RemoveAt(net, n) /\ UNCHANGED <<codec, frames, mux, sender, i>>
      /\ UNCHANGED <<demux, delivered, seen, latest, faults, others, jumped>> /\ receiver' = receiver
  BY DEF Lose, sending, receiving
<1>2. /\ MuxOK(T)' /\ NetOK(T)' /\ Grown /\ Forward
      /\ faults = 0 /\ others = 0 => \A m \in 1..Len(net') : latest <= FrameOf(net'[m])
  BY <1>1, NetShrinks
<1>3. RestOK'
  BY <1>1 DEF Holds, RestOK
<1>4. others = 0 => Lone(T)'
  BY <1>1, <1>2, <1>3, ReceiverKept
<1>5. Clock(T)'
  BY DEF Holds, Clock
<1>6. StampsOK(T)'
  BY <1>1, StampsKept DEF Holds
<1> QED
  BY <1>1, <1>2, <1>3, <1>4, <1>5, <1>6 DEF Holds

-----------------------------------------------------------------------------
(* setpacket(), whoever sent the packet.                                     *)

(* The bytes that setpacket() copies were sent with the packet's timestamp. *)
Fitting(T, p) ==
  /\ Timestamp(p) \in 0..(TimestampModulus - 1)
  /\ FrameOf(p) \in Nat /\ FrameFits(T, FrameOf(p), Timestamp(p))
  /\ IsFU(p) => AllFit(T, SubSeq(p, 3, Len(p)), Timestamp(p))
  /\ ~IsFU(p) /\ ~TooShort(p) => AllFit(T, Tail(p), Timestamp(p)) /\ Len(Tail(p)) > 0

(* One after the other. *)
LEMMA FitsJoin ==
  ASSUME NEW T, NEW ts, NEW a, AllFit(T, a, ts), NEW b, AllFit(T, b, ts), NEW r, Joins(a, b, r)
  PROVE  /\ AllFit(T, r, ts) /\ Len(r) = Len(a) + Len(b)
         /\ Len(a) > 0 => r[1] = a[1]
<1>1. a \in Seq(Unit) /\ b \in Seq(Unit)
  BY DEF AllFit
<1>2. PICK m \in Nat, n \in Nat : m = Len(a) /\ n = Len(b)
  BY <1>1
<1>3. /\ r \in Seq(Unit) /\ Len(r) = m + n
      /\ \A x \in 1..m : r[x] = a[x]
      /\ \A x \in 1..n : r[m + x] = b[x]
  <2>1. IsJoined(Unit, a, m, b, n, r)
    BY <1>1, <1>2, ConcatIs
  <2> QED
    BY <2>1 DEF IsJoined
<1>4. ASSUME NEW y \in 1..Len(r) PROVE FrameFits(T, r[y][2], ts)
  <2>1. y \in 1..m \/ (y - m \in 1..n /\ m + (y - m) = y)
    BY <1>3
  <2>2. CASE y \in 1..m
    BY <1>2, <1>3, <2>2 DEF AllFit
  <2>3. CASE y - m \in 1..n /\ m + (y - m) = y
    <3>1. PICK x \in 1..n : m + x = y
      BY <2>3
    <3>2. r[y] = b[x]
      BY <1>3, <3>1
    <3> QED
      BY <1>2, <3>2 DEF AllFit
  <2> QED
    BY <2>1, <2>2, <2>3
<1>5. m > 0 => r[1] = a[1]
  <2>1. m > 0 => 1 \in 1..m
    OBVIOUS
  <2> QED
    BY <1>3, <2>1
<1> QED
  BY <1>2, <1>3, <1>4, <1>5 DEF AllFit

(* What setpacket() puts in front. *)
LEMMA FitsFront ==
  ASSUME NEW T, NEW ts, NEW k \in Nat, FrameFits(T, k, ts)
  PROVE  /\ AllFit(T, <<Start, <<"byte", k, 1>> >>, ts) /\ Len(<<Start, <<"byte", k, 1>> >>) = 2
         /\ <<Start, <<"byte", k, 1>> >>[1] = Start
         /\ AllFit(T, <<Start>>, ts) /\ Len(<<Start>>) = 1 /\ <<Start>>[1] = Start
         /\ AllFit(T, <<>>, ts) /\ Len(<<>>) = 0
<1>1. PICK u \in Unit : u = <<"byte", k, 1>> /\ u[2] = k
  <2>1. <<"byte", k, 1>> \in Unit /\ <<"byte", k, 1>>[2] = k
    BY DEF Unit
  <2> QED
    BY <2>1
<1>2. PICK v \in Unit : v = Start /\ v[2] = 0
  <2>1. Start \in Unit /\ Start[2] = 0
    BY DEF Unit, Start
  <2> QED
    BY <2>1
<1>3. FrameFits(T, v[2], ts) /\ FrameFits(T, u[2], ts)
  BY <1>1, <1>2 DEF FrameFits
<1>4. AllFit(T, <<v, u>>, ts) /\ Len(<<v, u>>) = 2 /\ <<v, u>>[1] = v
  <2>1. <<v, u>> \in Seq(Unit) /\ Len(<<v, u>>) = 2 /\ <<v, u>>[1] = v /\ <<v, u>>[2] = u
    OBVIOUS
  <2>2. \A n \in 1..2 : n = 1 \/ n = 2
    OBVIOUS
  <2> QED
    BY <1>3, <2>1, <2>2 DEF AllFit
<1>5. AllFit(T, <<v>>, ts) /\ Len(<<v>>) = 1 /\ <<v>>[1] = v
  <2>1. <<v>> \in Seq(Unit) /\ Len(<<v>>) = 1 /\ <<v>>[1] = v
    OBVIOUS
  <2>2. \A n \in 1..1 : n = 1
    OBVIOUS
  <2> QED
    BY <1>3, <2>1, <2>2 DEF AllFit
<1>6. AllFit(T, <<>>, ts) /\ Len(<<>>) = 0
  <2>1. <<>> \in Seq(Unit)
    OBVIOUS
  <2>2. Len(<<>>) = 0 /\ 1..0 = {}
    OBVIOUS
  <2> QED
    BY <2>1, <2>2 DEF AllFit
<1> QED
  BY <1>1, <1>2, <1>4, <1>5, <1>6

(* What setpacket() appends fits. *)
LEMMA AppendedFits ==
  ASSUME NEW T, NEW p, Fitting(T, p), ~TooShort(p), NEW ts, ts = Timestamp(p),
         NEW b, AllFit(T, b, ts), b # <<>> => Stamped(T, b, ts), NEW r, r = Appended(b, p)
  PROVE  r \in Seq(Unit) /\ (r # <<>> => Stamped(T, r, ts))
<1>1. PICK k \in Nat : k = FrameOf(p) /\ FrameFits(T, k, ts)
  BY DEF Fitting
<1>2. b \in Seq(Unit) /\ (b # <<>> => Len(b) > 1 /\ b[1] = Start)
  BY DEF AllFit, Stamped
<1>a. Len(b) \in Nat /\ (b = <<>> => Len(b) = 0)
  BY <1>2
<1>3. CASE IsFU(p)
  <2>1. PICK x : x = IF b = <<>> THEN <<Start, <<"byte", k, 1>> >> ELSE <<>>
    OBVIOUS
  <2>2. PICK c : c = b \o x /\ Joins(b, x, c)
    BY DEF Joins
  <2>3. PICK y : y = SubSeq(p, 3, Len(p)) /\ AllFit(T, y, ts)
    BY <1>3 DEF Fitting
  <2>4. Joins(c, y, r)
    BY <1>1, <1>3, <2>1, <2>2, <2>3 DEF Appended, Joins
  <2>5. AllFit(T, x, ts)
    BY <1>1, <2>1, FitsFront
  <2>6. AllFit(T, c, ts) /\ Len(c) = Len(b) + Len(x) /\ (Len(b) > 0 => c[1] = b[1])
    BY <2>2, <2>5, FitsJoin
  <2>7. Len(c) > 1 /\ c[1] = Start
    <3>1. CASE b = <<>>
      <4>1. x = <<Start, <<"byte", k, 1>> >>
        BY <2>1, <3>1
      <4>2. Len(x) = 2 /\ x[1] = Start /\ x \in Seq(Unit)
        BY <1>1, <2>5, <4>1, FitsFront DEF AllFit
      <4>3. c = x
        BY <2>2, <3>1, <4>2
      <4> QED
        BY <4>2, <4>3
    <3>2. CASE b # <<>>
      <4>1. Len(x) = 0
        BY <2>1, <3>2
      <4> QED
        BY <1>2, <1>a, <2>6, <3>2, <4>1
    <3> QED
      BY <3>1, <3>2
  <2>8. AllFit(T, r, ts) /\ Len(r) = Len(c) + Len(y) /\ (Len(c) > 0 => r[1] = c[1])
    <3>1. AllFit(T, y, ts)
      BY <2>3
    <3>2. AllFit(T, c, ts)
      BY <2>6
    <3> QED
      BY ONLY <2>4, <3>1, <3>2, FitsJoin
  <2>9. Len(c) \in Nat /\ Len(y) \in Nat
    BY <2>3, <2>6 DEF AllFit
  <2>10. Len(r) > 1 /\ r[1] = Start
    BY <2>7, <2>8, <2>9
  <2> QED
    BY <2>8, <2>10 DEF Stamped, AllFit
<1>4. CASE ~IsFU(p) /\ Known(p)
  <2>1. PICK x : x = <<Start>> /\ AllFit(T, x, ts) /\ Len(x) = 1 /\ x[1] = Start
    BY <1>1, FitsFront
  <2>2. PICK c : c = b \o x /\ Joins(b, x, c)
    BY DEF Joins
  <2>3. PICK y : y = Tail(p) /\ AllFit(T, y, ts) /\ Len(y) > 0
    BY <1>4 DEF Fitting
  <2>4. Joins(c, y, r)
    BY <1>4, <2>1, <2>2, <2>3 DEF Appended, Joins
  <2>5. AllFit(T, c, ts) /\ Len(c) = Len(b) + Len(x) /\ (Len(b) > 0 => c[1] = b[1])
    BY <2>1, <2>2, FitsJoin
  <2>6. Len(c) > 0 /\ c[1] = Start
    <3>1. CASE b = <<>>
      <4>1. x \in Seq(Unit)
        BY <2>1 DEF AllFit
      <4>2. c = x
        BY <2>2, <3>1, <4>1
      <4> QED
        BY <2>1, <4>2
    <3>2. CASE b # <<>>
      BY <1>2, <1>a, <2>1, <2>5, <3>2
    <3> QED
      BY <3>1, <3>2
  <2>7. AllFit(T, r, ts) /\ Len(r) = Len(c) + Len(y) /\ (Len(c) > 0 => r[1] = c[1])
    <3>1. AllFit(T, y, ts)
      BY <2>3
    <3>2. AllFit(T, c, ts)
      BY <2>5
    <3> QED
      BY ONLY <2>4, <3>1, <3>2, FitsJoin
  <2>8. Len(c) \in Nat /\ Len(y) \in Nat
    BY <2>3, <2>5 DEF AllFit
  <2>9. Len(r) > 1 /\ r[1] = Start
    BY <2>3, <2>6, <2>7, <2>8
  <2> QED
    BY <2>7, <2>9 DEF Stamped, AllFit
<1>5. CASE ~IsFU(p) /\ ~Known(p)
  <2>1. r = b
    BY <1>5 DEF Appended
  <2> QED
    BY <1>2, <2>1
<1> QED
  BY <1>3, <1>4, <1>5

(* setpacket() keeps frames with different timestamps apart. *)
LEMMA SetpacketKeeps ==
  ASSUME NEW T, Holds(T), NEW p, Fitting(T, p), setpacket(p)
  PROVE  /\ StampsOK(T)'
         /\ demux'.rtp_buffer \in Seq(Unit) /\ demux'.timestamp \in 0..(TimestampModulus - 1)
         /\ delivered' \in Seq([timestamp : 0..(TimestampModulus - 1), data : Seq(Unit)])
<1>1. /\ demux.rtp_buffer \in Seq(Unit) /\ demux.timestamp \in 0..(TimestampModulus - 1)
      /\ delivered \in Seq([timestamp : 0..(TimestampModulus - 1), data : Seq(Unit)])
      /\ StampsOK(T)
  BY DEF Holds, RestOK
<1>2. CASE TooShort(p) \/ Late(p)
  <2>1. demux' = demux /\ delivered' = delivered
    BY <1>2 DEF setpacket
  <2>2. StampsOK(T)'
    BY <1>1, <2>1, StampsKept
  <2> QED
    BY <1>1, <2>1, <2>2
<1>3. CASE ~TooShort(p) /\ ~Late(p)
  <2>1. PICK ts \in 0..(TimestampModulus - 1) : ts = Timestamp(p)
    BY DEF Fitting
  <2>2. PICK b \in Seq(Unit) : b = demux.rtp_buffer
    BY <1>1
  <2>3. PICK t \in 0..(TimestampModulus - 1) : t = demux.timestamp
    BY <1>1
  <2>4. b # <<>> => Stamped(T, b, t)
    BY <1>1, <2>2, <2>3 DEF StampsOK
  <2>5. PICK c : c = IF Newer(p) THEN <<>> ELSE b
    OBVIOUS
  <2>6. PICK r : r = Appended(c, p)
    OBVIOUS
  <2>7. /\ demux' = [timestamp |-> ts, rtp_buffer |-> r]
        /\ delivered' = IF Newer(p) THEN Append(delivered, [timestamp |-> t, data |-> b]) ELSE delivered
    BY <1>3, <2>1, <2>2, <2>3, <2>5, <2>6 DEF setpacket
  <2>8. Newer(p) => b # <<>>
    <3> SUFFICES ASSUME b = <<>> PROVE ~Newer(p)
      OBVIOUS
    <3>1. Current(p) = ts
      BY <2>1, <2>2 DEF Current
    <3> QED
      BY <2>1, <3>1, TimestampsAssumption DEF Newer
  <2>9. ~Newer(p) /\ b # <<>> => t = ts
    BY <1>3, <2>1, <2>2, <2>3 DEF Late, Current
  <2>10. AllFit(T, c, ts) /\ (c # <<>> => Stamped(T, c, ts))
    <3>1. AllFit(T, <<>>, ts)
      <4>1. <<>> \in Seq(Unit)
        OBVIOUS
      <4>2. 1..Len(<<>>) = {}
        OBVIOUS
      <4> QED
        BY <4>1, <4>2 DEF AllFit
    <3>2. CASE c = <<>>
      BY <3>1, <3>2
    <3>3. CASE c # <<>>
      <4>1. c = b /\ Stamped(T, b, ts)
        BY <2>4, <2>5, <2>9, <3>3
      <4> QED
        BY <4>1 DEF Stamped
    <3> QED
      BY <3>2, <3>3
  <2>11. r \in Seq(Unit) /\ (r # <<>> => Stamped(T, r, ts))
    BY <1>3, <2>1, <2>6, <2>10, AppendedFits
  <2>12. demux'.rtp_buffer = r /\ demux'.timestamp = ts
    BY <2>7
  <2>13. /\ delivered' \in Seq([timestamp : 0..(TimestampModulus - 1), data : Seq(Unit)])
         /\ \A n \in 1..Len(delivered') : Stamped(T, delivered'[n].data, delivered'[n].timestamp)
    <3>1. \A n \in 1..Len(delivered) : Stamped(T, delivered[n].data, delivered[n].timestamp)
      BY <1>1 DEF StampsOK
    <3>2. CASE ~Newer(p)
      <4>1. delivered' = delivered
        BY <2>7, <3>2
      <4> QED
        BY <1>1, <3>1, <4>1
    <3>3. CASE Newer(p)
      <4>1. PICK e \in [timestamp : 0..(TimestampModulus - 1), data : Seq(Unit)] :
                   e = [timestamp |-> t, data |-> b] /\ e.data = b /\ e.timestamp = t
        <5>1. [timestamp |-> t, data |-> b] \in [timestamp : 0..(TimestampModulus - 1), data : Seq(Unit)]
          OBVIOUS
        <5>2. [timestamp |-> t, data |-> b].data = b /\ [timestamp |-> t, data |-> b].timestamp = t
          OBVIOUS
        <5> QED
          BY <5>1, <5>2
      <4>2. delivered' = Append(delivered, e)
        BY <2>7, <3>3, <4>1
      <4>3. PICK d : d = delivered'
        OBVIOUS
      <4>4. /\ d \in Seq([timestamp : 0..(TimestampModulus - 1), data : Seq(Unit)])
            /\ \A m \in 1..Len(d) : (m \in 1..Len(delivered) /\ d[m] = delivered[m]) \/ (m = Len(delivered) + 1 /\ d[m] = e)
        BY <1>1, <4>2, <4>3, AppendElement, SMTT(20)
      <4>5. Stamped(T, e.data, e.timestamp)
        BY <2>4, <2>8, <3>3, <4>1
      <4>6. ASSUME NEW m \in 1..Len(d) PROVE Stamped(T, d[m].data, d[m].timestamp)
        <5>1. CASE m \in 1..Len(delivered) /\ d[m] = delivered[m]
          BY <3>1, <5>1
        <5>2. CASE d[m] = e
          BY <4>5, <5>2
        <5> QED
          BY <4>4, <5>1, <5>2
      <4> QED
        BY <4>3, <4>4, <4>6
    <3> QED
      BY <3>2, <3>3
  <2>14. StampsOK(T)'
    <3>1. ASSUME NEW s, NEW u, Stamped(T, s, u) PROVE Stamped(T, s, u)'
      BY <3>1 DEF Stamped, AllFit, FrameFits, OtherFrame
    <3> QED
      BY <2>11, <2>12, <2>13, <3>1 DEF StampsOK
  <2> QED
    BY <2>1, <2>11, <2>12, <2>13, <2>14
<1> QED
  BY <1>2, <1>3

(* The file's own packets. *)
LEMMA OwnFits ==
  ASSUME NEW T, Holds(T), codec = "h264", NEW p, NEW j, IsPacket(T, p, j)
  PROVE  Fitting(T, p)
<1>1. codec \in Codec /\ frames \in Seq(Frame) /\ Len(frames) <= MaxFrames /\ Clock(T) /\ Len(frames) \in Nat
  BY DEF Holds, RestOK
<1>2. PICK k, len : k = FrameOf(p) /\ len = LenOf(k)
  OBVIOUS
<1>3. /\ k \in Nat \ {0} /\ k <= Len(frames) /\ len \in Nat /\ FirstByte(len) \in 1..len
      /\ j \in 1..PacketCount(len) /\ Shape(p, k, len, T[k], j)
  BY <1>1, <1>2, PacketReads
<1>4. k \in 1..MaxFrames /\ k \in 1..(MaxFrames + 1) /\ k \in Nat
  BY <1>1, <1>3, BoundsAssumption
<1>5. PICK ts \in 0..(TimestampModulus - 1) : ts = T[k] /\ ts = Timestamp(p)
  BY <1>1, <1>3, <1>4, StampOK DEF Shape
<1>6. FrameFits(T, k, ts)
  BY <1>4, <1>5 DEF FrameFits
<1>7. ASSUME NEW from \in Nat, NEW to \in Nat, from <= to
      PROVE  AllFit(T, Bytes(k, from, to), ts) /\ Len(Bytes(k, from, to)) > 0
  <2>1. PICK n \in Nat : n = to - from + 1 /\ n > 0
    BY <1>7
  <2>2. PICK s : s = Bytes(k, from, to)
    OBVIOUS
  <2>3. IsBytes(s, k, from, n)
    <3>1. from <= to + 1
      BY <1>7
    <3> QED
      BY <1>4, <2>1, <2>2, <3>1, BytesAre
  <2>4. s \in Seq(Unit) /\ Len(s) = n /\ \A x \in 1..n : s[x][2] = k
    BY <2>3 DEF IsBytes
  <2> QED
    BY <1>6, <2>1, <2>2, <2>4 DEF AllFit
<1>8. ASSUME IsFU(p) PROVE AllFit(T, SubSeq(p, 3, Len(p)), ts)
  <2>1. PICK from \in Nat, to \in Nat : from = From(len, j) /\ to = Top(len, j) /\ from <= to
    BY <1>3, Extents
  <2>2. SubSeq(p, 3, Len(p)) = Bytes(k, from, to)
    BY <1>3, <1>8, <2>1 DEF Shape
  <2> QED
    BY <1>7, <2>1, <2>2
<1>9. ASSUME ~IsFU(p) PROVE AllFit(T, Tail(p), ts) /\ Len(Tail(p)) > 0
  <2>1. PICK one \in Nat : one = 1 /\ one <= len
    BY <1>3
  <2>2. Tail(p) = Bytes(k, one, len)
    BY <1>3, <1>9, <2>1 DEF Shape
  <2> QED
    BY <1>3, <1>7, <2>1, <2>2
<1> QED
  BY <1>2, <1>4, <1>5, <1>6, <1>8, <1>9 DEF Fitting

(* Another participant's packets. *)
LEMMA OtherFits ==
  ASSUME NEW T, NEW ts \in OtherTimestamp, NEW kind \in {"fu", "byte", "skip"}
  PROVE  Fitting(T, OtherPacket(ts, kind))
<1>1. ts \in 0..(TimestampModulus - 1) /\ ts \in Nat
  BY OthersAssumption, TimestampsAssumption
<1>2. PICK k \in Nat : k = OtherFrame(ts)
  BY <1>1, BoundsAssumption DEF OtherFrame
<1>3. PICK u \in Unit, v \in Unit, w \in Unit :
             /\ u = <<"rtp", ts, 0>> /\ v = <<kind, k, 1>> /\ w = <<"byte", k, 2>>
             /\ u[2] = ts /\ v[2] = k /\ w[2] = k
  <2>1. <<"rtp", ts, 0>> \in Unit /\ <<kind, k, 1>> \in Unit /\ <<"byte", k, 2>> \in Unit
    BY <1>1, <1>2 DEF Unit
  <2>2. <<"rtp", ts, 0>>[2] = ts /\ <<kind, k, 1>>[2] = k /\ <<"byte", k, 2>>[2] = k
    OBVIOUS
  <2> QED
    BY <2>1, <2>2
<1>4. PICK p : p = <<u, v, w>>
  OBVIOUS
<1>5. OtherPacket(ts, kind) = p
  BY <1>2, <1>3, <1>4 DEF OtherPacket
<1>6. p \in Seq(Unit) /\ Len(p) = 3 /\ p[1] = u /\ p[2] = v /\ p[3] = w
  BY <1>4
<1>7. Timestamp(p) = ts /\ FrameOf(p) = k
  BY <1>3, <1>6 DEF Timestamp, FrameOf
<1>8. FrameFits(T, k, ts)
  BY <1>2 DEF FrameFits
<1>9. AllFit(T, SubSeq(p, 3, Len(p)), ts)
  <2>1. PICK q : q = SubSeq(p, 3, Len(p))
    OBVIOUS
  <2>2. q \in Seq(Unit) /\ Len(q) = 1 /\ q[1] = w
    BY <1>6, <2>1
  <2>3. \A n \in 1..1 : n = 1
    OBVIOUS
  <2> QED
    BY <1>3, <1>8, <2>1, <2>2, <2>3 DEF AllFit
<1>10. AllFit(T, Tail(p), ts) /\ Len(Tail(p)) > 0
  <2>1. PICK q : q = Tail(p)
    OBVIOUS
  <2>2. q \in Seq(Unit) /\ Len(q) = 2 /\ q[1] = v /\ q[2] = w
    <3>1. <<v, w>> \in Seq(Unit) /\ Len(<<v, w>>) = 2 /\ <<v, w>>[1] = v /\ <<v, w>>[2] = w
      BY ONLY v \in Unit, w \in Unit
    <3>2. Tail(<<u, v, w>>) = <<v, w>>
      BY ONLY u \in Unit, v \in Unit, w \in Unit
    <3>3. q = <<v, w>>
      BY <1>4, <2>1, <3>2
    <3> QED
      BY <3>1, <3>3
  <2>3. \A n \in 1..2 : n = 1 \/ n = 2
    OBVIOUS
  <2>4. Len(q) > 0
    BY <2>2
  <2>5. AllFit(T, q, ts)
    BY <1>3, <1>8, <2>2, <2>3 DEF AllFit
  <2> QED
    BY <2>1, <2>4, <2>5
<1> QED
  BY <1>1, <1>2, <1>5, <1>7, <1>8, <1>9, <1>10 DEF Fitting

-----------------------------------------------------------------------------
(* recvfile().                                                               *)

(* What setpacket() does with a packet: it refuses it, begins the packet's frame, *)
(* or continues it.                                                           *)
Refused(p) == (TooShort(p) \/ Late(p)) /\ UNCHANGED <<demux, delivered>>
Begun(T, p) ==
  /\ ~TooShort(p)
  /\ demux' = [timestamp |-> T[FrameOf(p)], rtp_buffer |-> Appended(<<>>, p)]
  /\ \/ demux.rtp_buffer = <<>> /\ delivered' = delivered
     \/ /\ demux.rtp_buffer # <<>> /\ demux.rtp_buffer[2][2] # FrameOf(p)
        /\ delivered' = Append(delivered, [timestamp |-> demux.timestamp, data |-> demux.rtp_buffer])
Continues(T, p) ==
  /\ ~TooShort(p) /\ demux.rtp_buffer # <<>> /\ demux.rtp_buffer[2][2] = FrameOf(p)
  /\ demux' = [timestamp |-> T[FrameOf(p)], rtp_buffer |-> Appended(demux.rtp_buffer, p)]
  /\ delivered' = delivered

(* A packet of frame k on its way. *)
LEMMA OnItsWay ==
  ASSUME NEW T, Holds(T), NEW n \in 1..Len(net), NEW p, p = net[n]
  PROVE  codec = "h264" /\ \E j \in Nat : IsPacket(T, p, j)
<1>1. net # <<>>
  BY NotEmpty
<1> QED
  BY <1>1 DEF Holds, NetOK

(* There is nothing else setpacket() does. *)
LEMMA Outcomes ==
  ASSUME NEW T, Holds(T), others = 0, codec = "h264", NEW p, NEW j, IsPacket(T, p, j), setpacket(p)
  PROVE  Refused(p) \/ Begun(T, p) \/ Continues(T, p)
<1>1. codec \in Codec /\ frames \in Seq(Frame) /\ Len(frames) <= MaxFrames /\ Clock(T)
  BY DEF Holds, RestOK
<1>2. PICK k, len : k = FrameOf(p) /\ len = LenOf(k)
  OBVIOUS
<1>3. k \in Nat \ {0} /\ k <= Len(frames) /\ T[k] \in Nat /\ Timestamp(p) = T[k]
  BY <1>1, <1>2, PacketReads DEF Shape
<1>4. CASE TooShort(p) \/ Late(p)
  BY <1>4 DEF setpacket, Refused
<1>5. CASE ~TooShort(p) /\ ~Late(p)
  <2>1. /\ demux' = [timestamp |-> T[k],
                     rtp_buffer |-> Appended(IF Newer(p) THEN <<>> ELSE demux.rtp_buffer, p)]
        /\ delivered' = IF Newer(p)
                        THEN Append(delivered, [timestamp |-> demux.timestamp, data |-> demux.rtp_buffer])
                        ELSE delivered
    BY <1>3, <1>5 DEF setpacket
  <2>2. CASE demux.rtp_buffer = <<>>
    <3>1. Current(p) = T[k]
      BY <1>3, <2>2 DEF Current
    <3>2. ~Newer(p)
      BY <1>3, <3>1, TimestampsAssumption DEF Newer
    <3> QED
      BY <1>2, <1>5, <2>1, <2>2, <3>2 DEF Begun
  <2>3. CASE demux.rtp_buffer # <<>>
    <3>1. PICK l \in 1..Len(frames) : l = demux.rtp_buffer[2][2] /\ demux.timestamp = T[l]
      BY <2>3 DEF Holds, Lone, BufferOK, Assembles
    <3>2. Current(p) = T[l]
      BY <2>3, <3>1 DEF Current
    <3>3. k \in 1..MaxFrames /\ l \in 1..MaxFrames /\ l \in 1..(MaxFrames + 1)
      BY <1>1, <1>3, BoundsAssumption
    <3>4. T[l] \in Nat
      BY <1>1, <3>3, StampOK
    <3>5. CASE Newer(p)
      <4>1. T[l] # T[k]
        BY <1>3, <3>2, <3>4, <3>5, TimestampsAssumption DEF Newer
      <4>2. l # k
        BY <4>1
      <4> QED
        BY <1>2, <1>5, <2>1, <2>3, <3>1, <3>5, <4>2 DEF Begun
    <3>6. CASE ~Newer(p)
      <4>1. T[l] = T[k]
        BY <1>3, <1>5, <3>2, <3>6 DEF Late
      <4>2. l = k
        BY <1>1, <3>3, <4>1, StampsDiffer
      <4> QED
        BY <1>2, <1>5, <2>1, <2>3, <3>1, <3>6, <4>2 DEF Continues
    <3> QED
      BY <3>5, <3>6
  <2> QED
    BY <2>2, <2>3
<1> QED
  BY <1>4, <1>5

(* Without repeated or overtaken packets everything else comes after this one. *)
LEMMA Passed ==
  ASSUME NEW T, Holds(T), codec = "h264", NEW p, NEW j, IsPacket(T, p, j), NEW n \in 1..Len(net), n = 1,
         p = net[n], net' = RemoveAt(net, n), UNCHANGED <<codec, frames, mux, sender, i>>,
         NEW k, k = FrameOf(p), NEW len, len = LenOf(k)
  PROVE  /\ Behind(k, Top(len, j))'
         /\ \A m \in 1..Len(net') : k <= FrameOf(net'[m])
<1>1. codec \in Codec /\ frames \in Seq(Frame) /\ Len(frames) <= MaxFrames /\ Clock(T) /\ Len(frames) \in Nat
  BY DEF Holds, RestOK
<1>2. /\ k \in Nat \ {0} /\ k <= Len(frames) /\ len \in Nat /\ FirstByte(len) \in 1..len
      /\ j \in 1..PacketCount(len) /\ First(p) = From(len, j)
  BY <1>1, PacketReads
<1>3. PICK x \in Nat, y \in Nat : x = From(len, j) /\ y = Top(len, j) /\ x <= y
  BY <1>2, Extents
<1>4. ASSUME NEW l \in 1..PacketCount(len), x < From(len, l) PROVE y < From(len, l)
  <2>1. From(len, l) \in Nat /\ Top(len, l) \in Nat /\ From(len, l) <= Top(len, l)
    BY <1>2, Extents
  <2>2. j < l \/ j = l \/ l < j
    BY <1>2, Rounds
  <2>3. CASE j < l
    BY <1>2, <1>3, <2>3, Follow
  <2>4. CASE j = l
    BY <1>3, <1>4, <2>1, <2>4
  <2>5. CASE l < j
    <3>1. Top(len, l) < From(len, j)
      BY <1>2, <2>5, Follow
    <3> QED
      BY <1>3, <1>4, <2>1, <3>1
  <2> QED
    BY <2>2, <2>3, <2>4, <2>5
<1>5. net \in Seq(Seq(Unit))
  BY DEF Holds, NetOK
<1>6. /\ \A m \in 1..Len(net') : Was(m, n) \in 1..Len(net) /\ net'[m] = net[Was(m, n)] /\ Was(m, n) > 1
  BY <1>5, OthersStay
<1>7. ASSUME NEW m \in 1..Len(net')
      PROVE  Before(k, y, FrameOf(net'[m]), First(net'[m])) /\ k <= FrameOf(net'[m])
  <2>1. PICK a \in 1..Len(net) : a > 1 /\ net'[m] = net[a]
    BY <1>6
  <2>2. PICK q : q = net[a]
    OBVIOUS
  <2>3. Before(k, x, FrameOf(q), First(q))
    <3>1. n < a
      BY <2>1
    <3>2. Before(FrameOf(net[n]), First(net[n]), FrameOf(net[a]), First(net[a]))
      BY <3>1 DEF Holds, NetOK
    <3> QED
      BY <1>2, <1>3, <2>2, <3>2
  <2>4. PICK h \in Nat : IsPacket(T, q, h)
    BY <2>2 DEF Holds, NetOK
  <2>5. PICK f, g : f = FrameOf(q) /\ g = LenOf(f)
    OBVIOUS
  <2>6. /\ f \in Nat \ {0} /\ f <= Len(frames) /\ g \in Nat /\ FirstByte(g) \in 1..g
        /\ h \in 1..PacketCount(g) /\ First(q) = From(g, h)
    BY <1>1, <2>4, <2>5, PacketReads
  <2>7. CASE k < f
    BY <1>2, <2>1, <2>2, <2>5, <2>6, <2>7 DEF Before
  <2>8. CASE k = f /\ x < First(q)
    <3>1. g = len /\ x < From(len, h) /\ h \in 1..PacketCount(len)
      BY <2>5, <2>6, <2>8
    <3>2. y < From(len, h)
      BY <1>4, <3>1
    <3>3. y < First(q)
      BY <2>6, <3>1, <3>2
    <3>4. k <= f
      BY <1>2, <2>8
    <3> QED
      BY <2>1, <2>2, <2>5, <2>8, <3>3, <3>4 DEF Before
  <2> QED
    BY <2>3, <2>5, <2>7, <2>8 DEF Before
<1>8. ASSUME sender = "packet" PROVE Before(k, y, Len(frames), From(LenOf(Len(frames)), i))
  <2>1. Before(k, x, Len(frames), From(LenOf(Len(frames)), i))
    BY <1>2, <1>3, <1>8 DEF Holds, NetOK
  <2>2. CASE k < Len(frames)
    BY <2>2 DEF Before
  <2>3. CASE k = Len(frames) /\ x < From(LenOf(Len(frames)), i)
    <3>1. i \in 1..PacketCount(len)
      BY <1>8, <2>3 DEF Holds, MuxOK, CountOf
    <3>2. y < From(len, i)
      BY <1>4, <2>3, <3>1
    <3> QED
      BY <2>3, <3>2 DEF Before
  <2> QED
    BY <2>1, <2>2, <2>3 DEF Before
<1>9. From(LenOf(Len(frames)), i)' = From(LenOf(Len(frames)), i)
  BY DEF From, LenOf, FrameLength, FirstByte, Fragmented
<1>10. Behind(k, y)'
  BY <1>7, <1>8, <1>9 DEF Behind
<1>11. Top(len, j)' = Top(len, j)
  BY DEF Top, From, FirstByte, Fragmented
<1> QED
  BY <1>3, <1>7, <1>10, <1>11

(* The variables, after a packet was received. *)
LEMMA ReceiveRest ==
  ASSUME NEW T, Holds(T), NEW n \in 1..Len(net), NEW repeated \in BOOLEAN, Receive(n, repeated),
         NEW p, p = net[n], NEW j, IsPacket(T, p, j), codec = "h264"
  PROVE  RestOK' /\ StampsOK(T)'
<1>1. /\ codec \in Codec /\ frames \in Seq(Frame) /\ Len(frames) <= MaxFrames /\ Clock(T) /\ Len(frames) \in Nat
      /\ others \in 0..MaxOthers
  BY DEF Holds, RestOK
<1>2. PICK k, len : k = FrameOf(p) /\ len = LenOf(k)
  OBVIOUS
<1>3. k \in Nat \ {0} /\ k <= Len(frames) /\ k \in 1..Len(frames) /\ k \in 1..MaxFrames
  <2>1. k \in Nat \ {0} /\ k <= Len(frames)
    BY <1>1, <1>2, PacketReads
  <2> QED
    BY <1>1, <2>1, BoundsAssumption
<1>4. UNCHANGED <<codec, frames, mux, sender, i, receiver, others>> /\ setpacket(p)
  BY DEF Receive, sending
<1>9. /\ StampsOK(T)'
      /\ demux'.rtp_buffer \in Seq(Unit) /\ demux'.timestamp \in 0..(TimestampModulus - 1)
      /\ delivered' \in Seq([timestamp : 0..(TimestampModulus - 1), data : Seq(Unit)])
  BY <1>4, OwnFits, SetpacketKeeps
<1>12. seen' = [seen EXCEPT ![k] = @ + 1] /\ seen' \in [1..MaxFrames -> Nat]
  <2>1. seen' = [seen EXCEPT ![k] = @ + 1]
    BY <1>2 DEF Receive
  <2> QED
    BY <1>3, <2>1, SMTT(20) DEF Holds, RestOK
<1>13. \A m \in 1..MaxFrames : m > Len(frames) => seen'[m] = 0
  BY <1>1, <1>3, <1>12 DEF Holds, RestOK
<1>14. latest' \in 0..Len(frames)
  <2>1. latest' = latest \/ latest' = k
    BY <1>2 DEF Receive
  <2> QED
    BY <1>1, <1>3, <2>1 DEF Holds, RestOK
<1>15. faults' \in 0..MaxFaults
  <2>1. (n > 1 \/ repeated) => faults < MaxFaults
    BY DEF Receive
  <2>2. faults' = faults + IF n > 1 \/ repeated THEN 1 ELSE 0
    BY DEF Receive
  <2>3. faults \in 0..MaxFaults /\ MaxFaults \in Nat
    BY BoundsAssumption DEF Holds, RestOK
  <2>4. CASE n > 1 \/ repeated
    <3>1. faults' = faults + 1 /\ faults < MaxFaults
      BY <2>1, <2>2, <2>4, Zenon
    <3> QED
      BY <2>3, <3>1
  <2>5. CASE ~(n > 1 \/ repeated)
    <3>1. faults' = faults + 0
      BY <2>2, <2>5, Zenon
    <3> QED
      BY <2>3, <3>1
  <2> QED
    BY <2>4, <2>5
<1>16. jumped' \in BOOLEAN
  BY <1>2 DEF Receive, Holds, RestOK
<1>17. RestOK'
  <2>1. sender \in {"frame", "packet", "end"} /\ receiver \in {"starting", "running", "crashed", "ended"}
    BY DEF Holds, RestOK
  <2> QED
    BY <1>1, <1>4, <1>9, <1>12, <1>13, <1>14, <1>15, <1>16, <2>1 DEF RestOK
<1> QED
  BY <1>9, <1>17

(* The frames of one sender, after a packet was received. *)
LEMMA ReceiveTypes ==
  ASSUME NEW T, Holds(T), others = 0, NEW n \in 1..Len(net), NEW repeated \in BOOLEAN, Receive(n, repeated),
         NEW p, p = net[n], NEW j, IsPacket(T, p, j), codec = "h264"
  PROVE  BufferOK(T)' /\ DeliveredOK'
<1>1. /\ codec \in Codec /\ frames \in Seq(Frame) /\ Len(frames) <= MaxFrames /\ Clock(T) /\ Len(frames) \in Nat
      /\ demux.rtp_buffer \in Seq(Unit) /\ demux.timestamp \in 0..(TimestampModulus - 1)
      /\ delivered \in Seq([timestamp : 0..(TimestampModulus - 1), data : Seq(Unit)])
  BY DEF Holds, RestOK
<1>2. PICK k, len : k = FrameOf(p) /\ len = LenOf(k)
  OBVIOUS
<1>3. k \in Nat \ {0} /\ k <= Len(frames) /\ k \in 1..Len(frames) /\ k \in 1..MaxFrames
  <2>1. k \in Nat \ {0} /\ k <= Len(frames)
    BY <1>1, <1>2, PacketReads
  <2> QED
    BY <1>1, <2>1, BoundsAssumption
<1>4. UNCHANGED <<codec, frames, mux, sender, i, receiver>> /\ setpacket(p)
  BY DEF Receive, sending
<1>5. T[k] \in 0..(TimestampModulus - 1)
  <2>1. k \in 1..(MaxFrames + 1)
    BY <1>3, BoundsAssumption
  <2> QED
    BY <1>1, <2>1, StampOK
<1>6. Grown
  BY <1>1, <1>4 DEF Grown
<1>7. PICK b, r, d : b = demux.rtp_buffer /\ r = demux'.rtp_buffer /\ d = delivered'
  OBVIOUS
<1>8. b # <<>> => Assembles(b) /\ demux.timestamp = T[b[2][2]]
  BY <1>7 DEF Holds, Lone, BufferOK
<1>9. /\ r \in Seq(Unit) /\ demux'.timestamp \in 0..(TimestampModulus - 1)
      /\ r # <<>> => Assembles(r) /\ demux'.timestamp = T[r[2][2]]
      /\ d \in Seq([timestamp : 0..(TimestampModulus - 1), data : Seq(Unit)])
      /\ \A m \in 1..Len(d) : Assembles(d[m].data)
  <2>1. \A m \in 1..Len(delivered) : Assembles(delivered[m].data)
    BY DEF Holds, Lone, DeliveredOK
  <2>2. CASE Refused(p)
    <3>1. demux' = demux /\ d = delivered /\ r = b
      BY <1>7, <2>2 DEF Refused
    <3> QED
      BY <1>1, <1>7, <1>8, <2>1, <3>1
  <2>3. CASE Begun(T, p)
    <3>1. demux'.timestamp = T[k] /\ r = Appended(<<>>, p)
      BY <1>2, <1>7, <2>3 DEF Begun
    <3>2. r \in Seq(Unit) /\ (r # <<>> => Of(r, k))
      BY <1>1, <1>2, <3>1, Fresh
    <3>3. \/ d = delivered
          \/ b # <<>> /\ d = Append(delivered, [timestamp |-> demux.timestamp, data |-> b])
      BY <1>7, <2>3 DEF Begun
    <3>4. /\ d \in Seq([timestamp : 0..(TimestampModulus - 1), data : Seq(Unit)])
          /\ \A m \in 1..Len(d) : Assembles(d[m].data)
      <4>1. CASE d = delivered
        BY <1>1, <2>1, <4>1
      <4>2. CASE b # <<>> /\ d = Append(delivered, [timestamp |-> demux.timestamp, data |-> b])
        <5>1. PICK e \in [timestamp : 0..(TimestampModulus - 1), data : Seq(Unit)] :
                     e = [timestamp |-> demux.timestamp, data |-> b] /\ e.data = b
          <6>1. b \in Seq(Unit) /\ demux.timestamp \in 0..(TimestampModulus - 1)
            BY <1>1, <1>7
          <6>2. PICK t \in 0..(TimestampModulus - 1) : t = demux.timestamp
            BY <6>1
          <6>3. [timestamp |-> t, data |-> b] \in [timestamp : 0..(TimestampModulus - 1), data : Seq(Unit)]
            BY <6>1
          <6>4. [timestamp |-> t, data |-> b].data = b
            OBVIOUS
          <6> QED
            BY <6>2, <6>3, <6>4
        <5>2. d = Append(delivered, e)
          BY <4>2, <5>1
        <5>3. /\ d \in Seq([timestamp : 0..(TimestampModulus - 1), data : Seq(Unit)])
              /\ \A m \in 1..Len(d) : (m \in 1..Len(delivered) /\ d[m] = delivered[m]) \/ (m = Len(delivered) + 1 /\ d[m] = e)
          BY <1>1, <5>2, AppendElement, SMTT(20)
        <5>4. Assembles(e.data)
          BY <1>8, <4>2, <5>1
        <5>5. ASSUME NEW m \in 1..Len(d) PROVE Assembles(d[m].data)
          <6>1. CASE m \in 1..Len(delivered) /\ d[m] = delivered[m]
            BY <2>1, <6>1
          <6>2. CASE d[m] = e
            BY <5>4, <6>2
          <6> QED
            BY <5>3, <6>1, <6>2
        <5> QED
          BY <5>3, <5>5
      <4> QED
        BY <3>3, <4>1, <4>2
    <3> QED
      BY <1>5, <3>1, <3>2, <3>4 DEF Of
  <2>4. CASE Continues(T, p)
    <3>1. demux'.timestamp = T[k] /\ r = Appended(b, p) /\ d = delivered /\ b # <<>> /\ b[2][2] = k
      BY <1>2, <1>7, <2>4 DEF Continues
    <3>2. Of(b, k)
      BY <1>8, <3>1 DEF Of
    <3>3. Of(r, k)
      BY <1>1, <1>2, <3>1, <3>2, Continued
    <3>4. Assembles(r) /\ r[2][2] = k /\ r \in Seq(Unit)
      BY <3>3 DEF Of, Assembles
    <3> QED
      BY <1>1, <1>5, <2>1, <3>1, <3>4
  <2> QED
    BY <1>4, <2>2, <2>3, <2>4, Outcomes
<1>10. BufferOK(T)'
  BY <1>1, <1>6, <1>7, <1>9, AssemblesKept DEF BufferOK
<1>11. DeliveredOK'
  BY <1>1, <1>6, <1>7, <1>9, AssemblesKept DEF DeliveredOK
<1> QED
  BY <1>10, <1>11

(* A packet that neither was repeated nor overtook another. *)
LEMMA NoFault ==
  ASSUME NEW T, Holds(T), NEW n \in 1..Len(net), NEW repeated \in BOOLEAN, Receive(n, repeated), faults' = 0
  PROVE  faults = 0 /\ n = 1 /\ net' = RemoveAt(net, n)
<1>1. faults \in Nat /\ n \in Nat \ {0}
  BY BoundsAssumption DEF Holds, RestOK
<1>2. faults' = faults + IF n > 1 \/ repeated THEN 1 ELSE 0
  BY DEF Receive
<1>3. ~(n > 1 \/ repeated)
  <2> SUFFICES ASSUME n > 1 \/ repeated PROVE FALSE
    OBVIOUS
  <2>1. faults' = faults + 1
    BY <1>2, Zenon
  <2> QED
    BY <1>1, <2>1
<1>4. faults' = faults + 0
  BY <1>2, <1>3, Zenon
<1>5. n = 1
  BY <1>1, <1>3
<1>6. net' = RemoveAt(net, n)
  BY <1>3 DEF Receive
<1> QED
  BY <1>1, <1>4, <1>5, <1>6

(* The order of frames and bytes, after a packet was received. *)
LEMMA ReceiveCuts ==
  ASSUME NEW T, Holds(T), others = 0, NEW n \in 1..Len(net), NEW repeated \in BOOLEAN, Receive(n, repeated),
         NEW p, p = net[n], NEW j, IsPacket(T, p, j), codec = "h264"
  PROVE  CutsOK'
<1> SUFFICES ASSUME faults' = 0 PROVE CutsOK'
  BY DEF CutsOK
<1>1. /\ codec \in Codec /\ frames \in Seq(Frame) /\ Len(frames) <= MaxFrames /\ Clock(T) /\ Len(frames) \in Nat
      /\ latest \in Nat
      /\ delivered \in Seq([timestamp : 0..(TimestampModulus - 1), data : Seq(Unit)])
  BY DEF Holds, RestOK
<1>2. PICK k, len : k = FrameOf(p) /\ len = LenOf(k)
  OBVIOUS
<1>3. k \in Nat \ {0} /\ k <= Len(frames)
  BY <1>1, <1>2, PacketReads
<1>4. UNCHANGED <<codec, frames, mux, sender, i>> /\ setpacket(p) /\ latest' = IF TooShort(p) THEN latest ELSE k
  BY <1>2 DEF Receive, sending
<1>5. faults = 0 /\ n = 1 /\ net' = RemoveAt(net, n)
  BY NoFault
<1>6. Forward
  BY <1>4, <1>5, NetShrinks
<1>7. Behind(k, Top(len, j))' /\ \A m \in 1..Len(net') : k <= FrameOf(net'[m])
  BY <1>2, <1>4, <1>5, Passed
<1>8. PICK y \in Nat : y = Top(len, j) /\ Behind(k, y)'
  <2>1. len \in Nat /\ FirstByte(len) \in 1..len /\ j \in 1..PacketCount(len)
    BY <1>1, <1>2, PacketReads
  <2>2. Top(len, j) \in Nat
    BY <2>1, Extents
  <2>3. Top(len, j)' = Top(len, j)
    BY <1>4 DEF Top, From, FirstByte, Fragmented
  <2> QED
    BY <1>7, <2>2, <2>3
<1>9. latest <= k
  BY <1>2, <1>5 DEF Holds, Lone, CutsOK
<1>10. PICK h \in Nat : h = latest' /\ latest <= h /\ h <= k /\ (~TooShort(p) => h = k)
  BY <1>1, <1>3, <1>4, <1>9
<1>11. ASSUME NEW m \in 1..Len(net') PROVE h <= FrameOf(net'[m])
  <2>1. FrameOf(net'[m]) \in Nat
    <3>1. net \in Seq(Seq(Unit))
      BY DEF Holds, NetOK
    <3>2. Was(m, n) \in 1..Len(net) /\ net'[m] = net[Was(m, n)]
      BY <1>5, <3>1, OthersStay
    <3>3. FrameOf(net'[m]) \in 1..Len(frames)
      BY <3>2 DEF Holds, NetOK, IsPacket
    <3> QED
      BY <1>1, <3>3
  <2>2. k <= FrameOf(net'[m])
    BY <1>7
  <2> QED
    BY <1>3, <1>10, <2>1, <2>2
<1>12. PICK b, r, d : b = demux.rtp_buffer /\ r = demux'.rtp_buffer /\ d = delivered'
  OBVIOUS
<1>13. ASSUME NEW m \in 1..Len(delivered)
       PROVE  delivered[m].data[2][2] \in Nat /\ delivered[m].data[2][2] < latest /\ Rising(delivered[m].data)
  <2>1. delivered[m].data[2][2] \in 1..Len(frames)
    BY DEF Holds, Lone, DeliveredOK, Assembles
  <2>2. delivered[m].data[2][2] \in Nat
    <3>1. Len(frames) \in Nat
      BY <1>1
    <3> QED
      BY ONLY <2>1, <3>1
  <2>3. delivered[m].data[2][2] < latest /\ Rising(delivered[m].data)
    BY <1>5 DEF Holds, Lone, CutsOK
  <2> QED
    BY <2>2, <2>3
<1>14. \A l, m \in 1..Len(delivered) : l < m => delivered[l].data[2][2] < delivered[m].data[2][2]
  BY <1>5 DEF Holds, Lone, CutsOK
<1>15. ASSUME b # <<>>
       PROVE  /\ Assembles(b) /\ b[2][2] \in Nat /\ b[2][2] <= Len(frames) /\ b[Len(b)][3] \in Nat
              /\ b[2][2] <= latest /\ Rising(b)
              /\ \A m \in 1..Len(delivered) : delivered[m].data[2][2] < b[2][2]
              /\ Behind(b[2][2], b[Len(b)][3])
  <2>1. Assembles(b)
    BY <1>12, <1>15 DEF Holds, Lone, BufferOK
  <2>2. b[2][2] \in 1..Len(frames) /\ b \in Seq(Unit) /\ Len(b) > 1
    BY <2>1 DEF Assembles
  <2>3. b[Len(b)] \in Unit
    BY <2>2
  <2>4. b[Len(b)][3] \in Nat
    BY <2>3 DEF Unit
  <2>5. /\ b[2][2] <= latest /\ Rising(b)
        /\ \A m \in 1..Len(delivered) : delivered[m].data[2][2] < b[2][2]
        /\ Behind(b[2][2], b[Len(b)][3])
    BY <1>5, <1>12, <1>15 DEF Holds, Lone, CutsOK
  <2> QED
    BY <1>1, <2>1, <2>2, <2>4, <2>5
<1> DEFINE Sorted == /\ \A m \in 1..Len(d) : d[m].data[2][2] < h /\ Rising(d[m].data)
                     /\ \A l, m \in 1..Len(d) : l < m => d[l].data[2][2] < d[m].data[2][2]
           EndOK == r # <<>> => /\ r[2][2] <= h
                                /\ \A m \in 1..Len(d) : d[m].data[2][2] < r[2][2]
                                /\ Rising(r)
                                /\ Behind(r[2][2], r[Len(r)][3])'
<1>16. ASSUME d = delivered PROVE Sorted
  <2>1. ASSUME NEW m \in 1..Len(d) PROVE d[m].data[2][2] < h /\ Rising(d[m].data)
    <3>1. delivered[m].data[2][2] \in Nat /\ delivered[m].data[2][2] < latest /\ Rising(delivered[m].data)
      BY <1>13, <1>16
    <3>2. \A v \in Nat : v < latest => v < h
      BY <1>1, <1>10
    <3>3. delivered[m].data[2][2] < h
      BY <3>1, <3>2
    <3> QED
      BY <1>16, <3>1, <3>3
  <2> QED
    BY <1>14, <1>16, <2>1
<1>17. Sorted /\ EndOK
  <2>1. CASE Refused(p)
    <3>1. d = delivered /\ r = b
      BY <1>12, <2>1 DEF Refused
    <3>2. ASSUME r # <<>> PROVE r[2][2] <= h /\ Behind(r[2][2], r[Len(r)][3])'
      <4>1. b[2][2] <= h
        BY <1>1, <1>10, <1>15, <3>1, <3>2
      <4>2. Behind(b[2][2], b[Len(b)][3])'
        BY <1>6, <1>15, <3>1, <3>2 DEF Forward
      <4> QED
        BY <3>1, <4>1, <4>2
    <3>3. EndOK
      BY <1>15, <3>1, <3>2
    <3> QED
      BY <1>16, <3>1, <3>3
  <2>2. CASE Begun(T, p)
    <3>1. r = Appended(<<>>, p) /\ h = k
      BY <1>10, <1>12, <2>2 DEF Begun
    <3>2. r # <<>> => Of(r, k) /\ Climbs(r, y)
      BY <1>1, <1>2, <1>8, <3>1, Fresh
    <3>3. ASSUME r # <<>> PROVE r[2][2] = k /\ Rising(r) /\ Behind(r[2][2], r[Len(r)][3])'
      <4>1. r[2][2] = k /\ Rising(r) /\ r[Len(r)][3] = y
        BY <3>2, <3>3 DEF Of, Climbs
      <4> QED
        BY <1>8, <4>1
    <3>4. Sorted => EndOK
      BY <1>3, <3>1, <3>3
    <3>5. CASE demux.rtp_buffer = <<>> /\ delivered' = delivered
      BY <1>12, <1>16, <3>4, <3>5
    <3>6. CASE /\ demux.rtp_buffer # <<>> /\ demux.rtp_buffer[2][2] # FrameOf(p)
               /\ delivered' = Append(delivered, [timestamp |-> demux.timestamp, data |-> demux.rtp_buffer])
      <4>1. b # <<>> /\ b[2][2] # k
        BY <1>2, <1>12, <3>6
      <4>2. b[2][2] < h /\ b[2][2] \in Nat
        <5>1. PICK x \in Nat : x = b[2][2] /\ x <= latest /\ x # k
          BY <1>15, <4>1
        <5>2. latest \in Nat /\ k \in Nat /\ latest <= k /\ h = k
          BY <1>1, <1>3, <1>9, <3>1
        <5>3. x < k
          BY ONLY x \in Nat, <5>1, <5>2
        <5> QED
          BY <5>1, <5>2, <5>3
      <4>3. PICK e \in [timestamp : 0..(TimestampModulus - 1), data : Seq(Unit)] :
                   e = [timestamp |-> demux.timestamp, data |-> demux.rtp_buffer] /\ e.data = b
        <5>1. PICK t \in 0..(TimestampModulus - 1), c \in Seq(Unit) : t = demux.timestamp /\ c = demux.rtp_buffer
          BY DEF Holds, RestOK
        <5>2. [timestamp |-> t, data |-> c] \in [timestamp : 0..(TimestampModulus - 1), data : Seq(Unit)]
          OBVIOUS
        <5>3. [timestamp |-> t, data |-> c].data = c
          OBVIOUS
        <5> QED
          BY <1>12, <5>1, <5>2, <5>3
      <4>4. d = Append(delivered, e)
        BY <1>12, <3>6, <4>3
      <4>5. /\ Len(delivered) \in Nat /\ Len(d) = Len(delivered) + 1
            /\ \A m \in 1..Len(d) : (m \in 1..Len(delivered) /\ d[m] = delivered[m]) \/ (m = Len(delivered) + 1 /\ d[m] = e)
        BY <1>1, <4>4, AppendElement
      <4>6. ASSUME NEW m \in 1..Len(d) PROVE d[m].data[2][2] < h /\ Rising(d[m].data)
        <5>1. CASE m \in 1..Len(delivered) /\ d[m] = delivered[m]
          <6>1. delivered[m].data[2][2] \in Nat /\ delivered[m].data[2][2] < latest /\ Rising(delivered[m].data)
            BY <1>13, <5>1
          <6>2. \A v \in Nat : v < latest => v < h
            BY <1>1, <1>10
          <6>3. delivered[m].data[2][2] < h
            BY <6>1, <6>2
          <6> QED
            BY <5>1, <6>1, <6>3
        <5>2. CASE d[m] = e
          BY <1>15, <4>1, <4>2, <4>3, <5>2
        <5> QED
          BY <4>5, <5>1, <5>2
      <4>7. ASSUME NEW l \in 1..Len(d), NEW m \in 1..Len(d), l < m PROVE d[l].data[2][2] < d[m].data[2][2]
        <5>1. l \in 1..Len(delivered) /\ d[l] = delivered[l]
          BY <4>5, <4>7
        <5>2. CASE m \in 1..Len(delivered) /\ d[m] = delivered[m]
          BY <1>14, <4>7, <5>1, <5>2
        <5>3. CASE d[m] = e
          BY <1>15, <4>1, <4>3, <5>1, <5>3
        <5> QED
          BY <4>5, <5>2, <5>3
      <4> QED
        BY <3>4, <4>6, <4>7
    <3> QED
      BY <2>2, <3>5, <3>6 DEF Begun
  <2>3. CASE Continues(T, p)
    <3>1. r = Appended(b, p) /\ d = delivered /\ b # <<>> /\ b[2][2] = k /\ h = k
      BY <1>2, <1>10, <1>12, <2>3 DEF Continues
    <3>2. Of(b, k)
      BY <1>15, <3>1 DEF Of
    <3>3. PICK z \in Nat : z = b[Len(b)][3] /\ Climbs(b, z)
      BY <1>15, <3>1 DEF Climbs
    <3>4. z < First(p)
      <4>1. Before(k, z, FrameOf(net[n]), First(net[n]))
        BY <1>15, <3>1, <3>3 DEF Behind
      <4> QED
        BY <1>2, <1>3, <4>1 DEF Before
    <3>5. Of(r, k) /\ Climbs(r, y)
      <4>1. /\ Of(r, k)
            /\ \A v \in Nat : Climbs(b, v) /\ v < First(p) => Climbs(r, Top(len, j))
        BY <1>1, <1>2, <3>1, <3>2, Continued
      <4> QED
        BY <1>8, <3>3, <3>4, <4>1
    <3>6. r[2][2] = k /\ Rising(r) /\ r[Len(r)][3] = y
      BY <3>5 DEF Of, Climbs
    <3>7. EndOK
      BY <1>3, <1>8, <1>15, <3>1, <3>6
    <3> QED
      BY <1>16, <3>1, <3>7
  <2> QED
    BY <1>4, <2>1, <2>2, <2>3, Outcomes
<1> QED
  BY <1>10, <1>11, <1>12, <1>17 DEF CutsOK, Rising

(* A packet that is not refused as too short is not refused as late, as long as    *)
(* packets are only lost, and not for too long.                                  *)
LEMMA NotLate ==
  ASSUME NEW T, Holds(T), codec = "h264", NEW p, NEW j, IsPacket(T, p, j), faults = 0, others = 0, ~jumped,
         NEW k, k = FrameOf(p), latest <= k,
         latest \in 1..(k - 1) => (k - latest) * timestamp_increse <= LOOPTIMESTAMPCORNER
  PROVE  ~Late(p)
<1>1. codec \in Codec /\ frames \in Seq(Frame) /\ Len(frames) <= MaxFrames /\ Clock(T) /\ latest \in Nat
  BY DEF Holds, RestOK
<1>2. PICK len : len = LenOf(k)
  OBVIOUS
<1>3. k \in Nat \ {0} /\ k <= Len(frames) /\ T[k] \in Nat /\ Timestamp(p) = T[k]
  BY <1>1, <1>2, PacketReads DEF Shape
<1>4. CASE demux.rtp_buffer = <<>>
  BY <1>4 DEF Late, Current
<1>5. CASE demux.rtp_buffer # <<>>
  <2>1. demux.rtp_buffer[2][2] = latest
    BY <1>5 DEF Holds, Lone, WholeOK
  <2>2. latest \in 1..Len(frames) /\ demux.timestamp = T[latest]
    BY <1>5, <2>1 DEF Holds, Lone, BufferOK, Assembles
  <2>3. Current(p) = T[latest]
    BY <1>5, <2>2 DEF Current
  <2>4. CASE latest = k
    BY <1>3, <2>3, <2>4 DEF Late
  <2>5. CASE latest < k
    <3>1. latest \in 1..MaxFrames /\ k \in 1..MaxFrames /\ latest \in 1..(k - 1)
      BY <1>1, <1>3, <2>2, <2>5, BoundsAssumption
    <3>2. (k - latest) * timestamp_increse <= LOOPTIMESTAMPCORNER
      BY <3>1
    <3>3. T[latest] < T[k] \/ (T[latest] > LOOPTIMESTAMPCORNER /\ T[k] < LOOPTIMESTAMPCORNER)
      BY <1>1, <2>5, <3>1, <3>2, StampsLater
    <3> QED
      BY <1>3, <2>3, <3>3 DEF Late, Newer
  <2> QED
    BY <1>1, <1>3, <2>4, <2>5
<1> QED
  BY <1>4, <1>5

(* The packet before this one ended where this one begins, or earlier. *)
LEMMA Later ==
  ASSUME NEW len \in Nat, FirstByte(len) \in 1..len, NEW a \in 1..PacketCount(len), NEW j \in 1..PacketCount(len),
         Top(len, a) < From(len, j)
  PROVE  a < j
<1>1. a < j \/ j = a \/ j < a
  BY Rounds
<1>2. From(len, j) \in Nat /\ Top(len, j) \in Nat /\ From(len, j) <= Top(len, j)
  BY Extents
<1>3. From(len, a) \in Nat /\ Top(len, a) \in Nat /\ From(len, a) <= Top(len, a)
  BY Extents
<1>4. CASE j < a
  <2>1. Top(len, j) < From(len, a)
    BY <1>4, Follow
  <2> QED
    BY <1>2, <1>3, <2>1
<1>5. CASE j = a
  BY <1>2, <1>5
<1> QED
  BY <1>1, <1>4, <1>5

(* Whole frames, after a packet was received. *)
LEMMA ReceiveWhole ==
  ASSUME NEW T, Holds(T), others = 0, NEW n \in 1..Len(net), NEW repeated \in BOOLEAN, Receive(n, repeated),
         NEW p, p = net[n], NEW j, IsPacket(T, p, j), codec = "h264"
  PROVE  WholeOK'
<1> SUFFICES ASSUME faults' = 0, ~jumped' PROVE WholeOK'
  BY DEF WholeOK
<1>1. /\ codec \in Codec /\ frames \in Seq(Frame) /\ Len(frames) <= MaxFrames /\ Clock(T) /\ Len(frames) \in Nat
      /\ latest \in Nat /\ latest <= Len(frames) /\ seen \in [1..MaxFrames -> Nat]
      /\ delivered \in Seq([timestamp : 0..(TimestampModulus - 1), data : Seq(Unit)])
  BY DEF Holds, RestOK
<1>2. PICK k, len : k = FrameOf(p) /\ len = LenOf(k)
  OBVIOUS
<1>3. /\ k \in Nat \ {0} /\ k <= Len(frames) /\ len \in Nat /\ FirstByte(len) \in 1..len
      /\ j \in 1..PacketCount(len) /\ Shape(p, k, len, T[k], j) /\ First(p) = From(len, j)
  BY <1>1, <1>2, PacketReads
<1>4. /\ UNCHANGED <<codec, frames, mux, sender, i>> /\ setpacket(p)
      /\ latest' = IF TooShort(p) THEN latest ELSE k
      /\ seen' = [seen EXCEPT ![k] = @ + 1]
  BY <1>2 DEF Receive, sending
<1>5. faults = 0 /\ n = 1 /\ net' = RemoveAt(net, n)
  BY NoFault
<1>6. ~jumped /\ (latest \in 1..(k - 1) /\ ~TooShort(p) => ~((k - latest) * timestamp_increse > LOOPTIMESTAMPCORNER))
  BY <1>2 DEF Receive
<1>7. Forward /\ Grown
  BY <1>4, <1>5, NetShrinks
<1>8. PICK y \in Nat : y = Top(len, j) /\ Behind(k, y)'
  <2>1. Behind(k, Top(len, j))'
    BY <1>2, <1>4, <1>5, Passed
  <2>2. Top(len, j) \in Nat
    BY <1>3, Extents
  <2>3. Top(len, j)' = Top(len, j)
    BY <1>4 DEF Top, From, FirstByte, Fragmented
  <2> QED
    BY <2>1, <2>2, <2>3
<1>9. latest <= k
  BY <1>2, <1>5 DEF Holds, Lone, CutsOK
<1>10. PICK b, r, d : b = demux.rtp_buffer /\ r = demux'.rtp_buffer /\ d = delivered'
  OBVIOUS
<1>11. b # <<>> => b[2][2] = latest /\ Assembles(b)
  BY <1>5, <1>6, <1>10 DEF Holds, Lone, WholeOK, BufferOK
<1>12. PICK h \in Nat : h = latest'
  BY <1>1, <1>3, <1>4
<1> DEFINE Fine(l) == /\ l > h => seen'[l] = 0
                      /\ l = h => r # <<>> /\ \E m \in 1..CountOf(l) : Underway(l, m)'
                      /\ l < h /\ seen'[l] = CountOf(l) =>
                           \E m \in 1..Len(d) : d[m].data = Whole(l, LenOf(l))
<1>13. SUFFICES /\ r # <<>> => r[2][2] = h
                /\ \A l \in 1..Len(frames) : Copied(l) => Fine(l)
  <2>1. ASSUME NEW l \in 1..Len(frames)
        PROVE  LenOf(l)' = LenOf(l) /\ CountOf(l)' = CountOf(l) /\ (Copied(l) <=> Copied(l)')
    BY <1>7, FrameKept
  <2>2. ASSUME NEW l \in 1..Len(frames) PROVE Whole(l, LenOf(l))' = Whole(l, LenOf(l))
    BY <2>1 DEF Whole
  <2> QED
    BY <1>4, <1>10, <1>12, <1>13, <2>1, <2>2 DEF WholeOK
<1>14. ASSUME NEW l \in 1..Len(frames), NEW m \in 1..CountOf(l), NEW x \in Nat, x = Top(LenOf(l), m),
              Behind(l, x)', seen'[l] <= m, seen'[l] = m => r = Whole(l, x)
       PROVE  Underway(l, m)'
  <2>1. Top(LenOf(l), m)' = x
    BY <1>7, <1>14, FrameKept
  <2>2. Behind(l, Top(LenOf(l), m))' /\ Whole(l, Top(LenOf(l), m))' = Whole(l, x)
    BY <1>14, <2>1 DEF Whole, Behind
  <2> QED
    BY <1>10, <1>14, <2>2 DEF Underway
<1>15. ASSUME NEW l \in 1..Len(frames), Copied(l)
       PROVE  /\ l \in Nat /\ l \in 1..MaxFrames /\ seen[l] \in Nat
              /\ l > latest => seen[l] = 0
              /\ l = latest => b # <<>> /\ \E m \in 1..CountOf(l) : Underway(l, m)
              /\ l < latest /\ seen[l] = CountOf(l) =>
                   \E m \in 1..Len(delivered) : delivered[m].data = Whole(l, LenOf(l))
  <2>1. l \in Nat /\ l \in 1..MaxFrames
    BY <1>1, BoundsAssumption
  <2> QED
    BY <1>1, <1>5, <1>6, <1>10, <1>15, <2>1 DEF Holds, Lone, WholeOK
<1>16. ASSUME NEW l \in 1..MaxFrames, l # k PROVE seen'[l] = seen[l]
  BY <1>1, <1>4, <1>16
<1>17. seen'[k] = seen[k] + 1
  <2>1. k \in 1..MaxFrames
    BY <1>1, <1>3, BoundsAssumption
  <2> QED
    BY <1>1, <1>4, <2>1
<1>18. ASSUME NEW l \in 1..Len(frames), NEW m \in 1..CountOf(l), Underway(l, m)
       PROVE  \E x \in Nat : /\ x = Top(LenOf(l), m) /\ Behind(l, x) /\ Behind(l, x)' /\ seen[l] <= m
                             /\ seen[l] = m => b = Whole(l, x)
  <2>1. LenOf(l) \in Nat /\ FirstByte(LenOf(l)) \in 1..LenOf(l)
    BY <1>1, FrameOK
  <2>2. Top(LenOf(l), m) \in Nat
    BY <2>1, Extents DEF CountOf
  <2>3. PICK x \in Nat : x = Top(LenOf(l), m)
    BY <2>2
  <2>4. Behind(l, x) /\ seen[l] <= m /\ (seen[l] = m => b = Whole(l, x))
    BY <1>10, <1>18, <2>3 DEF Underway
  <2>5. Behind(l, x)'
    <3>1. l \in Nat /\ l <= Len(frames)
      BY <1>1
    <3> QED
      BY <1>7, <2>4, <3>1 DEF Forward
  <2> QED
    BY <2>3, <2>4, <2>5
<1>19. CASE TooShort(p)
  <2>1. h = latest /\ r = b /\ d = delivered
    BY <1>4, <1>10, <1>12, <1>19 DEF setpacket
  <2>2. ~Copied(k)
    <3>1. ~Fragmented(len) /\ len = 1
      BY <1>3, <1>19 DEF Shape
    <3> QED
      BY <1>2, <3>1 DEF Copied, LenOf
  <2>3. ASSUME NEW l \in 1..Len(frames), Copied(l) PROVE Fine(l)
    <3>1. seen'[l] = seen[l]
      BY <1>15, <1>16, <2>2, <2>3
    <3>2. ASSUME l = h PROVE r # <<>> /\ \E m \in 1..CountOf(l) : Underway(l, m)'
      <4>1. PICK m \in 1..CountOf(l) : Underway(l, m)
        BY <1>15, <2>1, <2>3, <3>2
      <4>2. PICK x \in Nat : x = Top(LenOf(l), m) /\ Behind(l, x)' /\ seen[l] <= m /\ (seen[l] = m => b = Whole(l, x))
        BY <1>18, <4>1
      <4>3. Underway(l, m)'
        BY <1>14, <2>1, <3>1, <4>2
      <4> QED
        BY <1>15, <2>1, <2>3, <3>2, <4>3
    <3> QED
      BY <1>15, <2>1, <2>3, <3>1, <3>2
  <2> QED
    BY <1>11, <2>1, <2>3
<1>20. CASE ~TooShort(p)
  <2>1. h = k
    BY <1>4, <1>12, <1>20
  <2>2. ~Late(p)
    <3>1. ASSUME latest \in 1..(k - 1) PROVE (k - latest) * timestamp_increse <= LOOPTIMESTAMPCORNER
      <4>1. ~((k - latest) * timestamp_increse > LOOPTIMESTAMPCORNER)
        BY <1>6, <1>20, <3>1
      <4>2. PICK v \in Int, w \in Int : v = k - latest /\ w = timestamp_increse
        BY <1>1, <1>3, TimestampsAssumption
      <4>3. PICK u \in Int : u = v * w
        OBVIOUS
      <4>4. ~(u > LOOPTIMESTAMPCORNER) /\ u = (k - latest) * timestamp_increse
        BY <4>1, <4>2, <4>3
      <4> QED
        BY <4>4, TimestampsAssumption
    <3> QED
      BY <1>2, <1>5, <1>6, <1>9, <3>1, NotLate
  <2>3. ~Refused(p)
    BY <1>20, <2>2 DEF Refused
  <2>4. Begun(T, p) \/ Continues(T, p)
    BY <1>4, <2>3, Outcomes
  <2>5. ASSUME Begun(T, p)
        PROVE  /\ b # <<>> => b[2][2] # k /\ d = Append(delivered, [timestamp |-> demux.timestamp, data |-> b])
               /\ b = <<>> => d = delivered
               /\ r = Appended(<<>>, p)
    BY <1>2, <1>10, <2>5 DEF Begun
  <2>6. ASSUME Continues(T, p)
        PROVE  b # <<>> /\ b[2][2] = k /\ d = delivered /\ r = Appended(b, p) /\ Of(b, k) /\ latest = k
    BY <1>2, <1>10, <1>11, <2>6 DEF Continues, Of
  <2>7. ASSUME Begun(T, p)
        PROVE  /\ r # <<>> => Of(r, k)
               /\ Copied(k) => r # <<>>
               /\ Copied(k) /\ j = 1 => r = Whole(k, y)
    BY <1>1, <1>2, <1>8, <2>5, <2>7, Fresh
  <2>8. r # <<>> => r[2][2] = h
    <3>1. CASE Begun(T, p)
      BY <2>1, <2>7, <3>1 DEF Of
    <3>2. CASE Continues(T, p)
      <4>1. Of(r, k)
        BY <1>1, <1>2, <2>6, <3>2, Continued
      <4> QED
        BY <2>1, <4>1 DEF Of
    <3> QED
      BY <2>4, <3>1, <3>2
  <2>9. ASSUME NEW m \in 1..Len(delivered) PROVE m \in 1..Len(d) /\ d[m] = delivered[m]
    <3>1. CASE d = delivered
      BY <3>1
    <3>2. CASE d = Append(delivered, [timestamp |-> demux.timestamp, data |-> b])
      <4>1. PICK e : e = [timestamp |-> demux.timestamp, data |-> b]
        OBVIOUS
      <4>2. d = Append(delivered, e)
        BY <3>2, <4>1
      <4>3. Len(d) = Len(delivered) + 1 /\ d[m] = delivered[m]
        BY <1>1, <4>2
      <4> QED
        BY <1>1, <4>3
    <3> QED
      BY <2>4, <2>5, <2>6, <3>1, <3>2
  <2>10. ASSUME NEW l \in 1..Len(frames), Copied(l) PROVE Fine(l)
    <3>1. CASE l > k
      <4>1. l > latest /\ l # k /\ ~(l < h) /\ ~(l = h)
        BY <1>1, <1>3, <1>9, <1>15, <2>1, <2>10, <3>1
      <4> QED
        BY <1>15, <1>16, <2>10, <4>1
    <3>2. CASE l < k
      <4>1. seen'[l] = seen[l] /\ ~(l > h) /\ ~(l = h)
        BY <1>3, <1>15, <1>16, <2>1, <2>10, <3>2
      <4>2. SUFFICES ASSUME seen[l] = CountOf(l) PROVE \E m \in 1..Len(d) : d[m].data = Whole(l, LenOf(l))
        BY <4>1
      <4>3. PICK c \in Nat \ {0} : c = CountOf(l) /\ seen[l] = c
        BY <1>1, <4>2, FrameOK
      <4>4. CASE l < latest
        <5>1. PICK m \in 1..Len(delivered) : delivered[m].data = Whole(l, LenOf(l))
          BY <1>15, <2>10, <4>2, <4>4
        <5>2. m \in 1..Len(d) /\ d[m].data = Whole(l, LenOf(l))
          BY <2>9, <5>1
        <5> QED
          BY <5>2
      <4>5. CASE l = latest
        <5>1. b # <<>> /\ b[2][2] = l /\ latest # k
          BY <1>3, <1>11, <1>15, <2>10, <3>2, <4>5
        <5>2. PICK m \in 1..CountOf(l) : Underway(l, m)
          BY <1>15, <2>10, <4>5
        <5>3. PICK x \in Nat : x = Top(LenOf(l), m) /\ seen[l] <= m /\ (seen[l] = m => b = Whole(l, x))
          BY <1>18, <5>2
        <5>4. m = c
          BY <4>3, <5>3
        <5>5. x = LenOf(l)
          <6>1. LenOf(l) \in Nat /\ FirstByte(LenOf(l)) \in 1..LenOf(l)
            BY <1>1, FrameOK
          <6>2. m \in 1..PacketCount(LenOf(l)) /\ m = PacketCount(LenOf(l))
            BY <4>3, <5>4 DEF CountOf
          <6> QED
            BY <5>3, <6>1, <6>2, Extents
        <5>6. b = Whole(l, LenOf(l))
          BY <4>3, <5>3, <5>4, <5>5
        <5>7. Begun(T, p)
          BY <2>4, <2>6, <5>1
        <5>8. d = Append(delivered, [timestamp |-> demux.timestamp, data |-> b])
          BY <2>5, <5>1, <5>7
        <5>9. PICK e : e = [timestamp |-> demux.timestamp, data |-> b] /\ e.data = b
          <6>1. [timestamp |-> demux.timestamp, data |-> b].data = b
            OBVIOUS
          <6> QED
            BY <6>1
        <5>10. d = Append(delivered, e)
          BY <5>8, <5>9
        <5>11. Len(d) = Len(delivered) + 1 /\ d[Len(delivered) + 1] = e /\ Len(delivered) \in Nat
          BY <1>1, <5>10
        <5>12. Len(delivered) + 1 \in 1..Len(d) /\ d[Len(delivered) + 1].data = Whole(l, LenOf(l))
          BY <5>6, <5>9, <5>11
        <5> QED
          BY <5>12
      <4>6. CASE l > latest
        BY <1>15, <2>10, <4>3, <4>6
      <4>7. l < latest \/ l = latest \/ l > latest
        BY <1>1, <1>15, <2>10
      <4> QED
        BY <4>4, <4>5, <4>6, <4>7
    <3>3. CASE l = k
      <4>1. ~(l > h) /\ ~(l < h)
        BY <1>3, <2>1, <3>3
      <4>2. SUFFICES r # <<>> /\ \E m \in 1..CountOf(k) : Underway(k, m)'
        BY <3>3, <4>1
      <4>3. Copied(k) /\ k \in 1..Len(frames) /\ seen[k] \in Nat /\ j \in 1..CountOf(k) /\ j \in Nat \ {0} /\ y = Top(LenOf(k), j)
        <5>1. PacketCount(len) \in Nat
          BY <1>3, Rounds
        <5> QED
          BY <1>2, <1>3, <1>8, <1>15, <2>10, <3>3, <5>1 DEF CountOf
      <4>4. CASE k > latest
        <5>1. seen[k] = 0 /\ latest # k
          BY <1>1, <1>15, <4>3, <4>4
        <5>2. Begun(T, p)
          BY <2>4, <2>6, <5>1
        <5>3. r # <<>> /\ (j = 1 => r = Whole(k, y))
          BY <2>7, <4>3, <5>2
        <5>4. seen'[k] = 1
          BY <1>17, <5>1
        <5>5. seen'[k] <= j /\ (seen'[k] = j => r = Whole(k, y))
          BY <4>3, <5>3, <5>4
        <5>6. Underway(k, j)'
          BY <1>8, <1>14, <4>3, <5>5
        <5> QED
          BY <4>3, <5>3, <5>6
      <4>5. CASE k = latest
        <5>1. b # <<>> /\ b[2][2] = k
          BY <1>11, <1>15, <4>3, <4>5
        <5>2. Continues(T, p)
          BY <2>4, <2>5, <5>1
        <5>3. r = Appended(b, p) /\ Of(b, k)
          BY <2>6, <5>2
        <5>4. /\ Of(r, k)
              /\ \A z \in Nat : Climbs(b, z) /\ z < First(p) => Joins(b, Bytes(k, From(len, j), y), r)
          BY <1>1, <1>2, <1>8, <5>3, Continued
        <5>5. r # <<>>
          <6>1. r \in Seq(Unit) /\ Len(r) > 1
            BY <5>4 DEF Of, Assembles
          <6> QED
            BY <6>1
        <5>6. PICK a \in 1..CountOf(k) : Underway(k, a)
          BY <1>15, <4>3, <4>5
        <5>7. PICK x \in Nat : x = Top(LenOf(k), a) /\ Behind(k, x) /\ seen[k] <= a /\ (seen[k] = a => b = Whole(k, x))
          BY <1>18, <4>3, <5>6
        <5>8. x < First(p)
          <6>1. Before(k, x, FrameOf(net[n]), First(net[n]))
            BY <5>7 DEF Behind
          <6> QED
            BY <1>2, <1>3, <6>1 DEF Before
        <5>9. a \in 1..PacketCount(len) /\ Top(len, a) < From(len, j) /\ a \in Nat \ {0}
          <6>1. a \in 1..PacketCount(len) /\ PacketCount(len) \in Nat
            BY <1>2, <1>3, <5>6, Rounds DEF CountOf
          <6> QED
            BY <1>2, <1>3, <5>7, <5>8, <6>1
        <5>10. a < j
          BY <1>3, <5>9, Later
        <5>11. seen'[k] <= j
          BY <1>17, <4>3, <5>7, <5>9, <5>10
        <5>12. ASSUME seen'[k] = j PROVE r = Whole(k, y)
          <6>1. seen[k] = a /\ j = a + 1
            BY <1>17, <4>3, <5>7, <5>9, <5>10, <5>12
          <6>2. b = Whole(k, x)
            BY <5>7, <6>1
          <6>3. x \in Nat \ {0}
            <7>1. From(len, a) \in 1..len /\ From(len, a) <= Top(len, a)
              BY <1>3, <5>9, Extents
            <7> QED
              BY <1>2, <1>3, <5>7, <7>1
          <6>4. k \in Nat /\ Climbs(b, x)
            BY <1>3, <4>3, <6>2, <6>3, WholeClimbs
          <6>5. PICK c \in Nat : c = From(len, j) /\ c = x + 1
            <7>1. a < PacketCount(len)
              BY <1>3, <5>9, <5>10, Rounds
            <7>2. From(len, a + 1) = Top(len, a) + 1
              BY <1>3, <5>9, <7>1, Extents
            <7> QED
              BY <1>2, <5>7, <6>1, <7>2
          <6>6. x <= y
            <7>1. From(len, j) <= Top(len, j)
              BY <1>3, Extents
            <7> QED
              BY <1>8, <6>5, <7>1
          <6>7. Joins(Whole(k, x), Bytes(k, c, y), Whole(k, y))
            BY <6>3, <6>4, <6>5, <6>6, WholeJoin
          <6>8. Joins(b, Bytes(k, c, y), r)
            BY <5>4, <5>8, <6>4, <6>5
          <6> QED
            BY <6>2, <6>7, <6>8 DEF Joins
        <5>13. Underway(k, j)'
          BY <1>8, <1>14, <4>3, <5>11, <5>12
        <5> QED
          BY <4>3, <5>5, <5>13
      <4> QED
        BY <1>1, <1>3, <1>9, <4>4, <4>5
    <3>4. l > k \/ l < k \/ l = k
      BY <1>3, <1>15, <2>10
    <3> QED
      BY <3>1, <3>2, <3>3, <3>4
  <2> QED
    BY <2>8, <2>10
<1> QED
  BY <1>19, <1>20

(* recvfile() receives a packet. *)
LEMMA ReceiveKeeps ==
  ASSUME NEW T, Holds(T), NEW n \in 1..Len(net), NEW repeated \in BOOLEAN, Receive(n, repeated)
  PROVE  Holds(T)'
<1>1. PICK p : p = net[n]
  OBVIOUS
<1>2. codec = "h264" /\ \E j \in Nat : IsPacket(T, p, j)
  BY <1>1, OnItsWay
<1>3. PICK j \in Nat : IsPacket(T, p, j)
  BY <1>2
<1>4. RestOK' /\ StampsOK(T)'
  BY <1>1, <1>2, <1>3, ReceiveRest
<1>5. ASSUME others = 0 PROVE Lone(T)'
  <2>1. BufferOK(T)' /\ DeliveredOK'
    BY <1>1, <1>2, <1>3, <1>5, ReceiveTypes
  <2>2. CutsOK'
    BY <1>1, <1>2, <1>3, <1>5, ReceiveCuts
  <2>3. WholeOK'
    BY <1>1, <1>2, <1>3, <1>5, ReceiveWhole
  <2> QED
    BY <2>1, <2>2, <2>3 DEF Lone
<1>6. others' = others
  BY DEF Receive
<1>7. MuxOK(T)' /\ NetOK(T)'
  <2>1. net' = net \/ net' = RemoveAt(net, n)
    BY DEF Receive
  <2>2. UNCHANGED <<codec, frames, mux, sender, i>>
    BY DEF Receive, sending
  <2> QED
    BY <2>1, <2>2, NetShrinks
<1>8. Clock(T)'
  BY DEF Holds, Clock
<1> QED
  BY <1>4, <1>5, <1>6, <1>7, <1>8 DEF Holds

(* recvfile() receives another participant's packet. *)
LEMMA ReceiveOtherKeeps ==
  ASSUME NEW T, Holds(T), NEW ts \in OtherTimestamp, NEW kind \in {"fu", "byte", "skip"}, ReceiveOther(ts, kind)
  PROVE  Holds(T)'
<1>1. /\ UNCHANGED <<codec, frames, mux, sender, i, net, receiver, seen, latest, faults, jumped>>
      /\ setpacket(OtherPacket(ts, kind)) /\ others < MaxOthers /\ others' = others + 1
  BY DEF ReceiveOther, sending
<1>2. /\ StampsOK(T)'
      /\ demux'.rtp_buffer \in Seq(Unit) /\ demux'.timestamp \in 0..(TimestampModulus - 1)
      /\ delivered' \in Seq([timestamp : 0..(TimestampModulus - 1), data : Seq(Unit)])
  <2>1. PICK p : p = OtherPacket(ts, kind) /\ Fitting(T, p) /\ setpacket(p)
    BY <1>1, OtherFits
  <2> QED
    BY <2>1, SetpacketKeeps
<1>3. others' \in 0..MaxOthers /\ others' # 0
  <2>1. others \in 0..MaxOthers
    BY DEF Holds, RestOK
  <2> QED
    BY <1>1, <2>1, OthersAssumption
<1>4. RestOK'
  BY <1>1, <1>2, <1>3 DEF Holds, RestOK
<1>5. Len(frames) \in Nat
  BY DEF Holds, RestOK
<1>6. Grown
  BY <1>1, <1>5 DEF Grown
<1>7. From(LenOf(Len(frames)), i)' = From(LenOf(Len(frames)), i)
  BY <1>1 DEF From, LenOf, FrameLength, FirstByte, Fragmented
<1>8. MuxOK(T)'
  <2>1. LenOf(Len(frames))' = LenOf(Len(frames)) /\ CountOf(Len(frames))' = CountOf(Len(frames))
    BY <1>1 DEF LenOf, CountOf, FrameLength, PacketCount, FirstByte, Fragmented
  <2>2. Loaded(Len(frames), LenOf(Len(frames)), T[Len(frames)])' <=> Loaded(Len(frames), LenOf(Len(frames)), T[Len(frames)])
    BY <1>1 DEF Loaded, Packets, Packet, PacketCount, FirstByte, Fragmented, PayloadHeader, LenOf, FrameLength
  <2> QED
    BY <1>1, <2>1, <2>2 DEF Holds, MuxOK
<1>9. NetOK(T)'
  <2>1. \A n \in 1..Len(net) : \E j \in Nat : IsPacket(T, net[n], j)'
    BY <1>1, <1>5, <1>6, PacketKept DEF Holds, NetOK
  <2> QED
    BY <1>1, <1>7, <2>1 DEF Holds, NetOK
<1>10. Clock(T)'
  BY DEF Holds, Clock
<1> QED
  BY <1>2, <1>3, <1>4, <1>8, <1>9, <1>10 DEF Holds

-----------------------------------------------------------------------------
(* The theorems.                                                             *)

(* The invariant holds at the beginning. *)
LEMMA InitHolds ==
  ASSUME Init
  PROVE  IInv
<1>1. PICK v \in 0..(TimestampModulus - 1) : v = mux.timestamp_current
  <2>1. PICK c \in Joined : mux.timestamp_current = (c * timestamp_increse) % TimestampModulus
    BY DEF Init
  <2>2. PICK a \in Nat, M \in Nat \ {0} : a = c * timestamp_increse /\ M = TimestampModulus
    <3>1. c \in Nat /\ timestamp_increse \in Nat
      BY BoundsAssumption, TimestampsAssumption
    <3>2. PICK d \in Nat : d = timestamp_increse
      BY <3>1
    <3>3. c * d \in Nat
      BY <3>1
    <3>4. TimestampModulus \in Nat \ {0}
      BY TimestampsAssumption
    <3> QED
      BY <3>2, <3>3, <3>4
  <2>3. a % M \in 0..(M - 1)
    BY <2>2
  <2> QED
    BY <2>1, <2>2, <2>3
<1>2. PICK T : Clock(T) /\ T[1] = v
  BY ClockExists
<1>3. /\ frames = <<>> /\ net = <<>> /\ delivered = <<>> /\ sender = "frame" /\ codec \in Codec
      /\ demux.rtp_buffer = <<>> /\ demux.timestamp = 0 /\ mux.rtp_buffer = <<>>
      /\ receiver = "starting" /\ latest = 0 /\ faults = 0 /\ jumped = FALSE /\ others = 0
      /\ seen = [k \in 1..MaxFrames |-> 0]
  BY DEF Init
<1>4. \A S : <<>> \in Seq(S)
  OBVIOUS
<1>5. Len(frames) = 0 /\ Len(net) = 0 /\ Len(delivered) = 0
  BY <1>3
<1>6. RestOK
  <2>1. frames \in Seq(Frame) /\ demux.rtp_buffer \in Seq(Unit)
    BY <1>3, <1>4
  <2>2. delivered \in Seq([timestamp : 0..(TimestampModulus - 1), data : Seq(Unit)])
    BY <1>3, <1>4
  <2>3. Len(frames) <= MaxFrames /\ latest \in 0..Len(frames) /\ faults \in 0..MaxFaults
    BY <1>3, <1>5, BoundsAssumption
  <2>6. others \in 0..MaxOthers
    BY <1>3, OthersAssumption
  <2>4. demux.timestamp \in 0..(TimestampModulus - 1)
    BY <1>3, TimestampsAssumption
  <2>5. seen \in [1..MaxFrames -> Nat] /\ \A k \in 1..MaxFrames : k > Len(frames) => seen[k] = 0
    BY <1>3
  <2> QED
    BY <1>3, <2>1, <2>2, <2>3, <2>4, <2>5, <2>6 DEF RestOK
<1>7. MuxOK(T)
  <2>1. mux.timestamp_current = T[Len(frames) + 1]
    BY <1>1, <1>2, <1>5
  <2>2. mux.rtp_buffer \in Seq(Unit)
    BY <1>3, <1>4
  <2> QED
    BY <1>3, <2>1, <2>2 DEF MuxOK
<1>8. NetOK(T)
  <2>1. net \in Seq(Seq(Unit))
    BY <1>3, <1>4
  <2>2. 1..Len(net) = {}
    BY <1>5
  <2> QED
    BY <1>3, <2>1, <2>2 DEF NetOK
<1>9. BufferOK(T)
  BY <1>3 DEF BufferOK
<1>10. 1..Len(delivered) = {} /\ 1..Len(net) = {} /\ 1..Len(frames) = {}
  BY <1>5
<1>11. DeliveredOK
  BY <1>10 DEF DeliveredOK
<1>12. CutsOK
  BY <1>3, <1>10 DEF CutsOK
<1>13. WholeOK
  BY <1>3, <1>10 DEF WholeOK
<1>15. StampsOK(T)
  BY <1>3, <1>10 DEF StampsOK
<1>14. Holds(T)
  BY <1>2, <1>6, <1>7, <1>8, <1>9, <1>11, <1>12, <1>13, <1>15 DEF Holds, Lone
<1> QED
  BY <1>2, <1>14 DEF IInv, Clock

(* Every step keeps it. *)
LEMMA StepHolds ==
  ASSUME IInv, [Next]_vars
  PROVE  IInv'
<1>1. PICK T \in [1..(MaxFrames + 1) -> 0..(TimestampModulus - 1)] : Holds(T)
  BY DEF IInv
<1>2. sender \in {"frame", "packet", "end"} /\ receiver \in {"starting", "running", "crashed", "ended"}
  BY <1>1 DEF Holds, RestOK
<1>3. Holds(T)'
  <2>1. ASSUME NEW f \in Frame, GetFrame(f) PROVE Holds(T)'
    BY <1>1, <2>1, GetFrameKeeps
  <2>2. CASE FileEnds \/ SendFails
    <3>1. /\ UNCHANGED <<codec, frames, mux, i, net, demux, delivered, seen, latest, faults, others, jumped>>
          /\ sender' = "end" /\ receiver' = receiver
      BY <2>2 DEF FileEnds, SendFails, receiving
    <3> QED
      BY <1>1, <1>2, <3>1, OthersKeep
  <2>3. CASE SendPacket
    BY <1>1, <2>3, SendPacketKeeps
  <2>4. ASSUME NEW n \in 1..Len(net), Lose(n) PROVE Holds(T)'
    BY <1>1, <2>4, LoseKeeps
  <2>5. ASSUME NEW n \in 1..Len(net), NEW repeated \in BOOLEAN, Receive(n, repeated) PROVE Holds(T)'
    BY <1>1, <2>5, ReceiveKeeps
  <2>8. ASSUME NEW ts \in OtherTimestamp, NEW kind \in {"fu", "byte", "skip"}, ReceiveOther(ts, kind) PROVE Holds(T)'
    BY <1>1, <2>8, ReceiveOtherKeeps
  <2>6. CASE StartReceiver \/ ReadFails \/ ReceiverEnds
    <3>1. /\ UNCHANGED <<codec, frames, mux, i, net, demux, delivered, seen, latest, faults, others, jumped>>
          /\ sender' = sender /\ receiver' \in {"running", "crashed", "ended"}
      BY <2>6 DEF StartReceiver, ReadFails, ReceiverEnds, sending
    <3> QED
      BY <1>1, <1>2, <3>1, OthersKeep
  <2>7. CASE UNCHANGED vars
    <3>1. /\ UNCHANGED <<codec, frames, mux, i, net, demux, delivered, seen, latest, faults, others, jumped>>
          /\ sender' = sender /\ receiver' = receiver
      BY <2>7 DEF vars, sending, receiving
    <3> QED
      BY <1>1, <1>2, <3>1, OthersKeep
  <2> QED
    BY <2>1, <2>2, <2>3, <2>4, <2>5, <2>6, <2>7, <2>8 DEF Next
<1> QED
  BY <1>1, <1>3 DEF IInv

(* The inductive invariant: the timestamps that sendfile() gives to the frames, the       *)
(* packets in the order it sent them, and what setpacket() has put together from them.  *)
THEOREM Invariance == Spec => []IInv
<1>1. Init => IInv
  BY InitHolds
<1>2. IInv /\ [Next]_vars => IInv'
  BY StepHolds
<1> QED
  BY <1>1, <1>2, PTL DEF Spec

(* Type correctness: whatever sendfile() cuts a frame into, and whatever the network *)
(* does, setpacket()'s buffer and the packets are made of the known units, i stays   *)
(* within the packets of the frame, and the timestamps within their range.          *)
THEOREM TypesCorrect ==
  Spec => []TypeOK
<1>1. IInv => TypeOK
  <2> SUFFICES ASSUME IInv PROVE TypeOK
    OBVIOUS
  <2>1. PICK T : Holds(T)
    BY DEF IInv
  <2>2. mux.timestamp_current \in 0..(TimestampModulus - 1)
    <3>1. Len(frames) + 1 \in 1..(MaxFrames + 1)
      BY <2>1, BoundsAssumption DEF Holds, RestOK
    <3> QED
      BY <2>1, <3>1, StampOK DEF Holds, MuxOK
  <2>3. sender = "packet" => i \in 1..mux.packet_count
    BY <2>1 DEF Holds, MuxOK, Loaded, CountOf
  <2> QED
    BY <2>1, <2>2, <2>3 DEF Holds, RestOK, MuxOK, NetOK, TypeOK
<1> QED
  BY <1>1, Invariance, PTL

(* The packets sendfile() finds in rtp_buffer carry the frame, for every length of    *)
(* frame and of packet and each of the three muxers.                                *)
THEOREM FramesCutRight ==
  Spec => []PacketsCarryFrame
<1>1. IInv => PacketsCarryFrame
  <2> SUFFICES ASSUME IInv PROVE PacketsCarryFrame
    OBVIOUS
  <2>1. PICK T : Holds(T)
    BY DEF IInv
  <2>2. CASE sender = "packet"
    <3>1. codec \in Codec /\ frames \in Seq(Frame) /\ Len(frames) \in Nat /\ Len(frames) <= MaxFrames
      BY <2>1 DEF Holds, RestOK
    <3>2. PICK k \in Nat : k = Len(frames) /\ k > 0 /\ Loaded(k, LenOf(k), T[k])
      BY <2>1, <2>2, <3>1 DEF Holds, MuxOK
    <3>3. T[k] \in Nat
      <4>1. k \in 1..(MaxFrames + 1)
        BY <3>1, <3>2, BoundsAssumption
      <4> QED
        BY <2>1, <4>1, StampOK DEF Holds
    <3> QED
      BY <3>1, <3>2, <3>3, LoadedCarries
  <2>3. CASE sender # "packet"
    BY <2>3 DEF PacketsCarryFrame
  <2> QED
    BY <2>2, <2>3
<1> QED
  BY <1>1, Invariance, PTL

(* The elements of delivered, counted. *)
LEMMA DeliveredSet ==
  ASSUME NEW d \in ToSet(delivered)
  PROVE  \E n \in 1..Len(delivered) : d = delivered[n]
  BY DEF ToSet

(* What framecallback is given has bytes of at most one frame of the file, and, of other    *)
(* participants, only of a frame with the same timestamp, whatever is lost, repeated,       *)
(* overtaken or mixed in.                                                                 *)
THEOREM OneFrameAtATime ==
  Spec => []FragmentsOfOneFrame
<1>1. IInv => FragmentsOfOneFrame
  <2> SUFFICES ASSUME IInv, NEW d \in ToSet(delivered)
               PROVE  /\ Len(d.data) > 1 /\ d.data[1] = Start
                      /\ \A m, n \in 2..Len(d.data) :
                           Own(d.data[m]) /\ Own(d.data[n]) => d.data[m][2] = d.data[n][2]
                      /\ \A n \in 2..Len(d.data) : Other(d.data[n]) => d.data[n][2] = OtherFrame(d.timestamp)
    BY DEF FragmentsOfOneFrame
  <2>1. PICK T : Holds(T)
    BY DEF IInv
  <2>2. PICK l \in 1..Len(delivered) : d = delivered[l]
    BY DeliveredSet
  <2>3. Stamped(T, d.data, d.timestamp)
    BY <2>1, <2>2 DEF Holds, StampsOK
  <2>4. d.data \in Seq(Unit) /\ Len(d.data) > 1 /\ d.data[1] = Start
    BY <2>3 DEF Stamped, AllFit
  <2>5. ASSUME NEW n \in 2..Len(d.data)
        PROVE  \E k \in Nat : k = d.data[n][2] /\ FrameFits(T, k, d.timestamp)
    <3>1. n \in 1..Len(d.data)
      BY <2>4
    <3>2. FrameFits(T, d.data[n][2], d.timestamp) /\ d.data[n] \in Unit
      BY <2>3, <2>4, <3>1 DEF Stamped, AllFit
    <3>3. d.data[n][2] \in Nat
      BY <3>2 DEF Unit
    <3> QED
      BY <3>2, <3>3
  <2>6. d.timestamp \in Nat
    <3>1. delivered \in Seq([timestamp : 0..(TimestampModulus - 1), data : Seq(Unit)])
      BY <2>1 DEF Holds, RestOK
    <3>2. delivered[l] \in [timestamp : 0..(TimestampModulus - 1), data : Seq(Unit)]
      <4>1. ASSUME NEW S, NEW s \in Seq(S), NEW n \in 1..Len(s) PROVE s[n] \in S
        OBVIOUS
      <4> QED
        BY <3>1, <4>1
    <3>3. d.timestamp \in 0..(TimestampModulus - 1)
      BY <2>2, <3>2
    <3> QED
      BY <3>3, TimestampsAssumption
  <2>7. PICK t \in Nat : t = d.timestamp
    BY <2>6
  <2>8. ASSUME NEW k \in Nat, FrameFits(T, k, t)
        PROVE  /\ k \in 1..MaxFrames => T[k] = t
               /\ k > MaxFrames => k = OtherFrame(t)
    <3>1. MaxFrames \in Nat /\ OtherFrame(t) = MaxFrames + 1 + t
      BY BoundsAssumption DEF OtherFrame
    <3>2. k = 0 \/ (k \in 1..MaxFrames /\ T[k] = t) \/ k = OtherFrame(t)
      BY <2>8 DEF FrameFits
    <3> QED
      BY <3>1, <3>2
  <2>9. ASSUME NEW m \in 2..Len(d.data), NEW n \in 2..Len(d.data), Own(d.data[m]), Own(d.data[n])
        PROVE  d.data[m][2] = d.data[n][2]
    <3>1. PICK k \in Nat, h \in Nat : k = d.data[m][2] /\ h = d.data[n][2] /\ FrameFits(T, k, t) /\ FrameFits(T, h, t)
      BY <2>5, <2>7
    <3>2. k \in 1..MaxFrames /\ h \in 1..MaxFrames
      BY <2>9, <3>1 DEF Own
    <3>3. T[k] = t /\ T[h] = t
      BY <2>8, <3>1, <3>2
    <3>4. k = h
      BY <2>1, <3>2, <3>3, StampsDiffer DEF Holds
    <3> QED
      BY <3>1, <3>4
  <2>10. ASSUME NEW n \in 2..Len(d.data), Other(d.data[n]) PROVE d.data[n][2] = OtherFrame(d.timestamp)
    <3>1. PICK k \in Nat : k = d.data[n][2] /\ FrameFits(T, k, t)
      BY <2>5, <2>7
    <3>2. k > MaxFrames
      BY <2>10, <3>1 DEF Other
    <3> QED
      BY <2>7, <2>8, <3>1, <3>2
  <2> QED
    BY <2>4, <2>9, <2>10
<1> QED
  BY <1>1, Invariance, PTL

(* When only packets of one sender come and they are only lost, frames come in order,      *)
(* none twice, and the bytes of each in order.                                           *)
THEOREM LossCutsOnly ==
  Spec => []LossOnlyCuts
<1>1. IInv => LossOnlyCuts
  <2> SUFFICES ASSUME IInv, faults = 0, others = 0
               PROVE  /\ \A m, n \in 1..Len(delivered) :
                           m < n => delivered[m].data[2][2] < delivered[n].data[2][2]
                      /\ \A d \in ToSet(delivered) : \A m, n \in 2..Len(d.data) :
                           m < n => d.data[m][3] < d.data[n][3]
    BY DEF LossOnlyCuts
  <2>1. PICK T : Holds(T)
    BY DEF IInv
  <2>2. \A m, n \in 1..Len(delivered) : m < n => delivered[m].data[2][2] < delivered[n].data[2][2]
    BY <2>1 DEF Holds, Lone, CutsOK
  <2>3. ASSUME NEW d \in ToSet(delivered), NEW m \in 2..Len(d.data), NEW n \in 2..Len(d.data), m < n
        PROVE  d.data[m][3] < d.data[n][3]
    <3>1. PICK l \in 1..Len(delivered) : d = delivered[l]
      BY DeliveredSet
    <3>2. Rising(d.data) /\ Assembles(d.data)
      BY <2>1, <3>1 DEF Holds, Lone, CutsOK, DeliveredOK
    <3>3. Len(d.data) \in Nat
      BY <3>2 DEF Assembles
    <3>4. m \in 1..Len(d.data) /\ n \in 1..Len(d.data)
      BY <3>3
    <3> QED
      BY <2>3, <3>2, <3>4 DEF Rising
  <2> QED
    BY <2>2, <2>3
<1> QED
  BY <1>1, Invariance, PTL

(* When only packets of one sender come and they are only lost, never for too long, a       *)
(* frame of which every packet arrived is delivered byte by byte, also while the          *)
(* timestamps start again at 0.                                                          *)
THEOREM CompleteFramesDelivered ==
  Spec => []WholeFramesDelivered
<1>1. IInv => WholeFramesDelivered
  <2> SUFFICES ASSUME IInv, faults = 0, others = 0, ~jumped, NEW k \in 1..Len(frames), k < latest, Copied(k),
                      seen[k] = PacketCount(FrameLength(frames[k]))
               PROVE  \E d \in ToSet(delivered) : d.data = <<Start>> \o Bytes(k, 1, FrameLength(frames[k]))
    BY DEF WholeFramesDelivered
  <2>1. PICK T : Holds(T)
    BY DEF IInv
  <2>2. seen[k] = CountOf(k)
    BY DEF CountOf, LenOf
  <2>3. PICK n \in 1..Len(delivered) : delivered[n].data = Whole(k, LenOf(k))
    BY <2>1, <2>2 DEF Holds, Lone, WholeOK
  <2>4. delivered[n] \in ToSet(delivered)
    BY DEF ToSet
  <2> QED
    BY <2>3, <2>4 DEF Whole, LenOf
<1> QED
  BY <1>1, Invariance, PTL

=============================================================================
