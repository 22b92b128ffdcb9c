---------------------------- MODULE PlayerProofs ----------------------------
(***************************************************************************)
(* The safety properties of Player for every set of packets, every period    *)
(* and every threshold.                                                      *)
(*                                                                          *)
(* VideoNotAhead: the test of the clocks is stale when the frame is shown,    *)
(* so the property alone is not inductive.  It needs that the audio clock     *)
(* never goes back, which AudioOrdered says of the queue it is taken from.    *)
(* AudioGapless: copying moves bytes from the front of what is left in the    *)
(* queue to the end of what was written, whole packets or parts of one.      *)
(***************************************************************************)
EXTENDS Player, DataLemmas

(* The part of TypeOK that the clocks depend on. *)
ClockTypes ==
  /\ packet \in [pts : Nat, size : Nat]
  /\ apts \in Nat
  /\ queueVideoFrame \in Seq(Nat)
  /\ queueAudioFrame \in Seq(AudioPacket)
  /\ lfVideoClock \in Nat /\ lfAudioClock \in Nat
  /\ length \in Int

(* What VideoNotAhead rests on: audio packets are queued in the order of their  *)
(* clocks and the audio clock is that of one already taken, so it only grows.   *)
AudioOrdered ==
  /\ \A k \in 1..Len(queueAudioFrame) : queueAudioFrame[k].pts \in lfAudioClock..apts
  /\ \A j, k \in 1..Len(queueAudioFrame) :
       j <= k => queueAudioFrame[j].pts <= queueAudioFrame[k].pts
  /\ lfAudioClock <= apts
  /\ reader = "audio" => packet.pts = apts

(* The inductive invariant. *)
IInv == ClockTypes /\ AudioOrdered /\ VideoNotAhead

(* Nothing is queued at first, and no frame is being shown. *)
LEMMA InitClocks == Init => IInv
  BY DEF Init, IInv, ClockTypes, AudioOrdered, VideoNotAhead

(* The packet a callback works on: its clock is the least of the queue. *)
LEMMA FrontPacket ==
  ASSUME IInv, queueAudioFrame # <<>>
  PROVE  /\ pPacket \in AudioPacket /\ pPacket = queueAudioFrame[1]
         /\ Len(queueAudioFrame) \in Nat \ {0}
         /\ pPacket.pts \in lfAudioClock..apts
         /\ \A k \in 1..Len(queueAudioFrame) : pPacket.pts <= queueAudioFrame[k].pts
<1>1. queueAudioFrame \in Seq(AudioPacket)
  BY DEF IInv, ClockTypes
<1>2. Len(queueAudioFrame) \in Nat \ {0} /\ pPacket \in AudioPacket /\ pPacket = queueAudioFrame[1]
  BY <1>1 DEF pPacket
<1> QED
  BY <1>2 DEF IInv, AudioOrdered

(* A frame about to be shown after the test stays not ahead when the audio      *)
(* clock moves to the front packet's.                                          *)
LEMMA ClockAdvances ==
  ASSUME IInv, queueAudioFrame # <<>>, lfAudioClock' = pPacket.pts,
         UNCHANGED <<video, iVideoLen, iAudioLen, lfVideoClock>>
  PROVE  VideoNotAhead'
<1>1. lfAudioClock' \in Nat /\ lfAudioClock \in Nat /\ lfAudioClock' >= lfAudioClock
  BY FrontPacket DEF IInv, ClockTypes, AudioPacket
<1>2. lfVideoClock \in Nat /\ Threshold \in Nat
  BY ThresholdAssumption DEF IInv, ClockTypes
<1> QED
  BY <1>1, <1>2 DEF IInv, VideoNotAhead

(* Using up a part of the front packet changes no clock in the queue. *)
LEMMA UsageLemma ==
  ASSUME NEW s \in Seq(AudioPacket), s # <<>>, NEW u \in Nat
  PROVE  LET t == [s EXCEPT ![1].used = u]
         IN  /\ t \in Seq(AudioPacket) /\ Len(t) = Len(s)
             /\ \A k \in 1..Len(s) : t[k].pts = s[k].pts
<1> DEFINE p == [s[1] EXCEPT !.used = u]
<1> DEFINE t == [s EXCEPT ![1] = p]
<1>1. 1 \in 1..Len(s) /\ s[1] \in AudioPacket
  OBVIOUS
<1>2. p \in AudioPacket /\ p.pts = s[1].pts
  BY <1>1 DEF AudioPacket
<1>3. t = [s EXCEPT ![1].used = u]
  BY <1>1
<1> HIDE DEF p
<1>4. t \in Seq(AudioPacket) /\ Len(t) = Len(s)
  BY <1>1, <1>2
<1>5. \A k \in 1..Len(s) : t[k] = IF k = 1 THEN p ELSE s[k]
  BY <1>1
<1> QED
  BY <1>2, <1>3, <1>4, <1>5

(* Reading an audio packet moves the clock of the next one and no other. *)
LEMMA PacketRead ==
  ASSUME ClockTypes, AudioOrdered, apts' = apts + 1,
         UNCHANGED <<queueAudioFrame, lfAudioClock>>,
         reader' = "audio" => packet'.pts = apts'
  PROVE  AudioOrdered'
<1>1. apts \in Nat /\ lfAudioClock \in Nat /\ lfAudioClock <= apts
  BY DEF ClockTypes, AudioOrdered
<1>2. lfAudioClock..apts \subseteq lfAudioClock..(apts + 1) /\ lfAudioClock <= apts + 1
  BY <1>1
<1>3. \A k \in 1..Len(queueAudioFrame) : queueAudioFrame[k].pts \in lfAudioClock..(apts + 1)
  BY <1>2, Zenon DEF AudioOrdered
<1> QED
  BY <1>2, <1>3, Zenon DEF AudioOrdered

(* Every step keeps the types, the order of the queue and the test. *)
LEMMA NextClocks == IInv /\ [Next]_vars => IInv'
<1> SUFFICES ASSUME IInv, [Next]_vars PROVE IInv'
  OBVIOUS
<1>0. ClockTypes /\ AudioOrdered /\ VideoNotAhead
  BY DEF IInv
<1> USE <1>0
<1> USE DEF reading, showing, sounding
<1>1. CASE Open \/ ReadEnds \/ player_close
  BY <1>1 DEF Open, ReadEnds, player_close, IInv, ClockTypes, AudioOrdered, VideoNotAhead
<1>2. CASE ReadOther
  BY <1>2 DEF ReadOther, NextPacket, IInv, ClockTypes, AudioOrdered, VideoNotAhead
<1>3. CASE ReadVideo
  <2>1. packet' \in [pts : Nat, size : Nat] /\ reader' = "video" /\ video' \in {video, "size"}
    BY <1>3, PtsAssumption DEF ReadVideo
  <2> QED
    BY <1>3, <2>1 DEF ReadVideo, IInv, ClockTypes, AudioOrdered, VideoNotAhead
<1>4. CASE PushVideo
  <2>1. queueVideoFrame' \in Seq(Nat)
    BY <1>4 DEF PushVideo, ClockTypes
  <2> QED
    BY <1>4, <2>1 DEF PushVideo, IInv, ClockTypes, AudioOrdered, VideoNotAhead
<1>5. CASE ReadAudio
  <2>1. packet' \in [pts : Nat, size : Nat] /\ packet'.pts = apts' /\ apts' = apts + 1
    BY <1>5, SizeAssumption DEF ReadAudio, ClockTypes
  <2>2. AudioOrdered'
    BY <1>5, <2>1, PacketRead DEF ReadAudio
  <2> QED
    BY <1>5, <2>1, <2>2 DEF ReadAudio, IInv, ClockTypes, VideoNotAhead
<1>6. CASE AudioUndecoded \/ DeviceFails
  <2>1. apts' = apts + 1 /\ reader' # "audio" /\ UNCHANGED <<queueAudioFrame, lfAudioClock, packet>>
    BY <1>6 DEF AudioUndecoded, DeviceFails, NextPacket
  <2>2. AudioOrdered'
    BY <2>1, PacketRead
  <2> QED
    BY <1>6, <2>1, <2>2 DEF AudioUndecoded, DeviceFails, IInv, ClockTypes, VideoNotAhead
<1>7. CASE PushAudio
  <2> DEFINE n == Len(queueAudioFrame)
  <2> DEFINE e == [pts |-> packet.pts, size |-> packet.size, used |-> 0]
  <2>1. e \in AudioPacket /\ queueAudioFrame \in Seq(AudioPacket) /\ n \in Nat /\ e.pts = apts
    BY <1>7 DEF PushAudio, ClockTypes, AudioOrdered, AudioPacket
  <2>2. queueAudioFrame' = Append(queueAudioFrame, e)
    BY <1>7 DEF PushAudio
  <2> HIDE DEF e
  <2>3. /\ queueAudioFrame' \in Seq(AudioPacket) /\ Len(queueAudioFrame') = n + 1
        /\ \A k \in 1..n : queueAudioFrame'[k] = queueAudioFrame[k]
        /\ queueAudioFrame'[n + 1] = e
    BY <2>1, <2>2
  <2>4. UNCHANGED <<lfAudioClock, apts>> /\ reader' = "read"
    BY <1>7 DEF PushAudio
  <2>5. AudioOrdered'
    <3>1. \A k \in 1..(n + 1) : queueAudioFrame'[k].pts \in lfAudioClock..apts
      <4> SUFFICES ASSUME NEW k \in 1..(n + 1) PROVE queueAudioFrame'[k].pts \in lfAudioClock..apts
        OBVIOUS
      <4>1. CASE k \in 1..n
        BY <2>3, <4>1 DEF AudioOrdered
      <4>2. CASE k = n + 1
        BY <2>1, <2>3, <4>2 DEF AudioOrdered, ClockTypes
      <4> QED
        BY <2>1, <4>1, <4>2
    <3>2. \A j, k \in 1..(n + 1) : j <= k => queueAudioFrame'[j].pts <= queueAudioFrame'[k].pts
      <4> SUFFICES ASSUME NEW j \in 1..(n + 1), NEW k \in 1..(n + 1), j <= k
                   PROVE  queueAudioFrame'[j].pts <= queueAudioFrame'[k].pts
        OBVIOUS
      <4>1. CASE k = n + 1
        BY <2>1, <2>3, <3>1, <4>1 DEF ClockTypes
      <4>2. CASE j \in 1..n /\ k \in 1..n
        BY <2>3, <4>2 DEF AudioOrdered
      <4> QED
        BY <2>1, <4>1, <4>2
    <3> QED
      BY <2>3, <2>4, <3>1, <3>2 DEF AudioOrdered
  <2> QED
    BY <1>7, <2>3, <2>5 DEF PushAudio, IInv, ClockTypes, VideoNotAhead
<1>8. CASE SeeVideo \/ SeeAudio
  BY <1>8 DEF SeeVideo, SeeAudio, IInv, ClockTypes, AudioOrdered, VideoNotAhead
<1>9. CASE TestClock
  <2>1. VideoNotAhead'
    BY <1>9, ThresholdAssumption DEF TestClock, Apart, VideoNotAhead, ClockTypes
  <2> QED
    BY <1>9, <2>1 DEF TestClock, IInv, ClockTypes, AudioOrdered
<1>10. CASE NothingToShow \/ WindowFails
  BY <1>10 DEF NothingToShow, WindowFails, Showing, IInv, ClockTypes, AudioOrdered, VideoNotAhead
<1>11. CASE VideoUndecoded \/ Show
  <2>1. /\ queueVideoFrame' \in Seq(Nat) /\ lfVideoClock' \in Nat /\ video' = "size"
        /\ UNCHANGED <<reader, packet, apts, queueAudioFrame, lfAudioClock, length>>
    <3>1. queueVideoFrame \in Seq(Nat) /\ queueVideoFrame # <<>> /\ lfVideoClock \in Nat
      BY <1>11 DEF VideoUndecoded, Show, Showing, ClockTypes
    <3>2. Tail(queueVideoFrame) \in Seq(Nat) /\ Head(queueVideoFrame) \in Nat
      BY <3>1
    <3>3. CASE VideoUndecoded
      BY <3>1, <3>2, <3>3 DEF VideoUndecoded
    <3>4. CASE Show
      BY <3>2, <3>4 DEF Show
    <3> QED
      BY <1>11, <3>3, <3>4
  <2> QED
    BY <2>1 DEF IInv, ClockTypes, AudioOrdered, VideoNotAhead
<1>12. CASE AudioCallback
  BY <1>12, SizeAssumption DEF AudioCallback, IInv, ClockTypes, AudioOrdered, VideoNotAhead
<1>13. CASE CopyRest
  <2> DEFINE n == Len(queueAudioFrame)
  <2>1. queueAudioFrame # <<>> /\ lfAudioClock' = pPacket.pts
    BY <1>13 DEF CopyRest, Filling
  <2>2. VideoNotAhead'
    BY <1>13, <2>1, ClockAdvances DEF CopyRest
  <2>3. /\ queueAudioFrame' \in Seq(AudioPacket) /\ n \in Nat \ {0}
        /\ Len(queueAudioFrame') = n - 1
        /\ \A k \in 1..(n - 1) : queueAudioFrame'[k] = queueAudioFrame[k + 1]
    BY <1>13, <2>1, FrontPacket DEF CopyRest, ClockTypes
  <2>4. /\ lfAudioClock' \in Nat /\ length' \in Int /\ pPacket.pts \in Nat
        /\ UNCHANGED <<reader, packet, apts, queueVideoFrame, lfVideoClock>>
    BY <1>13, <2>1, FrontPacket DEF CopyRest, ClockTypes, AudioPacket, len1, iPacketSize
  <2>5. AudioOrdered'
    <3>1. ASSUME NEW k \in 1..(n - 1)
          PROVE  queueAudioFrame'[k].pts \in lfAudioClock'..apts'
      <4>1. k + 1 \in 1..n /\ queueAudioFrame'[k] = queueAudioFrame[k + 1]
        BY <2>3
      <4>2. queueAudioFrame[k + 1].pts \in lfAudioClock..apts /\ pPacket.pts <= queueAudioFrame[k + 1].pts
        BY <2>1, <4>1, FrontPacket DEF AudioOrdered
      <4> QED
        BY <2>1, <2>4, <4>1, <4>2 DEF ClockTypes
    <3>2. ASSUME NEW j \in 1..(n - 1), NEW k \in 1..(n - 1), j <= k
          PROVE  queueAudioFrame'[j].pts <= queueAudioFrame'[k].pts
      <4>1. j + 1 \in 1..n /\ k + 1 \in 1..n /\ j + 1 <= k + 1
        BY <2>3, <3>2
      <4>2. queueAudioFrame'[j] = queueAudioFrame[j + 1] /\ queueAudioFrame'[k] = queueAudioFrame[k + 1]
        BY <2>3
      <4> QED
        BY <4>1, <4>2 DEF AudioOrdered
    <3>3. lfAudioClock' <= apts'
      BY <2>1, <2>4, FrontPacket DEF ClockTypes
    <3> QED
      BY <2>3, <2>4, <3>1, <3>2, <3>3 DEF AudioOrdered
  <2> QED
    BY <2>2, <2>3, <2>4, <2>5 DEF IInv, ClockTypes
<1>14. CASE CopyPart
  <2> DEFINE n == Len(queueAudioFrame)
  <2>1. queueAudioFrame # <<>> /\ lfAudioClock' = pPacket.pts /\ length > 0
    BY <1>14 DEF CopyPart, Filling
  <2>2. VideoNotAhead'
    BY <1>14, <2>1, ClockAdvances DEF CopyPart
  <2>3. n \in Nat \ {0} /\ NewUsage \in Nat /\ queueAudioFrame \in Seq(AudioPacket)
    BY <2>1, FrontPacket, SMTT(20) DEF ClockTypes, NewUsage, AudioPacket
  <2>4. /\ queueAudioFrame' \in Seq(AudioPacket) /\ Len(queueAudioFrame') = n
        /\ \A k \in 1..n : queueAudioFrame'[k].pts = queueAudioFrame[k].pts
    BY <1>14, <2>1, <2>3, UsageLemma DEF CopyPart
  <2>5. /\ lfAudioClock' \in Nat /\ length' \in Int /\ pPacket.pts \in Nat
        /\ UNCHANGED <<reader, packet, apts, queueVideoFrame, lfVideoClock>>
    BY <1>14, <2>1, FrontPacket DEF CopyPart, ClockTypes, AudioPacket, len1, iPacketSize
  <2>6. AudioOrdered'
    <3>1. ASSUME NEW k \in 1..n PROVE queueAudioFrame'[k].pts \in lfAudioClock'..apts'
      <4>1. queueAudioFrame[k].pts \in lfAudioClock..apts /\ pPacket.pts <= queueAudioFrame[k].pts
        BY <2>1, FrontPacket DEF AudioOrdered
      <4> QED
        BY <2>1, <2>4, <2>5, <4>1 DEF ClockTypes
    <3>2. \A j, k \in 1..n : j <= k => queueAudioFrame'[j].pts <= queueAudioFrame'[k].pts
      BY <2>4 DEF AudioOrdered
    <3>3. lfAudioClock' <= apts'
      BY <2>1, <2>5, FrontPacket DEF ClockTypes
    <3> QED
      BY <2>4, <2>5, <3>1, <3>2, <3>3 DEF AudioOrdered
  <2> QED
    BY <2>2, <2>4, <2>5, <2>6 DEF IInv, ClockTypes
<1>15. CASE CallbackReturns
  BY <1>15 DEF CallbackReturns, IInv, ClockTypes, AudioOrdered, VideoNotAhead
<1>16. CASE UNCHANGED vars
  BY <1>16 DEF vars, IInv, ClockTypes, AudioOrdered, VideoNotAhead
<1> QED
  BY <1>1, <1>2, <1>3, <1>4, <1>5, <1>6, <1>7, <1>8, <1>9, <1>10, <1>11, <1>12, <1>13,
     <1>14, <1>15, <1>16 DEF Next, Reader, VideoThread, AudioThread

(* Whatever the file holds and however the three threads interleave, a frame    *)
(* that VideoThread shows after testing the clocks does not replace one that    *)
(* is ahead of the sound by more than the threshold.                           *)
THEOREM VideoStaysInStep == Spec => []VideoNotAhead
<1>1. IInv => VideoNotAhead
  BY DEF IInv
<1> QED
  BY <1>1, InitClocks, NextClocks, PTL DEF Spec

-----------------------------------------------------------------------------
(* The sound.  AudioGapless needs that no packet is used beyond its size, and   *)
(* that a callback begins with nothing written.                                *)

PacketsUsed == \A k \in 1..Len(queueAudioFrame) : queueAudioFrame[k].used <= queueAudioFrame[k].size
StreamIdle == calling \/ stream = <<>>
VideoRead == reader = "video" => packet.pts \in VideoPts

(* The inductive invariant of the sound. *)
SoundInv == TypeOK /\ VideoRead /\ PacketsUsed /\ StreamIdle /\ AudioGapless

Byte == Nat \X Nat
Rests(q) == [k \in 1..Len(q) |-> Rest(q[k])]
Usable(p) == p \in AudioPacket /\ p.used <= p.size

(* The bytes of a packet. *)
LEMMA BytesType ==
  ASSUME NEW p, p.pts \in Nat, NEW from \in Nat, NEW n \in Nat
  PROVE  Bytes(p, from, n) \in Seq(Byte) /\ Len(Bytes(p, from, n)) = n
<1>1. \A k \in 1..n : <<p.pts, from + k>> \in Byte
  BY DEF Byte
<1> DEFINE f == [k \in 1..n |-> <<p.pts, from + k>>]
<1>2. f \in [1..n -> Byte]
  BY <1>1
<1>3. f = Bytes(p, from, n)
  BY DEF Bytes
<1> HIDE DEF f
<1> QED
  BY <1>2, <1>3

SamePts(p, r) == p.pts \in Nat /\ r.pts = p.pts

(* Two stretches of a packet, one after the other. *)
LEMMA BytesJoin ==
  ASSUME NEW p, NEW r, SamePts(p, r), NEW from \in Nat, NEW m \in Nat, NEW n \in Nat
  PROVE  Joins(Bytes(p, from, m), Bytes(r, from + m, n), Bytes(p, from, m + n))
<1> DEFINE a == Bytes(p, from, m)
           b == Bytes(r, from + m, n)
           c == Bytes(p, from, m + n)
<1>0. p.pts \in Nat /\ r.pts = p.pts /\ from + m \in Nat /\ m + n \in Nat
  BY DEF SamePts
<1>1. a \in Seq(Byte) /\ Len(a) = m /\ b \in Seq(Byte) /\ Len(b) = n /\ c \in Seq(Byte) /\ Len(c) = m + n
  <2>1. a \in Seq(Byte) /\ Len(a) = m
    BY <1>0, BytesType
  <2>2. b \in Seq(Byte) /\ Len(b) = n
    BY <1>0, BytesType
  <2>3. c \in Seq(Byte) /\ Len(c) = m + n
    BY <1>0, BytesType
  <2> QED
    BY <2>1, <2>2, <2>3
<1>2. a \o b \in Seq(Byte) /\ Len(a \o b) = m + n
  BY <1>1
<1>3. \A k \in 1..(m + n) : (a \o b)[k] = IF k <= m THEN a[k] ELSE b[k - m]
  BY <1>1, ConcatProperties
<1>4. \A k \in 1..(m + n) : c[k] = <<p.pts, from + k>>
  BY DEF Bytes
<1>5. \A k \in 1..m : a[k] = <<p.pts, from + k>>
  BY DEF Bytes
<1>6. \A k \in 1..n : b[k] = <<p.pts, (from + m) + k>>
  BY <1>0 DEF Bytes
<1> HIDE DEF a, b, c
<1>7. ASSUME NEW k \in 1..(m + n) PROVE (a \o b)[k] = c[k]
  <2>1. CASE k <= m
    <3>1. k \in 1..m
      BY <2>1
    <3> QED
      BY <1>3, <1>4, <1>5, <2>1, <3>1
  <2>2. CASE k > m
    <3>1. k - m \in 1..n /\ (from + m) + (k - m) = from + k /\ ~(k <= m)
      BY <2>2
    <3>2. b[k - m] = <<p.pts, from + k>>
      BY <1>6, <3>1
    <3> QED
      BY <1>3, <1>4, <3>1, <3>2
  <2>3. k <= m \/ k > m
    OBVIOUS
  <2> QED
    BY <2>1, <2>2, <2>3, Zenon
<1>8. a \o b = c
  BY <1>1, <1>2, <1>7, SeqEqual
<1> QED
  BY <1>8 DEF a, b, c, Joins

(* What is left of a packet. *)
LEMMA RestType ==
  ASSUME NEW p, Usable(p)
  PROVE  Rest(p) \in Seq(Byte) /\ Len(Rest(p)) = p.size - p.used
<1>1. p.pts \in Nat /\ p.used \in Nat /\ p.size - p.used \in Nat
  BY DEF Usable, AudioPacket
<1> QED
  BY <1>1, BytesType DEF Rest

(* What is left of the packets of a queue. *)
LEMMA RestsType ==
  ASSUME NEW q \in Seq(AudioPacket), \A k \in 1..Len(q) : Usable(q[k])
  PROVE  Rests(q) \in Seq(Seq(Byte)) /\ Len(Rests(q)) = Len(q)
<1>1. \A k \in 1..Len(q) : Rest(q[k]) \in Seq(Byte)
  BY RestType
<1>2. Len(q) \in Nat
  OBVIOUS
<1>3. Rests(q) \in [1..Len(q) -> Seq(Byte)]
  BY <1>1 DEF Rests
<1> QED
  BY <1>2, <1>3

(* A packet is queued behind the others. *)
LEMMA RestsAppend ==
  ASSUME NEW q \in Seq(AudioPacket), \A k \in 1..Len(q) : Usable(q[k]), NEW e, Usable(e)
  PROVE  FlattenSeq(Rests(Append(q, e))) = FlattenSeq(Rests(q)) \o Rest(e)
<1> DEFINE t == Append(q, e)
<1>0. e \in AudioPacket
  BY DEF Usable
<1>1. /\ t \in Seq(AudioPacket) /\ Len(q) \in Nat /\ Len(t) = Len(q) + 1
      /\ t[Len(q) + 1] = e /\ \A k \in 1..Len(q) : t[k] = q[k]
  BY <1>0, AppendElement
<1> HIDE DEF t
<1>2. \A k \in 1..Len(t) : Usable(t[k])
  BY <1>1
<1>3. Rests(t) \in Seq(Seq(Byte)) /\ Len(Rests(t)) = Len(q) + 1
  BY <1>1, <1>2, RestsType
<1>4. Rests(q) \in Seq(Seq(Byte)) /\ Len(Rests(q)) = Len(q) /\ Rest(e) \in Seq(Byte)
  BY RestsType, RestType
<1> DEFINE u == Append(Rests(q), Rest(e))
<1>5. /\ u \in Seq(Seq(Byte)) /\ Len(u) = Len(q) + 1 /\ u[Len(q) + 1] = Rest(e)
      /\ \A k \in 1..Len(q) : u[k] = Rests(q)[k]
  BY <1>1, <1>4, AppendElement
<1> HIDE DEF u
<1>6. ASSUME NEW k \in 1..(Len(q) + 1) PROVE Rests(t)[k] = u[k]
  <2>1. Rests(t)[k] = Rest(t[k])
    BY <1>1 DEF Rests
  <2>2. CASE k = Len(q) + 1
    BY <1>1, <1>5, <2>1, <2>2
  <2>3. CASE k \in 1..Len(q)
    <3>1. Rests(q)[k] = Rest(q[k])
      BY <2>3 DEF Rests
    <3> QED
      BY <1>1, <1>5, <2>1, <2>3, <3>1
  <2> QED
    BY <1>1, <2>2, <2>3
<1>7. Rests(t) = u
  BY <1>3, <1>5, <1>6, SeqEqual
<1>8. FlattenSeq(u) = FlattenSeq(Rests(q)) \o Rest(e)
  BY <1>4, FlattenAppend DEF u
<1> QED
  BY <1>7, <1>8 DEF t

(* The first packet of a queue and the others. *)
LEMMA RestsFirst ==
  ASSUME NEW q \in Seq(AudioPacket), q # <<>>, \A k \in 1..Len(q) : Usable(q[k])
  PROVE  /\ FlattenSeq(Rests(q)) = Rest(q[1]) \o FlattenSeq(Rests(Tail(q)))
         /\ FlattenSeq(Rests(Tail(q))) \in Seq(Byte)
<1> DEFINE t == Tail(q)
           n == Len(q)
<1>1. /\ t \in Seq(AudioPacket) /\ n \in Nat \ {0} /\ Len(t) = n - 1
      /\ \A k \in 1..(n - 1) : t[k] = q[k + 1] /\ k + 1 \in 1..n
  OBVIOUS
<1>2. 1 \in 1..n
  BY <1>1
<1>3. \A k \in 1..(n - 1) : Usable(t[k])
  BY <1>1
<1>4. Rests(q) \in Seq(Seq(Byte)) /\ Len(Rests(q)) = n
  BY RestsType
<1> HIDE DEF t
<1>5. Rests(t) \in Seq(Seq(Byte)) /\ Len(Rests(t)) = n - 1
  BY <1>1, <1>3, RestsType
<1> DEFINE u == Tail(Rests(q))
<1>6. Rests(q) # <<>>
  BY <1>1, <1>4
<1>7. /\ u \in Seq(Seq(Byte)) /\ Len(u) = n - 1
      /\ \A k \in 1..(n - 1) : u[k] = Rests(q)[k + 1]
  BY <1>1, <1>4, <1>6
<1> HIDE DEF u
<1>8. ASSUME NEW k \in 1..(n - 1) PROVE u[k] = Rests(t)[k]
  <2>1. Rests(t)[k] = Rest(t[k])
    BY <1>1 DEF Rests
  <2>2. Rests(q)[k + 1] = Rest(q[k + 1])
    BY <1>1 DEF Rests
  <2> QED
    BY <1>1, <1>7, <2>1, <2>2
<1>9. u = Rests(t)
  BY <1>5, <1>7, <1>8, SeqEqual
<1>10. Rests(q)[1] = Rest(q[1])
  BY <1>2 DEF Rests
<1>11. FlattenSeq(Rests(q)) = Rests(q)[1] \o FlattenSeq(u)
  BY <1>4, <1>6, FlattenFirst DEF u
<1>12. FlattenSeq(Rests(t)) \in Seq(Byte)
  BY <1>5, FlattenType
<1> QED
  BY <1>9, <1>10, <1>11, <1>12 DEF t

(* Nothing is decoded at first. *)
LEMMA InitSound == Init => SoundInv
<1> SUFFICES ASSUME Init PROVE SoundInv
  OBVIOUS
<1>1. TypeOK
  <2>1. <<>> \in Seq(VideoPts) /\ <<>> \in Seq(AudioPacket) /\ <<>> \in Seq(Nat \X Nat)
    OBVIOUS
  <2>2. packets \in 0..MaxPackets /\ apts \in 0..packets /\ packet \in [pts : Nat, size : Nat]
    BY ThresholdAssumption DEF Init
  <2>3. lfVideoClock \in Nat /\ lfAudioClock \in Nat /\ length \in Int
    BY DEF Init
  <2>4. /\ queueVideoFrame \in Seq(VideoPts) /\ queueAudioFrame \in Seq(AudioPacket)
        /\ stream \in Seq(Nat \X Nat) /\ heard \in Seq(Nat \X Nat) /\ decoded \in Seq(Nat \X Nat)
    BY <2>1 DEF Init
  <2>5. /\ reader = "open" /\ video = "none" /\ window = "none"
        /\ iVideoLen \in BOOLEAN /\ iAudioLen \in BOOLEAN /\ device \in BOOLEAN /\ calling \in BOOLEAN
    BY DEF Init
  <2> QED
    BY <2>2, <2>3, <2>4, <2>5, Zenon DEF TypeOK
<1>2. PacketsUsed /\ StreamIdle /\ VideoRead
  BY DEF Init, PacketsUsed, StreamIdle, VideoRead
<1>3. AudioGapless
  <2>1. heard = <<>> /\ stream = <<>> /\ queueAudioFrame = <<>> /\ decoded = <<>> /\ ~calling
    BY DEF Init
  <2>2. [k \in 1..Len(queueAudioFrame) |-> Rest(queueAudioFrame[k])] = <<>>
    BY <2>1
  <2>3. <<>> \o <<>> \o <<>> = <<>>
    OBVIOUS
  <2> QED
    BY <2>1, <2>2, <2>3, FlattenEmpty DEF AudioGapless
<1> QED
  BY <1>1, <1>2, <1>3 DEF SoundInv

(* The packet AudioCallback works on. *)
LEMMA SoundFront ==
  ASSUME SoundInv, queueAudioFrame # <<>>
  PROVE  /\ pPacket = queueAudioFrame[1] /\ Usable(pPacket)
         /\ queueAudioFrame \in Seq(AudioPacket)
         /\ pPacket.pts \in Nat /\ pPacket.used \in Nat /\ pPacket.size \in Nat
         /\ iPacketSize \in Nat /\ iPacketSize = pPacket.size - pPacket.used
         /\ length \in Int /\ len1 = length - iPacketSize
<1>1. queueAudioFrame \in Seq(AudioPacket) /\ length \in Int
  BY DEF SoundInv, TypeOK
<1>2. pPacket = queueAudioFrame[1] /\ pPacket \in AudioPacket /\ 1 \in 1..Len(queueAudioFrame)
  BY <1>1 DEF pPacket
<1>3. pPacket.used <= pPacket.size
  BY <1>2 DEF SoundInv, PacketsUsed
<1>4. pPacket.pts \in Nat /\ pPacket.used \in Nat /\ pPacket.size \in Nat
  BY <1>2 DEF AudioPacket
<1>5. iPacketSize \in Nat /\ iPacketSize = pPacket.size - pPacket.used
  BY <1>3, <1>4 DEF iPacketSize
<1> QED
  BY <1>1, <1>2, <1>3, <1>4, <1>5 DEF Usable, len1

(* The queue after a part of its first packet was copied. *)
LEMMA SoundPart ==
  ASSUME SoundInv, queueAudioFrame # <<>>, length > 0, len1 < 0,
         queueAudioFrame' = [queueAudioFrame EXCEPT ![1].used = NewUsage]
  PROVE  /\ queueAudioFrame' \in Seq(AudioPacket) /\ queueAudioFrame' # <<>>
         /\ Tail(queueAudioFrame') = Tail(queueAudioFrame)
         /\ queueAudioFrame'[1] = [pPacket EXCEPT !.used = NewUsage]
         /\ Usable(queueAudioFrame'[1])
         /\ NewUsage = pPacket.used + length /\ length \in Nat
         /\ Len(queueAudioFrame') = Len(queueAudioFrame)
         /\ \A k \in 2..Len(queueAudioFrame) : queueAudioFrame'[k] = queueAudioFrame[k]
<1> DEFINE p == [pPacket EXCEPT !.used = NewUsage]
           s == queueAudioFrame
           t == [s EXCEPT ![1] = p]
<1>1. /\ pPacket = s[1] /\ pPacket \in AudioPacket /\ s \in Seq(AudioPacket)
      /\ pPacket.used \in Nat /\ pPacket.size \in Nat /\ length \in Nat
      /\ NewUsage = pPacket.used + length /\ NewUsage \in Nat /\ NewUsage <= pPacket.size
  BY SoundFront DEF NewUsage, Usable
<1>2. p \in AudioPacket /\ p.used = NewUsage /\ p.size = pPacket.size
  BY <1>1 DEF AudioPacket
<1>3. Usable(p)
  BY <1>1, <1>2 DEF Usable
<1>4. 1 \in 1..Len(s) /\ Len(s) \in Nat
  BY <1>1
<1>5. t = [queueAudioFrame EXCEPT ![1].used = NewUsage]
  BY <1>1, <1>4
<1> HIDE DEF p
<1>6. t \in Seq(AudioPacket) /\ Len(t) = Len(s) /\ t[1] = p
  BY <1>1, <1>2, <1>4
<1>7. \A k \in 2..Len(s) : t[k] = s[k]
  BY <1>1, <1>4
<1> HIDE DEF t
<1>8. t # <<>>
  BY <1>4, <1>6
<1>9. Tail(t) = Tail(s)
  <2>1. Tail(t) \in Seq(AudioPacket) /\ Tail(s) \in Seq(AudioPacket)
    BY <1>1, <1>6, <1>8
  <2>2. Len(Tail(t)) = Len(s) - 1 /\ Len(Tail(s)) = Len(s) - 1
    BY <1>1, <1>6, <1>8
  <2>3. ASSUME NEW k \in 1..(Len(s) - 1) PROVE Tail(t)[k] = Tail(s)[k]
    <3>1. Tail(t)[k] = t[k + 1] /\ Tail(s)[k] = s[k + 1] /\ k + 1 \in 2..Len(s)
      BY <1>1, <1>4, <1>6, <1>8
    <3> QED
      BY <1>7, <3>1
  <2> QED
    BY <2>1, <2>2, <2>3, SeqEqual
<1>10. queueAudioFrame' = t
  BY <1>5
<1> QED
  BY <1>1, <1>3, <1>6, <1>7, <1>8, <1>9, <1>10 DEF p

(* What the packets that are queued hold. *)
Left == FlattenSeq(Rests(queueAudioFrame))

(* AudioGapless in these terms. *)
LEMMA GaplessIs ==
  AudioGapless <=> /\ heard \o stream \o Left = decoded
                   /\ calling => Len(stream) = IF length > 0 THEN Period - length ELSE Period
  BY DEF AudioGapless, Left, Rests

(* The parts of the sound are sequences of bytes. *)
LEMMA SoundTypes ==
  ASSUME SoundInv
  PROVE  /\ heard \in Seq(Byte) /\ stream \in Seq(Byte) /\ decoded \in Seq(Byte) /\ Left \in Seq(Byte)
         /\ \A k \in 1..Len(queueAudioFrame) : Usable(queueAudioFrame[k])
         /\ queueAudioFrame \in Seq(AudioPacket)
         /\ heard \o stream \o Left = decoded
<1>1. heard \in Seq(Byte) /\ stream \in Seq(Byte) /\ decoded \in Seq(Byte) /\ queueAudioFrame \in Seq(AudioPacket)
  BY DEF SoundInv, TypeOK, Byte
<1>2. \A k \in 1..Len(queueAudioFrame) : Usable(queueAudioFrame[k])
  BY <1>1 DEF SoundInv, PacketsUsed, Usable
<1>3. Rests(queueAudioFrame) \in Seq(Seq(Byte))
  BY <1>1, <1>2, RestsType
<1>4. Left \in Seq(Byte)
  BY <1>3, FlattenType DEF Left
<1> QED
  BY <1>1, <1>2, <1>4, GaplessIs DEF SoundInv

(* Every step keeps the types. *)
LEMMA SoundTypeStep == SoundInv /\ [Next]_vars => TypeOK'
<1> SUFFICES ASSUME SoundInv, [Next]_vars PROVE TypeOK'
  OBVIOUS
<1>0. TypeOK
  BY DEF SoundInv
<1> USE <1>0
<1> USE DEF reading, showing, sounding
<1>1. CASE Open \/ ReadEnds \/ player_close
  BY <1>1, SMTT(20) DEF Open, ReadEnds, player_close, TypeOK
<1>2. CASE NextPacket /\ (ReadOther \/ ReadVideo \/ ReadAudio \/ AudioUndecoded \/ DeviceFails)
  <2>1. packets' \in 0..MaxPackets /\ packets' = packets + 1 /\ packets \in Nat /\ apts \in 0..packets
    BY <1>2, ThresholdAssumption DEF NextPacket, TypeOK
  <2>2. apts' \in {apts, apts + 1}
    BY <1>2 DEF ReadOther, ReadVideo, ReadAudio, AudioUndecoded, DeviceFails
  <2>3. apts' \in 0..packets' /\ apts' \in Nat
    BY <2>1, <2>2
  <2>4. packet' \in [pts : Nat, size : Nat]
    <3>1. CASE ReadVideo
      BY <3>1, PtsAssumption DEF ReadVideo
    <3>2. CASE ReadAudio
      BY <2>3, <3>2, SizeAssumption DEF ReadAudio
    <3> QED
      BY <1>2, <3>1, <3>2 DEF ReadOther, AudioUndecoded, DeviceFails, TypeOK
  <2>5. reader' \in {"open", "read", "video", "audio", "done", "closed"}
    BY <1>2 DEF ReadOther, ReadVideo, ReadAudio, AudioUndecoded, DeviceFails, TypeOK
  <2>6. video' \in {"none", "size", "audiosize", "clock", "show", "ended"}
    BY <1>2 DEF ReadOther, ReadVideo, ReadAudio, AudioUndecoded, DeviceFails, TypeOK
  <2>7. device' \in BOOLEAN
    BY <1>2 DEF ReadOther, ReadVideo, ReadAudio, AudioUndecoded, DeviceFails, TypeOK
  <2>8. UNCHANGED <<decoded, iVideoLen, iAudioLen, window, lfVideoClock, calling, length, stream,
                    heard, lfAudioClock, queueVideoFrame, queueAudioFrame>>
    BY <1>2 DEF ReadOther, ReadVideo, ReadAudio, AudioUndecoded, DeviceFails
  <2> QED
    BY <2>1, <2>3, <2>4, <2>5, <2>6, <2>7, <2>8 DEF TypeOK
<1>3. CASE PushVideo
  <2>1. queueVideoFrame' \in Seq(VideoPts)
    BY <1>3 DEF PushVideo, TypeOK, SoundInv, VideoRead
  <2> QED
    BY <1>3, <2>1 DEF PushVideo, TypeOK
<1>4. CASE PushAudio
  <2>1. [pts |-> packet.pts, size |-> packet.size, used |-> 0] \in AudioPacket
    BY DEF TypeOK, AudioPacket
  <2>2. queueAudioFrame' \in Seq(AudioPacket)
    BY <1>4, <2>1 DEF PushAudio, TypeOK
  <2>3. Bytes(packet, 0, packet.size) \in Seq(Byte)
    BY BytesType DEF TypeOK
  <2>4. decoded' \in Seq(Nat \X Nat)
    BY <1>4, <2>3 DEF PushAudio, TypeOK, Byte
  <2> QED
    BY <1>4, <2>2, <2>4 DEF PushAudio, TypeOK
<1>5. CASE SeeVideo \/ SeeAudio \/ TestClock \/ NothingToShow \/ WindowFails
  BY <1>5 DEF SeeVideo, SeeAudio, TestClock, NothingToShow, WindowFails, Showing, TypeOK
<1>6. CASE VideoUndecoded \/ Show
  <2>1. queueVideoFrame \in Seq(VideoPts) /\ queueVideoFrame # <<>>
    BY <1>6 DEF VideoUndecoded, Show, Showing, TypeOK
  <2>2. Tail(queueVideoFrame) \in Seq(VideoPts) /\ Head(queueVideoFrame) \in VideoPts
    BY <2>1
  <2>3. Head(queueVideoFrame) \in Nat
    BY <2>2, PtsAssumption
  <2> QED
    BY <1>6, <2>2, <2>3 DEF VideoUndecoded, Show, TypeOK
<1>7. CASE AudioCallback
  <2>1. <<>> \in Seq(Nat \X Nat)
    OBVIOUS
  <2> QED
    BY <1>7, <2>1, SizeAssumption DEF AudioCallback, TypeOK
<1>8. CASE CopyRest
  <2>1. queueAudioFrame # <<>>
    BY <1>8 DEF CopyRest, Filling
  <2>2. queueAudioFrame' \in Seq(AudioPacket) /\ lfAudioClock' \in Nat /\ length' \in Int
    BY <1>8, <2>1, SoundFront DEF CopyRest
  <2>3. Bytes(pPacket, pPacket.used, iPacketSize) \in Seq(Byte)
    BY <2>1, SoundFront, BytesType
  <2>4. stream' \in Seq(Nat \X Nat)
    BY <1>8, <2>3 DEF CopyRest, TypeOK, Byte
  <2> QED
    BY <1>8, <2>2, <2>4 DEF CopyRest, TypeOK
<1>9. CASE CopyPart
  <2>1. queueAudioFrame # <<>> /\ length > 0 /\ len1 < 0
    BY <1>9 DEF CopyPart, Filling
  <2>2. queueAudioFrame' \in Seq(AudioPacket) /\ length \in Nat
    BY <1>9, <2>1, SoundPart DEF CopyPart
  <2>3. lfAudioClock' \in Nat /\ length' \in Int
    BY <1>9, <2>1, SoundFront DEF CopyPart
  <2>4. Bytes(pPacket, pPacket.used, length) \in Seq(Byte)
    BY <2>1, <2>2, SoundFront, BytesType
  <2>5. stream' \in Seq(Nat \X Nat)
    BY <1>9, <2>4 DEF CopyPart, TypeOK, Byte
  <2> QED
    BY <1>9, <2>2, <2>3, <2>5 DEF CopyPart, TypeOK
<1>10. CASE CallbackReturns
  <2>1. heard' \in Seq(Nat \X Nat) /\ <<>> \in Seq(Nat \X Nat)
    BY <1>10 DEF CallbackReturns, TypeOK
  <2> QED
    BY <1>10, <2>1 DEF CallbackReturns, TypeOK
<1>11. CASE UNCHANGED vars
  BY <1>11 DEF vars, TypeOK
<1>12. (ReadOther \/ ReadVideo \/ ReadAudio \/ AudioUndecoded \/ DeviceFails) => NextPacket
  BY DEF ReadOther, ReadVideo, ReadAudio, AudioUndecoded, DeviceFails
<1> QED
  BY <1>1, <1>2, <1>3, <1>4, <1>5, <1>6, <1>7, <1>8, <1>9, <1>10, <1>11, <1>12
     DEF Next, Reader, VideoThread, AudioThread

(* Every step keeps the rest of the invariant but AudioGapless. *)
LEMMA SoundStateStep == SoundInv /\ [Next]_vars => VideoRead' /\ PacketsUsed' /\ StreamIdle'
<1> SUFFICES ASSUME SoundInv, [Next]_vars PROVE VideoRead' /\ PacketsUsed' /\ StreamIdle'
  OBVIOUS
<1>0. TypeOK /\ VideoRead /\ PacketsUsed /\ StreamIdle
  BY DEF SoundInv
<1> USE <1>0
<1> USE DEF reading, showing, sounding
<1>1. CASE Reader /\ ~PushAudio
  <2>1. UNCHANGED <<calling, stream, queueAudioFrame>>
    BY <1>1 DEF Reader, Open, ReadEnds, ReadOther, ReadVideo, PushVideo, ReadAudio, AudioUndecoded,
                DeviceFails, player_close
  <2>2. VideoRead'
    BY <1>1 DEF Reader, Open, ReadEnds, ReadOther, ReadVideo, PushVideo, ReadAudio, AudioUndecoded,
                DeviceFails, player_close, NextPacket, VideoRead
  <2> QED
    BY <2>1, <2>2 DEF PacketsUsed, StreamIdle
<1>2. CASE PushAudio
  <2> DEFINE e == [pts |-> packet.pts, size |-> packet.size, used |-> 0]
  <2>1. e \in AudioPacket /\ e.used <= e.size
    BY DEF TypeOK, AudioPacket
  <2>2. queueAudioFrame' = Append(queueAudioFrame, e) /\ queueAudioFrame \in Seq(AudioPacket)
    BY <1>2 DEF PushAudio, TypeOK
  <2> HIDE DEF e
  <2>3. \A k \in 1..Len(queueAudioFrame') :
          (k \in 1..Len(queueAudioFrame) /\ queueAudioFrame'[k] = queueAudioFrame[k])
            \/ (k = Len(queueAudioFrame) + 1 /\ queueAudioFrame'[k] = e)
    BY <2>1, <2>2, AppendElement
  <2>4. PacketsUsed'
    BY <2>1, <2>3 DEF PacketsUsed
  <2> QED
    BY <1>2, <2>4 DEF PushAudio, VideoRead, StreamIdle
<1>3. CASE VideoThread \/ UNCHANGED vars
  <2>1. UNCHANGED <<calling, stream, queueAudioFrame, reader, packet>>
    BY <1>3 DEF VideoThread, SeeVideo, SeeAudio, TestClock, NothingToShow, VideoUndecoded, Show,
                WindowFails, vars
  <2> QED
    BY <2>1 DEF VideoRead, PacketsUsed, StreamIdle
<1>4. CASE AudioCallback \/ CallbackReturns
  BY <1>4 DEF AudioCallback, CallbackReturns, VideoRead, PacketsUsed, StreamIdle
<1>5. CASE CopyRest
  <2>1. queueAudioFrame # <<>> /\ queueAudioFrame \in Seq(AudioPacket)
    BY <1>5 DEF CopyRest, Filling, TypeOK
  <2>2. /\ Len(queueAudioFrame') = Len(queueAudioFrame) - 1 /\ Len(queueAudioFrame) \in Nat
        /\ \A k \in 1..(Len(queueAudioFrame) - 1) :
             queueAudioFrame'[k] = queueAudioFrame[k + 1] /\ k + 1 \in 1..Len(queueAudioFrame)
    BY <1>5, <2>1 DEF CopyRest
  <2>3. PacketsUsed'
    BY <2>2 DEF PacketsUsed
  <2> QED
    BY <1>5, <2>3 DEF CopyRest, Filling, VideoRead, StreamIdle
<1>6. CASE CopyPart
  <2>1. queueAudioFrame # <<>> /\ length > 0 /\ len1 < 0
    BY <1>6 DEF CopyPart, Filling
  <2>2. /\ Len(queueAudioFrame') = Len(queueAudioFrame) /\ Usable(queueAudioFrame'[1])
        /\ \A k \in 2..Len(queueAudioFrame) : queueAudioFrame'[k] = queueAudioFrame[k]
    BY <1>6, <2>1, SoundPart DEF CopyPart
  <2>3. \A k \in 1..Len(queueAudioFrame) : k = 1 \/ k \in 2..Len(queueAudioFrame)
    OBVIOUS
  <2>4. PacketsUsed'
    BY <2>2, <2>3 DEF PacketsUsed, Usable
  <2> QED
    BY <1>6, <2>4 DEF CopyPart, Filling, VideoRead, StreamIdle
<1> QED
  BY <1>1, <1>2, <1>3, <1>4, <1>5, <1>6 DEF Next, AudioThread

(* Every step keeps the sound without a gap. *)
LEMMA GaplessStep == SoundInv /\ [Next]_vars => AudioGapless'
<1> SUFFICES ASSUME SoundInv, [Next]_vars PROVE AudioGapless'
  OBVIOUS
<1>0. /\ heard \o stream \o Left = decoded
      /\ calling => Len(stream) = IF length > 0 THEN Period - length ELSE Period
  BY GaplessIs DEF SoundInv
<1>a. AudioGapless' <=> /\ heard' \o stream' \o Left' = decoded'
                        /\ calling' => Len(stream') = IF length' > 0 THEN Period - length' ELSE Period
  BY DEF AudioGapless, Left, Rests
<1>b. /\ heard \in Seq(Byte) /\ stream \in Seq(Byte) /\ decoded \in Seq(Byte) /\ Left \in Seq(Byte)
      /\ queueAudioFrame \in Seq(AudioPacket) /\ heard \o stream \in Seq(Byte)
      /\ length \in Int /\ Period \in Nat
  BY SoundTypes, SizeAssumption DEF SoundInv, TypeOK
<1>c. StreamIdle /\ \A k \in 1..Len(queueAudioFrame) : Usable(queueAudioFrame[k])
  BY SoundTypes DEF SoundInv
<1> USE DEF reading, showing, sounding
<1>1. CASE (Reader /\ ~PushAudio) \/ VideoThread \/ UNCHANGED vars
  <2>1. UNCHANGED <<calling, stream, heard, decoded, length, queueAudioFrame>>
    BY <1>1 DEF Reader, Open, ReadEnds, ReadOther, ReadVideo, PushVideo, ReadAudio, AudioUndecoded,
                DeviceFails, player_close, VideoThread, SeeVideo, SeeAudio, TestClock,
                NothingToShow, VideoUndecoded, Show, WindowFails, vars
  <2> QED
    BY <2>1 DEF SoundInv, AudioGapless
<1>2. CASE PushAudio
  <2> DEFINE e == [pts |-> packet.pts, size |-> packet.size, used |-> 0]
  <2>1. e \in AudioPacket /\ e.used <= e.size /\ e.pts = packet.pts /\ e.used = 0 /\ e.size = packet.size
    BY DEF SoundInv, TypeOK, AudioPacket
  <2>2. queueAudioFrame' = Append(queueAudioFrame, e) /\ UNCHANGED <<heard, stream, calling, length>>
    BY <1>2 DEF PushAudio
  <2>3. decoded' = decoded \o Rest(e)
    <3>1. decoded' = decoded \o Bytes(packet, 0, packet.size) /\ packet.size \in Nat
      BY <1>2 DEF PushAudio, SoundInv, TypeOK
    <3>2. Rest(e) = Bytes(packet, 0, packet.size)
      BY <2>1, <3>1 DEF Rest, Bytes
    <3> QED
      BY <3>1, <3>2
  <2> HIDE DEF e
  <2>4. Usable(e) /\ Rest(e) \in Seq(Byte)
    BY <2>1, RestType DEF Usable
  <2>5. Left' = Left \o Rest(e)
    BY <1>b, <1>c, <2>2, <2>4, RestsAppend DEF Left
  <2>6. (heard \o stream) \o (Left \o Rest(e)) = ((heard \o stream) \o Left) \o Rest(e)
    <3>1. PICK x \in Seq(Byte), y \in Seq(Byte), z \in Seq(Byte) : x = heard \o stream /\ y = Left /\ z = Rest(e)
      BY <1>b, <2>4
    <3>2. x \o (y \o z) = (x \o y) \o z
      BY ONLY x \in Seq(Byte), y \in Seq(Byte), z \in Seq(Byte), Associative, SMTT(20)
    <3> QED
      BY <3>1, <3>2
  <2> QED
    BY <1>0, <1>a, <2>2, <2>3, <2>5, <2>6
<1>3. CASE AudioCallback
  <2>1. stream = <<>> /\ stream' = <<>> /\ length' = Period
    BY <1>3, <1>c DEF AudioCallback, StreamIdle
  <2>2. Left' = Left /\ UNCHANGED <<heard, decoded>>
    BY <1>3 DEF AudioCallback, Left
  <2>3. Len(stream') = 0 /\ Period - Period = 0
    BY <1>b, <2>1
  <2>4. Len(stream') = IF length' > 0 THEN Period - length' ELSE Period
    BY <1>b, <2>1, <2>3
  <2>5. heard' \o stream' \o Left' = decoded'
    BY <1>0, <2>1, <2>2
  <2> QED
    BY <1>a, <2>4, <2>5
<1>4. CASE CopyRest
  <2>1. queueAudioFrame # <<>> /\ calling /\ length > 0 /\ len1 >= 0
    BY <1>4 DEF CopyRest, Filling
  <2>2. /\ pPacket = queueAudioFrame[1] /\ Usable(pPacket)
        /\ iPacketSize \in Nat /\ iPacketSize = pPacket.size - pPacket.used
        /\ len1 = length - iPacketSize
    BY <2>1, SoundFront
  <2>3. stream' = stream \o Rest(pPacket) /\ queueAudioFrame' = Tail(queueAudioFrame) /\ length' = len1
    BY <1>4, <2>2 DEF CopyRest, Rest
  <2>4. Rest(pPacket) \in Seq(Byte) /\ Len(Rest(pPacket)) = iPacketSize
    BY <2>2, RestType
  <2>5. Left = Rest(pPacket) \o Left' /\ Left' \in Seq(Byte)
    BY <1>b, <1>c, <2>1, <2>2, <2>3, RestsFirst DEF Left
  <2>6. heard' \o stream' \o Left' = decoded'
    <3>1. heard \o (stream \o Rest(pPacket)) = (heard \o stream) \o Rest(pPacket)
      <4>1. heard \in Seq(Byte) /\ stream \in Seq(Byte)
        BY <1>b
      <4>2. Rest(pPacket) \in Seq(Byte)
        BY <2>4
      <4> QED
        BY ONLY <4>1, <4>2, Associative, SMTT(20)
    <3>2. (heard \o stream) \o (Rest(pPacket) \o Left') = ((heard \o stream) \o Rest(pPacket)) \o Left'
      <4>1. PICK x \in Seq(Byte), y \in Seq(Byte) : x = heard \o stream /\ y = Left'
        BY <1>b, <2>5
      <4>2. x \o (Rest(pPacket) \o y) = (x \o Rest(pPacket)) \o y
        BY ONLY x \in Seq(Byte), y \in Seq(Byte), <2>4, Associative, SMTT(20)
      <4> QED
        BY <4>1, <4>2
    <3>3. UNCHANGED <<heard, decoded>>
      BY <1>4 DEF CopyRest
    <3> QED
      BY <1>0, <2>3, <2>5, <3>1, <3>2, <3>3
  <2>7. Len(stream') = Len(stream) + iPacketSize
    BY <1>b, <2>3, <2>4, ConcatProperties
  <2>8. Len(stream) = Period - length
    BY <1>0, <2>1
  <2>9. Len(stream') = IF length' > 0 THEN Period - length' ELSE Period
    <3>1. PICK l \in Int, p \in Nat, z \in Nat :
                 l = length /\ p = Period /\ z = iPacketSize /\ l > 0 /\ l - z >= 0
      BY <1>b, <2>1, <2>2
    <3>2. length' = l - z /\ Len(stream') = p - l + z
      BY <2>2, <2>3, <2>7, <2>8, <3>1
    <3>3. Len(stream') = p - length' /\ (~(length' > 0) => length' = 0)
      BY <3>1, <3>2
    <3> QED
      BY <3>1, <3>2, <3>3
  <2> QED
    BY <1>a, <2>6, <2>9
<1>5. CASE CopyPart
  <2>1. queueAudioFrame # <<>> /\ calling /\ length > 0 /\ len1 < 0
    BY <1>5 DEF CopyPart, Filling
  <2>2. /\ pPacket = queueAudioFrame[1] /\ Usable(pPacket)
        /\ pPacket.pts \in Nat /\ pPacket.used \in Nat /\ pPacket.size \in Nat
        /\ iPacketSize = pPacket.size - pPacket.used /\ len1 = length - iPacketSize
    BY <2>1, SoundFront
  <2> DEFINE r == [pPacket EXCEPT !.used = NewUsage]
  <2>3. /\ queueAudioFrame' \in Seq(AudioPacket) /\ queueAudioFrame' # <<>>
        /\ Tail(queueAudioFrame') = Tail(queueAudioFrame)
        /\ queueAudioFrame'[1] = r /\ Usable(r)
        /\ NewUsage = pPacket.used + length /\ length \in Nat
        /\ Len(queueAudioFrame') = Len(queueAudioFrame)
        /\ \A k \in 2..Len(queueAudioFrame) : queueAudioFrame'[k] = queueAudioFrame[k]
    BY <1>5, <2>1, SoundPart DEF CopyPart
  <2>4. \A k \in 1..Len(queueAudioFrame') : Usable(queueAudioFrame'[k])
    <3>1. \A k \in 1..Len(queueAudioFrame) : k = 1 \/ k \in 2..Len(queueAudioFrame)
      OBVIOUS
    <3> HIDE DEF r
    <3> QED
      BY <1>c, <2>3, <3>1
  <2>5. r.pts = pPacket.pts /\ r.used = pPacket.used + length /\ r.size = pPacket.size
    BY <2>2, <2>3 DEF Usable, AudioPacket
  <2> HIDE DEF r
  <2> DEFINE b == Bytes(pPacket, pPacket.used, length)
             m == pPacket.size - r.used
             T == FlattenSeq(Rests(Tail(queueAudioFrame)))
  <2>6. m \in Nat /\ length + m = pPacket.size - pPacket.used
    BY <2>1, <2>2, <2>3, <2>5, SMTT(20)
  <2>7. b \o Rest(r) = Rest(pPacket)
    <3> HIDE DEF m
    <3>1. b \o Bytes(r, pPacket.used + length, m) = Bytes(pPacket, pPacket.used, length + m)
      <4>1. PICK from \in Nat, l \in Nat, n \in Nat : from = pPacket.used /\ l = length /\ n = m
        BY <2>2, <2>3, <2>6
      <4>2. PICK p, q : p = pPacket /\ q = r
        OBVIOUS
      <4>3. SamePts(p, q)
        BY <2>2, <2>5, <4>2 DEF SamePts
      <4>4. Joins(Bytes(p, from, l), Bytes(q, from + l, n), Bytes(p, from, l + n))
        BY <4>3, BytesJoin
      <4> QED
        BY <4>1, <4>2, <4>4 DEF Joins
    <3> QED
      BY <2>5, <2>6, <3>1 DEF Rest, m
  <2>8. b \in Seq(Byte) /\ Len(b) = length
    BY <2>2, <2>3, BytesType
  <2>9. Rest(r) \in Seq(Byte)
    BY <2>3, RestType
  <2>10. Left = Rest(pPacket) \o T /\ T \in Seq(Byte)
    BY <1>b, <1>c, <2>1, <2>2, RestsFirst DEF Left
  <2>11. Left' = Rest(r) \o T
    BY <2>3, <2>4, RestsFirst DEF Left
  <2>12. stream' = stream \o b /\ UNCHANGED <<heard, decoded>> /\ length' = len1
    BY <1>5 DEF CopyPart
  <2> HIDE DEF b, T, m
  <2>13. heard' \o stream' \o Left' = decoded'
    <3>1. heard \o (stream \o b) = (heard \o stream) \o b
      <4>1. heard \in Seq(Byte) /\ stream \in Seq(Byte)
        BY <1>b
      <4> QED
        BY ONLY <2>8, <4>1, Associative, SMTT(20)
    <3>2. ((heard \o stream) \o b) \o (Rest(r) \o T) = (heard \o stream) \o (b \o (Rest(r) \o T))
      <4>0. Rest(r) \o T \in Seq(Byte)
        BY <2>9, <2>10
      <4>1. PICK x \in Seq(Byte), y \in Seq(Byte) : x = heard \o stream /\ y = Rest(r) \o T
        BY <1>b, <4>0
      <4>2. (x \o b) \o y = x \o (b \o y)
        BY ONLY x \in Seq(Byte), y \in Seq(Byte), <2>8, Associative, SMTT(20)
      <4> QED
        BY <4>1, <4>2
    <3>3. b \o (Rest(r) \o T) = (b \o Rest(r)) \o T
      BY ONLY <2>8, <2>9, <2>10, Associative, SMTT(20)
    <3> QED
      BY <1>0, <2>7, <2>10, <2>11, <2>12, <3>1, <3>2, <3>3
  <2>14. Len(stream') = Len(stream) + length
    BY <1>b, <2>8, <2>12, ConcatProperties
  <2>15. Len(stream) = Period - length
    BY <1>0, <2>1
  <2>16. Len(stream') = IF length' > 0 THEN Period - length' ELSE Period
    BY <1>b, <2>1, <2>2, <2>12, <2>14, <2>15
  <2> QED
    BY <1>a, <2>13, <2>16
<1>6. CASE CallbackReturns
  <2>1. heard' = heard \o stream /\ stream' = <<>> /\ ~calling' /\ UNCHANGED <<decoded, queueAudioFrame>>
    BY <1>6 DEF CallbackReturns
  <2>2. Left' = Left
    BY <2>1 DEF Left
  <2>3. (heard \o stream) \o <<>> = heard \o stream
    BY <1>b
  <2> QED
    BY <1>0, <1>a, <2>1, <2>2, <2>3
<1> QED
  BY <1>1, <1>2, <1>3, <1>4, <1>5, <1>6 DEF Next, AudioThread

(* The invariant of the sound is inductive. *)
LEMMA NextSound == SoundInv /\ [Next]_vars => SoundInv'
  BY SoundTypeStep, SoundStateStep, GaplessStep DEF SoundInv

(* The types hold in every behaviour. *)
THEOREM TypeCorrect == Spec => []TypeOK
<1>1. SoundInv => TypeOK
  BY DEF SoundInv
<1> QED
  BY <1>1, InitSound, NextSound, PTL DEF Spec

(* However packets and periods divide the sound, what AudioCallback has given   *)
(* to the device and what is still queued are the decoded bytes, each once and  *)
(* in order, and a callback returns with its buffer exactly full.               *)
THEOREM SoundHasNoGap == Spec => []AudioGapless
<1>1. SoundInv => AudioGapless
  BY DEF SoundInv
<1> QED
  BY <1>1, InitSound, NextSound, PTL DEF Spec

=============================================================================
