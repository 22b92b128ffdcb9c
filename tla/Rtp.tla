-------------------------------- MODULE Rtp --------------------------------
(***************************************************************************)
(* RTP packetization (protocol/librtp) between two conference endpoints     *)
(* (app/conference/endpoint): sendfile() cuts each frame of a file into     *)
(* packets, UDP and the conference server carry them, and the other         *)
(* endpoint's recvfile() puts H.264 frames together again.  Packets are     *)
(* lost, repeated and overtake each other, and the conference server mixes   *)
(* in those of other participants: recvfile() gives them all to one          *)
(* demuxer.  AAC and raw audio are only sent: the repository has no          *)
(* receiver for them.                                                       *)
(*                                                                          *)
(* A packet is a sequence of units <<kind, a, b>>: the RTP header           *)
(* <<"rtp", timestamp, 0>>, the two FU-A bytes <<"fu", frame, 1>>, which     *)
(* hold the fields of the frame's first byte, the AU header, and the bytes   *)
(* <<"byte", frame, position>>.  A header counts as one unit.  Frames of     *)
(* other participants have numbers above MaxFrames, see OtherFrame.         *)
(* Sequence numbers are left out: the receiver does not read them.  So is    *)
(* the SSRC: setpacket() keeps it and passes it to framecallback(), but      *)
(* never compares it, and every muxer is given SSRC 1 (muxer.cpp:26).        *)
(*                                                                          *)
(* seen, latest, faults, others and jumped are history: only the bounds on   *)
(* faults and others read one.                                              *)
(***************************************************************************)
EXTENDS Naturals, Sequences, SequencesExt

CONSTANTS Frame,            \* the frames of a file: [len, type], see Types
          Codec,            \* "h264", "aac", "raw"
          MAX_RTP_BODY_LENGTH,
          TimestampModulus, \* timestamps are uint32_t: 2^32
          timestamp_increse,
          LOOPTIMESTAMPCORNER,
          Joined,           \* how many frames were sent before the receiver joined
          MaxFrames,        \* bound: frames sent after that
          MaxInFlight,      \* bound: packets on their way
          MaxFaults,        \* bound: packets repeated or overtaken
          OtherTimestamp,   \* timestamps of other participants' packets
          MaxOthers         \* bound: packets of other participants

(* Timestamps are not used twice, and the two ends of their range are apart. *)
ASSUME TimestampsAssumption ==
  /\ timestamp_increse \in Nat \ {0}
  /\ LOOPTIMESTAMPCORNER \in Nat
  /\ TimestampModulus \in Nat
  /\ MaxFrames * timestamp_increse < TimestampModulus
  /\ 2 * LOOPTIMESTAMPCORNER < TimestampModulus
ASSUME BodyAssumption == MAX_RTP_BODY_LENGTH \in Nat \ {0}
ASSUME FileAssumption ==
  /\ Codec \subseteq {"h264", "aac", "raw"}
  /\ Frame \subseteq [len : Nat \ {0}, type : {"known", "other"}]
ASSUME BoundsAssumption == Joined \subseteq Nat /\ MaxFrames \in Nat /\ MaxFaults \in Nat
ASSUME OthersAssumption == MaxOthers \in Nat /\ OtherTimestamp \subseteq 0..(TimestampModulus - 1)

VARIABLES
  codec,       \* the source type of the muxer
  frames,      \* the frames read from the file so far
  mux,         \* rtp_h264_mux_desc_t and its siblings
  sender,      \* sendfile(): "frame", "packet", "end"
  i,           \* its index in the packets of a frame, from 1
  net,         \* the packets on their way
  receiver,    \* the other endpoint: "starting", "running", "crashed", "ended"
  demux,       \* rtp_h264_demux_desc_t
  delivered,   \* what framecallback was given
  seen,        \* how many packets of each frame setpacket was given
  latest,      \* the frame of the last one it did not refuse, 0 before the first
  faults,      \* how many packets were repeated or overtaken
  others,      \* how many packets of other participants setpacket was given
  jumped       \* a gap longer than LOOPTIMESTAMPCORNER was met

sending == <<codec, frames, mux, sender, i>>
receiving == <<receiver, demux, delivered, seen, latest, faults, others, jumped>>
vars == <<sending, net, receiving>>

(* The NAL types setpacket copies, the ones it skips. *)
Types == {"known", "other"}
Start == <<"start", 0, 0>>     \* h264prefix
Bytes(k, from, to) == [j \in 1..(to - from + 1) |-> <<"byte", k, from + j - 1>>]

(* rtpmux_*_alloc(), rtpdemux_h264_alloc() *)
Init ==
  /\ codec \in Codec
  /\ frames = <<>>
  /\ \E n \in Joined :
       mux = [rtp_buffer |-> <<>>, packet_count |-> 0, last_packet_length |-> 0,
              timestamp_current |-> (n * timestamp_increse) % TimestampModulus]
  /\ sender = "frame"
  /\ i = 1
  /\ net = <<>>
  /\ receiver = "starting"
  /\ demux = [rtp_buffer |-> <<>>, timestamp |-> 0]
  /\ delivered = <<>>
  /\ seen = [k \in 1..MaxFrames |-> 0]
  /\ latest = 0
  /\ faults = 0
  /\ others = 0
  /\ jumped = FALSE

-----------------------------------------------------------------------------
(* The muxers.                                                               *)

ADTS_LENGTH == 7

(* A frame of a file: an AAC frame starts with its ADTS header. *)
FrameLength(f) == f.len + IF codec = "aac" THEN ADTS_LENGTH ELSE 0

(* The first byte of a frame that is cut up or sent as it is: H.264 moves the  *)
(* first byte of a long frame into the FU-A bytes, AAC drops the ADTS header.  *)
Fragmented(len) == codec = "h264" /\ len > MAX_RTP_BODY_LENGTH
FirstByte(len) == CASE codec = "aac" -> ADTS_LENGTH + 1
                    [] codec # "aac" /\ Fragmented(len) -> 2
                    [] OTHER -> 1

PayloadHeader(k, len) == CASE codec = "aac" -> << <<"au", 0, 0>> >>
                           [] codec # "aac" /\ Fragmented(len) -> << <<"fu", k, 1>> >>
                           [] OTHER -> <<>>

(* The number of rounds of the while loop; a short frame is one packet. *)
PacketCount(len) ==
  Max({1, (len - FirstByte(len) + MAX_RTP_BODY_LENGTH) \div MAX_RTP_BODY_LENGTH})

Packet(k, len, ts, j) ==
  LET from == FirstByte(len) + (j - 1) * MAX_RTP_BODY_LENGTH
  IN  << <<"rtp", ts, 0>> >> \o PayloadHeader(k, len)
        \o Bytes(k, from, Min({len, from + MAX_RTP_BODY_LENGTH - 1}))

(* Mutant: the timestamp has more than 32 bits. *)
NextTimestamp_wide(ts) == ts + timestamp_increse

NextTimestamp(ts) == (ts + timestamp_increse) % TimestampModulus

(* setframe(): all packets one after the other in rtp_buffer. *)
setframe(k, len) ==
  LET ts == mux.timestamp_current
      n  == PacketCount(len)
  IN  mux' = [rtp_buffer |-> FlattenSeq([j \in 1..n |-> Packet(k, len, ts, j)]),
              packet_count |-> n,
              last_packet_length |-> Len(Packet(k, len, ts, n)),
              timestamp_current |-> NextTimestamp(ts)]

(* Mutant: the FU-A bytes are forgotten. *)
packet_length_no_header == 1 + MAX_RTP_BODY_LENGTH

(* The room of a full packet, as rtpmux_*_alloc() computes it. *)
packet_length == (IF codec = "raw" THEN 1 ELSE 2) + MAX_RTP_BODY_LENGTH

(* The packet that sendfile() finds at rtp_buffer, which it has moved on by      *)
(* packet_length for each packet before.                                       *)
Slice(n) ==
  LET at == (n - 1) * packet_length
  IN  SubSeq(mux.rtp_buffer, at + 1,
             at + IF n = mux.packet_count THEN mux.last_packet_length ELSE packet_length)

-----------------------------------------------------------------------------
(* sendfile().                                                               *)

GetFrame(f) ==
  /\ sender = "frame" /\ Len(frames) < MaxFrames
  /\ frames' = Append(frames, f)
  /\ setframe(Len(frames) + 1, FrameLength(f))
  /\ sender' = "packet" /\ i' = 1
  /\ UNCHANGED <<codec, net, receiving>>

(* The file is over. *)
FileEnds ==
  /\ sender = "frame"
  /\ sender' = "end"
  /\ UNCHANGED <<codec, frames, mux, i, net, receiving>>

(* udp_clientex_write().  Audio goes to receivers that are not modelled. *)
SendPacket ==
  /\ sender = "packet" /\ Len(net) < MaxInFlight
  /\ net' = IF codec = "h264" THEN Append(net, Slice(i)) ELSE net
  /\ i' = i + 1
  /\ sender' = IF i = mux.packet_count THEN "frame" ELSE "packet"
  /\ UNCHANGED <<codec, frames, mux, receiving>>

(* A write error ends the loop in the middle of a frame. *)
SendFails ==
  /\ sender = "packet"
  /\ sender' = "end"
  /\ UNCHANGED <<codec, frames, mux, i, net, receiving>>

Lose(n) ==
  /\ net' = RemoveAt(net, n)
  /\ UNCHANGED <<sending, receiving>>

-----------------------------------------------------------------------------
(* rtpdemux_h264_setpacket().                                                *)

FrameOf(p) == p[2][2]
Timestamp(p) == p[1][2]
IsFU(p) == p[2][1] = "fu"

(* The frame that another participant sent with the timestamp ts. *)
OtherFrame(ts) == MaxFrames + 1 + ts

(* A packet of it: a fragment ("fu"), a NAL unit of a type that setpacket copies      *)
(* ("byte"), or of one that it skips ("skip").                                     *)
OtherPacket(ts, kind) ==
  << <<"rtp", ts, 0>>, <<kind, OtherFrame(ts), 1>>, <<"byte", OtherFrame(ts), 2>> >>

(* Less than two bytes after the RTP header. *)
TooShort(p) == ~IsFU(p) /\ Len(p) < 3

(* The frame that is being put together; an empty buffer adopts the packet's. *)
Current(p) == IF demux.rtp_buffer = <<>> THEN Timestamp(p) ELSE demux.timestamp

(* Mutants: the end of the timestamps' range is forgotten; a late packet is     *)
(* appended.                                                                   *)
Newer_no_loop(p) == Current(p) < Timestamp(p)
Late_kept(p) == FALSE

(* The packet begins a new frame: its timestamp is later, or starts again at 0. *)
Newer(p) == \/ Current(p) < Timestamp(p)
            \/ Current(p) > LOOPTIMESTAMPCORNER /\ Timestamp(p) < LOOPTIMESTAMPCORNER

(* "litter late timestamp rtp packet" *)
Late(p) == ~Newer(p) /\ Current(p) # Timestamp(p)

(* Mutant: every fragment is given the prefix and the first byte. *)
Appended_prefix(buffer, p) ==
  IF IsFU(p) THEN buffer \o <<Start, <<"byte", FrameOf(p), 1>> >> \o SubSeq(p, 3, Len(p))
             ELSE buffer \o <<Start>> \o Tail(p)

(* checkheader.TYPE is one of 1, 5, 6, 7 and 8. *)
Known(p) == IF FrameOf(p) <= MaxFrames THEN frames[FrameOf(p)].type = "known" ELSE p[2][1] = "byte"

(* A single NAL unit of a type it knows gets the prefix; a fragment gets the     *)
(* prefix and the first byte when it is the first to arrive.                   *)
Appended(buffer, p) ==
  CASE IsFU(p) -> buffer \o (IF buffer = <<>> THEN <<Start, <<"byte", FrameOf(p), 1>> >> ELSE <<>>)
                         \o SubSeq(p, 3, Len(p))
    [] ~IsFU(p) /\ Known(p) -> buffer \o <<Start>> \o Tail(p)
    [] OTHER -> buffer

setpacket(p) ==
  IF TooShort(p) \/ Late(p) THEN UNCHANGED <<demux, delivered>>
  ELSE /\ demux' = [timestamp |-> Timestamp(p),
                    rtp_buffer |-> Appended(IF Newer(p) THEN <<>> ELSE demux.rtp_buffer, p)]
       /\ delivered' = IF Newer(p)
                       THEN Append(delivered, [timestamp |-> demux.timestamp, data |-> demux.rtp_buffer])
                       ELSE delivered

(* recvfile() gets the n-th packet on its way; a repeated packet stays there. *)
Receive(n, repeated) ==
  /\ receiver = "running"
  /\ LET p == net[n]
         k == FrameOf(p)
         fault == n > 1 \/ repeated
     IN  /\ fault => faults < MaxFaults
         /\ setpacket(p)
         /\ faults' = faults + IF fault THEN 1 ELSE 0
         /\ seen' = [seen EXCEPT ![k] = @ + 1]
         /\ latest' = IF TooShort(p) THEN latest ELSE k
         /\ jumped' = \/ jumped
                      \/ /\ latest \in 1..(k - 1) /\ ~TooShort(p)
                         /\ (k - latest) * timestamp_increse > LOOPTIMESTAMPCORNER
  /\ net' = IF repeated THEN net ELSE RemoveAt(net, n)
  /\ UNCHANGED <<sending, receiver, others>>

(* recvfile() gets a packet of another participant, which the conference server   *)
(* forwards to the same socket; sendfile() sends H.264 only.                     *)
ReceiveOther(ts, kind) ==
  /\ receiver = "running" /\ codec = "h264" /\ others < MaxOthers
  /\ setpacket(OtherPacket(ts, kind))
  /\ others' = others + 1
  /\ UNCHANGED <<sending, net, receiver, seen, latest, faults, jumped>>

(* thread_alloc() starts the thread before it stores the handle that the thread *)
(* tests: the first test reads through a null pointer, or comes late enough.    *)
StartReceiver ==
  /\ receiver = "starting"
  /\ receiver' \in {"running", "crashed"}
  /\ UNCHANGED <<sending, net, demux, delivered, seen, latest, faults, others, jumped>>

(* recvfrom() fails, and setpacket() is given the length -1: compared with an   *)
(* unsigned size it passes the test, and append() is asked for 4 GB.            *)
ReadFails ==
  /\ receiver = "running"
  /\ receiver' = "crashed"
  /\ UNCHANGED <<sending, net, demux, delivered, seen, latest, faults, others, jumped>>

(* The receiving endpoint has sent its own file: it frees the socket, and main  *)
(* returns.                                                                    *)
ReceiverEnds ==
  /\ receiver = "running"
  /\ receiver' = "ended"
  /\ UNCHANGED <<sending, net, demux, delivered, seen, latest, faults, others, jumped>>

-----------------------------------------------------------------------------
Next ==
  \/ \E f \in Frame : GetFrame(f)
  \/ FileEnds \/ SendPacket \/ SendFails
  \/ \E n \in 1..Len(net) : Lose(n) \/ \E repeated \in BOOLEAN : Receive(n, repeated)
  \/ \E ts \in OtherTimestamp, kind \in {"fu", "byte", "skip"} : ReceiveOther(ts, kind)
  \/ StartReceiver \/ ReadFails \/ ReceiverEnds

Spec == Init /\ [][Next]_vars

-----------------------------------------------------------------------------
Unit == {"start", "rtp", "fu", "au", "byte", "skip"} \X Nat \X Nat

TypeOK ==
  /\ codec \in Codec
  /\ frames \in Seq(Frame)
  /\ mux.rtp_buffer \in Seq(Unit)
  /\ mux.timestamp_current \in 0..(TimestampModulus - 1)
  /\ sender \in {"frame", "packet", "end"}
  /\ sender = "packet" => i \in 1..mux.packet_count
  /\ net \in Seq(Seq(Unit))
  /\ receiver \in {"starting", "running", "crashed", "ended"}
  /\ demux.rtp_buffer \in Seq(Unit)
  /\ demux.timestamp \in 0..(TimestampModulus - 1)
  /\ latest \in 0..Len(frames)
  /\ faults \in 0..MaxFaults /\ others \in 0..MaxOthers

(* The packets that sendfile() takes out of rtp_buffer with packet_length and    *)
(* last_packet_length each begin with an RTP header, and together carry the      *)
(* frame: for every length around a multiple of MAX_RTP_BODY_LENGTH and each of   *)
(* the three muxers.                                                            *)
PacketsCarryFrame ==
  sender = "packet" =>
    LET k == Len(frames)
        len == FrameLength(frames[k])
        skip == 1 + Len(PayloadHeader(k, len))
    IN  /\ \A n \in 1..mux.packet_count :
             /\ Slice(n)[1][1] = "rtp"
             /\ SubSeq(Slice(n), 2, skip) = PayloadHeader(k, len)
        /\ FlattenSeq([n \in 1..mux.packet_count |-> SubSeq(Slice(n), skip + 1, Len(Slice(n)))])
             = Bytes(k, FirstByte(len), len)

(* Bytes of the file's frames and of other participants' frames. *)
Own(unit) == unit[2] \in 1..MaxFrames
Other(unit) == unit[2] > MaxFrames

(* Whatever is lost, repeated, overtaken or mixed in, what framecallback is given  *)
(* begins with a start code and has bytes of at most one frame of each             *)
(* participant, the one sent with the timestamp it is given: setpacket() never      *)
(* joins the beginning of one frame with the end of another of the same sender.     *)
(* Frames of two senders with one timestamp it does join.                        *)
FragmentsOfOneFrame ==
  \A d \in ToSet(delivered) :
    /\ Len(d.data) > 1 /\ d.data[1] = Start
    /\ \A m, n \in 2..Len(d.data) : Own(d.data[m]) /\ Own(d.data[n]) => d.data[m][2] = d.data[n][2]
    /\ \A n \in 2..Len(d.data) : Other(d.data[n]) => d.data[n][2] = OtherFrame(d.timestamp)

(* When only packets of one sender come and they are only lost, frames come in     *)
(* order, none twice, and each one's bytes are in order: a loss leaves a hole and   *)
(* moves nothing, also while the timestamps start again at 0.                     *)
LossOnlyCuts ==
  faults = 0 /\ others = 0 =>
    /\ \A m, n \in 1..Len(delivered) :
         m < n => delivered[m].data[2][2] < delivered[n].data[2][2]
    /\ \A d \in ToSet(delivered) : \A m, n \in 2..Len(d.data) : m < n => d.data[m][3] < d.data[n][3]

(* A frame setpacket() copies: fragments of any type, single units of known ones. *)
Copied(k) == \/ Fragmented(FrameLength(frames[k]))
             \/ frames[k].type = "known" /\ FrameLength(frames[k]) > 1

(* When only packets of one sender come and they are only lost, never more than      *)
(* LOOPTIMESTAMPCORNER ticks of them in a row, a frame of which every packet arrived  *)
(* is delivered whole, byte by byte, once a packet of a later frame has arrived:      *)
(* neither the frames lost around it nor timestamps that start again at 0 make       *)
(* setpacket() drop it as late.                                                   *)
WholeFramesDelivered ==
  faults = 0 /\ others = 0 /\ ~jumped =>
    \A k \in 1..Len(frames) :
      k < latest /\ Copied(k) /\ seen[k] = PacketCount(FrameLength(frames[k])) =>
        \E d \in ToSet(delivered) : d.data = <<Start>> \o Bytes(k, 1, FrameLength(frames[k]))
=============================================================================
