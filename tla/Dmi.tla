-------------------------------- MODULE Dmi --------------------------------
(***************************************************************************)
(* The DMI streaming SDK: a pusher built on protocol/dmi/libmmux_dmi (with  *)
(* the player callbacks and push thread of its example), a media server     *)
(* that is not part of the repository, and pullers built on libmdemux_dmi.  *)
(*                                                                          *)
(* The pusher's event-loop thread reads requests from the server; the       *)
(* PLAYER_OPEN and PLAYER_CLOSE callbacks start and cancel the push thread,  *)
(* which cuts frames into packets.  A puller's event loop collects packets  *)
(* in framebuffer and hands complete frames to the frame callback.  Each    *)
(* connection is a TCP stream of whole packets; the server is modelled by   *)
(* what the SDK expects of it.                                              *)
(***************************************************************************)
EXTENDS Naturals, Sequences, FiniteSets

CONSTANTS Puller,
          PacketLength,   \* packetlength of mmux_dmi_sendframe, 1440 in the code
          FrameLength,    \* the lengths of the frames that are sent
          MaxFrames,      \* bound: frames sent
          MaxPending,     \* bound: packets in one connection
          MaxControl      \* bound: seek, speed and report requests

ASSUME LengthsPositive ==
  PacketLength \in Nat \ {0} /\ FrameLength \subseteq Nat \ {0}
ASSUME BoundsAssumption == IsFiniteSet(Puller) /\ MaxControl \in Nat

VARIABLES
  mux,          \* the pusher's main thread
  opencount,    \* players open, as the callbacks count them
  id_pushstreamproc, \* a push thread was created and not joined
  running,      \* push threads that have not ended
  cancel,       \* pthread_cancel has been called on the push thread
  frames,       \* the lengths of the frames given to sendframe, in order
  offset,       \* bytes of the last of them already sent; the length, if done
  down,         \* server to pusher: requests and responses
  demux,        \* each puller's thread
  stream,       \* server to each puller: packets
  framebuffer,  \* each puller's DMIInstance_t::framebuffer
  got,          \* the frames handed to each puller's callback
  pulling,      \* the pullers the server forwards the stream to
  hung_up,      \* connections the server has closed: "pusher" or a puller
  control       \* control requests sent so far

pusher == <<mux, opencount, id_pushstreamproc, running, cancel>>
push   == <<frames, offset>>
puller == <<demux, framebuffer, got>>
vars   == <<pusher, push, down, puller, stream, pulling, hung_up, control>>

MuxState == {"idle", "waiting", "loop", "joining", "spin", "failed"}
DemuxState == {"idle", "waiting", "loop", "spin", "failed", "freed"}

Init ==
  /\ mux = "idle" /\ opencount = 0 /\ id_pushstreamproc = FALSE
  /\ running = 0 /\ cancel = FALSE
  /\ frames = <<>> /\ offset = 0
  /\ down = <<>>
  /\ demux = [k \in Puller |-> "idle"]
  /\ stream = [k \in Puller |-> <<>>]
  /\ framebuffer = [k \in Puller |-> <<>>]
  /\ got = [k \in Puller |-> <<>>]
  /\ pulling = {} /\ hung_up = {} /\ control = 0

(* DMIDRequest_Marshal: requests and responses are one packet of their own. *)
Request(what) == [codec |-> "request", what |-> what, id |-> 0, count |-> 1, data |-> <<>>]
Response(status) == [codec |-> "response", what |-> status, id |-> 0, count |-> 1, data |-> <<>>]

Current == Len(frames)
InFrame == frames # <<>> /\ offset < frames[Current]

(* The process ends, and with it the push thread: what is left of the frame is   *)
(* never sent.                                                                 *)
Abandoned == IF InFrame THEN frames[Current] ELSE offset
ProcessEnds == mux' = "failed" /\ running' = 0 /\ offset' = Abandoned

-----------------------------------------------------------------------------
(* The pusher's main thread.                                                  *)

(* mmux_dmi_pushstream: sends PUSH and waits for the response ... *)
mmux_dmi_pushstream ==
  /\ mux = "idle"
  /\ mux' = "waiting"
  /\ UNCHANGED <<opencount, id_pushstreamproc, running, cancel, push, down, puller, stream,
                 pulling, hung_up, control>>

(* ... which it takes from the next packet, whatever that is. *)
PushAnswered ==
  /\ mux = "waiting" /\ down # <<>>
  /\ mux' = IF Head(down) = Response("200") THEN "loop" ELSE "failed"
  /\ down' = Tail(down)
  /\ UNCHANGED <<opencount, id_pushstreamproc, running, cancel, push, puller, stream, pulling,
                 hung_up, control>>

(* Mutant: a request is handled again and again. *)
EventLoop_repeats(p) == mux = "loop" /\ down # <<>> /\ Head(down) = p /\ down' = down

EventLoop(p) == mux = "loop" /\ down # <<>> /\ Head(down) = p /\ down' = Tail(down)

(* MyPlayerOpenCallback: the first player starts the push thread. *)
PlayerOpen ==
  /\ EventLoop(Request("PLAYER_OPEN"))
  /\ opencount' = opencount + 1
  /\ IF opencount' = 1
       THEN id_pushstreamproc' = TRUE /\ running' = running + 1 /\ cancel' = FALSE
       ELSE UNCHANGED <<id_pushstreamproc, running, cancel>>
  /\ UNCHANGED <<mux, push, puller, stream, pulling, hung_up, control>>

(* Mutants: the thread is not joined; it is not cancelled. *)
StopPush_no_join == cancel' = TRUE /\ UNCHANGED mux
StopPush_no_cancel == mux' = "joining" /\ UNCHANGED cancel

(* pthread_cancel, then pthread_join until Joined. *)
StopPush == cancel' = TRUE /\ mux' = "joining"

(* MyPlayerCloseCallback: the last player cancels the push thread and waits     *)
(* for it.                                                                     *)
PlayerClose ==
  /\ EventLoop(Request("PLAYER_CLOSE"))
  /\ opencount' = opencount - 1
  /\ IF opencount' = 0 /\ id_pushstreamproc
       THEN StopPush
       ELSE UNCHANGED <<cancel, mux>>
  /\ UNCHANGED <<id_pushstreamproc, running, push, puller, stream, pulling, hung_up, control>>

(* pthread_join returns. *)
Joined ==
  /\ mux = "joining" /\ running = 0
  /\ mux' = "loop" /\ id_pushstreamproc' = FALSE /\ cancel' = FALSE
  /\ UNCHANGED <<opencount, running, push, down, puller, stream, pulling, hung_up, control>>

(* SEEK and SPEEDX go to callbacks that only print. *)
MuxOther ==
  /\ EventLoop(Request("SEEK")) \/ EventLoop(Response("200"))
  /\ UNCHANGED <<pusher, push, puller, stream, pulling, hung_up, control>>

(* A response that is not 200 ends mmux_dmi_eventloop, and main() returns. *)
MuxFails ==
  /\ EventLoop(Response("error"))
  /\ ProcessEnds
  /\ UNCHANGED <<opencount, id_pushstreamproc, cancel, frames, puller, stream, pulling, hung_up,
                 control>>

(* recv() returns 0 once the server has closed: readlen takes nothing off       *)
(* length and calls recv() again, for ever.                                    *)
MuxSpins ==
  /\ mux \in {"waiting", "loop"} /\ down = <<>> /\ "pusher" \in hung_up
  /\ mux' = "spin"
  /\ UNCHANGED <<opencount, id_pushstreamproc, running, cancel, push, down, puller, stream,
                 pulling, hung_up, control>>

-----------------------------------------------------------------------------
(* pushstreamproc: one sendframe after the other.                             *)

(* The count sendframe puts in every packet.  The conditional binds last:       *)
(* (length / packetlength + length % packetlength > 0) ? 1 : 0.                *)
PacketCount(length) ==
  IF (length \div PacketLength) + (length % PacketLength) > 0 THEN 1 ELSE 0

PayloadLength(rest) == IF rest < PacketLength THEN rest ELSE PacketLength

(* H264Framer_GetFrame has a frame, and mmux_dmi_sendframe starts on it. *)
StartFrame(length) ==
  /\ running > 0 /\ ~InFrame /\ Len(frames) < MaxFrames
  /\ frames' = Append(frames, length) /\ offset' = 0
  /\ UNCHANGED <<pusher, down, puller, stream, pulling, hung_up, control>>

(* One send() of sendframe; the server passes the packet on to each puller. *)
SendPacket ==
  LET length == frames[Current]
      n == PayloadLength(length - offset)
      packet == [codec |-> "frame", what |-> "data", id |-> offset \div PacketLength,
                 count |-> PacketCount(length),
                 data |-> [j \in 1..n |-> <<Current, offset + j>>]]
  IN  /\ running > 0 /\ InFrame /\ "pusher" \notin hung_up
      /\ \A k \in pulling : Len(stream[k]) < MaxPending
      /\ offset' = offset + n
      /\ stream' = [k \in Puller |-> IF k \in pulling THEN Append(stream[k], packet) ELSE stream[k]]
      /\ UNCHANGED <<pusher, frames, down, puller, pulling, hung_up, control>>

(* The thread ends: at a cancellation point (pthread_testcancel, send, usleep)  *)
(* once it is cancelled, or because the file or the connection failed.  What    *)
(* is left of the frame is never sent.                                         *)
PushThreadEnds ==
  /\ running > 0
  /\ cancel \/ "pusher" \in hung_up \/ ~InFrame
  /\ running' = running - 1
  /\ offset' = Abandoned
  /\ UNCHANGED <<mux, opencount, id_pushstreamproc, cancel, frames, down, puller, stream, pulling,
                 hung_up, control>>

(* send() after the server has closed raises SIGPIPE, which nothing ignores. *)
BrokenPipe ==
  /\ running > 0 /\ InFrame /\ "pusher" \in hung_up
  /\ ProcessEnds
  /\ UNCHANGED <<opencount, id_pushstreamproc, cancel, frames, down, puller, stream, pulling,
                 hung_up, control>>

-----------------------------------------------------------------------------
(* The pullers.                                                               *)

mdemux_dmi_pullstream(k) ==
  /\ demux[k] = "idle"
  /\ demux' = [demux EXCEPT ![k] = "waiting"]
  /\ UNCHANGED <<pusher, push, down, framebuffer, got, stream, pulling, hung_up, control>>

(* The response, taken from the first packet. *)
PullAnswered(k) ==
  /\ demux[k] = "waiting" /\ stream[k] # <<>>
  /\ demux' = [demux EXCEPT ![k] = IF Head(stream[k]) = Response("200") THEN "loop" ELSE "failed"]
  /\ framebuffer' = [framebuffer EXCEPT ![k] = Head(stream[k]).data]
  /\ stream' = [stream EXCEPT ![k] = Tail(@)]
  /\ UNCHANGED <<pusher, push, down, got, pulling, hung_up, control>>

(* Mutant: framebuffer is not cleared. *)
Collected_keeps(k, packet) == framebuffer[k] \o packet.data

(* mdemux_dmi_eventloop: a packet with PacketId 0 clears framebuffer, its       *)
(* payload is appended, and the packet with PacketId PacketCount - 1 completes  *)
(* what has been collected.                                                    *)
Collected(k, packet) == (IF packet.id = 0 THEN <<>> ELSE framebuffer[k]) \o packet.data

ReadPacket(k) ==
  /\ demux[k] = "loop" /\ stream[k] # <<>>
  /\ LET packet == Head(stream[k])
         complete == packet.id + 1 = packet.count
     IN  /\ framebuffer' = [framebuffer EXCEPT ![k] = Collected(k, packet)]
         /\ got' = [got EXCEPT ![k] = IF complete /\ packet.codec = "frame"
                                        THEN Append(@, Collected(k, packet)) ELSE @]
         /\ demux' = [demux EXCEPT ![k] = IF complete /\ packet = Response("error")
                                            THEN "failed" ELSE @]
  /\ stream' = [stream EXCEPT ![k] = Tail(@)]
  /\ UNCHANGED <<pusher, push, down, pulling, hung_up, control>>

DemuxSpins(k) ==
  /\ demux[k] \in {"waiting", "loop"} /\ stream[k] = <<>> /\ k \in hung_up
  /\ demux' = [demux EXCEPT ![k] = "spin"]
  /\ UNCHANGED <<pusher, push, down, framebuffer, got, stream, pulling, hung_up, control>>

(* mdemux_dmi_free, from the signal handler of the example. *)
mdemux_dmi_free(k) ==
  /\ demux[k] \in {"loop", "spin", "failed"}
  /\ demux' = [demux EXCEPT ![k] = "freed"]
  /\ stream' = [stream EXCEPT ![k] = <<>>]
  /\ UNCHANGED <<pusher, push, down, framebuffer, got, pulling, hung_up, control>>

-----------------------------------------------------------------------------
(* The server (external), and the requests it answers or passes on.           *)

AnswerPush(status) ==
  /\ mux = "waiting" /\ down = <<>> /\ "pusher" \notin hung_up
  /\ down' = <<Response(status)>>
  /\ UNCHANGED <<pusher, push, puller, stream, pulling, hung_up, control>>

Announce(what) == Len(down) < MaxPending /\ down' = Append(down, Request(what))

AcceptPull(k) ==
  /\ demux[k] = "waiting" /\ k \notin pulling /\ stream[k] = <<>> /\ k \notin hung_up
  /\ mux \in {"loop", "joining"} /\ "pusher" \notin hung_up
  /\ stream' = [stream EXCEPT ![k] = <<Response("200")>>]
  /\ pulling' = pulling \union {k}
  /\ Announce("PLAYER_OPEN")
  /\ UNCHANGED <<pusher, push, puller, hung_up, control>>

RefusePull(k) ==
  /\ demux[k] = "waiting" /\ k \notin pulling /\ stream[k] = <<>> /\ k \notin hung_up
  /\ stream' = [stream EXCEPT ![k] = <<Response("error")>>]
  /\ UNCHANGED <<pusher, push, down, puller, pulling, hung_up, control>>

(* A puller that is gone. *)
EndPull(k) ==
  /\ k \in pulling /\ demux[k] = "freed" /\ "pusher" \notin hung_up
  /\ pulling' = pulling \ {k}
  /\ Announce("PLAYER_CLOSE")
  /\ UNCHANGED <<pusher, push, puller, stream, hung_up, control>>

(* mdemux_dmi_seek, mdemux_dmi_speedx: passed on to the pusher. *)
Seek(k) ==
  /\ demux[k] = "loop" /\ k \in pulling /\ control < MaxControl /\ "pusher" \notin hung_up
  /\ control' = control + 1
  /\ Announce("SEEK")
  /\ UNCHANGED <<pusher, push, puller, stream, pulling, hung_up>>

(* mmux_dmi_report and mdemux_dmi_report: answered by the server. *)
Report(k, status) ==
  /\ demux[k] = "loop" /\ k \notin hung_up /\ control < MaxControl /\ Len(stream[k]) < MaxPending
  /\ control' = control + 1
  /\ stream' = [stream EXCEPT ![k] = Append(@, Response(status))]
  /\ UNCHANGED <<pusher, push, down, puller, pulling, hung_up>>

MuxReport(status) ==
  /\ mux = "loop" /\ "pusher" \notin hung_up /\ control < MaxControl /\ Len(down) < MaxPending
  /\ control' = control + 1
  /\ down' = Append(down, Response(status))
  /\ UNCHANGED <<pusher, push, puller, stream, pulling, hung_up>>

(* The server goes away and closes every connection. *)
HangUp ==
  /\ hung_up = {}
  /\ hung_up' = {"pusher"} \union Puller
  /\ pulling' = {}
  /\ UNCHANGED <<pusher, push, down, puller, stream, control>>

-----------------------------------------------------------------------------
Status == {"200", "error"}

MainThread == PushAnswered \/ PlayerOpen \/ PlayerClose \/ Joined \/ MuxOther \/ MuxFails
                \/ MuxSpins
PushThread == SendPacket \/ PushThreadEnds \/ BrokenPipe \/ (\E length \in FrameLength : StartFrame(length))
PullThread(k) == PullAnswered(k) \/ ReadPacket(k) \/ DemuxSpins(k)
Server == \/ HangUp
          \/ \E status \in Status : AnswerPush(status) \/ MuxReport(status)
          \/ \E k \in Puller : \/ AcceptPull(k) \/ RefusePull(k) \/ EndPull(k) \/ Seek(k)
                               \/ \E status \in Status : Report(k, status)
User == \/ mmux_dmi_pushstream
        \/ \E k \in Puller : mdemux_dmi_pullstream(k) \/ mdemux_dmi_free(k)

Next == MainThread \/ PushThread \/ (\E k \in Puller : PullThread(k)) \/ Server \/ User

Spec == Init /\ [][Next]_vars

(* Each thread keeps running; a cancelled thread reaches a cancellation point.  *)
(* Nothing is assumed of the server or of the users.                           *)
FairSpec == /\ Spec
            /\ WF_vars(MainThread)
            /\ WF_vars(PushThreadEnds /\ cancel)
            /\ \A k \in Puller : WF_vars(PullThread(k))

-----------------------------------------------------------------------------
Byte == Nat \X Nat
Packet == [codec : {"request", "response", "frame"},
           what : {"PLAYER_OPEN", "PLAYER_CLOSE", "SEEK", "200", "error", "data"},
           id : Nat, count : Nat, data : Seq(Byte)]

TypeOK ==
  /\ mux \in MuxState
  /\ opencount \in 0..Cardinality(Puller)
  /\ id_pushstreamproc \in BOOLEAN /\ cancel \in BOOLEAN
  /\ running \in Nat
  /\ frames \in Seq(FrameLength) /\ offset \in Nat
  /\ down \in Seq(Packet)
  /\ demux \in [Puller -> DemuxState]
  /\ stream \in [Puller -> Seq(Packet)]
  /\ framebuffer \in [Puller -> Seq(Byte)] /\ got \in [Puller -> Seq(Seq(Byte))]
  /\ pulling \subseteq Puller /\ hung_up \subseteq Puller \union {"pusher"}
  /\ control \in 0..MaxControl

Bytes(f, n) == [j \in 1..n |-> <<f, j>>]

(* What the frame callback is given is the beginning of one frame that was      *)
(* sent, never bytes of two frames or the middle of one, and frames come in the *)
(* order they were sent: although the pusher may be cancelled between two       *)
(* packets of a frame, and a puller may join there.                            *)
FramesNotMixed ==
  \A k \in Puller :
    /\ \A m \in 1..Len(got[k]) :
         \E f \in 1..Len(frames) : \E n \in 1..frames[f] : got[k][m] = Bytes(f, n)
    /\ \A m \in 2..Len(got[k]) : got[k][m - 1][1][1] < got[k][m][1][1]

(* The push thread runs only while a player is open or the close callback is     *)
(* joining it, and there is never a second one on the same socket.              *)
OnePushThread ==
  /\ running <= 1
  /\ running = 1 => opencount > 0 \/ mux = "joining"

(* When the last player has closed, the push thread stops and the event loop     *)
(* goes on: pthread_join cannot wait for ever.                                  *)
CloseStopsPush == (mux = "joining") ~> (running = 0 /\ mux # "joining")

(* mmux_dmi_sendframe is documented to "send frame data": a frame handed to the  *)
(* callback is a whole frame that was sent.                                     *)
FramesWhole ==
  \A k \in Puller : \A m \in 1..Len(got[k]) :
    \E f \in 1..Len(frames) : got[k][m] = Bytes(f, frames[f])

(* mdemux_dmi_eventloop is documented to return "0-success, <0-error": when the  *)
(* server has closed the connection, it returns.                                *)
LoopReturns ==
  \A k \in Puller : (demux[k] = "loop" /\ k \in hung_up) ~> (demux[k] \in {"failed", "freed"})
=============================================================================
