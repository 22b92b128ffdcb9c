------------------------------- MODULE Player -------------------------------
(***************************************************************************)
(* The player of app/player: player_play() reads packets and fills two        *)
(* queues, VideoThread() shows the video queue, and SDL's audio thread calls  *)
(* AudioCallback(), which empties the audio queue into the device's buffer.   *)
(* VideoThread holds frames back while the two clocks are too far apart.      *)
(*                                                                          *)
(* Every stretch of code between a lock and its unlock is one step.  The one  *)
(* path that returns without the unlock is WindowFails, after which           *)
(* videomutex is never free again.  Clocks count audio packets: the unit is   *)
(* the duration of one.  fps is left out: it only sets how long a usleep is.  *)
(***************************************************************************)
EXTENDS Integers, Sequences, SequencesExt

CONSTANTS VideoPts,    \* the clocks of video packets, in any order (B-frames)
          AudioSize,   \* the sizes of resampled audio packets
          Period,      \* the bytes AudioCallback is asked for
          Threshold,   \* the 100 ms of VideoThread, in clock units
          MaxPackets   \* bound: packets of the file

ASSUME PtsAssumption == VideoPts \subseteq Nat
ASSUME SizeAssumption == AudioSize \subseteq Nat \ {0} /\ Period \in Nat \ {0}
ASSUME ThresholdAssumption == Threshold \in Nat /\ MaxPackets \in Nat

VARIABLES
  reader,           \* player_play and main: "open", "read", "video", "audio", "done", "closed"
  packet,           \* what the reader is about to queue
  packets,          \* how many packets were read
  apts,             \* how many of them were audio
  queueVideoFrame,  \* clocks of the queued video packets
  queueAudioFrame,  \* queued audio packets: clock, size and the bytes used
  lfVideoClock,
  lfAudioClock,
  video,            \* VideoThread: "none", "size", "audiosize", "clock", "show", "ended"
  iVideoLen,        \* whether VideoThread saw a video packet queued
  iAudioLen,        \* and an audio packet
  window,           \* "none", "open" or "failed"
  device,           \* the audio device is open
  calling,          \* AudioCallback is running
  length,           \* the bytes it has still to write
  stream,           \* the bytes it has written
  \* History
  heard,            \* the bytes of the callbacks that have returned
  decoded           \* the bytes of the audio packets that were queued

reading == <<reader, packet, packets, apts, device, decoded>>
showing == <<video, iVideoLen, iAudioLen, window, lfVideoClock>>
sounding == <<calling, length, stream, heard, lfAudioClock>>
vars == <<reading, showing, sounding, queueVideoFrame, queueAudioFrame>>

(* An audio packet, and the bytes of it from position from + 1 on. *)
AudioPacket == [pts : Nat, size : Nat, used : Nat]
Bytes(p, from, n) == [k \in 1..n |-> <<p.pts, from + k>>]

Init ==
  /\ reader = "open"
  /\ packet = [pts |-> 0, size |-> 0]
  /\ packets = 0 /\ apts = 0
  /\ queueVideoFrame = <<>> /\ queueAudioFrame = <<>>
  /\ lfVideoClock = 0 /\ lfAudioClock = 0
  /\ video = "none"
  /\ iVideoLen = FALSE /\ iAudioLen = FALSE
  /\ window = "none"
  /\ device = FALSE
  /\ calling = FALSE
  /\ length = 0
  /\ stream = <<>>
  /\ heard = <<>> /\ decoded = <<>>

-----------------------------------------------------------------------------
(* player_play().  Opening the file or SDL may fail.                          *)
Open ==
  /\ reader = "open"
  /\ reader' \in {"read", "done"}
  /\ UNCHANGED <<packet, packets, apts, device, decoded, showing, sounding,
                 queueVideoFrame, queueAudioFrame>>

(* ffmpegdemux_read() failed: the end of the file, or an error. *)
ReadEnds ==
  /\ reader = "read"
  /\ reader' = "done"
  /\ UNCHANGED <<packet, packets, apts, device, decoded, showing, sounding,
                 queueVideoFrame, queueAudioFrame>>

NextPacket == reader = "read" /\ packets < MaxPackets /\ packets' = packets + 1

(* A packet of another type, which is ignored. *)
ReadOther ==
  /\ NextPacket
  /\ UNCHANGED <<reader, packet, apts, device, decoded, showing, sounding,
                 queueVideoFrame, queueAudioFrame>>

(* A video packet; the first one starts the thread. *)
ReadVideo ==
  /\ NextPacket
  /\ \E pts \in VideoPts : packet' = [pts |-> pts, size |-> 0]
  /\ reader' = "video"
  /\ video' = IF video = "none" THEN "size" ELSE video
  /\ UNCHANGED <<apts, device, decoded, iVideoLen, iAudioLen, window, lfVideoClock, sounding,
                 queueVideoFrame, queueAudioFrame>>

(* VideoThread unlocks videomutex unless it has ended. *)
VideoMutexFree == video # "ended"

PushVideo ==
  /\ reader = "video" /\ VideoMutexFree
  /\ queueVideoFrame' = Append(queueVideoFrame, packet.pts)
  /\ reader' = "read"
  /\ UNCHANGED <<packet, packets, apts, device, decoded, showing, sounding, queueAudioFrame>>

(* An audio packet that decodes; the first one opens the device, whose         *)
(* callback may run from then on.                                              *)
ReadAudio ==
  /\ NextPacket
  /\ apts' = apts + 1
  /\ \E size \in AudioSize : packet' = [pts |-> apts', size |-> size]
  /\ device' = TRUE
  /\ reader' = "audio"
  /\ UNCHANGED <<decoded, showing, sounding, queueVideoFrame, queueAudioFrame>>

(* An audio packet that does not decode. *)
AudioUndecoded ==
  /\ NextPacket
  /\ apts' = apts + 1
  /\ UNCHANGED <<reader, packet, device, decoded, showing, sounding,
                 queueVideoFrame, queueAudioFrame>>

(* sdlplay_set_audio() fails, and player_play() returns -1. *)
DeviceFails ==
  /\ NextPacket /\ ~device
  /\ apts' = apts + 1
  /\ reader' = "done"
  /\ UNCHANGED <<packet, device, decoded, showing, sounding, queueVideoFrame, queueAudioFrame>>

PushAudio ==
  /\ reader = "audio"
  /\ queueAudioFrame' = Append(queueAudioFrame,
                               [pts |-> packet.pts, size |-> packet.size, used |-> 0])
  /\ decoded' = decoded \o Bytes(packet, 0, packet.size)
  /\ reader' = "read"
  /\ UNCHANGED <<packet, packets, apts, device, showing, sounding, queueVideoFrame>>

(* player_close() and the end of main().  Destroying the joinable              *)
(* threadeventloop terminates the process, and so does the return from main.   *)
player_close ==
  /\ reader = "done"
  /\ reader' = "closed"
  /\ UNCHANGED <<packet, packets, apts, device, decoded, showing, sounding,
                 queueVideoFrame, queueAudioFrame>>

Running == reader # "closed"

-----------------------------------------------------------------------------
(* VideoThread(): the two sizes are read one after the other, each under its   *)
(* own mutex, and the clocks under none.                                       *)
SeeVideo ==
  /\ Running /\ video = "size"
  /\ iVideoLen' = (queueVideoFrame # <<>>)
  /\ video' = "audiosize"
  /\ UNCHANGED <<reading, iAudioLen, window, lfVideoClock, sounding, queueVideoFrame, queueAudioFrame>>

SeeAudio ==
  /\ Running /\ video = "audiosize"
  /\ iAudioLen' = (queueAudioFrame # <<>>)
  /\ video' = "clock"
  /\ UNCHANGED <<reading, iVideoLen, window, lfVideoClock, sounding, queueVideoFrame, queueAudioFrame>>

(* Mutant: the video waits only when it is behind. *)
Apart_signed == lfAudioClock - lfVideoClock > Threshold

(* fabs(lfVideoClock - lfAudioClock) * 1000 > 100 *)
Apart == \/ lfVideoClock - lfAudioClock > Threshold
         \/ lfAudioClock - lfVideoClock > Threshold

TestClock ==
  /\ Running /\ video = "clock"
  /\ video' = IF iVideoLen /\ iAudioLen /\ Apart THEN "size" ELSE "show"
  /\ UNCHANGED <<reading, iVideoLen, iAudioLen, window, lfVideoClock, sounding,
                 queueVideoFrame, queueAudioFrame>>

NothingToShow ==
  /\ Running /\ video = "show" /\ queueVideoFrame = <<>>
  /\ video' = "size"
  /\ UNCHANGED <<reading, iVideoLen, iAudioLen, window, lfVideoClock, sounding,
                 queueVideoFrame, queueAudioFrame>>

Showing == Running /\ video = "show" /\ queueVideoFrame # <<>>

(* Mutant: a packet that does not decode ends the thread inside the lock. *)
VideoUndecoded_returns ==
  /\ Showing
  /\ video' = "ended"
  /\ UNCHANGED <<reading, iVideoLen, iAudioLen, window, lfVideoClock, sounding,
                 queueVideoFrame, queueAudioFrame>>

(* The packet does not decode: it is dropped, and the clock stays. *)
VideoUndecoded ==
  /\ Showing
  /\ queueVideoFrame' = Tail(queueVideoFrame)
  /\ video' = "size"
  /\ UNCHANGED <<reading, iVideoLen, iAudioLen, window, lfVideoClock, sounding, queueAudioFrame>>

(* The first frame opens the window; every frame sets the clock and is shown. *)
Show ==
  /\ Showing
  /\ window' = "open"
  /\ lfVideoClock' = Head(queueVideoFrame)
  /\ queueVideoFrame' = Tail(queueVideoFrame)
  /\ video' = "size"
  /\ UNCHANGED <<reading, iVideoLen, iAudioLen, sounding, queueAudioFrame>>

(* sdlplay_set_video() fails: the thread returns and keeps videomutex. *)
WindowFails ==
  /\ Showing /\ window = "none"
  /\ window' = "failed"
  /\ video' = "ended"
  /\ UNCHANGED <<reading, iVideoLen, iAudioLen, lfVideoClock, sounding,
                 queueVideoFrame, queueAudioFrame>>

-----------------------------------------------------------------------------
(* AudioCallback(), called by SDL once the device is open.  With the queue     *)
(* empty it takes the mutex again and again, which changes nothing.            *)
AudioCallback ==
  /\ Running /\ device /\ ~calling
  /\ calling' = TRUE
  /\ length' = Period
  /\ stream' = <<>>
  /\ UNCHANGED <<reading, showing, heard, lfAudioClock, queueVideoFrame, queueAudioFrame>>

pPacket == Head(queueAudioFrame)
iPacketSize == pPacket.size - pPacket.used
len1 == length - iPacketSize
Filling == Running /\ calling /\ length > 0 /\ queueAudioFrame # <<>>

(* What is left of the packet fits: it is copied and popped. *)
CopyRest ==
  /\ Filling /\ len1 >= 0
  /\ lfAudioClock' = pPacket.pts
  /\ stream' = stream \o Bytes(pPacket, pPacket.used, iPacketSize)
  /\ queueAudioFrame' = Tail(queueAudioFrame)
  /\ length' = len1
  /\ UNCHANGED <<reading, showing, calling, heard, queueVideoFrame>>

(* Mutants: iUsage is set, not advanced; it runs the wrong way. *)
NewUsage_set == length
NewUsage_back == pPacket.used - length

(* iUsage += length *)
NewUsage == pPacket.used + length

(* It does not: the buffer is filled and the packet keeps the rest. *)
CopyPart ==
  /\ Filling /\ len1 < 0
  /\ lfAudioClock' = pPacket.pts
  /\ stream' = stream \o Bytes(pPacket, pPacket.used, length)
  /\ queueAudioFrame' = [queueAudioFrame EXCEPT ![1].used = NewUsage]
  /\ length' = len1
  /\ UNCHANGED <<reading, showing, calling, heard, queueVideoFrame>>

CallbackReturns ==
  /\ Running /\ calling /\ length <= 0
  /\ calling' = FALSE
  /\ heard' = heard \o stream
  /\ stream' = <<>>
  /\ UNCHANGED <<reading, showing, length, lfAudioClock, queueVideoFrame, queueAudioFrame>>

-----------------------------------------------------------------------------
Reader == \/ Open \/ ReadEnds \/ ReadOther \/ ReadVideo \/ PushVideo \/ ReadAudio
          \/ AudioUndecoded \/ DeviceFails \/ PushAudio \/ player_close
VideoThread == \/ SeeVideo \/ SeeAudio \/ TestClock \/ NothingToShow
               \/ VideoUndecoded \/ Show \/ WindowFails
AudioThread == AudioCallback \/ CopyRest \/ CopyPart \/ CallbackReturns

Next == Reader \/ VideoThread \/ AudioThread
Spec == Init /\ [][Next]_vars

(* The operating system schedules the three threads, and no one of them waits  *)
(* for ever at a mutex that is released again and again.                       *)
FairSpec == Spec /\ WF_vars(Reader) /\ WF_vars(VideoThread) /\ WF_vars(AudioThread)

-----------------------------------------------------------------------------
(* The types of the state. *)
TypeOK ==
  /\ reader \in {"open", "read", "video", "audio", "done", "closed"}
  /\ packet \in [pts : Nat, size : Nat]
  /\ packets \in 0..MaxPackets /\ apts \in 0..packets
  /\ queueVideoFrame \in Seq(VideoPts)
  /\ queueAudioFrame \in Seq(AudioPacket)
  /\ lfVideoClock \in Nat /\ lfAudioClock \in Nat
  /\ video \in {"none", "size", "audiosize", "clock", "show", "ended"}
  /\ iVideoLen \in BOOLEAN /\ iAudioLen \in BOOLEAN
  /\ window \in {"none", "open", "failed"}
  /\ device \in BOOLEAN /\ calling \in BOOLEAN
  /\ length \in Int
  /\ stream \in Seq(Nat \X Nat)
  /\ heard \in Seq(Nat \X Nat) /\ decoded \in Seq(Nat \X Nat)

(* The sound has no gap, no repetition and no byte out of place: what the      *)
(* device was given, what AudioCallback has written and what the queue still   *)
(* holds are together what was decoded, however packets and periods divide     *)
(* it, and the callback returns only with its buffer exactly full.             *)
Rest(p) == Bytes(p, p.used, p.size - p.used)
AudioGapless ==
  /\ heard \o stream \o FlattenSeq([k \in 1..Len(queueAudioFrame) |-> Rest(queueAudioFrame[k])])
       = decoded
  /\ calling => Len(stream) = IF length > 0 THEN Period - length ELSE Period

(* VideoThread tests sizes and clocks at three different times and shows a     *)
(* frame at a fourth, while the audio thread moves its clock.  When the test   *)
(* was made at all, it still holds in the direction that matters: the picture  *)
(* on the screen is not ahead of the sound when the next one replaces it.      *)
VideoNotAhead ==
  video = "show" /\ iVideoLen /\ iAudioLen => lfVideoClock - lfAudioClock <= Threshold

(* player_play() always comes to its end and the process with it, however the  *)
(* threads contend for the queues, unless the window could not be opened: then *)
(* VideoThread is gone with videomutex locked, and the reader may wait for it. *)
PlaybackEnds == <>(reader = "closed") \/ <>(window = "failed")

=============================================================================
