# mediafactory: a TLA+ model of its servers and streaming libraries

mediafactory is a collection of media servers, clients, protocol libraries and
file muxers in C and C++. This directory models the parts in which the order of
events decides whether the program is right: servers with an event loop,
threads that share queues, connections that end at any moment, and messages
that are cut into pieces and put together again.

## The system and its parts

| Part | Source | State | Operations | What is hard |
| --- | --- | --- | --- | --- |
| RTMP relay | `protocol/rtmp/rtmpserver-master/main.cc` | `clients`, `poll_table`, `publisher`, `metadata`, the flags of each `Client` | `do_poll`, `new_client`, `close_client`, `recv_from_client`, `handle_*` | entries erased and appended under the loop's index; a raw pointer to the publisher; flags that must follow the publisher; a blocking handshake; SIGPIPE |
| RTMP chunk layer | same file | `client->messages[64]`, `client->buf`, `chunk_len` | `recv_from_client`, `rtmp_send` | headers parsed again after each partial receive; alternating channels; SET_CHUNK between chunks; a handler that throws |
| DMI SDK | `protocol/dmi` | `opencount`, push thread, `framebuffer` | push, pull, event loops, player callbacks, `sendframe` | thread cancelled between packets; join inside a callback; end of connection |
| Conference server | `app/conference/confserver`, `util/thread.cpp`, `transport/udp/udpselectserver.cc` | `confmap`, packet queues, thread handle | `setpacket`, `runloop`, receive loop | two threads on one map; datagrams lost, repeated and reordered; a handle read before it is stored |
| TCP server | `transport/tcp/tcpserver.cc` | descriptors | event loop, read, write, close | one accept for an edge-triggered event; the end of a connection told by a stale `errno` |
| UDP epoll server | `transport/udp/udpserver.cc` | client map, per-client queues | event loop, read, write, close | edge-triggered events, unlocked map, user threads |
| RTSP server | `app/mediaserver`, `protocol/librtsp` | session object, request threads, media threads, descriptors | OPTIONS .. PLAY, media loops | session deleted under a detached thread; descriptor numbers closed by one thread and given out again while another holds them; requests cut anywhere; two writes for a packet, each of which may be short |
| RTP and the conference endpoint | `protocol/librtp`, `app/conference/endpoint` | `rtp_buffer`, timestamps, frame buffer | `setframe`, `sendfile`, `setpacket`, `recvfile` | packets lost, repeated, overtaken, and those of several senders in one demuxer; timestamps that start again at 0; packets found by multiplying lengths |
| Player | `app/player` | two frame queues, two clocks | `player_play`, `VideoThread`, `AudioCallback`, `player_close` | sizes and clocks that are stale when used, a mutex kept on an error path, packets that do not fit the period |
| RTMP pusher | `protocol/rtmp/rtmpdump-master/pusher` | stream state | connect, metadata, frames | order of headers and frames |
| Muxers, codecs, SDP, URL, AMF | `file`, `codec`, `protocol/sdp`, `protocol/url`, `amf.cc` | little or none | conversions | byte layout |
| osip2, exosip2, State Threads, librtmp | vendored | | | outside this project |

The parts interact by calls and callbacks within a process (the conference
server's receive thread calls `setpacket`; the DMI event loop calls the player
callbacks, which create and join the push thread) and by sockets between
processes. PROJECT.json lists every part with its status, and the hazards, each
at the line where it bites.

Properties that make each part correct:

- relay: the two vectors stay parallel; nobody uses a deleted publisher; what a
  player receives can be decoded and is described by the current metadata;
  reported events are served; a peer that leaves is removed;
- chunk layer: the messages handled are the messages sent, with their
  timestamps, and none waits for later bytes;
- DMI: a frame callback gets one frame, the whole frame; there is one push
  thread, and closing stops it; an event loop returns when its connection ends;
- conference: nobody hears himself, what arrives is forwarded once and in the
  order of its arrival, queues empty, and people are told apart;
- player: the sound has every decoded byte once and in order, the picture does
  not run ahead of it, and playback ends;
- RTP: packets are found where the muxer put them, no two frames of a sender are
  joined, and a frame that arrived whole is delivered whole;
- RTSP: threads use their own descriptors, every request is answered once and in
  order, a media thread's headers and payloads alternate, a session ends only for
  a cause, and it is known at any time what a session has open.

## Modules

### RtmpRelay

The server is one thread. `pc` and `i` say where it is: in `poll()`, at entry
`i` of the second loop of `do_poll`, inside `new_client` (`"handshake"`), inside
`recv_from_client` (`"messages"`), or dead of SIGPIPE (`"killed"`). Each action
is what happens between two points at which a peer's step can matter: the two
halves of an entry (POLLOUT, then POLLIN), `accept`, the end of the handshake,
`recv`, and one `handle_message` per complete message. `revents` bits are
dropped as they are served, so that `poll_table` shows what remains of the pass.

`close_client` includes the `--i; continue` of its caller: the loop's `++i`
brings it back to the same index, where the next entry now stands. `i` counts
from 1 (the code from 0).

The contents of the send queue are abstracted to whether it is empty, because
that decides POLLOUT. A peer is `sock` (not connected, in the backlog, in the
handshake, live), `inbox` (there are bytes to receive) and `gone` (it has
closed). A reset connection loses unread bytes, so `RecvEnd` does not wait for
`inbox` to be empty. `handle_fcpublish_throws` is the one handler that changes
state before it throws; a throw before any change is `RecvDone`.

Three history variables record what went over a connection: `decoder` follows a
decoder fed with it (`"gap"` after a video frame was withheld, `"broken"` after
audio or an inter frame it cannot use), `meta` the metadata it carried last, and
`fresh` whether the current publisher has set the metadata. No guard reads them.

`Room` maps this state to LiveStream (below): the members are `Live`, the clients
in the table; `View` reads off `playing` and `ready` what a client sees, and the
publisher is the publisher.

Seen while modelling and not the subject of a run: `handle_publish` answers
"Stream is now published." to any client, whoever owns the publisher slot.

### RtmpChunk

One connection, the peer sending. A chunk has a header format (0..3, that is 12,
8, 4 or 1 bytes) and a payload whose bytes carry the number of their message;
the wire is a sequence of chunks with `bytes` bytes not yet parsed, of which
`received` have arrived. `Recv` delivers any number of bytes. The loop of `recv_from_client` is one action per
way round it: too little for a header, a header that is refused, too little for
the payload, a chunk taken, the last chunk taken and handled, the last chunk
taken and refused by a handler. When the receiver's idea of the chunk's length
differs from the sender's, the next header is read from the middle of a payload:
`LoseTrack` ends the model there. The server's own `rtmp_send` (12 bytes, then
1 byte) is among the sender's behaviours.

A message may begin with any of the four headers. The 1-byte one has no room for
a timestamp, and `recv_from_client` leaves the channel's alone (main.cc:665); the
sender of the model begins a message so when its timestamp is that of the message
before, as the vendored librtmp does. A peer that means "the last difference once
more" is understood to mean none. The code does not say which it should be, so
this is a hazard in PROJECT.json and not a finding. `Messages` is MessageChannel with the
variables of the same names: `sent` lists the messages in the order in which
their last chunk was sent, `handled` what `handle_message` was given.

### LiveStream and MessageChannel

Two abstract specifications. LiveStream is what the relay does for its clients,
without sockets, tables and passes: a room in which one member at a time
publishes, a member that asks to watch waits for the next key frame, and all
wait again when the publisher leaves. RtmpRelay implements it (`ImplementsRoom`,
checked and proved). MessageChannel is what the chunk layer is for: whole
messages, handled one by one in order, every one of them, until one is refused;
nothing is promised after that, because `recv_from_client` leaves the refused
message in its buffer. RtmpChunk implements it (`ImplementsChannel`, checked;
its safety part is proved as `ImplementsMessages`, its fairness is not).

### Dmi

A pusher (event-loop thread and push thread, with the callbacks of
`libmmux_dmi/example/main.cpp`), a media server that is not in the repository
(external; it accepts or refuses, forwards packets, announces players, and may
close everything), and pullers. Packets are whole; a frame's bytes are pairs
(frame, position). A `recv()` that fails, after which the puller's event loop
returns an error, is not modelled. `PacketCount` is the expression of `mmux_dmi_sendframe` with
C's precedence. `MuxSpins` and `DemuxSpins` are `recv()` returning 0 in `readlen`
and `readpayload`. When the event loop fails `main` returns, which ends the push
thread too; so does SIGPIPE.

### Conference

`setpacket` and one pass of `runloop` each hold `confmutex` throughout and are
one step. The map is keyed by `PortOf`, as in the code, and its entry keeps the
address of the first participant with the port. The forwarding thread starts
inside the constructor, before `thread_alloc` stores the handle which it tests:
`FirstTest` crashes when it comes first (the handle of a global object is null
until then). `Send` only counts what
a participant has sent; `Arrive` puts any of it into the socket's buffer, in any
order, again, or never, which is what UDP does, and gives each arrival a number
(`at`). The server looks at no sequence number, so the order it keeps, and what
`InOrderOnce` is about, is the order of arrival. An error or an empty datagram ends the receive loop
(`ReceiveEnds`). `select` is called with an `nfds` that only Windows ignores;
the model is of the build in which datagrams are received.

### Player

Three threads: the reader (`player_play`, then `player_close` and the end of
`main`), the video thread, which the first video packet starts, and SDL's audio
thread, which calls `AudioCallback` once the device is open. Each stretch between
a lock and its unlock is one step; `VideoThread` reads the size of one queue, the
size of the other, the clocks, and shows a frame, in four steps. A video packet
is its clock, an audio packet its clock, its size and `iUsage`; a byte is a pair
(packet, position). Clocks count audio packets, which come in order; video
packets have any clock, as B-frames do. Both are small numbers: that a pts is
cut to 32 bits is outside the model. Decoding, opening the file, the device and
the window may fail. `WindowFails` returns with `videomutex` locked
(`VideoMutexFree` is false from then on). `player_close` destroys a joinable
`std::thread`, or returns to `main`, and either ends the process with whatever is
still queued. `fps` is left out: it sets the length of a sleep.

### Rtp

`sendfile` of one endpoint and `recvfile` of another, with the network and the
conference server between them: packets are lost, repeated and overtake each
other. The conference server forwards the packets of all other participants to the
same socket, and `recvfile` gives them all to one demuxer: `ReceiveOther` is such a
packet, with any timestamp of `OtherTimestamp`, a fragment, a unit that is copied
or one that is skipped. `setpacket` tells senders apart by nothing but the
timestamp, so it joins packets of two senders with the same one;
`FragmentsOfOneFrame` says that it joins no others, and never two frames of one
sender. A header is one unit and a byte is (frame, position), so that a slice of
`rtp_buffer` taken at the wrong place shows. `setframe` writes all packets of a
frame one behind the other, as the three muxers do (H.264 with FU-A fragments,
AAC with ADTS header dropped and AU header added, raw audio); `Slice` is what
`sendfile` finds there by advancing `packet_length` at a time. Audio is sent
only, as nothing in the repository receives it. `setpacket` compares timestamps
modulo `TimestampModulus` with `LOOPTIMESTAMPCORNER`; in the code these are 2^32,
10000 and a step of 3600, so that the corner is less than three frames. The
ASSUMEs keep the two ends of the range apart (twice the corner is less than the
modulus), as they are with the code's values, and the timestamps of one file
within one round of the modulus (some 13 hours at 25 frames a second). Frames
have at least one byte; a body has at least one.
Sequence numbers and the marker are left out: the receiver does not read them.
So is the SSRC, which `setpacket` parses and passes to `framecallback`
(rtpdemux_h264.cpp:61, :98) and never compares; every muxer is given 1.
`ReadFails` is the -1 of a failed read taken for a length, `StartReceiver` the handle
that `thread_alloc` stores after it started the thread. As with Conference, the
build is the one in which `select` ignores `nfds`. `seen`, `latest`, `faults`,
`others` and `jumped` are history variables; only the bounds on faults and others
read one.

### RtspServer

The media server on `tcpserver.cc`: the event loop, a request thread for each
connection (`session[c]`, whose `pc` says where `handle_request` is), and the
media threads each PLAY starts (`media[c]`). What ties sessions together is the
process's descriptor table: the lowest free number is given out, `close` frees a
number whatever it stands for by now, and a thread that still holds the number
then reads, writes or closes something else. So `Read` and `Result` go by what
`table` says of the number. A break out of a loop and the `close` after it are
two steps. A request is two units, and `read` may cut a stream of them anywhere;
one is parsed for each pass of the loop. `errno` is part of the session because
`tcp_server_read` takes a 0 for the end only when `errno` is EAGAIN. The
transport that no SETUP has initialised is the set of what it may hold. A write to
a closed client is lost, fails, or raises SIGPIPE, whose handler exits. A media
thread that reads a deleted session, or has no file, ends the process
(`StartMedia`). A write to an open connection may be short: `tcp_server_write`
returns any positive count, which every caller takes for success, so the unit is
then marked as cut and nobody writes the rest. While a client takes nothing at all
the thread repeats the write, and the client sees nothing of that. With every port
of its range in use `get_local_rtp_rtcp_port` returns 0 with its sockets unset;
that is not modelled.

The code closes some numbers twice: the connection, by a TCP media thread and by
`handle_request`, and the RTP socket, by two UDP media threads. That is harmless as
long as the number is still free. `reused` records the moment at which a number is
given out that a thread is still to use (`Held`), and the properties speak of runs
up to it (`Sound`). They therefore cover sessions over TCP that have ended, and
every state between the first and the second close. The condition is needed:
without it TLC finds, on the same instance, another session's connection behind
the number, and `SessionsApart`, `DescriptorsReturned`, `SessionEndsForCause` and
`PacketsWhole` fail.

What the properties say:

- `SessionsApart`: behind a thread's numbers is what is its own, or nothing;
- `DescriptorsReturned`: exactly which descriptors of a session are open, in every
  state: the connection until one of the two threads closes it (for ever when the
  sockets could not be opened, `pc = "failed"`), the RTP socket until a UDP media
  thread closes it (for ever without one), the RTCP socket for ever, a file as
  long as its thread runs;
- `AnswersInOrder`: one answer to each request, in order;
- `PacketsWhole`: header and payload are two writes, and another media thread of
  the session or an answer may come between them; but only these, never the answer
  to the PLAY that started the thread or to one before, and what the thread itself
  writes after a header is the payload;
- `SessionEndsForCause`: the session, which a media thread may be still to read, is
  deleted only when the client has gone, the next request is refused, or a TCP
  media thread has closed the connection. In these cases a media thread may read
  freed memory, and does in the model.

Seen while modelling: the Makefile names, and `muxer.cpp` includes, files of
librtp under older names; `rtspserver-st.cpp` is in no Makefile.

### The proof modules and the MC modules

RtmpRelayProofs, RtmpChunkProofs, DmiProofs, ConferenceProofs, PlayerProofs,
RtpProofs and RtspServerProofs each extend the module they are named after;
DataLemmas holds what they share: facts about sequences, concatenation,
`FlattenSeq` and `RemoveAt`, division, and induction (see Proofs).

MCRtmpRelay, MCConference, MCRtp and MCRtspServer hold what TLC needs: the
symmetry set, the participants and their ports, the frames of a file, and what
the clients ask. Definitions whose comment begins with "Mutant" are wrong
variants of the definition after them. No specification uses them; PROJECT.json pairs
each with the property that rejects it.

## Runs

| Run | Bounds | Checks |
| --- | --- | --- |
| relay_safety | 2 clients, 2 metadata messages, symmetric | `TypeOK`, `TableAligned`, `PublisherLive`, `StreamDecodable`, `MetadataCurrent`, `PassServesAll`, `ImplementsRoom` |
| relay_live | 2 clients, no metadata | `GoneIsReaped` |
| relay_ready | 2 clients | `ReadyWantsStream`: violated |
| chunk_intact | 2 channels, 3 messages of 1, 3 or (SET_CHUNK) 4 bytes, chunk length 2 and then 1, 2 chunks in flight | `MessagesIntact`, `TimestampsExact`, `ImplementsChannel`, `TypeOK` |
| dmi_stream | 2 pullers, 2 frames of 1 or 2 packets, 1 control request | `FramesNotMixed`, `OnePushThread`, `CloseStopsPush`, `TypeOK` |
| dmi_whole | 1 puller, 2 frames of 1 to 3 bytes, 2 bytes in a packet | `FramesWhole`: violated |
| dmi_returns | 1 puller, 1 frame | `LoopReturns`: violated |
| conf_shared | 3 participants on 2 ports, 2 datagrams each of which 2 arrivals, in any order and repeated, 2 in the receive buffer | `NoSelfEcho`, `InOrderOnce`, `QueuesDrain`, `TypeOK` |
| conf_alone | the same with 1 datagram each | `AloneMeansOnePerson`: violated |
| player_play | 4 packets, video clocks 0, 2, 4, audio packets of 1 or 4 bytes, periods of 2, threshold 1 | `AudioGapless`, `VideoNotAhead`, `PlaybackEnds`, `TypeOK` |
| rtp_frames | 3 frames of 1, 2 or 4 bytes, bodies of 2, timestamps modulo 17 in steps of 4 from 0 or 12, corner 8, 2 packets in flight, 1 repeated or overtaken, 1 of another participant, with a timestamp that the sender uses or one that may be new | `PacketsCarryFrame`, `FragmentsOfOneFrame`, `LossOnlyCuts`, `WholeFramesDelivered`, `TypeOK` |
| rtsp_sessions | 2 connections, 7 pairs of scripts, 7 descriptors, 0 or 5 of them left open before, 1 packet of a media thread, 1 short write to a connection, one missing file | `SessionsApart`, `AnswersInOrder`, `PacketsWhole`, `SessionEndsForCause`, `DescriptorsReturned`, `EveryRequestAnswered`, `GoneClientNoticed`, `TypeOK` |

Why the bounds are enough for the question each run asks. Relay: with two
clients one can publish while the other plays, either can close before or after
the other in the table, and connections are reused without limit; the theorems
cover any number. Chunks: two channels alternate, a four-byte SET_CHUNK is cut
in the middle by its own kind, the new length applies to a message begun under
the old one, and a third message shows the state left by the first two. DMI: the
second frame follows a first one that was completed, cancelled or lost, and two
pullers make the open count go up and down. Conference: with a shared port, the
map has one entry for two people and another for the third; two datagrams each
make order visible, and repetition. Player: a packet of 4 bytes spans two or three periods of 2,
two packets of 1 share one, and a video clock may be ahead of the audio clock by
more than the threshold, behind it, or within it. RTP: frames that fit a body,
fill it and need two packets, the second not full; timestamps start again at 0
within three frames, and the frame at which they do may be lost, a gap of 8 ticks,
no longer than the corner; the theorem covers longer gaps too. The other
participant's packet has the timestamp of the second frame of one of the two
starts, and falls anywhere. RTSP: one
session over UDP, over TCP, with two PLAYs, with a request while media flows and
with two requests at once, another that is refused or has no file, and two
together, so that a number closed by one is given to the other; with 5
descriptors taken the two left do not suffice for a connection and its two
sockets. One packet is two writes, between which the other thread may write, and any one
write to a connection may be short.

The violated properties are statements of the repository that the code does not
keep; each finding in PROJECT.json quotes the line.

- relay_ready: a client pauses, `playing` is cleared and `ready` is not, and the
  next audio message is sent to it.
- dmi_whole: a frame of two packets is announced as one packet, and the puller
  hands out the first packet as the frame.
- dmi_returns: the server closes, and the puller's event loop neither returns an
  error nor ends.
- conf_alone: two hosts use the same source port, and the server waits for a
  second participant.

Deadlock is checked in the relay runs (`Terminated` is the step of the killed
server). The other models (for RtspServer, whose threads end with their clients
and whose process a signal may end, too) bound what is sent and stop when it has been dealt
with.

### Fairness

`RtmpRelay!FairSpec`: the thread is scheduled, so an enabled step of `do_poll`
is taken, and one `recv` of 4096 bytes holds finitely many messages
(`RecvDone`). Nothing is assumed of peers, hence the disjunct for a handshake
that never ends in `GoneIsReaped`. `RtmpChunk!FairSpec`: TCP delivers, the loop
runs; the sender may stop anywhere. `Dmi!FairSpec`: threads run, and a cancelled
push thread reaches a cancellation point (`pthread_testcancel`, `send`,
`usleep`); nothing is assumed of the server. `Conference!FairSpec`: both threads
run. Participants need not send, and datagrams may be lost. `Player!FairSpec`:
the three threads are scheduled, SDL goes on calling, and a file ends.
`RtspServer!FairSpec`: the request threads run, and their writes return. Nothing
is assumed of clients, of the event loop or of media threads, and no connection
needs to be reset. That writes return is an assumption about the client:
`tcp_server_write` repeats a write for as long as it gets EAGAIN, so that a client
that stays and reads nothing keeps its own request thread in it;
`EveryRequestAnswered` and `GoneClientNoticed` are about clients that read or go. MessageChannel's fairness on `Handle` is what RtmpChunk is
shown to provide, not an assumption.

## Proofs

RtmpRelayProofs proves for every set of clients and every bound on the metadata
messages, from `NULL \notin Client` and `MaxMeta \in Nat` alone:

- `Invariance`: `Spec => []IInv`;
- `TypeCorrect`, `TablesStayAligned`, `PublisherNeverDangles`,
  `StreamsAreDecodable`, `MetadataReachesAll`, `PassesServeAll`: the invariants
  of relay_safety.

None of these is inductive alone. `PassServesAll` speaks of the moment before
`poll()`; while the pass runs, `PassOK` says that every entry before `i` is done,
and that is what erase and append under the index must keep. That needs
`TableAligned` (the entry erased is the one the loop stands at) and `PhaseOK`
(where `i` may stand while a client is accepted or served). `StreamDecodable`
needs `ReadyOK`: a ready client has had a key frame of the *current* publisher,
and if it plays, every frame since. This is kept by `close_client`, which
resets every flag when it empties the slot. `IdleClean` and `TableAligned`
together say that `FOR_EACH` reaches every playing and every ready client
(`ReceiversLemma`).

`RelayImplementsRoom`, `Spec => ImplementsRoom`, is the refinement for every set of
clients. Each step of the relay is a step of the room or leaves it alone
(`RoomStep`): most change no flag and no membership (`RoomStutter`); the end of a
connection, found by a failed write, an end of file or a reset, is `Leave`
(`RoomLeave`), for which `IInv` gives that the client erased from the table is the
one whose flags are cleared; a key frame is `KeyFrame` because `ReceiversLemma`
says that the loop reaches everyone who plays.

The proof of `Invariance` is split by what a step can disturb: `TypeStep`, `ControlStep` (with
`ServedStep` for an entry done and `CloseStep` for an entry erased, on
`RemoveAtLemma`) and `StreamStep` (one step per handler).

PlayerProofs proves `VideoStaysInStep`, `Spec => []VideoNotAhead`, for every set
of video clocks and sizes, every period and every threshold. The property is
about a test whose operands have moved since: `VideoNotAhead` is kept by a step
of the audio thread only because the audio clock never goes back. `AudioOrdered`
says so of the queue from which it is taken (clocks in order, none before the
current one, none after the last packet read), and `ClockTypes` is the part of
`TypeOK` that arithmetic needs. `FrontPacket` and `ClockAdvances` are the two
lemmas for the copy steps, `PacketRead` and `UsageLemma` what reading and
partial copying do to the queue.

`SoundHasNoGap`, `Spec => []AudioGapless`, is about the bytes: what was played,
what this period has, and the rest of every queued packet, joined, are what was
decoded. `SoundInv` adds `TypeOK`, that no packet is used beyond its size
(`PacketsUsed`), that `stream` is empty between calls (`StreamIdle`), and for the
types (`TypeCorrect`) that the packet the reader is about to queue is one it read
(`VideoRead`). Each copy step moves bytes from the front of the join to the end of
`stream`: `RestsFirst` and `RestsAppend`, from `FlattenFirst` and `FlattenAppend` in
DataLemmas.

RtmpChunkProofs proves `TypeCorrect`, `MessagesWhole` (`MessagesIntact`),
`TimestampsOnce` (`TimestampsExact`) and `ImplementsMessages` for any finite set of
channels, any positive lengths and messages begun with any header, from `SizesPositive` and `ChannelsFinite`. The
receiver is behind the sender by whatever is on the wire, so the invariant is a
chain (`ChainOK`): there is a sequence of receiver states, one for each chunk on
the wire, of which the first is the receiver as it is, each chunk fits the state
before it (`Fits`: its payload has the length the receiver will expect) and leads
to the next (`After`), and the last is where the sender is (`AtSender`: the same
headers, the same chunk length, everything sent handled). A chunk sent extends
the chain, a chunk taken drops its head, and no other step touches it, however
`recv` cuts the bytes. `BytesOK` is the chain of byte counts, `TypesOK` the chain of
message types (a header that leaves out the type follows one that has it), and
`SendingOK` says that a SET_CHUNK being sent announces a legal length. These three
hold after a refusal too, which `TypeOK` needs; `ChainOK` holds until a handler
refuses a message. For the refinement, the chain gives that what was handled is
a prefix of what was sent (`HandledFirst`).

DmiProofs proves `TypeCorrect`, `OneThread` (`OnePushThread`) and `FramesApart`
(`FramesNotMixed`) for any finite set of pullers and any positive lengths. That
there is one thread depends on requests that are still on the socket: `Balanced`
says what `opencount` becomes with each of them, between 0 and the number of
pullers, and that it ends at the number the server forwards to; `PushOK` ties the
thread to the count and to the join. `FlowOK` says that the packets that begin a
frame, those a puller has got and those still on its stream, are of later and
later frames, all of which the pusher has begun to send; with `OffsetOK` (in the
middle of a frame a full packet of it has gone out) a frame resumed is never taken
for a new one.

ConferenceProofs proves `TypeCorrect`, `NobodyHearsHimself` (`NoSelfEcho`) and
`PacketsInOrderOnce` (`InOrderOnce`) for any participants and finite set of ports.
`Pipeline` says that each stage (arriving, the queue of a port, received) holds
what arrived before everything in the stages before it, `ByPort` that a queue
holds packets of its port only; two participants with one port share a queue and
an address, and the theorem covers them. Nothing is assumed of the network: order
and number are those of arrival. `AscendingExists` (the walk over
`std::map` in the order of its keys) is proved by induction on finite sets.

RtspServerProofs proves `TypeCorrect`, `DescriptorsOwned` (`SessionsApart`),
`NothingLeftOpen` (`DescriptorsReturned`), `RequestsAnsweredInOrder`
(`AnswersInOrder`), `InterleavingWhole` (`PacketsWhole`) and `SessionsEndForCause`
(`SessionEndsForCause`) for any connections, descriptors, scripts and number of
packets and short writes.

- `Owned` has four parts: which numbers a session and its media threads have
  (`Numbered`), what is behind each, the connection and the socket until they are
  closed and *nothing* from then on as long as a thread is still to use the number
  (`Behind`), that no other entry of the table is theirs (`Only`), and the RTCP
  socket. `Behind` is what makes the second close of a number harmless: before
  `reused` the number is still free.
- `ParseOK` relates the buffer, what was read and the number of answers; `OutOK`
  says which answers have been written, all of them as long as the client is
  there.
- `WholeOK` is about media: units are of threads over TCP (`Interleaved`), and a
  header without its payload is one of a thread that writes it next or has stopped
  (`Pending`). The answer to a PLAY precedes the thread it starts
  (`play <= answered`).
- `CauseOK` is the cause of an end, in terms of what was read and answered, so that
  it needs `ParseOK` (the request refused is the next one) and `Owned` (a read that
  fails is of a connection that a media thread closed).

All hold under `Sound`; `reused` never becomes false again, so `Sound` after a step
implies it before.

RtpProofs proves all five invariants of rtp_frames: `TypesCorrect`,
`FramesCutRight` (`PacketsCarryFrame`), `OneFrameAtATime` (`FragmentsOfOneFrame`),
`LossCutsOnly` (`LossOnlyCuts`) and `CompleteFramesDelivered`
(`WholeFramesDelivered`), for all lengths of frames and bodies, all timestamps and
corners the assumptions admit, any number of packets in flight and of faults, and
any packets of other participants; the last two theorems are about runs without
such packets (`others = 0`), as packets of another sender with a later timestamp
do push out a frame before it is complete.

- Timestamps: there is a fixed function `T` from frames to timestamps (`Clock`),
  two of which differ by the step times the distance of the frames, or that minus
  the modulus. So they are distinct within a file (a buffer with the timestamp of
  a packet holds the packet's frame), and of a later frame within the corner
  `Newer` is true.
- Packets: `rtp_buffer` of the muxer is a flattening of packets of which all but
  the last have the same length; `FlattenCut` gives the slice at a multiple of it,
  and the bodies joined again give the frame.
- The network: a packet on its way is a packet of a frame (`IsPacket`), and the
  packets lie in the order in which they were sent (`NetOK`); to take another than
  the first, or to leave it there, is a fault. `Behind` says that a position comes before
  everything still to arrive; bytes appended at such a position keep the buffer
  `Rising`.
- Whole frames: `Underway(k, j)` counts: of frame k, packets up to the j-th have
  passed, at most j were seen, and when j were seen the buffer has exactly
  their bytes. The last packet is therefore seen with all before it, and the next
  frame's first packet delivers the buffer.

### Induction

The theorems of the library with an operator for a parameter cannot be
instantiated with the provers used here. DataLemmas states induction over sets
instead: `LeastNatural` (a set of numbers that is not empty has a least element,
from the library's well-founded ordering) and `SetInduction`. A property of all
numbers is the set of numbers that have it. `FlattenSeq` is a recursive function
chosen by the library; `FlatteningExists` and `FlatteningUnique` show that there is
exactly one such function, after which it is known by its equations (`FlattenIs`).

Only model-checked: the liveness properties (`GoneIsReaped`, `CloseStopsPush`,
`QueuesDrain`, `PlaybackEnds`, `EveryRequestAnswered`, `GoneClientNoticed`) and the
fairness of MessageChannel in `ImplementsChannel`, because TLAPS reasons neither
about fairness nor about ENABLED. Every invariant of a passing run is a theorem.

## Plan

Done: RtmpRelay, RtmpChunk, Dmi, Conference, Player, Rtp, RtspServer; LiveStream and
MessageChannel and the two refinements; the theorems above.

1. Theorems: an abstract specification of the RTP receiver (frames delivered,
   each once, cut or whole) and the refinement; what remains true of RtspServer after
   a number in use was given out again.
2. The UDP epoll server: event loop, user threads and per-client queues. Only its
   own test uses it, and that only reads.
3. RTMP pusher; the TS muxer's counters.

## What is not modelled

Most of the repository's lines are vendored: osip2, exosip2, librtmp and State
Threads. They have projects of their own and are left out, and with them the RTSP
server on State Threads, which no Makefile builds, and the SIP wrappers.

Byte layouts (AMF, FLV, MP4, TS, PS), text parsing (SDP, URL, RTSP headers),
codecs and wrappers of external libraries are data conversions with little
control; they appear where they matter as a step that may fail. `safequeue` is
included by no other file. The UDP epoll server is used by its own test only.

Of the modelled parts: the widths of RTMP timestamps and lengths, the extended
timestamp (refused by the code), a chunk length of 0, the size of the send
queues, the widths of the player's clocks, a `recv()` that fails in the DMI puller,
a search for UDP ports that finds none, and a client of the media server that
stays and never reads.
