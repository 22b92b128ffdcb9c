----------------------------- MODULE RtmpRelay -----------------------------
(***************************************************************************)
(* The live-streaming relay of protocol/rtmp/rtmpserver-master/main.cc: one *)
(* thread that polls a listening socket and the client sockets, accepts     *)
(* clients after a blocking handshake, lets one of them publish a stream,   *)
(* and copies the stream's metadata, audio and video to the clients that    *)
(* play it.                                                                 *)
(*                                                                          *)
(* The server's own state is the two parallel vectors `clients' and         *)
(* `poll_table', the globals `publisher' and `metadata', the flags of each  *)
(* Client object, and where do_poll() stands (pc, i).  A peer is seen        *)
(* through its socket: it connects, sends, and closes at any moment, also   *)
(* while the server is in the middle of a pass over the table.  A message   *)
(* is a complete RTMP message; how messages are cut into chunks and put     *)
(* together again is the subject of RtmpChunk.                              *)
(*                                                                          *)
(* decoder, fresh and meta are history variables: no guard reads them.      *)
(***************************************************************************)
EXTENDS Naturals, Sequences, SequencesExt

CONSTANTS Client,    \* the connections, each named after its Client object
          NULL,      \* the null pointer: clients[0], and publisher when absent
          MaxMeta    \* bound: @setDataFrame messages told apart in a run

ASSUME NULLAssumption == NULL \notin Client
ASSUME MaxMetaAssumption == MaxMeta \in Nat

VARIABLES
  clients,     \* vector of Client*; its first entry, NULL, is the listener
  poll_table,  \* vector of pollfd; revents holds the reports not served yet
  publisher,   \* the client that owns the stream, or NULL
  playing,     \* Client::playing
  ready,       \* Client::ready
  queued,      \* Client::send_queue is not empty
  metadata,    \* the metadata global: 0, or the number of the message that set it
  pc,          \* where the thread is: one of Phase
  i,           \* the index of do_poll's second loop, from 1
  accepted,    \* the client in new_client(), or NULL
  sock,        \* the socket: "none", "backlog", "handshake", "live"
  gone,        \* the peer has closed its end
  inbox,       \* the socket holds bytes to receive
  decoder,     \* what the connection has carried of the current stream
  fresh,       \* the current publisher has set the metadata
  meta         \* the metadata the connection carried last in this stream, 0 if none

table == <<clients, poll_table, pc, i, accepted>>
flags == <<publisher, playing, ready, metadata>>
net   == <<sock, gone, inbox>>
hist  == <<decoder, fresh, meta>>
vars  == <<table, flags, queued, net, hist>>

Phase == {"poll", "scan", "handshake", "messages", "killed"}
SockState == {"none", "backlog", "handshake", "live"}
Event == {"IN", "OUT"}

(* A decoder fed with the connection's bytes: "blank" before a key frame,      *)
(* "whole" while it has had every video frame since the last key frame, "gap"  *)
(* once one of them was withheld, "broken" if it had to decode without.        *)
DecoderState == {"blank", "whole", "gap", "broken"}

Live == {c \in Client : sock[c] = "live"}

TypeOK ==
  /\ clients \in Seq(Client \union {NULL})
  /\ poll_table \in Seq([fd : Client \union {NULL}, revents : SUBSET Event])
  /\ publisher \in Client \union {NULL}
  /\ playing \in [Client -> BOOLEAN]
  /\ ready \in [Client -> BOOLEAN]
  /\ queued \in [Client -> BOOLEAN]
  /\ metadata \in 0..MaxMeta
  /\ pc \in Phase
  /\ i \in Nat \ {0}
  /\ accepted \in Client \union {NULL}
  /\ sock \in [Client -> SockState]
  /\ gone \in [Client -> BOOLEAN]
  /\ inbox \in [Client -> BOOLEAN]
  /\ decoder \in [Client -> DecoderState]
  /\ fresh \in BOOLEAN
  /\ meta \in [Client -> 0..MaxMeta]

(* main(): the listener is the only entry of both vectors. *)
Init ==
  /\ clients = <<NULL>>
  /\ poll_table = <<[fd |-> NULL, revents |-> {}]>>
  /\ publisher = NULL
  /\ playing = [c \in Client |-> FALSE]
  /\ ready = [c \in Client |-> FALSE]
  /\ queued = [c \in Client |-> FALSE]
  /\ metadata = 0
  /\ pc = "poll"
  /\ i = 1
  /\ accepted = NULL
  /\ sock = [c \in Client |-> "none"]
  /\ gone = [c \in Client |-> FALSE]
  /\ inbox = [c \in Client |-> FALSE]
  /\ decoder = [c \in Client |-> "blank"]
  /\ fresh = FALSE
  /\ meta = [c \in Client |-> 0]

-----------------------------------------------------------------------------
(* The peers, seen through the socket interface.                             *)

Connect(c) ==
  /\ sock[c] = "none"
  /\ sock' = [sock EXCEPT ![c] = "backlog"]
  /\ UNCHANGED <<table, flags, queued, gone, inbox, hist>>

PeerSend(c) ==
  /\ sock[c] = "live" /\ ~gone[c] /\ ~inbox[c]
  /\ inbox' = [inbox EXCEPT ![c] = TRUE]
  /\ UNCHANGED <<table, flags, queued, sock, gone, hist>>

PeerClose(c) ==
  /\ sock[c] # "none" /\ ~gone[c]
  /\ gone' = [gone EXCEPT ![c] = TRUE]
  /\ UNCHANGED <<table, flags, queued, sock, inbox, hist>>

-----------------------------------------------------------------------------
(* try_to_send(): the kernel takes some or all of the queue, or (EAGAIN)      *)
(* nothing.  The failing case is TrySendFails.                                *)
try_to_send(c) ==
  \E left \in {FALSE, queued[c]} : queued' = [queued EXCEPT ![c] = left]

(* rtmp_send() to each client of R.  It appends to the send queue and ends    *)
(* with one try_to_send() whose result it ignores, so the queue is left        *)
(* empty or not, whatever it was before.                                       *)
rtmp_send(R) ==
  \E left \in [R -> BOOLEAN] :
    queued' = [c \in Client |-> IF c \in R THEN left[c] ELSE queued[c]]

(* The clients FOR_EACH visits whose flag is set. *)
Receivers(flag) == {c \in Client : (\E j \in 1..Len(clients) : clients[j] = c) /\ flag[c]}

-----------------------------------------------------------------------------
(* do_poll(): the first loop asks for POLLOUT where the send queue is not      *)
(* empty; poll() blocks until it can report something, and then reports every  *)
(* readable descriptor and the writable ones among those asked for.            *)
Readable(fd) == IF fd = NULL THEN \E c \in Client : sock[c] = "backlog"
                             ELSE inbox[fd] \/ gone[fd]

Reported(fd, writable) ==
  {e \in Event : \/ e = "IN" /\ Readable(fd)
                 \/ e = "OUT" /\ fd \in writable}

do_poll ==
  /\ pc = "poll"
  /\ \E writable \in SUBSET {c \in Live : queued[c]} :
       /\ \E j \in 1..Len(poll_table) : Reported(poll_table[j].fd, writable) # {}
       /\ poll_table' = [j \in 1..Len(poll_table) |->
                           [fd |-> poll_table[j].fd,
                            revents |-> Reported(poll_table[j].fd, writable)]]
  /\ pc' = "scan" /\ i' = 1
  /\ UNCHANGED <<clients, accepted, flags, queued, net, hist>>

(* The second loop has passed the end of the table. *)
PassEnds ==
  /\ pc = "scan" /\ i > Len(poll_table)
  /\ pc' = "poll" /\ i' = 1
  /\ UNCHANGED <<clients, poll_table, accepted, flags, queued, net, hist>>

Scanning(e) == pc = "scan" /\ i <= Len(poll_table) /\ e \in poll_table[i].revents

(* The code leaves revents alone and tests each bit once, POLLOUT before       *)
(* POLLIN; dropping a bit when it has been served keeps what remains to do.    *)
Unserved(e) == [poll_table EXCEPT ![i].revents = @ \ {e}]

(* Mutant: the index runs the wrong way. *)
NextIndex_backwards == pc' = "scan" /\ i' = i - 1

(* ++i: the loop is done with the entry. *)
NextIndex == pc' = "scan" /\ i' = i + 1
Served(e) == poll_table' = Unserved(e) /\ NextIndex

SkipEntry ==
  /\ pc = "scan" /\ i <= Len(poll_table) /\ poll_table[i].revents = {}
  /\ NextIndex
  /\ UNCHANGED <<clients, poll_table, accepted, flags, queued, net, hist>>

-----------------------------------------------------------------------------
(* Mutant: poll_table keeps the entry. *)
EraseEntry_clients_only == clients' = RemoveAt(clients, i) /\ UNCHANGED poll_table

(* The two erase() calls of close_client(). *)
EraseEntry == clients' = RemoveAt(clients, i) /\ poll_table' = RemoveAt(poll_table, i)

(* Mutants: the slot is not emptied; the players are left ready. *)
ReleasePublisher_not(c) ==
  publisher' = publisher /\ ready' = [ready EXCEPT ![c] = FALSE]
ReleasePublisher_ready_kept(c) ==
  /\ publisher' = IF c = publisher THEN NULL ELSE publisher
  /\ ready' = [ready EXCEPT ![c] = FALSE]

(* When the publisher closes, the slot is emptied and no client is ready.      *)
ReleasePublisher(c) ==
  /\ publisher' = IF c = publisher THEN NULL ELSE publisher
  /\ ready' = [d \in Client |-> ready[d] /\ d # c /\ c # publisher]

(* Mutant: no --i after the erase. *)
StayAtIndex_skips == pc' = pc /\ i' = i + 1

(* The caller's --i, which the loop's ++i undoes. *)
StayAtIndex == UNCHANGED <<pc, i>>

(* close_client(client, i) and its caller's `--i; continue'.  The fields of     *)
(* the deleted object are cleared: nothing reads them until new_client()        *)
(* initialises the next one.                                                   *)
close_client(c) ==
  /\ EraseEntry
  /\ ReleasePublisher(c)
  /\ StayAtIndex
  /\ playing' = [playing EXCEPT ![c] = FALSE]
  /\ queued' = [queued EXCEPT ![c] = FALSE]
  /\ sock' = [sock EXCEPT ![c] = "none"]
  /\ gone' = [gone EXCEPT ![c] = FALSE]
  /\ inbox' = [inbox EXCEPT ![c] = FALSE]
  /\ decoder' = [d \in Client |-> IF c \in {d, publisher} THEN "blank" ELSE decoder[d]]
  /\ fresh' = (fresh /\ c # publisher)
  /\ meta' = [d \in Client |-> IF c \in {d, publisher} THEN 0 ELSE meta[d]]
  /\ UNCHANGED <<accepted, metadata>>

(* The POLLOUT part of an entry: try_to_send() writes, or fails because the    *)
(* peer has closed, and then the client is closed.                             *)
TrySend ==
  /\ Scanning("OUT")
  /\ try_to_send(clients[i])
  /\ poll_table' = Unserved("OUT")
  /\ UNCHANGED <<clients, pc, i, accepted, flags, net, hist>>

TrySendFails ==
  /\ Scanning("OUT")
  /\ gone[clients[i]]
  /\ close_client(clients[i])

(* The POLLIN part of an entry. *)
AtInput == Scanning("IN") /\ "OUT" \notin poll_table[i].revents

-----------------------------------------------------------------------------
(* new_client(): accept(), the blocking do_handshake(), the two push_backs.    *)
Accept(c) ==
  /\ AtInput /\ clients[i] = NULL
  /\ sock[c] = "backlog"
  /\ sock' = [sock EXCEPT ![c] = "handshake"]
  /\ accepted' = c
  /\ pc' = "handshake"
  /\ UNCHANGED <<clients, poll_table, i, flags, queued, gone, inbox, hist>>

(* accept() returned -1. *)
AcceptFails ==
  /\ AtInput /\ clients[i] = NULL
  /\ Served("IN")
  /\ UNCHANGED <<clients, accepted, flags, queued, net, hist>>

(* do_handshake() returned: the exchange is complete, or it stopped short      *)
(* because the peer closed, which is no error to it.  Either way the client    *)
(* is added, and its first receive will find out.                              *)
HandshakeReturns ==
  /\ pc = "handshake"
  /\ clients' = Append(clients, accepted)
  /\ poll_table' = Append(Unserved("IN"), [fd |-> accepted, revents |-> {}])
  /\ NextIndex
  /\ sock' = [sock EXCEPT ![accepted] = "live"]
  /\ playing' = [playing EXCEPT ![accepted] = FALSE]
  /\ ready' = [ready EXCEPT ![accepted] = FALSE]
  /\ accepted' = NULL
  /\ UNCHANGED <<publisher, metadata, queued, gone, inbox, hist>>

(* do_handshake() threw: wrong version, wrong echo or a socket error. *)
HandshakeThrows ==
  /\ pc = "handshake"
  /\ Served("IN")
  /\ sock' = [sock EXCEPT ![accepted] = "none"]
  /\ gone' = [gone EXCEPT ![accepted] = FALSE]
  /\ accepted' = NULL
  /\ UNCHANGED <<clients, flags, queued, inbox, hist>>

-----------------------------------------------------------------------------
(* recv_from_client(): one recv(), then one handle_message() per complete      *)
(* message, until the buffer has no more or a handler throws.                  *)
Recv ==
  /\ AtInput /\ clients[i] # NULL
  /\ inbox[clients[i]]
  /\ inbox' = [inbox EXCEPT ![clients[i]] = FALSE]
  /\ pc' = "messages"
  /\ UNCHANGED <<clients, poll_table, i, accepted, flags, queued, sock, gone, hist>>

(* Mutant: the end of file is taken for "nothing to read". *)
RecvEnd_ignored ==
  /\ AtInput /\ clients[i] # NULL
  /\ gone[clients[i]]
  /\ Served("IN")
  /\ UNCHANGED <<clients, accepted, flags, queued, net, hist>>

(* recv() returned 0, or failed because the peer reset the connection, which   *)
(* discards what was not received.                                             *)
RecvEnd ==
  /\ AtInput /\ clients[i] # NULL
  /\ gone[clients[i]]
  /\ close_client(clients[i])

(* The buffer holds no further complete message; or a header was refused or a  *)
(* handler threw before it changed anything, which do_poll prints and forgets. *)
RecvDone ==
  /\ pc = "messages"
  /\ Served("IN")
  /\ UNCHANGED <<clients, accepted, flags, queued, net, decoder, fresh, meta>>

-----------------------------------------------------------------------------
(* handle_message(): one action per handler, for the client clients[i].        *)
Handling == pc = "messages"
FromPublisher == Handling /\ clients[i] = publisher
Stays == UNCHANGED <<table, net>>

(* These handlers answer and change nothing else, publish whoever the publisher *)
(* is; bytes-read, set-chunk and unknown messages have no effect here at all.   *)
Reply ==
  /\ Handling
  /\ rtmp_send({clients[i]})
  /\ Stays /\ UNCHANGED <<flags, decoder, fresh, meta>>

handle_connect == Reply
handle_createstream == Reply
handle_publish == Reply

handle_fcpublish ==
  /\ Handling /\ publisher = NULL
  /\ publisher' = clients[i]
  /\ rtmp_send({clients[i]})
  /\ Stays /\ UNCHANGED <<playing, ready, metadata, decoder, fresh, meta>>

(* The slot is taken before the arguments are parsed, so when they do not      *)
(* parse the client keeps it although it gets no answer.                       *)
handle_fcpublish_throws ==
  /\ Handling /\ publisher = NULL
  /\ publisher' = clients[i]
  /\ Served("IN")
  /\ UNCHANGED <<clients, accepted, playing, ready, metadata, queued, net, decoder, fresh, meta>>

(* Mutant: a client that starts late is not told. *)
send_metadata_not(c) == UNCHANGED meta

(* The last part of start_playback(). *)
send_metadata(c) == meta' = [meta EXCEPT ![c] = IF publisher # NULL THEN metadata ELSE 0]

(* Mutant: a client that plays again is still ready. *)
start_playback_ready_kept(c) ==
  /\ rtmp_send({c})
  /\ playing' = [playing EXCEPT ![c] = TRUE]
  /\ decoder' = [decoder EXCEPT ![c] = IF @ = "broken" THEN @ ELSE "blank"]
  /\ send_metadata(c)
  /\ UNCHANGED <<publisher, ready, metadata, fresh>>

start_playback(c) ==
  /\ rtmp_send({c})
  /\ playing' = [playing EXCEPT ![c] = TRUE]
  /\ ready' = [ready EXCEPT ![c] = FALSE]
  /\ decoder' = [decoder EXCEPT ![c] = IF @ = "broken" THEN @ ELSE "blank"]
  /\ send_metadata(c)
  /\ UNCHANGED <<publisher, metadata, fresh>>

(* handle_play, handle_play2, and handle_pause with paused = false. *)
handle_play ==
  /\ Handling
  /\ start_playback(clients[i])
  /\ Stays

handle_pause ==
  /\ Handling
  /\ rtmp_send({clients[i]})
  /\ playing' = [playing EXCEPT ![clients[i]] = FALSE]
  /\ Stays /\ UNCHANGED <<publisher, ready, metadata, decoder, fresh, meta>>

handle_setdataframe ==
  /\ FromPublisher
  /\ metadata < MaxMeta
  /\ metadata' = metadata + 1
  /\ fresh' = TRUE
  /\ rtmp_send(Receivers(playing))
  /\ meta' = [c \in Client |-> IF c \in Receivers(playing) THEN metadata' ELSE meta[c]]
  /\ Stays /\ UNCHANGED <<publisher, playing, ready, decoder>>

handle_audio ==
  /\ FromPublisher
  /\ rtmp_send(Receivers(ready))
  /\ decoder' = [c \in Client |-> IF c \in Receivers(ready) /\ decoder[c] = "blank" THEN "broken"
                                  ELSE decoder[c]]
  /\ Stays /\ UNCHANGED <<flags, fresh, meta>>

(* The video frame is not put on these connections. *)
Withheld(c) == IF decoder[c] = "whole" THEN "gap" ELSE decoder[c]

(* A key frame goes to every playing client and makes it ready. *)
handle_key_frame ==
  /\ FromPublisher
  /\ rtmp_send(Receivers(playing))
  /\ ready' = [c \in Client |-> ready[c] \/ c \in Receivers(playing)]
  /\ decoder' = [c \in Client |-> IF c \notin Receivers(playing) THEN Withheld(c)
                                  ELSE IF decoder[c] = "broken" THEN "broken" ELSE "whole"]
  /\ Stays /\ UNCHANGED <<publisher, playing, metadata, fresh, meta>>

InterReceivers == {c \in Receivers(playing) : ready[c]}

(* An inter frame goes to the playing clients that are ready already. *)
handle_inter_frame ==
  /\ FromPublisher
  /\ rtmp_send(InterReceivers)
  /\ decoder' = [c \in Client |-> IF c \notin InterReceivers THEN Withheld(c)
                                  ELSE IF decoder[c] # "whole" THEN "broken" ELSE "whole"]
  /\ Stays /\ UNCHANGED <<flags, fresh, meta>>

Handle ==
  \/ handle_connect \/ handle_createstream \/ handle_publish
  \/ handle_fcpublish \/ handle_fcpublish_throws \/ handle_play \/ handle_pause \/ handle_setdataframe
  \/ handle_audio \/ handle_key_frame \/ handle_inter_frame

-----------------------------------------------------------------------------
(* The clients the current step may send() to. *)
SendsTo(c) ==
  \/ Scanning("OUT") /\ c = clients[i]
  \/ pc = "handshake" /\ c = accepted
  \/ Handling /\ c = clients[i]
  \/ FromPublisher /\ c \in Receivers(playing) \union Receivers(ready)

(* send() to a peer that has closed raises SIGPIPE once the connection has been *)
(* reset, and the program leaves the signal at its default: the process ends.   *)
BrokenPipe ==
  /\ \E c \in Client : gone[c] /\ SendsTo(c)
  /\ pc' = "killed"
  /\ UNCHANGED <<clients, poll_table, i, accepted, flags, queued, net, hist>>

Terminated == pc = "killed" /\ UNCHANGED vars

Loop == do_poll \/ PassEnds \/ SkipEntry \/ TrySend \/ TrySendFails
          \/ (\E c \in Client : Accept(c)) \/ AcceptFails \/ Recv \/ RecvEnd
Handshake == HandshakeReturns \/ HandshakeThrows
Peer == pc # "killed" /\ \E c \in Client : Connect(c) \/ PeerSend(c) \/ PeerClose(c)

Next == Loop \/ RecvDone \/ Handle \/ Handshake \/ Peer \/ BrokenPipe \/ Terminated

Spec == Init /\ [][Next]_vars

(* The thread keeps running, and one recv() of at most 4096 bytes holds        *)
(* finitely many messages.  Nothing is assumed of a peer: do_handshake() may   *)
(* block for ever.                                                             *)
FairSpec == Spec /\ WF_vars(Loop) /\ WF_vars(RecvDone)

-----------------------------------------------------------------------------
(* The two vectors that do_poll() indexes with the same i describe the same    *)
(* descriptors in the same order: the listener first, then every live client   *)
(* once.  A push_back or erase on one vector only, or at another index, would  *)
(* make the loop serve one client with the events of another.                  *)
TableAligned ==
  /\ Len(clients) = Len(poll_table) /\ Len(clients) >= 1
  /\ \A j \in 1..Len(clients) : poll_table[j].fd = clients[j]
  /\ clients[1] = NULL
  /\ \A j \in 2..Len(clients) : clients[j] \in Live
  /\ \A j, k \in 1..Len(clients) : clients[j] = clients[k] => j = k
  /\ \A c \in Live : \E j \in 1..Len(clients) : clients[j] = c

(* publisher never points at a deleted client: whatever closes the client (an  *)
(* end of file, a failed write) also empties the slot, so the next FCPublish   *)
(* is accepted.                                                                *)
PublisherLive == publisher # NULL => publisher \in Live

(* What a player receives can be decoded: audio is preceded by a key frame of  *)
(* the same publisher and the same Play.Start, and no inter frame follows a    *)
(* gap, i.e. comes after a video frame of the same publisher that was withheld *)
(* with no key frame in between.  Pausing, resuming, playing twice and the     *)
(* change of publisher all pass through the two flags that guarantee it.       *)
StreamDecodable == \A c \in Client : decoder[c] # "broken"

(* Once the publisher has set the metadata, every playing client has been      *)
(* given its latest value, whether it started before or after the message.     *)
MetadataCurrent ==
  \A c \in Client : publisher # NULL /\ fresh /\ playing[c] => meta[c] = metadata

(* A pass over the table serves every descriptor poll() reported, although     *)
(* entries are erased and appended under the index while it runs.              *)
PassServesAll ==
  pc = "poll" => \A j \in 1..Len(poll_table) : poll_table[j].revents = {}

(* A client that is marked ready wants the stream: the comment on              *)
(* Client::ready says "Wants to receive and seen a keyframe".                  *)
ReadyWantsStream == \A c \in Client : ready[c] => playing[c]

(* A client whose peer has closed is removed, and with it its claim on the     *)
(* publisher slot, unless the thread waits for ever in a handshake or the        *)
(* process was killed by SIGPIPE.                                              *)
GoneIsReaped ==
  \/ <>[](pc \in {"handshake", "killed"})
  \/ \A c \in Client : (sock[c] = "live" /\ gone[c]) ~> (sock[c] # "live")

(* What a client sees of the stream, by its flags. *)
View(c) == IF ~playing[c] THEN "off" ELSE IF ready[c] THEN "watching" ELSE "waiting"
Room == INSTANCE LiveStream WITH members <- Live, view <- [c \in Client |-> View(c)]

(* The relay implements the room of LiveStream: members are the live clients,    *)
(* and playing and ready together say what a client sees.  Only one client can   *)
(* get the stream, by FCPublish while nobody has it; a key frame reaches all who *)
(* wait; the end of the publisher sends all who watch back to waiting, and       *)
(* nobody watches who has not waited for a key frame, pausing included.          *)
ImplementsRoom == Room!Spec

-----------------------------------------------------------------------------
(* The inductive invariant of RtmpRelayProofs.                                 *)

(* Inside new_client() the loop stands at the listener and holds an accepted    *)
(* client; inside recv_from_client() it stands at a client.                    *)
PhaseOK ==
  /\ pc \in {"handshake", "messages"} => i <= Len(clients)
  /\ pc = "handshake" => clients[i] = NULL /\ accepted \in Client /\ sock[accepted] = "handshake"
  /\ pc = "messages" => clients[i] # NULL

(* Entries the loop has passed have nothing left to serve, POLLOUT comes        *)
(* before POLLIN, and is never reported for the listener.                      *)
PassOK ==
  /\ \A j \in 1..Len(poll_table) :
       /\ pc = "poll" \/ j < i => poll_table[j].revents = {}
       /\ "OUT" \in poll_table[j].revents => poll_table[j].fd # NULL
  /\ pc \in {"handshake", "messages"} => poll_table[i].revents \subseteq {"IN"}

(* Only a live client is playing or ready. *)
IdleClean == \A c \in Client : playing[c] \/ ready[c] => c \in Live

(* A ready client has had a key frame of the current publisher, and if it is    *)
(* playing it has had every video frame since.                                 *)
ReadyOK ==
  \A c \in Client : ready[c] => /\ publisher # NULL
                                /\ decoder[c] \in {"whole", "gap"}
                                /\ playing[c] => decoder[c] = "whole"

MetaOK == MetadataCurrent /\ (fresh => publisher # NULL)

IInv == /\ TypeOK /\ TableAligned /\ PhaseOK /\ PassOK
        /\ PublisherLive /\ IdleClean /\ ReadyOK /\ StreamDecodable /\ MetaOK
=============================================================================
