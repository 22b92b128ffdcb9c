----------------------------- MODULE RtmpChunk -----------------------------
(***************************************************************************)
(* The chunk layer of rtmpserver-master/main.cc on one connection: messages *)
(* are cut into chunks that carry a header of 12, 8, 4 or 1 bytes, chunks   *)
(* of several channels may alternate, TCP delivers the bytes in pieces of   *)
(* any size, and recv_from_client() puts the messages together again in     *)
(* client->messages[channel].                                               *)
(*                                                                          *)
(* The sender is the peer.  It may begin a message with every header format  *)
(* the server reads, the 1-byte one included, and continues it with 1-byte   *)
(* headers; what the server's own rtmp_send() emits (a 12-byte header, then  *)
(* 1-byte headers, one message at a time) is among its behaviours.  Bytes    *)
(* are counted, and each carries the number of the message it belongs to.   *)
(*                                                                          *)
(* A 1-byte header carries no timestamp, and the server leaves the           *)
(* channel's unchanged (main.cc:664-675).  The sender here means the same    *)
(* by it, as librtmp does, which begins a message so only when its           *)
(* timestamp is that of the message before.  A peer that means the last      *)
(* difference once more is understood to mean none.                          *)
(***************************************************************************)
EXTENDS Naturals, Sequences, SequencesExt

CONSTANTS Channel,       \* chunk channels, client->messages[] has 64
          Endpoint,      \* message stream ids
          MediaLen,      \* lengths of the messages other than SET_CHUNK
          ChunkLen,      \* chunk lengths a SET_CHUNK message may announce
          DefaultChunkLen,
          Delta,         \* steps between the timestamps of a channel's messages
          MaxMessages,   \* bound: messages sent
          MaxInFlight    \* bound: chunks sent and not yet parsed

ASSUME SizesPositive ==
  /\ MediaLen \subseteq Nat \ {0}
  /\ ChunkLen \subseteq Nat \ {0}
  /\ DefaultChunkLen \in Nat \ {0}
  /\ Delta \subseteq Nat
ASSUME ChannelsFinite == IsFiniteSet(Channel)

VARIABLES
  wire,        \* chunks sent whose bytes have not all been parsed
  bytes,       \* how many bytes these are
  received,    \* how many of them are in client->buf
  messages,    \* client->messages: len, type, endpoint, timestamp and buf
  chunk_len,   \* client->chunk_len, as recv_from_client uses it
  pc,          \* "recv", "loop" (in recv_from_client's loop), "lost"
  handled,     \* the messages given to handle_message, in order
  refused,     \* a handler has thrown on this connection
  sending,     \* what the sender still has to send of each channel's message
  header,      \* the header the sender last used on each channel
  out_chunk,   \* the sender's chunk length
  sent         \* the messages wholly on the wire, in order of their last chunk

receiver == <<received, messages, chunk_len, pc, handled, refused>>
sender == <<sending, header, out_chunk, sent>>
vars == <<wire, bytes, receiver, sender>>

Types == {"media", "set_chunk"}
SetChunkLen == 4     \* a SET_CHUNK payload is one 32-bit number

(* new_client(): every length and timestamp is 0 and every buffer empty. *)
Blank == [len |-> 0, type |-> "media", endpoint |-> 0, timestamp |-> 0, buf |-> <<>>]
Idle == [id |-> 0, left |-> 0, value |-> 0]

Init ==
  /\ wire = <<>>
  /\ bytes = 0
  /\ received = 0
  /\ messages = [c \in Channel |-> Blank]
  /\ chunk_len = DefaultChunkLen
  /\ pc = "recv"
  /\ handled = <<>>
  /\ refused = FALSE
  /\ sending = [c \in Channel |-> Idle]
  /\ header = [c \in Channel |-> Blank]
  /\ out_chunk = DefaultChunkLen
  /\ sent = <<>>

-----------------------------------------------------------------------------
(* The sender.                                                               *)

HEADER_LENGTH == <<12, 8, 4, 1>>      \* by chunk format 0..3, as fmt + 1

Started == Len(sent) + Cardinality({c \in Channel : sending[c].left > 0})

(* The sender's chunk length follows its own SET_CHUNK message. *)
Finish(c, id, h, value) ==
  /\ sent' = Append(sent, [type |-> h.type, endpoint |-> h.endpoint, timestamp |-> h.timestamp,
                           data |-> [k \in 1..h.len |-> id]])
  /\ out_chunk' = IF h.type = "set_chunk" THEN value ELSE out_chunk

(* rtmp_send(), or the peer's equivalent: one chunk of `data' payload bytes. *)
Emit(c, fmt, id, h, ts, left, value) ==
  LET data == Min({left, out_chunk})
  IN  /\ wire' = Append(wire, [fmt |-> fmt, chan |-> c, id |-> id, len |-> h.len, type |-> h.type,
                               endpoint |-> h.endpoint, ts |-> ts, data |-> data, value |-> value])
      /\ bytes' = bytes + HEADER_LENGTH[fmt + 1] + data
      /\ sending' = [sending EXCEPT ![c] = [id |-> id, left |-> left - data, value |-> value]]
      /\ IF left = data THEN Finish(c, id, h, value) ELSE UNCHANGED <<sent, out_chunk>>

(* The first chunk of a message.  A header may leave out what the previous     *)
(* message on the channel had too; the timestamp is then a difference, and a   *)
(* 1-byte header has room for no difference.                                   *)
SendFirst(c, fmt, h, delta, value) ==
  /\ sending[c].left = 0
  /\ Started < MaxMessages /\ Len(wire) < MaxInFlight
  /\ fmt > 0 => header[c].len > 0 /\ h.endpoint = header[c].endpoint
  /\ fmt > 1 => h.len = header[c].len /\ h.type = header[c].type
  /\ h.timestamp = header[c].timestamp + delta
  /\ Emit(c, fmt, Started + 1, h, IF fmt = 0 THEN h.timestamp ELSE delta, h.len, value)
  /\ header' = [header EXCEPT ![c] = h]
  /\ UNCHANGED receiver

(* A further chunk, with a 1-byte header. *)
SendNext(c) ==
  /\ sending[c].left > 0
  /\ Len(wire) < MaxInFlight
  /\ Emit(c, 3, sending[c].id, header[c], 0, sending[c].left, sending[c].value)
  /\ UNCHANGED <<header, receiver>>

-----------------------------------------------------------------------------
(* recv_from_client().                                                       *)

(* recv() returns any part of the bytes in flight. *)
Recv ==
  /\ pc = "recv"
  /\ received' \in (received + 1)..bytes
  /\ pc' = "loop"
  /\ UNCHANGED <<wire, bytes, messages, chunk_len, handled, refused, sender>>

(* The chunk at the front of client->buf, once its header is there. *)
chunk == Head(wire)
HeaderLen == HEADER_LENGTH[chunk.fmt + 1]
msg == messages[chunk.chan]

(* The message after the header's assignments: a header of 8 bytes or more     *)
(* sets len and type, one of 12 bytes the endpoint.                            *)
Announced ==
  [msg EXCEPT !.len = IF chunk.fmt <= 1 THEN chunk.len ELSE @,
              !.type = IF chunk.fmt <= 1 THEN chunk.type ELSE @,
              !.endpoint = IF chunk.fmt = 0 THEN chunk.endpoint ELSE @]

(* Mutant: the chunk length is not applied. *)
Expected_whole_message == Announced.len - Len(msg.buf)

(* The payload bytes recv_from_client expects in this chunk. *)
Expected == Min({Announced.len - Len(msg.buf), chunk_len})

InLoop == pc = "loop" /\ received > 0 /\ received >= HeaderLen

(* The loop ends: the buffer is empty, or holds less than a header. *)
NeedHeader ==
  /\ pc = "loop"
  /\ received > 0 => received < HeaderLen
  /\ pc' = "recv"
  /\ UNCHANGED <<wire, bytes, received, messages, chunk_len, handled, refused, sender>>

(* "invalid msg length" and "message without a header": the exception leaves    *)
(* the bytes in the buffer.                                                    *)
BadHeader == \/ chunk.fmt <= 1 /\ chunk.len < Len(msg.buf)
             \/ Announced.len = 0

RefuseHeader ==
  /\ InLoop /\ BadHeader
  /\ messages' = [messages EXCEPT ![chunk.chan] = [@ EXCEPT !.len = Announced.len]]
  /\ refused' = TRUE
  /\ pc' = "recv"
  /\ UNCHANGED <<wire, bytes, received, chunk_len, handled, sender>>

(* The chunk's payload is appended; only now is a timestamp difference added.   *)
Taken ==
  [Announced EXCEPT !.timestamp = CASE chunk.fmt = 0 -> chunk.ts
                                    [] chunk.fmt \in {1, 2} -> @ + chunk.ts
                                    [] chunk.fmt = 3 -> @,
                    !.buf = @ \o [k \in 1..Expected |-> chunk.id]]

(* Mutants: `<=' for `<'; the timestamp difference is added too early. *)
NeedPayload_exact_waits ==
  /\ InLoop /\ ~BadHeader
  /\ received <= HeaderLen + Expected
  /\ messages' = [messages EXCEPT ![chunk.chan] = Announced]
  /\ pc' = "recv"
  /\ UNCHANGED <<wire, bytes, received, chunk_len, handled, refused, sender>>
NeedPayload_adds_time ==
  /\ InLoop /\ ~BadHeader
  /\ received < HeaderLen + Expected
  /\ messages' = [messages EXCEPT ![chunk.chan] = [Announced EXCEPT !.timestamp = Taken.timestamp]]
  /\ pc' = "recv"
  /\ UNCHANGED <<wire, bytes, received, chunk_len, handled, refused, sender>>

(* The header is there but not the whole payload: the header will be read       *)
(* again.                                                                      *)
NeedPayload ==
  /\ InLoop /\ ~BadHeader
  /\ received < HeaderLen + Expected
  /\ messages' = [messages EXCEPT ![chunk.chan] = Announced]
  /\ pc' = "recv"
  /\ UNCHANGED <<wire, bytes, received, chunk_len, handled, refused, sender>>

Take ==
  /\ InLoop /\ ~BadHeader
  /\ received >= HeaderLen + Expected
  /\ Expected = chunk.data
  /\ wire' = Tail(wire)
  /\ bytes' = bytes - (HeaderLen + Expected)
  /\ received' = received - (HeaderLen + Expected)
  /\ UNCHANGED sender

(* One more chunk of a longer message. *)
TakePart ==
  /\ Take
  /\ Len(Taken.buf) # Taken.len
  /\ messages' = [messages EXCEPT ![chunk.chan] = Taken]
  /\ UNCHANGED <<chunk_len, handled, refused, pc>>

(* Mutant: every message sets the chunk length. *)
NewChunkLen_any == chunk.value

(* handle_message(): what SET_CHUNK announces. *)
NewChunkLen == IF Taken.type = "set_chunk" THEN chunk.value ELSE chunk_len

(* The last chunk: handle_message() returns, and the buffer is cleared. *)
TakeLast ==
  /\ Take
  /\ Len(Taken.buf) = Taken.len
  /\ messages' = [messages EXCEPT ![chunk.chan] = [Taken EXCEPT !.buf = <<>>]]
  /\ handled' = Append(handled, [type |-> Taken.type, endpoint |-> Taken.endpoint,
                                 timestamp |-> Taken.timestamp, data |-> Taken.buf])
  /\ chunk_len' = NewChunkLen
  /\ UNCHANGED <<refused, pc>>

(* The last chunk: handle_message() throws, and the buffer is not cleared. *)
TakeRefused ==
  /\ Take
  /\ Len(Taken.buf) = Taken.len
  /\ Taken.type = "media"
  /\ messages' = [messages EXCEPT ![chunk.chan] = Taken]
  /\ refused' = TRUE
  /\ pc' = "recv"
  /\ UNCHANGED <<chunk_len, handled>>

(* The receiver takes another number of bytes than the chunk has: from here on  *)
(* it reads payload as headers.                                                *)
LoseTrack ==
  /\ InLoop /\ ~BadHeader
  /\ received >= HeaderLen + Expected
  /\ Expected # chunk.data
  /\ pc' = "lost"
  /\ UNCHANGED <<wire, bytes, received, messages, chunk_len, handled, refused, sender>>

-----------------------------------------------------------------------------
MediaHeaders == [len : MediaLen, type : {"media"}, endpoint : Endpoint]
SetChunkHeaders == [len : {SetChunkLen}, type : {"set_chunk"}, endpoint : {0}]

Send ==
  \E c \in Channel :
    \/ SendNext(c)
    \/ \E fmt \in 0..3, h \in MediaHeaders \union SetChunkHeaders :
         \E delta \in IF fmt < 3 THEN Delta ELSE {0}, value \in IF h.type = "set_chunk" THEN ChunkLen ELSE {0} :
           SendFirst(c, fmt, [len |-> h.len, type |-> h.type, endpoint |-> h.endpoint,
                              timestamp |-> header[c].timestamp + delta, buf |-> <<>>], delta, value)

Loop == NeedHeader \/ RefuseHeader \/ NeedPayload \/ TakePart \/ TakeLast \/ TakeRefused \/ LoseTrack

Next == Send \/ Recv \/ Loop

Spec == Init /\ [][Next]_vars

(* TCP delivers what was sent, and the server runs.  The sender is free. *)
FairSpec == Spec /\ WF_vars(Recv) /\ WF_vars(Loop)

-----------------------------------------------------------------------------
AnyEndpoint == Endpoint \union {0}
AnyChunkLen == ChunkLen \union {DefaultChunkLen}
Message == [len : Nat, type : Types, endpoint : AnyEndpoint, timestamp : Nat, buf : Seq(Nat)]
Chunk == [fmt : 0..3, chan : Channel, id : Nat, len : Nat, type : Types, endpoint : AnyEndpoint,
          ts : Nat, data : Nat \ {0}, value : Nat]
Whole == [type : Types, endpoint : AnyEndpoint, timestamp : Nat, data : Seq(Nat)]

TypeOK ==
  /\ wire \in Seq(Chunk) /\ \A k \in 1..Len(wire) : wire[k].type = "set_chunk" => wire[k].value \in ChunkLen
  /\ bytes \in Nat /\ received \in 0..bytes
  /\ messages \in [Channel -> Message] /\ header \in [Channel -> Message]
  /\ chunk_len \in AnyChunkLen /\ out_chunk \in AnyChunkLen
  /\ pc \in {"recv", "loop", "lost"}
  /\ handled \in Seq(Whole) /\ sent \in Seq(Whole)
  /\ refused \in BOOLEAN
  /\ sending \in [Channel -> [id : Nat, left : Nat, value : Nat]]

(* As long as no handler has thrown, handle_message() gets the messages that    *)
(* were sent, in the order in which they were completed, each with its own      *)
(* bytes, type and stream: whatever pieces recv() returns, however chunks of    *)
(* the channels alternate, also when a SET_CHUNK comes between the chunks of    *)
(* another message.                                                            *)
MessagesIntact ==
  ~refused => /\ pc # "lost"
              /\ Len(handled) <= Len(sent)
              /\ \A k \in 1..Len(handled) :
                   /\ handled[k].data = sent[k].data
                   /\ handled[k].type = sent[k].type
                   /\ handled[k].endpoint = sent[k].endpoint

(* A message is handled with the timestamp its channel's headers add up to: the  *)
(* last full one and every difference since, each added exactly once, although  *)
(* the header that carries it is read again after every incomplete receive.     *)
(* A message begun with a 1-byte header has the timestamp of the one before it. *)
TimestampsExact ==
  ~refused => \A k \in 1..Len(handled) : handled[k].timestamp = sent[k].timestamp

(* The chunk layer implements the message channel: what recv_from_client() puts *)
(* together from chunks is handled as if whole messages had been sent, and every*)
(* message is handled, so that no complete one stays in client->buf to wait for *)
(* bytes that may never come.                                                  *)
Messages == INSTANCE MessageChannel
ImplementsChannel == Messages!Spec
=============================================================================
