--------------------------- MODULE RtmpChunkProofs ---------------------------
(***************************************************************************)
(* Proofs about RtmpChunk, for all chunk lengths, channels and messages and   *)
(* however recv() cuts the stream.                                          *)
(***************************************************************************)
EXTENDS RtmpChunk, Integers, DataLemmas

(* Announced, Expected and Taken, of any message m and chunk ch. *)
AnnouncedBy(m, ch) ==
  [len |-> IF ch.fmt <= 1 THEN ch.len ELSE m.len, type |-> IF ch.fmt <= 1 THEN ch.type ELSE m.type,
   endpoint |-> IF ch.fmt = 0 THEN ch.endpoint ELSE m.endpoint, timestamp |-> m.timestamp, buf |-> m.buf]
ExpectedBy(m, ch, limit) == Min({AnnouncedBy(m, ch).len - Len(m.buf), limit})
TimeBy(m, ch) == IF ch.fmt = 0 THEN ch.ts ELSE IF ch.fmt \in {1, 2} THEN m.timestamp + ch.ts ELSE m.timestamp
TakenBy(m, ch, n) ==
  [len |-> AnnouncedBy(m, ch).len, type |-> AnnouncedBy(m, ch).type, endpoint |-> AnnouncedBy(m, ch).endpoint,
   timestamp |-> TimeBy(m, ch), buf |-> m.buf \o [k \in 1..n |-> ch.id]]
Cleared(m) == [len |-> m.len, type |-> m.type, endpoint |-> m.endpoint, timestamp |-> m.timestamp, buf |-> <<>>]
HandledAs(m) == [type |-> m.type, endpoint |-> m.endpoint, timestamp |-> m.timestamp, data |-> m.buf]

(* A state of the receiver, when it takes the chunk ch and what it is then. *)
State == [msgs : [Channel -> Message], limit : AnyChunkLen, done : Seq(Whole)]
Fits(s, ch) ==
  /\ ch.fmt <= 1 => ch.len >= Len(s.msgs[ch.chan].buf)
  /\ AnnouncedBy(s.msgs[ch.chan], ch).len > 0
  /\ ExpectedBy(s.msgs[ch.chan], ch, s.limit) = ch.data
Put(s, ch, m) == [s.msgs EXCEPT ![ch.chan] = m]
After(s, ch) ==
  LET t == TakenBy(s.msgs[ch.chan], ch, ch.data)
  IN  IF Len(t.buf) = t.len
      THEN [msgs |-> Put(s, ch, Cleared(t)), limit |-> IF t.type = "set_chunk" THEN ch.value ELSE s.limit,
            done |-> Append(s.done, HandledAs(t))]
      ELSE [msgs |-> Put(s, ch, t), limit |-> s.limit, done |-> s.done]

Prefix(p, q) == Len(p) <= Len(q) /\ \A k \in 1..Len(p) : p[k] = q[k]

(* Where the sender is once everything on the wire is taken: what the receiver has of a       *)
(* channel's message is what the sender has sent of it.                                    *)
AtSender(s) ==
  /\ s.limit = out_chunk /\ s.done = sent
  /\ \A c \in Channel :
       /\ s.msgs[c].len = header[c].len /\ s.msgs[c].type = header[c].type
       /\ s.msgs[c].endpoint = header[c].endpoint /\ s.msgs[c].timestamp = header[c].timestamp
       /\ sending[c].left <= header[c].len
       /\ sending[c].left = 0 => s.msgs[c].buf = <<>>
       /\ sending[c].left > 0 => /\ Len(s.msgs[c].buf) = header[c].len - sending[c].left
                                 /\ \A k \in 1..Len(s.msgs[c].buf) : s.msgs[c].buf[k] = sending[c].id

(* The states the receiver will go through lead from where it is to where the sender is. *)
Leads(st) ==
  /\ st[0] = [msgs |-> messages, limit |-> chunk_len, done |-> handled]
  /\ AtSender(st[Len(wire)])
  /\ \A k \in 1..Len(wire) : Fits(st[k - 1], wire[k]) /\ st[k] = After(st[k - 1], wire[k])
  /\ \A k \in 0..Len(wire) : Prefix(st[k].done, sent)
ChainOK == ~refused => pc # "lost" /\ \E st \in [0..Len(wire) -> State] : Leads(st)

(* The bytes of the chunks on the wire are the bytes on the wire. *)
SizeOf(ch) == HEADER_LENGTH[ch.fmt + 1] + ch.data
Counts(pos) ==
  /\ pos[0] = 0 /\ pos[Len(wire)] = bytes
  /\ \A k \in 1..Len(wire) : pos[k] = pos[k - 1] + SizeOf(wire[k])
BytesOK == \E pos \in [0..Len(wire) -> Int] : Counts(pos)

(* A header that leaves out the type comes after one that has it, refused or not. *)
Typed(ty) ==
  /\ \A c \in Channel : ty[0][c] = messages[c].type /\ ty[Len(wire)][c] = header[c].type
  /\ \A k \in 1..Len(wire) : /\ ty[k] = [ty[k - 1] EXCEPT ![wire[k].chan] = wire[k].type]
                             /\ wire[k].fmt > 1 => ty[k - 1][wire[k].chan] = wire[k].type
TypesOK == \E ty \in [0..Len(wire) -> [Channel -> Types]] : Typed(ty)

(* The SET_CHUNK messages that are being sent announce a legal length, and every message    *)
(* that is being sent is as long as what is left of it.                                    *)
SendingOK == \A c \in Channel : sending[c].left > 0 => /\ header[c].type = "set_chunk" => sending[c].value \in ChunkLen
                                                       /\ sending[c].left <= header[c].len

IInv == TypeOK /\ SendingOK /\ BytesOK /\ TypesOK /\ ChainOK

-----------------------------------------------------------------------------
(* Messages and chunks.                                                      *)

LEMMA MinPair ==
  ASSUME NEW a \in Int, NEW b \in Int
  PROVE  Min({a, b}) = IF a <= b THEN a ELSE b
<1>1. \E x \in {a, b} : \A y \in {a, b} : x <= y
  OBVIOUS
<1>2. Min({a, b}) \in {a, b} /\ Min({a, b}) <= a /\ Min({a, b}) <= b
  BY <1>1 DEF Min
<1> QED
  BY <1>2

LEMMA HeaderLength ==
  ASSUME NEW ch \in Chunk
  PROVE  HEADER_LENGTH[ch.fmt + 1] \in Nat \ {0} /\ SizeOf(ch) \in Nat \ {0}
<1>1. ch.fmt \in 0..3 /\ ch.data \in Nat
  BY DEF Chunk
<1>2. HEADER_LENGTH[ch.fmt + 1] \in {12, 8, 4, 1}
  <2>1. ch.fmt = 0 \/ ch.fmt = 1 \/ ch.fmt = 2 \/ ch.fmt = 3
    BY <1>1
  <2> QED
    BY <2>1 DEF HEADER_LENGTH
<1> QED
  BY <1>1, <1>2 DEF SizeOf

LEMMA LimitPositive ==
  AnyChunkLen \subseteq Nat \ {0} /\ ChunkLen \subseteq AnyChunkLen
  BY SizesPositive DEF AnyChunkLen

LEMMA AnnouncedFields ==
  ASSUME NEW m \in Message, NEW ch \in Chunk
  PROVE  /\ AnnouncedBy(m, ch) \in Message
         /\ AnnouncedBy(m, ch).buf = m.buf /\ AnnouncedBy(m, ch).timestamp = m.timestamp
         /\ AnnouncedBy(m, ch).len = IF ch.fmt <= 1 THEN ch.len ELSE m.len
         /\ AnnouncedBy(m, ch).type = IF ch.fmt <= 1 THEN ch.type ELSE m.type
         /\ AnnouncedBy(m, ch).endpoint = IF ch.fmt = 0 THEN ch.endpoint ELSE m.endpoint
  BY DEF AnnouncedBy, Message, Chunk

(* Reading a header again changes nothing. *)
LEMMA AnnouncedAgain ==
  ASSUME NEW m \in Message, NEW ch \in Chunk
  PROVE  /\ AnnouncedBy(AnnouncedBy(m, ch), ch) = AnnouncedBy(m, ch)
         /\ \A l : ExpectedBy(AnnouncedBy(m, ch), ch, l) = ExpectedBy(m, ch, l)
         /\ \A n : TakenBy(AnnouncedBy(m, ch), ch, n) = TakenBy(m, ch, n)
<1>1. PICK a \in Message : a = AnnouncedBy(m, ch)
  BY AnnouncedFields
<1>2. /\ a.buf = m.buf /\ a.timestamp = m.timestamp
      /\ a.len = (IF ch.fmt <= 1 THEN ch.len ELSE m.len) /\ a.type = (IF ch.fmt <= 1 THEN ch.type ELSE m.type)
      /\ a.endpoint = IF ch.fmt = 0 THEN ch.endpoint ELSE m.endpoint
  BY <1>1, AnnouncedFields
<1>3. AnnouncedBy(a, ch) = AnnouncedBy(m, ch)
  BY <1>2 DEF AnnouncedBy
<1>4. \A l : ExpectedBy(a, ch, l) = ExpectedBy(m, ch, l)
  BY <1>2, <1>3 DEF ExpectedBy
<1>5. TimeBy(a, ch) = TimeBy(m, ch)
  BY <1>2 DEF TimeBy
<1>6. \A n : TakenBy(a, ch, n) = TakenBy(m, ch, n)
  BY <1>2, <1>3, <1>5 DEF TakenBy
<1> QED
  BY <1>1, <1>3, <1>4, <1>6

LEMMA TakenFields ==
  ASSUME NEW m \in Message, NEW ch \in Chunk, NEW n \in Nat
  PROVE  /\ TakenBy(m, ch, n) \in Message
         /\ TakenBy(m, ch, n).len = AnnouncedBy(m, ch).len /\ TakenBy(m, ch, n).type = AnnouncedBy(m, ch).type
         /\ TakenBy(m, ch, n).endpoint = AnnouncedBy(m, ch).endpoint
         /\ TakenBy(m, ch, n).timestamp = TimeBy(m, ch)
         /\ Len(TakenBy(m, ch, n).buf) = Len(m.buf) + n
         /\ \A k \in 1..Len(m.buf) : TakenBy(m, ch, n).buf[k] = m.buf[k]
         /\ \A k \in 1..(Len(m.buf) + n) : k > Len(m.buf) => TakenBy(m, ch, n).buf[k] = ch.id
<1>1. PICK b \in Seq(Nat) : b = m.buf
  BY DEF Message
<1>2. ch.id \in Nat /\ ch.ts \in Nat /\ m.timestamp \in Nat
  BY DEF Message, Chunk
<1>0. [k \in 1..n |-> ch.id] \in Seq(Nat) /\ Len([k \in 1..n |-> ch.id]) = n
  BY <1>2
<1>3. PICK d \in Seq(Nat) : d = [k \in 1..n |-> ch.id] /\ Len(d) = n
  BY <1>0
<1>4. /\ b \o d \in Seq(Nat) /\ Len(b \o d) = Len(b) + Len(d)
      /\ \A k \in 1..(Len(b) + Len(d)) : (b \o d)[k] = IF k <= Len(b) THEN b[k] ELSE d[k - Len(b)]
  BY ConcatProperties
<1>5. Len(b) \in Nat
  OBVIOUS
<1>6. \A k \in 1..Len(b) : (b \o d)[k] = b[k]
  BY <1>3, <1>4, <1>5
<1>7. ASSUME NEW k \in 1..(Len(b) + n), k > Len(b) PROVE (b \o d)[k] = ch.id
  <2>1. k - Len(b) \in 1..n /\ ~(k <= Len(b))
    BY <1>5, <1>7
  <2>2. (b \o d)[k] = d[k - Len(b)]
    BY <1>3, <1>4, <2>1
  <2>3. d[k - Len(b)] = ch.id
    BY <1>3, <2>1
  <2> QED
    BY <2>2, <2>3
<1>8. TimeBy(m, ch) \in Nat
  BY <1>2 DEF TimeBy
<1>9. PICK a \in Message : a = AnnouncedBy(m, ch)
  BY AnnouncedFields
<1>10. TakenBy(m, ch, n) = [len |-> a.len, type |-> a.type, endpoint |-> a.endpoint,
                            timestamp |-> TimeBy(m, ch), buf |-> b \o d]
  BY <1>1, <1>3, <1>9 DEF TakenBy
<1>11. TakenBy(m, ch, n) \in Message
  BY <1>4, <1>8, <1>10 DEF Message
<1> QED
  BY <1>1, <1>3, <1>4, <1>6, <1>7, <1>9, <1>10, <1>11

LEMMA ClearedFields ==
  ASSUME NEW m \in Message
  PROVE  /\ Cleared(m) \in Message /\ Cleared(m).len = m.len /\ Cleared(m).type = m.type
         /\ Cleared(m).endpoint = m.endpoint /\ Cleared(m).timestamp = m.timestamp /\ Cleared(m).buf = <<>>
         /\ Cleared(m) = [m EXCEPT !.buf = <<>>]
         /\ HandledAs(m) \in Whole
<1>1. <<>> \in Seq(Nat)
  OBVIOUS
<1> QED
  BY <1>1 DEF Cleared, HandledAs, Message, Whole

-----------------------------------------------------------------------------
(* The operators of recv_from_client(), when there is a chunk.                 *)

LEMMA FrontChunk ==
  ASSUME TypeOK, BytesOK, received > 0
  PROVE  /\ Len(wire) \in Nat \ {0} /\ wire # <<>> /\ chunk = wire[1] /\ chunk \in Chunk /\ chunk.chan \in Channel
         /\ msg = messages[chunk.chan] /\ msg \in Message
<1>1. wire \in Seq(Chunk) /\ messages \in [Channel -> Message] /\ bytes \in Nat /\ received \in 0..bytes
  BY DEF TypeOK
<1>2. wire # <<>>
  <2> SUFFICES ASSUME wire = <<>> PROVE FALSE
    OBVIOUS
  <2>1. Len(wire) = 0
    OBVIOUS
  <2>2. bytes = 0
    BY <2>1 DEF BytesOK, Counts
  <2> QED
    BY <1>1, <2>2
<1>3. Len(wire) \in Nat \ {0} /\ chunk = wire[1] /\ chunk \in Chunk
  BY <1>1, <1>2 DEF chunk
<1>4. chunk.chan \in Channel
  BY <1>3 DEF Chunk
<1> QED
  BY <1>1, <1>2, <1>3, <1>4 DEF msg

LEMMA Operators ==
  ASSUME TypeOK, BytesOK, received > 0
  PROVE  /\ Announced = AnnouncedBy(msg, chunk)
         /\ Expected = ExpectedBy(msg, chunk, chunk_len)
         /\ Expected \in Nat => Taken = TakenBy(msg, chunk, Expected)
<1>1. PICK ch \in Chunk : ch = chunk
  BY FrontChunk
<1>2. PICK m \in Message : m = msg
  BY FrontChunk
<1>3. Announced = [m EXCEPT !.len = IF ch.fmt <= 1 THEN ch.len ELSE @,
                            !.type = IF ch.fmt <= 1 THEN ch.type ELSE @,
                            !.endpoint = IF ch.fmt = 0 THEN ch.endpoint ELSE @]
  BY <1>1, <1>2 DEF Announced
<1>4. Announced = AnnouncedBy(m, ch)
  BY <1>3 DEF Message, AnnouncedBy
<1>5. Expected = ExpectedBy(m, ch, chunk_len)
  BY <1>1, <1>2, <1>4 DEF Expected, ExpectedBy
<1>6. ASSUME NEW n \in Nat, n = Expected PROVE Taken = TakenBy(m, ch, n)
  <2>1. PICK a \in Message : a = AnnouncedBy(m, ch) /\ a.timestamp = m.timestamp /\ a.buf = m.buf
    BY AnnouncedFields
  <2>2. Taken = [a EXCEPT !.timestamp = CASE ch.fmt = 0 -> ch.ts
                                          [] ch.fmt \in {1, 2} -> @ + ch.ts
                                          [] ch.fmt = 3 -> @,
                          !.buf = @ \o [k \in 1..n |-> ch.id]]
    BY <1>1, <1>4, <1>6, <2>1 DEF Taken
  <2>3. PICK w : w = CASE ch.fmt = 0 -> ch.ts
                       [] ch.fmt \in {1, 2} -> a.timestamp + ch.ts
                       [] ch.fmt = 3 -> a.timestamp
    OBVIOUS
  <2>4. PICK b : b = a.buf \o [k \in 1..n |-> ch.id]
    OBVIOUS
  <2>5. Taken = [len |-> a.len, type |-> a.type, endpoint |-> a.endpoint, timestamp |-> w, buf |-> b]
    BY <2>2, <2>3, <2>4 DEF Message
  <2>6. w = TimeBy(m, ch)
    <3>1. ch.fmt = 0 \/ ch.fmt \in {1, 2} \/ ch.fmt = 3
      BY DEF Chunk
    <3> QED
      BY <2>1, <2>3, <3>1 DEF TimeBy
  <2> QED
    BY <2>1, <2>4, <2>5, <2>6 DEF TakenBy
<1> QED
  BY <1>1, <1>2, <1>4, <1>5, <1>6

-----------------------------------------------------------------------------
(* The sender.                                                               *)

(* The chunk ch of a message with the header h, of which `left' bytes are still to be sent. *)
Emits(c, ch, h, left) ==
  /\ wire' = Append(wire, ch) /\ bytes' = bytes + SizeOf(ch) /\ UNCHANGED receiver
  /\ ch.chan = c /\ ch.len = h.len /\ ch.type = h.type /\ ch.endpoint = h.endpoint
  /\ ch.data = (IF left <= out_chunk THEN left ELSE out_chunk)
  /\ left \in 1..h.len /\ (h.type = "set_chunk" => ch.value \in ChunkLen)
  /\ header' = [header EXCEPT ![c] = h]
  /\ sending' = [sending EXCEPT ![c] = [id |-> ch.id, left |-> left - ch.data, value |-> ch.value]]
Finishes(ch, h, left) ==
  IF left = ch.data
  THEN /\ sent' = Append(sent, [type |-> h.type, endpoint |-> h.endpoint, timestamp |-> h.timestamp,
                                data |-> [k \in 1..h.len |-> ch.id]])
       /\ out_chunk' = IF h.type = "set_chunk" THEN ch.value ELSE out_chunk
  ELSE UNCHANGED <<sent, out_chunk>>
Follows(c, ch, h, left) ==
  \/ /\ sending[c].left = 0 /\ left = h.len /\ ch.fmt \in 0..3
     /\ ch.fmt > 0 => h.endpoint = header[c].endpoint
     /\ ch.fmt > 1 => h.len = header[c].len /\ h.type = header[c].type
     /\ ch.fmt = 3 => ch.ts = 0
     /\ h.timestamp = IF ch.fmt = 0 THEN ch.ts ELSE header[c].timestamp + ch.ts
  \/ sending[c].left = left /\ ch.id = sending[c].id /\ h = header[c] /\ ch.fmt = 3

Carries(ch, fmt, id, ts) == ch.fmt = fmt /\ ch.id = id /\ ch.ts = ts

LEMMA EmitEffect ==
  ASSUME TypeOK, NEW c \in Channel, NEW fmt \in 0..3, NEW id \in Nat, NEW h \in Message, NEW ts \in Nat,
         NEW left \in 1..h.len, NEW value \in Nat, h.type = "set_chunk" => value \in ChunkLen,
         Emit(c, fmt, id, h, ts, left, value), UNCHANGED receiver, header' = [header EXCEPT ![c] = h]
  PROVE  \E ch \in Chunk : Emits(c, ch, h, left) /\ Finishes(ch, h, left) /\ Carries(ch, fmt, id, ts)
<1>1. out_chunk \in Nat \ {0} /\ h.len \in Nat /\ left \in Nat \ {0}
  BY LimitPositive DEF TypeOK, Message
<1>2. PICK data \in Nat \ {0} : data = Min({left, out_chunk}) /\ data = IF left <= out_chunk THEN left ELSE out_chunk
  BY <1>1, MinPair
<1>3. h.type \in Types /\ h.endpoint \in AnyEndpoint
  BY DEF Message
<1>4. [fmt |-> fmt, chan |-> c, id |-> id, len |-> h.len, type |-> h.type, endpoint |-> h.endpoint, ts |-> ts,
       data |-> data, value |-> value] \in Chunk
  BY <1>1, <1>3 DEF Chunk
<1>5. PICK ch \in Chunk : ch = [fmt |-> fmt, chan |-> c, id |-> id, len |-> h.len, type |-> h.type,
                                endpoint |-> h.endpoint, ts |-> ts, data |-> data, value |-> value]
  BY <1>4
<1>6. /\ ch.fmt = fmt /\ ch.chan = c /\ ch.id = id /\ ch.len = h.len /\ ch.type = h.type
      /\ ch.endpoint = h.endpoint /\ ch.ts = ts /\ ch.data = data /\ ch.value = value
  BY <1>5
<1>7. /\ wire' = Append(wire, ch) /\ bytes' = bytes + HEADER_LENGTH[fmt + 1] + data
      /\ sending' = [sending EXCEPT ![c] = [id |-> id, left |-> left - data, value |-> value]]
      /\ IF left = data THEN Finish(c, id, h, value) ELSE UNCHANGED <<sent, out_chunk>>
  BY <1>2, <1>5 DEF Emit
<1>8. bytes' = bytes + SizeOf(ch)
  <2>1. bytes \in Nat /\ HEADER_LENGTH[ch.fmt + 1] \in Nat
    BY HeaderLength DEF TypeOK
  <2> QED
    BY <1>6, <1>7, <2>1 DEF SizeOf
<1>9. Emits(c, ch, h, left)
  BY <1>2, <1>6, <1>7, <1>8 DEF Emits
<1>10. Finishes(ch, h, left)
  BY <1>6, <1>7 DEF Finishes, Finish
<1>11. Carries(ch, fmt, id, ts)
  BY <1>6 DEF Carries
<1> QED
  BY <1>9, <1>10, <1>11

LEMMA SendEffect ==
  ASSUME TypeOK, SendingOK, Send
  PROVE  \E c \in Channel, ch \in Chunk, h \in Message, left \in Nat :
           Emits(c, ch, h, left) /\ Finishes(ch, h, left) /\ Follows(c, ch, h, left)
<1>0. header \in [Channel -> Message] /\ sending \in [Channel -> [id : Nat, left : Nat, value : Nat]]
  BY DEF TypeOK
<1>1. ASSUME NEW c \in Channel, SendNext(c)
      PROVE  \E ch \in Chunk, h \in Message, left \in Nat :
               Emits(c, ch, h, left) /\ Finishes(ch, h, left) /\ Follows(c, ch, h, left)
  <2>1. PICK h \in Message : h = header[c]
    BY <1>0
  <2>2. PICK left \in Nat : left = sending[c].left /\ left > 0
    BY <1>0, <1>1 DEF SendNext
  <2>3. PICK id \in Nat : id = sending[c].id
    BY <1>0
  <2>4. PICK value \in Nat : value = sending[c].value
    BY <1>0
  <2>5. left \in 1..h.len /\ (h.type = "set_chunk" => value \in ChunkLen)
    <3>1. sending[c].left <= header[c].len
      BY <2>2 DEF SendingOK
    <3>2. h.len \in Nat
      BY DEF Message
    <3> QED
      BY <2>1, <2>2, <2>4, <3>1, <3>2 DEF SendingOK
  <2>6. Emit(c, 3, id, h, 0, left, value) /\ UNCHANGED receiver /\ header' = header
    BY <1>1, <2>1, <2>2, <2>3, <2>4 DEF SendNext
  <2>7. header' = [header EXCEPT ![c] = h]
    BY <1>0, <2>1, <2>6
  <2>8. PICK ch \in Chunk : Emits(c, ch, h, left) /\ Finishes(ch, h, left) /\ Carries(ch, 3, id, 0)
    <3>1. PICK f \in 0..3, t \in Nat : f = 3 /\ t = 0
      OBVIOUS
    <3>2. PICK l \in 1..h.len : l = left
      BY <2>5
    <3>3. Emit(c, f, id, h, t, l, value)
      BY <2>6, <3>1, <3>2
    <3>4. \E ch \in Chunk : Emits(c, ch, h, l) /\ Finishes(ch, h, l) /\ Carries(ch, f, id, t)
      BY <2>5, <2>6, <2>7, <3>3, EmitEffect
    <3> QED
      BY <3>1, <3>2, <3>4
  <2>9. Follows(c, ch, h, left)
    BY <2>1, <2>2, <2>3, <2>8 DEF Follows, Carries
  <2> QED
    BY <2>8, <2>9
<1>2. ASSUME NEW c \in Channel, NEW fmt \in 0..3, NEW g \in MediaHeaders \union SetChunkHeaders,
             NEW delta \in (IF fmt < 3 THEN Delta ELSE {0}),
             NEW value \in IF g.type = "set_chunk" THEN ChunkLen ELSE {0},
             SendFirst(c, fmt, [len |-> g.len, type |-> g.type, endpoint |-> g.endpoint,
                                timestamp |-> header[c].timestamp + delta, buf |-> <<>>], delta, value)
      PROVE  \E ch \in Chunk, h \in Message, left \in Nat :
               Emits(c, ch, h, left) /\ Finishes(ch, h, left) /\ Follows(c, ch, h, left)
  <2>1. g.len \in Nat \ {0} /\ g.type \in Types /\ g.endpoint \in AnyEndpoint
    <3>1. CASE g \in MediaHeaders
      <4>1. g.len \in MediaLen /\ g.type = "media" /\ g.endpoint \in Endpoint
        BY <3>1 DEF MediaHeaders
      <4> QED
        BY <4>1, SizesPositive DEF Types, AnyEndpoint
    <3>2. CASE g \in SetChunkHeaders
      <4>1. g.len = 4 /\ g.type = "set_chunk" /\ g.endpoint = 0
        BY <3>2 DEF SetChunkHeaders, SetChunkLen
      <4> QED
        BY <4>1 DEF Types, AnyEndpoint
    <3> QED
      BY <3>1, <3>2
  <2>0. delta \in Nat /\ (fmt = 3 => delta = 0)
    BY SizesPositive
  <2>2. PICK time \in Nat : time = header[c].timestamp + delta
    <3>1. header[c].timestamp \in Nat
      BY <1>0 DEF Message
    <3> QED
      BY <2>0, <3>1
  <2>3. [len |-> g.len, type |-> g.type, endpoint |-> g.endpoint, timestamp |-> time, buf |-> <<>>] \in Message
    <3>1. <<>> \in Seq(Nat)
      OBVIOUS
    <3> QED
      BY <2>1, <3>1 DEF Message
  <2>4. PICK h \in Message : h = [len |-> g.len, type |-> g.type, endpoint |-> g.endpoint, timestamp |-> time,
                                  buf |-> <<>>]
    BY <2>3
  <2>5. h.len = g.len /\ h.type = g.type /\ h.endpoint = g.endpoint /\ h.timestamp = time
    BY <2>4
  <2>6. value \in Nat /\ (h.type = "set_chunk" => value \in ChunkLen)
    <3>1. CASE g.type = "set_chunk"
      <4>1. value \in ChunkLen
        BY <3>1
      <4> QED
        BY <4>1, SizesPositive
    <3>2. CASE g.type # "set_chunk"
      <4>1. value = 0
        BY <3>2
      <4> QED
        BY <2>5, <3>2, <4>1
    <3> QED
      BY <3>1, <3>2
  <2>7. SendFirst(c, fmt, h, delta, value)
    BY <1>2, <2>2, <2>4
  <2>8. PICK ts \in Nat : ts = IF fmt = 0 THEN h.timestamp ELSE delta
    BY <2>0, <2>2, <2>5
  <2>9. PICK id \in Nat : id = Started + 1
    <3>1. Len(sent) \in Nat
      BY DEF TypeOK
    <3>2. IsFiniteSet({d \in Channel : sending[d].left > 0})
      BY ChannelsFinite, FS_Subset
    <3>3. Cardinality({d \in Channel : sending[d].left > 0}) \in Nat
      BY <3>2, FS_CardinalityType
    <3>4. PICK a \in Nat, b \in Nat : a = Len(sent) /\ b = Cardinality({d \in Channel : sending[d].left > 0})
      BY <3>1, <3>3
    <3>5. Started + 1 = a + b + 1
      BY <3>4 DEF Started
    <3> QED
      BY <3>5
  <2>10. PICK left \in 1..h.len : left = h.len
    BY <2>1, <2>5
  <2>11. Emit(c, fmt, id, h, ts, left, value) /\ UNCHANGED receiver /\ header' = [header EXCEPT ![c] = h]
    BY <2>7, <2>8, <2>9, <2>10 DEF SendFirst
  <2>12. PICK ch \in Chunk : Emits(c, ch, h, left) /\ Finishes(ch, h, left) /\ ch.fmt = fmt /\ ch.ts = ts
    <3>1. PICK f \in 0..3 : f = fmt
      OBVIOUS
    <3>2. Emit(c, f, id, h, ts, left, value)
      BY <2>11, <3>1
    <3>3. \E ch \in Chunk : Emits(c, ch, h, left) /\ Finishes(ch, h, left) /\ Carries(ch, f, id, ts)
      BY <2>6, <2>11, <3>2, EmitEffect
    <3> QED
      BY <3>1, <3>3 DEF Carries
  <2>13. left \in Nat
    BY <2>1, <2>5, <2>10
  <2>14. /\ sending[c].left = 0
         /\ fmt > 0 => h.endpoint = header[c].endpoint
         /\ fmt > 1 => h.len = header[c].len /\ h.type = header[c].type
    BY <2>7 DEF SendFirst
  <2>15. /\ h.timestamp = IF ch.fmt = 0 THEN ch.ts ELSE header[c].timestamp + ch.ts
         /\ ch.fmt = 3 => ch.ts = 0
    BY <2>0, <2>2, <2>5, <2>8, <2>12
  <2>16. Follows(c, ch, h, left)
    BY <2>10, <2>12, <2>14, <2>15 DEF Follows
  <2> QED
    BY <2>12, <2>13, <2>16
<1> QED
  BY <1>1, <1>2 DEF Send

-----------------------------------------------------------------------------
(* Sequences indexed from 0.                                                 *)

From0(S, n) == [0..n -> S]
IsExtended(g, f, n, x) == g[n + 1] = x /\ \A k \in 0..n : g[k] = f[k]
IsShifted(g, f, n) == \A k \in 0..(n - 1) : g[k] = f[k + 1]
IsReplaced(g, f, n, x) == g[0] = x /\ \A k \in 1..n : g[k] = f[k]

LEMMA Extended ==
  ASSUME NEW S, NEW n \in Nat, NEW f \in From0(S, n), NEW x \in S
  PROVE  \E g \in From0(S, n + 1) : IsExtended(g, f, n, x)
<1> DEFINE g == [k \in 0..(n + 1) |-> IF k <= n THEN f[k] ELSE x]
<1>1. \A k \in 0..(n + 1) : k <= n => k \in 0..n
  OBVIOUS
<1>2. g \in [0..(n + 1) -> S]
  BY <1>1 DEF From0
<1>3. IsExtended(g, f, n, x)
  BY DEF IsExtended
<1> QED
  BY <1>2, <1>3 DEF From0

LEMMA Shifted ==
  ASSUME NEW S, NEW n \in Nat \ {0}, NEW f \in From0(S, n)
  PROVE  \E g \in From0(S, n - 1) : IsShifted(g, f, n)
<1> DEFINE g == [k \in 0..(n - 1) |-> f[k + 1]]
<1>1. \A k \in 0..(n - 1) : k + 1 \in 0..n
  OBVIOUS
<1>2. g \in [0..(n - 1) -> S]
  BY <1>1 DEF From0
<1>3. IsShifted(g, f, n)
  BY DEF IsShifted
<1> QED
  BY <1>2, <1>3 DEF From0

LEMMA Replaced ==
  ASSUME NEW S, NEW n \in Nat, NEW f \in From0(S, n), NEW x \in S
  PROVE  \E g \in From0(S, n) : IsReplaced(g, f, n, x)
<1> DEFINE g == [k \in 0..n |-> IF k = 0 THEN x ELSE f[k]]
<1>1. g \in [0..n -> S]
  BY DEF From0
<1>2. IsReplaced(g, f, n, x)
  BY DEF IsReplaced
<1> QED
  BY <1>1, <1>2 DEF From0

LEMMA TailElement ==
  ASSUME NEW S, NEW s \in Seq(S), s # <<>>
  PROVE  /\ Len(s) \in Nat \ {0} /\ Tail(s) \in Seq(S) /\ Len(Tail(s)) = Len(s) - 1
         /\ \A k \in 1..(Len(s) - 1) : k + 1 \in 1..Len(s) /\ Tail(s)[k] = s[k + 1]
<1>1. Len(s) \in Nat \ {0} /\ Tail(s) \in Seq(S) /\ Len(Tail(s)) = Len(s) - 1
  OBVIOUS
<1>2. \A k \in 1..(Len(s) - 1) : Tail(s)[k] = s[k + 1]
  OBVIOUS
<1>3. PICK n \in Nat \ {0} : n = Len(s)
  BY <1>1
<1>4. \A k \in 1..(n - 1) : k + 1 \in 1..n
  OBVIOUS
<1> QED
  BY <1>1, <1>2, <1>3, <1>4

-----------------------------------------------------------------------------
(* Types.                                                                    *)

LEMMA SendTypes ==
  ASSUME TypeOK, SendingOK, Send
  PROVE  TypeOK' /\ SendingOK'
<1>1. PICK c \in Channel, ch \in Chunk, h \in Message, left \in Nat :
        Emits(c, ch, h, left) /\ Finishes(ch, h, left) /\ Follows(c, ch, h, left)
  BY SendEffect
<1>2. out_chunk \in AnyChunkLen /\ out_chunk \in Nat \ {0}
  BY LimitPositive DEF TypeOK
<1>3. ch.data \in Nat \ {0} /\ left \in Nat \ {0} /\ ch.data <= left /\ left <= h.len /\ h.len \in Nat
  <2>1. left \in 1..h.len /\ ch.data = (IF left <= out_chunk THEN left ELSE out_chunk)
    BY <1>1 DEF Emits
  <2>2. h.len \in Nat
    BY DEF Message
  <2> QED
    BY <1>2, <2>1, <2>2
<1>4. ch.type = h.type /\ ch.id \in Nat /\ ch.value \in Nat /\ (h.type = "set_chunk" => ch.value \in ChunkLen)
  BY <1>1 DEF Emits, Chunk
<1>5. wire' \in Seq(Chunk) /\ \A k \in 1..Len(wire') : wire'[k].type = "set_chunk" => wire'[k].value \in ChunkLen
  <2>1. wire \in Seq(Chunk) /\ \A k \in 1..Len(wire) : wire[k].type = "set_chunk" => wire[k].value \in ChunkLen
    BY DEF TypeOK
  <2>2. wire' = Append(wire, ch)
    BY <1>1 DEF Emits
  <2>3. /\ wire' \in Seq(Chunk)
        /\ \A j \in 1..Len(wire') : (j \in 1..Len(wire) /\ wire'[j] = wire[j]) \/ wire'[j] = ch
    BY <2>1, <2>2, AppendElement
  <2> QED
    BY <1>4, <2>1, <2>3
<1>6. bytes' \in Nat /\ received' \in 0..bytes'
  <2>1. SizeOf(ch) \in Nat
    BY HeaderLength
  <2>2. bytes \in Nat /\ received \in 0..bytes /\ bytes' = bytes + SizeOf(ch) /\ received' = received
    BY <1>1 DEF TypeOK, Emits, receiver
  <2> QED
    BY <2>1, <2>2
<1>7. /\ messages' \in [Channel -> Message] /\ chunk_len' \in AnyChunkLen /\ pc' \in {"recv", "loop", "lost"}
      /\ handled' \in Seq(Whole) /\ refused' \in BOOLEAN
  BY <1>1 DEF TypeOK, Emits, receiver
<1>8. /\ header \in [Channel -> Message] /\ header' = [header EXCEPT ![c] = h]
      /\ sending \in [Channel -> [id : Nat, left : Nat, value : Nat]]
      /\ sending' = [sending EXCEPT ![c] = [id |-> ch.id, left |-> left - ch.data, value |-> ch.value]]
  BY <1>1 DEF Emits, TypeOK
<1>9. header' \in [Channel -> Message]
  BY <1>8
<1>10. left - ch.data \in Nat
  BY <1>3
<1>11. sending' \in [Channel -> [id : Nat, left : Nat, value : Nat]]
  <2>1. [id |-> ch.id, left |-> left - ch.data, value |-> ch.value] \in [id : Nat, left : Nat, value : Nat]
    BY <1>4, <1>10
  <2> QED
    BY <1>8, <2>1
<1>12. sent' \in Seq(Whole) /\ out_chunk' \in AnyChunkLen
  <2>1. sent \in Seq(Whole)
    BY DEF TypeOK
  <2>2. CASE left = ch.data
    <3>1. /\ sent' = Append(sent, [type |-> h.type, endpoint |-> h.endpoint, timestamp |-> h.timestamp,
                                   data |-> [k \in 1..h.len |-> ch.id]])
          /\ out_chunk' = IF h.type = "set_chunk" THEN ch.value ELSE out_chunk
      BY <1>1, <2>2 DEF Finishes
    <3>2. [k \in 1..h.len |-> ch.id] \in Seq(Nat)
      BY <1>3, <1>4
    <3>3. [type |-> h.type, endpoint |-> h.endpoint, timestamp |-> h.timestamp,
           data |-> [k \in 1..h.len |-> ch.id]] \in Whole
      BY <3>2 DEF Whole, Message
    <3>4. sent' \in Seq(Whole)
      BY <2>1, <3>1, <3>3, AppendElement
    <3> QED
      BY <1>2, <1>4, <3>1, <3>4, LimitPositive
  <2>3. CASE left # ch.data
    BY <1>1, <1>2, <2>1, <2>3 DEF Finishes
  <2> QED
    BY <2>2, <2>3
<1>13. SendingOK'
  <2> SUFFICES ASSUME NEW d \in Channel, sending'[d].left > 0
               PROVE  /\ header'[d].type = "set_chunk" => sending'[d].value \in ChunkLen
                      /\ sending'[d].left <= header'[d].len
    BY DEF SendingOK
  <2>1. CASE d = c
    <3>1. header'[d] = h /\ sending'[d] = [id |-> ch.id, left |-> left - ch.data, value |-> ch.value]
      BY <1>8, <2>1
    <3>2. sending'[d].left = left - ch.data /\ sending'[d].value = ch.value
      BY <3>1
    <3>3. left - ch.data <= h.len
      BY <1>3
    <3> QED
      BY <1>4, <3>1, <3>2, <3>3
  <2>2. CASE d # c
    <3>1. header'[d] = header[d] /\ sending'[d] = sending[d]
      BY <1>8, <2>2
    <3> QED
      BY <3>1 DEF SendingOK
  <2> QED
    BY <2>1, <2>2
<1> QED
  BY <1>5, <1>6, <1>7, <1>9, <1>11, <1>12, <1>13 DEF TypeOK

-----------------------------------------------------------------------------
(* The receiver.                                                             *)

(* A header that leaves out the type has the type of the channel's message. *)
LEMMA FrontType ==
  ASSUME TypeOK, BytesOK, TypesOK, received > 0
  PROVE  AnnouncedBy(msg, chunk).type = chunk.type
<1>1. /\ Len(wire) \in Nat \ {0} /\ chunk = wire[1] /\ chunk \in Chunk /\ chunk.chan \in Channel
      /\ msg = messages[chunk.chan] /\ msg \in Message
  BY FrontChunk
<1>2. PICK ty \in [0..Len(wire) -> [Channel -> Types]] : Typed(ty)
  BY DEF TypesOK
<1>3. 1 \in 1..Len(wire) /\ 1 - 1 = 0
  BY <1>1
<1>4. \A c \in Channel : ty[0][c] = messages[c].type
  BY <1>2 DEF Typed
<1>5. wire[1].fmt > 1 => ty[1 - 1][wire[1].chan] = wire[1].type
  BY <1>2, <1>3 DEF Typed
<1>6. chunk.fmt > 1 => msg.type = chunk.type
  BY <1>1, <1>3, <1>4, <1>5
<1>7. chunk.fmt \in Nat
  BY <1>1 DEF Chunk
<1>8. AnnouncedBy(msg, chunk).type = IF chunk.fmt <= 1 THEN chunk.type ELSE msg.type
  BY <1>1, AnnouncedFields
<1> QED
  BY <1>6, <1>7, <1>8

LEMMA TakeEffect ==
  ASSUME TypeOK, BytesOK, Take
  PROVE  /\ received > 0 /\ wire' = Tail(wire) /\ UNCHANGED sender
         /\ bytes' = bytes - SizeOf(chunk) /\ received' = received - SizeOf(chunk) /\ received >= SizeOf(chunk)
         /\ Expected = chunk.data /\ Taken = TakenBy(msg, chunk, chunk.data) /\ Taken \in Message
<1>1. received > 0
  BY DEF Take, InLoop
<1>2. Expected = chunk.data
  BY DEF Take
<1>3. chunk \in Chunk /\ msg \in Message
  BY <1>1, FrontChunk
<1>4. chunk.data \in Nat
  BY <1>3 DEF Chunk
<1>5. Taken = TakenBy(msg, chunk, chunk.data)
  BY <1>1, <1>2, <1>4, Operators
<1>6. Taken \in Message
  BY <1>3, <1>4, <1>5, TakenFields
<1>7. HeaderLen + Expected = SizeOf(chunk)
  BY <1>2 DEF HeaderLen, SizeOf
<1> QED
  BY <1>1, <1>2, <1>5, <1>6, <1>7 DEF Take

(* The part of the types that Take leaves to its three cases. *)
LEMMA TakeTypes ==
  ASSUME TypeOK, BytesOK, Take
  PROVE  /\ wire' \in Seq(Chunk) /\ \A k \in 1..Len(wire') : wire'[k].type = "set_chunk" => wire'[k].value \in ChunkLen
         /\ bytes' \in Nat /\ received' \in 0..bytes'
         /\ header' \in [Channel -> Message] /\ out_chunk' \in AnyChunkLen /\ sent' \in Seq(Whole)
         /\ sending' \in [Channel -> [id : Nat, left : Nat, value : Nat]]
<1>1. /\ received > 0 /\ wire' = Tail(wire) /\ UNCHANGED sender
      /\ bytes' = bytes - SizeOf(chunk) /\ received' = received - SizeOf(chunk) /\ received >= SizeOf(chunk)
  BY TakeEffect
<1>2. wire # <<>> /\ chunk \in Chunk
  BY <1>1, FrontChunk
<1>3. SizeOf(chunk) \in Nat
  BY <1>2, HeaderLength
<1>4. bytes' \in Nat /\ received' \in 0..bytes'
  <2>1. bytes \in Nat /\ received \in 0..bytes
    BY DEF TypeOK
  <2> QED
    BY <1>1, <1>3, <2>1
<1>5. wire' \in Seq(Chunk) /\ \A k \in 1..Len(wire') : wire'[k].type = "set_chunk" => wire'[k].value \in ChunkLen
  <2>1. wire \in Seq(Chunk) /\ \A k \in 1..Len(wire) : wire[k].type = "set_chunk" => wire[k].value \in ChunkLen
    BY DEF TypeOK
  <2>2. /\ wire' \in Seq(Chunk) /\ Len(wire') = Len(wire) - 1
        /\ \A k \in 1..(Len(wire) - 1) : k + 1 \in 1..Len(wire) /\ wire'[k] = wire[k + 1]
    BY <1>1, <1>2, <2>1, TailElement
  <2> QED
    BY <2>1, <2>2
<1> QED
  BY <1>1, <1>4, <1>5 DEF sender, TypeOK

LEMMA LoopTypes ==
  ASSUME TypeOK, BytesOK, TypesOK, Loop
  PROVE  TypeOK' /\ (received > 0 => chunk.chan \in Channel)
<1>0. received > 0 => chunk.chan \in Channel
  BY FrontChunk
<1>1. CASE NeedHeader
  BY <1>0, <1>1 DEF NeedHeader, TypeOK, sender
<1>2. CASE RefuseHeader
  <2>1. received > 0 /\ messages' = [messages EXCEPT ![chunk.chan] = [@ EXCEPT !.len = Announced.len]]
    BY <1>2 DEF RefuseHeader, InLoop
  <2>2. messages \in [Channel -> Message]
    BY DEF TypeOK
  <2>3. /\ chunk \in Chunk /\ msg \in Message /\ msg = messages[chunk.chan] /\ Announced = AnnouncedBy(msg, chunk)
    BY <2>1, FrontChunk, Operators
  <2>4. Announced.len \in Nat
    BY <2>3, AnnouncedFields DEF Message
  <2>5. [messages[chunk.chan] EXCEPT !.len = Announced.len] \in Message
    BY <2>3, <2>4 DEF Message
  <2>6. messages' \in [Channel -> Message]
    BY <2>1, <2>2, <2>5
  <2> QED
    BY <1>0, <1>2, <2>6 DEF RefuseHeader, TypeOK, sender
<1>3. CASE NeedPayload
  <2>1. received > 0 /\ messages' = [messages EXCEPT ![chunk.chan] = Announced]
    BY <1>3 DEF NeedPayload, InLoop
  <2>2. Announced \in Message
    BY <2>1, FrontChunk, Operators, AnnouncedFields
  <2>3. messages' \in [Channel -> Message]
    BY <2>1, <2>2 DEF TypeOK
  <2> QED
    BY <1>0, <1>3, <2>3 DEF NeedPayload, TypeOK, sender
<1>4. CASE TakePart
  <2>1. Take /\ messages' = [messages EXCEPT ![chunk.chan] = Taken] /\ UNCHANGED <<chunk_len, handled, refused, pc>>
    BY <1>4 DEF TakePart
  <2>2. messages' \in [Channel -> Message]
    BY <2>1, TakeEffect DEF TypeOK
  <2>3. /\ chunk_len' \in AnyChunkLen /\ pc' \in {"recv", "loop", "lost"} /\ handled' \in Seq(Whole)
        /\ refused' \in BOOLEAN
    BY <2>1 DEF TypeOK
  <2>4. /\ wire' \in Seq(Chunk) /\ \A k \in 1..Len(wire') : wire'[k].type = "set_chunk" => wire'[k].value \in ChunkLen
        /\ bytes' \in Nat /\ received' \in 0..bytes'
        /\ header' \in [Channel -> Message] /\ out_chunk' \in AnyChunkLen /\ sent' \in Seq(Whole)
        /\ sending' \in [Channel -> [id : Nat, left : Nat, value : Nat]]
    BY <2>1, TakeTypes
  <2> QED
    BY <1>0, <2>2, <2>3, <2>4 DEF TypeOK
<1>5. CASE TakeLast
  <2>1. /\ Take /\ messages' = [messages EXCEPT ![chunk.chan] = [Taken EXCEPT !.buf = <<>>]]
        /\ handled' = Append(handled, HandledAs(Taken)) /\ chunk_len' = NewChunkLen /\ UNCHANGED <<refused, pc>>
    BY <1>5 DEF TakeLast, HandledAs
  <2>2. received > 0 /\ Taken = TakenBy(msg, chunk, chunk.data) /\ Taken \in Message
    BY <2>1, TakeEffect
  <2>3. [Taken EXCEPT !.buf = <<>>] \in Message /\ HandledAs(Taken) \in Whole
    BY <2>2, ClearedFields
  <2>4. messages' \in [Channel -> Message]
    BY <2>1, <2>3 DEF TypeOK
  <2>5. handled' \in Seq(Whole)
    <3>1. handled \in Seq(Whole)
      BY DEF TypeOK
    <3> QED
      BY <2>1, <2>3, <3>1, AppendElement
  <2>6. chunk_len' \in AnyChunkLen
    <3>1. chunk = wire[1] /\ chunk \in Chunk /\ msg \in Message /\ Len(wire) \in Nat \ {0}
      BY <2>2, FrontChunk
    <3>2. chunk.data \in Nat
      BY <3>1 DEF Chunk
    <3>3. Taken.type = chunk.type
      BY <2>2, <3>1, <3>2, FrontType, TakenFields
    <3>4. 1 \in 1..Len(wire)
      BY <3>1
    <3>5. chunk.type = "set_chunk" => chunk.value \in ChunkLen
      BY <3>1, <3>4 DEF TypeOK
    <3> QED
      BY <2>1, <3>3, <3>5, LimitPositive DEF NewChunkLen, TypeOK
  <2>7. pc' \in {"recv", "loop", "lost"} /\ refused' \in BOOLEAN
    BY <2>1 DEF TypeOK
  <2>8. /\ wire' \in Seq(Chunk) /\ \A k \in 1..Len(wire') : wire'[k].type = "set_chunk" => wire'[k].value \in ChunkLen
        /\ bytes' \in Nat /\ received' \in 0..bytes'
        /\ header' \in [Channel -> Message] /\ out_chunk' \in AnyChunkLen /\ sent' \in Seq(Whole)
        /\ sending' \in [Channel -> [id : Nat, left : Nat, value : Nat]]
    BY <2>1, TakeTypes
  <2> QED
    BY <1>0, <2>4, <2>5, <2>6, <2>7, <2>8 DEF TypeOK
<1>6. CASE TakeRefused
  <2>1. /\ Take /\ messages' = [messages EXCEPT ![chunk.chan] = Taken] /\ refused' = TRUE /\ pc' = "recv"
        /\ UNCHANGED <<chunk_len, handled>>
    BY <1>6 DEF TakeRefused
  <2>2. messages' \in [Channel -> Message]
    BY <2>1, TakeEffect DEF TypeOK
  <2>3. /\ chunk_len' \in AnyChunkLen /\ pc' \in {"recv", "loop", "lost"} /\ handled' \in Seq(Whole)
        /\ refused' \in BOOLEAN
    BY <2>1 DEF TypeOK
  <2>4. /\ wire' \in Seq(Chunk) /\ \A k \in 1..Len(wire') : wire'[k].type = "set_chunk" => wire'[k].value \in ChunkLen
        /\ bytes' \in Nat /\ received' \in 0..bytes'
        /\ header' \in [Channel -> Message] /\ out_chunk' \in AnyChunkLen /\ sent' \in Seq(Whole)
        /\ sending' \in [Channel -> [id : Nat, left : Nat, value : Nat]]
    BY <2>1, TakeTypes
  <2> QED
    BY <1>0, <2>2, <2>3, <2>4 DEF TypeOK
<1>7. CASE LoseTrack
  BY <1>0, <1>7 DEF LoseTrack, TypeOK, sender
<1> QED
  BY <1>1, <1>2, <1>3, <1>4, <1>5, <1>6, <1>7 DEF Loop

LEMMA RecvTypes ==
  ASSUME TypeOK, Recv
  PROVE  TypeOK'
<1>1. bytes \in Nat /\ received \in 0..bytes /\ received' \in (received + 1)..bytes /\ bytes' = bytes
  BY DEF TypeOK, Recv
<1>2. received' \in 0..bytes'
  BY <1>1
<1> QED
  BY <1>1, <1>2 DEF TypeOK, Recv, sender

-----------------------------------------------------------------------------
(* The bytes on the wire.                                                    *)

LEMMA SendBytes ==
  ASSUME TypeOK, SendingOK, BytesOK, Send
  PROVE  BytesOK'
<1>1. PICK ch \in Chunk : wire' = Append(wire, ch) /\ bytes' = bytes + SizeOf(ch)
  BY SendEffect DEF Emits
<1>2. PICK z \in Nat : z = SizeOf(ch)
  BY HeaderLength
<1>3. wire \in Seq(Chunk) /\ bytes \in Nat
  BY DEF TypeOK
<1>4. PICK n \in Nat : n = Len(wire)
  BY <1>3
<1>5. /\ Len(wire') = n + 1 /\ wire'[n + 1] = ch
      /\ \A j \in 1..n : wire'[j] = wire[j]
  BY <1>1, <1>3, <1>4, AppendElement
<1>6. PICK pos \in [0..n -> Int] :
        /\ pos[0] = 0 /\ pos[n] = bytes /\ \A k \in 1..n : pos[k] = pos[k - 1] + SizeOf(wire[k])
  BY <1>4 DEF BytesOK, Counts
<1>7. bytes + z \in Int
  BY <1>3
<1>8. PICK p \in [0..(n + 1) -> Int] : p[n + 1] = bytes + z /\ \A k \in 0..n : p[k] = pos[k]
  <2>1. PICK y \in Int : y = bytes + z
    BY <1>7
  <2>2. pos \in From0(Int, n)
    BY DEF From0
  <2>3. \E p \in From0(Int, n + 1) : IsExtended(p, pos, n, y)
    BY <2>2, Extended
  <2> QED
    BY <2>1, <2>3 DEF From0, IsExtended
<1>9. p[0] = 0
  BY <1>6, <1>8
<1>10. ASSUME NEW k \in 1..(n + 1) PROVE p[k] = p[k - 1] + SizeOf(wire'[k])
  <2>1. CASE k = n + 1
    <3>1. k - 1 = n /\ n \in 0..n
      BY <2>1
    <3>2. p[k - 1] = bytes
      BY <1>6, <1>8, <3>1
    <3> QED
      BY <1>2, <1>5, <1>8, <2>1, <3>2
  <2>2. CASE k # n + 1
    <3>1. k \in 1..n /\ k \in 0..n /\ k - 1 \in 0..n
      BY <2>2
    <3> QED
      BY <1>5, <1>6, <1>8, <3>1
  <2> QED
    BY <2>1, <2>2
<1>11. p[n + 1] = bytes'
  BY <1>1, <1>2, <1>8
<1>12. Counts(p)'
  BY <1>5, <1>9, <1>10, <1>11 DEF Counts
<1> QED
  BY <1>5, <1>12 DEF BytesOK

LEMMA TakeBytes ==
  ASSUME TypeOK, BytesOK, Take
  PROVE  BytesOK'
<1>1. received > 0 /\ wire' = Tail(wire) /\ bytes' = bytes - SizeOf(chunk)
  BY TakeEffect
<1>2. chunk = wire[1] /\ wire # <<>> /\ chunk \in Chunk
  BY <1>1, FrontChunk
<1>3. wire \in Seq(Chunk) /\ bytes \in Nat
  BY DEF TypeOK
<1>4. PICK n \in Nat \ {0} : n = Len(wire)
  BY <1>2, <1>3, TailElement
<1>5. Len(wire') = n - 1 /\ \A k \in 1..(n - 1) : wire'[k] = wire[k + 1]
  BY <1>1, <1>2, <1>3, <1>4, TailElement
<1>6. PICK pos \in [0..n -> Int] :
        /\ pos[0] = 0 /\ pos[n] = bytes /\ \A k \in 1..n : pos[k] = pos[k - 1] + SizeOf(wire[k])
  BY <1>4 DEF BytesOK, Counts
<1>7. PICK z \in Nat : z = SizeOf(wire[1])
  BY <1>2, HeaderLength
<1>8. pos[1] = z
  <2>1. 1 \in 1..n
    OBVIOUS
  <2>2. pos[1] = pos[1 - 1] + SizeOf(wire[1])
    BY <1>6, <2>1
  <2> QED
    BY <1>6, <1>7, <2>2
<1> DEFINE p == [k \in 0..(n - 1) |-> pos[k + 1] - z]
<1>9. p \in [0..(n - 1) -> Int] /\ \A k \in 0..(n - 1) : p[k] = pos[k + 1] - z
  OBVIOUS
<1> HIDE DEF p
<1>10. p[0] = 0 /\ p[n - 1] = bytes - z
  <2>1. 0 \in 0..(n - 1) /\ n - 1 \in 0..(n - 1) /\ 0 + 1 = 1 /\ (n - 1) + 1 = n
    OBVIOUS
  <2>2. p[0] = pos[0 + 1] - z /\ p[n - 1] = pos[(n - 1) + 1] - z
    BY <1>9, <2>1
  <2> QED
    BY <1>6, <1>8, <2>1, <2>2
<1>11. ASSUME NEW k \in 1..(n - 1) PROVE p[k] = p[k - 1] + SizeOf(wire'[k])
  <2>1. k \in 0..(n - 1) /\ k - 1 \in 0..(n - 1) /\ k + 1 \in 1..n /\ k \in 0..n /\ k + 1 \in 0..n
    OBVIOUS
  <2>2. p[k] = pos[k + 1] - z
    BY <1>9, <2>1
  <2>3. p[k - 1] = pos[(k - 1) + 1] - z
    BY <1>9, <2>1
  <2>4. pos[k + 1] = pos[(k + 1) - 1] + SizeOf(wire[k + 1])
    BY <1>6, <2>1
  <2>5. (k - 1) + 1 = k /\ (k + 1) - 1 = k
    BY <2>1
  <2>6. wire[k + 1] \in Chunk
    BY <1>3, <1>4, <2>1
  <2>7. SizeOf(wire[k + 1]) \in Nat
    BY <2>6, HeaderLength
  <2>8. PICK a \in Int, b \in Int, y \in Nat : a = pos[k] /\ b = pos[k + 1] /\ y = SizeOf(wire[k + 1])
    BY <2>1, <2>7
  <2>9. b = a + y /\ p[k] = b - z /\ p[k - 1] = a - z
    BY <2>2, <2>3, <2>4, <2>5, <2>8
  <2> QED
    BY <1>5, <2>8, <2>9
<1>12. p[n - 1] = bytes'
  BY <1>1, <1>2, <1>7, <1>10
<1>13. Counts(p)'
  BY <1>5, <1>10, <1>11, <1>12 DEF Counts
<1> QED
  BY <1>5, <1>9, <1>13 DEF BytesOK

-----------------------------------------------------------------------------
(* The types along the wire.                                                 *)

LEMMA SendAlong ==
  ASSUME TypeOK, SendingOK, TypesOK, Send
  PROVE  TypesOK'
<1>1. PICK c \in Channel, ch \in Chunk, h \in Message, left \in Nat :
        Emits(c, ch, h, left) /\ Finishes(ch, h, left) /\ Follows(c, ch, h, left)
  BY SendEffect
<1>2. /\ wire' = Append(wire, ch) /\ ch.chan = c /\ ch.type = h.type /\ messages' = messages
      /\ header' = [header EXCEPT ![c] = h] /\ ch.type \in Types /\ ch.fmt \in Nat
  BY <1>1 DEF Emits, receiver, Chunk
<1>3. wire \in Seq(Chunk) /\ header \in [Channel -> Message]
  BY DEF TypeOK
<1>4. PICK n \in Nat : n = Len(wire)
  BY <1>3
<1>5. Len(wire') = n + 1 /\ wire'[n + 1] = ch /\ \A j \in 1..n : wire'[j] = wire[j]
  BY <1>2, <1>3, <1>4, AppendElement
<1>6a. PICK ty \in [0..Len(wire) -> [Channel -> Types]] : Typed(ty)
  BY DEF TypesOK
<1>6. /\ ty \in [0..n -> [Channel -> Types]]
      /\ \A d \in Channel : ty[0][d] = messages[d].type /\ ty[n][d] = header[d].type
      /\ \A k \in 1..n : /\ ty[k] = [ty[k - 1] EXCEPT ![wire[k].chan] = wire[k].type]
                         /\ wire[k].fmt > 1 => ty[k - 1][wire[k].chan] = wire[k].type
  BY <1>4, <1>6a DEF Typed
<1>7. ty[n] \in [Channel -> Types]
  BY <1>6
<1>8. PICK x \in [Channel -> Types] : x = [ty[n] EXCEPT ![c] = ch.type]
  BY <1>2, <1>7
<1>9. PICK t \in [0..(n + 1) -> [Channel -> Types]] : t[n + 1] = x /\ \A k \in 0..n : t[k] = ty[k]
  <2>1. PICK F : F = [Channel -> Types]
    OBVIOUS
  <2>2. ty \in From0(F, n) /\ x \in F
    BY <1>6, <2>1 DEF From0
  <2>3. \E t \in From0(F, n + 1) : IsExtended(t, ty, n, x)
    BY <2>2, Extended
  <2> QED
    BY <2>1, <2>3 DEF From0, IsExtended
<1>10. ch.fmt > 1 => ty[n][c] = ch.type
  <2>1. ch.fmt > 1 => header[c].type = h.type
    BY <1>1, <1>2 DEF Follows
  <2> QED
    BY <1>2, <1>6, <2>1
<1>11. ASSUME NEW k \in 1..(n + 1)
       PROVE  /\ t[k] = [t[k - 1] EXCEPT ![wire'[k].chan] = wire'[k].type]
              /\ wire'[k].fmt > 1 => t[k - 1][wire'[k].chan] = wire'[k].type
  <2>1. CASE k = n + 1
    <3>1. k - 1 = n /\ n \in 0..n
      BY <2>1
    <3>2. t[k - 1] = ty[n] /\ t[k] = x /\ wire'[k] = ch
      BY <1>5, <1>9, <2>1, <3>1
    <3> QED
      BY <1>2, <1>8, <1>10, <3>2
  <2>2. CASE k # n + 1
    <3>1. k \in 1..n /\ k \in 0..n /\ k - 1 \in 0..n
      BY <2>2
    <3>2. t[k] = ty[k] /\ t[k - 1] = ty[k - 1] /\ wire'[k] = wire[k]
      BY <1>5, <1>9, <3>1
    <3> QED
      BY <1>6, <3>1, <3>2
  <2> QED
    BY <2>1, <2>2
<1>12. ASSUME NEW d \in Channel PROVE t[0][d] = messages'[d].type /\ t[n + 1][d] = header'[d].type
  <2>1. t[0] = ty[0]
    BY <1>9
  <2>2. t[n + 1][d] = IF d = c THEN ch.type ELSE ty[n][d]
    BY <1>7, <1>8, <1>9
  <2>3. header'[d] = IF d = c THEN h ELSE header[d]
    BY <1>2, <1>3
  <2> QED
    BY <1>2, <1>6, <2>1, <2>2, <2>3
<1>13. Typed(t)'
  BY <1>5, <1>11, <1>12 DEF Typed
<1> QED
  BY <1>5, <1>13 DEF TypesOK

LEMMA TakeAlong ==
  ASSUME TypeOK, TypesOK, wire # <<>>, wire' = Tail(wire), header' = header,
         \A d \in Channel : messages'[d].type = IF d = wire[1].chan THEN wire[1].type ELSE messages[d].type
  PROVE  TypesOK'
<1>3. wire \in Seq(Chunk)
  BY DEF TypeOK
<1>4. PICK n \in Nat \ {0} : n = Len(wire)
  BY <1>3, TailElement
<1>5. Len(wire') = n - 1 /\ \A k \in 1..(n - 1) : wire'[k] = wire[k + 1]
  BY <1>3, <1>4, TailElement
<1>6a. PICK ty \in [0..Len(wire) -> [Channel -> Types]] : Typed(ty)
  BY DEF TypesOK
<1>6. /\ ty \in [0..n -> [Channel -> Types]]
      /\ \A d \in Channel : ty[0][d] = messages[d].type /\ ty[n][d] = header[d].type
      /\ \A k \in 1..n : /\ ty[k] = [ty[k - 1] EXCEPT ![wire[k].chan] = wire[k].type]
                         /\ wire[k].fmt > 1 => ty[k - 1][wire[k].chan] = wire[k].type
  BY <1>4, <1>6a DEF Typed
<1>7. PICK t \in [0..(n - 1) -> [Channel -> Types]] : \A k \in 0..(n - 1) : t[k] = ty[k + 1]
  <2>1. PICK F : F = [Channel -> Types]
    OBVIOUS
  <2>2. ty \in From0(F, n)
    BY <1>6, <2>1 DEF From0
  <2>3. \E t \in From0(F, n - 1) : IsShifted(t, ty, n)
    BY <2>2, Shifted
  <2> QED
    BY <2>1, <2>3 DEF From0, IsShifted
<1>8. ASSUME NEW k \in 1..(n - 1)
      PROVE  /\ t[k] = [t[k - 1] EXCEPT ![wire'[k].chan] = wire'[k].type]
             /\ wire'[k].fmt > 1 => t[k - 1][wire'[k].chan] = wire'[k].type
  <2>1. k \in 0..(n - 1) /\ k - 1 \in 0..(n - 1) /\ k + 1 \in 1..n /\ (k - 1) + 1 = k /\ (k + 1) - 1 = k
    OBVIOUS
  <2>2. t[k] = ty[k + 1] /\ t[k - 1] = ty[(k + 1) - 1]
    BY <1>7, <2>1
  <2>3. wire'[k] = wire[k + 1]
    BY <1>5
  <2>4. /\ ty[k + 1] = [ty[(k + 1) - 1] EXCEPT ![wire[k + 1].chan] = wire[k + 1].type]
        /\ wire[k + 1].fmt > 1 => ty[(k + 1) - 1][wire[k + 1].chan] = wire[k + 1].type
    BY <1>6, <2>1
  <2> QED
    BY <2>2, <2>3, <2>4
<1>9. t[0] = ty[1] /\ t[n - 1] = ty[n]
  <2>1. 0 \in 0..(n - 1) /\ n - 1 \in 0..(n - 1) /\ 0 + 1 = 1 /\ (n - 1) + 1 = n
    OBVIOUS
  <2> QED
    BY <1>7, <2>1
<1>10. ASSUME NEW d \in Channel PROVE t[0][d] = messages'[d].type /\ t[n - 1][d] = header'[d].type
  <2>1. 1 \in 1..n /\ 1 - 1 = 0 /\ 0 \in 0..n
    OBVIOUS
  <2>2. ty[1] = [ty[0] EXCEPT ![wire[1].chan] = wire[1].type]
    BY <1>6, <2>1
  <2>3. ty[0] \in [Channel -> Types]
    BY <2>1
  <2>4. ty[1][d] = IF d = wire[1].chan THEN wire[1].type ELSE ty[0][d]
    BY <2>2, <2>3
  <2> QED
    BY <1>6, <1>9, <2>4
<1>11. Typed(t)'
  BY <1>5, <1>8, <1>10 DEF Typed
<1> QED
  BY <1>5, <1>11 DEF TypesOK

LEMMA AgainAlong ==
  ASSUME TypeOK, TypesOK, wire # <<>>, wire' = wire, header' = header,
         \A d \in Channel : messages'[d].type = IF d = wire[1].chan THEN wire[1].type ELSE messages[d].type
  PROVE  TypesOK'
<1>1. PICK n \in Nat \ {0} : n = Len(wire)
  <2>1. wire \in Seq(Chunk)
    BY DEF TypeOK
  <2> QED
    BY <2>1, TailElement
<1>2a. PICK ty \in [0..Len(wire) -> [Channel -> Types]] : Typed(ty)
  BY DEF TypesOK
<1>2. /\ ty \in [0..n -> [Channel -> Types]]
      /\ \A d \in Channel : ty[0][d] = messages[d].type /\ ty[n][d] = header[d].type
      /\ \A k \in 1..n : /\ ty[k] = [ty[k - 1] EXCEPT ![wire[k].chan] = wire[k].type]
                         /\ wire[k].fmt > 1 => ty[k - 1][wire[k].chan] = wire[k].type
  BY <1>1, <1>2a DEF Typed
<1>3. 1 \in 1..n /\ 1 - 1 = 0 /\ 0 \in 0..n /\ 1 \in 0..n /\ n \in 1..n
  OBVIOUS
<1>4. ty[0] \in [Channel -> Types] /\ ty[1] \in [Channel -> Types]
  BY <1>3
<1>5. ty[1] = [ty[0] EXCEPT ![wire[1].chan] = wire[1].type]
  BY <1>2, <1>3
<1>6. PICK t \in [0..n -> [Channel -> Types]] : t[0] = ty[1] /\ \A k \in 1..n : t[k] = ty[k]
  <2>1. PICK F : F = [Channel -> Types]
    OBVIOUS
  <2>2. ty \in From0(F, n) /\ ty[1] \in F
    BY <1>2, <1>4, <2>1 DEF From0
  <2>3. \E t \in From0(F, n) : IsReplaced(t, ty, n, ty[1])
    BY <2>2, Replaced
  <2> QED
    BY <2>1, <2>3 DEF From0, IsReplaced
<1>7. ASSUME NEW d \in Channel PROVE t[0][d] = messages'[d].type /\ t[n][d] = header'[d].type
  <2>1. ty[1][d] = IF d = wire[1].chan THEN wire[1].type ELSE ty[0][d]
    BY <1>4, <1>5
  <2>2. t[n] = ty[n]
    BY <1>3, <1>6
  <2> QED
    BY <1>2, <1>6, <2>1, <2>2
<1>8. wire[1].chan \in Channel
  <2>1. wire \in Seq(Chunk)
    BY DEF TypeOK
  <2>2. wire[1] \in Chunk
    BY <1>1, <1>3, <2>1
  <2> QED
    BY <2>2 DEF Chunk
<1>9. ASSUME NEW k \in 1..n
      PROVE  /\ t[k] = [t[k - 1] EXCEPT ![wire[k].chan] = wire[k].type]
             /\ wire[k].fmt > 1 => t[k - 1][wire[k].chan] = wire[k].type
  <2>1. CASE k = 1
    <3>1. t[k] = ty[1] /\ t[k - 1] = ty[1]
      BY <1>3, <1>6, <2>1
    <3>2. ty[1][wire[1].chan] = wire[1].type
      BY <1>4, <1>5, <1>8
    <3>3. ty[1] = [ty[1] EXCEPT ![wire[1].chan] = wire[1].type]
      BY <1>4, <1>8, <3>2
    <3> QED
      BY <2>1, <3>1, <3>2, <3>3
  <2>2. CASE k # 1
    <3>1. k - 1 \in 1..n
      BY <2>2
    <3>2. t[k] = ty[k] /\ t[k - 1] = ty[k - 1]
      BY <1>6, <3>1
    <3> QED
      BY <1>2, <3>2
  <2> QED
    BY <2>1, <2>2
<1>10. Typed(t)'
  BY <1>1, <1>7, <1>9 DEF Typed
<1> QED
  BY <1>1, <1>10 DEF TypesOK

-----------------------------------------------------------------------------
(* The sender's chunk, for a receiver that has taken everything before it.     *)

Continues(m, ch, h, left) ==
  /\ AnnouncedBy(m, ch).len = h.len /\ AnnouncedBy(m, ch).type = h.type /\ AnnouncedBy(m, ch).endpoint = h.endpoint
  /\ TimeBy(m, ch) = h.timestamp
  /\ Len(m.buf) = h.len - left /\ \A k \in 1..Len(m.buf) : m.buf[k] = ch.id

LEMMA SenderContinues ==
  ASSUME TypeOK, NEW s \in State, AtSender(s), NEW c \in Channel, NEW ch \in Chunk, NEW h \in Message, NEW left \in Nat,
         Emits(c, ch, h, left), Follows(c, ch, h, left)
  PROVE  Continues(s.msgs[c], ch, h, left)
<1>1. PICK m \in Message : m = s.msgs[c]
  BY DEF State
<1>2. PICK g \in Message : g = header[c]
  BY DEF TypeOK
<1>3. ch.len = h.len /\ ch.type = h.type /\ ch.endpoint = h.endpoint /\ left \in 1..h.len
  BY DEF Emits
<1>4. m.len = g.len /\ m.type = g.type /\ m.endpoint = g.endpoint /\ m.timestamp = g.timestamp
  BY <1>1, <1>2 DEF AtSender
<1>5. h.len \in Nat /\ left > 0 /\ ch.fmt \in 0..3
  BY <1>3 DEF Message, Chunk
<1>6. /\ AnnouncedBy(m, ch).len = (IF ch.fmt <= 1 THEN ch.len ELSE m.len)
      /\ AnnouncedBy(m, ch).type = (IF ch.fmt <= 1 THEN ch.type ELSE m.type)
      /\ AnnouncedBy(m, ch).endpoint = IF ch.fmt = 0 THEN ch.endpoint ELSE m.endpoint
  BY AnnouncedFields
<1>7. CASE sending[c].left = 0 /\ left = h.len
  <2>1. m.buf = <<>>
    BY <1>1, <1>7 DEF AtSender
  <2>2. Len(m.buf) = 0
    BY <2>1
  <2>3. sending[c].left # left
    BY <1>5, <1>7
  <2>4. /\ ch.fmt > 0 => h.endpoint = g.endpoint
        /\ ch.fmt > 1 => h.len = g.len /\ h.type = g.type
        /\ ch.fmt = 3 => ch.ts = 0
        /\ h.timestamp = IF ch.fmt = 0 THEN ch.ts ELSE g.timestamp + ch.ts
    BY <1>2, <2>3 DEF Follows
  <2>5. /\ AnnouncedBy(m, ch).len = h.len /\ AnnouncedBy(m, ch).type = h.type
        /\ AnnouncedBy(m, ch).endpoint = h.endpoint
    BY <1>3, <1>4, <1>5, <1>6, <2>4
  <2>6. TimeBy(m, ch) = h.timestamp
    <3>1. g.timestamp \in Nat
      BY DEF Message
    <3> QED
      BY <1>4, <1>5, <2>4, <3>1 DEF TimeBy
  <2>7. Len(m.buf) = h.len - left /\ \A k \in 1..Len(m.buf) : m.buf[k] = ch.id
    BY <1>5, <1>7, <2>2
  <2> QED
    BY <1>1, <2>5, <2>6, <2>7 DEF Continues
<1>8. CASE sending[c].left = left /\ ch.id = sending[c].id /\ h = header[c] /\ ch.fmt = 3
  <2>1. /\ AnnouncedBy(m, ch).len = h.len /\ AnnouncedBy(m, ch).type = h.type
        /\ AnnouncedBy(m, ch).endpoint = h.endpoint
    BY <1>2, <1>4, <1>6, <1>8
  <2>2. TimeBy(m, ch) = h.timestamp
    BY <1>2, <1>4, <1>8 DEF TimeBy
  <2>3. sending[c].left > 0
    BY <1>5, <1>8
  <2>4. Len(m.buf) = header[c].len - sending[c].left /\ \A k \in 1..Len(m.buf) : m.buf[k] = sending[c].id
    BY <1>1, <2>3 DEF AtSender
  <2> QED
    BY <1>1, <1>8, <2>1, <2>2, <2>4 DEF Continues
<1> QED
  BY <1>7, <1>8 DEF Follows

(* A chunk that continues what the receiver has fits, and is taken as it was sent. *)
LEMMA ContinuesFits ==
  ASSUME NEW m \in Message, NEW ch \in Chunk, NEW h \in Message, NEW left \in 1..h.len, NEW limit \in Nat \ {0},
         Continues(m, ch, h, left), ch.len = h.len, ch.data = (IF left <= limit THEN left ELSE limit)
  PROVE  /\ ch.fmt <= 1 => ch.len >= Len(m.buf)
         /\ AnnouncedBy(m, ch).len > 0 /\ ExpectedBy(m, ch, limit) = ch.data
         /\ TakenBy(m, ch, ch.data) \in Message
         /\ TakenBy(m, ch, ch.data).len = h.len /\ TakenBy(m, ch, ch.data).type = h.type
         /\ TakenBy(m, ch, ch.data).endpoint = h.endpoint /\ TakenBy(m, ch, ch.data).timestamp = h.timestamp
         /\ Len(TakenBy(m, ch, ch.data).buf) = h.len - (left - ch.data)
         /\ \A k \in 1..Len(TakenBy(m, ch, ch.data).buf) : TakenBy(m, ch, ch.data).buf[k] = ch.id
<1>1. PICK l \in Nat \ {0}, y \in Nat, d \in Nat \ {0} : l = h.len /\ y = left /\ d = ch.data /\ 1 <= y /\ y <= l /\ d <= y
  <2>1. h.len \in Nat /\ left \in Nat /\ 1 <= left /\ left <= h.len
    BY DEF Message
  <2> QED
    BY <2>1
<1>2. Len(m.buf) = l - y /\ l - y \in Nat
  BY <1>1 DEF Continues
<1>3. AnnouncedBy(m, ch).len = l /\ AnnouncedBy(m, ch).type = h.type /\ AnnouncedBy(m, ch).endpoint = h.endpoint
  BY <1>1 DEF Continues
<1>4. ExpectedBy(m, ch, limit) = ch.data
  <2>1. AnnouncedBy(m, ch).len - Len(m.buf) = y
    BY <1>1, <1>2, <1>3
  <2>2. ExpectedBy(m, ch, limit) = Min({y, limit})
    BY <2>1 DEF ExpectedBy
  <2>3. Min({y, limit}) = IF y <= limit THEN y ELSE limit
    BY MinPair
  <2> QED
    BY <1>1, <2>2, <2>3
<1>5. PICK t \in Message : t = TakenBy(m, ch, d)
  BY TakenFields
<1>6. t.len = h.len /\ t.type = h.type /\ t.endpoint = h.endpoint
  BY <1>1, <1>3, <1>5, TakenFields
<1>7. t.timestamp = h.timestamp
  BY <1>5, TakenFields DEF Continues
<1>8. Len(t.buf) = Len(m.buf) + d
  BY <1>5, TakenFields
<1>9. ASSUME NEW k \in 1..Len(t.buf) PROVE t.buf[k] = ch.id
  <2>1. PICK i \in Int : i = k /\ 1 <= i /\ i <= (l - y) + d
    BY <1>2, <1>8
  <2>2. CASE i <= l - y
    <3>1. k \in 1..Len(m.buf)
      BY <1>2, <2>1, <2>2
    <3>2. t.buf[k] = m.buf[k]
      BY <1>5, <3>1, TakenFields
    <3> QED
      BY <3>1, <3>2 DEF Continues
  <2>3. CASE i > l - y
    <3>1. k \in 1..(Len(m.buf) + d) /\ k > Len(m.buf)
      BY <1>2, <2>1, <2>3
    <3> QED
      BY <1>5, <3>1, TakenFields
  <2> QED
    BY <1>2, <2>1, <2>2, <2>3
<1>10. Len(t.buf) = h.len - (left - ch.data)
  BY <1>1, <1>2, <1>8
<1>11. ch.len >= Len(m.buf) /\ AnnouncedBy(m, ch).len > 0
  BY <1>1, <1>2, <1>3
<1> QED
  BY <1>1, <1>4, <1>5, <1>6, <1>7, <1>9, <1>10, <1>11

LEMMA AfterFields ==
  ASSUME NEW s \in State, NEW ch \in Chunk, NEW t \in Message, t = TakenBy(s.msgs[ch.chan], ch, ch.data),
         t.type = "set_chunk" => ch.value \in ChunkLen
  PROVE  /\ After(s, ch) \in State
         /\ Len(t.buf) = t.len => /\ After(s, ch).msgs = [s.msgs EXCEPT ![ch.chan] = Cleared(t)]
                                  /\ After(s, ch).limit = (IF t.type = "set_chunk" THEN ch.value ELSE s.limit)
                                  /\ After(s, ch).done = Append(s.done, HandledAs(t))
         /\ Len(t.buf) # t.len => /\ After(s, ch).msgs = [s.msgs EXCEPT ![ch.chan] = t]
                                  /\ After(s, ch).limit = s.limit /\ After(s, ch).done = s.done
<1>1. PICK ms \in [Channel -> Message], l \in AnyChunkLen, d \in Seq(Whole) : ms = s.msgs /\ l = s.limit /\ d = s.done
  BY DEF State
<1>2. ch.chan \in Channel
  BY DEF Chunk
<1>3. CASE Len(t.buf) = t.len
  <2>1. PICK nm \in [Channel -> Message] : nm = [ms EXCEPT ![ch.chan] = Cleared(t)]
    BY <1>2, ClearedFields
  <2>2. PICK nl \in AnyChunkLen : nl = IF t.type = "set_chunk" THEN ch.value ELSE l
    BY LimitPositive
  <2>3. PICK nd \in Seq(Whole) : nd = Append(d, HandledAs(t))
    BY ClearedFields, AppendElement
  <2>4. After(s, ch) = [msgs |-> nm, limit |-> nl, done |-> nd]
    BY <1>1, <1>3, <2>1, <2>2, <2>3 DEF After, Put
  <2> QED
    BY <1>1, <1>3, <2>1, <2>2, <2>3, <2>4 DEF State
<1>4. CASE Len(t.buf) # t.len
  <2>1. PICK nm \in [Channel -> Message] : nm = [ms EXCEPT ![ch.chan] = t]
    BY <1>2
  <2>2. After(s, ch) = [msgs |-> nm, limit |-> l, done |-> d]
    BY <1>1, <1>4, <2>1 DEF After, Put
  <2> QED
    BY <1>1, <1>4, <2>1, <2>2 DEF State
<1> QED
  BY <1>3, <1>4

LEMMA SenderFits ==
  ASSUME TypeOK, NEW s \in State, AtSender(s), NEW c \in Channel, NEW ch \in Chunk, NEW h \in Message, NEW left \in Nat,
         Emits(c, ch, h, left), Finishes(ch, h, left), Follows(c, ch, h, left)
  PROVE  /\ Fits(s, ch) /\ After(s, ch) \in State /\ AtSender(After(s, ch))'
         /\ Prefix(sent, sent')
<1>1. PICK m \in Message : m = s.msgs[c]
  BY DEF State
<1>2. Continues(m, ch, h, left)
  BY <1>1, SenderContinues
<1>3. /\ ch.chan = c /\ ch.len = h.len /\ ch.data = (IF left <= out_chunk THEN left ELSE out_chunk)
      /\ left \in 1..h.len /\ (h.type = "set_chunk" => ch.value \in ChunkLen)
      /\ header' = [header EXCEPT ![c] = h]
      /\ sending' = [sending EXCEPT ![c] = [id |-> ch.id, left |-> left - ch.data, value |-> ch.value]]
  BY DEF Emits
<1>4. PICK limit \in Nat \ {0} : limit = out_chunk /\ limit = s.limit
  BY LimitPositive DEF TypeOK, AtSender
<1>5. PICK y \in 1..h.len : y = left
  BY <1>3
<1>6. Continues(m, ch, h, y) /\ ch.data = (IF y <= limit THEN y ELSE limit)
  BY <1>2, <1>3, <1>4, <1>5
<1>7. /\ ch.fmt <= 1 => ch.len >= Len(m.buf)
      /\ AnnouncedBy(m, ch).len > 0 /\ ExpectedBy(m, ch, limit) = ch.data
  BY <1>3, <1>6, ContinuesFits
<1>8. PICK t \in Message : t = TakenBy(m, ch, ch.data)
  BY <1>3, <1>6, ContinuesFits
<1>9. /\ t.len = h.len /\ t.type = h.type /\ t.endpoint = h.endpoint /\ t.timestamp = h.timestamp
      /\ Len(t.buf) = h.len - (left - ch.data) /\ \A k \in 1..Len(t.buf) : t.buf[k] = ch.id
  BY <1>3, <1>5, <1>6, <1>8, ContinuesFits
<1>10. Fits(s, ch)
  BY <1>1, <1>3, <1>4, <1>7 DEF Fits
<1>11. /\ After(s, ch) \in State
       /\ Len(t.buf) = t.len => /\ After(s, ch).msgs = [s.msgs EXCEPT ![ch.chan] = Cleared(t)]
                                /\ After(s, ch).limit = (IF t.type = "set_chunk" THEN ch.value ELSE s.limit)
                                /\ After(s, ch).done = Append(s.done, HandledAs(t))
       /\ Len(t.buf) # t.len => /\ After(s, ch).msgs = [s.msgs EXCEPT ![ch.chan] = t]
                                /\ After(s, ch).limit = s.limit /\ After(s, ch).done = s.done
  BY <1>1, <1>3, <1>8, <1>9, AfterFields
<1>12. PICK a \in State : a = After(s, ch)
  BY <1>11
<1>13. left \in Nat /\ h.len \in Nat /\ ch.data \in Nat \ {0} /\ left <= h.len /\ ch.data <= left /\ left - ch.data \in Nat
  <2>1. h.len \in Nat
    BY DEF Message
  <2> QED
    BY <1>3, <1>4, <2>1
<1>14. s.limit = out_chunk /\ s.done = sent /\ s.msgs \in [Channel -> Message] /\ sent \in Seq(Whole)
  BY DEF AtSender, State, TypeOK
<1>15. header \in [Channel -> Message] /\ sending \in [Channel -> [id : Nat, left : Nat, value : Nat]]
  BY DEF TypeOK
<1>16. header'[c] = h /\ sending'[c] = [id |-> ch.id, left |-> left - ch.data, value |-> ch.value]
  BY <1>3, <1>15
<1>17. sending'[c].id = ch.id /\ sending'[c].left = left - ch.data
  BY <1>16
<1>18. /\ a.limit = out_chunk' /\ a.done = sent' /\ Prefix(sent, sent')
       /\ a.msgs = [s.msgs EXCEPT ![c] = IF left = ch.data THEN Cleared(t) ELSE t]
  <2>1. CASE left = ch.data
    <3>1. Len(t.buf) = t.len
      BY <1>9, <1>13, <2>1
    <3>2. /\ a.msgs = [s.msgs EXCEPT ![c] = Cleared(t)] /\ a.done = Append(sent, HandledAs(t))
          /\ a.limit = IF h.type = "set_chunk" THEN ch.value ELSE out_chunk
      BY <1>3, <1>9, <1>11, <1>12, <1>14, <3>1
    <3>3. t.buf = [k \in 1..h.len |-> ch.id]
      <4>1. t.buf \in Seq(Nat)
        BY DEF Message
      <4>2. t.buf = [k \in 1..Len(t.buf) |-> t.buf[k]]
        BY <4>1
      <4> QED
        BY <1>9, <3>1, <4>2
    <3>4. /\ sent' = Append(sent, [type |-> h.type, endpoint |-> h.endpoint, timestamp |-> h.timestamp,
                                   data |-> [k \in 1..h.len |-> ch.id]])
          /\ out_chunk' = IF h.type = "set_chunk" THEN ch.value ELSE out_chunk
      BY <2>1 DEF Finishes
    <3>5. sent' = Append(sent, HandledAs(t))
      BY <1>9, <3>3, <3>4 DEF HandledAs
    <3>6. HandledAs(t) \in Whole
      BY ClearedFields
    <3>7. Prefix(sent, sent')
      BY <1>14, <3>5, <3>6, AppendElement DEF Prefix
    <3> QED
      BY <2>1, <3>2, <3>4, <3>5, <3>7
  <2>2. CASE left # ch.data
    <3>1. Len(t.buf) # t.len
      BY <1>9, <1>13, <2>2
    <3>2. sent' = sent /\ out_chunk' = out_chunk
      BY <2>2 DEF Finishes
    <3>3. Prefix(sent, sent')
      BY <1>14, <3>2 DEF Prefix
    <3> QED
      BY <1>3, <1>11, <1>12, <1>14, <2>2, <3>1, <3>2, <3>3
  <2> QED
    BY <2>1, <2>2
<1>19. ASSUME NEW d \in Channel
       PROVE  /\ a.msgs[d].len = header'[d].len /\ a.msgs[d].type = header'[d].type
              /\ a.msgs[d].endpoint = header'[d].endpoint /\ a.msgs[d].timestamp = header'[d].timestamp
              /\ sending'[d].left <= header'[d].len
              /\ sending'[d].left = 0 => a.msgs[d].buf = <<>>
              /\ sending'[d].left > 0 => /\ Len(a.msgs[d].buf) = header'[d].len - sending'[d].left
                                         /\ \A k \in 1..Len(a.msgs[d].buf) : a.msgs[d].buf[k] = sending'[d].id
  <2>1. CASE d # c
    <3>1. a.msgs[d] = s.msgs[d] /\ header'[d] = header[d] /\ sending'[d] = sending[d]
      BY <1>3, <1>14, <1>15, <1>18, <2>1
    <3> QED
      BY <3>1 DEF AtSender
  <2>2. CASE d = c /\ left = ch.data
    <3>1. a.msgs[d] = Cleared(t)
      BY <1>14, <1>18, <2>2
    <3>2. /\ Cleared(t).len = t.len /\ Cleared(t).type = t.type /\ Cleared(t).endpoint = t.endpoint
          /\ Cleared(t).timestamp = t.timestamp /\ Cleared(t).buf = <<>>
      BY ClearedFields
    <3>3. sending'[d].left = 0
      BY <1>13, <1>17, <2>2
    <3>4. a.msgs[d].len = h.len /\ a.msgs[d].type = h.type /\ a.msgs[d].endpoint = h.endpoint
          /\ a.msgs[d].timestamp = h.timestamp /\ a.msgs[d].buf = <<>>
      BY <1>9, <3>1, <3>2
    <3> QED
      BY <1>13, <1>16, <2>2, <3>3, <3>4
  <2>3. CASE d = c /\ left # ch.data
    <3>1. a.msgs[d] = t
      BY <1>14, <1>18, <2>3
    <3>2. sending'[d].left # 0 /\ sending'[d].left <= h.len
      BY <1>13, <1>17, <2>3
    <3>3. Len(a.msgs[d].buf) = h.len - sending'[d].left /\ \A k \in 1..Len(a.msgs[d].buf) : a.msgs[d].buf[k] = sending'[d].id
      BY <1>9, <1>17, <2>3, <3>1
    <3> QED
      BY <1>9, <1>16, <2>3, <3>1, <3>2, <3>3
  <2> QED
    BY <2>1, <2>2, <2>3
<1>20. AtSender(a)'
  BY <1>18, <1>19 DEF AtSender
<1> QED
  BY <1>10, <1>12, <1>18, <1>20

-----------------------------------------------------------------------------
(* The chain of the receiver's states.                                       *)

Now == [msgs |-> messages, limit |-> chunk_len, done |-> handled]

LEMMA ChainStates ==
  ASSUME TypeOK, ChainOK, ~refused, NEW n \in Nat, n = Len(wire)
  PROVE  \E st \in From0(State, n) :
           /\ st[0] = Now /\ AtSender(st[n])
           /\ \A k \in 1..n : Fits(st[k - 1], wire[k]) /\ st[k] = After(st[k - 1], wire[k])
           /\ \A k \in 0..n : Prefix(st[k].done, sent)
  BY DEF ChainOK, Leads, From0, Now

LEMMA PrefixTransitive ==
  ASSUME NEW p \in Seq(Whole), NEW q \in Seq(Whole), NEW r \in Seq(Whole), Prefix(p, q), Prefix(q, r)
  PROVE  Prefix(p, r)
<1>1. PICK a \in Nat, b \in Nat, c \in Nat : a = Len(p) /\ b = Len(q) /\ c = Len(r)
  OBVIOUS
<1>2. a <= b /\ b <= c /\ (\A k \in 1..a : p[k] = q[k]) /\ (\A k \in 1..b : q[k] = r[k])
  BY <1>1 DEF Prefix
<1>3. a <= c /\ \A k \in 1..a : p[k] = r[k]
  BY <1>2
<1> QED
  BY <1>1, <1>3 DEF Prefix

LEMMA SendChain ==
  ASSUME TypeOK, SendingOK, ChainOK, Send
  PROVE  ChainOK'
<1>1. PICK c \in Channel, ch \in Chunk, h \in Message, left \in Nat :
        Emits(c, ch, h, left) /\ Finishes(ch, h, left) /\ Follows(c, ch, h, left)
  BY SendEffect
<1>2. wire' = Append(wire, ch) /\ UNCHANGED receiver
  BY <1>1 DEF Emits
<1> SUFFICES ASSUME ~refused PROVE ChainOK'
  BY <1>2 DEF ChainOK, receiver
<1>3. wire \in Seq(Chunk) /\ sent \in Seq(Whole)
  BY DEF TypeOK
<1>4. PICK n \in Nat : n = Len(wire)
  BY <1>3
<1>5. Len(wire') = n + 1 /\ wire'[n + 1] = ch /\ \A j \in 1..n : wire'[j] = wire[j]
  BY <1>2, <1>3, <1>4, AppendElement
<1>6. PICK st \in From0(State, n) :
        /\ st[0] = Now /\ AtSender(st[n])
        /\ \A k \in 1..n : Fits(st[k - 1], wire[k]) /\ st[k] = After(st[k - 1], wire[k])
        /\ \A k \in 0..n : Prefix(st[k].done, sent)
  BY <1>4, ChainStates
<1>7. \A k \in 0..n : st[k] \in State
  BY DEF From0
<1>8. PICK s \in State : s = st[n]
  BY <1>7
<1>9. Fits(s, ch) /\ After(s, ch) \in State /\ AtSender(After(s, ch))' /\ Prefix(sent, sent')
  BY <1>1, <1>6, <1>8, SenderFits
<1>10. PICK x \in State : x = After(s, ch) /\ AtSender(x)'
  BY <1>9
<1>11. PICK f \in From0(State, n + 1) : IsExtended(f, st, n, x)
  BY Extended
<1>12. f[n + 1] = x /\ \A k \in 0..n : f[k] = st[k]
  BY <1>11 DEF IsExtended
<1>13. f[0] = Now'
  BY <1>2, <1>6, <1>12 DEF receiver, Now
<1>14. ASSUME NEW k \in 1..(n + 1) PROVE Fits(f[k - 1], wire'[k]) /\ f[k] = After(f[k - 1], wire'[k])
  <2>1. CASE k = n + 1
    <3>1. k - 1 = n /\ n \in 0..n
      BY <2>1
    <3>2. f[k - 1] = s /\ f[k] = x /\ wire'[k] = ch
      BY <1>5, <1>8, <1>12, <2>1, <3>1
    <3> QED
      BY <1>9, <1>10, <3>2
  <2>2. CASE k # n + 1
    <3>1. k \in 1..n /\ k \in 0..n /\ k - 1 \in 0..n
      BY <2>2
    <3>2. f[k] = st[k] /\ f[k - 1] = st[k - 1] /\ wire'[k] = wire[k]
      BY <1>5, <1>12, <3>1
    <3> QED
      BY <1>6, <3>1, <3>2
  <2> QED
    BY <2>1, <2>2
<1>15. sent' \in Seq(Whole)
  BY SendTypes DEF TypeOK
<1>16. ASSUME NEW k \in 0..(n + 1) PROVE Prefix(f[k].done, sent')
  <2>1. CASE k = n + 1
    <3>1. f[k].done = sent'
      BY <1>10, <1>12, <2>1 DEF AtSender
    <3>2. Prefix(sent', sent')
      BY <1>15 DEF Prefix
    <3> QED
      BY <3>1, <3>2
  <2>2. CASE k # n + 1
    <3>1. k \in 0..n
      BY <2>2
    <3>2. f[k] = st[k] /\ st[k] \in State /\ Prefix(st[k].done, sent)
      BY <1>6, <1>7, <1>12, <3>1
    <3>3. st[k].done \in Seq(Whole)
      BY <3>2 DEF State
    <3> QED
      BY <1>3, <1>9, <1>15, <3>2, <3>3, PrefixTransitive
  <2> QED
    BY <2>1, <2>2
<1>17. Leads(f)'
  BY <1>5, <1>10, <1>12, <1>13, <1>14, <1>16 DEF Leads, Now
<1>18. f \in [0..Len(wire') -> State]
  BY <1>5 DEF From0
<1>19. pc' # "lost"
  BY <1>2 DEF ChainOK, receiver
<1> QED
  BY <1>17, <1>18, <1>19 DEF ChainOK

LEMMA TakeChain ==
  ASSUME TypeOK, ChainOK, wire # <<>>, wire' = Tail(wire), UNCHANGED sender, UNCHANGED <<refused, pc>>,
         ~refused => Now' = After(Now, wire[1])
  PROVE  ChainOK'
<1> SUFFICES ASSUME ~refused PROVE ChainOK'
  BY DEF ChainOK
<1>1. wire \in Seq(Chunk)
  BY DEF TypeOK
<1>2. PICK n \in Nat \ {0} : n = Len(wire)
  BY <1>1, TailElement
<1>3. Len(wire') = n - 1 /\ \A k \in 1..(n - 1) : wire'[k] = wire[k + 1]
  BY <1>1, <1>2, TailElement
<1>4. PICK st \in From0(State, n) :
        /\ st[0] = Now /\ AtSender(st[n])
        /\ \A k \in 1..n : Fits(st[k - 1], wire[k]) /\ st[k] = After(st[k - 1], wire[k])
        /\ \A k \in 0..n : Prefix(st[k].done, sent)
  BY <1>2, ChainStates
<1>5. PICK f \in From0(State, n - 1) : IsShifted(f, st, n)
  BY Shifted
<1>6. \A k \in 0..(n - 1) : f[k] = st[k + 1]
  BY <1>5 DEF IsShifted
<1>7. f[0] = Now' /\ f[n - 1] = st[n]
  <2>1. 0 \in 0..(n - 1) /\ n - 1 \in 0..(n - 1) /\ 0 + 1 = 1 /\ (n - 1) + 1 = n /\ 1 \in 1..n /\ 1 - 1 = 0
    OBVIOUS
  <2>2. f[0] = st[1] /\ f[n - 1] = st[n]
    BY <1>6, <2>1
  <2>3. st[1] = After(st[0], wire[1])
    BY <1>4, <2>1
  <2> QED
    BY <1>4, <2>2, <2>3
<1>8. ASSUME NEW k \in 1..(n - 1) PROVE Fits(f[k - 1], wire'[k]) /\ f[k] = After(f[k - 1], wire'[k])
  <2>1. k \in 0..(n - 1) /\ k - 1 \in 0..(n - 1) /\ k + 1 \in 1..n /\ (k - 1) + 1 = k /\ (k + 1) - 1 = k
    OBVIOUS
  <2>2. f[k] = st[k + 1] /\ f[k - 1] = st[(k + 1) - 1] /\ wire'[k] = wire[k + 1]
    BY <1>3, <1>6, <2>1
  <2>3. Fits(st[(k + 1) - 1], wire[k + 1]) /\ st[k + 1] = After(st[(k + 1) - 1], wire[k + 1])
    BY <1>4, <2>1
  <2> QED
    BY <2>2, <2>3
<1>9. ASSUME NEW k \in 0..(n - 1) PROVE Prefix(f[k].done, sent)
  <2>1. k + 1 \in 0..n
    OBVIOUS
  <2>2. f[k] = st[k + 1]
    BY <1>6
  <2> QED
    BY <1>4, <2>1, <2>2
<1>10. AtSender(f[n - 1])'
  <2>1. PICK s : s = f[n - 1] /\ AtSender(s)
    BY <1>4, <1>7
  <2>2. AtSender(s)'
    BY <2>1 DEF AtSender, sender
  <2> QED
    BY <2>1, <2>2
<1>11. sent' = sent
  BY DEF sender
<1>12. Leads(f)'
  BY <1>3, <1>7, <1>8, <1>9, <1>10, <1>11 DEF Leads, Now
<1>13. f \in [0..Len(wire') -> State]
  BY <1>3 DEF From0
<1>14. pc' # "lost"
  BY DEF ChainOK
<1> QED
  BY <1>12, <1>13, <1>14 DEF ChainOK

LEMMA NowFields ==
  ASSUME TypeOK
  PROVE  Now \in State /\ Now.msgs = messages /\ Now.limit = chunk_len /\ Now.done = handled
  BY DEF TypeOK, State, Now

(* As long as nothing was refused, the receiver takes of every chunk what it has. *)
LEMMA FrontFits ==
  ASSUME TypeOK, BytesOK, ChainOK, ~refused, received > 0
  PROVE  Fits(Now, chunk) /\ Expected = chunk.data /\ ~BadHeader
<1>1. /\ Len(wire) \in Nat \ {0} /\ chunk = wire[1] /\ chunk \in Chunk /\ msg \in Message
      /\ msg = messages[chunk.chan]
  BY FrontChunk
<1>2. PICK n \in Nat : n = Len(wire) /\ 1 \in 1..n /\ 1 - 1 = 0
  BY <1>1
<1>3. PICK st \in From0(State, n) : st[0] = Now /\ \A k \in 1..n : Fits(st[k - 1], wire[k])
  BY <1>2, ChainStates
<1>4. Fits(Now, chunk)
  BY <1>1, <1>2, <1>3
<1>5. Announced = AnnouncedBy(msg, chunk) /\ Expected = ExpectedBy(msg, chunk, chunk_len)
  BY Operators
<1>6. /\ chunk.fmt <= 1 => chunk.len >= Len(msg.buf)
      /\ Announced.len > 0 /\ Expected = chunk.data
  BY <1>1, <1>4, <1>5, NowFields DEF Fits
<1>7. chunk.len \in Nat /\ Len(msg.buf) \in Nat /\ Announced.len \in Nat
  <2>1. msg.buf \in Seq(Nat) /\ chunk.len \in Nat
    BY <1>1 DEF Message, Chunk
  <2>2. Announced \in Message
    BY <1>1, <1>5, AnnouncedFields
  <2> QED
    BY <2>1, <2>2 DEF Message
<1>8. ~BadHeader
  BY <1>6, <1>7 DEF BadHeader
<1> QED
  BY <1>4, <1>6, <1>8

LEMMA AgainChain ==
  ASSUME TypeOK, BytesOK, ChainOK, NeedPayload
  PROVE  ChainOK'
<1>1. /\ received > 0 /\ messages' = [messages EXCEPT ![chunk.chan] = Announced] /\ pc' = "recv"
      /\ UNCHANGED <<wire, bytes, received, chunk_len, handled, refused, sender>>
  BY DEF NeedPayload, InLoop
<1> SUFFICES ASSUME ~refused PROVE ChainOK'
  BY <1>1 DEF ChainOK
<1>2. /\ Len(wire) \in Nat \ {0} /\ chunk = wire[1] /\ chunk \in Chunk /\ chunk.chan \in Channel
      /\ msg \in Message /\ msg = messages[chunk.chan]
  BY <1>1, FrontChunk
<1>3. PICK n \in Nat \ {0} : n = Len(wire)
  BY <1>2
<1>4. PICK st \in From0(State, n) :
        /\ st[0] = Now /\ AtSender(st[n])
        /\ \A k \in 1..n : Fits(st[k - 1], wire[k]) /\ st[k] = After(st[k - 1], wire[k])
        /\ \A k \in 0..n : Prefix(st[k].done, sent)
  BY <1>3, ChainStates
<1>5. PICK ch \in Chunk, m \in Message : ch = wire[1] /\ ch = chunk /\ m = msg
  BY <1>2
<1>6. PICK ms \in [Channel -> Message], l \in AnyChunkLen, d \in Seq(Whole) :
        ms = messages /\ l = chunk_len /\ d = handled
  BY DEF TypeOK
<1>7. PICK a \in Message : a = AnnouncedBy(m, ch) /\ a = Announced
  BY <1>1, <1>5, AnnouncedFields, Operators
<1>8. PICK mt \in [Channel -> Message] : mt = [ms EXCEPT ![ch.chan] = a]
  BY <1>2, <1>5
<1>9. [msgs |-> mt, limit |-> l, done |-> d] \in State
  BY DEF State
<1>10. PICK x \in State : x = [msgs |-> mt, limit |-> l, done |-> d]
  BY <1>9
<1>11. x.msgs = mt /\ x.limit = l /\ x.done = d /\ x = Now'
  BY <1>1, <1>5, <1>6, <1>7, <1>8, <1>10 DEF Now
<1>12. PICK s \in State : s = Now /\ s.msgs = ms /\ s.limit = l /\ s.done = d
  BY <1>6, NowFields
<1>13. ms[ch.chan] = m /\ mt[ch.chan] = a /\ \A y : [mt EXCEPT ![ch.chan] = y] = [ms EXCEPT ![ch.chan] = y]
  BY <1>2, <1>5, <1>6, <1>8
<1>14. /\ AnnouncedBy(a, ch) = AnnouncedBy(m, ch)
       /\ ExpectedBy(a, ch, l) = ExpectedBy(m, ch, l) /\ TakenBy(a, ch, ch.data) = TakenBy(m, ch, ch.data)
       /\ a.buf = m.buf
  <2>1. /\ AnnouncedBy(AnnouncedBy(m, ch), ch) = AnnouncedBy(m, ch)
        /\ \A y : ExpectedBy(AnnouncedBy(m, ch), ch, y) = ExpectedBy(m, ch, y)
        /\ \A y : TakenBy(AnnouncedBy(m, ch), ch, y) = TakenBy(m, ch, y)
    BY AnnouncedAgain
  <2>2. AnnouncedBy(m, ch).buf = m.buf
    BY AnnouncedFields
  <2> QED
    BY <1>7, <2>1, <2>2
<1>15. Fits(s, ch)
  BY <1>1, <1>5, <1>12, FrontFits
<1>16. Fits(x, ch)
  BY <1>11, <1>12, <1>13, <1>14, <1>15 DEF Fits
<1>17. After(x, ch) = After(s, ch)
  BY <1>11, <1>12, <1>13, <1>14 DEF After, Put
<1>18. PICK f \in From0(State, n) : IsReplaced(f, st, n, x)
  BY Replaced
<1>19. f[0] = x /\ \A k \in 1..n : f[k] = st[k]
  BY <1>18 DEF IsReplaced
<1>20. ASSUME NEW k \in 1..n PROVE Fits(f[k - 1], wire[k]) /\ f[k] = After(f[k - 1], wire[k])
  <2>1. CASE k = 1
    <3>0. k - 1 = 0 /\ 1 \in 1..n
      BY <2>1
    <3>1. f[k - 1] = x /\ f[k] = st[1] /\ wire[k] = ch
      BY <1>5, <1>19, <2>1, <3>0
    <3>2. st[1] = After(st[1 - 1], wire[1])
      BY <1>4, <2>1
    <3>3. st[1] = After(s, ch)
      BY <1>4, <1>5, <1>12, <3>2
    <3> QED
      BY <1>16, <1>17, <3>1, <3>3
  <2>2. CASE k # 1
    <3>1. k - 1 \in 1..n
      BY <2>2
    <3>2. f[k] = st[k] /\ f[k - 1] = st[k - 1]
      BY <1>19, <3>1
    <3> QED
      BY <1>4, <3>2
  <2> QED
    BY <2>1, <2>2
<1>21. ASSUME NEW k \in 0..n PROVE Prefix(f[k].done, sent)
  <2>1. CASE k = 0
    <3>1. Prefix(st[0].done, sent) /\ f[k] = x
      BY <1>4, <1>19, <2>1
    <3> QED
      BY <1>4, <1>11, <1>12, <3>1
  <2>2. CASE k # 0
    <3>1. k \in 1..n
      BY <2>2
    <3> QED
      BY <1>4, <1>19, <3>1
  <2> QED
    BY <2>1, <2>2
<1>22. AtSender(f[n])'
  <2>1. PICK z : z = f[n] /\ AtSender(z)
    BY <1>4, <1>19
  <2>2. AtSender(z)'
    BY <1>1, <2>1 DEF AtSender, sender
  <2> QED
    BY <2>1, <2>2
<1>23. wire' = wire /\ sent' = sent /\ Len(wire') = n
  BY <1>1, <1>3 DEF sender
<1>24. Leads(f)'
  BY <1>11, <1>19, <1>20, <1>21, <1>22, <1>23 DEF Leads, Now
<1>25. f \in [0..Len(wire') -> State]
  BY <1>23 DEF From0
<1> QED
  BY <1>1, <1>24, <1>25 DEF ChainOK

(* What TakePart and TakeLast make of the receiver is the next state of the chain. *)
LEMMA TakenIsAfter ==
  ASSUME TypeOK, BytesOK, TypesOK, TakePart \/ TakeLast
  PROVE  Now' = After(Now, chunk)
<1>1. Take
  BY DEF TakePart, TakeLast
<1>2. received > 0 /\ Taken = TakenBy(msg, chunk, chunk.data) /\ Taken \in Message
  BY <1>1, TakeEffect
<1>3. PICK ch \in Chunk, t \in Message : ch = chunk /\ t = Taken /\ t = TakenBy(msg, ch, ch.data)
  BY <1>2, FrontChunk
<1>4. msg = messages[ch.chan] /\ ch.chan \in Channel
  BY <1>2, <1>3, FrontChunk
<1>5. CASE TakePart
  <2>1. Len(t.buf) # t.len /\ messages' = [messages EXCEPT ![ch.chan] = t] /\ chunk_len' = chunk_len /\ handled' = handled
    BY <1>3, <1>5 DEF TakePart
  <2>2. After(Now, ch) = [msgs |-> [messages EXCEPT ![ch.chan] = t], limit |-> chunk_len, done |-> handled]
    BY <1>3, <1>4, <2>1 DEF After, Put, Now
  <2> QED
    BY <1>3, <2>1, <2>2 DEF Now
<1>6. CASE TakeLast
  <2>1. /\ Len(t.buf) = t.len /\ messages' = [messages EXCEPT ![ch.chan] = [t EXCEPT !.buf = <<>>]]
        /\ handled' = Append(handled, HandledAs(t))
        /\ chunk_len' = IF t.type = "set_chunk" THEN ch.value ELSE chunk_len
    BY <1>3, <1>6 DEF TakeLast, NewChunkLen, HandledAs
  <2>2. Cleared(t) = [t EXCEPT !.buf = <<>>]
    BY ClearedFields
  <2>3. After(Now, ch) = [msgs |-> [messages EXCEPT ![ch.chan] = Cleared(t)],
                          limit |-> IF t.type = "set_chunk" THEN ch.value ELSE chunk_len,
                          done |-> Append(handled, HandledAs(t))]
    BY <1>3, <1>4, <2>1 DEF After, Put, Now
  <2> QED
    BY <1>3, <2>1, <2>2, <2>3 DEF Now
<1> QED
  BY <1>5, <1>6

-----------------------------------------------------------------------------
(* The invariant.                                                            *)

LEMMA InitOK ==
  ASSUME Init
  PROVE  IInv
<1>1. wire = <<>> /\ Len(wire) = 0 /\ wire \in Seq(Chunk)
  BY DEF Init
<1>2. <<>> \in Seq(Nat) /\ <<>> \in Seq(Whole)
  OBVIOUS
<1>3. Blank \in Message /\ Blank.len = 0 /\ Blank.type = "media" /\ Blank.buf = <<>>
  BY <1>2 DEF Blank, Message, Types, AnyEndpoint
<1>4. Idle \in [id : Nat, left : Nat, value : Nat] /\ Idle.left = 0
  BY DEF Idle
<1>5. /\ messages = [c \in Channel |-> Blank] /\ header = [c \in Channel |-> Blank]
      /\ sending = [c \in Channel |-> Idle] /\ handled = <<>> /\ sent = <<>> /\ bytes = 0 /\ received = 0
      /\ chunk_len = DefaultChunkLen /\ out_chunk = DefaultChunkLen /\ pc = "recv" /\ refused = FALSE
  BY DEF Init
<1>6. messages \in [Channel -> Message] /\ header \in [Channel -> Message]
  BY <1>3, <1>5
<1>7. sending \in [Channel -> [id : Nat, left : Nat, value : Nat]]
  BY <1>4, <1>5
<1>8. TypeOK
  <2>1. \A k \in 1..Len(wire) : wire[k].type = "set_chunk" => wire[k].value \in ChunkLen
    BY <1>1
  <2> QED
    <3>1. bytes \in Nat /\ received \in 0..bytes
      BY <1>5
    <3>2. handled \in Seq(Whole) /\ sent \in Seq(Whole)
      BY <1>2, <1>5
    <3>3. chunk_len \in AnyChunkLen /\ out_chunk \in AnyChunkLen
      BY <1>5 DEF AnyChunkLen
    <3>4. pc \in {"recv", "loop", "lost"} /\ refused \in BOOLEAN
      BY <1>5
    <3> QED
      BY <1>1, <1>6, <1>7, <2>1, <3>1, <3>2, <3>3, <3>4 DEF TypeOK
<1>9. SendingOK
  BY <1>4, <1>5 DEF SendingOK
<1>10. BytesOK
  <2>0. [k \in 0..0 |-> 0] \in [0..0 -> Int]
    OBVIOUS
  <2>1. PICK pos \in [0..0 -> Int] : pos = [k \in 0..0 |-> 0]
    BY <2>0
  <2>2. Counts(pos)
    BY <1>1, <1>5, <2>1 DEF Counts
  <2> QED
    BY <1>1, <2>2 DEF BytesOK
<1>11. TypesOK
  <2>1. [c \in Channel |-> "media"] \in [Channel -> Types]
    BY DEF Types
  <2>2. PICK ty \in [0..0 -> [Channel -> Types]] : ty = [k \in 0..0 |-> [c \in Channel |-> "media"]]
    BY <2>1
  <2>3. Typed(ty)
    BY <1>1, <1>3, <1>5, <2>2 DEF Typed
  <2> QED
    BY <1>1, <2>3 DEF TypesOK
<1>12. ChainOK
  <2>1. Now \in State /\ Now.msgs = messages /\ Now.limit = chunk_len /\ Now.done = handled
    BY <1>8, NowFields
  <2>2. PICK st \in [0..0 -> State] : st[0] = Now
    <3>1. [k \in 0..0 |-> Now] \in [0..0 -> State] /\ [k \in 0..0 |-> Now][0] = Now
      BY <2>1
    <3> QED
      BY <3>1
  <2>3. AtSender(Now)
    BY <1>3, <1>4, <1>5, <2>1 DEF AtSender
  <2>4. Prefix(Now.done, sent)
    BY <1>5, <2>1 DEF Prefix
  <2>5. Leads(st)
    <3>1. \A k \in 0..Len(wire) : k = 0
      BY <1>1
    <3>2. \A k \in 1..Len(wire) : FALSE
      BY <1>1
    <3> QED
      BY <1>1, <2>2, <2>3, <2>4, <3>1, <3>2 DEF Leads, Now
  <2> QED
    BY <1>1, <1>5, <2>5 DEF ChainOK
<1> QED
  BY <1>8, <1>9, <1>10, <1>11, <1>12 DEF IInv

LEMMA TakeOK ==
  ASSUME IInv, TakePart \/ TakeLast \/ TakeRefused
  PROVE  BytesOK' /\ TypesOK' /\ ChainOK' /\ SendingOK'
<1>1. Take
  BY DEF TakePart, TakeLast, TakeRefused
<1>2. TypeOK /\ BytesOK /\ TypesOK /\ ChainOK /\ SendingOK
  BY DEF IInv
<1>3. /\ received > 0 /\ wire' = Tail(wire) /\ UNCHANGED sender
      /\ Taken = TakenBy(msg, chunk, chunk.data) /\ Taken \in Message
  BY <1>1, <1>2, TakeEffect
<1>4. /\ chunk = wire[1] /\ wire # <<>> /\ chunk \in Chunk /\ chunk.chan \in Channel /\ msg \in Message
  BY <1>2, <1>3, FrontChunk
<1>5. chunk.data \in Nat
  BY <1>4 DEF Chunk
<1>6. Taken.type = wire[1].type
  BY <1>2, <1>3, <1>4, <1>5, FrontType, TakenFields
<1>7. [Taken EXCEPT !.buf = <<>>].type = Taken.type
  BY <1>3 DEF Message
<1>8. PICK m \in Message : messages' = [messages EXCEPT ![chunk.chan] = m] /\ m.type = wire[1].type
  <2>1. [Taken EXCEPT !.buf = <<>>] \in Message
    BY <1>3, ClearedFields
  <2> QED
    BY <1>3, <1>6, <1>7, <2>1 DEF TakePart, TakeLast, TakeRefused
<1>9. \A d \in Channel : messages'[d].type = IF d = wire[1].chan THEN wire[1].type ELSE messages[d].type
  <2>1. messages \in [Channel -> Message]
    BY <1>2 DEF TypeOK
  <2> QED
    BY <1>4, <1>8, <2>1
<1>10. TypesOK'
  BY <1>2, <1>3, <1>4, <1>9, TakeAlong DEF sender
<1>11. ChainOK'
  <2>1. CASE TakePart \/ TakeLast
    <3>1. UNCHANGED <<refused, pc>>
      BY <2>1 DEF TakePart, TakeLast
    <3>2. Now' = After(Now, wire[1])
      BY <1>2, <1>4, <2>1, TakenIsAfter
    <3> QED
      BY <1>2, <1>3, <1>4, <3>1, <3>2, TakeChain
  <2>2. CASE TakeRefused
    BY <2>2 DEF TakeRefused, ChainOK
  <2> QED
    BY <2>1, <2>2
<1>12. SendingOK'
  BY <1>2, <1>3 DEF SendingOK, sender
<1> QED
  BY <1>1, <1>2, <1>10, <1>11, <1>12, TakeBytes

LEMMA SameTypes ==
  ASSUME TypesOK, wire' = wire, header' = header, \A d \in Channel : messages'[d].type = messages[d].type
  PROVE  TypesOK'
<1>1. PICK n : n = Len(wire) /\ n = Len(wire')
  OBVIOUS
<1>2. PICK ty \in [0..n -> [Channel -> Types]] : Typed(ty)
  BY <1>1 DEF TypesOK
<1>3. \A d \in Channel : ty[0][d] = messages'[d].type /\ ty[n][d] = header'[d].type
  BY <1>1, <1>2 DEF Typed
<1>4. \A k \in 1..n : /\ ty[k] = [ty[k - 1] EXCEPT ![wire'[k].chan] = wire'[k].type]
                      /\ wire'[k].fmt > 1 => ty[k - 1][wire'[k].chan] = wire'[k].type
  BY <1>1, <1>2 DEF Typed
<1>5. Typed(ty)'
  BY <1>1, <1>3, <1>4 DEF Typed
<1> QED
  BY <1>1, <1>5 DEF TypesOK

LEMMA KeepOK ==
  ASSUME IInv, UNCHANGED <<wire, bytes, sender>>
  PROVE  BytesOK' /\ SendingOK' /\ (UNCHANGED messages => TypesOK')
<1>1. BytesOK'
  BY DEF IInv, BytesOK, Counts
<1>2. SendingOK'
  BY DEF IInv, SendingOK, sender
<1>3. UNCHANGED messages => TypesOK'
  BY SameTypes DEF IInv, sender
<1> QED
  BY <1>1, <1>2, <1>3

LEMMA StayChain ==
  ASSUME ChainOK, UNCHANGED <<wire, messages, chunk_len, handled, refused, sender>>, pc' # "lost" \/ refused
  PROVE  ChainOK'
<1> SUFFICES ASSUME ~refused PROVE ChainOK'
  BY DEF ChainOK
<1>1. PICK st \in [0..Len(wire) -> State] : Leads(st)
  BY DEF ChainOK
<1>2. PICK n : n = Len(wire) /\ n = Len(wire)'
  OBVIOUS
<1>3. PICK s : s = st[n] /\ AtSender(s)
  BY <1>1, <1>2 DEF Leads
<1>4. AtSender(s)'
  BY <1>3 DEF AtSender, sender
<1>5. sent' = sent
  BY DEF sender
<1>6. Leads(st)'
  BY <1>1, <1>2, <1>3, <1>4, <1>5 DEF Leads
<1> QED
  BY <1>6 DEF ChainOK

LEMMA LoopOK ==
  ASSUME IInv, Loop
  PROVE  IInv'
<1>1. TypeOK /\ BytesOK /\ TypesOK /\ ChainOK /\ SendingOK
  BY DEF IInv
<1>2. TypeOK'
  BY <1>1, LoopTypes
<1>3. CASE NeedHeader
  <2>1. UNCHANGED <<wire, bytes, messages, chunk_len, handled, refused, sender>> /\ pc' = "recv"
    BY <1>3 DEF NeedHeader
  <2>2. BytesOK' /\ SendingOK' /\ TypesOK'
    BY <2>1, KeepOK
  <2>3. ChainOK'
    BY <1>1, <2>1, StayChain
  <2> QED
    BY <1>2, <2>2, <2>3 DEF IInv
<1>4. CASE RefuseHeader
  <2>1. /\ UNCHANGED <<wire, bytes, chunk_len, handled, sender>> /\ refused' = TRUE /\ received > 0
        /\ messages' = [messages EXCEPT ![chunk.chan] = [@ EXCEPT !.len = Announced.len]]
    BY <1>4 DEF RefuseHeader, InLoop
  <2>2. BytesOK' /\ SendingOK'
    BY <2>1, KeepOK
  <2>3. ChainOK'
    BY <2>1 DEF ChainOK
  <2>4. \A d \in Channel : messages'[d].type = messages[d].type
    <3>1. messages \in [Channel -> Message] /\ chunk.chan \in Channel
      BY <1>1, <2>1, FrontChunk DEF TypeOK
    <3>2. [messages[chunk.chan] EXCEPT !.len = Announced.len].type = messages[chunk.chan].type
      BY <3>1 DEF Message
    <3> QED
      BY <2>1, <3>1, <3>2
  <2>5. TypesOK'
    <3>1. wire' = wire /\ header' = header
      BY <2>1 DEF sender
    <3> QED
      BY <1>1, <2>4, <3>1, SameTypes
  <2> QED
    BY <1>2, <2>2, <2>3, <2>5 DEF IInv
<1>5. CASE NeedPayload
  <2>1. /\ UNCHANGED <<wire, bytes, sender>> /\ received > 0
        /\ messages' = [messages EXCEPT ![chunk.chan] = Announced]
    BY <1>5 DEF NeedPayload, InLoop
  <2>2. BytesOK' /\ SendingOK'
    BY <2>1, KeepOK
  <2>3. ChainOK'
    BY <1>1, <1>5, AgainChain
  <2>4. \A d \in Channel : messages'[d].type = IF d = wire[1].chan THEN wire[1].type ELSE messages[d].type
    <3>1. messages \in [Channel -> Message] /\ chunk.chan \in Channel /\ chunk = wire[1]
      BY <1>1, <2>1, FrontChunk DEF TypeOK
    <3>2. Announced.type = wire[1].type
      BY <1>1, <2>1, <3>1, FrontType, Operators
    <3> QED
      BY <2>1, <3>1, <3>2
  <2>5. wire # <<>> /\ wire' = wire /\ header' = header
    BY <1>1, <2>1, FrontChunk DEF sender
  <2>6. TypesOK'
    BY <1>1, <2>4, <2>5, AgainAlong
  <2> QED
    BY <1>2, <2>2, <2>3, <2>6 DEF IInv
<1>6. CASE TakePart \/ TakeLast \/ TakeRefused
  BY <1>2, <1>6, TakeOK DEF IInv
<1>7. CASE LoseTrack
  <2>1. /\ UNCHANGED <<wire, bytes, messages, chunk_len, handled, refused, sender>> /\ received > 0
        /\ Expected # chunk.data
    BY <1>7 DEF LoseTrack, InLoop
  <2>2. BytesOK' /\ SendingOK' /\ TypesOK'
    BY <2>1, KeepOK
  <2>3. refused \in BOOLEAN /\ refused
    BY <1>1, <2>1, FrontFits DEF TypeOK
  <2>4. ChainOK'
    BY <1>1, <2>1, <2>3, StayChain
  <2> QED
    BY <1>2, <2>2, <2>4 DEF IInv
<1> QED
  BY <1>3, <1>4, <1>5, <1>6, <1>7 DEF Loop

LEMMA StepOK ==
  ASSUME IInv, [Next]_vars
  PROVE  IInv'
<1>1. TypeOK /\ BytesOK /\ TypesOK /\ ChainOK /\ SendingOK
  BY DEF IInv
<1>2. CASE Send
  <2>1. TypeOK' /\ SendingOK'
    BY <1>1, <1>2, SendTypes
  <2>2. BytesOK'
    BY <1>1, <1>2, SendBytes
  <2>3. TypesOK'
    BY <1>1, <1>2, SendAlong
  <2>4. ChainOK'
    BY <1>1, <1>2, SendChain
  <2> QED
    BY <2>1, <2>2, <2>3, <2>4 DEF IInv
<1>3. CASE Recv
  <2>1. UNCHANGED <<wire, bytes, messages, chunk_len, handled, refused, sender>> /\ pc' = "loop"
    BY <1>3 DEF Recv
  <2>2. BytesOK' /\ SendingOK' /\ TypesOK'
    BY <2>1, KeepOK
  <2>3. ChainOK'
    BY <1>1, <2>1, StayChain
  <2>4. TypeOK'
    BY <1>1, <1>3, RecvTypes
  <2> QED
    BY <2>2, <2>3, <2>4 DEF IInv
<1>4. CASE Loop
  BY <1>4, LoopOK
<1>5. CASE UNCHANGED vars
  <2>1. UNCHANGED <<wire, bytes, received, messages, chunk_len, handled, refused, pc, sender>>
    BY <1>5 DEF vars, receiver
  <2>2. BytesOK' /\ SendingOK' /\ TypesOK'
    BY <2>1, KeepOK
  <2>3. ChainOK'
    BY <1>1, <2>1, StayChain DEF ChainOK
  <2>4. TypeOK'
    BY <1>1, <2>1 DEF TypeOK, sender
  <2> QED
    BY <2>2, <2>3, <2>4 DEF IInv
<1> QED
  BY <1>2, <1>3, <1>4, <1>5 DEF Next

-----------------------------------------------------------------------------
LEMMA HandledFirst ==
  ASSUME IInv, ~refused
  PROVE  pc # "lost" /\ Prefix(handled, sent)
<1>1. PICK st \in [0..Len(wire) -> State] : Leads(st)
  BY DEF IInv, ChainOK
<1>2. 0 \in 0..Len(wire)
  BY DEF IInv, TypeOK
<1>3. st[0] = Now /\ Prefix(st[0].done, sent)
  BY <1>1, <1>2 DEF Leads, Now
<1> QED
  BY <1>3, NowFields DEF IInv, ChainOK

(* The states the receiver will go through with the chunks on the wire, taken   *)
(* as they are, lead to what the sender has sent, in every reachable state in   *)
(* which no handler has thrown.                                              *)
THEOREM Invariance == Spec => []IInv
<1>1. Init => IInv
  BY InitOK
<1>2. IInv /\ [Next]_vars => IInv'
  BY StepOK
<1> QED
  BY <1>1, <1>2, PTL DEF Spec

(* The type invariant: client->chunk_len is never a length that no SET_CHUNK    *)
(* announced, also after an exception.                                         *)
THEOREM TypeCorrect == Spec => []TypeOK
<1>1. IInv => TypeOK
  BY DEF IInv
<1> QED
  BY <1>1, Invariance, PTL

(* handle_message() gets the messages that were sent, whole and in order,       *)
(* however recv() cuts the stream, for any chunk lengths, message lengths and   *)
(* number of channels.                                                       *)
THEOREM MessagesWhole == Spec => []MessagesIntact
<1>1. IInv => MessagesIntact
  <2> SUFFICES ASSUME IInv, ~refused
               PROVE  /\ pc # "lost"
                      /\ Len(handled) <= Len(sent)
                      /\ \A k \in 1..Len(handled) : /\ handled[k].data = sent[k].data
                                                    /\ handled[k].type = sent[k].type
                                                    /\ handled[k].endpoint = sent[k].endpoint
    BY DEF MessagesIntact
  <2> QED
    BY HandledFirst DEF Prefix
<1> QED
  BY <1>1, Invariance, PTL

(* A timestamp difference is added once, however often its header is read. *)
THEOREM TimestampsOnce == Spec => []TimestampsExact
<1>1. IInv => TimestampsExact
  BY HandledFirst DEF TimestampsExact, Prefix
<1> QED
  BY <1>1, Invariance, PTL

-----------------------------------------------------------------------------
(* The message channel.                                                      *)

(* The safety part of Messages!Spec. *)
ChannelSafety == Messages!Init /\ [][Messages!Next]_(Messages!vars)

LEMMA SendIsSend ==
  ASSUME IInv, Send
  PROVE  [Messages!Next]_(Messages!vars)
<1>1. TypeOK /\ SendingOK
  BY DEF IInv
<1>2. PICK ch \in Chunk, h \in Message, left \in Nat : Finishes(ch, h, left) /\ UNCHANGED receiver
  BY <1>1, SendEffect DEF Emits
<1>3. UNCHANGED <<handled, refused>>
  BY <1>2 DEF receiver
<1>4. CASE left = ch.data
  <2>1. PICK x : sent' = Append(sent, x)
    BY <1>2, <1>4 DEF Finishes
  <2>2. sent \in Seq(Whole)
    BY <1>1 DEF TypeOK
  <2>3. Len(sent') = Len(sent) + 1 /\ \A k \in 1..Len(sent) : sent'[k] = sent[k]
    BY <2>1, <2>2
  <2>4. Messages!Send
    BY <1>3, <2>3 DEF Messages!Send
  <2> QED
    BY <2>4 DEF Messages!Next
<1>5. CASE left # ch.data
  BY <1>2, <1>3, <1>5 DEF Finishes, Messages!vars
<1> QED
  BY <1>4, <1>5

LEMMA HandledFirstNext == IInv' => (~refused' => Prefix(handled, sent)')
<1>1. IInv => (~refused => Prefix(handled, sent))
  BY HandledFirst
<1> QED
  BY <1>1, PTL

LEMMA LastIsHandle ==
  ASSUME IInv, TakeLast
  PROVE  Messages!Next
<1>1. IInv'
  BY LoopOK DEF Loop
<1>2. Take /\ refused' = refused
  BY DEF TakeLast
<1>3. UNCHANGED sender
  BY <1>2 DEF Take
<1>4. sent' = sent
  BY <1>3 DEF sender
<1>5. CASE refused
  BY <1>2, <1>5 DEF Messages!Next, Messages!Unspecified
<1>6. CASE ~refused
  <2>1. PICK x : handled' = Append(handled, x)
    BY DEF TakeLast
  <2>2. handled \in Seq(Whole) /\ sent \in Seq(Whole) /\ handled' \in Seq(Whole)
    BY <1>1 DEF IInv, TypeOK
  <2>3. Prefix(handled, sent)'
    BY <1>1, <1>2, <1>6, HandledFirstNext
  <2>4. PICK n \in Nat, m \in Nat : n = Len(handled) /\ m = Len(sent)
    BY <2>2
  <2>5. Len(handled') = n + 1 /\ handled'[n + 1] = x
    BY <2>1, <2>2, <2>4
  <2>6. n + 1 <= m /\ \A k \in 1..(n + 1) : handled'[k] = sent[k]
    BY <1>4, <2>3, <2>4, <2>5 DEF Prefix
  <2>7. n < m /\ x = sent[n + 1]
    BY <2>5, <2>6
  <2>8. Messages!Handle
    BY <1>2, <1>4, <1>6, <2>1, <2>4, <2>7 DEF Messages!Handle
  <2> QED
    BY <2>8 DEF Messages!Next
<1> QED
  BY <1>5, <1>6

(* The chunk layer implements the message channel, but for the promise that     *)
(* every message is handled some time: each step of recv_from_client() that     *)
(* reaches handle_message() handles exactly the next message.                  *)
THEOREM ImplementsMessages == Spec => ChannelSafety
<1>1. Init => Messages!Init
  BY DEF Init, Messages!Init
<1>2. IInv /\ [Next]_vars => [Messages!Next]_(Messages!vars)
  <2> SUFFICES ASSUME IInv, [Next]_vars PROVE [Messages!Next]_(Messages!vars)
    OBVIOUS
  <2>1. CASE Send
    BY <2>1, SendIsSend
  <2>2. CASE RefuseHeader
    BY <2>2 DEF RefuseHeader, sender, Messages!Next, Messages!Refuse
  <2>3. CASE TakeLast
    BY <2>3, LastIsHandle
  <2>4. CASE TakeRefused
    BY <2>4 DEF TakeRefused, Take, sender, Messages!Next, Messages!Refuse
  <2>5. CASE Recv \/ NeedHeader \/ NeedPayload \/ LoseTrack \/ UNCHANGED vars
    BY <2>5 DEF Recv, NeedHeader, NeedPayload, LoseTrack, vars, receiver, sender, Messages!vars
  <2>6. CASE TakePart
    BY <2>6 DEF TakePart, Take, sender, Messages!vars
  <2> QED
    BY <2>1, <2>2, <2>3, <2>4, <2>5, <2>6 DEF Next, Loop
<1> QED
  BY <1>1, <1>2, Invariance, PTL DEF Spec, ChannelSafety

=============================================================================
