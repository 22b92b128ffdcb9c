----------------------------- MODULE DmiProofs -----------------------------
(***************************************************************************)
(* Proofs about Dmi, for every finite set of pullers, every packet length    *)
(* and all lengths of frames.                                               *)
(***************************************************************************)
EXTENDS Dmi, Integers, DataLemmas

(* What a request does to opencount once the event loop reads it. *)
Effect(p) == CASE p = Request("PLAYER_OPEN") -> 1
               [] p = Request("PLAYER_CLOSE") -> -1
               [] OTHER -> 0

(* opencount, and what it becomes with each request that waits in down: never       *)
(* less than 0 nor more than there are pullers, and after the last of them the      *)
(* number of pullers the server forwards to.                                     *)
Balanced ==
  \E f \in [0..Len(down) -> 0..Cardinality(Puller)] :
    /\ f[0] = opencount
    /\ \A j \in 1..Len(down) : f[j] = f[j - 1] + Effect(down[j])
    /\ "pusher" \notin hung_up => f[Len(down)] = Cardinality(pulling)

(* Before the event loop runs there is nothing but the response to PUSH. *)
NotYetPlaying ==
  mux \in {"idle", "waiting"} =>
    pulling = {} /\ \A j \in 1..Len(down) : down[j].codec = "response"

PushOK ==
  /\ running \in {0, 1}
  /\ running = 1 => id_pushstreamproc /\ (opencount > 0 \/ mux = "joining")
  /\ mux = "joining" => opencount = 0

(* In the middle of a frame at least one full packet of it has gone out. *)
OffsetOK ==
  /\ frames = <<>> => offset = 0
  /\ frames # <<>> => offset \in 0..frames[Current]
  /\ InFrame => offset = 0 \/ offset >= PacketLength

(* The packet that begins a frame, and the frame it begins. *)
First(p) == p.codec = "frame" /\ p.id = 0
FrameOf(data) == data[1][1]

(* The beginnings of frames a puller has got in g, or will get from the packets s. *)
Data(s, g) == {s[j].data : j \in {i \in 1..Len(s) : First(s[i])}} \union {g[m] : m \in 1..Len(g)}

(* They are of later and later frames. *)
Flow(s, g) ==
  /\ \A j \in 1..Len(s) : s[j].codec = "frame" => s[j].count = 1
  /\ \A j \in 1..Len(s) : First(s[j]) => \A m \in 1..Len(g) : FrameOf(g[m]) < FrameOf(s[j].data)
  /\ \A i, j \in 1..Len(s) : i < j /\ First(s[i]) /\ First(s[j]) => FrameOf(s[i].data) < FrameOf(s[j].data)
  /\ \A l, m \in 1..Len(g) : l < m => FrameOf(g[l]) < FrameOf(g[m])

(* They are of frames the pusher has begun to send. *)
Beginning(data) == \E f \in 1..Len(frames) : \E n \in 1..frames[f] : data = Bytes(f, n)
NewFrame == InFrame /\ offset = 0
Sent(data) == Beginning(data) /\ (NewFrame => FrameOf(data) < Current)

FlowOK == \A k \in Puller : Flow(stream[k], got[k]) /\ \A d \in Data(stream[k], got[k]) : Sent(d)

IInv == TypeOK /\ Balanced /\ NotYetPlaying /\ PushOK /\ OffsetOK /\ FlowOK

-----------------------------------------------------------------------------
(* The number of players.                                                     *)

LEMMA EffectLemma ==
  /\ Effect(Request("PLAYER_OPEN")) = 1
  /\ Effect(Request("PLAYER_CLOSE")) = -1
  /\ Effect(Request("SEEK")) = 0
  /\ \A p : p.codec = "response" => Effect(p) = 0
  /\ \A status : Response(status).codec = "response"
<1>1. Request("PLAYER_CLOSE") # Request("PLAYER_OPEN")
  BY DEF Request
<1>2. Request("SEEK") # Request("PLAYER_OPEN") /\ Request("SEEK") # Request("PLAYER_CLOSE")
  BY DEF Request
<1>3. Request("PLAYER_OPEN").codec = "request" /\ Request("PLAYER_CLOSE").codec = "request"
  BY DEF Request
<1>4. \A status : Response(status).codec = "response"
  BY DEF Response
<1> QED
  BY <1>1, <1>2, <1>3, <1>4 DEF Effect

LEMMA EffectType == \A p : Effect(p) \in {-1, 0, 1}
  BY DEF Effect

(* The count as the event loop will find it, for one request more. *)
LEMMA BalanceAdd ==
  ASSUME TypeOK, Balanced, NEW p, down' = Append(down, p), UNCHANGED <<opencount, hung_up>>,
         "pusher" \notin hung_up,
         Cardinality(pulling') = Cardinality(pulling) + Effect(p),
         Cardinality(pulling') \in 0..Cardinality(Puller)
  PROVE  Balanced'
<1> DEFINE n == Len(down)
<1>1. n \in Nat /\ Len(down') = n + 1 /\ down'[n + 1] = p /\ \A j \in 1..n : down'[j] = down[j]
  BY DEF TypeOK
<1>2. PICK f \in [0..n -> 0..Cardinality(Puller)] :
        /\ f[0] = opencount
        /\ \A j \in 1..n : f[j] = f[j - 1] + Effect(down[j])
        /\ f[n] = Cardinality(pulling)
  BY DEF Balanced
<1> DEFINE g == [j \in 0..(n + 1) |-> IF j = n + 1 THEN Cardinality(pulling') ELSE f[j]]
<1> HIDE DEF n
<1>3. g \in [0..(n + 1) -> 0..Cardinality(Puller)] /\ g[n + 1] = Cardinality(pulling')
      /\ \A j \in 0..n : g[j] = f[j]
  BY <1>1
<1> HIDE DEF g
<1>4. g[0] = opencount'
  BY <1>1, <1>2, <1>3
<1>5. ASSUME NEW j \in 1..(n + 1) PROVE g[j] = g[j - 1] + Effect(down'[j])
  <2>1. CASE j = n + 1
    BY <1>1, <1>2, <1>3, <2>1
  <2>2. CASE j \in 1..n
    <3>1. j - 1 \in 0..n /\ j \in 0..n
      BY <1>1, <2>2
    <3> QED
      BY <1>1, <1>2, <1>3, <2>2, <3>1
  <2> QED
    BY <1>1, <2>1, <2>2
<1>6. Len(down)' = n + 1
  BY <1>1
<1> QED
  BY <1>3, <1>4, <1>5, <1>6 DEF Balanced

(* The event loop reads the first request. *)
LEMMA BalanceTake ==
  ASSUME TypeOK, Balanced, down # <<>>, down' = Tail(down), opencount' = opencount + Effect(Head(down)),
         UNCHANGED <<pulling, hung_up>>
  PROVE  Balanced'
<1> DEFINE n == Len(down) - 1
<1>1. /\ n \in Nat /\ Len(down) = n + 1 /\ Len(down') = n /\ Head(down) = down[1]
      /\ \A j \in 1..n : down'[j] = down[j + 1]
  BY HeadTailProperties DEF TypeOK
<1> HIDE DEF n
<1>2. PICK f \in [0..(n + 1) -> 0..Cardinality(Puller)] :
        /\ f[0] = opencount
        /\ \A j \in 1..(n + 1) : f[j] = f[j - 1] + Effect(down[j])
        /\ "pusher" \notin hung_up => f[n + 1] = Cardinality(pulling)
  BY <1>1 DEF Balanced
<1> DEFINE g == [j \in 0..n |-> f[j + 1]]
<1>3. g \in [0..n -> 0..Cardinality(Puller)] /\ \A j \in 0..n : g[j] = f[j + 1] /\ j + 1 \in 0..(n + 1)
  BY <1>1
<1> HIDE DEF g
<1>4. g[0] = opencount'
  <2>1. f[1] = f[0] + Effect(down[1])
    <3>1. 1 \in 1..(n + 1) /\ 1 - 1 = 0
      BY <1>1
    <3> QED
      BY <1>2, <3>1
  <2>2. g[0] = f[1]
    BY <1>1, <1>3
  <2> QED
    BY <1>1, <1>2, <2>1, <2>2
<1>5. ASSUME NEW j \in 1..n PROVE g[j] = g[j - 1] + Effect(down'[j])
  <2>1. j - 1 \in 0..n /\ (j - 1) + 1 = j /\ j + 1 \in 1..(n + 1) /\ j \in 0..n /\ (j + 1) - 1 = j
    BY <1>1
  <2>2. g[j] = f[j + 1] /\ g[j - 1] = f[j]
    BY <1>3, <2>1
  <2>3. f[j + 1] = f[j] + Effect(down[j + 1])
    BY <1>2, <2>1
  <2> QED
    BY <1>1, <2>2, <2>3
<1>6. "pusher" \notin hung_up' => g[n] = Cardinality(pulling')
  BY <1>1, <1>2, <1>3
<1>7. Len(down)' = n
  BY <1>1
<1> QED
  BY <1>3, <1>4, <1>5, <1>6, <1>7 DEF Balanced

LEMMA BalanceKeep ==
  ASSUME Balanced, UNCHANGED <<down, opencount, pulling, hung_up>>
  PROVE  Balanced'
  BY DEF Balanced

LEMMA BalanceOpencount ==
  ASSUME Balanced, Len(down) \in Nat
  PROVE  opencount \in 0..Cardinality(Puller)
<1>1. 0 \in 0..Len(down)
  OBVIOUS
<1> QED
  BY <1>1 DEF Balanced

LEMMA PullersCounted ==
  ASSUME TypeOK
  PROVE  /\ IsFiniteSet(pulling) /\ Cardinality(pulling) \in 0..Cardinality(Puller)
         /\ \A k \in Puller \ pulling : /\ Cardinality(pulling \union {k}) = Cardinality(pulling) + 1
                                        /\ Cardinality(pulling \union {k}) \in 0..Cardinality(Puller)
         /\ \A k \in pulling : /\ Cardinality(pulling \ {k}) = Cardinality(pulling) - 1
                               /\ Cardinality(pulling \ {k}) \in 0..Cardinality(Puller)
<1>1. IsFiniteSet(Puller) /\ pulling \subseteq Puller
  BY BoundsAssumption DEF TypeOK
<1>2. \A S \in SUBSET Puller : IsFiniteSet(S) /\ Cardinality(S) \in 0..Cardinality(Puller)
  <2> TAKE S \in SUBSET Puller
  <2>1. IsFiniteSet(S) /\ Cardinality(S) <= Cardinality(Puller)
    BY <1>1, FS_Subset
  <2>2. Cardinality(S) \in Nat /\ Cardinality(Puller) \in Nat
    BY <1>1, <2>1, FS_CardinalityType
  <2> QED
    BY <2>1, <2>2
<1>3. ASSUME NEW k \in Puller \ pulling
      PROVE  Cardinality(pulling \union {k}) = Cardinality(pulling) + 1
  BY <1>1, <1>2, FS_AddElement
<1>4. ASSUME NEW k \in pulling
      PROVE  Cardinality(pulling \ {k}) = Cardinality(pulling) - 1
  BY <1>1, <1>2, FS_RemoveElement
<1>5. \A k \in Puller : pulling \union {k} \in SUBSET Puller /\ pulling \ {k} \in SUBSET Puller
  BY <1>1
<1> QED
  BY <1>1, <1>2, <1>3, <1>4, <1>5

(* opencount keeps agreeing with the server's list of pullers. *)
LEMMA BalanceStep ==
  ASSUME TypeOK, Balanced, NotYetPlaying, Next
  PROVE  Balanced' /\ NotYetPlaying'
<1>0. down # <<>> => Head(down) = down[1] /\ 1 \in 1..Len(down)
  BY DEF TypeOK
<1>1. CASE \/ mmux_dmi_pushstream \/ Joined \/ MuxSpins \/ PushThread
           \/ \E k \in Puller : PullThread(k) \/ RefusePull(k) \/ mdemux_dmi_pullstream(k) \/ mdemux_dmi_free(k)
           \/ \E k \in Puller, status \in Status : Report(k, status)
  <2>1. /\ UNCHANGED <<down, opencount, pulling, hung_up>>
        /\ mux' \in {"idle", "waiting"} => mux \in {"idle", "waiting"}
    BY <1>1 DEF mmux_dmi_pushstream, Joined, MuxSpins, PushThread, SendPacket, PushThreadEnds, BrokenPipe,
                StartFrame, ProcessEnds, PullThread, PullAnswered, ReadPacket, DemuxSpins, RefusePull,
                mdemux_dmi_pullstream, mdemux_dmi_free, Report, pusher, push, puller
  <2> QED
    BY <2>1, BalanceKeep DEF NotYetPlaying
<1>2. CASE PushAnswered
  <2>1. down # <<>> /\ down' = Tail(down) /\ UNCHANGED <<opencount, pulling, hung_up>> /\ mux = "waiting"
        /\ mux' \in {"loop", "failed"}
    BY <1>2 DEF PushAnswered
  <2>2. Effect(Head(down)) = 0
    BY <1>0, <2>1, EffectLemma DEF NotYetPlaying
  <2>3. opencount' = opencount + Effect(Head(down))
    BY <2>1, <2>2 DEF TypeOK
  <2> QED
    BY <2>1, <2>3, BalanceTake DEF NotYetPlaying
<1>3. CASE PlayerOpen \/ PlayerClose \/ MuxOther \/ MuxFails
  <2>1. down # <<>> /\ down' = Tail(down) /\ UNCHANGED <<pulling, hung_up>> /\ mux = "loop"
    BY <1>3 DEF PlayerOpen, PlayerClose, MuxOther, MuxFails, EventLoop
  <2>2. mux' \in {"loop", "joining", "failed"}
    BY <1>3, <2>1 DEF PlayerOpen, PlayerClose, MuxOther, MuxFails, ProcessEnds, pusher, StopPush
  <2>3. opencount' = opencount + Effect(Head(down))
    <3>0. opencount \in Int
      BY DEF TypeOK
    <3>1. CASE PlayerOpen
      BY <3>0, <3>1, EffectLemma DEF PlayerOpen, EventLoop
    <3>2. CASE PlayerClose
      BY <3>0, <3>2, EffectLemma DEF PlayerClose, EventLoop
    <3>3. CASE MuxOther
      BY <3>0, <3>3, EffectLemma DEF MuxOther, EventLoop, pusher
    <3>4. CASE MuxFails
      BY <3>0, <3>4, EffectLemma DEF MuxFails, EventLoop
    <3> QED
      BY <1>3, <3>1, <3>2, <3>3, <3>4
  <2> QED
    BY <2>1, <2>2, <2>3, BalanceTake DEF NotYetPlaying
<1>4. ASSUME NEW status \in Status, AnswerPush(status) PROVE Balanced' /\ NotYetPlaying'
  <2>1. down' = Append(down, Response(status)) /\ down' = <<Response(status)>>
        /\ UNCHANGED <<mux, opencount, hung_up, pulling>> /\ "pusher" \notin hung_up /\ mux = "waiting"
    BY <1>4 DEF AnswerPush, pusher
  <2>2. Cardinality(pulling') = Cardinality(pulling) + Effect(Response(status))
        /\ Cardinality(pulling') \in 0..Cardinality(Puller)
    BY <2>1, EffectLemma, PullersCounted
  <2>3. Balanced'
    BY <2>1, <2>2, BalanceAdd
  <2>4. NotYetPlaying'
    BY <2>1, EffectLemma DEF NotYetPlaying
  <2> QED
    BY <2>3, <2>4
<1>5. ASSUME NEW status \in Status, MuxReport(status) PROVE Balanced' /\ NotYetPlaying'
  <2>1. down' = Append(down, Response(status))
        /\ UNCHANGED <<mux, opencount, hung_up, pulling>> /\ "pusher" \notin hung_up /\ mux = "loop"
    BY <1>5 DEF MuxReport, pusher
  <2>2. Cardinality(pulling') = Cardinality(pulling) + Effect(Response(status))
        /\ Cardinality(pulling') \in 0..Cardinality(Puller)
    BY <2>1, EffectLemma, PullersCounted
  <2> QED
    BY <2>1, <2>2, BalanceAdd DEF NotYetPlaying
<1>6. ASSUME NEW k \in Puller, Seek(k) PROVE Balanced' /\ NotYetPlaying'
  <2>1. down' = Append(down, Request("SEEK"))
        /\ UNCHANGED <<mux, opencount, hung_up, pulling>> /\ "pusher" \notin hung_up /\ k \in pulling
    BY <1>6 DEF Seek, pusher, Announce
  <2>2. Cardinality(pulling') = Cardinality(pulling) + Effect(Request("SEEK"))
        /\ Cardinality(pulling') \in 0..Cardinality(Puller)
    BY <2>1, EffectLemma, PullersCounted
  <2> QED
    BY <2>1, <2>2, BalanceAdd DEF NotYetPlaying
<1>7. ASSUME NEW k \in Puller, AcceptPull(k) PROVE Balanced' /\ NotYetPlaying'
  <2>1. down' = Append(down, Request("PLAYER_OPEN"))
        /\ UNCHANGED <<mux, opencount, hung_up>> /\ "pusher" \notin hung_up /\ mux \in {"loop", "joining"}
        /\ pulling' = pulling \union {k} /\ k \in Puller \ pulling
    BY <1>7 DEF AcceptPull, pusher, Announce
  <2>2. Cardinality(pulling') = Cardinality(pulling) + Effect(Request("PLAYER_OPEN"))
        /\ Cardinality(pulling') \in 0..Cardinality(Puller)
    BY <2>1, EffectLemma, PullersCounted
  <2> QED
    BY <2>1, <2>2, BalanceAdd DEF NotYetPlaying
<1>8. ASSUME NEW k \in Puller, EndPull(k) PROVE Balanced' /\ NotYetPlaying'
  <2>1. down' = Append(down, Request("PLAYER_CLOSE"))
        /\ UNCHANGED <<mux, opencount, hung_up>> /\ "pusher" \notin hung_up
        /\ pulling' = pulling \ {k} /\ k \in pulling
    BY <1>8 DEF EndPull, pusher, Announce
  <2>2. Cardinality(pulling') = Cardinality(pulling) + Effect(Request("PLAYER_CLOSE"))
        /\ Cardinality(pulling') \in 0..Cardinality(Puller)
    BY <2>1, EffectLemma, PullersCounted
  <2> QED
    BY <2>1, <2>2, BalanceAdd DEF NotYetPlaying
<1>9. CASE HangUp
  <2>1. "pusher" \in hung_up' /\ pulling' = {} /\ UNCHANGED <<mux, down, opencount>>
    BY <1>9 DEF HangUp, pusher
  <2> QED
    BY <2>1 DEF Balanced, NotYetPlaying
<1> QED
  BY <1>1, <1>2, <1>3, <1>4, <1>5, <1>6, <1>7, <1>8, <1>9
  DEF Next, MainThread, Server, User

(* One push thread at most, and only for a player that is open. *)
LEMMA PushStep ==
  ASSUME TypeOK, PushOK, Next, opencount' \in Nat
  PROVE  PushOK'
<1> USE DEF TypeOK, PushOK
<1>1. CASE PushAnswered \/ mmux_dmi_pushstream
  BY <1>1 DEF PushAnswered, mmux_dmi_pushstream
<1>2. CASE PlayerOpen
  BY <1>2 DEF PlayerOpen, EventLoop
<1>3. CASE PlayerClose
  BY <1>3 DEF PlayerClose, EventLoop, StopPush
<1>4. CASE Joined \/ MuxOther \/ MuxFails \/ MuxSpins
  BY <1>4 DEF Joined, MuxOther, MuxFails, MuxSpins, ProcessEnds, EventLoop, pusher
<1>5. CASE PushThread
  BY <1>5 DEF PushThread, SendPacket, PushThreadEnds, BrokenPipe, StartFrame, ProcessEnds, pusher
<1>6. CASE (\E k \in Puller : PullThread(k)) \/ Server
  <2>1. UNCHANGED pusher
    BY <1>6 DEF PullThread, PullAnswered, ReadPacket, DemuxSpins, Server, HangUp, AnswerPush, MuxReport,
                AcceptPull, RefusePull, EndPull, Seek, Report
  <2> QED
    BY <2>1 DEF pusher
<1>7. CASE \E k \in Puller : mdemux_dmi_pullstream(k) \/ mdemux_dmi_free(k)
  BY <1>7 DEF mdemux_dmi_pullstream, mdemux_dmi_free, pusher
<1> QED
  BY <1>1, <1>2, <1>3, <1>4, <1>5, <1>6, <1>7 DEF Next, MainThread, User

-----------------------------------------------------------------------------
(* The frames.                                                                *)

(* Whatever the length of the frame, every packet says it is the only one. *)
LEMMA OnePacket ==
  ASSUME NEW length \in Nat \ {0}
  PROVE  PacketCount(length) = 1
<1>1. PacketLength \in Nat \ {0}
  BY LengthsPositive
<1>2. /\ length \div PacketLength \in Nat /\ length % PacketLength \in Nat
      /\ ~(length \div PacketLength = 0 /\ length % PacketLength = 0)
  BY <1>1, Division
<1> QED
  BY <1>2 DEF PacketCount

(* The first packet of a frame is the one that begins it. *)
LEMMA IdOfPacket ==
  ASSUME NEW o \in Nat
  PROVE  o \div PacketLength \in Nat /\ (o \div PacketLength = 0 => o < PacketLength)
<1>1. PacketLength \in Nat \ {0}
  BY LengthsPositive
<1> QED
  BY <1>1, Division

LEMMA CurrentFrame ==
  ASSUME TypeOK, frames # <<>>
  PROVE  Current \in 1..Len(frames) /\ frames[Current] \in Nat \ {0} /\ frames[Current] \in FrameLength
<1>1. frames \in Seq(FrameLength)
  BY DEF TypeOK
<1>2. Len(frames) \in 1..Len(frames) /\ frames[Len(frames)] \in FrameLength
  BY <1>1
<1> QED
  BY <1>2, LengthsPositive DEF Current

(* What is left of a frame goes out in packets. *)
LEMMA PayloadLemma ==
  ASSUME NEW rest \in Nat \ {0}
  PROVE  /\ PayloadLength(rest) \in 1..rest
         /\ PayloadLength(rest) < rest => PayloadLength(rest) = PacketLength
  BY LengthsPositive DEF PayloadLength

LEMMA OffsetStep ==
  ASSUME TypeOK, OffsetOK, Next
  PROVE  OffsetOK' /\ offset' \in Nat
<1>1. CASE UNCHANGED push
  BY <1>1 DEF push, OffsetOK, InFrame, Current, TypeOK
<1>2. CASE UNCHANGED frames /\ offset' = Abandoned
  <2>1. CASE InFrame
    <3>1. frames # <<>> /\ offset' = frames[Current]
      BY <1>2, <2>1 DEF InFrame, Abandoned
    <3>2. frames' = frames /\ Current' = Current
      BY <1>2 DEF Current
    <3> QED
      BY <3>1, <3>2, CurrentFrame DEF OffsetOK, InFrame
  <2>2. CASE ~InFrame
    BY <1>2, <2>2 DEF InFrame, Abandoned, OffsetOK, Current, TypeOK
  <2> QED
    BY <2>1, <2>2
<1>3. ASSUME NEW length \in FrameLength, StartFrame(length) PROVE OffsetOK' /\ offset' \in Nat
  <2>1. frames' = Append(frames, length) /\ offset' = 0
    BY <1>3 DEF StartFrame
  <2>2. frames \in Seq(FrameLength)
    BY DEF TypeOK
  <2>3. frames' # <<>> /\ Len(frames') = Len(frames) + 1 /\ frames'[Len(frames')] = length
    BY <2>1, <2>2
  <2>4. Current' = Len(frames') /\ length \in Nat
    BY LengthsPositive DEF Current
  <2> QED
    BY <2>1, <2>3, <2>4 DEF OffsetOK
<1>4. CASE SendPacket
  <2>1. frames # <<>> /\ InFrame /\ offset \in Nat /\ frames' = frames
        /\ offset' = offset + PayloadLength(frames[Current] - offset)
    BY <1>4 DEF SendPacket, InFrame, TypeOK
  <2>2. frames[Current] \in Nat /\ offset < frames[Current]
    BY <2>1, CurrentFrame DEF InFrame
  <2> DEFINE rest == frames[Current] - offset
  <2>3. rest \in Nat \ {0}
    BY <2>1, <2>2
  <2>4. PayloadLength(rest) \in 1..rest /\ (PayloadLength(rest) < rest => PayloadLength(rest) = PacketLength)
    BY <2>3, PayloadLemma
  <2>5. offset' \in 0..frames[Current] /\ (offset' < frames[Current] => offset' >= PacketLength)
    BY <2>1, <2>2, <2>4, LengthsPositive
  <2>6. frames'[Current'] = frames[Current]
    BY <2>1 DEF Current
  <2> QED
    BY <2>1, <2>2, <2>5, <2>6 DEF OffsetOK, InFrame
<1> QED
  BY <1>1, <1>2, <1>3, <1>4
  DEF Next, MainThread, Server, User, PushThread, PullThread, mmux_dmi_pushstream, PushAnswered, PlayerOpen,
      PlayerClose, Joined, MuxOther, MuxFails, MuxSpins, ProcessEnds, PushThreadEnds, BrokenPipe,
      PullAnswered, ReadPacket, DemuxSpins, HangUp, AnswerPush, MuxReport, AcceptPull, RefusePull, EndPull,
      Seek, Report, mdemux_dmi_pullstream, mdemux_dmi_free

(* A packet of one of the streams: its first one is taken off ... *)
LEMMA FlowTail ==
  ASSUME NEW s \in Seq(Packet), NEW g, s # <<>>, Flow(s, g)
  PROVE  Flow(Tail(s), g) /\ Data(Tail(s), g) \subseteq Data(s, g)
<1>1. /\ Len(s) \in Nat /\ Len(Tail(s)) = Len(s) - 1
      /\ \A j \in 1..Len(Tail(s)) : Tail(s)[j] = s[j + 1] /\ j + 1 \in 1..Len(s)
  BY HeadTailProperties
<1>2. Flow(Tail(s), g)
  BY <1>1 DEF Flow
<1> QED
  BY <1>1, <1>2 DEF Data

(* ... and is handed to the frame callback ... *)
LEMMA FlowRead ==
  ASSUME NEW s \in Seq(Packet), NEW g \in Seq(Seq(Byte)), s # <<>>, Flow(s, g), First(Head(s))
  PROVE  /\ Flow(Tail(s), Append(g, Head(s).data))
         /\ Data(Tail(s), Append(g, Head(s).data)) \subseteq Data(s, g)
<1> DEFINE t == Tail(s)
           h == Append(g, Head(s).data)
<1>1. /\ Len(s) \in Nat /\ Len(t) = Len(s) - 1 /\ Head(s) = s[1] /\ 1 \in 1..Len(s)
      /\ \A j \in 1..Len(t) : t[j] = s[j + 1] /\ j + 1 \in 1..Len(s) /\ 1 < j + 1
  BY HeadTailProperties
<1>2. s[1] \in Packet
  BY <1>1
<1>3. s[1].data \in Seq(Byte)
  BY <1>2 DEF Packet
<1>4. /\ Len(g) \in Nat /\ Len(h) = Len(g) + 1 /\ h[Len(g) + 1] = s[1].data
      /\ \A m \in 1..Len(g) : h[m] = g[m]
  BY <1>1, <1>3
<1> HIDE DEF t, h
<1>5. Flow(t, g)
  BY FlowTail DEF t
<1>6. \A m \in 1..Len(h) : m \in 1..Len(g) \/ m = Len(g) + 1
  BY <1>4
<1>7. ASSUME NEW j \in 1..Len(t), First(t[j]), NEW m \in 1..Len(h) PROVE FrameOf(h[m]) < FrameOf(t[j].data)
  <2>1. CASE m \in 1..Len(g)
    BY <1>4, <1>5, <1>7, <2>1 DEF Flow
  <2>2. CASE m = Len(g) + 1
    BY <1>1, <1>4, <1>7, <2>2 DEF Flow
  <2> QED
    BY <1>6, <2>1, <2>2
<1>8. ASSUME NEW l \in 1..Len(h), NEW m \in 1..Len(h), l < m PROVE FrameOf(h[l]) < FrameOf(h[m])
  <2>1. l \in 1..Len(g)
    BY <1>4, <1>8
  <2>2. CASE m \in 1..Len(g)
    BY <1>4, <1>8, <2>1, <2>2 DEF Flow
  <2>3. CASE m = Len(g) + 1
    BY <1>1, <1>4, <2>1, <2>3 DEF Flow
  <2> QED
    BY <1>6, <2>2, <2>3
<1>9. Flow(t, h)
  <2>1. /\ \A j \in 1..Len(t) : t[j].codec = "frame" => t[j].count = 1
        /\ \A i, j \in 1..Len(t) : i < j /\ First(t[i]) /\ First(t[j]) => FrameOf(t[i].data) < FrameOf(t[j].data)
    BY <1>5 DEF Flow
  <2> QED
    BY <2>1, <1>7, <1>8 DEF Flow
<1>10. Data(t, h) \subseteq Data(s, g)
  <2>1. \A m \in 1..Len(h) : h[m] \in Data(s, g)
    BY <1>1, <1>4, <1>6, SMTT(20) DEF Data
  <2>2. \A j \in 1..Len(t) : First(t[j]) => t[j].data \in Data(s, g)
    BY <1>1 DEF Data
  <2> QED
    BY <2>1, <2>2 DEF Data
<1> QED
  BY <1>9, <1>10 DEF t, h

(* ... or one is added that begins no frame ... *)
LEMMA FlowOther ==
  ASSUME NEW s \in Seq(Packet), NEW g, Flow(s, g), NEW p \in Packet, ~First(p),
         p.codec = "frame" => p.count = 1
  PROVE  Flow(Append(s, p), g) /\ Data(Append(s, p), g) \subseteq Data(s, g)
<1> DEFINE t == Append(s, p)
<1>1. /\ Len(s) \in Nat /\ Len(t) = Len(s) + 1 /\ t[Len(s) + 1] = p
      /\ \A j \in 1..Len(t) : (j \in 1..Len(s) /\ t[j] = s[j]) \/ (j = Len(s) + 1 /\ t[j] = p)
  BY AppendElement
<1> HIDE DEF t
<1>2. Flow(t, g)
  BY <1>1 DEF Flow
<1>3. Data(t, g) \subseteq Data(s, g)
  BY <1>1 DEF Data
<1> QED
  BY <1>2, <1>3 DEF t

(* ... or one that begins a frame later than all the others. *)
LEMMA FlowFirst ==
  ASSUME NEW s \in Seq(Packet), NEW g, Flow(s, g), NEW p \in Packet, First(p), p.count = 1,
         \A d \in Data(s, g) : FrameOf(d) < FrameOf(p.data)
  PROVE  Flow(Append(s, p), g) /\ Data(Append(s, p), g) \subseteq Data(s, g) \union {p.data}
<1> DEFINE t == Append(s, p)
<1>1. /\ Len(s) \in Nat /\ Len(t) = Len(s) + 1 /\ t[Len(s) + 1] = p
      /\ \A j \in 1..Len(t) : (j \in 1..Len(s) /\ t[j] = s[j]) \/ (j = Len(s) + 1 /\ t[j] = p)
  BY AppendElement
<1> HIDE DEF t
<1>2. /\ \A j \in 1..Len(s) : First(s[j]) => FrameOf(s[j].data) < FrameOf(p.data)
      /\ \A m \in 1..Len(g) : FrameOf(g[m]) < FrameOf(p.data)
  BY DEF Data
<1>3. Flow(t, g)
  <2>1. \A j \in 1..Len(t) : t[j].codec = "frame" => t[j].count = 1
    BY <1>1 DEF Flow
  <2>2. \A j \in 1..Len(t) : First(t[j]) => \A m \in 1..Len(g) : FrameOf(g[m]) < FrameOf(t[j].data)
    BY <1>1, <1>2 DEF Flow
  <2>3. ASSUME NEW i \in 1..Len(t), NEW j \in 1..Len(t), i < j, First(t[i]), First(t[j])
        PROVE  FrameOf(t[i].data) < FrameOf(t[j].data)
    <3>1. i \in 1..Len(s) /\ t[i] = s[i]
      BY <1>1, <2>3
    <3> QED
      BY <1>1, <1>2, <2>3, <3>1 DEF Flow
  <2> QED
    BY <2>1, <2>2, <2>3 DEF Flow
<1>4. Data(t, g) \subseteq Data(s, g) \union {p.data}
  BY <1>1 DEF Data
<1> QED
  BY <1>3, <1>4 DEF t

(* Frames are only added, and one that is begun stays begun. *)
LEMMA SentStep ==
  ASSUME TypeOK, OffsetOK, Next, NEW d, Sent(d)
  PROVE  Sent(d)'
<1>0. PICK f \in 1..Len(frames) : \E n \in 1..frames[f] : d = Bytes(f, n)
  BY DEF Sent, Beginning
<1>1. PICK n \in 1..frames[f] : d = Bytes(f, n)
  BY <1>0
<1>2. frames \in Seq(FrameLength) /\ Len(frames) \in Nat /\ frames[f] \in Nat
  <2>1. frames \in Seq(FrameLength)
    BY DEF TypeOK
  <2>2. Len(frames) \in Nat /\ frames[f] \in FrameLength
    BY <1>0, <2>1
  <2> QED
    BY <2>1, <2>2, LengthsPositive
<1>3. FrameOf(d) = f
  <2>1. 1 \in 1..n
    BY <1>1, <1>2
  <2> QED
    BY <1>1, <2>1 DEF Bytes, FrameOf
<1>4. CASE UNCHANGED push
  BY <1>4 DEF push, Sent, Beginning, NewFrame, InFrame, Current
<1>5. CASE UNCHANGED frames /\ offset' = Abandoned
  <2>1. Beginning(d)'
    BY <1>5 DEF Sent, Beginning
  <2>2. NewFrame' => NewFrame
    <3>1. CASE InFrame
      <4>1. frames # <<>> /\ offset' = frames[Current]
        BY <1>5, <3>1 DEF InFrame, Abandoned
      <4>2. frames[Current] \in Nat \ {0}
        BY <4>1, CurrentFrame
      <4> QED
        BY <4>1, <4>2 DEF NewFrame
    <3>2. CASE ~InFrame
      BY <1>5, <3>2 DEF InFrame, Abandoned, NewFrame, Current
    <3> QED
      BY <3>1, <3>2
  <2> QED
    BY <1>5, <2>1, <2>2 DEF Sent, Current
<1>6. ASSUME NEW length \in FrameLength, StartFrame(length) PROVE Sent(d)'
  <2>1. frames' = Append(frames, length)
    BY <1>6 DEF StartFrame
  <2>2. f \in 1..Len(frames') /\ frames'[f] = frames[f] /\ Len(frames') = Len(frames) + 1
    BY <1>2, <2>1, AppendElement
  <2>3. Beginning(d)'
    BY <1>1, <2>2 DEF Beginning
  <2>4. FrameOf(d) < Current'
    BY <1>2, <1>3, <2>2 DEF Current
  <2> QED
    BY <2>3, <2>4 DEF Sent
<1>7. CASE SendPacket
  <2>1. frames # <<>> /\ InFrame /\ offset \in Nat /\ frames' = frames
        /\ offset' = offset + PayloadLength(frames[Current] - offset)
    BY <1>7 DEF SendPacket, InFrame, TypeOK
  <2>2. frames[Current] \in Nat /\ offset < frames[Current]
    BY <2>1, CurrentFrame DEF InFrame
  <2>3. PayloadLength(frames[Current] - offset) \in 1..(frames[Current] - offset)
    BY <2>1, <2>2, PayloadLemma, SMTT(20)
  <2>4. ~NewFrame'
    BY <2>1, <2>2, <2>3 DEF NewFrame
  <2> QED
    BY <2>1, <2>4 DEF Sent, Beginning
<1> QED
  BY <1>4, <1>5, <1>6, <1>7
  DEF Next, MainThread, Server, User, PushThread, PullThread, mmux_dmi_pushstream, PushAnswered, PlayerOpen,
      PlayerClose, Joined, MuxOther, MuxFails, MuxSpins, ProcessEnds, PushThreadEnds, BrokenPipe,
      PullAnswered, ReadPacket, DemuxSpins, HangUp, AnswerPush, MuxReport, AcceptPull, RefusePull, EndPull,
      Seek, Report, mdemux_dmi_pullstream, mdemux_dmi_free

LEMMA PacketTypes ==
  /\ \A what \in {"PLAYER_OPEN", "PLAYER_CLOSE", "SEEK"} : Request(what) \in Packet
  /\ \A status \in Status : /\ Response(status) \in Packet /\ ~First(Response(status))
                            /\ Response(status).codec # "frame"
<1>1. <<>> \in Seq(Byte)
  OBVIOUS
<1> QED
  BY <1>1 DEF Request, Response, Packet, Status, First

(* What SendPacket sends, the way that stream' has it. *)
SentPacket == [codec |-> "frame", what |-> "data", id |-> offset \div PacketLength,
               count |-> PacketCount(frames[Current]),
               data |-> [j \in 1..PayloadLength(frames[Current] - offset) |-> <<Current, offset + j>>]]

LEMMA SentPacketLemma ==
  ASSUME TypeOK, OffsetOK, SendPacket
  PROVE  /\ SentPacket \in Packet /\ SentPacket.codec = "frame" /\ SentPacket.count = 1
         /\ First(SentPacket) => /\ NewFrame /\ FrameOf(SentPacket.data) = Current
                                 /\ Beginning(SentPacket.data)
<1>1. frames # <<>> /\ InFrame /\ offset \in Nat
  BY DEF SendPacket, InFrame, TypeOK
<1>2. frames[Current] \in Nat \ {0} /\ offset < frames[Current] /\ Current \in 1..Len(frames) /\ Current \in Nat
  BY <1>1, CurrentFrame DEF InFrame
<1> DEFINE n == PayloadLength(frames[Current] - offset)
<1>3. n \in 1..(frames[Current] - offset)
  BY <1>1, <1>2, PayloadLemma, SMTT(20)
<1>4. n \in Nat \ {0} /\ n <= frames[Current]
  BY <1>1, <1>2, <1>3
<1> DEFINE data == [j \in 1..n |-> <<Current, offset + j>>]
<1>5. SentPacket.data = data /\ SentPacket.id = offset \div PacketLength /\ SentPacket.codec = "frame"
      /\ SentPacket.count = 1
  BY <1>2, OnePacket DEF SentPacket
<1> HIDE DEF n
<1>6. \A j \in 1..n : <<Current, offset + j>> \in Byte
  BY <1>1, <1>2, <1>4 DEF Byte
<1>7. data \in Seq(Byte)
  BY <1>4, <1>6
<1>8. SentPacket \in Packet
  <2>1. offset \div PacketLength \in Nat /\ PacketCount(frames[Current]) \in Nat
    <3>1. offset \div PacketLength \in Nat
      BY <1>1, IdOfPacket
    <3>2. PacketCount(frames[Current]) = 1
      BY <1>2, OnePacket
    <3> QED
      BY <3>1, <3>2
  <2> HIDE DEF data
  <2>2. SentPacket = [codec |-> "frame", what |-> "data", id |-> offset \div PacketLength,
                      count |-> PacketCount(frames[Current]), data |-> data]
    BY DEF SentPacket, data, n
  <2> QED
    BY <1>7, <2>1, <2>2 DEF Packet
<1>9. ASSUME First(SentPacket) PROVE NewFrame /\ FrameOf(data) = Current /\ Beginning(data)
  <2>1. offset < PacketLength
    BY <1>1, <1>5, <1>9, IdOfPacket DEF First
  <2>2. offset = 0
    BY <1>1, <2>1, LengthsPositive DEF OffsetOK
  <2>3. data = Bytes(Current, n)
    BY <1>4, <2>2 DEF Bytes
  <2>4. 1 \in 1..n /\ n \in 1..frames[Current]
    BY <1>2, <1>4
  <2>5. FrameOf(data) = Current
    BY <2>4 DEF FrameOf
  <2>6. Beginning(data)
    BY <1>2, <2>3, <2>4 DEF Beginning
  <2> QED
    BY <1>1, <2>2, <2>5, <2>6 DEF NewFrame
<1> QED
  BY <1>5, <1>8, <1>9

(* What each puller gets stays in order. *)
LEMMA FlowStep ==
  ASSUME TypeOK, OffsetOK, FlowOK, Next
  PROVE  FlowOK'
<1> SUFFICES ASSUME NEW k \in Puller
             PROVE  Flow(stream'[k], got'[k]) /\ \A d \in Data(stream'[k], got'[k]) : Sent(d)'
  BY DEF FlowOK
<1>1. PICK s \in Seq(Packet), g \in Seq(Seq(Byte)) : s = stream[k] /\ g = got[k]
  BY DEF TypeOK
<1>2. Flow(s, g) /\ \A d \in Data(s, g) : Sent(d) /\ Sent(d)'
  BY <1>1, SentStep DEF FlowOK
<1>3. CASE stream'[k] = s /\ got'[k] = g
  BY <1>2, <1>3
<1>4. CASE s # <<>> /\ stream'[k] = Tail(s) /\ got'[k] = g
  BY <1>2, <1>4, FlowTail
<1>5. CASE s # <<>> /\ stream'[k] = Tail(s) /\ got'[k] = Append(g, Head(s).data) /\ First(Head(s))
  BY <1>2, <1>5, FlowRead
<1>6. CASE stream'[k] = <<>> /\ got'[k] = g
  <2>1. Flow(<<>>, g) /\ Data(<<>>, g) \subseteq Data(s, g)
    BY <1>2 DEF Flow, Data
  <2> QED
    BY <1>2, <1>6, <2>1
<1>7. ASSUME NEW status \in Status, stream'[k] = Append(s, Response(status)), got'[k] = g
      PROVE  Flow(stream'[k], got'[k]) /\ \A d \in Data(stream'[k], got'[k]) : Sent(d)'
  <2>1. Response(status) \in Packet /\ ~First(Response(status)) /\ Response(status).codec # "frame"
    BY PacketTypes
  <2>2. Flow(Append(s, Response(status)), g) /\ Data(Append(s, Response(status)), g) \subseteq Data(s, g)
    BY <1>2, <2>1, FlowOther
  <2> QED
    BY <1>2, <1>7, <2>2
<1>8. CASE SendPacket
  <2>1. got' = got /\ stream'[k] \in {s, Append(s, SentPacket)}
    BY <1>1, <1>8 DEF SendPacket, SentPacket, puller
  <2>2. /\ SentPacket \in Packet /\ SentPacket.codec = "frame" /\ SentPacket.count = 1
        /\ First(SentPacket) => /\ NewFrame /\ FrameOf(SentPacket.data) = Current
                                /\ Beginning(SentPacket.data)
    BY <1>8, SentPacketLemma
  <2>3. PICK p \in Packet : p = SentPacket
    BY <2>2
  <2>4. PICK c : c = Current
    OBVIOUS
  <2>5. CASE stream'[k] = s
    BY <1>1, <1>3, <2>1, <2>5
  <2>6. CASE stream'[k] = Append(s, p) /\ ~First(p)
    <3>1. Flow(Append(s, p), g) /\ Data(Append(s, p), g) \subseteq Data(s, g)
      BY <1>2, <2>2, <2>3, <2>6, FlowOther
    <3> QED
      BY <1>1, <1>2, <2>1, <2>6, <3>1
  <2>7. CASE stream'[k] = Append(s, p) /\ First(p)
    <3>1. p.count = 1 /\ NewFrame /\ FrameOf(p.data) = Current /\ Beginning(p.data)
      BY <2>2, <2>3, <2>7
    <3>2. \A d \in Data(s, g) : FrameOf(d) < FrameOf(p.data)
      BY <1>2, <3>1 DEF Sent
    <3>3. Flow(Append(s, p), g) /\ Data(Append(s, p), g) \subseteq Data(s, g) \union {p.data}
      BY <1>2, <2>7, <3>1, <3>2, FlowFirst
    <3>4. Beginning(p.data)' /\ ~NewFrame'
      <4>1. frames # <<>> /\ InFrame /\ offset \in Nat /\ frames' = frames
            /\ offset' = offset + PayloadLength(frames[Current] - offset)
        BY <1>8 DEF SendPacket, InFrame, TypeOK
      <4>2. frames[Current] \in Nat /\ offset < frames[Current]
        BY <4>1, CurrentFrame DEF InFrame
      <4>3. PayloadLength(frames[Current] - offset) \in 1..(frames[Current] - offset)
        BY <4>1, <4>2, PayloadLemma
      <4> QED
        BY <3>1, <4>1, <4>2, <4>3 DEF NewFrame, Beginning
    <3>5. Sent(p.data)'
      BY <3>4 DEF Sent
    <3> QED
      BY <1>1, <1>2, <2>1, <2>7, <3>3, <3>5
  <2> QED
    BY <2>1, <2>3, <2>5, <2>6, <2>7
<1>9. ASSUME NEW i \in Puller, PullThread(i) \/ RefusePull(i) \/ AcceptPull(i) \/ mdemux_dmi_free(i)
             \/ \E status \in Status : Report(i, status)
      PROVE  Flow(stream'[k], got'[k]) /\ \A d \in Data(stream'[k], got'[k]) : Sent(d)'
  <2>1. stream \in [Puller -> Seq(Packet)] /\ got \in [Puller -> Seq(Seq(Byte))]
    BY DEF TypeOK
  <2>2. CASE i # k
    <3>1. stream'[k] = s /\ got'[k] = g
      BY <1>1, <1>9, <2>1, <2>2 DEF PullThread, PullAnswered, ReadPacket, DemuxSpins, RefusePull, AcceptPull,
                                    mdemux_dmi_free, Report, puller
    <3> QED
      BY <1>3, <3>1
  <2>3. CASE i = k /\ PullAnswered(k)
    <3>1. s # <<>> /\ stream'[k] = Tail(s) /\ got'[k] = g
      BY <1>1, <2>1, <2>3 DEF PullAnswered
    <3> QED
      BY <1>4, <3>1
  <2>4. CASE i = k /\ ReadPacket(k)
    <3>1. s # <<>> /\ stream'[k] = Tail(s)
          /\ got'[k] = IF Head(s).id + 1 = Head(s).count /\ Head(s).codec = "frame"
                         THEN Append(g, Collected(k, Head(s))) ELSE g
      BY <1>1, <2>1, <2>4 DEF ReadPacket
    <3>2. CASE got'[k] = g
      BY <1>4, <3>1, <3>2
    <3>3. CASE Head(s).id + 1 = Head(s).count /\ Head(s).codec = "frame"
      <4>1. Head(s) = s[1] /\ 1 \in 1..Len(s) /\ s[1] \in Packet
        BY <3>1
      <4>2. s[1].id \in Nat /\ s[1].count = 1 /\ s[1].data \in Seq(Byte)
        BY <1>2, <3>3, <4>1 DEF Flow, Packet
      <4>3. s[1].id = 0
        BY <3>3, <4>1, <4>2
      <4>4. First(Head(s))
        BY <3>3, <4>1, <4>3 DEF First
      <4>5. Collected(k, Head(s)) = Head(s).data
        BY <4>1, <4>2, <4>3, ConcatEmptySeq DEF Collected
      <4> QED
        BY <1>5, <3>1, <3>3, <4>4, <4>5
    <3> QED
      BY <3>1, <3>2, <3>3
  <2>5. CASE i = k /\ DemuxSpins(k)
    BY <1>1, <1>3, <2>5 DEF DemuxSpins
  <2>6. CASE i = k /\ mdemux_dmi_free(k)
    <3>1. stream'[k] = <<>> /\ got'[k] = g
      BY <1>1, <2>1, <2>6 DEF mdemux_dmi_free
    <3> QED
      BY <1>6, <3>1
  <2>7. CASE i = k /\ (RefusePull(k) \/ AcceptPull(k))
    <3>1. PICK status \in Status : s = <<>> /\ stream'[k] = <<Response(status)>> /\ got'[k] = g
      BY <1>1, <2>1, <2>7 DEF RefusePull, AcceptPull, puller, Status
    <3>2. <<Response(status)>> = Append(<<>>, Response(status))
      OBVIOUS
    <3> QED
      BY <1>7, <3>1, <3>2
  <2>8. CASE i = k /\ \E status \in Status : Report(k, status)
    <3>1. PICK status \in Status : stream'[k] = Append(s, Response(status)) /\ got'[k] = g
      BY <1>1, <2>1, <2>8 DEF Report, puller
    <3> QED
      BY <1>7, <3>1
  <2> QED
    BY <1>9, <2>2, <2>3, <2>4, <2>5, <2>6, <2>7, <2>8 DEF PullThread
<1>10. CASE UNCHANGED <<stream, got>>
  BY <1>1, <1>3, <1>10
<1> QED
  BY <1>8, <1>9, <1>10
  DEF Next, MainThread, Server, User, PushThread, mmux_dmi_pushstream, PushAnswered, PlayerOpen,
      PlayerClose, Joined, MuxOther, MuxFails, MuxSpins, PushThreadEnds, BrokenPipe, StartFrame, puller,
      HangUp, AnswerPush, MuxReport, EndPull, Seek, mdemux_dmi_pullstream

-----------------------------------------------------------------------------
(* Types.                                                                     *)

LEMMA DownType ==
  ASSUME TypeOK, Next
  PROVE  down' \in Seq(Packet)
<1> USE DEF TypeOK
<1>1. CASE UNCHANGED down
  BY <1>1
<1>2. CASE down # <<>> /\ down' = Tail(down)
  <2>1. down \in Seq(Packet)
    OBVIOUS
  <2> QED
    BY <1>2, <2>1
<1>3. ASSUME NEW p \in Packet, down' = Append(down, p) \/ down' = <<p>> PROVE down' \in Seq(Packet)
  <2>1. down \in Seq(Packet)
    OBVIOUS
  <2>2. Append(down, p) \in Seq(Packet) /\ <<p>> \in Seq(Packet)
    BY <2>1
  <2> QED
    BY <1>3, <2>2
<1>4. ASSUME NEW status \in Status, AnswerPush(status) \/ MuxReport(status) PROVE down' \in Seq(Packet)
  BY <1>3, <1>4, PacketTypes DEF AnswerPush, MuxReport
<1>5. ASSUME NEW k \in Puller, AcceptPull(k) \/ EndPull(k) \/ Seek(k) PROVE down' \in Seq(Packet)
  BY <1>3, <1>5, PacketTypes DEF AcceptPull, EndPull, Seek, Announce
<1> QED
  BY <1>1, <1>2, <1>4, <1>5
  DEF Next, MainThread, Server, User, PushThread, PullThread, mmux_dmi_pushstream, PushAnswered, PlayerOpen,
      PlayerClose, Joined, MuxOther, MuxFails, MuxSpins, PushThreadEnds, BrokenPipe, StartFrame, SendPacket,
      PullAnswered, ReadPacket, DemuxSpins, HangUp, RefusePull, Report, mdemux_dmi_pullstream,
      mdemux_dmi_free, EventLoop

LEMMA PullType ==
  ASSUME TypeOK, OffsetOK, Next
  PROVE  /\ demux' \in [Puller -> DemuxState] /\ stream' \in [Puller -> Seq(Packet)]
         /\ framebuffer' \in [Puller -> Seq(Byte)] /\ got' \in [Puller -> Seq(Seq(Byte))]
<1>0. /\ demux \in [Puller -> DemuxState] /\ stream \in [Puller -> Seq(Packet)]
      /\ framebuffer \in [Puller -> Seq(Byte)] /\ got \in [Puller -> Seq(Seq(Byte))]
  BY DEF TypeOK
<1>1. CASE UNCHANGED <<puller, stream>>
  BY <1>0, <1>1 DEF puller
<1>2. CASE SendPacket
  <2>1. SentPacket \in Packet
    BY <1>2, SentPacketLemma
  <2>2. UNCHANGED puller
        /\ stream' = [k \in Puller |-> IF k \in pulling THEN Append(stream[k], SentPacket) ELSE stream[k]]
    BY <1>2 DEF SendPacket, SentPacket
  <2>3. \A k \in Puller : Append(stream[k], SentPacket) \in Seq(Packet)
    BY <1>0, <2>1
  <2> QED
    BY <1>0, <2>2, <2>3 DEF puller
<1>3. ASSUME NEW k \in Puller,
             mdemux_dmi_pullstream(k) \/ DemuxSpins(k) \/ mdemux_dmi_free(k) \/ RefusePull(k) \/ AcceptPull(k)
               \/ \E status \in Status : Report(k, status)
      PROVE  /\ demux' \in [Puller -> DemuxState] /\ stream' \in [Puller -> Seq(Packet)]
             /\ framebuffer' \in [Puller -> Seq(Byte)] /\ got' \in [Puller -> Seq(Seq(Byte))]
  <2>1. UNCHANGED <<framebuffer, got>>
        /\ (UNCHANGED demux \/ \E x \in DemuxState : demux' = [demux EXCEPT ![k] = x])
    BY <1>3 DEF mdemux_dmi_pullstream, DemuxSpins, mdemux_dmi_free, RefusePull, AcceptPull, Report, puller,
                DemuxState
  <2>2. UNCHANGED stream \/ \E x \in Seq(Packet) : stream' = [stream EXCEPT ![k] = x]
    <3>1. \A status \in Status : Response(status) \in Packet
      BY PacketTypes
    <3>2. \A status \in Status : /\ <<Response(status)>> \in Seq(Packet)
                                 /\ Append(stream[k], Response(status)) \in Seq(Packet)
      BY <1>0, <3>1
    <3>3. "200" \in Status /\ "error" \in Status /\ <<>> \in Seq(Packet)
      BY DEF Status
    <3> QED
      BY <1>3, <3>2, <3>3 DEF mdemux_dmi_pullstream, DemuxSpins, mdemux_dmi_free, RefusePull, AcceptPull, Report
  <2> QED
    BY <1>0, <2>1, <2>2
<1>4. ASSUME NEW k \in Puller, PullAnswered(k) \/ ReadPacket(k)
      PROVE  /\ demux' \in [Puller -> DemuxState] /\ stream' \in [Puller -> Seq(Packet)]
             /\ framebuffer' \in [Puller -> Seq(Byte)] /\ got' \in [Puller -> Seq(Seq(Byte))]
  <2>1. stream[k] \in Seq(Packet) /\ stream[k] # <<>>
    BY <1>0, <1>4 DEF PullAnswered, ReadPacket
  <2>2. Head(stream[k]) \in Packet /\ Tail(stream[k]) \in Seq(Packet)
    BY <2>1
  <2>3. Head(stream[k]).data \in Seq(Byte)
    BY <2>2 DEF Packet
  <2>4. Collected(k, Head(stream[k])) \in Seq(Byte)
    <3>1. <<>> \in Seq(Byte) /\ framebuffer[k] \in Seq(Byte)
      BY <1>0
    <3> QED
      BY <2>3, <3>1, ConcatProperties DEF Collected
  <2>5. stream' = [stream EXCEPT ![k] = Tail(stream[k])]
    BY <1>0, <1>4 DEF PullAnswered, ReadPacket
  <2>6. \E x \in Seq(Byte) : framebuffer' = [framebuffer EXCEPT ![k] = x]
    BY <1>4, <2>3, <2>4 DEF PullAnswered, ReadPacket
  <2>7. \E x \in DemuxState : demux' = [demux EXCEPT ![k] = x]
    BY <1>0, <1>4 DEF PullAnswered, ReadPacket, DemuxState
  <2>8. UNCHANGED got \/ \E x \in Seq(Seq(Byte)) : got' = [got EXCEPT ![k] = x]
    <3>1. got[k] \in Seq(Seq(Byte)) /\ Append(got[k], Collected(k, Head(stream[k]))) \in Seq(Seq(Byte))
      BY <1>0, <2>4
    <3> QED
      BY <1>0, <1>4, <3>1 DEF PullAnswered, ReadPacket
  <2> QED
    BY <1>0, <2>2, <2>5, <2>6, <2>7, <2>8
<1> QED
  BY <1>1, <1>2, <1>3, <1>4
  DEF Next, MainThread, Server, User, PushThread, PullThread, mmux_dmi_pushstream, PushAnswered, PlayerOpen,
      PlayerClose, Joined, MuxOther, MuxFails, MuxSpins, PushThreadEnds, BrokenPipe, StartFrame, HangUp,
      AnswerPush, MuxReport, EndPull, Seek

LEMMA PusherType ==
  ASSUME TypeOK, PushOK, Next
  PROVE  /\ mux' \in MuxState /\ id_pushstreamproc' \in BOOLEAN /\ cancel' \in BOOLEAN
         /\ running' \in Nat /\ frames' \in Seq(FrameLength)
<1>0. /\ mux \in MuxState /\ id_pushstreamproc \in BOOLEAN /\ cancel \in BOOLEAN
      /\ running \in Nat /\ running \in {0, 1} /\ frames \in Seq(FrameLength)
  BY DEF TypeOK, PushOK
<1>1. \A x \in {"waiting", "loop", "joining", "spin", "failed"} : x \in MuxState
  BY DEF MuxState
<1>2. CASE mmux_dmi_pushstream \/ PushAnswered
  BY <1>0, <1>1, <1>2 DEF mmux_dmi_pushstream, PushAnswered, push
<1>3. CASE PlayerOpen
  <2>1. UNCHANGED <<mux, frames>> /\ running' \in {running, running + 1}
        /\ (id_pushstreamproc' = TRUE \/ UNCHANGED id_pushstreamproc) /\ (cancel' = FALSE \/ UNCHANGED cancel)
    BY <1>3 DEF PlayerOpen, push
  <2>2. running' \in Nat
    BY <1>0, <2>1
  <2>3. id_pushstreamproc' \in BOOLEAN /\ cancel' \in BOOLEAN
    BY <1>0, <2>1, Zenon
  <2> QED
    BY <1>0, <2>1, <2>2, <2>3
<1>4. CASE PlayerClose
  <2>1. UNCHANGED <<id_pushstreamproc, running, frames>> /\ (mux' = "joining" \/ UNCHANGED mux)
        /\ (cancel' = TRUE \/ UNCHANGED cancel)
    BY <1>4 DEF PlayerClose, StopPush, push
  <2> QED
    BY <1>0, <1>1, <2>1
<1>5. CASE Joined \/ MuxSpins
  BY <1>0, <1>1, <1>5 DEF Joined, MuxSpins, push
<1>6. CASE MuxFails \/ BrokenPipe
  BY <1>0, <1>1, <1>6 DEF MuxFails, BrokenPipe, ProcessEnds
<1>7. CASE PushThreadEnds
  <2>1. running > 0 /\ running' = running - 1 /\ UNCHANGED <<mux, id_pushstreamproc, cancel, frames>>
    BY <1>7 DEF PushThreadEnds
  <2> QED
    BY <1>0, <2>1
<1>8. ASSUME NEW length \in FrameLength, StartFrame(length)
      PROVE  UNCHANGED pusher /\ frames' \in Seq(FrameLength)
  BY <1>0, <1>8 DEF StartFrame
<1>9. CASE UNCHANGED pusher /\ frames' \in Seq(FrameLength)
  BY <1>0, <1>9 DEF pusher
<1>10. CASE UNCHANGED <<pusher, frames>>
  BY <1>0, <1>10 DEF pusher
<1> QED
  BY <1>2, <1>3, <1>4, <1>5, <1>6, <1>7, <1>8, <1>9, <1>10
  DEF Next, MainThread, Server, User, PushThread, PullThread, PullAnswered, ReadPacket, DemuxSpins, HangUp,
      AnswerPush, MuxReport, AcceptPull, RefusePull, EndPull, Seek, Report, mdemux_dmi_pullstream,
      mdemux_dmi_free, push, SendPacket, MuxOther

LEMMA ServerType ==
  ASSUME TypeOK, Next
  PROVE  /\ pulling' \subseteq Puller /\ hung_up' \subseteq Puller \union {"pusher"}
         /\ control' \in 0..MaxControl
<1> USE BoundsAssumption DEF TypeOK
<1>1. CASE UNCHANGED <<pulling, hung_up, control>>
  BY <1>1
<1>2. CASE HangUp
  BY <1>2 DEF HangUp
<1>3. ASSUME NEW k \in Puller, AcceptPull(k) \/ EndPull(k)
      PROVE  pulling' \subseteq Puller /\ UNCHANGED <<hung_up, control>>
  BY <1>3 DEF AcceptPull, EndPull
<1>4. ASSUME control < MaxControl, control' = control + 1 PROVE control' \in 0..MaxControl
  BY <1>4
<1>5. ASSUME NEW k \in Puller, Seek(k) \/ \E status \in Status : Report(k, status)
      PROVE  control' \in 0..MaxControl /\ UNCHANGED <<pulling, hung_up>>
  BY <1>4, <1>5 DEF Seek, Report
<1>6. ASSUME NEW status \in Status, MuxReport(status)
      PROVE  control' \in 0..MaxControl /\ UNCHANGED <<pulling, hung_up>>
  BY <1>4, <1>6 DEF MuxReport
<1> QED
  BY <1>1, <1>2, <1>3, <1>5, <1>6
  DEF Next, MainThread, Server, User, PushThread, PullThread, mmux_dmi_pushstream, PushAnswered, PlayerOpen,
      PlayerClose, Joined, MuxOther, MuxFails, MuxSpins, PushThreadEnds, BrokenPipe, StartFrame, SendPacket,
      PullAnswered, ReadPacket, DemuxSpins, RefusePull, AnswerPush, mdemux_dmi_pullstream, mdemux_dmi_free

-----------------------------------------------------------------------------

LEMMA InitIInv == Init => IInv
<1> SUFFICES ASSUME Init PROVE IInv
  OBVIOUS
<1>1. Cardinality(Puller) \in Nat /\ Cardinality({}) = 0
  BY BoundsAssumption, FS_CardinalityType, FS_EmptySet
<1>2. TypeOK
  <2>1. mux \in MuxState /\ opencount \in 0..Cardinality(Puller) /\ running \in Nat /\ offset \in Nat
        /\ control \in 0..MaxControl
    BY <1>1, BoundsAssumption DEF Init, MuxState
  <2>0. id_pushstreamproc \in BOOLEAN /\ cancel \in BOOLEAN
    BY DEF Init
  <2>2. frames \in Seq(FrameLength) /\ down \in Seq(Packet)
    BY DEF Init
  <2>3. \A S : [k \in Puller |-> <<>>] \in [Puller -> Seq(S)]
    OBVIOUS
  <2>4. /\ demux \in [Puller -> DemuxState] /\ stream \in [Puller -> Seq(Packet)]
        /\ framebuffer \in [Puller -> Seq(Byte)] /\ got \in [Puller -> Seq(Seq(Byte))]
    BY <2>3 DEF Init, DemuxState
  <2>5. pulling \subseteq Puller /\ hung_up \subseteq Puller \union {"pusher"}
    BY DEF Init
  <2> QED
    BY <2>0, <2>1, <2>2, <2>4, <2>5 DEF TypeOK
<1>3. Balanced
  <2> DEFINE f == [j \in {0} |-> 0]
  <2>1. down = <<>> /\ Len(down) = 0 /\ opencount = 0 /\ pulling = {}
    BY DEF Init
  <2>2. 0..Len(down) = {0} /\ 1..Len(down) = {}
    BY <2>1
  <2>3. f \in [0..Len(down) -> 0..Cardinality(Puller)] /\ f[0] = opencount
        /\ f[Len(down)] = Cardinality(pulling)
    BY <1>1, <2>1, <2>2
  <2> HIDE DEF f
  <2> QED
    BY <2>2, <2>3 DEF Balanced
<1>4. NotYetPlaying /\ PushOK /\ OffsetOK
  BY DEF Init, NotYetPlaying, PushOK, OffsetOK, InFrame
<1>5. FlowOK
  <2> SUFFICES ASSUME NEW k \in Puller PROVE Flow(<<>>, <<>>) /\ Data(<<>>, <<>>) = {}
    BY DEF Init, FlowOK
  <2> QED
    BY DEF Flow, Data
<1> QED
  BY <1>2, <1>3, <1>4, <1>5 DEF IInv

LEMMA NextIInv == IInv /\ [Next]_vars => IInv'
<1> SUFFICES ASSUME IInv, [Next]_vars PROVE IInv'
  OBVIOUS
<1> USE DEF IInv
<1>1. CASE UNCHANGED vars
  <2>1. UNCHANGED <<mux, opencount, id_pushstreamproc, running, cancel, frames, offset, down, demux, stream,
                    framebuffer, got, pulling, hung_up, control>>
    BY <1>1 DEF vars, pusher, push, puller
  <2>2. TypeOK' /\ NotYetPlaying' /\ PushOK'
    BY <2>1 DEF TypeOK, NotYetPlaying, PushOK
  <2>3. Balanced'
    BY <2>1, BalanceKeep
  <2>4. OffsetOK' /\ FlowOK'
    BY <2>1 DEF OffsetOK, FlowOK, Sent, Beginning, NewFrame, InFrame, Current
  <2> QED
    BY <2>2, <2>3, <2>4
<1>2. CASE Next
  <2>1. Balanced' /\ NotYetPlaying'
    BY <1>2, BalanceStep
  <2>2. down' \in Seq(Packet)
    BY <1>2, DownType
  <2>3. opencount' \in 0..Cardinality(Puller)
    <3>1. Len(down') \in Nat
      BY <2>2
    <3>2. 0 \in 0..Len(down')
      BY <3>1
    <3> QED
      BY <2>1, <3>2 DEF Balanced
  <2>4. OffsetOK' /\ offset' \in Nat
    BY <1>2, OffsetStep
  <2>5. TypeOK'
    BY <1>2, <2>2, <2>3, <2>4, PullType, PusherType, ServerType DEF TypeOK
  <2>6. PushOK'
    BY <1>2, <2>3, PushStep
  <2>7. FlowOK'
    BY <1>2, FlowStep
  <2> QED
    BY <2>1, <2>4, <2>5, <2>6, <2>7
<1> QED
  BY <1>1, <1>2

(* The inductive invariant: the sockets carry what the threads have written and the     *)
(* peers have yet to read, and only one thread writes frames.                        *)
THEOREM Invariance == Spec => []IInv
  BY InitIInv, NextIInv, PTL DEF Spec

(* The types, and in them that opencount, which the callbacks of the pusher count     *)
(* from the requests they are called for, never exceeds the number of pullers and     *)
(* never falls below 0.                                                          *)
THEOREM TypeCorrect == Spec => []TypeOK
  BY Invariance, PTL DEF IInv

(* The player callbacks never start a second push thread while the first one runs,     *)
(* and the thread runs only while a player is open or it is being joined.          *)
THEOREM OneThread == Spec => []OnePushThread
<1>1. IInv => OnePushThread
  BY DEF IInv, TypeOK, PushOK, OnePushThread
<1> QED
  BY <1>1, Invariance, PTL

(* Whatever is cancelled, freed, refused or closed between two packets, the frame      *)
(* callback of a puller is given the beginning of a frame that was sent, and of later   *)
(* and later frames.                                                            *)
THEOREM FramesApart == Spec => []FramesNotMixed
<1>1. IInv => FramesNotMixed
  <2> SUFFICES ASSUME IInv, NEW k \in Puller
               PROVE  /\ \A m \in 1..Len(got[k]) :
                           \E f \in 1..Len(frames) : \E n \in 1..frames[f] : got[k][m] = Bytes(f, n)
                      /\ \A m \in 2..Len(got[k]) : got[k][m - 1][1][1] < got[k][m][1][1]
    BY DEF FramesNotMixed
  <2>1. \A m \in 1..Len(got[k]) : got[k][m] \in Data(stream[k], got[k])
    BY DEF Data
  <2>2. \A m \in 1..Len(got[k]) : Beginning(got[k][m])
    BY <2>1 DEF IInv, FlowOK, Sent
  <2>3. Len(got[k]) \in Nat
    BY DEF IInv, TypeOK
  <2>4. \A m \in 2..Len(got[k]) : m - 1 \in 1..Len(got[k]) /\ m \in 1..Len(got[k]) /\ m - 1 < m
    BY <2>3
  <2>5. \A m \in 2..Len(got[k]) : FrameOf(got[k][m - 1]) < FrameOf(got[k][m])
    BY <2>4 DEF IInv, FlowOK, Flow
  <2> QED
    BY <2>2, <2>5 DEF Beginning, FrameOf
<1> QED
  BY <1>1, Invariance, PTL

=============================================================================
