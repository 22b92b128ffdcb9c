-------------------------- MODULE RtmpRelayProofs --------------------------
(***************************************************************************)
(* Proofs about RtmpRelay, for every set of clients.  The invariant IInv is *)
(* split along what a step can disturb: the types (TypeStep), the poll      *)
(* table and the place of the loop in it (ControlStep), and what the flags  *)
(* say about the stream (StreamStep).                                       *)
(***************************************************************************)
EXTENDS RtmpRelay, DataLemmas

(* The entries of poll_table. *)
Entry == [fd : Client \union {NULL}, revents : SUBSET Event]

(* A function on 1..n is a sequence of length n. *)
LEMMA TupleLemma ==
  ASSUME NEW S, NEW n \in Nat, NEW f \in [1..n -> S]
  PROVE  f \in Seq(S) /\ Len(f) = n
  OBVIOUS

(* The fields of an entry of poll_table have their types. *)
LEMMA EntryLemma ==
  ASSUME poll_table \in Seq(Entry), NEW j \in 1..Len(poll_table)
  PROVE  poll_table[j].fd \in Client \union {NULL} /\ poll_table[j].revents \in SUBSET Event
<1>1. poll_table[j] \in Entry
  OBVIOUS
<1> QED
  BY <1>1 DEF Entry

(* Serving an event changes the revents of entry i and nothing else. *)
LEMMA UnservedLemma ==
  ASSUME NEW e, poll_table \in Seq(Entry), i \in 1..Len(poll_table)
  PROVE  /\ Unserved(e) \in Seq(Entry)
         /\ Len(Unserved(e)) = Len(poll_table)
         /\ \A j \in 1..Len(poll_table) :
              /\ Unserved(e)[j].fd = poll_table[j].fd
              /\ Unserved(e)[j].revents = IF j = i THEN poll_table[j].revents \ {e}
                                                   ELSE poll_table[j].revents
<1> DEFINE new == [poll_table[i] EXCEPT !.revents = @ \ {e}]
<1>1. poll_table[i] \in Entry
  OBVIOUS
<1>2. /\ new \in Entry
      /\ new.fd = poll_table[i].fd
      /\ new.revents = poll_table[i].revents \ {e}
  BY <1>1 DEF Entry
<1>3. Unserved(e) = [poll_table EXCEPT ![i] = new]
  BY DEF Unserved
<1> HIDE DEF new
<1>4. /\ [poll_table EXCEPT ![i] = new] \in Seq(Entry)
      /\ Len([poll_table EXCEPT ![i] = new]) = Len(poll_table)
  BY <1>2
<1>5. \A j \in 1..Len(poll_table) :
        [poll_table EXCEPT ![i] = new][j] = IF j = i THEN new ELSE poll_table[j]
  OBVIOUS
<1>6. \A j \in 1..Len(poll_table) :
        /\ Unserved(e)[j].fd = poll_table[j].fd
        /\ Unserved(e)[j].revents = IF j = i THEN poll_table[j].revents \ {e}
                                             ELSE poll_table[j].revents
  BY <1>2, <1>3, <1>5
<1> QED
  BY <1>3, <1>4, <1>6

-----------------------------------------------------------------------------
(* What the invariant says of the entry the loop stands at. *)
LEMMA AtEntry ==
  ASSUME TypeOK, TableAligned, PhaseOK, PassOK, i <= Len(poll_table)
  PROVE  /\ i \in 1..Len(poll_table) /\ i \in 1..Len(clients)
         /\ poll_table \in Seq(Entry)
         /\ poll_table[i].fd = clients[i]
         /\ clients[i] # NULL => clients[i] \in Client /\ clients[i] \in Live /\ i # 1
         /\ "OUT" \in poll_table[i].revents => clients[i] # NULL
  BY NULLAssumption DEF TypeOK, TableAligned, PhaseOK, PassOK, Entry, Live

(* rtmp_send keeps the type of the send queues. *)
LEMMA SendType ==
  ASSUME NEW R, queued \in [Client -> BOOLEAN], rtmp_send(R)
  PROVE  queued' \in [Client -> BOOLEAN]
  BY DEF rtmp_send

(* Every action keeps the types, given that the loop stands where PhaseOK and   *)
(* PassOK say.                                                                 *)
LEMMA TypeStep == TypeOK /\ TableAligned /\ PhaseOK /\ PassOK /\ Next => TypeOK'
<1> SUFFICES ASSUME TypeOK, TableAligned, PhaseOK, PassOK, Next
             PROVE  TypeOK'
  OBVIOUS
<1> USE DEF TypeOK, table, flags, net, hist
<1>1. ASSUME NEW c \in Client, Connect(c) PROVE TypeOK'
  BY <1>1 DEF Connect, SockState
<1>2. ASSUME NEW c \in Client, PeerSend(c) PROVE TypeOK'
  BY <1>2 DEF PeerSend
<1>3. ASSUME NEW c \in Client, PeerClose(c) PROVE TypeOK'
  BY <1>3 DEF PeerClose
<1>4. CASE do_poll
  <2>1. PICK writable \in SUBSET {c \in Live : queued[c]} :
          poll_table' = [j \in 1..Len(poll_table) |->
                           [fd |-> poll_table[j].fd,
                            revents |-> Reported(poll_table[j].fd, writable)]]
    BY <1>4 DEF do_poll
  <2>2. \A fd : Reported(fd, writable) \in SUBSET Event
    BY DEF Reported
  <2>3. \A j \in 1..Len(poll_table) :
          [fd |-> poll_table[j].fd, revents |-> Reported(poll_table[j].fd, writable)] \in Entry
    <3>1. \A j \in 1..Len(poll_table) : poll_table[j].fd \in Client \union {NULL}
      BY EntryLemma DEF Entry
    <3> QED
      BY <2>2, <3>1 DEF Entry
  <2>4. poll_table' \in [1..Len(poll_table) -> Entry] /\ Len(poll_table) \in Nat
    BY <2>1, <2>3
  <2>5. poll_table' \in Seq(Entry)
    BY <2>4, TupleLemma
  <2> QED
    BY <1>4, <2>5 DEF do_poll, Phase, Entry
<1>5. CASE PassEnds
  BY <1>5 DEF PassEnds, Phase
<1>6. CASE SkipEntry
  BY <1>6 DEF SkipEntry, NextIndex, Phase
<1>7. CASE TrySend
  <2>1. i <= Len(poll_table) /\ "OUT" \in poll_table[i].revents
    BY <1>7 DEF TrySend, Scanning
  <2>2. clients[i] \in Client
    BY <2>1, AtEntry
  <2>3. poll_table' \in Seq([fd : Client \union {NULL}, revents : SUBSET Event])
    BY <1>7, <2>1, AtEntry, UnservedLemma DEF TrySend, Entry
  <2>4. queued' \in [Client -> BOOLEAN]
    BY <1>7, <2>2 DEF TrySend, try_to_send
  <2> QED
    BY <1>7, <2>3, <2>4 DEF TrySend
<1>8. ASSUME NEW c \in Client, close_client(c), i <= Len(poll_table) PROVE TypeOK'
  <2>1. clients' \in Seq(Client \union {NULL}) /\ poll_table' \in Seq(Entry)
    BY <1>8, AtEntry, RemoveAtLemma DEF close_client, EraseEntry, ReleasePublisher, StayAtIndex
  <2>2. decoder' \in [Client -> DecoderState] /\ meta' \in [Client -> 0..MaxMeta]
    BY <1>8, MaxMetaAssumption DEF close_client, EraseEntry, ReleasePublisher, StayAtIndex, DecoderState
  <2>3. ready' \in [Client -> BOOLEAN] /\ fresh' \in BOOLEAN
    BY <1>8 DEF close_client, EraseEntry, ReleasePublisher, StayAtIndex
  <2>4. sock' \in [Client -> SockState]
    BY <1>8 DEF close_client, EraseEntry, ReleasePublisher, StayAtIndex, SockState
  <2> QED
    BY <1>8, <2>1, <2>2, <2>3, <2>4 DEF close_client, EraseEntry, ReleasePublisher, StayAtIndex, Entry
<1>9. CASE TrySendFails
  BY <1>8, <1>9, AtEntry DEF TrySendFails, Scanning
<1>10. CASE RecvEnd
  BY <1>8, <1>10, AtEntry DEF RecvEnd, AtInput, Scanning
<1>11. ASSUME NEW c \in Client, Accept(c) PROVE TypeOK'
  BY <1>11 DEF Accept, SockState, Phase
<1>12. ASSUME NEW e, i <= Len(poll_table), Served(e)
       PROVE  /\ poll_table' \in Seq([fd : Client \union {NULL}, revents : SUBSET Event])
              /\ pc' \in Phase /\ i' \in Nat \ {0}
  <2>1. Unserved(e) \in Seq(Entry)
    BY <1>12, AtEntry, UnservedLemma
  <2> QED
    BY <1>12, <2>1 DEF Served, NextIndex, Phase, Entry
<1>13. CASE AcceptFails
  BY <1>12, <1>13 DEF AcceptFails, AtInput, Scanning
<1>14. CASE HandshakeReturns
  <2>1. i <= Len(poll_table) /\ accepted \in Client
    BY <1>14 DEF HandshakeReturns, PhaseOK, TableAligned
  <2>2. Unserved("IN") \in Seq([fd : Client \union {NULL}, revents : SUBSET Event])
    BY <2>1, AtEntry, UnservedLemma DEF Entry
  <2>3. poll_table' \in Seq([fd : Client \union {NULL}, revents : SUBSET Event])
    BY <1>14, <2>1, <2>2 DEF HandshakeReturns
  <2> QED
    BY <1>14, <2>1, <2>3 DEF HandshakeReturns, NextIndex, SockState, Phase
<1>15. CASE HandshakeThrows
  <2>1. i <= Len(poll_table) /\ accepted \in Client
    BY <1>15 DEF HandshakeThrows, PhaseOK, TableAligned
  <2> QED
    BY <1>12, <1>15, <2>1 DEF HandshakeThrows, SockState
<1>16. CASE Recv
  BY <1>16 DEF Recv, Phase
<1>17. CASE RecvDone
  BY <1>12, <1>17 DEF RecvDone, PhaseOK, TableAligned
<1>18. CASE Handle
  <2>1. pc = "messages" /\ i <= Len(poll_table) /\ clients[i] \in Client
    BY <1>18, AtEntry DEF Handle, handle_connect, handle_createstream, handle_publish, Reply,
         handle_fcpublish, handle_fcpublish_throws,
         handle_play, handle_pause, handle_setdataframe, handle_audio,
         handle_key_frame, handle_inter_frame, FromPublisher, Handling, PhaseOK, TableAligned
  <2>2. CASE handle_connect \/ handle_createstream \/ handle_publish
    BY <2>1, <2>2, SendType DEF handle_connect, handle_createstream, handle_publish, Reply, Stays
  <2>3. CASE handle_fcpublish
    BY <2>1, <2>3, SendType DEF handle_fcpublish, Stays
  <2>4. CASE handle_fcpublish_throws
    BY <1>12, <2>1, <2>4 DEF handle_fcpublish_throws
  <2>6. CASE handle_play
    BY <2>1, <2>6, SendType, MaxMetaAssumption
       DEF handle_play, start_playback, send_metadata, Stays, DecoderState
  <2>7. CASE handle_pause
    BY <2>1, <2>7, SendType DEF handle_pause, Stays
  <2>8. CASE handle_setdataframe
    BY <2>1, <2>8, SendType, MaxMetaAssumption DEF handle_setdataframe, Stays
  <2>9. CASE handle_audio
    BY <2>1, <2>9, SendType DEF handle_audio, Stays, DecoderState
  <2>10. CASE handle_key_frame
    BY <2>1, <2>10, SendType DEF handle_key_frame, Stays, Withheld, DecoderState
  <2>11. CASE handle_inter_frame
    BY <2>1, <2>11, SendType DEF handle_inter_frame, Stays, Withheld, DecoderState
  <2> QED
    BY <1>18, <2>2, <2>3, <2>4, <2>6, <2>7, <2>8, <2>9, <2>10, <2>11 DEF Handle
<1>19. CASE BrokenPipe \/ Terminated
  BY <1>19 DEF BrokenPipe, Terminated, vars, Phase
<1> QED
  BY <1>1, <1>2, <1>3, <1>4, <1>5, <1>6, <1>7, <1>9, <1>10, <1>11, <1>13, <1>14, <1>15,
     <1>16, <1>17, <1>18, <1>19 DEF Next, Loop, Handshake, Peer

-----------------------------------------------------------------------------
(* An entry that is served and has nothing left to serve leaves the table in    *)
(* order.                                                                      *)
LEMMA ServedStep ==
  ASSUME TypeOK, TableAligned, PhaseOK, PassOK, i <= Len(poll_table),
         NEW e, Served(e), poll_table[i].revents \subseteq {e},
         clients' = clients, Live' = Live
  PROVE  TableAligned' /\ PhaseOK' /\ PassOK'
<1>1. poll_table \in Seq(Entry) /\ i \in 1..Len(poll_table)
  BY AtEntry
<1>2. /\ Len(poll_table') = Len(poll_table)
      /\ \A j \in 1..Len(poll_table) :
           /\ poll_table'[j].fd = poll_table[j].fd
           /\ poll_table'[j].revents = IF j = i THEN {} ELSE poll_table[j].revents
  BY <1>1, UnservedLemma DEF Served
<1>3. TableAligned'
  BY <1>2 DEF TableAligned
<1>4. PhaseOK'
  BY DEF PhaseOK, Served, NextIndex
<1>5. PassOK'
  BY <1>1, <1>2 DEF PassOK, Served, NextIndex
<1> QED
  BY <1>3, <1>4, <1>5

(* Erasing entry i from both vectors keeps them aligned, and puts the entry     *)
(* after it at index i, which is where the loop goes on.                       *)
LEMMA CloseStep ==
  ASSUME TypeOK, TableAligned, PhaseOK, PassOK, pc = "scan", i <= Len(poll_table),
         clients[i] # NULL, close_client(clients[i])
  PROVE  TableAligned' /\ PhaseOK' /\ PassOK'
<1> DEFINE n == Len(clients)
<1>1. /\ i \in 2..n /\ n \in Nat /\ Len(poll_table) = n
      /\ clients[i] \in Client /\ clients[i] \in Live
  BY AtEntry DEF TableAligned
<1>2. Len(clients') = n - 1 /\ \A j \in 1..(n - 1) : clients'[j] = IF j < i THEN clients[j] ELSE clients[j + 1]
  <2>1. clients \in Seq(Client \union {NULL}) /\ i \in 1..Len(clients)
    BY <1>1 DEF TypeOK
  <2>2. clients' = RemoveAt(clients, i)
    BY DEF close_client, EraseEntry, ReleasePublisher, StayAtIndex
  <2> QED
    BY <2>1, <2>2, RemoveAtLemma
<1>3. Len(poll_table') = n - 1 /\ \A j \in 1..(n - 1) : poll_table'[j] = IF j < i THEN poll_table[j] ELSE poll_table[j + 1]
  BY <1>1, AtEntry, RemoveAtLemma DEF close_client, EraseEntry, ReleasePublisher, StayAtIndex
<1>4. Live' = Live \ {clients[i]}
  BY <1>1 DEF close_client, EraseEntry, ReleasePublisher, StayAtIndex, Live, TypeOK
<1>5. TableAligned'
  <2>1. Len(clients') = Len(poll_table') /\ Len(clients') >= 1
    BY <1>1, <1>2, <1>3
  <2>2. \A j \in 1..(n - 1) : poll_table'[j].fd = clients'[j]
    <3>1. \A j \in 1..n : poll_table[j].fd = clients[j]
      BY DEF TableAligned
    <3> SUFFICES ASSUME NEW j \in 1..(n - 1) PROVE poll_table'[j].fd = clients'[j]
      OBVIOUS
    <3>2. CASE j < i
      <4>1. poll_table'[j] = poll_table[j] /\ clients'[j] = clients[j]
        BY <1>2, <1>3, <3>2
      <4>2. j \in 1..n
        BY <1>1
      <4> QED
        BY <3>1, <4>1, <4>2
    <3>3. CASE ~(j < i)
      <4>1. poll_table'[j] = poll_table[j + 1] /\ clients'[j] = clients[j + 1]
        BY <1>2, <1>3, <3>3
      <4>2. j + 1 \in 1..n
        BY <1>1
      <4> QED
        BY <3>1, <4>1, <4>2
    <3> QED
      BY <3>2, <3>3
  <2>3. clients'[1] = NULL
    BY <1>1, <1>2 DEF TableAligned
  <2>4. \A j \in 2..(n - 1) : clients'[j] \in Live'
    <3> SUFFICES ASSUME NEW j \in 2..(n - 1) PROVE clients'[j] \in Live'
      OBVIOUS
    <3>1. PICK k \in 2..n : clients'[j] = clients[k] /\ k # i
      BY <1>1, <1>2
    <3>2. clients[k] \in Live /\ clients[k] # clients[i]
      BY <1>1, <3>1 DEF TableAligned
    <3> QED
      BY <1>4, <3>1, <3>2
  <2>5. \A j, k \in 1..(n - 1) : clients'[j] = clients'[k] => j = k
    BY <1>1, <1>2 DEF TableAligned
  <2>6. ASSUME NEW c \in Live' PROVE \E j \in 1..(n - 1) : clients'[j] = c
    <3>1. PICK k \in 1..n : clients[k] = c
      BY <1>4 DEF TableAligned
    <3>2. k # i
      BY <1>4, <3>1
    <3>3. CASE k < i
      BY <1>1, <1>2, <3>1, <3>3
    <3>4. CASE k > i
      <4>1. k - 1 \in 1..(n - 1) /\ ~(k - 1 < i) /\ (k - 1) + 1 = k
        BY <1>1, <3>4
      <4>2. clients'[k - 1] = c
        BY <1>2, <3>1, <4>1
      <4> QED
        BY <4>1, <4>2
    <3> QED
      BY <1>1, <3>2, <3>3, <3>4
  <2> QED
    BY <1>2, <2>1, <2>2, <2>3, <2>4, <2>5, <2>6 DEF TableAligned
<1>6. PhaseOK'
  BY DEF PhaseOK, close_client, EraseEntry, ReleasePublisher, StayAtIndex
<1>7. PassOK'
  <2> SUFFICES ASSUME NEW j \in 1..(n - 1)
               PROVE  /\ j < i => poll_table'[j].revents = {}
                      /\ "OUT" \in poll_table'[j].revents => poll_table'[j].fd # NULL
    BY <1>3 DEF PassOK, close_client, EraseEntry, ReleasePublisher, StayAtIndex
  <2>1. PICK k \in 1..n : poll_table'[j] = poll_table[k] /\ (j < i => k < i)
    BY <1>1, <1>3
  <2> QED
    BY <1>1, <2>1 DEF PassOK
<1> QED
  BY <1>5, <1>6, <1>7

(* Every action keeps the two vectors aligned and the pass in order. *)
LEMMA ControlStep ==
  TypeOK /\ TableAligned /\ PhaseOK /\ PassOK /\ Next => TableAligned' /\ PhaseOK' /\ PassOK'
<1> SUFFICES ASSUME TypeOK, TableAligned, PhaseOK, PassOK, Next
             PROVE  TableAligned' /\ PhaseOK' /\ PassOK'
  OBVIOUS
<1>1. ASSUME NEW c \in Client, Connect(c) PROVE TableAligned' /\ PhaseOK' /\ PassOK'
  <2>1. Live' = Live
    BY <1>1 DEF Connect, Live, TypeOK
  <2> QED
    BY <1>1, <2>1 DEF Connect, table, TableAligned, PhaseOK, PassOK, TypeOK
<1>2. ASSUME NEW c \in Client, PeerSend(c) \/ PeerClose(c) PROVE TableAligned' /\ PhaseOK' /\ PassOK'
  BY <1>2 DEF PeerSend, PeerClose, table, TableAligned, PhaseOK, PassOK, Live
<1>3. CASE do_poll
  <2>1. PICK writable \in SUBSET {c \in Live : queued[c]} :
          poll_table' = [j \in 1..Len(poll_table) |->
                           [fd |-> poll_table[j].fd,
                            revents |-> Reported(poll_table[j].fd, writable)]]
    BY <1>3 DEF do_poll
  <2>2. /\ Len(poll_table') = Len(poll_table)
        /\ \A j \in 1..Len(poll_table) :
             /\ poll_table'[j].fd = poll_table[j].fd
             /\ poll_table'[j].revents = Reported(poll_table[j].fd, writable)
    BY <2>1 DEF TypeOK
  <2>3. ~("OUT" \in Reported(NULL, writable))
    BY NULLAssumption DEF Reported, Live
  <2>4. TableAligned'
    BY <1>3, <2>2 DEF do_poll, net, TableAligned, Live
  <2>5. PassOK'
    BY <1>3, <2>2, <2>3 DEF do_poll, PassOK
  <2> QED
    BY <1>3, <2>4, <2>5 DEF do_poll, PhaseOK
<1>4. CASE PassEnds
  <2>1. i \in Nat /\ Len(poll_table) \in Nat
    BY DEF TypeOK
  <2>2. TableAligned' /\ PhaseOK'
    BY <1>4 DEF PassEnds, net, TableAligned, PhaseOK, Live
  <2>3. PassOK'
    BY <1>4, <2>1 DEF PassEnds, PassOK
  <2> QED
    BY <2>2, <2>3
<1>5. CASE SkipEntry
  <2>1. i \in Nat /\ Len(poll_table) \in Nat
    BY DEF TypeOK
  <2>2. TableAligned' /\ PhaseOK'
    BY <1>5 DEF SkipEntry, NextIndex, net, TableAligned, PhaseOK, Live
  <2>3. PassOK'
    BY <1>5, <2>1 DEF SkipEntry, NextIndex, PassOK
  <2> QED
    BY <2>2, <2>3
<1>6. CASE TrySend
  <2>1. i <= Len(poll_table) /\ pc = "scan"
    BY <1>6 DEF TrySend, Scanning
  <2>2. poll_table \in Seq(Entry) /\ i \in 1..Len(poll_table)
    BY <2>1, AtEntry
  <2>3. /\ Len(poll_table') = Len(poll_table)
        /\ \A j \in 1..Len(poll_table) :
             /\ poll_table'[j].fd = poll_table[j].fd
             /\ poll_table'[j].revents = IF j = i THEN poll_table[j].revents \ {"OUT"}
                                                  ELSE poll_table[j].revents
    BY <1>6, <2>2, UnservedLemma DEF TrySend
  <2>4. TableAligned'
    BY <1>6, <2>3 DEF TrySend, net, TableAligned, Live
  <2>5. PassOK'
    BY <1>6, <2>1, <2>2, <2>3 DEF TrySend, PassOK
  <2> QED
    BY <1>6, <2>1, <2>4, <2>5 DEF TrySend, PhaseOK
<1>7. CASE TrySendFails
  BY <1>7, AtEntry, CloseStep DEF TrySendFails, Scanning
<1>8. CASE RecvEnd
  BY <1>8, AtEntry, CloseStep DEF RecvEnd, AtInput, Scanning
<1>9. ASSUME NEW c \in Client, Accept(c) PROVE TableAligned' /\ PhaseOK' /\ PassOK'
  <2>1. i <= Len(poll_table) /\ pc = "scan" /\ "OUT" \notin poll_table[i].revents /\ clients[i] = NULL
    BY <1>9 DEF Accept, AtInput, Scanning
  <2>2. Live' = Live
    BY <1>9 DEF Accept, Live, TypeOK
  <2>3. TableAligned'
    BY <1>9, <2>2 DEF Accept, TableAligned
  <2>4. PhaseOK'
    BY <1>9, <2>1 DEF Accept, PhaseOK, TableAligned, TypeOK
  <2>5. poll_table[i].revents \in SUBSET Event
    BY <2>1, AtEntry, EntryLemma
  <2>6. PassOK'
    BY <1>9, <2>1, <2>5 DEF Accept, PassOK, Event
  <2> QED
    BY <2>3, <2>4, <2>6
<1>10. ASSUME AtInput PROVE i <= Len(poll_table) /\ pc = "scan" /\ poll_table[i].revents \subseteq {"IN"}
  <2>1. i <= Len(poll_table) /\ pc = "scan" /\ "OUT" \notin poll_table[i].revents
    BY <1>10 DEF AtInput, Scanning
  <2>2. poll_table[i].revents \in SUBSET Event
    BY <2>1, AtEntry, EntryLemma
  <2> QED
    BY <2>1, <2>2 DEF Event
<1>11. ASSUME pc \in {"handshake", "messages"}
       PROVE  i <= Len(poll_table) /\ poll_table[i].revents \subseteq {"IN"}
  BY <1>11 DEF PhaseOK, PassOK, TableAligned
<1>12. CASE AcceptFails
  BY <1>10, <1>12, ServedStep DEF AcceptFails, net, Live
<1>13. CASE HandshakeReturns
  <2> DEFINE n == Len(clients)
             T == Unserved("IN")
  <2>1. i <= Len(poll_table) /\ accepted \in Client /\ sock[accepted] = "handshake"
    BY <1>11, <1>13 DEF HandshakeReturns, PhaseOK
  <2>2. poll_table \in Seq(Entry) /\ i \in 1..n /\ n \in Nat /\ Len(poll_table) = n
    BY <2>1, AtEntry DEF TableAligned
  <2>3. /\ T \in Seq(Entry) /\ Len(T) = n
        /\ \A j \in 1..n : /\ T[j].fd = poll_table[j].fd
                            /\ T[j].revents = IF j = i THEN {} ELSE poll_table[j].revents
    BY <1>11, <1>13, <2>2, UnservedLemma DEF HandshakeReturns
  <2> HIDE DEF T
  <2>4. poll_table' = Append(T, [fd |-> accepted, revents |-> {}]) /\ clients' = Append(clients, accepted)
    BY <1>13 DEF HandshakeReturns, T
  <2>5. /\ Len(clients') = n + 1 /\ Len(poll_table') = n + 1
        /\ \A j \in 1..n : clients'[j] = clients[j] /\ poll_table'[j] = T[j]
        /\ clients'[n + 1] = accepted /\ poll_table'[n + 1] = [fd |-> accepted, revents |-> {}]
    <3>1. clients \in Seq(Client \union {NULL})
      BY DEF TypeOK
    <3>2. /\ Len(clients') = n + 1 /\ clients'[n + 1] = accepted
          /\ \A j \in 1..n : clients'[j] = clients[j]
      BY <2>1, <2>2, <2>4, <3>1
    <3>3. /\ Len(poll_table') = n + 1 /\ poll_table'[n + 1] = [fd |-> accepted, revents |-> {}]
          /\ \A j \in 1..n : poll_table'[j] = T[j]
      BY <2>2, <2>3, <2>4
    <3> QED
      BY <3>2, <3>3
  <2>6. Live' = Live \union {accepted} /\ accepted \notin Live
    BY <1>13, <2>1 DEF HandshakeReturns, Live, TypeOK
  <2>7. \A j \in 1..n : clients[j] # accepted
    BY <2>1, <2>6, NULLAssumption DEF TableAligned
  <2>8. TableAligned'
    <3>1. \A j \in 1..(n + 1) : poll_table'[j].fd = clients'[j]
      <4>1. \A j \in 1..n : poll_table[j].fd = clients[j]
        BY <2>2 DEF TableAligned
      <4> SUFFICES ASSUME NEW j \in 1..(n + 1) PROVE poll_table'[j].fd = clients'[j]
        OBVIOUS
      <4>2. CASE j = n + 1
        BY <2>5, <4>2
      <4>3. CASE j \in 1..n
        BY <2>3, <2>5, <4>1, <4>3
      <4> QED
        BY <2>2, <4>2, <4>3
    <3>2. \A j \in 2..(n + 1) : clients'[j] \in Live'
      BY <2>2, <2>5, <2>6 DEF TableAligned
    <3>3. \A j, k \in 1..(n + 1) : clients'[j] = clients'[k] => j = k
      BY <2>2, <2>5, <2>7 DEF TableAligned
    <3>4. \A c \in Live' : \E j \in 1..(n + 1) : clients'[j] = c
      BY <2>2, <2>5, <2>6 DEF TableAligned
    <3>5. Len(clients') = Len(poll_table') /\ Len(clients') >= 1 /\ 1..Len(clients') = 1..(n + 1)
      BY <2>2, <2>5
    <3>6. 2..Len(clients') = 2..(n + 1)
      BY <2>5
    <3>7. clients'[1] = NULL
      BY <2>2, <2>5 DEF TableAligned
    <3> QED
      BY <3>1, <3>2, <3>3, <3>4, <3>5, <3>6, <3>7, Zenon DEF TableAligned
  <2>9. PhaseOK'
    BY <1>13 DEF HandshakeReturns, NextIndex, PhaseOK
  <2>10. PassOK'
    <3> SUFFICES ASSUME NEW j \in 1..(n + 1)
                 PROVE  /\ j < i + 1 => poll_table'[j].revents = {}
                        /\ "OUT" \in poll_table'[j].revents => poll_table'[j].fd # NULL
      BY <1>13, <2>5 DEF HandshakeReturns, NextIndex, PassOK
    <3>1. CASE j = n + 1
      BY <2>5, <3>1
    <3>2. CASE j \in 1..n
      BY <2>2, <2>3, <2>5, <3>2 DEF PassOK
    <3> QED
      BY <2>2, <3>1, <3>2
  <2> QED
    BY <2>8, <2>9, <2>10
<1>14. CASE HandshakeThrows
  <2>1. Live' = Live
    BY <1>14 DEF HandshakeThrows, PhaseOK, Live, TypeOK
  <2> QED
    BY <1>11, <1>14, <2>1, ServedStep DEF HandshakeThrows
<1>15. CASE Recv
  <2>1. TableAligned'
    BY <1>15 DEF Recv, TableAligned, Live
  <2> QED
    BY <1>10, <1>15, <2>1 DEF Recv, PhaseOK, PassOK, TableAligned
<1>16. CASE RecvDone
  BY <1>11, <1>16, ServedStep DEF RecvDone, net, Live
<1>17. CASE handle_fcpublish_throws
  BY <1>11, <1>17, ServedStep DEF handle_fcpublish_throws, Handling, net, Live
<1>18. CASE Handle /\ ~handle_fcpublish_throws
  <2>1. UNCHANGED <<table, net>>
    BY <1>18 DEF Handle, handle_connect, handle_createstream, handle_publish, Reply,
         handle_fcpublish, handle_play, handle_pause,
         handle_setdataframe, handle_audio, handle_key_frame, handle_inter_frame, Stays
  <2> QED
    BY <2>1 DEF table, net, TableAligned, PhaseOK, PassOK, Live
<1>19. CASE BrokenPipe \/ Terminated
  BY <1>19 DEF BrokenPipe, Terminated, vars, table, net, TableAligned, PhaseOK, PassOK, Live
<1> QED
  BY <1>1, <1>2, <1>3, <1>4, <1>5, <1>6, <1>7, <1>8, <1>9, <1>12, <1>13, <1>14, <1>15,
     <1>16, <1>17, <1>18, <1>19 DEF Next, Loop, Handshake, Peer

-----------------------------------------------------------------------------
(* The part of the invariant about the stream. *)
StreamOK == PublisherLive /\ IdleClean /\ ReadyOK /\ StreamDecodable /\ MetaOK

(* FOR_EACH reaches every playing and every ready client. *)
LEMMA ReceiversLemma ==
  ASSUME TypeOK, TableAligned, IdleClean
  PROVE  /\ Receivers(playing) = {c \in Client : playing[c]}
         /\ Receivers(ready) = {c \in Client : ready[c]}
<1>1. \A c \in Client : playing[c] \/ ready[c] => \E j \in 1..Len(clients) : clients[j] = c
  BY DEF TableAligned, IdleClean
<1> QED
  BY <1>1 DEF Receivers

(* A step that leaves the flags and the history alone, and takes no client      *)
(* off the table.                                                              *)
LEMMA StreamKept ==
  ASSUME StreamOK, UNCHANGED <<flags, decoder, fresh, meta>>, Live \subseteq Live'
  PROVE  StreamOK'
  BY DEF StreamOK, flags, PublisherLive, IdleClean, ReadyOK, StreamDecodable, MetaOK, MetadataCurrent

(* close_client keeps the stream part: when it closes the publisher it empties  *)
(* the slot and resets every ready flag together.                              *)
LEMMA StreamClosed ==
  ASSUME TypeOK, StreamOK, NEW c \in Client, close_client(c)
  PROVE  StreamOK'
<1>1. Live' = Live \ {c}
  BY DEF close_client, EraseEntry, ReleasePublisher, StayAtIndex, Live, TypeOK
<1>2. PublisherLive'
  BY <1>1, NULLAssumption DEF StreamOK, PublisherLive, close_client, EraseEntry, ReleasePublisher, StayAtIndex
<1>3. IdleClean'
  BY <1>1 DEF StreamOK, IdleClean, close_client, EraseEntry, ReleasePublisher, StayAtIndex, TypeOK
<1>4. ReadyOK'
  BY DEF StreamOK, ReadyOK, close_client, EraseEntry, ReleasePublisher, StayAtIndex, TypeOK
<1>5. StreamDecodable'
  BY DEF StreamOK, StreamDecodable, close_client, EraseEntry, ReleasePublisher, StayAtIndex, TypeOK
<1>6. MetaOK'
  BY DEF StreamOK, MetaOK, MetadataCurrent, close_client, EraseEntry, ReleasePublisher, StayAtIndex, TypeOK
<1> QED
  BY <1>2, <1>3, <1>4, <1>5, <1>6 DEF StreamOK

(* Every action keeps the stream part, one step per handler. *)
LEMMA StreamStep ==
  TypeOK /\ TableAligned /\ PhaseOK /\ PassOK /\ StreamOK /\ Next => StreamOK'
<1> SUFFICES ASSUME TypeOK, TableAligned, PhaseOK, PassOK, StreamOK, Next
             PROVE  StreamOK'
  OBVIOUS
<1>1. ASSUME NEW c \in Client, Connect(c) \/ PeerSend(c) \/ PeerClose(c) \/ Accept(c)
      PROVE  StreamOK'
  <2>1. Live \subseteq Live' /\ UNCHANGED <<flags, decoder, fresh, meta>>
    BY <1>1 DEF Connect, PeerSend, PeerClose, Accept, Live, TypeOK, hist
  <2> QED
    BY <2>1, StreamKept
<1>2. CASE do_poll \/ PassEnds \/ SkipEntry \/ TrySend \/ AcceptFails \/ Recv \/ RecvDone
  <2>1. Live \subseteq Live' /\ UNCHANGED <<flags, decoder, fresh, meta>>
    BY <1>2 DEF do_poll, PassEnds, SkipEntry, TrySend, AcceptFails, Recv, RecvDone, Live, hist, net
  <2> QED
    BY <2>1, StreamKept
<1>3. CASE TrySendFails \/ RecvEnd
  BY <1>3, AtEntry, StreamClosed DEF TrySendFails, RecvEnd, AtInput, Scanning
<1>4. CASE HandshakeReturns
  <2>1. accepted \in Client /\ sock[accepted] = "handshake"
    BY <1>4 DEF HandshakeReturns, PhaseOK
  <2>2. ~playing[accepted] /\ ~ready[accepted]
    BY <2>1 DEF StreamOK, IdleClean, Live
  <2>3. playing' = playing /\ ready' = ready
    BY <1>4, <2>1, <2>2 DEF HandshakeReturns, TypeOK
  <2>4. Live \subseteq Live' /\ UNCHANGED <<flags, decoder, fresh, meta>>
    BY <1>4, <2>1, <2>3 DEF HandshakeReturns, Live, TypeOK, flags, hist
  <2> QED
    BY <2>4, StreamKept
<1>5. CASE HandshakeThrows
  <2>1. Live \subseteq Live' /\ UNCHANGED <<flags, decoder, fresh, meta>>
    BY <1>5 DEF HandshakeThrows, PhaseOK, Live, TypeOK, hist
  <2> QED
    BY <2>1, StreamKept
<1>6. CASE Handle
  <2>1. clients[i] \in Client /\ clients[i] \in Live /\ clients[i] # NULL
    BY <1>6, AtEntry DEF Handle, handle_connect, handle_createstream, handle_publish, Reply,
         handle_fcpublish, handle_fcpublish_throws,
         handle_play, handle_pause, handle_setdataframe, handle_audio,
         handle_key_frame, handle_inter_frame, FromPublisher, Handling, PhaseOK, TableAligned
  <2>2. sock' = sock /\ Live' = Live
    BY <1>6 DEF Handle, handle_connect, handle_createstream, handle_publish, Reply,
         handle_fcpublish, handle_fcpublish_throws,
         handle_play, handle_pause, handle_setdataframe, handle_audio,
         handle_key_frame, handle_inter_frame, Stays, net, Live
  <2>3. IdleClean
    BY DEF StreamOK
  <2> DEFINE c == clients[i]
  <2> HIDE DEF c
  <2>4. CASE handle_connect \/ handle_createstream \/ handle_publish
    BY <2>2, <2>4, StreamKept DEF handle_connect, handle_createstream, handle_publish, Reply, Stays
  <2>5. CASE handle_fcpublish \/ handle_fcpublish_throws
    <3>1. publisher = NULL /\ publisher' \in Live /\ UNCHANGED <<playing, ready, metadata, decoder, fresh, meta>>
      BY <2>1, <2>5 DEF handle_fcpublish, handle_fcpublish_throws, Stays
    <3> QED
      BY <2>2, <3>1 DEF StreamOK, PublisherLive, IdleClean, ReadyOK, StreamDecodable, MetaOK, MetadataCurrent
  <2>6. CASE handle_play
    <3>1. /\ c \in Client /\ c \in Live
          /\ playing' = [playing EXCEPT ![c] = TRUE]
          /\ ready' = [ready EXCEPT ![c] = FALSE]
          /\ decoder' = [decoder EXCEPT ![c] = IF @ = "broken" THEN @ ELSE "blank"]
          /\ meta' = [meta EXCEPT ![c] = IF publisher # NULL THEN metadata ELSE 0]
          /\ UNCHANGED <<publisher, metadata, fresh>>
      BY <2>1, <2>6 DEF c, handle_play, start_playback, send_metadata
    <3>2. PublisherLive' /\ IdleClean'
      BY <2>2, <3>1 DEF StreamOK, PublisherLive, IdleClean, TypeOK
    <3>3. ReadyOK' /\ StreamDecodable'
      BY <3>1 DEF StreamOK, ReadyOK, StreamDecodable, TypeOK
    <3>4. MetaOK'
      BY <3>1 DEF StreamOK, MetaOK, MetadataCurrent, TypeOK
    <3> QED
      BY <3>2, <3>3, <3>4 DEF StreamOK
  <2>7. CASE handle_pause
    <3>1. /\ playing' = [playing EXCEPT ![c] = FALSE]
          /\ UNCHANGED <<publisher, ready, metadata, decoder, fresh, meta>>
      BY <2>7 DEF c, handle_pause
    <3> QED
      BY <2>2, <3>1 DEF StreamOK, PublisherLive, IdleClean, ReadyOK, StreamDecodable, MetaOK,
                        MetadataCurrent, TypeOK
  <2>8. CASE handle_setdataframe
    <3>1. /\ publisher \in Client /\ publisher # NULL
          /\ \A d \in Client : playing[d] => meta'[d] = metadata'
          /\ UNCHANGED <<publisher, playing, ready, decoder>>
      BY <2>1, <2>3, <2>8, ReceiversLemma DEF handle_setdataframe, FromPublisher
    <3> QED
      BY <2>2, <3>1 DEF StreamOK, PublisherLive, IdleClean, ReadyOK, StreamDecodable, MetaOK, MetadataCurrent
  <2>9. CASE handle_audio
    <3>1. \A d \in Client : decoder'[d] = decoder[d]
      BY <2>3, <2>9, ReceiversLemma DEF handle_audio, StreamOK, ReadyOK
    <3>2. UNCHANGED <<flags, fresh, meta>>
      BY <2>9 DEF handle_audio
    <3> QED
      BY <2>2, <3>1, <3>2 DEF flags, StreamOK, PublisherLive, IdleClean, ReadyOK, StreamDecodable,
                              MetaOK, MetadataCurrent
  <2>10. CASE handle_key_frame
    <3>1. /\ publisher # NULL
          /\ \A d \in Client : /\ ready'[d] = (ready[d] \/ playing[d])
                                /\ decoder'[d] = IF ~playing[d] THEN Withheld(d)
                                                 ELSE IF decoder[d] = "broken" THEN "broken" ELSE "whole"
          /\ UNCHANGED <<publisher, playing, metadata, fresh, meta>>
      BY <2>1, <2>3, <2>10, ReceiversLemma DEF handle_key_frame, FromPublisher
    <3>2. PublisherLive' /\ IdleClean' /\ MetaOK'
      BY <2>2, <3>1 DEF StreamOK, PublisherLive, IdleClean, MetaOK, MetadataCurrent
    <3>3. ReadyOK' /\ StreamDecodable'
      BY <3>1 DEF StreamOK, ReadyOK, StreamDecodable, Withheld
    <3> QED
      BY <3>2, <3>3 DEF StreamOK
  <2>11. CASE handle_inter_frame
    <3>1. /\ \A d \in Client : decoder'[d] = IF ~(playing[d] /\ ready[d]) THEN Withheld(d)
                                              ELSE IF decoder[d] # "whole" THEN "broken" ELSE "whole"
          /\ UNCHANGED <<flags, fresh, meta>>
      BY <2>3, <2>11, ReceiversLemma DEF handle_inter_frame, InterReceivers
    <3>2. PublisherLive' /\ IdleClean' /\ MetaOK'
      BY <2>2, <3>1 DEF flags, StreamOK, PublisherLive, IdleClean, MetaOK, MetadataCurrent
    <3>3. ReadyOK' /\ StreamDecodable'
      BY <3>1 DEF flags, StreamOK, ReadyOK, StreamDecodable, Withheld
    <3> QED
      BY <3>2, <3>3 DEF StreamOK
  <2> QED
    BY <1>6, <2>4, <2>5, <2>6, <2>7, <2>8, <2>9, <2>10, <2>11 DEF Handle
<1>7. CASE BrokenPipe \/ Terminated
  BY <1>7, StreamKept DEF BrokenPipe, Terminated, vars, net, hist, Live
<1> QED
  BY <1>1, <1>2, <1>3, <1>4, <1>5, <1>6, <1>7 DEF Next, Loop, Handshake, Peer

-----------------------------------------------------------------------------
(* The invariant holds of every reachable state of do_poll's loop, for any set  *)
(* of clients.                                                                 *)
THEOREM Invariance == Spec => []IInv
<1>1. Init => IInv
  <2> SUFFICES ASSUME Init PROVE IInv
    OBVIOUS
  <2>1. TypeOK
    <3>1. clients \in Seq(Client \union {NULL})
      BY DEF Init
    <3>2. [fd |-> NULL, revents |-> {}] \in Entry
      BY DEF Entry
    <3>3. poll_table \in Seq(Entry)
      BY <3>2 DEF Init
    <3>4. /\ publisher \in Client \union {NULL} /\ accepted \in Client \union {NULL}
          /\ metadata \in 0..MaxMeta /\ meta \in [Client -> 0..MaxMeta]
          /\ pc \in Phase /\ i \in Nat \ {0}
      BY MaxMetaAssumption DEF Init, Phase
    <3>5. /\ playing \in [Client -> BOOLEAN] /\ ready \in [Client -> BOOLEAN]
          /\ queued \in [Client -> BOOLEAN] /\ gone \in [Client -> BOOLEAN]
          /\ inbox \in [Client -> BOOLEAN] /\ fresh \in BOOLEAN
      BY DEF Init
    <3>6. /\ sock \in [Client -> SockState] /\ decoder \in [Client -> DecoderState]
      BY DEF Init, SockState, DecoderState
    <3> QED
      BY <3>1, <3>3, <3>4, <3>5, <3>6 DEF TypeOK, Entry
  <2>2. TableAligned
    BY DEF Init, TableAligned, Live
  <2>3. PhaseOK /\ PassOK
    BY DEF Init, PhaseOK, PassOK
  <2>4. PublisherLive /\ IdleClean /\ ReadyOK /\ StreamDecodable /\ MetaOK
    BY DEF Init, PublisherLive, IdleClean, ReadyOK, StreamDecodable, MetaOK, MetadataCurrent
  <2> QED
    BY <2>1, <2>2, <2>3, <2>4 DEF IInv
<1>2. IInv /\ Next => IInv'
  BY TypeStep, ControlStep, StreamStep DEF IInv, StreamOK
<1>3. IInv /\ UNCHANGED vars => IInv'
  <2> SUFFICES ASSUME IInv, UNCHANGED vars PROVE IInv'
    OBVIOUS
  <2> USE DEF vars, table, flags, net, hist
  <2>1. TypeOK'
    BY DEF IInv, TypeOK
  <2>2. TableAligned' /\ PhaseOK' /\ PassOK'
    BY DEF IInv, TableAligned, PhaseOK, PassOK, Live
  <2>3. StreamOK'
    BY StreamKept DEF IInv, StreamOK, Live
  <2> QED
    BY <2>1, <2>2, <2>3 DEF IInv, StreamOK
<1> QED
  BY <1>1, <1>2, <1>3, PTL DEF Spec

(* Every variable keeps its type; the vectors stay within the clients. *)
THEOREM TypeCorrect == Spec => []TypeOK
<1>1. IInv => TypeOK
  BY DEF IInv
<1> QED
  BY <1>1, Invariance, PTL

(* close_client and new_client keep clients and poll_table parallel, so every   *)
(* client is served with its own events.                                       *)
THEOREM TablesStayAligned == Spec => []TableAligned
<1>1. IInv => TableAligned
  BY DEF IInv
<1> QED
  BY <1>1, Invariance, PTL

(* The publisher global never dangles. *)
THEOREM PublisherNeverDangles == Spec => []PublisherLive
<1>1. IInv => PublisherLive
  BY DEF IInv
<1> QED
  BY <1>1, Invariance, PTL

(* No client is ever sent audio or an inter frame it cannot decode. *)
THEOREM StreamsAreDecodable == Spec => []StreamDecodable
<1>1. IInv => StreamDecodable
  BY DEF IInv
<1> QED
  BY <1>1, Invariance, PTL

(* Every playing client has the publisher's latest metadata. *)
THEOREM MetadataReachesAll == Spec => []MetadataCurrent
<1>1. IInv => MetadataCurrent
  BY DEF IInv, MetaOK
<1> QED
  BY <1>1, Invariance, PTL

(* A pass skips no descriptor although the table changes under its index. *)
THEOREM PassesServeAll == Spec => []PassServesAll
<1>1. IInv => PassServesAll
  BY DEF IInv, PassOK, PassServesAll
<1> QED
  BY <1>1, Invariance, PTL

-----------------------------------------------------------------------------
(* The refinement of LiveStream. *)

(* A step that leaves the connections, the slot and the flags alone is a        *)
(* stuttering step of the room.                                                *)
LEMMA RoomStutter ==
  ASSUME Live' = Live, UNCHANGED <<publisher, playing, ready>>
  PROVE  UNCHANGED Room!vars
<1>1. [c \in Client |-> View(c)]' = [c \in Client |-> View(c)]
  BY DEF View
<1> QED
  BY <1>1 DEF Room!vars

(* close_client() of a live client is its leaving the room. *)
LEMMA RoomLeave ==
  ASSUME IInv, NEW c \in Live, close_client(c)
  PROVE  Room!Leave(c)
<1>1. c \in Client /\ sock \in [Client -> SockState]
  BY DEF Live, IInv, TypeOK
<1>2. Live' = Live \ {c}
  BY <1>1 DEF close_client, Live
<1>3. publisher' = IF c = publisher THEN NULL ELSE publisher
  BY DEF close_client, ReleasePublisher
<1>4. \A d \in Client : /\ playing'[d] = (playing[d] /\ d # c)
                        /\ ready'[d] = (ready[d] /\ d # c /\ c # publisher)
  BY <1>1 DEF close_client, ReleasePublisher, IInv, TypeOK
<1>5. [d \in Client |-> View(d)]' =
        [d \in Client |-> CASE d = c -> "off"
                            [] d # c /\ c = publisher /\ [e \in Client |-> View(e)][d] = "watching" -> "waiting"
                            [] OTHER -> [e \in Client |-> View(e)][d]]
  BY <1>4 DEF View
<1> QED
  BY <1>2, <1>3, <1>5 DEF Room!Leave

(* Every step of the relay is a step of the room, or changes nothing there. *)
LEMMA RoomStep == IInv /\ Next => Room!Next \/ UNCHANGED Room!vars
<1> SUFFICES ASSUME IInv, Next PROVE Room!Next \/ UNCHANGED Room!vars
  OBVIOUS
<1> USE DEF table, flags, net, hist
<1>t. /\ sock \in [Client -> SockState] /\ playing \in [Client -> BOOLEAN]
      /\ ready \in [Client -> BOOLEAN]
  BY DEF IInv, TypeOK
<1>1. CASE Peer
  <2>1. UNCHANGED <<publisher, playing, ready>> /\ Live' = Live
    BY <1>1, <1>t DEF Peer, Connect, PeerSend, PeerClose, Live
  <2> QED
    BY <2>1, RoomStutter
<1>2. CASE do_poll \/ PassEnds \/ SkipEntry \/ TrySend \/ AcceptFails \/ Recv \/ RecvDone
           \/ BrokenPipe \/ Terminated \/ HandshakeThrows \/ (\E c \in Client : Accept(c))
  <2>1. UNCHANGED <<publisher, playing, ready>>
    BY <1>2 DEF do_poll, PassEnds, SkipEntry, TrySend, AcceptFails, Recv, RecvDone, BrokenPipe,
                Terminated, HandshakeThrows, Accept, vars
  <2>2. CASE HandshakeThrows
    <3>1. accepted \in Client /\ sock[accepted] = "handshake" /\ sock' = [sock EXCEPT ![accepted] = "none"]
      BY <2>2 DEF HandshakeThrows, IInv, PhaseOK
    <3> QED
      BY <1>t, <2>1, <3>1, RoomStutter DEF Live
  <2>3. CASE \E c \in Client : Accept(c)
    <3>1. Live' = Live
      BY <1>t, <2>3 DEF Accept, Live
    <3> QED
      BY <2>1, <3>1, RoomStutter
  <2>4. CASE do_poll \/ PassEnds \/ SkipEntry \/ TrySend \/ AcceptFails \/ Recv \/ RecvDone
             \/ BrokenPipe \/ Terminated
    <3>1. UNCHANGED sock
      BY <2>4 DEF do_poll, PassEnds, SkipEntry, TrySend, AcceptFails, Recv, RecvDone, BrokenPipe,
                  Terminated, vars
    <3> QED
      BY <2>1, <3>1, RoomStutter DEF Live
  <2> QED
    BY <1>2, <2>2, <2>3, <2>4
<1>3. CASE TrySendFails \/ RecvEnd
  <2>1. i <= Len(poll_table)
    BY <1>3 DEF TrySendFails, RecvEnd, AtInput, Scanning
  <2>2. clients[i] # NULL => clients[i] \in Client /\ clients[i] \in Live
    BY <2>1, AtEntry DEF IInv
  <2>3. clients[i] # NULL
    <3>1. CASE TrySendFails
      <4>1. "OUT" \in poll_table[i].revents
        BY <3>1 DEF TrySendFails, Scanning
      <4> QED
        BY <2>1, <4>1, AtEntry DEF IInv
    <3>2. CASE RecvEnd
      BY <3>2 DEF RecvEnd
    <3> QED
      BY <1>3, <3>1, <3>2
  <2>4. close_client(clients[i])
    BY <1>3 DEF TrySendFails, RecvEnd
  <2>5. Room!Leave(clients[i])
    BY <2>2, <2>3, <2>4, RoomLeave
  <2> QED
    BY <2>2, <2>3, <2>5 DEF Room!Next
<1>4. CASE HandshakeReturns
  <2>1. accepted \in Client /\ sock[accepted] = "handshake" /\ pc = "handshake"
    BY <1>4 DEF HandshakeReturns, IInv, PhaseOK
  <2>2. accepted \notin Live /\ ~playing[accepted] /\ ~ready[accepted]
    BY <2>1, <1>t DEF Live, IInv, IdleClean
  <2>3. Live' = Live \union {accepted}
    BY <1>4, <1>t, <2>1 DEF HandshakeReturns, Live
  <2>4. UNCHANGED <<publisher, playing, ready>>
    BY <1>4, <1>t, <2>1, <2>2 DEF HandshakeReturns
  <2>5. [c \in Client |-> View(c)]' = [c \in Client |-> View(c)]
    BY <2>4 DEF View
  <2>6. Room!Join(accepted)
    BY <2>2, <2>3, <2>4, <2>5 DEF Room!Join
  <2> QED
    BY <2>1, <2>6 DEF Room!Next
<1>5. CASE Handle
  <2> DEFINE c == clients[i]
  <2>1. pc = "messages" /\ UNCHANGED sock
    BY <1>5 DEF Handle, Handling, FromPublisher, Stays, Reply, handle_connect, handle_createstream,
                handle_publish, handle_fcpublish, handle_fcpublish_throws, handle_play, handle_pause,
                handle_setdataframe, handle_audio, handle_key_frame, handle_inter_frame
  <2>2. c \in Client /\ c \in Live /\ Live' = Live
    <3>1. i <= Len(poll_table) /\ clients[i] # NULL
      BY <2>1 DEF IInv, PhaseOK, TableAligned
    <3>2. c \in Client /\ c \in Live
      BY <3>1, AtEntry DEF IInv
    <3> QED
      BY <2>1, <3>2 DEF Live
  <2> HIDE DEF c
  <2>3. CASE handle_connect \/ handle_createstream \/ handle_publish \/ handle_setdataframe
             \/ handle_audio \/ handle_inter_frame
    <3>1. UNCHANGED <<publisher, playing, ready>>
      BY <2>3 DEF handle_connect, handle_createstream, handle_publish, Reply, handle_setdataframe,
                  handle_audio, handle_inter_frame
    <3> QED
      BY <2>2, <3>1, RoomStutter
  <2>4. CASE handle_fcpublish \/ handle_fcpublish_throws
    <3>1. publisher = NULL /\ publisher' = c /\ UNCHANGED <<playing, ready>>
      BY <2>4 DEF handle_fcpublish, handle_fcpublish_throws, c
    <3>2. [d \in Client |-> View(d)]' = [d \in Client |-> View(d)]
      BY <3>1 DEF View
    <3>3. Room!Publish(c)
      BY <2>2, <3>1, <3>2 DEF Room!Publish
    <3> QED
      BY <2>2, <3>3 DEF Room!Next
  <2>5. CASE handle_play
    <3>1. /\ playing' = [playing EXCEPT ![c] = TRUE] /\ ready' = [ready EXCEPT ![c] = FALSE]
          /\ publisher' = publisher
      BY <2>5 DEF handle_play, start_playback, c
    <3>2. [d \in Client |-> View(d)]' = [[d \in Client |-> View(d)] EXCEPT ![c] = "waiting"]
      BY <1>t, <3>1 DEF View
    <3>3. Room!Watch(c)
      BY <2>2, <3>1, <3>2 DEF Room!Watch
    <3> QED
      BY <2>2, <3>3 DEF Room!Next
  <2>6. CASE handle_pause
    <3>1. playing' = [playing EXCEPT ![c] = FALSE] /\ UNCHANGED <<publisher, ready>>
      BY <2>6 DEF handle_pause, c
    <3>2. [d \in Client |-> View(d)]' = [[d \in Client |-> View(d)] EXCEPT ![c] = "off"]
      BY <1>t, <3>1 DEF View
    <3>3. Room!Pause(c)
      BY <2>2, <3>1, <3>2 DEF Room!Pause
    <3> QED
      BY <2>2, <3>3 DEF Room!Next
  <2>7. CASE handle_key_frame
    <3>1. /\ ready' = [d \in Client |-> ready[d] \/ d \in Receivers(playing)]
          /\ UNCHANGED <<publisher, playing>> /\ publisher = clients[i]
      BY <2>7 DEF handle_key_frame, FromPublisher
    <3>2. publisher # NULL
      BY <2>2, <3>1, NULLAssumption DEF c
    <3>3. \A d \in Client : d \in Receivers(playing) <=> playing[d]
      BY ReceiversLemma DEF IInv
    <3>4. \A d \in Client : ready'[d] <=> ready[d] \/ playing[d]
      BY <3>1, <3>3
    <3>5. [d \in Client |-> View(d)]' =
            [d \in Client |-> IF [e \in Client |-> View(e)][d] = "waiting" THEN "watching"
                              ELSE [e \in Client |-> View(e)][d]]
      BY <3>1, <3>4 DEF View
    <3>6. Room!KeyFrame
      BY <2>2, <3>1, <3>2, <3>5 DEF Room!KeyFrame
    <3> QED
      BY <3>6 DEF Room!Next
  <2> QED
    BY <1>5, <2>3, <2>4, <2>5, <2>6, <2>7 DEF Handle
<1> QED
  BY <1>1, <1>2, <1>3, <1>4, <1>5 DEF Next, Loop, Handshake

(* The relay implements the room of LiveStream, for any set of clients: whatever *)
(* do_poll does to its tables, the clients see one publisher at a time, key      *)
(* frames that reach all who wait, and a clean start after the publisher leaves. *)
THEOREM RelayImplementsRoom == Spec => ImplementsRoom
<1>1. Init => Room!Init
  <2> SUFFICES ASSUME Init PROVE Room!Init
    OBVIOUS
  <2>1. Live = {}
    BY DEF Init, Live
  <2>2. [c \in Client |-> View(c)] = [c \in Client |-> "off"]
    BY DEF Init, View
  <2> QED
    BY <2>1, <2>2 DEF Init, Room!Init
<1>2. IInv /\ [Next]_vars => [Room!Next]_(Room!vars)
  <2>1. UNCHANGED vars => UNCHANGED Room!vars
    BY RoomStutter DEF vars, flags, net, Live
  <2> QED
    BY <2>1, RoomStep
<1> QED
  BY <1>1, <1>2, Invariance, PTL DEF Spec, ImplementsRoom, Room!Spec
=============================================================================
