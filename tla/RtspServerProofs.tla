-------------------------- MODULE RtspServerProofs --------------------------
(***************************************************************************)
(* Proofs about RtspServer, for all sets of connections and descriptors and  *)
(* whatever the clients ask.                                                *)
(***************************************************************************)
EXTENDS RtspServer, Integers, DataLemmas

(* The backlog: connections whose sessions have yet to begin. *)
QueueOK ==
  /\ event => backlog # <<>>
  /\ \A j \in 1..Len(backlog) : client[backlog[j]].state # "new" /\ session[backlog[j]].pc = "none"
  /\ \A i, j \in 1..Len(backlog) : i # j => backlog[i] # backlog[j]
  /\ \A c \in Connection : session[c].pc # "none" => client[c].state # "new"
  /\ \A c \in Connection : session[c].pc = "starting" => session[c].client_fd \in Fd
  /\ \A c \in Connection : session[c].pc \in {"none", "starting", "failed"} => media[c] = <<>>

(* A media thread over the transport p has ended; the connection is still to be closed; *)
(* and the threads that are still to use it, or the socket of the session.           *)
Ended(ts, p) == \E k \in 1..Len(ts) : ts[k].proto = p /\ ts[k].pc = "ended"
ConnectionOpen(s, ts) == s.pc \notin {"none", "ended"} /\ ~Ended(ts, 1)
Uses(s, ts, p) ==
  \/ s.pc \notin {"none", "ended"}
  \/ \E k \in 1..Len(ts) : ts[k].pc = "starting" \/ (Active(ts[k]) /\ ts[k].proto = p)

(* The session s of connection c and its media threads ts have these numbers. *)
Numbered(s, ts) ==
  /\ s.pc # "none" => s.client_fd \in Fd
  /\ s.pc \in {"none", "starting"} => s.local_rtp_sock = Unset
  /\ s.local_rtp_sock = Unset \/ s.local_rtp_sock \in Fd
  /\ s.pc \notin {"none", "starting", "failed"} => s.local_rtp_sock \in Fd
  /\ s.pc \in {"none", "starting", "failed"} => ts = <<>>
  /\ \A k \in 1..Len(ts) : Active(ts[k]) =>
       ts[k].file \in Fd /\ ts[k].client_fd = s.client_fd /\ ts[k].sock = s.local_rtp_sock
  /\ \A k, l \in 1..Len(ts) : Active(ts[k]) /\ Active(ts[l]) /\ k # l => ts[k].file # ts[l].file

(* What they stand for: the connection and the socket until they are closed, nothing    *)
(* after that, and the files.                                                   *)
Behind(c, s, ts, tab) ==
  /\ ConnectionOpen(s, ts) => tab[s.client_fd] = Opened("connection", c)
  /\ Uses(s, ts, 1) /\ ~ConnectionOpen(s, ts) => tab[s.client_fd] = Closed
  /\ s.local_rtp_sock # Unset /\ ~Ended(ts, 0) => tab[s.local_rtp_sock] = Opened("rtp", c)
  /\ Uses(s, ts, 0) /\ Ended(ts, 0) => tab[s.local_rtp_sock] = Closed
  /\ \A k \in 1..Len(ts) : Active(ts[k]) => tab[ts[k].file] = Opened("file", c)

(* Nothing else in the table is theirs. *)
Only(c, s, ts, tab) ==
  \A f \in Fd :
    /\ tab[f] = Opened("connection", c) => ConnectionOpen(s, ts) /\ f = s.client_fd
    /\ tab[f] = Opened("rtp", c) => ~Ended(ts, 0) /\ f = s.local_rtp_sock
    /\ tab[f] = Opened("rtcp", c) => s.pc \notin {"none", "starting", "failed"}
    /\ tab[f] = Opened("file", c) => \E k \in 1..Len(ts) : Active(ts[k]) /\ ts[k].file = f

Owned(c, s, ts, tab) ==
  /\ s.pc # "blocked"
  /\ Numbered(s, ts) /\ Behind(c, s, ts, tab) /\ Only(c, s, ts, tab)
  /\ s.pc \notin {"none", "starting", "failed"} => \E f \in Fd : tab[f] = Opened("rtcp", c)

(* How many requests of c were taken out of the buffer. *)
Taken(c) == answered[c] + IF session[c].pc = "write" THEN 1 ELSE 0

(* The buffer holds what follows them. *)
ParseOK(c) ==
  /\ 2 * Taken(c) <= client[c].read
  /\ session[c].pc \in {"none", "starting"} =>
       answered[c] = 0 /\ client[c].read = 0 /\ session[c].buffer = <<>>
  /\ session[c].pc \in {"read", "write"} =>
       /\ client[c].read = 2 * Taken(c) + Len(session[c].buffer)
       /\ \A j \in 1..Len(session[c].buffer) : session[c].buffer[j] = <<c, 2 * Taken(c) + j>>
  /\ session[c].pc = "write" => session[c].msg = << <<c, 2 * Taken(c) - 1>>, <<c, 2 * Taken(c)>> >>

(* What was written to the connection; its client misses answers only when it is gone. *)
OutOK(c) ==
  /\ \A n \in 1..Len(out[c]) : out[c][n][2] = c
  /\ \A m, n \in Answers(c) : m < n => out[c][m][3] < out[c][n][3]
  /\ \E h \in 0..answered[c] : /\ {out[c][n][3] : n \in Answers(c)} = 1..h
                               /\ client[c].state # "closed" => h = answered[c]

(* What the TCP media threads of ts have written in o: after a header the payload, and    *)
(* between them no answer to a request before the PLAY.  A header without its payload is that of  *)
(* a thread that is about to write it, or never will.                              *)
Between(o, n, m, k) == \A x \in (n + 1)..(m - 1) : ~OfThread(o[x], k)
Interleaved(o, ts) ==
  /\ \A n \in 1..Len(o) : o[n][1] # "answer" => o[n][3] \in 1..Len(ts) /\ ts[o[n][3]].proto = 1
  /\ \A n, m \in 1..Len(o) : n < m /\ o[n][1] = "header" =>
       /\ o[m][1] = "answer" => o[m][3] > ts[o[n][3]].play
       /\ OfThread(o[m], o[n][3]) /\ Between(o, n, m, o[n][3]) => o[m][1] = "payload"
Pending(o, ts) ==
  \A n \in 1..Len(o) : o[n][1] = "header" /\ Between(o, n, Len(o) + 1, o[n][3]) =>
    ts[o[n][3]].pc \in {"payload", "closing", "ended"}
WholeOK(c) ==
  /\ \A k \in 1..Len(media[c]) : media[c][k].play <= answered[c]
  /\ Interleaved(out[c], media[c])
  /\ client[c].state # "closed" => Pending(out[c], media[c])

(* Why a session ends. *)
CauseOK(c) ==
  session[c].pc \in {"closing", "ended"}
    => client[c].state = "closed" \/ RefusedNext(c) \/ Ended(media[c], 1)

SoundInv ==
  \A c \in Connection : /\ Owned(c, session[c], media[c], table) /\ ParseOK(c)
                       /\ OutOK(c) /\ WholeOK(c) /\ CauseOK(c)

IInv == TypeOK /\ QueueOK /\ (Sound => SoundInv)

-----------------------------------------------------------------------------
(* Descriptors and writes.                                                    *)

LEMMA LowestFree ==
  ASSUME NEW S \in SUBSET Fd, S # {}
  PROVE  Min(S) \in S
<1>1. S \in SUBSET Nat
  BY FdAssumption
<1>2. \E x \in S : \A y \in S : x <= y
  BY <1>1, LeastNatural
<1> QED
  BY <1>2 DEF Min

Entry == {Closed, Earlier} \union ({"connection", "rtp", "rtcp", "file"} \X Connection)

LEMMA EntryLemma ==
  ASSUME NEW e \in Entry
  PROVE  /\ e[1] \in {"connection", "rtp", "rtcp", "file"} => e[2] \in Connection /\ e = Opened(e[1], e[2])
         /\ e[1] \notin {"connection", "rtp", "rtcp", "file"} => e[1] \in {"closed", "earlier"}
         /\ e = Closed => e[1] = "closed"
  BY DEF Entry, Closed, Earlier, Opened

LEMMA OpenedLemma ==
  ASSUME NEW c, NEW d, NEW x, NEW y
  PROVE  /\ Opened(x, c) = Opened(y, d) => x = y /\ c = d
         /\ Opened(x, c) # Closed /\ Opened(x, c)[1] = x /\ Opened(x, c)[2] = c
  BY DEF Opened, Closed

WriteUnit == {"answer", "header", "payload", "packet"} \X Connection \X Nat
OutUnit == {"answer", "header", "payload", "packet"} \X Connection \X Nat \X {"ok", "short"}
Sent(u, r) == <<u[1], u[2], u[3], r>>

LEMMA SentUnit ==
  ASSUME NEW u \in WriteUnit, NEW r \in {"ok", "short"}
  PROVE  Sent(u, r) \in OutUnit /\ Sent(u, r)[1] = u[1] /\ Sent(u, r)[2] = u[2] /\ Sent(u, r)[3] = u[3]
  BY DEF WriteUnit, OutUnit, Sent

(* A write that succeeds is one to a connection whose client is there. *)
LEMMA WriteEffect ==
  ASSUME TypeOK, NEW f, NEW u \in WriteUnit, NEW r, Write(f, u, r)
  PROVE  /\ out' \in [Connection -> Seq(OutUnit)] /\ exited' \in BOOLEAN
         /\ \A c \in Connection :
              \/ out'[c] = out[c]
              \/ /\ r \in {"ok", "short"} /\ f \in Fd /\ table[f] = Opened("connection", c)
                 /\ client[c].state = "open" /\ out'[c] = Append(out[c], Sent(u, r))
         /\ f \in Fd /\ table[f][1] \in {"rtp", "rtcp"} => out' = out
         /\ f \in Fd /\ table[f] = Closed => r = "fail" /\ out' = out
         /\ \A c \in Connection : f \in Fd /\ table[f] = Opened("connection", c) =>
              IF client[c].state = "open" THEN r \in {"ok", "short"} /\ out'[c] = Append(out[c], Sent(u, r))
              ELSE r \in {"lost", "fail", "pipe"} /\ out' = out
<1>1. out \in [Connection -> Seq(OutUnit)] /\ table \in [Fd -> Entry]
  BY DEF TypeOK, OutUnit, Entry
<1>2. exited' \in BOOLEAN
  BY DEF Write
<1>3. f \in Fd /\ table[f] = Closed => table[f][1] \notin {"connection", "rtp", "rtcp"}
  BY <1>1, EntryLemma
<1>4. CASE f \notin Fd \/ table[f] = Closed
  <2>1. Result(f) = {"fail"}
    BY <1>3, <1>4 DEF Result
  <2>2. r = "fail" /\ out' = out
    BY <2>1 DEF Write
  <2>3. \A c \in Connection : ~(f \in Fd /\ table[f] = Opened("connection", c))
    BY <1>4, OpenedLemma
  <2> QED
    BY <1>1, <1>2, <2>2, <2>3
<1>5. CASE f \in Fd /\ table[f] # Closed /\ table[f][1] # "connection"
  <2>1. Result(f) = {"lost", "fail"}
    BY <1>5 DEF Result
  <2>2. out' = out
    BY <2>1 DEF Write
  <2>3. \A c \in Connection : table[f] # Opened("connection", c)
    BY <1>5, OpenedLemma
  <2> QED
    BY <1>1, <1>2, <1>5, <2>2, <2>3
<1>6. CASE f \in Fd /\ table[f] # Closed /\ table[f][1] = "connection"
  <2>1. PICK d \in Connection : d = table[f][2] /\ table[f] = Opened("connection", d)
    BY <1>1, <1>6, EntryLemma
  <2>2. \A c \in Connection : table[f] = Opened("connection", c) <=> c = d
    BY <2>1, OpenedLemma
  <2>3. CASE client[d].state # "open"
    <3>1. Result(f) = {"lost", "fail", "pipe"}
      BY <1>6, <2>1, <2>3 DEF Result
    <3>2. r \in {"lost", "fail", "pipe"} /\ out' = out
      BY <3>1 DEF Write
    <3> QED
      BY <1>1, <1>2, <1>6, <2>2, <2>3, <3>2
  <2>4. CASE client[d].state = "open"
    <3>1. Result(f) = {"ok", "short"} \/ Result(f) = {"ok"}
      BY <1>6, <2>1, <2>4 DEF Result
    <3>2. r \in {"ok", "short"} /\ out' = [out EXCEPT ![d] = Append(@, Sent(u, r))]
      BY <2>1, <3>1 DEF Write, Sent
    <3>3. Sent(u, r) \in OutUnit
      BY <3>2, SentUnit
    <3>4. Append(out[d], Sent(u, r)) \in Seq(OutUnit)
      BY <1>1, <3>3
    <3>5. out' \in [Connection -> Seq(OutUnit)]
      BY <1>1, <3>2, <3>4
    <3>6. \A c \in Connection : IF c = d THEN out'[c] = Append(out[c], Sent(u, r)) ELSE out'[c] = out[c]
      BY <1>1, <3>2
    <3> QED
      BY <1>2, <1>6, <2>1, <2>2, <2>4, <3>2, <3>5, <3>6
  <2> QED
    BY <2>3, <2>4
<1> QED
  BY <1>4, <1>5, <1>6

-----------------------------------------------------------------------------
(* The steps of a session, as they change its record.                         *)

(* Nothing but the session of c changes, and it keeps its descriptors. *)
OnlySession(c) ==
  /\ session' \in [Connection -> Session]
  /\ \A d \in Connection \ {c} : session'[d] = session[d]
  /\ session'[c].client_fd = session[c].client_fd
  /\ session'[c].local_rtp_sock = session[c].local_rtp_sock

LEMMA EndEffect ==
  ASSUME TypeOK, NEW c \in Connection, End(c)
  PROVE  OnlySession(c) /\ session'[c].pc = "closing" /\ table' = table
<1>1. session \in [Connection -> Session] /\ session[c] \in Session
  BY DEF TypeOK
<1>2. session' = [session EXCEPT ![c] = [session[c] EXCEPT !.pc = "closing"]] /\ table' = table
  BY <1>1 DEF End
<1>3. [session[c] EXCEPT !.pc = "closing"] \in Session
  BY <1>1 DEF Session
<1>4. session'[c] = [session[c] EXCEPT !.pc = "closing"]
  BY <1>1, <1>2
<1> QED
  BY <1>1, <1>2, <1>3, <1>4 DEF OnlySession, Session

LEMMA ParseEffect ==
  ASSUME TypeOK, NEW c \in Connection, session[c].pc = "read", NEW buffer \in Seq(Unit),
         NEW errno \in {"other", "EAGAIN"}, Parse(c, buffer, errno)
  PROVE  /\ OnlySession(c) /\ table' = table
         /\ \/ /\ session'[c].pc = "read" /\ session'[c].buffer = buffer /\ Complete(c, buffer) = {}
            \/ /\ session'[c].pc = "closing" /\ Complete(c, buffer) # {}
               /\ Refused(c, SubSeq(buffer, 1, Min(Complete(c, buffer))))
            \/ /\ session'[c].pc = "write" /\ Complete(c, buffer) # {}
               /\ session'[c].msg = SubSeq(buffer, 1, Min(Complete(c, buffer)))
               /\ session'[c].buffer = Rest(buffer, Min(Complete(c, buffer)))
               /\ session'[c].msg # <<>> /\ session'[c].msg[1] # Junk
<1>1. session \in [Connection -> Session] /\ session[c] \in Session
  BY DEF TypeOK
<1>2. CASE Complete(c, buffer) = {}
  <2>1. session' = [session EXCEPT ![c] = [session[c] EXCEPT !.buffer = buffer, !.errno = errno]]
        /\ table' = table
    BY <1>1, <1>2 DEF Parse
  <2>2. [session[c] EXCEPT !.buffer = buffer, !.errno = errno] \in Session
    BY <1>1 DEF Session
  <2>3. session'[c] = [session[c] EXCEPT !.buffer = buffer, !.errno = errno]
    BY <1>1, <2>1
  <2>4. /\ session'[c].buffer = buffer /\ session'[c].pc = "read"
        /\ session'[c].client_fd = session[c].client_fd
        /\ session'[c].local_rtp_sock = session[c].local_rtp_sock
    BY <1>1, <2>3 DEF Session
  <2> QED
    BY <1>1, <1>2, <2>1, <2>2, <2>4 DEF OnlySession
<1>3. CASE Complete(c, buffer) # {}
  <2> DEFINE n == Min(Complete(c, buffer))
             msg == SubSeq(buffer, 1, n)
  <2>1. n \in 1..Len(buffer)
    <3>1. Complete(c, buffer) \in SUBSET (1..Len(buffer)) /\ Complete(c, buffer) \in SUBSET Nat
      BY DEF Complete
    <3>2. \E x \in Complete(c, buffer) : \A y \in Complete(c, buffer) : x <= y
      BY <1>3, <3>1, LeastNatural
    <3>3. n \in Complete(c, buffer)
      BY <3>2 DEF Min
    <3> QED
      BY <3>1, <3>3
  <2>2. CASE Refused(c, msg)
    BY <1>3, <2>2, EndEffect DEF Parse
  <2>3. CASE ~Refused(c, msg)
    <3>1. Len(buffer) \in Nat /\ n \in Nat /\ n >= 1 /\ n <= Len(buffer)
      BY <2>1
    <3>2. msg \in Seq(Unit) /\ Len(msg) = n
      <4> HIDE DEF n
      <4> QED
        BY <3>1, SubSeqProperties
    <3>3. Rest(buffer, n) \in Seq(Unit)
      <4> HIDE DEF n
      <4> QED
        BY <3>1, SubSeqProperties DEF Rest
    <3>4. Transport(c, msg) \in SUBSET (0..2)
      BY <1>1 DEF Transport, Session
    <3>5. Method(msg) # "unknown"
      BY <2>3 DEF Refused
    <3>6. msg # <<>> /\ msg[1] # Junk
      BY <3>1, <3>2, <3>5 DEF Method
    <3> DEFINE s == [session[c] EXCEPT !.buffer = Rest(buffer, n), !.errno = errno,
                                       !.transport = Transport(c, msg), !.msg = msg, !.pc = "write"]
    <3>7. session' = [session EXCEPT ![c] = s] /\ table' = table
      BY <1>1, <1>3, <2>3 DEF Parse
    <3> HIDE DEF n, msg
    <3>8. s \in Session
      BY <1>1, <3>2, <3>3, <3>4 DEF Session
    <3>9. /\ s.buffer = Rest(buffer, n) /\ s.msg = msg /\ s.pc = "write"
          /\ s.client_fd = session[c].client_fd /\ s.local_rtp_sock = session[c].local_rtp_sock
      BY <1>1 DEF Session
    <3> HIDE DEF s
    <3>10. session'[c] = s
      BY <1>1, <3>7
    <3>11. OnlySession(c)
      BY <1>1, <3>7, <3>8, <3>9, <3>10 DEF OnlySession
    <3> QED
      BY <1>3, <3>6, <3>7, <3>9, <3>10, <3>11 DEF n, msg
  <2> QED
    BY <2>2, <2>3
<1> QED
  BY <1>2, <1>3

(* What read() gave, when the descriptor stands for the connection d and when it stands    *)
(* for something else.                                                            *)
Arrived(c, d, n) == session[c].buffer \o [j \in 1..n |-> <<d, client[d].read + j>>]
ReadsFrom(c, d) ==
  \/ \E n \in 1..(client[d].sent - client[d].read) :
       /\ client' = [client EXCEPT ![d] = [client[d] EXCEPT !.read = @ + n]]
       /\ Parse(c, Arrived(c, d, n), session[c].errno)
  \/ /\ client' = client /\ client[d].sent = client[d].read
     /\ \E e \in {"other", "EAGAIN"} : Parse(c, session[c].buffer, e)
  \/ client' = client /\ client[d].state = "closed" /\ End(c)
ReadsOther(c) ==
  /\ client' = client
  /\ \/ End(c)
     \/ session' = [session EXCEPT ![c].pc = "blocked"] /\ table' = table
     \/ Parse(c, WithJunk(session[c].buffer), session[c].errno)

LEMMA ReadCases ==
  ASSUME TypeOK, NEW c \in Connection, Read(c) \/ ReadReset(c)
  PROVE  /\ session[c].pc = "read" /\ session[c].client_fd \in Fd
         /\ UNCHANGED <<script, loop, backlog, event, media, out, answered, exited>>
         /\ \/ \E d \in Connection : /\ table[session[c].client_fd] = Opened("connection", d)
                                     /\ ReadsFrom(c, d)
            \/ table[session[c].client_fd][1] # "connection" /\ ReadsOther(c)
<1>1. session[c].pc = "read" /\ UNCHANGED <<script, loop, backlog, event, media, out, answered, exited>>
  BY DEF Read, ReadReset
<1>2. PICK f \in Fd : f = session[c].client_fd
  BY <1>1 DEF TypeOK
<1>3. table[f] \in Entry /\ client \in [Connection -> [state : {"new", "open", "closed"}, sent : Nat, read : Nat]]
      /\ session[c].errno \in {"other", "EAGAIN"}
  BY <1>2 DEF TypeOK, Entry, Session
<1>4. CASE table[f][1] = "connection"
  <2>1. PICK d \in Connection : d = table[f][2] /\ table[f] = Opened("connection", d) /\ table[f] # Closed
    BY <1>3, <1>4, EntryLemma
  <2>2. CASE ReadReset(c)
    BY <1>1, <1>2, <2>1, <2>2 DEF ReadReset, ReadsFrom
  <2>3. CASE Read(c)
    <3>1. ReadConnection(c, d)
      BY <1>2, <1>4, <2>1, <2>3 DEF Read
    <3>2. client[d].sent \in Nat /\ client[d].read \in Nat
      BY <1>3
    <3>3. ASSUME NEW n \in 1..(client[d].sent - client[d].read),
                 client' = [client EXCEPT ![d].read = @ + n],
                 Parse(c, session[c].buffer \o [j \in 1..n |-> <<d, client[d].read + j>>], session[c].errno)
          PROVE  ReadsFrom(c, d)
      <4>1. client' = [client EXCEPT ![d] = [client[d] EXCEPT !.read = @ + n]]
        BY <1>3, <3>3
      <4> QED
        BY <3>3, <4>1 DEF ReadsFrom, Arrived
    <3>4. ASSUME client[d].sent - client[d].read = 0, client' = client,
                 \E e \in {"other", "EAGAIN"} : Parse(c, session[c].buffer, e)
          PROVE  ReadsFrom(c, d)
      BY <3>2, <3>4 DEF ReadsFrom
    <3>5. ReadsFrom(c, d)
      <4>1. \/ \E n \in 1..(client[d].sent - client[d].read) :
                 /\ client' = [client EXCEPT ![d].read = @ + n]
                 /\ Parse(c, session[c].buffer \o [j \in 1..n |-> <<d, client[d].read + j>>], session[c].errno)
            \/ /\ client[d].sent - client[d].read = 0 /\ client' = client
               /\ \/ Parse(c, session[c].buffer, "EAGAIN")
                  \/ Parse(c, session[c].buffer, session[c].errno)
            \/ client[d].state = "closed" /\ client' = client /\ End(c)
        BY <3>1 DEF ReadConnection
      <4> QED
        BY <1>3, <3>3, <3>4, <4>1 DEF ReadsFrom
    <3> QED
      BY <1>1, <1>2, <2>1, <3>5
  <2> QED
    BY <2>2, <2>3
<1>5. CASE table[f][1] # "connection"
  <2>1. Read(c)
    BY <1>2, <1>5 DEF ReadReset
  <2>2. CASE table[f] = Closed
    <3>1. End(c) /\ client' = client
      BY <1>2, <2>1, <2>2 DEF Read, Closed
    <3> QED
      BY <1>1, <1>2, <1>5, <3>1 DEF ReadsOther
  <2>3. CASE table[f] # Closed
    <3>1. CASE table[f][1] \in {"rtp", "rtcp", "earlier"}
      BY <1>1, <1>2, <1>5, <2>1, <2>3, <3>1 DEF Read, ReadsOther
    <3>2. CASE table[f][1] = "file"
      BY <1>1, <1>2, <1>5, <2>1, <2>3, <3>2 DEF Read, ReadsOther
    <3> QED
      BY <1>3, <1>5, <2>3, <3>1, <3>2 DEF Entry, Earlier
  <2> QED
    BY <2>2, <2>3
<1> QED
  BY <1>2, <1>4, <1>5

(* What read() is given is kept whole. *)
LEMMA ArrivedType ==
  ASSUME TypeOK, NEW c \in Connection, NEW d \in Connection, NEW n \in Nat
  PROVE  /\ Arrived(c, d, n) \in Seq(Unit) /\ Len(Arrived(c, d, n)) = Len(session[c].buffer) + n
         /\ \A j \in 1..Len(session[c].buffer) : Arrived(c, d, n)[j] = session[c].buffer[j]
         /\ \A j \in 1..n : Arrived(c, d, n)[Len(session[c].buffer) + j] = <<d, client[d].read + j>>
<1> DEFINE t == [j \in 1..n |-> <<d, client[d].read + j>>]
<1>1. PICK b \in Seq(Unit) : b = session[c].buffer
  BY DEF TypeOK, Session
<1>2. client[d].read \in Nat
  BY DEF TypeOK
<1>3. \A j \in 1..n : <<d, client[d].read + j>> \in Unit
  BY <1>2 DEF Unit
<1>4. t \in Seq(Unit) /\ Len(t) = n /\ \A j \in 1..n : t[j] = <<d, client[d].read + j>>
  BY <1>3
<1> HIDE DEF t
<1>5. /\ b \o t \in Seq(Unit) /\ Len(b \o t) = Len(b) + Len(t)
      /\ \A j \in 1..(Len(b) + Len(t)) : (b \o t)[j] = IF j <= Len(b) THEN b[j] ELSE t[j - Len(b)]
  BY <1>4, ConcatProperties
<1>6. \A j \in 1..Len(b) : (b \o t)[j] = b[j]
  BY <1>4, <1>5
<1>7. \A j \in 1..n : (b \o t)[Len(b) + j] = t[j]
  <2> TAKE j \in 1..n
  <2>1. Len(b) \in Nat /\ Len(b) + j \in 1..(Len(b) + Len(t)) /\ ~(Len(b) + j <= Len(b)) /\ (Len(b) + j) - Len(b) = j
    BY <1>4
  <2> QED
    BY <1>5, <2>1
<1> QED
  BY <1>1, <1>4, <1>5, <1>6, <1>7 DEF Arrived, t

LEMMA JunkType ==
  ASSUME NEW buffer \in Seq(Unit)
  PROVE  WithJunk(buffer) \in Seq(Unit)
  BY DEF WithJunk, Unit

ReadyType ==
  \A c \in Connection :
    /\ session[c].pc \in {"read", "write", "closing"} =>
         session[c].client_fd \in Fd /\ session[c].local_rtp_sock \in Fd
    /\ session[c].pc = "write" => session[c].msg # <<>> /\ session[c].msg[1] # Junk
ClientType ==
  /\ client \in [Connection -> [state : {"new", "open", "closed"}, sent : Nat, read : Nat]]
  /\ \A c \in Connection : /\ client[c].read <= client[c].sent
                                 /\ client[c].sent <= 2 * Len(script[c]) /\ client[c].sent % 2 = 0

ReadClient == ClientType' /\ \A x \in Connection : client'[x].state = client[x].state
ReadSession(c) == /\ OnlySession(c) /\ ReadyType' /\ table' = table
                  /\ session'[c].pc \in {"read", "write", "closing", "blocked"}

LEMMA ReadType ==
  ASSUME TypeOK, NEW c \in Connection, Read(c) \/ ReadReset(c)
  PROVE  ReadClient /\ ReadSession(c)
<1>0. /\ session[c].pc = "read" /\ session[c].client_fd \in Fd /\ session[c].local_rtp_sock \in Fd
      /\ session[c].buffer \in Seq(Unit) /\ session[c].errno \in {"other", "EAGAIN"}
      /\ script' = script
  BY ReadCases DEF TypeOK, Session
<1>1. /\ client \in [Connection -> [state : {"new", "open", "closed"}, sent : Nat, read : Nat]]
      /\ \A d \in Connection : /\ client[d].read <= client[d].sent
                                 /\ client[d].sent <= 2 * Len(script[d]) /\ client[d].sent % 2 = 0
  BY DEF TypeOK
<1>2. ASSUME OnlySession(c), session'[c].pc = "write" => session'[c].msg # <<>> /\ session'[c].msg[1] # Junk
      PROVE  ReadyType'
  BY <1>0, <1>2 DEF OnlySession, ReadyType, TypeOK
<1>3. ASSUME client' = client PROVE ReadClient
  BY <1>0, <1>1, <1>3 DEF ClientType, ReadClient
<1>4. ASSUME NEW b \in Seq(Unit), NEW e \in {"other", "EAGAIN"}, Parse(c, b, e)
      PROVE  ReadSession(c)
  BY <1>0, <1>2, <1>4, ParseEffect DEF ReadSession
<1>5. ASSUME End(c) PROVE ReadSession(c)
  BY <1>2, <1>5, EndEffect DEF ReadSession
<1>6. ASSUME NEW d \in Connection, ReadsFrom(c, d)
      PROVE  ReadClient /\ ReadSession(c)
  <2>1. ASSUME NEW n \in 1..(client[d].sent - client[d].read),
               client' = [client EXCEPT ![d] = [client[d] EXCEPT !.read = @ + n]],
               Parse(c, Arrived(c, d, n), session[c].errno)
        PROVE  ReadClient /\ ReadSession(c)
    <3>1. client[d].sent \in Nat /\ client[d].read \in Nat /\ n \in Nat /\ client[d].read + n <= client[d].sent
      BY <1>1
    <3>2. Arrived(c, d, n) \in Seq(Unit)
      BY <3>1, ArrivedType
    <3>3. [client[d] EXCEPT !.read = @ + n] \in [state : {"new", "open", "closed"}, sent : Nat, read : Nat]
      <4>1. client[d] \in [state : {"new", "open", "closed"}, sent : Nat, read : Nat] /\ client[d].read + n \in Nat
        BY <1>1, <3>1
      <4> QED
        BY <4>1
    <3>4. /\ client'[d].read = client[d].read + n /\ client'[d].sent = client[d].sent
          /\ client'[d].state = client[d].state
          /\ \A x \in Connection \ {d} : client'[x] = client[x]
      BY <1>1, <2>1
    <3>5. ClientType'
      <4>1. client' \in [Connection -> [state : {"new", "open", "closed"}, sent : Nat, read : Nat]]
        BY <1>1, <2>1, <3>3
      <4>2. \A x \in Connection : /\ client'[x].read <= client'[x].sent
                                  /\ client'[x].sent <= 2 * Len(script'[x]) /\ client'[x].sent % 2 = 0
        BY <1>0, <1>1, <3>1, <3>4
      <4> QED
        BY <4>1, <4>2 DEF ClientType
    <3> QED
      BY <1>0, <1>4, <2>1, <3>2, <3>4, <3>5 DEF ReadClient
  <2>2. CASE /\ client' = client /\ client[d].sent = client[d].read
             /\ \E e \in {"other", "EAGAIN"} : Parse(c, session[c].buffer, e)
    BY <1>0, <1>3, <1>4, <2>2
  <2>3. CASE client' = client /\ client[d].state = "closed" /\ End(c)
    BY <1>3, <1>5, <2>3
  <2> QED
    BY <1>6, <2>1, <2>2, <2>3 DEF ReadsFrom
<1>7. ASSUME ReadsOther(c) PROVE ReadClient /\ ReadSession(c)
  <2>1. ReadClient
    BY <1>3, <1>7 DEF ReadsOther
  <2>2. CASE End(c)
    BY <1>5, <2>1, <2>2
  <2>3. CASE Parse(c, WithJunk(session[c].buffer), session[c].errno)
    BY <1>0, <1>4, <2>1, <2>3, JunkType
  <2>4. CASE session' = [session EXCEPT ![c].pc = "blocked"] /\ table' = table
    <3>1. session \in [Connection -> Session] /\ session[c] \in Session
      BY DEF TypeOK
    <3>2. [session[c] EXCEPT !.pc = "blocked"] \in Session
      BY <3>1 DEF Session
    <3>3. session' = [session EXCEPT ![c] = [session[c] EXCEPT !.pc = "blocked"]]
      BY <2>4, <3>1
    <3>4. session'[c] = [session[c] EXCEPT !.pc = "blocked"]
      BY <3>1, <3>3
    <3>5. session'[c].pc = "blocked" /\ OnlySession(c)
      BY <3>1, <3>2, <3>3, <3>4 DEF OnlySession, Session
    <3> QED
      BY <1>2, <2>1, <2>4, <3>5 DEF ReadSession
  <2> QED
    BY <1>7, <2>2, <2>3, <2>4 DEF ReadsOther
<1> QED
  BY <1>6, <1>7, ReadCases

LEMMA AnswerEffect ==
  ASSUME TypeOK, NEW c \in Connection, Answer(c)
  PROVE  /\ session[c].pc = "write" /\ <<"answer", c, RequestOf(session[c].msg[1])>> \in WriteUnit
         /\ UNCHANGED <<script, client, loop, backlog, event, table>> /\ OnlySession(c)
         /\ \E r \in {"ok", "short", "lost", "fail", "pipe"} :
              /\ Write(session[c].client_fd, <<"answer", c, RequestOf(session[c].msg[1])>>, r)
              /\ \/ r \in {"fail", "pipe"} /\ UNCHANGED <<media, answered>> /\ session'[c].pc = "closing"
                 \/ /\ r \in {"ok", "short", "lost"}
                    /\ session'[c].pc = "read" /\ session'[c].buffer = session[c].buffer
                    /\ answered' = [answered EXCEPT ![c] = @ + 1]
                    /\ \/ Method(session[c].msg) # "PLAY" /\ media' = media
                       \/ /\ Method(session[c].msg) = "PLAY"
                          /\ \/ media' = media
                             \/ \E p \in {0, 1} : media' = [media EXCEPT ![c] =
                                  Append(media[c], NewThread(p, RequestOf(session[c].msg[1])))]
<1>1. /\ session[c].pc = "write" /\ UNCHANGED <<script, client, loop, backlog, event>>
      /\ session \in [Connection -> Session] /\ session[c] \in Session
      /\ media \in [Connection -> Seq(MediaThread)]
  BY DEF Answer, TypeOK
<1>2. <<"answer", c, RequestOf(session[c].msg[1])>> \in WriteUnit
  <2>1. session[c].msg \in Seq(Unit) /\ session[c].msg # <<>> /\ session[c].msg[1] # Junk
    BY <1>1 DEF TypeOK, Session
  <2>2. session[c].msg[1] \in Connection \X Nat
    BY <2>1 DEF Unit
  <2>3. session[c].msg[1][2] + 1 \in Nat
    BY <2>2
  <2>4. 2 \in Nat \ {0}
    OBVIOUS
  <2>5. RequestOf(session[c].msg[1]) \in Nat
    BY <2>3, <2>4, Division DEF RequestOf
  <2> QED
    BY <2>5 DEF WriteUnit
<1>3. PICK r \in {"ok", "short", "lost", "fail", "pipe"} :
        /\ Write(session[c].client_fd, <<"answer", c, RequestOf(session[c].msg[1])>>, r)
        /\ IF r \in {"fail", "pipe"} THEN End(c) /\ UNCHANGED <<media, answered>>
           ELSE /\ \E e \in {session[c].errno, "EAGAIN"} :
                     session' = [session EXCEPT ![c].pc = "read", ![c].errno = e, ![c].msg = <<>>]
                /\ answered' = [answered EXCEPT ![c] = @ + 1]
                /\ IF Method(session[c].msg) = "PLAY"
                   THEN \E p \in session[c].transport :
                          media' = [media EXCEPT ![c] = Started(@, p, RequestOf(session[c].msg[1]))]
                   ELSE UNCHANGED media
                /\ UNCHANGED table
  BY DEF Answer, AfterAnswer
<1>4. CASE r \in {"fail", "pipe"}
  BY <1>1, <1>2, <1>3, <1>4, EndEffect
<1>5. CASE r \notin {"fail", "pipe"}
  <2>0. PICK e \in {"other", "EAGAIN"} :
          session' = [session EXCEPT ![c].pc = "read", ![c].errno = e, ![c].msg = <<>>]
    <3>1. session[c].errno \in {"other", "EAGAIN"}
      BY <1>1 DEF Session
    <3> QED
      BY <1>3, <1>5, <3>1
  <2> DEFINE s == [session[c] EXCEPT !.pc = "read", !.errno = e, !.msg = <<>>]
  <2>1. session' = [session EXCEPT ![c] = s]
    BY <1>1, <2>0
  <2>2. s \in Session
    <3>1. <<>> \in Seq(Unit)
      OBVIOUS
    <3> QED
      BY <1>1, <3>1 DEF Session
  <2>3. /\ s.pc = "read" /\ s.buffer = session[c].buffer
        /\ s.client_fd = session[c].client_fd /\ s.local_rtp_sock = session[c].local_rtp_sock
    BY <1>1 DEF Session
  <2> HIDE DEF s
  <2>4. session'[c] = s
    BY <1>1, <2>1
  <2>5. OnlySession(c)
    BY <1>1, <2>1, <2>2, <2>3, <2>4 DEF OnlySession
  <2>6. CASE Method(session[c].msg) # "PLAY"
    BY <1>1, <1>2, <1>3, <1>5, <2>3, <2>4, <2>5, <2>6
  <2>7. CASE Method(session[c].msg) = "PLAY"
    <3>1. PICK p \in session[c].transport : media' = [media EXCEPT ![c] = Started(@, p, RequestOf(session[c].msg[1]))]
      BY <1>3, <1>5, <2>7
    <3>2. p \in {0, 1, 2}
      <4>1. session[c].transport \in SUBSET (0..2)
        BY <1>1 DEF Session
      <4>2. p \in 0..2
        BY <4>1
      <4> QED
        BY <4>2
    <3>3. media' = media \/ \E q \in {0, 1} : media' = [media EXCEPT ![c] =
                                Append(media[c], NewThread(q, RequestOf(session[c].msg[1])))]
      <4>1. CASE p = 2
        BY <1>1, <3>1, <4>1 DEF Started
      <4>2. CASE p # 2
        BY <1>1, <3>1, <3>2, <4>2 DEF Started
      <4> QED
        BY <4>1, <4>2
    <3> QED
      BY <1>1, <1>2, <1>3, <1>5, <2>3, <2>4, <2>5, <2>7, <3>3
  <2> QED
    BY <2>6, <2>7
<1> QED
  BY <1>4, <1>5

-----------------------------------------------------------------------------
(* The steps of a media thread.                                               *)

(* Nothing but thread k of c changes, and it keeps its transport and its PLAY. *)
OnlyThread(c, k) ==
  /\ media' \in [Connection -> Seq(MediaThread)]
  /\ \A d \in Connection \ {c} : media'[d] = media[d]
  /\ Len(media'[c]) = Len(media[c])
  /\ \A l \in 1..Len(media[c]) : l # k => media'[c][l] = media[c][l]
  /\ media'[c][k].proto = media[c][k].proto /\ media'[c][k].play = media[c][k].play

LEMMA ThreadUpdate ==
  ASSUME TypeOK, NEW c \in Connection, NEW k \in 1..Len(media[c]), NEW t \in MediaThread,
         t.proto = media[c][k].proto, t.play = media[c][k].play, media' = [media EXCEPT ![c] = [media[c] EXCEPT ![k] = t]]
  PROVE  OnlyThread(c, k) /\ media'[c][k] = t
<1>1. media \in [Connection -> Seq(MediaThread)] /\ media[c] \in Seq(MediaThread)
  BY DEF TypeOK
<1>2. PICK ts \in Seq(MediaThread) : ts = media[c]
  BY <1>1
<1> DEFINE us == [ts EXCEPT ![k] = t]
<1>3. us \in Seq(MediaThread) /\ Len(us) = Len(ts) /\ us[k] = t /\ \A l \in 1..Len(ts) : l # k => us[l] = ts[l]
  BY <1>2
<1> HIDE DEF us
<1>4. media' = [media EXCEPT ![c] = us]
  BY <1>2 DEF us
<1>5. media'[c] = us /\ media' \in [Connection -> Seq(MediaThread)]
      /\ \A d \in Connection \ {c} : media'[d] = media[d]
  BY <1>1, <1>3, <1>4
<1> QED
  BY <1>2, <1>3, <1>5 DEF OnlyThread

(* A thread that only changes its pc. *)
LEMMA ThreadMoves ==
  ASSUME TypeOK, NEW c \in Connection, NEW k \in 1..Len(media[c]),
         NEW pc \in {"starting", "header", "payload", "packet", "closing", "ended"},
         media' = [media EXCEPT ![c][k].pc = pc]
  PROVE  /\ OnlyThread(c, k) /\ media'[c][k].pc = pc
         /\ media'[c][k].file = media[c][k].file /\ media'[c][k].client_fd = media[c][k].client_fd
         /\ media'[c][k].sock = media[c][k].sock
<1> DEFINE t == [media[c][k] EXCEPT !.pc = pc]
<1>1. media \in [Connection -> Seq(MediaThread)] /\ media[c] \in Seq(MediaThread) /\ media[c][k] \in MediaThread
  BY DEF TypeOK
<1>2. t \in MediaThread
  BY <1>1 DEF MediaThread
<1>3. /\ t.pc = pc /\ t.proto = media[c][k].proto /\ t.play = media[c][k].play /\ t.file = media[c][k].file
      /\ t.client_fd = media[c][k].client_fd /\ t.sock = media[c][k].sock
  BY <1>1 DEF MediaThread
<1>4. media' = [media EXCEPT ![c] = [media[c] EXCEPT ![k] = t]]
  BY <1>1
<1>5. PICK u \in MediaThread : u = t
  BY <1>2
<1>6. u.proto = media[c][k].proto /\ u.play = media[c][k].play
  BY <1>3, <1>5
<1>7. media' = [media EXCEPT ![c] = [media[c] EXCEPT ![k] = u]]
  BY <1>4, <1>5
<1>8. OnlyThread(c, k) /\ media'[c][k] = u
  BY ONLY TypeOK, <1>6, <1>7, ThreadUpdate
<1> HIDE DEF t
<1> QED
  BY <1>3, <1>5, <1>8

LEMMA StartMediaEffect ==
  ASSUME TypeOK, NEW c \in Connection, NEW k \in 1..Len(media[c]), StartMedia(c, k)
  PROVE  /\ UNCHANGED <<script, client, loop, backlog, event, session, out, answered>> /\ exited' \in BOOLEAN
         /\ media[c][k].pc = "starting"
         /\ \/ UNCHANGED <<table, media>>
            \/ /\ media[c][k].proto = 0 /\ ~Connects(session[c].local_rtp_sock)
               /\ table' = table /\ OnlyThread(c, k) /\ media'[c][k].pc = "ended"
            \/ /\ Free # {} /\ table' = [table EXCEPT ![Min(Free)] = Opened("file", c)]
               /\ OnlyThread(c, k) /\ media'[c][k].pc \in {"header", "packet"}
               /\ media'[c][k].file = Min(Free) /\ media'[c][k].client_fd = session[c].client_fd
               /\ media'[c][k].sock = session[c].local_rtp_sock
<1>1. /\ UNCHANGED <<script, client, loop, backlog, event, session, out, answered>>
      /\ media[c][k].pc = "starting"
  BY DEF StartMedia
<1>2. exited' \in BOOLEAN
  BY DEF StartMedia, TypeOK
<1>3. CASE UNCHANGED <<table, media>>
  BY <1>1, <1>2, <1>3
<1>4. CASE /\ media[c][k].proto = 0 /\ ~Connects(session[c].local_rtp_sock)
           /\ media' = [media EXCEPT ![c][k].pc = "ended"] /\ table' = table
  <2>1. OnlyThread(c, k) /\ media'[c][k].pc = "ended"
    BY <1>4, ThreadMoves
  <2> QED
    BY <1>1, <1>2, <1>4, <2>1
<1>5. CASE /\ ~NoFile(c) /\ table' = [table EXCEPT ![Min(Free)] = Opened("file", c)]
           /\ media' = [media EXCEPT ![c][k] =
                [@ EXCEPT !.pc = IF media[c][k].proto = 1 THEN "header" ELSE "packet",
                          !.client_fd = session[c].client_fd, !.sock = session[c].local_rtp_sock,
                          !.file = Min(Free)]]
  <2>1. Free # {} /\ Free \in SUBSET Fd /\ Min(Free) \in Free
    BY <1>5, LowestFree DEF NoFile, Free
  <2>2. PICK f \in Fd : f = Min(Free)
    BY <2>1
  <2> DEFINE t == [media[c][k] EXCEPT !.pc = IF media[c][k].proto = 1 THEN "header" ELSE "packet",
                          !.client_fd = session[c].client_fd, !.sock = session[c].local_rtp_sock,
                          !.file = f]
  <2>3. media \in [Connection -> Seq(MediaThread)] /\ media[c] \in Seq(MediaThread) /\ media[c][k] \in MediaThread
        /\ session[c].client_fd \in AnyFd /\ session[c].local_rtp_sock \in AnyFd /\ f \in AnyFd
    BY DEF TypeOK, Session, AnyFd
  <2>4. t \in MediaThread
    BY <2>3 DEF MediaThread
  <2>5. /\ t.pc \in {"header", "packet"} /\ t.proto = media[c][k].proto /\ t.play = media[c][k].play /\ t.file = f
        /\ t.client_fd = session[c].client_fd /\ t.sock = session[c].local_rtp_sock
    BY <2>3 DEF MediaThread
  <2>6. media' = [media EXCEPT ![c] = [media[c] EXCEPT ![k] = t]]
    BY <1>5, <2>2, <2>3
  <2> HIDE DEF t
  <2>7. OnlyThread(c, k) /\ media'[c][k] = t
    BY <2>4, <2>5, <2>6, ThreadUpdate
  <2> QED
    BY <1>1, <1>2, <1>5, <2>1, <2>2, <2>5, <2>7
<1> QED
  BY <1>3, <1>4, <1>5 DEF StartMedia

LEMMA SendMediaEffect ==
  ASSUME TypeOK, NEW c \in Connection, NEW k \in 1..Len(media[c]), SendMedia(c, k)
  PROVE  /\ UNCHANGED <<script, client, loop, backlog, event, session, answered, table>>
         /\ media[c][k].pc \in {"header", "payload", "packet"} /\ <<media[c][k].pc, c, k>> \in WriteUnit
         /\ OnlyThread(c, k)
         /\ media'[c][k].file = media[c][k].file /\ media'[c][k].client_fd = media[c][k].client_fd
         /\ media'[c][k].sock = media[c][k].sock
         /\ \E r \in {"ok", "short", "lost", "fail", "pipe"} :
              /\ Write(Sink(media[c][k]), <<media[c][k].pc, c, k>>, r)
              /\ media'[c][k].pc = IF r = "fail" THEN "closing" ELSE NextWrite(media[c][k].pc)
<1>1. /\ UNCHANGED <<script, client, loop, backlog, event, session, answered>>
      /\ media[c][k].pc \in {"header", "payload", "packet"}
      /\ media[c][k].pc # "payload" => media[c][k].packets < MaxPackets
  BY DEF SendMedia
<1>2. <<media[c][k].pc, c, k>> \in WriteUnit
  <2>1. k \in Nat
    BY DEF TypeOK
  <2> QED
    BY <1>1, <2>1 DEF WriteUnit
<1>3. PICK r \in {"ok", "short", "lost", "fail", "pipe"} :
        /\ Write(Sink(media[c][k]), <<media[c][k].pc, c, k>>, r)
        /\ IF r = "fail" THEN Stop(c, k)
           ELSE media' = [media EXCEPT ![c][k] = Written(media[c][k])] /\ UNCHANGED table
  BY DEF SendMedia
<1>4. CASE r = "fail"
  <2>1. media' = [media EXCEPT ![c][k].pc = "closing"] /\ table' = table
    BY <1>3, <1>4 DEF Stop
  <2>2. /\ OnlyThread(c, k) /\ media'[c][k].pc = "closing"
        /\ media'[c][k].file = media[c][k].file /\ media'[c][k].client_fd = media[c][k].client_fd
        /\ media'[c][k].sock = media[c][k].sock
    BY <2>1, ThreadMoves
  <2> QED
    BY <1>1, <1>2, <1>3, <1>4, <2>1, <2>2
<1>5. CASE r # "fail"
  <2>1. media \in [Connection -> Seq(MediaThread)] /\ media[c] \in Seq(MediaThread) /\ media[c][k] \in MediaThread
    BY DEF TypeOK
  <2>2. PICK u \in MediaThread : u = media[c][k]
    BY <2>1
  <2>3. media' = [media EXCEPT ![c] = [media[c] EXCEPT ![k] = Written(u)]] /\ table' = table
    BY <1>3, <1>5, <2>1, <2>2
  <2> DEFINE n == IF u.pc = "payload" THEN u.packets ELSE u.packets + 1
  <2>4. n \in 0..MaxPackets /\ NextWrite(u.pc) \in {"header", "payload", "packet"}
    <3>1. u.packets \in 0..MaxPackets
      BY DEF MediaThread
    <3> QED
      BY <1>1, <2>2, <3>1, BoundAssumption DEF NextWrite
  <2>5. PICK t \in MediaThread : /\ t = Written(u) /\ t.pc = NextWrite(u.pc) /\ t.proto = u.proto /\ t.play = u.play
                                 /\ t.file = u.file /\ t.client_fd = u.client_fd /\ t.sock = u.sock
    <3>1. Written(u) = [u EXCEPT !.pc = NextWrite(u.pc), !.packets = n]
      BY DEF Written
    <3> HIDE DEF n
    <3>2. Written(u) \in MediaThread
      BY <2>4, <3>1 DEF MediaThread
    <3>3. /\ Written(u).pc = NextWrite(u.pc) /\ Written(u).proto = u.proto /\ Written(u).play = u.play
          /\ Written(u).file = u.file /\ Written(u).client_fd = u.client_fd /\ Written(u).sock = u.sock
      BY <3>1 DEF MediaThread
    <3> QED
      BY <3>2, <3>3
  <2>6. t.proto = media[c][k].proto /\ t.play = media[c][k].play /\ media' = [media EXCEPT ![c] = [media[c] EXCEPT ![k] = t]]
    BY <2>2, <2>3, <2>5
  <2>7. OnlyThread(c, k) /\ media'[c][k] = t
    BY <2>6, ThreadUpdate
  <2> QED
    BY <1>1, <1>2, <1>3, <1>5, <2>2, <2>3, <2>5, <2>7
<1> QED
  BY <1>4, <1>5

LEMMA GetFrameFailsEffect ==
  ASSUME TypeOK, NEW c \in Connection, NEW k \in 1..Len(media[c]), GetFrameFails(c, k)
  PROVE  /\ UNCHANGED <<script, client, loop, backlog, event, session, out, answered, exited, table>>
         /\ media[c][k].pc \in {"header", "packet"} /\ OnlyThread(c, k) /\ media'[c][k].pc = "closing"
         /\ media'[c][k].file = media[c][k].file /\ media'[c][k].client_fd = media[c][k].client_fd
         /\ media'[c][k].sock = media[c][k].sock
<1>1. /\ UNCHANGED <<script, client, loop, backlog, event, session, out, answered, exited, table>>
      /\ media[c][k].pc \in {"header", "packet"} /\ media' = [media EXCEPT ![c][k].pc = "closing"]
  BY DEF GetFrameFails, Stop
<1> QED
  BY <1>1, ThreadMoves

LEMMA CloseMediaEffect ==
  ASSUME TypeOK, NEW c \in Connection, NEW k \in 1..Len(media[c]), CloseMedia(c, k)
  PROVE  /\ UNCHANGED <<script, client, loop, backlog, event, session, out, answered, exited>>
         /\ media[c][k].pc = "closing" /\ OnlyThread(c, k) /\ media'[c][k].pc = "ended"
         /\ table' = Closing(Holds(media[c][k]))
<1>1. /\ UNCHANGED <<script, client, loop, backlog, event, session, out, answered, exited>>
      /\ media[c][k].pc = "closing" /\ media' = [media EXCEPT ![c][k].pc = "ended"]
      /\ table' = Closing(Holds(media[c][k]))
  BY DEF CloseMedia
<1> QED
  BY <1>1, ThreadMoves

-----------------------------------------------------------------------------
(* The beginning and the end of a session.                                    *)

LEMMA AcceptEffect ==
  ASSUME TypeOK, QueueOK, Accept
  PROVE  /\ UNCHANGED <<script, client, media, out, answered, exited>>
         /\ event' = FALSE /\ loop' \in {"running", "ended"}
         /\ \/ UNCHANGED <<backlog, table, session>>
            \/ \E d \in Connection, f \in Fd :
                 /\ backlog # <<>> /\ d = backlog[1] /\ backlog' = Tail(backlog) /\ table[f] = Closed
                 /\ table' = [table EXCEPT ![f] = Opened("connection", d)]
                 /\ session' \in [Connection -> Session]
                 /\ session'[d].pc = "starting" /\ session'[d].client_fd = f
                 /\ session'[d].local_rtp_sock = session[d].local_rtp_sock
                 /\ session'[d].buffer = session[d].buffer
                 /\ \A c \in Connection \ {d} : session'[c] = session[c]
<1>1. /\ UNCHANGED <<script, client, media, out, answered, exited>> /\ event /\ event' = FALSE
      /\ loop = "running"
  BY DEF Accept
<1>2. CASE Free = {}
  BY <1>1, <1>2 DEF Accept
<1>3. CASE Free # {}
  <2>1. Min(Free) \in Free
    BY <1>3, LowestFree DEF Free
  <2>2. PICK f \in Fd : f = Min(Free) /\ table[f] = Closed
    BY <2>1 DEF Free
  <2>3. backlog \in Seq(Connection) /\ backlog # <<>>
    BY <1>1 DEF TypeOK, QueueOK
  <2>4. PICK d \in Connection : d = Head(backlog) /\ d = backlog[1]
    BY <2>3
  <2>5. /\ backlog' = Tail(backlog) /\ loop' = loop
        /\ table' = [table EXCEPT ![f] = Opened("connection", d)]
        /\ session' = [session EXCEPT ![d].pc = "starting", ![d].client_fd = f]
    BY <1>3, <2>2, <2>4 DEF Accept, myon_connect_callback
  <2>6. session \in [Connection -> Session] /\ session[d] \in Session /\ f \in AnyFd
    BY DEF TypeOK, AnyFd
  <2> DEFINE s == [session[d] EXCEPT !.pc = "starting", !.client_fd = f]
  <2>7. session' = [session EXCEPT ![d] = s]
    BY <2>5, <2>6
  <2>8. s \in Session
    BY <2>6 DEF Session
  <2>9. s.pc = "starting" /\ s.client_fd = f /\ s.buffer = session[d].buffer
        /\ s.local_rtp_sock = session[d].local_rtp_sock
    BY <2>6 DEF Session
  <2> HIDE DEF s
  <2>10. session'[d] = s /\ session' \in [Connection -> Session]
         /\ \A c \in Connection \ {d} : session'[c] = session[c]
    BY <2>6, <2>7, <2>8
  <2> QED
    BY <1>1, <2>2, <2>3, <2>4, <2>5, <2>9, <2>10
<1> QED
  BY <1>2, <1>3

LEMMA StartEffect ==
  ASSUME TypeOK, NEW c \in Connection, Start(c)
  PROVE  /\ UNCHANGED <<script, client, loop, backlog, event, media, out, answered, exited>>
         /\ session[c].pc = "starting"
         /\ session' \in [Connection -> Session]
         /\ \A d \in Connection \ {c} : session'[d] = session[d]
         /\ session'[c].client_fd = session[c].client_fd /\ session'[c].buffer = session[c].buffer
         /\ \/ session'[c].pc = "failed" /\ table' = table /\ session'[c].local_rtp_sock = Unset
            \/ /\ session'[c].pc = "failed"
               /\ \E f \in Fd : /\ table[f] = Closed /\ table' = [table EXCEPT ![f] = Opened("rtp", c)]
                                /\ session'[c].local_rtp_sock = f
            \/ /\ session'[c].pc = "read"
               /\ \E f, g \in Fd : /\ f # g /\ table[f] = Closed /\ table[g] = Closed
                                   /\ table' = [[table EXCEPT ![f] = Opened("rtp", c)] EXCEPT ![g] = Opened("rtcp", c)]
                                   /\ session'[c].local_rtp_sock = f
<1>1. /\ UNCHANGED <<script, client, loop, backlog, event, media, out, answered, exited>>
      /\ session[c].pc = "starting"
  BY DEF Start
<1>2. session \in [Connection -> Session] /\ session[c] \in Session
  BY DEF TypeOK
<1> DEFINE Ports(ok, rtp, tab) ==
             /\ table' = tab
             /\ session' = [session EXCEPT ![c].pc = AfterPorts(ok), ![c].local_rtp_sock = rtp]
<1>3. ASSUME NEW ok \in BOOLEAN, NEW rtp \in AnyFd, NEW tab, Ports(ok, rtp, tab)
      PROVE  /\ session' \in [Connection -> Session]
             /\ \A d \in Connection \ {c} : session'[d] = session[d]
             /\ session'[c].client_fd = session[c].client_fd /\ session'[c].buffer = session[c].buffer
             /\ session'[c].local_rtp_sock = rtp /\ session'[c].pc = AfterPorts(ok)
  <2> DEFINE s == [session[c] EXCEPT !.pc = AfterPorts(ok), !.local_rtp_sock = rtp]
  <2>1. session' = [session EXCEPT ![c] = s]
    BY <1>2, <1>3
  <2>2. AfterPorts(ok) \in {"read", "failed"}
    BY DEF AfterPorts
  <2>3. s \in Session
    BY <1>2, <2>2 DEF Session
  <2>4. /\ s.pc = AfterPorts(ok) /\ s.local_rtp_sock = rtp
        /\ s.client_fd = session[c].client_fd /\ s.buffer = session[c].buffer
    BY <1>2 DEF Session
  <2> HIDE DEF s
  <2>5. session'[c] = s
    BY <1>2, <2>1
  <2> QED
    BY <1>2, <2>1, <2>3, <2>4, <2>5
<1>4. AfterPorts(TRUE) = "read" /\ AfterPorts(FALSE) = "failed" /\ Unset \in AnyFd /\ Fd \subseteq AnyFd
  BY DEF AfterPorts, AnyFd
<1>5. Ports(get_local_rtp_rtcp_port(c).ok, get_local_rtp_rtcp_port(c).rtp, get_local_rtp_rtcp_port(c).table)
  BY DEF Start
<1>6. CASE Free = {}
  <2>1. Ports(FALSE, Unset, table)
    BY <1>5, <1>6 DEF get_local_rtp_rtcp_port
  <2> HIDE DEF Ports
  <2>2. session'[c].pc = "failed" /\ session' \in [Connection -> Session] /\ session'[c].local_rtp_sock = Unset
        /\ (\A d \in Connection \ {c} : session'[d] = session[d])
        /\ session'[c].client_fd = session[c].client_fd /\ session'[c].buffer = session[c].buffer
    BY <1>3, <1>4, <2>1
  <2> QED
    BY <1>1, <2>1, <2>2 DEF Ports
<1>7. CASE Free # {}
  <2>1. PICK f \in Fd : f = Min(Free) /\ table[f] = Closed /\ f \in AnyFd
    BY <1>7, LowestFree DEF Free, AnyFd
  <2>2. CASE Free \ {f} = {}
    <3>1. Ports(FALSE, f, [table EXCEPT ![f] = Opened("rtp", c)])
      BY <1>5, <1>7, <2>1, <2>2 DEF get_local_rtp_rtcp_port
    <3> HIDE DEF Ports
    <3>2. session'[c].pc = "failed" /\ session' \in [Connection -> Session] /\ session'[c].local_rtp_sock = f
          /\ (\A d \in Connection \ {c} : session'[d] = session[d])
          /\ session'[c].client_fd = session[c].client_fd /\ session'[c].buffer = session[c].buffer
      BY <1>3, <1>4, <2>1, <3>1
    <3> QED
      BY <1>1, <2>1, <3>1, <3>2 DEF Ports
  <2>3. CASE Free \ {f} # {}
    <3>1. PICK g \in Fd : g = Min(Free \ {f}) /\ table[g] = Closed /\ f # g
      <4>1. Free \ {f} \in SUBSET Fd
        BY DEF Free
      <4>2. Min(Free \ {f}) \in Free \ {f}
        BY <2>3, <4>1, LowestFree
      <4> QED
        BY <4>2 DEF Free
    <3>2. Ports(TRUE, f, [[table EXCEPT ![f] = Opened("rtp", c)] EXCEPT ![g] = Opened("rtcp", c)])
      BY <1>5, <1>7, <2>1, <2>3, <3>1 DEF get_local_rtp_rtcp_port
    <3> HIDE DEF Ports
    <3>3. session'[c].pc = "read" /\ session' \in [Connection -> Session] /\ session'[c].local_rtp_sock = f
          /\ (\A d \in Connection \ {c} : session'[d] = session[d])
          /\ session'[c].client_fd = session[c].client_fd /\ session'[c].buffer = session[c].buffer
      BY <1>3, <1>4, <2>1, <3>2
    <3> QED
      BY <1>1, <2>1, <3>1, <3>2, <3>3 DEF Ports
  <2> QED
    BY <2>2, <2>3
<1> QED
  BY <1>6, <1>7

LEMMA CloseEffect ==
  ASSUME TypeOK, NEW c \in Connection, Close(c)
  PROVE  /\ UNCHANGED <<script, client, loop, backlog, event, media, out, answered, exited>>
         /\ session[c].pc = "closing" /\ OnlySession(c) /\ session'[c].pc = "ended"
         /\ table' = Closing({session[c].client_fd})
<1>1. /\ UNCHANGED <<script, client, loop, backlog, event, media, out, answered, exited>>
      /\ session[c].pc = "closing" /\ table' = Closing({session[c].client_fd})
      /\ session' = [session EXCEPT ![c].pc = "ended"]
  BY DEF Close
<1>2. session \in [Connection -> Session] /\ session[c] \in Session
  BY DEF TypeOK
<1>3. session' = [session EXCEPT ![c] = [session[c] EXCEPT !.pc = "ended"]]
  BY <1>1, <1>2
<1>4. [session[c] EXCEPT !.pc = "ended"] \in Session
  BY <1>2 DEF Session
<1>5. session'[c] = [session[c] EXCEPT !.pc = "ended"]
  BY <1>2, <1>3
<1>6. OnlySession(c) /\ session'[c].pc = "ended"
  BY <1>2, <1>3, <1>4, <1>5 DEF OnlySession, Session
<1> QED
  BY <1>1, <1>6

-----------------------------------------------------------------------------
(* Types.                                                                     *)

LEMMA TypeParts ==
  TypeOK <=>
    /\ script \in Script /\ ClientType /\ loop \in {"running", "ended"}
    /\ backlog \in Seq(Connection) /\ event \in BOOLEAN
    /\ table \in [Fd -> Entry] /\ session \in [Connection -> Session] /\ ReadyType
    /\ media \in [Connection -> Seq(MediaThread)] /\ out \in [Connection -> Seq(OutUnit)]
    /\ answered \in [Connection -> Nat] /\ reused \in BOOLEAN /\ exited \in BOOLEAN
  BY DEF TypeOK, ClientType, ReadyType, Entry, OutUnit

LEMMA TableType ==
  ASSUME table \in [Fd -> Entry], NEW c \in Connection
  PROVE  /\ \A f \in Fd : /\ [table EXCEPT ![f] = Opened("connection", c)] \in [Fd -> Entry]
                          /\ [table EXCEPT ![f] = Opened("rtp", c)] \in [Fd -> Entry]
                          /\ [table EXCEPT ![f] = Opened("file", c)] \in [Fd -> Entry]
         /\ \A f, g \in Fd : [[table EXCEPT ![f] = Opened("rtp", c)] EXCEPT ![g] = Opened("rtcp", c)] \in [Fd -> Entry]
         /\ \A fs : Closing(fs) \in [Fd -> Entry]
<1>1. Closed \in Entry /\ \A x \in {"connection", "rtp", "rtcp", "file"} : Opened(x, c) \in Entry
  BY DEF Entry, Opened
<1> QED
  BY <1>1 DEF Closing

LEMMA ReadyKept ==
  ASSUME TypeOK, NEW c \in Connection, OnlySession(c), session[c].pc \in {"read", "write", "closing"},
         session'[c].pc # "write"
  PROVE  ReadyType'
  BY DEF OnlySession, ReadyType, TypeOK

(* Steps that leave the sessions alone. *)
LEMMA ReadySame ==
  ASSUME TypeOK, session' = session
  PROVE  ReadyType' /\ session' \in [Connection -> Session]
  BY DEF ReadyType, TypeOK

LEMMA ClientSame ==
  ASSUME TypeOK, UNCHANGED <<script, client>>
  PROVE  ClientType' /\ script' \in Script
  BY DEF ClientType, TypeOK

LEMMA ClientStep ==
  ASSUME TypeOK, NEW c \in Connection, Connect(c) \/ Send(c) \/ Disconnect(c)
  PROVE  /\ ClientType' /\ \A d \in Connection \ {c} : client'[d] = client[d]
         /\ client'[c].read = client[c].read
<1>1. /\ client \in [Connection -> [state : {"new", "open", "closed"}, sent : Nat, read : Nat]]
      /\ client[c] \in [state : {"new", "open", "closed"}, sent : Nat, read : Nat]
      /\ \A d \in Connection : /\ client[d].read <= client[d].sent
                                 /\ client[d].sent <= 2 * Len(script[d]) /\ client[d].sent % 2 = 0
      /\ script[c] \in Seq({"OPTIONS", "SETUP_UDP", "SETUP_TCP", "PLAY", "OTHER", "unknown"})
  BY ScriptAssumption DEF TypeOK
<1>2. script' = script
  BY DEF Connect, Send, Disconnect
<1>3. ASSUME NEW x \in [state : {"new", "open", "closed"}, sent : Nat, read : Nat],
             client' = [client EXCEPT ![c] = x], x.read = client[c].read,
             x.read <= x.sent, x.sent <= 2 * Len(script[c]), x.sent % 2 = 0
      PROVE  /\ ClientType' /\ \A d \in Connection \ {c} : client'[d] = client[d]
             /\ client'[c].read = client[c].read
  BY <1>1, <1>2, <1>3 DEF ClientType
<1>4. CASE Connect(c)
  <2>1. client' = [client EXCEPT ![c] = [client[c] EXCEPT !.state = "open"]]
    BY <1>1, <1>4 DEF Connect
  <2>2. [client[c] EXCEPT !.state = "open"] \in [state : {"new", "open", "closed"}, sent : Nat, read : Nat]
    BY <1>1
  <2> QED
    BY <1>1, <1>3, <2>1, <2>2
<1>5. CASE Send(c)
  <2>1. client' = [client EXCEPT ![c] = [client[c] EXCEPT !.sent = client[c].sent + 2]]
    BY <1>1, <1>5 DEF Send
  <2>2. client[c].sent \in Nat /\ client[c].read \in Nat /\ client[c].sent < 2 * Len(script[c]) /\ Len(script[c]) \in Nat
    BY <1>1, <1>5 DEF Send
  <2> DEFINE x == [client[c] EXCEPT !.sent = client[c].sent + 2]
  <2>3. x \in [state : {"new", "open", "closed"}, sent : Nat, read : Nat] /\ x.sent = client[c].sent + 2
        /\ x.read = client[c].read
    BY <1>1, <2>2
  <2> HIDE DEF x
  <2>4. client[c].sent % 2 = 0 /\ client[c].read <= client[c].sent
    BY <1>1
  <2>5. client[c].sent + 2 <= 2 * Len(script[c]) /\ (client[c].sent + 2) % 2 = 0
        /\ client[c].read <= client[c].sent + 2
    <3>1. PICK n \in Nat : n = client[c].sent
      BY <2>2
    <3>2. PICK l \in Nat : l = Len(script[c])
      BY <2>2
    <3>3. n < 2 * l /\ n % 2 = 0
      BY <2>2, <2>4, <3>1, <3>2
    <3>4. n + 2 <= 2 * l /\ (n + 2) % 2 = 0
      BY <3>3
    <3> QED
      BY <2>2, <2>4, <3>1, <3>2, <3>4
  <2>6. client' = [client EXCEPT ![c] = x]
    BY <2>1 DEF x
  <2> QED
    BY <1>3, <2>3, <2>5, <2>6
<1>6. CASE Disconnect(c)
  <2>1. client' = [client EXCEPT ![c] = [client[c] EXCEPT !.state = "closed"]]
    BY <1>1, <1>6 DEF Disconnect
  <2>2. [client[c] EXCEPT !.state = "closed"] \in [state : {"new", "open", "closed"}, sent : Nat, read : Nat]
    BY <1>1
  <2> QED
    BY <1>1, <1>3, <2>1, <2>2
<1> QED
  BY <1>4, <1>5, <1>6

LEMMA NewThreadType ==
  ASSUME NEW p \in {0, 1}, NEW n \in Nat
  PROVE  /\ NewThread(p, n) \in MediaThread /\ NewThread(p, n).pc = "starting"
         /\ NewThread(p, n).proto = p /\ NewThread(p, n).play = n
  BY BoundAssumption DEF NewThread, MediaThread, AnyFd

LEMMA ReusedStep ==
  ASSUME TypeOK, Next
  PROVE  reused' \in BOOLEAN /\ (Sound' => Sound)
<1>0. reused \in BOOLEAN
  BY DEF TypeOK
<1>1. CASE reused' = reused
  BY <1>0, <1>1 DEF Sound
<1>2. CASE Reuse
  BY <1>0, <1>2 DEF Sound, Reuse
<1>3. CASE Accept
  BY <1>2, <1>3 DEF Accept
<1>4. ASSUME NEW c \in Connection, Connect(c) \/ Send(c) \/ Disconnect(c) PROVE reused' = reused
  BY <1>4 DEF Connect, Send, Disconnect
<1>5. ASSUME NEW c \in Connection, Start(c) PROVE Reuse
  BY <1>5 DEF Start
<1>6. ASSUME NEW c \in Connection, Read(c) \/ ReadReset(c) PROVE reused' = reused
  BY <1>6 DEF Read, ReadReset
<1>7. ASSUME NEW c \in Connection, Answer(c) \/ Close(c) PROVE reused' = reused
  BY <1>7 DEF Answer, Close
<1>8. ASSUME NEW c \in Connection, NEW k \in 1..Len(media[c]), StartMedia(c, k) PROVE Reuse
  BY <1>8 DEF StartMedia
<1>9. ASSUME NEW c \in Connection, NEW k \in 1..Len(media[c]),
             GetFrameFails(c, k) \/ SendMedia(c, k) \/ CloseMedia(c, k) PROVE reused' = reused
  BY <1>9 DEF GetFrameFails, SendMedia, CloseMedia
<1> QED
  BY <1>1, <1>2, <1>3, <1>4, <1>5, <1>6, <1>7, <1>8, <1>9 DEF Next

LEMMA TypeStep ==
  ASSUME TypeOK, QueueOK, Next
  PROVE  TypeOK'
<1>0. /\ script \in Script /\ ClientType /\ loop \in {"running", "ended"}
      /\ backlog \in Seq(Connection) /\ event \in BOOLEAN
      /\ table \in [Fd -> Entry] /\ session \in [Connection -> Session] /\ ReadyType
      /\ media \in [Connection -> Seq(MediaThread)] /\ out \in [Connection -> Seq(OutUnit)]
      /\ answered \in [Connection -> Nat] /\ reused \in BOOLEAN /\ exited \in BOOLEAN
  BY TypeParts
<1>a. ASSUME script' \in Script, ClientType', loop' \in {"running", "ended"}, backlog' \in Seq(Connection),
             event' \in BOOLEAN, table' \in [Fd -> Entry], session' \in [Connection -> Session], ReadyType',
             media' \in [Connection -> Seq(MediaThread)], out' \in [Connection -> Seq(OutUnit)],
             answered' \in [Connection -> Nat], exited' \in BOOLEAN
      PROVE  TypeOK'
  <2>1. reused' \in BOOLEAN
    BY ReusedStep
  <2> QED
    BY <1>a, <2>1 DEF TypeOK, ClientType, ReadyType, Entry, OutUnit
<1>1. CASE Accept
  <2>1. UNCHANGED <<script, client, media, out, answered, exited>> /\ event' = FALSE
        /\ loop' \in {"running", "ended"}
    BY <1>1, AcceptEffect
  <2>2. CASE UNCHANGED <<backlog, table, session>>
    BY <1>0, <1>a, <2>1, <2>2, ReadySame, ClientSame
  <2>3. ASSUME NEW d \in Connection, NEW f \in Fd, backlog # <<>>,
               backlog' = Tail(backlog), table' = [table EXCEPT ![f] = Opened("connection", d)],
               session' \in [Connection -> Session], session'[d].pc = "starting",
               \A c \in Connection \ {d} : session'[c] = session[c]
        PROVE  /\ backlog' \in Seq(Connection) /\ table' \in [Fd -> Entry]
               /\ session' \in [Connection -> Session] /\ ReadyType'
    <3>1. backlog' \in Seq(Connection)
      BY <1>0, <2>3
    <3>2. table' \in [Fd -> Entry]
      BY <1>0, <2>3, TableType
    <3>3. ReadyType'
      BY <1>0, <2>3 DEF ReadyType
    <3> QED
      BY <2>3, <3>1, <3>2, <3>3
  <2> QED
    <3>1. CASE ~UNCHANGED <<backlog, table, session>>
      <4>1. /\ backlog' \in Seq(Connection) /\ table' \in [Fd -> Entry]
            /\ session' \in [Connection -> Session] /\ ReadyType'
        BY <1>1, <2>3, <3>1, AcceptEffect
      <4> QED
        BY <1>0, <1>a, <2>1, <4>1, ClientSame
    <3> QED
      BY <2>2, <3>1
<1>2. ASSUME NEW c \in Connection, Connect(c) \/ Send(c) \/ Disconnect(c) PROVE TypeOK'
  <2>1. ClientType'
    BY <1>2, ClientStep
  <2>2. UNCHANGED <<script, loop, table, session, media, out, answered, exited>>
    BY <1>2 DEF Connect, Send, Disconnect
  <2>3. backlog' \in Seq(Connection)
    <3>1. Append(backlog, c) \in Seq(Connection)
      BY <1>0
    <3> QED
      BY <1>0, <1>2, <3>1 DEF Connect, Send, Disconnect
  <2>4. event' \in BOOLEAN
    BY <1>0, <1>2 DEF Connect, Send, Disconnect
  <2> QED
    BY <1>0, <1>a, <2>1, <2>2, <2>3, <2>4, ReadySame
<1>3. ASSUME NEW c \in Connection, Start(c) PROVE TypeOK'
  <2>1. /\ UNCHANGED <<script, client, loop, backlog, event, media, out, answered, exited>>
        /\ session' \in [Connection -> Session] /\ session[c].pc = "starting"
        /\ \A d \in Connection \ {c} : session'[d] = session[d]
        /\ session'[c].client_fd = session[c].client_fd
    BY <1>3, StartEffect
  <2>2. session'[c].pc \in {"failed", "read"} /\ (session'[c].pc = "read" => session'[c].local_rtp_sock \in Fd)
    BY <1>3, StartEffect
  <2>3. ReadyType'
    BY <1>0, <2>1, <2>2, ZenonT(40) DEF ReadyType, QueueOK
  <2>4. table' \in [Fd -> Entry]
    <3>1. \/ table' = table
          \/ \E f \in Fd : table' = [table EXCEPT ![f] = Opened("rtp", c)]
          \/ \E f, g \in Fd : table' = [[table EXCEPT ![f] = Opened("rtp", c)] EXCEPT ![g] = Opened("rtcp", c)]
      BY <1>3, StartEffect
    <3>2. /\ \A f \in Fd : [table EXCEPT ![f] = Opened("rtp", c)] \in [Fd -> Entry]
          /\ \A f, g \in Fd : [[table EXCEPT ![f] = Opened("rtp", c)] EXCEPT ![g] = Opened("rtcp", c)] \in [Fd -> Entry]
      BY <1>0, TableType
    <3>3. CASE \E f \in Fd : table' = [table EXCEPT ![f] = Opened("rtp", c)]
      <4>1. PICK f \in Fd : table' = [table EXCEPT ![f] = Opened("rtp", c)]
        BY <3>3
      <4> QED
        BY <3>2, <4>1
    <3>4. CASE \E f, g \in Fd : table' = [[table EXCEPT ![f] = Opened("rtp", c)] EXCEPT ![g] = Opened("rtcp", c)]
      <4>1. PICK f \in Fd, g \in Fd :
              table' = [[table EXCEPT ![f] = Opened("rtp", c)] EXCEPT ![g] = Opened("rtcp", c)]
        BY <3>4
      <4>2. [[table EXCEPT ![f] = Opened("rtp", c)] EXCEPT ![g] = Opened("rtcp", c)] \in [Fd -> Entry]
        BY <3>2
      <4> QED
        BY <4>1, <4>2, Zenon
    <3> QED
      BY <1>0, <3>1, <3>3, <3>4
  <2> QED
    BY <1>0, <1>a, <2>1, <2>3, <2>4, ClientSame
<1>4. ASSUME NEW c \in Connection, Read(c) \/ ReadReset(c) PROVE TypeOK'
  <2>1. UNCHANGED <<script, loop, backlog, event, media, out, answered, exited>>
    BY <1>4, ReadCases
  <2>2. ClientType' /\ OnlySession(c) /\ ReadyType' /\ table' = table
    BY <1>4, ReadType DEF ReadClient, ReadSession
  <2> QED
    BY <1>0, <1>a, <2>1, <2>2 DEF OnlySession
<1>5. ASSUME NEW c \in Connection, Answer(c) PROVE TypeOK'
  <2>1. /\ session[c].pc = "write" /\ OnlySession(c) /\ session'[c].pc # "write"
        /\ UNCHANGED <<script, client, loop, backlog, event, table>>
    BY <1>5, AnswerEffect
  <2>2. out' \in [Connection -> Seq(OutUnit)] /\ exited' \in BOOLEAN
    BY <1>5, AnswerEffect, WriteEffect
  <2>3. answered' \in [Connection -> Nat]
    <3>1. answered' = answered \/ answered' = [answered EXCEPT ![c] = @ + 1]
      BY <1>5, AnswerEffect
    <3>2. answered[c] + 1 \in Nat
      BY <1>0
    <3> QED
      BY <1>0, <3>1, <3>2
  <2>4. media' \in [Connection -> Seq(MediaThread)]
    <3>0. PICK n \in Nat : n = RequestOf(session[c].msg[1])
      BY <1>5, AnswerEffect DEF WriteUnit
    <3>1. media' = media \/ \E p \in {0, 1} : media' = [media EXCEPT ![c] = Append(media[c], NewThread(p, n))]
      BY <1>5, <3>0, AnswerEffect
    <3>2. \A p \in {0, 1} : NewThread(p, n) \in MediaThread
      BY NewThreadType
    <3>3. \A p \in {0, 1} : Append(media[c], NewThread(p, n)) \in Seq(MediaThread)
      BY <1>0, <3>2
    <3> QED
      BY <1>0, <3>1, <3>3
  <2>5. ReadyType' /\ session' \in [Connection -> Session]
    BY <2>1, ReadyKept DEF OnlySession
  <2> QED
    BY <1>0, <1>a, <2>1, <2>2, <2>3, <2>4, <2>5, ClientSame
<1>6. ASSUME NEW c \in Connection, Close(c) PROVE TypeOK'
  <2>1. /\ UNCHANGED <<script, client, loop, backlog, event, media, out, answered, exited>>
        /\ session[c].pc = "closing" /\ OnlySession(c) /\ session'[c].pc = "ended"
        /\ table' = Closing({session[c].client_fd})
    BY <1>6, CloseEffect
  <2>2. ReadyType' /\ session' \in [Connection -> Session]
    BY <2>1, ReadyKept DEF OnlySession
  <2>3. table' \in [Fd -> Entry]
    BY <1>0, <2>1, TableType
  <2> QED
    BY <1>0, <1>a, <2>1, <2>2, <2>3, ClientSame
<1>7. ASSUME NEW c \in Connection, NEW k \in 1..Len(media[c]),
             StartMedia(c, k) \/ GetFrameFails(c, k) \/ CloseMedia(c, k) PROVE TypeOK'
  <2>1. UNCHANGED <<script, client, loop, backlog, event, session, out, answered>> /\ exited' \in BOOLEAN
    BY <1>0, <1>7, StartMediaEffect, GetFrameFailsEffect, CloseMediaEffect
  <2>2. media' \in [Connection -> Seq(MediaThread)]
    BY <1>0, <1>7, StartMediaEffect, GetFrameFailsEffect, CloseMediaEffect DEF OnlyThread
  <2>3. table' \in [Fd -> Entry]
    <3>1. CASE StartMedia(c, k)
      <4>1. table' = table \/ (Free # {} /\ table' = [table EXCEPT ![Min(Free)] = Opened("file", c)])
        BY <3>1, StartMediaEffect
      <4>2. Free # {} => Min(Free) \in Fd
        BY LowestFree DEF Free
      <4>3. \A f \in Fd : [table EXCEPT ![f] = Opened("file", c)] \in [Fd -> Entry]
        BY <1>0, TableType
      <4> QED
        BY <1>0, <4>1, <4>2, <4>3, Zenon
    <3>2. CASE GetFrameFails(c, k)
      <4>1. table' = table
        BY <3>2, GetFrameFailsEffect
      <4> QED
        BY <1>0, <4>1
    <3>3. CASE CloseMedia(c, k)
      <4>1. table' = Closing(Holds(media[c][k]))
        BY <3>3, CloseMediaEffect
      <4> QED
        BY <1>0, <4>1, TableType
    <3> QED
      BY <1>7, <3>1, <3>2, <3>3
  <2> QED
    BY <1>0, <1>a, <2>1, <2>2, <2>3, ReadySame, ClientSame
<1>8. ASSUME NEW c \in Connection, NEW k \in 1..Len(media[c]), SendMedia(c, k) PROVE TypeOK'
  <2>1. UNCHANGED <<script, client, loop, backlog, event, session, answered, table>> /\ OnlyThread(c, k)
    BY <1>8, SendMediaEffect
  <2>2. out' \in [Connection -> Seq(OutUnit)] /\ exited' \in BOOLEAN
    BY <1>8, SendMediaEffect, WriteEffect
  <2> QED
    BY <1>0, <1>a, <2>1, <2>2, ReadySame, ClientSame DEF OnlyThread
<1> QED
  BY <1>1, <1>2, <1>3, <1>4, <1>5, <1>6, <1>7, <1>8, <1>a DEF Next

-----------------------------------------------------------------------------
(* The backlog.                                                               *)

LEMMA QueueKept ==
  ASSUME TypeOK, QueueOK, UNCHANGED <<backlog, event>>,
         \A x \in Connection : client[x].state # "new" => client'[x].state # "new",
         \A x \in Connection : session'[x].pc = "none" <=> session[x].pc = "none",
         \A x \in Connection : session'[x].pc = "starting" =>
                                 session[x].pc = "starting" /\ session'[x].client_fd = session[x].client_fd,
         \A x \in Connection : session'[x].pc \in {"none", "starting", "failed"} => media'[x] = <<>>
  PROVE  QueueOK'
<1>1. \A j \in 1..Len(backlog) : backlog[j] \in Connection
  BY DEF TypeOK
<1> QED
  BY <1>1 DEF QueueOK

(* Only the session of c moves on, and not to its beginning. *)
LEMMA QueueSession ==
  ASSUME TypeOK, QueueOK, NEW c \in Connection, UNCHANGED <<backlog, event>>, OnlySession(c),
         \A x \in Connection : client'[x].state = client[x].state,
         \A x \in Connection \ {c} : media'[x] = media[x],
         session[c].pc \notin {"none", "starting", "failed"},
         session'[c].pc \notin {"none", "starting", "failed"}
  PROVE  QueueOK'
<1>1. \A x \in Connection : session'[x].pc \in {"none", "starting", "failed"} =>
        session'[x] = session[x] /\ media'[x] = media[x]
  BY DEF OnlySession
<1>2. \A x \in Connection : session'[x].pc = "none" <=> session[x].pc = "none"
  BY DEF OnlySession
<1> QED
  BY <1>1, <1>2, QueueKept DEF QueueOK

LEMMA QueueStep ==
  ASSUME TypeOK, QueueOK, Next
  PROVE  QueueOK'
<1>0. backlog \in Seq(Connection) /\ Len(backlog) \in Nat /\ (\A j \in 1..Len(backlog) : backlog[j] \in Connection)
      /\ client \in [Connection -> [state : {"new", "open", "closed"}, sent : Nat, read : Nat]]
  BY DEF TypeOK
<1>1. CASE Accept
  <2>1. UNCHANGED <<script, client, media, out, answered, exited>> /\ event' = FALSE
    BY <1>1, AcceptEffect
  <2>2. CASE UNCHANGED <<backlog, session>>
    BY <2>1, <2>2 DEF QueueOK
  <2>3. ASSUME NEW d \in Connection, NEW f \in Fd, backlog # <<>>, d = backlog[1],
               backlog' = Tail(backlog),
               session'[d].pc = "starting", session'[d].client_fd = f,
               \A c \in Connection \ {d} : session'[c] = session[c]
        PROVE  QueueOK'
    <3>1. /\ Len(backlog') = Len(backlog) - 1
          /\ \A j \in 1..Len(backlog') : backlog'[j] = backlog[j + 1] /\ j + 1 \in 1..Len(backlog) /\ j + 1 # 1
          /\ 1 \in 1..Len(backlog)
      BY <1>0, <2>3, HeadTailProperties
    <3>2. \A j \in 1..Len(backlog') : backlog'[j] \in Connection \ {d}
      BY <1>0, <2>3, <3>1, SMTT(20) DEF QueueOK
    <3>3. \A j \in 1..Len(backlog') : client[backlog'[j]].state # "new" /\ session'[backlog'[j]].pc = "none"
      BY <2>3, <3>1, <3>2 DEF QueueOK
    <3>4. \A i, j \in 1..Len(backlog') : i # j => backlog'[i] # backlog'[j]
      BY <3>1, SMTT(20) DEF QueueOK
    <3>5. session[d].pc = "none" /\ client[d].state # "new" /\ media[d] = <<>>
      BY <2>3, <3>1 DEF QueueOK
    <3>6. \A c \in Connection :
            /\ session'[c].pc # "none" => client[c].state # "new"
            /\ session'[c].pc = "starting" => session'[c].client_fd \in Fd
            /\ session'[c].pc \in {"none", "starting", "failed"} => media[c] = <<>>
      <4> TAKE c \in Connection
      <4>1. CASE c = d
        BY <2>3, <3>5, <4>1
      <4>2. CASE c # d
        BY <2>3, <4>2 DEF QueueOK
      <4> QED
        BY <4>1, <4>2
    <3> QED
      BY <2>1, <3>3, <3>4, <3>6 DEF QueueOK
  <2> QED
    BY <1>1, <2>2, <2>3, AcceptEffect
<1>2. ASSUME NEW c \in Connection, Connect(c) PROVE QueueOK'
  <2>1. /\ client[c].state = "new" /\ backlog' = Append(backlog, c) /\ event' = TRUE
        /\ UNCHANGED <<session, media>>
        /\ client' = [client EXCEPT ![c].state = "open"]
    BY <1>2 DEF Connect
  <2>2. client'[c].state = "open" /\ \A x \in Connection \ {c} : client'[x] = client[x]
    BY <1>0, <2>1
  <2>3. session[c].pc = "none" /\ \A j \in 1..Len(backlog) : backlog[j] # c
    BY <2>1 DEF QueueOK
  <2>4. /\ Len(backlog') = Len(backlog) + 1 /\ backlog'[Len(backlog) + 1] = c
        /\ \A j \in 1..Len(backlog') : \/ j \in 1..Len(backlog) /\ backlog'[j] = backlog[j]
                                       \/ j = Len(backlog) + 1 /\ backlog'[j] = c
    BY <1>0, <2>1, AppendElement
  <2>5. backlog' # <<>>
    BY <1>0, <2>1
  <2>6. \A j \in 1..Len(backlog') : client'[backlog'[j]].state # "new" /\ session[backlog'[j]].pc = "none"
    BY <1>0, <2>2, <2>3, <2>4, SMTT(20) DEF QueueOK
  <2>7. \A i, j \in 1..Len(backlog') : i # j => backlog'[i] # backlog'[j]
    BY <2>3, <2>4 DEF QueueOK
  <2>8. \A x \in Connection : session[x].pc # "none" => client'[x].state # "new"
    BY <2>2 DEF QueueOK
  <2> QED
    BY <2>1, <2>5, <2>6, <2>7, <2>8 DEF QueueOK
<1>3. ASSUME NEW c \in Connection, Send(c) \/ Disconnect(c) PROVE QueueOK'
  <2>1. UNCHANGED <<backlog, event, session, media>>
    BY <1>3 DEF Send, Disconnect
  <2>2. \A x \in Connection : client[x].state # "new" => client'[x].state # "new"
    BY <1>0, <1>3 DEF Send, Disconnect
  <2> QED
    BY <2>1, <2>2, QueueKept DEF QueueOK
<1>4. ASSUME NEW c \in Connection, Start(c) PROVE QueueOK'
  <2>1. /\ UNCHANGED <<client, backlog, event, media>> /\ session[c].pc = "starting"
        /\ \A d \in Connection \ {c} : session'[d] = session[d]
        /\ session'[c].pc \in {"failed", "read"}
    BY <1>4, StartEffect
  <2>2. \A x \in Connection : session'[x].pc \in {"none", "starting", "failed"} => media[x] = <<>>
    BY <2>1 DEF QueueOK
  <2> QED
    BY <2>1, <2>2, QueueKept
<1>5. ASSUME NEW c \in Connection, Read(c) \/ ReadReset(c) PROVE QueueOK'
  <2>1. session[c].pc = "read" /\ UNCHANGED <<backlog, event, media>>
    BY <1>5, ReadCases
  <2>2. OnlySession(c) /\ session'[c].pc \in {"read", "write", "closing", "blocked"}
        /\ \A x \in Connection : client'[x].state = client[x].state
    BY <1>5, ReadType DEF ReadClient, ReadSession
  <2> QED
    BY <2>1, <2>2, QueueSession
<1>6. ASSUME NEW c \in Connection, Answer(c) PROVE QueueOK'
  <2>1. session[c].pc = "write" /\ UNCHANGED <<client, backlog, event>> /\ OnlySession(c)
        /\ session'[c].pc \in {"read", "closing"}
    BY <1>6, AnswerEffect
  <2>2. \A x \in Connection \ {c} : media'[x] = media[x]
    <3>1. media' = media \/ \E p \in {0, 1} : media' = [media EXCEPT ![c] =
                              Append(media[c], NewThread(p, RequestOf(session[c].msg[1])))]
      BY <1>6, AnswerEffect
    <3> QED
      BY <3>1 DEF TypeOK
  <2> QED
    BY <2>1, <2>2, QueueSession
<1>7. ASSUME NEW c \in Connection, Close(c) PROVE QueueOK'
  <2>1. /\ UNCHANGED <<client, backlog, event, media>>
        /\ session[c].pc = "closing" /\ OnlySession(c) /\ session'[c].pc = "ended"
    BY <1>7, CloseEffect
  <2> QED
    BY <2>1, QueueSession
<1>8. ASSUME NEW c \in Connection, NEW k \in 1..Len(media[c]),
             StartMedia(c, k) \/ GetFrameFails(c, k) \/ CloseMedia(c, k) \/ SendMedia(c, k) PROVE QueueOK'
  <2>1. UNCHANGED <<client, backlog, event, session>> /\ (media' = media \/ OnlyThread(c, k))
    BY <1>8, StartMediaEffect, GetFrameFailsEffect, CloseMediaEffect, SendMediaEffect
  <2>2. session[c].pc \notin {"none", "starting", "failed"}
    BY DEF QueueOK
  <2>3. \A x \in Connection : session[x].pc \in {"none", "starting", "failed"} => media'[x] = <<>>
    BY <2>1, <2>2 DEF QueueOK, OnlyThread
  <2> QED
    BY <2>1, <2>3, QueueKept
<1> QED
  BY <1>1, <1>2, <1>3, <1>4, <1>5, <1>6, <1>7, <1>8 DEF Next

-----------------------------------------------------------------------------
(* A session that has ended and a thread that has ended stay so, and a thread keeps the    *)
(* transport and the PLAY it was started with.                                     *)

Lasting(c) ==
  /\ session[c].pc = "ended" => session'[c].pc = "ended"
  /\ \A k \in 1..Len(media[c]) : /\ k \in 1..Len(media'[c])
                                 /\ media'[c][k].proto = media[c][k].proto
                                 /\ media'[c][k].play = media[c][k].play
                                 /\ media[c][k].pc = "ended" => media'[c][k].pc = "ended"
  /\ Len(media[c]) <= Len(media'[c])

LEMMA LastingStep ==
  ASSUME TypeOK, QueueOK, Next, NEW c \in Connection
  PROVE  Lasting(c)
<1>0. media \in [Connection -> Seq(MediaThread)] /\ Len(media[c]) \in Nat
  BY DEF TypeOK
<1>1. ASSUME media'[c] = media[c], session[c].pc = "ended" => session'[c].pc = "ended" PROVE Lasting(c)
  BY <1>0, <1>1 DEF Lasting
<1>2. CASE Accept
  <2>1. media' = media
    BY <1>2, AcceptEffect
  <2>2. ASSUME NEW d \in Connection, backlog # <<>>, d = backlog[1],
               \A x \in Connection \ {d} : session'[x] = session[x]
        PROVE  session[c].pc = "ended" => session'[c].pc = "ended"
    <3>1. 1 \in 1..Len(backlog)
      BY <2>2 DEF TypeOK
    <3>2. session[d].pc = "none"
      BY <2>2, <3>1 DEF QueueOK
    <3> QED
      BY <2>2, <3>2
  <2>3. session[c].pc = "ended" => session'[c].pc = "ended"
    BY <1>2, <2>2, AcceptEffect
  <2> QED
    BY <1>1, <2>1, <2>3
<1>3. ASSUME NEW d \in Connection, Connect(d) \/ Send(d) \/ Disconnect(d) PROVE Lasting(c)
  BY <1>1, <1>3 DEF Connect, Send, Disconnect
<1>4. ASSUME NEW d \in Connection, Start(d) \/ Read(d) \/ ReadReset(d) \/ Close(d) PROVE Lasting(c)
  <2>1. media' = media /\ session[d].pc # "ended" /\ \A x \in Connection \ {d} : session'[x] = session[x]
    BY <1>4, StartEffect, ReadCases, ReadType, CloseEffect DEF ReadSession, OnlySession
  <2> QED
    BY <1>1, <2>1
<1>5. ASSUME NEW d \in Connection, Answer(d) PROVE Lasting(c)
  <2>1. session[d].pc # "ended" /\ \A x \in Connection \ {d} : session'[x] = session[x]
    BY <1>5, AnswerEffect DEF OnlySession
  <2>a. PICK n \in Nat : n = RequestOf(session[d].msg[1])
    BY <1>5, AnswerEffect DEF WriteUnit
  <2>2. media' = media \/ \E p \in {0, 1} : media' = [media EXCEPT ![d] = Append(media[d], NewThread(p, n))]
    BY <1>5, <2>a, AnswerEffect
  <2>3. CASE media'[c] = media[c]
    BY <1>1, <2>1, <2>3
  <2>4. ASSUME NEW p \in {0, 1}, media'[c] = Append(media[c], NewThread(p, n)) PROVE Lasting(c)
    <3>1. NewThread(p, n) \in MediaThread
      BY NewThreadType
    <3>2. media[c] \in Seq(MediaThread)
      BY <1>0
    <3>3. Len(media'[c]) = Len(media[c]) + 1
          /\ \A j \in 1..Len(media[c]) : j \in 1..Len(media'[c]) /\ media'[c][j] = media[c][j]
      BY <2>4, <3>1, <3>2, AppendElement
    <3> QED
      BY <1>0, <2>1, <3>3 DEF Lasting
  <2>5. media'[c] = media[c] \/ \E p \in {0, 1} : media'[c] = Append(media[c], NewThread(p, n))
    BY <1>0, <2>2
  <2> QED
    BY <2>3, <2>4, <2>5
<1>6. ASSUME NEW d \in Connection, NEW k \in 1..Len(media[d]),
             StartMedia(d, k) \/ GetFrameFails(d, k) \/ SendMedia(d, k) \/ CloseMedia(d, k) PROVE Lasting(c)
  <2>1. session' = session /\ media[d][k].pc # "ended" /\ (media' = media \/ OnlyThread(d, k))
    BY <1>6, StartMediaEffect, GetFrameFailsEffect, CloseMediaEffect, SendMediaEffect, ZenonT(40)
  <2>2. CASE c # d \/ media' = media
    BY <1>1, <2>1, <2>2 DEF OnlyThread
  <2>3. CASE c = d /\ OnlyThread(c, k)
    BY <1>0, <2>1, <2>3 DEF OnlyThread, Lasting
  <2> QED
    BY <2>1, <2>2, <2>3
<1> QED
  BY <1>2, <1>3, <1>4, <1>5, <1>6 DEF Next

-----------------------------------------------------------------------------
(* What is given out was nobody's. *)
HeldKept == \A x \in Connection : \A f \in Fd : f \in Held(x) /\ table[f] = Closed => table'[f] = Closed

LEMMA HeldReuse ==
  ASSUME TypeOK, Reuse, Sound'
  PROVE  HeldKept
<1>1. ~\E x \in Connection : \E f \in Held(x) \intersect Free : table'[f] # Closed
  BY DEF Reuse, Sound
<1> QED
  BY <1>1 DEF HeldKept, Free

LEMMA HeldClosing ==
  ASSUME table' = table \/ \E fs : table' = Closing(fs)
  PROVE  HeldKept
  BY DEF HeldKept, Closing

-----------------------------------------------------------------------------
(* Who holds which descriptor.                                                *)

Foreign(e, c) == \A x \in {"connection", "rtp", "rtcp", "file"} : e # Opened(x, c)

LEMMA ForeignLemma ==
  ASSUME NEW c, NEW d, c # d, NEW x
  PROVE  Foreign(Opened(x, d), c) /\ Foreign(Closed, c)
<1>1. \A y : Opened(x, d) # Opened(y, c) /\ Closed # Opened(y, c)
  BY OpenedLemma
<1> QED
  BY <1>1 DEF Foreign

LEMMA KindsLemma ==
  ASSUME NEW c
  PROVE  /\ Opened("connection", c) # Opened("rtp", c) /\ Opened("connection", c) # Opened("rtcp", c)
         /\ Opened("connection", c) # Opened("file", c) /\ Opened("rtp", c) # Opened("rtcp", c)
         /\ Opened("rtp", c) # Opened("file", c) /\ Opened("rtcp", c) # Opened("file", c)
         /\ Closed # Opened("connection", c) /\ Closed # Opened("rtp", c)
         /\ Closed # Opened("rtcp", c) /\ Closed # Opened("file", c)
  BY OpenedLemma

(* The session keeps its descriptors, and what changes in the table is not its own. *)
LEMMA OwnedSame ==
  ASSUME NEW c, NEW s, NEW t, NEW ts, NEW tab, NEW tub, Owned(c, s, ts, tab),
         t.client_fd = s.client_fd, t.local_rtp_sock = s.local_rtp_sock, t.pc # "blocked",
         t.pc = "none" <=> s.pc = "none", t.pc = "starting" <=> s.pc = "starting",
         t.pc = "failed" <=> s.pc = "failed", t.pc = "ended" <=> s.pc = "ended",
         \A f \in Fd : tub[f] = tab[f] \/ (Foreign(tab[f], c) /\ Foreign(tub[f], c)),
         Uses(s, ts, 1) /\ tab[s.client_fd] = Closed => tub[s.client_fd] = Closed,
         Uses(s, ts, 0) /\ s.local_rtp_sock \in Fd /\ tab[s.local_rtp_sock] = Closed => tub[s.local_rtp_sock] = Closed
  PROVE  Owned(c, t, ts, tub)
<1>1. \A f \in Fd : /\ tub[f] = Opened("connection", c) <=> tab[f] = Opened("connection", c)
                    /\ tub[f] = Opened("rtp", c) <=> tab[f] = Opened("rtp", c)
                    /\ tub[f] = Opened("rtcp", c) <=> tab[f] = Opened("rtcp", c)
                    /\ tub[f] = Opened("file", c) <=> tab[f] = Opened("file", c)
  BY DEF Foreign
<1>2. /\ ConnectionOpen(t, ts) <=> ConnectionOpen(s, ts)
      /\ Uses(t, ts, 0) <=> Uses(s, ts, 0)
      /\ Uses(t, ts, 1) <=> Uses(s, ts, 1)
  BY DEF ConnectionOpen, Uses
<1>3. Numbered(s, ts) /\ Behind(c, s, ts, tab) /\ Only(c, s, ts, tab)
  BY DEF Owned
<1>4. Numbered(t, ts)
  BY <1>3 DEF Numbered
<1>5. Behind(c, t, ts, tub)
  <2>1. ConnectionOpen(s, ts) => s.client_fd \in Fd
    BY <1>3 DEF ConnectionOpen, Numbered
  <2>2. ConnectionOpen(t, ts) => tub[t.client_fd] = Opened("connection", c)
    BY <1>1, <1>2, <1>3, <2>1 DEF Behind
  <2>3. Uses(t, ts, 1) /\ ~ConnectionOpen(t, ts) => tub[t.client_fd] = Closed
    BY <1>2, <1>3 DEF Behind
  <2>4. t.local_rtp_sock # Unset /\ ~Ended(ts, 0) => tub[t.local_rtp_sock] = Opened("rtp", c)
    BY <1>1, <1>3 DEF Behind, Numbered
  <2>5. Uses(t, ts, 0) /\ Ended(ts, 0) => tub[t.local_rtp_sock] = Closed
    <3>1. Ended(ts, 0) => s.local_rtp_sock \in Fd
      BY <1>3, NotEmpty DEF Ended, Numbered
    <3> QED
      BY <1>2, <1>3, <3>1 DEF Behind
  <2>6. \A k \in 1..Len(ts) : Active(ts[k]) => tub[ts[k].file] = Opened("file", c)
    BY <1>1, <1>3 DEF Behind, Numbered
  <2> QED
    BY <2>2, <2>3, <2>4, <2>5, <2>6 DEF Behind
<1>6. Only(c, t, ts, tub)
  BY <1>1, <1>2, <1>3 DEF Only
<1>7. t.pc \notin {"none", "starting", "failed"} => \E f \in Fd : tub[f] = Opened("rtcp", c)
  BY <1>1 DEF Owned
<1> QED
  BY <1>4, <1>5, <1>6, <1>7 DEF Owned

(* The threads change, and the table does not. *)
LEMMA OwnedThreads ==
  ASSUME NEW c, NEW s, NEW ts, NEW us, NEW tab, Owned(c, s, ts, tab), Numbered(s, us),
         Ended(us, 0) <=> Ended(ts, 0), Ended(us, 1) <=> Ended(ts, 1),
         Uses(s, us, 0) => Uses(s, ts, 0), Uses(s, us, 1) => Uses(s, ts, 1),
         \A k \in 1..Len(us) : Active(us[k]) => tab[us[k].file] = Opened("file", c),
         \A f \in Fd : tab[f] = Opened("file", c) => \E k \in 1..Len(us) : Active(us[k]) /\ us[k].file = f
  PROVE  Owned(c, s, us, tab)
<1>1. ConnectionOpen(s, us) <=> ConnectionOpen(s, ts)
  BY DEF ConnectionOpen
<1>2. Behind(c, s, us, tab)
  BY <1>1 DEF Owned, Behind
<1>3. Only(c, s, us, tab)
  BY <1>1 DEF Owned, Only
<1> QED
  BY <1>2, <1>3 DEF Owned

(* A thread goes on with the descriptors it has. *)
LEMMA OwnedThread ==
  ASSUME NEW c, NEW s, NEW ts, NEW us, NEW tab, Owned(c, s, ts, tab), NEW k \in 1..Len(ts),
         Len(us) = Len(ts), \A l \in 1..Len(ts) : l # k => us[l] = ts[l],
         Active(ts[k]), Active(us[k]), us[k].file = ts[k].file, us[k].proto = ts[k].proto,
         us[k].client_fd = ts[k].client_fd, us[k].sock = ts[k].sock,
         us = <<>> <=> ts = <<>>
  PROVE  Owned(c, s, us, tab)
<1>1. \A l \in 1..Len(ts) :
        /\ Active(us[l]) <=> Active(ts[l])
        /\ Active(us[l]) => us[l].file = ts[l].file /\ us[l].client_fd = ts[l].client_fd
                            /\ us[l].sock = ts[l].sock
        /\ us[l].proto = ts[l].proto
        /\ us[l].pc = "ended" <=> ts[l].pc = "ended"
        /\ us[l].pc = "starting" <=> ts[l].pc = "starting"
  BY DEF Active
<1>2. Numbered(s, ts) /\ Behind(c, s, ts, tab) /\ Only(c, s, ts, tab)
  BY DEF Owned
<1>3. Numbered(s, us)
  BY <1>1, <1>2 DEF Numbered
<1>4. Ended(us, 0) <=> Ended(ts, 0)
  BY <1>1 DEF Ended
<1>5. Ended(us, 1) <=> Ended(ts, 1)
  BY <1>1 DEF Ended
<1>6. Uses(s, us, 0) => Uses(s, ts, 0)
  BY <1>1 DEF Uses
<1>7. Uses(s, us, 1) => Uses(s, ts, 1)
  BY <1>1 DEF Uses
<1>8. \A l \in 1..Len(us) : Active(us[l]) => tab[us[l].file] = Opened("file", c)
  BY <1>1, <1>2 DEF Behind
<1>9. \A f \in Fd : tab[f] = Opened("file", c) => \E l \in 1..Len(us) : Active(us[l]) /\ us[l].file = f
  BY <1>1, <1>2 DEF Only
<1> QED
  BY <1>3, <1>4, <1>5, <1>6, <1>7, <1>8, <1>9, OwnedThreads

(* connect() fails: a thread has closed the socket before. *)
LEMMA OwnedFails ==
  ASSUME NEW c, NEW s, NEW ts, NEW us, NEW tab, Owned(c, s, ts, tab), NEW k \in 1..Len(ts),
         Len(us) = Len(ts), \A l \in 1..Len(ts) : l # k => us[l] = ts[l],
         ts[k].pc = "starting", us[k].pc = "ended", us[k].proto = 0, Ended(ts, 0),
         us = <<>> <=> ts = <<>>
  PROVE  Owned(c, s, us, tab)
<1>0. ~Active(us[k]) /\ ~Active(ts[k])
  BY DEF Active
<1>1. \A l \in 1..Len(ts) :
        /\ Active(us[l]) <=> Active(ts[l])
        /\ Active(us[l]) => us[l] = ts[l]
        /\ ts[l].pc = "ended" => us[l] = ts[l]
        /\ us[l].pc = "ended" => us[l] = ts[l] \/ us[l].proto = 0
  BY <1>0
<1>2. Numbered(s, ts) /\ Behind(c, s, ts, tab) /\ Only(c, s, ts, tab)
  BY DEF Owned
<1>3. Numbered(s, us)
  BY <1>1, <1>2 DEF Numbered
<1>4. Ended(us, 0)
  BY DEF Ended
<1>5. Ended(us, 1) <=> Ended(ts, 1)
  BY <1>1 DEF Ended
<1>6. Uses(s, ts, 0) /\ Uses(s, ts, 1)
  BY DEF Uses
<1>7. \A l \in 1..Len(us) : Active(us[l]) => tab[us[l].file] = Opened("file", c)
  BY <1>1, <1>2 DEF Behind
<1>8. \A f \in Fd : tab[f] = Opened("file", c) => \E l \in 1..Len(us) : Active(us[l]) /\ us[l].file = f
  BY <1>1, <1>2 DEF Only
<1> QED
  BY <1>3, <1>4, <1>5, <1>6, <1>7, <1>8, OwnedThreads

(* A thread is started that has no descriptors yet. *)
LEMMA OwnedAppend ==
  ASSUME NEW c, NEW s, NEW ts \in Seq(MediaThread), NEW u \in MediaThread, NEW tab, Owned(c, s, ts, tab),
         u.pc = "starting", s.pc \in {"read", "closing"}
  PROVE  Owned(c, s, Append(ts, u), tab)
<1>1. PICK us : us = Append(ts, u)
  OBVIOUS
<1>2. /\ Len(ts) \in Nat /\ Len(us) = Len(ts) + 1 /\ us[Len(ts) + 1] = u
      /\ \A j \in 1..Len(ts) : j \in 1..Len(us) /\ us[j] = ts[j]
      /\ \A j \in 1..Len(us) : (j \in 1..Len(ts) /\ us[j] = ts[j]) \/ (j = Len(ts) + 1 /\ us[j] = u)
  BY <1>1, AppendElement
<1>3. \A j \in 1..Len(us) : Active(us[j]) \/ us[j].pc = "ended" => j \in 1..Len(ts) /\ us[j] = ts[j]
  BY <1>2 DEF Active
<1>4. Numbered(s, ts) /\ Behind(c, s, ts, tab) /\ Only(c, s, ts, tab)
  BY DEF Owned
<1>5. Numbered(s, us)
  BY <1>3, <1>4 DEF Numbered
<1>6. Ended(us, 0) <=> Ended(ts, 0)
  BY <1>2, <1>3 DEF Ended
<1>7. Ended(us, 1) <=> Ended(ts, 1)
  BY <1>2, <1>3 DEF Ended
<1>8. Uses(s, ts, 0) /\ Uses(s, ts, 1)
  BY DEF Uses
<1>9. \A l \in 1..Len(us) : Active(us[l]) => tab[us[l].file] = Opened("file", c)
  BY <1>3, <1>4 DEF Behind
<1>10. \A f \in Fd : tab[f] = Opened("file", c) => \E l \in 1..Len(us) : Active(us[l]) /\ us[l].file = f
  BY <1>2, <1>4 DEF Only
<1>11. Owned(c, s, us, tab)
  BY <1>5, <1>6, <1>7, <1>8, <1>9, <1>10, OwnedThreads
<1> QED
  BY <1>1, <1>11

LEMMA NoThreads ==
  ASSUME NEW s
  PROVE  /\ ~Ended(<<>>, 0) /\ ~Ended(<<>>, 1)
         /\ s.pc \in {"none", "ended"} => ~Uses(s, <<>>, 0) /\ ~Uses(s, <<>>, 1)
         /\ ConnectionOpen(s, <<>>) <=> s.pc \notin {"none", "ended"}
  BY DEF Ended, Uses, ConnectionOpen

(* accept() *)
LEMMA OwnedAccept ==
  ASSUME NEW c, NEW s, NEW t, NEW tab \in [Fd -> Entry], Owned(c, s, <<>>, tab), s.pc = "none",
         NEW f \in Fd, tab[f] = Closed, t.pc = "starting", t.client_fd = f,
         t.local_rtp_sock = s.local_rtp_sock
  PROVE  Owned(c, t, <<>>, [tab EXCEPT ![f] = Opened("connection", c)])
<1> DEFINE tub == [tab EXCEPT ![f] = Opened("connection", c)]
<1>1. tub[f] = Opened("connection", c) /\ \A g \in Fd \ {f} : tub[g] = tab[g]
  OBVIOUS
<1> HIDE DEF tub
<1>2. Numbered(s, <<>>) /\ Only(c, s, <<>>, tab)
  BY DEF Owned
<1>3. s.local_rtp_sock = Unset /\ Unset \notin Fd
  BY <1>2, FdAssumption DEF Numbered, Unset
<1>4. \A g \in Fd : Foreign(tab[g], c)
  BY <1>2, <1>3, NoThreads DEF Only, Foreign
<1>5. \A g \in Fd : /\ tub[g] = Opened("connection", c) <=> g = f
                    /\ tub[g] # Opened("rtp", c) /\ tub[g] # Opened("rtcp", c) /\ tub[g] # Opened("file", c)
  BY <1>1, <1>4, KindsLemma DEF Foreign
<1>6. Numbered(t, <<>>)
  BY <1>3 DEF Numbered
<1>7. Behind(c, t, <<>>, tub)
  BY <1>1, <1>3, NoThreads DEF Behind
<1>8. Only(c, t, <<>>, tub)
  BY <1>5, NoThreads DEF Only
<1>9. Owned(c, t, <<>>, tub)
  BY <1>6, <1>7, <1>8 DEF Owned
<1> QED
  BY <1>9 DEF tub

(* get_local_rtp_rtcp_port() *)
LEMMA OwnedStart ==
  ASSUME NEW c, NEW s, NEW t, NEW tab \in [Fd -> Entry], NEW tub, Owned(c, s, <<>>, tab), s.pc = "starting",
         t.client_fd = s.client_fd,
         \/ t.pc = "failed" /\ tub = tab /\ t.local_rtp_sock = Unset
         \/ /\ t.pc = "failed"
            /\ \E f \in Fd : /\ tab[f] = Closed /\ tub = [tab EXCEPT ![f] = Opened("rtp", c)]
                             /\ t.local_rtp_sock = f
         \/ /\ t.pc = "read"
            /\ \E f, g \in Fd : /\ f # g /\ tab[f] = Closed /\ tab[g] = Closed
                                /\ tub = [[tab EXCEPT ![f] = Opened("rtp", c)] EXCEPT ![g] = Opened("rtcp", c)]
                                /\ t.local_rtp_sock = f
  PROVE  Owned(c, t, <<>>, tub)
<1>1. Numbered(s, <<>>) /\ Behind(c, s, <<>>, tab) /\ Only(c, s, <<>>, tab)
  BY DEF Owned
<1>2. s.client_fd \in Fd /\ s.local_rtp_sock = Unset /\ Unset \notin Fd /\ tab[s.client_fd] = Opened("connection", c)
  BY <1>1, FdAssumption, NoThreads DEF Numbered, Behind, Unset
<1>3. \A g \in Fd : /\ tab[g] # Opened("rtp", c) /\ tab[g] # Opened("rtcp", c) /\ tab[g] # Opened("file", c)
                    /\ tab[g] = Opened("connection", c) => g = s.client_fd
  BY <1>1, <1>2, NoThreads DEF Only
<1>a. ASSUME t.pc \in {"failed", "read"}, t.local_rtp_sock = Unset \/ t.local_rtp_sock \in Fd,
             t.pc = "read" => t.local_rtp_sock \in Fd /\ \E g \in Fd : tub[g] = Opened("rtcp", c),
             t.local_rtp_sock # Unset => tub[t.local_rtp_sock] = Opened("rtp", c),
             tub[t.client_fd] = Opened("connection", c),
             \A g \in Fd : /\ tub[g] = Opened("connection", c) => g = t.client_fd
                           /\ tub[g] = Opened("rtp", c) => g = t.local_rtp_sock
                           /\ tub[g] = Opened("rtcp", c) => t.pc = "read"
                           /\ tub[g] # Opened("file", c)
      PROVE  Owned(c, t, <<>>, tub)
  <2>1. Numbered(t, <<>>)
    BY <1>2, <1>a DEF Numbered
  <2>2. Behind(c, t, <<>>, tub)
    BY <1>a, NoThreads DEF Behind
  <2>3. Only(c, t, <<>>, tub)
    BY <1>a, NoThreads DEF Only
  <2> QED
    BY <1>a, <2>1, <2>2, <2>3 DEF Owned
<1>4. CASE t.pc = "failed" /\ tub = tab /\ t.local_rtp_sock = Unset
  BY <1>2, <1>3, <1>4, <1>a
<1>5. ASSUME NEW f \in Fd, t.pc = "failed", tab[f] = Closed, tub = [tab EXCEPT ![f] = Opened("rtp", c)],
             t.local_rtp_sock = f
      PROVE  Owned(c, t, <<>>, tub)
  <2>1. tub[f] = Opened("rtp", c) /\ \A h \in Fd \ {f} : tub[h] = tab[h]
    BY <1>5
  <2>2. f # s.client_fd
    BY <1>2, <1>5, KindsLemma
  <2>3. \A g \in Fd : /\ tub[g] = Opened("connection", c) => g = t.client_fd
                      /\ tub[g] = Opened("rtp", c) => g = t.local_rtp_sock
                      /\ tub[g] # Opened("rtcp", c) /\ tub[g] # Opened("file", c)
    BY <1>3, <1>5, <2>1, KindsLemma
  <2> QED
    BY <1>2, <1>5, <1>a, <2>1, <2>2, <2>3
<1>6. ASSUME NEW f \in Fd, NEW g \in Fd, t.pc = "read", f # g, tab[f] = Closed, tab[g] = Closed,
             tub = [[tab EXCEPT ![f] = Opened("rtp", c)] EXCEPT ![g] = Opened("rtcp", c)],
             t.local_rtp_sock = f
      PROVE  Owned(c, t, <<>>, tub)
  <2>1. tub[f] = Opened("rtp", c) /\ tub[g] = Opened("rtcp", c) /\ \A h \in Fd \ {f, g} : tub[h] = tab[h]
    BY <1>6
  <2>2. f # s.client_fd /\ g # s.client_fd
    BY <1>2, <1>6, KindsLemma
  <2>3. \A h \in Fd : /\ tub[h] = Opened("connection", c) => h = t.client_fd
                      /\ tub[h] = Opened("rtp", c) => h = t.local_rtp_sock
                      /\ tub[h] # Opened("file", c)
    BY <1>3, <1>6, <2>1, KindsLemma
  <2> QED
    BY <1>2, <1>6, <1>a, <2>1, <2>2, <2>3
<1> QED
  BY <1>4, <1>5, <1>6

(* close(session->client_fd) *)
LEMMA OwnedClose ==
  ASSUME NEW c, NEW s, NEW t, NEW ts, NEW tab, NEW tub, Owned(c, s, ts, tab),
         s.pc = "closing", t.pc = "ended", t.client_fd = s.client_fd, t.local_rtp_sock = s.local_rtp_sock,
         \A f \in Fd : tub[f] = IF f = s.client_fd THEN Closed ELSE tab[f]
  PROVE  Owned(c, t, ts, tub) /\ tab[s.client_fd] \in {Opened("connection", c), Closed}
<1>1. Numbered(s, ts) /\ Behind(c, s, ts, tab) /\ Only(c, s, ts, tab)
  BY DEF Owned
<1>2. Uses(s, ts, 0) /\ Uses(s, ts, 1) /\ ~ConnectionOpen(t, ts)
  BY DEF Uses, ConnectionOpen
<1>3. s.client_fd \in Fd /\ s.local_rtp_sock \in Fd /\ tab[s.client_fd] \in {Opened("connection", c), Closed}
  BY <1>1, <1>2 DEF Numbered, Behind
<1>4. \A f \in Fd : /\ tub[f] # Opened("connection", c)
                    /\ tub[f] = Opened("rtp", c) <=> tab[f] = Opened("rtp", c)
                    /\ tub[f] = Opened("rtcp", c) <=> tab[f] = Opened("rtcp", c)
                    /\ tub[f] = Opened("file", c) <=> tab[f] = Opened("file", c)
                    /\ tab[f] = Closed => tub[f] = Closed
  BY <1>1, <1>3, KindsLemma DEF Only
<1>5. Numbered(t, ts)
  BY <1>1 DEF Numbered
<1>6. Behind(c, t, ts, tub)
  <2>1. tub[t.client_fd] = Closed
    BY <1>3
  <2>2. t.local_rtp_sock # Unset /\ ~Ended(ts, 0) => tub[t.local_rtp_sock] = Opened("rtp", c)
    BY <1>1, <1>3, <1>4 DEF Behind
  <2>3. Ended(ts, 0) => tub[t.local_rtp_sock] = Closed
    BY <1>1, <1>2, <1>3, <1>4 DEF Behind
  <2>4. \A k \in 1..Len(ts) : Active(ts[k]) => tub[ts[k].file] = Opened("file", c)
    BY <1>1, <1>4 DEF Behind, Numbered
  <2> QED
    BY <1>2, <2>1, <2>2, <2>3, <2>4 DEF Behind
<1>7. Only(c, t, ts, tub)
  BY <1>1, <1>4 DEF Only
<1>8. \E f \in Fd : tub[f] = Opened("rtcp", c)
  BY <1>4 DEF Owned
<1> QED
  BY <1>3, <1>5, <1>6, <1>7, <1>8 DEF Owned

(* demuxer_alloc() opens the file. *)
LEMMA OwnedFile ==
  ASSUME NEW c, NEW s, NEW ts, NEW us, NEW tab \in [Fd -> Entry], Owned(c, s, ts, tab), NEW k \in 1..Len(ts),
         Len(us) = Len(ts), \A l \in 1..Len(ts) : l # k => us[l] = ts[l],
         ts[k].pc = "starting", Active(us[k]), NEW f \in Fd, tab[f] = Closed, us[k].file = f,
         us[k].client_fd = s.client_fd, us[k].sock = s.local_rtp_sock, us[k].proto = ts[k].proto,
         f # s.client_fd, f # s.local_rtp_sock, us = <<>> <=> ts = <<>>
  PROVE  Owned(c, s, us, [tab EXCEPT ![f] = Opened("file", c)])
<1> DEFINE tub == [tab EXCEPT ![f] = Opened("file", c)]
<1>1. tub[f] = Opened("file", c) /\ \A g \in Fd \ {f} : tub[g] = tab[g]
  OBVIOUS
<1> HIDE DEF tub
<1>2. Numbered(s, ts) /\ Behind(c, s, ts, tab) /\ Only(c, s, ts, tab)
  BY DEF Owned
<1>3. \A g \in Fd : /\ tub[g] = Opened("connection", c) <=> tab[g] = Opened("connection", c)
                    /\ tub[g] = Opened("rtp", c) <=> tab[g] = Opened("rtp", c)
                    /\ tub[g] = Opened("rtcp", c) <=> tab[g] = Opened("rtcp", c)
                    /\ tub[g] = Opened("file", c) <=> tab[g] = Opened("file", c) \/ g = f
  BY <1>1, KindsLemma
<1>4. ~Active(ts[k]) /\ us[k].pc # "ended" /\ us[k].pc # "starting"
  BY DEF Active
<1>5. \A l \in 1..Len(ts) : /\ Active(ts[l]) => l # k /\ us[l] = ts[l] /\ ts[l].file # f /\ ts[l].file \in Fd
                            /\ us[l].pc = "ended" <=> ts[l].pc = "ended"
                            /\ us[l].proto = ts[l].proto
  <2>1. \A l \in 1..Len(ts) : Active(ts[l]) => tab[ts[l].file] # Closed
    BY <1>2, KindsLemma DEF Behind
  <2> QED
    BY <1>2, <1>4, <2>1 DEF Numbered
<1>6. Ended(us, 0) <=> Ended(ts, 0)
  BY <1>5 DEF Ended
<1>7. ConnectionOpen(s, us) <=> ConnectionOpen(s, ts)
  BY <1>5 DEF Ended, ConnectionOpen
<1>8. Uses(s, ts, 0) /\ Uses(s, ts, 1)
  BY DEF Uses
<1>9. Numbered(s, us)
  <2>1. \A l \in 1..Len(us) : Active(us[l]) =>
          us[l].file \in Fd /\ us[l].client_fd = s.client_fd /\ us[l].sock = s.local_rtp_sock
    BY <1>2 DEF Numbered
  <2>2. \A l, m \in 1..Len(us) : Active(us[l]) /\ Active(us[m]) /\ l # m => us[l].file # us[m].file
    <3> TAKE l, m \in 1..Len(us)
    <3> HAVE Active(us[l]) /\ Active(us[m]) /\ l # m
    <3>1. CASE l # k /\ m # k
      BY <1>2, <3>1 DEF Numbered
    <3>2. CASE l = k
      BY <1>5, <3>2
    <3>3. CASE m = k
      BY <1>5, <3>3
    <3> QED
      BY <3>1, <3>2, <3>3
  <2> QED
    BY <1>2, <2>1, <2>2 DEF Numbered
<1>10. Behind(c, s, us, tub)
  <2>1. ConnectionOpen(s, us) => tub[s.client_fd] = Opened("connection", c)
    <3>1. ConnectionOpen(s, us) => s.client_fd \in Fd
      BY <1>2 DEF ConnectionOpen, Numbered
    <3> QED
      BY <1>1, <1>2, <1>7, <3>1 DEF Behind
  <2>2. ~ConnectionOpen(s, us) => tub[s.client_fd] = Closed
    <3>1. s.client_fd \in Fd
      <4>1. s.pc # "none"
        BY <1>2, NotEmpty DEF Numbered
      <4> QED
        BY <1>2, <4>1 DEF Numbered
    <3> QED
      BY <1>1, <1>2, <1>7, <1>8, <3>1 DEF Behind
  <2>3. s.local_rtp_sock # Unset /\ ~Ended(us, 0) => tub[s.local_rtp_sock] = Opened("rtp", c)
    BY <1>1, <1>2, <1>6 DEF Behind, Numbered
  <2>4. Ended(us, 0) => tub[s.local_rtp_sock] = Closed
    <3>1. s.local_rtp_sock \in Fd
      BY <1>2, NotEmpty DEF Numbered
    <3> QED
      BY <1>1, <1>2, <1>6, <1>8, <3>1 DEF Behind
  <2>5. \A l \in 1..Len(us) : Active(us[l]) => tub[us[l].file] = Opened("file", c)
    BY <1>1, <1>2, <1>3 DEF Behind, Numbered
  <2> QED
    BY <2>1, <2>2, <2>3, <2>4, <2>5 DEF Behind
<1>11. Only(c, s, us, tub)
  <2>1. \A g \in Fd : tub[g] = Opened("file", c) => \E l \in 1..Len(us) : Active(us[l]) /\ us[l].file = g
    BY <1>2, <1>3, <1>5 DEF Only
  <2> QED
    BY <1>2, <1>3, <1>6, <1>7, <2>1 DEF Only
<1>12. s.pc \notin {"none", "starting", "failed"} => \E g \in Fd : tub[g] = Opened("rtcp", c)
  BY <1>3 DEF Owned
<1>13. Owned(c, s, us, tub)
  BY <1>9, <1>10, <1>11, <1>12 DEF Owned
<1> QED
  BY <1>13 DEF tub

(* A thread ends, and closes its file and the connection or the socket. *)
LEMMA OwnedEnds ==
  ASSUME NEW c, NEW s, NEW ts, NEW us, NEW tab, NEW tub, Owned(c, s, ts, tab), NEW k \in 1..Len(ts),
         Len(us) = Len(ts), \A l \in 1..Len(ts) : l # k => us[l] = ts[l],
         Active(ts[k]), us[k].pc = "ended", us[k].proto = ts[k].proto, ts[k].proto \in {0, 1},
         us = <<>> <=> ts = <<>>,
         \A f \in Fd : tub[f] = IF f \in Holds(ts[k]) THEN Closed ELSE tab[f]
  PROVE  /\ Owned(c, s, us, tub)
         /\ \A f \in Fd : f \in Holds(ts[k]) => Closed = tab[f] \/ \E x \in {"connection", "rtp", "file"} : tab[f] = Opened(x, c)
<1>1. Numbered(s, ts) /\ Behind(c, s, ts, tab) /\ Only(c, s, ts, tab)
  BY DEF Owned
<1>2. /\ ts[k].file \in Fd /\ tab[ts[k].file] = Opened("file", c)
      /\ ts[k].client_fd = s.client_fd /\ ts[k].sock = s.local_rtp_sock
      /\ s.client_fd \in Fd /\ s.local_rtp_sock \in Fd
  <2>1. s.pc \notin {"none", "starting", "failed"}
    BY <1>1, NotEmpty DEF Numbered
  <2> QED
    BY <1>1, <2>1 DEF Numbered, Behind
<1>3. ~Active(us[k]) /\ ts[k].pc # "ended" /\ ts[k].pc # "starting"
  BY DEF Active
<1>4. \A l \in 1..Len(ts) : Active(us[l]) => l # k /\ us[l] = ts[l] /\ ts[l].file # ts[k].file
  BY <1>1, <1>3 DEF Numbered
<1>5. Numbered(s, us)
  BY <1>1, <1>4 DEF Numbered
<1>6. (Uses(s, us, 0) => Uses(s, ts, 0)) /\ (Uses(s, us, 1) => Uses(s, ts, 1))
  BY <1>3, <1>4 DEF Uses
<1>7. CASE ts[k].proto = 1
  <2>1. Holds(ts[k]) = {ts[k].file, s.client_fd}
    BY <1>2, <1>7 DEF Holds, Sink
  <2>2. tab[s.client_fd] \in {Opened("connection", c), Closed}
    <3>1. Uses(s, ts, 1)
      BY <1>7 DEF Uses
    <3> QED
      BY <1>1, <3>1 DEF Behind
  <2>3. ~ConnectionOpen(s, us)
    BY <1>7 DEF ConnectionOpen, Ended
  <2>4. Ended(us, 0) <=> Ended(ts, 0)
    <3>1. \A l \in 1..Len(ts) : us[l].proto = 0 /\ us[l].pc = "ended" <=> ts[l].proto = 0 /\ ts[l].pc = "ended"
      BY <1>3, <1>7
    <3> QED
      BY <3>1 DEF Ended
  <2>5. \A f \in Fd : /\ tub[f] # Opened("connection", c)
                      /\ tub[f] = Opened("rtp", c) <=> tab[f] = Opened("rtp", c)
                      /\ tub[f] = Opened("rtcp", c) <=> tab[f] = Opened("rtcp", c)
                      /\ tub[f] = Opened("file", c) <=> tab[f] = Opened("file", c) /\ f # ts[k].file
                      /\ tab[f] = Closed => tub[f] = Closed
    BY <1>1, <1>2, <2>1, <2>2, KindsLemma DEF Only
  <2>6. Behind(c, s, us, tub)
    <3>1. tub[s.client_fd] = Closed
      BY <1>2, <2>1
    <3>2. ~Ended(us, 0) => tub[s.local_rtp_sock] = Opened("rtp", c)
      <4>1. s.local_rtp_sock # Unset
        BY <1>2, FdAssumption DEF Unset
      <4> QED
        BY <1>1, <1>2, <2>4, <2>5, <4>1 DEF Behind
    <3>3. Uses(s, us, 0) /\ Ended(us, 0) => tub[s.local_rtp_sock] = Closed
      BY <1>1, <1>2, <1>6, <2>4, <2>5 DEF Behind
    <3>4. \A l \in 1..Len(us) : Active(us[l]) => tub[us[l].file] = Opened("file", c)
      BY <1>1, <1>4, <2>5 DEF Behind, Numbered
    <3> QED
      BY <2>3, <3>1, <3>2, <3>3, <3>4 DEF Behind
  <2>7. Only(c, s, us, tub)
    <3>1. \A g \in Fd : tub[g] = Opened("file", c) => \E l \in 1..Len(us) : Active(us[l]) /\ us[l].file = g
      BY <1>1, <2>5 DEF Only
    <3> QED
      BY <1>1, <2>4, <2>5, <3>1 DEF Only
  <2>8. s.pc \notin {"none", "starting", "failed"} => \E g \in Fd : tub[g] = Opened("rtcp", c)
    BY <2>5 DEF Owned
  <2>9. Owned(c, s, us, tub)
    BY <1>5, <2>6, <2>7, <2>8 DEF Owned
  <2> QED
    BY <1>2, <2>1, <2>2, <2>9
<1>8. CASE ts[k].proto = 0
  <2>1. Holds(ts[k]) = {ts[k].file, s.local_rtp_sock}
    BY <1>2, <1>8 DEF Holds, Sink
  <2>2. tab[s.local_rtp_sock] \in {Opened("rtp", c), Closed} /\ s.local_rtp_sock # Unset
    <3>1. Uses(s, ts, 0)
      BY <1>8 DEF Uses
    <3>2. s.local_rtp_sock # Unset
      BY <1>2, FdAssumption DEF Unset
    <3> QED
      BY <1>1, <3>1, <3>2 DEF Behind
  <2>3. Ended(us, 0)
    BY <1>8 DEF Ended
  <2>4. Ended(us, 1) <=> Ended(ts, 1)
    <3>1. \A l \in 1..Len(ts) : us[l].proto = 1 /\ us[l].pc = "ended" <=> ts[l].proto = 1 /\ ts[l].pc = "ended"
      BY <1>3, <1>8
    <3> QED
      BY <3>1 DEF Ended
  <2>5. ConnectionOpen(s, us) <=> ConnectionOpen(s, ts)
    BY <2>4 DEF ConnectionOpen
  <2>6. \A f \in Fd : /\ tub[f] # Opened("rtp", c)
                      /\ tub[f] = Opened("connection", c) <=> tab[f] = Opened("connection", c)
                      /\ tub[f] = Opened("rtcp", c) <=> tab[f] = Opened("rtcp", c)
                      /\ tub[f] = Opened("file", c) <=> tab[f] = Opened("file", c) /\ f # ts[k].file
                      /\ tab[f] = Closed => tub[f] = Closed
    BY <1>1, <1>2, <2>1, <2>2, KindsLemma DEF Only
  <2>7. Behind(c, s, us, tub)
    <3>1. tub[s.local_rtp_sock] = Closed
      BY <1>2, <2>1
    <3>2. ConnectionOpen(s, us) => tub[s.client_fd] = Opened("connection", c)
      BY <1>1, <1>2, <2>5, <2>6 DEF Behind
    <3>3. Uses(s, us, 1) /\ ~ConnectionOpen(s, us) => tub[s.client_fd] = Closed
      BY <1>1, <1>2, <1>6, <2>5, <2>6 DEF Behind
    <3>4. \A l \in 1..Len(us) : Active(us[l]) => tub[us[l].file] = Opened("file", c)
      BY <1>1, <1>4, <2>6 DEF Behind, Numbered
    <3> QED
      BY <2>3, <3>1, <3>2, <3>3, <3>4 DEF Behind
  <2>8. Only(c, s, us, tub)
    <3>1. \A g \in Fd : tub[g] = Opened("file", c) => \E l \in 1..Len(us) : Active(us[l]) /\ us[l].file = g
      BY <1>1, <2>6 DEF Only
    <3> QED
      BY <1>1, <2>5, <2>6, <3>1 DEF Only
  <2>9. s.pc \notin {"none", "starting", "failed"} => \E g \in Fd : tub[g] = Opened("rtcp", c)
    BY <2>6 DEF Owned
  <2>10. Owned(c, s, us, tub)
    BY <1>5, <2>7, <2>8, <2>9 DEF Owned
  <2> QED
    BY <1>2, <2>1, <2>2, <2>10
<1> QED
  BY <1>7, <1>8

-----------------------------------------------------------------------------
(* Only entries that were or become free, or stand for something of c, change in the     *)
(* table.                                                                        *)
EntryOf(e, c) == e = Closed \/ \E x \in {"connection", "rtp", "rtcp", "file"} : e = Opened(x, c)
TableOf(c) == \A f \in Fd : table'[f] = table[f] \/ (EntryOf(table[f], c) /\ EntryOf(table'[f], c))
OthersSame(c) == \A x \in Connection \ {c} : session'[x] = session[x] /\ media'[x] = media[x]
AllOwned == \A c \in Connection : Owned(c, session[c], media[c], table)

LEMMA UsesHeld ==
  ASSUME TypeOK, NEW x \in Connection, Numbered(session[x], media[x])
  PROVE  /\ Uses(session[x], media[x], 1) => session[x].client_fd \in Held(x)
         /\ Uses(session[x], media[x], 0) => session[x].local_rtp_sock \in Held(x)
<1>1. \A k \in 1..Len(media[x]) : media[x][k] \in Threads(x)
  BY DEF Threads
<1>2. InUse(x) => session[x].client_fd \in Held(x) /\ session[x].local_rtp_sock \in Held(x)
  BY DEF Held
<1>3. ASSUME NEW k \in 1..Len(media[x]), Active(media[x][k])
      PROVE  Sink(media[x][k]) \in Held(x) /\ media[x][k].client_fd = session[x].client_fd
             /\ media[x][k].sock = session[x].local_rtp_sock
  <2>1. Holds(media[x][k]) \in {Holds(t) : t \in {t \in Threads(x) : Active(t)}}
    BY <1>1, <1>3
  <2>2. Sink(media[x][k]) \in Holds(media[x][k])
    BY DEF Holds
  <2>3. Sink(media[x][k]) \in UNION {Holds(t) : t \in {t \in Threads(x) : Active(t)}}
    BY <2>1, <2>2
  <2> QED
    BY <1>3, <2>3 DEF Held, Numbered
<1>4. ASSUME NEW k \in 1..Len(media[x]), media[x][k].pc = "starting" PROVE InUse(x)
  BY <1>1, <1>4 DEF InUse
<1>5. session[x].pc \notin {"none", "ended"} => InUse(x)
  BY DEF InUse
<1>6. ASSUME Uses(session[x], media[x], 1) PROVE session[x].client_fd \in Held(x)
  <2>1. CASE \E k \in 1..Len(media[x]) : Active(media[x][k]) /\ media[x][k].proto = 1
    BY <1>3, <2>1 DEF Sink
  <2> QED
    BY <1>2, <1>4, <1>5, <1>6, <2>1 DEF Uses
<1>7. ASSUME Uses(session[x], media[x], 0) PROVE session[x].local_rtp_sock \in Held(x)
  <2>1. CASE \E k \in 1..Len(media[x]) : Active(media[x][k]) /\ media[x][k].proto = 0
    <3>1. PICK k \in 1..Len(media[x]) : Active(media[x][k]) /\ media[x][k].proto = 0
      BY <2>1
    <3>2. Sink(media[x][k]) = media[x][k].sock
      BY <3>1 DEF Sink
    <3> QED
      BY <1>3, <3>1, <3>2
  <2> QED
    BY <1>2, <1>4, <1>5, <1>7, <2>1 DEF Uses
<1> QED
  BY <1>6, <1>7

LEMMA OwnedOthers ==
  ASSUME TypeOK, NEW c \in Connection, AllOwned, TableOf(c), OthersSame(c), HeldKept,
         Owned(c, session'[c], media'[c], table')
  PROVE  AllOwned'
<1> SUFFICES ASSUME NEW x \in Connection, x # c PROVE Owned(x, session'[x], media'[x], table')
  BY DEF AllOwned
<1>1. \A e : EntryOf(e, c) => Foreign(e, x)
  BY ForeignLemma DEF EntryOf
<1>2. \A f \in Fd : table'[f] = table[f] \/ (Foreign(table[f], x) /\ Foreign(table'[f], x))
  BY <1>1 DEF TableOf
<1>3. Owned(x, session[x], media[x], table) /\ session'[x] = session[x] /\ media'[x] = media[x]
  BY DEF AllOwned, OthersSame
<1>4. Numbered(session[x], media[x])
  BY <1>3 DEF Owned
<1>5. PICK s : s = session[x]
  OBVIOUS
<1>6. PICK ts : ts = media[x]
  OBVIOUS
<1>7. PICK tab : tab = table
  OBVIOUS
<1>8. PICK tub : tub = table'
  OBVIOUS
<1>9. Owned(x, s, ts, tab) /\ Numbered(s, ts)
  BY <1>3, <1>4, <1>5, <1>6, <1>7
<1>10. \A f \in Fd : tub[f] = tab[f] \/ (Foreign(tab[f], x) /\ Foreign(tub[f], x))
  BY <1>2, <1>7, <1>8
<1>11. Uses(s, ts, 1) /\ tab[s.client_fd] = Closed => tub[s.client_fd] = Closed
  <2>1. Uses(s, ts, 1) => s.client_fd \in Held(x)
    BY <1>4, <1>5, <1>6, UsesHeld
  <2>2. Uses(s, ts, 1) => s.client_fd \in Fd
    <3>1. Uses(s, ts, 1) => s.pc # "none"
      BY <1>9, NotEmpty DEF Uses, Numbered
    <3> QED
      BY <1>9, <3>1 DEF Numbered
  <2> QED
    BY <1>7, <1>8, <2>1, <2>2 DEF HeldKept
<1>12. Uses(s, ts, 0) /\ s.local_rtp_sock \in Fd /\ tab[s.local_rtp_sock] = Closed => tub[s.local_rtp_sock] = Closed
  <2>1. Uses(s, ts, 0) => s.local_rtp_sock \in Held(x)
    BY <1>4, <1>5, <1>6, UsesHeld
  <2> QED
    BY <1>7, <1>8, <2>1 DEF HeldKept
<1>13. s.pc # "blocked"
  BY <1>9 DEF Owned
<1>14. Owned(x, s, ts, tub)
  BY <1>9, <1>10, <1>11, <1>12, <1>13, OwnedSame
<1> QED
  BY <1>3, <1>5, <1>6, <1>8, <1>14

(* Steps of a session that leave the table and the threads alone. *)
LEMMA OwnedKept ==
  ASSUME TypeOK, NEW c \in Connection, AllOwned, OnlySession(c), table' = table, media' = media,
         session[c].pc \in {"read", "write", "closing"}, session'[c].pc \in {"read", "write", "closing"}
  PROVE  AllOwned'
<1>1. PICK s : s = session[c]
  OBVIOUS
<1>2. PICK t : t = session'[c]
  OBVIOUS
<1>3. PICK ts : ts = media[c]
  OBVIOUS
<1>4. PICK tab : tab = table
  OBVIOUS
<1>5. Owned(c, s, ts, tab)
  BY <1>1, <1>3, <1>4 DEF AllOwned
<1>6. t.client_fd = s.client_fd /\ t.local_rtp_sock = s.local_rtp_sock
      /\ s.pc \in {"read", "write", "closing"} /\ t.pc \in {"read", "write", "closing"}
  BY <1>1, <1>2 DEF OnlySession
<1>7. Owned(c, t, ts, tab)
  BY <1>5, <1>6, OwnedSame
<1>8. Owned(c, session'[c], media'[c], table')
  BY <1>2, <1>3, <1>4, <1>7
<1> QED
  BY <1>8, OwnedOthers, HeldClosing DEF TableOf, OthersSame, OnlySession

LEMMA OwnedAcceptStep ==
  ASSUME TypeOK, QueueOK, AllOwned, Sound', Accept
  PROVE  AllOwned'
<1>0. media' = media /\ HeldKept
  <2>1. Reuse
    BY DEF Accept
  <2> QED
    BY <2>1, AcceptEffect, HeldReuse
<1>1. CASE UNCHANGED <<backlog, table, session>>
  BY <1>0, <1>1 DEF AllOwned
<1>2. ASSUME NEW d \in Connection, NEW f \in Fd, backlog # <<>>, d = backlog[1], table[f] = Closed,
             table' = [table EXCEPT ![f] = Opened("connection", d)],
             session'[d].pc = "starting", session'[d].client_fd = f,
             session'[d].local_rtp_sock = session[d].local_rtp_sock,
             \A c \in Connection \ {d} : session'[c] = session[c]
      PROVE  AllOwned'
  <2>1. 1 \in 1..Len(backlog)
    BY <1>2 DEF TypeOK
  <2>2. session[d].pc = "none" /\ media[d] = <<>>
    BY <1>2, <2>1 DEF QueueOK
  <2>3. PICK tab \in [Fd -> Entry] : tab = table
    BY DEF TypeOK, Entry
  <2>4. PICK s : s = session[d]
    OBVIOUS
  <2>5. PICK t : t = session'[d]
    OBVIOUS
  <2>6. Owned(d, s, <<>>, tab) /\ s.pc = "none" /\ tab[f] = Closed /\ t.pc = "starting" /\ t.client_fd = f
        /\ t.local_rtp_sock = s.local_rtp_sock
    BY <1>2, <2>2, <2>3, <2>4, <2>5 DEF AllOwned
  <2>7. Owned(d, t, <<>>, [tab EXCEPT ![f] = Opened("connection", d)])
    BY <2>6, OwnedAccept
  <2>8. Owned(d, session'[d], media'[d], table')
    BY <1>0, <1>2, <2>2, <2>3, <2>5, <2>7
  <2>9. TableOf(d)
    BY <1>2, <2>3 DEF TableOf, EntryOf
  <2> QED
    BY <1>0, <1>2, <2>8, <2>9, OwnedOthers DEF OthersSame
<1> QED
  BY <1>1, <1>2, AcceptEffect

LEMMA OwnedStartStep ==
  ASSUME TypeOK, QueueOK, AllOwned, Sound', NEW c \in Connection, Start(c)
  PROVE  AllOwned'
<1>1. PICK tab \in [Fd -> Entry] : tab = table
  BY DEF TypeOK, Entry
<1>2. PICK tub : tub = table'
  OBVIOUS
<1>3. PICK s : s = session[c]
  OBVIOUS
<1>4. PICK t : t = session'[c]
  OBVIOUS
<1>5. s.pc = "starting" /\ t.client_fd = s.client_fd /\ media[c] = <<>> /\ media' = media
      /\ \A d \in Connection \ {c} : session'[d] = session[d]
  BY <1>3, <1>4, StartEffect DEF QueueOK
<1>6. Owned(c, s, <<>>, tab)
  BY <1>1, <1>3, <1>5 DEF AllOwned
<1>7. \/ t.pc = "failed" /\ tub = tab /\ t.local_rtp_sock = Unset
      \/ /\ t.pc = "failed"
         /\ \E f \in Fd : /\ tab[f] = Closed /\ tub = [tab EXCEPT ![f] = Opened("rtp", c)]
                          /\ t.local_rtp_sock = f
      \/ /\ t.pc = "read"
         /\ \E f, g \in Fd : /\ f # g /\ tab[f] = Closed /\ tab[g] = Closed
                             /\ tub = [[tab EXCEPT ![f] = Opened("rtp", c)] EXCEPT ![g] = Opened("rtcp", c)]
                             /\ t.local_rtp_sock = f
  BY <1>1, <1>2, <1>4, StartEffect
<1>8. Owned(c, t, <<>>, tub)
  BY ONLY tab \in [Fd -> Entry], <1>5, <1>6, <1>7, OwnedStart
<1>9. Owned(c, session'[c], media'[c], table')
  BY <1>2, <1>4, <1>5, <1>8
<1>10. \A h \in Fd : tub[h] = tab[h] \/ (EntryOf(tab[h], c) /\ EntryOf(tub[h], c))
  BY ONLY tab \in [Fd -> Entry], <1>7 DEF EntryOf
<1>11. TableOf(c)
  BY <1>1, <1>2, <1>10 DEF TableOf
<1>12. Reuse
  BY DEF Start
<1>13. HeldKept
  BY <1>12, HeldReuse
<1> QED
  BY <1>5, <1>9, <1>11, <1>13, OwnedOthers DEF OthersSame

(* A descriptor that the session uses is its connection, or closed by a media thread. *)
LEMMA OwnConnection ==
  ASSUME AllOwned, NEW c \in Connection, session[c].pc \in {"read", "write", "closing"}
  PROVE  /\ session[c].client_fd \in Fd
         /\ \/ table[session[c].client_fd] = Opened("connection", c)
            \/ table[session[c].client_fd] = Closed /\ Ended(media[c], 1)
<1>1. Numbered(session[c], media[c]) /\ Behind(c, session[c], media[c], table)
  BY DEF AllOwned, Owned
<1>2. Uses(session[c], media[c], 1) /\ (ConnectionOpen(session[c], media[c]) <=> ~Ended(media[c], 1))
  BY DEF Uses, ConnectionOpen
<1> QED
  BY <1>1, <1>2 DEF Numbered, Behind

LEMMA OwnedReadStep ==
  ASSUME TypeOK, AllOwned, NEW c \in Connection, Read(c) \/ ReadReset(c)
  PROVE  /\ AllOwned'
         /\ \/ table[session[c].client_fd] = Opened("connection", c) /\ ReadsFrom(c, c)
            \/ Ended(media[c], 1) /\ client' = client /\ End(c)
<1>1. session[c].pc = "read" /\ session[c].client_fd \in Fd /\ media' = media
  BY ReadCases
<1>2. \/ table[session[c].client_fd] = Opened("connection", c)
      \/ table[session[c].client_fd] = Closed /\ Ended(media[c], 1)
  BY <1>1, OwnConnection
<1>3. CASE table[session[c].client_fd] = Opened("connection", c)
  <2>1. ReadsFrom(c, c)
    BY <1>3, ReadCases, OpenedLemma
  <2>2. OnlySession(c) /\ table' = table /\ session'[c].pc \in {"read", "write", "closing", "blocked"}
    BY ReadType DEF ReadSession
  <2>3. session'[c].pc # "blocked"
    <3>1. session[c] \in Session /\ session[c].buffer \in Seq(Unit) /\ session[c].errno \in {"other", "EAGAIN"}
      BY DEF TypeOK, Session
    <3>2. ASSUME NEW n \in 1..(client[c].sent - client[c].read), Parse(c, Arrived(c, c, n), session[c].errno)
          PROVE  session'[c].pc # "blocked"
      <4>1. Arrived(c, c, n) \in Seq(Unit)
        BY ArrivedType
      <4> QED
        BY <1>1, <3>1, <3>2, <4>1, ParseEffect
    <3>3. ASSUME NEW e \in {"other", "EAGAIN"}, Parse(c, session[c].buffer, e)
          PROVE  session'[c].pc # "blocked"
      BY <1>1, <3>1, <3>3, ParseEffect
    <3>4. CASE End(c)
      BY <3>4, EndEffect
    <3> QED
      BY <2>1, <3>2, <3>3, <3>4 DEF ReadsFrom
  <2>4. AllOwned'
    BY <1>1, <2>2, <2>3, OwnedKept
  <2> QED
    BY <1>3, <2>1, <2>4
<1>4. CASE table[session[c].client_fd] = Closed /\ Ended(media[c], 1)
  <2>1. Read(c)
    BY <1>4 DEF ReadReset, Closed
  <2>2. End(c) /\ client' = client
    <3>1. PICK f \in Fd : f = session[c].client_fd
      BY <1>1
    <3>2. table[f] = Closed
      BY <1>4, <3>1
    <3> QED
      BY <2>1, <3>1, <3>2 DEF Read, Closed
  <2>3. AllOwned'
    BY <1>1, <2>2, EndEffect, OwnedKept
  <2> QED
    BY <1>4, <2>2, <2>3
<1> QED
  BY <1>2, <1>3, <1>4

LEMMA OwnedCloseStep ==
  ASSUME TypeOK, AllOwned, NEW c \in Connection, Close(c)
  PROVE  AllOwned'
<1>1. PICK tab : tab = table
  OBVIOUS
<1>2. PICK tub : tub = table'
  OBVIOUS
<1>3. PICK s : s = session[c]
  OBVIOUS
<1>4. PICK t : t = session'[c]
  OBVIOUS
<1>5. PICK ts : ts = media[c]
  OBVIOUS
<1>6. /\ s.pc = "closing" /\ t.pc = "ended" /\ t.client_fd = s.client_fd /\ t.local_rtp_sock = s.local_rtp_sock
      /\ media' = media /\ \A x \in Connection \ {c} : session'[x] = session[x]
  BY <1>3, <1>4, CloseEffect DEF OnlySession
<1>7. Owned(c, s, ts, tab)
  BY <1>1, <1>3, <1>5 DEF AllOwned
<1>8. \A f \in Fd : tub[f] = IF f = s.client_fd THEN Closed ELSE tab[f]
  BY <1>1, <1>2, <1>3, CloseEffect DEF Closing
<1>9. Owned(c, t, ts, tub) /\ tab[s.client_fd] \in {Opened("connection", c), Closed}
  BY <1>6, <1>7, <1>8, OwnedClose
<1>10. Owned(c, session'[c], media'[c], table')
  BY <1>2, <1>4, <1>5, <1>6, <1>9
<1>11. TableOf(c)
  BY <1>1, <1>2, <1>8, <1>9 DEF TableOf, EntryOf
<1>12. HeldKept
  BY CloseEffect, HeldClosing
<1> QED
  BY <1>6, <1>10, <1>11, <1>12, OwnedOthers DEF OthersSame

LEMMA OwnedAnswerStep ==
  ASSUME TypeOK, AllOwned, NEW c \in Connection, Answer(c)
  PROVE  AllOwned'
<1>1. session[c].pc = "write" /\ OnlySession(c) /\ table' = table /\ session'[c].pc \in {"read", "closing"}
  BY AnswerEffect
<1>2. PICK n \in Nat : n = RequestOf(session[c].msg[1])
  BY AnswerEffect DEF WriteUnit
<1>3. media' = media \/ \E p \in {0, 1} : media' = [media EXCEPT ![c] = Append(media[c], NewThread(p, n))]
  BY <1>2, AnswerEffect
<1>4. CASE media' = media
  BY <1>1, <1>4, OwnedKept
<1>5. ASSUME NEW p \in {0, 1}, media' = [media EXCEPT ![c] = Append(media[c], NewThread(p, n))] PROVE AllOwned'
  <2>1. PICK s : s = session[c]
    OBVIOUS
  <2>2. PICK t : t = session'[c]
    OBVIOUS
  <2>3. PICK ts \in Seq(MediaThread) : ts = media[c]
    BY DEF TypeOK
  <2>4. PICK tab : tab = table
    OBVIOUS
  <2>5. PICK u \in MediaThread : u = NewThread(p, n) /\ u.pc = "starting"
    BY NewThreadType
  <2>6. Owned(c, s, ts, tab)
    BY <2>1, <2>3, <2>4 DEF AllOwned
  <2>7. t.client_fd = s.client_fd /\ t.local_rtp_sock = s.local_rtp_sock
        /\ s.pc = "write" /\ t.pc \in {"read", "closing"}
    BY <1>1, <2>1, <2>2 DEF OnlySession
  <2>8. Owned(c, t, ts, tab)
    BY <2>6, <2>7, OwnedSame
  <2>9. Owned(c, t, Append(ts, u), tab)
    BY <2>5, <2>7, <2>8, OwnedAppend
  <2>10. media'[c] = Append(ts, u) /\ \A x \in Connection \ {c} : media'[x] = media[x]
    BY <1>5, <2>3, <2>5 DEF TypeOK
  <2>11. Owned(c, session'[c], media'[c], table')
    BY <1>1, <2>2, <2>4, <2>9, <2>10
  <2> QED
    BY <1>1, <2>10, <2>11, OwnedOthers, HeldClosing DEF TableOf, OthersSame, OnlySession
<1> QED
  BY <1>3, <1>4, <1>5

(* A step of a thread, as the lemmas about descriptors take it. *)
LEMMA ThreadStep ==
  ASSUME TypeOK, NEW c \in Connection, NEW k \in 1..Len(media[c]), OnlyThread(c, k)
  PROVE  /\ Len(media'[c]) = Len(media[c]) /\ (\A l \in 1..Len(media[c]) : l # k => media'[c][l] = media[c][l])
         /\ media'[c] # <<>> /\ media[c] # <<>>
         /\ media'[c][k].proto = media[c][k].proto /\ media[c][k].proto \in {0, 1}
<1>1. media[c] \in Seq(MediaThread)
  BY DEF TypeOK
<1>2. media[c][k] \in MediaThread
  BY <1>1
<1> QED
  BY <1>2, NotEmpty DEF OnlyThread, MediaThread

LEMMA OwnedMove ==
  ASSUME TypeOK, AllOwned, NEW c \in Connection, NEW k \in 1..Len(media[c]),
         OnlyThread(c, k), session' = session, table' = table, Active(media[c][k]), Active(media'[c][k]),
         media'[c][k].file = media[c][k].file, media'[c][k].client_fd = media[c][k].client_fd,
         media'[c][k].sock = media[c][k].sock
  PROVE  AllOwned'
<1>1. PICK s : s = session[c]
  OBVIOUS
<1>2. PICK ts : ts = media[c]
  OBVIOUS
<1>3. PICK us : us = media'[c]
  OBVIOUS
<1>4. PICK tab : tab = table
  OBVIOUS
<1>5. Owned(c, s, ts, tab)
  BY <1>1, <1>2, <1>4 DEF AllOwned
<1>6. /\ k \in 1..Len(ts) /\ Len(us) = Len(ts) /\ (\A l \in 1..Len(ts) : l # k => us[l] = ts[l])
      /\ Active(ts[k]) /\ Active(us[k]) /\ us[k].file = ts[k].file
      /\ us[k].client_fd = ts[k].client_fd /\ us[k].sock = ts[k].sock /\ us[k].proto = ts[k].proto
      /\ ts # <<>> /\ us # <<>>
  BY <1>2, <1>3, ThreadStep
<1>7. Owned(c, s, us, tab)
  BY ONLY <1>5, <1>6, OwnedThread
<1>8. Owned(c, session'[c], media'[c], table')
  BY <1>1, <1>3, <1>4, <1>7
<1> QED
  BY <1>8, OwnedOthers, HeldClosing DEF TableOf, OthersSame, OnlyThread

LEMMA OwnedSendStep ==
  ASSUME TypeOK, AllOwned, NEW c \in Connection, NEW k \in 1..Len(media[c]),
         SendMedia(c, k) \/ GetFrameFails(c, k)
  PROVE  AllOwned'
<1>1. CASE SendMedia(c, k)
  <2>1. media[c][k].pc \in {"header", "payload", "packet"}
        /\ media'[c][k].pc \in {"header", "payload", "packet", "closing"}
    BY <1>1, SendMediaEffect DEF NextWrite
  <2>2. /\ OnlyThread(c, k) /\ session' = session /\ table' = table
        /\ media'[c][k].file = media[c][k].file /\ media'[c][k].client_fd = media[c][k].client_fd
        /\ media'[c][k].sock = media[c][k].sock
    BY <1>1, SendMediaEffect
  <2> QED
    BY <2>1, <2>2, OwnedMove DEF Active
<1>2. CASE GetFrameFails(c, k)
  <2>1. /\ OnlyThread(c, k) /\ session' = session /\ table' = table
        /\ media'[c][k].file = media[c][k].file /\ media'[c][k].client_fd = media[c][k].client_fd
        /\ media'[c][k].sock = media[c][k].sock
        /\ media[c][k].pc \in {"header", "packet"} /\ media'[c][k].pc = "closing"
    BY <1>2, GetFrameFailsEffect
  <2> QED
    BY <2>1, OwnedMove DEF Active
<1> QED
  BY <1>1, <1>2

LEMMA OwnedStartMediaStep ==
  ASSUME TypeOK, AllOwned, Sound', NEW c \in Connection, NEW k \in 1..Len(media[c]), StartMedia(c, k)
  PROVE  AllOwned'
<1>0. session' = session /\ media[c][k].pc = "starting" /\ media[c] # <<>> /\ HeldKept
  <2>1. Reuse
    BY DEF StartMedia
  <2> QED
    BY <2>1, StartMediaEffect, HeldReuse, NotEmpty
<1>1. PICK s : s = session[c]
  OBVIOUS
<1>2. PICK ts : ts = media[c]
  OBVIOUS
<1>3. PICK us : us = media'[c]
  OBVIOUS
<1>4. PICK tab \in [Fd -> Entry] : tab = table
  BY DEF TypeOK, Entry
<1>5. Owned(c, s, ts, tab)
  BY <1>1, <1>2, <1>4 DEF AllOwned
<1>6. CASE UNCHANGED <<table, media>>
  BY <1>0, <1>6 DEF AllOwned
<1>7. CASE /\ media[c][k].proto = 0 /\ ~Connects(session[c].local_rtp_sock)
           /\ table' = table /\ OnlyThread(c, k) /\ media'[c][k].pc = "ended"
  <2>1. Numbered(s, ts) /\ Behind(c, s, ts, tab) /\ ts # <<>>
    BY <1>0, <1>2, <1>5 DEF Owned
  <2>2. s.local_rtp_sock \in Fd /\ s.local_rtp_sock # Unset
    BY <2>1, FdAssumption DEF Numbered, Unset
  <2>3. tab[s.local_rtp_sock] # Opened("rtp", c)
    BY <1>1, <1>4, <1>7, OpenedLemma DEF Connects
  <2>4. Ended(ts, 0)
    BY <2>1, <2>2, <2>3 DEF Behind
  <2>5. /\ k \in 1..Len(ts) /\ Len(us) = Len(ts) /\ (\A l \in 1..Len(ts) : l # k => us[l] = ts[l])
        /\ ts[k].pc = "starting" /\ us[k].pc = "ended" /\ us[k].proto = 0 /\ ts # <<>> /\ us # <<>>
    BY <1>0, <1>2, <1>3, <1>7, ThreadStep
  <2>6. Owned(c, s, us, tab)
    BY ONLY <1>5, <2>4, <2>5, OwnedFails
  <2>7. Owned(c, session'[c], media'[c], table')
    BY <1>0, <1>1, <1>3, <1>4, <1>7, <2>6
  <2> QED
    BY <1>0, <1>7, <2>7, OwnedOthers DEF TableOf, OthersSame, OnlyThread
<1>8. CASE /\ Free # {} /\ table' = [table EXCEPT ![Min(Free)] = Opened("file", c)]
           /\ OnlyThread(c, k) /\ media'[c][k].pc \in {"header", "packet"}
           /\ media'[c][k].file = Min(Free) /\ media'[c][k].client_fd = session[c].client_fd
           /\ media'[c][k].sock = session[c].local_rtp_sock
  <2>1. PICK f \in Fd : f = Min(Free) /\ table[f] = Closed
    BY <1>8, LowestFree DEF Free
  <2>2. /\ k \in 1..Len(ts) /\ Len(us) = Len(ts) /\ (\A l \in 1..Len(ts) : l # k => us[l] = ts[l])
        /\ ts[k].pc = "starting" /\ us[k].pc \in {"header", "packet"} /\ us[k].file = f
        /\ us[k].client_fd = s.client_fd /\ us[k].sock = s.local_rtp_sock /\ us[k].proto = ts[k].proto
        /\ ts # <<>> /\ us # <<>>
    BY <1>0, <1>1, <1>2, <1>3, <1>8, <2>1, ThreadStep
  <2>3. Active(us[k])
    BY <2>2 DEF Active
  <2>4. f # s.client_fd /\ f # s.local_rtp_sock
    <3>1. Uses(session[c], media[c], 1) /\ Uses(session[c], media[c], 0)
      BY <1>0 DEF Uses
    <3>2. Numbered(session[c], media[c])
      BY DEF AllOwned, Owned
    <3>3. session[c].client_fd \in Held(c) /\ session[c].local_rtp_sock \in Held(c)
      BY <3>1, <3>2, UsesHeld
    <3>4. table'[f] = Opened("file", c)
      BY <1>4, <1>8, <2>1
    <3>5. f \notin Held(c)
      BY <1>0, <2>1, <3>4, OpenedLemma DEF HeldKept
    <3> QED
      BY <1>1, <3>3, <3>5
  <2>5. tab[f] = Closed
    BY <1>4, <2>1
  <2>6. Owned(c, s, us, [tab EXCEPT ![f] = Opened("file", c)])
    BY ONLY tab \in [Fd -> Entry], f \in Fd, <1>5, <2>2, <2>3, <2>4, <2>5, OwnedFile
  <2>7. Owned(c, session'[c], media'[c], table')
    BY <1>0, <1>1, <1>3, <1>4, <1>8, <2>1, <2>6
  <2>8. TableOf(c)
    BY <1>4, <1>8, <2>1 DEF TableOf, EntryOf
  <2>9. OthersSame(c)
    BY <1>0, <1>8 DEF OthersSame, OnlyThread
  <2> QED
    BY <1>0, <2>7, <2>8, <2>9, OwnedOthers
<1> QED
  BY <1>6, <1>7, <1>8, StartMediaEffect

LEMMA OwnedCloseMediaStep ==
  ASSUME TypeOK, AllOwned, NEW c \in Connection, NEW k \in 1..Len(media[c]), CloseMedia(c, k)
  PROVE  AllOwned'
<1>0. /\ session' = session /\ media[c][k].pc = "closing" /\ OnlyThread(c, k) /\ media'[c][k].pc = "ended"
      /\ table' = Closing(Holds(media[c][k]))
  BY CloseMediaEffect
<1>1. PICK s : s = session[c]
  OBVIOUS
<1>2. PICK ts : ts = media[c]
  OBVIOUS
<1>3. PICK us : us = media'[c]
  OBVIOUS
<1>4. PICK tab : tab = table
  OBVIOUS
<1>5. PICK tub : tub = table'
  OBVIOUS
<1>6. Owned(c, s, ts, tab)
  BY <1>1, <1>2, <1>4 DEF AllOwned
<1>7. /\ k \in 1..Len(ts) /\ Len(us) = Len(ts) /\ (\A l \in 1..Len(ts) : l # k => us[l] = ts[l])
      /\ us[k].pc = "ended" /\ us[k].proto = ts[k].proto /\ ts[k].proto \in {0, 1}
      /\ ts # <<>> /\ us # <<>>
  BY <1>0, <1>2, <1>3, ThreadStep
<1>8. Active(ts[k])
  BY <1>0, <1>2 DEF Active
<1>9. \A f \in Fd : tub[f] = IF f \in Holds(ts[k]) THEN Closed ELSE tab[f]
  BY <1>0, <1>2, <1>4, <1>5 DEF Closing
<1>10. /\ Owned(c, s, us, tub)
       /\ \A f \in Fd : f \in Holds(ts[k]) => Closed = tab[f] \/ \E x \in {"connection", "rtp", "file"} : tab[f] = Opened(x, c)
  BY ONLY <1>6, <1>7, <1>8, <1>9, OwnedEnds
<1>11. Owned(c, session'[c], media'[c], table')
  BY <1>0, <1>1, <1>3, <1>5, <1>10
<1>12. TableOf(c)
  BY <1>4, <1>5, <1>9, <1>10 DEF TableOf, EntryOf
<1>13. OthersSame(c)
  BY <1>0 DEF OthersSame, OnlyThread
<1>14. HeldKept
  BY <1>0, HeldClosing
<1> QED
  BY <1>11, <1>12, <1>13, <1>14, OwnedOthers

LEMMA OwnedStep ==
  ASSUME TypeOK, QueueOK, AllOwned, Sound', Next
  PROVE  AllOwned'
<1>1. ASSUME NEW c \in Connection, Connect(c) \/ Send(c) \/ Disconnect(c) PROVE AllOwned'
  BY <1>1 DEF Connect, Send, Disconnect, AllOwned
<1> QED
  BY <1>1, OwnedAcceptStep, OwnedStartStep, OwnedReadStep, OwnedCloseStep, OwnedAnswerStep, OwnedSendStep,
     OwnedStartMediaStep, OwnedCloseMediaStep DEF Next

-----------------------------------------------------------------------------
(* What the parser finds in the buffer.                                       *)

(* With the units of whole requests in it, the first request is two units long. *)
LEMMA FirstRequest ==
  ASSUME NEW c, NEW B \in Seq(Unit), NEW T \in Nat, \A j \in 1..Len(B) : B[j] = <<c, 2 * T + j>>
  PROVE  /\ Len(B) = 0 => Complete(c, B) = {}
         /\ Complete(c, B) # {} => Len(B) >= 2 /\ Min(Complete(c, B)) = 2
<1>0. Len(B) \in Nat /\ (Len(B) = 0 => 1..Len(B) = {})
  OBVIOUS
<1>1. (2 * T + 1) % 2 # 0 /\ (2 * T + 2) % 2 = 0
  OBVIOUS
<1>2. 1 \notin Complete(c, B)
  <2> SUFFICES ASSUME 1 \in 1..Len(B) PROVE ~IsEnd(B[1])
    BY DEF Complete
  <2>1. B[1] = <<c, 2 * T + 1>>
    OBVIOUS
  <2>2. B[1][2] = 2 * T + 1
    BY <2>1
  <2> QED
    BY <1>1, <2>2 DEF IsEnd
<1>3. Len(B) >= 2 => 2 \in Complete(c, B)
  <2> SUFFICES ASSUME Len(B) >= 2 PROVE 2 \in 1..Len(B) /\ IsEnd(B[2])
    BY DEF Complete
  <2>1. 2 \in 1..Len(B)
    BY <1>0
  <2>2. B[2] = <<c, 2 * T + 2>>
    BY <2>1
  <2>3. B[2][2] = 2 * T + 2 /\ B[2] # Junk
    BY <2>2 DEF Junk
  <2> QED
    BY <1>1, <2>1, <2>3 DEF IsEnd
<1>4. CASE Complete(c, B) # {}
  <2>1. Complete(c, B) \in SUBSET Nat /\ Complete(c, B) \in SUBSET (1..Len(B))
    BY DEF Complete
  <2>2. \E x \in Complete(c, B) : \A y \in Complete(c, B) : x <= y
    BY <1>4, <2>1, LeastNatural
  <2>3. PICK m \in Nat : m = Min(Complete(c, B)) /\ m \in Complete(c, B) /\ \A y \in Complete(c, B) : m <= y
    BY <2>1, <2>2 DEF Min
  <2>4. m \in 1..Len(B) /\ m # 1
    BY <1>2, <2>1, <2>3
  <2>5. Len(B) >= 2 /\ m >= 2
    BY <1>0, <2>4
  <2>6. m <= 2
    BY <1>3, <2>3, <2>5
  <2>7. m = 2
    BY <2>5, <2>6
  <2> QED
    BY <1>0, <2>3, <2>5, <2>7
<1>5. Len(B) = 0 => Complete(c, B) = {}
  BY <1>0 DEF Complete
<1> QED
  BY <1>4, <1>5

(* What is taken out, and what is left. *)
LEMMA TakeRequest ==
  ASSUME NEW c, NEW B \in Seq(Unit), NEW T \in Nat, \A j \in 1..Len(B) : B[j] = <<c, 2 * T + j>>, Len(B) >= 2
  PROVE  /\ SubSeq(B, 1, 2) = << <<c, 2 * (T + 1) - 1>>, <<c, 2 * (T + 1)>> >>
         /\ Len(Rest(B, 2)) = Len(B) - 2
         /\ \A j \in 1..(Len(B) - 2) : Rest(B, 2)[j] = <<c, 2 * (T + 1) + j>>
<1>0. Len(B) \in Nat /\ 1 \in 1..Len(B) /\ 2 \in 1..Len(B)
  OBVIOUS
<1>1. 2 * T + 1 = 2 * (T + 1) - 1 /\ 2 * T + 2 = 2 * (T + 1)
  OBVIOUS
<1>2. B[1] = <<c, 2 * (T + 1) - 1>> /\ B[2] = <<c, 2 * (T + 1)>>
  BY <1>0, <1>1
<1>3. SubSeq(B, 1, 2) \in Seq(Unit) /\ Len(SubSeq(B, 1, 2)) = 2
      /\ SubSeq(B, 1, 2)[1] = B[1] /\ SubSeq(B, 1, 2)[2] = B[2]
  BY <1>0
<1>4. SubSeq(B, 1, 2) = << B[1], B[2] >>
  <2>1. << B[1], B[2] >> \in Seq(Unit) /\ Len(<< B[1], B[2] >>) = 2
    BY <1>0
  <2>2. \A j \in 1..2 : SubSeq(B, 1, 2)[j] = << B[1], B[2] >>[j]
    BY <1>3
  <2> QED
    BY <1>3, <2>1, <2>2, SeqEqual
<1>5. Len(Rest(B, 2)) = Len(B) - 2 /\ \A j \in 1..(Len(B) - 2) : Rest(B, 2)[j] = B[j + 2]
  <2>1. PICK b \in Nat : b = Len(B) /\ b >= 2
    BY <1>0
  <2>2. \A j \in 3..b : B[j] \in Unit
    BY <2>1
  <2>3. Len(SubSeq(B, 3, b)) = (IF 3 <= b THEN b - 3 + 1 ELSE 0)
        /\ \A j \in 1..(b - 3 + 1) : SubSeq(B, 3, b)[j] = B[3 + j - 1]
    BY <2>2, SubSeqProperties
  <2>4. b - 3 + 1 = b - 2 /\ (~(3 <= b) => b - 2 = 0) /\ \A j \in 1..(b - 2) : 3 + j - 1 = j + 2
    BY <2>1
  <2>5. Rest(B, 2) = SubSeq(B, 3, b)
    BY <2>1 DEF Rest
  <2>6. \A j \in 1..(b - 2) : SubSeq(B, 3, b)[j] = B[j + 2]
    BY <2>3, <2>4
  <2>7. Len(SubSeq(B, 3, b)) = b - 2
    BY <2>3, <2>4
  <2> QED
    BY <2>1, <2>5, <2>6, <2>7
<1>6. ASSUME NEW j \in 1..(Len(B) - 2) PROVE Rest(B, 2)[j] = <<c, 2 * (T + 1) + j>>
  <2>1. j + 2 \in 1..Len(B) /\ 2 * T + (j + 2) = 2 * (T + 1) + j
    BY <1>0
  <2> QED
    BY <1>5, <2>1
<1> QED
  BY <1>2, <1>4, <1>5, <1>6

LEMMA ParseKept ==
  ASSUME NEW c \in Connection, ParseOK(c), client'[c].read = client[c].read, answered'[c] = answered[c],
         session'[c] = session[c]
  PROVE  ParseOK(c)'
  BY DEF ParseOK, Taken

(* url_getmsg() after a read() that left the buffer B. *)
LEMMA ParseBuffer ==
  ASSUME TypeOK, NEW c \in Connection, session[c].pc = "read", NEW B \in Seq(Unit),
         NEW e \in {"other", "EAGAIN"}, Parse(c, B, e), answered' = answered,
         client'[c].read \in Nat, client'[c].read = 2 * answered[c] + Len(B),
         \A j \in 1..Len(B) : B[j] = <<c, 2 * answered[c] + j>>
  PROVE  ParseOK(c)'
<1>1. PICK T \in Nat : T = answered[c]
  BY DEF TypeOK
<1>2. PICK b \in Nat : b = Len(B)
  OBVIOUS
<1>3. client'[c].read = 2 * T + b /\ answered'[c] = T
  BY <1>1, <1>2
<1>4. CASE session'[c].pc = "read" /\ session'[c].buffer = B
  <2>1. Taken(c)' = T
    BY <1>3, <1>4 DEF Taken
  <2> QED
    BY <1>1, <1>2, <1>3, <1>4, <2>1 DEF ParseOK
<1>5. CASE session'[c].pc = "closing"
  <2>1. Taken(c)' = T
    BY <1>3, <1>5 DEF Taken
  <2> QED
    BY <1>3, <1>5, <2>1 DEF ParseOK
<1>6. CASE /\ session'[c].pc = "write" /\ Complete(c, B) # {}
           /\ session'[c].msg = SubSeq(B, 1, Min(Complete(c, B)))
           /\ session'[c].buffer = Rest(B, Min(Complete(c, B)))
  <2>1. b >= 2 /\ Min(Complete(c, B)) = 2
    BY <1>1, <1>2, <1>6, FirstRequest
  <2>2. Taken(c)' = T + 1
    BY <1>3, <1>6 DEF Taken
  <2>0. \A j \in 1..Len(B) : B[j] = <<c, 2 * T + j>>
    BY <1>1
  <2>5. /\ SubSeq(B, 1, 2) = << <<c, 2 * (T + 1) - 1>>, <<c, 2 * (T + 1)>> >>
        /\ Len(Rest(B, 2)) = Len(B) - 2
        /\ \A j \in 1..(Len(B) - 2) : Rest(B, 2)[j] = <<c, 2 * (T + 1) + j>>
    <3>1. Len(B) >= 2
      BY <1>2, <2>1
    <3> QED
      BY ONLY B \in Seq(Unit), T \in Nat, <2>0, <3>1, TakeRequest
  <2>3. /\ session'[c].msg = << <<c, 2 * (T + 1) - 1>>, <<c, 2 * (T + 1)>> >>
        /\ Len(session'[c].buffer) = b - 2
        /\ \A j \in 1..(b - 2) : session'[c].buffer[j] = <<c, 2 * (T + 1) + j>>
    BY <1>2, <1>6, <2>1, <2>5
  <2>4. client'[c].read = 2 * (T + 1) + (b - 2) /\ 2 * (T + 1) <= client'[c].read
    BY <1>3, <2>1
  <2> QED
    BY <1>6, <2>2, <2>3, <2>4 DEF ParseOK
<1> QED
  BY <1>4, <1>5, <1>6, ParseEffect

(* What is in the buffer after read(). *)
Holding(c, B) ==
  /\ client'[c].read \in Nat /\ client'[c].read = 2 * answered[c] + Len(B)
  /\ \A j \in 1..Len(B) : B[j] = <<c, 2 * answered[c] + j>>
ParsesWhole(c) == \E B \in Seq(Unit), e \in {"other", "EAGAIN"} : Parse(c, B, e) /\ Holding(c, B)

LEMMA ReadGets ==
  ASSUME TypeOK, NEW c \in Connection, session[c].pc = "read", ReadsFrom(c, c), ParseOK(c)
  PROVE  \/ client' = client /\ client[c].state = "closed" /\ End(c)
         \/ ParsesWhole(c)
<1>1. /\ client \in [Connection -> [state : {"new", "open", "closed"}, sent : Nat, read : Nat]]
      /\ session[c].buffer \in Seq(Unit) /\ session[c].errno \in {"other", "EAGAIN"} /\ answered[c] \in Nat
  BY DEF TypeOK, Session
<1>2. Taken(c) = answered[c]
  BY <1>1 DEF Taken
<1>3. PICK T \in Nat : T = answered[c]
  BY <1>1
<1>4. PICK b \in Nat : b = Len(session[c].buffer)
  BY <1>1
<1>5. PICK r \in Nat : r = client[c].read
  BY <1>1
<1>6. /\ r = 2 * T + b /\ 2 * T <= r
      /\ \A j \in 1..b : session[c].buffer[j] = <<c, 2 * T + j>>
  BY <1>2, <1>3, <1>4, <1>5 DEF ParseOK
<1>7. ASSUME NEW n \in 1..(client[c].sent - client[c].read),
             client' = [client EXCEPT ![c] = [client[c] EXCEPT !.read = @ + n]],
             Parse(c, Arrived(c, c, n), session[c].errno)
      PROVE  ParsesWhole(c)
  <2>1. n \in Nat /\ n \in 1..n
    BY <1>1
  <2>2. client'[c].read = r + n
    BY <1>1, <1>5, <1>7
  <2>3. PICK B \in Seq(Unit) : B = Arrived(c, c, n)
    BY <2>1, ArrivedType
  <2>4. /\ Len(B) = b + n /\ \A j \in 1..b : B[j] = session[c].buffer[j]
        /\ \A j \in 1..n : B[b + j] = <<c, r + j>>
    BY <1>4, <1>5, <2>1, <2>3, ArrivedType, ZenonT(40)
  <2>5. ASSUME NEW j \in 1..Len(B) PROVE B[j] = <<c, 2 * T + j>>
    <3>1. CASE j <= b
      <4>1. j \in 1..b
        BY <3>1
      <4> QED
        BY <1>6, <2>4, <4>1
    <3>2. CASE ~(j <= b)
      <4>0. Len(B) \in Nat /\ j \in Nat /\ j <= b + n
        BY <2>4
      <4>1. j - b \in 1..n /\ b + (j - b) = j /\ r + (j - b) = 2 * T + j
        BY <1>6, <2>1, <3>2, <4>0
      <4>2. B[b + (j - b)] = <<c, r + (j - b)>>
        BY <2>4, <4>1
      <4> QED
        BY <4>1, <4>2
    <3> QED
      BY <3>1, <3>2
  <2>6. client'[c].read \in Nat /\ client'[c].read = 2 * answered[c] + Len(B)
    <3>1. PICK m \in Nat : m = n
      BY <2>1
    <3>2. client'[c].read = r + m /\ Len(B) = b + m
      BY <2>2, <2>4, <3>1
    <3>3. r + m \in Nat /\ r + m = 2 * T + (b + m)
      BY <1>6
    <3> QED
      BY <1>3, <3>2, <3>3
  <2>7. \A j \in 1..Len(B) : B[j] = <<c, 2 * answered[c] + j>>
    BY <1>3, <2>5
  <2>8. Parse(c, B, session[c].errno)
    BY <1>7, <2>3
  <2> QED
    BY <1>1, <2>6, <2>7, <2>8 DEF ParsesWhole, Holding
<1>8. ASSUME NEW e \in {"other", "EAGAIN"}, client' = client, Parse(c, session[c].buffer, e)
      PROVE  ParsesWhole(c)
  <2>1. PICK B \in Seq(Unit) : B = session[c].buffer
    BY <1>1
  <2>2. client'[c].read \in Nat /\ client'[c].read = 2 * answered[c] + Len(B)
    <3>1. client'[c].read = r /\ Len(B) = b
      BY <1>4, <1>5, <1>8, <2>1
    <3>2. r \in Nat /\ r = 2 * T + b
      BY <1>6
    <3> QED
      BY ONLY <1>3, <3>1, <3>2
  <2>3. \A j \in 1..Len(B) : B[j] = <<c, 2 * answered[c] + j>>
    BY <1>3, <1>4, <1>6, <2>1
  <2>4. Parse(c, B, e)
    BY <1>8, <2>1
  <2> QED
    BY <2>2, <2>3, <2>4 DEF ParsesWhole, Holding
<1> QED
  BY <1>7, <1>8 DEF ReadsFrom

LEMMA ParseRead ==
  ASSUME TypeOK, NEW c \in Connection, session[c].pc = "read", ReadsFrom(c, c), answered' = answered, ParseOK(c)
  PROVE  ParseOK(c)'
<1>1. CASE client' = client /\ End(c)
  <2>1. session'[c].pc = "closing"
    BY <1>1, EndEffect
  <2>2. Taken(c)' = Taken(c)
    BY <2>1 DEF Taken
  <2> QED
    BY <1>1, <2>1, <2>2 DEF ParseOK
<1>2. CASE ParsesWhole(c)
  BY <1>2, ParseBuffer DEF ParsesWhole, Holding
<1> QED
  BY <1>1, <1>2, ReadGets

LEMMA ParseAnswer ==
  ASSUME TypeOK, NEW c \in Connection, Answer(c), ParseOK(c)
  PROVE  ParseOK(c)'
<1>1. PICK T \in Nat : T = answered[c]
  BY DEF TypeOK
<1>2. session[c].pc = "write" /\ client' = client /\ Taken(c) = T + 1
  BY <1>1, AnswerEffect DEF Taken
<1>3. PICK r \in Nat : r = client[c].read
  BY DEF TypeOK
<1>4. 2 * (T + 1) <= r /\ 2 * T <= r
  BY <1>2, <1>3 DEF ParseOK
<1>5. CASE session'[c].pc = "closing" /\ answered' = answered
  <2>1. Taken(c)' = T
    BY <1>1, <1>5 DEF Taken
  <2> QED
    BY <1>2, <1>3, <1>4, <1>5, <2>1 DEF ParseOK
<1>6. CASE /\ session'[c].pc = "read" /\ session'[c].buffer = session[c].buffer
           /\ answered' = [answered EXCEPT ![c] = @ + 1]
  <2>1. answered'[c] = T + 1
    BY <1>1, <1>6 DEF TypeOK
  <2>2. Taken(c)' = T + 1
    BY <1>6, <2>1 DEF Taken
  <2> QED
    BY <1>2, <1>3, <1>4, <1>6, <2>2 DEF ParseOK
<1> QED
  BY <1>5, <1>6, AnswerEffect

AllParsed == \A c \in Connection : ParseOK(c)

LEMMA ParseStep ==
  ASSUME TypeOK, QueueOK, AllOwned, AllParsed, Next
  PROVE  AllParsed'
<1> SUFFICES ASSUME NEW x \in Connection PROVE ParseOK(x)'
  BY DEF AllParsed
<1>0. ParseOK(x)
  BY DEF AllParsed
<1>1. CASE Accept
  <2>0. client' = client /\ answered' = answered
    BY <1>1, AcceptEffect
  <2>1. CASE session' = session
    BY <1>0, <2>0, <2>1, ParseKept
  <2>2. ASSUME NEW d \in Connection, backlog # <<>>, d = backlog[1], session'[d].pc = "starting",
               session'[d].buffer = session[d].buffer, \A c \in Connection \ {d} : session'[c] = session[c]
        PROVE  ParseOK(x)'
    <3>1. 1 \in 1..Len(backlog)
      BY <2>2 DEF TypeOK
    <3>2. session[d].pc = "none"
      BY <2>2, <3>1 DEF QueueOK
    <3>3. CASE x # d
      BY <1>0, <2>0, <2>2, <3>3, ParseKept
    <3>4. CASE x = d
      <4>1. answered[x] = 0 /\ client[x].read = 0 /\ session[x].buffer = <<>>
        BY <1>0, <3>2, <3>4 DEF ParseOK
      <4>2. Taken(x)' = 0
        BY <2>0, <2>2, <3>4, <4>1 DEF Taken
      <4> QED
        BY <2>0, <2>2, <3>4, <4>1, <4>2 DEF ParseOK
    <3> QED
      BY <3>3, <3>4
  <2> QED
    BY <1>1, <2>1, <2>2, AcceptEffect
<1>2. ASSUME NEW c \in Connection, Connect(c) \/ Send(c) \/ Disconnect(c) PROVE ParseOK(x)'
  <2>1. client'[x].read = client[x].read
    BY <1>2, ClientStep
  <2>2. answered' = answered /\ session' = session
    BY <1>2 DEF Connect, Send, Disconnect
  <2> QED
    BY <1>0, <2>1, <2>2, ParseKept
<1>3. ASSUME NEW c \in Connection, Start(c) PROVE ParseOK(x)'
  <2>0. client' = client /\ answered' = answered /\ session[c].pc = "starting" /\ session'[c].buffer = session[c].buffer
        /\ session'[c].pc \in {"read", "failed"} /\ \A d \in Connection \ {c} : session'[d] = session[d]
    BY <1>3, StartEffect
  <2>1. CASE x # c
    BY <1>0, <2>0, <2>1, ParseKept
  <2>2. CASE x = c
    <3>1. answered[x] = 0 /\ client[x].read = 0 /\ session[x].buffer = <<>>
      BY <1>0, <2>0, <2>2 DEF ParseOK
    <3>2. Taken(x)' = 0
      BY <2>0, <2>2, <3>1 DEF Taken
    <3>3. 1..Len(<<>>) = {} /\ Len(<<>>) = 0
      OBVIOUS
    <3> QED
      BY <2>0, <2>2, <3>1, <3>2, <3>3 DEF ParseOK
  <2> QED
    BY <2>1, <2>2
<1>4. ASSUME NEW c \in Connection, Read(c) \/ ReadReset(c) PROVE ParseOK(x)'
  <2>1. session[c].pc = "read" /\ answered' = answered /\ (ReadsFrom(c, c) \/ (client' = client /\ End(c)))
    <3>1. session[c].pc = "read" /\ answered' = answered
      BY <1>4, ReadCases
    <3>2. ReadsFrom(c, c) \/ (client' = client /\ End(c))
      BY ONLY TypeOK, AllOwned, c \in Connection, <1>4, OwnedReadStep
    <3> QED
      BY <3>1, <3>2
  <2>2. CASE x = c
    <3>1. CASE ReadsFrom(c, c)
      BY <1>0, <2>1, <2>2, <3>1, ParseRead
    <3>2. CASE client' = client /\ End(c)
      <4>1. session'[c].pc = "closing"
        BY <3>2, EndEffect
      <4>2. Taken(c)' = Taken(c)
        BY <2>1, <4>1 DEF Taken
      <4> QED
        BY <1>0, <2>2, <3>2, <4>1, <4>2 DEF ParseOK
    <3> QED
      BY <2>1, <3>1, <3>2
  <2>3. CASE x # c
    <3>1. session'[x] = session[x]
      BY <1>4, <2>3, ReadType DEF ReadSession, OnlySession
    <3>2. client'[x] = client[x]
      BY <2>1, <2>3 DEF ReadsFrom, TypeOK
    <3> QED
      BY <1>0, <2>1, <3>1, <3>2, ParseKept
  <2> QED
    BY <2>2, <2>3
<1>5. ASSUME NEW c \in Connection, Answer(c) PROVE ParseOK(x)'
  <2>1. CASE x = c
    BY <1>0, <1>5, <2>1, ParseAnswer
  <2>2. CASE x # c
    <3>1. client' = client /\ session'[x] = session[x]
      BY <1>5, <2>2, AnswerEffect DEF OnlySession
    <3>2. answered' = answered \/ answered' = [answered EXCEPT ![c] = @ + 1]
      BY <1>5, AnswerEffect
    <3>3. answered'[x] = answered[x]
      BY <2>2, <3>2 DEF TypeOK
    <3> QED
      BY <1>0, <3>1, <3>3, ParseKept
  <2> QED
    BY <2>1, <2>2
<1>6. ASSUME NEW c \in Connection, Close(c) PROVE ParseOK(x)'
  <2>0. client' = client /\ answered' = answered /\ session[c].pc = "closing" /\ session'[c].pc = "ended"
        /\ \A d \in Connection \ {c} : session'[d] = session[d]
    BY <1>6, CloseEffect DEF OnlySession
  <2>1. CASE x # c
    BY <1>0, <2>0, <2>1, ParseKept
  <2>2. CASE x = c
    <3>1. Taken(x)' = Taken(x)
      BY <2>0, <2>2 DEF Taken
    <3> QED
      BY <1>0, <2>0, <2>2, <3>1 DEF ParseOK
  <2> QED
    BY <2>1, <2>2
<1>7. ASSUME NEW c \in Connection, NEW k \in 1..Len(media[c]),
             StartMedia(c, k) \/ GetFrameFails(c, k) \/ SendMedia(c, k) \/ CloseMedia(c, k) PROVE ParseOK(x)'
  <2>1. client' = client /\ session' = session /\ answered' = answered
    BY <1>7, StartMediaEffect, GetFrameFailsEffect, CloseMediaEffect, SendMediaEffect
  <2> QED
    BY <1>0, <2>1, ParseKept
<1> QED
  BY <1>1, <1>2, <1>3, <1>4, <1>5, <1>6, <1>7 DEF Next

-----------------------------------------------------------------------------
(* What is written to the connections.                                        *)

(* A thread that is at work writes to its own connection or socket, or to a closed one. *)
LEMMA SinkLemma ==
  ASSUME TypeOK, QueueOK, AllOwned, NEW c \in Connection, NEW k \in 1..Len(media[c]), Active(media[c][k])
  PROVE  /\ Sink(media[c][k]) \in Fd
         /\ media[c][k].proto = 1 => table[Sink(media[c][k])] \in {Opened("connection", c), Closed}
         /\ media[c][k].proto = 0 => table[Sink(media[c][k])] \in {Opened("rtp", c), Closed}
         /\ media[c][k].proto \in {0, 1} /\ client[c].state # "new"
<1>1. media[c] \in Seq(MediaThread)
  BY DEF TypeOK
<1>2. media[c][k].proto \in {0, 1}
  <2>1. media[c][k] \in MediaThread
    BY <1>1
  <2> QED
    BY <2>1 DEF MediaThread
<1>3. media[c] # <<>>
  BY NotEmpty
<1>4. session[c].pc \notin {"none", "starting", "failed"} /\ client[c].state # "new"
  BY <1>3 DEF QueueOK
<1>5. Numbered(session[c], media[c]) /\ Behind(c, session[c], media[c], table)
  BY DEF AllOwned, Owned
<1>6. media[c][k].client_fd = session[c].client_fd /\ media[c][k].sock = session[c].local_rtp_sock
      /\ session[c].client_fd \in Fd /\ session[c].local_rtp_sock \in Fd /\ session[c].local_rtp_sock # Unset
  BY <1>4, <1>5, FdAssumption DEF Numbered, Unset
<1>7. CASE media[c][k].proto = 1
  <2>1. Uses(session[c], media[c], 1)
    BY <1>7 DEF Uses
  <2>2. table[session[c].client_fd] \in {Opened("connection", c), Closed}
    BY <1>5, <2>1 DEF Behind
  <2> QED
    BY <1>2, <1>4, <1>6, <1>7, <2>2 DEF Sink
<1>8. CASE media[c][k].proto = 0
  <2>1. Uses(session[c], media[c], 0)
    BY <1>8 DEF Uses
  <2>2. table[session[c].local_rtp_sock] \in {Opened("rtp", c), Closed}
    BY <1>5, <1>6, <2>1 DEF Behind
  <2> QED
    BY <1>2, <1>4, <1>6, <1>8, <2>2 DEF Sink
<1> QED
  BY <1>2, <1>7, <1>8

(* Nothing is written to c, and its answers are not counted on while it is there. *)
LEMMA OutKept ==
  ASSUME TypeOK, NEW c \in Connection, OutOK(c), out'[c] = out[c],
         client[c].state = "closed" => client'[c].state = "closed",
         \/ answered'[c] = answered[c]
         \/ answered'[c] = answered[c] + 1 /\ client'[c].state = "closed"
  PROVE  OutOK(c)'
<1>1. Answers(c)' = Answers(c)
  BY DEF Answers
<1>2. \A n \in 1..Len(out'[c]) : out'[c][n][2] = c
  BY DEF OutOK
<1>3. \A m, n \in Answers(c)' : m < n => out'[c][m][3] < out'[c][n][3]
  BY <1>1 DEF OutOK
<1>4. PICK h \in 0..answered[c] : /\ {out[c][n][3] : n \in Answers(c)} = 1..h
                                  /\ client[c].state # "closed" => h = answered[c]
  BY DEF OutOK
<1>5. {out'[c][n][3] : n \in Answers(c)'} = 1..h
  BY <1>1, <1>4
<1>6. h \in 0..answered'[c]
  BY <1>4 DEF TypeOK
<1>7. client'[c].state # "closed" => h = answered'[c]
  BY <1>4
<1> QED
  BY <1>2, <1>3, <1>5, <1>6, <1>7 DEF OutOK

LEMMA OutMedia ==
  ASSUME TypeOK, NEW c \in Connection, OutOK(c), NEW u \in OutUnit, u[1] # "answer", u[2] = c,
         out'[c] = Append(out[c], u), client' = client, answered' = answered
  PROVE  OutOK(c)'
<1>1. out[c] \in Seq(OutUnit)
  BY DEF TypeOK, OutUnit
<1>2. /\ Len(out[c]) \in Nat /\ Len(out'[c]) = Len(out[c]) + 1 /\ out'[c][Len(out[c]) + 1] = u
      /\ \A j \in 1..Len(out[c]) : j \in 1..Len(out'[c]) /\ out'[c][j] = out[c][j]
      /\ \A j \in 1..Len(out'[c]) : (j \in 1..Len(out[c]) /\ out'[c][j] = out[c][j]) \/ (j = Len(out[c]) + 1 /\ out'[c][j] = u)
  BY <1>1, AppendElement
<1>3. Answers(c)' = Answers(c)
  BY <1>2 DEF Answers
<1>4. \A n \in Answers(c) : out'[c][n] = out[c][n]
  BY <1>2 DEF Answers
<1>5. \A n \in 1..Len(out'[c]) : out'[c][n][2] = c
  BY <1>2 DEF OutOK
<1>8. PICK A : A = Answers(c) /\ A = Answers(c)'
  BY <1>3
<1>9. \A n \in A : out'[c][n][3] = out[c][n][3]
  BY <1>4, <1>8
<1>6. \A m, n \in Answers(c)' : m < n => out'[c][m][3] < out'[c][n][3]
  <2>1. \A m, n \in A : m < n => out[c][m][3] < out[c][n][3]
    BY <1>8 DEF OutOK
  <2>2. \A m, n \in A : m < n => out'[c][m][3] < out'[c][n][3]
    BY ONLY <1>9, <2>1
  <2> QED
    BY <1>8, <2>2
<1>7. {out'[c][n][3] : n \in Answers(c)'} = {out[c][n][3] : n \in Answers(c)}
  <2>1. {out'[c][n][3] : n \in A} = {out[c][n][3] : n \in A}
    BY ONLY <1>9
  <2> QED
    BY <1>8, <2>1
<1> QED
  BY <1>5, <1>6, <1>7 DEF OutOK

LEMMA OutAnswer ==
  ASSUME TypeOK, NEW c \in Connection, OutOK(c), client[c].state # "closed",
         NEW u \in OutUnit, u[1] = "answer", u[2] = c, u[3] = answered[c] + 1,
         out'[c] = Append(out[c], u), client' = client, answered'[c] = answered[c] + 1
  PROVE  OutOK(c)'
<1>1. out[c] \in Seq(OutUnit)
  BY DEF TypeOK, OutUnit
<1>0. PICK T \in Nat : T = answered[c]
  BY DEF TypeOK
<1>2. PICK len \in Nat : len = Len(out[c])
  BY <1>1
<1>3. /\ Len(out'[c]) = len + 1 /\ out'[c][len + 1] = u
      /\ \A j \in 1..len : j \in 1..(len + 1) /\ out'[c][j] = out[c][j]
      /\ \A j \in 1..(len + 1) : (j \in 1..len /\ out'[c][j] = out[c][j]) \/ (j = len + 1 /\ out'[c][j] = u)
  BY <1>1, <1>2, AppendElement
<1>4. u[1] = "answer" /\ u[2] = c /\ u[3] = T + 1
  BY <1>0
<1>5. Answers(c)' = Answers(c) \union {len + 1}
  BY <1>2, <1>3, <1>4 DEF Answers
<1>6. \A n \in Answers(c) : out'[c][n] = out[c][n] /\ n \in 1..len
  BY <1>2, <1>3 DEF Answers
<1>7. {out[c][n][3] : n \in Answers(c)} = 1..T
  BY <1>0 DEF OutOK
<1>8. \A n \in Answers(c) : out[c][n][3] \in 1..T
  BY <1>7
<1>9. \A n \in 1..Len(out'[c]) : out'[c][n][2] = c
  BY <1>2, <1>3, <1>4 DEF OutOK
<1>10. ASSUME NEW m \in Answers(c)', NEW n \in Answers(c)', m < n PROVE out'[c][m][3] < out'[c][n][3]
  <2>1. CASE m \in Answers(c) /\ n \in Answers(c)
    BY <1>6, <1>10, <2>1 DEF OutOK
  <2>2. CASE m = len + 1
    <3>1. n \in 1..(len + 1)
      BY <1>5, <1>6
    <3> QED
      BY <1>10, <2>2, <3>1
  <2>3. CASE m \in Answers(c) /\ n = len + 1
    <3>1. out'[c][m][3] \in 1..T /\ out'[c][n][3] = T + 1
      BY <1>3, <1>4, <1>6, <1>8, <2>3
    <3>2. PICK v \in 1..T : v = out'[c][m][3]
      BY <3>1
    <3>3. v < T + 1
      OBVIOUS
    <3> QED
      BY <3>1, <3>2, <3>3
  <2> QED
    BY <1>5, <2>1, <2>2, <2>3
<1>11. {out'[c][n][3] : n \in Answers(c)'} = 1..(T + 1)
  <2>1. \A n \in Answers(c)' : out'[c][n][3] \in 1..(T + 1)
    <3> TAKE n \in Answers(c)'
    <3>1. CASE n \in Answers(c)
      <4>1. out'[c][n][3] \in 1..T
        BY <1>6, <1>8, <3>1
      <4>2. 1..T \subseteq 1..(T + 1)
        OBVIOUS
      <4> QED
        BY <4>1, <4>2
    <3>2. CASE n = len + 1
      BY <1>3, <1>4, <3>2
    <3> QED
      BY <1>5, <3>1, <3>2
  <2>2. \A v \in 1..(T + 1) : \E n \in Answers(c)' : v = out'[c][n][3]
    <3> TAKE v \in 1..(T + 1)
    <3>1. CASE v \in 1..T
      <4>1. PICK n \in Answers(c) : v = out[c][n][3]
        BY <1>7, <3>1
      <4> QED
        BY <1>5, <1>6, <4>1
    <3>2. CASE v = T + 1
      <4>1. len + 1 \in Answers(c)' /\ out'[c][len + 1][3] = T + 1
        BY <1>3, <1>4, <1>5
      <4> QED
        BY <3>2, <4>1
    <3>3. v \in 1..T \/ v = T + 1
      OBVIOUS
    <3> QED
      BY <3>1, <3>2, <3>3
  <2> QED
    BY <2>1, <2>2
<1>12. \E h \in 0..answered'[c] : /\ {out'[c][n][3] : n \in Answers(c)'} = 1..h
                                  /\ client'[c].state # "closed" => h = answered'[c]
  <2>1. answered'[c] = T + 1 /\ T + 1 \in 0..(T + 1)
    BY <1>0
  <2> QED
    BY <1>11, <2>1
<1> QED
  BY <1>9, <1>10, <1>12 DEF OutOK

(* Steps that write nothing and count no answer. *)
LEMMA OutSilent ==
  ASSUME TypeOK, Next, NEW x \in Connection, OutOK(x), out' = out, answered' = answered,
         client'[x].state = client[x].state \/ client'[x].state = "closed" \/ client[x].state = "new"
  PROVE  OutOK(x)'
  BY OutKept

(* What an answer writes: to a client that is there the answer, unless a media thread has   *)
(* closed the connection.                                                          *)
AnswerSent(c) ==
  /\ session'[c].pc = "read" /\ answered' = [answered EXCEPT ![c] = @ + 1]
  /\ \E u \in OutUnit : /\ u[1] = "answer" /\ u[2] = c /\ u[3] = answered[c] + 1
                        /\ out'[c] = Append(out[c], u)

LEMMA AnswerWrites ==
  ASSUME TypeOK, QueueOK, AllOwned, AllParsed, NEW c \in Connection, Answer(c)
  PROVE  /\ RequestOf(session[c].msg[1]) = answered[c] + 1
         /\ \A x \in Connection \ {c} : out'[x] = out[x]
         /\ \/ client[c].state = "open" /\ AnswerSent(c)
            \/ client[c].state = "closed" /\ out' = out
            \/ /\ Ended(media[c], 1) /\ out' = out /\ media' = media
               /\ answered' = answered /\ session'[c].pc = "closing"
<1>1. session[c].pc = "write" /\ client[c].state \in {"open", "closed"}
  BY AnswerEffect DEF QueueOK, TypeOK
<1>2. /\ session[c].client_fd \in Fd
      /\ \/ table[session[c].client_fd] = Opened("connection", c)
         \/ table[session[c].client_fd] = Closed /\ Ended(media[c], 1)
  BY <1>1, OwnConnection
<1>3. PICK T \in Nat : T = answered[c]
  BY DEF TypeOK
<1>4. RequestOf(session[c].msg[1]) = T + 1
  <2>1. Taken(c) = T + 1
    BY <1>1, <1>3 DEF Taken
  <2>2. session[c].msg = << <<c, 2 * (T + 1) - 1>>, <<c, 2 * (T + 1)>> >>
    BY <1>1, <2>1 DEF AllParsed, ParseOK
  <2>3. session[c].msg[1][2] = 2 * (T + 1) - 1
    BY <2>2
  <2>4. ((2 * (T + 1) - 1) + 1) \div 2 = T + 1
    OBVIOUS
  <2> QED
    BY <2>3, <2>4 DEF RequestOf
<1>5. PICK w \in WriteUnit : w = <<"answer", c, RequestOf(session[c].msg[1])>>
  BY AnswerEffect
<1>6. w[1] = "answer" /\ w[2] = c /\ w[3] = T + 1
  BY <1>4, <1>5
<1>7. PICK r \in {"ok", "short", "lost", "fail", "pipe"} :
         /\ Write(session[c].client_fd, w, r)
         /\ \/ r \in {"fail", "pipe"} /\ media' = media /\ answered' = answered /\ session'[c].pc = "closing"
            \/ /\ r \in {"ok", "short", "lost"} /\ session'[c].pc = "read"
               /\ answered' = [answered EXCEPT ![c] = @ + 1]
  BY <1>5, AnswerEffect
<1>8. PICK f \in Fd : f = session[c].client_fd
  BY <1>2
<1>9. Write(f, w, r)
  BY <1>7, <1>8
<1>10. /\ \A x \in Connection : out'[x] = out[x] \/ table[f] = Opened("connection", x)
       /\ table[f] = Closed => r = "fail" /\ out' = out
       /\ table[f] = Opened("connection", c) =>
            IF client[c].state = "open" THEN r \in {"ok", "short"} /\ out'[c] = Append(out[c], Sent(w, r))
            ELSE r \in {"lost", "fail", "pipe"} /\ out' = out
  BY ONLY TypeOK, w \in WriteUnit, f \in Fd, c \in Connection, <1>9, WriteEffect
<1>11. \A x \in Connection \ {c} : out'[x] = out[x]
  BY <1>2, <1>8, <1>10, OpenedLemma
<1>12. CASE table[f] = Closed /\ Ended(media[c], 1)
  BY <1>3, <1>4, <1>7, <1>10, <1>11, <1>12
<1>13. CASE table[f] = Opened("connection", c) /\ client[c].state = "open"
  <2>1. r \in {"ok", "short"} /\ out'[c] = Append(out[c], Sent(w, r))
    BY <1>10, <1>13
  <2>2. PICK u \in OutUnit : u = Sent(w, r) /\ u[1] = w[1] /\ u[2] = w[2] /\ u[3] = w[3]
    BY <2>1, SentUnit
  <2>3. session'[c].pc = "read" /\ answered' = [answered EXCEPT ![c] = @ + 1]
    BY <1>7, <2>1
  <2>4. AnswerSent(c)
    BY <1>3, <1>6, <2>1, <2>2, <2>3 DEF AnswerSent
  <2> QED
    BY <1>3, <1>4, <1>11, <1>13, <2>4
<1>14. CASE table[f] = Opened("connection", c) /\ client[c].state = "closed"
  <2>1. out' = out
    BY <1>10, <1>14
  <2> QED
    BY <1>3, <1>4, <1>11, <1>14, <2>1
<1> QED
  BY <1>1, <1>2, <1>8, <1>12, <1>13, <1>14

(* What a media thread writes. *)
UnitSent(c, k) ==
  /\ media'[c][k].pc = NextWrite(media[c][k].pc)
  /\ \E u \in OutUnit : u[1] = media[c][k].pc /\ u[2] = c /\ u[3] = k /\ out'[c] = Append(out[c], u)

LEMMA MediaWrites ==
  ASSUME TypeOK, QueueOK, AllOwned, NEW c \in Connection, NEW k \in 1..Len(media[c]), SendMedia(c, k)
  PROVE  /\ \A x \in Connection \ {c} : out'[x] = out[x]
         /\ \/ media[c][k].proto = 1 /\ client[c].state = "open" /\ UnitSent(c, k)
            \/ /\ out' = out
               /\ media[c][k].proto = 0 \/ client[c].state = "closed" \/ media'[c][k].pc = "closing"
<1>1. PICK w \in WriteUnit : w = <<media[c][k].pc, c, k>>
  BY SendMediaEffect
<1>2. Active(media[c][k])
  BY SendMediaEffect DEF Active
<1>3. PICK f \in Fd : f = Sink(media[c][k])
  BY <1>2, SinkLemma
<1>4. /\ media[c][k].proto = 1 => table[f] \in {Opened("connection", c), Closed}
      /\ media[c][k].proto = 0 => table[f] \in {Opened("rtp", c), Closed}
      /\ media[c][k].proto \in {0, 1} /\ client[c].state # "new"
  BY <1>2, <1>3, SinkLemma
<1>5. w[1] = media[c][k].pc /\ w[2] = c /\ w[3] = k
  BY <1>1
<1>6. PICK r \in {"ok", "short", "lost", "fail", "pipe"} :
              /\ Write(f, w, r)
              /\ media'[c][k].pc = IF r = "fail" THEN "closing" ELSE NextWrite(media[c][k].pc)
  BY <1>1, <1>3, SendMediaEffect
<1>7. /\ \A x \in Connection : out'[x] = out[x] \/ table[f] = Opened("connection", x)
      /\ table[f][1] \in {"rtp", "rtcp"} => out' = out
      /\ table[f] = Closed => r = "fail" /\ out' = out
      /\ table[f] = Opened("connection", c) =>
            IF client[c].state = "open" THEN r \in {"ok", "short"} /\ out'[c] = Append(out[c], Sent(w, r))
            ELSE r \in {"lost", "fail", "pipe"} /\ out' = out
  BY ONLY TypeOK, w \in WriteUnit, f \in Fd, c \in Connection, <1>6, WriteEffect
<1>8. CASE table[f] = Closed
  BY <1>6, <1>7, <1>8
<1>9. CASE table[f] = Opened("rtp", c) /\ media[c][k].proto = 0
  <2>1. table[f][1] = "rtp"
    BY <1>9, OpenedLemma
  <2> QED
    BY <1>7, <1>9, <2>1
<1>10. CASE table[f] = Opened("connection", c) /\ media[c][k].proto = 1
  <2>1. \A x \in Connection \ {c} : out'[x] = out[x]
    BY <1>7, <1>10, OpenedLemma
  <2>2. client[c].state \in {"open", "closed"}
    BY <1>4 DEF TypeOK
  <2>3. CASE client[c].state = "open"
    <3>1. r \in {"ok", "short"} /\ out'[c] = Append(out[c], Sent(w, r))
      BY <1>7, <1>10, <2>3
    <3>2. PICK u \in OutUnit : u = Sent(w, r) /\ u[1] = w[1] /\ u[2] = w[2] /\ u[3] = w[3]
      BY <3>1, SentUnit
    <3>3. UnitSent(c, k)
      BY <1>5, <1>6, <3>1, <3>2 DEF UnitSent
    <3> QED
      BY <1>10, <2>1, <2>3, <3>3
  <2>4. CASE client[c].state = "closed"
    BY <1>7, <1>10, <2>1, <2>4
  <2> QED
    BY <2>2, <2>3, <2>4
<1> QED
  BY <1>4, <1>8, <1>9, <1>10

AllOut == \A c \in Connection : OutOK(c)

LEMMA OutStep ==
  ASSUME TypeOK, QueueOK, AllOwned, AllParsed, AllOut, Next
  PROVE  AllOut'
<1> SUFFICES ASSUME NEW x \in Connection PROVE OutOK(x)'
  BY DEF AllOut
<1>0. OutOK(x)
  BY DEF AllOut
<1>1. CASE Accept
  <2>1. client' = client /\ answered' = answered /\ out' = out
    BY <1>1, AcceptEffect
  <2> QED
    BY <1>0, <2>1, OutSilent
<1>2. ASSUME NEW c \in Connection, Connect(c) \/ Send(c) \/ Disconnect(c) PROVE OutOK(x)'
  <2>1. answered' = answered /\ out' = out
    BY <1>2 DEF Connect, Send, Disconnect
  <2>2. client'[x].state = client[x].state \/ client'[x].state = "closed" \/ client[x].state = "new"
    <3>0. client \in [Connection -> [state : {"new", "open", "closed"}, sent : Nat, read : Nat]]
      BY DEF TypeOK
    <3>1. CASE x # c
      BY <1>2, <3>1, ClientStep
    <3>2. CASE x = c
      BY <1>2, <3>0, <3>2 DEF Connect, Send, Disconnect
    <3> QED
      BY <3>1, <3>2
  <2> QED
    BY <1>0, <2>1, <2>2, OutSilent
<1>3. ASSUME NEW c \in Connection, Start(c) \/ Close(c) PROVE OutOK(x)'
  <2>1. client' = client /\ answered' = answered /\ out' = out
    BY <1>3, StartEffect, CloseEffect
  <2> QED
    BY <1>0, <2>1, OutSilent
<1>4. ASSUME NEW c \in Connection, Read(c) \/ ReadReset(c) PROVE OutOK(x)'
  <2>1. client'[x].state = client[x].state /\ answered' = answered /\ out' = out
    BY <1>4, ReadCases, ReadType DEF ReadClient
  <2> QED
    BY <1>0, <2>1, OutSilent
<1>5. ASSUME NEW c \in Connection, Answer(c) PROVE OutOK(x)'
  <2>0. client' = client
    BY <1>5, AnswerEffect
  <2>1. answered' = answered \/ answered' = [answered EXCEPT ![c] = @ + 1]
    BY <1>5, AnswerEffect
  <2>2. CASE x # c
    <3>0. answered'[x] = answered[x]
      BY <2>1, <2>2 DEF TypeOK
    <3>1. out'[x] = out[x] /\ answered'[x] = answered[x]
      BY <1>5, <2>2, <3>0, AnswerWrites
    <3> QED
      BY <1>0, <2>0, <3>1, OutKept
  <2>3. CASE x = c /\ out' = out /\ (client[c].state = "closed" \/ answered' = answered)
    <3>1. out'[x] = out[x] /\ (client[x].state = "closed" \/ answered'[x] = answered[x])
      BY <2>3
    <3>2. answered'[x] = answered[x] \/ answered'[x] = answered[x] + 1
      BY <2>1, <2>3 DEF TypeOK
    <3> QED
      BY <1>0, <2>0, <3>1, <3>2, OutKept
  <2>4. CASE x = c /\ client[c].state = "open" /\ AnswerSent(c)
    <3>1. PICK u \in OutUnit : u[1] = "answer" /\ u[2] = x /\ u[3] = answered[x] + 1 /\ out'[x] = Append(out[x], u)
      BY <2>4 DEF AnswerSent
    <3>2. answered'[x] = answered[x] + 1
      BY <2>4 DEF AnswerSent, TypeOK
    <3> QED
      BY <1>0, <2>0, <2>4, <3>1, <3>2, OutAnswer
  <2> QED
    BY <1>5, <2>2, <2>3, <2>4, AnswerWrites
<1>6. ASSUME NEW c \in Connection, NEW k \in 1..Len(media[c]), StartMedia(c, k) \/ GetFrameFails(c, k) \/ CloseMedia(c, k)
      PROVE  OutOK(x)'
  <2>1. client' = client /\ answered' = answered /\ out' = out
    BY <1>6, StartMediaEffect, GetFrameFailsEffect, CloseMediaEffect
  <2> QED
    BY <1>0, <2>1, OutSilent
<1>7. ASSUME NEW c \in Connection, NEW k \in 1..Len(media[c]), SendMedia(c, k) PROVE OutOK(x)'
  <2>1. client' = client /\ answered' = answered /\ media[c][k].pc \in {"header", "payload", "packet"}
    BY <1>7, SendMediaEffect
  <2>2. CASE out'[x] = out[x]
    BY <1>0, <2>1, <2>2, OutKept
  <2>3. CASE x = c /\ UnitSent(c, k)
    <3>1. PICK u \in OutUnit : u[1] # "answer" /\ u[2] = x /\ out'[x] = Append(out[x], u)
      BY <2>1, <2>3 DEF UnitSent
    <3> QED
      BY <1>0, <2>1, <3>1, OutMedia
  <2>4. CASE x # c
    BY <1>7, <2>2, <2>4, MediaWrites
  <2> QED
    BY <1>7, <2>2, <2>3, <2>4, MediaWrites
<1> QED
  BY <1>1, <1>2, <1>3, <1>4, <1>5, <1>6, <1>7 DEF Next

-----------------------------------------------------------------------------
(* Packets and answers on a connection.                                       *)

(* What is between two units stays between them. *)
LEMMA BetweenAppend ==
  ASSUME NEW o \in Seq(OutUnit), NEW u \in OutUnit, NEW n \in 1..Len(o), NEW k
  PROVE  /\ \A m \in 1..(Len(o) + 1) : Between(Append(o, u), n, m, k) <=> Between(o, n, m, k)
         /\ Between(Append(o, u), n, Len(o) + 2, k) <=> Between(o, n, Len(o) + 1, k) /\ ~OfThread(u, k)
<1>1. PICK len \in Nat : len = Len(o)
  OBVIOUS
<1>2. PICK p : p = Append(o, u)
  OBVIOUS
<1>3. p[len + 1] = u /\ \A j \in 1..len : p[j] = o[j]
  BY <1>1, <1>2, AppendElement
<1>4. n \in Nat /\ n >= 1 /\ n <= len
  BY <1>1
<1>5. ASSUME NEW m \in 1..(len + 1) PROVE Between(p, n, m, k) <=> Between(o, n, m, k)
  <2>1. \A x \in (n + 1)..(m - 1) : x \in 1..len
    BY <1>4
  <2>2. \A x \in (n + 1)..(m - 1) : p[x] = o[x]
    BY <1>3, <2>1
  <2> QED
    BY <2>2 DEF Between
<1>6. Between(p, n, len + 2, k) <=> Between(o, n, len + 1, k) /\ ~OfThread(u, k)
  <2>1. (len + 2) - 1 = len + 1 /\ (len + 1) - 1 = len
    OBVIOUS
  <2>2. \A x \in (n + 1)..(len + 1) : x \in (n + 1)..len \/ x = len + 1
    BY <1>4
  <2>3. len + 1 \in (n + 1)..(len + 1) /\ \A x \in (n + 1)..len : x \in (n + 1)..(len + 1) /\ x \in 1..len
    BY <1>4
  <2>4. (\A x \in (n + 1)..(len + 1) : ~OfThread(p[x], k))
          <=> (\A x \in (n + 1)..len : ~OfThread(o[x], k)) /\ ~OfThread(u, k)
    BY <1>3, <2>2, <2>3
  <2> QED
    BY <2>1, <2>4 DEF Between
<1> QED
  BY <1>1, <1>2, <1>5, <1>6

(* Other states of the threads. *)
LEMMA InterleavedThreads ==
  ASSUME NEW o, NEW ts, NEW us, Interleaved(o, ts),
         \A k \in 1..Len(ts) : k \in 1..Len(us) /\ us[k].proto = ts[k].proto /\ us[k].play = ts[k].play
  PROVE  Interleaved(o, us)
<1>1. \A n \in 1..Len(o) : o[n][1] # "answer" => o[n][3] \in 1..Len(us) /\ us[o[n][3]].proto = 1
  BY DEF Interleaved
<1>2. ASSUME NEW n \in 1..Len(o), NEW m \in 1..Len(o), n < m, o[n][1] = "header"
      PROVE  /\ o[m][1] = "answer" => o[m][3] > us[o[n][3]].play
             /\ OfThread(o[m], o[n][3]) /\ Between(o, n, m, o[n][3]) => o[m][1] = "payload"
  <2>1. o[n][3] \in 1..Len(ts)
    BY <1>2 DEF Interleaved
  <2>2. us[o[n][3]].play = ts[o[n][3]].play
    BY <2>1
  <2> QED
    BY <1>2, <2>2 DEF Interleaved
<1> QED
  BY <1>1, <1>2 DEF Interleaved

LEMMA PendingThreads ==
  ASSUME NEW o, NEW ts, NEW us, Interleaved(o, ts), Pending(o, ts),
         \A k \in 1..Len(ts) : ts[k].proto = 1 /\ ts[k].pc \in {"payload", "closing", "ended"}
                                 => us[k].pc \in {"payload", "closing", "ended"}
  PROVE  Pending(o, us)
<1> SUFFICES ASSUME NEW n \in 1..Len(o), o[n][1] = "header", Between(o, n, Len(o) + 1, o[n][3])
             PROVE  us[o[n][3]].pc \in {"payload", "closing", "ended"}
  BY DEF Pending
<1>1. o[n][3] \in 1..Len(ts) /\ ts[o[n][3]].proto = 1
  BY DEF Interleaved
<1>2. ts[o[n][3]].pc \in {"payload", "closing", "ended"}
  BY DEF Pending
<1> QED
  BY <1>1, <1>2

(* An answer to a request after every PLAY. *)
LEMMA InterleavedAnswer ==
  ASSUME NEW o \in Seq(OutUnit), NEW u \in OutUnit, NEW ts, Interleaved(o, ts), u[1] = "answer",
         \A k \in 1..Len(ts) : u[3] > ts[k].play
  PROVE  Interleaved(Append(o, u), ts) /\ (Pending(o, ts) => Pending(Append(o, u), ts))
<1>1. PICK len \in Nat : len = Len(o)
  OBVIOUS
<1>2. PICK p : p = Append(o, u)
  OBVIOUS
<1>3. /\ Len(p) = len + 1 /\ p[len + 1] = u /\ (\A j \in 1..len : p[j] = o[j])
      /\ \A j \in 1..Len(p) : j \in 1..len \/ j = len + 1
  BY <1>1, <1>2, AppendElement
<1>4. \A k : ~OfThread(u, k)
  BY DEF OfThread
<1>5. /\ \A n \in 1..len : \A k : \A m \in 1..(len + 1) : Between(p, n, m, k) <=> Between(o, n, m, k)
      /\ \A n \in 1..len : \A k : Between(p, n, len + 2, k) <=> Between(o, n, len + 1, k)
  BY <1>1, <1>2, <1>4, BetweenAppend
<1>6. \A n \in 1..Len(p) : p[n][1] # "answer" => p[n][3] \in 1..Len(ts) /\ ts[p[n][3]].proto = 1
  <2> SUFFICES ASSUME NEW n \in 1..Len(p), p[n][1] # "answer"
               PROVE  p[n][3] \in 1..Len(ts) /\ ts[p[n][3]].proto = 1
    OBVIOUS
  <2>1. n \in 1..len
    BY <1>3
  <2> QED
    BY <1>1, <1>3, <2>1 DEF Interleaved
<1>7. ASSUME NEW n \in 1..Len(p), NEW m \in 1..Len(p), n < m, p[n][1] = "header"
      PROVE  /\ p[m][1] = "answer" => p[m][3] > ts[p[n][3]].play
             /\ OfThread(p[m], p[n][3]) /\ Between(p, n, m, p[n][3]) => p[m][1] = "payload"
  <2>1. n \in 1..len
    BY <1>3, <1>7
  <2>2. p[n] = o[n] /\ o[n][3] \in 1..Len(ts)
    BY <1>1, <1>3, <1>7, <2>1 DEF Interleaved
  <2>3. CASE m \in 1..len
    <3>1. p[m] = o[m] /\ m \in 1..(len + 1)
      BY <1>3, <2>3
    <3>2. Between(p, n, m, p[n][3]) <=> Between(o, n, m, o[n][3])
      BY <1>5, <2>1, <2>2, <3>1
    <3> QED
      BY <1>1, <1>7, <2>1, <2>2, <2>3, <3>1, <3>2 DEF Interleaved
  <2>4. CASE m = len + 1
    BY <1>3, <1>4, <2>2, <2>4
  <2> QED
    BY <1>3, <2>3, <2>4
<1>8. Interleaved(p, ts)
  BY <1>6, <1>7 DEF Interleaved
<1>9. ASSUME Pending(o, ts) PROVE Pending(p, ts)
  <2> SUFFICES ASSUME NEW n \in 1..Len(p), p[n][1] = "header", Between(p, n, Len(p) + 1, p[n][3])
               PROVE  ts[p[n][3]].pc \in {"payload", "closing", "ended"}
    BY DEF Pending
  <2>1. n \in 1..len
    BY <1>3
  <2>2. p[n] = o[n] /\ Len(p) + 1 = len + 2
    BY <1>3, <2>1
  <2>3. Between(o, n, len + 1, o[n][3])
    BY <1>5, <2>1, <2>2
  <2> QED
    BY <1>1, <1>9, <2>1, <2>2, <2>3 DEF Pending
<1> QED
  BY <1>2, <1>8, <1>9

(* A unit of a media thread. *)
LEMMA InterleavedMedia ==
  ASSUME NEW o \in Seq(OutUnit), NEW u \in OutUnit, NEW ts, NEW us, NEW k \in 1..Len(ts),
         Interleaved(o, ts), Pending(o, ts), u[1] = ts[k].pc, u[3] = k,
         ts[k].pc \in {"header", "payload", "packet"}, ts[k].proto = 1, us[k].pc = NextWrite(ts[k].pc),
         \A l \in 1..Len(ts) : l \in 1..Len(us) /\ us[l].proto = ts[l].proto /\ us[l].play = ts[l].play,
         \A l \in 1..Len(ts) : l # k => us[l] = ts[l]
  PROVE  Interleaved(Append(o, u), us) /\ Pending(Append(o, u), us)
<1>1. PICK len \in Nat : len = Len(o)
  OBVIOUS
<1>2. PICK p : p = Append(o, u)
  OBVIOUS
<1>3. /\ Len(p) = len + 1 /\ p[len + 1] = u /\ (\A j \in 1..len : p[j] = o[j])
      /\ \A j \in 1..Len(p) : j \in 1..len \/ j = len + 1
  BY <1>1, <1>2, AppendElement
<1>4. u[1] # "answer" /\ \A l : OfThread(u, l) <=> l = k
  BY DEF OfThread
<1>5. /\ \A n \in 1..len : \A l : \A m \in 1..(len + 1) : Between(p, n, m, l) <=> Between(o, n, m, l)
      /\ \A n \in 1..len : \A l : Between(p, n, len + 2, l) <=> Between(o, n, len + 1, l) /\ l # k
  BY <1>1, <1>2, <1>4, BetweenAppend
<1>6. Interleaved(o, us)
  BY InterleavedThreads
<1>7. \A n \in 1..Len(p) : p[n][1] # "answer" => p[n][3] \in 1..Len(us) /\ us[p[n][3]].proto = 1
  <2> SUFFICES ASSUME NEW n \in 1..Len(p), p[n][1] # "answer"
               PROVE  p[n][3] \in 1..Len(us) /\ us[p[n][3]].proto = 1
    OBVIOUS
  <2>1. CASE n \in 1..len
    BY <1>1, <1>3, <1>6, <2>1 DEF Interleaved
  <2>2. CASE n = len + 1
    BY <1>3, <2>2
  <2> QED
    BY <1>3, <2>1, <2>2
<1>8. ASSUME NEW n \in 1..Len(p), NEW m \in 1..Len(p), n < m, p[n][1] = "header"
      PROVE  /\ p[m][1] = "answer" => p[m][3] > us[p[n][3]].play
             /\ OfThread(p[m], p[n][3]) /\ Between(p, n, m, p[n][3]) => p[m][1] = "payload"
  <2>1. n \in 1..len
    BY <1>3, <1>8
  <2>2. p[n] = o[n] /\ o[n][3] \in 1..Len(ts)
    BY <1>1, <1>3, <1>8, <2>1 DEF Interleaved
  <2>3. CASE m \in 1..len
    <3>1. p[m] = o[m] /\ m \in 1..(len + 1)
      BY <1>3, <2>3
    <3>2. Between(p, n, m, p[n][3]) <=> Between(o, n, m, o[n][3])
      BY <1>5, <2>1, <2>2, <3>1
    <3> QED
      BY <1>1, <1>6, <1>8, <2>1, <2>2, <2>3, <3>1, <3>2 DEF Interleaved
  <2>4. CASE m = len + 1
    <3> SUFFICES ASSUME o[n][3] = k, Between(p, n, m, o[n][3]) PROVE u[1] = "payload"
      BY <1>3, <1>4, <2>2, <2>4
    <3>1. Between(o, n, len + 1, o[n][3])
      <4>1. len + 1 \in 1..(len + 1)
        OBVIOUS
      <4> QED
        BY <1>5, <2>1, <2>4, <4>1
    <3>2. ts[k].pc \in {"payload", "closing", "ended"}
      BY <1>1, <1>8, <2>1, <2>2, <3>1 DEF Pending
    <3> QED
      BY <3>2
  <2> QED
    BY <1>3, <2>3, <2>4
<1>9. Interleaved(p, us)
  BY <1>7, <1>8 DEF Interleaved
<1>10. Pending(p, us)
  <2> SUFFICES ASSUME NEW n \in 1..Len(p), p[n][1] = "header", Between(p, n, Len(p) + 1, p[n][3])
               PROVE  us[p[n][3]].pc \in {"payload", "closing", "ended"}
    BY DEF Pending
  <2>1. CASE n \in 1..len
    <3>1. p[n] = o[n] /\ Len(p) + 1 = len + 2
      BY <1>3, <2>1
    <3>2. Between(o, n, len + 1, o[n][3]) /\ o[n][3] # k
      BY <1>5, <2>1, <3>1
    <3>3. o[n][3] \in 1..Len(ts)
      BY <1>1, <2>1, <3>1 DEF Interleaved
    <3>4. ts[o[n][3]].pc \in {"payload", "closing", "ended"}
      BY <1>1, <2>1, <3>1, <3>2 DEF Pending
    <3> QED
      BY <3>1, <3>2, <3>3, <3>4
  <2>2. CASE n = len + 1
    BY <1>3, <2>2 DEF NextWrite
  <2> QED
    BY <1>3, <2>1, <2>2
<1> QED
  BY <1>2, <1>9, <1>10

(* A client that is gone stays so. *)
LEMMA GoneStays ==
  ASSUME TypeOK, NEW c \in Connection, Connect(c) \/ Send(c) \/ Disconnect(c), NEW x \in Connection,
         client[x].state = "closed"
  PROVE  client'[x].state = "closed"
<1>0. client \in [Connection -> [state : {"new", "open", "closed"}, sent : Nat, read : Nat]]
  BY DEF TypeOK
<1>1. CASE x # c
  BY <1>1, ClientStep
<1>2. CASE x = c
  BY <1>0, <1>2 DEF Connect, Send, Disconnect
<1> QED
  BY <1>1, <1>2

(* The threads of c when a request is answered. *)
LEMMA AnswerThreads ==
  ASSUME TypeOK, NEW c \in Connection, Answer(c), RequestOf(session[c].msg[1]) = answered[c] + 1
  PROVE  /\ \A x \in Connection \ {c} : media'[x] = media[x] /\ answered'[x] = answered[x]
         /\ \A k \in 1..Len(media[c]) : k \in 1..Len(media'[c]) /\ media'[c][k] = media[c][k]
         /\ \A k \in 1..Len(media'[c]) : \/ k \in 1..Len(media[c])
                                         \/ media'[c][k].play = answered[c] + 1 /\ answered'[c] = answered[c] + 1
         /\ answered'[c] = answered[c] \/ answered'[c] = answered[c] + 1
<1>1. PICK n \in Nat : n = RequestOf(session[c].msg[1]) /\ n = answered[c] + 1
  BY AnswerEffect DEF WriteUnit
<1>2. \/ media' = media /\ (answered' = answered \/ answered' = [answered EXCEPT ![c] = @ + 1])
      \/ /\ answered' = [answered EXCEPT ![c] = @ + 1]
         /\ \E p \in {0, 1} : media' = [media EXCEPT ![c] = Append(media[c], NewThread(p, n))]
  BY <1>1, AnswerEffect
<1>3. media \in [Connection -> Seq(MediaThread)] /\ answered \in [Connection -> Nat]
  BY DEF TypeOK
<1>4. CASE media' = media /\ (answered' = answered \/ answered' = [answered EXCEPT ![c] = @ + 1])
  BY <1>3, <1>4
<1>5. ASSUME NEW p \in {0, 1}, media' = [media EXCEPT ![c] = Append(media[c], NewThread(p, n))],
             answered' = [answered EXCEPT ![c] = @ + 1]
      PROVE  /\ \A x \in Connection \ {c} : media'[x] = media[x] /\ answered'[x] = answered[x]
             /\ \A k \in 1..Len(media[c]) : k \in 1..Len(media'[c]) /\ media'[c][k] = media[c][k]
             /\ \A k \in 1..Len(media'[c]) : \/ k \in 1..Len(media[c])
                                             \/ media'[c][k].play = answered[c] + 1 /\ answered'[c] = answered[c] + 1
             /\ answered'[c] = answered[c] + 1
  <2>1. PICK u \in MediaThread : u = NewThread(p, n) /\ u.play = n
    BY NewThreadType
  <2>2. PICK ts \in Seq(MediaThread) : ts = media[c]
    BY <1>3
  <2>3. media'[c] = Append(ts, u) /\ \A x \in Connection \ {c} : media'[x] = media[x]
    BY <1>3, <1>5, <2>1, <2>2
  <2>4. answered'[c] = answered[c] + 1 /\ \A x \in Connection \ {c} : answered'[x] = answered[x]
    BY <1>3, <1>5
  <2>5. /\ \A j \in 1..Len(ts) : j \in 1..Len(Append(ts, u)) /\ Append(ts, u)[j] = ts[j]
        /\ \A j \in 1..Len(Append(ts, u)) : j \in 1..Len(ts) \/ Append(ts, u)[j] = u
    BY AppendElement
  <2> QED
    BY <1>1, <2>1, <2>2, <2>3, <2>4, <2>5
<1> QED
  BY <1>2, <1>4, <1>5

(* Steps that write nothing to c. *)
LEMMA WholeKept ==
  ASSUME TypeOK, NEW c \in Connection, WholeOK(c), Lasting(c), out'[c] = out[c],
         \A k \in 1..Len(media'[c]) : media'[c][k].play <= answered'[c],
         client'[c].state # "closed" =>
           /\ client[c].state # "closed"
           /\ \A k \in 1..Len(media[c]) :
                media[c][k].proto = 1 /\ media[c][k].pc \in {"payload", "closing", "ended"}
                  => media'[c][k].pc \in {"payload", "closing", "ended"}
  PROVE  WholeOK(c)'
<1>1. PICK ts : ts = media[c]
  OBVIOUS
<1>2. PICK us : us = media'[c]
  OBVIOUS
<1>3. PICK o : o = out[c] /\ o = out'[c]
  OBVIOUS
<1>4. \A k \in 1..Len(ts) : k \in 1..Len(us) /\ us[k].proto = ts[k].proto /\ us[k].play = ts[k].play
  BY <1>1, <1>2 DEF Lasting
<1>5. Interleaved(o, ts) /\ Interleaved(o, us)
  BY <1>1, <1>3, <1>4, InterleavedThreads DEF WholeOK
<1>6. ASSUME client'[c].state # "closed" PROVE Pending(o, us)
  <2>1. Pending(o, ts)
    BY <1>1, <1>3, <1>6 DEF WholeOK
  <2>2. \A k \in 1..Len(ts) : ts[k].proto = 1 /\ ts[k].pc \in {"payload", "closing", "ended"}
                                => us[k].pc \in {"payload", "closing", "ended"}
    BY <1>1, <1>2, <1>6
  <2> QED
    BY <1>5, <2>1, <2>2, PendingThreads
<1> QED
  BY <1>2, <1>3, <1>5, <1>6 DEF WholeOK

(* Steps that leave the threads of c alone too. *)
LEMMA WholeSame ==
  ASSUME TypeOK, NEW c \in Connection, WholeOK(c), out'[c] = out[c], media'[c] = media[c],
         answered'[c] = answered[c], client'[c].state # "closed" => client[c].state # "closed"
  PROVE  WholeOK(c)'
  BY DEF WholeOK

(* Steps of a thread of c that write nothing. *)
LEMMA WholeThread ==
  ASSUME TypeOK, NEW c \in Connection, NEW k \in 1..Len(media[c]), WholeOK(c), Lasting(c), OnlyThread(c, k),
         out'[c] = out[c], answered' = answered, client' = client,
         \/ media[c][k].pc \notin {"payload", "closing", "ended"}
         \/ media'[c][k].pc \in {"payload", "closing", "ended"}
         \/ media[c][k].proto = 0 \/ client[c].state = "closed"
  PROVE  WholeOK(c)'
<1>1. \A l \in 1..Len(media'[c]) : media'[c][l].play <= answered'[c]
  <2> TAKE l \in 1..Len(media'[c])
  <2>1. l \in 1..Len(media[c]) /\ media'[c][l].play = media[c][l].play
    BY DEF OnlyThread
  <2> QED
    BY <2>1 DEF WholeOK
<1>2. ASSUME client'[c].state # "closed", NEW l \in 1..Len(media[c]), media[c][l].proto = 1,
             media[c][l].pc \in {"payload", "closing", "ended"}
      PROVE  media'[c][l].pc \in {"payload", "closing", "ended"}
  <2>1. CASE l = k
    BY <1>2, <2>1
  <2>2. CASE l # k
    BY <1>2, <2>2 DEF OnlyThread
  <2> QED
    BY <2>1, <2>2
<1> QED
  BY <1>1, <1>2, WholeKept

LEMMA WholeAnswer ==
  ASSUME TypeOK, QueueOK, AllOwned, AllParsed, NEW c \in Connection, Answer(c), WholeOK(c), Lasting(c)
  PROVE  WholeOK(c)'
<1>1. client' = client /\ RequestOf(session[c].msg[1]) = answered[c] + 1
  BY AnswerEffect, AnswerWrites
<1>2. /\ \A k \in 1..Len(media[c]) : k \in 1..Len(media'[c]) /\ media'[c][k] = media[c][k]
      /\ \A k \in 1..Len(media'[c]) : \/ k \in 1..Len(media[c])
                                      \/ media'[c][k].play = answered[c] + 1 /\ answered'[c] = answered[c] + 1
      /\ answered'[c] = answered[c] \/ answered'[c] = answered[c] + 1
  BY <1>1, AnswerThreads
<1>3. PICK T \in Nat : T = answered[c]
  BY DEF TypeOK
<1>4. ASSUME NEW k \in 1..Len(media[c]) PROVE media[c][k].play \in Nat /\ media[c][k].play <= T
  <2>1. media[c] \in Seq(MediaThread)
    BY DEF TypeOK
  <2>2. media[c][k] \in MediaThread
    BY <2>1
  <2> QED
    BY <1>3, <2>2 DEF WholeOK, MediaThread
<1>5. \A k \in 1..Len(media'[c]) : media'[c][k].play <= answered'[c]
  <2> TAKE k \in 1..Len(media'[c])
  <2>1. CASE k \in 1..Len(media[c])
    <3>1. PICK n \in Nat : n = media'[c][k].play /\ n <= T
      BY <1>2, <1>4, <2>1
    <3>2. n <= T /\ n <= T + 1
      BY <3>1
    <3> QED
      BY <1>2, <1>3, <3>1, <3>2
  <2>2. CASE media'[c][k].play = answered[c] + 1 /\ answered'[c] = answered[c] + 1
    <3>1. T + 1 <= T + 1
      OBVIOUS
    <3> QED
      BY <1>3, <2>2, <3>1
  <2> QED
    BY <1>2, <2>1, <2>2
<1>6. CASE out' = out
  BY <1>1, <1>2, <1>5, <1>6, WholeKept
<1>7. CASE client[c].state = "open" /\ AnswerSent(c)
  <2>1. PICK u \in OutUnit : u[1] = "answer" /\ u[3] = T + 1 /\ out'[c] = Append(out[c], u)
    BY <1>3, <1>7 DEF AnswerSent
  <2>2. PICK ts : ts = media[c]
    OBVIOUS
  <2>3. PICK us : us = media'[c]
    OBVIOUS
  <2>4. PICK o \in Seq(OutUnit) : o = out[c]
    BY DEF TypeOK, OutUnit
  <2>5. Interleaved(o, ts) /\ Pending(o, ts)
    BY <1>7, <2>2, <2>4 DEF WholeOK
  <2>6. \A k \in 1..Len(ts) : u[3] > ts[k].play
    <3> TAKE k \in 1..Len(ts)
    <3>1. PICK n \in Nat : n = ts[k].play /\ n <= T
      BY <1>4, <2>2
    <3>2. T + 1 > n
      BY <3>1
    <3> QED
      BY <2>1, <3>1, <3>2
  <2>7. PICK p : p = Append(o, u)
    OBVIOUS
  <2>8. Interleaved(p, ts) /\ Pending(p, ts)
    BY <2>1, <2>5, <2>6, <2>7, InterleavedAnswer
  <2>9. \A k \in 1..Len(ts) : k \in 1..Len(us) /\ us[k] = ts[k]
    BY <1>2, <2>2, <2>3
  <2>10. Interleaved(p, us) /\ Pending(p, us)
    <3>1. Interleaved(p, us)
      BY ONLY <2>8, <2>9, InterleavedThreads
    <3>2. Pending(p, us)
      BY ONLY <2>8, <2>9, PendingThreads
    <3> QED
      BY <3>1, <3>2
  <2> QED
    BY <1>5, <2>1, <2>3, <2>4, <2>7, <2>10 DEF WholeOK
<1> QED
  BY <1>6, <1>7, AnswerWrites

LEMMA WholeSend ==
  ASSUME TypeOK, QueueOK, AllOwned, NEW c \in Connection, NEW k \in 1..Len(media[c]), SendMedia(c, k),
         WholeOK(c), Lasting(c)
  PROVE  WholeOK(c)'
<1>1. /\ client' = client /\ answered' = answered /\ OnlyThread(c, k)
      /\ media[c][k].pc \in {"header", "payload", "packet"}
  BY SendMediaEffect
<1>2. CASE /\ out' = out
           /\ media[c][k].proto = 0 \/ client[c].state = "closed" \/ media'[c][k].pc = "closing"
  BY <1>1, <1>2, WholeThread
<1>3. CASE media[c][k].proto = 1 /\ client[c].state = "open" /\ UnitSent(c, k)
  <2>1. PICK u \in OutUnit : u[1] = media[c][k].pc /\ u[3] = k /\ out'[c] = Append(out[c], u)
    BY <1>3 DEF UnitSent
  <2>2. PICK ts : ts = media[c]
    OBVIOUS
  <2>3. PICK us : us = media'[c]
    OBVIOUS
  <2>4. PICK o \in Seq(OutUnit) : o = out[c]
    BY DEF TypeOK, OutUnit
  <2>5. Interleaved(o, ts) /\ Pending(o, ts)
    BY <1>3, <2>2, <2>4 DEF WholeOK
  <2>6. /\ k \in 1..Len(ts) /\ u[1] = ts[k].pc /\ ts[k].pc \in {"header", "payload", "packet"}
        /\ ts[k].proto = 1 /\ us[k].pc = NextWrite(ts[k].pc)
    BY <1>1, <1>3, <2>1, <2>2, <2>3 DEF UnitSent
  <2>7. /\ \A l \in 1..Len(ts) : l \in 1..Len(us) /\ us[l].proto = ts[l].proto /\ us[l].play = ts[l].play
        /\ \A l \in 1..Len(ts) : l # k => us[l] = ts[l]
    BY <1>1, <2>2, <2>3 DEF Lasting, OnlyThread
  <2>8. Interleaved(Append(o, u), us) /\ Pending(Append(o, u), us)
    <3>1. u[3] = k
      BY <2>1
    <3> QED
      BY ONLY u \in OutUnit, o \in Seq(OutUnit), <2>5, <2>6, <2>7, <3>1, InterleavedMedia
  <2>9. \A l \in 1..Len(media'[c]) : media'[c][l].play <= answered'[c]
    <3> TAKE l \in 1..Len(media'[c])
    <3>1. l \in 1..Len(media[c]) /\ media'[c][l].play = media[c][l].play
      BY <1>1 DEF OnlyThread
    <3> QED
      BY <1>1, <3>1 DEF WholeOK
  <2> QED
    BY <2>1, <2>3, <2>4, <2>8, <2>9 DEF WholeOK
<1> QED
  BY <1>2, <1>3, MediaWrites

AllWhole == \A c \in Connection : WholeOK(c)

LEMMA WholeStep ==
  ASSUME TypeOK, QueueOK, AllOwned, AllParsed, AllWhole, Next
  PROVE  AllWhole'
<1> SUFFICES ASSUME NEW x \in Connection PROVE WholeOK(x)'
  BY DEF AllWhole
<1>0. WholeOK(x) /\ Lasting(x)
  BY LastingStep DEF AllWhole
<1>1. CASE Accept
  <2>1. client' = client /\ answered' = answered /\ out' = out /\ media' = media
    BY <1>1, AcceptEffect
  <2> QED
    BY <1>0, <2>1, WholeSame
<1>2. ASSUME NEW c \in Connection, Connect(c) \/ Send(c) \/ Disconnect(c) PROVE WholeOK(x)'
  <2>1. answered' = answered /\ out' = out /\ media' = media
    BY <1>2 DEF Connect, Send, Disconnect
  <2>2. client'[x].state # "closed" => client[x].state # "closed"
    BY <1>2, GoneStays
  <2> QED
    BY <1>0, <2>1, <2>2, WholeSame
<1>3. ASSUME NEW c \in Connection, Start(c) \/ Close(c) PROVE WholeOK(x)'
  <2>1. client' = client /\ answered' = answered /\ out' = out /\ media' = media
    BY <1>3, StartEffect, CloseEffect
  <2> QED
    BY <1>0, <2>1, WholeSame
<1>4. ASSUME NEW c \in Connection, Read(c) \/ ReadReset(c) PROVE WholeOK(x)'
  <2>1. client'[x].state = client[x].state /\ answered' = answered /\ out' = out /\ media' = media
    BY <1>4, ReadCases, ReadType DEF ReadClient
  <2> QED
    BY <1>0, <2>1, WholeSame
<1>5. ASSUME NEW c \in Connection, Answer(c) PROVE WholeOK(x)'
  <2>1. CASE x = c
    BY <1>0, <1>5, <2>1, WholeAnswer
  <2>2. CASE x # c
    <3>1. client' = client /\ out'[x] = out[x] /\ RequestOf(session[c].msg[1]) = answered[c] + 1
      BY <1>5, <2>2, AnswerEffect, AnswerWrites
    <3>2. media'[x] = media[x] /\ answered'[x] = answered[x]
      BY <1>5, <2>2, <3>1, AnswerThreads
    <3> QED
      BY <1>0, <3>1, <3>2, WholeSame
  <2> QED
    BY <2>1, <2>2
<1>6. ASSUME NEW c \in Connection, NEW k \in 1..Len(media[c]), StartMedia(c, k) \/ GetFrameFails(c, k) \/ CloseMedia(c, k)
      PROVE  WholeOK(x)'
  <2>1. client' = client /\ answered' = answered /\ out' = out
    BY <1>6, StartMediaEffect, GetFrameFailsEffect, CloseMediaEffect
  <2>2. media' = media \/ OnlyThread(c, k)
    BY <1>6, StartMediaEffect, GetFrameFailsEffect, CloseMediaEffect, ZenonT(40)
  <2>3. \/ media[c][k].pc \notin {"payload", "closing", "ended"} \/ media'[c][k].pc \in {"payload", "closing", "ended"}
    BY <1>6, StartMediaEffect, GetFrameFailsEffect, CloseMediaEffect
  <2>4. CASE media'[x] = media[x]
    BY <1>0, <2>1, <2>4, WholeSame
  <2>5. CASE x = c /\ OnlyThread(c, k)
    BY <1>0, <2>1, <2>3, <2>5, WholeThread
  <2> QED
    BY <2>2, <2>4, <2>5 DEF OnlyThread
<1>7. ASSUME NEW c \in Connection, NEW k \in 1..Len(media[c]), SendMedia(c, k) PROVE WholeOK(x)'
  <2>1. CASE x = c
    BY <1>0, <1>7, <2>1, WholeSend
  <2>2. CASE x # c
    <3>1. client' = client /\ answered' = answered /\ media'[x] = media[x]
      BY <1>7, <2>2, SendMediaEffect DEF OnlyThread
    <3>2. out'[x] = out[x]
      BY <1>7, <2>2, MediaWrites
    <3> QED
      BY <1>0, <3>1, <3>2, WholeSame
  <2> QED
    BY <2>1, <2>2
<1> QED
  BY <1>1, <1>2, <1>3, <1>4, <1>5, <1>6, <1>7 DEF Next

-----------------------------------------------------------------------------
(* Why a session ends.                                                        *)

LEMMA CauseKept ==
  ASSUME TypeOK, TypeOK', NEW c \in Connection, CauseOK(c), Lasting(c), script' = script, answered'[c] = answered[c],
         client[c].state = "closed" => client'[c].state = "closed", client[c].read <= client'[c].read,
         session'[c].pc \in {"closing", "ended"} => session[c].pc \in {"closing", "ended"}
  PROVE  CauseOK(c)'
<1>1. Ended(media[c], 1) => Ended(media'[c], 1)
  BY DEF Ended, Lasting
<1>2. RefusedNext(c) => RefusedNext(c)'
  <2>1. PICK r \in Nat : r = client[c].read
    BY DEF TypeOK
  <2>2. PICK s \in Nat : s = client'[c].read
    BY DEF TypeOK
  <2>3. PICK a \in Nat : a = answered[c] /\ a = answered'[c]
    BY DEF TypeOK
  <2>4. r <= s /\ (2 * (a + 1) <= r => 2 * (a + 1) <= s)
    BY <2>1, <2>2
  <2> QED
    BY <2>1, <2>2, <2>3, <2>4 DEF RefusedNext
<1> QED
  BY <1>1, <1>2 DEF CauseOK

(* A request that rtsp_demux_parse() refuses. *)
LEMMA CauseParse ==
  ASSUME TypeOK, NEW c \in Connection, session[c].pc = "read", ParsesWhole(c),
         answered' = answered, script' = script, session'[c].pc = "closing"
  PROVE  RefusedNext(c)'
<1>1. PICK B \in Seq(Unit) : Holding(c, B) /\ \E e \in {"other", "EAGAIN"} : Parse(c, B, e)
  BY DEF ParsesWhole
<1>2. PICK T \in Nat : T = answered[c]
  BY DEF TypeOK
<1>3. Complete(c, B) # {} /\ Refused(c, SubSeq(B, 1, Min(Complete(c, B))))
  BY <1>1, ParseEffect
<1>4. \A j \in 1..Len(B) : B[j] = <<c, 2 * T + j>>
  BY <1>1, <1>2 DEF Holding
<1>5. Len(B) >= 2 /\ Min(Complete(c, B)) = 2
  BY ONLY B \in Seq(Unit), T \in Nat, <1>3, <1>4, FirstRequest
<1>6. PICK msg : msg = << <<c, 2 * (T + 1) - 1>>, <<c, 2 * (T + 1)>> >> /\ msg = SubSeq(B, 1, 2)
  <2>1. SubSeq(B, 1, 2) = << <<c, 2 * (T + 1) - 1>>, <<c, 2 * (T + 1)>> >>
    BY ONLY B \in Seq(Unit), T \in Nat, <1>4, <1>5, TakeRequest
  <2> QED
    BY <2>1
<1>7. Refused(c, msg)
  BY <1>3, <1>5, <1>6
<1>8. Method(msg) = script[c][T + 1]
  <2>1. msg[1] = <<c, 2 * (T + 1) - 1>> /\ Len(msg) = 2
    BY <1>6
  <2>2. msg[1] # Junk /\ msg[1][1] = c /\ msg[1][2] = 2 * (T + 1) - 1
    BY <2>1 DEF Junk
  <2>3. ((2 * (T + 1) - 1) + 1) \div 2 = T + 1
    OBVIOUS
  <2>4. RequestOf(msg[1]) = T + 1
    BY <2>2, <2>3 DEF RequestOf
  <2>5. ~(Len(msg) < 2)
    BY <2>1
  <2> QED
    BY <2>2, <2>4, <2>5 DEF Method
<1>9. 2 * (T + 1) <= client'[c].read
  <2>1. PICK b \in Nat : b = Len(B) /\ b >= 2
    BY <1>5
  <2>2. client'[c].read = 2 * T + b
    BY <1>1, <1>2, <2>1 DEF Holding
  <2>3. 2 * (T + 1) <= 2 * T + b
    BY <2>1
  <2> QED
    BY <2>2, <2>3
<1>10. answered'[c] = T
  BY <1>2
<1> QED
  BY <1>7, <1>8, <1>9, <1>10 DEF RefusedNext, Refused

LEMMA CauseRead ==
  ASSUME TypeOK, AllOwned, AllParsed, NEW c \in Connection, Read(c) \/ ReadReset(c)
  PROVE  CauseOK(c)'
<1>1. session[c].pc = "read" /\ UNCHANGED <<script, media, answered>>
  BY ReadCases
<1>2. session'[c].pc # "ended"
  BY ReadType DEF ReadSession
<1>3. SUFFICES ASSUME session'[c].pc = "closing"
               PROVE  client'[c].state = "closed" \/ RefusedNext(c)' \/ Ended(media'[c], 1)
  BY <1>2 DEF CauseOK
<1>4. CASE Ended(media[c], 1)
  BY <1>1, <1>4
<1>5. CASE ReadsFrom(c, c)
  <2>1. ParseOK(c)
    BY DEF AllParsed
  <2>2. CASE client' = client /\ client[c].state = "closed"
    BY <2>2
  <2>3. CASE ParsesWhole(c)
    BY <1>1, <1>3, <2>3, CauseParse
  <2> QED
    BY <1>1, <1>5, <2>1, <2>2, <2>3, ReadGets
<1> QED
  BY <1>4, <1>5, OwnedReadStep

LEMMA CauseAnswer ==
  ASSUME TypeOK, QueueOK, AllOwned, AllParsed, NEW c \in Connection, Answer(c)
  PROVE  CauseOK(c)'
<1>1. client' = client /\ session'[c].pc \in {"read", "closing"}
  BY AnswerEffect
<1>2. CASE AnswerSent(c)
  BY <1>2 DEF AnswerSent, CauseOK
<1>3. CASE client[c].state = "closed"
  BY <1>1, <1>3 DEF CauseOK
<1>4. CASE Ended(media[c], 1) /\ media' = media
  BY <1>4 DEF CauseOK
<1> QED
  BY <1>2, <1>3, <1>4, AnswerWrites

AllCaused == \A c \in Connection : CauseOK(c)

LEMMA CauseStep ==
  ASSUME TypeOK, TypeOK', QueueOK, AllOwned, AllParsed, AllCaused, Next
  PROVE  AllCaused'
<1> SUFFICES ASSUME NEW x \in Connection PROVE CauseOK(x)'
  BY DEF AllCaused
<1>0. CauseOK(x) /\ Lasting(x) /\ client[x].read \in Nat /\ client[x].read <= client[x].read
  <2>1. client[x].read \in Nat
    BY DEF TypeOK
  <2> QED
    BY <2>1, LastingStep DEF AllCaused
<1>1. CASE Accept
  <2>1. client' = client /\ answered' = answered /\ script' = script
    BY <1>1, AcceptEffect
  <2>2. session'[x] = session[x] \/ session'[x].pc = "starting"
    BY <1>1, AcceptEffect
  <2> QED
    BY <1>0, <2>1, <2>2, CauseKept
<1>2. ASSUME NEW c \in Connection, Connect(c) \/ Send(c) \/ Disconnect(c) PROVE CauseOK(x)'
  <2>1. answered' = answered /\ script' = script /\ session' = session
    BY <1>2 DEF Connect, Send, Disconnect
  <2>2. client[x].state = "closed" => client'[x].state = "closed"
    BY <1>2, GoneStays
  <2>3. client'[x].read = client[x].read
    BY <1>2, ClientStep
  <2> QED
    BY <1>0, <2>1, <2>2, <2>3, CauseKept
<1>3. ASSUME NEW c \in Connection, Start(c) \/ Close(c) PROVE CauseOK(x)'
  <2>1. client' = client /\ answered' = answered /\ script' = script
    BY <1>3, StartEffect, CloseEffect
  <2>2. session'[x] = session[x] \/ session[x].pc = "closing" \/ session'[x].pc \in {"read", "failed"}
    BY <1>3, StartEffect, CloseEffect DEF OnlySession
  <2> QED
    BY <1>0, <2>1, <2>2, CauseKept
<1>4. ASSUME NEW c \in Connection, Read(c) \/ ReadReset(c) PROVE CauseOK(x)'
  <2>1. CASE x = c
    BY <1>4, <2>1, CauseRead
  <2>2. CASE x # c
    <3>1. answered' = answered /\ script' = script
      BY <1>4, ReadCases
    <3>2. session'[x] = session[x]
      BY <1>4, <2>2, ReadType DEF ReadSession, OnlySession
    <3>3. ReadsFrom(c, c) \/ client' = client
      BY <1>4, OwnedReadStep
    <3>4. client'[x] = client[x]
      BY <2>2, <3>3 DEF ReadsFrom, TypeOK
    <3> QED
      BY <1>0, <3>1, <3>2, <3>4, CauseKept
  <2> QED
    BY <2>1, <2>2
<1>5. ASSUME NEW c \in Connection, Answer(c) PROVE CauseOK(x)'
  <2>1. CASE x = c
    BY <1>5, <2>1, CauseAnswer
  <2>2. CASE x # c
    <3>1. client' = client /\ script' = script /\ session'[x] = session[x]
          /\ RequestOf(session[c].msg[1]) = answered[c] + 1
      BY <1>5, <2>2, AnswerEffect, AnswerWrites DEF OnlySession
    <3>2. answered'[x] = answered[x]
      BY <1>5, <2>2, <3>1, AnswerThreads
    <3> QED
      BY <1>0, <3>1, <3>2, CauseKept
  <2> QED
    BY <2>1, <2>2
<1>6. ASSUME NEW c \in Connection, NEW k \in 1..Len(media[c]),
             StartMedia(c, k) \/ GetFrameFails(c, k) \/ SendMedia(c, k) \/ CloseMedia(c, k) PROVE CauseOK(x)'
  <2>1. client' = client /\ session' = session /\ answered' = answered /\ script' = script
    BY <1>6, StartMediaEffect, GetFrameFailsEffect, CloseMediaEffect, SendMediaEffect
  <2> QED
    BY <1>0, <2>1, CauseKept
<1> QED
  BY <1>1, <1>2, <1>3, <1>4, <1>5, <1>6 DEF Next

-----------------------------------------------------------------------------
(* The invariant.                                                            *)

LEMMA InitIInv ==
  ASSUME Init
  PROVE  IInv
<1>0. <<>> \in Seq(Unit) /\ <<>> \in Seq(MediaThread) /\ <<>> \in Seq(OutUnit) /\ <<>> \in Seq(Connection)
      /\ Len(<<>>) = 0 /\ 1..0 = {}
  OBVIOUS
<1>1. PICK n \in Leaked : table = [f \in Fd |-> IF f <= n THEN Earlier ELSE Closed]
  BY DEF Init
<1>2. /\ session = [c \in Connection |->
           [pc |-> "none", client_fd |-> Unset, local_rtp_sock |-> Unset, errno |-> "other",
            buffer |-> <<>>, transport |-> {0, 1, 2}, msg |-> <<>>]]
      /\ client = [c \in Connection |-> [state |-> "new", sent |-> 0, read |-> 0]]
      /\ media = [c \in Connection |-> <<>>] /\ out = [c \in Connection |-> <<>>]
      /\ answered = [c \in Connection |-> 0] /\ backlog = <<>> /\ event = FALSE
      /\ script \in Script /\ loop = "running" /\ reused = FALSE /\ exited = FALSE
  BY DEF Init
<1>3. table \in [Fd -> Entry] /\ \A f \in Fd : table[f] \in {Earlier, Closed}
  BY <1>1 DEF Entry
<1>4. session \in [Connection -> Session] /\ \A c \in Connection : session[c].pc = "none" /\ session[c].buffer = <<>>
  BY <1>0, <1>2 DEF Session, AnyFd
<1>5. ClientType
  <2>1. client \in [Connection -> [state : {"new", "open", "closed"}, sent : Nat, read : Nat]]
    BY <1>2
  <2>2. ASSUME NEW c \in Connection
        PROVE  client[c].read <= client[c].sent /\ client[c].sent <= 2 * Len(script[c]) /\ client[c].sent % 2 = 0
    <3>1. client[c].read = 0 /\ client[c].sent = 0
      BY <1>2
    <3>2. script[c] \in Seq({"OPTIONS", "SETUP_UDP", "SETUP_TCP", "PLAY", "OTHER", "unknown"})
      BY <1>2, ScriptAssumption
    <3>3. PICK s \in Nat : s = Len(script[c])
      BY <3>2
    <3>4. 0 <= 2 * s /\ 0 % 2 = 0
      OBVIOUS
    <3> QED
      BY <3>1, <3>3, <3>4
  <2> QED
    BY <2>1, <2>2 DEF ClientType
<1>6. ReadyType
  BY <1>4 DEF ReadyType
<1>7. TypeOK
  BY <1>0, <1>2, <1>3, <1>4, <1>5, <1>6, TypeParts
<1>8. QueueOK
  BY <1>0, <1>2, <1>4 DEF QueueOK
<1>9. ASSUME NEW c \in Connection PROVE Owned(c, session[c], media[c], table)
  <2>1. \A x : Opened(x, c) \notin {Earlier, Closed}
    BY DEF Opened, Earlier, Closed
  <2>2. \A f \in Fd : \A x : table[f] # Opened(x, c)
    BY <1>3, <2>1
  <2>3. session[c].pc = "none" /\ session[c].local_rtp_sock = Unset /\ media[c] = <<>>
    BY <1>2
  <2>4. Numbered(session[c], media[c])
    BY <1>0, <2>3 DEF Numbered
  <2>5. Behind(c, session[c], media[c], table)
    <3>1. ~ConnectionOpen(session[c], media[c]) /\ ~Uses(session[c], media[c], 0) /\ ~Uses(session[c], media[c], 1)
      BY <2>3, NoThreads
    <3> QED
      BY <1>0, <2>3, <3>1 DEF Behind
  <2>6. Only(c, session[c], media[c], table)
    BY <2>2 DEF Only
  <2> QED
    BY <2>3, <2>4, <2>5, <2>6 DEF Owned
<1>10. ASSUME NEW c \in Connection PROVE ParseOK(c)
  BY <1>2, <1>4 DEF ParseOK, Taken
<1>11. ASSUME NEW c \in Connection PROVE OutOK(c)
  <2>1. out[c] = <<>> /\ Answers(c) = {} /\ answered[c] = 0
    BY <1>0, <1>2 DEF Answers
  <2>2. {out[c][m][3] : m \in Answers(c)} = 1..0 /\ 0 \in 0..answered[c]
    BY <1>0, <2>1
  <2> QED
    BY <1>0, <2>1, <2>2 DEF OutOK
<1>12. ASSUME NEW c \in Connection PROVE WholeOK(c)
  <2>1. out[c] = <<>> /\ media[c] = <<>> /\ 1..Len(out[c]) = {} /\ 1..Len(media[c]) = {}
    BY <1>0, <1>2
  <2> QED
    BY <2>1 DEF WholeOK, Interleaved, Pending
<1>13. ASSUME NEW c \in Connection PROVE CauseOK(c)
  BY <1>4 DEF CauseOK
<1> QED
  BY <1>7, <1>8, <1>9, <1>10, <1>11, <1>12, <1>13 DEF IInv, SoundInv

LEMMA NextIInv ==
  ASSUME IInv, [Next]_vars
  PROVE  IInv'
<1>1. CASE UNCHANGED vars
  <2>0. UNCHANGED <<script, client, loop, backlog, event, table, session, media, out, answered, reused, exited>>
    BY <1>1 DEF vars
  <2>1. TypeOK'
    BY <2>0 DEF IInv, TypeOK
  <2>2. QueueOK'
    BY <2>0 DEF IInv, QueueOK
  <2>3. Sound' => Sound
    BY <2>0 DEF Sound
  <2>4. ASSUME NEW c \in Connection, SoundInv
        PROVE  /\ Owned(c, session'[c], media'[c], table') /\ ParseOK(c)' /\ OutOK(c)' /\ WholeOK(c)' /\ CauseOK(c)'
    <3>1. Owned(c, session[c], media[c], table) /\ ParseOK(c) /\ OutOK(c) /\ WholeOK(c) /\ CauseOK(c)
      BY <2>4 DEF SoundInv
    <3>2. Owned(c, session'[c], media'[c], table')
      BY <2>0, <3>1
    <3>3. ParseOK(c)'
      BY <2>0, <3>1, ParseKept
    <3>4. OutOK(c)'
      BY <2>0, <3>1, OutKept DEF IInv
    <3>5. WholeOK(c)'
      BY <2>0, <3>1, WholeSame DEF IInv
    <3>6. CauseOK(c)'
      BY <2>0, <3>1 DEF CauseOK, RefusedNext
    <3> QED
      BY <3>2, <3>3, <3>4, <3>5, <3>6
  <2> QED
    BY <2>1, <2>2, <2>3, <2>4 DEF IInv, SoundInv
<1>2. CASE Next
  <2>1. TypeOK /\ QueueOK /\ TypeOK' /\ QueueOK'
    BY <1>2, TypeStep, QueueStep DEF IInv
  <2> SUFFICES ASSUME Sound' PROVE SoundInv'
    BY <2>1 DEF IInv
  <2>2. Sound
    BY <1>2, <2>1, ReusedStep
  <2>3. AllOwned /\ AllParsed /\ AllOut /\ AllWhole /\ AllCaused
    BY <2>2 DEF IInv, SoundInv, AllOwned, AllParsed, AllOut, AllWhole, AllCaused
  <2>4. AllOwned'
    BY <1>2, <2>1, <2>3, OwnedStep
  <2>5. AllParsed'
    BY <1>2, <2>1, <2>3, ParseStep
  <2>6. AllOut'
    BY <1>2, <2>1, <2>3, OutStep
  <2>7. AllWhole'
    BY <1>2, <2>1, <2>3, WholeStep
  <2>8. AllCaused'
    BY <1>2, <2>1, <2>3, CauseStep
  <2> QED
    BY <2>4, <2>5, <2>6, <2>7, <2>8 DEF SoundInv, AllOwned, AllParsed, AllOut, AllWhole, AllCaused
<1> QED
  BY <1>1, <1>2

(* The state of the server is well-formed, and until a number is given out that a thread is  *)
(* still to use, every session owns what it uses, whatever the clients ask and however       *)
(* numbers are reused.                                                              *)
THEOREM Invariance == Spec => []IInv
  BY InitIInv, NextIInv, PTL DEF Spec

(* The variables keep their types. *)
THEOREM TypeCorrect == Spec => []TypeOK
<1>1. IInv => TypeOK
  BY DEF IInv
<1> QED
  BY <1>1, Invariance, PTL

LEMMA SessionsApartHolds ==
  ASSUME IInv
  PROVE  SessionsApart
<1> SUFFICES ASSUME Sound, NEW c \in Connection
             PROVE  /\ session[c].pc \in {"read", "write", "closing"} =>
                         table[session[c].client_fd] \in {Opened("connection", c), Closed}
                    /\ \A t \in Threads(c) : Active(t) =>
                         /\ table[t.file] = Opened("file", c)
                         /\ t.proto = 1 => table[t.client_fd] \in {Opened("connection", c), Closed}
                         /\ t.proto = 0 => table[t.sock] \in {Opened("rtp", c), Closed}
                    /\ \A u \in ToSet(out[c]) : u[2] = c
  BY DEF SessionsApart
<1>1. TypeOK /\ QueueOK /\ AllOwned /\ OutOK(c)
  BY DEF IInv, SoundInv, AllOwned
<1>2. session[c].pc \in {"read", "write", "closing"} =>
        table[session[c].client_fd] \in {Opened("connection", c), Closed}
  BY <1>1, OwnConnection
<1>3. ASSUME NEW k \in 1..Len(media[c]), Active(media[c][k])
      PROVE  /\ table[media[c][k].file] = Opened("file", c)
             /\ media[c][k].proto = 1 => table[media[c][k].client_fd] \in {Opened("connection", c), Closed}
             /\ media[c][k].proto = 0 => table[media[c][k].sock] \in {Opened("rtp", c), Closed}
  <2>1. table[media[c][k].file] = Opened("file", c)
    BY <1>1, <1>3 DEF AllOwned, Owned, Behind
  <2>2. /\ media[c][k].proto = 1 => table[Sink(media[c][k])] \in {Opened("connection", c), Closed}
        /\ media[c][k].proto = 0 => table[Sink(media[c][k])] \in {Opened("rtp", c), Closed}
    BY <1>1, <1>3, SinkLemma
  <2> QED
    BY <2>1, <2>2 DEF Sink
<1>4. \A u \in ToSet(out[c]) : u[2] = c
  <2>1. out[c] \in Seq(OutUnit) /\ DOMAIN out[c] = 1..Len(out[c])
    BY <1>1 DEF TypeOK, OutUnit
  <2> QED
    BY <1>1, <2>1 DEF OutOK, ToSet
<1> QED
  BY <1>2, <1>3, <1>4 DEF Threads

(* Until a number is given out that a thread is still to use, no thread of a session reads,  *)
(* writes or closes the connection, socket or file of another, and no client is sent         *)
(* another's answers or media.                                                      *)
THEOREM DescriptorsOwned == Spec => []SessionsApart
  BY SessionsApartHolds, Invariance, PTL

LEMMA DescriptorsReturnedHolds ==
  ASSUME IInv
  PROVE  DescriptorsReturned
<1> SUFFICES ASSUME Sound, NEW c \in Connection
             PROVE  /\ {f \in Fd : table[f] = Opened("connection", c)}
                         = IF session[c].pc \in {"none", "ended"} \/ MediaEnded(c, 1) THEN {} ELSE {session[c].client_fd}
                    /\ {f \in Fd : table[f] = Opened("rtp", c)}
                         = IF MediaEnded(c, 0) THEN {} ELSE {session[c].local_rtp_sock} \ {Unset}
                    /\ {f \in Fd : table[f] = Opened("rtcp", c)} = {}
                         <=> session[c].pc \in {"none", "starting", "failed"}
                    /\ {f \in Fd : table[f] = Opened("file", c)} = {t.file : t \in {t \in Threads(c) : Active(t)}}
  BY DEF DescriptorsReturned
<1>1. Owned(c, session[c], media[c], table)
  BY DEF IInv, SoundInv
<1>2. PICK tab : tab = table
  OBVIOUS
<1>3. PICK ts : ts = media[c]
  OBVIOUS
<1>4. PICK s : s = session[c]
  OBVIOUS
<1>5. Numbered(s, ts) /\ Behind(c, s, ts, tab) /\ Only(c, s, ts, tab)
      /\ (s.pc \notin {"none", "starting", "failed"} => \E f \in Fd : tab[f] = Opened("rtcp", c))
  BY <1>1, <1>2, <1>3, <1>4 DEF Owned
<1>6. \A p : MediaEnded(c, p) <=> Ended(ts, p)
  BY <1>3 DEF MediaEnded, Ended, Threads
<1>7. {f \in Fd : tab[f] = Opened("connection", c)}
        = IF s.pc \in {"none", "ended"} \/ Ended(ts, 1) THEN {} ELSE {s.client_fd}
  <2>1. CASE ConnectionOpen(s, ts)
    <3>1. s.client_fd \in Fd /\ tab[s.client_fd] = Opened("connection", c) /\ s.pc \notin {"none", "ended"} /\ ~Ended(ts, 1)
      BY <1>5, <2>1 DEF ConnectionOpen, Numbered, Behind
    <3>2. \A f \in Fd : tab[f] = Opened("connection", c) => f = s.client_fd
      BY <1>5 DEF Only
    <3> QED
      BY <3>1, <3>2
  <2>2. CASE ~ConnectionOpen(s, ts)
    <3>1. \A f \in Fd : tab[f] # Opened("connection", c)
      BY <1>5, <2>2 DEF Only
    <3> QED
      BY <2>2, <3>1 DEF ConnectionOpen
  <2> QED
    BY <2>1, <2>2
<1>8. {f \in Fd : tab[f] = Opened("rtp", c)} = IF Ended(ts, 0) THEN {} ELSE {s.local_rtp_sock} \ {Unset}
  <2>0. Unset \notin Fd /\ (s.local_rtp_sock = Unset \/ s.local_rtp_sock \in Fd)
    BY <1>5, FdAssumption DEF Unset, Numbered
  <2>1. \A f \in Fd : tab[f] = Opened("rtp", c) => ~Ended(ts, 0) /\ f = s.local_rtp_sock
    BY <1>5 DEF Only
  <2>2. s.local_rtp_sock # Unset /\ ~Ended(ts, 0) => tab[s.local_rtp_sock] = Opened("rtp", c)
    BY <1>5 DEF Behind
  <2> QED
    BY <2>0, <2>1, <2>2
<1>9. {f \in Fd : tab[f] = Opened("rtcp", c)} = {} <=> s.pc \in {"none", "starting", "failed"}
  <2>1. \A f \in Fd : tab[f] = Opened("rtcp", c) => s.pc \notin {"none", "starting", "failed"}
    BY <1>5 DEF Only
  <2> QED
    BY <1>5, <2>1
<1>10. {f \in Fd : tab[f] = Opened("file", c)} = {t.file : t \in {t \in Threads(c) : Active(t)}}
  <2>1. \A k \in 1..Len(ts) : Active(ts[k]) => ts[k].file \in Fd /\ tab[ts[k].file] = Opened("file", c)
    BY <1>5 DEF Numbered, Behind
  <2>2. \A f \in Fd : tab[f] = Opened("file", c) => \E k \in 1..Len(ts) : Active(ts[k]) /\ ts[k].file = f
    BY <1>5 DEF Only
  <2>3. \A t : t \in Threads(c) <=> \E k \in 1..Len(ts) : t = ts[k]
    BY <1>3 DEF Threads
  <2> QED
    BY <2>1, <2>2, <2>3
<1> QED
  BY <1>2, <1>4, <1>6, <1>7, <1>8, <1>9, <1>10

(* Every open descriptor is accounted for, after TCP media and UDP media, and also when no   *)
(* sockets could be had.                                                            *)
THEOREM NothingLeftOpen == Spec => []DescriptorsReturned
  BY DescriptorsReturnedHolds, Invariance, PTL

LEMMA AnswersInOrderHolds ==
  ASSUME IInv
  PROVE  AnswersInOrder
<1> SUFFICES ASSUME Sound, NEW c \in Connection
             PROVE  /\ \A m, n \in Answers(c) : m < n => out[c][m][3] < out[c][n][3]
                    /\ \E h \in 0..client[c].read :
                         2 * h <= client[c].read /\ {out[c][n][3] : n \in Answers(c)} = 1..h
  BY DEF AnswersInOrder
<1>1. TypeOK /\ OutOK(c) /\ ParseOK(c)
  BY DEF IInv, SoundInv
<1>2. PICK T \in Nat : T = answered[c]
  BY <1>1 DEF TypeOK
<1>3. PICK r \in Nat : r = client[c].read
  BY <1>1 DEF TypeOK
<1>4. 2 * T <= r
  <2>1. Taken(c) = T \/ Taken(c) = T + 1
    BY <1>2 DEF Taken
  <2>2. 2 * Taken(c) <= r
    BY <1>1, <1>3 DEF ParseOK
  <2> QED
    BY <2>1, <2>2
<1>5. PICK h \in 0..T : {out[c][n][3] : n \in Answers(c)} = 1..h
  BY <1>1, <1>2 DEF OutOK
<1>6. h \in 0..r /\ 2 * h <= r
  BY <1>4
<1>7. \A m, n \in Answers(c) : m < n => out[c][m][3] < out[c][n][3]
  BY <1>1 DEF OutOK
<1> QED
  BY <1>3, <1>5, <1>6, <1>7

(* However read() cuts the stream of requests, a client finds the answers to its requests   *)
(* in the order it asked, one for each and none missing between two.                      *)
THEOREM RequestsAnsweredInOrder == Spec => []AnswersInOrder
  BY AnswersInOrderHolds, Invariance, PTL

LEMMA PacketsWholeHolds ==
  ASSUME IInv
  PROVE  PacketsWhole
  BY DEF IInv, SoundInv, WholeOK, Interleaved, Between, PacketsWhole

(* Between an interleaved header and its payload a client finds only units of other media    *)
(* threads and answers to requests after the PLAY, whatever it asks and however many media   *)
(* threads write.                                                                   *)
THEOREM InterleavingWhole == Spec => []PacketsWhole
  BY PacketsWholeHolds, Invariance, PTL

LEMMA SessionEndsForCauseHolds ==
  ASSUME IInv
  PROVE  SessionEndsForCause
<1>1. \A c \in Connection : MediaEnded(c, 1) <=> Ended(media[c], 1)
  BY DEF MediaEnded, Ended, Threads
<1> QED
  BY <1>1 DEF IInv, SoundInv, CauseOK, SessionEndsForCause

(* handle_request() ends a session only for a client that has gone, a request that is refused *)
(* or a connection that a media thread has closed.                                     *)
THEOREM SessionsEndForCause == Spec => []SessionEndsForCause
  BY SessionEndsForCauseHolds, Invariance, PTL

=============================================================================
