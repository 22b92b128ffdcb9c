----------------------------- MODULE RtspServer -----------------------------
(***************************************************************************)
(* The RTSP media server (app/mediaserver) on the TCP server                *)
(* (transport/tcp/tcpserver.cc).  An event loop accepts connections; each    *)
(* gets a session and a detached thread, handle_request(), that reads         *)
(* requests and answers them; each PLAY starts a detached media thread, which  *)
(* sends packets over UDP or, interleaved with the answers, over the          *)
(* connection.  Threads share descriptors by number: a number that one thread  *)
(* closes is given to the next connection, socket or file.                   *)
(*                                                                          *)
(* A request is two units, what its method is read from and its empty line;   *)
(* read() may cut a stream of requests anywhere.  A packet is the interleaved  *)
(* header and the payload, two writes.  write() may take only a part: what it   *)
(* was given is then cut, and nobody writes the rest.  While a client reads     *)
(* nothing it takes none at all, and the thread repeats it.  How a frame        *)
(* becomes packets is module Rtp.                                           *)
(*                                                                          *)
(* answered and reused are history: no step reads them.                     *)
(***************************************************************************)
EXTENDS Naturals, Sequences, SequencesExt

CONSTANTS Connection,
          Fd,           \* the descriptors a process may have: numbers
          Script,       \* what the clients may ask: functions from Connection
                        \* to sequences of methods
          Leaked,       \* how many sockets earlier sessions may have left open
          MissingFile,  \* the connections that name a file that is not there
          MaxPackets,   \* bound: packets of a media thread
          MaxShort      \* bound: short writes to a connection

ASSUME FdAssumption == Fd \subseteq Nat \ {0}
ASSUME ScriptAssumption ==
  Script \subseteq [Connection -> Seq({"OPTIONS", "SETUP_UDP", "SETUP_TCP", "PLAY", "OTHER", "unknown"})]
ASSUME BoundAssumption == MaxPackets \in Nat /\ MaxShort \in Nat

VARIABLES
  script,    \* what each client is going to ask
  client,    \* each client: how many units it has sent, and how many of them
             \* were read; whether it is "new", "open" or "closed"
  loop,      \* tcp_server_eventloop(): "running", "ended"
  backlog,   \* connections to accept
  event,     \* epoll has an event of the listening socket, edge-triggered
  table,     \* what each descriptor stands for
  session,   \* handle_request() and its rtsp_session_desc_t
  media,     \* the media threads of each session, in the order of their start
  out,       \* what was written to each connection
  answered,  \* how many requests each session has answered
  reused,    \* a number was given out that a thread was still to use
  exited     \* a signal ended the process

vars == <<script, client, loop, backlog, event, table, session, media, out, answered, reused, exited>>

Closed == <<"closed">>
Earlier == <<"earlier">>         \* a socket that an earlier session left open
Opened(kind, c) == <<kind, c>>
Unset == 0                       \* an uninitialised descriptor

Init ==
  /\ script \in Script
  /\ client = [c \in Connection |-> [state |-> "new", sent |-> 0, read |-> 0]]
  /\ loop = "running"
  /\ backlog = <<>>
  /\ event = FALSE
  /\ \E n \in Leaked : table = [f \in Fd |-> IF f <= n THEN Earlier ELSE Closed]
  /\ session = [c \in Connection |->
                 [pc |-> "none", client_fd |-> Unset, local_rtp_sock |-> Unset,
                  errno |-> "other", buffer |-> <<>>, transport |-> {0, 1, 2}, msg |-> <<>>]]
  /\ media = [c \in Connection |-> <<>>]
  /\ out = [c \in Connection |-> <<>>]
  /\ answered = [c \in Connection |-> 0]
  /\ reused = FALSE
  /\ exited = FALSE

-----------------------------------------------------------------------------
(* Clients.                                                                  *)

(* A connection wakes the event loop; two that come together wake it once. *)
Connect(c) ==
  /\ client[c].state = "new" /\ script[c] # <<>>
  /\ client' = [client EXCEPT ![c].state = "open"]
  /\ backlog' = Append(backlog, c)
  /\ event' = TRUE
  /\ UNCHANGED <<script, loop, table, session, media, out, answered, reused, exited>>

Send(c) ==
  /\ client[c].state = "open" /\ client[c].sent < 2 * Len(script[c])
  /\ client' = [client EXCEPT ![c].sent = @ + 2]
  /\ UNCHANGED <<script, loop, backlog, event, table, session, media, out, answered, reused, exited>>

Disconnect(c) ==
  /\ client[c].state = "open"
  /\ client' = [client EXCEPT ![c].state = "closed"]
  /\ UNCHANGED <<script, loop, backlog, event, table, session, media, out, answered, reused, exited>>

-----------------------------------------------------------------------------
(* Descriptors: the lowest free number is given out, and close() frees a      *)
(* number whatever it stands for by now.                                     *)

Free == {f \in Fd : table[f] = Closed}
Closing(fs) == [f \in Fd |-> IF f \in fs THEN Closed ELSE table[f]]

Threads(c) == {media[c][k] : k \in 1..Len(media[c])}
Active(t) == t.pc \in {"header", "payload", "packet", "closing"}

(* Where a media thread writes. *)
Sink(t) == IF t.proto = 1 THEN t.client_fd ELSE t.sock

(* Mutant: the file stays open. *)
Holds_no_file(t) == {Sink(t)}

(* What a thread closes when it ends: the file, and the connection or the socket. *)
Holds(t) == {t.file, Sink(t)}

(* The numbers that the threads of c are still to use, closed or not: the session's,  *)
(* which its own thread uses and a media thread that starts takes over, and its      *)
(* media threads'.                                                              *)
InUse(c) == session[c].pc \notin {"none", "ended"} \/ \E t \in Threads(c) : t.pc = "starting"
Held(c) == (IF InUse(c) THEN {session[c].client_fd, session[c].local_rtp_sock} ELSE {})
             \union UNION {Holds(t) : t \in {t \in Threads(c) : Active(t)}}

(* One of them is given out. *)
Reuse == reused' = (reused \/ \E c \in Connection : \E f \in Held(c) \intersect Free : table'[f] # Closed)

(* The units of which the client was sent a part. *)
ShortWrites(c) == {n \in 1..Len(out[c]) : out[c][n][4] = "short"}

(* What write() may answer: a closed client answers with a reset, and the       *)
(* write after it raises SIGPIPE, for which main() has installed a handler      *)
(* that exits.  A write to some other descriptor goes astray or fails.          *)
Result(f) ==
  CASE f \notin Fd \/ table[f] = Closed -> {"fail"}
    [] f \in Fd /\ table[f][1] = "connection" ->
         IF client[table[f][2]].state # "open" THEN {"lost", "fail", "pipe"}
         ELSE IF Cardinality(ShortWrites(table[f][2])) < MaxShort THEN {"ok", "short"} ELSE {"ok"}
    [] OTHER -> {"lost", "fail"}

(* The effect of a write of u with result r. *)
Write(f, u, r) ==
  /\ r \in Result(f)
  /\ out' = IF r \in {"ok", "short"}
            THEN [out EXCEPT ![table[f][2]] = Append(@, <<u[1], u[2], u[3], r>>)] ELSE out
  /\ exited' = (r = "pipe")

-----------------------------------------------------------------------------
(* myon_connect_callback(): a session and its thread. *)
myon_connect_callback(c, f) ==
  session' = [session EXCEPT ![c].pc = "starting", ![c].client_fd = f]

(* tcp_server_eventloop(): one accept() for an event.  With no descriptor left   *)
(* it fails, and the loop ends.                                                *)
Accept ==
  /\ loop = "running" /\ event
  /\ event' = FALSE
  /\ IF Free = {}
     THEN loop' = "ended" /\ UNCHANGED <<backlog, table, session>>
     ELSE /\ backlog' = Tail(backlog)
          /\ table' = [table EXCEPT ![Min(Free)] = Opened("connection", Head(backlog))]
          /\ myon_connect_callback(Head(backlog), Min(Free))
          /\ UNCHANGED loop
  /\ Reuse
  /\ UNCHANGED <<script, client, media, out, answered, exited>>

(* Two sockets; without a second one the first stays open. *)
get_local_rtp_rtcp_port(c) ==
  IF Free = {} THEN [ok |-> FALSE, rtp |-> Unset, table |-> table]
  ELSE LET rtp == Min(Free)
           one == [table EXCEPT ![rtp] = Opened("rtp", c)]
           rest == Free \ {rtp}
       IN  IF rest = {} THEN [ok |-> FALSE, rtp |-> rtp, table |-> one]
           ELSE [ok |-> TRUE, rtp |-> rtp, table |-> [one EXCEPT ![Min(rest)] = Opened("rtcp", c)]]

(* Mutant: what get_local_rtp_rtcp_port() returns is not looked at. *)
AfterPorts_unchecked(ok) == "read"

(* Without sockets the thread returns, and the connection stays open. *)
AfterPorts(ok) == IF ok THEN "read" ELSE "failed"

(* handle_request() up to its loop. *)
Start(c) ==
  /\ session[c].pc = "starting"
  /\ LET ports == get_local_rtp_rtcp_port(c)
     IN  /\ table' = ports.table
         /\ session' = [session EXCEPT ![c].pc = AfterPorts(ports.ok), ![c].local_rtp_sock = ports.rtp]
  /\ Reuse
  /\ UNCHANGED <<script, client, loop, backlog, event, media, out, answered, exited>>

-----------------------------------------------------------------------------
(* handle_request(): read, parse, answer.                                     *)

Junk == <<"junk">>
IsEnd(u) == u # Junk /\ u[2] % 2 = 0
RequestOf(u) == (u[2] + 1) \div 2

(* The method of a message; the beginning of a message may belong to something   *)
(* else when the descriptor did.                                              *)
Method(msg) == IF msg[1] = Junk \/ Len(msg) < 2 THEN "unknown"
               ELSE script[msg[1][1]][RequestOf(msg[1])]

(* break: out of the loop, with close() and delete to come. *)
End(c) ==
  /\ session' = [session EXCEPT ![c].pc = "closing"]
  /\ UNCHANGED table

(* close(session->client_fd); delete session *)
Close(c) ==
  /\ session[c].pc = "closing"
  /\ table' = Closing({session[c].client_fd})
  /\ session' = [session EXCEPT ![c].pc = "ended"]
  /\ UNCHANGED <<script, client, loop, backlog, event, media, out, answered, reused, exited>>

(* rtsp_demux_parse(): an unknown method, or OPTIONS for a file that is not     *)
(* there, ends the session without an answer.                                 *)
Refused(c, msg) ==
  \/ Method(msg) = "unknown"
  \/ Method(msg) = "OPTIONS" /\ c \in MissingFile

Transport(c, msg) ==
  CASE Method(msg) = "SETUP_TCP" -> {1}
    [] Method(msg) = "SETUP_UDP" -> {0}
    [] OTHER -> session[c].transport

(* A file is read: any number of bytes that are no request. *)
WithJunk(buffer) == IF buffer # <<>> /\ Last(buffer) = Junk THEN buffer ELSE Append(buffer, Junk)

(* Mutants: a message stays in the buffer; a pass that read nothing parses        *)
(* nothing.                                                                    *)
Rest_kept(buffer, n) == SubSeq(buffer, 1, 2) \o SubSeq(buffer, n + 1, Len(buffer))
Complete_read(c, buffer) == IF buffer = session[c].buffer THEN {} ELSE {n \in 1..Len(buffer) : IsEnd(buffer[n])}

(* url_getmsg(): the positions of empty lines, and what it leaves behind. *)
Complete(c, buffer) == {n \in 1..Len(buffer) : IsEnd(buffer[n])}
Rest(buffer, n) == SubSeq(buffer, n + 1, Len(buffer))

Parse(c, buffer, errno) ==
  IF Complete(c, buffer) = {}
  THEN /\ session' = [session EXCEPT ![c].buffer = buffer, ![c].errno = errno]
       /\ UNCHANGED table
  ELSE LET n == Min(Complete(c, buffer))
           msg == SubSeq(buffer, 1, n)
       IN  IF Refused(c, msg) THEN End(c)
           ELSE /\ session' = [session EXCEPT ![c].buffer = Rest(buffer, n), ![c].errno = errno,
                                              ![c].transport = Transport(c, msg),
                                              ![c].msg = msg, ![c].pc = "write"]
                /\ UNCHANGED table

(* Mutant: the peer's end is never seen. *)
PeerEnded_never(c) == FALSE

(* tcp_server_read(): read() answers 0 for a connection the peer has closed, and *)
(* leaves errno as the thread's last failed call has set it.                    *)
PeerEnded(c) == session[c].errno = "EAGAIN"

(* The descriptor stands for the connection d. *)
ReadConnection(c, d) ==
  LET ready == client[d].sent - client[d].read
  IN  \/ \E n \in 1..ready :
           /\ client' = [client EXCEPT ![d].read = @ + n]
           /\ Parse(c, session[c].buffer \o [j \in 1..n |-> <<d, client[d].read + j>>], session[c].errno)
      \/ /\ ready = 0 /\ client[d].state = "open"
         /\ Parse(c, session[c].buffer, "EAGAIN")
         /\ UNCHANGED client
      \/ /\ ready = 0 /\ client[d].state = "closed"
         /\ IF PeerEnded(c) THEN End(c) ELSE Parse(c, session[c].buffer, session[c].errno)
         /\ UNCHANGED client

Read(c) ==
  /\ session[c].pc = "read"
  /\ LET o == table[session[c].client_fd]
     IN  CASE o = Closed -> End(c) /\ UNCHANGED client
           [] o[1] = "connection" -> ReadConnection(c, o[2])
           [] o[1] \in {"rtp", "rtcp", "earlier"} -> /\ session' = [session EXCEPT ![c].pc = "blocked"]
                                                     /\ UNCHANGED <<client, table>>
           [] o[1] = "file" -> /\ Parse(c, WithJunk(session[c].buffer), session[c].errno)
                               /\ UNCHANGED client
  /\ UNCHANGED <<script, loop, backlog, event, media, out, answered, reused, exited>>

(* read() fails with ECONNRESET: the client has closed with answers unread. *)
ReadReset(c) ==
  /\ session[c].pc = "read"
  /\ LET o == table[session[c].client_fd]
     IN  o[1] = "connection" /\ client[o[2]].state = "closed"
  /\ End(c)
  /\ UNCHANGED <<script, client, loop, backlog, event, media, out, answered, reused, exited>>

(* The response is written; PLAY, the n-th request, then starts a media thread.   *)
(* Without a SETUP the transport is not initialised.                            *)
NewThread(p, n) == [pc |-> "starting", proto |-> p, client_fd |-> Unset, sock |-> Unset,
                    file |-> Unset, packets |-> 0, play |-> n]

(* Mutant: the loop ends with PLAY. *)
AfterAnswer_ends(c) == IF Method(session[c].msg) = "PLAY" THEN "closing" ELSE "read"

Started(ts, p, n) == IF p = 2 THEN ts ELSE Append(ts, NewThread(p, n))
AfterAnswer(c) == "read"

(* Mutant: PLAY starts its media thread before it is answered. *)
Answer_late(c) ==
  LET n == RequestOf(session[c].msg[1])
      begins == Method(session[c].msg) = "PLAY" /\ \A t \in Threads(c) : t.play # n
  IN  /\ session[c].pc = "write"
      /\ IF begins
         THEN /\ media' = [media EXCEPT ![c] = Started(@, 1, n)]
              /\ UNCHANGED <<session, out, answered, exited>>
         ELSE /\ Write(session[c].client_fd, <<"answer", c, n>>, "ok")
              /\ session' = [session EXCEPT ![c].pc = "read", ![c].msg = <<>>]
              /\ answered' = [answered EXCEPT ![c] = @ + 1]
              /\ UNCHANGED media
      /\ UNCHANGED <<script, client, loop, backlog, event, table, reused>>

(* A write that was repeated leaves EAGAIN in the thread's errno. *)
Answer(c) ==
  LET n == RequestOf(session[c].msg[1])
  IN  /\ session[c].pc = "write"
      /\ \E r \in {"ok", "short", "lost", "fail", "pipe"} :
           /\ Write(session[c].client_fd, <<"answer", c, n>>, r)
           /\ IF r \in {"fail", "pipe"} THEN End(c) /\ UNCHANGED <<media, answered>>
              ELSE /\ \E e \in {session[c].errno, "EAGAIN"} :
                        session' = [session EXCEPT ![c].pc = AfterAnswer(c), ![c].errno = e, ![c].msg = <<>>]
                   /\ answered' = [answered EXCEPT ![c] = @ + 1]
                   /\ IF Method(session[c].msg) = "PLAY"
                      THEN \E p \in session[c].transport :
                             media' = [media EXCEPT ![c] = Started(@, p, n)]
                      ELSE UNCHANGED media
                   /\ UNCHANGED table
      /\ UNCHANGED <<script, client, loop, backlog, event, reused>>

-----------------------------------------------------------------------------
(* tcpmediaproc(), udpmediaproc().                                            *)

(* Mutant: what fails closes the descriptors too. *)
Stop_closes(c, k) ==
  /\ media' = [media EXCEPT ![c][k].pc = "closing"]
  /\ table' = Closing(Holds(media[c][k]))

(* break: out of the loop, with the descriptors to close. *)
Stop(c, k) ==
  /\ media' = [media EXCEPT ![c][k].pc = "closing"]
  /\ UNCHANGED table

(* udp_client_new() connects the session's socket; connect() fails on anything   *)
(* that is not a UDP socket.                                                   *)
Connects(f) == table[f][1] \in {"rtp", "rtcp"}

(* demuxer_alloc() returns null: no such file, or no descriptor for it. *)
NoFile(c) == Free = {} \/ c \in MissingFile

(* The thread reads the session and opens the file.  The session may be deleted  *)
(* by now: what is read then may be anything.  Without the file framerhandle is   *)
(* null, and demuxer_getframe() reads through it.                             *)
StartMedia(c, k) ==
  LET t == media[c][k]
      s == session[c]
      crash == /\ exited' = TRUE
               /\ UNCHANGED <<table, media>>
  IN  /\ t.pc = "starting"
      /\ \/ s.pc = "ended" /\ crash
         \/ /\ t.proto = 0 /\ ~Connects(s.local_rtp_sock)
            /\ media' = [media EXCEPT ![c][k].pc = "ended"]
            /\ UNCHANGED <<table, exited>>
         \/ /\ t.proto = 0 => Connects(s.local_rtp_sock)
            /\ IF NoFile(c) THEN crash
               ELSE /\ table' = [table EXCEPT ![Min(Free)] = Opened("file", c)]
                    /\ media' = [media EXCEPT ![c][k] =
                         [@ EXCEPT !.pc = IF t.proto = 1 THEN "header" ELSE "packet",
                                   !.client_fd = s.client_fd, !.sock = s.local_rtp_sock,
                                   !.file = Min(Free)]]
                    /\ UNCHANGED exited
      /\ Reuse
      /\ UNCHANGED <<script, client, loop, backlog, event, session, out, answered>>

(* demuxer_getframe() fails: the file was cut, or its descriptor closed. *)
GetFrameFails(c, k) ==
  /\ media[c][k].pc \in {"header", "packet"}
  /\ Stop(c, k)
  /\ UNCHANGED <<script, client, loop, backlog, event, session, out, answered, reused, exited>>

(* What a media thread does next. *)
NextWrite(pc) == CASE pc = "header" -> "payload"
                   [] pc = "payload" -> "header"
                   [] OTHER -> "packet"
Written(t) == [t EXCEPT !.pc = NextWrite(@), !.packets = IF t.pc = "payload" THEN @ ELSE @ + 1]

(* One write of a media thread. *)
SendMedia(c, k) ==
  LET t == media[c][k]
  IN  /\ t.pc \in {"header", "payload", "packet"}
      /\ t.pc # "payload" => t.packets < MaxPackets
      /\ \E r \in {"ok", "short", "lost", "fail", "pipe"} :
           /\ Write(Sink(t), <<t.pc, c, k>>, r)
           /\ IF r = "fail" THEN Stop(c, k)
              ELSE media' = [media EXCEPT ![c][k] = Written(t)] /\ UNCHANGED table
      /\ UNCHANGED <<script, client, loop, backlog, event, session, answered, reused>>

CloseMedia(c, k) ==
  /\ media[c][k].pc = "closing"
  /\ table' = Closing(Holds(media[c][k]))
  /\ media' = [media EXCEPT ![c][k].pc = "ended"]
  /\ UNCHANGED <<script, client, loop, backlog, event, session, out, answered, reused, exited>>

-----------------------------------------------------------------------------
Next ==
  /\ ~exited
  /\ \/ Accept
     \/ \E c \in Connection :
          \/ Connect(c) \/ Send(c) \/ Disconnect(c)
          \/ Start(c) \/ Read(c) \/ ReadReset(c) \/ Answer(c) \/ Close(c)
          \/ \E k \in 1..Len(media[c]) :
               StartMedia(c, k) \/ GetFrameFails(c, k) \/ SendMedia(c, k) \/ CloseMedia(c, k)

Spec == Init /\ [][Next]_vars

(* A request thread runs on: it polls, and its writes return.  No client needs to  *)
(* reset its connection.                                                         *)
FairSpec == Spec /\ \A c \in Connection : WF_vars(~exited /\ (Start(c) \/ Read(c) \/ Answer(c) \/ Close(c)))

-----------------------------------------------------------------------------
Unit == {Junk} \union (Connection \X Nat)
AnyFd == Fd \union {Unset}
Session == [pc : {"none", "starting", "failed", "read", "write", "blocked", "closing", "ended"},
            client_fd : AnyFd, local_rtp_sock : AnyFd, errno : {"other", "EAGAIN"},
            buffer : Seq(Unit), transport : SUBSET (0..2), msg : Seq(Unit)]
MediaThread == [pc : {"starting", "header", "payload", "packet", "closing", "ended"}, proto : {0, 1},
                client_fd : AnyFd, sock : AnyFd, file : AnyFd, packets : 0..MaxPackets, play : Nat]

TypeOK ==
  /\ script \in Script
  /\ client \in [Connection -> [state : {"new", "open", "closed"}, sent : Nat, read : Nat]]
  /\ \A c \in Connection : /\ client[c].read <= client[c].sent
                           /\ client[c].sent <= 2 * Len(script[c]) /\ client[c].sent % 2 = 0
  /\ loop \in {"running", "ended"}
  /\ backlog \in Seq(Connection) /\ event \in BOOLEAN
  /\ table \in [Fd -> {Closed, Earlier} \union ({"connection", "rtp", "rtcp", "file"} \X Connection)]
  /\ session \in [Connection -> Session]
  /\ \A c \in Connection :
       /\ session[c].pc \in {"read", "write", "closing"} =>
            session[c].client_fd \in Fd /\ session[c].local_rtp_sock \in Fd
       /\ session[c].pc = "write" => session[c].msg # <<>> /\ session[c].msg[1] # Junk
  /\ media \in [Connection -> Seq(MediaThread)]
  /\ out \in [Connection -> Seq({"answer", "header", "payload", "packet"} \X Connection \X Nat \X {"ok", "short"})]
  /\ answered \in [Connection -> Nat]
  /\ reused \in BOOLEAN
  /\ exited \in BOOLEAN

(* Two threads of a session close the same descriptor: the connection, which     *)
(* handle_request() and a TCP media thread share, or the socket of two UDP media    *)
(* threads.  A number that one has closed and the other still holds may be given   *)
(* out again.  Until that happens:                                              *)
Sound == ~reused

(* Sessions are apart: a thread that uses a descriptor finds its own connection,    *)
(* socket or file behind it, or that it is closed, never anything of another       *)
(* session, and a client is sent nothing of another session.                     *)
SessionsApart ==
  Sound => \A c \in Connection :
    /\ session[c].pc \in {"read", "write", "closing"} =>
         table[session[c].client_fd] \in {Opened("connection", c), Closed}
    /\ \A t \in Threads(c) : Active(t) =>
         /\ table[t.file] = Opened("file", c)
         /\ t.proto = 1 => table[t.client_fd] \in {Opened("connection", c), Closed}
         /\ t.proto = 0 => table[t.sock] \in {Opened("rtp", c), Closed}
    /\ \A u \in ToSet(out[c]) : u[2] = c

(* Some media thread over the transport p has ended. *)
MediaEnded(c, p) == \E t \in Threads(c) : t.proto = p /\ t.pc = "ended"

(* Every descriptor is accounted for.  The connection stays open until             *)
(* handle_request() or a TCP media thread closes it, for ever if no sockets could   *)
(* be had; the RTP socket until a UDP media thread closes it; the RTCP socket for   *)
(* ever; and a file as long as its media thread runs.                            *)
DescriptorsReturned ==
  Sound => \A c \in Connection :
    LET Open(kind) == {f \in Fd : table[f] = Opened(kind, c)}
    IN  /\ Open("connection") = IF session[c].pc \in {"none", "ended"} \/ MediaEnded(c, 1)
                                THEN {} ELSE {session[c].client_fd}
        /\ Open("rtp") = IF MediaEnded(c, 0) THEN {} ELSE {session[c].local_rtp_sock} \ {Unset}
        /\ Open("rtcp") = {} <=> session[c].pc \in {"none", "starting", "failed"}
        /\ Open("file") = {t.file : t \in {t \in Threads(c) : Active(t)}}

(* Where the answers are in what was written. *)
Answers(c) == {n \in 1..Len(out[c]) : out[c][n][1] = "answer"}

(* However read() cuts the stream of requests, the client finds one answer to each   *)
(* request, in the order it asked, and none to what it has not asked.             *)
AnswersInOrder ==
  Sound => \A c \in Connection :
    /\ \A m, n \in Answers(c) : m < n => out[c][m][3] < out[c][n][3]
    /\ \E h \in 0..client[c].read : 2 * h <= client[c].read /\ {out[c][n][3] : n \in Answers(c)} = 1..h

(* A unit that the k-th media thread wrote. *)
OfThread(u, k) == u[1] # "answer" /\ u[3] = k

(* A packet's header and payload may be torn apart, but only by units of other      *)
(* media threads of the session and by answers to requests after the PLAY that      *)
(* started the thread: that one is answered before, and the first unit of the       *)
(* thread after a header is its payload.  Each of them may be cut.                *)
PacketsWhole ==
  Sound => \A c \in Connection : \A n, m \in 1..Len(out[c]) :
    LET k == out[c][n][3]
    IN  n < m /\ out[c][n][1] = "header" =>
          /\ out[c][m][1] = "answer" => out[c][m][3] > media[c][k].play
          /\ OfThread(out[c][m], k) /\ (\A x \in (n + 1)..(m - 1) : ~OfThread(out[c][x], k))
               => out[c][m][1] = "payload"

(* The next request has arrived, and rtsp_demux_parse() refuses it. *)
RefusedNext(c) ==
  /\ 2 * (answered[c] + 1) <= client[c].read
  /\ LET method == script[c][answered[c] + 1]
     IN  method = "unknown" \/ (method = "OPTIONS" /\ c \in MissingFile)

(* handle_request() leaves its loop, to close the connection and delete the session,  *)
(* only when the client has gone, the next request is refused, or a TCP media thread  *)
(* of the session has closed the connection.  A media thread that is still to read     *)
(* the session finds it deleted in no other case.                                *)
SessionEndsForCause ==
  Sound => \A c \in Connection :
    session[c].pc \in {"closing", "ended"}
      => client[c].state = "closed" \/ RefusedNext(c) \/ MediaEnded(c, 1)

(* A request that has arrived is answered, also when several came in one read() and   *)
(* nothing follows them, unless the session or the process ends.                  *)
EveryRequestAnswered ==
  \A c \in Connection :
    []<>(2 * answered[c] >= client[c].sent \/ session[c].pc \notin {"read", "write"} \/ exited \/ ~Sound)

(* A client that has gone ends its session, once a read() before had found nothing:   *)
(* else errno is not EAGAIN, tcp_server_read() answers 0 for ever, and so it does.   *)
GoneClientNoticed ==
  \A c \in Connection :
    []<>~(/\ client[c].state = "closed" /\ session[c].errno = "EAGAIN"
          /\ session[c].pc \in {"read", "write", "closing"} /\ ~exited /\ Sound)
=============================================================================
