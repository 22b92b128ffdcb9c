----------------------------- MODULE Conference -----------------------------
(***************************************************************************)
(* The conference server of app/conference/confserver: the receive thread   *)
(* of transport/udp/udpselectserver hands each datagram to setpacket(),      *)
(* which queues it under its sender's port; the forwarding thread of         *)
(* confmanager::runloop() sends the front of every queue to all the other    *)
(* entries of the map.                                                       *)
(*                                                                          *)
(* Both functions hold confmutex from start to end, so each is one step.     *)
(* The thread is created inside the constructor, and thread_alloc() stores   *)
(* its handle only after the thread has started: until then the thread       *)
(* reads a handle that is still null (confman is a global object).           *)
(***************************************************************************)
EXTENDS Naturals, Sequences, FiniteSets

CONSTANTS Endpoint,    \* the participants, each with an address of its own
          Port,        \* UDP ports
          PortOf,      \* the port of each participant; hosts may use the same one
          MaxPackets,  \* bound: datagrams each participant sends
          MaxArrivals, \* bound: datagrams of each participant that reach the server
          MaxArriving  \* bound: the socket's receive buffer

(* Ports are 16-bit numbers. *)
ASSUME PortAssumption == Port \subseteq Nat /\ IsFiniteSet(Port)
ASSUME PortOfAssumption == PortOf \in [Endpoint -> Port]
ASSUME MaxPacketsAssumption == MaxPackets \in Nat

VARIABLES
  threadhandle,  \* "null" until thread_alloc stores it, then "set"
  forwarder,     \* the forwarding thread: "start", "run" or "crashed"
  receiver,      \* the receive thread: "run" or "ended"
  arriving,      \* datagrams in the socket's receive buffer
  sent,          \* how many datagrams each participant has sent
  arrived,       \* which of them have reached the receive buffer, in that order
  confmap,       \* by port: nothing, or the entry created for the port
  received,      \* what each participant was sent, in order
  backlog        \* the participants heard of while runloop found one entry only

vars == <<threadhandle, forwarder, receiver, arriving, sent, arrived, confmap, received, backlog>>

NoEntry == [remote |-> {}, rtppackets |-> <<>>]
Keys == {p \in Port : confmap[p].remote # {}}

Init ==
  /\ threadhandle = "null"
  /\ forwarder = "start"
  /\ receiver = "run"
  /\ arriving = <<>>
  /\ sent = [e \in Endpoint |-> 0]
  /\ arrived = [e \in Endpoint |-> <<>>]
  /\ confmap = [p \in Port |-> NoEntry]
  /\ received = [e \in Endpoint |-> <<>>]
  /\ backlog = {}

-----------------------------------------------------------------------------
(* thread_alloc(): the thread exists already; now its handle is stored. *)
HandleStored ==
  /\ threadhandle = "null"
  /\ threadhandle' = "set"
  /\ UNCHANGED <<forwarder, receiver, arriving, sent, arrived, confmap, received, backlog>>

(* thread_testcancel(threadhandle) for the first time: it reads isrunning       *)
(* through the handle.                                                         *)
FirstTest ==
  /\ forwarder = "start"
  /\ forwarder' = IF threadhandle = "set" THEN "run" ELSE "crashed"
  /\ UNCHANGED <<threadhandle, receiver, arriving, sent, arrived, confmap, received, backlog>>

(* A participant sends a datagram. *)
Send(e) ==
  /\ forwarder # "crashed" /\ threadhandle = "set"
  /\ sent[e] < MaxPackets
  /\ sent' = [sent EXCEPT ![e] = @ + 1]
  /\ UNCHANGED <<threadhandle, forwarder, receiver, arriving, arrived, confmap, received, backlog>>

(* UDP brings any datagram that was sent, in any order, again or not at all, as   *)
(* long as the receive buffer has room.  `at' numbers what arrives from e.       *)
Arrive(e, k) ==
  /\ k <= sent[e]
  /\ Len(arrived[e]) < MaxArrivals /\ Len(arriving) < MaxArriving
  /\ arrived' = [arrived EXCEPT ![e] = Append(@, k)]
  /\ arriving' = Append(arriving, [from |-> e, n |-> k, at |-> Len(arrived[e]) + 1])
  /\ UNCHANGED <<threadhandle, forwarder, receiver, sent, confmap, received, backlog>>

(* Mutant: the port is stored where the address belongs. *)
Queued_port(port, packet) ==
  [remote |-> IF port \in Keys THEN confmap[port].remote ELSE {port},
   rtppackets |-> Append(confmap[port].rtppackets, packet)]

(* The entry of a port with one packet more.  It keeps the address of the        *)
(* first participant that used the port.                                       *)
Queued(port, packet) ==
  [remote |-> IF port \in Keys THEN confmap[port].remote ELSE {packet.from},
   rtppackets |-> Append(confmap[port].rtppackets, packet)]

(* recvfrom(), on_udprecv_callback() and confmanager::setpacket(). *)
setpacket ==
  /\ forwarder # "crashed" /\ receiver = "run" /\ arriving # <<>>
  /\ LET packet == Head(arriving)
         port == PortOf[packet.from]
     IN  confmap' = [confmap EXCEPT ![port] = Queued(port, packet)]
  /\ arriving' = Tail(arriving)
  /\ UNCHANGED <<threadhandle, forwarder, receiver, sent, arrived, received, backlog>>

(* recvfrom() returns an error or an empty datagram, which ends the receive      *)
(* thread for good.                                                            *)
ReceiveEnds ==
  /\ threadhandle = "set" /\ receiver = "run"
  /\ receiver' = "ended"
  /\ UNCHANGED <<threadhandle, forwarder, arriving, sent, arrived, confmap, received, backlog>>

(* Some keys of the map, in the order in which an iterator finds them. *)
Ascending(S) ==
  CHOOSE f \in [1..Cardinality(S) -> S] : \A j, k \in 1..Cardinality(S) : j < k => f[j] < f[k]

(* Mutant: the sender's own entry is not left out. *)
Fronts_all(p) ==
  LET from == {q \in Keys : confmap[q].rtppackets # <<>>}
  IN  [j \in 1..Cardinality(from) |-> Head(confmap[Ascending(from)[j]].rtppackets)]

(* The packets one pass of runloop sends to the entry of port p: the front of    *)
(* every other queue, in the order of the map.                                 *)
Fronts(p) ==
  LET from == {q \in Keys \ {p} : confmap[q].rtppackets # <<>>}
  IN  [j \in 1..Cardinality(from) |-> Head(confmap[Ascending(from)[j]].rtppackets)]

(* Mutant: the packet stays in the queue. *)
Popped_not(p) == confmap[p]

(* The pop() that follows the sending of a front. *)
Popped(p) ==
  IF confmap[p].rtppackets # <<>> THEN [confmap[p] EXCEPT !.rtppackets = Tail(@)] ELSE confmap[p]

(* Mutant: off by one. *)
Shared_three == Cardinality(Keys) > 2

(* runloop's test for more than one entry. *)
Shared == Cardinality(Keys) > 1

(* One pass that forwards: a packet to every other entry, then pop. *)
Forward ==
  /\ forwarder = "run" /\ Shared
  /\ \E p \in Keys : confmap[p].rtppackets # <<>>
  /\ received' = [e \in Endpoint |->
                    IF \E p \in Keys : confmap[p].remote = {e}
                      THEN received[e] \o Fronts(PortOf[e]) ELSE received[e]]
  /\ confmap' = [p \in Port |-> Popped(p)]
  /\ UNCHANGED <<threadhandle, forwarder, receiver, arriving, sent, arrived, backlog>>

(* One pass that does not: the map has one entry at most. *)
Alone ==
  /\ forwarder = "run" /\ ~Shared
  /\ backlog' = {e \in Endpoint : \E p \in Keys : \E j \in 1..Len(confmap[p].rtppackets) :
                                    confmap[p].rtppackets[j].from = e}
  /\ UNCHANGED <<threadhandle, forwarder, receiver, arriving, sent, arrived, confmap, received>>

-----------------------------------------------------------------------------
Next == \/ HandleStored \/ FirstTest \/ setpacket \/ ReceiveEnds \/ Forward \/ Alone
        \/ \E e \in Endpoint : Send(e) \/ \E k \in 1..MaxPackets : Arrive(e, k)

Spec == Init /\ [][Next]_vars

(* Both threads keep running. *)
FairSpec == Spec /\ WF_vars(HandleStored) /\ WF_vars(FirstTest) /\ WF_vars(setpacket)
                 /\ WF_vars(Forward)

-----------------------------------------------------------------------------
Packet == [from : Endpoint, n : 1..MaxPackets, at : Nat \ {0}]

TypeOK ==
  /\ threadhandle \in {"null", "set"}
  /\ receiver \in {"run", "ended"}
  /\ forwarder \in {"start", "run", "crashed"}
  /\ arriving \in Seq(Packet)
  /\ sent \in [Endpoint -> 0..MaxPackets]
  /\ arrived \in [Endpoint -> Seq(1..MaxPackets)]
  /\ confmap \in [Port -> [remote : SUBSET Endpoint, rtppackets : Seq(Packet)]]
  /\ received \in [Endpoint -> Seq(Packet)]
  /\ backlog \subseteq Endpoint

(* No participant is sent its own packet ("cannot send to oneself", says the     *)
(* comment in runloop), although a queue may hold packets of several            *)
(* participants and the address of only one of them.                           *)
NoSelfEcho ==
  \A e \in Endpoint : \A j \in 1..Len(received[e]) : received[e][j].from # e

(* A participant gets another's packets in the order in which they arrived at    *)
(* the socket, each as often as it arrived at most, over any interleaving of      *)
(* receiving and forwarding.  What UDP repeats or reorders before recvfrom() is   *)
(* passed on so: setpacket() looks at no sequence number.                        *)
InOrderOnce ==
  \A e \in Endpoint : \A k \in 1..Len(received[e]) :
    LET packet == received[e][k]
    IN  /\ packet.at <= Len(arrived[packet.from]) /\ packet.n = arrived[packet.from][packet.at]
        /\ \A j \in 1..(k - 1) : received[e][j].from = packet.from => received[e][j].at < packet.at

(* Two entries in the map are enough for every queue to be emptied: a pass pops  *)
(* one packet of each, so no participant waits for another to fall silent.      *)
QueuesDrain ==
  \A p \in Port :
    (forwarder = "run" /\ Cardinality(Keys) > 1 /\ confmap[p].rtppackets # <<>>)
      ~> (confmap[p].rtppackets = <<>>)

(* runloop() comments the pass that forwards nothing with "no forwarding when    *)
(* there is only one person": such a pass leaves behind packets of one          *)
(* participant only.                                                            *)
AloneMeansOnePerson == Cardinality(backlog) <= 1
=============================================================================
