-------------------------- MODULE ConferenceProofs --------------------------
(***************************************************************************)
(* Proofs about Conference, for every finite set of ports, any number of     *)
(* participants and any bounds.  A packet travels from arriving through the  *)
(* queue of its port to received; IInv says that each stage holds only what   *)
(* had arrived before everything in the stages before it.                    *)
(***************************************************************************)
EXTENDS Conference, Integers, DataLemmas

Queue(p) == confmap[p].rtppackets

(* Each participant's packets in s come in the order they arrived. *)
Increasing(s) ==
  \A j, k \in 1..Len(s) : j < k /\ s[j].from = s[k].from => s[j].at < s[k].at

(* What s has of a participant arrived before what t has of it. *)
Before(s, t) ==
  \A j \in 1..Len(s), k \in 1..Len(t) : s[j].from = t[k].from => s[j].at < t[k].at

(* The packet is the one the log has for its arrival. *)
Logged(log, x) == x.at <= Len(log[x.from]) /\ x.n = log[x.from][x.at]

(* An entry of the map has one participant's address, and its queue holds packets   *)
(* of participants with its port only.                                           *)
ByPort ==
  \A p \in Port :
    /\ \A e \in confmap[p].remote : PortOf[e] = p
    /\ \A j \in 1..Len(Queue(p)) : PortOf[Queue(p)[j].from] = p

(* Nothing overtakes anything on its way. *)
Pipeline ==
  /\ \A j \in 1..Len(arriving) : Logged(arrived, arriving[j])
  /\ Increasing(arriving)
  /\ \A p \in Port : /\ \A j \in 1..Len(Queue(p)) : Logged(arrived, Queue(p)[j])
                     /\ Increasing(Queue(p)) /\ Before(Queue(p), arriving)
  /\ \A e \in Endpoint : /\ \A j \in 1..Len(received[e]) : Logged(arrived, received[e][j])
                         /\ Increasing(received[e]) /\ Before(received[e], arriving)
                         /\ \A p \in Port : Before(received[e], Queue(p))

IInv == TypeOK /\ ByPort /\ NoSelfEcho /\ Pipeline

-----------------------------------------------------------------------------
(* What queueing, taking and sending do to the order.                          *)

LEMMA AppendIncreasing ==
  ASSUME NEW s \in Seq(Packet), NEW x \in Packet, Increasing(s),
         \A j \in 1..Len(s) : s[j].from = x.from => s[j].at < x.at
  PROVE  Increasing(Append(s, x))
<1> SUFFICES ASSUME NEW j \in 1..Len(Append(s, x)), NEW k \in 1..Len(Append(s, x)), j < k,
                    Append(s, x)[j].from = Append(s, x)[k].from
             PROVE  Append(s, x)[j].at < Append(s, x)[k].at
  BY DEF Increasing
<1>1. j \in 1..Len(s) /\ Append(s, x)[j] = s[j]
  OBVIOUS
<1>2. CASE k = Len(s) + 1
  BY <1>1, <1>2
<1>3. CASE k \in 1..Len(s)
  BY <1>1, <1>3 DEF Increasing
<1> QED
  BY <1>2, <1>3

LEMMA AppendBefore ==
  ASSUME NEW s \in Seq(Packet), NEW t \in Seq(Packet), NEW x \in Packet, Before(s, t),
         \A k \in 1..Len(t) : x.from = t[k].from => x.at < t[k].at
  PROVE  Before(Append(s, x), t)
<1> SUFFICES ASSUME NEW j \in 1..Len(Append(s, x)), NEW k \in 1..Len(t),
                    Append(s, x)[j].from = t[k].from
             PROVE  Append(s, x)[j].at < t[k].at
  BY DEF Before
<1>1. CASE j = Len(s) + 1
  BY <1>1
<1>2. CASE j \in 1..Len(s)
  BY <1>2 DEF Before
<1> QED
  BY <1>1, <1>2

LEMMA BeforeAppend ==
  ASSUME NEW s \in Seq(Packet), NEW t \in Seq(Packet), NEW x \in Packet, Before(s, t),
         \A j \in 1..Len(s) : s[j].from = x.from => s[j].at < x.at
  PROVE  Before(s, Append(t, x))
<1> SUFFICES ASSUME NEW j \in 1..Len(s), NEW k \in 1..Len(Append(t, x)),
                    s[j].from = Append(t, x)[k].from
             PROVE  s[j].at < Append(t, x)[k].at
  BY DEF Before
<1>1. CASE k = Len(t) + 1
  BY <1>1
<1>2. CASE k \in 1..Len(t)
  BY <1>2 DEF Before
<1> QED
  BY <1>1, <1>2

LEMMA TailIncreasing ==
  ASSUME NEW s \in Seq(Packet), s # <<>>, Increasing(s)
  PROVE  /\ Increasing(Tail(s))
         /\ \A k \in 1..Len(Tail(s)) : Head(s).from = Tail(s)[k].from => Head(s).at < Tail(s)[k].at
<1>1. /\ Len(s) \in Nat /\ Len(s) >= 1 /\ Head(s) = s[1] /\ Len(Tail(s)) = Len(s) - 1
      /\ \A k \in 1..Len(Tail(s)) : Tail(s)[k] = s[k + 1] /\ k + 1 \in 1..Len(s) /\ 1 < k + 1
  BY HeadTailProperties
<1>2. Increasing(Tail(s))
  <2> SUFFICES ASSUME NEW j \in 1..Len(Tail(s)), NEW k \in 1..Len(Tail(s)), j < k,
                      Tail(s)[j].from = Tail(s)[k].from
               PROVE  Tail(s)[j].at < Tail(s)[k].at
    BY DEF Increasing
  <2>1. j + 1 < k + 1
    OBVIOUS
  <2> QED
    BY <1>1, <2>1 DEF Increasing
<1>3. ASSUME NEW k \in 1..Len(Tail(s)), Head(s).from = Tail(s)[k].from
      PROVE  Head(s).at < Tail(s)[k].at
  BY <1>1, <1>3 DEF Increasing
<1> QED
  BY <1>2, <1>3

LEMMA BeforeTail ==
  ASSUME NEW s \in Seq(Packet), NEW t \in Seq(Packet), t # <<>>, Before(s, t)
  PROVE  Before(s, Tail(t))
<1>1. \A k \in 1..Len(Tail(t)) : Tail(t)[k] = t[k + 1] /\ k + 1 \in 1..Len(t)
  BY HeadTailProperties
<1> QED
  BY <1>1 DEF Before

LEMMA TailBefore ==
  ASSUME NEW s \in Seq(Packet), NEW t \in Seq(Packet), s # <<>>, Before(s, t)
  PROVE  Before(Tail(s), t)
<1>1. \A k \in 1..Len(Tail(s)) : Tail(s)[k] = s[k + 1] /\ k + 1 \in 1..Len(s)
  BY HeadTailProperties
<1> QED
  BY <1>1 DEF Before

(* A pass of runloop sends to the entry of p at most one packet of each other port,  *)
(* the front of its queue.                                                        *)
LEMMA FrontsLemma ==
  ASSUME TypeOK, ByPort, NEW p \in Port
  PROVE  /\ Fronts(p) \in Seq(Packet)
         /\ \A j \in 1..Len(Fronts(p)) :
              \E q \in Port \ {p} : Queue(q) # <<>> /\ Fronts(p)[j] = Head(Queue(q))
         /\ \A j, k \in 1..Len(Fronts(p)) :
              j < k => PortOf[Fronts(p)[j].from] # PortOf[Fronts(p)[k].from]
<1> DEFINE S == {q \in Keys \ {p} : confmap[q].rtppackets # <<>>}
           n == Cardinality(S)
           f == Ascending(S)
<1>1. S \in SUBSET Nat /\ IsFiniteSet(S) /\ S \subseteq Port /\ p \notin S
  <2>1. S \subseteq Port /\ p \notin S
    BY DEF Keys
  <2> QED
    BY <2>1, PortAssumption, FS_Subset
<1>2. n \in Nat
  BY <1>1, FS_CardinalityType
<1>3. f \in [1..n -> S] /\ \A j, k \in 1..n : j < k => f[j] < f[k]
  BY <1>1, AscendingExists DEF Ascending
<1>4. Fronts(p) = [j \in 1..n |-> Head(confmap[f[j]].rtppackets)]
  BY DEF Fronts
<1>5. \A q \in S : /\ Queue(q) # <<>> /\ Queue(q) \in Seq(Packet)
                   /\ Head(Queue(q)) \in Packet /\ PortOf[Head(Queue(q)).from] = q
  <2> SUFFICES ASSUME NEW q \in S
               PROVE  /\ Queue(q) # <<>> /\ Queue(q) \in Seq(Packet)
                      /\ Head(Queue(q)) \in Packet /\ PortOf[Head(Queue(q)).from] = q
    OBVIOUS
  <2>1. Queue(q) # <<>> /\ Queue(q) \in Seq(Packet)
    BY <1>1 DEF Queue, TypeOK
  <2>2. Head(Queue(q)) = Queue(q)[1] /\ 1 \in 1..Len(Queue(q))
    BY <2>1
  <2> QED
    BY <1>1, <2>1, <2>2 DEF ByPort
<1> HIDE DEF S, n, f
<1>6. \A j \in 1..n : f[j] \in S /\ Fronts(p)[j] = Head(Queue(f[j]))
  BY <1>3, <1>4 DEF Queue
<1>7. Fronts(p) \in [1..n -> Packet]
  BY <1>4, <1>5, <1>6 DEF Queue
<1>8. Fronts(p) \in Seq(Packet) /\ Len(Fronts(p)) = n
  BY <1>2, <1>7
<1>9. ASSUME NEW j \in 1..n, NEW k \in 1..n, j < k
      PROVE  PortOf[Fronts(p)[j].from] # PortOf[Fronts(p)[k].from]
  <2>1. f[j] < f[k] /\ f[j] \in Nat /\ f[k] \in Nat
    BY <1>1, <1>3, <1>9
  <2>2. f[j] # f[k]
    BY <2>1
  <2> QED
    BY <1>5, <1>6, <2>2
<1>10. ASSUME NEW j \in 1..n
       PROVE  \E q \in Port \ {p} : Queue(q) # <<>> /\ Fronts(p)[j] = Head(Queue(q))
  BY <1>1, <1>5, <1>6
<1> QED
  BY <1>8, <1>9, <1>10

-----------------------------------------------------------------------------
(* Each step preserves the invariant.                                         *)

Entry == [remote : SUBSET Endpoint, rtppackets : Seq(Packet)]

LEMMA InitIInv == Init => IInv
<1> SUFFICES ASSUME Init PROVE IInv
  OBVIOUS
<1>1. TypeOK
  BY MaxPacketsAssumption DEF Init, TypeOK, NoEntry
<1>2. \A p \in Port : confmap[p].remote = {} /\ Queue(p) = <<>>
  BY DEF Init, NoEntry, Queue
<1>3. arriving = <<>> /\ \A e \in Endpoint : received[e] = <<>>
  BY DEF Init
<1>4. ByPort
  BY <1>2 DEF ByPort
<1>5. NoSelfEcho
  BY <1>3 DEF NoSelfEcho
<1>6. Pipeline
  BY <1>2, <1>3 DEF Pipeline, Increasing, Before
<1> QED
  BY <1>1, <1>4, <1>5, <1>6 DEF IInv

(* What arrives from e is later than all there is of e. *)
LEMMA ArriveStep ==
  ASSUME IInv, NEW e \in Endpoint, NEW num \in 1..MaxPackets, Arrive(e, num)
  PROVE  IInv'
<1>a. arrived \in [Endpoint -> Seq(1..MaxPackets)] /\ arriving \in Seq(Packet)
  BY DEF IInv, TypeOK
<1>b. PICK t \in Nat : t = Len(arrived[e])
  BY <1>a
<1>c. t + 1 \in Nat \ {0}
  OBVIOUS
<1> PICK x \in Packet : x = [from |-> e, n |-> num, at |-> t + 1]
  BY <1>c DEF Packet
<1>1. arriving' = Append(arriving, x) /\ arrived' = [arrived EXCEPT ![e] = Append(@, num)]
  BY <1>b DEF Arrive
<1>2. x.from = e /\ x.at = t + 1 /\ x.n = num
  OBVIOUS
<1>d. /\ arrived' \in [Endpoint -> Seq(1..MaxPackets)]
      /\ arrived'[e] = Append(arrived[e], num)
      /\ \A d \in Endpoint : d # e => arrived'[d] = arrived[d]
  BY <1>1, <1>a
<1>3. UNCHANGED <<confmap, received>> /\ \A p \in Port : Queue(p)' = Queue(p)
  BY DEF Arrive, Queue
<1>4. TypeOK'
  <2>1. arriving' \in Seq(Packet)
    BY <1>1, <1>a
  <2> QED
    BY <1>d, <2>1 DEF IInv, TypeOK, Arrive
<1>5. ByPort' /\ NoSelfEcho'
  BY <1>3 DEF IInv, ByPort, NoSelfEcho
<1>7. ASSUME NEW s \in Seq(Packet), \A j \in 1..Len(s) : Logged(arrived, s[j])
      PROVE  /\ \A j \in 1..Len(s) : Logged(arrived', s[j])
             /\ \A j \in 1..Len(s) : s[j].from = x.from => s[j].at < x.at
  <2> SUFFICES ASSUME NEW j \in 1..Len(s)
               PROVE  Logged(arrived', s[j]) /\ (s[j].from = x.from => s[j].at < x.at)
    OBVIOUS
  <2>0. s[j] \in Packet
    OBVIOUS
  <2>1. s[j].from \in Endpoint /\ s[j].at \in Nat \ {0} /\ s[j].n \in 1..MaxPackets /\ Logged(arrived, s[j])
    BY <1>7, <2>0 DEF Packet
  <2>2. CASE s[j].from # e
    BY <1>2, <1>d, <2>1, <2>2 DEF Logged
  <2>3. CASE s[j].from = e
    <3>1. s[j].at <= t /\ s[j].n = arrived[e][s[j].at]
      BY <1>b, <2>1, <2>3 DEF Logged
    <3>2. s[j].at \in 1..Len(arrived[e]) /\ s[j].at <= t + 1 /\ s[j].at < t + 1
      BY <1>b, <2>1, <3>1
    <3>3. Append(arrived[e], num)[s[j].at] = arrived[e][s[j].at] /\ Len(Append(arrived[e], num)) = t + 1
      BY <1>a, <1>b, <3>2
    <3>4. s[j].at <= Len(arrived'[s[j].from]) /\ s[j].n = arrived'[s[j].from][s[j].at]
      BY <1>d, <2>3, <3>1, <3>2, <3>3
    <3> QED
      BY <1>2, <3>2, <3>4 DEF Logged
  <2> QED
    BY <2>2, <2>3
<1>8. /\ \A j \in 1..Len(arriving') : Logged(arrived', arriving'[j])
      /\ Increasing(arriving')
  <2>1. arriving \in Seq(Packet) /\ Increasing(arriving)
        /\ \A j \in 1..Len(arriving) : Logged(arrived, arriving[j])
    BY DEF IInv, TypeOK, Pipeline
  <2>2. Increasing(arriving')
    BY <1>1, <1>7, <2>1, AppendIncreasing
  <2>3. \A j \in 1..Len(arriving) : Logged(arrived', arriving[j])
    BY <1>7, <2>1
  <2>4. Logged(arrived', x)
    <3>1. Len(Append(arrived[e], num)) = t + 1 /\ Append(arrived[e], num)[t + 1] = num
      BY <1>a, <1>b
    <3> QED
      BY <1>2, <1>d, <3>1 DEF Logged
  <2>5. \A j \in 1..Len(arriving') : arriving'[j] = x \/ (j \in 1..Len(arriving) /\ arriving'[j] = arriving[j])
    BY <1>1, <2>1
  <2> QED
    BY <2>2, <2>3, <2>4, <2>5
<1>9. ASSUME NEW p \in Port
      PROVE  (/\ \A j \in 1..Len(Queue(p)) : Logged(arrived, Queue(p)[j])
              /\ Increasing(Queue(p)) /\ Before(Queue(p), arriving))'
  <2>1. /\ Queue(p) \in Seq(Packet) /\ arriving \in Seq(Packet) /\ Before(Queue(p), arriving)
        /\ Increasing(Queue(p))
        /\ \A j \in 1..Len(Queue(p)) : Logged(arrived, Queue(p)[j])
    BY DEF IInv, TypeOK, Pipeline, Queue
  <2>2. Before(Queue(p), arriving')
    BY <1>1, <1>7, <2>1, BeforeAppend
  <2> QED
    BY <1>3, <1>7, <2>1, <2>2
<1>10. ASSUME NEW d \in Endpoint
       PROVE  (/\ \A j \in 1..Len(received[d]) : Logged(arrived, received[d][j])
               /\ Increasing(received[d]) /\ Before(received[d], arriving)
               /\ \A p \in Port : Before(received[d], Queue(p)))'
  <2>1. /\ received[d] \in Seq(Packet) /\ arriving \in Seq(Packet) /\ Before(received[d], arriving)
        /\ Increasing(received[d]) /\ \A p \in Port : Before(received[d], Queue(p))
        /\ \A j \in 1..Len(received[d]) : Logged(arrived, received[d][j])
    BY DEF IInv, TypeOK, Pipeline
  <2>2. Before(received[d], arriving')
    BY <1>1, <1>7, <2>1, BeforeAppend
  <2>3. received'[d] = received[d]
    BY <1>3
  <2> QED
    BY <1>3, <1>7, <2>1, <2>2, <2>3
<1> QED
  BY <1>4, <1>5, <1>8, <1>9, <1>10 DEF IInv, Pipeline

(* setpacket() puts the first datagram at the end of the queue of its port. *)
LEMMA SetpacketStep ==
  ASSUME IInv, setpacket
  PROVE  IInv'
<1>h. Head(arriving) \in Packet
  BY DEF IInv, TypeOK, setpacket
<1> PICK x \in Packet : x = Head(arriving)
  BY <1>h
<1>p. x.from \in Endpoint /\ PortOf[x.from] \in Port
  BY PortOfAssumption DEF Packet
<1> PICK port \in Port : port = PortOf[x.from]
  BY <1>p
<1>1. /\ arriving \in Seq(Packet) /\ arriving # <<>> /\ arriving' = Tail(arriving)
      /\ UNCHANGED <<arrived, received>> /\ x \in Packet
      /\ confmap' = [confmap EXCEPT ![port] = Queued(port, x)]
  BY DEF IInv, TypeOK, setpacket
<1>2. port \in Port /\ x.from \in Endpoint
  BY <1>p
<1>x. /\ \A j \in 1..Len(arriving') : Logged(arrived, arriving'[j])
      /\ Increasing(arriving')
      /\ \A k \in 1..Len(arriving') : x.from = arriving'[k].from => x.at < arriving'[k].at
      /\ Logged(arrived, x)
  <2>1. \A j \in 1..Len(Tail(arriving)) : Tail(arriving)[j] = arriving[j + 1] /\ j + 1 \in 1..Len(arriving)
    BY <1>1, HeadTailProperties
  <2>2. x = arriving[1] /\ 1 \in 1..Len(arriving)
    BY <1>1
  <2>3. Increasing(arriving)
    BY DEF IInv, Pipeline
  <2>4. /\ Increasing(Tail(arriving))
        /\ \A k \in 1..Len(Tail(arriving)) : x.from = Tail(arriving)[k].from => x.at < Tail(arriving)[k].at
    BY <1>1, <2>3, TailIncreasing
  <2> QED
    BY <1>1, <2>1, <2>2, <2>4 DEF IInv, Pipeline
<1>y. ASSUME NEW s \in Seq(Packet), Before(s, arriving)
      PROVE  Before(s, arriving') /\ \A j \in 1..Len(s) : s[j].from = x.from => s[j].at < x.at
  <2>1. x = arriving[1] /\ 1 \in 1..Len(arriving)
    BY <1>1
  <2> QED
    BY <1>1, <1>y, <2>1, BeforeTail DEF Before
<1>3. /\ confmap \in [Port -> Entry]
      /\ Queued(port, x) \in Entry
      /\ Queued(port, x).rtppackets = Append(Queue(port), x)
      /\ \A e \in Queued(port, x).remote : PortOf[e] = port
  <2>1. confmap \in [Port -> Entry]
    BY DEF IInv, TypeOK, Entry
  <2>2. confmap[port].remote \subseteq Endpoint /\ Queue(port) \in Seq(Packet)
    BY <1>2, <2>1 DEF Entry, Queue
  <2>3. Append(Queue(port), x) \in Seq(Packet)
    BY <1>1, <2>2
  <2> DEFINE R == IF port \in Keys THEN confmap[port].remote ELSE {x.from}
  <2>4. Queued(port, x) = [remote |-> R, rtppackets |-> Append(Queue(port), x)]
    BY DEF Queued, Queue
  <2>5. \A e \in confmap[port].remote : PortOf[e] = port
    BY <1>2 DEF IInv, ByPort
  <2>6. R \subseteq Endpoint /\ \A e \in R : PortOf[e] = port
    BY <1>2, <2>2, <2>5
  <2> HIDE DEF R
  <2>7. Queued(port, x) \in Entry
    BY <2>3, <2>4, <2>6 DEF Entry
  <2>8. Queued(port, x).rtppackets = Append(Queue(port), x) /\ Queued(port, x).remote = R
    BY <2>4
  <2> QED
    BY <2>1, <2>6, <2>7, <2>8
<1>4. /\ confmap' \in [Port -> Entry]
      /\ Queue(port)' = Append(Queue(port), x)
      /\ \A p \in Port \ {port} : confmap'[p] = confmap[p] /\ Queue(p)' = Queue(p)
      /\ confmap'[port] = Queued(port, x)
  BY <1>1, <1>2, <1>3 DEF Queue
<1>5. TypeOK'
  BY <1>1, <1>4 DEF IInv, TypeOK, setpacket, Entry
<1>6. ByPort'
  <2> SUFFICES ASSUME NEW p \in Port
               PROVE  /\ \A e \in confmap'[p].remote : PortOf[e] = p
                      /\ \A j \in 1..Len(Queue(p)') : PortOf[Queue(p)'[j].from] = p
    BY DEF ByPort
  <2>1. CASE p # port
    BY <1>4, <2>1 DEF IInv, ByPort
  <2>2. CASE p = port
    <3>1. Queue(p) \in Seq(Packet) /\ \A j \in 1..Len(Queue(p)) : PortOf[Queue(p)[j].from] = p
      BY DEF IInv, TypeOK, ByPort, Queue
    <3>2. \A j \in 1..Len(Queue(p)') :
            Queue(p)'[j] = x \/ (j \in 1..Len(Queue(p)) /\ Queue(p)'[j] = Queue(p)[j])
      BY <1>1, <1>4, <2>2, <3>1, SMTT(20)
    <3>3. \A j \in 1..Len(Queue(p)') : PortOf[Queue(p)'[j].from] = p
      BY <2>2, <3>1, <3>2
    <3>4. \A e \in confmap'[p].remote : PortOf[e] = p
      BY <1>3, <1>4, <2>2
    <3> QED
      BY <3>3, <3>4
  <2> QED
    BY <2>1, <2>2
<1>7. NoSelfEcho'
  BY <1>1 DEF IInv, NoSelfEcho
<1>8. ASSUME NEW p \in Port
      PROVE  (/\ \A j \in 1..Len(Queue(p)) : Logged(arrived, Queue(p)[j])
              /\ Increasing(Queue(p)) /\ Before(Queue(p), arriving))'
  <2>1. /\ Queue(p) \in Seq(Packet) /\ arriving \in Seq(Packet) /\ Before(Queue(p), arriving)
        /\ Increasing(Queue(p)) /\ arriving' \in Seq(Packet)
        /\ \A j \in 1..Len(Queue(p)) : Logged(arrived, Queue(p)[j])
    BY <1>5 DEF IInv, TypeOK, Pipeline, Queue
  <2>2. CASE p # port
    BY <1>1, <1>4, <1>y, <2>1, <2>2, ZenonT(40)
  <2>3. CASE p = port
    <3>1. Queue(p)' = Append(Queue(p), x)
      BY <1>4, <2>3
    <3>2. Increasing(Append(Queue(p), x))
      BY <1>1, <1>y, <2>1, AppendIncreasing
    <3>3. Before(Append(Queue(p), x), arriving')
      BY <1>1, <1>x, <1>y, <2>1, AppendBefore
    <3>4. \A j \in 1..Len(Queue(p)') :
            Queue(p)'[j] = x \/ (j \in 1..Len(Queue(p)) /\ Queue(p)'[j] = Queue(p)[j])
      BY <1>1, <2>1, <3>1
    <3> QED
      BY <1>1, <1>x, <2>1, <3>1, <3>2, <3>3, <3>4
  <2> QED
    BY <2>2, <2>3
<1>9. ASSUME NEW e \in Endpoint
      PROVE  (/\ \A j \in 1..Len(received[e]) : Logged(arrived, received[e][j])
              /\ Increasing(received[e]) /\ Before(received[e], arriving)
              /\ \A p \in Port : Before(received[e], Queue(p)))'
  <2>1. /\ received[e] \in Seq(Packet) /\ Before(received[e], arriving)
        /\ Increasing(received[e]) /\ \A p \in Port : Before(received[e], Queue(p))
        /\ \A j \in 1..Len(received[e]) : Logged(arrived, received[e][j])
    BY DEF IInv, TypeOK, Pipeline
  <2>2. \A p \in Port : Queue(p) \in Seq(Packet)
    BY DEF IInv, TypeOK, Queue
  <2>3. \A p \in Port : Before(received[e], Queue(p)')
    <3> SUFFICES ASSUME NEW p \in Port PROVE Before(received[e], Queue(p)')
      OBVIOUS
    <3>1. CASE p # port
      BY <1>4, <2>1, <3>1
    <3>2. CASE p = port
      <4>1. Before(received[e], Append(Queue(p), x))
        BY <1>1, <1>y, <2>1, <2>2, BeforeAppend
      <4> QED
        BY <1>4, <3>2, <4>1
    <3> QED
      BY <3>1, <3>2
  <2>4. received'[e] = received[e] /\ arrived' = arrived
    BY <1>1
  <2> QED
    BY <1>y, <2>1, <2>3, <2>4
<1> QED
  BY <1>1, <1>x, <1>5, <1>6, <1>7, <1>8, <1>9 DEF IInv, Pipeline

(* A pass of runloop: fronts go to the others, and every queue loses its front. *)
LEMMA ForwardStep ==
  ASSUME IInv, Forward
  PROVE  IInv'
<1>1. /\ UNCHANGED <<arriving, arrived>>
      /\ received' = [e \in Endpoint |->
                        IF \E p \in Keys : confmap[p].remote = {e}
                          THEN received[e] \o Fronts(PortOf[e]) ELSE received[e]]
      /\ confmap' = [p \in Port |-> Popped(p)]
  BY DEF Forward
<1>2. \A p \in Port : Queue(p) \in Seq(Packet) /\ confmap[p] \in Entry
  BY DEF IInv, TypeOK, Queue, Entry
<1>3. \A p \in Port : Popped(p) \in Entry /\ Popped(p).remote = confmap[p].remote
                      /\ Popped(p).rtppackets = IF Queue(p) = <<>> THEN Queue(p) ELSE Tail(Queue(p))
  BY <1>2, SMTT(20) DEF Popped, Entry, Queue
<1>4. /\ confmap' \in [Port -> Entry]
      /\ \A p \in Port : /\ confmap'[p].remote = confmap[p].remote
                         /\ Queue(p)' = IF Queue(p) = <<>> THEN Queue(p) ELSE Tail(Queue(p))
  BY <1>1, <1>3 DEF Queue
<1>5. \A p \in Port : \A j \in 1..Len(Queue(p)') :
        \E k \in 1..Len(Queue(p)) : Queue(p)'[j] = Queue(p)[k]
  <2> SUFFICES ASSUME NEW p \in Port, NEW j \in 1..Len(Queue(p)')
               PROVE  \E k \in 1..Len(Queue(p)) : Queue(p)'[j] = Queue(p)[k]
    OBVIOUS
  <2>1. CASE Queue(p) = <<>>
    BY <1>4, <2>1
  <2>2. CASE Queue(p) # <<>>
    <3>1. Queue(p)' = Tail(Queue(p))
      BY <1>4, <2>2
    <3>2. Tail(Queue(p))[j] = Queue(p)[j + 1] /\ j + 1 \in 1..Len(Queue(p))
      BY <1>2, <2>2, <3>1, HeadTailProperties
    <3> QED
      BY <3>1, <3>2
  <2> QED
    BY <2>1, <2>2
<1>6. ASSUME NEW e \in Endpoint
      PROVE  \/ received'[e] = received[e]
             \/ received'[e] = received[e] \o Fronts(PortOf[e])
  BY <1>1
<1>f. ASSUME NEW e \in Endpoint
      PROVE  /\ Fronts(PortOf[e]) \in Seq(Packet)
             /\ \A j \in 1..Len(Fronts(PortOf[e])) :
                  \E q \in Port \ {PortOf[e]} : Queue(q) # <<>> /\ Fronts(PortOf[e])[j] = Head(Queue(q))
             /\ \A j, k \in 1..Len(Fronts(PortOf[e])) :
                  j < k => PortOf[Fronts(PortOf[e])[j].from] # PortOf[Fronts(PortOf[e])[k].from]
  <2>1. PortOf[e] \in Port
    BY PortOfAssumption
  <2> QED
    BY <2>1, FrontsLemma DEF IInv
<1>7. TypeOK'
  <2>1. received' \in [Endpoint -> Seq(Packet)]
    <3>1. received \in [Endpoint -> Seq(Packet)]
      BY DEF IInv, TypeOK
    <3>2. \A e \in Endpoint : received[e] \o Fronts(PortOf[e]) \in Seq(Packet)
      BY <1>f, <3>1
    <3> QED
      BY <1>1, <3>1, <3>2
  <2> QED
    BY <1>1, <1>4, <2>1 DEF IInv, TypeOK, Forward, Entry
<1>8. ByPort'
  BY <1>4, <1>5 DEF IInv, ByPort
(* What is sent to e, and where it stands in its queue. *)
<1>s. ASSUME NEW e \in Endpoint, NEW j \in 1..Len(received'[e])
      PROVE  \/ j \in 1..Len(received[e]) /\ received'[e][j] = received[e][j]
             \/ /\ j > Len(received[e]) /\ j - Len(received[e]) \in 1..Len(Fronts(PortOf[e]))
                /\ received'[e][j] = Fronts(PortOf[e])[j - Len(received[e])]
  <2>1. received[e] \in Seq(Packet)
    BY DEF IInv, TypeOK
  <2>2. Fronts(PortOf[e]) \in Seq(Packet)
    BY <1>f
  <2>3. CASE received'[e] = received[e]
    BY <2>3
  <2>4. CASE received'[e] = received[e] \o Fronts(PortOf[e])
    <3> DEFINE old == received[e]
               F == Fronts(PortOf[e])
    <3>1. old \in Seq(Packet) /\ F \in Seq(Packet) /\ j \in 1..Len(old \o F) /\ received'[e] = old \o F
      BY <2>1, <2>2, <2>4
    <3> HIDE DEF old, F
    <3>2. \/ j \in 1..Len(old) /\ (old \o F)[j] = old[j]
          \/ j > Len(old) /\ j - Len(old) \in 1..Len(F) /\ (old \o F)[j] = F[j - Len(old)]
      BY <3>1, ConcatElement
    <3> QED
      BY <3>1, <3>2 DEF old, F
  <2> QED
    BY <1>6, <2>3, <2>4
<1>h. ASSUME NEW q \in Port, Queue(q) # <<>>
      PROVE  /\ Head(Queue(q)) = Queue(q)[1] /\ 1 \in 1..Len(Queue(q))
             /\ Head(Queue(q)) \in Packet /\ PortOf[Head(Queue(q)).from] = q
  <2>1. Queue(q) \in Seq(Packet)
    BY <1>2
  <2>2. Head(Queue(q)) = Queue(q)[1] /\ 1 \in 1..Len(Queue(q)) /\ Head(Queue(q)) \in Packet
    BY <1>h, <2>1
  <2> QED
    BY <2>2 DEF IInv, ByPort
<1>9. NoSelfEcho'
  <2> SUFFICES ASSUME NEW e \in Endpoint, NEW j \in 1..Len(received'[e])
               PROVE  received'[e][j].from # e
    BY DEF NoSelfEcho
  <2>1. CASE j \in 1..Len(received[e]) /\ received'[e][j] = received[e][j]
    BY <2>1 DEF IInv, NoSelfEcho
  <2>2. CASE j - Len(received[e]) \in 1..Len(Fronts(PortOf[e]))
             /\ received'[e][j] = Fronts(PortOf[e])[j - Len(received[e])]
    <3>1. PICK q \in Port \ {PortOf[e]} : Queue(q) # <<>> /\ received'[e][j] = Head(Queue(q))
      BY <1>f, <2>2
    <3>2. PortOf[received'[e][j].from] = q
      BY <1>h, <3>1
    <3> QED
      BY <3>2
  <2> QED
    BY <1>s, <2>1, <2>2
<1>10. ASSUME NEW p \in Port
       PROVE  (/\ \A j \in 1..Len(Queue(p)) : Logged(arrived, Queue(p)[j])
               /\ Increasing(Queue(p)) /\ Before(Queue(p), arriving))'
  <2>1. /\ \A j \in 1..Len(Queue(p)) : Logged(arrived, Queue(p)[j])
        /\ Increasing(Queue(p)) /\ Before(Queue(p), arriving)
        /\ arriving \in Seq(Packet) /\ Queue(p) \in Seq(Packet)
    BY <1>2 DEF IInv, TypeOK, Pipeline
  <2>2. Increasing(Queue(p)') /\ Before(Queue(p)', arriving)
    BY <1>4, <2>1, TailIncreasing, TailBefore
  <2>3. \A j \in 1..Len(Queue(p)') : Logged(arrived, Queue(p)'[j])
    BY <1>5, <2>1
  <2> QED
    BY <1>1, <2>2, <2>3
<1>11. ASSUME NEW e \in Endpoint
       PROVE  (/\ \A j \in 1..Len(received[e]) : Logged(arrived, received[e][j])
               /\ Increasing(received[e]) /\ Before(received[e], arriving)
               /\ \A p \in Port : Before(received[e], Queue(p)))'
  <2> DEFINE old == received[e]
             F == Fronts(PortOf[e])
  <2>1. /\ old \in Seq(Packet) /\ Increasing(old) /\ Before(old, arriving)
        /\ \A p \in Port : Before(old, Queue(p))
        /\ \A j \in 1..Len(old) : Logged(arrived, old[j])
        /\ arriving \in Seq(Packet)
    BY DEF IInv, TypeOK, Pipeline
  <2>2. \A p \in Port : Increasing(Queue(p)) /\ Before(Queue(p), arriving) /\ Queue(p) \in Seq(Packet)
          /\ \A j \in 1..Len(Queue(p)) : Logged(arrived, Queue(p)[j])
    BY <1>2 DEF IInv, Pipeline
  <2>3. \A j \in 1..Len(F) : \E q \in Port : Queue(q) # <<>> /\ F[j] = Queue(q)[1]
                                 /\ 1 \in 1..Len(Queue(q)) /\ PortOf[F[j].from] = q
    BY <1>f, <1>h
  <2>4. \A j, k \in 1..Len(F) : j < k => F[j].from # F[k].from
    BY <1>f
  <2>5. \A j \in 1..Len(F) : Logged(arrived, F[j])
    BY <2>2, <2>3
  <2>6. Before(F, arriving)
    <3> SUFFICES ASSUME NEW j \in 1..Len(F), NEW k \in 1..Len(arriving), F[j].from = arriving[k].from
                 PROVE  F[j].at < arriving[k].at
      BY DEF Before
    <3> HIDE DEF F
    <3>1. PICK q \in Port : F[j] = Queue(q)[1] /\ 1 \in 1..Len(Queue(q))
      BY <2>3
    <3>2. Before(Queue(q), arriving)
      BY <2>2
    <3> QED
      BY <3>1, <3>2 DEF Before
  <2>7. Before(old, F)
    <3> SUFFICES ASSUME NEW j \in 1..Len(old), NEW k \in 1..Len(F), old[j].from = F[k].from
                 PROVE  old[j].at < F[k].at
      BY DEF Before
    <3> HIDE DEF F, old
    <3>1. PICK q \in Port : F[k] = Queue(q)[1] /\ 1 \in 1..Len(Queue(q))
      BY <2>3
    <3>2. Before(old, Queue(q))
      BY <2>1
    <3> QED
      BY <3>1, <3>2 DEF Before
  <2>8. ASSUME NEW p \in Port PROVE Before(F, Queue(p)') /\ Before(old, Queue(p)')
    <3>1. Before(old, Queue(p)')
      BY <1>4, <2>1, <2>2, <2>8, BeforeTail
    <3> SUFFICES ASSUME NEW j \in 1..Len(F), NEW k \in 1..Len(Queue(p)'), F[j].from = Queue(p)'[k].from
                 PROVE  F[j].at < Queue(p)'[k].at
      BY <3>1 DEF Before
    <3>2. PICK q \in Port : Queue(q) # <<>> /\ F[j] = Queue(q)[1] /\ 1 \in 1..Len(Queue(q)) /\ PortOf[F[j].from] = q
      BY <2>3
    <3>3. p = q
      <4>1. PortOf[Queue(p)'[k].from] = p
        BY <1>8 DEF ByPort
      <4> QED
        BY <3>2, <4>1
    <3>4. Queue(p)' = Tail(Queue(p)) /\ Head(Queue(p)) = F[j]
      BY <1>4, <1>h, <3>2, <3>3
    <3> QED
      BY <2>2, <3>2, <3>3, <3>4, TailIncreasing
  <2>9. CASE received'[e] = old
    BY <1>1, <2>1, <2>8, <2>9
  <2>10. CASE received'[e] = old \o F
    <3> DEFINE new == old \o F
    <3>1. \A j \in 1..Len(new) :
            \/ j \in 1..Len(old) /\ new[j] = old[j]
            \/ j > Len(old) /\ j - Len(old) \in 1..Len(F) /\ new[j] = F[j - Len(old)]
      BY <1>s, <2>10
    <3> HIDE DEF new, old, F
    <3>2. \A j \in 1..Len(new) : Logged(arrived, new[j])
      BY <2>1, <2>5, <3>1
    <3>3. Before(new, arriving) /\ \A p \in Port : Before(new, Queue(p)')
      BY <2>1, <2>6, <2>8, <3>1, ZenonT(40) DEF Before
    <3>4. Increasing(new)
      <4> SUFFICES ASSUME NEW j \in 1..Len(new), NEW k \in 1..Len(new), j < k, new[j].from = new[k].from
                   PROVE  new[j].at < new[k].at
        BY DEF Increasing
      <4>0. Len(old) \in Nat
        BY <2>1
      <4>1. CASE k \in 1..Len(old) /\ new[k] = old[k]
        <5>1. j \in 1..Len(old) /\ new[j] = old[j]
          BY <3>1, <4>0, <4>1
        <5> QED
          BY <2>1, <4>1, <5>1 DEF Increasing
      <4>2. CASE k > Len(old) /\ k - Len(old) \in 1..Len(F) /\ new[k] = F[k - Len(old)]
        <5>1. CASE j \in 1..Len(old) /\ new[j] = old[j]
          BY <2>7, <4>2, <5>1 DEF Before
        <5>2. CASE j - Len(old) \in 1..Len(F) /\ new[j] = F[j - Len(old)]
          <6>1. j - Len(old) < k - Len(old)
            BY <4>0
          <6> QED
            BY <2>4, <4>2, <5>2, <6>1
        <5> QED
          BY <3>1, <5>1, <5>2
      <4> QED
        BY <3>1, <4>1, <4>2
    <3> QED
      BY <1>1, <2>10, <3>2, <3>3, <3>4 DEF new
  <2> QED
    BY <1>6, <2>9, <2>10
<1> QED
  <2>1. \A j \in 1..Len(arriving') : Logged(arrived', arriving'[j])
    BY <1>1 DEF IInv, Pipeline
  <2>2. Increasing(arriving')
    BY <1>1 DEF IInv, Pipeline
  <2> QED
    BY <2>1, <2>2, <1>7, <1>8, <1>9, <1>10, <1>11 DEF IInv, Pipeline

-----------------------------------------------------------------------------
(* Results. *)

(* The inductive invariant: every packet is in one place between its sender and  *)
(* the participants it is forwarded to, and packets of one sender keep their     *)
(* order through all of them.                                                  *)
THEOREM Invariance == Spec => []IInv
<1>1. IInv /\ [Next]_vars => IInv'
  <2> SUFFICES ASSUME IInv, [Next]_vars PROVE IInv'
    OBVIOUS
  <2>1. CASE \E e \in Endpoint : \E k \in 1..MaxPackets : Arrive(e, k)
    BY <2>1, ArriveStep
  <2>2. CASE \E e \in Endpoint : Send(e)
    <3>1. /\ UNCHANGED <<arriving, arrived, confmap, received>> /\ \A p \in Port : Queue(p)' = Queue(p)
          /\ UNCHANGED <<threadhandle, receiver, forwarder, backlog>>
      BY <2>2 DEF Send, Queue
    <3>2. sent' \in [Endpoint -> 0..MaxPackets]
      BY <2>2, MaxPacketsAssumption DEF IInv, TypeOK, Send
    <3>3. TypeOK'
      BY <3>1, <3>2 DEF IInv, TypeOK
    <3>4. ByPort' /\ NoSelfEcho' /\ Pipeline'
      BY <3>1 DEF IInv, ByPort, NoSelfEcho, Pipeline
    <3> QED
      BY <3>3, <3>4 DEF IInv
  <2>3. CASE setpacket
    BY <2>3, SetpacketStep
  <2>4. CASE Forward
    BY <2>4, ForwardStep
  <2>5. CASE HandleStored \/ FirstTest \/ ReceiveEnds \/ Alone \/ UNCHANGED vars
    <3>1. UNCHANGED <<arriving, arrived, confmap, received>> /\ \A p \in Port : Queue(p)' = Queue(p)
      BY <2>5 DEF HandleStored, FirstTest, ReceiveEnds, Alone, vars, Queue
    <3>2. TypeOK'
      BY <2>5, <3>1 DEF IInv, TypeOK, HandleStored, FirstTest, ReceiveEnds, Alone, vars
    <3>3. ByPort' /\ NoSelfEcho' /\ Pipeline'
      BY <3>1 DEF IInv, ByPort, NoSelfEcho, Pipeline
    <3> QED
      BY <3>2, <3>3 DEF IInv
  <2> QED
    BY <2>1, <2>2, <2>3, <2>4, <2>5 DEF Next
<1> QED
  BY <1>1, InitIInv, PTL DEF Spec

(* Type correctness of the conference server. *)
THEOREM TypeCorrect == Spec => []TypeOK
<1>1. IInv => TypeOK
  BY DEF IInv
<1> QED
  BY <1>1, Invariance, PTL

(* No participant is ever sent its own packet, however many share a port. *)
THEOREM NobodyHearsHimself == Spec => []NoSelfEcho
<1>1. IInv => NoSelfEcho
  BY DEF IInv
<1> QED
  BY <1>1, Invariance, PTL

(* Every participant gets another's packets in the order in which they arrived   *)
(* at the socket, and none more often than it arrived, over any interleaving of   *)
(* the receive thread and the forwarding thread, whatever UDP loses, repeats or   *)
(* reorders on the way there.                                                  *)
THEOREM PacketsInOrderOnce == Spec => []InOrderOnce
<1>1. IInv => InOrderOnce
  <2> SUFFICES ASSUME IInv, NEW e \in Endpoint, NEW k \in 1..Len(received[e])
               PROVE  /\ Logged(arrived, received[e][k])
                      /\ \A j \in 1..(k - 1) : received[e][j].from = received[e][k].from
                                              => received[e][j].at < received[e][k].at
    BY DEF InOrderOnce, Logged
  <2>1. Len(received[e]) \in Nat
    BY DEF IInv, TypeOK
  <2>2. \A j \in 1..(k - 1) : j \in 1..Len(received[e]) /\ j < k
    BY <2>1
  <2> QED
    BY <2>2 DEF IInv, Pipeline, Increasing
<1> QED
  BY <1>1, Invariance, PTL
=============================================================================
