----------------------------- MODULE LiveStream -----------------------------
(***************************************************************************)
(* What the relay of rtmpserver-master/main.cc does for its clients, without *)
(* sockets, tables and passes: a room in which one member at a time may      *)
(* publish.  A member that asks to watch waits until the next key frame,     *)
(* then it watches; when the publisher leaves, every member that watched     *)
(* waits again.  RtmpRelay is shown to implement this.                       *)
(***************************************************************************)
CONSTANTS Client, NULL

VARIABLES
  members,    \* the clients that are connected
  publisher,  \* the member that owns the stream, or NULL
  view        \* of each client: "off", "waiting" for a key frame, "watching"

vars == <<members, publisher, view>>

Init ==
  /\ members = {}
  /\ publisher = NULL
  /\ view = [c \in Client |-> "off"]

Join(c) ==
  /\ c \notin members
  /\ members' = members \union {c}
  /\ UNCHANGED <<publisher, view>>

Publish(c) ==
  /\ c \in members
  /\ publisher = NULL
  /\ publisher' = c
  /\ UNCHANGED <<members, view>>

Watch(c) ==
  /\ c \in members
  /\ view' = [view EXCEPT ![c] = "waiting"]
  /\ UNCHANGED <<members, publisher>>

Pause(c) ==
  /\ c \in members
  /\ view' = [view EXCEPT ![c] = "off"]
  /\ UNCHANGED <<members, publisher>>

(* A key frame reaches everyone who asked to watch. *)
KeyFrame ==
  /\ publisher # NULL
  /\ view' = [c \in Client |-> IF view[c] = "waiting" THEN "watching" ELSE view[c]]
  /\ UNCHANGED <<members, publisher>>

Leave(c) ==
  /\ c \in members
  /\ members' = members \ {c}
  /\ publisher' = IF c = publisher THEN NULL ELSE publisher
  /\ view' = [d \in Client |-> CASE d = c -> "off"
                                 [] d # c /\ c = publisher /\ view[d] = "watching" -> "waiting"
                                 [] OTHER -> view[d]]

Next ==
  \/ KeyFrame
  \/ \E c \in Client : Join(c) \/ Publish(c) \/ Watch(c) \/ Pause(c) \/ Leave(c)

Spec == Init /\ [][Next]_vars
=============================================================================
