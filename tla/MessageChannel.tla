--------------------------- MODULE MessageChannel ---------------------------
(***************************************************************************)
(* What the chunk layer of rtmpserver-master/main.cc is for: the messages   *)
(* of a connection are handled one by one, unchanged and in the order in    *)
(* which their senders completed them, until a handler or a header check    *)
(* throws.  After that nothing is promised: recv_from_client() leaves the   *)
(* message in its buffer.  RtmpChunk is shown to implement this.            *)
(***************************************************************************)
EXTENDS Naturals, Sequences

VARIABLES
  sent,      \* the messages, in order of completion
  handled,   \* the messages given to handle_message
  refused    \* an exception has been thrown

vars == <<sent, handled, refused>>

Init == sent = <<>> /\ handled = <<>> /\ refused = FALSE

(* Any message may be the next. *)
Send ==
  /\ Len(sent') = Len(sent) + 1
  /\ \A k \in 1..Len(sent) : sent'[k] = sent[k]
  /\ UNCHANGED <<handled, refused>>

Handle ==
  /\ ~refused
  /\ Len(handled) < Len(sent)
  /\ handled' = Append(handled, sent[Len(handled) + 1])
  /\ UNCHANGED <<sent, refused>>

Refuse == refused' = TRUE /\ UNCHANGED <<sent, handled>>

Unspecified == refused /\ refused'

Next == Send \/ Handle \/ Refuse \/ Unspecified

(* Every message is handled, unless one was refused. *)
Spec == Init /\ [][Next]_vars /\ WF_vars(Handle)
=============================================================================
