---------------------------- MODULE MCRtspServer ----------------------------
(* One client alone plays over UDP and over TCP, plays twice, asks on while media  *)
(* flows, and asks twice at once; the other asks what is refused, or plays a file  *)
(* that is not there; and the two come together, one to play over either           *)
(* transport, as it does without a SETUP, the other to ask.                       *)
EXTENDS RtspServer

CONSTANTS a, b

Asks(x, y) == [c \in {a, b} |-> IF c = a THEN x ELSE y]
MCScript == {Asks(<<"SETUP_UDP", "PLAY">>, <<>>),
             Asks(<<"SETUP_TCP", "PLAY", "OTHER">>, <<>>),
             Asks(<<"PLAY", "PLAY">>, <<>>),
             Asks(<<"OTHER", "OTHER">>, <<"unknown">>),
             Asks(<<>>, <<"OPTIONS">>), Asks(<<>>, <<"PLAY">>),
             Asks(<<"PLAY">>, <<"OTHER">>)}
=============================================================================
