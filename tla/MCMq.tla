-------------------------------- MODULE MCMq --------------------------------
(***************************************************************************)
(* Constants for the model checker.  Queues of one or two messages, and    *)
(* messages of up to one byte of data: what matters is whose they are, in  *)
(* which order they are taken, and whether they fit.                       *)
(***************************************************************************)
EXTENDS Mq

CONSTANTS c1, c2, v1, v2, v3

MCReady == Message(114, <<101, 97, 100, 121>>)

MCRequests == {Message(0, << >>), Message(2, <<1>>)}
MCAnswers  == {Message(StatusOK, << >>), Message(StatusOK, <<2>>), Message(StatusError, << >>)}

\* One request and one answer are of six bytes, more than a message may have.
LongRequests == {Message(0, << >>), Message(2, <<1, 1, 1, 1, 1>>)}
LongAnswers  == {Message(StatusOK, << >>), Message(StatusOK, <<2, 2, 2, 2, 2>>)}

OneForAll == [c \in Clients |-> {v1, v2}]
OneEach   == [c \in Clients |-> IF c = c1 THEN {v1} ELSE {v2}]
SomeEach  == [c \in Clients |-> IF c = c1 THEN {v1, v3} ELSE {v2}]

=============================================================================
