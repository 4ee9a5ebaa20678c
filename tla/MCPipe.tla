------------------------------- MODULE MCPipe -------------------------------
(***************************************************************************)
(* Constants for the model checker.  A byte has four values, a pipe holds  *)
(* little more than one header, so that the longer payloads do not fit and *)
(* every write and read of data may be partial.                            *)
(***************************************************************************)
EXTENDS Pipe

MCReady == <<3, 3, 3, 3, 3, 0>>

MCRequests == {Message(1, << >>), Message(2, <<1, 3>>), Message(0, <<0, 2, 1>>)}
MCAnswers  == {Message(StatusOK, << >>), Message(StatusOK, <<0, 3>>),
               Message(StatusOK, <<2, 1, 0>>), Message(StatusError, << >>),
               Message(StatusMalformed, << >>)}

\* A transfer that is longer than the pipe.
LongRequests == {Message(1, << >>), Message(3, <<1, 2, 3, 0, 1, 2, 3, 0>>)}
LongAnswers  == {Message(StatusOK, << >>), Message(StatusError, << >>),
                 Message(StatusOK, <<0, 1, 2, 3, 0, 1, 2, 3>>)}

AllRequests == MCRequests \cup LongRequests
AllAnswers  == MCAnswers \cup LongAnswers

CleanFailing == {"c_recv_data", "s_recv_header", "s_recv_data"}
AllFailing   == CleanFailing \cup {"c_send_header", "c_send_data", "c_recv_header",
                                   "s_send_header", "s_send_data"}

\* Payloads of one byte: KILL has one, and CONTINUE answers with one for an
\* event without additional data.
ByteRequests == {Message(0, << >>), Message(1, <<1>>)}
ByteAnswers  == {Message(StatusOK, << >>), Message(StatusOK, <<2>>)}

\* GET_RETURN_CODE and GET_CPU_PC add the data whatever the status.
ErrorAnswers == {Message(StatusOK, <<0, 0>>), Message(StatusError, <<0, 0, 0, 0, 0, 0, 0, 0>>)}

=============================================================================
