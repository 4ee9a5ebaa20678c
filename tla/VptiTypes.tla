----------------------------- MODULE VptiTypes -----------------------------
(***************************************************************************)
(* The vocabulary of include/types.h shared by the other modules.  A       *)
(* request and a response have the same shape in the code: a code byte     *)
(* (the command, or the status), a data_length and the data.               *)
(***************************************************************************)
EXTENDS Integers, Sequences

\* enum status
StatusOK        == 0
StatusError     == 1
StatusMalformed == 2

Message(code, data) == [code |-> code, len |-> Len(data), data |-> data]

\* request() and response(): value initialisation, data a null pointer.
NullMessage == Message(0, << >>)

=============================================================================
