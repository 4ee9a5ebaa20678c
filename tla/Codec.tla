------------------------------- MODULE Codec -------------------------------
(***************************************************************************)
(* The byte order conversions of testing_communication that frame every    *)
(* request and response: a length is sent as four digits, most significant *)
(* first.  The code's digits are bytes, so Radix is 256 there; TLC uses a  *)
(* smaller Radix, and the theorems of CodecProofs hold for all of them.    *)
(***************************************************************************)
EXTENDS Integers, Sequences

CONSTANT Radix      \* number of values of one byte (256 in the code)

\* A byte holds at least the three status codes.
ASSUME RadixAssumption == Radix \in Nat /\ Radix > 2

Byte == 0 .. Radix - 1

R2 == Radix * Radix
R3 == R2 * Radix
R4 == R3 * Radix

\* The values of a uint32_t.
UInt32 == 0 .. R4 - 1

\* buffer[start .. start+3] = value >> 24, >> 16, >> 8, >> 0, each & 0xFF.
Int32ToBytes(value) ==
    << (value \div R3) % Radix,
       (value \div R2) % Radix,
       (value \div Radix) % Radix,
       value % Radix >>

\* The four digits of buffer from index start + 1 on, put together again.
BytesToInt32(buffer, start) ==
    buffer[start + 1] * R3 + buffer[start + 2] * R2
        + buffer[start + 3] * Radix + buffer[start + 4]

=============================================================================
