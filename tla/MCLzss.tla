------------------------------- MODULE MCLzss -------------------------------
(* Inputs for the runs of TLC.  The bytes are 0, the blank that fills the  *)
(* ring, and one above it.                                                 *)
EXTENDS Lzss

CONSTANTS
    MaxShort,   \* inputs of every byte, up to this length
    MaxLong     \* inputs of two bytes, up to this length

MCByte == {0, 1, 2}
MCInput == BoundedSeq(MCByte, MaxShort) \cup BoundedSeq({1, 2}, MaxLong)
=============================================================================
