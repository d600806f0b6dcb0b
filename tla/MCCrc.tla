------------------------------- MODULE MCCrc -------------------------------
(***************************************************************************)
(* GetCrc32 with an 8-bit register (reflected polynomial 0xE0, that is     *)
(* x^8 + x^2 + x + 1), a two-byte buffer, and every file of up to four     *)
(* bytes drawn from 0, 1 and 255 (no bit, the low bit, every bit set).     *)
(* Another program may rewrite the file once during the call.              *)
(***************************************************************************)
EXTENDS Crc

MCFiles == SeqOf({0, 1, 255}, 4)

=============================================================================
