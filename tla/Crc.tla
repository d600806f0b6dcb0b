-------------------------------- MODULE Crc --------------------------------
(***************************************************************************)
(* GetCrc32 and GetStreamSize in helpers/crc.cpp: the file is opened with  *)
(* exceptions on badbit and failbit, its size is measured by seeking to    *)
(* the end and back, and it is read in BUFFER_SIZE chunks that are fed to  *)
(* boost::crc_32_type until the measured size is used up.  Any exception   *)
(* becomes a FileAccessError.                                              *)
(*                                                                         *)
(* boost::crc_32_type is the reflected CRC with an all-ones initial value  *)
(* and final xor; its register is modelled at Width bits with the          *)
(* reflected polynomial RefPoly (32 and 0xEDB88320 in the code).           *)
(***************************************************************************)
EXTENDS Integers, Sequences, SequencesExt

CONSTANTS
  Width,       \* bits of the CRC register
  RefPoly,     \* generator polynomial, reflected, without the x^Width term
  BufferSize,  \* BUFFER_SIZE
  Files        \* contents a file may have: sequences of bytes

ASSUME Width \in Nat \ {0} /\ BufferSize \in Nat \ {0}

VARIABLES
  exists,     \* the file can be opened
  file,       \* its bytes
  pos,        \* the stream's read position (tellg)
  bytesLeft,  \* bytesLeft
  processed,  \* the bytes fed to result.process_bytes, in order
  pc,         \* "open", "size", "loop", "done" or "threw"
  ioFailed,   \* history: a read of the stream failed (badbit)
  rewritten,  \* history: another program rewrote the file during the call
  truncated   \* history: ... to fewer bytes than the loop still had to read

vars == <<exists, file, pos, bytesLeft, processed, pc, ioFailed, rewritten, truncated>>

AllOnes == 2^Width - 1

MaxFileSize == Max({Len(f) : f \in Files})

Bytes == UNION {Range(f) : f \in Files}

\* Exclusive or of two k-bit numbers.
RECURSIVE XorBits(_, _, _)
XorBits(x, y, k) ==
  IF k = 0 THEN 0 ELSE ((x + y) % 2) + 2 * XorBits(x \div 2, y \div 2, k - 1)

XorW(x, y) == XorBits(x, y, Width)

\* k steps of the register: shift right, xoring the polynomial whenever
\* a 1 drops out.
RECURSIVE ShiftRegister(_, _)
ShiftRegister(x, k) ==
  IF k = 0 THEN x
  ELSE ShiftRegister(IF x % 2 = 1 THEN XorW(x \div 2, RefPoly) ELSE x \div 2, k - 1)

\* process_bytes for one byte: xor it into the low end of the register,
\* then eight steps.
ProcessByte(r, b) == ShiftRegister(XorW(r, b), 8)

ProcessBytes(r, bytes) == FoldLeft(ProcessByte, r, bytes)

\* result.checksum(): the register with the final xor.
Checksum(r) == XorW(r, AllOnes)

\* The register of result: the initial value, then every processed byte.
Register == ProcessBytes(AllOnes, processed)

(***************************************************************************)
(* Reference: the CRC as the remainder of a polynomial division over       *)
(* GF(2).  The message is the bytes' bits, least significant first, as     *)
(* coefficients from the highest degree down; the dividend is              *)
(* x^Width * M(x) + x^n * I(x) with I all ones; the remainder, reflected   *)
(* and xored with all ones, is the checksum.                               *)
(***************************************************************************)
ByteBits(b) == [i \in 1..8 |-> (b \div 2^(i - 1)) % 2]

PolyBits == <<1>> \o [k \in 1..Width |-> (RefPoly \div 2^(k - 1)) % 2]

RECURSIVE PolyRem(_)
PolyRem(s) ==
  IF Len(s) <= Width THEN s
  ELSE IF Head(s) = 0 THEN PolyRem(Tail(s))
  ELSE PolyRem(Tail([k \in 1..Len(s) |->
                       IF k <= Width + 1 THEN (s[k] + PolyBits[k]) % 2 ELSE s[k]]))

CrcRef(bytes) ==
  LET m   == FoldLeft(LAMBDA acc, b : acc \o ByteBits(b), <<>>, bytes)
      v   == [k \in 1..Len(m) + Width |->
                LET c == IF k <= Len(m) THEN m[k] ELSE 0
                IN  IF k <= Width THEN 1 - c ELSE c]
      rem == PolyRem(v)
  IN  FoldLeft(LAMBDA acc, k : acc + (1 - rem[k]) * 2^(k - 1), 0, [k \in 1..Width |-> k])

----------------------------------------------------------------------------

Init ==
  /\ exists \in BOOLEAN
  /\ file \in Files
  /\ pos = 0
  /\ bytesLeft = 0
  /\ processed = <<>>
  /\ pc = "open"
  /\ ioFailed = FALSE
  /\ rewritten = FALSE
  /\ truncated = FALSE

\* std::ifstream ifile(filename) and ifile.exceptions(badbit | failbit):
\* setting the mask on a stream that failed to open throws at once.
Open ==
  /\ pc = "open"
  /\ pc' = IF exists THEN "size" ELSE "threw"
  /\ UNCHANGED <<exists, file, pos, bytesLeft, processed, ioFailed, rewritten, truncated>>

\* Mutant: the stream is left at the end after measuring it.
GetStreamSizeNoRestore ==
  /\ pc = "size"
  /\ bytesLeft' = Len(file)
  /\ pos' = Len(file)
  /\ pc' = "loop"
  /\ UNCHANGED <<exists, file, processed, ioFailed, rewritten, truncated>>

\* GetStreamSize: tellg, seekg to the end, tellg, seekg back.
GetStreamSize ==
  /\ pc = "size"
  /\ bytesLeft' = Len(file)
  /\ pos' = pos
  /\ pc' = "loop"
  /\ UNCHANGED <<exists, file, processed, ioFailed, rewritten, truncated>>

\* Mutant: the last, partial chunk asks for one byte too few.
ChunkSizeOffByOne(left) == IF left > BufferSize THEN BufferSize ELSE left - 1

\* How many bytes one iteration asks ifile.read for.
ChunkSize(left) == IF left > BufferSize THEN BufferSize ELSE left

\* How many bytes the next ifile.read gets: gcount.
Got == Min({ChunkSize(bytesLeft), Len(file) - pos})

\* Mutant: bytesLeft is decreased by the buffer's size, not by gcount.
ReadChunkSubtractBuffer ==
  /\ pc = "loop"
  /\ bytesLeft > 0
  /\ Got = ChunkSize(bytesLeft)
  /\ processed' = processed \o SubSeq(file, pos + 1, pos + Got)
  /\ pos' = pos + Got
  /\ bytesLeft' = bytesLeft - BufferSize
  /\ UNCHANGED <<exists, file, pc, ioFailed, rewritten, truncated>>

\* One iteration of the while loop: read, process_bytes(gcount),
\* bytesLeft -= gcount.
ReadChunk ==
  /\ pc = "loop"
  /\ bytesLeft > 0
  /\ Got = ChunkSize(bytesLeft)
  /\ processed' = processed \o SubSeq(file, pos + 1, pos + Got)
  /\ pos' = pos + Got
  /\ bytesLeft' = bytesLeft - Got
  /\ UNCHANGED <<exists, file, pc, ioFailed, rewritten, truncated>>

\* A read that reaches the end of the file before the requested count
\* sets failbit, which throws before process_bytes.
ReadPastEnd ==
  /\ pc = "loop"
  /\ bytesLeft > 0
  /\ Got < ChunkSize(bytesLeft)
  /\ pc' = "threw"
  /\ UNCHANGED <<exists, file, pos, bytesLeft, processed, ioFailed, rewritten, truncated>>

\* The device fails during a read: badbit, and the read throws.
ReadFails ==
  /\ pc = "loop"
  /\ bytesLeft > 0
  /\ pc' = "threw"
  /\ ioFailed' = TRUE
  /\ UNCHANGED <<exists, file, pos, bytesLeft, processed, rewritten, truncated>>

\* The loop ends; GetCrc32 returns result.checksum().
Finish ==
  /\ pc = "loop"
  /\ bytesLeft = 0
  /\ pc' = "done"
  /\ UNCHANGED <<exists, file, pos, bytesLeft, processed, ioFailed, rewritten, truncated>>

\* Another program (a mod manager, an editor) rewrites the open file with
\* other content, once per call: the stream shares the file with writers.
Rewrite ==
  /\ pc \in {"size", "loop"}
  /\ ~rewritten
  /\ \E f \in Files \ {file} :
       /\ file' = f
       /\ truncated' = (pc = "loop" /\ Len(f) < pos + bytesLeft)
  /\ rewritten' = TRUE
  /\ UNCHANGED <<exists, pos, bytesLeft, processed, pc, ioFailed>>

Next == Open \/ GetStreamSize \/ ReadChunk \/ ReadPastEnd \/ ReadFails \/ Finish
          \/ Rewrite

\* GetCrc32 runs on the caller's thread from start to return: each of its
\* own steps is taken once enabled.  A device failure is never forced.
Spec == Init /\ [][Next]_vars /\ WF_vars(Open \/ GetStreamSize \/ ReadChunk \/ ReadPastEnd \/ Finish)

----------------------------------------------------------------------------

TypeOK ==
  /\ exists \in BOOLEAN
  /\ file \in Files
  /\ pos \in 0..MaxFileSize
  /\ bytesLeft \in 0..MaxFileSize
  /\ processed \in Seq(Bytes)
  /\ pc \in {"open", "size", "loop", "done", "threw"}
  /\ ioFailed \in BOOLEAN
  /\ rewritten \in BOOLEAN
  /\ truncated \in BOOLEAN

\* GetCrc32 returns the CRC of the whole file, whatever the file's size is
\* relative to BUFFER_SIZE (none, less, a multiple or a remainder) when no
\* other program wrote it meanwhile, and throws FileAccessError only when
\* the file cannot be opened, a read fails or the file was truncated under
\* the loop, never because the loop itself read past the end.
GetCrc32Correct ==
  /\ (pc = "done" /\ ~rewritten) => Checksum(Register) = CrcRef(file)
  /\ pc = "threw" => ~exists \/ ioFailed \/ truncated

\* Every call of GetCrc32 returns or throws: the loop never spins.
GetCrc32Terminates == <>(pc \in {"done", "threw"})

=============================================================================
