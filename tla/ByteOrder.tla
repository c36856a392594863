------------------------------- MODULE ByteOrder -------------------------------
(***************************************************************************)
(* Numbers on the wire.  svrio.c and tx_io.c write a short or a long byte  *)
(* by byte; toshort() and tolong() of byteorder.c put it together again.   *)
(* The integers of the host keep their widths and their signs: a short has *)
(* two bytes, an int four, a long eight (LP64), and on the wire a long has *)
(* four.  BYTE is the number of values of a byte, 256 in the code.         *)
(***************************************************************************)
EXTENDS Integers, Sequences

CONSTANT BYTE

ASSUME ByteAssumption == BYTE \in Nat \ {0, 1} /\ BYTE % 2 = 0

SHORT == BYTE * BYTE
INT == SHORT * SHORT

\* The number n stored in a signed integer that has w values.
Signed(n, w) == IF n % w < w \div 2 THEN n % w ELSE (n % w) - w

\* svrwrites, tx_writes: the low byte first.
writes(n) == <<n % BYTE, (n \div BYTE) % BYTE>>

\* svrwritel, tx_writel: the low half first.
writel(n) == writes(n % SHORT) \o writes((n \div SHORT) % SHORT)

\* Mutants: the second byte is a signed char, or is left out.
toshort_signed(b) == b[1] + Signed(b[2], BYTE) * BYTE
toshort_low(b) == b[1]

\* An unsigned short; as an int it is never negative.
toshort(b) == b[1] + b[2] * BYTE

\* The upper half is shifted as an int, whose sign goes into the long.
tolong(b) == Signed(toshort(b) + toshort(<<b[3], b[4]>>) * SHORT, INT)
================================================================================
