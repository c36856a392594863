------------------------------- MODULE TpMemory -------------------------------
(***************************************************************************)
(* The typed buffers of the XATMI library.  A buffer of size bytes is a    *)
(* block of units as large as a struct tpmemory: a guard, the data, and a  *)
(* second guard that repeats the first.  The program gets the address of   *)
(* the data and may write all of it; tpalloc, tprealloc, tpfree and        *)
(* tptypes find the guards from that address and assert that they agree.   *)
(*                                                                         *)
(* A unit holds a guard, data of the program, or what malloc() found       *)
(* there.  Type and subtype are always the empty string and are left out.  *)
(* The program passes the addresses of its own buffers and no others:      *)
(* given a null or unguarded pointer tprealloc and tptypes refuse, while   *)
(* tpfree aborts.  A call that is refused (a negative size, no memory)     *)
(* changes no block and is no step of its own.                             *)
(***************************************************************************)
EXTENDS Naturals, FiniteSetsExt

CONSTANTS
    Ptr,        \* addresses
    UNIT,       \* sizeof(struct tpmemory)
    MaxSize,    \* bound: the largest buffer
    Value       \* what the program writes

ASSUME TpMemoryConstants == UNIT \in Nat \ {0} /\ MaxSize \in Nat

VARIABLES
    block,   \* the units of the block at each address
    owned,   \* the addresses of the program's buffers
    failed   \* an assertion has failed

vars == <<block, owned, failed>>

Guard(len) == [kind |-> "guard", len |-> len, val |-> "MAGIC"]
Datum(v) == [kind |-> "data", len |-> 0, val |-> v]
Junk == [kind |-> "junk", len |-> 0, val |-> "junk"]

\* Mutant: the size is rounded down.
ALLOC_UNITS_down(s) == s \div UNIT + 2

\* The number of units of a block.
ALLOC_UNITS(s) == (s + UNIT - 1) \div UNIT + 2

\* The unit that holds byte i of the data.
UnitOf(i) == 1 + i \div UNIT

\* A block of n units, with the units of an older block b that fit.
Units(n, b) == [i \in 0 .. n - 1 |-> IF i \in DOMAIN b THEN b[i] ELSE Junk]

\* Both guards of a block for size bytes are written.
Guarded(b, size) ==
    [b EXCEPT ![0] = Guard(size), ![ALLOC_UNITS(size) - 1] = Guard(size)]

\* The first guard is in its place.
IS_MAGIC(b) == 0 \in DOMAIN b /\ b[0].kind = "guard"

\* The assertions: the guard where the length says it is repeats the first one.
Agree(b) ==
    LET p2 == ALLOC_UNITS(b[0].len) - 1
    IN  p2 \in DOMAIN b /\ b[p2] = b[0]

Init ==
    /\ block = [p \in Ptr |-> <<>>]
    /\ owned = {}
    /\ failed = FALSE

tpalloc(p, size) ==
    /\ p \notin owned
    /\ block' = [block EXCEPT ![p] = Guarded(Units(ALLOC_UNITS(size), <<>>), size)]
    /\ owned' = owned \cup {p}
    /\ UNCHANGED failed

\* Mutant: the second guard is not written again.
tprealloc_onesided(p, q, size) ==
    /\ p \in owned /\ q \notin owned \ {p}
    /\ failed' = (failed \/ ~Agree(block[p]))
    /\ block' = [block EXCEPT ![p] = <<>>,
                              ![q] = [Units(ALLOC_UNITS(size), block[p]) EXCEPT ![0] = Guard(size)]]
    /\ owned' = (owned \ {p}) \cup {q}

\* realloc() leaves the block where it is or moves it to q.
tprealloc(p, q, size) ==
    /\ p \in owned /\ q \notin owned \ {p}
    /\ failed' = (failed \/ ~Agree(block[p]))
    /\ block' = [block EXCEPT ![p] = <<>>,
                              ![q] = Guarded(Units(ALLOC_UNITS(size), block[p]), size)]
    /\ owned' = (owned \ {p}) \cup {q}

\* Where tprealloc and tptypes test the first guard, tpfree asserts it.
tpfree(p) ==
    /\ p \in owned
    /\ failed' = (failed \/ ~IS_MAGIC(block[p]) \/ ~Agree(block[p]))
    /\ block' = [block EXCEPT ![p] = <<>>]
    /\ owned' = owned \ {p}

\* tptypes() tells the length and changes nothing else.
tptypes(p) ==
    /\ p \in owned
    /\ failed' = (failed \/ ~Agree(block[p]))
    /\ UNCHANGED <<block, owned>>

\* The program writes byte i of a buffer, and with it the unit that holds it.
Write(p, i, v) ==
    /\ p \in owned /\ i < block[p][0].len
    /\ block' = [block EXCEPT ![p][UnitOf(i)] = Datum(v)]
    /\ UNCHANGED <<owned, failed>>

Size == 0 .. MaxSize

Next ==
    \E p \in Ptr :
        \/ \E size \in Size : tpalloc(p, size) \/ \E q \in Ptr : tprealloc(p, q, size)
        \/ tpfree(p) \/ tptypes(p)
        \/ \E i \in Size : \E v \in Value : Write(p, i, v)

Spec == Init /\ [][Next]_vars

--------------------------------------------------------------------------------
\* The assertions of tprealloc, tpfree and tptypes hold: whatever the program
\* does inside its buffers, and however they grow and shrink, the guards agree.
GuardsAgree == ~failed /\ \A p \in owned : Agree(block[p])

\* tprealloc() keeps the data that both the old and the new buffer have room for.
DataKept ==
    [][\A p, q \in Ptr : \A size \in Size :
          tprealloc(p, q, size) =>
              \A i \in 0 .. Min({size, block[p][0].len}) - 1 :
                  block'[q][UnitOf(i)] = block[p][UnitOf(i)]]_vars

\* The blocks there can be: none, or one for a buffer of len bytes.
Unit == {Guard(len) : len \in Size} \cup {Datum(v) : v \in Value} \cup {Junk}
Block(len) == [0 .. ALLOC_UNITS(len) - 1 -> Unit]
Blocks == {<<>>} \cup UNION {Block(len) : len \in Size}

\* Every block of the program is as large as its guards say and has both of them in
\* place, so that no assertion fails: the inductive invariant behind GuardsAgree and
\* DataKept.
WellGuarded ==
    /\ ~failed
    /\ owned \subseteq Ptr
    /\ block \in [Ptr -> Blocks]
    /\ \A p \in owned : \E len \in Size :
          /\ block[p] \in Block(len)
          /\ block[p][0] = Guard(len)
          /\ block[p][ALLOC_UNITS(len) - 1] = Guard(len)
================================================================================
