---------------------------- MODULE TpMemoryProofs ----------------------------
(***************************************************************************)
(* Proofs about the typed buffers.  The inductive invariant, WellGuarded,  *)
(* adds to the agreement of the two guards that they are at the ends of a  *)
(* block of just the size they tell: only then does tprealloc() copy from, *)
(* and the program write to, units that lie between them.  What the proof  *)
(* comes down to is that ALLOC_UNITS() rounds up.                          *)
(***************************************************************************)
EXTENDS TpMemory, TLAPS

\* Division rounds down, by less than a unit.
LEMMA Quotient ==
    ASSUME NEW a \in Nat, NEW u \in Nat \ {0}
    PROVE  /\ a \div u \in Nat
           /\ u * (a \div u) <= a
           /\ a < u * (a \div u) + u
  BY SMT

\* Multiples of a unit are in the order of what is multiplied.
LEMMA Multiples ==
    ASSUME NEW a \in Nat, NEW b \in Nat, NEW u \in Nat \ {0}, u * a < u * b
    PROVE  a < b
  BY SMT

\* ALLOC_UNITS leaves room for the two guards, and every byte of a buffer is in a unit
\* between them.
LEMMA UnitInside ==
    ASSUME NEW s \in Nat
    PROVE  /\ ALLOC_UNITS(s) \in Nat /\ ALLOC_UNITS(s) >= 2
           /\ \A i \in Nat : i < s => UnitOf(i) \in 1 .. ALLOC_UNITS(s) - 2
<1>1. UNIT \in Nat \ {0}
  BY TpMemoryConstants
<1>2. PICK n \in Nat : n = (s + UNIT - 1) \div UNIT /\ s + UNIT - 1 < UNIT * n + UNIT
  <2>1. s + UNIT - 1 \in Nat
    BY <1>1
  <2> QED
    BY <1>1, <2>1, Quotient
<1>3. ALLOC_UNITS(s) = n + 2
  BY <1>2 DEF ALLOC_UNITS
<1>4. ASSUME NEW i \in Nat, i < s PROVE UnitOf(i) \in 1 .. n
  <2>1. PICK q \in Nat : q = i \div UNIT /\ UNIT * q <= i
    BY <1>1, Quotient
  <2>2. UNIT * q < UNIT * n
    <3>1. UNIT * q \in Nat /\ UNIT * n \in Nat
      BY <1>1
    <3> QED
      BY <1>1, <1>2, <1>4, <2>1, <3>1
  <2>3. q < n
    BY <1>1, <2>2, Multiples
  <2> QED
    BY <2>1, <2>3 DEF UnitOf
<1> QED
  BY <1>3, <1>4

\* What is known of a block of the program's.
Fits(b, len) ==
    /\ b \in Block(len)
    /\ b[0] = Guard(len) /\ b[ALLOC_UNITS(len) - 1] = Guard(len)

\* The guards of a block that fits are in place and agree.
LEMMA FitsAgree ==
    ASSUME NEW b, NEW len \in Size, Fits(b, len)
    PROVE  IS_MAGIC(b) /\ Agree(b) /\ b[0].len = len
<1>1. ALLOC_UNITS(len) \in Nat /\ ALLOC_UNITS(len) >= 2
  BY UnitInside, TpMemoryConstants DEF Size
<1>2. b[0].len = len
  BY DEF Fits, Guard
<1>3. ALLOC_UNITS(len) - 1 \in DOMAIN b
  BY <1>1 DEF Fits, Block
<1>4. 0 \in DOMAIN b
  BY <1>1 DEF Fits, Block
<1>5. b[0].kind = "guard"
  BY DEF Fits, Guard
<1> QED
  BY <1>2, <1>3, <1>4, <1>5 DEF Agree, Fits, IS_MAGIC

\* tpalloc and tprealloc make a block that fits, and keep the units of the old one that
\* are not where the guards are.
LEMMA Made ==
    ASSUME NEW size \in Size, NEW b, \A i \in DOMAIN b : b[i] \in Unit
    PROVE  /\ Fits(Guarded(Units(ALLOC_UNITS(size), b), size), size)
           /\ \A i \in 1 .. ALLOC_UNITS(size) - 2 :
                 i \in DOMAIN b => Guarded(Units(ALLOC_UNITS(size), b), size)[i] = b[i]
<1> DEFINE n == ALLOC_UNITS(size)
           u == Units(n, b)
<1>1. n \in Nat /\ n >= 2
  BY UnitInside, TpMemoryConstants DEF Size
<1>2. Guard(size) \in Unit /\ Junk \in Unit
  BY DEF Unit
<1>3. u \in [0 .. n - 1 -> Unit] /\ \A i \in 0 .. n - 1 : i \in DOMAIN b => u[i] = b[i]
  <2> HIDE DEF n
  <2> QED
    BY <1>2 DEF Units
<1>4. 0 \in 0 .. n - 1 /\ n - 1 \in 0 .. n - 1 /\ n - 1 # 0
  BY <1>1
<1>5. PICK g : g = [u EXCEPT ![0] = Guard(size), ![n - 1] = Guard(size)]
  OBVIOUS
<1>6. g \in [0 .. n - 1 -> Unit] /\ g[0] = Guard(size) /\ g[n - 1] = Guard(size)
      /\ \A i \in 0 .. n - 1 : i # 0 /\ i # n - 1 => g[i] = u[i]
  <2> HIDE DEF n, u
  <2> QED
    BY <1>2, <1>3, <1>4, <1>5
<1>7. g = Guarded(u, size)
  BY <1>5 DEF Guarded
<1>8. \A i \in 1 .. n - 2 : i \in 0 .. n - 1 /\ i # 0 /\ i # n - 1
  BY <1>1
<1>9. Fits(g, size)
  BY <1>6 DEF Fits, Block
<1>10. \A i \in 1 .. n - 2 : i \in DOMAIN b => g[i] = b[i]
  <2> HIDE DEF n, u
  <2> QED
    BY <1>3, <1>6, <1>8
<1> QED
  BY <1>7, <1>9, <1>10

\* A block of the program's fits the length in its guards.
LEMMA Owns ==
    ASSUME WellGuarded, NEW p \in owned
    PROVE  \E len \in Size : Fits(block[p], len)
  BY DEF WellGuarded, Fits

\* A block that fits is a block.
LEMMA FitsIn ==
    ASSUME NEW b, NEW len \in Size, Fits(b, len)
    PROVE  b \in Blocks
  BY DEF Fits, Blocks

\* At the start the program has no block.
LEMMA InitGuarded == Init => WellGuarded
<1>1. <<>> \in Blocks
  BY DEF Blocks
<1> QED
  BY <1>1 DEF Init, WellGuarded

\* tpalloc makes a well-guarded block.
LEMMA tpallocGuarded ==
    ASSUME WellGuarded, NEW p \in Ptr, NEW size \in Size, tpalloc(p, size)
    PROVE  WellGuarded'
<1>1. PICK b : b = Guarded(Units(ALLOC_UNITS(size), <<>>), size)
  OBVIOUS
<1>2. Fits(b, size) /\ b \in Blocks
  <2>1. \A i \in DOMAIN <<>> : <<>>[i] \in Unit
    OBVIOUS
  <2> QED
    BY <1>1, <2>1, Made, FitsIn
<1>3. block' = [block EXCEPT ![p] = b] /\ owned' = owned \cup {p} /\ failed' = failed
  BY <1>1 DEF tpalloc
<1>4. block' \in [Ptr -> Blocks] /\ block'[p] = b /\ \A r \in Ptr : r # p => block'[r] = block[r]
  BY <1>2, <1>3 DEF WellGuarded
<1>5. \A r \in owned' : \E len \in Size : Fits(block'[r], len)
  BY <1>2, <1>3, <1>4, Owns DEF WellGuarded
<1> QED
  BY <1>3, <1>4, <1>5 DEF WellGuarded, Fits

\* tprealloc makes the block well guarded at its new size, wherever it goes.
LEMMA tpreallocGuarded ==
    ASSUME WellGuarded, NEW p \in Ptr, NEW q \in Ptr, NEW size \in Size, tprealloc(p, q, size)
    PROVE  WellGuarded'
<1>1. PICK b : b = Guarded(Units(ALLOC_UNITS(size), block[p]), size)
  OBVIOUS
<1>2. PICK len \in Size : Fits(block[p], len)
  BY Owns DEF tprealloc
<1>3. Fits(b, size) /\ b \in Blocks /\ <<>> \in Blocks
  <2>1. \A i \in DOMAIN block[p] : block[p][i] \in Unit
    BY <1>2 DEF Fits, Block
  <2> QED
    BY <1>1, <2>1, Made, FitsIn DEF Blocks
<1>4. block' = [block EXCEPT ![p] = <<>>, ![q] = b] /\ owned' = (owned \ {p}) \cup {q} /\ ~failed'
  BY <1>1, <1>2, FitsAgree DEF tprealloc, WellGuarded
<1>5. /\ block' \in [Ptr -> Blocks] /\ block'[q] = b
      /\ \A r \in Ptr : r # p /\ r # q => block'[r] = block[r]
  BY <1>3, <1>4 DEF WellGuarded
<1>6. \A r \in owned' : \E n \in Size : Fits(block'[r], n)
  BY <1>3, <1>4, <1>5, Owns DEF WellGuarded
<1> QED
  BY <1>4, <1>5, <1>6 DEF WellGuarded, Fits

\* tpfree takes a block from the program.
LEMMA tpfreeGuarded ==
    ASSUME WellGuarded, NEW p \in Ptr, tpfree(p)
    PROVE  WellGuarded'
<1>1. IS_MAGIC(block[p]) /\ Agree(block[p])
  BY Owns, FitsAgree DEF tpfree
<1>2. block' = [block EXCEPT ![p] = <<>>] /\ owned' = owned \ {p} /\ ~failed'
  BY <1>1 DEF tpfree, WellGuarded
<1>3. block' \in [Ptr -> Blocks] /\ \A r \in Ptr : r # p => block'[r] = block[r]
  <2>1. <<>> \in Blocks
    BY DEF Blocks
  <2> QED
    BY <1>2, <2>1 DEF WellGuarded
<1>4. \A r \in owned' : \E n \in Size : Fits(block'[r], n)
  BY <1>2, <1>3, Owns DEF WellGuarded
<1> QED
  BY <1>2, <1>3, <1>4 DEF WellGuarded, Fits

\* tptypes changes nothing.
LEMMA tptypesGuarded ==
    ASSUME WellGuarded, NEW p \in Ptr, tptypes(p)
    PROVE  WellGuarded'
<1>1. Agree(block[p])
  BY Owns, FitsAgree DEF tptypes
<1> QED
  BY <1>1 DEF tptypes, WellGuarded

\* A program that writes inside its buffer writes no guard.
LEMMA WriteGuarded ==
    ASSUME WellGuarded, NEW p \in Ptr, NEW i \in Size, NEW v \in Value, Write(p, i, v)
    PROVE  WellGuarded'
<1>1. PICK len \in Size : Fits(block[p], len)
  BY Owns DEF Write
<1>2. PICK n \in Nat : n = ALLOC_UNITS(len) /\ n >= 2 /\ UnitOf(i) \in 1 .. n - 2
  <2>1. i < len
    BY <1>1, FitsAgree DEF Write
  <2>2. i \in Nat /\ len \in Nat
    BY TpMemoryConstants DEF Size
  <2>3. /\ ALLOC_UNITS(len) \in Nat /\ ALLOC_UNITS(len) >= 2
        /\ UnitOf(i) \in 1 .. ALLOC_UNITS(len) - 2
    BY <2>1, <2>2, UnitInside
  <2> QED
    BY <2>3, Zenon
<1>3. PICK b : b = [block[p] EXCEPT ![UnitOf(i)] = Datum(v)]
  OBVIOUS
<1>4. Fits(b, len)
  <2>1. block[p] \in [0 .. n - 1 -> Unit] /\ block[p][0] = Guard(len) /\ block[p][n - 1] = Guard(len)
    BY <1>1, <1>2 DEF Fits, Block
  <2>2. UnitOf(i) # 0 /\ UnitOf(i) # n - 1 /\ 0 \in 0 .. n - 1 /\ n - 1 \in 0 .. n - 1
    BY <1>2
  <2>3. Datum(v) \in Unit
    BY DEF Unit
  <2>4. b \in [0 .. n - 1 -> Unit] /\ b[0] = Guard(len) /\ b[n - 1] = Guard(len)
    BY <1>3, <2>1, <2>2, <2>3
  <2> QED
    BY <1>2, <2>4 DEF Fits, Block
<1>5. block' = [block EXCEPT ![p] = b] /\ owned' = owned /\ failed' = failed
  BY <1>3 DEF Write
<1>6. block' \in [Ptr -> Blocks] /\ block'[p] = b /\ \A r \in Ptr : r # p => block'[r] = block[r]
  BY <1>4, <1>5, FitsIn DEF WellGuarded
<1>7. \A r \in owned' : \E m \in Size : Fits(block'[r], m)
  BY <1>4, <1>5, <1>6, Owns DEF WellGuarded
<1> QED
  BY <1>5, <1>6, <1>7 DEF WellGuarded, Fits

\* Every step keeps the blocks well guarded.
LEMMA NextGuarded == WellGuarded /\ [Next]_vars => WellGuarded'
<1>1. WellGuarded /\ UNCHANGED vars => WellGuarded'
  BY DEF WellGuarded, vars
<1> QED
  BY <1>1, tpallocGuarded, tpreallocGuarded, tpfreeGuarded, tptypesGuarded, WriteGuarded DEF Next

\* Every block of the program's has at both ends a guard with its own length, for any
\* sizes, any size of a unit and any number of buffers.
THEOREM AlwaysWellGuarded == Spec => []WellGuarded
  BY InitGuarded, NextGuarded, PTL DEF Spec

\* The assertions of tprealloc, tpfree and tptypes hold for every buffer of tpalloc's
\* outside of which the program has not written.
THEOREM AlwaysGuardsAgree == Spec => []GuardsAgree
<1>1. WellGuarded => GuardsAgree
  BY Owns, FitsAgree DEF WellGuarded, GuardsAgree
<1> QED
  BY <1>1, AlwaysWellGuarded, PTL

\* tprealloc keeps the bytes that are in both the old and the new buffer.
LEMMA ReallocKeeps ==
    ASSUME WellGuarded, NEW p \in Ptr, NEW q \in Ptr, NEW size \in Size, tprealloc(p, q, size),
           NEW i \in 0 .. Min({size, block[p][0].len}) - 1
    PROVE  block'[q][UnitOf(i)] = block[p][UnitOf(i)]
<1>1. PICK len \in Size : Fits(block[p], len)
  BY Owns DEF tprealloc
<1>2. block[p][0].len = len
  BY <1>1, FitsAgree
<1>3. size \in Nat /\ len \in Nat
  BY TpMemoryConstants DEF Size
<1>4. Min({size, len}) <= size /\ Min({size, len}) <= len /\ Min({size, len}) \in {size, len}
  <2>1. \E x \in {size, len} : \A y \in {size, len} : x =< y
    BY <1>3
  <2> QED
    BY <2>1 DEF Min
<1>5. i \in Nat /\ i < size /\ i < len
  BY <1>2, <1>3, <1>4
<1>6. PICK k : k = UnitOf(i)
  OBVIOUS
<1>7. k \in 1 .. ALLOC_UNITS(size) - 2 /\ k \in DOMAIN block[p]
  <2>1. k \in 1 .. ALLOC_UNITS(size) - 2
    BY <1>3, <1>5, <1>6, UnitInside
  <2>2. k \in 0 .. ALLOC_UNITS(len) - 1
    BY <1>3, <1>5, <1>6, UnitInside
  <2> QED
    BY <1>1, <2>1, <2>2 DEF Fits, Block
<1>8. PICK b : b = Guarded(Units(ALLOC_UNITS(size), block[p]), size)
  OBVIOUS
<1>9. b[k] = block[p][k]
  <2>1. \A j \in DOMAIN block[p] : block[p][j] \in Unit
    BY <1>1 DEF Fits, Block
  <2> QED
    BY <1>7, <1>8, <2>1, Made
<1>10. block'[q] = b
  BY <1>8 DEF tprealloc, WellGuarded
<1> QED
  BY <1>6, <1>9, <1>10

\* tprealloc keeps the data of a buffer, up to the smaller of the two sizes.
THEOREM ReallocKeepsData == Spec => DataKept
<1>1. WellGuarded => \A p, q \in Ptr : \A size \in Size :
          tprealloc(p, q, size) =>
              \A i \in 0 .. Min({size, block[p][0].len}) - 1 :
                  block'[q][UnitOf(i)] = block[p][UnitOf(i)]
  BY ReallocKeeps
<1> QED
  BY <1>1, AlwaysWellGuarded, PTL DEF DataKept
================================================================================
