--------------------------- MODULE DescriptorsProofs ---------------------------
(***************************************************************************)
(* A cd leads back to its transaction.  First, what is read from the wire  *)
(* is what was written, for bytes of eight bits.  Then, equal cds are from *)
(* one filling of the list, whatever numbers rand() gives, the length of   *)
(* the list and the number of transactions: FillingsApart is not inductive *)
(* by itself, as the next cd comes from the list, so LeftApart carries it  *)
(* from one filling to the next.  Last, the composition of the two.        *)
(***************************************************************************)
EXTENDS Descriptors, WellFoundedInduction, TLAPS

\* toshort() of what svrwrites() wrote is the unsigned short of the number.
LEMMA ShortOnTheWire ==
    ASSUME BYTE = 256, NEW n \in Int
    PROVE  toshort(writes(n)) = n % 65536
<1>1. writes(n)[1] = n % 256 /\ writes(n)[2] = (n \div 256) % 256
  BY DEF writes
<1>2. (n % 256) + ((n \div 256) % 256) * 256 = n % 65536
  OBVIOUS
<1> QED
  BY <1>1, <1>2 DEF toshort

\* A long that four bytes can hold arrives as it was sent: tolong() of what
\* svrwritel() or tx_writel() wrote is the number, its sign included.
THEOREM LongsArrive ==
    ASSUME BYTE = 256, NEW n \in Int, -2147483648 <= n, n <= 2147483647
    PROVE  tolong(writel(n)) = n
<1> DEFINE lo == n % 65536
           hi == (n \div 65536) % 65536
<1>1. SHORT = 65536 /\ INT = 4294967296
  BY DEF SHORT, INT
<1>2. lo \in Int /\ hi \in Int /\ lo % 65536 = lo /\ hi % 65536 = hi
  OBVIOUS
<1>3. writel(n) = writes(lo) \o writes(hi)
  BY <1>1 DEF writel
<1>4. /\ <<writel(n)[1], writel(n)[2]>> = writes(lo)
      /\ <<writel(n)[3], writel(n)[4]>> = writes(hi)
  BY <1>3 DEF writes
<1>5. toshort(writel(n)) = lo
  <2>1. toshort(writes(lo)) = lo
    BY <1>2, ShortOnTheWire
  <2>2. writel(n)[1] = writes(lo)[1] /\ writel(n)[2] = writes(lo)[2]
    BY <1>3 DEF writes
  <2> QED
    BY <2>1, <2>2 DEF toshort
<1>6. toshort(<<writel(n)[3], writel(n)[4]>>) = hi
  BY <1>2, <1>4, ShortOnTheWire
<1>7. tolong(writel(n)) = Signed(lo + hi * 65536, 4294967296)
  BY <1>1, <1>5, <1>6 DEF tolong
<1>8. Signed(lo + hi * 65536, 4294967296) = n
  BY DEF Signed
<1> QED
  BY <1>7, <1>8

--------------------------------------------------------------------------------
TypeOK ==
    /\ free_cd \in [Index -> Int]
    /\ cdp \in Nat
    /\ live \subseteq Tran
    /\ cd \in [Tran -> Int]
    /\ fillings \in Nat
    /\ filling \in [Tran -> Nat]

PoolInv == TypeOK /\ FillingsApart /\ LeftApart

\* A set of natural numbers that is not empty has a smallest element.
LEMMA MinExists ==
    ASSUME NEW A, A \subseteq Nat, A # {}
    PROVE  Min(A) \in A
<1> DEFINE R == OpToRel(<, Nat)
<1>1. PICK x \in A : \A y \in A : ~(<<y, x>> \in R)
  BY NatLessThanWellFounded, WFMin, ZenonT(40)
<1>2. \A y \in A : ~(y < x)
  BY <1>1, ZenonT(40) DEF OpToRel
<1>3. \A y \in A : x <= y
  BY <1>2
<1> QED
  BY <1>3, ZenonT(40) DEF Min

\* The list r, of the n-th filling, with its entry i given out to t.
GivenOut(t, r, p, i, n) ==
    /\ i \in Left(r, p)
    /\ cd' = [cd EXCEPT ![t] = r[i]]
    /\ free_cd' = [r EXCEPT ![i] = 0]
    /\ cdp' = i + 1
    /\ live' = live \cup {t}
    /\ fillings' = n
    /\ filling' = [filling EXCEPT ![t] = n]
    /\ status' = "up"

\* Take() gives out an entry that is left.
LEMMA TakeFacts ==
    ASSUME NEW t \in Tran, NEW r \in [Index -> Int], NEW p \in Nat, NEW n \in Nat,
           Left(r, p) # {}, Take(t, r, p), live' = live \cup {t},
           fillings' = n, filling' = [filling EXCEPT ![t] = n], status' = "up"
    PROVE  \E i \in Index : GivenOut(t, r, p, i, n)
<1>1. Left(r, p) \subseteq Nat /\ Left(r, p) \subseteq Index
  BY CdPoolConstants DEF Left, Index
<1>2. Min(Left(r, p)) \in Left(r, p)
  BY <1>1, MinExists
<1> QED
  BY <1>1, <1>2, ZenonT(40) DEF Take, GivenOut

\* Giving out an entry of a list whose entries differ from the cds of other fillings
\* keeps the invariant.
LEMMA GivenOutInv ==
    ASSUME TypeOK, status = "up", FillingsApart,
           NEW t \in Tran, t \notin live,
           NEW r \in [Index -> Int], NEW p \in Nat, NEW i \in Index, NEW n \in Nat,
           \A k \in Left(r, p) : \A u \in live : cd[u] = r[k] => filling[u] = n,
           GivenOut(t, r, p, i, n)
    PROVE  PoolInv'
<1>0. i \in Left(r, p) /\ p <= i /\ i \in Nat /\ r[i] \in Int
  BY CdPoolConstants DEF GivenOut, Left, Index
<1>1. TypeOK'
  BY <1>0 DEF GivenOut, TypeOK
<1>2. /\ cd'[t] = r[i] /\ filling'[t] = n
      /\ \A u \in live : u # t /\ cd'[u] = cd[u] /\ filling'[u] = filling[u]
  BY DEF GivenOut, TypeOK
<1>3. FillingsApart'
  <2> SUFFICES ASSUME NEW u \in live', NEW v \in live', cd'[u] = cd'[v]
               PROVE  filling'[u] = filling'[v]
    BY DEF FillingsApart
  <2>1. u \in live \cup {t} /\ v \in live \cup {t}
    BY DEF GivenOut
  <2>2. CASE u = t /\ v = t
    BY <2>2
  <2>3. CASE u = t /\ v \in live
    BY <1>0, <1>2, <2>3
  <2>4. CASE u \in live /\ v = t
    BY <1>0, <1>2, <2>4
  <2>5. CASE u \in live /\ v \in live
    BY <1>2, <2>5 DEF FillingsApart
  <2> QED
    BY <2>1, <2>2, <2>3, <2>4, <2>5
<1>4. ASSUME NEW k \in Left(free_cd', cdp')
      PROVE  k \in Left(r, p) /\ free_cd'[k] = r[k]
  BY <1>0, <1>4, CdPoolConstants DEF GivenOut, Left, Index
<1>5. LeftApart'
  <2> SUFFICES ASSUME NEW k \in Left(free_cd', cdp'), NEW u \in live', cd'[u] = free_cd'[k]
               PROVE  filling'[u] = n
    BY DEF LeftApart, GivenOut
  <2>1. u = t \/ u \in live
    BY DEF GivenOut
  <2> QED
    BY <1>2, <1>4, <2>1
<1> QED
  BY <1>1, <1>3, <1>5 DEF PoolInv

\* Before the first transaction.
LEMMA PoolInit ==
    Init => PoolInv
BY CdPoolConstants DEF Init, PoolInv, TypeOK, FillingsApart, LeftApart, Left, Index

\* Every step keeps the invariant.
LEMMA PoolStep ==
    ASSUME PoolInv, [Next]_vars
    PROVE  PoolInv'
<1>0. TypeOK /\ FillingsApart /\ LeftApart
  BY DEF PoolInv
<1>1. CASE UNCHANGED vars
  BY <1>1 DEF PoolInv, vars, TypeOK, FillingsApart, LeftApart, Left
<1>2. ASSUME NEW t \in Tran, next_cd(t)
      PROVE  PoolInv'
  <2>1. PICK i \in Index : GivenOut(t, free_cd, cdp, i, fillings)
    BY <1>0, <1>2, TakeFacts DEF next_cd, TypeOK
  <2> QED
    BY <1>0, <1>2, <2>1, GivenOutInv DEF next_cd, TypeOK, LeftApart
<1>3. ASSUME NEW t \in Tran, refill(t)
      PROVE  PoolInv'
  <2>1. PICK f \in Filled : Left(Pruned(f), 0) # {} /\ Take(t, Pruned(f), 0)
    BY <1>3 DEF refill
  <2>2. f \in [Index -> Int]
    BY CdPoolConstants, ZenonT(40) DEF Filled
  <2>3. fillings + 1 \in Nat
    BY <1>0 DEF TypeOK
  <2>4. Pruned(f) \in [Index -> Int]
    BY <2>2 DEF Pruned
  <2>5. PICK i \in Index : GivenOut(t, Pruned(f), 0, i, fillings + 1)
    BY <1>3, <2>1, <2>3, <2>4, TakeFacts DEF refill
  <2>6. \A k \in Left(Pruned(f), 0) : \A u \in live : cd[u] # Pruned(f)[k]
    BY <2>2 DEF Left, Pruned
  <2> QED
    BY <1>0, <1>3, <2>4, <2>5, <2>6, <2>3, GivenOutInv DEF refill
<1>4. ASSUME NEW t \in Tran, overrun(t)
      PROVE  PoolInv'
  BY <1>0, <1>4 DEF PoolInv, overrun, TypeOK, FillingsApart, LeftApart
<1>5. ASSUME NEW t \in Tran, del_transaction(t)
      PROVE  PoolInv'
  BY <1>0, <1>5 DEF PoolInv, del_transaction, TypeOK, FillingsApart, LeftApart, Left
<1> QED
  BY <1>1, <1>2, <1>3, <1>4, <1>5 DEF Next

\* new_transaction() never gives out the cd of a transaction that was there when the
\* list was filled: equal cds are from one filling, for any length of the list, any
\* number of transactions and whatever numbers rand() gives.
THEOREM EqualCdsShareFilling ==
    Spec => [](FillingsApart /\ LeftApart)
<1>1. PoolInv /\ [Next]_vars => PoolInv'
  BY PoolStep
<1>2. PoolInv => FillingsApart /\ LeftApart
  BY DEF PoolInv
<1> QED
  BY PoolInit, <1>1, <1>2, PTL DEF Spec

--------------------------------------------------------------------------------
\* The list holds shorts, and a client holds the unsigned short of its cd, which
\* is not zero.
HeldInv ==
    /\ \A i \in Index : free_cd[i] \in Short \cup {0}
    /\ held \in [Tran -> Int]
    /\ \A t \in live : cd[t] \in Short \ {0} /\ held[t] = toshort(writes(cd[t]))

DInv == PoolInv /\ HeldInv

\* A short that is not zero comes back from the client as it went, and the client
\* sees a positive number.
LEMMA CdComesBack ==
    ASSUME BYTE = 256, NEW n \in Int, -32768 <= n, n <= 32767, n # 0
    PROVE  /\ toshort(writes(n)) > 0
           /\ toshort(writes(n)) \in Int
           /\ Signed(toshort(writes(toshort(writes(n)))), SHORT) = n
<1>1. n \in Int /\ n % 65536 \in Int /\ SHORT = 65536
  BY DEF SHORT
<1>2. toshort(writes(n)) = n % 65536
  BY <1>1, ShortOnTheWire
<1>3. toshort(writes(n % 65536)) = n % 65536
  <2>1. toshort(writes(n % 65536)) = (n % 65536) % 65536
    BY <1>1, ShortOnTheWire
  <2> QED
    BY <2>1
<1>4. Signed(n % 65536, 65536) = n
  BY DEF Signed
<1>5. n % 65536 > 0
  OBVIOUS
<1> QED
  BY <1>1, <1>2, <1>3, <1>4, <1>5

\* Short is made of numbers that two bytes can hold.
SixteenBits == \A n \in Short : -32768 <= n /\ n <= 32767

\* Giving out an entry of a list of shorts.
LEMMA GivenOutHeld ==
    ASSUME TypeOK, HeldInv, NEW t \in Tran, BYTE = 256, SixteenBits,
           NEW r \in [Index -> Int], \A i \in Index : r[i] \in Short \cup {0},
           NEW p \in Nat, NEW i \in Index, NEW n, GivenOut(t, r, p, i, n),
           held' = [held EXCEPT ![t] = toshort(writes(cd'[t]))]
    PROVE  HeldInv'
<1>1. r[i] \in Short \ {0} /\ r[i] \in Int /\ -32768 <= r[i] /\ r[i] <= 32767
  BY DEF GivenOut, Left, SixteenBits
<1>2. cd'[t] = r[i] /\ \A u \in Tran \ {t} : cd'[u] = cd[u]
  BY DEF GivenOut, TypeOK
<1>3. toshort(writes(cd'[t])) \in Int
  BY <1>1, <1>2, CdComesBack
<1>4. held' \in [Tran -> Int] /\ held'[t] = toshort(writes(cd'[t]))
  BY <1>3 DEF HeldInv
<1>5. \A u \in Tran \ {t} : held'[u] = held[u]
  BY DEF HeldInv
<1>6. \A j \in Index : free_cd'[j] \in Short \cup {0}
  BY DEF GivenOut
<1>7. ASSUME NEW u \in live'
      PROVE  cd'[u] \in Short \ {0} /\ held'[u] = toshort(writes(cd'[u]))
  <2>1. CASE u = t
    BY <2>1, <1>1, <1>2, <1>4
  <2>2. CASE u # t
    <3>1. u \in live /\ u \in Tran \ {t}
      BY <2>2, <1>7 DEF GivenOut, TypeOK
    <3> QED
      BY <3>1, <1>2, <1>5 DEF HeldInv
  <2> QED
    BY <2>1, <2>2
<1> QED
  BY <1>4, <1>6, <1>7 DEF HeldInv

\* A step of the composition is a step of the pool of cds.
LEMMA PoolSimulated ==
    ASSUME TypeOK, [DNext]_dvars
    PROVE  [Next]_vars
BY DEF TypeOK, DNext, dvars, vars, Next, tpacall, tpacall_overrun, svrgetrply, lost, Found

\* No client holds a cd before the first call.
LEMMA HeldInit ==
    DInit => HeldInv
BY DEF DInit, Init, HeldInv

\* Every step keeps what is known of the cds that clients hold.
LEMMA HeldStep ==
    ASSUME TypeOK, HeldInv, BYTE = 256, SixteenBits, [DNext]_dvars
    PROVE  HeldInv'
<1>2. ASSUME UNCHANGED dvars
      PROVE  HeldInv'
  BY <1>2 DEF dvars, vars, HeldInv, toshort, writes
<1>3. ASSUME NEW c \in Client, NEW t \in Tran, tpacall(c, t), next_cd(t)
      PROVE  HeldInv'
  <2>1. PICK i \in Index : GivenOut(t, free_cd, cdp, i, fillings)
    BY <1>3, TakeFacts DEF next_cd, TypeOK
  <2> QED
    BY <1>3, <2>1, GivenOutHeld, ZenonT(40) DEF tpacall, TypeOK, HeldInv
<1>4. ASSUME NEW c \in Client, NEW t \in Tran, tpacall(c, t), refill(t)
      PROVE  HeldInv'
  <2>1. PICK f \in Filled : Left(Pruned(f), 0) # {} /\ Take(t, Pruned(f), 0)
    BY <1>4 DEF refill
  <2>2. f \in [Index -> Short] /\ f \in [Index -> Int]
    BY CdPoolConstants, ZenonT(40) DEF Filled
  <2>3. fillings + 1 \in Nat
    BY DEF TypeOK
  <2>4. Pruned(f) \in [Index -> Int] /\ \A i \in Index : Pruned(f)[i] \in Short \cup {0}
    BY <2>2 DEF Pruned
  <2>5. PICK i \in Index : GivenOut(t, Pruned(f), 0, i, fillings + 1)
    BY <1>4, <2>1, <2>4, <2>3, TakeFacts DEF refill
  <2> QED
    BY <1>4, <2>4, <2>5, GivenOutHeld, ZenonT(40) DEF tpacall
<1>5. ASSUME NEW t \in Tran, tpacall_overrun(t)
      PROVE  HeldInv'
  BY <1>5 DEF tpacall_overrun, overrun, HeldInv, toshort, writes
<1>6. ASSUME NEW u \in Tran, del_transaction(u), UNCHANGED held
      PROVE  HeldInv'
  BY <1>6 DEF del_transaction, HeldInv, toshort, writes
<1>7. ASSUME NEW t \in Tran, svrgetrply(t) \/ lost(t)
      PROVE  HeldInv'
  BY <1>6, <1>7 DEF svrgetrply, lost, Found, TypeOK
<1>8. ASSUME NEW c \in Client, NEW t \in Tran, tpacall(c, t)
      PROVE  HeldInv'
  BY <1>3, <1>4, <1>8, ZenonT(40) DEF tpacall
<1> QED
  BY <1>2, <1>5, <1>7, <1>8 DEF DNext

\* The cd of a current transaction is a short, and comes back from the client
\* that holds it as it went.
LEMMA HeldComesBack ==
    ASSUME HeldInv, BYTE = 256, SixteenBits, NEW t \in live
    PROVE  held[t] > 0 /\ Asked(t) = cd[t]
<1>1. cd[t] \in Short /\ cd[t] # 0 /\ held[t] = toshort(writes(cd[t]))
  BY DEF HeldInv
<1>2. cd[t] \in Int
  BY <1>1, CdPoolConstants, ZenonT(40)
<1>3. -32768 <= cd[t] /\ cd[t] <= 32767
  BY <1>1 DEF SixteenBits
<1> QED
  BY <1>1, <1>2, <1>3, CdComesBack DEF Asked

\* Together they are inductive.
LEMMA DescriptorsStep ==
    ASSUME BYTE = 256, SixteenBits
    PROVE  /\ DInit => DInv
           /\ DInv /\ [DNext]_dvars => DInv'
<1>1. DInit => DInv
  BY PoolInit, HeldInit DEF DInit, DInv
<1>2. ASSUME DInv, [DNext]_dvars
      PROVE  DInv'
  <2>0. TypeOK /\ PoolInv /\ HeldInv
    BY <1>2 DEF DInv, PoolInv
  <2>1. PoolInv'
    BY <1>2, <2>0, PoolSimulated, PoolStep
  <2>2. HeldInv'
    BY <1>2, <2>0, HeldStep
  <2> QED
    BY <2>1, <2>2 DEF DInv
<1> QED
  BY <1>1, <1>2

\* tpacall() returns no cd that looks like an error or like no cd at all,
\* although half of the shorts are negative: for any number of transactions, any
\* length of the list, and whatever numbers rand() gives.
THEOREM CdsAreNoErrors ==
    ASSUME BYTE = 256, SixteenBits
    PROVE  DSpec => []CdIsNoError
<1>1. DInv => CdIsNoError
  BY HeldComesBack DEF DInv, CdIsNoError
<1> QED
  BY DescriptorsStep, <1>1, PTL DEF DSpec

\* svrgetrply() finds, for the cd that tpacall() returned, its transaction, and beside
\* it only ones with a cd from the same filling of the list: for any clients, any
\* number of transactions, any length of the list and whatever numbers rand() gives.
THEOREM CdsLeadBack ==
    ASSUME BYTE = 256, SixteenBits
    PROVE  DSpec => []LeadsBack
<1>1. DInv => LeadsBack
  <2> SUFFICES ASSUME DInv, status = "up", NEW t \in live
               PROVE  t \in Found(t) /\ \A u \in Found(t) : filling[u] = filling[t]
    BY DEF LeadsBack
  <2>1. Asked(t) = cd[t]
    BY HeldComesBack DEF DInv
  <2> QED
    BY <2>1 DEF Found, DInv, PoolInv, FillingsApart
<1> QED
  BY DescriptorsStep, <1>1, PTL DEF DSpec
================================================================================
