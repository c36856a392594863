------------------------------ MODULE WireProofs ------------------------------
(***************************************************************************)
(* Proofs that the client and the switchboard stay in step.  The inductive *)
(* invariant, InStep, says what is between the two at any time: the rest   *)
(* of the message that a handler is about, then a result that tpreturn()   *)
(* wrote without waiting, then the request whose answer the client waits   *)
(* for; or else the part of the answer that the client has not read yet.   *)
(* A client that has died may have written only the beginning of it.       *)
(*                                                                         *)
(* The first two parts are about streams of bytes and about the messages   *)
(* of the protocol; the next ones take the steps of the client and those   *)
(* of the switchboard one by one; the theorems are at the end.  The last   *)
(* one is that the two never wait for bytes of each other: from InStep,    *)
(* and from Attached, by which a connection has a switchboard.             *)
(***************************************************************************)
EXTENDS Wire, TLAPS

(* Most steps are about sets, functions and records: Zenon is tried first, *)
(* and SMT where it finds no proof.                                        *)
USE Zenon, SMTT(20)

--------------------------------------------------------------------------------
(* Streams of bytes.  Below, the provers know of these three operators only *)
(* what the lemmas say.                                                     *)

Join(s, t) == s \o t
Take(s, n) == SubSeq(s, 1, n)
Drop(s, n) == SubSeq(s, n + 1, Len(s))

\* Two streams joined are a stream.
LEMMA JoinType == \A s, t \in Streams : Join(s, t) \in Streams
  BY DEF Join, Streams

\* How long two streams are together.
LEMMA JoinLen ==
    /\ \A s \in Streams : Len(s) \in Nat
    /\ \A s, t \in Streams : Len(Join(s, t)) = Len(s) + Len(t)
  BY DEF Join, Streams

\* The bytes of two streams that are joined.
LEMMA JoinAt ==
    ASSUME NEW s \in Streams, NEW t \in Streams
    PROVE  /\ \A i \in 1 .. Len(s) : Join(s, t)[i] = s[i]
           /\ \A i \in 1 .. Len(t) : Join(s, t)[Len(s) + i] = t[i]
<1>1. Len(s) \in Nat /\ Len(t) \in Nat
  BY DEF Streams
<1>2. \A i \in 1 .. Len(s) + Len(t) : Join(s, t)[i] = IF i <= Len(s) THEN s[i] ELSE t[i - Len(s)]
  BY DEF Join, Streams
<1>3. ASSUME NEW i \in 1 .. Len(t) PROVE Join(s, t)[Len(s) + i] = t[i]
  <2>1. Len(s) + i \in 1 .. Len(s) + Len(t) /\ ~(Len(s) + i <= Len(s)) /\ Len(s) + i - Len(s) = i
    BY <1>1
  <2> QED
    BY <1>2, <2>1
<1> QED
  BY <1>1, <1>2, <1>3

\* Joining is associative.
LEMMA JoinAssoc == \A s, t, u \in Streams : Join(Join(s, t), u) = Join(s, Join(t, u))
  BY DEF Join, Streams

\* Four streams joined from the left, with the first one set apart.
LEMMA Regroup4 ==
    \A s, t, u, v \in Streams : Join(Join(Join(s, t), u), v) = Join(s, Join(Join(t, u), v))
<1> SUFFICES ASSUME NEW s \in Streams, NEW t \in Streams, NEW u \in Streams, NEW v \in Streams
             PROVE  Join(Join(Join(s, t), u), v) = Join(s, Join(Join(t, u), v))
  OBVIOUS
<1>1. Join(t, u) \in Streams
  BY JoinType
<1> QED
  BY <1>1, JoinAssoc

\* Five streams joined from the left, with the first one set apart.
LEMMA Regroup5 ==
    \A s, t, u, v, w \in Streams :
        Join(Join(Join(Join(s, t), u), v), w) = Join(s, Join(Join(Join(t, u), v), w))
<1> SUFFICES ASSUME NEW s \in Streams, NEW t \in Streams, NEW u \in Streams, NEW v \in Streams,
                    NEW w \in Streams
             PROVE  Join(Join(Join(Join(s, t), u), v), w) = Join(s, Join(Join(Join(t, u), v), w))
  OBVIOUS
<1>1. Join(Join(t, u), v) \in Streams
  BY JoinType
<1>2. Join(Join(Join(s, t), u), v) = Join(s, Join(Join(t, u), v))
  BY Regroup4
<1> QED
  BY <1>1, <1>2, JoinAssoc

\* Six streams joined from the left, with the first one set apart.
LEMMA Regroup6 ==
    \A s, t, u, v, w, x \in Streams :
        Join(Join(Join(Join(Join(s, t), u), v), w), x) =
            Join(s, Join(Join(Join(Join(t, u), v), w), x))
<1> SUFFICES ASSUME NEW s \in Streams, NEW t \in Streams, NEW u \in Streams, NEW v \in Streams,
                    NEW w \in Streams, NEW x \in Streams
             PROVE  Join(Join(Join(Join(Join(s, t), u), v), w), x) =
                        Join(s, Join(Join(Join(Join(t, u), v), w), x))
  OBVIOUS
<1>1. Join(Join(Join(t, u), v), w) \in Streams
  BY JoinType
<1>2. Join(Join(Join(Join(s, t), u), v), w) = Join(s, Join(Join(Join(t, u), v), w))
  BY Regroup5
<1> QED
  BY <1>1, <1>2, JoinAssoc

\* The empty stream.
LEMMA JoinEmpty ==
    /\ <<>> \in Streams /\ Len(<<>>) = 0
    /\ \A s \in Streams : Join(s, <<>>) = s /\ Join(<<>>, s) = s /\ (Len(s) = 0 => s = <<>>)
    /\ \A s, t \in Streams : Join(s, t) = <<>> => s = <<>> /\ t = <<>>
<1>1. \A s \in Streams : Join(s, <<>>) = s /\ Join(<<>>, s) = s
  BY DEF Join, Streams
<1>2. \A s \in Streams : Len(s) = 0 => s = <<>>
  BY DEF Streams
<1>3. \A s, t \in Streams : Join(s, t) = <<>> => s = <<>> /\ t = <<>>
  BY DEF Join, Streams
<1> QED
  BY <1>1, <1>2, <1>3 DEF Streams

\* Streams that agree byte by byte are the same.
LEMMA SameStream ==
    ASSUME NEW s \in Streams, NEW t \in Streams, Len(s) = Len(t), \A i \in 1 .. Len(s) : s[i] = t[i]
    PROVE  s = t
BY DEF Streams

\* A stream divided in two.
LEMMA TakeDrop ==
    ASSUME NEW s \in Streams, NEW n \in 0 .. Len(s)
    PROVE  /\ Take(s, n) \in Streams /\ Len(Take(s, n)) = n
           /\ Drop(s, n) \in Streams /\ Len(Drop(s, n)) = Len(s) - n
           /\ \A i \in 1 .. n : Take(s, n)[i] = s[i]
           /\ \A i \in 1 .. Len(s) - n : Drop(s, n)[i] = s[n + i]
           /\ Join(Take(s, n), Drop(s, n)) = s
<1>1. Len(s) \in Nat
  BY DEF Streams
<1>2. \A i \in 1 .. Len(s) : s[i] \in Bytes
  BY DEF Streams
<1>3. /\ SubSeq(s, 1, n) \in Streams /\ Len(SubSeq(s, 1, n)) = n
      /\ \A i \in 1 .. n : SubSeq(s, 1, n)[i] = s[i]
  BY <1>1, <1>2 DEF Streams
<1>4. /\ SubSeq(s, n + 1, Len(s)) \in Streams /\ Len(SubSeq(s, n + 1, Len(s))) = Len(s) - n
      /\ \A i \in 1 .. Len(s) - n : SubSeq(s, n + 1, Len(s))[i] = s[n + i]
  <2>1. \A j \in n + 1 .. Len(s) : s[j] \in Bytes
    BY <1>1, <1>2
  <2> QED
    BY <2>1, <1>1 DEF Streams
<1>5. PICK x \in Streams : /\ x = Take(s, n) /\ Len(x) = n
                           /\ \A i \in 1 .. n : x[i] = s[i]
  BY <1>3 DEF Take
<1>6. PICK y \in Streams : /\ y = Drop(s, n) /\ Len(y) = Len(s) - n
                           /\ \A i \in 1 .. Len(s) - n : y[i] = s[n + i]
  BY <1>4 DEF Drop
<1>7. Join(x, y) = s
  <2>1. Join(x, y) \in Streams /\ Len(x) = n /\ Len(y) = Len(s) - n /\ Len(Join(x, y)) = Len(s)
    <3>1. Join(x, y) \in Streams /\ Len(Join(x, y)) = Len(x) + Len(y)
      BY JoinType, JoinLen
    <3> QED
      BY <3>1, <1>1, <1>5, <1>6
  <2>2. ASSUME NEW i \in 1 .. Len(s) PROVE Join(x, y)[i] = s[i]
    <3>1. CASE i <= n
      <4>1. i \in 1 .. n /\ i \in 1 .. Len(x)
        BY <3>1, <1>1, <1>5
      <4> QED
        BY <4>1, <1>5, JoinAt
    <3>2. CASE ~(i <= n)
      <4>1. PICK k \in 1 .. Len(y) : i = n + k
        <5>1. i - n \in 1 .. Len(y) /\ i = n + (i - n)
          BY <3>2, <2>1, <1>1
        <5> QED
          BY <5>1
      <4>2. Join(x, y)[Len(x) + k] = y[k]
        BY JoinAt
      <4> QED
        BY <4>1, <4>2, <2>1, <1>6
    <3> QED
      BY <3>1, <3>2
  <2> QED
    BY <2>1, <2>2, SameStream
<1> QED
  BY <1>5, <1>6, <1>7

\* A stream begins with itself and with nothing.
LEMMA Whole ==
    ASSUME NEW t \in Streams
    PROVE  Begins(t, t) /\ Begins(<<>>, t) /\ (Begins(t, <<>>) => t = <<>>)
<1>1. Len(t) \in Nat /\ SubSeq(t, 1, Len(t)) = t /\ SubSeq(t, 1, 0) = <<>> /\ Len(<<>>) = 0
  BY DEF Streams
<1>2. Len(t) = 0 => t = <<>>
  BY DEF Streams
<1> QED
  BY <1>1, <1>2 DEF Begins

\* How a stream begins, cut short, is how it begins.
LEMMA Shortened ==
    ASSUME NEW t \in Streams, NEW p \in Streams, Begins(p, t), NEW n \in 0 .. Len(p)
    PROVE  Begins(Take(p, n), t)
<1>1. Len(p) \in Nat /\ Len(t) \in Nat /\ n \in 0 .. Len(t)
  BY DEF Begins, Streams
<1>2. p = Take(t, Len(p)) /\ Len(p) \in 0 .. Len(t)
  BY <1>1 DEF Begins, Take
<1>3. Take(p, n) \in Streams /\ Len(Take(p, n)) = n /\ \A i \in 1 .. n : Take(p, n)[i] = p[i]
  BY TakeDrop
<1>4. Take(t, n) \in Streams /\ Len(Take(t, n)) = n /\ \A i \in 1 .. n : Take(t, n)[i] = t[i]
  BY <1>1, TakeDrop
<1>5. \A i \in 1 .. Len(p) : p[i] = t[i]
  <2>1. \A i \in 1 .. Len(p) : Take(t, Len(p))[i] = t[i]
    BY <1>2, TakeDrop
  <2> QED
    BY <2>1, <1>2
<1>6. Take(p, n) = Take(t, n)
  <2>1. \A i \in 1 .. n : i \in 1 .. Len(p)
    BY <1>1
  <2>2. \A i \in 1 .. n : Take(p, n)[i] = Take(t, n)[i]
    BY <2>1, <1>3, <1>4, <1>5
  <2> QED
    BY <2>2, <1>3, <1>4, SameStream
<1> QED
  BY <1>1, <1>3, <1>6 DEF Begins, Take

\* Of a stream that begins with x the first bytes are those of x, and what is left
\* begins what comes after x.
LEMMA Dropped ==
    ASSUME NEW x \in Streams, NEW t \in Streams, NEW p \in Streams,
           Begins(p, Join(x, t)), Len(x) <= Len(p)
    PROVE  /\ Len(x) \in 0 .. Len(p)
           /\ Take(p, Len(x)) = x
           /\ Begins(Drop(p, Len(x)), t)
           /\ p = Join(x, t) => Drop(p, Len(x)) = t
<1> DEFINE d == Drop(p, Len(x))
           y == Take(p, Len(x))
<1>1. Len(p) \in Nat /\ Len(x) \in Nat /\ Len(t) \in Nat /\ Len(x) \in 0 .. Len(p)
  BY DEF Streams
<1>2. Join(x, t) \in Streams /\ Len(Join(x, t)) = Len(x) + Len(t)
  BY JoinType, JoinLen
<1>3. Len(p) <= Len(x) + Len(t) /\ \A i \in 1 .. Len(p) : p[i] = Join(x, t)[i]
  <2>1. p = Take(Join(x, t), Len(p)) /\ Len(p) \in 0 .. Len(Join(x, t))
    BY <1>1, <1>2 DEF Begins, Take
  <2>2. \A i \in 1 .. Len(p) : Take(Join(x, t), Len(p))[i] = Join(x, t)[i]
    BY <2>1, <1>2, TakeDrop
  <2>3. Len(p) <= Len(x) + Len(t)
    BY <2>1, <1>1, <1>2
  <2> QED
    BY <2>1, <2>2, <2>3
<1>4. y \in Streams /\ Len(y) = Len(x) /\ \A i \in 1 .. Len(x) : y[i] = p[i]
  BY <1>1, TakeDrop
<1>5. d \in Streams /\ Len(d) = Len(p) - Len(x) /\ \A i \in 1 .. Len(d) : d[i] = p[Len(x) + i]
  <2>1. /\ d \in Streams /\ Len(d) = Len(p) - Len(x)
        /\ \A i \in 1 .. Len(p) - Len(x) : d[i] = p[Len(x) + i]
    BY <1>1, TakeDrop
  <2> QED
    BY <2>1
<1> HIDE DEF d, y
<1>6. y = x
  <2>1. \A i \in 1 .. Len(x) : y[i] = x[i]
    <3>1. \A i \in 1 .. Len(x) : Join(x, t)[i] = x[i]
      BY JoinAt
    <3> QED
      BY <3>1, <1>1, <1>3, <1>4
  <2> QED
    BY <2>1, <1>4, SameStream
<1>7. \A i \in 1 .. Len(d) : d[i] = t[i]
  <2>1. TAKE i \in 1 .. Len(d)
  <2>2. Len(x) + i \in 1 .. Len(p) /\ i \in 1 .. Len(t)
    BY <1>1, <1>3, <1>5
  <2>3. Join(x, t)[Len(x) + i] = t[i]
    BY <2>2, JoinAt
  <2> QED
    BY <2>2, <2>3, <1>3, <1>5
<1>8. Begins(d, t)
  <2>1. Len(d) \in 0 .. Len(t)
    BY <1>1, <1>3, <1>5
  <2>2. Take(t, Len(d)) \in Streams /\ Len(Take(t, Len(d))) = Len(d)
    BY <2>1, TakeDrop
  <2>3. \A i \in 1 .. Len(d) : Take(t, Len(d))[i] = d[i]
    BY <2>1, <1>7, TakeDrop
  <2>4. d = Take(t, Len(d))
    BY <2>2, <2>3, <1>5, SameStream
  <2> QED
    BY <2>1, <2>4 DEF Begins, Take
<1>9. p = Join(x, t) => d = t
  <2>1. p = Join(x, t) => Len(d) = Len(t)
    BY <1>1, <1>2, <1>5
  <2> QED
    BY <2>1, <1>5, <1>7, SameStream
<1> QED
  BY <1>1, <1>6, <1>8, <1>9 DEF d, y

\* Iowait takes n bytes of s behind i: what it then has, and what is left.
LEMMA Moved ==
    ASSUME NEW i \in Streams, NEW s \in Streams, NEW n \in 0 .. Len(s)
    PROVE  /\ Join(Join(i, Take(s, n)), Drop(s, n)) = Join(i, s)
           /\ Join(i, Take(s, n)) = Take(Join(i, s), Len(i) + n)
           /\ Drop(s, n) = Drop(Join(i, s), Len(i) + n)
           /\ Len(i) + n \in 0 .. Len(Join(i, s))
<1> DEFINE a == Take(s, n)
           z == Drop(s, n)
           x == Join(i, a)
<1>1. a \in Streams /\ z \in Streams /\ Len(a) = n /\ Join(a, z) = s
  BY TakeDrop
<1> HIDE DEF a, z
<1>2. x \in Streams /\ Len(x) = Len(i) + n /\ Join(x, z) = Join(i, s)
  <2>1. x \in Streams /\ Len(x) = Len(i) + n
    BY <1>1, JoinType, JoinLen
  <2>2. Join(x, z) = Join(i, Join(a, z))
    BY <1>1, JoinAssoc, ZenonT(40)
  <2> QED
    BY <2>1, <2>2, <1>1
<1> HIDE DEF x
<1>3. Join(i, s) \in Streams
  BY JoinType
<1>9. Len(Join(i, s)) = Len(x) + Len(z) /\ Len(z) \in Nat /\ Len(x) \in Nat
  BY <1>1, <1>2, JoinLen
<1>4. Begins(Join(i, s), Join(x, z)) /\ Len(x) <= Len(Join(i, s))
  BY <1>2, <1>3, <1>9, Whole
<1>5. Take(Join(i, s), Len(x)) = x /\ Drop(Join(i, s), Len(x)) = z /\ Len(x) \in 0 .. Len(Join(i, s))
  BY <1>1, <1>2, <1>3, <1>4, Dropped
<1> QED
  BY <1>2, <1>5 DEF a, z, x

--------------------------------------------------------------------------------
(* Messages.                                                                *)

Kind == {"TPTCALL", "TPTGRPLY", "TPTADVT", "TPTUADV", "TPTWORK", "TPTRETN", "fill", "long",
         "data", "rval", "ok", "error", "TPSUCCESS", "TPFAIL", "TPERRNO"}

\* The commands of the command table.
LEMMA Commands ==
    Command = {"TPTCALL", "TPTGRPLY", "TPTADVT", "TPTUADV", "TPTWORK", "TPTRETN"}
  BY DEF Command, command_length

\* A byte is a stream of one.
LEMMA Bytewise ==
    /\ \A kind \in Kind, n \in Nat :
         Byte(kind, n) \in Bytes /\ Byte(kind, n).kind = kind /\ Byte(kind, n).n = n
    /\ \A b \in Bytes : <<b>> \in Streams /\ Len(<<b>>) = 1 /\ <<b>>[1] = b
<1>1. Bytes = [kind : Kind, n : Nat]
  BY Commands DEF Bytes, Kind
<1>2. ASSUME NEW kind \in Kind, NEW n \in Nat
      PROVE  Byte(kind, n) \in Bytes /\ Byte(kind, n).kind = kind /\ Byte(kind, n).n = n
  BY <1>1 DEF Byte
<1>3. \A b \in Bytes : <<b>> \in Streams /\ Len(<<b>>) = 1 /\ <<b>>[1] = b
  BY DEF Streams
<1> QED
  BY <1>2, <1>3

\* Bytes that are not looked at, and the data of a call.
LEMMA Filled ==
    /\ \A n \in Nat : /\ Fill(n) \in Streams /\ Len(Fill(n)) = n
                      /\ Data(n) \in Streams /\ Len(Data(n)) = n
    /\ Fill(0) = <<>> /\ Data(0) = <<>>
<1>1. Byte("fill", 0) \in Bytes /\ Byte("data", 0) \in Bytes
  BY Bytewise DEF Kind
<1>2. \A n \in Nat : Fill(n) \in Streams /\ Len(Fill(n)) = n
  BY <1>1 DEF Fill, Streams
<1>3. \A n \in Nat : Data(n) \in Streams /\ Len(Data(n)) = n
  BY <1>1 DEF Data, Streams
<1>4. Fill(0) = <<>> /\ Data(0) = <<>>
  <2>1. 0 \in Nat
    OBVIOUS
  <2>2. Fill(0) \in Streams /\ Len(Fill(0)) = 0 /\ Data(0) \in Streams /\ Len(Data(0)) = 0
    BY <2>1, <1>2, <1>3
  <2> QED
    BY <2>2, JoinEmpty
<1> QED
  BY <1>2, <1>3, <1>4

\* A short, a name and a long; the first byte of a long carries its number.
LEMMA Numbers ==
    /\ Short \in Streams /\ Len(Short) = IOSHORT
    /\ Name \in Streams /\ Len(Name) = XATMI_SERVICE_NAME_LENGTH
    /\ \A n \in Nat :
         Long(n) \in Streams /\ Len(Long(n)) = IOLONG /\ Long(n)[1] = Byte("long", n)
<1>1. Short \in Streams /\ Len(Short) = IOSHORT
  BY Filled, WireConstants DEF Short
<1>2. Name \in Streams /\ Len(Name) = XATMI_SERVICE_NAME_LENGTH
  BY Filled, WireConstants DEF Name
<1>3. ASSUME NEW n \in Nat
      PROVE  Long(n) \in Streams /\ Len(Long(n)) = IOLONG /\ Long(n)[1] = Byte("long", n)
  <2> DEFINE b == <<Byte("long", n)>>
             f == Fill(IOLONG - 1)
  <2>1. b \in Streams /\ Len(b) = 1 /\ b[1] = Byte("long", n)
    BY Bytewise DEF Kind
  <2>2. IOLONG - 1 \in Nat
    BY WireConstants
  <2>3. f \in Streams /\ Len(f) = IOLONG - 1
    BY <2>2, Filled
  <2>4. Long(n) = Join(b, f)
    BY DEF Long, Join
  <2> HIDE DEF b, f
  <2>5. Join(b, f) \in Streams /\ Len(Join(b, f)) = IOLONG
    <3>1. Join(b, f) \in Streams
      BY <2>1, <2>2, <2>3, JoinType, WireConstants, Zenon
    <3>2. Len(Join(b, f)) = IOLONG
      <4>1. Len(Join(b, f)) = Len(b) + Len(f)
        BY <2>1, <2>3, JoinLen
      <4> QED
        BY <4>1, <2>1, <2>3, WireConstants
    <3> QED
      BY <3>1, <3>2
  <2>6. Join(b, f)[1] = Byte("long", n)
    <3>1. 1 \in 1 .. Len(b)
      BY <2>1
    <3> QED
      BY <3>1, <2>1, <2>3, JoinAt
  <2> QED
    BY <2>4, <2>5, <2>6
<1> QED
  BY <1>1, <1>2, <1>3

\* What comes before the data of a result.
RetHeader(n) == Join(Join(<<Byte("rval", 0)>>, Long(0)), Long(n))

\* What follows each command: how long it is and where it has the length of the data.
LEMMA Bodies ==
    ASSUME NEW n \in Nat
    PROVE  /\ /\ Body("TPTCALL", n) \in Streams
              /\ Len(Body("TPTCALL", n)) = XATMI_SERVICE_NAME_LENGTH + IOLONG * 2
              /\ Body("TPTCALL", n)[XATMI_SERVICE_NAME_LENGTH + 1] = Byte("long", n)
           /\ /\ Body("TPTGRPLY", n) \in Streams
              /\ Len(Body("TPTGRPLY", n)) = IOSHORT + IOLONG
           /\ /\ Body("TPTADVT", n) \in Streams
              /\ Len(Body("TPTADVT", n)) = XATMI_SERVICE_NAME_LENGTH + IOLONG
           /\ /\ Body("TPTUADV", n) \in Streams
              /\ Len(Body("TPTUADV", n)) = XATMI_SERVICE_NAME_LENGTH
           /\ Body("TPTWORK", n) = <<>>
           /\ /\ RetHeader(n) \in Streams
              /\ Len(RetHeader(n)) = 1 + IOLONG * 2
              /\ RetHeader(n)[1 + IOLONG + 1] = Byte("long", n)
              /\ Body("TPTRETN", n) = Join(RetHeader(n), Data(n))
              /\ Body("TPTRETN", n) \in Streams
<1>0. /\ 0 \in Nat /\ IOLONG \in Nat /\ IOLONG >= 1 /\ IOSHORT \in Nat
      /\ XATMI_SERVICE_NAME_LENGTH \in Nat
  BY WireConstants
<1>1. /\ Long(n) \in Streams /\ Len(Long(n)) = IOLONG /\ Long(n)[1] = Byte("long", n)
      /\ Long(0) \in Streams /\ Len(Long(0)) = IOLONG /\ 1 \in 1 .. Len(Long(n))
  BY <1>0, Numbers
<1>2. /\ Body("TPTCALL", n) \in Streams
      /\ Len(Body("TPTCALL", n)) = XATMI_SERVICE_NAME_LENGTH + IOLONG * 2
      /\ Body("TPTCALL", n)[XATMI_SERVICE_NAME_LENGTH + 1] = Byte("long", n)
  <2> DEFINE a == Join(Name, Long(n))
  <2>1. a \in Streams /\ Len(a) = XATMI_SERVICE_NAME_LENGTH + IOLONG
    <3>1. a \in Streams
      BY <1>1, JoinType, Numbers, Zenon
    <3>2. Len(a) = XATMI_SERVICE_NAME_LENGTH + IOLONG
      BY <1>1, JoinLen, Numbers, ZenonT(40)
    <3> QED
      BY <3>1, <3>2
  <2>2. a[XATMI_SERVICE_NAME_LENGTH + 1] = Byte("long", n)
    BY <1>1, JoinAt, Numbers
  <2>3. Body("TPTCALL", n) = Join(a, Long(0))
    BY DEF Body, Join
  <2> HIDE DEF a
  <2>4. XATMI_SERVICE_NAME_LENGTH + 1 \in 1 .. Len(a)
    BY <1>0, <2>1
  <2>5. Join(a, Long(0))[XATMI_SERVICE_NAME_LENGTH + 1] = a[XATMI_SERVICE_NAME_LENGTH + 1]
    BY <1>1, <2>1, <2>4, JoinAt
  <2>6. Join(a, Long(0)) \in Streams /\ Len(Join(a, Long(0))) = XATMI_SERVICE_NAME_LENGTH + IOLONG * 2
    <3>1. Join(a, Long(0)) \in Streams
      BY <1>0, <1>1, <2>1, JoinType, Zenon
    <3>2. Len(Join(a, Long(0))) = XATMI_SERVICE_NAME_LENGTH + IOLONG * 2
      BY <1>0, <1>1, <2>1, JoinLen
    <3> QED
      BY <3>1, <3>2
  <2> QED
    BY <2>2, <2>3, <2>5, <2>6
<1>3. /\ Body("TPTGRPLY", n) \in Streams
      /\ Len(Body("TPTGRPLY", n)) = IOSHORT + IOLONG
  <2>1. Body("TPTGRPLY", n) = Join(Short, Long(0))
    BY DEF Body, Join
  <2>2. Body("TPTGRPLY", n) \in Streams
    BY <2>1, <1>1, JoinType, Numbers, Zenon
  <2>3. Len(Join(Short, Long(0))) = Len(Short) + Len(Long(0))
    BY <1>1, JoinLen, Numbers
  <2> QED
    BY <2>1, <2>2, <2>3, <1>1, Numbers
<1>4. /\ Body("TPTADVT", n) \in Streams
      /\ Len(Body("TPTADVT", n)) = XATMI_SERVICE_NAME_LENGTH + IOLONG
  <2>1. Body("TPTADVT", n) = Join(Name, Long(0))
    BY DEF Body, Join
  <2>2. Body("TPTADVT", n) \in Streams
    BY <2>1, <1>1, JoinType, Numbers, Zenon
  <2>3. Len(Join(Name, Long(0))) = Len(Name) + Len(Long(0))
    BY <1>1, JoinLen, Numbers
  <2> QED
    BY <2>1, <2>2, <2>3, <1>1, Numbers
<1>5. /\ Body("TPTUADV", n) \in Streams
      /\ Len(Body("TPTUADV", n)) = XATMI_SERVICE_NAME_LENGTH
  BY Numbers DEF Body
<1>6. Body("TPTWORK", n) = <<>>
  BY DEF Body
<1>7. /\ RetHeader(n) \in Streams
      /\ Len(RetHeader(n)) = 1 + IOLONG * 2
      /\ RetHeader(n)[1 + IOLONG + 1] = Byte("long", n)
  <2> DEFINE r == <<Byte("rval", 0)>>
             a == Join(r, Long(0))
  <2>1. r \in Streams /\ Len(r) = 1
    BY Bytewise DEF Kind
  <2>2. RetHeader(n) = Join(a, Long(n))
    BY DEF RetHeader
  <2> HIDE DEF r
  <2>3. a \in Streams /\ Len(a) = 1 + IOLONG
    <3>1. a \in Streams
      BY <1>1, <2>1, JoinType, Zenon
    <3>2. Len(a) = 1 + IOLONG
      BY <1>1, <2>1, JoinLen
    <3> QED
      BY <3>1, <3>2
  <2> HIDE DEF a
  <2>4. Join(a, Long(n))[Len(a) + 1] = Long(n)[1]
    BY <1>1, <2>3, JoinAt
  <2>5. Join(a, Long(n)) \in Streams /\ Len(Join(a, Long(n))) = 1 + IOLONG * 2
    <3>1. Join(a, Long(n)) \in Streams
      BY <1>0, <1>1, <2>3, JoinType, Zenon
    <3>2. Len(Join(a, Long(n))) = 1 + IOLONG * 2
      BY <1>0, <1>1, <2>3, JoinLen
    <3> QED
      BY <3>1, <3>2
  <2> QED
    BY <1>1, <2>2, <2>3, <2>4, <2>5
<1>8. Body("TPTRETN", n) = Join(RetHeader(n), Data(n))
  BY DEF Body, RetHeader, Join
<1>9. Body("TPTRETN", n) \in Streams
  BY <1>7, <1>8, JoinType, Filled
<1> QED
  BY <1>2, <1>3, <1>4, <1>5, <1>6, <1>7, <1>8, <1>9

\* A message is its command and its body.
LEMMA Messages ==
    ASSUME NEW k \in Command, NEW n \in Nat
    PROVE  /\ Body(k, n) \in Streams /\ Message(k, n) \in Streams
           /\ <<Byte(k, 0)>> \in Streams /\ Len(<<Byte(k, 0)>>) = 1
           /\ <<Byte(k, 0)>>[1].kind = k
           /\ Message(k, n) = Join(<<Byte(k, 0)>>, Body(k, n))
           /\ Message(k, n) # <<>> /\ Message(k, n)[1].kind = k
<1>1. Body(k, n) \in Streams
  BY Bodies, Commands, JoinEmpty
<1>2. /\ <<Byte(k, 0)>> \in Streams /\ Len(<<Byte(k, 0)>>) = 1 /\ Byte(k, 0).kind = k
      /\ <<Byte(k, 0)>>[1] = Byte(k, 0)
  <2>1. k \in Kind
    BY Commands DEF Kind
  <2> QED
    BY <2>1, Bytewise
<1>3. Message(k, n) = Join(<<Byte(k, 0)>>, Body(k, n))
  BY DEF Message, Join
<1>4. Message(k, n) \in Streams /\ Message(k, n) # <<>>
  BY <1>1, <1>2, <1>3, JoinType, JoinEmpty
<1>5. Message(k, n)[1] = Byte(k, 0)
  BY <1>1, <1>2, <1>3, JoinAt
<1> QED
  BY <1>1, <1>2, <1>3, <1>4, <1>5

\* What the library writes are messages.
LEMMA Written ==
    ASSUME NEW n \in Nat
    PROVE  /\ <<Byte("TPTCALL", 0)>> \o Name \o Long(n) \o Long(0) = Message("TPTCALL", n)
           /\ <<Byte("TPTGRPLY", 0)>> \o Short \o Long(0) = Message("TPTGRPLY", n)
           /\ <<Byte("TPTADVT", 0)>> \o Name \o Long(0) = Message("TPTADVT", n)
           /\ <<Byte("TPTUADV", 0)>> \o Name = Message("TPTUADV", n)
           /\ <<Byte("TPTWORK", 0)>> = Message("TPTWORK", n)
           /\ <<Byte("TPTRETN", 0), Byte("rval", 0)>> \o Long(0) \o Long(n) \o Data(n) =
                Message("TPTRETN", n)
<1>1. /\ Name \in Streams /\ Short \in Streams /\ Long(n) \in Streams
      /\ Long(0) \in Streams /\ Data(n) \in Streams
  BY Numbers, Filled
<1>2. \A k \in Kind : Byte(k, 0) \in Bytes /\ <<Byte(k, 0)>> \in Streams
  BY Bytewise
<1>3. <<Byte("TPTCALL", 0)>> \o Name \o Long(n) \o Long(0) = Message("TPTCALL", n)
  <2> DEFINE b == <<Byte("TPTCALL", 0)>>
  <2>1. b \in Streams
    BY <1>2 DEF Kind
  <2>2. Message("TPTCALL", n) = Join(b, Join(Join(Name, Long(n)), Long(0)))
    BY DEF Message, Body, Join
  <2>3. <<Byte("TPTCALL", 0)>> \o Name \o Long(n) \o Long(0) =
            Join(Join(Join(b, Name), Long(n)), Long(0))
    BY DEF Join
  <2> HIDE DEF b
  <2> QED
    BY <1>1, <2>1, <2>2, <2>3, Regroup4
<1>4. <<Byte("TPTGRPLY", 0)>> \o Short \o Long(0) = Message("TPTGRPLY", n)
  <2> DEFINE b == <<Byte("TPTGRPLY", 0)>>
  <2>1. b \in Streams
    BY <1>2 DEF Kind
  <2>2. Message("TPTGRPLY", n) = Join(b, Join(Short, Long(0)))
    BY DEF Message, Body, Join
  <2>3. <<Byte("TPTGRPLY", 0)>> \o Short \o Long(0) = Join(Join(b, Short), Long(0))
    BY DEF Join
  <2> HIDE DEF b
  <2> QED
    BY <1>1, <2>1, <2>2, <2>3, JoinAssoc
<1>5. <<Byte("TPTADVT", 0)>> \o Name \o Long(0) = Message("TPTADVT", n)
  <2> DEFINE b == <<Byte("TPTADVT", 0)>>
  <2>1. b \in Streams
    BY <1>2 DEF Kind
  <2>2. Message("TPTADVT", n) = Join(b, Join(Name, Long(0)))
    BY DEF Message, Body, Join
  <2>3. <<Byte("TPTADVT", 0)>> \o Name \o Long(0) = Join(Join(b, Name), Long(0))
    BY DEF Join
  <2> HIDE DEF b
  <2> QED
    BY <1>1, <2>1, <2>2, <2>3, JoinAssoc
<1>6. <<Byte("TPTUADV", 0)>> \o Name = Message("TPTUADV", n)
  BY DEF Message, Body
<1>7. <<Byte("TPTWORK", 0)>> = Message("TPTWORK", n)
  <2>1. <<Byte("TPTWORK", 0)>> \in Streams
    BY <1>2 DEF Kind
  <2>2. Message("TPTWORK", n) = Join(<<Byte("TPTWORK", 0)>>, <<>>)
    BY DEF Message, Body, Join
  <2> QED
    BY <2>1, <2>2, JoinEmpty
<1>8. <<Byte("TPTRETN", 0), Byte("rval", 0)>> \o Long(0) \o Long(n) \o Data(n) =
        Message("TPTRETN", n)
  <2> DEFINE b == <<Byte("TPTRETN", 0)>>
             r == <<Byte("rval", 0)>>
             a == <<Byte("TPTRETN", 0), Byte("rval", 0)>>
  <2>1. b \in Streams /\ r \in Streams
    BY <1>2 DEF Kind
  <2>2. a = Join(b, r)
    BY <1>2 DEF Kind, Join
  <2>3. Message("TPTRETN", n) = Join(b, Join(Join(Join(r, Long(0)), Long(n)), Data(n)))
    BY DEF Message, Body, Join
  <2>4. a \o Long(0) \o Long(n) \o Data(n) = Join(Join(Join(a, Long(0)), Long(n)), Data(n))
    BY DEF Join
  <2> HIDE DEF b, r, a
  <2>5. Join(Join(Join(Join(b, r), Long(0)), Long(n)), Data(n)) =
            Join(b, Join(Join(Join(r, Long(0)), Long(n)), Data(n)))
    BY <1>1, <2>1, Regroup5
  <2> QED
    BY <2>2, <2>3, <2>4, <2>5 DEF a
<1> QED
  BY <1>3, <1>4, <1>5, <1>6, <1>7, <1>8

\* What is left once x has been read.
LEMMA Took ==
    ASSUME NEW x \in Streams, NEW t \in Streams
    PROVE  Drop(Join(x, t), Len(x)) = t /\ Drop(x, Len(x)) = <<>>
<1>1. Join(x, t) \in Streams /\ Len(Join(x, t)) = Len(x) + Len(t) /\ Len(x) \in Nat /\ Len(t) \in Nat
  BY JoinType, JoinLen
<1>2. Begins(Join(x, t), Join(x, t)) /\ Len(x) <= Len(Join(x, t))
  BY <1>1, Whole
<1>3. Drop(Join(x, t), Len(x)) = t
  BY <1>1, <1>2, Dropped
<1>4. Drop(x, Len(x)) \in Streams /\ Len(Drop(x, Len(x))) = 0
  BY <1>1, TakeDrop
<1> QED
  BY <1>3, <1>4, JoinEmpty

\* What the switchboard writes, and how it is divided among the reads.
WorkHeader(n) == Join(Join(Join(Name, Long(n)), Long(0)), Short)

\* How svracall, snd_reply and send_to_server lay out what they write.
LEMMA Answers ==
    ASSUME NEW n \in Nat, NEW b \in Bytes
    PROVE  /\ /\ <<b>> \o Short \in Streams /\ Len(<<b>> \o Short) = 1 + IOSHORT
              /\ (<<b>> \o Short)[1] = b
           /\ /\ <<b>> \o Short \o Long(0) \o Long(n) \o Data(n) =
                     Join(<<b>> \o Short, Long(0) \o Long(n) \o Data(n))
              /\ <<b>> \o Short \o Long(0) \o Long(n) \o Data(n) \in Streams
              /\ (<<b>> \o Short \o Long(0) \o Long(n) \o Data(n))[1] = b
           /\ /\ Long(0) \o Long(n) \o Data(n) = Join(Join(Long(0), Long(n)), Data(n))
              /\ Long(0) \o Long(n) \o Data(n) \in Streams
              /\ Join(Long(0), Long(n)) \in Streams
              /\ Len(Join(Long(0), Long(n))) = IOLONG * 2
              /\ (Long(0) \o Long(n) \o Data(n))[IOLONG + 1] = Byte("long", n)
           /\ /\ Long(0) \o Name \o Long(n) \o Long(0) \o Short \o Data(n) = Join(Long(0), Work(n))
              /\ Long(0) \o Name \o Long(n) \o Long(0) \o Short \o Data(n) \in Streams
           /\ /\ Work(n) = Join(WorkHeader(n), Data(n)) /\ Work(n) \in Streams
              /\ WorkHeader(n) \in Streams
              /\ Len(WorkHeader(n)) = XATMI_SERVICE_NAME_LENGTH + IOLONG * 2 + IOSHORT
              /\ Work(n)[XATMI_SERVICE_NAME_LENGTH + 1] = Byte("long", n)
<1>0. /\ 0 \in Nat /\ IOLONG \in Nat /\ IOLONG >= 1 /\ IOSHORT \in Nat
      /\ XATMI_SERVICE_NAME_LENGTH \in Nat
  BY WireConstants
<1>1. /\ Name \in Streams /\ Short \in Streams /\ Long(n) \in Streams
      /\ Long(0) \in Streams /\ Data(n) \in Streams /\ <<b>> \in Streams
      /\ Len(Name) = XATMI_SERVICE_NAME_LENGTH /\ Len(Short) = IOSHORT
      /\ Len(Long(n)) = IOLONG /\ Len(Long(0)) = IOLONG /\ Len(<<b>>) = 1 /\ <<b>>[1] = b
      /\ Long(n)[1] = Byte("long", n)
  BY <1>0, Numbers, Filled, Bytewise
<1>2. /\ Join(<<b>>, Short) \in Streams /\ Len(Join(<<b>>, Short)) = 1 + IOSHORT
      /\ Join(<<b>>, Short)[1] = b
  <2> DEFINE x == <<b>>
  <2>1. x \in Streams /\ Len(x) = 1 /\ x[1] = b
    BY <1>1
  <2> HIDE DEF x
  <2>2. Join(x, Short) \in Streams
    BY <1>1, <2>1, JoinType
  <2>3. Len(Join(x, Short)) = Len(x) + Len(Short)
    BY <1>1, <2>1, JoinLen
  <2>4. Join(x, Short)[1] = x[1]
    <3>1. Short \in Streams /\ 1 \in 1 .. Len(x)
      BY <1>1, <2>1
    <3> QED
      BY <2>1, <3>1, JoinAt
  <2> QED
    BY <1>1, <2>1, <2>2, <2>3, <2>4 DEF x
<1>3. /\ Join(Long(0), Long(n)) \in Streams
      /\ Len(Join(Long(0), Long(n))) = IOLONG * 2
      /\ Join(Long(0), Long(n))[IOLONG + 1] = Byte("long", n)
  <2>1. Join(Long(0), Long(n)) \in Streams
    BY <1>1, JoinType
  <2>2. Len(Join(Long(0), Long(n))) = Len(Long(0)) + Len(Long(n))
    BY <1>1, JoinLen
  <2>3. 1 \in 1 .. Len(Long(n))
    BY <1>0, <1>1
  <2>4. Join(Long(0), Long(n))[Len(Long(0)) + 1] = Long(n)[1]
    BY <1>1, <2>3, JoinAt
  <2> QED
    BY <1>0, <1>1, <2>1, <2>2, <2>4
<1>4. /\ Join(Join(Long(0), Long(n)), Data(n)) \in Streams
      /\ Join(Join(Long(0), Long(n)), Data(n))[IOLONG + 1] = Byte("long", n)
  <2> DEFINE x == Join(Long(0), Long(n))
  <2>1. x \in Streams /\ IOLONG + 1 \in 1 .. Len(x) /\ x[IOLONG + 1] = Byte("long", n)
    BY <1>0, <1>3
  <2> HIDE DEF x
  <2>2. Join(x, Data(n)) \in Streams
    BY <1>1, <2>1, JoinType
  <2>3. Join(x, Data(n))[IOLONG + 1] = x[IOLONG + 1]
    BY <1>1, <2>1, JoinAt, ZenonT(40)
  <2> QED
    BY <2>1, <2>2, <2>3 DEF x
<1>5. LET x == Join(<<b>>, Short)  y == Join(Join(Long(0), Long(n)), Data(n))
      IN  /\ Join(Join(Join(x, Long(0)), Long(n)), Data(n)) = Join(x, y)
          /\ Join(x, y) \in Streams /\ Join(x, y)[1] = b
  <2> DEFINE x == Join(<<b>>, Short)
             y == Join(Join(Long(0), Long(n)), Data(n))
  <2>1. x \in Streams /\ 1 \in 1 .. Len(x) /\ x[1] = b
    BY <1>0, <1>2
  <2> HIDE DEF x
  <2>2. Join(Join(Join(x, Long(0)), Long(n)), Data(n)) = Join(x, y)
    BY <1>1, <2>1, Regroup4
  <2>3. y \in Streams
    BY <1>4
  <2> HIDE DEF y
  <2>4. Join(x, y) \in Streams
    BY <2>1, <2>3, JoinType
  <2>5. Join(x, y)[1] = x[1]
    BY <2>1, <2>3, JoinAt
  <2> QED
    BY <2>1, <2>2, <2>4, <2>5 DEF x, y
<1>6. /\ WorkHeader(n) \in Streams
      /\ Len(WorkHeader(n)) = XATMI_SERVICE_NAME_LENGTH + IOLONG * 2 + IOSHORT
      /\ WorkHeader(n)[XATMI_SERVICE_NAME_LENGTH + 1] = Byte("long", n)
  <2> DEFINE x == Body("TPTCALL", n)
  <2>1. WorkHeader(n) = Join(x, Short)
    BY DEF WorkHeader, Body, Join
  <2>2. /\ x \in Streams /\ Len(x) = XATMI_SERVICE_NAME_LENGTH + IOLONG * 2
        /\ x[XATMI_SERVICE_NAME_LENGTH + 1] = Byte("long", n)
    BY Bodies
  <2> HIDE DEF x
  <2>3. XATMI_SERVICE_NAME_LENGTH + 1 \in 1 .. Len(x)
    BY <1>0, <2>2
  <2>4. Join(x, Short)[XATMI_SERVICE_NAME_LENGTH + 1] = x[XATMI_SERVICE_NAME_LENGTH + 1]
    BY <1>1, <2>2, <2>3, JoinAt
  <2>5. Join(x, Short) \in Streams
    BY <1>1, <2>2, JoinType
  <2>6. Len(Join(x, Short)) = Len(x) + Len(Short)
    BY <1>1, <2>2, JoinLen
  <2> QED
    BY <1>1, <2>1, <2>2, <2>4, <2>5, <2>6
<1>7. /\ Work(n) = Join(WorkHeader(n), Data(n)) /\ Work(n) \in Streams
      /\ Work(n)[XATMI_SERVICE_NAME_LENGTH + 1] = Byte("long", n)
  <2>1. Work(n) = Join(WorkHeader(n), Data(n))
    BY DEF Work, WorkHeader, Join
  <2>2. Join(WorkHeader(n), Data(n)) \in Streams
    BY <1>1, <1>6, JoinType
  <2>3. XATMI_SERVICE_NAME_LENGTH + 1 \in 1 .. Len(WorkHeader(n))
    BY <1>0, <1>6
  <2>4. Join(WorkHeader(n), Data(n))[XATMI_SERVICE_NAME_LENGTH + 1] =
            WorkHeader(n)[XATMI_SERVICE_NAME_LENGTH + 1]
    BY <1>1, <1>6, <2>3, JoinAt
  <2> QED
    BY <1>6, <2>1, <2>2, <2>4
<1>8. /\ Long(0) \o Name \o Long(n) \o Long(0) \o Short \o Data(n) = Join(Long(0), Work(n))
      /\ Join(Long(0), Work(n)) \in Streams
  <2>1. Long(0) \o Name \o Long(n) \o Long(0) \o Short \o Data(n) =
            Join(Join(Join(Join(Join(Long(0), Name), Long(n)), Long(0)), Short), Data(n))
    BY DEF Join
  <2>2. Join(Join(Join(Join(Join(Long(0), Name), Long(n)), Long(0)), Short), Data(n)) =
            Join(Long(0), Join(Join(Join(Join(Name, Long(n)), Long(0)), Short), Data(n)))
    BY <1>1, Regroup6
  <2>3. Join(Join(Join(Join(Name, Long(n)), Long(0)), Short), Data(n)) = Work(n)
    BY <1>7 DEF WorkHeader
  <2>4. Join(Long(0), Work(n)) \in Streams
    BY <1>1, <1>7, JoinType
  <2> QED
    BY <2>1, <2>2, <2>3, <2>4
<1>9. /\ <<b>> \o Short = Join(<<b>>, Short)
      /\ Long(0) \o Long(n) \o Data(n) = Join(Join(Long(0), Long(n)), Data(n))
      /\ <<b>> \o Short \o Long(0) \o Long(n) \o Data(n) =
            Join(Join(Join(Join(<<b>>, Short), Long(0)), Long(n)), Data(n))
  BY DEF Join
<1> QED
  BY <1>2, <1>3, <1>4, <1>5, <1>6, <1>7, <1>8, <1>9

--------------------------------------------------------------------------------
(* What is between the two sides.                                           *)

\* 0, which stands for no connection, is none.
LEMMA NoConn == 0 \notin Conn
  BY DEF Conn

\* The lengths of data are numbers, and 0 is one of them.
LEMMA LengthsType == Lengths \subseteq Nat /\ DataLength \subseteq Lengths /\ 0 \in Lengths
  BY WireConstants DEF Lengths

\* What is on its way to the switchboard is made of streams.
LEMMA Parts ==
    ASSUME TypeOK, NEW c \in Conn
    PROVE  /\ Rest(c) \subseteq Streams /\ Result \subseteq Streams /\ Requested \subseteq Streams
           /\ Pending(c) \in Streams /\ Pending(c) = Join(input[c], toServer[c])
           /\ input[c] \in Streams /\ toServer[c] \in Streams /\ toClient[c] \in Streams
<1>1. \A k \in Command, n \in Lengths : Body(k, n) \in Streams /\ Message(k, n) \in Streams
  BY Messages, LengthsType
<1>2. Rest(c) \subseteq Streams
  <2>1. Data(size[c]) \in Streams
    BY Filled DEF TypeOK
  <2> QED
    BY <1>1, <2>1, JoinEmpty DEF Rest
<1>3. Result \subseteq Streams /\ Requested \subseteq Streams
  BY <1>1, JoinEmpty, Commands DEF Result, Requested
<1>4. input[c] \in Streams /\ toServer[c] \in Streams /\ toClient[c] \in Streams
  BY DEF TypeOK
<1>5. Pending(c) = Join(input[c], toServer[c])
  BY DEF Pending, Join
<1> QED
  BY <1>2, <1>3, <1>4, <1>5, JoinType

\* What was sent, in terms of Join.
LEMMA SentJoin ==
    \A rest, ret, req \in Streams :
        /\ Sent(rest, ret, req) = Join(rest, Join(ret, req))
        /\ Sent(rest, ret, req) \in Streams
<1>1. \A rest, ret, req : Sent(rest, ret, req) = Join(rest, Join(ret, req))
  BY DEF Sent, Join
<1>2. \A rest, ret, req \in Streams : Join(rest, Join(ret, req)) \in Streams
  BY JoinType
<1> QED
  BY <1>1, <1>2

\* A connection that a step does not touch.
LEMMA Kept ==
    ASSUME NEW c \in Conn, Between(c),
           client'[c] = client[c], handler'[c] = handler[c], size'[c] = size[c],
           Pending(c)' = Pending(c),
           c \in cut' <=> c \in cut,
           c = server' <=> c = server,
           c = server => /\ toClient'[c] = toClient[c]
                         /\ UNCHANGED libVars
    PROVE  Between(c)'
<1> SUFFICES ASSUME client[c] # "closed"
             PROVE  \E rest \in Rest(c)', ret \in Result, req \in Requested : Stream(c, rest, ret, req)'
  BY DEF Between, Result, Requested
<1>1. PICK rest \in Rest(c), ret \in Result, req \in Requested : Stream(c, rest, ret, req)
  BY DEF Between
<1>2. Rest(c)' = Rest(c)
  BY DEF Rest
<1>3. c = server => (Answer(toClient[c], lib, expects) => Answer(toClient[c], lib, expects)')
  BY DEF Answer, libVars
<1>a. c = server => \A k \in Command : Asked(c, k, rest, req) => Asked(c, k, rest, req)'
  BY DEF Asked, libVars
<1>b. c = server => (Answered(c, rest) => Answered(c, rest)')
  BY <1>3 DEF Answered, libVars
<1>4. c = server => /\ \A k \in Command : Asked(c, k, rest, req) => Asked(c, k, rest, req)'
                    /\ Answered(c, rest) => Answered(c, rest)'
  BY <1>a, <1>b
<1>5. Stream(c, rest, ret, req)'
  BY <1>1, <1>4 DEF Stream, libVars
<1> QED
  BY <1>2, <1>5

\* What is written goes to the end of what is between the two sides.
LEMMA Appended ==
    ASSUME NEW rest \in Streams, NEW ret \in Streams, NEW m \in Streams
    PROVE  /\ Join(Sent(rest, ret, <<>>), m) = Sent(rest, ret, m)
           /\ Join(Sent(rest, <<>>, <<>>), m) = Sent(rest, m, <<>>)
           /\ Sent(rest, <<>>, <<>>) = rest
<1>1. <<>> \in Streams /\ Join(ret, <<>>) = ret /\ Join(rest, <<>>) = rest
      /\ Join(m, <<>>) = m /\ Join(<<>>, <<>>) = <<>>
  BY JoinEmpty
<1>2. /\ Sent(rest, ret, <<>>) = Join(rest, ret)
      /\ Sent(rest, <<>>, <<>>) = rest
      /\ Sent(rest, m, <<>>) = Join(rest, m)
      /\ Sent(rest, ret, m) = Join(rest, Join(ret, m))
  BY <1>1, SentJoin
<1>3. Join(Join(rest, ret), m) = Join(rest, Join(ret, m))
  BY JoinAssoc
<1> QED
  BY <1>2, <1>3

\* What a write adds to what the switchboard has not handled yet.
LEMMA PendingAppended ==
    ASSUME TypeOK, NEW c \in Conn, NEW m \in Streams,
           input' = input, toServer' = [toServer EXCEPT ![c] = @ \o m]
    PROVE  /\ toServer' \in [Conn -> Streams]
           /\ Pending(c)' = Join(Pending(c), m)
           /\ \A d \in Conn \ {c} : Pending(d)' = Pending(d) /\ toServer'[d] = toServer[d]
<1>1. toServer \in [Conn -> Streams] /\ input[c] \in Streams /\ toServer[c] \in Streams
  BY DEF TypeOK
<1>2. toServer' = [toServer EXCEPT ![c] = Join(@, m)]
  BY DEF Join
<1>3. Join(toServer[c], m) \in Streams
  BY <1>1, JoinType
<1>4. toServer'[c] = Join(toServer[c], m) /\ \A d \in Conn \ {c} : toServer'[d] = toServer[d]
  BY <1>1, <1>2
<1>5. Pending(c)' = Join(input[c], Join(toServer[c], m))
  BY <1>4 DEF Pending, Join
<1>6. Pending(c) = Join(input[c], toServer[c])
  BY DEF Pending, Join
<1>7. Pending(c)' = Join(Pending(c), m)
  BY <1>1, <1>5, <1>6, JoinAssoc
<1>8. \A d \in Conn \ {c} : Pending(d)' = Pending(d)
  BY <1>4 DEF Pending
<1>9. toServer' \in [Conn -> Streams]
  BY <1>1, <1>2, <1>3
<1> QED
  BY <1>4, <1>7, <1>8, <1>9

\* At the start nothing is on its way.
LEMMA InitIn == Init => InStep
<1> SUFFICES ASSUME Init PROVE InStep
  OBVIOUS
<1>1. <<>> \in Streams /\ 0 \in Lengths
  BY JoinEmpty, LengthsType
<1>2. TypeOK
  BY <1>1 DEF Init, TypeOK
<1>3. Shape
  BY <1>2 DEF Init, Shape, Sizes, Expected
<1>4. \A c \in Conn : Between(c)
  BY DEF Init, Between
<1> QED
  BY <1>3, <1>4 DEF InStep

\* Between two calls nothing but a result is on its way, and all answers are read.
LEMMA Idle ==
    ASSUME InStep, lib = "idle", NEW c \in Conn, c = server, client[c] # "closed"
    PROVE  /\ toClient[c] = <<>> /\ handler[c] \notin Busy
           /\ \E rest \in Rest(c), ret \in Result :
                 Pending(c) = Sent(rest, ret, <<>>) /\ (serving => ret = <<>>)
<1>1. PICK rest \in Rest(c), ret \in Result, req \in Requested : Stream(c, rest, ret, req)
  BY DEF InStep, Between
<1>2. /\ handler[c] \notin Busy /\ req = <<>> /\ toClient[c] = <<>>
      /\ Pending(c) = Sent(rest, ret, req)
      /\ serving => ret = <<>>
  BY <1>1 DEF Stream, Asked, Answered
<1> QED
  BY <1>2

\* A call of the library that writes a request and waits for the answer.
LEMMA Requests ==
    ASSUME InStep, NEW k \in Command \ {"TPTRETN"}, NEW n \in Lengths, NEW at, NEW m,
           Request(Message(k, n), at, m), len' = n,
           \/ <<at, k>> \in {<<"tpacall", "TPTCALL">>, <<"tpgetrply", "TPTGRPLY">>}
              /\ m = 1 + IOSHORT
           \/ <<at, k>> \in {<<"data", "TPTADVT">>, <<"data", "TPTUADV">>} /\ m = IOSHORT
           \/ <<at, k>> = <<"tpservice", "TPTWORK">> /\ m = IOLONG
    PROVE  InStep'
<1>1. /\ TypeOK /\ Sizes /\ server \notin cut /\ lib = "idle" /\ Open
      /\ \A c \in Conn : c # server => toClient[c] = <<>>
  BY DEF InStep, Shape, Request
<1>2. PICK c \in Conn : c = server /\ client[c] # "closed"
  BY <1>1 DEF TypeOK, Open
<1>3. PICK msg \in Streams : msg = Message(k, n)
  BY Messages, LengthsType
<1>4. /\ toServer' = [toServer EXCEPT ![c] = @ \o msg]
      /\ lib' = at /\ expects' = m /\ serving' = serving /\ toClient' = toClient
      /\ up' = up /\ server' = server /\ client' = client /\ cut' = cut
      /\ handler' = handler /\ size' = size /\ input' = input /\ calls' = calls
  BY <1>2, <1>3 DEF Request, tx_write, tx_read, connVars, svrVars
<1>5. /\ toServer' \in [Conn -> Streams]
      /\ Pending(c)' = Join(Pending(c), msg)
      /\ \A d \in Conn \ {c} : Pending(d)' = Pending(d) /\ toServer'[d] = toServer[d]
  BY <1>1, <1>4, PendingAppended
<1>6. TypeOK'
  <2>1. m \in Nat
    BY WireConstants
  <2>2. at \in {"tpacall", "tpgetrply", "data", "tpservice"}
    OBVIOUS
  <2> QED
    BY <1>1, <1>4, <1>5, <2>1, <2>2 DEF TypeOK
<1>7. Expected'
  BY <1>4 DEF Expected
<1>8. Sizes'
  BY <1>1, <1>2, <1>4, <1>5 DEF Sizes
<1>9. Shape'
  BY <1>1, <1>2, <1>4, <1>6, <1>7, <1>8 DEF Shape, Open
<1>10. ASSUME NEW d \in Conn, d # c PROVE Between(d)'
  BY <1>2, <1>4, <1>5, <1>10, Kept DEF InStep
<1>11. Between(c)'
  <2>1. toClient[c] = <<>> /\ handler[c] \notin Busy
    BY <1>1, <1>2, Idle
  <2>2. PICK rest \in Rest(c), ret \in Result :
            Pending(c) = Sent(rest, ret, <<>>) /\ (serving => ret = <<>>)
    BY <1>1, <1>2, Idle
  <2>3. rest \in Streams /\ ret \in Streams
    BY <1>1, Parts
  <2>4. Pending(c)' = Sent(rest, ret, msg)
    BY <1>5, <2>2, <2>3, Appended
  <2>5. Begins(Pending(c)', Sent(rest, ret, msg))
    BY <2>3, <2>4, SentJoin, Whole
  <2>6. Asked(c, k, rest, msg)'
    BY <1>3, <1>4, <2>1 DEF Asked
  <2>7. Stream(c, rest, ret, msg)'
    BY <1>2, <1>4, <2>1, <2>2, <2>4, <2>5, <2>6 DEF Stream
  <2>8. rest \in Rest(c)'
    BY <1>4 DEF Rest
  <2>9. msg \in Requested
    BY <1>3 DEF Requested
  <2> QED
    BY <2>7, <2>8, <2>9 DEF Between
<1> QED
  BY <1>9, <1>10, <1>11 DEF InStep

\* The calls that write a request: tpacall, tpgetrply, tpadvertise, tpunadvertise and
\* the loop of tpservice.
LEMMA CallsIn ==
    InStep /\ ((\E n \in DataLength : tpacall(n)) \/ tpgetrply \/ tpadvertise \/ tpunadvertise \/ tpservice)
        => InStep'
<1> SUFFICES ASSUME InStep PROVE
        ((\E n \in DataLength : tpacall(n)) \/ tpgetrply \/ tpadvertise \/ tpunadvertise \/ tpservice)
            => InStep'
  OBVIOUS
<1>0. len \in Lengths /\ len \in Nat /\ Command \ {"TPTRETN"} =
          {"TPTCALL", "TPTGRPLY", "TPTADVT", "TPTUADV", "TPTWORK"}
  BY LengthsType, Commands DEF InStep, Shape, TypeOK
<1>1. ASSUME NEW n \in DataLength, tpacall(n) PROVE InStep'
  <2>1. n \in Lengths /\ n \in Nat
    BY LengthsType
  <2>2. Request(Message("TPTCALL", n), "tpacall", 1 + IOSHORT) /\ len' = n
    BY <1>1, <2>1, Written DEF tpacall
  <2> QED
    BY <1>0, <2>1, <2>2, Requests
<1>2. ASSUME tpgetrply PROVE InStep'
  <2>1. Request(Message("TPTGRPLY", len), "tpgetrply", 1 + IOSHORT) /\ len' = len
    BY <1>0, <1>2, Written DEF tpgetrply
  <2> QED
    BY <1>0, <2>1, Requests
<1>3. ASSUME tpadvertise PROVE InStep'
  <2>1. Request(Message("TPTADVT", len), "data", IOSHORT) /\ len' = len
    BY <1>0, <1>3, Written DEF tpadvertise
  <2> QED
    BY <1>0, <2>1, Requests
<1>4. ASSUME tpunadvertise PROVE InStep'
  <2>1. Request(Message("TPTUADV", len), "data", IOSHORT) /\ len' = len
    BY <1>0, <1>4, Written DEF tpunadvertise
  <2> QED
    BY <1>0, <2>1, Requests
<1>5. ASSUME tpservice PROVE InStep'
  <2>1. Request(Message("TPTWORK", len), "tpservice", IOLONG) /\ len' = len
    BY <1>0, <1>5, Written DEF tpservice
  <2> QED
    BY <1>0, <2>1, Requests
<1> QED
  BY <1>1, <1>2, <1>3, <1>4, <1>5

\* tpreturn writes a result, and waits for no answer.
LEMMA tpreturnIn ==
    ASSUME InStep, NEW n \in DataLength, tpreturn(n)
    PROVE  InStep'
<1>1. /\ TypeOK /\ Sizes /\ Expected /\ server \notin cut /\ lib = "idle" /\ serving
      /\ \A c \in Conn : c # server => toClient[c] = <<>>
  BY DEF InStep, Shape, tpreturn
<1>2. /\ serving' = FALSE /\ lib' = lib /\ expects' = expects /\ len' = len /\ toClient' = toClient
      /\ up' = up /\ server' = server /\ client' = client /\ cut' = cut
      /\ handler' = handler /\ size' = size /\ input' = input /\ calls' = calls
  BY DEF tpreturn, connVars, svrVars
<1>3. CASE ~Open
  <2>1. toServer' = toServer
    BY <1>3 DEF tpreturn
  <2>2. Shape'
    BY <1>1, <1>2, <2>1 DEF Shape, TypeOK, Sizes, Expected
  <2>3. ASSUME NEW d \in Conn, d # server PROVE Between(d)'
    <3>1. Pending(d)' = Pending(d)
      BY <1>2, <2>1 DEF Pending
    <3> QED
      BY <1>2, <2>3, <3>1, Kept DEF InStep
  <2>4. ASSUME NEW d \in Conn, d = server PROVE Between(d)'
    <3>1. client[d] = "closed"
      BY <1>3, <2>4, NoConn DEF Open
    <3> QED
      BY <1>2, <3>1 DEF Between
  <2> QED
    BY <2>2, <2>3, <2>4 DEF InStep
<1>4. CASE Open
  <2>1. PICK c \in Conn : c = server /\ client[c] # "closed"
    BY <1>1, <1>4 DEF TypeOK, Open
  <2>2. PICK msg \in Streams : msg = Message("TPTRETN", n)
    BY Messages, LengthsType, Commands
  <2>3. toServer' = [toServer EXCEPT ![c] = @ \o msg]
    <3>1. n \in Nat
      BY LengthsType
    <3> QED
      BY <1>4, <2>1, <2>2, <3>1, Written DEF tpreturn, tx_write
  <2>4. /\ toServer' \in [Conn -> Streams]
        /\ Pending(c)' = Join(Pending(c), msg)
        /\ \A d \in Conn \ {c} : Pending(d)' = Pending(d) /\ toServer'[d] = toServer[d]
    BY <1>1, <1>2, <2>3, PendingAppended
  <2>5. TypeOK' /\ Expected'
    BY <1>1, <1>2, <2>4 DEF TypeOK, Expected
  <2>6. Sizes'
    BY <1>1, <1>2, <2>1, <2>4 DEF Sizes
  <2>7. Shape'
    BY <1>1, <1>2, <2>5, <2>6 DEF Shape
  <2>8. ASSUME NEW d \in Conn, d # c PROVE Between(d)'
    BY <1>2, <2>1, <2>4, <2>8, Kept DEF InStep
  <2>9. Between(c)'
    <3>1. toClient[c] = <<>> /\ handler[c] \notin Busy
      BY <1>1, <2>1, Idle
    <3>2. PICK rest \in Rest(c) : Pending(c) = Sent(rest, <<>>, <<>>)
      BY <1>1, <2>1, Idle
    <3>3. rest \in Streams
      BY <1>1, Parts
    <3>4. Pending(c)' = Sent(rest, msg, <<>>)
      BY <2>4, <3>2, <3>3, Appended
    <3>5. Begins(Pending(c)', Sent(rest, msg, <<>>))
      BY <3>3, <3>4, SentJoin, Whole, JoinEmpty
    <3>6. Stream(c, rest, msg, <<>>)'
      BY <1>1, <1>2, <2>1, <3>1, <3>4, <3>5 DEF Stream
    <3>7. rest \in Rest(c)'
      BY <1>2 DEF Rest
    <3>8. msg \in Result /\ <<>> \in Requested
      BY <2>2, LengthsType DEF Result, Requested
    <3> QED
      BY <3>6, <3>7, <3>8 DEF Between
  <2> QED
    BY <2>7, <2>8, <2>9 DEF InStep
<1> QED
  BY <1>3, <1>4

\* A connection that the client leaves between two calls.
LEMMA Left ==
    ASSUME InStep, lib = "idle", NEW c \in Conn, c = server, server' # c,
           client'[c] = client[c], handler'[c] = handler[c], size'[c] = size[c],
           Pending(c)' = Pending(c)
    PROVE  Between(c)'
<1> SUFFICES ASSUME client[c] # "closed" PROVE Between(c)'
  BY DEF Between
<1>1. handler[c] \notin Busy
  BY Idle
<1>2. PICK rest \in Rest(c), ret \in Result : Pending(c) = Sent(rest, ret, <<>>)
  BY Idle
<1>3. rest \in Streams /\ ret \in Streams
  BY Parts DEF InStep, Shape
<1>4. Begins(Pending(c)', Sent(rest, ret, <<>>))
  BY <1>2, <1>3, SentJoin, Whole, JoinEmpty
<1>5. Stream(c, rest, ret, <<>>)'
  BY <1>1, <1>2, <1>4 DEF Stream
<1>6. rest \in Rest(c)' /\ <<>> \in Requested
  BY DEF Rest, Requested
<1> QED
  BY <1>5, <1>6 DEF Between

\* A connection on which nothing has been sent yet.
LEMMA New ==
    ASSUME InStep, NEW c \in Conn, client[c] = "closed"
    PROVE  Pending(c) = <<>> /\ handler[c] = "none" /\ input[c] = <<>> /\ toServer[c] = <<>>
<1>1. TypeOK /\ Sizes
  BY DEF InStep, Shape
<1>2. handler[c] = "none" /\ size[c] = 0 /\ toServer[c] = <<>>
  BY <1>1 DEF Sizes
<1>3. input[c] = <<>>
  <2>1. Len(input[c]) \in Nat
    BY <1>1, JoinLen DEF TypeOK
  <2> QED
    BY <1>1, <1>2, <2>1 DEF Sizes
<1>4. Pending(c) = Join(<<>>, <<>>)
  BY <1>2, <1>3 DEF Pending, Join
<1> QED
  BY <1>2, <1>3, <1>4, JoinEmpty

\* tx_close between two calls: what was written stays to be read.
LEMMA closeIn ==
    ASSUME InStep, lib = "idle", Leaves(0), UNCHANGED <<client, cut, toServer, libVars>>
    PROVE  InStep'
<1>1. /\ TypeOK /\ Sizes /\ Expected
      /\ \A c \in Conn : c # server => toClient[c] = <<>>
  BY DEF InStep, Shape
<1>2. /\ server' = 0 /\ up' = up /\ client' = client /\ cut' = cut /\ toServer' = toServer
      /\ lib' = lib /\ expects' = expects /\ len' = len /\ serving' = serving
      /\ handler' = handler /\ size' = size /\ input' = input /\ calls' = calls
      /\ toClient' = IF server = 0 THEN toClient ELSE [toClient EXCEPT ![server] = <<>>]
  BY DEF Leaves, libVars, svrVars
<1>3. /\ toClient' \in [Conn -> Streams]
      /\ \A c \in Conn : toClient'[c] = <<>>
  BY <1>1, <1>2, JoinEmpty, NoConn DEF TypeOK
<1>4. TypeOK'
  BY <1>1, <1>2, <1>3 DEF TypeOK
<1>5. Sizes' /\ Expected' /\ server' \notin cut'
  BY <1>1, <1>2, NoConn DEF Sizes, Expected, TypeOK
<1>6. Shape'
  BY <1>2, <1>3, <1>4, <1>5 DEF Shape
<1>7. ASSUME NEW c \in Conn PROVE Between(c)'
  <2>1. Pending(c)' = Pending(c)
    BY <1>2 DEF Pending
  <2>2. c # server'
    BY <1>2, NoConn
  <2>3. CASE c = server
    BY <1>2, <2>1, <2>2, <2>3, Left
  <2>4. CASE c # server
    BY <1>2, <2>1, <2>2, <2>4, Kept DEF InStep
  <2> QED
    BY <2>3, <2>4
<1> QED
  BY <1>6, <1>7 DEF InStep

\* tx_open makes a connection on which nothing has been written.
LEMMA tx_openIn ==
    ASSUME InStep, tx_open
    PROVE  InStep'
<1>1. /\ TypeOK /\ Sizes /\ Expected /\ lib = "idle"
      /\ \A c \in Conn : c # server => toClient[c] = <<>>
  BY DEF InStep, Shape, tx_open
<1>2. CASE Leaves(0) /\ UNCHANGED <<client, cut>>
  BY <1>1, <1>2, closeIn DEF tx_open
<1>3. ASSUME NEW n \in Conn \ {server}, client[n] = "closed", Leaves(n),
             client' = [client EXCEPT ![n] = "backlog"], cut' = cut \ {n}
      PROVE  InStep'
  <2>1. /\ server' = n /\ up' = up /\ toServer' = toServer
        /\ lib' = lib /\ expects' = expects /\ len' = len /\ serving' = serving
        /\ handler' = handler /\ size' = size /\ input' = input /\ calls' = calls
        /\ toClient' = IF server = 0 THEN toClient ELSE [toClient EXCEPT ![server] = <<>>]
    BY <1>3 DEF Leaves, tx_open, libVars, svrVars
  <2>2. /\ toClient' \in [Conn -> Streams]
        /\ \A c \in Conn : toClient'[c] = <<>>
    BY <1>1, <2>1, JoinEmpty, NoConn DEF TypeOK
  <2>3. TypeOK'
    BY <1>1, <1>3, <2>1, <2>2 DEF TypeOK
  <2>4. Pending(n) = <<>> /\ handler[n] = "none" /\ input[n] = <<>> /\ toServer[n] = <<>>
    BY <1>3, New
  <2>5. client'[n] = "backlog" /\ \A d \in Conn \ {n} : client'[d] = client[d]
    BY <1>1, <1>3 DEF TypeOK
  <2>6. Sizes'
    BY <1>1, <1>3, <2>1, <2>4, <2>5, ZenonT(40) DEF Sizes
  <2>7. Expected'
    BY <1>1, <2>1 DEF Expected
  <2>8. Shape'
    BY <1>1, <1>3, <2>1, <2>2, <2>3, <2>6, <2>7, NoConn DEF Shape
  <2>9. ASSUME NEW d \in Conn, d # n PROVE Between(d)'
    <3>1. Pending(d)' = Pending(d)
      BY <2>1 DEF Pending
    <3>2. d # server' /\ client'[d] = client[d] /\ (d \in cut' <=> d \in cut)
      BY <1>3, <2>1, <2>5, <2>9
    <3>3. CASE d = server
      BY <1>1, <2>1, <3>1, <3>2, <3>3, Left
    <3>4. CASE d # server
      BY <2>1, <3>1, <3>2, <3>4, Kept DEF InStep
    <3> QED
      BY <3>3, <3>4
  <2>10. Between(n)'
    <3>1. Pending(n)' = <<>>
      BY <2>1, <2>4 DEF Pending
    <3>2. Sent(<<>>, <<>>, <<>>) = <<>> /\ Begins(<<>>, <<>>)
      BY Appended, Whole, JoinEmpty
    <3>3. handler'[n] = "none" /\ "none" \notin Busy /\ toClient'[n] = <<>>
      BY <2>1, <2>2, <2>4 DEF Busy
    <3>4. Stream(n, <<>>, <<>>, <<>>)'
      BY <1>1, <2>1, <3>1, <3>2, <3>3 DEF Stream
    <3>5. <<>> \in Rest(n)' /\ <<>> \in Result /\ <<>> \in Requested
      BY <3>3, Commands DEF Rest, Result, Requested
    <3> QED
      BY <3>4, <3>5 DEF Between
  <2> QED
    BY <2>8, <2>9, <2>10 DEF InStep
<1> QED
  BY <1>2, <1>3 DEF tx_open

\* A client may die anywhere: a part of what it wrote may be lost.
LEMMA diesIn ==
    ASSUME InStep, dies
    PROVE  InStep'
<1>1. /\ TypeOK /\ Sizes
      /\ \A c \in Conn : c # server => toClient[c] = <<>>
  BY DEF InStep, Shape
<1>2. PICK c \in Conn : c = server
  BY <1>1 DEF dies, TypeOK
<1>3. PICK n \in 0 .. Len(toServer[c]) : toServer' = [toServer EXCEPT ![c] = Take(@, n)]
  BY <1>2 DEF dies, Take
<1>4. /\ server' = 0 /\ up' = up /\ client' = client /\ cut' = cut \cup {c}
      /\ lib' = "idle" /\ expects' = 0 /\ len' = 0 /\ serving' = FALSE
      /\ handler' = handler /\ size' = size /\ input' = input /\ calls' = calls
      /\ toClient' = IF server = 0 THEN toClient ELSE [toClient EXCEPT ![server] = <<>>]
  BY <1>2 DEF dies, Leaves, Return, svrVars
<1>5. input[c] \in Streams /\ toServer[c] \in Streams /\ Pending(c) \in Streams
      /\ Pending(c) = Join(input[c], toServer[c])
  BY <1>1, Parts
<1>6. Take(toServer[c], n) \in Streams /\ Len(Take(toServer[c], n)) = n
  BY <1>5, TakeDrop
<1>7. /\ toServer' \in [Conn -> Streams] /\ toServer'[c] = Take(toServer[c], n)
      /\ \A d \in Conn \ {c} : toServer'[d] = toServer[d]
  BY <1>1, <1>3, <1>6 DEF TypeOK
<1>8. /\ toClient' \in [Conn -> Streams]
      /\ \A d \in Conn : toClient'[d] = <<>>
  BY <1>1, <1>4, JoinEmpty, NoConn DEF TypeOK
<1>9. TypeOK'
  BY <1>1, <1>4, <1>7, <1>8, LengthsType DEF TypeOK
<1>10. toServer[c] = <<>> => toServer'[c] = <<>>
  BY <1>6, <1>7, JoinEmpty
<1>11. Sizes' /\ Expected' /\ server' \notin cut'
  BY <1>1, <1>4, <1>7, <1>10, NoConn DEF Sizes, Expected, TypeOK
<1>12. Shape'
  BY <1>4, <1>8, <1>9, <1>11 DEF Shape
<1>13. ASSUME NEW d \in Conn, d # c PROVE Between(d)'
  <2>1. Pending(d)' = Pending(d) /\ d # server'
    BY <1>4, <1>7, <1>13, NoConn DEF Pending
  <2> QED
    BY <1>2, <1>4, <1>13, <2>1, Kept DEF InStep
<1>14. Between(c)'
  <2> SUFFICES ASSUME client[c] # "closed" PROVE Between(c)'
    BY <1>4 DEF Between
  <2>1. PICK rest \in Rest(c), ret \in Result, req \in Requested : Stream(c, rest, ret, req)
    BY DEF InStep, Between
  <2>2. rest \in Streams /\ ret \in Streams /\ req \in Streams
    BY <1>1, Parts
  <2>3. Pending(c)' = Join(input[c], Take(toServer[c], n))
    BY <1>4, <1>7 DEF Pending, Join
  <2>4. /\ Pending(c)' = Take(Pending(c), Len(input[c]) + n)
        /\ Len(input[c]) + n \in 0 .. Len(Pending(c))
    <3>1. input[c] \in Streams /\ toServer[c] \in Streams
      BY <1>5
    <3>2. /\ Join(input[c], Take(toServer[c], n)) =
                Take(Join(input[c], toServer[c]), Len(input[c]) + n)
          /\ Len(input[c]) + n \in 0 .. Len(Join(input[c], toServer[c]))
      BY <3>1, Moved, Zenon
    <3> QED
      BY <1>5, <2>3, <3>2, Zenon
  <2>5. Begins(Pending(c)', Sent(rest, ret, req))
    <3>1. Begins(Pending(c), Sent(rest, ret, req)) /\ Sent(rest, ret, req) \in Streams
      BY <2>1, <2>2, SentJoin DEF Stream
    <3> QED
      BY <1>5, <2>4, <3>1, Shortened
  <2>6. c # server' /\ c \in cut' /\ handler'[c] = handler[c]
    BY <1>4, NoConn
  <2>7. Stream(c, rest, ret, req)'
    BY <2>1, <2>5, <2>6 DEF Stream
  <2>8. rest \in Rest(c)'
    BY <1>4 DEF Rest
  <2> QED
    BY <2>7, <2>8 DEF Between
<1> QED
  BY <1>12, <1>13, <1>14 DEF InStep

--------------------------------------------------------------------------------
(* The client reads an answer.                                              *)

\* The answers of the switchboard.
LEMMA Forms ==
    ASSUME NEW n \in Nat, NEW kind \in Kind
    PROVE  /\ Ack(kind) \in Streams /\ Len(Ack(kind)) = 1 + IOSHORT /\ Ack(kind)[1].kind = kind
           /\ Reply(kind, n) \in Streams /\ Reply(kind, n)[1].kind = kind
           /\ Values(n) \in Streams /\ Values(n)[IOLONG + 1].n = n
           /\ Long(0) \o Work(n) \in Streams
           /\ Work(n) \in Streams /\ Work(n)[XATMI_SERVICE_NAME_LENGTH + 1].n = n
           /\ Data(n) \in Streams /\ Fill(n) \in Streams
<1>1. /\ Byte(kind, 0) \in Bytes /\ Byte(kind, 0).kind = kind
      /\ Byte("long", n).n = n
  BY Bytewise DEF Kind
<1>2. Ack(kind) \in Streams /\ Len(Ack(kind)) = 1 + IOSHORT /\ Ack(kind)[1].kind = kind
  BY <1>1, Answers DEF Ack
<1>3. Reply(kind, n) \in Streams /\ Reply(kind, n)[1].kind = kind
  BY <1>1, Answers DEF Reply
<1>4. Values(n) \in Streams /\ Values(n)[IOLONG + 1].n = n
  BY <1>1, Answers DEF Values
<1>5. Work(n) \in Streams /\ Work(n)[XATMI_SERVICE_NAME_LENGTH + 1].n = n
  BY <1>1, Answers
<1>6. Long(0) \o Work(n) \in Streams
  <2>1. Long(0) \o Work(n) = Join(Long(0), Work(n))
    BY DEF Join
  <2> QED
    BY <1>5, <2>1, Numbers, JoinType, ZenonT(40)
<1>7. Data(n) \in Streams /\ Fill(n) \in Streams
  BY Filled
<1> QED
  BY <1>2, <1>3, <1>4, <1>5, <1>6, <1>7

\* What each tx_read leaves of the answer.
LEMMA Leftover ==
    ASSUME NEW n \in Nat, NEW kind \in Kind
    PROVE  /\ Drop(Ack(kind), 1 + IOSHORT) = <<>>
           /\ Drop(Reply(kind, n), 1 + IOSHORT) = Values(n)
           /\ Drop(Values(n), IOLONG * 2) = Data(n)
           /\ Drop(Long(0) \o Work(n), IOLONG) = Work(n)
           /\ Drop(Work(n), XATMI_SERVICE_NAME_LENGTH + IOLONG * 2 + IOSHORT) = Data(n)
           /\ Drop(Data(n), n) = <<>> /\ Drop(Fill(n), n) = <<>>
<1>1. Byte(kind, 0) \in Bytes
  BY Bytewise, ZenonT(40) DEF Kind
<1>2. /\ Ack(kind) \in Streams /\ Len(Ack(kind)) = 1 + IOSHORT
      /\ Values(n) \in Streams /\ Work(n) \in Streams /\ Data(n) \in Streams /\ Fill(n) \in Streams
      /\ Len(Data(n)) = n /\ Len(Fill(n)) = n
  BY Forms, Filled
<1>3. Drop(Ack(kind), 1 + IOSHORT) = <<>>
  BY <1>2, Took
<1>4. Drop(Reply(kind, n), 1 + IOSHORT) = Values(n)
  <2>1. Reply(kind, n) = Join(Ack(kind), Values(n))
    BY <1>1, Answers DEF Reply, Ack, Values
  <2> QED
    BY <1>2, <2>1, Took, ZenonT(40)
<1>5. Drop(Values(n), IOLONG * 2) = Data(n)
  <2>1. /\ Values(n) = Join(Join(Long(0), Long(n)), Data(n))
        /\ Join(Long(0), Long(n)) \in Streams /\ Len(Join(Long(0), Long(n))) = IOLONG * 2
    BY <1>1, Answers DEF Values
  <2> QED
    BY <1>2, <2>1, Took
<1>6. Drop(Long(0) \o Work(n), IOLONG) = Work(n)
  <2>1. Long(0) \o Work(n) = Join(Long(0), Work(n))
    BY DEF Join
  <2>2. Long(0) \in Streams /\ Len(Long(0)) = IOLONG
    BY Numbers
  <2> QED
    BY <1>2, <2>1, <2>2, Took
<1>7. Drop(Work(n), XATMI_SERVICE_NAME_LENGTH + IOLONG * 2 + IOSHORT) = Data(n)
  <2>1. /\ Work(n) = Join(WorkHeader(n), Data(n)) /\ WorkHeader(n) \in Streams
        /\ Len(WorkHeader(n)) = XATMI_SERVICE_NAME_LENGTH + IOLONG * 2 + IOSHORT
    BY <1>1, Answers
  <2> QED
    BY <1>2, <2>1, Took
<1>8. Drop(Data(n), n) = <<>> /\ Drop(Fill(n), n) = <<>>
  <2>1. Drop(Data(n), Len(Data(n))) = <<>> /\ Drop(Fill(n), Len(Fill(n))) = <<>>
    BY <1>2, Took
  <2> QED
    BY <1>2, <2>1
<1> QED
  BY <1>3, <1>4, <1>5, <1>6, <1>7, <1>8

\* A tx_read that has its bytes has them from an answer to its own call.
LEMMA Arrived ==
    ASSUME InStep, lib # "idle", NEW c \in Conn, c = server, client[c] # "closed",
           Len(toClient[c]) >= expects
    PROVE  \E rest \in Rest(c) : Answered(c, rest)
<1>1. PICK rest \in Rest(c), ret \in Result, req \in Requested : Stream(c, rest, ret, req)
  BY DEF InStep, Between
<1>2. ASSUME NEW k \in Command, Asked(c, k, rest, req) PROVE FALSE
  <2>1. Len(toClient[c]) = 0
    BY <1>2, JoinEmpty DEF Asked
  <2>2. expects \in Nat /\ expects # 0
    BY <1>2, WireConstants DEF Asked, InStep, Shape, TypeOK, Expected
  <2> QED
    BY <2>1, <2>2
<1>3. Answered(c, rest)
  BY <1>1, <1>2 DEF Stream
<1> QED
  BY <1>3

\* The client reads a part of an answer, and goes on with the rest of it or returns.
LEMMA ReadOn ==
    ASSUME InStep, lib # "idle", NEW c \in Conn, c = server, NEW bytes \in Streams,
           toClient' = [toClient EXCEPT ![c] = bytes],
           UNCHANGED <<connVars, svrVars, toServer, len>>,
           lib' \in {"idle", "tpgetrply_lengths", "data", "tpservice_header", "tpservice_data"},
           expects' \in Nat, serving' \in BOOLEAN, Expected',
           client[c] # "closed" =>
               /\ <<>> \in Rest(c) /\ Answered(c, <<>>)
               /\ \/ lib' = "idle" /\ bytes = <<>>
                  \/ lib' # "idle" /\ Answer(bytes, lib', expects')
    PROVE  InStep'
<1>1. /\ TypeOK /\ Sizes /\ server \notin cut
      /\ \A d \in Conn : d # server => toClient[d] = <<>>
  BY DEF InStep, Shape
<1>2. /\ up' = up /\ server' = server /\ client' = client /\ cut' = cut
      /\ handler' = handler /\ size' = size /\ input' = input /\ calls' = calls
      /\ toServer' = toServer /\ len' = len
  BY DEF connVars, svrVars
<1>3. /\ toClient' \in [Conn -> Streams] /\ toClient'[c] = bytes
      /\ \A d \in Conn : d # c => toClient'[d] = toClient[d]
  BY <1>1 DEF TypeOK
<1>4. TypeOK'
  BY <1>1, <1>2, <1>3 DEF TypeOK
<1>5. Sizes'
  BY <1>1, <1>2 DEF Sizes
<1>6. Shape'
  BY <1>1, <1>2, <1>3, <1>4, <1>5, NoConn DEF Shape
<1>7. \A d \in Conn : Pending(d)' = Pending(d)
  BY <1>2 DEF Pending
<1>8. ASSUME NEW d \in Conn, d # c PROVE Between(d)'
  BY <1>2, <1>7, <1>8, Kept DEF InStep
<1>9. Between(c)'
  <2> SUFFICES ASSUME client[c] # "closed" PROVE Between(c)'
    BY <1>2 DEF Between
  <2>1. Pending(c)' = <<>> /\ handler'[c] \notin Busy
    BY <1>2, <1>7 DEF Answered
  <2>2. Sent(<<>>, <<>>, <<>>) = <<>> /\ Begins(<<>>, <<>>)
    BY Appended, Whole, JoinEmpty
  <2>3. lib' # "idle" => Answered(c, <<>>)'
    BY <1>3, <2>1 DEF Answered
  <2>4. Stream(c, <<>>, <<>>, <<>>)'
    BY <1>2, <1>3, <2>1, <2>2, <2>3 DEF Stream
  <2>5. <<>> \in Rest(c)' /\ <<>> \in Result /\ <<>> \in Requested
    BY <1>2 DEF Rest, Result, Requested
  <2> QED
    BY <2>4, <2>5 DEF Between
<1> QED
  BY <1>6, <1>8, <1>9 DEF InStep

\* What every tx_read does.
LEMMA Reading ==
    ASSUME InStep, NEW at, at # "idle", Reads(at)
    PROVE  /\ lib = at
           /\ UNCHANGED <<connVars, svrVars>>
           /\ \E c \in Conn :
                 /\ c = server /\ toClient[c] \in Streams
                 /\ Len(toClient[c]) >= expects
                 /\ Drop(toClient[c], expects) \in Streams
                 /\ toClient' = [toClient EXCEPT ![c] = Drop(toClient[c], expects)]
                 /\ client[c] # "closed" => \E rest \in Rest(c) : Answered(c, rest)
                 /\ \A i \in 1 .. expects : toClient[c][i].n \in Nat
<1>1. TypeOK /\ lib = at /\ server # 0 /\ Len(toClient[server]) >= expects
  BY DEF InStep, Shape, Reads
<1>2. PICK c \in Conn : c = server
  BY <1>1 DEF TypeOK
<1>3. toClient[c] \in Streams /\ expects \in Nat
  BY <1>1 DEF TypeOK
<1>4. expects \in 0 .. Len(toClient[c])
  BY <1>1, <1>2, <1>3, JoinLen
<1>5. Drop(toClient[c], expects) \in Streams
  BY <1>3, <1>4, TakeDrop
<1>6. toClient' = [toClient EXCEPT ![c] = Drop(toClient[c], expects)]
  BY <1>2 DEF Reads, Drop
<1>7. client[c] # "closed" => \E rest \in Rest(c) : Answered(c, rest)
  BY <1>1, <1>2, Arrived
<1>8. ASSUME NEW i \in 1 .. expects PROVE toClient[c][i].n \in Nat
  <2>1. i \in 1 .. Len(toClient[c])
    BY <1>3, <1>4, JoinLen
  <2>2. toClient[c][i] \in Bytes
    BY <1>3, <2>1 DEF Streams
  <2> QED
    BY <2>2 DEF Bytes
<1> QED
  BY <1>1, <1>2, <1>3, <1>5, <1>6, <1>7, <1>8 DEF Reads

\* A tx_read that fails because the switchboard is gone.
LEMMA tx_read_failsIn ==
    ASSUME InStep, tx_read_fails
    PROVE  InStep'
<1>1. PICK c \in Conn : c = server
  BY DEF InStep, Shape, TypeOK, tx_read_fails
<1>2. client[c] = "closed"
  BY <1>1, NoConn DEF tx_read_fails, Open
<1>3. /\ lib # "idle" /\ lib' = "idle" /\ expects' = 0 /\ serving' = serving
      /\ toClient' = [toClient EXCEPT ![c] = <<>>]
      /\ UNCHANGED <<connVars, svrVars, toServer, len>>
  BY <1>1 DEF tx_read_fails, Return
<1>4. <<>> \in Streams /\ serving' \in BOOLEAN /\ Expected'
  BY <1>3, JoinEmpty DEF InStep, Shape, TypeOK, Expected
<1> QED
  BY <1>1, <1>2, <1>3, <1>4, ReadOn

\* tpacall has its answer, and sends its data if it was told to.
LEMMA tpacall_answerIn ==
    ASSUME InStep, tpacall_answer
    PROVE  InStep'
<1>1. lib = "tpacall" /\ UNCHANGED <<connVars, svrVars>>
  BY Reading DEF tpacall_answer
<1>2. PICK c \in Conn :
        /\ c = server /\ toClient[c] \in Streams /\ Len(toClient[c]) >= expects
        /\ Drop(toClient[c], expects) \in Streams
        /\ toClient' = [toClient EXCEPT ![c] = Drop(toClient[c], expects)]
        /\ client[c] # "closed" => \E rest \in Rest(c) : Answered(c, rest)
  BY Reading DEF tpacall_answer
<1>3. /\ lib' = "idle" /\ expects' = 0 /\ len' = len /\ serving' = serving
      /\ IF toClient[c][1].kind = "ok" /\ Open
         THEN toServer' = [toServer EXCEPT ![c] = @ \o Data(len)] ELSE toServer' = toServer
  BY <1>2 DEF tpacall_answer, Return, Got, tx_write
<1>4. expects = 1 + IOSHORT /\ TypeOK /\ Sizes /\ server \notin cut /\ len \in Nat
      /\ \A d \in Conn : d # server => toClient[d] = <<>>
  BY <1>1, LengthsType DEF InStep, Shape, Expected, TypeOK
<1>5. serving' \in BOOLEAN /\ Expected'
  BY <1>3, <1>4 DEF TypeOK, Expected
<1>6. CASE client[c] = "closed"
  <2>1. toServer' = toServer
    BY <1>2, <1>3, <1>6 DEF Open
  <2> QED
    BY <1>1, <1>2, <1>3, <1>5, <1>6, <2>1, ReadOn
<1>7. CASE client[c] # "closed"
  <2>1. PICK rest \in Rest(c) : Answered(c, rest)
    BY <1>2, <1>7
  <2>2. toClient[c] \in {Ack("ok"), Ack("error")}
    BY <1>1, <2>1 DEF Answered, Answer
  <2>3. Drop(toClient[c], expects) = <<>>
    BY <1>4, <2>2, Leftover DEF Kind
  <2>4. CASE toClient[c] = Ack("error")
    <3>1. toClient[c][1].kind # "ok"
      BY <2>4, Forms DEF Kind
    <3>2. rest = <<>> /\ toServer' = toServer
      BY <1>3, <2>1, <3>1 DEF Answered
    <3> QED
      BY <1>1, <1>2, <1>3, <1>5, <2>1, <2>3, <3>2, JoinEmpty, ReadOn
  <2>5. CASE toClient[c] = Ack("ok")
    <3>1. toClient[c][1].kind = "ok"
      BY <2>5, Forms DEF Kind
    <3>2. toServer' = [toServer EXCEPT ![c] = @ \o Data(len)]
      BY <1>2, <1>3, <1>7, <3>1, NoConn DEF Open
    <3>3. rest = Data(len) /\ Pending(c) = <<>> /\ handler[c] \notin Busy
      BY <1>1, <2>1, <3>1 DEF Answered
    <3>4. /\ up' = up /\ server' = server /\ client' = client /\ cut' = cut
          /\ handler' = handler /\ size' = size /\ input' = input /\ calls' = calls
      BY <1>1 DEF connVars, svrVars
    <3>5. Data(len) \in Streams
      BY <1>4, Filled
    <3>6. /\ toServer' \in [Conn -> Streams]
          /\ Pending(c)' = Join(Pending(c), Data(len))
          /\ \A d \in Conn \ {c} : Pending(d)' = Pending(d) /\ toServer'[d] = toServer[d]
      BY <1>4, <3>2, <3>4, <3>5, PendingAppended
    <3>7. /\ toClient' \in [Conn -> Streams] /\ toClient'[c] = <<>>
          /\ \A d \in Conn : d # c => toClient'[d] = toClient[d]
      BY <1>2, <1>4, <2>3, JoinEmpty DEF TypeOK
    <3>8. TypeOK'
      BY <1>3, <1>4, <3>4, <3>6, <3>7 DEF TypeOK
    <3>9. Sizes'
      BY <1>4, <1>7, <3>4, <3>6 DEF Sizes
    <3>10. Shape'
      BY <1>2, <1>3, <1>4, <1>5, <3>4, <3>7, <3>8, <3>9 DEF Shape
    <3>11. ASSUME NEW d \in Conn, d # c PROVE Between(d)'
      BY <1>2, <3>4, <3>6, <3>11, Kept DEF InStep
    <3>12. Between(c)'
      <4>1. Pending(c)' = rest /\ Sent(rest, <<>>, <<>>) = rest /\ Begins(rest, rest)
        BY <3>3, <3>5, <3>6, JoinEmpty, Appended, Whole
      <4>2. Stream(c, rest, <<>>, <<>>)'
        BY <1>2, <1>3, <3>3, <3>4, <3>7, <4>1 DEF Stream
      <4>3. rest \in Rest(c)' /\ <<>> \in Result /\ <<>> \in Requested
        BY <3>4 DEF Rest, Result, Requested
      <4> QED
        BY <4>2, <4>3 DEF Between
    <3> QED
      BY <3>10, <3>11, <3>12 DEF InStep
  <2> QED
    BY <2>2, <2>4, <2>5
<1> QED
  BY <1>6, <1>7

\* tpgetrply has the first part of its answer.  If the result of a service were one that
\* the library takes for an error, it would leave the rest of the answer unread.
LEMMA tpgetrply_answerIn ==
    ASSUME InStep, tpgetrply_answer, Results \subseteq {"TPSUCCESS", "TPFAIL"}
    PROVE  InStep'
<1>1. lib = "tpgetrply" /\ UNCHANGED <<connVars, svrVars>>
  BY Reading DEF tpgetrply_answer
<1>2. PICK c \in Conn :
        /\ c = server /\ Drop(toClient[c], expects) \in Streams
        /\ toClient' = [toClient EXCEPT ![c] = Drop(toClient[c], expects)]
        /\ client[c] # "closed" => \E rest \in Rest(c) : Answered(c, rest)
  BY Reading DEF tpgetrply_answer
<1>3. /\ toServer' = toServer /\ len' = len /\ serving' = serving
      /\ IF toClient[c][1].kind \in {"TPSUCCESS", "TPFAIL"}
         THEN lib' = "tpgetrply_lengths" /\ expects' = IOLONG * 2 ELSE lib' = "idle" /\ expects' = 0
  BY <1>2 DEF tpgetrply_answer, Return, Got, HasData, tx_read
<1>4. expects = 1 + IOSHORT /\ serving' \in BOOLEAN /\ Expected' /\ expects' \in Nat
  BY <1>1, <1>3, WireConstants DEF InStep, Shape, Expected, TypeOK
<1>5. ASSUME client[c] # "closed"
      PROVE  /\ <<>> \in Rest(c) /\ Answered(c, <<>>)
             /\ \/ lib' = "idle" /\ Drop(toClient[c], expects) = <<>>
                \/ lib' # "idle" /\ Answer(Drop(toClient[c], expects), lib', expects')
  <2>1. <<>> \in Rest(c) /\ Answered(c, <<>>)
    BY <1>1, <1>2, <1>5 DEF Answered
  <2>2. CASE toClient[c] = Ack("TPERRNO")
    <3>1. toClient[c][1].kind = "TPERRNO" /\ Drop(toClient[c], expects) = <<>>
      BY <1>4, <2>2, Forms, Leftover DEF Kind
    <3> QED
      BY <1>3, <2>1, <3>1
  <2>3. ASSUME NEW rval \in Results, NEW n \in DataLength, toClient[c] = Reply(rval, n)
        PROVE  lib' = "tpgetrply_lengths" /\ Drop(toClient[c], expects) = Values(n)
    <3>1. rval \in {"TPSUCCESS", "TPFAIL"} /\ rval \in Kind /\ n \in Nat
      BY <2>3, LengthsType DEF Kind
    <3>2. toClient[c][1].kind = rval /\ Drop(toClient[c], expects) = Values(n)
      BY <1>4, <2>3, <3>1, Forms, Leftover
    <3> QED
      BY <1>3, <3>1, <3>2
  <2>4. \/ toClient[c] = Ack("TPERRNO")
        \/ \E rval \in Results, n \in DataLength : toClient[c] = Reply(rval, n)
    BY <1>1, <2>1 DEF Answered, Answer
  <2> QED
    BY <2>1, <2>2, <2>3, <2>4 DEF Answer
<1> QED
  BY <1>1, <1>2, <1>3, <1>4, <1>5, ReadOn

\* tpgetrply has the lengths, and goes on to the data.
LEMMA tpgetrply_lengthsIn ==
    ASSUME InStep, tpgetrply_lengths
    PROVE  InStep'
<1>1. lib = "tpgetrply_lengths" /\ UNCHANGED <<connVars, svrVars>>
  BY Reading DEF tpgetrply_lengths
<1>2. PICK c \in Conn :
        /\ c = server /\ Drop(toClient[c], expects) \in Streams
        /\ toClient' = [toClient EXCEPT ![c] = Drop(toClient[c], expects)]
        /\ client[c] # "closed" => \E rest \in Rest(c) : Answered(c, rest)
        /\ \A i \in 1 .. expects : toClient[c][i].n \in Nat
  BY Reading DEF tpgetrply_lengths
<1>3. PICK m : m = toClient[c][IOLONG + 1].n
  OBVIOUS
<1>4. /\ toServer' = toServer /\ len' = len /\ serving' = serving
      /\ IF m # 0 THEN lib' = "data" /\ expects' = m ELSE lib' = "idle" /\ expects' = 0
  BY <1>2, <1>3 DEF tpgetrply_lengths, Return, Got, tx_read
<1>5. expects = IOLONG * 2 /\ serving' \in BOOLEAN /\ Expected'
  BY <1>1, <1>4 DEF InStep, Shape, Expected, TypeOK
<1>6. m \in Nat /\ expects' \in Nat
  <2>1. IOLONG + 1 \in 1 .. expects
    BY <1>5, WireConstants
  <2> QED
    BY <1>2, <1>3, <1>4, <2>1
<1>7. ASSUME client[c] # "closed"
      PROVE  /\ <<>> \in Rest(c) /\ Answered(c, <<>>)
             /\ \/ lib' = "idle" /\ Drop(toClient[c], expects) = <<>>
                \/ lib' # "idle" /\ Answer(Drop(toClient[c], expects), lib', expects')
  <2>1. <<>> \in Rest(c) /\ Answered(c, <<>>)
    BY <1>1, <1>2, <1>7 DEF Answered
  <2>2. PICK n \in DataLength : toClient[c] = Values(n)
    BY <1>1, <2>1 DEF Answered, Answer
  <2>3. n \in Nat /\ "data" \in Kind
    BY LengthsType DEF Kind
  <2>4. m = n /\ Drop(toClient[c], expects) = Data(m)
    BY <1>3, <1>5, <2>2, <2>3, Forms, Leftover
  <2> QED
    BY <1>4, <2>1, <2>4, Filled DEF Answer
<1> QED
  BY <1>1, <1>2, <1>4, <1>5, <1>6, <1>7, ReadOn

\* The last tx_read of a call, or of a piece of work.
LEMMA last_readIn ==
    ASSUME InStep, last_read \/ tpservice_data
    PROVE  InStep'
<1>1. PICK at \in {"data", "tpservice_data"} : Reads(at)
  BY DEF last_read, tpservice_data
<1>2. lib = at /\ UNCHANGED <<connVars, svrVars>>
  BY <1>1, Reading
<1>3. PICK c \in Conn :
        /\ c = server /\ Drop(toClient[c], expects) \in Streams
        /\ toClient' = [toClient EXCEPT ![c] = Drop(toClient[c], expects)]
        /\ client[c] # "closed" => \E rest \in Rest(c) : Answered(c, rest)
  BY <1>1, Reading
<1>4. /\ toServer' = toServer /\ len' = len /\ serving' \in BOOLEAN
      /\ lib' = "idle" /\ expects' = 0
  BY DEF last_read, tpservice_data, Return, InStep, Shape, TypeOK
<1>5. Expected' /\ expects \in Nat
  BY <1>4 DEF InStep, Shape, Expected, TypeOK
<1>6. ASSUME client[c] # "closed"
      PROVE  <<>> \in Rest(c) /\ Answered(c, <<>>) /\ Drop(toClient[c], expects) = <<>>
  <2>1. <<>> \in Rest(c) /\ Answered(c, <<>>)
    BY <1>2, <1>3, <1>6 DEF Answered
  <2>2. toClient[c] \in {Fill(expects), Data(expects)}
    BY <1>2, <2>1 DEF Answered, Answer
  <2> QED
    BY <1>5, <2>1, <2>2, Leftover DEF Kind
<1> QED
  BY <1>2, <1>3, <1>4, <1>5, <1>6, ReadOn

\* The server has the first part of its work.
LEMMA tpservice_opaqueIn ==
    ASSUME InStep, tpservice_opaque
    PROVE  InStep'
<1>1. lib = "tpservice" /\ UNCHANGED <<connVars, svrVars>>
  BY Reading DEF tpservice_opaque
<1>2. PICK c \in Conn :
        /\ c = server /\ Drop(toClient[c], expects) \in Streams
        /\ toClient' = [toClient EXCEPT ![c] = Drop(toClient[c], expects)]
        /\ client[c] # "closed" => \E rest \in Rest(c) : Answered(c, rest)
  BY Reading DEF tpservice_opaque
<1>3. /\ toServer' = toServer /\ len' = len /\ serving' = serving /\ lib' = "tpservice_header"
      /\ expects' = XATMI_SERVICE_NAME_LENGTH + IOLONG * 2 + IOSHORT
  BY DEF tpservice_opaque, tx_read
<1>4. expects = IOLONG /\ serving' \in BOOLEAN /\ Expected' /\ expects' \in Nat
  BY <1>1, <1>3, WireConstants DEF InStep, Shape, Expected, TypeOK
<1>5. ASSUME client[c] # "closed"
      PROVE  /\ <<>> \in Rest(c) /\ Answered(c, <<>>)
             /\ Answer(Drop(toClient[c], expects), lib', expects')
  <2>1. <<>> \in Rest(c) /\ Answered(c, <<>>)
    BY <1>1, <1>2, <1>5 DEF Answered
  <2>2. PICK n \in DataLength : toClient[c] = Long(0) \o Work(n)
    BY <1>1, <2>1 DEF Answered, Answer
  <2>3. n \in Nat /\ "data" \in Kind
    BY LengthsType DEF Kind
  <2>4. Drop(toClient[c], expects) = Work(n)
    BY <1>4, <2>2, <2>3, Leftover
  <2> QED
    BY <1>3, <2>1, <2>4 DEF Answer
<1> QED
  BY <1>1, <1>2, <1>3, <1>4, <1>5, ReadOn

\* The server has the header of its work, and goes on to the data.
LEMMA tpservice_headerIn ==
    ASSUME InStep, tpservice_header
    PROVE  InStep'
<1>1. lib = "tpservice_header" /\ UNCHANGED <<connVars, svrVars>>
  BY Reading DEF tpservice_header
<1>2. PICK c \in Conn :
        /\ c = server /\ Drop(toClient[c], expects) \in Streams
        /\ toClient' = [toClient EXCEPT ![c] = Drop(toClient[c], expects)]
        /\ client[c] # "closed" => \E rest \in Rest(c) : Answered(c, rest)
        /\ \A i \in 1 .. expects : toClient[c][i].n \in Nat
  BY Reading DEF tpservice_header
<1>3. /\ toServer' = toServer /\ len' = len /\ serving' = serving /\ lib' = "tpservice_data"
      /\ expects' = toClient[c][XATMI_SERVICE_NAME_LENGTH + 1].n
  BY <1>2 DEF tpservice_header, tx_read, Got
<1>4. /\ expects = XATMI_SERVICE_NAME_LENGTH + IOLONG * 2 + IOSHORT
      /\ serving' \in BOOLEAN /\ Expected'
  BY <1>1, <1>3 DEF InStep, Shape, Expected, TypeOK
<1>5. expects' \in Nat
  <2>1. XATMI_SERVICE_NAME_LENGTH + 1 \in 1 .. expects
    BY <1>4, WireConstants
  <2> QED
    BY <1>2, <1>3, <2>1
<1>6. ASSUME client[c] # "closed"
      PROVE  /\ <<>> \in Rest(c) /\ Answered(c, <<>>)
             /\ Answer(Drop(toClient[c], expects), lib', expects')
  <2>1. <<>> \in Rest(c) /\ Answered(c, <<>>)
    BY <1>1, <1>2, <1>6 DEF Answered
  <2>2. PICK n \in DataLength : toClient[c] = Work(n)
    BY <1>1, <2>1 DEF Answered, Answer
  <2>3. n \in Nat /\ "data" \in Kind
    BY LengthsType DEF Kind
  <2>4. Drop(toClient[c], expects) = Data(n) /\ expects' = n
    BY <1>3, <1>4, <2>2, <2>3, Forms, Leftover
  <2> QED
    BY <1>3, <2>1, <2>4 DEF Answer
<1> QED
  BY <1>1, <1>2, <1>3, <1>4, <1>5, <1>6, ReadOn

\* Every step of the client keeps the two sides in step.
LEMMA LibIn ==
    ASSUME InStep, Lib, Results \subseteq {"TPSUCCESS", "TPFAIL"}
    PROVE  InStep'
<1>1. CASE LibReads
  BY <1>1, tx_read_failsIn, tpacall_answerIn, tpgetrply_answerIn, tpgetrply_lengthsIn,
     last_readIn, tpservice_opaqueIn, tpservice_headerIn DEF LibReads
<1>2. CASE tx_close
  BY <1>2, closeIn DEF tx_close
<1> QED
  BY <1>1, <1>2, CallsIn, tpreturnIn, tx_openIn, diesIn DEF Lib

--------------------------------------------------------------------------------
(* The switchboard.                                                         *)

\* The switchboard starts.
LEMMA mainIn ==
    ASSUME InStep, main
    PROVE  InStep'
<1>1. /\ server' = server /\ client' = client /\ cut' = cut /\ up' = TRUE
      /\ toServer' = toServer /\ toClient' = toClient
      /\ lib' = lib /\ expects' = expects /\ len' = len /\ serving' = serving
      /\ handler' = handler /\ size' = size /\ input' = input /\ calls' = calls
  BY DEF main, libVars, svrVars
<1>2. Shape'
  BY <1>1 DEF InStep, Shape, TypeOK, Sizes, Expected
<1>3. ASSUME NEW d \in Conn PROVE Between(d)'
  <2>1. Pending(d)' = Pending(d)
    BY <1>1 DEF Pending
  <2> QED
    BY <1>1, <2>1, Kept DEF InStep, libVars
<1> QED
  BY <1>2, <1>3 DEF InStep

\* The switchboard exits.
LEMMA exit_handlerIn ==
    ASSUME InStep, exit_handler
    PROVE  InStep'
<1>1. /\ server' = server /\ cut' = cut /\ up' = FALSE /\ toClient' = toClient
      /\ lib' = lib /\ expects' = expects /\ len' = len /\ serving' = serving
  BY DEF exit_handler, libVars
<1>2. TypeOK'
  BY <1>1, JoinEmpty DEF InStep, Shape, TypeOK, exit_handler
<1>3. Sizes' /\ Expected'
  BY <1>1 DEF exit_handler, Sizes, Expected, InStep, Shape
<1>4. Shape'
  BY <1>1, <1>2, <1>3 DEF InStep, Shape
<1>5. \A d \in Conn : Between(d)'
  BY DEF exit_handler, Between
<1> QED
  BY <1>4, <1>5 DEF InStep

\* Iowait accepts a connection, whose first byte is to be a command.
LEMMA Iowait_acceptsIn ==
    ASSUME InStep, NEW c \in Conn, Iowait_accepts(c)
    PROVE  InStep'
<1>1. TypeOK /\ Sizes /\ Expected
  BY DEF InStep, Shape
<1>2. /\ client[c] = "backlog" /\ client' = [client EXCEPT ![c] = "open"]
      /\ handler' = [handler EXCEPT ![c] = "command"] /\ size' = [size EXCEPT ![c] = 1]
      /\ up' = up /\ server' = server /\ cut' = cut /\ toServer' = toServer /\ toClient' = toClient
      /\ lib' = lib /\ expects' = expects /\ len' = len /\ serving' = serving
      /\ input' = input /\ calls' = calls
  BY DEF Iowait_accepts, svr_next_command, svriowait, SvrUnchanged, libVars
<1>3. handler[c] = "none" /\ size[c] = 0
  BY <1>1, <1>2 DEF Sizes
<1>4. input[c] = <<>>
  <2>1. Len(input[c]) \in Nat
    BY <1>1, JoinLen DEF TypeOK
  <2> QED
    BY <1>1, <1>3, <2>1 DEF Sizes
<1>5. /\ client'[c] = "open" /\ handler'[c] = "command" /\ size'[c] = 1
      /\ \A d \in Conn : d # c =>
            client'[d] = client[d] /\ handler'[d] = handler[d] /\ size'[d] = size[d]
  BY <1>1, <1>2 DEF TypeOK
<1>6. TypeOK' /\ Expected'
  BY <1>1, <1>2 DEF TypeOK, Expected
<1>7. Sizes'
  BY <1>1, <1>2, <1>4, <1>5 DEF Sizes
<1>8. Shape'
  BY <1>2, <1>6, <1>7 DEF InStep, Shape
<1>9. \A d \in Conn : Pending(d)' = Pending(d)
  BY <1>2 DEF Pending
<1>10. ASSUME NEW d \in Conn, d # c PROVE Between(d)'
  BY <1>2, <1>5, <1>9, <1>10, Kept DEF InStep, libVars
<1>11. Between(c)'
  <2>1. PICK rest \in Rest(c), ret \in Result, req \in Requested : Stream(c, rest, ret, req)
    BY <1>2 DEF InStep, Between
  <2>2. "none" \notin Command /\ "command" \notin Command /\ "none" \notin Busy /\ "command" \notin Busy
    BY Commands DEF Busy
  <2>3. rest \in Rest(c)'
    BY <1>3, <1>5, <2>2 DEF Rest
  <2>4. \A k \in Command : Asked(c, k, rest, req) => Asked(c, k, rest, req)'
    BY <1>2, <1>3, <1>5, <2>2 DEF Asked
  <2>5. Answered(c, rest) => Answered(c, rest)'
    BY <1>2, <1>5, <1>9, <2>2 DEF Answered
  <2>6. Stream(c, rest, ret, req)'
    BY <1>2, <1>3, <1>5, <1>9, <2>1, <2>2, <2>4, <2>5 DEF Stream
  <2> QED
    BY <2>3, <2>6 DEF Between
<1> QED
  BY <1>8, <1>10, <1>11 DEF InStep

\* Iowait reads a part of what a handler waits for.
LEMMA Iowait_partIn ==
    ASSUME InStep, NEW c \in Conn, NEW n \in 1 .. Len(toServer[c]), Iowait_part(c, n)
    PROVE  InStep'
<1>1. TypeOK /\ Sizes /\ Expected
  BY DEF InStep, Shape
<1>2. /\ client[c] = "open" /\ Len(input[c]) + n < size[c]
      /\ input' = [input EXCEPT ![c] = Join(@, Take(toServer[c], n))]
      /\ toServer' = [toServer EXCEPT ![c] = Drop(@, n)]
      /\ up' = up /\ server' = server /\ cut' = cut /\ client' = client /\ toClient' = toClient
      /\ lib' = lib /\ expects' = expects /\ len' = len /\ serving' = serving
      /\ handler' = handler /\ size' = size /\ calls' = calls
  BY DEF Iowait_part, SvrUnchanged, libVars, Join, Take, Drop
<1>3. input[c] \in Streams /\ toServer[c] \in Streams
  BY <1>1, Parts
<1>4. n \in 0 .. Len(toServer[c])
  OBVIOUS
<1>5. /\ Take(toServer[c], n) \in Streams /\ Len(Take(toServer[c], n)) = n
      /\ Drop(toServer[c], n) \in Streams
  BY <1>3, <1>4, TakeDrop
<1>6. /\ Join(input[c], Take(toServer[c], n)) \in Streams
      /\ Len(Join(input[c], Take(toServer[c], n))) = Len(input[c]) + n
  BY <1>3, <1>5, JoinType, JoinLen
<1>7. /\ input'[c] = Join(input[c], Take(toServer[c], n))
      /\ toServer'[c] = Drop(toServer[c], n)
      /\ \A d \in Conn : d # c => input'[d] = input[d] /\ toServer'[d] = toServer[d]
      /\ input' \in [Conn -> Streams] /\ toServer' \in [Conn -> Streams]
  BY <1>1, <1>2, <1>5, <1>6 DEF TypeOK
<1>8. TypeOK' /\ Expected'
  BY <1>1, <1>2, <1>7 DEF TypeOK, Expected
<1>9. Sizes'
  BY <1>1, <1>2, <1>6, <1>7 DEF Sizes
<1>10. Shape'
  BY <1>2, <1>8, <1>9 DEF InStep, Shape
<1>11. Pending(c)' = Pending(c)
  <2>1. Join(Join(input[c], Take(toServer[c], n)), Drop(toServer[c], n)) = Join(input[c], toServer[c])
    BY <1>3, <1>4, Moved, Zenon
  <2>2. Pending(c) = Join(input[c], toServer[c]) /\ Pending(c)' = Join(input'[c], toServer'[c])
    BY DEF Pending, Join
  <2> QED
    BY <1>7, <2>1, <2>2
<1>12. \A d \in Conn : d # c => Pending(d)' = Pending(d)
  BY <1>7 DEF Pending
<1>13. ASSUME NEW d \in Conn PROVE Between(d)'
  BY <1>2, <1>11, <1>12, Kept DEF InStep, libVars
<1> QED
  BY <1>10, <1>13 DEF InStep

\* Iowait deletes a connection at its end.
LEMMA Iowait_deletesIn ==
    ASSUME InStep, NEW c \in Conn, Iowait_deletes(c)
    PROVE  InStep'
<1>1. TypeOK /\ Sizes /\ Expected
  BY DEF InStep, Shape
<1>2. /\ client' = [client EXCEPT ![c] = "closed"]
      /\ handler' = [handler EXCEPT ![c] = "none"] /\ size' = [size EXCEPT ![c] = 0]
      /\ calls' = [calls EXCEPT ![c] = 0] /\ toClient' = toClient
      /\ input' = [input EXCEPT ![c] = <<>>] /\ toServer' = [toServer EXCEPT ![c] = <<>>]
      /\ up' = up /\ server' = server /\ cut' = cut
      /\ lib' = lib /\ expects' = expects /\ len' = len /\ serving' = serving
  BY DEF Iowait_deletes, del_client, Hang, SvrUnchanged, libVars
<1>3. /\ client'[c] = "closed" /\ handler'[c] = "none" /\ size'[c] = 0
      /\ input'[c] = <<>> /\ toServer'[c] = <<>>
      /\ \A d \in Conn : d # c =>
            /\ client'[d] = client[d] /\ handler'[d] = handler[d] /\ size'[d] = size[d]
            /\ input'[d] = input[d] /\ toServer'[d] = toServer[d]
  BY <1>1, <1>2 DEF TypeOK
<1>4. TypeOK' /\ Expected'
  BY <1>1, <1>2, JoinEmpty DEF TypeOK, Expected
<1>5. Sizes'
  BY <1>1, <1>3 DEF Sizes
<1>6. Shape'
  BY <1>2, <1>4, <1>5 DEF InStep, Shape
<1>7. ASSUME NEW d \in Conn, d # c PROVE Between(d)'
  <2>1. Pending(d)' = Pending(d)
    BY <1>3, <1>7 DEF Pending
  <2> QED
    BY <1>2, <1>3, <1>7, <2>1, Kept DEF InStep, libVars
<1>8. Between(c)'
  BY <1>3 DEF Between
<1> QED
  BY <1>6, <1>7, <1>8 DEF InStep

\* What a handler may wait for, and how much of it.
Suits(h, z) ==
    \/ h = "command" /\ z = 1
    \/ h \in Command \ {"TPTWORK"} /\ z = command_length[h]
    \/ h \in {"send_to_worker", "part2"} /\ z > 0
    \/ h \in {"reply", "work"} /\ z = 0

\* A step of the handler of c, which concerns no other connection.
Handles(c, h, z, ts, bytes) ==
    /\ client[c] = "open" /\ client' = client
    /\ handler' = [handler EXCEPT ![c] = h] /\ size' = [size EXCEPT ![c] = z]
    /\ toServer' = [toServer EXCEPT ![c] = ts] /\ input' = [input EXCEPT ![c] = <<>>]
    /\ toClient' = IF c = server THEN [toClient EXCEPT ![c] = bytes] ELSE toClient
    /\ calls' \in [Conn -> Nat]
    /\ SvrUnchanged

\* A step of a handler leaves the other connections as they are.
LEMMA HandlesIn ==
    ASSUME InStep, NEW c \in Conn, NEW h, NEW z \in Nat, NEW ts \in Streams, NEW bytes \in Streams,
           Handles(c, h, z, ts, bytes), Suits(h, z)
    PROVE  /\ Shape' /\ \A d \in Conn : d # c => Between(d)'
           /\ Pending(c)' = ts /\ handler'[c] = h /\ size'[c] = z
           /\ c = server => toClient'[c] = bytes
           /\ server' = server /\ cut' = cut /\ client'[c] = "open"
           /\ lib' = lib /\ expects' = expects /\ len' = len /\ serving' = serving
<1>1. TypeOK /\ Sizes /\ Expected
  BY DEF InStep, Shape
<1>2. /\ client[c] = "open" /\ client' = client
      /\ handler' = [handler EXCEPT ![c] = h] /\ size' = [size EXCEPT ![c] = z]
      /\ toServer' = [toServer EXCEPT ![c] = ts] /\ input' = [input EXCEPT ![c] = <<>>]
      /\ toClient' = IF c = server THEN [toClient EXCEPT ![c] = bytes] ELSE toClient
      /\ calls' \in [Conn -> Nat]
      /\ up' = up /\ server' = server /\ cut' = cut
      /\ lib' = lib /\ expects' = expects /\ len' = len /\ serving' = serving
  BY DEF Handles, SvrUnchanged, libVars
<1>3. h \in Command \cup {"none", "command", "send_to_worker", "part2", "reply", "work"}
  BY DEF Suits
<1>4. /\ handler'[c] = h /\ size'[c] = z /\ toServer'[c] = ts /\ input'[c] = <<>>
      /\ c = server => toClient'[c] = bytes
      /\ \A d \in Conn : d # c =>
            /\ handler'[d] = handler[d] /\ size'[d] = size[d]
            /\ toServer'[d] = toServer[d] /\ input'[d] = input[d] /\ toClient'[d] = toClient[d]
  BY <1>1, <1>2 DEF TypeOK
<1>5. TypeOK'
  <2>1. handler' \in [Conn -> Command \cup {"none", "command", "send_to_worker", "part2",
                                           "reply", "work"}]
    BY <1>1, <1>2, <1>3 DEF TypeOK
  <2>2. size' \in [Conn -> Nat] /\ toServer' \in [Conn -> Streams] /\ input' \in [Conn -> Streams]
        /\ toClient' \in [Conn -> Streams]
    BY <1>1, <1>2, JoinEmpty DEF TypeOK
  <2> QED
    BY <1>1, <1>2, <2>1, <2>2 DEF TypeOK
<1>6. Expected'
  BY <1>1, <1>2 DEF Expected
<1>7. Sizes'
  BY <1>1, <1>2, <1>4 DEF Sizes, Suits
<1>8. Shape'
  <2>1. \A d \in Conn : d # server' => toClient'[d] = <<>>
    BY <1>2, <1>4 DEF InStep, Shape
  <2> QED
    BY <1>2, <1>5, <1>6, <1>7, <2>1 DEF InStep, Shape
<1>9. ASSUME NEW d \in Conn, d # c PROVE Between(d)'
  <2>1. Pending(d)' = Pending(d)
    BY <1>4, <1>9 DEF Pending
  <2> QED
    BY <1>2, <1>4, <1>9, <2>1, Kept DEF InStep, libVars
<1>10. Pending(c)' = ts
  <2>1. Pending(c)' = Join(<<>>, ts)
    BY <1>4 DEF Pending, Join
  <2> QED
    BY <2>1, JoinEmpty
<1> QED
  BY <1>2, <1>4, <1>8, <1>9, <1>10

\* A request that has been answered.
LEMMA Answering ==
    ASSUME NEW c \in Conn, NEW rest \in Streams, rest \in Rest(c)', Pending(c)' = <<>>,
           handler'[c] \notin Busy,
           c = server' => Answered(c, rest)',
           c # server' => c \in cut'
    PROVE  Between(c)'
<1>1. Sent(rest, <<>>, <<>>) = rest /\ Begins(<<>>, rest)
  BY Appended, Whole, JoinEmpty
<1>2. Stream(c, rest, <<>>, <<>>)'
  BY <1>1 DEF Stream
<1>3. <<>> \in Result /\ <<>> \in Requested
  BY DEF Result, Requested
<1> QED
  BY <1>2, <1>3 DEF Between

\* A request that is with its handler, or that waits for a reply or for work.
LEMMA Hanging ==
    ASSUME NEW c \in Conn, NEW rest \in Streams, rest \in Rest(c)', Begins(Pending(c)', rest),
           NEW k \in Command,
           c = server' => Asked(c, k, rest, <<>>)' /\ Pending(c)' = rest,
           c # server' => c \in cut'
    PROVE  Between(c)'
<1>1. Sent(rest, <<>>, <<>>) = rest
  BY Appended, JoinEmpty
<1>2. Stream(c, rest, <<>>, <<>>)'
  BY <1>1 DEF Stream
<1>3. <<>> \in Result /\ <<>> \in Requested
  BY DEF Result, Requested
<1> QED
  BY <1>2, <1>3 DEF Between

\* The switchboard goes on to what the client wrote next.
LEMMA Advancing ==
    ASSUME TypeOK, NEW c \in Conn, NEW rest, NEW ret, NEW req, Stream(c, rest, ret, req),
           NEW rest2 \in Streams, NEW ret2 \in Streams, req \in Streams, NEW x \in Streams,
           Sent(rest, ret, req) = Join(x, Sent(rest2, ret2, req)),
           ret2 = ret \/ ret2 = <<>>,
           Len(x) <= Len(Pending(c)), Pending(c) # <<>>, Pending(c)' = Drop(Pending(c), Len(x)),
           handler[c] \notin Busy, handler'[c] \notin Busy,
           c = server => toClient'[c] = toClient[c],
           server' = server, cut' = cut,
           lib' = lib, expects' = expects, len' = len, serving' = serving
    PROVE  Stream(c, rest2, ret2, req)'
<1>1. Pending(c) \in Streams /\ Sent(rest2, ret2, req) \in Streams
  BY Parts, SentJoin
<1>2. Begins(Pending(c), Join(x, Sent(rest2, ret2, req)))
  BY DEF Stream
<1>3. /\ Begins(Pending(c)', Sent(rest2, ret2, req))
      /\ Pending(c) = Sent(rest, ret, req) => Pending(c)' = Sent(rest2, ret2, req)
  BY <1>1, <1>2, Dropped
<1>4. \A k \in Command : Asked(c, k, rest, req) /\ c = server => Asked(c, k, rest2, req)'
  BY DEF Asked, Busy
<1>5. ~Answered(c, rest)
  BY DEF Answered
<1> QED
  BY <1>3, <1>4, <1>5 DEF Stream

\* A request is answered at once, and the next command is awaited.
LEMMA Replied ==
    ASSUME InStep, NEW c \in Conn, NEW bytes \in Streams, Handles(c, "command", 1, <<>>, bytes),
           c # server => c \in cut,
           c = server => /\ lib # "idle" /\ Answer(bytes, lib, expects)
                         /\ ~(lib = "tpacall" /\ bytes[1].kind = "ok")
    PROVE  InStep'
<1>1. <<>> \in Streams /\ 1 \in Nat /\ Suits("command", 1)
  BY JoinEmpty DEF Suits
<1>2. /\ Shape' /\ \A d \in Conn : d # c => Between(d)'
      /\ Pending(c)' = <<>> /\ handler'[c] = "command"
      /\ c = server => toClient'[c] = bytes
      /\ server' = server /\ cut' = cut
      /\ lib' = lib /\ expects' = expects
  BY <1>1, HandlesIn
<1>3. "command" \notin Busy /\ <<>> \in Rest(c)'
  BY <1>2, Commands DEF Busy, Rest
<1>4. c = server => Answered(c, <<>>)'
  BY <1>2, <1>3 DEF Answered
<1>5. Between(c)'
  BY <1>1, <1>2, <1>3, <1>4, Answering
<1> QED
  BY <1>2, <1>5 DEF InStep

\* What the switchboard writes to the client that waits for it.
LEMMA Wrote ==
    ASSUME TypeOK, NEW c \in Conn, NEW bytes \in Streams, c = server => toClient[c] = <<>>,
           svrwrite(c, bytes)
    PROVE  toClient' = IF c = server THEN [toClient EXCEPT ![c] = bytes] ELSE toClient
<1>1. c = server => toClient[c] \o bytes = bytes
  <2>1. c = server => toClient[c] \o bytes = Join(<<>>, bytes)
    BY DEF Join
  <2> QED
    BY <2>1, JoinEmpty
<1> QED
  BY <1>1 DEF svrwrite

\* The client of a request that is not answered yet waits for the answer, or has died.
LEMMA Waiting ==
    ASSUME InStep, NEW c \in Conn, client[c] = "open", handler[c] \in Busy
    PROVE  \E rest \in Rest(c) :
              /\ rest \in Streams /\ Begins(Pending(c), rest)
              /\ c # server => c \in cut
              /\ c = server => /\ Pending(c) = rest /\ toClient[c] = <<>>
                               /\ \E k \in Command : Asked(c, k, rest, <<>>)
<1>1. PICK rest \in Rest(c), ret \in Result, req \in Requested : Stream(c, rest, ret, req)
  BY DEF InStep, Between
<1>2. rest \in Streams
  BY Parts DEF InStep, Shape
<1>3. ret = <<>> /\ req = <<>> /\ Sent(rest, <<>>, <<>>) = rest
  BY <1>1, <1>2, Appended, JoinEmpty DEF Stream
<1>4. Begins(Pending(c), rest) /\ (c # server => c \in cut)
  BY <1>1, <1>3 DEF Stream
<1>5. c = server => \E k \in Command : Asked(c, k, rest, <<>>) /\ Pending(c) = rest
  BY <1>1, <1>3 DEF Stream, Answered
<1>6. c = server => toClient[c] = <<>>
  BY <1>5 DEF Asked
<1> QED
  BY <1>2, <1>4, <1>5, <1>6

\* The command table has the right lengths (tpserver.c).
LEMMA Table ==
    ASSUME NEW n \in Nat
    PROVE  /\ \A k \in {"TPTCALL", "TPTGRPLY", "TPTADVT", "TPTUADV"} :
                 Len(Body(k, n)) = command_length[k]
           /\ Len(RetHeader(n)) = command_length["TPTRETN"]
           /\ \A k \in Command \ {"TPTWORK"} : command_length[k] \in Nat /\ command_length[k] > 0
<1>1. /\ command_length["TPTCALL"] = XATMI_SERVICE_NAME_LENGTH + IOLONG * 2
      /\ command_length["TPTGRPLY"] = IOSHORT + IOLONG
      /\ command_length["TPTADVT"] = XATMI_SERVICE_NAME_LENGTH + IOLONG
      /\ command_length["TPTUADV"] = XATMI_SERVICE_NAME_LENGTH
      /\ command_length["TPTRETN"] = 1 + IOLONG * 2
  BY DEF command_length
<1>2. /\ Len(Body("TPTCALL", n)) = command_length["TPTCALL"]
      /\ Len(Body("TPTGRPLY", n)) = command_length["TPTGRPLY"]
      /\ Len(Body("TPTADVT", n)) = command_length["TPTADVT"]
      /\ Len(Body("TPTUADV", n)) = command_length["TPTUADV"]
      /\ Len(RetHeader(n)) = command_length["TPTRETN"]
  BY <1>1, Bodies
<1>3. \A k \in {"TPTCALL", "TPTGRPLY", "TPTADVT", "TPTUADV", "TPTRETN"} :
          command_length[k] \in Nat /\ command_length[k] > 0
  BY <1>1, WireConstants
<1> QED
  BY <1>2, <1>3, Commands

\* A request whose handler is called is whole, and nothing comes after it.
LEMMA WholeRequest ==
    ASSUME InStep, NEW c \in Conn, client[c] = "open",
           handler[c] \in {"TPTCALL", "TPTGRPLY", "TPTADVT", "TPTUADV"},
           size[c] <= Len(Pending(c))
    PROVE  \E n \in Lengths :
              /\ Take(Pending(c), size[c]) = Body(handler[c], n)
              /\ Drop(Pending(c), size[c]) = <<>>
              /\ c # server => c \in cut
              /\ c = server => /\ n = len /\ toClient[c] = <<>>
                               /\ <<lib, handler[c]>> \in
                                    {<<"tpacall", "TPTCALL">>, <<"tpgetrply", "TPTGRPLY">>,
                                     <<"data", "TPTADVT">>, <<"data", "TPTUADV">>}
                               /\ lib = "data" => expects = IOSHORT
<1>1. TypeOK /\ len \in Lengths /\ Pending(c) \in Streams /\ handler[c] \in Command
  BY Parts, Commands DEF InStep, Shape, TypeOK
<1>2. size[c] = command_length[handler[c]]
  BY DEF InStep, Shape, Sizes
<1>3. PICK rest \in Rest(c) :
          /\ rest \in Streams /\ Begins(Pending(c), rest)
          /\ c # server => c \in cut
          /\ c = server => /\ toClient[c] = <<>>
                           /\ \E k \in Command : Asked(c, k, rest, <<>>)
  BY Waiting DEF Busy
<1>4. PICK n \in Lengths : rest = Body(handler[c], n) /\ (c = server => n = len)
  <2>1. CASE c # server
    BY <1>1, <2>1 DEF Rest
  <2>2. CASE c = server
    BY <1>1, <1>3, <2>2 DEF Asked, Busy
  <2> QED
    BY <2>1, <2>2
<1>5. Len(rest) = size[c]
  BY <1>2, <1>4, Table, LengthsType
<1>6. Take(Pending(c), size[c]) = rest /\ Drop(Pending(c), size[c]) = <<>>
  <2>1. Join(rest, <<>>) = rest /\ <<>> \in Streams
    BY <1>3, JoinEmpty
  <2>2. /\ size[c] \in 0 .. Len(Pending(c))
        /\ Take(Pending(c), size[c]) = rest /\ Begins(Drop(Pending(c), size[c]), <<>>)
    BY <1>1, <1>3, <1>5, <2>1, Dropped
  <2>3. Drop(Pending(c), size[c]) \in Streams
    BY <1>1, <2>2, TakeDrop
  <2> QED
    BY <2>2, <2>3, Whole
<1>7. c = server => /\ <<lib, handler[c]>> \in
                          {<<"tpacall", "TPTCALL">>, <<"tpgetrply", "TPTGRPLY">>,
                           <<"data", "TPTADVT">>, <<"data", "TPTUADV">>}
                    /\ lib = "data" => expects = IOSHORT
  BY <1>3 DEF Asked, Busy
<1> QED
  BY <1>3, <1>4, <1>6, <1>7

\* A handler is called with the first size[c] bytes of what has not been handled yet.
LEMMA Full ==
    ASSUME InStep, NEW c \in Conn, Iowait_full(c)
    PROVE  /\ client[c] = "open" /\ size[c] \in Nat /\ size[c] > 0 /\ size[c] <= Len(Pending(c))
           /\ Pending(c) \in Streams /\ Pending(c) # <<>> /\ Drop(Pending(c), size[c]) \in Streams
           /\ handle(c, Take(Pending(c), size[c]))
           /\ input' = [input EXCEPT ![c] = <<>>]
           /\ toServer' = [toServer EXCEPT ![c] = Drop(Pending(c), size[c])]
           /\ SvrUnchanged
<1> DEFINE n == size[c] - Len(input[c])
<1>1. TypeOK /\ Sizes
  BY DEF InStep, Shape
<1>2. /\ input[c] \in Streams /\ toServer[c] \in Streams /\ Pending(c) \in Streams
      /\ Pending(c) = Join(input[c], toServer[c]) /\ size[c] \in Nat
      /\ Len(input[c]) \in Nat /\ Len(toServer[c]) \in Nat
  BY <1>1, Parts, JoinLen DEF TypeOK
<1>3. /\ client[c] = "open" /\ size[c] > 0 /\ n <= Len(toServer[c])
      /\ handle(c, Join(input[c], Take(toServer[c], n)))
      /\ input' = [input EXCEPT ![c] = <<>>]
      /\ toServer' = [toServer EXCEPT ![c] = Drop(toServer[c], n)]
      /\ SvrUnchanged
  BY DEF Iowait_full, Join, Take, Drop
<1>4. n \in 0 .. Len(toServer[c]) /\ Len(input[c]) + n = size[c]
  <2>1. Len(input[c]) <= size[c]
    BY <1>1, <1>2, JoinEmpty DEF Sizes
  <2> QED
    BY <1>2, <1>3, <2>1
<1>5. /\ Join(input[c], Take(toServer[c], n)) = Take(Join(input[c], toServer[c]), Len(input[c]) + n)
      /\ Drop(toServer[c], n) = Drop(Join(input[c], toServer[c]), Len(input[c]) + n)
      /\ Len(input[c]) + n \in 0 .. Len(Join(input[c], toServer[c]))
  <2>1. input[c] \in Streams /\ toServer[c] \in Streams /\ n \in 0 .. Len(toServer[c])
    BY <1>2, <1>4
  <2> HIDE DEF n
  <2> QED
    BY <2>1, Moved, Zenon
<1>6. /\ Join(input[c], Take(toServer[c], n)) = Take(Pending(c), size[c])
      /\ Drop(toServer[c], n) = Drop(Pending(c), size[c])
      /\ size[c] \in 0 .. Len(Pending(c))
  BY <1>2, <1>4, <1>5, Zenon
<1>7. Drop(Pending(c), size[c]) \in Streams
  BY <1>2, <1>6, TakeDrop
<1>8. size[c] <= Len(Pending(c)) /\ Pending(c) # <<>>
  BY <1>2, <1>3, <1>6, JoinEmpty
<1> HIDE DEF n
<1> QED
  BY <1>2, <1>3, <1>6, <1>7, <1>8, Zenon

\* The handler of c asks for its next command.
LEMMA NextCommand ==
    ASSUME NEW c \in Conn, svr_next_command(c)
    PROVE  /\ handler' = [handler EXCEPT ![c] = "command"] /\ size' = [size EXCEPT ![c] = 1]
  BY DEF svr_next_command, svriowait

\* svracall answers a call, and waits for its data if it takes it.
LEMMA svracallIn ==
    ASSUME InStep, NEW c \in Conn, Iowait_full(c), handler[c] = "TPTCALL"
    PROVE  InStep'
<1> DEFINE b == Take(Pending(c), size[c])
<1>1. /\ client[c] = "open" /\ size[c] <= Len(Pending(c))
      /\ handle(c, b)
      /\ input' = [input EXCEPT ![c] = <<>>]
      /\ toServer' = [toServer EXCEPT ![c] = Drop(Pending(c), size[c])]
      /\ SvrUnchanged
  BY Full
<1>2. TypeOK
  BY DEF InStep, Shape
<1>3. PICK n \in Lengths :
        /\ b = Body("TPTCALL", n) /\ Drop(Pending(c), size[c]) = <<>>
        /\ c # server => c \in cut
        /\ c = server => n = len /\ toClient[c] = <<>> /\ lib = "tpacall"
  BY <1>1, WholeRequest
<1> HIDE DEF b
<1>4. svracall(c, b)
  BY <1>1 DEF handle
<1>5. /\ toServer' = [toServer EXCEPT ![c] = <<>>]
  BY <1>1, <1>3
<1>6. CASE svracall_refused(c)
  <2>1. svrwrite(c, Ack("error")) /\ svr_next_command(c) /\ calls' = calls /\ client' = client
    BY <1>6 DEF svracall_refused, Ack
  <2>2. Ack("error") \in Streams /\ Ack("error")[1].kind = "error"
    BY Forms DEF Kind
  <2>3. Handles(c, "command", 1, <<>>, Ack("error"))
    BY <1>1, <1>2, <1>3, <1>5, <2>1, <2>2, NextCommand, Wrote DEF Handles, TypeOK
  <2>4. Answer(Ack("error"), "tpacall", expects)
    BY DEF Answer
  <2> QED
    BY <1>3, <2>2, <2>3, <2>4, Replied
<1>7. CASE /\ calls' = [calls EXCEPT ![c] = @ + 1]
           /\ svrwrite(c, <<Byte("ok", 0)>> \o Short)
           /\ svriowait(c, "send_to_worker", b[XATMI_SERVICE_NAME_LENGTH + 1].n)
           /\ UNCHANGED client
  <2>1. svrwrite(c, Ack("ok"))
    BY <1>7 DEF Ack
  <2>2. Ack("ok") \in Streams /\ Ack("ok")[1].kind = "ok"
    BY Forms DEF Kind
  <2>3. n \in Nat /\ b[XATMI_SERVICE_NAME_LENGTH + 1].n = n
    BY <1>3, LengthsType, Bodies, Bytewise DEF Kind
  <2>4. PICK h, z : /\ h = (IF n = 0 THEN "command" ELSE "send_to_worker")
                    /\ z = (IF n = 0 THEN 1 ELSE n)
    OBVIOUS
  <2>5. Handles(c, h, z, <<>>, Ack("ok"))
    <3>1. handler' = [handler EXCEPT ![c] = h] /\ size' = [size EXCEPT ![c] = z]
      BY <1>7, <2>3, <2>4 DEF svriowait
    <3>2. calls' \in [Conn -> Nat]
      BY <1>2, <1>7 DEF TypeOK
    <3>3. toClient' = IF c = server THEN [toClient EXCEPT ![c] = Ack("ok")] ELSE toClient
      BY <1>2, <1>3, <2>1, <2>2, Wrote
    <3> QED
      BY <1>1, <1>5, <1>7, <3>1, <3>2, <3>3 DEF Handles
  <2>6. Suits(h, z) /\ z \in Nat /\ <<>> \in Streams
    BY <2>3, <2>4, JoinEmpty DEF Suits
  <2>7. /\ Shape' /\ \A d \in Conn : d # c => Between(d)'
        /\ Pending(c)' = <<>> /\ handler'[c] = h /\ size'[c] = z
        /\ c = server => toClient'[c] = Ack("ok")
        /\ server' = server /\ cut' = cut
        /\ lib' = lib /\ expects' = expects /\ len' = len
    BY <2>2, <2>5, <2>6, HandlesIn
  <2>8. Data(n) \in Streams /\ Data(n) \in Rest(c)'
    BY <2>3, <2>4, <2>7, Filled, Commands DEF Rest
  <2>9. h \notin Busy
    BY <2>4 DEF Busy
  <2>10. c = server => Answered(c, Data(n))'
    <3>1. Answer(Ack("ok"), "tpacall", expects')
      BY DEF Answer
    <3> QED
      BY <1>3, <2>2, <2>7, <2>9, <3>1 DEF Answered
  <2>11. Between(c)'
    BY <1>3, <2>7, <2>8, <2>9, <2>10, Answering
  <2> QED
    BY <2>7, <2>11 DEF InStep
<1> QED
  BY <1>4, <1>6, <1>7 DEF svracall

\* A reply goes to a client that waits for one.
LEMMA snd_replyIn ==
    ASSUME InStep, NEW c \in Conn, client[c] = "open", snd_reply(c),
           input' = [input EXCEPT ![c] = <<>>], toServer' = [toServer EXCEPT ![c] = <<>>],
           SvrUnchanged,
           c # server => c \in cut,
           c = server => toClient[c] = <<>> /\ lib = "tpgetrply"
    PROVE  InStep'
<1>1. TypeOK
  BY DEF InStep, Shape
<1>2. PICK rval \in Results, n \in DataLength : svrwrite(c, Reply(rval, n))
  BY DEF snd_reply, Reply
<1>3. rval \in Kind /\ n \in Nat
  BY LengthsType, WireConstants DEF Kind
<1>4. Reply(rval, n) \in Streams
  BY <1>3, Forms
<1>5. calls' \in [Conn -> Nat]
  BY <1>1 DEF snd_reply, TypeOK
<1>6. Handles(c, "command", 1, <<>>, Reply(rval, n))
  <2>1. svr_next_command(c) /\ client' = client
    BY DEF snd_reply
  <2> QED
    BY <1>1, <1>2, <1>4, <1>5, <2>1, NextCommand, Wrote DEF Handles
<1>7. Answer(Reply(rval, n), "tpgetrply", expects)
  BY DEF Answer
<1> QED
  BY <1>4, <1>6, <1>7, Replied

\* Work goes to a client that waits for some.
LEMMA send_to_serverIn ==
    ASSUME InStep, NEW c \in Conn, client[c] = "open", send_to_server(c),
           input' = [input EXCEPT ![c] = <<>>], toServer' = [toServer EXCEPT ![c] = <<>>],
           SvrUnchanged,
           c # server => c \in cut,
           c = server => toClient[c] = <<>> /\ lib = "tpservice"
    PROVE  InStep'
<1>1. TypeOK
  BY DEF InStep, Shape
<1>2. PICK n \in DataLength : svrwrite(c, Long(0) \o Name \o Long(n) \o Long(0) \o Short \o Data(n))
  BY DEF send_to_server
<1>3. n \in Nat /\ Byte("data", 0) \in Bytes
  BY LengthsType, Bytewise DEF Kind
<1>4. PICK bytes \in Streams : bytes = Long(0) \o Work(n)
  BY <1>3, Forms DEF Kind
<1>5. svrwrite(c, bytes)
  <2>1. Long(0) \o Work(n) = Join(Long(0), Work(n))
    BY DEF Join
  <2> QED
    BY <1>2, <1>3, <1>4, <2>1, Answers
<1>6. Handles(c, "command", 1, <<>>, bytes)
  <2>1. svr_next_command(c) /\ client' = client /\ calls' = calls
    BY DEF send_to_server
  <2> QED
    BY <1>1, <1>5, <2>1, NextCommand, Wrote DEF Handles, TypeOK
<1>7. Answer(bytes, "tpservice", expects)
  BY <1>4 DEF Answer
<1> QED
  BY <1>6, <1>7, Replied

\* svrgetrply answers at once, or leaves its client hanging for the reply.
LEMMA svrgetrplyIn ==
    ASSUME InStep, NEW c \in Conn, Iowait_full(c), handler[c] = "TPTGRPLY"
    PROVE  InStep'
<1>1. /\ client[c] = "open" /\ size[c] <= Len(Pending(c))
      /\ handle(c, Take(Pending(c), size[c]))
      /\ input' = [input EXCEPT ![c] = <<>>]
      /\ toServer' = [toServer EXCEPT ![c] = Drop(Pending(c), size[c])]
      /\ SvrUnchanged
  BY Full
<1>2. TypeOK
  BY DEF InStep, Shape
<1>3. /\ Drop(Pending(c), size[c]) = <<>>
      /\ c # server => c \in cut
      /\ c = server => toClient[c] = <<>> /\ lib = "tpgetrply"
  BY <1>1, WholeRequest
<1>4. svrgetrply(c) /\ toServer' = [toServer EXCEPT ![c] = <<>>]
  BY <1>1, <1>3 DEF handle
<1>5. CASE snd_reply(c)
  BY <1>1, <1>3, <1>4, <1>5, snd_replyIn
<1>6. CASE /\ svrwrite(c, <<Byte("TPERRNO", 0)>> \o Short)
           /\ svr_next_command(c)
           /\ UNCHANGED <<calls, client>>
  <2>1. svrwrite(c, Ack("TPERRNO")) /\ svr_next_command(c) /\ calls' = calls /\ client' = client
    BY <1>6 DEF Ack
  <2>2. Ack("TPERRNO") \in Streams
    BY Forms DEF Kind
  <2>3. Handles(c, "command", 1, <<>>, Ack("TPERRNO"))
    BY <1>1, <1>2, <1>3, <1>4, <2>1, <2>2, NextCommand, Wrote DEF Handles, TypeOK
  <2>4. Answer(Ack("TPERRNO"), "tpgetrply", expects)
    BY DEF Answer
  <2> QED
    BY <1>3, <2>2, <2>3, <2>4, Replied
<1>7. CASE Hang(c, "reply") /\ UNCHANGED <<toClient, calls, client>>
  <2>1. Handles(c, "reply", 0, <<>>, toClient[c])
    BY <1>1, <1>2, <1>4, <1>7 DEF Hang, Handles, TypeOK
  <2>2. Suits("reply", 0) /\ 0 \in Nat /\ <<>> \in Streams /\ toClient[c] \in Streams
    BY <1>2, Parts, JoinEmpty DEF Suits
  <2>3. /\ Shape' /\ \A d \in Conn : d # c => Between(d)'
        /\ Pending(c)' = <<>> /\ handler'[c] = "reply"
        /\ c = server => toClient'[c] = toClient[c]
        /\ server' = server /\ cut' = cut /\ lib' = lib /\ expects' = expects /\ len' = len
    BY <2>1, <2>2, HandlesIn
  <2>4. <<>> \in Rest(c)' /\ Begins(<<>>, <<>>) /\ "TPTGRPLY" \in Command
    BY <2>2, <2>3, Commands, Whole DEF Rest
  <2>5. c = server => Asked(c, "TPTGRPLY", <<>>, <<>>)'
    BY <1>3, <2>3 DEF Asked
  <2>6. Between(c)'
    BY <1>3, <2>2, <2>3, <2>4, <2>5, Hanging
  <2> QED
    BY <2>3, <2>6 DEF InStep
<1> QED
  BY <1>4, <1>5, <1>6, <1>7 DEF svrgetrply

\* svradvertise and svrunadvertise answer.
LEMMA svradvertiseIn ==
    ASSUME InStep, NEW c \in Conn, Iowait_full(c), handler[c] \in {"TPTADVT", "TPTUADV"}
    PROVE  InStep'
<1>1. /\ client[c] = "open" /\ size[c] <= Len(Pending(c))
      /\ handle(c, Take(Pending(c), size[c]))
      /\ input' = [input EXCEPT ![c] = <<>>]
      /\ toServer' = [toServer EXCEPT ![c] = Drop(Pending(c), size[c])]
      /\ SvrUnchanged
  BY Full
<1>2. TypeOK
  BY DEF InStep, Shape
<1>3. /\ Drop(Pending(c), size[c]) = <<>>
      /\ c # server => c \in cut
      /\ c = server => toClient[c] = <<>> /\ lib = "data" /\ expects = IOSHORT
  BY <1>1, WholeRequest
<1>4. svradvertise(c) /\ toServer' = [toServer EXCEPT ![c] = <<>>]
  BY <1>1, <1>3 DEF handle
<1>5. Short \in Streams
  BY Numbers
<1>6. Handles(c, "command", 1, <<>>, Short)
  <2>1. svrwrite(c, Short) /\ svr_next_command(c) /\ calls' = calls /\ client' = client
    BY <1>4 DEF svradvertise
  <2> QED
    BY <1>1, <1>2, <1>3, <1>4, <1>5, <2>1, NextCommand, Wrote DEF Handles, TypeOK
<1>7. c = server => Answer(Short, lib, expects)
  BY <1>3 DEF Answer, Short
<1> QED
  BY <1>3, <1>5, <1>6, <1>7, Replied

\* Input that nobody waits for an answer to: part of a result, or the data of a request.
LEMMA PartIn ==
    ASSUME InStep, NEW c \in Conn, Iowait_full(c), NEW h, NEW z \in Nat, Suits(h, z),
           handler[c] \notin Busy, h \notin Busy,
           handler' = [handler EXCEPT ![c] = h], size' = [size EXCEPT ![c] = z],
           UNCHANGED <<toClient, calls, client>>,
           NEW rest \in Rest(c), NEW ret \in Result, NEW req \in Requested,
           Stream(c, rest, ret, req),
           NEW rest2 \in Streams, NEW ret2 \in Result, NEW x \in Streams,
           rest2 \in Rest(c)',
           Len(x) = size[c], ret2 = ret \/ ret2 = <<>>,
           Sent(rest, ret, req) = Join(x, Sent(rest2, ret2, req))
    PROVE  InStep'
<1>1. /\ client[c] = "open" /\ size[c] <= Len(Pending(c)) /\ Pending(c) # <<>>
      /\ Drop(Pending(c), size[c]) \in Streams
      /\ input' = [input EXCEPT ![c] = <<>>]
      /\ toServer' = [toServer EXCEPT ![c] = Drop(Pending(c), size[c])]
      /\ SvrUnchanged
  BY Full
<1>2. TypeOK
  BY DEF InStep, Shape
<1>3. ret2 \in Streams /\ req \in Streams /\ toClient[c] \in Streams
  BY <1>2, Parts
<1>4. Handles(c, h, z, Drop(Pending(c), size[c]), toClient[c])
  BY <1>1, <1>2 DEF Handles, TypeOK
<1>5. /\ Shape' /\ \A d \in Conn : d # c => Between(d)'
      /\ Pending(c)' = Drop(Pending(c), size[c]) /\ handler'[c] = h
      /\ c = server => toClient'[c] = toClient[c]
      /\ server' = server /\ cut' = cut
      /\ lib' = lib /\ expects' = expects /\ len' = len /\ serving' = serving
  BY <1>1, <1>3, <1>4, HandlesIn, ZenonT(40)
<1>6. Stream(c, rest2, ret2, req)'
  BY <1>1, <1>2, <1>3, <1>5, Advancing
<1>7. Between(c)'
  BY <1>6 DEF Between
<1> QED
  BY <1>5, <1>7 DEF InStep

\* send_to_worker() has the data of a call, or part2() of svrreturn.c that of a result.
LEMMA next_partIn ==
    ASSUME InStep, NEW c \in Conn, Iowait_full(c), handler[c] \in {"send_to_worker", "part2"}
    PROVE  InStep'
<1>1. client[c] = "open" /\ handle(c, Take(Pending(c), size[c])) /\ size[c] \in Nat
  BY Full
<1>2. next_part(c)
  BY <1>1, Commands DEF handle
<1>3. /\ handler' = [handler EXCEPT ![c] = "command"] /\ size' = [size EXCEPT ![c] = 1]
      /\ UNCHANGED <<toClient, calls, client>>
  BY <1>2, NextCommand DEF next_part
<1>4. PICK rest \in Rest(c), ret \in Result, req \in Requested : Stream(c, rest, ret, req)
  BY <1>1 DEF InStep, Between
<1>5. rest = Data(size[c]) /\ Len(rest) = size[c]
  BY <1>1, Commands, Filled DEF Rest
<1>6. /\ rest \in Streams /\ ret \in Streams /\ req \in Streams /\ <<>> \in Streams
      /\ handler \in [Conn -> Command \cup {"none", "command", "send_to_worker", "part2",
                                           "reply", "work"}]
  BY Parts, JoinEmpty DEF InStep, Shape, TypeOK
<1>7. Sent(rest, ret, req) = Join(rest, Sent(<<>>, ret, req))
  <2>1. Join(ret, req) \in Streams
    BY <1>6, JoinType
  <2> QED
    BY <1>6, <2>1, SentJoin, JoinEmpty
<1>8. <<>> \in Rest(c)'
  BY <1>3, <1>6, Commands DEF Rest
<1>9. Suits("command", 1) /\ "command" \notin Busy /\ handler[c] \notin Busy
  BY DEF Suits, Busy
<1> QED
  BY <1>3, <1>4, <1>5, <1>6, <1>7, <1>8, <1>9, PartIn

\* svrreturn has the header of a result, and waits for its data if there is any.
LEMMA svrreturnIn ==
    ASSUME InStep, NEW c \in Conn, Iowait_full(c), handler[c] = "TPTRETN"
    PROVE  InStep'
<1>1. /\ client[c] = "open" /\ handle(c, Take(Pending(c), size[c])) /\ size[c] <= Len(Pending(c))
      /\ Pending(c) \in Streams
  BY Full
<1>2. svrreturn(c, Take(Pending(c), size[c]))
  BY <1>1 DEF handle
<1>3. PICK rest \in Rest(c), ret \in Result, req \in Requested : Stream(c, rest, ret, req)
  BY <1>1 DEF InStep, Between
<1>4. PICK n \in Lengths : rest = Body("TPTRETN", n)
  BY Commands DEF Rest
<1>5. n \in Nat
  BY LengthsType
<1>6. /\ RetHeader(n) \in Streams /\ RetHeader(n)[1 + IOLONG + 1] = Byte("long", n)
      /\ rest = Join(RetHeader(n), Data(n)) /\ Data(n) \in Streams
  BY <1>4, <1>5, Bodies, Filled
<1>7. Len(RetHeader(n)) = size[c]
  BY <1>1, <1>5, Table DEF InStep, Shape, Sizes
<1>8. /\ rest \in Streams /\ ret \in Streams /\ req \in Streams
      /\ handler \in [Conn -> Command \cup {"none", "command", "send_to_worker", "part2",
                                           "reply", "work"}]
      /\ size \in [Conn -> Nat]
  BY Parts DEF InStep, Shape, TypeOK
<1>9. /\ Sent(rest, ret, req) = Join(RetHeader(n), Sent(Data(n), ret, req))
      /\ Sent(Data(n), ret, req) \in Streams
  <2>1. PICK t \in Streams : t = Join(ret, req)
    BY <1>8, JoinType
  <2>2. Sent(rest, ret, req) = Join(rest, t) /\ Sent(Data(n), ret, req) = Join(Data(n), t)
    BY <1>6, <1>8, <2>1, SentJoin
  <2>3. Join(Join(RetHeader(n), Data(n)), t) = Join(RetHeader(n), Join(Data(n), t))
    BY <1>6, JoinAssoc
  <2> QED
    BY <1>6, <1>8, <2>2, <2>3, SentJoin
<1>10. Take(Pending(c), size[c]) = RetHeader(n)
  <2>1. Begins(Pending(c), Join(RetHeader(n), Sent(Data(n), ret, req)))
    BY <1>3, <1>9 DEF Stream
  <2> QED
    BY <1>1, <1>6, <1>7, <1>9, <2>1, Dropped
<1>11. Take(Pending(c), size[c])[1 + IOLONG + 1].n = n
  BY <1>5, <1>6, <1>10, Bytewise DEF Kind
<1>12. PICK h, z : /\ h = (IF n = 0 THEN "command" ELSE "part2")
                   /\ z = (IF n = 0 THEN 1 ELSE n)
  OBVIOUS
<1>13. /\ handler' = [handler EXCEPT ![c] = h] /\ size' = [size EXCEPT ![c] = z]
       /\ UNCHANGED <<toClient, calls, client>>
  BY <1>2, <1>11, <1>12 DEF svrreturn, svriowait
<1>14. Suits(h, z) /\ z \in Nat /\ h \notin Busy /\ handler[c] \notin Busy
  BY <1>5, <1>12 DEF Suits, Busy
<1>15. Data(n) \in Rest(c)'
  <2>1. handler'[c] = h /\ size'[c] = z
    BY <1>8, <1>13
  <2> QED
    BY <1>12, <2>1, Commands, Filled DEF Rest
<1> QED
  BY <1>3, <1>6, <1>7, <1>8, <1>9, <1>13, <1>14, <1>15, PartIn

\* A result that is next begins with its command.
LEMMA ResultFirst ==
    ASSUME NEW n \in Nat, NEW req \in Streams
    PROVE  /\ Sent(<<>>, Message("TPTRETN", n), req) =
                 Join(<<Byte("TPTRETN", 0)>>, Sent(Body("TPTRETN", n), <<>>, req))
           /\ Sent(Body("TPTRETN", n), <<>>, req) \in Streams
<1>1. PICK x, body, ret : x = <<Byte("TPTRETN", 0)>> /\ body = Body("TPTRETN", n)
                          /\ ret = Message("TPTRETN", n)
  OBVIOUS
<1>2. x \in Streams /\ body \in Streams /\ ret \in Streams /\ <<>> \in Streams
  BY <1>1, Messages, Commands, JoinEmpty
<1>3. ret = Join(x, body)
  BY <1>1, Messages, Commands
<1>4. Sent(<<>>, ret, req) = Join(<<>>, Join(ret, req))
      /\ Sent(body, <<>>, req) = Join(body, Join(<<>>, req)) /\ Sent(body, <<>>, req) \in Streams
  BY <1>2, SentJoin, ZenonT(40)
<1>5. Join(ret, req) \in Streams
  BY <1>2, JoinType
<1>6. Join(<<>>, Join(ret, req)) = Join(ret, req) /\ Join(<<>>, req) = req
  BY <1>5, JoinEmpty
<1>7. Join(Join(x, body), req) = Join(x, Join(body, req))
  BY <1>2, JoinAssoc, ZenonT(40)
<1> QED
  BY <1>1, <1>3, <1>4, <1>6, <1>7

\* The first byte of a message is read, and is a command: a result comes first, if there
\* is one, then a request.
LEMMA CommandRead ==
    ASSUME InStep, NEW c \in Conn, client[c] = "open", handler[c] = "command", Pending(c) # <<>>
    PROVE  \/ \E n \in Lengths, req \in Requested : Stream(c, <<>>, Message("TPTRETN", n), req)
           \/ \E k \in Command \ {"TPTRETN"}, n \in Lengths :
                 /\ Begins(Pending(c), Message(k, n))
                 /\ c # server => c \in cut
                 /\ c = server => /\ n = len /\ Pending(c) = Message(k, n) /\ toClient[c] = <<>>
                                  /\ <<lib, k>> \in {<<"tpacall", "TPTCALL">>,
                                        <<"tpgetrply", "TPTGRPLY">>, <<"data", "TPTADVT">>,
                                        <<"data", "TPTUADV">>, <<"tpservice", "TPTWORK">>}
                                  /\ lib = "data" => expects = IOSHORT
<1>1. PICK rest \in Rest(c), ret \in Result, req \in Requested : Stream(c, rest, ret, req)
  BY DEF InStep, Between
<1>2. rest = <<>> /\ ret \in Streams /\ req \in Streams /\ Pending(c) \in Streams /\ len \in Lengths
      /\ <<>> \in Streams
  BY Commands, Parts, JoinEmpty DEF Rest, InStep, Shape, TypeOK
<1>3. CASE ret # <<>>
  BY <1>1, <1>2, <1>3 DEF Result
<1>4. CASE ret = <<>>
  <2>1. Sent(rest, ret, req) = req
    BY <1>2, <1>4, SentJoin, JoinEmpty
  <2>2. Begins(Pending(c), req) /\ req # <<>>
    <3>1. Begins(Pending(c), req)
      BY <1>1, <2>1 DEF Stream
    <3> QED
      BY <1>2, <3>1, Whole
  <2>3. c # server => c \in cut
    BY <1>1, <2>2 DEF Stream
  <2>4. CASE c # server
    BY <2>2, <2>3, <2>4 DEF Requested
  <2>5. CASE c = server
    <3>1. PICK k \in Command : Asked(c, k, rest, req) /\ Pending(c) = req
      BY <1>1, <2>1, <2>2, <2>5 DEF Stream
    <3>2. req = Message(k, len) /\ k # "TPTRETN"
      BY <3>1, Commands DEF Asked
    <3> QED
      BY <1>2, <2>2, <2>5, <3>1, <3>2 DEF Asked
  <2> QED
    BY <2>4, <2>5
<1> QED
  BY <1>3, <1>4

\* command() looks the command up, and waits for what belongs to it.
LEMMA commandIn ==
    ASSUME InStep, NEW c \in Conn, Iowait_full(c), handler[c] = "command"
    PROVE  InStep'
<1>1. /\ client[c] = "open" /\ handle(c, Take(Pending(c), size[c])) /\ size[c] <= Len(Pending(c))
      /\ Pending(c) \in Streams /\ Pending(c) # <<>> /\ Drop(Pending(c), size[c]) \in Streams
      /\ input' = [input EXCEPT ![c] = <<>>]
      /\ toServer' = [toServer EXCEPT ![c] = Drop(Pending(c), size[c])]
      /\ SvrUnchanged
  BY Full
<1>2. command(c, Take(Pending(c), size[c])[1])
  BY <1>1, Commands DEF handle
<1>3. size[c] = 1 /\ handler[c] \notin Busy /\ TypeOK
      /\ handler \in [Conn -> Command \cup {"none", "command", "send_to_worker", "part2",
                                           "reply", "work"}]
  BY <1>1, Commands DEF InStep, Shape, Sizes, Busy, TypeOK
<1>4. ASSUME NEW n \in Lengths, NEW req \in Requested, Stream(c, <<>>, Message("TPTRETN", n), req)
      PROVE  InStep'
  <2>1. PICK x, body, ret : x = <<Byte("TPTRETN", 0)>> /\ body = Body("TPTRETN", n)
                            /\ ret = Message("TPTRETN", n)
    OBVIOUS
  <2>2. /\ x \in Streams /\ Len(x) = 1 /\ x[1].kind = "TPTRETN" /\ body \in Streams
        /\ ret \in Streams /\ req \in Streams /\ <<>> \in Streams
        /\ "TPTRETN" \in Command
    BY <1>3, <2>1, Messages, LengthsType, Commands, Parts, JoinEmpty, ZenonT(40)
  <2>3. Sent(<<>>, ret, req) = Join(x, Sent(body, <<>>, req)) /\ Sent(body, <<>>, req) \in Streams
    BY <2>1, <2>2, ResultFirst, LengthsType
  <2>4. Take(Pending(c), size[c]) = x
    <3>1. Begins(Pending(c), Join(x, Sent(body, <<>>, req)))
      BY <1>4, <2>1, <2>3 DEF Stream
    <3> QED
      <4>1. /\ Pending(c) \in Streams /\ x \in Streams /\ Sent(body, <<>>, req) \in Streams
            /\ Len(x) <= Len(Pending(c)) /\ Len(x) = size[c]
        BY <1>1, <1>3, <2>2, <2>3
      <4>2. Take(Pending(c), Len(x)) = x
        BY <3>1, <4>1, Dropped, Zenon
      <4> QED
        BY <4>1, <4>2
  <2>5. /\ svriowait(c, "TPTRETN", command_length["TPTRETN"])
        /\ UNCHANGED <<toClient, calls, client>>
    BY <1>2, <2>2, <2>4 DEF command
  <2>6. command_length["TPTRETN"] \in Nat /\ command_length["TPTRETN"] > 0
    BY <2>2, Table
  <2>7. /\ handler' = [handler EXCEPT ![c] = "TPTRETN"]
        /\ size' = [size EXCEPT ![c] = command_length["TPTRETN"]]
    <3>1. command_length["TPTRETN"] # 0
      BY <2>6
    <3> QED
      BY <2>5, <3>1, Zenon DEF svriowait
  <2>8. body \in Rest(c)'
    BY <1>3, <2>1, <2>2, <2>7 DEF Rest
  <2>9. Suits("TPTRETN", command_length["TPTRETN"]) /\ "TPTRETN" \notin Busy
    BY <2>2 DEF Suits, Busy
  <2>10. <<>> \in Rest(c) /\ ret \in Result /\ <<>> \in Result
    BY <2>1, Commands DEF Rest, Result
  <2> QED
    BY <1>3, <1>4, <2>1, <2>2, <2>3, <2>5, <2>6, <2>7, <2>8, <2>9, <2>10, PartIn, ZenonT(40)
<1>5. ASSUME NEW k \in Command \ {"TPTRETN"}, NEW n \in Lengths,
             Begins(Pending(c), Message(k, n)),
             c # server => c \in cut,
             c = server => /\ n = len /\ Pending(c) = Message(k, n) /\ toClient[c] = <<>>
                           /\ <<lib, k>> \in {<<"tpacall", "TPTCALL">>,
                                 <<"tpgetrply", "TPTGRPLY">>, <<"data", "TPTADVT">>,
                                 <<"data", "TPTUADV">>, <<"tpservice", "TPTWORK">>}
                           /\ lib = "data" => expects = IOSHORT
      PROVE  InStep'
  <2>1. PICK x, body : x = <<Byte(k, 0)>> /\ body = Body(k, n)
    OBVIOUS
  <2>2. /\ x \in Streams /\ Len(x) = 1 /\ x[1].kind = k /\ body \in Streams
        /\ Message(k, n) = Join(x, body)
        /\ <<>> \in Streams /\ toClient[c] \in Streams
    BY <1>3, <2>1, Messages, LengthsType, Parts, JoinEmpty
  <2>3. /\ Take(Pending(c), size[c]) = x /\ Begins(Drop(Pending(c), size[c]), body)
        /\ c = server => Drop(Pending(c), size[c]) = body
    <3>1. /\ Pending(c) \in Streams /\ x \in Streams /\ body \in Streams
          /\ Len(x) <= Len(Pending(c)) /\ Len(x) = size[c]
          /\ Begins(Pending(c), Join(x, body)) /\ (c = server => Pending(c) = Join(x, body))
      BY <1>1, <1>3, <1>5, <2>2
    <3>2. /\ Take(Pending(c), Len(x)) = x /\ Begins(Drop(Pending(c), Len(x)), body)
          /\ Pending(c) = Join(x, body) => Drop(Pending(c), Len(x)) = body
      BY <3>1, Dropped, Zenon
    <3> QED
      BY <3>1, <3>2, Zenon
  <2>4. PICK ts \in Streams : ts = Drop(Pending(c), size[c])
    BY <1>1
  <2>5. CASE k = "TPTWORK"
    <3>1. svrservice(c)
      BY <1>2, <2>2, <2>3, <2>5 DEF command
    <3>2. ts = <<>> /\ (c = server => lib = "tpservice" /\ toClient[c] = <<>>)
      <4>1. body = <<>>
        BY <2>1, <2>5, Bodies, LengthsType
      <4> QED
        BY <1>5, <2>3, <2>4, <2>5, <4>1, Whole
    <3>3. CASE send_to_server(c)
      BY <1>1, <1>5, <2>4, <3>2, <3>3, send_to_serverIn
    <3>4. CASE Hang(c, "work") /\ UNCHANGED <<toClient, calls, client>>
      <4>1. Handles(c, "work", 0, <<>>, toClient[c])
        BY <1>1, <1>3, <2>4, <3>2, <3>4 DEF Hang, Handles, TypeOK
      <4>2. Suits("work", 0) /\ 0 \in Nat
        BY DEF Suits
      <4>3. /\ Shape' /\ \A d \in Conn : d # c => Between(d)'
            /\ Pending(c)' = <<>> /\ handler'[c] = "work"
            /\ c = server => toClient'[c] = toClient[c]
            /\ server' = server /\ cut' = cut /\ lib' = lib /\ expects' = expects /\ len' = len
        BY <2>2, <4>1, <4>2, HandlesIn
      <4>4. <<>> \in Rest(c)' /\ Begins(<<>>, <<>>) /\ "TPTWORK" \in Command
        BY <2>2, <4>3, Commands, Whole DEF Rest
      <4>5. c = server => Asked(c, "TPTWORK", <<>>, <<>>)'
        BY <3>2, <4>3 DEF Asked
      <4>6. Between(c)'
        BY <1>5, <2>2, <4>3, <4>4, <4>5, Hanging
      <4> QED
        BY <4>3, <4>6 DEF InStep
    <3> QED
      BY <3>1, <3>3, <3>4 DEF svrservice
  <2>6. CASE k # "TPTWORK"
    <3>1. PICK z : z = command_length[k]
      OBVIOUS
    <3>2. z \in Nat /\ z > 0 /\ Suits(k, z)
      BY <2>6, <3>1, Table DEF Suits
    <3>3. svriowait(c, k, z) /\ UNCHANGED <<toClient, calls, client>>
      BY <1>2, <2>2, <2>3, <2>6, <3>1 DEF command
    <3>4. handler' = [handler EXCEPT ![c] = k] /\ size' = [size EXCEPT ![c] = z]
      <4>1. z # 0
        BY <3>2
      <4> QED
        BY <3>3, <4>1, Zenon DEF svriowait
    <3>5. Handles(c, k, z, ts, toClient[c])
      BY <1>1, <1>3, <2>4, <3>3, <3>4 DEF Handles, TypeOK
    <3>6. /\ Shape' /\ \A d \in Conn : d # c => Between(d)'
          /\ Pending(c)' = ts /\ handler'[c] = k
          /\ c = server => toClient'[c] = toClient[c]
          /\ server' = server /\ cut' = cut /\ lib' = lib /\ expects' = expects /\ len' = len
      BY <2>2, <3>2, <3>5, HandlesIn
    <3>7. body \in Rest(c)'
      BY <2>1, <3>6 DEF Rest
    <3>8. c = server => Asked(c, k, body, <<>>)' /\ Pending(c)' = body
      BY <1>5, <2>1, <2>3, <2>4, <2>6, <3>6 DEF Asked
    <3>9. Between(c)'
      BY <1>5, <2>2, <2>3, <2>4, <3>6, <3>7, <3>8, Hanging
    <3> QED
      BY <3>6, <3>9 DEF InStep
  <2> QED
    BY <2>5, <2>6
<1> QED
  BY <1>1, <1>4, <1>5, CommandRead

\* A client that is left hanging has nothing on its way to the switchboard.
LEMMA HangingAlone ==
    ASSUME InStep, NEW c \in Conn, handler[c] \in {"reply", "work"},
           UNCHANGED <<toServer, input>>
    PROVE  /\ client[c] = "open"
           /\ input' = [input EXCEPT ![c] = <<>>] /\ toServer' = [toServer EXCEPT ![c] = <<>>]
           /\ c # server => c \in cut
           /\ c = server => /\ toClient[c] = <<>>
                            /\ lib = IF handler[c] = "reply" THEN "tpgetrply" ELSE "tpservice"
<1>1. TypeOK /\ client[c] = "open" /\ handler[c] \notin Command
  BY Commands DEF InStep, Shape, Sizes, TypeOK
<1>2. PICK rest \in Rest(c) :
          /\ Begins(Pending(c), rest)
          /\ c # server => c \in cut
          /\ c = server => toClient[c] = <<>> /\ \E k \in Command : Asked(c, k, rest, <<>>)
  BY <1>1, Waiting DEF Busy
<1>3. Pending(c) = <<>>
  BY <1>1, <1>2, Parts, Whole DEF Rest
<1>4. input[c] = <<>> /\ toServer[c] = <<>>
  BY <1>1, <1>3, Parts, JoinEmpty
<1>5. input' = [input EXCEPT ![c] = <<>>] /\ toServer' = [toServer EXCEPT ![c] = <<>>]
  BY <1>1, <1>4 DEF TypeOK
<1>6. c = server => lib = IF handler[c] = "reply" THEN "tpgetrply" ELSE "tpservice"
  BY <1>1, <1>2 DEF Asked, Busy
<1> QED
  BY <1>1, <1>2, <1>5, <1>6

\* A step that leaves everything but the number of calls alone.
LEMMA StillIn ==
    ASSUME InStep, UNCHANGED <<connVars, toServer, toClient, libVars, handler, size, input>>,
           calls' \in [Conn -> Nat]
    PROVE  InStep'
<1>1. /\ server' = server /\ client' = client /\ cut' = cut /\ up' = up
      /\ toServer' = toServer /\ toClient' = toClient
      /\ lib' = lib /\ expects' = expects /\ len' = len /\ serving' = serving
      /\ handler' = handler /\ size' = size /\ input' = input
  BY DEF connVars, libVars
<1>2. Shape'
  BY <1>1 DEF InStep, Shape, TypeOK, Sizes, Expected
<1>3. ASSUME NEW d \in Conn PROVE Between(d)'
  <2>1. Pending(d)' = Pending(d)
    BY <1>1 DEF Pending
  <2> QED
    BY <1>1, <2>1, Kept DEF InStep, libVars
<1> QED
  BY <1>2, <1>3 DEF InStep

\* A transaction that goes with its service leaves the streams alone.
LEMMA del_serviceIn ==
    ASSUME InStep, NEW c \in Conn, del_service(c)
    PROVE  InStep'
<1>1. calls \in [Conn -> Nat] /\ calls[c] > 0 /\ calls' = [calls EXCEPT ![c] = @ - 1]
  BY DEF InStep, Shape, TypeOK, del_service
<1>2. calls[c] - 1 \in Nat
  BY <1>1
<1>3. calls' \in [Conn -> Nat]
  BY <1>1, <1>2
<1>4. UNCHANGED <<connVars, toServer, toClient, libVars, handler, size, input>>
  BY DEF del_service, SvrUnchanged, connVars
<1> QED
  BY <1>3, <1>4, StillIn

\* Every step of the switchboard keeps the two sides in step.
LEMMA SvrIn ==
    ASSUME InStep, Svr
    PROVE  InStep'
<1>1. ASSUME NEW c \in Conn, Iowait_full(c) PROVE InStep'
  <2>1. handler[c] \in {"command", "TPTCALL", "TPTGRPLY", "TPTADVT", "TPTUADV", "TPTRETN",
                        "send_to_worker", "part2"}
    BY <1>1, Full DEF handle
  <2> QED
    BY <1>1, <2>1, commandIn, svracallIn, svrgetrplyIn, svradvertiseIn, svrreturnIn, next_partIn
<1>2. ASSUME NEW c \in Conn, Iowait(c) PROVE InStep'
  BY <1>1, <1>2, Iowait_partIn, Iowait_deletesIn DEF Iowait
<1>3. ASSUME NEW c \in Conn, reply_comes(c) PROVE InStep'
  BY <1>3, HangingAlone, snd_replyIn DEF reply_comes
<1>4. ASSUME NEW c \in Conn, work_comes(c) PROVE InStep'
  BY <1>4, HangingAlone, send_to_serverIn DEF work_comes
<1> QED
  BY <1>2, <1>3, <1>4, mainIn, exit_handlerIn, Iowait_acceptsIn, del_serviceIn DEF Svr

--------------------------------------------------------------------------------
(* The theorems.                                                            *)

\* Every step keeps the two sides in step.
LEMMA StepIn ==
    ASSUME Results \subseteq {"TPSUCCESS", "TPFAIL"}, InStep, [Next]_vars
    PROVE  InStep'
<1>1. CASE UNCHANGED vars
  <2>1. UNCHANGED <<connVars, toServer, toClient, libVars, handler, size, input>>
    BY <1>1 DEF vars, svrVars
  <2>2. calls' \in [Conn -> Nat]
    BY <1>1 DEF vars, svrVars, InStep, Shape, TypeOK
  <2> QED
    BY <2>1, <2>2, StillIn
<1> QED
  BY <1>1, LibIn, SvrIn DEF Next

\* Client and switchboard stay in step, whatever the client calls and wherever Iowait
\* divides the stream, as long as services return TPSUCCESS or TPFAIL: for any number of
\* connections, any lengths of data and any widths of the fields.
THEOREM BothInStep ==
    ASSUME Results \subseteq {"TPSUCCESS", "TPFAIL"}
    PROVE  Spec => []InStep
<1>1. InStep /\ [Next]_vars => InStep'
  BY StepIn
<1> QED
  BY <1>1, InitIn, PTL DEF Spec

\* What is next where a command is expected is a command.
LEMMA NextIsCommand ==
    ASSUME InStep, NEW c \in Conn, client[c] = "open", handler[c] = "command", Pending(c) # <<>>
    PROVE  Pending(c)[1].kind \in Command
<1>1. TypeOK /\ Pending(c) \in Streams
  BY Parts DEF InStep, Shape
<1>2. 1 <= Len(Pending(c)) /\ 1 \in 0 .. Len(Pending(c))
  BY <1>1, JoinLen, JoinEmpty
<1>3. ASSUME NEW k \in Command, NEW t \in Streams, Begins(Pending(c), Join(<<Byte(k, 0)>>, t))
      PROVE  Pending(c)[1].kind = k
  <2>1. PICK x \in Streams : x = <<Byte(k, 0)>> /\ Len(x) = 1 /\ x[1].kind = k
    BY Messages
  <2>2. Take(Pending(c), 1) = x
    <3>1. Len(x) <= Len(Pending(c)) /\ Begins(Pending(c), Join(x, t))
      BY <1>2, <1>3, <2>1
    <3>2. Take(Pending(c), Len(x)) = x
      BY <1>1, <3>1, Dropped, Zenon
    <3> QED
      BY <2>1, <3>2
  <2>3. Take(Pending(c), 1)[1] = Pending(c)[1]
    BY <1>1, <1>2, TakeDrop
  <2> QED
    BY <2>1, <2>2, <2>3
<1>4. ASSUME NEW n \in Lengths, NEW req \in Requested, Stream(c, <<>>, Message("TPTRETN", n), req)
      PROVE  Pending(c)[1].kind \in Command
  <2>1. n \in Nat /\ req \in Streams /\ "TPTRETN" \in Command
    BY <1>1, Parts, LengthsType, Commands
  <2>2. Begins(Pending(c), Join(<<Byte("TPTRETN", 0)>>, Sent(Body("TPTRETN", n), <<>>, req)))
    BY <1>4, <2>1, ResultFirst DEF Stream
  <2> QED
    BY <1>3, <2>1, <2>2, ResultFirst
<1>5. ASSUME NEW k \in Command, NEW n \in Lengths, Begins(Pending(c), Message(k, n))
      PROVE  Pending(c)[1].kind \in Command
  <2>1. Message(k, n) = Join(<<Byte(k, 0)>>, Body(k, n)) /\ Body(k, n) \in Streams
    BY Messages, LengthsType
  <2> QED
    BY <1>3, <1>5, <2>1
<1> QED
  BY <1>4, <1>5, CommandRead

\* command() always finds a command where it looks for one: it never calls a client's
\* next byte an "unknown command" and deletes the client (tpserver.c).
THEOREM CommandsAreInStep ==
    ASSUME Results \subseteq {"TPSUCCESS", "TPFAIL"}
    PROVE  Spec => []CommandsInStep
<1>1. InStep => CommandsInStep
  <2> SUFFICES ASSUME InStep, NEW c \in Conn, handler[c] = "command", toServer[c] # <<>>
               PROVE  Head(toServer[c]).kind \in Command
    BY DEF CommandsInStep
  <2>1. TypeOK /\ client[c] = "open" /\ size[c] = 1
    BY Commands DEF InStep, Shape, Sizes
  <2>2. toServer[c] \in Streams /\ input[c] \in Streams /\ Pending(c) = Join(input[c], toServer[c])
    BY <2>1, Parts
  <2>3. input[c] = <<>>
    BY <2>1, <2>2, JoinLen, JoinEmpty DEF InStep, Shape, Sizes
  <2>4. Pending(c) = toServer[c]
    BY <2>2, <2>3, JoinEmpty
  <2>5. toServer[c][1].kind \in Command
    BY <2>1, <2>4, NextIsCommand
  <2>6. Head(toServer[c]) = toServer[c][1]
    BY <2>2 DEF Streams
  <2> QED
    BY <2>5, <2>6
<1> QED
  BY <1>1, BothInStep, PTL

\* A client that is between two calls has left nothing unread.
THEOREM AnswersAreInStep ==
    ASSUME Results \subseteq {"TPSUCCESS", "TPFAIL"}
    PROVE  Spec => []AnswersInStep
<1>1. InStep => AnswersInStep
  <2> SUFFICES ASSUME InStep, lib = "idle", Open PROVE toClient[server] = <<>>
    BY DEF AnswersInStep
  <2>1. PICK c \in Conn : c = server /\ client[c] # "closed"
    BY DEF InStep, Shape, TypeOK, Open
  <2> QED
    BY <2>1, Idle
<1> QED
  BY <1>1, BothInStep, PTL

\* What is true of a connection at its end.
LEMMA AtEnd ==
    ASSUME InStep, NEW c \in Conn, Iowait_deletes(c)
    PROVE  /\ c # server
           /\ c \notin cut => handler[c] = "command" /\ input[c] = <<>> /\ toServer[c] = <<>>
<1>1. TypeOK /\ Sizes /\ client[c] = "open"
  BY DEF InStep, Shape, Iowait_deletes
<1>2. /\ input[c] \in Streams /\ toServer[c] \in Streams
      /\ Pending(c) = Join(input[c], toServer[c]) /\ size[c] \in Nat /\ Len(input[c]) \in Nat
  BY <1>1, Parts, JoinLen DEF TypeOK
<1>3. toServer[c] = <<>>
  <2> SUFFICES ASSUME toServer[c] # <<>> PROVE FALSE
    OBVIOUS
  <2>1. size[c] = 0
    BY DEF Iowait_deletes
  <2>2. handler[c] \in {"reply", "work"}
    BY <1>1, <2>1, Table DEF Sizes
  <2>3. PICK rest \in Rest(c) : Begins(Pending(c), rest)
    BY <1>1, <2>2, Waiting DEF Busy
  <2>4. Pending(c) = <<>>
    BY <1>1, <2>2, <2>3, Commands, Parts, Whole DEF Rest
  <2> QED
    BY <1>2, <2>4, JoinEmpty
<1>4. c # server /\ Pending(c) = input[c]
  BY <1>2, <1>3, JoinEmpty DEF Iowait_deletes
<1>5. ASSUME c \notin cut PROVE handler[c] = "command" /\ input[c] = <<>>
  <2>1. PICK rest \in Rest(c), ret \in Result, req \in Requested : Stream(c, rest, ret, req)
    BY <1>1 DEF InStep, Between
  <2>2. handler[c] \notin Busy /\ input[c] = Sent(rest, ret, req)
    BY <1>4, <1>5, <2>1 DEF Stream
  <2>3. rest \in Streams /\ ret \in Streams /\ req \in Streams
    BY <1>1, Parts
  <2>4. Len(input[c]) >= Len(rest) /\ Len(rest) \in Nat
    <3>1. PICK t \in Streams : t = Join(ret, req)
      BY <2>3, JoinType
    <3>2. input[c] = Join(rest, t)
      BY <2>2, <2>3, <3>1, SentJoin, ZenonT(40)
    <3>3. Len(input[c]) = Len(rest) + Len(t) /\ Len(rest) \in Nat /\ Len(t) \in Nat
      BY <2>3, <3>2, JoinLen
    <3> QED
      BY <3>3
  <2>5. size[c] > 0 => Len(rest) < size[c]
    BY <1>1, <1>2, <2>4, JoinEmpty DEF Sizes
  <2>6. handler[c] \notin {"send_to_worker", "part2"}
    <3> SUFFICES ASSUME handler[c] \in {"send_to_worker", "part2"} PROVE FALSE
      OBVIOUS
    <3>1. rest = Data(size[c]) /\ size[c] > 0
      BY <1>1, Commands DEF Rest, Sizes
    <3> QED
      BY <1>2, <2>5, <3>1, Filled
  <2>7. handler[c] # "TPTRETN"
    <3> SUFFICES ASSUME handler[c] = "TPTRETN" PROVE FALSE
      OBVIOUS
    <3>1. PICK n \in Lengths : rest = Body("TPTRETN", n)
      BY Commands DEF Rest
    <3>2. n \in Nat
      BY LengthsType
    <3>3. Len(RetHeader(n)) = size[c] /\ size[c] > 0
      BY <1>1, <3>2, Table, Commands DEF Sizes
    <3>4. Len(rest) = Len(RetHeader(n)) + Len(Data(n))
      BY <3>1, <3>2, Bodies, Filled, JoinLen
    <3> QED
      BY <1>2, <2>5, <3>2, <3>3, <3>4, Filled
  <2>8. handler[c] = "command" /\ size[c] = 1
    BY <1>1, <2>2, <2>6, <2>7, Commands DEF Sizes, Busy
  <2> QED
    BY <1>1, <1>2, <2>8, JoinEmpty DEF Sizes
<1> QED
  BY <1>3, <1>4, <1>5

\* An open connection is closed by Iowait_deletes, or when the switchboard exits.
LEMMA Closers ==
    ASSUME InStep, Next, NEW c \in Conn, client[c] = "open", client'[c] = "closed", up'
    PROVE  Iowait_deletes(c)
<1>1. TypeOK
  BY DEF InStep, Shape
<1>2. ~Lib
  <2> SUFFICES ASSUME Lib PROVE client' = client \/ \E d \in Conn : client' = [client EXCEPT ![d] = "backlog"]
    BY <1>1 DEF TypeOK
  <2> QED
    BY DEF Lib, LibReads, tpacall, tpreturn, tpgetrply, tpadvertise, tpunadvertise, tpservice,
           tx_open, tx_close, dies, Request, Reads, tpacall_answer, tpgetrply_answer,
           tpgetrply_lengths, last_read, tpservice_opaque, tpservice_header, tpservice_data,
           tx_read_fails, connVars
<1>3. ~main /\ ~exit_handler
  BY DEF main, exit_handler
<1>4. ASSUME NEW d \in Conn,
             Iowait_accepts(d) \/ reply_comes(d) \/ work_comes(d) \/ del_service(d)
      PROVE  FALSE
  <2>1. client' = client \/ client' = [client EXCEPT ![d] = "open"]
    BY <1>4 DEF Iowait_accepts, reply_comes, work_comes, del_service, snd_reply, send_to_server
  <2> QED
    BY <1>1, <2>1 DEF TypeOK
<1>5. ASSUME NEW d \in Conn, NEW n, Iowait_part(d, n) PROVE FALSE
  BY <1>5 DEF Iowait_part
<1>6. ASSUME NEW d \in Conn, Iowait_full(d) PROVE FALSE
  <2>1. /\ client[d] = "open" /\ handle(d, Take(Pending(d), size[d])) /\ Pending(d) # <<>>
        /\ Pending(d) \in Streams /\ size[d] \in Nat /\ size[d] > 0 /\ size[d] <= Len(Pending(d))
    BY <1>6, Full
  <2>2. Take(Pending(d), size[d])[1] = Pending(d)[1]
    <3>1. size[d] \in 0 .. Len(Pending(d)) /\ 1 \in 1 .. size[d]
      BY <2>1, JoinLen
    <3> QED
      BY <2>1, <3>1, TakeDrop
  <2>3. \/ client' = client
        \/ handler[d] = "command" /\ Take(Pending(d), size[d])[1].kind \notin Command
    BY <2>1 DEF handle, command, svracall, svracall_refused, svrgetrply, snd_reply, svradvertise,
                svrservice, send_to_server, svrreturn, next_part
  <2> QED
    BY <2>1, <2>2, <2>3, NextIsCommand
<1>7. PICK d \in Conn : Iowait_deletes(d)
  BY <1>2, <1>3, <1>4, <1>5, <1>6 DEF Next, Svr, Iowait
<1>8. d = c
  BY <1>1, <1>7 DEF Iowait_deletes, del_client, TypeOK
<1> QED
  BY <1>7, <1>8

\* A connection is deleted only when its client has closed it and all that the client
\* wrote has been handled, or when the client has died.
THEOREM DeletedOnlyAtEnd ==
    ASSUME Results \subseteq {"TPSUCCESS", "TPFAIL"}
    PROVE  Spec => DeletedAtEnd
<1> DEFINE Ends ==
        \A c \in Conn :
            client[c] = "open" /\ client'[c] = "closed" /\ up' =>
               /\ c # server
               /\ c \notin cut =>
                    handler[c] = "command" /\ input[c] = <<>> /\ toServer[c] = <<>>
<1>1. InStep /\ [Next]_vars => [Ends]_vars
  <2> SUFFICES ASSUME InStep, Next PROVE Ends
    OBVIOUS
  <2> QED
    BY Closers, AtEnd
<1> QED
  BY <1>1, BothInStep, PTL DEF Spec, DeletedAtEnd

--------------------------------------------------------------------------------
(* The two sides never wait for each other.                                 *)

\* A tx_read whose answer has been written has all its bytes.
LEMMA LongEnough ==
    ASSUME TypeOK, Expected, NEW bytes, Answer(bytes, lib, expects)
    PROVE  Len(bytes) >= expects
<1>0. /\ expects \in Nat /\ IOLONG \in Nat /\ IOSHORT \in Nat
      /\ XATMI_SERVICE_NAME_LENGTH \in Nat /\ DataLength \subseteq Nat /\ Results \subseteq Kind
  BY WireConstants DEF TypeOK, Kind
<1>1. ASSUME NEW x \in Streams, NEW t \in Streams PROVE Len(Join(x, t)) >= Len(x)
  <2>1. Len(Join(x, t)) = Len(x) + Len(t) /\ Len(x) \in Nat /\ Len(t) \in Nat
    BY JoinLen
  <2> QED
    BY <2>1
<1>2. CASE lib = "tpacall" /\ bytes \in {Ack("ok"), Ack("error")}
  <2>1. Len(bytes) = 1 + IOSHORT
    BY <1>2, Forms DEF Kind
  <2> QED
    BY <1>0, <1>2, <2>1 DEF Expected
<1>3. CASE lib = "tpgetrply" /\ bytes = Ack("TPERRNO")
  <2>1. Len(bytes) = 1 + IOSHORT
    BY <1>3, Forms DEF Kind
  <2> QED
    BY <1>0, <1>3, <2>1 DEF Expected
<1>4. ASSUME lib = "tpgetrply", NEW rval \in Results, NEW n \in DataLength, bytes = Reply(rval, n)
      PROVE  Len(bytes) >= expects
  <2>1. /\ Ack(rval) \in Streams /\ Values(n) \in Streams /\ Len(Ack(rval)) = 1 + IOSHORT
        /\ Byte(rval, 0) \in Bytes /\ n \in Nat
    BY <1>0, Forms, Bytewise
  <2>2. Reply(rval, n) = Join(Ack(rval), Values(n))
    BY <2>1, Answers DEF Reply, Ack, Values
  <2>3. Len(bytes) >= Len(Ack(rval))
    BY <1>1, <1>4, <2>1, <2>2
  <2>4. expects = 1 + IOSHORT
    BY <1>4 DEF Expected
  <2> QED
    BY <2>1, <2>3, <2>4
<1>5. ASSUME lib = "tpgetrply_lengths", NEW n \in DataLength, bytes = Values(n)
      PROVE  Len(bytes) >= expects
  <2>1. n \in Nat /\ Byte("ok", 0) \in Bytes /\ Data(n) \in Streams
    BY <1>0, Filled, Bytewise DEF Kind
  <2>2. /\ Values(n) = Join(Join(Long(0), Long(n)), Data(n))
        /\ Join(Long(0), Long(n)) \in Streams /\ Len(Join(Long(0), Long(n))) = IOLONG * 2
    BY <2>1, Answers DEF Values
  <2>3. Len(bytes) >= Len(Join(Long(0), Long(n)))
    BY <1>1, <1>5, <2>1, <2>2
  <2>4. expects = IOLONG * 2
    BY <1>5 DEF Expected
  <2> QED
    BY <2>2, <2>3, <2>4
<1>6. CASE lib \in {"data", "tpservice_data"} /\ bytes \in {Fill(expects), Data(expects)}
  <2>1. Len(bytes) = expects
    BY <1>0, <1>6, Filled
  <2> QED
    BY <1>0, <2>1
<1>7. ASSUME lib = "tpservice", NEW n \in DataLength, bytes = Long(0) \o Work(n)
      PROVE  Len(bytes) >= expects
  <2>1. n \in Nat /\ Work(n) \in Streams /\ Long(0) \in Streams /\ Len(Long(0)) = IOLONG
    BY <1>0, Forms, Numbers DEF Kind
  <2>2. bytes = Join(Long(0), Work(n))
    BY <1>7 DEF Join
  <2>3. Len(bytes) >= Len(Long(0))
    BY <1>1, <2>1, <2>2
  <2>4. expects = IOLONG
    BY <1>7 DEF Expected
  <2> QED
    BY <2>1, <2>3, <2>4
<1>8. ASSUME lib = "tpservice_header", NEW n \in DataLength, bytes = Work(n)
      PROVE  Len(bytes) >= expects
  <2>1. n \in Nat /\ Byte("ok", 0) \in Bytes /\ Data(n) \in Streams
    BY <1>0, Filled, Bytewise DEF Kind
  <2>2. /\ Work(n) = Join(WorkHeader(n), Data(n)) /\ WorkHeader(n) \in Streams
        /\ Len(WorkHeader(n)) = XATMI_SERVICE_NAME_LENGTH + IOLONG * 2 + IOSHORT
    BY <2>1, Answers
  <2>3. Len(bytes) >= Len(WorkHeader(n))
    BY <1>1, <1>8, <2>1, <2>2
  <2>4. expects = XATMI_SERVICE_NAME_LENGTH + IOLONG * 2 + IOSHORT
    BY <1>8 DEF Expected
  <2> QED
    BY <2>2, <2>3, <2>4
<1> QED
  BY <1>2, <1>3, <1>4, <1>5, <1>6, <1>7, <1>8 DEF Answer

\* A handler that is not about a request has all that it waits for when there is a
\* request behind.
LEMMA EnoughBefore ==
    ASSUME InStep, NEW c \in Conn, client[c] = "open", handler[c] \notin Busy,
           NEW rest \in Rest(c), NEW ret \in Result, NEW req \in Requested,
           req # <<>>, Pending(c) = Sent(rest, ret, req)
    PROVE  size[c] > 0 /\ size[c] <= Len(Pending(c))
<1>1. TypeOK /\ Sizes /\ size[c] \in Nat
  BY DEF InStep, Shape, TypeOK
<1>2. rest \in Streams /\ ret \in Streams /\ req \in Streams
  BY <1>1, Parts
<1>3. /\ Len(Pending(c)) = Len(rest) + Len(ret) + Len(req)
      /\ Len(rest) \in Nat /\ Len(ret) \in Nat /\ Len(req) \in Nat \ {0}
  <2>1. PICK t \in Streams : t = Join(ret, req)
    BY <1>2, JoinType
  <2>2. Pending(c) = Join(rest, t)
    BY <1>2, <2>1, SentJoin, ZenonT(40)
  <2>3. Len(t) = Len(ret) + Len(req) /\ Len(Pending(c)) = Len(rest) + Len(t)
    BY <1>2, <2>1, <2>2, JoinLen
  <2>4. Len(rest) \in Nat /\ Len(ret) \in Nat /\ Len(req) \in Nat /\ Len(req) # 0
    BY <1>2, JoinLen, JoinEmpty
  <2> QED
    BY <2>3, <2>4
<1>4. CASE handler[c] = "command"
  <2>1. size[c] = 1
    BY <1>1, <1>4, Commands DEF Sizes
  <2> QED
    BY <1>3, <2>1
<1>5. CASE handler[c] \in {"send_to_worker", "part2"}
  <2>1. rest = Data(size[c]) /\ size[c] > 0
    BY <1>1, <1>5, Commands DEF Rest, Sizes
  <2>2. Len(rest) = size[c]
    BY <1>1, <2>1, Filled
  <2> QED
    BY <1>1, <1>3, <2>1, <2>2
<1>6. CASE handler[c] = "TPTRETN"
  <2>1. PICK n \in Lengths : rest = Body("TPTRETN", n)
    BY <1>6, Commands DEF Rest
  <2>2. n \in Nat
    BY LengthsType
  <2>3. Len(RetHeader(n)) = size[c] /\ size[c] > 0
    BY <1>1, <1>6, <2>2, Table, Commands DEF Sizes
  <2>4. Len(rest) = Len(RetHeader(n)) + Len(Data(n)) /\ Len(Data(n)) = n
    BY <2>1, <2>2, Bodies, Filled, JoinLen
  <2> QED
    BY <1>1, <1>3, <2>2, <2>3, <2>4
<1> QED
  BY <1>1, <1>4, <1>5, <1>6, Commands DEF Sizes, Busy

\* In step, the switchboard can go on whenever the client waits.
LEMMA OneGoesOn ==
    ASSUME InStep, Attached
    PROVE  NeverBothWait
<1> SUFFICES ASSUME lib # "idle", Open, Len(toClient[server]) < expects
             PROVE  \/ up /\ client[server] = "backlog"
                    \/ size[server] > 0 /\ size[server] <= Len(input[server]) + Len(toServer[server])
                    \/ handler[server] \in {"work", "reply"}
  BY DEF NeverBothWait
<1>1. TypeOK /\ Sizes /\ Expected
  BY DEF InStep, Shape
<1>2. PICK c \in Conn : c = server /\ client[c] # "closed" /\ up
  BY <1>1 DEF TypeOK, Open, Attached
<1>3. CASE client[c] = "backlog"
  BY <1>2, <1>3
<1>4. CASE client[c] = "open" /\ handler[c] \in {"reply", "work"}
  BY <1>2, <1>4
<1>5. CASE client[c] = "open" /\ handler[c] \notin {"reply", "work"}
  <2>1. PICK rest \in Rest(c), ret \in Result, req \in Requested : Stream(c, rest, ret, req)
    BY <1>2 DEF InStep, Between
  <2>2. ~Answered(c, rest)
    <3> SUFFICES ASSUME Answered(c, rest) PROVE FALSE
      OBVIOUS
    <3>1. Len(toClient[c]) >= expects
      BY <1>1, LongEnough DEF Answered
    <3>2. Len(toClient[c]) \in Nat /\ expects \in Nat
      BY <1>1, JoinLen DEF TypeOK
    <3> QED
      BY <1>2, <3>1, <3>2
  <2>3. PICK k \in Command : Asked(c, k, rest, req) /\ Pending(c) = Sent(rest, ret, req)
    BY <1>2, <2>1, <2>2 DEF Stream
  <2>4. len \in Lengths /\ len \in Nat
    BY <1>1, LengthsType DEF TypeOK
  <2>5. Len(Pending(c)) = Len(input[c]) + Len(toServer[c])
    BY <1>1, Parts, JoinLen
  <2>6. CASE handler[c] \notin Busy
    <3>1. req = Message(k, len)
      BY <2>3, <2>6 DEF Asked, Busy
    <3>2. req # <<>>
      BY <2>4, <3>1, Messages
    <3>3. size[c] > 0 /\ size[c] <= Len(Pending(c))
      BY <1>5, <2>3, <2>6, <3>2, EnoughBefore
    <3> QED
      BY <1>2, <2>5, <3>3
  <2>7. CASE handler[c] \in Busy
    <3>1. handler[c] = k /\ k \in {"TPTCALL", "TPTGRPLY", "TPTADVT", "TPTUADV"}
      BY <1>5, <2>3, <2>7 DEF Asked, Busy
    <3>2. rest = Body(k, len) /\ ret = <<>> /\ req = <<>>
      BY <1>5, <2>1, <2>3, <2>7 DEF Asked, Stream
    <3>3. size[c] = command_length[k] /\ size[c] > 0
      BY <1>1, <1>5, <3>1, <2>4, Table, Commands DEF Sizes
    <3>4. Len(rest) = size[c] /\ rest \in Streams
      BY <1>1, <2>4, <3>1, <3>2, <3>3, Table, Parts
    <3>5. Pending(c) = rest
      BY <2>3, <3>2, <3>4, Appended, JoinEmpty
    <3>6. Len(Pending(c)) = size[c] /\ size[c] \in Nat
      BY <1>1, <3>4, <3>5 DEF TypeOK
    <3>7. size[c] <= Len(Pending(c))
      BY <3>6
    <3> QED
      BY <1>2, <2>5, <3>3, <3>7
  <2> QED
    BY <2>6, <2>7
<1> QED
  BY <1>1, <1>2, <1>3, <1>4, <1>5 DEF TypeOK

\* Attached is preserved: the switchboard exits with all its connections closed, and
\* there is a new one only while it is up.
LEMMA StepAttached ==
    ASSUME TypeOK, Attached, [Next]_vars
    PROVE  Attached'
<1>1. client \in [Conn -> {"backlog", "open", "closed"}]
  BY DEF TypeOK
<1>2. ASSUME Lib PROVE Attached'
  <2>1. up' = up
    BY <1>2 DEF Lib, LibReads, tpacall, tpreturn, tpgetrply, tpadvertise, tpunadvertise, tpservice,
           tx_open, tx_close, dies, Leaves, Request, Reads, tpacall_answer, tpgetrply_answer,
           tpgetrply_lengths, last_read, tpservice_opaque, tpservice_header, tpservice_data,
           tx_read_fails, connVars
  <2>2. client' = client \/ (up /\ \E d \in Conn : client' = [client EXCEPT ![d] = "backlog"])
    BY <1>2 DEF Lib, LibReads, tpacall, tpreturn, tpgetrply, tpadvertise, tpunadvertise, tpservice,
           tx_open, tx_close, dies, Request, Reads, tpacall_answer, tpgetrply_answer,
           tpgetrply_lengths, last_read, tpservice_opaque, tpservice_header, tpservice_data,
           tx_read_fails, connVars
  <2> QED
    BY <1>1, <2>1, <2>2 DEF Attached
<1>3. ASSUME main PROVE Attached'
  BY <1>3 DEF main, Attached
<1>4. ASSUME exit_handler PROVE Attached'
  BY <1>4 DEF exit_handler, Attached
<1>5. ASSUME NEW c \in Conn, Iowait_accepts(c) PROVE Attached'
  BY <1>5 DEF Iowait_accepts, SvrUnchanged, Attached
<1>6. ASSUME NEW c \in Conn, NEW n, Iowait_part(c, n) PROVE Attached'
  BY <1>6 DEF Iowait_part, SvrUnchanged, Attached
<1>7. ASSUME NEW c \in Conn, client' = client \/ client' = [client EXCEPT ![c] = "closed"], up' = up
      PROVE  Attached'
  BY <1>1, <1>7 DEF Attached
<1>8. ASSUME NEW c \in Conn, Iowait_full(c) PROVE Attached'
  <2>1. client' = client \/ client' = [client EXCEPT ![c] = "closed"]
    BY <1>8 DEF Iowait_full, handle, command, svracall, svracall_refused, svrgetrply, snd_reply,
                svradvertise, svrservice, send_to_server, svrreturn, next_part, del_client
  <2>2. up' = up
    BY <1>8 DEF Iowait_full, SvrUnchanged
  <2> QED
    BY <1>7, <2>1, <2>2
<1>9. ASSUME NEW c \in Conn, Iowait_deletes(c) PROVE Attached'
  BY <1>7, <1>9 DEF Iowait_deletes, del_client, SvrUnchanged
<1>10. ASSUME NEW c \in Conn, reply_comes(c) \/ work_comes(c) \/ del_service(c) PROVE Attached'
  BY <1>7, <1>10 DEF reply_comes, work_comes, del_service, snd_reply, send_to_server, SvrUnchanged
<1>11. ASSUME UNCHANGED vars PROVE Attached'
  BY <1>11 DEF vars, connVars, Attached
<1> QED
  BY <1>2, <1>3, <1>4, <1>5, <1>6, <1>8, <1>9, <1>10, <1>11 DEF Next, Svr, Iowait

\* Whatever has been called and wherever the stream is divided, client and switchboard
\* do not wait for bytes of each other: one of the two has all the bytes that it waits
\* for, or the client has been left hanging for what only another client can bring.
THEOREM NoDeadlockOnTheWire ==
    ASSUME Results \subseteq {"TPSUCCESS", "TPFAIL"}
    PROVE  Spec => []NeverBothWait
<1>1. Init => Attached
  BY DEF Init, Attached
<1>2. InStep => TypeOK
  BY DEF InStep, Shape
<1>3. TypeOK /\ Attached /\ [Next]_vars => Attached'
  BY StepAttached
<1>4. InStep /\ Attached => NeverBothWait
  BY OneGoesOn
<1> QED
  BY <1>1, <1>2, <1>3, <1>4, BothInStep, PTL DEF Spec
================================================================================
