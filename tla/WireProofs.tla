----------------------------- MODULE WireProofs -----------------------------
(***************************************************************************)
(* The bytes of a connection with one sender.  What the handlers take out  *)
(* of a payload is what was put in (RoundTrip), for every process, pcb and *)
(* list of numbers; and whatever pieces send and recv cut the bytes into,  *)
(* the reader stays at the boundaries of the packets.                      *)
(*                                                                         *)
(* The invariant is about all the bytes that were ever sent, which no      *)
(* variable keeps: they are the frames of the packets sent, one after the  *)
(* other, and the beginning of the frame that is being sent (Written);     *)
(* what is on its way is the end of them (OnTheWay); and the fields read   *)
(* so far are those of the frame that follows the last one delivered       *)
(* (ReadTo).  With two senders their sends mix and Written is false.       *)
(*                                                                         *)
(* What holds of every number of instructions, of parameters and of words  *)
(* is shown of the set of the numbers of which it holds (Induction).       *)
(***************************************************************************)
EXTENDS Wire, SequenceTheorems, FiniteSetTheorems, TLAPS

-----------------------------------------------------------------------------
(* Induction over the natural numbers, for sets. *)

\* A set of natural numbers that is not empty has a least one.
LEMMA Least ==
  ASSUME NEW T, T \subseteq Nat, T # {}
  PROVE  \E x \in T : \A y \in T : ~(y < x)
  <1> DEFINE R == {ss \in Nat \X Nat : ss[1] < ss[2]}
  <1>1. IsWellFoundedOn(R, Nat)
    BY NatLessThanWellFounded DEF OpToRel
  <1>2. PICK x \in T : \A y \in T : ~(<<y, x>> \in R)
    BY <1>1, WFMin
  <1>3. \A y \in T : y < x => <<y, x>> \in R
    OBVIOUS
  <1>. QED BY <1>2, <1>3

\* A set that has 0 and the successor of each of its numbers has them all.
LEMMA Induction ==
  ASSUME NEW T, 0 \in T, \A n \in Nat : n \in T => n + 1 \in T
  PROVE  \A n \in Nat : n \in T
  <1> DEFINE U == Nat \ T
  <1>1. SUFFICES ASSUME U # {} PROVE FALSE
    OBVIOUS
  <1>2. PICK x \in U : \A y \in U : ~(y < x)
    <2> HIDE DEF U
    <2>1. U \subseteq Nat
      BY DEF U
    <2>. QED BY <1>1, <2>1, Least
  <1>3. x # 0 /\ x \in Nat
    OBVIOUS
  <1>4. x - 1 \in Nat /\ x - 1 < x
    BY <1>3
  <1>5. (x - 1) + 1 \in T
    BY <1>2, <1>4
  <1>. QED BY <1>3, <1>5

-----------------------------------------------------------------------------
(* Bytes in a stream. *)

\* Sequences of bytes, or of any numbers.
Bytes == Seq(Nat)

\* The stream s has the bytes b at offset at.
At(s, at, b) == at + Len(b) <= Len(s) /\ \A i \in 1 .. Len(b) : s[at + i] = b[i]

\* What a stream has at an offset is what is cut out there.
LEMMA AtSubSeq ==
  ASSUME NEW s \in Bytes, NEW at \in Nat, NEW b \in Bytes, At(s, at, b)
  PROVE  SubSeq(s, at + 1, at + Len(b)) = b
  <1>1. Len(b) \in Nat /\ at + Len(b) <= Len(s) /\ Len(s) \in Nat
    BY DEF At, Bytes
  <1>2. /\ SubSeq(s, at + 1, at + Len(b)) \in Seq(Nat)
        /\ Len(SubSeq(s, at + 1, at + Len(b))) = Len(b)
        /\ \A i \in 1 .. Len(b) : SubSeq(s, at + 1, at + Len(b))[i] = s[at + i]
    BY <1>1, SubSeqProperties DEF Bytes
  <1>3. \A i \in 1 .. Len(b) : SubSeq(s, at + 1, at + Len(b))[i] = b[i]
    BY <1>2 DEF At
  <1>. QED BY <1>2, <1>3, SeqEqual DEF Bytes

\* Two streams make a stream.
LEMMA Concat ==
  ASSUME NEW a \in Bytes, NEW b \in Bytes
  PROVE  /\ a \o b \in Bytes /\ Len(a \o b) = Len(a) + Len(b)
         /\ Len(a) \in Nat /\ Len(b) \in Nat
         /\ \A i \in 1 .. Len(a) : (a \o b)[i] = a[i]
         /\ \A i \in 1 .. Len(b) : (a \o b)[Len(a) + i] = b[i]
  BY DEF Bytes

\* One item after the other.
LEMMA AtConcat ==
  ASSUME NEW s \in Bytes, NEW at \in Nat, NEW a \in Bytes, NEW b \in Bytes
  PROVE  /\ a \o b \in Bytes /\ Len(a \o b) = Len(a) + Len(b)
         /\ At(s, at, a \o b) <=> At(s, at, a) /\ At(s, at + Len(a), b)
  <1>1. /\ a \o b \in Bytes /\ Len(a \o b) = Len(a) + Len(b)
        /\ Len(a) \in Nat /\ Len(b) \in Nat /\ Len(s) \in Nat
        /\ \A i \in 1 .. Len(a) : (a \o b)[i] = a[i]
        /\ \A i \in 1 .. Len(b) : (a \o b)[Len(a) + i] = b[i]
    BY DEF Bytes
  <1>2. ASSUME At(s, at, a \o b) PROVE At(s, at, a) /\ At(s, at + Len(a), b)
    <2>1. \A i \in 1 .. Len(a) : s[at + i] = a[i]
      BY <1>1, <1>2 DEF At
    <2>2. ASSUME NEW i \in 1 .. Len(b) PROVE s[at + Len(a) + i] = b[i]
      <3>1. Len(a) + i \in 1 .. Len(a \o b) /\ at + (Len(a) + i) = at + Len(a) + i
        BY <1>1
      <3>2. s[at + (Len(a) + i)] = (a \o b)[Len(a) + i]
        BY <1>2, <3>1 DEF At
      <3>. QED BY <1>1, <3>1, <3>2
    <2>. QED BY <1>1, <1>2, <2>1, <2>2 DEF At
  <1>3. ASSUME At(s, at, a), At(s, at + Len(a), b) PROVE At(s, at, a \o b)
    <2>1. ASSUME NEW i \in 1 .. Len(a) + Len(b) PROVE s[at + i] = (a \o b)[i]
      <3>1. CASE i <= Len(a)
        BY <1>1, <1>3, <3>1 DEF At
      <3>2. CASE i > Len(a)
        <4>1. i - Len(a) \in 1 .. Len(b) /\ (at + Len(a)) + (i - Len(a)) = at + i
              /\ Len(a) + (i - Len(a)) = i
          BY <1>1, <3>2
        <4>. QED BY <1>1, <1>3, <4>1 DEF At
      <3>. QED BY <1>1, <3>1, <3>2
    <2>. QED BY <1>1, <1>3, <2>1 DEF At
  <1>. QED BY <1>1, <1>2, <1>3

\* A number is read back from the four bytes it was written to.
LEMMA Uint32Value ==
  ASSUME NEW n \in Nat
  PROVE  /\ Uint32(n) \in Bytes /\ Len(Uint32(n)) = 4
         /\ ValueOf(Uint32(n)) = n
  <1>1. /\ n % 256 \in Nat /\ (n \div 256) % 256 \in Nat /\ (n \div 65536) % 256 \in Nat
        /\ n \div 16777216 \in Nat
    OBVIOUS
  <1>2. /\ n = 256 * (n \div 256) + (n % 256)
        /\ n \div 256 = 256 * (n \div 65536) + ((n \div 256) % 256)
        /\ n \div 65536 = 256 * (n \div 16777216) + ((n \div 65536) % 256)
    OBVIOUS
  <1>3. n = (n % 256) + 256 * ((n \div 256) % 256) + 65536 * ((n \div 65536) % 256)
              + 16777216 * (n \div 16777216)
    BY <1>2
  <1>. QED BY <1>1, <1>3 DEF Uint32, ValueOf, Bytes

\* stream_take_UINT32 finds what stream_add_UINT32 added.
LEMMA TakeUint32 ==
  ASSUME NEW s \in Bytes, NEW at \in Nat, NEW n \in Nat, At(s, at, Uint32(n))
  PROVE  StreamTakeUint32(s, at) = n
  <1>1. SubSeq(s, at + 1, at + 4) = Uint32(n)
    BY Uint32Value, AtSubSeq
  <1>. QED BY <1>1, Uint32Value DEF StreamTakeUint32

\* stream_take_STRING finds the string that stream_add_STRING added, for the copy ends
\* at its terminating zero and the characters before it are not zero.
LEMMA TakeString ==
  ASSUME NEW s \in Bytes, NEW at \in Nat, NEW string \in Seq(Nat \ {0}),
         At(s, at, StreamAddString(string))
  PROVE  /\ StreamTakeString(s, at) = string
         /\ AfterString(s, at) = at + Len(StreamAddString(string))
  <1> DEFINE n == Len(string) + 1
             z == Append(string, 0)
  <1>1. /\ n \in Nat /\ z \in Bytes /\ Len(z) = n /\ string \in Bytes
        /\ z[n] = 0 /\ \A i \in 1 .. n - 1 : z[i] = string[i] /\ string[i] # 0
    BY DEF Bytes
  <1>2. /\ At(s, at, Uint32(n)) /\ At(s, at + 4, z)
        /\ Len(StreamAddString(string)) = 4 + n
    <2>1. StreamAddString(string) = Uint32(n) \o z
      BY DEF StreamAddString
    <2> HIDE DEF n, z
    <2>2. Uint32(n) \in Bytes /\ Len(Uint32(n)) = 4
      BY <1>1, Uint32Value
    <2>3. /\ Len(Uint32(n) \o z) = Len(Uint32(n)) + Len(z)
          /\ At(s, at, Uint32(n)) /\ At(s, at + Len(Uint32(n)), z)
      <3>1. z \in Bytes
        BY <1>1
      <3>2. At(s, at, Uint32(n) \o z)
        BY <2>1
      <3>. QED BY <2>2, <3>1, <3>2, AtConcat
    <2>. QED BY <1>1, <2>1, <2>2, <2>3
  <1>3. StreamTakeUint32(s, at) = n
    BY <1>1, <1>2, TakeUint32
  <1>4. SubSeq(s, at + 5, at + 4 + n) = z
    <2>1. SubSeq(s, (at + 4) + 1, (at + 4) + Len(z)) = z
      <3>1. at + 4 \in Nat
        OBVIOUS
      <3> HIDE DEF z
      <3>. QED BY <1>1, <1>2, <3>1, AtSubSeq
    <2>2. (at + 4) + 1 = at + 5
      OBVIOUS
    <2>. QED BY <1>1, <2>1, <2>2
  <1> HIDE DEF z, n
  <1>5. DOMAIN z = 1 .. n
    BY <1>1 DEF Bytes
  <1>6. (CHOOSE i \in DOMAIN z : z[i] = 0 /\ \A j \in 1 .. i - 1 : z[j] # 0) = n
    <2>1. n \in DOMAIN z /\ z[n] = 0 /\ \A j \in 1 .. n - 1 : z[j] # 0
      BY <1>1, <1>5 DEF n
    <2>2. \A i \in DOMAIN z : z[i] = 0 => i = n
      BY <1>1, <1>5
    <2>. QED BY <2>1, <2>2
  <1>7. SubSeq(z, 1, n - 1) = string
    <2>1. At(z, 0, string)
      BY <1>1 DEF At, n
    <2>2. SubSeq(z, 0 + 1, 0 + Len(string)) = string
      BY <1>1, <2>1, AtSubSeq
    <2>3. Len(string) \in Nat
      OBVIOUS
    <2>. QED BY <2>2, <2>3 DEF n
  <1>8. StreamTakeString(s, at) = string
    BY <1>3, <1>4, <1>6, <1>7 DEF StreamTakeString
  <1>9. AfterString(s, at) = at + (4 + n)
    BY <1>1, <1>3 DEF AfterString
  <1>. QED BY <1>2, <1>8, <1>9

-----------------------------------------------------------------------------
(* Lists. *)

\* What follows an item in a stream does not move it, and begins where it ends.
LEMMA AtBefore ==
  ASSUME NEW s \in Bytes, NEW e \in Bytes
  PROVE  /\ s \o e \in Bytes /\ Len(s \o e) = Len(s) + Len(e)
         /\ At(s \o e, Len(s), e)
         /\ \A at \in Nat : \A b \in Bytes : At(s, at, b) => At(s \o e, at, b)
  <1>1. /\ s \o e \in Bytes /\ Len(s \o e) = Len(s) + Len(e)
        /\ Len(s) \in Nat /\ Len(e) \in Nat
        /\ \A i \in 1 .. Len(s) : (s \o e)[i] = s[i]
        /\ \A i \in 1 .. Len(e) : (s \o e)[Len(s) + i] = e[i]
    BY DEF Bytes
  <1>2. At(s \o e, Len(s), e)
    BY <1>1 DEF At
  <1>3. ASSUME NEW at \in Nat, NEW b \in Bytes, At(s, at, b) PROVE At(s \o e, at, b)
    <2>1. Len(b) \in Nat
      BY DEF Bytes
    <2>2. \A i \in 1 .. Len(b) : at + i \in 1 .. Len(s)
      BY <1>1, <1>3, <2>1 DEF At
    <2>. QED BY <1>1, <1>3, <2>1, <2>2 DEF At
  <1>. QED BY <1>1, <1>2, <1>3

\* cut says where the first k elements of a list lie in s, one behind the other.
Cuts(elems, k, s, cut) ==
    /\ cut \in [0 .. k -> Nat]
    /\ cut[0] = 0 /\ cut[k] = Len(s)
    /\ \A i \in 1 .. k : cut[i] = cut[i - 1] + Len(elems[i]) /\ At(s, cut[i - 1], elems[i])

\* The recursive function by which FlattenSeq is defined.
Flattens(f, elems) ==
    f = [i \in 1 .. Len(elems) |-> IF i = 1 THEN elems[i] ELSE f[i - 1] \o elems[i]]

\* It exists.
LEMMA FlattenExists ==
  ASSUME NEW elems \in Seq(Bytes)
  PROVE  \E f : Flattens(f, elems)
  <1> DEFINE n == Len(elems)
             F(g, k) == g = [i \in 1 .. k |-> IF i = 1 THEN elems[i] ELSE g[i - 1] \o elems[i]]
             T == {k \in Nat : \E g : F(g, k)}
  <1>1. 0 \in T
    <2>1. F(<<>>, 0)
      OBVIOUS
    <2> HIDE DEF F
    <2>. QED BY <2>1
  <1>2. ASSUME NEW k \in Nat, k \in T PROVE k + 1 \in T
    <2>1. PICK g : F(g, k)
      BY <1>2
    <2> DEFINE h == [i \in 1 .. k + 1 |->
                       IF i = 1 THEN elems[i] ELSE g[i - 1] \o elems[i]]
    <2>2. ASSUME NEW i \in 1 .. k PROVE h[i] = g[i]
      <3>1. g[i] = IF i = 1 THEN elems[i] ELSE g[i - 1] \o elems[i]
        BY <2>1
      <3>2. i \in 1 .. k + 1
        OBVIOUS
      <3>. QED BY <3>1, <3>2
    <2>3. ASSUME NEW i \in 1 .. k + 1
          PROVE  h[i] = IF i = 1 THEN elems[i] ELSE h[i - 1] \o elems[i]
      <3>1. CASE i = 1
        BY <3>1
      <3>2. CASE i # 1
        <4>1. i - 1 \in 1 .. k
          BY <3>2
        <4>2. h[i - 1] = g[i - 1]
          <5> HIDE DEF h
          <5>. QED BY <2>2, <4>1
        <4>3. h[i] = g[i - 1] \o elems[i]
          BY <3>2
        <4> HIDE DEF h
        <4>. QED BY <3>2, <4>2, <4>3
      <3>. QED BY <3>1, <3>2
    <2>4. F(h, k + 1)
      <3>1. h = [i \in 1 .. k + 1 |-> h[i]]
        OBVIOUS
      <3> HIDE DEF h
      <3>. QED BY <2>3, <3>1
    <2>5. k + 1 \in Nat
      OBVIOUS
    <2> HIDE DEF F, h
    <2>. QED BY <2>4, <2>5
  <1>3. \A k \in Nat : k \in T
    <2> HIDE DEF T
    <2>. QED BY <1>1, <1>2, Induction
  <1>4. n \in Nat
    OBVIOUS
  <1>. QED BY <1>3, <1>4 DEF Flattens

\* One more element.
LEMMA CutsExtend ==
  ASSUME NEW elems \in Seq(Bytes), NEW k \in Nat, k + 1 <= Len(elems),
         NEW s \in Bytes, NEW cut, Cuts(elems, k, s, cut)
  PROVE  \E cut2 : Cuts(elems, k + 1, s \o elems[k + 1], cut2)
  <1> DEFINE e == elems[k + 1]
             u == s \o e
             cut2 == [i \in 0 .. k + 1 |-> IF i <= k THEN cut[i] ELSE Len(u)]
  <1>0. \A i \in 1 .. Len(elems) : elems[i] \in Bytes /\ Len(elems[i]) \in Nat
    BY DEF Bytes
  <1>1. e \in Bytes
    BY <1>0
  <1> HIDE DEF e
  <1>2. /\ u \in Bytes /\ Len(u) = Len(s) + Len(e) /\ Len(u) \in Nat
        /\ At(u, Len(s), e)
        /\ \A at \in Nat : \A b \in Bytes : At(s, at, b) => At(u, at, b)
    <2>1. Len(s \o e) \in Nat
      BY <1>1 DEF Bytes
    <2>. QED BY <1>1, <2>1, AtBefore
  <1> HIDE DEF u
  <1>3. /\ cut \in [0 .. k -> Nat] /\ cut[0] = 0 /\ cut[k] = Len(s)
    BY DEF Cuts
  <1>4. /\ cut2 \in [0 .. k + 1 -> Nat] /\ cut2[k + 1] = Len(u)
        /\ \A i \in 0 .. k : cut2[i] = cut[i]
    BY <1>2, <1>3
  <1> HIDE DEF cut2
  <1>5. ASSUME NEW i \in 1 .. k + 1
        PROVE  cut2[i] = cut2[i - 1] + Len(elems[i]) /\ At(u, cut2[i - 1], elems[i])
    <2>1. CASE i <= k
      <3>1. i \in 1 .. k /\ i - 1 \in 0 .. k /\ i \in 0 .. k /\ elems[i] \in Bytes
        BY <1>0, <2>1
      <3>2. cut[i - 1] \in Nat
        BY <1>3, <3>1
      <3>3. cut[i] = cut[i - 1] + Len(elems[i]) /\ At(s, cut[i - 1], elems[i])
        BY <3>1 DEF Cuts
      <3>. QED BY <1>2, <1>4, <3>1, <3>2, <3>3
    <2>2. CASE i = k + 1
      <3>1. i - 1 = k /\ k \in 0 .. k
        BY <2>2
      <3>2. cut2[i - 1] = Len(s)
        BY <1>3, <1>4, <3>1
      <3>. QED BY <1>2, <1>4, <2>2, <3>2 DEF e
    <2>. QED BY <2>1, <2>2
  <1>6. cut2[0] = 0
    BY <1>3, <1>4
  <1>7. Cuts(elems, k + 1, u, cut2)
    BY <1>4, <1>5, <1>6 DEF Cuts
  <1>. QED BY <1>7 DEF u, e

\* A flattened list has its elements one behind the other.
LEMMA FlattenCuts ==
  ASSUME NEW elems \in Seq(Bytes)
  PROVE  /\ FlattenSeq(elems) \in Bytes
         /\ \E cut : Cuts(elems, Len(elems), FlattenSeq(elems), cut)
  <1> DEFINE n == Len(elems)
  <1>0. n \in Nat /\ \A i \in 1 .. n : elems[i] \in Bytes /\ Len(elems[i]) \in Nat
    BY DEF Bytes
  <1>1. CASE n = 0
    <2>1. FlattenSeq(elems) = <<>> /\ elems = <<>>
      BY <1>1 DEF FlattenSeq
    <2>2. Cuts(elems, 0, <<>>, [i \in 0 .. 0 |-> 0])
      BY <2>1 DEF Cuts
    <2>. QED BY <1>1, <2>1, <2>2 DEF Bytes
  <1>2. CASE n # 0
    <2>1. PICK f : Flattens(f, elems) /\ FlattenSeq(elems) = f[n]
      <3> DEFINE g == CHOOSE f : Flattens(f, elems)
      <3>1. Flattens(g, elems)
        BY FlattenExists
      <3>2. FlattenSeq(elems) = g[n]
        BY <1>2 DEF FlattenSeq, Flattens
      <3> HIDE DEF g
      <3>. QED BY <3>1, <3>2
    <2> DEFINE Good(m) == f[m] \in Bytes /\ \E cut : Cuts(elems, m, f[m], cut)
               T == {k \in Nat : k + 1 <= n => Good(k + 1)}
    <2>2. Good(1)
      <3>1. f[1] = elems[1] /\ elems[1] \in Bytes
        BY <1>0, <1>2, <2>1 DEF Flattens
      <3>2. Cuts(elems, 0, <<>>, [i \in 0 .. 0 |-> 0])
        BY DEF Cuts
      <3>3. \E cut : Cuts(elems, 1, <<>> \o elems[1], cut)
        <4>1. <<>> \in Bytes /\ 0 \in Nat /\ 0 + 1 <= Len(elems) /\ 0 + 1 = 1
          BY <1>0, <1>2 DEF Bytes
        <4>. QED BY <3>2, <4>1, CutsExtend
      <3>4. <<>> \o elems[1] = f[1]
        BY <3>1 DEF Bytes
      <3>. QED BY <3>1, <3>3, <3>4
    <2>3. ASSUME NEW k \in Nat, k + 2 <= n, Good(k + 1) PROVE Good(k + 2)
      <3>1. f[k + 2] = f[k + 1] \o elems[k + 2] /\ elems[k + 2] \in Bytes
        <4>1. k + 2 \in 1 .. n /\ k + 2 # 1 /\ (k + 2) - 1 = k + 1
          BY <1>0, <2>3
        <4>. QED BY <1>0, <2>1, <4>1 DEF Flattens
      <3>2. PICK cut : Cuts(elems, k + 1, f[k + 1], cut)
        BY <2>3
      <3>3. \E cut2 : Cuts(elems, k + 2, f[k + 1] \o elems[k + 2], cut2)
        <4>1. k + 1 \in Nat /\ (k + 1) + 1 = k + 2 /\ (k + 1) + 1 <= Len(elems)
          BY <2>3
        <4>. QED BY <2>3, <3>2, <4>1, CutsExtend
      <3>4. f[k + 1] \o elems[k + 2] \in Bytes
        BY <2>3, <3>1, AtBefore
      <3>. QED BY <3>1, <3>3, <3>4
    <2> HIDE DEF Good
    <2>4. 0 \in T
      BY <2>2
    <2>5. ASSUME NEW k \in Nat, k \in T PROVE k + 1 \in T
      <3>1. (k + 1) + 1 = k + 2 /\ k + 1 \in Nat
        OBVIOUS
      <3>2. k + 2 <= n => k + 1 <= n
        BY <1>0
      <3>. QED BY <2>3, <2>5, <3>1, <3>2
    <2>6. \A k \in Nat : k \in T
      <3> HIDE DEF T
      <3>. QED BY <2>4, <2>5, Induction
    <2>7. n - 1 \in Nat /\ (n - 1) + 1 = n
      BY <1>0, <1>2
    <2>8. Good(n)
      BY <1>0, <2>6, <2>7
    <2>. QED BY <2>1, <2>8 DEF Good
  <1>. QED BY <1>1, <1>2

\* What is in a part of a stream is in the stream.
LEMMA AtWithin ==
  ASSUME NEW s \in Bytes, NEW b \in Bytes, NEW e \in Bytes, NEW at \in Nat, NEW o \in Nat,
         At(s, at, b), At(b, o, e)
  PROVE  At(s, at + o, e)
  <1>1. /\ Len(s) \in Nat /\ Len(b) \in Nat /\ Len(e) \in Nat
        /\ at + Len(b) <= Len(s) /\ o + Len(e) <= Len(b)
    BY DEF At, Bytes
  <1>2. ASSUME NEW i \in 1 .. Len(e) PROVE s[(at + o) + i] = e[i]
    <2>1. o + i \in 1 .. Len(b) /\ at + (o + i) = (at + o) + i
      BY <1>1
    <2>2. s[at + (o + i)] = b[o + i] /\ b[o + i] = e[i]
      BY <2>1 DEF At
    <2>. QED BY <2>1, <2>2
  <1>. QED BY <1>1, <1>2 DEF At

\* f follows a list of n elements from the one to the next.
Follows(f, n, at, after) ==
    /\ f \in [0 .. n -> Nat]
    /\ f[0] = at + 4
    /\ \A i \in 1 .. n : after[f[i - 1]] = f[i]

\* The offsets at which the elements of a list are taken.
LEMMA Offsets ==
  ASSUME NEW s, NEW at \in Nat, StreamTakeUint32(s, at) \in Nat,
         NEW after, NEW f, Follows(f, StreamTakeUint32(s, at), at, after)
  PROVE  ListOffsets(s, at, after) = f
  <1>0. PICK n \in Nat : n = StreamTakeUint32(s, at)
    OBVIOUS
  <1>1. /\ f \in [0 .. n -> Nat] /\ f[0] = at + 4
        /\ \A i \in 1 .. n : after[f[i - 1]] = f[i]
    BY <1>0 DEF Follows
  <1> DEFINE R(g) == g = [i \in 0 .. n |-> IF i = 0 THEN at + 4 ELSE after[g[i - 1]]]
             h == CHOOSE g : R(g)
  <1>2. R(f)
    <2>1. ASSUME NEW i \in 0 .. n PROVE f[i] = IF i = 0 THEN at + 4 ELSE after[f[i - 1]]
      <3>1. i # 0 => i \in 1 .. n
        OBVIOUS
      <3>. QED BY <1>1, <3>1
    <2>2. f = [i \in 0 .. n |-> f[i]]
      BY <1>1
    <2>. QED BY <2>1, <2>2
  <1>3. ListOffsets(s, at, after) = h
    BY <1>0 DEF ListOffsets
  <1>4. R(h)
    <2> HIDE DEF R
    <2>1. \E g : R(g)
      BY <1>2
    <2>. QED BY <2>1
  <1> HIDE DEF h
  <1>5. \A i \in 0 .. n : h[i] = IF i = 0 THEN at + 4 ELSE after[h[i - 1]]
    BY <1>4
  <1>6. h = [i \in 0 .. n |-> h[i]]
    <2>1. h = [i \in 0 .. n |-> IF i = 0 THEN at + 4 ELSE after[h[i - 1]]]
      BY <1>4
    <2>. QED BY <1>5, <2>1
  <1> HIDE DEF R
  <1> DEFINE T == {k \in Nat : k <= n => h[k] = f[k]}
  <1>7. 0 \in T
    BY <1>5, <1>1
  <1>8. ASSUME NEW k \in Nat, k \in T PROVE k + 1 \in T
    <2>1. SUFFICES ASSUME k + 1 <= n PROVE h[k + 1] = f[k + 1]
      OBVIOUS
    <2>2. k + 1 \in 1 .. n /\ k + 1 \in 0 .. n /\ (k + 1) - 1 = k /\ k <= n
      BY <2>1
    <2>3. h[k] = f[k]
      BY <1>8, <2>2
    <2>4. h[k + 1] = after[h[k]]
      <3>1. k + 1 # 0
        OBVIOUS
      <3>. QED BY <1>5, <2>2, <3>1
    <2>5. after[f[(k + 1) - 1]] = f[k + 1]
      BY <1>1, <2>2
    <2>. QED BY <2>2, <2>3, <2>4, <2>5
  <1>9. \A k \in Nat : k \in T
    <2> HIDE DEF T
    <2>. QED BY <1>7, <1>8, Induction
  <1>10. ASSUME NEW i \in 0 .. n PROVE h[i] = f[i]
    <2>1. i \in Nat /\ i <= n
      OBVIOUS
    <2>. QED BY <1>9, <2>1
  <1>. QED BY <1>3, <1>6, <1>10, <1>1

\* elem and after find an item wherever s has its bytes, and move past them.
Takes(s, elems, items, elem, after) ==
    /\ Len(items) = Len(elems)
    /\ \A i \in 1 .. Len(elems) : \A o \in Nat :
         At(s, o, elems[i]) => elem[o] = items[i] /\ after[o] = o + Len(elems[i])

\* stream_take_LIST finds the elements that stream_add_LIST added, if taking one finds
\* what was added and moves past it.
LEMMA TakeList ==
  ASSUME NEW s \in Bytes, NEW at \in Nat, NEW elems \in Seq(Bytes), NEW Item,
         NEW items \in Seq(Item), At(s, at, StreamAddList(elems)),
         NEW elem, NEW after, Takes(s, elems, items, elem, after)
  PROVE  /\ StreamTakeList(s, at, elem, after) = items
         /\ AfterList(s, at, after) = at + Len(StreamAddList(elems))
         /\ StreamAddList(elems) \in Bytes
  <1> DEFINE n == Len(elems)
             b == FlattenSeq(elems)
  <1>0. n \in Nat /\ \A i \in 1 .. n : elems[i] \in Bytes /\ Len(elems[i]) \in Nat
    BY DEF Bytes
  <1>1. b \in Bytes /\ \E cut : Cuts(elems, n, b, cut)
    BY FlattenCuts
  <1>2. PICK cut : Cuts(elems, n, b, cut)
    BY <1>1
  <1>3. StreamAddList(elems) = Uint32(n) \o b
    BY DEF StreamAddList
  <1> HIDE DEF n, b
  <1>4. Uint32(n) \in Bytes /\ Len(Uint32(n)) = 4
    BY <1>0, Uint32Value
  <1>5. /\ StreamAddList(elems) \in Bytes /\ Len(StreamAddList(elems)) = 4 + Len(b)
        /\ At(s, at, Uint32(n)) /\ At(s, at + 4, b)
    <2>1. At(s, at, Uint32(n) \o b)
      BY <1>3
    <2>2. b \in Bytes /\ Uint32(n) \in Bytes
      BY <1>1, <1>4
    <2>3. /\ Uint32(n) \o b \in Bytes /\ Len(Uint32(n) \o b) = Len(Uint32(n)) + Len(b)
          /\ At(s, at, Uint32(n)) /\ At(s, at + Len(Uint32(n)), b)
      BY <2>1, <2>2, AtConcat
    <2>. QED BY <1>3, <1>4, <2>3
  <1>6. StreamTakeUint32(s, at) = n
    BY <1>0, <1>5, TakeUint32
  <1>7. /\ cut \in [0 .. n -> Nat] /\ cut[0] = 0 /\ cut[n] = Len(b)
        /\ \A i \in 1 .. n : cut[i] = cut[i - 1] + Len(elems[i]) /\ At(b, cut[i - 1], elems[i])
    BY <1>2 DEF Cuts
  <1>8. ASSUME NEW i \in 1 .. n
        PROVE  /\ elem[at + 4 + cut[i - 1]] = items[i]
               /\ after[at + 4 + cut[i - 1]] = at + 4 + cut[i]
    <2>1. i - 1 \in 0 .. n /\ i \in 0 .. n
      BY <1>0
    <2>2. PICK o \in Nat : o = cut[i - 1]
      BY <1>7, <2>1
    <2>3. At(s, (at + 4) + o, elems[i])
      <3>1. at + 4 \in Nat /\ elems[i] \in Bytes /\ At(b, o, elems[i])
        BY <1>0, <1>7, <2>2
      <3>. QED BY <1>1, <1>5, <3>1, AtWithin
    <2>4. elem[(at + 4) + o] = items[i] /\ after[(at + 4) + o] = ((at + 4) + o) + Len(elems[i])
      <3>1. (at + 4) + o \in Nat
        OBVIOUS
      <3>. QED BY <2>3, <3>1 DEF n, Takes
    <2>5. cut[i] = o + Len(elems[i]) /\ Len(elems[i]) \in Nat
      BY <1>0, <1>7, <2>2
    <2>. QED BY <2>2, <2>4, <2>5
  <1>9. ListOffsets(s, at, after) = [i \in 0 .. n |-> at + 4 + cut[i]]
    <2>1. PICK f \in [0 .. n -> Nat] : \A i \in 0 .. n : f[i] = at + 4 + cut[i]
      <3>1. [i \in 0 .. n |-> at + 4 + cut[i]] \in [0 .. n -> Nat]
        BY <1>7
      <3>. QED BY <3>1
    <2>2. \A i \in 1 .. n : after[f[i - 1]] = f[i]
      <3>1. \A i \in 1 .. n : i - 1 \in 0 .. n /\ i \in 0 .. n
        BY <1>0
      <3>. QED BY <1>8, <2>1, <3>1
    <2>3. f[0] = at + 4
      BY <1>0, <1>7, <2>1
    <2>4. ListOffsets(s, at, after) = f
      <3>1. Follows(f, StreamTakeUint32(s, at), at, after)
        BY <1>6, <2>2, <2>3 DEF Follows
      <3>2. StreamTakeUint32(s, at) \in Nat
        BY <1>0, <1>6
      <3>. QED BY <3>1, <3>2, Offsets
    <2>5. f = [i \in 0 .. n |-> at + 4 + cut[i]]
      BY <2>1
    <2>. QED BY <2>4, <2>5
  <1>10. StreamTakeList(s, at, elem, after) = items
    <2>1. StreamTakeList(s, at, elem, after)
            = [i \in 1 .. n |-> elem[ListOffsets(s, at, after)[i - 1]]]
      BY <1>6 DEF StreamTakeList
    <2>2. ASSUME NEW i \in 1 .. n PROVE elem[ListOffsets(s, at, after)[i - 1]] = items[i]
      <3>1. i - 1 \in 0 .. n
        BY <1>0
      <3>. QED BY <1>8, <1>9, <3>1
    <2>3. items = [i \in 1 .. n |-> items[i]]
      <3>1. Len(items) = n
        BY DEF n, Takes
      <3>. QED BY <3>1
    <2>. QED BY <2>1, <2>2, <2>3
  <1>11. AfterList(s, at, after) = at + (4 + Len(b))
    <2>1. n \in 0 .. n /\ Len(b) \in Nat
      BY <1>0, <1>1 DEF Bytes
    <2>2. AfterList(s, at, after) = at + 4 + cut[n]
      BY <1>6, <1>9, <2>1 DEF AfterList
    <2>. QED BY <1>7, <2>1, <2>2
  <1>. QED BY <1>5, <1>10, <1>11

\* A list of streams is a stream.
LEMMA AddList ==
  ASSUME NEW elems \in Seq(Bytes)
  PROVE  StreamAddList(elems) \in Bytes
  <1>1. FlattenSeq(elems) \in Bytes
    BY FlattenCuts
  <1>2. Uint32(Len(elems)) \in Bytes
    <2>1. Len(elems) \in Nat
      OBVIOUS
    <2>. QED BY <2>1, Uint32Value
  <1>3. Uint32(Len(elems)) \o FlattenSeq(elems) \in Bytes
    BY <1>1, <1>2, AtConcat
  <1>. QED BY <1>3 DEF StreamAddList

-----------------------------------------------------------------------------
(* Instructions, processes and pcbs. *)

\* Numbers, each as four bytes.
Words(ns) == [i \in DOMAIN ns |-> StreamAddUint32(ns[i])]

\* A list of streams.
LEMMA WordsBytes ==
  ASSUME NEW ns \in Seq(Nat)
  PROVE  /\ Words(ns) \in Seq(Bytes) /\ Len(Words(ns)) = Len(ns)
         /\ \A i \in 1 .. Len(ns) : Words(ns)[i] = Uint32(ns[i])
  <1>1. \A i \in 1 .. Len(ns) : ns[i] \in Nat /\ StreamAddUint32(ns[i]) \in Bytes
    <2>1. ASSUME NEW i \in 1 .. Len(ns) PROVE ns[i] \in Nat /\ StreamAddUint32(ns[i]) \in Bytes
      <3>1. ns[i] \in Nat
        OBVIOUS
      <3>. QED BY <3>1, Uint32Value DEF StreamAddUint32
    <2>. QED BY <2>1
  <1>2. DOMAIN ns = 1 .. Len(ns) /\ Len(ns) \in Nat
    OBVIOUS
  <1>3. \A i \in 1 .. Len(ns) : Words(ns)[i] = StreamAddUint32(ns[i])
    BY <1>2 DEF Words
  <1>4. Words(ns) = [i \in 1 .. Len(ns) |-> Words(ns)[i]]
    BY <1>2 DEF Words
  <1>5. Words(ns) \in [1 .. Len(ns) -> Bytes]
    BY <1>1, <1>3, <1>4
  <1>. QED BY <1>2, <1>3, <1>5 DEF StreamAddUint32

\* The strings of an instruction have no zero, and its parameters are numbers.
LEMMA InstructionFields ==
  ASSUME NEW instruction \in Instructions
  PROVE  /\ instruction.id \in Seq(Nat \ {0}) /\ instruction.params \in Seq(Nat)
         /\ instruction = [id |-> instruction.id, params |-> instruction.params]
  <1>1. /\ instruction.id \in Seq(1 .. 255) /\ instruction.params \in Seq(Uint32s)
        /\ instruction = [id |-> instruction.id, params |-> instruction.params]
    BY DEF Instructions
  <1>2. 1 .. 255 \subseteq Nat \ {0} /\ Uint32s \subseteq Nat
    BY SMT DEF Uint32s
  <1>3. instruction.id \in Seq(Nat \ {0})
    <2>1. ASSUME NEW i \in 1 .. Len(instruction.id) PROVE instruction.id[i] \in Nat \ {0}
      <3> DEFINE Character == 1 .. 255
      <3>1. instruction.id \in Seq(Character)
        BY <1>1
      <3>2. Character \subseteq Nat \ {0}
        OBVIOUS
      <3> HIDE DEF Character
      <3>3. instruction.id[i] \in Character
        BY <3>1
      <3>. QED BY <3>2, <3>3
    <2>2. instruction.id \in [1 .. Len(instruction.id) -> Nat \ {0}]
      BY <1>1, <2>1
    <2>. QED BY <1>1, <2>2
  <1>4. instruction.params \in Seq(Nat)
    <2>1. \A i \in 1 .. Len(instruction.params) : instruction.params[i] \in Nat
      BY <1>1, <1>2
    <2>2. instruction.params \in [1 .. Len(instruction.params) -> Nat]
      BY <1>1, <2>1
    <2>. QED BY <1>1, <2>2
  <1>. QED BY <1>1, <1>3, <1>4

\* An instruction is a stream.
LEMMA AddInstruction ==
  ASSUME NEW instruction \in Instructions
  PROVE  /\ StreamAddString(instruction.id) \in Bytes
         /\ StreamAddInstruction(instruction) \in Bytes
  <1>1. instruction.id \in Seq(Nat \ {0}) /\ instruction.params \in Seq(Nat)
    BY InstructionFields
  <1>2. StreamAddString(instruction.id) \in Bytes
    <2>1. Append(instruction.id, 0) \in Bytes /\ Len(instruction.id) + 1 \in Nat
      BY <1>1 DEF Bytes
    <2>2. Uint32(Len(instruction.id) + 1) \in Bytes
      BY <2>1, Uint32Value
    <2>3. Uint32(Len(instruction.id) + 1) \o Append(instruction.id, 0) \in Bytes
      BY <2>1, <2>2, AtConcat
    <2>. QED BY <2>3 DEF StreamAddString
  <1> DEFINE elems == Words(instruction.params)
  <1>3. elems \in Seq(Bytes)
    BY <1>1, WordsBytes
  <1>4. StreamAddInstruction(instruction)
          = StreamAddString(instruction.id) \o StreamAddList(elems)
    BY DEF StreamAddInstruction, Words
  <1> HIDE DEF elems
  <1>5. StreamAddList(elems) \in Bytes
    BY <1>3, AddList
  <1>6. StreamAddString(instruction.id) \o StreamAddList(elems) \in Bytes
    BY <1>2, <1>5, AtConcat
  <1>. QED BY <1>2, <1>4, <1>6

\* stream_take_INSTRUCTION finds the instruction that stream_add_INSTRUCTION added.
LEMMA TakeInstruction ==
  ASSUME NEW s \in Bytes, NEW at \in Nat, NEW instruction \in Instructions,
         At(s, at, StreamAddInstruction(instruction))
  PROVE  /\ StreamTakeInstruction(s, at) = instruction
         /\ AfterInstruction(s, at) = at + Len(StreamAddInstruction(instruction))
  <1> DEFINE id == instruction.id
             params == instruction.params
             elems == Words(params)
             elem == [o \in Nat |-> StreamTakeUint32(s, o)]
             after == [o \in Nat |-> AfterUint32(s, o)]
  <1>1. id \in Seq(Nat \ {0}) /\ params \in Seq(Nat)
    BY InstructionFields
  <1>2. instruction = [id |-> id, params |-> params]
    BY InstructionFields
  <1>3. /\ elems \in Seq(Bytes) /\ Len(elems) = Len(params)
        /\ \A i \in 1 .. Len(params) : elems[i] = Uint32(params[i])
    BY <1>1, WordsBytes
  <1>4. StreamAddInstruction(instruction) = StreamAddString(id) \o StreamAddList(elems)
    BY DEF StreamAddInstruction, Words
  <1>5. \A o \in Nat : elem[o] = StreamTakeUint32(s, o) /\ after[o] = o + 4
    BY DEF AfterUint32
  <1>6. /\ StreamTakeInstruction(s, at)
             = [id |-> StreamTakeString(s, at),
                params |-> StreamTakeList(s, AfterString(s, at), elem, after)]
        /\ AfterInstruction(s, at) = AfterList(s, AfterString(s, at), after)
    BY DEF StreamTakeInstruction, AfterInstruction
  <1>7. StreamAddString(id) \in Bytes
    BY AddInstruction
  <1> HIDE DEF id, params, elems, elem, after
  <1>8. StreamAddList(elems) \in Bytes
    BY <1>3, AddList
  <1>9. At(s, at, StreamAddString(id) \o StreamAddList(elems))
    BY <1>4
  <1>10. /\ At(s, at, StreamAddString(id))
         /\ At(s, at + Len(StreamAddString(id)), StreamAddList(elems))
         /\ Len(StreamAddString(id) \o StreamAddList(elems))
              = Len(StreamAddString(id)) + Len(StreamAddList(elems))
    BY <1>7, <1>8, <1>9, AtConcat
  <1>11. /\ StreamTakeString(s, at) = id
         /\ AfterString(s, at) = at + Len(StreamAddString(id))
    BY <1>1, <1>10, TakeString
  <1>12. PICK a \in Nat : a = at + Len(StreamAddString(id))
    BY <1>7 DEF Bytes
  <1>13. ASSUME NEW i \in 1 .. Len(elems), NEW o \in Nat, At(s, o, elems[i])
         PROVE  elem[o] = params[i] /\ after[o] = o + Len(elems[i])
    <2>1. params[i] \in Nat /\ elems[i] = Uint32(params[i])
      BY <1>1, <1>3
    <2>2. StreamTakeUint32(s, o) = params[i]
      BY <1>13, <2>1, TakeUint32
    <2>. QED BY <1>5, <2>1, <2>2, Uint32Value
  <1>14. /\ StreamTakeList(s, a, elem, after) = params
         /\ AfterList(s, a, after) = a + Len(StreamAddList(elems))
    <2>1. At(s, a, StreamAddList(elems))
      BY <1>10, <1>12
    <2>2. Takes(s, elems, params, elem, after)
      BY <1>3, <1>13 DEF Takes
    <2>. QED BY <1>1, <1>3, <2>1, <2>2, TakeList
  <1>15. Len(StreamAddString(id)) \in Nat /\ Len(StreamAddList(elems)) \in Nat
    BY <1>7, <1>8 DEF Bytes
  <1>16. StreamTakeInstruction(s, at) = instruction
    BY <1>2, <1>6, <1>11, <1>12, <1>14
  <1>. QED BY <1>4, <1>6, <1>10, <1>11, <1>12, <1>14, <1>15, <1>16

\* The elements of a list of instructions.
AddedInstructions(list) == [i \in DOMAIN list |-> StreamAddInstruction(list[i])]

\* They are streams.
LEMMA AddInstructions ==
  ASSUME NEW list \in Seq(Instructions)
  PROVE  /\ AddedInstructions(list) \in Seq(Bytes) /\ Len(AddedInstructions(list)) = Len(list)
         /\ \A i \in 1 .. Len(list) : AddedInstructions(list)[i] = StreamAddInstruction(list[i])
         /\ StreamAddInstructions(list) = StreamAddList(AddedInstructions(list))
         /\ StreamAddInstructions(list) \in Bytes
  <1>1. DOMAIN list = 1 .. Len(list) /\ Len(list) \in Nat
    OBVIOUS
  <1>2. ASSUME NEW i \in 1 .. Len(list)
        PROVE  list[i] \in Instructions /\ StreamAddInstruction(list[i]) \in Bytes
    <2>1. list[i] \in Instructions
      OBVIOUS
    <2>. QED BY <2>1, AddInstruction
  <1>3. /\ \A i \in 1 .. Len(list) : AddedInstructions(list)[i] = StreamAddInstruction(list[i])
        /\ AddedInstructions(list) = [i \in 1 .. Len(list) |-> AddedInstructions(list)[i]]
    BY <1>1 DEF AddedInstructions
  <1>4. AddedInstructions(list) \in [1 .. Len(list) -> Bytes]
    BY <1>2, <1>3
  <1>5. AddedInstructions(list) \in Seq(Bytes) /\ Len(AddedInstructions(list)) = Len(list)
    BY <1>1, <1>4
  <1>6. StreamAddInstructions(list) = StreamAddList(AddedInstructions(list))
    BY DEF StreamAddInstructions, AddedInstructions
  <1>7. StreamAddList(AddedInstructions(list)) \in Bytes
    BY <1>5, AddList
  <1>. QED BY <1>3, <1>5, <1>6, <1>7

\* The instructions of a process or pcb are taken as they were added.
LEMMA TakeInstructions ==
  ASSUME NEW s \in Bytes, NEW at \in Nat, NEW list \in Seq(Instructions),
         At(s, at, StreamAddInstructions(list))
  PROVE  /\ StreamTakeInstructions(s, at) = list
         /\ AfterInstructions(s, at) = at + Len(StreamAddInstructions(list))
  <1> DEFINE elems == AddedInstructions(list)
             elem == [o \in Nat |-> StreamTakeInstruction(s, o)]
             after == [o \in Nat |-> AfterInstruction(s, o)]
  <1>1. /\ elems \in Seq(Bytes) /\ Len(elems) = Len(list)
        /\ \A i \in 1 .. Len(list) : elems[i] = StreamAddInstruction(list[i])
        /\ StreamAddInstructions(list) = StreamAddList(elems)
    BY AddInstructions
  <1>2. \A o \in Nat : /\ elem[o] = StreamTakeInstruction(s, o)
                       /\ after[o] = AfterInstruction(s, o)
    OBVIOUS
  <1>3. /\ StreamTakeInstructions(s, at) = StreamTakeList(s, at, elem, after)
        /\ AfterInstructions(s, at) = AfterList(s, at, after)
    BY DEF StreamTakeInstructions, AfterInstructions
  <1> HIDE DEF elems, elem, after
  <1>4. ASSUME NEW i \in 1 .. Len(elems), NEW o \in Nat, At(s, o, elems[i])
        PROVE  elem[o] = list[i] /\ after[o] = o + Len(elems[i])
    <2>1. list[i] \in Instructions /\ elems[i] = StreamAddInstruction(list[i])
      BY <1>1
    <2>2. At(s, o, StreamAddInstruction(list[i]))
      BY <1>4, <2>1
    <2>3. /\ StreamTakeInstruction(s, o) = list[i]
          /\ AfterInstruction(s, o) = o + Len(StreamAddInstruction(list[i]))
      BY <2>1, <2>2, TakeInstruction
    <2>. QED BY <1>2, <2>1, <2>3
  <1>5. /\ StreamTakeList(s, at, elem, after) = list
        /\ AfterList(s, at, after) = at + Len(StreamAddList(elems))
    <2>1. At(s, at, StreamAddList(elems))
      BY <1>1
    <2>2. Takes(s, elems, list, elem, after)
      BY <1>1, <1>4 DEF Takes
    <2>. QED BY <1>1, <2>1, <2>2, TakeList
  <1>. QED BY <1>1, <1>3, <1>5

\* A stream is at the beginning of itself.
LEMMA AtStart ==
  ASSUME NEW s \in Bytes
  PROVE  At(s, 0, s) /\ Len(s) \in Nat
  BY DEF At, Bytes

\* A process arrives as it was sent, and taking it apart ends where the stream ends.
LEMMA ProcessArrives ==
  ASSUME NEW process \in Processes, NEW s, s = StreamAddProcess(process)
  PROVE  s \in Bytes /\ StreamTakeProcess(s, 0) = process /\ AfterProcess(s, 0) = Len(s)
  <1> DEFINE u == Uint32(process.size)
             b == StreamAddInstructions(process.instructions)
  <1>1. /\ process.size \in Nat /\ process.instructions \in Seq(Instructions)
        /\ process = [size |-> process.size, instructions |-> process.instructions]
    BY SMT DEF Processes, Uint32s
  <1>2. s = u \o b
    BY DEF StreamAddProcess
  <1>3. u \in Bytes /\ Len(u) = 4 /\ b \in Bytes
    BY <1>1, Uint32Value, AddInstructions
  <1> HIDE DEF u, b
  <1>4. s \in Bytes /\ Len(s) = Len(u) + Len(b)
    BY <1>2, <1>3, AtConcat
  <1>5. At(s, 0, u \o b)
    BY <1>2, <1>4, AtStart
  <1>6. At(s, 0, u) /\ At(s, 0 + Len(u), b)
    BY <1>3, <1>4, <1>5, AtConcat
  <1>7. StreamTakeUint32(s, 0) = process.size
    BY <1>1, <1>4, <1>6, TakeUint32 DEF u
  <1>8. At(s, 4, b)
    BY <1>3, <1>6
  <1>9. /\ StreamTakeInstructions(s, 4) = process.instructions
        /\ AfterInstructions(s, 4) = 4 + Len(b)
    BY <1>1, <1>4, <1>8, TakeInstructions DEF b
  <1>10. 0 + 4 = 4
    OBVIOUS
  <1>. QED BY <1>1, <1>3, <1>4, <1>7, <1>9, <1>10 DEF StreamTakeProcess, AfterProcess

\* A number after b.
PlusNumber(b, n) == b \o Uint32(n)

\* It makes b four bytes longer.
LEMMA OneNumber ==
  ASSUME NEW b \in Bytes, NEW n \in Nat
  PROVE  PlusNumber(b, n) \in Bytes /\ Len(PlusNumber(b, n)) = Len(b) + 4 /\ Len(b) \in Nat
  <1>1. Uint32(n) \in Bytes /\ Len(Uint32(n)) = 4
    BY Uint32Value
  <1>2. /\ b \o Uint32(n) \in Bytes /\ Len(b \o Uint32(n)) = Len(b) + Len(Uint32(n))
        /\ Len(b) \in Nat
    BY <1>1, Concat
  <1>. QED BY <1>1, <1>2 DEF PlusNumber

\* It is taken where b ends.
LEMMA TakeNumber ==
  ASSUME NEW b \in Bytes, NEW n \in Nat, NEW s \in Bytes, At(s, 0, PlusNumber(b, n))
  PROVE  At(s, 0, b) /\ StreamTakeUint32(s, Len(b)) = n
  <1>1. Uint32(n) \in Bytes /\ Len(b) \in Nat /\ 0 + Len(b) = Len(b)
    BY Uint32Value DEF Bytes
  <1>2. At(s, 0, b \o Uint32(n))
    BY DEF PlusNumber
  <1>3. At(s, 0, b) /\ At(s, 0 + Len(b), Uint32(n))
    BY <1>1, <1>2, AtConcat
  <1>. QED BY <1>1, <1>3, TakeUint32

\* A pcb arrives as it was sent, and taking it apart ends where the stream ends.
LEMMA PcbArrives ==
  ASSUME NEW pcb \in Pcbs, NEW s, s = StreamAddPcb(pcb)
  PROVE  s \in Bytes /\ StreamTakePcb(s, 0) = pcb /\ AfterPcb(s, 0) = Len(s)
  <1> DEFINE list == StreamAddInstructions(pcb.instructions)
             b1 == Uint32(pcb.pid)
             b2 == PlusNumber(b1, pcb.size)
             b3 == PlusNumber(b2, pcb.client_socket)
             b4 == b3 \o list
             b5 == PlusNumber(b4, pcb.program_counter)
             b6 == PlusNumber(b5, pcb.page_table)
             b7 == PlusNumber(b6, pcb.process_frames_index)
             b8 == PlusNumber(b7, pcb.burst_estimation)
             b9 == PlusNumber(b8, pcb.left_burst_estimation)
             b10 == PlusNumber(b9, pcb.blocked_time)
             b11 == PlusNumber(b10, pcb.pending_io_time)
  <1>1. /\ pcb.instructions \in Seq(Instructions)
        /\ pcb.pid \in Nat /\ pcb.size \in Nat /\ pcb.client_socket \in Nat
        /\ pcb.program_counter \in Nat /\ pcb.page_table \in Nat /\ pcb.process_frames_index \in Nat
        /\ pcb.burst_estimation \in Nat /\ pcb.left_burst_estimation \in Nat /\ pcb.blocked_time \in Nat
        /\ pcb.pending_io_time \in Nat
        /\ pcb = [pid |-> pcb.pid, size |-> pcb.size, client_socket |-> pcb.client_socket,
                  instructions |-> pcb.instructions, program_counter |-> pcb.program_counter,
                  page_table |-> pcb.page_table,
                  process_frames_index |-> pcb.process_frames_index,
                  burst_estimation |-> pcb.burst_estimation,
                  left_burst_estimation |-> pcb.left_burst_estimation,
                  blocked_time |-> pcb.blocked_time,
                  pending_io_time |-> pcb.pending_io_time]
    BY SMT DEF Pcbs, Uint32s
  <1>2. s = b11
    BY DEF StreamAddPcb, PlusNumber
  <1>3. list \in Bytes /\ Len(list) \in Nat
    BY <1>1, AddInstructions DEF Bytes
  <1>4. b1 \in Bytes /\ Len(b1) = 4
    BY <1>1, Uint32Value
  <1> HIDE DEF list, b1
  <1>5. b2 \in Bytes /\ Len(b2) = 8
    <2>1. b1 \in Bytes /\ pcb.size \in Nat
      BY <1>1, <1>4
    <2>2. /\ PlusNumber(b1, pcb.size) \in Bytes
          /\ Len(PlusNumber(b1, pcb.size)) = Len(b1) + 4
      BY <2>1, OneNumber
    <2>. QED BY <1>4, <2>2
  <1> HIDE DEF b2
  <1>6. b3 \in Bytes /\ Len(b3) = 12
    <2>1. b2 \in Bytes /\ pcb.client_socket \in Nat
      BY <1>1, <1>5
    <2>2. /\ PlusNumber(b2, pcb.client_socket) \in Bytes
          /\ Len(PlusNumber(b2, pcb.client_socket)) = Len(b2) + 4
      BY <2>1, OneNumber
    <2>. QED BY <1>5, <2>2
  <1> HIDE DEF b3
  <1>7. b4 \in Bytes /\ Len(b4) = 12 + Len(list)
    <2>1. b3 \o list \in Bytes /\ Len(b3 \o list) = Len(b3) + Len(list)
      BY <1>3, <1>6, Concat
    <2>. QED BY <1>6, <2>1
  <1> HIDE DEF b4
  <1>8. b5 \in Bytes /\ Len(b5) = 16 + Len(list)
    BY <1>1, <1>3, <1>7, OneNumber
  <1> HIDE DEF b5
  <1>9. b6 \in Bytes /\ Len(b6) = 20 + Len(list)
    BY <1>1, <1>3, <1>8, OneNumber
  <1> HIDE DEF b6
  <1>10. b7 \in Bytes /\ Len(b7) = 24 + Len(list)
    BY <1>1, <1>3, <1>9, OneNumber
  <1> HIDE DEF b7
  <1>11. b8 \in Bytes /\ Len(b8) = 28 + Len(list)
    BY <1>1, <1>3, <1>10, OneNumber
  <1> HIDE DEF b8
  <1>12. b9 \in Bytes /\ Len(b9) = 32 + Len(list)
    BY <1>1, <1>3, <1>11, OneNumber
  <1> HIDE DEF b9
  <1>13. b10 \in Bytes /\ Len(b10) = 36 + Len(list)
    BY <1>1, <1>3, <1>12, OneNumber
  <1> HIDE DEF b10
  <1>14. b11 \in Bytes /\ Len(b11) = 40 + Len(list)
    BY <1>1, <1>3, <1>13, OneNumber
  <1> HIDE DEF b11
  <1>15. s \in Bytes /\ At(s, 0, b11) /\ Len(s) = 40 + Len(list)
    <2>1. s \in Bytes /\ Len(s) = 40 + Len(list)
      BY <1>2, <1>14
    <2>2. At(s, 0, s)
      BY <2>1, AtStart
    <2>. QED BY <1>2, <2>1, <2>2
  <1>16. At(s, 0, b10) /\ StreamTakeUint32(s, 36 + Len(list)) = pcb.pending_io_time
    <2>1. At(s, 0, PlusNumber(b10, pcb.pending_io_time))
      BY <1>15 DEF b11
    <2>. QED BY <1>1, <1>13, <1>15, <2>1, TakeNumber
  <1>17. At(s, 0, b9) /\ StreamTakeUint32(s, 32 + Len(list)) = pcb.blocked_time
    <2>1. At(s, 0, PlusNumber(b9, pcb.blocked_time))
      BY <1>16 DEF b10
    <2>. QED BY <1>1, <1>12, <1>15, <2>1, TakeNumber
  <1>18. At(s, 0, b8) /\ StreamTakeUint32(s, 28 + Len(list)) = pcb.left_burst_estimation
    <2>1. At(s, 0, PlusNumber(b8, pcb.left_burst_estimation))
      BY <1>17 DEF b9
    <2>. QED BY <1>1, <1>11, <1>15, <2>1, TakeNumber
  <1>19. At(s, 0, b7) /\ StreamTakeUint32(s, 24 + Len(list)) = pcb.burst_estimation
    <2>1. At(s, 0, PlusNumber(b7, pcb.burst_estimation))
      BY <1>18 DEF b8
    <2>. QED BY <1>1, <1>10, <1>15, <2>1, TakeNumber
  <1>20. At(s, 0, b6) /\ StreamTakeUint32(s, 20 + Len(list)) = pcb.process_frames_index
    <2>1. At(s, 0, PlusNumber(b6, pcb.process_frames_index))
      BY <1>19 DEF b7
    <2>. QED BY <1>1, <1>9, <1>15, <2>1, TakeNumber
  <1>21. At(s, 0, b5) /\ StreamTakeUint32(s, 16 + Len(list)) = pcb.page_table
    <2>1. At(s, 0, PlusNumber(b5, pcb.page_table))
      BY <1>20 DEF b6
    <2>. QED BY <1>1, <1>8, <1>15, <2>1, TakeNumber
  <1>22. At(s, 0, b4) /\ StreamTakeUint32(s, 12 + Len(list)) = pcb.program_counter
    <2>1. At(s, 0, PlusNumber(b4, pcb.program_counter))
      BY <1>21 DEF b5
    <2>. QED BY <1>1, <1>7, <1>15, <2>1, TakeNumber
  <1>23. At(s, 0, b3) /\ At(s, 12, list)
    <2>1. At(s, 0, b3 \o list)
      BY <1>22 DEF b4
    <2>2. At(s, 0, b3) /\ At(s, 0 + Len(b3), list)
      BY <1>3, <1>6, <1>15, <2>1, AtConcat
    <2>. QED BY <1>6, <2>2
  <1>24. At(s, 0, b2) /\ StreamTakeUint32(s, 8) = pcb.client_socket
    <2>1. At(s, 0, PlusNumber(b2, pcb.client_socket))
      BY <1>23 DEF b3
    <2>2. b2 \in Bytes /\ pcb.client_socket \in Nat /\ s \in Bytes
      BY <1>1, <1>5, <1>15
    <2>3. At(s, 0, b2) /\ StreamTakeUint32(s, Len(b2)) = pcb.client_socket
      BY <2>1, <2>2, TakeNumber
    <2>. QED BY <1>5, <2>3
  <1>25. At(s, 0, b1) /\ StreamTakeUint32(s, 4) = pcb.size
    <2>1. At(s, 0, PlusNumber(b1, pcb.size))
      BY <1>24 DEF b2
    <2>. QED BY <1>1, <1>4, <1>15, <2>1, TakeNumber
  <1>26. /\ At(s, 0, b1) /\ At(s, 12, list)
         /\ StreamTakeUint32(s, 4) = pcb.size
         /\ StreamTakeUint32(s, 8) = pcb.client_socket
         /\ StreamTakeUint32(s, 12 + Len(list)) = pcb.program_counter
         /\ StreamTakeUint32(s, 16 + Len(list)) = pcb.page_table
         /\ StreamTakeUint32(s, 20 + Len(list)) = pcb.process_frames_index
         /\ StreamTakeUint32(s, 24 + Len(list)) = pcb.burst_estimation
         /\ StreamTakeUint32(s, 28 + Len(list)) = pcb.left_burst_estimation
         /\ StreamTakeUint32(s, 32 + Len(list)) = pcb.blocked_time
         /\ StreamTakeUint32(s, 36 + Len(list)) = pcb.pending_io_time
    BY <1>16, <1>17, <1>18, <1>19, <1>20, <1>21, <1>22, <1>23, <1>24, <1>25
  <1>27. StreamTakeUint32(s, 0) = pcb.pid
    <2>1. At(s, 0, Uint32(pcb.pid)) /\ pcb.pid \in Nat
      BY <1>1, <1>26 DEF b1
    <2>. QED BY <1>15, <2>1, TakeUint32
  <1>28. PICK after \in Nat : after = 12 + Len(list)
    BY <1>3
  <1>29. /\ StreamTakeInstructions(s, 12) = pcb.instructions
         /\ AfterInstructions(s, 12) = after
    <2>1. At(s, 12, StreamAddInstructions(pcb.instructions))
      BY <1>26 DEF list
    <2>2. /\ StreamTakeInstructions(s, 12) = pcb.instructions
          /\ AfterInstructions(s, 12) = 12 + Len(StreamAddInstructions(pcb.instructions))
      BY <1>1, <1>15, <2>1, TakeInstructions
    <2>. QED BY <1>28, <2>2 DEF list
  <1>30. /\ StreamTakeUint32(s, after) = pcb.program_counter
         /\ StreamTakeUint32(s, after + 4) = pcb.page_table
         /\ StreamTakeUint32(s, after + 8) = pcb.process_frames_index
         /\ StreamTakeUint32(s, after + 12) = pcb.burst_estimation
         /\ StreamTakeUint32(s, after + 16) = pcb.left_burst_estimation
         /\ StreamTakeUint32(s, after + 20) = pcb.blocked_time
         /\ StreamTakeUint32(s, after + 24) = pcb.pending_io_time
    <2>1. /\ after + 4 = 16 + Len(list) /\ after + 8 = 20 + Len(list)
          /\ after + 12 = 24 + Len(list) /\ after + 16 = 28 + Len(list)
          /\ after + 20 = 32 + Len(list) /\ after + 24 = 36 + Len(list)
      BY <1>3, <1>28
    <2>. QED BY <1>26, <1>28, <2>1
  <1>31. /\ 0 + 12 = 12 /\ 0 + 4 = 4 /\ 0 + 8 = 8
         /\ after + 4 * 0 = after /\ after + 4 * 1 = after + 4 /\ after + 4 * 2 = after + 8
         /\ after + 4 * 3 = after + 12 /\ after + 4 * 4 = after + 16
         /\ after + 4 * 5 = after + 20 /\ after + 4 * 6 = after + 24
    OBVIOUS
  <1>32. StreamTakePcb(s, 0) = pcb
    BY <1>1, <1>26, <1>27, <1>29, <1>30, <1>31 DEF StreamTakePcb
  <1>33. AfterPcb(s, 0) = Len(s)
    BY <1>3, <1>15, <1>28, <1>29, <1>31 DEF AfterPcb
  <1>. QED BY <1>15, <1>32, <1>33

\* The offsets in a stream of numbers.
LEMMA WordOffsets ==
  ASSUME NEW ns \in Seq(Nat), NEW b \in Bytes, NEW cut, Cuts(Words(ns), Len(ns), b, cut)
  PROVE  \A i \in 0 .. Len(ns) : cut[i] = 4 * i
  <1> DEFINE n == Len(ns)
             T == {i \in Nat : i <= n => cut[i] = 4 * i}
  <1>1. /\ cut \in [0 .. n -> Nat] /\ cut[0] = 0
        /\ \A i \in 1 .. n : cut[i] = cut[i - 1] + 4
    <2>1. \A i \in 1 .. n : Len(Words(ns)[i]) = 4
      <3>1. ASSUME NEW i \in 1 .. n PROVE Len(Words(ns)[i]) = 4
        <4>1. ns[i] \in Nat /\ Words(ns)[i] = Uint32(ns[i])
          BY WordsBytes
        <4>. QED BY <4>1, Uint32Value
      <3>. QED BY <3>1
    <2>. QED BY <2>1 DEF Cuts
  <1>2. 0 \in T
    BY <1>1
  <1>3. ASSUME NEW i \in Nat, i \in T PROVE i + 1 \in T
    <2>1. i + 1 <= n => i + 1 \in 1 .. n /\ (i + 1) - 1 = i /\ i <= n
      OBVIOUS
    <2>2. i + 1 <= n => cut[i + 1] = cut[i] + 4 /\ cut[i] = 4 * i
      BY <1>1, <1>3, <2>1
    <2>. QED BY <2>2
  <1>4. \A i \in Nat : i \in T
    <2> HIDE DEF T
    <2>. QED BY <1>2, <1>3, Induction
  <1>5. ASSUME NEW i \in 0 .. n PROVE cut[i] = 4 * i
    <2>1. i \in Nat /\ i <= n
      OBVIOUS
    <2>. QED BY <1>4, <2>1
  <1>. QED BY <1>5

\* Numbers arrive as they were sent, all of them.
LEMMA NumbersArrive ==
  ASSUME NEW ns \in Seq(Nat), NEW s, s = FlattenSeq(Words(ns))
  PROVE  s \in Bytes /\ StreamTakeNumbers(s) = ns /\ 4 * (Len(s) \div 4) = Len(s)
  <1> DEFINE n == Len(ns)
  <1>1. /\ n \in Nat /\ Words(ns) \in Seq(Bytes) /\ Len(Words(ns)) = n
        /\ \A i \in 1 .. n : Words(ns)[i] = Uint32(ns[i]) /\ ns[i] \in Nat
    BY WordsBytes
  <1>2. s \in Bytes /\ \E cut : Cuts(Words(ns), n, s, cut)
    BY <1>1, FlattenCuts
  <1>3. PICK cut : Cuts(Words(ns), n, s, cut)
    BY <1>2
  <1>4. \A i \in 0 .. n : cut[i] = 4 * i
    BY <1>2, <1>3, WordOffsets
  <1>5. Len(s) = 4 * n
    <2>1. Len(s) = cut[n]
      BY <1>3 DEF Cuts
    <2>2. n \in 0 .. n
      BY <1>1
    <2>. QED BY <1>4, <2>1, <2>2
  <1>6. Len(s) \div 4 = n
    <2>1. PICK k \in Nat : k = n
      BY <1>1
    <2>2. (4 * k) \div 4 = k
      OBVIOUS
    <2>. QED BY <1>5, <2>1, <2>2
  <1>7. ASSUME NEW i \in 1 .. n PROVE StreamTakeUint32(s, 4 * (i - 1)) = ns[i]
    <2>1. At(s, cut[i - 1], Words(ns)[i])
      BY <1>3 DEF Cuts
    <2>2. cut[i - 1] = 4 * (i - 1) /\ 4 * (i - 1) \in Nat
      BY <1>1, <1>4
    <2>3. At(s, 4 * (i - 1), Uint32(ns[i])) /\ ns[i] \in Nat
      BY <1>1, <2>1, <2>2
    <2>. QED BY <1>2, <2>2, <2>3, TakeUint32
  <1>8. StreamTakeNumbers(s) = [i \in 1 .. n |-> ns[i]]
    BY <1>6, <1>7 DEF StreamTakeNumbers
  <1>9. ns = [i \in 1 .. n |-> ns[i]]
    OBVIOUS
  <1>. QED BY <1>2, <1>5, <1>6, <1>8, <1>9

-----------------------------------------------------------------------------
(* Packets. *)

\* What PacketsAssumption says of a packet.
WellFormed(p) ==
    \/ p \in Carrying("process", Processes)
    \/ p \in Carrying("pcb", Pcbs)
    \/ p \in Carrying("numbers", Seq(Uint32s))

\* The bytes of its payload.
Body(p) == Payload(p).stream

\* A stream is made large enough.
LEMMA StreamFits ==
  ASSUME NEW b \in Bytes
  PROVE  /\ StreamAdd(b).stream = b /\ StreamAdd(b).offset = Len(b)
         /\ StreamAdd(b).offset <= StreamAdd(b).malloc_size
  <1>1. PICK n \in Nat : n = Len(b)
    BY DEF Bytes
  <1>2. PICK k \in Nat : k = (n + 63) \div 64
    OBVIOUS
  <1>3. n <= 64 * k /\ (k = 0 => n <= 64)
    BY <1>2
  <1>4. n + 64 - 1 = n + 63
    OBVIOUS
  <1>5. /\ StreamAdd(b).stream = b /\ StreamAdd(b).offset = n
        /\ StreamAdd(b).malloc_size = 64 * (IF k = 0 THEN 1 ELSE k)
    BY <1>1, <1>2, <1>4 DEF StreamAdd, INITIAL_STREAM_SIZE
  <1>. QED BY <1>1, <1>3, <1>5

\* What a handler takes out of a payload is what was put in, all of it, whatever process,
\* pcb or list of numbers it is (the stream_add and stream_take functions).
THEOREM RoundTrip ==
  ASSUME NEW p, WellFormed(p)
  PROVE  /\ Body(p) \in Bytes /\ Payload(p).offset = Len(Body(p))
         /\ Payload(p).offset <= Payload(p).malloc_size
         /\ Taken(p.type, Body(p)) = p.body /\ TakenUpTo(p.type, Body(p)) = Len(Body(p))
         /\ p.header \in Nat
         /\ p = [header |-> p.header, type |-> p.type, body |-> p.body]
  <1>1. CASE p \in Carrying("process", Processes)
    <2>1. /\ p.type = "process" /\ p.header \in Nat /\ p.body \in Processes
          /\ p = [header |-> p.header, type |-> p.type, body |-> p.body]
      BY <1>1 DEF Carrying
    <2>2. PICK b : b = StreamAddProcess(p.body)
      OBVIOUS
    <2>3. b \in Bytes /\ StreamTakeProcess(b, 0) = p.body /\ AfterProcess(b, 0) = Len(b)
      BY <2>1, <2>2, ProcessArrives
    <2>4. Payload(p) = StreamAdd(b)
      BY <2>1, <2>2 DEF Payload
    <2>5. Body(p) = b
      BY <2>3, <2>4, StreamFits DEF Body
    <2>6. Taken("process", b) = p.body /\ TakenUpTo("process", b) = Len(b)
      BY <2>3 DEF Taken, TakenUpTo
    <2>. QED BY <2>1, <2>3, <2>4, <2>5, <2>6, StreamFits
  <1>2. CASE p \in Carrying("pcb", Pcbs)
    <2>1. /\ p.type = "pcb" /\ p.header \in Nat /\ p.body \in Pcbs
          /\ p = [header |-> p.header, type |-> p.type, body |-> p.body]
      BY <1>2 DEF Carrying
    <2>2. PICK b : b = StreamAddPcb(p.body)
      OBVIOUS
    <2>3. b \in Bytes /\ StreamTakePcb(b, 0) = p.body /\ AfterPcb(b, 0) = Len(b)
      BY <2>1, <2>2, PcbArrives
    <2>4. Payload(p) = StreamAdd(b)
      BY <2>1, <2>2 DEF Payload
    <2>5. Body(p) = b
      BY <2>3, <2>4, StreamFits DEF Body
    <2>6. Taken("pcb", b) = p.body /\ TakenUpTo("pcb", b) = Len(b)
      BY <2>3 DEF Taken, TakenUpTo
    <2>. QED BY <2>1, <2>3, <2>4, <2>5, <2>6, StreamFits
  <1>3. CASE p \in Carrying("numbers", Seq(Uint32s))
    <2>1. /\ p.type = "numbers" /\ p.header \in Nat /\ p.body \in Seq(Uint32s)
          /\ p = [header |-> p.header, type |-> p.type, body |-> p.body]
      <3>1. \A n \in 0 .. 255 : n \in Nat
        OBVIOUS
      <3>. QED BY <1>3, <3>1 DEF Carrying
    <2>2. PICK b : b = FlattenSeq(Words(p.body))
      OBVIOUS
    <2>3. p.body \in Seq(Nat)
      <3>1. \A n \in Uint32s : n \in Nat
        BY SMT DEF Uint32s
      <3>2. /\ Len(p.body) \in Nat /\ p.body = [i \in 1 .. Len(p.body) |-> p.body[i]]
            /\ \A i \in 1 .. Len(p.body) : p.body[i] \in Nat
        BY <2>1, <3>1
      <3>3. p.body \in [1 .. Len(p.body) -> Nat]
        BY <3>2
      <3>. QED BY <3>2, <3>3
    <2>4. b \in Bytes /\ StreamTakeNumbers(b) = p.body /\ 4 * (Len(b) \div 4) = Len(b)
      BY <2>2, <2>3, NumbersArrive
    <2>5. Payload(p) = StreamAdd(b)
      BY <2>1, <2>2 DEF Payload, Words
    <2>6. Body(p) = b
      BY <2>4, <2>5, StreamFits DEF Body
    <2>7. Taken("numbers", b) = p.body /\ TakenUpTo("numbers", b) = Len(b)
      BY <2>4 DEF Taken, TakenUpTo
    <2>. QED BY <2>1, <2>4, <2>5, <2>6, <2>7, StreamFits
  <1>. QED BY <1>1, <1>2, <1>3 DEF WellFormed

\* What socket_send_packet sends for a packet: its header, the size of its payload and
\* the payload.
Frame(p) == <<p.header>> \o (Uint32(Len(Body(p))) \o Body(p))

\* Where its fields are.
LEMMA FrameFields ==
  ASSUME NEW p, WellFormed(p)
  PROVE  /\ Frame(p) \in Bytes /\ Len(Frame(p)) = 5 + Len(Body(p)) /\ Len(Body(p)) \in Nat
         /\ Frame(p)[1] = p.header
         /\ \A i \in 1 .. 4 : Frame(p)[1 + i] = Uint32(Len(Body(p)))[i]
         /\ \A i \in 1 .. Len(Body(p)) : Frame(p)[5 + i] = Body(p)[i]
  <1> DEFINE b == Body(p)
             u == Uint32(Len(Body(p)))
             h == <<p.header>>
             v == u \o b
  <1>1. b \in Bytes /\ Len(b) \in Nat /\ p.header \in Nat
    <2>1. b \in Bytes /\ p.header \in Nat
      BY RoundTrip
    <2> HIDE DEF b
    <2>2. Len(b) \in Nat
      BY <2>1 DEF Bytes
    <2>. QED BY <2>1, <2>2
  <1>2. u \in Bytes /\ Len(u) = 4
    BY <1>1, Uint32Value
  <1>3. h \in Bytes /\ Len(h) = 1 /\ h[1] = p.header
    BY <1>1 DEF Bytes
  <1>4. Frame(p) = h \o v
    BY DEF Frame
  <1> HIDE DEF b, u, h
  <1>5. /\ v \in Bytes /\ Len(v) = 4 + Len(b)
        /\ \A i \in 1 .. 4 : v[i] = u[i]
        /\ \A i \in 1 .. Len(b) : v[4 + i] = b[i]
    <2>1. /\ u \o b \in Bytes /\ Len(u \o b) = Len(u) + Len(b)
          /\ \A i \in 1 .. Len(u) : (u \o b)[i] = u[i]
          /\ \A i \in 1 .. Len(b) : (u \o b)[Len(u) + i] = b[i]
      BY <1>1, <1>2, Concat
    <2>. QED BY <1>1, <1>2, <2>1
  <1> HIDE DEF v
  <1>6. /\ h \o v \in Bytes /\ Len(h \o v) = 5 + Len(b)
        /\ (h \o v)[1] = h[1]
        /\ \A i \in 1 .. Len(v) : (h \o v)[1 + i] = v[i]
    <2>1. /\ h \o v \in Bytes /\ Len(h \o v) = Len(h) + Len(v)
          /\ \A i \in 1 .. Len(h) : (h \o v)[i] = h[i]
          /\ \A i \in 1 .. Len(v) : (h \o v)[Len(h) + i] = v[i]
      BY <1>3, <1>5, Concat
    <2>. QED BY <1>1, <1>3, <1>5, <2>1
  <1>7. \A i \in 1 .. 4 : (h \o v)[1 + i] = u[i]
    BY <1>1, <1>5, <1>6
  <1>8. ASSUME NEW i \in 1 .. Len(b) PROVE (h \o v)[5 + i] = b[i]
    <2>1. 4 + i \in 1 .. Len(v) /\ 1 + (4 + i) = 5 + i
      BY <1>1, <1>5
    <2>2. (h \o v)[1 + (4 + i)] = v[4 + i]
      BY <1>6, <2>1
    <2>. QED BY <1>5, <2>1, <2>2
  <1>. QED BY <1>1, <1>3, <1>4, <1>6, <1>7, <1>8 DEF b, u

-----------------------------------------------------------------------------
(* What send leaves. *)

\* The stream s without its first k bytes.
Drop(s, k) == SubSeq(s, k + 1, Len(s))

\* Its bytes, and those of the first k.
LEMMA Dropping ==
  ASSUME NEW s \in Bytes, NEW k \in 0 .. Len(s)
  PROVE  /\ Drop(s, k) \in Bytes /\ Len(Drop(s, k)) = Len(s) - k
         /\ \A i \in 1 .. Len(s) - k : Drop(s, k)[i] = s[k + i]
         /\ SubSeq(s, 1, k) \in Bytes /\ Len(SubSeq(s, 1, k)) = k
         /\ \A i \in 1 .. k : SubSeq(s, 1, k)[i] = s[i]
  <1>1. Len(s) \in Nat /\ k \in Nat /\ k <= Len(s) /\ s \in Seq(Nat)
    BY DEF Bytes
  <1>2. /\ SubSeq(s, k + 1, Len(s)) \in Seq(Nat)
        /\ Len(SubSeq(s, k + 1, Len(s))) = Len(s) - k
    BY <1>1, SubSeqProperties
  <1>3. ASSUME NEW i \in 1 .. Len(s) - k PROVE SubSeq(s, k + 1, Len(s))[i] = s[k + i]
    <2>1. SubSeq(s, k + 1, Len(s))[i] = s[(k + 1) + i - 1]
      BY <1>1, <1>2, SubSeqProperties
    <2>2. (k + 1) + i - 1 = k + i
      BY <1>1
    <2>. QED BY <2>1, <2>2
  <1>4. /\ SubSeq(s, 1, k) \in Seq(Nat) /\ Len(SubSeq(s, 1, k)) = k
    BY <1>1, SubSeqProperties
  <1>5. ASSUME NEW i \in 1 .. k PROVE SubSeq(s, 1, k)[i] = s[i]
    <2>1. SubSeq(s, 1, k)[i] = s[1 + i - 1]
      BY <1>1, <1>4, SubSeqProperties
    <2>2. 1 + i - 1 = i
      BY <1>1
    <2>. QED BY <2>1, <2>2
  <1>. QED BY <1>2, <1>3, <1>4, <1>5 DEF Drop, Bytes

\* Nothing or all dropped, and dropped in two steps.
LEMMA DropDrop ==
  ASSUME NEW s \in Bytes
  PROVE  /\ Drop(s, 0) = s /\ Drop(s, Len(s)) = <<>>
         /\ \A k \in 0 .. Len(s) : \A j \in 0 .. Len(s) - k : Drop(Drop(s, k), j) = Drop(s, k + j)
  <1>1. Len(s) \in Nat /\ 0 \in 0 .. Len(s) /\ Len(s) \in 0 .. Len(s)
    BY DEF Bytes
  <1>2. Drop(s, 0) = s
    <2>1. /\ Drop(s, 0) \in Bytes /\ Len(Drop(s, 0)) = Len(s)
          /\ \A i \in 1 .. Len(s) : Drop(s, 0)[i] = s[i]
      <3>1. /\ Drop(s, 0) \in Bytes /\ Len(Drop(s, 0)) = Len(s) - 0
            /\ \A i \in 1 .. Len(s) - 0 : Drop(s, 0)[i] = s[0 + i]
        BY <1>1, Dropping
      <3>2. Len(s) - 0 = Len(s) /\ \A i \in 1 .. Len(s) : 0 + i = i
        BY <1>1
      <3>. QED BY <3>1, <3>2
    <2>. QED BY <2>1, SeqEqual DEF Bytes
  <1>3. Drop(s, Len(s)) = <<>>
    <2>1. Drop(s, Len(s)) \in Bytes /\ Len(Drop(s, Len(s))) = Len(s) - Len(s)
      BY <1>1, Dropping
    <2>2. Len(Drop(s, Len(s))) = 0
      BY <1>1, <2>1
    <2>. QED BY <2>1, <2>2 DEF Bytes
  <1>4. ASSUME NEW k \in 0 .. Len(s), NEW j \in 0 .. Len(s) - k
        PROVE  Drop(Drop(s, k), j) = Drop(s, k + j)
    <2> DEFINE d == Drop(s, k)
    <2>0. k \in Nat /\ j \in Nat /\ k + j \in 0 .. Len(s)
      BY <1>1
    <2>1. /\ d \in Bytes /\ Len(d) = Len(s) - k
          /\ \A i \in 1 .. Len(s) - k : d[i] = s[k + i]
      BY Dropping
    <2> HIDE DEF d
    <2>2. j \in 0 .. Len(d)
      BY <2>1
    <2>3. /\ Drop(d, j) \in Bytes /\ Len(Drop(d, j)) = Len(d) - j
          /\ \A i \in 1 .. Len(d) - j : Drop(d, j)[i] = d[j + i]
      BY <2>1, <2>2, Dropping
    <2>4. /\ Drop(s, k + j) \in Bytes /\ Len(Drop(s, k + j)) = Len(s) - (k + j)
          /\ \A i \in 1 .. Len(s) - (k + j) : Drop(s, k + j)[i] = s[(k + j) + i]
      BY <2>0, Dropping
    <2>5. Len(d) - j = Len(s) - (k + j)
      BY <1>1, <2>0, <2>1
    <2>6. ASSUME NEW i \in 1 .. Len(s) - (k + j) PROVE Drop(d, j)[i] = Drop(s, k + j)[i]
      <3>1. j + i \in 1 .. Len(s) - k /\ k + (j + i) = (k + j) + i
        BY <1>1, <2>0
      <3>2. Drop(d, j)[i] = d[j + i]
        BY <2>3, <2>5
      <3>3. d[j + i] = s[k + (j + i)]
        BY <2>1, <3>1
      <3>. QED BY <2>4, <3>1, <3>2, <3>3
    <2>7. Drop(d, j) = Drop(s, k + j)
      BY <2>3, <2>4, <2>5, <2>6, SeqEqual DEF Bytes
    <2>. QED BY <2>7 DEF d
  <1>. QED BY <1>2, <1>3, <1>4

\* What is left of the three sends of p after k bytes.
Rest(p, k) ==
    LET number == Uint32(Len(Body(p))) IN
    IF k = 0 THEN <<<<p.header>>, number, Body(p)>>
    ELSE IF k < 5 THEN <<Drop(number, k - 1), Body(p)>>
    ELSE <<Drop(Body(p), k - 5)>>

\* The part that is being sent continues the frame.
LEMMA SendPart ==
  ASSUME NEW p, WellFormed(p), NEW k \in Nat, k < Len(Frame(p))
  PROVE  /\ Rest(p, k) # <<>> /\ Head(Rest(p, k)) \in Bytes
         /\ Len(Head(Rest(p, k))) > 0 /\ k + Len(Head(Rest(p, k))) <= Len(Frame(p))
         /\ \A i \in 1 .. Len(Head(Rest(p, k))) : Head(Rest(p, k))[i] = Frame(p)[k + i]
  <1> DEFINE b == Body(p)
             u == Uint32(Len(b))
             f == Frame(p)
  <1>1. /\ f \in Bytes /\ Len(f) = 5 + Len(b) /\ Len(b) \in Nat
        /\ f[1] = p.header
        /\ \A i \in 1 .. 4 : f[1 + i] = u[i]
        /\ \A i \in 1 .. Len(b) : f[5 + i] = b[i]
    BY FrameFields
  <1>2. b \in Bytes
    BY RoundTrip
  <1>3. u \in Bytes /\ Len(u) = 4
    BY <1>1, Uint32Value
  <1>4. <<p.header>> \in Bytes
    <2>1. p.header \in Nat
      BY RoundTrip
    <2>. QED BY <2>1 DEF Bytes
  <1>5. Rest(p, k) = IF k = 0 THEN <<<<p.header>>, u, b>>
                     ELSE IF k < 5 THEN <<Drop(u, k - 1), b>>
                     ELSE <<Drop(b, k - 5)>>
    BY DEF Rest
  <1>6. k < Len(f)
    OBVIOUS
  <1> HIDE DEF b, u, f
  <1>7. CASE k = 0
    <2>1. Rest(p, k) # <<>> /\ Head(Rest(p, k)) = <<p.header>>
      BY <1>5, <1>7
    <2>2. PICK h : h = <<p.header>>
      OBVIOUS
    <2>3. Len(h) = 1 /\ h[1] = f[1] /\ h \in Bytes
      BY <1>1, <1>4, <2>2
    <2>4. Head(Rest(p, k)) = h
      BY <2>1, <2>2
    <2>5. \A i \in 1 .. Len(h) : h[i] = f[k + i]
      BY <1>7, <2>3
    <2>6. Len(h) > 0 /\ k + Len(h) <= Len(f)
      BY <1>1, <1>7, <2>3
    <2>. QED BY <2>1, <2>3, <2>4, <2>5, <2>6 DEF f
  <1>8. CASE k # 0 /\ k < 5
    <2> DEFINE d == Drop(u, k - 1)
    <2>1. Rest(p, k) # <<>> /\ Head(Rest(p, k)) = d
      BY <1>5, <1>8
    <2>2. k - 1 \in 0 .. Len(u)
      BY <1>3, <1>8
    <2>3. /\ d \in Bytes /\ Len(d) = Len(u) - (k - 1)
          /\ \A i \in 1 .. Len(u) - (k - 1) : d[i] = u[(k - 1) + i]
      BY <1>3, <2>2, Dropping
    <2> HIDE DEF d
    <2>4. Len(d) = 5 - k
      BY <1>3, <2>3
    <2>5. ASSUME NEW i \in 1 .. Len(d) PROVE d[i] = f[k + i]
      <3>1. i \in 1 .. Len(u) - (k - 1) /\ (k - 1) + i \in 1 .. 4 /\ 1 + ((k - 1) + i) = k + i
        BY <1>3, <1>8, <2>4
      <3>2. f[1 + ((k - 1) + i)] = u[(k - 1) + i]
        BY <1>1, <3>1
      <3>. QED BY <2>3, <3>1, <3>2
    <2>6. Len(d) > 0 /\ k + Len(d) <= Len(f)
      BY <1>1, <1>8, <2>4
    <2>. QED BY <2>1, <2>3, <2>5, <2>6 DEF f
  <1>9. CASE k >= 5
    <2> DEFINE d == Drop(b, k - 5)
    <2>1. Rest(p, k) # <<>> /\ Head(Rest(p, k)) = d
      BY <1>5, <1>9
    <2>2. k - 5 \in 0 .. Len(b)
      BY <1>1, <1>6, <1>9
    <2>3. /\ d \in Bytes /\ Len(d) = Len(b) - (k - 5)
          /\ \A i \in 1 .. Len(b) - (k - 5) : d[i] = b[(k - 5) + i]
      BY <1>2, <2>2, Dropping
    <2> HIDE DEF d
    <2>4. ASSUME NEW i \in 1 .. Len(d) PROVE d[i] = f[k + i]
      <3>1. /\ i \in 1 .. Len(b) - (k - 5) /\ (k - 5) + i \in 1 .. Len(b)
            /\ 5 + ((k - 5) + i) = k + i
        BY <1>1, <1>9, <2>3
      <3>2. f[5 + ((k - 5) + i)] = b[(k - 5) + i]
        BY <1>1, <3>1
      <3>. QED BY <2>3, <3>1, <3>2
    <2>5. Len(d) > 0 /\ k + Len(d) <= Len(f)
      BY <1>1, <1>6, <1>9, <2>3
    <2>. QED BY <2>1, <2>3, <2>4, <2>5 DEF f
  <1>. QED BY <1>7, <1>8, <1>9

\* Short lists.
LEMMA Tuples ==
  ASSUME NEW a, NEW b, NEW c
  PROVE  /\ Head(<<a, b, c>>) = a /\ Tail(<<a, b, c>>) = <<b, c>>
         /\ Head(<<a, b>>) = a /\ Tail(<<a, b>>) = <<b>>
         /\ Head(<<a>>) = a /\ Tail(<<a>>) = <<>>
         /\ <<a>> \o <<b>> = <<a, b>> /\ <<>> \o <<a, b>> = <<a, b>>
         /\ <<>> \o <<a>> = <<a>> /\ <<a>> \o <<>> = <<a>>
         /\ <<a, b>> # <<c>> /\ <<a>> # <<>>
  <1> DEFINE S == {a, b, c}
  <1>1. /\ <<a, b, c>> \in Seq(S) /\ <<a, b>> \in Seq(S) /\ <<b, c>> \in Seq(S)
        /\ <<a>> \in Seq(S) /\ <<b>> \in Seq(S) /\ <<c>> \in Seq(S) /\ <<>> \in Seq(S)
    OBVIOUS
  <1>2. Head(<<a, b, c>>) = a /\ Head(<<a, b>>) = a /\ Head(<<a>>) = a
    OBVIOUS
  <1>3. Tail(<<a, b, c>>) = <<b, c>>
    <2> DEFINE q == <<a, b, c>>
    <2>1. q \in Seq(S) /\ Len(q) = 3 /\ q[2] = b /\ q[3] = c
      OBVIOUS
    <2> HIDE DEF q, S
    <2>2. /\ Tail(q) \in Seq(S) /\ Len(Tail(q)) = Len(q) - 1
          /\ \A i \in 1 .. Len(Tail(q)) : Tail(q)[i] = q[i + 1]
      <3>1. q # <<>>
        BY <2>1
      <3>. QED BY <2>1, <3>1, HeadTailProperties
    <2>3. ASSUME NEW i \in 1 .. Len(Tail(q)) PROVE Tail(q)[i] = <<b, c>>[i]
      <3>1. i = 1 \/ i = 2
        <4>1. Len(Tail(q)) = 2
          BY <2>1, <2>2
        <4>2. \A j \in 1 .. 2 : j = 1 \/ j = 2
          OBVIOUS
        <4>. QED BY <4>1, <4>2
      <3>2. Tail(q)[i] = q[i + 1]
        BY <2>2
      <3>3. <<b, c>>[1] = b /\ <<b, c>>[2] = c
        OBVIOUS
      <3>. QED BY <2>1, <3>1, <3>2, <3>3
    <2>4. Len(<<b, c>>) = 2 /\ Len(Tail(q)) = 2
      BY <2>1, <2>2
    <2>. QED BY <1>1, <2>2, <2>3, <2>4, SeqEqual DEF q
  <1>4. Tail(<<a, b>>) = <<b>>
    <2> DEFINE q == <<a, b>>
    <2>1. q \in Seq(S) /\ Len(q) = 2 /\ q[2] = b
      OBVIOUS
    <2> HIDE DEF q, S
    <2>2. /\ Tail(q) \in Seq(S) /\ Len(Tail(q)) = Len(q) - 1
          /\ \A i \in 1 .. Len(Tail(q)) : Tail(q)[i] = q[i + 1]
      <3>1. q # <<>>
        BY <2>1
      <3>. QED BY <2>1, <3>1, HeadTailProperties
    <2>3. ASSUME NEW i \in 1 .. Len(Tail(q)) PROVE Tail(q)[i] = <<b>>[i]
      <3>1. i = 1
        BY <2>1, <2>2
      <3>2. Tail(q)[i] = q[i + 1]
        BY <2>2
      <3>3. <<b>>[1] = b
        OBVIOUS
      <3>. QED BY <2>1, <3>1, <3>2, <3>3
    <2>4. Len(<<b>>) = 1 /\ Len(Tail(q)) = 1
      BY <2>1, <2>2
    <2>. QED BY <1>1, <2>2, <2>3, <2>4, SeqEqual DEF q
  <1>5. Tail(<<a>>) = <<>>
    OBVIOUS
  <1>6. <<a>> \o <<b>> = <<a, b>>
    <2> DEFINE q == <<a>>
               r == <<b>>
    <2>1. q \in Seq(S) /\ Len(q) = 1 /\ q[1] = a /\ r \in Seq(S) /\ Len(r) = 1 /\ r[1] = b
      OBVIOUS
    <2> HIDE DEF q, r, S
    <2>2. /\ q \o r \in Seq(S) /\ Len(q \o r) = Len(q) + Len(r)
          /\ \A i \in 1 .. Len(q) + Len(r) :
               (q \o r)[i] = IF i <= Len(q) THEN q[i] ELSE r[i - Len(q)]
      BY <2>1, ConcatProperties
    <2>3. ASSUME NEW i \in 1 .. Len(q \o r) PROVE (q \o r)[i] = <<a, b>>[i]
      <3>1. i = 1 \/ i = 2
        BY <2>1, <2>2
      <3>2. (q \o r)[i] = IF i <= Len(q) THEN q[i] ELSE r[i - Len(q)]
        BY <2>2
      <3>3. <<a, b>>[1] = a /\ <<a, b>>[2] = b
        OBVIOUS
      <3>. QED BY <2>1, <3>1, <3>2, <3>3
    <2>4. Len(<<a, b>>) = 2 /\ Len(q \o r) = 2
      BY <2>1, <2>2
    <2>5. q \o r = <<a, b>>
      BY <1>1, <2>2, <2>3, <2>4, SeqEqual
    <2>. QED BY <2>5 DEF q, r
  <1>7. \A q \in Seq(S) : <<>> \o q = q /\ q \o <<>> = q
    OBVIOUS
  <1>8. <<a, b>> # <<c>> /\ <<a>> # <<>>
    <2>1. Len(<<a, b>>) = 2 /\ Len(<<c>>) = 1 /\ Len(<<a>>) = 1 /\ Len(<<>>) = 0
      OBVIOUS
    <2>. QED BY <2>1
  <1> HIDE DEF S
  <1>. QED BY <1>1, <1>2, <1>3, <1>4, <1>5, <1>6, <1>7, <1>8

\* One list after another.
LEMMA Pair ==
  ASSUME NEW a, NEW b
  PROVE  <<a>> \o <<b>> = <<a, b>>
  <1>1. <<a>> \o <<b>> = <<a, b>> /\ Tail(<<a, b, a>>) = <<b, a>>
    BY Tuples
  <1>. QED BY <1>1

\* What is left of unsent parts when n bytes of the first have been taken.
Left(parts, n) ==
    LET part == Head(parts)
        left == SubSeq(part, n + 1, Len(part))
        rest == (IF left = <<>> THEN <<>> ELSE <<left>>) \o Tail(parts)
    IN  IF rest = <<<<>>>> THEN <<>> ELSE rest

\* It is what is left of the frame.
LEMMA SendRest ==
  ASSUME NEW p, WellFormed(p), NEW k \in Nat, k < Len(Frame(p)),
         NEW n \in 1 .. Len(Head(Rest(p, k)))
  PROVE  Left(Rest(p, k), n) = IF k + n = Len(Frame(p)) THEN <<>> ELSE Rest(p, k + n)
  <1> DEFINE b == Body(p)
             u == Uint32(Len(b))
             h == <<p.header>>
             f == Len(Frame(p))
  <1>1. f = 5 + Len(b) /\ Len(b) \in Nat
    BY FrameFields
  <1>2. b \in Bytes
    BY RoundTrip
  <1>3. u \in Bytes /\ Len(u) = 4
    BY <1>1, Uint32Value
  <1>4. h \in Bytes /\ Len(h) = 1
    <2>1. p.header \in Nat
      BY RoundTrip
    <2>. QED BY <2>1 DEF Bytes
  <1>5. \A j : Rest(p, j) = IF j = 0 THEN <<h, u, b>>
                            ELSE IF j < 5 THEN <<Drop(u, j - 1), b>>
                            ELSE <<Drop(b, j - 5)>>
    BY DEF Rest
  <1>6. \A parts : Left(parts, n) =
          LET rest == (IF Drop(Head(parts), n) = <<>> THEN <<>> ELSE <<Drop(Head(parts), n)>>)
                        \o Tail(parts)
          IN  IF rest = <<<<>>>> THEN <<>> ELSE rest
    BY DEF Left, Drop
  <1>7. k < f
    OBVIOUS
  <1> HIDE DEF b, u, h, f
  <1>8. CASE k = 0
    <2>1. Head(Rest(p, k)) = h /\ Tail(Rest(p, k)) = <<u, b>>
      <3>1. Rest(p, k) = <<h, u, b>>
        BY <1>5, <1>8
      <3>2. Head(<<h, u, b>>) = h /\ Tail(<<h, u, b>>) = <<u, b>>
        BY Tuples
      <3>. QED BY <3>1, <3>2
    <2>2. n = 1
      <3>1. n \in 1 .. Len(h)
        BY <2>1
      <3>2. n \in 1 .. 1
        BY <1>4, <3>1
      <3>. QED BY <3>2
    <2>3. Drop(h, n) = <<>>
      BY <1>4, <2>2, DropDrop
    <2>4. <<>> \o <<u, b>> = <<u, b>> /\ <<u, b>> # <<<<>>>>
      BY Tuples
    <2>5. Left(Rest(p, k), n) = <<u, b>>
      BY <1>6, <2>1, <2>3, <2>4
    <2>6. Rest(p, k + n) = <<u, b>>
      <3>1. k + n # 0 /\ k + n < 5 /\ (k + n) - 1 = 0
        BY <1>8, <2>2
      <3>2. Drop(u, 0) = u
        BY <1>3, DropDrop
      <3>. QED BY <1>5, <3>1, <3>2
    <2>7. k + n # f
      BY <1>1, <1>8, <2>2
    <2>. QED BY <2>5, <2>6, <2>7 DEF f
  <1>9. CASE k # 0 /\ k < 5
    <2> DEFINE d == Drop(u, k - 1)
    <2>1. Head(Rest(p, k)) = d /\ Tail(Rest(p, k)) = <<b>>
      <3>1. Rest(p, k) = <<d, b>>
        BY <1>5, <1>9
      <3> HIDE DEF d
      <3>2. Head(<<d, b>>) = d /\ Tail(<<d, b>>) = <<b>>
        BY Tuples
      <3>. QED BY <3>1, <3>2
    <2>2. k - 1 \in 0 .. Len(u)
      BY <1>3, <1>9
    <2>3. /\ d \in Bytes /\ Len(d) = 5 - k
          /\ \A j \in 0 .. 5 - k : Drop(d, j) = Drop(u, (k - 1) + j)
      <3>1. d \in Bytes /\ Len(d) = Len(u) - (k - 1)
        BY <1>3, <2>2, Dropping
      <3>2. \A j \in 0 .. Len(u) - (k - 1) : Drop(d, j) = Drop(u, (k - 1) + j)
        BY <1>3, <2>2, DropDrop
      <3>3. Len(u) - (k - 1) = 5 - k
        BY <1>3
      <3>. QED BY <3>1, <3>2, <3>3
    <2> HIDE DEF d
    <2>4. n \in 1 .. 5 - k /\ n \in 0 .. Len(d)
      BY <1>9, <2>1, <2>3
    <2>5. Drop(d, n) = Drop(u, (k + n) - 1)
      <3>1. (k - 1) + n = (k + n) - 1 /\ n \in 0 .. 5 - k
        BY <2>4
      <3>. QED BY <2>3, <3>1
    <2>6. Drop(d, n) \in Bytes /\ Len(Drop(d, n)) = (5 - k) - n
      BY <2>3, <2>4, Dropping
    <2>7. CASE n < 5 - k
      <3>1. Drop(d, n) # <<>>
        BY <2>4, <2>6, <2>7
      <3>2. <<Drop(d, n)>> \o <<b>> = <<Drop(d, n), b>>
        <4>1. PICK e : e = Drop(d, n)
          OBVIOUS
        <4>2. <<e>> \o <<b>> = <<e, b>>
          BY Pair
        <4>. QED BY <4>1, <4>2
      <3>3. <<Drop(d, n), b>> # <<<<>>>>
        BY Tuples
      <3>4. Left(Rest(p, k), n) = <<Drop(d, n), b>>
        BY <1>6, <2>1, <3>1, <3>2, <3>3
      <3>5. k + n # 0 /\ k + n < 5 /\ k + n # f
        BY <1>1, <1>9, <2>4, <2>7
      <3>. QED BY <1>5, <2>5, <3>4, <3>5 DEF f
    <2>8. CASE n = 5 - k
      <3>1. Drop(d, n) = <<>>
        BY <2>3, <2>8, DropDrop
      <3>2. <<>> \o <<b>> = <<b>>
        BY <1>2
      <3>3. Left(Rest(p, k), n) = IF <<b>> = <<<<>>>> THEN <<>> ELSE <<b>>
        BY <1>6, <2>1, <3>1, <3>2
      <3>4. k + n = 5
        BY <1>9, <2>8
      <3>5. Rest(p, 5) = <<b>>
        <4>1. Rest(p, 5) = <<Drop(b, 0)>>
          BY <1>5
        <4>. QED BY <1>2, <4>1, DropDrop
      <3>6. b = <<>> <=> f = 5
        BY <1>1, <1>2 DEF Bytes
      <3>7. b = <<>> <=> <<b>> = <<<<>>>>
        OBVIOUS
      <3>. QED BY <3>3, <3>4, <3>5, <3>6, <3>7 DEF f
    <2>. QED BY <2>4, <2>7, <2>8
  <1>10. CASE k >= 5
    <2> DEFINE d == Drop(b, k - 5)
    <2>1. Head(Rest(p, k)) = d /\ Tail(Rest(p, k)) = <<>>
      <3>1. Rest(p, k) = <<d>>
        BY <1>5, <1>10
      <3> HIDE DEF d
      <3>2. Head(<<d>>) = d /\ Tail(<<d>>) = <<>>
        BY Tuples
      <3>. QED BY <3>1, <3>2
    <2>2. k - 5 \in 0 .. Len(b)
      BY <1>1, <1>7, <1>10
    <2>3. /\ d \in Bytes /\ Len(d) = f - k
          /\ \A j \in 0 .. f - k : Drop(d, j) = Drop(b, (k - 5) + j)
      <3>1. d \in Bytes /\ Len(d) = Len(b) - (k - 5)
        BY <1>2, <2>2, Dropping
      <3>2. \A j \in 0 .. Len(b) - (k - 5) : Drop(d, j) = Drop(b, (k - 5) + j)
        BY <1>2, <2>2, DropDrop
      <3>3. Len(b) - (k - 5) = f - k
        BY <1>1
      <3>. QED BY <3>1, <3>2, <3>3
    <2> HIDE DEF d
    <2>4. n \in 1 .. f - k /\ n \in 0 .. f - k /\ n \in 0 .. Len(d)
      BY <1>1, <2>1, <2>3
    <2>5. Drop(d, n) = Drop(b, (k + n) - 5)
      <3>1. (k - 5) + n = (k + n) - 5
        BY <2>4
      <3>. QED BY <2>3, <2>4, <3>1
    <2>6. Drop(d, n) \in Bytes /\ Len(Drop(d, n)) = (f - k) - n
      BY <2>3, <2>4, Dropping
    <2>7. CASE n < f - k
      <3>1. Drop(d, n) # <<>>
        BY <1>1, <2>4, <2>6, <2>7
      <3>2. <<Drop(d, n)>> \o <<>> = <<Drop(d, n)>>
        BY <2>6
      <3>3. <<Drop(d, n)>> # <<<<>>>>
        BY <3>1
      <3>4. Left(Rest(p, k), n) = <<Drop(d, n)>>
        BY <1>6, <2>1, <3>1, <3>2, <3>3
      <3>5. k + n # 0 /\ ~(k + n < 5) /\ k + n # f
        BY <1>1, <1>10, <2>4, <2>7
      <3>. QED BY <1>5, <2>5, <3>4, <3>5 DEF f
    <2>8. CASE n = f - k
      <3>1. Drop(d, n) = <<>>
        BY <2>3, <2>8, DropDrop
      <3>2. <<>> \o <<>> = <<>> /\ <<>> # <<<<>>>>
        <4>1. Len(<<>>) = 0 /\ Len(<<<<>>>>) = 1
          OBVIOUS
        <4>. QED BY <4>1
      <3>3. Left(Rest(p, k), n) = <<>>
        BY <1>6, <2>1, <3>1, <3>2
      <3>4. k + n = f
        BY <1>1, <2>8
      <3>. QED BY <3>3, <3>4 DEF f
    <2>. QED BY <1>1, <2>4, <2>7, <2>8
  <1>. QED BY <1>8, <1>9, <1>10

-----------------------------------------------------------------------------
(* The inductive invariant. *)

\* What may be sent over the connection.
Sendable == UNION {Packets[link][t] : t \in Threads}

WireTypeOK ==
    /\ link \in DOMAIN Packets
    /\ packet \in [Threads -> Sendable \cup {Nothing}]
    /\ unsent = [t \in Threads |-> unsent[t]]
    /\ \A t \in Threads : unsent[t] # <<>> => packet[t] \in Sendable
    /\ alive \in BOOLEAN
    /\ bytes \in Bytes
    /\ sent \in Seq(Sendable)
    /\ field \in {"header", "size", "payload"}
    /\ got \in Bytes
    /\ header \in Nat
    /\ size \in Nat
    /\ tries \in 0 .. Attempts
    /\ delivered \in Seq(Sendable)

\* all is what was ever sent: the frames of the packets sent, the i-th up to cut[i], and
\* the first k bytes of the frame that is being sent.
Written(all, cut, k) ==
    /\ cut \in [0 .. Len(sent) -> Nat]
    /\ cut[0] = 0
    /\ \A i \in 1 .. Len(sent) : /\ cut[i] = cut[i - 1] + Len(Frame(sent[i]))
                                 /\ At(all, cut[i - 1], Frame(sent[i]))
    /\ Len(all) = cut[Len(sent)] + k
    /\ \A t \in Threads :
         IF unsent[t] = <<>> THEN k = 0
         ELSE /\ k < Len(Frame(packet[t]))
              /\ unsent[t] = Rest(packet[t], k)
              /\ \A i \in 1 .. k : all[cut[Len(sent)] + i] = Frame(packet[t])[i]

\* All but the first r bytes of it are on their way.
OnTheWay(all, r) == r + Len(bytes) = Len(all) /\ At(all, r, bytes)

\* The number at offset o.
NumberAt(all, o) ==
    all[o + 1] + 256 * all[o + 2] + 65536 * all[o + 3] + 16777216 * all[o + 4]

\* The reader has read r bytes, and is in the middle of a frame that begins at s.
ReadTo(all, s, r) ==
    \/ field = "header" /\ got = <<>> /\ r = s
    \/ /\ field = "size" /\ Len(got) < 4 /\ r = s + 1 + Len(got)
       /\ header = all[s + 1] /\ At(all, s + 1, got)
    \/ /\ field = "payload" /\ Len(got) < size /\ r = s + 5 + Len(got)
       /\ header = all[s + 1] /\ size = NumberAt(all, s + 1) /\ At(all, s + 5, got)

\* The handlers got the first of the packets sent, and all of each.
Handled ==
    /\ Len(delivered) <= Len(sent)
    /\ \A i \in 1 .. Len(delivered) : delivered[i] = sent[i]
    /\ unread = 0

\* Where everything is.  A reader that has failed once has nothing more to read.
Framing ==
    \E all \in Bytes, k, r \in Nat : \E cut :
        /\ Written(all, cut, k)
        /\ OnTheWay(all, r)
        /\ IF tries = 0 THEN ReadTo(all, cut[Len(delivered)], r) ELSE bytes = <<>> /\ ~alive

WireInv == WireTypeOK /\ Handled /\ Framing

-----------------------------------------------------------------------------
(* It holds initially, and each step preserves it. *)

\* Packets are well formed, and the same header means the same type.
LEMMA SendableFormed ==
  ASSUME link \in DOMAIN Packets
  PROVE  \A p \in Sendable : /\ WellFormed(p)
                             /\ \A q \in Sendable : p.header = q.header => p.type = q.type
  BY PacketsAssumption, HeadersAssumption DEF Sendable, Threads, WellFormed

\* Nothing is sent at first.
LEMMA InitInv == WireInit => WireInv
  <1> SUFFICES ASSUME WireInit PROVE WireInv
    OBVIOUS
  <1> USE DEF WireInit
  <1>1. WireTypeOK
    <2>1. <<>> \in Bytes /\ 0 \in 0 .. Attempts /\ 0 \in Nat
      BY DEF Bytes, Attempts
    <2>2. /\ <<>> \in Seq(Sendable)
          /\ [t \in Threads |-> Nothing] \in [Threads -> Sendable \cup {Nothing}]
          /\ \A t \in Threads : [u \in Threads |-> <<>>][t] = <<>>
      OBVIOUS
    <2>. QED BY <2>1, <2>2 DEF WireTypeOK
  <1>2. Handled
    BY DEF Handled
  <1>3. Framing
    <2> DEFINE cut == [i \in 0 .. 0 |-> 0]
    <2>1. <<>> \in Bytes /\ Len(<<>>) = 0 /\ 0 \in Nat
      BY DEF Bytes
    <2>2. cut \in [0 .. Len(sent) -> Nat] /\ cut[0] = 0 /\ Len(sent) = 0
      OBVIOUS
    <2> HIDE DEF cut
    <2>3. Written(<<>>, cut, 0)
      BY <2>1, <2>2 DEF Written
    <2>4. OnTheWay(<<>>, 0)
      BY <2>1 DEF OnTheWay, At
    <2>5. ReadTo(<<>>, cut[Len(delivered)], 0)
      BY <2>1, <2>2 DEF ReadTo
    <2>. QED BY <2>1, <2>3, <2>4, <2>5 DEF Framing
  <1>. QED BY <1>1, <1>2, <1>3 DEF WireInv

\* A packet is begun.
LEMMA SocketSendPacketInv ==
  ASSUME WireInv, OneSender, NEW t \in Threads, SocketSendPacket(t)
  PROVE  WireInv'
  <1> USE DEF SocketSendPacket
  <1>1. UNCHANGED <<link, alive, sent, bytes, field, got, header, size, tries, delivered, unread>>
    BY DEF readerVars
  <1>2. PICK p \in Packets[link][t] :
          /\ packet' = [packet EXCEPT ![t] = p]
          /\ unsent' = [unsent EXCEPT ![t] =
               <<<<p.header>>, Uint32(Payload(p).offset), Payload(p).stream>>]
    OBVIOUS
  <1>3. Threads' = Threads /\ Sendable' = Sendable /\ p \in Sendable
    BY <1>1 DEF Threads, Sendable
  <1>4. WellFormed(p)
    BY <1>3, SendableFormed DEF WireInv, WireTypeOK
  <1>5. Threads = {t}
    BY DEF OneSender, Threads, WireInv, WireTypeOK
  <1>6. packet'[t] = p /\ unsent'[t] = Rest(p, 0) /\ Rest(p, 0) # <<>>
    <2>1. packet'[t] = p
      BY <1>2 DEF WireInv, WireTypeOK
    <2>2. t \in DOMAIN unsent
      BY DEF WireInv, WireTypeOK
    <2>3. unsent'[t] = <<<<p.header>>, Uint32(Payload(p).offset), Payload(p).stream>>
      BY <1>2, <2>2
    <2>4. Payload(p).offset = Len(Body(p)) /\ Body(p) = Payload(p).stream
      BY <1>4, RoundTrip DEF Body
    <2>5. Rest(p, 0) = <<<<p.header>>, Uint32(Len(Body(p))), Body(p)>>
      BY DEF Rest
    <2>6. 0 < Len(Frame(p)) /\ 0 \in Nat
      BY <1>4, FrameFields
    <2>7. Rest(p, 0) # <<>>
      BY <1>4, <2>6, SendPart
    <2>. QED BY <2>1, <2>3, <2>4, <2>5, <2>7
  <1>7. WireTypeOK'
    <2>1. packet' \in [Threads -> Sendable \cup {Nothing}]
      BY <1>2, <1>3 DEF WireInv, WireTypeOK
    <2>2. unsent' = [u \in Threads |-> unsent'[u]]
      BY <1>2 DEF WireInv, WireTypeOK
    <2>3. \A u \in Threads : packet'[u] \in Sendable
      BY <1>3, <1>5, <1>6
    <2>. QED BY <1>1, <1>3, <2>1, <2>2, <2>3 DEF WireInv, WireTypeOK
  <1>8. Handled'
    BY <1>1 DEF WireInv, Handled
  <1>9. Framing'
    <2>1. PICK all \in Bytes, k \in Nat, r \in Nat : \E cut :
            /\ Written(all, cut, k) /\ OnTheWay(all, r)
            /\ IF tries = 0 THEN ReadTo(all, cut[Len(delivered)], r) ELSE bytes = <<>> /\ ~alive
      BY DEF WireInv, Framing
    <2>2. PICK cut :
            /\ Written(all, cut, k) /\ OnTheWay(all, r)
            /\ IF tries = 0 THEN ReadTo(all, cut[Len(delivered)], r) ELSE bytes = <<>> /\ ~alive
      BY <2>1
    <2>3. k = 0
      BY <2>2 DEF Written
    <2>4. 0 < Len(Frame(p))
      BY <1>4, FrameFields
    <2>5. Written(all, cut, k)'
      <3>1. /\ cut \in [0 .. Len(sent) -> Nat] /\ cut[0] = 0
            /\ \A i \in 1 .. Len(sent) : /\ cut[i] = cut[i - 1] + Len(Frame(sent[i]))
                                         /\ At(all, cut[i - 1], Frame(sent[i]))
            /\ Len(all) = cut[Len(sent)] + k
        BY <2>2 DEF Written
      <3>2. \A u \in Threads' : u = t
        BY <1>3, <1>5
      <3>3. \A i \in 1 .. k : all[cut[Len(sent)] + i] = Frame(packet'[t])[i]
        BY <2>3
      <3>4. unsent'[t] = Rest(packet'[t], k) /\ k < Len(Frame(packet'[t]))
        BY <1>6, <2>3, <2>4
      <3>5. unsent'[t] # <<>>
        BY <1>6
      <3>6. ASSUME NEW u \in Threads'
            PROVE  IF unsent'[u] = <<>> THEN k = 0
                   ELSE /\ k < Len(Frame(packet'[u]))
                        /\ unsent'[u] = Rest(packet'[u], k)
                        /\ \A i \in 1 .. k : all[cut[Len(sent)] + i] = Frame(packet'[u])[i]
        <4>1. u = t
          BY <3>2
        <4>. QED BY <3>3, <3>4, <3>5, <4>1
      <3>7. sent' = sent
        BY <1>1
      <3> DEFINE Begun(u) == IF unsent'[u] = <<>> THEN k = 0
                   ELSE /\ k < Len(Frame(packet'[u]))
                        /\ unsent'[u] = Rest(packet'[u], k)
                        /\ \A i \in 1 .. k : all[cut[Len(sent)] + i] = Frame(packet'[u])[i]
      <3>8. Written(all, cut, k)' <=>
              /\ cut \in [0 .. Len(sent) -> Nat] /\ cut[0] = 0
              /\ \A i \in 1 .. Len(sent) : /\ cut[i] = cut[i - 1] + Len(Frame(sent[i]))
                                           /\ At(all, cut[i - 1], Frame(sent[i]))
              /\ Len(all) = cut[Len(sent)] + k
              /\ \A u \in Threads' : Begun(u)
        BY <3>7 DEF Written
      <3>9. \A u \in Threads' : Begun(u)
        BY <3>6
      <3> HIDE DEF Begun
      <3>. QED BY <3>1, <3>8, <3>9
    <2>6. OnTheWay(all, r)'
      BY <1>1, <2>2 DEF OnTheWay
    <2>7. IF tries' = 0 THEN ReadTo(all, cut[Len(delivered)], r)'
          ELSE bytes' = <<>> /\ ~alive'
      BY <1>1, <2>2 DEF ReadTo
    <2>. QED BY <2>5, <2>6, <2>7 DEF Framing
  <1>. QED BY <1>7, <1>8, <1>9 DEF WireInv

\* The sender dies.
LEMMA DieInv ==
  ASSUME WireInv, Die
  PROVE  WireInv'
  <1>1. /\ UNCHANGED <<link, begun, packet, unsent, sent, bytes, field, got, header, size, tries,
                       delivered, unread>>
        /\ alive' = FALSE
    BY DEF Die, readerVars
  <1>2. Threads' = Threads /\ Sendable' = Sendable
    BY <1>1 DEF Threads, Sendable
  <1>3. WireTypeOK'
    BY <1>1, <1>2 DEF WireInv, WireTypeOK
  <1>4. Handled'
    BY <1>1 DEF WireInv, Handled
  <1>5. Framing'
    <2>1. \A all, cut, k : Written(all, cut, k)' <=> Written(all, cut, k)
      BY <1>1, <1>2 DEF Written
    <2>2. \A all, r : OnTheWay(all, r)' <=> OnTheWay(all, r)
      BY <1>1 DEF OnTheWay
    <2>3. \A all, s, r : ReadTo(all, s, r)' <=> ReadTo(all, s, r)
      BY <1>1 DEF ReadTo
    <2>. QED BY <1>1, <2>1, <2>2, <2>3 DEF WireInv, Framing
  <1>. QED BY <1>3, <1>4, <1>5 DEF WireInv

\* A receive fails.
LEMMA ReceiveFailsInv ==
  ASSUME WireInv, ReceiveFails
  PROVE  WireInv'
  <1>1. /\ UNCHANGED <<link, begun, packet, unsent, sent, alive, bytes, header, size, delivered,
                       unread>>
        /\ bytes = <<>> /\ ~alive /\ tries # Attempts
        /\ got' = <<>> /\ field' = "header" /\ tries' = tries + 1
    BY DEF ReceiveFails, Closed, senderVars
  <1>2. Threads' = Threads /\ Sendable' = Sendable
    BY <1>1 DEF Threads, Sendable
  <1>3. tries' \in 0 .. Attempts /\ tries' # 0
    BY <1>1 DEF WireInv, WireTypeOK, Attempts
  <1>4. WireTypeOK'
    <2>1. got' \in Bytes
      BY <1>1 DEF Bytes
    <2>. QED BY <1>1, <1>2, <1>3, <2>1 DEF WireInv, WireTypeOK
  <1>5. Handled'
    BY <1>1 DEF WireInv, Handled
  <1>6. Framing'
    <2>1. \A all, cut, k : Written(all, cut, k)' <=> Written(all, cut, k)
      BY <1>1, <1>2 DEF Written
    <2>2. \A all, r : OnTheWay(all, r)' <=> OnTheWay(all, r)
      BY <1>1 DEF OnTheWay
    <2>. QED BY <1>1, <1>3, <2>1, <2>2 DEF WireInv, Framing
  <1>. QED BY <1>4, <1>5, <1>6 DEF WireInv

\* What is sent behind does not change what has been read.
LEMMA ReadLonger ==
  ASSUME NEW all \in Bytes, NEW e \in Bytes, NEW s \in Nat, NEW r \in Nat, r <= Len(all),
         got \in Bytes, ReadTo(all, s, r)
  PROVE  ReadTo(all \o e, s, r)
  <1> DEFINE a == all \o e
  <1>1. /\ a \in Bytes /\ \A i \in 1 .. Len(all) : a[i] = all[i]
        /\ Len(all) \in Nat /\ Len(got) \in Nat
    BY Concat DEF Bytes
  <1>2. \A at \in Nat : \A b \in Bytes : At(all, at, b) => At(a, at, b)
    BY AtBefore
  <1> HIDE DEF a
  <1>3. CASE field = "header" /\ got = <<>> /\ r = s
    BY <1>3 DEF ReadTo, a
  <1>4. CASE /\ field = "size" /\ Len(got) < 4 /\ r = s + 1 + Len(got)
             /\ header = all[s + 1] /\ At(all, s + 1, got)
    <2>1. s + 1 \in 1 .. Len(all) /\ s + 1 \in Nat
      BY <1>1, <1>4
    <2>2. header = a[s + 1] /\ At(a, s + 1, got)
      BY <1>1, <1>2, <1>4, <2>1
    <2>. QED BY <1>4, <2>2 DEF ReadTo, a
  <1>5. CASE /\ field = "payload" /\ Len(got) < size /\ r = s + 5 + Len(got)
             /\ header = all[s + 1] /\ size = NumberAt(all, s + 1) /\ At(all, s + 5, got)
    <2>1. /\ s + 1 \in 1 .. Len(all) /\ (s + 1) + 1 \in 1 .. Len(all)
          /\ (s + 1) + 2 \in 1 .. Len(all) /\ (s + 1) + 3 \in 1 .. Len(all)
          /\ (s + 1) + 4 \in 1 .. Len(all) /\ s + 5 \in Nat
      BY <1>1, <1>5
    <2>2. NumberAt(a, s + 1) = NumberAt(all, s + 1)
      BY <1>1, <2>1 DEF NumberAt
    <2>3. header = a[s + 1] /\ At(a, s + 5, got)
      BY <1>1, <1>2, <1>5, <2>1
    <2>. QED BY <1>5, <2>2, <2>3 DEF ReadTo, a
  <1>. QED BY <1>3, <1>4, <1>5 DEF ReadTo

\* Some bytes are sent, perhaps the last of a packet.
LEMMA SendWrapperInv ==
  ASSUME WireInv, OneSender, NEW t \in Threads, SendWrapper(t)
  PROVE  WireInv'
  <1>1. /\ UNCHANGED <<link, begun, packet, alive, field, got, header, size, tries, delivered,
                       unread>>
        /\ alive /\ unsent[t] # <<>> /\ Len(bytes) < SocketBuffer
    BY DEF SendWrapper, readerVars
  <1>2. PICK part, taken :
          /\ part = Head(unsent[t]) /\ taken = Min({Len(part), SocketBuffer - Len(bytes)})
          /\ bytes' = bytes \o SubSeq(part, 1, taken)
          /\ unsent' = [unsent EXCEPT ![t] = Left(unsent[t], taken)]
    BY DEF SendWrapper, Left
  <1>3. sent' = IF unsent'[t] = <<>> THEN Append(sent, packet[t]) ELSE sent
    BY DEF SendWrapper
  <1>4. Threads' = Threads /\ Sendable' = Sendable
    BY <1>1 DEF Threads, Sendable
  <1>5. Threads = {t}
    BY DEF OneSender, Threads, WireInv, WireTypeOK
  <1>6. /\ packet[t] \in Sendable /\ bytes \in Bytes /\ sent \in Seq(Sendable) /\ got \in Bytes
        /\ delivered \in Seq(Sendable)
    BY <1>1 DEF WireInv, WireTypeOK
  <1>7. PICK p : p = packet[t]
    OBVIOUS
  <1>8. WellFormed(p)
    BY <1>6, <1>7, SendableFormed DEF WireInv, WireTypeOK
  <1>9. PICK all \in Bytes, k \in Nat, r \in Nat : \E cut :
          /\ Written(all, cut, k) /\ OnTheWay(all, r)
          /\ IF tries = 0 THEN ReadTo(all, cut[Len(delivered)], r) ELSE bytes = <<>> /\ ~alive
    BY DEF WireInv, Framing
  <1>10. PICK cut :
          /\ Written(all, cut, k) /\ OnTheWay(all, r)
          /\ IF tries = 0 THEN ReadTo(all, cut[Len(delivered)], r) ELSE bytes = <<>> /\ ~alive
    BY <1>9
  <1>11. PICK n \in Nat : n = Len(sent)
    BY <1>6
  <1>12. /\ cut \in [0 .. n -> Nat] /\ cut[0] = 0
         /\ \A i \in 1 .. n : /\ cut[i] = cut[i - 1] + Len(Frame(sent[i]))
                              /\ At(all, cut[i - 1], Frame(sent[i]))
         /\ Len(all) = cut[n] + k
    BY <1>10, <1>11 DEF Written
  <1>13. /\ k < Len(Frame(p)) /\ unsent[t] = Rest(p, k)
         /\ \A i \in 1 .. k : all[cut[n] + i] = Frame(p)[i]
    BY <1>1, <1>7, <1>10, <1>11 DEF Written
  <1>14. /\ part \in Bytes /\ Len(part) > 0 /\ k + Len(part) <= Len(Frame(p))
         /\ \A i \in 1 .. Len(part) : part[i] = Frame(p)[k + i]
    <2>1. part = Head(Rest(p, k)) /\ k < Len(Frame(p))
      BY <1>2, <1>13
    <2>2. /\ Head(Rest(p, k)) \in Bytes /\ Len(Head(Rest(p, k))) > 0
          /\ k + Len(Head(Rest(p, k))) <= Len(Frame(p))
          /\ \A i \in 1 .. Len(Head(Rest(p, k))) : Head(Rest(p, k))[i] = Frame(p)[k + i]
      BY <1>8, <2>1, SendPart
    <2>. QED BY <2>1, <2>2
  <1>15. taken \in 1 .. Len(part)
    <2>1. PICK a \in Nat, b \in Nat : a = Len(part) /\ b = SocketBuffer - Len(bytes) /\ b > 0
      <3>1. Len(part) \in Nat /\ Len(bytes) \in Nat
        BY <1>6, <1>14 DEF Bytes
      <3>. QED BY <1>1, <3>1, SocketBufferAssumption
    <2>2. taken = Min({a, b})
      BY <1>2, <2>1
    <2>3. taken \in {a, b} /\ taken <= a
      <3>1. \E x \in {a, b} : \A y \in {a, b} : x <= y
        OBVIOUS
      <3>2. taken \in {a, b} /\ \A y \in {a, b} : taken <= y
        BY <2>2, <3>1 DEF Min
      <3>. QED BY <3>2
    <2>. QED BY <1>14, <2>1, <2>3
  <1>16. taken \in Nat /\ Len(part) \in Nat /\ taken \in 0 .. Len(part)
    BY <1>14, <1>15 DEF Bytes
  <1> DEFINE e == SubSeq(part, 1, taken)
             all2 == all \o e
  <1>17. /\ e \in Bytes /\ Len(e) = taken /\ \A i \in 1 .. taken : e[i] = part[i]
    BY <1>14, <1>16, Dropping
  <1>18. bytes' = bytes \o e
    BY <1>2
  <1> HIDE DEF e
  <1>19. /\ all2 \in Bytes /\ Len(all2) = Len(all) + taken /\ Len(all) \in Nat
         /\ At(all2, Len(all), e)
         /\ \A i \in 1 .. Len(all) : all2[i] = all[i]
         /\ \A i \in 1 .. taken : all2[Len(all) + i] = e[i]
         /\ \A at \in Nat : \A b \in Bytes : At(all, at, b) => At(all2, at, b)
    BY <1>17, Concat, AtBefore
  <1>20. \A s \in Nat : r <= Len(all) /\ ReadTo(all, s, r) => ReadTo(all2, s, r)
    BY <1>6, <1>17, ReadLonger
  <1> HIDE DEF all2
  <1>21. r + Len(bytes) = Len(all) /\ At(all, r, bytes) /\ Len(bytes) \in Nat
    BY <1>6, <1>10 DEF OnTheWay, Bytes
  <1>22. OnTheWay(all2, r)' /\ bytes' \in Bytes
    <2>1. bytes \o e \in Bytes /\ Len(bytes \o e) = Len(bytes) + Len(e)
      BY <1>6, <1>17, Concat
    <2>2. At(all2, r, bytes) /\ At(all2, r + Len(bytes), e)
      BY <1>6, <1>19, <1>21
    <2>3. At(all2, r, bytes \o e)
      BY <1>6, <1>17, <1>19, <2>2, AtConcat
    <2>4. r + Len(bytes \o e) = Len(all2)
      <3>1. Len(bytes \o e) = Len(bytes) + taken
        BY <1>17, <2>1
      <3>2. r + (Len(bytes) + taken) = Len(all) + taken
        BY <1>16, <1>19, <1>21
      <3>. QED BY <1>19, <3>1, <3>2
    <2>. QED BY <1>18, <2>1, <2>3, <2>4 DEF OnTheWay
  <1>23. unsent'[t] = IF k + taken = Len(Frame(p)) THEN <<>> ELSE Rest(p, k + taken)
    <2>1. unsent'[t] = Left(unsent[t], taken)
      <3>1. t \in DOMAIN unsent
        BY DEF WireInv, WireTypeOK
      <3>. QED BY <1>2, <3>1
    <2>2. taken \in 1 .. Len(Head(Rest(p, k)))
      BY <1>2, <1>13, <1>15
    <2>3. Left(Rest(p, k), taken) = IF k + taken = Len(Frame(p)) THEN <<>> ELSE Rest(p, k + taken)
      BY <1>8, <1>13, <2>2, SendRest
    <2>. QED BY <1>13, <2>1, <2>3
  <1>24. unsent' = [u \in Threads |-> unsent'[u]]
    BY <1>2 DEF WireInv, WireTypeOK
  <1>25. cut[n] \in Nat /\ k + taken \in Nat /\ k + taken <= Len(Frame(p)) /\ Len(Frame(p)) \in Nat
    <2>1. Frame(p) \in Bytes
      BY <1>8, FrameFields
    <2>2. Len(Frame(p)) \in Nat
      BY <2>1 DEF Bytes
    <2>. QED BY <1>12, <1>14, <1>15, <1>16, <2>2
  <1>26. \A i \in 1 .. k + taken : all2[cut[n] + i] = Frame(p)[i]
    <2>1. ASSUME NEW i \in 1 .. k + taken PROVE all2[cut[n] + i] = Frame(p)[i]
      <3>1. CASE i <= k
        <4>1. i \in 1 .. k /\ cut[n] + i \in 1 .. Len(all)
          BY <1>12, <1>25, <3>1
        <4>. QED BY <1>13, <1>19, <4>1
      <3>2. CASE i > k
        <4>1. /\ i - k \in 1 .. taken /\ i - k \in 1 .. Len(part) /\ k + (i - k) = i
              /\ Len(all) + (i - k) = cut[n] + i
          BY <1>12, <1>16, <1>25, <3>2
        <4>2. all2[Len(all) + (i - k)] = part[i - k]
          BY <1>17, <1>19, <4>1
        <4>3. part[i - k] = Frame(p)[k + (i - k)]
          BY <1>14, <4>1
        <4>. QED BY <4>1, <4>2, <4>3
      <3>. QED BY <3>1, <3>2
    <2>. QED BY <2>1
  <1>27. tries = 0 /\ tries' = 0 /\ Len(delivered) \in 0 .. n /\ Len(delivered) \in Nat
    <2>1. Len(delivered) \in Nat /\ Len(delivered) <= n
      BY <1>6, <1>11 DEF WireInv, Handled
    <2>. QED BY <1>1, <1>10, <1>11, <2>1
  <1>28. ReadTo(all2, cut[Len(delivered)], r)
    <2>1. cut[Len(delivered)] \in Nat
      BY <1>12, <1>27
    <2>2. r <= Len(all)
      BY <1>21
    <2>. QED BY <1>10, <1>20, <1>27, <2>1, <2>2
  <1>29. \A s : ReadTo(all2, s, r)' <=> ReadTo(all2, s, r)
    BY <1>1 DEF ReadTo
  <1>30. \A i \in 1 .. n : At(all2, cut[i - 1], Frame(sent[i]))
    <2>1. ASSUME NEW i \in 1 .. n PROVE At(all2, cut[i - 1], Frame(sent[i]))
      <3>1. cut[i - 1] \in Nat /\ sent[i] \in Sendable
        <4>1. i - 1 \in 0 .. n /\ i \in 1 .. Len(sent)
          BY <1>11
        <4>2. cut[i - 1] \in Nat
          BY <1>12, <4>1
        <4>3. sent[i] \in Sendable
          BY <1>6, <4>1
        <4>. QED BY <4>2, <4>3
      <3>2. Frame(sent[i]) \in Bytes
        BY <3>1, SendableFormed, FrameFields DEF WireInv, WireTypeOK
      <3>. QED BY <1>12, <1>19, <3>1, <3>2
    <2>. QED BY <2>1
  <1>31. CASE k + taken # Len(Frame(p))
    <2>1. unsent'[t] = Rest(p, k + taken) /\ Rest(p, k + taken) # <<>> /\ k + taken < Len(Frame(p))
      <3>1. k + taken < Len(Frame(p))
        BY <1>25, <1>31
      <3>. QED BY <1>8, <1>23, <1>25, <1>31, <3>1, SendPart
    <2>2. sent' = sent
      BY <1>3, <2>1
    <2>3. Written(all2, cut, k + taken)'
      <3>1. ASSUME NEW u \in Threads'
            PROVE  IF unsent'[u] = <<>> THEN k + taken = 0
                   ELSE /\ k + taken < Len(Frame(packet'[u]))
                        /\ unsent'[u] = Rest(packet'[u], k + taken)
                        /\ \A i \in 1 .. k + taken : all2[cut[n] + i] = Frame(packet'[u])[i]
        <4>1. u = t /\ packet'[t] = p
          BY <1>1, <1>4, <1>5, <1>7
        <4>. QED BY <1>26, <2>1, <4>1
      <3>2. Len(all2) = cut[n] + (k + taken)
        BY <1>12, <1>16, <1>19, <1>25
      <3>. QED BY <1>11, <1>12, <1>30, <2>2, <3>1, <3>2 DEF Written
    <2>4. WireTypeOK'
      <3>1. \A u \in Threads : packet'[u] \in Sendable
        BY <1>1, <1>5, <1>6
      <3>. QED BY <1>1, <1>4, <1>22, <1>24, <2>2, <3>1 DEF WireInv, WireTypeOK
    <2>5. Handled'
      BY <1>1, <2>2 DEF WireInv, Handled
    <2>6. Framing'
      BY <1>1, <1>19, <1>22, <1>25, <1>27, <1>28, <1>29, <2>3 DEF Framing
    <2>. QED BY <2>4, <2>5, <2>6 DEF WireInv
  <1>32. CASE k + taken = Len(Frame(p))
    <2> DEFINE cut2 == [i \in 0 .. n + 1 |-> IF i <= n THEN cut[i] ELSE Len(all2)]
    <2>1. unsent'[t] = <<>> /\ sent' = Append(sent, p)
      BY <1>3, <1>7, <1>23, <1>32
    <2>2. /\ sent' \in Seq(Sendable) /\ Len(sent') = n + 1 /\ sent'[n + 1] = p
          /\ \A i \in 1 .. n : sent'[i] = sent[i]
      BY <1>6, <1>7, <1>11, <2>1
    <2>3. Len(all2) \in Nat /\ Len(all2) = cut[n] + Len(Frame(p))
      <3>1. Len(all2) = (cut[n] + k) + taken
        BY <1>12, <1>19
      <3>2. (cut[n] + k) + taken = cut[n] + (k + taken)
        BY <1>16, <1>25
      <3>. QED BY <1>25, <1>32, <3>1, <3>2
    <2>4. /\ cut2 \in [0 .. n + 1 -> Nat] /\ cut2[n + 1] = Len(all2)
          /\ \A i \in 0 .. n : cut2[i] = cut[i]
      BY <1>12, <2>3
    <2> HIDE DEF cut2
    <2>5. ASSUME NEW i \in 1 .. n + 1
          PROVE  /\ cut2[i] = cut2[i - 1] + Len(Frame(sent'[i]))
                 /\ At(all2, cut2[i - 1], Frame(sent'[i]))
      <3>1. CASE i <= n
        <4>1. i \in 1 .. n /\ i \in 0 .. n /\ i - 1 \in 0 .. n
          BY <3>1
        <4>. QED BY <1>12, <1>30, <2>2, <2>4, <4>1
      <3>2. CASE i = n + 1
        <4>1. i - 1 = n /\ n \in 0 .. n
          BY <3>2
        <4>2. cut2[i - 1] = cut[n] /\ sent'[i] = p /\ cut2[i] = Len(all2)
          BY <2>2, <2>4, <3>2, <4>1
        <4>3. At(all2, cut[n], Frame(p))
          BY <1>26, <1>32, <2>3 DEF At
        <4>. QED BY <2>3, <4>2, <4>3
      <3>. QED BY <3>1, <3>2
    <2>6. Written(all2, cut2, 0)'
      <3>1. ASSUME NEW u \in Threads' PROVE unsent'[u] = <<>>
        BY <1>4, <1>5, <2>1
      <3>2. cut2[0] = 0 /\ Len(all2) = cut2[n + 1] + 0
        BY <1>12, <2>3, <2>4
      <3>. QED BY <2>2, <2>4, <2>5, <3>1, <3>2 DEF Written
    <2>7. WireTypeOK'
      <3>1. \A u \in Threads : packet'[u] \in Sendable
        BY <1>1, <1>5, <1>6
      <3>. QED BY <1>1, <1>4, <1>22, <1>24, <2>2, <3>1 DEF WireInv, WireTypeOK
    <2>8. Handled'
      <3>1. Len(delivered) <= n + 1
        BY <1>27
      <3>2. ASSUME NEW i \in 1 .. Len(delivered) PROVE delivered[i] = sent'[i]
        <4>1. i \in 1 .. n
          BY <1>27
        <4>2. delivered[i] = sent[i]
          BY DEF WireInv, Handled
        <4>. QED BY <2>2, <4>1, <4>2
      <3>. QED BY <1>1, <2>2, <3>1, <3>2 DEF WireInv, Handled
    <2>9. ReadTo(all2, cut2[Len(delivered)], r)'
      BY <1>1, <1>27, <1>28, <1>29, <2>4
    <2>10. 0 \in Nat
      OBVIOUS
    <2>11. Framing'
      BY <1>1, <1>19, <1>22, <1>27, <2>6, <2>9, <2>10 DEF Framing
    <2>. QED BY <2>7, <2>8, <2>11 DEF WireInv
  <1>. QED BY <1>31, <1>32

\* After cut[m] comes a frame, perhaps not all of it yet; all of it only if it is that of
\* the next packet sent.
LEMMA Current ==
  ASSUME WireTypeOK, OneSender, NEW all \in Bytes, NEW k \in Nat, NEW cut, Written(all, cut, k),
         NEW m \in 0 .. Len(sent), cut[m] \in Nat, cut[m] < Len(all)
  PROVE  \E p \in Sendable :
           /\ \A i \in 1 .. Len(Frame(p)) :
                cut[m] + i <= Len(all) => all[cut[m] + i] = Frame(p)[i]
           /\ cut[m] + Len(Frame(p)) <= Len(all) =>
                m < Len(sent) /\ sent[m + 1] = p /\ cut[m + 1] = cut[m] + Len(Frame(p))
  <1>0. PICK s \in Nat : s = cut[m]
    OBVIOUS
  <1>1. PICK n \in Nat : n = Len(sent)
    BY DEF WireTypeOK
  <1>2. /\ cut \in [0 .. n -> Nat]
        /\ \A i \in 1 .. n : /\ cut[i] = cut[i - 1] + Len(Frame(sent[i]))
                             /\ At(all, cut[i - 1], Frame(sent[i]))
        /\ Len(all) = cut[n] + k
    BY <1>1 DEF Written
  <1>3. CASE m < n
    <2>1. m + 1 \in 1 .. n /\ (m + 1) - 1 = m
      BY <1>1, <1>3
    <2>2. PICK p : p = sent[m + 1]
      OBVIOUS
    <2>3. p \in Sendable
      BY <1>1, <2>1, <2>2 DEF WireTypeOK
    <2>4. cut[m + 1] = s + Len(Frame(p)) /\ At(all, s, Frame(p))
      BY <1>0, <1>2, <2>1, <2>2
    <2>5. \A i \in 1 .. Len(Frame(p)) : all[s + i] = Frame(p)[i]
      BY <2>4 DEF At
    <2>. QED BY <1>0, <1>1, <1>3, <2>2, <2>3, <2>4, <2>5
  <1>4. CASE m = n
    <2>1. Len(all) = s + k /\ k > 0
      BY <1>0, <1>2, <1>4
    <2>2. PICK t : Threads = {t}
      BY DEF OneSender, Threads, WireTypeOK
    <2>3. PICK p : p = packet[t]
      OBVIOUS
    <2>4. /\ unsent[t] # <<>> /\ k < Len(Frame(p))
          /\ \A i \in 1 .. k : all[s + i] = Frame(p)[i]
      <3>1. IF unsent[t] = <<>> THEN k = 0
            ELSE /\ k < Len(Frame(packet[t]))
                 /\ unsent[t] = Rest(packet[t], k)
                 /\ \A i \in 1 .. k : all[cut[Len(sent)] + i] = Frame(packet[t])[i]
        BY <2>2 DEF Written
      <3>2. cut[Len(sent)] = s
        BY <1>0, <1>1, <1>4
      <3>. QED BY <2>1, <2>3, <3>1, <3>2
    <2>5. p \in Sendable
      BY <2>2, <2>3, <2>4 DEF WireTypeOK
    <2>6. Len(Frame(p)) \in Nat
      <3>1. Frame(p) \in Bytes
        BY <2>5, SendableFormed, FrameFields DEF WireTypeOK
      <3>. QED BY <3>1 DEF Bytes
    <2>7. ~(s + Len(Frame(p)) <= Len(all))
      BY <2>1, <2>4, <2>6
    <2>8. ASSUME NEW i \in 1 .. Len(Frame(p)), s + i <= Len(all) PROVE all[s + i] = Frame(p)[i]
      <3>1. i \in 1 .. k
        BY <2>1, <2>6, <2>8
      <3>. QED BY <2>4, <3>1
    <2>. QED BY <1>0, <2>5, <2>7, <2>8
  <1>. QED BY <1>1, <1>3, <1>4

\* The type of a header is that of the packets that have it.
LEMMA TypeKnown ==
  ASSUME WireTypeOK, NEW p \in Sendable
  PROVE  TypeOf(p.header) = p.type
  <1> DEFINE known == {q \in Sendable : q.header = p.header}
  <1>1. TypeOf(p.header) = IF known = {} THEN "unknown" ELSE (CHOOSE q \in known : TRUE).type
    BY DEF TypeOf, Sendable
  <1>2. p \in known
    OBVIOUS
  <1>3. (CHOOSE q \in known : TRUE) \in known
    <2> HIDE DEF known
    <2>. QED BY <1>2
  <1>4. PICK q \in known : q = CHOOSE qq \in known : TRUE
    BY <1>3
  <1>5. q.type = p.type
    BY <1>4, SendableFormed DEF WireTypeOK
  <1> HIDE DEF known
  <1>. QED BY <1>1, <1>2, <1>4, <1>5

\* The fields of a frame that begins at s have been read, value the last.
Complete(all, s, value) ==
    /\ s + 5 <= Len(all)
    /\ header = all[s + 1]
    /\ Len(value) = NumberAt(all, s + 1)
    /\ At(all, s + 5, value)

\* A payload that has been read completely is that of the next packet sent, and is taken
\* apart as it was put together.
LEMMA DeliverRight ==
  ASSUME WireInv, OneSender, NEW all \in Bytes, NEW k \in Nat, NEW cut, Written(all, cut, k),
         cut[Len(delivered)] \in Nat, NEW value \in Bytes,
         Complete(all, cut[Len(delivered)], value), Deliver(value)
  PROVE  /\ Len(delivered) < Len(sent)
         /\ delivered' = Append(delivered, sent[Len(delivered) + 1])
         /\ cut[Len(delivered) + 1] = cut[Len(delivered)] + 5 + Len(value)
         /\ unread' = 0
  <1>0. PICK s \in Nat : s = cut[Len(delivered)]
    OBVIOUS
  <1>1. PICK m \in Nat : m = Len(delivered)
    BY DEF WireInv, WireTypeOK
  <1>2. /\ s = cut[m] /\ s + 5 <= Len(all) /\ header = all[s + 1]
        /\ Len(value) = NumberAt(all, s + 1) /\ At(all, s + 5, value)
    BY <1>0, <1>1 DEF Complete
  <1>3. Len(sent) \in Nat /\ m <= Len(sent) /\ WireTypeOK /\ unread = 0
    BY <1>1 DEF WireInv, WireTypeOK, Handled
  <1>4. Len(all) \in Nat /\ Len(value) \in Nat
    BY DEF Bytes
  <1>5. PICK p \in Sendable :
          /\ \A i \in 1 .. Len(Frame(p)) : s + i <= Len(all) => all[s + i] = Frame(p)[i]
          /\ s + Len(Frame(p)) <= Len(all) =>
               m < Len(sent) /\ sent[m + 1] = p /\ cut[m + 1] = s + Len(Frame(p))
    <2>1. m \in 0 .. Len(sent) /\ s = cut[m] /\ cut[m] \in Nat /\ cut[m] < Len(all)
      BY <1>3, <1>4, <1>2
    <2>2. \E p \in Sendable :
            /\ \A i \in 1 .. Len(Frame(p)) :
                 cut[m] + i <= Len(all) => all[cut[m] + i] = Frame(p)[i]
            /\ cut[m] + Len(Frame(p)) <= Len(all) =>
                 m < Len(sent) /\ sent[m + 1] = p /\ cut[m + 1] = cut[m] + Len(Frame(p))
      BY <1>3, <2>1, Current
    <2>. QED BY <2>1, <2>2
  <1>6. WellFormed(p)
    BY <1>3, SendableFormed DEF WireTypeOK
  <1>7. PICK b : b = Body(p)
    OBVIOUS
  <1>8. /\ Frame(p) \in Bytes /\ Len(Frame(p)) = 5 + Len(b) /\ Len(b) \in Nat
        /\ Frame(p)[1] = p.header
        /\ \A i \in 1 .. 4 : Frame(p)[1 + i] = Uint32(Len(b))[i]
        /\ \A i \in 1 .. Len(b) : Frame(p)[5 + i] = b[i]
    BY <1>6, <1>7, FrameFields
  <1>9. /\ b \in Bytes /\ Taken(p.type, b) = p.body /\ TakenUpTo(p.type, b) = Len(b)
        /\ p = [header |-> p.header, type |-> p.type, body |-> p.body]
    BY <1>6, <1>7, RoundTrip
  <1>10. header = p.header
    <2>1. 1 \in 1 .. Len(Frame(p)) /\ s + 1 <= Len(all)
      <3>1. PICK n \in Nat : Len(Frame(p)) = 5 + n
        BY <1>8
      <3>2. 1 \in 1 .. 5 + n
        OBVIOUS
      <3>3. s + 1 <= Len(all)
        BY <1>2, <1>4
      <3>. QED BY <3>1, <3>2, <3>3
    <2>2. all[s + 1] = Frame(p)[1]
      BY <1>5, <2>1
    <2>. QED BY <1>2, <1>8, <2>2
  <1>11. Len(value) = Len(b)
    <2>1. \A i \in 1 .. 4 : all[s + (1 + i)] = Uint32(Len(b))[i]
      <3>1. ASSUME NEW i \in 1 .. 4
            PROVE  1 + i \in 1 .. Len(Frame(p)) /\ s + (1 + i) <= Len(all)
        <4>1. 1 + i \in Nat /\ 1 <= 1 + i /\ 1 + i <= 5 /\ s + (1 + i) <= s + 5
          OBVIOUS
        <4>2. 1 + i <= Len(Frame(p)) /\ Len(Frame(p)) \in Nat
          BY <1>8, <4>1
        <4>3. s + (1 + i) <= Len(all)
          BY <1>4, <1>2, <4>1
        <4>. QED BY <4>1, <4>2, <4>3
      <3>. QED BY <1>5, <1>8, <3>1
    <2>2. /\ (s + 1) + 1 = s + (1 + 1) /\ (s + 1) + 2 = s + (1 + 2)
          /\ (s + 1) + 3 = s + (1 + 3) /\ (s + 1) + 4 = s + (1 + 4)
      OBVIOUS
    <2>3. /\ all[(s + 1) + 1] = Uint32(Len(b))[1] /\ all[(s + 1) + 2] = Uint32(Len(b))[2]
          /\ all[(s + 1) + 3] = Uint32(Len(b))[3] /\ all[(s + 1) + 4] = Uint32(Len(b))[4]
      <3>1. 1 \in 1 .. 4 /\ 2 \in 1 .. 4 /\ 3 \in 1 .. 4 /\ 4 \in 1 .. 4
        OBVIOUS
      <3>2. /\ all[s + (1 + 1)] = Uint32(Len(b))[1] /\ all[s + (1 + 2)] = Uint32(Len(b))[2]
            /\ all[s + (1 + 3)] = Uint32(Len(b))[3] /\ all[s + (1 + 4)] = Uint32(Len(b))[4]
        BY <2>1, <3>1
      <3>. QED BY <2>2, <3>2
    <2>4. NumberAt(all, s + 1) = ValueOf(Uint32(Len(b)))
      BY <2>3 DEF NumberAt, ValueOf
    <2>. QED BY <1>8, <1>2, <2>4, Uint32Value
  <1>12. PICK n \in Nat : n = Len(b) /\ Len(Frame(p)) = 5 + n /\ (s + 5) + n <= Len(all)
    <2>1. (s + 5) + Len(b) <= Len(all)
      BY <1>11, <1>2 DEF At
    <2>. QED BY <1>8, <2>1
  <1>13. value = b
    <2>1. ASSUME NEW i \in 1 .. Len(b) PROVE value[i] = b[i]
      <3>1. 5 + i \in 1 .. Len(Frame(p)) /\ s + (5 + i) <= Len(all) /\ s + (5 + i) = (s + 5) + i
        <4>1. i \in Nat /\ 1 <= i /\ i <= n
          <5>1. i \in 1 .. n
            BY <1>12
          <5>. QED BY <5>1
        <4>2. 5 + i \in Nat /\ 1 <= 5 + i /\ 5 + i <= Len(Frame(p))
          BY <1>12, <4>1
        <4>3. 5 + i \in 1 .. Len(Frame(p))
          BY <1>12, <4>2
        <4>4. s + (5 + i) = (s + 5) + i
          BY <4>1
        <4>5. (s + 5) + i <= Len(all)
          <5>1. (s + 5) + i <= (s + 5) + n /\ (s + 5) + i \in Nat /\ (s + 5) + n \in Nat
            BY <4>1
          <5>. QED BY <1>4, <1>12, <5>1
        <4>. QED BY <4>3, <4>4, <4>5
      <3>2. all[s + (5 + i)] = b[i]
        BY <1>5, <1>8, <3>1
      <3>3. all[(s + 5) + i] = value[i]
        BY <1>11, <1>2 DEF At
      <3>. QED BY <3>1, <3>2, <3>3
    <2>. QED BY <1>9, <1>11, <2>1, SeqEqual DEF Bytes
  <1>14. s + Len(Frame(p)) <= Len(all) /\ s + Len(Frame(p)) = s + 5 + Len(value)
    <2>1. s + (5 + n) = s + 5 + n
      OBVIOUS
    <2>. QED BY <1>11, <1>12, <2>1
  <1>15. m < Len(sent) /\ sent[m + 1] = p /\ cut[m + 1] = s + 5 + Len(value)
    BY <1>5, <1>14
  <1>16. TypeOf(p.header) = p.type
    BY <1>3, TypeKnown
  <1>17. /\ delivered' = Append(delivered, p)
         /\ unread' = 0 + Len(b) - Len(b)
    BY <1>3, <1>9, <1>10, <1>13, <1>16 DEF Deliver
  <1>. QED BY <1>0, <1>1, <1>8, <1>15, <1>17

\* A payload that is not empty is read next.
LEMMA PayloadFollows ==
  ASSUME NEW value, field = "size", ValueOf(value) \in Nat, ValueOf(value) > 0, NextField(value)
  PROVE  /\ size' = ValueOf(value) /\ field' = "payload"
         /\ UNCHANGED <<header, tries, delivered, unread>>
  <1>1. field # "header"
    OBVIOUS
  <1>. QED BY <1>1 DEF NextField

\* Some bytes are received, perhaps the last of a field or of a packet.
LEMMA ReceiveWrapperInv ==
  ASSUME WireInv, OneSender, ReceiveWrapper
  PROVE  WireInv'
  <1>1. UNCHANGED <<link, begun, packet, unsent, alive, sent>> /\ ~Closed
    BY DEF ReceiveWrapper, senderVars
  <1>2. PICK n \in 1 .. Min({FieldSize[field] - Len(got), Len(bytes)}) :
          \E value \in {got \o SubSeq(bytes, 1, n)} :
            /\ bytes' = SubSeq(bytes, n + 1, Len(bytes))
            /\ IF Len(value) = FieldSize[field]
               THEN got' = <<>> /\ NextField(value)
               ELSE got' = value /\ UNCHANGED <<field, header, size, tries, delivered, unread>>
    BY DEF ReceiveWrapper
  <1>3. PICK value :
          /\ value = got \o SubSeq(bytes, 1, n)
          /\ bytes' = SubSeq(bytes, n + 1, Len(bytes))
          /\ IF Len(value) = FieldSize[field]
             THEN got' = <<>> /\ NextField(value)
             ELSE got' = value /\ UNCHANGED <<field, header, size, tries, delivered, unread>>
    BY <1>2
  <1>4. Threads' = Threads /\ Sendable' = Sendable
    BY <1>1 DEF Threads, Sendable
  <1>5. /\ bytes \in Bytes /\ got \in Bytes /\ Len(bytes) \in Nat /\ Len(got) \in Nat
        /\ size \in Nat /\ header \in Nat /\ field \in {"header", "size", "payload"}
    BY DEF WireInv, WireTypeOK, Bytes
  <1>6. PICK want \in Int : want = FieldSize[field] - Len(got)
    BY <1>5 DEF FieldSize
  <1>7. n \in Nat /\ n > 0 /\ n <= want /\ n <= Len(bytes)
    <2>1. PICK b \in Nat : b = Len(bytes)
      BY <1>5
    <2>2. PICK least : least = Min({want, b})
      OBVIOUS
    <2>3. least \in {want, b} /\ least <= want /\ least <= b
      <3>1. \E x \in {want, b} : \A y \in {want, b} : x <= y
        OBVIOUS
      <3>2. least \in {want, b} /\ \A y \in {want, b} : least <= y
        BY <2>2, <3>1 DEF Min
      <3>. QED BY <3>2
    <2>4. n \in 1 .. least
      BY <1>3, <1>6, <2>1, <2>2
    <2>5. least \in Int
      BY <2>3
    <2>6. n \in Nat /\ n > 0 /\ n <= least
      BY <2>4, <2>5
    <2>. QED BY <2>1, <2>3, <2>5, <2>6
  <1>8. n \in 0 .. Len(bytes)
    BY <1>5, <1>7
  <1> DEFINE e == SubSeq(bytes, 1, n)
  <1>9. /\ e \in Bytes /\ Len(e) = n /\ \A i \in 1 .. n : e[i] = bytes[i]
        /\ bytes' \in Bytes /\ Len(bytes') = Len(bytes) - n
        /\ \A i \in 1 .. Len(bytes) - n : bytes'[i] = bytes[n + i]
    <2>1. bytes' = Drop(bytes, n)
      BY <1>3 DEF Drop
    <2>. QED BY <1>5, <1>8, <2>1, Dropping
  <1>10. value = got \o e
    BY <1>3
  <1> HIDE DEF e
  <1>11. value \in Bytes /\ Len(value) = Len(got) + n
    BY <1>5, <1>9, <1>10, Concat
  <1>12. tries = 0
    <2>1. bytes # <<>>
      BY <1>7
    <2>. QED BY <2>1 DEF WireInv, Framing
  <1>13. PICK all \in Bytes, k \in Nat, r \in Nat : \E cut :
          Written(all, cut, k) /\ OnTheWay(all, r) /\ ReadTo(all, cut[Len(delivered)], r)
    BY <1>12 DEF WireInv, Framing
  <1>14. PICK cut :
          Written(all, cut, k) /\ OnTheWay(all, r) /\ ReadTo(all, cut[Len(delivered)], r)
    BY <1>13
  <1>15. PICK m \in Nat : m = Len(delivered) /\ m <= Len(sent)
    BY DEF WireInv, WireTypeOK, Handled
  <1>16. cut[m] \in Nat
    <2>1. m \in 0 .. Len(sent)
      BY <1>15 DEF WireInv, WireTypeOK
    <2>. QED BY <1>14, <2>1 DEF Written
  <1>17. PICK s \in Nat : s = cut[m]
    BY <1>16
  <1>18. ReadTo(all, s, r)
    BY <1>14, <1>15, <1>17
  <1>19. r + Len(bytes) = Len(all) /\ At(all, r, bytes) /\ Len(all) \in Nat
    BY <1>14 DEF OnTheWay, Bytes
  <1>20. At(all, r, e)
    <2>1. \A i \in 1 .. n : i \in 1 .. Len(bytes)
      BY <1>5, <1>7
    <2>2. \A i \in 1 .. Len(e) : all[r + i] = e[i]
      BY <1>9, <1>19, <2>1 DEF At
    <2>3. r + Len(e) <= Len(all)
      BY <1>5, <1>7, <1>9, <1>19
    <2>. QED BY <2>2, <2>3 DEF At
  <1>21. \A o \in Nat : r = o + Len(got) /\ At(all, o, got) => At(all, o, value)
    BY <1>5, <1>9, <1>10, <1>20, AtConcat
  <1>22. OnTheWay(all, r + n)'
    <2>1. (r + n) + Len(bytes') = Len(all)
      <3>1. PICK x \in Nat, y \in Nat, z \in Nat :
              x = Len(bytes) /\ y = Len(bytes') /\ z = Len(all)
        <4>1. Len(bytes') \in Nat
          BY <1>9 DEF Bytes
        <4>. QED BY <1>5, <1>19, <4>1
      <3>2. y = x - n /\ r + x = z
        BY <1>9, <1>19, <3>1
      <3>3. (r + n) + y = z
        BY <1>7, <3>2
      <3>. QED BY <3>1, <3>3
    <2>2. ASSUME NEW i \in 1 .. Len(bytes') PROVE all[(r + n) + i] = bytes'[i]
      <3>1. i \in 1 .. Len(bytes) - n /\ n + i \in 1 .. Len(bytes) /\ r + (n + i) = (r + n) + i
        BY <1>5, <1>7, <1>9
      <3>2. all[r + (n + i)] = bytes[n + i]
        BY <1>19, <3>1 DEF At
      <3>. QED BY <1>9, <3>1, <3>2
    <2>3. (r + n) + Len(bytes') <= Len(all)
      BY <1>19, <2>1
    <2>. QED BY <2>1, <2>2, <2>3 DEF OnTheWay, At
  <1>23. Written(all, cut, k)'
    BY <1>1, <1>4, <1>14 DEF Written
  <1>24. r + n \in Nat /\ <<>> \in Bytes /\ Len(<<>>) = 0 /\ r + n <= Len(all)
    <2>1. r + n <= Len(all)
      BY <1>5, <1>7, <1>19
    <2>. QED BY <1>7, <2>1 DEF Bytes
  <1>25. ASSUME UNCHANGED <<tries, delivered, unread>>, got' \in Bytes, header' \in Nat,
                size' \in Nat, field' \in {"header", "size", "payload"}, ReadTo(all, s, r + n)'
         PROVE  WireInv'
    <2>1. WireTypeOK'
      BY <1>1, <1>4, <1>9, <1>25 DEF WireInv, WireTypeOK
    <2>2. Handled'
      BY <1>1, <1>25 DEF WireInv, Handled
    <2>3. ReadTo(all, cut[Len(delivered)], r + n)'
      BY <1>15, <1>17, <1>25
    <2>4. Framing'
      BY <1>12, <1>22, <1>23, <1>24, <1>25, <2>3 DEF Framing
    <2>. QED BY <2>1, <2>2, <2>4 DEF WireInv
  <1>26. ASSUME NEW payload \in Bytes, Deliver(payload), Complete(all, s, payload),
                r + n = s + 5 + Len(payload), got' = <<>>
         PROVE  WireInv'
    <2>1. /\ m < Len(sent) /\ delivered' = Append(delivered, sent[m + 1])
          /\ cut[m + 1] = s + 5 + Len(payload) /\ unread' = 0
      <3>1. Complete(all, cut[Len(delivered)], payload) /\ cut[Len(delivered)] \in Nat
        BY <1>15, <1>16, <1>17, <1>26
      <3>2. /\ Len(delivered) < Len(sent)
            /\ delivered' = Append(delivered, sent[Len(delivered) + 1])
            /\ cut[Len(delivered) + 1] = cut[Len(delivered)] + 5 + Len(payload)
            /\ unread' = 0
        BY <1>14, <1>26, <3>1, DeliverRight
      <3>. QED BY <1>15, <1>17, <3>2
    <2>2. field' = "header" /\ tries' = 0 /\ header' = header /\ size' = size
      BY <1>26 DEF Deliver
    <2>3. PICK p : p = sent[m + 1]
      OBVIOUS
    <2>4. p \in Sendable /\ delivered \in Seq(Sendable) /\ sent \in Seq(Sendable)
      <3>1. sent \in Seq(Sendable) /\ delivered \in Seq(Sendable)
        BY DEF WireInv, WireTypeOK
      <3>2. m + 1 \in 1 .. Len(sent)
        BY <2>1, <3>1
      <3>. QED BY <2>3, <3>1, <3>2
    <2>5. /\ delivered' \in Seq(Sendable) /\ Len(delivered') = m + 1 /\ delivered'[m + 1] = p
          /\ \A i \in 1 .. m : delivered'[i] = delivered[i]
      BY <1>15, <2>1, <2>3, <2>4
    <2>6. WireTypeOK'
      <3>1. tries' \in 0 .. Attempts
        BY <2>2 DEF Attempts
      <3>. QED BY <1>1, <1>4, <1>5, <1>9, <1>24, <1>26, <2>2, <2>5, <3>1 DEF WireInv, WireTypeOK
    <2>7. Handled'
      <3>1. m + 1 <= Len(sent)
        BY <2>1, <2>4
      <3>2. ASSUME NEW i \in 1 .. m + 1 PROVE delivered'[i] = sent[i]
        <4>1. i \in 1 .. m \/ i = m + 1
          OBVIOUS
        <4>2. \A j \in 1 .. m : delivered[j] = sent[j]
          BY <1>15 DEF WireInv, Handled
        <4>. QED BY <2>3, <2>5, <4>1, <4>2
      <3>. QED BY <1>1, <2>1, <2>5, <3>1, <3>2 DEF Handled
    <2>8. ReadTo(all, cut[Len(delivered)], r + n)'
      BY <1>26, <2>1, <2>2, <2>5 DEF ReadTo
    <2>9. Framing'
      BY <1>22, <1>23, <1>24, <2>2, <2>8 DEF Framing
    <2>. QED BY <2>6, <2>7, <2>9 DEF WireInv
  <1>27. CASE field = "header"
    <2>1. FieldSize[field] = 1 /\ got = <<>> /\ r = s
      BY <1>18, <1>27 DEF ReadTo, FieldSize
    <2>2. n = 1 /\ Len(value) = 1 /\ Len(got) = 0
      BY <1>6, <1>7, <1>11, <2>1
    <2>3. /\ got' = <<>> /\ header' = value[1] /\ field' = "size"
          /\ UNCHANGED <<size, tries, delivered, unread>>
      BY <1>3, <1>27, <2>1, <2>2 DEF NextField
    <2>4. value[1] = all[s + 1] /\ value[1] \in Nat
      <3>1. At(all, s, value)
        <4>1. r = s + Len(got) /\ At(all, s, got)
          BY <1>19, <2>1, <2>2 DEF At
        <4>. QED BY <1>21, <4>1
      <3>. QED BY <1>11, <2>2, <3>1 DEF At, Bytes
    <2>5. ReadTo(all, s, r + n)'
      <3>1. r + n = s + 1 + 0 /\ At(all, s + 1, <<>>)
        BY <1>19, <1>24, <2>1, <2>2 DEF At
      <3>. QED BY <1>24, <2>3, <2>4, <3>1 DEF ReadTo
    <2>. QED BY <1>5, <1>24, <1>25, <2>3, <2>4, <2>5
  <1>28. CASE field = "size"
    <2>1. /\ FieldSize[field] = 4 /\ Len(got) < 4 /\ r = s + 1 + Len(got)
          /\ header = all[s + 1] /\ At(all, s + 1, got)
      BY <1>18, <1>28 DEF ReadTo, FieldSize
    <2>2. At(all, s + 1, value)
      <3>1. s + 1 \in Nat /\ r = (s + 1) + Len(got)
        BY <1>5, <2>1
      <3>. QED BY <1>21, <2>1, <3>1
    <2>3. Len(value) <= 4 /\ r + n = s + 1 + Len(value)
      BY <1>5, <1>6, <1>7, <1>11, <2>1
    <2>4. CASE Len(value) # 4
      <3>1. got' = value /\ UNCHANGED <<field, header, size, tries, delivered, unread>>
        BY <1>3, <2>1, <2>4
      <3>2. Len(value) < 4
        BY <1>5, <1>7, <1>11, <2>3, <2>4
      <3>3. ReadTo(all, s, r + n)'
        BY <1>28, <2>1, <2>2, <2>3, <3>1, <3>2 DEF ReadTo
      <3>. QED BY <1>5, <1>11, <1>25, <3>1, <3>3
    <2>5. CASE Len(value) = 4
      <3>1. got' = <<>> /\ NextField(value)
        BY <1>3, <2>1, <2>5
      <3>2. ValueOf(value) = NumberAt(all, s + 1) /\ ValueOf(value) \in Nat
        <4>1. 1 \in 1 .. 4 /\ 2 \in 1 .. 4 /\ 3 \in 1 .. 4 /\ 4 \in 1 .. 4
          OBVIOUS
        <4>2. PICK v1 \in Nat, v2 \in Nat, v3 \in Nat, v4 \in Nat :
                /\ value[1] = v1 /\ value[2] = v2 /\ value[3] = v3 /\ value[4] = v4
          <5>1. \A i \in 1 .. Len(value) : value[i] \in Nat
            <6>1. value \in Seq(Nat)
              BY <1>11 DEF Bytes
            <6>. QED BY <6>1, ElementOfSeq
          <5>2. \A i \in 1 .. 4 : value[i] \in Nat
            BY <2>5, <5>1
          <5>. QED BY <4>1, <5>2
        <4>3. /\ value[1] = all[(s + 1) + 1] /\ value[2] = all[(s + 1) + 2]
              /\ value[3] = all[(s + 1) + 3] /\ value[4] = all[(s + 1) + 4]
          BY <2>2, <2>5, <4>1 DEF At
        <4>4. ValueOf(value) = NumberAt(all, s + 1)
          BY <4>3 DEF ValueOf, NumberAt
        <4>5. ValueOf(value) \in Nat
          <5>1. ValueOf(value) = v1 + 256 * v2 + 65536 * v3 + 16777216 * v4
            BY <4>2 DEF ValueOf
          <5>2. v1 + 256 * v2 + 65536 * v3 + 16777216 * v4 \in Nat
            BY SMT
          <5>. QED BY <5>1, <5>2
        <4>. QED BY <4>4, <4>5
      <3>3. r + n = s + 5
        BY <2>3, <2>5
      <3>4. CASE ValueOf(value) > 0
        <4>1. /\ size' = ValueOf(value) /\ field' = "payload"
              /\ UNCHANGED <<header, tries, delivered, unread>>
          BY <1>28, <3>1, <3>2, <3>4, PayloadFollows
        <4>2. ReadTo(all, s, r + n)'
          <5>1. s + 5 = s + 5 + 0 /\ At(all, s + 5, <<>>)
            BY <1>19, <1>24, <3>3 DEF At
          <5>. QED BY <1>24, <2>1, <3>1, <3>2, <3>3, <3>4, <4>1, <5>1 DEF ReadTo
        <4>. QED BY <1>5, <1>24, <1>25, <3>1, <3>2, <4>1, <4>2
      <3>5. CASE ValueOf(value) = 0
        <4>1. Deliver(<<>>)
          BY <1>28, <3>1, <3>5 DEF NextField
        <4>2. Complete(all, s, <<>>)
          <5>1. s + 5 <= Len(all) /\ At(all, s + 5, <<>>)
            BY <1>19, <1>24, <3>3 DEF At
          <5>. QED BY <1>24, <2>1, <3>2, <3>5, <5>1 DEF Complete
        <4>3. r + n = s + 5 + Len(<<>>)
          BY <1>24, <3>3
        <4>. QED BY <1>24, <1>26, <3>1, <4>1, <4>2, <4>3
      <3>. QED BY <3>2, <3>4, <3>5
    <2>. QED BY <2>4, <2>5
  <1>29. CASE field = "payload"
    <2>1. /\ FieldSize[field] = size /\ Len(got) < size /\ r = s + 5 + Len(got)
          /\ header = all[s + 1] /\ size = NumberAt(all, s + 1) /\ At(all, s + 5, got)
      BY <1>18, <1>29 DEF ReadTo, FieldSize
    <2>2. At(all, s + 5, value)
      <3>1. s + 5 \in Nat /\ r = (s + 5) + Len(got)
        BY <1>5, <2>1
      <3>. QED BY <1>21, <2>1, <3>1
    <2>3. Len(value) <= size /\ r + n = s + 5 + Len(value)
      BY <1>5, <1>6, <1>7, <1>11, <2>1
    <2>4. CASE Len(value) # size
      <3>1. got' = value /\ UNCHANGED <<field, header, size, tries, delivered, unread>>
        BY <1>3, <2>1, <2>4
      <3>2. Len(value) < size
        BY <1>5, <1>7, <1>11, <2>3, <2>4
      <3>3. ReadTo(all, s, r + n)'
        BY <1>29, <2>1, <2>2, <2>3, <3>1, <3>2 DEF ReadTo
      <3>. QED BY <1>5, <1>11, <1>25, <3>1, <3>3
    <2>5. CASE Len(value) = size
      <3>1. got' = <<>> /\ Deliver(value)
        BY <1>3, <1>29, <2>1, <2>5 DEF NextField
      <3>2. Complete(all, s, value)
        <4>1. s + 5 <= Len(all)
          BY <1>5, <1>19, <2>1
        <4>. QED BY <2>1, <2>2, <2>5, <4>1 DEF Complete
      <3>. QED BY <1>11, <1>26, <2>3, <3>1, <3>2
    <2>. QED BY <2>4, <2>5
  <1>. QED BY <1>5, <1>27, <1>28, <1>29

\* Every step preserves it.
LEMMA WireStepInv ==
  ASSUME WireInv, OneSender, [WireNext]_wireVars
  PROVE  WireInv'
  <1>1. CASE UNCHANGED wireVars
    <2>1. /\ UNCHANGED <<link, begun, packet, unsent, alive, sent>> /\ UNCHANGED bytes
          /\ UNCHANGED <<field, got, header, size, tries, delivered, unread>>
      BY <1>1 DEF wireVars, senderVars, readerVars
    <2>2. Threads' = Threads /\ Sendable' = Sendable
      BY <2>1 DEF Threads, Sendable
    <2>3. WireTypeOK' /\ Handled'
      BY <2>1, <2>2 DEF WireInv, WireTypeOK, Handled
    <2>4. \A all, k, r, cut, s : /\ Written(all, cut, k)' <=> Written(all, cut, k)
                                 /\ OnTheWay(all, r)' <=> OnTheWay(all, r)
                                 /\ ReadTo(all, s, r)' <=> ReadTo(all, s, r)
      BY <2>1, <2>2 DEF Written, OnTheWay, ReadTo
    <2>5. Framing'
      BY <2>1, <2>4 DEF WireInv, Framing
    <2>. QED BY <2>3, <2>5 DEF WireInv
  <1>2. ASSUME NEW t \in Threads, SocketSendPacket(t) PROVE WireInv'
    BY <1>2, SocketSendPacketInv
  <1>3. ASSUME NEW t \in Threads, SendWrapper(t) PROVE WireInv'
    BY <1>3, SendWrapperInv
  <1>4. CASE Die
    BY <1>4, DieInv
  <1>5. CASE ReceiveWrapper
    BY <1>5, ReceiveWrapperInv
  <1>6. CASE ReceiveFails
    BY <1>6, ReceiveFailsInv
  <1>. QED BY <1>1, <1>2, <1>3, <1>4, <1>5, <1>6 DEF WireNext, Reader, Ended

\* The invariant: what is on its way is a piece of the frames of the packets sent, and the
\* reader knows where in it it is (send_wrapper and receive_wrapper).
THEOREM WireInvariant == OneSender => (WireSpec => []WireInv)
  <1> SUFFICES ASSUME OneSender PROVE WireSpec => []WireInv
    OBVIOUS
  <1>1. WireInit => WireInv
    BY InitInv
  <1>2. WireInv /\ [WireNext]_wireVars => WireInv'
    BY WireStepInv
  <1>. QED BY <1>1, <1>2, PTL DEF WireSpec

\* Buffers are never overrun (stream_add, stream_take): a packet is sent from within its
\* block, whatever it holds, and a handler takes a received one apart exactly to its end,
\* wherever send and recv cut the bytes.
THEOREM StreamsCorrect == OneSender => (WireSpec => []StreamsInBounds)
  <1> SUFFICES ASSUME OneSender PROVE WireSpec => []StreamsInBounds
    OBVIOUS
  <1>1. WireInv => StreamsInBounds
    <2> SUFFICES ASSUME WireInv PROVE StreamsInBounds
      OBVIOUS
    <2>1. ASSUME NEW t \in Threads, packet[t] # Nothing
          PROVE  Payload(packet[t]).offset <= Payload(packet[t]).malloc_size
      <3>1. packet[t] \in Sendable /\ link \in DOMAIN Packets
        BY <2>1 DEF WireInv, WireTypeOK
      <3>2. WellFormed(packet[t])
        BY <3>1, SendableFormed
      <3>. QED BY <3>2, RoundTrip
    <2>. QED BY <2>1 DEF StreamsInBounds, WireInv, Handled
  <1>. QED BY <1>1, WireInvariant, PTL

-----------------------------------------------------------------------------
(* The channel of whole packets. *)

\* What is left of a sequence after m elements, when one is added and when one is taken.
LEMMA Remaining ==
  ASSUME NEW S, NEW s \in Seq(S), NEW m \in 0 .. Len(s)
  PROVE  /\ \A p \in S : SubSeq(Append(s, p), m + 1, Len(Append(s, p)))
                           = Append(SubSeq(s, m + 1, Len(s)), p)
         /\ m < Len(s) => /\ SubSeq(s, m + 1, Len(s)) # <<>>
                          /\ Head(SubSeq(s, m + 1, Len(s))) = s[m + 1]
                          /\ Tail(SubSeq(s, m + 1, Len(s))) = SubSeq(s, (m + 1) + 1, Len(s))
  <1>1. PICK n \in Nat : n = Len(s)
    OBVIOUS
  <1>2. m \in Nat /\ m <= n
    BY <1>1
  <1>3. PICK q : q = SubSeq(s, m + 1, Len(s))
    OBVIOUS
  <1>4. /\ q \in Seq(S) /\ Len(q) = n - m
        /\ \A i \in 1 .. n - m : q[i] = s[m + i]
    <2>1. m + 1 \in 1 .. n + 1 /\ \A i \in (m + 1) .. n : i \in 1 .. n
      BY <1>2
    <2>2. /\ SubSeq(s, m + 1, n) \in Seq(S) /\ Len(SubSeq(s, m + 1, n)) = n - m
          /\ \A i \in 1 .. n - m : SubSeq(s, m + 1, n)[i] = s[(m + 1) + i - 1]
      <3>1. Len(SubSeq(s, m + 1, n)) = IF m + 1 <= n THEN n - (m + 1) + 1 ELSE 0
        BY <1>1, <2>1, SubSeqProperties
      <3>2. Len(SubSeq(s, m + 1, n)) = n - m
        BY <1>2, <3>1
      <3>. QED BY <1>1, <2>1, <3>2, SubSeqProperties
    <2>3. \A i \in 1 .. n - m : (m + 1) + i - 1 = m + i
      BY <1>2
    <2>. QED BY <1>1, <1>3, <2>2, <2>3
  <1>5. ASSUME NEW p \in S
        PROVE  SubSeq(Append(s, p), m + 1, Len(Append(s, p))) = Append(q, p)
    <2>1. PICK a \in Seq(S) : /\ a = Append(s, p) /\ Len(a) = n + 1 /\ a[n + 1] = p
                              /\ \A i \in 1 .. n : a[i] = s[i]
      <3>1. /\ Append(s, p) \in Seq(S) /\ Len(Append(s, p)) = Len(s) + 1
            /\ Append(s, p)[Len(s) + 1] = p
            /\ \A i \in 1 .. Len(s) : Append(s, p)[i] = s[i]
        BY AppendProperties
      <3>. QED BY <1>1, <3>1
    <2>2. PICK d : d = SubSeq(a, m + 1, n + 1)
      OBVIOUS
    <2>3. /\ d \in Seq(S) /\ Len(d) = (n - m) + 1
          /\ \A i \in 1 .. (n - m) + 1 : d[i] = a[m + i]
      <3>1. m + 1 \in 1 .. (n + 1) + 1 /\ \A i \in (m + 1) .. (n + 1) : i \in 1 .. n + 1
        BY <1>2
      <3>2. /\ d \in Seq(S)
            /\ Len(d) = IF m + 1 <= n + 1 THEN (n + 1) - (m + 1) + 1 ELSE 0
        BY <2>1, <2>2, <3>1, SubSeqProperties
      <3>3. Len(d) = (n - m) + 1
        BY <1>2, <3>2
      <3>4. \A i \in 1 .. Len(d) : d[i] = a[(m + 1) + i - 1]
        <4>1. \A i \in 1 .. Len(SubSeq(a, m + 1, n + 1)) :
                SubSeq(a, m + 1, n + 1)[i] = a[(m + 1) + i - 1]
          <5>1. a \in Seq(S) /\ m + 1 \in 1 .. Len(a) + 1 /\ n + 1 \in Nat
            BY <1>2, <2>1
          <5>. QED BY <2>1, <3>1, <5>1, SubSeqProperties
        <4>. QED BY <2>2, <4>1
      <3>5. \A i \in 1 .. (n - m) + 1 : (m + 1) + i - 1 = m + i
        BY <1>2
      <3>. QED BY <3>2, <3>3, <3>4, <3>5
    <2>4. PICK e \in Seq(S) : /\ e = Append(q, p) /\ Len(e) = (n - m) + 1 /\ e[(n - m) + 1] = p
                              /\ \A i \in 1 .. n - m : e[i] = q[i]
      <3>1. /\ Append(q, p) \in Seq(S) /\ Len(Append(q, p)) = Len(q) + 1
            /\ Append(q, p)[Len(q) + 1] = p
            /\ \A i \in 1 .. Len(q) : Append(q, p)[i] = q[i]
        <4>1. q \in Seq(S)
          BY <1>4
        <4>. QED BY <4>1, AppendProperties
      <3>. QED BY <1>4, <3>1
    <2>5. ASSUME NEW i \in 1 .. (n - m) + 1 PROVE d[i] = e[i]
      <3>1. CASE i = (n - m) + 1
        <4>1. m + i = n + 1
          BY <1>2, <3>1
        <4>. QED BY <2>1, <2>3, <2>4, <3>1, <4>1
      <3>2. CASE i # (n - m) + 1
        <4>1. i \in 1 .. n - m /\ m + i \in 1 .. n
          BY <1>2, <3>2
        <4>. QED BY <1>4, <2>1, <2>3, <2>4, <4>1
      <3>. QED BY <3>1, <3>2
    <2>6. d = e
      BY <2>3, <2>4, <2>5, SeqEqual
    <2>. QED BY <2>1, <2>2, <2>4, <2>6
  <1>6. ASSUME m < Len(s)
        PROVE  q # <<>> /\ Head(q) = s[m + 1] /\ Tail(q) = SubSeq(s, (m + 1) + 1, Len(s))
    <2>1. Len(q) > 0 /\ 1 \in 1 .. n - m /\ m < n
      BY <1>1, <1>2, <1>4, <1>6
    <2>2. q # <<>> /\ Head(q) = s[m + 1]
      BY <1>4, <2>1
    <2>3. PICK d : d = SubSeq(s, (m + 1) + 1, n)
      OBVIOUS
    <2>4. /\ d \in Seq(S) /\ Len(d) = (n - m) - 1
          /\ \A i \in 1 .. (n - m) - 1 : d[i] = s[(m + 1) + i]
      <3>1. (m + 1) + 1 \in 1 .. n + 1 /\ \A i \in ((m + 1) + 1) .. n : i \in 1 .. n
        BY <1>2, <2>1
      <3>2. /\ d \in Seq(S)
            /\ Len(d) = IF (m + 1) + 1 <= n THEN n - ((m + 1) + 1) + 1 ELSE 0
        BY <1>1, <2>3, <3>1, SubSeqProperties
      <3>3. Len(d) = (n - m) - 1
        BY <1>2, <2>1, <3>2
      <3>4. \A i \in 1 .. Len(d) : d[i] = s[((m + 1) + 1) + i - 1]
        BY <1>1, <2>3, <3>1, SubSeqProperties
      <3>5. \A i \in 1 .. (n - m) - 1 : ((m + 1) + 1) + i - 1 = (m + 1) + i
        BY <1>2
      <3>. QED BY <3>2, <3>3, <3>4, <3>5
    <2>5. PICK e \in Seq(S) : /\ e = Tail(q) /\ Len(e) = (n - m) - 1
                              /\ \A i \in 1 .. (n - m) - 1 : e[i] = q[i + 1]
      <3>1. Tail(q) \in Seq(S) /\ Len(Tail(q)) = Len(q) - 1
            /\ \A i \in 1 .. Len(Tail(q)) : Tail(q)[i] = q[i + 1]
        BY <1>4, <2>2, HeadTailProperties
      <3>2. Len(Tail(q)) = (n - m) - 1
        BY <1>4, <3>1
      <3>. QED BY <3>1, <3>2
    <2>6. ASSUME NEW i \in 1 .. (n - m) - 1 PROVE d[i] = e[i]
      <3>1. i + 1 \in 1 .. n - m /\ m + (i + 1) = (m + 1) + i
        BY <1>2
      <3>. QED BY <1>4, <2>4, <2>5, <3>1
    <2>7. d = e
      BY <2>4, <2>5, <2>6, SeqEqual
    <2>. QED BY <1>1, <2>2, <2>3, <2>5, <2>7
  <1>. QED BY <1>3, <1>5, <1>6

\* A packet arrives at a handler when its last byte is read, and is on its way from when its
\* last byte is sent.
LEMMA ChannelStep ==
  ASSUME WireInv, WireInv', [WireNext]_wireVars
  PROVE  [Connection!ChannelNext]_<<Undelivered, delivered>>
  <1>1. PICK m \in Nat, n \in Nat : m = Len(delivered) /\ n = Len(sent) /\ m <= n
    <2>1. sent \in Seq(Sendable) /\ delivered \in Seq(Sendable) /\ Len(delivered) <= Len(sent)
      BY DEF WireInv, WireTypeOK, Handled
    <2>2. Len(sent) \in Nat /\ Len(delivered) \in Nat
      BY <2>1
    <2>. QED BY <2>1, <2>2
  <1>2. sent \in Seq(Sendable) /\ m \in 0 .. Len(sent)
    BY <1>1 DEF WireInv, WireTypeOK
  <1>3. CASE UNCHANGED <<sent, delivered>>
    BY <1>3 DEF Undelivered
  <1>4. ASSUME NEW t \in Threads, SendWrapper(t), sent' = Append(sent, packet[t])
        PROVE  Connection!ChannelNext
    <2>1. PICK p : p = packet[t]
      OBVIOUS
    <2>2. delivered' = delivered /\ unsent[t] # <<>>
      BY <1>4 DEF SendWrapper, readerVars
    <2>3. p \in Sendable /\ p \in AllPackets
      <3>1. p \in Sendable /\ link \in DOMAIN Packets
        BY <2>1, <2>2 DEF WireInv, WireTypeOK
      <3>. QED BY <3>1 DEF Sendable, AllPackets, Threads
    <2>4. SubSeq(Append(sent, p), m + 1, Len(Append(sent, p)))
            = Append(SubSeq(sent, m + 1, Len(sent)), p)
      BY <1>2, <2>3, Remaining
    <2>5. Undelivered' = Append(Undelivered, p)
      BY <1>1, <1>4, <2>1, <2>2, <2>4 DEF Undelivered
    <2>. QED BY <2>2, <2>3, <2>5 DEF Connection!ChannelNext, Connection!Put, Undelivered
  <1>5. ASSUME NEW x, delivered' = Append(delivered, x), sent' = sent
        PROVE  Connection!ChannelNext
    <2>1. Len(delivered') = m + 1 /\ delivered'[m + 1] = x
      <3>1. delivered \in Seq(Sendable)
        BY DEF WireInv, WireTypeOK
      <3>. QED BY <1>1, <1>5, <3>1, AppendProperties
    <2>2. m + 1 <= n /\ x = sent[m + 1]
      <3>1. Len(delivered') <= Len(sent') /\ \A i \in 1 .. Len(delivered') : delivered'[i] = sent'[i]
        BY DEF WireInv, Handled
      <3>. QED BY <1>1, <1>5, <2>1, <3>1
    <2>3. m < Len(sent)
      BY <1>1, <2>2
    <2>4. /\ SubSeq(sent, m + 1, Len(sent)) # <<>>
          /\ Head(SubSeq(sent, m + 1, Len(sent))) = sent[m + 1]
          /\ Tail(SubSeq(sent, m + 1, Len(sent))) = SubSeq(sent, (m + 1) + 1, Len(sent))
      BY <1>2, <2>3, Remaining
    <2>5. Undelivered # <<>> /\ Head(Undelivered) = x /\ Undelivered' = Tail(Undelivered)
      BY <1>1, <1>5, <2>1, <2>2, <2>4 DEF Undelivered
    <2>. QED BY <1>5, <2>5 DEF Connection!ChannelNext, Connection!Get, Undelivered
  <1>6. CASE UNCHANGED wireVars
    BY <1>3, <1>6 DEF wireVars, senderVars, readerVars
  <1>7. ASSUME NEW t \in Threads, SocketSendPacket(t) PROVE UNCHANGED <<sent, delivered>>
    BY <1>7 DEF SocketSendPacket, readerVars
  <1>8. ASSUME NEW t \in Threads, SendWrapper(t)
        PROVE  UNCHANGED <<sent, delivered>> \/ sent' = Append(sent, packet[t])
    BY <1>8 DEF SendWrapper, readerVars
  <1>9. CASE Die
    BY <1>3, <1>9 DEF Die, readerVars
  <1>10. CASE ReceiveFails
    BY <1>3, <1>10 DEF ReceiveFails, senderVars
  <1>11. CASE ReceiveWrapper
    <2>1. sent' = sent
      BY <1>11 DEF ReceiveWrapper, senderVars
    <2>2. delivered' = delivered \/ \E x : delivered' = Append(delivered, x)
      <3>1. \A value : Deliver(value) => \E x : delivered' = Append(delivered, x)
        BY DEF Deliver
      <3>2. \A value : NextField(value) =>
              delivered' = delivered \/ \E x : delivered' = Append(delivered, x)
        BY <3>1 DEF NextField
      <3>. QED BY <1>11, <3>2 DEF ReceiveWrapper
    <2>. QED BY <1>3, <1>5, <2>1, <2>2
  <1>. QED BY <1>3, <1>4, <1>6, <1>7, <1>8, <1>9, <1>10, <1>11 DEF WireNext, Reader, Ended

\* The bytes implement the channel of whole packets as far as safety goes: handlers get the
\* packets that were completely sent, in order, with every field as it was added, and never
\* one that was cut short (socket_send_packet, packet_handler).
THEOREM ChannelCorrect ==
    OneSender =>
      (WireSpec => Connection!ChannelInit
                   /\ [][Connection!ChannelNext]_<<Undelivered, delivered>>)
  <1> SUFFICES ASSUME OneSender
               PROVE  WireSpec => Connection!ChannelInit
                                  /\ [][Connection!ChannelNext]_<<Undelivered, delivered>>
    OBVIOUS
  <1>1. WireInit => Connection!ChannelInit
    <2>1. SubSeq(<<>>, 1, 0) = <<>>
      OBVIOUS
    <2>. QED BY <2>1 DEF WireInit, Connection!ChannelInit, Undelivered
  <1>2. WireInv /\ WireInv' /\ [WireNext]_wireVars
          => [Connection!ChannelNext]_<<Undelivered, delivered>>
    BY ChannelStep
  <1>. QED BY <1>1, <1>2, WireInvariant, PTL DEF WireSpec
=============================================================================
