------------------------------ MODULE DigestProofs ------------------------------
(* Three parts of LoadsSound, for every value of the constants.            *)
(* pg_rowhash: the bytes of a row tell what it shows.  A stream is read    *)
(* from its beginning, column by column, and two streams that differ first *)
(* do so within one column.  dlt loads and daily backups put what they     *)
(* have read.                                                              *)
EXTENDS ServiceProofs

(***************************************************************************)
(* pg_rowhash: what stands in a stream of bytes that was put together      *)
(* piece by piece.                                                         *)
(***************************************************************************)

\* Induction over the numbers up to m.
LEMMA Climb ==
  ASSUME NEW m \in Nat, NEW P \in SUBSET (0 .. m), 0 \in P,
         \A n \in 0 .. m : n \in P /\ n < m => n + 1 \in P
  PROVE  P = 0 .. m
<1> SUFFICES ASSUME (0 .. m) \ P # {} PROVE FALSE
  OBVIOUS
<1> DEFINE missing == (0 .. m) \ P
<1>1. missing \in SUBSET Int /\ missing # {} /\ missing \subseteq 0 .. m
  OBVIOUS
<1>2. IsFiniteSet(0 .. m)
  BY FS_Interval
<1>3. PICK k \in missing : \A i \in missing : k <= i
  <2> HIDE DEF missing
  <2>1. IsFiniteSet(missing)
    BY <1>1, <1>2, FS_Subset
  <2>2. QED BY <1>1, <2>1, FirstExists
<1>4. k \in 1 .. m /\ k - 1 \in 0 .. m /\ k - 1 \notin missing
  BY <1>3
<1>5. k - 1 \in P /\ k - 1 < m
  BY <1>4
<1>6. k \in P
  BY <1>4, <1>5
<1>7. QED BY <1>3, <1>6

\* The streams after each piece; s[m] is the whole.
Strung(m, s, Q) ==
    /\ s \in [0 .. m -> Seq(Int)] /\ s[0] = <<>>
    /\ \A n \in 1 .. m : s[n] = s[n - 1] \o Q[n]

LEMMA Strings ==
  ASSUME NEW m \in Nat, NEW Q \in [1 .. m -> Seq(Int)]
  PROVE  \E s : Strung(m, s, Q)
<1> DEFINE P == {n \in 0 .. m : \E s : Strung(n, s, Q)}
<1>1. 0 \in P
  <2>1. [n \in 0 .. 0 |-> <<>>] \in [0 .. 0 -> Seq(Int)]
    BY EmptySeq
  <2>2. Strung(0, [n \in 0 .. 0 |-> <<>>], Q)
    BY <2>1 DEF Strung
  <2>3. QED BY <2>2
<1>2. ASSUME NEW n \in P, n < m PROVE n + 1 \in P
  <2>1. PICK s : Strung(n, s, Q)
    OBVIOUS
  <2> DEFINE t == [i \in 0 .. n + 1 |-> IF i = n + 1 THEN s[n] \o Q[n + 1] ELSE s[i]]
  <2>2. n \in Nat /\ n + 1 \in 0 .. m /\ n + 1 \in 1 .. m
    BY <1>2
  <2>3. s[n] \o Q[n + 1] \in Seq(Int)
    BY <2>1, <2>2, ConcatProperties DEF Strung
  <2>4. s \in [0 .. n -> Seq(Int)] /\ s[0] = <<>> /\ \A i \in 1 .. n : s[i] = s[i - 1] \o Q[i]
    BY <2>1 DEF Strung
  <2>5. t \in [0 .. n + 1 -> Seq(Int)] /\ t[n + 1] = s[n] \o Q[n + 1] /\ \A i \in 0 .. n : t[i] = s[i]
    BY <2>2, <2>3, <2>4
  <2> HIDE DEF t
  <2>8. \A i \in 1 .. n + 1 : t[i] = t[i - 1] \o Q[i]
    <3> SUFFICES ASSUME NEW i \in 1 .. n + 1 PROVE t[i] = t[i - 1] \o Q[i]
      OBVIOUS
    <3>1. i - 1 \in 0 .. n /\ t[i - 1] = s[i - 1]
      BY <2>2, <2>5
    <3>2. CASE i = n + 1
      <4>1. i - 1 = n
        BY <2>2, <3>2
      <4>2. QED BY <2>5, <3>1, <3>2, <4>1
    <3>3. CASE i # n + 1
      <4>1. i \in 1 .. n /\ i \in 0 .. n
        BY <2>2, <3>3
      <4>2. QED BY <2>4, <2>5, <3>1, <4>1
    <3>4. QED BY <3>2, <3>3
  <2>6. Strung(n + 1, t, Q)
    <3>1. t[0] = <<>>
      BY <2>2, <2>4, <2>5
    <3>2. QED BY <2>5, <2>8, <3>1 DEF Strung
  <2>7. QED BY <2>2, <2>6
<1>3. P = 0 .. m
  <2>1. P \in SUBSET (0 .. m) /\ (\A n \in 0 .. m : n \in P /\ n < m => n + 1 \in P)
    BY <1>2
  <2> HIDE DEF P
  <2>2. QED BY <1>1, <2>1, Climb
<1>4. m \in 0 .. m
  OBVIOUS
<1>5. QED BY <1>3, <1>4

Joins(a, b, c) ==
    /\ Len(a) \in Nat /\ Len(b) \in Nat /\ Len(c) = Len(a) + Len(b)
    /\ \A i \in 1 .. Len(a) : c[i] = a[i]
    /\ \A i \in 1 .. Len(b) : c[Len(a) + i] = b[i]

LEMMA JoinsTwo ==
  ASSUME NEW a \in Seq(Int), NEW b \in Seq(Int)
  PROVE  Joins(a, b, a \o b)
<1>1. /\ Len(a) \in Nat /\ Len(b) \in Nat /\ Len(a \o b) = Len(a) + Len(b)
      /\ \A i \in 1 .. Len(a) + Len(b) : (a \o b)[i] = IF i <= Len(a) THEN a[i] ELSE b[i - Len(a)]
  BY ConcatProperties
<1> DEFINE c == a \o b
<1> HIDE DEF c
<1>2. /\ Len(a) \in Nat /\ Len(b) \in Nat /\ Len(c) = Len(a) + Len(b)
      /\ \A i \in 1 .. Len(a) + Len(b) : c[i] = IF i <= Len(a) THEN a[i] ELSE b[i - Len(a)]
  BY <1>1 DEF c
<1>3. ASSUME NEW i \in 1 .. Len(b) PROVE c[Len(a) + i] = b[i]
  <2>1. Len(a) + i \in 1 .. Len(a) + Len(b) /\ ~(Len(a) + i <= Len(a)) /\ (Len(a) + i) - Len(a) = i
    BY <1>2
  <2>2. QED BY <1>2, <2>1
<1>4. Joins(a, b, c)
  BY <1>2, <1>3 DEF Joins
<1>5. QED BY <1>4 DEF c

\* A piece stays where it was put.
Prefixed(a, c) == Len(a) \in Nat /\ Len(c) \in Nat /\ Len(a) <= Len(c) /\ \A i \in 1 .. Len(a) : c[i] = a[i]

LEMMA KeptOn == ASSUME NEW a, NEW b, NEW q, NEW c, Prefixed(a, b), Joins(b, q, c) PROVE Prefixed(a, c)
<1>1. /\ Len(a) \in Nat /\ Len(b) \in Nat /\ Len(q) \in Nat /\ Len(a) <= Len(b) /\ Len(c) = Len(b) + Len(q)
      /\ \A i \in 1 .. Len(a) : b[i] = a[i]
      /\ \A i \in 1 .. Len(b) : c[i] = b[i]
  BY DEF Prefixed, Joins
<1>2. \A i \in 1 .. Len(a) : c[i] = a[i]
  BY <1>1
<1>3. QED BY <1>1, <1>2 DEF Prefixed

LEMMA Stays ==
  ASSUME NEW m \in Nat, NEW Q \in [1 .. m -> Seq(Int)], NEW s, Strung(m, s, Q), NEW n \in 0 .. m
  PROVE  \A k \in n .. m : Prefixed(s[n], s[k])
<1> DEFINE P == {k \in 0 .. m : k < n \/ Prefixed(s[n], s[k])}
<1>1. \A k \in 0 .. m : s[k] \in Seq(Int) /\ Len(s[k]) \in Nat
  BY DEF Strung
<1>2. Prefixed(s[n], s[n])
  BY <1>1 DEF Prefixed
<1>3. ASSUME NEW k \in 0 .. m, k >= n, k < m, Prefixed(s[n], s[k]) PROVE Prefixed(s[n], s[k + 1])
  <2>1. k + 1 \in 1 .. m /\ k + 1 \in 0 .. m /\ (k + 1) - 1 = k
    BY <1>3
  <2>2. s[k + 1] = s[k] \o Q[k + 1] /\ Q[k + 1] \in Seq(Int) /\ s[k] \in Seq(Int)
    BY <1>1, <2>1 DEF Strung
  <2>3. Joins(s[k], Q[k + 1], s[k + 1])
    BY <2>2, JoinsTwo
  <2>4. QED BY <1>3, <2>3, KeptOn
<1>4. P = 0 .. m
  <2>1. P \in SUBSET (0 .. m) /\ 0 \in P /\ (\A k \in 0 .. m : k \in P /\ k < m => k + 1 \in P)
    BY <1>2, <1>3
  <2> HIDE DEF P
  <2>2. QED BY <2>1, Climb
<1>5. ASSUME NEW k \in n .. m PROVE Prefixed(s[n], s[k])
  BY <1>4
<1>6. QED BY <1>5

\* Where a piece is, and what follows a stream that is not yet whole.
Stands(a, q, c, all) ==
    /\ Len(a) \in Nat /\ Len(q) \in Nat /\ Len(c) = Len(a) + Len(q) /\ Len(c) <= Len(all)
    /\ \A i \in 1 .. Len(q) : all[Len(a) + i] = q[i]

LEMMA StandsIn == ASSUME NEW a, NEW q, NEW c, NEW all, Joins(a, q, c), Prefixed(c, all) PROVE Stands(a, q, c, all)
<1>1. /\ Len(a) \in Nat /\ Len(q) \in Nat /\ Len(c) = Len(a) + Len(q) /\ Len(c) <= Len(all)
      /\ \A i \in 1 .. Len(c) : all[i] = c[i]
      /\ \A i \in 1 .. Len(q) : c[Len(a) + i] = q[i]
  BY DEF Prefixed, Joins
<1>2. ASSUME NEW i \in 1 .. Len(q) PROVE all[Len(a) + i] = q[i]
  <2>1. Len(a) + i \in 1 .. Len(c)
    BY <1>1
  <2>2. QED BY <1>1, <2>1
<1>3. QED BY <1>1, <1>2 DEF Stands

LEMMA Placed ==
  ASSUME NEW m \in Nat, NEW Q \in [1 .. m -> Seq(Int)], NEW s, Strung(m, s, Q), NEW n \in 1 .. m
  PROVE  Stands(s[n - 1], Q[n], s[n], s[m])
<1>1. n - 1 \in 0 .. m /\ n \in 0 .. m /\ m \in n .. m
  OBVIOUS
<1>2. s[n - 1] \in Seq(Int) /\ Q[n] \in Seq(Int) /\ s[n] = s[n - 1] \o Q[n]
  BY <1>1 DEF Strung
<1>3. Joins(s[n - 1], Q[n], s[n])
  BY <1>2, JoinsTwo
<1>4. Prefixed(s[n], s[m])
  BY <1>1, Stays
<1>5. QED BY <1>3, <1>4, StandsIn

LEMMA Follows ==
  ASSUME NEW m \in Nat, NEW Q \in [1 .. m -> Seq(Int)], NEW s, Strung(m, s, Q), NEW n \in 0 .. m,
         \A k \in 1 .. m : Len(Q[k]) # 0 => Q[k][1] = k - 1,
         Len(s[n]) < Len(s[m])
  PROVE  s[m][Len(s[n]) + 1] \in n .. m - 1
<1> DEFINE later == {k \in n .. m : Len(s[n]) < Len(s[k])}
<1>0. \A k \in 0 .. m : s[k] \in Seq(Int) /\ Len(s[k]) \in Nat
  BY DEF Strung
<1>1. m \in later /\ later \in SUBSET Int /\ later \subseteq 0 .. m
  OBVIOUS
<1>2. IsFiniteSet(0 .. m)
  BY FS_Interval
<1>3. PICK k \in later : \A i \in later : k <= i
  <2> HIDE DEF later
  <2>1. IsFiniteSet(later) /\ later # {}
    BY <1>1, <1>2, FS_Subset
  <2>2. QED BY <1>1, <2>1, FirstExists
<1>4. k \in n + 1 .. m /\ k \in 1 .. m /\ k - 1 \in n .. m /\ k - 1 \notin later
  BY <1>0, <1>3
<1>5. Len(s[k - 1]) = Len(s[n])
  <2>1. Len(s[n]) <= Len(s[k - 1])
    BY <1>4, Stays DEF Prefixed
  <2>2. QED BY <1>0, <1>4, <2>1
<1>6. Stands(s[k - 1], Q[k], s[k], s[m])
  BY <1>4, Placed
<1>7. Len(Q[k]) \in Nat /\ Len(Q[k]) # 0
  <2>1. Len(s[n]) < Len(s[k]) /\ Len(s[n]) \in Nat
    BY <1>0, <1>3
  <2>2. Len(Q[k]) \in Nat /\ Len(s[k]) = Len(s[k - 1]) + Len(Q[k])
    BY <1>6 DEF Stands
  <2>3. \A a, b \in Nat : a < a + b => b # 0
    OBVIOUS
  <2>4. Len(s[n]) < Len(s[n]) + Len(Q[k])
    BY <1>5, <2>1, <2>2
  <2>5. QED BY <2>1, <2>2, <2>3, <2>4
<1>8. s[m][Len(s[n]) + 1] = k - 1
  BY <1>4, <1>5, <1>6, <1>7 DEF Stands
<1>9. QED BY <1>4, <1>8

\* Two pieces that cannot stand at one place, with columns behind them: a
\* column begins with its number, which is less than 255.
Clash(p, q) ==
    \/ \E i \in 1 .. Len(p) : i <= Len(q) /\ p[i] # q[i]
    \/ Len(p) < Len(q) /\ q[Len(p) + 1] = 255
    \/ Len(q) < Len(p) /\ p[Len(q) + 1] = 255

Pieces(m, Q) ==
    /\ Q \in [1 .. m -> Seq(Int)]
    /\ \A k \in 1 .. m : Len(Q[k]) # 0 => Q[k][1] = k - 1

Amid(p, q, k) ==
    /\ ~(Len(p) < Len(q) /\ q[Len(p) + 1] \in {k - 1, 255})
    /\ ~ \E i \in 1 .. Len(p) : i <= Len(q) /\ p[i] # q[i]

LEMMA NoClash ==
  ASSUME NEW m \in 0 .. 255, NEW Q, NEW s, Pieces(m, Q), Strung(m, s, Q),
         NEW n \in 0 .. 255, NEW R, NEW t, Pieces(n, R), Strung(n, t, R), s[m] = t[n],
         NEW k \in 1 .. 255, k <= m, k <= n, s[k - 1] = t[k - 1]
  PROVE  Amid(Q[k], R[k], k)
<1> DEFINE a == s[k - 1]
           p == Q[k]
           q == R[k]
           all == s[m]
<1>1. Stands(a, p, s[k], all) /\ Stands(a, q, t[k], all)
  <2>1. k \in 1 .. m /\ m \in Nat /\ k \in 1 .. n /\ n \in Nat
    OBVIOUS
  <2>2. Stands(s[k - 1], Q[k], s[k], s[m])
    BY <2>1, Placed DEF Pieces
  <2>3. Stands(t[k - 1], R[k], t[k], t[n])
    BY <2>1, Placed DEF Pieces
  <2>4. QED BY <2>2, <2>3
<1>2. Len(s[k]) < Len(all) => all[Len(s[k]) + 1] \in k .. m - 1
  <2>1. k \in 0 .. m /\ m \in Nat
    OBVIOUS
  <2>2. QED BY <2>1, Follows DEF Pieces
<1> HIDE DEF a, p, q, all
<1>3. /\ Len(a) \in Nat /\ Len(p) \in Nat /\ Len(q) \in Nat
      /\ Len(s[k]) = Len(a) + Len(p) /\ Len(a) + Len(q) <= Len(all)
      /\ \A i \in 1 .. Len(p) : all[Len(a) + i] = p[i]
      /\ \A i \in 1 .. Len(q) : all[Len(a) + i] = q[i]
  BY <1>1 DEF Stands
<1>4. ASSUME Len(p) < Len(q), q[Len(p) + 1] \in {k - 1, 255} PROVE FALSE
  <2>1. Len(p) + 1 \in 1 .. Len(q) /\ Len(a) + Len(p) < Len(a) + Len(q)
    BY <1>3, <1>4
  <2>2. all[Len(a) + (Len(p) + 1)] = q[Len(p) + 1] /\ Len(a) + (Len(p) + 1) = Len(s[k]) + 1
    BY <1>3, <2>1
  <2>3. Len(s[k]) < Len(all)
    <3>1. \A u, v, w : u \in Nat /\ v \in Nat /\ u < v /\ v <= w => u < w \/ w \notin Int
      OBVIOUS
    <3>2. Len(all) \in Nat
      BY <1>1, Stays DEF Strung, all
    <3>3. QED BY <1>3, <2>1, <3>1, <3>2
  <2>4. all[Len(s[k]) + 1] \in k .. m - 1
    BY <1>2, <2>3
  <2>5. all[Len(s[k]) + 1] \in {k - 1, 255}
    BY <1>4, <2>2
  <2>6. \A e : ~(e \in {k - 1, 255} /\ e \in k .. m - 1)
    OBVIOUS
  <2>7. QED BY <2>4, <2>5, <2>6
<1>5. ASSUME NEW i \in 1 .. Len(p), i <= Len(q), p[i] # q[i] PROVE FALSE
  <2>1. i \in 1 .. Len(q)
    BY <1>3, <1>5
  <2>2. QED BY <1>3, <1>5, <2>1
<1>6. QED BY <1>4, <1>5 DEF p, q, Amid

\* One stream is of the same pieces as another, or is another.
Tellable(m, Q, R) ==
    \A k \in 1 .. m : Len(Q[k]) # 0 /\ Len(R[k]) # 0 => Q[k] = R[k] \/ Clash(Q[k], R[k])

Extended(m, Q, n, R) ==
    /\ \A k \in 1 .. m : Q[k] = R[k]
    /\ \A k \in 1 .. n : k > m => R[k] = <<>>

LEMMA Told ==
  ASSUME NEW m \in 0 .. 255, NEW Q, NEW s, Pieces(m, Q), Strung(m, s, Q),
         NEW n \in 0 .. 255, NEW R, NEW t, Pieces(n, R), Strung(n, t, R), m <= n,
         Tellable(m, Q, R), s[m] = t[n]
  PROVE  Extended(m, Q, n, R)
<1> DEFINE P == {k \in 0 .. m : s[k] = t[k] /\ (k # 0 => Q[k] = R[k])}
<1>0. /\ \A k \in 1 .. m : Q[k] \in Seq(Int) /\ s[k] = s[k - 1] \o Q[k]
      /\ \A k \in 1 .. n : R[k] \in Seq(Int) /\ t[k] = t[k - 1] \o R[k]
      /\ s[0] = <<>> /\ t[0] = <<>>
  BY DEF Pieces, Strung
<1>1. ASSUME NEW k \in 0 .. m, k < m, s[k] = t[k] PROVE Q[k + 1] = R[k + 1] /\ s[k + 1] = t[k + 1]
  <2> DEFINE j == k + 1
             p == Q[j]
             q == R[j]
  <2>1. j \in 1 .. 255 /\ j \in 1 .. m /\ j \in 1 .. n /\ j - 1 = k
    BY <1>1
  <2> HIDE DEF j
  <2>2. Amid(p, q, j) /\ Amid(q, p, j)
    <3>1. j <= m /\ j <= n /\ s[j - 1] = t[j - 1] /\ t[j - 1] = s[j - 1] /\ t[n] = s[m]
      BY <1>1, <2>1
    <3>2. Amid(Q[j], R[j], j)
      BY <2>1, <3>1, NoClash
    <3>3. Amid(R[j], Q[j], j)
      BY <2>1, <3>1, NoClash, ZenonT(30)
    <3>4. QED BY <3>2, <3>3
  <2>3. p \in Seq(Int) /\ q \in Seq(Int)
    BY <1>0, <2>1
  <2>4. Len(p) \in Nat /\ Len(q) \in Nat
    BY <2>3, LenProperties
  <2>5. (Len(p) # 0 => p[1] = j - 1) /\ (Len(q) # 0 => q[1] = j - 1)
    BY <2>1 DEF Pieces
  <2>6. (Len(p) # 0 /\ Len(q) # 0) => p = q \/ Clash(p, q)
    BY <2>1 DEF Tellable
  <2> HIDE DEF p, q
  <2>7. p = q
    <3>1. CASE Len(p) # 0 /\ Len(q) # 0
      BY <2>2, <2>6, <3>1 DEF Clash, Amid
    <3>2. CASE Len(p) = 0
      <4>1. Len(q) = 0
        BY <2>2, <2>4, <2>5, <3>2 DEF Amid
      <4>2. QED BY <2>3, <3>2, <4>1
    <3>3. CASE Len(q) = 0
      <4>1. Len(p) = 0
        BY <2>2, <2>4, <2>5, <3>3 DEF Amid
      <4>2. QED BY <2>3, <3>3, <4>1
    <3>4. QED BY <3>1, <3>2, <3>3
  <2>8. s[j] = t[j]
    <3>1. s[j] = s[j - 1] \o p /\ t[j] = t[j - 1] \o q
      BY <1>0, <2>1 DEF p, q
    <3>2. QED BY <1>1, <2>1, <2>7, <3>1
  <2>9. QED BY <2>7, <2>8 DEF j, p, q
<1>2. P = 0 .. m
  <2>1. P \in SUBSET (0 .. m) /\ 0 \in P
    BY <1>0
  <2>2. ASSUME NEW k \in 0 .. m, k \in P, k < m PROVE k + 1 \in P
    <3>1. s[k] = t[k] /\ k + 1 \in 0 .. m
      BY <2>2
    <3>2. QED BY <1>1, <2>2, <3>1
  <2>3. m \in Nat
    OBVIOUS
  <2> HIDE DEF P
  <2>4. QED BY <2>1, <2>2, <2>3, Climb
<1>3. \A k \in 1 .. m : k \in P /\ k # 0
  BY <1>2
<1>4. \A k \in 1 .. m : Q[k] = R[k]
  BY <1>3
<1>5. s[m] = t[m]
  BY <1>2
<1>6. ASSUME NEW k \in 1 .. n, k > m PROVE R[k] = <<>>
  <2>1. k \in Nat /\ k - 1 \in m .. n /\ m \in 0 .. n /\ n \in Nat /\ n \in k .. n
    BY <1>6
  <2>2. Prefixed(t[m], t[k - 1])
    BY <2>1, Stays DEF Pieces
  <2>3. Stands(t[k - 1], R[k], t[k], t[n])
    BY <2>1, Placed DEF Pieces
  <2>4. Len(R[k]) \in Nat /\ Len(t[k - 1]) \in Nat /\ Len(t[m]) \in Nat
        /\ Len(t[m]) <= Len(t[k - 1]) /\ Len(t[k]) = Len(t[k - 1]) + Len(R[k]) /\ Len(t[k]) <= Len(t[m])
    BY <1>5, <2>2, <2>3 DEF Prefixed, Stands
  <2>5. \A u, v, w \in Nat : u <= v /\ v + w <= u => w = 0
    OBVIOUS
  <2>6. Len(R[k]) = 0
    BY <2>4, <2>5
  <2>7. QED BY <1>0, <2>6
<1>7. QED BY <1>4, <1>6 DEF Extended

LEMMA Retold ==
  ASSUME NEW m \in Nat, NEW Q, NEW s, Pieces(m, Q), Strung(m, s, Q),
         NEW n \in Nat, NEW R, NEW t, Pieces(n, R), Strung(n, t, R), m <= n,
         Extended(m, Q, n, R)
  PROVE  s[m] = t[n]
<1> DEFINE P == {k \in 0 .. n : t[k] = IF k <= m THEN s[k] ELSE s[m]}
<1>0. /\ \A k \in 1 .. m : s[k] = s[k - 1] \o Q[k]
      /\ \A k \in 1 .. n : t[k] = t[k - 1] \o R[k]
      /\ s[0] = <<>> /\ t[0] = <<>> /\ s[m] \in Seq(Int)
  <2>1. m \in 0 .. m
    OBVIOUS
  <2>2. QED BY <2>1 DEF Strung
<1>e. /\ \A k \in 1 .. m : Q[k] = R[k]
      /\ \A k \in 1 .. n : k > m => R[k] = <<>>
  BY DEF Extended
<1>1. 0 \in P /\ P \in SUBSET (0 .. n)
  BY <1>0
<1>2. ASSUME NEW k \in 0 .. n, k \in P, k < n PROVE k + 1 \in P
  <2>1. k + 1 \in 1 .. n /\ k + 1 \in 0 .. n /\ (k + 1) - 1 = k
    BY <1>2
  <2>2. t[k + 1] = t[k] \o R[k + 1]
    BY <1>0, <2>1
  <2>3. CASE k + 1 <= m
    <3>1. k + 1 \in 1 .. m /\ k <= m
      BY <2>3
    <3>2. s[k + 1] = s[k] \o Q[k + 1] /\ t[k] = s[k] /\ Q[k + 1] = R[k + 1]
      BY <1>0, <1>2, <1>e, <2>1, <3>1
    <3>3. QED BY <2>1, <2>2, <2>3, <3>2
  <2>4. CASE ~(k + 1 <= m)
    <3>1. R[k + 1] = <<>> /\ t[k] = s[m]
      BY <1>2, <1>e, <2>1, <2>4
    <3>2. s[m] \o <<>> = s[m]
      BY <1>0, ConcatEmptySeq
    <3>3. QED BY <2>1, <2>2, <2>4, <3>1, <3>2
  <2>5. QED BY <2>3, <2>4
<1>3. P = 0 .. n
  <2> HIDE DEF P
  <2>1. QED BY <1>1, <1>2, Climb
<1>4. n \in P
  <2>1. n \in 0 .. n
    OBVIOUS
  <2> HIDE DEF P
  <2>2. QED BY <1>3, <2>1
<1>5. QED BY <1>4

(***************************************************************************)
(* pg_rowhash: the bytes of a datum, and of a row.                         *)
(***************************************************************************)

AreBytes(b, v, n) ==
    /\ b \in Seq(Int) /\ Len(b) = n /\ b[1] = (IF v < 0 THEN v + 256 ELSE v)
    /\ \A i \in 2 .. n : b[i] = IF v < 0 THEN 255 ELSE 0

LEMMA ByteFacts ==
  ASSUME NEW v \in (-256) .. 255, NEW n \in Nat \ {0}
  PROVE  AreBytes(Hash!Bytes(v, n), v, n)
<1> DEFINE b == Hash!Bytes(v, n)
<1>1. v % 256 = IF v < 0 THEN v + 256 ELSE v
  OBVIOUS
<1>2. b = [i \in 1 .. n |-> IF i = 1 THEN v % 256 ELSE IF v < 0 THEN 255 ELSE 0]
  BY DEF Hash!Bytes
<1> HIDE DEF b
<1>3. b \in [1 .. n -> Int] /\ b[1] = v % 256 /\ \A i \in 2 .. n : b[i] = IF v < 0 THEN 255 ELSE 0
  BY <1>1, <1>2
<1>4. b \in Seq(Int) /\ Len(b) = n
  BY <1>3
<1>5. AreBytes(b, v, n)
  BY <1>1, <1>3, <1>4 DEF AreBytes
<1>6. QED BY <1>5 DEF b

LEMMA SameSeq ==
  ASSUME NEW p \in Seq(Int), NEW q \in Seq(Int), Len(p) = Len(q), \A i \in 1 .. Len(p) : p[i] = q[i]
  PROVE  p = q
<1>1. p \in [1 .. Len(p) -> Int] /\ q \in [1 .. Len(q) -> Int]
  BY LenProperties
<1>2. QED BY <1>1

\* Eight bytes of a number below zero that are all alike, as of NULL.
AllOnes(b) == b \in Seq(Int) /\ Len(b) = 8 /\ \A i \in 1 .. 8 : b[i] = 255

LEMMA OnesAgree == ASSUME NEW p, NEW q, AllOnes(p), AllOnes(q) PROVE p = q
<1>1. p \in Seq(Int) /\ q \in Seq(Int) /\ Len(p) = Len(q)
  BY DEF AllOnes
<1>2. \A i \in 1 .. Len(p) : p[i] = q[i]
  BY DEF AllOnes
<1>3. QED BY <1>1, <1>2, SameSeq

LEMMA MinusOne == AllOnes(Hash!Bytes(-1, 8))
<1>1. AreBytes(Hash!Bytes(-1, 8), -1, 8)
  <2>1. -1 \in (-256) .. 255 /\ 8 \in Nat \ {0}
    OBVIOUS
  <2>2. QED BY <2>1, ByteFacts, Zenon
<1> DEFINE b == Hash!Bytes(-1, 8)
<1> HIDE DEF b
<1>2. b \in Seq(Int) /\ Len(b) = 8 /\ b[1] = 255 /\ \A i \in 2 .. 8 : b[i] = 255
  <2>1. AreBytes(b, -1, 8)
    BY <1>1 DEF b
  <2>2. QED BY <2>1 DEF AreBytes
<1>3. \A i \in 1 .. 8 : i = 1 \/ i \in 2 .. 8
  OBVIOUS
<1>4. AllOnes(b)
  BY <1>2, <1>3 DEF AllOnes
<1>5. QED BY <1>4 DEF b

LEMMA OnlyOne == \A v : (CHOOSE x \in {v} : TRUE) = v /\ {v} # {}
OBVIOUS

\* The data of a type that are hashed alike: NULL and -1 have the same bytes.
Alike(type, d, e) == d = e \/ (type = "byval" /\ {d, e} \subseteq {{}, {-1}})

\* The bytes of NULL, and of a value.
LEMMA NullBytes == \A type : AllOnes(Hash!Encode(type, {}))
<1> DEFINE n == [i \in 1 .. 8 |-> 255]
<1>1. \A type : Hash!Encode(type, {}) = n
  BY DEF Hash!Encode, Hash!NullMarker
<1>2. n \in [1 .. 8 -> Int]
  OBVIOUS
<1>3. \A i \in 1 .. 8 : n[i] = 255
  OBVIOUS
<1> HIDE DEF n
<1>4. n \in Seq(Int) /\ Len(n) = 8
  <2>1. 8 \in Nat
    OBVIOUS
  <2>2. QED BY <1>2, <2>1, UpToSeq, Zenon
<1>5. AllOnes(n)
  BY <1>3, <1>4 DEF AllOnes
<1>6. QED BY <1>1, <1>5

LEMMA ValueBytes ==
  \A v : /\ Hash!Encode("byval", {v}) = Hash!Bytes(v, 8)
         /\ Hash!Encode("varlena", {v}) = Hash!Bytes(Len(v), 4) \o v
         /\ Hash!Encode("cstring", {v}) = Hash!Bytes(Len(v), 4) \o v
         /\ Hash!Encode("fixed", {v}) = v
BY OnlyOne DEF Hash!Encode

LEMMA ByvalTells ==
  ASSUME "byval" \in DigestTypes, NEW d \in Hash!Datum("byval"), NEW e \in Hash!Datum("byval")
  PROVE  /\ Hash!Encode("byval", d) \in Seq(Int)
         /\ Alike("byval", d, e) => Hash!Encode("byval", d) = Hash!Encode("byval", e)
         /\ Alike("byval", d, e) \/ Clash(Hash!Encode("byval", d), Hash!Encode("byval", e))
<1> DEFINE Value(x) == IF x = {} THEN -1 ELSE CHOOSE v \in x : TRUE
<1>1. ASSUME NEW x \in Hash!Datum("byval")
      PROVE  /\ Value(x) \in (-256) .. 255 /\ Hash!Encode("byval", x) = Hash!Bytes(Value(x), 8)
             /\ x = {} \/ x = {Value(x)}
  <2>1. CASE x = {}
    <3>1. Hash!Bytes(-1, 8) = Hash!Encode("byval", {})
      BY MinusOne, NullBytes, OnesAgree
    <3>2. -1 \in (-256) .. 255
      OBVIOUS
    <3>3. QED BY <2>1, <3>1, <3>2
  <2>2. CASE x # {}
    <3>1. PICK v \in DigestData["byval"] : x = {v}
      BY <2>2 DEF Hash!Datum
    <3>2. Value(x) = v /\ v \in (-256) .. 255
      BY <3>1, OnlyOne, DigestAssumption
    <3>3. QED BY <2>2, <3>1, <3>2, ValueBytes
  <2>3. QED BY <2>1, <2>2
<1> DEFINE v == Value(d)
           w == Value(e)
<1>2. /\ v \in (-256) .. 255 /\ Hash!Encode("byval", d) = Hash!Bytes(v, 8) /\ (d = {} \/ d = {v})
      /\ w \in (-256) .. 255 /\ Hash!Encode("byval", e) = Hash!Bytes(w, 8) /\ (e = {} \/ e = {w})
      /\ (d = {} => v = -1) /\ (e = {} => w = -1)
  BY <1>1
<1>3. Alike("byval", d, e) <=> v = w
  <2>1. d = {} \/ d = {v}
    BY <1>2
  <2>2. e = {} \/ e = {w}
    BY <1>2
  <2> HIDE DEF v, w
  <2>3. (d = {-1} => v = -1) /\ (e = {-1} => w = -1) /\ (d = e => v = w)
    BY <1>2, <2>1, <2>2
  <2>4. QED BY <1>2, <2>1, <2>2, <2>3 DEF Alike
<1> HIDE DEF v, w
<1>4. ASSUME v # w PROVE Clash(Hash!Bytes(v, 8), Hash!Bytes(w, 8))
  <2> DEFINE p == Hash!Bytes(v, 8)
             q == Hash!Bytes(w, 8)
  <2>0. 8 \in Nat \ {0} /\ 2 \in 2 .. 8
    OBVIOUS
  <2>1. /\ Len(p) = 8 /\ p[1] = (IF v < 0 THEN v + 256 ELSE v) /\ p[2] = (IF v < 0 THEN 255 ELSE 0)
        /\ Len(q) = 8 /\ q[1] = (IF w < 0 THEN w + 256 ELSE w) /\ q[2] = (IF w < 0 THEN 255 ELSE 0)
    <3>1. AreBytes(p, v, 8)
      BY <1>2, <2>0, ByteFacts
    <3>2. AreBytes(q, w, 8)
      BY <1>2, <2>0, ByteFacts
    <3> HIDE DEF p, q
    <3>3. QED BY <2>0, <3>1, <3>2 DEF AreBytes
  <2> HIDE DEF p, q
  <2>2. p[1] # q[1] \/ p[2] # q[2]
    BY <1>2, <1>4, <2>1
  <2>3. Clash(p, q)
    BY <2>1, <2>2 DEF Clash
  <2>4. QED BY <2>3 DEF p, q
<1>5. Hash!Bytes(v, 8) \in Seq(Int)
  <2>1. 8 \in Nat \ {0}
    OBVIOUS
  <2>2. QED BY <1>2, <2>1, ByteFacts DEF AreBytes
<1>6. QED BY <1>2, <1>3, <1>4, <1>5

LEMMA Differ ==
  ASSUME NEW p \in Seq(Int), NEW q \in Seq(Int), Len(p) = Len(q), p # q
  PROVE  Clash(p, q)
<1>1. PICK i \in 1 .. Len(p) : p[i] # q[i]
  BY SameSeq
<1>2. i <= Len(q)
  BY LenProperties
<1>3. QED BY <1>1, <1>2 DEF Clash

LEMMA ClashTurned == ASSUME NEW p \in Seq(Int), NEW q \in Seq(Int), Clash(p, q) PROVE Clash(q, p)
<1>1. Len(p) \in Nat /\ Len(q) \in Nat
  BY LenProperties
<1>2. QED BY <1>1 DEF Clash

\* What stands behind the same bytes.
LEMMA ClashBehind ==
  ASSUME NEW h \in Seq(Int), NEW p \in Seq(Int), NEW q \in Seq(Int), Clash(p, q)
  PROVE  Clash(h \o p, h \o q)
<1> DEFINE u == h \o p
           v == h \o q
<1>1. Joins(h, p, u) /\ Joins(h, q, v)
  BY JoinsTwo
<1> SUFFICES Clash(u, v)
  OBVIOUS
<1> HIDE DEF u, v
<1>2. /\ Len(h) \in Nat /\ Len(p) \in Nat /\ Len(q) \in Nat
      /\ Len(u) = Len(h) + Len(p) /\ Len(v) = Len(h) + Len(q)
      /\ \A i \in 1 .. Len(p) : u[Len(h) + i] = p[i]
      /\ \A i \in 1 .. Len(q) : v[Len(h) + i] = q[i]
  BY <1>1 DEF Joins
<1>3. CASE \E i \in 1 .. Len(p) : i <= Len(q) /\ p[i] # q[i]
  <2>1. PICK i \in 1 .. Len(p) : i <= Len(q) /\ p[i] # q[i]
    BY <1>3
  <2>2. i \in 1 .. Len(q) /\ Len(h) + i \in 1 .. Len(u) /\ Len(h) + i <= Len(v)
    BY <1>2, <2>1
  <2>3. u[Len(h) + i] # v[Len(h) + i]
    BY <1>2, <2>1, <2>2
  <2>4. QED BY <2>2, <2>3 DEF Clash
<1>4. CASE Len(p) < Len(q) /\ q[Len(p) + 1] = 255
  <2>1. Len(p) + 1 \in 1 .. Len(q) /\ Len(h) + (Len(p) + 1) = Len(u) + 1 /\ Len(u) < Len(v)
    BY <1>2, <1>4
  <2>2. v[Len(u) + 1] = 255
    BY <1>2, <1>4, <2>1
  <2>3. QED BY <2>1, <2>2 DEF Clash
<1>5. CASE Len(q) < Len(p) /\ p[Len(q) + 1] = 255
  <2>1. Len(q) + 1 \in 1 .. Len(p) /\ Len(h) + (Len(q) + 1) = Len(v) + 1 /\ Len(v) < Len(u)
    BY <1>2, <1>5
  <2>2. u[Len(v) + 1] = 255
    BY <1>2, <1>5, <2>1
  <2>3. QED BY <2>1, <2>2 DEF Clash
<1>6. QED BY <1>3, <1>4, <1>5 DEF Clash

LEMMA ByteSized == /\ \A n \in Nat : n <= 255 => n \in (-256) .. 255
                    /\ 4 \in Nat \ {0} /\ 2 \in 2 .. 4
OBVIOUS

\* A value behind its length.
LEMMA ListBytes ==
  ASSUME NEW v \in Seq(0 .. 255), Len(v) <= 255
  PROVE  LET b == Hash!Bytes(Len(v), 4) \o v
         IN  b \in Seq(Int) /\ Joins(Hash!Bytes(Len(v), 4), v, b) /\ Len(b) >= 4 /\ b[1] = Len(v) /\ b[2] = 0
<1> DEFINE h == Hash!Bytes(Len(v), 4)
           b == h \o v
<1>0. Len(v) \in Nat
  BY LenProperties
<1>1. Len(v) \in (-256) .. 255 /\ 4 \in Nat \ {0} /\ 2 \in 2 .. 4
  BY <1>0, ByteSized, Zenon
<1>2. AreBytes(h, Len(v), 4)
  BY <1>1, ByteFacts
<1> HIDE DEF h
<1>3. h \in Seq(Int) /\ Len(h) = 4 /\ h[1] = Len(v) /\ h[2] = 0
  BY <1>1, <1>2 DEF AreBytes
<1>4. v \in Seq(Int)
  BY SeqMonotonic, 0 .. 255 \subseteq Int
<1>5. Joins(h, v, b) /\ b \in Seq(Int)
  BY <1>3, <1>4, JoinsTwo, ConcatProperties
<1> HIDE DEF b
<1>6. Len(b) >= 4 /\ b[1] = Len(v) /\ b[2] = 0
  BY <1>3, <1>5 DEF Joins
<1>7. b \in Seq(Int) /\ Joins(h, v, b) /\ Len(b) >= 4 /\ b[1] = Len(v) /\ b[2] = 0
  BY <1>5, <1>6
<1>8. QED BY <1>7 DEF b, h

LEMMA ListsTell ==
  ASSUME NEW v \in Seq(0 .. 255), Len(v) <= 255, NEW w \in Seq(0 .. 255), Len(w) <= 255, v # w
  PROVE  Clash(Hash!Bytes(Len(v), 4) \o v, Hash!Bytes(Len(w), 4) \o w)
<1> DEFINE p == Hash!Bytes(Len(v), 4) \o v
           q == Hash!Bytes(Len(w), 4) \o w
<1>1. p \in Seq(Int) /\ q \in Seq(Int) /\ Len(p) >= 4 /\ Len(q) >= 4 /\ p[1] = Len(v) /\ q[1] = Len(w)
  BY ListBytes
<1>2. CASE Len(v) = Len(w)
  <2> DEFINE h == Hash!Bytes(Len(v), 4)
  <2>1. h \in Seq(Int)
    <3>0. Len(v) \in Nat
      BY LenProperties
    <3>1. Len(v) \in (-256) .. 255 /\ 4 \in Nat \ {0}
      BY <3>0, ByteSized, Zenon
    <3>2. QED BY <3>1, ByteFacts DEF AreBytes
  <2>2. v \in Seq(Int) /\ w \in Seq(Int)
    BY SeqMonotonic, 0 .. 255 \subseteq Int
  <2> HIDE DEF h
  <2>3. Clash(h \o v, h \o w)
    BY <1>2, <2>1, <2>2, Differ, ClashBehind
  <2>4. QED BY <1>2, <2>3 DEF h
<1>3. CASE Len(v) # Len(w)
  <2> HIDE DEF p, q
  <2>1. Clash(p, q)
    <3>1. 1 \in 1 .. Len(p) /\ 1 <= Len(q)
      BY <1>1, LenProperties
    <3>2. QED BY <1>1, <1>3, <3>1 DEF Clash
  <2>2. QED BY <2>1 DEF p, q
<1>4. QED BY <1>2, <1>3

LEMMA ListNotNull ==
  ASSUME NEW v \in Seq(0 .. 255), Len(v) <= 255, NEW n, AllOnes(n)
  PROVE  Clash(Hash!Bytes(Len(v), 4) \o v, n)
<1> DEFINE p == Hash!Bytes(Len(v), 4) \o v
<1>1. p \in Seq(Int) /\ Len(p) >= 4 /\ p[2] = 0
  BY ListBytes
<1> HIDE DEF p
<1>2. Len(p) \in Nat /\ Len(n) = 8 /\ n[2] = 255
  BY <1>1, LenProperties DEF AllOnes
<1>3. 2 \in 1 .. Len(p) /\ 2 <= Len(n) /\ p[2] # n[2]
  BY <1>1, <1>2
<1>4. Clash(p, n)
  BY <1>3 DEF Clash
<1>5. QED BY <1>4 DEF p

LEMMA FixedNotNull ==
  ASSUME NEW v \in Seq(Int), NEW n, AllOnes(n), ~Hash!LooksNull({v})
  PROVE  Clash(v, n)
<1>0. ~(Len(v) >= 8 /\ \A i \in 1 .. 8 : v[i] = 255)
  BY DEF Hash!LooksNull
<1>1. Len(v) \in Nat /\ Len(n) = 8 /\ \A i \in 1 .. 8 : n[i] = 255
  BY LenProperties DEF AllOnes
<1>2. CASE \E i \in 1 .. 8 : i <= Len(v) /\ v[i] # 255
  <2>1. PICK i \in 1 .. 8 : i <= Len(v) /\ v[i] # 255
    BY <1>2
  <2>2. i \in 1 .. Len(v) /\ i <= Len(n) /\ v[i] # n[i]
    BY <1>1, <2>1
  <2>3. QED BY <2>2 DEF Clash
<1>3. CASE \A i \in 1 .. 8 : i <= Len(v) => v[i] = 255
  <2>1. CASE Len(v) >= 8
    <3>0. ASSUME NEW i \in 1 .. 8 PROVE v[i] = 255
      <4>1. i <= Len(v)
        <5>1. \A l \in Nat : \A j \in 1 .. 8 : l >= 8 => j <= l
          OBVIOUS
        <5>2. Len(v) \in Nat
          BY <1>1
        <5>3. QED BY <2>1, <5>1, <5>2, Zenon
      <4>2. QED BY <1>3, <4>1
    <3>1. QED BY <1>0, <2>1, <3>0
  <2>2. CASE Len(v) < 8
    <3>1. Len(v) < Len(n) /\ n[Len(v) + 1] = 255
      BY <1>1, <2>2
    <3>2. QED BY <3>1 DEF Clash
  <2>3. QED BY <1>1, <2>1, <2>2
<1>4. QED BY <1>2, <1>3

\* Data of one type are of the same bytes when they are alike, and
\* otherwise of bytes that clash, or one is NULL and the other begins so.
Tell(type, d, e) ==
    /\ Hash!Encode(type, d) \in Seq(Int)
    /\ Alike(type, d, e) => Hash!Encode(type, d) = Hash!Encode(type, e)
    /\ \/ Alike(type, d, e) \/ Hash!Mistakable(type, d, e)
       \/ Clash(Hash!Encode(type, d), Hash!Encode(type, e))

LEMMA ListTells ==
  ASSUME NEW type \in DigestTypes \cap {"varlena", "cstring"},
         NEW d \in Hash!Datum(type), NEW e \in Hash!Datum(type)
  PROVE  Tell(type, d, e)
<1>1. ASSUME NEW x \in Hash!Datum(type)
      PROVE  \/ x = {} /\ AllOnes(Hash!Encode(type, x))
             \/ \E v \in Seq(0 .. 255) : /\ x = {v} /\ Len(v) <= 255
                                         /\ Hash!Encode(type, x) = Hash!Bytes(Len(v), 4) \o v
  <2>1. CASE x = {}
    BY <2>1, NullBytes
  <2>2. CASE x # {}
    <3>1. PICK v \in DigestData[type] : x = {v}
      BY <2>2 DEF Hash!Datum
    <3>2. v \in Seq(0 .. 255) /\ Len(v) <= 255
      <4>1. DigestData[type] \subseteq Seq(0 .. 255)
        BY DigestAssumption
      <4>2. \A w \in DigestData[type] : Len(w) <= 255
        BY DigestAssumption
      <4>3. QED BY <4>1, <4>2, Zenon
    <3>3. Hash!Encode(type, {v}) = Hash!Bytes(Len(v), 4) \o v
      BY ValueBytes
    <3>4. QED BY <3>1, <3>2, <3>3
  <2>3. QED BY <2>1, <2>2
<1>2. CASE d = {}
  <2>1. AllOnes(Hash!Encode(type, d))
    BY <1>2, NullBytes
  <2>2. CASE e = {}
    BY <1>2, <2>1, <2>2 DEF Tell, Alike, AllOnes
  <2>3. CASE e # {}
    <3>1. PICK w \in Seq(0 .. 255) : /\ e = {w} /\ Len(w) <= 255
                                      /\ Hash!Encode(type, e) = Hash!Bytes(Len(w), 4) \o w
      BY <1>1, <2>3
    <3>2. Clash(Hash!Encode(type, e), Hash!Encode(type, d))
      BY <2>1, <3>1, ListNotNull
    <3>3. Hash!Encode(type, e) \in Seq(Int) /\ Hash!Encode(type, d) \in Seq(Int)
      BY <2>1, <3>1, ListBytes DEF AllOnes
    <3>4. QED BY <1>2, <2>3, <3>2, <3>3, ClashTurned DEF Tell, Alike
  <2>4. QED BY <2>2, <2>3
<1>3. CASE d # {}
  <2>1. PICK v \in Seq(0 .. 255) : /\ d = {v} /\ Len(v) <= 255
                                    /\ Hash!Encode(type, d) = Hash!Bytes(Len(v), 4) \o v
    BY <1>1, <1>3
  <2>2. Hash!Encode(type, d) \in Seq(Int)
    BY <2>1, ListBytes
  <2>3. CASE e = {}
    <3>1. Clash(Hash!Encode(type, d), Hash!Encode(type, e))
      BY <2>1, <2>3, NullBytes, ListNotNull
    <3>2. QED BY <1>3, <2>2, <2>3, <3>1 DEF Tell, Alike
  <2>4. CASE e # {}
    <3>1. PICK w \in Seq(0 .. 255) : /\ e = {w} /\ Len(w) <= 255
                                      /\ Hash!Encode(type, e) = Hash!Bytes(Len(w), 4) \o w
      BY <1>1, <2>4
    <3>2. CASE v = w
      BY <2>1, <2>2, <3>1, <3>2 DEF Tell, Alike
    <3>3. CASE v # w
      <4>1. Clash(Hash!Encode(type, d), Hash!Encode(type, e))
        BY <2>1, <3>1, <3>3, ListsTell
      <4>2. d # e
        BY <2>1, <3>1, <3>3
      <4>3. QED BY <2>2, <4>1, <4>2 DEF Tell, Alike
    <3>4. QED BY <3>2, <3>3
  <2>5. QED BY <2>3, <2>4
<1>4. QED BY <1>2, <1>3

LEMMA FixedTells ==
  ASSUME "fixed" \in DigestTypes, NEW d \in Hash!Datum("fixed"), NEW e \in Hash!Datum("fixed")
  PROVE  Tell("fixed", d, e)
<1>0. \A v, w \in DigestData["fixed"] : Len(v) = Len(w)
  BY DigestAssumption
<1>1. DigestData["fixed"] \subseteq Seq(Int)
  <2>1. DigestData["fixed"] \subseteq Seq(0 .. 255)
    BY DigestAssumption
  <2>2. QED BY <2>1, SeqMonotonic, 0 .. 255 \subseteq Int
<1>2. ASSUME NEW x \in Hash!Datum("fixed")
      PROVE  \/ x = {} /\ AllOnes(Hash!Encode("fixed", x))
             \/ \E v \in DigestData["fixed"] : x = {v} /\ Hash!Encode("fixed", x) = v
  BY NullBytes, ValueBytes DEF Hash!Datum
<1>3. ASSUME NEW v \in DigestData["fixed"], NEW n, AllOnes(n), ~Hash!LooksNull({v}) PROVE Clash(v, n)
  <2>1. v \in Seq(Int)
    BY <1>1
  <2>2. QED BY <1>3, <2>1, FixedNotNull
<1>4. CASE d = {}
  <2>1. AllOnes(Hash!Encode("fixed", d))
    BY <1>4, NullBytes
  <2>2. CASE e = {}
    BY <1>4, <2>1, <2>2 DEF Tell, Alike, AllOnes
  <2>3. CASE e # {}
    <3>1. PICK w \in DigestData["fixed"] : e = {w} /\ Hash!Encode("fixed", e) = w
      BY <1>2, <2>3
    <3>2. Clash(Hash!Encode("fixed", e), Hash!Encode("fixed", d)) \/ Hash!LooksNull(e)
      BY <1>3, <2>1, <3>1
    <3>3. Hash!Encode("fixed", e) \in Seq(Int) /\ Hash!Encode("fixed", d) \in Seq(Int)
      BY <1>1, <2>1, <3>1 DEF AllOnes
    <3>4. Clash(Hash!Encode("fixed", d), Hash!Encode("fixed", e)) \/ Hash!Mistakable("fixed", d, e)
      BY <1>4, <3>2, <3>3, ClashTurned DEF Hash!Mistakable
    <3>5. ~Alike("fixed", d, e)
      BY <1>4, <2>3 DEF Alike
    <3>6. QED BY <3>3, <3>4, <3>5 DEF Tell
  <2>4. QED BY <2>2, <2>3
<1>5. CASE d # {}
  <2>1. PICK v \in DigestData["fixed"] : d = {v} /\ Hash!Encode("fixed", d) = v
    BY <1>2, <1>5
  <2>2. CASE e = {}
    <3>1. Clash(Hash!Encode("fixed", d), Hash!Encode("fixed", e)) \/ Hash!Mistakable("fixed", d, e)
      <4>1. AllOnes(Hash!Encode("fixed", e))
        BY <2>2, NullBytes
      <4>2. QED BY <1>3, <2>1, <2>2, <4>1 DEF Hash!Mistakable
    <3>2. ~Alike("fixed", d, e)
      BY <1>5, <2>2 DEF Alike
    <3>3. QED BY <1>1, <2>1, <3>1, <3>2 DEF Tell
  <2>3. CASE e # {}
    <3>1. PICK w \in DigestData["fixed"] : e = {w} /\ Hash!Encode("fixed", e) = w
      BY <1>2, <2>3
    <3>2. CASE v = w
      BY <1>1, <2>1, <3>1, <3>2 DEF Tell, Alike
    <3>3. CASE v # w
      <4>1. Clash(v, w)
        BY <1>0, <1>1, <3>3, Differ
      <4>2. ~Alike("fixed", d, e)
        BY <2>1, <3>1, <3>3 DEF Alike
      <4>3. QED BY <1>1, <2>1, <3>1, <4>1, <4>2 DEF Tell
    <3>4. QED BY <3>2, <3>3
  <2>4. QED BY <2>2, <2>3
<1>6. QED BY <1>4, <1>5

LEMMA EncodeTells ==
  ASSUME NEW type \in DigestTypes, NEW d \in Hash!Datum(type), NEW e \in Hash!Datum(type)
  PROVE  Tell(type, d, e)
<1>1. type \in {"byval", "varlena", "cstring", "fixed"}
  BY DigestAssumption
<1>2. CASE type = "byval"
  BY <1>2, ByvalTells DEF Tell
<1>3. CASE type \in {"varlena", "cstring"}
  BY <1>3, ListTells
<1>4. CASE type = "fixed"
  BY <1>4, FixedTells
<1>5. QED BY <1>1, <1>2, <1>3, <1>4

\* A table as pg_rowhash meets it: attributes, and a datum for each.
AnyDatum == UNION {Hash!Datum(type) : type \in DigestTypes}

Table(cols, data) ==
    /\ cols \in Seq([name : DigestNames, type : DigestTypes, dropped : BOOLEAN])
    /\ Len(cols) <= MaxDigestColumns
    /\ data \in Seq(AnyDatum) /\ Len(data) = Len(cols)
    /\ \A i \in 1 .. Len(cols) : data[i] \in Hash!Datum(cols[i].type)

PiecesOf(cols, data) == [k \in 1 .. Len(cols) |-> Hash!Piece(cols, data, k)]

\* The bytes of one column: nothing, or its number and its datum.
Header(k) == Hash!Bytes(k - 1, 4)

IsHeader(h, k) == h \in Seq(Int) /\ Len(h) = 4 /\ h[1] = k - 1

LEMMA HeaderIs == ASSUME NEW k \in 1 .. 255 PROVE IsHeader(Header(k), k)
<1>1. k - 1 \in (-256) .. 255 /\ 4 \in Nat \ {0} /\ ~(k - 1 < 0)
  OBVIOUS
<1>2. AreBytes(Hash!Bytes(k - 1, 4), k - 1, 4)
  BY <1>1, ByteFacts
<1> DEFINE b == Hash!Bytes(k - 1, 4)
<1> HIDE DEF b
<1>3. b \in Seq(Int) /\ Len(b) = 4 /\ b[1] = (IF k - 1 < 0 THEN (k - 1) + 256 ELSE k - 1)
  BY <1>2 DEF AreBytes, b
<1>4. IsHeader(b, k)
  BY <1>1, <1>3 DEF IsHeader
<1>5. QED BY <1>4 DEF b, Header

WholePiece(q, h, e, k) == q = h \o e /\ q \in Seq(Int) /\ Len(q) # 0 /\ q[1] = k - 1

LEMMA Headed == ASSUME NEW k \in 1 .. 255, NEW h, IsHeader(h, k), NEW e \in Seq(Int)
                PROVE  WholePiece(h \o e, h, e, k)
<1>1. h \in Seq(Int) /\ Len(h) = 4 /\ h[1] = k - 1
  BY DEF IsHeader
<1> DEFINE q == h \o e
<1>2. q \in Seq(Int) /\ Joins(h, e, q)
  BY <1>1, JoinsTwo
<1> HIDE DEF q
<1>3. Len(q) = 4 + Len(e) /\ Len(e) \in Nat /\ 1 \in 1 .. Len(h) /\ q[1] = h[1]
  BY <1>1, <1>2 DEF Joins
<1>4. Len(q) # 0 /\ q[1] = k - 1
  BY <1>1, <1>3
<1>5. QED BY <1>2, <1>4 DEF q, WholePiece

PieceOf(cols, data, k, q) ==
    \/ /\ k \in Hash!HashColumns(cols)
       /\ WholePiece(q, Header(k), Hash!Encode(cols[k].type, data[k]), k)
    \/ k \notin Hash!HashColumns(cols) /\ q = <<>>

LEMMA PieceIs ==
  ASSUME NEW cols, NEW data, Table(cols, data), NEW k \in 1 .. Len(cols)
  PROVE  PieceOf(cols, data, k, Hash!Piece(cols, data, k))
<1>1. k \in 1 .. 255
  <2>1. Len(cols) <= MaxDigestColumns /\ MaxDigestColumns \in 0 .. 255 /\ Len(cols) \in Nat
    BY DigestAssumption DEF Table
  <2>2. QED BY <2>1
<1>2. CASE k \in Hash!HashColumns(cols)
  <2> DEFINE e == Hash!Encode(cols[k].type, data[k])
  <2>1. cols[k].type \in DigestTypes /\ data[k] \in Hash!Datum(cols[k].type)
    <3>1. /\ cols \in Seq([name : DigestNames, type : DigestTypes, dropped : BOOLEAN])
          /\ \A i \in 1 .. Len(cols) : data[i] \in Hash!Datum(cols[i].type)
      BY DEF Table
    <3>2. cols[k] \in [name : DigestNames, type : DigestTypes, dropped : BOOLEAN]
      <4>1. cols \in Seq([name : DigestNames, type : DigestTypes, dropped : BOOLEAN])
        BY DEF Table
      <4>2. QED BY <4>1, ElementOfSeq
    <3>3. cols[k].type \in DigestTypes
      BY <3>2
    <3>4. QED BY <3>1, <3>3, Zenon
  <2>2. e \in Seq(Int)
    BY <2>1, EncodeTells DEF Tell
  <2>3. Hash!Piece(cols, data, k) = Header(k) \o e
    BY <1>2 DEF Hash!Piece, Header
  <2> HIDE DEF e
  <2>4. IsHeader(Header(k), k)
    BY <1>1, HeaderIs
  <2>5. WholePiece(Header(k) \o e, Header(k), e, k)
    BY <1>1, <2>2, <2>4, Headed
  <2>6. QED BY <1>2, <2>3, <2>5 DEF PieceOf, e
<1>3. CASE k \notin Hash!HashColumns(cols)
  BY <1>3 DEF Hash!Piece, PieceOf
<1>4. QED BY <1>2, <1>3

LEMMA NoBytes == <<>> \in Seq(Int) /\ Len(<<>>) = 0
OBVIOUS

LEMMA ManyPieces ==
  ASSUME NEW cols, NEW data, Table(cols, data)
  PROVE  Pieces(Len(cols), PiecesOf(cols, data))
<1> DEFINE Q == PiecesOf(cols, data)
<1>1. ASSUME NEW k \in 1 .. Len(cols)
      PROVE  Q[k] \in Seq(Int) /\ (Len(Q[k]) # 0 => Q[k][1] = k - 1)
  <2>1. PieceOf(cols, data, k, Hash!Piece(cols, data, k)) /\ Q[k] = Hash!Piece(cols, data, k)
    BY PieceIs DEF PiecesOf
  <2> HIDE DEF Q
  <2>2. PieceOf(cols, data, k, Q[k])
    BY <2>1
  <2>3. QED BY <2>2, NoBytes, Zenon DEF PieceOf, WholePiece
<1>2. Q = [k \in 1 .. Len(cols) |-> Q[k]]
  BY DEF PiecesOf
<1> HIDE DEF Q
<1>3. Q \in [1 .. Len(cols) -> Seq(Int)]
  BY <1>1, <1>2
<1>4. Pieces(Len(cols), Q)
  BY <1>1, <1>3 DEF Pieces
<1>5. QED BY <1>4 DEF Q

\* The recursive definition of the stream is the string of the pieces.
LEMMA StreamIs ==
  ASSUME NEW cols, NEW data, Table(cols, data)
  PROVE  \E s : /\ Strung(Len(cols), s, PiecesOf(cols, data))
                /\ Hash!Stream(cols, data) = s[Len(cols)]
<1> DEFINE m == Len(cols)
           Q == PiecesOf(cols, data)
           f == Hash!Digested(cols, data)
           G(x) == [n \in 0 .. m |-> IF n = 0 THEN <<>> ELSE x[n - 1] \o Hash!Piece(cols, data, n)]
<1>1. m \in Nat /\ Q \in [1 .. m -> Seq(Int)]
  <2>1. Len(cols) \in Nat
    BY DEF Table
  <2>2. Pieces(m, Q)
    BY ManyPieces
  <2> HIDE DEF Q
  <2>3. QED BY <2>1, <2>2 DEF Pieces
<1>2. PICK s : Strung(m, s, Q)
  <2> HIDE DEF m, Q
  <2>1. QED BY <1>1, Strings
<1>3. \A n \in 1 .. m : Q[n] = Hash!Piece(cols, data, n)
  BY DEF PiecesOf
<1>4. f = CHOOSE x : x = G(x)
  BY DEF Hash!Digested
<1>5. s = G(s)
  <2>1. s \in [0 .. m -> Seq(Int)] /\ s[0] = <<>> /\ \A n \in 1 .. m : s[n] = s[n - 1] \o Hash!Piece(cols, data, n)
    BY <1>2, <1>3 DEF Strung
  <2> DEFINE P(n) == Hash!Piece(cols, data, n)
  <2>2. \A n \in 1 .. m : s[n] = s[n - 1] \o P(n)
    BY <2>1
  <2> HIDE DEF P, m
  <2>3. s = [n \in 0 .. m |-> IF n = 0 THEN <<>> ELSE s[n - 1] \o P(n)]
    BY <2>1, <2>2
  <2>4. QED BY <2>3 DEF P
<1> HIDE DEF f, G
<1>6. f = G(f)
  BY <1>4, <1>5
<1>7. DOMAIN f = 0 .. m /\ f[0] = <<>> /\ \A n \in 1 .. m : f[n] = f[n - 1] \o Q[n]
  <2> DEFINE P(n) == Hash!Piece(cols, data, n)
  <2>1. f = [n \in 0 .. m |-> IF n = 0 THEN <<>> ELSE f[n - 1] \o P(n)]
    BY <1>6 DEF G
  <2>2. \A n \in 1 .. m : Q[n] = P(n)
    BY <1>3
  <2> HIDE DEF P, m, Q
  <2>3. DOMAIN f = 0 .. m /\ \A n \in 0 .. m : f[n] = IF n = 0 THEN <<>> ELSE f[n - 1] \o P(n)
    BY <2>1
  <2>4. 0 \in 0 .. m /\ \A n \in 1 .. m : n \in 0 .. m /\ n # 0
    BY <1>1
  <2>5. QED BY <2>2, <2>3, <2>4
<1> DEFINE Same == {n \in 0 .. m : f[n] = s[n]}
<1>8. Same = 0 .. m
  <2> HIDE DEF Q, m
  <2>1. s[0] = <<>> /\ \A n \in 1 .. m : s[n] = s[n - 1] \o Q[n]
    BY <1>2 DEF Strung
  <2>2. Same \in SUBSET (0 .. m) /\ 0 \in Same
    BY <1>1, <1>7, <2>1
  <2>3. ASSUME NEW n \in 0 .. m, n \in Same, n < m PROVE n + 1 \in Same
    <3>1. n + 1 \in 1 .. m /\ n + 1 \in 0 .. m /\ (n + 1) - 1 = n
      BY <1>1, <2>3
    <3>2. f[n + 1] = f[n] \o Q[n + 1] /\ s[n + 1] = s[n] \o Q[n + 1]
      BY <1>7, <2>1, <3>1
    <3>3. f[n] = s[n]
      BY <2>3
    <3>4. QED BY <3>1, <3>2, <3>3
  <2> HIDE DEF Same
  <2>4. QED BY <1>1, <2>2, <2>3, Climb
<1>9. f[m] = s[m]
  <2>1. m \in 0 .. m
    BY <1>1
  <2> HIDE DEF m
  <2>2. QED BY <1>8, <2>1
<1>10. Hash!Stream(cols, data) = f[m]
  BY DEF Hash!Stream, f
<1>11. QED BY <1>2, <1>9, <1>10

\* What a datum counts as, and a row of them.
ShownAs(type, d) == IF type = "byval" /\ d = {} THEN {-1} ELSE d

ShownOf(cols, data) == [i \in Hash!HashColumns(cols) |-> ShownAs(cols[i].type, data[i])]

LEMMA ShownAlike == \A type, d, e : ShownAs(type, d) = ShownAs(type, e) <=> Alike(type, d, e)
BY DEF ShownAs, Alike

\* Columns are added at the end, and keep their types.
Earlier(c, cols) == Len(c) <= Len(cols) /\ \A i \in 1 .. Len(c) : c[i].type = cols[i].type

LEMMA NoSelfClash == ASSUME NEW q \in Seq(Int) PROVE ~Clash(q, q)
BY DEF Clash

SameAt(c, d, cols, data, k) ==
    /\ k \in Hash!HashColumns(c) <=> k \in Hash!HashColumns(cols)
    /\ k \in Hash!HashColumns(c) => ShownAs(c[k].type, d[k]) = ShownAs(cols[k].type, data[k])

\* A column that shows NULL and what may be taken for it.
MistakenAt(c, d, cols, data, k) ==
    /\ k \in Hash!HashColumns(c) /\ k \in Hash!HashColumns(cols)
    /\ Hash!Mistakable(c[k].type, d[k], data[k])

Paired(c, d, cols, data, k, q, r) ==
    /\ SameAt(c, d, cols, data, k) => q = r
    /\ ~MistakenAt(c, d, cols, data, k) =>
          /\ Len(q) # 0 /\ Len(r) # 0 => q = r \/ Clash(q, r)
          /\ q = r => SameAt(c, d, cols, data, k)
    /\ r = <<>> <=> k \notin Hash!HashColumns(cols)

LEMMA PiecesTell ==
  ASSUME NEW c, NEW d, Table(c, d), NEW cols, NEW data, Table(cols, data),
         Earlier(c, cols), NEW k \in 1 .. Len(c)
  PROVE  Paired(c, d, cols, data, k, Hash!Piece(c, d, k), Hash!Piece(cols, data, k))
<1> DEFINE q == Hash!Piece(c, d, k)
           r == Hash!Piece(cols, data, k)
           type == c[k].type
           u == Hash!Encode(type, d[k])
           v == Hash!Encode(type, data[k])
<1>1. k \in 1 .. Len(cols) /\ cols[k].type = type
  <2>1. Len(c) \in Nat /\ Len(cols) \in Nat /\ Len(c) <= Len(cols)
    BY DEF Table, Earlier
  <2>2. QED BY <2>1 DEF Earlier
<1>2. PieceOf(c, d, k, q)
  BY PieceIs
<1>3. PieceOf(cols, data, k, r)
  BY <1>1, PieceIs
<1>4. d[k] \in Hash!Datum(type) /\ data[k] \in Hash!Datum(type) /\ type \in DigestTypes
  <2>1. c \in Seq([name : DigestNames, type : DigestTypes, dropped : BOOLEAN])
    BY DEF Table
  <2>2. c[k] \in [name : DigestNames, type : DigestTypes, dropped : BOOLEAN]
    BY <2>1, ElementOfSeq
  <2>3. type \in DigestTypes
    BY <2>2
  <2>4. QED BY <1>1, <2>3, Zenon DEF Table
<1>5. Tell(type, d[k], data[k]) /\ Tell(type, data[k], d[k])
  BY <1>4, EncodeTells
<1>6. u \in Seq(Int) /\ v \in Seq(Int) /\ (Alike(type, d[k], data[k]) => u = v)
      /\ (Alike(type, d[k], data[k]) \/ Hash!Mistakable(type, d[k], data[k]) \/ Clash(u, v))
  BY <1>5 DEF Tell
<1>7. Alike(type, d[k], data[k]) <=> ShownAs(c[k].type, d[k]) = ShownAs(cols[k].type, data[k])
  BY <1>1, ShownAlike
<1>8. IsHeader(Header(k), k)
  <2>1. Len(c) \in Nat /\ Len(c) <= MaxDigestColumns /\ MaxDigestColumns \in 1 .. 255
    BY DigestAssumption DEF Table
  <2>2. k \in 1 .. 255
    BY <2>1
  <2>3. QED BY <2>2, HeaderIs
<1> HIDE DEF q, r, u, v
<1> DEFINE h == Header(k)
<1>9. h \in Seq(Int)
  BY <1>8 DEF IsHeader
<1> HIDE DEF h
<1>10. CASE k \in Hash!HashColumns(c) /\ k \in Hash!HashColumns(cols)
  <2>1. q = h \o u /\ Len(q) # 0 /\ q \in Seq(Int)
    BY <1>2, <1>10, Zenon DEF PieceOf, WholePiece, h, u
  <2>2. r = h \o v /\ Len(r) # 0
    BY <1>1, <1>3, <1>10, Zenon DEF PieceOf, WholePiece, h, v
  <2>3. CASE Alike(type, d[k], data[k])
    <3>1. q = r
      BY <1>6, <2>1, <2>2, <2>3
    <3>2. SameAt(c, d, cols, data, k)
      BY <1>7, <1>10, <2>3 DEF SameAt
    <3>3. r # <<>>
      BY <2>2, NoBytes
    <3>4. Paired(c, d, cols, data, k, q, r)
      BY <1>10, <3>1, <3>2, <3>3 DEF Paired
    <3>5. QED BY <3>4 DEF q, r
  <2>4. CASE ~Alike(type, d[k], data[k])
    <3>1. ~SameAt(c, d, cols, data, k)
      BY <1>7, <1>10, <2>4 DEF SameAt
    <3>2. r # <<>>
      BY <2>2, NoBytes
    <3>3. ASSUME ~MistakenAt(c, d, cols, data, k) PROVE Clash(q, r) /\ q # r
      <4>1. Clash(u, v)
        BY <1>6, <1>10, <2>4, <3>3 DEF MistakenAt
      <4>2. Clash(h \o u, h \o v)
        BY <1>6, <1>9, <4>1, ClashBehind
      <4>3. Clash(q, r)
        BY <2>1, <2>2, <4>2, Zenon
      <4>4. q # r
        BY <2>1, <4>3, NoSelfClash
      <4>5. QED BY <4>3, <4>4
    <3>4. Paired(c, d, cols, data, k, q, r)
      BY <1>10, <3>1, <3>2, <3>3, Zenon DEF Paired
    <3>5. QED BY <3>4 DEF q, r
  <2>5. QED BY <2>3, <2>4
<1>11. CASE k \in Hash!HashColumns(c) /\ k \notin Hash!HashColumns(cols)
  <2>1. Len(q) # 0 /\ r = <<>>
    BY <1>2, <1>3, <1>11, Zenon DEF PieceOf, WholePiece
  <2>2. Len(r) = 0 /\ q # r
    BY <2>1, NoBytes
  <2>3. ~SameAt(c, d, cols, data, k)
    BY <1>11 DEF SameAt
  <2>4. Paired(c, d, cols, data, k, q, r)
    BY <1>11, <2>1, <2>2, <2>3, Zenon DEF Paired
  <2>5. QED BY <2>4 DEF q, r
<1>12. CASE k \notin Hash!HashColumns(c) /\ k \in Hash!HashColumns(cols)
  <2>1. Len(r) # 0 /\ q = <<>>
    BY <1>2, <1>3, <1>12, Zenon DEF PieceOf, WholePiece
  <2>2. Len(q) = 0 /\ q # r /\ r # <<>>
    BY <2>1, NoBytes
  <2>3. ~SameAt(c, d, cols, data, k)
    BY <1>12 DEF SameAt
  <2>4. Paired(c, d, cols, data, k, q, r)
    BY <1>12, <2>1, <2>2, <2>3, Zenon DEF Paired
  <2>5. QED BY <2>4 DEF q, r
<1>13. CASE k \notin Hash!HashColumns(c) /\ k \notin Hash!HashColumns(cols)
  <2>1. q = <<>> /\ r = <<>>
    BY <1>2, <1>3, <1>13, Zenon DEF PieceOf
  <2>2. Len(q) = 0
    BY <2>1, NoBytes
  <2>3. SameAt(c, d, cols, data, k)
    BY <1>13 DEF SameAt
  <2>4. Paired(c, d, cols, data, k, q, r)
    BY <1>13, <2>1, <2>2, <2>3, Zenon DEF Paired
  <2>5. QED BY <2>4 DEF q, r
<1>14. QED BY <1>10, <1>11, <1>12, <1>13

LEMMA ShownSame ==
  ASSUME NEW c, NEW d, NEW cols, NEW data
  PROVE  ShownOf(c, d) = ShownOf(cols, data) <=>
            /\ Hash!HashColumns(c) = Hash!HashColumns(cols)
            /\ \A k \in Hash!HashColumns(c) :
                  ShownAs(c[k].type, d[k]) = ShownAs(cols[k].type, data[k])
<1> DEFINE A(k) == ShownAs(c[k].type, d[k])
           B(k) == ShownAs(cols[k].type, data[k])
           M == Hash!HashColumns(c)
           N == Hash!HashColumns(cols)
<1>1. ShownOf(c, d) = [i \in M |-> A(i)] /\ ShownOf(cols, data) = [i \in N |-> B(i)]
  BY DEF ShownOf
<1> HIDE DEF A, B, M, N
<1>2. [i \in M |-> A(i)] = [i \in N |-> B(i)] <=> M = N /\ \A k \in M : A(k) = B(k)
  <2>1. ASSUME [i \in M |-> A(i)] = [i \in N |-> B(i)] PROVE M = N /\ \A k \in M : A(k) = B(k)
    <3> DEFINE f == [i \in M |-> A(i)]
               g == [i \in N |-> B(i)]
    <3>1. DOMAIN f = M /\ (\A k \in M : f[k] = A(k)) /\ DOMAIN g = N /\ \A k \in N : g[k] = B(k)
      OBVIOUS
    <3>2. f = g
      BY <2>1
    <3> HIDE DEF f, g
    <3>3. M = N
      BY <3>1, <3>2
    <3>4. \A k \in M : A(k) = B(k)
      BY <3>1, <3>2, <3>3
    <3>5. QED BY <3>3, <3>4
  <2>2. ASSUME M = N, \A k \in M : A(k) = B(k) PROVE [i \in M |-> A(i)] = [i \in N |-> B(i)]
    BY <2>2
  <2>3. QED BY <2>1, <2>2
<1>3. QED BY <1>1, <1>2 DEF A, B, M, N

LEMMA StreamTells ==
  ASSUME NEW c, NEW d, Table(c, d), NEW cols, NEW data, Table(cols, data), Earlier(c, cols)
  PROVE  /\ ShownOf(c, d) = ShownOf(cols, data) => Hash!Stream(c, d) = Hash!Stream(cols, data)
         /\ Hash!Stream(c, d) = Hash!Stream(cols, data) =>
               ShownOf(c, d) = ShownOf(cols, data) \/ \E k \in 1 .. Len(c) : MistakenAt(c, d, cols, data, k)
<1> DEFINE m == Len(c)
           n == Len(cols)
           Q == PiecesOf(c, d)
           R == PiecesOf(cols, data)
           M == Hash!HashColumns(c)
           N == Hash!HashColumns(cols)
<1>1. m \in 0 .. 255 /\ n \in 0 .. 255 /\ m <= n /\ m \in Nat /\ n \in Nat
  <2>1. /\ Len(c) \in Nat /\ Len(cols) \in Nat /\ Len(c) <= MaxDigestColumns
        /\ Len(cols) <= MaxDigestColumns /\ MaxDigestColumns \in 1 .. 255
    BY DigestAssumption DEF Table
  <2>2. Len(c) <= Len(cols)
    BY DEF Earlier
  <2> HIDE DEF m, n
  <2>3. m \in Nat /\ n \in Nat /\ m <= MaxDigestColumns /\ n <= MaxDigestColumns
        /\ MaxDigestColumns \in 1 .. 255 /\ m <= n
    BY <2>1, <2>2 DEF m, n
  <2>4. QED BY <2>3
<1>2. Pieces(m, Q) /\ Pieces(n, R)
  BY ManyPieces
<1>3. PICK s : Strung(m, s, Q) /\ Hash!Stream(c, d) = s[m]
  BY StreamIs
<1>4. PICK t : Strung(n, t, R) /\ Hash!Stream(cols, data) = t[n]
  BY StreamIs
<1>5. \A k \in 1 .. m : Paired(c, d, cols, data, k, Q[k], R[k])
  <2> SUFFICES ASSUME NEW k \in 1 .. m PROVE Paired(c, d, cols, data, k, Q[k], R[k])
    OBVIOUS
  <2>1. k \in 1 .. n
    BY <1>1
  <2>2. Q[k] = Hash!Piece(c, d, k) /\ R[k] = Hash!Piece(cols, data, k)
    BY <2>1 DEF PiecesOf
  <2>3. QED BY <2>2, PiecesTell
<1>6. M \subseteq 1 .. m /\ N \subseteq 1 .. n
  <2>1. DOMAIN c = 1 .. m /\ DOMAIN cols = 1 .. n
    BY DEF Table
  <2>2. QED BY <2>1 DEF Hash!HashColumns
<1>7. \A k \in 1 .. n : R[k] = <<>> <=> k \notin N
  <2> SUFFICES ASSUME NEW k \in 1 .. n PROVE R[k] = <<>> <=> k \notin N
    OBVIOUS
  <2>1. R[k] = Hash!Piece(cols, data, k)
    BY DEF PiecesOf
  <2>2. PieceOf(cols, data, k, R[k])
    BY <2>1, PieceIs
  <2>3. CASE k \in N
    <3>1. Len(R[k]) # 0
      BY <2>2, <2>3, Zenon DEF PieceOf, WholePiece
    <3>2. QED BY <2>3, <3>1, NoBytes
  <2>4. CASE k \notin N
    BY <2>2, <2>4, Zenon DEF PieceOf
  <2>5. QED BY <2>3, <2>4
<1> HIDE DEF m, n, Q, R, M, N
<1>8. (s[m] = t[n] /\ \A k \in 1 .. m : ~MistakenAt(c, d, cols, data, k)) =>
          (M = N /\ \A k \in M : ShownAs(c[k].type, d[k]) = ShownAs(cols[k].type, data[k]))
  <2> SUFFICES ASSUME s[m] = t[n], \A k \in 1 .. m : ~MistakenAt(c, d, cols, data, k)
               PROVE  M = N /\ \A k \in M : ShownAs(c[k].type, d[k]) = ShownAs(cols[k].type, data[k])
    OBVIOUS
  <2>1. Tellable(m, Q, R)
    BY <1>5, Zenon DEF Paired, Tellable
  <2>2. /\ \A k \in 1 .. m : Q[k] = R[k]
        /\ \A k \in 1 .. n : k > m => R[k] = <<>>
    <3>1. m \in 0 .. 255 /\ n \in 0 .. 255 /\ m <= n /\ Strung(m, s, Q) /\ Strung(n, t, R)
      BY <1>1, <1>3, <1>4
    <3>2. Extended(m, Q, n, R)
      BY <1>2, <2>1, <3>1, Told
    <3>3. QED BY <3>2 DEF Extended
  <2>3. \A k \in 1 .. m : SameAt(c, d, cols, data, k)
    BY <1>5, <2>2, Zenon DEF Paired
  <2>4. \A k \in 1 .. n : k > m => k \notin N
    BY <1>7, <2>2, Zenon
  <2>5. \A k \in N : k \in 1 .. m
    <3> SUFFICES ASSUME NEW k \in N PROVE k \in 1 .. m
      OBVIOUS
    <3>1. k \in 1 .. n
      BY <1>6
    <3>2. ~(k > m)
      BY <2>4, <3>1
    <3>3. QED BY <1>1, <3>1, <3>2
  <2>6. QED BY <1>6, <2>3, <2>5 DEF SameAt, M, N
<1>9. (M = N /\ \A k \in M : ShownAs(c[k].type, d[k]) = ShownAs(cols[k].type, data[k])) => (s[m] = t[n])
  <2> SUFFICES ASSUME M = N, \A k \in M : ShownAs(c[k].type, d[k]) = ShownAs(cols[k].type, data[k])
               PROVE  s[m] = t[n]
    OBVIOUS
  <2>1. \A k \in 1 .. m : Q[k] = R[k]
    <3>1. \A k \in 1 .. m : SameAt(c, d, cols, data, k)
      BY DEF SameAt, M, N
    <3>2. QED BY <1>5, <3>1, Zenon DEF Paired
  <2>2. \A k \in 1 .. n : k > m => R[k] = <<>>
    <3>1. \A k \in 1 .. n : k > m => k \notin M
      BY <1>1, <1>6
    <3>2. QED BY <1>7, <3>1
  <2>4. m \in Nat /\ n \in Nat /\ m <= n /\ Strung(m, s, Q) /\ Strung(n, t, R)
    BY <1>1, <1>3, <1>4
  <2>5. Extended(m, Q, n, R)
    BY <2>1, <2>2 DEF Extended
  <2>6. QED BY <1>2, <2>4, <2>5, Retold
<1>10. Hash!Stream(c, d) = Hash!Stream(cols, data) <=> s[m] = t[n]
  BY <1>3, <1>4
<1>11. ShownOf(c, d) = ShownOf(cols, data) <=>
           M = N /\ \A k \in M : ShownAs(c[k].type, d[k]) = ShownAs(cols[k].type, data[k])
  BY ShownSame DEF M, N
<1>12. QED BY <1>8, <1>9, <1>10, <1>11 DEF m

Attributes == [name : DigestNames, type : DigestTypes, dropped : BOOLEAN]

TablesStand ==
    /\ DOMAIN hashColumns = DigestTables /\ DOMAIN row = DigestTables
    /\ \A t \in DigestTables : Table(hashColumns[t], row[t])

\* The one descriptor kept is that of its table.
DescriptorStands ==
    /\ \A c \in hashCache : c.type \in DigestTables /\ c.desc = hashColumns[c.type]
    /\ \A c, d \in hashCache : c = d

\* What a stored hash was taken of: the table as it stood earlier.
TakenOf(h, cols) ==
    \E c, d : /\ Table(c, d) /\ Earlier(c, cols)
              /\ h.stream = Hash!Stream(c, d) /\ h.shown = ShownOf(c, d)

HashesStand ==
    /\ DOMAIN hashed = DigestTables
    /\ \A t \in DigestTables : \A h \in hashed[t] : TakenOf(h, hashColumns[t])

HashInv == TablesStand /\ DescriptorStands /\ HashesStand

LEMMA HashKeeps == HashInv => Hash!HashTells
<1> DEFINE Mistaken(t, h, i) == Hash!Mistakable(hashColumns[t][i].type, h.shown[i], Hash!Shown(t)[i])
<1> SUFFICES ASSUME HashInv, NEW t \in DigestTables, NEW h \in hashed[t]
             PROVE  /\ h.shown = Hash!Shown(t) => h.stream = Hash!Stream(hashColumns[t], row[t])
                    /\ h.stream = Hash!Stream(hashColumns[t], row[t]) =>
                          \/ h.shown = Hash!Shown(t)
                          \/ \E i \in DOMAIN h.shown \cap DOMAIN Hash!Shown(t) : Mistaken(t, h, i)
  BY Zenon DEF Hash!HashTells
<1>1. PICK c, d : /\ Table(c, d) /\ Earlier(c, hashColumns[t])
                  /\ h.stream = Hash!Stream(c, d) /\ h.shown = ShownOf(c, d)
  BY Zenon DEF HashInv, HashesStand, TakenOf
<1>2. Table(hashColumns[t], row[t])
  BY DEF HashInv, TablesStand
<1>3. Hash!Shown(t) = ShownOf(hashColumns[t], row[t])
  BY Zenon DEF Hash!Shown, ShownOf, ShownAs
<1>4. /\ ShownOf(c, d) = ShownOf(hashColumns[t], row[t]) => Hash!Stream(c, d) = Hash!Stream(hashColumns[t], row[t])
      /\ Hash!Stream(c, d) = Hash!Stream(hashColumns[t], row[t]) =>
            \/ ShownOf(c, d) = ShownOf(hashColumns[t], row[t])
            \/ \E k \in 1 .. Len(c) : MistakenAt(c, d, hashColumns[t], row[t], k)
  BY <1>1, <1>2, StreamTells
<1>5. ASSUME NEW k \in 1 .. Len(c), MistakenAt(c, d, hashColumns[t], row[t], k)
      PROVE  k \in DOMAIN h.shown \cap DOMAIN Hash!Shown(t) /\ Mistaken(t, h, k)
  <2>1. /\ k \in Hash!HashColumns(c) /\ k \in Hash!HashColumns(hashColumns[t])
        /\ Hash!Mistakable(c[k].type, d[k], row[t][k]) /\ c[k].type = "fixed"
        /\ hashColumns[t][k].type = c[k].type
    BY <1>1, <1>5 DEF MistakenAt, Hash!Mistakable, Earlier
  <2>2. k \in DOMAIN h.shown /\ h.shown[k] = d[k]
    BY <1>1, <2>1 DEF ShownOf, ShownAs
  <2>3. k \in DOMAIN Hash!Shown(t) /\ Hash!Shown(t)[k] = row[t][k]
    BY <1>3, <2>1 DEF ShownOf, ShownAs
  <2>4. QED BY <2>1, <2>2, <2>3
<1> HIDE DEF Mistaken
<1>6. QED BY <1>1, <1>3, <1>4, <1>5, Zenon

LEMMA EarlierOn ==
  ASSUME NEW b, NEW c, NEW e, Len(b) \in Nat, Len(c) \in Nat, Len(e) \in Nat, Earlier(b, c), Earlier(c, e)
  PROVE  Earlier(b, e)
BY DEF Earlier

LEMMA TakenStill ==
  ASSUME NEW h, NEW c, NEW e, Len(c) \in Nat, Len(e) \in Nat, TakenOf(h, c), Earlier(c, e)
  PROVE  TakenOf(h, e)
<1>1. PICK b, d : /\ Table(b, d) /\ Earlier(b, c)
                  /\ h.stream = Hash!Stream(b, d) /\ h.shown = ShownOf(b, d)
  BY Zenon DEF TakenOf
<1>2. Len(b) \in Nat
  BY <1>1 DEF Table
<1>3. Earlier(b, e)
  BY <1>1, <1>2, EarlierOn
<1>4. QED BY <1>1, <1>3, Zenon DEF TakenOf

\* The data that a type has include NULL.
LEMMA NullIs == ASSUME NEW k \in DigestTypes PROVE {} \in Hash!Datum(k) /\ {} \in AnyDatum
<1>1. {} \in Hash!Datum(k)
  BY DEF Hash!Datum
<1>2. QED BY <1>1 DEF AnyDatum

LEMMA Appended ==
  ASSUME NEW S, NEW v \in Seq(S), NEW x \in S
  PROVE  /\ Append(v, x) \in Seq(S) /\ Len(Append(v, x)) = Len(v) + 1 /\ Len(v) \in Nat
         /\ \A i \in 1 .. Len(v) : Append(v, x)[i] = v[i]
         /\ Append(v, x)[Len(v) + 1] = x
OBVIOUS

LEMMA TableGrows ==
  ASSUME NEW c, NEW d, Table(c, d), Len(c) < MaxDigestColumns, NEW r \in Attributes
  PROVE  Table(Append(c, r), Append(d, {})) /\ Earlier(c, Append(c, r))
<1> DEFINE e == Append(c, r)
           f == Append(d, {})
<1>1. c \in Seq(Attributes) /\ d \in Seq(AnyDatum) /\ Len(d) = Len(c)
      /\ \A i \in 1 .. Len(c) : d[i] \in Hash!Datum(c[i].type)
  BY DEF Table, Attributes
<1>2. r.type \in DigestTypes
  BY DEF Attributes
<1>3. {} \in Hash!Datum(r.type) /\ {} \in AnyDatum
  BY <1>2, NullIs
<1>4. e \in Seq(Attributes) /\ Len(e) = Len(c) + 1 /\ Len(c) \in Nat
      /\ (\A i \in 1 .. Len(c) : e[i] = c[i]) /\ e[Len(c) + 1] = r
  BY <1>1, Appended
<1>5. f \in Seq(AnyDatum) /\ Len(f) = Len(c) + 1
      /\ (\A i \in 1 .. Len(c) : f[i] = d[i]) /\ f[Len(c) + 1] = {}
  <2>1. f \in Seq(AnyDatum) /\ Len(f) = Len(d) + 1
        /\ (\A i \in 1 .. Len(d) : f[i] = d[i]) /\ f[Len(d) + 1] = {}
    BY <1>1, <1>3, Appended
  <2>2. QED BY <1>1, <2>1
<1> HIDE DEF e, f
<1>6. \A i \in 1 .. Len(e) : f[i] \in Hash!Datum(e[i].type)
  <2> SUFFICES ASSUME NEW i \in 1 .. Len(e) PROVE f[i] \in Hash!Datum(e[i].type)
    OBVIOUS
  <2>1. i \in 1 .. Len(c) \/ i = Len(c) + 1
    BY <1>4
  <2>2. CASE i \in 1 .. Len(c)
    BY <1>1, <1>4, <1>5, <2>2, Zenon
  <2>3. CASE i = Len(c) + 1
    BY <1>3, <1>4, <1>5, <2>3, Zenon
  <2>4. QED BY <2>1, <2>2, <2>3
<1>7. Len(e) <= MaxDigestColumns
  <2>0. MaxDigestColumns \in 1 .. 255
    BY DigestAssumption, Zenon
  <2>1. MaxDigestColumns \in Nat
    BY <2>0
  <2>2. QED BY <1>4, <2>1
<1>8. Table(e, f)
  <2>1. e \in Seq([name : DigestNames, type : DigestTypes, dropped : BOOLEAN])
    BY <1>4 DEF Attributes
  <2>2. Len(f) = Len(e)
    BY <1>4, <1>5
  <2>3. QED BY <1>5, <1>6, <1>7, <2>1, <2>2, Zenon DEF Table
<1>9. Earlier(c, e)
  BY <1>4 DEF Earlier
<1>10. QED BY <1>8, <1>9 DEF e, f

LEMMA TableRecast ==
  ASSUME NEW c, NEW d, Table(c, d), NEW i \in 1 .. Len(c), NEW r \in Attributes, r.type = c[i].type
  PROVE  Table([c EXCEPT ![i] = r], d) /\ Earlier(c, [c EXCEPT ![i] = r])
<1> DEFINE e == [c EXCEPT ![i] = r]
<1>1. c \in Seq(Attributes) /\ Len(c) <= MaxDigestColumns /\ d \in Seq(AnyDatum) /\ Len(d) = Len(c)
      /\ \A j \in 1 .. Len(c) : d[j] \in Hash!Datum(c[j].type)
  BY DEF Table, Attributes
<1>2. e \in Seq(Attributes) /\ Len(e) = Len(c) /\ Len(c) \in Nat
      /\ \A j \in 1 .. Len(c) : e[j] = IF j = i THEN r ELSE c[j]
  <2>1. c \in Seq(Attributes)
    BY <1>1
  <2> HIDE DEF Attributes
  <2>2. QED BY <2>1
<1> HIDE DEF e
<1>3. \A j \in 1 .. Len(c) : e[j].type = c[j].type
  BY <1>2
<1>4. Table(e, d)
  <2>1. e \in Seq([name : DigestNames, type : DigestTypes, dropped : BOOLEAN])
    BY <1>2 DEF Attributes
  <2>2. \A j \in 1 .. Len(e) : d[j] \in Hash!Datum(e[j].type)
    BY <1>1, <1>2, <1>3, Zenon
  <2>3. Len(e) <= MaxDigestColumns /\ Len(d) = Len(e)
    BY <1>1, <1>2
  <2>4. QED BY <1>1, <2>1, <2>2, <2>3, Zenon DEF Table
<1>5. Earlier(c, e)
  BY <1>2, <1>3 DEF Earlier
<1>6. QED BY <1>4, <1>5 DEF e

LEMMA TableRefilled ==
  ASSUME NEW c, NEW d, Table(c, d), NEW i \in 1 .. Len(c), NEW x \in Hash!Datum(c[i].type)
  PROVE  Table(c, [d EXCEPT ![i] = x]) /\ Earlier(c, c)
<1> DEFINE f == [d EXCEPT ![i] = x]
<1>1. c \in Seq(Attributes) /\ Len(c) <= MaxDigestColumns /\ d \in Seq(AnyDatum) /\ Len(d) = Len(c)
      /\ \A j \in 1 .. Len(c) : d[j] \in Hash!Datum(c[j].type)
  BY DEF Table, Attributes
<1>2. x \in AnyDatum
  <2>1. c \in Seq(Attributes)
    BY <1>1
  <2>2. c[i] \in Attributes
    BY <2>1, ElementOfSeq
  <2>3. c[i].type \in DigestTypes
    BY <2>2 DEF Attributes
  <2>4. QED BY <2>3 DEF AnyDatum
<1>3. f \in Seq(AnyDatum) /\ Len(f) = Len(d) /\ \A j \in 1 .. Len(d) : f[j] = IF j = i THEN x ELSE d[j]
  <2>1. d \in Seq(AnyDatum) /\ i \in 1 .. Len(d)
    BY <1>1
  <2> HIDE DEF AnyDatum
  <2>2. QED BY <1>2, <2>1
<1> HIDE DEF f
<1>4. Table(c, f)
  <2>1. \A j \in 1 .. Len(c) : f[j] \in Hash!Datum(c[j].type)
    BY <1>1, <1>3
  <2>2. c \in Seq([name : DigestNames, type : DigestTypes, dropped : BOOLEAN])
    BY <1>1 DEF Attributes
  <2>3. QED BY <1>1, <1>3, <2>1, <2>2, Zenon DEF Table
<1>5. Len(c) \in Nat
  BY <1>1
<1>6. Earlier(c, c)
  BY <1>5 DEF Earlier
<1>7. QED BY <1>4, <1>6 DEF f

LEMMA HashBegins == Hash!Init => HashInv
<1> SUFFICES ASSUME Hash!Init PROVE HashInv
  OBVIOUS
<1>1. PICK plain \in DigestNames \ DigestHidden :
          hashColumns = [t \in DigestTables |-> <<Hash!Column(plain, "byval")>>]
  BY DEF Hash!Init
<1> DEFINE r == Hash!Column(plain, "byval")
<1>2. r \in Attributes /\ r.type = "byval" /\ "byval" \in DigestTypes
  BY DigestAssumption DEF Hash!Column, Attributes
<1> HIDE DEF r
<1>3. {} \in Hash!Datum("byval") /\ {} \in AnyDatum
  BY <1>2, NullIs
<1>4. Table(<<r>>, <<{}>>)
  <2>1. <<r>> \in Seq(Attributes) /\ Len(<<r>>) = 1 /\ <<r>>[1] = r
    BY <1>2
  <2>2. <<{}>> \in Seq(AnyDatum) /\ Len(<<{}>>) = 1 /\ <<{}>>[1] = {}
    BY <1>3
  <2>3. 1 <= MaxDigestColumns
    BY DigestAssumption
  <2> DEFINE c == <<r>>
             d == <<{}>>
  <2> HIDE DEF c, d
  <2>4. c \in Seq([name : DigestNames, type : DigestTypes, dropped : BOOLEAN])
        /\ Len(c) <= MaxDigestColumns /\ d \in Seq(AnyDatum) /\ Len(d) = Len(c)
    BY <2>1, <2>2, <2>3 DEF c, d, Attributes
  <2>5. \A i \in 1 .. Len(c) : d[i] \in Hash!Datum(c[i].type)
    <3>1. \A i \in 1 .. Len(c) : i = 1
      BY <2>1 DEF c
    <3>2. d[1] = {} /\ c[1].type = "byval"
      BY <1>2, <2>1, <2>2 DEF c, d
    <3>3. QED BY <1>3, <3>1, <3>2, Zenon
  <2>6. Table(c, d)
    BY <2>4, <2>5, Zenon DEF Table
  <2>7. QED BY <2>6 DEF c, d
<1>5. TablesStand
  <2>1. hashColumns = [t \in DigestTables |-> <<r>>] /\ row = [t \in DigestTables |-> <<{}>>]
    BY <1>1 DEF Hash!Init, r
  <2>2. QED BY <1>4, <2>1 DEF TablesStand
<1>6. DescriptorStands
  BY DEF DescriptorStands, Hash!Init
<1>7. HashesStand
  <2>1. hashed = [t \in DigestTables |-> {}]
    BY DEF Hash!Init
  <2>2. QED BY <2>1 DEF HashesStand
<1>8. QED BY <1>5, <1>6, <1>7 DEF HashInv

\* A change of a table: its stored hash was taken of an earlier one.
LEMMA Alters ==
  ASSUME HashInv, NEW t \in DigestTables, NEW cols, NEW data, Hash!Alter(t, cols, data),
         Table(cols, data), Earlier(hashColumns[t], cols)
  PROVE  HashInv'
<1>1. /\ hashCache = {} /\ hashCache' = {} /\ hashed' = hashed
      /\ hashColumns' = [hashColumns EXCEPT ![t] = cols] /\ row' = [row EXCEPT ![t] = data]
  BY DEF Hash!Alter
<1>2. /\ DOMAIN hashColumns = DigestTables /\ DOMAIN row = DigestTables
      /\ \A u \in DigestTables : Table(hashColumns[u], row[u])
  BY DEF HashInv, TablesStand
<1>3. /\ DOMAIN hashed = DigestTables
      /\ \A u \in DigestTables : \A h \in hashed[u] : TakenOf(h, hashColumns[u])
  BY DEF HashInv, HashesStand
<1>4. /\ DOMAIN hashColumns' = DigestTables /\ DOMAIN row' = DigestTables
      /\ hashColumns'[t] = cols /\ row'[t] = data
      /\ \A u \in DigestTables \ {t} : hashColumns'[u] = hashColumns[u] /\ row'[u] = row[u]
  BY <1>1, <1>2
<1>5. \A u \in DigestTables : Table(hashColumns'[u], row'[u])
  <2> SUFFICES ASSUME NEW u \in DigestTables PROVE Table(hashColumns'[u], row'[u])
    OBVIOUS
  <2>1. CASE u = t
    BY <1>4, <2>1
  <2>2. CASE u # t
    <3>1. hashColumns'[u] = hashColumns[u] /\ row'[u] = row[u]
      BY <1>4, <2>2
    <3>2. QED BY <1>2, <3>1
  <2>3. QED BY <2>1, <2>2
<1>6. \A u \in DigestTables : \A h \in hashed[u] : TakenOf(h, hashColumns'[u])
  <2> SUFFICES ASSUME NEW u \in DigestTables, NEW h \in hashed[u] PROVE TakenOf(h, hashColumns'[u])
    OBVIOUS
  <2>1. CASE u = t
    <3>1. TakenOf(h, hashColumns[t]) /\ Table(hashColumns[t], row[t])
      BY <1>2, <1>3, <2>1
    <3>2. Len(hashColumns[t]) \in Nat
      BY <3>1 DEF Table
    <3>3. Len(cols) \in Nat
      BY DEF Table
    <3>4. TakenOf(h, cols)
      BY <3>1, <3>2, <3>3, TakenStill
    <3>5. QED BY <1>4, <2>1, <3>4
  <2>2. CASE u # t
    <3>1. hashColumns'[u] = hashColumns[u]
      BY <1>4, <2>2
    <3>2. QED BY <1>3, <3>1
  <2>3. QED BY <2>1, <2>2
<1>7. TablesStand'
  BY <1>4, <1>5 DEF TablesStand
<1>8. HashesStand'
  BY <1>1, <1>3, <1>6 DEF HashesStand
<1>9. DescriptorStands'
  BY <1>1 DEF DescriptorStands
<1>10. QED BY <1>7, <1>8, <1>9 DEF HashInv

LEMMA HashStep == HashInv /\ Hash!Next => HashInv'
<1> SUFFICES ASSUME HashInv, Hash!Next PROVE HashInv'
  OBVIOUS
<1>1. /\ DOMAIN hashColumns = DigestTables /\ DOMAIN row = DigestTables
      /\ \A t \in DigestTables : Table(hashColumns[t], row[t])
  BY DEF HashInv, TablesStand
<1>2. ASSUME NEW t \in DigestTables, NEW n \in DigestNames, NEW k \in DigestTypes, Hash!AddColumn(t, n, k)
      PROVE  HashInv'
  <2> DEFINE r == Hash!Column(n, k)
  <2>1. r \in Attributes
    BY DEF Hash!Column, Attributes
  <2>2. Len(hashColumns[t]) < MaxDigestColumns
        /\ Hash!Alter(t, Append(hashColumns[t], r), Append(row[t], {}))
    BY <1>2 DEF Hash!AddColumn
  <2> HIDE DEF r
  <2>3. /\ Table(Append(hashColumns[t], r), Append(row[t], {}))
        /\ Earlier(hashColumns[t], Append(hashColumns[t], r))
    BY <1>1, <2>1, <2>2, TableGrows
  <2>4. QED BY <2>2, <2>3, Alters
<1>3. ASSUME NEW t \in DigestTables, NEW i \in DOMAIN hashColumns[t]
      PROVE  /\ i \in 1 .. Len(hashColumns[t]) /\ Table(hashColumns[t], row[t])
             /\ hashColumns[t][i] \in Attributes /\ hashColumns[t] \in Seq(Attributes)
  <2>1. Table(hashColumns[t], row[t])
    BY <1>1
  <2>2. hashColumns[t] \in Seq(Attributes)
    BY <2>1 DEF Table, Attributes
  <2>3. i \in 1 .. Len(hashColumns[t])
    BY <1>3, <2>2
  <2>4. hashColumns[t][i] \in Attributes
    BY <2>2, <2>3, ElementOfSeq
  <2>5. QED BY <2>1, <2>2, <2>3, <2>4
<1>4. ASSUME NEW t \in DigestTables, NEW i \in DOMAIN hashColumns[t], Hash!DropColumn(t, i)
      PROVE  HashInv'
  <2> DEFINE r == [hashColumns[t][i] EXCEPT !.dropped = TRUE]
  <2>1. r \in Attributes /\ r.type = hashColumns[t][i].type
    BY <1>3 DEF Attributes
  <2>2. Hash!Alter(t, [hashColumns[t] EXCEPT ![i] = r], row[t])
    BY <1>4 DEF Hash!DropColumn
  <2> HIDE DEF r
  <2>3. /\ Table([hashColumns[t] EXCEPT ![i] = r], row[t])
        /\ Earlier(hashColumns[t], [hashColumns[t] EXCEPT ![i] = r])
    BY <1>3, <2>1, TableRecast
  <2>4. QED BY <2>2, <2>3, Alters
<1>5. ASSUME NEW t \in DigestTables, NEW i \in DOMAIN hashColumns[t], NEW n \in DigestNames,
             Hash!RenameColumn(t, i, n)
      PROVE  HashInv'
  <2> DEFINE r == [hashColumns[t][i] EXCEPT !.name = n]
  <2>1. r \in Attributes /\ r.type = hashColumns[t][i].type
    BY <1>3 DEF Attributes
  <2>2. Hash!Alter(t, [hashColumns[t] EXCEPT ![i] = r], row[t])
    BY <1>5 DEF Hash!RenameColumn
  <2> HIDE DEF r
  <2>3. /\ Table([hashColumns[t] EXCEPT ![i] = r], row[t])
        /\ Earlier(hashColumns[t], [hashColumns[t] EXCEPT ![i] = r])
    BY <1>3, <2>1, TableRecast
  <2>4. QED BY <2>2, <2>3, Alters
<1>6. ASSUME NEW t \in DigestTables, NEW i \in DOMAIN hashColumns[t], Hash!Update(t, i)
      PROVE  HashInv'
  <2>1. PICK d \in Hash!Datum(hashColumns[t][i].type) :
            Hash!Alter(t, hashColumns[t], [row[t] EXCEPT ![i] = d])
    BY <1>6 DEF Hash!Update
  <2>2. /\ Table(hashColumns[t], [row[t] EXCEPT ![i] = d])
        /\ Earlier(hashColumns[t], hashColumns[t])
    BY <1>3, TableRefilled
  <2>3. QED BY <2>1, <2>2, Alters
<1>7. ASSUME NEW t \in DigestTables, Hash!Hash(t) PROVE HashInv'
  <2> DEFINE desc == hashColumns[t]
  <2>1. /\ hashCache' = Hash!Cached(t) /\ hashColumns' = hashColumns /\ row' = row
    BY <1>7 DEF Hash!Hash
  <2>2. PICK c \in hashCache' :
            hashed' = [hashed EXCEPT ![t] =
                {[stream |-> Hash!Stream(c.desc, Hash!Deformed(c.desc, row[t])),
                  shown |-> Hash!Shown(t)]}]
    BY <1>7 DEF Hash!Hash
  <2>3. /\ \A e \in hashCache : e.type \in DigestTables /\ e.desc = hashColumns[e.type]
        /\ \A e, f \in hashCache : e = f
    BY DEF HashInv, DescriptorStands
  <2>4. /\ \A e \in hashCache' : e.type = t /\ e.desc = desc
        /\ \A e, f \in hashCache' : e = f
    <3>1. CASE \E e \in hashCache : e.type = t
      <4>1. hashCache' = hashCache
        BY <2>1, <3>1 DEF Hash!Cached
      <4>2. QED BY <2>3, <3>1, <4>1
    <3>2. CASE ~ \E e \in hashCache : e.type = t
      <4>1. hashCache' = {[type |-> t, desc |-> hashColumns[t]]}
        BY <2>1, <3>2 DEF Hash!Cached, Hash!Descriptor
      <4>2. QED BY <4>1
    <3>3. QED BY <3>1, <3>2
  <2>5. Table(desc, row[t])
    BY <1>1
  <2>6. Hash!Deformed(c.desc, row[t]) = row[t] /\ c.desc = desc
    <3>1. c.desc = desc
      BY <2>4
    <3>2. DOMAIN desc = DOMAIN row[t] /\ row[t] = [i \in DOMAIN row[t] |-> row[t][i]]
      <4>1. desc \in Seq(Attributes) /\ row[t] \in Seq(AnyDatum) /\ Len(row[t]) = Len(desc)
        BY <2>5 DEF Table, Attributes
      <4> HIDE DEF desc
      <4>2. DOMAIN desc = 1 .. Len(desc) /\ DOMAIN row[t] = 1 .. Len(desc)
        BY <4>1
      <4>3. row[t] \in [1 .. Len(row[t]) -> AnyDatum]
        BY <4>1
      <4>4. QED BY <4>2, <4>3
    <3> HIDE DEF desc
    <3>3. Hash!Deformed(desc, row[t]) = row[t]
      BY <3>2 DEF Hash!Deformed
    <3>4. QED BY <3>1, <3>3
  <2>7. Hash!Shown(t) = ShownOf(desc, row[t])
    BY Zenon DEF Hash!Shown, ShownOf, ShownAs
  <2> DEFINE latest == [stream |-> Hash!Stream(desc, row[t]), shown |-> ShownOf(desc, row[t])]
  <2>8. TakenOf(latest, desc)
    <3>1. Len(desc) \in Nat
      BY <2>5 DEF Table
    <3> HIDE DEF desc
    <3>2. Earlier(desc, desc)
      BY <3>1 DEF Earlier
    <3>3. latest.stream = Hash!Stream(desc, row[t]) /\ latest.shown = ShownOf(desc, row[t])
      OBVIOUS
    <3> HIDE DEF latest
    <3>4. QED BY <2>5, <3>2, <3>3, Zenon DEF TakenOf
  <2>9. hashed' = [hashed EXCEPT ![t] = {latest}]
    BY <2>2, <2>6, <2>7, Zenon
  <2> HIDE DEF latest
  <2>10. DOMAIN hashed = DigestTables
         /\ \A u \in DigestTables : \A h \in hashed[u] : TakenOf(h, hashColumns[u])
    BY DEF HashInv, HashesStand
  <2>11. DOMAIN hashed' = DigestTables /\ hashed'[t] = {latest}
         /\ \A u \in DigestTables \ {t} : hashed'[u] = hashed[u]
    BY <2>9, <2>10
  <2>12. \A u \in DigestTables : \A h \in hashed'[u] : TakenOf(h, hashColumns[u])
    <3> SUFFICES ASSUME NEW u \in DigestTables, NEW h \in hashed'[u] PROVE TakenOf(h, hashColumns[u])
      OBVIOUS
    <3>1. CASE u = t
      <4>1. h = latest
        BY <2>11, <3>1
      <4>2. QED BY <2>8, <3>1, <4>1
    <3>2. CASE u # t
      <4>1. h \in hashed[u]
        BY <2>11, <3>2
      <4>2. QED BY <2>10, <4>1
    <3>3. QED BY <3>1, <3>2
  <2>13. HashesStand'
    BY <2>1, <2>11, <2>12 DEF HashesStand
  <2>14. TablesStand'
    BY <1>1, <2>1 DEF TablesStand
  <2>15. DescriptorStands'
    BY <2>1, <2>4 DEF DescriptorStands
  <2>16. QED BY <2>13, <2>14, <2>15 DEF HashInv
<1>8. ASSUME Hash!EndQuery PROVE HashInv'
  <2>1. /\ hashCache' = {} /\ hashColumns' = hashColumns /\ row' = row /\ hashed' = hashed
    BY <1>8 DEF Hash!EndQuery
  <2>2. TablesStand' /\ HashesStand'
    BY <2>1 DEF HashInv, TablesStand, HashesStand
  <2>3. DescriptorStands'
    BY <2>1 DEF DescriptorStands
  <2>4. QED BY <2>2, <2>3 DEF HashInv
<1>9. QED BY <1>2, <1>4, <1>5, <1>6, <1>7, <1>8, Zenon DEF Hash!Next

(***************************************************************************)
(* dlt: the directories of runs, and the table they replace.               *)
(***************************************************************************)

DltPhases == {"planned", "starting", "loading", "done", "failed", "killed"}

DltTyped ==
    /\ dltNow \in Nat /\ swept \in Nat /\ swept <= dltNow /\ alone \subseteq DltRuns
    /\ dltRun \in [DltRuns -> [phase : DltPhases, attempt : 1 .. 2, start : Nat, left : SUBSET DltChunks]]
    /\ \A r \in DltRuns : dltRun[r].start <= dltNow
    /\ dirs \subseteq [run : DltRuns, attempt : 1 .. 2, made : Nat]

AtWork(r) == dltRun[r].phase \in {"starting", "loading"}

\* A run at work has its directory, not made before it began, and is not
\* older than it may become.
InItsDir ==
    \A r \in DltRuns :
        /\ AtWork(r) => /\ dltNow <= dltRun[r].start + DltRuntime
                        /\ \E d \in dirs : d.run = r /\ d.attempt = dltRun[r].attempt
        /\ \A d \in dirs : d.run = r =>
              /\ dltRun[r].phase # "planned"
              /\ AtWork(r) => d.made >= dltRun[r].start
              /\ ~AtWork(r) => swept <= d.made + DltAge

\* The rows of a run that nobody interferes with.
ChunksOf(r, a, C) == [run : {r}, attempt : {a}, chunk : C]
Plus(S, x) == S \cup {x}
RowOf(r, a, c) == [run |-> r, attempt |-> a, chunk |-> c]
Rows(r, C) == ChunksOf(r, dltRun[r].attempt, C)

LoadedSoFar ==
    \A r \in DltRuns :
        /\ dltRun[r].phase = "starting" => dltRun[r].left = DltChunks
        /\ r \in alone /\ dltRun[r].phase = "loading" => dltTable = Rows(r, DltChunks \ dltRun[r].left)
        /\ r \in alone /\ dltRun[r].phase = "done" => dltTable = Rows(r, DltChunks)

DltInv == DltTyped /\ InItsDir /\ LoadedSoFar

LEMMA DltKeeps == DltInv => Dlt!SweepsOnlyTheDead /\ Dlt!LoadedExactly
<1> SUFFICES ASSUME DltInv PROVE Dlt!SweepsOnlyTheDead /\ Dlt!LoadedExactly
  OBVIOUS
<1>1. \A r \in DltRuns : Dlt!Working(r) <=> AtWork(r)
  BY DEF Dlt!Working, AtWork
<1>2. Dlt!SweepsOnlyTheDead
  BY <1>1 DEF Dlt!SweepsOnlyTheDead, Dlt!HasDir, DltInv, DltTyped, InItsDir
<1>3. Dlt!LoadedExactly
  BY DEF Dlt!LoadedExactly, DltInv, DltTyped, LoadedSoFar, Rows, ChunksOf
<1>4. QED BY <1>2, <1>3

LEMMA RowsGrow ==
  \A r, a, C, c : ChunksOf(r, a, Plus(C, c)) = Plus(ChunksOf(r, a, C), RowOf(r, a, c))
<1> SUFFICES ASSUME NEW r, NEW a, NEW C, NEW c
             PROVE  ChunksOf(r, a, Plus(C, c)) = Plus(ChunksOf(r, a, C), RowOf(r, a, c))
  OBVIOUS
<1> DEFINE Old == [run : {r}, attempt : {a}, chunk : C]
           All == [run : {r}, attempt : {a}, chunk : C \cup {c}]
           x == [run |-> r, attempt |-> a, chunk |-> c]
<1>1. x \in All /\ Old \subseteq All
  OBVIOUS
<1>2. ASSUME NEW y \in All PROVE y \in Old \cup {x}
  <2>1. y = [run |-> y.run, attempt |-> y.attempt, chunk |-> y.chunk] /\ y.run = r /\ y.attempt = a /\ y.chunk \in C \cup {c}
    BY <1>2
  <2>2. CASE y.chunk = c
    BY <2>1, <2>2
  <2>3. CASE y.chunk \in C
    BY <2>1, <2>3
  <2>4. QED BY <2>1, <2>2, <2>3
<1> HIDE DEF Old, All, x
<1>3. Old \cup {x} = All
  BY <1>1, <1>2
<1>4. QED BY <1>3 DEF Old, All, x, ChunksOf, RowOf, Plus

LEMMA DltBegins == Dlt!Init => DltInv
BY DEF Dlt!Init, DltInv, DltTyped, InItsDir, LoadedSoFar, AtWork, DltPhases

LEMMA DltStep == DltInv /\ [Dlt!Next]_dlt => DltInv'
<1> SUFFICES ASSUME DltInv, [Dlt!Next]_dlt PROVE DltInv'
  OBVIOUS
<1>a. DltTyped /\ InItsDir /\ LoadedSoFar
  BY DEF DltInv
<1>b. DltRuntime \in Nat /\ DltAge \in Nat /\ DltRuntime <= DltAge
  BY DltAssumption
<1>w. \A r \in DltRuns : Dlt!Working(r) <=> AtWork(r)
  BY DEF Dlt!Working, AtWork
<1>1. CASE UNCHANGED dlt
  BY <1>a, <1>1 DEF dlt, DltInv, DltTyped, InItsDir, LoadedSoFar, AtWork, Rows
<1>2. CASE Dlt!Tick
  <2>1. /\ dltNow' = dltNow + 1 /\ UNCHANGED <<dltRun, dirs, dltTable, alone, swept>>
        /\ \A r \in DltRuns : AtWork(r) => dltNow < dltRun[r].start + DltRuntime
    BY <1>2, <1>w DEF Dlt!Tick
  <2>2. DltTyped'
    BY <1>a, <2>1 DEF DltTyped
  <2>3. InItsDir'
    <3>1. \A r \in DltRuns : AtWork(r) => dltNow + 1 <= dltRun[r].start + DltRuntime
      BY <1>a, <1>b, <2>1 DEF DltTyped
    <3>2. QED BY <1>a, <2>1, <3>1 DEF InItsDir, AtWork
  <2>4. LoadedSoFar'
    BY <1>a, <2>1 DEF LoadedSoFar, Rows
  <2>5. QED BY <2>2, <2>3, <2>4 DEF DltInv
<1>3. ASSUME NEW r \in DltRuns, Dlt!Begin(r) PROVE DltInv'
  <2> DEFINE fresh == [phase |-> "starting", attempt |-> 1, start |-> dltNow, left |-> DltChunks]
             dir == [run |-> r, attempt |-> 1, made |-> dltNow]
  <2>1. /\ dltRun[r].phase = "planned" /\ dltRun' = [dltRun EXCEPT ![r] = fresh]
        /\ dirs' = {d \in dirs : ~(dltNow > d.made + DltAge)} \cup {dir}
        /\ swept' = dltNow /\ UNCHANGED <<dltNow, dltTable, alone>>
    BY <1>3 DEF Dlt!Begin, Dlt!Stale
  <2>2. fresh \in [phase : DltPhases, attempt : 1 .. 2, start : Nat, left : SUBSET DltChunks]
        /\ dir \in [run : DltRuns, attempt : 1 .. 2, made : Nat]
        /\ fresh.phase = "starting" /\ fresh.attempt = 1 /\ fresh.start = dltNow /\ fresh.left = DltChunks
        /\ dir.run = r /\ dir.attempt = 1 /\ dir.made = dltNow
    BY <1>a DEF DltTyped, DltPhases
  <2> HIDE DEF fresh, dir
  <2>3. \A q \in DltRuns : dltRun'[q] = IF q = r THEN fresh ELSE dltRun[q]
    BY <1>a, <2>1 DEF DltTyped
  <2>4. DltTyped'
    <3>1. dltRun' \in [DltRuns -> [phase : DltPhases, attempt : 1 .. 2, start : Nat, left : SUBSET DltChunks]]
      BY <1>a, <2>1, <2>2 DEF DltTyped
    <3>2. \A q \in DltRuns : dltRun'[q].start <= dltNow
      BY <1>a, <2>2, <2>3 DEF DltTyped
    <3>3. dirs' \subseteq [run : DltRuns, attempt : 1 .. 2, made : Nat]
      BY <1>a, <2>1, <2>2 DEF DltTyped
    <3>4. dltNow' \in Nat /\ swept' \in Nat /\ swept' <= dltNow' /\ alone' \subseteq DltRuns
      BY <1>a, <2>1 DEF DltTyped
    <3>5. QED BY <2>1, <3>1, <3>2, <3>3, <3>4 DEF DltTyped
  <2>5. InItsDir'
    <3>1. ASSUME NEW q \in DltRuns, q # r, AtWork(q)
          PROVE  /\ dltNow <= dltRun[q].start + DltRuntime
                 /\ \E d \in dirs' : d.run = q /\ d.attempt = dltRun[q].attempt
      <4>1. PICK d \in dirs : d.run = q /\ d.attempt = dltRun[q].attempt /\ d.made >= dltRun[q].start
        BY <1>a, <3>1 DEF InItsDir
      <4>2. dltNow <= dltRun[q].start + DltRuntime
        BY <1>a, <3>1 DEF InItsDir
      <4>3. d.made \in Nat /\ dltRun[q].start \in Nat /\ dltNow \in Nat
        BY <1>a DEF DltTyped
      <4>4. ~(dltNow > d.made + DltAge)
        BY <1>b, <4>1, <4>2, <4>3
      <4>5. QED BY <2>1, <4>1, <4>2, <4>4
    <3>2. ASSUME NEW d \in dirs', d # dir
          PROVE  d \in dirs /\ d.run # r /\ dltNow <= d.made + DltAge
      <4>1. d \in dirs /\ ~(dltNow > d.made + DltAge)
        BY <2>1, <3>2
      <4>2. d.made \in Nat /\ dltNow \in Nat
        BY <1>a, <4>1 DEF DltTyped
      <4>3. d.run # r
        BY <1>a, <2>1, <4>1 DEF InItsDir
      <4>4. QED BY <1>b, <4>1, <4>2, <4>3
    <3>3. dir \in dirs' /\ dltNow \in Nat /\ dltNow <= dltNow + DltRuntime
      BY <1>a, <1>b, <2>1 DEF DltTyped
    <3>4. ASSUME NEW q \in DltRuns, AtWork(q)'
          PROVE  /\ dltNow' <= dltRun'[q].start + DltRuntime
                 /\ \E d \in dirs' : d.run = q /\ d.attempt = dltRun'[q].attempt
      BY <2>1, <2>2, <2>3, <3>1, <3>3, <3>4 DEF AtWork
    <3>5. ASSUME NEW q \in DltRuns, NEW d \in dirs', d.run = q
          PROVE  /\ dltRun'[q].phase # "planned"
                 /\ AtWork(q)' => d.made >= dltRun'[q].start
                 /\ ~AtWork(q)' => swept' <= d.made + DltAge
      <4>1. CASE d = dir
        BY <2>2, <2>3, <3>3, <3>5, <4>1 DEF AtWork
      <4>2. CASE d # dir
        BY <1>a, <2>1, <2>3, <3>2, <3>5, <4>2 DEF AtWork, InItsDir
      <4>3. QED BY <4>1, <4>2
    <3>6. QED BY <3>4, <3>5 DEF InItsDir
  <2>6. LoadedSoFar'
    <3>1. dltTable' = dltTable /\ alone' = alone
      BY <2>1
    <3>2. dltRun'[r].phase = "starting" /\ dltRun'[r].left = DltChunks
      BY <2>2, <2>3
    <3>3. \A q \in DltRuns \ {r} : dltRun'[q] = dltRun[q]
      BY <2>3
    <3>4. QED BY <1>a, <3>1, <3>2, <3>3 DEF LoadedSoFar, Rows
  <2>7. QED BY <2>4, <2>5, <2>6 DEF DltInv
<1>d. ASSUME NEW r \in DltRuns, dltRun' \in [DltRuns -> [phase : DltPhases, attempt : 1 .. 2, start : Nat, left : SUBSET DltChunks]],
             \A q \in DltRuns \ {r} : dltRun'[q] = dltRun[q],
             dltRun'[r].start = dltRun[r].start, dltRun'[r].attempt = dltRun[r].attempt,
             AtWork(r), UNCHANGED <<dltNow, dirs, swept>>, dltRun'[r].phase # "planned"
      PROVE  InItsDir'
  <2>1. ASSUME NEW q \in DltRuns, NEW d \in dirs, d.run = q
        PROVE  /\ dltRun'[q].phase # "planned"
               /\ AtWork(q)' => d.made >= dltRun'[q].start
               /\ ~AtWork(q)' => swept <= d.made + DltAge
    <3>1. CASE q # r
      BY <1>a, <1>d, <2>1, <3>1 DEF InItsDir, AtWork
    <3>2. CASE q = r
      <4>1. d.made >= dltRun[r].start /\ dltNow <= dltRun[r].start + DltRuntime
        BY <1>a, <1>d, <2>1, <3>2 DEF InItsDir
      <4>2. d.made \in Nat /\ dltRun[r].start \in Nat /\ dltNow \in Nat /\ swept \in Nat /\ swept <= dltNow
        BY <1>a DEF DltTyped
      <4>3. swept <= d.made + DltAge
        BY <1>b, <4>1, <4>2
      <4>4. QED BY <1>d, <3>2, <4>1, <4>3
    <3>3. QED BY <3>1, <3>2
  <2>2. ASSUME NEW q \in DltRuns, AtWork(q)'
        PROVE  /\ dltNow <= dltRun'[q].start + DltRuntime
               /\ \E d \in dirs : d.run = q /\ d.attempt = dltRun'[q].attempt
    <3>1. AtWork(q)
      BY <1>d, <2>2 DEF AtWork
    <3>2. QED BY <1>a, <1>d, <3>1 DEF InItsDir
  <2>3. QED BY <1>d, <2>1, <2>2 DEF InItsDir
<1>g. ASSUME NEW r \in DltRuns, dltRun' \in [DltRuns -> [phase : DltPhases, attempt : 1 .. 2, start : Nat, left : SUBSET DltChunks]],
             \A q \in DltRuns \ {r} : dltRun'[q] = dltRun[q],
             AtWork(r), UNCHANGED <<dltNow, swept>>,
             NEW D, dirs' = {d \in dirs : d.run # r} \cup D,
             \/ D = {} /\ dltRun'[r].phase \in {"done", "failed"}
             \/ /\ dltRun'[r].phase = "starting" /\ dltRun'[r].start = dltRun[r].start
                /\ D = {[run |-> r, attempt |-> dltRun'[r].attempt, made |-> dltNow]}
                /\ dltRun[r].start <= dltNow
      PROVE  InItsDir'
  <2>1. \A d \in dirs' : d.run # r => d \in dirs
    BY <1>g
  <2>2. \A d \in dirs : d.run # r => d \in dirs'
    BY <1>g
  <2>3. \A q \in DltRuns : q # r => (AtWork(q)' <=> AtWork(q))
    BY <1>g DEF AtWork
  <2>4. ASSUME NEW d \in dirs', d.run = r
        PROVE  dltRun'[r].phase = "starting" /\ d.made = dltNow /\ d.attempt = dltRun'[r].attempt
    BY <1>g, <2>4
  <2>5. ASSUME AtWork(r)'
        PROVE  \E d \in dirs' : d.run = r /\ d.attempt = dltRun'[r].attempt
    <3>1. dltRun'[r].phase \notin {"done", "failed"}
      BY <2>5 DEF AtWork
    <3>2. D = {[run |-> r, attempt |-> dltRun'[r].attempt, made |-> dltNow]}
      BY <1>g, <3>1
    <3>3. [run |-> r, attempt |-> dltRun'[r].attempt, made |-> dltNow] \in dirs'
      BY <1>g, <3>2
    <3>4. QED BY <3>3
  <2>6. AtWork(r)' => dltNow <= dltRun'[r].start + DltRuntime
    BY <1>a, <1>g DEF InItsDir, AtWork
  <2>7. ASSUME NEW q \in DltRuns
        PROVE  /\ AtWork(q)' => /\ dltNow' <= dltRun'[q].start + DltRuntime
                                /\ \E d \in dirs' : d.run = q /\ d.attempt = dltRun'[q].attempt
               /\ \A d \in dirs' : d.run = q =>
                     /\ dltRun'[q].phase # "planned"
                     /\ AtWork(q)' => d.made >= dltRun'[q].start
                     /\ ~AtWork(q)' => swept' <= d.made + DltAge
    <3>1. CASE q # r
      BY <1>a, <1>g, <2>1, <2>2, <2>3, <3>1 DEF InItsDir
    <3>2. CASE q = r
      <4>1. ASSUME NEW d \in dirs', d.run = q
            PROVE  dltRun'[q].phase # "planned" /\ AtWork(q)' /\ d.made >= dltRun'[q].start
        BY <1>g, <2>4, <3>2, <4>1 DEF AtWork
      <4>2. QED BY <1>g, <2>5, <2>6, <3>2, <4>1
    <3>3. QED BY <3>1, <3>2
  <2>8. QED BY <2>7 DEF InItsDir
<1> DEFINE Records == [phase : DltPhases, attempt : 1 .. 2, start : Nat, left : SUBSET DltChunks]
<1>e. ASSUME NEW r \in DltRuns, NEW rec \in Records, dltRun' = [dltRun EXCEPT ![r] = rec],
             rec.start = dltRun[r].start
      PROVE  /\ dltRun' \in [DltRuns -> Records]
             /\ dltRun'[r] = rec /\ \A q \in DltRuns \ {r} : dltRun'[q] = dltRun[q]
             /\ \A q \in DltRuns : dltRun'[q].start = dltRun[q].start
  BY <1>a, <1>e DEF DltTyped
<1>4. ASSUME NEW r \in DltRuns, Dlt!Truncate(r) PROVE DltInv'
  <2> DEFINE rec == [dltRun[r] EXCEPT !.phase = "loading"]
  <2>1. /\ dltRun[r].phase = "starting" /\ dltRun' = [dltRun EXCEPT ![r] = rec]
        /\ dltTable' = {} /\ alone' = {r} /\ UNCHANGED <<dltNow, dirs, swept>>
    BY <1>4 DEF Dlt!Truncate
  <2>2. rec \in Records /\ rec.phase = "loading" /\ rec.start = dltRun[r].start
        /\ rec.attempt = dltRun[r].attempt /\ rec.left = dltRun[r].left
    BY <1>a DEF DltTyped, DltPhases
  <2> HIDE DEF rec, Records
  <2>3. /\ dltRun' \in [DltRuns -> Records]
        /\ dltRun'[r] = rec /\ \A q \in DltRuns \ {r} : dltRun'[q] = dltRun[q]
        /\ \A q \in DltRuns : dltRun'[q].start = dltRun[q].start
    BY <1>e, <2>1, <2>2
  <2>4. InItsDir'
    BY <1>d, <2>1, <2>2, <2>3 DEF AtWork, Records
  <2>5. DltTyped'
    BY <1>a, <2>1, <2>3 DEF DltTyped, Records
  <2>6. LoadedSoFar'
    <3>1. dltRun'[r].left = DltChunks
      BY <1>a, <2>1, <2>2, <2>3 DEF LoadedSoFar
    <3>2. ChunksOf(r, dltRun'[r].attempt, DltChunks \ dltRun'[r].left) = {}
      BY <3>1 DEF ChunksOf
    <3>3. QED BY <1>a, <2>1, <2>2, <2>3, <3>1, <3>2 DEF LoadedSoFar, Rows
  <2>7. QED BY <2>4, <2>5, <2>6 DEF DltInv
<1>5. ASSUME NEW r \in DltRuns, NEW chunk \in DltChunks, Dlt!Insert(r, chunk) PROVE DltInv'
  <2> DEFINE rec == [dltRun[r] EXCEPT !.left = @ \ {chunk}]
  <2>1. /\ dltRun[r].phase = "loading" /\ dltRun' = [dltRun EXCEPT ![r] = rec] /\ chunk \in dltRun[r].left
        /\ dltTable' = dltTable \cup {[run |-> r, attempt |-> dltRun[r].attempt, chunk |-> chunk]}
        /\ alone' = alone \cap {r} /\ UNCHANGED <<dltNow, dirs, swept>>
    BY <1>5 DEF Dlt!Insert
  <2>2. rec \in Records /\ rec.phase = "loading" /\ rec.start = dltRun[r].start
        /\ rec.attempt = dltRun[r].attempt /\ rec.left = dltRun[r].left \ {chunk}
    BY <1>a, <2>1 DEF DltTyped, DltPhases
  <2> HIDE DEF rec, Records
  <2>3. /\ dltRun' \in [DltRuns -> Records]
        /\ dltRun'[r] = rec /\ \A q \in DltRuns \ {r} : dltRun'[q] = dltRun[q]
        /\ \A q \in DltRuns : dltRun'[q].start = dltRun[q].start
    BY <1>e, <2>1, <2>2
  <2>4. InItsDir'
    BY <1>d, <2>1, <2>2, <2>3 DEF AtWork, Records
  <2>5. DltTyped'
    BY <1>a, <2>1, <2>3 DEF DltTyped, Records
  <2>6. LoadedSoFar'
    <3>1. ASSUME r \in alone PROVE dltTable' = ChunksOf(r, dltRun'[r].attempt, DltChunks \ dltRun'[r].left)
      <4>1. dltTable = ChunksOf(r, dltRun[r].attempt, DltChunks \ dltRun[r].left)
        BY <1>a, <2>1, <3>1 DEF LoadedSoFar, Rows
      <4>2. DltChunks \ dltRun'[r].left = (DltChunks \ dltRun[r].left) \cup {chunk} /\ dltRun'[r].attempt = dltRun[r].attempt
        BY <1>a, <2>1, <2>2, <2>3 DEF DltTyped
      <4>3. dltTable' = dltTable \cup {[run |-> r, attempt |-> dltRun[r].attempt, chunk |-> chunk]}
        BY <2>1
      <4> DEFINE a == dltRun[r].attempt
                 C == DltChunks \ dltRun[r].left
      <4> HIDE DEF a, C
      <4>4. ChunksOf(r, a, Plus(C, chunk)) = Plus(ChunksOf(r, a, C), RowOf(r, a, chunk))
        BY RowsGrow
      <4>5. Plus(ChunksOf(r, a, C), RowOf(r, a, chunk)) = dltTable'
        BY <4>1, <4>3 DEF a, C, RowOf, Plus
      <4>6. Plus(C, chunk) = DltChunks \ dltRun'[r].left /\ a = dltRun'[r].attempt
        BY <4>2 DEF a, C, Plus
      <4>7. QED BY <4>4, <4>5, <4>6, Zenon
    <3>2. \A q \in DltRuns : q \in alone' => q = r /\ r \in alone
      BY <2>1
    <3>3. dltRun'[r].phase = "loading"
      BY <2>2, <2>3
    <3>4. \A q \in DltRuns : dltRun'[q].phase = "starting" => dltRun'[q].left = DltChunks
      BY <1>a, <2>3, <3>3 DEF LoadedSoFar
    <3>5. QED BY <3>1, <3>2, <3>3, <3>4 DEF LoadedSoFar, Rows
  <2>7. QED BY <2>4, <2>5, <2>6 DEF DltInv
<1>6. ASSUME NEW r \in DltRuns, Dlt!Kill(r) PROVE DltInv'
  <2> DEFINE rec == [dltRun[r] EXCEPT !.phase = "killed"]
  <2>1. /\ AtWork(r) /\ dltRun' = [dltRun EXCEPT ![r] = rec]
        /\ UNCHANGED <<dltNow, dirs, dltTable, alone, swept>>
    BY <1>6, <1>w DEF Dlt!Kill
  <2>2. rec \in Records /\ rec.phase = "killed" /\ rec.start = dltRun[r].start
        /\ rec.attempt = dltRun[r].attempt
    BY <1>a DEF DltTyped, DltPhases
  <2> HIDE DEF rec, Records
  <2>3. /\ dltRun' \in [DltRuns -> Records]
        /\ dltRun'[r] = rec /\ \A q \in DltRuns \ {r} : dltRun'[q] = dltRun[q]
        /\ \A q \in DltRuns : dltRun'[q].start = dltRun[q].start
    BY <1>e, <2>1, <2>2
  <2>4. InItsDir'
    BY <1>d, <2>1, <2>2, <2>3 DEF Records
  <2>5. DltTyped'
    BY <1>a, <2>1, <2>3 DEF DltTyped, Records
  <2>6. LoadedSoFar'
    BY <1>a, <2>1, <2>2, <2>3 DEF LoadedSoFar, Rows
  <2>7. QED BY <2>4, <2>5, <2>6 DEF DltInv
<1>7. ASSUME NEW r \in DltRuns, Dlt!Finish(r) PROVE DltInv'
  <2> DEFINE rec == [dltRun[r] EXCEPT !.phase = "done"]
  <2>1. /\ dltRun[r].phase = "loading" /\ dltRun[r].left = {} /\ dltRun' = [dltRun EXCEPT ![r] = rec]
        /\ dirs' = {d \in dirs : d.run # r} \cup {} /\ UNCHANGED <<dltNow, dltTable, alone, swept>>
    BY <1>7 DEF Dlt!Finish, Dlt!Without
  <2>2. rec \in Records /\ rec.phase = "done" /\ rec.start = dltRun[r].start
        /\ rec.attempt = dltRun[r].attempt
    BY <1>a DEF DltTyped, DltPhases
  <2> HIDE DEF rec, Records
  <2>3. /\ dltRun' \in [DltRuns -> Records]
        /\ dltRun'[r] = rec /\ \A q \in DltRuns \ {r} : dltRun'[q] = dltRun[q]
        /\ \A q \in DltRuns : dltRun'[q].start = dltRun[q].start
    BY <1>e, <2>1, <2>2
  <2>4. InItsDir'
    BY <1>g, <2>1, <2>2, <2>3 DEF AtWork, Records
  <2>5. DltTyped'
    BY <1>a, <2>1, <2>3 DEF DltTyped, Records
  <2>6. LoadedSoFar'
    <3>1. DltChunks \ dltRun[r].left = DltChunks
      BY <2>1
    <3>2. r \in alone => dltTable = ChunksOf(r, dltRun[r].attempt, DltChunks)
      BY <1>a, <2>1, <3>1 DEF LoadedSoFar, Rows
    <3>3. QED BY <1>a, <2>1, <2>2, <2>3, <3>2 DEF LoadedSoFar, Rows
  <2>7. QED BY <2>4, <2>5, <2>6 DEF DltInv
<1>8. ASSUME NEW r \in DltRuns, AtWork(r), Dlt!GiveUp(r), UNCHANGED <<dltNow, dltTable, alone, swept>> PROVE DltInv'
  <2> DEFINE rec == [dltRun[r] EXCEPT !.phase = "failed"]
  <2>1. /\ dltRun' = [dltRun EXCEPT ![r] = rec]
        /\ dirs' = {d \in dirs : d.run # r} \cup {}
    BY <1>8 DEF Dlt!GiveUp, Dlt!Without
  <2>2. rec \in Records /\ rec.phase = "failed" /\ rec.start = dltRun[r].start
        /\ rec.attempt = dltRun[r].attempt
    BY <1>a DEF DltTyped, DltPhases
  <2> HIDE DEF rec, Records
  <2>3. /\ dltRun' \in [DltRuns -> Records]
        /\ dltRun'[r] = rec /\ \A q \in DltRuns \ {r} : dltRun'[q] = dltRun[q]
        /\ \A q \in DltRuns : dltRun'[q].start = dltRun[q].start
    BY <1>e, <2>1, <2>2
  <2>4. InItsDir'
    BY <1>g, <1>8, <2>1, <2>2, <2>3 DEF Records
  <2>5. DltTyped'
    BY <1>a, <1>8, <2>1, <2>3 DEF DltTyped, Records
  <2>6. LoadedSoFar'
    BY <1>a, <1>8, <2>1, <2>2, <2>3 DEF LoadedSoFar, Rows
  <2>7. QED BY <2>4, <2>5, <2>6 DEF DltInv
<1>9. ASSUME NEW r \in DltRuns, AtWork(r), Dlt!RetryFresh(r), UNCHANGED <<dltNow, dltTable, alone, swept>> PROVE DltInv'
  <2> DEFINE rec == [phase |-> "starting", attempt |-> 2, start |-> dltRun[r].start, left |-> DltChunks]
             dir == [run |-> r, attempt |-> 2, made |-> dltNow]
  <2>1. /\ dltRun' = [dltRun EXCEPT ![r] = rec]
        /\ dirs' = {d \in dirs : d.run # r} \cup {dir}
    BY <1>9 DEF Dlt!RetryFresh, Dlt!Without
  <2>2. rec \in Records /\ rec.phase = "starting" /\ rec.start = dltRun[r].start
        /\ rec.attempt = 2 /\ rec.left = DltChunks
        /\ dir \in [run : DltRuns, attempt : 1 .. 2, made : Nat]
    <3>1. dltRun[r] \in Records /\ dltNow \in Nat
      BY <1>a DEF DltTyped
    <3>3. 2 \in 1 .. 2 /\ "starting" \in DltPhases /\ dltRun[r].start \in Nat
      BY <3>1 DEF DltPhases
    <3>4. dir \in [run : DltRuns, attempt : 1 .. 2, made : Nat]
      BY <3>1, <3>3
    <3>5. QED BY <3>3, <3>4
  <2> HIDE DEF rec, Records
  <2>3. /\ dltRun' \in [DltRuns -> Records]
        /\ dltRun'[r] = rec /\ \A q \in DltRuns \ {r} : dltRun'[q] = dltRun[q]
        /\ \A q \in DltRuns : dltRun'[q].start = dltRun[q].start
    BY <1>e, <2>1, <2>2
  <2>4. InItsDir'
    <3>1. {dir} = {[run |-> r, attempt |-> dltRun'[r].attempt, made |-> dltNow]} /\ dltRun[r].start <= dltNow
      BY <1>a, <2>2, <2>3 DEF DltTyped
    <3>2. QED BY <1>g, <1>9, <2>1, <2>2, <2>3, <3>1 DEF Records
  <2>5. DltTyped'
    BY <1>a, <1>9, <2>1, <2>2, <2>3 DEF DltTyped, Records
  <2>6. LoadedSoFar'
    BY <1>a, <1>9, <2>1, <2>2, <2>3 DEF LoadedSoFar, Rows
  <2>7. QED BY <2>4, <2>5, <2>6 DEF DltInv
<1>10. ASSUME NEW r \in DltRuns, NEW again \in BOOLEAN, Dlt!Fail(r, again) PROVE DltInv'
  BY <1>8, <1>9, <1>10, <1>w DEF Dlt!Fail
<1>11. QED BY <1>1, <1>2, <1>3, <1>4, <1>5, <1>6, <1>7, <1>10 DEF Dlt!Next

(***************************************************************************)
(* Backups: a run puts the list when the files are as it read the tables.  *)
(***************************************************************************)

BackupDays == 1 .. LastBackup
BackupStates == {"idle", "sweep", "put", "meta"}

BackupTyped ==
    /\ today \in BackupDays /\ version \in Nat /\ tables \subseteq BackupTables
    /\ files \in [BackupDays -> [BackupTables -> Nat]]
    /\ backupListed \in [BackupDays -> [BackupTables -> Nat]]
    /\ backupPc \in [BackupRuns -> BackupStates]
    /\ backupLeft \in [BackupRuns -> SUBSET BackupTables]
    /\ snapshot \in [BackupRuns -> [day : BackupDays, content : [BackupTables -> Nat]]]

\* Two runs that write one folder have met there.
Beside ==
    \A r, s \in BackupRuns :
        /\ backupPc[r] # "idle" /\ backupPc[s] # "idle" /\ r # s
        /\ snapshot[r].day = snapshot[s].day
        => r \in beside

\* What is in the folder of a run that nobody met there.
InFolder(r) ==
    /\ backupPc[r] = "sweep" =>
          \A t \in BackupTables \ backupLeft[r] : snapshot[r].content[t] = 0
    /\ backupPc[r] = "put" /\ r \notin beside =>
          \A t \in BackupTables \ backupLeft[r] : files[snapshot[r].day][t] = snapshot[r].content[t]
    /\ backupPc[r] = "meta" /\ r \notin beside => files[snapshot[r].day] = snapshot[r].content

Mended == \A d \in BackupDays :
    /\ d \notin cut
    /\ \A r \in BackupRuns : backupPc[r] \in {"put", "meta"} => snapshot[r].day # d
    => files[d] = backupListed[d]

BackupInv == BackupTyped /\ Beside /\ (\A r \in BackupRuns : InFolder(r)) /\ Mended

LEMMA BackupKeeps == BackupInv => Backup!ListTellsFiles
BY DEF BackupInv, Mended, Backup!ListTellsFiles, Backup!Writers, BackupDays

LEMMA BackupBegins == Backup!Init => BackupInv
<1> SUFFICES ASSUME Backup!Init PROVE BackupInv
  OBVIOUS
<1>1. /\ today = 1 /\ version = 1 /\ tables = BackupTables
      /\ files = [d \in BackupDays |-> [t \in BackupTables |-> 0]] /\ backupListed = files
      /\ backupPc = [r \in BackupRuns |-> "idle"] /\ backupLeft = [r \in BackupRuns |-> {}]
      /\ snapshot = [r \in BackupRuns |-> [day |-> 1, content |-> [t \in BackupTables |-> 0]]]
  BY DEF Backup!Init, Backup!NoFiles, Backup!NoSnapshot, BackupDays
<1>2. 1 \in BackupDays
  BY BackupAssumption DEF BackupDays
<1>3. BackupTyped
  BY <1>1, <1>2 DEF BackupTyped, BackupStates
<1>4. QED BY <1>1, <1>3 DEF BackupInv, Beside, InFolder, Mended

\* A run touches its own folder, where it is alone or known not to be.
LEMMA OtherFolders ==
  ASSUME BackupInv, NEW s \in BackupRuns, backupPc[s] # "idle",
         \A d \in BackupDays \ {snapshot[s].day} : files'[d] = files[d],
         \A r \in BackupRuns \ {s} : /\ backupPc'[r] = backupPc[r] /\ snapshot'[r] = snapshot[r]
                                     /\ backupLeft'[r] = backupLeft[r]
                                     /\ r \in beside => r \in beside'
  PROVE  \A r \in BackupRuns \ {s} : InFolder(r)'
<1> SUFFICES ASSUME NEW r \in BackupRuns \ {s} PROVE InFolder(r)'
  OBVIOUS
<1>1. snapshot[r].day \in BackupDays
  BY DEF BackupInv, BackupTyped
<1>2. backupPc[r] # "idle" /\ r \notin beside => files'[snapshot[r].day] = files[snapshot[r].day]
  BY <1>1 DEF BackupInv, Beside
<1>3. QED BY <1>2 DEF BackupInv, InFolder

LEMMA BackupStep == BackupInv /\ [Backup!Next]_backup => BackupInv'
<1> SUFFICES ASSUME BackupInv, [Backup!Next]_backup PROVE BackupInv'
  OBVIOUS
<1> DEFINE Snapshots == [day : BackupDays, content : [BackupTables -> Nat]]
           none == [day |-> 1, content |-> [t \in BackupTables |-> 0]]
<1>a. BackupTyped /\ Beside /\ (\A r \in BackupRuns : InFolder(r)) /\ Mended
  BY DEF BackupInv
<1>b. none \in Snapshots
  BY BackupAssumption DEF BackupDays
<1>c. snapshot \in [BackupRuns -> Snapshots] /\ \A r \in BackupRuns : snapshot[r].day \in BackupDays
  BY <1>a DEF BackupTyped
<1>1. CASE UNCHANGED backup
  BY <1>a, <1>1 DEF backup, BackupInv, BackupTyped, Beside, InFolder, Mended
<1>2. CASE Backup!Midnight
  BY <1>a, <1>2 DEF Backup!Midnight, BackupInv, BackupTyped, Beside, InFolder, Mended, BackupDays
<1>3. CASE Backup!Load
  BY <1>a, <1>3 DEF Backup!Load, BackupInv, BackupTyped, Beside, InFolder, Mended
<1>4. CASE Backup!Deploy
  BY <1>a, <1>4 DEF Backup!Deploy, BackupInv, BackupTyped, Beside, InFolder, Mended
<1>5. ASSUME NEW r \in BackupRuns, Backup!Begin(r) PROVE BackupInv'
  <2> DEFINE taken == [day |-> today, content |-> [t \in BackupTables |-> IF t \in tables THEN version ELSE 0]]
             busy == {q \in BackupRuns : backupPc[q] # "idle" /\ snapshot[q].day = today}
  <2>1. /\ backupPc[r] = "idle" /\ backupPc' = [backupPc EXCEPT ![r] = "sweep"]
        /\ snapshot' = [snapshot EXCEPT ![r] = taken] /\ backupLeft' = [backupLeft EXCEPT ![r] = tables]
        /\ beside' = (IF busy # {} THEN beside \cup busy \cup {r} ELSE beside)
        /\ UNCHANGED <<today, version, tables, files, backupListed, cut>>
    BY <1>5 DEF Backup!Begin, Backup!Busy, Backup!Writing
  <2>2. taken \in Snapshots /\ taken.day = today /\ \A t \in BackupTables \ tables : taken.content[t] = 0
    BY <1>a DEF BackupTyped
  <2> HIDE DEF taken, Snapshots, none
  <2>3. /\ snapshot' \in [BackupRuns -> Snapshots] /\ snapshot'[r] = taken
        /\ \A q \in BackupRuns \ {r} : snapshot'[q] = snapshot[q]
    BY <1>c, <2>1, <2>2
  <2>4. /\ backupPc' \in [BackupRuns -> BackupStates] /\ backupPc'[r] = "sweep"
        /\ \A q \in BackupRuns \ {r} : backupPc'[q] = backupPc[q]
    BY <1>a, <2>1 DEF BackupTyped, BackupStates
  <2>5. /\ backupLeft' \in [BackupRuns -> SUBSET BackupTables] /\ backupLeft'[r] = tables
        /\ \A q \in BackupRuns \ {r} : backupLeft'[q] = backupLeft[q]
    BY <1>a, <2>1 DEF BackupTyped
  <2>6. BackupTyped'
    BY <1>a, <2>1, <2>3, <2>4, <2>5 DEF BackupTyped, Snapshots
  <2>7. Beside'
    BY <1>a, <2>1, <2>2, <2>3, <2>4 DEF Beside
  <2>8. \A q \in BackupRuns : InFolder(q)'
    BY <1>a, <2>1, <2>2, <2>3, <2>4, <2>5 DEF InFolder
  <2>9. Mended'
    BY <1>a, <2>1, <2>3, <2>4 DEF Mended
  <2>10. QED BY <2>6, <2>7, <2>8, <2>9 DEF BackupInv
<1>6. ASSUME NEW r \in BackupRuns, Backup!Sweep(r) PROVE BackupInv'
  <2> DEFINE day == snapshot[r].day
             kept_ == [t \in BackupTables |-> IF t \in backupLeft[r] THEN files[day][t] ELSE 0]
  <2>1. /\ backupPc[r] = "sweep" /\ backupPc' = [backupPc EXCEPT ![r] = "put"]
        /\ files' = [files EXCEPT ![day] = kept_]
        /\ UNCHANGED <<today, version, tables, backupListed, snapshot, backupLeft, cut, beside>>
    BY <1>6 DEF Backup!Sweep
  <2>2. kept_ \in [BackupTables -> Nat] /\ \A t \in BackupTables \ backupLeft[r] : kept_[t] = 0
    BY <1>a, <1>c DEF BackupTyped
  <2> HIDE DEF kept_, Snapshots, none
  <2>3. /\ files' \in [BackupDays -> [BackupTables -> Nat]] /\ files'[day] = kept_
        /\ \A d \in BackupDays \ {day} : files'[d] = files[d]
    BY <1>a, <1>c, <2>1, <2>2 DEF BackupTyped
  <2>4. /\ backupPc' \in [BackupRuns -> BackupStates] /\ backupPc'[r] = "put"
        /\ \A q \in BackupRuns \ {r} : backupPc'[q] = backupPc[q]
    BY <1>a, <2>1 DEF BackupTyped, BackupStates
  <2>6. BackupTyped'
    BY <1>a, <2>1, <2>3, <2>4 DEF BackupTyped
  <2>7. Beside'
    BY <1>a, <2>1, <2>4 DEF Beside
  <2>8. \A q \in BackupRuns \ {r} : InFolder(q)'
    BY <2>1, <2>3, <2>4, OtherFolders
  <2>9. InFolder(r)'
    BY <1>a, <2>1, <2>2, <2>3, <2>4 DEF InFolder
  <2>10. Mended'
    BY <1>a, <2>1, <2>3, <2>4 DEF Mended
  <2>11. QED BY <2>6, <2>7, <2>8, <2>9, <2>10 DEF BackupInv
<1>7. ASSUME NEW r \in BackupRuns, Backup!Put(r) PROVE BackupInv'
  <2> DEFINE day == snapshot[r].day
             more == snapshot[r].content
  <2>1. PICK t \in backupLeft[r] :
           /\ files' = [files EXCEPT ![day][t] = more[t]]
           /\ backupLeft' = [backupLeft EXCEPT ![r] = @ \ {t}]
           /\ backupPc' = [backupPc EXCEPT ![r] = IF backupLeft[r] = {t} THEN "meta" ELSE "put"]
    BY <1>7 DEF Backup!Put
  <2>2. backupPc[r] = "put" /\ UNCHANGED <<today, version, tables, backupListed, snapshot, cut, beside>>
    BY <1>7 DEF Backup!Put
  <2>3. t \in BackupTables /\ day \in BackupDays /\ more \in [BackupTables -> Nat]
    BY <1>a, <1>c DEF BackupTyped
  <2>4. /\ files' \in [BackupDays -> [BackupTables -> Nat]] /\ files'[day][t] = more[t]
        /\ \A u \in BackupTables \ {t} : files'[day][u] = files[day][u]
        /\ \A d \in BackupDays \ {day} : files'[d] = files[d]
    BY <1>a, <2>1, <2>3 DEF BackupTyped
  <2>5. /\ backupPc' \in [BackupRuns -> BackupStates]
        /\ backupPc'[r] = (IF backupLeft[r] = {t} THEN "meta" ELSE "put")
        /\ \A q \in BackupRuns \ {r} : backupPc'[q] = backupPc[q]
    BY <1>a, <2>1 DEF BackupTyped, BackupStates
  <2>6. /\ backupLeft' \in [BackupRuns -> SUBSET BackupTables] /\ backupLeft'[r] = backupLeft[r] \ {t}
        /\ \A q \in BackupRuns \ {r} : backupLeft'[q] = backupLeft[q]
    BY <1>a, <2>1 DEF BackupTyped
  <2>7. BackupTyped'
    BY <1>a, <2>2, <2>4, <2>5, <2>6 DEF BackupTyped
  <2>8. Beside'
    BY <1>a, <2>2, <2>5 DEF Beside
  <2>9. \A q \in BackupRuns \ {r} : InFolder(q)'
    BY <2>2, <2>4, <2>5, <2>6, OtherFolders
  <2>10. InFolder(r)'
    <3>1. r \notin beside => \A u \in BackupTables \ backupLeft'[r] : files'[day][u] = more[u]
      BY <1>a, <2>2, <2>4, <2>6 DEF InFolder
    <3>2. r \notin beside /\ backupLeft[r] = {t} => files'[day] = more
      BY <2>3, <2>4, <2>6, <3>1
    <3>3. QED BY <2>2, <2>5, <3>1, <3>2 DEF InFolder
  <2>11. Mended'
    BY <1>a, <2>2, <2>4, <2>5 DEF Mended
  <2>12. QED BY <2>7, <2>8, <2>9, <2>10, <2>11 DEF BackupInv
<1>8. ASSUME NEW r \in BackupRuns, Backup!PutMetadata(r) PROVE BackupInv'
  <2> DEFINE day == snapshot[r].day
             more == snapshot[r].content
  <2>1. /\ backupPc[r] = "meta" /\ backupPc' = [backupPc EXCEPT ![r] = "idle"]
        /\ backupListed' = [backupListed EXCEPT ![day] = more]
        /\ cut' = (IF r \in beside THEN cut \cup {day} ELSE cut \ {day})
        /\ snapshot' = [snapshot EXCEPT ![r] = none] /\ beside' = beside \ {r}
        /\ UNCHANGED <<today, version, tables, files, backupLeft>>
    BY <1>8 DEF Backup!PutMetadata, Backup!NoSnapshot, Backup!NoFiles
  <2>2. day \in BackupDays /\ more \in [BackupTables -> Nat]
    BY <1>a, <1>c DEF BackupTyped
  <2> HIDE DEF Snapshots, none
  <2>3. /\ backupListed' \in [BackupDays -> [BackupTables -> Nat]] /\ backupListed'[day] = more
        /\ \A d \in BackupDays \ {day} : backupListed'[d] = backupListed[d]
    BY <1>a, <2>1, <2>2 DEF BackupTyped
  <2>4. /\ backupPc' \in [BackupRuns -> BackupStates] /\ backupPc'[r] = "idle"
        /\ \A q \in BackupRuns \ {r} : backupPc'[q] = backupPc[q]
    BY <1>a, <2>1 DEF BackupTyped, BackupStates
  <2>5. /\ snapshot' \in [BackupRuns -> Snapshots] /\ \A q \in BackupRuns \ {r} : snapshot'[q] = snapshot[q]
    BY <1>b, <1>c, <2>1
  <2>6. BackupTyped'
    BY <1>a, <2>1, <2>3, <2>4, <2>5 DEF BackupTyped, Snapshots
  <2>7. Beside'
    BY <1>a, <2>1, <2>4, <2>5 DEF Beside
  <2>8. \A q \in BackupRuns \ {r} : InFolder(q)'
    BY <2>1, <2>4, <2>5, OtherFolders
  <2>9. InFolder(r)'
    BY <2>4 DEF InFolder
  <2>10. Mended'
    <3>1. r \notin beside => files[day] = more
      BY <1>a, <2>1 DEF InFolder
    <3>2. QED BY <1>a, <2>1, <2>3, <2>4, <2>5, <3>1 DEF Mended
  <2>11. QED BY <2>6, <2>7, <2>8, <2>9, <2>10 DEF BackupInv
<1>9. ASSUME NEW r \in BackupRuns, Backup!Fail(r) PROVE BackupInv'
  <2> DEFINE day == snapshot[r].day
  <2>1. /\ backupPc[r] # "idle" /\ backupPc' = [backupPc EXCEPT ![r] = "idle"]
        /\ backupLeft' = [backupLeft EXCEPT ![r] = {}]
        /\ snapshot' = [snapshot EXCEPT ![r] = none] /\ cut' = cut \cup {day} /\ beside' = beside \ {r}
        /\ UNCHANGED <<today, version, tables, backupListed>>
        /\ \E S : files' = [files EXCEPT ![day] = [t \in BackupTables |-> IF t \in S THEN 0 ELSE files[day][t]]]
    BY <1>9 DEF Backup!Fail, Backup!Writing, Backup!NoSnapshot, Backup!NoFiles
  <2>2. PICK S : files' = [files EXCEPT ![day] = [t \in BackupTables |-> IF t \in S THEN 0 ELSE files[day][t]]]
    BY <2>1
  <2> HIDE DEF Snapshots, none
  <2>3. /\ files' \in [BackupDays -> [BackupTables -> Nat]]
        /\ \A d \in BackupDays \ {day} : files'[d] = files[d]
    BY <1>a, <1>c, <2>2 DEF BackupTyped
  <2>4. /\ backupPc' \in [BackupRuns -> BackupStates] /\ backupPc'[r] = "idle"
        /\ \A q \in BackupRuns \ {r} : backupPc'[q] = backupPc[q]
    BY <1>a, <2>1 DEF BackupTyped, BackupStates
  <2>5. /\ snapshot' \in [BackupRuns -> Snapshots] /\ \A q \in BackupRuns \ {r} : snapshot'[q] = snapshot[q]
    BY <1>b, <1>c, <2>1
  <2>6. /\ backupLeft' \in [BackupRuns -> SUBSET BackupTables]
        /\ \A q \in BackupRuns \ {r} : backupLeft'[q] = backupLeft[q]
    BY <1>a, <2>1 DEF BackupTyped
  <2>7. BackupTyped'
    BY <1>a, <2>1, <2>3, <2>4, <2>5, <2>6 DEF BackupTyped, Snapshots
  <2>8. Beside'
    BY <1>a, <2>1, <2>4, <2>5 DEF Beside
  <2>9. \A q \in BackupRuns \ {r} : InFolder(q)'
    BY <2>1, <2>3, <2>4, <2>5, <2>6, OtherFolders
  <2>10. InFolder(r)'
    BY <2>4 DEF InFolder
  <2>11. Mended'
    BY <1>a, <2>1, <2>3, <2>4, <2>5 DEF Mended
  <2>12. QED BY <2>7, <2>8, <2>9, <2>10, <2>11 DEF BackupInv
<1>10. QED BY <1>1, <1>2, <1>3, <1>4, <1>5, <1>6, <1>7, <1>8, <1>9 DEF Backup!Next
=============================================================================
