---------------------------- MODULE Restart_proof ----------------------------
(***************************************************************************)
(* What crashes leave of an Rdb, for any number of keys, files and         *)
(* crashes.                                                                *)
(*                                                                         *)
(* The files: at every moment the directory is that of no merge, of a      *)
(* merge that is half done, with the files it merges still there, or of    *)
(* one that is done, with its target alone; and each of these gives reads  *)
(* what was dumped last.  The tree: however saves, dumps, exits, kills and *)
(* restarts are interleaved, no key falls back behind the last save.       *)
(***************************************************************************)
EXTENDS MCRestart, FiniteSetTheorems, FunctionTheorems, SequenceTheorems,
        WellFoundedInduction, TLAPS

-----------------------------------------------------------------------------
(* Lists of files.                                                          *)

Ordered(s) == \A i, j \in DOMAIN s : i < j => s[i] < s[j]
IsList(s) == s \in Seq(FileId) /\ Len(s) <= MaxFiles /\ Ordered(s)
Lists(D, s) == IsList(s) /\ D = {s[i] : i \in DOMAIN s}

LEMMA Smallest ==
  ASSUME NEW n \in Nat, NEW T \in SUBSET (0 .. n), T # {}
  PROVE  \E x \in T : \A y \in T : x <= y
<1> DEFINE R == {p \in Nat \X Nat : p[1] < p[2]}
<1>1. IsWellFoundedOn(R, Nat)
  BY NatLessThanWellFounded DEF OpToRel
<1>2. T \subseteq Nat
  OBVIOUS
<1>3. PICK x \in T : \A y \in T : ~ (<<y, x>> \in R)
  <2> HIDE DEF R
  <2> QED BY <1>1, <1>2, WFMin
<1>4. ASSUME NEW y \in T, ~ (x <= y) PROVE FALSE
  <2>1. <<y, x>> \in R
    BY <1>4
  <2> QED BY <2>1, <1>3
<1> QED BY <1>4

LEMMA Largest ==
  ASSUME NEW n \in Nat, NEW T \in SUBSET (0 .. n), T # {}
  PROVE  \E x \in T : \A y \in T : y <= x
<1> DEFINE U == {n - y : y \in T}
<1>1. U \in SUBSET (0 .. n) /\ U # {}
  <2>1. \A y \in T : n - y \in 0 .. n /\ n - y \in U
    OBVIOUS
  <2>2. PICK y \in T : TRUE
    OBVIOUS
  <2> QED BY <2>1, <2>2
<1>2. PICK u \in U : \A v \in U : u <= v
  <2> HIDE DEF U
  <2> QED BY <1>1, Smallest
<1>3. PICK x \in T : u = n - x
  OBVIOUS
<1>4. ASSUME NEW y \in T PROVE y <= x
  <2>1. n - y \in U
    OBVIOUS
  <2>2. u <= n - y
    BY <1>2, <2>1
  <2> QED BY <1>3, <2>2
<1> QED BY <1>4

LEMMA FileIds == FileId \subseteq Nat /\ MaxId \in Nat /\ 0 \in FileId
BY BoundsAssumption DEF FileId

\* An ordered list of files has each of them once.
LEMMA ListedOnce ==
  ASSUME NEW s \in Seq(FileId), Ordered(s), NEW i \in DOMAIN s, NEW j \in DOMAIN s, s[i] = s[j]
  PROVE  i = j
<1>1. i \in Nat /\ j \in Nat /\ s[i] \in Nat /\ s[j] \in Nat
  <2>1. s[i] \in FileId /\ s[j] \in FileId /\ i \in Nat /\ j \in Nat
    OBVIOUS
  <2> QED BY <2>1, FileIds
<1>2. i < j => s[i] < s[j]
  BY DEF Ordered
<1>3. j < i => s[j] < s[i]
  BY DEF Ordered
<1> QED BY <1>1, <1>2, <1>3

\* There is one order only.
LEMMA OneOrder ==
  ASSUME NEW n \in Nat, NEW S \in SUBSET Nat,
         NEW s \in [1 .. n -> S], NEW t \in [1 .. n -> S],
         \A i, j \in 1 .. n : i < j => s[i] < s[j],
         \A i, j \in 1 .. n : i < j => t[i] < t[j],
         \A x \in S : \E i \in 1 .. n : s[i] = x,
         \A x \in S : \E i \in 1 .. n : t[i] = x
  PROVE  s = t
<1> SUFFICES ASSUME NEW b \in 1 .. n, s[b] # t[b] PROVE FALSE
  OBVIOUS
<1> DEFINE T == {i \in 1 .. n : s[i] # t[i]}
<1>1. PICK i \in T : \A j \in T : i <= j
  <2>1. T \in SUBSET (0 .. n) /\ T # {}
    OBVIOUS
  <2> HIDE DEF T
  <2> QED BY <2>1, Smallest
<1>2. \A j \in 1 .. n : j < i => s[j] = t[j]
  BY <1>1
<1>3. PICK k \in 1 .. n : t[k] = s[i]
  OBVIOUS
<1>4. PICK l \in 1 .. n : s[l] = t[i]
  OBVIOUS
<1>5. i \in 1 .. n /\ s[i] # t[i] /\ s[i] \in Nat /\ t[i] \in Nat
  OBVIOUS
<1>6. k > i
  <2>1. k # i
    BY <1>3, <1>5
  <2>2. ASSUME k < i PROVE FALSE
    <3>1. s[k] = s[i] /\ s[k] < s[i]
      BY <1>2, <1>3, <1>5, <2>2
    <3> QED BY <1>5, <3>1
  <2> QED BY <1>5, <2>1, <2>2
<1>7. l > i
  <2>1. l # i
    BY <1>4, <1>5
  <2>2. ASSUME l < i PROVE FALSE
    <3>1. t[l] = t[i] /\ t[l] < t[i]
      BY <1>2, <1>4, <1>5, <2>2
    <3> QED BY <1>5, <3>1
  <2> QED BY <1>5, <2>1, <2>2
<1>8. t[i] < s[i] /\ s[i] < t[i]
  BY <1>3, <1>4, <1>5, <1>6, <1>7
<1> QED BY <1>5, <1>8

\* setFiles() makes of the files of a list that list again.
LEMMA InOrderIs ==
  ASSUME NEW s \in Seq(FileId), Ordered(s)
  PROVE  InOrder({s[i] : i \in DOMAIN s}) = s
<1> DEFINE S == {s[i] : i \in DOMAIN s}
           n == Len(s)
<1>1. n \in Nat /\ s \in [1 .. n -> S] /\ DOMAIN s = 1 .. n
  OBVIOUS
<1>2. S \in SUBSET Nat
  <2>1. \A i \in DOMAIN s : s[i] \in FileId
    OBVIOUS
  <2> QED BY <2>1, FileIds
<1>3. \A x \in S : \E i \in 1 .. n : s[i] = x
  OBVIOUS
<1>4. \A i, j \in 1 .. n : s[i] = s[j] => i = j
  BY ListedOnce
<1>5. \A i, j \in 1 .. n : i < j => s[i] < s[j]
  BY DEF Ordered
<1> HIDE DEF S, n
<1>6. s \in Bijection(1 .. n, S)
  BY <1>1, <1>3, <1>4, Fun_IsBij
<1>7. IsFiniteSet(1 .. n) /\ Cardinality(1 .. n) = n
  BY <1>1, FS_Interval
<1>8. IsFiniteSet(S) /\ Cardinality(S) = n
  <2>1. ExistsBijection(1 .. n, S)
    BY <1>6 DEF ExistsBijection
  <2> QED BY <1>7, <2>1, FS_Bijection
<1>9. \A i, j \in DOMAIN s : i < j => s[i] < s[j]
  BY <1>1, <1>5
<1>10. PICK t : t = InOrder(S)
  OBVIOUS
<1>11. t \in [1 .. n -> S] /\ \A i, j \in DOMAIN t : i < j => t[i] < t[j]
  BY <1>1, <1>8, <1>9, <1>10 DEF InOrder
<1>12. \A i, j \in 1 .. n : i < j => t[i] < t[j]
  BY <1>11
<1>13. \A i, j \in 1 .. n : t[i] = t[j] => i = j
  <2> SUFFICES ASSUME NEW i \in 1 .. n, NEW j \in 1 .. n, t[i] = t[j], i # j PROVE FALSE
    OBVIOUS
  <2>1. t[i] \in Nat /\ t[j] \in Nat
    BY <1>2, <1>11
  <2>2. i < j \/ j < i
    OBVIOUS
  <2> QED BY <1>12, <2>1, <2>2
<1>14. t \in Injection(1 .. n, S)
  BY <1>11, <1>13, Fun_IsInj
<1>15. t \in Surjection(1 .. n, S)
  BY <1>7, <1>8, <1>14, FS_Injection
<1>16. \A x \in S : \E i \in 1 .. n : t[i] = x
  BY <1>15 DEF Surjection
<1>17. s = t
  BY <1>1, <1>2, <1>3, <1>5, <1>11, <1>12, <1>16, OneOrder
<1> QED BY <1>10, <1>17 DEF S

-----------------------------------------------------------------------------
(* What files hold of a key.                                                *)

\* r is the record of the last of the positions P that has one in f.
Top(f, P, r) ==
  \/ r = NoRec /\ \A p \in P : f[p] = NoRec
  \/ r # NoRec /\ \E p \in P : f[p] = r /\ \A q \in P : p < q => f[q] = NoRec

\* The records that the files of list s have for a key.
Column(R, s, k) == [p \in DOMAIN s |-> R[s[p]][k]]

\* What a read makes of a record.
Shown(r) == IF r = Neg THEN NoRec ELSE r

\* The files at the positions P of list s hold what is to be read.
StoreIs(R, S, s, P) ==
  \A k \in Key : \E r \in Rec \union {NoRec} :
    Top(Column(R, s, k), P, r) /\ S[k] = Shown(r)

LEMMA TopExists ==
  ASSUME NEW n \in Nat, NEW P \in SUBSET (1 .. n), NEW f
  PROVE  \E r : Top(f, P, r) /\ (r = NoRec \/ \E p \in P : r = f[p])
<1> DEFINE T == {p \in P : f[p] # NoRec}
<1>1. CASE T = {}
  BY <1>1 DEF Top
<1>2. CASE T # {}
  <2>1. T \in SUBSET (0 .. n)
    <3>1. \A p \in 1 .. n : p \in 0 .. n
      OBVIOUS
    <3> QED BY <3>1
  <2>2. PICK p \in T : \A q \in T : q <= p
    <3> HIDE DEF T
    <3> QED BY <1>2, <2>1, Largest
  <2>3. \A q \in P : p < q => f[q] = NoRec
    BY <2>2
  <2> QED BY <2>3 DEF Top
<1> QED BY <1>1, <1>2

LEMMA TopUnique ==
  ASSUME NEW P \in SUBSET Nat, NEW f, NEW r, NEW x, Top(f, P, r), Top(f, P, x)
  PROVE  r = x
<1>1. CASE r = NoRec \/ x = NoRec
  BY <1>1 DEF Top
<1>2. CASE r # NoRec /\ x # NoRec
  <2>1. PICK p \in P : f[p] = r /\ \A q \in P : p < q => f[q] = NoRec
    BY <1>2 DEF Top
  <2>2. PICK o \in P : f[o] = x /\ \A q \in P : o < q => f[q] = NoRec
    BY <1>2 DEF Top
  <2>3. p = o
    BY <1>2, <2>1, <2>2
  <2> QED BY <2>1, <2>2, <2>3
<1> QED BY <1>1, <1>2

\* The same records in the same order have the same last one.
LEMMA TopMoved ==
  ASSUME NEW P \in SUBSET Nat, NEW Q \in SUBSET Nat, NEW f, NEW g,
         NEW m \in [P -> Q], \A q \in Q : \E p \in P : m[p] = q,
         \A o, p \in P : o < p => m[o] < m[p],
         \A p \in P : g[m[p]] = f[p],
         NEW r, Top(f, P, r)
  PROVE  Top(g, Q, r)
<1>1. CASE r = NoRec
  <2>1. \A p \in P : f[p] = NoRec
    BY <1>1 DEF Top
  <2> QED BY <1>1, <2>1 DEF Top
<1>2. CASE r # NoRec
  <2>1. PICK p \in P : f[p] = r /\ \A q \in P : p < q => f[q] = NoRec
    BY <1>2 DEF Top
  <2>2. ASSUME NEW q \in Q, m[p] < q PROVE g[q] = NoRec
    <3>1. PICK o \in P : m[o] = q
      OBVIOUS
    <3>2. p < o
      <4>1. p \in Nat /\ o \in Nat /\ m[p] \in Nat /\ q \in Nat
        OBVIOUS
      <4>2. o # p
        BY <2>2, <3>1, <4>1
      <4>3. ASSUME o < p PROVE FALSE
        <5>1. m[o] < m[p]
          BY <4>3
        <5> QED BY <2>2, <3>1, <4>1, <5>1
      <4> QED BY <4>1, <4>2, <4>3
    <3> QED BY <2>1, <3>1, <3>2
  <2> QED BY <1>2, <2>1, <2>2 DEF Top
<1> QED BY <1>1, <1>2

LEMMA TopSame ==
  ASSUME NEW P, NEW f, NEW g, \A p \in P : f[p] = g[p], NEW r, Top(f, P, r)
  PROVE  Top(g, P, r)
BY DEF Top

LEMMA ColumnAt ==
  ASSUME NEW R, NEW s, NEW k, NEW p \in DOMAIN s
  PROVE  Column(R, s, k)[p] = R[s[p]][k]
BY DEF Column

\* The files of list s at P are in the same order those of list t at Q.
SameFiles(R, s, P, T, t, Q, m) ==
  /\ P \in SUBSET Nat /\ Q \in SUBSET Nat /\ P \subseteq DOMAIN s /\ Q \subseteq DOMAIN t
  /\ m \in [P -> Q] /\ \A q \in Q : \E p \in P : m[p] = q
  /\ \A o, p \in P : o < p => m[o] < m[p]
  /\ \A p \in P : T[t[m[p]]] = R[s[p]]

LEMMA StoreMoved ==
  ASSUME NEW R, NEW T, NEW S, NEW s, NEW t, NEW P, NEW Q, NEW m,
         SameFiles(R, s, P, T, t, Q, m), StoreIs(R, S, s, P)
  PROVE  StoreIs(T, S, t, Q)
<1> USE DEF SameFiles
<1> SUFFICES ASSUME NEW k \in Key
             PROVE  \E r \in Rec \union {NoRec} : Top(Column(T, t, k), Q, r) /\ S[k] = Shown(r)
  BY DEF StoreIs
<1>1. PICK r \in Rec \union {NoRec} : Top(Column(R, s, k), P, r) /\ S[k] = Shown(r)
  BY DEF StoreIs
<1>2. ASSUME NEW p \in P PROVE Column(T, t, k)[m[p]] = Column(R, s, k)[p]
  <2>1. p \in DOMAIN s /\ m[p] \in DOMAIN t
    OBVIOUS
  <2>2. Column(R, s, k)[p] = R[s[p]][k] /\ Column(T, t, k)[m[p]] = T[t[m[p]]][k]
    BY <2>1 DEF Column
  <2> QED BY <2>2
<1>3. Top(Column(T, t, k), Q, r)
  BY <1>1, <1>2, TopMoved
<1> QED BY <1>1, <1>3

\* Files of the same records at the same positions.
LEMMA StoreSame ==
  ASSUME NEW R, NEW T, NEW S, NEW s, NEW t, NEW P, P \subseteq DOMAIN s, P \subseteq DOMAIN t,
         \A p \in P : T[t[p]] = R[s[p]],
         StoreIs(R, S, s, P)
  PROVE  StoreIs(T, S, t, P)
<1> SUFFICES ASSUME NEW k \in Key
             PROVE  \E r \in Rec \union {NoRec} : Top(Column(T, t, k), P, r) /\ S[k] = Shown(r)
  BY DEF StoreIs
<1>1. PICK r \in Rec \union {NoRec} : Top(Column(R, s, k), P, r) /\ S[k] = Shown(r)
  BY DEF StoreIs
<1>2. \A p \in P : Column(R, s, k)[p] = Column(T, t, k)[p]
  BY ColumnAt
<1>3. Top(Column(T, t, k), P, r)
  BY <1>1, <1>2, TopSame
<1> QED BY <1>1, <1>3

\* Winner() finds it.
LEMMA WinnerIs ==
  ASSUME NEW P \in SUBSET Nat, P \subseteq DOMAIN ids, NEW k, NEW r,
         Top(Column(recs, ids, k), P, r)
  PROVE  Winner(P, k) = r
<1> DEFINE filled == {p \in P : recs[ids[p]][k] # NoRec}
<1>1. \A p \in P : Column(recs, ids, k)[p] = recs[ids[p]][k]
  <2> SUFFICES ASSUME NEW p \in P PROVE Column(recs, ids, k)[p] = recs[ids[p]][k]
    OBVIOUS
  <2>1. p \in DOMAIN ids
    OBVIOUS
  <2> QED BY <2>1, ColumnAt
<1>2. CASE r = NoRec
  <2>1. filled = {}
    BY <1>1, <1>2 DEF Top
  <2> QED BY <1>2, <2>1 DEF Winner
<1>3. CASE r # NoRec
  <2>1. PICK p \in P : recs[ids[p]][k] = r /\ \A q \in P : p < q => recs[ids[q]][k] = NoRec
    BY <1>1, <1>3 DEF Top
  <2>2. p \in filled /\ \A q \in filled : q <= p
    <3>1. p \in filled /\ p \in Nat
      BY <1>3, <2>1
    <3>2. ASSUME NEW q \in filled PROVE q <= p
      <4>1. q \in P /\ q \in Nat /\ ~(p < q)
        BY <2>1
      <4> QED BY <3>1, <4>1
    <3> QED BY <3>1, <3>2
  <2>3. \A o \in filled : (\A q \in filled : q <= o) => o = p
    <3> SUFFICES ASSUME NEW o \in filled, \A q \in filled : q <= o PROVE o = p
      OBVIOUS
    <3>1. o \in Nat /\ p \in Nat
      OBVIOUS
    <3>2. o <= p /\ p <= o
      BY <2>2
    <3> QED BY <3>1, <3>2
  <2> HIDE DEF filled
  <2>4. (CHOOSE o \in filled : \A q \in filled : q <= o) = p
    BY <2>2, <2>3
  <2> QED BY <2>1, <2>2, <2>4 DEF Winner, filled
<1> QED BY <1>2, <1>3

LEMMA LookupIs ==
  ASSUME NEW P \in SUBSET Nat, P \subseteq DOMAIN ids, StoreIs(recs, store, ids, P),
         P = DOMAIN ids \ (IF merge = "unlinking" THEN Window ELSE {}), NEW k \in Key
  PROVE  Lookup(k) = store[k]
<1>1. PICK r \in Rec \union {NoRec} : Top(Column(recs, ids, k), P, r) /\ store[k] = Shown(r)
  BY DEF StoreIs
<1>2. Winner(P, k) = r
  BY <1>1, WinnerIs
<1> QED BY <1>1, <1>2 DEF Lookup, Shown


-----------------------------------------------------------------------------
(* What a list is about.                                                    *)

AllOdd(s) == \A i \in DOMAIN s : ~IsEven(s[i])

OneEven(s, j) == /\ j \in DOMAIN s /\ IsEven(s[j])
                 /\ \A i \in DOMAIN s : i # j => ~IsEven(s[i])

\* No merge: the files hold all that was dumped.
Settled(D, R, S, s) == Lists(D, s) /\ AllOdd(s) /\ StoreIs(R, S, s, DOMAIN s)

\* What the file at j has for a key is merged from the n files behind it.
MergedKey(R, s, j, n, k) ==
  \E r \in Rec \union {NoRec} :
    /\ Top(Column(R, s, k), j + 1 .. j + n, r)
    /\ R[s[j]][k] = IF s[j + 1] \in {0, 1} THEN Shown(r) ELSE r

\* The file at j has the keys below c of the n files behind it, which are
\* all there.
Half(D, R, n, S, s, j, c) ==
  /\ Lists(D, s) /\ OneEven(s, j)
  /\ n >= 2 /\ j + n <= Len(s)
  /\ StoreIs(R, S, s, DOMAIN s \ {j})
  /\ \A k \in Key : IF k < c THEN MergedKey(R, s, j, n, k) ELSE R[s[j]][k] = NoRec

\* Only the file merged into is left.
Whole(D, R, S, s) ==
  Lists(D, s) /\ Len(s) = 1 /\ IsEven(s[1]) /\ 1 \in FileId /\ StoreIs(R, S, s, {1})

OnDisk(D, R, n, S, s) ==
  \/ Settled(D, R, S, s)
  \/ \E j \in DOMAIN s, c \in 1 .. NumKeys + 1 : Half(D, R, n, S, s, j, c)
  \/ Whole(D, R, S, s)

Quiet == start = 1 /\ count = 0 /\ cursor = 1 /\ unlinks = {}

HalfMerged ==
  /\ start > 1 /\ count = mergeNum /\ unlinks = {}
  /\ Half(disk, recs, mergeNum, store, ids, start - 1, cursor)

\* Some of the merged files are gone, and the others hold all.
Sweeping ==
  /\ IsList(ids) /\ start > 1 /\ count >= 2 /\ start + count - 1 <= Len(ids)
  /\ OneEven(ids, start - 1)
  /\ unlinks \subseteq {ids[p] : p \in Window}
  /\ disk = {ids[p] : p \in DOMAIN ids \ Window} \union unlinks
  /\ StoreIs(recs, store, ids, DOMAIN ids \ Window)

NoneEmpty(R, s) == \A i \in DOMAIN s : IsEven(s[i]) \/ R[s[i]] # Nothing

Stopped ==
  /\ ids = <<>>
  /\ \E s \in Seq(FileId) : OnDisk(disk, recs, mergeNum, store, s) /\ NoneEmpty(recs, s)

BaseInv ==
  /\ TypeOK
  /\ \A f \in FileId \ disk : recs[f] = Nothing
  /\ merge = "idle" => Quiet
  /\ merge # "idle" => up
  /\ merge = "merging" => HalfMerged
  /\ merge = "unlinking" => Sweeping
  /\ up /\ merge = "idle" => OnDisk(disk, recs, mergeNum, store, ids)
  /\ ~up => Stopped

-----------------------------------------------------------------------------
(* Reads.                                                                   *)

LEMMA AllWithHalf ==
  ASSUME NEW D, NEW R, NEW n \in Nat, NEW S, NEW s, NEW j, NEW c, Half(D, R, n, S, s, j, c)
  PROVE  StoreIs(R, S, s, DOMAIN s)
<1> SUFFICES ASSUME NEW k \in Key
             PROVE  \E r \in Rec \union {NoRec} : Top(Column(R, s, k), DOMAIN s, r) /\ S[k] = Shown(r)
  BY DEF StoreIs
<1> DEFINE f == Column(R, s, k)
<1>1. PICK r \in Rec \union {NoRec} : Top(f, DOMAIN s \ {j}, r) /\ S[k] = Shown(r)
  BY DEF Half, StoreIs
<1>2. j \in DOMAIN s /\ DOMAIN s \subseteq Nat /\ f[j] = R[s[j]][k] /\ j + n <= Len(s)
      /\ DOMAIN s = 1 .. Len(s) /\ Len(s) \in Nat
  BY ColumnAt DEF Half, OneEven, Lists, IsList
<1> HIDE DEF f
<1>3. CASE f[j] = NoRec
  <2>1. Top(f, DOMAIN s, r)
    <3>1. CASE r = NoRec
      BY <1>1, <1>3, <3>1, Zenon DEF Top
    <3>2. CASE r # NoRec
      <4>1. PICK p \in DOMAIN s \ {j} : f[p] = r /\ \A q \in DOMAIN s \ {j} : p < q => f[q] = NoRec
        BY <1>1, <3>2 DEF Top
      <4>2. \A q \in DOMAIN s : p < q => f[q] = NoRec
        BY <1>3, <4>1
      <4> QED BY <3>2, <4>1, <4>2 DEF Top
    <3> QED BY <3>1, <3>2
  <2> QED BY <1>1, <2>1 DEF f
<1>4. CASE f[j] # NoRec
  <2>1. PICK w : Top(f, j + 1 .. j + n, w) /\ w # NoRec
    <3>1. MergedKey(R, s, j, n, k)
      BY <1>2, <1>4 DEF Half
    <3>2. PICK w \in Rec \union {NoRec} : Top(f, j + 1 .. j + n, w) /\ (f[j] = w \/ f[j] = Shown(w))
      BY <1>2, <3>1 DEF MergedKey, f
    <3> QED BY <1>4, <3>2 DEF Shown
  <2>2. PICK p \in j + 1 .. j + n : f[p] = w
    BY <2>1 DEF Top
  <2>3. p \in DOMAIN s \ {j} /\ j < p
    BY <1>2
  <2>4. PICK q \in DOMAIN s \ {j} : f[q] = r /\ r # NoRec /\ \A o \in DOMAIN s \ {j} : q < o => f[o] = NoRec
    BY <1>1, <2>1, <2>2, <2>3 DEF Top
  <2>5. ~(q < p)
    BY <2>1, <2>2, <2>3, <2>4
  <2>6. ~(q < j)
    BY <1>2, <2>3, <2>5
  <2>7. \A o \in DOMAIN s : q < o => f[o] = NoRec
    BY <2>4, <2>6
  <2>8. Top(f, DOMAIN s, r)
    BY <2>4, <2>7 DEF Top
  <2> QED BY <1>1, <2>8 DEF f
<1> QED BY <1>3, <1>4

LEMMA AllOnDisk ==
  ASSUME NEW D, NEW R, NEW n \in Nat, NEW S, NEW s, OnDisk(D, R, n, S, s)
  PROVE  StoreIs(R, S, s, DOMAIN s)
<1>1. CASE Whole(D, R, S, s)
  <2>1. DOMAIN s = {1}
    BY <1>1 DEF Whole, Lists, IsList
  <2> QED BY <1>1, <2>1 DEF Whole
<1> QED BY <1>1, AllWithHalf DEF OnDisk, Settled

LEMMA InvReads == BaseInv => ReadsSurvive
<1> SUFFICES ASSUME BaseInv, up, NEW k \in Key PROVE Lookup(k) = store[k]
  BY DEF ReadsSurvive
<1>1. ids \in Seq(FileId) /\ mergeNum \in Nat /\ merge \in {"idle", "merging", "unlinking"}
  BY BoundsAssumption DEF BaseInv, TypeOK
<1>2. DOMAIN ids \subseteq Nat
  BY <1>1
<1>3. CASE merge = "unlinking"
  BY <1>2, <1>3, LookupIs DEF BaseInv, Sweeping
<1>4. CASE merge # "unlinking"
  <2>1. StoreIs(recs, store, ids, DOMAIN ids)
    BY <1>1, <1>4, AllWithHalf, AllOnDisk DEF BaseInv, HalfMerged
  <2> QED BY <1>2, <1>4, <2>1, LookupIs
<1> QED BY <1>3, <1>4


-----------------------------------------------------------------------------
(* Lists with a file put in or taken out.                                   *)

\* The first a files of s, then e, then those from b on.
Spliced(s, a, b, e) == SubSeq(s, 1, a) \o <<e>> \o SubSeq(s, b, Len(s))

LEMMA SplicedIs ==
  ASSUME NEW s \in Seq(FileId), NEW e \in FileId, NEW a \in 0 .. Len(s), NEW b \in a + 1 .. Len(s) + 1
  PROVE  /\ Spliced(s, a, b, e) \in Seq(FileId)
         /\ Len(Spliced(s, a, b, e)) = Len(s) + a + 2 - b
         /\ \A p \in 1 .. a : Spliced(s, a, b, e)[p] = s[p]
         /\ Spliced(s, a, b, e)[a + 1] = e
         /\ \A p \in b .. Len(s) : Spliced(s, a, b, e)[p + a + 2 - b] = s[p]
<1> DEFINE u == SubSeq(s, 1, a)
           v == SubSeq(s, b, Len(s))
           t == u \o <<e>> \o v
<1>1. a \in Nat /\ b \in Nat /\ Len(s) \in Nat /\ a <= Len(s) /\ a < b /\ b <= Len(s) + 1
  OBVIOUS
<1>2. u \in Seq(FileId) /\ Len(u) = a /\ \A p \in 1 .. a : u[p] = s[p]
  BY <1>1
<1>3. v \in Seq(FileId) /\ Len(v) = Len(s) + 1 - b
  BY <1>1
<1>4. \A p \in 1 .. Len(s) + 1 - b : v[p] = s[b + p - 1]
  BY <1>1
<1>5. t = Spliced(s, a, b, e)
  BY DEF Spliced
<1>w. PICK w : w = u \o <<e>>
  OBVIOUS
<1>t. t = w \o v
  BY <1>w
<1> HIDE DEF u, v, t
<1>c. w \in Seq(FileId) /\ Len(w) = a + 1 /\ w[a + 1] = e /\ \A p \in 1 .. a : w[p] = s[p]
  <2>1. <<e>> \in Seq(FileId) /\ Len(<<e>>) = 1 /\ <<e>>[1] = e
    OBVIOUS
  <2>2. /\ w \in Seq(FileId) /\ Len(w) = a + 1
        /\ \A i \in 1 .. a + 1 : w[i] = IF i <= a THEN u[i] ELSE <<e>>[i - a]
    BY <1>2, <1>w, <2>1, ConcatProperties
  <2>3. \A p \in 1 .. a : p \in 1 .. a + 1 /\ p <= a
    BY <1>1
  <2>4. a + 1 \in 1 .. a + 1 /\ ~(a + 1 <= a) /\ (a + 1) - a = 1
    BY <1>1
  <2>5. w[a + 1] = e
    BY <2>1, <2>2, <2>4
  <2> QED BY <1>2, <2>2, <2>3, <2>5
<1>6. /\ t \in Seq(FileId) /\ Len(t) = a + 1 + (Len(s) + 1 - b)
      /\ \A i \in 1 .. a + 1 + (Len(s) + 1 - b) : t[i] = IF i <= a + 1 THEN w[i] ELSE v[i - (a + 1)]
  <2>1. /\ t \in Seq(FileId) /\ Len(t) = Len(w) + Len(v)
        /\ \A i \in 1 .. Len(w) + Len(v) : t[i] = IF i <= Len(w) THEN w[i] ELSE v[i - Len(w)]
    BY <1>3, <1>c, <1>t, ConcatProperties
  <2>2. Len(w) = a + 1 /\ Len(v) = Len(s) + 1 - b
    BY <1>3, <1>c
  <2> QED BY <2>1, <2>2
<1>7. \A p \in 1 .. a : t[p] = s[p]
  <2>1. \A p \in 1 .. a : p \in 1 .. a + 1 + (Len(s) + 1 - b) /\ p <= a + 1
    BY <1>1
  <2> QED BY <1>6, <1>c, <2>1
<1>8. t[a + 1] = e
  <2>1. a + 1 \in 1 .. a + 1 + (Len(s) + 1 - b) /\ a + 1 <= a + 1
    BY <1>1
  <2> QED BY <1>6, <1>c, <2>1
<1>9. ASSUME NEW p \in b .. Len(s) PROVE t[p + a + 2 - b] = s[p]
  <2>1. p \in Nat /\ p + 1 - b \in 1 .. Len(s) + 1 - b
    BY <1>1
  <2>2. v[p + 1 - b] = s[p]
    <3>1. v[p + 1 - b] = s[b + (p + 1 - b) - 1]
      BY <1>4, <2>1
    <3>2. b + (p + 1 - b) - 1 = p
      BY <1>1, <2>1
    <3> QED BY <3>1, <3>2
  <2>3. t[a + 1 + (p + 1 - b)] = v[p + 1 - b]
    <3>1. a + 1 + (p + 1 - b) \in 1 .. a + 1 + (Len(s) + 1 - b) /\ ~(a + 1 + (p + 1 - b) <= a + 1)
      BY <1>1, <2>1
    <3>2. (a + 1 + (p + 1 - b)) - (a + 1) = p + 1 - b
      BY <1>1, <2>1
    <3> QED BY <1>6, <3>1, <3>2
  <2>4. a + 1 + (p + 1 - b) = p + a + 2 - b
    BY <1>1, <2>1
  <2> QED BY <2>2, <2>3, <2>4
<1>10. Len(t) = Len(s) + a + 2 - b
  BY <1>1, <1>6
<1> HIDE DEF t
<1> QED BY <1>5, <1>6, <1>7, <1>8, <1>9, <1>10

LEMMA SplicedDomain ==
  ASSUME NEW s \in Seq(FileId), NEW e \in FileId, NEW a \in 0 .. Len(s), NEW b \in a + 1 .. Len(s) + 1
  PROVE  DOMAIN Spliced(s, a, b, e) = 1 .. Len(s) + a + 2 - b
<1>1. PICK t : t = Spliced(s, a, b, e)
  OBVIOUS
<1>2. t \in Seq(FileId) /\ Len(t) = Len(s) + a + 2 - b
  BY <1>1, SplicedIs
<1>3. DOMAIN t = 1 .. Len(s) + a + 2 - b
  BY <1>2
<1> QED BY <1>1, <1>3

\* Where the files of s are in it, and what there is in it.
Moved(a, b, p) == IF p <= a THEN p ELSE p + a + 2 - b

LEMMA SplicedFrom ==
  ASSUME NEW s \in Seq(FileId), NEW e \in FileId, NEW a \in 0 .. Len(s), NEW b \in a + 1 .. Len(s) + 1
  PROVE  /\ \A p \in 1 .. a \union b .. Len(s) :
              /\ Moved(a, b, p) \in (1 .. Len(s) + a + 2 - b) \ {a + 1}
              /\ Spliced(s, a, b, e)[Moved(a, b, p)] = s[p]
         /\ \A q \in (1 .. Len(s) + a + 2 - b) \ {a + 1} :
              \E p \in 1 .. a \union b .. Len(s) : Moved(a, b, p) = q
         /\ \A o, p \in 1 .. a \union b .. Len(s) : o < p => Moved(a, b, o) < Moved(a, b, p)
<1> DEFINE P == 1 .. a \union b .. Len(s)
<1>1. a \in Nat /\ b \in Nat /\ Len(s) \in Nat /\ a <= Len(s) /\ a < b /\ b <= Len(s) + 1
  OBVIOUS
<1>2. ASSUME NEW p \in P
      PROVE  /\ Moved(a, b, p) \in (1 .. Len(s) + a + 2 - b) \ {a + 1}
             /\ Spliced(s, a, b, e)[Moved(a, b, p)] = s[p]
  <2>1. CASE p \in 1 .. a
    <3>1. Moved(a, b, p) = p
      BY <1>1, <2>1 DEF Moved
    <3>2. Spliced(s, a, b, e)[p] = s[p]
      BY <2>1, SplicedIs
    <3>3. p \in (1 .. Len(s) + a + 2 - b) \ {a + 1}
      BY <1>1, <2>1
    <3> QED BY <3>1, <3>2, <3>3
  <2>2. CASE p \in b .. Len(s)
    <3>1. Moved(a, b, p) = p + a + 2 - b
      BY <1>1, <2>2 DEF Moved
    <3>2. Spliced(s, a, b, e)[p + a + 2 - b] = s[p]
      BY <2>2, SplicedIs
    <3>3. p + a + 2 - b \in (1 .. Len(s) + a + 2 - b) \ {a + 1}
      BY <1>1, <2>2
    <3> QED BY <3>1, <3>2, <3>3
  <2> QED BY <2>1, <2>2
<1>3. ASSUME NEW q \in (1 .. Len(s) + a + 2 - b) \ {a + 1} PROVE \E p \in P : Moved(a, b, p) = q
  <2>1. CASE q <= a
    <3>1. q \in P /\ Moved(a, b, q) = q
      BY <1>1, <2>1 DEF Moved
    <3> QED BY <3>1
  <2>2. CASE q > a + 1
    <3>1. q + b - a - 2 \in b .. Len(s)
      BY <1>1, <2>2
    <3>2. Moved(a, b, q + b - a - 2) = q
      BY <1>1, <2>2, <3>1 DEF Moved
    <3> QED BY <3>1, <3>2
  <2> QED BY <1>1, <2>1, <2>2
<1>4. ASSUME NEW o \in P, NEW p \in P, o < p PROVE Moved(a, b, o) < Moved(a, b, p)
  BY <1>1, <1>4 DEF Moved
<1> QED BY <1>2, <1>3, <1>4

\* A list stays one when the new file is between its neighbours.
LEMMA SplicedOrdered ==
  ASSUME NEW s \in Seq(FileId), Ordered(s), NEW e \in FileId,
         NEW a \in 0 .. Len(s), NEW b \in a + 1 .. Len(s) + 1,
         \A p \in 1 .. a : s[p] < e, \A p \in b .. Len(s) : e < s[p]
  PROVE  Ordered(Spliced(s, a, b, e))
<1> DEFINE P == 1 .. a \union b .. Len(s)
           t == Spliced(s, a, b, e)
           n == Len(s) + a + 2 - b
<1>1. a \in Nat /\ b \in Nat /\ Len(s) \in Nat /\ a <= Len(s) /\ a < b /\ b <= Len(s) + 1 /\ n \in Nat
  OBVIOUS
<1>2. DOMAIN t = 1 .. n /\ t[a + 1] = e /\ t \in Seq(FileId)
  BY <1>1, SplicedIs
<1>3. /\ \A p \in P : Moved(a, b, p) \in (1 .. n) \ {a + 1} /\ t[Moved(a, b, p)] = s[p]
      /\ \A q \in (1 .. n) \ {a + 1} : \E p \in P : Moved(a, b, p) = q
      /\ \A o, p \in P : o < p => Moved(a, b, o) < Moved(a, b, p)
  BY SplicedFrom
<1>4. P \subseteq DOMAIN s /\ \A p \in P : p \in Nat
  BY <1>1
<1>5. ASSUME NEW i \in 1 .. n, NEW j \in 1 .. n, i < j PROVE t[i] < t[j]
  <2>1. CASE i = a + 1
    <3>1. PICK p \in P : Moved(a, b, p) = j
      BY <1>3, <1>5, <2>1
    <3>2. p \in b .. Len(s)
      BY <1>1, <1>5, <2>1, <3>1 DEF Moved
    <3> QED BY <1>2, <1>3, <2>1, <3>1, <3>2
  <2>2. CASE j = a + 1
    <3>1. PICK p \in P : Moved(a, b, p) = i
      BY <1>3, <1>5, <2>2
    <3>2. p \in 1 .. a
      BY <1>1, <1>5, <2>2, <3>1 DEF Moved
    <3> QED BY <1>2, <1>3, <2>2, <3>1, <3>2
  <2>3. CASE i # a + 1 /\ j # a + 1
    <3>1. PICK o \in P : Moved(a, b, o) = i
      BY <1>3, <2>3
    <3>2. PICK p \in P : Moved(a, b, p) = j
      BY <1>3, <2>3
    <3>3. o < p
      BY <1>1, <1>5, <3>1, <3>2 DEF Moved
    <3>4. s[o] < s[p]
      BY <1>4, <3>3 DEF Ordered
    <3> QED BY <1>3, <3>1, <3>2, <3>4
  <2> QED BY <2>1, <2>2, <2>3
<1> HIDE DEF t, n
<1>6. Ordered(t)
  BY <1>2, <1>5 DEF Ordered
<1> QED BY <1>6 DEF t


\* The files of s are to be read in it as they are in s.
LEMMA SplicedKeeps ==
  ASSUME NEW s \in Seq(FileId), NEW e \in FileId, NEW R, NEW S,
         NEW a \in 0 .. Len(s), NEW b \in a + 1 .. Len(s) + 1,
         StoreIs(R, S, s, 1 .. a \union b .. Len(s))
  PROVE  StoreIs(R, S, Spliced(s, a, b, e), DOMAIN Spliced(s, a, b, e) \ {a + 1})
<1>a. \A p \in 1 .. a \union b .. Len(s) :
        /\ Moved(a, b, p) \in (1 .. Len(s) + a + 2 - b) \ {a + 1}
        /\ Spliced(s, a, b, e)[Moved(a, b, p)] = s[p]
  BY SplicedFrom
<1>b. \A q \in (1 .. Len(s) + a + 2 - b) \ {a + 1} :
        \E p \in 1 .. a \union b .. Len(s) : Moved(a, b, p) = q
  BY SplicedFrom
<1> DEFINE P == 1 .. a \union b .. Len(s)
           t == Spliced(s, a, b, e)
           Q == (1 .. Len(s) + a + 2 - b) \ {a + 1}
           m == [p \in P |-> Moved(a, b, p)]
<1>1. a \in Nat /\ b \in Nat /\ Len(s) \in Nat /\ a <= Len(s) /\ a < b /\ b <= Len(s) + 1
  OBVIOUS
<1>2. DOMAIN t = 1 .. Len(s) + a + 2 - b
  BY SplicedDomain
<1>3. P \subseteq DOMAIN s /\ P \in SUBSET Nat /\ Q \in SUBSET Nat /\ Q \subseteq DOMAIN t
  BY <1>1, <1>2
<1>4. \A p \in P : m[p] \in Q /\ t[m[p]] = s[p]
  BY <1>a
<1>5. \A q \in Q : \E p \in P : m[p] = q
  BY <1>b
<1>6. \A o, p \in P : o < p => m[o] < m[p]
  BY SplicedFrom
<1>7. StoreIs(R, S, s, P)
  OBVIOUS
<1>8. m = [p \in P |-> m[p]]
  OBVIOUS
<1> HIDE DEF P, Q, t, m
<1>9. m \in [P -> Q]
  BY <1>4, <1>8
<1>10. \A p \in P : R[t[m[p]]] = R[s[p]]
  BY <1>4
<1>11. StoreIs(R, S, t, Q)
  <2>1. SameFiles(R, s, P, R, t, Q, m)
    BY <1>3, <1>5, <1>6, <1>9, <1>10 DEF SameFiles
  <2> QED BY <1>7, <2>1, StoreMoved
<1> QED BY <1>2, <1>11 DEF Q, t

\* Also when the new file has the records of the one at its position.
LEMMA SplicedPut ==
  ASSUME NEW s \in Seq(FileId), NEW e \in FileId, NEW R, NEW T, NEW S,
         NEW a \in 0 .. Len(s), NEW b \in a + 2 .. Len(s) + 1,
         StoreIs(R, S, s, 1 .. a + 1 \union b .. Len(s)),
         T[e] = R[s[a + 1]], \A p \in 1 .. a \union b .. Len(s) : T[s[p]] = R[s[p]]
  PROVE  StoreIs(T, S, Spliced(s, a, b, e), DOMAIN Spliced(s, a, b, e))
<1>0. b \in a + 1 .. Len(s) + 1
  OBVIOUS
<1>a. \A p \in 1 .. a \union b .. Len(s) :
        /\ Moved(a, b, p) \in (1 .. Len(s) + a + 2 - b) \ {a + 1}
        /\ Spliced(s, a, b, e)[Moved(a, b, p)] = s[p]
  BY <1>0, SplicedFrom
<1>b. \A q \in (1 .. Len(s) + a + 2 - b) \ {a + 1} :
        \E p \in 1 .. a \union b .. Len(s) : Moved(a, b, p) = q
  BY <1>0, SplicedFrom
<1> DEFINE P == 1 .. a + 1 \union b .. Len(s)
           t == Spliced(s, a, b, e)
           Q == 1 .. Len(s) + a + 2 - b
           m == [p \in P |-> IF p = a + 1 THEN a + 1 ELSE Moved(a, b, p)]
<1>1. a \in Nat /\ b \in Nat /\ Len(s) \in Nat /\ a + 1 <= Len(s) /\ a + 1 < b /\ b <= Len(s) + 1
      /\ b \in a + 1 .. Len(s) + 1
  OBVIOUS
<1>2. DOMAIN t = Q /\ t[a + 1] = e
  <2>1. DOMAIN t = Q
    BY <1>1, SplicedDomain
  <2> QED BY <1>1, <2>1, SplicedIs
<1>3. P \subseteq DOMAIN s /\ P \in SUBSET Nat /\ Q \in SUBSET Nat /\ Q \subseteq DOMAIN t
  BY <1>1, <1>2
<1>4. \A p \in P : p # a + 1 => p \in 1 .. a \union b .. Len(s)
  BY <1>1
<1>5. /\ \A p \in 1 .. a \union b .. Len(s) :
           Moved(a, b, p) \in Q \ {a + 1} /\ t[Moved(a, b, p)] = s[p]
      /\ \A q \in Q \ {a + 1} : \E p \in 1 .. a \union b .. Len(s) : Moved(a, b, p) = q
  BY <1>a, <1>b
<1>6. a + 1 \in P /\ a + 1 \in Q
  BY <1>1
<1>7. m \in [P -> Q]
  BY <1>4, <1>5, <1>6
<1>8. \A q \in Q : \E p \in P : m[p] = q
  <2>1. ASSUME NEW q \in Q PROVE \E p \in P : m[p] = q
    <3>1. CASE q = a + 1
      BY <1>6, <3>1
    <3>2. CASE q # a + 1
      <4>1. PICK p \in 1 .. a \union b .. Len(s) : Moved(a, b, p) = q
        BY <1>5, <3>2
      <4>2. p \in P /\ p # a + 1
        BY <1>1
      <4> QED BY <4>1, <4>2
    <3> QED BY <3>1, <3>2
  <2> QED BY <2>1
<1>9. \A o, p \in P : o < p => m[o] < m[p]
  BY <1>1 DEF Moved
<1>10. \A p \in P : T[t[m[p]]] = R[s[p]]
  <2>1. ASSUME NEW p \in P PROVE T[t[m[p]]] = R[s[p]]
    <3>1. CASE p = a + 1
      BY <1>2, <1>6, <3>1
    <3>2. CASE p # a + 1
      <4>1. m[p] = Moved(a, b, p)
        BY <3>2
      <4>2. t[m[p]] = s[p]
        BY <1>4, <1>5, <3>2, <4>1
      <4>3. p \in 1 .. a \union b .. Len(s)
        BY <1>4, <3>2
      <4> QED BY <4>2, <4>3
    <3> QED BY <3>1, <3>2
  <2> QED BY <2>1
<1>11. StoreIs(R, S, s, P)
  OBVIOUS
<1> HIDE DEF P, Q, t, m
<1>12. StoreIs(T, S, t, Q)
  <2>1. SameFiles(R, s, P, T, t, Q, m)
    BY <1>3, <1>7, <1>8, <1>9, <1>10 DEF SameFiles
  <2> QED BY <1>11, <2>1, StoreMoved
<1> QED BY <1>2, <1>12 DEF t

-----------------------------------------------------------------------------
(* A merge starts.                                                          *)

LEMMA OddEven ==
  ASSUME NEW x \in Nat, ~IsEven(x)
  PROVE  x >= 1 /\ x - 1 \in Nat /\ IsEven(x - 1) /\ ~IsEven(1) /\ IsEven(0)
BY DEF IsEven

LEMMA SettledToHalf ==
  ASSUME NEW D, NEW R, NEW S, NEW s, Settled(D, R, S, s),
         NEW a \in DOMAIN s, NEW n \in Nat, n >= 2, a + n - 1 <= Len(s), Len(s) < MaxFiles,
         s[a] - 1 \notin D => R[s[a] - 1] = Nothing
  PROVE  Half(D \union {s[a] - 1}, R, n, S, InsertAt(s, a, s[a] - 1), a, 1)
<1> DEFINE e == s[a] - 1
           t == Spliced(s, a - 1, a, e)
<1>1. /\ s \in Seq(FileId) /\ Len(s) \in Nat /\ a \in Nat /\ a \in 1 .. Len(s) /\ Ordered(s)
      /\ DOMAIN s = 1 .. Len(s) /\ a - 1 \in 0 .. Len(s) /\ a \in (a - 1) + 1 .. Len(s) + 1
      /\ D = {s[i] : i \in DOMAIN s} /\ \A i \in DOMAIN s : ~IsEven(s[i]) /\ s[i] \in FileId
  BY DEF Settled, Lists, IsList, AllOdd
<1>2. \A i \in DOMAIN s : s[i] \in Nat /\ s[i] <= MaxId
  BY <1>1, FileIds DEF FileId
<1>3. e \in FileId /\ IsEven(e) /\ e \in Nat
  BY <1>1, <1>2, OddEven, FileIds DEF FileId
<1>4. t = InsertAt(s, a, e)
  BY DEF Spliced, InsertAt
<1>5. e \notin D
  BY <1>1, <1>3
<1>6. /\ t \in Seq(FileId) /\ Len(t) = Len(s) + 1 /\ t[a] = e
      /\ \A p \in 1 .. a - 1 : t[p] = s[p]
      /\ \A p \in a .. Len(s) : t[p + 1] = s[p]
  <2> PICK c \in 0 .. Len(s) : c = a - 1
    BY <1>1
  <2> a \in c + 1 .. Len(s) + 1
    BY <1>1
  <2>1. /\ t \in Seq(FileId) /\ Len(t) = Len(s) + c + 2 - a /\ t[c + 1] = e
        /\ \A p \in 1 .. c : t[p] = s[p]
        /\ \A p \in a .. Len(s) : t[p + c + 2 - a] = s[p]
    <3>1. t = Spliced(s, c, a, e)
      OBVIOUS
    <3> HIDE DEF e, t
    <3>2. s \in Seq(FileId) /\ e \in FileId
      BY <1>1, <1>3
    <3>3. t \in Seq(FileId) /\ Len(t) = Len(s) + c + 2 - a /\ t[c + 1] = e
      BY <3>1, <3>2, SplicedIs
    <3>4. \A p \in 1 .. c : t[p] = s[p]
      BY <3>1, <3>2, SplicedIs
    <3>5. \A p \in a .. Len(s) : t[p + c + 2 - a] = s[p]
      BY <3>1, <3>2, SplicedIs
    <3> QED BY <3>3, <3>4, <3>5
  <2> HIDE DEF t
  <2>2. Len(s) + c + 2 - a = Len(s) + 1 /\ c + 1 = a
    BY <1>1
  <2>3. ASSUME NEW p \in a .. Len(s) PROVE t[p + 1] = s[p]
    <3>1. p + c + 2 - a = p + 1
      BY <1>1
    <3> QED BY <2>1, <3>1
  <2> QED BY <2>1, <2>2, <2>3
<1>7. DOMAIN t = 1 .. Len(s) + 1
  BY <1>6
<1> HIDE DEF t
<1>8. \A q \in DOMAIN t : q # a => \E p \in DOMAIN s : t[q] = s[p]
  <2> SUFFICES ASSUME NEW q \in DOMAIN t, q # a PROVE \E p \in DOMAIN s : t[q] = s[p]
    OBVIOUS
  <2>1. CASE q < a
    <3>1. q \in 1 .. a - 1 /\ q \in DOMAIN s
      BY <1>1, <1>7, <2>1
    <3> QED BY <1>6, <3>1
  <2>2. CASE q > a
    <3>1. q - 1 \in a .. Len(s) /\ q = (q - 1) + 1
      BY <1>1, <1>7, <2>2
    <3> QED BY <1>1, <1>6, <3>1
  <2> QED BY <1>1, <1>7, <2>1, <2>2
<1>9. \A p \in DOMAIN s : \E q \in DOMAIN t : t[q] = s[p]
  <2> SUFFICES ASSUME NEW p \in DOMAIN s PROVE \E q \in DOMAIN t : t[q] = s[p]
    OBVIOUS
  <2>1. CASE p < a
    <3>1. p \in 1 .. a - 1 /\ p \in DOMAIN t
      BY <1>1, <1>7, <2>1
    <3> QED BY <1>6, <3>1
  <2>2. CASE p >= a
    <3>1. p \in a .. Len(s) /\ p + 1 \in DOMAIN t
      BY <1>1, <1>7, <2>2
    <3> QED BY <1>6, <3>1
  <2> QED BY <1>1, <2>1, <2>2
<1>10. Lists(D \union {e}, t)
  <2>1. Ordered(t)
    <3>1. \A p \in 1 .. a - 1 : s[p] < e
      <4> SUFFICES ASSUME NEW p \in 1 .. a - 1 PROVE s[p] < e
        OBVIOUS
      <4>1. p \in DOMAIN s /\ p < a
        BY <1>1
      <4>2. s[p] < s[a]
        BY <1>1, <4>1 DEF Ordered
      <4>3. s[p] # e
        BY <1>1, <1>3, <4>1
      <4>4. s[p] \in Nat /\ s[a] \in Nat
        BY <1>1, <1>2, <4>1
      <4> QED BY <4>2, <4>3, <4>4
    <3>2. \A p \in a .. Len(s) : e < s[p]
      <4> SUFFICES ASSUME NEW p \in a .. Len(s) PROVE e < s[p]
        OBVIOUS
      <4>1. p \in DOMAIN s /\ p \in Nat /\ (p = a \/ a < p)
        BY <1>1
      <4>2. s[a] <= s[p]
        BY <1>1, <1>2, <4>1 DEF Ordered
      <4> QED BY <1>1, <1>2, <4>1, <4>2
    <3> HIDE DEF e
    <3> QED BY <1>1, <1>3, <3>1, <3>2, SplicedOrdered DEF t
  <2>2. IsList(t)
    BY <1>1, <1>6, <2>1, BoundsAssumption DEF IsList
  <2>3. D \union {e} = {t[q] : q \in DOMAIN t}
    <3>1. a \in DOMAIN t
      BY <1>1, <1>7
    <3> HIDE DEF e
    <3>2. D = {s[i] : i \in DOMAIN s} /\ t[a] = e
      BY <1>1, <1>6
    <3>3. \A x \in {t[q] : q \in DOMAIN t} : x \in D \union {e}
      BY <1>8, <3>2
    <3>4. \A x \in D \union {e} : x \in {t[q] : q \in DOMAIN t}
      BY <1>9, <3>1, <3>2
    <3> QED BY <3>3, <3>4
  <2> QED BY <2>2, <2>3 DEF Lists
<1>11. OneEven(t, a)
  BY <1>1, <1>3, <1>6, <1>7, <1>8 DEF OneEven
<1>12. StoreIs(R, S, t, DOMAIN t \ {a})
  <2>1. DOMAIN s = 1 .. (a - 1) \union a .. Len(s)
    BY <1>1
  <2>2. StoreIs(R, S, s, 1 .. (a - 1) \union a .. Len(s))
    BY <2>1 DEF Settled
  <2>3. StoreIs(R, S, t, DOMAIN t \ {(a - 1) + 1})
    <3> HIDE DEF e
    <3> QED BY <1>1, <1>3, <2>2, SplicedKeeps DEF t
  <2>4. (a - 1) + 1 = a
    BY <1>1
  <2> QED BY <2>3, <2>4
<1>13. \A k \in Key : IF k < 1 THEN MergedKey(R, t, a, n, k) ELSE R[t[a]][k] = NoRec
  <2>1. R[t[a]] = Nothing
    BY <1>5, <1>6
  <2>2. \A k \in Key : ~(k < 1) /\ Nothing[k] = NoRec
    BY BoundsAssumption DEF Key, Nothing
  <2> QED BY <2>1, <2>2
<1>14. a + n <= Len(t)
  BY <1>1, <1>6
<1> HIDE DEF e
<1>15. Half(D \union {e}, R, n, S, t, a, 1)
  BY <1>10, <1>11, <1>12, <1>13, <1>14 DEF Half
<1> QED BY <1>4, <1>15 DEF e


-----------------------------------------------------------------------------
(* A merge goes on.                                                         *)

\* What was merged stays so while its files stay as they are.
LEMMA MergedSame ==
  ASSUME NEW R, NEW T, NEW s, NEW t, NEW j \in Nat, NEW n \in Nat, n >= 1, NEW k, MergedKey(R, s, j, n, k),
         j .. j + n \subseteq DOMAIN s, j .. j + n \subseteq DOMAIN t,
         \A p \in j .. j + n : T[t[p]][k] = R[s[p]][k], t[j + 1] = s[j + 1]
  PROVE  MergedKey(T, t, j, n, k)
<1>1. PICK r \in Rec \union {NoRec} :
        /\ Top(Column(R, s, k), j + 1 .. j + n, r)
        /\ R[s[j]][k] = IF s[j + 1] \in {0, 1} THEN Shown(r) ELSE r
  BY DEF MergedKey
<1>2. j \in j .. j + n /\ \A p \in j + 1 .. j + n : p \in j .. j + n
  OBVIOUS
<1>3. \A p \in j + 1 .. j + n : Column(R, s, k)[p] = Column(T, t, k)[p]
  <2> SUFFICES ASSUME NEW p \in j + 1 .. j + n PROVE Column(R, s, k)[p] = Column(T, t, k)[p]
    OBVIOUS
  <2>1. p \in DOMAIN s /\ p \in DOMAIN t /\ T[t[p]][k] = R[s[p]][k]
    BY <1>2
  <2> QED BY <2>1 DEF Column
<1>4. Top(Column(T, t, k), j + 1 .. j + n, r)
  BY <1>1, <1>3, TopSame
<1>5. T[t[j]][k] = R[s[j]][k]
  BY <1>2
<1> QED BY <1>1, <1>4, <1>5 DEF MergedKey

LEMMA HalfShape ==
  ASSUME NEW D, NEW R, NEW n \in Nat, NEW S, NEW s, NEW j, NEW c, Half(D, R, n, S, s, j, c)
  PROVE  /\ s \in Seq(FileId) /\ Len(s) \in Nat /\ DOMAIN s = 1 .. Len(s) /\ Ordered(s)
         /\ D = {s[i] : i \in DOMAIN s} /\ Len(s) <= MaxFiles
         /\ j \in 1 .. Len(s) /\ n >= 2 /\ j + n <= Len(s)
         /\ j .. j + n \subseteq DOMAIN s /\ j \notin j + 1 .. j + n
         /\ \A i \in DOMAIN s : s[i] \in FileId /\ s[i] \in Nat
         /\ \A i \in DOMAIN s : i # j => s[i] # s[j]
<1>1. /\ s \in Seq(FileId) /\ Len(s) \in Nat /\ DOMAIN s = 1 .. Len(s) /\ Ordered(s)
      /\ D = {s[i] : i \in DOMAIN s} /\ Len(s) <= MaxFiles
  BY DEF Half, Lists, IsList
<1>2. j \in 1 .. Len(s) /\ n >= 2 /\ j + n <= Len(s)
  BY <1>1 DEF Half, OneEven
<1>3. j .. j + n \subseteq DOMAIN s /\ j \notin j + 1 .. j + n
  BY <1>1, <1>2
<1>4. \A i \in DOMAIN s : s[i] \in FileId
  BY <1>1
<1>5. \A i \in DOMAIN s : i # j => s[i] # s[j]
  BY <1>1, <1>2, ListedOnce
<1> QED BY <1>1, <1>2, <1>3, <1>4, <1>5, FileIds

\* From T on the file at j has also the keys from c to d - 1.
MergedTo(R, T, s, j, n, c, d) ==
  \A k \in Key : IF k \in c .. d - 1
                 THEN \E r \in Rec \union {NoRec} :
                        /\ Top(Column(R, s, k), j + 1 .. j + n, r)
                        /\ T[s[j]][k] = IF s[j + 1] \in {0, 1} THEN Shown(r) ELSE r
                 ELSE T[s[j]][k] = R[s[j]][k]

LEMMA HalfFurther ==
  ASSUME NEW D, NEW R, NEW T, NEW n \in Nat, NEW S, NEW s, NEW j, NEW c \in Nat, NEW d \in Nat,
         Half(D, R, n, S, s, j, c), c < d,
         \A f \in FileId : f # s[j] => T[f] = R[f], MergedTo(R, T, s, j, n, c, d)
  PROVE  Half(D, T, n, S, s, j, d)
<1> USE DEF MergedTo
<1>1. /\ DOMAIN s \subseteq Nat /\ j \in Nat /\ n >= 1
      /\ j .. j + n \subseteq DOMAIN s /\ j \notin j + 1 .. j + n
      /\ \A i \in DOMAIN s : i # j => T[s[i]] = R[s[i]]
  <2>1. /\ DOMAIN s = 1 .. Len(s) /\ j \in 1 .. Len(s) /\ n >= 2 /\ Len(s) \in Nat
        /\ j .. j + n \subseteq DOMAIN s /\ j \notin j + 1 .. j + n
    BY HalfShape
  <2>2. \A i \in DOMAIN s : s[i] \in FileId /\ (i # j => s[i] # s[j])
    <3>1. \A i \in DOMAIN s : s[i] \in FileId
      BY HalfShape
    <3>2. \A i \in DOMAIN s : i # j => s[i] # s[j]
      <4>1. s \in Seq(FileId) /\ Ordered(s) /\ j \in DOMAIN s
        BY <2>1 DEF Half, Lists, IsList
      <4> QED BY <4>1, ListedOnce
    <3> QED BY <3>1, <3>2
  <2>3. \A i \in DOMAIN s : i # j => T[s[i]] = R[s[i]]
    BY <2>2
  <2> QED BY <2>1, <2>3
<1>2. StoreIs(T, S, s, DOMAIN s \ {j})
  BY <1>1, StoreSame DEF Half
<1>3. ASSUME NEW k \in Key PROVE IF k < d THEN MergedKey(T, s, j, n, k) ELSE T[s[j]][k] = NoRec
  <2>1. k \in Nat
    BY DEF Key
  <2>2. IF k < c THEN MergedKey(R, s, j, n, k) ELSE R[s[j]][k] = NoRec
    BY DEF Half
  <2>3. CASE k < c
    <3>1. k \notin c .. d - 1 /\ k < d
      BY <2>1, <2>3
    <3>2. T[s[j]][k] = R[s[j]][k]
      BY <3>1
    <3>3. \A p \in j .. j + n : T[s[p]][k] = R[s[p]][k]
      BY <1>1, <3>2
    <3>4. MergedKey(T, s, j, n, k)
      <4>1. MergedKey(R, s, j, n, k)
        BY <2>2, <2>3
      <4> QED BY <1>1, <3>3, <4>1, MergedSame
    <3> QED BY <3>1, <3>4
  <2>4. CASE ~(k < c) /\ k < d
    <3>1. k \in c .. d - 1
      BY <2>1, <2>4
    <3>2. PICK r \in Rec \union {NoRec} :
            /\ Top(Column(R, s, k), j + 1 .. j + n, r)
            /\ T[s[j]][k] = IF s[j + 1] \in {0, 1} THEN Shown(r) ELSE r
      BY <3>1
    <3>3. \A p \in j + 1 .. j + n : Column(R, s, k)[p] = Column(T, s, k)[p]
      <4> SUFFICES ASSUME NEW p \in j + 1 .. j + n PROVE Column(R, s, k)[p] = Column(T, s, k)[p]
        OBVIOUS
      <4>1. p \in j .. j + n
        BY <1>1
      <4>2. p \in DOMAIN s /\ T[s[p]] = R[s[p]]
        BY <1>1, <4>1
      <4> QED BY <4>2 DEF Column
    <3>4. Top(Column(T, s, k), j + 1 .. j + n, r)
      BY <3>2, <3>3, TopSame
    <3> QED BY <2>4, <3>2, <3>4 DEF MergedKey
  <2>5. CASE ~(k < d)
    <3>1. k \notin c .. d - 1 /\ ~(k < c)
      BY <2>1, <2>5
    <3> QED BY <2>2, <2>5, <3>1
  <2> QED BY <2>3, <2>4, <2>5
<1> QED BY <1>2, <1>3 DEF Half

\* When all keys are merged the merged files are not needed any more.
LEMMA HalfToSweep ==
  ASSUME NEW D, NEW R, NEW n \in Nat, NEW S, NEW s, NEW j, Half(D, R, n, S, s, j, NumKeys + 1)
  PROVE  StoreIs(R, S, s, DOMAIN s \ (j + 1 .. j + n))
<1> DEFINE W == j + 1 .. j + n
           P == DOMAIN s \ W
<1> SUFFICES ASSUME NEW k \in Key
             PROVE  \E r \in Rec \union {NoRec} : Top(Column(R, s, k), P, r) /\ S[k] = Shown(r)
  BY DEF StoreIs
<1> DEFINE f == Column(R, s, k)
<1>1. /\ s \in Seq(FileId) /\ Len(s) \in Nat /\ DOMAIN s = 1 .. Len(s) /\ Ordered(s)
      /\ j \in 1 .. Len(s) /\ n >= 2 /\ j + n <= Len(s)
      /\ j .. j + n \subseteq DOMAIN s /\ j \notin W
      /\ \A i \in DOMAIN s : s[i] \in Nat
  BY HalfShape
<1>2. j \in DOMAIN s /\ j \in P /\ j \in Nat /\ W \subseteq DOMAIN s /\ DOMAIN s \subseteq Nat /\ f[j] = R[s[j]][k]
  BY <1>1, ColumnAt
<1>3. PICK w \in Rec \union {NoRec} :
        Top(f, W, w) /\ f[j] = IF s[j + 1] \in {0, 1} THEN Shown(w) ELSE w
  <2>1. k < NumKeys + 1
    BY BoundsAssumption DEF Key
  <2>2. MergedKey(R, s, j, n, k)
    BY <2>1 DEF Half
  <2> QED BY <1>2, <2>2 DEF MergedKey
<1>4. PICK r \in Rec \union {NoRec} : Top(f, DOMAIN s \ {j}, r) /\ S[k] = Shown(r)
  BY DEF Half, StoreIs
<1>5. s[j + 1] \in {0, 1} => j = 1
  <2> SUFFICES ASSUME s[j + 1] \in {0, 1}, j > 1 PROVE FALSE
    BY <1>1
  <2>1. 1 \in DOMAIN s /\ j + 1 \in DOMAIN s /\ j \in DOMAIN s /\ 1 < j /\ j < j + 1
    BY <1>1
  <2>2. s[1] < s[j] /\ s[j] < s[j + 1]
    BY <2>1, <1>1 DEF Ordered
  <2> QED BY <1>1, <2>1, <2>2
<1>6. \A p \in P : p \in DOMAIN s /\ (p < j \/ p = j \/ p > j + n)
  BY <1>1
<1>7. \A p \in DOMAIN s : p > j + n => p \in P /\ p # j /\ p > j
  BY <1>1
<1>8. \A p \in W : p \in DOMAIN s /\ p # j /\ p > j /\ p <= j + n
  BY <1>1
<1>9. n \in Nat /\ j + n \in Nat
  BY <1>1
<1> HIDE DEF f, W, P
<1> SUFFICES \E x \in Rec \union {NoRec} : Top(f, P, x) /\ S[k] = Shown(x)
  BY DEF f, P, W
<1>10. CASE \E q \in DOMAIN s : q > j + n /\ f[q] # NoRec
  <2>1. PICK q \in DOMAIN s : q > j + n /\ f[q] # NoRec
    BY <1>10
  <2>2. PICK p \in DOMAIN s \ {j} : f[p] = r /\ r # NoRec /\ \A o \in DOMAIN s \ {j} : p < o => f[o] = NoRec
    BY <1>4, <1>7, <2>1 DEF Top
  <2>3. ~(p < q)
    BY <1>7, <2>1, <2>2
  <2>4. p > j + n /\ p > j
    BY <1>2, <1>9, <2>1, <2>2, <2>3
  <2>5. p \in P
    BY <1>7, <2>2, <2>4
  <2>6. \A o \in P : p < o => f[o] = NoRec
    BY <1>2, <1>6, <2>2, <2>4
  <2>7. Top(f, P, r)
    BY <2>2, <2>5, <2>6 DEF Top
  <2> QED BY <1>4, <2>7
<1>11. CASE ~(\E q \in DOMAIN s : q > j + n /\ f[q] # NoRec)
  <2>1. \A q \in P : j < q => f[q] = NoRec
    BY <1>2, <1>6, <1>11
  <2>2. CASE w = NoRec
    <3>1. f[j] = NoRec /\ \A q \in W : f[q] = NoRec
      BY <1>3, <2>2 DEF Top, Shown
    <3>2. CASE r = NoRec
      <4>1. \A p \in DOMAIN s \ {j} : f[p] = NoRec
        BY <1>4, <3>2 DEF Top
      <4>2. \A p \in P : f[p] = NoRec
        BY <1>6, <3>1, <4>1
      <4>3. Top(f, P, r)
        BY <3>2, <4>2 DEF Top
      <4> QED BY <1>4, <4>3
    <3>3. CASE r # NoRec
      <4>1. PICK p \in DOMAIN s \ {j} : f[p] = r /\ \A o \in DOMAIN s \ {j} : p < o => f[o] = NoRec
        BY <1>4, <3>3 DEF Top
      <4>2. p \in P
        BY <3>1, <3>3, <4>1 DEF P
      <4>3. \A o \in P : p < o => f[o] = NoRec
        BY <1>6, <3>1, <4>1
      <4>4. Top(f, P, r)
        BY <3>3, <4>1, <4>2, <4>3 DEF Top
      <4> QED BY <1>4, <4>4
    <3> QED BY <3>2, <3>3
  <2>3. CASE w # NoRec
    <3>1. PICK p \in W : f[p] = w /\ \A o \in W : p < o => f[o] = NoRec
      BY <1>3, <2>3 DEF Top
    <3>2. ASSUME NEW o \in DOMAIN s \ {j}, p < o PROVE f[o] = NoRec
      <4>1. CASE o \in W
        BY <3>1, <3>2, <4>1
      <4>2. CASE o \notin W
        <5>1. o \in P /\ j < o
          BY <1>2, <1>8, <3>2, <4>2 DEF P
        <5> QED BY <2>1, <5>1
      <4> QED BY <4>1, <4>2
    <3>3. p \in DOMAIN s \ {j}
      BY <1>8
    <3>4. Top(f, DOMAIN s \ {j}, w)
      BY <2>3, <3>1, <3>2, <3>3 DEF Top
    <3>5. r = w
      <4>1. DOMAIN s \ {j} \in SUBSET Nat
        BY <1>2
      <4> QED BY <1>4, <3>4, <4>1, TopUnique
    <3>6. CASE f[j] = w
      <4>1. Top(f, P, r)
        BY <1>2, <2>1, <2>3, <3>5, <3>6 DEF Top
      <4> QED BY <1>4, <4>1
    <3>7. CASE f[j] # w
      <4>1. f[j] = NoRec /\ w = Neg /\ j = 1
        BY <1>3, <1>5, <3>7 DEF Shown
      <4>2. \A q \in P : q = j \/ j < q
        BY <1>2, <1>6, <4>1, <1>1
      <4>3. Top(f, P, NoRec)
        BY <2>1, <4>1, <4>2 DEF Top
      <4>4. S[k] = Shown(NoRec)
        BY <1>4, <3>5, <4>1 DEF Shown
      <4> QED BY <4>3, <4>4
    <3> QED BY <3>6, <3>7
  <2> QED BY <2>2, <2>3
<1> QED BY <1>10, <1>11


-----------------------------------------------------------------------------
(* A dump.                                                                  *)

LEMMA NewIdIs ==
  ASSUME IsList(ids), NewId <= MaxId
  PROVE  NewId \in FileId /\ NewId \in Nat /\ ~IsEven(NewId) /\ \A i \in DOMAIN ids : ids[i] < NewId
<1>1. ids \in Seq(FileId) /\ Len(ids) \in Nat /\ DOMAIN ids = 1 .. Len(ids) /\ Ordered(ids)
  BY DEF IsList
<1>2. \A i \in DOMAIN ids : ids[i] \in Nat
  <2>1. \A i \in DOMAIN ids : ids[i] \in FileId
    BY <1>1
  <2> QED BY <2>1, FileIds
<1> DEFINE past == IF ids = <<>> THEN 0 ELSE ids[Len(ids)] + 1
<1>3. past \in Nat /\ \A i \in DOMAIN ids : ids[i] < past
  <2>1. CASE ids = <<>>
    BY <2>1
  <2>2. CASE ids # <<>>
    <3>1. Len(ids) \in DOMAIN ids
      BY <1>1, <2>2
    <3>2. ASSUME NEW i \in DOMAIN ids PROVE ids[i] < ids[Len(ids)] + 1
      <4>1. i = Len(ids) \/ i < Len(ids)
        BY <1>1
      <4>2. ids[i] = ids[Len(ids)] \/ ids[i] < ids[Len(ids)]
        BY <1>1, <3>1, <4>1 DEF Ordered
      <4> QED BY <1>2, <3>1, <4>2
    <3> QED BY <1>2, <2>2, <3>1, <3>2
  <2> QED BY <2>1, <2>2
<1>4. NewId = IF IsEven(past) THEN past + 1 ELSE past
  BY DEF NewId
<1> HIDE DEF past
<1>5. NewId \in Nat /\ ~IsEven(NewId) /\ NewId >= past
  BY <1>3, <1>4 DEF IsEven
<1> QED BY <1>2, <1>3, <1>5, FileIds DEF FileId

LEMMA AppendIs ==
  ASSUME NEW s \in Seq(FileId), NEW e \in FileId
  PROVE  /\ Append(s, e) \in Seq(FileId) /\ Len(Append(s, e)) = Len(s) + 1
         /\ DOMAIN Append(s, e) = 1 .. Len(s) + 1 /\ DOMAIN s = 1 .. Len(s) /\ Len(s) \in Nat
         /\ Append(s, e)[Len(s) + 1] = e
         /\ \A p \in DOMAIN s : p \in DOMAIN Append(s, e) /\ Append(s, e)[p] = s[p]
         /\ \A p \in DOMAIN Append(s, e) : p \in DOMAIN s \/ p = Len(s) + 1
OBVIOUS

LEMMA AppendedList ==
  ASSUME NEW s, IsList(s), NEW e \in FileId, Len(s) < MaxFiles, \A i \in DOMAIN s : s[i] < e
  PROVE  IsList(Append(s, e)) /\ \A D : Lists(D, s) => Lists(D \union {e}, Append(s, e))
<1>1. s \in Seq(FileId) /\ Len(s) \in Nat /\ DOMAIN s = 1 .. Len(s) /\ Ordered(s)
  BY DEF IsList
<1> PICK t : t = Append(s, e)
  OBVIOUS
<1>2. /\ t \in Seq(FileId) /\ Len(t) = Len(s) + 1
      /\ DOMAIN t = 1 .. Len(s) + 1 /\ t[Len(s) + 1] = e
  BY <1>1, AppendIs
<1>3. /\ \A p \in DOMAIN s : p \in DOMAIN t /\ t[p] = s[p]
      /\ \A p \in DOMAIN t : p \in DOMAIN s \/ p = Len(s) + 1
  BY <1>1, AppendIs
<1>4. Ordered(t)
  <2> SUFFICES ASSUME NEW i \in DOMAIN t, NEW j \in DOMAIN t, i < j PROVE t[i] < t[j]
    BY DEF Ordered
  <2>1. i \in DOMAIN s
    BY <1>1, <1>2
  <2>2. CASE j \in DOMAIN s
    BY <1>1, <1>3, <2>1, <2>2 DEF Ordered
  <2>3. CASE j = Len(s) + 1
    BY <1>2, <1>3, <2>1, <2>3
  <2> QED BY <1>3, <2>2, <2>3
<1>5. IsList(t)
  BY <1>1, <1>2, <1>4, BoundsAssumption DEF IsList
<1>6. ASSUME NEW D, Lists(D, s) PROVE Lists(D \union {e}, t)
  <2>1. Len(s) + 1 \in DOMAIN t
    BY <1>1, <1>2
  <2>2. D = {s[i] : i \in DOMAIN s}
    BY <1>6 DEF Lists
  <2>3. D \union {e} = {t[i] : i \in DOMAIN t}
    BY <1>2, <1>3, <2>1, <2>2
  <2> QED BY <1>5, <2>3 DEF Lists
<1> QED BY <1>5, <1>6

\* What is to be read after the contents c are dumped.
Dumped(c, S, U) ==
  \A k \in Key : U[k] = IF c[k] = NoRec THEN S[k] ELSE IF c[k] = Neg THEN NoRec ELSE c[k]

LEMMA AppendedStore ==
  ASSUME NEW s \in Seq(FileId), NEW e \in FileId, NEW R, NEW T, NEW S, NEW c \in Contents,
         NEW P \in SUBSET DOMAIN s, StoreIs(R, S, s, P), T[e] = c, \A p \in P : T[s[p]] = R[s[p]],
         NEW U, Dumped(c, S, U)
  PROVE  StoreIs(T, U, Append(s, e), P \union {Len(s) + 1})
<1> PICK t : t = Append(s, e)
  OBVIOUS
<1> SUFFICES ASSUME NEW k \in Key
             PROVE  \E r \in Rec \union {NoRec} :
                      Top(Column(T, t, k), P \union {Len(s) + 1}, r) /\ U[k] = Shown(r)
  BY DEF StoreIs
<1> DEFINE f == Column(R, s, k)
           g == Column(T, t, k)
           n == Len(s) + 1
<1>1. PICK r \in Rec \union {NoRec} : Top(f, P, r) /\ S[k] = Shown(r)
  BY DEF StoreIs
<1>2. DOMAIN s \subseteq DOMAIN t /\ n \in DOMAIN t /\ t[n] = e /\ \A p \in DOMAIN s : t[p] = s[p]
  BY AppendIs
<1>3. \A p \in P : p \in Nat /\ p < n
  BY AppendIs
<1>4. g[n] = c[k]
  <2>1. g[n] = T[t[n]][k]
    BY <1>2 DEF Column
  <2> QED BY <1>2, <2>1
<1>5. \A p \in P : g[p] = f[p]
  <2> SUFFICES ASSUME NEW p \in P PROVE g[p] = f[p]
    OBVIOUS
  <2>1. p \in DOMAIN s /\ p \in DOMAIN t /\ t[p] = s[p] /\ T[s[p]] = R[s[p]]
    BY <1>2
  <2> QED BY <2>1 DEF Column
<1>6. n \in Nat /\ n \notin P
  BY <1>3, AppendIs
<1>7. U[k] = IF c[k] = NoRec THEN S[k] ELSE IF c[k] = Neg THEN NoRec ELSE c[k]
  BY DEF Dumped
<1> HIDE DEF f, g, n
<1>8. CASE c[k] = NoRec
  <2>1. Top(g, P \union {n}, r)
    <3>1. CASE r = NoRec
      BY <1>1, <1>4, <1>5, <1>8, <3>1 DEF Top
    <3>2. CASE r # NoRec
      <4>1. PICK p \in P : f[p] = r /\ \A q \in P : p < q => f[q] = NoRec
        BY <1>1, <3>2 DEF Top
      <4>2. \A q \in P \union {n} : p < q => g[q] = NoRec
        BY <1>4, <1>5, <1>8, <4>1
      <4>3. g[p] = r
        BY <1>5, <4>1
      <4> QED BY <3>2, <4>2, <4>3 DEF Top
    <3> QED BY <3>1, <3>2
  <2> QED BY <1>1, <1>7, <1>8, <2>1 DEF g, n
<1>9. CASE c[k] # NoRec
  <2>1. \A q \in P \union {n} : ~(n < q)
    BY <1>3, <1>6
  <2>2. Top(g, P \union {n}, c[k])
    BY <1>4, <1>9, <2>1 DEF Top
  <2>3. c[k] \in Rec \union {NoRec}
    BY DEF Contents
  <2> QED BY <1>7, <1>9, <2>2, <2>3 DEF Shown, g, n
<1> QED BY <1>8, <1>9


-----------------------------------------------------------------------------
(* A merge ends, or is forgotten.                                           *)

\* The n files behind the target at j are gone, and the others hold all.
Swept(D, R, S, s, j, n) ==
  /\ IsList(s) /\ j + n <= Len(s) /\ OneEven(s, j)
  /\ D = {s[p] : p \in DOMAIN s \ (j + 1 .. j + n)}
  /\ StoreIs(R, S, s, DOMAIN s \ (j + 1 .. j + n))

Renamed(R, T, s, j) ==
  T[s[j + 1]] = R[s[j]] /\ \A f \in FileId : f \notin {s[j], s[j + 1]} => T[f] = R[f]

\* The target takes the place of the merged files.
LEMMA SweptToSettled ==
  ASSUME NEW D, NEW R, NEW T, NEW S, NEW s, NEW j \in Nat, NEW n \in Nat, j >= 1, n >= 1,
         Swept(D, R, S, s, j, n), Renamed(R, T, s, j)
  PROVE  Settled((D \ {s[j]}) \union {s[j + 1]}, T, S, Spliced(s, j - 1, j + n + 1, s[j + 1]))
<1> USE DEF Swept, Renamed
<1>1. s \in Seq(FileId) /\ Len(s) \in Nat /\ DOMAIN s = 1 .. Len(s) /\ Ordered(s) /\ Len(s) <= MaxFiles
  BY DEF IsList
<1>2. \A i \in DOMAIN s : s[i] \in FileId /\ s[i] \in Nat
  <2>1. \A i \in DOMAIN s : s[i] \in FileId
    BY <1>1
  <2> QED BY <2>1, FileIds
<1>a. PICK a \in 0 .. Len(s) : a = j - 1
  BY <1>1
<1>b. PICK b \in a + 2 .. Len(s) + 1 : b = j + n + 1
  BY <1>1, <1>a
<1> b \in a + 1 .. Len(s) + 1
  BY <1>1
<1>3. j \in DOMAIN s /\ j + 1 \in DOMAIN s /\ a \in Nat /\ b \in Nat /\ a + 1 = j
  BY <1>1, <1>a
<1>e. PICK e \in FileId : e = s[j + 1]
  BY <1>2, <1>3
<1> DEFINE P == 1 .. a \union b .. Len(s)
           t == Spliced(s, a, b, e)
           N == Len(s) + a + 2 - b
<1>4. DOMAIN s \ (j + 1 .. j + n) = P \union {j} /\ P \subseteq DOMAIN s
  <2>1. \A p \in DOMAIN s \ (j + 1 .. j + n) : p \in P \union {j}
    BY <1>1, <1>a, <1>b
  <2>2. \A p \in P \union {j} : p \in DOMAIN s \ (j + 1 .. j + n)
    BY <1>1, <1>a, <1>b
  <2> QED BY <2>1, <2>2
<1>5. \A p \in P : p # j /\ p # j + 1 /\ p \in DOMAIN s
  BY <1>1, <1>a, <1>b
<1>6. t \in Seq(FileId) /\ DOMAIN t = 1 .. N /\ t[a + 1] = e /\ N \in Nat /\ a + 1 \in 1 .. N /\ N <= Len(s)
  <2>1. N \in Nat /\ a + 1 \in 1 .. N /\ N <= Len(s)
    BY <1>1, <1>3
  <2>2. t \in Seq(FileId) /\ t[a + 1] = e
    BY <1>1, SplicedIs
  <2>3. DOMAIN t = 1 .. N
    <3>1. Len(t) = N
      BY <1>1, SplicedIs
    <3> HIDE DEF t, N
    <3> QED BY <2>1, <2>2, <3>1
  <2> QED BY <2>1, <2>2, <2>3
<1>7. \A p \in P : Moved(a, b, p) \in (1 .. N) \ {a + 1} /\ t[Moved(a, b, p)] = s[p]
  BY <1>1, SplicedFrom
<1>8. \A q \in (1 .. N) \ {a + 1} : \E p \in P : Moved(a, b, p) = q
  BY <1>1, SplicedFrom
<1>9. Len(t) = N
  BY <1>1, SplicedIs
<1>10. Ordered(t)
  <2>1. \A p \in 1 .. a : s[p] < e
    BY <1>1, <1>2, <1>3, <1>a, <1>b, <1>e DEF Ordered
  <2>2. \A p \in b .. Len(s) : e < s[p]
    BY <1>1, <1>2, <1>3, <1>a, <1>b, <1>e DEF Ordered
  <2> QED BY <1>1, <2>1, <2>2, SplicedOrdered
<1>11. StoreIs(T, S, t, DOMAIN t)
  <2>1. 1 .. a + 1 \union b .. Len(s) = P \union {j}
    BY <1>1, <1>3
  <2>2. StoreIs(R, S, s, 1 .. a + 1 \union b .. Len(s))
    BY <1>4, <2>1
  <2>3. T[e] = R[s[a + 1]]
    BY <1>3, <1>e
  <2>4. \A p \in P : T[s[p]] = R[s[p]]
    <3> SUFFICES ASSUME NEW p \in P PROVE T[s[p]] = R[s[p]]
      OBVIOUS
    <3>1. p \in DOMAIN s /\ p # j /\ p # j + 1
      BY <1>5
    <3>2. s[p] # s[j] /\ s[p] # s[j + 1]
      BY <1>1, <1>3, <3>1, ListedOnce
    <3> QED BY <1>2, <3>1, <3>2
  <2> QED BY <1>1, <2>2, <2>3, <2>4, SplicedPut
<1>12. AllOdd(t)
  <2> SUFFICES ASSUME NEW q \in 1 .. N PROVE ~IsEven(t[q])
    BY <1>6 DEF AllOdd
  <2>1. CASE q = a + 1
    BY <1>3, <1>6, <1>e, <2>1 DEF OneEven
  <2>2. CASE q # a + 1
    <3>1. PICK p \in P : Moved(a, b, p) = q
      BY <1>8, <2>2
    <3>2. t[q] = s[p] /\ p \in DOMAIN s /\ p # j
      BY <1>5, <1>7, <3>1
    <3> QED BY <3>2 DEF OneEven
  <2> QED BY <2>1, <2>2
<1>13. (D \ {s[j]}) \union {e} = {t[q] : q \in DOMAIN t}
  <2>1. ASSUME NEW x \in (D \ {s[j]}) \union {e} PROVE \E q \in 1 .. N : t[q] = x
    <3>1. CASE x = e
      BY <1>6, <3>1
    <3>2. CASE x # e
      <4>1. PICK p \in P \union {j} : x = s[p] /\ x # s[j]
        BY <1>4, <3>2
      <4>2. p \in P
        BY <4>1
      <4> QED BY <1>7, <4>1, <4>2
    <3> QED BY <3>1, <3>2
  <2>2. ASSUME NEW q \in 1 .. N PROVE t[q] \in (D \ {s[j]}) \union {e}
    <3>1. CASE q = a + 1
      <4>1. t[q] = e
        BY <1>6, <3>1
      <4> QED BY <4>1
    <3>2. CASE q # a + 1
      <4>1. PICK p \in P : Moved(a, b, p) = q
        BY <1>8, <3>2
      <4>2. t[q] = s[p] /\ p \in DOMAIN s /\ p # j
        BY <1>5, <1>7, <4>1
      <4>3. s[p] # s[j]
        BY <1>1, <1>3, <4>2, ListedOnce
      <4>4. s[p] \in D
        BY <1>4
      <4> QED BY <4>2, <4>3, <4>4
    <3> QED BY <3>1, <3>2
  <2> HIDE DEF t, N
  <2>3. DOMAIN t = 1 .. N
    BY <1>6
  <2>4. \A x \in {t[q] : q \in DOMAIN t} : x \in (D \ {s[j]}) \union {e}
    BY <2>2, <2>3
  <2>5. \A x \in (D \ {s[j]}) \union {e} : x \in {t[q] : q \in DOMAIN t}
    BY <2>1, <2>3
  <2> QED BY <2>4, <2>5
<1>14. IsList(t)
  <2>1. N <= MaxFiles
    BY <1>1, <1>6, BoundsAssumption
  <2> HIDE DEF t, N
  <2> QED BY <1>6, <1>9, <1>10, <2>1 DEF IsList
<1> HIDE DEF t
<1>15. Settled((D \ {s[j]}) \union {e}, T, S, t)
  BY <1>11, <1>12, <1>13, <1>14 DEF Settled, Lists
<1>16. b = j + n + 1 /\ a = j - 1 /\ e = s[j + 1]
  BY <1>a, <1>b, <1>e
<1> QED BY <1>15, <1>16 DEF t

\* An empty target is taken out.
LEMMA HalfToSettled ==
  ASSUME NEW D, NEW R, NEW n \in Nat, NEW S, NEW s, NEW j, NEW c, Half(D, R, n, S, s, j, c)
  PROVE  \E t : Settled(D \ {s[j]}, R, S, t)
<1>1. s \in Seq(FileId) /\ Len(s) \in Nat /\ DOMAIN s = 1 .. Len(s) /\ Ordered(s) /\ Len(s) <= MaxFiles
  BY DEF Half, Lists, IsList
<1>2. j \in 1 .. Len(s) /\ j \in DOMAIN s /\ j \in Nat
  BY <1>1 DEF Half, OneEven
<1>3. \A i \in DOMAIN s : s[i] \in FileId
  BY <1>1
<1> DEFINE P == DOMAIN s \ {j}
           Q == 1 .. Len(s) - 1
           m == [p \in P |-> IF p < j THEN p ELSE p - 1]
<1> PICK t : t = [q \in Q |-> IF q < j THEN s[q] ELSE s[q + 1]]
  OBVIOUS
<1>4. t \in Seq(FileId) /\ Len(t) = Len(s) - 1 /\ DOMAIN t = Q
  <2>1. \A q \in Q : t[q] \in FileId
    <3> SUFFICES ASSUME NEW q \in Q PROVE t[q] \in FileId
      OBVIOUS
    <3>1. q \in DOMAIN s /\ q + 1 \in DOMAIN s
      BY <1>1
    <3> QED BY <1>3, <3>1
  <2>2. Len(s) - 1 \in Nat
    BY <1>1, <1>2
  <2>3. t \in [1 .. Len(s) - 1 -> FileId]
    BY <2>1
  <2> QED BY <2>2, <2>3
<1>5. P \in SUBSET Nat /\ Q \in SUBSET Nat /\ P \subseteq DOMAIN s /\ Q \subseteq DOMAIN t
  BY <1>1, <1>4
<1>6. \A p \in P : m[p] \in Q /\ t[m[p]] = s[p]
  <2> SUFFICES ASSUME NEW p \in P PROVE m[p] \in Q /\ t[m[p]] = s[p]
    OBVIOUS
  <2>1. p \in Nat /\ p \in 1 .. Len(s) /\ p # j
    BY <1>1
  <2>2. CASE p < j
    <3>1. m[p] = p /\ p \in Q
      BY <1>1, <1>2, <2>1, <2>2
    <3> QED BY <2>2, <3>1
  <2>3. CASE p > j
    <3>1. m[p] = p - 1 /\ p - 1 \in Q /\ ~(p - 1 < j)
      BY <1>1, <1>2, <2>1, <2>3
    <3>2. t[p - 1] = s[p - 1 + 1] /\ p - 1 + 1 = p
      BY <2>1, <3>1
    <3> QED BY <3>1, <3>2
  <2> QED BY <1>2, <2>1, <2>2, <2>3
<1>7. \A q \in Q : \E p \in P : m[p] = q
  <2> SUFFICES ASSUME NEW q \in Q PROVE \E p \in P : m[p] = q
    OBVIOUS
  <2>1. CASE q < j
    <3>1. q \in P /\ m[q] = q
      BY <1>1, <1>2, <2>1
    <3> QED BY <3>1
  <2>2. CASE ~(q < j)
    <3>1. q + 1 \in P /\ m[q + 1] = q
      BY <1>1, <1>2, <2>2
    <3> QED BY <3>1
  <2> QED BY <2>1, <2>2
<1>8. \A o, p \in P : o < p => m[o] < m[p]
  BY <1>1, <1>2
<1>9. m \in [P -> Q]
  BY <1>6
<1>10. \A i \in P : ~IsEven(s[i]) /\ s[i] # s[j]
  BY <1>1, <1>2, ListedOnce DEF Half, OneEven
<1>11. D = {s[i] : i \in DOMAIN s}
  BY DEF Half, Lists
<1>12. \A p \in P : R[t[m[p]]] = R[s[p]]
  BY <1>6
<1> HIDE DEF Q, m
<1>13. StoreIs(R, S, t, DOMAIN t)
  <2>1. SameFiles(R, s, P, R, t, Q, m)
    BY <1>5, <1>7, <1>8, <1>9, <1>12 DEF SameFiles
  <2>2. StoreIs(R, S, s, P)
    BY DEF Half
  <2> QED BY <1>4, <2>1, <2>2, StoreMoved
<1>14. Ordered(t)
  <2> SUFFICES ASSUME NEW i \in Q, NEW l \in Q, i < l PROVE t[i] < t[l]
    BY <1>4 DEF Ordered
  <2>1. PICK o \in P : m[o] = i
    BY <1>7
  <2>2. PICK p \in P : m[p] = l
    BY <1>7
  <2>3. o \in Nat /\ p \in Nat /\ i \in Nat /\ l \in Nat
    BY <1>5
  <2>4. o < p
    <3>1. o # p
      BY <2>1, <2>2, <2>3
    <3>2. ~(p < o)
      BY <1>8, <2>1, <2>2, <2>3
    <3> QED BY <2>3, <3>1, <3>2
  <2>5. s[o] < s[p]
    BY <1>1, <2>4 DEF Ordered
  <2> QED BY <1>6, <2>1, <2>2, <2>5
<1>15. AllOdd(t)
  <2> SUFFICES ASSUME NEW q \in Q PROVE ~IsEven(t[q])
    BY <1>4 DEF AllOdd
  <2>1. PICK p \in P : m[p] = q
    BY <1>7
  <2>2. t[q] = s[p] /\ ~IsEven(s[p])
    BY <1>6, <1>10, <2>1
  <2> QED BY <2>2
<1>16. D \ {s[j]} = {t[q] : q \in DOMAIN t}
  <2>1. ASSUME NEW x \in D \ {s[j]} PROVE \E q \in Q : t[q] = x
    <3>1. PICK p \in P : s[p] = x
      BY <1>11
    <3> QED BY <1>6, <3>1
  <2>2. ASSUME NEW q \in Q PROVE t[q] \in D \ {s[j]}
    <3>1. PICK p \in P : m[p] = q
      BY <1>7
    <3>2. t[q] = s[p] /\ s[p] # s[j]
      BY <1>6, <1>10, <3>1
    <3>3. s[p] \in D
      BY <1>11
    <3> QED BY <3>2, <3>3
  <2>3. DOMAIN t = Q
    BY <1>4
  <2>4. \A x \in {t[q] : q \in DOMAIN t} : x \in D \ {s[j]}
    BY <2>2, <2>3
  <2>5. \A x \in D \ {s[j]} : x \in {t[q] : q \in DOMAIN t}
    BY <2>1, <2>3
  <2> QED BY <2>4, <2>5
<1>17. IsList(t)
  <2>1. Len(t) <= MaxFiles
    BY <1>1, <1>4, BoundsAssumption
  <2> QED BY <1>4, <1>14, <2>1 DEF IsList
<1> QED BY <1>13, <1>15, <1>16, <1>17 DEF Settled, Lists


-----------------------------------------------------------------------------
(* The steps.                                                               *)

LEMMA ListShape ==
  ASSUME NEW s, IsList(s)
  PROVE  /\ s \in Seq(FileId) /\ Len(s) \in Nat /\ Len(s) <= MaxFiles /\ DOMAIN s = 1 .. Len(s)
         /\ \A i \in DOMAIN s : i \in Nat /\ s[i] \in FileId /\ s[i] \in Nat
<1>1. s \in Seq(FileId) /\ Len(s) \in Nat /\ Len(s) <= MaxFiles /\ DOMAIN s = 1 .. Len(s)
  BY DEF IsList
<1>2. \A i \in DOMAIN s : i \in Nat /\ s[i] \in FileId
  BY <1>1
<1> QED BY <1>1, <1>2, FileIds

LEMMA UpList == ASSUME BaseInv, up PROVE IsList(ids)
BY DEF BaseInv, TypeOK, HalfMerged, Sweeping, OnDisk, Half, Settled, Whole, Lists

LEMMA IdleOdd ==
  ASSUME BaseInv, up, merge = "idle", \A i \in DOMAIN ids : ~IsEven(ids[i])
  PROVE  Settled(disk, recs, store, ids)
<1>1. OnDisk(disk, recs, mergeNum, store, ids)
  BY DEF BaseInv
<1>2. ~Whole(disk, recs, store, ids)
  <2> SUFFICES ASSUME Whole(disk, recs, store, ids) PROVE FALSE
    OBVIOUS
  <2>1. 1 \in DOMAIN ids /\ IsEven(ids[1])
    BY DEF Whole, Lists, IsList
  <2> QED BY <2>1
<1>3. ~(\E j \in DOMAIN ids, c \in 1 .. NumKeys + 1 : Half(disk, recs, mergeNum, store, ids, j, c))
  BY DEF Half, OneEven
<1> QED BY <1>1, <1>2, <1>3 DEF OnDisk

LEMMA EmptySettled ==
  ASSUME NEW R, NEW S, \A k \in Key : S[k] = NoRec
  PROVE  Settled({}, R, S, <<>>)
<1>1. <<>> \in Seq(FileId) /\ DOMAIN <<>> = {} /\ Len(<<>>) <= MaxFiles
  BY BoundsAssumption
<1>2. StoreIs(R, S, <<>>, {})
  <2> SUFFICES ASSUME NEW k \in Key
               PROVE  \E r \in Rec \union {NoRec} : Top(Column(R, <<>>, k), {}, r) /\ S[k] = Shown(r)
    BY DEF StoreIs
  <2>1. Top(Column(R, <<>>, k), {}, NoRec)
    BY DEF Top
  <2>2. S[k] = Shown(NoRec)
    BY RecAssumption DEF Shown
  <2> QED BY <2>1, <2>2
<1>3. IsList(<<>>) /\ AllOdd(<<>>)
  BY <1>1 DEF IsList, Ordered, AllOdd
<1>4. {} = {<<>>[i] : i \in DOMAIN <<>>}
  BY <1>1
<1> QED BY <1>1, <1>2, <1>3, <1>4 DEF Settled, Lists

LEMMA BaseInvInit == Init => BaseInv
<1> SUFFICES ASSUME Init PROVE BaseInv
  OBVIOUS
<1>1. Nothing \in Contents /\ \A k \in Key : Nothing[k] = NoRec
  BY DEF Nothing, Contents
<1>2. Settled(disk, recs, store, ids)
  BY <1>1, EmptySettled DEF Init
<1>3. TypeOK
  BY <1>1, BoundsAssumption DEF Init, TypeOK, Nothing
<1> QED BY <1>2, <1>3 DEF Init, BaseInv, Quiet, OnDisk

LEMMA HalfDumped ==
  ASSUME NEW D, NEW R, NEW T, NEW n \in Nat, NEW S, NEW s, NEW j, NEW d, NEW c \in Contents,
         NEW e \in FileId, Half(D, R, n, S, s, j, d), \A i \in DOMAIN s : s[i] < e, ~IsEven(e),
         Len(s) < MaxFiles, T[e] = c, \A f \in FileId : f # e => T[f] = R[f],
         NEW U, Dumped(c, S, U)
  PROVE  Half(D \union {e}, T, n, U, Append(s, e), j, d)
<1> PICK t : t = Append(s, e)
  OBVIOUS
<1>1. IsList(s) /\ Lists(D, s) /\ OneEven(s, j) /\ j \in DOMAIN s
  BY DEF Half, Lists, OneEven
<1>2. s \in Seq(FileId) /\ Len(s) \in Nat /\ DOMAIN s = 1 .. Len(s) /\ \A i \in DOMAIN s : s[i] \in FileId /\ s[i] \in Nat
  BY <1>1, ListShape
<1>3. /\ Len(t) = Len(s) + 1 /\ DOMAIN t = 1 .. Len(s) + 1 /\ t[Len(s) + 1] = e
      /\ \A p \in DOMAIN s : p \in DOMAIN t /\ t[p] = s[p]
      /\ \A p \in DOMAIN t : p \in DOMAIN s \/ p = Len(s) + 1
  BY <1>2, AppendIs
<1>4. \A p \in DOMAIN s : T[t[p]] = R[s[p]] /\ T[s[p]] = R[s[p]]
  <2> SUFFICES ASSUME NEW p \in DOMAIN s PROVE T[t[p]] = R[s[p]] /\ T[s[p]] = R[s[p]]
    OBVIOUS
  <2>1. e \in Nat /\ s[p] < e /\ s[p] \in Nat /\ s[p] \in FileId
    BY <1>2, FileIds
  <2>2. s[p] # e
    BY <2>1
  <2> QED BY <1>3, <2>1, <2>2
<1>5. Lists(D \union {e}, t)
  BY <1>1, AppendedList
<1>6. OneEven(t, j)
  BY <1>1, <1>3 DEF OneEven
<1>7. StoreIs(T, U, t, DOMAIN t \ {j})
  <2>1. DOMAIN s \ {j} \in SUBSET DOMAIN s /\ StoreIs(R, S, s, DOMAIN s \ {j})
    BY DEF Half
  <2>2. \A p \in DOMAIN s \ {j} : T[s[p]] = R[s[p]]
    BY <1>4
  <2>3. StoreIs(T, U, t, (DOMAIN s \ {j}) \union {Len(s) + 1})
    BY <1>2, <2>1, <2>2, AppendedStore
  <2>4. DOMAIN t \ {j} = (DOMAIN s \ {j}) \union {Len(s) + 1}
    BY <1>1, <1>2, <1>3
  <2> QED BY <2>3, <2>4
<1>8. n >= 2 /\ j + n <= Len(s) /\ j \in Nat
  BY <1>1, <1>2 DEF Half
<1>9. j .. j + n \subseteq DOMAIN s /\ j .. j + n \subseteq DOMAIN t /\ j + 1 \in DOMAIN s
  BY <1>1, <1>2, <1>3, <1>8
<1>10. ASSUME NEW k \in Key PROVE IF k < d THEN MergedKey(T, t, j, n, k) ELSE T[t[j]][k] = NoRec
  <2>1. IF k < d THEN MergedKey(R, s, j, n, k) ELSE R[s[j]][k] = NoRec
    BY DEF Half
  <2>2. \A p \in j .. j + n : T[t[p]][k] = R[s[p]][k]
    BY <1>4, <1>9
  <2>3. t[j + 1] = s[j + 1] /\ n >= 1
    BY <1>3, <1>8, <1>9
  <2>4. MergedKey(R, s, j, n, k) => MergedKey(T, t, j, n, k)
    BY <1>8, <1>9, <2>2, <2>3, MergedSame
  <2>5. T[t[j]][k] = R[s[j]][k]
    BY <1>1, <1>4
  <2> QED BY <2>1, <2>4, <2>5
<1>11. j + n <= Len(t)
  BY <1>2, <1>3, <1>8
<1> QED BY <1>5, <1>6, <1>7, <1>8, <1>10, <1>11 DEF Half


LEMMA InvDump == ASSUME BaseInv, ~AnyTime, NEW c \in Contents, Dump(c) PROVE BaseInv'
<1>1. IsList(ids) /\ up /\ Len(ids) + 1 < MaxFiles /\ NewId <= MaxId
  BY UpList DEF Dump
<1> PICK e : e = NewId
  OBVIOUS
<1>2. e \in FileId /\ ~IsEven(e) /\ \A i \in DOMAIN ids : ids[i] < e
  BY <1>1, NewIdIs
<1>3. /\ disk' = disk \union {e} /\ recs' = [recs EXCEPT ![e] = c] /\ ids' = Append(ids, e)
      /\ mergeNum' = mergeNum /\ up' = up /\ merge' = merge /\ start' = start /\ count' = count
      /\ cursor' = cursor /\ unlinks' = unlinks /\ crashes' = crashes
  BY DEF Dump, mergeVars
<1>4. Dumped(c, store, store')
  BY DEF Dump, Dumped
<1>5. TypeOK
  BY DEF BaseInv
<1>6. /\ ids \in Seq(FileId) /\ Len(ids) \in Nat /\ DOMAIN ids = 1 .. Len(ids)
      /\ \A i \in DOMAIN ids : ids[i] \in FileId /\ ids[i] \in Nat
  BY <1>1, ListShape
<1>7. /\ recs' \in [FileId -> Contents] /\ recs'[e] = c
      /\ \A f \in FileId : f # e => recs'[f] = recs[f]
  BY <1>2, <1>3, <1>5 DEF TypeOK
<1>8. Len(ids) < MaxFiles /\ Len(ids) + 1 <= MaxFiles
  BY <1>1, <1>6, BoundsAssumption
<1>9. Append(ids, e) \in Seq(FileId) /\ Len(Append(ids, e)) = Len(ids) + 1
  BY <1>2, <1>6
<1>10. TypeOK'
  <2>1. store' \in [Key -> Data \union {NoRec}]
    BY <1>5 DEF TypeOK, Dump, Contents, Rec
  <2>2. ids' \in Seq(FileId) /\ Len(ids') <= MaxFiles
    BY <1>3, <1>8, <1>9
  <2>3. disk' \subseteq FileId /\ unlinks' \subseteq disk'
    BY <1>2, <1>3, <1>5 DEF TypeOK
  <2> QED BY <1>3, <1>5, <1>7, <2>1, <2>2, <2>3 DEF TypeOK
<1>11. \A f \in FileId \ disk' : recs'[f] = Nothing
  BY <1>3, <1>7 DEF BaseInv
<1>12. mergeNum \in Nat
  BY <1>5, BoundsAssumption DEF TypeOK
<1>13. CASE merge = "idle"
  <2>1. Settled(disk, recs, store, ids)
    BY <1>1, <1>13, IdleOdd DEF Dump
  <2>2. Settled(disk', recs', store', ids')
    <3>1. Lists(disk', ids')
      BY <1>1, <1>2, <1>3, <1>8, <2>1, AppendedList DEF Settled
    <3>2. AllOdd(ids')
      BY <1>2, <1>3, <1>6, <2>1, AppendIs DEF AllOdd, Settled
    <3>3. StoreIs(recs', store', ids', DOMAIN ids \union {Len(ids) + 1})
      <4>1. \A p \in DOMAIN ids : recs'[ids[p]] = recs[ids[p]]
        <5> SUFFICES ASSUME NEW p \in DOMAIN ids PROVE recs'[ids[p]] = recs[ids[p]]
          OBVIOUS
        <5>1. ids[p] < e /\ ids[p] \in FileId /\ ids[p] \in Nat /\ e \in Nat
          BY <1>2, <1>6, FileIds
        <5>2. ids[p] # e
          BY <5>1
        <5> QED BY <1>7, <5>1, <5>2
      <4>2. DOMAIN ids \in SUBSET DOMAIN ids /\ StoreIs(recs, store, ids, DOMAIN ids)
        BY <2>1 DEF Settled
      <4> QED BY <1>2, <1>3, <1>4, <1>6, <1>7, <4>1, <4>2, AppendedStore
    <3>4. DOMAIN ids' = DOMAIN ids \union {Len(ids) + 1}
      BY <1>2, <1>3, <1>6, AppendIs
    <3> QED BY <3>1, <3>2, <3>3, <3>4 DEF Settled
  <2>3. Quiet'
    BY <1>3, <1>13 DEF BaseInv, Quiet
  <2> QED BY <1>1, <1>3, <1>10, <1>11, <1>13, <2>2, <2>3 DEF BaseInv, OnDisk
<1>14. CASE merge = "merging"
  <2>1. HalfMerged
    BY <1>14 DEF BaseInv
  <2>2. Half(disk \union {e}, recs', mergeNum, store', Append(ids, e), start - 1, cursor)
    BY <1>2, <1>4, <1>7, <1>8, <1>12, <2>1, HalfDumped DEF HalfMerged
  <2>3. HalfMerged'
    BY <1>3, <2>1, <2>2 DEF HalfMerged
  <2> QED BY <1>1, <1>3, <1>10, <1>11, <1>14, <2>3 DEF BaseInv
<1>15. CASE merge = "unlinking"
  <2>1. Sweeping
    BY <1>15 DEF BaseInv
  <2>2. Window' = Window
    BY <1>3 DEF Window
  <2>3. start \in Nat /\ count \in Nat /\ start > 1 /\ start + count - 1 <= Len(ids)
    BY <1>5, <2>1, BoundsAssumption DEF Sweeping, TypeOK
  <2>4. Window \subseteq DOMAIN ids /\ start - 1 \in DOMAIN ids /\ Len(ids) + 1 \notin Window
    BY <1>6, <2>3 DEF Window
  <2>5. /\ Append(ids, e)[Len(ids) + 1] = e
        /\ \A p \in DOMAIN ids : p \in DOMAIN ids' /\ Append(ids, e)[p] = ids[p]
        /\ \A p \in DOMAIN ids' : p \in DOMAIN ids \/ p = Len(ids) + 1
        /\ Len(ids) + 1 \in DOMAIN ids'
    BY <1>2, <1>3, <1>6, AppendIs
  <2>6. DOMAIN ids' \ Window = (DOMAIN ids \ Window) \union {Len(ids) + 1}
    BY <2>4, <2>5
  <2>7. IsList(ids')
    BY <1>1, <1>2, <1>3, <1>8, AppendedList
  <2>8. OneEven(ids', start - 1)
    BY <1>2, <1>3, <2>1, <2>4, <2>5 DEF OneEven, Sweeping
  <2>9. unlinks \subseteq {ids'[p] : p \in Window}
    <3> SUFFICES ASSUME NEW f \in unlinks PROVE f \in {ids'[p] : p \in Window}
      OBVIOUS
    <3>1. PICK p \in Window : f = ids[p]
      BY <2>1 DEF Sweeping
    <3>2. ids'[p] = ids[p]
      BY <1>3, <2>4, <2>5
    <3> QED BY <3>1, <3>2
  <2>10. disk' = {ids'[p] : p \in DOMAIN ids' \ Window} \union unlinks
    <3>1. disk = {ids[p] : p \in DOMAIN ids \ Window} \union unlinks
      BY <2>1 DEF Sweeping
    <3>2. {ids'[p] : p \in DOMAIN ids' \ Window} = {ids[p] : p \in DOMAIN ids \ Window} \union {e}
      BY <1>3, <2>5, <2>6
    <3> QED BY <1>3, <3>1, <3>2
  <2>11. StoreIs(recs', store', ids', DOMAIN ids' \ Window)
    <3>1. \A p \in DOMAIN ids \ Window : recs'[ids[p]] = recs[ids[p]]
      <4> SUFFICES ASSUME NEW p \in DOMAIN ids PROVE recs'[ids[p]] = recs[ids[p]]
        OBVIOUS
      <4>1. ids[p] < e /\ ids[p] \in FileId /\ ids[p] \in Nat /\ e \in Nat
        BY <1>2, <1>6, FileIds
      <4>2. ids[p] # e
        BY <4>1
      <4> QED BY <1>7, <4>1, <4>2
    <3>2. DOMAIN ids \ Window \in SUBSET DOMAIN ids /\ StoreIs(recs, store, ids, DOMAIN ids \ Window)
      BY <2>1 DEF Sweeping
    <3>3. StoreIs(recs', store', Append(ids, e), (DOMAIN ids \ Window) \union {Len(ids) + 1})
      BY <1>2, <1>4, <1>6, <1>7, <3>1, <3>2, AppendedStore
    <3> QED BY <1>3, <2>6, <3>3
  <2>12. start + count - 1 <= Len(ids')
    BY <1>3, <1>6, <1>9, <2>3
  <2>13. Sweeping'
    BY <1>3, <2>1, <2>2, <2>7, <2>8, <2>9, <2>10, <2>11, <2>12 DEF Sweeping
  <2> QED BY <1>1, <1>3, <1>10, <1>11, <1>15, <2>13 DEF BaseInv
<1> QED BY <1>5, <1>13, <1>14, <1>15 DEF TypeOK


LEMMA InvMergeStart ==
  ASSUME BaseInv, NEW a \in 1 .. MaxFiles, NEW n \in 1 .. MaxFiles, MergeStart(a, n)
  PROVE  BaseInv'
<1>1. IsList(ids) /\ up /\ merge = "idle" /\ Settled(disk, recs, store, ids)
  BY UpList, IdleOdd DEF MergeStart
<1>2. /\ ids \in Seq(FileId) /\ Len(ids) \in Nat /\ DOMAIN ids = 1 .. Len(ids)
      /\ \A i \in DOMAIN ids : ids[i] \in FileId /\ ids[i] \in Nat
  BY <1>1, ListShape
<1>3. n \in Nat /\ n >= 2 /\ a \in Nat /\ a \in DOMAIN ids /\ a + n - 1 <= Len(ids) /\ Len(ids) < MaxFiles
  BY <1>2, BoundsAssumption DEF MergeStart
<1>4. ids[a] - 1 \in FileId /\ IsEven(ids[a] - 1)
  <2>1. ids[a] \in Nat /\ ids[a] \in FileId /\ ~IsEven(ids[a])
    BY <1>2, <1>3 DEF MergeStart
  <2> QED BY <2>1, OddEven, BoundsAssumption DEF FileId
<1>5. ids[a] - 1 \notin disk => recs[ids[a] - 1] = Nothing
  BY <1>4 DEF BaseInv
<1>6. Half(disk \union {ids[a] - 1}, recs, n, store, InsertAt(ids, a, ids[a] - 1), a, 1)
  BY <1>1, <1>3, <1>5, SettledToHalf
<1>7. /\ start' = a + 1 /\ count' = n /\ mergeNum' = n /\ ids' = InsertAt(ids, a, ids[a] - 1)
      /\ disk' = disk \union {ids[a] - 1} /\ merge' = "merging" /\ cursor' = 1
      /\ recs' = recs /\ up' = up /\ unlinks' = unlinks /\ store' = store /\ crashes' = crashes
  BY DEF MergeStart
<1>8. Half(disk', recs', mergeNum', store', ids', start' - 1, cursor')
  <2>1. start' - 1 = a
    BY <1>3, <1>7
  <2> QED BY <1>6, <1>7, <2>1
<1>9. TypeOK /\ unlinks = {}
  BY <1>1 DEF BaseInv, Quiet
<1>10. IsList(ids')
  BY <1>8 DEF Half, Lists
<1>11. TypeOK'
  <2>1. ids' \in Seq(FileId) /\ Len(ids') <= MaxFiles
    BY <1>10 DEF IsList
  <2>2. disk' \subseteq FileId /\ unlinks' \subseteq disk'
    BY <1>4, <1>7, <1>9 DEF TypeOK
  <2>3. start' \in 1 .. MaxFiles + 1 /\ count' \in 0 .. MaxFiles /\ mergeNum' \in 0 .. MaxFiles
        /\ cursor' \in 1 .. NumKeys + 1
    BY <1>7, BoundsAssumption
  <2> QED BY <1>7, <1>9, <2>1, <2>2, <2>3 DEF TypeOK
<1>12. \A f \in FileId \ disk' : recs'[f] = Nothing
  BY <1>7 DEF BaseInv
<1>13. HalfMerged'
  <2>1. start' > 1
    BY <1>3, <1>7
  <2> QED BY <1>7, <1>8, <1>9, <2>1 DEF HalfMerged
<1> QED BY <1>1, <1>7, <1>11, <1>12, <1>13 DEF BaseInv

LEMMA TopOf ==
  ASSUME NEW R \in [FileId -> Contents], NEW s \in Seq(FileId), NEW P \in SUBSET DOMAIN s, NEW k \in Key
  PROVE  \E r \in Rec \union {NoRec} : Top(Column(R, s, k), P, r)
<1>1. P \in SUBSET (1 .. Len(s)) /\ Len(s) \in Nat
  OBVIOUS
<1>2. PICK r : Top(Column(R, s, k), P, r) /\ (r = NoRec \/ \E p \in P : r = Column(R, s, k)[p])
  BY <1>1, TopExists
<1>3. CASE r = NoRec
  BY <1>2, <1>3
<1>4. CASE r # NoRec
  <2>1. PICK p \in P : r = Column(R, s, k)[p]
    BY <1>2, <1>4
  <2>2. r = R[s[p]][k] /\ s[p] \in FileId
    BY <2>1 DEF Column
  <2>3. R[s[p]] \in Contents
    BY <2>2
  <2>4. r \in Rec \union {NoRec}
    BY <2>2, <2>3 DEF Contents
  <2> QED BY <1>2, <2>4
<1> QED BY <1>3, <1>4

LEMMA InvMergeStep ==
  ASSUME BaseInv, NEW next \in 2 .. NumKeys + 1, MergeStep(next) PROVE BaseInv'
<1>1. TypeOK /\ HalfMerged /\ up /\ merge = "merging"
  BY DEF BaseInv, MergeStep
<1> PICK j : j = start - 1
  OBVIOUS
<1>2. /\ mergeNum \in Nat /\ count = mergeNum /\ start \in Nat /\ start > 1 /\ cursor \in Nat
      /\ j \in Nat /\ start = j + 1 /\ next \in Nat /\ cursor < next /\ next <= NumKeys + 1
      /\ unlinks = {}
  BY <1>1, BoundsAssumption DEF TypeOK, HalfMerged, MergeStep
<1>3. Half(disk, recs, mergeNum, store, ids, j, cursor)
  BY <1>1 DEF HalfMerged
<1>4. Window = j + 1 .. j + mergeNum
  BY <1>2 DEF Window
<1>5. ids \in Seq(FileId) /\ j \in DOMAIN ids /\ j + 1 .. j + mergeNum \in SUBSET DOMAIN ids
      /\ DOMAIN ids \in SUBSET Nat /\ ids[j] \in FileId
  <2>1. /\ ids \in Seq(FileId) /\ DOMAIN ids = 1 .. Len(ids) /\ Len(ids) \in Nat
        /\ j \in 1 .. Len(ids) /\ j + mergeNum <= Len(ids)
    BY <1>2, <1>3, HalfShape
  <2> QED BY <1>2, <2>1
<1>6. recs \in [FileId -> Contents]
  BY <1>1 DEF TypeOK
<1>7. ASSUME NEW k \in Key
      PROVE  /\ Winner(Window, k) \in Rec \union {NoRec}
             /\ Top(Column(recs, ids, k), j + 1 .. j + mergeNum, Winner(Window, k))
  <2>1. PICK r \in Rec \union {NoRec} : Top(Column(recs, ids, k), j + 1 .. j + mergeNum, r)
    BY <1>5, <1>6, TopOf
  <2>2. Winner(j + 1 .. j + mergeNum, k) = r
    BY <1>5, <2>1, WinnerIs
  <2> QED BY <1>4, <2>1, <2>2
<1> DEFINE out(k) == IF RemoveNegs /\ Winner(Window, k) = Neg THEN NoRec ELSE Winner(Window, k)
           filled == [k \in Key |-> IF k \notin cursor .. next - 1 THEN recs[ids[j]][k] ELSE out(k)]
<1>8. recs' = [recs EXCEPT ![ids[j]] = filled]
  BY DEF MergeStep, Target
<1>9. filled \in Contents
  <2>1. \A k \in Key : out(k) \in Rec \union {NoRec} /\ recs[ids[j]][k] \in Rec \union {NoRec}
    BY <1>5, <1>6, <1>7 DEF Contents
  <2> HIDE DEF out
  <2> QED BY <2>1 DEF Contents
<1>10. /\ recs' \in [FileId -> Contents] /\ recs'[ids[j]] = filled
       /\ \A f \in FileId : f # ids[j] => recs'[f] = recs[f]
  <2> HIDE DEF filled
  <2> QED BY <1>5, <1>6, <1>8, <1>9
<1>11. ASSUME NEW k \in Key
       PROVE  IF k \in cursor .. next - 1
              THEN \E r \in Rec \union {NoRec} :
                     /\ Top(Column(recs, ids, k), j + 1 .. j + mergeNum, r)
                     /\ recs'[ids[j]][k] = IF ids[j + 1] \in {0, 1} THEN Shown(r) ELSE r
              ELSE recs'[ids[j]][k] = recs[ids[j]][k]
  <2>1. CASE k \in cursor .. next - 1
    <3>1. recs'[ids[j]][k] = out(k)
      BY <1>10, <2>1
    <3>2. out(k) = IF ids[j + 1] \in {0, 1} THEN Shown(Winner(Window, k)) ELSE Winner(Window, k)
      BY <1>2, Zenon DEF RemoveNegs, Shown
    <3> HIDE DEF out, filled
    <3> QED BY <1>7, <2>1, <3>1, <3>2
  <2>2. CASE k \notin cursor .. next - 1
    BY <1>10, <2>2
  <2> QED BY <2>1, <2>2
<1> HIDE DEF filled, out
<1>12. Half(disk, recs', mergeNum, store, ids, j, next)
  <2>1. MergedTo(recs, recs', ids, j, mergeNum, cursor, next)
    BY <1>11 DEF MergedTo
  <2> QED BY <1>2, <1>3, <1>10, <2>1, HalfFurther
<1>13. /\ cursor' = next /\ disk' = disk /\ mergeNum' = mergeNum /\ up' = up /\ ids' = ids
       /\ merge' = merge /\ start' = start /\ count' = count /\ unlinks' = unlinks
       /\ store' = store /\ crashes' = crashes
  BY DEF MergeStep
<1>14. TypeOK'
  <2>1. cursor' \in 1 .. NumKeys + 1
    BY <1>2, <1>13, BoundsAssumption
  <2> QED BY <1>1, <1>10, <1>13, <2>1 DEF TypeOK
<1>15. \A f \in FileId \ disk' : recs'[f] = Nothing
  <2>1. ids[j] \in disk
    BY <1>3, <1>5 DEF Half, Lists
  <2> QED BY <1>10, <1>13, <2>1 DEF BaseInv
<1>16. HalfMerged'
  BY <1>2, <1>12, <1>13 DEF HalfMerged
<1> QED BY <1>1, <1>13, <1>14, <1>15, <1>16 DEF BaseInv

LEMMA InvMergeDone == ASSUME BaseInv, MergeDone PROVE BaseInv'
<1>1. TypeOK /\ HalfMerged /\ up /\ merge = "merging"
  BY DEF BaseInv, MergeDone
<1> PICK j : j = start - 1
  OBVIOUS
<1>2. /\ mergeNum \in Nat /\ count = mergeNum /\ start \in Nat /\ start > 1 /\ cursor = NumKeys + 1
      /\ j \in Nat /\ start = j + 1
  BY <1>1, BoundsAssumption DEF TypeOK, HalfMerged, MergeDone
<1>3. Half(disk, recs, mergeNum, store, ids, j, NumKeys + 1)
  BY <1>1, <1>2 DEF HalfMerged
<1>4. Window = j + 1 .. j + mergeNum
  BY <1>2 DEF Window
<1>5. /\ Len(ids) \in Nat /\ DOMAIN ids = 1 .. Len(ids) /\ mergeNum >= 2 /\ j + mergeNum <= Len(ids)
      /\ IsList(ids) /\ OneEven(ids, j) /\ disk = {ids[i] : i \in DOMAIN ids}
  BY <1>3, ListShape DEF Half, Lists
<1>6. StoreIs(recs, store, ids, DOMAIN ids \ Window)
  BY <1>2, <1>3, <1>4, HalfToSweep
<1>7. Window \subseteq DOMAIN ids
  BY <1>2, <1>4, <1>5
<1>8. /\ merge' = "unlinking" /\ unlinks' = {ids[p] : p \in Window}
      /\ disk' = disk /\ recs' = recs /\ mergeNum' = mergeNum /\ up' = up /\ ids' = ids
      /\ start' = start /\ count' = count /\ cursor' = cursor /\ store' = store /\ crashes' = crashes
      /\ Window' = Window
  BY DEF MergeDone, diskVars, Window
<1>9. disk = {ids[p] : p \in DOMAIN ids \ Window} \union {ids[p] : p \in Window}
  BY <1>5, <1>7
<1>10. Sweeping'
  <2>1. start + count - 1 <= Len(ids) /\ count >= 2
    BY <1>2, <1>5
  <2> QED BY <1>2, <1>5, <1>6, <1>8, <1>9, <2>1 DEF Sweeping
<1>11. TypeOK'
  <2>1. unlinks' \subseteq disk'
    BY <1>8, <1>9
  <2> QED BY <1>1, <1>8, <2>1 DEF TypeOK
<1> QED BY <1>1, <1>8, <1>10, <1>11 DEF BaseInv


LEMMA SweepShape ==
  ASSUME BaseInv, merge = "unlinking"
  PROVE  /\ TypeOK /\ Sweeping /\ up
         /\ ids \in Seq(FileId) /\ Len(ids) \in Nat /\ DOMAIN ids = 1 .. Len(ids) /\ Ordered(ids)
         /\ \A i \in DOMAIN ids : ids[i] \in FileId /\ ids[i] \in Nat
         /\ start \in Nat /\ count \in Nat /\ start > 1 /\ count >= 2 /\ start + count - 1 <= Len(ids)
         /\ Window \subseteq DOMAIN ids /\ start - 1 \in DOMAIN ids \ Window /\ start \in Window
<1>1. TypeOK /\ Sweeping /\ up
  BY DEF BaseInv
<1>2. IsList(ids) /\ Ordered(ids) /\ start > 1 /\ count >= 2 /\ start + count - 1 <= Len(ids)
  BY <1>1 DEF Sweeping, IsList
<1>3. start \in Nat /\ count \in Nat
  BY <1>1, BoundsAssumption DEF TypeOK
<1>4. /\ ids \in Seq(FileId) /\ Len(ids) \in Nat /\ DOMAIN ids = 1 .. Len(ids)
      /\ \A i \in DOMAIN ids : ids[i] \in FileId /\ ids[i] \in Nat
  BY <1>2, ListShape
<1>5. Window \subseteq DOMAIN ids /\ start - 1 \in DOMAIN ids \ Window /\ start \in Window
  BY <1>2, <1>3, <1>4 DEF Window
<1> QED BY <1>1, <1>2, <1>3, <1>4, <1>5

LEMMA InvUnlink == ASSUME BaseInv, NEW f \in FileId, Unlink(f) PROVE BaseInv'
<1>1. merge = "unlinking"
  <2>1. unlinks # {}
    BY DEF Unlink
  <2>2. merge \in {"idle", "merging", "unlinking"}
    BY DEF BaseInv, TypeOK
  <2> QED BY <2>1, <2>2 DEF BaseInv, Quiet, HalfMerged
<1>2. /\ TypeOK /\ Sweeping /\ up
      /\ ids \in Seq(FileId) /\ Ordered(ids) /\ Window \subseteq DOMAIN ids
      /\ \A i \in DOMAIN ids : ids[i] \in FileId
  <2>1. TypeOK /\ Sweeping /\ up /\ ids \in Seq(FileId) /\ Ordered(ids) /\ Window \subseteq DOMAIN ids
    BY <1>1, SweepShape
  <2> QED BY <2>1
<1>3. /\ f \in unlinks /\ unlinks' = unlinks \ {f} /\ disk' = disk \ {f}
      /\ recs' = [recs EXCEPT ![f] = Nothing]
      /\ mergeNum' = mergeNum /\ up' = up /\ ids' = ids /\ merge' = merge /\ start' = start
      /\ count' = count /\ cursor' = cursor /\ store' = store /\ crashes' = crashes
      /\ Window' = Window
  BY DEF Unlink, Window
<1>4. PICK o \in Window : f = ids[o]
  BY <1>2, <1>3 DEF Sweeping
<1>5. \A p \in DOMAIN ids \ Window : ids[p] # f
  <2> SUFFICES ASSUME NEW p \in DOMAIN ids, p \notin Window, ids[p] = f PROVE FALSE
    OBVIOUS
  <2>1. o \in DOMAIN ids /\ ids[p] = ids[o]
    BY <1>2, <1>4
  <2>2. p = o
    BY <1>2, <2>1, ListedOnce
  <2> QED BY <2>2
<1>6. Nothing \in Contents
  BY DEF Nothing, Contents
<1>7. /\ recs' \in [FileId -> Contents] /\ recs'[f] = Nothing
      /\ \A g \in FileId : g # f => recs'[g] = recs[g]
  BY <1>2, <1>3, <1>6 DEF TypeOK
<1>8. StoreIs(recs', store, ids, DOMAIN ids \ Window)
  <2>1. \A p \in DOMAIN ids \ Window : recs'[ids[p]] = recs[ids[p]]
    BY <1>2, <1>5, <1>7
  <2>2. StoreIs(recs, store, ids, DOMAIN ids \ Window)
    BY <1>2 DEF Sweeping
  <2> QED BY <2>1, <2>2, StoreSame
<1>9. disk' = {ids[p] : p \in DOMAIN ids \ Window} \union (unlinks \ {f})
  <2>1. disk = {ids[p] : p \in DOMAIN ids \ Window} \union unlinks
    BY <1>2 DEF Sweeping
  <2>2. f \notin {ids[p] : p \in DOMAIN ids \ Window}
    BY <1>5
  <2> QED BY <1>3, <2>1, <2>2
<1>10. Sweeping'
  BY <1>2, <1>3, <1>8, <1>9 DEF Sweeping
<1>11. TypeOK'
  BY <1>2, <1>3, <1>7 DEF TypeOK
<1>12. \A g \in FileId \ disk' : recs'[g] = Nothing
  BY <1>3, <1>7 DEF BaseInv
<1> QED BY <1>1, <1>2, <1>3, <1>10, <1>11, <1>12 DEF BaseInv

LEMMA InvRename == ASSUME BaseInv, Rename PROVE BaseInv'
<1>1. merge = "unlinking" /\ unlinks = {} /\ up
  BY DEF Rename
<1>2. /\ TypeOK /\ Sweeping
      /\ ids \in Seq(FileId) /\ Len(ids) \in Nat /\ DOMAIN ids = 1 .. Len(ids) /\ Ordered(ids)
      /\ start \in Nat /\ count \in Nat /\ start > 1 /\ count >= 2 /\ start + count - 1 <= Len(ids)
      /\ Window \subseteq DOMAIN ids /\ start - 1 \in DOMAIN ids \ Window /\ start \in Window
  BY <1>1, SweepShape
<1>3. \A i \in DOMAIN ids : ids[i] \in FileId
  BY <1>2
<1>4. PICK j \in Nat : j = start - 1 /\ start = j + 1 /\ j >= 1
  BY <1>2
<1>5. j \in DOMAIN ids /\ start \in DOMAIN ids /\ ids[j] # ids[start]
  <2>1. j \in DOMAIN ids /\ start \in DOMAIN ids /\ j # start
    BY <1>2, <1>4
  <2> QED BY <1>2, <2>1, ListedOnce
<1>6. /\ disk' = (disk \ {ids[j]}) \union {ids[start]}
      /\ recs' = [recs EXCEPT ![ids[start]] = recs[ids[j]], ![ids[j]] = Nothing]
      /\ mergeNum' = 0 /\ merge' = "idle" /\ start' = 1 /\ count' = 0 /\ cursor' = 1 /\ unlinks' = {}
      /\ up' = up /\ store' = store /\ crashes' = crashes
  BY <1>4 DEF Rename, Target, NoMerge
<1>7. ids' = Spliced(ids, j - 1, j + count + 1, ids[j + 1])
  <2>1. j - 1 = start - 2 /\ j + count + 1 = start + count /\ j + 1 = start
    BY <1>2, <1>4
  <2> QED BY <2>1 DEF Rename, Spliced
<1>8. Nothing \in Contents
  BY DEF Nothing, Contents
<1>9. /\ recs' \in [FileId -> Contents] /\ recs'[ids[start]] = recs[ids[j]] /\ recs'[ids[j]] = Nothing
      /\ \A f \in FileId : f \notin {ids[j], ids[start]} => recs'[f] = recs[f]
  BY <1>2, <1>3, <1>5, <1>6, <1>8 DEF TypeOK
<1>10. Window = j + 1 .. j + count
  BY <1>2, <1>4 DEF Window
<1>11. Settled((disk \ {ids[j]}) \union {ids[j + 1]}, recs', store, Spliced(ids, j - 1, j + count + 1, ids[j + 1]))
  <2>1. IsList(ids) /\ OneEven(ids, j) /\ StoreIs(recs, store, ids, DOMAIN ids \ (j + 1 .. j + count))
    BY <1>2, <1>4, <1>10 DEF Sweeping
  <2>2. disk = {ids[p] : p \in DOMAIN ids \ (j + 1 .. j + count)}
    BY <1>1, <1>2, <1>10 DEF Sweeping
  <2>3. j + count <= Len(ids) /\ count >= 1
    BY <1>2, <1>4
  <2>4. recs'[ids[j + 1]] = recs[ids[j]] /\ \A f \in FileId : f \notin {ids[j], ids[j + 1]} => recs'[f] = recs[f]
    BY <1>4, <1>9
  <2>5. Swept(disk, recs, store, ids, j, count) /\ Renamed(recs, recs', ids, j)
    BY <2>1, <2>2, <2>3, <2>4 DEF Swept, Renamed
  <2> QED BY <1>2, <1>4, <2>3, <2>5, SweptToSettled
<1>12. Settled(disk', recs', store', ids')
  BY <1>4, <1>6, <1>7, <1>11
<1>13. TypeOK'
  <2>1. ids' \in Seq(FileId) /\ Len(ids') <= MaxFiles
    BY <1>12 DEF Settled, Lists, IsList
  <2>2. disk' \subseteq FileId
    BY <1>2, <1>3, <1>5, <1>6 DEF TypeOK
  <2> QED BY <1>2, <1>6, <1>9, <2>1, <2>2, BoundsAssumption DEF TypeOK
<1>14. \A f \in FileId \ disk' : recs'[f] = Nothing
  BY <1>6, <1>9 DEF BaseInv
<1> QED BY <1>1, <1>6, <1>12, <1>13, <1>14 DEF BaseInv, Quiet, OnDisk


LEMMA InvCrash == ASSUME BaseInv, ~AnyTime, Crash PROVE BaseInv'
<1>1. /\ up /\ AllOrNothing /\ up' = FALSE /\ ids' = <<>> /\ crashes' = crashes + 1 /\ crashes < MaxCrashes
      /\ merge' = "idle" /\ start' = 1 /\ count' = 0 /\ cursor' = 1 /\ unlinks' = {}
      /\ disk' = disk /\ recs' = recs /\ mergeNum' = mergeNum /\ store' = store
  BY DEF Crash, NoMerge, diskVars
<1>2. TypeOK /\ merge \in {"idle", "merging", "unlinking"} /\ IsList(ids)
  BY <1>1, UpList DEF BaseInv, TypeOK
<1>3. \E s \in Seq(FileId) : OnDisk(disk, recs, mergeNum, store, s) /\ NoneEmpty(recs, s)
  <2>1. CASE merge = "unlinking"
    <3>1. unlinks = {} /\ start = 2 /\ Len(ids) = count + 1
      BY <1>1, <2>1 DEF AllOrNothing
    <3>2. /\ Sweeping /\ ids \in Seq(FileId) /\ DOMAIN ids = 1 .. Len(ids) /\ count \in Nat /\ count >= 2
          /\ Window \subseteq DOMAIN ids
      BY <2>1, SweepShape
    <3>3. DOMAIN ids \ Window = {1} /\ 1 \in DOMAIN ids /\ 2 \in DOMAIN ids
      BY <3>1, <3>2 DEF Window
    <3>4. ids[1] \in FileId /\ ids[2] \in Nat /\ ids[2] \in FileId
      <4>1. ids[1] \in FileId /\ ids[2] \in FileId
        BY <3>2, <3>3
      <4> QED BY <4>1, FileIds
    <3>5. IsEven(ids[1]) /\ ~IsEven(ids[2])
      BY <3>1, <3>2, <3>3 DEF Sweeping, OneEven
    <3>6. 1 \in FileId
      <4>1. ids[2] >= 1
        BY <3>4, <3>5, OddEven
      <4> QED BY <3>4, <4>1, BoundsAssumption DEF FileId
    <3> PICK s : s = <<ids[1]>>
      OBVIOUS
    <3>7. s \in Seq(FileId) /\ Len(s) = 1 /\ DOMAIN s = {1} /\ s[1] = ids[1]
      BY <3>4
    <3>8. IsList(s)
      <4>1. 1 <= MaxFiles
        BY <1>2, <3>1, <3>2, BoundsAssumption DEF IsList
      <4> QED BY <3>7, <4>1 DEF IsList, Ordered
    <3>9. disk = {s[i] : i \in DOMAIN s}
      BY <3>1, <3>2, <3>3, <3>7 DEF Sweeping
    <3>10. StoreIs(recs, store, s, {1})
      <4>1. StoreIs(recs, store, ids, {1})
        BY <3>2, <3>3 DEF Sweeping
      <4>2. {1} \subseteq DOMAIN ids /\ {1} \subseteq DOMAIN s /\ \A p \in {1} : recs[s[p]] = recs[ids[p]]
        BY <3>3, <3>7
      <4> QED BY <4>1, <4>2, StoreSame
    <3>11. Whole(disk, recs, store, s)
      BY <3>5, <3>6, <3>7, <3>8, <3>9, <3>10 DEF Whole, Lists
    <3>12. NoneEmpty(recs, s)
      BY <3>5, <3>7 DEF NoneEmpty
    <3> QED BY <3>7, <3>11, <3>12 DEF OnDisk
  <2>2. CASE merge # "unlinking"
    <3>1. NoneEmpty(recs, ids)
      BY <1>1, <2>2 DEF AllOrNothing, NoneEmpty
    <3>2. OnDisk(disk, recs, mergeNum, store, ids)
      <4>1. CASE merge = "idle"
        BY <1>1, <4>1 DEF BaseInv
      <4>2. CASE merge = "merging"
        <5>1. Half(disk, recs, mergeNum, store, ids, start - 1, cursor) /\ cursor \in 1 .. NumKeys + 1
          BY <1>2, <4>2 DEF BaseInv, HalfMerged, TypeOK
        <5>2. start - 1 \in DOMAIN ids
          BY <5>1 DEF Half, OneEven
        <5> QED BY <5>1, <5>2 DEF OnDisk
      <4> QED BY <1>2, <2>2, <4>1, <4>2
    <3>3. ids \in Seq(FileId)
      BY <1>2 DEF IsList
    <3> QED BY <3>1, <3>2, <3>3
  <2> QED BY <2>1, <2>2
<1>4. Stopped'
  BY <1>1, <1>3 DEF Stopped
<1>5. TypeOK'
  <2>1. <<>> \in Seq(FileId) /\ Len(<<>>) <= MaxFiles
    BY BoundsAssumption
  <2>2. crashes' \in 0 .. MaxCrashes
    BY <1>1, <1>2, BoundsAssumption DEF TypeOK
  <2>3. start' \in 1 .. MaxFiles + 1 /\ count' \in 0 .. MaxFiles /\ cursor' \in 1 .. NumKeys + 1
    BY <1>1, BoundsAssumption
  <2> QED BY <1>1, <1>2, <2>1, <2>2, <2>3 DEF TypeOK
<1> QED BY <1>1, <1>4, <1>5 DEF BaseInv, Quiet

LEMMA InvRestart == ASSUME BaseInv, Restart PROVE BaseInv'
<1>1. /\ ~up /\ up' = TRUE /\ disk' = {f \in disk : recs[f] # Nothing} /\ ids' = InOrder(disk')
      /\ mergeNum' = IF \E f \in disk' : IsEven(f) THEN mergeNum ELSE 0
      /\ recs' = recs /\ store' = store /\ crashes' = crashes
      /\ merge' = merge /\ start' = start /\ count' = count /\ cursor' = cursor /\ unlinks' = unlinks
  BY DEF Restart, mergeVars
<1>2. TypeOK /\ merge = "idle" /\ Quiet /\ mergeNum \in Nat
  BY <1>1, BoundsAssumption DEF BaseInv, TypeOK
<1>3. PICK s \in Seq(FileId) : OnDisk(disk, recs, mergeNum, store, s) /\ NoneEmpty(recs, s)
  BY <1>1 DEF BaseInv, Stopped
<1>4. ASSUME NEW t, Lists(disk', t) PROVE ids' = t
  <2>1. t \in Seq(FileId) /\ Ordered(t) /\ disk' = {t[i] : i \in DOMAIN t}
    BY <1>4 DEF Lists, IsList
  <2>2. InOrder({t[i] : i \in DOMAIN t}) = t
    BY <2>1, InOrderIs
  <2> QED BY <1>1, <2>1, <2>2
<1>5. \E t : Lists(disk', t) /\ OnDisk(disk', recs, mergeNum', store, t)
  <2>1. CASE Settled(disk, recs, store, s)
    <3>1. Lists(disk, s) /\ \A f \in disk : recs[f] # Nothing
      BY <1>3, <2>1 DEF NoneEmpty, Settled, AllOdd, Lists
    <3>2. disk' = disk
      BY <1>1, <3>1
    <3> QED BY <2>1, <3>1, <3>2 DEF OnDisk
  <2>2. ASSUME NEW j \in DOMAIN s, NEW c \in 1 .. NumKeys + 1, Half(disk, recs, mergeNum, store, s, j, c)
        PROVE  \E t : Lists(disk', t) /\ OnDisk(disk', recs, mergeNum', store, t)
    <3>1. /\ Lists(disk, s) /\ IsEven(s[j]) /\ disk = {s[i] : i \in DOMAIN s} /\ s[j] \in disk
          /\ \A i \in DOMAIN s : i # j => recs[s[i]] # Nothing
      BY <1>3, <2>2 DEF NoneEmpty, Half, OneEven, Lists
    <3>2. CASE recs[s[j]] # Nothing
      <4>1. disk' = disk
        BY <1>1, <3>1, <3>2
      <4>2. mergeNum' = mergeNum
        BY <1>1, <3>1, <4>1
      <4> QED BY <2>2, <3>1, <4>1, <4>2 DEF OnDisk
    <3>3. CASE recs[s[j]] = Nothing
      <4>1. disk' = disk \ {s[j]}
        BY <1>1, <3>1, <3>3
      <4>2. PICK t : Settled(disk \ {s[j]}, recs, store, t)
        BY <1>2, <2>2, HalfToSettled
      <4> QED BY <4>1, <4>2 DEF OnDisk, Settled
    <3> QED BY <3>2, <3>3
  <2>3. CASE Whole(disk, recs, store, s)
    <3>1. Lists(disk, s) /\ DOMAIN s = {1} /\ disk = {s[1]}
      BY <2>3 DEF Whole, Lists, IsList
    <3>2. CASE recs[s[1]] # Nothing
      <4>1. disk' = disk
        BY <1>1, <3>1, <3>2
      <4> QED BY <2>3, <3>1, <4>1 DEF OnDisk
    <3>3. CASE recs[s[1]] = Nothing
      <4>1. disk' = {}
        BY <1>1, <3>1, <3>3
      <4>2. \A k \in Key : store[k] = NoRec
        <5> SUFFICES ASSUME NEW k \in Key PROVE store[k] = NoRec
          OBVIOUS
        <5>1. PICK r \in Rec \union {NoRec} : Top(Column(recs, s, k), {1}, r) /\ store[k] = Shown(r)
          BY <2>3 DEF Whole, StoreIs
        <5>2. Column(recs, s, k)[1] = NoRec
          <6>1. Column(recs, s, k)[1] = recs[s[1]][k] /\ Nothing[k] = NoRec
            BY <3>1, ColumnAt DEF Nothing
          <6> QED BY <3>3, <6>1
        <5>3. r = NoRec
          BY <5>1, <5>2 DEF Top
        <5> QED BY <5>1, <5>3, RecAssumption DEF Shown
      <4>3. Settled({}, recs, store, <<>>)
        BY <4>2, EmptySettled
      <4> QED BY <4>1, <4>3 DEF OnDisk, Settled
    <3> QED BY <3>2, <3>3
  <2> QED BY <1>3, <2>1, <2>2, <2>3 DEF OnDisk
<1>6. Lists(disk', ids') /\ OnDisk(disk', recs', mergeNum', store', ids')
  BY <1>1, <1>4, <1>5
<1>7. TypeOK'
  <2>1. ids' \in Seq(FileId) /\ Len(ids') <= MaxFiles
    BY <1>6 DEF Lists, IsList
  <2>2. disk' \subseteq FileId /\ unlinks' = {} /\ mergeNum' \in 0 .. MaxFiles
    BY <1>1, <1>2, BoundsAssumption DEF TypeOK, Quiet
  <2> QED BY <1>1, <1>2, <2>1, <2>2 DEF TypeOK
<1>8. \A f \in FileId \ disk' : recs'[f] = Nothing
  BY <1>1 DEF BaseInv
<1> QED BY <1>1, <1>2, <1>6, <1>7, <1>8 DEF BaseInv, Quiet


\* The last key in the target is the last key that was merged or one before.
LEMMA MergedUpToIs ==
  ASSUME NEW f \in FileId, NEW c \in 1 .. NumKeys + 1, \A k \in Key : ~(k < c) => recs[f][k] = NoRec
  PROVE  /\ MergedUpTo(f) \in 1 .. NumKeys + 1 /\ MergedUpTo(f) <= c
         /\ \A k \in Key : ~(k < MergedUpTo(f)) => recs[f][k] = NoRec
<1> DEFINE filled == {k \in Key : recs[f][k] # NoRec}
<1>1. NumKeys \in Nat /\ Key = 1 .. NumKeys /\ c \in Nat /\ c >= 1
  BY BoundsAssumption DEF Key
<1>2. CASE filled = {}
  <2>1. MergedUpTo(f) = 1
    BY <1>2 DEF MergedUpTo
  <2> QED BY <1>1, <1>2, <2>1
<1>3. CASE filled # {}
  <2>1. filled \in SUBSET (0 .. NumKeys)
    <3>1. \A k \in Key : k \in 0 .. NumKeys
      BY <1>1
    <3> QED BY <3>1
  <2>2. \E l \in filled : \A k \in filled : k <= l
    <3> HIDE DEF filled
    <3> QED BY <1>1, <1>3, <2>1, Largest
  <2>3. PICK l \in filled : MergedUpTo(f) = 1 + l /\ \A k \in filled : k <= l
    <3>1. MergedUpTo(f) = 1 + CHOOSE l \in filled : \A k \in filled : k <= l
      BY <1>3 DEF MergedUpTo
    <3> HIDE DEF filled
    <3> QED BY <2>2, <3>1
  <2>4. l \in Key /\ l \in Nat /\ l <= NumKeys /\ l >= 1 /\ l < c
    BY <1>1
  <2>5. \A k \in Key : ~(k < 1 + l) => k \notin filled
    BY <1>1, <2>3, <2>4
  <2> QED BY <1>1, <2>3, <2>4, <2>5
<1> QED BY <1>2, <1>3

LEMMA InvResume == ASSUME BaseInv, NEW j \in 1 .. MaxFiles, Resume(j) PROVE BaseInv'
<1>1. /\ up /\ merge = "idle" /\ j \in DOMAIN ids /\ IsEven(ids[j]) /\ Behind(j) > 1
      /\ merge' = "merging" /\ start' = j + 1 /\ count' = Behind(j) /\ cursor' = MergedUpTo(ids[j])
      /\ disk' = disk /\ recs' = recs /\ mergeNum' = mergeNum /\ up' = up /\ ids' = ids
      /\ unlinks' = unlinks /\ store' = store /\ crashes' = crashes
  BY DEF Resume, Resumable, diskVars
<1>2. /\ TypeOK /\ Quiet /\ mergeNum \in Nat /\ mergeNum <= MaxFiles
      /\ OnDisk(disk, recs, mergeNum, store, ids) /\ IsList(ids)
  BY <1>1, UpList, BoundsAssumption DEF BaseInv, TypeOK
<1>3. ids \in Seq(FileId) /\ Len(ids) \in Nat /\ Len(ids) <= MaxFiles /\ DOMAIN ids = 1 .. Len(ids)
  BY <1>2 DEF IsList
<1>4. ids[j] \in FileId /\ j \in Nat /\ j <= Len(ids) /\ j >= 1
  BY <1>1, <1>3
<1>5. Behind(j) = IF Len(ids) - j < mergeNum THEN Len(ids) - j ELSE mergeNum
  BY DEF Behind
<1>6. ~Settled(disk, recs, store, ids)
  BY <1>1 DEF Settled, AllOdd
<1>7. ~Whole(disk, recs, store, ids)
  <2> SUFFICES ASSUME Whole(disk, recs, store, ids) PROVE FALSE
    OBVIOUS
  <2>1. Len(ids) = 1
    BY DEF Whole
  <2> QED BY <1>1, <1>2, <1>4, <1>5, <2>1
<1>8. PICK i \in DOMAIN ids, c \in 1 .. NumKeys + 1 : Half(disk, recs, mergeNum, store, ids, i, c)
  BY <1>2, <1>6, <1>7 DEF OnDisk
<1>9. i = j
  BY <1>1, <1>8 DEF Half, OneEven
<1>10. Behind(j) = mergeNum /\ mergeNum >= 2
  <2>1. mergeNum >= 2 /\ j + mergeNum <= Len(ids)
    BY <1>8, <1>9 DEF Half
  <2>2. mergeNum \in Nat /\ Len(ids) \in Nat /\ j \in Nat
    BY <1>2, <1>3, <1>4
  <2>3. ~(Len(ids) - j < mergeNum)
    BY <2>1, <2>2
  <2> QED BY <1>5, <2>1, <2>3
<1>11. Half(disk, recs, mergeNum, store, ids, j, MergedUpTo(ids[j])) /\ MergedUpTo(ids[j]) \in 1 .. NumKeys + 1
  <2> PICK d : d = MergedUpTo(ids[j])
    OBVIOUS
  <2>1. \A k \in Key : IF k < c THEN MergedKey(recs, ids, j, mergeNum, k) ELSE recs[ids[j]][k] = NoRec
    BY <1>8, <1>9 DEF Half
  <2>2. \A k \in Key : ~(k < c) => recs[ids[j]][k] = NoRec
    BY <2>1
  <2>3. d \in 1 .. NumKeys + 1 /\ d <= c /\ \A k \in Key : ~(k < d) => recs[ids[j]][k] = NoRec
    BY <1>4, <2>2, MergedUpToIs
  <2>4. \A k \in Key : IF k < d THEN MergedKey(recs, ids, j, mergeNum, k) ELSE recs[ids[j]][k] = NoRec
    <3> SUFFICES ASSUME NEW k \in Key
                 PROVE IF k < d THEN MergedKey(recs, ids, j, mergeNum, k) ELSE recs[ids[j]][k] = NoRec
      OBVIOUS
    <3>1. k < d => k < c
      BY <2>3, BoundsAssumption DEF Key
    <3> QED BY <2>1, <2>3, <3>1
  <2>5. Half(disk, recs, mergeNum, store, ids, j, d)
    BY <1>8, <1>9, <2>4 DEF Half
  <2> QED BY <2>3, <2>5
<1>12. HalfMerged'
  <2>1. start' > 1 /\ start' - 1 = j
    BY <1>1, <1>4
  <2>2. unlinks = {}
    BY <1>2 DEF Quiet
  <2> QED BY <1>1, <1>10, <1>11, <2>1, <2>2 DEF HalfMerged
<1>13. TypeOK'
  <2>1. start' \in 1 .. MaxFiles + 1 /\ count' \in 0 .. MaxFiles
    BY <1>1, <1>2, <1>3, <1>4, <1>10, BoundsAssumption
  <2> QED BY <1>1, <1>2, <1>11, <2>1 DEF TypeOK
<1> QED BY <1>1, <1>12, <1>13 DEF BaseInv

LEMMA InvRenameResumed == ASSUME BaseInv, NEW j \in 1 .. MaxFiles, RenameResumed(j) PROVE BaseInv'
<1>1. /\ up /\ merge = "idle" /\ j \in DOMAIN ids /\ IsEven(ids[j]) /\ Behind(j) <= 1
      /\ disk' = (disk \ {ids[j]}) \union {1}
      /\ recs' = [recs EXCEPT ![1] = recs[ids[j]], ![ids[j]] = Nothing]
      /\ mergeNum' = 0 /\ ids' = [ids EXCEPT ![j] = 1]
      /\ up' = up /\ merge' = merge /\ start' = start /\ count' = count /\ cursor' = cursor
      /\ unlinks' = unlinks /\ store' = store /\ crashes' = crashes
  BY DEF RenameResumed, Resumable, mergeVars
<1>2. /\ TypeOK /\ Quiet /\ mergeNum \in Nat
      /\ OnDisk(disk, recs, mergeNum, store, ids) /\ IsList(ids)
  BY <1>1, UpList, BoundsAssumption DEF BaseInv, TypeOK
<1>3. ids \in Seq(FileId) /\ Len(ids) \in Nat /\ Len(ids) <= MaxFiles /\ DOMAIN ids = 1 .. Len(ids)
  BY <1>2 DEF IsList
<1>4. ids[j] \in FileId /\ j \in Nat
  BY <1>1, <1>3
<1>5. Behind(j) = IF Len(ids) - j < mergeNum THEN Len(ids) - j ELSE mergeNum
  BY DEF Behind
<1>6. ~Settled(disk, recs, store, ids)
  BY <1>1 DEF Settled, AllOdd
<1>7. ~(\E i \in DOMAIN ids, c \in 1 .. NumKeys + 1 : Half(disk, recs, mergeNum, store, ids, i, c))
  <2> SUFFICES ASSUME NEW i \in DOMAIN ids, NEW c \in 1 .. NumKeys + 1,
                      Half(disk, recs, mergeNum, store, ids, i, c)
               PROVE FALSE
    OBVIOUS
  <2>1. i = j
    BY <1>1 DEF Half, OneEven
  <2>2. mergeNum >= 2 /\ j + mergeNum <= Len(ids)
    BY <2>1 DEF Half
  <2> QED BY <1>1, <1>2, <1>3, <1>4, <1>5, <2>2
<1>8. Whole(disk, recs, store, ids)
  BY <1>2, <1>6, <1>7 DEF OnDisk
<1>9. Len(ids) = 1 /\ DOMAIN ids = {1} /\ j = 1 /\ 1 \in FileId /\ disk = {ids[1]}
  BY <1>1, <1>3, <1>8 DEF Whole, Lists
<1>10. ids[1] # 1 /\ ~IsEven(1)
  BY <1>1, <1>9 DEF IsEven
<1>11. ids' \in Seq(FileId) /\ Len(ids') = 1 /\ DOMAIN ids' = {1} /\ ids'[1] = 1
  <2>1. DOMAIN ids' = {1} /\ ids'[1] = 1
    BY <1>1, <1>9
  <2>2. ids' = <<1>>
    <3>1. ids' = [i \in DOMAIN ids |-> IF i = j THEN 1 ELSE ids[i]]
      BY <1>1
    <3>2. ids' = [i \in 1 .. 1 |-> 1]
      BY <1>9, <3>1
    <3> QED BY <3>2
  <2> QED BY <1>9, <2>1, <2>2
<1>12. disk' = {1}
  BY <1>1, <1>9
<1>13. Nothing \in Contents
  BY DEF Nothing, Contents
<1>14. /\ recs' \in [FileId -> Contents] /\ recs'[1] = recs[ids[1]] /\ recs'[ids[1]] = Nothing
       /\ \A f \in FileId : f \notin {1, ids[1]} => recs'[f] = recs[f]
  BY <1>1, <1>2, <1>4, <1>9, <1>10, <1>13 DEF TypeOK
<1>15. Settled(disk', recs', store', ids')
  <2>1. IsList(ids')
    BY <1>3, <1>9, <1>11 DEF IsList, Ordered
  <2>2. disk' = {ids'[i] : i \in DOMAIN ids'} /\ AllOdd(ids')
    BY <1>10, <1>11, <1>12 DEF AllOdd
  <2>3. StoreIs(recs', store, ids', {1})
    <3>1. StoreIs(recs, store, ids, {1})
      BY <1>8 DEF Whole
    <3>2. {1} \subseteq DOMAIN ids /\ {1} \subseteq DOMAIN ids' /\ \A p \in {1} : recs'[ids'[p]] = recs[ids[p]]
      BY <1>9, <1>11, <1>14
    <3> QED BY <3>1, <3>2, StoreSame
  <2> QED BY <1>1, <1>11, <2>1, <2>2, <2>3 DEF Settled, Lists
<1>16. TypeOK'
  <2>1. unlinks' \subseteq disk' /\ mergeNum' \in 0 .. MaxFiles /\ disk' \subseteq FileId
    BY <1>1, <1>2, <1>9, <1>12, BoundsAssumption DEF Quiet
  <2> QED BY <1>1, <1>2, <1>3, <1>9, <1>11, <1>14, <2>1 DEF TypeOK
<1>17. \A f \in FileId \ disk' : recs'[f] = Nothing
  <2> SUFFICES ASSUME NEW f \in FileId, f # 1 PROVE recs'[f] = Nothing
    BY <1>12
  <2>1. CASE f = ids[1]
    BY <1>14, <2>1
  <2>2. CASE f # ids[1]
    BY <1>9, <1>14, <2>2 DEF BaseInv
  <2> QED BY <2>1, <2>2
<1> QED BY <1>1, <1>2, <1>15, <1>16, <1>17 DEF BaseInv, Quiet, OnDisk

LEMMA InvStutter == ASSUME BaseInv, UNCHANGED vars PROVE BaseInv'
BY DEF BaseInv, vars, TypeOK, Quiet, HalfMerged, Sweeping, Stopped, Window

LEMMA BaseInvStep == ASSUME ~AnyTime, BaseInv, [Next]_vars PROVE BaseInv'
<1>1. ASSUME NEW c \in Contents, Dump(c) PROVE BaseInv'
  BY <1>1, InvDump
<1>2. ASSUME NEW a \in 1 .. MaxFiles, NEW n \in 1 .. MaxFiles, MergeStart(a, n) PROVE BaseInv'
  BY <1>2, InvMergeStart
<1>3. ASSUME NEW next \in 2 .. NumKeys + 1, MergeStep(next) PROVE BaseInv'
  BY <1>3, InvMergeStep
<1>4. ASSUME NEW f \in FileId, Unlink(f) PROVE BaseInv'
  BY <1>4, InvUnlink
<1>5. ASSUME NEW j \in 1 .. MaxFiles, Resume(j) \/ RenameResumed(j) PROVE BaseInv'
  BY <1>5, InvResume, InvRenameResumed
<1>6. Merging => BaseInv'
  BY <1>2, <1>3, <1>4, InvMergeDone, InvRename DEF Merging
<1>7. Resuming => BaseInv'
  BY <1>5 DEF Resuming
<1> QED BY <1>1, <1>6, <1>7, InvCrash, InvRestart, InvStutter DEF Next

-----------------------------------------------------------------------------
(* At every moment the directory is that of no merge, of one that is half  *)
(* done with all its files there, or of one whose target alone is left; and *)
(* what is dumped last is to be read from it: the states that               *)
(* attemptMerge() can take up again (RdbBase.cpp:1868-1960).                *)
THEOREM RdbBaseInductive == ~AnyTime => (Spec => []BaseInv)
<1> SUFFICES ASSUME ~AnyTime PROVE Spec => []BaseInv
  OBVIOUS
<1>1. BaseInv /\ [Next]_vars => BaseInv'
  BY BaseInvStep
<1> QED BY <1>1, BaseInvInit, PTL DEF Spec

(* Reads give what was dumped last, before, during and after merges that    *)
(* are killed and resumed.                                                  *)
THEOREM ReadsSurviveCrashes == ~AnyTime => (Spec => []ReadsSurvive)
BY RdbBaseInductive, InvReads, PTL

-----------------------------------------------------------------------------
(* While the trees are saved nobody writes to them: no dump is on, and no   *)
(* add gets in.  So what is on its way to disk is the tree as it is.        *)
SavingIsShut ==
  /\ saver # "idle" => mode = "save"
  /\ mode = "save" => ~writable /\ dump = "idle"
  /\ mode = "down" => dump = "idle" /\ tree = EmptyTree

CopyOfTree ==
  /\ saver = "writing" => \A k \in TreeKey : k < at => blocks[k] = tree[k]
  /\ saver = "done" => saved = tree

(* A tree that need not be saved has been saved. *)
CleanIsSaved == Running /\ ~needsSave => saved = tree

(* Nothing happens to the records of a chunk until they are deleted, and    *)
(* then they are in a file.                                                 *)
ChunkIsInTree ==
  /\ dump \in {"idle", "fetch"} => queue = EmptyTree
  /\ \A k \in TreeKey : queue[k] # None =>
       tree[k] = queue[k] /\ (dump = "written" => files[k] = queue[k])

NoFileNoRecord == ~anyFile => files = EmptyTree /\ dump = "idle"

(* Reads give what was acknowledged, and that was acknowledged of late.     *)
ReadsRight == Running => \A k \in TreeKey : Read(tree, k) = acked[k]
AckedSince == \A k \in TreeKey : acked[k] \in since[k]

SavedInv ==
  /\ SavedTypeOK /\ SavingIsShut /\ CopyOfTree /\ CleanIsSaved
  /\ ChunkIsInTree /\ NoFileNoRecord
  /\ ReadsRight /\ AckedSince /\ RestartKeepsSaved


LEMMA TypesOf ==
  ASSUME SavedTypeOK
  PROVE  /\ EmptyTree \in Recs /\ WithChunk \in Recs
         /\ OnlyAcked \in [TreeKey -> SUBSET (Payload \union {None})]
BY DEF SavedTypeOK, EmptyTree, Recs, WithChunk, OnlyAcked

LEMMA SaveNowTypes ==
  ASSUME SavedTypeOK, SaveNow
  PROVE  /\ saved' \in Recs
         /\ since' \in [TreeKey -> SUBSET (Payload \union {None})]
BY TypesOf DEF SavedTypeOK, SaveNow

LEMMA DownTypes ==
  ASSUME SavedTypeOK, GoDown, saved' \in Recs, files' \in Recs,
         since' \in [TreeKey -> SUBSET (Payload \union {None})]
  PROVE  SavedTypeOK'
<1>1. EmptyTree \in Recs /\ 1 \in 1 .. LastKey + 1
  BY TypesOf, SavedKeysAssumption
<1> QED
  BY <1>1 DEF SavedTypeOK, GoDown

LEMMA SavedTypeStep == SavedTypeOK /\ SavedNext => SavedTypeOK'
<1> SUFFICES ASSUME SavedTypeOK, SavedNext PROVE SavedTypeOK'
  OBVIOUS
<1> USE SavedKeysAssumption DEF SavedTypeOK, Recs, EmptyTree, TreeKey,
      saveVars, dumpVars
<1>1. ASSUME NEW k \in TreeKey, NEW d \in Payload, AddPositive(k, d)
      PROVE SavedTypeOK'
  <2>1. tree' \in Recs /\ acked' \in [TreeKey -> Payload \union {None}]
    BY <1>1 DEF AddPositive, Acknowledge
  <2>2. since' \in [TreeKey -> SUBSET (Payload \union {None})]
    BY <1>1 DEF AddPositive, Acknowledge
  <2> QED BY <1>1, <2>1, <2>2 DEF AddPositive
<1>2. ASSUME NEW k \in TreeKey, AddNegative(k) PROVE SavedTypeOK'
  BY <1>2 DEF AddNegative, Takes, Running, Acknowledge
<1>3. ASSUME DumpStart PROVE SavedTypeOK'
  BY <1>3 DEF DumpStart, Running
<1>4. ASSUME NEW k \in TreeKey, DumpFetch(k) PROVE SavedTypeOK'
  BY <1>4 DEF DumpFetch, Pending
<1>5. ASSUME DumpWrite PROVE SavedTypeOK'
  BY <1>5 DEF DumpWrite, WithChunk
<1>6. ASSUME DumpDelete PROVE SavedTypeOK'
  BY <1>6 DEF DumpDelete
<1>7. ASSUME DumpDone PROVE SavedTypeOK'
  BY <1>7 DEF DumpDone
<1>8. ASSUME Save PROVE SavedTypeOK'
  <2>1. CASE SaveInThread
    <3>1. 1 \in 1 .. LastKey + 1
      OBVIOUS
    <3> QED
      BY <1>8, <2>1, <3>1 DEF Save, SaveInThread
  <2>2. CASE SaveInline
    BY <1>8, <2>2, SaveNowTypes DEF Save, SaveInline
  <2>3. CASE WaitForDump
    BY <1>8, <2>3 DEF Save, WaitForDump
  <2> QED
    BY <1>8, <2>1, <2>2, <2>3 DEF Save
<1>9. ASSUME WriteBlock PROVE SavedTypeOK'
  BY <1>9 DEF WriteBlock
<1>10. ASSUME RenameSaved PROVE SavedTypeOK'
  BY <1>10 DEF RenameSaved
<1>11. ASSUME SaveDone PROVE SavedTypeOK'
  BY <1>11 DEF SaveDone, OnlyAcked
<1>12. ASSUME EndSave PROVE SavedTypeOK'
  BY <1>12 DEF EndSave
<1>13. ASSUME Shutdown PROVE SavedTypeOK'
  BY <1>13 DEF Shutdown
<1>14. ASSUME WaitForUdp PROVE SavedTypeOK'
  BY <1>14 DEF WaitForUdp, SaveNow, OnlyAcked
<1>15. ASSUME Exit PROVE SavedTypeOK'
  BY <1>15, SaveNowTypes, DownTypes DEF Exit
<1>16. ASSUME UrgentExit PROVE SavedTypeOK'
  BY <1>16, TypesOf, SaveNowTypes, DownTypes DEF UrgentExit
<1>17. ASSUME LoadTree PROVE SavedTypeOK'
  BY <1>17 DEF LoadTree, Running, Read, Gives
<1>18. ASSUME NEW last \in 0 .. LastKey, Kill(last) PROVE SavedTypeOK'
  <2>1. files' \in Recs
    BY <1>18, TypesOf DEF Kill
  <2> QED
    BY <1>18, <2>1, DownTypes DEF Kill
<1> QED
  BY <1>1, <1>2, <1>3, <1>4, <1>5, <1>6, <1>7, <1>8, <1>9,
     <1>10, <1>11, <1>12, <1>13, <1>14, <1>15, <1>16, <1>17, <1>18
     DEF SavedNext, SavedAdd, SavedDump, SaveStep


(* Every step keeps SavingIsShut: nobody writes to the trees while they are  *)
(* saved.                                                                    *)
LEMMA SavingIsShutStep ==
  ASSUME ~DiskFails, SavedInv, SavedNext PROVE SavingIsShut'
<1> USE SavedRecAssumption, SavedKeysAssumption DEF SavedInv, SavingIsShut,
      saveVars, dumpVars
<1>1. ASSUME NEW k \in TreeKey, NEW d \in Payload, AddPositive(k, d)
      PROVE SavingIsShut'
  BY <1>1 DEF AddPositive, Takes, Running, Acknowledge
<1>2. ASSUME NEW k \in TreeKey, AddNegative(k) PROVE SavingIsShut'
  BY <1>2 DEF AddNegative, Takes, Running, Acknowledge
<1>3. ASSUME DumpStart PROVE SavingIsShut'
  BY <1>3 DEF DumpStart, Running
<1>4. ASSUME NEW k \in TreeKey, DumpFetch(k) PROVE SavingIsShut'
  BY <1>4 DEF DumpFetch, Pending
<1>5. ASSUME DumpWrite PROVE SavingIsShut'
  BY <1>5 DEF DumpWrite, WithChunk
<1>6. ASSUME DumpDelete PROVE SavingIsShut'
  BY <1>6 DEF DumpDelete
<1>7. ASSUME DumpDone PROVE SavingIsShut'
  BY <1>7 DEF DumpDone
<1>8. ASSUME Save PROVE SavingIsShut'
  BY <1>8 DEF Save, SaveInThread, SaveInline, WaitForDump, MaySave, SaveNow,
     OnlyAcked
<1>9. ASSUME WriteBlock PROVE SavingIsShut'
  BY <1>9 DEF WriteBlock
<1>10. ASSUME RenameSaved PROVE SavingIsShut'
  BY <1>10 DEF RenameSaved
<1>11. ASSUME SaveDone PROVE SavingIsShut'
  BY <1>11 DEF SaveDone, OnlyAcked
<1>12. ASSUME EndSave PROVE SavingIsShut'
  BY <1>12 DEF EndSave
<1>13. ASSUME Shutdown PROVE SavingIsShut'
  BY <1>13 DEF Shutdown
<1>14. ASSUME WaitForUdp PROVE SavingIsShut'
  BY <1>14 DEF WaitForUdp, SaveNow, OnlyAcked
<1>15. ASSUME Exit PROVE SavingIsShut'
  BY <1>15 DEF Exit, GoDown, SaveNow, OnlyAcked
<1>16. ASSUME UrgentExit PROVE SavingIsShut'
  BY <1>16 DEF UrgentExit, GoDown, SaveNow, OnlyAcked, WithChunk
<1>17. ASSUME LoadTree PROVE SavingIsShut'
  BY <1>17 DEF LoadTree, Running
<1>18. ASSUME NEW last \in 0 .. LastKey, Kill(last) PROVE SavingIsShut'
  BY <1>18 DEF Kill, GoDown, Running, WithChunk
<1> QED
  BY <1>1, <1>2, <1>3, <1>4, <1>5, <1>6, <1>7, <1>8, <1>9,
    <1>10, <1>11, <1>12, <1>13, <1>14, <1>15, <1>16, <1>17, <1>18
    DEF SavedNext, SavedAdd, SavedDump, SaveStep

(* After the last block the copy is the tree. *)
LEMMA CopyIsWhole ==
  ASSUME SavedTypeOK, CopyOfTree, saver = "writing", at > LastKey
  PROVE  blocks = tree
<1>1. \A k \in TreeKey : blocks[k] = tree[k]
  BY SavedKeysAssumption DEF SavedTypeOK, CopyOfTree, TreeKey
<1>2. blocks \in Recs /\ tree \in Recs
  BY DEF SavedTypeOK
<1> QED
  BY <1>1, <1>2 DEF Recs

(* Every step keeps CopyOfTree: the file being written is the tree.          *)
LEMMA CopyOfTreeStep ==
  ASSUME ~DiskFails, SavedInv, SavedNext PROVE CopyOfTree'
<1> USE SavedRecAssumption, SavedKeysAssumption DEF SavedInv, CopyOfTree,
      SavingIsShut, saveVars, dumpVars, SavedTypeOK, Recs, TreeKey
<1>1. ASSUME NEW k \in TreeKey, NEW d \in Payload, AddPositive(k, d)
      PROVE CopyOfTree'
  BY <1>1 DEF AddPositive, Takes, Running, Acknowledge
<1>2. ASSUME NEW k \in TreeKey, AddNegative(k) PROVE CopyOfTree'
  BY <1>2 DEF AddNegative, Takes, Running, Acknowledge
<1>3. ASSUME DumpStart PROVE CopyOfTree'
  BY <1>3 DEF DumpStart, Running
<1>4. ASSUME NEW k \in TreeKey, DumpFetch(k) PROVE CopyOfTree'
  BY <1>4 DEF DumpFetch, Pending
<1>5. ASSUME DumpWrite PROVE CopyOfTree'
  BY <1>5 DEF DumpWrite, WithChunk
<1>6. ASSUME DumpDelete PROVE CopyOfTree'
  BY <1>6 DEF DumpDelete
<1>7. ASSUME DumpDone PROVE CopyOfTree'
  BY <1>7 DEF DumpDone
<1>8. ASSUME Save PROVE CopyOfTree'
  BY <1>8 DEF Save, SaveInThread, SaveInline, WaitForDump, MaySave, SaveNow,
     OnlyAcked
<1>9. ASSUME WriteBlock PROVE CopyOfTree'
  BY <1>9 DEF WriteBlock
<1>10. ASSUME RenameSaved PROVE CopyOfTree'
  BY <1>10, CopyIsWhole DEF RenameSaved
<1>11. ASSUME SaveDone PROVE CopyOfTree'
  BY <1>11 DEF SaveDone, OnlyAcked
<1>12. ASSUME EndSave PROVE CopyOfTree'
  BY <1>12 DEF EndSave
<1>13. ASSUME Shutdown PROVE CopyOfTree'
  BY <1>13 DEF Shutdown
<1>14. ASSUME WaitForUdp PROVE CopyOfTree'
  BY <1>14 DEF WaitForUdp, SaveNow, OnlyAcked
<1>15. ASSUME Exit PROVE CopyOfTree'
  BY <1>15 DEF Exit, GoDown, SaveNow, OnlyAcked
<1>16. ASSUME UrgentExit PROVE CopyOfTree'
  BY <1>16 DEF UrgentExit, GoDown, SaveNow, OnlyAcked, WithChunk
<1>17. ASSUME LoadTree PROVE CopyOfTree'
  BY <1>17 DEF LoadTree, Running
<1>18. ASSUME NEW last \in 0 .. LastKey, Kill(last) PROVE CopyOfTree'
  BY <1>18 DEF Kill, GoDown, Running, WithChunk
<1> QED
  BY <1>1, <1>2, <1>3, <1>4, <1>5, <1>6, <1>7, <1>8, <1>9,
    <1>10, <1>11, <1>12, <1>13, <1>14, <1>15, <1>16, <1>17, <1>18
    DEF SavedNext, SavedAdd, SavedDump, SaveStep

(* Every step keeps CleanIsSaved: a clean tree is a saved one.               *)
LEMMA CleanIsSavedStep ==
  ASSUME ~DiskFails, SavedInv, SavedNext PROVE CleanIsSaved'
<1> USE SavedRecAssumption, SavedKeysAssumption DEF SavedInv, CleanIsSaved,
      SavingIsShut, CopyOfTree, saveVars, dumpVars, Running, SavedTypeOK, Recs,
      TreeKey
<1>1. ASSUME NEW k \in TreeKey, NEW d \in Payload, AddPositive(k, d)
      PROVE CleanIsSaved'
  BY <1>1 DEF AddPositive, Takes, Acknowledge
<1>2. ASSUME NEW k \in TreeKey, AddNegative(k) PROVE CleanIsSaved'
  BY <1>2 DEF AddNegative, Takes, Acknowledge
<1>3. ASSUME DumpStart PROVE CleanIsSaved'
  BY <1>3 DEF DumpStart
<1>4. ASSUME NEW k \in TreeKey, DumpFetch(k) PROVE CleanIsSaved'
  BY <1>4 DEF DumpFetch, Pending
<1>5. ASSUME DumpWrite PROVE CleanIsSaved'
  BY <1>5 DEF DumpWrite, WithChunk
<1>6. ASSUME DumpDelete PROVE CleanIsSaved'
  BY <1>6 DEF DumpDelete
<1>7. ASSUME DumpDone PROVE CleanIsSaved'
  BY <1>7 DEF DumpDone
<1>8. ASSUME Save PROVE CleanIsSaved'
  BY <1>8 DEF Save, SaveInThread, SaveInline, WaitForDump, MaySave, SaveNow,
     OnlyAcked
<1>9. ASSUME WriteBlock PROVE CleanIsSaved'
  BY <1>9 DEF WriteBlock
<1>10. ASSUME RenameSaved PROVE CleanIsSaved'
  BY <1>10 DEF RenameSaved
<1>11. ASSUME SaveDone PROVE CleanIsSaved'
  BY <1>11 DEF SaveDone, OnlyAcked
<1>12. ASSUME EndSave PROVE CleanIsSaved'
  BY <1>12 DEF EndSave
<1>13. ASSUME Shutdown PROVE CleanIsSaved'
  BY <1>13 DEF Shutdown
<1>14. ASSUME WaitForUdp PROVE CleanIsSaved'
  BY <1>14 DEF WaitForUdp, SaveNow, OnlyAcked
<1>15. ASSUME Exit PROVE CleanIsSaved'
  BY <1>15 DEF Exit, GoDown, SaveNow, OnlyAcked
<1>16. ASSUME UrgentExit PROVE CleanIsSaved'
  BY <1>16 DEF UrgentExit, GoDown, SaveNow, OnlyAcked, WithChunk
<1>17. ASSUME LoadTree PROVE CleanIsSaved'
  BY <1>17 DEF LoadTree
<1>18. ASSUME NEW last \in 0 .. LastKey, Kill(last) PROVE CleanIsSaved'
  BY <1>18 DEF Kill, GoDown, WithChunk
<1> QED
  BY <1>1, <1>2, <1>3, <1>4, <1>5, <1>6, <1>7, <1>8, <1>9,
    <1>10, <1>11, <1>12, <1>13, <1>14, <1>15, <1>16, <1>17, <1>18
    DEF SavedNext, SavedAdd, SavedDump, SaveStep

(* Every step keeps ChunkIsInTree: a chunk stays in the tree until it is in  *)
(* the file.                                                                 *)
LEMMA ChunkIsInTreeStep ==
  ASSUME ~DiskFails, SavedInv, SavedNext PROVE ChunkIsInTree'
<1> USE SavedRecAssumption, SavedKeysAssumption DEF SavedInv, ChunkIsInTree,
      SavingIsShut, saveVars, dumpVars, SavedTypeOK, Recs, EmptyTree, Refused,
      TreeKey
<1>1. ASSUME NEW k \in TreeKey, NEW d \in Payload, AddPositive(k, d)
      PROVE ChunkIsInTree'
  BY <1>1 DEF AddPositive, Takes, Running, Acknowledge
<1>2. ASSUME NEW k \in TreeKey, AddNegative(k) PROVE ChunkIsInTree'
  BY <1>2 DEF AddNegative, Takes, Running, Acknowledge
<1>3. ASSUME DumpStart PROVE ChunkIsInTree'
  BY <1>3 DEF DumpStart, Running
<1>4. ASSUME NEW k \in TreeKey, DumpFetch(k) PROVE ChunkIsInTree'
  BY <1>4 DEF DumpFetch, Pending
<1>5. ASSUME DumpWrite PROVE ChunkIsInTree'
  BY <1>5 DEF DumpWrite, WithChunk
<1>6. ASSUME DumpDelete PROVE ChunkIsInTree'
  BY <1>6 DEF DumpDelete
<1>7. ASSUME DumpDone PROVE ChunkIsInTree'
  BY <1>7 DEF DumpDone
<1>8. ASSUME Save PROVE ChunkIsInTree'
  BY <1>8 DEF Save, SaveInThread, SaveInline, WaitForDump, MaySave, SaveNow,
     OnlyAcked
<1>9. ASSUME WriteBlock PROVE ChunkIsInTree'
  BY <1>9 DEF WriteBlock
<1>10. ASSUME RenameSaved PROVE ChunkIsInTree'
  BY <1>10 DEF RenameSaved
<1>11. ASSUME SaveDone PROVE ChunkIsInTree'
  BY <1>11 DEF SaveDone, OnlyAcked
<1>12. ASSUME EndSave PROVE ChunkIsInTree'
  BY <1>12 DEF EndSave
<1>13. ASSUME Shutdown PROVE ChunkIsInTree'
  BY <1>13 DEF Shutdown
<1>14. ASSUME WaitForUdp PROVE ChunkIsInTree'
  BY <1>14 DEF WaitForUdp, SaveNow, OnlyAcked
<1>15. ASSUME Exit PROVE ChunkIsInTree'
  BY <1>15 DEF Exit, GoDown, SaveNow, OnlyAcked
<1>16. ASSUME UrgentExit PROVE ChunkIsInTree'
  BY <1>16 DEF UrgentExit, GoDown, SaveNow, OnlyAcked, WithChunk
<1>17. ASSUME LoadTree PROVE ChunkIsInTree'
  BY <1>17 DEF LoadTree, Running
<1>18. ASSUME NEW last \in 0 .. LastKey, Kill(last) PROVE ChunkIsInTree'
  BY <1>18 DEF Kill, GoDown, Running, WithChunk
<1> QED
  BY <1>1, <1>2, <1>3, <1>4, <1>5, <1>6, <1>7, <1>8, <1>9,
    <1>10, <1>11, <1>12, <1>13, <1>14, <1>15, <1>16, <1>17, <1>18
    DEF SavedNext, SavedAdd, SavedDump, SaveStep

(* Every step keeps NoFileNoRecord: records of files need a file.            *)
LEMMA NoFileNoRecordStep ==
  ASSUME ~DiskFails, SavedInv, SavedNext PROVE NoFileNoRecord'
<1> USE SavedRecAssumption, SavedKeysAssumption DEF SavedInv, NoFileNoRecord,
      SavingIsShut, saveVars, dumpVars
<1>1. ASSUME NEW k \in TreeKey, NEW d \in Payload, AddPositive(k, d)
      PROVE NoFileNoRecord'
  BY <1>1 DEF AddPositive, Takes, Running, Acknowledge
<1>2. ASSUME NEW k \in TreeKey, AddNegative(k) PROVE NoFileNoRecord'
  BY <1>2 DEF AddNegative, Takes, Running, Acknowledge
<1>3. ASSUME DumpStart PROVE NoFileNoRecord'
  BY <1>3 DEF DumpStart, Running
<1>4. ASSUME NEW k \in TreeKey, DumpFetch(k) PROVE NoFileNoRecord'
  BY <1>4 DEF DumpFetch, Pending
<1>5. ASSUME DumpWrite PROVE NoFileNoRecord'
  BY <1>5 DEF DumpWrite, WithChunk
<1>6. ASSUME DumpDelete PROVE NoFileNoRecord'
  BY <1>6 DEF DumpDelete
<1>7. ASSUME DumpDone PROVE NoFileNoRecord'
  BY <1>7 DEF DumpDone
<1>8. ASSUME Save PROVE NoFileNoRecord'
  BY <1>8 DEF Save, SaveInThread, SaveInline, WaitForDump, MaySave, SaveNow,
     OnlyAcked
<1>9. ASSUME WriteBlock PROVE NoFileNoRecord'
  BY <1>9 DEF WriteBlock
<1>10. ASSUME RenameSaved PROVE NoFileNoRecord'
  BY <1>10 DEF RenameSaved
<1>11. ASSUME SaveDone PROVE NoFileNoRecord'
  BY <1>11 DEF SaveDone, OnlyAcked
<1>12. ASSUME EndSave PROVE NoFileNoRecord'
  BY <1>12 DEF EndSave
<1>13. ASSUME Shutdown PROVE NoFileNoRecord'
  BY <1>13 DEF Shutdown
<1>14. ASSUME WaitForUdp PROVE NoFileNoRecord'
  BY <1>14 DEF WaitForUdp, SaveNow, OnlyAcked
<1>15. ASSUME Exit PROVE NoFileNoRecord'
  BY <1>15 DEF Exit, GoDown, SaveNow, OnlyAcked
<1>16. ASSUME UrgentExit PROVE NoFileNoRecord'
  BY <1>16 DEF UrgentExit, GoDown, SaveNow, OnlyAcked, WithChunk
<1>17. ASSUME LoadTree PROVE NoFileNoRecord'
  BY <1>17 DEF LoadTree, Running
<1>18. ASSUME NEW last \in 0 .. LastKey, Kill(last) PROVE NoFileNoRecord'
  BY <1>18 DEF Kill, GoDown, Running, WithChunk
<1> QED
  BY <1>1, <1>2, <1>3, <1>4, <1>5, <1>6, <1>7, <1>8, <1>9,
    <1>10, <1>11, <1>12, <1>13, <1>14, <1>15, <1>16, <1>17, <1>18
    DEF SavedNext, SavedAdd, SavedDump, SaveStep

(* Every step keeps ReadsRight: reads give what was acknowledged.            *)
LEMMA ReadsRightStep ==
  ASSUME ~DiskFails, SavedInv, SavedNext PROVE ReadsRight'
<1> USE SavedRecAssumption, SavedKeysAssumption DEF SavedInv, ReadsRight,
      SavingIsShut, CopyOfTree, ChunkIsInTree, NoFileNoRecord, Read, Gives,
      saveVars, dumpVars, SavedTypeOK, Recs, EmptyTree, Running
<1>1. ASSUME NEW k \in TreeKey, NEW d \in Payload, AddPositive(k, d)
      PROVE ReadsRight'
  BY <1>1 DEF AddPositive, Takes, Acknowledge
<1>2. ASSUME NEW k \in TreeKey, AddNegative(k) PROVE ReadsRight'
  BY <1>2 DEF AddNegative, Takes, Acknowledge
<1>3. ASSUME DumpStart PROVE ReadsRight'
  BY <1>3 DEF DumpStart
<1>4. ASSUME NEW k \in TreeKey, DumpFetch(k) PROVE ReadsRight'
  BY <1>4 DEF DumpFetch, Pending
<1>5. ASSUME DumpWrite PROVE ReadsRight'
  BY <1>5 DEF DumpWrite, WithChunk
<1>6. ASSUME DumpDelete PROVE ReadsRight'
  BY <1>6 DEF DumpDelete
<1>7. ASSUME DumpDone PROVE ReadsRight'
  BY <1>7 DEF DumpDone
<1>8. ASSUME Save PROVE ReadsRight'
  BY <1>8 DEF Save, SaveInThread, SaveInline, WaitForDump, MaySave, SaveNow,
     OnlyAcked
<1>9. ASSUME WriteBlock PROVE ReadsRight'
  BY <1>9 DEF WriteBlock
<1>10. ASSUME RenameSaved PROVE ReadsRight'
  BY <1>10 DEF RenameSaved
<1>11. ASSUME SaveDone PROVE ReadsRight'
  BY <1>11 DEF SaveDone, OnlyAcked
<1>12. ASSUME EndSave PROVE ReadsRight'
  BY <1>12 DEF EndSave
<1>13. ASSUME Shutdown PROVE ReadsRight'
  BY <1>13 DEF Shutdown
<1>14. ASSUME WaitForUdp PROVE ReadsRight'
  BY <1>14 DEF WaitForUdp, SaveNow, OnlyAcked
<1>15. ASSUME Exit PROVE ReadsRight'
  BY <1>15 DEF Exit, GoDown, SaveNow, OnlyAcked
<1>16. ASSUME UrgentExit PROVE ReadsRight'
  BY <1>16 DEF UrgentExit, GoDown, SaveNow, OnlyAcked, WithChunk
<1>17. ASSUME LoadTree PROVE ReadsRight'
  BY <1>17 DEF LoadTree
<1>18. ASSUME NEW last \in 0 .. LastKey, Kill(last) PROVE ReadsRight'
  BY <1>18 DEF Kill, GoDown, WithChunk
<1> QED
  BY <1>1, <1>2, <1>3, <1>4, <1>5, <1>6, <1>7, <1>8, <1>9,
    <1>10, <1>11, <1>12, <1>13, <1>14, <1>15, <1>16, <1>17, <1>18
    DEF SavedNext, SavedAdd, SavedDump, SaveStep

(* Every step keeps AckedSince: the last acknowledged is among those since   *)
(* the save.                                                                 *)
LEMMA AckedSinceStep ==
  ASSUME ~DiskFails, SavedInv, SavedNext PROVE AckedSince'
<1> USE SavedRecAssumption, SavedKeysAssumption DEF SavedInv, AckedSince,
      saveVars, dumpVars, SavedTypeOK, Read
<1>1. ASSUME NEW k \in TreeKey, NEW d \in Payload, AddPositive(k, d)
      PROVE AckedSince'
  BY <1>1 DEF AddPositive, Takes, Running, Acknowledge
<1>2. ASSUME NEW k \in TreeKey, AddNegative(k) PROVE AckedSince'
  BY <1>2 DEF AddNegative, Takes, Running, Acknowledge
<1>3. ASSUME DumpStart PROVE AckedSince'
  BY <1>3 DEF DumpStart, Running
<1>4. ASSUME NEW k \in TreeKey, DumpFetch(k) PROVE AckedSince'
  BY <1>4 DEF DumpFetch, Pending
<1>5. ASSUME DumpWrite PROVE AckedSince'
  BY <1>5 DEF DumpWrite, WithChunk
<1>6. ASSUME DumpDelete PROVE AckedSince'
  BY <1>6 DEF DumpDelete
<1>7. ASSUME DumpDone PROVE AckedSince'
  BY <1>7 DEF DumpDone
<1>8. ASSUME Save PROVE AckedSince'
  BY <1>8 DEF Save, SaveInThread, SaveInline, WaitForDump, MaySave, SaveNow,
     OnlyAcked
<1>9. ASSUME WriteBlock PROVE AckedSince'
  BY <1>9 DEF WriteBlock
<1>10. ASSUME RenameSaved PROVE AckedSince'
  BY <1>10 DEF RenameSaved
<1>11. ASSUME SaveDone PROVE AckedSince'
  BY <1>11 DEF SaveDone, OnlyAcked
<1>12. ASSUME EndSave PROVE AckedSince'
  BY <1>12 DEF EndSave
<1>13. ASSUME Shutdown PROVE AckedSince'
  BY <1>13 DEF Shutdown
<1>14. ASSUME WaitForUdp PROVE AckedSince'
  BY <1>14 DEF WaitForUdp, SaveNow, OnlyAcked
<1>15. ASSUME Exit PROVE AckedSince'
  BY <1>15 DEF Exit, GoDown, SaveNow, OnlyAcked
<1>16. ASSUME UrgentExit PROVE AckedSince'
  BY <1>16 DEF UrgentExit, GoDown, SaveNow, OnlyAcked, WithChunk
<1>17. ASSUME LoadTree PROVE AckedSince'
  BY <1>17 DEF LoadTree, Running
<1>18. ASSUME NEW last \in 0 .. LastKey, Kill(last) PROVE AckedSince'
  BY <1>18 DEF Kill, GoDown, Running, WithChunk
<1> QED
  BY <1>1, <1>2, <1>3, <1>4, <1>5, <1>6, <1>7, <1>8, <1>9,
    <1>10, <1>11, <1>12, <1>13, <1>14, <1>15, <1>16, <1>17, <1>18
    DEF SavedNext, SavedAdd, SavedDump, SaveStep

(* Every step keeps RestartKeepsSaved: and so no restart falls back behind a *)
(* save.                                                                     *)
LEMMA RestartKeepsSavedStep ==
  ASSUME ~DiskFails, SavedInv, SavedNext PROVE RestartKeepsSaved'
<1> USE SavedRecAssumption, SavedKeysAssumption DEF SavedInv,
      RestartKeepsSaved, CopyOfTree, CleanIsSaved, SavingIsShut, ReadsRight,
      AckedSince, ChunkIsInTree, Read, Gives, saveVars, dumpVars, Running,
      SavedTypeOK, Recs
<1>1. ASSUME NEW k \in TreeKey, NEW d \in Payload, AddPositive(k, d)
      PROVE RestartKeepsSaved'
  BY <1>1 DEF AddPositive, Takes, Acknowledge
<1>2. ASSUME NEW k \in TreeKey, AddNegative(k) PROVE RestartKeepsSaved'
  BY <1>2 DEF AddNegative, Takes, Acknowledge
<1>3. ASSUME DumpStart PROVE RestartKeepsSaved'
  BY <1>3 DEF DumpStart
<1>4. ASSUME NEW k \in TreeKey, DumpFetch(k) PROVE RestartKeepsSaved'
  BY <1>4 DEF DumpFetch, Pending
<1>5. ASSUME DumpWrite PROVE RestartKeepsSaved'
  BY <1>5 DEF DumpWrite, WithChunk
<1>6. ASSUME DumpDelete PROVE RestartKeepsSaved'
  BY <1>6 DEF DumpDelete
<1>7. ASSUME DumpDone PROVE RestartKeepsSaved'
  BY <1>7 DEF DumpDone
<1>8. ASSUME Save PROVE RestartKeepsSaved'
  BY <1>8 DEF Save, SaveInThread, SaveInline, WaitForDump, MaySave, SaveNow,
     OnlyAcked
<1>9. ASSUME WriteBlock PROVE RestartKeepsSaved'
  BY <1>9 DEF WriteBlock
<1>10. ASSUME RenameSaved PROVE RestartKeepsSaved'
  BY <1>10, CopyIsWhole DEF RenameSaved
<1>11. ASSUME SaveDone PROVE RestartKeepsSaved'
  BY <1>11 DEF SaveDone, OnlyAcked
<1>12. ASSUME EndSave PROVE RestartKeepsSaved'
  BY <1>12 DEF EndSave
<1>13. ASSUME Shutdown PROVE RestartKeepsSaved'
  BY <1>13 DEF Shutdown
<1>14. ASSUME WaitForUdp PROVE RestartKeepsSaved'
  BY <1>14 DEF WaitForUdp, SaveNow, OnlyAcked
<1>15. ASSUME Exit PROVE RestartKeepsSaved'
  BY <1>15 DEF Exit, GoDown, SaveNow, OnlyAcked
<1>16. ASSUME UrgentExit PROVE RestartKeepsSaved'
  BY <1>16 DEF UrgentExit, GoDown, SaveNow, OnlyAcked, WithChunk
<1>17. ASSUME LoadTree PROVE RestartKeepsSaved'
  BY <1>17 DEF LoadTree
<1>18. ASSUME NEW last \in 0 .. LastKey, Kill(last) PROVE RestartKeepsSaved'
  BY <1>18 DEF Kill, GoDown, WithChunk
<1> QED
  BY <1>1, <1>2, <1>3, <1>4, <1>5, <1>6, <1>7, <1>8, <1>9,
    <1>10, <1>11, <1>12, <1>13, <1>14, <1>15, <1>16, <1>17, <1>18
    DEF SavedNext, SavedAdd, SavedDump, SaveStep

-----------------------------------------------------------------------------
LEMMA SavedTypeInit == SavedInit => SavedTypeOK
<1> SUFFICES ASSUME SavedInit PROVE SavedTypeOK
  OBVIOUS
<1>1. EmptyTree \in Recs /\ 1 \in 1 .. LastKey + 1
  BY SavedKeysAssumption DEF EmptyTree, Recs
<1>2. EmptyTree \in [TreeKey -> Payload \union {None}]
  BY DEF EmptyTree
<1> QED
  BY <1>1, <1>2 DEF SavedInit, SavedTypeOK

LEMMA SavedInvInit == SavedInit => SavedInv
<1> SUFFICES ASSUME SavedInit PROVE SavedInv
  OBVIOUS
<1>1. \A k \in TreeKey : EmptyTree[k] = None
  BY DEF EmptyTree
<1> QED
  BY <1>1, SavedTypeInit, SavedRecAssumption
     DEF SavedInit, SavedInv, SavingIsShut, CopyOfTree, CleanIsSaved,
         ChunkIsInTree, NoFileNoRecord, ReadsRight, AckedSince,
         RestartKeepsSaved, Read, Gives

LEMMA SavedInvStep ==
  ~DiskFails /\ SavedInv /\ [SavedNext]_savedVars => SavedInv'
<1> SUFFICES ASSUME ~DiskFails, SavedInv, [SavedNext]_savedVars PROVE SavedInv'
  OBVIOUS
<1>1. CASE SavedNext
  BY <1>1, SavedTypeStep, SavingIsShutStep, CopyOfTreeStep, CleanIsSavedStep,
     ChunkIsInTreeStep, NoFileNoRecordStep, ReadsRightStep, AckedSinceStep,
     RestartKeepsSavedStep DEF SavedInv
<1>2. CASE UNCHANGED savedVars
  BY <1>2 DEF savedVars, saveVars, dumpVars, SavedInv, SavedTypeOK,
     SavingIsShut,
     CopyOfTree, CleanIsSaved, ChunkIsInTree, NoFileNoRecord, ReadsRight,
     AckedSince,
     RestartKeepsSaved, Read, Gives, Running
<1> QED
  BY <1>1, <1>2

(* The invariant, while no write of the saved file fails. *)
THEOREM SavedInvHolds ==
  ASSUME ~DiskFails
  PROVE  SavedSpec => []SavedInv
<1>1. SavedInit => SavedInv
  BY SavedInvInit
<1>2. SavedInv /\ [SavedNext]_savedVars => SavedInv'
  BY SavedInvStep
<1> QED
  BY <1>1, <1>2, PTL DEF SavedSpec

(* Every variable has its type; write errors make no difference. *)
THEOREM SavedTypeCorrect == SavedSpec => []SavedTypeOK
<1>1. SavedInit => SavedTypeOK
  BY SavedTypeInit
<1>2. SavedTypeOK /\ [SavedNext]_savedVars => SavedTypeOK'
  <2>1. SavedTypeOK /\ UNCHANGED savedVars => SavedTypeOK'
    BY DEF SavedTypeOK, savedVars, saveVars, dumpVars
  <2> QED
    BY <2>1, SavedTypeStep
<1> QED
  BY <1>1, <1>2, PTL DEF SavedSpec

(* Whatever ends the process, and whenever, a restart gives of each key what *)
(* was acknowledged last before the last save or at some time after it; and  *)
(* after an orderly exit there is no such time (Process.cpp, RdbTree.cpp).   *)
THEOREM RestartLosesNothingSaved ==
  ASSUME ~DiskFails
  PROVE  SavedSpec => []RestartKeepsSaved
<1>1. SavedInv => RestartKeepsSaved
  BY DEF SavedInv
<1> QED
  BY <1>1, SavedInvHolds, PTL

-----------------------------------------------------------------------------
(* Both parts, as they are checked.                                         *)

LEMMA RestartParts ==
  ASSUME ~AnyTime
  PROVE  RestartSpec => [](BaseInv /\ SavedTypeOK)
<1>1. RestartInit => BaseInv /\ SavedTypeOK
  BY BaseInvInit, SavedTypeInit DEF RestartInit
<1>2. BaseInv /\ SavedTypeOK /\ [RestartNext]_<<part, vars, savedVars>>
        => (BaseInv /\ SavedTypeOK)'
  <2> SUFFICES ASSUME BaseInv, SavedTypeOK, [RestartNext]_<<part, vars, savedVars>>
               PROVE  BaseInv' /\ SavedTypeOK'
    OBVIOUS
  <2>1. [Next]_vars /\ (SavedNext \/ UNCHANGED savedVars)
    BY DEF RestartNext
  <2>2. BaseInv'
    BY <2>1, BaseInvStep
  <2>3. SavedTypeOK'
    <3>1. UNCHANGED savedVars => SavedTypeOK'
      BY DEF SavedTypeOK, savedVars, saveVars, dumpVars
    <3> QED BY <2>1, <3>1, SavedTypeStep
  <2> QED BY <2>2, <2>3
<1> QED BY <1>1, <1>2, PTL DEF RestartSpec

(* Every variable of the files and of the saved tree has its type.          *)
THEOREM RestartTypeCorrect ==
  ASSUME ~AnyTime
  PROVE  RestartSpec => []RestartTypeOK
<1>1. BaseInv /\ SavedTypeOK => RestartTypeOK
  BY DEF BaseInv, RestartTypeOK
<1> QED BY <1>1, RestartParts, PTL

(* A restart finds in the files what was dumped last, and in tree and files *)
(* no key that falls back behind the last save.                             *)
THEOREM RestartFindsAll ==
  ASSUME ~AnyTime, ~DiskFails
  PROVE  RestartSpec => [](ReadsSurvive /\ RestartKeepsSaved)
<1>1. RestartInit => SavedInv
  BY SavedInvInit DEF RestartInit
<1>2. SavedInv /\ [RestartNext]_<<part, vars, savedVars>> => SavedInv'
  <2>1. [RestartNext]_<<part, vars, savedVars>> => [SavedNext]_savedVars
    BY DEF RestartNext
  <2> QED BY <2>1, SavedInvStep
<1>3. BaseInv /\ SavedInv => ReadsSurvive /\ RestartKeepsSaved
  BY InvReads DEF SavedInv
<1> QED BY <1>1, <1>2, <1>3, RestartParts, PTL DEF RestartSpec
=============================================================================
