---------------------------- MODULE Msg4_proof ----------------------------
(***************************************************************************)
(* What Msg4 has taken is kept and sent in order: for any number of twins  *)
(* and records and for any size of the buffers.                            *)
(***************************************************************************)
EXTENDS MCHosts, Udp_proof, Multicast_proof, SequenceTheorems

-----------------------------------------------------------------------------
(* Cutting records into buffers.                                           *)

LEMMA MinOfTwo ==
    ASSUME NEW a \in Int, NEW b \in Int
    PROVE  /\ Min({a, b}) \in {a, b} /\ Min({a, b}) <= a /\ Min({a, b}) <= b
  <1> DEFINE P(x) == x \in {a, b} /\ \A y \in {a, b} : x <= y
  <1>1. \E x : P(x)
    BY DEF P
  <1>2. P(CHOOSE x : P(x))
    BY <1>1
  <1>3. Min({a, b}) = CHOOSE x : P(x)
    BY DEF Min
  <1> QED BY <1>2, <1>3

\* How many buffers of B records are full when L records are stored, the last
\* buffer being kept.
Cuts(L, B) == IF L = 0 THEN 0 ELSE (L - 1) \div B

LEMMA CutsFacts ==
    ASSUME NEW L \in Nat, NEW B \in Nat \ {0}
    PROVE  /\ Cuts(L, B) \in Nat
           /\ Cuts(L, B) * B \in Nat /\ Cuts(L, B) * B <= L
           /\ L - Cuts(L, B) * B <= B
           /\ \A m \in Nat : L <= B + B * m => Cuts(L, B) <= m
  <1>1. CASE L = 0
    BY <1>1 DEF Cuts
  <1>2. CASE L # 0
    <2> DEFINE q == Cuts(L, B)
    <2>1. q \in Nat /\ q * B <= L - 1 /\ L - 1 < q * B + B
      BY <1>2 DEF Cuts
    <2> HIDE DEF q
    <2>2. q * B \in Nat
      BY <2>1
    <2>3. ASSUME NEW m \in Nat, L <= B + B * m PROVE q <= m
      <3> SUFFICES ASSUME m + 1 <= q PROVE FALSE
        BY <2>1
      <3>1. (m + 1) * B <= q * B
        BY <2>1
      <3>2. (m + 1) * B = B * m + B /\ B * m \in Nat
        OBVIOUS
      <3> QED BY <2>1, <2>2, <2>3, <3>1, <3>2
    <2> QED BY <2>1, <2>2, <2>3 DEF q
  <1> QED BY <1>1, <1>2

\* Each record before the last buffer is in one that is full.
LEMMA CutOf ==
    ASSUME NEW B \in Nat \ {0}, NEW q \in Nat, NEW j \in Nat \ {0}, j <= q * B
    PROVE  \E i \in 1 .. q : (i - 1) * B < j /\ j <= i * B
  <1> DEFINE i == (j - 1) \div B
  <1>1. i \in Nat /\ i * B <= j - 1 /\ j - 1 < i * B + B
    OBVIOUS
  <1> HIDE DEF i
  <1>2. (i + 1) * B = i * B + B /\ (i + 1) - 1 = i
    BY <1>1
  <1>3. i + 1 <= q
    <2> SUFFICES ASSUME q <= i PROVE FALSE
      BY <1>1
    <2>1. q * B <= i * B /\ q * B \in Int /\ i * B \in Int
      BY <1>1
    <2> QED BY <1>1, <2>1
  <1>4. i + 1 \in 1 .. q
    BY <1>1, <1>3
  <1>5. ((i + 1) - 1) * B < j /\ j <= (i + 1) * B
    <2>1. i * B \in Int
      BY <1>1
    <2> QED BY <1>1, <1>2, <2>1
  <1> QED BY <1>4, <1>5, Zenon

LEMMA CutEnds ==
    ASSUME NEW B \in Nat \ {0}, NEW q \in Nat, NEW i \in 1 .. q
    PROVE  /\ (i - 1) * B \in Nat /\ i * B \in Nat
           /\ i * B = (i - 1) * B + B /\ i * B <= q * B
  OBVIOUS

-----------------------------------------------------------------------------
(* The parts of the invariant.                                             *)

Batch == [recs : Seq(Recs), at : [Twins -> Stage]]
Plain == [recs : Seq(Recs), to : Twins]

M4Typed ==
    /\ handed \in 0 .. MaxRecs
    /\ line \in Seq(Recs) /\ hostBuf \in Seq(Recs)
    /\ Len(hostBuf) <= BufSize
    /\ stored \in SUBSET Recs
    /\ batches \in SUBSET Batch /\ IsFiniteSet(batches)
    /\ Cardinality(batches) <= MaxMcasts
    /\ plain \in SUBSET Plain
    /\ got \in [Twins -> SUBSET Recs]
    /\ last \in [Twins -> 0 .. MaxRecs]
    /\ dropped \in [Twins -> SUBSET Recs]
    /\ overlap \in BOOLEAN /\ noMem \in BOOLEAN
    /\ exits \in 0 .. MaxExits

\* A twin that has answered well has the records, and so has one that is taken to
\* have, unless they have been given up for it.
AnsweredHas ==
    \A b \in batches, t \in Twins :
      /\ b.at[t] = "added" => RecsOf(b.recs) \subseteq got[t]
      /\ b.at[t] = "done" => RecsOf(b.recs) \subseteq got[t] \cup dropped[t]

Rising(s) == \A i, j \in 1 .. Len(s) : i < j => s[i] < s[j]

\* The records that have not been sent, in the order they are handed in, with
\* those of the requests before them.
InOrder ==
    /\ Rising(hostBuf \o line)
    /\ \A r \in RecsOf(hostBuf \o line) : r <= handed
    /\ \A b \in batches :
         /\ b.recs # <<>> /\ Rising(b.recs)
         /\ b.recs[Len(b.recs)] <= handed
         /\ \A r \in RecsOf(hostBuf \o line) : b.recs[Len(b.recs)] < r

M4Inv == M4Typed /\ AnsweredHas /\ AddsKept /\ InOrder

-----------------------------------------------------------------------------
(* storeRec(), again and again.                                            *)

LEMMA Msg4Constants ==
    ASSUME Msg4Assumption
    PROVE  /\ BufSize \in Nat \ {0} /\ MaxMcasts \in Nat \ {0} /\ MaxRecs \in Nat
           /\ Recs \in SUBSET (Nat \ {0})
  BY DEF Msg4Assumption, Recs

\* How many records are taken, and that the requests for them fit.
LEMMA StoreCounts ==
    ASSUME Msg4Assumption, M4Typed, NEW recs \in Seq(Recs), NEW under \in SUBSET batches
    PROVE  LET n == Min({Len(recs), Room(under)}) IN
           /\ n \in 0 .. Len(recs)
           /\ IsFiniteSet(under) /\ Cardinality(under) \in Nat
           /\ MaxMcasts - Cardinality(under) \in Nat
           /\ Len(hostBuf) + n <= BufSize + BufSize * (MaxMcasts - Cardinality(under))
  <1> DEFINE m == MaxMcasts - Cardinality(under)
  <1>1. IsFiniteSet(under) /\ Cardinality(under) \in Nat /\ Cardinality(under) <= Cardinality(batches)
        /\ Cardinality(batches) \in Nat
    BY FS_Subset, FS_CardinalityType DEF M4Typed
  <1>2. m \in Nat /\ BufSize \in Nat
    BY <1>1, Msg4Constants DEF M4Typed
  <1>3. BufSize * m \in Nat
    BY <1>2
  <1>4. Len(hostBuf) \in Nat /\ Len(hostBuf) <= BufSize /\ Len(recs) \in Nat
    BY DEF M4Typed
  <1>5. Room(under) = BufSize - Len(hostBuf) + BufSize * m
    BY DEF Room
  <1> HIDE DEF m
  <1>6. Room(under) \in Nat /\ Room(under) \in Int /\ Len(recs) \in Int
    BY <1>2, <1>3, <1>4, <1>5
  <1>7. Min({Len(recs), Room(under)}) \in {Len(recs), Room(under)}
        /\ Min({Len(recs), Room(under)}) <= Len(recs) /\ Min({Len(recs), Room(under)}) <= Room(under)
    BY <1>6, MinOfTwo, Zenon
  <1>8. Min({Len(recs), Room(under)}) \in Nat
    BY <1>4, <1>6, <1>7
  <1>9. Len(hostBuf) + Min({Len(recs), Room(under)}) <= BufSize + BufSize * m
    BY <1>2, <1>3, <1>4, <1>5, <1>7, <1>8
  <1> QED BY <1>1, <1>2, <1>4, <1>7, <1>8, <1>9 DEF m


\* What storeRec() has cut: the first n of the records are stored, and q buffers
\* of them and of what was in the buffer are sent.
AllOf(recs, n) == hostBuf \o SubSeq(recs, 1, n)
Cut(recs, n, i) == SubSeq(AllOf(recs, n), (i - 1) * BufSize + 1, i * BufSize)

StoredAs(recs, under, n, q) ==
    /\ n \in 0 .. Len(recs) /\ q \in Nat
    /\ q * BufSize \in Nat /\ q * BufSize <= Len(AllOf(recs, n))
    /\ Len(AllOf(recs, n)) - q * BufSize <= BufSize
    /\ q <= MaxMcasts - Cardinality(under)
    /\ hostBuf' = SubSeq(AllOf(recs, n), q * BufSize + 1, Len(AllOf(recs, n)))
    /\ batches' = under \cup {NewBatch(Cut(recs, n, i)) : i \in 1 .. q}
    /\ stored' = stored \cup RecsOf(SubSeq(recs, 1, n))
    /\ line' = SubSeq(recs, n + 1, Len(recs))

LEMMA Piece ==
    ASSUME NEW S, NEW s \in Seq(S), NEW m \in Nat \ {0}, NEW n \in 0 .. Len(s), m <= n + 1
    PROVE  /\ SubSeq(s, m, n) \in Seq(S)
           /\ Len(SubSeq(s, m, n)) = n - m + 1
           /\ \A k \in 1 .. n - m + 1 : SubSeq(s, m, n)[k] = s[m + k - 1]
  OBVIOUS

LEMMA FirstOfRecs ==
    ASSUME NEW recs \in Seq(Recs), NEW n \in 0 .. Len(recs)
    PROVE  /\ SubSeq(recs, 1, n) \in Seq(Recs) /\ Len(SubSeq(recs, 1, n)) = n
           /\ \A k \in 1 .. n : SubSeq(recs, 1, n)[k] = recs[k]
           /\ SubSeq(recs, n + 1, Len(recs)) \in Seq(Recs)
           /\ Len(SubSeq(recs, n + 1, Len(recs))) = Len(recs) - n
           /\ \A k \in 1 .. Len(recs) - n : SubSeq(recs, n + 1, Len(recs))[k] = recs[n + k]
  <1> DEFINE S == Recs
  <1> HIDE DEF S
  <1>1. recs \in Seq(S)
    BY DEF S
  <1>2. /\ SubSeq(recs, 1, n) \in Seq(S) /\ Len(SubSeq(recs, 1, n)) = n
        /\ \A k \in 1 .. n : SubSeq(recs, 1, n)[k] = recs[k]
    BY <1>1
  <1>3. /\ SubSeq(recs, n + 1, Len(recs)) \in Seq(S)
        /\ Len(SubSeq(recs, n + 1, Len(recs))) = Len(recs) - n
        /\ \A k \in 1 .. Len(recs) - n : SubSeq(recs, n + 1, Len(recs))[k] = recs[n + k]
    BY <1>1
  <1> QED BY <1>2, <1>3 DEF S

LEMMA AllFacts ==
    ASSUME M4Typed, NEW recs \in Seq(Recs), NEW n \in 0 .. Len(recs)
    PROVE  /\ AllOf(recs, n) \in Seq(Recs)
           /\ Len(AllOf(recs, n)) = Len(hostBuf) + n
           /\ \A k \in 1 .. Len(hostBuf) + n :
                AllOf(recs, n)[k] = IF k <= Len(hostBuf) THEN hostBuf[k] ELSE recs[k - Len(hostBuf)]
  <1> DEFINE first == SubSeq(recs, 1, n)
  <1>1. first \in Seq(Recs) /\ Len(first) = n /\ \A k \in 1 .. n : first[k] = recs[k]
    BY FirstOfRecs
  <1>2. hostBuf \in Seq(Recs) /\ Len(hostBuf) \in Nat /\ n \in Nat
    BY DEF M4Typed
  <1> HIDE DEF first
  <1>3. /\ hostBuf \o first \in Seq(Recs)
        /\ Len(hostBuf \o first) = Len(hostBuf) + Len(first)
        /\ \A k \in 1 .. Len(hostBuf) + Len(first) :
             (hostBuf \o first)[k] = IF k <= Len(hostBuf) THEN hostBuf[k] ELSE first[k - Len(hostBuf)]
    BY <1>1, <1>2, ConcatProperties, Zenon
  <1>4. AllOf(recs, n) = hostBuf \o first
    BY DEF AllOf, first
  <1> QED BY <1>1, <1>2, <1>3, <1>4

\* A list that is stored as far as there is room for it.
LEMMA CutsFit ==
    ASSUME Msg4Assumption, NEW L \in Nat, NEW m \in Nat, L <= BufSize + BufSize * m
    PROVE  LET q == Cuts(L, BufSize) IN
           q \in Nat /\ q * BufSize \in Nat /\ q * BufSize <= L /\ L - q * BufSize <= BufSize /\ q <= m
  <1>1. BufSize \in Nat \ {0}
    BY Msg4Constants
  <1> QED BY <1>1, CutsFacts, Zenon

\* One that is stored up to where no memory was left: all buffers are full.
LEMMA WholeFit ==
    ASSUME Msg4Assumption, NEW L \in Nat, NEW m \in Nat, L < BufSize + BufSize * m,
           L % BufSize = 0
    PROVE  LET q == L \div BufSize IN
           q \in Nat /\ q * BufSize \in Nat /\ q * BufSize <= L /\ L - q * BufSize <= BufSize /\ q <= m
  <1> DEFINE q == L \div BufSize
  <1>1. BufSize \in Nat \ {0}
    BY Msg4Constants
  <1>2. q \in Nat /\ L = BufSize * q
    BY <1>1
  <1> HIDE DEF q
  <1>3. q * BufSize = L
    BY <1>1, <1>2
  <1>4. q <= m
    <2> SUFFICES ASSUME m + 1 <= q PROVE FALSE
      BY <1>2
    <2>1. (m + 1) * BufSize <= q * BufSize
      BY <1>1, <1>2
    <2>2. (m + 1) * BufSize = BufSize + BufSize * m
      BY <1>1
    <2> QED BY <1>1, <1>3, <2>1, <2>2
  <1> QED BY <1>1, <1>2, <1>3, <1>4 DEF q

LEMMA StoreCuts ==
    ASSUME Msg4Assumption, M4Typed, NEW recs \in Seq(Recs), NEW under \in SUBSET batches,
           Store(recs, under)
    PROVE  \E n \in 0 .. Len(recs), q \in Nat :
             /\ StoredAs(recs, under, n, q)
             /\ ~overlap' => ~overlap /\ (q = 0 \/ (q = 1 /\ under = {} /\ plain = {}))
  <1> DEFINE fits == Min({Len(recs), Room(under)})
             m    == MaxMcasts - Cardinality(under)
             Full(n, fails) ==
               LET all == Behind(SubSeq(recs, 1, n)) IN
               IF fails THEN Len(all) \div BufSize
               ELSE IF all = <<>> THEN 0 ELSE (Len(all) - 1) \div BufSize
             Requests(n, q) ==
               LET all == Behind(SubSeq(recs, 1, n)) IN
               {NewBatch(SubSeq(all, (i - 1) * BufSize + 1, i * BufSize)) : i \in 1 .. q}
             Taken(n, fails) ==
               LET all == Behind(SubSeq(recs, 1, n)) IN
               IF fails THEN n < fits /\ Len(all) % BufSize = 0 ELSE n = fits
  <1>1. PICK n \in 0 .. Len(recs), fails \in BOOLEAN :
          LET all == Behind(SubSeq(recs, 1, n))
              q   == Full(n, fails)
          IN  /\ Taken(n, fails)
              /\ hostBuf' = SubSeq(all, q * BufSize + 1, Len(all))
              /\ batches' = under \cup Requests(n, q)
              /\ stored' = stored \cup RecsOf(SubSeq(recs, 1, n))
              /\ line' = SubSeq(recs, n + 1, Len(recs))
              /\ overlap' = (overlap \/ (Requests(n, q) # {} /\ (q > 1 \/ under # {} \/ plain # {})))
    BY Zenon DEF Store
  <1> DEFINE all == AllOf(recs, n)
             q   == Full(n, fails)
  <1>2. all = Behind(SubSeq(recs, 1, n))
    BY DEF AllOf, Behind
  <1>3. all \in Seq(Recs) /\ Len(all) = Len(hostBuf) + n /\ Len(all) \in Nat
    BY AllFacts
  <1>4. /\ fits \in 0 .. Len(recs) /\ m \in Nat /\ Len(hostBuf) + fits <= BufSize + BufSize * m
        /\ BufSize \in Nat /\ Len(hostBuf) \in Nat /\ n \in Nat
    <2>1. /\ fits \in 0 .. Len(recs) /\ m \in Nat
          /\ Len(hostBuf) + fits <= BufSize + BufSize * m
      BY StoreCounts, Zenon
    <2>2. BufSize \in Nat /\ Len(hostBuf) \in Nat /\ n \in Nat
      BY Msg4Constants DEF M4Typed
    <2> QED BY <2>1, <2>2, Zenon
  <1>5. /\ q \in Nat /\ q * BufSize \in Nat /\ q * BufSize <= Len(all)
        /\ Len(all) - q * BufSize <= BufSize /\ q <= m
    <2>1. CASE fails
      <3>1. n < fits /\ Len(all) % BufSize = 0 /\ q = Len(all) \div BufSize
        BY <1>1, <1>2, <2>1, Zenon
      <3> HIDE DEF fits, m, all, q
      <3>2. Len(all) < BufSize + BufSize * m
        BY <1>3, <1>4, <3>1
      <3> QED BY <1>3, <1>4, <3>1, <3>2, WholeFit, Zenon
    <2>2. CASE ~fails
      <3>1. n = fits
        BY <1>1, <2>2, Zenon
      <3>2. q = IF all = <<>> THEN 0 ELSE (Len(all) - 1) \div BufSize
        BY <1>2, <2>2, Zenon
      <3> HIDE DEF fits, m, all, q
      <3>3. q = Cuts(Len(all), BufSize)
        BY <1>3, <3>2 DEF Cuts
      <3>4. Len(all) <= BufSize + BufSize * m
        BY <1>3, <1>4, <3>1
      <3> QED BY <1>3, <1>4, <3>3, <3>4, CutsFit, Zenon
    <2> QED BY <2>1, <2>2
  <1>6. /\ hostBuf' = SubSeq(all, q * BufSize + 1, Len(all))
        /\ batches' = under \cup {NewBatch(SubSeq(all, (i - 1) * BufSize + 1, i * BufSize)) : i \in 1 .. q}
        /\ stored' = stored \cup RecsOf(SubSeq(recs, 1, n))
        /\ line' = SubSeq(recs, n + 1, Len(recs))
    BY <1>1, <1>2, Zenon
  <1> DEFINE sent == Requests(n, q)
  <1>7. overlap' = (overlap \/ (sent # {} /\ (q > 1 \/ under # {} \/ plain # {})))
    BY <1>1, Zenon
  <1>8. q # 0 => sent # {}
    <2> SUFFICES ASSUME q # 0 PROVE sent # {}
      OBVIOUS
    <2>1. 1 \in 1 .. q
      <3> HIDE DEF q
      <3> QED BY <1>5
    <2> QED BY <2>1, Zenon
  <1> HIDE DEF sent, q, all, fits
  <1>9. StoredAs(recs, under, n, q)
    BY <1>5, <1>6, Zenon DEF StoredAs, Cut, all
  <1>10. ~overlap' => ~overlap /\ (q = 0 \/ (q = 1 /\ under = {} /\ plain = {}))
    <2> SUFFICES ASSUME ~overlap'
                 PROVE  ~overlap /\ (q = 0 \/ (q = 1 /\ under = {} /\ plain = {}))
      OBVIOUS
    <2>1. ~(overlap \/ (sent # {} /\ (q > 1 \/ under # {} \/ plain # {})))
      BY <1>7, Zenon
    <2>2. sent = {} \/ (~(q > 1) /\ under = {} /\ plain = {})
      BY <2>1, Zenon
    <2>3. ~overlap
      BY <2>1, Zenon
    <2>4. q = 0 \/ (q = 1 /\ under = {} /\ plain = {})
      BY <1>5, <1>8, <2>2
    <2> QED BY <2>3, <2>4
  <1> QED BY <1>5, <1>9, <1>10, Zenon

\* A buffer that is cut out is full.
FullCut(recs, n, q, i) ==
    /\ Cut(recs, n, i) \in Seq(Recs) /\ Len(Cut(recs, n, i)) = BufSize
    /\ (i - 1) * BufSize \in Nat /\ i * BufSize \in Nat
    /\ i * BufSize = (i - 1) * BufSize + BufSize
    /\ i * BufSize <= q * BufSize /\ q * BufSize \in Nat
    /\ \A k \in 1 .. BufSize : Cut(recs, n, i)[k] = AllOf(recs, n)[(i - 1) * BufSize + k]

LEMMA CutRecs ==
    ASSUME Msg4Assumption, M4Typed, NEW recs \in Seq(Recs), NEW n \in 0 .. Len(recs), NEW q \in Nat,
           q * BufSize <= Len(AllOf(recs, n)), NEW i \in 1 .. q
    PROVE  FullCut(recs, n, q, i)
  <1> DEFINE all == AllOf(recs, n)
             a == (i - 1) * BufSize
             e == i * BufSize
             z == q * BufSize
  <1>1. BufSize \in Nat \ {0}
    BY Msg4Constants
  <1>2. a \in Nat /\ e \in Nat /\ e = a + BufSize /\ e <= z /\ z \in Nat
    BY <1>1, CutEnds
  <1>3. all \in Seq(Recs) /\ z <= Len(all)
    BY AllFacts
  <1>4. Cut(recs, n, i) = SubSeq(all, a + 1, e)
    BY DEF Cut
  <1> HIDE DEF all, a, e, z
  <1>5. a + 1 \in Nat \ {0} /\ e \in 0 .. Len(all) /\ a + 1 <= e + 1
    BY <1>1, <1>2, <1>3
  <1>6. /\ SubSeq(all, a + 1, e) \in Seq(Recs)
        /\ Len(SubSeq(all, a + 1, e)) = e - (a + 1) + 1
        /\ \A k \in 1 .. e - (a + 1) + 1 : SubSeq(all, a + 1, e)[k] = all[(a + 1) + k - 1]
    BY <1>3, <1>5, Piece, Zenon
  <1>7. e - (a + 1) + 1 = BufSize
    BY <1>1, <1>2
  <1>8. \A k \in 1 .. BufSize : (a + 1) + k - 1 = a + k
    BY <1>2
  <1>9. /\ Len(SubSeq(all, a + 1, e)) = BufSize
        /\ \A k \in 1 .. BufSize : SubSeq(all, a + 1, e)[k] = all[a + k]
    BY <1>6, <1>7, <1>8, Zenon
  <1> QED BY <1>2, <1>4, <1>6, <1>9, Zenon DEF all, a, e, z, FullCut

\* What stays in the buffer.
LEMMA RestRecs ==
    ASSUME Msg4Assumption, M4Typed, NEW recs \in Seq(Recs), NEW under,
           NEW n \in 0 .. Len(recs), NEW q \in Nat, StoredAs(recs, under, n, q)
    PROVE  /\ hostBuf' \in Seq(Recs)
           /\ Len(hostBuf') = Len(AllOf(recs, n)) - q * BufSize /\ Len(hostBuf') <= BufSize
           /\ \A k \in 1 .. Len(hostBuf') : hostBuf'[k] = AllOf(recs, n)[q * BufSize + k]
  <1> DEFINE all == AllOf(recs, n)
             z == q * BufSize
  <1>1. z \in Nat /\ z <= Len(all) /\ Len(all) - z <= BufSize /\ hostBuf' = SubSeq(all, z + 1, Len(all))
    BY DEF StoredAs
  <1>2. all \in Seq(Recs) /\ Len(all) \in Nat
    BY AllFacts
  <1> HIDE DEF all, z
  <1>3. z + 1 \in Nat \ {0} /\ Len(all) \in 0 .. Len(all) /\ z + 1 <= Len(all) + 1
    BY <1>1, <1>2
  <1>4. /\ SubSeq(all, z + 1, Len(all)) \in Seq(Recs)
        /\ Len(SubSeq(all, z + 1, Len(all))) = Len(all) - (z + 1) + 1
        /\ \A k \in 1 .. Len(all) - (z + 1) + 1 : SubSeq(all, z + 1, Len(all))[k] = all[(z + 1) + k - 1]
    BY <1>2, <1>3, Piece, Zenon
  <1>5. Len(all) - (z + 1) + 1 = Len(all) - z
        /\ \A k \in 1 .. Len(all) - z : (z + 1) + k - 1 = z + k
    BY <1>1, <1>2
  <1>6. /\ Len(hostBuf') = Len(all) - z /\ Len(hostBuf') <= BufSize
        /\ \A k \in 1 .. Len(hostBuf') : hostBuf'[k] = all[z + k]
    BY <1>1, <1>4, <1>5, Zenon
  <1> QED BY <1>1, <1>4, <1>6 DEF all, z


LEMMA RecsOfSeq ==
    ASSUME NEW S, NEW s \in Seq(S)
    PROVE  RecsOf(s) = {s[i] : i \in 1 .. Len(s)} /\ RecsOf(s) \subseteq S /\ Len(s) \in Nat
  BY DEF RecsOf

LEMMA StoreTyped ==
    ASSUME Msg4Assumption, M4Typed, NEW recs \in Seq(Recs), NEW under \in SUBSET batches,
           NEW n \in 0 .. Len(recs), NEW q \in Nat, StoredAs(recs, under, n, q)
    PROVE  /\ hostBuf' \in Seq(Recs) /\ Len(hostBuf') <= BufSize
           /\ line' \in Seq(Recs) /\ stored' \in SUBSET Recs
           /\ batches' \in SUBSET Batch /\ IsFiniteSet(batches')
           /\ Cardinality(batches') <= MaxMcasts
  <1> DEFINE new == {NewBatch(Cut(recs, n, i)) : i \in 1 .. q}
  <1>1. hostBuf' \in Seq(Recs) /\ Len(hostBuf') <= BufSize
    BY RestRecs
  <1>2. line' \in Seq(Recs) /\ SubSeq(recs, 1, n) \in Seq(Recs)
    BY FirstOfRecs DEF StoredAs
  <1>3. stored' \in SUBSET Recs
    BY <1>2, RecsOfSeq DEF StoredAs, M4Typed
  <1>4. \A i \in 1 .. q : NewBatch(Cut(recs, n, i)) \in Batch
    <2> SUFFICES ASSUME NEW i \in 1 .. q PROVE NewBatch(Cut(recs, n, i)) \in Batch
      OBVIOUS
    <2>1. q * BufSize <= Len(AllOf(recs, n))
      BY DEF StoredAs
    <2>2. FullCut(recs, n, q, i)
      BY <2>1, CutRecs, Zenon
    <2>3. Cut(recs, n, i) \in Seq(Recs)
      BY <2>2 DEF FullCut
    <2> QED BY <2>3 DEF NewBatch, Batch, Stage
  <1>5. IsFiniteSet(new) /\ Cardinality(new) <= q /\ Cardinality(new) \in Nat
    <2> DEFINE f == [i \in 1 .. q |-> NewBatch(Cut(recs, n, i))]
    <2>1. f \in Surjection(1 .. q, new)
      BY DEF Surjection
    <2>2. ExistsSurjection(1 .. q, new)
      BY <2>1 DEF ExistsSurjection
    <2>3. IsFiniteSet(new)
      BY <2>2, FS_NatSurjection
    <2> HIDE DEF new
    <2> QED BY <2>2, <2>3, FS_SurjCardinalityBound, FS_CardinalityType
  <1>6. IsFiniteSet(under) /\ Cardinality(under) \in Nat /\ under \in SUBSET Batch
    BY FS_Subset, FS_CardinalityType DEF M4Typed
  <1>7. batches' = under \cup new /\ q <= MaxMcasts - Cardinality(under)
    BY DEF StoredAs
  <1>8. batches' \in SUBSET Batch
    BY <1>4, <1>6, <1>7
  <1> HIDE DEF new
  <1>9. /\ IsFiniteSet(batches')
        /\ Cardinality(batches') = Cardinality(under) + Cardinality(new) - Cardinality(under \cap new)
    BY <1>5, <1>6, <1>7, FS_Union
  <1>10. Cardinality(under \cap new) \in Nat
    BY <1>6, FS_Subset, FS_CardinalityType
  <1>11. Cardinality(batches') <= MaxMcasts
    BY <1>5, <1>6, <1>7, <1>9, <1>10, Msg4Constants
  <1> QED BY <1>1, <1>2, <1>3, <1>8, <1>9, <1>11

\* No record is lost by cutting: it is in the buffer or in one that was sent.
LEMMA StoreKeepsRecs ==
    ASSUME Msg4Assumption, M4Typed, NEW recs \in Seq(Recs), NEW under \in SUBSET batches,
           NEW n \in 0 .. Len(recs), NEW q \in Nat, StoredAs(recs, under, n, q),
           NEW r \in RecsOf(hostBuf) \cup RecsOf(SubSeq(recs, 1, n))
    PROVE  r \in RecsOf(hostBuf') \/ \E i \in 1 .. q : r \in RecsOf(Cut(recs, n, i))
  <1> DEFINE all == AllOf(recs, n)
             z == q * BufSize
  <1>1. /\ Len(all) = Len(hostBuf) + n /\ hostBuf \in Seq(Recs) /\ Len(hostBuf) \in Nat /\ n \in Nat
        /\ \A k \in 1 .. Len(hostBuf) + n :
             all[k] = IF k <= Len(hostBuf) THEN hostBuf[k] ELSE recs[k - Len(hostBuf)]
    BY AllFacts, RecsOfSeq DEF M4Typed
  <1>2. \E k \in 1 .. Len(all) : all[k] = r
    <2>1. CASE r \in RecsOf(hostBuf)
      <3>1. PICK k \in 1 .. Len(hostBuf) : hostBuf[k] = r
        BY <1>1, <2>1, RecsOfSeq
      <3>2. k \in 1 .. Len(all) /\ all[k] = r
        BY <1>1, <3>1
      <3> QED BY <3>2
    <2>2. CASE r \in RecsOf(SubSeq(recs, 1, n))
      <3>1. /\ SubSeq(recs, 1, n) \in Seq(Recs) /\ Len(SubSeq(recs, 1, n)) = n
            /\ \A k \in 1 .. n : SubSeq(recs, 1, n)[k] = recs[k]
        BY FirstOfRecs
      <3> DEFINE first == SubSeq(recs, 1, n)
      <3> HIDE DEF first
      <3>2. first \in Seq(Recs) /\ Len(first) = n /\ (\A k \in 1 .. n : first[k] = recs[k]) /\ r \in RecsOf(first)
        BY <2>2, <3>1 DEF first
      <3>3. RecsOf(first) = {first[i] : i \in 1 .. Len(first)}
        BY <3>2, RecsOfSeq
      <3>4. PICK k \in 1 .. n : recs[k] = r
        BY <3>2, <3>3
      <3>5. Len(hostBuf) + k \in 1 .. Len(all) /\ all[Len(hostBuf) + k] = r
        <4>1. Len(hostBuf) + k \in 1 .. Len(hostBuf) + n /\ ~(Len(hostBuf) + k <= Len(hostBuf))
              /\ (Len(hostBuf) + k) - Len(hostBuf) = k
          BY <1>1, <3>4
        <4> QED BY <1>1, <3>4, <4>1
      <3> QED BY <3>5
    <2> QED BY <2>1, <2>2
  <1>3. PICK k \in 1 .. Len(all) : all[k] = r
    BY <1>2
  <1>4. z \in Nat /\ z <= Len(all) /\ BufSize \in Nat \ {0} /\ Len(all) \in Nat
    BY <1>1, Msg4Constants DEF StoredAs
  <1>5. CASE k <= z
    <2>0. k \in Nat \ {0} /\ k <= q * BufSize
      BY <1>3, <1>4, <1>5
    <2>1. PICK i \in 1 .. q : (i - 1) * BufSize < k /\ k <= i * BufSize
      BY <1>4, <2>0, CutOf, Zenon
    <2>2. /\ Cut(recs, n, i) \in Seq(Recs) /\ Len(Cut(recs, n, i)) = BufSize
          /\ (i - 1) * BufSize \in Nat /\ i * BufSize = (i - 1) * BufSize + BufSize
          /\ \A j \in 1 .. BufSize : Cut(recs, n, i)[j] = all[(i - 1) * BufSize + j]
      <3>1. q * BufSize <= Len(AllOf(recs, n))
        BY <1>4
      <3>2. FullCut(recs, n, q, i)
        BY <2>1, <3>1, CutRecs, Zenon
      <3> QED BY <3>2, Zenon DEF FullCut
    <2> DEFINE a == (i - 1) * BufSize
    <2>3. k - a \in 1 .. BufSize /\ a + (k - a) = k
      <3>1. a < k /\ k <= a + BufSize /\ a \in Nat
        BY <2>1, <2>2
      <3> HIDE DEF a
      <3> QED BY <1>3, <1>4, <3>1
    <2>4. Cut(recs, n, i)[k - a] = r
      BY <1>3, <2>2, <2>3
    <2>5. r \in RecsOf(Cut(recs, n, i))
      <3>1. RecsOf(Cut(recs, n, i)) = {Cut(recs, n, i)[j] : j \in 1 .. BufSize}
        BY <2>2, RecsOfSeq, Zenon
      <3> QED BY <2>3, <2>4, <3>1, Zenon
    <2> QED BY <2>5
  <1>6. CASE ~(k <= z)
    <2>1. /\ hostBuf' \in Seq(Recs) /\ Len(hostBuf') = Len(all) - z
          /\ \A j \in 1 .. Len(hostBuf') : hostBuf'[j] = all[z + j]
      BY RestRecs
    <2> HIDE DEF z, all
    <2>2. k - z \in 1 .. Len(hostBuf') /\ z + (k - z) = k
      BY <1>3, <1>4, <1>6, <2>1
    <2>3. hostBuf'[k - z] = r
      BY <1>3, <2>1, <2>2
    <2> QED BY <2>1, <2>2, <2>3, RecsOfSeq
  <1> QED BY <1>5, <1>6

\* What waits after a cut is the end of what waited before.
LEMMA StoreLine ==
    ASSUME Msg4Assumption, M4Typed, NEW recs \in Seq(Recs), NEW under \in SUBSET batches,
           NEW n \in 0 .. Len(recs), NEW q \in Nat, StoredAs(recs, under, n, q)
    PROVE  LET w == hostBuf \o recs
               v == (hostBuf \o line)'
               z == q * BufSize
           IN  /\ w \in Seq(Recs) /\ v \in Seq(Recs) /\ z \in Nat /\ Len(v) = Len(w) - z
               /\ \A k \in 1 .. Len(v) : v[k] = w[z + k]
               /\ Len(AllOf(recs, n)) <= Len(w)
               /\ \A k \in 1 .. Len(AllOf(recs, n)) : AllOf(recs, n)[k] = w[k]
  <1> DEFINE w == hostBuf \o recs
             v == hostBuf' \o line'
             z == q * BufSize
             all == AllOf(recs, n)
             h == Len(hostBuf)
             g == Len(hostBuf')
  <1>1. /\ Len(all) = h + n /\ hostBuf \in Seq(Recs) /\ h \in Nat /\ n \in Nat /\ Len(recs) \in Nat
        /\ n <= Len(recs)
        /\ \A k \in 1 .. h + n : all[k] = IF k <= h THEN hostBuf[k] ELSE recs[k - h]
    BY AllFacts, RecsOfSeq DEF M4Typed
  <1>2. /\ w \in Seq(Recs) /\ Len(w) = h + Len(recs)
        /\ \A k \in 1 .. h + Len(recs) : w[k] = IF k <= h THEN hostBuf[k] ELSE recs[k - h]
    BY <1>1, ConcatProperties, Zenon
  <1>3. /\ hostBuf' \in Seq(Recs) /\ g = Len(all) - z /\ z \in Nat /\ z <= Len(all)
        /\ \A k \in 1 .. g : hostBuf'[k] = all[z + k]
    <2>1. z \in Nat /\ z <= Len(all)
      BY Zenon DEF StoredAs
    <2> QED BY <2>1, RestRecs, Zenon
  <1>4. /\ line' \in Seq(Recs) /\ Len(line') = Len(recs) - n
        /\ \A k \in 1 .. Len(recs) - n : line'[k] = recs[n + k]
    BY FirstOfRecs DEF StoredAs
  <1>5. /\ v \in Seq(Recs) /\ Len(v) = g + Len(line')
        /\ \A k \in 1 .. g + Len(line') : v[k] = IF k <= g THEN hostBuf'[k] ELSE line'[k - g]
    BY <1>3, <1>4, ConcatProperties, Zenon
  <1> HIDE DEF w, v, z, all, h, g
  <1>6. Len(v) = Len(w) - z /\ Len(all) <= Len(w)
    <2>1. /\ Len(v) = g + Len(line') /\ Len(w) = h + Len(recs) /\ Len(all) = h + n
          /\ g = Len(all) - z /\ Len(line') = Len(recs) - n
      BY <1>1, <1>2, <1>3, <1>4, <1>5, Zenon
    <2>2. h \in Nat /\ n \in Nat /\ n <= Len(recs) /\ Len(recs) \in Nat /\ z \in Nat
      BY <1>1, <1>3, Zenon
    <2> QED BY <2>1, <2>2
  <1>7. ASSUME NEW k \in 1 .. Len(all) PROVE all[k] = w[k]
    <2>1. k \in 1 .. h + n /\ k \in 1 .. h + Len(recs)
      BY <1>1
    <2> QED BY <1>1, <1>2, <2>1, Zenon
  <1>8. ASSUME NEW k \in 1 .. Len(v) PROVE v[k] = w[z + k]
    <2>1. CASE k <= g
      <3>1. k \in 1 .. g /\ z + k \in 1 .. Len(all) /\ k \in 1 .. g + Len(line')
        BY <1>1, <1>3, <1>4, <1>5, <2>1
      <3> QED BY <1>3, <1>5, <1>7, <2>1, <3>1
    <2>2. CASE ~(k <= g)
      <3>1. /\ k - g \in 1 .. Len(recs) - n /\ k \in 1 .. g + Len(line')
            /\ z + k \in 1 .. h + Len(recs) /\ ~(z + k <= h)
            /\ (z + k) - h = n + (k - g)
        BY <1>1, <1>3, <1>4, <1>5, <2>2
      <3>2. v[k] = recs[n + (k - g)]
        BY <1>4, <1>5, <2>2, <3>1
      <3>3. w[z + k] = recs[(z + k) - h]
        BY <1>2, <3>1
      <3> QED BY <3>1, <3>2, <3>3
    <2> QED BY <2>1, <2>2
  <1> QED BY <1>2, <1>3, <1>5, <1>6, <1>7, <1>8 DEF w, v, z, all


\* The order survives cutting, and each new buffer is before what waits.
LEMMA StoreOrder ==
    ASSUME Msg4Assumption, M4Typed, NEW recs \in Seq(Recs), NEW under \in SUBSET batches,
           NEW n \in 0 .. Len(recs), NEW q \in Nat, StoredAs(recs, under, n, q),
           Rising(hostBuf \o recs)
    PROVE  /\ Rising((hostBuf \o line)')
           /\ RecsOf((hostBuf \o line)') \subseteq RecsOf(hostBuf \o recs)
           /\ \A i \in 1 .. q :
                /\ Cut(recs, n, i) # <<>> /\ Rising(Cut(recs, n, i))
                /\ Cut(recs, n, i)[Len(Cut(recs, n, i))] \in RecsOf(hostBuf \o recs)
                /\ \A r \in RecsOf((hostBuf \o line)') : Cut(recs, n, i)[Len(Cut(recs, n, i))] < r
  <1> DEFINE w == hostBuf \o recs
             v == hostBuf' \o line'
             z == q * BufSize
             all == AllOf(recs, n)
  <1>1. /\ w \in Seq(Recs) /\ v \in Seq(Recs) /\ z \in Nat /\ Len(v) = Len(w) - z
        /\ \A k \in 1 .. Len(v) : v[k] = w[z + k]
        /\ Len(all) <= Len(w)
        /\ \A k \in 1 .. Len(all) : all[k] = w[k]
    BY StoreLine, Zenon
  <1>2. z <= Len(all) /\ BufSize \in Nat \ {0} /\ all \in Seq(Recs)
    BY AllFacts, Msg4Constants, Zenon DEF StoredAs
  <1>3. /\ RecsOf(w) = {w[k] : k \in 1 .. Len(w)} /\ RecsOf(v) = {v[k] : k \in 1 .. Len(v)}
        /\ Len(w) \in Nat /\ Len(v) \in Nat /\ Len(all) \in Nat
    BY <1>1, <1>2, RecsOfSeq, Zenon
  <1>4. \A j, k \in 1 .. Len(w) : j < k => w[j] < w[k]
    BY Zenon DEF Rising
  <1>5. \A i \in 1 .. q :
          /\ Cut(recs, n, i) \in Seq(Recs) /\ Len(Cut(recs, n, i)) = BufSize
          /\ (i - 1) * BufSize \in Nat /\ i * BufSize \in Nat
          /\ i * BufSize = (i - 1) * BufSize + BufSize
          /\ i * BufSize <= z
          /\ \A k \in 1 .. BufSize : Cut(recs, n, i)[k] = all[(i - 1) * BufSize + k]
    <2> SUFFICES ASSUME NEW i \in 1 .. q PROVE FullCut(recs, n, q, i)
      BY Zenon DEF FullCut
    <2>1. q * BufSize <= Len(AllOf(recs, n))
      BY <1>2
    <2> QED BY <2>1, CutRecs, Zenon
  <1> HIDE DEF w, v, z, all
  <1>6. \A k \in 1 .. Len(v) : z + k \in 1 .. Len(w)
    BY <1>1, <1>3
  <1>7. Rising(v)
    <2> SUFFICES ASSUME NEW j \in 1 .. Len(v), NEW k \in 1 .. Len(v), j < k PROVE v[j] < v[k]
      BY DEF Rising
    <2>1. z + j < z + k
      BY <1>1, <1>3
    <2> QED BY <1>1, <1>4, <1>6, <2>1
  <1>8. RecsOf(v) \subseteq RecsOf(w)
    BY <1>1, <1>3, <1>6
  <1>9. ASSUME NEW i \in 1 .. q
        PROVE  /\ Cut(recs, n, i) # <<>> /\ Rising(Cut(recs, n, i))
               /\ Cut(recs, n, i)[Len(Cut(recs, n, i))] \in RecsOf(w)
               /\ \A r \in RecsOf(v) : Cut(recs, n, i)[Len(Cut(recs, n, i))] < r
    <2> DEFINE c == Cut(recs, n, i)
               a == (i - 1) * BufSize
               e == i * BufSize
    <2>1. /\ c \in Seq(Recs) /\ Len(c) = BufSize /\ a \in Nat /\ e \in Nat /\ e = a + BufSize /\ e <= z
          /\ \A k \in 1 .. BufSize : c[k] = all[a + k]
      BY <1>5, Zenon
    <2> HIDE DEF c, a, e
    <2>2. \A k \in 1 .. BufSize : a + k \in 1 .. Len(all) /\ a + k \in 1 .. Len(w)
      BY <1>1, <1>2, <1>3, <2>1
    <2>3. \A k \in 1 .. BufSize : c[k] = w[a + k]
      BY <1>1, <2>1, <2>2
    <2>4. c # <<>>
      BY <1>2, <2>1
    <2>5. Rising(c)
      <3> SUFFICES ASSUME NEW j \in 1 .. BufSize, NEW k \in 1 .. BufSize, j < k PROVE c[j] < c[k]
        BY <2>1 DEF Rising
      <3>1. a + j < a + k
        BY <2>1
      <3> QED BY <1>4, <2>2, <2>3, <3>1
    <2>6. c[Len(c)] = w[e] /\ e \in 1 .. Len(w)
      BY <1>2, <2>1, <2>2, <2>3
    <2>7. c[Len(c)] \in RecsOf(w)
      BY <1>3, <2>6
    <2>8. ASSUME NEW r \in RecsOf(v) PROVE c[Len(c)] < r
      <3>1. PICK k \in 1 .. Len(v) : v[k] = r
        BY <1>3
      <3>2. e < z + k /\ z + k \in 1 .. Len(w) /\ r = w[z + k]
        BY <1>1, <1>6, <2>1, <3>1
      <3> QED BY <1>4, <2>6, <3>2
    <2> QED BY <2>4, <2>5, <2>7, <2>8 DEF c
  <1> QED BY <1>7, <1>8, <1>9 DEF w, v


\* After storeRec() everything holds, if it did of the requests that are left.
LEMMA StoreKeeps ==
    ASSUME Msg4Assumption, M4Typed, AnsweredHas,
           NEW recs \in Seq(Recs), NEW under \in SUBSET batches, Store(recs, under),
           UNCHANGED <<plain, got, last, dropped, exits>>, handed' \in 0 .. MaxRecs,
           \A r \in stored, t \in Twins :
             \/ r \in got[t] \/ r \in dropped[t]
             \/ r \in RecsOf(hostBuf)
             \/ \E b \in under : r \in RecsOf(b.recs) /\ b.at[t] # "done"
             \/ \E p \in plain : p.to = t /\ r \in RecsOf(p.recs),
           Rising(hostBuf \o recs),
           \A r \in RecsOf(hostBuf \o recs) : r <= handed',
           \A b \in under :
             /\ b.recs # <<>> /\ Rising(b.recs) /\ b.recs[Len(b.recs)] <= handed'
             /\ \A r \in RecsOf(hostBuf \o recs) : b.recs[Len(b.recs)] < r
    PROVE  M4Inv'
  <1>1. PICK n \in 0 .. Len(recs), q \in Nat : StoredAs(recs, under, n, q)
    BY StoreCuts
  <1> DEFINE new(i) == NewBatch(Cut(recs, n, i))
  <1>2. /\ batches' = under \cup {new(i) : i \in 1 .. q}
        /\ stored' = stored \cup RecsOf(SubSeq(recs, 1, n))
    BY <1>1, Zenon DEF StoredAs
  <1>3. \A i \in 1 .. q : /\ new(i).recs = Cut(recs, n, i)
                          /\ \A t \in Twins : new(i).at[t] = "sent"
    BY DEF NewBatch
  <1> HIDE DEF new
  <1>4. M4Typed'
    <2>1. /\ hostBuf' \in Seq(Recs) /\ Len(hostBuf') <= BufSize
          /\ line' \in Seq(Recs) /\ stored' \in SUBSET Recs
          /\ batches' \in SUBSET Batch /\ IsFiniteSet(batches')
          /\ Cardinality(batches') <= MaxMcasts
      BY <1>1, StoreTyped, Zenon
    <2>2. overlap' \in BOOLEAN /\ noMem' \in BOOLEAN
      BY Zenon DEF Store, M4Typed
    <2> QED BY <2>1, <2>2 DEF M4Typed, Recs, Batch, Plain
  <1>5. AnsweredHas'
    <2> SUFFICES ASSUME NEW b \in batches', NEW t \in Twins
                 PROVE  /\ b.at[t] = "added" => RecsOf(b.recs) \subseteq got'[t]
                        /\ b.at[t] = "done" => RecsOf(b.recs) \subseteq got'[t] \cup dropped'[t]
      BY DEF AnsweredHas
    <2>1. CASE b \in under
      BY <2>1 DEF AnsweredHas
    <2>2. CASE \E i \in 1 .. q : b = new(i)
      BY <1>3, <2>2
    <2> QED BY <1>2, <2>1, <2>2
  <1>6. AddsKept'
    <2> SUFFICES ASSUME NEW r \in stored', NEW t \in Twins
                 PROVE  \/ r \in got'[t] \/ r \in dropped'[t] \/ r \in RecsOf(hostBuf')
                        \/ \E b \in batches' : r \in RecsOf(b.recs) /\ b.at[t] # "done"
                        \/ \E p \in plain' : p.to = t /\ r \in RecsOf(p.recs)
      BY DEF AddsKept
    <2>1. CASE r \in RecsOf(hostBuf) \cup RecsOf(SubSeq(recs, 1, n))
      <3>1. r \in RecsOf(hostBuf') \/ \E i \in 1 .. q : r \in RecsOf(Cut(recs, n, i))
        BY <1>1, <2>1, StoreKeepsRecs, Zenon
      <3>2. ASSUME NEW i \in 1 .. q, r \in RecsOf(Cut(recs, n, i))
            PROVE  \E b \in batches' : r \in RecsOf(b.recs) /\ b.at[t] # "done"
        <4>1. new(i) \in batches' /\ new(i).recs = Cut(recs, n, i) /\ new(i).at[t] = "sent"
          BY <1>2, <1>3
        <4> QED BY <3>2, <4>1
      <3> QED BY <3>1, <3>2
    <2>2. CASE r \in stored /\ r \notin RecsOf(hostBuf)
      BY <1>2, <2>2
    <2> QED BY <1>2, <2>1, <2>2
  <1>7. InOrder'
    <2>1. /\ Rising((hostBuf \o line)')
          /\ RecsOf((hostBuf \o line)') \subseteq RecsOf(hostBuf \o recs)
          /\ \A i \in 1 .. q :
               /\ Cut(recs, n, i) # <<>> /\ Rising(Cut(recs, n, i))
               /\ Cut(recs, n, i)[Len(Cut(recs, n, i))] \in RecsOf(hostBuf \o recs)
               /\ \A r \in RecsOf((hostBuf \o line)') : Cut(recs, n, i)[Len(Cut(recs, n, i))] < r
      BY <1>1, StoreOrder, Zenon
    <2>2. ASSUME NEW b \in batches'
          PROVE  /\ b.recs # <<>> /\ Rising(b.recs) /\ b.recs[Len(b.recs)] <= handed'
                 /\ \A r \in RecsOf((hostBuf \o line)') : b.recs[Len(b.recs)] < r
      <3>1. CASE b \in under
        BY <2>1, <3>1, Zenon
      <3>2. CASE \E i \in 1 .. q : b = new(i)
        <4>1. PICK i \in 1 .. q : b = new(i)
          BY <3>2
        <4>2. b.recs = Cut(recs, n, i)
          BY <1>3, <4>1
        <4> QED BY <2>1, <4>1, <4>2, Zenon
      <3> QED BY <1>2, <2>2, <3>1, <3>2
    <2> QED BY <2>1, <2>2, Zenon DEF InOrder
  <1> QED BY <1>4, <1>5, <1>6, <1>7 DEF M4Inv

-----------------------------------------------------------------------------
(* The steps.                                                              *)

\* New records are behind all that were handed in before.
LEMMA ListBehind ==
    ASSUME NEW s \in Seq(Recs), NEW m \in Nat, NEW n \in Nat,
           m + n <= MaxRecs, MaxRecs \in Nat,
           Rising(s), \A r \in RecsOf(s) : r <= m
    PROVE  LET list == [i \in 1 .. n |-> m + i] IN
           /\ list \in Seq(Recs) /\ Rising(s \o list)
           /\ \A r \in RecsOf(s \o list) : r <= m + n /\ (r \in RecsOf(s) \/ m < r)
  <1> DEFINE list == [i \in 1 .. n |-> m + i]
             w == s \o list
  <1>1. list \in Seq(Recs) /\ Len(list) = n /\ \A i \in 1 .. n : list[i] = m + i
    BY DEF Recs
  <1>2. Len(s) \in Nat /\ RecsOf(s) = {s[i] : i \in 1 .. Len(s)} /\ \A i \in 1 .. Len(s) : s[i] \in Nat
    BY RecsOfSeq DEF Recs
  <1> HIDE DEF list
  <1>3. /\ w \in Seq(Recs) /\ Len(w) = Len(s) + Len(list)
        /\ \A i \in 1 .. Len(s) + Len(list) : w[i] = IF i <= Len(s) THEN s[i] ELSE list[i - Len(s)]
    BY <1>1, ConcatProperties, Zenon
  <1>4. RecsOf(w) = {w[i] : i \in 1 .. Len(w)}
    BY <1>3, RecsOfSeq, Zenon
  <1> HIDE DEF w
  <1>5. \A i \in 1 .. Len(w) : i <= Len(s) => w[i] = s[i] /\ i \in 1 .. Len(s) /\ w[i] <= m /\ w[i] \in Nat
    BY <1>1, <1>2, <1>3
  <1>6. \A i \in 1 .. Len(w) : ~(i <= Len(s)) => w[i] = m + (i - Len(s)) /\ i - Len(s) \in 1 .. n
    <2> SUFFICES ASSUME NEW i \in 1 .. Len(w), ~(i <= Len(s))
                 PROVE  w[i] = m + (i - Len(s)) /\ i - Len(s) \in 1 .. n
      OBVIOUS
    <2>1. i - Len(s) \in 1 .. n /\ i \in 1 .. Len(s) + Len(list)
      BY <1>1, <1>2, <1>3
    <2>2. w[i] = list[i - Len(s)]
      BY <1>3, <2>1
    <2> QED BY <1>1, <2>1, <2>2
  <1>7. Rising(w)
    <2> SUFFICES ASSUME NEW i \in 1 .. Len(w), NEW j \in 1 .. Len(w), i < j PROVE w[i] < w[j]
      BY DEF Rising
    <2>1. CASE j <= Len(s)
      <3>1. i <= Len(s)
        BY <1>1, <1>2, <1>3, <2>1
      <3> QED BY <1>5, <2>1, <3>1 DEF Rising
    <2>2. CASE ~(j <= Len(s)) /\ i <= Len(s)
      <3>1. w[i] <= m /\ w[i] \in Nat
        BY <1>5, <2>2
      <3>2. w[j] = m + (j - Len(s)) /\ j - Len(s) \in 1 .. n
        BY <1>6, <2>2
      <3> QED BY <3>1, <3>2
    <2>3. CASE ~(j <= Len(s)) /\ ~(i <= Len(s))
      BY <1>1, <1>2, <1>3, <1>6, <2>3
    <2> QED BY <2>1, <2>2, <2>3
  <1>8. ASSUME NEW r \in RecsOf(w) PROVE r <= m + n /\ (r \in RecsOf(s) \/ m < r)
    <2>1. PICK i \in 1 .. Len(w) : r = w[i]
      BY <1>4
    <2>2. CASE i <= Len(s)
      BY <1>2, <1>5, <2>1, <2>2
    <2>3. CASE ~(i <= Len(s))
      BY <1>2, <1>6, <2>1, <2>3
    <2> QED BY <2>2, <2>3
  <1> QED BY <1>1, <1>7, <1>8 DEF w, list

LEMMA AddMetaListKeeps ==
    ASSUME Msg4Assumption, M4Inv, AddMetaList
    PROVE  M4Inv'
  <1>1. PICK n \in 1 .. MaxRecs - handed :
          LET list == [i \in 1 .. n |-> handed + i] IN
          /\ handed' = handed + n
          /\ IF line # <<>>
             THEN /\ line' = line \o list
                  /\ UNCHANGED <<hostBuf, stored, batches, overlap, noMem>>
             ELSE Store(list, batches)
          /\ UNCHANGED <<plain, got, last, dropped, exits>>
    BY DEF AddMetaList
  <1> DEFINE list == [i \in 1 .. n |-> handed + i]
             w == hostBuf \o line
  <1>2. /\ M4Typed /\ AnsweredHas /\ AddsKept /\ InOrder
        /\ handed \in Nat /\ MaxRecs \in Nat /\ n \in Nat /\ handed + n <= MaxRecs
        /\ handed' = handed + n /\ handed' \in 0 .. MaxRecs
        /\ hostBuf \in Seq(Recs) /\ line \in Seq(Recs)
    BY <1>1, Msg4Constants DEF M4Inv, M4Typed
  <1>3. w \in Seq(Recs)
    BY <1>2, ConcatProperties
  <1>4. /\ list \in Seq(Recs) /\ Rising(w \o list)
        /\ \A r \in RecsOf(w \o list) : r <= handed + n /\ (r \in RecsOf(w) \/ handed < r)
    BY <1>2, <1>3, ListBehind, Zenon DEF InOrder
  <1>5. ASSUME NEW b \in batches
        PROVE  /\ b.recs # <<>> /\ Rising(b.recs) /\ b.recs[Len(b.recs)] <= handed'
               /\ \A r \in RecsOf(w \o list) : b.recs[Len(b.recs)] < r
    <2>1. /\ b.recs # <<>> /\ Rising(b.recs) /\ b.recs[Len(b.recs)] <= handed
          /\ \A r \in RecsOf(w) : b.recs[Len(b.recs)] < r
      BY <1>2, Zenon DEF InOrder
    <2>2. b.recs[Len(b.recs)] \in Nat
      <3>1. b.recs \in Seq(Recs)
        BY <1>2 DEF M4Typed, Batch
      <3> QED BY <2>1, <3>1 DEF Recs
    <2>3. \A r \in RecsOf(w \o list) : r \in Nat
      <3>1. w \o list \in Seq(Recs)
        BY <1>3, <1>4, ConcatProperties, Zenon
      <3>2. RecsOf(w \o list) \subseteq Recs
        BY <3>1, RecsOfSeq, Zenon
      <3> QED BY <3>2 DEF Recs
    <2>4. b.recs[Len(b.recs)] <= handed'
      BY <1>2, <2>1, <2>2
    <2>5. ASSUME NEW r \in RecsOf(w \o list) PROVE b.recs[Len(b.recs)] < r
      BY <1>2, <1>4, <2>1, <2>2, <2>3
    <2> QED BY <2>1, <2>4, <2>5
  <1>6. CASE line # <<>>
    <2>1. line' = line \o list /\ UNCHANGED <<hostBuf, stored, batches, overlap, noMem, plain, got, last, dropped, exits>>
      BY <1>1, <1>6, Zenon
    <2>2. (hostBuf \o line)' = w \o list
      <3>1. w \o list = hostBuf \o (line \o list)
        <4>1. hostBuf \in Seq(Recs) /\ line \in Seq(Recs) /\ list \in Seq(Recs)
          BY <1>2, <1>4
        <4> HIDE DEF list
        <4> QED BY <4>1, ConcatAssociative
      <3>2. (hostBuf \o line)' = hostBuf \o (line \o list)
        BY <2>1
      <3> QED BY <3>1, <3>2, Zenon
    <2>3. line' \in Seq(Recs)
      BY <1>2, <1>4, <2>1, ConcatProperties, Zenon
    <2>4. M4Typed'
      BY <1>2, <2>1, <2>3 DEF M4Typed, Recs, Batch, Plain
    <2>5. AnsweredHas' /\ AddsKept'
      BY <1>2, <2>1 DEF AnsweredHas, AddsKept
    <2>6. InOrder'
      BY <1>2, <1>4, <1>5, <2>1, <2>2, Zenon DEF InOrder
    <2> QED BY <2>4, <2>5, <2>6 DEF M4Inv
  <1>7. CASE line = <<>>
    <2>1. Store(list, batches) /\ UNCHANGED <<plain, got, last, dropped, exits>>
      BY <1>1, <1>7
    <2>2. w = hostBuf
      BY <1>2, <1>7, ConcatEmptySeq
    <2>3. Rising(hostBuf \o list) /\ \A r \in RecsOf(hostBuf \o list) : r <= handed'
      BY <1>2, <1>4, <2>2
    <2>4. \A b \in batches :
            /\ b.recs # <<>> /\ Rising(b.recs) /\ b.recs[Len(b.recs)] <= handed'
            /\ \A r \in RecsOf(hostBuf \o list) : b.recs[Len(b.recs)] < r
      BY <1>5, <2>2, Zenon
    <2> HIDE DEF list, w
    <2>5. batches \in SUBSET batches
      OBVIOUS
    <2>6. \A r \in stored, t \in Twins :
             \/ r \in got[t] \/ r \in dropped[t]
             \/ r \in RecsOf(hostBuf)
             \/ \E b \in batches : r \in RecsOf(b.recs) /\ b.at[t] # "done"
             \/ \E p \in plain : p.to = t /\ r \in RecsOf(p.recs)
      BY <1>2, Zenon DEF AddsKept
    <2> QED BY <1>2, <1>4, <2>1, <2>3, <2>4, <2>5, <2>6, StoreKeeps, Zenon
  <1> QED BY <1>6, <1>7


LEMMA FlushLocalKeeps ==
    ASSUME Msg4Assumption, M4Inv, FlushLocal
    PROVE  M4Inv'
  <1> DEFINE c == NewBatch(hostBuf)
             w == hostBuf \o line
  <1>1. /\ hostBuf # <<>> /\ Cardinality(batches) < MaxMcasts
        /\ batches' = batches \cup {c} /\ hostBuf' = <<>>
        /\ UNCHANGED <<handed, line, stored, plain, got, last, dropped, noMem, exits>>
    BY DEF FlushLocal, FlushDue
  <1>2. /\ M4Typed /\ AnsweredHas /\ AddsKept /\ InOrder
        /\ hostBuf \in Seq(Recs) /\ line \in Seq(Recs) /\ Len(hostBuf) \in Nat /\ Len(line) \in Nat
    BY DEF M4Inv, M4Typed
  <1>3. c.recs = hostBuf /\ (\A t \in Twins : c.at[t] = "sent") /\ c \in Batch
    BY <1>2 DEF NewBatch, Batch, Stage
  <1> HIDE DEF c
  <1>4. M4Typed'
    <2>1. IsFiniteSet(batches') /\ Cardinality(batches') <= MaxMcasts
      <3>1. IsFiniteSet(batches) /\ Cardinality(batches) \in Nat
        BY <1>2, FS_CardinalityType DEF M4Typed
      <3>2. /\ IsFiniteSet(batches \cup {c})
            /\ Cardinality(batches \cup {c}) =
                 IF c \in batches THEN Cardinality(batches) ELSE Cardinality(batches) + 1
        BY <3>1, FS_AddElement
      <3> QED BY <1>1, <3>1, <3>2, Msg4Constants
    <2>2. hostBuf' \in Seq(Recs) /\ Len(hostBuf') <= BufSize
      BY <1>1, Msg4Constants
    <2>3. overlap' \in BOOLEAN /\ UNCHANGED <<dropped, noMem>>
      BY <1>2, Zenon DEF FlushLocal, M4Typed
    <2> QED BY <1>1, <1>2, <1>3, <2>1, <2>2, <2>3 DEF M4Typed, Recs, Batch, Plain
  <1>5. AnsweredHas'
    BY <1>1, <1>2, <1>3 DEF AnsweredHas
  <1>6. AddsKept'
    <2> SUFFICES ASSUME NEW r \in stored', NEW t \in Twins
                 PROVE  \/ r \in got'[t] \/ r \in dropped'[t]
                        \/ \E b \in batches' : r \in RecsOf(b.recs) /\ b.at[t] # "done"
                        \/ \E p \in plain' : p.to = t /\ r \in RecsOf(p.recs)
      BY DEF AddsKept
    <2>1. CASE r \in RecsOf(hostBuf)
      BY <1>1, <1>3, <2>1
    <2>2. CASE r \notin RecsOf(hostBuf)
      BY <1>1, <1>2, <2>2 DEF AddsKept
    <2> QED BY <2>1, <2>2
  <1>7. InOrder'
    <2>1. /\ w \in Seq(Recs) /\ Len(w) = Len(hostBuf) + Len(line)
          /\ \A i \in 1 .. Len(hostBuf) + Len(line) :
               w[i] = IF i <= Len(hostBuf) THEN hostBuf[i] ELSE line[i - Len(hostBuf)]
      BY <1>2, ConcatProperties, Zenon
    <2>2. /\ RecsOf(w) = {w[i] : i \in 1 .. Len(w)} /\ RecsOf(line) = {line[i] : i \in 1 .. Len(line)}
      BY <1>2, <2>1, RecsOfSeq, Zenon
    <2>3. (hostBuf \o line)' = line
      <3>1. <<>> \o line = line
        BY <1>2, ConcatEmptySeq
      <3> QED BY <1>1, <3>1
    <2>4. Rising(w) /\ (\A r \in RecsOf(w) : r <= handed)
          /\ \A b \in batches : /\ b.recs # <<>> /\ Rising(b.recs) /\ b.recs[Len(b.recs)] <= handed
                                /\ \A r \in RecsOf(w) : b.recs[Len(b.recs)] < r
      BY <1>2, Zenon DEF InOrder
    <2> HIDE DEF w
    <2>5. \A i \in 1 .. Len(hostBuf) : i \in 1 .. Len(w) /\ w[i] = hostBuf[i]
      BY <1>2, <2>1
    <2>6. \A i \in 1 .. Len(line) : Len(hostBuf) + i \in 1 .. Len(w) /\ w[Len(hostBuf) + i] = line[i]
      <3> SUFFICES ASSUME NEW i \in 1 .. Len(line)
                   PROVE  Len(hostBuf) + i \in 1 .. Len(w) /\ w[Len(hostBuf) + i] = line[i]
        OBVIOUS
      <3>1. /\ Len(hostBuf) + i \in 1 .. Len(hostBuf) + Len(line) /\ ~(Len(hostBuf) + i <= Len(hostBuf))
            /\ (Len(hostBuf) + i) - Len(hostBuf) = i
        BY <1>2
      <3> QED BY <2>1, <3>1
    <2>7. Rising(hostBuf)
      BY <2>4, <2>5 DEF Rising
    <2>8. Rising(line)
      <3> SUFFICES ASSUME NEW i \in 1 .. Len(line), NEW j \in 1 .. Len(line), i < j PROVE line[i] < line[j]
        BY DEF Rising
      <3>1. Len(hostBuf) + i < Len(hostBuf) + j
        BY <1>2
      <3> QED BY <2>4, <2>6, <3>1 DEF Rising
    <2>9. RecsOf(line) \subseteq RecsOf(w)
      BY <2>2, <2>6
    <2> DEFINE e == Len(hostBuf)
    <2>10. e \in 1 .. Len(w) /\ hostBuf[e] = w[e] /\ e \in Nat
      BY <1>1, <1>2, <2>5
    <2>11. hostBuf[e] <= handed
      BY <2>2, <2>4, <2>10
    <2>12. ASSUME NEW r \in RecsOf(line) PROVE hostBuf[e] < r
      <3>1. PICK i \in 1 .. Len(line) : line[i] = r
        BY <2>2
      <3>2. e < e + i
        BY <2>10
      <3> QED BY <2>4, <2>6, <2>10, <3>1, <3>2 DEF Rising
    <2>13. ASSUME NEW b \in batches'
           PROVE  /\ b.recs # <<>> /\ Rising(b.recs) /\ b.recs[Len(b.recs)] <= handed'
                  /\ \A r \in RecsOf(line) : b.recs[Len(b.recs)] < r
      <3>1. CASE b \in batches
        BY <1>1, <2>4, <2>9, <3>1
      <3>2. CASE b = c
        BY <1>1, <1>3, <2>7, <2>11, <2>12, <3>2
      <3> QED BY <1>1, <2>13, <3>1, <3>2
    <2> QED BY <1>1, <2>3, <2>4, <2>8, <2>9, <2>13 DEF InOrder
  <1> QED BY <1>4, <1>5, <1>6, <1>7 DEF M4Inv


\* A request whose records stay takes the next stage at one twin or at some: no
\* harm, when the twins that are done with it have the records.
LEMMA StageKeeps ==
    ASSUME Msg4Assumption, M4Inv, NEW b \in batches, NEW c \in Batch, c.recs = b.recs,
           batches' = (batches \ {b}) \cup {c},
           UNCHANGED <<handed, line, hostBuf, stored, plain, overlap, noMem, exits>>,
           got' \in [Twins -> SUBSET Recs], last' \in [Twins -> 0 .. MaxRecs],
           dropped' \in [Twins -> SUBSET Recs],
           \A t \in Twins : got[t] \subseteq got'[t] /\ dropped[t] \subseteq dropped'[t],
           \A t \in Twins :
             /\ c.at[t] = "added" => RecsOf(c.recs) \subseteq got'[t]
             /\ c.at[t] = "done" => RecsOf(c.recs) \subseteq got'[t] \cup dropped'[t]
    PROVE  M4Inv'
  <1>1. M4Typed /\ AnsweredHas /\ AddsKept /\ InOrder
    BY DEF M4Inv
  <1>2. M4Typed'
    <2>1. IsFiniteSet(batches) /\ Cardinality(batches) \in Nat /\ Cardinality(batches) <= MaxMcasts
      BY <1>1, FS_CardinalityType DEF M4Typed
    <2>2. IsFiniteSet(batches \ {b}) /\ Cardinality(batches \ {b}) = Cardinality(batches) - 1
      BY <2>1, FS_RemoveElement
    <2>3. /\ IsFiniteSet((batches \ {b}) \cup {c})
          /\ Cardinality((batches \ {b}) \cup {c}) =
               IF c \in batches \ {b} THEN Cardinality(batches \ {b}) ELSE Cardinality(batches \ {b}) + 1
      BY <2>2, FS_AddElement
    <2>4. IsFiniteSet(batches') /\ Cardinality(batches') <= MaxMcasts
      BY <2>1, <2>2, <2>3, Msg4Constants
    <2> QED BY <1>1, <2>4 DEF M4Typed, Recs, Batch, Plain
  <1>3. AnsweredHas'
    BY <1>1 DEF AnsweredHas
  <1>4. AddsKept'
    <2> SUFFICES ASSUME NEW r \in stored, NEW t \in Twins
                 PROVE  \/ r \in got'[t] \/ r \in dropped'[t] \/ r \in RecsOf(hostBuf)
                        \/ \E d \in batches' : r \in RecsOf(d.recs) /\ d.at[t] # "done"
                        \/ \E p \in plain : p.to = t /\ r \in RecsOf(p.recs)
      BY DEF AddsKept
    <2>1. CASE \E d \in batches : r \in RecsOf(d.recs) /\ d.at[t] # "done"
      <3>1. PICK d \in batches : r \in RecsOf(d.recs) /\ d.at[t] # "done"
        BY <2>1
      <3>2. CASE d = b
        <4>1. CASE c.at[t] = "done"
          BY <3>1, <3>2, <4>1
        <4>2. CASE c.at[t] # "done"
          BY <3>1, <3>2, <4>2
        <4> QED BY <4>1, <4>2
      <3>3. CASE d # b
        BY <3>1, <3>3
      <3> QED BY <3>2, <3>3
    <2>2. CASE ~ \E d \in batches : r \in RecsOf(d.recs) /\ d.at[t] # "done"
      BY <1>1, <2>2 DEF AddsKept
    <2> QED BY <2>1, <2>2
  <1>5. InOrder'
    BY <1>1 DEF InOrder
  <1> QED BY <1>2, <1>3, <1>4, <1>5 DEF M4Inv

\* The twins of a request that is at stage s at twin t.
LEMMA AtFacts ==
    ASSUME M4Typed, NEW b \in batches, NEW t \in Twins, NEW s \in Stage
    PROVE  LET c == [b EXCEPT !.at[t] = s] IN
           /\ c \in Batch /\ c.recs = b.recs
           /\ At(b, t, s) = (batches \ {b}) \cup {c}
           /\ \A u \in Twins : c.at[u] = IF u = t THEN s ELSE b.at[u]
           /\ b.recs \in Seq(Recs)
  BY DEF At, M4Typed, Batch

LEMMA AtIs ==
    ASSUME M4Typed, NEW b \in batches, NEW t \in Twins, NEW s \in Stage, batches' = At(b, t, s)
    PROVE  \E c \in Batch : /\ c.recs = b.recs /\ batches' = (batches \ {b}) \cup {c}
                            /\ \A u \in Twins : c.at[u] = IF u = t THEN s ELSE b.at[u]
  <1> DEFINE c == [b EXCEPT !.at[t] = s]
  <1>1. c \in Batch /\ c.recs = b.recs /\ At(b, t, s) = (batches \ {b}) \cup {c}
    BY AtFacts
  <1>2. \A u \in Twins : c.at[u] = IF u = t THEN s ELSE b.at[u]
    <2>1. b \in Batch
      BY DEF M4Typed
    <2> QED BY <2>1 DEF Batch
  <1> QED BY <1>1, <1>2

\* What Rdb::addList() leaves of the first n records at a twin.
LEMMA AddedFacts ==
    ASSUME Msg4Assumption, M4Typed, NEW t \in Twins, NEW recs \in Seq(Recs), NEW n \in 0 .. Len(recs),
           Added(t, recs, n)
    PROVE  /\ got' \in [Twins -> SUBSET Recs] /\ last' \in [Twins -> 0 .. MaxRecs]
           /\ \A u \in Twins : got[u] \subseteq got'[u]
           /\ n = Len(recs) => RecsOf(recs) \subseteq got'[t]
  <1>1. /\ SubSeq(recs, 1, n) \in Seq(Recs) /\ RecsOf(SubSeq(recs, 1, n)) \subseteq Recs
    BY FirstOfRecs, RecsOfSeq, Zenon
  <1>2. got' = [got EXCEPT ![t] = got[t] \cup RecsOf(SubSeq(recs, 1, n))]
    BY DEF Added
  <1>3. last' = [last EXCEPT ![t] = IF n = 0 THEN last[t] ELSE recs[n]]
    BY DEF Added
  <1>4. last' \in [Twins -> 0 .. MaxRecs]
    <2>1. (IF n = 0 THEN last[t] ELSE recs[n]) \in 0 .. MaxRecs
      BY Msg4Constants DEF M4Typed, Recs
    <2> QED BY <1>3, <2>1 DEF M4Typed
  <1>5. got' \in [Twins -> SUBSET Recs] /\ \A u \in Twins : got[u] \subseteq got'[u]
    BY <1>1, <1>2 DEF M4Typed
  <1>6. ASSUME n = Len(recs) PROVE RecsOf(recs) \subseteq got'[t]
    <2>1. SubSeq(recs, 1, n) = recs
      BY <1>6, SubSeqFull
    <2> QED BY <1>2, <2>1 DEF M4Typed
  <1> QED BY <1>4, <1>5, <1>6

LEMMA HandleRequest4Keeps ==
    ASSUME Msg4Assumption, M4Inv, NEW b \in batches, NEW t \in Twins, HandleRequest4(b, t)
    PROVE  M4Inv'
  <1>1. PICK n \in 0 .. Len(b.recs), s \in Stage :
          /\ Added(t, b.recs, n)
          /\ s = IF n = Len(b.recs) THEN "added" ELSE "refused"
          /\ batches' = At(b, t, s)
    BY DEF HandleRequest4, Stage
  <1> DEFINE c == [b EXCEPT !.at[t] = s]
  <1>2. M4Typed /\ AnsweredHas /\ s \in Stage
        /\ UNCHANGED <<handed, line, hostBuf, stored, plain, overlap, dropped, noMem, exits>>
    BY DEF M4Inv, HandleRequest4
  <1>3. /\ c \in Batch /\ c.recs = b.recs /\ batches' = (batches \ {b}) \cup {c}
        /\ \A u \in Twins : c.at[u] = IF u = t THEN s ELSE b.at[u]
        /\ b.recs \in Seq(Recs)
    <2>1. M4Typed /\ s \in Stage
      BY <1>2
    <2>2. batches' = At(b, t, s)
      BY <1>1
    <2>3. c \in Batch /\ c.recs = b.recs /\ b.recs \in Seq(Recs)
      BY <2>1, AtFacts
    <2>4. At(b, t, s) = (batches \ {b}) \cup {c}
      BY <2>1, AtFacts
    <2>5. \A u \in Twins : c.at[u] = IF u = t THEN s ELSE b.at[u]
      <3>1. b \in Batch
        BY <2>1 DEF M4Typed
      <3> QED BY <3>1 DEF Batch
    <2> QED BY <2>2, <2>3, <2>4, <2>5
  <1>4. /\ got' \in [Twins -> SUBSET Recs] /\ last' \in [Twins -> 0 .. MaxRecs]
        /\ \A u \in Twins : got[u] \subseteq got'[u]
        /\ n = Len(b.recs) => RecsOf(b.recs) \subseteq got'[t]
    BY <1>1, <1>2, <1>3, AddedFacts
  <1>5. s = "refused" \/ (s = "added" /\ n = Len(b.recs))
    BY <1>1
  <1>7. dropped' = dropped /\ dropped \in [Twins -> SUBSET Recs]
    BY <1>2 DEF M4Typed
  <1> HIDE DEF c
  <1>6. \A u \in Twins : /\ c.at[u] = "added" => RecsOf(c.recs) \subseteq got'[u]
                         /\ c.at[u] = "done" => RecsOf(c.recs) \subseteq got'[u] \cup dropped'[u]
    BY <1>2, <1>3, <1>4, <1>5, <1>7 DEF AnsweredHas
  <1> QED BY <1>2, <1>3, <1>4, <1>6, <1>7, StageKeeps

LEMMA TwinRestartsKeeps ==
    ASSUME Msg4Assumption, M4Inv, NEW b \in batches, NEW t \in Twins, TwinRestarts(b, t)
    PROVE  M4Inv'
  <1>1. M4Typed /\ AnsweredHas /\ "sent" \in Stage /\ batches' = At(b, t, "sent")
        /\ UNCHANGED <<handed, line, hostBuf, stored, plain, got, last, overlap, dropped, noMem, exits>>
    BY DEF M4Inv, Stage, TwinRestarts
  <1>2. PICK c \in Batch : /\ c.recs = b.recs /\ batches' = (batches \ {b}) \cup {c}
                           /\ \A u \in Twins : c.at[u] = IF u = t THEN "sent" ELSE b.at[u]
    BY <1>1, AtIs
  <1>3. \A u \in Twins : /\ c.at[u] = "added" => RecsOf(c.recs) \subseteq got'[u]
                         /\ c.at[u] = "done" => RecsOf(c.recs) \subseteq got'[u] \cup dropped'[u]
    BY <1>1, <1>2 DEF AnsweredHas
  <1>4. /\ got' \in [Twins -> SUBSET Recs] /\ last' \in [Twins -> 0 .. MaxRecs]
        /\ dropped' \in [Twins -> SUBSET Recs]
        /\ \A u \in Twins : got[u] \subseteq got'[u] /\ dropped[u] \subseteq dropped'[u]
    BY <1>1 DEF M4Typed
  <1> QED BY <1>1, <1>2, <1>3, <1>4, StageKeeps

\* The error is put down to the twin itself, or to one that is done: then the
\* records are given up for the twin, and the other is asked again.
RefusedAs(b, t, c) ==
    /\ c.recs = b.recs /\ batches' = (batches \ {b}) \cup {c}
    /\ \/ /\ dropped' = dropped
          /\ \A v \in Twins : c.at[v] = IF v = t THEN "again" ELSE b.at[v]
       \/ /\ dropped' = [dropped EXCEPT ![t] = dropped[t] \cup RecsOf(b.recs)]
          /\ \E u \in Twins :
               /\ b.at[u] = "done" /\ u # t
               /\ \A v \in Twins : c.at[v] = IF v = u THEN "again"
                                            ELSE IF v = t THEN "done" ELSE b.at[v]

LEMMA RefusalIs ==
    ASSUME M4Typed, NEW b \in batches, NEW t \in Twins, GotRefusal(b, t)
    PROVE  \E c \in Batch : RefusedAs(b, t, c)
  <1>1. b \in Batch /\ b.at[t] = "refused" /\ {"again", "done"} \subseteq Stage
    BY DEF M4Typed, GotRefusal, Stage
  <1>2. CASE batches' = At(b, t, "again") /\ UNCHANGED dropped
    <2>1. PICK c \in Batch : /\ c.recs = b.recs /\ batches' = (batches \ {b}) \cup {c}
                             /\ \A u \in Twins : c.at[u] = IF u = t THEN "again" ELSE b.at[u]
      BY <1>1, <1>2, AtIs
    <2> QED BY <1>2, <2>1 DEF RefusedAs
  <1>3. ASSUME NEW u \in Twins, b.at[u] = "done",
               batches' = (batches \ {b}) \cup
                 {[b EXCEPT !.at = [@ EXCEPT ![t] = "done", ![u] = "again"]]},
               dropped' = [dropped EXCEPT ![t] = @ \cup RecsOf(b.recs)]
        PROVE  \E c \in Batch : RefusedAs(b, t, c)
    <2> DEFINE at == [b.at EXCEPT ![t] = "done", ![u] = "again"]
               c  == [b EXCEPT !.at = at]
    <2>1. u # t
      BY <1>1, <1>3
    <2>2. /\ at \in [Twins -> Stage]
          /\ \A v \in Twins : at[v] = IF v = u THEN "again" ELSE IF v = t THEN "done" ELSE b.at[v]
      BY <1>1, <2>1 DEF Batch
    <2>3. batches' = (batches \ {b}) \cup {c}
      BY <1>3
    <2> HIDE DEF at
    <2>4. c \in Batch /\ c.recs = b.recs /\ c.at = at
      BY <1>1, <2>2 DEF Batch
    <2> HIDE DEF c
    <2>5. RefusedAs(b, t, c)
      BY <1>3, <2>1, <2>2, <2>3, <2>4 DEF RefusedAs
    <2> QED BY <2>4, <2>5
  <1> QED BY <1>2, <1>3 DEF GotRefusal

LEMMA GotRefusalKeeps ==
    ASSUME Msg4Assumption, M4Inv, NEW b \in batches, NEW t \in Twins, GotRefusal(b, t)
    PROVE  M4Inv'
  <1>1. M4Typed /\ AnsweredHas /\ b.at[t] = "refused"
        /\ UNCHANGED <<handed, line, hostBuf, stored, plain, got, last, overlap, noMem, exits>>
    BY DEF M4Inv, GotRefusal
  <1>2. PICK c \in Batch : RefusedAs(b, t, c)
    BY <1>1, RefusalIs
  <1>3. c.recs = b.recs /\ batches' = (batches \ {b}) \cup {c}
    BY <1>2 DEF RefusedAs
  <1>4. /\ got \in [Twins -> SUBSET Recs] /\ last \in [Twins -> 0 .. MaxRecs]
        /\ dropped \in [Twins -> SUBSET Recs] /\ RecsOf(b.recs) \in SUBSET Recs
    <2>1. b.recs \in Seq(Recs)
      BY <1>1 DEF M4Typed, Batch
    <2>2. RecsOf(b.recs) \subseteq Recs
      BY <2>1, RecsOfSeq, Zenon
    <2> QED BY <1>1, <2>2 DEF M4Typed
  <1>5. \/ dropped' = dropped
        \/ dropped' = [dropped EXCEPT ![t] = dropped[t] \cup RecsOf(b.recs)]
    BY <1>2 DEF RefusedAs
  <1>6. /\ dropped' \in [Twins -> SUBSET Recs]
        /\ \A u \in Twins : dropped[u] \subseteq dropped'[u]
    BY <1>4, <1>5
  <1>7. ASSUME NEW v \in Twins
        PROVE  /\ c.at[v] = "added" => RecsOf(c.recs) \subseteq got'[v]
               /\ c.at[v] = "done" => RecsOf(c.recs) \subseteq got'[v] \cup dropped'[v]
    <2>1. \/ c.at[v] = "again" \/ c.at[v] = b.at[v]
          \/ c.at[v] = "done" /\ RecsOf(b.recs) \subseteq dropped'[v]
      BY <1>2, <1>4 DEF RefusedAs
    <2> QED BY <1>1, <1>3, <1>6, <2>1 DEF AnsweredHas
  <1> QED BY <1>1, <1>3, <1>4, <1>6, <1>7, StageKeeps

LEMMA ResendBatchKeeps ==
    ASSUME Msg4Assumption, M4Inv, NEW b \in batches, ResendBatch(b)
    PROVE  M4Inv'
  <1> DEFINE at == [t \in Twins |-> IF b.at[t] = "again" THEN "sent" ELSE b.at[t]]
             c == [b EXCEPT !.at = at]
  <1>1. M4Typed /\ AnsweredHas /\ batches' = (batches \ {b}) \cup {c}
        /\ UNCHANGED <<handed, line, hostBuf, stored, plain, got, last, overlap, dropped, noMem, exits>>
    BY DEF M4Inv, ResendBatch
  <1>2. b \in Batch
    BY <1>1 DEF M4Typed
  <1>3. at \in [Twins -> Stage]
    BY <1>2 DEF Batch, Stage
  <1>4. \A u \in Twins : at[u] \in {"added", "done"} => b.at[u] = at[u]
    OBVIOUS
  <1> HIDE DEF at
  <1>5. c \in Batch /\ c.recs = b.recs /\ c.at = at
    BY <1>2, <1>3 DEF Batch
  <1> HIDE DEF c
  <1>6. \A u \in Twins : /\ c.at[u] = "added" => RecsOf(c.recs) \subseteq got'[u]
                         /\ c.at[u] = "done" => RecsOf(c.recs) \subseteq got'[u] \cup dropped'[u]
    BY <1>1, <1>4, <1>5 DEF AnsweredHas
  <1>7. /\ got' \in [Twins -> SUBSET Recs] /\ last' \in [Twins -> 0 .. MaxRecs]
        /\ dropped' \in [Twins -> SUBSET Recs]
        /\ \A u \in Twins : got[u] \subseteq got'[u] /\ dropped[u] \subseteq dropped'[u]
    BY <1>1 DEF M4Typed
  <1> QED BY <1>1, <1>5, <1>6, <1>7, StageKeeps

LEMMA GotReplyKeeps ==
    ASSUME Msg4Assumption, M4Inv, NEW b \in batches, NEW t \in Twins, GotReply(b, t)
    PROVE  M4Inv'
  <1>1. /\ M4Typed /\ AnsweredHas /\ AddsKept /\ InOrder
        /\ b.at[t] = "added" /\ RecsOf(b.recs) \subseteq got[t]
        /\ UNCHANGED <<handed, plain, got, last, dropped, exits>>
    BY DEF M4Inv, GotReply, AnsweredHas
  <1>2. CASE \A u \in Twins \ {t} : b.at[u] = "done"
    <2> DEFINE rest == batches \ {b}
    <2>1. Store(line, rest)
      BY <1>2 DEF GotReply
    <2>2. line \in Seq(Recs) /\ handed' \in 0 .. MaxRecs /\ handed' = handed
      BY <1>1 DEF M4Typed
    <2>3. \A u \in Twins : RecsOf(b.recs) \subseteq got[u] \cup dropped[u]
      BY <1>1, <1>2 DEF AnsweredHas
    <2>4. \A r \in stored, u \in Twins :
             \/ r \in got[u] \/ r \in dropped[u]
             \/ r \in RecsOf(hostBuf)
             \/ \E d \in rest : r \in RecsOf(d.recs) /\ d.at[u] # "done"
             \/ \E p \in plain : p.to = u /\ r \in RecsOf(p.recs)
      BY <1>1, <2>3 DEF AddsKept
    <2>5. /\ Rising(hostBuf \o line) /\ \A r \in RecsOf(hostBuf \o line) : r <= handed'
          /\ \A d \in rest :
               /\ d.recs # <<>> /\ Rising(d.recs) /\ d.recs[Len(d.recs)] <= handed'
               /\ \A r \in RecsOf(hostBuf \o line) : d.recs[Len(d.recs)] < r
      BY <1>1, <2>2, Zenon DEF InOrder
    <2>6. rest \in SUBSET batches
      OBVIOUS
    <2> HIDE DEF rest
    <2> QED BY <1>1, <2>1, <2>2, <2>4, <2>5, <2>6, StoreKeeps, Zenon
  <1>3. CASE ~ \A u \in Twins \ {t} : b.at[u] = "done"
    <2>1. PICK s \in {"done"} : batches' = At(b, t, s) /\ UNCHANGED <<line, hostBuf, stored, overlap, noMem>>
      BY <1>3 DEF GotReply
    <2> DEFINE c == [b EXCEPT !.at[t] = s]
    <2>2. /\ c \in Batch /\ c.recs = b.recs /\ batches' = (batches \ {b}) \cup {c}
          /\ \A u \in Twins : c.at[u] = IF u = t THEN s ELSE b.at[u]
      <3>1. s \in Stage
        BY DEF Stage
      <3>2. M4Typed /\ batches' = At(b, t, s)
        BY <1>1, <2>1
      <3> QED BY <3>1, <3>2, AtFacts
    <2> HIDE DEF c
    <2>3. \A u \in Twins : /\ c.at[u] = "added" => RecsOf(c.recs) \subseteq got'[u]
                           /\ c.at[u] = "done" => RecsOf(c.recs) \subseteq got'[u] \cup dropped'[u]
      BY <1>1, <2>2 DEF AnsweredHas
    <2>4. /\ got' \in [Twins -> SUBSET Recs] /\ last' \in [Twins -> 0 .. MaxRecs]
          /\ dropped' \in [Twins -> SUBSET Recs]
          /\ \A u \in Twins : got[u] \subseteq got'[u] /\ dropped[u] \subseteq dropped'[u]
      BY <1>1 DEF M4Typed
    <2> QED BY <1>1, <2>1, <2>2, <2>3, <2>4, StageKeeps
  <1> QED BY <1>2, <1>3


\* A reloaded request stays, or goes for good, whatever the twin has made of it.
LEMMA HandlePlainKeeps ==
    ASSUME Msg4Assumption, M4Inv, NEW p \in plain, HandlePlain(p)
    PROVE  M4Inv'
  <1> DEFINE t == p.to
             recs == p.recs
  <1>1. /\ M4Typed /\ AnsweredHas /\ AddsKept /\ InOrder
        /\ t \in Twins /\ recs \in Seq(Recs) /\ dropped \in [Twins -> SUBSET Recs]
    BY DEF M4Inv, M4Typed, Plain
  <1>2. PICK n \in 0 .. Len(recs) :
          /\ Added(t, recs, n)
          /\ \/ plain' = plain /\ dropped' = dropped
             \/ /\ plain' = plain \ {p}
                /\ dropped' = IF n = Len(recs) THEN dropped
                              ELSE [dropped EXCEPT ![t] = dropped[t] \cup RecsOf(recs)]
    BY DEF HandlePlain
  <1>3. UNCHANGED <<handed, line, hostBuf, stored, batches, overlap, noMem, exits>>
    BY DEF HandlePlain
  <1>4. RecsOf(recs) \subseteq Recs
    BY <1>1, RecsOfSeq
  <1> HIDE DEF recs, t
  <1>5. /\ got' \in [Twins -> SUBSET Recs] /\ last' \in [Twins -> 0 .. MaxRecs]
        /\ \A u \in Twins : got[u] \subseteq got'[u]
        /\ n = Len(recs) => RecsOf(recs) \subseteq got'[t]
    BY <1>1, <1>2, AddedFacts
  <1>6. /\ dropped' \in [Twins -> SUBSET Recs]
        /\ \A u \in Twins : dropped[u] \subseteq dropped'[u]
        /\ plain' = plain \/ (plain' = plain \ {p} /\ RecsOf(recs) \subseteq got'[t] \cup dropped'[t])
    BY <1>1, <1>2, <1>4, <1>5
  <1>7. M4Typed'
    BY <1>1, <1>3, <1>5, <1>6 DEF M4Typed, Recs, Batch, Plain
  <1>8. AnsweredHas' /\ InOrder'
    BY <1>1, <1>3, <1>5, <1>6 DEF AnsweredHas, InOrder
  <1>9. AddsKept'
    <2> SUFFICES ASSUME NEW r \in stored, NEW u \in Twins
                 PROVE  \/ r \in got'[u] \/ r \in dropped'[u] \/ r \in RecsOf(hostBuf)
                        \/ \E b \in batches : r \in RecsOf(b.recs) /\ b.at[u] # "done"
                        \/ \E o \in plain' : o.to = u /\ r \in RecsOf(o.recs)
      BY <1>3 DEF AddsKept
    <2>1. CASE \E o \in plain : o.to = u /\ r \in RecsOf(o.recs)
      <3>1. PICK o \in plain : o.to = u /\ r \in RecsOf(o.recs)
        BY <2>1
      <3>2. CASE o = p
        BY <1>6, <3>1, <3>2 DEF t, recs
      <3>3. CASE o # p
        BY <1>6, <3>1, <3>3
      <3> QED BY <3>2, <3>3
    <2>2. CASE ~ \E o \in plain : o.to = u /\ r \in RecsOf(o.recs)
      BY <1>1, <1>5, <1>6, <2>2 DEF AddsKept
    <2> QED BY <2>1, <2>2
  <1> QED BY <1>7, <1>8, <1>9 DEF M4Inv

\* What an exit gives up for a twin is what RecsFor says.
LEMMA GivenUp ==
    ASSUME NEW t \in Twins, NEW sent
    PROVE  /\ \A b \in batches : b.at[t] = "again" => RecsOf(b.recs) \subseteq RecsFor(t, batches, sent)
           /\ \A p \in sent : p.to = t => RecsOf(p.recs) \subseteq RecsFor(t, batches, sent)
           /\ \A r \in RecsFor(t, batches, sent) :
                \/ \E b \in batches : r \in RecsOf(b.recs)
                \/ \E p \in sent : r \in RecsOf(p.recs)
  <1> DEFINE bs == {b \in batches : b.at[t] = "again"}
             ps == {p \in sent : p.to = t}
             fb == {RecsOf(b.recs) : b \in bs}
             fp == {RecsOf(p.recs) : p \in ps}
  <1>1. RecsFor(t, batches, sent) = (UNION fb) \cup (UNION fp)
    BY DEF RecsFor
  <1>2. ASSUME NEW b \in batches, b.at[t] = "again" PROVE RecsOf(b.recs) \in fb
    BY <1>2
  <1>3. ASSUME NEW p \in sent, p.to = t PROVE RecsOf(p.recs) \in fp
    BY <1>3
  <1>4. \A x \in fb : \E b \in batches : x = RecsOf(b.recs)
    OBVIOUS
  <1>5. \A x \in fp : \E p \in sent : x = RecsOf(p.recs)
    OBVIOUS
  <1> HIDE DEF fb, fp
  <1>6. \A b \in batches : b.at[t] = "again" => RecsOf(b.recs) \subseteq RecsFor(t, batches, sent)
    BY <1>1, <1>2
  <1>7. \A p \in sent : p.to = t => RecsOf(p.recs) \subseteq RecsFor(t, batches, sent)
    BY <1>1, <1>3
  <1>8. ASSUME NEW r \in RecsFor(t, batches, sent)
        PROVE  \/ \E b \in batches : r \in RecsOf(b.recs)
               \/ \E p \in sent : r \in RecsOf(p.recs)
    <2>1. (\E x \in fb : r \in x) \/ (\E x \in fp : r \in x)
      BY <1>1
    <2> QED BY <1>4, <1>5, <2>1
  <1> QED BY <1>6, <1>7, <1>8

\* A request that is open at a twin is reloaded for it, or given up.
LEMMA SavedOrGivenUp ==
    ASSUME Msg4Assumption, M4Typed, ExitAndRestart
    PROVE  /\ plain' \in SUBSET Plain /\ dropped' \in [Twins -> SUBSET Recs]
           /\ \A p \in plain' : \E b \in batches : p.recs = b.recs
           /\ \A t \in Twins :
                /\ dropped[t] \subseteq dropped'[t]
                /\ \A p \in plain : p.to = t => RecsOf(p.recs) \subseteq dropped'[t]
                /\ \A b \in batches :
                     b.at[t] # "done" => \/ RecsOf(b.recs) \subseteq dropped'[t]
                                         \/ \E p \in plain' : p.to = t /\ p.recs = b.recs
  <1> DEFINE to(b) == {u \in Twins : b.at[u] \in {"sent", "added", "refused"}}
             of(b) == {[recs |-> b.recs, to |-> t] : t \in to(b)}
             lost  == plain \cup (Saved \ plain')
  <1>1. Saved = UNION {of(b) : b \in batches}
    BY Zenon DEF Saved
  <1>2. \A p \in Saved : \E b \in batches : p \in of(b)
    BY <1>1, Zenon
  <1>3. \A b \in batches : \A p \in of(b) : p \in Saved
    BY <1>1, Zenon
  <1>4. /\ plain' \subseteq Saved
        /\ dropped' = [t \in Twins |-> dropped[t] \cup RecsFor(t, batches, lost)]
    BY DEF ExitAndRestart
  <1>5. \A b \in batches : b.recs \in Seq(Recs) /\ RecsOf(b.recs) \subseteq Recs
    <2> SUFFICES ASSUME NEW b \in batches PROVE b.recs \in Seq(Recs) /\ RecsOf(b.recs) \subseteq Recs
      OBVIOUS
    <2>1. b.recs \in Seq(Recs)
      BY DEF M4Typed, Batch
    <2> QED BY <2>1, RecsOfSeq
  <1>6. ASSUME NEW p \in Saved
        PROVE  p \in Plain /\ RecsOf(p.recs) \subseteq Recs /\ \E b \in batches : p.recs = b.recs
    <2>1. PICK b \in batches : p \in of(b)
      BY <1>2
    <2>2. p \in Plain /\ p.recs = b.recs
      BY <1>5, <2>1 DEF Plain
    <2> QED BY <1>5, <2>2
  <1>7. ASSUME NEW p \in plain PROVE p \in Plain /\ RecsOf(p.recs) \subseteq Recs
    <2>1. p \in Plain /\ p.recs \in Seq(Recs)
      BY DEF M4Typed, Plain
    <2> QED BY <2>1, RecsOfSeq
  <1> HIDE DEF lost
  <1>8. ASSUME NEW t \in Twins PROVE RecsFor(t, batches, lost) \subseteq Recs
    <2>1. \A p \in lost : RecsOf(p.recs) \subseteq Recs
      BY <1>6, <1>7 DEF lost
    <2> QED BY <1>5, <2>1, GivenUp
  <1>9. dropped' \in [Twins -> SUBSET Recs] /\ \A t \in Twins : dropped[t] \subseteq dropped'[t]
    BY <1>4, <1>8 DEF M4Typed
  <1>10. ASSUME NEW t \in Twins, NEW p \in plain, p.to = t PROVE RecsOf(p.recs) \subseteq dropped'[t]
    <2>1. p \in lost
      BY DEF lost
    <2>2. RecsOf(p.recs) \subseteq RecsFor(t, batches, lost)
      BY <1>10, <2>1, GivenUp
    <2> QED BY <1>4, <2>2
  <1>11. ASSUME NEW t \in Twins, NEW b \in batches, b.at[t] # "done"
         PROVE  \/ RecsOf(b.recs) \subseteq dropped'[t]
                \/ \E p \in plain' : p.to = t /\ p.recs = b.recs
    <2>1. CASE b.at[t] = "again"
      <3>1. RecsOf(b.recs) \subseteq RecsFor(t, batches, lost)
        BY <2>1, GivenUp
      <3> QED BY <1>4, <3>1
    <2>2. CASE b.at[t] # "again"
      <3>1. b.at[t] \in Stage
        BY DEF M4Typed, Batch
      <3>2. t \in to(b)
        BY <1>11, <2>2, <3>1 DEF Stage
      <3> DEFINE p == [recs |-> b.recs, to |-> t]
      <3>3. p \in of(b) /\ p.to = t /\ p.recs = b.recs
        BY <3>2
      <3> HIDE DEF p, of
      <3>4. p \in Saved
        BY <1>3, <3>3
      <3>5. CASE p \in plain'
        BY <3>3, <3>5
      <3>6. CASE p \notin plain'
        <4>1. p \in lost
          BY <3>4, <3>6 DEF lost
        <4>2. RecsOf(b.recs) \subseteq RecsFor(t, batches, lost)
          BY <3>3, <4>1, GivenUp
        <4> QED BY <1>4, <4>2
      <3> QED BY <3>5, <3>6
    <2> QED BY <2>1, <2>2
  <1> QED BY <1>4, <1>6, <1>9, <1>10, <1>11

LEMMA ExitAndRestartKeeps ==
    ASSUME Msg4Assumption, M4Inv, ExitAndRestart
    PROVE  M4Inv'
  <1>1. /\ M4Typed /\ AnsweredHas /\ AddsKept /\ InOrder
        /\ exits' = exits + 1 /\ exits < MaxExits
        /\ batches' = {} /\ line' = <<>>
        /\ UNCHANGED <<handed, hostBuf, stored, got, last>>
        /\ noMem' = FALSE
    BY DEF M4Inv, ExitAndRestart
  <1>2. overlap' \in BOOLEAN
    BY <1>1, Zenon DEF ExitAndRestart, M4Typed
  <1>3. /\ plain' \in SUBSET Plain /\ dropped' \in [Twins -> SUBSET Recs]
        /\ \A t \in Twins :
             /\ dropped[t] \subseteq dropped'[t]
             /\ \A p \in plain : p.to = t => RecsOf(p.recs) \subseteq dropped'[t]
             /\ \A b \in batches :
                  b.at[t] # "done" => \/ RecsOf(b.recs) \subseteq dropped'[t]
                                      \/ \E p \in plain' : p.to = t /\ p.recs = b.recs
    BY <1>1, SavedOrGivenUp
  <1>4. M4Typed'
    <2>1. IsFiniteSet(batches') /\ Cardinality(batches') = 0
      BY <1>1, FS_EmptySet
    <2>2. exits' \in 0 .. MaxExits
      BY <1>1 DEF M4Typed, Msg4Assumption
    <2>3. line' \in Seq(Recs) /\ batches' \in SUBSET Batch /\ 0 <= MaxMcasts
      BY <1>1, Msg4Constants
    <2>4. noMem' \in BOOLEAN
      BY <1>1, Zenon
    <2> QED BY <1>1, <1>2, <1>3, <2>1, <2>2, <2>3, <2>4 DEF M4Typed, Recs, Plain
  <1>5. AnsweredHas'
    BY <1>1 DEF AnsweredHas
  <1>6. AddsKept'
    <2> SUFFICES ASSUME NEW r \in stored, NEW t \in Twins
                 PROVE  \/ r \in got[t] \/ r \in dropped'[t] \/ r \in RecsOf(hostBuf)
                        \/ \E p \in plain' : p.to = t /\ r \in RecsOf(p.recs)
      BY <1>1 DEF AddsKept
    <2>1. CASE \E b \in batches : r \in RecsOf(b.recs) /\ b.at[t] # "done"
      <3>1. PICK b \in batches : r \in RecsOf(b.recs) /\ b.at[t] # "done"
        BY <2>1
      <3>2. \/ RecsOf(b.recs) \subseteq dropped'[t]
            \/ \E p \in plain' : p.to = t /\ p.recs = b.recs
        BY <1>3, <3>1
      <3> QED BY <3>1, <3>2
    <2>2. CASE ~ \E b \in batches : r \in RecsOf(b.recs) /\ b.at[t] # "done"
      BY <1>1, <1>3, <2>2 DEF AddsKept
    <2> QED BY <2>1, <2>2
  <1>8. InOrder'
    <2> DEFINE w == hostBuf \o line
    <2>1. /\ hostBuf \in Seq(Recs) /\ line \in Seq(Recs) /\ Len(hostBuf) \in Nat /\ Len(line) \in Nat
      BY <1>1 DEF M4Typed
    <2>2. /\ w \in Seq(Recs) /\ Len(w) = Len(hostBuf) + Len(line)
          /\ \A i \in 1 .. Len(hostBuf) + Len(line) :
               w[i] = IF i <= Len(hostBuf) THEN hostBuf[i] ELSE line[i - Len(hostBuf)]
      BY <2>1, ConcatProperties, Zenon
    <2>3. RecsOf(w) = {w[i] : i \in 1 .. Len(w)} /\ RecsOf(hostBuf) = {hostBuf[i] : i \in 1 .. Len(hostBuf)}
      BY <2>1, <2>2, RecsOfSeq, Zenon
    <2>4. Rising(w) /\ \A r \in RecsOf(w) : r <= handed
      BY <1>1, Zenon DEF InOrder
    <2>5. (hostBuf \o line)' = hostBuf
      <3>1. hostBuf \o <<>> = hostBuf
        BY <2>1, ConcatEmptySeq
      <3> QED BY <1>1, <3>1
    <2> HIDE DEF w
    <2>6. \A i \in 1 .. Len(hostBuf) : i \in 1 .. Len(w) /\ w[i] = hostBuf[i]
      BY <2>1, <2>2
    <2>7. Rising(hostBuf) /\ \A r \in RecsOf(hostBuf) : r <= handed
      BY <2>3, <2>4, <2>6 DEF Rising
    <2> QED BY <1>1, <2>5, <2>7 DEF InOrder
  <1> QED BY <1>4, <1>5, <1>6, <1>8 DEF M4Inv

-----------------------------------------------------------------------------
(* The invariant and what it gives.                                        *)

LEMMA M4InvInit ==
    ASSUME Msg4Assumption, NEW n \in 0 .. MaxRecs, NEW e \in 0 .. MaxExits, Msg4InitWith(n, e)
    PROVE  M4Inv
  <1>1. /\ handed = n /\ line = <<>> /\ hostBuf = <<>> /\ stored = {} /\ batches = {} /\ plain = {}
        /\ got = [t \in Twins |-> {}] /\ last = [t \in Twins |-> 0] /\ overlap = FALSE /\ exits = e
        /\ dropped = [t \in Twins |-> {}] /\ noMem = FALSE
    BY DEF Msg4InitWith
  <1>2. M4Typed
    <2>1. IsFiniteSet({}) /\ Cardinality({}) = 0
      BY FS_EmptySet
    <2>2. /\ line \in Seq(Recs) /\ hostBuf \in Seq(Recs) /\ Len(hostBuf) <= BufSize
          /\ IsFiniteSet(batches) /\ Cardinality(batches) <= MaxMcasts
          /\ handed \in 0 .. MaxRecs
      BY <1>1, <2>1, Msg4Constants
    <2>3. exits \in 0 .. MaxExits /\ overlap \in BOOLEAN /\ noMem \in BOOLEAN
      <3>1. exits \in 0 .. MaxExits
        BY <1>1 DEF Msg4Assumption
      <3>2. overlap \in BOOLEAN /\ noMem \in BOOLEAN
        BY <1>1, Zenon
      <3> QED BY <3>1, <3>2
    <2>4. got \in [Twins -> SUBSET Recs] /\ dropped \in [Twins -> SUBSET Recs] /\ last \in [Twins -> 0 .. MaxRecs]
      BY <1>1, Msg4Constants
    <2> QED BY <1>1, <2>2, <2>3, <2>4 DEF M4Typed
  <1>3. AnsweredHas /\ AddsKept
    BY <1>1 DEF AnsweredHas, AddsKept
  <1>4. InOrder
    <2>1. hostBuf \o line = <<>>
      BY <1>1
    <2>2. Rising(<<>>) /\ RecsOf(<<>>) = {}
      BY DEF Rising, RecsOf
    <2> QED BY <1>1, <2>1, <2>2 DEF InOrder
  <1> QED BY <1>2, <1>3, <1>4 DEF M4Inv

LEMMA Msg4Begins == ASSUME Msg4Assumption, Msg4Init PROVE M4Inv
  <1>1. 0 \in 0 .. MaxRecs /\ 0 \in 0 .. MaxExits /\ Msg4InitWith(0, 0)
    BY DEF Msg4Assumption, Msg4Init
  <1> QED BY <1>1, M4InvInit, Zenon

LEMMA M4InvStep ==
    ASSUME Msg4Assumption, M4Inv, [Msg4Next]_m4Vars
    PROVE  M4Inv'
  <1>1. CASE AddMetaList
    BY <1>1, AddMetaListKeeps
  <1>2. CASE FlushLocal
    BY <1>2, FlushLocalKeeps
  <1>3. CASE ExitAndRestart
    BY <1>3, ExitAndRestartKeeps
  <1>4. CASE \E b \in batches : ResendBatch(b)
    BY <1>4, ResendBatchKeeps
  <1>5. CASE \E b \in batches, t \in Twins : \/ HandleRequest4(b, t) \/ TwinRestarts(b, t)
                                             \/ GotRefusal(b, t) \/ GotReply(b, t)
    BY <1>5, HandleRequest4Keeps, TwinRestartsKeeps, GotRefusalKeeps, GotReplyKeeps
  <1>6. CASE \E p \in plain : HandlePlain(p)
    BY <1>6, HandlePlainKeeps
  <1>7. CASE UNCHANGED m4Vars
    <2>1. UNCHANGED <<handed, line, hostBuf, stored, batches, plain, got, last, overlap, dropped, noMem, exits>>
      BY <1>7 DEF m4Vars
    <2>2. M4Typed'
      BY <2>1 DEF M4Inv, M4Typed, Recs, Batch, Plain
    <2>3. AnsweredHas' /\ AddsKept' /\ InOrder'
      BY <2>1 DEF M4Inv, AnsweredHas, AddsKept, InOrder
    <2> QED BY <2>2, <2>3 DEF M4Inv
  <1> QED BY <1>1, <1>2, <1>3, <1>4, <1>5, <1>6, <1>7 DEF Msg4Next

THEOREM M4InvHolds ==
    ASSUME Msg4Assumption
    PROVE  Msg4Spec => []M4Inv
  <1>1. Msg4Init => M4Inv
    BY Msg4Begins
  <1>2. M4Inv /\ [Msg4Next]_m4Vars => M4Inv'
    BY M4InvStep
  <1> QED BY <1>1, <1>2, PTL DEF Msg4Spec

\* The buffer never overflows and no more requests are under way than there are
\* Multicasts for.
THEOREM Msg4TypeCorrect ==
    ASSUME Msg4Assumption
    PROVE  Msg4Spec => []Msg4TypeOK
  <1>1. M4Inv => Msg4TypeOK
    BY DEF M4Inv, M4Typed, Msg4TypeOK, Batch, Plain
  <1> QED BY <1>1, M4InvHolds, PTL

\* A record that storeRec() has taken is with each twin or on its way there,
\* across refusals, resends, repeated requests, want of memory and restarts of
\* either side, but for the three cases that AddsKept names: there the request is
\* given up for the twin (dropped), and the code never sends it again.
THEOREM NothingTakenIsLost ==
    ASSUME Msg4Assumption
    PROVE  Msg4Spec => []AddsKept
  <1>1. M4Inv => AddsKept
    BY DEF M4Inv
  <1> QED BY <1>1, M4InvHolds, PTL

\* Records leave in the order in which addMetaList() was given them, however
\* they are cut into buffers and however long they had to wait in line.
THEOREM SentAsHandedIn ==
    ASSUME Msg4Assumption
    PROVE  Msg4Spec => []SentInOrder
  <1>1. ASSUME M4Inv PROVE SentInOrder
    <2>1. /\ Rising(hostBuf \o line)
          /\ \A b \in batches : Rising(b.recs) /\ \A r \in RecsOf(hostBuf \o line) : b.recs[Len(b.recs)] < r
      BY <1>1, Zenon DEF M4Inv, InOrder
    <2>2. hostBuf \o line \in Seq(Recs) /\ \A b \in batches : b.recs \in Seq(Recs)
      BY <1>1, ConcatProperties DEF M4Inv, M4Typed, Batch
    <2>3. \A s \in Seq(Recs) : Rising(s) => \A i \in 1 .. Len(s) - 1 : s[i] < s[i + 1]
      <3> SUFFICES ASSUME NEW s \in Seq(Recs), Rising(s), NEW i \in 1 .. Len(s) - 1
                   PROVE  s[i] < s[i + 1]
        OBVIOUS
      <3>1. i \in 1 .. Len(s) /\ i + 1 \in 1 .. Len(s) /\ i < i + 1
        OBVIOUS
      <3> QED BY <3>1 DEF Rising
    <2> QED BY <2>1, <2>2, <2>3, Zenon DEF SentInOrder
  <1> QED BY <1>1, M4InvHolds, PTL

-----------------------------------------------------------------------------
(* One request after the other.                                            *)

OneInFlight == /\ \A b, c \in batches : b = c
               /\ batches = {} \/ plain = {}

\* All that has been sent, in the requests under way or before them, goes up to
\* record m.  It is what a twin got last, unless a request is on its way there or one
\* was given up for it.
SentUpTo(m, next, under) ==
    /\ m # 0 => m \in stored
    /\ \A r \in stored : r <= m \/ r \in RecsOf(hostBuf)
    /\ \A r \in RecsOf(hostBuf \o next) : m < r
    /\ \A b \in under : b.recs[Len(b.recs)] = m
    /\ \A p \in plain : p.recs # <<>> /\ p.recs[Len(p.recs)] = m
    /\ \A t \in Twins : \/ last[t] = m \/ dropped[t] # {}
                        \/ \E b \in under : b.at[t] \notin {"added", "done"}
                        \/ \E p \in plain : p.to = t

SentInTurn == /\ RecsOf(hostBuf) \subseteq stored
              /\ ~overlap => OneInFlight /\ \E m \in 0 .. handed : SentUpTo(m, line, batches)

\* What storeRec() has gone through is stored.
LEMMA AllStored ==
    ASSUME Msg4Assumption, M4Typed, RecsOf(hostBuf) \subseteq stored,
           NEW recs \in Seq(Recs), NEW under \in SUBSET batches,
           NEW n \in 0 .. Len(recs), NEW q \in Nat, StoredAs(recs, under, n, q)
    PROVE  /\ \A k \in 1 .. Len(AllOf(recs, n)) : AllOf(recs, n)[k] \in stored'
           /\ RecsOf(hostBuf') \subseteq stored'
           /\ \A r \in stored' : \/ r \in stored
                                 \/ r \in RecsOf(hostBuf) \cup RecsOf(SubSeq(recs, 1, n))
  <1> DEFINE all == AllOf(recs, n)
             first == SubSeq(recs, 1, n)
             z == q * BufSize
  <1>1. /\ Len(all) = Len(hostBuf) + n
        /\ \A k \in 1 .. Len(hostBuf) + n :
             all[k] = IF k <= Len(hostBuf) THEN hostBuf[k] ELSE recs[k - Len(hostBuf)]
    BY AllFacts
  <1>2. first \in Seq(Recs) /\ Len(first) = n /\ \A k \in 1 .. n : first[k] = recs[k]
    BY FirstOfRecs
  <1>3. hostBuf \in Seq(Recs) /\ Len(hostBuf) \in Nat
    BY DEF M4Typed
  <1>4. /\ RecsOf(hostBuf) = {hostBuf[k] : k \in 1 .. Len(hostBuf)}
        /\ RecsOf(first) = {first[k] : k \in 1 .. Len(first)}
    BY <1>2, <1>3, RecsOfSeq, Zenon
  <1>5. stored' = stored \cup RecsOf(first)
    BY DEF StoredAs
  <1>6. /\ hostBuf' \in Seq(Recs) /\ Len(hostBuf') = Len(all) - z
        /\ \A k \in 1 .. Len(hostBuf') : hostBuf'[k] = all[z + k]
    BY RestRecs
  <1>7. z \in Nat
    BY DEF StoredAs
  <1> HIDE DEF all, first, z
  <1>8. ASSUME NEW k \in 1 .. Len(all) PROVE all[k] \in stored'
    <2>1. CASE k <= Len(hostBuf)
      BY <1>1, <1>3, <1>4, <1>5, <2>1
    <2>2. CASE ~(k <= Len(hostBuf))
      <3>1. k - Len(hostBuf) \in 1 .. n /\ all[k] = recs[k - Len(hostBuf)]
        BY <1>1, <1>3, <2>2
      <3>2. first[k - Len(hostBuf)] \in RecsOf(first)
        BY <1>2, <1>4, <3>1
      <3> QED BY <1>2, <1>5, <3>1, <3>2
    <2> QED BY <2>1, <2>2
  <1>9. RecsOf(hostBuf') \subseteq stored'
    <2>1. RecsOf(hostBuf') = {hostBuf'[k] : k \in 1 .. Len(hostBuf')}
      BY <1>6, RecsOfSeq, Zenon
    <2>2. \A k \in 1 .. Len(hostBuf') : z + k \in 1 .. Len(all)
      BY <1>1, <1>3, <1>6, <1>7
    <2> QED BY <1>6, <1>8, <2>1, <2>2
  <1> QED BY <1>5, <1>8, <1>9 DEF all, first

\* A full buffer that is sent makes its last record the last one sent.
LEMMA StoreInTurn ==
    ASSUME Msg4Assumption, M4Typed, M4Inv', RecsOf(hostBuf) \subseteq stored,
           NEW recs \in Seq(Recs), NEW under \in SUBSET batches, Store(recs, under),
           UNCHANGED <<plain, last, dropped>>, handed \in Nat, handed' \in Nat, handed <= handed',
           Rising(hostBuf \o recs),
           ~overlap => OneInFlight /\ \E m \in 0 .. handed : SentUpTo(m, recs, under)
    PROVE  SentInTurn'
  <1>1. PICK n \in 0 .. Len(recs), q \in Nat :
          /\ StoredAs(recs, under, n, q)
          /\ ~overlap' => ~overlap /\ (q = 0 \/ (q = 1 /\ under = {} /\ plain = {}))
    BY StoreCuts
  <1>2. /\ \A k \in 1 .. Len(AllOf(recs, n)) : AllOf(recs, n)[k] \in stored'
        /\ RecsOf(hostBuf') \subseteq stored'
        /\ \A r \in stored' : \/ r \in stored
                              \/ r \in RecsOf(hostBuf) \cup RecsOf(SubSeq(recs, 1, n))
    BY <1>1, AllStored
  <1>3. /\ RecsOf((hostBuf \o line)') \subseteq RecsOf(hostBuf \o recs)
        /\ \A i \in 1 .. q :
             /\ Cut(recs, n, i) # <<>> /\ Rising(Cut(recs, n, i))
             /\ Cut(recs, n, i)[Len(Cut(recs, n, i))] \in RecsOf(hostBuf \o recs)
             /\ \A r \in RecsOf((hostBuf \o line)') : Cut(recs, n, i)[Len(Cut(recs, n, i))] < r
    BY <1>1, StoreOrder
  <1>4. \A r \in RecsOf(hostBuf) \cup RecsOf(SubSeq(recs, 1, n)) :
          r \in RecsOf(hostBuf') \/ \E i \in 1 .. q : r \in RecsOf(Cut(recs, n, i))
    BY <1>1, StoreKeepsRecs
  <1>5. batches' = under \cup {NewBatch(Cut(recs, n, i)) : i \in 1 .. q}
    BY <1>1 DEF StoredAs
  <1> SUFFICES ASSUME ~overlap'
               PROVE  OneInFlight' /\ \E m \in 0 .. handed' : SentUpTo(m, line, batches)'
    BY <1>2, Zenon DEF SentInTurn
  <1>6. PICK m \in 0 .. handed : SentUpTo(m, recs, under)
    BY <1>1
  <1>7. OneInFlight
    BY <1>1
  <1>8. CASE q = 0
    <2>1. 1 .. q = {} /\ batches' = under
      BY <1>5, <1>8
    <2>2. \A r \in stored' : r <= m \/ r \in RecsOf(hostBuf')
      BY <1>2, <1>4, <1>6, <2>1 DEF SentUpTo
    <2>3. \A r \in RecsOf((hostBuf \o line)') : m < r
      BY <1>3, <1>6 DEF SentUpTo
    <2>4. m # 0 => m \in stored'
      BY <1>1, <1>6 DEF SentUpTo, StoredAs
    <2>5. SentUpTo(m, line, batches)'
      BY <1>6, <2>1, <2>2, <2>3, <2>4, Zenon DEF SentUpTo
    <2>6. OneInFlight'
      BY <1>7, <2>1 DEF OneInFlight
    <2>7. m \in 0 .. handed'
      OBVIOUS
    <2> QED BY <2>5, <2>6, <2>7, Zenon
  <1>9. CASE q = 1 /\ under = {} /\ plain = {}
    <2>0. PICK c : c = Cut(recs, n, 1)
      OBVIOUS
    <2> PICK k : k = c[Len(c)]
      OBVIOUS
    <2> DEFINE b == NewBatch(c)
    <2>1. 1 .. q = {1} /\ q * BufSize = BufSize /\ (1 - 1) * BufSize = 0 /\ 1 \in 1 .. q
      BY <1>9, Msg4Constants
    <2>2. batches' = {b} /\ plain' = {}
      BY <1>5, <1>9, <2>0, <2>1
    <2>3. /\ c # <<>> /\ Rising(c) /\ k \in RecsOf(hostBuf \o recs)
          /\ \A r \in RecsOf((hostBuf \o line)') : k < r
      BY <1>3, <2>0, <2>1
    <2>4. FullCut(recs, n, q, 1)
      <3>1. q * BufSize <= Len(AllOf(recs, n))
        BY <1>1 DEF StoredAs
      <3> QED BY <2>1, <3>1, CutRecs
    <2>5. /\ c \in Seq(Recs) /\ Len(c) = BufSize /\ BufSize \in Nat \ {0}
          /\ \A j \in 1 .. BufSize : c[j] = AllOf(recs, n)[(1 - 1) * BufSize + j]
      BY <2>0, <2>4, Msg4Constants, Zenon DEF FullCut
    <2>6. BufSize \in 1 .. Len(AllOf(recs, n)) /\ k = AllOf(recs, n)[BufSize]
      <3>1. Len(AllOf(recs, n)) \in Nat /\ q * BufSize <= Len(AllOf(recs, n))
        BY <1>1, AllFacts DEF StoredAs
      <3>2. (1 - 1) * BufSize + BufSize = BufSize /\ BufSize \in 1 .. BufSize
        BY <2>1, <2>5
      <3>3. k = AllOf(recs, n)[BufSize]
        BY <2>5, <3>2
      <3>4. BufSize <= Len(AllOf(recs, n))
        BY <2>1, <3>1, Zenon
      <3> QED BY <2>5, <3>1, <3>3, <3>4
    <2>7. k \in stored' /\ k \in Nat
      <3>1. k \in stored'
        BY <1>2, <2>6
      <3>2. stored' \subseteq Recs
        BY DEF M4Inv, M4Typed
      <3> QED BY <3>1, <3>2, Msg4Constants
    <2>8. b.recs = c /\ \A t \in Twins : b.at[t] = "sent"
      BY DEF NewBatch
    <2> HIDE DEF b
    <2>9. k <= handed'
      <3>1. InOrder'
        BY DEF M4Inv
      <3>2. b \in batches'
        BY <2>2
      <3>3. b.recs[Len(b.recs)] <= handed'
        BY <3>1, <3>2, Zenon DEF InOrder
      <3> QED BY <2>8, <3>3
    <2>10. ASSUME NEW r \in stored' PROVE r <= k \/ r \in RecsOf(hostBuf')
      <3>1. r \in Nat
        BY DEF M4Inv, M4Typed, Recs
      <3>2. CASE r \in RecsOf(hostBuf) \cup RecsOf(SubSeq(recs, 1, n))
        <4>1. CASE r \in RecsOf(hostBuf')
          BY <4>1
        <4>2. CASE r \in RecsOf(c)
          <5>1. PICK j \in 1 .. Len(c) : r = c[j]
            BY <2>5, <4>2, RecsOfSeq
          <5>2. j = Len(c) \/ j < Len(c)
            BY <2>5
          <5>3. Len(c) \in 1 .. Len(c)
            BY <2>5
          <5> QED BY <2>3, <2>7, <3>1, <5>1, <5>2, <5>3 DEF Rising
        <4> QED BY <1>4, <2>0, <2>1, <3>2, <4>1, <4>2
      <3>3. CASE r \in stored /\ r \notin RecsOf(hostBuf)
        <4>1. r <= m /\ m < k
          BY <1>6, <2>3, <3>3 DEF SentUpTo
        <4> QED BY <2>7, <3>1, <4>1
      <3> QED BY <1>2, <3>2, <3>3
    <2>11. SentUpTo(k, line, batches)'
      <3>1. \A d \in batches' : d.recs[Len(d.recs)] = k
        BY <2>2, <2>8
      <3>2. \A t \in Twins : \E d \in batches' : d.at[t] \notin {"added", "done"}
        BY <2>2, <2>8
      <3> QED BY <2>2, <2>3, <2>7, <2>10, <3>1, <3>2, Zenon DEF SentUpTo
    <2>12. OneInFlight'
      BY <2>2 DEF OneInFlight
    <2>13. k \in 0 .. handed'
      BY <2>7, <2>9
    <2> QED BY <2>11, <2>12, <2>13, Zenon
  <1> QED BY <1>1, <1>8, <1>9

LEMMA AddMetaListInTurn ==
    ASSUME Msg4Assumption, M4Inv, M4Inv', SentInTurn, AddMetaList
    PROVE  SentInTurn'
  <1>1. PICK n \in 1 .. MaxRecs - handed :
          LET list == [i \in 1 .. n |-> handed + i] IN
          /\ handed' = handed + n
          /\ IF line # <<>>
             THEN /\ line' = line \o list
                  /\ UNCHANGED <<hostBuf, stored, batches, overlap, noMem>>
             ELSE Store(list, batches)
          /\ UNCHANGED <<plain, got, last, dropped, exits>>
    BY DEF AddMetaList
  <1> DEFINE list == [i \in 1 .. n |-> handed + i]
             w == hostBuf \o line
  <1>2. /\ M4Typed /\ InOrder /\ RecsOf(hostBuf) \subseteq stored
        /\ handed \in Nat /\ MaxRecs \in Nat /\ n \in Nat /\ handed + n <= MaxRecs
        /\ handed' = handed + n /\ hostBuf \in Seq(Recs) /\ line \in Seq(Recs)
    BY <1>1, Msg4Constants DEF M4Inv, M4Typed, SentInTurn
  <1>3. w \in Seq(Recs)
    BY <1>2, ConcatProperties
  <1>4. /\ list \in Seq(Recs) /\ Rising(w \o list)
        /\ \A r \in RecsOf(w \o list) : r <= handed + n /\ (r \in RecsOf(w) \/ handed < r)
    BY <1>2, <1>3, ListBehind, Zenon DEF InOrder
  <1>5. ASSUME NEW m \in 0 .. handed, SentUpTo(m, line, batches)
        PROVE  \A r \in RecsOf(w \o list) : m < r
    <2>1. \A r \in RecsOf(w \o list) : r \in Nat
      <3>1. w \o list \in Seq(Recs)
        BY <1>3, <1>4, ConcatProperties, Zenon
      <3>2. RecsOf(w \o list) \subseteq Recs
        BY <3>1, RecsOfSeq, Zenon
      <3> QED BY <3>2 DEF Recs
    <2>2. \A r \in RecsOf(w) : m < r
      BY <1>5 DEF SentUpTo
    <2> HIDE DEF w, list
    <2> QED BY <1>2, <1>4, <2>1, <2>2
  <1>6. CASE line # <<>>
    <2>1. line' = line \o list /\ UNCHANGED <<hostBuf, stored, batches, overlap, plain, last, dropped>>
      BY <1>1, <1>6, Zenon
    <2>2. (hostBuf \o line)' = w \o list
      <3>1. w \o list = hostBuf \o (line \o list)
        <4>1. hostBuf \in Seq(Recs) /\ line \in Seq(Recs) /\ list \in Seq(Recs)
          BY <1>2, <1>4
        <4> HIDE DEF list
        <4> QED BY <4>1, ConcatAssociative
      <3>2. (hostBuf \o line)' = hostBuf \o (line \o list)
        BY <2>1
      <3> QED BY <3>1, <3>2, Zenon
    <2>3. ASSUME ~overlap, NEW m \in 0 .. handed, SentUpTo(m, line, batches)
          PROVE  m \in 0 .. handed' /\ SentUpTo(m, line, batches)'
      <3>1. \A r \in RecsOf((hostBuf \o line)') : m < r
        BY <1>5, <2>2, <2>3
      <3>2. m \in 0 .. handed'
        BY <1>2
      <3> QED BY <2>1, <2>3, <3>1, <3>2, Zenon DEF SentUpTo
    <2>4. OneInFlight => OneInFlight'
      BY <2>1 DEF OneInFlight
    <2> QED BY <2>1, <2>3, <2>4, Zenon DEF SentInTurn
  <1>7. CASE line = <<>>
    <2>1. Store(list, batches) /\ UNCHANGED <<plain, last, dropped>>
      BY <1>1, <1>7
    <2>2. w = hostBuf
      BY <1>2, <1>7, ConcatEmptySeq
    <2>3. Rising(hostBuf \o list)
      BY <1>4, <2>2
    <2>4. ASSUME NEW m \in 0 .. handed, SentUpTo(m, line, batches)
          PROVE  SentUpTo(m, list, batches)
      <3>1. \A r \in RecsOf(hostBuf \o list) : m < r
        BY <1>5, <2>2, <2>4
      <3> QED BY <2>4, <3>1, Zenon DEF SentUpTo
    <2>5. handed' \in Nat /\ handed <= handed'
      BY <1>2
    <2>6. batches \in SUBSET batches
      OBVIOUS
    <2> HIDE DEF list, w
    <2>7. ~overlap => OneInFlight /\ \E m \in 0 .. handed : SentUpTo(m, list, batches)
      BY <2>4, Zenon DEF SentInTurn
    <2> QED BY <1>2, <1>4, <2>1, <2>3, <2>5, <2>6, <2>7, StoreInTurn, Zenon
  <1> QED BY <1>6, <1>7

LEMMA FlushLocalInTurn ==
    ASSUME Msg4Assumption, M4Inv, M4Inv', SentInTurn, FlushLocal
    PROVE  SentInTurn'
  <1> DEFINE c == NewBatch(hostBuf)
  <1> PICK k : k = hostBuf[Len(hostBuf)]
    OBVIOUS
  <1>1. /\ hostBuf # <<>> /\ batches' = batches \cup {c} /\ hostBuf' = <<>>
        /\ overlap' = (overlap \/ batches # {} \/ plain # {})
        /\ UNCHANGED <<handed, line, stored, plain, last, dropped>>
    BY DEF FlushLocal, FlushDue
  <1>2. /\ M4Typed /\ InOrder' /\ hostBuf \in Seq(Recs) /\ stored \in SUBSET Recs /\ handed \in Nat
        /\ RecsOf(hostBuf) \subseteq stored
    BY Msg4Constants DEF M4Inv, M4Typed, SentInTurn
  <1>3. RecsOf(hostBuf) = {hostBuf[i] : i \in 1 .. Len(hostBuf)} /\ Len(hostBuf) \in 1 .. Len(hostBuf)
    BY <1>1, <1>2, RecsOfSeq
  <1>4. RecsOf(hostBuf') = {}
    BY <1>1 DEF RecsOf
  <1> SUFFICES ASSUME ~overlap'
               PROVE  OneInFlight' /\ \E m \in 0 .. handed' : SentUpTo(m, line, batches)'
    BY <1>4, Zenon DEF SentInTurn
  <1>5. ~overlap /\ batches = {} /\ plain = {} /\ batches' = {c} /\ plain' = {}
    BY <1>1
  <1>6. PICK m \in 0 .. handed : SentUpTo(m, line, batches)
    BY <1>5, Zenon DEF SentInTurn
  <1>7. c.recs = hostBuf /\ \A t \in Twins : c.at[t] = "sent"
    BY DEF NewBatch
  <1> HIDE DEF c
  <1>8. /\ Rising(hostBuf) /\ k <= handed
        /\ \A r \in RecsOf((hostBuf \o line)') : k < r
    <2>1. c \in batches'
      BY <1>5
    <2>2. /\ Rising(c.recs) /\ c.recs[Len(c.recs)] <= handed'
          /\ \A r \in RecsOf((hostBuf \o line)') : c.recs[Len(c.recs)] < r
      BY <1>2, <2>1, Zenon DEF InOrder
    <2> QED BY <1>1, <1>7, <2>2
  <1>9. k \in stored /\ k \in Nat
    BY <1>2, <1>3 DEF Recs
  <1>10. ASSUME NEW r \in stored PROVE r <= k
    <2>1. r \in Nat
      BY <1>2 DEF Recs
    <2>2. CASE r \in RecsOf(hostBuf)
      <3>1. PICK j \in 1 .. Len(hostBuf) : r = hostBuf[j]
        BY <1>3, <2>2
      <3>2. j = Len(hostBuf) \/ j < Len(hostBuf)
        BY <1>2
      <3> QED BY <1>3, <1>8, <1>9, <2>1, <3>1, <3>2 DEF Rising
    <2>3. CASE r \notin RecsOf(hostBuf)
      <3>1. k \in RecsOf(hostBuf \o line)
        <4>1. line \in Seq(Recs)
          BY <1>2 DEF M4Typed
        <4>2. /\ hostBuf \o line \in Seq(Recs) /\ Len(hostBuf \o line) = Len(hostBuf) + Len(line)
              /\ \A i \in 1 .. Len(hostBuf) + Len(line) :
                   (hostBuf \o line)[i] = IF i <= Len(hostBuf) THEN hostBuf[i]
                                          ELSE line[i - Len(hostBuf)]
          BY <1>2, <4>1, ConcatProperties, Zenon
        <4>3. Len(hostBuf) \in 1 .. Len(hostBuf) + Len(line)
          BY <1>2, <1>3, <4>1
        <4>4. (hostBuf \o line)[Len(hostBuf)] = k
          BY <4>2, <4>3
        <4>5. RecsOf(hostBuf \o line) = {(hostBuf \o line)[i] : i \in 1 .. Len(hostBuf \o line)}
          BY <4>2, RecsOfSeq, Zenon
        <4> QED BY <4>2, <4>3, <4>4, <4>5
      <3>2. r <= m /\ m < k
        BY <1>6, <2>3, <3>1 DEF SentUpTo
      <3> QED BY <1>9, <2>1, <3>2
    <2> QED BY <2>2, <2>3
  <1>11. SentUpTo(k, line, batches)'
    <2>1. \A d \in batches' : d.recs[Len(d.recs)] = k
      BY <1>5, <1>7
    <2>2. \A t \in Twins : \E d \in batches' : d.at[t] \notin {"added", "done"}
      BY <1>5, <1>7
    <2> QED BY <1>1, <1>5, <1>8, <1>9, <1>10, <2>1, <2>2, Zenon DEF SentUpTo
  <1>12. OneInFlight'
    BY <1>5 DEF OneInFlight
  <1>13. k \in 0 .. handed'
    BY <1>1, <1>2, <1>8, <1>9
  <1> QED BY <1>11, <1>12, <1>13, Zenon

\* A twin goes on to another stage of the request, or the request is given up
\* for it.
LEMMA StageInTurn ==
    ASSUME SentInTurn, NEW b \in batches, NEW c, c.recs = b.recs,
           batches' = (batches \ {b}) \cup {c},
           UNCHANGED <<handed, line, hostBuf, stored, plain, overlap>>,
           \A t \in Twins : dropped[t] # {} => dropped'[t] # {},
           \A t \in Twins :
             \/ c.at[t] \notin {"added", "done"}
             \/ last'[t] = b.recs[Len(b.recs)] \/ dropped'[t] # {}
             \/ last'[t] = last[t] /\ b.at[t] \in {"added", "done"}
    PROVE  SentInTurn'
  <1> SUFFICES ASSUME ~overlap
               PROVE  OneInFlight' /\ \E m \in 0 .. handed : SentUpTo(m, line, batches)'
    BY Zenon DEF SentInTurn
  <1>1. PICK m \in 0 .. handed : SentUpTo(m, line, batches)
    BY Zenon DEF SentInTurn
  <1>2. OneInFlight
    BY DEF SentInTurn
  <1>3. batches = {b} /\ batches' = {c} /\ plain = {} /\ plain' = {}
    BY <1>2 DEF OneInFlight
  <1>4. b.recs[Len(b.recs)] = m
    BY <1>1 DEF SentUpTo
  <1>5. \A t \in Twins : last[t] = m \/ dropped[t] # {} \/ b.at[t] \notin {"added", "done"}
    BY <1>1, <1>3 DEF SentUpTo
  <1>6. \A t \in Twins : \/ last'[t] = m \/ dropped'[t] # {}
                         \/ \E d \in batches' : d.at[t] \notin {"added", "done"}
    BY <1>3, <1>4, <1>5
  <1>7. \A d \in batches' : d.recs[Len(d.recs)] = m
    BY <1>3, <1>4
  <1>8. SentUpTo(m, line, batches)'
    BY <1>1, <1>3, <1>6, <1>7, Zenon DEF SentUpTo
  <1>9. OneInFlight'
    BY <1>3 DEF OneInFlight
  <1> QED BY <1>8, <1>9, Zenon

LEMMA HandleRequest4InTurn ==
    ASSUME Msg4Assumption, M4Inv, SentInTurn, NEW b \in batches, NEW t \in Twins,
           HandleRequest4(b, t)
    PROVE  SentInTurn'
  <1>1. PICK n \in 0 .. Len(b.recs), s \in Stage :
          /\ Added(t, b.recs, n)
          /\ s = IF n = Len(b.recs) THEN "added" ELSE "refused"
          /\ batches' = At(b, t, s)
    BY DEF HandleRequest4, Stage
  <1>2. M4Typed /\ InOrder /\ UNCHANGED <<handed, line, hostBuf, stored, plain, overlap, dropped>>
    BY DEF M4Inv, HandleRequest4
  <1>3. PICK c \in Batch : /\ c.recs = b.recs /\ batches' = (batches \ {b}) \cup {c}
                           /\ \A u \in Twins : c.at[u] = IF u = t THEN s ELSE b.at[u]
    BY <1>1, <1>2, AtIs
  <1>4. last' = [last EXCEPT ![t] = IF n = 0 THEN last[t] ELSE b.recs[n]]
    BY <1>1 DEF Added
  <1>5. last \in [Twins -> 0 .. MaxRecs] /\ b.recs # <<>> /\ b.recs \in Seq(Recs)
    BY <1>2 DEF M4Typed, InOrder, Batch
  <1>6. \A u \in Twins : u # t => last'[u] = last[u]
    BY <1>4, <1>5
  <1>7. s = "added" => last'[t] = b.recs[Len(b.recs)]
    <2> SUFFICES ASSUME s = "added" PROVE last'[t] = b.recs[Len(b.recs)]
      OBVIOUS
    <2>1. n = Len(b.recs) /\ n # 0
      BY <1>1, <1>3, <1>5
    <2> QED BY <1>4, <1>5, <2>1
  <1>8. s \in {"added", "refused"}
    BY <1>1
  <1>9. ASSUME NEW u \in Twins
        PROVE  \/ c.at[u] \notin {"added", "done"}
               \/ last'[u] = b.recs[Len(b.recs)]
               \/ last'[u] = last[u] /\ b.at[u] \in {"added", "done"}
    BY <1>3, <1>6, <1>7, <1>8
  <1>10. \A u \in Twins : dropped[u] # {} => dropped'[u] # {}
    BY <1>2
  <1> QED BY <1>2, <1>3, <1>9, <1>10, StageInTurn, Zenon

LEMMA StageOnlyInTurn ==
    ASSUME Msg4Assumption, M4Inv, SentInTurn, NEW b \in batches, NEW t \in Twins,
           \/ TwinRestarts(b, t)
           \/ GotReply(b, t) /\ \E u \in Twins \ {t} : b.at[u] # "done"
    PROVE  SentInTurn'
  <1>1. PICK s \in {"sent", "done"} :
          batches' = At(b, t, s) /\ (s = "done" => b.at[t] = "added")
    BY DEF TwinRestarts, GotReply
  <1>2. /\ M4Typed /\ s \in Stage
        /\ UNCHANGED <<handed, line, hostBuf, stored, plain, last, overlap, dropped>>
    BY DEF M4Inv, TwinRestarts, GotReply, Stage
  <1>3. PICK c \in Batch : /\ c.recs = b.recs /\ batches' = (batches \ {b}) \cup {c}
                           /\ \A u \in Twins : c.at[u] = IF u = t THEN s ELSE b.at[u]
    BY <1>1, <1>2, AtIs
  <1>4. ASSUME NEW u \in Twins
        PROVE  \/ c.at[u] \notin {"added", "done"}
               \/ last'[u] = last[u] /\ b.at[u] \in {"added", "done"}
    BY <1>1, <1>2, <1>3
  <1>5. \A u \in Twins : dropped[u] # {} => dropped'[u] # {}
    BY <1>2
  <1> QED BY <1>2, <1>3, <1>4, <1>5, StageInTurn, Zenon

LEMMA GotRefusalInTurn ==
    ASSUME Msg4Assumption, M4Inv, SentInTurn, NEW b \in batches, NEW t \in Twins, GotRefusal(b, t)
    PROVE  SentInTurn'
  <1>1. /\ M4Typed /\ b.recs # <<>> /\ b.recs \in Seq(Recs) /\ dropped \in [Twins -> SUBSET Recs]
        /\ UNCHANGED <<handed, line, hostBuf, stored, plain, last, overlap>>
    BY DEF M4Inv, M4Typed, Batch, InOrder, GotRefusal
  <1>2. PICK c \in Batch : RefusedAs(b, t, c)
    BY <1>1, RefusalIs
  <1>3. c.recs = b.recs /\ batches' = (batches \ {b}) \cup {c}
    BY <1>2 DEF RefusedAs
  <1>4. RecsOf(b.recs) # {}
    <2>1. b.recs[1] \in RecsOf(b.recs)
      BY <1>1 DEF RecsOf
    <2> QED BY <2>1
  <1>5. ASSUME NEW v \in Twins
        PROVE  /\ dropped[v] # {} => dropped'[v] # {}
               /\ \/ c.at[v] \notin {"added", "done"} \/ dropped'[v] # {}
                  \/ last'[v] = last[v] /\ b.at[v] \in {"added", "done"}
    <2>1. dropped' = dropped \/ dropped' = [dropped EXCEPT ![t] = dropped[t] \cup RecsOf(b.recs)]
      BY <1>2 DEF RefusedAs
    <2>2. dropped[v] # {} => dropped'[v] # {}
      BY <1>1, <2>1
    <2>3. \/ c.at[v] = "again" \/ c.at[v] = b.at[v] \/ dropped'[v] # {}
      BY <1>1, <1>2, <1>4 DEF RefusedAs
    <2> QED BY <1>1, <2>2, <2>3
  <1> QED BY <1>1, <1>3, <1>5, StageInTurn, Zenon

LEMMA ResendBatchInTurn ==
    ASSUME M4Inv, SentInTurn, NEW b \in batches, ResendBatch(b)
    PROVE  SentInTurn'
  <1> DEFINE at == [t \in Twins |-> IF b.at[t] = "again" THEN "sent" ELSE b.at[t]]
             c == [b EXCEPT !.at = at]
  <1>1. b \in Batch /\ batches' = (batches \ {b}) \cup {c}
        /\ UNCHANGED <<handed, line, hostBuf, stored, plain, last, overlap, dropped>>
    BY DEF M4Inv, M4Typed, ResendBatch
  <1>2. c.recs = b.recs /\ c.at = at
    BY <1>1 DEF Batch
  <1> HIDE DEF c
  <1>3. ASSUME NEW t \in Twins
        PROVE  \/ c.at[t] \notin {"added", "done"}
               \/ last'[t] = last[t] /\ b.at[t] \in {"added", "done"}
    BY <1>1, <1>2
  <1>4. \A u \in Twins : dropped[u] # {} => dropped'[u] # {}
    BY <1>1
  <1> QED BY <1>1, <1>2, <1>3, <1>4, StageInTurn, Zenon

\* The last twin has answered.
LEMMA GotReplyInTurn ==
    ASSUME Msg4Assumption, M4Inv, M4Inv', SentInTurn, NEW b \in batches, NEW t \in Twins,
           GotReply(b, t), \A u \in Twins \ {t} : b.at[u] = "done"
    PROVE  SentInTurn'
  <1> DEFINE rest == batches \ {b}
  <1>1. Store(line, rest) /\ UNCHANGED <<handed, plain, last, dropped>> /\ b.at[t] = "added"
    BY DEF GotReply
  <1>2. /\ M4Typed /\ RecsOf(hostBuf) \subseteq stored /\ line \in Seq(Recs) /\ handed \in Nat
        /\ Rising(hostBuf \o line)
    BY Msg4Constants DEF M4Inv, M4Typed, InOrder, SentInTurn
  <1>3. handed' \in Nat /\ handed <= handed'
    BY <1>1, <1>2
  <1>4. ASSUME ~overlap PROVE OneInFlight /\ \E m \in 0 .. handed : SentUpTo(m, line, rest)
    <2>1. OneInFlight
      BY <1>4 DEF SentInTurn
    <2>2. PICK m \in 0 .. handed : SentUpTo(m, line, batches)
      BY <1>4, Zenon DEF SentInTurn
    <2>3. batches = {b} /\ rest = {}
      BY <2>1 DEF OneInFlight
    <2>4. \A u \in Twins : b.at[u] \in {"added", "done"}
      BY <1>1
    <2>5. \A u \in Twins : last[u] = m \/ dropped[u] # {} \/ \E p \in plain : p.to = u
      BY <2>2, <2>3, <2>4 DEF SentUpTo
    <2>6. SentUpTo(m, line, rest)
      BY <2>2, <2>3, <2>5, Zenon DEF SentUpTo
    <2> QED BY <2>1, <2>6, Zenon
  <1>5. rest \in SUBSET batches
    OBVIOUS
  <1> HIDE DEF rest
  <1> QED BY <1>1, <1>2, <1>3, <1>4, <1>5, StoreInTurn, Zenon

LEMMA HandlePlainInTurn ==
    ASSUME Msg4Assumption, M4Inv, SentInTurn, NEW p \in plain, HandlePlain(p)
    PROVE  SentInTurn'
  <1> DEFINE t == p.to
             recs == p.recs
  <1>1. /\ M4Typed /\ t \in Twins /\ recs \in Seq(Recs) /\ last \in [Twins -> 0 .. MaxRecs]
        /\ dropped \in [Twins -> SUBSET Recs]
        /\ UNCHANGED <<handed, line, hostBuf, stored, batches, overlap>>
    BY DEF M4Inv, M4Typed, Plain, HandlePlain
  <1>2. PICK n \in 0 .. Len(recs) :
          /\ Added(t, recs, n)
          /\ \/ plain' = plain /\ dropped' = dropped
             \/ /\ plain' = plain \ {p}
                /\ dropped' = IF n = Len(recs) THEN dropped
                              ELSE [dropped EXCEPT ![t] = dropped[t] \cup RecsOf(recs)]
    BY DEF HandlePlain
  <1>3. last' = [last EXCEPT ![t] = IF n = 0 THEN last[t] ELSE recs[n]]
    BY <1>2 DEF Added
  <1> SUFFICES ASSUME ~overlap
               PROVE  OneInFlight' /\ \E m \in 0 .. handed : SentUpTo(m, line, batches)'
    BY <1>1, Zenon DEF SentInTurn
  <1>4. PICK m \in 0 .. handed : SentUpTo(m, line, batches)
    BY Zenon DEF SentInTurn
  <1>5. OneInFlight
    BY DEF SentInTurn
  <1>6. recs # <<>> /\ recs[Len(recs)] = m
    BY <1>4 DEF SentUpTo
  <1>7. RecsOf(recs) # {}
    <2>1. recs[1] \in RecsOf(recs)
      BY <1>1, <1>6 DEF RecsOf
    <2> QED BY <2>1
  <1>8. /\ n = Len(recs) => last'[t] = m
        /\ \A u \in Twins : u # t => last'[u] = last[u]
    BY <1>1, <1>3, <1>6
  <1> HIDE DEF recs, t
  <1>9. batches' = {} /\ batches = {}
    BY <1>1, <1>5 DEF OneInFlight
  <1>10. ASSUME NEW u \in Twins
         PROVE  last'[u] = m \/ dropped'[u] # {} \/ \E o \in plain' : o.to = u
    <2>1. CASE u = t
      <3>1. CASE plain' = plain
        BY <2>1, <3>1 DEF t
      <3>2. CASE plain' # plain
        BY <1>1, <1>2, <1>7, <1>8, <2>1, <3>2
      <3> QED BY <3>1, <3>2
    <2>2. CASE u # t
      <3>1. last[u] = m \/ dropped[u] # {} \/ \E o \in plain : o.to = u
        BY <1>4, <1>9 DEF SentUpTo
      <3>2. dropped[u] = dropped'[u]
        BY <1>1, <1>2, <2>2
      <3>3. \A o \in plain : o.to = u => o \in plain'
        BY <1>2, <2>2 DEF t
      <3> QED BY <1>8, <2>2, <3>1, <3>2, <3>3
    <2> QED BY <2>1, <2>2
  <1>11. \A o \in plain' : o.recs # <<>> /\ o.recs[Len(o.recs)] = m
    BY <1>2, <1>4 DEF SentUpTo
  <1>12. SentUpTo(m, line, batches)'
    BY <1>1, <1>4, <1>9, <1>10, <1>11, Zenon DEF SentUpTo
  <1>13. OneInFlight'
    BY <1>9 DEF OneInFlight
  <1> QED BY <1>12, <1>13, Zenon

\* The one request under way is reloaded as requests to single twins, but for
\* those that are given up.
LEMMA ExitAndRestartInTurn ==
    ASSUME Msg4Assumption, M4Inv, SentInTurn, ExitAndRestart
    PROVE  SentInTurn'
  <1>1. /\ M4Typed /\ InOrder
        /\ batches' = {} /\ line' = <<>>
        /\ UNCHANGED <<handed, hostBuf, stored, last>>
        /\ ~overlap' => ~overlap
    BY DEF M4Inv, ExitAndRestart
  <1>2. /\ \A p \in plain' : \E b \in batches : p.recs = b.recs
        /\ \A t \in Twins :
             /\ dropped[t] \subseteq dropped'[t]
             /\ \A p \in plain : p.to = t => RecsOf(p.recs) \subseteq dropped'[t]
             /\ \A b \in batches :
                  b.at[t] # "done" => \/ RecsOf(b.recs) \subseteq dropped'[t]
                                      \/ \E p \in plain' : p.to = t /\ p.recs = b.recs
    BY <1>1, SavedOrGivenUp
  <1> SUFFICES ASSUME ~overlap'
               PROVE  OneInFlight' /\ \E m \in 0 .. handed : SentUpTo(m, line, batches)'
    BY <1>1, Zenon DEF SentInTurn
  <1>5. PICK m \in 0 .. handed : SentUpTo(m, line, batches)
    BY <1>1, Zenon DEF SentInTurn
  <1>3. \A b \in batches : b.recs # <<>> /\ b.recs[Len(b.recs)] = m /\ b.recs \in Seq(Recs)
    BY <1>1, <1>5 DEF SentUpTo, InOrder, M4Typed, Batch
  <1>4. \A p \in plain : p.recs # <<>> /\ p.recs \in Seq(Recs)
    BY <1>1, <1>5 DEF SentUpTo, M4Typed, Plain
  <1>6. ASSUME NEW p \in plain' PROVE p.recs # <<>> /\ p.recs[Len(p.recs)] = m
    <2>1. PICK b \in batches : p.recs = b.recs
      BY <1>2
    <2> QED BY <1>3, <2>1
  <1>7. ASSUME NEW t \in Twins
        PROVE  last[t] = m \/ dropped'[t] # {} \/ \E p \in plain' : p.to = t
    <2>1. \A q \in Seq(Recs) : q # <<>> => q[1] \in RecsOf(q)
      BY DEF RecsOf
    <2>2. CASE \E b \in batches : b.at[t] \notin {"added", "done"}
      <3>1. PICK b \in batches : b.at[t] \notin {"added", "done"}
        BY <2>2
      <3>2. b.recs[1] \in RecsOf(b.recs)
        BY <1>3, <2>1
      <3> QED BY <1>2, <3>1, <3>2
    <2>3. CASE \E p \in plain : p.to = t
      <3>1. PICK p \in plain : p.to = t
        BY <2>3
      <3>2. p.recs[1] \in RecsOf(p.recs)
        BY <1>4, <2>1
      <3> QED BY <1>2, <3>1, <3>2
    <2>4. last[t] = m \/ dropped[t] # {} \/ (\E b \in batches : b.at[t] \notin {"added", "done"})
          \/ \E p \in plain : p.to = t
      BY <1>5 DEF SentUpTo
    <2> QED BY <1>2, <2>2, <2>3, <2>4
  <1>8. \A r \in RecsOf((hostBuf \o line)') : m < r
    <2>1. hostBuf \in Seq(Recs) /\ line \in Seq(Recs)
      BY <1>1 DEF M4Typed
    <2>2. /\ hostBuf \o line \in Seq(Recs) /\ Len(hostBuf \o line) = Len(hostBuf) + Len(line)
          /\ \A i \in 1 .. Len(hostBuf) + Len(line) :
               (hostBuf \o line)[i] = IF i <= Len(hostBuf) THEN hostBuf[i] ELSE line[i - Len(hostBuf)]
      BY <2>1, ConcatProperties, Zenon
    <2>3. (hostBuf \o line)' = hostBuf
      <3>1. hostBuf \o <<>> = hostBuf
        BY <2>1, ConcatEmptySeq
      <3> QED BY <1>1, <3>1
    <2>4. RecsOf(hostBuf) = {hostBuf[i] : i \in 1 .. Len(hostBuf)}
          /\ RecsOf(hostBuf \o line) = {(hostBuf \o line)[i] : i \in 1 .. Len(hostBuf \o line)}
      BY <2>1, <2>2, RecsOfSeq, Zenon
    <2>5. \A i \in 1 .. Len(hostBuf) : i \in 1 .. Len(hostBuf \o line) /\ (hostBuf \o line)[i] = hostBuf[i]
      BY <2>1, <2>2
    <2>6. \A r \in RecsOf(hostBuf \o line) : m < r
      BY <1>5 DEF SentUpTo
    <2> QED BY <2>3, <2>4, <2>5, <2>6
  <1>9. SentUpTo(m, line, batches)'
    BY <1>1, <1>5, <1>6, <1>7, <1>8, Zenon DEF SentUpTo
  <1>10. OneInFlight'
    BY <1>1 DEF OneInFlight
  <1> QED BY <1>9, <1>10, Zenon

LEMMA SentInTurnStep ==
    ASSUME Msg4Assumption, M4Inv, M4Inv', SentInTurn, [Msg4Next]_m4Vars
    PROVE  SentInTurn'
  <1>1. CASE AddMetaList
    BY <1>1, AddMetaListInTurn
  <1>2. CASE FlushLocal
    BY <1>2, FlushLocalInTurn
  <1>3. CASE ExitAndRestart
    BY <1>3, ExitAndRestartInTurn
  <1>4. CASE \E b \in batches : ResendBatch(b)
    BY <1>4, ResendBatchInTurn
  <1>5. CASE \E b \in batches, t \in Twins : \/ HandleRequest4(b, t) \/ TwinRestarts(b, t)
                                             \/ GotRefusal(b, t) \/ GotReply(b, t)
    BY <1>5, HandleRequest4InTurn, StageOnlyInTurn, GotRefusalInTurn, GotReplyInTurn
  <1>6. CASE \E p \in plain : HandlePlain(p)
    BY <1>6, HandlePlainInTurn
  <1>7. CASE UNCHANGED m4Vars
    BY <1>7 DEF m4Vars, SentInTurn, OneInFlight, SentUpTo
  <1> QED BY <1>1, <1>2, <1>3, <1>4, <1>5, <1>6, <1>7 DEF Msg4Next

\* Unless requests have overlapped, the last record that a twin has been given is
\* the newest one when nothing is under way any more: requests refused half-way,
\* sent again or handled twice leave nothing older on top.  A twin for which a
\* request was given up is excepted, it may lack the newest record.
THEOREM NewestIsLast ==
    ASSUME Msg4Assumption
    PROVE  Msg4Spec => []NewestWins
  <1>1. ASSUME Msg4Init PROVE M4Inv /\ SentInTurn
    <2>1. M4Inv
      BY <1>1, Msg4Begins
    <2>2. /\ handed = 0 /\ line = <<>> /\ hostBuf = <<>> /\ stored = {} /\ batches = {} /\ plain = {}
          /\ last = [t \in Twins |-> 0]
      BY <1>1 DEF Msg4Init, Msg4InitWith
    <2>3. hostBuf \o line = <<>> /\ RecsOf(<<>>) = {} /\ 0 \in 0 .. handed
      BY <2>2 DEF RecsOf
    <2>4. SentUpTo(0, line, batches)
      BY <2>2, <2>3, Zenon DEF SentUpTo
    <2> QED BY <2>1, <2>2, <2>3, <2>4, Zenon DEF SentInTurn, OneInFlight
  <1>2. M4Inv /\ SentInTurn /\ [Msg4Next]_m4Vars => M4Inv' /\ SentInTurn'
    BY M4InvStep, SentInTurnStep
  <1>3. ASSUME M4Inv, SentInTurn PROVE NewestWins
    <2> SUFFICES ASSUME AtRest, ~overlap, NEW t \in Twins, dropped[t] = {} PROVE last[t] = Newest
      BY DEF NewestWins
    <2>1. PICK m \in 0 .. handed : SentUpTo(m, line, batches)
      BY <1>3, Zenon DEF SentInTurn
    <2>2. last[t] = m
      BY <2>1 DEF SentUpTo, AtRest
    <2>3. \A r \in stored : r <= m
      BY <2>1 DEF SentUpTo, AtRest, RecsOf
    <2>4. m # 0 => m \in stored
      BY <2>1 DEF SentUpTo
    <2>5. stored \subseteq Nat \ {0}
      BY <1>3, Msg4Constants DEF M4Inv, M4Typed
    <2>6. CASE stored = {}
      BY <2>2, <2>4, <2>6 DEF Newest
    <2>7. CASE stored # {}
      <3>1. m \in stored
        <4>1. PICK r \in stored : r \in Nat \ {0} /\ r <= m
          BY <2>3, <2>5, <2>7
        <4>2. m # 0
          BY <4>1
        <4> QED BY <2>4, <4>2
      <3>2. Max(stored) = m
        <4>1. \A x \in stored : (\A y \in stored : x >= y) <=> x = m
          BY <2>3, <2>5, <3>1
        <4> QED BY <3>1, <4>1 DEF Max
      <3> QED BY <2>2, <2>7, <3>2 DEF Newest
    <2> QED BY <2>6, <2>7
  <1> QED BY <1>1, <1>2, <1>3, PTL DEF Msg4Spec

-----------------------------------------------------------------------------
(* The layers together.                                                    *)

\* Each layer keeps its invariant or rests.
HostsInv == /\ UdpInv \/ UdpAtRest
            /\ McInv \/ MulticastAtRest
            /\ M4Inv \/ Msg4AtRest

\* A transaction that is over has no packets to read and no slots.
LEMMA UdpRests == ASSUME UdpAtRest, [UdpNext]_udpVars PROVE UdpAtRest'
  <1>1. /\ phase = "done" /\ net = {} /\ srv = NoServer /\ ~srv.on
    BY DEF UdpAtRest, UdpInitIn, NoServer
  <1>2. ~UdpNext
    <2>1. ~(SendRequest \/ ClientSends \/ ClientResends \/ ClientTimesOut \/ ClientCallback)
      BY <1>1 DEF SendRequest, ClientSends, ClientResends, ClientTimesOut, ClientCallback
    <2>2. ~(ClientReads \/ ServerReads)
      BY <1>1 DEF ClientReads, ServerReads
    <2>3. ~(ServerSends \/ ServerResends \/ ServerTimesOut \/ ServerHandles
            \/ ServerReplies \/ ServerEnds)
      BY <1>1 DEF ServerSends, ServerResends, ServerTimesOut, ServerHandles,
                  ServerReplies, ServerEnds
    <2> QED BY <2>1, <2>2, <2>3 DEF UdpNext
  <1> QED BY <1>2 DEF UdpAtRest, UdpInitIn, udpVars

LEMMA MulticastRests == ASSUME MulticastAtRest, [MulticastNext]_mcVars PROVE MulticastAtRest'
  <1>1. mode = "over"
    BY DEF MulticastAtRest, MulticastInitIn
  <1>2. ~MulticastNext
    BY <1>1 DEF MulticastNext, SendToOne, Reroute, SendToGroup, Resend, AnyReply, GoodReply,
                BadReply, GroupReply, GroupError
  <1> QED BY <1>2 DEF MulticastAtRest, MulticastInitIn, mcVars

LEMMA Msg4Rests ==
    ASSUME Msg4Assumption, Msg4AtRest, [Msg4Next]_m4Vars
    PROVE  Msg4AtRest'
  <1>1. /\ handed = MaxRecs /\ hostBuf = <<>> /\ batches = {} /\ plain = {} /\ exits = MaxExits
        /\ MaxRecs \in Nat /\ MaxExits \in Nat
    BY DEF Msg4AtRest, Msg4InitWith, Msg4Assumption
  <1>2. ~Msg4Next
    <2>1. ~AddMetaList /\ ~FlushLocal /\ ~ExitAndRestart
      <3>1. 1 .. MaxRecs - handed = {} /\ ~(exits < MaxExits)
        BY <1>1
      <3> QED BY <1>1, <3>1, Zenon DEF AddMetaList, FlushLocal, FlushDue, ExitAndRestart
    <2> QED BY <1>1, <2>1, Zenon DEF Msg4Next
  <1> QED BY <1>2 DEF Msg4AtRest, Msg4InitWith, m4Vars

LEMMA HostsInvInit ==
    ASSUME UdpAssumption, MulticastAssumption, Msg4Assumption, HostsInit
    PROVE  HostsInv
  <1>1. /\ UdpInit \/ UdpAtRest
        /\ MulticastInit \/ MulticastAtRest
        /\ Msg4Begun \/ Msg4AtRest
    BY Zenon DEF HostsInit
  <1>2. ASSUME Msg4Begun PROVE M4Inv
    <2>1. MaxRecs \in Nat /\ MaxExits \in Nat
      BY DEF Msg4Assumption
    <2>2. PICK n \in {0, MaxExits} \cap (0 .. MaxRecs) : Msg4InitWith(n, MaxExits - n)
      BY <1>2 DEF Msg4Begun
    <2>3. n \in 0 .. MaxRecs /\ MaxExits - n \in 0 .. MaxExits
      BY <2>1, <2>2
    <2> QED BY <2>2, <2>3, M4InvInit
  <1> QED BY <1>1, <1>2, UdpInitInv, McInvInit, Zenon DEF HostsInv

LEMMA HostsInvStep ==
    ASSUME UdpAssumption, MulticastAssumption, Msg4Assumption, HostsInv,
           [HostsNext]_<<bitsVars, udpVars, mcVars, m4Vars>>
    PROVE  HostsInv'
  <1>1. [UdpNext]_udpVars /\ [MulticastNext]_mcVars /\ [Msg4Next]_m4Vars
    <2>1. CASE UNCHANGED <<bitsVars, udpVars, mcVars, m4Vars>>
      BY <2>1
    <2>2. CASE HostsNext
      BY <2>2, Zenon DEF HostsNext
    <2> QED BY <2>1, <2>2
  <1>2. UdpInv' \/ UdpAtRest'
    BY <1>1, UdpInvInductive, UdpRests, Zenon DEF HostsInv
  <1>3. McInv' \/ MulticastAtRest'
    BY <1>1, McInvStep, MulticastRests, Zenon DEF HostsInv
  <1>4. M4Inv' \/ Msg4AtRest'
    BY <1>1, M4InvStep, Msg4Rests, Zenon DEF HostsInv
  <1> QED BY <1>2, <1>3, <1>4, Zenon DEF HostsInv

LEMMA RestTyped ==
    ASSUME UdpAssumption, MulticastAssumption, Msg4Assumption
    PROVE  /\ UdpAtRest => UdpTypeOK
           /\ MulticastAtRest => MulticastTypeOK
           /\ Msg4AtRest => Msg4TypeOK
  <1>1. ASSUME UdpAtRest PROVE UdpTypeOK
    <2>1. /\ net = {} /\ phase = "done" /\ cli = NoClient /\ buf = Empty
          /\ given = "none" /\ srv = NoServer /\ runs = 0 /\ whole = TRUE
      BY <1>1 DEF UdpAtRest, UdpInitIn
    <2> QED BY <2>1 DEF UdpTypeOK, InSlot, OutSlot, NoClient, NoServer, Empty, UdpAssumption
  <1>2. ASSUME MulticastAtRest PROVE MulticastTypeOK
    <2>1. N \in Nat
      BY DEF MulticastAssumption
    <2>2. /\ mode = "over" /\ retired = {} /\ inProgress = {} /\ errnos = {}
          /\ slotOf = [h \in Hosts |-> NoSlot] /\ out = [s \in Slots |-> 0]
          /\ numReplies = 0 /\ sleeping = FALSE /\ served = {} /\ overlooked = {} /\ result = "none" /\ calls = 0
      BY <1>2 DEF MulticastAtRest, MulticastInitIn
    <2>3. numReplies \in 0 .. N /\ calls \in 0 .. 2
      BY <2>1, <2>2
    <2>4. slotOf \in [Hosts -> Slots \cup {NoSlot}] /\ out \in [Slots -> Hosts \cup {0}]
      BY <2>2
    <2>5. sleeping \in BOOLEAN
      BY <2>2, Zenon
    <2> QED BY <2>2, <2>3, <2>4, <2>5 DEF MulticastTypeOK
  <1>3. ASSUME Msg4AtRest PROVE Msg4TypeOK
    <2>1. /\ handed = MaxRecs /\ line = <<>> /\ hostBuf = <<>> /\ stored = {} /\ batches = {}
          /\ plain = {} /\ got = [t \in Twins |-> {}] /\ last = [t \in Twins |-> 0]
          /\ overlap = FALSE /\ exits = MaxExits /\ dropped = [t \in Twins |-> {}] /\ noMem = FALSE
      BY <1>3 DEF Msg4AtRest, Msg4InitWith
    <2>2. MaxRecs \in Nat /\ MaxExits \in Nat /\ BufSize \in Nat /\ MaxMcasts \in Nat
      BY DEF Msg4Assumption
    <2>3. Cardinality({}) = 0
      BY FS_EmptySet
    <2>4. handed \in 0 .. MaxRecs /\ exits \in 0 .. MaxExits
      BY <2>1, <2>2
    <2>5. overlap \in BOOLEAN /\ noMem \in BOOLEAN
      BY <2>1, Zenon
    <2>6. line \in Seq(Recs) /\ hostBuf \in Seq(Recs) /\ Len(hostBuf) <= BufSize
      BY <2>1, <2>2
    <2>7. Cardinality(batches) <= MaxMcasts
      BY <2>1, <2>2, <2>3
    <2>8. /\ got \in [Twins -> SUBSET Recs] /\ dropped \in [Twins -> SUBSET Recs]
          /\ last \in [Twins -> 0 .. MaxRecs]
      BY <2>1, <2>2
    <2> QED BY <2>1, <2>4, <2>5, <2>6, <2>7, <2>8 DEF Msg4TypeOK
  <1> QED BY <1>1, <1>2, <1>3

\* Whichever layer a behaviour begins with, the three protocols keep their types.
THEOREM HostsTypeCorrect ==
    ASSUME UdpAssumption, MulticastAssumption, Msg4Assumption
    PROVE  HostsSpec => []HostsTypeOK
  <1>1. HostsInit => HostsInv
    BY HostsInvInit
  <1>2. HostsInv /\ [HostsNext]_<<bitsVars, udpVars, mcVars, m4Vars>> => HostsInv'
    BY HostsInvStep
  <1>3. ASSUME HostsInv PROVE HostsTypeOK
    <2>1. UdpInv => UdpTypeOK
      BY DEF UdpInv
    <2>2. M4Inv => Msg4TypeOK
      BY DEF M4Inv, M4Typed, Msg4TypeOK, Batch, Plain
    <2> QED BY <1>3, <2>1, <2>2, McInvGives, RestTyped, Zenon DEF HostsInv, HostsTypeOK
  <1> QED BY <1>1, <1>2, <1>3, PTL DEF HostsSpec
=============================================================================
