------------------------ MODULE MeshDownloadsProofs ------------------------
(***************************************************************************)
(* What the browser server keeps for every number of connections, slots    *)
(* and bytes (MeshDownloads): its slots are accounted for, its store stays *)
(* in its bound and keeps the newest parts together.                       *)
(*                                                                         *)
(* The sums of bytes and the walk over the expired files are functions     *)
(* defined by recursion; what they are is proved with InductionTheorems.   *)
(***************************************************************************)
EXTENDS MeshDownloads, FiniteSetTheorems, SequenceTheorems, InductionTheorems

(***************************************************************************)
(* Sums.                                                                   *)
(***************************************************************************)
LEMMA SumSteps ==
  ASSUME NEW s \in Seq(Nat)
  PROVE  \E f \in [0 .. Len(s) -> Nat] :
           /\ f[0] = 0
           /\ \A i \in 1 .. Len(s) : f[i] = f[i - 1] + s[i]
           /\ Sum(s) = f[Len(s)]
<1> DEFINE N == Len(s)
           step == [x \in (1 .. N) \X Nat |-> x[2] + s[x[1]]]
           IsSum(g) == g = [n \in 0 .. Len(s) |-> IF n = 0 THEN 0 ELSE g[n - 1] + s[n]]
           upTo == CHOOSE g : IsSum(g)
<1>1. step \in [(1 .. N) \X Nat -> Nat] OBVIOUS
<1>2. PICK f : Follows(f, Nat, N, 0, step)
  <2>1. N \in Nat /\ 0 \in Nat OBVIOUS
  <2> HIDE DEF step, N
  <2> QED BY <1>1, <2>1, Recursion, Zenon
<1>3. ASSUME NEW i \in 1 .. N PROVE f[i] = f[i - 1] + s[i]
  <2>1. f[i - 1] \in Nat BY <1>2 DEF Follows
  <2>2. <<i, f[i - 1]>> \in (1 .. N) \X Nat BY <2>1
  <2>3. step[<<i, f[i - 1]>>] = f[i - 1] + s[i] BY <2>2
  <2> HIDE DEF step
  <2> QED BY <1>2, <2>3 DEF Follows
<1>4. IsSum(f) BY <1>2, <1>3 DEF Follows
<1>5. IsSum(upTo) BY <1>4
<1>6. Sum(s) = upTo[Len(s)] BY DEF Sum
<1> HIDE DEF upTo
<1>7. upTo[0] = 0 BY <1>5
<1>8. ASSUME NEW i \in 1 .. Len(s) PROVE upTo[i] = upTo[i - 1] + s[i]
  <2>1. i \in 0 .. Len(s) /\ i # 0 OBVIOUS
  <2> QED BY <1>5, <2>1
<1> DEFINE S == {n \in Nat : n <= N => upTo[n] \in Nat}
<1>9. Nat \subseteq S
  <2>1. 0 \in S BY <1>7
  <2>2. ASSUME NEW n \in Nat, n \in S PROVE n + 1 \in S
    <3> SUFFICES ASSUME n + 1 <= N PROVE upTo[n + 1] \in Nat OBVIOUS
    <3>1. n + 1 \in 1 .. Len(s) /\ upTo[n] \in Nat /\ s[n + 1] \in Nat BY <2>2
    <3>2. upTo[n + 1] = upTo[n] + s[n + 1] BY <3>1, <1>8
    <3> QED BY <3>1, <3>2
  <2> HIDE DEF S
  <2> QED BY <2>1, <2>2, SetInduction
<1>10. upTo \in [0 .. Len(s) -> Nat]
  <2>1. DOMAIN upTo = 0 .. Len(s) /\ upTo = [n \in 0 .. Len(s) |-> upTo[n]] BY <1>5
  <2>2. \A n \in 0 .. Len(s) : upTo[n] \in Nat BY <1>9
  <2> QED BY <2>1, <2>2
<1> QED BY <1>6, <1>7, <1>8, <1>10

LEMMA SumIs ==
  ASSUME NEW s \in Seq(Nat), NEW f \in [0 .. Len(s) -> Nat], f[0] = 0,
         \A i \in 1 .. Len(s) : f[i] = f[i - 1] + s[i]
  PROVE  Sum(s) = f[Len(s)]
<1>1. PICK g \in [0 .. Len(s) -> Nat] :
        /\ g[0] = 0
        /\ \A i \in 1 .. Len(s) : g[i] = g[i - 1] + s[i]
        /\ Sum(s) = g[Len(s)]
  BY SumSteps
<1> DEFINE S == {n \in Nat : n <= Len(s) => f[n] = g[n]}
<1>2. 0 \in S BY <1>1
<1>3. ASSUME NEW n \in Nat, n \in S PROVE n + 1 \in S
  <2> SUFFICES ASSUME n + 1 <= Len(s) PROVE f[n + 1] = g[n + 1] OBVIOUS
  <2>1. n + 1 \in 1 .. Len(s) /\ (n + 1) - 1 = n /\ f[n] = g[n] BY <1>3
  <2> QED BY <1>1, <2>1
<1> HIDE DEF S
<1>4. Nat \subseteq S BY <1>2, <1>3, SetInduction
<1>5. Len(s) \in S BY <1>4
<1> QED BY <1>1, <1>5 DEF S

LEMMA SumType ==
  ASSUME NEW s \in Seq(Nat)
  PROVE  Sum(s) \in Nat
BY SumSteps

LEMMA SumConcat ==
  ASSUME NEW s \in Seq(Nat), NEW t \in Seq(Nat)
  PROVE  Sum(s \o t) = Sum(s) + Sum(t)
<1>1. PICK f \in [0 .. Len(s) -> Nat] :
        /\ f[0] = 0
        /\ \A i \in 1 .. Len(s) : f[i] = f[i - 1] + s[i]
        /\ Sum(s) = f[Len(s)]
  BY SumSteps
<1>2. PICK g \in [0 .. Len(t) -> Nat] :
        /\ g[0] = 0
        /\ \A i \in 1 .. Len(t) : g[i] = g[i - 1] + t[i]
        /\ Sum(t) = g[Len(t)]
  BY SumSteps
<1> DEFINE m == Len(s)
           u == s \o t
           h == [i \in 0 .. Len(u) |-> IF i <= m THEN f[i] ELSE f[m] + g[i - m]]
<1>3. u \in Seq(Nat) /\ Len(u) = m + Len(t) OBVIOUS
<1>4. h \in [0 .. Len(u) -> Nat]
  <2> SUFFICES ASSUME NEW i \in 0 .. Len(u) PROVE h[i] \in Nat OBVIOUS
  <2>1. CASE i <= m BY <2>1
  <2>2. CASE i > m
    <3>1. i - m \in 0 .. Len(t) /\ m \in 0 .. Len(s) BY <1>3, <2>2
    <3>2. f[m] \in Nat /\ g[i - m] \in Nat BY <3>1, <1>1, <1>2
    <3>3. h[i] = f[m] + g[i - m] BY <2>2
    <3> QED BY <3>2, <3>3
  <2> QED BY <2>1, <2>2
<1>5. h[0] = 0 BY <1>1, <1>3
<1>6. ASSUME NEW i \in 1 .. Len(u) PROVE h[i] = h[i - 1] + u[i]
  <2>1. CASE i <= m
    <3>1. u[i] = s[i] /\ i \in 1 .. Len(s) BY <2>1
    <3>2. h[i] = f[i] /\ h[i - 1] = f[i - 1] BY <2>1
    <3> QED BY <3>1, <3>2, <1>1
  <2>2. CASE i = m + 1
    <3>1. u[i] = t[1] /\ 1 \in 1 .. Len(t) BY <2>2, <1>3
    <3>2. h[i] = f[m] + g[1] /\ h[i - 1] = f[m] BY <2>2
    <3>3. g[1] = t[1] BY <3>1, <1>2
    <3> QED BY <3>1, <3>2, <3>3
  <2>3. CASE i > m + 1
    <3>1. u[i] = t[i - m] /\ i - m \in 1 .. Len(t) BY <2>3, <1>3
    <3>2. h[i] = f[m] + g[i - m] /\ h[i - 1] = f[m] + g[(i - m) - 1] BY <2>3
    <3>3. g[i - m] = g[(i - m) - 1] + t[i - m] BY <3>1, <1>2
    <3>4. f[m] \in Nat /\ g[(i - m) - 1] \in Nat /\ t[i - m] \in Nat
      <4>1. m \in 0 .. Len(s) /\ (i - m) - 1 \in 0 .. Len(t) BY <3>1
      <4>2. f[m] \in Nat BY <4>1, <1>1
      <4>3. g[(i - m) - 1] \in Nat BY <4>1, <1>2
      <4>4. t[i - m] \in Nat BY <3>1
      <4> QED BY <4>2, <4>3, <4>4
    <3> QED BY <3>1, <3>2, <3>3, <3>4
  <2> QED BY <2>1, <2>2, <2>3
<1> HIDE DEF h
<1>7. Sum(u) = h[Len(u)] BY <1>3, <1>4, <1>5, <1>6, SumIs
<1>8. h[Len(u)] = f[m] + g[Len(t)]
  <2>1. CASE Len(t) = 0 BY <2>1, <1>2, <1>3 DEF h
  <2>2. CASE Len(t) > 0 BY <2>2, <1>3 DEF h
  <2> QED BY <2>1, <2>2
<1> QED BY <1>1, <1>2, <1>7, <1>8

LEMMA SumEmpty == Sum(<< >>) = 0
<1> DEFINE f == [i \in 0 .. 0 |-> 0]
<1>1. << >> \in Seq(Nat) /\ Len(<< >>) = 0 OBVIOUS
<1>2. f \in [0 .. Len(<< >>) -> Nat] /\ f[0] = 0 BY <1>1
<1>3. Sum(<< >>) = f[Len(<< >>)]
  <2> HIDE DEF f
  <2> QED BY <1>1, <1>2, SumIs
<1> QED BY <1>1, <1>2, <1>3

(***************************************************************************)
(* The bytes of files, what expires and what is evicted.                   *)
(***************************************************************************)
LEMMA FileShape ==
  ASSUME NEW f \in File
  PROVE  f.size \in Nat /\ f.part \in 1 .. 2 /\ f.left \in 0 .. Ttl
BY StoreAssumption DEF File

LEMMA BytesType ==
  ASSUME NEW fs \in Seq(File)
  PROVE  Bytes(fs) \in Nat
<1> DEFINE s == [i \in 1 .. Len(fs) |-> fs[i].size]
<1>1. \A i \in 1 .. Len(fs) : fs[i].size \in Nat BY FileShape
<1>2. s \in Seq(Nat) BY <1>1
<1> HIDE DEF s
<1>3. Sum(s) \in Nat BY <1>2, SumType
<1> QED BY <1>3 DEF Bytes, s

LEMMA BytesEmpty == Bytes(<< >>) = 0
<1>1. [i \in 1 .. Len(<< >>) |-> << >>[i].size] = << >> OBVIOUS
<1> QED BY <1>1, SumEmpty DEF Bytes

LEMMA BytesConcat ==
  ASSUME NEW fs \in Seq(File), NEW gs \in Seq(File)
  PROVE  Bytes(fs \o gs) = Bytes(fs) + Bytes(gs)
<1> DEFINE s == [i \in 1 .. Len(fs) |-> fs[i].size]
           t == [i \in 1 .. Len(gs) |-> gs[i].size]
           hs == fs \o gs
           u == [i \in 1 .. Len(hs) |-> hs[i].size]
<1>1. s \in Seq(Nat) /\ Len(s) = Len(fs)
  <2>1. \A i \in 1 .. Len(fs) : fs[i].size \in Nat BY FileShape
  <2> QED BY <2>1
<1>2. t \in Seq(Nat) /\ Len(t) = Len(gs)
  <2>1. \A i \in 1 .. Len(gs) : gs[i].size \in Nat BY FileShape
  <2> QED BY <2>1
<1>3. u = s \o t
  <2>1. Len(hs) = Len(fs) + Len(gs) OBVIOUS
  <2>2. ASSUME NEW i \in 1 .. Len(hs)
        PROVE  hs[i].size = (s \o t)[i]
    <3>1. CASE i <= Len(fs)
      <4>1. hs[i] = fs[i] /\ i \in 1 .. Len(fs) BY <3>1
      <4>2. s[i] = fs[i].size BY <4>1
      <4>3. (s \o t)[i] = s[i]
        <5> HIDE DEF s, t
        <5> QED BY <4>1, <1>1, <1>2
      <4> QED BY <4>1, <4>2, <4>3
    <3>2. CASE i > Len(fs)
      <4>1. hs[i] = gs[i - Len(fs)] /\ i - Len(fs) \in 1 .. Len(gs) BY <3>2, <2>1
      <4>2. t[i - Len(fs)] = gs[i - Len(fs)].size BY <4>1
      <4>3. (s \o t)[i] = t[i - Len(fs)]
        <5>1. i \in 1 .. Len(s) + Len(t) /\ i > Len(s) BY <2>1, <3>2, <1>1, <1>2
        <5> HIDE DEF s, t
        <5> QED BY <5>1, <1>1, <1>2
      <4> QED BY <4>1, <4>2, <4>3
    <3> QED BY <3>1, <3>2
  <2>3. u \in Seq(Nat) /\ Len(u) = Len(hs)
    <3>1. \A i \in 1 .. Len(hs) : hs[i].size \in Nat BY FileShape
    <3> HIDE DEF hs
    <3>2. Len(hs) \in Nat BY <2>1
    <3> QED BY <3>1, <3>2
  <2>4. s \o t \in Seq(Nat) /\ Len(s \o t) = Len(hs)
    <3>1. Len(hs) = Len(s) + Len(t) BY <1>1, <1>2, <2>1
    <3> HIDE DEF s, t, hs
    <3>2. s \o t \in Seq(Nat) /\ Len(s \o t) = Len(s) + Len(t)
      BY <1>1, <1>2, ConcatProperties, Zenon
    <3> QED BY <3>1, <3>2
  <2>5. \A i \in 1 .. Len(u) : u[i] = (s \o t)[i] BY <2>2, <2>3
  <2> DEFINE v == s \o t
  <2> HIDE DEF s, t, hs, u
  <2>6. v \in Seq(Nat) /\ Len(v) = Len(u) /\ \A i \in 1 .. Len(u) : u[i] = v[i]
    BY <2>3, <2>4, <2>5
  <2> HIDE DEF v
  <2>7. u = v BY <2>3, <2>6, SeqEqual, Zenon
  <2> QED BY <2>7 DEF v
<1>4. Sum(u) = Sum(s) + Sum(t)
  <2> HIDE DEF s, t, u
  <2> QED BY <1>1, <1>2, <1>3, SumConcat
<1> QED BY <1>4 DEF Bytes

LEMMA SumOne ==
  ASSUME NEW n \in Nat
  PROVE  Sum(<< n >>) = n
<1> DEFINE s == << n >>
           f == [i \in 0 .. 1 |-> IF i = 0 THEN 0 ELSE n]
<1>1. s \in Seq(Nat) /\ Len(s) = 1 /\ s[1] = n OBVIOUS
<1>2. f \in [0 .. Len(s) -> Nat] /\ f[0] = 0 /\ f[1] = n BY <1>1
<1>3. \A i \in 1 .. Len(s) : f[i] = f[i - 1] + s[i]
  <2> SUFFICES ASSUME NEW i \in 1 .. 1 PROVE f[i] = f[i - 1] + s[i] BY <1>1
  <2>1. i = 1 OBVIOUS
  <2> HIDE DEF f, s
  <2> QED BY <2>1, <1>1, <1>2
<1>4. Sum(s) = f[Len(s)]
  <2> HIDE DEF f, s
  <2> QED BY <1>1, <1>2, <1>3, SumIs
<1> QED BY <1>1, <1>2, <1>4

LEMMA BytesAppend ==
  ASSUME NEW fs \in Seq(File), NEW f \in File
  PROVE  Bytes(Append(fs, f)) = Bytes(fs) + f.size
<1> DEFINE gs == << f >>
<1>1. gs \in Seq(File) /\ Append(fs, f) = fs \o gs OBVIOUS
<1>2. Bytes(gs) = f.size
  <2>1. [i \in 1 .. Len(gs) |-> gs[i].size] = << f.size >> OBVIOUS
  <2>2. f.size \in Nat BY FileShape
  <2> QED BY <2>1, <2>2, SumOne DEF Bytes
<1> HIDE DEF gs
<1> QED BY <1>1, <1>2, BytesConcat

(* The walk of Expired over the first n files.                             *)
Walks(a, fs) ==
  /\ a \in [0 .. Len(fs) -> Seq(File)]
  /\ a[0] = << >>
  /\ \A n \in 1 .. Len(fs) :
       a[n] = IF fs[n].left > 0 THEN Append(a[n - 1], fs[n]) ELSE a[n - 1]

LEMMA ExpiredWalks ==
  ASSUME NEW fs \in Seq(File)
  PROVE  \E a : Walks(a, fs) /\ Expired(fs) = a[Len(fs)]
<1> DEFINE N == Len(fs)
           step == [x \in (1 .. N) \X Seq(File) |->
                      IF fs[x[1]].left > 0 THEN Append(x[2], fs[x[1]]) ELSE x[2]]
           IsWalk(g) == g = [n \in 0 .. Len(fs) |->
                              IF n = 0 THEN << >>
                              ELSE IF fs[n].left > 0 THEN Append(g[n - 1], fs[n]) ELSE g[n - 1]]
           among == CHOOSE g : IsWalk(g)
<1>1. step \in [(1 .. N) \X Seq(File) -> Seq(File)] OBVIOUS
<1>2. PICK f : Follows(f, Seq(File), N, << >>, step)
  <2>1. N \in Nat /\ << >> \in Seq(File) OBVIOUS
  <2> DEFINE X == Seq(File)
             first == << >>
  <2>2. step \in [(1 .. N) \X X -> X] /\ first \in X BY <1>1, <2>1
  <2> HIDE DEF step, N, X, first
  <2>3. \E f : Follows(f, X, N, first, step) BY <2>1, <2>2, Recursion, Zenon
  <2> QED BY <2>3 DEF X, first
<1>3. ASSUME NEW n \in 1 .. N
      PROVE  f[n] = IF fs[n].left > 0 THEN Append(f[n - 1], fs[n]) ELSE f[n - 1]
  <2>1. f[n - 1] \in Seq(File) BY <1>2 DEF Follows
  <2>2. <<n, f[n - 1]>> \in (1 .. N) \X Seq(File) BY <2>1
  <2>3. step[<<n, f[n - 1]>>] = IF fs[n].left > 0 THEN Append(f[n - 1], fs[n]) ELSE f[n - 1]
    BY <2>2
  <2> HIDE DEF step
  <2> QED BY <1>2, <2>3 DEF Follows
<1>4. IsWalk(f)
  <2>1. f = [n \in 0 .. Len(fs) |-> f[n]] BY <1>2 DEF Follows
  <2>2. ASSUME NEW n \in 0 .. Len(fs)
        PROVE  f[n] = IF n = 0 THEN << >>
                      ELSE IF fs[n].left > 0 THEN Append(f[n - 1], fs[n]) ELSE f[n - 1]
    <3>1. CASE n = 0 BY <3>1, <1>2 DEF Follows
    <3>2. CASE n # 0
      <4>1. n \in 1 .. N BY <3>2
      <4> QED BY <4>1, <3>2, <1>3
    <3> QED BY <3>1, <3>2
  <2> QED BY <2>1, <2>2
<1>5. IsWalk(among) BY <1>4
<1>6. Expired(fs) = among[Len(fs)] BY DEF Expired
<1> HIDE DEF among
<1>7. among[0] = << >> BY <1>5
<1>8. ASSUME NEW n \in 1 .. Len(fs)
      PROVE  among[n] = IF fs[n].left > 0 THEN Append(among[n - 1], fs[n]) ELSE among[n - 1]
  <2>1. n \in 0 .. Len(fs) /\ n # 0 OBVIOUS
  <2> QED BY <1>5, <2>1
<1> DEFINE S == {n \in Nat : n <= N => among[n] \in Seq(File)}
<1>9. Nat \subseteq S
  <2>1. 0 \in S
    <3>1. << >> \in Seq(File) OBVIOUS
    <3> QED BY <3>1, <1>7
  <2>2. ASSUME NEW n \in Nat, n \in S PROVE n + 1 \in S
    <3> SUFFICES ASSUME n + 1 <= N PROVE among[n + 1] \in Seq(File) OBVIOUS
    <3>1. n + 1 \in 1 .. Len(fs) /\ among[n] \in Seq(File) /\ fs[n + 1] \in File BY <2>2
    <3>2. among[n + 1] = IF fs[n + 1].left > 0 THEN Append(among[n], fs[n + 1]) ELSE among[n]
      BY <3>1, <1>8
    <3> QED BY <3>1, <3>2
  <2> HIDE DEF S
  <2> QED BY <2>1, <2>2, SetInduction
<1>10. among \in [0 .. Len(fs) -> Seq(File)]
  <2>1. DOMAIN among = 0 .. Len(fs) /\ among = [n \in 0 .. Len(fs) |-> among[n]] BY <1>5
  <2>2. \A n \in 0 .. Len(fs) : among[n] \in Seq(File) BY <1>9
  <2> QED BY <2>1, <2>2
<1>11. Walks(among, fs) BY <1>7, <1>8, <1>10 DEF Walks
<1> QED BY <1>6, <1>11

LEMMA ExpiredType ==
  ASSUME NEW fs \in Seq(File)
  PROVE  Expired(fs) \in Seq(File)
<1>1. PICK a : Walks(a, fs) /\ Expired(fs) = a[Len(fs)] BY ExpiredWalks
<1> QED BY <1>1 DEF Walks

(* What is left after a cleanup has no more bytes than there were.         *)
LEMMA ExpiredBytes ==
  ASSUME NEW fs \in Seq(File)
  PROVE  Bytes(Expired(fs)) <= Bytes(fs)
<1>1. PICK a : Walks(a, fs) /\ Expired(fs) = a[Len(fs)] BY ExpiredWalks
<1> DEFINE s == [i \in 1 .. Len(fs) |-> fs[i].size]
<1>2. s \in Seq(Nat) /\ Len(s) = Len(fs)
  <2>1. \A i \in 1 .. Len(fs) : fs[i].size \in Nat BY FileShape
  <2> QED BY <2>1
<1>3. PICK f \in [0 .. Len(s) -> Nat] :
        /\ f[0] = 0
        /\ \A i \in 1 .. Len(s) : f[i] = f[i - 1] + s[i]
        /\ Sum(s) = f[Len(s)]
  <2> HIDE DEF s
  <2> QED BY <1>2, SumSteps
<1> DEFINE S == {n \in Nat : n <= Len(fs) => Bytes(a[n]) <= f[n]}
<1>4. 0 \in S BY <1>1, <1>3, BytesEmpty DEF Walks
<1>5. ASSUME NEW n \in Nat, n \in S PROVE n + 1 \in S
  <2> SUFFICES ASSUME n + 1 <= Len(fs) PROVE Bytes(a[n + 1]) <= f[n + 1] OBVIOUS
  <2>1. n + 1 \in 1 .. Len(fs) /\ (n + 1) - 1 = n /\ n \in 0 .. Len(fs) OBVIOUS
  <2>2. Bytes(a[n]) <= f[n] BY <1>5
  <2>3. f[n + 1] = f[n] + fs[n + 1].size BY <2>1, <1>2, <1>3
  <2>4. a[n] \in Seq(File) /\ fs[n + 1] \in File
    <3>1. a[n] \in Seq(File) BY <2>1, <1>1 DEF Walks
    <3>2. fs[n + 1] \in File BY <2>1
    <3> QED BY <3>1, <3>2
  <2>5. fs[n + 1].size \in Nat /\ f[n] \in Nat
    <3>1. f[n] \in Nat BY <2>1, <1>2, <1>3
    <3> QED BY <3>1, <2>4, FileShape
  <2>6. Bytes(a[n]) \in Nat BY <2>4, BytesType
  <2>7. CASE fs[n + 1].left > 0
    <3>1. a[n + 1] = Append(a[n], fs[n + 1]) BY <2>1, <2>7, <1>1 DEF Walks
    <3>2. Bytes(a[n + 1]) = Bytes(a[n]) + fs[n + 1].size BY <3>1, <2>4, BytesAppend
    <3> QED BY <3>2, <2>2, <2>3, <2>5, <2>6
  <2>8. CASE ~ (fs[n + 1].left > 0)
    <3>1. a[n + 1] = a[n] BY <2>1, <2>8, <1>1 DEF Walks
    <3> QED BY <3>1, <2>2, <2>3, <2>5, <2>6
  <2> QED BY <2>7, <2>8
<1> HIDE DEF S
<1>6. Nat \subseteq S BY <1>4, <1>5, SetInduction
<1>7. Bytes(a[Len(fs)]) <= f[Len(fs)] BY <1>6 DEF S
<1> QED BY <1>1, <1>2, <1>3, <1>7 DEF Bytes

(* Files at the end that have not expired stay at the end, in their order. *)
LEMMA ExpiredKeepsLast ==
  ASSUME NEW fs \in Seq(File), NEW older \in Nat, NEW k \in Nat, Len(fs) = older + k,
         \A i \in 1 .. k : fs[older + i].left > 0
  PROVE  \E o \in Nat : /\ Len(Expired(fs)) = o + k
                        /\ \A i \in 1 .. k : Expired(fs)[o + i] = fs[older + i]
<1>1. PICK a : Walks(a, fs) /\ Expired(fs) = a[Len(fs)] BY ExpiredWalks
<1> DEFINE o == Len(a[older])
           Kept(n) == /\ Len(a[older + n]) = o + n
                      /\ \A i \in 1 .. n : a[older + n][o + i] = fs[older + i]
           S == {n \in Nat : n <= k => Kept(n)}
<1>2. \A n \in 0 .. k : a[older + n] \in Seq(File) BY <1>1 DEF Walks
<1>3. o \in Nat
  <2>1. 0 \in 0 .. k /\ older + 0 = older OBVIOUS
  <2>2. a[older] \in Seq(File) BY <2>1, <1>2
  <2> QED BY <2>2
<1>4. 0 \in S BY <1>3
<1>5. ASSUME NEW n \in Nat, n \in S PROVE n + 1 \in S
  <2> SUFFICES n + 1 <= k => Kept(n + 1)
    <3> HIDE DEF Kept
    <3> QED OBVIOUS
  <2> HAVE n + 1 <= k
  <2>1. older + (n + 1) \in 1 .. Len(fs) /\ (older + (n + 1)) - 1 = older + n OBVIOUS
  <2>2. Kept(n) BY <1>5
  <2>3. fs[older + (n + 1)].left > 0 OBVIOUS
  <2>4. a[older + (n + 1)] = Append(a[older + n], fs[older + (n + 1)])
    BY <2>1, <2>3, <1>1 DEF Walks
  <2> DEFINE old == a[older + n]
             new == fs[older + (n + 1)]
  <2>5. old \in Seq(File) /\ new \in File
    <3>1. n \in 0 .. k OBVIOUS
    <3>2. new \in File BY <2>1
    <3> QED BY <3>1, <3>2, <1>2
  <2>6. Len(old) = o + n /\ \A i \in 1 .. n : old[o + i] = fs[older + i] BY <2>2
  <2> HIDE DEF o, old
  <2>7. /\ Len(Append(old, new)) = o + (n + 1)
        /\ \A i \in 1 .. n : Append(old, new)[o + i] = old[o + i]
        /\ Append(old, new)[o + (n + 1)] = new
    BY <2>5, <2>6, <1>3
  <2>8. \A i \in 1 .. n + 1 : Append(old, new)[o + i] = fs[older + i]
    <3> TAKE i \in 1 .. n + 1
    <3>1. CASE i \in 1 .. n BY <3>1, <2>6, <2>7
    <3>2. CASE i = n + 1 BY <3>2, <2>7
    <3>3. i \in 1 .. n \/ i = n + 1 OBVIOUS
    <3> QED BY <3>1, <3>2, <3>3
  <2> QED BY <2>4, <2>7, <2>8 DEF old
<1> HIDE DEF S, o
<1>6. Nat \subseteq S BY <1>4, <1>5, SetInduction
<1>7. Kept(k)
  <2>1. k \in S BY <1>6
  <2> HIDE DEF Kept
  <2> QED BY <2>1 DEF S
<1> QED BY <1>1, <1>3, <1>7

(* Eviction makes the room that it is asked for: the number of files that  *)
(* it takes away exists, because all of them is one.                       *)
LEMMA EvictedFits ==
  ASSUME NEW fs \in Seq(File), NEW room \in Nat
  PROVE  Evicted(fs, room) \in Seq(File) /\ Bytes(Evicted(fs, room)) <= room
<1> DEFINE fits(k) == k = Len(fs) \/ Bytes(SubSeq(fs, k + 1, Len(fs))) <= room
           IsLeast(k) == fits(k) /\ \A i \in 0 .. k - 1 : ~ fits(i)
           least == CHOOSE k \in 0 .. Len(fs) : IsLeast(k)
           T == {k \in 0 .. Len(fs) : fits(k)}
<1>1. Len(fs) \in T /\ T \subseteq Nat OBVIOUS
<1>2. PICK m \in T : \A y \in T : m <= y
  <2> HIDE DEF T
  <2> QED BY <1>1, LeastNumber
<1>3. m \in 0 .. Len(fs) /\ IsLeast(m)
  <2>1. m \in 0 .. Len(fs) /\ fits(m) OBVIOUS
  <2>2. ASSUME NEW i \in 0 .. m - 1 PROVE ~ fits(i)
    <3>1. i \in 0 .. Len(fs) /\ ~ (m <= i) BY <2>1
    <3> HIDE DEF fits
    <3> QED BY <3>1, <1>2
  <2> QED BY <2>1, <2>2
<1>4. least \in 0 .. Len(fs) /\ IsLeast(least)
  <2> HIDE DEF IsLeast
  <2> QED BY <1>3
<1>5. Evicted(fs, room) = SubSeq(fs, least + 1, Len(fs)) BY DEF Evicted
<1> HIDE DEF least
<1>6. SubSeq(fs, least + 1, Len(fs)) \in Seq(File) BY <1>4
<1>7. CASE least = Len(fs)
  <2>1. SubSeq(fs, least + 1, Len(fs)) = << >> BY <1>7, <1>4
  <2>2. Evicted(fs, room) = << >> /\ << >> \in Seq(File) BY <2>1, <1>5
  <2> QED BY <2>2, BytesEmpty
<1>8. CASE Bytes(SubSeq(fs, least + 1, Len(fs))) <= room BY <1>5, <1>6, <1>8
<1> QED BY <1>4, <1>7, <1>8

(***************************************************************************)
(* The new files of a connection.                                          *)
(***************************************************************************)
LEMMA MeshesShape ==
  ASSUME NEW m \in Meshes
  PROVE  m \in Seq(Size) /\ Len(m) \in 0 .. 2 /\ 1 .. Len(m) \subseteq 1 .. 2
<1>1. PICK n \in 0 .. 2 : m \in [1 .. n -> Size] BY DEF Meshes
<1>2. Len(m) = n /\ m \in Seq(Size) BY <1>1
<1>3. 1 .. n \subseteq 1 .. 2 OBVIOUS
<1> QED BY <1>2, <1>3

LEMMA EmptyMeshes == << >> \in Meshes
<1>1. << >> \in [1 .. 0 -> Size] OBVIOUS
<1> QED BY <1>1 DEF Meshes

LEMMA NewFiles ==
  ASSUME NEW c \in Connection, meshes \in [Connection -> Meshes]
  PROVE  /\ New(c) \in Seq(File)
         /\ Len(New(c)) = Len(meshes[c]) /\ Len(meshes[c]) \in 0 .. 2
         /\ \A i \in 1 .. Len(meshes[c]) : New(c)[i].part = i /\ New(c)[i].left = Ttl
         /\ Bytes(New(c)) = Total(c)
         /\ Total(c) \in Nat
<1> DEFINE m == meshes[c]
<1>1. m \in Seq(Size) /\ Len(m) \in 0 .. 2 BY MeshesShape
<1>2. 1 .. Len(m) \subseteq 1 .. 2 BY MeshesShape
<1> HIDE DEF m
<1>8. m \in Seq(Nat)
  <2>1. \A i \in 1 .. Len(m) : m[i] \in Size BY <1>1
  <2>2. \A i \in 1 .. Len(m) : m[i] \in Nat BY <2>1, StoreAssumption
  <2> QED BY <2>2, <1>1
<1>3. \A i \in 1 .. Len(m) : [part |-> i, size |-> m[i], left |-> Ttl] \in File
  <2> TAKE i \in 1 .. Len(m)
  <2>1. m[i] \in Size BY <1>1
  <2>2. i \in 1 .. 2 BY <1>2
  <2>3. Ttl \in 0 .. Ttl BY StoreAssumption
  <2> QED BY <2>1, <2>2, <2>3 DEF File
<1>4. /\ New(c) = [i \in 1 .. Len(m) |-> [part |-> i, size |-> m[i], left |-> Ttl]]
      /\ New(c) \in Seq(File)
      /\ Len(New(c)) = Len(m)
  BY <1>1, <1>3 DEF New, m
<1>5. [i \in 1 .. Len(New(c)) |-> New(c)[i].size] = m
  <2>1. \A i \in 1 .. Len(m) : New(c)[i].size = m[i] BY <1>4
  <2>2. m = [i \in 1 .. Len(m) |-> m[i]] BY <1>1
  <2> QED BY <2>1, <2>2, <1>4
<1>6. Bytes(New(c)) = Sum(m) BY <1>5 DEF Bytes
<1>7. Sum(m) \in Nat BY <1>8, SumType
<1> QED BY <1>1, <1>4, <1>6, <1>7 DEF m, Total

(* What publish leaves in the store, if there is room at all.              *)
LEMMA Published ==
  ASSUME NEW c \in Connection, meshes \in [Connection -> Meshes], files \in Seq(File),
         Total(c) <= MaxBytes
  PROVE  LET kept == Evicted(Expired(files), MaxBytes - Total(c))
         IN  kept \in Seq(File) /\ Bytes(kept \o New(c)) <= MaxBytes
<1> DEFINE room == MaxBytes - Total(c)
           kept == Evicted(Expired(files), room)
<1>1. room \in Nat BY NewFiles, StoreAssumption
<1>2. Expired(files) \in Seq(File) BY ExpiredType
<1>3. kept \in Seq(File) /\ Bytes(kept) <= room
  <2> HIDE DEF room
  <2> QED BY <1>1, <1>2, EvictedFits
<1>4. New(c) \in Seq(File) /\ Bytes(New(c)) = Total(c) /\ Total(c) \in Nat BY NewFiles
<1>5. Bytes(kept) \in Nat BY <1>3, BytesType
<1> HIDE DEF kept
<1>6. Bytes(kept \o New(c)) = Bytes(kept) + Bytes(New(c)) BY <1>3, <1>4, BytesConcat
<1>7. Bytes(kept \o New(c)) <= MaxBytes BY <1>3, <1>4, <1>5, <1>6, StoreAssumption
<1> QED BY <1>3, <1>7 DEF kept

(***************************************************************************)
(* The threads and their slots.                                            *)
(***************************************************************************)
(* What a step does to the slots: it takes one, gives one back, or neither.*)
LEMMA ServingCounts ==
  ASSUME TypeOK, NEW c \in Connection, NEW p \in PC, pc' = [pc EXCEPT ![c] = p]
  PROVE  /\ Cardinality(Serving) \in Nat
         /\ pc[c] = "off" /\ p # "off" => Cardinality(Serving') = Cardinality(Serving) + 1
         /\ pc[c] # "off" /\ p = "off" => Cardinality(Serving') = Cardinality(Serving) - 1
         /\ pc[c] # "off" /\ p # "off" => Cardinality(Serving') = Cardinality(Serving)
<1>1. IsFiniteSet(Serving)
  <2>1. Serving \subseteq Connection BY DEF Serving
  <2> QED BY <2>1, ConnectionAssumption, FS_Subset
<1>2. Cardinality(Serving) \in Nat BY <1>1, FS_CardinalityType
<1>3. Serving' = IF p = "off" THEN Serving \ {c} ELSE Serving \cup {c}
  BY DEF Serving, TypeOK
<1>4. c \in Serving <=> pc[c] # "off" BY DEF Serving
<1>5. CASE pc[c] = "off" /\ p # "off"
  <2>1. Serving' = Serving \cup {c} /\ c \notin Serving BY <1>3, <1>4, <1>5
  <2> QED BY <2>1, <1>1, <1>2, <1>5, FS_AddElement
<1>6. CASE pc[c] # "off" /\ p = "off"
  <2>1. Serving' = Serving \ {c} /\ c \in Serving BY <1>3, <1>4, <1>6
  <2> QED BY <2>1, <1>1, <1>2, <1>6, FS_RemoveElement
<1>7. CASE pc[c] # "off" /\ p # "off"
  <2>1. Serving' = Serving BY <1>3, <1>4, <1>7
  <2> QED BY <2>1, <1>2, <1>7
<1>8. CASE pc[c] = "off" /\ p = "off" BY <1>2, <1>8
<1> QED BY <1>5, <1>6, <1>7, <1>8

SlotsAddUp == slots + Cardinality(Serving) = MaxWorkers
CompilerOwned == \A c \in Connection : pc[c] = "compile" <=> compiler = c

(* The store, and what it promises.                                        *)
StoreOK == /\ files \in Seq(File)
           /\ newest \in [parts : 0 .. 2, left : 0 .. Ttl]
           /\ BytesBounded
           /\ NewestIsWhole

LEMMA NoneIsNoConnection == \A c \in Connection : c # None
BY ConnectionAssumption

(* The threads: a move of one thread that does with the slots what its     *)
(* coming or going asks for, and with the compiler what its place asks for.*)
LEMMA Moves ==
  ASSUME TypeOK, SlotsAddUp, CompilerOwned,
         NEW c \in Connection, NEW p \in PC, p # pc[c],
         pc' = [pc EXCEPT ![c] = p],
         slots' = IF p = "off" THEN slots + 1 ELSE IF pc[c] = "off" THEN slots - 1 ELSE slots,
         pc[c] = "off" => slots > 0,
         p = "compile" => compiler = None,
         compiler' = IF p = "compile" THEN c ELSE IF compiler = c THEN None ELSE compiler
  PROVE  /\ slots' \in 0 .. MaxWorkers
         /\ pc' \in [Connection -> PC]
         /\ compiler' \in Connection \cup {None}
         /\ SlotsAddUp'
         /\ CompilerOwned'
<1>1. /\ Cardinality(Serving) \in Nat
      /\ pc[c] = "off" /\ p # "off" => Cardinality(Serving') = Cardinality(Serving) + 1
      /\ pc[c] # "off" /\ p = "off" => Cardinality(Serving') = Cardinality(Serving) - 1
      /\ pc[c] # "off" /\ p # "off" => Cardinality(Serving') = Cardinality(Serving)
  BY ServingCounts
<1>2. slots \in Nat /\ MaxWorkers \in Nat /\ slots <= MaxWorkers
  BY WorkersAssumption DEF TypeOK
<1>3. SlotsAddUp' /\ slots' \in Nat
  <2>1. CASE pc[c] = "off" /\ p # "off"
    <3>1. slots' = slots - 1 /\ slots > 0 BY <2>1
    <3> QED BY <3>1, <2>1, <1>1, <1>2 DEF SlotsAddUp
  <2>2. CASE pc[c] # "off" /\ p = "off"
    <3>1. slots' = slots + 1 BY <2>2
    <3> QED BY <3>1, <2>2, <1>1, <1>2 DEF SlotsAddUp
  <2>3. CASE pc[c] # "off" /\ p # "off"
    <3>1. slots' = slots BY <2>3
    <3> QED BY <3>1, <2>3, <1>1, <1>2 DEF SlotsAddUp
  <2> QED BY <2>1, <2>2, <2>3
<1>4. Cardinality(Serving') \in Nat
  <2>1. Serving' \subseteq Connection BY DEF Serving
  <2>2. IsFiniteSet(Serving') BY <2>1, ConnectionAssumption, FS_Subset
  <2> QED BY <2>2, FS_CardinalityType
<1>5. slots' \in 0 .. MaxWorkers BY <1>2, <1>3, <1>4 DEF SlotsAddUp
<1>6. pc' \in [Connection -> PC] BY DEF TypeOK
<1>7. compiler' \in Connection \cup {None} BY DEF TypeOK
<1>8. CompilerOwned'
  <2> SUFFICES ASSUME NEW d \in Connection PROVE pc'[d] = "compile" <=> compiler' = d
    BY DEF CompilerOwned
  <2>1. pc[d] = "compile" <=> compiler = d BY DEF CompilerOwned
  <2>2. d # None BY NoneIsNoConnection
  <2>3. pc'[d] = IF d = c THEN p ELSE pc[d] BY DEF TypeOK
  <2>4. CASE d = c BY <2>1, <2>2, <2>3, <2>4
  <2>5. CASE d # c BY <2>1, <2>2, <2>3, <2>5
  <2> QED BY <2>4, <2>5
<1> QED BY <1>3, <1>5, <1>6, <1>7, <1>8

ThreadsOK ==
  /\ slots \in 0 .. MaxWorkers
  /\ pc \in [Connection -> PC]
  /\ compiler \in Connection \cup {None}
  /\ meshes \in [Connection -> Meshes]
  /\ SlotsAddUp
  /\ CompilerOwned

LEMMA ThreadsStart == Init => ThreadsOK
<1> SUFFICES ASSUME Init PROVE ThreadsOK OBVIOUS
<1>1. meshes \in [Connection -> Meshes] BY EmptyMeshes DEF Init
<1>2. pc \in [Connection -> PC] BY DEF Init, PC
<1>3. slots \in 0 .. MaxWorkers /\ compiler \in Connection \cup {None}
  BY WorkersAssumption DEF Init
<1>4. SlotsAddUp
  <2>1. Serving = {} BY DEF Init, Serving
  <2>2. Cardinality(Serving) = 0 BY <2>1, FS_EmptySet
  <2> QED BY <2>2, WorkersAssumption DEF Init, SlotsAddUp
<1>5. CompilerOwned BY NoneIsNoConnection DEF Init, CompilerOwned
<1> QED BY <1>1, <1>2, <1>3, <1>4, <1>5 DEF ThreadsOK

LEMMA ThreadsKeep ==
  ASSUME TypeOK, SlotsAddUp, CompilerOwned, [Next]_vars
  PROVE  ThreadsOK'
<1> USE DEF Goes, PC
<1>1. CASE UNCHANGED <<slots, pc, compiler, meshes>>
  BY <1>1 DEF TypeOK, ThreadsOK, SlotsAddUp, CompilerOwned, Serving
<1>2. ASSUME NEW c \in Connection, Accept(c) PROVE ThreadsOK'
  BY <1>2, Moves, NoneIsNoConnection DEF Accept, ThreadsOK, TypeOK, CompilerOwned
<1>3. ASSUME NEW c \in Connection, StartThread(c) PROVE ThreadsOK'
  BY <1>3, Moves, NoneIsNoConnection DEF StartThread, ThreadsOK, TypeOK, CompilerOwned
<1>4. ASSUME NEW c \in Connection, StartFails(c) PROVE ThreadsOK'
  BY <1>4, Moves, NoneIsNoConnection DEF StartFails, ThreadsOK, TypeOK, CompilerOwned
<1>5. ASSUME NEW c \in Connection, Answer(c) PROVE ThreadsOK'
  BY <1>5, Moves, NoneIsNoConnection DEF Answer, ThreadsOK, TypeOK, CompilerOwned
<1>6. ASSUME NEW c \in Connection, Download(c) PROVE ThreadsOK'
  BY <1>6, Moves, NoneIsNoConnection DEF Download, ThreadsOK, TypeOK, CompilerOwned
<1>7. ASSUME NEW c \in Connection, Compile(c) PROVE ThreadsOK'
  <2>1. CASE compiler = None
    BY <1>7, <2>1, Moves, NoneIsNoConnection DEF Compile, ThreadsOK, TypeOK, CompilerOwned
  <2>2. CASE compiler # None
    BY <1>7, <2>2, Moves, NoneIsNoConnection DEF Compile, ThreadsOK, TypeOK, CompilerOwned
  <2> QED BY <2>1, <2>2
<1>8. ASSUME NEW c \in Connection, CompileEnds(c) PROVE ThreadsOK'
  <2>1. meshes' \in [Connection -> Meshes] BY <1>8 DEF CompileEnds, TypeOK
  <2>2. pc[c] = "compile" /\ compiler = c BY <1>8 DEF CompileEnds, CompilerOwned
  <2>3. CASE pc' = [pc EXCEPT ![c] = "publish"]
    BY <1>8, <2>1, <2>2, <2>3, Moves DEF CompileEnds, ThreadsOK
  <2>4. CASE pc' = [pc EXCEPT ![c] = "response"]
    BY <1>8, <2>1, <2>2, <2>4, Moves DEF CompileEnds, ThreadsOK
  <2> QED BY <1>8, <2>3, <2>4 DEF CompileEnds
<1>9. ASSUME NEW c \in Connection, Publish(c) PROVE ThreadsOK'
  <2>1. meshes' \in [Connection -> Meshes] BY <1>9, EmptyMeshes DEF Publish, TypeOK
  <2> QED BY <1>9, <2>1, Moves, NoneIsNoConnection DEF Publish, ThreadsOK, TypeOK, CompilerOwned
<1>10. ASSUME NEW c \in Connection, Respond(c) PROVE ThreadsOK'
  <2>1. meshes' \in [Connection -> Meshes] BY <1>10, EmptyMeshes DEF Respond, TypeOK
  <2> QED BY <1>10, <2>1, Moves, NoneIsNoConnection DEF Respond, ThreadsOK, TypeOK, CompilerOwned
<1>11. ASSUME NEW c \in Connection, Release(c) PROVE ThreadsOK'
  BY <1>11, Moves, NoneIsNoConnection DEF Release, ThreadsOK, TypeOK, CompilerOwned
<1>12. CASE Tick BY <1>1, <1>12 DEF Tick
<1>13. CASE UNCHANGED vars BY <1>1, <1>13 DEF vars
<1> QED
  BY <1>2, <1>3, <1>4, <1>5, <1>6, <1>7, <1>8, <1>9, <1>10, <1>11, <1>12, <1>13
  DEF Next, Thread

(***************************************************************************)
(* The store.                                                              *)
(***************************************************************************)
LEMMA StoreStarts == Init => StoreOK
<1> SUFFICES ASSUME Init PROVE StoreOK OBVIOUS
<1>1. files \in Seq(File) BY DEF Init
<1>2. newest \in [parts : 0 .. 2, left : 0 .. Ttl] BY StoreAssumption DEF Init
<1>3. BytesBounded BY BytesEmpty, StoreAssumption DEF Init, BytesBounded
<1>4. NewestIsWhole BY DEF Init, NewestIsWhole
<1> QED BY <1>1, <1>2, <1>3, <1>4 DEF StoreOK

LEMMA DownloadKeeps ==
  ASSUME StoreOK, files' = Expired(files), UNCHANGED newest
  PROVE  StoreOK'
<1>1. files \in Seq(File) BY DEF StoreOK
<1>2. files' \in Seq(File) BY <1>1, ExpiredType
<1>3. BytesBounded'
  <2>1. Bytes(files') <= Bytes(files) BY <1>1, ExpiredBytes
  <2>2. Bytes(files) \in Nat /\ Bytes(files') \in Nat BY <1>1, <1>2, BytesType
  <2>3. Bytes(files) <= MaxBytes BY DEF StoreOK, BytesBounded
  <2> QED BY <2>1, <2>2, <2>3, StoreAssumption DEF BytesBounded
<1>4. NewestIsWhole'
  <2> SUFFICES ASSUME newest.left > 0
               PROVE  \E o \in 0 .. Len(files') :
                        /\ Len(files') = o + newest.parts
                        /\ \A i \in 1 .. newest.parts : /\ files'[o + i].part = i
                                                        /\ files'[o + i].left = newest.left
    BY DEF NewestIsWhole
  <2>1. PICK older \in 0 .. Len(files) :
          /\ Len(files) = older + newest.parts
          /\ \A i \in 1 .. newest.parts : /\ files[older + i].part = i
                                          /\ files[older + i].left = newest.left
    BY DEF StoreOK, NewestIsWhole
  <2>2. newest.parts \in Nat BY DEF StoreOK
  <2>3. older \in Nat BY <1>1, <2>1
  <2>4. \A i \in 1 .. newest.parts : files[older + i].left > 0 BY <2>1
  <2>5. PICK o \in Nat :
          /\ Len(Expired(files)) = o + newest.parts
          /\ \A i \in 1 .. newest.parts : Expired(files)[o + i] = files[older + i]
    BY <1>1, <2>1, <2>2, <2>3, <2>4, ExpiredKeepsLast
  <2>6. o \in 0 .. Len(files') BY <2>2, <2>5
  <2> QED BY <2>1, <2>5, <2>6
<1> QED BY <1>2, <1>3, <1>4 DEF StoreOK

LEMMA PublishKeeps ==
  ASSUME StoreOK, meshes \in [Connection -> Meshes], NEW c \in Connection, Publish(c)
  PROVE  StoreOK'
<1>1. CASE Total(c) > MaxBytes
  BY <1>1 DEF Publish, store, StoreOK, BytesBounded, NewestIsWhole
<1>2. CASE ~ (Total(c) > MaxBytes)
  <2> DEFINE kept == Evicted(Expired(files), MaxBytes - Total(c))
             new == New(c)
             n == Len(meshes[c])
  <2>1. files' = kept \o new /\ newest' = [parts |-> n, left |-> Ttl]
    BY <1>2 DEF Publish, Stored
  <2>2. /\ new \in Seq(File) /\ Len(new) = n /\ n \in 0 .. 2
        /\ \A i \in 1 .. n : new[i].part = i /\ new[i].left = Ttl
        /\ Total(c) \in Nat
    BY NewFiles
  <2>3. files \in Seq(File) BY DEF StoreOK
  <2>4. Total(c) <= MaxBytes BY <1>2, <2>2, StoreAssumption
  <2>5. kept \in Seq(File) /\ Bytes(kept \o new) <= MaxBytes BY <2>3, <2>4, Published
  <2> HIDE DEF kept, new, n
  <2>6. files' \in Seq(File) BY <2>1, <2>2, <2>5
  <2>7. newest' \in [parts : 0 .. 2, left : 0 .. Ttl] BY <2>1, <2>2, StoreAssumption
  <2>8. BytesBounded' BY <2>1, <2>5 DEF BytesBounded
  <2>9. NewestIsWhole'
    <3>1. Len(files') = Len(kept) + n /\ Len(kept) \in 0 .. Len(files') BY <2>1, <2>2, <2>5
    <3>2. \A i \in 1 .. n : files'[Len(kept) + i] = new[i] BY <2>1, <2>2, <2>5
    <3>3. newest'.parts = n /\ newest'.left = Ttl BY <2>1
    <3> QED BY <3>1, <3>2, <3>3, <2>2 DEF NewestIsWhole
  <2> QED BY <2>6, <2>7, <2>8, <2>9 DEF StoreOK
<1> QED BY <1>1, <1>2

(* Time takes from every file what it takes from the newest, and no bytes. *)
LEMMA TickKeeps ==
  ASSUME StoreOK, Tick
  PROVE  StoreOK'
<1> DEFINE less(t) == IF t = 0 THEN 0 ELSE t - 1
<1>1. /\ files' = [i \in DOMAIN files |-> [files[i] EXCEPT !.left = less(@)]]
      /\ newest' = [newest EXCEPT !.left = less(@)]
  BY DEF Tick
<1>2. files \in Seq(File) /\ newest \in [parts : 0 .. 2, left : 0 .. Ttl] BY DEF StoreOK
<1>3. \A t \in 0 .. Ttl : less(t) \in 0 .. Ttl BY StoreAssumption
<1>4. ASSUME NEW i \in 1 .. Len(files)
      PROVE  /\ files'[i] \in File
             /\ files'[i].size = files[i].size
             /\ files'[i].part = files[i].part
             /\ files'[i].left = less(files[i].left)
  <2>1. files[i] \in File /\ i \in DOMAIN files BY <1>2
  <2>2. files'[i] = [files[i] EXCEPT !.left = less(files[i].left)] BY <1>1, <2>1
  <2>3. less(files[i].left) \in 0 .. Ttl BY <2>1, <1>3, FileShape
  <2> HIDE DEF less
  <2> QED BY <2>1, <2>2, <2>3 DEF File
<1>5. files' \in Seq(File) /\ Len(files') = Len(files)
  <2>1. DOMAIN files = 1 .. Len(files) /\ Len(files) \in Nat BY <1>2
  <2>2. files' = [i \in 1 .. Len(files) |-> files'[i]] BY <1>1, <2>1
  <2> QED BY <1>4, <2>1, <2>2
<1>6. newest' \in [parts : 0 .. 2, left : 0 .. Ttl]
  <2>1. newest.left \in 0 .. Ttl BY <1>2
  <2>2. less(newest.left) \in 0 .. Ttl BY <2>1, <1>3
  <2> HIDE DEF less
  <2> QED BY <1>1, <1>2, <2>2
<1>7. newest'.parts = newest.parts /\ newest'.left = less(newest.left)
  <2> HIDE DEF less
  <2> QED BY <1>1, <1>2
<1>8. BytesBounded'
  <2>1. [i \in 1 .. Len(files') |-> files'[i].size] = [i \in 1 .. Len(files) |-> files[i].size]
    BY <1>4, <1>5
  <2>2. Bytes(files') = Bytes(files) BY <2>1 DEF Bytes
  <2> QED BY <2>2 DEF StoreOK, BytesBounded
<1>9. NewestIsWhole'
  <2> SUFFICES ASSUME newest'.left > 0
               PROVE  \E o \in 0 .. Len(files') :
                        /\ Len(files') = o + newest'.parts
                        /\ \A i \in 1 .. newest'.parts : /\ files'[o + i].part = i
                                                         /\ files'[o + i].left = newest'.left
    BY DEF NewestIsWhole
  <2>1. newest.left > 0
    <3>1. newest.left \in Nat BY <1>2
    <3>2. less(newest.left) > 0 BY <1>7
    <3> QED BY <3>1, <3>2
  <2>2. PICK older \in 0 .. Len(files) :
          /\ Len(files) = older + newest.parts
          /\ \A i \in 1 .. newest.parts : /\ files[older + i].part = i
                                          /\ files[older + i].left = newest.left
    BY <2>1 DEF StoreOK, NewestIsWhole
  <2>3. ASSUME NEW i \in 1 .. newest.parts
        PROVE  files'[older + i].part = i /\ files'[older + i].left = newest'.left
    <3>1. older + i \in 1 .. Len(files)
      <4>1. newest.parts \in Nat /\ Len(files) \in Nat BY <1>2
      <4> QED BY <4>1, <2>2
    <3>2. files[older + i].part = i /\ files[older + i].left = newest.left BY <2>2
    <3> HIDE DEF less
    <3> QED BY <3>1, <3>2, <1>4, <1>7
  <2> QED BY <2>2, <2>3, <1>5, <1>7
<1> HIDE DEF less
<1> QED BY <1>5, <1>6, <1>8, <1>9 DEF StoreOK

LEMMA StoreKeeps ==
  ASSUME StoreOK, meshes \in [Connection -> Meshes], [Next]_vars
  PROVE  StoreOK'
<1>1. CASE UNCHANGED store BY <1>1 DEF store, StoreOK, BytesBounded, NewestIsWhole
<1>2. ASSUME NEW c \in Connection, Accept(c) \/ Thread(c) PROVE StoreOK'
  <2>1. CASE Download(c) BY <2>1, DownloadKeeps DEF Download
  <2>2. CASE Publish(c) BY <2>2, PublishKeeps
  <2>3. CASE Accept(c) BY <2>3, <1>1 DEF Accept
  <2>4. CASE StartThread(c) BY <2>4, <1>1 DEF StartThread
  <2>5. CASE StartFails(c) BY <2>5, <1>1 DEF StartFails
  <2>6. CASE Answer(c) BY <2>6, <1>1 DEF Answer
  <2>7. CASE Compile(c) BY <2>7, <1>1 DEF Compile
  <2>8. CASE CompileEnds(c) BY <2>8, <1>1 DEF CompileEnds
  <2>9. CASE Respond(c) BY <2>9, <1>1 DEF Respond
  <2>10. CASE Release(c) BY <2>10, <1>1 DEF Release
  <2> QED
    BY <1>2, <2>1, <2>2, <2>3, <2>4, <2>5, <2>6, <2>7, <2>8, <2>9, <2>10 DEF Thread
<1>3. CASE Tick BY <1>3, TickKeeps
<1>4. CASE UNCHANGED vars BY <1>1, <1>4 DEF vars, store
<1> QED BY <1>2, <1>3, <1>4 DEF Next

(***************************************************************************)
(* The theorems.                                                           *)
(***************************************************************************)
LEMMA TypeOKIs == TypeOK <=> /\ slots \in 0 .. MaxWorkers
                             /\ pc \in [Connection -> PC]
                             /\ compiler \in Connection \cup {None}
                             /\ meshes \in [Connection -> Meshes]
                             /\ files \in Seq(File)
                             /\ newest \in [parts : 0 .. 2, left : 0 .. Ttl]
BY DEF TypeOK

(* The threads and the store keep what they promise, and neither needs the *)
(* other's promise.                                                        *)
THEOREM Inductive == Spec => [](ThreadsOK /\ StoreOK)
<1>1. Init => ThreadsOK /\ StoreOK BY ThreadsStart, StoreStarts
<1>2. ThreadsOK /\ StoreOK /\ [Next]_vars => ThreadsOK' /\ StoreOK'
  <2> SUFFICES ASSUME ThreadsOK, StoreOK, [Next]_vars PROVE ThreadsOK' /\ StoreOK' OBVIOUS
  <2>1. TypeOK /\ SlotsAddUp /\ CompilerOwned BY TypeOKIs DEF ThreadsOK, StoreOK
  <2>2. ThreadsOK' BY <2>1, ThreadsKeep
  <2>3. meshes \in [Connection -> Meshes] BY DEF ThreadsOK
  <2> QED BY <2>2, <2>3, StoreKeeps
<1> QED BY <1>1, <1>2, PTL DEF Spec

(* Every slot of the server is free or belongs to a connection that is     *)
(* being served, whatever ends it, for every number of connections and of  *)
(* slots; and the compiler slot is the compiling request's                 *)
(* (demo_server.py:371, mesh_preview.py:98).                               *)
THEOREM SlotsNeverLeak == Spec => []SlotsAccounted
<1>1. ThreadsOK /\ StoreOK => SlotsAccounted
  BY TypeOKIs DEF ThreadsOK, StoreOK, SlotsAccounted, SlotsAddUp, CompilerOwned
<1> QED BY <1>1, Inductive, PTL

(* The store never holds more bytes than its bound, for every bound, every *)
(* set of mesh sizes and any number of publishers (mesh_preview.py:29-60). *)
THEOREM StoreIsBounded == Spec => []BytesBounded
<1>1. ThreadsOK /\ StoreOK => BytesBounded BY DEF StoreOK
<1> QED BY <1>1, Inductive, PTL

(* Until the parts published last expire, all of them can be downloaded,   *)
(* whatever is published, evicted or cleaned up in between.                *)
THEOREM NewestStaysWhole == Spec => []NewestIsWhole
<1>1. ThreadsOK /\ StoreOK => NewestIsWhole BY DEF StoreOK
<1> QED BY <1>1, Inductive, PTL
============================================================================
