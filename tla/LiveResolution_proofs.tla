------------------------- MODULE LiveResolution_proofs -------------------------
(***************************************************************************)
(* Proofs about the resolution of live datasets: the cache is honest about *)
(* versions and bounded, and readers of one version share one run.         *)
(*                                                                         *)
(* What is stored under a version is honest because of what runs read: a   *)
(* run takes the version the list gave, lists only move on, and what it    *)
(* reads or waits for later is of that version or a later one.  The row    *)
(* bound needs sums over the cache (sections 1 and 2).                     *)
(***************************************************************************)
EXTENDS LiveResolution, SequenceTheorems, FiniteSetTheorems, WellFoundedInduction, TLAPS

-----------------------------------------------------------------------------
(***************************************************************************)
(* 1. Least elements and induction over the naturals.                      *)
(***************************************************************************)
\* A non-empty set of naturals has a least element.
LEMMA EnKucuk ==
    ASSUME NEW T, T \subseteq Nat, T # {}
    PROVE  \E m \in T : \A n \in T : m <= n
<1> DEFINE F == {0 .. m : m \in T}
           R == StrictSubsetOrdering(Nat)
<1>1. IsWellFoundedOn(R, FiniteSubsetsOf(Nat))
  BY FS_StrictSubsetOrderingWellFounded
<1>2. \A m \in T : IsFiniteSet(0 .. m)
  BY FS_Interval
<1>3. F \subseteq FiniteSubsetsOf(Nat)
  BY <1>2 DEF FiniteSubsetsOf
<1>4. F # {}
  OBVIOUS
<1>5. \E x \in F : \A y \in F : ~ (<<y, x>> \in R)
  <2> HIDE DEF F, R
  <2> QED BY <1>1, <1>3, <1>4, WFMin
<1>6. PICK m \in T : \A n \in T : ~ (<<0 .. n, 0 .. m>> \in R)
  BY <1>5
<1>7. \A n \in T : m <= n
  <2> SUFFICES ASSUME NEW n \in T, n < m PROVE FALSE
    OBVIOUS
  <2>1. 0 .. n \subseteq 0 .. m /\ m \in 0 .. m /\ m \notin 0 .. n
    OBVIOUS
  <2>2. <<0 .. n, 0 .. m>> \in R
    BY <2>1 DEF StrictSubsetOrdering
  <2> QED BY <1>6, <2>2
<1>8. QED
  BY <1>7

\* Induction, for properties given as sets.
LEMMA Tumevarim ==
    ASSUME NEW P, 0 \in P, \A n \in Nat : n \in P => n + 1 \in P
    PROVE  Nat \subseteq P
<1> SUFFICES ASSUME Nat \ P # {} PROVE FALSE
  OBVIOUS
<1>1. PICK m \in Nat \ P : \A n \in Nat \ P : m <= n
  BY EnKucuk
<1>2. m # 0 /\ m - 1 \in Nat
  BY <1>1
<1>3. m - 1 \in P
  BY <1>1, <1>2
<1>4. QED
  BY <1>1, <1>2, <1>3

-----------------------------------------------------------------------------
(***************************************************************************)
(* 2. The rows in a sequence of cache entries.                             *)
(***************************************************************************)
\* The sums of the first entries.
Kismi(s, f) ==
    /\ f \in [0 .. Len(s) -> Int]
    /\ f[0] = 0
    /\ \A i \in 1 .. Len(s) : f[i] = f[i - 1] + s[i].satir

LEMMA KismiVar ==
    ASSUME NEW s \in Seq(Girdi)
    PROVE  \E f : Kismi(s, f) /\ \A i \in 0 .. Len(s) : f[i] \in Nat
<1> DEFINE Q(n) == \E f \in [0 .. n -> Nat] : /\ f[0] = 0
                                              /\ \A i \in 1 .. n : f[i] = f[i - 1] + s[i].satir
           P == {n \in Nat : n <= Len(s) => Q(n)}
<1>1. 0 \in P
  <2>1. PICK f : f = [i \in 0 .. 0 |-> 0]
    OBVIOUS
  <2>2. f \in [0 .. 0 -> Nat] /\ f[0] = 0
    BY <2>1
  <2>3. Q(0)
    BY <2>2
  <2> HIDE DEF Q
  <2> QED BY <2>3
<1>2. ASSUME NEW n \in Nat, n \in P PROVE n + 1 \in P
  <2> SUFFICES ASSUME n + 1 <= Len(s) PROVE Q(n + 1)
    <3> HIDE DEF Q
    <3> QED OBVIOUS
  <2>0. Q(n)
    <3> HIDE DEF Q
    <3> QED BY <1>2
  <2>1. PICK f \in [0 .. n -> Nat] : /\ f[0] = 0
                                     /\ \A i \in 1 .. n : f[i] = f[i - 1] + s[i].satir
    BY <2>0
  <2>2. s[n + 1].satir \in Nat
    <3>1. s[n + 1] \in Girdi
      OBVIOUS
    <3> QED BY <3>1, SatirVarsayim DEF Girdi
  <2> DEFINE g == [i \in 0 .. n + 1 |-> IF i = n + 1 THEN f[n] + s[n + 1].satir ELSE f[i]]
  <2>3. g \in [0 .. n + 1 -> Nat]
    BY <2>1, <2>2
  <2>4. g[0] = 0
    BY <2>1
  <2>5. ASSUME NEW i \in 1 .. n + 1 PROVE g[i] = g[i - 1] + s[i].satir
    <3>1. CASE i = n + 1
      BY <3>1
    <3>2. CASE i # n + 1
      <4>1. i \in 1 .. n /\ g[i] = f[i] /\ g[i - 1] = f[i - 1]
        BY <3>2
      <4> QED BY <2>1, <4>1
    <3> QED BY <3>1, <3>2
  <2> HIDE DEF g
  <2> QED BY <2>3, <2>4, <2>5
<1>3. Len(s) \in P
  <2> HIDE DEF P
  <2>1. Nat \subseteq P
    BY <1>1, <1>2, Tumevarim
  <2> QED BY <2>1
<1>4. PICK f \in [0 .. Len(s) -> Nat] :
        f[0] = 0 /\ \A i \in 1 .. Len(s) : f[i] = f[i - 1] + s[i].satir
  BY <1>3
<1>5. Kismi(s, f) /\ \A i \in 0 .. Len(s) : f[i] \in Nat
  BY <1>4 DEF Kismi
<1> QED BY <1>5

\* Toplam is the last of the sums.
LEMMA ToplamSon ==
    ASSUME NEW s \in Seq(Girdi), NEW f, Kismi(s, f)
    PROVE  Toplam(s) = f[Len(s)]
<1> DEFINE F(h) == [i \in 0 .. Len(s) |-> IF i = 0 THEN 0 ELSE h[i - 1] + s[i].satir]
           g == CHOOSE h : h = F(h)
<1>1. Toplam(s) = g[Len(s)]
  BY DEF Toplam
<1>2. f = F(f)
  <2>1. \A i \in 0 .. Len(s) : f[i] = F(f)[i]
    BY DEF Kismi
  <2> QED BY <2>1 DEF Kismi
<1>3. g = F(g)
  <2> HIDE DEF F
  <2> QED BY <1>2
<1> HIDE DEF g
<1> DEFINE P == {n \in Nat : n <= Len(s) => g[n] = f[n]}
<1>4. 0 \in P
  BY <1>3 DEF Kismi
<1>5. ASSUME NEW n \in Nat, n \in P PROVE n + 1 \in P
  <2> SUFFICES ASSUME n + 1 <= Len(s) PROVE g[n + 1] = f[n + 1]
    OBVIOUS
  <2>1. g[n] = f[n] /\ n + 1 \in 1 .. Len(s)
    BY <1>5
  <2>2. g[n + 1] = g[n] + s[n + 1].satir
    <3>1. F(g)[n + 1] = g[n + 1 - 1] + s[n + 1].satir /\ n + 1 - 1 = n
      BY <2>1
    <3> HIDE DEF F
    <3> QED BY <1>3, <3>1
  <2>3. f[n + 1] = f[n] + s[n + 1].satir
    <3>1. f[n + 1] = f[n + 1 - 1] + s[n + 1].satir /\ n + 1 - 1 = n
      BY <2>1 DEF Kismi
    <3> QED BY <3>1
  <2> QED BY <2>1, <2>2, <2>3
<1>6. Len(s) \in P
  <2> HIDE DEF P
  <2>1. Nat \subseteq P
    BY <1>4, <1>5, Tumevarim
  <2> QED BY <2>1
<1> QED BY <1>1, <1>6

LEMMA ToplamTip ==
    ASSUME NEW s \in Seq(Girdi)
    PROVE  Toplam(s) \in Nat /\ (s = <<>> => Toplam(s) = 0)
<1>1. PICK f : Kismi(s, f) /\ \A i \in 0 .. Len(s) : f[i] \in Nat
  BY KismiVar
<1>2. Toplam(s) = f[Len(s)]
  BY <1>1, ToplamSon
<1>3. Len(s) \in 0 .. Len(s) /\ (s = <<>> => Len(s) = 0)
  OBVIOUS
<1> QED BY <1>1, <1>2, <1>3 DEF Kismi

\* One more entry.
LEMMA ToplamEk ==
    ASSUME NEW s \in Seq(Girdi), NEW e \in Girdi
    PROVE  Toplam(Append(s, e)) = Toplam(s) + e.satir
<1> DEFINE w == Append(s, e)
<1>1. w \in Seq(Girdi) /\ Len(w) = Len(s) + 1 /\ w[Len(s) + 1] = e
      /\ (\A i \in 1 .. Len(s) : w[i] = s[i]) /\ Len(s) \in Nat
  BY AppendProperties
<1>2. PICK f : Kismi(s, f) /\ \A i \in 0 .. Len(s) : f[i] \in Nat
  BY KismiVar
<1>3. e.satir \in Nat
  BY SatirVarsayim DEF Girdi
<1> DEFINE g == [i \in 0 .. Len(s) + 1 |-> IF i = Len(s) + 1 THEN f[Len(s)] + e.satir ELSE f[i]]
<1> HIDE DEF w
<1>4. Kismi(w, g)
  <2>1. g \in [0 .. Len(w) -> Int]
    BY <1>1, <1>2, <1>3
  <2>2. g[0] = 0
    BY <1>1, <1>2 DEF Kismi
  <2>3. ASSUME NEW i \in 1 .. Len(w) PROVE g[i] = g[i - 1] + w[i].satir
    <3>1. CASE i = Len(s) + 1
      BY <1>1, <3>1
    <3>2. CASE i # Len(s) + 1
      <4>1. i \in 1 .. Len(s) /\ g[i] = f[i] /\ g[i - 1] = f[i - 1] /\ w[i] = s[i]
        BY <1>1, <3>2
      <4> QED BY <1>2, <4>1 DEF Kismi
    <3> QED BY <3>1, <3>2
  <2> HIDE DEF g
  <2> QED BY <2>1, <2>2, <2>3 DEF Kismi
<1>5. Toplam(w) = g[Len(s) + 1] /\ Toplam(s) = f[Len(s)]
  <2> HIDE DEF g
  <2> QED BY <1>1, <1>2, <1>4, ToplamSon
<1>6. g[Len(s) + 1] = f[Len(s)] + e.satir
  BY <1>1
<1> QED BY <1>5, <1>6 DEF w

LEMMA CikarTip ==
    ASSUME NEW D, NEW s \in Seq(D), NEW i \in 1 .. Len(s)
    PROVE  /\ RemoveAt(s, i) \in Seq(D) /\ Len(RemoveAt(s, i)) = Len(s) - 1
           /\ \A j \in 1 .. Len(s) - 1 :
                 RemoveAt(s, i)[j] = IF j < i THEN s[j] ELSE s[j + 1]
<1> DEFINE a == SubSeq(s, 1, i - 1)
           b == SubSeq(s, i + 1, Len(s))
<1>1. Len(s) \in Nat /\ i \in Int /\ 1 <= i /\ i <= Len(s)
  OBVIOUS
<1>2. /\ a \in Seq(D) /\ Len(a) = i - 1
      /\ \A j \in 1 .. i - 1 : a[j] = s[j]
  BY <1>1
<1>3. /\ b \in Seq(D) /\ Len(b) = Len(s) - i
      /\ \A j \in 1 .. Len(s) - i : b[j] = s[i + j]
  BY <1>1
<1>4. RemoveAt(s, i) = a \o b
  BY DEF RemoveAt
<1> HIDE DEF a, b
<1>5. a \o b \in Seq(D) /\ Len(a \o b) = Len(s) - 1
  <2>1. a \o b \in Seq(D) /\ Len(a \o b) = Len(a) + Len(b)
    BY <1>2, <1>3, ConcatProperties
  <2> QED BY <1>1, <1>2, <1>3, <2>1
<1>6. ASSUME NEW j \in 1 .. Len(s) - 1
      PROVE  (a \o b)[j] = IF j < i THEN s[j] ELSE s[j + 1]
  <2>1. CASE j < i
    <3>1. j \in 1 .. i - 1
      BY <1>1, <2>1
    <3>2. (a \o b)[j] = a[j]
      BY <1>1, <1>2, <1>3, <3>1
    <3> QED BY <1>2, <2>1, <3>1, <3>2
  <2>2. CASE ~(j < i)
    <3>1. j - (i - 1) \in 1 .. Len(s) - i /\ i + (j - (i - 1)) = j + 1
      BY <1>1, <2>2
    <3>2. (a \o b)[j] = b[j - (i - 1)]
      BY <1>1, <1>2, <1>3, <2>2
    <3> QED BY <1>3, <2>2, <3>1, <3>2
  <2> QED BY <2>1, <2>2
<1> QED BY <1>4, <1>5, <1>6

\* One entry less.
LEMMA ToplamCikar ==
    ASSUME NEW s \in Seq(Girdi), NEW i \in 1 .. Len(s)
    PROVE  Toplam(RemoveAt(s, i)) + s[i].satir = Toplam(s)
<1> DEFINE w == RemoveAt(s, i)
<1>1. /\ w \in Seq(Girdi) /\ Len(w) = Len(s) - 1
      /\ \A j \in 1 .. Len(s) - 1 : w[j] = IF j < i THEN s[j] ELSE s[j + 1]
  BY CikarTip
<1>2. PICK f : Kismi(s, f) /\ \A j \in 0 .. Len(s) : f[j] \in Nat
  BY KismiVar
<1>3. s[i].satir \in Nat /\ Len(s) \in Nat /\ i \in Nat /\ 1 <= i /\ i <= Len(s)
  <2>1. s[i] \in Girdi /\ Len(s) \in Nat /\ i \in Nat /\ 1 <= i /\ i <= Len(s)
    OBVIOUS
  <2>2. s[i].satir \in Nat
    <3> DEFINE e == s[i]
    <3> HIDE DEF e
    <3>1. e \in Girdi
      BY <2>1 DEF e
    <3>2. e.satir \in Nat
      BY <3>1, SatirVarsayim DEF Girdi
    <3> QED BY <3>2 DEF e
  <2> QED BY <2>1, <2>2
<1> DEFINE g == [j \in 0 .. Len(s) - 1 |-> IF j < i THEN f[j] ELSE f[j + 1] - s[i].satir]
<1> HIDE DEF w
<1>4. \A j \in 1 .. Len(s) : f[j] = f[j - 1] + s[j].satir /\ s[j].satir \in Nat
  <2>1. \A j \in 1 .. Len(s) : s[j] \in Girdi
    OBVIOUS
  <2>2. \A j \in 1 .. Len(s) : s[j].satir \in Nat
    BY <2>1, SatirVarsayim DEF Girdi
  <2> QED BY <1>2, <2>2 DEF Kismi
<1>5. Kismi(w, g)
  <2>1. g \in [0 .. Len(w) -> Int]
    BY <1>1, <1>2, <1>3
  <2>2. g[0] = 0
    BY <1>2, <1>3 DEF Kismi
  <2>3. ASSUME NEW j \in 1 .. Len(w) PROVE g[j] = g[j - 1] + w[j].satir
    <3>0. j \in 1 .. Len(s) - 1 /\ j \in 1 .. Len(s) /\ j + 1 \in 1 .. Len(s)
          /\ j - 1 \in 0 .. Len(s) - 1 /\ j \in 0 .. Len(s) - 1
      BY <1>1, <1>3
    <3>1. CASE j < i
      <4>1. g[j] = f[j] /\ g[j - 1] = f[j - 1] /\ w[j] = s[j]
        BY <1>1, <1>3, <3>0, <3>1
      <4> QED BY <1>4, <3>0, <4>1
    <3>2. CASE j = i
      <4>1. g[j] = f[j + 1] - s[j].satir /\ g[j - 1] = f[j - 1] /\ w[j] = s[j + 1]
        BY <1>1, <1>3, <3>0, <3>2
      <4>2. f[j + 1] = f[j] + s[j + 1].satir /\ f[j] = f[j - 1] + s[j].satir
        <5>1. f[j + 1] = f[j + 1 - 1] + s[j + 1].satir /\ j + 1 - 1 = j
          BY <1>4, <3>0
        <5> QED BY <1>4, <3>0, <5>1
      <4>3. f[j - 1] \in Nat /\ s[j].satir \in Nat /\ s[j + 1].satir \in Nat
        BY <1>2, <1>4, <3>0
      <4> QED BY <4>1, <4>2, <4>3
    <3>3. CASE j > i
      <4>1. g[j] = f[j + 1] - s[i].satir /\ g[j - 1] = f[j] - s[i].satir /\ w[j] = s[j + 1]
        <5>1. j - 1 + 1 = j /\ ~(j - 1 < i) /\ ~(j < i)
          BY <3>3, <1>3
        <5> QED BY <1>1, <3>0, <5>1
      <4>2. f[j + 1] = f[j] + s[j + 1].satir
        <5>1. f[j + 1] = f[j + 1 - 1] + s[j + 1].satir /\ j + 1 - 1 = j
          BY <1>4, <3>0
        <5> QED BY <5>1
      <4>3. f[j] \in Nat /\ s[i].satir \in Nat /\ s[j + 1].satir \in Nat
        BY <1>2, <1>3, <1>4, <3>0
      <4> QED BY <4>1, <4>2, <4>3
    <3> QED BY <1>3, <3>1, <3>2, <3>3
  <2> HIDE DEF g
  <2> QED BY <2>1, <2>2, <2>3 DEF Kismi
<1>6. Toplam(w) = g[Len(s) - 1] /\ Toplam(s) = f[Len(s)]
  <2> HIDE DEF g
  <2> QED BY <1>1, <1>2, <1>5, ToplamSon
<1>7. g[Len(s) - 1] + s[i].satir = f[Len(s)]
  <2>1. CASE i = Len(s)
    <3>1. g[Len(s) - 1] = f[Len(s) - 1]
      BY <1>3, <2>1
    <3>2. f[Len(s)] = f[Len(s) - 1] + s[i].satir
      BY <1>3, <1>4, <2>1
    <3> QED BY <3>1, <3>2
  <2>2. CASE i < Len(s)
    <3>1. g[Len(s) - 1] = f[Len(s)] - s[i].satir
      <4>1. Len(s) - 1 + 1 = Len(s) /\ ~(Len(s) - 1 < i) /\ Len(s) - 1 \in 0 .. Len(s) - 1
        BY <1>3, <2>2
      <4> QED BY <4>1
    <3>2. f[Len(s)] \in Nat
      BY <1>2, <1>3
    <3> QED BY <1>3, <3>1, <3>2
  <2> QED BY <1>3, <2>1, <2>2
<1> QED BY <1>6, <1>7 DEF w

-----------------------------------------------------------------------------
(***************************************************************************)
(* 3. The cache: one honest entry per definition, within the bound.        *)
(***************************************************************************)
TekGirdi(s) == \A i, j \in DOMAIN s : s[i].id = s[j].id => i = j

Saglam(s) ==
    /\ s \in Seq(Girdi)
    /\ \A i \in DOMAIN s : s[i].veri >= s[i].surum
    /\ TekGirdi(s)

Sinirda(s) == Toplam(s) <= MaxSatir \/ Len(s) = 1

LEMMA GirdiTip ==
    ASSUME NEW e \in Girdi
    PROVE  e.satir \in Nat /\ e.surum \in Nat /\ e.veri \in Nat /\ e.veri \in 1 .. Sonsuz
           /\ e.id \in Tanim /\ e.surum \in 1 .. MaxVeri
<1>1. /\ e.satir \in Satirlar /\ e.surum \in 1 .. MaxVeri /\ e.veri \in 1 .. Sonsuz
      /\ e.id \in Tanim
  BY DEF Girdi
<1>2. MaxVeri \in Nat /\ Sonsuz \in Nat
  BY VeriVarsayim DEF Sonsuz
<1>3. e.satir \in Nat
  BY <1>1, SatirVarsayim, Zenon
<1>4. e.surum \in Nat /\ e.veri \in Nat
  BY <1>1, <1>2
<1> QED BY <1>1, <1>3, <1>4

\* A part of the cache.
LEMMA SaglamParca ==
    ASSUME NEW s, Saglam(s), NEW w \in Seq(Girdi), NEW p \in [DOMAIN w -> DOMAIN s],
           \A i \in DOMAIN w : w[i] = s[p[i]], \A i, j \in DOMAIN w : p[i] = p[j] => i = j
    PROVE  Saglam(w)
BY DEF Saglam, TekGirdi

LEMMA SaglamCikar ==
    ASSUME NEW s, Saglam(s), NEW i \in DOMAIN s
    PROVE  /\ Saglam(RemoveAt(s, i)) /\ Len(RemoveAt(s, i)) = Len(s) - 1
           /\ \A j \in DOMAIN RemoveAt(s, i) : RemoveAt(s, i)[j].id # s[i].id
<1> DEFINE w == RemoveAt(s, i)
<1>1. s \in Seq(Girdi) /\ Len(s) \in Nat /\ DOMAIN s = 1 .. Len(s) /\ i \in 1 .. Len(s)
      /\ i \in Nat /\ 1 <= i /\ i <= Len(s)
  BY DEF Saglam
<1>2. /\ w \in Seq(Girdi) /\ Len(w) = Len(s) - 1
      /\ \A j \in 1 .. Len(s) - 1 : w[j] = IF j < i THEN s[j] ELSE s[j + 1]
  BY <1>1, CikarTip
<1> HIDE DEF w
<1>3. DOMAIN w = 1 .. Len(s) - 1
  BY <1>2
<1> DEFINE p == [j \in 1 .. Len(s) - 1 |-> IF j < i THEN j ELSE j + 1]
<1>4. /\ p \in [DOMAIN w -> DOMAIN s]
      /\ \A j, k \in DOMAIN w : p[j] = p[k] => j = k
      /\ \A j \in DOMAIN w : p[j] # i
  BY <1>1, <1>3
<1>5. \A j \in DOMAIN w : w[j] = s[p[j]]
  BY <1>1, <1>2, <1>3
<1> HIDE DEF p
<1>6. Saglam(w)
  BY <1>2, <1>4, <1>5, SaglamParca
<1>7. \A j \in DOMAIN w : w[j].id # s[i].id
  BY <1>4, <1>5 DEF Saglam, TekGirdi
<1> QED BY <1>2, <1>6, <1>7 DEF w

\* A new entry for a definition that has none.
LEMMA SaglamEk ==
    ASSUME NEW s, Saglam(s), NEW e \in Girdi, e.veri >= e.surum,
           \A i \in DOMAIN s : s[i].id # e.id
    PROVE  Saglam(Append(s, e))
<1> DEFINE w == Append(s, e)
<1>1. /\ s \in Seq(Girdi) /\ Len(s) \in Nat /\ DOMAIN s = 1 .. Len(s)
  BY DEF Saglam
<1>2. /\ w \in Seq(Girdi) /\ Len(w) = Len(s) + 1 /\ w[Len(s) + 1] = e
      /\ \A i \in 1 .. Len(s) : w[i] = s[i]
  BY <1>1, AppendProperties
<1> HIDE DEF w
<1>3. DOMAIN w = 1 .. Len(s) + 1
  BY <1>2
<1>4. \A i \in DOMAIN w : i = Len(s) + 1 \/ i \in 1 .. Len(s)
  BY <1>1, <1>3
<1>5. \A i \in DOMAIN w : w[i].veri >= w[i].surum
  BY <1>1, <1>2, <1>4 DEF Saglam
<1>6. TekGirdi(w)
  BY <1>1, <1>2, <1>4 DEF Saglam, TekGirdi
<1> QED BY <1>2, <1>5, <1>6 DEF Saglam, w

\* cacheSet keeps a tail of the entries that is within the bound.
LEMMA SigdirTutar ==
    ASSUME NEW s, Saglam(s), Len(s) >= 1
    PROVE  Saglam(Sigdir(s)) /\ Sinirda(Sigdir(s))
<1> DEFINE Uyar(n) == n = Len(s) - 1 \/ Toplam(SubSeq(s, n + 1, Len(s))) <= MaxSatir
           yeter == {n \in 0 .. Len(s) - 1 : Uyar(n)}
           m == CHOOSE n \in yeter : \A k \in yeter : n <= k
           w == SubSeq(s, 1 + m, Len(s))
<1>1. s \in Seq(Girdi) /\ Len(s) \in Nat /\ DOMAIN s = 1 .. Len(s)
  BY DEF Saglam
<1>2. Sigdir(s) = w
  BY DEF Sigdir
<1>3. m \in yeter
  <2>1. Len(s) - 1 \in yeter /\ yeter \subseteq Nat
    BY <1>1
  <2>2. \E n \in yeter : \A k \in yeter : n <= k
    <3> HIDE DEF yeter
    <3> QED BY <2>1, EnKucuk
  <2> HIDE DEF yeter
  <2> QED BY <2>2
<1>4. m \in 0 .. Len(s) - 1 /\ Uyar(m)
  <2> HIDE DEF m, Uyar
  <2> QED BY <1>3
<1>a. m \in Nat /\ m <= Len(s) - 1
  <2> HIDE DEF m, Uyar
  <2> QED BY <1>1, <1>4
<1> HIDE DEF m
<1>5. /\ w \in Seq(Girdi) /\ Len(w) = Len(s) - m
      /\ \A i \in 1 .. Len(s) - m : w[i] = s[i + m]
  <2>1. /\ m \in Nat /\ 1 + m \in Int /\ Len(s) \in Int /\ m <= Len(s) - 1
        /\ \A i \in 1 + m .. Len(s) : s[i] \in Girdi
    BY <1>1, <1>a
  <2>2. /\ w \in Seq(Girdi)
        /\ Len(w) = (IF 1 + m <= Len(s) THEN Len(s) - (1 + m) + 1 ELSE 0)
        /\ \A i \in 1 .. Len(s) - (1 + m) + 1 : w[i] = s[1 + m + i - 1]
    BY <2>1, SubSeqProperties
  <2> HIDE DEF w
  <2>3. 1 + m <= Len(s) /\ Len(s) - (1 + m) + 1 = Len(s) - m
        /\ \A i \in 1 .. Len(s) - m : 1 + m + i - 1 = i + m
    BY <2>1
  <2> QED BY <2>2, <2>3
<1>6. Sinirda(w)
  <2>1. CASE m = Len(s) - 1
    <3>1. Len(w) = 1
      BY <1>1, <1>5, <2>1
    <3> QED BY <3>1 DEF Sinirda
  <2>2. CASE Toplam(SubSeq(s, m + 1, Len(s))) <= MaxSatir
    <3>1. m + 1 = 1 + m
      BY <1>a
    <3> QED BY <2>2, <3>1 DEF Sinirda
  <2> QED BY <1>4, <2>1, <2>2
<1> HIDE DEF w
<1>7. Saglam(w)
  <2> DEFINE p == [i \in 1 .. Len(s) - m |-> i + m]
  <2>1. DOMAIN w = 1 .. Len(s) - m
    BY <1>5
  <2>2. /\ p \in [DOMAIN w -> DOMAIN s] /\ \A i, j \in DOMAIN w : p[i] = p[j] => i = j
        /\ \A i \in DOMAIN w : p[i] = i + m
    <3> HIDE DEF Uyar
    <3>1. \A i \in 1 .. Len(s) - m : i + m \in 1 .. Len(s) /\ i \in Nat
      BY <1>1, <1>a
    <3>2. \A i, j \in 1 .. Len(s) - m : i + m = j + m => i = j
      BY <1>a
    <3> QED BY <1>1, <2>1, <3>1, <3>2
  <2>3. \A i \in DOMAIN w : w[i] = s[p[i]]
    BY <1>5, <2>1, <2>2
  <2> HIDE DEF p
  <2>4. w \in Seq(Girdi) /\ p \in [DOMAIN w -> DOMAIN s]
        /\ \A i, j \in DOMAIN w : p[i] = p[j] => i = j
    BY <1>5, <2>2
  <2> QED BY <2>3, <2>4, SaglamParca
<1> QED BY <1>2, <1>6, <1>7

\* cache.delete.
LEMMA SilTutar ==
    ASSUME Saglam(onbellek), NEW d
    PROVE  /\ Saglam(Baskalari(d)) /\ \A i \in DOMAIN Baskalari(d) : Baskalari(d)[i].id # d
           /\ Sinirda(onbellek) => Sinirda(Baskalari(d))
<1> DEFINE s == onbellek
<1>1. CASE \E i \in DOMAIN s : s[i].id = d
  <2>1. PICK i \in DOMAIN s : s[i].id = d /\ Baskalari(d) = RemoveAt(s, i)
    BY <1>1 DEF Baskalari
  <2>2. /\ Saglam(RemoveAt(s, i)) /\ Len(RemoveAt(s, i)) = Len(s) - 1
        /\ \A j \in DOMAIN RemoveAt(s, i) : RemoveAt(s, i)[j].id # s[i].id
    BY SaglamCikar
  <2>3. s \in Seq(Girdi) /\ Len(s) \in Nat /\ i \in 1 .. Len(s) /\ s[i] \in Girdi
        /\ RemoveAt(s, i) \in Seq(Girdi)
    BY <2>2 DEF Saglam
  <2>4. Toplam(RemoveAt(s, i)) + s[i].satir = Toplam(s)
    BY <2>3, ToplamCikar
  <2>5. Toplam(RemoveAt(s, i)) \in Nat /\ (RemoveAt(s, i) = <<>> => Toplam(RemoveAt(s, i)) = 0)
    BY <2>3, ToplamTip
  <2>6. s[i].satir \in Nat
    BY <2>3, GirdiTip
  <2>7. Toplam(s) <= MaxSatir => Toplam(RemoveAt(s, i)) <= MaxSatir
    <3> DEFINE x == Toplam(RemoveAt(s, i))
               y == s[i].satir
               z == Toplam(s)
    <3>1. x + y = z /\ x \in Nat /\ y \in Nat
      BY <2>4, <2>5, <2>6
    <3> HIDE DEF x, y, z
    <3>2. z <= MaxSatir => x <= MaxSatir
      BY <3>1, SatirVarsayim
    <3> QED BY <3>2 DEF x, z
  <2>8. Len(s) = 1 => Toplam(RemoveAt(s, i)) <= MaxSatir
    <3> SUFFICES ASSUME Len(s) = 1 PROVE Toplam(RemoveAt(s, i)) <= MaxSatir
      OBVIOUS
    <3>1. RemoveAt(s, i) = <<>>
      <4> DEFINE w == RemoveAt(s, i)
      <4>1. w \in Seq(Girdi) /\ Len(w) = 0
        BY <2>2, <2>3
      <4> HIDE DEF w
      <4>2. w = <<>>
        BY <4>1
      <4> QED BY <4>2 DEF w
    <3> QED BY <2>5, <3>1, SatirVarsayim
  <2> QED BY <2>1, <2>2, <2>7, <2>8 DEF Sinirda
<1>2. CASE ~ \E i \in DOMAIN s : s[i].id = d
  BY <1>2 DEF Baskalari
<1> QED BY <1>1, <1>2

\* A hit: the entry is the one of this version, and moving it to the recent end
\* changes neither the entries nor their sum.
LEMMA DokunTutar ==
    ASSUME Saglam(onbellek), NEW d, Onbellekte(d)
    PROVE  LET w == Append(Baskalari(d), GirdiOf(d))
           IN /\ Saglam(w) /\ (Sinirda(onbellek) => Sinirda(w))
              /\ GirdiOf(d) \in Girdi /\ GirdiOf(d).surum = liste
              /\ GirdiOf(d).veri >= GirdiOf(d).surum
<1> DEFINE s == onbellek
           w == Append(Baskalari(d), GirdiOf(d))
<1> SUFFICES /\ Saglam(w) /\ (Sinirda(s) => Sinirda(w))
             /\ GirdiOf(d) \in Girdi /\ GirdiOf(d).surum = liste
             /\ GirdiOf(d).veri >= GirdiOf(d).surum
  OBVIOUS
<1>1. PICK i \in DOMAIN s : s[i].id = d /\ s[i].surum = liste
  BY DEF Onbellekte
<1>2. Baskalari(d) = RemoveAt(s, i)
  <2>1. \A j \in DOMAIN s : s[j].id = d => j = i
    BY <1>1 DEF Saglam, TekGirdi
  <2>2. (CHOOSE j \in DOMAIN s : s[j].id = d) = i
    BY <1>1, <2>1
  <2> QED BY <1>1, <2>2 DEF Baskalari
<1>3. GirdiOf(d) = s[i]
  <2>1. s[i] \in {s[j] : j \in DOMAIN s} /\ s[i].id = d
    BY <1>1
  <2>2. \A g \in {s[j] : j \in DOMAIN s} : g.id = d => g = s[i]
    BY <1>1 DEF Saglam, TekGirdi
  <2> QED BY <2>1, <2>2, Zenon DEF GirdiOf
<1>4. s \in Seq(Girdi) /\ Len(s) \in Nat /\ i \in 1 .. Len(s) /\ s[i] \in Girdi
      /\ s[i].veri >= s[i].surum
  BY DEF Saglam
<1> DEFINE r == RemoveAt(s, i)
           e == s[i]
<1>5. /\ Saglam(r) /\ Len(r) = Len(s) - 1
      /\ \A j \in DOMAIN r : r[j].id # e.id
  BY SaglamCikar
<1>6. Toplam(r) + e.satir = Toplam(s) /\ r \in Seq(Girdi)
  BY <1>4, <1>5, ToplamCikar DEF Saglam
<1> HIDE DEF r, e
<1>7. Saglam(Append(r, e)) /\ Toplam(Append(r, e)) = Toplam(r) + e.satir
      /\ Len(Append(r, e)) = Len(s)
  <2>1. e \in Girdi /\ e.veri >= e.surum
    BY <1>4 DEF e
  <2>2. Len(Append(r, e)) = Len(r) + 1
    BY <1>6, <2>1
  <2> QED BY <1>4, <1>5, <1>6, <2>1, <2>2, SaglamEk, ToplamEk
<1>8. w = Append(r, e)
  BY <1>2, <1>3 DEF r, e
<1> HIDE DEF w
<1>9. Sinirda(s) => Sinirda(w)
  BY <1>6, <1>7, <1>8 DEF Sinirda
<1> QED BY <1>1, <1>3, <1>4, <1>7, <1>8, <1>9

-----------------------------------------------------------------------------
(***************************************************************************)
(* 4. The runs in flight.                                                  *)
(***************************************************************************)

\* A run took a version the list has given, its rows so far are of that version or
\* later, and so is the run it waits for.
Tutarli(k, l) ==
    /\ k \in Kosum
    /\ k.surum <= l
    /\ k.surum <= k.veri
    /\ k.bekle = Bos \/ k.surum <= k.bekle[2]

Tutarlilar(K, l) ==
    /\ \A k \in K : Tutarli(k, l)
    /\ \A a, b \in K : Anahtar(a) = Anahtar(b) => a = b

LEMMA SayiTip == MaxVeri \in Nat /\ MaxVeri >= 1 /\ Sonsuz = MaxVeri + 1 /\ Sonsuz \in Nat
BY VeriVarsayim DEF Sonsuz

LEMMA KosumAlan ==
    ASSUME NEW k \in Kosum
    PROVE  /\ k.id \in Tanim /\ k.surum \in 1 .. MaxVeri
           /\ k.okunacak \in SUBSET (Tanim \cup {Cekirdek}) /\ k.veri \in 1 .. Sonsuz
           /\ k.aktif \in SUBSET Tanim /\ k.bekle \in (Tanim \X (1 .. MaxVeri)) \cup {Bos}
           /\ k.dustu \in BOOLEAN /\ k.surum \in Nat /\ k.veri \in Nat
           /\ Anahtar(k) \in Tanim \X (1 .. MaxVeri)
<1>1. /\ k.id \in Tanim /\ k.surum \in 1 .. MaxVeri
      /\ k.okunacak \in SUBSET (Tanim \cup {Cekirdek}) /\ k.veri \in 1 .. Sonsuz
      /\ k.aktif \in SUBSET Tanim /\ k.bekle \in (Tanim \X (1 .. MaxVeri)) \cup {Bos}
      /\ k.dustu \in BOOLEAN
  BY DEF Kosum
<1>2. k.surum \in Nat /\ k.veri \in Nat
  BY <1>1, SayiTip
<1> QED BY <1>1, <1>2 DEF Anahtar

LEMMA AnahtarBosDegil == Bos \notin Tanim \X (1 .. MaxVeri)
BY DEF Bos

\* What a run has read gets older at most down to v.
LEMMA VeriEskir ==
    ASSUME NEW l \in Nat, NEW k, Tutarli(k, l), NEW v \in 1 .. Sonsuz, k.surum <= v
    PROVE  Kucuk(k.veri, v) \in 1 .. Sonsuz /\ k.surum <= Kucuk(k.veri, v)
<1>1. k.veri \in 1 .. Sonsuz /\ k.surum <= k.veri
  BY KosumAlan DEF Tutarli
<1> QED BY <1>1 DEF Kucuk

\* A run whose reads, rows or waiting change.
LEMMA KosumYaz ==
    ASSUME NEW l, NEW k, Tutarli(k, l), NEW y \in Kosum, y.id = k.id, y.surum = k.surum,
           k.surum <= y.veri, y.bekle = Bos \/ k.surum <= y.bekle[2]
    PROVE  Tutarli(y, l) /\ Anahtar(y) = Anahtar(k)
BY DEF Tutarli, Anahtar

\* One run is replaced by a later state of itself.
LEMMA KosumDegisir ==
    ASSUME NEW l \in Nat, NEW K, Tutarlilar(K, l), NEW k \in K, NEW y,
           Tutarli(y, l), Anahtar(y) = Anahtar(k)
    PROVE  Tutarlilar((K \ {k}) \cup {y}, l)
BY Zenon DEF Tutarlilar

LEMMA KosumEklenir ==
    ASSUME NEW l \in Nat, NEW K, Tutarlilar(K, l), NEW z, Tutarli(z, l),
           \A k \in K : Anahtar(k) # Anahtar(z)
    PROVE  Tutarlilar(K \cup {z}, l)
BY Zenon DEF Tutarlilar

\* A later list.
LEMMA TutarliArtar ==
    ASSUME NEW l \in Nat, NEW m \in Nat, l <= m, NEW K, Tutarlilar(K, l)
    PROVE  Tutarlilar(K, m)
<1>1. ASSUME NEW k \in K PROVE Tutarli(k, m)
  <2>1. Tutarli(k, l) /\ k.surum \in Nat
    BY KosumAlan DEF Tutarlilar, Tutarli
  <2>2. k.surum <= m
    BY <2>1 DEF Tutarli
  <2> QED BY <2>1, <2>2 DEF Tutarli
<1> QED BY <1>1 DEF Tutarlilar

-----------------------------------------------------------------------------
(***************************************************************************)
(* 5. The invariant.                                                       *)
(***************************************************************************)
Cevre ==
    /\ veri \in 1 .. MaxVeri
    /\ liste \in 1 .. veri
    /\ tanimli \subseteq Tanim
    /\ hatali \in [Tanim -> 0 .. MaxVeri]
    /\ istekler \in [Istek -> (Tanim \X (1 .. MaxVeri)) \cup {Bos}]
    /\ basarisiz \subseteq Tanim \X (1 .. MaxVeri)

CozumInv ==
    /\ Cevre
    /\ Saglam(onbellek) /\ Sinirda(onbellek)
    /\ Tutarlilar(kosumlar, liste)

LEMMA ListeTip ==
    ASSUME Cevre
    PROVE  liste \in 1 .. MaxVeri /\ liste \in Nat /\ veri \in Nat /\ liste <= veri
           /\ veri \in 1 .. Sonsuz
<1>1. veri \in 1 .. MaxVeri /\ liste \in 1 .. veri
  BY DEF Cevre
<1> QED BY <1>1, SayiTip

LEMMA YeniKosumTutarli ==
    ASSUME Cevre, NEW d \in Tanim, NEW ic \in SUBSET Tanim
    PROVE  Tutarli(YeniKosum(d, ic), liste) /\ Anahtar(YeniKosum(d, ic)) = <<d, liste>>
<1> DEFINE y == YeniKosum(d, ic)
<1>1. liste \in 1 .. MaxVeri /\ liste \in Nat /\ liste <= Sonsuz /\ Sonsuz \in 1 .. Sonsuz
  BY ListeTip, SayiTip
<1>2. Kaynak[d] \in SUBSET (Tanim \cup {Cekirdek})
  BY KaynakVarsayim
<1>3. y \in Kosum
  BY <1>1, <1>2 DEF YeniKosum, Kosum
<1>4. y.id = d /\ y.surum = liste /\ y.veri = Sonsuz /\ y.bekle = Bos
  BY DEF YeniKosum
<1> HIDE DEF y
<1>5. Tutarli(y, liste) /\ Anahtar(y) = <<d, liste>>
  BY <1>1, <1>3, <1>4 DEF Tutarli, Anahtar
<1> QED BY <1>5 DEF y

\* A step of run k alone: to y, with a cache that stays in order.
LEMMA TekKosumAdim ==
    ASSUME CozumInv, NEW k \in kosumlar, NEW y, Degistir(k, y), Tutarli(y, liste),
           Anahtar(y) = Anahtar(k), Saglam(onbellek'), Sinirda(onbellek'),
           UNCHANGED <<veri, liste, tanimli, hatali, istekler, basarisiz>>
    PROVE  CozumInv'
<1>1. Tutarlilar(kosumlar', liste)
  BY ListeTip, KosumDegisir DEF CozumInv, Degistir
<1> QED BY <1>1 DEF CozumInv, Cevre

\* The steps of a run up to its end.
LEMMA KosumOkurAdim ==
    ASSUME CozumInv, NEW k \in kosumlar, NEW r \in Tanim,
           \/ KosumCekirdekOku(k) \/ KosumOnbellekOku(k, r) \/ KosumOkuDus(k, r)
           \/ KosumBin(k, r)
    PROVE  CozumInv'
<1>1. Tutarli(k, liste) /\ Cevre /\ Saglam(onbellek) /\ Sinirda(onbellek)
  BY DEF CozumInv, Tutarlilar
<1>2. /\ liste \in Nat /\ liste \in 1 .. MaxVeri /\ k.surum <= liste
      /\ liste <= veri /\ veri \in 1 .. Sonsuz /\ veri \in Nat
  BY <1>1, ListeTip DEF Tutarli
<1>3. /\ k \in Kosum /\ k.surum \in Nat /\ k.veri \in 1 .. Sonsuz /\ k.surum <= k.veri
      /\ k.okunacak \in SUBSET k.okunacak /\ k.dustu \in BOOLEAN
      /\ k.bekle \in (Tanim \X (1 .. MaxVeri)) \cup {Bos}
      /\ k.bekle = Bos \/ k.surum <= k.bekle[2]
  BY <1>1, KosumAlan DEF Tutarli
\* Reads of rows of version v.
<1>5. ASSUME NEW s \in Tanim \cup {Cekirdek}, NEW v \in 1 .. Sonsuz, k.surum <= v
      PROVE  Tutarli(Okundu(k, s, v), liste) /\ Anahtar(Okundu(k, s, v)) = Anahtar(k)
  <2> DEFINE o == k.okunacak \ {s}
             u == Kucuk(k.veri, v)
  <2>1. u \in 1 .. Sonsuz /\ k.surum <= u
    BY <1>1, <1>2, <1>5, VeriEskir
  <2>2. Okundu(k, s, v) = [k EXCEPT !.okunacak = o, !.veri = u]
    BY DEF Okundu
  <2> HIDE DEF u
  <2> DEFINE y == Okundu(k, s, v)
  <2>3. /\ y \in Kosum /\ y.id = k.id /\ y.surum = k.surum /\ y.veri = u
        /\ y.bekle = k.bekle
    BY <1>3, <2>1, <2>2 DEF Kosum
  <2> HIDE DEF y
  <2>4. Tutarli(y, liste) /\ Anahtar(y) = Anahtar(k)
    BY <1>1, <1>3, <2>1, <2>3, KosumYaz
  <2> QED BY <2>4 DEF y
<1>6. CASE KosumCekirdekOku(k)
  <2>1. k.surum <= veri
    BY <1>2, <1>3
  <2>2. /\ Degistir(k, Okundu(k, Cekirdek, veri)) /\ onbellek' = onbellek
        /\ UNCHANGED <<veri, liste, tanimli, hatali, istekler, basarisiz>>
    BY <1>6 DEF KosumCekirdekOku
  <2>3. /\ Tutarli(Okundu(k, Cekirdek, veri), liste)
        /\ Anahtar(Okundu(k, Cekirdek, veri)) = Anahtar(k)
    BY <1>2, <1>5, <2>1
  <2> QED BY <1>1, <2>2, <2>3, TekKosumAdim
<1>7. CASE KosumOnbellekOku(k, r)
  <2> DEFINE v == GirdiOf(r).veri
             w == Append(Baskalari(r), GirdiOf(r))
  <2>1. /\ Onbellekte(r) /\ onbellek' = w /\ Degistir(k, Okundu(k, r, v))
        /\ UNCHANGED <<veri, liste, tanimli, hatali, istekler, basarisiz>>
    BY <1>7 DEF KosumOnbellekOku, Dokun
  <2>2. /\ Saglam(w) /\ Sinirda(w) /\ GirdiOf(r) \in Girdi
        /\ GirdiOf(r).surum = liste /\ v >= GirdiOf(r).surum
    BY <1>1, <2>1, DokunTutar
  <2>3. v \in 1 .. Sonsuz /\ v \in Nat
    BY <2>2, GirdiTip
  <2> HIDE DEF v, w
  <2>4. k.surum <= v
    <3>1. v >= liste
      BY <2>2
    <3> QED BY <1>2, <1>3, <2>3, <3>1
  <2>5. /\ Tutarli(Okundu(k, r, v), liste) /\ Anahtar(Okundu(k, r, v)) = Anahtar(k)
    BY <1>5, <2>3, <2>4
  <2>6. Saglam(onbellek') /\ Sinirda(onbellek')
    BY <2>1, <2>2
  <2> QED BY <2>1, <2>5, <2>6, TekKosumAdim
<1>8. CASE KosumOkuDus(k, r)
  <2> DEFINE y == [k EXCEPT !.dustu = TRUE]
  <2>1. /\ Degistir(k, y) /\ onbellek' = onbellek
        /\ UNCHANGED <<veri, liste, tanimli, hatali, istekler, basarisiz>>
    BY <1>8 DEF KosumOkuDus
  <2>2. /\ y \in Kosum /\ y.id = k.id /\ y.surum = k.surum /\ y.veri = k.veri
        /\ y.bekle = k.bekle
    BY <1>3 DEF Kosum
  <2> HIDE DEF y
  <2>3. Tutarli(y, liste) /\ Anahtar(y) = Anahtar(k)
    BY <1>1, <1>3, <2>2, KosumYaz
  <2> QED BY <1>1, <2>1, <2>3, TekKosumAdim
<1>9. CASE KosumBin(k, r)
  <2> DEFINE o == k.okunacak \ {r}
             b == <<r, liste>>
             y == [k EXCEPT !.okunacak = o, !.bekle = b]
  <2>1. /\ Degistir(k, y) /\ onbellek' = onbellek
        /\ UNCHANGED <<veri, liste, tanimli, hatali, istekler, basarisiz>>
    BY <1>9 DEF KosumBin
  <2>2. b \in (Tanim \X (1 .. MaxVeri)) \cup {Bos} /\ k.surum <= b[2]
    BY <1>2
  <2> HIDE DEF b
  <2>3. /\ y \in Kosum /\ y.id = k.id /\ y.surum = k.surum /\ y.veri = k.veri
        /\ y.bekle = b
    BY <1>3, <2>2 DEF Kosum
  <2> HIDE DEF y
  <2>4. Tutarli(y, liste) /\ Anahtar(y) = Anahtar(k)
    BY <1>1, <1>3, <2>2, <2>3, KosumYaz
  <2> QED BY <1>1, <2>1, <2>4, TekKosumAdim
<1> QED BY <1>6, <1>7, <1>8, <1>9

\* A run that starts another one and waits for it.
LEMMA KosumIcAdim ==
    ASSUME CozumInv, NEW k \in kosumlar, NEW r \in Tanim, KosumIcKos(k, r)
    PROVE  CozumInv'
<1> DEFINE o == k.okunacak \ {r}
           b == <<r, liste>>
           y == [k EXCEPT !.okunacak = o, !.bekle = b]
           z == YeniKosum(r, k.aktif)
<1>1. Tutarli(k, liste) /\ Cevre /\ Tutarlilar(kosumlar, liste)
  BY DEF CozumInv, Tutarlilar
<1>2. liste \in Nat /\ liste \in 1 .. MaxVeri /\ k.surum <= liste
  BY <1>1, ListeTip DEF Tutarli
<1>3. /\ k \in Kosum /\ k.surum \in Nat /\ k.veri \in 1 .. Sonsuz /\ k.surum <= k.veri
      /\ k.dustu \in BOOLEAN /\ k.aktif \in SUBSET Tanim
  BY <1>1, KosumAlan DEF Tutarli
<1>4. /\ kosumlar' = (kosumlar \ {k}) \cup {y, z}
      /\ UNCHANGED <<veri, liste, tanimli, onbellek, hatali, istekler, basarisiz>>
      /\ ~Ucusta(r)
  BY DEF KosumIcKos, Kosulur
<1>6. b \in (Tanim \X (1 .. MaxVeri)) \cup {Bos} /\ k.surum <= b[2]
  BY <1>2
<1>7. Tutarli(z, liste) /\ Anahtar(z) = <<r, liste>>
  BY <1>1, <1>3, YeniKosumTutarli
<1> HIDE DEF b, z
<1>a. /\ y \in Kosum /\ y.id = k.id /\ y.surum = k.surum /\ y.veri = k.veri /\ y.bekle = b
  BY <1>3, <1>6 DEF Kosum
<1> HIDE DEF y
<1>8. Tutarli(y, liste) /\ Anahtar(y) = Anahtar(k)
  BY <1>1, <1>3, <1>6, <1>a, KosumYaz
<1>9. \A a \in kosumlar : Anahtar(a) # Anahtar(z)
  BY <1>4, <1>7 DEF Ucusta
<1>10. Tutarlilar((kosumlar \ {k}) \cup {y}, liste)
  BY <1>1, <1>2, <1>8, KosumDegisir
<1>11. \A a \in (kosumlar \ {k}) \cup {y} : Anahtar(a) # Anahtar(z)
  BY <1>8, <1>9
<1>12. Tutarlilar(((kosumlar \ {k}) \cup {y}) \cup {z}, liste)
  BY <1>2, <1>7, <1>10, <1>11, KosumEklenir
<1>13. kosumlar' = ((kosumlar \ {k}) \cup {y}) \cup {z}
  BY <1>4
<1> QED BY <1>4, <1>12, <1>13 DEF CozumInv, Cevre

\* The other runs after one has ended.
LEMMA UyandirTutar ==
    ASSUME CozumInv, NEW k \in kosumlar, NEW oldu \in BOOLEAN
    PROVE  Tutarlilar(Uyandir(k, oldu), liste)
<1> DEFINE U(c) == IF c.bekle # Anahtar(k) THEN c
                   ELSE IF oldu THEN [c EXCEPT !.bekle = Bos, !.veri = Kucuk(@, k.veri)]
                   ELSE [c EXCEPT !.bekle = Bos, !.dustu = TRUE]
<1>1. Tutarlilar(kosumlar, liste) /\ Tutarli(k, liste) /\ liste \in Nat
  BY ListeTip DEF CozumInv, Tutarlilar
<1>2. Uyandir(k, oldu) = {U(c) : c \in kosumlar \ {k}}
  BY DEF Uyandir
<1>3. ASSUME NEW c \in kosumlar PROVE Tutarli(U(c), liste) /\ Anahtar(U(c)) = Anahtar(c)
  <2>1. Tutarli(c, liste)
    BY <1>1 DEF Tutarlilar
  <2>2. /\ c \in Kosum /\ c.surum \in Nat /\ c.veri \in 1 .. Sonsuz /\ c.surum <= c.veri
        /\ c.okunacak \in SUBSET c.okunacak /\ c.dustu \in BOOLEAN
        /\ c.bekle = Bos \/ c.surum <= c.bekle[2]
    BY <2>1, KosumAlan DEF Tutarli
  <2>3. CASE c.bekle # Anahtar(k)
    BY <2>1, <2>3
  <2>4. CASE c.bekle = Anahtar(k) /\ oldu
    <3>1. c.bekle # Bos /\ c.bekle[2] = k.surum /\ k.veri \in 1 .. Sonsuz
          /\ k.surum <= k.veri /\ k.surum \in Nat /\ k.veri \in Nat
      BY <1>1, <2>4, AnahtarBosDegil, KosumAlan DEF Tutarli, Anahtar
    <3>2. c.surum <= k.veri
      BY <2>2, <3>1
    <3> DEFINE v == Kucuk(c.veri, k.veri)
    <3>3. v \in 1 .. Sonsuz /\ c.surum <= v
      BY <1>1, <2>1, <3>1, <3>2, VeriEskir
    <3>4. U(c) = [c EXCEPT !.bekle = Bos, !.veri = v]
      BY <2>4
    <3> HIDE DEF v, U
    <3>5. /\ U(c) \in Kosum /\ U(c).id = c.id /\ U(c).surum = c.surum /\ U(c).veri = v
          /\ U(c).bekle = Bos
      BY <2>2, <3>3, <3>4 DEF Kosum
    <3> QED BY <2>1, <3>3, <3>5, KosumYaz
  <2>5. CASE c.bekle = Anahtar(k) /\ ~oldu
    <3>1. U(c) = [c EXCEPT !.bekle = Bos, !.dustu = TRUE]
      BY <2>5
    <3> HIDE DEF U
    <3>2. /\ U(c) \in Kosum /\ U(c).id = c.id /\ U(c).surum = c.surum /\ U(c).veri = c.veri
          /\ U(c).bekle = Bos
      BY <2>2, <3>1 DEF Kosum
    <3> QED BY <2>1, <2>2, <3>2, KosumYaz
  <2> QED BY <2>3, <2>4, <2>5
<1> HIDE DEF U
<1> QED BY <1>1, <1>2, <1>3 DEF Tutarlilar

LEMMA KosumBiterAdim ==
    ASSUME CozumInv, NEW k \in kosumlar, (\E n \in Satirlar : KosumBasari(k, n)) \/ KosumHata(k)
    PROVE  CozumInv'
<1>1. Tutarli(k, liste) /\ Cevre /\ Saglam(onbellek) /\ Sinirda(onbellek)
  BY DEF CozumInv, Tutarlilar
<1>2. k \in Kosum /\ k.id \in Tanim /\ k.surum \in 1 .. MaxVeri /\ k.veri \in 1 .. Sonsuz
      /\ k.surum <= k.veri /\ Anahtar(k) \in Tanim \X (1 .. MaxVeri)
      /\ k.surum \in Nat /\ k.veri \in Nat
  BY <1>1, KosumAlan DEF Tutarli
<1>3. ASSUME Cevapla(k) PROVE istekler' \in [Istek -> (Tanim \X (1 .. MaxVeri)) \cup {Bos}]
  BY <1>1, <1>3 DEF Cevapla, Cevre
<1>4. ASSUME NEW n \in Satirlar, KosumBasari(k, n) PROVE CozumInv'
  <2> DEFINE e == [id |-> k.id, surum |-> k.surum, veri |-> k.veri, satir |-> n]
             w == Append(Baskalari(k.id), e)
  <2>1. /\ onbellek' = Sigdir(w) /\ hatali' = [hatali EXCEPT ![k.id] = 0]
        /\ kosumlar' = Uyandir(k, TRUE) /\ Cevapla(k)
        /\ UNCHANGED <<veri, liste, tanimli, basarisiz>>
    BY <1>4 DEF KosumBasari
  <2>2. e \in Girdi /\ e.veri >= e.surum /\ e.id = k.id
    BY <1>2 DEF Girdi
  <2>3. /\ Saglam(Baskalari(k.id))
        /\ \A i \in DOMAIN Baskalari(k.id) : Baskalari(k.id)[i].id # k.id
    BY <1>1, SilTutar
  <2> HIDE DEF e
  <2>4. Saglam(w) /\ Len(w) >= 1
    <3>1. Saglam(w)
      BY <2>2, <2>3, SaglamEk
    <3>2. Baskalari(k.id) \in Seq(Girdi)
      BY <2>3 DEF Saglam
    <3>3. Len(w) = Len(Baskalari(k.id)) + 1 /\ Len(Baskalari(k.id)) \in Nat
      BY <2>2, <3>2
    <3> HIDE DEF w
    <3> QED BY <3>1, <3>3
  <2> HIDE DEF w
  <2>5. Saglam(onbellek') /\ Sinirda(onbellek')
    BY <2>1, <2>4, SigdirTutar
  <2>6. Tutarlilar(kosumlar', liste')
    BY <2>1, UyandirTutar
  <2>7. Cevre'
    <3>1. hatali' \in [Tanim -> 0 .. MaxVeri]
      BY <1>1, <1>2, <2>1, SayiTip DEF Cevre
    <3> QED BY <1>1, <1>3, <2>1, <3>1 DEF Cevre
  <2> QED BY <2>5, <2>6, <2>7 DEF CozumInv
<1>5. CASE KosumHata(k)
  <2>1. /\ onbellek' = onbellek /\ hatali' = [hatali EXCEPT ![k.id] = k.surum]
        /\ kosumlar' = Uyandir(k, FALSE) /\ Cevapla(k)
        /\ basarisiz' = basarisiz \cup {Anahtar(k)}
        /\ UNCHANGED <<veri, liste, tanimli>>
    BY <1>5 DEF KosumHata
  <2>2. Tutarlilar(kosumlar', liste')
    BY <2>1, UyandirTutar
  <2>3. Cevre'
    <3>1. hatali' \in [Tanim -> 0 .. MaxVeri]
      BY <1>1, <1>2, <2>1, SayiTip DEF Cevre
    <3> QED BY <1>1, <1>2, <1>3, <2>1, <3>1 DEF Cevre
  <2> QED BY <1>1, <2>1, <2>2, <2>3 DEF CozumInv
<1> QED BY <1>4, <1>5

LEMMA CozumAdim == CozumInv /\ [CozumNext]_cozumVars => CozumInv'
<1> SUFFICES ASSUME CozumInv, [CozumNext]_cozumVars PROVE CozumInv'
  OBVIOUS
<1>0. Cevre /\ Saglam(onbellek) /\ Sinirda(onbellek) /\ Tutarlilar(kosumlar, liste)
  BY DEF CozumInv
<1>a. liste \in Nat /\ liste \in 1 .. MaxVeri /\ veri \in Nat
  BY <1>0, ListeTip
<1>1. ASSUME NEW d \in Tanim, OkuyucuOnbellek(d) PROVE CozumInv'
  <2>1. /\ Onbellekte(d) /\ onbellek' = Append(Baskalari(d), GirdiOf(d))
        /\ UNCHANGED <<veri, liste, tanimli, hatali, kosumlar, istekler, basarisiz>>
    BY <1>1 DEF OkuyucuOnbellek, Dokun
  <2>2. Saglam(onbellek') /\ Sinirda(onbellek')
    BY <1>0, <2>1, DokunTutar
  <2> QED BY <1>0, <2>1, <2>2 DEF CozumInv, Cevre
<1>2. ASSUME NEW d \in Tanim, TanimSil(d) PROVE CozumInv'
  <2>1. /\ tanimli' = tanimli \ {d} /\ onbellek' = Baskalari(d)
        /\ hatali' = [hatali EXCEPT ![d] = 0]
        /\ UNCHANGED <<veri, liste, kosumlar, istekler, basarisiz>>
    BY <1>2 DEF TanimSil
  <2>2. Saglam(onbellek') /\ Sinirda(onbellek')
    BY <1>0, <2>1, SilTutar
  <2>3. Cevre'
    BY <1>0, <2>1, SayiTip DEF Cevre
  <2> QED BY <1>0, <2>1, <2>2, <2>3 DEF CozumInv
<1>3. ASSUME NEW q \in Istek, NEW d \in Tanim, OkuyucuBin(q, d) PROVE CozumInv'
  <2>1. /\ istekler' = [istekler EXCEPT ![q] = <<d, liste>>]
        /\ UNCHANGED <<veri, liste, tanimli, onbellek, hatali, kosumlar, basarisiz>>
    BY <1>3 DEF OkuyucuBin
  <2> QED BY <1>0, <1>a, <2>1 DEF CozumInv, Cevre
<1>4. ASSUME NEW q \in Istek, NEW d \in Tanim, OkuyucuKos(q, d) PROVE CozumInv'
  <2> DEFINE z == YeniKosum(d, {})
  <2>1. /\ istekler' = [istekler EXCEPT ![q] = <<d, liste>>] /\ kosumlar' = kosumlar \cup {z}
        /\ UNCHANGED <<veri, liste, tanimli, onbellek, hatali, basarisiz>> /\ ~Ucusta(d)
    BY <1>4 DEF OkuyucuKos, Kosulur
  <2>2. {} \in SUBSET Tanim
    OBVIOUS
  <2>3. Tutarli(z, liste) /\ Anahtar(z) = <<d, liste>>
    BY <1>0, <2>2, YeniKosumTutarli
  <2> HIDE DEF z
  <2>4. Tutarlilar(kosumlar', liste)
    BY <1>0, <1>a, <2>1, <2>3, KosumEklenir DEF Ucusta
  <2> QED BY <1>0, <1>a, <2>1, <2>4 DEF CozumInv, Cevre
<1>5. ASSUME NEW k \in kosumlar, KosumAdim(k) PROVE CozumInv'
  <2>1. CASE KosumCekirdekOku(k)
    <3>1. Tanim # {}
      BY <1>0, KosumAlan DEF Tutarlilar, Tutarli
    <3> QED BY <2>1, <3>1, KosumOkurAdim
  <2> QED BY <1>5, <2>1, KosumOkurAdim, KosumIcAdim, KosumBiterAdim DEF KosumAdim
<1>6. CASE VeriIlerle
  <2>1. veri < MaxVeri /\ veri' = veri + 1
        /\ UNCHANGED <<liste, tanimli, onbellek, hatali, kosumlar, istekler, basarisiz>>
    BY <1>6 DEF VeriIlerle
  <2>2. veri' \in 1 .. MaxVeri /\ liste' \in 1 .. veri'
    BY <1>0, <1>a, <2>1, SayiTip DEF Cevre
  <2> QED BY <1>0, <2>1, <2>2 DEF CozumInv, Cevre
<1>7. ASSUME NEW v \in 1 .. MaxVeri, ListeTazele(v) PROVE CozumInv'
  <2>1. v \in liste + 1 .. veri /\ liste' = v
        /\ UNCHANGED <<veri, tanimli, onbellek, hatali, kosumlar, istekler, basarisiz>>
    BY <1>7 DEF ListeTazele
  <2>2. v \in Nat /\ liste <= v /\ v \in 1 .. veri
    BY <1>a, <1>0, <2>1 DEF Cevre
  <2>3. Tutarlilar(kosumlar', liste')
    BY <1>0, <1>a, <2>1, <2>2, TutarliArtar
  <2> QED BY <1>0, <2>1, <2>2, <2>3 DEF CozumInv, Cevre
<1>8. CASE UNCHANGED cozumVars
  BY <1>0, <1>8 DEF cozumVars, CozumInv, Cevre
<1> QED BY <1>1, <1>2, <1>3, <1>4, <1>5, <1>6, <1>7, <1>8 DEF CozumNext

LEMMA CozumBaslar == CozumInit => CozumInv
<1> SUFFICES ASSUME CozumInit PROVE CozumInv
  OBVIOUS
<1>1. <<>> \in Seq(Girdi) /\ DOMAIN <<>> = {} /\ Len(<<>>) = 0
  OBVIOUS
<1>2. Saglam(<<>>)
  BY <1>1 DEF Saglam, TekGirdi
<1>3. Sinirda(<<>>)
  <2>1. Toplam(<<>>) = 0
    BY <1>1, ToplamTip
  <2> QED BY <2>1, SatirVarsayim DEF Sinirda
<1>4. Cevre
  BY SayiTip DEF Cevre, CozumInit
<1> QED BY <1>2, <1>3, <1>4 DEF CozumInv, CozumInit, Tutarlilar

\* Types: the runs in flight and what the cache holds.
THEOREM ResolutionTypes == CozumSpec => []CozumTypeOK
<1>1. CozumInv => CozumTypeOK
  BY DEF CozumInv, Cevre, CozumTypeOK, Saglam, Tutarlilar, Tutarli
<1> QED BY <1>1, CozumBaslar, CozumAdim, PTL DEF CozumSpec

\* N readers of one version share one run (see TekKosum).
THEOREM OneFlight == CozumSpec => []TekKosum
<1>1. CozumInv => TekKosum
  BY DEF CozumInv, TekKosum, Tutarlilar
<1> QED BY <1>1, CozumBaslar, CozumAdim, PTL DEF CozumSpec

\* No cached result holds rows older than the version it is labelled with, and the cache
\* has one entry per definition, within the row bound unless a single result exceeds it
\* (see OnbellekDurust).
THEOREM CacheHonest == CozumSpec => []OnbellekDurust
<1>1. CozumInv => OnbellekDurust
  BY DEF CozumInv, OnbellekDurust, SurumDurust, OnbellekSinirda, Saglam, TekGirdi, Sinirda
<1> QED BY <1>1, CozumBaslar, CozumAdim, PTL DEF CozumSpec

=============================================================================
