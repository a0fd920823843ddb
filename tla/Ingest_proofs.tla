----------------------------- MODULE Ingest_proofs -----------------------------
(***************************************************************************)
(* Proofs about the ingest consumer: ids, caches and rows agree unless the *)
(* database was restored; the summary of a track is in its history; items  *)
(* that hold a report and do not name another object are lost only after   *)
(* one of the four causes; redelivery repairs the last state of every      *)
(* track.                                                                  *)
(*                                                                         *)
(* The invariants follow the batch: what the query before the present one  *)
(* has established about the batch's places, and what holds of a track     *)
(* that is in the database but not yet in the cache.                       *)
(***************************************************************************)
EXTENDS Ingest, FiniteSetTheorems, WellFoundedInduction, TLAPS

-----------------------------------------------------------------------------
(***************************************************************************)
(* 1. Least and greatest places.                                           *)
(***************************************************************************)
\* A non-empty set of naturals has a least element.
LEMMA EnKucuk ==
    ASSUME NEW T, T \subseteq Nat, T # {}
    PROVE  \E m \in T : \A n \in T : m <= n
<1> DEFINE F == {0 .. m : m \in T}
           R == StrictSubsetOrdering(Nat)
<1>1. IsWellFoundedOn(R, FiniteSubsetsOf(Nat))
  BY FS_StrictSubsetOrderingWellFounded
<1>2. \A m \in T : IsFiniteSet(0 .. m)
  BY FS_Interval
<1>3. F \subseteq FiniteSubsetsOf(Nat)
  BY <1>2 DEF FiniteSubsetsOf
<1>4. F # {}
  OBVIOUS
<1>5. \E x \in F : \A y \in F : ~ (<<y, x>> \in R)
  <2> HIDE DEF F, R
  <2> QED BY <1>1, <1>3, <1>4, WFMin
<1>6. PICK m \in T : \A n \in T : ~ (<<0 .. n, 0 .. m>> \in R)
  BY <1>5
<1>7. \A n \in T : m <= n
  <2> SUFFICES ASSUME NEW n \in T, n < m PROVE FALSE
    OBVIOUS
  <2>1. 0 .. n \subseteq 0 .. m /\ m \in 0 .. m /\ m \notin 0 .. n
    OBVIOUS
  <2>2. <<0 .. n, 0 .. m>> \in R
    BY <2>1 DEF StrictSubsetOrdering
  <2> QED BY <1>6, <2>2
<1>8. QED
  BY <1>7

\* A non-empty bounded set of naturals has a greatest element.
LEMMA EnBuyuk ==
    ASSUME NEW T, T \subseteq Nat, T # {}, NEW b \in Nat, \A n \in T : n <= b
    PROVE  \E m \in T : \A n \in T : n <= m
<1> DEFINE U == {b - n : n \in T}
<1>1. U \subseteq Nat /\ U # {}
  <2>1. \A n \in T : b - n \in Nat
    <3> SUFFICES ASSUME NEW n \in T PROVE b - n \in Nat
      OBVIOUS
    <3>1. n \in Nat /\ n <= b
      OBVIOUS
    <3>2. QED
      BY <3>1
  <2>2. QED
    BY <2>1
<1>2. PICK u \in U : \A v \in U : u <= v
  <2> HIDE DEF U
  <2> QED BY <1>1, EnKucuk
<1>3. PICK m \in T : u = b - m
  BY <1>2
<1>4. ASSUME NEW n \in T PROVE n <= m
  <2>1. b - n \in U
    OBVIOUS
  <2>2. b - m <= b - n
    BY <2>1, <1>2, <1>3
  <2>3. m \in Nat /\ n \in Nat
    OBVIOUS
  <2>4. QED
    BY <2>2, <2>3
<1>5. \A n \in T : n <= m
  BY <1>4
<1>6. QED
  BY <1>5

\* Of a non-empty set of places one comes first.
LEMMA IlkYer ==
    ASSUME NEW S, S \subseteq Nat \X Nat, S # {}
    PROVE  \E p \in S : \A q \in S : ~Once(q, p)
<1> DEFINE I == {p[1] : p \in S}
<1>1. I \subseteq Nat /\ I # {}
  OBVIOUS
<1>2. PICK i \in I : \A j \in I : i <= j
  BY <1>1, EnKucuk
<1> DEFINE J == {p[2] : p \in {p \in S : p[1] = i}}
<1>3. J \subseteq Nat /\ J # {}
  BY <1>2
<1>4. PICK j \in J : \A k \in J : j <= k
  BY <1>3, EnKucuk
<1>5. PICK p \in S : p[1] = i /\ p[2] = j
  BY <1>4
<1>6. ASSUME NEW q \in S, Once(q, p) PROVE FALSE
  <2>1. q[1] \in Nat /\ q[2] \in Nat /\ i \in Nat /\ j \in Nat
    BY <1>1, <1>3
  <2>2. i <= q[1]
    BY <1>2
  <2>3. q[1] = i => j <= q[2]
    BY <1>4
  <2>4. QED
    BY <1>5, <1>6, <2>1, <2>2, <2>3 DEF Once
<1>7. QED
  BY <1>6

\* Of a non-empty set of places with bounded coordinates one comes last.
LEMMA SonYer ==
    ASSUME NEW S, S \subseteq Nat \X Nat, S # {}, NEW b \in Nat, NEW c,
           \A p \in S : p[1] <= b /\ c[p[1]] \in Nat /\ p[2] <= c[p[1]]
    PROVE  \E p \in S : \A q \in S : ~Once(p, q)
<1> DEFINE I == {p[1] : p \in S}
<1>1. I \subseteq Nat /\ I # {} /\ \A i \in I : i <= b
  OBVIOUS
<1>2. PICK i \in I : \A j \in I : j <= i
  BY <1>1, EnBuyuk
<1> DEFINE J == {p[2] : p \in {p \in S : p[1] = i}}
<1>3. J \subseteq Nat /\ J # {} /\ c[i] \in Nat /\ \A j \in J : j <= c[i]
  BY <1>2
<1>4. PICK j \in J : \A k \in J : k <= j
  <2> HIDE DEF J
  <2> QED BY <1>3, EnBuyuk
<1>5. PICK p \in S : p[1] = i /\ p[2] = j
  BY <1>4
<1>6. ASSUME NEW q \in S, Once(p, q) PROVE FALSE
  <2>1. q[1] \in Nat /\ q[2] \in Nat /\ i \in Nat /\ j \in Nat
    BY <1>1, <1>3
  <2>2. q[1] <= i
    BY <1>2
  <2>3. q[1] = i => q[2] <= j
    BY <1>4
  <2>4. QED
    BY <1>5, <1>6, <2>1, <2>2, <2>3 DEF Once
<1>7. QED
  BY <1>6

-----------------------------------------------------------------------------
(***************************************************************************)
(* 2. Places of messages.                                                  *)
(***************************************************************************)
\* What is at a place of a partition.
LEMMA YerTip ==
    ASSUME NEW k \in Konu, NEW m \in Nat, NEW n \in Nat, n <= Len(Kayit[k]),
           NEW p \in Yerler(k, m, n)
    PROVE  /\ p \in Nat \X Nat
           /\ p[1] \in m + 1 .. n
           /\ Len(Kayit[k][p[1]]) \in Nat
           /\ p[2] \in 1 .. Len(Kayit[k][p[1]])
           /\ k \in IstKonu => Ogesi(k, p) \in Rapor \cup Bozuk \cup Raporsuz
           /\ k \notin IstKonu => Ogesi(k, p) \in Gozlem \cup Bozuk \cup Raporsuz
<1> DEFINE X == IF k \in IstKonu THEN Rapor \cup Bozuk \cup Raporsuz
                ELSE Gozlem \cup Bozuk \cup Raporsuz
<1>1. Kayit[k] \in Seq(Seq(X))
  BY KayitVarsayim
<1>2. PICK i \in m + 1 .. n : p \in {i} \X DOMAIN Kayit[k][i]
  BY DEF Yerler
<1> HIDE DEF X
<1>3. i \in 1 .. Len(Kayit[k])
  BY <1>1, <1>2
<1>4. Kayit[k][i] \in Seq(X)
  BY <1>1, <1>3
<1>5. DOMAIN Kayit[k][i] = 1 .. Len(Kayit[k][i]) /\ Len(Kayit[k][i]) \in Nat
  BY <1>4
<1>6. p[1] = i /\ p[2] \in 1 .. Len(Kayit[k][i]) /\ p = <<i, p[2]>>
  BY <1>2, <1>5
<1>7. Ogesi(k, p) \in X
  BY <1>4, <1>5, <1>6 DEF Ogesi
<1>8. p \in Nat \X Nat
  BY <1>6, <1>3, <1>5
<1>9. QED
  BY <1>2, <1>5, <1>6, <1>7, <1>8 DEF X

\* The places after the m-th message, and those up to it.
LEMMA YerBol ==
    ASSUME NEW k, NEW l \in Nat, NEW m \in Nat, NEW n \in Nat, l <= m,
           NEW p \in Yerler(k, l, n)
    PROVE  p \in Yerler(k, l, m) \/ p \in Yerler(k, m, n)
<1>1. PICK i \in l + 1 .. n : p \in {i} \X DOMAIN Kayit[k][i]
  BY DEF Yerler
<1>2. i \in l + 1 .. m \/ i \in m + 1 .. n
  BY <1>1
<1>3. QED
  BY <1>1, <1>2 DEF Yerler

LEMMA YerGenis ==
    ASSUME NEW k, NEW l \in Nat, NEW m \in Nat, NEW n \in Nat, NEW h \in Nat, h <= l, m <= n,
           NEW p \in Yerler(k, l, m)
    PROVE  p \in Yerler(k, h, n)
<1>1. PICK i \in l + 1 .. m : p \in {i} \X DOMAIN Kayit[k][i]
  BY DEF Yerler
<1>2. i \in h + 1 .. n
  BY <1>1
<1>3. QED
  BY <1>1, <1>2 DEF Yerler

-----------------------------------------------------------------------------
(***************************************************************************)
(* 3. Types, and what a batch in hand is made of.                          *)
(***************************************************************************)
BellekTip == [iz : [Iz -> 0 .. MaxId], sensor : SUBSET BilinenSensor]

\* A batch goes on where consumption stopped; what passed is of the kind its
\* partition carries, and the tracks it created are tracks it reports.
PartiTutarli ==
    parti # Yok =>
        /\ islenen[parti.konu] < parti.son /\ parti.son <= Len(Kayit[parti.konu])
        /\ parti.gecerli \subseteq Yerler(parti.konu, islenen[parti.konu], parti.son)
        /\ parti.konu \in IstKonu => parti.adim \in {"rapor", "karantina"}
        /\ parti.konu \notin IstKonu => parti.adim # "rapor"
        /\ parti.konu \in IstKonu => \A p \in parti.gecerli : Gozlenen(p) \in Rapor
        /\ parti.konu \notin IstKonu =>
              \A p \in parti.gecerli : /\ Gozlenen(p) \in Gozlem
                                       /\ Gozlenen(p).sensor \in BilinenSensor
        /\ \A d \in parti.donen : \E p \in parti.gecerli : Gozlenen(p).iz = d[1]

TipInv == TypeOK /\ PartiTutarli

LEMMA KayitTip == ASSUME NEW k \in Konu PROVE Len(Kayit[k]) \in Nat
<1> DEFINE X == IF k \in IstKonu THEN Rapor \cup Bozuk \cup Raporsuz
                ELSE Gozlem \cup Bozuk \cup Raporsuz
<1>1. Kayit[k] \in Seq(Seq(X))
  BY KayitVarsayim
<1> HIDE DEF X
<1>2. QED
  BY <1>1

LEMMA BosVtTip == ASSUME NEW s \in SUBSET BilinenSensor PROVE BosVt(s) \in Veritabani
<1>1. BosTablo \in [No -> Iz \cup {Yok}] /\ BosTablo \in [No -> Gozlem \cup {Yok}]
  BY DEF BosTablo
<1>2. 1 \in 1 .. MaxId + 1
  BY SinirVarsayim
<1>3. QED
  BY <1>1, <1>2 DEF BosVt, Veritabani

LEMMA IsinmisTip == ASSUME NEW d \in Veritabani PROVE Isinmis(d) \in BellekTip
<1>1. ASSUME NEW i \in Iz, \E n \in No : d.nesne[n] = i
      PROVE  (CHOOSE n \in No : d.nesne[n] = i) \in 0 .. MaxId
  BY <1>1, SinirVarsayim DEF No
<1>2. 0 \in 0 .. MaxId
  BY SinirVarsayim
<1>3. d.sensor \in SUBSET BilinenSensor
  BY DEF Veritabani
<1>4. QED
  BY <1>1, <1>2, <1>3 DEF Isinmis, BellekTip

LEMMA TipInit == Init => TipInv
<1> SUFFICES ASSUME Init PROVE TipInv
  OBVIOUS
<1>1. vt \in Veritabani
  BY SensorVarsayim, BosVtTip DEF Init
<1>2. bellek \in BellekTip
  BY <1>1, IsinmisTip DEF Init
<1>3. \A k \in Konu : 0 <= Len(Kayit[k])
  BY KayitTip
<1>4. 0 \in 0 .. MaxHata
  BY SinirVarsayim
<1>5. QED
  BY <1>1, <1>2, <1>3, <1>4 DEF Init, TipInv, TypeOK, PartiTutarli, BellekTip

\* A step that changes the batch's query, narrows what passed, or changes the
\* created tracks leaves a batch.
LEMMA PartiKalir ==
    ASSUME TipInv, parti # Yok, islenen' = islenen,
           NEW g \in SUBSET parti.gecerli, NEW a \in Adim,
           NEW d \in SUBSET (Iz \X No), NEW y \in BOOLEAN,
           parti.konu \in IstKonu => a \in {"rapor", "karantina"},
           parti.konu \notin IstKonu => a # "rapor",
           \A x \in d : \E p \in g : Gozlenen(p).iz = x[1],
           parti' = [konu |-> parti.konu, son |-> parti.son, gecerli |-> g,
                     karantina |-> parti.karantina, adim |-> a, donen |-> d, tekrar |-> y]
    PROVE  parti' \in Parti /\ PartiTutarli'
<1>1. parti \in Parti
  BY DEF TipInv, TypeOK
<1>2. g \in SUBSET (Nat \X Nat)
  BY <1>1 DEF Parti
<1>3. parti' \in Parti
  BY <1>1, <1>2 DEF Parti
<1>4. parti'.konu = parti.konu /\ parti'.son = parti.son /\ parti'.gecerli = g
      /\ parti'.adim = a /\ parti'.donen = d
  OBVIOUS
<1>5. \A p : Gozlenen(p)' = Gozlenen(p)
  BY <1>4 DEF Gozlenen, Ogesi
<1>6. QED
  BY <1>3, <1>4, <1>5 DEF TipInv, PartiTutarli

\* The same for a batch that only goes on to another query.
LEMMA PartiIlerler ==
    ASSUME TipInv, parti # Yok, islenen' = islenen, NEW a \in Adim,
           parti.konu \in IstKonu => a \in {"rapor", "karantina"},
           parti.konu \notin IstKonu => a # "rapor",
           parti' = [parti EXCEPT !.adim = a]
    PROVE  parti' \in Parti /\ PartiTutarli'
<1>1. parti \in Parti
  BY DEF TipInv, TypeOK
<1>2. parti' = [konu |-> parti.konu, son |-> parti.son, gecerli |-> parti.gecerli,
                karantina |-> parti.karantina, adim |-> a, donen |-> parti.donen,
                tekrar |-> parti.tekrar]
  BY <1>1 DEF Parti
<1>3. parti.donen \in SUBSET (Iz \X No) /\ parti.tekrar \in BOOLEAN
  BY <1>1 DEF Parti
<1>4. \A x \in parti.donen : \E p \in parti.gecerli : Gozlenen(p).iz = x[1]
  BY DEF TipInv, PartiTutarli
<1>5. parti.gecerli \in SUBSET parti.gecerli
  OBVIOUS
<1>6. QED
  BY <1>2, <1>3, <1>4, <1>5, PartiKalir, Zenon

\* A batch of observations.
LEMMA Gozlemde ==
    ASSUME TipInv, parti # Yok, parti.adim \notin {"rapor", "karantina"}
    PROVE  /\ parti \in Parti
           /\ parti.konu \in Konu \ IstKonu
           /\ \A p \in parti.gecerli : /\ Gozlenen(p) \in Gozlem /\ Gozlenen(p).iz \in Iz
                                       /\ Gozlenen(p).sensor \in BilinenSensor
           /\ \A p \in parti.gecerli : p \in Nat \X Nat
           /\ \A p \in Hazir : p \in parti.gecerli /\ bellek.iz[Gozlenen(p).iz] \in No
<1>1. parti \in Parti /\ bellek.iz \in [Iz -> 0 .. MaxId]
  BY DEF TipInv, TypeOK
<1>2. parti.konu \in Konu \ IstKonu
  BY <1>1 DEF TipInv, PartiTutarli, Parti
<1>3. \A p \in parti.gecerli : Gozlenen(p) \in Gozlem /\ Gozlenen(p).sensor \in BilinenSensor
  BY <1>2 DEF TipInv, PartiTutarli
<1>4. \A o \in Gozlem : o.iz \in Iz
  BY DEF Gozlem
<1>5. \A p \in parti.gecerli : Gozlenen(p).iz \in Iz
  BY <1>3, <1>4
<1>6. \A p \in parti.gecerli : bellek.iz[Gozlenen(p).iz] # 0 => bellek.iz[Gozlenen(p).iz] \in No
  BY <1>1, <1>5, SinirVarsayim DEF No
<1>7. \A p \in parti.gecerli : p \in Nat \X Nat
  BY <1>1 DEF Parti
<1>8. QED
  BY <1>1, <1>2, <1>3, <1>5, <1>6, <1>7 DEF Hazir

\* The row for the first state of a track is its last observation of the batch.
LEMMA IlkGozlemYeri ==
    ASSUME TipInv, parti # Yok, parti.adim \notin {"rapor", "karantina"},
           NEW i, \E p \in parti.gecerli : Gozlenen(p).iz = i
    PROVE  \E q \in parti.gecerli :
              /\ IlkGozlem(i) = Gozlenen(q) /\ Gozlenen(q).iz = i
              /\ \A p \in parti.gecerli : Gozlenen(p).iz = i => ~Once(q, p)
<1> DEFINE S == {p \in parti.gecerli : Gozlenen(p).iz = i}
           k == parti.konu
           c == [j \in Nat |-> Len(Kayit[k][j])]
<1>1. k \in Konu /\ islenen[k] \in Nat /\ parti.son \in Nat /\ parti.son <= Len(Kayit[k])
  BY Gozlemde DEF TipInv, TypeOK, PartiTutarli, Parti
<1>2. S \subseteq Nat \X Nat /\ S # {}
  BY Gozlemde
<1>3. ASSUME NEW p \in S PROVE p[1] <= parti.son /\ c[p[1]] \in Nat /\ p[2] <= c[p[1]]
  <2>1. p \in Yerler(k, islenen[k], parti.son)
    BY DEF TipInv, PartiTutarli
  <2>2. /\ p[1] \in islenen[k] + 1 .. parti.son
        /\ Len(Kayit[k][p[1]]) \in Nat
        /\ p[2] \in 1 .. Len(Kayit[k][p[1]])
    <3> HIDE DEF S, k, c
    <3> QED BY <1>1, <2>1, YerTip
  <2>3. p[1] \in Nat /\ p[1] <= parti.son
    BY <1>1, <2>2
  <2>4. c[p[1]] = Len(Kayit[k][p[1]])
    BY <2>3
  <2>5. QED
    BY <2>2, <2>3, <2>4
<1>4. PICK q \in S : \A p \in S : ~Once(q, p)
  <2> HIDE DEF S, c
  <2> QED BY <1>1, <1>2, <1>3, SonYer
<1>5. PICK r \in S : r = (CHOOSE s \in S : \A p \in S : ~Once(s, p)) /\ \A p \in S : ~Once(r, p)
  BY <1>4
<1>6. IlkGozlem(i) = Gozlenen(r)
  BY <1>5 DEF IlkGozlem
<1>7. QED
  BY <1>5, <1>6

LEMMA SonuncularTip ==
    ASSUME TipInv, parti # Yok, parti.adim \notin {"rapor", "karantina"}
    PROVE  /\ Sonuncular \subseteq Gozlem
           /\ \A tablo \in [No -> Gozlem \cup {Yok}] : Yazilmis(tablo) \in [No -> Gozlem \cup {Yok}]
           /\ \A tablo : \A n \in No :
                 \/ Yazilmis(tablo)[n] = tablo[n]
                 \/ \E o \in Sonuncular : Yazilmis(tablo)[n] = o /\ bellek.iz[o.iz] = n
<1>1. Sonuncular \subseteq Gozlem
  BY Gozlemde DEF Sonuncular
<1>2. ASSUME NEW n \in No, \E o \in Sonuncular : bellek.iz[o.iz] = n
      PROVE  /\ (CHOOSE o \in Sonuncular : bellek.iz[o.iz] = n) \in Sonuncular
             /\ bellek.iz[(CHOOSE o \in Sonuncular : bellek.iz[o.iz] = n).iz] = n
  BY <1>2
<1>3. QED
  BY <1>1, <1>2 DEF Yazilmis

\* What the insert of the unknown tracks does.
LEMMA Eklenen ==
    ASSUME TipInv, Adimda("yarat"), NEW sira \in vt.sira .. MaxId + 1,
           NEW no \in Numaralar(sira), NesneEkle(sira, no)
    PROVE  /\ vt' \in Veritabani
           /\ vt'.sira = sira
           /\ vt'.sensor = vt.sensor /\ vt'.gecmis = vt.gecmis /\ vt'.konum = vt.konum
           /\ vt'.dusman = vt.dusman /\ vt'.ozet = vt.ozet /\ vt'.rapor = vt.rapor
           /\ vt'.karantina = vt.karantina
           /\ Bilinmeyen \subseteq Iz
           /\ \A i \in Bilinmeyen : no[i] \in No /\ vt.sira <= no[i] /\ no[i] < sira
           /\ \A i, j \in Bilinmeyen : no[i] = no[j] => i = j
           /\ \A i \in Bilinmeyen \ Catisan : vt'.nesne[no[i]] = i
           /\ \A n \in No : \/ vt'.nesne[n] = vt.nesne[n]
                            \/ \E i \in Bilinmeyen \ Catisan : no[i] = n /\ vt'.nesne[n] = i
<1>1. vt \in Veritabani /\ parti # Yok /\ parti.adim = "yarat"
  BY DEF TipInv, TypeOK, Adimda
<1>2. Bilinmeyen \subseteq Iz
  BY <1>1, Gozlemde DEF Bilinmeyen
<1>3. vt.sira \in 1 .. MaxId + 1 /\ MaxId \in Nat /\ sira \in 1 .. MaxId + 1
  BY <1>1, SinirVarsayim DEF Veritabani
<1>4. no \in [Bilinmeyen -> vt.sira .. sira - 1] /\ IsInjective(no)
  BY DEF Numaralar, Bijection, Injection
<1>5. \A i \in Bilinmeyen : no[i] \in vt.sira .. sira - 1
  BY <1>4
<1>6. \A i \in Bilinmeyen : no[i] \in No /\ vt.sira <= no[i] /\ no[i] < sira
  BY <1>3, <1>5 DEF No
<1>7. \A i, j \in Bilinmeyen : no[i] = no[j] => i = j
  BY <1>4 DEF IsInjective
<1> DEFINE nesne == [n \in No |-> IF \E i \in Bilinmeyen \ Catisan : no[i] = n
                                  THEN CHOOSE i \in Bilinmeyen : no[i] = n ELSE vt.nesne[n]]
<1>8. \A i \in Bilinmeyen : (CHOOSE j \in Bilinmeyen : no[j] = no[i]) = i
  BY <1>7
<1>9. \A i \in Bilinmeyen \ Catisan : nesne[no[i]] = i
  BY <1>6, <1>8
<1>10. \A n \in No : \/ nesne[n] = vt.nesne[n]
                     \/ \E i \in Bilinmeyen \ Catisan : no[i] = n /\ nesne[n] = i
  BY <1>9
<1>11. nesne \in [No -> Iz \cup {Yok}]
  BY <1>1, <1>2, <1>10 DEF Veritabani
<1>12. vt' = [vt EXCEPT !.sira = sira, !.nesne = nesne]
  BY <1>1 DEF NesneEkle, Veritabani
<1> HIDE DEF nesne
<1>13. vt' \in Veritabani /\ vt'.nesne = nesne
  BY <1>1, <1>3, <1>11, <1>12 DEF Veritabani
<1>14. /\ vt'.sira = sira
       /\ vt'.sensor = vt.sensor /\ vt'.gecmis = vt.gecmis /\ vt'.konum = vt.konum
       /\ vt'.dusman = vt.dusman /\ vt'.ozet = vt.ozet /\ vt'.rapor = vt.rapor
       /\ vt'.karantina = vt.karantina
  BY <1>1, <1>12 DEF Veritabani
<1>15. QED
  BY <1>2, <1>6, <1>7, <1>9, <1>10, <1>13, <1>14

\* The next query is one of the batch's kind.
LEMMA SonrakiTip ==
    ASSUME TipInv, parti # Yok
    PROVE  /\ Sonraki(parti.adim) \in Adim
           /\ parti.konu \in IstKonu => Sonraki(parti.adim) \in {"rapor", "karantina"}
           /\ parti.konu \notin IstKonu => Sonraki(parti.adim) # "rapor"
<1>1. Sonraki(parti.adim) \in {"gecmis", "konum", "dusman", "ozet", "karantina"}
  BY DEF Sonraki
<1>2. parti.konu \in IstKonu => parti.adim \in {"rapor", "karantina"}
  BY DEF TipInv, PartiTutarli
<1>3. parti.konu \in IstKonu => Sonraki(parti.adim) = "karantina"
  BY <1>2 DEF Sonraki
<1>4. QED
  BY <1>1, <1>3 DEF Adim

LEMMA IlerleTip ==
    ASSUME TipInv, parti # Yok, islenen' = islenen, Ilerle
    PROVE  parti' \in Parti /\ PartiTutarli'
<1>1. parti' = [parti EXCEPT !.adim = Sonraki(parti.adim)]
  BY DEF Ilerle
<1>2. PICK a \in Adim : a = Sonraki(parti.adim)
  BY SonrakiTip
<1>3. parti' = [parti EXCEPT !.adim = a]
  BY <1>1, <1>2
<1>4. /\ parti.konu \in IstKonu => a \in {"rapor", "karantina"}
      /\ parti.konu \notin IstKonu => a # "rapor"
  BY <1>2, SonrakiTip
<1>5. QED
  BY <1>3, <1>4, PartiIlerler

LEMMA DeneTip ==
    ASSUME TipInv, parti # Yok, islenen' = islenen, DusVeyaDene
    PROVE  parti' \in Parti \cup {Yok} /\ PartiTutarli'
<1>1. CASE parti' = Yok
  BY <1>1 DEF PartiTutarli
<1>2. CASE Yazimda /\ ~parti.tekrar /\ YenidenDene
  <2>1. parti \in Parti /\ parti.konu \notin IstKonu
    BY <1>2 DEF TipInv, TypeOK, PartiTutarli, Yazimda
  <2>2. parti' = [konu |-> parti.konu, son |-> parti.son, gecerli |-> parti.gecerli,
                  karantina |-> parti.karantina, adim |-> "yarat", donen |-> {},
                  tekrar |-> TRUE]
    BY <1>2, <2>1 DEF YenidenDene, Parti
  <2>3. "yarat" \in Adim /\ {} \in SUBSET (Iz \X No) /\ TRUE \in BOOLEAN
    BY DEF Adim
  <2>4. \A x \in {} : \E p \in parti.gecerli : Gozlenen(p).iz = x[1]
    OBVIOUS
  <2>5. "yarat" # "rapor"
    OBVIOUS
  <2>6. parti' \in Parti /\ PartiTutarli'
    BY <2>1, <2>2, <2>3, <2>4, <2>5, PartiKalir
  <2>7. QED
    BY <2>6
<1>3. QED
  BY <1>1, <1>2 DEF DusVeyaDene

\* A step that does not touch the offsets.
\* The first insert of a new track's state.
LEMMA IlkDusmanTip ==
    ASSUME TipInv, parti # Yok, parti.adim = "ilk", NEW d \in Iz \X No, d \in parti.donen,
           UNCHANGED vt \/ IlkDusman(d)
    PROVE  vt' \in Veritabani
<1>1. vt \in Veritabani
  BY DEF TipInv, TypeOK
<1>2. IlkGozlem(d[1]) \in Gozlem
  <2>1. \E p \in parti.gecerli : Gozlenen(p).iz = d[1]
    BY DEF TipInv, PartiTutarli
  <2>2. PICK q \in parti.gecerli : IlkGozlem(d[1]) = Gozlenen(q)
    BY <2>1, IlkGozlemYeri
  <2>3. QED
    BY <2>2, Gozlemde
<1> DEFINE n == d[2]
           x == Bossa(vt.dusman[n], IlkGozlem(d[1]))
<1>3. n \in No
  OBVIOUS
<1>4. x \in Gozlem \cup {Yok}
  BY <1>1, <1>2, <1>3 DEF Bossa, Veritabani
<1>5. vt' = vt \/ vt' = [vt EXCEPT !.dusman = [vt.dusman EXCEPT ![n] = x]]
  BY DEF IlkDusman
<1> HIDE DEF n, x
<1>6. [vt.dusman EXCEPT ![n] = x] \in [No -> Gozlem \cup {Yok}]
  BY <1>1, <1>3, <1>4 DEF Veritabani
<1>7. QED
  BY <1>1, <1>5, <1>6 DEF Veritabani

LEMMA TipKur ==
    ASSUME TipInv, islenen' = islenen, kayitli' = kayitli,
           vt' \in Veritabani, bellek' \in BellekTip, parti' \in Parti \cup {Yok}, PartiTutarli',
           hata' \in 0 .. MaxHata, sebep' \subseteq Sebep
    PROVE  TipInv'
BY DEF TipInv, TypeOK, BellekTip

LEMMA TipAl ==
    ASSUME TipInv, NEW k \in Konu, NEW n \in 1 .. Len(Kayit[k]), Al(k, n)
    PROVE  TipInv'
<1>1. islenen[k] \in Nat /\ n \in Nat /\ islenen[k] < n /\ n <= Len(Kayit[k])
  BY KayitTip DEF TipInv, TypeOK, Al
<1> DEFINE Y == Yerler(k, islenen[k], n)
           g == {p \in Y : Gecer(Ogesi(k, p))}
           q == {o \in {Ogesi(k, p) : p \in Y} : ~Gecer(o)} \ Raporsuz
           a == IF k \in IstKonu THEN "rapor" ELSE "yarat"
<1>2. \A p \in Y : p \in Nat \X Nat
  BY <1>1, YerTip
<1>3. \A p \in Y : /\ k \in IstKonu => Ogesi(k, p) \in Rapor \cup Bozuk \cup Raporsuz
                   /\ k \notin IstKonu => Ogesi(k, p) \in Gozlem \cup Bozuk \cup Raporsuz
  BY <1>1, YerTip
<1>4. \A p \in Y : Ogesi(k, p) \in Oge
  BY <1>3 DEF Oge
<1>5. \A p \in g : /\ k \in IstKonu => Ogesi(k, p) \in Rapor
                   /\ k \notin IstKonu => /\ Ogesi(k, p) \in Gozlem
                                         /\ Ogesi(k, p).sensor \in BilinenSensor
  <2>1. bellek.sensor \subseteq BilinenSensor
    BY DEF TipInv, TypeOK
  <2>2. QED
    BY <1>3, <2>1, OgeVarsayim DEF Gecer
<1>6. parti' = [konu |-> k, son |-> n, gecerli |-> g, karantina |-> q, adim |-> a,
                donen |-> {}, tekrar |-> FALSE]
  BY DEF Al
<1>7. g \in SUBSET (Nat \X Nat) /\ q \in SUBSET Oge /\ a \in Adim
  BY <1>2, <1>4 DEF Adim
<1>8. g \subseteq Y
  OBVIOUS
<1>9. a \in {"rapor", "yarat"} /\ (k \in IstKonu <=> a = "rapor")
  OBVIOUS
<1> HIDE DEF g, q, a
<1>10. {} \in SUBSET (Iz \X No) /\ FALSE \in BOOLEAN
  OBVIOUS
<1>11. parti' \in Parti
  BY <1>1, <1>6, <1>7, <1>10 DEF Parti
<1>12. /\ parti'.konu = k /\ parti'.son = n /\ parti'.gecerli = g /\ parti'.adim = a
       /\ parti'.donen = {}
  BY <1>6
<1>13. islenen' = islenen
  BY DEF Al
<1>14. \A p : Gozlenen(p)' = Ogesi(k, p)
  BY <1>12 DEF Gozlenen, Ogesi
<1>15. PartiTutarli'
  BY <1>1, <1>5, <1>8, <1>9, <1>12, <1>13, <1>14 DEF PartiTutarli
<1>16. QED
  BY <1>11, <1>15, TipKur DEF Al, TipInv, TypeOK, BellekTip

\* The queries of a batch.
LEMMA TipTuket ==
    ASSUME TipInv, Tuket
    PROVE  TipInv'
<1> USE DEF BellekTip
<1>0. /\ vt \in Veritabani /\ bellek \in BellekTip /\ parti \in Parti \cup {Yok}
      /\ hata \in 0 .. MaxHata /\ sebep \subseteq Sebep
  BY DEF TipInv, TypeOK
<1>1. ASSUME NEW k \in Konu, NEW n \in 1 .. Len(Kayit[k]), Al(k, n) PROVE TipInv'
  BY <1>1, TipAl
<1>2. ASSUME NesneYarat PROVE TipInv'
  <2>1. Adimda("yarat") /\ parti # Yok /\ parti.adim = "yarat"
    BY <1>2 DEF NesneYarat, Adimda
  <2>0. PICK sira \in vt.sira .. MaxId + 1 : \E no \in Numaralar(sira) :
           /\ NesneEkle(sira, no)
           /\ LET donen == {<<i, no[i]>> : i \in Bilinmeyen \ Catisan}
              IN parti' = [parti EXCEPT !.donen = donen,
                                        !.adim = IF donen = {} THEN Sonraki(@) ELSE "ilk"]
    BY <1>2 DEF NesneYarat
  <2>2. PICK no \in Numaralar(sira) :
           /\ NesneEkle(sira, no)
           /\ LET donen == {<<i, no[i]>> : i \in Bilinmeyen \ Catisan}
              IN parti' = [parti EXCEPT !.donen = donen,
                                        !.adim = IF donen = {} THEN Sonraki(@) ELSE "ilk"]
    BY <2>0
  <2>3. vt' \in Veritabani /\ Bilinmeyen \subseteq Iz /\ \A i \in Bilinmeyen : no[i] \in No
    BY <2>1, <2>2, Eklenen
  <2> DEFINE d == {<<i, no[i]>> : i \in Bilinmeyen \ Catisan}
             a == IF d = {} THEN Sonraki("yarat") ELSE "ilk"
  <2>4. d \in SUBSET (Iz \X No)
    BY <2>3
  <2>5. \A x \in d : \E p \in parti.gecerli : Gozlenen(p).iz = x[1]
    BY DEF Bilinmeyen
  <2>6. a \in Adim /\ a # "rapor"
    BY DEF Sonraki, Adim
  <2>7. parti \in Parti /\ parti.konu \notin IstKonu
    BY <2>1, Gozlemde
  <2>8. parti' = [konu |-> parti.konu, son |-> parti.son, gecerli |-> parti.gecerli,
                  karantina |-> parti.karantina, adim |-> a, donen |-> d,
                  tekrar |-> parti.tekrar]
    BY <2>1, <2>2, <2>7 DEF Parti
  <2> HIDE DEF a, d
  <2>9. islenen' = islenen /\ parti.tekrar \in BOOLEAN
    BY <1>2, <2>7 DEF NesneYarat, Parti
  <2>10. parti' \in Parti /\ PartiTutarli'
    BY <2>1, <2>4, <2>5, <2>6, <2>7, <2>8, <2>9, PartiKalir
  <2>11. QED
    BY <1>0, <1>2, <2>3, <2>10, TipKur DEF NesneYarat
<1>3. ASSUME NesneGerekmez PROVE TipInv'
  <2>1. parti # Yok /\ islenen' = islenen /\ Ilerle
    BY <1>3 DEF NesneGerekmez, Adimda
  <2>2. parti' \in Parti /\ PartiTutarli'
    BY <2>1, IlerleTip
  <2>3. QED
    BY <1>0, <1>3, <2>2, TipKur DEF NesneGerekmez
<1>4. ASSUME HazirYok PROVE TipInv'
  <2>1. parti # Yok /\ islenen' = islenen /\ parti' = [parti EXCEPT !.adim = "karantina"]
    BY <1>4 DEF HazirYok, Adimda
  <2>2. PICK a \in Adim : a = "karantina"
    BY DEF Adim
  <2>3. parti' \in Parti /\ PartiTutarli'
    BY <2>1, <2>2, PartiIlerler
  <2>4. QED
    BY <1>0, <1>4, <2>3, TipKur DEF HazirYok
<1>5. ASSUME GecmisYaz PROVE TipInv'
  <2>1. parti # Yok /\ parti.adim = "gecmis" /\ islenen' = islenen /\ Ilerle
    BY <1>5 DEF GecmisYaz, Adimda
  <2>2. parti' \in Parti /\ PartiTutarli'
    BY <2>1, IlerleTip
  <2>3. \A p \in Hazir : Satir(p) \in [no : No, g : Gozlem]
    BY <2>1, Gozlemde DEF Satir
  <2>4. PICK yeni \in SUBSET Hazir : vt' = [vt EXCEPT !.gecmis = @ \cup {Satir(p) : p \in yeni}]
    BY <1>5 DEF GecmisYaz
  <2>5. PICK r \in SUBSET [no : No, g : Gozlem] : vt' = [vt EXCEPT !.gecmis = @ \cup r]
    BY <2>3, <2>4
  <2>6. vt.gecmis \cup r \in SUBSET [no : No, g : Gozlem]
    BY <1>0 DEF Veritabani
  <2>7. vt' \in Veritabani
    BY <1>0, <2>5, <2>6 DEF Veritabani
  <2>8. QED
    BY <1>0, <1>5, <2>2, <2>7, TipKur DEF GecmisYaz
<1>6. ASSUME SonDurumYaz PROVE TipInv'
  <2>1. /\ parti # Yok /\ parti.adim \notin {"rapor", "karantina"}
        /\ islenen' = islenen /\ Ilerle
    BY <1>6 DEF SonDurumYaz, Adimda
  <2>2. parti' \in Parti /\ PartiTutarli'
    BY <2>1, IlerleTip
  <2>3. \A tablo \in [No -> Gozlem \cup {Yok}] : Yazilmis(tablo) \in [No -> Gozlem \cup {Yok}]
    BY <2>1, SonuncularTip
  <2>4. /\ Yazilmis(vt.konum) \in [No -> Gozlem \cup {Yok}]
        /\ Yazilmis(vt.dusman) \in [No -> Gozlem \cup {Yok}]
        /\ Yazilmis(vt.ozet) \in [No -> Gozlem \cup {Yok}]
    BY <1>0, <2>3 DEF Veritabani
  <2>5. \/ vt' = [vt EXCEPT !.konum = Yazilmis(vt.konum)]
        \/ vt' = [vt EXCEPT !.dusman = Yazilmis(vt.dusman)]
        \/ vt' = [vt EXCEPT !.ozet = Yazilmis(vt.ozet)]
    BY <1>6 DEF SonDurumYaz
  <2>6. vt' \in Veritabani
    BY <1>0, <2>4, <2>5 DEF Veritabani
  <2>7. QED
    BY <1>0, <1>6, <2>2, <2>6, TipKur DEF SonDurumYaz
<1>7. ASSUME IkiKezDokunur PROVE TipInv'
  <2>1. PartiTutarli'
    BY <1>7 DEF IkiKezDokunur, PartiTutarli
  <2>2. QED
    BY <1>0, <1>7, <2>1, TipKur DEF IkiKezDokunur
<1>8. ASSUME RaporYaz PROVE TipInv'
  <2>1. parti # Yok /\ parti.adim = "rapor" /\ islenen' = islenen /\ Ilerle
    BY <1>8 DEF RaporYaz, Adimda
  <2>2. parti' \in Parti /\ PartiTutarli'
    BY <2>1, IlerleTip
  <2>3. {Gozlenen(p) : p \in parti.gecerli} \in SUBSET Rapor
    BY <2>1 DEF TipInv, PartiTutarli
  <2>4. PICK r \in SUBSET Rapor : vt' = [vt EXCEPT !.rapor = @ \cup r]
    BY <1>8, <2>3 DEF RaporYaz
  <2>5. vt' \in Veritabani
    BY <1>0, <2>4 DEF Veritabani
  <2>6. QED
    BY <1>0, <1>8, <2>2, <2>5, TipKur DEF RaporYaz
<1>9. ASSUME KarantinaYaz PROVE TipInv'
  <2>1. parti # Yok /\ parti' = Yok
    BY <1>9 DEF KarantinaYaz, Adimda
  <2>2. parti \in Parti
    BY <1>0, <2>1
  <2>3. parti.konu \in Konu /\ parti.son \in Nat /\ parti.karantina \in SUBSET Oge
    BY <2>2 DEF Parti
  <2>4. islenen[parti.konu] < parti.son /\ parti.son <= Len(Kayit[parti.konu])
    BY <2>1 DEF TipInv, PartiTutarli
  <2>5. vt' \in Veritabani
    <3>1. PICK q \in SUBSET Oge : vt' = [vt EXCEPT !.karantina = @ \cup q]
      BY <1>9, <2>3 DEF KarantinaYaz
    <3>2. QED
      BY <1>0, <3>1 DEF Veritabani
  <2>6. /\ islenen' = [islenen EXCEPT ![parti.konu] = parti.son]
        /\ kayitli' = kayitli /\ bellek' = bellek /\ hata' = hata /\ sebep' = sebep
    BY <1>9 DEF KarantinaYaz
  <2>7. /\ islenen \in [Konu -> Nat] /\ kayitli \in [Konu -> Nat]
        /\ \A k \in Konu : kayitli[k] <= islenen[k] /\ islenen[k] <= Len(Kayit[k])
    BY DEF TipInv, TypeOK
  <2>8. /\ islenen' \in [Konu -> Nat]
        /\ \A k \in Konu : kayitli'[k] <= islenen'[k] /\ islenen'[k] <= Len(Kayit[k])
    <3>1. \A k \in Konu : islenen'[k] = IF k = parti.konu THEN parti.son ELSE islenen[k]
      BY <2>3, <2>6, <2>7
    <3>2. kayitli[parti.konu] <= parti.son
      BY <2>3, <2>4, <2>7
    <3>3. QED
      BY <2>3, <2>4, <2>6, <2>7, <3>1, <3>2
  <2>9. QED
    BY <1>0, <2>1, <2>5, <2>6, <2>7, <2>8 DEF TipInv, TypeOK, PartiTutarli
<1>10. ASSUME NEW d \in Iz \X No PROVE Onbellekle(d) => bellek' \in BellekTip
  <2>1. d[1] \in Iz /\ d[2] \in 0 .. MaxId
    BY SinirVarsayim DEF No
  <2>2. QED
    BY <1>0, <2>1 DEF Onbellekle
<1>11. ASSUME YabanciAnahtar PROVE TipInv'
  <2>1. /\ AnahtarTutmaz /\ parti # Yok /\ parti.adim \notin {"rapor", "karantina"}
        /\ islenen' = islenen
    BY <1>11 DEF YabanciAnahtar, AnahtarTutmaz, Adimda, Yazimda
  <2>2. parti.konu \notin IstKonu /\ parti.donen \subseteq Iz \X No
    BY <2>1, Gozlemde DEF Parti
  <2>3. bellek' \in BellekTip
    BY <1>0, <1>10, <2>1, <2>2 DEF AnahtarTutmaz
  <2>4. parti' \in Parti \cup {Yok} /\ PartiTutarli'
    <3>1. CASE parti.tekrar
      BY <1>11, <3>1 DEF YabanciAnahtar, PartiTutarli
    <3>2. CASE ~parti.tekrar
      <4>1. PICK a \in Adim : a = "tazele"
        BY DEF Adim
      <4>2. parti' = [parti EXCEPT !.adim = a]
        BY <1>11, <3>2, <4>1 DEF YabanciAnahtar
      <4>3. QED
        BY <2>1, <2>2, <4>1, <4>2, PartiIlerler
    <3>3. QED
      BY <3>1, <3>2
  <2>5. QED
    BY <1>0, <1>11, <2>3, <2>4, TipKur DEF YabanciAnahtar
<1>12. ASSUME Tazele PROVE TipInv'
  <2>1. parti # Yok /\ parti.adim = "tazele" /\ islenen' = islenen
    BY <1>12 DEF Tazele, Adimda
  <2>2. parti \in Parti /\ parti.konu \notin IstKonu
    BY <2>1, Gozlemde
  <2>3. bellek' \in BellekTip
    BY <1>0, <1>12, IsinmisTip DEF Tazele
  <2>4. PICK g \in SUBSET parti.gecerli :
           /\ parti' = [parti EXCEPT !.gecerli = g, !.adim = "yarat", !.donen = {}, !.tekrar = TRUE]
           /\ sebep' = IF g = parti.gecerli THEN sebep ELSE sebep \cup {"eleme"}
    BY <1>12 DEF Tazele
  <2>5. parti' = [konu |-> parti.konu, son |-> parti.son, gecerli |-> g,
                  karantina |-> parti.karantina, adim |-> "yarat", donen |-> {},
                  tekrar |-> TRUE]
    BY <2>2, <2>4 DEF Parti
  <2>6. "yarat" \in Adim /\ {} \in SUBSET (Iz \X No) /\ TRUE \in BOOLEAN /\ "yarat" # "rapor"
    BY DEF Adim
  <2>7. \A x \in {} : \E p \in g : Gozlenen(p).iz = x[1]
    OBVIOUS
  <2>8. parti' \in Parti /\ PartiTutarli'
    BY <2>1, <2>2, <2>5, <2>6, <2>7, PartiKalir
  <2>9. sebep' \subseteq Sebep
    BY <1>0, <2>4 DEF Sebep
  <2>10. QED
    BY <1>0, <1>12, <2>3, <2>8, <2>9, TipKur DEF Tazele
<1>13. ASSUME NEW d \in Iz \X No, IlkDurum(d) PROVE TipInv'
  <2>1. /\ parti # Yok /\ parti.adim = "ilk" /\ islenen' = islenen /\ d \in parti.donen
        /\ Onbellekle(d)
    BY <1>13 DEF IlkDurum, Adimda
  <2>2. parti \in Parti /\ parti.konu \notin IstKonu
    BY <2>1, Gozlemde
  <2>3. IlkGozlem(d[1]) \in Gozlem
    <3>1. \E p \in parti.gecerli : Gozlenen(p).iz = d[1]
      BY <2>1 DEF TipInv, PartiTutarli
    <3>2. PICK q \in parti.gecerli : IlkGozlem(d[1]) = Gozlenen(q)
      BY <2>1, <3>1, IlkGozlemYeri
    <3>3. QED
      BY <2>1, <3>2, Gozlemde
  <2>4. vt' \in Veritabani
    <3> DEFINE n == d[2]
               x == Bossa(vt.dusman[n], IlkGozlem(d[1]))
               y == Bossa(vt.konum[n], IlkGozlem(d[1]))
    <3>1. n \in No
      OBVIOUS
    <3>2. x \in Gozlem \cup {Yok} /\ y \in Gozlem \cup {Yok}
      BY <1>0, <2>3, <3>1 DEF Bossa, Veritabani
    <3>3. vt' = [vt EXCEPT !.dusman = [vt.dusman EXCEPT ![n] = x],
                           !.konum = [vt.konum EXCEPT ![n] = y]]
      BY <1>13 DEF IlkDurum
    <3> HIDE DEF n, x, y
    <3>4. /\ [vt.dusman EXCEPT ![n] = x] \in [No -> Gozlem \cup {Yok}]
          /\ [vt.konum EXCEPT ![n] = y] \in [No -> Gozlem \cup {Yok}]
      BY <1>0, <3>1, <3>2 DEF Veritabani
    <3>5. QED
      BY <1>0, <3>3, <3>4 DEF Veritabani
  <2>5. PICK k : k = parti.donen \ {d}
    OBVIOUS
  <2>6. PICK a : a = IF parti.donen = {d} THEN "gecmis" ELSE "ilk"
    OBVIOUS
  <2>7. parti' = [parti EXCEPT !.donen = k, !.adim = a]
    BY <1>13, <2>1, <2>2, <2>5, <2>6 DEF IlkDurum, Sonraki, Parti
  <2>8. a \in Adim /\ a # "rapor" /\ k \in SUBSET (Iz \X No) /\ parti.tekrar \in BOOLEAN
    BY <2>2, <2>5, <2>6 DEF Adim, Parti
  <2>9. \A x \in k : \E p \in parti.gecerli : Gozlenen(p).iz = x[1]
    BY <2>1, <2>5 DEF TipInv, PartiTutarli
  <2>10. parti' = [konu |-> parti.konu, son |-> parti.son, gecerli |-> parti.gecerli,
                  karantina |-> parti.karantina, adim |-> a, donen |-> k,
                  tekrar |-> parti.tekrar]
    BY <2>2, <2>7 DEF Parti
  <2>11. parti' \in Parti /\ PartiTutarli'
    BY <2>1, <2>2, <2>8, <2>9, <2>10, PartiKalir
  <2>12. bellek' \in BellekTip
    BY <1>10, <2>1
  <2>13. QED
    BY <1>0, <1>13, <2>4, <2>11, <2>12, TipKur DEF IlkDurum
<1>14. ASSUME VeriReddi PROVE TipInv'
  <2>1. PartiTutarli'
    BY <1>14 DEF VeriReddi, PartiTutarli
  <2>2. QED
    BY <1>0, <1>14, <2>1, TipKur DEF VeriReddi
<1>15. ASSUME NEW d \in Iz \X No, IlkDurumReddi(d) PROVE TipInv'
  <2>1. /\ parti # Yok /\ parti.adim = "ilk" /\ d \in parti.donen
        /\ parti' = Yok /\ Onbellekle(d) /\ (UNCHANGED vt \/ IlkDusman(d))
    BY <1>15 DEF IlkDurumReddi, Adimda
  <2>2. vt' \in Veritabani /\ bellek' \in BellekTip /\ PartiTutarli'
    BY <2>1, <1>10, IlkDusmanTip DEF PartiTutarli
  <2>3. sebep' \subseteq Sebep
    BY <1>0, <1>15 DEF IlkDurumReddi, YarimKalan, Sebep
  <2>4. QED
    BY <1>0, <1>15, <2>1, <2>2, <2>3, TipKur DEF IlkDurumReddi
<1>16. QED
  BY <1>1, <1>2, <1>3, <1>4, <1>5, <1>6, <1>7, <1>8, <1>9, <1>11, <1>12, <1>13, <1>14, <1>15
     DEF Tuket

LEMMA TipAdim == TipInv /\ [Next]_vars => TipInv'
<1> SUFFICES ASSUME TipInv, [Next]_vars PROVE TipInv'
  OBVIOUS
<1> USE DEF BellekTip
<1>0. /\ vt \in Veritabani /\ bellek \in BellekTip /\ parti \in Parti \cup {Yok}
      /\ hata \in 0 .. MaxHata /\ sebep \subseteq Sebep
  BY DEF TipInv, TypeOK
<1>1. CASE Tuket
  BY <1>1, TipTuket
<1>2. Ariza => hata' \in 0 .. MaxHata
  BY <1>0, SinirVarsayim DEF Ariza
<1>3. \A k : YarimKalan(k) \subseteq Sebep
  BY <1>0 DEF YarimKalan, Sebep
<1>4. parti' = Yok => parti' \in Parti \cup {Yok} /\ PartiTutarli'
  BY DEF PartiTutarli
<1>5. CASE SorguHata
  <2>1. parti # Yok /\ islenen' = islenen /\ DusVeyaDene
    BY <1>5 DEF SorguHata
  <2>2. parti' \in Parti \cup {Yok} /\ PartiTutarli'
    BY <2>1, DeneTip
  <2>3. QED
    BY <1>0, <1>2, <1>5, <2>2, TipKur DEF SorguHata
<1>6. CASE YaratYanitsiz
  <2>1. PICK sira \in vt.sira .. MaxId + 1 : \E no \in Numaralar(sira) : NesneEkle(sira, no)
    BY <1>6 DEF YaratYanitsiz
  <2>2. PICK no \in Numaralar(sira) : NesneEkle(sira, no)
    BY <2>1
  <2>3. vt' \in Veritabani
    BY <1>6, <2>2, Eklenen DEF YaratYanitsiz
  <2>4. QED
    BY <1>0, <1>2, <1>3, <1>4, <1>6, <2>3, TipKur DEF YaratYanitsiz
<1>7. CASE TazeleHata
  <2>1. bellek' \in BellekTip
    <3>1. PICK s \in {{}, vt.sensor} : bellek' = [iz |-> [i \in Iz |-> 0], sensor |-> s]
      BY <1>7 DEF TazeleHata
    <3>2. s \in SUBSET BilinenSensor /\ 0 \in 0 .. MaxId
      BY <1>0, SinirVarsayim DEF Veritabani
    <3>3. QED
      BY <3>1, <3>2
  <2>2. sebep' \subseteq Sebep
    BY <1>0, <1>7 DEF TazeleHata, Sebep
  <2>3. QED
    BY <1>0, <1>2, <1>4, <1>7, <2>1, <2>2, TipKur DEF TazeleHata
<1>8. CASE Cok
  <2>1. bellek' \in BellekTip
    BY <1>0, <1>8, IsinmisTip DEF Cok
  <2>2. \A k \in Konu : kayitli[k] \in Nat /\ islenen[k] \in Nat /\ Len(Kayit[k]) \in Nat
    BY KayitTip DEF TipInv, TypeOK
  <2>3. \A k \in Konu : kayitli'[k] <= islenen'[k] /\ islenen'[k] <= Len(Kayit[k])
    BY <1>8, <2>2 DEF Cok, TipInv, TypeOK
  <2>4. QED
    BY <1>0, <1>2, <1>4, <1>8, <2>1, <2>3 DEF Cok, TipInv, TypeOK
<1>9. CASE YedektenDon
  <2>1. vt' \in Veritabani
    BY <1>9, SensorVarsayim, BosVtTip DEF YedektenDon
  <2>2. sebep' \subseteq Sebep
    BY <1>0, <1>9 DEF YedektenDon, Sebep
  <2>3. PartiTutarli'
    BY <1>9 DEF YedektenDon, TipInv, PartiTutarli, Gozlenen, Ogesi
  <2>4. QED
    BY <1>0, <1>2, <1>9, <2>1, <2>2, <2>3, TipKur DEF YedektenDon
<1>10. ASSUME NEW d \in Iz \X No, IlkDurumHata(d) PROVE TipInv'
  <2>1. /\ parti # Yok /\ parti.adim = "ilk" /\ islenen' = islenen /\ d \in parti.donen
        /\ Onbellekle(d) /\ DusVeyaDene
    BY <1>10 DEF IlkDurumHata, Adimda
  <2>2. parti' \in Parti \cup {Yok} /\ PartiTutarli'
    BY <2>1, DeneTip
  <2>3. UNCHANGED vt \/ IlkDusman(d)
    BY <1>10 DEF IlkDurumHata
  <2>4. vt' \in Veritabani
    BY <2>1, <2>3, IlkDusmanTip
  <2>5. bellek' \in BellekTip
    <3>1. d[1] \in Iz /\ d[2] \in 0 .. MaxId
      BY SinirVarsayim DEF No
    <3>2. QED
      BY <1>0, <2>1, <3>1 DEF Onbellekle
  <2>6. QED
    BY <1>2, <1>3, <1>10, <2>2, <2>4, <2>5, TipKur DEF IlkDurumHata
<1>11. ASSUME NEW k \in Konu, OffsetKaydet(k) PROVE TipInv'
  <2>1. PartiTutarli'
    BY <1>11 DEF OffsetKaydet, TipInv, PartiTutarli, Gozlenen, Ogesi
  <2>2. kayitli' \in [Konu -> Nat] /\ \A m \in Konu : kayitli'[m] <= islenen[m]
    BY <1>11 DEF OffsetKaydet, TipInv, TypeOK
  <2>3. QED
    BY <1>11, <2>1, <2>2 DEF OffsetKaydet, TipInv, TypeOK
<1>12. CASE UNCHANGED vars
  BY <1>12 DEF vars, TipInv, TypeOK, PartiTutarli, Gozlenen, Ogesi
<1>13. QED
  BY <1>1, <1>5, <1>6, <1>7, <1>8, <1>9, <1>10, <1>11, <1>12 DEF Next

LEMMA TipHep == Spec => []TipInv
BY TipInit, TipAdim, PTL DEF Spec

\* Everything keeps its type, consumption stays between the committed offset
\* and what was published.
THEOREM IngestTypes == Spec => []TypeOK
BY TipHep, PTL DEF TipInv

-----------------------------------------------------------------------------
(***************************************************************************)
(* 4. Ids, caches and rows agree.                                          *)
(***************************************************************************)
\* Ids the sequence has not given are free, and what the insert returned is in
\* the database.
KimlikInv ==
    "yedek" \notin sebep =>
        /\ KimlikDogru
        /\ \A n \in No : n >= vt.sira => vt.nesne[n] = Yok
        /\ parti # Yok => \A d \in parti.donen : vt.nesne[d[2]] = d[1]

LEMMA KimlikInit == Init => KimlikInv
<1> SUFFICES ASSUME Init PROVE KimlikInv
  OBVIOUS
<1>1. \A n \in No : vt.nesne[n] = Yok
  BY DEF Init, BosVt, BosTablo
<1>2. vt.gecmis = {} /\ parti = Yok
  BY DEF Init, BosVt
<1>3. \A i \in Iz : bellek.iz[i] = 0
  BY <1>1, YokVarsayim DEF Init, Isinmis
<1>4. QED
  BY <1>1, <1>2, <1>3 DEF KimlikInv, KimlikDogru

\* A step that leaves tracks and history alone, caches only rows of the
\* database and returns no new ones.
LEMMA KimlikKur ==
    ASSUME KimlikInv, "yedek" \in sebep => "yedek" \in sebep',
           vt'.nesne = vt.nesne, vt'.sira = vt.sira, vt'.gecmis = vt.gecmis,
           "yedek" \notin sebep /\ KimlikDogru =>
               \A i \in Iz : bellek'.iz[i] # 0 => vt.nesne[bellek'.iz[i]] = i,
           parti' # Yok => \/ parti'.donen = {}
                           \/ parti # Yok /\ parti'.donen \subseteq parti.donen
    PROVE  KimlikInv'
<1> SUFFICES ASSUME "yedek" \notin sebep' PROVE KimlikInv'
  BY DEF KimlikInv
<1>1. "yedek" \notin sebep
  OBVIOUS
<1>2. /\ KimlikDogru
      /\ \A n \in No : n >= vt.sira => vt.nesne[n] = Yok
      /\ parti # Yok => \A d \in parti.donen : vt.nesne[d[2]] = d[1]
  BY <1>1 DEF KimlikInv
<1>3. \A i \in Iz : bellek'.iz[i] # 0 => vt.nesne[bellek'.iz[i]] = i
  BY <1>1, <1>2
<1>4. parti' # Yok => \A d \in parti'.donen : vt.nesne[d[2]] = d[1]
  BY <1>2
<1>5. KimlikDogru'
  BY <1>1, <1>2, <1>3 DEF KimlikDogru
<1>6. QED
  BY <1>2, <1>4, <1>5 DEF KimlikInv

\* Caches read from the database hold its rows.
LEMMA IsinmisDogru ==
    ASSUME NEW i \in Iz, Isinmis(vt).iz[i] # 0
    PROVE  Isinmis(vt).iz[i] \in No /\ vt.nesne[Isinmis(vt).iz[i]] = i
BY DEF Isinmis

\* The insert of the unknown tracks.
LEMMA KimlikEkle ==
    ASSUME TipInv, KimlikInv, Adimda("yarat"), NEW sira \in vt.sira .. MaxId + 1,
           NEW no \in Numaralar(sira), NesneEkle(sira, no),
           bellek' = bellek, "yedek" \in sebep => "yedek" \in sebep',
           parti' = Yok \/ parti'.donen = {<<i, no[i]>> : i \in Bilinmeyen \ Catisan}
    PROVE  KimlikInv'
<1> SUFFICES ASSUME "yedek" \notin sebep' PROVE KimlikInv'
  BY DEF KimlikInv
<1>1. "yedek" \notin sebep
  OBVIOUS
<1>2. /\ KimlikDogru
      /\ \A n \in No : n >= vt.sira => vt.nesne[n] = Yok
  BY <1>1 DEF KimlikInv
<1>3. /\ vt'.sira = sira /\ vt'.gecmis = vt.gecmis
      /\ Bilinmeyen \subseteq Iz
      /\ \A i \in Bilinmeyen : no[i] \in No /\ vt.sira <= no[i] /\ no[i] < sira
      /\ \A i, j \in Bilinmeyen : no[i] = no[j] => i = j
      /\ \A i \in Bilinmeyen \ Catisan : vt'.nesne[no[i]] = i
      /\ \A n \in No : \/ vt'.nesne[n] = vt.nesne[n]
                       \/ \E i \in Bilinmeyen \ Catisan : no[i] = n /\ vt'.nesne[n] = i
  BY Eklenen
<1>4. \A i \in Bilinmeyen : vt.nesne[no[i]] = Yok
  BY <1>2, <1>3
<1>5. \A n \in No : vt.nesne[n] # Yok => vt'.nesne[n] = vt.nesne[n]
  BY <1>3, <1>4
<1>6. \A m, n \in No : vt'.nesne[m] = vt'.nesne[n] /\ m # n => vt'.nesne[m] = Yok
  <2> SUFFICES ASSUME NEW m \in No, NEW n \in No, vt'.nesne[m] = vt'.nesne[n], m # n
               PROVE  vt'.nesne[m] = Yok
    OBVIOUS
  <2>1. CASE vt'.nesne[m] = vt.nesne[m] /\ vt'.nesne[n] = vt.nesne[n]
    BY <1>2, <2>1 DEF KimlikDogru
  <2>2. CASE vt'.nesne[m] # vt.nesne[m]
    <3>1. PICK i \in Bilinmeyen \ Catisan : no[i] = m /\ vt'.nesne[m] = i
      BY <1>3, <2>2
    <3>2. vt'.nesne[n] = i /\ i \in Iz
      BY <1>3, <3>1
    <3>3. vt.nesne[n] # i
      BY <3>1, <3>2 DEF Catisan
    <3>4. no[i] = n
      BY <1>3, <3>2, <3>3
    <3>5. QED
      BY <3>1, <3>4
  <2>3. CASE vt'.nesne[n] # vt.nesne[n]
    <3>1. PICK i \in Bilinmeyen \ Catisan : no[i] = n /\ vt'.nesne[n] = i
      BY <1>3, <2>3
    <3>2. vt'.nesne[m] = i /\ i \in Iz
      BY <1>3, <3>1
    <3>3. vt.nesne[m] # i
      BY <3>1, <3>2 DEF Catisan
    <3>4. no[i] = m
      BY <1>3, <3>2, <3>3
    <3>5. QED
      BY <3>1, <3>4
  <2>4. QED
    BY <2>1, <2>2, <2>3
<1>7. \A i \in Iz : bellek.iz[i] # 0 => vt'.nesne[bellek.iz[i]] = i
  <2> SUFFICES ASSUME NEW i \in Iz, bellek.iz[i] # 0 PROVE vt'.nesne[bellek.iz[i]] = i
    OBVIOUS
  <2>1. bellek.iz[i] \in No
    BY SinirVarsayim DEF TipInv, TypeOK, No
  <2>2. vt.nesne[bellek.iz[i]] = i /\ i # Yok
    BY <1>1, <1>2, YokVarsayim DEF KimlikDogru
  <2>3. QED
    BY <1>5, <2>1, <2>2
<1>8. \A r \in vt.gecmis : vt'.nesne[r.no] = r.g.iz
  <2> SUFFICES ASSUME NEW r \in vt.gecmis PROVE vt'.nesne[r.no] = r.g.iz
    OBVIOUS
  <2>1. r.no \in No /\ r.g.iz \in Iz
    BY DEF TipInv, TypeOK, Veritabani, Gozlem
  <2>2. vt.nesne[r.no] = r.g.iz /\ r.g.iz # Yok
    BY <1>1, <1>2, <2>1, YokVarsayim DEF KimlikDogru
  <2>3. QED
    BY <1>5, <2>1, <2>2
<1>9. \A n \in No : n >= vt'.sira => vt'.nesne[n] = Yok
  <2> SUFFICES ASSUME NEW n \in No, n >= sira PROVE vt'.nesne[n] = Yok
    BY <1>3
  <2>1. vt.sira \in Nat /\ sira \in Nat /\ n \in Nat /\ vt.sira <= sira
    BY SinirVarsayim DEF TipInv, TypeOK, Veritabani, No
  <2>2. \A i \in Bilinmeyen : no[i] # n
    BY <1>3, <2>1 DEF No
  <2>3. vt'.nesne[n] = vt.nesne[n]
    BY <1>3, <2>2
  <2>4. QED
    BY <1>2, <2>1, <2>3
<1>10. parti' # Yok => \A d \in parti'.donen : vt'.nesne[d[2]] = d[1]
  BY <1>3
<1>11. KimlikDogru'
  BY <1>3, <1>6, <1>7, <1>8 DEF KimlikDogru
<1>12. QED
  BY <1>9, <1>10, <1>11 DEF KimlikInv

LEMMA KimlikAdim == TipInv /\ KimlikInv /\ [Next]_vars => KimlikInv'
<1> SUFFICES ASSUME TipInv, KimlikInv, [Next]_vars PROVE KimlikInv'
  OBVIOUS
<1>0. vt \in Veritabani /\ bellek.iz \in [Iz -> 0 .. MaxId] /\ parti \in Parti \cup {Yok}
  BY DEF TipInv, TypeOK
<1>1. "yedek" \notin sebep /\ KimlikDogru =>
          \A i \in Iz : bellek.iz[i] # 0 => vt.nesne[bellek.iz[i]] = i
  BY DEF KimlikDogru
\* What reaches the cache from the rows the insert returned.
<1>2. ASSUME NEW d \in Iz \X No, Onbellekle(d), parti # Yok, d \in parti.donen
      PROVE  "yedek" \notin sebep /\ KimlikDogru =>
                 \A i \in Iz : bellek'.iz[i] # 0 => vt.nesne[bellek'.iz[i]] = i
  <2>1. \A i \in Iz : bellek'.iz[i] = IF i = d[1] THEN d[2] ELSE bellek.iz[i]
    BY <1>0, <1>2 DEF Onbellekle, TipInv, TypeOK
  <2>2. "yedek" \notin sebep => vt.nesne[d[2]] = d[1]
    BY <1>2 DEF KimlikInv
  <2>3. QED
    BY <1>1, <2>1, <2>2
\* A batch that is dropped or tried again has no created tracks.
<1>3. DusVeyaDene /\ parti # Yok /\ parti' # Yok => parti'.donen = {}
  BY <1>0 DEF DusVeyaDene, YenidenDene, Parti
<1>4. Ilerle /\ parti # Yok => parti'.donen = parti.donen
  BY <1>0 DEF Ilerle, Parti
<1>5. \A k : "yedek" \in sebep => "yedek" \in YarimKalan(k)
  BY DEF YarimKalan
<1>6. "yedek" \notin sebep /\ KimlikDogru =>
          \A i \in Iz : Isinmis(vt).iz[i] # 0 => vt.nesne[Isinmis(vt).iz[i]] = i
  BY IsinmisDogru
<1>7. ASSUME NEW k \in Konu, NEW n \in 1 .. Len(Kayit[k]), Al(k, n) PROVE KimlikInv'
  BY <1>1, <1>7, KimlikKur DEF Al
<1>8. CASE NesneYarat
  <2>1. PICK sira \in vt.sira .. MaxId + 1 : \E no \in Numaralar(sira) :
           /\ NesneEkle(sira, no)
           /\ LET donen == {<<i, no[i]>> : i \in Bilinmeyen \ Catisan}
              IN parti' = [parti EXCEPT !.donen = donen,
                                        !.adim = IF donen = {} THEN Sonraki(@) ELSE "ilk"]
    BY <1>8 DEF NesneYarat
  <2>2. PICK no \in Numaralar(sira) :
           /\ NesneEkle(sira, no)
           /\ LET donen == {<<i, no[i]>> : i \in Bilinmeyen \ Catisan}
              IN parti' = [parti EXCEPT !.donen = donen,
                                        !.adim = IF donen = {} THEN Sonraki(@) ELSE "ilk"]
    BY <2>1
  <2>3. parti \in Parti
    BY <1>0, <1>8 DEF NesneYarat, Adimda
  <2>4. parti'.donen = {<<i, no[i]>> : i \in Bilinmeyen \ Catisan}
    BY <2>2, <2>3 DEF Parti
  <2>5. Adimda("yarat") /\ bellek' = bellek /\ sebep' = sebep /\ NesneEkle(sira, no)
    BY <1>8, <2>2 DEF NesneYarat
  <2>6. QED
    BY <2>4, <2>5, KimlikEkle
<1>9. CASE NesneGerekmez
  BY <1>1, <1>4, <1>9, KimlikKur DEF NesneGerekmez, Adimda
<1>10. CASE HazirYok
  <2>1. parti # Yok /\ parti'.donen = parti.donen
    BY <1>0, <1>10 DEF HazirYok, Adimda, Parti
  <2>2. QED
    BY <1>1, <1>10, <2>1, KimlikKur DEF HazirYok
<1>11. CASE GecmisYaz
  <2> SUFFICES ASSUME "yedek" \notin sebep' PROVE KimlikInv'
    BY DEF KimlikInv
  <2>1. /\ parti # Yok /\ parti.adim = "gecmis" /\ bellek' = bellek /\ sebep' = sebep
        /\ "yedek" \notin sebep /\ parti'.donen = parti.donen
    BY <1>4, <1>11 DEF GecmisYaz, Adimda
  <2>2. PICK yeni \in SUBSET Hazir : vt' = [vt EXCEPT !.gecmis = @ \cup {Satir(p) : p \in yeni}]
    BY <1>11 DEF GecmisYaz
  <2>3. /\ vt'.nesne = vt.nesne /\ vt'.sira = vt.sira
        /\ vt'.gecmis = vt.gecmis \cup {Satir(p) : p \in yeni}
    BY <1>0, <2>2 DEF Veritabani
  <2>4. \A p \in yeni : vt.nesne[Satir(p).no] = Satir(p).g.iz
    <3> SUFFICES ASSUME NEW p \in yeni PROVE vt.nesne[Satir(p).no] = Satir(p).g.iz
      OBVIOUS
    <3>1. Gozlenen(p).iz \in Iz /\ bellek.iz[Gozlenen(p).iz] # 0
      BY <2>1, Gozlemde DEF Hazir
    <3>2. vt.nesne[bellek.iz[Gozlenen(p).iz]] = Gozlenen(p).iz
      BY <1>1, <2>1, <3>1 DEF KimlikInv
    <3>3. QED
      BY <3>2 DEF Satir
  <2>5. KimlikDogru'
    BY <2>1, <2>3, <2>4 DEF KimlikInv, KimlikDogru
  <2>6. QED
    BY <2>1, <2>3, <2>5 DEF KimlikInv
<1>12. CASE SonDurumYaz
  <2>1. parti # Yok /\ Ilerle /\ bellek' = bellek /\ sebep' = sebep
    BY <1>12 DEF SonDurumYaz, Adimda
  <2>2. \/ vt' = [vt EXCEPT !.konum = Yazilmis(vt.konum)]
        \/ vt' = [vt EXCEPT !.dusman = Yazilmis(vt.dusman)]
        \/ vt' = [vt EXCEPT !.ozet = Yazilmis(vt.ozet)]
    BY <1>12 DEF SonDurumYaz
  <2>3. vt'.nesne = vt.nesne /\ vt'.sira = vt.sira /\ vt'.gecmis = vt.gecmis
    BY <1>0, <2>2 DEF Veritabani
  <2>4. QED
    BY <1>1, <1>4, <2>1, <2>3, KimlikKur
<1>13. CASE IkiKezDokunur
  BY <1>1, <1>13, KimlikKur DEF IkiKezDokunur
<1>14. CASE RaporYaz
  <2>1. parti # Yok /\ Ilerle /\ bellek' = bellek /\ sebep' = sebep
    BY <1>14 DEF RaporYaz, Adimda
  <2>2. vt'.nesne = vt.nesne /\ vt'.sira = vt.sira /\ vt'.gecmis = vt.gecmis
    BY <1>0, <1>14 DEF RaporYaz, Veritabani
  <2>3. QED
    BY <1>1, <1>4, <2>1, <2>2, KimlikKur
<1>15. CASE KarantinaYaz
  <2>1. vt'.nesne = vt.nesne /\ vt'.sira = vt.sira /\ vt'.gecmis = vt.gecmis
    BY <1>0, <1>15 DEF KarantinaYaz, Veritabani
  <2>2. QED
    BY <1>1, <1>15, <2>1, KimlikKur DEF KarantinaYaz
<1>16. CASE YabanciAnahtar
  <2>1. parti # Yok /\ AnahtarTutmaz /\ vt' = vt /\ sebep' = sebep
    BY <1>16 DEF YabanciAnahtar, AnahtarTutmaz, Adimda, Yazimda
  <2>2. parti' # Yok => parti'.donen = parti.donen
    BY <1>0, <1>16, <2>1 DEF YabanciAnahtar, Parti
  <2>3. "yedek" \notin sebep /\ KimlikDogru =>
            \A i \in Iz : bellek'.iz[i] # 0 => vt.nesne[bellek'.iz[i]] = i
    <3>1. CASE bellek' = bellek
      BY <1>1, <3>1
    <3>2. CASE \E d \in parti.donen : vt.nesne[d[2]] = Yok /\ Onbellekle(d)
      <4>1. parti.donen \subseteq Iz \X No
        BY <1>0, <2>1 DEF Parti
      <4>2. QED
        BY <1>2, <2>1, <3>2, <4>1
    <3>3. QED
      BY <2>1, <3>1, <3>2 DEF AnahtarTutmaz
  <2>4. QED
    BY <2>1, <2>2, <2>3, KimlikKur
<1>17. CASE Tazele
  <2>1. parti \in Parti
    BY <1>0, <1>17 DEF Tazele, Adimda
  <2>2. PICK g \in SUBSET parti.gecerli :
           /\ parti' = [parti EXCEPT !.gecerli = g, !.adim = "yarat", !.donen = {}, !.tekrar = TRUE]
           /\ sebep' = IF g = parti.gecerli THEN sebep ELSE sebep \cup {"eleme"}
    BY <1>17 DEF Tazele
  <2>3. parti'.donen = {} /\ ("yedek" \in sebep => "yedek" \in sebep')
    BY <2>1, <2>2 DEF Parti
  <2>4. bellek' = Isinmis(vt) /\ vt' = vt
    BY <1>17 DEF Tazele
  <2>5. QED
    BY <1>6, <2>3, <2>4, KimlikKur
<1>18. ASSUME NEW d \in Iz \X No, IlkDurum(d) PROVE KimlikInv'
  <2>1. parti # Yok /\ d \in parti.donen /\ Onbellekle(d) /\ sebep' = sebep
    BY <1>18 DEF IlkDurum, Adimda
  <2>2. vt'.nesne = vt.nesne /\ vt'.sira = vt.sira /\ vt'.gecmis = vt.gecmis
    BY <1>0, <1>18 DEF IlkDurum, Veritabani
  <2>3. parti'.donen \subseteq parti.donen
    BY <1>0, <1>18, <2>1 DEF IlkDurum, Parti
  <2>4. QED
    BY <1>2, <2>1, <2>2, <2>3, KimlikKur
<1>19. CASE SorguHata
  <2>1. /\ parti # Yok /\ DusVeyaDene /\ vt' = vt /\ bellek' = bellek /\ sebep' = sebep
    BY <1>19 DEF SorguHata
  <2>2. QED
    BY <1>1, <1>3, <2>1, KimlikKur
<1>20. CASE YaratYanitsiz
  <2>1. PICK sira \in vt.sira .. MaxId + 1 : \E no \in Numaralar(sira) : NesneEkle(sira, no)
    BY <1>20 DEF YaratYanitsiz
  <2>2. PICK no \in Numaralar(sira) : NesneEkle(sira, no)
    BY <2>1
  <2>3. Adimda("yarat") /\ parti' = Yok /\ bellek' = bellek
    BY <1>20 DEF YaratYanitsiz
  <2>4. "yedek" \in sebep => "yedek" \in sebep'
    BY <1>5, <1>20 DEF YaratYanitsiz
  <2>5. QED
    BY <2>2, <2>3, <2>4, KimlikEkle
<1>21. CASE TazeleHata
  <2>1. \A i \in Iz : bellek'.iz[i] = 0
    BY <1>21 DEF TazeleHata
  <2>2. vt' = vt /\ parti' = Yok /\ ("yedek" \in sebep => "yedek" \in sebep')
    BY <1>21 DEF TazeleHata
  <2>3. QED
    BY <2>1, <2>2, KimlikKur
<1>22. CASE Cok
  <2>1. bellek' = Isinmis(vt) /\ vt' = vt /\ parti' = Yok /\ sebep' = sebep
    BY <1>22 DEF Cok
  <2>2. QED
    BY <1>6, <2>1, KimlikKur
<1>23. CASE YedektenDon
  BY <1>23 DEF YedektenDon, KimlikInv
<1>24. ASSUME NEW d \in Iz \X No, IlkDurumHata(d) PROVE KimlikInv'
  <2>1. parti # Yok /\ d \in parti.donen /\ Onbellekle(d) /\ DusVeyaDene
    BY <1>24 DEF IlkDurumHata, Adimda
  <2>2. vt'.nesne = vt.nesne /\ vt'.sira = vt.sira /\ vt'.gecmis = vt.gecmis
    BY <1>0, <1>24 DEF IlkDurumHata, IlkDusman, Veritabani
  <2>3. "yedek" \in sebep => "yedek" \in sebep'
    BY <1>5, <1>24 DEF IlkDurumHata
  <2>4. QED
    BY <1>2, <1>3, <2>1, <2>2, <2>3, KimlikKur
<1>25. ASSUME NEW k \in Konu, OffsetKaydet(k) PROVE KimlikInv'
  BY <1>25 DEF OffsetKaydet, KimlikInv, KimlikDogru
<1>26. CASE UNCHANGED vars
  BY <1>26 DEF vars, KimlikInv, KimlikDogru
<1>27. CASE VeriReddi
  BY <1>1, <1>27, KimlikKur DEF VeriReddi
<1>28. ASSUME NEW d \in Iz \X No, IlkDurumReddi(d) PROVE KimlikInv'
  <2>1. parti # Yok /\ d \in parti.donen /\ Onbellekle(d) /\ parti' = Yok
    BY <1>28 DEF IlkDurumReddi, Adimda
  <2>2. vt'.nesne = vt.nesne /\ vt'.sira = vt.sira /\ vt'.gecmis = vt.gecmis
    BY <1>0, <1>28 DEF IlkDurumReddi, IlkDusman, Veritabani
  <2>3. "yedek" \in sebep => "yedek" \in sebep'
    BY <1>5, <1>28 DEF IlkDurumReddi
  <2>4. QED
    BY <1>2, <2>1, <2>2, <2>3, KimlikKur
<1>29. QED
  BY <1>7, <1>8, <1>9, <1>10, <1>11, <1>12, <1>13, <1>14, <1>15, <1>16, <1>17, <1>18, <1>19,
     <1>20, <1>21, <1>22, <1>23, <1>24, <1>25, <1>26, <1>27, <1>28 DEF Next, Tuket

LEMMA KimlikHep == Spec => [](TipInv /\ KimlikInv)
<1>1. Init => TipInv /\ KimlikInv
  BY TipInit, KimlikInit
<1>2. TipInv /\ KimlikInv /\ [Next]_vars => (TipInv /\ KimlikInv)'
  BY TipAdim, KimlikAdim
<1>3. QED
  BY <1>1, <1>2, PTL DEF Spec

\* Unless the database came back from a backup there is one row per track, the
\* cache holds only rows of the database, and every observation is under its
\* own track, whatever fails and is tried again.
THEOREM OneRowPerTrack == Spec => []KimlikDogru
<1>1. KimlikInv => KimlikDogru
  BY DEF KimlikInv, KimlikDogru
<1>2. QED
  BY <1>1, KimlikHep, PTL

-----------------------------------------------------------------------------
(***************************************************************************)
(* 5. The summary of a track is in its history.                            *)
(***************************************************************************)
\* Once the history is written, every place the batch is ready to write has
\* its row there, unless its track has gone since.
OzetInv ==
    /\ OzetGecmiste
    /\ parti # Yok /\ parti.adim \in {"konum", "dusman", "ozet"} =>
          \A p \in Hazir : \/ vt.nesne[bellek.iz[Gozlenen(p).iz]] = Yok
                           \/ \E r \in vt.gecmis : Cakisir(r, Satir(p))

\* The insert of the history leaves a row with the key of every ready place.
LEMMA GecmisTam ==
    ASSUME TipInv, GecmisYaz, NEW p \in Hazir
    PROVE  \E r \in vt'.gecmis : Cakisir(r, Satir(p))
<1>1. parti # Yok /\ parti.adim = "gecmis" /\ vt \in Veritabani
  BY DEF GecmisYaz, Adimda, TipInv, TypeOK
<1> DEFINE yeni == {q \in Hazir :
              /\ \A s \in Hazir : Once(s, q) => ~Cakisir(Satir(s), Satir(q))
              /\ \A r \in vt.gecmis : ~Cakisir(r, Satir(q))}
           S == {q \in Hazir : Cakisir(Satir(q), Satir(p))}
<1>2. vt' = [vt EXCEPT !.gecmis = @ \cup {Satir(q) : q \in yeni}]
  BY DEF GecmisYaz
<1>3. vt'.gecmis = vt.gecmis \cup {Satir(q) : q \in yeni}
  BY <1>1, <1>2 DEF Veritabani
<1>4. S \subseteq Nat \X Nat /\ S # {}
  <2>1. p \in S
    BY DEF Cakisir
  <2>2. QED
    BY <1>1, <2>1, Gozlemde
<1>5. PICK q \in S : \A s \in S : ~Once(s, q)
  <2> HIDE DEF S, yeni
  <2> QED BY <1>4, IlkYer
<1>6. q \in Hazir /\ Cakisir(Satir(q), Satir(p))
  OBVIOUS
<1>7. CASE \E r \in vt.gecmis : Cakisir(r, Satir(q))
  BY <1>3, <1>6, <1>7 DEF Cakisir
<1>8. CASE \A r \in vt.gecmis : ~Cakisir(r, Satir(q))
  <2>1. ASSUME NEW s \in Hazir, Once(s, q), Cakisir(Satir(s), Satir(q)) PROVE FALSE
    <3>1. Cakisir(Satir(s), Satir(p))
      BY <1>6, <2>1 DEF Cakisir
    <3>2. QED
      BY <1>5, <2>1, <3>1
  <2>2. q \in yeni
    BY <1>6, <1>8, <2>1
  <2>3. QED
    BY <1>3, <1>6, <2>2
<1>9. QED
  BY <1>7, <1>8

\* Summaries untouched, history only longer, and no batch past its history.
LEMMA OzetKur ==
    ASSUME OzetInv, vt'.ozet = vt.ozet, vt.gecmis \subseteq vt'.gecmis,
           parti' # Yok => parti'.adim \notin {"konum", "dusman", "ozet"}
    PROVE  OzetInv'
<1>1. OzetGecmiste'
  BY DEF OzetInv, OzetGecmiste
<1>2. QED
  BY <1>1 DEF OzetInv

LEMMA OzetInit == Init => OzetInv
BY DEF Init, OzetInv, OzetGecmiste, BosVt, BosTablo

LEMMA OzetAdim == TipInv /\ OzetInv /\ [Next]_vars => OzetInv'
<1> SUFFICES ASSUME TipInv, OzetInv, [Next]_vars PROVE OzetInv'
  OBVIOUS
<1>0. vt \in Veritabani /\ parti \in Parti \cup {Yok}
  BY DEF TipInv, TypeOK
<1>1. DusVeyaDene /\ parti # Yok /\ parti' # Yok => parti'.adim = "yarat"
  BY <1>0 DEF DusVeyaDene, YenidenDene, Parti
<1>2. Ilerle /\ parti # Yok => parti'.adim = Sonraki(parti.adim) /\ parti'.gecerli = parti.gecerli
                               /\ parti'.konu = parti.konu
  BY <1>0 DEF Ilerle, Parti
<1>3. ASSUME NEW k \in Konu, NEW n \in 1 .. Len(Kayit[k]), Al(k, n) PROVE OzetInv'
  <2>1. parti'.adim \in {"rapor", "yarat"} /\ vt' = vt
    BY <1>3 DEF Al
  <2>2. QED
    BY <2>1, OzetKur
<1>4. CASE NesneYarat
  <2>1. PICK sira \in vt.sira .. MaxId + 1 : \E no \in Numaralar(sira) :
           /\ NesneEkle(sira, no)
           /\ LET donen == {<<i, no[i]>> : i \in Bilinmeyen \ Catisan}
              IN parti' = [parti EXCEPT !.donen = donen,
                                        !.adim = IF donen = {} THEN Sonraki(@) ELSE "ilk"]
    BY <1>4 DEF NesneYarat
  <2>2. PICK no \in Numaralar(sira) :
           /\ NesneEkle(sira, no)
           /\ LET donen == {<<i, no[i]>> : i \in Bilinmeyen \ Catisan}
              IN parti' = [parti EXCEPT !.donen = donen,
                                        !.adim = IF donen = {} THEN Sonraki(@) ELSE "ilk"]
    BY <2>1
  <2>3. Adimda("yarat") /\ parti \in Parti /\ parti.adim = "yarat"
    BY <1>0, <1>4 DEF NesneYarat, Adimda
  <2>4. parti'.adim \in {"gecmis", "ilk"}
    BY <2>2, <2>3 DEF Parti, Sonraki
  <2>5. vt'.ozet = vt.ozet /\ vt'.gecmis = vt.gecmis
    BY <2>2, <2>3, Eklenen
  <2>6. QED
    BY <2>4, <2>5, OzetKur
<1>5. CASE NesneGerekmez
  <2>1. parti # Yok /\ parti.adim = "yarat" /\ Ilerle /\ vt' = vt
    BY <1>5 DEF NesneGerekmez, Adimda
  <2>2. parti'.adim = "gecmis"
    BY <1>2, <2>1 DEF Sonraki
  <2>3. QED
    BY <2>1, <2>2, OzetKur
<1>6. CASE HazirYok
  <2>1. parti'.adim = "karantina" /\ vt' = vt
    BY <1>0, <1>6 DEF HazirYok, Adimda, Parti
  <2>2. QED
    BY <2>1, OzetKur
<1>7. CASE GecmisYaz
  <2>1. /\ parti # Yok /\ parti.adim = "gecmis" /\ bellek' = bellek
        /\ parti'.adim = "konum" /\ parti'.gecerli = parti.gecerli /\ parti'.konu = parti.konu
    BY <1>2, <1>7 DEF GecmisYaz, Adimda, Sonraki
  <2>2. \A p \in Hazir : \E r \in vt'.gecmis : Cakisir(r, Satir(p))
    BY <1>7, GecmisTam
  <2>3. Hazir' = Hazir /\ \A p : Satir(p)' = Satir(p)
    BY <2>1 DEF Hazir, Satir, Gozlenen, Ogesi
  <2>4. PICK x : vt' = [vt EXCEPT !.gecmis = @ \cup x]
    BY <1>7 DEF GecmisYaz
  <2>5. vt'.ozet = vt.ozet /\ vt.gecmis \subseteq vt'.gecmis
    BY <1>0, <2>4 DEF Veritabani
  <2>6. OzetGecmiste'
    BY <2>5 DEF OzetInv, OzetGecmiste
  <2>7. QED
    BY <2>2, <2>3, <2>6 DEF OzetInv
<1>8. CASE SonDurumYaz
  <2>1. /\ parti # Yok /\ parti.adim \in {"konum", "dusman", "ozet"} /\ Ilerle
        /\ bellek' = bellek /\ IzlerVar
    BY <1>8 DEF SonDurumYaz, Adimda
  <2>2. \A p \in Hazir : \E r \in vt.gecmis : Cakisir(r, Satir(p))
    BY <2>1 DEF OzetInv, IzlerVar
  <2>3. parti'.gecerli = parti.gecerli /\ parti'.konu = parti.konu
    BY <1>2, <2>1
  <2>4. Hazir' = Hazir /\ \A p : Satir(p)' = Satir(p)
    BY <2>1, <2>3 DEF Hazir, Satir, Gozlenen, Ogesi
  <2>5. \/ vt' = [vt EXCEPT !.konum = Yazilmis(vt.konum)]
        \/ vt' = [vt EXCEPT !.dusman = Yazilmis(vt.dusman)]
        \/ vt' = [vt EXCEPT !.ozet = Yazilmis(vt.ozet)]
    BY <1>8 DEF SonDurumYaz
  <2>6. vt'.gecmis = vt.gecmis /\ (vt'.ozet = vt.ozet \/ vt'.ozet = Yazilmis(vt.ozet))
    BY <1>0, <2>5 DEF Veritabani
  <2>7. ASSUME NEW n \in No, vt'.ozet[n] # Yok
        PROVE  \E r \in vt.gecmis : Cakisir(r, [no |-> n, g |-> vt'.ozet[n]])
    <3>1. CASE vt'.ozet[n] = vt.ozet[n]
      BY <2>7, <3>1 DEF OzetInv, OzetGecmiste
    <3>2. CASE \E o \in Sonuncular : vt'.ozet[n] = o /\ bellek.iz[o.iz] = n
      <4>1. PICK o \in Sonuncular : vt'.ozet[n] = o /\ bellek.iz[o.iz] = n
        BY <3>2
      <4>2. PICK p \in Hazir : o = Gozlenen(p)
        BY <4>1 DEF Sonuncular
      <4>3. Satir(p) = [no |-> n, g |-> o]
        BY <4>1, <4>2 DEF Satir
      <4>4. QED
        BY <2>2, <4>1, <4>2, <4>3
    <3>3. QED
      BY <2>1, <2>6, <3>1, <3>2, SonuncularTip
  <2>8. OzetGecmiste'
    BY <2>6, <2>7 DEF OzetGecmiste
  <2>9. QED
    BY <2>2, <2>4, <2>6, <2>8 DEF OzetInv
<1>9. CASE IkiKezDokunur
  BY <1>9, OzetKur DEF IkiKezDokunur
<1>10. CASE RaporYaz
  <2>1. parti # Yok /\ parti.adim = "rapor" /\ Ilerle
    BY <1>10 DEF RaporYaz, Adimda
  <2>2. parti'.adim = "karantina"
    BY <1>2, <2>1 DEF Sonraki
  <2>3. vt'.ozet = vt.ozet /\ vt'.gecmis = vt.gecmis
    BY <1>0, <1>10 DEF RaporYaz, Veritabani
  <2>4. QED
    BY <2>2, <2>3, OzetKur
<1>11. CASE KarantinaYaz
  <2>1. vt'.ozet = vt.ozet /\ vt'.gecmis = vt.gecmis /\ parti' = Yok
    BY <1>0, <1>11 DEF KarantinaYaz, Veritabani
  <2>2. QED
    BY <2>1, OzetKur
<1>12. CASE YabanciAnahtar
  <2>1. parti # Yok /\ vt' = vt
    BY <1>12 DEF YabanciAnahtar, AnahtarTutmaz, Adimda, Yazimda
  <2>2. parti' # Yok => parti'.adim = "tazele"
    BY <1>0, <1>12, <2>1 DEF YabanciAnahtar, Parti
  <2>3. QED
    BY <2>1, <2>2, OzetKur
<1>13. CASE Tazele
  <2>1. parti \in Parti /\ vt' = vt
    BY <1>0, <1>13 DEF Tazele, Adimda
  <2>2. PICK g : parti' = [parti EXCEPT !.gecerli = g, !.adim = "yarat", !.donen = {},
                                        !.tekrar = TRUE]
    BY <1>13 DEF Tazele
  <2>3. parti'.adim = "yarat"
    BY <2>1, <2>2 DEF Parti
  <2>4. QED
    BY <2>1, <2>3, OzetKur
<1>14. ASSUME NEW d \in Iz \X No, IlkDurum(d) PROVE OzetInv'
  <2>1. parti # Yok /\ parti.adim = "ilk"
    BY <1>14 DEF IlkDurum, Adimda
  <2>2. vt'.ozet = vt.ozet /\ vt'.gecmis = vt.gecmis
    BY <1>0, <1>14 DEF IlkDurum, Veritabani
  <2>3. parti'.adim \in {"gecmis", "ilk"}
    BY <1>0, <1>14, <2>1 DEF IlkDurum, Parti, Sonraki
  <2>4. QED
    BY <2>2, <2>3, OzetKur
<1>15. CASE SorguHata
  BY <1>1, <1>15, OzetKur DEF SorguHata
<1>16. CASE YaratYanitsiz
  <2>1. PICK sira \in vt.sira .. MaxId + 1 : \E no \in Numaralar(sira) : NesneEkle(sira, no)
    BY <1>16 DEF YaratYanitsiz
  <2>2. PICK no \in Numaralar(sira) : NesneEkle(sira, no)
    BY <2>1
  <2>3. vt'.ozet = vt.ozet /\ vt'.gecmis = vt.gecmis /\ parti' = Yok
    BY <1>16, <2>2, Eklenen DEF YaratYanitsiz
  <2>4. QED
    BY <2>3, OzetKur
<1>17. CASE TazeleHata
  BY <1>17, OzetKur DEF TazeleHata
<1>18. CASE Cok
  BY <1>18, OzetKur DEF Cok
<1>19. CASE YedektenDon
  <2>1. vt' = BosVt(EskiSensor) /\ bellek' = bellek /\ parti' = parti
    BY <1>19 DEF YedektenDon
  <2>2. \A n \in No : vt'.ozet[n] = Yok /\ vt'.nesne[n] = Yok
    BY <2>1 DEF BosVt, BosTablo
  <2>3. parti # Yok /\ parti.adim \in {"konum", "dusman", "ozet"} =>
            \A p \in Hazir : bellek.iz[Gozlenen(p).iz] \in No
    BY Gozlemde
  <2>4. Hazir' = Hazir /\ \A p : Gozlenen(p)' = Gozlenen(p)
    BY <2>1 DEF Hazir, Gozlenen, Ogesi
  <2>5. QED
    BY <2>1, <2>2, <2>3, <2>4 DEF OzetInv, OzetGecmiste
<1>20. ASSUME NEW d \in Iz \X No, IlkDurumHata(d) PROVE OzetInv'
  <2>1. parti # Yok /\ DusVeyaDene
    BY <1>20 DEF IlkDurumHata, Adimda
  <2>2. vt'.ozet = vt.ozet /\ vt'.gecmis = vt.gecmis
    BY <1>0, <1>20 DEF IlkDurumHata, IlkDusman, Veritabani
  <2>3. QED
    BY <1>1, <2>1, <2>2, OzetKur
<1>21. ASSUME NEW k \in Konu, OffsetKaydet(k) PROVE OzetInv'
  BY <1>21 DEF OffsetKaydet, OzetInv, OzetGecmiste, Hazir, Satir, Gozlenen, Ogesi
<1>22. CASE UNCHANGED vars
  BY <1>22 DEF vars, OzetInv, OzetGecmiste, Hazir, Satir, Gozlenen, Ogesi
<1>23. CASE VeriReddi
  BY <1>23, OzetKur DEF VeriReddi
<1>24. ASSUME NEW d \in Iz \X No, IlkDurumReddi(d) PROVE OzetInv'
  <2>1. vt'.ozet = vt.ozet /\ vt'.gecmis = vt.gecmis /\ parti' = Yok
    BY <1>0, <1>24 DEF IlkDurumReddi, IlkDusman, Veritabani
  <2>2. QED
    BY <2>1, OzetKur
<1>25. QED
  BY <1>3, <1>4, <1>5, <1>6, <1>7, <1>8, <1>9, <1>10, <1>11, <1>12, <1>13, <1>14, <1>15, <1>16,
     <1>17, <1>18, <1>19, <1>20, <1>21, <1>22, <1>23, <1>24 DEF Next, Tuket

\* The summary of a track, which the views read instead of the history, has its
\* observation in the history, whichever query fails, whatever is delivered
\* again, and also after the database came back from a backup.
THEOREM SummaryInHistory == Spec => []OzetGecmiste
<1>1. Init => TipInv /\ OzetInv
  BY TipInit, OzetInit
<1>2. TipInv /\ OzetInv /\ [Next]_vars => (TipInv /\ OzetInv)'
  BY TipAdim, OzetAdim
<1>3. OzetInv => OzetGecmiste
  BY DEF OzetInv
<1>4. QED
  BY <1>1, <1>2, <1>3, PTL DEF Spec

\* The tables agree: ids, caches and rows unless the database was restored, and the
\* summary with the history whatever happens.
THEOREM TablesAgree == Spec => []TablolarTutarli
BY OneRowPerTrack, SummaryInHistory, PTL DEF TablolarTutarli

-----------------------------------------------------------------------------
(***************************************************************************)
(* 6. Items that hold a report and do not name another object are lost     *)
(*    only after one of the four causes.                                   *)
(***************************************************************************)
\* A track the insert returned, whose turn in the loop is still to come.
Bekler(i, n) == parti # Yok /\ parti.adim = "ilk" /\ <<i, n>> \in parti.donen

\* Every track of the database is in the cache or about to be put there.
IzlerBellekte ==
    \A n \in No : vt.nesne[n] # Yok => bellek.iz[vt.nesne[n]] # 0 \/ Bekler(vt.nesne[n], n)

\* Every item of the batch passed, waits for quarantine or is no report.
Elde ==
    parti # Yok =>
        \A p \in Yerler(parti.konu, islenen[parti.konu], parti.son) :
            p \in parti.gecerli \/ Gozlenen(p) \in parti.karantina \cup Raporsuz

\* After the insert of the tracks everything that passed is ready to write, but
\* for the codes that name other objects.
HazirTam ==
    parti # Yok /\ parti.adim \in {"ilk", "gecmis", "konum", "dusman", "ozet"} =>
        \A p \in parti.gecerli : \/ bellek.iz[Gozlenen(p).iz] # 0
                                 \/ \E n \in No : Bekler(Gozlenen(p).iz, n)
                                 \/ Gozlenen(p).iz \in BaskaAd

\* After the history, or the reports, everything that passed is written.
YazildiTam ==
    parti # Yok /\ parti.adim \in {"konum", "dusman", "ozet", "karantina"} =>
        \A p \in parti.gecerli : Yazili(Gozlenen(p)) \/ Dusen(Gozlenen(p))

KayipInv ==
    sebep = {} => HerOgeHesapli /\ IzlerBellekte /\ Elde /\ HazirTam /\ YazildiTam

\* What is written stays written as long as the tables only grow.
LEMMA YaziliKalir ==
    ASSUME vt.gecmis \subseteq vt'.gecmis, vt.rapor \subseteq vt'.rapor,
           vt.karantina \subseteq vt'.karantina
    PROVE  /\ \A o : Yazili(o) => Yazili(o)'
           /\ HerOgeHesapli /\ islenen' = islenen => HerOgeHesapli'
BY DEF Yazili, Dusen, HerOgeHesapli, Ogesi, Yerler

LEMMA KayipInit == Init => KayipInv
<1> SUFFICES ASSUME Init PROVE KayipInv
  OBVIOUS
<1>1. \A k \in Konu : Yerler(k, 0, islenen[k]) = {}
  BY DEF Init, Yerler
<1>2. \A n \in No : vt.nesne[n] = Yok
  BY DEF Init, BosVt, BosTablo
<1>3. parti = Yok
  BY DEF Init
<1>4. HerOgeHesapli
  BY <1>1 DEF HerOgeHesapli
<1>5. QED
  BY <1>2, <1>3, <1>4 DEF KayipInv, IzlerBellekte, Elde, HazirTam, YazildiTam

\* A batch is dropped, with every track of the database in the cache.
LEMMA KayipDus ==
    ASSUME KayipInv, sebep' = {} => sebep = {}, parti' = Yok,
           vt.gecmis \subseteq vt'.gecmis, vt.rapor \subseteq vt'.rapor,
           vt.karantina \subseteq vt'.karantina, islenen' = islenen,
           sebep' = {} => \A n \in No : vt'.nesne[n] # Yok => bellek'.iz[vt'.nesne[n]] # 0
    PROVE  KayipInv'
<1> SUFFICES ASSUME sebep' = {} PROVE KayipInv'
  BY DEF KayipInv
<1>1. HerOgeHesapli'
  BY YaziliKalir DEF KayipInv
<1>2. IzlerBellekte'
  BY DEF IzlerBellekte
<1>3. Elde' /\ HazirTam' /\ YazildiTam'
  BY DEF Elde, HazirTam, YazildiTam
<1>4. QED
  BY <1>1, <1>2, <1>3 DEF KayipInv

\* A batch goes on to another query.
LEMMA KayipSurer ==
    ASSUME KayipInv, sebep' = {} => sebep = {}, parti # Yok,
           vt.gecmis \subseteq vt'.gecmis, vt.rapor \subseteq vt'.rapor,
           vt.karantina \subseteq vt'.karantina, islenen' = islenen,
           sebep' = {} => /\ parti'.konu = parti.konu /\ parti'.son = parti.son
                          /\ parti'.gecerli = parti.gecerli
                          /\ parti'.karantina = parti.karantina,
           sebep' = {} => IzlerBellekte' /\ HazirTam' /\ YazildiTam'
    PROVE  KayipInv'
<1> SUFFICES ASSUME sebep' = {} PROVE KayipInv'
  BY DEF KayipInv
<1>1. HerOgeHesapli'
  BY YaziliKalir DEF KayipInv
<1>2. Elde
  BY DEF KayipInv
<1>3. Elde'
  BY <1>2 DEF Elde, Gozlenen, Ogesi, Yerler
<1>4. QED
  BY <1>1, <1>3 DEF KayipInv

\* Caches read from the database hold all its tracks.
LEMMA IsinmisTam ==
    ASSUME TipInv, NEW n \in No, vt.nesne[n] # Yok
    PROVE  Isinmis(vt).iz[vt.nesne[n]] # 0
<1>1. vt.nesne[n] \in Iz
  BY DEF TipInv, TypeOK, Veritabani
<1>2. PICK i \in Iz : i = vt.nesne[n]
  BY <1>1
<1>3. (CHOOSE m \in No : vt.nesne[m] = i) \in No /\ 0 \notin No
  BY <1>2 DEF No
<1>4. QED
  BY <1>2, <1>3 DEF Isinmis

\* The only created track of a batch reaches the cache: all of the database is there.
LEMMA DusenSonra ==
    ASSUME TipInv, KayipInv, sebep = {}, parti # Yok, parti.adim = "ilk",
           NEW d \in Iz \X No, parti.donen = {d}, Onbellekle(d),
           NEW n \in No, vt.nesne[n] # Yok
    PROVE  bellek'.iz[vt.nesne[n]] # 0
<1>1. vt \in Veritabani /\ bellek.iz \in [Iz -> 0 .. MaxId]
  BY DEF TipInv, TypeOK
<1>2. PICK i \in Iz : i = vt.nesne[n]
  BY <1>1 DEF Veritabani
<1>3. \A j \in Iz : bellek'.iz[j] = IF j = d[1] THEN d[2] ELSE bellek.iz[j]
  BY <1>1 DEF Onbellekle, TipInv, TypeOK
<1>4. bellek.iz[i] # 0 \/ <<i, n>> = d
  BY <1>2 DEF KayipInv, IzlerBellekte, Bekler
<1>5. d[2] # 0
  BY DEF No
<1>6. QED
  BY <1>2, <1>3, <1>4, <1>5

LEMMA KayipTuket ==
    ASSUME TipInv, KimlikInv, KimlikInv', KayipInv, Tuket
    PROVE  KayipInv'
<1>0. vt \in Veritabani /\ bellek.iz \in [Iz -> 0 .. MaxId] /\ parti \in Parti \cup {Yok}
  BY DEF TipInv, TypeOK
<1>1. Ilerle /\ parti # Yok =>
          /\ parti'.adim = Sonraki(parti.adim) /\ parti'.gecerli = parti.gecerli
          /\ parti'.konu = parti.konu /\ parti'.son = parti.son
          /\ parti'.karantina = parti.karantina
  BY <1>0 DEF Ilerle, Parti
<1>2. ASSUME sebep = {}, parti # Yok => parti.adim # "ilk"
      PROVE  \A n \in No : vt.nesne[n] # Yok => bellek.iz[vt.nesne[n]] # 0
  BY <1>2 DEF KayipInv, IzlerBellekte, Bekler
<1>3. ASSUME sebep = {}, parti # Yok, parti.adim \in {"gecmis", "konum", "dusman", "ozet"}
      PROVE  \A p \in parti.gecerli : bellek.iz[Gozlenen(p).iz] # 0 \/ Gozlenen(p).iz \in BaskaAd
  BY <1>3 DEF KayipInv, HazirTam, Bekler
\* An observation that passed and whose code names another object is one that drops.
<1>17. ASSUME parti # Yok, parti.adim \notin {"rapor", "karantina"},
              NEW p \in parti.gecerli, Gozlenen(p).iz \in BaskaAd
       PROVE  Dusen(Gozlenen(p))
  BY <1>17, Gozlemde DEF Dusen
<1>4. ASSUME NEW k \in Konu, NEW n \in 1 .. Len(Kayit[k]), Al(k, n) PROVE KayipInv'
  <2> SUFFICES ASSUME sebep' = {} PROVE KayipInv'
    BY DEF KayipInv
  <2>1. /\ sebep = {} /\ parti = Yok /\ vt' = vt /\ islenen' = islenen /\ bellek' = bellek
    BY <1>4 DEF Al
  <2> DEFINE Y == Yerler(k, islenen[k], n)
             g == {p \in Y : Gecer(Ogesi(k, p))}
             q == {o \in {Ogesi(k, p) : p \in Y} : ~Gecer(o)} \ Raporsuz
  <2>2. parti' = [konu |-> k, son |-> n, gecerli |-> g, karantina |-> q,
                  adim |-> IF k \in IstKonu THEN "rapor" ELSE "yarat",
                  donen |-> {}, tekrar |-> FALSE]
    BY <1>4 DEF Al
  <2>3. \A p \in Y : p \in g \/ Ogesi(k, p) \in q \cup Raporsuz
    OBVIOUS
  <2> HIDE DEF g, q
  <2>4. /\ parti'.konu = k /\ parti'.son = n /\ parti'.gecerli = g /\ parti'.karantina = q
        /\ parti'.adim \in {"rapor", "yarat"}
    BY <2>2
  <2>5. Elde'
    BY <2>1, <2>3, <2>4 DEF Elde, Gozlenen, Ogesi, Yerler
  <2>6. HerOgeHesapli'
    BY <2>1, YaziliKalir DEF KayipInv
  <2>7. IzlerBellekte'
    BY <1>2, <2>1 DEF IzlerBellekte
  <2>8. HazirTam' /\ YazildiTam'
    BY <2>4 DEF HazirTam, YazildiTam
  <2>9. QED
    BY <2>5, <2>6, <2>7, <2>8 DEF KayipInv
<1>5. CASE NesneYarat
  <2>1. PICK sira \in vt.sira .. MaxId + 1 : \E no \in Numaralar(sira) :
           /\ NesneEkle(sira, no)
           /\ LET donen == {<<i, no[i]>> : i \in Bilinmeyen \ Catisan}
              IN parti' = [parti EXCEPT !.donen = donen,
                                        !.adim = IF donen = {} THEN Sonraki(@) ELSE "ilk"]
    BY <1>5 DEF NesneYarat
  <2>2. PICK no \in Numaralar(sira) :
           /\ NesneEkle(sira, no)
           /\ LET donen == {<<i, no[i]>> : i \in Bilinmeyen \ Catisan}
              IN parti' = [parti EXCEPT !.donen = donen,
                                        !.adim = IF donen = {} THEN Sonraki(@) ELSE "ilk"]
    BY <2>1
  <2>3. /\ Adimda("yarat") /\ Bilinmeyen # {} /\ NesneEkle(sira, no)
        /\ islenen' = islenen /\ bellek' = bellek /\ sebep' = sebep
    BY <1>5, <2>2 DEF NesneYarat
  <2>4. parti # Yok /\ parti.adim = "yarat" /\ parti \in Parti
    BY <1>0, <2>3 DEF Adimda
  <2>5. /\ vt'.gecmis = vt.gecmis /\ vt'.rapor = vt.rapor /\ vt'.karantina = vt.karantina
        /\ Bilinmeyen \subseteq Iz
        /\ \A i \in Bilinmeyen : no[i] \in No
        /\ \A m \in No : \/ vt'.nesne[m] = vt.nesne[m]
                         \/ \E i \in Bilinmeyen \ Catisan : no[i] = m /\ vt'.nesne[m] = i
    BY <2>3, Eklenen
  <2>6. ASSUME sebep = {} PROVE Bilinmeyen \cap Catisan \subseteq BaskaAd
    BY <1>2, <2>4, <2>6, YokVarsayim DEF Bilinmeyen, Catisan
  <2>7. /\ parti'.konu = parti.konu /\ parti'.son = parti.son /\ parti'.gecerli = parti.gecerli
        /\ parti'.karantina = parti.karantina
        /\ parti'.donen = {<<i, no[i]>> : i \in Bilinmeyen \ Catisan}
    BY <2>2, <2>4 DEF Parti
  <2>8. /\ parti' # Yok /\ parti'.adim \in {"ilk", "gecmis"}
        /\ parti'.donen # {} => parti'.adim = "ilk"
    <3> DEFINE d == {<<i, no[i]>> : i \in Bilinmeyen \ Catisan}
               a == IF d = {} THEN "gecmis" ELSE "ilk"
    <3>1. d \in SUBSET (Iz \X No)
      BY <2>5
    <3>2. parti' = [parti EXCEPT !.donen = d, !.adim = a]
      BY <2>2, <2>4 DEF Sonraki
    <3>3. a \in Adim /\ a \in {"ilk", "gecmis"} /\ (d # {} => a = "ilk")
      BY DEF Adim
    <3> HIDE DEF d, a
    <3>4. parti' \in Parti /\ parti'.adim = a /\ parti'.donen = d
      BY <2>4, <3>1, <3>2, <3>3 DEF Parti
    <3>5. QED
      BY <3>3, <3>4, PartiVarsayim
  <2>9. ASSUME sebep' = {} PROVE IzlerBellekte'
    <3> SUFFICES ASSUME NEW n \in No, vt'.nesne[n] # Yok
                 PROVE  bellek.iz[vt'.nesne[n]] # 0 \/ Bekler(vt.nesne[n], n)'
      BY <2>3 DEF IzlerBellekte
    <3>1. CASE vt'.nesne[n] = vt.nesne[n]
      BY <1>2, <2>3, <2>4, <2>9, <3>1
    <3>2. CASE \E i \in Bilinmeyen \ Catisan : no[i] = n /\ vt'.nesne[n] = i
      <4>1. <<vt'.nesne[n], n>> \in parti'.donen
        BY <2>7, <3>2
      <4>2. QED
        BY <2>8, <4>1 DEF Bekler
    <3>3. QED
      BY <2>5, <3>1, <3>2
  <2>10. ASSUME sebep' = {} PROVE HazirTam' /\ YazildiTam'
    <3>1. ASSUME NEW p \in parti.gecerli
          PROVE  \/ bellek.iz[Gozlenen(p).iz] # 0
                 \/ \E n \in No : Bekler(Gozlenen(p).iz, n)'
                 \/ Gozlenen(p).iz \in BaskaAd
      <4>1. CASE Gozlenen(p).iz \in Bilinmeyen \ Catisan
        <5>1. PICK i \in Bilinmeyen \ Catisan : i = Gozlenen(p).iz
          BY <4>1
        <5>2. Gozlenen(p)' = Gozlenen(p)
          BY <2>7 DEF Gozlenen, Ogesi
        <5>3. <<i, no[i]>> \in parti'.donen /\ no[i] \in No
          BY <2>5, <2>7, <5>1
        <5>4. QED
          BY <2>8, <5>1, <5>2, <5>3 DEF Bekler
      <4>4. CASE Gozlenen(p).iz \in Bilinmeyen \cap Catisan
        BY <2>3, <2>6, <2>10, <4>4
      <4>2. CASE Gozlenen(p).iz \notin Bilinmeyen
        BY <4>2 DEF Bilinmeyen
      <4>3. QED
        BY <4>1, <4>2, <4>4
    <3>2. \A p : Gozlenen(p)' = Gozlenen(p)
      BY <2>7 DEF Gozlenen, Ogesi
    <3>3. QED
      BY <2>3, <2>7, <2>8, <2>10, <3>1, <3>2 DEF HazirTam, YazildiTam
  <2>11. QED
    BY <2>3, <2>4, <2>5, <2>7, <2>9, <2>10, KayipSurer
<1>6. CASE NesneGerekmez
  <2>1. /\ parti # Yok /\ parti.adim = "yarat" /\ Bilinmeyen = {} /\ Ilerle
        /\ vt' = vt /\ islenen' = islenen /\ bellek' = bellek /\ sebep' = sebep
    BY <1>6 DEF NesneGerekmez, Adimda
  <2>2. parti'.adim = "gecmis"
    BY <1>1, <2>1 DEF Sonraki
  <2>3. \A p \in parti.gecerli : bellek.iz[Gozlenen(p).iz] # 0
    BY <2>1 DEF Bilinmeyen
  <2>4. \A p : Gozlenen(p)' = Gozlenen(p)
    BY <1>1, <2>1 DEF Gozlenen, Ogesi
  <2>5. HazirTam' /\ YazildiTam'
    BY <1>1, <2>1, <2>2, <2>3, <2>4 DEF HazirTam, YazildiTam
  <2>6. sebep' = {} => IzlerBellekte'
    BY <1>2, <2>1 DEF IzlerBellekte
  <2>7. QED
    BY <1>1, <2>1, <2>5, <2>6, KayipSurer
<1>7. CASE HazirYok
  <2>1. /\ parti # Yok /\ parti.adim = "gecmis" /\ Hazir = {} /\ parti \in Parti
        /\ parti' = [parti EXCEPT !.adim = "karantina"]
        /\ vt' = vt /\ islenen' = islenen /\ bellek' = bellek /\ sebep' = sebep
    BY <1>0, <1>7 DEF HazirYok, Adimda
  <2>2. /\ parti'.konu = parti.konu /\ parti'.son = parti.son /\ parti'.gecerli = parti.gecerli
        /\ parti'.karantina = parti.karantina /\ parti'.adim = "karantina"
    BY <2>1 DEF Parti
  <2>3. sebep' = {} => \A p \in parti.gecerli : Dusen(Gozlenen(p))
    BY <1>3, <1>17, <2>1 DEF Hazir
  <2>8. \A p : Gozlenen(p)' = Gozlenen(p)
    BY <2>2 DEF Gozlenen, Ogesi
  <2>4. sebep' = {} => HazirTam' /\ YazildiTam'
    BY <2>2, <2>3, <2>8 DEF HazirTam, YazildiTam, Dusen
  <2>5. sebep' = {} => IzlerBellekte'
    BY <1>2, <2>1 DEF IzlerBellekte
  <2> HIDE <1>7
  <2>6. vt.gecmis \subseteq vt'.gecmis /\ vt.rapor \subseteq vt'.rapor
        /\ vt.karantina \subseteq vt'.karantina /\ parti # Yok /\ islenen' = islenen
        /\ sebep' = sebep
    BY <2>1
  <2>7. QED
    BY <2>2, <2>4, <2>5, <2>6, KayipSurer
<1>8. CASE GecmisYaz
  <2>1. /\ parti # Yok /\ parti.adim = "gecmis" /\ Ilerle
        /\ islenen' = islenen /\ bellek' = bellek /\ sebep' = sebep
    BY <1>8 DEF GecmisYaz, Adimda
  <2>2. parti'.adim = "konum"
    BY <1>1, <2>1 DEF Sonraki
  <2>3. PICK x : vt' = [vt EXCEPT !.gecmis = @ \cup x]
    BY <1>8 DEF GecmisYaz
  <2>4. /\ vt.gecmis \subseteq vt'.gecmis /\ vt'.rapor = vt.rapor
        /\ vt'.karantina = vt.karantina /\ vt'.nesne = vt.nesne
    BY <1>0, <2>3 DEF Veritabani
  <2>5. \A p : Gozlenen(p)' = Gozlenen(p)
    BY <1>1, <2>1 DEF Gozlenen, Ogesi
  <2>6. ASSUME sebep' = {}, NEW p \in parti.gecerli, Gozlenen(p).iz \notin BaskaAd
        PROVE  Yazili(Gozlenen(p))'
    <3>1. bellek.iz[Gozlenen(p).iz] # 0 /\ Gozlenen(p) \in Gozlem /\ Gozlenen(p).iz \in Iz
      BY <1>3, <2>1, <2>6, Gozlemde
    <3>2. p \in Hazir
      BY <3>1 DEF Hazir
    <3>3. PICK r \in vt'.gecmis : Cakisir(r, Satir(p))
      BY <1>8, <3>2, GecmisTam
    <3>4. KimlikDogru'
      BY <2>6 DEF KimlikInv
    <3>5. vt'.nesne[r.no] = r.g.iz
      BY <2>6, <3>3, <3>4 DEF KimlikDogru
    <3>6. vt'.nesne[bellek.iz[Gozlenen(p).iz]] = Gozlenen(p).iz
      BY <2>1, <2>6, <3>1, <3>4 DEF KimlikDogru
    <3>7. /\ r.no = bellek.iz[Gozlenen(p).iz] /\ r.g.zaman = Gozlenen(p).zaman
          /\ r.g.sensor = Gozlenen(p).sensor
      BY <3>3 DEF Cakisir, Satir
    <3>8. QED
      BY <2>5, <3>1, <3>3, <3>5, <3>6, <3>7 DEF Yazili
  <2>11. \A p \in parti.gecerli : Gozlenen(p).iz \in BaskaAd => Dusen(Gozlenen(p))'
    BY <1>17, <2>1, <2>5 DEF Dusen
  <2>7. sebep' = {} => YazildiTam'
    BY <1>1, <2>1, <2>6, <2>11 DEF YazildiTam
  <2>8. sebep' = {} => HazirTam'
    BY <1>1, <1>3, <2>1, <2>5 DEF HazirTam
  <2>9. sebep' = {} => IzlerBellekte'
    BY <1>2, <2>1, <2>4 DEF IzlerBellekte
  <2>10. QED
    BY <1>1, <2>1, <2>4, <2>7, <2>8, <2>9, KayipSurer
<1>9. CASE SonDurumYaz
  <2>1. /\ parti # Yok /\ parti.adim \in {"konum", "dusman", "ozet"} /\ Ilerle
        /\ islenen' = islenen /\ bellek' = bellek /\ sebep' = sebep
    BY <1>9 DEF SonDurumYaz, Adimda
  <2>2. \/ vt' = [vt EXCEPT !.konum = Yazilmis(vt.konum)]
        \/ vt' = [vt EXCEPT !.dusman = Yazilmis(vt.dusman)]
        \/ vt' = [vt EXCEPT !.ozet = Yazilmis(vt.ozet)]
    BY <1>9 DEF SonDurumYaz
  <2>3. /\ vt'.gecmis = vt.gecmis /\ vt'.rapor = vt.rapor
        /\ vt'.karantina = vt.karantina /\ vt'.nesne = vt.nesne
    BY <1>0, <2>2 DEF Veritabani
  <2>4. \A p : Gozlenen(p)' = Gozlenen(p)
    BY <1>1, <2>1 DEF Gozlenen, Ogesi
  <2>5. \A o : Yazili(o) => Yazili(o)'
    BY <2>3, YaziliKalir
  <2>6. sebep' = {} => \A p \in parti.gecerli : Yazili(Gozlenen(p)) \/ Dusen(Gozlenen(p))
    BY <2>1 DEF KayipInv, YazildiTam
  <2>7. sebep' = {} => YazildiTam'
    <3>1. \A p \in parti.gecerli : Yazili(Gozlenen(p)) => Yazili(Gozlenen(p))'
      BY <2>3, <2>4 DEF Yazili
    <3>3. \A p \in parti.gecerli : Dusen(Gozlenen(p)) => Dusen(Gozlenen(p))'
      BY <2>4 DEF Dusen
    <3>2. QED
      BY <1>1, <2>1, <2>6, <3>1, <3>3 DEF YazildiTam
  <2>8. sebep' = {} => HazirTam'
    BY <1>1, <1>3, <2>1, <2>4 DEF HazirTam
  <2>9. sebep' = {} => IzlerBellekte'
    BY <1>2, <2>1, <2>3 DEF IzlerBellekte
  <2>10. QED
    BY <1>1, <2>1, <2>3, <2>7, <2>8, <2>9, KayipSurer
<1>10. CASE IkiKezDokunur
  <2>1. /\ parti # Yok /\ parti.adim \in {"konum", "dusman", "ozet"} /\ parti' = Yok
        /\ vt' = vt /\ islenen' = islenen /\ bellek' = bellek /\ sebep' = sebep
    BY <1>10 DEF IkiKezDokunur
  <2>2. sebep' = {} => \A n \in No : vt'.nesne[n] # Yok => bellek'.iz[vt'.nesne[n]] # 0
    BY <1>2, <2>1
  <2>3. QED
    BY <2>1, <2>2, KayipDus
<1>11. CASE RaporYaz
  <2>1. /\ parti # Yok /\ parti.adim = "rapor" /\ Ilerle
        /\ islenen' = islenen /\ bellek' = bellek /\ sebep' = sebep
    BY <1>11 DEF RaporYaz, Adimda
  <2>2. PICK x : /\ vt' = [vt EXCEPT !.rapor = @ \cup x]
                 /\ x = {Gozlenen(p) : p \in parti.gecerli}
    BY <1>11 DEF RaporYaz
  <2>3. /\ vt'.gecmis = vt.gecmis /\ vt'.rapor = vt.rapor \cup x
        /\ vt'.karantina = vt.karantina /\ vt'.nesne = vt.nesne
    BY <1>0, <2>2 DEF Veritabani
  <2>4. \A p : Gozlenen(p)' = Gozlenen(p)
    BY <1>1, <2>1 DEF Gozlenen, Ogesi
  <2>5. parti'.adim = "karantina"
    BY <1>1, <2>1 DEF Sonraki
  <2>6. \A p \in parti.gecerli : Gozlenen(p)' \in vt'.rapor
    BY <2>2, <2>3, <2>4
  <2>7. \A p \in parti.gecerli : Yazili(Gozlenen(p))'
    BY <2>6 DEF Yazili
  <2>8. YazildiTam' /\ HazirTam'
    BY <1>1, <2>1, <2>5, <2>7 DEF YazildiTam, HazirTam
  <2>9. sebep' = {} => IzlerBellekte'
    BY <1>2, <2>1, <2>3 DEF IzlerBellekte
  <2>10. QED
    BY <1>1, <2>1, <2>3, <2>8, <2>9, KayipSurer
<1>12. CASE KarantinaYaz
  <2> SUFFICES ASSUME sebep' = {} PROVE KayipInv'
    BY DEF KayipInv
  <2>1. /\ parti # Yok /\ parti.adim = "karantina" /\ parti' = Yok
        /\ bellek' = bellek /\ sebep = {} /\ parti \in Parti
        /\ islenen' = [islenen EXCEPT ![parti.konu] = parti.son]
        /\ vt' = [vt EXCEPT !.karantina = @ \cup parti.karantina]
    BY <1>0, <1>12 DEF KarantinaYaz, Adimda
  <2>2. /\ vt'.gecmis = vt.gecmis /\ vt'.rapor = vt.rapor
        /\ vt'.karantina = vt.karantina \cup parti.karantina /\ vt'.nesne = vt.nesne
    BY <1>0, <2>1 DEF Veritabani
  <2>3. IzlerBellekte'
    BY <1>2, <2>1, <2>2 DEF IzlerBellekte
  <2>4. Elde' /\ HazirTam' /\ YazildiTam'
    BY <2>1 DEF Elde, HazirTam, YazildiTam
  <2>5. \A o : Yazili(o) => Yazili(o)'
    BY <2>2, YaziliKalir
  <2>6. /\ islenen \in [Konu -> Nat] /\ parti.konu \in Konu /\ parti.son \in Nat
        /\ islenen[parti.konu] < parti.son
    BY <2>1 DEF TipInv, TypeOK, PartiTutarli, Parti
  <2>7. ASSUME NEW k \in Konu, NEW p \in Yerler(k, 0, islenen'[k])
        PROVE  Yazili(Ogesi(k, p))' \/ Dusen(Ogesi(k, p))
    <3>1. CASE k # parti.konu
      <4>1. islenen'[k] = islenen[k]
        BY <2>1, <2>6, <3>1
      <4>2. Yazili(Ogesi(k, p)) \/ Dusen(Ogesi(k, p))
        BY <2>1, <2>7, <4>1 DEF KayipInv, HerOgeHesapli
      <4>3. QED
        BY <2>2, <4>2 DEF Yazili, Ogesi
    <3>2. CASE k = parti.konu
      <4>1. islenen'[k] = parti.son
        BY <2>1, <2>6, <3>2
      <4>2. p \in Yerler(k, 0, islenen[k]) \/ p \in Yerler(k, islenen[k], parti.son)
        BY <2>6, <2>7, <3>2, <4>1, YerBol
      <4>3. CASE p \in Yerler(k, 0, islenen[k])
        <5>1. Yazili(Ogesi(k, p)) \/ Dusen(Ogesi(k, p))
          BY <2>1, <4>3 DEF KayipInv, HerOgeHesapli
        <5>2. QED
          BY <2>2, <5>1 DEF Yazili, Ogesi
      <4>4. CASE p \in Yerler(k, islenen[k], parti.son)
        <5>1. p \in parti.gecerli \/ Ogesi(k, p) \in parti.karantina \cup Raporsuz
          BY <2>1, <3>2, <4>4 DEF KayipInv, Elde, Gozlenen
        <5>2. p \in parti.gecerli => Yazili(Ogesi(k, p)) \/ Dusen(Ogesi(k, p))
          BY <2>1, <3>2 DEF KayipInv, YazildiTam, Gozlenen
        <5>4. CASE Ogesi(k, p) \in Raporsuz
          BY <5>4 DEF Dusen
        <5>5. CASE Ogesi(k, p) \in parti.karantina \/ Yazili(Ogesi(k, p))
          BY <2>2, <5>5 DEF Yazili, Ogesi
        <5>3. QED
          BY <5>1, <5>2, <5>4, <5>5
      <4>5. QED
        BY <4>2, <4>3, <4>4
    <3>3. QED
      BY <3>1, <3>2
  <2>8. HerOgeHesapli'
    BY <2>7 DEF HerOgeHesapli, Dusen, Ogesi, Yerler
  <2>9. QED
    BY <2>3, <2>4, <2>8 DEF KayipInv
<1>13. CASE YabanciAnahtar
  <2>1. /\ parti # Yok /\ parti \in Parti /\ AnahtarTutmaz
        /\ vt' = vt /\ islenen' = islenen /\ sebep' = sebep
    BY <1>0, <1>13 DEF YabanciAnahtar, AnahtarTutmaz, Adimda, Yazimda
  <2>2. ASSUME sebep' = {} PROVE bellek' = bellek /\ parti.adim # "ilk"
    <3>1. ASSUME NEW d \in parti.donen, vt.nesne[d[2]] = Yok PROVE FALSE
      <4>1. d[1] \in Iz
        BY <2>1 DEF Parti
      <4>2. vt.nesne[d[2]] = d[1]
        BY <2>1, <2>2 DEF KimlikInv
      <4>3. QED
        BY <3>1, <4>1, <4>2, YokVarsayim
    <3>2. QED
      BY <2>1, <3>1 DEF AnahtarTutmaz, Adimda
  <2>3. sebep' = {} => \A n \in No : vt.nesne[n] # Yok => bellek'.iz[vt.nesne[n]] # 0
    BY <1>2, <2>1, <2>2
  <2>4. CASE parti.tekrar
    <3>1. parti' = Yok
      BY <1>13, <2>4 DEF YabanciAnahtar
    <3>2. QED
      BY <2>1, <2>3, <3>1, KayipDus
  <2>5. CASE ~parti.tekrar
    <3>1. parti' = [parti EXCEPT !.adim = "tazele"]
      BY <1>13, <2>5 DEF YabanciAnahtar
    <3>2. /\ parti'.konu = parti.konu /\ parti'.son = parti.son /\ parti'.gecerli = parti.gecerli
          /\ parti'.karantina = parti.karantina /\ parti'.adim = "tazele"
      BY <2>1, <3>1 DEF Parti
    <3>3. HazirTam' /\ YazildiTam'
      BY <3>2 DEF HazirTam, YazildiTam
    <3>4. sebep' = {} => IzlerBellekte'
      BY <2>1, <2>3 DEF IzlerBellekte
    <3>5. QED
      BY <2>1, <3>2, <3>3, <3>4, KayipSurer
  <2>6. QED
    BY <2>4, <2>5
<1>14. CASE Tazele
  <2>1. parti # Yok /\ parti \in Parti /\ bellek' = Isinmis(vt) /\ vt' = vt /\ islenen' = islenen
    BY <1>0, <1>14 DEF Tazele, Adimda
  <2>2. PICK g \in SUBSET parti.gecerli :
           /\ parti' = [parti EXCEPT !.gecerli = g, !.adim = "yarat", !.donen = {}, !.tekrar = TRUE]
           /\ sebep' = IF g = parti.gecerli THEN sebep ELSE sebep \cup {"eleme"}
    BY <1>14 DEF Tazele
  <2>3. /\ parti'.konu = parti.konu /\ parti'.son = parti.son /\ parti'.gecerli = g
        /\ parti'.karantina = parti.karantina /\ parti'.adim = "yarat"
    BY <2>1, <2>2 DEF Parti
  <2>4. sebep' = {} => sebep = {} /\ g = parti.gecerli
    BY <2>2
  <2>5. HazirTam' /\ YazildiTam'
    BY <2>3 DEF HazirTam, YazildiTam
  <2>6. IzlerBellekte'
    BY <2>1, IsinmisTam DEF IzlerBellekte
  <2>7. QED
    BY <2>1, <2>3, <2>4, <2>5, <2>6, KayipSurer
<1>15. ASSUME NEW d \in Iz \X No, IlkDurum(d) PROVE KayipInv'
  <2>1. /\ parti # Yok /\ parti.adim = "ilk" /\ parti \in Parti /\ d \in parti.donen
        /\ Onbellekle(d) /\ islenen' = islenen /\ sebep' = sebep
    BY <1>0, <1>15 DEF IlkDurum, Adimda
  <2>2. /\ vt'.gecmis = vt.gecmis /\ vt'.rapor = vt.rapor
        /\ vt'.karantina = vt.karantina /\ vt'.nesne = vt.nesne
    BY <1>0, <1>15 DEF IlkDurum, Veritabani
  <2>3. /\ parti'.konu = parti.konu /\ parti'.son = parti.son /\ parti'.gecerli = parti.gecerli
        /\ parti'.karantina = parti.karantina /\ parti'.donen = parti.donen \ {d}
        /\ parti'.adim = IF parti.donen = {d} THEN "gecmis" ELSE "ilk"
    BY <1>15, <2>1 DEF IlkDurum, Parti, Sonraki
  <2>4. parti' # Yok
    <3>1. PICK x, a : /\ x = parti.donen \ {d} /\ a \in Adim
                      /\ parti' = [parti EXCEPT !.donen = x, !.adim = a]
      <4>1. "gecmis" \in Adim /\ "ilk" \in Adim
        BY DEF Adim
      <4>2. QED
        BY <1>15, <2>1, <4>1 DEF IlkDurum, Sonraki
    <3>2. x \in SUBSET (Iz \X No)
      BY <2>1, <3>1 DEF Parti
    <3>3. parti' \in Parti
      BY <2>1, <3>1, <3>2 DEF Parti
    <3>4. QED
      BY <3>3, PartiVarsayim
  <2>5. /\ \A i \in Iz : bellek'.iz[i] = IF i = d[1] THEN d[2] ELSE bellek.iz[i]
        /\ d[2] # 0
    BY <1>0, <2>1 DEF Onbellekle, No, TipInv, TypeOK
  <2>6. \A i, n : /\ i \in Iz
                  /\ bellek.iz[i] # 0 \/ (n \in No /\ Bekler(i, n))
                  => bellek'.iz[i] # 0 \/ (n \in No /\ Bekler(i, n)')
    <3> SUFFICES ASSUME NEW i \in Iz, NEW n, bellek'.iz[i] = 0,
                        bellek.iz[i] # 0 \/ (n \in No /\ Bekler(i, n))
                 PROVE  n \in No /\ Bekler(i, n)'
      OBVIOUS
    <3>1. i # d[1]
      BY <2>5
    <3>2. n \in No /\ Bekler(i, n)
      BY <2>5, <3>1
    <3>3. <<i, n>> # d
      BY <3>1
    <3>4. <<i, n>> \in parti'.donen /\ parti'.adim = "ilk"
      BY <2>1, <2>3, <3>2, <3>3 DEF Bekler
    <3>5. QED
      BY <2>4, <3>2, <3>4 DEF Bekler
  <2>7. sebep' = {} => IzlerBellekte'
    <3> SUFFICES ASSUME sebep' = {}, NEW n \in No, vt.nesne[n] # Yok
                 PROVE  bellek'.iz[vt.nesne[n]] # 0 \/ Bekler(vt.nesne[n], n)'
      BY <2>2 DEF IzlerBellekte
    <3>1. PICK i \in Iz : i = vt.nesne[n]
      BY <1>0 DEF Veritabani
    <3>2. bellek.iz[i] # 0 \/ Bekler(i, n)
      BY <2>1, <3>1 DEF KayipInv, IzlerBellekte
    <3>3. bellek'.iz[i] # 0 \/ Bekler(i, n)'
      BY <2>6, <3>2
    <3>4. QED
      BY <2>2, <3>1, <3>3 DEF Bekler
  <2>8. sebep' = {} => HazirTam'
    <3> SUFFICES ASSUME sebep' = {}, NEW p \in parti.gecerli
                 PROVE  \/ bellek'.iz[Gozlenen(p).iz] # 0
                        \/ \E n \in No : Bekler(Gozlenen(p).iz, n)'
                        \/ Gozlenen(p).iz \in BaskaAd
      BY <2>3 DEF HazirTam, Gozlenen, Ogesi
    <3>1. PICK i \in Iz : i = Gozlenen(p).iz /\ i = (Gozlenen(p).iz)'
      BY <2>1, <2>3, Gozlemde DEF Gozlenen, Ogesi
    <3>2. bellek.iz[i] # 0 \/ (\E n \in No : Bekler(i, n)) \/ i \in BaskaAd
      BY <2>1, <3>1 DEF KayipInv, HazirTam
    <3>3. bellek'.iz[i] # 0 \/ (\E n \in No : Bekler(i, n)') \/ i \in BaskaAd
      BY <2>6, <3>2
    <3>4. QED
      BY <3>1, <3>3 DEF Bekler
  <2>9. YazildiTam'
    BY <2>3 DEF YazildiTam
  <2>10. QED
    BY <2>1, <2>2, <2>3, <2>7, <2>8, <2>9, KayipSurer
<1>18. CASE VeriReddi
  <2>1. /\ parti # Yok /\ parti.adim # "ilk" /\ parti' = Yok
        /\ vt' = vt /\ islenen' = islenen /\ bellek' = bellek /\ sebep' = sebep
    BY <1>18 DEF VeriReddi
  <2>2. sebep' = {} => \A n \in No : vt'.nesne[n] # Yok => bellek'.iz[vt'.nesne[n]] # 0
    BY <1>2, <2>1
  <2>3. QED
    BY <2>1, <2>2, KayipDus
<1>19. ASSUME NEW d \in Iz \X No, IlkDurumReddi(d) PROVE KayipInv'
  <2>1. /\ parti # Yok /\ parti.adim = "ilk" /\ d \in parti.donen /\ Onbellekle(d)
        /\ parti' = Yok /\ islenen' = islenen /\ sebep' = YarimKalan(parti.donen \ {d})
    BY <1>19 DEF IlkDurumReddi, Adimda
  <2>2. /\ vt'.gecmis = vt.gecmis /\ vt'.rapor = vt.rapor
        /\ vt'.karantina = vt.karantina /\ vt'.nesne = vt.nesne
    BY <1>0, <1>19 DEF IlkDurumReddi, IlkDusman, Veritabani
  <2>3. sebep' = {} => sebep = {} /\ parti.donen = {d}
    BY <2>1 DEF YarimKalan
  <2>4. sebep' = {} => \A n \in No : vt.nesne[n] # Yok => bellek'.iz[vt.nesne[n]] # 0
    BY <2>1, <2>3, DusenSonra
  <2>5. QED
    BY <2>1, <2>2, <2>3, <2>4, KayipDus
<1>16. QED
  BY <1>4, <1>5, <1>6, <1>7, <1>8, <1>9, <1>10, <1>11, <1>12, <1>13, <1>14, <1>15, <1>18, <1>19
     DEF Tuket

\* Nothing the invariant is about changes.
LEMMA KayipAyni ==
    ASSUME KayipInv, UNCHANGED <<vt, islenen, bellek, parti, sebep>>
    PROVE  KayipInv'
<1>1. HerOgeHesapli => HerOgeHesapli'
  BY YaziliKalir
<1>2. (IzlerBellekte => IzlerBellekte') /\ (HazirTam => HazirTam')
  BY DEF IzlerBellekte, HazirTam, Bekler, Gozlenen, Ogesi
<1>3. Elde => Elde'
  BY DEF Elde, Gozlenen, Ogesi, Yerler
<1>4. YazildiTam => YazildiTam'
  BY DEF YazildiTam, Yazili, Dusen, Gozlenen, Ogesi
<1>5. QED
  BY <1>1, <1>2, <1>3, <1>4 DEF KayipInv

LEMMA KayipAdim == TipInv /\ KimlikInv /\ KimlikInv' /\ KayipInv /\ [Next]_vars => KayipInv'
<1> SUFFICES ASSUME TipInv, KimlikInv, KimlikInv', KayipInv, [Next]_vars PROVE KayipInv'
  OBVIOUS
<1>0. /\ vt \in Veritabani /\ bellek.iz \in [Iz -> 0 .. MaxId] /\ parti \in Parti \cup {Yok}
      /\ sebep \subseteq Sebep
  BY DEF TipInv, TypeOK
<1>1. CASE Tuket
  BY <1>1, KayipTuket
<1>2. ASSUME sebep = {}, parti # Yok => parti.adim # "ilk"
      PROVE  \A n \in No : vt.nesne[n] # Yok => bellek.iz[vt.nesne[n]] # 0
  BY <1>2 DEF KayipInv, IzlerBellekte, Bekler
<1>3. \A k : YarimKalan(k) = {} => sebep = {} /\ k = {}
  BY DEF YarimKalan
<1>4. ASSUME parti # Yok, YenidenDene
      PROVE  /\ parti'.konu = parti.konu /\ parti'.son = parti.son /\ parti'.gecerli = parti.gecerli
             /\ parti'.karantina = parti.karantina /\ parti'.adim = "yarat"
  BY <1>0, <1>4 DEF YenidenDene, Parti
<1>5. CASE SorguHata
  <2>1. /\ parti # Yok /\ parti.adim # "ilk" /\ DusVeyaDene
        /\ vt' = vt /\ islenen' = islenen /\ bellek' = bellek /\ sebep' = sebep
    BY <1>5 DEF SorguHata
  <2>2. sebep' = {} => \A n \in No : vt.nesne[n] # Yok => bellek.iz[vt.nesne[n]] # 0
    BY <1>2, <2>1
  <2>3. CASE parti' = Yok
    BY <2>1, <2>2, <2>3, KayipDus
  <2>4. CASE YenidenDene
    <3>1. HazirTam' /\ YazildiTam'
      BY <1>4, <2>1, <2>4 DEF HazirTam, YazildiTam
    <3>2. sebep' = {} => IzlerBellekte'
      BY <2>1, <2>2 DEF IzlerBellekte
    <3>3. QED
      BY <1>4, <2>1, <2>4, <3>1, <3>2, KayipSurer
  <2>5. QED
    BY <2>1, <2>3, <2>4 DEF DusVeyaDene
<1>6. CASE YaratYanitsiz
  <2>1. PICK sira \in vt.sira .. MaxId + 1 : \E no \in Numaralar(sira) : NesneEkle(sira, no)
    BY <1>6 DEF YaratYanitsiz
  <2>2. PICK no \in Numaralar(sira) : NesneEkle(sira, no)
    BY <2>1
  <2>3. /\ Adimda("yarat") /\ parti' = Yok /\ islenen' = islenen /\ bellek' = bellek
        /\ sebep' = YarimKalan(Bilinmeyen \ Catisan)
    BY <1>6 DEF YaratYanitsiz
  <2>4. /\ vt'.gecmis = vt.gecmis /\ vt'.rapor = vt.rapor /\ vt'.karantina = vt.karantina
        /\ \A m \in No : \/ vt'.nesne[m] = vt.nesne[m]
                         \/ \E i \in Bilinmeyen \ Catisan : no[i] = m /\ vt'.nesne[m] = i
    BY <2>2, <2>3, Eklenen
  <2>5. sebep' = {} => sebep = {} /\ Bilinmeyen \ Catisan = {}
    BY <1>3, <2>3
  <2>6. parti # Yok /\ parti.adim = "yarat"
    BY <2>3 DEF Adimda
  <2>7. sebep' = {} => \A n \in No : vt'.nesne[n] # Yok => bellek'.iz[vt'.nesne[n]] # 0
    BY <1>2, <2>3, <2>4, <2>5, <2>6
  <2>8. QED
    BY <2>3, <2>4, <2>5, <2>7, KayipDus
<1>7. CASE TazeleHata
  <2>1. sebep' # {}
    BY <1>7 DEF TazeleHata
  <2>2. QED
    BY <2>1 DEF KayipInv
<1>8. CASE Cok
  <2> SUFFICES ASSUME sebep' = {} PROVE KayipInv'
    BY DEF KayipInv
  <2>1. /\ parti' = Yok /\ islenen' = kayitli /\ bellek' = Isinmis(vt)
        /\ vt' = vt /\ sebep = {}
    BY <1>8 DEF Cok
  <2>2. IzlerBellekte'
    BY <2>1, IsinmisTam DEF IzlerBellekte
  <2>3. Elde' /\ HazirTam' /\ YazildiTam'
    BY <2>1 DEF Elde, HazirTam, YazildiTam
  <2>4. ASSUME NEW k \in Konu, NEW p \in Yerler(k, 0, kayitli[k])
        PROVE  Yazili(Ogesi(k, p)) \/ Dusen(Ogesi(k, p))
    <3>1. kayitli[k] \in Nat /\ islenen[k] \in Nat /\ kayitli[k] <= islenen[k]
      BY DEF TipInv, TypeOK
    <3>2. p \in Yerler(k, 0, islenen[k])
      BY <2>4, <3>1, YerGenis
    <3>3. QED
      BY <2>1, <3>2 DEF KayipInv, HerOgeHesapli
  <2>5. \A o : Yazili(o) => Yazili(o)'
    BY <2>1 DEF Yazili
  <2>6. HerOgeHesapli'
    BY <2>1, <2>4, <2>5 DEF HerOgeHesapli, Dusen, Ogesi, Yerler
  <2>7. QED
    BY <2>2, <2>3, <2>6 DEF KayipInv
<1>9. CASE YedektenDon
  <2>1. sebep' # {}
    BY <1>9 DEF YedektenDon
  <2>2. QED
    BY <2>1 DEF KayipInv
<1>10. ASSUME NEW d \in Iz \X No, IlkDurumHata(d) PROVE KayipInv'
  <2>1. /\ parti # Yok /\ parti.adim = "ilk" /\ d \in parti.donen /\ Onbellekle(d)
        /\ DusVeyaDene /\ islenen' = islenen /\ sebep' = YarimKalan(parti.donen \ {d})
    BY <1>10 DEF IlkDurumHata, Adimda
  <2>2. /\ vt'.gecmis = vt.gecmis /\ vt'.rapor = vt.rapor
        /\ vt'.karantina = vt.karantina /\ vt'.nesne = vt.nesne
    BY <1>0, <1>10 DEF IlkDurumHata, IlkDusman, Veritabani
  <2>3. sebep' = {} => sebep = {} /\ parti.donen = {d}
    BY <1>3, <2>1
  <2>5. sebep' = {} => \A n \in No : vt.nesne[n] # Yok => bellek'.iz[vt.nesne[n]] # 0
    BY <2>1, <2>3, DusenSonra
  <2>6. CASE parti' = Yok
    BY <2>1, <2>2, <2>3, <2>5, <2>6, KayipDus
  <2>7. CASE YenidenDene
    <3>1. HazirTam' /\ YazildiTam'
      BY <1>4, <2>1, <2>7 DEF HazirTam, YazildiTam
    <3>2. sebep' = {} => IzlerBellekte'
      BY <2>2, <2>5 DEF IzlerBellekte
    <3>3. QED
      BY <1>4, <2>1, <2>2, <2>3, <2>7, <3>1, <3>2, KayipSurer
  <2>8. QED
    BY <2>1, <2>6, <2>7 DEF DusVeyaDene
<1>11. ASSUME NEW k \in Konu, OffsetKaydet(k) PROVE KayipInv'
  BY <1>11, KayipAyni DEF OffsetKaydet
<1>12. CASE UNCHANGED vars
  BY <1>12, KayipAyni DEF vars
<1>13. QED
  BY <1>1, <1>5, <1>6, <1>7, <1>8, <1>9, <1>10, <1>11, <1>12 DEF Next

LEMMA KayipHep == Spec => [](TipInv /\ KimlikInv /\ KayipInv)
<1>1. Init => TipInv /\ KimlikInv /\ KayipInv
  BY TipInit, KimlikInit, KayipInit
<1>2. TipInv /\ KimlikInv /\ KayipInv /\ [Next]_vars => (TipInv /\ KimlikInv /\ KayipInv)'
  BY TipAdim, KimlikAdim, KayipAdim
<1>3. QED
  BY <1>1, <1>2, PTL DEF Spec

\* Failed queries, deadlocks, crashes, refused values and redelivered messages
\* lose nothing by themselves: an item of a consumed message is in the history,
\* among the reports or in quarantine unless one of the four causes has
\* happened, or the message held no report, or the observation's track code
\* names another object of the database.
THEOREM LossOnlyByCause == Spec => []KayipSebepli
<1>1. KayipInv => KayipSebepli
  BY DEF KayipInv, KayipSebepli
<1>2. QED
  BY <1>1, KayipHep, PTL

-----------------------------------------------------------------------------
(***************************************************************************)
(* 7. The last observation of a track is in its three tables.              *)
(***************************************************************************)
\* A track that reports in no other partition.
TekKonu(k, i) == \A m \in Konu \ {k} : \A q \in Gozlemler(m) : Ogesi(m, q).iz # i

\* The row a table has for the track of an observation is that observation or
\* one that is not earlier.  A redelivered message may be older than the row.
Guncel(nesne, tablo, k, p) ==
    \A n \in No : nesne[n] = Ogesi(k, p).iz =>
        \E q \in Gozlemler(k) : /\ Ogesi(k, q).iz = Ogesi(k, p).iz
                                /\ ~Once(q, p)
                                /\ tablo[n] = Ogesi(k, q)

\* As long as nothing was lost or restored every registered sensor is known,
\* and only what no table takes is in quarantine.
SafInv ==
    /\ vt.sensor = BilinenSensor /\ bellek.sensor = BilinenSensor
    /\ \A o \in vt.karantina : o \in Gozlem => o.sensor \notin BilinenSensor
    /\ parti # Yok => \A o \in parti.karantina : o \in Gozlem => o.sensor \notin BilinenSensor

\* What passed of a batch is all it holds of the observations to be written.
GecerliTam ==
    parti # Yok =>
        /\ \A p \in Gozlemler(parti.konu) :
              p \in Yerler(parti.konu, islenen[parti.konu], parti.son) => p \in parti.gecerli
        /\ \A p \in parti.gecerli :
              Gozlenen(p) \in Gozlem /\ Gozlenen(p).iz \notin BaskaAd => p \in Gozlemler(parti.konu)

TuketilenGuncel ==
    \A k \in Konu : \A p \in Gozlemler(k) :
        p \in Yerler(k, 0, islenen[k]) /\ TekKonu(k, Ogesi(k, p).iz) =>
            /\ Guncel(vt.nesne, vt.konum, k, p)
            /\ Guncel(vt.nesne, vt.dusman, k, p)
            /\ Guncel(vt.nesne, vt.ozet, k, p)

\* The batch in hand, table by table.
PartiGuncel ==
    parti # Yok =>
        \A p \in parti.gecerli :
            p \in Gozlemler(parti.konu) /\ TekKonu(parti.konu, Ogesi(parti.konu, p).iz) =>
                /\ parti.adim \in {"dusman", "ozet", "karantina"} =>
                      Guncel(vt.nesne, vt.konum, parti.konu, p)
                /\ parti.adim \in {"ozet", "karantina"} =>
                      Guncel(vt.nesne, vt.dusman, parti.konu, p)
                /\ parti.adim = "karantina" => Guncel(vt.nesne, vt.ozet, parti.konu, p)

SonInv == sebep = {} => SafInv /\ GecerliTam /\ TuketilenGuncel /\ PartiGuncel

\* The inductive invariant of the whole consumer.
IngestInv == TipInv /\ KimlikInv /\ KayipInv /\ SonInv

\* An observation of a consumed message has its track in the database.
LEMMA TanidikIz ==
    ASSUME IngestInv, sebep = {}, NEW k \in Konu, NEW p \in Gozlemler(k),
           p \in Yerler(k, 0, islenen[k])
    PROVE  \E n \in No : vt.nesne[n] = Ogesi(k, p).iz
<1> DEFINE o == Ogesi(k, p)
<1>1. o \in Gozlem /\ o.sensor \in BilinenSensor /\ o.iz \notin BaskaAd
  BY DEF Gozlemler
<1>2. Yazili(o)
  <2>1. o \notin Raporsuz
    BY <1>1, OgeVarsayim
  <2>2. Yazili(o) \/ Dusen(o)
    BY DEF IngestInv, KayipInv, HerOgeHesapli
  <2>3. QED
    BY <1>1, <2>1, <2>2 DEF Dusen
<1>3. vt.rapor \subseteq Rapor /\ vt.gecmis \subseteq [no : No, g : Gozlem]
  BY DEF IngestInv, TipInv, TypeOK, Veritabani
<1>4. o \notin vt.rapor
  BY <1>1, <1>3, OgeVarsayim
<1>5. o \notin vt.karantina
  BY <1>1 DEF IngestInv, SonInv, SafInv
<1>6. PICK r \in vt.gecmis : r.g.iz = o.iz
  BY <1>2, <1>4, <1>5 DEF Yazili
<1>7. vt.nesne[r.no] = r.g.iz
  BY DEF IngestInv, KimlikInv, KimlikDogru
<1>8. r.no \in No
  BY <1>3
<1>9. QED
  BY <1>6, <1>7, <1>8

\* While observations are written every place of the batch is one.
LEMMA PartiYeri ==
    ASSUME IngestInv, sebep = {}, parti # Yok,
           parti.adim \notin {"rapor", "karantina"}, NEW p \in parti.gecerli,
           Gozlenen(p).iz \notin BaskaAd
    PROVE  /\ parti.konu \in Konu
           /\ p \in Gozlemler(parti.konu)
           /\ p \in Nat \X Nat
           /\ islenen[parti.konu] \in Nat /\ islenen[parti.konu] < p[1]
<1>1. TipInv
  BY DEF IngestInv
<1>2. parti.konu \in Konu /\ Gozlenen(p) \in Gozlem /\ p \in Nat \X Nat
  BY <1>1, Gozlemde
<1>3. p \in Gozlemler(parti.konu)
  BY <1>2 DEF IngestInv, SonInv, GecerliTam
<1>4. /\ p \in Yerler(parti.konu, islenen[parti.konu], parti.son)
      /\ islenen[parti.konu] \in Nat /\ parti.son \in Nat /\ parti.son <= Len(Kayit[parti.konu])
  BY <1>1, <1>2, Gozlemde DEF TipInv, TypeOK, PartiTutarli, Parti
<1>5. p[1] \in islenen[parti.konu] + 1 .. parti.son
  BY <1>2, <1>4, YerTip
<1>6. QED
  BY <1>2, <1>3, <1>4, <1>5

\* The upsert of a table leaves the last observation of every track of the
\* batch in it.
LEMMA YazilmisGuncel ==
    ASSUME IngestInv, sebep = {}, parti # Yok, parti.adim \in {"konum", "dusman", "ozet"},
           NEW tablo, NEW p \in parti.gecerli, p \in Gozlemler(parti.konu)
    PROVE  Guncel(vt.nesne, Yazilmis(tablo), parti.konu, p)
<1> SUFFICES ASSUME NEW n \in No, vt.nesne[n] = Gozlenen(p).iz
             PROVE  \E q \in Gozlemler(parti.konu) :
                       /\ Ogesi(parti.konu, q).iz = Ogesi(parti.konu, p).iz
                       /\ ~Once(q, p)
                       /\ Yazilmis(tablo)[n] = Ogesi(parti.konu, q)
  BY DEF Guncel, Gozlenen
<1>0. TipInv /\ parti.adim \notin {"rapor", "karantina"}
  BY DEF IngestInv
<1>1. Gozlenen(p).iz \in Iz \ BaskaAd /\ bellek.iz[Gozlenen(p).iz] # 0
  <2>1. Gozlenen(p).iz \in Iz \ BaskaAd
    BY <1>0, Gozlemde DEF Gozlemler, Gozlenen
  <2>2. QED
    BY <2>1 DEF IngestInv, KayipInv, HazirTam, Bekler
<1>2. p \in Hazir /\ bellek.iz[Gozlenen(p).iz] \in No
  BY <1>0, <1>1, Gozlemde DEF Hazir
<1>3. bellek.iz[Gozlenen(p).iz] = n
  BY <1>1, <1>2, YokVarsayim DEF IngestInv, KimlikInv, KimlikDogru
<1> DEFINE S == {s \in Hazir : Gozlenen(s).iz = Gozlenen(p).iz}
<1>4. PICK s \in S : \A q \in S : ~Once(s, q)
  <2>1. S # {} /\ S \subseteq parti.gecerli /\ S \subseteq Nat \X Nat
    BY <1>0, <1>2, Gozlemde
  <2> DEFINE c == [i \in Nat |-> Len(Kayit[parti.konu][i])]
  <2>2. /\ parti.konu \in Konu /\ islenen[parti.konu] \in Nat /\ parti.son \in Nat
        /\ parti.son <= Len(Kayit[parti.konu])
        /\ parti.gecerli \subseteq Yerler(parti.konu, islenen[parti.konu], parti.son)
    BY <1>0, Gozlemde DEF TipInv, TypeOK, PartiTutarli, Parti
  <2>3. \A q \in S : q[1] <= parti.son /\ c[q[1]] \in Nat /\ q[2] <= c[q[1]]
    <3> SUFFICES ASSUME NEW q \in S PROVE q[1] <= parti.son /\ c[q[1]] \in Nat /\ q[2] <= c[q[1]]
      OBVIOUS
    <3>1. /\ q[1] \in islenen[parti.konu] + 1 .. parti.son
          /\ Len(Kayit[parti.konu][q[1]]) \in Nat
          /\ q[2] \in 1 .. Len(Kayit[parti.konu][q[1]])
      BY <2>1, <2>2, YerTip
    <3>2. QED
      BY <2>2, <3>1
  <2> HIDE DEF S, c
  <2>4. QED
    BY <2>1, <2>2, <2>3, SonYer
<1>5. s \in Hazir /\ Gozlenen(s).iz = Gozlenen(p).iz
  OBVIOUS
<1>6. \A q \in Hazir : Once(s, q) => Gozlenen(q).iz # Gozlenen(s).iz
  BY <1>4, <1>5
<1>7. Gozlenen(s) \in Sonuncular
  BY <1>5, <1>6 DEF Sonuncular
<1>8. PICK o \in Sonuncular : Yazilmis(tablo)[n] = o /\ bellek.iz[o.iz] = n
  BY <1>3, <1>5, <1>7 DEF Yazilmis
<1>9. PICK q \in Hazir :
         /\ o = Gozlenen(q)
         /\ \A u \in Hazir : Once(q, u) => Gozlenen(u).iz # Gozlenen(q).iz
  BY DEF Sonuncular
<1>10. q \in parti.gecerli /\ Gozlenen(q).iz \in Iz
  BY <1>0, <1>9, Gozlemde
<1>11. vt.nesne[bellek.iz[Gozlenen(q).iz]] = Gozlenen(q).iz
  BY <1>8, <1>9, <1>10 DEF IngestInv, KimlikInv, KimlikDogru, No
<1>12. Gozlenen(q).iz = Gozlenen(p).iz
  BY <1>8, <1>9, <1>11
<1>13. ~Once(q, p)
  BY <1>2, <1>9, <1>12
<1>14. q \in Gozlemler(parti.konu)
  BY <1>0, <1>1, <1>10, <1>12, PartiYeri
<1>15. QED
  BY <1>8, <1>9, <1>12, <1>13, <1>14 DEF Gozlenen

\* And it does not put an older observation over that of a consumed message.
LEMMA YazilmisKorur ==
    ASSUME IngestInv, sebep = {}, parti # Yok, parti.adim \in {"konum", "dusman", "ozet"},
           NEW tablo, NEW k \in Konu, NEW p \in Gozlemler(k), p \in Yerler(k, 0, islenen[k]),
           TekKonu(k, Ogesi(k, p).iz), Guncel(vt.nesne, tablo, k, p)
    PROVE  Guncel(vt.nesne, Yazilmis(tablo), k, p)
<1> SUFFICES ASSUME NEW n \in No, vt.nesne[n] = Ogesi(k, p).iz
             PROVE  \E q \in Gozlemler(k) : /\ Ogesi(k, q).iz = Ogesi(k, p).iz
                                            /\ ~Once(q, p)
                                            /\ Yazilmis(tablo)[n] = Ogesi(k, q)
  BY DEF Guncel
<1>0. TipInv /\ parti.adim \notin {"rapor", "karantina"}
  BY DEF IngestInv
<1>1. CASE Yazilmis(tablo)[n] = tablo[n]
  BY <1>1 DEF Guncel
<1>2. CASE \E o \in Sonuncular : Yazilmis(tablo)[n] = o /\ bellek.iz[o.iz] = n
  <2>1. PICK q \in Hazir : Yazilmis(tablo)[n] = Gozlenen(q) /\ bellek.iz[Gozlenen(q).iz] = n
    BY <1>2 DEF Sonuncular
  <2>2. q \in parti.gecerli /\ Gozlenen(q).iz \in Iz
    BY <1>0, Gozlemde
  <2>3. Gozlenen(q).iz = Ogesi(k, p).iz /\ Gozlenen(q).iz \notin BaskaAd
    BY <2>1, <2>2 DEF IngestInv, KimlikInv, KimlikDogru, No, Gozlemler
  <2>4. /\ parti.konu \in Konu /\ q \in Gozlemler(parti.konu) /\ q \in Nat \X Nat
        /\ islenen[parti.konu] \in Nat /\ islenen[parti.konu] < q[1]
    BY <1>0, <2>2, <2>3, PartiYeri
  <2>5. parti.konu = k
    BY <2>3, <2>4 DEF TekKonu, Gozlenen
  <2>6. p[1] \in 0 + 1 .. islenen[k]
    <3>1. islenen[k] \in Nat /\ islenen[k] <= Len(Kayit[k])
      BY <1>0 DEF TipInv, TypeOK
    <3>2. QED
      BY <3>1, YerTip
  <2>7. ~Once(q, p)
    BY <2>4, <2>5, <2>6 DEF Once
  <2>8. QED
    BY <2>1, <2>3, <2>4, <2>5, <2>7 DEF Gozlenen
<1>3. QED
  BY <1>0, <1>1, <1>2, SonuncularTip

\* The first state of a new track goes only where there is no row.
LEMMA BossaGuncel ==
    ASSUME NEW nesne, NEW tablo \in [No -> Gozlem \cup {Yok}], NEW k, NEW p, NEW m \in No, NEW x,
           Guncel(nesne, tablo, k, p)
    PROVE  Guncel(nesne, [tablo EXCEPT ![m] = Bossa(tablo[m], x)], k, p)
<1>1. \A q \in Gozlemler(k) : Ogesi(k, q) # Yok
  BY YokVarsayim DEF Gozlemler
<1>2. QED
  BY <1>1 DEF Guncel, Bossa

\* So the first states of a track leave the rows of consumed messages alone.
LEMMA BossaKalir ==
    ASSUME TypeOK, TuketilenGuncel, islenen' = islenen, NEW m \in No, NEW x,
           vt'.nesne = vt.nesne, vt'.ozet = vt.ozet,
           vt'.konum \in {vt.konum, [vt.konum EXCEPT ![m] = Bossa(vt.konum[m], x)]},
           vt'.dusman \in {vt.dusman, [vt.dusman EXCEPT ![m] = Bossa(vt.dusman[m], x)]}
    PROVE  TuketilenGuncel'
<1> SUFFICES ASSUME NEW k \in Konu, NEW p \in Gozlemler(k), p \in Yerler(k, 0, islenen[k]),
                    TekKonu(k, Ogesi(k, p).iz)
             PROVE  /\ Guncel(vt.nesne, vt'.konum, k, p)
                    /\ Guncel(vt.nesne, vt'.dusman, k, p)
                    /\ Guncel(vt.nesne, vt.ozet, k, p)
  BY DEF TuketilenGuncel
<1>1. /\ Guncel(vt.nesne, vt.konum, k, p) /\ Guncel(vt.nesne, vt.dusman, k, p)
      /\ Guncel(vt.nesne, vt.ozet, k, p)
  BY DEF TuketilenGuncel
<1>2. vt.konum \in [No -> Gozlem \cup {Yok}] /\ vt.dusman \in [No -> Gozlem \cup {Yok}]
  BY DEF TypeOK, Veritabani
<1>3. /\ Guncel(vt.nesne, [vt.konum EXCEPT ![m] = Bossa(vt.konum[m], x)], k, p)
      /\ Guncel(vt.nesne, [vt.dusman EXCEPT ![m] = Bossa(vt.dusman[m], x)], k, p)
  BY <1>1, <1>2, BossaGuncel
<1>4. QED
  BY <1>1, <1>3

LEMMA SonInit == Init => SonInv
<1> SUFFICES ASSUME Init PROVE SonInv
  OBVIOUS
<1>1. \A k \in Konu : Yerler(k, 0, islenen[k]) = {}
  BY DEF Init, Yerler
<1>2. parti = Yok
  BY DEF Init
<1>3. SafInv
  BY DEF Init, SafInv, BosVt, Isinmis
<1>4. TuketilenGuncel
  BY <1>1 DEF TuketilenGuncel
<1>5. QED
  BY <1>2, <1>3, <1>4 DEF SonInv, GecerliTam, PartiGuncel

\* What a step has to keep of the rows of consumed messages.
LEMMA TuketilenKalir ==
    ASSUME TuketilenGuncel, islenen' = islenen, vt'.nesne = vt.nesne, vt'.konum = vt.konum,
           vt'.dusman = vt.dusman, vt'.ozet = vt.ozet
    PROVE  TuketilenGuncel'
BY DEF TuketilenGuncel

\* A step of a batch that keeps its places.
LEMMA GecerliKalir ==
    ASSUME GecerliTam, islenen' = islenen, parti # Yok, parti'.konu = parti.konu,
           parti'.son = parti.son, parti'.gecerli = parti.gecerli
    PROVE  GecerliTam'
BY DEF GecerliTam, Gozlenen

\* The batch is dropped, and the tables stay as they are.
LEMMA SonDus ==
    ASSUME SonInv, sebep' = {} => sebep = {}, parti' = Yok, islenen' = islenen,
           vt'.nesne = vt.nesne, vt'.konum = vt.konum, vt'.dusman = vt.dusman,
           vt'.ozet = vt.ozet, sebep' = {} => SafInv'
    PROVE  SonInv'
<1> SUFFICES ASSUME sebep' = {} PROVE SonInv'
  BY DEF SonInv
<1>1. TuketilenGuncel'
  BY TuketilenKalir DEF SonInv
<1>2. GecerliTam' /\ PartiGuncel'
  BY DEF GecerliTam, PartiGuncel
<1>3. QED
  BY <1>1, <1>2 DEF SonInv

\* The batch goes on to a query before the tables are written, or holds
\* nothing for them.
LEMMA SonSurer ==
    ASSUME SonInv, sebep' = {} => sebep = {}, parti # Yok, islenen' = islenen,
           vt'.nesne = vt.nesne, vt'.konum = vt.konum, vt'.dusman = vt.dusman,
           vt'.ozet = vt.ozet, sebep' = {} => SafInv',
           sebep' = {} => /\ parti'.konu = parti.konu /\ parti'.son = parti.son
                          /\ parti'.gecerli = parti.gecerli,
           sebep' = {} => \/ parti'.adim \notin {"dusman", "ozet", "karantina"}
                          \/ \A p \in parti.gecerli : p \notin Gozlemler(parti.konu)
    PROVE  SonInv'
<1> SUFFICES ASSUME sebep' = {} PROVE SonInv'
  BY DEF SonInv
<1>1. TuketilenGuncel'
  BY TuketilenKalir DEF SonInv
<1>2. GecerliTam'
  BY GecerliKalir DEF SonInv
<1>3. PartiGuncel'
  BY DEF PartiGuncel
<1>4. QED
  BY <1>1, <1>2, <1>3 DEF SonInv

\* Sensors and quarantine as they were.
LEMMA SafKalir ==
    ASSUME SafInv, vt'.sensor = vt.sensor, bellek'.sensor \in {bellek.sensor, vt.sensor},
           vt'.karantina = vt.karantina,
           parti' # Yok => parti # Yok /\ parti'.karantina = parti.karantina
    PROVE  SafInv'
BY DEF SafInv

LEMMA SonAyni ==
    ASSUME SonInv, UNCHANGED <<vt, islenen, bellek, parti, sebep>>
    PROVE  SonInv'
<1> SUFFICES ASSUME sebep' = {} PROVE SonInv'
  BY DEF SonInv
<1>1. SafInv'
  BY SafKalir DEF SonInv
<1>2. TuketilenGuncel'
  BY TuketilenKalir DEF SonInv
<1>3. GecerliTam'
  BY DEF SonInv, GecerliTam, Gozlenen
<1>4. PartiGuncel'
  BY DEF SonInv, PartiGuncel
<1>5. QED
  BY <1>1, <1>2, <1>3, <1>4 DEF SonInv

LEMMA SonTuket ==
    ASSUME IngestInv, Tuket
    PROVE  SonInv'
<1>0. /\ vt \in Veritabani /\ parti \in Parti \cup {Yok} /\ TipInv /\ SonInv
      /\ bellek \in BellekTip
      /\ sebep = {} => SafInv /\ GecerliTam /\ TuketilenGuncel /\ PartiGuncel
  BY DEF IngestInv, SonInv, TipInv, TypeOK, BellekTip
<1>1. Ilerle /\ parti # Yok =>
          /\ parti'.adim = Sonraki(parti.adim) /\ parti'.gecerli = parti.gecerli
          /\ parti'.konu = parti.konu /\ parti'.son = parti.son
          /\ parti'.karantina = parti.karantina
  BY <1>0 DEF Ilerle, Parti
<1>2. ASSUME NEW k \in Konu, NEW n \in 1 .. Len(Kayit[k]), Al(k, n) PROVE SonInv'
  <2> SUFFICES ASSUME sebep' = {} PROVE SonInv'
    BY DEF SonInv
  <2>1. /\ sebep = {} /\ parti = Yok /\ vt' = vt /\ islenen' = islenen /\ bellek' = bellek
    BY <1>2 DEF Al
  <2> DEFINE Y == Yerler(k, islenen[k], n)
             g == {p \in Y : Gecer(Ogesi(k, p))}
             q == {o \in {Ogesi(k, p) : p \in Y} : ~Gecer(o)} \ Raporsuz
  <2>2. parti' = [konu |-> k, son |-> n, gecerli |-> g, karantina |-> q,
                  adim |-> IF k \in IstKonu THEN "rapor" ELSE "yarat",
                  donen |-> {}, tekrar |-> FALSE]
    BY <1>2 DEF Al
  <2>3. /\ \A p \in g : p \in Y /\ Gecer(Ogesi(k, p))
        /\ \A p \in Y : Gecer(Ogesi(k, p)) => p \in g
        /\ \A o \in q : ~Gecer(o)
    OBVIOUS
  <2> HIDE DEF g, q
  <2>4. /\ parti'.konu = k /\ parti'.son = n /\ parti'.gecerli = g /\ parti'.karantina = q
        /\ parti'.adim \in {"rapor", "yarat"}
    BY <2>2
  <2>5. SafInv
    BY <1>0, <2>1
  <2>6. SafInv'
    BY <2>1, <2>3, <2>4, <2>5 DEF SafInv, Gecer
  <2>7. TuketilenGuncel'
    BY <1>0, <2>1, TuketilenKalir
  <2>8. ASSUME NEW p \in Gozlemler(k), p \in Y PROVE p \in g
    BY <2>3, <2>5, <2>8 DEF SafInv, Gecer, Gozlemler
  <2>9. ASSUME NEW p \in g, Ogesi(k, p) \in Gozlem, Ogesi(k, p).iz \notin BaskaAd
        PROVE  p \in Gozlemler(k)
    <3>1. Ogesi(k, p).sensor \in BilinenSensor
      BY <2>3, <2>5, <2>9, OgeVarsayim DEF SafInv, Gecer
    <3>2. /\ islenen[k] \in Nat /\ Len(Kayit[k]) \in Nat /\ n \in Nat /\ n <= Len(Kayit[k])
      BY <1>0, KayitTip DEF TipInv, TypeOK
    <3>3. p \in Yerler(k, 0, Len(Kayit[k]))
      BY <2>3, <3>2, YerGenis
    <3>4. QED
      BY <2>9, <3>1, <3>3 DEF Gozlemler
  <2>10. GecerliTam'
    BY <2>1, <2>4, <2>8, <2>9 DEF GecerliTam, Gozlenen
  <2>11. PartiGuncel'
    BY <2>4 DEF PartiGuncel
  <2>12. QED
    BY <2>6, <2>7, <2>10, <2>11 DEF SonInv
<1>3. CASE NesneYarat
  <2>1. PICK sira \in vt.sira .. MaxId + 1 : \E no \in Numaralar(sira) :
           /\ NesneEkle(sira, no)
           /\ LET donen == {<<i, no[i]>> : i \in Bilinmeyen \ Catisan}
              IN parti' = [parti EXCEPT !.donen = donen,
                                        !.adim = IF donen = {} THEN Sonraki(@) ELSE "ilk"]
    BY <1>3 DEF NesneYarat
  <2>2. PICK no \in Numaralar(sira) :
           /\ NesneEkle(sira, no)
           /\ LET donen == {<<i, no[i]>> : i \in Bilinmeyen \ Catisan}
              IN parti' = [parti EXCEPT !.donen = donen,
                                        !.adim = IF donen = {} THEN Sonraki(@) ELSE "ilk"]
    BY <2>1
  <2>3. /\ Adimda("yarat") /\ NesneEkle(sira, no)
        /\ islenen' = islenen /\ bellek' = bellek /\ sebep' = sebep
    BY <1>3, <2>2 DEF NesneYarat
  <2>4. parti # Yok /\ parti.adim = "yarat" /\ parti \in Parti
    BY <1>0, <2>3 DEF Adimda
  <2>5. /\ vt'.sensor = vt.sensor /\ vt'.konum = vt.konum /\ vt'.dusman = vt.dusman
        /\ vt'.ozet = vt.ozet /\ vt'.karantina = vt.karantina
        /\ \A m \in No : \/ vt'.nesne[m] = vt.nesne[m]
                         \/ \E i \in Bilinmeyen \ Catisan : no[i] = m /\ vt'.nesne[m] = i
        /\ Bilinmeyen \subseteq Iz
    BY <1>0, <2>3, Eklenen
  <2>6. /\ parti'.konu = parti.konu /\ parti'.son = parti.son /\ parti'.gecerli = parti.gecerli
        /\ parti'.karantina = parti.karantina /\ parti'.adim \in {"ilk", "gecmis"}
    BY <2>2, <2>4 DEF Parti, Sonraki
  <2> SUFFICES ASSUME sebep' = {} PROVE SonInv'
    BY DEF SonInv
  <2>7. SafInv' /\ GecerliTam' /\ PartiGuncel'
    <3>1. SafInv'
      BY <1>0, <2>3, <2>4, <2>5, <2>6, SafKalir
    <3>2. GecerliTam'
      BY <1>0, <2>3, <2>4, <2>6, GecerliKalir
    <3>3. QED
      BY <2>6, <3>1, <3>2 DEF PartiGuncel
  <2>8. ASSUME NEW k \in Konu, NEW p \in Gozlemler(k), p \in Yerler(k, 0, islenen[k]),
               NEW tablo, Guncel(vt.nesne, tablo, k, p)
        PROVE  Guncel(vt'.nesne, tablo, k, p)
    <3>1. PICK m \in No : vt.nesne[m] = Ogesi(k, p).iz
      BY <2>3, <2>8, TanidikIz
    <3>2. Ogesi(k, p).iz \notin Bilinmeyen \ Catisan
      BY <2>5, <3>1 DEF Catisan
    <3>3. \A n \in No : vt'.nesne[n] = Ogesi(k, p).iz => vt.nesne[n] = Ogesi(k, p).iz
      BY <2>5, <3>2
    <3>4. QED
      BY <2>8, <3>3 DEF Guncel
  <2>9. TuketilenGuncel'
    <3> SUFFICES ASSUME NEW k \in Konu, NEW p \in Gozlemler(k), p \in Yerler(k, 0, islenen[k]),
                        TekKonu(k, Ogesi(k, p).iz)
                 PROVE  /\ Guncel(vt'.nesne, vt.konum, k, p)
                        /\ Guncel(vt'.nesne, vt.dusman, k, p)
                        /\ Guncel(vt'.nesne, vt.ozet, k, p)
      BY <2>3, <2>5 DEF TuketilenGuncel
    <3>1. /\ Guncel(vt.nesne, vt.konum, k, p) /\ Guncel(vt.nesne, vt.dusman, k, p)
          /\ Guncel(vt.nesne, vt.ozet, k, p)
      BY <1>0, <2>3 DEF TuketilenGuncel
    <3>2. QED
      BY <2>8, <3>1
  <2>10. QED
    BY <2>7, <2>9 DEF SonInv
<1>4. CASE NesneGerekmez
  <2>1. /\ parti # Yok /\ parti.adim = "yarat" /\ Ilerle
        /\ vt' = vt /\ islenen' = islenen /\ bellek' = bellek /\ sebep' = sebep
    BY <1>4 DEF NesneGerekmez, Adimda
  <2>2. parti'.adim = "gecmis"
    BY <1>1, <2>1 DEF Sonraki
  <2>3. sebep' = {} => SafInv'
    BY <1>0, <1>1, <2>1, SafKalir
  <2>4. QED
    BY <1>0, <1>1, <2>1, <2>2, <2>3, SonSurer
<1>5. CASE HazirYok
  <2>1. /\ parti # Yok /\ parti.adim = "gecmis" /\ Hazir = {} /\ parti \in Parti
        /\ vt' = vt /\ islenen' = islenen /\ bellek' = bellek /\ sebep' = sebep
    BY <1>0, <1>5 DEF HazirYok, Adimda
  <2>2. /\ parti'.konu = parti.konu /\ parti'.son = parti.son /\ parti'.gecerli = parti.gecerli
        /\ parti'.karantina = parti.karantina
    BY <1>5, <2>1 DEF HazirYok, Parti
  <2>3. sebep' = {} => \A p \in parti.gecerli : p \notin Gozlemler(parti.konu)
    BY <2>1 DEF IngestInv, KayipInv, HazirTam, Bekler, Hazir, Gozlemler, Gozlenen
  <2>4. sebep' = {} => SafInv'
    BY <1>0, <2>1, <2>2, SafKalir
  <2>5. QED
    BY <1>0, <2>1, <2>2, <2>3, <2>4, SonSurer
<1>6. CASE GecmisYaz
  <2>1. /\ parti # Yok /\ parti.adim = "gecmis" /\ Ilerle
        /\ islenen' = islenen /\ bellek' = bellek /\ sebep' = sebep
    BY <1>6 DEF GecmisYaz, Adimda
  <2>2. parti'.adim = "konum"
    BY <1>1, <2>1 DEF Sonraki
  <2>3. PICK x : vt' = [vt EXCEPT !.gecmis = @ \cup x]
    BY <1>6 DEF GecmisYaz
  <2>4. /\ vt'.nesne = vt.nesne /\ vt'.konum = vt.konum /\ vt'.dusman = vt.dusman
        /\ vt'.ozet = vt.ozet /\ vt'.sensor = vt.sensor /\ vt'.karantina = vt.karantina
    BY <1>0, <2>3 DEF Veritabani
  <2>5. sebep' = {} => SafInv'
    BY <1>0, <1>1, <2>1, <2>4, SafKalir
  <2>6. QED
    BY <1>0, <1>1, <2>1, <2>2, <2>4, <2>5, SonSurer
<1>7. CASE SonDurumYaz
  <2> SUFFICES ASSUME sebep' = {} PROVE SonInv'
    BY DEF SonInv
  <2>1. /\ parti # Yok /\ parti.adim \in {"konum", "dusman", "ozet"} /\ Ilerle
        /\ islenen' = islenen /\ bellek' = bellek /\ sebep = {}
    BY <1>7 DEF SonDurumYaz, Adimda
  <2>2. \/ parti.adim = "konum" /\ vt' = [vt EXCEPT !.konum = Yazilmis(vt.konum)]
        \/ parti.adim = "dusman" /\ vt' = [vt EXCEPT !.dusman = Yazilmis(vt.dusman)]
        \/ parti.adim = "ozet" /\ vt' = [vt EXCEPT !.ozet = Yazilmis(vt.ozet)]
    BY <1>7 DEF SonDurumYaz, Adimda
  <2>3. /\ vt'.nesne = vt.nesne /\ vt'.sensor = vt.sensor /\ vt'.karantina = vt.karantina
        /\ vt'.konum = IF parti.adim = "konum" THEN Yazilmis(vt.konum) ELSE vt.konum
        /\ vt'.dusman = IF parti.adim = "dusman" THEN Yazilmis(vt.dusman) ELSE vt.dusman
        /\ vt'.ozet = IF parti.adim = "ozet" THEN Yazilmis(vt.ozet) ELSE vt.ozet
    BY <1>0, <2>2 DEF Veritabani
  <2>4. SafInv' /\ GecerliTam'
    <3>1. SafInv'
      BY <1>0, <1>1, <2>1, <2>3, SafKalir
    <3>2. GecerliTam'
      BY <1>0, <1>1, <2>1, GecerliKalir
    <3>3. QED
      BY <3>1, <3>2
  <2>5. TuketilenGuncel'
    <3> SUFFICES ASSUME NEW k \in Konu, NEW p \in Gozlemler(k), p \in Yerler(k, 0, islenen[k]),
                        TekKonu(k, Ogesi(k, p).iz)
                 PROVE  /\ Guncel(vt.nesne, vt'.konum, k, p)
                        /\ Guncel(vt.nesne, vt'.dusman, k, p)
                        /\ Guncel(vt.nesne, vt'.ozet, k, p)
      BY <2>1, <2>3 DEF TuketilenGuncel
    <3>1. /\ Guncel(vt.nesne, vt.konum, k, p) /\ Guncel(vt.nesne, vt.dusman, k, p)
          /\ Guncel(vt.nesne, vt.ozet, k, p)
      BY <1>0, <2>1 DEF TuketilenGuncel
    <3>2. /\ Guncel(vt.nesne, Yazilmis(vt.konum), k, p)
          /\ Guncel(vt.nesne, Yazilmis(vt.dusman), k, p)
          /\ Guncel(vt.nesne, Yazilmis(vt.ozet), k, p)
      BY <2>1, <3>1, YazilmisKorur
    <3>3. QED
      BY <2>3, <3>1, <3>2
  <2>6. PartiGuncel'
    <3> SUFFICES ASSUME NEW p \in parti.gecerli, p \in Gozlemler(parti.konu),
                        TekKonu(parti.konu, Ogesi(parti.konu, p).iz)
                 PROVE  /\ parti'.adim \in {"dusman", "ozet", "karantina"} =>
                              Guncel(vt.nesne, vt'.konum, parti.konu, p)
                        /\ parti'.adim \in {"ozet", "karantina"} =>
                              Guncel(vt.nesne, vt'.dusman, parti.konu, p)
                        /\ parti'.adim = "karantina" => Guncel(vt.nesne, vt'.ozet, parti.konu, p)
      BY <1>1, <2>1, <2>3 DEF PartiGuncel
    <3>1. /\ Guncel(vt.nesne, Yazilmis(vt.konum), parti.konu, p)
          /\ Guncel(vt.nesne, Yazilmis(vt.dusman), parti.konu, p)
          /\ Guncel(vt.nesne, Yazilmis(vt.ozet), parti.konu, p)
      BY <2>1, YazilmisGuncel
    <3>2. /\ parti.adim \in {"dusman", "ozet", "karantina"} =>
                Guncel(vt.nesne, vt.konum, parti.konu, p)
          /\ parti.adim \in {"ozet", "karantina"} => Guncel(vt.nesne, vt.dusman, parti.konu, p)
      BY <1>0, <2>1 DEF PartiGuncel
    <3>3. parti'.adim = Sonraki(parti.adim)
      BY <1>1, <2>1
    <3>4. CASE parti.adim = "konum"
      <4>1. parti'.adim = "dusman"
        BY <3>3, <3>4 DEF Sonraki
      <4>2. QED
        BY <2>3, <3>1, <3>4, <4>1
    <3>5. CASE parti.adim = "dusman"
      <4>1. parti'.adim = "ozet"
        BY <3>3, <3>5 DEF Sonraki
      <4>2. QED
        BY <2>3, <3>1, <3>2, <3>5, <4>1
    <3>6. CASE parti.adim = "ozet"
      BY <2>3, <3>1, <3>2, <3>6
    <3>7. QED
      BY <2>1, <3>4, <3>5, <3>6
  <2>7. QED
    BY <2>4, <2>5, <2>6 DEF SonInv
<1>8. CASE IkiKezDokunur
  <2>1. /\ parti' = Yok /\ vt' = vt /\ islenen' = islenen /\ bellek' = bellek /\ sebep' = sebep
    BY <1>8 DEF IkiKezDokunur
  <2>2. sebep' = {} => SafInv'
    BY <1>0, <2>1, SafKalir
  <2>3. QED
    BY <1>0, <2>1, <2>2, SonDus
<1>9. CASE RaporYaz
  <2>1. /\ parti # Yok /\ parti.adim = "rapor" /\ Ilerle
        /\ islenen' = islenen /\ bellek' = bellek /\ sebep' = sebep
    BY <1>9 DEF RaporYaz, Adimda
  <2>2. /\ vt'.nesne = vt.nesne /\ vt'.konum = vt.konum /\ vt'.dusman = vt.dusman
        /\ vt'.ozet = vt.ozet /\ vt'.sensor = vt.sensor /\ vt'.karantina = vt.karantina
    BY <1>0, <1>9 DEF RaporYaz, Veritabani
  <2>3. \A p \in parti.gecerli : p \notin Gozlemler(parti.konu)
    <3>1. \A p \in parti.gecerli : Gozlenen(p) \in Rapor
      BY <1>0, <2>1 DEF TipInv, PartiTutarli
    <3>2. QED
      BY <3>1, OgeVarsayim DEF Gozlemler, Gozlenen
  <2>4. sebep' = {} => SafInv'
    BY <1>0, <1>1, <2>1, <2>2, SafKalir
  <2>5. QED
    BY <1>0, <1>1, <2>1, <2>2, <2>3, <2>4, SonSurer
<1>10. CASE KarantinaYaz
  <2> SUFFICES ASSUME sebep' = {} PROVE SonInv'
    BY DEF SonInv
  <2>1. /\ parti # Yok /\ parti.adim = "karantina" /\ parti' = Yok
        /\ bellek' = bellek /\ sebep = {} /\ parti \in Parti
        /\ islenen' = [islenen EXCEPT ![parti.konu] = parti.son]
        /\ vt' = [vt EXCEPT !.karantina = @ \cup parti.karantina]
    BY <1>0, <1>10 DEF KarantinaYaz, Adimda
  <2>2. /\ vt'.nesne = vt.nesne /\ vt'.konum = vt.konum /\ vt'.dusman = vt.dusman
        /\ vt'.ozet = vt.ozet /\ vt'.sensor = vt.sensor
        /\ vt'.karantina = vt.karantina \cup parti.karantina
    BY <1>0, <2>1 DEF Veritabani
  <2>3. SafInv' /\ GecerliTam' /\ PartiGuncel'
    <3>1. SafInv
      BY <1>0, <2>1
    <3>2. QED
      BY <2>1, <2>2, <3>1 DEF SafInv, GecerliTam, PartiGuncel
  <2>4. /\ islenen \in [Konu -> Nat] /\ parti.konu \in Konu /\ parti.son \in Nat
        /\ islenen[parti.konu] < parti.son
    BY <1>0, <2>1 DEF TipInv, TypeOK, PartiTutarli, Parti
  <2>5. TuketilenGuncel'
    <3> SUFFICES ASSUME NEW k \in Konu, NEW p \in Gozlemler(k), p \in Yerler(k, 0, islenen'[k]),
                        TekKonu(k, Ogesi(k, p).iz)
                 PROVE  /\ Guncel(vt.nesne, vt.konum, k, p)
                        /\ Guncel(vt.nesne, vt.dusman, k, p)
                        /\ Guncel(vt.nesne, vt.ozet, k, p)
      BY <2>2 DEF TuketilenGuncel
    <3>1. CASE p \in Yerler(k, 0, islenen[k])
      BY <1>0, <2>1, <3>1 DEF TuketilenGuncel
    <3>2. CASE k = parti.konu /\ p \in Yerler(k, islenen[k], parti.son)
      <4>1. p \in parti.gecerli
        BY <1>0, <2>1, <3>2 DEF GecerliTam
      <4>2. QED
        BY <1>0, <2>1, <3>2, <4>1 DEF PartiGuncel
    <3>3. k # parti.konu => islenen'[k] = islenen[k]
      BY <2>1, <2>4
    <3>4. k = parti.konu => p \in Yerler(k, 0, islenen[k]) \/ p \in Yerler(k, islenen[k], parti.son)
      <4>1. ASSUME k = parti.konu PROVE p \in Yerler(k, 0, parti.son)
        BY <2>1, <2>4, <4>1
      <4>2. QED
        BY <2>4, <4>1, YerBol
    <3>5. QED
      BY <3>1, <3>2, <3>3, <3>4
  <2>6. QED
    BY <2>3, <2>5 DEF SonInv
<1>11. CASE YabanciAnahtar
  <2>1. /\ parti # Yok /\ parti \in Parti /\ AnahtarTutmaz
        /\ vt' = vt /\ islenen' = islenen /\ sebep' = sebep
    BY <1>0, <1>11 DEF YabanciAnahtar, AnahtarTutmaz, Adimda, Yazimda
  <2>2. bellek'.sensor = bellek.sensor
    BY <1>0, <2>1 DEF AnahtarTutmaz, Onbellekle, BellekTip
  <2>3. parti' # Yok =>
            /\ parti'.konu = parti.konu /\ parti'.son = parti.son /\ parti'.gecerli = parti.gecerli
            /\ parti'.karantina = parti.karantina /\ parti'.adim = "tazele"
    BY <1>11, <2>1 DEF YabanciAnahtar, Parti
  <2>4. sebep' = {} => SafInv'
    BY <1>0, <2>1, <2>2, <2>3, SafKalir
  <2>5. CASE parti' = Yok
    BY <1>0, <2>1, <2>4, <2>5, SonDus
  <2>6. CASE parti' # Yok
    BY <1>0, <2>1, <2>3, <2>4, <2>6, SonSurer
  <2>7. QED
    BY <2>5, <2>6
<1>12. CASE Tazele
  <2>1. parti # Yok /\ parti \in Parti /\ bellek' = Isinmis(vt) /\ vt' = vt /\ islenen' = islenen
    BY <1>0, <1>12 DEF Tazele, Adimda
  <2>2. PICK g \in SUBSET parti.gecerli :
           /\ parti' = [parti EXCEPT !.gecerli = g, !.adim = "yarat", !.donen = {}, !.tekrar = TRUE]
           /\ sebep' = IF g = parti.gecerli THEN sebep ELSE sebep \cup {"eleme"}
    BY <1>12 DEF Tazele
  <2>3. /\ parti'.konu = parti.konu /\ parti'.son = parti.son /\ parti'.gecerli = g
        /\ parti'.karantina = parti.karantina /\ parti'.adim = "yarat"
    BY <2>1, <2>2 DEF Parti
  <2>4. sebep' = {} => sebep = {} /\ g = parti.gecerli
    BY <2>2
  <2>5. bellek'.sensor = vt.sensor
    BY <2>1 DEF Isinmis
  <2>6. sebep' = {} => SafInv'
    BY <1>0, <2>1, <2>3, <2>4, <2>5, SafKalir
  <2>7. QED
    BY <1>0, <2>1, <2>3, <2>4, <2>6, SonSurer
<1>13. ASSUME NEW d \in Iz \X No, IlkDurum(d) PROVE SonInv'
  <2>1. /\ parti # Yok /\ parti.adim = "ilk" /\ parti \in Parti /\ d \in parti.donen
        /\ Onbellekle(d) /\ islenen' = islenen /\ sebep' = sebep /\ d[2] \in No
    BY <1>0, <1>13 DEF IlkDurum, Adimda
  <2>2. PICK x : vt' = [vt EXCEPT !.dusman[d[2]] = Bossa(@, x), !.konum[d[2]] = Bossa(@, x)]
    BY <1>13 DEF IlkDurum
  <2>3. /\ vt'.nesne = vt.nesne /\ vt'.ozet = vt.ozet /\ vt'.sensor = vt.sensor
        /\ vt'.karantina = vt.karantina
        /\ vt'.konum = [vt.konum EXCEPT ![d[2]] = Bossa(vt.konum[d[2]], x)]
        /\ vt'.dusman = [vt.dusman EXCEPT ![d[2]] = Bossa(vt.dusman[d[2]], x)]
    BY <1>0, <2>2 DEF Veritabani
  <2>4. /\ parti'.konu = parti.konu /\ parti'.son = parti.son /\ parti'.gecerli = parti.gecerli
        /\ parti'.karantina = parti.karantina /\ parti'.adim \in {"ilk", "gecmis"}
    BY <1>13, <2>1 DEF IlkDurum, Parti, Sonraki
  <2>5. bellek'.sensor = bellek.sensor
    BY <1>0, <2>1 DEF Onbellekle, BellekTip
  <2> SUFFICES ASSUME sebep' = {} PROVE SonInv'
    BY DEF SonInv
  <2>6. SafInv' /\ GecerliTam'
    <3>1. SafInv'
      BY <1>0, <2>1, <2>3, <2>4, <2>5, SafKalir
    <3>2. GecerliTam'
      BY <1>0, <2>1, <2>4, GecerliKalir
    <3>3. QED
      BY <3>1, <3>2
  <2>7. PartiGuncel'
    BY <2>4 DEF PartiGuncel
  <2>8. TuketilenGuncel'
    BY <1>0, <2>1, <2>3, BossaKalir DEF TipInv
  <2>9. QED
    BY <2>6, <2>7, <2>8 DEF SonInv
<1>14. CASE VeriReddi
  <2>1. /\ parti' = Yok /\ vt' = vt /\ islenen' = islenen /\ bellek' = bellek /\ sebep' = sebep
    BY <1>14 DEF VeriReddi
  <2>2. sebep' = {} => SafInv'
    BY <1>0, <2>1, SafKalir
  <2>3. QED
    BY <1>0, <2>1, <2>2, SonDus
<1>15. ASSUME NEW d \in Iz \X No, IlkDurumReddi(d) PROVE SonInv'
  <2>1. /\ parti # Yok /\ d[2] \in No /\ Onbellekle(d) /\ parti' = Yok
        /\ islenen' = islenen /\ sebep' = YarimKalan(parti.donen \ {d})
    BY <1>15 DEF IlkDurumReddi, Adimda
  <2>2. PICK x : vt' = vt \/ vt' = [vt EXCEPT !.dusman[d[2]] = Bossa(@, x)]
    BY <1>15 DEF IlkDurumReddi, IlkDusman
  <2>3. /\ vt'.nesne = vt.nesne /\ vt'.ozet = vt.ozet /\ vt'.sensor = vt.sensor
        /\ vt'.karantina = vt.karantina /\ vt'.konum = vt.konum
        /\ vt'.dusman \in {vt.dusman, [vt.dusman EXCEPT ![d[2]] = Bossa(vt.dusman[d[2]], x)]}
    BY <1>0, <2>2 DEF Veritabani
  <2> SUFFICES ASSUME sebep' = {} PROVE SonInv'
    BY DEF SonInv
  <2>4. sebep = {}
    BY <2>1 DEF YarimKalan
  <2>5. bellek'.sensor = bellek.sensor
    BY <1>0, <2>1 DEF Onbellekle, BellekTip
  <2>6. SafInv'
    BY <1>0, <2>1, <2>3, <2>4, <2>5, SafKalir
  <2>7. TuketilenGuncel'
    BY <1>0, <2>1, <2>3, <2>4, BossaKalir DEF TipInv
  <2>8. GecerliTam' /\ PartiGuncel'
    BY <2>1 DEF GecerliTam, PartiGuncel
  <2>9. QED
    BY <2>6, <2>7, <2>8 DEF SonInv
<1>16. QED
  BY <1>2, <1>3, <1>4, <1>5, <1>6, <1>7, <1>8, <1>9, <1>10, <1>11, <1>12, <1>13, <1>14, <1>15
     DEF Tuket

LEMMA SonAdim == IngestInv /\ [Next]_vars => SonInv'
<1> SUFFICES ASSUME IngestInv, [Next]_vars PROVE SonInv'
  OBVIOUS
<1>0. /\ vt \in Veritabani /\ parti \in Parti \cup {Yok} /\ TipInv /\ SonInv
      /\ bellek \in BellekTip
      /\ sebep = {} => SafInv /\ GecerliTam /\ TuketilenGuncel /\ PartiGuncel
  BY DEF IngestInv, SonInv, TipInv, TypeOK, BellekTip
<1>1. CASE Tuket
  BY <1>1, SonTuket
<1>2. \A k : YarimKalan(k) = {} => sebep = {} /\ k = {}
  BY DEF YarimKalan
<1>3. ASSUME parti # Yok, YenidenDene
      PROVE  /\ parti'.konu = parti.konu /\ parti'.son = parti.son /\ parti'.gecerli = parti.gecerli
             /\ parti'.karantina = parti.karantina /\ parti'.adim = "yarat"
  BY <1>0, <1>3 DEF YenidenDene, Parti
<1>4. CASE SorguHata
  <2>1. /\ parti # Yok /\ DusVeyaDene
        /\ vt' = vt /\ islenen' = islenen /\ bellek' = bellek /\ sebep' = sebep
    BY <1>4 DEF SorguHata
  <2>2. parti' = Yok \/ YenidenDene
    BY <2>1 DEF DusVeyaDene
  <2>3. sebep' = {} => SafInv'
    BY <1>0, <1>3, <2>1, <2>2, SafKalir
  <2>4. CASE parti' = Yok
    BY <1>0, <2>1, <2>3, <2>4, SonDus
  <2>5. CASE YenidenDene
    BY <1>0, <1>3, <2>1, <2>3, <2>5, SonSurer
  <2>6. QED
    BY <2>2, <2>4, <2>5
<1>5. CASE YaratYanitsiz
  <2>1. PICK sira \in vt.sira .. MaxId + 1 : \E no \in Numaralar(sira) : NesneEkle(sira, no)
    BY <1>5 DEF YaratYanitsiz
  <2>2. PICK no \in Numaralar(sira) : NesneEkle(sira, no)
    BY <2>1
  <2>3. /\ Adimda("yarat") /\ parti' = Yok /\ islenen' = islenen /\ bellek' = bellek
        /\ sebep' = YarimKalan(Bilinmeyen \ Catisan)
    BY <1>5 DEF YaratYanitsiz
  <2>4. /\ vt'.sensor = vt.sensor /\ vt'.konum = vt.konum /\ vt'.dusman = vt.dusman
        /\ vt'.ozet = vt.ozet /\ vt'.karantina = vt.karantina
        /\ \A m \in No : \/ vt'.nesne[m] = vt.nesne[m]
                         \/ \E i \in Bilinmeyen \ Catisan : no[i] = m /\ vt'.nesne[m] = i
        /\ vt' \in Veritabani
    BY <1>0, <2>2, <2>3, Eklenen
  <2>5. sebep' = {} => sebep = {} /\ Bilinmeyen \ Catisan = {}
    BY <1>2, <2>3
  <2> SUFFICES ASSUME sebep' = {} PROVE SonInv'
    BY DEF SonInv
  <2>6. vt'.nesne = vt.nesne
    <3>1. \A m \in No : vt'.nesne[m] = vt.nesne[m]
      BY <2>4, <2>5
    <3>2. vt.nesne \in [No -> Iz \cup {Yok}] /\ vt'.nesne \in [No -> Iz \cup {Yok}]
      BY <1>0, <2>4 DEF Veritabani
    <3>3. QED
      BY <3>1, <3>2
  <2>7. SafInv'
    BY <1>0, <2>3, <2>4, <2>5, SafKalir
  <2>8. QED
    BY <1>0, <2>3, <2>4, <2>5, <2>6, <2>7, SonDus
<1>6. CASE TazeleHata
  <2>1. sebep' # {}
    BY <1>6 DEF TazeleHata
  <2>2. QED
    BY <2>1 DEF SonInv
<1>7. CASE Cok
  <2> SUFFICES ASSUME sebep' = {} PROVE SonInv'
    BY DEF SonInv
  <2>1. /\ parti' = Yok /\ islenen' = kayitli /\ bellek' = Isinmis(vt)
        /\ vt' = vt /\ sebep = {}
    BY <1>7 DEF Cok
  <2>2. SafInv'
    <3>1. bellek'.sensor = vt.sensor
      BY <2>1 DEF Isinmis
    <3>2. QED
      BY <1>0, <2>1, <3>1, SafKalir
  <2>3. GecerliTam' /\ PartiGuncel'
    BY <2>1 DEF GecerliTam, PartiGuncel
  <2>4. ASSUME NEW k \in Konu, NEW p \in Yerler(k, 0, kayitli[k])
        PROVE  p \in Yerler(k, 0, islenen[k])
    <3>1. kayitli[k] \in Nat /\ islenen[k] \in Nat /\ kayitli[k] <= islenen[k]
      BY <1>0 DEF TipInv, TypeOK
    <3>2. QED
      BY <2>4, <3>1, YerGenis
  <2>5. TuketilenGuncel'
    BY <1>0, <2>1, <2>4 DEF TuketilenGuncel
  <2>6. QED
    BY <2>2, <2>3, <2>5 DEF SonInv
<1>8. CASE YedektenDon
  <2>1. sebep' # {}
    BY <1>8 DEF YedektenDon
  <2>2. QED
    BY <2>1 DEF SonInv
<1>9. ASSUME NEW d \in Iz \X No, IlkDurumHata(d) PROVE SonInv'
  <2>1. /\ parti # Yok /\ parti.adim = "ilk" /\ d[2] \in No /\ Onbellekle(d)
        /\ DusVeyaDene /\ islenen' = islenen /\ sebep' = YarimKalan(parti.donen \ {d})
    BY <1>9 DEF IlkDurumHata, Adimda
  <2>2. PICK x : vt' = vt \/ vt' = [vt EXCEPT !.dusman[d[2]] = Bossa(@, x)]
    BY <1>9 DEF IlkDurumHata, IlkDusman
  <2>3. /\ vt'.nesne = vt.nesne /\ vt'.ozet = vt.ozet /\ vt'.sensor = vt.sensor
        /\ vt'.karantina = vt.karantina /\ vt'.konum = vt.konum
        /\ vt'.dusman \in {vt.dusman, [vt.dusman EXCEPT ![d[2]] = Bossa(vt.dusman[d[2]], x)]}
    BY <1>0, <2>2 DEF Veritabani
  <2>4. parti' = Yok \/ YenidenDene
    BY <2>1 DEF DusVeyaDene
  <2> SUFFICES ASSUME sebep' = {} PROVE SonInv'
    BY DEF SonInv
  <2>5. sebep = {}
    BY <1>2, <2>1
  <2>6. bellek'.sensor = bellek.sensor
    BY <1>0, <2>1 DEF Onbellekle, BellekTip
  <2>7. SafInv'
    BY <1>0, <1>3, <2>1, <2>3, <2>4, <2>5, <2>6, SafKalir
  <2>8. TuketilenGuncel'
    BY <1>0, <2>1, <2>3, <2>5, BossaKalir DEF TipInv
  <2>9. GecerliTam' /\ PartiGuncel'
    <3>1. CASE parti' = Yok
      BY <3>1 DEF GecerliTam, PartiGuncel
    <3>2. CASE YenidenDene
      <4>1. PartiGuncel'
        BY <1>3, <2>1, <3>2 DEF PartiGuncel
      <4>2. GecerliTam'
        BY <1>0, <1>3, <2>1, <2>5, <3>2, GecerliKalir
      <4>3. QED
        BY <4>1, <4>2
    <3>3. QED
      BY <2>4, <3>1, <3>2
  <2>10. QED
    BY <2>7, <2>8, <2>9 DEF SonInv
<1>10. ASSUME NEW k \in Konu, OffsetKaydet(k) PROVE SonInv'
  BY <1>0, <1>10, SonAyni DEF OffsetKaydet
<1>11. CASE UNCHANGED vars
  BY <1>0, <1>11, SonAyni DEF vars
<1>12. QED
  BY <1>1, <1>4, <1>5, <1>6, <1>7, <1>8, <1>9, <1>10, <1>11 DEF Next

LEMMA IngestHep == Spec => []IngestInv
<1>1. Init => IngestInv
  BY TipInit, KimlikInit, KayipInit, SonInit DEF IngestInv
<1>2. IngestInv /\ [Next]_vars => IngestInv'
  BY TipAdim, KimlikAdim, KayipAdim, SonAdim DEF IngestInv
<1>3. QED
  BY <1>1, <1>2, PTL DEF Spec

\* Redelivery repairs what a failure between two queries left behind: when a
\* partition is consumed, the three tables hold the last observation of every
\* track that reports in that partition only, whatever queries failed and
\* however often the messages came, unless one of the four causes happened.
THEOREM LastStateRepaired == Spec => []SonDurumDogru
<1>1. ASSUME IngestInv PROVE SonDurumDogru
  <2> SUFFICES ASSUME sebep = {}, parti = Yok, NEW k \in Konu, islenen[k] = Len(Kayit[k]),
                      NEW p \in Gozlemler(k),
                      \A q \in Gozlemler(k) : Once(p, q) => Ogesi(k, q).iz # Ogesi(k, p).iz,
                      TekKonu(k, Ogesi(k, p).iz)
               PROVE  \E n \in No : /\ vt.nesne[n] = Ogesi(k, p).iz
                                    /\ vt.konum[n] = Ogesi(k, p)
                                    /\ vt.dusman[n] = Ogesi(k, p)
                                    /\ vt.ozet[n] = Ogesi(k, p)
    BY DEF SonDurumDogru, TekKonu
  <2>1. p \in Yerler(k, 0, islenen[k])
    BY DEF Gozlemler
  <2>2. PICK n \in No : vt.nesne[n] = Ogesi(k, p).iz
    BY <1>1, <2>1, TanidikIz
  <2>3. /\ Guncel(vt.nesne, vt.konum, k, p) /\ Guncel(vt.nesne, vt.dusman, k, p)
        /\ Guncel(vt.nesne, vt.ozet, k, p)
    BY <1>1, <2>1 DEF IngestInv, SonInv, TuketilenGuncel
  <2>4. ASSUME NEW q \in Gozlemler(k), Ogesi(k, q).iz = Ogesi(k, p).iz, ~Once(q, p)
        PROVE  q = p
    <3>1. /\ Len(Kayit[k]) \in Nat
          /\ p \in Yerler(k, 0, Len(Kayit[k])) /\ q \in Yerler(k, 0, Len(Kayit[k]))
      BY KayitTip DEF Gozlemler
    <3>2. p \in Nat \X Nat /\ q \in Nat \X Nat
      BY <3>1, YerTip
    <3>3. p[1] = q[1] /\ p[2] = q[2]
      BY <2>4, <3>2 DEF Once
    <3>4. QED
      BY <3>2, <3>3
  <2>5. vt.konum[n] = Ogesi(k, p) /\ vt.dusman[n] = Ogesi(k, p) /\ vt.ozet[n] = Ogesi(k, p)
    BY <2>2, <2>3, <2>4 DEF Guncel
  <2>6. QED
    BY <2>2, <2>5
<1>2. QED
  BY <1>1, IngestHep, PTL

=============================================================================
