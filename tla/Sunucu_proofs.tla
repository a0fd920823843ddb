---------------------------- MODULE Sunucu_proofs ----------------------------
(***************************************************************************)
(* Proofs about five services of the server that share no state: AuditLog, *)
(* Alerts, TtlMemo, ThreatEnricher and CourseOfAction.                     *)
(***************************************************************************)
EXTENDS Alerts, TtlMemo, ThreatEnricher, AuditLog, CourseOfAction, FiniteSetTheorems, TLAPS

-----------------------------------------------------------------------------
(***************************************************************************)
(* AuditLog.                                                               *)
(***************************************************************************)
\* While nothing has happened that may cost records, the object is the records
\* 1 .. n, these are done, and at most record n + 1 is on its way; what its append
\* has downloaded is the object.
DefterInv ==
    /\ DefterTypeOK
    /\ sebep = {} => \E n \in 0 .. MaxKayit :
          /\ nesne = [i \in 1 .. n |-> i]
          /\ \A k \in DefterKaydi : k <= n <=> defterAsama[k] = "bitti"
          /\ \A k \in DefterKaydi : k > n + 1 => defterAsama[k] = "yok"
          /\ \A k \in DefterKaydi : defterAsama[k] = "kaydediliyor" => okunan[k] = nesne

LEMMA DefterTip == DefterTypeOK /\ [DefterNext]_defterVars => DefterTypeOK'
<1> SUFFICES ASSUME DefterTypeOK, [DefterNext]_defterVars PROVE DefterTypeOK'
  OBVIOUS
<1> USE DEF DefterTypeOK, DefterAsama, Sebep, AsamaYaz
<1>1. ASSUME NEW k \in DefterKaydi, Yaz(k) PROVE DefterTypeOK'
  BY <1>1 DEF Yaz
<1>2. ASSUME NEW k \in DefterKaydi, Indir(k) PROVE DefterTypeOK'
  BY <1>2 DEF Indir
<1>3. ASSUME NEW k \in DefterKaydi, IndirHata(k) PROVE DefterTypeOK'
  BY <1>3 DEF IndirHata
<1>4. ASSUME NEW k \in DefterKaydi, Kaydet(k) PROVE DefterTypeOK'
  <2>1. okunan[k] \in Seq(DefterKaydi)
    OBVIOUS
  <2>2. nesne' \in Seq(DefterKaydi)
    BY <1>4, <2>1 DEF Kaydet
  <2> QED BY <1>4, <2>2 DEF Kaydet
<1>5. ASSUME NEW k \in DefterKaydi, KaydetHata(k) PROVE DefterTypeOK'
  BY <1>5 DEF KaydetHata
<1>6. CASE Dur
  BY <1>6 DEF Dur
<1>7. CASE UNCHANGED defterVars
  BY <1>7 DEF defterVars
<1> QED BY <1>1, <1>2, <1>3, <1>4, <1>5, <1>6, <1>7 DEF DefterNext

LEMMA DefterAdim == DefterInv /\ [DefterNext]_defterVars => DefterInv'
<1> SUFFICES ASSUME DefterInv, [DefterNext]_defterVars, sebep' = {}
             PROVE  DefterInv'
  BY DefterTip DEF DefterInv
<1>t. DefterTypeOK' /\ DefterTypeOK
  BY DefterTip DEF DefterInv
<1>s. sebep = {}
  BY DEF DefterNext, Yaz, Indir, IndirHata, Kaydet, KaydetHata, Dur, defterVars
<1>n. PICK n \in 0 .. MaxKayit :
          /\ nesne = [i \in 1 .. n |-> i]
          /\ \A k \in DefterKaydi : k <= n <=> defterAsama[k] = "bitti"
          /\ \A k \in DefterKaydi : k > n + 1 => defterAsama[k] = "yok"
          /\ \A k \in DefterKaydi : defterAsama[k] = "kaydediliyor" => okunan[k] = nesne
  BY <1>s DEF DefterInv
<1> USE MaxVarsayim DEF DefterKaydi, AsamaYaz
<1>1. ASSUME NEW k \in DefterKaydi, Yaz(k) PROVE DefterInv'
  <2>1. Ucan = {} /\ defterAsama' = [defterAsama EXCEPT ![k] = "indiriliyor"]
    BY <1>1 DEF Yaz
  <2>2. \A j \in DefterKaydi : defterAsama[j] \in {"yok", "bitti"}
    BY <1>t, <2>1 DEF Ucan, DefterTypeOK, DefterAsama
  <2>3. \A j \in DefterKaydi : j < k => defterAsama[j] = "bitti"
    BY <1>1, <2>2 DEF Yaz
  <2>4. k <= n + 1 /\ k > n
    BY <2>3, <1>1, <1>n DEF Yaz
  <2>5. /\ \A j \in DefterKaydi : j <= n <=> defterAsama'[j] = "bitti"
        /\ \A j \in DefterKaydi : j > n + 1 => defterAsama'[j] = "yok"
        /\ \A j \in DefterKaydi : defterAsama'[j] # "kaydediliyor"
    BY <1>t, <1>n, <2>1, <2>2, <2>4 DEF DefterTypeOK
  <2> QED BY <1>1, <1>t, <1>n, <2>5 DEF Yaz, DefterInv
<1>2. ASSUME NEW k \in DefterKaydi, Indir(k) PROVE DefterInv'
  BY <1>2, <1>t, <1>n DEF Indir, DefterInv, DefterTypeOK
<1>3. ASSUME NEW k \in DefterKaydi, Kaydet(k) PROVE DefterInv'
  <2>1. k = n + 1 /\ okunan[k] = nesne
    BY <1>3, <1>n DEF Kaydet
  <2>2. nesne' = [i \in 1 .. n + 1 |-> i]
    <3>1. nesne' = Append(nesne, k) /\ nesne \in Seq(DefterKaydi) /\ Len(nesne) = n
      BY <1>3, <1>t, <1>n, <2>1 DEF Kaydet, DefterTypeOK
    <3>2. DOMAIN nesne' = 1 .. n + 1 /\ \A i \in 1 .. n + 1 : nesne'[i] = IF i <= n THEN nesne[i] ELSE k
      BY <3>1, <2>1
    <3>3. nesne' \in Seq(DefterKaydi)
      BY <1>t DEF DefterTypeOK
    <3> QED BY <3>2, <3>3, <2>1, <1>n
  <2>3. n + 1 \in 0 .. MaxKayit
    BY <2>1
  <2>4. \A j \in DefterKaydi : j <= n + 1 <=> defterAsama'[j] = "bitti"
    BY <1>3, <1>t, <1>n, <2>1 DEF Kaydet, DefterTypeOK
  <2>5. \A j \in DefterKaydi : j # k => defterAsama'[j] # "kaydediliyor" 
    BY <1>3, <1>t, <1>n, <2>1 DEF Kaydet, DefterTypeOK
  <2>6. \A j \in DefterKaydi : j > n + 2 => defterAsama'[j] = "yok"
    BY <1>3, <1>t, <1>n, <2>1 DEF Kaydet, DefterTypeOK
  <2> QED BY <1>3, <1>t, <2>2, <2>3, <2>4, <2>5, <2>6 DEF Kaydet, DefterInv, DefterTypeOK
<1>4. CASE UNCHANGED defterVars
  BY <1>4, <1>t, <1>n DEF defterVars, DefterInv
<1>5. ASSUME NEW k \in DefterKaydi, IndirHata(k) \/ KaydetHata(k) PROVE FALSE
  BY <1>5 DEF IndirHata, KaydetHata
<1>6. ~Dur
  BY DEF Dur
<1> QED BY <1>1, <1>2, <1>3, <1>4, <1>5, <1>6 DEF DefterNext

\* The log in the bucket: as long as appends do not overlap and none fails or is cut
\* off by a stop, it is exactly the records written, in order (ontology-audit.ts).
THEOREM AuditLossOnlyByCause == DefterSpec => []DefterKayipSebepli
<1>1. DefterInit => DefterInv
  <2> SUFFICES ASSUME DefterInit PROVE DefterInv
    OBVIOUS
  <2>1. DefterTypeOK
    BY DEF DefterInit, DefterTypeOK, DefterAsama
  <2>2. nesne = [i \in 1 .. 0 |-> i]
    BY DEF DefterInit
  <2> QED BY <2>1, <2>2, MaxVarsayim DEF DefterInit, DefterInv, DefterKaydi
<1>2. DefterInv => DefterKayipSebepli
  BY DEF DefterInv, DefterKayipSebepli
<1> QED BY <1>1, <1>2, DefterAdim, PTL DEF DefterSpec

-----------------------------------------------------------------------------
(***************************************************************************)
(* TtlMemo.                                                                *)
(***************************************************************************)
MemoTip ==
    /\ memoZaman \in Nat
    /\ memoKaydi \in [yuk : Yuk, at : Nat] \cup {Hicbiri}
    /\ yukler \in [Yuk -> YukKaydi \cup {Hicbiri}]
    /\ cagri \in [Uc -> [soruldu : Nat, yuk : Yuk] \cup {Hicbiri}]
    /\ cevap \in [Uc -> [soruldu : Nat, okundu : Nat] \cup {Hicbiri}]

\* A run reads after it began, and has read when it is fulfilled.
YukSirali ==
    \A y \in Yuk : yukler[y] # Hicbiri =>
        /\ yukler[y].at <= memoZaman
        /\ yukler[y].okundu # Hicbiri => yukler[y].okundu >= yukler[y].at
        /\ yukler[y].durum = "bitti" => yukler[y].okundu # Hicbiri

\* The entry is dated by the run it names, whatever became of that run meanwhile.
KayitDogru ==
    memoKaydi # Hicbiri =>
        yukler[memoKaydi.yuk] # Hicbiri /\ memoKaydi.at = yukler[memoKaydi.yuk].at

\* Who waits for a run asked for it while it was young.
CagriGenc ==
    \A u \in Uc : cagri[u] # Hicbiri =>
        yukler[cagri[u].yuk] # Hicbiri /\ cagri[u].soruldu < yukler[cagri[u].yuk].at + Ttl

\* Runs are numbered in the order they began, so that none is written over.
YukSayili == \E n \in Nat : {y \in Yuk : yukler[y] # Hicbiri} = 1 .. n

MemoInv == MemoTip /\ YukSirali /\ KayitDogru /\ CagriGenc /\ YukSayili /\ MemoTaze

LEMMA MemoAdim == MemoInv /\ [MemoNext]_memoVars => MemoInv'
<1> SUFFICES ASSUME MemoInv, [MemoNext]_memoVars PROVE MemoInv'
  OBVIOUS
<1> USE TtlVarsayim, HicbiriVarsayim DEF MemoInv, MemoTip
<1>1. ASSUME NEW u \in Uc, GetBulur(u) PROVE MemoInv'
  <2> DEFINE k == memoKaydi
             y == memoKaydi.yuk
  <2>1. /\ k \in [yuk : Yuk, at : Nat] /\ memoZaman - k.at < Ttl
        /\ yukler[y] \in YukKaydi /\ k.at = yukler[y].at /\ y \in Yuk
    BY <1>1 DEF GetBulur, Taze, KayitDogru
  <2>2. CASE yukler[y].durum = "bitti"
    <3>1. yukler[y].okundu \in Nat /\ yukler[y].okundu >= k.at
      BY <2>1, <2>2 DEF YukSirali, YukKaydi
    <3>2. yukler[y].okundu + Ttl > memoZaman
      BY <2>1, <3>1
    <3>3. /\ cevap' = [cevap EXCEPT ![u] = [soruldu |-> memoZaman, okundu |-> yukler[y].okundu]]
          /\ UNCHANGED <<memoZaman, memoKaydi, yukler, cagri>>
      BY <1>1, <2>2 DEF GetBulur
    <3>4. MemoTaze'
      BY <3>2, <3>3 DEF MemoTaze
    <3> QED BY <3>1, <3>3, <3>4 DEF YukSirali, KayitDogru, CagriGenc, YukSayili
  <2>3. CASE yukler[y].durum # "bitti"
    <3>1. /\ cagri' = [cagri EXCEPT ![u] = [soruldu |-> memoZaman, yuk |-> y]]
          /\ UNCHANGED <<memoZaman, memoKaydi, yukler, cevap>>
      BY <1>1, <2>3 DEF GetBulur
    <3>2. memoZaman < yukler[y].at + Ttl
      BY <2>1
    <3>3. CagriGenc'
      BY <2>1, <3>1, <3>2, HicbiriVarsayim DEF CagriGenc
    <3> QED BY <2>1, <3>1, <3>3 DEF YukSirali, KayitDogru, YukSayili, MemoTaze
  <2> QED BY <2>2, <2>3
<1>2. ASSUME NEW u \in Uc, GetYukler(u) PROVE MemoInv'
  <2>1. PICK n \in Nat : {z \in Yuk : yukler[z] # Hicbiri} = 1 .. n
    BY DEF YukSayili
  <2>2. Cardinality(1 .. n) = n
    BY <2>1, FS_Interval
  <2>3. PICK y \in Yuk :
           /\ y = n + 1
           /\ yukler' = [yukler EXCEPT ![y] = YeniYuk]
           /\ memoKaydi' = [yuk |-> y, at |-> memoZaman]
           /\ cagri' = [cagri EXCEPT ![u] = [soruldu |-> memoZaman, yuk |-> y]]
           /\ UNCHANGED <<memoZaman, cevap>>
    BY <1>2, <2>1, <2>2 DEF GetYukler
  <2>4. YeniYuk \in YukKaydi /\ YeniYuk.at = memoZaman /\ YeniYuk.okundu = Hicbiri /\ YeniYuk.durum = "ucuyor"
    BY DEF YeniYuk, YukKaydi
  <2>5. yukler[y] = Hicbiri
    BY <2>1, <2>3
  <2>6. MemoTip'
    BY <2>3, <2>4
  <2>7. YukSirali' /\ KayitDogru'
    BY <2>3, <2>4 DEF YukSirali, KayitDogru
  <2>8. CagriGenc'
    BY <2>3, <2>4, <2>5 DEF CagriGenc
  <2>9. YukSayili'
    <3>1. {z \in Yuk : yukler'[z] # Hicbiri} = {z \in Yuk : yukler[z] # Hicbiri} \cup {y}
      BY <2>3, <2>4
    <3>2. 1 .. n + 1 = (1 .. n) \cup {n + 1}
      BY <2>1
    <3> QED BY <2>1, <2>3, <3>1, <3>2 DEF YukSayili
  <2> QED BY <2>3, <2>6, <2>7, <2>8, <2>9 DEF MemoTaze
<1>3. ASSUME NEW y \in Yuk, YukOkur(y) PROVE MemoInv'
  <2>1. /\ yukler[y] \in YukKaydi /\ yukler[y].durum = "ucuyor"
        /\ yukler' = [yukler EXCEPT ![y].okundu = memoZaman]
        /\ UNCHANGED <<memoZaman, memoKaydi, cagri, cevap>>
    BY <1>3 DEF YukOkur
  <2>2. /\ yukler'[y] \in YukKaydi /\ yukler'[y].at = yukler[y].at
        /\ yukler'[y].okundu = memoZaman /\ yukler'[y].durum = "ucuyor"
        /\ \A z \in Yuk : z # y => yukler'[z] = yukler[z]
    BY <2>1 DEF YukKaydi
  <2>3. MemoTip'
    BY <2>1, <2>2
  <2>4. YukSirali'
    BY <2>1, <2>2 DEF YukSirali
  <2>5. \A z \in Yuk : yukler'[z] # Hicbiri <=> yukler[z] # Hicbiri
    BY <2>1, <2>2
  <2> QED BY <2>1, <2>2, <2>3, <2>4, <2>5 DEF KayitDogru, CagriGenc, YukSayili, MemoTaze
<1>4. ASSUME NEW y \in Yuk, YukBiter(y) PROVE MemoInv'
  <2> DEFINE r == yukler[y]
  <2>1. /\ r \in YukKaydi /\ r.okundu \in Nat /\ r.okundu # Hicbiri /\ r.okundu >= r.at
        /\ yukler' = [yukler EXCEPT ![y].durum = "bitti"]
        /\ UNCHANGED memoZaman
    BY <1>4 DEF YukBiter, YukSirali, YukKaydi
  <2>2. /\ yukler'[y] \in YukKaydi /\ yukler'[y].at = r.at
        /\ yukler'[y].okundu = r.okundu /\ yukler'[y].durum = "bitti"
        /\ \A z \in Yuk : z # y => yukler'[z] = yukler[z]
    BY <2>1 DEF YukKaydi
  <2>3. memoKaydi' = memoKaydi
    BY <1>4, <2>1 DEF YukBiter, Tut, KayitDogru
  <2>4. /\ cagri' \in [Uc -> [soruldu : Nat, yuk : Yuk] \cup {Hicbiri}]
        /\ \A u \in Uc : cagri'[u] = Hicbiri \/ cagri'[u] = cagri[u]
    BY <1>4 DEF YukBiter
  <2>5. /\ cevap' \in [Uc -> [soruldu : Nat, okundu : Nat] \cup {Hicbiri}]
        /\ \A u \in Uc : \/ cevap'[u] = cevap[u]
                          \/ /\ cagri[u] # Hicbiri /\ cagri[u].yuk = y
                             /\ cevap'[u] = [soruldu |-> cagri[u].soruldu, okundu |-> r.okundu]
    BY <1>4, <2>1 DEF YukBiter
  <2>6. MemoTaze'
    <3> SUFFICES ASSUME NEW u \in Uc, cevap'[u] # Hicbiri
                 PROVE  cevap'[u].okundu + Ttl > cevap'[u].soruldu
      BY DEF MemoTaze
    <3>1. CASE cevap'[u] = cevap[u]
      BY <3>1 DEF MemoTaze
    <3>2. CASE /\ cagri[u] # Hicbiri /\ cagri[u].yuk = y
               /\ cevap'[u] = [soruldu |-> cagri[u].soruldu, okundu |-> r.okundu]
      <4>1. cagri[u].soruldu \in Nat /\ cagri[u].soruldu < r.at + Ttl /\ r.at \in Nat
        BY <2>1, <3>2 DEF CagriGenc, YukKaydi
      <4> QED BY <2>1, <3>2, <4>1
    <3> QED BY <2>5, <3>1, <3>2
  <2>7. \A z \in Yuk : yukler'[z] # Hicbiri <=> yukler[z] # Hicbiri
    BY <2>1, <2>2
  <2>8. MemoTip'
    BY <2>1, <2>2, <2>3, <2>4, <2>5
  <2>9. YukSirali'
    <3>1. r.at <= memoZaman /\ memoZaman' = memoZaman
      BY <2>1 DEF YukSirali, YukKaydi
    <3> SUFFICES ASSUME NEW z \in Yuk, yukler'[z] # Hicbiri
                 PROVE  /\ yukler'[z].at <= memoZaman'
                        /\ yukler'[z].okundu # Hicbiri => yukler'[z].okundu >= yukler'[z].at
                        /\ yukler'[z].durum = "bitti" => yukler'[z].okundu # Hicbiri
      BY DEF YukSirali
    <3>2. CASE z = y
      BY <2>1, <2>2, <3>1, <3>2 DEF YukKaydi
    <3>3. CASE z # y
      BY <2>2, <3>1, <3>3 DEF YukSirali
    <3> QED BY <3>2, <3>3
  <2>10. KayitDogru' /\ CagriGenc'
    BY <2>1, <2>2, <2>3, <2>4, <2>7 DEF KayitDogru, CagriGenc
  <2> QED BY <2>6, <2>7, <2>8, <2>9, <2>10 DEF YukSayili
<1>5. ASSUME NEW y \in Yuk, YukDuser(y) PROVE MemoInv'
  <2>1. /\ yukler[y] \in YukKaydi /\ yukler[y].durum = "ucuyor"
        /\ yukler' = [yukler EXCEPT ![y].durum = "dustu"]
        /\ UNCHANGED <<memoZaman, cevap>>
        /\ memoKaydi' \in {memoKaydi, Hicbiri}
    BY <1>5 DEF YukDuser, Unut
  <2>2. /\ yukler'[y] \in YukKaydi /\ yukler'[y].at = yukler[y].at
        /\ yukler'[y].okundu = yukler[y].okundu /\ yukler'[y].durum = "dustu"
        /\ \A z \in Yuk : z # y => yukler'[z] = yukler[z]
    BY <2>1 DEF YukKaydi
  <2>3. /\ cagri' \in [Uc -> [soruldu : Nat, yuk : Yuk] \cup {Hicbiri}]
        /\ \A u \in Uc : cagri'[u] = Hicbiri \/ cagri'[u] = cagri[u]
    BY <1>5 DEF YukDuser
  <2>4. \A z \in Yuk : yukler'[z] # Hicbiri <=> yukler[z] # Hicbiri
    BY <2>1, <2>2
  <2>5. MemoTip'
    BY <2>1, <2>2, <2>3
  <2>6. YukSirali'
    BY <2>1, <2>2 DEF YukSirali
  <2>7. KayitDogru' /\ CagriGenc'
    BY <2>1, <2>2, <2>3, <2>4 DEF KayitDogru, CagriGenc
  <2> QED BY <2>1, <2>4, <2>5, <2>6, <2>7 DEF YukSayili, MemoTaze
<1>6. CASE ZamanGecer
  <2>1. memoZaman' = memoZaman + 1 /\ UNCHANGED <<memoKaydi, yukler, cagri, cevap>>
    BY <1>6 DEF ZamanGecer
  <2>2. YukSirali'
    BY <2>1 DEF YukSirali, YukKaydi
  <2> QED BY <2>1, <2>2 DEF KayitDogru, CagriGenc, YukSayili, MemoTaze
<1>7. CASE UNCHANGED memoVars
  BY <1>7 DEF memoVars, YukSirali, KayitDogru, CagriGenc, YukSayili, MemoTaze
<1> QED BY <1>1, <1>2, <1>3, <1>4, <1>5, <1>6, <1>7 DEF MemoNext

\* Every answer of the memo is of rows read less than the time to live before they
\* were asked for, for any number of endpoints and loaders of any duration (TtlMemo).
THEOREM MemoFresh == MemoSpec => []MemoTaze
<1>1. MemoInit => MemoInv
  <2> SUFFICES ASSUME MemoInit PROVE MemoInv
    OBVIOUS
  <2>1. {y \in Yuk : yukler[y] # Hicbiri} = 1 .. 0
    BY DEF MemoInit
  <2>2. YukSayili
    BY <2>1 DEF YukSayili
  <2> QED BY <2>2 DEF MemoInit, MemoInv, MemoTip, YukSirali, KayitDogru, CagriGenc, MemoTaze
<1>2. MemoInv => MemoTaze
  BY DEF MemoInv
<1> QED BY <1>1, <1>2, MemoAdim, PTL DEF MemoSpec

-----------------------------------------------------------------------------
(***************************************************************************)
(* ThreatEnricher.                                                         *)
(***************************************************************************)
EnrTip ==
    /\ an \in Nat /\ durum \in [Iz -> Nat] /\ aktif \subseteq Iz
    /\ tehdit \in [Iz -> TehditSatiri \cup {Yoktur}]
    /\ dongu # Yoktur =>
          DOMAIN dongu.izler \subseteq Iz /\ \A i \in DOMAIN dongu.izler : dongu.izler[i] \in Nat
    /\ DOMAIN sonYazim.izler \subseteq Iz /\ sonYazim.an \in Nat
    /\ sonBudama \in Nat /\ sonBudama <= an

\* What the last round wrote is there and no older than that round, or the tolerance
\* has passed since.
YazilanDurur ==
    \A i \in DOMAIN sonYazim.izler :
        \/ tehdit[i] # Yoktur /\ tehdit[i].scored_at >= sonYazim.an
        \/ sonYazim.an + Tolerans < an

BudananYok ==
    \A i \in Iz : tehdit[i] # Yoktur => tehdit[i].scored_at + Tolerans >= sonBudama

EnrInv == EnrTip /\ YazilanDurur /\ BudananYok

LEMMA EnrAdim == EnrInv /\ [EnrNext]_enrVars => EnrInv'
<1> SUFFICES ASSUME EnrInv, [EnrNext]_enrVars PROVE EnrInv'
  OBVIOUS
<1> USE ToleransVarsayim, YokturVarsayim DEF EnrInv, EnrTip
<1>1. CASE Okur
  BY <1>1 DEF Okur, YazilanDurur, BudananYok
<1>2. CASE Budar
  <2>1. /\ tehdit' = [i \in Iz |-> IF Eskimis(i) THEN Yoktur ELSE tehdit[i]]
        /\ sonBudama' = an /\ UNCHANGED <<an, durum, aktif, sonYazim>>
        /\ dongu # Yoktur
    BY <1>2 DEF Budar, Budanan
  <2>2. dongu' = Yoktur \/ dongu'.izler = dongu.izler
    BY <1>2 DEF Budar
  <2>3. EnrTip'
    BY <2>1, <2>2
  <2>4. YazilanDurur'
    BY <2>1 DEF YazilanDurur, Eskimis, TehditSatiri
  <2>5. BudananYok'
    BY <2>1 DEF Eskimis, BudananYok, TehditSatiri
  <2> QED BY <2>3, <2>4, <2>5
<1>3. CASE Yazar
  <2>1. /\ tehdit' = [i \in Iz |-> IF i \in DOMAIN dongu.izler THEN Satir(i) ELSE tehdit[i]]
        /\ dongu # Yoktur /\ dongu' = Yoktur
        /\ sonYazim'.an = an /\ sonYazim'.izler = dongu.izler
        /\ UNCHANGED <<an, durum, aktif, sonBudama>>
    BY <1>3 DEF Yazar
  <2>2. \A i \in DOMAIN dongu.izler : /\ Satir(i) \in TehditSatiri /\ Satir(i) # Yoktur
                                       /\ Satir(i).scored_at = an
    BY <2>1 DEF Satir, TehditSatiri
  <2>3. EnrTip'
    BY <2>1, <2>2
  <2>4. YazilanDurur'
    BY <2>1, <2>2 DEF YazilanDurur
  <2>5. BudananYok'
    BY <2>1, <2>2 DEF BudananYok, TehditSatiri
  <2> QED BY <2>3, <2>4, <2>5
<1>4. CASE DonguDuser
  BY <1>4 DEF DonguDuser, YazilanDurur, BudananYok
<1>5. CASE IzDegisir
  <2>1. durum' \in [Iz -> Nat] /\ aktif' \subseteq Iz
    BY <1>5 DEF IzDegisir
  <2> QED BY <1>5, <2>1 DEF IzDegisir, YazilanDurur, BudananYok
<1>6. CASE AnIlerler
  <2>1. an' = an + 1 /\ UNCHANGED <<durum, aktif, tehdit, dongu, sonYazim, sonBudama>>
    BY <1>6 DEF AnIlerler
  <2>2. YazilanDurur'
    BY <2>1 DEF YazilanDurur
  <2> QED BY <2>1, <2>2 DEF BudananYok
<1>7. CASE UNCHANGED enrVars
  BY <1>7 DEF enrVars, YazilanDurur, BudananYok
<1> QED BY <1>1, <1>2, <1>3, <1>4, <1>5, <1>6, <1>7 DEF EnrNext

\* The threat table is the live picture (see ResimCanli): what the last completed round
\* scored stays for as long as the tolerance, what was too old at the last pruning is
\* gone, whichever queries failed.
THEOREM ThreatPictureLive == EnrSpec => []ResimCanli
<1>1. EnrInit => EnrInv
  BY ToleransVarsayim DEF EnrInit, EnrInv, EnrTip, YazilanDurur, BudananYok
<1>2. EnrInv => ResimCanli
  BY ToleransVarsayim DEF EnrInv, EnrTip, YazilanDurur, BudananYok, ResimCanli
<1> QED BY <1>1, <1>2, EnrAdim, PTL DEF EnrSpec

-----------------------------------------------------------------------------
(***************************************************************************)
(* Alerts.                                                                 *)
(***************************************************************************)
SorguTip == [id : KuralId \cup {Hic}, simdi : Nat]

TurTip(t) == \E S \in SUBSET KuralId : t \in [kalan : [S -> Kural], sorgu : SorguTip]

AlarmTip ==
    /\ kurallar \in [KuralId -> Kural \cup {Hic}]
    /\ lastFired \in [KuralId -> Nat \cup {Hic}]
    /\ events \in Seq(Olay)
    /\ alarmSaat \in Nat
    /\ tur = [c \in Cagri |-> tur[c]]
    /\ \A c \in Cagri : tur[c] # Hic => TurTip(tur[c])

\* The flag is the lock of the rounds.
TekTur ==
    \A c \in Cagri : tur[c] # Hic =>
        evaluating = TRUE /\ \A d \in Cagri : tur[d] # Hic => d = c

\* The rule asked about is still the round's, and had cooled down at the time read
\* before the query, as far as anything that happened since can tell.
SorulanSogudu ==
    \A c \in Cagri : tur[c] # Hic /\ tur[c].sorgu # SorguYok =>
        /\ tur[c].sorgu.id \in DOMAIN tur[c].kalan
        /\ Sogudu(tur[c].kalan[tur[c].sorgu.id], lastFired[tur[c].sorgu.id],
                  tur[c].sorgu.simdi)

AlarmInv == AlarmTip /\ TekTur /\ SorulanSogudu /\ SogumaKorunur

\* A step that changes at most one round, to one that is well formed, not another one,
\* and asks about nothing or about a rule that has cooled down.
LEMMA TurDegisir ==
    ASSUME AlarmInv, NEW c \in Cagri, NEW t, tur[c] # Hic,
           tur' = [tur EXCEPT ![c] = t], t = Hic \/ TurTip(t),
           t # Hic /\ t.sorgu # SorguYok =>
              /\ t.sorgu.id \in DOMAIN t.kalan
              /\ Sogudu(t.kalan[t.sorgu.id], lastFired[t.sorgu.id], t.sorgu.simdi),
           UNCHANGED <<evaluating, lastFired>>
    PROVE  /\ tur' = [d \in Cagri |-> tur'[d]]
           /\ \A d \in Cagri : tur'[d] # Hic => TurTip(tur'[d])
           /\ TekTur' /\ SorulanSogudu'
<1> USE DEF AlarmInv, AlarmTip
<1>1. tur'[c] = t /\ \A d \in Cagri : d # c => tur'[d] = tur[d]
  OBVIOUS
<1>2. \A d \in Cagri : tur'[d] # Hic => TurTip(tur'[d])
  BY <1>1
<1>3. TekTur'
  BY <1>1 DEF TekTur
<1>4. SorulanSogudu'
  BY <1>1 DEF SorulanSogudu, Sogudu
<1> QED BY <1>2, <1>3, <1>4

\* What a round looks like once a rule is off its list.
LEMMA GecilirTip ==
    ASSUME AlarmInv, NEW c \in Cagri, tur[c] # Hic, NEW i \in KuralId
    PROVE  TurTip(Gecilir(c, i)) /\ Gecilir(c, i).sorgu = SorguYok
<1>1. PICK S \in SUBSET KuralId : tur[c] \in [kalan : [S -> Kural], sorgu : SorguTip]
  BY DEF AlarmInv, AlarmTip, TurTip
<1> DEFINE K == [j \in S \ {i} |-> tur[c].kalan[j]]
<1>2. Gecilir(c, i) = [tur[c] EXCEPT !.kalan = K, !.sorgu = SorguYok]
  BY <1>1 DEF Gecilir
<1>3. K \in [S \ {i} -> Kural] /\ SorguYok \in SorguTip
  BY <1>1 DEF SorguYok, SorguTip
<1>4. Gecilir(c, i) \in [kalan : [S \ {i} -> Kural], sorgu : SorguTip]
  BY <1>1, <1>2, <1>3
<1>5. Gecilir(c, i).sorgu = SorguYok
  BY <1>1, <1>2
<1> QED BY <1>4, <1>5 DEF TurTip

LEMMA AlarmAdim == AlarmInv /\ [AlarmNext]_alarmVars => AlarmInv'
<1> SUFFICES ASSUME AlarmInv, [AlarmNext]_alarmVars PROVE AlarmInv'
  OBVIOUS
<1> USE KuralVarsayim, OlayTavanVarsayim DEF AlarmInv, AlarmTip
<1>1. ASSUME NEW c \in Cagri, EvaluateAll(c) PROVE AlarmInv'
  <2> DEFINE S == {j \in KuralId : kurallar[j] # Hic /\ kurallar[j].enabled}
             t == [kalan |-> [i \in S |-> kurallar[i]], sorgu |-> SorguYok]
  <2>1. /\ tur' = [tur EXCEPT ![c] = t] /\ evaluating' = TRUE
        /\ \A d \in Cagri : tur[d] = Hic
        /\ UNCHANGED <<kurallar, lastFired, events, alarmSaat>>
    BY <1>1 DEF EvaluateAll, TekTur
  <2>2. TurTip(t)
    <3>1. [i \in S |-> kurallar[i]] \in [S -> Kural] /\ SorguYok \in SorguTip
      BY DEF SorguYok, SorguTip
    <3>2. S \in SUBSET KuralId /\ t \in [kalan : [S -> Kural], sorgu : SorguTip]
      BY <3>1
    <3> HIDE DEF t, S
    <3> QED BY <3>2 DEF TurTip
  <2>3. t.sorgu = SorguYok
    OBVIOUS
  <2> HIDE DEF t
  <2>4. tur'[c] = t /\ \A d \in Cagri : d # c => tur'[d] = Hic
    BY <2>1
  <2> QED BY <2>1, <2>2, <2>3, <2>4 DEF TekTur, SorulanSogudu, SogumaKorunur
<1>2. ASSUME NEW c \in Cagri, KuralaBak(c) PROVE AlarmInv'
  <2>1. PICK i \in DOMAIN tur[c].kalan :
          tur' = [tur EXCEPT ![c] =
              IF Sogudu(tur[c].kalan[i], lastFired[i], alarmSaat)
              THEN [tur[c] EXCEPT !.sorgu = [id |-> i, simdi |-> alarmSaat]]
              ELSE Gecilir(c, i)]
    BY <1>2 DEF KuralaBak
  <2>2. /\ tur[c] # Hic
        /\ UNCHANGED <<kurallar, evaluating, lastFired, events, alarmSaat>>
    BY <1>2 DEF KuralaBak
  <2>3. PICK S \in SUBSET KuralId : tur[c] \in [kalan : [S -> Kural], sorgu : SorguTip]
    BY <2>2 DEF TurTip
  <2>4. i \in KuralId
    BY <2>1, <2>3
  <2>5. CASE Sogudu(tur[c].kalan[i], lastFired[i], alarmSaat)
    <3> DEFINE t == [tur[c] EXCEPT !.sorgu = [id |-> i, simdi |-> alarmSaat]]
    <3>1. tur' = [tur EXCEPT ![c] = t]
      BY <2>1, <2>5
    <3>2. /\ t \in [kalan : [S -> Kural], sorgu : SorguTip]
          /\ t.kalan = tur[c].kalan /\ t.sorgu = [id |-> i, simdi |-> alarmSaat]
      BY <2>3, <2>4 DEF SorguTip
    <3> HIDE DEF t
    <3>3. TurTip(t)
      BY <3>2 DEF TurTip
    <3>4. t.sorgu.id \in DOMAIN t.kalan
          /\ Sogudu(t.kalan[t.sorgu.id], lastFired[t.sorgu.id], t.sorgu.simdi)
      BY <2>1, <2>5, <3>2
    <3>5. TekTur' /\ SorulanSogudu' /\ tur' = [d \in Cagri |-> tur'[d]]
          /\ \A d \in Cagri : tur'[d] # Hic => TurTip(tur'[d])
      BY <2>2, <3>1, <3>3, <3>4, TurDegisir
    <3> QED BY <2>2, <3>5 DEF SogumaKorunur
  <2>6. CASE ~Sogudu(tur[c].kalan[i], lastFired[i], alarmSaat)
    <3>1. tur' = [tur EXCEPT ![c] = Gecilir(c, i)]
      BY <2>1, <2>6
    <3>2. TekTur' /\ SorulanSogudu' /\ tur' = [d \in Cagri |-> tur'[d]]
          /\ \A d \in Cagri : tur'[d] # Hic => TurTip(tur'[d])
      BY <2>2, <2>4, <3>1, TurDegisir, GecilirTip
    <3> QED BY <2>2, <3>2 DEF SogumaKorunur
  <2> QED BY <2>5, <2>6
<1>3. ASSUME NEW c \in Cagri, Cevaplandi(c) PROVE AlarmInv'
  <2> DEFINE i == tur[c].sorgu.id
             k == tur[c].kalan[i]
             simdi == tur[c].sorgu.simdi
             olay == [ruleId |-> i, firedAt |-> simdi, acknowledged |-> FALSE,
                      cooldown |-> k.cooldown, once |-> lastFired[i]]
             n == IF Len(events) < OlayTavan THEN Len(events) + 1 ELSE OlayTavan
  <2>1. /\ tur[c] # Hic /\ tur[c].sorgu # SorguYok
        /\ tur' = [tur EXCEPT ![c] = Gecilir(c, i)]
        /\ UNCHANGED <<kurallar, evaluating, alarmSaat>>
    BY <1>3 DEF Cevaplandi
  <2>2. \/ UNCHANGED <<lastFired, events>>
        \/ /\ lastFired' = [lastFired EXCEPT ![i] = simdi]
           /\ events' = SubSeq(<<olay>> \o events, 1, n)
    BY <1>3 DEF Cevaplandi
  <2>3. PICK S \in SUBSET KuralId : tur[c] \in [kalan : [S -> Kural], sorgu : SorguTip]
    BY <2>1 DEF TurTip
  <2>4. i \in S /\ i \in KuralId /\ k \in Kural /\ simdi \in Nat /\ Sogudu(k, lastFired[i], simdi)
    BY <2>1, <2>3 DEF SorulanSogudu, SorguTip
  <2>5. /\ olay \in Olay /\ olay.firedAt = simdi /\ olay.cooldown = k.cooldown
        /\ olay.once = lastFired[i]
    BY <2>4 DEF Olay
  <2>6. olay.once # Hic => olay.firedAt - olay.once >= olay.cooldown
    BY <2>4, <2>5 DEF Sogudu
  <2> HIDE DEF olay, n, k, simdi, i
  <2>7. /\ events' \in Seq(Olay)
        /\ \A m \in DOMAIN events' : \/ events'[m] = olay
                                    \/ \E l \in DOMAIN events : events'[m] = events[l]
    <3>1. CASE UNCHANGED events
      BY <3>1
    <3>2. CASE events' = SubSeq(<<olay>> \o events, 1, n)
      <4>1. n \in Nat /\ n <= Len(events) + 1
        BY DEF n
      <4>2. <<olay>> \o events \in Seq(Olay) /\ Len(<<olay>> \o events) = Len(events) + 1
        BY <2>5
      <4>3. events' \in Seq(Olay) /\ Len(events') = n
            /\ \A m \in 1 .. n : events'[m] = (<<olay>> \o events)[m]
        BY <3>2, <4>1, <4>2
      <4>4. \A m \in 1 .. (Len(events) + 1) :
               (<<olay>> \o events)[m] = IF m = 1 THEN olay ELSE events[m - 1]
        BY <2>5
      <4>5. \A m \in DOMAIN events' : m # 1 => m - 1 \in DOMAIN events
        BY <4>1, <4>3
      <4> QED BY <4>1, <4>3, <4>4, <4>5
    <3> QED BY <2>2, <3>1, <3>2
  <2>8. SogumaKorunur'
    BY <2>6, <2>7 DEF SogumaKorunur
  <2>9. lastFired' \in [KuralId -> Nat \cup {Hic}]
    BY <2>2, <2>4
  <2>10. TurTip(Gecilir(c, i)) /\ Gecilir(c, i).sorgu = SorguYok
    BY <2>1, <2>4, GecilirTip
  <2>11. /\ tur'[c] = Gecilir(c, i)
         /\ \A d \in Cagri : d # c => tur'[d] = Hic /\ tur[d] = Hic
         /\ evaluating' = TRUE
    BY <2>1 DEF TekTur
  <2>12. \A d \in Cagri : tur'[d] # Hic => TurTip(tur'[d]) /\ tur'[d].sorgu = SorguYok
    BY <2>10, <2>11
  <2>13. TekTur' /\ SorulanSogudu'
    BY <2>11, <2>12 DEF TekTur, SorulanSogudu
  <2>14. tur' = [d \in Cagri |-> tur'[d]]
    BY <2>1
  <2> QED BY <2>1, <2>7, <2>8, <2>9, <2>12, <2>13, <2>14
<1>4. ASSUME NEW c \in Cagri, SorguPatladi(c) PROVE AlarmInv'
  <2>1. /\ tur[c] # Hic /\ tur[c].sorgu # SorguYok
        /\ tur' = [tur EXCEPT ![c] = Gecilir(c, tur[c].sorgu.id)]
        /\ UNCHANGED <<kurallar, evaluating, lastFired, events, alarmSaat>>
    BY <1>4 DEF SorguPatladi
  <2>2. tur[c].sorgu.id \in KuralId
    BY <2>1 DEF SorulanSogudu, TurTip
  <2>3. TekTur' /\ SorulanSogudu' /\ tur' = [d \in Cagri |-> tur'[d]]
        /\ \A d \in Cagri : tur'[d] # Hic => TurTip(tur'[d])
    BY <2>1, <2>2, TurDegisir, GecilirTip
  <2> QED BY <2>1, <2>3 DEF SogumaKorunur
<1>5. ASSUME NEW c \in Cagri, TurBitti(c) PROVE AlarmInv'
  <2>1. /\ tur[c] # Hic /\ tur' = [tur EXCEPT ![c] = Hic]
        /\ UNCHANGED <<kurallar, lastFired, events, alarmSaat>>
    BY <1>5 DEF TurBitti
  <2>2. \A d \in Cagri : tur'[d] = Hic
    BY <2>1 DEF TekTur
  <2> QED BY <2>1, <2>2 DEF TekTur, SorulanSogudu, SogumaKorunur
<1>6. ASSUME NEW i \in KuralId, UpsertRule(i) PROVE AlarmInv'
  BY <1>6 DEF UpsertRule, TekTur, SorulanSogudu, SogumaKorunur
<1>7. ASSUME NEW i \in KuralId, DeleteRule(i) PROVE AlarmInv'
  <2>1. /\ kurallar' = [kurallar EXCEPT ![i] = Hic]
        /\ lastFired' = [lastFired EXCEPT ![i] = Hic]
        /\ UNCHANGED <<evaluating, tur, events, alarmSaat>>
    BY <1>7 DEF DeleteRule
  <2>2. \A j \in KuralId : lastFired'[j] = Hic \/ lastFired'[j] = lastFired[j]
    BY <2>1
  <2>3. SorulanSogudu'
    BY <2>1, <2>2 DEF SorulanSogudu, Sogudu, TurTip
  <2> QED BY <2>1, <2>3 DEF TekTur, SogumaKorunur
<1>8. CASE ZilYoklar \/ VeriDegisir
  BY <1>8 DEF ZilYoklar, ZilSorar, ZilCevabi, ZilGosterir, VeriDegisir,
              TekTur, SorulanSogudu, SogumaKorunur
<1>9. CASE Acknowledge \/ AcknowledgeAll
  <2>1. PICK N : events' = Onaylanir(N)
    BY <1>9 DEF Acknowledge, AcknowledgeAll
  <2>2. UNCHANGED <<kurallar, evaluating, tur, lastFired, alarmSaat>>
    BY <1>9 DEF Acknowledge, AcknowledgeAll
  <2>3. /\ DOMAIN events' = DOMAIN events
        /\ \A n \in DOMAIN events' :
              /\ events'[n] \in Olay /\ events'[n].once = events[n].once
              /\ events'[n].firedAt = events[n].firedAt
              /\ events'[n].cooldown = events[n].cooldown
    <3>1. DOMAIN events' = DOMAIN events
      BY <2>1 DEF Onaylanir
    <3>2. ASSUME NEW n \in DOMAIN events
          PROVE  /\ events'[n] \in Olay /\ events'[n].once = events[n].once
                 /\ events'[n].firedAt = events[n].firedAt
                 /\ events'[n].cooldown = events[n].cooldown
      <4>1. events[n] \in Olay
        OBVIOUS
      <4>2. events'[n] = events[n] \/ events'[n] = [events[n] EXCEPT !.acknowledged = TRUE]
        BY <2>1 DEF Onaylanir
      <4> QED BY <4>1, <4>2 DEF Olay
    <3> QED BY <3>1, <3>2
  <2>4. events' \in Seq(Olay)
    <3>1. events' = [n \in 1 .. Len(events) |-> events'[n]]
      BY <2>1 DEF Onaylanir
    <3> QED BY <2>3, <3>1
  <2>5. SogumaKorunur'
    BY <2>3 DEF SogumaKorunur
  <2> QED BY <2>2, <2>4, <2>5 DEF TekTur, SorulanSogudu
<1>10. CASE SaatIlerler
  BY <1>10 DEF SaatIlerler, TekTur, SorulanSogudu, SogumaKorunur
<1>11. CASE SunucuBaslar
  <2>1. \A c \in Cagri : tur'[c] = Hic
    BY <1>11 DEF SunucuBaslar
  <2> QED BY <1>11, <2>1 DEF SunucuBaslar, TekTur, SorulanSogudu, SogumaKorunur
<1>12. CASE UNCHANGED alarmVars
  BY <1>12 DEF alarmVars, TekTur, SorulanSogudu, SogumaKorunur
<1> QED BY <1>1, <1>2, <1>3, <1>4, <1>5, <1>6, <1>7, <1>8, <1>9, <1>10, <1>11, <1>12
        DEF AlarmNext, Degerlendir

\* A rule does not fire again before its cooldown is over (see SogumaKorunur): the flag
\* keeps the rounds apart, and the time read before the query is no later than what
\* anything else may have written since.
THEOREM CooldownKept == AlarmSpec => []SogumaKorunur
<1>1. AlarmInit => AlarmInv
  BY DEF AlarmInit, AlarmInv, AlarmTip, TekTur, SorulanSogudu, SogumaKorunur
<1>2. AlarmInv => SogumaKorunur
  BY DEF AlarmInv
<1> QED BY <1>1, <1>2, AlarmAdim, PTL DEF AlarmSpec

-----------------------------------------------------------------------------
(***************************************************************************)
(* CourseOfAction.                                                         *)
(***************************************************************************)
\* The three kinds of option, as they are for one track, asset and rules.
Ates(iz, V, roe) ==
    Secenek("Etkisiz Hale Getir", iz, V, EnIyi(iz, V), Ihlaller(iz, roe) = {}, Risk(iz, V, EnIyi(iz, V)))
Onleme(iz, V) == Secenek("Onle/Durdur", iz, V, EnIyi(iz, V), TRUE, Risk(iz, V, EnIyi(iz, V)))
IzlemeSecenegi(iz, V) ==
    Secenek("Izle-Takip", iz, V, IF Adaylar(iz, V) = << >> THEN 0 ELSE Head(Adaylar(iz, V)), TRUE, "Dusuk")

\* An option is one of the three, fire and interdiction under their conditions.
LEMMA SecenekTanim ==
    ASSUME NEW iz, NEW V, NEW roe
    PROVE  /\ IzlemeSecenegi(iz, V) \in Secenekler(iz, V, roe)
           /\ ~Dost(iz, roe) /\ iz.skor >= roe.esik => Ates(iz, V, roe) \in Secenekler(iz, V, roe)
           /\ \A s \in Secenekler(iz, V, roe) :
                 \/ s = Ates(iz, V, roe) /\ ~Dost(iz, roe) /\ iz.skor >= roe.esik
                 \/ s = Onleme(iz, V) /\ ~Dost(iz, roe)
                 \/ s = IzlemeSecenegi(iz, V)
           /\ Ates(iz, V, roe).tip = "Etkisiz Hale Getir" /\ Ates(iz, V, roe).roeUygun = (Ihlaller(iz, roe) = {})
           /\ Onleme(iz, V).tip = "Onle/Durdur" /\ Onleme(iz, V).roeUygun = TRUE
           /\ IzlemeSecenegi(iz, V).tip = "Izle-Takip" /\ IzlemeSecenegi(iz, V).roeUygun = TRUE
<1>1. /\ IzlemeSecenegi(iz, V) \in Secenekler(iz, V, roe)
      /\ ~Dost(iz, roe) /\ iz.skor >= roe.esik => Ates(iz, V, roe) \in Secenekler(iz, V, roe)
      /\ \A s \in Secenekler(iz, V, roe) :
            \/ s = Ates(iz, V, roe) /\ ~Dost(iz, roe) /\ iz.skor >= roe.esik
            \/ s = Onleme(iz, V) /\ ~Dost(iz, roe)
            \/ s = IzlemeSecenegi(iz, V)
  BY DEF Secenekler, Ates, Onleme, IzlemeSecenegi
<1>2. /\ Ates(iz, V, roe).tip = "Etkisiz Hale Getir"
      /\ Ates(iz, V, roe).roeUygun = (Ihlaller(iz, roe) = {})
  BY Zenon DEF Secenek, Ates
<1>3. Onleme(iz, V).tip = "Onle/Durdur" /\ Onleme(iz, V).roeUygun = TRUE
  BY DEF Secenek, Onleme
<1>4. IzlemeSecenegi(iz, V).tip = "Izle-Takip" /\ IzlemeSecenegi(iz, V).roeUygun = TRUE
  BY DEF Secenek, IzlemeSecenegi
<1>5. QED
  BY <1>1, <1>2, <1>3, <1>4

\* What comes first: what the rules allow, then the force the mode asks for.
LEMMA Onceligi ==
    ASSUME NEW a, NEW b, NEW mod
    PROVE  /\ a.roeUygun = TRUE /\ b.roeUygun = FALSE => OnceGelir(a, b, mod) /\ ~OnceGelir(b, a, mod)
           /\ a.roeUygun = b.roeUygun /\ mod =>
                 (OnceGelir(a, b, mod) <=> TipAgirlik(a.tip) > TipAgirlik(b.tip))
           /\ a.roeUygun = b.roeUygun /\ ~mod =>
                 (OnceGelir(a, b, mod) <=> TipAgirlik(a.tip) < TipAgirlik(b.tip))
BY DEF OnceGelir

\* One option comes before all others; which one that may be.
LEMMA OneriTanim ==
    ASSUME NEW iz, NEW V, NEW roe
    PROVE  /\ Oneri(iz, V, roe) \in Secenekler(iz, V, roe)
           /\ Oneri(iz, V, roe).tip = "Etkisiz Hale Getir" => Ihlaller(iz, roe) = {}
           /\ Oneri(iz, V, roe).tip # "Izle-Takip" => ~Dost(iz, roe) /\ iz.skor >= roe.esik
<1> DEFINE S == Secenekler(iz, V, roe)
           a == Ates(iz, V, roe)
           o == Onleme(iz, V)
           t == IzlemeSecenegi(iz, V)
           mod == ~Dost(iz, roe) /\ iz.skor >= roe.esik
           Ilk(s) == \A u \in S \ {s} : OnceGelir(s, u, mod)
<1>1. /\ t \in S
      /\ mod => a \in S
      /\ \A s \in S : (s = a /\ mod) \/ s = o \/ s = t
      /\ a.tip = "Etkisiz Hale Getir" /\ a.roeUygun = (Ihlaller(iz, roe) = {})
      /\ o.tip = "Onle/Durdur" /\ o.roeUygun = TRUE
      /\ t.tip = "Izle-Takip" /\ t.roeUygun = TRUE
  BY SecenekTanim
<1>2. Oneri(iz, V, roe) = CHOOSE s \in S : Ilk(s)
  <2>1. (RoeDurumu(iz, roe) /= "yasak" /\ iz.skor >= roe.esik) <=> mod
    BY DEF RoeDurumu
  <2>2. QED
    BY <2>1 DEF Oneri
<1> HIDE DEF S, a, o, t
<1>3. TipAgirlik(a.tip) = 3 /\ TipAgirlik(o.tip) = 2 /\ TipAgirlik(t.tip) = 0
  BY <1>1 DEF TipAgirlik
<1> HIDE DEF mod
<1>9. /\ Ihlaller(iz, roe) = {} /\ mod => OnceGelir(a, o, mod) /\ OnceGelir(a, t, mod)
      /\ Ihlaller(iz, roe) # {} => OnceGelir(o, a, mod) /\ OnceGelir(t, a, mod) /\ ~OnceGelir(a, t, mod)
      /\ mod => OnceGelir(o, t, mod)
      /\ ~mod => OnceGelir(t, o, mod) /\ ~OnceGelir(o, t, mod)
  <2>1. Ihlaller(iz, roe) = {} => a.roeUygun = TRUE
    BY <1>1
  <2>2. Ihlaller(iz, roe) # {} => a.roeUygun = FALSE
    BY <1>1
  <2>3. /\ TipAgirlik(a.tip) > TipAgirlik(o.tip) /\ TipAgirlik(a.tip) > TipAgirlik(t.tip)
        /\ TipAgirlik(o.tip) > TipAgirlik(t.tip) /\ TipAgirlik(t.tip) < TipAgirlik(o.tip)
        /\ ~(TipAgirlik(o.tip) < TipAgirlik(t.tip))
    BY <1>3
  <2>4. o.roeUygun = TRUE /\ t.roeUygun = TRUE
    BY <1>1
  <2>5. QED
    BY <2>1, <2>2, <2>3, <2>4, Onceligi
<1>4. \E s \in S : Ilk(s)
  BY <1>1, <1>9
<1>5. PICK s \in S : s = Oneri(iz, V, roe) /\ Ilk(s)
  BY <1>2, <1>4
<1>6. s.tip = "Etkisiz Hale Getir" => Ihlaller(iz, roe) = {}
  <2> SUFFICES ASSUME s = a, Ihlaller(iz, roe) # {} PROVE FALSE
    BY <1>1
  <2>1. t \in S \ {s}
    BY <1>1
  <2>2. QED
    BY <1>5, <1>9, <2>1
<1>7. s.tip # "Izle-Takip" => mod
  <2> SUFFICES ASSUME s = o, ~mod PROVE FALSE
    BY <1>1
  <2>1. t \in S \ {s}
    BY <1>1
  <2>2. QED
    BY <1>5, <1>9, <2>1
<1>8. QED
  BY <1>5, <1>6, <1>7 DEF S, mod

\* For any tracks, platforms, rules, ranges and protected places, force is never
\* the first recommendation against a friend or below the threshold, fire never
\* while a rule is violated, and the matrix, which stands under the default rules,
\* never recommends fire.
THEOREM RecommendationSafe == CoaSpec => []OneriGuvenli
<1>1. OneriGuvenli
  <2>1. ASSUME NEW i \in Skorlu, NEW r \in Roe
        PROVE  LET o == Oneri(izler[i], DostVarliklar, r) IN
               /\ o.tip /= "Izle-Takip" => ~Dost(izler[i], r) /\ izler[i].skor >= r.esik
               /\ o.tip = "Etkisiz Hale Getir" => Ihlaller(izler[i], r) = {}
    BY OneriTanim
  <2>2. ASSUME NEW g \in Range(Gorevler), g.oneri.tip = "Etkisiz Hale Getir"
        PROVE  FALSE
    <3>1. PICK k \in DOMAIN EnUstTehditler :
             g = [iz |-> EnUstTehditler[k],
                  oneri |-> Oneri(izler[EnUstTehditler[k]], DostVarliklar, VarsayilanRoe)]
      BY DEF Range, Gorevler
    <3>2. PICK iz : iz = izler[EnUstTehditler[k]]
      OBVIOUS
    <3>3. g.oneri = Oneri(iz, DostVarliklar, VarsayilanRoe)
      BY <3>1, <3>2
    <3>4. Ihlaller(iz, VarsayilanRoe) = {}
      BY <2>2, <3>3, OneriTanim
    <3>5. "kimlik" \in Ihlaller(iz, VarsayilanRoe)
      BY DEF Ihlaller, VarsayilanRoe, KimlikYeter, KimlikGuveni
    <3>6. QED
      BY <3>4, <3>5
  <2>3. QED
    BY <2>1, <2>2 DEF OneriGuvenli
<1>2. QED
  BY <1>1, PTL
=============================================================================
