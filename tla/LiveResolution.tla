---------------------------- MODULE LiveResolution ----------------------------
(***************************************************************************)
(* How CompositeDatasetProvider resolves live datasets: the version a      *)
(* definition has now, the row-bounded cache, the failure memo, the single *)
(* flight per version and the cycle guard.                                 *)
(*                                                                         *)
(* One kernel dataset stands for everything outside: its version veri is a *)
(* counter, and a composed version is the counter value the memoised       *)
(* kernel list reported.  A run of a definition reads each referenced      *)
(* dataset at some moment of its own; a live reference goes through        *)
(* resolveDef again, inside the run's context.                             *)
(***************************************************************************)
EXTENDS Integers, Sequences, FiniteSets, SequencesExt

CONSTANTS
    Tanim,      \* live definitions
    Cekirdek,   \* the kernel dataset
    Kaynak,     \* definition -> the datasets its recipe refers to
    Istek,      \* concurrent top-level readers
    Satirlar,   \* row counts a result may have
    MaxSatir,   \* LIVE_CACHE_MAX_ROWS
    MaxVeri     \* bound: versions of the kernel dataset

ASSUME KaynakVarsayim == Kaynak \in [Tanim -> SUBSET (Tanim \cup {Cekirdek})]
ASSUME CekirdekVarsayim == Cekirdek \notin Tanim
ASSUME SatirVarsayim == Satirlar \subseteq Nat /\ MaxSatir \in Nat
ASSUME VeriVarsayim == MaxVeri \in Nat \ {0}

VARIABLES
    veri,      \* the kernel dataset's version
    liste,     \* the version the memoised kernel list reports
    tanimli,   \* the registered definitions
    onbellek,  \* cache, least recently used first
    hatali,      \* failMemo: definition -> version of the memoised failure, or 0
    kosumlar,  \* the runs in flight
    istekler,     \* reader -> the run it waits for, or Bos
    basarisiz  \* history: the definitions and versions whose run has failed

cozumVars == <<veri, liste, tanimli, onbellek, hatali, kosumlar, istekler, basarisiz>>

Bos == <<>>
Sonsuz == MaxVeri + 1

\* A run: what it still has to read, the oldest kernel version its rows come
\* from so far, the definitions whose resolution it is nested in, the run it
\* waits for, and whether one of its reads failed.
Kosum == [id : Tanim, surum : 1 .. MaxVeri, okunacak : SUBSET (Tanim \cup {Cekirdek}),
          veri : 1 .. Sonsuz, aktif : SUBSET Tanim,
          bekle : (Tanim \X (1 .. MaxVeri)) \cup {Bos}, dustu : BOOLEAN]

Girdi == [id : Tanim, surum : 1 .. MaxVeri, veri : 1 .. Sonsuz, satir : Satirlar]

Anahtar(k) == <<k.id, k.surum>>
Kucuk(a, b) == IF a <= b THEN a ELSE b

-----------------------------------------------------------------------------
(***************************************************************************)
(* The branches of resolveDef, for the version the list gives now.         *)
(***************************************************************************)

\* Mutant of Onbellekte: the version of the cached entry is not compared.
OnbellekteHer(d) == \E i \in DOMAIN onbellek : onbellek[i].id = d

Onbellekte(d) == \E i \in DOMAIN onbellek : onbellek[i].id = d /\ onbellek[i].surum = liste

GirdiOf(d) == CHOOSE g \in {onbellek[i] : i \in DOMAIN onbellek} : g.id = d

\* cache.delete.
Baskalari(d) ==
    IF \E i \in DOMAIN onbellek : onbellek[i].id = d
    THEN RemoveAt(onbellek, CHOOSE i \in DOMAIN onbellek : onbellek[i].id = d)
    ELSE onbellek

\* A hit moves the entry to the recent end.
Dokun(d) == onbellek' = Append(Baskalari(d), GirdiOf(d))

BilinenHata(d) == ~Onbellekte(d) /\ hatali[d] = liste

\* Mutant of Ucusta: a run in flight is never found, so each caller starts one.
UcustaGormez(d) == d \notin Tanim

Ucusta(d) == \E k \in kosumlar : Anahtar(k) = <<d, liste>>

Binilir(d) == ~Onbellekte(d) /\ hatali[d] # liste /\ Ucusta(d)

Kosulur(d) == ~Onbellekte(d) /\ hatali[d] # liste /\ ~Ucusta(d)

YeniKosum(d, ic) ==
    [id |-> d, surum |-> liste, okunacak |-> Kaynak[d], veri |-> Sonsuz,
     aktif |-> ic \cup {d}, bekle |-> Bos, dustu |-> FALSE]

-----------------------------------------------------------------------------
(***************************************************************************)
(* Top-level readers.  A cached result and a memoised failure are answered *)
(* at once; the latter changes nothing.                                    *)
(***************************************************************************)
OkuyucuOnbellek(d) ==
    /\ d \in tanimli
    /\ Onbellekte(d)
    /\ Dokun(d)
    /\ UNCHANGED <<veri, liste, tanimli, hatali, kosumlar, istekler, basarisiz>>

OkuyucuBin(q, d) ==
    /\ istekler[q] = Bos
    /\ d \in tanimli
    /\ Binilir(d)
    /\ istekler' = [istekler EXCEPT ![q] = <<d, liste>>]
    /\ UNCHANGED <<veri, liste, tanimli, onbellek, hatali, kosumlar, basarisiz>>

OkuyucuKos(q, d) ==
    /\ istekler[q] = Bos
    /\ d \in tanimli
    /\ Kosulur(d)
    /\ kosumlar' = kosumlar \cup {YeniKosum(d, {})}
    /\ istekler' = [istekler EXCEPT ![q] = <<d, liste>>]
    /\ UNCHANGED <<veri, liste, tanimli, onbellek, hatali, basarisiz>>

-----------------------------------------------------------------------------
(***************************************************************************)
(* A run reads a dataset it refers to.                                     *)
(***************************************************************************)
Hazir(k) == k.bekle = Bos /\ ~k.dustu

\* The run with a reference read, its rows now at least as old as v.
Okundu(k, r, v) == [k EXCEPT !.okunacak = @ \ {r}, !.veri = Kucuk(@, v)]

Degistir(k, yeni) == kosumlar' = (kosumlar \ {k}) \cup {yeni}

KosumCekirdekOku(k) ==
    /\ Hazir(k)
    /\ Cekirdek \in k.okunacak
    /\ Degistir(k, Okundu(k, Cekirdek, veri))
    /\ UNCHANGED <<veri, liste, tanimli, onbellek, hatali, istekler, basarisiz>>

\* A live reference that is cached at its present version.
KosumOnbellekOku(k, r) ==
    /\ Hazir(k)
    /\ r \in k.okunacak \cap tanimli
    /\ r \notin k.aktif
    /\ Onbellekte(r)
    /\ Dokun(r)
    /\ Degistir(k, Okundu(k, r, GirdiOf(r).veri))
    /\ UNCHANGED <<veri, liste, tanimli, hatali, istekler, basarisiz>>

\* A live reference that is gone, that the context is already resolving, or that
\* is known to fail: the run fails with that error.
KosumOkuDus(k, r) ==
    /\ Hazir(k)
    /\ r \in k.okunacak \cap Tanim
    /\ r \notin tanimli \/ r \in k.aktif \/ BilinenHata(r)
    /\ Degistir(k, [k EXCEPT !.dustu = TRUE])
    /\ UNCHANGED <<veri, liste, tanimli, onbellek, hatali, istekler, basarisiz>>

\* A live reference already being resolved at this version: wait for that run.
KosumBin(k, r) ==
    /\ Hazir(k)
    /\ r \in k.okunacak \cap tanimli
    /\ r \notin k.aktif
    /\ Binilir(r)
    /\ Degistir(k, [k EXCEPT !.okunacak = @ \ {r}, !.bekle = <<r, liste>>])
    /\ UNCHANGED <<veri, liste, tanimli, onbellek, hatali, istekler, basarisiz>>

\* Otherwise: start its run, nested in this one, and wait for it.
KosumIcKos(k, r) ==
    /\ Hazir(k)
    /\ r \in k.okunacak \cap tanimli
    /\ r \notin k.aktif
    /\ Kosulur(r)
    /\ kosumlar' = (kosumlar \ {k})
            \cup {[k EXCEPT !.okunacak = @ \ {r}, !.bekle = <<r, liste>>],
                  YeniKosum(r, k.aktif)}
    /\ UNCHANGED <<veri, liste, tanimli, onbellek, hatali, istekler, basarisiz>>

-----------------------------------------------------------------------------
(***************************************************************************)
(* A run ends, and with it the promise everyone who rides it awaits.       *)
(***************************************************************************)
Toplam(dizi) ==
    LET topla[i \in 0 .. Len(dizi)] == IF i = 0 THEN 0 ELSE topla[i - 1] + dizi[i].satir
    IN topla[Len(dizi)]

\* Mutant of Sigdir: the row bound is checked before the new entry is counted.
SigdirGec(dizi) ==
    LET fazla == {n \in 0 .. Len(dizi) - 1 :
                     Toplam(SubSeq(dizi, n + 1, Len(dizi) - 1)) <= MaxSatir}
    IN SubSeq(dizi, 1 + (CHOOSE n \in fazla : \A m \in fazla : n <= m), Len(dizi))

\* cacheSet drops the oldest entries until the rest fits or only the new one is
\* left.
Sigdir(dizi) ==
    LET yeter == {n \in 0 .. Len(dizi) - 1 :
                     n = Len(dizi) - 1 \/ Toplam(SubSeq(dizi, n + 1, Len(dizi))) <= MaxSatir}
    IN SubSeq(dizi, 1 + (CHOOSE n \in yeter : \A m \in yeter : n <= m), Len(dizi))

\* Mutant of Uyandir: waiters of a failed run are not told.
UyandirYalnizBasari(k, oldu) ==
    {IF b.bekle = Anahtar(k) /\ oldu
     THEN [b EXCEPT !.bekle = Bos, !.veri = Kucuk(@, k.veri)]
     ELSE b : b \in kosumlar \ {k}}

\* The other runs after k ended: those that waited for it go on or fail.
Uyandir(k, oldu) ==
    {IF b.bekle # Anahtar(k) THEN b
     ELSE IF oldu THEN [b EXCEPT !.bekle = Bos, !.veri = Kucuk(@, k.veri)]
     ELSE [b EXCEPT !.bekle = Bos, !.dustu = TRUE] : b \in kosumlar \ {k}}

Cevapla(k) == istekler' = [q \in Istek |-> IF istekler[q] = Anahtar(k) THEN Bos ELSE istekler[q]]

KosumBasari(k, n) ==
    /\ Hazir(k)
    /\ k.okunacak = {}
    /\ onbellek' = Sigdir(Append(Baskalari(k.id),
                          [id |-> k.id, surum |-> k.surum, veri |-> k.veri, satir |-> n]))
    /\ hatali' = [hatali EXCEPT ![k.id] = 0]
    /\ kosumlar' = Uyandir(k, TRUE)
    /\ Cevapla(k)
    /\ UNCHANGED <<veri, liste, tanimli, basarisiz>>

\* A read failed, the engine threw, or the result was truncated.
KosumHata(k) ==
    /\ k.bekle = Bos
    /\ hatali' = [hatali EXCEPT ![k.id] = k.surum]
    /\ kosumlar' = Uyandir(k, FALSE)
    /\ Cevapla(k)
    /\ basarisiz' = basarisiz \cup {Anahtar(k)}
    /\ UNCHANGED <<veri, liste, tanimli, onbellek>>

-----------------------------------------------------------------------------
(***************************************************************************)
(* The surroundings: the kernel dataset advances; a kernel list, taken at  *)
(* some moment since the memoised one, replaces it (one list is in flight  *)
(* at a time); the delete endpoint removes a definition nothing refers to  *)
(* and invalidates it.                                                     *)
(***************************************************************************)
VeriIlerle ==
    /\ veri < MaxVeri
    /\ veri' = veri + 1
    /\ UNCHANGED <<liste, tanimli, onbellek, hatali, kosumlar, istekler, basarisiz>>

ListeTazele(v) ==
    /\ v \in liste + 1 .. veri
    /\ liste' = v
    /\ UNCHANGED <<veri, tanimli, onbellek, hatali, kosumlar, istekler, basarisiz>>

TanimSil(d) ==
    /\ d \in tanimli
    /\ \A e \in tanimli \ {d} : d \notin Kaynak[e]
    /\ tanimli' = tanimli \ {d}
    /\ onbellek' = Baskalari(d)
    /\ hatali' = [hatali EXCEPT ![d] = 0]
    /\ UNCHANGED <<veri, liste, kosumlar, istekler, basarisiz>>

-----------------------------------------------------------------------------
CozumInit ==
    /\ veri = 1
    /\ liste = 1
    /\ tanimli = Tanim
    /\ onbellek = <<>>
    /\ hatali = [d \in Tanim |-> 0]
    /\ kosumlar = {}
    /\ istekler = [q \in Istek |-> Bos]
    /\ basarisiz = {}

KosumAdim(k) ==
    \/ KosumCekirdekOku(k)
    \/ \E r \in Tanim : \/ KosumOnbellekOku(k, r) \/ KosumOkuDus(k, r)
                        \/ KosumBin(k, r) \/ KosumIcKos(k, r)
    \/ \E n \in Satirlar : KosumBasari(k, n)
    \/ KosumHata(k)

CozumNext ==
    \/ \E d \in Tanim : OkuyucuOnbellek(d) \/ TanimSil(d)
    \/ \E q \in Istek, d \in Tanim : OkuyucuBin(q, d) \/ OkuyucuKos(q, d)
    \/ \E k \in kosumlar : KosumAdim(k)
    \/ VeriIlerle
    \/ \E v \in 1 .. MaxVeri : ListeTazele(v)

CozumSpec == CozumInit /\ [][CozumNext]_cozumVars

\* Every query the engine issues returns or fails, so no run in flight stops
\* for good while it can take a step.
CozumAdil ==
    /\ CozumSpec
    /\ \A d \in Tanim, v \in 1 .. MaxVeri :
          WF_cozumVars(\E k \in kosumlar : Anahtar(k) = <<d, v>> /\ KosumAdim(k))

-----------------------------------------------------------------------------
(***************************************************************************)
(* Properties.                                                             *)
(***************************************************************************)
CozumTypeOK ==
    /\ veri \in 1 .. MaxVeri
    /\ liste \in 1 .. veri
    /\ tanimli \subseteq Tanim
    /\ onbellek \in Seq(Girdi)
    /\ hatali \in [Tanim -> 0 .. MaxVeri]
    /\ kosumlar \subseteq Kosum
    /\ istekler \in [Istek -> (Tanim \X (1 .. MaxVeri)) \cup {Bos}]
    /\ basarisiz \subseteq Tanim \X (1 .. MaxVeri)

SurumDurust == \A i \in DOMAIN onbellek : onbellek[i].veri >= onbellek[i].surum

OnbellekSinirda ==
    /\ Toplam(onbellek) <= MaxSatir \/ Len(onbellek) = 1
    /\ \A i, j \in DOMAIN onbellek : onbellek[i].id = onbellek[j].id => i = j

\* The cache is honest about versions and bounded: no cached result holds rows
\* older than the version it is labelled with, even when it was computed through
\* cached or shared results of other definitions while the kernel moved on; and
\* there is one entry per definition, within the row bound unless a single
\* result exceeds it.
OnbellekDurust == SurumDurust /\ OnbellekSinirda

\* N readers of one version share one run.
TekKosum == \A a, b \in kosumlar : Anahtar(a) = Anahtar(b) => a = b

\* Every reader is answered, whoever else reads what it needs.
HerIstekCevaplanir == \A q \in Istek : istekler[q] # Bos ~> istekler[q] = Bos

\* "A known failure is not paid for again at the same version": no run starts
\* for a version whose run has failed.  (The memo's stated purpose.)
HataYenidenOdenmez ==
    [][\A k \in kosumlar' :
          Anahtar(k) \in basarisiz => \E b \in kosumlar : Anahtar(b) = Anahtar(k)]_cozumVars

=============================================================================
