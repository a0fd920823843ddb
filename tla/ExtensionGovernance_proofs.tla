---------------------- MODULE ExtensionGovernance_proofs ----------------------
(***************************************************************************)
(* Proofs about ExtensionGovernance, for any users, bodies, documents and  *)
(* bounds: its inductive invariant, the refinement of OntologyLifecycle,   *)
(* and what the audit trail and rollback promise.                          *)
(***************************************************************************)
EXTENDS ExtensionGovernance, OntologyAdmission, FiniteSetTheorems, TLAPS

\* What the governance handlers preserve besides the types: four eyes, one
\* active version, and no approver on a version that was never approved.
IInv ==
    /\ TypeOK
    /\ TekAktif
    /\ DortGoz
    /\ \A s \in DOMAIN surumler :
          surumler[s].durum \in {"taslak", "dogrulandi"} => surumler[s].onaylayan = Yok

\* The steps that append to surumler keep its earlier entries.
LEMMA EklemeTip ==
    ASSUME TypeOK, NEW c \in Icerik, NEW kim \in Kisi,
           NEW durum \in {"taslak", "dogrulandi"}, Ekle(c, kim, durum)
    PROVE  /\ surumler' \in Seq(Surum)
           /\ DOMAIN surumler' = 1 .. Len(surumler) + 1
           /\ DOMAIN surumler = 1 .. Len(surumler)
           /\ \A s \in DOMAIN surumler : surumler'[s] = surumler[s]
           /\ surumler'[Len(surumler) + 1] =
                 [icerik |-> c, durum |-> durum, yukleyen |-> kim, onaylayan |-> Yok]
<1> DEFINE v == [icerik |-> c, durum |-> durum, yukleyen |-> kim, onaylayan |-> Yok]
<1>1. v \in Surum
  BY DEF Surum, Durum
<1>2. surumler \in Seq(Surum) /\ surumler' = Append(surumler, v)
  BY DEF TypeOK, Ekle
<1> HIDE DEF v
<1>3. /\ surumler' \in Seq(Surum)
      /\ DOMAIN surumler' = 1 .. Len(surumler) + 1
      /\ DOMAIN surumler = 1 .. Len(surumler)
      /\ \A s \in DOMAIN surumler : surumler'[s] = surumler[s]
      /\ surumler'[Len(surumler) + 1] = v
  BY <1>1, <1>2
<1>4. QED
  BY <1>3 DEF v

\* A status change keeps the array's length and the type of its entries.
LEMMA DurumTip ==
    ASSUME TypeOK, NEW f, f \in [DOMAIN surumler -> Surum], surumler' = f
    PROVE  /\ surumler' \in Seq(Surum)
           /\ DOMAIN surumler' = DOMAIN surumler
           /\ DOMAIN surumler = 1 .. Len(surumler)
<1>1. surumler \in Seq(Surum)
  BY DEF TypeOK
<1>2. DOMAIN surumler = 1 .. Len(surumler) /\ Len(surumler) \in Nat
  BY <1>1
<1>3. f \in Seq(Surum)
  BY <1>2, f \in [1 .. Len(surumler) -> Surum]
<1>4. QED
  BY <1>2, <1>3

\* Writing an audit record keeps the audit file well typed.
LEMMA DenetimTip ==
    ASSUME TypeOK, NEW kim \in Kisi, NEW s \in Nat \ {0},
           NEW eylem \in {"yukle", "onayla", "reddet", "aktiflestir", "rollback", "cekirdek"},
           Denetle(kim, eylem, s)
    PROVE  denetim' \in Seq(Kayit)
<1> DEFINE k == [kim |-> kim, surum |-> s, eylem |-> eylem]
<1>1. k \in Kayit
  BY DEF Kayit
<1>2. denetim \in Seq(Kayit) /\ denetim' = Append(denetim, k)
  BY DEF TypeOK, Denetle
<1> HIDE DEF k
<1>3. QED
  BY <1>1, <1>2

\* aktif() returns a version that exists and is active, or 0 when none is.
LEMMA AktifSurumTanim ==
    ASSUME TypeOK, TekAktif
    PROVE  /\ Aktifler \subseteq DOMAIN surumler
           /\ AktifSurum = 0 <=> Aktifler = {}
           /\ \A s \in Aktifler : AktifSurum = s
           /\ AktifSurum \in Nat
<1>1. DOMAIN surumler \subseteq Nat \ {0} /\ Aktifler \subseteq DOMAIN surumler
  BY DEF TypeOK, Aktifler
<1>2. CASE Aktifler = {}
  BY <1>1, <1>2 DEF AktifSurum
<1>3. CASE Aktifler # {}
  <2>1. PICK s \in Aktifler : TRUE
    BY <1>3
  <2>2. \A t \in Aktifler : t = s
    BY <2>1 DEF TekAktif
  <2>3. s \in Nat \ {0}
    BY <1>1, <2>1
  <2>4. Aktifler = {s}
    BY <2>1, <2>2
  <2>5. AktifSurum = CHOOSE t \in {s} : \A u \in {s} : t <= u
    BY <1>3, <2>4 DEF AktifSurum
  <2>6. AktifSurum = s
    BY <2>3, <2>5
  <2>7. QED
    BY <1>1, <2>2, <2>3, <2>4, <2>6
<1>4. QED
  BY <1>2, <1>3

\* aktiflestir leaves exactly the version it was given active, and touches no
\* other field than the status.
LEMMA TekAktifYapTanim ==
    ASSUME TypeOK, NEW s \in DOMAIN surumler, TekAktifYap(s)
    PROVE  /\ surumler' \in Seq(Surum)
           /\ DOMAIN surumler' = DOMAIN surumler
           /\ Aktifler' = {s}
           /\ surumler'[s] = [surumler[s] EXCEPT !.durum = "aktif"]
           /\ \A t \in DOMAIN surumler \ {s} :
                 \/ surumler[t].durum # "aktif" /\ surumler'[t] = surumler[t]
                 \/ /\ surumler[t].durum = "aktif"
                    /\ surumler'[t] = [surumler[t] EXCEPT !.durum = "arsiv"]
<1> DEFINE f == [t \in DOMAIN surumler |->
                    IF t = s THEN [surumler[t] EXCEPT !.durum = "aktif"]
                    ELSE IF surumler[t].durum = "aktif"
                         THEN [surumler[t] EXCEPT !.durum = "arsiv"]
                         ELSE surumler[t]]
<1>1. surumler' = f
  BY DEF TekAktifYap
<1>2. \A t \in DOMAIN surumler : surumler[t] \in Surum
  BY DEF TypeOK
<1>3. f \in [DOMAIN surumler -> Surum]
  BY <1>2 DEF Surum, Durum
<1>4. surumler' \in Seq(Surum) /\ DOMAIN surumler' = DOMAIN surumler
  BY <1>1, <1>3, DurumTip
<1>5. surumler'[s] = [surumler[s] EXCEPT !.durum = "aktif"]
  BY <1>1
<1>6. \A t \in DOMAIN surumler \ {s} :
         \/ surumler[t].durum # "aktif" /\ surumler'[t] = surumler[t]
         \/ /\ surumler[t].durum = "aktif"
            /\ surumler'[t] = [surumler[t] EXCEPT !.durum = "arsiv"]
  BY <1>1
<1>7. Aktifler' = {s}
  BY <1>2, <1>4, <1>5, <1>6 DEF Aktifler, Surum
<1>8. QED
  BY <1>4, <1>5, <1>6, <1>7

-----------------------------------------------------------------------------
LEMMA InitIInv == Init => IInv
BY DEF Init, IInv, TypeOK, TekAktif, DortGoz, Aktifler

\* yukle: the new version is a draft or verified, with no approver.
LEMMA YukleIInv ==
    ASSUME IInv, NEW kim \in Kisi, NEW c \in Icerik,
           YukleTaslak(c, kim) \/ YukleDegerlendir(c, kim)
    PROVE  IInv'
<1>1. PICK durum \in {"taslak", "dogrulandi"} : Ekle(c, kim, durum)
  BY DEF YukleTaslak, YukleDegerlendir
<1>2. Denetle(kim, "yukle", Len(surumler) + 1) /\ belgeler' = belgeler
  BY DEF YukleTaslak, YukleDegerlendir
<1>3. Len(surumler) + 1 \in Nat \ {0}
  BY DEF IInv, TypeOK
<1> DEFINE n == Len(surumler) + 1
<1>4. /\ surumler' \in Seq(Surum)
      /\ DOMAIN surumler' = 1 .. n
      /\ DOMAIN surumler = 1 .. Len(surumler)
      /\ \A s \in DOMAIN surumler : surumler'[s] = surumler[s]
      /\ surumler'[n] = [icerik |-> c, durum |-> durum, yukleyen |-> kim, onaylayan |-> Yok]
  BY <1>1, EklemeTip DEF IInv
<1>5. denetim' \in Seq(Kayit)
  BY <1>2, <1>3, DenetimTip DEF IInv
<1>6. TypeOK'
  BY <1>2, <1>4, <1>5 DEF IInv, TypeOK
<1>7. DOMAIN surumler' = DOMAIN surumler \cup {n}
  BY <1>3, <1>4
<1>8. /\ n \notin DOMAIN surumler
      /\ surumler'[n].durum \in {"taslak", "dogrulandi"}
      /\ surumler'[n].onaylayan = Yok
  BY <1>3, <1>4
<1>9. \A s \in DOMAIN surumler : surumler'[s] = surumler[s]
  BY <1>4
<1> HIDE DEF n
<1>10. Aktifler' = Aktifler
  <2>1. Aktifler' = {s \in DOMAIN surumler' : surumler'[s].durum = "aktif"}
    BY DEF Aktifler
  <2>2. Aktifler' = {s \in DOMAIN surumler : surumler'[s].durum = "aktif"}
    BY <1>7, <1>8, <2>1
  <2>3. QED
    BY <1>9, <2>2 DEF Aktifler
<1>11. TekAktif'
  BY <1>10 DEF IInv, TekAktif
<1>12. ASSUME NEW s \in DOMAIN surumler'
       PROVE  /\ surumler'[s].durum \in {"onayli", "aktif", "arsiv"} =>
                    /\ surumler'[s].onaylayan \in Kisi
                    /\ surumler'[s].onaylayan # surumler'[s].yukleyen
              /\ surumler'[s].durum \in {"taslak", "dogrulandi"} =>
                    surumler'[s].onaylayan = Yok
  <2>1. CASE s = n
    BY <1>8, <2>1
  <2>2. CASE s \in DOMAIN surumler
    BY <1>9, <2>2 DEF IInv, DortGoz
  <2>3. QED
    BY <1>7, <1>12, <2>1, <2>2
<1>13. QED
  BY <1>6, <1>11, <1>12 DEF IInv, DortGoz

\* onayla: the approver differs from the uploader, and nothing becomes active.
LEMMA OnaylaIInv ==
    ASSUME IInv, NEW kim \in Kisi, NEW s \in DOMAIN surumler, Onayla(s, kim)
    PROVE  IInv'
<1> DEFINE f == [surumler EXCEPT ![s].durum = "onayli", ![s].onaylayan = kim]
<1>1. surumler' = f /\ belgeler' = belgeler /\ Denetle(kim, "onayla", s)
  BY DEF Onayla
<1>2. \A t \in DOMAIN surumler : surumler[t] \in Surum
  BY DEF IInv, TypeOK
<1>3. f \in [DOMAIN surumler -> Surum]
  BY <1>2 DEF Surum, Durum
<1> HIDE DEF f
<1>40. surumler' \in Seq(Surum) /\ DOMAIN surumler' = DOMAIN surumler
  BY <1>1, <1>3, DurumTip DEF IInv
<1>41. s \in Nat \ {0}
  BY DEF IInv, TypeOK
<1>4. surumler' \in Seq(Surum) /\ DOMAIN surumler' = DOMAIN surumler /\ s \in Nat \ {0}
  BY <1>40, <1>41
<1>5. TypeOK'
  BY <1>1, <1>4, DenetimTip DEF IInv, TypeOK
<1>6. /\ \A t \in DOMAIN surumler \ {s} : surumler'[t] = surumler[t]
      /\ surumler'[s].durum = "onayli" /\ surumler'[s].onaylayan = kim
      /\ surumler'[s].yukleyen = surumler[s].yukleyen
  BY <1>1, <1>2 DEF Surum, f
<1>7. surumler[s].durum = "dogrulandi" /\ surumler[s].yukleyen # kim
  BY DEF Onayla
<1>8. Aktifler' = Aktifler
  BY <1>4, <1>6, <1>7 DEF Aktifler
<1>9. QED
  BY <1>4, <1>5, <1>6, <1>7, <1>8 DEF IInv, TekAktif, DortGoz

\* Activation and rollback to a version make that version the only active one;
\* it had been approved before, so its approver is already recorded.
LEMMA TekAktifYapIInv ==
    ASSUME IInv, NEW kim \in Kisi, NEW s \in DOMAIN surumler,
           NEW eylem \in {"aktiflestir", "rollback"},
           surumler[s].durum \in {"onayli", "arsiv"},
           TekAktifYap(s), Denetle(kim, eylem, s), belgeler' = belgeler
    PROVE  IInv'
<1>1. /\ surumler' \in Seq(Surum)
      /\ DOMAIN surumler' = DOMAIN surumler
      /\ Aktifler' = {s}
      /\ surumler'[s] = [surumler[s] EXCEPT !.durum = "aktif"]
      /\ \A t \in DOMAIN surumler \ {s} :
            \/ surumler[t].durum # "aktif" /\ surumler'[t] = surumler[t]
            \/ /\ surumler[t].durum = "aktif"
               /\ surumler'[t] = [surumler[t] EXCEPT !.durum = "arsiv"]
  BY TekAktifYapTanim DEF IInv
<1>2. \A t \in DOMAIN surumler : surumler[t] \in Surum
  BY DEF IInv, TypeOK
<1>3. s \in Nat \ {0}
  BY DEF IInv, TypeOK
<1>4. TypeOK'
  BY <1>1, <1>3, DenetimTip DEF IInv, TypeOK
<1>5. TekAktif'
  BY <1>1 DEF TekAktif
<1>6. ASSUME NEW t \in DOMAIN surumler
      PROVE  /\ surumler'[t].yukleyen = surumler[t].yukleyen
             /\ surumler'[t].onaylayan = surumler[t].onaylayan
             /\ surumler'[t].durum = surumler[t].durum
                \/ (surumler[t].durum \in {"onayli", "aktif", "arsiv"}
                    /\ surumler'[t].durum \in {"aktif", "arsiv"})
  BY <1>1, <1>2, <1>6 DEF Surum
<1>7. QED
  BY <1>1, <1>4, <1>5, <1>6 DEF IInv, DortGoz

\* Rollback to the kernel archives the active version.
LEMMA GeriDonCekirdegeIInv ==
    ASSUME IInv, NEW kim \in Kisi, GeriDonCekirdege(kim)
    PROVE  IInv'
<1> DEFINE a == AktifSurum
           f == [surumler EXCEPT ![a].durum = "arsiv"]
<1>1. a \in Aktifler /\ a \in DOMAIN surumler /\ Aktifler = {a}
  BY AktifSurumTanim DEF IInv, GeriDonCekirdege
<1>2. surumler' = f /\ belgeler' = belgeler /\ Denetle(kim, "cekirdek", a)
  BY DEF GeriDonCekirdege
<1>3. \A t \in DOMAIN surumler : surumler[t] \in Surum
  BY DEF IInv, TypeOK
<1>4. surumler[a].durum = "aktif" /\ a \in Nat \ {0}
  BY <1>1 DEF Aktifler, IInv, TypeOK
<1> HIDE DEF a
<1>5. f \in [DOMAIN surumler -> Surum]
  BY <1>3 DEF Surum, Durum
<1>6. surumler' \in Seq(Surum) /\ DOMAIN surumler' = DOMAIN surumler
  BY <1>2, <1>5, DurumTip DEF IInv
<1>7. TypeOK'
  BY <1>2, <1>4, <1>6, DenetimTip DEF IInv, TypeOK
<1>8. /\ \A t \in DOMAIN surumler \ {a} : surumler'[t] = surumler[t]
      /\ surumler'[a] = [surumler[a] EXCEPT !.durum = "arsiv"]
  BY <1>1, <1>2
<1>9. /\ surumler'[a].durum = "arsiv"
      /\ surumler'[a].yukleyen = surumler[a].yukleyen
      /\ surumler'[a].onaylayan = surumler[a].onaylayan
  BY <1>1, <1>3, <1>8 DEF Surum
<1>10. \A t \in DOMAIN surumler \ {a} : surumler[t].durum # "aktif"
  BY <1>1 DEF Aktifler
<1>11. \A t \in DOMAIN surumler : surumler'[t].durum # "aktif"
  BY <1>8, <1>9, <1>10
<1>12. Aktifler' = {}
  BY <1>6, <1>11 DEF Aktifler
<1>13. TekAktif'
  BY <1>12 DEF TekAktif
<1>14. ASSUME NEW t \in DOMAIN surumler'
       PROVE  /\ surumler'[t].durum \in {"onayli", "aktif", "arsiv"} =>
                    /\ surumler'[t].onaylayan \in Kisi
                    /\ surumler'[t].onaylayan # surumler'[t].yukleyen
              /\ surumler'[t].durum \in {"taslak", "dogrulandi"} =>
                    surumler'[t].onaylayan = Yok
  <2>1. CASE t = a
    BY <1>1, <1>4, <1>9, <2>1 DEF IInv, DortGoz
  <2>2. CASE t # a
    BY <1>6, <1>8, <1>14, <2>2 DEF IInv, DortGoz
  <2>3. QED
    BY <2>1, <2>2
<1>15. QED
  BY <1>7, <1>13, <1>14 DEF IInv, DortGoz

LEMMA NextIInv == IInv /\ [Next]_vars => IInv'
<1> SUFFICES ASSUME IInv, [Next]_vars PROVE IInv'
  OBVIOUS
<1>1. ASSUME NEW kim \in Kisi, NEW c \in Icerik,
             YukleTaslak(c, kim) \/ YukleDegerlendir(c, kim)
      PROVE  IInv'
  BY <1>1, YukleIInv
<1>2. ASSUME NEW kim \in Kisi, NEW s \in DOMAIN surumler, Onayla(s, kim)
      PROVE  IInv'
  BY <1>2, OnaylaIInv
<1>3. ASSUME NEW kim \in Kisi, NEW s \in DOMAIN surumler, OnayReddet(s, kim)
      PROVE  IInv'
  <2>1. Denetle(kim, "reddet", s) /\ surumler' = surumler /\ belgeler' = belgeler
    BY <1>3 DEF OnayReddet
  <2>2. s \in Nat \ {0}
    BY DEF IInv, TypeOK
  <2>3. TypeOK'
    BY <2>1, <2>2, DenetimTip DEF IInv, TypeOK
  <2>4. QED
    BY <2>1, <2>3 DEF IInv, TekAktif, DortGoz, Aktifler
<1>4. ASSUME NEW kim \in Kisi, NEW s \in DOMAIN surumler, Aktiflestir(s, kim)
      PROVE  IInv'
  BY <1>4, TekAktifYapIInv DEF Aktiflestir
<1>5. ASSUME NEW kim \in Kisi, NEW s \in DOMAIN surumler, GeriDonSurume(s, kim)
      PROVE  IInv'
  BY <1>5, TekAktifYapIInv DEF GeriDonSurume, Oncekiler
<1>6. ASSUME NEW kim \in Kisi, GeriDonCekirdege(kim)
      PROVE  IInv'
  BY <1>6, GeriDonCekirdegeIInv
<1>7. ASSUME NEW b \in Belge, BelgeKaydet(b) \/ BelgeSil(b)
      PROVE  IInv'
  BY <1>7 DEF BelgeKaydet, BelgeSil, IInv, TypeOK, TekAktif, DortGoz, Aktifler
<1>8. CASE UNCHANGED vars
  BY <1>8 DEF vars, IInv, TypeOK, TekAktif, DortGoz, Aktifler
<1>9. QED
  BY <1>1, <1>2, <1>3, <1>4, <1>5, <1>6, <1>7, <1>8 DEF Next

\* The handlers keep types, four eyes and the single active version together.
THEOREM InductiveInvariant == Spec => []IInv
BY InitIInv, NextIInv, PTL DEF Spec

\* Every reachable state is well typed.
THEOREM TypeCorrect == Spec => []TypeOK
<1>1. IInv => TypeOK
  BY DEF IInv
<1>2. QED
  BY <1>1, InductiveInvariant, PTL

\* aktiflestir and geriDon keep the "one active version" guarantee, and no version
\* gets past onayli without an approver other than its uploader.
THEOREM SingleActiveFourEyes == Spec => []ServisYetkili
<1>1. IInv => ServisYetkili
  BY DEF IInv, ServisYetkili
<1>2. QED
  BY <1>1, InductiveInvariant, PTL

-----------------------------------------------------------------------------
(***************************************************************************)
(* Governance implements the abstract life cycle.  The refinement mapping  *)
(* is spelled out once, so that each step can be compared with it.         *)
(***************************************************************************)
Yuklenen == [s \in DOMAIN surumler |-> surumler[s].yukleyen]
OnaylananSurumler == {s \in DOMAIN surumler : surumler[s].onaylayan # Yok}
Onaylar == {<<s, surumler[s].onaylayan>> : s \in OnaylananSurumler}
Kullanilan == {s \in DOMAIN surumler : surumler[s].durum \in {"aktif", "arsiv"}}

\* The approvals of the abstract specification are those of versions that got
\* past dogrulandi.
LEMMA OnayliTanim ==
    ASSUME IInv, NEW s \in DOMAIN surumler
    PROVE  /\ surumler[s].durum \in {"onayli", "aktif", "arsiv"} <=>
                 \E kim \in Kisi : <<s, kim>> \in Onaylar
           /\ surumler[s].durum \in Durum
           /\ surumler[s].durum \in {"onayli", "aktif", "arsiv"} => surumler[s].onaylayan # Yok
<1>1. surumler[s] \in Surum
  BY DEF IInv, TypeOK
<1>2. surumler[s].durum \in Durum /\ surumler[s].onaylayan \in Kisi \cup {Yok}
  BY <1>1 DEF Surum
<1>3. surumler[s].durum \in {"onayli", "aktif", "arsiv"} =>
         surumler[s].onaylayan \in Kisi /\ surumler[s].onaylayan # Yok
  BY KisiVarsayim DEF IInv, DortGoz
<1>4. surumler[s].durum \in {"taslak", "dogrulandi"} => surumler[s].onaylayan = Yok
  BY DEF IInv
<1>5. \A kim \in Kisi : <<s, kim>> \in Onaylar <=>
         surumler[s].onaylayan # Yok /\ surumler[s].onaylayan = kim
  BY DEF Onaylar, OnaylananSurumler
<1>6. QED
  BY <1>2, <1>3, <1>4, <1>5 DEF Durum

\* A step that leaves uploaders and approvers alone leaves the abstract uploads
\* and approvals alone.
LEMMA ResimSabit ==
    ASSUME DOMAIN surumler' = DOMAIN surumler,
           \A s \in DOMAIN surumler : surumler'[s].yukleyen = surumler[s].yukleyen,
           \A s \in DOMAIN surumler : surumler'[s].onaylayan = surumler[s].onaylayan
    PROVE  Yuklenen' = Yuklenen /\ Onaylar' = Onaylar
<1>1. Yuklenen' = Yuklenen
  BY DEF Yuklenen
<1>2. OnaylananSurumler' = OnaylananSurumler
  BY DEF OnaylananSurumler
<1>3. \A s \in OnaylananSurumler : surumler'[s].onaylayan = surumler[s].onaylayan
  BY DEF OnaylananSurumler
<1>4. Onaylar' = Onaylar
  BY <1>2, <1>3 DEF Onaylar
<1>5. QED
  BY <1>1, <1>4

\* Activation and rollback to a version put that version into service.
LEMMA GecisResmi ==
    ASSUME IInv, IInv', NEW s \in DOMAIN surumler, TekAktifYap(s)
    PROVE  /\ Yuklenen' = Yuklenen /\ Onaylar' = Onaylar
           /\ Kullanilan' = Kullanilan \cup {s}
           /\ AktifSurum' = s
<1>1. /\ DOMAIN surumler' = DOMAIN surumler
      /\ Aktifler' = {s}
      /\ surumler'[s] = [surumler[s] EXCEPT !.durum = "aktif"]
      /\ \A t \in DOMAIN surumler \ {s} :
            \/ surumler[t].durum # "aktif" /\ surumler'[t] = surumler[t]
            \/ /\ surumler[t].durum = "aktif"
               /\ surumler'[t] = [surumler[t] EXCEPT !.durum = "arsiv"]
  BY TekAktifYapTanim DEF IInv
<1>2. \A t \in DOMAIN surumler : surumler[t] \in Surum
  BY DEF IInv, TypeOK
<1>3. ASSUME NEW t \in DOMAIN surumler
      PROVE  /\ surumler'[t].yukleyen = surumler[t].yukleyen
             /\ surumler'[t].onaylayan = surumler[t].onaylayan
             /\ surumler'[t].durum \in {"aktif", "arsiv"} <=>
                   t = s \/ surumler[t].durum \in {"aktif", "arsiv"}
  BY <1>1, <1>2, <1>3 DEF Surum
<1>4. Yuklenen' = Yuklenen /\ Onaylar' = Onaylar
  BY <1>1, <1>3, ResimSabit
<1>5. Kullanilan' = Kullanilan \cup {s}
  BY <1>1, <1>3 DEF Kullanilan
<1>6. AktifSurum' = CHOOSE t \in {s} : \A u \in {s} : t <= u
  BY <1>1 DEF AktifSurum
<1>7. s \in Nat
  BY DEF IInv, TypeOK
<1>8. AktifSurum' = s
  BY <1>6, <1>7
<1>9. QED
  BY <1>4, <1>5, <1>8

\* The abstract step that each step of governance maps to.
SoyutAdim ==
    \/ \E kim \in Kisi : Yuklenen' = Append(Yuklenen, kim)
          /\ Onaylar' = Onaylar /\ Kullanilan' = Kullanilan /\ AktifSurum' = AktifSurum
    \/ \E s \in DOMAIN Yuklenen : \E kim \in Kisi :
          /\ Yuklenen[s] # kim
          /\ ~ \E k \in Kisi : <<s, k>> \in Onaylar
          /\ Onaylar' = Onaylar \cup {<<s, kim>>}
          /\ Yuklenen' = Yuklenen /\ Kullanilan' = Kullanilan /\ AktifSurum' = AktifSurum
    \/ \E s \in DOMAIN Yuklenen :
          /\ \E k \in Kisi : <<s, k>> \in Onaylar
          /\ s \notin Kullanilan
          /\ Kullanilan' = Kullanilan \cup {s} /\ AktifSurum' = s
          /\ Yuklenen' = Yuklenen /\ Onaylar' = Onaylar
    \/ \E s \in Kullanilan \cup {0} :
          /\ AktifSurum # 0 /\ s < AktifSurum /\ AktifSurum' = s
          /\ Yuklenen' = Yuklenen /\ Onaylar' = Onaylar /\ Kullanilan' = Kullanilan
    \/ /\ Yuklenen' = Yuklenen /\ Onaylar' = Onaylar
       /\ Kullanilan' = Kullanilan /\ AktifSurum' = AktifSurum

\* An upload maps to an abstract upload.
LEMMA YukleResmi ==
    ASSUME IInv, NEW kim \in Kisi, NEW c \in Icerik,
           YukleTaslak(c, kim) \/ YukleDegerlendir(c, kim)
    PROVE  SoyutAdim
<1>1. PICK durum \in {"taslak", "dogrulandi"} : Ekle(c, kim, durum)
  BY DEF YukleTaslak, YukleDegerlendir
<1> DEFINE n == Len(surumler) + 1
<1>2. /\ DOMAIN surumler' = 1 .. n
      /\ DOMAIN surumler = 1 .. Len(surumler)
      /\ \A s \in DOMAIN surumler : surumler'[s] = surumler[s]
      /\ surumler'[n] = [icerik |-> c, durum |-> durum, yukleyen |-> kim, onaylayan |-> Yok]
  BY <1>1, EklemeTip DEF IInv
<1>3. Len(surumler) \in Nat /\ \A s \in DOMAIN surumler : surumler[s] \in Surum
  BY DEF IInv, TypeOK
<1>4. DOMAIN surumler' = DOMAIN surumler \cup {n} /\ n \notin DOMAIN surumler
  BY <1>2, <1>3
<1>5. /\ surumler'[n].durum \in {"taslak", "dogrulandi"}
      /\ surumler'[n].onaylayan = Yok /\ surumler'[n].yukleyen = kim
  BY <1>2
<1>6. Yuklenen' = Append(Yuklenen, kim)
  <2>1. Yuklenen = [s \in 1 .. Len(surumler) |-> surumler[s].yukleyen]
    BY <1>2 DEF Yuklenen
  <2>2. \A s \in 1 .. Len(surumler) : surumler[s].yukleyen \in Kisi
    BY <1>2, <1>3 DEF Surum
  <2>3. Yuklenen \in Seq(Kisi) /\ Len(Yuklenen) = Len(surumler)
    BY <1>3, <2>1, <2>2
  <2>4. Append(Yuklenen, kim) =
           [s \in 1 .. n |-> IF s = n THEN kim ELSE surumler[s].yukleyen]
    BY <1>3, <2>1, <2>3
  <2>5. Yuklenen' = [s \in 1 .. n |-> surumler'[s].yukleyen]
    BY <1>2 DEF Yuklenen
  <2>6. \A s \in 1 .. n :
           surumler'[s].yukleyen = IF s = n THEN kim ELSE surumler[s].yukleyen
    BY <1>2, <1>4, <1>5
  <2>7. QED
    BY <2>4, <2>5, <2>6
<1> HIDE DEF n
<1>7. OnaylananSurumler' = OnaylananSurumler
  BY <1>2, <1>4, <1>5 DEF OnaylananSurumler
<1>8. Onaylar' = Onaylar
  BY <1>2, <1>7 DEF Onaylar, OnaylananSurumler
<1>9. Kullanilan' = Kullanilan
  BY <1>2, <1>4, <1>5 DEF Kullanilan
<1>10. Aktifler' = Aktifler
  BY <1>2, <1>4, <1>5 DEF Aktifler
<1>11. AktifSurum' = AktifSurum
  BY <1>10 DEF AktifSurum
<1>12. QED
  BY <1>6, <1>8, <1>9, <1>11 DEF SoyutAdim

\* An approval maps to an abstract approval.
LEMMA OnaylaResmi ==
    ASSUME IInv, NEW kim \in Kisi, NEW s \in DOMAIN surumler, Onayla(s, kim)
    PROVE  SoyutAdim
<1> DEFINE f == [surumler EXCEPT ![s].durum = "onayli", ![s].onaylayan = kim]
<1>1. surumler' = f /\ surumler[s].durum = "dogrulandi" /\ surumler[s].yukleyen # kim
  BY DEF Onayla
<1>2. \A t \in DOMAIN surumler : surumler[t] \in Surum
  BY DEF IInv, TypeOK
<1>3. /\ DOMAIN surumler' = DOMAIN surumler
      /\ \A t \in DOMAIN surumler \ {s} : surumler'[t] = surumler[t]
      /\ surumler'[s].durum = "onayli" /\ surumler'[s].onaylayan = kim
      /\ surumler'[s].yukleyen = surumler[s].yukleyen
  BY <1>1, <1>2 DEF Surum
<1>4. s \in DOMAIN Yuklenen /\ Yuklenen[s] # kim
  BY <1>1 DEF Yuklenen
<1>5. Yuklenen' = Yuklenen
  BY <1>3 DEF Yuklenen
<1>6. surumler[s].onaylayan = Yok /\ kim # Yok
  BY <1>1, KisiVarsayim DEF IInv
<1>7. OnaylananSurumler' = OnaylananSurumler \cup {s} /\ s \notin OnaylananSurumler
  BY <1>3, <1>6 DEF OnaylananSurumler
<1>8. Onaylar' = Onaylar \cup {<<s, kim>>}
  BY <1>3, <1>7 DEF Onaylar, OnaylananSurumler
<1>9. ~ \E k \in Kisi : <<s, k>> \in Onaylar
  BY <1>1, OnayliTanim
<1>10. Kullanilan' = Kullanilan
  BY <1>1, <1>3 DEF Kullanilan
<1>11. Aktifler' = Aktifler
  BY <1>1, <1>3 DEF Aktifler
<1>12. AktifSurum' = AktifSurum
  BY <1>11 DEF AktifSurum
<1>13. QED
  BY <1>4, <1>5, <1>8, <1>9, <1>10, <1>12 DEF SoyutAdim

\* An activation maps to an abstract activation: the version was approved and
\* had never been in service.
LEMMA AktiflestirResmi ==
    ASSUME IInv, IInv', NEW kim \in Kisi, NEW s \in DOMAIN surumler, Aktiflestir(s, kim)
    PROVE  SoyutAdim
<1>1. surumler[s].durum = "onayli" /\ TekAktifYap(s)
  BY DEF Aktiflestir
<1>2. /\ Yuklenen' = Yuklenen /\ Onaylar' = Onaylar
      /\ Kullanilan' = Kullanilan \cup {s}
      /\ AktifSurum' = s
  BY <1>1, GecisResmi
<1>3. \E k \in Kisi : <<s, k>> \in Onaylar
  BY <1>1, OnayliTanim
<1>4. s \in DOMAIN Yuklenen /\ s \notin Kullanilan
  BY <1>1 DEF Yuklenen, Kullanilan
<1>5. QED
  BY <1>2, <1>3, <1>4 DEF SoyutAdim

\* A rollback to a version maps to an abstract rollback.
LEMMA GeriDonSurumeResmi ==
    ASSUME IInv, IInv', NEW kim \in Kisi, NEW s \in DOMAIN surumler, GeriDonSurume(s, kim)
    PROVE  SoyutAdim
<1>1. AktifSurum # 0 /\ s < AktifSurum /\ surumler[s].durum = "arsiv" /\ TekAktifYap(s)
  BY DEF GeriDonSurume, Oncekiler
<1>2. s \in Kullanilan
  BY <1>1 DEF Kullanilan
<1>3. /\ Yuklenen' = Yuklenen /\ Onaylar' = Onaylar
      /\ Kullanilan' = Kullanilan \cup {s}
      /\ AktifSurum' = s
  BY <1>1, GecisResmi
<1>4. Kullanilan' = Kullanilan
  BY <1>2, <1>3
<1>5. QED
  BY <1>1, <1>2, <1>3, <1>4 DEF SoyutAdim

\* A rollback to the kernel maps to an abstract rollback to 0.
LEMMA GeriDonCekirdegeResmi ==
    ASSUME IInv, NEW kim \in Kisi, GeriDonCekirdege(kim)
    PROVE  SoyutAdim
<1> DEFINE a == AktifSurum
<1>1. a \in Aktifler /\ a \in DOMAIN surumler /\ Aktifler = {a} /\ a \in Nat /\ a # 0
  BY AktifSurumTanim DEF IInv, GeriDonCekirdege
<1>2. surumler' = [surumler EXCEPT ![a].durum = "arsiv"]
  BY DEF GeriDonCekirdege
<1>3. \A t \in DOMAIN surumler : surumler[t] \in Surum
  BY DEF IInv, TypeOK
<1>4. surumler[a].durum = "aktif" /\ \A t \in DOMAIN surumler \ {a} : surumler[t].durum # "aktif"
  BY <1>1 DEF Aktifler
<1> HIDE DEF a
<1>5. /\ DOMAIN surumler' = DOMAIN surumler
      /\ \A t \in DOMAIN surumler \ {a} : surumler'[t] = surumler[t]
      /\ surumler'[a].durum = "arsiv"
      /\ surumler'[a].yukleyen = surumler[a].yukleyen
      /\ surumler'[a].onaylayan = surumler[a].onaylayan
  BY <1>1, <1>2, <1>3 DEF Surum
<1>6. Yuklenen' = Yuklenen /\ Onaylar' = Onaylar
  BY <1>5, ResimSabit
<1>7. Kullanilan' = Kullanilan
  BY <1>4, <1>5 DEF Kullanilan
<1>8. \A t \in DOMAIN surumler : surumler'[t].durum # "aktif"
  BY <1>4, <1>5
<1>9. Aktifler' = {}
  BY <1>5, <1>8 DEF Aktifler
<1>10. AktifSurum' = 0
  BY <1>9 DEF AktifSurum
<1>11. AktifSurum # 0 /\ 0 < AktifSurum
  BY <1>1 DEF a
<1>12. QED
  BY <1>6, <1>7, <1>10, <1>11 DEF SoyutAdim

\* A step that leaves the versions alone stutters.
LEMMA DigerResmi == surumler' = surumler => SoyutAdim
BY DEF SoyutAdim, Yuklenen, Onaylar, OnaylananSurumler, Kullanilan, AktifSurum, Aktifler

LEMMA AdimResmi == IInv /\ IInv' /\ [Next]_vars => SoyutAdim
<1> SUFFICES ASSUME IInv, IInv', [Next]_vars PROVE SoyutAdim
  OBVIOUS
<1>1. ASSUME NEW kim \in Kisi, NEW c \in Icerik,
             YukleTaslak(c, kim) \/ YukleDegerlendir(c, kim)
      PROVE  SoyutAdim
  BY <1>1, YukleResmi
<1>2. ASSUME NEW kim \in Kisi, NEW s \in DOMAIN surumler, Onayla(s, kim)
      PROVE  SoyutAdim
  BY <1>2, OnaylaResmi
<1>3. ASSUME NEW kim \in Kisi, NEW s \in DOMAIN surumler, OnayReddet(s, kim)
      PROVE  SoyutAdim
  BY <1>3, DigerResmi DEF OnayReddet
<1>4. ASSUME NEW kim \in Kisi, NEW s \in DOMAIN surumler, Aktiflestir(s, kim)
      PROVE  SoyutAdim
  BY <1>4, AktiflestirResmi
<1>5. ASSUME NEW kim \in Kisi, NEW s \in DOMAIN surumler, GeriDonSurume(s, kim)
      PROVE  SoyutAdim
  BY <1>5, GeriDonSurumeResmi
<1>6. ASSUME NEW kim \in Kisi, GeriDonCekirdege(kim)
      PROVE  SoyutAdim
  BY <1>6, GeriDonCekirdegeResmi
<1>7. ASSUME NEW b \in Belge, BelgeKaydet(b) \/ BelgeSil(b)
      PROVE  SoyutAdim
  BY <1>7, DigerResmi DEF BelgeKaydet, BelgeSil
<1>8. CASE UNCHANGED vars
  BY <1>8, DigerResmi DEF vars
<1>9. QED
  BY <1>1, <1>2, <1>3, <1>4, <1>5, <1>6, <1>7, <1>8 DEF Next

\* Governance implements OntologyLifecycle.
THEOREM Refinement == Spec => SoyutuUygular
<1>1. Init => Soyut!Init
  BY DEF Init, Soyut!Init, AktifSurum, Aktifler
<1>2. SoyutAdim => [Soyut!Next]_(Soyut!vars)
  BY DEF SoyutAdim, Yuklenen, Onaylar, OnaylananSurumler, Kullanilan, Soyut!Next,
         Soyut!vars, Soyut!Yukle, Soyut!Onayla, Soyut!Onayli, Soyut!Aktiflestir,
         Soyut!GeriDon
<1>3. IInv /\ IInv' /\ [Next]_vars => [Soyut!Next]_(Soyut!vars)
  BY <1>2, AdimResmi
<1>4. QED
  BY <1>1, <1>3, InductiveInvariant, PTL DEF Spec, SoyutuUygular, Soyut!Spec

-----------------------------------------------------------------------------
(***************************************************************************)
(* The audit trail.  Its reader's conclusions are restated over a trail d  *)
(* of their own, so that the trail before a step and the one after it can  *)
(* be compared.                                                            *)
(***************************************************************************)
GecisEylemi == {"aktiflestir", "rollback", "cekirdek"}
GecisKaydi(d) == {i \in DOMAIN d : d[i].eylem \in GecisEylemi}
Evvel(d, n) == {i \in GecisKaydi(d) : i <= n}
SonKayit(d, n) == CHOOSE i \in Evvel(d, n) : \A j \in Evvel(d, n) : j <= i
Okunan(d, n) ==
    IF Evvel(d, n) = {} \/ d[SonKayit(d, n)].eylem = "cekirdek" THEN 0 ELSE d[SonKayit(d, n)].surum

\* Records j and k of d: the upload of version s and its later approval by
\* somebody else.
Zincir(d, j, k, s) ==
    /\ j \in DOMAIN d /\ k \in DOMAIN d /\ j < k
    /\ d[j].eylem = "yukle" /\ d[k].eylem = "onayla"
    /\ d[j].surum = s /\ d[k].surum = s
    /\ d[j].kim # d[k].kim

\* Among the transitions up to a record there is a last one.
SonVar(d) ==
    \A n \in 0 .. Len(d) :
        Evvel(d, n) # {} => \E i \in Evvel(d, n) : \A j \in Evvel(d, n) : j <= i

\* The trail tells where the stored version s comes from: who uploaded it and,
\* once it is past dogrulandi, that somebody else approved it.
YuklemeKayitli(s) ==
    \E j \in DOMAIN denetim : /\ denetim[j].eylem = "yukle" /\ denetim[j].surum = s
                              /\ denetim[j].kim = surumler[s].yukleyen
OnayKayitli(s) ==
    surumler[s].durum \in {"onayli", "aktif", "arsiv"} => \E j, k : Zincir(denetim, j, k, s)

\* The version that the last activation replaced is still in the archive.
YerineGecilen(n) ==
    \/ Okunan(denetim, n - 1) = 0
    \/ /\ Okunan(denetim, n - 1) \in DOMAIN surumler
       /\ surumler[Okunan(denetim, n - 1)].durum = "arsiv"

\* What the trail and the store have in common in every reachable state.
DenetimInv ==
    /\ SonVar(denetim)
    /\ Okunan(denetim, Len(denetim)) = AktifSurum
    /\ \A s \in DOMAIN surumler : YuklemeKayitli(s) /\ OnayKayitli(s)
    /\ \A i \in GecisKaydi(denetim) :
          \E j, k : k < i /\ Zincir(denetim, j, k, denetim[i].surum)
    /\ \A n \in GecisKaydi(denetim) :
          denetim[n].eylem = "aktiflestir" /\ (\A m \in GecisKaydi(denetim) : m <= n)
             => YerineGecilen(n)

\* The reader of the properties is the one over the current trail.
LEMMA OkunanTanim ==
    /\ Gecisler = GecisKaydi(denetim)
    /\ \A n : DenetimdenAktif(n) = Okunan(denetim, n)
BY DEF Gecisler, DenetimdenAktif, Okunan, GecisKaydi, Evvel, SonKayit, GecisEylemi

\* What the reader of trail e knows when it is trail d and the record r.
BirKayitFazla(d, r, e) ==
    /\ Len(d) \in Nat /\ Len(e) = Len(d) + 1
    /\ DOMAIN d = 1 .. Len(d) /\ DOMAIN e = 1 .. Len(d) + 1
    /\ \A i \in DOMAIN d : e[i] = d[i]
    /\ e[Len(d) + 1] = r
    /\ GecisKaydi(d) \subseteq 1 .. Len(d)
    /\ GecisKaydi(e) = IF r.eylem \in GecisEylemi
                       THEN GecisKaydi(d) \cup {Len(d) + 1} ELSE GecisKaydi(d)
    /\ SonVar(e)
    /\ \A n \in 0 .. Len(d) : Okunan(e, n) = Okunan(d, n)
    /\ Okunan(e, Len(d) + 1) = IF r.eylem \notin GecisEylemi THEN Okunan(d, Len(d))
                               ELSE IF r.eylem = "cekirdek" THEN 0 ELSE r.surum
    /\ \A j, k, t : Zincir(d, j, k, t) => Zincir(e, j, k, t)

\* Appending a record gives such a trail.
LEMMA DenetimEki ==
    ASSUME NEW d \in Seq(Kayit), NEW r \in Kayit, NEW e, e = Append(d, r), SonVar(d)
    PROVE  BirKayitFazla(d, r, e)
<1> DEFINE L == Len(d)
<1>1. /\ L \in Nat /\ Len(e) = L + 1
      /\ DOMAIN d = 1 .. L /\ DOMAIN e = 1 .. L + 1
      /\ \A i \in DOMAIN d : e[i] = d[i]
      /\ e[L + 1] = r
  OBVIOUS
<1> HIDE DEF L
<1>2. GecisKaydi(e) = IF r.eylem \in GecisEylemi
                      THEN GecisKaydi(d) \cup {L + 1} ELSE GecisKaydi(d)
  <2>1. DOMAIN e = DOMAIN d \cup {L + 1} /\ L + 1 \notin DOMAIN d
    BY <1>1
  <2>2. QED
    BY <1>1, <2>1 DEF GecisKaydi
<1>3. GecisKaydi(d) \subseteq 1 .. L
  BY <1>1 DEF GecisKaydi
<1>4. \A n \in 0 .. L : Evvel(e, n) = Evvel(d, n)
  BY <1>1, <1>2, <1>3 DEF Evvel
<1>5. /\ Evvel(d, L) = GecisKaydi(d)
      /\ Evvel(e, L + 1) = GecisKaydi(e)
  <2>1. Evvel(d, L) = GecisKaydi(d)
    BY <1>1, <1>3 DEF Evvel
  <2>2. \A i \in GecisKaydi(e) : i <= L + 1
    BY <1>1, <1>2, <1>3
  <2>3. QED
    BY <2>1, <2>2 DEF Evvel
<1>6. ASSUME NEW n \in 0 .. L PROVE Okunan(e, n) = Okunan(d, n)
  <2>1. SonKayit(e, n) = SonKayit(d, n) /\ Evvel(e, n) = Evvel(d, n)
    BY <1>4 DEF SonKayit
  <2>2. CASE Evvel(d, n) = {}
    BY <2>1, <2>2 DEF Okunan
  <2>3. CASE Evvel(d, n) # {}
    <3>1. \E i \in Evvel(d, n) : \A j \in Evvel(d, n) : j <= i
      BY <1>1, <2>3 DEF SonVar, L
    <3>2. SonKayit(d, n) \in Evvel(d, n)
      BY <3>1 DEF SonKayit
    <3>3. SonKayit(d, n) \in DOMAIN d
      BY <3>2 DEF Evvel, GecisKaydi
    <3>4. e[SonKayit(d, n)] = d[SonKayit(d, n)]
      BY <1>1, <3>3
    <3>5. QED
      BY <2>1, <3>4 DEF Okunan
  <2>4. QED
    BY <2>2, <2>3
<1>7. ASSUME r.eylem \notin GecisEylemi
      PROVE  SonVar(e) /\ Okunan(e, L + 1) = Okunan(d, L)
  <2>1. GecisKaydi(e) = GecisKaydi(d) /\ Evvel(e, L + 1) = Evvel(d, L) /\ Evvel(e, L) = Evvel(d, L)
    BY <1>1, <1>2, <1>4, <1>5, <1>7
  <2>2. Okunan(e, L + 1) = Okunan(e, L)
    <3>1. Evvel(e, L + 1) = Evvel(e, L)
      BY <2>1
    <3>2. SonKayit(e, L + 1) = SonKayit(e, L)
      BY <3>1 DEF SonKayit
    <3>3. QED
      BY <3>1, <3>2 DEF Okunan
  <2>3. Okunan(e, L + 1) = Okunan(d, L)
    BY <1>1, <1>6, <2>2
  <2>4. SonVar(e)
    <3>1. \A n \in 0 .. L + 1 : Evvel(e, n) = Evvel(d, IF n = L + 1 THEN L ELSE n)
      BY <1>1, <1>4, <2>1
    <3>2. \A n \in 0 .. L + 1 : (IF n = L + 1 THEN L ELSE n) \in 0 .. L
      BY <1>1
    <3>3. QED
      BY <1>1, <3>1, <3>2 DEF SonVar, L
  <2>5. QED
    BY <2>3, <2>4
<1>8. ASSUME r.eylem \in GecisEylemi
      PROVE  SonVar(e) /\ Okunan(e, L + 1) = IF r.eylem = "cekirdek" THEN 0 ELSE r.surum
  <2>1. /\ L + 1 \in Evvel(e, L + 1)
        /\ \A j \in Evvel(e, L + 1) : j <= L + 1
    BY <1>1, <1>2, <1>3, <1>5, <1>8
  <2>2. SonKayit(e, L + 1) = L + 1
    <3>1. /\ SonKayit(e, L + 1) \in Evvel(e, L + 1)
          /\ \A j \in Evvel(e, L + 1) : j <= SonKayit(e, L + 1)
      BY <2>1 DEF SonKayit
    <3>2. SonKayit(e, L + 1) \in 1 .. L + 1
      BY <1>1, <1>2, <1>3, <1>5, <1>8, <3>1
    <3>3. QED
      BY <1>1, <2>1, <3>1, <3>2
  <2>3. Okunan(e, L + 1) = IF r.eylem = "cekirdek" THEN 0 ELSE r.surum
    BY <1>1, <2>1, <2>2 DEF Okunan
  <2>4. SonVar(e)
    <3>1. ASSUME NEW n \in 0 .. L + 1, Evvel(e, n) # {}
          PROVE  \E i \in Evvel(e, n) : \A j \in Evvel(e, n) : j <= i
      <4>1. CASE n = L + 1
        BY <2>1, <4>1
      <4>2. CASE n \in 0 .. L
        BY <1>4, <3>1, <4>2 DEF SonVar, L
      <4>3. QED
        BY <1>1, <4>1, <4>2
    <3>2. QED
      BY <1>1, <3>1 DEF SonVar
  <2>5. QED
    BY <2>3, <2>4
<1>9. \A j, k, t : Zincir(d, j, k, t) => Zincir(e, j, k, t)
  <2>1. \A i \in DOMAIN d : i \in DOMAIN e /\ e[i] = d[i]
    BY <1>1
  <2>2. QED
    BY <2>1 DEF Zincir
<1>10. SonVar(e) /\ Okunan(e, L + 1) = IF r.eylem \notin GecisEylemi THEN Okunan(d, L)
                                      ELSE IF r.eylem = "cekirdek" THEN 0 ELSE r.surum
  BY <1>7, <1>8
<1>11. QED
  BY <1>1, <1>2, <1>3, <1>6, <1>9, <1>10 DEF L, BirKayitFazla

\* The same for the record that a handler writes.
LEMMA DenetleEki ==
    ASSUME TypeOK, SonVar(denetim), NEW kim \in Kisi, NEW s \in Nat \ {0},
           NEW eylem \in {"yukle", "onayla", "reddet", "aktiflestir", "rollback", "cekirdek"},
           Denetle(kim, eylem, s)
    PROVE  /\ Len(denetim) \in Nat /\ Len(denetim') = Len(denetim) + 1
           /\ DOMAIN denetim = 1 .. Len(denetim)
           /\ DOMAIN denetim' = 1 .. Len(denetim) + 1
           /\ \A i \in DOMAIN denetim : denetim'[i] = denetim[i]
           /\ denetim'[Len(denetim) + 1] = [kim |-> kim, surum |-> s, eylem |-> eylem]
           /\ GecisKaydi(denetim') = IF eylem \in GecisEylemi
                 THEN GecisKaydi(denetim) \cup {Len(denetim) + 1} ELSE GecisKaydi(denetim)
           /\ GecisKaydi(denetim) \subseteq 1 .. Len(denetim)
           /\ SonVar(denetim')
           /\ \A n \in 0 .. Len(denetim) : Okunan(denetim', n) = Okunan(denetim, n)
           /\ Okunan(denetim', Len(denetim) + 1) =
                 IF eylem \notin GecisEylemi THEN Okunan(denetim, Len(denetim))
                 ELSE IF eylem = "cekirdek" THEN 0 ELSE s
           /\ \A j, k, t : Zincir(denetim, j, k, t) => Zincir(denetim', j, k, t)
<1>1. PICK r : r = [kim |-> kim, surum |-> s, eylem |-> eylem]
  OBVIOUS
<1>2. r \in Kayit /\ r.eylem = eylem /\ r.surum = s
  BY <1>1 DEF Kayit
<1>3. denetim \in Seq(Kayit) /\ denetim' = Append(denetim, r)
  BY <1>1 DEF TypeOK, Denetle
<1>4. PICK d : d = denetim
  OBVIOUS
<1>5. PICK e : e = Append(d, r)
  OBVIOUS
<1>6. d \in Seq(Kayit) /\ SonVar(d) /\ denetim' = e
  BY <1>3, <1>4, <1>5
<1>7. BirKayitFazla(d, r, e)
  BY <1>2, <1>5, <1>6, DenetimEki
<1>8. QED
  BY <1>1, <1>2, <1>4, <1>6, <1>7 DEF BirKayitFazla

\* A record that is not a transition: the version in service and the archive
\* stay, and the step answers for what it did to the versions.
LEMMA GecissizAdim ==
    ASSUME IInv, DenetimInv, NEW kim \in Kisi, NEW s \in Nat \ {0},
           NEW eylem \in {"yukle", "onayla", "reddet"}, Denetle(kim, eylem, s),
           AktifSurum' = AktifSurum,
           \A t \in DOMAIN surumler : t \in DOMAIN surumler',
           \A t \in DOMAIN surumler :
              surumler[t].durum = "arsiv" => surumler'[t].durum = "arsiv",
           (\A t \in DOMAIN surumler : YuklemeKayitli(t) /\ OnayKayitli(t))'
    PROVE  DenetimInv'
<1>1. PICK L : L = Len(denetim)
  OBVIOUS
<1>2. eylem \notin GecisEylemi
  BY DEF GecisEylemi
<1>3. /\ L \in Nat /\ Len(denetim') = L + 1
      /\ DOMAIN denetim = 1 .. L
      /\ \A i \in DOMAIN denetim : denetim'[i] = denetim[i]
      /\ GecisKaydi(denetim') = GecisKaydi(denetim)
      /\ GecisKaydi(denetim) \subseteq 1 .. L
      /\ SonVar(denetim')
      /\ \A n \in 0 .. L : Okunan(denetim', n) = Okunan(denetim, n)
      /\ Okunan(denetim', L + 1) = Okunan(denetim, L)
      /\ \A j, k, t : Zincir(denetim, j, k, t) => Zincir(denetim', j, k, t)
  BY <1>1, <1>2, DenetleEki DEF IInv, DenetimInv
<1>4. Okunan(denetim', Len(denetim')) = AktifSurum'
  BY <1>1, <1>3 DEF DenetimInv
<1>5. ASSUME NEW i \in GecisKaydi(denetim')
      PROVE  \E j, k : k < i /\ Zincir(denetim', j, k, denetim'[i].surum)
  <2>1. i \in GecisKaydi(denetim) /\ denetim'[i] = denetim[i]
    BY <1>3
  <2>2. PICK j, k : k < i /\ Zincir(denetim, j, k, denetim[i].surum)
    BY <2>1 DEF DenetimInv
  <2>3. QED
    BY <1>3, <2>1, <2>2
<1>6. ASSUME NEW n \in GecisKaydi(denetim'), denetim'[n].eylem = "aktiflestir",
             \A m \in GecisKaydi(denetim') : m <= n
      PROVE  YerineGecilen(n)'
  <2>1. n \in GecisKaydi(denetim) /\ denetim[n].eylem = "aktiflestir"
        /\ \A m \in GecisKaydi(denetim) : m <= n
    BY <1>3, <1>6
  <2>2. YerineGecilen(n)
    BY <2>1 DEF DenetimInv
  <2>3. n - 1 \in 0 .. L
    BY <1>3, <2>1
  <2>4. Okunan(denetim', n - 1) = Okunan(denetim, n - 1)
    BY <1>3, <2>3
  <2>5. QED
    BY <2>2, <2>4 DEF YerineGecilen
<1>7. QED
  BY <1>3, <1>4, <1>5, <1>6 DEF DenetimInv

\* A transition: its version had been approved, and an activation archives the
\* version it replaces.
LEMMA GecisliAdim ==
    ASSUME IInv, DenetimInv, NEW kim \in Kisi, NEW s \in DOMAIN surumler,
           NEW eylem \in GecisEylemi, Denetle(kim, eylem, s),
           surumler[s].durum \in {"onayli", "aktif", "arsiv"},
           AktifSurum' = IF eylem = "cekirdek" THEN 0 ELSE s,
           DOMAIN surumler' = DOMAIN surumler,
           \A t \in DOMAIN surumler :
              /\ surumler'[t].yukleyen = surumler[t].yukleyen
              /\ surumler'[t].durum \in {"onayli", "aktif", "arsiv"} =>
                    surumler[t].durum \in {"onayli", "aktif", "arsiv"},
           eylem = "aktiflestir" /\ AktifSurum # 0 =>
              AktifSurum \in DOMAIN surumler /\ surumler'[AktifSurum].durum = "arsiv"
    PROVE  DenetimInv'
<1>1. PICK L : L = Len(denetim)
  OBVIOUS
<1>2. s \in Nat \ {0}
  BY DEF IInv, TypeOK
<1>3. /\ L \in Nat /\ Len(denetim') = L + 1
      /\ DOMAIN denetim = 1 .. L /\ DOMAIN denetim' = 1 .. L + 1
      /\ \A i \in DOMAIN denetim : denetim'[i] = denetim[i]
      /\ denetim'[L + 1] = [kim |-> kim, surum |-> s, eylem |-> eylem]
      /\ GecisKaydi(denetim') = GecisKaydi(denetim) \cup {L + 1}
      /\ GecisKaydi(denetim) \subseteq 1 .. L
      /\ SonVar(denetim')
      /\ \A n \in 0 .. L : Okunan(denetim', n) = Okunan(denetim, n)
      /\ Okunan(denetim', L + 1) = IF eylem = "cekirdek" THEN 0 ELSE s
      /\ \A j, k, t : Zincir(denetim, j, k, t) => Zincir(denetim', j, k, t)
  BY <1>1, <1>2, DenetleEki DEF IInv, DenetimInv, GecisEylemi
<1>4. Okunan(denetim', Len(denetim')) = AktifSurum'
  BY <1>3
<1>5. ASSUME NEW t \in DOMAIN surumler
      PROVE  YuklemeKayitli(t)' /\ OnayKayitli(t)'
  <2>1. PICK j \in DOMAIN denetim : denetim[j].eylem = "yukle" /\ denetim[j].surum = t
                                    /\ denetim[j].kim = surumler[t].yukleyen
    BY DEF DenetimInv, YuklemeKayitli
  <2>2. j \in DOMAIN denetim' /\ denetim'[j] = denetim[j]
    BY <1>3
  <2>3. YuklemeKayitli(t)'
    BY <2>1, <2>2 DEF YuklemeKayitli
  <2>4. OnayKayitli(t)'
    BY <1>3 DEF DenetimInv, OnayKayitli
  <2>5. QED
    BY <2>3, <2>4
<1>6. ASSUME NEW i \in GecisKaydi(denetim')
      PROVE  \E j, k : k < i /\ Zincir(denetim', j, k, denetim'[i].surum)
  <2>1. CASE i \in GecisKaydi(denetim)
    <3>1. denetim'[i] = denetim[i]
      BY <1>3, <2>1
    <3>2. PICK j, k : k < i /\ Zincir(denetim, j, k, denetim[i].surum)
      BY <2>1 DEF DenetimInv
    <3>3. QED
      BY <1>3, <3>1, <3>2
  <2>2. CASE i = L + 1
    <3>1. PICK j, k : Zincir(denetim, j, k, s)
      BY DEF DenetimInv, OnayKayitli
    <3>2. k < L + 1
      BY <1>3, <3>1 DEF Zincir
    <3>3. denetim'[i].surum = s
      BY <1>3, <2>2
    <3>4. QED
      BY <1>3, <2>2, <3>1, <3>2, <3>3
  <2>3. QED
    BY <1>3, <2>1, <2>2
<1>7. ASSUME NEW n \in GecisKaydi(denetim'), denetim'[n].eylem = "aktiflestir",
             \A m \in GecisKaydi(denetim') : m <= n
      PROVE  YerineGecilen(n)'
  <2>1. L + 1 <= n /\ n \in 1 .. L + 1
    BY <1>3, <1>7
  <2>2. n = L + 1 /\ n - 1 = L
    BY <1>3, <2>1
  <2>3. eylem = "aktiflestir"
    BY <1>3, <1>7, <2>2
  <2>4. Okunan(denetim', n - 1) = AktifSurum
    BY <1>1, <1>3, <2>2 DEF DenetimInv
  <2>5. QED
    BY <2>3, <2>4 DEF YerineGecilen
<1>8. QED
  BY <1>3, <1>4, <1>5, <1>6, <1>7 DEF DenetimInv

\* What the trail tells of a version outlives the next record.
LEMMA KayitKalir ==
    ASSUME NEW t, YuklemeKayitli(t), OnayKayitli(t),
           \A i \in DOMAIN denetim : i \in DOMAIN denetim' /\ denetim'[i] = denetim[i],
           \A j, k : Zincir(denetim, j, k, t) => Zincir(denetim', j, k, t),
           surumler'[t].yukleyen = surumler[t].yukleyen
    PROVE  /\ YuklemeKayitli(t)'
           /\ surumler'[t].durum = surumler[t].durum => OnayKayitli(t)'
<1>1. PICK j \in DOMAIN denetim : denetim[j].eylem = "yukle" /\ denetim[j].surum = t
                                  /\ denetim[j].kim = surumler[t].yukleyen
  BY DEF YuklemeKayitli
<1>2. j \in DOMAIN denetim' /\ denetim'[j] = denetim[j]
  BY <1>1
<1>3. YuklemeKayitli(t)'
  BY <1>1, <1>2 DEF YuklemeKayitli
<1>4. surumler'[t].durum = surumler[t].durum => OnayKayitli(t)'
  BY DEF OnayKayitli
<1>5. QED
  BY <1>3, <1>4

\* yukle writes the record its own version needs.
LEMMA YukleDenetim ==
    ASSUME IInv, DenetimInv, NEW kim \in Kisi, NEW c \in Icerik,
           YukleTaslak(c, kim) \/ YukleDegerlendir(c, kim)
    PROVE  DenetimInv'
<1>1. PICK durum \in {"taslak", "dogrulandi"} : Ekle(c, kim, durum)
  BY DEF YukleTaslak, YukleDegerlendir
<1>2. PICK n : n = Len(surumler) + 1
  OBVIOUS
<1>3. Denetle(kim, "yukle", n)
  BY <1>2 DEF YukleTaslak, YukleDegerlendir
<1>4. /\ DOMAIN surumler' = 1 .. n
      /\ DOMAIN surumler = 1 .. Len(surumler)
      /\ \A s \in DOMAIN surumler : surumler'[s] = surumler[s]
      /\ surumler'[n] = [icerik |-> c, durum |-> durum, yukleyen |-> kim, onaylayan |-> Yok]
  BY <1>1, <1>2, EklemeTip DEF IInv
<1>5. Len(surumler) \in Nat /\ n \in Nat \ {0}
  BY <1>2 DEF IInv, TypeOK
<1>6. DOMAIN surumler' = DOMAIN surumler \cup {n} /\ n \notin DOMAIN surumler
  BY <1>2, <1>4, <1>5
<1>7. surumler'[n].durum \in {"taslak", "dogrulandi"} /\ surumler'[n].yukleyen = kim
  BY <1>4
<1>8. Aktifler' = Aktifler
  BY <1>4, <1>6, <1>7 DEF Aktifler
<1>9. AktifSurum' = AktifSurum
  BY <1>8 DEF AktifSurum
<1>10. PICK L : L = Len(denetim)
  OBVIOUS
<1>11. /\ L \in Nat
       /\ DOMAIN denetim = 1 .. L /\ DOMAIN denetim' = 1 .. L + 1
       /\ \A i \in DOMAIN denetim : denetim'[i] = denetim[i]
       /\ denetim'[L + 1] = [kim |-> kim, surum |-> n, eylem |-> "yukle"]
       /\ \A j, k, t : Zincir(denetim, j, k, t) => Zincir(denetim', j, k, t)
  BY <1>3, <1>5, <1>10, DenetleEki DEF IInv, DenetimInv
<1>12. ASSUME NEW t \in DOMAIN surumler' PROVE YuklemeKayitli(t)' /\ OnayKayitli(t)'
  <2>1. CASE t \in DOMAIN surumler
    <3>1. YuklemeKayitli(t) /\ OnayKayitli(t)
      BY <2>1 DEF DenetimInv
    <3>2. QED
      BY <1>4, <1>11, <2>1, <3>1, KayitKalir
  <2>2. CASE t = n
    <3>1. YuklemeKayitli(t)'
      BY <1>7, <1>11, <2>2 DEF YuklemeKayitli
    <3>2. QED
      BY <1>7, <2>2, <3>1 DEF OnayKayitli
  <2>3. QED
    BY <1>6, <2>1, <2>2
<1>13. \A t \in DOMAIN surumler : t \in DOMAIN surumler' /\ surumler'[t] = surumler[t]
  BY <1>4, <1>6
<1>14. QED
  BY <1>3, <1>5, <1>9, <1>12, <1>13, GecissizAdim

\* onayla writes the record that the approved version needs: the uploader's is
\* already there and names somebody else.
LEMMA OnaylaDenetim ==
    ASSUME IInv, DenetimInv, NEW kim \in Kisi, NEW s \in DOMAIN surumler, Onayla(s, kim)
    PROVE  DenetimInv'
<1>1. /\ surumler' = [surumler EXCEPT ![s].durum = "onayli", ![s].onaylayan = kim]
      /\ Denetle(kim, "onayla", s)
      /\ surumler[s].durum = "dogrulandi" /\ surumler[s].yukleyen # kim
  BY DEF Onayla
<1>2. s \in Nat \ {0} /\ \A t \in DOMAIN surumler : surumler[t] \in Surum
  BY DEF IInv, TypeOK
<1>3. /\ DOMAIN surumler' = DOMAIN surumler
      /\ \A t \in DOMAIN surumler \ {s} : surumler'[t] = surumler[t]
      /\ surumler'[s].durum = "onayli"
      /\ surumler'[s].yukleyen = surumler[s].yukleyen
  BY <1>1, <1>2 DEF Surum
<1>4. Aktifler' = Aktifler
  BY <1>1, <1>3 DEF Aktifler
<1>5. AktifSurum' = AktifSurum
  BY <1>4 DEF AktifSurum
<1>6. PICK L : L = Len(denetim)
  OBVIOUS
<1>7. /\ L \in Nat
      /\ DOMAIN denetim = 1 .. L /\ DOMAIN denetim' = 1 .. L + 1
      /\ \A i \in DOMAIN denetim : denetim'[i] = denetim[i]
      /\ denetim'[L + 1] = [kim |-> kim, surum |-> s, eylem |-> "onayla"]
      /\ \A j, k, t : Zincir(denetim, j, k, t) => Zincir(denetim', j, k, t)
  BY <1>1, <1>2, <1>6, DenetleEki DEF IInv, DenetimInv
<1>8. ASSUME NEW t \in DOMAIN surumler' PROVE YuklemeKayitli(t)' /\ OnayKayitli(t)'
  <2>1. YuklemeKayitli(t) /\ OnayKayitli(t) /\ surumler'[t].yukleyen = surumler[t].yukleyen
    BY <1>3 DEF DenetimInv
  <2>2. \A i \in DOMAIN denetim : i \in DOMAIN denetim' /\ denetim'[i] = denetim[i]
    BY <1>7
  <2>3. /\ YuklemeKayitli(t)'
        /\ surumler'[t].durum = surumler[t].durum => OnayKayitli(t)'
    BY <1>7, <2>1, <2>2, KayitKalir
  <2>4. CASE t # s
    BY <1>3, <2>3, <2>4
  <2>5. CASE t = s
    <3>1. PICK j \in DOMAIN denetim : denetim[j].eylem = "yukle" /\ denetim[j].surum = s
                                      /\ denetim[j].kim = surumler[s].yukleyen
      BY <2>1, <2>5 DEF YuklemeKayitli
    <3>2. Zincir(denetim', j, L + 1, s)
      BY <1>1, <1>7, <3>1 DEF Zincir
    <3>3. OnayKayitli(t)'
      BY <2>5, <3>2 DEF OnayKayitli
    <3>4. QED
      BY <2>3, <3>3
  <2>6. QED
    BY <2>4, <2>5
<1>9. \A t \in DOMAIN surumler : surumler[t].durum = "arsiv" => surumler'[t].durum = "arsiv"
  BY <1>1, <1>3
<1>10. QED
  BY <1>1, <1>2, <1>3, <1>5, <1>8, <1>9, GecissizAdim

\* A refused approval leaves only its record.
LEMMA OnayReddetDenetim ==
    ASSUME IInv, DenetimInv, NEW kim \in Kisi, NEW s \in DOMAIN surumler, OnayReddet(s, kim)
    PROVE  DenetimInv'
<1>1. Denetle(kim, "reddet", s) /\ surumler' = surumler
  BY DEF OnayReddet
<1>2. s \in Nat \ {0}
  BY DEF IInv, TypeOK
<1>3. AktifSurum' = AktifSurum
  BY <1>1 DEF AktifSurum, Aktifler
<1>4. /\ Len(denetim) \in Nat
      /\ DOMAIN denetim = 1 .. Len(denetim) /\ DOMAIN denetim' = 1 .. Len(denetim) + 1
      /\ \A i \in DOMAIN denetim : denetim'[i] = denetim[i]
      /\ \A j, k, t : Zincir(denetim, j, k, t) => Zincir(denetim', j, k, t)
  BY <1>1, <1>2, DenetleEki DEF IInv, DenetimInv
<1>5. \A i \in DOMAIN denetim : i \in DOMAIN denetim' /\ denetim'[i] = denetim[i]
  BY <1>4
<1>6. ASSUME NEW t \in DOMAIN surumler' PROVE YuklemeKayitli(t)' /\ OnayKayitli(t)'
  <2>1. YuklemeKayitli(t) /\ OnayKayitli(t)
    BY <1>1 DEF DenetimInv
  <2>2. QED
    BY <1>1, <1>4, <1>5, <2>1, KayitKalir
<1>7. QED
  BY <1>1, <1>2, <1>3, <1>6, GecissizAdim

\* aktiflestir and a rollback to a version put an approved version into service.
LEMMA TekAktifYapDenetim ==
    ASSUME IInv, IInv', DenetimInv, NEW kim \in Kisi, NEW s \in DOMAIN surumler,
           NEW eylem \in {"aktiflestir", "rollback"},
           surumler[s].durum \in {"onayli", "arsiv"},
           TekAktifYap(s), Denetle(kim, eylem, s)
    PROVE  DenetimInv'
<1>1. /\ DOMAIN surumler' = DOMAIN surumler
      /\ surumler'[s] = [surumler[s] EXCEPT !.durum = "aktif"]
      /\ \A t \in DOMAIN surumler \ {s} :
            \/ surumler[t].durum # "aktif" /\ surumler'[t] = surumler[t]
            \/ /\ surumler[t].durum = "aktif"
               /\ surumler'[t] = [surumler[t] EXCEPT !.durum = "arsiv"]
  BY TekAktifYapTanim DEF IInv
<1>2. \A t \in DOMAIN surumler : surumler[t] \in Surum
  BY DEF IInv, TypeOK
<1>3. ASSUME NEW t \in DOMAIN surumler
      PROVE  /\ surumler'[t].yukleyen = surumler[t].yukleyen
             /\ surumler'[t].durum \in {"onayli", "aktif", "arsiv"} =>
                   surumler[t].durum \in {"onayli", "aktif", "arsiv"}
             /\ surumler[t].durum = "aktif" /\ t # s => surumler'[t].durum = "arsiv"
  BY <1>1, <1>2, <1>3 DEF Surum
<1>4. AktifSurum' = s
  BY GecisResmi
<1>5. AktifSurum # 0 => AktifSurum \in DOMAIN surumler /\ surumler'[AktifSurum].durum = "arsiv"
  <2>1. HAVE AktifSurum # 0
  <2>2. AktifSurum \in DOMAIN surumler /\ surumler[AktifSurum].durum = "aktif"
    BY <2>1, AktifSurumTanim DEF IInv, Aktifler
  <2>3. AktifSurum # s
    BY <2>2
  <2>4. QED
    BY <1>3, <2>2, <2>3
<1>6. eylem \in GecisEylemi /\ eylem # "cekirdek"
  BY DEF GecisEylemi
<1>7. QED
  BY <1>1, <1>3, <1>4, <1>5, <1>6, GecisliAdim

\* A rollback to the kernel leaves no version in service.
LEMMA GeriDonCekirdegeDenetim ==
    ASSUME IInv, DenetimInv, NEW kim \in Kisi, GeriDonCekirdege(kim)
    PROVE  DenetimInv' /\ AktifSurum' = 0
<1>1. PICK a : a = AktifSurum
  OBVIOUS
<1>2. /\ a \in DOMAIN surumler /\ Aktifler = {a}
      /\ surumler' = [surumler EXCEPT ![a].durum = "arsiv"]
      /\ Denetle(kim, "cekirdek", a)
  BY <1>1, AktifSurumTanim DEF IInv, GeriDonCekirdege
<1>3. \A t \in DOMAIN surumler : surumler[t] \in Surum
  BY DEF IInv, TypeOK
<1>4. surumler[a].durum = "aktif" /\ \A t \in DOMAIN surumler \ {a} : surumler[t].durum # "aktif"
  BY <1>2 DEF Aktifler
<1>5. /\ DOMAIN surumler' = DOMAIN surumler
      /\ \A t \in DOMAIN surumler \ {a} : surumler'[t] = surumler[t]
      /\ surumler'[a].durum = "arsiv"
      /\ surumler'[a].yukleyen = surumler[a].yukleyen
  BY <1>2, <1>3 DEF Surum
<1>6. \A t \in DOMAIN surumler : surumler'[t].durum # "aktif"
  BY <1>4, <1>5
<1>7. Aktifler' = {}
  BY <1>5, <1>6 DEF Aktifler
<1>8. AktifSurum' = 0
  BY <1>7 DEF AktifSurum
<1>9. "cekirdek" \in GecisEylemi
  BY DEF GecisEylemi
<1>10. ASSUME NEW t \in DOMAIN surumler
       PROVE  /\ surumler'[t].yukleyen = surumler[t].yukleyen
              /\ surumler'[t].durum \in {"onayli", "aktif", "arsiv"} =>
                    surumler[t].durum \in {"onayli", "aktif", "arsiv"}
  BY <1>4, <1>5
<1>11. DenetimInv'
  BY <1>2, <1>4, <1>5, <1>8, <1>9, <1>10, GecisliAdim
<1>12. QED
  BY <1>8, <1>11

LEMMA InitDenetim == Init => DenetimInv
<1> SUFFICES ASSUME Init PROVE DenetimInv
  OBVIOUS
<1>1. surumler = << >> /\ denetim = << >>
  BY DEF Init
<1>2. DOMAIN surumler = {} /\ DOMAIN denetim = {} /\ Len(denetim) = 0
  BY <1>1
<1>3. GecisKaydi(denetim) = {} /\ \A n : Evvel(denetim, n) = {}
  BY <1>2 DEF GecisKaydi, Evvel
<1>4. AktifSurum = 0
  BY <1>2 DEF AktifSurum, Aktifler
<1>5. QED
  BY <1>2, <1>3, <1>4 DEF DenetimInv, SonVar, Okunan

LEMMA NextDenetim == IInv /\ IInv' /\ DenetimInv /\ [Next]_vars => DenetimInv'
<1> SUFFICES ASSUME IInv, IInv', DenetimInv, [Next]_vars PROVE DenetimInv'
  OBVIOUS
<1>1. ASSUME NEW kim \in Kisi, NEW c \in Icerik,
             YukleTaslak(c, kim) \/ YukleDegerlendir(c, kim)
      PROVE  DenetimInv'
  BY <1>1, YukleDenetim
<1>2. ASSUME NEW kim \in Kisi, NEW s \in DOMAIN surumler, Onayla(s, kim)
      PROVE  DenetimInv'
  BY <1>2, OnaylaDenetim
<1>3. ASSUME NEW kim \in Kisi, NEW s \in DOMAIN surumler, OnayReddet(s, kim)
      PROVE  DenetimInv'
  BY <1>3, OnayReddetDenetim
<1>4. ASSUME NEW kim \in Kisi, NEW s \in DOMAIN surumler, Aktiflestir(s, kim)
      PROVE  DenetimInv'
  BY <1>4, TekAktifYapDenetim DEF Aktiflestir
<1>5. ASSUME NEW kim \in Kisi, NEW s \in DOMAIN surumler, GeriDonSurume(s, kim)
      PROVE  DenetimInv'
  BY <1>5, TekAktifYapDenetim DEF GeriDonSurume, Oncekiler
<1>6. ASSUME NEW kim \in Kisi, GeriDonCekirdege(kim)
      PROVE  DenetimInv'
  BY <1>6, GeriDonCekirdegeDenetim
<1>7. CASE surumler' = surumler /\ denetim' = denetim
  <2>1. AktifSurum' = AktifSurum
    BY <1>7 DEF AktifSurum, Aktifler
  <2>2. QED
    BY <1>7, <2>1 DEF DenetimInv, YuklemeKayitli, OnayKayitli, YerineGecilen
<1>8. ASSUME NEW b \in Belge, BelgeKaydet(b) \/ BelgeSil(b)
      PROVE  DenetimInv'
  BY <1>7, <1>8 DEF BelgeKaydet, BelgeSil
<1>9. CASE UNCHANGED vars
  BY <1>7, <1>9 DEF vars
<1>10. QED
  BY <1>1, <1>2, <1>3, <1>4, <1>5, <1>6, <1>8, <1>9 DEF Next

\* The trail and the store agree in every reachable state.
THEOREM AuditInvariant == Spec => []DenetimInv
BY InitDenetim, NextDenetim, InductiveInvariant, PTL DEF Spec

\* Whatever the handlers did, replaying the audit file names the version in
\* service, and shows for every version that entered service an earlier upload
\* and an approval by somebody else.
THEOREM AuditTellsAll == Spec => []DenetimTam
<1>1. IInv /\ DenetimInv => DenetimTam
  <2> SUFFICES ASSUME IInv, DenetimInv PROVE DenetimTam
    OBVIOUS
  <2>1. DenetimAktifiBelirler
    BY OkunanTanim DEF DenetimInv, DenetimAktifiBelirler
  <2>2. ASSUME NEW i \in Gecisler
        PROVE  \E j, k \in DOMAIN denetim :
                  /\ j < k /\ k < i
                  /\ denetim[j].eylem = "yukle" /\ denetim[k].eylem = "onayla"
                  /\ denetim[j].surum = denetim[i].surum /\ denetim[k].surum = denetim[i].surum
                  /\ denetim[j].kim # denetim[k].kim
    <3>1. PICK j, k : k < i /\ Zincir(denetim, j, k, denetim[i].surum)
      BY OkunanTanim DEF DenetimInv
    <3>2. QED
      BY <3>1 DEF Zincir
  <2>3. DenetimZinciri
    BY <2>2 DEF DenetimZinciri
  <2>4. QED
    BY <2>1, <2>3 DEF DenetimTam
<1>2. QED
  BY <1>1, InductiveInvariant, AuditInvariant, PTL

-----------------------------------------------------------------------------
\* The handler behind a rollback record, and what it makes active.
LEMMA GeriDonusAdimi ==
    ASSUME IInv, IInv', DenetimInv, [Next]_vars, Len(denetim') > Len(denetim),
           denetim'[Len(denetim')].eylem \in {"rollback", "cekirdek"}
    PROVE  \/ \E s \in Oncekiler : (\A t \in Oncekiler : t <= s) /\ AktifSurum' = s
           \/ Oncekiler = {} /\ AktifSurum' = 0
<1>1. ASSUME NEW kim \in Kisi, NEW s \in Nat \ {0},
             NEW eylem \in {"yukle", "onayla", "reddet", "aktiflestir"}, Denetle(kim, eylem, s)
      PROVE  FALSE
  <2>1. /\ Len(denetim') = Len(denetim) + 1
        /\ denetim'[Len(denetim) + 1] = [kim |-> kim, surum |-> s, eylem |-> eylem]
    BY <1>1, DenetleEki DEF IInv, DenetimInv
  <2>2. denetim'[Len(denetim')].eylem = eylem
    BY <2>1
  <2>3. QED
    BY <2>2
<1>2. DOMAIN surumler \subseteq Nat \ {0} /\ Len(surumler) + 1 \in Nat \ {0}
  BY DEF IInv, TypeOK
<1>3. ASSUME NEW kim \in Kisi, NEW c \in Icerik,
             YukleTaslak(c, kim) \/ YukleDegerlendir(c, kim)
      PROVE  FALSE
  BY <1>1, <1>2, <1>3 DEF YukleTaslak, YukleDegerlendir
<1>4. ASSUME NEW kim \in Kisi, NEW s \in DOMAIN surumler,
             Onayla(s, kim) \/ OnayReddet(s, kim) \/ Aktiflestir(s, kim)
      PROVE  FALSE
  BY <1>1, <1>2, <1>4 DEF Onayla, OnayReddet, Aktiflestir
<1>5. ASSUME NEW kim \in Kisi, NEW s \in DOMAIN surumler, GeriDonSurume(s, kim)
      PROVE  \E t \in Oncekiler : (\A u \in Oncekiler : u <= t) /\ AktifSurum' = t
  <2>1. s \in Oncekiler /\ (\A u \in Oncekiler : u <= s) /\ TekAktifYap(s)
    BY <1>5 DEF GeriDonSurume
  <2>2. AktifSurum' = s
    BY <2>1, GecisResmi
  <2>3. QED
    BY <2>1, <2>2
<1>6. ASSUME NEW kim \in Kisi, GeriDonCekirdege(kim)
      PROVE  Oncekiler = {} /\ AktifSurum' = 0
  BY <1>6, GeriDonCekirdegeDenetim DEF GeriDonCekirdege
<1>7. CASE denetim' = denetim
  BY <1>7 DEF IInv, TypeOK
<1>8. ASSUME NEW b \in Belge, BelgeKaydet(b) \/ BelgeSil(b)
      PROVE  FALSE
  BY <1>7, <1>8 DEF BelgeKaydet, BelgeSil, IInv, TypeOK
<1>9. QED
  BY <1>3, <1>4, <1>5, <1>6, <1>7, <1>8 DEF Next, vars

\* Rollback undoes the activation it follows when no archived version lies
\* between the two: geriDon's comment, as far as the code keeps it.
THEOREM RollbackUndoes == Spec => GeriDonSirali
<1>1. ASSUME IInv, IInv', DenetimInv, [Next]_vars, Len(denetim') > Len(denetim),
             denetim'[Len(denetim')].eylem \in {"rollback", "cekirdek"},
             NEW n \in Gecisler, NEW once, once = DenetimdenAktif(n - 1),
             denetim[n].eylem = "aktiflestir", \A m \in Gecisler : m <= n,
             once < AktifSurum,
             \A s \in once + 1 .. AktifSurum - 1 : surumler[s].durum # "arsiv"
      PROVE  AktifSurum' = once
  <2>1. /\ once = 0 \/ (once \in DOMAIN surumler /\ surumler[once].durum = "arsiv")
        /\ once \in Nat
    <3>1. YerineGecilen(n)
      BY <1>1, OkunanTanim DEF DenetimInv
    <3>2. once = Okunan(denetim, n - 1)
      BY <1>1, OkunanTanim
    <3>3. DOMAIN surumler \subseteq Nat
      BY <1>1 DEF IInv, TypeOK
    <3>4. QED
      BY <3>1, <3>2, <3>3 DEF YerineGecilen
  <2>2. once # 0 => once \in Oncekiler
    BY <1>1, <2>1 DEF Oncekiler
  <2>3. AktifSurum \in Nat
    BY <1>1, AktifSurumTanim DEF IInv
  <2>4. \A s \in Oncekiler : s \in Nat \ {0} /\ s <= once
    <3>1. TAKE s \in Oncekiler
    <3>2. s \in Nat \ {0} /\ s < AktifSurum /\ surumler[s].durum = "arsiv"
      BY <1>1 DEF Oncekiler, IInv, TypeOK
    <3>3. s \notin once + 1 .. AktifSurum - 1
      BY <1>1, <3>2
    <3>4. QED
      BY <2>1, <2>3, <3>2, <3>3
  <2>5. CASE once = 0
    <3>1. Oncekiler = {}
      BY <2>4, <2>5
    <3>2. QED
      BY <1>1, <2>5, <3>1, GeriDonusAdimi
  <2>6. CASE once # 0
    <3>1. PICK s \in Oncekiler : (\A t \in Oncekiler : t <= s) /\ AktifSurum' = s
      BY <1>1, <2>2, <2>6, GeriDonusAdimi
    <3>2. once <= s /\ s <= once /\ s \in Nat
      BY <2>2, <2>4, <2>6, <3>1
    <3>3. QED
      BY <2>1, <3>1, <3>2
  <2>7. QED
    BY <2>5, <2>6
<1> DEFINE Sirali ==
    Len(denetim') > Len(denetim) /\ denetim'[Len(denetim')].eylem \in {"rollback", "cekirdek"} =>
       \A n \in Gecisler :
          LET once == DenetimdenAktif(n - 1)
          IN /\ denetim[n].eylem = "aktiflestir"
             /\ \A m \in Gecisler : m <= n
             /\ once < AktifSurum
             /\ \A s \in once + 1 .. AktifSurum - 1 : surumler[s].durum # "arsiv"
             => AktifSurum' = once
<1>2. IInv /\ IInv' /\ DenetimInv /\ [Next]_vars => Sirali
  BY <1>1
<1>3. [][Sirali]_vars <=> GeriDonSirali
  BY DEF GeriDonSirali
<1> HIDE DEF Sirali
<1>4. Spec => [][Sirali]_vars
  BY <1>2, InductiveInvariant, AuditInvariant, PTL DEF Spec
<1>5. QED
  BY <1>3, <1>4, PTL

-----------------------------------------------------------------------------
(***************************************************************************)
(* OntologyAdmission.                                                      *)
(***************************************************************************)
\* The names of a sequence without repetitions are those of different places.
LEMMA TekrarsizTek ==
    ASSUME NEW X, NEW s \in Seq(X), Tekrarsiz(s), NEW i \in DOMAIN s, NEW j \in DOMAIN s, s[i].ad = s[j].ad
    PROVE  i = j
<1> DEFINE f == [n \in DOMAIN s |-> s[n].ad]
<1>1. DOMAIN s = 1 .. Len(s) /\ Len(s) \in Nat
  OBVIOUS
<1>2. IsFiniteSet(1 .. Len(s)) /\ Cardinality(1 .. Len(s)) = (IF 1 > Len(s) THEN 0 ELSE Len(s) - 1 + 1)
  BY <1>1, FS_Interval
<1>6. IsFiniteSet(DOMAIN s) /\ Cardinality(DOMAIN s) = Len(s)
  BY <1>1, <1>2
<1>3. f \in Surjection(DOMAIN s, Adlar(s))
  BY DEF Surjection, Adlar
<1>4. f \in Injection(DOMAIN s, Adlar(s))
  BY <1>6, <1>3, FS_Surjection DEF Tekrarsiz
<1>5. QED
  BY <1>4 DEF Injection, IsInjective

\* As many names as places, at most.
LEMMA AdlarSonlu ==
    ASSUME NEW X, NEW s \in Seq(X)
    PROVE  IsFiniteSet(Adlar(s))
<1> DEFINE f == [n \in DOMAIN s |-> s[n].ad]
<1>1. DOMAIN s = 1 .. Len(s) /\ Len(s) \in Nat
  OBVIOUS
<1>2. IsFiniteSet(DOMAIN s)
  BY <1>1, FS_Interval
<1>3. f \in Surjection(DOMAIN s, Adlar(s))
  BY DEF Surjection, Adlar
<1>4. QED
  BY <1>2, <1>3, FS_Surjection

\* Where the entries of a concatenation are, and what they are called.
LEMMA Ekli ==
    ASSUME NEW X, NEW s \in Seq(X), NEW t \in Seq(X)
    PROVE  /\ s \o t \in Seq(X)
           /\ Adlar(s \o t) = Adlar(s) \cup Adlar(t)
           /\ Range(s \o t) = Range(s) \cup Range(t)
           /\ \A i \in DOMAIN s : i \in DOMAIN (s \o t) /\ (s \o t)[i] = s[i]
           /\ \A i \in DOMAIN t : Len(s) + i \in DOMAIN (s \o t) /\ (s \o t)[Len(s) + i] = t[i]
           /\ \A i \in DOMAIN (s \o t) : i \in DOMAIN s \/ \E j \in DOMAIN t : i = Len(s) + j
<1>1. /\ s \o t \in Seq(X)
      /\ \A i \in DOMAIN s : i \in DOMAIN (s \o t) /\ (s \o t)[i] = s[i]
      /\ \A i \in DOMAIN t : Len(s) + i \in DOMAIN (s \o t) /\ (s \o t)[Len(s) + i] = t[i]
  OBVIOUS
<1>2. ASSUME NEW i \in DOMAIN (s \o t), i \notin DOMAIN s PROVE \E j \in DOMAIN t : i = Len(s) + j
  <2>1. i - Len(s) \in DOMAIN t /\ i = Len(s) + (i - Len(s))
    BY <1>2
  <2>2. QED
    BY <2>1
<1>3. \A i \in DOMAIN (s \o t) :
         \/ i \in DOMAIN s /\ (s \o t)[i] = s[i]
         \/ \E j \in DOMAIN t : (s \o t)[i] = t[j]
  BY <1>1, <1>2
<1>4. Adlar(s \o t) = Adlar(s) \cup Adlar(t) /\ Range(s \o t) = Range(s) \cup Range(t)
  <2> DEFINE u == s \o t
  <2>1. /\ \A i \in DOMAIN u : (\E j \in DOMAIN s : u[i] = s[j]) \/ \E j \in DOMAIN t : u[i] = t[j]
        /\ \A j \in DOMAIN s : \E i \in DOMAIN u : u[i] = s[j]
        /\ \A j \in DOMAIN t : \E i \in DOMAIN u : u[i] = t[j]
    BY <1>1, <1>3
  <2> HIDE DEF u
  <2>2. Adlar(u) = Adlar(s) \cup Adlar(t)
    BY <2>1 DEF Adlar
  <2>3. Range(u) = Range(s) \cup Range(t)
    BY <2>1 DEF Range
  <2>4. QED
    BY <2>2, <2>3 DEF u
<1>5. QED
  BY <1>1, <1>2, <1>4

\* Two sequences without repetitions and without a common name make one.
LEMMA EkliTekrarsiz ==
    ASSUME NEW X, NEW s \in Seq(X), NEW t \in Seq(X), Tekrarsiz(s), Tekrarsiz(t), Adlar(s) \cap Adlar(t) = {}
    PROVE  Tekrarsiz(s \o t)
<1>1. IsFiniteSet(Adlar(s)) /\ IsFiniteSet(Adlar(t))
  BY AdlarSonlu
<1>2. Cardinality(Adlar(s) \cup Adlar(t)) = Cardinality(Adlar(s)) + Cardinality(Adlar(t)) - 0
  BY <1>1, FS_Union, FS_EmptySet
<1>3. Len(s \o t) = Len(s) + Len(t) /\ Len(s) \in Nat /\ Len(t) \in Nat
  OBVIOUS
<1>4. Adlar(s \o t) = Adlar(s) \cup Adlar(t)
  BY Ekli
<1>5. Cardinality(Adlar(s)) = Len(s) /\ Cardinality(Adlar(t)) = Len(t)
  BY DEF Tekrarsiz
<1>6. QED
  BY <1>2, <1>3, <1>4, <1>5 DEF Tekrarsiz

\* What a Map keyed by name gives for a name that occurs once.
LEMMA SonuncuTek ==
    ASSUME NEW X, NEW s \in Seq(X), NEW i \in DOMAIN s, \A j \in DOMAIN s : s[j].ad = s[i].ad => j = i
    PROVE  Sonuncu(s, s[i].ad) = s[i]
<1>1. {j \in DOMAIN s : s[j].ad = s[i].ad} = {i} /\ i \in Int
  OBVIOUS
<1>2. Max({i}) = i
  BY <1>1 DEF Max
<1>3. QED
  BY <1>1, <1>2 DEF Sonuncu

\* A merge the admission allows: what is served has the shape of the contract,
\* its links have their ends, and it repeats a name only if the extension does.
LEMMA BirlesimDurust ==
    ASSUME NEW k \in Cekirdekler, NEW e \in Uzantilar, Birlesir(k, e)
    PROVE  /\ UclariVar(Birlesim(k, e))
           /\ TekAdli(e) => TekAdli(Birlesim(k, e))
<1>1. /\ k.tipler \in Seq(TipTuru) /\ k.linkler \in Seq(LinkTuru)
      /\ e.tipler \in Seq(TipTuru) /\ e.linkler \in Seq(LinkTuru)
      /\ TekAdli(k) /\ UclariVar(k)
  BY KabulVarsayim DEF Ontoloji
<1> DEFINE o == Birlesim(k, e)
<1>2. o.tipler = k.tipler \o e.tipler /\ o.linkler = k.linkler \o e.linkler
  BY DEF Birlesim
<1>3. /\ Adlar(o.tipler) = Adlar(k.tipler) \cup Adlar(e.tipler)
      /\ Range(o.linkler) = Range(k.linkler) \cup Range(e.linkler)
  BY <1>1, <1>2, Ekli
<1> HIDE DEF o
<1>4. UclariVar(o)
  BY <1>1, <1>3 DEF UclariVar, Birlesir, LinkEklenir
<1>5. Adlar(k.tipler) \cap Adlar(e.tipler) = {} /\ Adlar(k.linkler) \cap Adlar(e.linkler) = {}
  BY DEF Birlesir, TipEklenir, LinkEklenir, Adlar, Range
<1>6. TekAdli(e) => TekAdli(o)
  BY <1>1, <1>2, <1>5, EkliTekrarsiz DEF TekAdli
<1>7. QED
  BY <1>4, <1>6 DEF o

\* Of a link the extension adds, the merged ontology's entry is the link itself.
LEMMA LinkKendisi ==
    ASSUME NEW k \in Cekirdekler, NEW e \in Uzantilar, Birlesir(k, e), TekAdli(e), NEW l \in Range(e.linkler)
    PROVE  Sonuncu(Birlesim(k, e).linkler, l.ad) = l
<1>1. k.linkler \in Seq(LinkTuru) /\ e.linkler \in Seq(LinkTuru)
  BY KabulVarsayim DEF Ontoloji
<1> DEFINE s == k.linkler \o e.linkler
<1>2. PICK j \in DOMAIN e.linkler : l = e.linkler[j]
  BY DEF Range
<1>3. s \in Seq(LinkTuru) /\ Len(k.linkler) + j \in DOMAIN s /\ s[Len(k.linkler) + j] = l
  <2>1. PICK x, y : x = k.linkler /\ y = e.linkler
    OBVIOUS
  <2>2. x \o y \in Seq(LinkTuru) /\ Len(x) + j \in DOMAIN (x \o y) /\ (x \o y)[Len(x) + j] = y[j]
    <3>1. PICK T : x \in Seq(T) /\ y \in Seq(T) /\ T = LinkTuru
      BY <1>1, <2>1
    <3>2. j \in DOMAIN y
      BY <1>2, <2>1
    <3>3. x \o y \in Seq(T) /\ Len(x) + j \in DOMAIN (x \o y) /\ (x \o y)[Len(x) + j] = y[j]
      BY <3>1, <3>2, Ekli
    <3>4. QED
      BY <3>1, <3>3
  <2>3. QED
    BY <1>2, <2>1, <2>2
<1>4. Tekrarsiz(s)
  BY <1>1, BirlesimDurust DEF TekAdli, Birlesim
<1>5. Birlesim(k, e).linkler = s
  BY DEF Birlesim
<1> HIDE DEF s
<1>6. \A i \in DOMAIN s : s[i].ad = l.ad => i = Len(k.linkler) + j
  BY <1>3, <1>4, TekrarsizTek
<1>7. Sonuncu(s, s[Len(k.linkler) + j].ad) = s[Len(k.linkler) + j]
  BY <1>3, <1>6, SonuncuTek
<1>8. QED
  BY <1>3, <1>5, <1>7

\* The kernels, sources and versions the pipeline keeps.
Aday == [uzanti : Uzantilar, cekirdek : Cekirdekler, katalog : Kataloglar,
         durum : {"sinaniyor", "kabul", "etkin"}]

KabulTip ==
    /\ mim \in BOOLEAN /\ bayrak \in BOOLEAN
    /\ cekirdek \in Cekirdekler /\ katalog \in Kataloglar
    /\ adaylar \subseteq Aday

\* Sorgulanir over the sources c.
SorgulanirOnda(o, e, c) ==
    /\ \A t \in Range(e.tipler) : \A p \in Range(t.ozellik) :
           t.veri \in DOMAIN c /\ p.ad \in DOMAIN c[t.veri] /\ c[t.veri][p.ad] = p.tur
    /\ \A l \in Range(e.linkler) : \A u \in Uclari(o, l) :
           u[1].veri \in DOMAIN c => u[2] \in DOMAIN c[u[1].veri]

Anahtarli(o, e) == \A l \in Range(e.linkler) : \A u \in Uclari(o, l) : u[2] \in Adlar(u[1].ozellik)

\* What the stages have found of a version, for the kernel and sources they saw.
Sinandi(a, m) ==
    /\ Birlesir(a.cekirdek, a.uzanti)
    /\ SorgulanirOnda(Birlesim(a.cekirdek, a.uzanti), a.uzanti, a.katalog)
    /\ m /\ a.durum # "sinaniyor" /\ TekAdli(a.uzanti) => Anahtarli(Birlesim(a.cekirdek, a.uzanti), a.uzanti)

\* Every version kept has passed its stages and at most one is in service.
KabulInv ==
    /\ KabulTip
    /\ \A a \in adaylar : Sinandi(a, mim)
    /\ \A a, b \in adaylar : a.durum = "etkin" /\ b.durum = "etkin" => a = b

\* Another status is all that Durumla changes.
LEMMA DurumlaTanim ==
    ASSUME NEW a \in Aday, NEW d \in {"sinaniyor", "kabul", "etkin"}
    PROVE  /\ Durumla(a, d) \in Aday
           /\ Durumla(a, d).durum = d
           /\ Durumla(a, d).uzanti = a.uzanti
           /\ Durumla(a, d).cekirdek = a.cekirdek
           /\ Durumla(a, d).katalog = a.katalog
BY DEF Durumla, Aday

\* A version that passed stage 3 may be activated and taken out of service.
LEMMA SinandiKalir ==
    ASSUME NEW a \in Aday, NEW m, Sinandi(a, m), a.durum # "sinaniyor", NEW d \in {"kabul", "etkin"}
    PROVE  Sinandi(Durumla(a, d), m)
BY DurumlaTanim DEF Sinandi

\* Nothing is in service once all is closed, and what was tested stays tested.
LEMMA KapatTanim ==
    ASSUME KabulInv
    PROVE  \A b \in Kapat : b \in Aday /\ b.durum # "etkin" /\ Sinandi(b, mim)
<1>1. ASSUME NEW b \in Kapat PROVE b \in Aday /\ b.durum # "etkin" /\ Sinandi(b, mim)
  <2>1. PICK a \in adaylar : b = (IF a.durum = "etkin" THEN Durumla(a, "kabul") ELSE a)
    BY DEF Kapat
  <2>2. a \in Aday /\ Sinandi(a, mim)
    BY DEF KabulInv, KabulTip
  <2>3. CASE a.durum = "etkin"
    BY <2>1, <2>2, <2>3, DurumlaTanim, SinandiKalir
  <2>4. CASE a.durum # "etkin"
    BY <2>1, <2>2, <2>4
  <2>5. QED
    BY <2>3, <2>4
<1>2. QED
  BY <1>1

\* Each step keeps KabulInv.
LEMMA KabulAdim == KabulInv /\ [KabulNext]_kabulVars => KabulInv'
<1> SUFFICES ASSUME KabulInv, [KabulNext]_kabulVars PROVE KabulInv'
  OBVIOUS
<1>0. KabulTip
  BY DEF KabulInv
<1>1. ASSUME NEW e \in Uzantilar, Kademe2Gecer(e) PROVE KabulInv'
  <2> DEFINE y == [uzanti |-> e, cekirdek |-> cekirdek, katalog |-> katalog, durum |-> "sinaniyor"]
             o == Birlesim(cekirdek, e)
  <2>1. adaylar' = adaylar \cup {y} /\ mim' = mim /\ bayrak' = bayrak /\ cekirdek' = cekirdek /\ katalog' = katalog
    BY <1>1 DEF Kademe2Gecer
  <2>2. y \in Aday
    BY <1>0 DEF Aday, KabulTip
  <2>3. Birlesir(cekirdek, e)
    BY <1>1 DEF Kademe2Gecer, Kademe2
  <2>4. SorgulanirOnda(o, e, katalog)
    <3>1. ASSUME NEW t \in Range(e.tipler), NEW p \in Range(t.ozellik)
          PROVE  t.veri \in DOMAIN katalog /\ p.ad \in DOMAIN katalog[t.veri] /\ katalog[t.veri][p.ad] = p.tur
      BY <1>1 DEF Kademe2Gecer, Kademe2, TipBagli
    <3>2. ASSUME NEW l \in Range(e.linkler), NEW u \in Uclari(o, l)
          PROVE  u[1].veri \in DOMAIN katalog => u[2] \in DOMAIN katalog[u[1].veri]
      <4>1. UcBagli(o, l.kimden, l.kimdenAnahtar) /\ UcBagli(o, l.kime, l.kimeAnahtar)
        BY <1>1 DEF Kademe2Gecer, Kademe2
      <4>2. \/ u = <<Sonuncu(o.tipler, l.kimden), l.kimdenAnahtar>>
            \/ u = <<Sonuncu(o.tipler, l.kime), l.kimeAnahtar>>
        BY <3>2 DEF Uclari
      <4> HIDE DEF o
      <4>3. QED
        BY <4>1, <4>2 DEF UcBagli
    <3>3. QED
      BY <3>1, <3>2 DEF SorgulanirOnda
  <2>5. Sinandi(y, mim)
    BY <2>3, <2>4 DEF Sinandi
  <2>6. y.durum = "sinaniyor"
    OBVIOUS
  <2> HIDE DEF y
  <2>7. QED
    BY <1>0, <2>1, <2>2, <2>5, <2>6 DEF KabulInv, KabulTip, Sinandi, SorgulanirOnda, Anahtarli
<1>2. ASSUME NEW a \in adaylar, Kademe3Biter(a) PROVE KabulInv'
  <2> DEFINE y == Durumla(a, "kabul")
             o == Birlesim(a.cekirdek, a.uzanti)
  <2>1. mim' = mim /\ bayrak' = bayrak /\ cekirdek' = cekirdek /\ katalog' = katalog
    BY <1>2 DEF Kademe3Biter
  <2>2. a \in Aday /\ Sinandi(a, mim)
    BY <1>0 DEF KabulInv, KabulTip
  <2>3. y \in Aday /\ y.durum = "kabul" /\ y.uzanti = a.uzanti /\ y.cekirdek = a.cekirdek /\ y.katalog = a.katalog
    BY <2>2, DurumlaTanim
  <2>4. ASSUME Kademe3(a.cekirdek, a.uzanti) PROVE Sinandi(y, mim)
    <3>1. ASSUME mim, TekAdli(a.uzanti), NEW l \in Range(a.uzanti.linkler), NEW u \in Uclari(o, l)
          PROVE  u[2] \in Adlar(u[1].ozellik)
      <4>1. Gezilir(o, l)
        BY <2>4 DEF Kademe3
      <4>2. Sonuncu(o.linkler, l.ad) = l
        BY <2>2, <3>1, LinkKendisi DEF Sinandi, Aday
      <4>3. SqlAnahtar(o, l.kimden, l.kimdenAnahtar) /\ SqlAnahtar(o, l.kime, l.kimeAnahtar)
        BY <3>1, <4>1, <4>2 DEF Gezilir
      <4>4. \/ u = <<Sonuncu(o.tipler, l.kimden), l.kimdenAnahtar>>
            \/ u = <<Sonuncu(o.tipler, l.kime), l.kimeAnahtar>>
        BY <3>1 DEF Uclari
      <4> HIDE DEF o
      <4>5. QED
        BY <4>3, <4>4 DEF SqlAnahtar
    <3>2. mim /\ TekAdli(a.uzanti) => Anahtarli(o, a.uzanti)
      BY <3>1 DEF Anahtarli
    <3>3. QED
      BY <2>2, <2>3, <3>2 DEF Sinandi
  <2>5. \A b \in adaylar' : b \in adaylar \/ (b = y /\ Kademe3(a.cekirdek, a.uzanti))
    BY <1>2 DEF Kademe3Biter
  <2> HIDE DEF y
  <2>6. \A b \in adaylar' : b \in Aday /\ Sinandi(b, mim) /\ (b.durum = "etkin" => b \in adaylar)
    BY <1>0, <2>3, <2>4, <2>5 DEF KabulInv, KabulTip
  <2>7. QED
    BY <1>0, <2>1, <2>6 DEF KabulInv, KabulTip, Sinandi, SorgulanirOnda, Anahtarli
<1>3. ASSUME NEW a \in adaylar, Etkinlesir(a) PROVE KabulInv'
  <2>1. mim' = mim /\ bayrak' = bayrak /\ cekirdek' = cekirdek /\ katalog' = katalog /\ a.durum = "kabul"
    BY <1>3 DEF Etkinlesir
  <2> DEFINE y == Durumla(a, "etkin")
  <2>2. a \in Aday /\ Sinandi(a, mim)
    BY <1>0 DEF KabulInv, KabulTip
  <2>3. y \in Aday /\ Sinandi(y, mim)
    BY <2>1, <2>2, DurumlaTanim, SinandiKalir
  <2>4. \A b \in adaylar' : b \in Kapat \/ b = y
    BY <1>3 DEF Etkinlesir
  <2> HIDE DEF y
  <2>5. \A b \in adaylar' : b \in Aday /\ Sinandi(b, mim) /\ (b.durum = "etkin" => b = y)
    BY <2>3, <2>4, KapatTanim
  <2>6. QED
    BY <1>0, <2>1, <2>5 DEF KabulInv, KabulTip, Sinandi, SorgulanirOnda, Anahtarli
<1>4. ASSUME CekirdegeDoner PROVE KabulInv'
  <2>1. mim' = mim /\ bayrak' = bayrak /\ cekirdek' = cekirdek /\ katalog' = katalog /\ adaylar' = Kapat
    BY <1>4 DEF CekirdegeDoner
  <2>2. QED
    BY <1>0, <2>1, KapatTanim DEF KabulInv, KabulTip, Sinandi, SorgulanirOnda, Anahtarli
<1>5. ASSUME KatalogDegisir \/ Dagitim PROVE KabulInv'
  <2>1. /\ mim' = mim /\ bayrak' \in BOOLEAN /\ cekirdek' \in Cekirdekler /\ katalog' \in Kataloglar
        /\ adaylar' \subseteq adaylar
    BY <1>0, <1>5 DEF KatalogDegisir, Dagitim, KabulTip
  <2>2. QED
    BY <1>0, <2>1 DEF KabulInv, KabulTip, Sinandi, SorgulanirOnda, Anahtarli
<1>6. CASE UNCHANGED kabulVars
  BY <1>6 DEF KabulInv, KabulTip, kabulVars, Sinandi, SorgulanirOnda, Anahtarli
<1>7. QED
  BY <1>1, <1>2, <1>3, <1>4, <1>5, <1>6 DEF KabulNext

\* For any kernels without repetitions or loose links, any uploaded bodies, any
\* data sources and any number of versions kept: what is served names nothing
\* twice and ties no link to an unknown type, and a version admitted against the
\* kernel in service is served and can be queried while the sources are as then.
THEOREM ServedOntologySound == KabulSpec => []ServisDurust
<1>1. KabulInit => KabulInv
  BY DEF KabulInit, KabulInv, KabulTip
<1>2. KabulInv => ServisDurust
  <2> SUFFICES ASSUME KabulInv PROVE ServisDurust
    OBVIOUS
  <2> DEFINE o == GetOntology
  <2>1. /\ \A a \in Etkinler : a \in Aday /\ Sinandi(a, mim) /\ a.durum = "etkin"
        /\ \A a, b \in Etkinler : a = b
        /\ cekirdek \in Cekirdekler
    BY DEF KabulInv, KabulTip, Etkinler
  <2>2. ASSUME NEW a \in Etkinler, bayrak, Birlesir(cekirdek, a.uzanti)
        PROVE  o = Birlesim(cekirdek, a.uzanti)
    <3>1. (CHOOSE b \in Etkinler : TRUE) = a
      BY <2>1
    <3>2. QED
      BY <2>2, <3>1 DEF GetOntology
  <2> DEFINE Saglam == UclariVar(o) /\ ((\A a \in Etkinler : TekAdli(a.uzanti)) => TekAdli(o))
  <2>3. ASSUME \E a \in Etkinler : bayrak /\ Birlesir(cekirdek, a.uzanti) PROVE Saglam
    <3>1. PICK a \in Etkinler : bayrak /\ Birlesir(cekirdek, a.uzanti)
      BY <2>3
    <3>2. a.uzanti \in Uzantilar
      BY <2>1 DEF Aday
    <3>3. o = Birlesim(cekirdek, a.uzanti)
      BY <2>2, <3>1
    <3>4. UclariVar(o) /\ (TekAdli(a.uzanti) => TekAdli(o))
      BY <2>1, <3>1, <3>2, <3>3, BirlesimDurust
    <3>5. QED
      BY <3>1, <3>4
  <2>4. ASSUME ~\E a \in Etkinler : bayrak /\ Birlesir(cekirdek, a.uzanti) PROVE Saglam
    <3>1. o = cekirdek
      BY <2>4 DEF GetOntology
    <3>2. QED
      BY <2>1, <3>1, KabulVarsayim
  <2>5. Saglam
    BY <2>3, <2>4
  <2>6. ASSUME NEW a \in Etkinler, bayrak, cekirdek = a.cekirdek, TekAdli(a.uzanti)
        PROVE  /\ o = Birlesim(cekirdek, a.uzanti)
               /\ katalog = a.katalog => Sorgulanir(o, a.uzanti)
               /\ mim => Anahtarli(o, a.uzanti)
    <3>1. Sinandi(a, mim) /\ a.durum # "sinaniyor"
      BY <2>1
    <3>2. o = Birlesim(cekirdek, a.uzanti)
      BY <2>2, <2>6, <3>1 DEF Sinandi
    <3> HIDE DEF o
    <3>3. katalog = a.katalog => Sorgulanir(o, a.uzanti)
      BY <2>6, <3>1, <3>2 DEF Sinandi, SorgulanirOnda, Sorgulanir
    <3>4. mim => Anahtarli(o, a.uzanti)
      BY <2>6, <3>1, <3>2 DEF Sinandi
    <3>5. QED
      BY <3>2, <3>3, <3>4
  <2>7. QED
    BY <2>5, <2>6 DEF ServisDurust, Anahtarli
<1>3. QED
  BY <1>1, <1>2, KabulAdim, PTL DEF KabulSpec
=============================================================================
