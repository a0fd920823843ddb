------------------------ MODULE LiveDefinitions_proofs ------------------------
(***************************************************************************)
(* Proofs about LiveDefinitions, for any set of ids and any run length.    *)
(***************************************************************************)
EXTENDS LiveDefinitions, WellFoundedInduction, TLAPS

\* Registered now, or registered once.
KayitGormus == {d \in Id : asama[d] \in {"kayitli", "silindi"}}

\* Creation stamps are in the past, and a definition is stored after it is
\* stamped.
ZamanInv ==
    /\ \A d \in Id : asama[d] \in {"cozuluyor", "kayitli", "silindi"} => olusma[d] < saat
    /\ \A d \in KayitGormus : kayit[d] < saat /\ olusma[d] < kayit[d]
    /\ \A d \in Id : asama[d] = "silindi" => silinme[d] < saat

\* Whatever a list reported, and whatever passed the check, had been registered;
\* sources are older than what refers to them.
KaynakInv ==
    /\ \A d \in Id : asama[d] = "listeleniyor" => bilinen[d] \subseteq KayitGormus
    /\ \A d \in Id : asama[d] \in {"cozuluyor", "kayitli", "silindi"} =>
          \A r \in kaynak[d] : r \in KayitGormus /\ kayit[r] < olusma[d]

IInv ==
    /\ TypeOK
    /\ ZamanInv
    /\ KaynakInv
    /\ SarkanYalnizYarista

\* The least number principle, for a set indexed by natural numbers.
LEMMA EnKucuk ==
    ASSUME NEW S, S # {}, NEW f, \A d \in S : f[d] \in Nat
    PROVE  \E d \in S : \A e \in S : f[d] <= f[e]
<1> DEFINE T == {f[d] : d \in S}
<1>1. T \subseteq Nat /\ T # {}
  OBVIOUS
<1>2. \E x \in T : \A y \in T : ~ (<<y, x>> \in OpToRel(<, Nat))
  BY <1>1, NatLessThanWellFounded, WFMin, Zenon
<1>3. PICK x \in T : \A y \in T : ~ (<<y, x>> \in OpToRel(<, Nat))
  BY <1>2
<1>4. \A y \in T : ~ (y < x)
  BY <1>1, <1>3 DEF OpToRel
<1>5. PICK d \in S : x = f[d]
  BY <1>3
<1>6. \A e \in S : f[e] \in T /\ f[e] \in Nat
  OBVIOUS
<1>7. \A e \in S : ~ (f[e] < f[d])
  BY <1>4, <1>5, <1>6
<1>8. \A e \in S : f[d] <= f[e]
  BY <1>6, <1>7
<1>9. QED
  BY <1>8

\* A definition older than each of a set that contains its sources has none of
\* them in the set: no cycle.
LEMMA DongusuzSonuc == IInv => Dongusuz
<1> SUFFICES ASSUME IInv,
                    NEW S \in SUBSET {d \in Id : asama[d] \in {"cozuluyor", "kayitli", "silindi"}},
                    S # {}
             PROVE  \E d \in S : kaynak[d] \cap S = {}
  BY DEF Dongusuz
<1>1. \A d \in S : olusma[d] \in Nat
  BY DEF IInv, TypeOK
<1>2. PICK d \in S : \A e \in S : olusma[d] <= olusma[e]
  BY <1>1, EnKucuk
<1>3. ASSUME NEW r \in kaynak[d] \cap S
      PROVE  FALSE
  <2>1. r \in KayitGormus /\ kayit[r] < olusma[d]
    BY <1>3 DEF IInv, KaynakInv
  <2>2. olusma[r] < kayit[r]
    BY <2>1 DEF IInv, ZamanInv
  <2>3. olusma[r] \in Nat /\ kayit[r] \in Nat /\ olusma[d] \in Nat
    BY <1>1, <1>3 DEF IInv, TypeOK
  <2>4. QED
    BY <1>2, <1>3, <2>1, <2>2, <2>3
<1>4. QED
  BY <1>3

LEMMA InitIInv == Init => IInv
BY DEF Init, IInv, TypeOK, Asama, ZamanInv, KaynakInv, KayitGormus, SarkanYalnizYarista, Kayitli

LEMMA ListeleIInv ==
    ASSUME IInv, NEW d \in Id, NEW refs \in SUBSET Id, OlusturListele(d, refs)
    PROVE  IInv'
<1>1. /\ asama[d] = "bos"
      /\ asama' = [asama EXCEPT ![d] = "listeleniyor"]
      /\ kaynak' = [kaynak EXCEPT ![d] = refs]
      /\ bilinen' = [bilinen EXCEPT ![d] = Kayitli]
      /\ okunacak' = okunacak /\ belgeAtif' = belgeAtif
      /\ olusma' = olusma /\ kayit' = kayit /\ silinme' = silinme /\ saat' = saat
  BY DEF OlusturListele, zaman
<1>2. TypeOK'
  BY <1>1 DEF IInv, TypeOK, Asama, Kayitli
<1>3. KayitGormus' = KayitGormus /\ Kayitli' = Kayitli
  BY <1>1 DEF IInv, TypeOK, KayitGormus, Kayitli
<1>4. Kayitli \subseteq KayitGormus
  BY DEF KayitGormus, Kayitli
<1>5. ZamanInv'
  BY <1>1, <1>3 DEF IInv, TypeOK, ZamanInv
<1>6. KaynakInv'
  BY <1>1, <1>3, <1>4 DEF IInv, TypeOK, KaynakInv
<1>7. SarkanYalnizYarista'
  BY <1>1, <1>3 DEF IInv, TypeOK, SarkanYalnizYarista, Kayitli
<1>8. QED
  BY <1>2, <1>5, <1>6, <1>7 DEF IInv

LEMMA DenetleIInv ==
    ASSUME IInv, NEW d \in Id, OlusturDenetle(d)
    PROVE  IInv'
<1>1. /\ asama[d] = "listeleniyor" /\ kaynak[d] \subseteq bilinen[d]
      /\ saat' = saat + 1
      /\ asama' = [asama EXCEPT ![d] = "cozuluyor"]
      /\ okunacak' = [okunacak EXCEPT ![d] = kaynak[d]]
      /\ olusma' = [olusma EXCEPT ![d] = saat]
      /\ kaynak' = kaynak /\ bilinen' = bilinen /\ belgeAtif' = belgeAtif
      /\ kayit' = kayit /\ silinme' = silinme
  BY DEF OlusturDenetle, KaynaklarBilinir, Tik
<1>2. TypeOK'
  BY <1>1 DEF IInv, TypeOK, Asama
<1>3. KayitGormus' = KayitGormus /\ Kayitli' = Kayitli /\ d \notin KayitGormus
  BY <1>1 DEF IInv, TypeOK, KayitGormus, Kayitli
<1>4. ZamanInv'
  BY <1>1, <1>3 DEF IInv, TypeOK, ZamanInv, KayitGormus
<1>5. \A r \in kaynak[d] : r \in KayitGormus /\ kayit[r] < saat
  BY <1>1 DEF IInv, KaynakInv, ZamanInv
<1>6. KaynakInv'
  BY <1>1, <1>3, <1>5 DEF IInv, TypeOK, KaynakInv
<1>7. SarkanYalnizYarista'
  BY <1>1, <1>3 DEF IInv, TypeOK, SarkanYalnizYarista, Kayitli
<1>8. QED
  BY <1>2, <1>4, <1>6, <1>7 DEF IInv

LEMMA KaydetIInv ==
    ASSUME IInv, NEW d \in Id, OlusturKaydet(d)
    PROVE  IInv'
<1>1. /\ asama[d] = "cozuluyor"
      /\ saat' = saat + 1
      /\ asama' = [asama EXCEPT ![d] = "kayitli"]
      /\ kayit' = [kayit EXCEPT ![d] = saat]
      /\ kaynak' = kaynak /\ bilinen' = bilinen /\ belgeAtif' = belgeAtif
      /\ okunacak' = okunacak /\ olusma' = olusma /\ silinme' = silinme
  BY DEF OlusturKaydet, Tik
<1>2. TypeOK'
  BY <1>1 DEF IInv, TypeOK, Asama
<1>3. KayitGormus' = KayitGormus \cup {d} /\ Kayitli' = Kayitli \cup {d} /\ d \notin KayitGormus
  BY <1>1 DEF IInv, TypeOK, KayitGormus, Kayitli
<1>4. ZamanInv'
  <2>1. saat \in Nat /\ \A e \in Id : olusma[e] \in Nat /\ kayit[e] \in Nat /\ silinme[e] \in Nat
    BY DEF IInv, TypeOK
  <2>2. \A e \in Id : asama'[e] \in {"cozuluyor", "kayitli", "silindi"} => olusma'[e] < saat'
    BY <1>1, <2>1 DEF IInv, TypeOK, ZamanInv
  <2>3. \A e \in KayitGormus' : kayit'[e] < saat' /\ olusma'[e] < kayit'[e]
    BY <1>1, <1>3, <2>1 DEF IInv, TypeOK, ZamanInv, KayitGormus
  <2>4. \A e \in Id : asama'[e] = "silindi" => silinme'[e] < saat'
    BY <1>1, <2>1 DEF IInv, TypeOK, ZamanInv
  <2>5. QED
    BY <2>2, <2>3, <2>4 DEF ZamanInv
<1>5. KaynakInv'
  BY <1>1, <1>3 DEF IInv, TypeOK, KaynakInv
<1>6. \A r \in kaynak[d] \ Kayitli : asama[r] = "silindi" /\ kayit[r] < olusma[d] /\ silinme[r] < saat
  BY <1>1 DEF IInv, KaynakInv, ZamanInv, KayitGormus, Kayitli
<1>7. ASSUME NEW e \in Kayitli', NEW r \in kaynak'[e] \ Kayitli'
      PROVE  asama'[r] = "silindi" /\ kayit'[r] < olusma'[e] /\ silinme'[r] < kayit'[e]
  <2>1. r # d /\ r \in kaynak[e] \ Kayitli /\ r \in Id
    BY <1>1, <1>3, <1>7 DEF IInv, TypeOK, Kayitli
  <2>2. asama'[r] = asama[r] /\ kayit'[r] = kayit[r]
    BY <1>1, <2>1 DEF IInv, TypeOK
  <2>3. CASE e = d
    BY <1>1, <1>6, <2>1, <2>2, <2>3 DEF IInv, TypeOK
  <2>4. CASE e # d
    <3>1. e \in Kayitli /\ kayit'[e] = kayit[e]
      BY <1>1, <1>3, <1>7, <2>4 DEF IInv, TypeOK
    <3>2. QED
      BY <1>1, <2>1, <2>2, <3>1 DEF IInv, SarkanYalnizYarista
  <2>5. QED
    BY <2>3, <2>4
<1>8. SarkanYalnizYarista'
  BY <1>7 DEF SarkanYalnizYarista
<1>9. QED
  BY <1>2, <1>4, <1>5, <1>8 DEF IInv

LEMMA SilIInv ==
    ASSUME IInv, NEW d \in Id, Sil(d)
    PROVE  IInv'
<1>1. /\ asama[d] = "kayitli"
      /\ \A e \in Kayitli \ {d} : d \notin kaynak[e]
      /\ saat' = saat + 1
      /\ asama' = [asama EXCEPT ![d] = "silindi"]
      /\ silinme' = [silinme EXCEPT ![d] = saat]
      /\ kaynak' = kaynak /\ bilinen' = bilinen /\ belgeAtif' = belgeAtif
      /\ okunacak' = okunacak /\ olusma' = olusma /\ kayit' = kayit
  BY DEF Sil, Tik, Bagimlilar
<1>2. TypeOK'
  BY <1>1 DEF IInv, TypeOK, Asama
<1>3. KayitGormus' = KayitGormus /\ Kayitli' = Kayitli \ {d}
  BY <1>1 DEF IInv, TypeOK, KayitGormus, Kayitli
<1>4. ZamanInv'
  <2>1. saat \in Nat /\ \A e \in Id : olusma[e] \in Nat /\ kayit[e] \in Nat /\ silinme[e] \in Nat
    BY DEF IInv, TypeOK
  <2>2. \A e \in Id : asama'[e] \in {"cozuluyor", "kayitli", "silindi"} => olusma'[e] < saat'
    BY <1>1, <2>1 DEF IInv, TypeOK, ZamanInv
  <2>3. \A e \in KayitGormus' : kayit'[e] < saat' /\ olusma'[e] < kayit'[e]
    BY <1>1, <1>3, <2>1 DEF IInv, TypeOK, ZamanInv, KayitGormus
  <2>4. \A e \in Id : asama'[e] = "silindi" => silinme'[e] < saat'
    BY <1>1, <2>1 DEF IInv, TypeOK, ZamanInv
  <2>5. QED
    BY <2>2, <2>3, <2>4 DEF ZamanInv
<1>5. KaynakInv'
  BY <1>1, <1>3 DEF IInv, TypeOK, KaynakInv
<1>6. ASSUME NEW e \in Kayitli', NEW r \in kaynak'[e] \ Kayitli'
      PROVE  asama'[r] = "silindi" /\ kayit'[r] < olusma'[e] /\ silinme'[r] < kayit'[e]
  <2>1. e \in Kayitli \ {d} /\ r # d /\ r \in kaynak[e] \ Kayitli /\ r \in Id
    BY <1>1, <1>3, <1>6 DEF IInv, TypeOK, Kayitli
  <2>2. asama'[r] = asama[r] /\ silinme'[r] = silinme[r]
    BY <1>1, <2>1 DEF IInv, TypeOK
  <2>3. QED
    BY <1>1, <2>1, <2>2 DEF IInv, SarkanYalnizYarista
<1>7. SarkanYalnizYarista'
  BY <1>6 DEF SarkanYalnizYarista
<1>8. QED
  BY <1>2, <1>4, <1>5, <1>7 DEF IInv

\* Reading a source, a refusal, and changes of the saved documents.
LEMMA DigerIInv ==
    ASSUME IInv,
           \/ \E d, r \in Id : OlusturOku(d, r)
           \/ \E d \in Id : OlusturReddet(d) \/ BelgeAtifEkle(d) \/ BelgeAtifCikar(d)
           \/ UNCHANGED vars
    PROVE  IInv'
<1>1. /\ kaynak' = kaynak /\ bilinen' = bilinen
      /\ olusma' = olusma /\ kayit' = kayit /\ silinme' = silinme /\ saat' = saat
      /\ \/ asama' = asama
         \/ \E d \in Id : /\ asama[d] \in {"listeleniyor", "cozuluyor"}
                          /\ asama' = [asama EXCEPT ![d] = "reddedildi"]
  BY DEF OlusturOku, OlusturReddet, BelgeAtifEkle, BelgeAtifCikar, vars, tanim, zaman
<1>2. okunacak' \in [Id -> SUBSET Id] /\ belgeAtif' \subseteq Id
  BY DEF OlusturOku, OlusturReddet, BelgeAtifEkle, BelgeAtifCikar, vars, tanim, zaman,
         IInv, TypeOK, Kayitli
<1>3. TypeOK'
  BY <1>1, <1>2 DEF IInv, TypeOK, Asama
<1>4. KayitGormus' = KayitGormus /\ Kayitli' = Kayitli
  BY <1>1 DEF IInv, TypeOK, KayitGormus, Kayitli
<1>5. \A d \in Id : \/ asama'[d] = asama[d]
                    \/ asama'[d] = "reddedildi" /\ asama[d] \in {"listeleniyor", "cozuluyor"}
  BY <1>1 DEF IInv, TypeOK
<1>6. ZamanInv'
  BY <1>1, <1>4, <1>5 DEF IInv, ZamanInv
<1>7. KaynakInv'
  BY <1>1, <1>4, <1>5 DEF IInv, KaynakInv
<1>8. SarkanYalnizYarista'
  <2> SUFFICES ASSUME NEW e \in Kayitli, NEW r \in kaynak[e] \ Kayitli
               PROVE  asama'[r] = "silindi" /\ kayit[r] < olusma[e] /\ silinme[r] < kayit[e]
    BY <1>1, <1>4 DEF SarkanYalnizYarista
  <2>1. asama[r] = "silindi" /\ kayit[r] < olusma[e] /\ silinme[r] < kayit[e]
    BY DEF IInv, SarkanYalnizYarista
  <2>2. r \in Id
    BY DEF IInv, TypeOK, Kayitli
  <2>3. QED
    BY <1>5, <2>1, <2>2
<1>9. QED
  BY <1>3, <1>6, <1>7, <1>8 DEF IInv

LEMMA NextIInv == IInv /\ [Next]_vars => IInv'
BY ListeleIInv, DenetleIInv, KaydetIInv, SilIInv, DigerIInv DEF Next

THEOREM InductiveInvariant == Spec => []IInv
BY InitIInv, NextIInv, PTL DEF Spec

\* The creation and removal handlers keep the state well typed.
THEOREM TypeCorrect == Spec => []TypeOK
<1>1. IInv => TypeOK
  BY DEF IInv
<1>2. QED
  BY <1>1, InductiveInvariant, PTL

\* Live datasets never refer to each other in a cycle, however creations and
\* removals overlap: immutable definitions make the cycle impossible.
THEOREM Acyclic == Spec => []Dongusuz
BY DongusuzSonuc, InductiveInvariant, PTL

\* A missing source was removed while its dependent was still being created.
THEOREM DanglingOnlyByRace == Spec => []SarkanYalnizYarista
<1>1. IInv => SarkanYalnizYarista
  BY DEF IInv
<1>2. QED
  BY <1>1, InductiveInvariant, PTL

=============================================================================
