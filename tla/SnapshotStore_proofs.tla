------------------------- MODULE SnapshotStore_proofs -------------------------
(***************************************************************************)
(* SnapshotStore: every reachable state is well typed, and stored          *)
(* documents differ from what the clients were told only after one of the  *)
(* causes in sebep, for any number of processes and documents and in both  *)
(* deployments.  While nothing of the kind has happened one process runs   *)
(* at a time and has at most one save in flight, which carries everything  *)
(* acknowledged.                                                           *)
(***************************************************************************)
EXTENDS SnapshotStore, SequenceTheorems, TLAPS

Tutarli ==
    /\ \A p, q \in acik : p = q
    /\ \A p \in Surec \ acik : ucan[p] = <<>>
    /\ \A p \in Surec : Len(ucan[p]) \in {0, 1} /\ (ucan[p] # <<>> => kova = TRUE)
    /\ Saklanan

IInv == TypeOK /\ (sebep = {} => Tutarli)

\* What a start finds is a content.  (onModuleInit.)
LEMMA YuklenenIcerik == TypeOK => Yuklenen \in Icerik /\ EskiIcerik \in Icerik /\ Bos \in Icerik
  BY EskiVarsayim DEF TypeOK, Yuklenen, EskiIcerik, Bos, Icerik

\* Taking a save out of the sequence in flight leaves such a sequence, the empty
\* one if it was the only one.  (The answer to a save.)
LEMMA CikarTip ==
  ASSUME NEW S, NEW dizi \in Seq(S), NEW i \in DOMAIN dizi
  PROVE  /\ Cikar(dizi, i) \in Seq(S)
         /\ Len(dizi) = 1 => Cikar(dizi, i) = <<>> /\ dizi[i] = dizi[Len(dizi)]
  <1>1. i \in 1 .. Len(dizi) /\ Len(dizi) \in Nat  OBVIOUS
  <1>2. SubSeq(dizi, 1, i - 1) \in Seq(S) /\ SubSeq(dizi, i + 1, Len(dizi)) \in Seq(S)
    BY <1>1
  <1>3. Cikar(dizi, i) \in Seq(S)  BY <1>2 DEF Cikar
  <1>4. ASSUME Len(dizi) = 1 PROVE Cikar(dizi, i) = <<>>
    <2>1. i = 1  BY <1>1, <1>4
    <2>2. Len(SubSeq(dizi, 1, 0)) = 0 /\ Len(SubSeq(dizi, 2, 1)) = 0  BY <1>4
    <2>3. SubSeq(dizi, 1, 0) = <<>> /\ SubSeq(dizi, 2, 1) = <<>>
      BY <2>2, <1>2, <2>1, <1>4
    <2> QED  BY <2>1, <2>3, <1>4 DEF Cikar
  <1>5. Len(dizi) = 1 => dizi[i] = dizi[Len(dizi)]  BY <1>1
  <1> QED  BY <1>3, <1>4, <1>5

-----------------------------------------------------------------------------
LEMMA BaslatKosulu == Init => IInv
<1> SUFFICES ASSUME Init PROVE IInv  OBVIOUS
<1>1. Yuklenen \in Icerik /\ Bos \in Icerik
  BY EskiVarsayim DEF Init, Yuklenen, EskiIcerik, Bos, Icerik
<1>2. TypeOK  BY <1>1 DEF Init, TypeOK
<1>3. Tutarli  BY DEF Init, Tutarli, Saklanan
<1> QED  BY <1>2, <1>3 DEF IInv

\* Types.
LEMMA TipAdim == TypeOK /\ [Next]_vars => TypeOK'
<1> SUFFICES ASSUME TypeOK, [Next]_vars PROVE TypeOK'  OBVIOUS
<1> USE DEF TypeOK
<1>y. Yuklenen \in Icerik /\ EskiIcerik \in Icerik /\ Bos \in Icerik  BY YuklenenIcerik
<1>1. ASSUME NEW p \in Surec, BaslaOku(p) PROVE TypeOK'
  BY <1>1, <1>y DEF BaslaOku, Baslat, Sebep
<1>2. ASSUME NEW p \in Surec, BaslaHata(p) PROVE TypeOK'
  BY <1>2, <1>y DEF BaslaHata, Baslat, Sebep
<1>3. ASSUME NEW p \in Surec, NEW id \in Id, NEW b \in Belge \cup {Yok}, Degistir(p, id, b)
      PROVE  TypeOK'
  <2> DEFINE e == [entries[p] EXCEPT ![id] = b]
  <2>1. e \in Icerik /\ entries' \in [Surec -> Icerik] /\ onay' \in Icerik
    BY <1>3 DEF Degistir, Icerik
  <2>2. Flush(p, e)  BY <1>3 DEF Degistir
  <2>3. CASE YerelYaz(e)  BY <2>1, <2>3, <1>3 DEF YerelYaz, Degistir
  <2>4. CASE KovaGonder(p, e)
    <3>1. Append(ucan[p], e) \in Seq(Icerik)  BY <2>1
    <3> HIDE DEF e
    <3>2. ucan' \in [Surec -> Seq(Icerik)]  BY <3>1, <2>4 DEF KovaGonder
    <3> QED  BY <3>2, <2>1, <2>4, <1>3 DEF KovaGonder, Degistir, Sebep
  <2> QED  BY <2>2, <2>3, <2>4 DEF Flush
<1>4. ASSUME NEW p \in Surec, NEW id \in Id, NEW b \in Belge \cup {Yok}, YerelYazHata(p, id, b)
      PROVE  TypeOK'
  <2>1. entries' \in [Surec -> Icerik]  BY <1>4 DEF YerelYazHata, Icerik
  <2> QED  BY <2>1, <1>4 DEF YerelYazHata, Sebep
<1>5. ASSUME NEW p \in Surec, YerelYazCok(p) PROVE TypeOK'
  BY <1>5 DEF YerelYazCok, Sebep
<1>6. ASSUME NEW p \in Surec, NEW i \in 1 .. MaxUcan, KovaBiter(p, i) \/ KovaHata(p, i)
      PROVE  TypeOK'
  <2>1. i \in DOMAIN ucan[p] /\ ucan[p] \in Seq(Icerik)  BY <1>6 DEF KovaBiter, KovaHata
  <2>2. Cikar(ucan[p], i) \in Seq(Icerik) /\ ucan[p][i] \in Icerik  BY <2>1, CikarTip
  <2>3. ucan' \in [Surec -> Seq(Icerik)]  BY <1>6, <2>2 DEF KovaBiter, KovaHata
  <2> QED  BY <1>6, <2>2, <2>3 DEF KovaBiter, KovaHata, Sebep
<1>7. ASSUME NEW p \in Surec, Dur(p) PROVE TypeOK'
  BY <1>7 DEF Dur, Sebep
<1>8. CASE UNCHANGED vars  BY <1>8 DEF vars
<1> QED  BY <1>1, <1>2, <1>3, <1>4, <1>5, <1>6, <1>7, <1>8 DEF Next, Upsert, Delete

\* No cause so far, none in this step: the picture stays consistent.
LEMMA TutarliAdim == IInv /\ [Next]_vars /\ sebep' = {} => Tutarli'
<1> SUFFICES ASSUME IInv, [Next]_vars, sebep' = {} PROVE Tutarli'  OBVIOUS
<1>t. TypeOK  BY DEF IInv
<1>s. sebep = {} => Tutarli  BY DEF IInv
<1>1. ASSUME NEW p \in Surec, BaslaOku(p) PROVE Tutarli'
  <2>1. acik = {} /\ sebep = {}  BY <1>1 DEF BaslaOku
  <2>2. Saklanan /\ \A q \in Surec : ucan[q] = <<>>  BY <2>1, <1>s DEF Tutarli
  <2>3. acik' = {p} /\ entries'[p] = onay /\ UNCHANGED <<dosya, ucan, onay>>
    BY <1>1, <2>1, <2>2, <1>t DEF BaslaOku, Baslat, Saklanan, TypeOK
  <2>4. Yuklenen' = Yuklenen  BY <2>3 DEF Yuklenen, EskiIcerik
  <2> QED  BY <2>2, <2>3, <2>4 DEF Tutarli, Saklanan
<1>2. ASSUME NEW p \in Surec, BaslaHata(p) PROVE Tutarli'
  BY <1>2 DEF BaslaHata
<1>3. ASSUME NEW p \in Surec, NEW id \in Id, NEW b \in Belge \cup {Yok}, Degistir(p, id, b)
      PROVE  Tutarli'
  <2> DEFINE e == [entries[p] EXCEPT ![id] = b]
  <2>0. sebep = {} /\ Flush(p, e) /\ p \in acik
    BY <1>3 DEF Degistir, Flush, YerelYaz, KovaGonder
  <2>1. Tutarli /\ acik = {p}  BY <2>0, <1>s DEF Tutarli
  <2>2. e = onay' /\ entries'[p] = e /\ acik' = {p} /\ kova' = kova
    BY <1>3, <2>1, <1>t DEF Degistir, Tutarli, Saklanan, TypeOK, Icerik
  <2>e. e \in Icerik  BY <1>t DEF TypeOK, Icerik
  <2> HIDE DEF e
  <2>3. CASE YerelYaz(e)
    <3>1. ucan' = ucan /\ dosya' = e  BY <2>3 DEF YerelYaz
    <3>2. \A q \in Surec : ucan[q] = <<>>  BY <2>1, <2>3 DEF YerelYaz, Tutarli
    <3>3. Yuklenen' = onay'  BY <2>2, <2>e, <3>1 DEF Yuklenen
    <3> QED  BY <2>1, <2>2, <3>1, <3>2, <3>3 DEF Tutarli, Saklanan
  <2>4. CASE KovaGonder(p, e)
    <3>0. ucan[p] = <<>>  BY <2>4 DEF KovaGonder
    <3>a. Append(<<>>, e) = <<e>>  OBVIOUS
    <3>1. kova = TRUE /\ ucan[p] = <<>> /\ ucan' = [ucan EXCEPT ![p] = <<e>>]
      BY <2>4, <3>0, <3>a DEF KovaGonder
    <3>2. \A q \in Surec : q # p => ucan'[q] = <<>>  BY <3>1, <2>1, <1>t DEF Tutarli, TypeOK
    <3>3. ucan'[p] = <<e>>  BY <3>1, <1>t DEF TypeOK
    <3>4. Len(<<e>>) = 1 /\ <<e>>[1] = e /\ <<e>> # <<>> /\ Len(<<>>) = 0  OBVIOUS
    <3> QED  BY <2>2, <3>1, <3>2, <3>3, <3>4 DEF Tutarli, Saklanan
  <2> QED  BY <2>0, <2>3, <2>4 DEF Flush
<1>4. ASSUME NEW p \in Surec, NEW id \in Id, NEW b \in Belge \cup {Yok}, YerelYazHata(p, id, b)
      PROVE  Tutarli'
  BY <1>4 DEF YerelYazHata
<1>5. ASSUME NEW p \in Surec, YerelYazCok(p) PROVE Tutarli'
  BY <1>5 DEF YerelYazCok
<1>6. ASSUME NEW p \in Surec, NEW i \in 1 .. MaxUcan, KovaBiter(p, i) \/ KovaHata(p, i)
      PROVE  Tutarli'
  <2>1. KovaBiter(p, i) /\ sebep = {}  BY <1>6 DEF KovaHata, KovaBiter
  <2>2. Tutarli /\ i \in DOMAIN ucan[p] /\ ucan[p] \in Seq(Icerik)
    BY <2>1, <1>s, <1>t DEF KovaBiter, TypeOK
  <2>3. Len(ucan[p]) = 1 /\ ucan[p] # <<>>  BY <2>2 DEF Tutarli
  <2>4. ucan[p][i] = onay /\ Cikar(ucan[p], i) = <<>>
    BY <2>2, <2>3, CikarTip DEF Tutarli, Saklanan
  <2>5. p \in acik /\ \A q \in Surec : q # p => ucan[q] = <<>>
    BY <2>2, <2>3 DEF Tutarli
  <2>6. ucan' = [q \in Surec |-> <<>>] /\ dosya' = onay /\ UNCHANGED <<acik, entries, onay>>
    BY <2>1, <2>4, <2>5, <1>t DEF KovaBiter, TypeOK
  <2>7. Yuklenen' = onay'  BY <2>6, <1>t DEF Yuklenen, TypeOK
  <2> QED  BY <2>2, <2>6, <2>7 DEF Tutarli, Saklanan
<1>7. ASSUME NEW p \in Surec, Dur(p) PROVE Tutarli'
  <2>1. sebep = {} /\ ucan[p] = <<>>  BY <1>7 DEF Dur
  <2>2. ucan' = ucan  BY <1>7, <2>1, <1>t DEF Dur, TypeOK
  <2>3. Yuklenen' = Yuklenen  BY <1>7 DEF Dur, Yuklenen, EskiIcerik
  <2>4. Tutarli  BY <2>1, <1>s
  <2> QED  BY <2>1, <2>2, <2>3, <2>4, <1>7 DEF Dur, Tutarli, Saklanan
<1>8. CASE UNCHANGED vars
  <2>1. Yuklenen' = Yuklenen  BY <1>8 DEF vars, Yuklenen, EskiIcerik
  <2> QED  BY <2>1, <1>8, <1>s DEF vars, Tutarli, Saklanan
<1> QED  BY <1>1, <1>2, <1>3, <1>4, <1>5, <1>6, <1>7, <1>8 DEF Next, Upsert, Delete

-----------------------------------------------------------------------------
\* The strengthening of the two results below.  (AnalysesStore.)
THEOREM InductiveInvariant == Spec => []IInv
<1>1. IInv /\ [Next]_vars => IInv'
  BY TipAdim, TutarliAdim DEF IInv
<1> QED  BY <1>1, BaslatKosulu, PTL DEF Spec

\* Every reachable state is well typed.  (AnalysesStore.)
THEOREM TypeCorrect == Spec => []TypeOK
<1>1. IInv => TypeOK  BY DEF IInv
<1> QED  BY <1>1, InductiveInvariant, PTL

\* Documents are lost, come back or differ from what the clients were told only
\* after one of the six causes.  (onModuleInit, upsert, delete and flush.)
THEOREM LossOnlyByCause == Spec => []KayipSebepli
<1>1. IInv => KayipSebepli  BY DEF IInv, KayipSebepli, Tutarli
<1> QED  BY <1>1, InductiveInvariant, PTL
=============================================================================
