-------------------------- MODULE SenkronPlan_proofs --------------------------
(***************************************************************************)
(* Proofs about the operation plans.                                       *)
(*                                                                         *)
(* An edit writes one content to one plan and may push the old one onto    *)
(* that plan's stacks; undo and redo move contents between the two.  So    *)
(* what holds of every content is kept by every step that brings in none   *)
(* without it (section 2), and all that is left is to say what each action *)
(* brings in (sections 3 and 4).                                           *)
(***************************************************************************)
EXTENDS SenkronPlan, SequenceTheorems, TLAPS

-----------------------------------------------------------------------------
(***************************************************************************)
(* 1. Contents in order.                                                   *)
(***************************************************************************)
Duzgun(k) == ~Cevrimli(k.bag) /\ k.bag \subseteq Gorevleri(k) \X Gorevleri(k)

Duzgunler == {k \in Icerik : Duzgun(k)}

\* More dependencies keep every cycle.
LEMMA CevrimliArtar ==
    ASSUME NEW A, NEW B, A \subseteq B, Cevrimli(A)
    PROVE  Cevrimli(B)
BY DEF Cevrimli

\* Fewer dependencies, among tasks that are there.
LEMMA DuzgunKalir ==
    ASSUME NEW k, NEW l, Duzgun(k), l.bag \subseteq k.bag,
           l.bag \subseteq Gorevleri(l) \X Gorevleri(l)
    PROVE  Duzgun(l)
BY CevrimliArtar DEF Duzgun

\* Tasks may be added and changed, not removed.
LEMMA DuzgunGorevle ==
    ASSUME NEW k \in Icerik, Duzgun(k), NEW gorev \in [Gorev -> Deger],
           \A g \in Gorev : k.gorev[g] # 0 => gorev[g] # 0
    PROVE  [k EXCEPT !.gorev = gorev] \in Icerik /\ Duzgun([k EXCEPT !.gorev = gorev])
<1> DEFINE l == [k EXCEPT !.gorev = gorev]
<1>1. l \in Icerik /\ l.bag = k.bag /\ l.gorev = gorev
  BY DEF Icerik
<1>2. Gorevleri(k) \subseteq Gorevleri(l)
  BY <1>1 DEF Gorevleri
<1>3. l.bag \subseteq Gorevleri(l) \X Gorevleri(l)
  BY <1>1, <1>2 DEF Duzgun
<1>4. Duzgun(l)
  <2> HIDE DEF l
  <2> QED BY <1>1, <1>3, DuzgunKalir
<1> QED BY <1>1, <1>4

-----------------------------------------------------------------------------
(***************************************************************************)
(* 2. Where contents are.  D: what holds of every content.                 *)
(***************************************************************************)
Yiginlar(D) == [geri : Seq(D), ileri : Seq(D)]

Dolu(D) == plan \in [Plan -> D \cup {Yok}] /\ gecmis \in [Plan -> Yiginlar(D)]

\* Undo and redo together keep no more than the cap.
Kapli == \A p \in Plan : Len(gecmis[p].geri) + Len(gecmis[p].ileri) <= Tavan

LEMMA EklenenDizi ==
    ASSUME NEW D, NEW s \in Seq(D), NEW k \in D
    PROVE  /\ Append(s, k) \in Seq(D) /\ Append(s, k) # <<>> /\ Len(Append(s, k)) = Len(s) + 1
           /\ Tail(Append(s, k)) \in Seq(D) /\ Len(Tail(Append(s, k))) = Len(s)
OBVIOUS

LEMMA KisalanDizi ==
    ASSUME NEW D, NEW s \in Seq(D), s # <<>>
    PROVE  /\ Front(s) \in Seq(D) /\ Len(Front(s)) = Len(s) - 1 /\ Last(s) \in D
           /\ \A i \in 1 .. Len(s) - 1 : Front(s)[i] = s[i]
<1>1. Len(s) \in Nat \ {0}
  OBVIOUS
<1> QED BY <1>1 DEF Front, Last

LEMMA YiginYaz ==
    ASSUME NEW D, NEW g \in Yiginlar(D), NEW a \in Seq(D), NEW b \in Seq(D)
    PROVE  LET y == [g EXCEPT !.geri = a, !.ileri = b]
           IN y \in Yiginlar(D) /\ y.geri = a /\ y.ileri = b
BY DEF Yiginlar

\* A snapshot: the stack grows by the content, or is full and loses its oldest one.
LEMMA GoruntuluTip ==
    ASSUME NEW D, NEW g \in Yiginlar(D), NEW k \in D, Len(g.geri) <= Tavan
    PROVE  /\ Goruntulu(g, k) \in Yiginlar(D)
           /\ Goruntulu(g, k).ileri = <<>>
           /\ Len(Goruntulu(g, k).geri) <= Tavan /\ Goruntulu(g, k).geri # <<>>
           /\ \/ Goruntulu(g, k).geri = Append(g.geri, k)
              \/ /\ g.geri # <<>>
                 /\ Goruntulu(g, k).geri = Tail(Append(g.geri, k))
<1> USE TavanVarsayim DEF Yiginlar
<1> DEFINE dizi == Append(g.geri, k)
<1>1. /\ g.geri \in Seq(D) /\ dizi \in Seq(D) /\ dizi # <<>>
      /\ Len(dizi) = Len(g.geri) + 1 /\ Tail(dizi) \in Seq(D)
      /\ Len(Tail(dizi)) = Len(g.geri)
  BY EklenenDizi
<1>2. CASE Len(dizi) > Tavan
  <2>1. g.geri # <<>>
    BY <1>1, <1>2
  <2>2. Goruntulu(g, k) = [geri |-> Tail(dizi), ileri |-> <<>>]
    BY <1>2 DEF Goruntulu
  <2>3. Tail(dizi) # <<>>
    BY <1>1, <1>2
  <2>4. Len(Tail(dizi)) <= Tavan
    BY <1>1
  <2> HIDE DEF dizi
  <2> QED BY <1>1, <2>1, <2>2, <2>3, <2>4 DEF dizi
<1>3. CASE ~(Len(dizi) > Tavan)
  <2>1. Goruntulu(g, k) = [geri |-> dizi, ileri |-> <<>>]
    BY <1>3 DEF Goruntulu
  <2> QED BY <1>1, <1>3, <2>1
<1> QED BY <1>2, <1>3

\* What a step does to plans and stacks, k being the content it brings in.
Duzenler(p, k) == Var(p) /\ GecmiseYaz(p) /\ Kaydet(p, k)
Yazar(p, k) == Kaydet(p, k) /\ UNCHANGED gecmis
Oynar(p) == Reddet(p) \/ GeriAl(p) \/ IleriAl(p)
Goruntuler(p) == Var(p) /\ GecmiseYaz(p) /\ UNCHANGED plan
Siler(p) == Kaydet(p, Yok) /\ UNCHANGED gecmis

Etki(D) ==
    \/ \E p \in Plan : \/ \E k \in D : Duzenler(p, k) \/ Yazar(p, k)
                       \/ Oynar(p) \/ Goruntuler(p) \/ Siler(p)
    \/ YenidenBaslat
    \/ UNCHANGED <<plan, gecmis>>

LEMMA OynarTip ==
    ASSUME NEW D, Yok \notin D, Dolu(D), Kapli, NEW p \in Plan, Oynar(p)
    PROVE  Dolu(D)' /\ Kapli'
<1> DEFINE g == gecmis[p]
           a == g.geri
           b == g.ileri
<1>1. /\ g \in Yiginlar(D) /\ a \in Seq(D) /\ b \in Seq(D) /\ plan[p] \in D
  BY DEF Oynar, Reddet, GeriAl, IleriAl, Dolu, Yiginlar, Var
<1>2. Len(a) \in Nat /\ Len(b) \in Nat /\ Len(a) + Len(b) <= Tavan
  <2>1. Len(a) \in Nat /\ Len(b) \in Nat
    <3> HIDE DEF a, b, g
    <3> QED BY <1>1
  <2>2. Len(a) + Len(b) <= Tavan
    BY DEF Kapli
  <2> QED BY <2>1, <2>2
<1>3. ASSUME NEW x \in Seq(D), NEW y \in Seq(D), Len(x) + Len(y) <= Tavan,
             gecmis' = [gecmis EXCEPT ![p].geri = x, ![p].ileri = y],
             NEW k \in D, plan' = plan \/ plan' = [plan EXCEPT ![p] = k]
      PROVE  Dolu(D)' /\ Kapli'
  <2>1. PICK z : z = [g EXCEPT !.geri = x, !.ileri = y]
    OBVIOUS
  <2>2. z \in Yiginlar(D) /\ z.geri = x /\ z.ileri = y
    <3> HIDE DEF a, b, g
    <3> QED BY <1>1, <2>1 DEF Yiginlar
  <2>3. gecmis' = [gecmis EXCEPT ![p] = z]
    BY <1>3, <2>1 DEF Dolu
  <2>4. Dolu(D)'
    <3>1. plan' \in [Plan -> D \cup {Yok}]
      BY <1>3 DEF Dolu
    <3>2. gecmis' \in [Plan -> Yiginlar(D)]
      <4> HIDE DEF Yiginlar
      <4> QED BY <2>2, <2>3 DEF Dolu
    <3> QED BY <3>1, <3>2 DEF Dolu
  <2>5. gecmis'[p] = z /\ \A q \in Plan : q # p => gecmis'[q] = gecmis[q]
    BY <2>3 DEF Dolu
  <2>6. Kapli'
    <3> SUFFICES ASSUME NEW q \in Plan
                 PROVE  Len(gecmis'[q].geri) + Len(gecmis'[q].ileri) <= Tavan
      BY DEF Kapli
    <3>1. CASE q = p
      BY <1>3, <2>2, <2>5, <3>1
    <3>2. CASE q # p
      BY <2>5, <3>2 DEF Kapli
    <3> QED BY <3>1, <3>2
  <2> QED BY <2>4, <2>6
<1>4. CASE Reddet(p)
  <2> DEFINE h == Goruntulu(g, plan[p])
  <2>1. h \in Yiginlar(D) /\ Len(h.geri) <= Tavan /\ h.geri # <<>>
    <3> HIDE DEF a, b
    <3>1. Len(a) <= Tavan
      BY <1>2, TavanVarsayim
    <3>2. Len(g.geri) <= Tavan
      BY <3>1 DEF a
    <3> HIDE DEF g
    <3> QED BY <1>1, <3>2, GoruntuluTip
  <2>2. h.geri \in Seq(D) /\ <<>> \in Seq(D) /\ Len(h.geri) \in Nat
    BY <2>1 DEF Yiginlar
  <2>3. Front(h.geri) \in Seq(D) /\ Len(Front(h.geri)) = Len(h.geri) - 1
    <3> HIDE DEF h
    <3> QED BY <2>1, <2>2, KisalanDizi
  <2>4. Len(Front(h.geri)) + Len(<<>>) <= Tavan
    BY <2>1, <2>2, <2>3, TavanVarsayim
  <2>5. /\ gecmis' = [gecmis EXCEPT ![p].geri = Front(h.geri), ![p].ileri = <<>>]
        /\ plan' = plan
    BY <1>4 DEF Reddet
  <2> QED BY <1>1, <1>3, <2>2, <2>3, <2>4, <2>5
<1>5. CASE GeriAl(p)
  <2>1. /\ gecmis' = [gecmis EXCEPT ![p].geri = Front(a), ![p].ileri = Append(b, plan[p])]
        /\ plan' = [plan EXCEPT ![p] = Last(a)] /\ a # <<>>
    BY <1>5 DEF GeriAl, Kaydet, Dolu
  <2>2. Front(a) \in Seq(D) /\ Len(Front(a)) = Len(a) - 1 /\ Last(a) \in D
    BY <1>1, <2>1, KisalanDizi
  <2>3. Append(b, plan[p]) \in Seq(D) /\ Len(Append(b, plan[p])) = Len(b) + 1
    BY <1>1, EklenenDizi
  <2> HIDE DEF a, b, g
  <2>4. Len(Front(a)) + Len(Append(b, plan[p])) <= Tavan
    BY <1>2, <2>2, <2>3, TavanVarsayim
  <2> QED BY <1>3, <2>1, <2>2, <2>3, <2>4
<1>6. CASE IleriAl(p)
  <2>1. /\ gecmis' = [gecmis EXCEPT ![p].geri = Append(a, plan[p]), ![p].ileri = Front(b)]
        /\ plan' = [plan EXCEPT ![p] = Last(b)] /\ b # <<>>
    BY <1>6, <1>1 DEF IleriAl, Kaydet, Dolu, Yiginlar
  <2>2. Front(b) \in Seq(D) /\ Len(Front(b)) = Len(b) - 1 /\ Last(b) \in D
    BY <1>1, <2>1, KisalanDizi
  <2>3. Append(a, plan[p]) \in Seq(D) /\ Len(Append(a, plan[p])) = Len(a) + 1
    BY <1>1, EklenenDizi
  <2> HIDE DEF a, b, g
  <2>4. Len(Append(a, plan[p])) + Len(Front(b)) <= Tavan
    BY <1>2, <2>2, <2>3, TavanVarsayim
  <2> QED BY <1>3, <2>1, <2>2, <2>3, <2>4
<1> QED BY <1>4, <1>5, <1>6 DEF Oynar

\* Section 2's result.
LEMMA EtkiTip ==
    ASSUME NEW D, Yok \notin D, Dolu(D), Kapli, Etki(D)
    PROVE  Dolu(D)' /\ Kapli'
<1> USE TavanVarsayim DEF Dolu
<1>1. ASSUME NEW p \in Plan, Var(p), GecmiseYaz(p)
      PROVE  gecmis' \in [Plan -> Yiginlar(D)] /\ Kapli'
  <2> DEFINE y == Goruntulu(gecmis[p], plan[p])
  <2>1. gecmis[p] \in Yiginlar(D) /\ plan[p] \in D
    BY <1>1 DEF Var
  <2>2. Len(gecmis[p].geri) <= Tavan
    <3>1. gecmis[p].geri \in Seq(D) /\ gecmis[p].ileri \in Seq(D)
      BY <2>1 DEF Yiginlar
    <3> DEFINE a == gecmis[p].geri
               b == gecmis[p].ileri
    <3>2. Len(a) + Len(b) <= Tavan
      BY DEF Kapli
    <3>3. Len(a) <= Tavan
      <4> HIDE DEF a, b
      <4>1. Len(a) \in Nat /\ Len(b) \in Nat
        BY <3>1 DEF a, b
      <4> QED BY <3>2, <4>1
    <3> QED BY <3>3
  <2>3. y \in Yiginlar(D) /\ y.ileri = <<>> /\ Len(y.geri) <= Tavan
    BY <2>1, <2>2, GoruntuluTip
  <2>4. gecmis' = [gecmis EXCEPT ![p] = y]
    BY <1>1 DEF GecmiseYaz
  <2> HIDE DEF y
  <2>5. Len(y.geri) + Len(y.ileri) <= Tavan
    BY <2>3 DEF Yiginlar
  <2> QED BY <2>3, <2>4, <2>5 DEF Kapli
<1>2. ASSUME NEW p \in Plan, NEW k \in D, Duzenler(p, k) \/ Yazar(p, k)
      PROVE  Dolu(D)' /\ Kapli'
  BY <1>1, <1>2 DEF Duzenler, Yazar, Kaydet, Kapli
<1>3. ASSUME NEW p \in Plan, Goruntuler(p) \/ Siler(p)
      PROVE  Dolu(D)' /\ Kapli'
  BY <1>1, <1>3 DEF Goruntuler, Siler, Kaydet, Kapli
<1>4. CASE YenidenBaslat
  <2>1. BosGecmis \in Yiginlar(D) /\ BosGecmis.geri = <<>> /\ BosGecmis.ileri = <<>>
    BY DEF BosGecmis, Yiginlar
  <2>2. Len(BosGecmis.geri) + Len(BosGecmis.ileri) <= Tavan
    BY <2>1
  <2> QED BY <1>4, <2>1, <2>2 DEF YenidenBaslat, Kapli
<1>5. CASE UNCHANGED <<plan, gecmis>>
  BY <1>5 DEF Kapli
<1> QED BY <1>2, <1>3, <1>4, <1>5, OynarTip DEF Etki

-----------------------------------------------------------------------------
(***************************************************************************)
(* 3. The object held by sensorToShooter.                                  *)
(***************************************************************************)
EldeTip == elde \in Elde \cup {Yok}

\* As long as the object held is the store's own, the two read the same.
EldeAyni == elde # Yok /\ elde.ayni => plan[elde.id] = elde.icerik

EldeIzler(p, k) ==
    \E y, d, b \in BOOLEAN, o \in SUBSET Gorev : elde' = Izle(p, k, y, d, b, o)

LEMMA IzleTip ==
    ASSUME EldeTip, NEW p \in Plan, NEW k \in Icerik, NEW y \in BOOLEAN,
           NEW d \in BOOLEAN, NEW b \in BOOLEAN, NEW o \in SUBSET Gorev
    PROVE  LET e == Izle(p, k, y, d, b, o)
           IN /\ e \in Elde \cup {Yok}
              /\ e # Yok /\ e.ayni => e = elde /\ elde.id # p
<1> DEFINE e == Izle(p, k, y, d, b, o)
<1> SUFFICES /\ e \in Elde \cup {Yok}
             /\ e # Yok /\ e.ayni => e = elde /\ elde.id # p
  OBVIOUS
<1>1. CASE elde = Yok \/ elde.id # p
  <2>1. e = elde
    BY <1>1 DEF Izle
  <2> HIDE DEF e
  <2> QED BY <1>1, <2>1 DEF EldeTip
<1>2. CASE elde # Yok /\ elde.id = p /\ elde.ayni /\ y
  <2>1. e = [elde EXCEPT !.icerik = k, !.ayni = FALSE]
    BY <1>2 DEF Izle
  <2>2. elde \in Elde
    BY <1>2 DEF EldeTip
  <2> HIDE DEF e
  <2>3. e \in Elde /\ e.ayni = FALSE
    BY <2>1, <2>2 DEF Elde
  <2> QED BY <2>3
<1>3. CASE elde # Yok /\ elde.id = p /\ ~(elde.ayni /\ y)
  <2>1. elde \in Elde
    BY <1>3 DEF EldeTip
  <2>2. PICK D \in BOOLEAN, B \in BOOLEAN, O \in SUBSET Gorev :
          e = [elde EXCEPT !.ayni = FALSE, !.dizi = D, !.bag = B, !.ortak = O,
                  !.icerik.gorev = [g \in Gorev |-> IF g \in O THEN k.gorev[g] ELSE @[g]],
                  !.icerik.bag = IF B THEN k.bag ELSE @]
    <3> DEFINE D == elde.dizi /\ d
               B == elde.bag /\ b
               O == IF D THEN Gorev ELSE elde.ortak \ o
    <3>1. D \in BOOLEAN /\ B \in BOOLEAN
      OBVIOUS
    <3>2. O \in SUBSET Gorev
      BY <2>1 DEF Elde
    <3>3. e = [elde EXCEPT !.ayni = FALSE, !.dizi = D, !.bag = B, !.ortak = O,
                  !.icerik.gorev = [g \in Gorev |-> IF g \in O THEN k.gorev[g] ELSE @[g]],
                  !.icerik.bag = IF B THEN k.bag ELSE @]
      BY <1>3 DEF Izle
    <3> HIDE DEF D, B, O, e
    <3> QED BY <3>1, <3>2, <3>3
  <2> HIDE DEF e
  <2>3. PICK c : c = [elde.icerik EXCEPT
                 !.gorev = [g \in Gorev |-> IF g \in O THEN k.gorev[g] ELSE elde.icerik.gorev[g]],
                 !.bag = IF B THEN k.bag ELSE elde.icerik.bag]
    OBVIOUS
  <2>4. c \in Icerik
    <3>1. elde.icerik \in Icerik
      BY <2>1 DEF Elde
    <3>2. [g \in Gorev |-> IF g \in O THEN k.gorev[g] ELSE elde.icerik.gorev[g]]
            \in [Gorev -> Deger]
      BY <3>1 DEF Icerik
    <3>3. (IF B THEN k.bag ELSE elde.icerik.bag) \in SUBSET (Gorev \X Gorev)
      BY <3>1 DEF Icerik
    <3> QED BY <2>3, <3>1, <3>2, <3>3 DEF Icerik
  <2>5. e = [elde EXCEPT !.ayni = FALSE, !.dizi = D, !.bag = B, !.ortak = O, !.icerik = c]
    BY <2>1, <2>2, <2>3 DEF Elde, Icerik
  <2>6. e \in Elde /\ e.ayni = FALSE
    BY <2>1, <2>4, <2>5 DEF Elde
  <2> QED BY <2>6
<1> QED BY <1>1, <1>2, <1>3

\* A step that edits plan p and keeps track of the object held.
LEMMA EldeIzlenir ==
    ASSUME EldeTip, EldeAyni, NEW p \in Plan, NEW k \in Icerik, EldeIzler(p, k),
           \A q \in Plan : q # p => plan'[q] = plan[q]
    PROVE  EldeTip' /\ EldeAyni'
<1>1. elde' \in Elde \cup {Yok} /\ (elde' # Yok /\ elde'.ayni => elde' = elde /\ elde.id # p)
  BY IzleTip DEF EldeIzler
<1>2. elde # Yok => elde.id \in Plan
  BY DEF EldeTip, Elde
<1> QED BY <1>1, <1>2 DEF EldeTip, EldeAyni

-----------------------------------------------------------------------------
(***************************************************************************)
(* 4. What each action brings in.                                          *)
(***************************************************************************)
PlanlarDuzgun == \A q \in Plan : Var(q) => Duzgun(plan[q])

\* A plan that was never derived has no past.
CanliBos == plan[Canli] = Yok => gecmis[Canli] = BosGecmis

PlanInv ==
    /\ TypeOK /\ Kapli /\ EldeAyni /\ CanliBos
    /\ ~bayat => Dolu(Duzgunler)

\* An edit to k.
Duzenleme(p, k) ==
    /\ Duzenler(p, k) /\ EldeIzler(p, k) /\ UNCHANGED <<bekleyen, bayat>>
    /\ PlanlarDuzgun => Duzgun(k)

LEMMA GuncelleDuzenler ==
    ASSUME NEW p \in Plan, Var(p), NEW k, NEW d \in BOOLEAN, NEW b \in BOOLEAN,
           NEW o \in SUBSET Gorev, Guncelle(p, k, d, b, o), PlanlarDuzgun => Duzgun(k)
    PROVE  Duzenleme(p, k)
BY DEF Guncelle, Duzenleme, Duzenler, EldeIzler

LEMMA YeniGorevlerDuzenler ==
    ASSUME PlanInv, NEW p \in Plan, Var(p), NEW yeni \in [Gorev -> Deger],
           \A h \in Gorev : yeni[h] = 0 <=> plan[p].gorev[h] = 0, YeniGorevler(p, yeni)
    PROVE  \E k \in Icerik : Duzenleme(p, k)
<1> DEFINE k == [plan[p] EXCEPT !.gorev = yeni]
<1>1. plan[p] \in Icerik
  BY DEF PlanInv, TypeOK, Var
<1>2. k \in Icerik /\ (PlanlarDuzgun => Duzgun(k))
  <2>1. k \in Icerik
    BY <1>1 DEF Icerik
  <2>2. ASSUME PlanlarDuzgun PROVE Duzgun(k)
    BY <1>1, <2>2, DuzgunGorevle DEF PlanlarDuzgun
  <2> QED BY <2>1, <2>2
<1>3. /\ GecmiseYaz(p) /\ Kaydet(p, k) /\ elde' = Izle(p, k, FALSE, FALSE, TRUE, Gorev)
      /\ UNCHANGED <<bekleyen, bayat>>
  BY DEF YeniGorevler
<1> HIDE DEF k
<1> QED BY <1>2, <1>3 DEF Duzenleme, Duzenler, EldeIzler

\* The edits that give one task a value.
LEMMA DegerVerir ==
    ASSUME PlanInv, NEW p \in Plan, Var(p), NEW g \in Gorev, NEW v \in Deger, v # 0,
           NEW o \in SUBSET Gorev,
           Guncelle(p, [plan[p] EXCEPT !.gorev[g] = v], TRUE, TRUE, o)
    PROVE  \E k \in Icerik : Duzenleme(p, k)
<1> DEFINE yeni == [plan[p].gorev EXCEPT ![g] = v]
           k == [plan[p] EXCEPT !.gorev = yeni]
<1>1. plan[p] \in Icerik
  BY DEF PlanInv, TypeOK, Var
<1>2. /\ yeni \in [Gorev -> Deger]
      /\ \A h \in Gorev : plan[p].gorev[h] # 0 => yeni[h] # 0
  BY <1>1 DEF Icerik
<1>3. k \in Icerik /\ (PlanlarDuzgun => Duzgun(k))
  <2>1. k \in Icerik
    BY <1>1, <1>2 DEF Icerik
  <2>2. ASSUME PlanlarDuzgun PROVE Duzgun(k)
    <3> HIDE DEF yeni
    <3> QED BY <1>1, <1>2, <2>2, DuzgunGorevle DEF PlanlarDuzgun
  <2> QED BY <2>1, <2>2
<1>4. Guncelle(p, k, TRUE, TRUE, o)
  OBVIOUS
<1> HIDE DEF k
<1> QED BY <1>3, <1>4, GuncelleDuzenler

LEMMA MutasyonDuzenler ==
    ASSUME PlanInv, NEW p \in Plan, Mutasyon(p)
    PROVE  \/ \E k \in Icerik : Duzenleme(p, k)
           \/ elde # Yok /\ elde.id = p /\ \E v \in Deger \ {0} : SensorBitir(v)
<1> USE DEF Var
<1>0. \A q \in Plan : plan[q] # Yok => plan[q] \in Icerik
  BY DEF PlanInv, TypeOK
<1>a. {} \in SUBSET Gorev
  OBVIOUS
<1>1. ASSUME NEW g \in Gorev, NEW v \in Deger \ {0},
             GorevEkle(p, g, v) \/ GorevGuncelle(p, g, v) \/ DurumGuncelle(p, g, v)
      PROVE  \E k \in Icerik : Duzenleme(p, k)
  <2>1. Var(p)
    BY <1>1 DEF GorevEkle, GorevGuncelle, DurumGuncelle
  <2>2. PICK o \in SUBSET Gorev : Guncelle(p, [plan[p] EXCEPT !.gorev[g] = v], TRUE, TRUE, o)
    <3>1. {g} \in SUBSET Gorev /\ {} \in SUBSET Gorev
      OBVIOUS
    <3> QED BY <1>1, <3>1 DEF GorevEkle, GorevGuncelle, DurumGuncelle
  <2> QED BY <2>1, <2>2, DegerVerir
<1>2. ASSUME NEW g \in Gorev, GorevSil(p, g)
      PROVE  \E k \in Icerik : Duzenleme(p, k)
  <2> DEFINE k == [plan[p] EXCEPT !.gorev[g] = 0,
                                  !.bag = {d \in @ : g \notin {d[1], d[2]}}]
  <2>1. /\ plan[p] \in Icerik /\ plan[p] # Yok
        /\ Guncelle(p, k, FALSE, FALSE, {g})
    BY <1>0, <1>2 DEF GorevSil
  <2>2. /\ k.bag = {d \in plan[p].bag : g \notin {d[1], d[2]}}
        /\ k.gorev = [plan[p].gorev EXCEPT ![g] = 0] /\ k \in Icerik
    <3>1. {d \in plan[p].bag : g \notin {d[1], d[2]}} \in SUBSET (Gorev \X Gorev)
      BY <2>1 DEF Icerik
    <3>2. [plan[p].gorev EXCEPT ![g] = 0] \in [Gorev -> Deger]
      BY <2>1, AngajVarsayim DEF Icerik, Deger
    <3> QED BY <2>1, <3>1, <3>2 DEF Icerik
  <2> HIDE DEF k
  <2>3. ASSUME PlanlarDuzgun PROVE Duzgun(k)
    <3>1. Duzgun(plan[p])
      BY <2>1, <2>3 DEF PlanlarDuzgun
    <3>2. \A h \in Gorevleri(plan[p]) : h # g => h \in Gorevleri(k)
      BY <2>1, <2>2 DEF Gorevleri, Icerik
    <3>3. k.bag \subseteq Gorevleri(k) \X Gorevleri(k)
      <4> SUFFICES ASSUME NEW d \in k.bag PROVE d \in Gorevleri(k) \X Gorevleri(k)
        OBVIOUS
      <4>1. PICK x \in Gorevleri(plan[p]), z \in Gorevleri(plan[p]) : d = <<x, z>>
        BY <2>2, <3>1 DEF Duzgun
      <4>2. x # g /\ z # g
        BY <2>2, <4>1
      <4> QED BY <3>2, <4>1, <4>2
    <3> QED BY <2>2, <3>1, <3>3, DuzgunKalir
  <2>5. Duzenleme(p, k)
    BY <2>1, <2>3, GuncelleDuzenler
  <2> QED BY <2>2, <2>5
<1>3. ASSUME NEW d \in Gorev \X Gorev, BagimlilikEkle(p, d)
      PROVE  \E k \in Icerik : Duzenleme(p, k)
  <2> DEFINE k == [plan[p] EXCEPT !.bag = @ \cup {d}]
  <2>1. /\ plan[p] \in Icerik /\ plan[p] # Yok
        /\ {d[1], d[2]} \subseteq Gorevleri(plan[p]) /\ ~DonguYaratir(plan[p], d)
        /\ Guncelle(p, k, TRUE, TRUE, {})
    BY <1>0, <1>3 DEF BagimlilikEkle
  <2>2. k \in Icerik /\ k.bag = plan[p].bag \cup {d} /\ k.gorev = plan[p].gorev
    BY <2>1 DEF Icerik
  <2>3. ~Cevrimli(Gecerli(k))
    BY <2>1 DEF DonguYaratir
  <2> HIDE DEF k
  <2>4. ASSUME PlanlarDuzgun PROVE Duzgun(k)
    <3>1. Duzgun(plan[p]) /\ Gorevleri(k) = Gorevleri(plan[p])
      BY <2>1, <2>2, <2>4 DEF PlanlarDuzgun, Gorevleri
    <3>2. d \in Gorevleri(k) \X Gorevleri(k)
      BY <2>1, <3>1
    <3>3. k.bag \subseteq Gorevleri(k) \X Gorevleri(k)
      BY <2>2, <3>1, <3>2 DEF Duzgun
    <3> QED BY <2>3, <3>3 DEF Duzgun, Gecerli
  <2>5. Duzenleme(p, k)
    BY <2>1, <2>4, <1>a, GuncelleDuzenler
  <2> QED BY <2>2, <2>5
<1>4. ASSUME NEW d \in Gorev \X Gorev, BagimlilikSil(p, d)
      PROVE  \E k \in Icerik : Duzenleme(p, k)
  <2> DEFINE k == [plan[p] EXCEPT !.bag = @ \ {d}]
  <2>1. /\ plan[p] \in Icerik /\ plan[p] # Yok
        /\ Guncelle(p, k, TRUE, FALSE, {})
    BY <1>0, <1>4 DEF BagimlilikSil
  <2>2. k \in Icerik /\ k.bag = plan[p].bag \ {d} /\ k.gorev = plan[p].gorev
    BY <2>1 DEF Icerik
  <2> HIDE DEF k
  <2>3. ASSUME PlanlarDuzgun PROVE Duzgun(k)
    <3>1. Duzgun(plan[p]) /\ Gorevleri(k) = Gorevleri(plan[p])
      BY <2>1, <2>2, <2>3 DEF PlanlarDuzgun, Gorevleri
    <3>2. k.bag \subseteq plan[p].bag /\ k.bag \subseteq Gorevleri(k) \X Gorevleri(k)
      BY <2>2, <3>1 DEF Duzgun
    <3> QED BY <3>1, <3>2, DuzgunKalir
  <2>5. Duzenleme(p, k)
    BY <2>1, <2>3, <1>a, GuncelleDuzenler
  <2> QED BY <2>2, <2>5
<1>5. ASSUME NEW e \in Ek, EkAyarla(p, e)
      PROVE  \E k \in Icerik : Duzenleme(p, k)
  <2> DEFINE k == [plan[p] EXCEPT !.ek = e]
  <2>1. /\ plan[p] \in Icerik /\ plan[p] # Yok
        /\ Guncelle(p, k, TRUE, TRUE, {})
    BY <1>0, <1>5 DEF EkAyarla
  <2>2. k \in Icerik /\ k.bag = plan[p].bag /\ k.gorev = plan[p].gorev
    BY <2>1 DEF Icerik
  <2> HIDE DEF k
  <2>3. PlanlarDuzgun => Duzgun(k)
    BY <2>1, <2>2 DEF PlanlarDuzgun, Duzgun, Gorevleri
  <2>5. Duzenleme(p, k)
    BY <2>1, <2>3, <1>a, GuncelleDuzenler
  <2> QED BY <2>2, <2>5
<1>6. ASSUME NEW g \in Gorev, Kaydir(p, g)
      PROVE  \E k \in Icerik : Duzenleme(p, k)
  BY <1>6, YeniGorevlerDuzenler DEF Kaydir
<1>7. ASSUME NEW alan \in SUBSET Gorev, TopluKaydir(p, alan)
      PROVE  \E k \in Icerik : Duzenleme(p, k)
  BY <1>7, YeniGorevlerDuzenler DEF TopluKaydir
<1>8. ASSUME NEW s \in Senaryo, p = Canli, Promote(s)
      PROVE  \E k \in Icerik : Duzenleme(p, k)
  <2> DEFINE k == [plan[Canli] EXCEPT !.gorev = plan[s].gorev, !.bag = plan[s].bag]
  <2>1. /\ plan[p] \in Icerik /\ plan[p] # Yok /\ s \in Plan
        /\ plan[s] \in Icerik /\ plan[s] # Yok
        /\ Guncelle(p, k, FALSE, FALSE, Gorev)
    BY <1>0, <1>8 DEF Promote, Plan
  <2>2. k \in Icerik /\ k.bag = plan[s].bag /\ k.gorev = plan[s].gorev
    BY <1>8, <2>1 DEF Icerik
  <2> HIDE DEF k
  <2>3. PlanlarDuzgun => Duzgun(k)
    BY <2>1, <2>2 DEF PlanlarDuzgun, Duzgun, Gorevleri
  <2>5. Duzenleme(p, k)
    BY <2>1, <2>3, GuncelleDuzenler
  <2> QED BY <2>2, <2>5
<1> QED BY <1>1, <1>2, <1>3, <1>4, <1>5, <1>6, <1>7, <1>8 DEF Mutasyon

\* What a step does, in the terms of section 2.
Adim ==
    /\ Etki(Icerik)
    /\ ~bayat' => ~bayat /\ Etki(Duzgunler)
    /\ EldeTip' /\ EldeAyni' /\ CanliBos'
    /\ bekleyen' \subseteq Okuyucu /\ bayat' \in BOOLEAN

LEMMA PlanTip ==
    ASSUME PlanInv
    PROVE  /\ Dolu(Icerik) /\ EldeTip /\ bekleyen \subseteq Okuyucu /\ bayat \in BOOLEAN
           /\ \A p \in Plan : Var(p) => plan[p] \in Icerik
           /\ ~bayat => PlanlarDuzgun
BY YokVarsayim DEF PlanInv, TypeOK, Dolu, Yiginlar, EldeTip, Var, PlanlarDuzgun, Duzgunler

LEMMA MutasyonAdim ==
    ASSUME PlanInv, NEW p \in Plan, Mutasyon(p)
    PROVE  Adim
<1>1. ASSUME NEW k \in Icerik, Duzenleme(p, k) PROVE Adim
  <2>1. /\ Var(p) /\ Duzenler(p, k) /\ EldeIzler(p, k)
        /\ UNCHANGED <<bekleyen, bayat>> /\ (PlanlarDuzgun => Duzgun(k))
    BY <1>1 DEF Duzenleme, Duzenler
  <2>2. ~bayat => k \in Duzgunler
    BY <2>1, PlanTip DEF Duzgunler
  <2>3. \A q \in Plan : /\ plan'[q] = IF q = p THEN k ELSE plan[q]
                        /\ q # p => gecmis'[q] = gecmis[q]
    BY <2>1, PlanTip DEF Duzenler, Kaydet, GecmiseYaz, Dolu
  <2>4. EldeTip' /\ EldeAyni'
    BY <2>1, <2>3, PlanTip, EldeIzlenir DEF PlanInv
  <2>5. CanliBos'
    BY <2>3, YokVarsayim DEF CanliBos, PlanInv, Plan
  <2>6. Etki(Icerik) /\ (~bayat' => ~bayat /\ Etki(Duzgunler))
    BY <2>1, <2>2 DEF Etki
  <2> QED BY <2>1, <2>4, <2>5, <2>6, PlanTip DEF Adim
<1>2. ASSUME NEW v \in Deger \ {0}, elde # Yok, elde.id = p, SensorBitir(v) PROVE Adim
  <2> DEFINE yeni == [elde.icerik.gorev EXCEPT ![Angaj] = v]
             k == [elde.icerik EXCEPT !.gorev = yeni]
  <2>1. elde \in Elde /\ elde.icerik \in Icerik /\ elde.ayni \in BOOLEAN
    BY <1>2, PlanTip DEF EldeTip, Elde
  <2>2. /\ Kaydet(p, k) /\ UNCHANGED <<gecmis, bekleyen>> /\ elde' = Yok
        /\ bayat' = (bayat \/ ~elde.ayni)
    BY <1>2 DEF SensorBitir
  <2>3. /\ yeni \in [Gorev -> Deger]
        /\ \A h \in Gorev : elde.icerik.gorev[h] # 0 => yeni[h] # 0
    BY <2>1 DEF Icerik
  <2>4. k \in Icerik
    BY <2>1, <2>3 DEF Icerik
  <2>5. ASSUME ~bayat' PROVE ~bayat /\ k \in Duzgunler
    <3>1. ~bayat /\ elde.ayni
      BY <2>1, <2>2, <2>5, PlanTip
    <3>2. Duzgun(elde.icerik)
      BY <1>2, <2>1, <3>1, PlanTip, YokVarsayim DEF PlanInv, EldeAyni, PlanlarDuzgun, Var
    <3> HIDE DEF yeni
    <3>3. Duzgun(k)
      BY <2>1, <2>3, <3>2, DuzgunGorevle
    <3> QED BY <2>4, <3>1, <3>3 DEF Duzgunler
  <2> HIDE DEF k, yeni
  <2>6. Etki(Icerik) /\ (~bayat' => ~bayat /\ Etki(Duzgunler))
    BY <2>2, <2>4, <2>5 DEF Etki, Yazar
  <2>7. CanliBos'
    BY <2>2, <2>4, PlanTip, YokVarsayim DEF CanliBos, PlanInv, Plan, Kaydet, Dolu
  <2>8. bayat' \in BOOLEAN
    BY <2>1, <2>2, PlanTip
  <2> QED BY <2>2, <2>6, <2>7, <2>8, PlanTip DEF Adim, EldeTip, EldeAyni
<1> QED BY <1>1, <1>2, MutasyonDuzenler

\* Undo, redo, a refused edit.
LEMMA OynarAdim ==
    ASSUME PlanInv, NEW p \in Plan, Oynar(p)
    PROVE  Adim
<1>1. Var(p) /\ plan[p] \in Icerik /\ UNCHANGED <<bekleyen, bayat>>
  BY PlanTip DEF Oynar, Reddet, GeriAl, IleriAl
<1>2. Etki(Icerik) /\ (~bayat' => ~bayat /\ Etki(Duzgunler))
  BY <1>1 DEF Etki
<1>3. \A q \in Plan : q # p => gecmis'[q] = gecmis[q] /\ plan'[q] = plan[q]
  BY PlanTip DEF Oynar, Reddet, GeriAl, IleriAl, Kaydet, Dolu
<1>4. CASE Reddet(p)
  <2>1. UNCHANGED <<plan, elde>>
    BY <1>4 DEF Reddet
  <2>2. CanliBos'
    BY <1>1, <1>3, <2>1 DEF CanliBos, PlanInv, Plan, Var
  <2> QED BY <1>1, <1>2, <2>1, <2>2, PlanTip DEF Adim, EldeTip, EldeAyni, PlanInv
<1>5. ASSUME NEW s \in Seq(Icerik), s # <<>>, Kaydet(p, Last(s)),
             elde' = Izle(p, Last(s), FALSE, FALSE, FALSE, Gorev)
      PROVE  Adim
  <2>1. Last(s) \in Icerik
    BY <1>5, KisalanDizi
  <2>2. EldeIzler(p, Last(s))
    BY <1>5 DEF EldeIzler
  <2>3. EldeTip' /\ EldeAyni'
    BY <1>3, <2>1, <2>2, PlanTip, EldeIzlenir DEF PlanInv
  <2>4. plan'[p] = Last(s)
    BY <1>5, PlanTip DEF Kaydet, Dolu
  <2>5. CanliBos'
    BY <1>3, <2>1, <2>4, YokVarsayim DEF CanliBos, PlanInv, Plan
  <2> QED BY <1>1, <1>2, <2>3, <2>5, PlanTip DEF Adim
<1>6. gecmis[p].geri \in Seq(Icerik) /\ gecmis[p].ileri \in Seq(Icerik)
  BY PlanTip DEF Dolu, Yiginlar
<1> QED BY <1>4, <1>5, <1>6 DEF Oynar, GeriAl, IleriAl

LEMMA SensorBaslaAdim ==
    ASSUME PlanInv, NEW p \in Plan, SensorBasla(p)
    PROVE  Adim
<1>1. /\ Var(p) /\ plan[p] \in Icerik /\ GecmiseYaz(p) /\ UNCHANGED <<plan, bekleyen, bayat>>
      /\ elde' = [id |-> p, icerik |-> plan[p], ayni |-> TRUE, dizi |-> TRUE, bag |-> TRUE,
                  ortak |-> Gorev]
  BY PlanTip DEF SensorBasla
<1>2. elde' \in Elde /\ elde'.id = p /\ elde'.icerik = plan[p]
  BY <1>1 DEF Elde
<1>3. \A q \in Plan : q # p => gecmis'[q] = gecmis[q]
  BY <1>1, PlanTip DEF GecmiseYaz, Dolu
<1>4. CanliBos'
  BY <1>1, <1>3 DEF CanliBos, PlanInv, Plan, Var
<1>5. Etki(Icerik) /\ (~bayat' => ~bayat /\ Etki(Duzgunler))
  BY <1>1 DEF Etki, Goruntuler
<1> QED BY <1>1, <1>2, <1>4, <1>5, PlanTip DEF Adim, EldeTip, EldeAyni

\* Scenarios come and go.
LEMMA SenaryoAdim ==
    ASSUME PlanInv, NEW s \in Senaryo, SenaryoTuret(s) \/ SenaryoSil(s)
    PROVE  Adim
<1>1. s \in Plan /\ Canli \in Plan /\ s # Canli /\ UNCHANGED <<gecmis, bekleyen, bayat>>
  BY SenaryoVarsayim DEF Plan, SenaryoTuret, SenaryoSil
<1>2. \A q \in Plan : q # s => plan'[q] = plan[q]
  BY PlanTip DEF SenaryoTuret, SenaryoSil, Kaydet, Dolu
<1>3. CanliBos'
  BY <1>1, <1>2 DEF CanliBos, PlanInv
<1>4. CASE SenaryoTuret(s)
  <2>1. Var(Canli) /\ ~Var(s) /\ Yazar(s, plan[Canli]) /\ elde' = elde
    BY <1>4 DEF SenaryoTuret, Yazar
  <2>2. plan[Canli] \in Icerik /\ (~bayat => plan[Canli] \in Duzgunler)
    BY <1>1, <2>1, PlanTip DEF PlanlarDuzgun, Duzgunler
  <2>3. EldeAyni'
    <3> SUFFICES ASSUME elde # Yok, elde.ayni PROVE plan'[elde.id] = elde.icerik
      BY <2>1 DEF EldeAyni
    <3>1. elde \in Elde /\ plan[elde.id] = elde.icerik
      BY PlanTip DEF EldeTip, PlanInv, EldeAyni
    <3>2. elde.id \in Plan /\ elde.icerik # Yok
      BY <3>1, YokVarsayim DEF Elde
    <3> QED BY <1>2, <2>1, <3>1, <3>2 DEF Var
  <2>4. Etki(Icerik) /\ (~bayat' => ~bayat /\ Etki(Duzgunler))
    BY <1>1, <2>1, <2>2 DEF Etki
  <2> QED BY <1>1, <1>3, <2>1, <2>3, <2>4, PlanTip DEF Adim, EldeTip
<1>5. CASE SenaryoSil(s)
  <2>1. /\ plan[s] \in Icerik /\ Siler(s)
        /\ elde' = Izle(s, plan[s], FALSE, FALSE, FALSE, Gorev)
    BY <1>1, <1>5, PlanTip DEF SenaryoSil, Siler
  <2>2. EldeIzler(s, plan[s])
    BY <2>1 DEF EldeIzler
  <2>3. EldeTip' /\ EldeAyni'
    BY <1>1, <1>2, <2>1, <2>2, PlanTip, EldeIzlenir DEF PlanInv
  <2>4. Etki(Icerik) /\ (~bayat' => ~bayat /\ Etki(Duzgunler))
    BY <1>1, <2>1 DEF Etki
  <2> QED BY <1>1, <1>3, <2>3, <2>4, PlanTip DEF Adim
<1> QED BY <1>4, <1>5

\* The live plan is derived.
LEMMA TuretBitirAdim ==
    ASSUME PlanInv, NEW c \in Okuyucu, NEW k \in Tohum, TuretBitir(c, k)
    PROVE  Adim
<1>1. /\ k \in Icerik /\ k \in Duzgunler /\ Canli \in Plan
      /\ Yazar(Canli, k) /\ elde' = Izle(Canli, k, FALSE, FALSE, FALSE, Gorev)
      /\ bekleyen' \subseteq bekleyen /\ UNCHANGED bayat
  BY DEF TuretBitir, Tohum, Duzgunler, Duzgun, Plan, Yazar
<1>2. plan'[Canli] = k /\ \A q \in Plan : q # Canli => plan'[q] = plan[q]
  BY <1>1, PlanTip DEF Yazar, Kaydet, Dolu
<1>3. EldeIzler(Canli, k)
  BY <1>1 DEF EldeIzler
<1>4. EldeTip' /\ EldeAyni'
  BY <1>1, <1>2, <1>3, PlanTip, EldeIzlenir DEF PlanInv
<1>5. CanliBos'
  BY <1>1, <1>2, YokVarsayim DEF CanliBos
<1>6. Etki(Icerik) /\ (~bayat' => ~bayat /\ Etki(Duzgunler))
  BY <1>1 DEF Etki
<1> QED BY <1>1, <1>4, <1>5, <1>6, PlanTip DEF Adim

LEMMA HerAdim ==
    ASSUME PlanInv, [Next]_vars
    PROVE  Adim
<1>1. ASSUME NEW c \in Okuyucu, TuretBasla(c) PROVE Adim
  <2>1. UNCHANGED <<plan, gecmis, elde, bayat>> /\ bekleyen' \subseteq Okuyucu
    BY <1>1, PlanTip DEF TuretBasla
  <2> QED BY <2>1, PlanTip DEF Adim, Etki, EldeTip, EldeAyni, CanliBos, PlanInv
<1>2. CASE SensorHata
  <2>1. UNCHANGED <<plan, gecmis, bekleyen, bayat>> /\ elde' = Yok
    BY <1>2 DEF SensorHata
  <2> QED BY <2>1, PlanTip DEF Adim, Etki, EldeTip, EldeAyni, CanliBos, PlanInv
<1>3. CASE YenidenBaslat
  <2>1. /\ UNCHANGED <<plan, bayat>> /\ elde' = Yok /\ bekleyen' = {}
        /\ gecmis'[Canli] = BosGecmis
    BY <1>3 DEF YenidenBaslat, Plan
  <2>2. Etki(Icerik) /\ Etki(Duzgunler)
    BY <1>3 DEF Etki
  <2> QED BY <2>1, <2>2, PlanTip DEF Adim, EldeTip, EldeAyni, CanliBos
<1>4. CASE UNCHANGED vars
  BY <1>4, PlanTip DEF vars, Adim, Etki, EldeTip, EldeAyni, CanliBos, PlanInv
<1> QED BY <1>1, <1>2, <1>3, <1>4, MutasyonAdim, OynarAdim, SensorBaslaAdim, SenaryoAdim,
           TuretBitirAdim DEF Next, Oynar

LEMMA PlanAdim == PlanInv /\ [Next]_vars => PlanInv'
<1> SUFFICES ASSUME PlanInv, [Next]_vars PROVE PlanInv'
  OBVIOUS
<1>1. Adim
  BY HerAdim
<1>2. Dolu(Icerik)' /\ Kapli'
  BY <1>1, PlanTip, EtkiTip, YokVarsayim DEF Adim, PlanInv
<1>3. ASSUME ~bayat' PROVE Dolu(Duzgunler)'
  <2>1. ~bayat /\ Etki(Duzgunler) /\ Dolu(Duzgunler) /\ Kapli
    BY <1>1, <1>3 DEF Adim, PlanInv
  <2>2. Yok \notin Duzgunler
    BY YokVarsayim DEF Duzgunler
  <2> HIDE DEF Duzgunler
  <2> QED BY <2>1, <2>2, EtkiTip
<1>4. TypeOK'
  BY <1>1, <1>2 DEF Adim, TypeOK, Dolu, Yiginlar, EldeTip
<1> QED BY <1>1, <1>2, <1>3, <1>4 DEF Adim, PlanInv

LEMMA PlanBaslar == Init => PlanInv
<1> SUFFICES ASSUME Init PROVE PlanInv
  OBVIOUS
<1>1. \A D : BosGecmis \in Yiginlar(D)
  BY DEF BosGecmis, Yiginlar
<1>2. \A D : Dolu(D)
  BY <1>1 DEF Dolu, Init
<1>3. TypeOK
  BY <1>2 DEF TypeOK, Dolu, Yiginlar, Init
<1>4. BosGecmis.geri = <<>> /\ BosGecmis.ileri = <<>>
  BY DEF BosGecmis
<1>5. Kapli
  <2>1. Len(BosGecmis.geri) + Len(BosGecmis.ileri) <= Tavan
    BY <1>4, TavanVarsayim
  <2> QED BY <2>1 DEF Kapli, Init
<1> QED BY <1>2, <1>3, <1>5 DEF PlanInv, EldeAyni, CanliBos, Init, Plan

\* Types: every plan and every snapshot is a content, and the object held is one whose
\* parts are or are not still the store's.
THEOREM PlanTypes == Spec => []TypeOK
<1>1. PlanInv => TypeOK
  BY DEF PlanInv
<1> QED BY <1>1, PlanBaslar, PlanAdim, PTL DEF Spec

\* Whatever edits, undo, redo and promotion do, a plan or a snapshot only has a cycle or
\* a dangling dependency after sensorToShooter stored an object that edits had gone past
\* (see BozukYalnizYarista).
THEOREM BrokenOnlyByRace == Spec => []BozukYalnizYarista
<1>1. PlanInv => BozukYalnizYarista
  <2> SUFFICES ASSUME PlanInv, ~bayat, NEW k \in Icerikler
               PROVE  ~Cevrimli(Gecerli(k)) /\ k.bag \subseteq Gorevleri(k) \X Gorevleri(k)
    BY DEF BozukYalnizYarista, DonguYalnizYarista, SarkanYalnizYarista, Dongusuz
  <2>1. Dolu(Duzgunler)
    BY DEF PlanInv
  <2>2. k \in Duzgunler
    <3>1. CASE \E p \in Plan : Var(p) /\ k = plan[p]
      BY <2>1, <3>1 DEF Dolu, Var
    <3>2. ASSUME NEW p \in Plan, k \in ToSet(gecmis[p].geri) \cup ToSet(gecmis[p].ileri)
          PROVE  k \in Duzgunler
      <4>1. gecmis[p].geri \in Seq(Duzgunler) /\ gecmis[p].ileri \in Seq(Duzgunler)
        BY <2>1 DEF Dolu, Yiginlar
      <4> HIDE DEF Duzgunler
      <4> QED BY <3>2, <4>1 DEF ToSet
    <3> QED BY <3>1, <3>2 DEF Icerikler
  <2> QED BY <2>2, CevrimliArtar DEF Duzgunler, Duzgun, Gecerli
<1> QED BY <1>1, PlanBaslar, PlanAdim, PTL DEF Spec

-----------------------------------------------------------------------------
(***************************************************************************)
(* 5. Undo and redo of the live plan implement module PlanHistory.         *)
(*                                                                         *)
(* The abstract line is the undo stack, the present plan and the redo      *)
(* stack read backwards.  Two steps of the code are not steps of the       *)
(* abstract specification: sensorToShooter stores the object it held       *)
(* without a snapshot of what it replaces, and of two requests that derive *)
(* a missing live plan the second writes over what the first one made.     *)
(***************************************************************************)
Surum == Icerik \cup {Yok}

\* The abstract line over stacks a and b, and its cursor.
Cizgi(a, x, b) == a \o <<x>> \o Reverse(b)

LEMMA TersTip ==
    ASSUME NEW D, NEW b \in Seq(D)
    PROVE  Reverse(b) \in Seq(D) /\ Len(Reverse(b)) = Len(b)
BY DEF Reverse

LEMMA CizgiTip ==
    ASSUME NEW a \in Seq(Icerik), NEW x \in Surum, NEW b \in Seq(Icerik)
    PROVE  /\ a \in Seq(Surum) /\ <<x>> \in Seq(Surum) /\ Reverse(b) \in Seq(Surum)
           /\ a \o <<x>> \in Seq(Surum) /\ Len(a \o <<x>>) = Len(a) + 1
           /\ Cizgi(a, x, b) \in Seq(Surum) /\ Len(Cizgi(a, x, b)) = Len(a) + 1 + Len(b)
<1>1. a \in Seq(Surum) /\ <<x>> \in Seq(Surum) /\ Reverse(b) \in Seq(Surum)
      /\ Len(Reverse(b)) = Len(b)
  BY TersTip DEF Surum
<1>2. a \o <<x>> \in Seq(Surum) /\ Len(a \o <<x>>) = Len(a) + 1
  BY <1>1
<1>3. /\ (a \o <<x>>) \o Reverse(b) \in Seq(Surum)
      /\ Len((a \o <<x>>) \o Reverse(b)) = Len(a \o <<x>>) + Len(Reverse(b))
  BY <1>1, <1>2, ConcatProperties
<1> QED BY <1>1, <1>2, <1>3 DEF Cizgi

\* The last of a stack is the first of the stack read backwards.
LEMMA TersEk ==
    ASSUME NEW D, NEW b \in Seq(D), NEW x \in D
    PROVE  Reverse(Append(b, x)) = <<x>> \o Reverse(b)
<1>1. /\ Reverse(Append(b, x)) \in Seq(D) /\ Reverse(b) \in Seq(D) /\ Len(Reverse(b)) = Len(b)
      /\ <<x>> \in Seq(D) /\ Len(<<x>>) = 1
  <2>1. Append(b, x) \in Seq(D) /\ <<x>> \in Seq(D) /\ Len(<<x>>) = 1
    OBVIOUS
  <2> QED BY <2>1, TersTip
<1>2. /\ <<x>> \o Reverse(b) \in Seq(D) /\ Len(<<x>> \o Reverse(b)) = Len(b) + 1
      /\ Len(Reverse(Append(b, x))) = Len(b) + 1
  BY <1>1 DEF Reverse
<1>3. ASSUME NEW i \in 1 .. Len(b) + 1
      PROVE  Reverse(Append(b, x))[i] = (<<x>> \o Reverse(b))[i]
  <2>1. Reverse(Append(b, x))[i] = Append(b, x)[Len(b) + 1 - i + 1]
    BY DEF Reverse
  <2>2. CASE i = 1
    BY <1>1, <2>1, <2>2
  <2>3. CASE i # 1
    <3>1. i - 1 \in 1 .. Len(b) /\ Len(b) + 1 - i + 1 \in 1 .. Len(b)
      BY <2>3
    <3>2. (<<x>> \o Reverse(b))[i] = Reverse(b)[i - 1]
      <4> DEFINE r == Reverse(b)
      <4> HIDE DEF r
      <4>1. r \in Seq(D) /\ Len(r) = Len(b)
        BY <1>1 DEF r
      <4>2. (<<x>> \o r)[i] = r[i - 1]
        BY <2>3, <4>1
      <4> QED BY <4>2 DEF r
    <3>3. Reverse(b)[i - 1] = b[Len(b) - (i - 1) + 1]
      BY <3>1 DEF Reverse
    <3>4. Append(b, x)[Len(b) + 1 - i + 1] = b[Len(b) + 1 - i + 1]
      BY <3>1
    <3>5. Len(b) - (i - 1) + 1 = Len(b) + 1 - i + 1
      OBVIOUS
    <3> QED BY <2>1, <3>2, <3>3, <3>4, <3>5
  <2> QED BY <2>2, <2>3
<1> QED BY <1>1, <1>2, <1>3, SeqEqual

\* A stack is what is left of it and its last.
LEMMA SonuAyir ==
    ASSUME NEW D, NEW a \in Seq(D), a # <<>>
    PROVE  /\ Front(a) \in Seq(D) /\ Last(a) \in D /\ Len(Front(a)) = Len(a) - 1
           /\ a = Append(Front(a), Last(a))
<1>1. PICK s \in Seq(D), e \in D : a = Append(s, e)
  BY SequenceEmptyOrAppend
<1>2. /\ Len(a) = Len(s) + 1 /\ Last(a) = e
  BY <1>1 DEF Last
<1>3. Front(a) \in Seq(D) /\ Len(Front(a)) = Len(a) - 1 /\ \A i \in 1 .. Len(a) - 1 : Front(a)[i] = a[i]
  BY KisalanDizi
<1>4. Len(Front(a)) = Len(s) /\ \A i \in 1 .. Len(s) : Front(a)[i] = s[i]
  BY <1>1, <1>2, <1>3
<1>5. Front(a) = s
  BY <1>3, <1>4, SeqEqual
<1> QED BY <1>1, <1>2, <1>3, <1>5

\* Undo and redo only move the cursor.
LEMMA GeriIleri ==
    ASSUME NEW a \in Seq(Icerik), a # <<>>, NEW x \in Icerik, NEW b \in Seq(Icerik)
    PROVE  /\ Cizgi(Front(a), Last(a), Append(b, x)) = Cizgi(a, x, b)
           /\ Cizgi(Append(b, x), Last(a), Front(a)) = Cizgi(b, x, a)
<1>1. PICK f \in Seq(Icerik), l \in Icerik : f = Front(a) /\ l = Last(a) /\ a = Append(f, l)
  BY SonuAyir
<1>2. a = f \o <<l>> /\ Append(b, x) = b \o <<x>>
  BY <1>1, AppendIsConcat
<1>3. Reverse(a) = <<l>> \o Reverse(f) /\ Reverse(Append(b, x)) = <<x>> \o Reverse(b)
  BY <1>1, TersEk
<1>4. <<x>> \in Seq(Icerik) /\ <<l>> \in Seq(Icerik)
      /\ Reverse(b) \in Seq(Icerik) /\ Reverse(f) \in Seq(Icerik)
  BY TersTip
<1>5. Cizgi(f, l, Append(b, x)) = a \o (<<x>> \o Reverse(b))
  BY <1>2, <1>3 DEF Cizgi
<1>6. a \o (<<x>> \o Reverse(b)) = Cizgi(a, x, b)
  <2> DEFINE r == Reverse(b)
  <2> HIDE DEF r
  <2>1. r \in Seq(Icerik)
    BY <1>4 DEF r
  <2>2. (a \o <<x>>) \o r = a \o (<<x>> \o r)
    BY <1>4, <2>1, ConcatAssociative
  <2> QED BY <2>2 DEF Cizgi, r
<1>7. Cizgi(Append(b, x), l, f) = ((b \o <<x>>) \o <<l>>) \o Reverse(f)
  BY <1>2 DEF Cizgi
<1>8. b \o <<x>> \in Seq(Icerik)
  BY <1>4, ConcatProperties
<1>9. ((b \o <<x>>) \o <<l>>) \o Reverse(f) = (b \o <<x>>) \o Reverse(a)
  BY <1>3, <1>4, <1>8, ConcatAssociative
<1> QED BY <1>1, <1>5, <1>6, <1>7, <1>9 DEF Cizgi

\* The line up to the cursor, all of it or but its oldest version.
LEMMA CizgiBasi ==
    ASSUME NEW a \in Seq(Icerik), NEW x \in Surum, NEW b \in Seq(Icerik)
    PROVE  /\ SubSeq(Cizgi(a, x, b), 1, Len(a) + 1) = a \o <<x>>
           /\ a # <<>> => SubSeq(Cizgi(a, x, b), 2, Len(a) + 1) = Tail(a) \o <<x>>
<1> DEFINE s == a \o <<x>>
           r == Reverse(b)
<1>1. /\ s \in Seq(Surum) /\ r \in Seq(Surum) /\ Len(s) = Len(a) + 1
      /\ Cizgi(a, x, b) = s \o r
  BY CizgiTip DEF Cizgi
<1>2. Len(a) \in Nat /\ (a # <<>> => Len(a) >= 1)
  OBVIOUS
<1>3. a # <<>> => Tail(s) = Tail(a) \o <<x>>
  <2> SUFFICES ASSUME a # <<>> PROVE Tail(s) = Tail(a) \o <<x>>
    OBVIOUS
  <2>1. a \in Seq(Surum) /\ Tail(a) \in Seq(Surum)
    BY DEF Surum
  <2>2. s = Append(a, x) /\ Append(Tail(a), x) = Tail(a) \o <<x>>
    BY <2>1, AppendIsConcat
  <2>3. Tail(Append(a, x)) = Append(Tail(a), x)
    BY <2>1, HeadTailAppend
  <2> QED BY <2>2, <2>3
<1> HIDE DEF s, r
<1>4. SubSeq(s \o r, 1, Len(s)) = SubSeq(s, 1, Len(s)) /\ SubSeq(s, 1, Len(s)) = s
  <2>1. 1 \in 1 .. Len(s) /\ Len(s) \in 1 .. Len(s)
    BY <1>1, <1>2
  <2> QED BY <1>1, <2>1, SubSeqOfConcat1, SubSeqFull
<1>5. a # <<>> => SubSeq(s \o r, 2, Len(s)) = Tail(s)
  <2> SUFFICES ASSUME a # <<>> PROVE SubSeq(s \o r, 2, Len(s)) = Tail(s)
    OBVIOUS
  <2>1. 2 \in 1 .. Len(s) /\ Len(s) \in 1 .. Len(s) /\ s # <<>>
    BY <1>1, <1>2
  <2> QED BY <1>1, <2>1, SubSeqOfConcat1, TailIsSubSeq
<1> QED BY <1>1, <1>3, <1>4, <1>5 DEF s

-----------------------------------------------------------------------------
(***************************************************************************)
(* 6. The steps of the abstract specification.                             *)
(***************************************************************************)

\* The undo and redo stacks of the live plan.
LEMMA CanliYigin ==
    ASSUME PlanInv
    PROVE  /\ Canli \in Plan /\ plan[Canli] \in Surum
           /\ gecmis[Canli].geri \in Seq(Icerik) /\ gecmis[Canli].ileri \in Seq(Icerik)
           /\ gecmis[Canli] \in Yiginlar(Icerik)
           /\ Len(gecmis[Canli].geri) <= Tavan
<1>1. Canli \in Plan /\ gecmis[Canli] \in Yiginlar(Icerik) /\ plan[Canli] \in Surum
  BY PlanTip DEF Dolu, Plan, Surum
<1>2. gecmis[Canli].geri \in Seq(Icerik) /\ gecmis[Canli].ileri \in Seq(Icerik)
  BY <1>1 DEF Yiginlar
<1>3. Len(gecmis[Canli].geri) + Len(gecmis[Canli].ileri) <= Tavan
  BY <1>1 DEF PlanInv, Kapli
<1>4. Len(gecmis[Canli].geri) <= Tavan
  <2> DEFINE a == gecmis[Canli].geri
             b == gecmis[Canli].ileri
  <2>1. a \in Seq(Icerik) /\ b \in Seq(Icerik) /\ Len(a) + Len(b) <= Tavan
    BY <1>2, <1>3
  <2> HIDE DEF a, b
  <2>2. Len(a) <= Tavan
    BY <2>1, TavanVarsayim
  <2> QED BY <2>2 DEF a
<1> QED BY <1>1, <1>2, <1>4

\* Nothing happens to the live plan.
LEMMA BaskaPlan ==
    ASSUME plan'[Canli] = plan[Canli], gecmis'[Canli] = gecmis[Canli]
    PROVE  SoyutAdim
BY DEF SoyutAdim, Gecmisi!vars

\* The line goes on from the cursor with k, its versions before n forgotten.
CizgiDegisir(k, n) ==
    LET m == Len(gecmis[Canli].geri) + 1
        c == gecmis[Canli].geri \o <<plan[Canli]>> \o Reverse(gecmis[Canli].ileri)
    IN /\ m' \in 2 .. Tavan + 1 /\ m' = Len(c')
       /\ c'[m'] = k
       /\ c' = Append(SubSeq(c, n, m), k)

LEMMA CizgiDegisirse ==
    ASSUME NEW k \in Icerik, NEW n \in 1 .. Len(gecmis[Canli].geri) + 1, CizgiDegisir(k, n)
    PROVE  Gecmisi!Next
<1> DEFINE m == Len(gecmis[Canli].geri) + 1
           c == gecmis[Canli].geri \o <<plan[Canli]>> \o Reverse(gecmis[Canli].ileri)
<1>1. m' \in 2 .. Tavan + 1 /\ m' = Len(c') /\ c'[m'] \in Icerik
  BY Zenon DEF CizgiDegisir
<1>2. c' = Append(SubSeq(c, n, m), c'[m'])
  BY Zenon DEF CizgiDegisir
<1>3. \E j \in 1 .. m : c' = Append(SubSeq(c, j, m), c'[m'])
  BY <1>2, Zenon
<1>4. Gecmisi!Degistir
  BY <1>1, <1>3, Zenon DEF Gecmisi!Degistir
<1> QED BY <1>4 DEF Gecmisi!Next

\* A snapshot is taken, and the plan becomes k (or stays).
LEMMA SoyutDegistir ==
    ASSUME PlanInv, PlanInv', Var(Canli), NEW k \in Icerik, plan'[Canli] = k,
           gecmis'[Canli] = Goruntulu(gecmis[Canli], plan[Canli])
    PROVE  SoyutAdim
<1> DEFINE a == gecmis[Canli].geri
           b == gecmis[Canli].ileri
           x == plan[Canli]
           h == Goruntulu(gecmis[Canli], x)
<1>1. /\ a \in Seq(Icerik) /\ b \in Seq(Icerik) /\ x \in Icerik /\ x \in Surum
      /\ gecmis[Canli] \in Yiginlar(Icerik) /\ Len(a) <= Tavan
  BY CanliYigin, PlanTip
<1>2. /\ h \in Yiginlar(Icerik) /\ h.ileri = <<>> /\ Len(h.geri) <= Tavan /\ h.geri # <<>>
      /\ h.geri = Append(a, x) \/ (a # <<>> /\ h.geri = Tail(Append(a, x)))
  <2> HIDE DEF x
  <2> QED BY <1>1, GoruntuluTip
<1>3. h.geri \in Seq(Icerik)
  BY <1>2 DEF Yiginlar
<1>4. Gecmisi!Next
  <2> DEFINE c == Cizgi(a, x, b)
             d == Cizgi(h.geri, k, h.ileri)
  <2>1. d = Append(h.geri, k)
    <3>1. h.geri \o <<k>> \in Seq(Icerik)
      BY <1>3
    <3>2. Reverse(<<>>) = <<>>
      BY DEF Reverse
    <3>3. d = (h.geri \o <<k>>) \o <<>>
      BY <1>2, <3>2 DEF Cizgi
    <3> HIDE DEF d
    <3> QED BY <1>3, <3>1, <3>3, ConcatEmptySeq, AppendIsConcat
  <2>2. \/ h.geri = SubSeq(c, 1, Len(a) + 1) /\ Len(h.geri) = Len(a) + 1
        \/ a # <<>> /\ h.geri = SubSeq(c, 2, Len(a) + 1) /\ Len(h.geri) = Len(a)
    <3>1. CASE h.geri = Append(a, x)
      <4> HIDE DEF a, x, c, h
      <4>1. Append(a, x) = a \o <<x>> /\ Len(Append(a, x)) = Len(a) + 1
        BY <1>1, AppendIsConcat
      <4>2. SubSeq(c, 1, Len(a) + 1) = a \o <<x>>
        BY <1>1, CizgiBasi DEF c
      <4> QED BY <3>1, <4>1, <4>2
    <3>2. CASE a # <<>> /\ h.geri = Tail(Append(a, x))
      <4>1. Tail(Append(a, x)) = Append(Tail(a), x) /\ Tail(a) \in Seq(Icerik)
            /\ Len(Tail(a)) = Len(a) - 1
        BY <1>1, <3>2, HeadTailAppend, HeadTailProperties
      <4>2. Append(Tail(a), x) = Tail(a) \o <<x>> /\ Len(Append(Tail(a), x)) = Len(a)
        BY <1>1, <4>1, AppendIsConcat, AppendProperties
      <4> QED BY <1>1, <3>2, <4>1, <4>2, CizgiBasi
    <3> QED BY <1>2, <3>1, <3>2
  <2>3. /\ Len(d) = Len(h.geri) + 1 /\ d[Len(h.geri) + 1] = k
        /\ Len(h.geri) + 1 \in 2 .. Tavan + 1
    <3> HIDE DEF d, h
    <3>1. Len(h.geri) \in Nat \ {0} /\ Len(h.geri) <= Tavan
      BY <1>2, <1>3
    <3>2. Len(Append(h.geri, k)) = Len(h.geri) + 1 /\ Append(h.geri, k)[Len(h.geri) + 1] = k
      BY <1>3, AppendProperties
    <3> QED BY <2>1, <3>1, <3>2, TavanVarsayim
  <2>4. /\ Len(a) \in Nat /\ (a # <<>> => Len(a) >= 1)
    BY <1>1
  <2>5. PICK n \in 1 .. Len(a) + 1 : d = Append(SubSeq(c, n, Len(a) + 1), k)
    <3> HIDE DEF c, d, h, a
    <3>1. CASE h.geri = SubSeq(c, 1, Len(a) + 1) /\ Len(h.geri) = Len(a) + 1
      <4>1. 1 \in 1 .. Len(a) + 1 /\ d = Append(SubSeq(c, 1, Len(a) + 1), k)
        BY <2>1, <2>4, <3>1
      <4> QED BY <4>1
    <3>2. CASE a # <<>> /\ h.geri = SubSeq(c, 2, Len(a) + 1) /\ Len(h.geri) = Len(a)
      <4>1. 2 \in 1 .. Len(a) + 1 /\ d = Append(SubSeq(c, 2, Len(a) + 1), k)
        BY <2>1, <2>4, <3>2
      <4> QED BY <4>1
    <3> QED BY <2>2, <3>1, <3>2
  <2>6. gecmis'[Canli].geri = h.geri /\ gecmis'[Canli].ileri = h.ileri
    OBVIOUS
  <2>7. /\ a \o <<x>> \o Reverse(b) = c
        /\ (gecmis[Canli].geri \o <<plan[Canli]>> \o Reverse(gecmis[Canli].ileri))' = d
        /\ (Len(gecmis[Canli].geri) + 1)' = Len(h.geri) + 1
    BY <2>6 DEF Cizgi
  <2> HIDE DEF c, d, h
  <2>8. CizgiDegisir(k, n)
    BY <2>3, <2>5, <2>7, Zenon DEF CizgiDegisir
  <2>9. n \in 1 .. Len(gecmis[Canli].geri) + 1
    BY <2>5
  <2> QED BY <2>8, <2>9, CizgiDegisirse
<1> QED BY <1>4 DEF SoyutAdim

\* Versions are forgotten: a refused edit, a restart.
CizgiUnutur(m, n) ==
    /\ (gecmis[Canli].geri \o <<plan[Canli]>> \o Reverse(gecmis[Canli].ileri))'
          = SubSeq(gecmis[Canli].geri \o <<plan[Canli]>> \o Reverse(gecmis[Canli].ileri), m, n)
    /\ (Len(gecmis[Canli].geri) + 1)' = (Len(gecmis[Canli].geri) + 1) - m + 1

LEMMA CizgiUnutursa ==
    ASSUME NEW m \in 1 .. (Len(gecmis[Canli].geri) + 1),
           NEW n \in (Len(gecmis[Canli].geri) + 1) ..
                  Len(gecmis[Canli].geri \o <<plan[Canli]>> \o Reverse(gecmis[Canli].ileri)),
           CizgiUnutur(m, n)
    PROVE  Gecmisi!Next
<1>1. \E i \in 1 .. (Len(gecmis[Canli].geri) + 1),
         j \in (Len(gecmis[Canli].geri) + 1) ..
                  Len(gecmis[Canli].geri \o <<plan[Canli]>> \o Reverse(gecmis[Canli].ileri)) :
         CizgiUnutur(i, j)
  OBVIOUS
<1>2. Gecmisi!Unut
  BY <1>1, Zenon DEF CizgiUnutur, Gecmisi!Unut
<1> QED BY <1>2 DEF Gecmisi!Next

\* A line without redo.
LEMMA IlerisizCizgi ==
    ASSUME NEW a \in Seq(Icerik), NEW x \in Surum
    PROVE  Cizgi(a, x, <<>>) = a \o <<x>>
<1>1. a \o <<x>> \in Seq(Surum) /\ Reverse(<<>>) = <<>>
  BY CizgiTip DEF Reverse
<1> QED BY <1>1, ConcatEmptySeq DEF Cizgi

LEMMA SoyutUnut ==
    ASSUME PlanInv, plan'[Canli] = plan[Canli],
           NEW g, gecmis'[Canli].geri = g, gecmis'[Canli].ileri = <<>>,
           \/ g = gecmis[Canli].geri
           \/ gecmis[Canli].geri # <<>> /\ g = Tail(gecmis[Canli].geri)
    PROVE  SoyutAdim
<1> DEFINE a == gecmis[Canli].geri
           b == gecmis[Canli].ileri
           x == plan[Canli]
           c == Cizgi(a, x, b)
<1>1. a \in Seq(Icerik) /\ b \in Seq(Icerik) /\ x \in Surum
  BY CanliYigin
<1>2. c = a \o <<x>> \o Reverse(b)
  BY DEF Cizgi
<1>3. Len(a) \in Nat /\ Len(c) >= Len(a) + 1 /\ Len(c) \in Nat /\ (a # <<>> => Len(a) >= 1)
  <2> HIDE DEF a, b, x
  <2>0. Len(a) \in Nat /\ Len(b) \in Nat
    BY <1>1
  <2>1. Len(c) = Len(a) + 1 + Len(b)
    BY <1>1, CizgiTip, Zenon
  <2>2. a # <<>> => Len(a) >= 1
    BY <1>1
  <2> HIDE DEF c
  <2> QED BY <2>0, <2>1, <2>2
<1>4. g \in Seq(Icerik)
  BY <1>1, HeadTailProperties
<1>5. Cizgi(g, x, <<>>) = g \o <<x>>
  <2> HIDE DEF x
  <2> QED BY <1>1, <1>4, IlerisizCizgi
<1>6. (gecmis[Canli].geri \o <<plan[Canli]>> \o Reverse(gecmis[Canli].ileri))' = g \o <<x>>
  BY <1>5 DEF Cizgi
<1>7. CASE g = a
  <2>1. g \o <<x>> = SubSeq(c, 1, Len(a) + 1)
    <3> HIDE DEF a, b, x
    <3> QED BY <1>1, <1>7, CizgiBasi
  <2>2. (Len(gecmis[Canli].geri) + 1)' = (Len(a) + 1) - 1 + 1
    <3>1. (Len(gecmis[Canli].geri) + 1)' = Len(a) + 1
      BY <1>7
    <3> HIDE DEF a
    <3> QED BY <1>3, <3>1
  <2> HIDE DEF c
  <2>3. CizgiUnutur(1, Len(a) + 1)
    BY <1>2, <1>6, <2>1, <2>2 DEF CizgiUnutur
  <2>4. /\ 1 \in 1 .. (Len(a) + 1)
        /\ Len(a) + 1 \in (Len(a) + 1) .. Len(a \o <<x>> \o Reverse(b))
    <3>1. 1 \in 1 .. (Len(a) + 1) /\ Len(a) + 1 \in (Len(a) + 1) .. Len(c)
      <4> HIDE DEF a, b, x
      <4> QED BY <1>3
    <3> QED BY <1>2, <3>1, Zenon
  <2> QED BY <2>3, <2>4, CizgiUnutursa DEF SoyutAdim
<1>8. CASE a # <<>> /\ g = Tail(a)
  <2>1. g \o <<x>> = SubSeq(c, 2, Len(a) + 1)
    <3> HIDE DEF a, b, x
    <3> QED BY <1>1, <1>8, CizgiBasi
  <2>2. (Len(gecmis[Canli].geri) + 1)' = (Len(a) + 1) - 2 + 1
    <3>1. Len(g) = Len(a) - 1
      BY <1>1, <1>8, HeadTailProperties
    <3>2. (Len(gecmis[Canli].geri) + 1)' = Len(g) + 1
      OBVIOUS
    <3> HIDE DEF a
    <3> QED BY <1>3, <3>1, <3>2
  <2> HIDE DEF c
  <2>3. CizgiUnutur(2, Len(a) + 1)
    BY <1>2, <1>6, <2>1, <2>2 DEF CizgiUnutur
  <2>4. /\ 2 \in 1 .. (Len(a) + 1)
        /\ Len(a) + 1 \in (Len(a) + 1) .. Len(a \o <<x>> \o Reverse(b))
    <3>1. 2 \in 1 .. (Len(a) + 1) /\ Len(a) + 1 \in (Len(a) + 1) .. Len(c)
      <4> HIDE DEF a, b, x
      <4> QED BY <1>3, <1>8
    <3> QED BY <1>2, <3>1, Zenon
  <2> QED BY <2>3, <2>4, CizgiUnutursa DEF SoyutAdim
<1> QED BY <1>7, <1>8

LEMMA EklenenSilinir ==
    ASSUME NEW D, NEW s \in Seq(D), NEW x \in D
    PROVE  Front(Append(s, x)) = s
<1> DEFINE w == Append(s, x)
<1>1. w \in Seq(D) /\ w # <<>> /\ Len(w) = Len(s) + 1 /\ \A i \in 1 .. Len(s) : w[i] = s[i]
  BY AppendProperties
<1>2. Len(s) \in Nat
  OBVIOUS
<1> HIDE DEF w
<1>3. /\ Front(w) \in Seq(D) /\ Len(Front(w)) = Len(w) - 1
      /\ \A i \in 1 .. Len(w) - 1 : Front(w)[i] = w[i]
  BY <1>1, KisalanDizi
<1>4. Len(Front(w)) = Len(s) /\ \A i \in 1 .. Len(s) : Front(w)[i] = s[i]
  BY <1>1, <1>2, <1>3
<1>5. Front(w) = s
  BY <1>3, <1>4, SeqEqual
<1> QED BY <1>5 DEF w

\* An edit is refused.
LEMMA SoyutReddet ==
    ASSUME PlanInv, Reddet(Canli)
    PROVE  SoyutAdim
<1> DEFINE a == gecmis[Canli].geri
           x == plan[Canli]
           h == Goruntulu(gecmis[Canli], x)
<1>1. /\ a \in Seq(Icerik) /\ x \in Icerik /\ Canli \in Plan
      /\ gecmis[Canli] \in Yiginlar(Icerik) /\ Len(a) <= Tavan
  BY CanliYigin, PlanTip DEF Reddet
<1>2. h.geri = Append(a, x) \/ (a # <<>> /\ h.geri = Tail(Append(a, x)))
  <2> HIDE DEF x
  <2> QED BY <1>1, GoruntuluTip
<1>3. /\ plan' = plan /\ gecmis'[Canli].geri = Front(h.geri) /\ gecmis'[Canli].ileri = <<>>
  <2>1. /\ plan' = plan
        /\ gecmis' = [gecmis EXCEPT ![Canli].geri = Front(h.geri), ![Canli].ileri = <<>>]
    BY DEF Reddet
  <2>2. PICK f : f = Front(h.geri)
    OBVIOUS
  <2>3. gecmis' = [gecmis EXCEPT ![Canli].geri = f, ![Canli].ileri = <<>>]
    BY <2>1, <2>2
  <2> HIDE DEF h, a, x
  <2>4. gecmis \in [Plan -> Yiginlar(Icerik)]
    BY PlanTip DEF Dolu
  <2>5. gecmis'[Canli].geri = f /\ gecmis'[Canli].ileri = <<>>
    BY <1>1, <2>3, <2>4 DEF Yiginlar
  <2> QED BY <2>1, <2>2, <2>5
<1> HIDE DEF h
<1>4. Front(h.geri) = a \/ (a # <<>> /\ Front(h.geri) = Tail(a))
  <2> HIDE DEF a, x
  <2>1. CASE h.geri = Append(a, x)
    BY <1>1, <2>1, EklenenSilinir
  <2>2. CASE a # <<>> /\ h.geri = Tail(Append(a, x))
    <3>1. Tail(Append(a, x)) = Append(Tail(a), x) /\ Tail(a) \in Seq(Icerik)
      BY <1>1, <2>2, HeadTailAppend, HeadTailProperties
    <3>2. Front(Append(Tail(a), x)) = Tail(a)
      BY <1>1, <3>1, EklenenSilinir
    <3> QED BY <2>2, <3>1, <3>2
  <2> QED BY <1>2, <2>1, <2>2
<1> QED BY <1>3, <1>4, SoyutUnut

\* Undo and redo.
LEMMA SoyutGeri ==
    ASSUME PlanInv, GeriAl(Canli)
    PROVE  SoyutAdim
<1> DEFINE a == gecmis[Canli].geri
           b == gecmis[Canli].ileri
           x == plan[Canli]
<1>1. /\ a \in Seq(Icerik) /\ b \in Seq(Icerik) /\ x \in Icerik /\ Canli \in Plan /\ a # <<>>
  BY CanliYigin, PlanTip DEF GeriAl
<1>2. /\ plan'[Canli] = Last(a) /\ gecmis'[Canli].geri = Front(a)
      /\ gecmis'[Canli].ileri = Append(b, x)
  <2>1. /\ plan' = [plan EXCEPT ![Canli] = Last(a)]
        /\ gecmis' = [gecmis EXCEPT ![Canli].geri = Front(@), ![Canli].ileri = Append(@, x)]
    BY DEF GeriAl, Kaydet
  <2>2. gecmis \in [Plan -> Yiginlar(Icerik)] /\ plan \in [Plan -> Icerik \cup {Yok}]
    BY PlanTip DEF Dolu
  <2> HIDE DEF x
  <2> QED BY <1>1, <2>1, <2>2 DEF Yiginlar
<1>3. /\ (a \o <<x>> \o Reverse(b))' = a \o <<x>> \o Reverse(b)
  <2>1. Cizgi(Front(a), Last(a), Append(b, x)) = Cizgi(a, x, b)
    <3> HIDE DEF a, b, x
    <3> QED BY <1>1, GeriIleri
  <2>2. (a \o <<x>> \o Reverse(b))' = Front(a) \o <<Last(a)>> \o Reverse(Append(b, x))
    BY <1>2
  <2> QED BY <2>1, <2>2, Zenon DEF Cizgi
<1>4. Len(a) + 1 > 1 /\ (Len(a) + 1)' = (Len(a) + 1) - 1
  <2>1. (Len(a) + 1)' = Len(Front(a)) + 1
    BY <1>2
  <2>2. Len(Front(a)) + 1 = (Len(a) + 1) - 1 /\ Len(a) + 1 > 1
    <3> HIDE DEF a
    <3>1. Len(Front(a)) = Len(a) - 1
      BY <1>1, KisalanDizi
    <3>2. Len(a) \in Nat /\ Len(a) >= 1
      BY <1>1
    <3> QED BY <3>1, <3>2
  <2> QED BY <2>1, <2>2
<1>5. Gecmisi!Geri
  BY <1>3, <1>4, Zenon DEF Gecmisi!Geri
<1> QED BY <1>5 DEF SoyutAdim, Gecmisi!Next

LEMMA SoyutIleri ==
    ASSUME PlanInv, IleriAl(Canli)
    PROVE  SoyutAdim
<1> DEFINE a == gecmis[Canli].geri
           b == gecmis[Canli].ileri
           x == plan[Canli]
<1>1. /\ a \in Seq(Icerik) /\ b \in Seq(Icerik) /\ x \in Icerik /\ Canli \in Plan /\ b # <<>>
  BY CanliYigin, PlanTip DEF IleriAl
<1>2. /\ plan'[Canli] = Last(b) /\ gecmis'[Canli].ileri = Front(b)
      /\ gecmis'[Canli].geri = Append(a, x)
  <2>1. /\ plan' = [plan EXCEPT ![Canli] = Last(b)]
        /\ gecmis' = [gecmis EXCEPT ![Canli].ileri = Front(@), ![Canli].geri = Append(@, x)]
    BY DEF IleriAl, Kaydet
  <2>2. gecmis \in [Plan -> Yiginlar(Icerik)] /\ plan \in [Plan -> Icerik \cup {Yok}]
    BY PlanTip DEF Dolu
  <2> HIDE DEF x
  <2> QED BY <1>1, <2>1, <2>2 DEF Yiginlar
<1>3. /\ (a \o <<x>> \o Reverse(b))' = a \o <<x>> \o Reverse(b)
  <2>1. Cizgi(Append(a, x), Last(b), Front(b)) = Cizgi(a, x, b)
    <3> HIDE DEF a, b, x
    <3> QED BY <1>1, GeriIleri
  <2>2. (a \o <<x>> \o Reverse(b))' = Append(a, x) \o <<Last(b)>> \o Reverse(Front(b))
    BY <1>2
  <2> QED BY <2>1, <2>2, Zenon DEF Cizgi
<1>4. (Len(a) + 1)' = (Len(a) + 1) + 1
  <2>1. (Len(a) + 1)' = Len(Append(a, x)) + 1
    BY <1>2
  <2>2. Len(Append(a, x)) = Len(a) + 1
    <3> HIDE DEF a, x
    <3> QED BY <1>1, AppendProperties
  <2> QED BY <2>1, <2>2
<1>5. Len(a) + 1 < Len(a \o <<x>> \o Reverse(b))
  <2> HIDE DEF a, b, x
  <2>1. Len(a) \in Nat /\ Len(b) \in Nat /\ Len(b) >= 1 /\ x \in Surum
    BY <1>1 DEF Surum
  <2>2. Len(Cizgi(a, x, b)) = Len(a) + 1 + Len(b)
    BY <1>1, <2>1, CizgiTip, Zenon
  <2> QED BY <2>1, <2>2 DEF Cizgi
<1>6. Gecmisi!Ileri
  BY <1>3, <1>4, <1>5, Zenon DEF Gecmisi!Ileri
<1> QED BY <1>6 DEF SoyutAdim, Gecmisi!Next

\* The live plan is derived.
LEMMA SoyutKur ==
    ASSUME PlanInv, ~Var(Canli), NEW c \in Okuyucu, NEW k \in Tohum, TuretBitir(c, k)
    PROVE  SoyutAdim
<1> DEFINE a == gecmis[Canli].geri
           b == gecmis[Canli].ileri
<1>1. plan[Canli] = Yok /\ gecmis[Canli] = BosGecmis /\ k \in Icerik /\ Canli \in Plan
  BY DEF Var, PlanInv, CanliBos, Tohum, Plan
<1>2. plan'[Canli] = k /\ gecmis' = gecmis
  BY <1>1 DEF TuretBitir, Kaydet, PlanInv, TypeOK
<1>3. a = <<>> /\ b = <<>> /\ Reverse(<<>>) = <<>>
  BY <1>1 DEF BosGecmis, Reverse
<1>4. \A y : <<>> \o <<y>> \o <<>> = <<y>>
  <2> TAKE y
  <2>1. <<>> \in Seq({y}) /\ <<y>> \in Seq({y})
    OBVIOUS
  <2> QED BY <2>1, ConcatEmptySeq
<1>5. a \o <<plan[Canli]>> \o Reverse(b) = <<Yok>>
  BY <1>1, <1>3, <1>4
<1>6. (a \o <<plan[Canli]>> \o Reverse(b))' = <<k>> /\ (Len(a) + 1)' = Len(a) + 1
  <2>1. (a \o <<plan[Canli]>> \o Reverse(b))' = a \o <<k>> \o Reverse(b)
    BY <1>2
  <2> QED BY <1>2, <1>3, <1>4, <2>1
<1>7. Gecmisi!Kur
  BY <1>1, <1>5, <1>6, Zenon DEF Gecmisi!Kur
<1> QED BY <1>7 DEF SoyutAdim, Gecmisi!Next

\* A restart: the plan is read from the store, its history is gone.
LEMMA SoyutBaslat ==
    ASSUME PlanInv, YenidenBaslat
    PROVE  SoyutAdim
<1> DEFINE a == gecmis[Canli].geri
           b == gecmis[Canli].ileri
           x == plan[Canli]
           n == Len(a) + 1
<1>1. Canli \in Plan /\ x \in Surum /\ a \in Seq(Icerik) /\ b \in Seq(Icerik)
  BY PlanTip DEF Dolu, Plan, Surum, Yiginlar
<1>2. plan' = plan /\ gecmis'[Canli] = BosGecmis
  BY <1>1 DEF YenidenBaslat
<1>3. <<>> \o <<x>> \o Reverse(<<>>) = <<x>>
  <2> HIDE DEF x
  <2>1. <<>> \in Seq({x}) /\ <<x>> \in Seq({x}) /\ Reverse(<<>>) = <<>>
    BY DEF Reverse
  <2> QED BY <2>1, ConcatEmptySeq
<1>4. (a \o <<x>> \o Reverse(b))' = <<x>>
  <2>1. (a \o <<x>> \o Reverse(b))' = <<>> \o <<x>> \o Reverse(<<>>)
    BY <1>2 DEF BosGecmis
  <2> QED BY <1>3, <2>1
<1>5. /\ n \in Nat /\ n >= 1 /\ n <= Len(Cizgi(a, x, b)) /\ Cizgi(a, x, b) \in Seq(Surum)
      /\ Len(Cizgi(a, x, b)) \in Nat /\ Cizgi(a, x, b)[n] = x
  <2> HIDE DEF a, b, x
  <2>1. Len(a) \in Nat /\ Len(b) \in Nat
    BY <1>1
  <2>2. /\ Len(Cizgi(a, x, b)) = Len(a) + 1 + Len(b) /\ Cizgi(a, x, b) \in Seq(Surum)
        /\ a \in Seq(Surum) /\ <<x>> \in Seq(Surum) /\ Reverse(b) \in Seq(Surum)
        /\ a \o <<x>> \in Seq(Surum) /\ Len(a \o <<x>>) = Len(a) + 1
    BY <1>1, CizgiTip, Zenon
  <2>3. a \o <<x>> = Append(a, x) /\ Append(a, x)[Len(a) + 1] = x
    BY <1>1, <2>2, AppendIsConcat, AppendProperties
  <2>4. ((a \o <<x>>) \o Reverse(b))[Len(a) + 1] = (a \o <<x>>)[Len(a) + 1]
    BY <2>1, <2>2, ConcatProperties
  <2> QED BY <2>1, <2>2, <2>3, <2>4 DEF Cizgi
<1>6. SubSeq(Cizgi(a, x, b), n, n) = <<x>>
  <2> DEFINE c == Cizgi(a, x, b)
  <2>1. n \in 1 .. Len(c) /\ c \in Seq(Surum) /\ c[n] = x /\ n \in Nat
    <3> HIDE DEF c, n, a, x, b
    <3>1. c \in Seq(Surum) /\ c[n] = x /\ Len(c) \in Nat /\ n <= Len(c)
      BY <1>5 DEF c
    <3> QED BY <1>5, <3>1
  <2> HIDE DEF c, n, a, x, b
  <2>2. /\ SubSeq(c, n, n) \in Seq(Surum) /\ Len(SubSeq(c, n, n)) = 1
        /\ SubSeq(c, n, n)[1] = x
    <3>1. n \in Int /\ \A i \in n .. n : c[i] \in Surum
      BY <1>1, <2>1
    <3>2. /\ SubSeq(c, n, n) \in Seq(Surum)
          /\ Len(SubSeq(c, n, n)) = (IF n <= n THEN n - n + 1 ELSE 0)
          /\ \A i \in 1 .. n - n + 1 : SubSeq(c, n, n)[i] = c[n + i - 1]
      BY <3>1, SubSeqProperties
    <3>3. n - n + 1 = 1 /\ n <= n /\ n + 1 - 1 = n /\ 1 \in 1 .. n - n + 1
      BY <3>1
    <3>4. SubSeq(c, n, n)[1] = c[n + 1 - 1]
      BY <3>2, <3>3, Zenon
    <3>5. Len(SubSeq(c, n, n)) = 1
      BY <3>2, <3>3, Zenon
    <3> QED BY <2>1, <3>2, <3>3, <3>4, <3>5, Zenon
  <2>3. <<x>> \in Seq(Surum) /\ Len(<<x>>) = 1 /\ <<x>>[1] = x
    BY <1>1
  <2>4. SubSeq(c, n, n) = <<x>>
    <3>1. \A i \in 1 .. Len(SubSeq(c, n, n)) : SubSeq(c, n, n)[i] = <<x>>[i]
      <4>1. \A i \in 1 .. 1 : i = 1
        OBVIOUS
      <4> QED BY <2>2, <2>3, <4>1, Zenon
    <3> QED BY <2>2, <2>3, <3>1, SeqEqual, Zenon
  <2> QED BY <2>4 DEF c
<1>7. (Len(a) + 1)' = (Len(a) + 1) - (Len(a) + 1) + 1
  <2>1. (Len(a) + 1)' = Len(<<>>) + 1
    BY <1>2 DEF BosGecmis
  <2>2. Len(<<>>) + 1 = n - n + 1
    <3> HIDE DEF n
    <3> QED BY <1>5
  <2> QED BY <2>1, <2>2
<1>8. CizgiUnutur(Len(a) + 1, Len(a) + 1)
  BY <1>4, <1>6, <1>7, Zenon DEF CizgiUnutur, Cizgi
<1>9. n \in 1 .. n /\ n \in n .. Len(a \o <<x>> \o Reverse(b))
  <2>1. n \in 1 .. n /\ n \in n .. Len(Cizgi(a, x, b))
    <3> HIDE DEF n, a, b, x
    <3> QED BY <1>5
  <2> QED BY <2>1, Zenon DEF Cizgi
<1> QED BY <1>8, <1>9, CizgiUnutursa DEF SoyutAdim

\* Every step is one of the abstract specification, or one of the two.
LEMMA HerAdimSoyut ==
    ASSUME PlanInv, PlanInv', [Next]_vars
    PROVE  SoyutAdim \/ SensorYazar \/ TuretUstune
<1> USE PlanTip DEF Dolu
<1>0. Canli \in Plan /\ \A s \in Senaryo : s \in Plan /\ s # Canli
  BY SenaryoVarsayim DEF Plan
<1>1. ASSUME NEW p \in Plan, NEW k \in Icerik, Duzenler(p, k) PROVE SoyutAdim
  <2>1. /\ gecmis' = [gecmis EXCEPT ![p] = Goruntulu(@, plan[p])]
        /\ plan' = [plan EXCEPT ![p] = k] /\ Var(p)
    BY <1>1 DEF Duzenler, GecmiseYaz, Kaydet
  <2>2. CASE p = Canli
    <3>1. plan'[Canli] = k /\ gecmis'[Canli] = Goruntulu(gecmis[Canli], plan[Canli])
      BY <1>0, <2>1, <2>2
    <3> QED BY <2>1, <2>2, <3>1, SoyutDegistir
  <2>3. CASE p # Canli
    BY <1>0, <2>1, <2>3, BaskaPlan
  <2> QED BY <2>2, <2>3
<1>2. ASSUME NEW p \in Plan, Mutasyon(p) PROVE SoyutAdim \/ SensorYazar
  <2>1. CASE \E k \in Icerik : Duzenleme(p, k)
    BY <1>1, <2>1 DEF Duzenleme
  <2>2. ASSUME NEW v \in Deger \ {0}, elde # Yok, elde.id = p, SensorBitir(v)
        PROVE  SoyutAdim \/ SensorYazar
    <3>1. CASE p = Canli
      BY <2>2, <3>1 DEF SensorYazar
    <3>2. CASE p # Canli
      <4>1. plan'[Canli] = plan[Canli] /\ gecmis'[Canli] = gecmis[Canli]
        BY <1>0, <2>2, <3>2 DEF SensorBitir, Kaydet
      <4> QED BY <4>1, BaskaPlan
    <3> QED BY <3>1, <3>2
  <2> QED BY <1>2, <2>1, <2>2, MutasyonDuzenler
<1>3. ASSUME NEW p \in Plan, Reddet(p) \/ GeriAl(p) \/ IleriAl(p) PROVE SoyutAdim
  <2>1. CASE p = Canli
    BY <1>3, <2>1, SoyutReddet, SoyutGeri, SoyutIleri
  <2>2. CASE p # Canli
    <3>1. gecmis'[Canli] = gecmis[Canli]
      BY <1>0, <1>3, <2>2 DEF Reddet, GeriAl, IleriAl
    <3>2. plan'[Canli] = plan[Canli]
      BY <1>0, <1>3, <2>2 DEF Reddet, GeriAl, IleriAl, Kaydet
    <3> QED BY <3>1, <3>2, BaskaPlan
  <2> QED BY <2>1, <2>2
<1>4. ASSUME NEW p \in Plan, SensorBasla(p) PROVE SoyutAdim
  <2>1. Var(p) /\ GecmiseYaz(p) /\ UNCHANGED plan /\ plan[p] \in Icerik
    BY <1>4 DEF SensorBasla, Var
  <2>2. Duzenler(p, plan[p])
    BY <2>1 DEF Duzenler, Kaydet
  <2> QED BY <1>1, <2>1, <2>2
<1>5. ASSUME NEW s \in Senaryo, SenaryoTuret(s) \/ SenaryoSil(s) PROVE SoyutAdim
  <2>1. plan'[Canli] = plan[Canli] /\ gecmis'[Canli] = gecmis[Canli]
    BY <1>0, <1>5 DEF SenaryoTuret, SenaryoSil, Kaydet
  <2> QED BY <2>1, BaskaPlan
<1>6. ASSUME NEW c \in Okuyucu, NEW k \in Tohum, TuretBitir(c, k)
      PROVE  SoyutAdim \/ TuretUstune
  BY <1>6, SoyutKur DEF TuretUstune
<1>7. CASE (\E c \in Okuyucu : TuretBasla(c)) \/ SensorHata \/ UNCHANGED vars
  <2>1. plan' = plan /\ gecmis' = gecmis
    BY <1>7 DEF TuretBasla, SensorHata, vars
  <2> QED BY <2>1, BaskaPlan
<1>8. CASE YenidenBaslat
  BY <1>8, SoyutBaslat
<1> QED BY <1>2, <1>3, <1>4, <1>5, <1>6, <1>7, <1>8 DEF Next

\* Undo and redo of the live plan are a cursor on one line of versions, but for what
\* the two races store: every step of the service is a step of PlanHistory or leaves its
\* line alone, unless sensorToShooter stores the object it held or a second derivation
\* stores its plan over the first one's.
THEOREM HistoryButForRaces == Spec => GecmisTekCizgi
<1>1. PlanInv /\ PlanInv' /\ [Next]_vars => [SoyutAdim \/ SensorYazar \/ TuretUstune]_vars
  BY HerAdimSoyut
<1> QED BY <1>1, PlanBaslar, PlanAdim, PTL DEF Spec, GecmisTekCizgi

-----------------------------------------------------------------------------
(***************************************************************************)
(* 7. Without the two races: SoyutuUygular.                                *)
(***************************************************************************)
TekTureten == bekleyen # {} => ~Var(Canli)

LEMMA YarissizAdim ==
    ASSUME SensorVar = FALSE, \A c, d \in Okuyucu : c = d, PlanInv, elde = Yok, TekTureten,
           [Next]_vars
    PROVE  /\ elde' = Yok /\ TekTureten' /\ ~SensorYazar /\ ~TuretUstune
<1>0. Canli \in Plan /\ \A s \in Senaryo : s \in Plan /\ s # Canli
  BY SenaryoVarsayim DEF Plan
<1>1. bekleyen \subseteq Okuyucu /\ plan \in [Plan -> Icerik \cup {Yok}]
  BY PlanTip DEF Dolu
<1>2. ~SensorYazar
  BY DEF SensorYazar
<1>3. ~TuretUstune
  BY DEF TuretUstune, TuretBitir, TekTureten
<1>4. ASSUME NEW p, NEW k, NEW y, NEW d, NEW b, NEW o, elde' = Izle(p, k, y, d, b, o)
      PROVE  elde' = Yok
  BY <1>4, Zenon DEF Izle
<1>5. ASSUME bekleyen' \subseteq bekleyen, ~Var(Canli) => plan'[Canli] = plan[Canli]
      PROVE  TekTureten'
  BY <1>5 DEF TekTureten, Var
<1>6. ASSUME NEW p \in Plan, Mutasyon(p) PROVE elde' = Yok /\ TekTureten'
  <2>1. PICK k \in Icerik : Duzenleme(p, k)
    BY <1>6, MutasyonDuzenler
  <2>2. /\ bekleyen' = bekleyen /\ Var(p) /\ plan' = [plan EXCEPT ![p] = k]
        /\ EldeIzler(p, k)
    BY <2>1 DEF Duzenleme, Duzenler, Kaydet
  <2>3. ~Var(Canli) => plan'[Canli] = plan[Canli]
    BY <1>0, <1>1, <2>2
  <2> QED BY <1>4, <1>5, <2>2, <2>3 DEF EldeIzler
<1>7. ASSUME NEW p \in Plan, Reddet(p) \/ GeriAl(p) \/ IleriAl(p) \/ SensorBasla(p)
      PROVE  elde' = Yok /\ TekTureten'
  <2>1. bekleyen' = bekleyen /\ Var(p) /\ \A q \in Plan : q # p => plan'[q] = plan[q]
    BY <1>1, <1>7 DEF Reddet, GeriAl, IleriAl, SensorBasla, Kaydet
  <2>2. elde' = Yok
    <3>1. CASE Reddet(p)
      BY <3>1 DEF Reddet
    <3>2. CASE GeriAl(p)
      BY <1>4, <3>2 DEF GeriAl
    <3>3. CASE IleriAl(p)
      BY <1>4, <3>3 DEF IleriAl
    <3>4. CASE SensorBasla(p)
      BY <3>4 DEF SensorBasla
    <3> QED BY <1>7, <3>1, <3>2, <3>3, <3>4
  <2> QED BY <1>0, <1>5, <2>1, <2>2
<1>8. ASSUME NEW s \in Senaryo, SenaryoTuret(s) \/ SenaryoSil(s)
      PROVE  elde' = Yok /\ TekTureten'
  <2>1. bekleyen' = bekleyen /\ plan'[Canli] = plan[Canli]
    BY <1>0, <1>1, <1>8 DEF SenaryoTuret, SenaryoSil, Kaydet
  <2>2. elde' = Yok
    BY <1>4, <1>8 DEF SenaryoTuret, SenaryoSil
  <2> QED BY <1>5, <2>1, <2>2
<1>9. ASSUME NEW c \in Okuyucu, TuretBasla(c) PROVE elde' = Yok /\ TekTureten'
  BY <1>9 DEF TuretBasla, TekTureten, Var
<1>10. ASSUME NEW c \in Okuyucu, NEW k \in Tohum, TuretBitir(c, k)
       PROVE  elde' = Yok /\ TekTureten'
  <2>1. bekleyen' = {}
    BY <1>1, <1>10 DEF TuretBitir
  <2>2. elde' = Yok
    BY <1>4, <1>10 DEF TuretBitir
  <2> QED BY <2>1, <2>2 DEF TekTureten
<1>11. CASE SensorHata \/ YenidenBaslat \/ UNCHANGED vars
  <2>1. bekleyen' \subseteq bekleyen /\ plan' = plan /\ elde' = Yok
    BY <1>11 DEF SensorHata, YenidenBaslat, vars
  <2> QED BY <1>2, <1>3, <1>5, <2>1
<1> QED BY <1>2, <1>3, <1>6, <1>7, <1>8, <1>9, <1>10, <1>11 DEF Next

\* Undo and redo of the live plan are a cursor on one line of versions, of at most the
\* cap and the present one, when sensorToShooter is not called and no two requests derive
\* the plan (see SoyutuUygular).
THEOREM UndoIsOneLine ==
    ASSUME SensorVar = FALSE, \A c, d \in Okuyucu : c = d
    PROVE  Spec => SoyutuUygular
<1> DEFINE Inv == PlanInv /\ elde = Yok /\ TekTureten
<1>1. Init => Inv
  BY PlanBaslar DEF Init, TekTureten
<1>2. Inv /\ [Next]_vars => Inv'
  BY PlanAdim, YarissizAdim
<1>3. Inv /\ Inv' /\ [Next]_vars => SoyutAdim
  BY HerAdimSoyut, YarissizAdim
<1>4. Init => Gecmisi!Init
  <2> SUFFICES ASSUME Init PROVE Gecmisi!Init
    OBVIOUS
  <2>1. /\ gecmis[Canli].geri = <<>> /\ gecmis[Canli].ileri = <<>> /\ plan[Canli] = Yok
        /\ Reverse(<<>>) = <<>>
    BY DEF Init, BosGecmis, Plan, Reverse
  <2>2. <<>> \o <<Yok>> \o <<>> = <<Yok>>
    <3>1. <<>> \in Seq({Yok}) /\ <<Yok>> \in Seq({Yok})
      OBVIOUS
    <3> QED BY <3>1, ConcatEmptySeq
  <2>3. gecmis[Canli].geri \o <<plan[Canli]>> \o Reverse(gecmis[Canli].ileri) = <<Yok>>
    BY <2>1, <2>2, Zenon
  <2>4. Len(<<>>) + 1 = 1
    OBVIOUS
  <2>5. Len(gecmis[Canli].geri) + 1 = 1
    BY <2>1, <2>4, Zenon
  <2> QED BY <2>3, <2>5, Zenon DEF Gecmisi!Init
<1>5. Spec => Gecmisi!Spec
  <2> HIDE DEF Inv
  <2>1. SoyutAdim => [Gecmisi!Next]_(Gecmisi!vars)
    BY DEF SoyutAdim
  <2> QED BY <1>1, <1>2, <1>3, <1>4, <2>1, PTL DEF Spec, Gecmisi!Spec
<1> QED BY <1>5 DEF SoyutuUygular

=============================================================================
