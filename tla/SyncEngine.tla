------------------------------- MODULE SyncEngine -------------------------------
(***************************************************************************)
(* sync-engine.ts: the pure functions over an operation plan, and the      *)
(* edits of SenkronService that consist of calling one.                    *)
(*                                                                         *)
(* hesaplaCpm takes the start the operator gave a task as the earliest it  *)
(* may have, passes forward and backward in topological order and names a  *)
(* critical path; yenidenPlanla moves one task and pushes what depends on  *)
(* it; topluKaydir moves all tasks or those of one domain; violations, the *)
(* conflicts over an asset and the difference to a scenario's base are     *)
(* reports.  Undo, stores and the other edits are module SenkronPlan.      *)
(*                                                                         *)
(* A task is a number: the order of its id, and of the task array.  The    *)
(* order of the dependency array only breaks ties between critical paths,  *)
(* so that is a choice here.  Times are integers, as the schema has them.  *)
(***************************************************************************)
EXTENDS Integers, SequencesExt

CONSTANTS
    Gorev,      \* the tasks
    Alan,       \* domains
    Varlik,     \* assets tasks are given to
    BasMin, BasMax,  \* BAS_MIN, BAS_MAX: where a start may lie
    BagTur,     \* kinds and lags of the dependencies, [tur, lag]
    Ilk,        \* plans to begin with
    Istenen,    \* starts an operator may ask for, and amounts to move by
    MaxBag      \* bound: dependencies of a plan

Varliksiz == "-"

Durum == {"planli", "onayli", "icrada", "tamam", "gecikme", "iptal"}

GorevKaydi == [bas : BasMin .. BasMax, sure : Nat, durum : Durum, alan : Alan,
               varlik : Varlik \cup {Varliksiz}]

Bagimlilik == {[once |-> p, sonra |-> s, tur |-> t.tur, lag |-> t.lag] :
                   p \in Gorev, s \in Gorev, t \in BagTur}

ASSUME GorevVarsayim == Gorev \subseteq Nat /\ BasMin \in Int /\ BasMax \in Int /\ BasMin <= 0 /\ 0 <= BasMax
ASSUME TurVarsayim == BagTur \subseteq [tur : {"FS", "SS"}, lag : Int]
ASSUME IlkVarsayim == \A k \in Ilk : k.gorev \in [Gorev -> GorevKaydi] /\ k.bag = {}
ASSUME IstenenVarsayim == Istenen \subseteq Int /\ MaxBag \in Nat

VARIABLE plan   \* [gorev : [Gorev -> GorevKaydi], bag : SUBSET Bagimlilik]

-----------------------------------------------------------------------------
(***************************************************************************)
(* Topological order.                                                      *)
(***************************************************************************)
Klamp(v) == Min({BasMax, Max({BasMin, v})})

Gelen(k, g) == {d \in k.bag : d.sonra = g}

Sirali(S) == SetToSortSeq(S, <)

\* The while loop of topolojik: first out of the queue, then its successors
\* whose last predecessor it was, in the order of their ids.
KahnAdim(k, o) ==
    IF o.kuyruk = <<>> THEN o
    ELSE LET g == Head(o.kuyruk)
             derece == [h \in Gorev |->
                 o.derece[h] - Cardinality({d \in k.bag : d.once = g /\ d.sonra = h})]
             yeni == {h \in Gorev : derece[h] = 0 /\ o.derece[h] > 0}
         IN [kuyruk |-> Tail(o.kuyruk) \o Sirali(yeni), derece |-> derece,
             sira |-> Append(o.sira, g)]

KahnSirasi(k) ==
    LET derece == [g \in Gorev |-> Cardinality(Gelen(k, g))]
        ilk == [kuyruk |-> Sirali({g \in Gorev : derece[g] = 0}), derece |-> derece,
                sira |-> <<>>]
    IN FoldLeft(LAMBDA o, i : KahnAdim(k, o), ilk, Sirali(Gorev)).sira

\* CpmSonuc.dongu.
Dongu(k) == Len(KahnSirasi(k)) # Cardinality(Gorev)

\* Mutant of DonguYaratir: only the reversed dependency is looked for.
DonguTers(k, yeni) ==
    yeni.once = yeni.sonra \/ \E d \in k.bag : d.once = yeni.sonra /\ d.sonra = yeni.once

\* bagimlilikDonguYaratir.
DonguYaratir(k, yeni) ==
    yeni.once = yeni.sonra \/ Dongu([k EXCEPT !.bag = @ \cup {yeni}])

-----------------------------------------------------------------------------
(***************************************************************************)
(* hesaplaCpm.                                                             *)
(***************************************************************************)
\* The earliest start d allows its successor when its predecessor starts at bas.
Gereken(d, bas, sure) == (IF d.tur = "SS" THEN bas ELSE bas + sure) + d.lag

\* Mutant of Sinir: a start-to-start dependency bounds the finish as the other.
SinirBitis(d, gecBas, sure) == gecBas - d.lag

\* The latest finish d allows its predecessor when its successor starts at gecBas.
Sinir(d, gecBas, sure) == gecBas - d.lag + (IF d.tur = "SS" THEN sure ELSE 0)

\* ES, projeSuresi and LF.
Cpm(k) ==
    LET sira == KahnSirasi(k)
        sure(g) == k.gorev[g].sure
        ileri(f, g) ==
            [f EXCEPT ![g] = Max({k.gorev[g].bas} \cup
                {Gereken(d, f[d.once], sure(d.once)) : d \in Gelen(k, g)})]
        erken == FoldLeft(ileri, [g \in Gorev |-> 0], sira)
        bitis == Max({0} \cup {erken[g] + sure(g) : g \in Gorev})
        geri(f, g) ==
            [p \in Gorev |-> Min({f[p]} \cup
                {Sinir(d, f[g] - sure(g), sure(p)) : d \in {e \in Gelen(k, g) : e.once = p}})]
    IN [erken |-> erken, bitis |-> bitis,
        gec |-> FoldLeft(geri, [g \in Gorev |-> bitis], Reverse(sira))]

Bolluk(k, c, g) == c.gec[g] - k.gorev[g].sure - c.erken[g]

Kritik(k, c) == {g \in Gorev : Bolluk(k, c, g) = 0}

\* Mutant of Belirler: the placed start, not the computed one, is compared.
BelirlerYerlesim(k, c, p, s) ==
    \E d \in Gelen(k, s) :
        d.once = p /\ k.gorev[s].bas = Gereken(d, c.erken[p], k.gorev[p].sure)

\* A dependency of s on p that fixes the start of s.
Belirler(k, c, p, s) ==
    \E d \in Gelen(k, s) :
        d.once = p /\ c.erken[s] = Gereken(d, c.erken[p], k.gorev[p].sure)

Zincirler(k, c) ==
    {y \in BoundedSeq(Kritik(k, c), Cardinality(Gorev)) :
        \A i \in 1 .. Len(y) - 1 : Belirler(k, c, y[i], y[i + 1])}

\* kritikYol: a longest chain, or all critical tasks by start if no two of them
\* are bound.
KritikYollar(k, c) ==
    LET uzun == Max({Len(y) : y \in Zincirler(k, c)})
    IN IF uzun <= 1 /\ Cardinality(Kritik(k, c)) > 1
       THEN {SetToSortSeq(Kritik(k, c), LAMBDA g, h :
                 c.erken[g] < c.erken[h] \/ (c.erken[g] = c.erken[h] /\ g < h))}
       ELSE {y \in Zincirler(k, c) : Len(y) = uzun}

\* ihlaller: dependencies the placed starts do not keep.
Ihlaller(k) ==
    {d \in k.bag : k.gorev[d.sonra].bas < Gereken(d, k.gorev[d.once].bas, k.gorev[d.once].sure)}

-----------------------------------------------------------------------------
(***************************************************************************)
(* yenidenPlanla.                                                          *)
(***************************************************************************)
Bitti(g) == g.durum \in {"tamam", "iptal"}

\* One round of the loop: the successors of task p that start too early move.
Ittir(k, gorev, p) ==
    [s \in Gorev |->
        LET gereken == {Gereken(d, gorev[p].bas, gorev[p].sure) :
                            d \in {e \in Gelen(k, s) : e.once = p}}
        IN IF Bitti(gorev[s]) \/ \A z \in gereken : gorev[s].bas >= z THEN gorev[s]
           ELSE [gorev[s] EXCEPT
                    !.bas = Klamp(Max(gereken)),
                    !.durum = IF @ \in {"planli", "onayli"} THEN "gecikme" ELSE @]]

\* Mutant of Sira: the order of the array.
SiraDizi(k) == Sirali(Gorev)

\* The topological order, or that of the array when there is a cycle.
Sira(k) ==
    LET sira == KahnSirasi(k)
    IN IF Len(sira) = Cardinality(Gorev) THEN sira ELSE Sirali(Gorev)

YenidenPlanla(k, g, v) ==
    FoldLeft(LAMBDA gorev, p : Ittir(k, gorev, p),
             [k.gorev EXCEPT ![g].bas = Klamp(v)], Sira(k))

-----------------------------------------------------------------------------
(***************************************************************************)
(* planFarki and kaynakCakismalari; gorev is a function from any set of    *)
(* tasks.  The difference also says whether the critical path is another,  *)
(* which is a comparison of two of KritikYollar.                           *)
(***************************************************************************)
PlanBitis(gorev) == Max({0} \cup {gorev[g].bas + gorev[g].sure : g \in DOMAIN gorev})

Degisiklik(tur, g, eski, yeni) == [tur |-> tur, gorev |-> g, eski |-> eski, yeni |-> yeni]

PlanFarki(baz, sen) ==
    LET ortak == DOMAIN baz \cap DOMAIN sen IN
    [degisiklikler |->
        {Degisiklik("eklendi", g, 0, sen[g].bas) : g \in DOMAIN sen \ ortak}
        \cup {Degisiklik("kaydirildi", g, baz[g].bas, sen[g].bas) : g \in {h \in ortak : baz[h].bas # sen[h].bas}}
        \cup {Degisiklik("sure_degisti", g, baz[g].sure, sen[g].sure) : g \in {h \in ortak : baz[h].sure # sen[h].sure}}
        \cup {Degisiklik("silindi", g, baz[g].bas, 0) : g \in DOMAIN baz \ ortak},
     eskiSure |-> PlanBitis(baz), yeniSure |-> PlanBitis(sen)]

\* Mutant of Cakisir: one task beginning when the other ends is a conflict.
CakisirDeger(a, b) == a.bas + a.sure >= b.bas /\ b.bas + b.sure >= a.bas

Cakisir(a, b) == a.bas + a.sure > b.bas /\ b.bas + b.sure > a.bas

\* kaynakCakismalari, each conflict as the set of its two tasks.
KaynakCakismalari(gorev) ==
    LET iste == {g \in DOMAIN gorev : /\ gorev[g].varlik # Varliksiz
                                      /\ gorev[g].sure > 0 /\ gorev[g].durum # "iptal"}
    IN {c \in kSubset(2, iste) : \E a \in c, b \in c :
           a # b /\ gorev[a].varlik = gorev[b].varlik /\ Cakisir(gorev[a], gorev[b])}

-----------------------------------------------------------------------------
(***************************************************************************)
(* The edits.                                                              *)
(***************************************************************************)
Kaydir(g, v) == plan' = [plan EXCEPT !.gorev = YenidenPlanla(plan, g, v)]

TopluKaydir(delta, alanlar) ==
    plan' = [plan EXCEPT !.gorev = [g \in Gorev |->
        IF plan.gorev[g].alan \in alanlar
        THEN [plan.gorev[g] EXCEPT !.bas = Klamp(@ + delta)]
        ELSE plan.gorev[g]]]

BagimlilikEkle(d) ==
    /\ Cardinality(plan.bag) < MaxBag
    /\ \A e \in plan.bag : <<e.once, e.sonra>> # <<d.once, d.sonra>>
    /\ ~DonguYaratir(plan, d)
    /\ plan' = [plan EXCEPT !.bag = @ \cup {d}]

Init == plan \in Ilk

Next ==
    \/ \E g \in Gorev, v \in Istenen : Kaydir(g, v)
    \/ \E delta \in Istenen : \E alanlar \in {{a} : a \in Alan} \cup {Alan} :
          TopluKaydir(delta, alanlar)
    \/ \E d \in Bagimlilik : BagimlilikEkle(d)

Spec == Init /\ [][Next]_plan

-----------------------------------------------------------------------------
(***************************************************************************)
(* Properties.                                                             *)
(***************************************************************************)
TypeOK == plan \in [gorev : [Gorev -> GorevKaydi], bag : SUBSET Bagimlilik]

\* A dependency is refused exactly when it closes a cycle, whatever the plan:
\* no order of additions gets a cycle in, and none is refused for nothing.
Cevrimli(bag) ==
    \E S \in SUBSET Gorev : S # {} /\ \A g \in S : \E d \in bag : d.sonra = g /\ d.once \in S

DonguTaninir ==
    /\ ~Cevrimli(plan.bag)
    /\ \A d \in Bagimlilik : DonguYaratir(plan, d) <=> Cevrimli(plan.bag \cup {d})

\* Slack is what the operator takes it for: task g may start that much later,
\* and not a minute more, without moving the end of the plan.
Geciken(c, g, sure) == Cpm([plan EXCEPT !.gorev[g].bas = c.erken[g] + sure]).bitis

BollukGercek ==
    LET c == Cpm(plan)
    IN \A g \in Gorev :
          LET b == Bolluk(plan, c, g)
          IN b >= 0 /\ Geciken(c, g, b) = c.bitis /\ Geciken(c, g, b + 1) > c.bitis

\* The critical path explains the end of the plan without a gap: each task in it
\* starts where the operator put it or is fixed by the task before, and ends the
\* plan or fixes the task after.
KritikYolAciklar ==
    LET c == Cpm(plan)
        bag(y, i) == i \in 1 .. Len(y) - 1 /\ Belirler(plan, c, y[i], y[i + 1])
    IN \A y \in KritikYollar(plan, c) :
          /\ c.bitis > 0 => y # <<>>
          /\ \A i \in DOMAIN y :
                /\ bag(y, i - 1) \/ c.erken[y[i]] = plan.gorev[y[i]].bas
                /\ bag(y, i) \/ c.erken[y[i]] + plan.gorev[y[i]].sure = c.bitis

\* The analysis an operator plans by: a cycle is told from a plan that has none,
\* slack is real, and the critical path explains the end of the plan.
CpmDogru == DonguTaninir /\ BollukGercek /\ KritikYolAciklar

\* After a task is moved every dependency of unfinished work holds (up to the
\* end of the time axis), tasks only moved later, and none further than a
\* dependency asks: the chain is locked, and nothing moved for no reason.
KaydirmaEnAz ==
    \A g \in Gorev, v \in Istenen :
        LET taban == [plan.gorev EXCEPT ![g].bas = Klamp(v)]
            yeni == YenidenPlanla(plan, g, v)
            gereken(d) == Klamp(Gereken(d, yeni[d.once].bas, yeni[d.once].sure))
        IN \A h \in Gorev :
              /\ yeni[h].bas >= taban[h].bas
              /\ Bitti(yeni[h]) \/ \A d \in Gelen(plan, h) : yeni[h].bas >= gereken(d)
              /\ yeni[h].bas = taban[h].bas \/ \E d \in Gelen(plan, h) : yeni[h].bas = gereken(d)

\* What the page reports of a plan and of a scenario branched from it.  No
\* violation is listed exactly when the analysis finds every task where it was
\* put.  A conflict is two tasks that need one asset in the same minute.  The
\* difference, written back into the base, gives the scenario's times, also
\* when tasks g and h were added and removed, and an end that moved has a change.
Dakikalar(g) == IF plan.gorev[g].durum = "iptal" THEN {} ELSE {plan.gorev[g].bas + i : i \in 0 .. plan.gorev[g].sure - 1}

YeniBas(f, baz, g) ==
    IF \E d \in f : d.gorev = g /\ d.tur \in {"eklendi", "kaydirildi"}
    THEN (CHOOSE d \in f : d.gorev = g /\ d.tur \in {"eklendi", "kaydirildi"}).yeni
    ELSE baz[g].bas

RaporDogru ==
    /\ Ihlaller(plan) = {} <=> \A g \in Gorev : Cpm(plan).erken[g] = plan.gorev[g].bas
    /\ KaynakCakismalari(plan.gorev) =
           {{g, h} : <<g, h>> \in {c \in Gorev \X Gorev :
               /\ c[1] # c[2]
               /\ plan.gorev[c[1]].varlik = plan.gorev[c[2]].varlik /\ plan.gorev[c[1]].varlik # Varliksiz
               /\ Dakikalar(c[1]) \cap Dakikalar(c[2]) # {}}}
    /\ \A g \in Gorev, h \in Gorev, v \in Istenen :
           LET baz == Restrict(plan.gorev, Gorev \ {g})
               sen == Restrict(YenidenPlanla(plan, g, v), Gorev \ {h})
               f == PlanFarki(baz, sen)
               silinen == {d.gorev : d \in {e \in f.degisiklikler : e.tur = "silindi"}}
               eklenen == {d.gorev : d \in {e \in f.degisiklikler : e.tur = "eklendi"}}
           IN /\ DOMAIN sen = (DOMAIN baz \ silinen) \cup eklenen
              /\ \A i \in DOMAIN sen : sen[i].bas = YeniBas(f.degisiklikler, baz, i)
              /\ f.eskiSure # f.yeniSure => f.degisiklikler # {}

=============================================================================
