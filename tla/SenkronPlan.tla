------------------------------ MODULE SenkronPlan ------------------------------
(***************************************************************************)
(* SenkronService: operation plans (the live one and what-if scenarios),   *)
(* their edits, and undo and redo over snapshots held in memory.           *)
(*                                                                         *)
(* With the plan in the store, planCoz answers without real waiting, so an *)
(* edit is one step.  Two operations wait in the middle: the derivation of *)
(* a missing live plan, and sensorToShooter, which holds the plan object   *)
(* it read while it loads the units.  JavaScript shares objects: what that *)
(* call holds is seen by edits that write in place (into the plan object,  *)
(* the task array, a task, the dependency array) and not by those that     *)
(* build a new one.  Variable elde follows this.                           *)
(*                                                                         *)
(* A plan is its tasks with a value each (start and status), its           *)
(* dependencies, and its other fields (H hour, row order).  How tasks move *)
(* is the engine's business: module SyncEngine.                            *)
(***************************************************************************)
EXTENDS Sequences, Naturals, SequencesExt

CONSTANTS
    Gorev,      \* task ids
    Angaj,      \* the task id sensorToShooter gives its engagement
    MaxDeger,   \* task values are 1 .. MaxDeger; 0: no such task
    Ek,         \* values of the other fields
    Canli,      \* CANLI_ID
    Senaryo,    \* scenario ids
    Okuyucu,    \* requests that may arrive before the live plan exists
    SensorVar,  \* TRUE: sensorToShooter is called (one call at a time)
    Tavan,      \* GECMIS_TAVAN
    Yok

ASSUME TavanVarsayim == Tavan \in Nat \ {0}
ASSUME AngajVarsayim == Angaj \in Gorev /\ MaxDeger \in Nat \ {0}
ASSUME SenaryoVarsayim == Canli \notin Senaryo
ASSUME SensorVarsayim == SensorVar \in BOOLEAN

Plan == {Canli} \cup Senaryo
Deger == 0 .. MaxDeger
Icerik == [gorev : [Gorev -> Deger], bag : SUBSET (Gorev \X Gorev), ek : Ek]

ASSUME YokVarsayim == Yok \notin Icerik

VARIABLES
    plan,     \* store: plan id -> content, or Yok
    gecmis,   \* plan id -> the two stacks of snapshots
    elde,     \* the plan object sensorToShooter holds, or Yok
    bekleyen, \* the requests that are deriving the live plan
    bayat     \* history: sensorToShooter has saved an object the store had left

vars == <<plan, gecmis, elde, bekleyen, bayat>>

BosGecmis == [geri |-> <<>>, ileri |-> <<>>]

\* The object held: whose plan; its content as it reads now; whether it is still
\* the store's object (ayni), or shares its task array (dizi), its dependency
\* array (bag) or single task objects (ortak) with it.
Elde == [id : Plan, icerik : Icerik, ayni : BOOLEAN, dizi : BOOLEAN, bag : BOOLEAN,
         ortak : SUBSET Gorev]

-----------------------------------------------------------------------------
(***************************************************************************)
(* Dependencies.                                                           *)
(***************************************************************************)
Gorevleri(k) == {g \in Gorev : k.gorev[g] # 0}

\* hesaplaCpm leaves dangling references out.
Gecerli(k) == k.bag \cap (Gorevleri(k) \X Gorevleri(k))

Cevrimli(bag) ==
    \E S \in SUBSET Gorev : S # {} /\ \A g \in S : \E h \in S : <<h, g>> \in bag

\* Mutant of DonguYaratir: only a task that waits for itself is refused.
DonguKendine(k, d) == d[1] = d[2] \/ k.bag = Yok

DonguYaratir(k, d) == d[1] = d[2] \/ Cevrimli(Gecerli([k EXCEPT !.bag = @ \cup {d}]))

-----------------------------------------------------------------------------
(***************************************************************************)
(* gecmiseYaz, and what an edit does to the object held.                   *)
(***************************************************************************)

\* Mutant of Goruntulu: the stack is not capped.
GoruntuluKapsiz(g, k) == [geri |-> Append(g.geri, k), ileri |-> <<>>]

\* The stacks g with a snapshot of k taken.
Goruntulu(g, k) ==
    LET dizi == Append(g.geri, k)
    IN [geri |-> IF Len(dizi) > Tavan THEN Tail(dizi) ELSE dizi, ileri |-> <<>>]

GecmiseYaz(p) == gecmis' = [gecmis EXCEPT ![p] = Goruntulu(@, plan[p])]

\* The object held after the store's object of plan p was edited to k:  yerinde:
\* in place (then stored as a copy of its fields);  dizi, bag: the array is
\* kept;  kopan: tasks whose object is no longer the old one.
Izle(p, k, yerinde, dizi, bag, kopan) ==
    IF elde = Yok \/ elde.id # p THEN elde
    ELSE IF elde.ayni /\ yerinde
    THEN [elde EXCEPT !.icerik = k, !.ayni = FALSE]
    ELSE LET d == elde.dizi /\ dizi
             b == elde.bag /\ bag
             o == IF d THEN Gorev ELSE elde.ortak \ kopan
         IN [elde EXCEPT !.ayni = FALSE, !.dizi = d, !.bag = b, !.ortak = o,
                !.icerik.gorev = [g \in Gorev |-> IF g \in o THEN k.gorev[g] ELSE @[g]],
                !.icerik.bag = IF b THEN k.bag ELSE @]

Kaydet(p, k) == plan' = [plan EXCEPT ![p] = k]

\* guncelle: resolve, snapshot, mutate in place, store.
Guncelle(p, k, dizi, bag, kopan) ==
    /\ GecmiseYaz(p)
    /\ Kaydet(p, k)
    /\ elde' = Izle(p, k, TRUE, dizi, bag, kopan)
    /\ UNCHANGED <<bekleyen, bayat>>

-----------------------------------------------------------------------------
(***************************************************************************)
(* Edits through guncelle.                                                 *)
(***************************************************************************)
Var(p) == plan[p] # Yok

GorevEkle(p, g, v) ==
    /\ Var(p)
    /\ plan[p].gorev[g] = 0
    /\ Guncelle(p, [plan[p] EXCEPT !.gorev[g] = v], TRUE, TRUE, {g})

GorevGuncelle(p, g, v) ==
    /\ Var(p)
    /\ plan[p].gorev[g] # 0
    /\ Guncelle(p, [plan[p] EXCEPT !.gorev[g] = v], TRUE, TRUE, {g})

\* Mutant of GorevSil: the dependencies of the removed task stay.
GorevSilYalniz(p, g) ==
    /\ Var(p)
    /\ plan[p].gorev[g] # 0
    /\ Guncelle(p, [plan[p] EXCEPT !.gorev[g] = 0], FALSE, FALSE, {g})

GorevSil(p, g) ==
    /\ Var(p)
    /\ plan[p].gorev[g] # 0
    /\ Guncelle(p, [plan[p] EXCEPT !.gorev[g] = 0,
                                   !.bag = {d \in @ : g \notin {d[1], d[2]}}],
                FALSE, FALSE, {g})

BagimlilikEkle(p, d) ==
    /\ Var(p)
    /\ {d[1], d[2]} \subseteq Gorevleri(plan[p])
    /\ d \notin plan[p].bag
    /\ ~DonguYaratir(plan[p], d)
    /\ Guncelle(p, [plan[p] EXCEPT !.bag = @ \cup {d}], TRUE, TRUE, {})

\* Never refused: without the dependency the plan is stored as it was.
BagimlilikSil(p, d) ==
    /\ Var(p)
    /\ Guncelle(p, [plan[p] EXCEPT !.bag = @ \ {d}], TRUE, FALSE, {})

\* hSaatiAyarla, satirSirala.
EkAyarla(p, e) ==
    /\ Var(p)
    /\ Guncelle(p, [plan[p] EXCEPT !.ek = e], TRUE, TRUE, {})

\* mutate refuses (unknown task, id in use, duplicate or cyclic dependency,
\* schema): the snapshot is taken back.
Reddet(p) ==
    /\ Var(p)
    /\ gecmis' = [gecmis EXCEPT ![p].geri = Front(Goruntulu(gecmis[p], plan[p]).geri),
                                ![p].ileri = <<>>]
    /\ UNCHANGED <<plan, elde, bekleyen, bayat>>

-----------------------------------------------------------------------------
(***************************************************************************)
(* The other edits.                                                        *)
(***************************************************************************)

\* durumGuncelle writes into the task object.
DurumGuncelle(p, g, v) ==
    /\ Var(p)
    /\ plan[p].gorev[g] # 0
    /\ Guncelle(p, [plan[p] EXCEPT !.gorev[g] = v], TRUE, TRUE, {})

\* A new plan object with new tasks over the same dependency array.
YeniGorevler(p, gorev) ==
    LET k == [plan[p] EXCEPT !.gorev = gorev]
    IN /\ GecmiseYaz(p)
       /\ Kaydet(p, k)
       /\ elde' = Izle(p, k, FALSE, FALSE, TRUE, Gorev)
       /\ UNCHANGED <<bekleyen, bayat>>

\* Task g goes to a new start; whatever violates a dependency moves too.  An
\* unknown task changes nothing and is stored all the same.
Kaydir(p, g) ==
    /\ Var(p)
    /\ \E yeni \in [Gorev -> Deger] :
          /\ \A h \in Gorev : yeni[h] = 0 <=> plan[p].gorev[h] = 0
          /\ \A h \in Gorev : yeni[h] # plan[p].gorev[h]
                => h = g \/ \E i \in Gorev : <<i, h>> \in Gecerli(plan[p])
          /\ plan[p].gorev[g] = 0 => yeni = plan[p].gorev
          /\ YeniGorevler(p, yeni)

\* Every task, or those of one domain, by the same amount.
TopluKaydir(p, alan) ==
    /\ Var(p)
    /\ \E yeni \in [Gorev -> Deger] :
          /\ \A h \in Gorev : yeni[h] = 0 <=> plan[p].gorev[h] = 0
          /\ \A h \in Gorev \ alan : yeni[h] = plan[p].gorev[h]
          /\ YeniGorevler(p, yeni)

\* Mutant of GeriAl: the present version is not kept for redo.
GeriAlIleriSiz(p) ==
    /\ Var(p)
    /\ gecmis[p].geri # <<>>
    /\ Kaydet(p, Last(gecmis[p].geri))
    /\ gecmis' = [gecmis EXCEPT ![p].geri = Front(@)]
    /\ elde' = Izle(p, Last(gecmis[p].geri), FALSE, FALSE, FALSE, Gorev)
    /\ UNCHANGED <<bekleyen, bayat>>

GeriAl(p) ==
    /\ Var(p)
    /\ gecmis[p].geri # <<>>
    /\ Kaydet(p, Last(gecmis[p].geri))
    /\ gecmis' = [gecmis EXCEPT ![p].geri = Front(@), ![p].ileri = Append(@, plan[p])]
    /\ elde' = Izle(p, Last(gecmis[p].geri), FALSE, FALSE, FALSE, Gorev)
    /\ UNCHANGED <<bekleyen, bayat>>

IleriAl(p) ==
    /\ Var(p)
    /\ gecmis[p].ileri # <<>>
    /\ Kaydet(p, Last(gecmis[p].ileri))
    /\ gecmis' = [gecmis EXCEPT ![p].ileri = Front(@), ![p].geri = Append(@, plan[p])]
    /\ elde' = Izle(p, Last(gecmis[p].ileri), FALSE, FALSE, FALSE, Gorev)
    /\ UNCHANGED <<bekleyen, bayat>>

\* promote: the scenario's tasks and dependencies into the live plan.
Promote(s) ==
    /\ Var(s)
    /\ Var(Canli)
    /\ Guncelle(Canli, [plan[Canli] EXCEPT !.gorev = plan[s].gorev, !.bag = plan[s].bag],
                FALSE, FALSE, Gorev)

\* senaryoTuret, under an id no plan has had.
SenaryoTuret(s) ==
    /\ Var(Canli)
    /\ ~Var(s)
    /\ gecmis[s] = BosGecmis
    /\ Kaydet(s, plan[Canli])
    /\ UNCHANGED <<gecmis, elde, bekleyen, bayat>>

\* The history of a removed scenario stays.
SenaryoSil(s) ==
    /\ Var(s)
    /\ Kaydet(s, Yok)
    /\ elde' = Izle(s, plan[s], FALSE, FALSE, FALSE, Gorev)
    /\ UNCHANGED <<gecmis, bekleyen, bayat>>

-----------------------------------------------------------------------------
(***************************************************************************)
(* canliPlan: no plan yet, load the units, derive and store.  An edit that *)
(* finds no plan derives it and goes on in the same turn.                  *)
(***************************************************************************)
Tohum == {k \in Icerik : ~Cevrimli(k.bag) /\ k.bag \subseteq Gorevleri(k) \X Gorevleri(k)}

TuretBasla(c) ==
    /\ ~Var(Canli)
    /\ c \notin bekleyen
    /\ bekleyen' = bekleyen \cup {c}
    /\ UNCHANGED <<plan, gecmis, elde, bayat>>

TuretBitir(c, k) ==
    /\ c \in bekleyen
    /\ bekleyen' = bekleyen \ {c}
    /\ Kaydet(Canli, k)
    /\ elde' = Izle(Canli, k, FALSE, FALSE, FALSE, Gorev)
    /\ UNCHANGED <<gecmis, bayat>>

-----------------------------------------------------------------------------
(***************************************************************************)
(* sensorToShooter: snapshot, await the units, replace the engagement in   *)
(* the object held, store it.                                              *)
(***************************************************************************)
SensorBasla(p) ==
    /\ SensorVar
    /\ elde = Yok
    /\ Var(p)
    /\ GecmiseYaz(p)
    /\ elde' = [id |-> p, icerik |-> plan[p], ayni |-> TRUE, dizi |-> TRUE, bag |-> TRUE,
                ortak |-> Gorev]
    /\ UNCHANGED <<plan, bekleyen, bayat>>

SensorBitir(v) ==
    /\ elde # Yok
    /\ Kaydet(elde.id, [elde.icerik EXCEPT !.gorev[Angaj] = v])
    /\ bayat' = (bayat \/ ~elde.ayni)
    /\ elde' = Yok
    /\ UNCHANGED <<gecmis, bekleyen>>

\* The load fails: the snapshot stays.
SensorHata ==
    /\ elde # Yok
    /\ elde' = Yok
    /\ UNCHANGED <<plan, gecmis, bekleyen, bayat>>

\* A restart: memory is gone, the store is read again.
YenidenBaslat ==
    /\ gecmis' = [p \in Plan |-> BosGecmis]
    /\ elde' = Yok
    /\ bekleyen' = {}
    /\ UNCHANGED <<plan, bayat>>

-----------------------------------------------------------------------------
Init ==
    /\ plan = [p \in Plan |-> Yok]
    /\ gecmis = [p \in Plan |-> BosGecmis]
    /\ elde = Yok
    /\ bekleyen = {}
    /\ bayat = FALSE

\* An edit of plan p that stores a new content.
Mutasyon(p) ==
    \/ \E g \in Gorev :
          \/ \E v \in Deger \ {0} :
                GorevEkle(p, g, v) \/ GorevGuncelle(p, g, v) \/ DurumGuncelle(p, g, v)
          \/ GorevSil(p, g)
          \/ Kaydir(p, g)
    \/ \E d \in Gorev \X Gorev : BagimlilikEkle(p, d) \/ BagimlilikSil(p, d)
    \/ \E e \in Ek : EkAyarla(p, e)
    \/ \E alan \in SUBSET Gorev : TopluKaydir(p, alan)
    \/ p = Canli /\ \E s \in Senaryo : Promote(s)
    \/ elde # Yok /\ elde.id = p /\ \E v \in Deger \ {0} : SensorBitir(v)

Next ==
    \/ \E p \in Plan :
          Mutasyon(p) \/ Reddet(p) \/ GeriAl(p) \/ IleriAl(p) \/ SensorBasla(p)
    \/ \E s \in Senaryo : SenaryoTuret(s) \/ SenaryoSil(s)
    \/ \E c \in Okuyucu : TuretBasla(c) \/ (\E k \in Tohum : TuretBitir(c, k))
    \/ SensorHata
    \/ YenidenBaslat

Spec == Init /\ [][Next]_vars

-----------------------------------------------------------------------------
(***************************************************************************)
(* Properties.                                                             *)
(***************************************************************************)
TypeOK ==
    /\ plan \in [Plan -> Icerik \cup {Yok}]
    /\ gecmis \in [Plan -> [geri : Seq(Icerik), ileri : Seq(Icerik)]]
    /\ elde \in Elde \cup {Yok}
    /\ bekleyen \subseteq Okuyucu
    /\ bayat \in BOOLEAN

\* Every content a reader, an undo or a redo may meet.
Icerikler ==
    {plan[p] : p \in {q \in Plan : Var(q)}}
        \cup UNION {ToSet(gecmis[p].geri) \cup ToSet(gecmis[p].ileri) : p \in Plan}

\* No plan and no snapshot has a dependency cycle ("döngü koruması",
\* senkron.controller.ts).
Dongusuz == \A k \in Icerikler : ~Cevrimli(Gecerli(k))

\* Nothing but a stale object stored by sensorToShooter gets a cycle past the
\* check: not undo and redo, not promotion, not a removed and re-added task.
DonguYalnizYarista == ~bayat => Dongusuz

\* A dependency refers to tasks of its plan, unless sensorToShooter stored an
\* object that edits had gone past.
SarkanYalnizYarista ==
    ~bayat => \A k \in Icerikler : k.bag \subseteq Gorevleri(k) \X Gorevleri(k)

\* Whatever edits, undo, redo and promotion do, a plan or a snapshot is only out
\* of order, with a cycle or a dangling dependency, after that race.
BozukYalnizYarista == DonguYalnizYarista /\ SarkanYalnizYarista

\* Undo and redo of the live plan are a cursor on one line of versions, no longer
\* than the cap however undo, redo and refused edits alternate: redo pushes
\* without looking at it.
Gecmisi == INSTANCE PlanHistory WITH
    cizgi <- gecmis[Canli].geri \o <<plan[Canli]>> \o Reverse(gecmis[Canli].ileri),
    imlec <- Len(gecmis[Canli].geri) + 1,
    Azami <- Tavan

\* The two steps with no counterpart: sensorToShooter stores the object it held, and a
\* second derivation stores its plan over the first one's.
SensorYazar == elde # Yok /\ elde.id = Canli /\ \E v \in Deger \ {0} : SensorBitir(v)

TuretUstune == Var(Canli) /\ \E c \in Okuyucu, k \in Tohum : TuretBitir(c, k)

SoyutAdim == UNCHANGED Gecmisi!vars \/ Gecmisi!Next

\* But for these two races every edit, undo, redo, refused edit, promotion and restart is
\* one move on that line, or leaves it alone.
GecmisTekCizgi == [][SoyutAdim \/ SensorYazar \/ TuretUstune]_vars

\* Without them operation plans implement PlanHistory.
SoyutuUygular == Gecmisi!Spec

=============================================================================
