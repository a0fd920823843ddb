-------------------------------- MODULE PlanPage --------------------------------
(***************************************************************************)
(* SyncMatrixPage.tsx around one task: the drawer in which it is edited    *)
(* (GorevDetay), the dependency into it as the timeline's menu changes it, *)
(* and the choice between the live plan and a scenario.  The server has    *)
(* the plans; the page shows copies that queries refetch.                  *)
(*                                                                         *)
(* The drawer takes its fields from the copy when it is mounted and sends  *)
(* all of them with every save.  Fields stand for their kinds: ad must not *)
(* be empty, an empty baslangicDk is zero, an empty varlikId is not sent,  *)
(* an empty muhimmat (as six others) is sent as null if the task has one.  *)
(***************************************************************************)
EXTENDS Naturals

CONSTANTS
    FormDeger,         \* values of each field of the form
    Kapali, PlanBekler,  \* no drawer; a drawer without a plan to show
    KopyaYok,      \* no copy of a plan
    IlkGorev,      \* the task and its dependency to begin with
    MaxIs,         \* bound: gestures in the page
    MaxDis,        \* bound: edits from elsewhere
    MaxKopus       \* bound: calls cut off

BosMetin == ""
FormAlan == {"ad", "baslangicDk", "varlikId", "muhimmat"}
BagAlan == {"tur", "gecikmeDk"}
Plan == {"canli", "senaryo"}

ASSUME PlanSayfaVarsayim ==
    /\ DOMAIN FormDeger = FormAlan
    /\ IlkGorev \in [FormAlan \cup BagAlan -> STRING]
    /\ MaxIs \in Nat /\ MaxDis \in Nat /\ MaxKopus \in Nat
    /\ \A f \in {"ad", "baslangicDk"} : IlkGorev[f] # BosMetin /\ BosMetin \notin FormDeger[f]

VARIABLES
    sunucuPlan,   \* per plan, the task and its dependency; tur = BosMetin: no dependency
    planKopya,    \* the copies of ['senkron-plan', id]
    planId,       \* the plan shown
    cekmece,      \* the drawer: Kapali, PlanBekler, or [plan, form, ilk, eski]
    cagri,        \* calls in flight
    niyet,        \* history: what the plans should be by everybody's edits
    hak,          \* gestures, edits and cuts left
    planSebep     \* history: why the plans may be something else

planVars == <<sunucuPlan, planKopya, planId, cekmece, cagri, niyet, hak, planSebep>>

Harca(b) == hak[b] > 0 /\ hak' = [hak EXCEPT ![b] = @ - 1]

Not(s, kosul) == IF kosul THEN {s} ELSE {}

\* A form that somebody's change of plan p has made older than the plan.
Eskit(c, p) == IF c \notin {Kapali, PlanBekler} /\ c.plan = p THEN [c EXCEPT !.eski = TRUE] ELSE c
EskitCagri(C, p) ==
    {IF i.tur = "kaydet" /\ i.plan = p THEN [i EXCEPT !.eski = TRUE] ELSE i : i \in C}

-----------------------------------------------------------------------------
\* The useStates of GorevDetay: what a drawer mounted over plan p begins with.
Acilis(p, k) ==
    [plan |-> p, form |-> [f \in FormAlan |-> k[p][f]], ilk |-> [f \in FormAlan |-> k[p][f]],
     eski |-> k[p] # sunucuPlan[p] \/ \E i \in cagri : i.tur = "kaydet" /\ i.plan = p]

\* The drawer after the page shows plan p with copies k: without a copy it is
\* unmounted, and with another plan's copy, for its key is the task's id, it
\* stays as it is.
Cekmece(p, k) ==
    IF cekmece = Kapali THEN Kapali
    ELSE IF k[p] = KopyaYok THEN PlanBekler
    ELSE IF cekmece = PlanBekler THEN Acilis(p, k) ELSE cekmece

\* Mutant of Yama: an emptied text is left out, as an emptied asset is.
YamaEksik(form, gorev) ==
    [f \in {x \in FormAlan : form[x] # BosMetin} |-> form[f]]

\* What kaydet sends, with gorev the task in the copy; a null is BosMetin.
Yama(form, gorev) ==
    [f \in {x \in FormAlan : \/ x \in {"ad", "baslangicDk"}
                             \/ form[x] # BosMetin
                             \/ x = "muhimmat" /\ gorev[x] # BosMetin} |->
        IF form[f] # BosMetin THEN form[f]
        ELSE CASE f = "ad" -> gorev.ad
               [] f = "baslangicDk" -> "0"
               [] OTHER -> BosMetin]

\* gorevGuncelle.
GorevYamala(gorev, yama) ==
    [f \in DOMAIN gorev |-> IF f \in DOMAIN yama THEN yama[f] ELSE gorev[f]]

-----------------------------------------------------------------------------
GorevAc ==
    /\ Harca("is")
    /\ cekmece = Kapali
    /\ planKopya[planId] # KopyaYok
    /\ cekmece' = Acilis(planId, planKopya)
    /\ UNCHANGED <<sunucuPlan, planKopya, planId, cagri, niyet, planSebep>>

GorevKapat ==
    /\ cekmece # Kapali
    /\ cekmece' = Kapali
    /\ UNCHANGED <<sunucuPlan, planKopya, planId, cagri, niyet, hak, planSebep>>

FormYaz(f, v) ==
    /\ Harca("is")
    /\ cekmece \notin {Kapali, PlanBekler}
    /\ v # cekmece.form[f]
    /\ cekmece' = [cekmece EXCEPT !.form[f] = v]
    /\ UNCHANGED <<sunucuPlan, planKopya, planId, cagri, niyet, planSebep>>

\* kaydet: the drawer stays open.  What the operator changed is meant for the
\* plan the drawer was opened over.
GorevKaydet ==
    /\ Harca("is")
    /\ cekmece \notin {Kapali, PlanBekler}
    /\ LET degisen == {f \in FormAlan : cekmece.form[f] # cekmece.ilk[f]}
           p == cekmece.plan
       IN /\ cagri' = cagri \cup
                 {[tur |-> "kaydet", plan |-> planId, eski |-> cekmece.eski,
                   yama |-> Yama(cekmece.form, planKopya[planId])]}
          /\ niyet' = [niyet EXCEPT ![p] = GorevYamala(@, [f \in degisen |-> cekmece.form[f]])]
          /\ planSebep' = planSebep
                 \cup Not("bosAlan", \E f \in degisen \ {"muhimmat"} : cekmece.form[f] = BosMetin)
                 \cup Not("baskaPlan", planId # p)
                 \cup Not("kopya", /\ cekmece.form.muhimmat = BosMetin
                                   /\ planKopya[planId] # sunucuPlan[planId])
                 \cup Not("ustuste", cagri # {})
          /\ cekmece' = [cekmece EXCEPT !.ilk = cekmece.form]
    /\ UNCHANGED <<sunucuPlan, planKopya, planId>>

\* onBagimlilikDegistir: a removal now, an addition with its answer; the part
\* that is not changed is the copy's.
BagimlilikDegistir(f, v) ==
    /\ Harca("is")
    /\ cekmece = Kapali
    /\ planKopya[planId] # KopyaYok
    /\ LET d == planKopya[planId]
       IN /\ d.tur # BosMetin /\ d[f] # v
          /\ cagri' = cagri \cup
                 {[tur |-> "bagSil", plan |-> planId,
                   yama |-> [x \in BagAlan |-> IF x = f THEN v ELSE d[x]]]}
          /\ planSebep' = planSebep
                 \cup Not("eski", \E x \in BagAlan : d[x] # sunucuPlan[planId][x])
                 \cup Not("ustuste", cagri # {})
    /\ niyet' = [niyet EXCEPT ![planId][f] = v]
    /\ UNCHANGED <<sunucuPlan, planKopya, planId, cekmece>>

\* The plan menu; an open drawer covers it.
PlanSec(p) ==
    /\ Harca("is")
    /\ cekmece = Kapali
    /\ p # planId
    /\ planId' = p
    /\ UNCHANGED <<sunucuPlan, planKopya, cekmece, cagri, niyet, planSebep>>

\* handleTerfi.
PlanTerfi ==
    /\ Harca("is")
    /\ cekmece = Kapali
    /\ planId = "senaryo"
    /\ cagri' = cagri \cup {[tur |-> "terfi", plan |-> planId]}
    /\ niyet' = [niyet EXCEPT !["canli"] = niyet["senaryo"]]
    /\ planSebep' = planSebep \cup Not("ustuste", cagri # {})
    /\ UNCHANGED <<sunucuPlan, planKopya, planId, cekmece>>

-----------------------------------------------------------------------------
\* The server takes a call.
KaydetIslenir(i) ==
    /\ i.tur = "kaydet"
    /\ sunucuPlan' = [sunucuPlan EXCEPT ![i.plan] = GorevYamala(@, i.yama)]
    /\ cagri' = cagri \ {i}
    /\ planSebep' = planSebep \cup Not("eski", i.eski)
    /\ UNCHANGED <<planKopya, planId, cekmece, niyet, hak>>

BagSilIslenir(i) ==
    /\ i.tur = "bagSil"
    /\ sunucuPlan' = [sunucuPlan EXCEPT ![i.plan].tur = BosMetin]
    /\ cagri' = (cagri \ {i}) \cup {[i EXCEPT !.tur = "bagEkle"]}
    /\ UNCHANGED <<planKopya, planId, cekmece, niyet, hak, planSebep>>

\* A dependency that is there already is refused.
BagEkleIslenir(i) ==
    /\ i.tur = "bagEkle"
    /\ sunucuPlan' = IF sunucuPlan[i.plan].tur # BosMetin THEN sunucuPlan
                     ELSE [sunucuPlan EXCEPT ![i.plan] = GorevYamala(@, i.yama)]
    /\ cagri' = cagri \ {i}
    /\ UNCHANGED <<planKopya, planId, cekmece, niyet, hak, planSebep>>

TerfiIslenir(i) ==
    /\ i.tur = "terfi"
    /\ sunucuPlan' = [sunucuPlan EXCEPT !["canli"] = sunucuPlan["senaryo"]]
    /\ cagri' = EskitCagri(cagri \ {i}, "canli") \cup {[i EXCEPT !.tur = "terfiOldu"]}
    /\ cekmece' = Eskit(cekmece, "canli")
    /\ UNCHANGED <<planKopya, planId, niyet, hak, planSebep>>

\* The page goes to the live plan whatever came of the promotion.
TerfiBiter(C) ==
    /\ planId' = "canli"
    /\ cekmece' = Cekmece("canli", planKopya)
    /\ cagri' = C
    /\ UNCHANGED <<sunucuPlan, planKopya, niyet>>

TerfiCevap(i) ==
    /\ i.tur = "terfiOldu"
    /\ TerfiBiter(cagri \ {i})
    /\ UNCHANGED <<hak, planSebep>>

\* The connection breaks before a call is taken; nothing of it is told but of a
\* promotion, and the second half of a change of a dependency.
CagriKopar(i) ==
    /\ Harca("kopus")
    /\ i.tur # "terfiOldu"
    /\ planSebep' = planSebep \cup {IF i.tur = "bagEkle" THEN "bagYarim" ELSE "koptu"}
    /\ IF i.tur = "terfi" THEN TerfiBiter(cagri \ {i})
       ELSE /\ cagri' = cagri \ {i}
            /\ UNCHANGED <<sunucuPlan, planKopya, planId, cekmece, niyet>>

\* A page elsewhere, the assistant, an undo by a key while the drawer is open.
DisKaydet(p, f, v) ==
    /\ Harca("dis")
    /\ v # sunucuPlan[p][f]
    /\ f \in BagAlan => sunucuPlan[p].tur # BosMetin
    /\ sunucuPlan' = [sunucuPlan EXCEPT ![p][f] = v]
    /\ niyet' = [niyet EXCEPT ![p][f] = v]
    /\ cagri' = IF f \in FormAlan THEN EskitCagri(cagri, p) ELSE cagri
    /\ cekmece' = IF f \in FormAlan THEN Eskit(cekmece, p) ELSE cekmece
    /\ planSebep' = planSebep \cup
           Not("ustuste", \E i \in cagri : i.tur \in {"bagSil", "bagEkle", "terfi"})
    /\ UNCHANGED <<planKopya, planId>>

\* A refetch of the plan shown.
PlanTazele ==
    /\ planKopya[planId] # sunucuPlan[planId]
    /\ planKopya' = [planKopya EXCEPT ![planId] = sunucuPlan[planId]]
    /\ cekmece' = Cekmece(planId, planKopya')
    /\ UNCHANGED <<sunucuPlan, planId, cagri, niyet, hak, planSebep>>

\* A copy no page shows for five minutes is dropped.
KopyaUnut ==
    \E p \in Plan \ {planId} :
        /\ planKopya[p] # KopyaYok
        /\ planKopya' = [planKopya EXCEPT ![p] = KopyaYok]
        /\ UNCHANGED <<sunucuPlan, planId, cekmece, cagri, niyet, hak, planSebep>>

-----------------------------------------------------------------------------
PlanInit ==
    /\ sunucuPlan = [p \in Plan |-> IlkGorev]
    /\ planKopya = [p \in Plan |-> IF p = "canli" THEN IlkGorev ELSE KopyaYok]
    /\ planId = "canli"
    /\ cekmece = Kapali
    /\ cagri = {}
    /\ niyet = sunucuPlan
    /\ hak = [is |-> MaxIs, dis |-> MaxDis, kopus |-> MaxKopus]
    /\ planSebep = {}

PlanNext ==
    \/ GorevAc \/ GorevKapat \/ GorevKaydet
    \/ \E f \in FormAlan : \E v \in FormDeger[f] \cup {BosMetin} : FormYaz(f, v)
    \/ \E v \in {"FS", "SS"} : BagimlilikDegistir("tur", v)
    \/ \E v \in {"0", "5"} : BagimlilikDegistir("gecikmeDk", v)
    \/ \E p \in Plan : PlanSec(p)
    \/ PlanTerfi
    \/ \E i \in cagri :
           \/ KaydetIslenir(i) \/ BagSilIslenir(i) \/ BagEkleIslenir(i)
           \/ TerfiIslenir(i) \/ TerfiCevap(i) \/ CagriKopar(i)
    \/ \E p \in Plan :
           \/ \E f \in FormAlan : \E v \in FormDeger[f] : DisKaydet(p, f, v)
           \/ \E v \in {"FS", "SS"} : DisKaydet(p, "tur", v)
           \/ \E v \in {"0", "5"} : DisKaydet(p, "gecikmeDk", v)
    \/ PlanTazele \/ KopyaUnut

PlanSpec == PlanInit /\ [][PlanNext]_planVars

-----------------------------------------------------------------------------
(***************************************************************************)
(* Properties.                                                             *)
(***************************************************************************)
\* Once every call is answered, the server's plans are what the edits of this
\* page and of everybody else make them, field by field: a save of the whole
\* drawer changes nothing the operator did not, an emptied text is gone and a
\* changed dependency is there.  Exceptions are a form older than the plan it
\* is saved to, an emptied text before the page has refetched, calls that
\* overlap, an emptied field that cannot be empty, a drawer left open over
\* another plan, a change of a dependency cut in the middle, a call cut off.
FormSebepli == planSebep = {} /\ cagri = {} => sunucuPlan = niyet

=============================================================================
