----------------------------- MODULE GanttTimeline -----------------------------
(***************************************************************************)
(* GanttTimeline.tsx over the server's replanning (module SyncEngine): a   *)
(* block is dragged and dropped, it and its chain are shown at once where  *)
(* the client's own preview puts them (optBas), the server replans the     *)
(* plan it has by then, and refetches bring the result back.  The page     *)
(* (SyncMatrixPage) may hide domains: the timeline then knows neither the  *)
(* hidden tasks nor their dependencies.                                    *)
(*                                                                         *)
(* Durations change the same way (optSure) and are left out, as are        *)
(* layout, zoom and panning.                                               *)
(***************************************************************************)
EXTENDS SyncEngine

CONSTANTS
    GanttIlk,    \* plans to begin with
    MaxBirak,    \* bound: blocks dropped
    MaxBaska     \* bound: moves that are no drops

ASSUME GanttVarsayim == MaxBirak \in Nat /\ MaxBaska \in Nat

VARIABLES
    kopya,     \* the plan of the last refetch
    gizli,     \* domainKapali
    surukle,   \* the block held and the plan of the render it was picked up in, or <<>>
    istek,     \* requests without an answer
    optBas,    \* optBas: tasks shown elsewhere than the refetched plan has them
    kalan,     \* drops and other moves left
    neden      \* history: why optBas may be wrong

ganttVars == <<plan, kopya, gizli, surukle, istek, optBas, kalan, neden>>

-----------------------------------------------------------------------------
\* gorunenPlan.
Gorunen(k, gizlenen) ==
    LET acik == {g \in DOMAIN k.gorev : k.gorev[g].alan \notin gizlenen}
    IN [gorev |-> Restrict(k.gorev, acik),
        bag |-> {d \in k.bag : d.once \in acik /\ d.sonra \in acik}]

\* One dependency in the loop of kaydirOnizle: tam holds what was moved so far.
Gevset(k, tam, d) ==
    LET bas(g) == IF g \in DOMAIN tam THEN tam[g] ELSE k.gorev[g].bas
        gereken == Gereken(d, bas(d.once), k.gorev[d.once].sure)
    IN IF Bitti(k.gorev[d.sonra]) \/ bas(d.sonra) >= gereken \/ Klamp(gereken) = bas(d.sonra)
       THEN tam
       ELSE (d.sonra :> Klamp(gereken)) @@ tam

\* kaydirOnizle: relaxation over the dependencies, as many rounds as there are
\* tasks; on an acyclic plan their order does not matter.
Onizle(k, g, v) ==
    IF g \notin DOMAIN k.gorev THEN <<>>
    ELSE LET tur(tam, i) == FoldLeft(LAMBDA t, d : Gevset(k, t, d), tam, SetToSeq(k.bag))
         IN FoldLeft(tur, IF Klamp(v) = k.gorev[g].bas THEN <<>> ELSE g :> Klamp(v),
                     Sirali(DOMAIN k.gorev))

\* The effect over gorevById.
Temizle(m, k) ==
    Restrict(m, {g \in DOMAIN m \cap DOMAIN k.gorev : m[g] # k.gorev[g].bas})

\* Mutant of GeriAl: only the block that was dropped goes back.
GeriAlTek(m, i) == Restrict(m, DOMAIN m \ {i.gorev})

\* geriAl: a refused drop takes its whole chain back.
GeriAl(m, i) == Restrict(m, DOMAIN m \ i.tam)

-----------------------------------------------------------------------------
Tut(g) ==
    /\ surukle = <<>>
    /\ kalan.birak > 0
    /\ g \in DOMAIN Gorunen(kopya, gizli).gorev
    /\ surukle' = <<[gorev |-> g, gorunen |-> Gorunen(kopya, gizli)]>>
    /\ UNCHANGED <<plan, kopya, gizli, istek, optBas, kalan, neden>>

\* Escape, or a drop where the block was.
Vazgec ==
    /\ surukle # <<>>
    /\ surukle' = <<>>
    /\ UNCHANGED <<plan, kopya, gizli, istek, optBas, kalan, neden>>

\* What makes a drop one whose preview the server need not confirm.
Nedenler(g, hedef, tam) ==
    {n \in {"eksen", "gizli", "eski", "ustuste", "yerinde"} :
        CASE n = "eksen" -> Klamp(hedef) # hedef
          [] n = "gizli" -> gizli # {}
          [] n = "eski" -> surukle[1].gorunen # Gorunen(kopya, gizli) \/ kopya # plan
          [] n = "ustuste" -> istek # {} \/ optBas # <<>>
          [] n = "yerinde" -> \E h \in DOMAIN tam : tam[h] = plan.gorev[h].bas}

\* up: the target counts from where the task is now, the preview from the plan
\* of the render the drag began in.
Birak(delta) ==
    /\ surukle # <<>>
    /\ surukle' = <<>>
    /\ LET g == surukle[1].gorev
           simdi == Gorunen(kopya, gizli).gorev
       IN /\ g \in DOMAIN simdi
          /\ LET hedef == simdi[g].bas + delta
                 tam == Onizle(surukle[1].gorunen, g, hedef) @@ (g :> hedef)
             IN /\ optBas' = tam @@ optBas
                /\ istek' = istek \cup
                       {[gorev |-> g, bas |-> hedef, tam |-> DOMAIN tam, islendi |-> FALSE]}
                /\ neden' = neden \cup Nedenler(g, hedef, tam)
    /\ kalan' = [kalan EXCEPT !.birak = @ - 1]
    /\ UNCHANGED <<plan, kopya, gizli>>

\* The server handles a request.
Isle(i) ==
    /\ ~i.islendi
    /\ Kaydir(i.gorev, i.bas)
    /\ istek' = (istek \ {i}) \cup {[i EXCEPT !.islendi = TRUE]}
    /\ UNCHANGED <<kopya, gizli, surukle, optBas, kalan, neden>>

Cevap(i) ==
    /\ i.islendi
    /\ istek' = istek \ {i}
    /\ UNCHANGED <<plan, kopya, gizli, surukle, optBas, kalan, neden>>

\* The request is refused, or it or its answer is lost.
BirakHata(i) ==
    /\ istek' = istek \ {i}
    /\ optBas' = GeriAl(optBas, i)
    /\ UNCHANGED <<plan, kopya, gizli, surukle, kalan, neden>>

\* The arrow keys, the assistant or another operator moves a task.
BaskaKaydir(g, v) ==
    /\ kalan.baska > 0
    /\ kalan' = [kalan EXCEPT !.baska = @ - 1]
    /\ Kaydir(g, v)
    /\ neden' = neden \cup (IF istek = {} /\ optBas = <<>> THEN {} ELSE {"baska"})
    /\ UNCHANGED <<kopya, gizli, surukle, istek, optBas>>

\* A refetch: equal data keeps its identity, and no effect runs.
Tazele ==
    /\ kopya # plan
    /\ kopya' = plan
    /\ optBas' = IF Gorunen(plan, gizli).gorev = Gorunen(kopya, gizli).gorev THEN optBas
                 ELSE Temizle(optBas, Gorunen(plan, gizli))
    /\ UNCHANGED <<plan, gizli, surukle, istek, kalan, neden>>

Gizle(a) ==
    /\ gizli' = IF a \in gizli THEN gizli \ {a} ELSE gizli \cup {a}
    /\ optBas' = Temizle(optBas, Gorunen(kopya, gizli'))
    /\ UNCHANGED <<plan, kopya, surukle, istek, kalan, neden>>

GanttInit ==
    /\ plan \in GanttIlk
    /\ kopya = plan
    /\ gizli = {}
    /\ surukle = <<>>
    /\ istek = {}
    /\ optBas = <<>>
    /\ kalan = [birak |-> MaxBirak, baska |-> MaxBaska]
    /\ neden = {}

GanttNext ==
    \/ \E g \in Gorev : Tut(g) \/ \E v \in Istenen : BaskaKaydir(g, v)
    \/ Vazgec \/ Tazele
    \/ \E delta \in Istenen : Birak(delta)
    \/ \E i \in istek : Isle(i) \/ Cevap(i) \/ BirakHata(i)
    \/ \E a \in Alan : Gizle(a)

GanttSpec == GanttInit /\ [][GanttNext]_ganttVars

-----------------------------------------------------------------------------
(***************************************************************************)
(* Properties.                                                             *)
(***************************************************************************)
\* Every answer is in and the page has the server's plan.
Durgun == surukle = <<>> /\ istek = {} /\ kopya = plan

\* efBas without a drag.
Gorulen(g) == IF g \in DOMAIN optBas THEN optBas[g] ELSE kopya.gorev[g].bas

GorulenDogru == \A g \in DOMAIN Gorunen(kopya, gizli).gorev : Gorulen(g) = plan.gorev[g].bas

\* Once every answer is in and the plan refetched, each block stands where the
\* server has it, whether drops were accepted, refused or half lost, unless one
\* of six things happened: a drop beyond the axis, with domains hidden, from a
\* plan that was not the server's, on top of another, without effect, or a move
\* of somebody else before it was settled.
SapmaSebepli == Durgun /\ neden = {} => GorulenDogru

=============================================================================
