------------------------------ MODULE GraphCanvas ------------------------------
(***************************************************************************)
(* The canvas of the link graph in the browser: a focus, its neighbours,   *)
(* and what the operator expands.  A crowded group is one balloon until it *)
(* is opened.  After every change the edges among all shown nodes are      *)
(* asked for anew.  Answers come in any order, or not at all.              *)
(*                                                                         *)
(* A balloon is named by its source and its link type.  Positions, labels  *)
(* and the selection are left out.                                         *)
(***************************************************************************)
EXTENDS LinkGraph, Functions

CONSTANTS
    GrupEsik,      \* GRUP_ESIK
    GrupLimit,     \* GRUP_LIMIT
    KenarTavani,   \* nodes one request for edges carries
    MaxIstek,      \* bound: requests for neighbours
    MaxDegisim     \* bound: changes of the ontology

VARIABLES
    arka,          \* "bellek" or "neo": the provider of this deployment
    odak,          \* the focus
    dugumler,      \* objects on the canvas
    genis,          \* those that were expanded
    balonlar,      \* balloons on the canvas: <<source, link type>> -> members
    balonKenar,    \* balloons that have an edge
    acilan,        \* acilanBalonlar
    kenarlar,      \* edges on the canvas
    komsuIstek,    \* requests for neighbours in flight: object -> how many
    kenarIstek,    \* requests for edges in flight: number -> nodes
    istek,         \* requests for neighbours so far
    kenarNo,       \* number of the newest request for edges
    degisim,       \* changes of the ontology so far
    agSebep          \* why the canvas may be incomplete, or hold strangers

tuval == <<dugumler, genis, balonlar, balonKenar, acilan, kenarlar>>
sayilar == <<istek, kenarNo, degisim>>
tuvalVars == <<grafVars, arka, odak, tuval, komsuIstek, kenarIstek, sayilar, agSebep>>

Komsular(n) == IF arka = "bellek" THEN NeighborsBellek(n, Indeks) ELSE NeighborsNeo(n)
Kenarlari(S) == IF arka = "bellek" THEN EdgesBellek(S, Indeks) ELSE EdgesNeo(S)

\* The first members of a group, in the order of the keys.
Uyeler(grup) == {n \in grup : Cardinality({m \in grup : m[2] < n[2]}) < GrupLimit}

-----------------------------------------------------------------------------
(* kenarlariTazele *)

\* What the request carries: at most KenarTavani of nodes and balloons, of which
\* the server drops the balloons.
Gonderilen(d, b) ==
    IF Cardinality(d) + Cardinality(b) <= KenarTavani THEN {d}
    ELSE {S \in SUBSET d : /\ Cardinality(S) <= KenarTavani
                           /\ Cardinality(S) + Cardinality(b) >= KenarTavani}

\* Over the nodes and balloons after the step.
KenarlariTazele ==
    IF Cardinality(dugumler') + Cardinality(DOMAIN balonlar') < 2
    THEN /\ kenarlar' = {}
         /\ UNCHANGED <<kenarNo, kenarIstek>>
    ELSE /\ kenarNo' = kenarNo + 1
         /\ \E S \in Gonderilen(dugumler', DOMAIN balonlar') :
               kenarIstek' = [i \in DOMAIN kenarIstek \cup {kenarNo'} |->
                                 IF i = kenarNo' THEN S ELSE kenarIstek[i]]
         /\ UNCHANGED kenarlar

Digerleri(i) == [j \in DOMAIN kenarIstek \ {i} |-> kenarIstek[j]]

\* The answer to request i is shown, whatever was shown before.
KenarGelir(i) ==
    /\ kenarlar' = {e \in Kenarlari(kenarIstek[i]) : e \subseteq dugumler}
    /\ kenarIstek' = Digerleri(i)
    /\ agSebep' = IF i = kenarNo
                THEN (agSebep \ {"dustu", "gecikti", "tavan"})
                     \cup (IF kenarIstek[i] = dugumler THEN {} ELSE {"tavan"})
                ELSE agSebep \cup (IF kenarNo \in DOMAIN kenarIstek THEN {} ELSE {"gecikti"})
    /\ IF arka = "bellek" THEN Kurulur ELSE UNCHANGED grafVars
    /\ UNCHANGED <<arka, odak, dugumler, genis, balonlar, balonKenar, acilan, komsuIstek, sayilar>>

KenarDuser(i) ==
    /\ kenarIstek' = Digerleri(i)
    /\ agSebep' = agSebep \cup (IF i = kenarNo THEN {"dustu"} ELSE {})
    /\ UNCHANGED <<grafVars, arka, odak, tuval, komsuIstek, sayilar>>

-----------------------------------------------------------------------------
(* ekle, split at its first await *)

KomsuSorulur(n) ==
    /\ istek < MaxIstek
    /\ komsuIstek' = [komsuIstek EXCEPT ![n] = @ + 1]
    /\ istek' = istek + 1

\* Mutant of YeniBalonlar: a balloon that was opened is born again.
YeniBalonlarHep(n, gruplar) == {<<n, l>> : l \in {l \in DOMAIN gruplar : Cardinality(gruplar[l]) > GrupEsik}}

\* Groups shown as a balloon.
YeniBalonlar(n, gruplar) ==
    {<<n, l>> : l \in {l \in DOMAIN gruplar : /\ Cardinality(gruplar[l]) > GrupEsik
                                              /\ <<n, l>> \notin acilan}}

KomsuGelir(n) ==
    LET gruplar == Komsular(n)
        yeni    == YeniBalonlar(n, gruplar)
        tek     == {l \in DOMAIN gruplar : <<n, l>> \notin yeni}
    IN  /\ komsuIstek' = [komsuIstek EXCEPT ![n] = @ - 1]
        /\ dugumler' = dugumler \cup {n} \cup UNION {Uyeler(gruplar[l]) : l \in tek}
        /\ genis' = genis \cup {n}
        /\ balonlar' = [b \in DOMAIN balonlar \cup yeni |->
                           IF b \in DOMAIN balonlar THEN balonlar[b] ELSE Uyeler(gruplar[b[2]])]
        /\ balonKenar' = balonKenar \cup yeni
        /\ KenarlariTazele
        /\ agSebep' = agSebep \cup (IF n \in dugumler \cup {odak} THEN {} ELSE {"yabanci"})
        /\ IF arka = "bellek" THEN Kurulur ELSE UNCHANGED grafVars
        /\ UNCHANGED <<arka, odak, acilan, istek, degisim>>

KomsuDuser(n) ==
    /\ komsuIstek' = [komsuIstek EXCEPT ![n] = @ - 1]
    /\ UNCHANGED <<grafVars, arka, odak, tuval, kenarIstek, sayilar, agSebep>>

-----------------------------------------------------------------------------
(* The operator *)

\* A node is clicked that was not expanded.
Tikla(n) ==
    /\ n \notin genis
    /\ KomsuSorulur(n)
    /\ UNCHANGED <<grafVars, arka, odak, tuval, kenarIstek, kenarNo, degisim, agSebep>>

\* balonAc
BalonAc(b) ==
    /\ acilan' = acilan \cup {b}
    /\ balonlar' = [c \in DOMAIN balonlar \ {b} |-> balonlar[c]]
    /\ balonKenar' = balonKenar \ {b}
    /\ dugumler' = dugumler \cup balonlar[b]
    /\ KenarlariTazele
    /\ UNCHANGED <<grafVars, arka, odak, genis, komsuIstek, istek, degisim, agSebep>>

\* Another focus; or the page draws anew, which makes a new focus object of the
\* same content.  Requests in flight go on.
OdakDegisir(n) ==
    /\ odak' = n
    /\ dugumler' = {} /\ genis' = {} /\ balonlar' = << >> /\ balonKenar' = {}
    /\ acilan' = {} /\ kenarlar' = {}
    /\ agSebep' = {}
    /\ IF n = GrafYok THEN UNCHANGED <<komsuIstek, istek>> ELSE KomsuSorulur(n)
    /\ UNCHANGED <<grafVars, arka, kenarIstek, kenarNo, degisim>>

\* An extension with links is activated, or taken back.
OntolojiDegisir ==
    /\ degisim < MaxDegisim /\ degisim' = degisim + 1
    /\ EtkinDegisir
    /\ agSebep' = agSebep \cup {"ontoloji"}
    /\ UNCHANGED <<arka, odak, tuval, komsuIstek, kenarIstek, istek, kenarNo>>

TuvalInit ==
    /\ GrafInit
    /\ arka \in {"bellek", "neo"}
    /\ odak = GrafYok
    /\ dugumler = {} /\ genis = {} /\ balonlar = << >> /\ balonKenar = {}
    /\ acilan = {} /\ kenarlar = {}
    /\ komsuIstek = [n \in Nesneler |-> 0] /\ kenarIstek = << >>
    /\ istek = 0 /\ kenarNo = 0 /\ degisim = 0
    /\ agSebep = {}

TuvalNext ==
    \/ \E n \in Nesneler \cup {GrafYok} : OdakDegisir(n)
    \/ \E n \in dugumler : Tikla(n)
    \/ \E b \in DOMAIN balonlar : BalonAc(b)
    \/ \E n \in {m \in Nesneler : komsuIstek[m] > 0} : KomsuGelir(n) \/ KomsuDuser(n)
    \/ \E i \in DOMAIN kenarIstek : KenarGelir(i) \/ KenarDuser(i)
    \/ OntolojiDegisir

TuvalSpec == TuvalInit /\ [][TuvalNext]_tuvalVars

-----------------------------------------------------------------------------
(* Properties *)

Dingin == (\A n \in Nesneler : komsuIstek[n] = 0) /\ kenarIstek = << >>

\* An edge has both ends on the canvas.  A balloon has its edge and its source,
\* and one that was opened does not come back.  Nobody is on the canvas whom no
\* expanded node leads to, and when nothing is in flight no edge among the shown
\* nodes is missing; unless a late answer, a failed one, the limit of a request
\* or another ontology came in between.
AgSebepli ==
    /\ \A e \in kenarlar : e \subseteq dugumler
    /\ balonKenar = DOMAIN balonlar
    /\ \A b \in DOMAIN balonlar : b[1] \in genis /\ b \notin acilan
    /\ agSebep \cap {"yabanci", "ontoloji"} = {} =>
          dugumler \ {odak} \subseteq UNION {UNION Range(Komsular(k)) : k \in genis}
    /\ Dingin /\ agSebep \subseteq {"yabanci"} => kenarlar = Kenarlari(dugumler)

\* With the links of the kernel, both providers give the same neighbours of
\* every object and the same edges among any objects: graph-load and the engine
\* together leave out no link and add none.  The tables do not change, so that
\* it is enough to ask before the first request.
IkiGrafAyni ==
    istek = 0 /\ etkin = Cekirdek /\ Indeks = Cekirdek =>
        /\ \A n \in Nesneler : NeighborsBellek(n, Indeks) = NeighborsNeo(n)
        /\ \A S \in SUBSET Nesneler : EdgesBellek(S, Indeks) = EdgesNeo(S)
===============================================================================
