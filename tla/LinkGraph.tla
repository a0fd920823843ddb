------------------------------- MODULE LinkGraph -------------------------------
(***************************************************************************)
(* GRAPH_PROVIDER: the neighbours of an object along the link types, and   *)
(* the edges inside a set of objects.  DummyGraphProvider builds an index  *)
(* over all links once and never again.  Neo4jGraphProvider reads the      *)
(* links between entities from the graph that graph-load filled from the   *)
(* kernel's link types, and asks the object set engine for the others.     *)
(*                                                                         *)
(* An object is <<type, primary key>>; the text of a null cell is "".      *)
(* Labels, and which link of two objects names their edge, are left out.   *)
(***************************************************************************)
EXTENDS Integers, FiniteSets, FiniteSetsExt

CONSTANTS
    GrafBag,    \* link types: name -> [kimden, kime, anahtar, hedefAnahtar]
    Cekirdek,   \* the link types of the kernel; the others come with an extension
    Varlik,     \* ENTITY: the object types kept in Neo4j
    GrafVeri,   \* contents of the tables: object -> row
    GrafYok     \* no index, no focus

\* A kernel link from a type to itself would be one between entities; the tables
\* and the link types are finite.
ASSUME GrafVarsayim ==
    /\ Cekirdek \subseteq DOMAIN GrafBag /\ IsFiniteSet(DOMAIN GrafBag)
    /\ \A l \in Cekirdek : GrafBag[l].kimden = GrafBag[l].kime => GrafBag[l].kimden \in Varlik
    /\ \A v \in GrafVeri : IsFiniteSet(DOMAIN v)

VARIABLES
    satirlar,   \* the contents
    etkin,      \* link types of the active ontology
    dizin       \* link types the index in memory was built over, or GrafYok

grafVars == <<satirlar, etkin, dizin>>

Nesneler == DOMAIN satirlar
Deger(n, kolon) == IF kolon \in DOMAIN satirlar[n] THEN satirlar[n][kolon] ELSE ""

\* a's key names b, along link type l.
Esler(l, a, b) ==
    LET bag == GrafBag[l] IN
    /\ a[1] = bag.kimden /\ b[1] = bag.kime
    /\ Deger(a, bag.anahtar) /= ""
    /\ Deger(a, bag.anahtar) = Deger(b, bag.hedefAnahtar)

Kendisi(l, a, b) == GrafBag[l].kimden = GrafBag[l].kime /\ a = b
VarlikBagi(l) == {GrafBag[l].kimden, GrafBag[l].kime} \subseteq Varlik
CikanBaglar(n) == {l \in etkin : GrafBag[l].kimden = n[1]}

\* Groups without a neighbour are left out.
Gruplu(baglar, Uc(_)) == [l \in {l \in baglar : Uc(l) /= {}} |-> Uc(l)]
Ciftler(S, Bagli(_, _)) ==
    {{p[1], p[2]} : p \in {p \in S \X S : p[1] /= p[2] /\ Bagli(p[1], p[2])}}

-----------------------------------------------------------------------------
(* DummyGraphProvider *)

\* build: the adjacency along the link types it knows.
Build(baglar, l, a, b) == l \in baglar /\ Esler(l, a, b) /\ ~Kendisi(l, a, b)

NeighborsBellek(n, baglar) ==
    Gruplu(CikanBaglar(n), LAMBDA l : {b \in Nesneler : Build(baglar, l, n, b)})

EdgesBellek(S, baglar) == Ciftler(S, LAMBDA a, b : \E l \in baglar : Build(baglar, l, a, b))

-----------------------------------------------------------------------------
(* Neo4jGraphProvider *)

\* graph-load
Yuklu(l, a, b) == l \in Cekirdek /\ VarlikBagi(l) /\ Esler(l, a, b) /\ ~Kendisi(l, a, b)

NeighborsNeo(n) ==
    Gruplu(CikanBaglar(n),
           LAMBDA l : IF VarlikBagi(l) THEN {b \in Nesneler : Yuklu(l, n, b)}
                      ELSE {b \in Nesneler : Esler(l, n, b)})

\* Mutant of EdgesNeo: the engine is asked only when no entity is among the nodes.
EdgesNeoSaf(S) ==
    Ciftler(S, LAMBDA a, b : \E l \in DOMAIN GrafBag : Yuklu(l, a, b))
    \cup (IF \E n \in S : n[1] \in Varlik THEN {}
          ELSE Ciftler(S, LAMBDA a, b : \E l \in etkin : ~VarlikBagi(l) /\ Esler(l, a, b)))

EdgesNeo(S) ==
    Ciftler(S, LAMBDA a, b : \E l \in DOMAIN GrafBag : Yuklu(l, a, b))
    \cup (IF \A n \in S : n[1] \in Varlik THEN {}
          ELSE Ciftler(S, LAMBDA a, b : \E l \in etkin : ~VarlikBagi(l) /\ Esler(l, a, b)))

-----------------------------------------------------------------------------
GrafInit == satirlar \in GrafVeri /\ etkin \in {Cekirdek, DOMAIN GrafBag} /\ dizin = GrafYok

\* An extension with links is activated, or taken back.
EtkinDegisir == etkin' \in {Cekirdek, DOMAIN GrafBag} \ {etkin} /\ UNCHANGED <<satirlar, dizin>>

\* build: the first request finds no index.
Indeks == IF dizin = GrafYok THEN etkin ELSE dizin
Kurulur == dizin' = Indeks /\ UNCHANGED <<satirlar, etkin>>
===============================================================================
