--------------------------- MODULE Tarayici_proofs ---------------------------
(***************************************************************************)
(* Proofs about the browser's components, for any users, documents,        *)
(* objects and bounds: the link graph and its canvas, the assistant's      *)
(* conversation, the document pages, the operation plan's page and the     *)
(* dashboard's page.                                                       *)
(***************************************************************************)
EXTENDS GraphCanvas, Assistant, DocumentPages, PlanPage, DashboardPage,
        FiniteSetTheorems, SequenceTheorems, WellFoundedInduction, TLAPS

-----------------------------------------------------------------------------
(***************************************************************************)
(* The least number of a set, and induction for properties given as sets.  *)
(***************************************************************************)
LEMMA EnKucuk ==
    ASSUME NEW T, T \subseteq Nat, T # {}
    PROVE  \E m \in T : \A n \in T : m <= n
<1> DEFINE F == {0 .. m : m \in T}
           R == StrictSubsetOrdering(Nat)
<1>1. IsWellFoundedOn(R, FiniteSubsetsOf(Nat))
  BY FS_StrictSubsetOrderingWellFounded
<1>2. \A m \in T : IsFiniteSet(0 .. m)
  BY FS_Interval
<1>3. F \subseteq FiniteSubsetsOf(Nat)
  BY <1>2 DEF FiniteSubsetsOf
<1>4. F # {}
  OBVIOUS
<1>5. \E x \in F : \A y \in F : ~ (<<y, x>> \in R)
  <2> HIDE DEF F, R
  <2> QED BY <1>1, <1>3, <1>4, WFMin
<1>6. PICK m \in T : \A n \in T : ~ (<<0 .. n, 0 .. m>> \in R)
  BY <1>5
<1>7. \A n \in T : m <= n
  <2> SUFFICES ASSUME NEW n \in T, n < m PROVE FALSE
    OBVIOUS
  <2>1. 0 .. n \subseteq 0 .. m /\ m \in 0 .. m /\ m \notin 0 .. n
    OBVIOUS
  <2>2. <<0 .. n, 0 .. m>> \in R
    BY <2>1 DEF StrictSubsetOrdering
  <2> QED BY <1>6, <2>2
<1>8. QED
  BY <1>7

\* Induction, for properties given as sets.
LEMMA Tumevarim ==
    ASSUME NEW P, 0 \in P, \A n \in Nat : n \in P => n + 1 \in P
    PROVE  Nat \subseteq P
<1> SUFFICES ASSUME Nat \ P # {} PROVE FALSE
  OBVIOUS
<1>1. PICK m \in Nat \ P : \A n \in Nat \ P : m <= n
  BY EnKucuk
<1>2. m # 0 /\ m - 1 \in Nat
  BY <1>1
<1>3. m - 1 \in P
  BY <1>1, <1>2
<1>4. QED
  BY <1>1, <1>2, <1>3

-----------------------------------------------------------------------------
(***************************************************************************)
(* LinkGraph and GraphCanvas.                                              *)
(***************************************************************************)
\* With the kernel's links a link between two objects is one both providers know.
LEMMA KomsulukAyni ==
    ASSUME etkin = Cekirdek, NEW n, NEW l \in CikanBaglar(n)
    PROVE  {b \in Nesneler : Build(Cekirdek, l, n, b)}
             = IF VarlikBagi(l) THEN {b \in Nesneler : Yuklu(l, n, b)}
               ELSE {b \in Nesneler : Esler(l, n, b)}
<1>1. l \in Cekirdek
  BY DEF CikanBaglar
<1>2. CASE VarlikBagi(l)
  BY <1>1, <1>2 DEF Build, Yuklu
<1>3. CASE ~VarlikBagi(l)
  <2>1. GrafBag[l].kimden # GrafBag[l].kime
    BY <1>1, <1>3, GrafVarsayim DEF VarlikBagi
  <2> QED BY <1>1, <1>3, <2>1 DEF Build, Kendisi
<1> QED BY <1>2, <1>3

\* With the kernel's links both providers draw the same edges among any nodes.
LEMMA KenarlarAyni ==
    ASSUME etkin = Cekirdek, NEW S
    PROVE  EdgesBellek(S, Cekirdek) = EdgesNeo(S)
<1> DEFINE P(p) == p \in S \X S /\ p[1] # p[2]
           B(a, b) == \E l \in Cekirdek : Build(Cekirdek, l, a, b)
           Y(a, b) == \E l \in DOMAIN GrafBag : Yuklu(l, a, b)
           M(a, b) == \E l \in etkin : ~VarlikBagi(l) /\ Esler(l, a, b)
<1>1. EdgesBellek(S, Cekirdek) = {{p[1], p[2]} : p \in {p \in S \X S : p[1] # p[2] /\ B(p[1], p[2])}}
  BY DEF EdgesBellek, Ciftler
<1>2. EdgesNeo(S) =
        {{p[1], p[2]} : p \in {p \in S \X S : p[1] # p[2] /\ Y(p[1], p[2])}}
        \cup (IF \A n \in S : n[1] \in Varlik THEN {}
              ELSE {{p[1], p[2]} : p \in {p \in S \X S : p[1] # p[2] /\ M(p[1], p[2])}})
  BY DEF EdgesNeo, Ciftler
<1>3. ASSUME NEW a \in S, NEW b \in S, a # b
      PROVE  /\ B(a, b) <=> Y(a, b) \/ M(a, b)
             /\ (\A n \in S : n[1] \in Varlik) => ~M(a, b)
  <2>1. ASSUME NEW l \in Cekirdek PROVE Build(Cekirdek, l, a, b) <=> Esler(l, a, b)
    BY <1>3 DEF Build, Kendisi
  <2>2. ASSUME NEW l PROVE Yuklu(l, a, b) <=> l \in Cekirdek /\ VarlikBagi(l) /\ Esler(l, a, b)
    BY <1>3 DEF Yuklu, Kendisi
  <2>3. ASSUME NEW l, Esler(l, a, b), a[1] \in Varlik, b[1] \in Varlik PROVE VarlikBagi(l)
    BY <2>3 DEF Esler, VarlikBagi
  <2>4. Cekirdek \subseteq DOMAIN GrafBag
    BY GrafVarsayim
  <2> QED BY <2>1, <2>2, <2>3, <2>4
<1> HIDE DEF B, Y, M
<1>4. CASE \A n \in S : n[1] \in Varlik
  BY <1>1, <1>2, <1>3, <1>4
<1>5. CASE ~ \A n \in S : n[1] \in Varlik
  BY <1>1, <1>2, <1>3, <1>5
<1> QED BY <1>4, <1>5

\* The graph built in memory and the one loaded into the graph database agree on
\* every neighbour and every edge, whatever the tables hold.
THEOREM BothGraphsAgree == TuvalSpec => []IkiGrafAyni
<1>1. IkiGrafAyni
  <2> SUFFICES ASSUME etkin = Cekirdek, Indeks = Cekirdek
               PROVE  /\ \A n \in Nesneler : NeighborsBellek(n, Cekirdek) = NeighborsNeo(n)
                      /\ \A S \in SUBSET Nesneler : EdgesBellek(S, Cekirdek) = EdgesNeo(S)
    BY DEF IkiGrafAyni
  <2>1. ASSUME NEW n \in Nesneler PROVE NeighborsBellek(n, Cekirdek) = NeighborsNeo(n)
    <3> DEFINE A(l) == {b \in Nesneler : Build(Cekirdek, l, n, b)}
               C(l) == IF VarlikBagi(l) THEN {b \in Nesneler : Yuklu(l, n, b)}
                       ELSE {b \in Nesneler : Esler(l, n, b)}
    <3>1. \A l \in CikanBaglar(n) : A(l) = C(l)
      BY KomsulukAyni
    <3>2. /\ NeighborsBellek(n, Cekirdek) = [l \in {l \in CikanBaglar(n) : A(l) # {}} |-> A(l)]
          /\ NeighborsNeo(n) = [l \in {l \in CikanBaglar(n) : C(l) # {}} |-> C(l)]
      BY DEF NeighborsBellek, NeighborsNeo, Gruplu
    <3> HIDE DEF A, C
    <3> QED BY <3>1, <3>2
  <2> QED BY <2>1, KenarlarAyni
<1> QED BY <1>1, PTL

-----------------------------------------------------------------------------
Ulasilan == UNION {UNION Range(Komsular(k)) : k \in genis}

\* The canvas holds objects of the tables, each of which an expanded one leads to,
\* also those in balloons; and once the newest request for edges is answered, the
\* edges shown are those among the nodes.
TuvalInv ==
    /\ satirlar \in GrafVeri
    /\ etkin \subseteq DOMAIN GrafBag
    /\ dugumler \subseteq Nesneler
    /\ genis \subseteq Nesneler
    /\ DOMAIN balonlar \subseteq Nesneler \X DOMAIN GrafBag
    /\ \A b \in DOMAIN balonlar : balonlar[b] \subseteq Nesneler
    /\ \A e \in kenarlar : e \subseteq dugumler
    /\ balonKenar = DOMAIN balonlar
    /\ \A b \in DOMAIN balonlar : b[1] \in genis /\ b \notin acilan
    /\ agSebep \cap {"yabanci", "ontoloji"} = {} =>
          /\ dugumler \ {odak} \subseteq Ulasilan
          /\ \A b \in DOMAIN balonlar : balonlar[b] \subseteq Ulasilan
    /\ kenarNo \notin DOMAIN kenarIstek /\ agSebep \subseteq {"yabanci"} => kenarlar = Kenarlari(dugumler)

\* What the providers answer: groups of objects of the tables, edges among those asked for.
LEMMA KomsuTip ==
    ASSUME TuvalInv, NEW n
    PROVE  /\ DOMAIN Komsular(n) \subseteq DOMAIN GrafBag
           /\ \A l \in DOMAIN Komsular(n) : Komsular(n)[l] \subseteq Nesneler
<1>1. CASE arka = "bellek"
  <2> DEFINE A(l) == {b \in Nesneler : Build(Indeks, l, n, b)}
  <2>1. Komsular(n) = [l \in {l \in CikanBaglar(n) : A(l) # {}} |-> A(l)]
    BY <1>1 DEF Komsular, NeighborsBellek, Gruplu
  <2>2. \A l : A(l) \subseteq Nesneler
    OBVIOUS
  <2> HIDE DEF A
  <2> QED BY <2>1, <2>2 DEF TuvalInv, CikanBaglar
<1>2. CASE arka # "bellek"
  <2> DEFINE A(l) == IF VarlikBagi(l) THEN {b \in Nesneler : Yuklu(l, n, b)}
                     ELSE {b \in Nesneler : Esler(l, n, b)}
  <2>1. Komsular(n) = [l \in {l \in CikanBaglar(n) : A(l) # {}} |-> A(l)]
    BY <1>2 DEF Komsular, NeighborsNeo, Gruplu
  <2>2. \A l : A(l) \subseteq Nesneler
    OBVIOUS
  <2> HIDE DEF A
  <2> QED BY <2>1, <2>2 DEF TuvalInv, CikanBaglar
<1> QED BY <1>1, <1>2

\* An edge is a pair of two different shown nodes.
LEMMA KenarTip ==
    ASSUME NEW S, NEW e \in Kenarlari(S)
    PROVE  \E x, y \in S : x # y /\ e = {x, y}
<1>1. CASE arka = "bellek"
  BY <1>1 DEF Kenarlari, EdgesBellek, Ciftler
<1>2. CASE arka # "bellek"
  <2> DEFINE Y(a, b) == \E l \in DOMAIN GrafBag : Yuklu(l, a, b)
             M(a, b) == \E l \in etkin : ~VarlikBagi(l) /\ Esler(l, a, b)
  <2>1. e \in {{p[1], p[2]} : p \in {p \in S \X S : p[1] # p[2] /\ Y(p[1], p[2])}}
        \/ e \in {{p[1], p[2]} : p \in {p \in S \X S : p[1] # p[2] /\ M(p[1], p[2])}}
    BY <1>2 DEF Kenarlari, EdgesNeo, Ciftler
  <2> HIDE DEF Y, M
  <2> QED BY <2>1
<1> QED BY <1>1, <1>2

\* Fewer than two nodes have no edge.
LEMMA TekDugum ==
    ASSUME NEW S, IsFiniteSet(S), NEW k \in Nat, Cardinality(S) + k < 2
    PROVE  Kenarlari(S) = {}
<1> SUFFICES ASSUME NEW x \in S, NEW y \in S, x # y PROVE FALSE
  BY KenarTip
<1>1. IsFiniteSet({x}) /\ Cardinality({x}) = 1
  BY FS_Singleton
<1>2. Cardinality({x} \cup {y}) = 2
  BY <1>1, FS_AddElement
<1>3. {x} \cup {y} \subseteq S
  OBVIOUS
<1>4. Cardinality({x} \cup {y}) <= Cardinality(S) /\ Cardinality(S) \in Nat
  BY <1>3, FS_Subset, FS_CardinalityType
<1> QED BY <1>2, <1>4

\* A request that only fills the index changes no answer.
LEMMA DizinSabit ==
    ASSUME UNCHANGED <<satirlar, etkin, arka>>, Indeks' = Indeks
    PROVE  /\ \A n : Komsular(n)' = Komsular(n)
           /\ \A S : Kenarlari(S)' = Kenarlari(S)
<1>1. \A n, b : \A l : Esler(l, n, b)' = Esler(l, n, b) /\ Yuklu(l, n, b)' = Yuklu(l, n, b)
  BY DEF Esler, Yuklu, Deger, Kendisi
<1>2. ASSUME NEW n PROVE Komsular(n)' = Komsular(n)
  BY DEF Komsular, NeighborsBellek, NeighborsNeo, Gruplu, CikanBaglar, Nesneler, Build, Esler, Yuklu, Deger
<1>3. ASSUME NEW S PROVE Kenarlari(S)' = Kenarlari(S)
  BY DEF Kenarlari, EdgesBellek, EdgesNeo, Ciftler, Nesneler, Build, Esler, Yuklu, Deger
<1> QED BY <1>2, <1>3

\* The index in use does not depend on whether it was built before.
LEMMA KurulurSabit == ASSUME Kurulur PROVE UNCHANGED <<satirlar, etkin>> /\ Indeks' = Indeks
BY DEF Kurulur, Indeks

\* The empty canvas.
LEMMA TuvalIlk == TuvalInit => TuvalInv
<1> SUFFICES ASSUME TuvalInit PROVE TuvalInv
  OBVIOUS
<1>1. etkin \subseteq DOMAIN GrafBag
  BY GrafVarsayim DEF TuvalInit, GrafInit
<1>2. Kenarlari({}) = {}
  BY KenarTip
<1>3. DOMAIN balonlar = {}
  BY DEF TuvalInit
<1> QED BY <1>1, <1>2, <1>3 DEF TuvalInit, GrafInit, TuvalInv

\* A refresh either clears the edges, rightly, or leaves a request in flight.
LEMMA Tazelenen ==
    ASSUME TuvalInv, KenarlariTazele,
           dugumler' \subseteq Nesneler, DOMAIN balonlar' \subseteq Nesneler \X DOMAIN GrafBag
    PROVE  \/ kenarlar' = {} /\ Kenarlari(dugumler') = {}
           \/ kenarlar' = kenarlar /\ kenarNo' \in DOMAIN kenarIstek'
<1>1. IsFiniteSet(Nesneler) /\ IsFiniteSet(DOMAIN GrafBag)
  BY GrafVarsayim DEF TuvalInv, Nesneler
<1>2. IsFiniteSet(dugumler') /\ IsFiniteSet(DOMAIN balonlar')
  BY <1>1, FS_Product, FS_Subset
<1>3. Cardinality(DOMAIN balonlar') \in Nat
  BY <1>2, FS_CardinalityType
<1>4. CASE Cardinality(dugumler') + Cardinality(DOMAIN balonlar') < 2
  BY <1>2, <1>3, <1>4, TekDugum DEF KenarlariTazele
<1>5. CASE ~(Cardinality(dugumler') + Cardinality(DOMAIN balonlar') < 2)
  BY <1>5 DEF KenarlariTazele
<1> QED BY <1>4, <1>5

\* A balloon holds members of its own group.
LEMMA UyeTip == ASSUME NEW grup PROVE Uyeler(grup) \subseteq grup
BY DEF Uyeler

\* An answer with neighbours: nodes, balloons and their edges are added.
LEMMA KomsuGelirInv ==
    ASSUME TuvalInv, NEW n \in Nesneler, KomsuGelir(n)
    PROVE  TuvalInv'
<1> DEFINE gruplar == Komsular(n)
           yeni == YeniBalonlar(n, gruplar)
           tek == {l \in DOMAIN gruplar : <<n, l>> \notin yeni}
           gelen == UNION {Uyeler(gruplar[l]) : l \in tek}
<1>1. /\ dugumler' = dugumler \cup {n} \cup gelen
      /\ genis' = genis \cup {n}
      /\ balonlar' = [b \in DOMAIN balonlar \cup yeni |->
                         IF b \in DOMAIN balonlar THEN balonlar[b] ELSE Uyeler(gruplar[b[2]])]
      /\ balonKenar' = balonKenar \cup yeni
      /\ KenarlariTazele
      /\ agSebep' = agSebep \cup (IF n \in dugumler \cup {odak} THEN {} ELSE {"yabanci"})
      /\ UNCHANGED <<arka, odak, acilan>>
  BY DEF KomsuGelir
<1>2. UNCHANGED <<satirlar, etkin, arka>> /\ Indeks' = Indeks
  BY KurulurSabit DEF KomsuGelir, grafVars, Indeks
<1>3. /\ \A m : Komsular(m)' = Komsular(m)
      /\ \A S : Kenarlari(S)' = Kenarlari(S)
      /\ Nesneler' = Nesneler
  BY <1>2, DizinSabit DEF Nesneler
<1>4. /\ DOMAIN gruplar \subseteq DOMAIN GrafBag
      /\ \A l \in DOMAIN gruplar : gruplar[l] \subseteq Nesneler
  BY KomsuTip
<1>5. \A l \in DOMAIN gruplar : Uyeler(gruplar[l]) \subseteq gruplar[l]
  BY UyeTip
<1>6. yeni \subseteq {<<n, l>> : l \in DOMAIN gruplar} /\ yeni \cap acilan = {}
  BY DEF YeniBalonlar
<1>7. \A l \in DOMAIN gruplar : gruplar[l] \subseteq UNION Range(Komsular(n))
  BY DEF Range
<1> HIDE DEF gruplar, yeni
<1>8. /\ DOMAIN balonlar' = DOMAIN balonlar \cup yeni
      /\ \A b \in DOMAIN balonlar : balonlar'[b] = balonlar[b]
      /\ \A b \in yeni \ DOMAIN balonlar : b[1] = n /\ b[2] \in DOMAIN gruplar /\ balonlar'[b] = Uyeler(gruplar[b[2]])
  BY <1>1, <1>6
<1>9. /\ satirlar' \in GrafVeri /\ etkin' \subseteq DOMAIN GrafBag
      /\ dugumler' \subseteq Nesneler /\ genis' \subseteq Nesneler
  BY <1>1, <1>2, <1>4, <1>5 DEF TuvalInv
<1>10. /\ DOMAIN balonlar' \subseteq Nesneler \X DOMAIN GrafBag
       /\ \A b \in DOMAIN balonlar' : balonlar'[b] \subseteq Nesneler
  BY <1>4, <1>5, <1>6, <1>8 DEF TuvalInv
<1>11. \/ kenarlar' = {} /\ Kenarlari(dugumler') = {}
       \/ kenarlar' = kenarlar /\ kenarNo' \in DOMAIN kenarIstek'
  BY <1>1, <1>9, <1>10, Tazelenen
<1>12. \A e \in kenarlar' : e \subseteq dugumler'
  BY <1>1, <1>11 DEF TuvalInv
<1>13. kenarNo' \notin DOMAIN kenarIstek' => kenarlar' = Kenarlari(dugumler)'
  <2>1. Kenarlari(dugumler)' = Kenarlari(dugumler')
    BY <1>2 DEF Kenarlari, EdgesBellek, EdgesNeo, Ciftler, Nesneler, Build, Esler, Yuklu, Deger
  <2> QED BY <1>11, <2>1
<1>14. balonKenar' = DOMAIN balonlar' /\ \A b \in DOMAIN balonlar' : b[1] \in genis' /\ b \notin acilan'
  BY <1>1, <1>6, <1>8 DEF TuvalInv
<1>15. ASSUME agSebep' \cap {"yabanci", "ontoloji"} = {}
       PROVE  /\ dugumler' \ {odak'} \subseteq Ulasilan'
              /\ \A b \in DOMAIN balonlar' : balonlar'[b] \subseteq Ulasilan'
  <2>1. n \in dugumler \cup {odak} /\ agSebep \cap {"yabanci", "ontoloji"} = {}
    BY <1>1, <1>15
  <2>2. Ulasilan' = Ulasilan \cup UNION Range(Komsular(n))
    BY <1>1, <1>3 DEF Ulasilan
  <2>3. dugumler \ {odak} \subseteq Ulasilan /\ \A b \in DOMAIN balonlar : balonlar[b] \subseteq Ulasilan
    BY <2>1 DEF TuvalInv
  <2>4. \A l \in DOMAIN gruplar : Uyeler(gruplar[l]) \subseteq Ulasilan'
    BY <1>5, <1>7, <2>2
  <2>5. gelen \subseteq Ulasilan'
    BY <2>4
  <2> HIDE DEF gelen
  <2>6. dugumler' \ {odak'} \subseteq Ulasilan'
    BY <1>1, <2>1, <2>2, <2>3, <2>5
  <2>7. ASSUME NEW b \in DOMAIN balonlar' PROVE balonlar'[b] \subseteq Ulasilan'
    <3>1. CASE b \in DOMAIN balonlar
      BY <1>8, <2>2, <2>3, <3>1
    <3>2. CASE b \in yeni \ DOMAIN balonlar
      BY <1>8, <2>4, <3>2
    <3> QED BY <1>8, <3>1, <3>2
  <2> QED BY <2>6, <2>7
<1> QED BY <1>3, <1>9, <1>10, <1>12, <1>13, <1>14, <1>15 DEF TuvalInv

\* A balloon opened: its members become nodes and it does not come back.
LEMMA BalonAcInv ==
    ASSUME TuvalInv, NEW b \in DOMAIN balonlar, BalonAc(b)
    PROVE  TuvalInv'
<1>1. /\ acilan' = acilan \cup {b}
      /\ DOMAIN balonlar' = DOMAIN balonlar \ {b}
      /\ \A c \in DOMAIN balonlar' : balonlar'[c] = balonlar[c]
      /\ balonKenar' = balonKenar \ {b}
      /\ dugumler' = dugumler \cup balonlar[b]
      /\ KenarlariTazele
      /\ UNCHANGED <<satirlar, etkin, dizin, arka, odak, genis, agSebep>>
  BY DEF BalonAc, grafVars
<1>2. Indeks' = Indeks /\ Nesneler' = Nesneler
  BY <1>1 DEF Indeks, Nesneler
<1>3. /\ \A m : Komsular(m)' = Komsular(m)
      /\ Kenarlari(dugumler)' = Kenarlari(dugumler')
  BY <1>1, <1>2, DizinSabit DEF Kenarlari, EdgesBellek, EdgesNeo, Ciftler, Nesneler, Build, Esler, Yuklu, Deger
<1>4. Ulasilan' = Ulasilan
  BY <1>1, <1>3 DEF Ulasilan
<1>5. \/ kenarlar' = {} /\ Kenarlari(dugumler') = {}
      \/ kenarlar' = kenarlar /\ kenarNo' \in DOMAIN kenarIstek'
  BY <1>1, Tazelenen DEF TuvalInv
<1>6. \A e \in kenarlar' : e \subseteq dugumler'
  BY <1>1, <1>5 DEF TuvalInv
<1>7. agSebep' \cap {"yabanci", "ontoloji"} = {} =>
          /\ dugumler' \ {odak'} \subseteq Ulasilan'
          /\ \A c \in DOMAIN balonlar' : balonlar'[c] \subseteq Ulasilan'
  BY <1>1, <1>4 DEF TuvalInv
<1> QED BY <1>1, <1>2, <1>3, <1>5, <1>6, <1>7 DEF TuvalInv

\* An answer with edges, the latest one or a late one.
LEMMA KenarGelirInv ==
    ASSUME TuvalInv, NEW i \in DOMAIN kenarIstek, KenarGelir(i)
    PROVE  TuvalInv'
<1>1. /\ kenarlar' = {e \in Kenarlari(kenarIstek[i]) : e \subseteq dugumler}
      /\ DOMAIN kenarIstek' = DOMAIN kenarIstek \ {i}
      /\ UNCHANGED <<arka, odak, dugumler, genis, balonlar, balonKenar, acilan, kenarNo>>
      /\ agSebep' = IF i = kenarNo
                    THEN (agSebep \ {"dustu", "gecikti", "tavan"})
                         \cup (IF kenarIstek[i] = dugumler THEN {} ELSE {"tavan"})
                    ELSE agSebep \cup (IF kenarNo \in DOMAIN kenarIstek THEN {} ELSE {"gecikti"})
  BY DEF KenarGelir, Digerleri, sayilar
<1>2. UNCHANGED <<satirlar, etkin, arka>> /\ Indeks' = Indeks /\ Nesneler' = Nesneler
  BY KurulurSabit DEF KenarGelir, grafVars, Indeks, Nesneler
<1>3. /\ \A m : Komsular(m)' = Komsular(m)
      /\ Kenarlari(dugumler)' = Kenarlari(dugumler)
  BY <1>1, <1>2, DizinSabit DEF Kenarlari, EdgesBellek, EdgesNeo, Ciftler, Nesneler, Build, Esler, Yuklu, Deger
<1>4. Ulasilan' = Ulasilan
  BY <1>1, <1>3 DEF Ulasilan
<1>5. ASSUME kenarNo' \notin DOMAIN kenarIstek', agSebep' \subseteq {"yabanci"}
      PROVE  kenarlar' = Kenarlari(dugumler)'
  <2>1. i = kenarNo
    BY <1>1, <1>5
  <2>2. kenarIstek[i] = dugumler
    BY <1>1, <1>5, <2>1
  <2>3. \A e \in Kenarlari(dugumler) : e \subseteq dugumler
    BY KenarTip
  <2> QED BY <1>1, <1>3, <2>2, <2>3
<1>6. agSebep' \cap {"yabanci", "ontoloji"} = {} =>
          /\ dugumler' \ {odak'} \subseteq Ulasilan'
          /\ \A c \in DOMAIN balonlar' : balonlar'[c] \subseteq Ulasilan'
  BY <1>1, <1>4 DEF TuvalInv
<1> QED BY <1>1, <1>2, <1>5, <1>6 DEF TuvalInv

\* Every step of the canvas.
LEMMA TuvalAdim == TuvalInv /\ [TuvalNext]_tuvalVars => TuvalInv'
<1> SUFFICES ASSUME TuvalInv, [TuvalNext]_tuvalVars PROVE TuvalInv'
  OBVIOUS
<1>s. ASSUME UNCHANGED <<grafVars, arka, odak, tuval, kenarNo>>,
             DOMAIN kenarIstek' = DOMAIN kenarIstek, agSebep' = agSebep
      PROVE  TuvalInv'
  <2>1. Nesneler' = Nesneler /\ Kenarlari(dugumler)' = Kenarlari(dugumler) /\ Ulasilan' = Ulasilan
    BY <1>s DEF Kenarlari, Ulasilan, Komsular, Nesneler, Indeks, EdgesBellek, EdgesNeo, NeighborsBellek,
       NeighborsNeo, Gruplu, CikanBaglar, Ciftler, Build, Esler, Yuklu, Deger, grafVars, tuval
  <2> QED BY <1>s, <2>1 DEF TuvalInv, grafVars, tuval
<1>1. ASSUME NEW n \in Nesneler \cup {GrafYok}, OdakDegisir(n) PROVE TuvalInv'
  <2>1. Kenarlari(dugumler)' = {}
    <3>1. Kenarlari({})' = Kenarlari({})
      BY <1>1 DEF OdakDegisir, Kenarlari, Indeks, EdgesBellek, EdgesNeo, Ciftler, Build, Esler, Yuklu, Deger,
         grafVars, Nesneler
    <3> QED BY <1>1, <3>1, KenarTip DEF OdakDegisir
  <2> QED BY <1>1, <2>1 DEF OdakDegisir, TuvalInv, grafVars, Nesneler
<1>2. ASSUME NEW n \in dugumler, Tikla(n) PROVE TuvalInv'
  BY <1>2, <1>s DEF Tikla
<1>3. ASSUME NEW b \in DOMAIN balonlar, BalonAc(b) PROVE TuvalInv'
  BY <1>3, BalonAcInv
<1>4. ASSUME NEW n \in Nesneler, KomsuGelir(n) PROVE TuvalInv'
  BY <1>4, KomsuGelirInv
<1>5. ASSUME NEW n \in Nesneler, KomsuDuser(n) PROVE TuvalInv'
  BY <1>5, <1>s DEF KomsuDuser, sayilar
<1>6. ASSUME NEW i \in DOMAIN kenarIstek, KenarGelir(i) PROVE TuvalInv'
  BY <1>6, KenarGelirInv
<1>7. ASSUME NEW i \in DOMAIN kenarIstek, KenarDuser(i) PROVE TuvalInv'
  <2>1. Nesneler' = Nesneler /\ Kenarlari(dugumler)' = Kenarlari(dugumler) /\ Ulasilan' = Ulasilan
    BY <1>7 DEF KenarDuser, Kenarlari, Ulasilan, Komsular, Nesneler, Indeks, EdgesBellek, EdgesNeo, NeighborsBellek,
       NeighborsNeo, Gruplu, CikanBaglar, Ciftler, Build, Esler, Yuklu, Deger, grafVars, tuval
  <2>2. DOMAIN kenarIstek' = DOMAIN kenarIstek \ {i}
    BY <1>7 DEF KenarDuser, Digerleri
  <2> QED BY <1>7, <2>1, <2>2 DEF KenarDuser, TuvalInv, grafVars, tuval, sayilar
<1>8. CASE OntolojiDegisir
  <2>1. Nesneler' = Nesneler /\ etkin' \subseteq DOMAIN GrafBag
    BY <1>8, GrafVarsayim DEF OntolojiDegisir, EtkinDegisir, Nesneler
  <2> QED BY <1>8, <2>1 DEF OntolojiDegisir, EtkinDegisir, TuvalInv, tuval
<1>9. CASE UNCHANGED tuvalVars
  BY <1>9, <1>s DEF tuvalVars, sayilar
<1> QED BY <1>1, <1>2, <1>3, <1>4, <1>5, <1>6, <1>7, <1>8, <1>9 DEF TuvalNext

\* The canvas shows what the graph holds and nothing else, unless one of the
\* listed causes came in between: any objects, links, requests and order of answers.
THEOREM CanvasOnlyByCause == TuvalSpec => []AgSebepli
<1>1. TuvalInv => AgSebepli
  <2> SUFFICES ASSUME TuvalInv PROVE AgSebepli
    OBVIOUS
  <2>1. Dingin => kenarNo \notin DOMAIN kenarIstek
    BY DEF Dingin
  <2> QED BY <2>1 DEF TuvalInv, AgSebepli, Ulasilan
<1> QED BY <1>1, TuvalIlk, TuvalAdim, PTL DEF TuvalSpec

-----------------------------------------------------------------------------
(***************************************************************************)
(* Assistant.                                                              *)
(***************************************************************************)
Eylem == [tur : SaatliTur \cup RastgeleTur, kimlik : Nat, no : Nat]
TurnTipi == [rol : {"user", "assistant"}, soru : Nat, uygun : BOOLEAN, error : BOOLEAN, eylem : SUBSET Eylem]
SohbetTipi == [soru : Nat, history : Seq(TurnTipi), turn : Nat, cagri : Nat, eylem : SUBSET Eylem, kopuk : BOOLEAN]

\* What the filter holds after each turn.
Suzulen(s, f) ==
    /\ f \in [0 .. Len(s) -> Seq(TurnTipi)]
    /\ f[0] = << >>
    /\ \A i \in 1 .. Len(s) : f[i] = IF s[i].error THEN f[i - 1] ELSE Append(f[i - 1], s[i])

\* Filtering a conversation one turn at a time is a function of its prefixes.
LEMMA SuzulenVar ==
    ASSUME NEW s \in Seq(TurnTipi)
    PROVE  \E f : Suzulen(s, f)
<1> DEFINE Q(n) == \E f \in [0 .. n -> Seq(TurnTipi)] :
                      /\ f[0] = << >>
                      /\ \A i \in 1 .. n : f[i] = IF s[i].error THEN f[i - 1] ELSE Append(f[i - 1], s[i])
           P == {n \in Nat : n <= Len(s) => Q(n)}
<1>1. 0 \in P
  <2>1. PICK f : f = [i \in 0 .. 0 |-> << >>]
    OBVIOUS
  <2>2. f \in [0 .. 0 -> Seq(TurnTipi)] /\ f[0] = << >>
    BY <2>1
  <2>3. Q(0)
    BY <2>2
  <2> HIDE DEF Q
  <2> QED BY <2>3
<1>2. ASSUME NEW n \in Nat, n \in P PROVE n + 1 \in P
  <2> SUFFICES ASSUME n + 1 <= Len(s) PROVE Q(n + 1)
    <3> HIDE DEF Q
    <3> QED OBVIOUS
  <2>0. Q(n)
    <3> HIDE DEF Q
    <3> QED BY <1>2
  <2>1. PICK f \in [0 .. n -> Seq(TurnTipi)] :
           /\ f[0] = << >>
           /\ \A i \in 1 .. n : f[i] = IF s[i].error THEN f[i - 1] ELSE Append(f[i - 1], s[i])
    BY <2>0
  <2>2. s[n + 1] \in TurnTipi /\ f[n] \in Seq(TurnTipi)
    BY <2>1
  <2> DEFINE y == IF s[n + 1].error THEN f[n] ELSE Append(f[n], s[n + 1])
             g == [i \in 0 .. n + 1 |-> IF i = n + 1 THEN y ELSE f[i]]
  <2>3. y \in Seq(TurnTipi)
    BY <2>2, AppendProperties
  <2>4. g \in [0 .. n + 1 -> Seq(TurnTipi)] /\ g[0] = << >>
    <3> HIDE DEF y
    <3> QED BY <2>1, <2>3
  <2>5. ASSUME NEW i \in 1 .. n + 1
        PROVE  g[i] = IF s[i].error THEN g[i - 1] ELSE Append(g[i - 1], s[i])
    <3>1. CASE i = n + 1
      <4>1. g[n + 1] = y /\ g[n] = f[n] /\ i - 1 = n
        BY <3>1
      <4> HIDE DEF g
      <4> QED BY <3>1, <4>1
    <3>2. CASE i # n + 1
      <4>1. i \in 1 .. n /\ g[i] = f[i] /\ g[i - 1] = f[i - 1]
        BY <3>2
      <4> HIDE DEF g
      <4> QED BY <2>1, <4>1
    <3> QED BY <3>1, <3>2
  <2> HIDE DEF g
  <2> QED BY <2>4, <2>5
<1>3. Len(s) \in P
  <2> HIDE DEF P
  <2>1. Nat \subseteq P
    BY <1>1, <1>2, Tumevarim
  <2> QED BY <2>1
<1>4. PICK f \in [0 .. Len(s) -> Seq(TurnTipi)] :
         /\ f[0] = << >>
         /\ \A i \in 1 .. Len(s) : f[i] = IF s[i].error THEN f[i - 1] ELSE Append(f[i - 1], s[i])
  BY <1>3
<1> QED BY <1>4 DEF Suzulen

\* The history filter is the last value of that function.
LEMMA HatasizSon ==
    ASSUME NEW s \in Seq(TurnTipi), NEW f, Suzulen(s, f)
    PROVE  Hatasiz(s) = f[Len(s)]
<1> DEFINE F(h) == [i \in 0 .. Len(s) |->
                      IF i = 0 THEN << >> ELSE IF s[i].error THEN h[i - 1] ELSE Append(h[i - 1], s[i])]
           g == CHOOSE h : h = F(h)
<1>1. Hatasiz(s) = g[Len(s)]
  BY DEF Hatasiz
<1>2. f = F(f)
  <2>1. ASSUME NEW i \in 0 .. Len(s) PROVE f[i] = F(f)[i]
    <3>1. CASE i = 0
      BY <3>1 DEF Suzulen
    <3>2. CASE i # 0
      <4>1. i \in 1 .. Len(s)
        BY <3>2
      <4>2. F(f)[i] = IF s[i].error THEN f[i - 1] ELSE Append(f[i - 1], s[i])
        BY <3>2
      <4> HIDE DEF F
      <4> QED BY <4>1, <4>2 DEF Suzulen
    <3> QED BY <3>1, <3>2
  <2>2. f = [i \in 0 .. Len(s) |-> f[i]]
    BY DEF Suzulen
  <2> QED BY <2>1, <2>2
<1>3. g = F(g)
  <2> HIDE DEF F
  <2> QED BY <1>2
<1> HIDE DEF g
<1> DEFINE P == {n \in Nat : n <= Len(s) => g[n] = f[n]}
<1>4. 0 \in P
  BY <1>3 DEF Suzulen
<1>5. ASSUME NEW n \in Nat, n \in P PROVE n + 1 \in P
  <2> SUFFICES ASSUME n + 1 <= Len(s) PROVE g[n + 1] = f[n + 1]
    OBVIOUS
  <2>1. g[n] = f[n] /\ n + 1 \in 1 .. Len(s) /\ n + 1 # 0 /\ n + 1 - 1 = n
    BY <1>5
  <2>2. g[n + 1] = IF s[n + 1].error THEN g[n] ELSE Append(g[n], s[n + 1])
    <3>1. F(g)[n + 1] = IF s[n + 1].error THEN g[n + 1 - 1] ELSE Append(g[n + 1 - 1], s[n + 1])
      BY <2>1
    <3> HIDE DEF F
    <3> QED BY <1>3, <2>1, <3>1
  <2>3. f[n + 1] = IF s[n + 1].error THEN f[n] ELSE Append(f[n], s[n + 1])
    <3>1. f[n + 1] = IF s[n + 1].error THEN f[n + 1 - 1] ELSE Append(f[n + 1 - 1], s[n + 1])
      BY <2>1 DEF Suzulen
    <3> QED BY <2>1, <3>1
  <2> QED BY <2>1, <2>2, <2>3
<1>6. Len(s) \in P
  <2> HIDE DEF P
  <2>1. Nat \subseteq P
    BY <1>4, <1>5, Tumevarim
  <2> QED BY <2>1
<1> QED BY <1>1, <1>6

\* The filtered history is a sequence of turns.
LEMMA HatasizTip ==
    ASSUME NEW s \in Seq(TurnTipi)
    PROVE  Hatasiz(s) \in Seq(TurnTipi) /\ (s = << >> => Hatasiz(s) = << >>)
<1>1. PICK f : Suzulen(s, f)
  BY SuzulenVar
<1>2. Hatasiz(s) = f[Len(s)]
  BY <1>1, HatasizSon
<1>3. Len(s) \in 0 .. Len(s) /\ (s = << >> => Len(s) = 0)
  OBVIOUS
<1> QED BY <1>1, <1>2, <1>3 DEF Suzulen

\* One more turn.
LEMMA HatasizEk ==
    ASSUME NEW s \in Seq(TurnTipi), NEW e \in TurnTipi
    PROVE  Hatasiz(Append(s, e)) = IF e.error THEN Hatasiz(s) ELSE Append(Hatasiz(s), e)
<1> DEFINE w == Append(s, e)
<1>1. w \in Seq(TurnTipi) /\ Len(w) = Len(s) + 1 /\ w[Len(s) + 1] = e
      /\ (\A i \in 1 .. Len(s) : w[i] = s[i]) /\ Len(s) \in Nat
  BY AppendProperties
<1>2. PICK f : Suzulen(s, f)
  BY SuzulenVar
<1> DEFINE y == IF e.error THEN f[Len(s)] ELSE Append(f[Len(s)], e)
           g == [i \in 0 .. Len(s) + 1 |-> IF i = Len(s) + 1 THEN y ELSE f[i]]
<1>3. f[Len(s)] \in Seq(TurnTipi)
  BY <1>1, <1>2 DEF Suzulen
<1>y. y \in Seq(TurnTipi)
  BY <1>3, AppendProperties
<1> HIDE DEF w
<1>4. Suzulen(w, g)
  <2>1. g \in [0 .. Len(w) -> Seq(TurnTipi)] /\ g[0] = << >>
    <3> HIDE DEF y
    <3> QED BY <1>1, <1>2, <1>y DEF Suzulen
  <2>2. ASSUME NEW i \in 1 .. Len(w)
        PROVE  g[i] = IF w[i].error THEN g[i - 1] ELSE Append(g[i - 1], w[i])
    <3>1. CASE i = Len(s) + 1
      <4>1. g[Len(s) + 1] = y /\ g[Len(s)] = f[Len(s)] /\ i - 1 = Len(s)
        <5> HIDE DEF y
        <5> QED BY <1>1, <3>1
      <4> HIDE DEF g
      <4> QED BY <1>1, <3>1, <4>1
    <3>2. CASE i # Len(s) + 1
      <4>1. i \in 1 .. Len(s) /\ g[i] = f[i] /\ g[i - 1] = f[i - 1] /\ w[i] = s[i]
        <5> HIDE DEF y
        <5> QED BY <1>1, <3>2
      <4> HIDE DEF g
      <4> QED BY <1>2, <4>1 DEF Suzulen
    <3> QED BY <3>1, <3>2
  <2> HIDE DEF g
  <2> QED BY <2>1, <2>2 DEF Suzulen
<1>5. Hatasiz(w) = g[Len(s) + 1] /\ Hatasiz(s) = f[Len(s)]
  <2> HIDE DEF g
  <2> QED BY <1>1, <1>2, <1>4, HatasizSon
<1>6. g[Len(s) + 1] = y
  <2> HIDE DEF y
  <2> QED BY <1>1
<1> HIDE DEF g
<1> QED BY <1>5, <1>6 DEF w

-----------------------------------------------------------------------------
Bagli(h) ==
    \A i \in DOMAIN h : h[i].rol = "assistant" =>
        i > 1 /\ h[i - 1].rol = "user" /\ h[i - 1].soru = h[i].soru

SohbetTypeOK ==
    /\ turns \in Seq(TurnTipi) /\ busy \in BOOLEAN /\ soruNo \in Nat /\ an \in Nat
    /\ sohbetler \subseteq SohbetTipi
    /\ belgeler \in Seq(Eylem) /\ olusan \subseteq Eylem

\* One question at a time is awaited, and while none was cleared away it is the
\* last turn that is no error.
BekleyenSon ==
    /\ \A s \in sohbetler : ~s.kopuk => busy
    /\ \A s, t \in sohbetler : ~s.kopuk /\ ~t.kopuk => s = t
    /\ "ucarken" \notin kusur =>
          LET h == Hatasiz(turns) IN
          /\ Bagli(h)
          /\ \A s \in sohbetler :
                /\ Bagli(s.history)
                /\ ~s.kopuk => h # << >> /\ h[Len(h)].rol = "user" /\ h[Len(h)].soru = s.soru

\* Every offer is of a document stored; what was stored is kept by the question
\* worked on, which was accepted, or offered.
TekliflerSaklanan ==
    /\ \A s \in sohbetler :
          /\ s.eylem # {} \/ s.cagri > 0 => Kabul(s)
          /\ s.kopuk => "koptu" \in kusur
          /\ \A o \in s.eylem : o.no \in DOMAIN belgeler /\ belgeler[o.no] = o
    /\ \A i \in DOMAIN turns : \A o \in turns[i].eylem : o.no \in DOMAIN belgeler /\ belgeler[o.no] = o
    /\ kusur \cap {"yarim", "koptu"} = {} =>
          \A o \in olusan : \/ \E s \in sohbetler : o \in s.eylem
                            \/ \E i \in DOMAIN turns : o \in turns[i].eylem
    /\ "ayni_an" \notin kusur =>
          \A i, j \in DOMAIN belgeler : AyniYer(belgeler[i], belgeler[j]) => i = j

SohbetInv == SohbetTypeOK /\ BekleyenSon /\ TekliflerSaklanan

\* The empty conversation.
LEMMA SohbetIlk == SohbetInit => SohbetInv
<1> SUFFICES ASSUME SohbetInit PROVE SohbetInv
  OBVIOUS
<1>1. SohbetTypeOK
  <2>1. << >> \in Seq(TurnTipi) /\ << >> \in Seq(Eylem)
    OBVIOUS
  <2> QED BY <2>1 DEF SohbetInit, SohbetTypeOK
<1>2. Hatasiz(turns) = << >>
  BY <1>1, HatasizTip DEF SohbetInit, SohbetTypeOK
<1> QED BY <1>1, <1>2 DEF SohbetInit, SohbetInv, BekleyenSon, Bagli, TekliflerSaklanan

\* The question that is answered is the last turn; another turn may follow it.
LEMMA BagliEk ==
    ASSUME NEW h \in Seq(TurnTipi), NEW t \in TurnTipi, Bagli(h),
           \/ t.rol = "user"
           \/ h # << >> /\ h[Len(h)].rol = "user" /\ h[Len(h)].soru = t.soru
    PROVE  Bagli(Append(h, t))
<1> DEFINE w == Append(h, t)
<1>1. /\ Len(w) = Len(h) + 1 /\ w[Len(h) + 1] = t /\ DOMAIN w = 1 .. Len(h) + 1
      /\ \A i \in 1 .. Len(h) : w[i] = h[i]
      /\ Len(h) \in Nat /\ DOMAIN h = 1 .. Len(h) /\ (h # << >> => Len(h) > 0)
  BY AppendProperties
<1> HIDE DEF w
<1>2. ASSUME NEW i \in DOMAIN w, w[i].rol = "assistant"
      PROVE  i > 1 /\ w[i - 1].rol = "user" /\ w[i - 1].soru = w[i].soru
  <2>1. CASE i = Len(h) + 1
    <3>1. t.rol # "user"
      BY <1>1, <1>2, <2>1
    <3>2. Len(h) \in 1 .. Len(h) /\ i - 1 = Len(h)
      BY <1>1, <2>1, <3>1
    <3> QED BY <1>1, <2>1, <3>1, <3>2
  <2>2. CASE i # Len(h) + 1
    <3>1. i \in 1 .. Len(h) /\ w[i] = h[i]
      BY <1>1, <2>2
    <3>2. i > 1 /\ h[i - 1].rol = "user" /\ h[i - 1].soru = h[i].soru
      BY <1>1, <1>2, <3>1 DEF Bagli
    <3>3. i - 1 \in 1 .. Len(h)
      BY <1>1, <3>1, <3>2
    <3> QED BY <1>1, <3>1, <3>2, <3>3
  <2> QED BY <2>1, <2>2
<1> QED BY <1>2 DEF Bagli, w

\* A turn is shown, or nobody waits for it any more.
LEMMA GosterilirSon ==
    ASSUME SohbetInv, NEW s \in sohbetler, NEW t \in TurnTipi, t.soru = s.soru, Gosterilir(s, t),
           sohbetler' \subseteq (sohbetler \ {s}) \cup {[s EXCEPT !.kopuk = TRUE]},
           "ucarken" \in kusur => "ucarken" \in kusur'
    PROVE  turns' \in Seq(TurnTipi) /\ busy' \in BOOLEAN /\ BekleyenSon'
<1>1. turns \in Seq(TurnTipi) /\ busy \in BOOLEAN /\ sohbetler \subseteq SohbetTipi /\ s \in SohbetTipi
  BY DEF SohbetInv, SohbetTypeOK
<1>2. /\ \A u \in sohbetler : ~u.kopuk => busy
      /\ \A u, v \in sohbetler : ~u.kopuk /\ ~v.kopuk => u = v
  BY DEF SohbetInv, BekleyenSon
<1>3. [s EXCEPT !.kopuk = TRUE].kopuk /\ [s EXCEPT !.kopuk = TRUE].history = s.history
  BY <1>1 DEF SohbetTipi
<1>4. \A u \in sohbetler' : u.kopuk \/ u \in sohbetler \ {s}
  BY <1>3
<1>5. \A u \in sohbetler' : \E v \in sohbetler : u.history = v.history
  BY <1>3
<1>6. turns' \in Seq(TurnTipi) /\ busy' \in BOOLEAN
  BY <1>1, AppendProperties DEF Gosterilir
<1>7. CASE s.kopuk
  <2>1. turns' = turns /\ busy' = busy
    BY <1>7 DEF Gosterilir
  <2> QED BY <1>2, <1>4, <1>5, <1>6, <2>1 DEF SohbetInv, BekleyenSon
<1>8. CASE ~s.kopuk
  <2>1. turns' = Append(turns, t) /\ busy' = FALSE
    BY <1>8 DEF Gosterilir
  <2>2. \A u \in sohbetler' : u.kopuk
    BY <1>2, <1>4, <1>8
  <2>3. ASSUME "ucarken" \notin kusur'
        PROVE  Bagli(Hatasiz(turns)') /\ \A u \in sohbetler' : Bagli(u.history)
    <3>1. /\ Bagli(Hatasiz(turns))
          /\ \A u \in sohbetler : Bagli(u.history)
          /\ Hatasiz(turns) # << >> /\ Hatasiz(turns)[Len(Hatasiz(turns))].rol = "user"
          /\ Hatasiz(turns)[Len(Hatasiz(turns))].soru = s.soru
      BY <1>8, <2>3 DEF SohbetInv, BekleyenSon
    <3>2. Hatasiz(turns)' = IF t.error THEN Hatasiz(turns) ELSE Append(Hatasiz(turns), t)
      <4>1. Hatasiz(turns)' = Hatasiz(turns')
        BY DEF Hatasiz
      <4> QED BY <1>1, <2>1, <4>1, HatasizEk
    <3>3. Hatasiz(turns) \in Seq(TurnTipi)
      BY <1>1, HatasizTip
    <3>4. Bagli(Append(Hatasiz(turns), t))
      BY <3>1, <3>3, BagliEk
    <3> QED BY <1>5, <3>1, <3>2, <3>4
  <2> QED BY <1>6, <2>1, <2>2, <2>3 DEF BekleyenSon
<1> QED BY <1>7, <1>8

\* A conversation turn that ends, shown whole, broken off or with an error.
LEMMA BiterInv ==
    ASSUME SohbetInv, NEW s \in sohbetler, NEW uygun \in BOOLEAN, NEW error \in BOOLEAN, NEW eylem,
           eylem = {} \/ eylem = s.eylem,
           Gosterilir(s, Turn("assistant", s.soru, uygun, error, eylem)),
           sohbetler' = sohbetler \ {s}
             \/ (sohbetler' = (sohbetler \ {s}) \cup {[s EXCEPT !.kopuk = TRUE]} /\ "koptu" \in kusur'),
           UNCHANGED <<soruNo, belgeler, an, olusan>>,
           kusur \subseteq kusur',
           kusur' \cap {"yarim", "koptu"} = {} => eylem = s.eylem
    PROVE  SohbetInv'
<1> DEFINE t == Turn("assistant", s.soru, uygun, error, eylem)
<1>1. SohbetTypeOK /\ s \in SohbetTipi
  BY DEF SohbetInv, SohbetTypeOK
<1>2. t \in TurnTipi /\ t.soru = s.soru /\ t.eylem = eylem
  BY <1>1 DEF Turn, TurnTipi, SohbetTipi
<1> HIDE DEF t
<1>3. turns' \in Seq(TurnTipi) /\ busy' \in BOOLEAN /\ BekleyenSon'
  BY <1>2, GosterilirSon DEF t
<1>4. [s EXCEPT !.kopuk = TRUE] \in SohbetTipi
  BY <1>1 DEF SohbetTipi
<1>5. SohbetTypeOK'
  BY <1>1, <1>3, <1>4 DEF SohbetTypeOK
<1>6. /\ DOMAIN turns \subseteq DOMAIN turns' /\ \A i \in DOMAIN turns : turns'[i] = turns[i]
      /\ \A i \in DOMAIN turns' \ DOMAIN turns : turns'[i].eylem = eylem
      /\ ~s.kopuk => \E i \in DOMAIN turns' : turns'[i].eylem = eylem
  <2>1. CASE s.kopuk
    BY <2>1 DEF Gosterilir
  <2>2. CASE ~s.kopuk
    <3>1. turns' = Append(turns, t) /\ turns \in Seq(TurnTipi)
      BY <1>1, <2>2 DEF Gosterilir, t, SohbetTypeOK
    <3>2. /\ DOMAIN turns = 1 .. Len(turns) /\ DOMAIN turns' = 1 .. Len(turns) + 1 /\ Len(turns) \in Nat
          /\ turns'[Len(turns) + 1] = t /\ \A i \in 1 .. Len(turns) : turns'[i] = turns[i]
      BY <1>2, <3>1, AppendProperties
    <3> QED BY <1>2, <3>2
  <2> QED BY <2>1, <2>2
<1>7. \A u \in sohbetler' : u \in sohbetler \/ (u = [s EXCEPT !.kopuk = TRUE] /\ "koptu" \in kusur')
  OBVIOUS
<1>8. /\ [s EXCEPT !.kopuk = TRUE].eylem = s.eylem /\ [s EXCEPT !.kopuk = TRUE].cagri = s.cagri
      /\ Kabul([s EXCEPT !.kopuk = TRUE]) <=> Kabul(s)
  BY <1>1 DEF SohbetTipi, Kabul
<1>9. \A u \in sohbetler' :
          /\ u.eylem # {} \/ u.cagri > 0 => Kabul(u)
          /\ u.kopuk => "koptu" \in kusur'
          /\ \A o \in u.eylem : o.no \in DOMAIN belgeler /\ belgeler[o.no] = o
  <2> SUFFICES ASSUME NEW u \in sohbetler'
               PROVE  /\ u.eylem # {} \/ u.cagri > 0 => Kabul(u)
                      /\ u.kopuk => "koptu" \in kusur'
                      /\ \A o \in u.eylem : o.no \in DOMAIN belgeler /\ belgeler[o.no] = o
    OBVIOUS
  <2>1. CASE u \in sohbetler
    BY <2>1 DEF SohbetInv, TekliflerSaklanan
  <2>2. CASE u = [s EXCEPT !.kopuk = TRUE] /\ "koptu" \in kusur'
    <3>1. /\ s.eylem # {} \/ s.cagri > 0 => Kabul(s)
          /\ \A o \in s.eylem : o.no \in DOMAIN belgeler /\ belgeler[o.no] = o
      BY DEF SohbetInv, TekliflerSaklanan
    <3> QED BY <1>8, <2>2, <3>1
  <2> QED BY <1>7, <2>1, <2>2
<1>10. \A i \in DOMAIN turns' : \A o \in turns'[i].eylem : o.no \in DOMAIN belgeler /\ belgeler[o.no] = o
  <2>1. \A o \in eylem : o.no \in DOMAIN belgeler /\ belgeler[o.no] = o
    BY DEF SohbetInv, TekliflerSaklanan
  <2> QED BY <1>6, <2>1 DEF SohbetInv, TekliflerSaklanan
<1>11. ASSUME kusur' \cap {"yarim", "koptu"} = {}, NEW o \in olusan
       PROVE  \/ \E u \in sohbetler' : o \in u.eylem
              \/ \E i \in DOMAIN turns' : o \in turns'[i].eylem
  <2>1. kusur \cap {"yarim", "koptu"} = {} /\ eylem = s.eylem /\ ~s.kopuk /\ sohbetler' = sohbetler \ {s}
    BY <1>11 DEF SohbetInv, TekliflerSaklanan
  <2>2. \/ \E u \in sohbetler : o \in u.eylem
        \/ \E i \in DOMAIN turns : o \in turns[i].eylem
    BY <1>11, <2>1 DEF SohbetInv, TekliflerSaklanan
  <2> QED BY <1>6, <2>1, <2>2
<1>12. "ayni_an" \notin kusur' =>
          \A i, j \in DOMAIN belgeler : AyniYer(belgeler[i], belgeler[j]) => i = j
  BY DEF SohbetInv, TekliflerSaklanan
<1>13. TekliflerSaklanan'
  BY <1>9, <1>10, <1>11, <1>12 DEF TekliflerSaklanan, AyniYer, Kabul
<1> QED BY <1>3, <1>5, <1>13 DEF SohbetInv

\* The question is worked on: a tool may store a document.
LEMMA AracInv ==
    ASSUME SohbetInv, NEW s \in sohbetler, NEW z \in SohbetTipi, Kabul(s),
           z.soru = s.soru, z.history = s.history, z.kopuk = s.kopuk, s.eylem \subseteq z.eylem,
           sohbetler' = (sohbetler \ {s}) \cup {z},
           UNCHANGED <<turns, busy, soruNo>>,
           an' \in Nat, belgeler' \in Seq(Eylem), olusan' \subseteq Eylem,
           DOMAIN belgeler \subseteq DOMAIN belgeler', \A i \in DOMAIN belgeler : belgeler'[i] = belgeler[i],
           \A o \in z.eylem : o.no \in DOMAIN belgeler' /\ belgeler'[o.no] = o,
           \A o \in olusan' : o \in olusan \/ o \in z.eylem,
           kusur \subseteq kusur', kusur' \subseteq kusur \cup {"ayni_an"},
           "ayni_an" \notin kusur' =>
               \A i, j \in DOMAIN belgeler' : AyniYer(belgeler'[i], belgeler'[j]) => i = j
    PROVE  SohbetInv'
<1>1. SohbetTypeOK'
  BY DEF SohbetInv, SohbetTypeOK
<1>2. BekleyenSon'
  <2>1. \A u \in sohbetler' : u \in sohbetler \ {s} \/ u = z
    OBVIOUS
  <2>2. (\A u \in sohbetler' : ~u.kopuk => busy')
    BY <2>1 DEF SohbetInv, BekleyenSon
  <2>3. \A u, v \in sohbetler' : ~u.kopuk /\ ~v.kopuk => u = v
    BY <2>1 DEF SohbetInv, BekleyenSon
  <2>4. ASSUME "ucarken" \notin kusur'
        PROVE  LET h == Hatasiz(turns)' IN
               /\ Bagli(h)
               /\ \A u \in sohbetler' :
                     /\ Bagli(u.history)
                     /\ ~u.kopuk => h # << >> /\ h[Len(h)].rol = "user" /\ h[Len(h)].soru = u.soru
    <3>1. Hatasiz(turns)' = Hatasiz(turns)
      BY DEF Hatasiz
    <3> QED BY <2>1, <2>4, <3>1 DEF SohbetInv, BekleyenSon
  <2> QED BY <2>2, <2>3, <2>4 DEF BekleyenSon
<1>3. \A u \in sohbetler' :
          /\ u.eylem # {} \/ u.cagri > 0 => Kabul(u)
          /\ u.kopuk => "koptu" \in kusur'
          /\ \A o \in u.eylem : o.no \in DOMAIN belgeler' /\ belgeler'[o.no] = o
  <2> SUFFICES ASSUME NEW u \in sohbetler'
               PROVE  /\ u.eylem # {} \/ u.cagri > 0 => Kabul(u)
                      /\ u.kopuk => "koptu" \in kusur'
                      /\ \A o \in u.eylem : o.no \in DOMAIN belgeler' /\ belgeler'[o.no] = o
    OBVIOUS
  <2>1. CASE u \in sohbetler
    BY <2>1 DEF SohbetInv, TekliflerSaklanan
  <2>2. CASE u = z
    <3>1. s.kopuk => "koptu" \in kusur
      BY DEF SohbetInv, TekliflerSaklanan
    <3>2. Kabul(z)
      BY DEF Kabul
    <3> QED BY <2>2, <3>1, <3>2
  <2> QED BY <2>1, <2>2
<1>4. \A i \in DOMAIN turns' : \A o \in turns'[i].eylem : o.no \in DOMAIN belgeler' /\ belgeler'[o.no] = o
  BY DEF SohbetInv, TekliflerSaklanan
<1>5. ASSUME kusur' \cap {"yarim", "koptu"} = {}, NEW o \in olusan'
      PROVE  \/ \E u \in sohbetler' : o \in u.eylem
             \/ \E i \in DOMAIN turns' : o \in turns'[i].eylem
  <2>1. CASE o \in z.eylem
    BY <2>1
  <2>2. CASE o \notin z.eylem
    <3>1. kusur \cap {"yarim", "koptu"} = {} /\ o \in olusan
      BY <1>5, <2>2
    <3>2. \/ \E u \in sohbetler : o \in u.eylem
          \/ \E i \in DOMAIN turns : o \in turns[i].eylem
      BY <3>1 DEF SohbetInv, TekliflerSaklanan
    <3> QED BY <2>2, <3>2
  <2> QED BY <2>1, <2>2
<1>6. TekliflerSaklanan'
  BY <1>3, <1>4, <1>5 DEF TekliflerSaklanan, AyniYer, Kabul
<1> QED BY <1>1, <1>2, <1>6 DEF SohbetInv

\* A tool that is called, reads or stores a document.
LEMMA AracAdim ==
    ASSUME SohbetInv, NEW s \in sohbetler,
           AracIster(s) \/ AracOkur(s) \/ \E tur \in SaatliTur \cup RastgeleTur : AracYazar(s, tur)
    PROVE  SohbetInv'
<1>1. SohbetTypeOK /\ s \in SohbetTipi
  BY DEF SohbetInv, SohbetTypeOK
<1>2. /\ s.cagri > 0 => Kabul(s)
      /\ \A o \in s.eylem : o.no \in DOMAIN belgeler /\ belgeler[o.no] = o
      /\ "ayni_an" \notin kusur =>
            \A i, j \in DOMAIN belgeler : AyniYer(belgeler[i], belgeler[j]) => i = j
  BY DEF SohbetInv, TekliflerSaklanan
<1>3. CASE AracIster(s)
  <2>1. PICK n \in 1 .. MaxCagri :
           sohbetler' = (sohbetler \ {s}) \cup {[s EXCEPT !.turn = @ + 1, !.cagri = n]}
    BY <1>3 DEF AracIster
  <2> DEFINE z == [s EXCEPT !.turn = @ + 1, !.cagri = n]
  <2>2. /\ z \in SohbetTipi /\ z.soru = s.soru /\ z.history = s.history /\ z.kopuk = s.kopuk
        /\ z.eylem = s.eylem
    <3>1. [s EXCEPT !.turn = @ + 1] \in SohbetTipi
      BY <1>1 DEF SohbetTipi
    <3>2. z = [[s EXCEPT !.turn = @ + 1] EXCEPT !.cagri = n]
      OBVIOUS
    <3>n. n \in Nat
      OBVIOUS
    <3>3. z \in SohbetTipi
      <4> DEFINE y == [s EXCEPT !.turn = @ + 1]
      <4> HIDE DEF y
      <4>1. y \in SohbetTipi
        BY <3>1 DEF y
      <4>2. [y EXCEPT !.cagri = n] \in SohbetTipi
        BY <3>n, <4>1 DEF SohbetTipi
      <4> QED BY <3>2, <4>2 DEF y
    <3> QED BY <1>1, <3>3 DEF SohbetTipi
  <2>3. Kabul(s) /\ UNCHANGED <<turns, busy, soruNo, belgeler, an, olusan, kusur>>
    BY <1>3 DEF AracIster, Sorulur
  <2>4. sohbetler' = (sohbetler \ {s}) \cup {z}
    BY <2>1
  <2> HIDE DEF z
  <2> QED BY <1>1, <1>2, <2>2, <2>3, <2>4, AracInv DEF SohbetTypeOK
<1>4. CASE AracOkur(s)
  <2> DEFINE z == [s EXCEPT !.cagri = @ - 1]
  <2>2. /\ z \in SohbetTipi /\ z.soru = s.soru /\ z.history = s.history /\ z.kopuk = s.kopuk
        /\ z.eylem = s.eylem
    BY <1>1, <1>4 DEF SohbetTipi, AracOkur
  <2>3. Kabul(s) /\ UNCHANGED <<turns, busy, soruNo, belgeler, an, olusan, kusur>>
    BY <1>2, <1>4 DEF AracOkur
  <2>4. sohbetler' = (sohbetler \ {s}) \cup {z}
    BY <1>4 DEF AracOkur
  <2> HIDE DEF z
  <2> QED BY <1>1, <1>2, <2>2, <2>3, <2>4, AracInv DEF SohbetTypeOK
<1>5. ASSUME NEW tur \in SaatliTur \cup RastgeleTur, AracYazar(s, tur)
      PROVE  SohbetInv'
  <2> DEFINE no == Len(belgeler) + 1
             kimlik == IF tur \in SaatliTur THEN an' ELSE no
             o == [tur |-> tur, kimlik |-> kimlik, no |-> no]
             z == [s EXCEPT !.cagri = @ - 1, !.eylem = @ \cup {o}]
  <2>1. /\ s.cagri > 0 /\ (an' = an \/ an' = an + 1) /\ belgeler' = Append(belgeler, o)
        /\ sohbetler' = (sohbetler \ {s}) \cup {z} /\ olusan' = olusan \cup {o}
        /\ kusur' = IF \E i \in DOMAIN belgeler : AyniYer(belgeler[i], o)
                    THEN kusur \cup {"ayni_an"} ELSE kusur
        /\ UNCHANGED <<turns, busy, soruNo>>
    BY <1>5 DEF AracYazar
  <2>2. belgeler \in Seq(Eylem) /\ an' \in Nat /\ no \in Nat
    BY <1>1, <2>1 DEF SohbetTypeOK
  <2>3. o \in Eylem /\ o.no = no
    BY <2>2 DEF Eylem
  <2> HIDE DEF o
  <2>4. /\ belgeler' \in Seq(Eylem) /\ DOMAIN belgeler' = 1 .. no /\ belgeler'[no] = o
        /\ DOMAIN belgeler = 1 .. no - 1 /\ \A i \in 1 .. no - 1 : belgeler'[i] = belgeler[i]
    BY <2>1, <2>2, <2>3, AppendProperties
  <2>5. /\ z \in SohbetTipi /\ z.soru = s.soru /\ z.history = s.history /\ z.kopuk = s.kopuk
        /\ z.eylem = s.eylem \cup {o}
    <3>c. s.cagri > 0
      BY <2>1
    <3>1. [s EXCEPT !.cagri = @ - 1] \in SohbetTipi
      BY <1>1, <3>c DEF SohbetTipi
    <3>2. z = [[s EXCEPT !.cagri = @ - 1] EXCEPT !.eylem = @ \cup {o}]
      OBVIOUS
    <3>3. z \in SohbetTipi
      BY <2>3, <3>1, <3>2 DEF SohbetTipi
    <3> QED BY <1>1, <3>3 DEF SohbetTipi
  <2>4p. no \in Nat /\ no > 0
    BY <1>1 DEF SohbetTypeOK
  <2> HIDE DEF z, no
  <2>6. \A u \in z.eylem : u.no \in DOMAIN belgeler' /\ belgeler'[u.no] = u
    <3> SUFFICES ASSUME NEW u \in z.eylem PROVE u.no \in DOMAIN belgeler' /\ belgeler'[u.no] = u
      OBVIOUS
    <3>1. CASE u = o
      <4>1. u.no = no /\ no \in 1 .. no
        BY <2>3, <2>4p, <3>1
      <4> QED BY <2>4, <3>1, <4>1
    <3>2. CASE u \in s.eylem
      <4>1. u.no \in DOMAIN belgeler /\ belgeler[u.no] = u
        BY <1>2, <3>2
      <4> QED BY <2>2, <2>4, <4>1
    <3> QED BY <2>5, <3>1, <3>2
  <2>7. ASSUME "ayni_an" \notin kusur', NEW i \in DOMAIN belgeler', NEW j \in DOMAIN belgeler',
               AyniYer(belgeler'[i], belgeler'[j])
        PROVE  i = j
    <3>1. "ayni_an" \notin kusur /\ \A k \in DOMAIN belgeler : ~AyniYer(belgeler[k], o)
      BY <2>1, <2>7
    <3>2. (i = no \/ i \in DOMAIN belgeler) /\ (j = no \/ j \in DOMAIN belgeler)
      BY <2>2, <2>4
    <3>3. CASE i = no
      BY <2>4, <2>7, <3>1, <3>2, <3>3 DEF AyniYer
    <3>4. CASE j = no
      BY <2>4, <2>7, <3>1, <3>2, <3>4 DEF AyniYer
    <3>5. CASE i \in DOMAIN belgeler /\ j \in DOMAIN belgeler
      BY <1>2, <2>4, <2>7, <3>1, <3>5
    <3> QED BY <3>2, <3>3, <3>4, <3>5
  <2>8. /\ DOMAIN belgeler \subseteq DOMAIN belgeler' /\ \A i \in DOMAIN belgeler : belgeler'[i] = belgeler[i]
        /\ olusan' \subseteq Eylem
    BY <1>1, <2>1, <2>2, <2>3, <2>4 DEF SohbetTypeOK
  <2>9. kusur \subseteq kusur' /\ kusur' \subseteq kusur \cup {"ayni_an"} /\ Kabul(s)
    BY <1>2, <2>1
  <2>10. s.eylem \subseteq z.eylem /\ \A u \in olusan' : u \in olusan \/ u \in z.eylem
    BY <2>1, <2>5
  <2>11. sohbetler' = (sohbetler \ {s}) \cup {z} /\ UNCHANGED <<turns, busy, soruNo>>
    BY <2>1
  <2> QED BY <2>2, <2>4, <2>5, <2>6, <2>7, <2>8, <2>9, <2>10, <2>11, AracInv
<1> QED BY <1>3, <1>4, <1>5

\* A question sent.
LEMMA SendInv == ASSUME SohbetInv, Send PROVE SohbetInv'
<1>1. PICK uygun \in BOOLEAN :
        LET soru == Turn("user", soruNo + 1, uygun, FALSE, {}) IN
        /\ turns' = Append(turns, soru)
        /\ sohbetler' = sohbetler \cup
              {[soru |-> soruNo + 1, history |-> History(soru), turn |-> 0,
                cagri |-> 0, eylem |-> {}, kopuk |-> FALSE]}
  BY DEF Send
<1> DEFINE q == Turn("user", soruNo + 1, uygun, FALSE, {})
           y == [soru |-> soruNo + 1, history |-> History(q), turn |-> 0,
                 cagri |-> 0, eylem |-> {}, kopuk |-> FALSE]
<1>2. /\ turns' = Append(turns, q) /\ sohbetler' = sohbetler \cup {y} /\ soruNo' = soruNo + 1
      /\ busy' = TRUE /\ ~busy /\ UNCHANGED <<belgeler, an, olusan, kusur>>
  BY <1>1 DEF Send, Gonderilir
<1>3. SohbetTypeOK
  BY DEF SohbetInv
<1>4. /\ q \in TurnTipi /\ q.rol = "user" /\ q.soru = soruNo + 1 /\ q.error = FALSE /\ q.eylem = {}
  BY <1>3 DEF SohbetTypeOK, TurnTipi, Turn
<1>5. /\ y.soru = soruNo + 1 /\ y.history = Append(Hatasiz(turns), q) /\ y.cagri = 0 /\ y.eylem = {}
      /\ y.kopuk = FALSE
  BY DEF History
<1> HIDE DEF q
<1>6. Hatasiz(turns) \in Seq(TurnTipi) /\ y.history \in Seq(TurnTipi)
  BY <1>3, <1>4, <1>5, HatasizTip, AppendProperties DEF SohbetTypeOK
<1>7. y \in SohbetTipi
  <2>1. History(q) \in Seq(TurnTipi)
    BY <1>5, <1>6
  <2> QED BY <1>3, <2>1 DEF SohbetTipi, SohbetTypeOK
<1> HIDE DEF y
<1>8. SohbetTypeOK'
  <2>1. turns' \in Seq(TurnTipi)
    BY <1>2, <1>3, <1>4, AppendProperties DEF SohbetTypeOK
  <2> QED BY <1>2, <1>3, <1>7, <2>1 DEF SohbetTypeOK
<1>9. \A u \in sohbetler : u.kopuk
  BY <1>2 DEF SohbetInv, BekleyenSon
<1>10. BekleyenSon'
  <2>1. ASSUME "ucarken" \notin kusur'
        PROVE  LET h == Hatasiz(turns)' IN
               /\ Bagli(h)
               /\ \A u \in sohbetler' :
                     /\ Bagli(u.history)
                     /\ ~u.kopuk => h # << >> /\ h[Len(h)].rol = "user" /\ h[Len(h)].soru = u.soru
    <3>1. Bagli(Hatasiz(turns)) /\ \A u \in sohbetler : Bagli(u.history)
      BY <1>2, <2>1 DEF SohbetInv, BekleyenSon
    <3>2. Hatasiz(turns)' = y.history
      <4>1. Hatasiz(turns)' = Hatasiz(turns')
        BY DEF Hatasiz
      <4>2. turns \in Seq(TurnTipi)
        BY <1>3 DEF SohbetTypeOK
      <4> QED BY <1>2, <1>4, <1>5, <4>1, <4>2, HatasizEk
    <3>3. Bagli(y.history)
      BY <1>4, <1>5, <1>6, <3>1, BagliEk
    <3>4. y.history # << >> /\ y.history[Len(y.history)] = q
      BY <1>4, <1>5, <1>6, AppendProperties
    <3> QED BY <1>2, <1>4, <1>5, <1>9, <3>1, <3>2, <3>3, <3>4
  <2> QED BY <1>2, <1>9, <2>1 DEF BekleyenSon
<1>11. /\ DOMAIN turns \subseteq DOMAIN turns'
       /\ \A i \in DOMAIN turns' : turns'[i].eylem = {} \/ (i \in DOMAIN turns /\ turns'[i] = turns[i])
       /\ \A i \in DOMAIN turns : turns'[i] = turns[i]
  <2>1. turns \in Seq(TurnTipi)
    BY <1>3 DEF SohbetTypeOK
  <2>2. /\ DOMAIN turns = 1 .. Len(turns) /\ DOMAIN turns' = 1 .. Len(turns) + 1 /\ Len(turns) \in Nat
        /\ turns'[Len(turns) + 1] = q /\ \A i \in 1 .. Len(turns) : turns'[i] = turns[i]
    BY <1>2, <1>4, <2>1, AppendProperties
  <2> QED BY <1>4, <2>2
<1>12. \A u \in sohbetler' :
          /\ u.eylem # {} \/ u.cagri > 0 => Kabul(u)
          /\ u.kopuk => "koptu" \in kusur'
          /\ \A o \in u.eylem : o.no \in DOMAIN belgeler /\ belgeler[o.no] = o
  <2>1. \A u \in sohbetler' : u \in sohbetler \/ u = y
    BY <1>2
  <2> QED BY <1>2, <1>5, <2>1 DEF SohbetInv, TekliflerSaklanan
<1>13. TekliflerSaklanan'
  <2>1. \A i \in DOMAIN turns' : \A o \in turns'[i].eylem : o.no \in DOMAIN belgeler /\ belgeler[o.no] = o
    BY <1>11 DEF SohbetInv, TekliflerSaklanan
  <2>2. kusur \cap {"yarim", "koptu"} = {} =>
          \A o \in olusan : \/ \E u \in sohbetler' : o \in u.eylem
                            \/ \E i \in DOMAIN turns' : o \in turns'[i].eylem
    BY <1>2, <1>11 DEF SohbetInv, TekliflerSaklanan
  <2>3. "ayni_an" \notin kusur =>
          \A i, j \in DOMAIN belgeler : AyniYer(belgeler[i], belgeler[j]) => i = j
    BY DEF SohbetInv, TekliflerSaklanan
  <2> QED BY <1>2, <1>12, <2>1, <2>2, <2>3 DEF TekliflerSaklanan, AyniYer, Kabul
<1> QED BY <1>8, <1>10, <1>13 DEF SohbetInv

\* The conversation cleared, its streams left running.
LEMMA ClearInv == ASSUME SohbetInv, Clear PROVE SohbetInv'
<1>1. SohbetTypeOK'
  <2>1. turns' = << >> /\ << >> \in Seq(TurnTipi)
    BY DEF Clear
  <2> QED BY <2>1 DEF Clear, SohbetInv, SohbetTypeOK
<1>2. /\ turns' = << >> /\ UNCHANGED <<busy, sohbetler, soruNo, belgeler, an>> /\ kusur \subseteq kusur'
      /\ kusur' \subseteq kusur \cup {"ucarken"} /\ ("ucarken" \notin kusur' => ~busy)
      /\ olusan' = {o \in olusan : \E u \in sohbetler : o \in u.eylem}
  BY DEF Clear
<1>3. BekleyenSon'
  <2>1. Hatasiz(turns)' = << >>
    <3>1. Hatasiz(turns)' = Hatasiz(turns')
      BY DEF Hatasiz
    <3>2. turns' \in Seq(TurnTipi)
      BY <1>1 DEF SohbetTypeOK
    <3> QED BY <1>2, <3>1, <3>2, HatasizTip
  <2>2. Bagli(<< >>)
    BY DEF Bagli
  <2> QED BY <1>2, <2>1, <2>2 DEF SohbetInv, BekleyenSon
<1>4. TekliflerSaklanan'
  <2>1. \A u \in sohbetler' :
          /\ u.eylem # {} \/ u.cagri > 0 => Kabul(u)
          /\ u.kopuk => "koptu" \in kusur'
          /\ \A o \in u.eylem : o.no \in DOMAIN belgeler /\ belgeler[o.no] = o
    BY <1>2 DEF SohbetInv, TekliflerSaklanan
  <2>2. DOMAIN turns' = {}
    BY <1>2
  <2>3. "ayni_an" \notin kusur' =>
          \A i, j \in DOMAIN belgeler : AyniYer(belgeler[i], belgeler[j]) => i = j
    BY <1>2 DEF SohbetInv, TekliflerSaklanan
  <2> QED BY <1>2, <2>1, <2>2, <2>3 DEF TekliflerSaklanan, AyniYer, Kabul
<1> QED BY <1>1, <1>3, <1>4 DEF SohbetInv

\* Every step of the conversation.
LEMMA SohbetAdim == ASSUME SohbetInv, [SohbetNext]_sohbetVars PROVE SohbetInv'
<1>1. CASE Send
  BY <1>1, SendInv
<1>2. CASE Clear
  BY <1>2, ClearInv
<1>3. ASSUME NEW s \in sohbetler,
             Kopar(s) \/ Reddet(s) \/ Cevaplar(s) \/ Patlar(s) \/ Tukenir(s)
      PROVE  SohbetInv'
  <2>1. Kopar(s) => SohbetInv'
    BY <1>3, BiterInv DEF Kopar
  <2>2. Reddet(s) => SohbetInv'
    <3>1. ~Kabul(s) => s.eylem = {}
      BY <1>3 DEF SohbetInv, TekliflerSaklanan
    <3> QED BY <1>3, <3>1, BiterInv DEF Reddet, Biter
  <2>3. Cevaplar(s) => SohbetInv'
    BY <1>3, BiterInv DEF Cevaplar, Biter
  <2>4. Patlar(s) => SohbetInv'
    BY <1>3, BiterInv DEF Patlar, Biter
  <2>5. Tukenir(s) => SohbetInv'
    BY <1>3, BiterInv DEF Tukenir, Biter
  <2> QED BY <1>3, <2>1, <2>2, <2>3, <2>4, <2>5
<1>4. CASE UNCHANGED sohbetVars
  <2>1. UNCHANGED <<turns, busy, sohbetler, soruNo, belgeler, an, olusan, kusur>>
    BY <1>4 DEF sohbetVars
  <2>2. SohbetTypeOK'
    BY <2>1 DEF SohbetInv, SohbetTypeOK
  <2>3. Hatasiz(turns)' = Hatasiz(turns)
    BY <2>1 DEF Hatasiz
  <2>4. BekleyenSon'
    BY <2>1, <2>3 DEF SohbetInv, BekleyenSon
  <2>5. TekliflerSaklanan'
    BY <2>1 DEF SohbetInv, TekliflerSaklanan, AyniYer, Kabul
  <2> QED BY <2>2, <2>4, <2>5 DEF SohbetInv
<1> QED BY <1>1, <1>2, <1>3, <1>4, AracAdim DEF SohbetNext

\* What the inductive invariant says of the conversation.
LEMMA SohbetSonuc == SohbetInv => SohbetDogru
<1> SUFFICES ASSUME SohbetInv PROVE SohbetDogru
  OBVIOUS
<1>1. GecmisDogru
  BY DEF SohbetInv, BekleyenSon, Bagli, GecmisDogru
<1>2. ASSUME "ayni_an" \notin kusur, NEW i \in DOMAIN turns, NEW o \in turns[i].eylem
      PROVE  Acilan(o) = o
  <2>1. o.no \in DOMAIN belgeler /\ belgeler[o.no] = o
    BY <1>2 DEF SohbetInv, TekliflerSaklanan
  <2>2. \A k \in DOMAIN belgeler : AyniYer(belgeler[k], o) => k = o.no
    BY <1>2, <2>1 DEF SohbetInv, TekliflerSaklanan
  <2> DEFINE En(k) == /\ AyniYer(belgeler[k], o)
                     /\ \A j \in DOMAIN belgeler : AyniYer(belgeler[j], o) => j <= k
  <2>3. En(o.no)
    <3>1. o.no \in Nat
      BY <2>1 DEF SohbetInv, SohbetTypeOK
    <3> QED BY <2>1, <2>2, <3>1 DEF AyniYer
  <2>4. (CHOOSE k \in DOMAIN belgeler : En(k)) = o.no
    BY <2>1, <2>2, <2>3
  <2> QED BY <2>1, <2>4 DEF Acilan
<1>3. EtkiGorunur
  BY <1>2 DEF SohbetInv, TekliflerSaklanan, EtkiGorunur
<1> QED BY <1>1, <1>3 DEF SohbetDogru

\* The conversation is true to what happened: the history the model is shown
\* pairs every answer with its question, and what the tools stored is offered,
\* for every number of questions, turns and documents.
THEOREM ConversationTrue == SohbetSpec => []SohbetDogru
<1>1. SohbetInit => SohbetInv
  BY SohbetIlk
<1>2. SohbetInv /\ [SohbetNext]_sohbetVars => SohbetInv'
  BY SohbetAdim
<1>3. SohbetInv => SohbetDogru
  BY SohbetSonuc
<1> QED BY <1>1, <1>2, <1>3, PTL DEF SohbetSpec

-----------------------------------------------------------------------------
(***************************************************************************)
(* PlanPage.                                                               *)
(***************************************************************************)
GorevAlan == FormAlan \cup BagAlan
PlanlarMi(P) ==
    /\ P = [p \in Plan |-> P[p]]
    /\ \A p \in Plan : P[p] = [x \in GorevAlan |-> P[p][x]]

BagliCagri == {"bagSil", "bagEkle"}

CagriTipi(i) ==
    \/ /\ i.tur = "kaydet" /\ i.plan \in Plan /\ i.eski \in BOOLEAN /\ DOMAIN i.yama \subseteq FormAlan
       /\ i = [tur |-> i.tur, plan |-> i.plan, eski |-> i.eski, yama |-> i.yama]
    \/ /\ i.tur \in BagliCagri /\ i.plan \in Plan /\ DOMAIN i.yama = BagAlan
       /\ i = [tur |-> i.tur, plan |-> i.plan, yama |-> i.yama]
    \/ /\ i.tur \in {"terfi", "terfiOldu"}
       /\ i = [tur |-> i.tur, plan |-> i.plan]

CekmeceTipi(c) ==
    c \notin {Kapali, PlanBekler} =>
        /\ c.plan \in Plan /\ c.eski \in BOOLEAN
        /\ c = [plan |-> c.plan, form |-> c.form, ilk |-> c.ilk, eski |-> c.eski]

PlanTip ==
    /\ PlanlarMi(sunucuPlan) /\ PlanlarMi(niyet)
    /\ planId \in Plan
    /\ CekmeceTipi(cekmece)
    /\ \A i \in cagri : CagriTipi(i)

\* What a call will make of the task x of its plan.
Yamali(i, x) == IF x \in DOMAIN i.yama THEN i.yama[x] ELSE sunucuPlan[i.plan][x]

\* The edits that were made are what the server has and what the call in flight
\* will bring.
CagriTamamlar(i) ==
    \/ /\ i.tur = "kaydet"
       /\ \A p \in Plan \ {i.plan} : \A x \in GorevAlan : niyet[p][x] = sunucuPlan[p][x]
       /\ ~i.eski => \A x \in GorevAlan : niyet[i.plan][x] = Yamali(i, x)
    \/ /\ i.tur \in BagliCagri
       /\ \A p \in Plan \ {i.plan} : \A x \in GorevAlan : niyet[p][x] = sunucuPlan[p][x]
       /\ \A x \in GorevAlan : niyet[i.plan][x] = Yamali(i, x)
       /\ i.tur = "bagEkle" => sunucuPlan[i.plan].tur = BosMetin
    \/ /\ i.tur = "terfi"
       /\ \A x \in GorevAlan : /\ niyet["canli"][x] = sunucuPlan["senaryo"][x]
                               /\ niyet["senaryo"][x] = sunucuPlan["senaryo"][x]
    \/ /\ i.tur = "terfiOldu"
       /\ \A p \in Plan : \A x \in GorevAlan : niyet[p][x] = sunucuPlan[p][x]

\* A drawer that nobody's edit has made old began with what its plan should be.
CekmeceGuncel ==
    /\ cekmece \notin {Kapali, PlanBekler} /\ ~cekmece.eski
    /\ cekmece.plan = "canli" => \A i \in cagri : i.tur # "terfi"
    => \A f \in FormAlan : cekmece.ilk[f] = niyet[cekmece.plan][f]

PlanBagli ==
    planSebep = {} =>
        /\ \A i, j \in cagri : i = j
        /\ cagri = {} => \A p \in Plan : \A x \in GorevAlan : niyet[p][x] = sunucuPlan[p][x]
        /\ \A i \in cagri : CagriTamamlar(i)
        /\ CekmeceGuncel
        /\ \A p \in Plan : niyet[p].ad # BosMetin /\ niyet[p].baslangicDk # BosMetin

PlanInv == PlanTip /\ PlanBagli

\* The page as it opens.
LEMMA PlanIlk == PlanInit => PlanInv
<1> SUFFICES ASSUME PlanInit PROVE PlanInv
  OBVIOUS
<1>1. PlanTip
  BY PlanSayfaVarsayim DEF PlanInit, PlanTip, PlanlarMi, CekmeceTipi, GorevAlan, Plan
<1>2. PlanBagli
  BY PlanSayfaVarsayim DEF PlanInit, PlanBagli, CekmeceGuncel, Plan
<1> QED BY <1>1, <1>2 DEF PlanInv

\* One plan's task is written over.
LEMMA PlanYaz ==
    ASSUME NEW P, PlanlarMi(P), NEW p \in Plan, NEW g, g = [x \in GorevAlan |-> g[x]]
    PROVE  /\ PlanlarMi([P EXCEPT ![p] = g])
           /\ [P EXCEPT ![p] = g][p] = g
           /\ \A q \in Plan \ {p} : [P EXCEPT ![p] = g][q] = P[q]
BY DEF PlanlarMi

\* What is sent, written on a plan.
LEMMA UstYaz ==
    ASSUME NEW P, PlanlarMi(P), NEW p \in Plan, NEW y, DOMAIN y \subseteq GorevAlan
    PROVE  /\ PlanlarMi([P EXCEPT ![p] = GorevYamala(@, y)])
           /\ \A x \in GorevAlan :
                 [P EXCEPT ![p] = GorevYamala(@, y)][p][x] = IF x \in DOMAIN y THEN y[x] ELSE P[p][x]
           /\ \A q \in Plan \ {p} : [P EXCEPT ![p] = GorevYamala(@, y)][q] = P[q]
<1> DEFINE g == GorevYamala(P[p], y)
<1>1. [P EXCEPT ![p] = GorevYamala(@, y)] = [P EXCEPT ![p] = g]
  OBVIOUS
<1>2. DOMAIN P[p] = GorevAlan
  BY DEF PlanlarMi
<1>3. g = [x \in GorevAlan |-> g[x]]
      /\ \A x \in GorevAlan : g[x] = IF x \in DOMAIN y THEN y[x] ELSE P[p][x]
  <2>3. g = [x \in GorevAlan |-> IF x \in DOMAIN y THEN y[x] ELSE P[p][x]]
    BY <1>2 DEF GorevYamala
  <2> HIDE DEF g
  <2> QED BY <2>3
<1> HIDE DEF g
<1> QED BY <1>1, <1>3, PlanYaz

\* A drawer that is mounted begins with the server's task, or is older.
LEMMA AcilisTip ==
    ASSUME NEW p \in Plan, NEW k
    PROVE  /\ Acilis(p, k).plan = p /\ CekmeceTipi(Acilis(p, k))
           /\ ~Acilis(p, k).eski =>
                 /\ \A f \in FormAlan : Acilis(p, k).ilk[f] = sunucuPlan[p][f]
                 /\ \A i \in cagri : i.tur = "kaydet" => i.plan # p
BY DEF Acilis, CekmeceTipi

\* So it is right about everything but a promotion on its way.
LEMMA AcilisGuncel ==
    ASSUME PlanInv, planSebep = {}, NEW p \in Plan, NEW k, ~Acilis(p, k).eski,
           p = "canli" => \A i \in cagri : i.tur # "terfi"
    PROVE  \A f \in FormAlan : Acilis(p, k).ilk[f] = niyet[p][f]
<1>1. /\ \A f \in FormAlan : Acilis(p, k).ilk[f] = sunucuPlan[p][f]
      /\ \A i \in cagri : i.tur = "kaydet" => i.plan # p
  BY AcilisTip
<1>2. \A f \in FormAlan : f \in GorevAlan /\ f \notin BagAlan
  BY DEF GorevAlan, FormAlan, BagAlan
<1>3. CASE cagri = {}
  BY <1>1, <1>2, <1>3 DEF PlanInv, PlanBagli
<1>4. ASSUME NEW i \in cagri
      PROVE  \A f \in FormAlan : sunucuPlan[p][f] = niyet[p][f]
  <2>1. CagriTamamlar(i) /\ CagriTipi(i)
    BY DEF PlanInv, PlanBagli, PlanTip
  <2>2. CASE i.tur = "kaydet"
    BY <1>1, <1>2, <2>1, <2>2 DEF CagriTamamlar, BagliCagri
  <2>3. CASE i.tur \in BagliCagri
    <3>1. DOMAIN i.yama = BagAlan
      BY <2>1, <2>3 DEF CagriTipi, BagliCagri
    <3>2. \A q \in Plan \ {i.plan} : \A x \in GorevAlan : niyet[q][x] = sunucuPlan[q][x]
      BY <2>1, <2>3 DEF CagriTamamlar, BagliCagri
    <3>3. \A x \in GorevAlan : niyet[i.plan][x] = Yamali(i, x)
      BY <2>1, <2>3 DEF CagriTamamlar, BagliCagri
    <3> QED BY <1>2, <3>1, <3>2, <3>3 DEF Yamali
  <2>4. CASE i.tur = "terfi"
    BY <1>2, <2>1, <2>4 DEF CagriTamamlar, BagliCagri, Plan
  <2>5. CASE i.tur = "terfiOldu"
    BY <1>2, <2>1, <2>5 DEF CagriTamamlar, BagliCagri
  <2> QED BY <2>1, <2>2, <2>3, <2>4, <2>5 DEF CagriTipi
<1> QED BY <1>1, <1>3, <1>4

\* What the drawer shows after the plan on screen changes.
LEMMA CekmeceSonra ==
    ASSUME PlanInv, NEW p \in Plan, NEW k
    PROVE  /\ CekmeceTipi(Cekmece(p, k))
           /\ planSebep = {} /\ Cekmece(p, k) \notin {Kapali, PlanBekler} /\ ~Cekmece(p, k).eski
              /\ (Cekmece(p, k).plan = "canli" => \A i \in cagri : i.tur # "terfi")
              => \A f \in FormAlan : Cekmece(p, k).ilk[f] = niyet[Cekmece(p, k).plan][f]
<1>1. Cekmece(p, k) \in {Kapali, PlanBekler, Acilis(p, k)} \/ Cekmece(p, k) = cekmece
  BY DEF Cekmece
<1>2. CASE Cekmece(p, k) \in {Kapali, PlanBekler}
  BY <1>2 DEF CekmeceTipi
<1>3. CASE Cekmece(p, k) = Acilis(p, k)
  BY <1>3, AcilisTip, AcilisGuncel
<1>4. CASE Cekmece(p, k) = cekmece
  BY <1>4 DEF PlanInv, PlanTip, PlanBagli, CekmeceGuncel
<1> QED BY <1>1, <1>2, <1>3, <1>4

\* Steps that change nothing but the copies, the plan shown and the drawer.
LEMMA CekmeceDegisir ==
    ASSUME PlanInv, UNCHANGED <<sunucuPlan, cagri, niyet>>, planId' \in Plan, planSebep' = planSebep,
           CekmeceTipi(cekmece'),
           planSebep = {} /\ cekmece' \notin {Kapali, PlanBekler} /\ ~cekmece'.eski
              /\ (cekmece'.plan = "canli" => \A i \in cagri : i.tur # "terfi")
              => \A f \in FormAlan : cekmece'.ilk[f] = niyet[cekmece'.plan][f]
    PROVE  PlanInv'
<1>1. PlanTip'
  BY DEF PlanInv, PlanTip
<1>2. CekmeceGuncel' \/ planSebep' # {}
  BY DEF CekmeceGuncel
<1>3. \A i \in cagri : CagriTamamlar(i) => CagriTamamlar(i)'
  BY DEF CagriTamamlar, Yamali
<1>4. PlanBagli'
  BY <1>2, <1>3 DEF PlanInv, PlanBagli
<1> QED BY <1>1, <1>4 DEF PlanInv

\* The gestures that call nobody.
LEMMA PlanSade ==
    ASSUME PlanInv,
           \/ GorevAc \/ GorevKapat \/ PlanTazele \/ KopyaUnut
           \/ \E f \in FormAlan : \E v \in FormDeger[f] \cup {BosMetin} : FormYaz(f, v)
           \/ \E p \in Plan : PlanSec(p)
    PROVE  PlanInv'
<1>1. PlanTip /\ (planSebep = {} => CekmeceGuncel)
  BY DEF PlanInv, PlanBagli
<1>2. CASE GorevAc
  <2>1. /\ UNCHANGED <<sunucuPlan, cagri, niyet, planId, planSebep>>
        /\ cekmece' = Acilis(planId, planKopya) /\ planId \in Plan
    BY <1>1, <1>2 DEF GorevAc, PlanTip
  <2> QED BY <2>1, AcilisTip, AcilisGuncel, CekmeceDegisir
<1>3. CASE GorevKapat
  <2>1. UNCHANGED <<sunucuPlan, cagri, niyet, planId, planSebep>> /\ cekmece' = Kapali /\ planId \in Plan
    BY <1>1, <1>3 DEF GorevKapat, PlanTip
  <2>2. CekmeceTipi(cekmece')
    BY <2>1 DEF CekmeceTipi
  <2> QED BY <2>1, <2>2, CekmeceDegisir
<1>4. CASE PlanTazele
  <2>1. /\ UNCHANGED <<sunucuPlan, cagri, niyet, planId, planSebep>>
        /\ cekmece' = Cekmece(planId, planKopya') /\ planId \in Plan
    BY <1>1, <1>4 DEF PlanTazele, PlanTip
  <2> QED BY <2>1, CekmeceSonra, CekmeceDegisir
<1>5. CASE KopyaUnut
  <2>1. UNCHANGED <<sunucuPlan, cagri, niyet, planId, planSebep, cekmece>> /\ planId \in Plan
    BY <1>1, <1>5 DEF KopyaUnut, PlanTip
  <2> QED BY <1>1, <2>1, CekmeceDegisir DEF CekmeceGuncel, PlanTip
<1>6. ASSUME NEW f \in FormAlan, NEW v, FormYaz(f, v) PROVE PlanInv'
  <2>1. /\ UNCHANGED <<sunucuPlan, cagri, niyet, planId, planSebep>> /\ cekmece \notin {Kapali, PlanBekler}
        /\ cekmece' = [cekmece EXCEPT !.form[f] = v] /\ planId \in Plan
    BY <1>1, <1>6 DEF FormYaz, PlanTip
  <2>2. /\ cekmece = [plan |-> cekmece.plan, form |-> cekmece.form, ilk |-> cekmece.ilk, eski |-> cekmece.eski]
        /\ cekmece.plan \in Plan /\ cekmece.eski \in BOOLEAN
    BY <1>1, <2>1 DEF PlanTip, CekmeceTipi
  <2> DEFINE F == [cekmece.form EXCEPT ![f] = v]
  <2>3. cekmece' = [plan |-> cekmece.plan, form |-> F, ilk |-> cekmece.ilk, eski |-> cekmece.eski]
    <3>1. cekmece' = [cekmece EXCEPT !.form = F]
      BY <2>1
    <3> HIDE DEF F
    <3> QED BY <2>2, <3>1
  <2> HIDE DEF F
  <2>4. CekmeceTipi(cekmece') /\ cekmece'.plan = cekmece.plan /\ cekmece'.ilk = cekmece.ilk
        /\ cekmece'.eski = cekmece.eski
    BY <2>2, <2>3 DEF CekmeceTipi
  <2> QED BY <1>1, <2>1, <2>4, CekmeceDegisir DEF CekmeceGuncel
<1>7. ASSUME NEW p \in Plan, PlanSec(p) PROVE PlanInv'
  <2>1. UNCHANGED <<sunucuPlan, cagri, niyet, planSebep, cekmece>> /\ planId' \in Plan /\ cekmece = Kapali
    BY <1>7 DEF PlanSec
  <2>2. CekmeceTipi(cekmece')
    BY <2>1 DEF CekmeceTipi
  <2> QED BY <2>1, <2>2, CekmeceDegisir
<1> QED BY <1>2, <1>3, <1>4, <1>5, <1>6, <1>7

\* A save says what the operator changed, and every field it says is so.
LEMMA KaydetInv == ASSUME PlanInv, GorevKaydet PROVE PlanInv'
<1> DEFINE c == cekmece
           p == c.plan
           degisen == {f \in FormAlan : c.form[f] # c.ilk[f]}
<1>y. PICK y : y = Yama(c.form, planKopya[planId])
  OBVIOUS
<1>i. PICK i : i = [tur |-> "kaydet", plan |-> planId, eski |-> c.eski, yama |-> y]
  OBVIOUS
<1>z. PICK z : z = [f \in degisen |-> c.form[f]]
  OBVIOUS
<1>1. /\ PlanTip /\ c \notin {Kapali, PlanBekler}
      /\ cagri' = cagri \cup {i}
      /\ niyet' = [niyet EXCEPT ![p] = GorevYamala(@, z)]
      /\ cekmece' = [c EXCEPT !.ilk = c.form]
      /\ UNCHANGED <<sunucuPlan, planId>>
  BY <1>y, <1>i, <1>z DEF GorevKaydet, PlanInv
<1>2. /\ p \in Plan /\ c.eski \in BOOLEAN /\ planId \in Plan
      /\ c = [plan |-> c.plan, form |-> c.form, ilk |-> c.ilk, eski |-> c.eski]
  BY <1>1 DEF PlanTip, CekmeceTipi
<1>3. planSebep \subseteq planSebep'
  BY DEF GorevKaydet
<1>s. planSebep' = {} =>
        /\ \A f \in degisen : c.form[f] = BosMetin => f = "muhimmat"
        /\ planId = p
        /\ c.form.muhimmat = BosMetin => planKopya[p] = sunucuPlan[p]
        /\ cagri = {}
  <2>1. planSebep' = planSebep
                 \cup Not("bosAlan", \E f \in degisen \ {"muhimmat"} : c.form[f] = BosMetin)
                 \cup Not("baskaPlan", planId # p)
                 \cup Not("kopya", /\ c.form.muhimmat = BosMetin
                                   /\ planKopya[planId] # sunucuPlan[planId])
                 \cup Not("ustuste", cagri # {})
    BY DEF GorevKaydet
  <2> HIDE DEF degisen, c
  <2> QED BY <2>1 DEF Not
<1>4. DOMAIN y \subseteq FormAlan
  BY <1>y DEF Yama
<1>5. DOMAIN z \subseteq GorevAlan /\ DOMAIN z = degisen
  BY <1>z DEF GorevAlan
<1>6. /\ PlanlarMi(niyet')
      /\ \A x \in GorevAlan : niyet'[p][x] = IF x \in degisen THEN c.form[x] ELSE niyet[p][x]
      /\ \A q \in Plan \ {p} : niyet'[q] = niyet[q]
  <2>1. PlanlarMi(niyet)
    BY <1>1 DEF PlanTip
  <2>2. \A x \in degisen : z[x] = c.form[x]
    BY <1>z
  <2>3. DOMAIN z \subseteq GorevAlan
    BY <1>5
  <2>4. /\ PlanlarMi([niyet EXCEPT ![p] = GorevYamala(@, z)])
        /\ \A x \in GorevAlan :
              [niyet EXCEPT ![p] = GorevYamala(@, z)][p][x] = IF x \in DOMAIN z THEN z[x] ELSE niyet[p][x]
        /\ \A q \in Plan \ {p} : [niyet EXCEPT ![p] = GorevYamala(@, z)][q] = niyet[q]
    <3> HIDE DEF degisen, c
    <3> QED BY <1>2, <2>1, <2>3, UstYaz
  <2> HIDE DEF degisen, c
  <2> QED BY <1>1, <1>5, <2>2, <2>4
<1>7. /\ CagriTipi(i) /\ i.tur = "kaydet" /\ i.plan = planId /\ i.eski = c.eski /\ i.yama = y
  BY <1>2, <1>4, <1>i DEF CagriTipi
<1>8. /\ CekmeceTipi(cekmece') /\ cekmece'.plan = p /\ cekmece'.eski = c.eski /\ cekmece'.ilk = c.form
  <2>1. cekmece' = [plan |-> p, form |-> c.form, ilk |-> c.form, eski |-> c.eski]
    BY <1>1, <1>2
  <2> QED BY <1>2, <2>1 DEF CekmeceTipi
<1>9. PlanTip'
  <2> QED BY <1>1, <1>6, <1>7, <1>8 DEF PlanTip
<1>10. ASSUME planSebep' = {} PROVE PlanBagli'
  <2>1. /\ planId = p /\ cagri = {} /\ planSebep = {}
        /\ \A q \in Plan : \A x \in GorevAlan : niyet[q][x] = sunucuPlan[q][x]
        /\ \A q \in Plan : niyet[q].ad # BosMetin /\ niyet[q].baslangicDk # BosMetin
    BY <1>3, <1>s, <1>10 DEF PlanInv, PlanBagli
  <2>2. \A f \in {"ad", "baslangicDk"} : f \in GorevAlan
    BY DEF GorevAlan, FormAlan
  <2>3. \A q \in Plan : niyet'[q].ad # BosMetin /\ niyet'[q].baslangicDk # BosMetin
    <3>1. \A f \in {"ad", "baslangicDk"} : niyet'[p][f] # BosMetin
      BY <1>6, <1>s, <1>10, <2>1, <2>2, <1>2
    <3> QED BY <1>6, <2>1, <3>1
  <2>4. ASSUME ~c.eski
        PROVE  /\ \A x \in GorevAlan : niyet'[p][x] = IF x \in DOMAIN y THEN y[x] ELSE sunucuPlan[p][x]
               /\ \A f \in FormAlan : c.form[f] = niyet'[p][f]
    <3>1. \A f \in FormAlan : c.ilk[f] = niyet[p][f]
      BY <1>1, <2>1, <2>4 DEF PlanInv, PlanBagli, CekmeceGuncel
    <3>2. \A f \in FormAlan : niyet'[p][f] = c.form[f]
      BY <1>6, <3>1 DEF GorevAlan
    <3>3. \A x \in BagAlan : niyet'[p][x] = sunucuPlan[p][x] /\ x \notin DOMAIN y
      BY <1>2, <1>4, <1>6, <2>1 DEF GorevAlan, FormAlan, BagAlan
    <3>4. ASSUME NEW f \in FormAlan
          PROVE  c.form[f] = IF f \in DOMAIN y THEN y[f] ELSE sunucuPlan[p][f]
      <4>1. f \in GorevAlan /\ c.ilk[f] = sunucuPlan[p][f]
        BY <1>2, <2>1, <3>1 DEF GorevAlan
      <4>2. CASE c.form[f] # BosMetin
        <5>1. f \in DOMAIN y /\ y[f] = c.form[f]
          BY <1>y, <4>2 DEF Yama
        <5> QED BY <5>1
      <4>3. CASE c.form[f] = BosMetin /\ f \in {"ad", "baslangicDk"}
        <5>1. niyet'[p][f] # BosMetin
          BY <1>2, <2>3, <4>3
        <5> QED BY <3>2, <4>3, <5>1
      <4>4. CASE c.form[f] = BosMetin /\ f = "varlikId"
        <5>1. f \notin degisen
          BY <1>s, <1>10, <4>4
        <5>2. f \notin DOMAIN y
          BY <1>y, <4>4 DEF Yama
        <5> QED BY <4>1, <5>1, <5>2
      <4>5. CASE c.form[f] = BosMetin /\ f = "muhimmat"
        <5>1. planKopya[planId] = sunucuPlan[p]
          BY <1>s, <1>10, <4>5
        <5>2. f \in DOMAIN y <=> sunucuPlan[p][f] # BosMetin
          BY <1>y, <4>5, <5>1 DEF Yama
        <5>3. f \in DOMAIN y => y[f] = BosMetin
          BY <1>y, <4>5 DEF Yama
        <5> QED BY <4>5, <5>2, <5>3
      <4> QED BY <4>2, <4>3, <4>4, <4>5 DEF FormAlan
    <3> QED BY <3>2, <3>3, <3>4 DEF GorevAlan
  <2>5. CagriTamamlar(i)'
    <3>1. \A q \in Plan \ {planId} : \A x \in GorevAlan : niyet'[q][x] = sunucuPlan'[q][x]
      BY <1>1, <1>6, <2>1
    <3>2. ~i.eski => \A x \in GorevAlan : niyet'[i.plan][x] = Yamali(i, x)'
      BY <1>1, <1>7, <2>1, <2>4 DEF Yamali
    <3> QED BY <1>7, <3>1, <3>2 DEF CagriTamamlar
  <2>6. CekmeceGuncel'
    BY <1>8, <2>4 DEF CekmeceGuncel
  <2> QED BY <1>1, <2>1, <2>3, <2>5, <2>6 DEF PlanBagli
<1>11. planSebep' # {} => PlanBagli'
  BY DEF PlanBagli
<1> QED BY <1>9, <1>10, <1>11 DEF PlanInv

\* A changed dependency: two halves of one edit.
LEMMA BagimlilikInv ==
    ASSUME PlanInv, NEW f \in BagAlan, NEW v, BagimlilikDegistir(f, v)
    PROVE  PlanInv'
<1> DEFINE d == planKopya[planId]
<1>y. PICK y : y = [x \in BagAlan |-> IF x = f THEN v ELSE d[x]]
  OBVIOUS
<1>i. PICK i : i = [tur |-> "bagSil", plan |-> planId, yama |-> y]
  OBVIOUS
<1>1. /\ PlanTip /\ cekmece = Kapali /\ cekmece' = cekmece /\ cagri' = cagri \cup {i}
      /\ niyet' = [niyet EXCEPT ![planId][f] = v] /\ UNCHANGED <<sunucuPlan, planId>>
  BY <1>y, <1>i DEF BagimlilikDegistir, PlanInv
<1>s. planSebep \subseteq planSebep' /\ (planSebep' = {} =>
        /\ \A x \in BagAlan : d[x] = sunucuPlan[planId][x]
        /\ cagri = {})
  BY DEF BagimlilikDegistir, Not
<1>2. planId \in Plan /\ f \in GorevAlan /\ PlanlarMi(niyet)
  BY <1>1 DEF PlanTip, GorevAlan
<1>3. /\ PlanlarMi(niyet')
      /\ \A x \in GorevAlan : niyet'[planId][x] = IF x = f THEN v ELSE niyet[planId][x]
      /\ \A q \in Plan \ {planId} : niyet'[q] = niyet[q]
  <2>1. niyet' = [niyet EXCEPT ![planId][f] = v]
    BY <1>1
  <2>2. PICK g : g = [niyet[planId] EXCEPT ![f] = v]
    OBVIOUS
  <2>3. niyet' = [niyet EXCEPT ![planId] = g]
    BY <2>1, <2>2
  <2>4. niyet[planId] = [x \in GorevAlan |-> niyet[planId][x]]
    BY <1>2 DEF PlanlarMi
  <2>5. g = [x \in GorevAlan |-> g[x]] /\ \A x \in GorevAlan : g[x] = IF x = f THEN v ELSE niyet[planId][x]
    BY <1>2, <2>2, <2>4
  <2> HIDE DEF d
  <2>6. /\ PlanlarMi([niyet EXCEPT ![planId] = g]) /\ [niyet EXCEPT ![planId] = g][planId] = g
        /\ \A q \in Plan \ {planId} : [niyet EXCEPT ![planId] = g][q] = niyet[q]
    BY <1>2, <2>5, PlanYaz
  <2> QED BY <2>3, <2>5, <2>6
<1>4. CagriTipi(i) /\ i.tur = "bagSil" /\ i.plan = planId /\ i.yama = y
  BY <1>2, <1>y, <1>i DEF CagriTipi, BagliCagri
<1>5. PlanTip'
  BY <1>1, <1>3, <1>4 DEF PlanTip
<1>6. ASSUME planSebep' = {} PROVE PlanBagli'
  <2>1. /\ planSebep = {} /\ cagri = {}
        /\ \A q \in Plan : \A x \in GorevAlan : niyet[q][x] = sunucuPlan[q][x]
        /\ \A q \in Plan : niyet[q].ad # BosMetin /\ niyet[q].baslangicDk # BosMetin
    BY <1>s, <1>6 DEF PlanInv, PlanBagli
  <2>2. \A q \in Plan : niyet'[q].ad # BosMetin /\ niyet'[q].baslangicDk # BosMetin
    <3>1. \A x \in {"ad", "baslangicDk"} : x \in GorevAlan /\ x # f
      BY DEF GorevAlan, FormAlan, BagAlan
    <3>2. niyet'[planId].ad = niyet[planId].ad /\ niyet'[planId].baslangicDk = niyet[planId].baslangicDk
      BY <1>3, <3>1
    <3> QED BY <1>2, <1>3, <2>1, <3>2
  <2>3. CagriTamamlar(i)'
    <3>1. \A q \in Plan \ {planId} : \A x \in GorevAlan : niyet'[q][x] = sunucuPlan'[q][x]
      BY <1>1, <1>3, <2>1
    <3>2. \A x \in GorevAlan : niyet'[i.plan][x] = Yamali(i, x)'
      BY <1>1, <1>2, <1>3, <1>4, <1>s, <1>y, <1>6, <2>1 DEF Yamali
    <3> QED BY <1>4, <3>1, <3>2 DEF CagriTamamlar, BagliCagri
  <2> QED BY <1>1, <2>1, <2>2, <2>3 DEF PlanBagli, CekmeceGuncel
<1>7. planSebep' # {} => PlanBagli'
  BY DEF PlanBagli
<1> QED BY <1>5, <1>6, <1>7 DEF PlanInv

\* A promotion: the live plan is meant to be the scenario.
LEMMA TerfiInv == ASSUME PlanInv, PlanTerfi PROVE PlanInv'
<1>i. PICK i : i = [tur |-> "terfi", plan |-> planId]
  OBVIOUS
<1>1. /\ PlanTip /\ cekmece = Kapali /\ cekmece' = cekmece /\ cagri' = cagri \cup {i}
      /\ niyet' = [niyet EXCEPT !["canli"] = niyet["senaryo"]] /\ UNCHANGED <<sunucuPlan, planId>>
  BY <1>i DEF PlanTerfi, PlanInv
<1>s. planSebep \subseteq planSebep' /\ (planSebep' = {} => cagri = {})
  BY DEF PlanTerfi, Not
<1>2. PlanlarMi(niyet) /\ "canli" \in Plan /\ "senaryo" \in Plan \ {"canli"}
  BY <1>1 DEF PlanTip, Plan
<1>3. /\ PlanlarMi(niyet') /\ niyet'["canli"] = niyet["senaryo"]
      /\ \A q \in Plan \ {"canli"} : niyet'[q] = niyet[q]
  <2>1. niyet["senaryo"] = [x \in GorevAlan |-> niyet["senaryo"][x]]
    BY <1>2 DEF PlanlarMi
  <2> DEFINE N == [niyet EXCEPT !["canli"] = niyet["senaryo"]]
  <2>2. PlanlarMi(N) /\ N["canli"] = niyet["senaryo"] /\ \A q \in Plan \ {"canli"} : N[q] = niyet[q]
    BY <1>2, <2>1, PlanYaz
  <2>3. niyet' = N
    BY <1>1
  <2> HIDE DEF N
  <2> QED BY <2>2, <2>3
<1>4. CagriTipi(i) /\ i.tur = "terfi"
  BY <1>i DEF CagriTipi, BagliCagri
<1>5. PlanTip'
  BY <1>1, <1>3, <1>4 DEF PlanTip
<1>6. ASSUME planSebep' = {} PROVE PlanBagli'
  <2>1. /\ planSebep = {} /\ cagri = {}
        /\ \A q \in Plan : \A x \in GorevAlan : niyet[q][x] = sunucuPlan[q][x]
        /\ \A q \in Plan : niyet[q].ad # BosMetin /\ niyet[q].baslangicDk # BosMetin
    BY <1>s, <1>6 DEF PlanInv, PlanBagli
  <2>2. \A q \in Plan : niyet'[q].ad # BosMetin /\ niyet'[q].baslangicDk # BosMetin
    BY <1>2, <1>3, <2>1
  <2>3. CagriTamamlar(i)'
    BY <1>1, <1>2, <1>3, <1>4, <2>1 DEF CagriTamamlar
  <2> QED BY <1>1, <2>1, <2>2, <2>3 DEF PlanBagli, CekmeceGuncel
<1>7. planSebep' # {} => PlanBagli'
  BY DEF PlanBagli
<1> QED BY <1>5, <1>6, <1>7 DEF PlanInv

\* The server takes a save, or the addition of a dependency: the last of its edit.
LEMMA SonIslenir ==
    ASSUME PlanInv, NEW i \in cagri, KaydetIslenir(i) \/ BagEkleIslenir(i)
    PROVE  PlanInv'
<1>1. PlanTip /\ CagriTipi(i) /\ i.plan \in Plan /\ DOMAIN i.yama \subseteq GorevAlan
  BY DEF PlanInv, PlanTip, CagriTipi, BagliCagri, GorevAlan, KaydetIslenir, BagEkleIslenir
<1>2. /\ cagri' = cagri \ {i} /\ UNCHANGED <<cekmece, niyet, planId>> /\ planSebep \subseteq planSebep'
      /\ i.tur \in {"kaydet", "bagEkle"}
      /\ planSebep' = {} /\ i.tur = "kaydet" => ~i.eski
  BY DEF KaydetIslenir, BagEkleIslenir, Not
<1>3. \/ sunucuPlan' = [sunucuPlan EXCEPT ![i.plan] = GorevYamala(@, i.yama)]
      \/ sunucuPlan' = sunucuPlan /\ sunucuPlan[i.plan].tur # BosMetin /\ i.tur = "bagEkle"
  BY DEF KaydetIslenir, BagEkleIslenir
<1>4. /\ PlanlarMi(sunucuPlan')
      /\ \/ sunucuPlan' = sunucuPlan /\ sunucuPlan[i.plan].tur # BosMetin /\ i.tur = "bagEkle"
         \/ /\ \A x \in GorevAlan : sunucuPlan'[i.plan][x] = Yamali(i, x)
            /\ \A q \in Plan \ {i.plan} : sunucuPlan'[q] = sunucuPlan[q]
  <2> DEFINE N == [sunucuPlan EXCEPT ![i.plan] = GorevYamala(@, i.yama)]
  <2>1. PlanlarMi(sunucuPlan)
    BY <1>1 DEF PlanTip
  <2>2. /\ PlanlarMi(N)
        /\ \A x \in GorevAlan : N[i.plan][x] = IF x \in DOMAIN i.yama THEN i.yama[x] ELSE sunucuPlan[i.plan][x]
        /\ \A q \in Plan \ {i.plan} : N[q] = sunucuPlan[q]
    BY <1>1, <2>1, UstYaz
  <2> HIDE DEF N
  <2>3. CASE sunucuPlan' = N
    BY <2>2, <2>3 DEF Yamali
  <2> QED BY <1>3, <2>1, <2>3 DEF N
<1>5. PlanTip'
  BY <1>1, <1>2, <1>4 DEF PlanTip
<1>6. ASSUME planSebep' = {} PROVE PlanBagli'
  <2>1. /\ planSebep = {} /\ cagri = {i} /\ CagriTamamlar(i) /\ CekmeceGuncel
        /\ \A p \in Plan : niyet[p].ad # BosMetin /\ niyet[p].baslangicDk # BosMetin
    BY <1>2, <1>6 DEF PlanInv, PlanBagli
  <2>2. /\ \A q \in Plan \ {i.plan} : \A x \in GorevAlan : niyet[q][x] = sunucuPlan[q][x]
        /\ \A x \in GorevAlan : niyet[i.plan][x] = Yamali(i, x)
        /\ i.tur = "bagEkle" => sunucuPlan[i.plan].tur = BosMetin
    BY <1>2, <1>6, <2>1 DEF CagriTamamlar, BagliCagri
  <2>3. \A q \in Plan : \A x \in GorevAlan : niyet'[q][x] = sunucuPlan'[q][x]
    BY <1>1, <1>2, <1>4, <2>2
  <2>4. cagri' = {}
    BY <1>2, <2>1
  <2>5. CekmeceGuncel'
    BY <1>2, <2>1 DEF CekmeceGuncel
  <2> QED BY <1>2, <2>1, <2>3, <2>4, <2>5 DEF PlanBagli
<1>7. planSebep' # {} => PlanBagli'
  BY DEF PlanBagli
<1> QED BY <1>5, <1>6, <1>7 DEF PlanInv

\* The server removes the dependency that is to be changed.
LEMMA BagSilInv == ASSUME PlanInv, NEW i \in cagri, BagSilIslenir(i) PROVE PlanInv'
<1>1. /\ PlanTip /\ CagriTipi(i) /\ i.tur = "bagSil" /\ UNCHANGED <<cekmece, niyet, planId, planSebep>>
      /\ sunucuPlan' = [sunucuPlan EXCEPT ![i.plan].tur = BosMetin]
      /\ cagri' = (cagri \ {i}) \cup {[i EXCEPT !.tur = "bagEkle"]}
  BY DEF PlanInv, PlanTip, BagSilIslenir
<1>2. /\ i.plan \in Plan /\ DOMAIN i.yama = BagAlan /\ i = [tur |-> i.tur, plan |-> i.plan, yama |-> i.yama]
      /\ PlanlarMi(sunucuPlan)
  BY <1>1 DEF CagriTipi, BagliCagri, PlanTip
<1>j. PICK j : j = [i EXCEPT !.tur = "bagEkle"]
  OBVIOUS
<1>3. CagriTipi(j) /\ j.tur = "bagEkle" /\ j.plan = i.plan /\ j.yama = i.yama
  BY <1>2, <1>j DEF CagriTipi, BagliCagri
<1>4. /\ PlanlarMi(sunucuPlan')
      /\ \A x \in GorevAlan : sunucuPlan'[i.plan][x] = IF x = "tur" THEN BosMetin ELSE sunucuPlan[i.plan][x]
      /\ \A q \in Plan \ {i.plan} : sunucuPlan'[q] = sunucuPlan[q]
  <2>2. PICK g : g = [sunucuPlan[i.plan] EXCEPT !.tur = BosMetin]
    OBVIOUS
  <2>3. sunucuPlan' = [sunucuPlan EXCEPT ![i.plan] = g]
    BY <1>1, <2>2
  <2>4. sunucuPlan[i.plan] = [x \in GorevAlan |-> sunucuPlan[i.plan][x]]
    BY <1>2 DEF PlanlarMi
  <2>5. /\ g = [x \in GorevAlan |-> g[x]]
        /\ \A x \in GorevAlan : g[x] = IF x = "tur" THEN BosMetin ELSE sunucuPlan[i.plan][x]
    BY <2>2, <2>4
  <2>6. /\ PlanlarMi([sunucuPlan EXCEPT ![i.plan] = g]) /\ [sunucuPlan EXCEPT ![i.plan] = g][i.plan] = g
        /\ \A q \in Plan \ {i.plan} : [sunucuPlan EXCEPT ![i.plan] = g][q] = sunucuPlan[q]
    BY <1>2, <2>5, PlanYaz
  <2> QED BY <2>3, <2>5, <2>6
<1>5. PlanTip'
  BY <1>1, <1>3, <1>4, <1>j DEF PlanTip
<1>6. ASSUME planSebep' = {} PROVE PlanBagli'
  <2>1. /\ planSebep = {} /\ cagri = {i} /\ CagriTamamlar(i) /\ CekmeceGuncel
        /\ \A p \in Plan : niyet[p].ad # BosMetin /\ niyet[p].baslangicDk # BosMetin
    BY <1>1, <1>6 DEF PlanInv, PlanBagli
  <2>2. /\ \A q \in Plan \ {i.plan} : \A x \in GorevAlan : niyet[q][x] = sunucuPlan[q][x]
        /\ \A x \in GorevAlan : niyet[i.plan][x] = Yamali(i, x)
    BY <1>1, <2>1 DEF CagriTamamlar, BagliCagri
  <2>3. cagri' = {j}
    BY <1>1, <1>j, <2>1
  <2>4. "tur" \in BagAlan /\ "tur" \in GorevAlan
    BY DEF BagAlan, GorevAlan
  <2>5. CagriTamamlar(j)'
    <3>1. \A x \in GorevAlan : niyet'[j.plan][x] = Yamali(j, x)'
      BY <1>1, <1>2, <1>3, <1>4, <2>2, <2>4 DEF Yamali
    <3>2. \A q \in Plan \ {j.plan} : \A x \in GorevAlan : niyet'[q][x] = sunucuPlan'[q][x]
      BY <1>1, <1>3, <1>4, <2>2
    <3>3. sunucuPlan'[j.plan].tur = BosMetin
      BY <1>3, <1>4, <2>4
    <3> QED BY <1>3, <3>1, <3>2, <3>3 DEF CagriTamamlar, BagliCagri
  <2>6. CekmeceGuncel'
    BY <1>1, <1>3, <2>1, <2>3 DEF CekmeceGuncel
  <2> QED BY <1>1, <2>1, <2>3, <2>5, <2>6 DEF PlanBagli
<1>7. planSebep' # {} => PlanBagli'
  BY DEF PlanBagli
<1> QED BY <1>5, <1>6, <1>7 DEF PlanInv

\* A save or a drawer becomes old, and is what it was otherwise.
LEMMA EskitTip ==
    ASSUME NEW k, CagriTipi(k), k.tur = "kaydet"
    PROVE  LET z == [k EXCEPT !.eski = TRUE] IN
           CagriTipi(z) /\ z.tur = "kaydet" /\ z.plan = k.plan /\ z.eski = TRUE /\ z.yama = k.yama
<1> DEFINE z == [k EXCEPT !.eski = TRUE]
<1>1. /\ k.plan \in Plan /\ DOMAIN k.yama \subseteq FormAlan
      /\ k = [tur |-> k.tur, plan |-> k.plan, eski |-> k.eski, yama |-> k.yama]
  BY DEF CagriTipi, BagliCagri
<1>2. z = [tur |-> "kaydet", plan |-> k.plan, eski |-> TRUE, yama |-> k.yama]
  <2>1. PICK t, e : t = "kaydet" /\ e = TRUE
    OBVIOUS
  <2>2. k = [tur |-> t, plan |-> k.plan, eski |-> k.eski, yama |-> k.yama]
    BY <1>1, <2>1
  <2>3. [k EXCEPT !.eski = e] = [tur |-> t, plan |-> k.plan, eski |-> e, yama |-> k.yama]
    BY <2>2
  <2> QED BY <2>1, <2>3
<1> HIDE DEF z
<1>3. z.tur = "kaydet" /\ z.plan = k.plan /\ z.eski = TRUE /\ z.yama = k.yama
  BY <1>2
<1>4. CagriTipi(z)
  BY <1>1, <1>2, <1>3 DEF CagriTipi
<1> QED BY <1>3, <1>4 DEF z

\* A drawer whose plan changed under it is marked old.
LEMMA CekmeceEskir ==
    ASSUME NEW c, CekmeceTipi(c), NEW p
    PROVE  /\ CekmeceTipi(Eskit(c, p))
           /\ \/ Eskit(c, p) = c /\ (c \notin {Kapali, PlanBekler} => c.plan # p)
              \/ Eskit(c, p).eski = TRUE
<1>1. CASE c \notin {Kapali, PlanBekler} /\ c.plan = p
  <2>1. Eskit(c, p) = [c EXCEPT !.eski = TRUE]
    BY <1>1 DEF Eskit
  <2>2. c = [plan |-> c.plan, form |-> c.form, ilk |-> c.ilk, eski |-> c.eski] /\ c.plan \in Plan
    BY <1>1 DEF CekmeceTipi
  <2>3. Eskit(c, p) = [plan |-> c.plan, form |-> c.form, ilk |-> c.ilk, eski |-> TRUE]
    BY <2>1, <2>2
  <2> QED BY <2>2, <2>3 DEF CekmeceTipi
<1>2. CASE ~(c \notin {Kapali, PlanBekler} /\ c.plan = p)
  BY <1>2 DEF Eskit
<1> QED BY <1>1, <1>2

\* The server promotes the scenario; forms over the live plan become old.
LEMMA TerfiIslenirInv == ASSUME PlanInv, NEW i \in cagri, TerfiIslenir(i) PROVE PlanInv'
<1>j. PICK j : j = [i EXCEPT !.tur = "terfiOldu"]
  OBVIOUS
<1>1. /\ PlanTip /\ CagriTipi(i) /\ i.tur = "terfi" /\ UNCHANGED <<niyet, planId, planSebep>>
      /\ sunucuPlan' = [sunucuPlan EXCEPT !["canli"] = sunucuPlan["senaryo"]]
      /\ cagri' = EskitCagri(cagri \ {i}, "canli") \cup {j} /\ cekmece' = Eskit(cekmece, "canli")
  BY <1>j DEF PlanInv, PlanTip, TerfiIslenir
<1>2. /\ i = [tur |-> i.tur, plan |-> i.plan] /\ PlanlarMi(sunucuPlan)
      /\ "canli" \in Plan /\ "senaryo" \in Plan \ {"canli"}
  BY <1>1 DEF CagriTipi, BagliCagri, PlanTip, Plan
<1>3. CagriTipi(j) /\ j.tur = "terfiOldu"
  BY <1>2, <1>j DEF CagriTipi, BagliCagri
<1>4. /\ PlanlarMi(sunucuPlan') /\ sunucuPlan'["canli"] = sunucuPlan["senaryo"]
      /\ \A q \in Plan \ {"canli"} : sunucuPlan'[q] = sunucuPlan[q]
  <2>1. sunucuPlan["senaryo"] = [x \in GorevAlan |-> sunucuPlan["senaryo"][x]]
    BY <1>2 DEF PlanlarMi
  <2> DEFINE N == [sunucuPlan EXCEPT !["canli"] = sunucuPlan["senaryo"]]
  <2>2. PlanlarMi(N) /\ N["canli"] = sunucuPlan["senaryo"] /\ \A q \in Plan \ {"canli"} : N[q] = sunucuPlan[q]
    BY <1>2, <2>1, PlanYaz
  <2>3. sunucuPlan' = N
    BY <1>1
  <2> HIDE DEF N
  <2> QED BY <2>2, <2>3
<1>5. \A k \in EskitCagri(cagri \ {i}, "canli") : CagriTipi(k)
  BY <1>1, EskitTip DEF EskitCagri, PlanTip
<1>6. /\ CekmeceTipi(cekmece')
      /\ \/ cekmece' = cekmece /\ (cekmece \notin {Kapali, PlanBekler} => cekmece.plan # "canli")
         \/ cekmece'.eski = TRUE
  BY <1>1, CekmeceEskir DEF PlanTip
<1>7. PlanTip'
  BY <1>1, <1>3, <1>4, <1>5, <1>6 DEF PlanTip
<1>8. ASSUME planSebep' = {} PROVE PlanBagli'
  <2>1. /\ planSebep = {} /\ cagri = {i} /\ CagriTamamlar(i) /\ CekmeceGuncel
        /\ \A p \in Plan : niyet[p].ad # BosMetin /\ niyet[p].baslangicDk # BosMetin
    BY <1>1, <1>8 DEF PlanInv, PlanBagli
  <2>2. cagri' = {j}
    <3>1. cagri \ {i} = {}
      BY <2>1
    <3>2. EskitCagri({}, "canli") = {}
      BY DEF EskitCagri
    <3> QED BY <1>1, <3>1, <3>2
  <2>3. CagriTamamlar(j)'
    <3>1. \A x \in GorevAlan : /\ niyet["canli"][x] = sunucuPlan["senaryo"][x]
                              /\ niyet["senaryo"][x] = sunucuPlan["senaryo"][x]
      BY <1>1, <2>1 DEF CagriTamamlar, BagliCagri
    <3>2. \A p \in Plan : \A x \in GorevAlan : niyet'[p][x] = sunucuPlan'[p][x]
      BY <1>1, <1>2, <1>4, <3>1 DEF Plan
    <3> QED BY <1>3, <3>2 DEF CagriTamamlar
  <2>4. CekmeceGuncel'
    BY <1>1, <1>6, <2>1 DEF CekmeceGuncel
  <2> QED BY <1>1, <2>1, <2>2, <2>3, <2>4 DEF PlanBagli
<1>9. planSebep' # {} => PlanBagli'
  BY DEF PlanBagli
<1> QED BY <1>7, <1>8, <1>9 DEF PlanInv

\* The answer of a promotion takes the page to the live plan.
LEMMA TerfiCevapInv == ASSUME PlanInv, NEW i \in cagri, TerfiCevap(i) PROVE PlanInv'
<1>1. /\ PlanTip /\ i.tur = "terfiOldu" /\ UNCHANGED <<sunucuPlan, niyet, planSebep>>
      /\ cekmece' = Cekmece("canli", planKopya) /\ cagri' = cagri \ {i} /\ planId' = "canli"
  BY DEF PlanInv, TerfiCevap, TerfiBiter
<1>2. "canli" \in Plan
  BY DEF Plan
<1>3. PlanTip'
  <2>1. CekmeceTipi(cekmece')
    BY <1>1, <1>2, CekmeceSonra
  <2> QED BY <1>1, <1>2, <2>1 DEF PlanTip
<1>4. ASSUME planSebep' = {} PROVE PlanBagli'
  <2>1. /\ planSebep = {} /\ cagri = {i} /\ CagriTamamlar(i)
        /\ \A p \in Plan : niyet[p].ad # BosMetin /\ niyet[p].baslangicDk # BosMetin
    BY <1>1, <1>4 DEF PlanInv, PlanBagli
  <2>2. cagri' = {} /\ \A k \in cagri : k.tur # "terfi"
    BY <1>1, <2>1
  <2>3. \A p \in Plan : \A x \in GorevAlan : niyet'[p][x] = sunucuPlan'[p][x]
    BY <1>1, <2>1 DEF CagriTamamlar, BagliCagri
  <2>4. CekmeceGuncel'
    <3> DEFINE c == Cekmece("canli", planKopya)
    <3>1. c \notin {Kapali, PlanBekler} /\ ~c.eski => \A f \in FormAlan : c.ilk[f] = niyet[c.plan][f]
      BY <1>2, <2>1, <2>2, CekmeceSonra
    <3>2. cekmece' = c
      BY <1>1
    <3> HIDE DEF c
    <3> QED BY <1>1, <3>1, <3>2 DEF CekmeceGuncel
  <2> QED BY <1>1, <2>1, <2>2, <2>3, <2>4 DEF PlanBagli
<1>5. planSebep' # {} => PlanBagli'
  BY DEF PlanBagli
<1> QED BY <1>3, <1>4, <1>5 DEF PlanInv

LEMMA KoparInv == ASSUME PlanInv, NEW i \in cagri, CagriKopar(i) PROVE PlanInv'
<1>1. /\ PlanTip /\ planSebep' # {} /\ UNCHANGED <<sunucuPlan, niyet>> /\ cagri' = cagri \ {i}
      /\ \/ cekmece' = Cekmece("canli", planKopya) /\ planId' = "canli"
         \/ UNCHANGED <<cekmece, planId>>
  BY DEF PlanInv, CagriKopar, TerfiBiter
<1>2. "canli" \in Plan
  BY DEF Plan
<1>3. CekmeceTipi(cekmece') /\ planId' \in Plan
  BY <1>1, <1>2, CekmeceSonra DEF PlanTip
<1>4. PlanTip'
  BY <1>1, <1>3 DEF PlanTip
<1> QED BY <1>1, <1>4 DEF PlanInv, PlanBagli

\* An edit from elsewhere.
LEMMA DisKaydetInv ==
    ASSUME PlanInv, NEW p \in Plan, NEW f \in GorevAlan, NEW v, DisKaydet(p, f, v),
           f \in {"ad", "baslangicDk"} => v # BosMetin
    PROVE  PlanInv'
<1>1. /\ PlanTip /\ UNCHANGED planId /\ planSebep \subseteq planSebep'
      /\ sunucuPlan' = [sunucuPlan EXCEPT ![p][f] = v] /\ niyet' = [niyet EXCEPT ![p][f] = v]
      /\ cagri' = IF f \in FormAlan THEN EskitCagri(cagri, p) ELSE cagri
      /\ cekmece' = IF f \in FormAlan THEN Eskit(cekmece, p) ELSE cekmece
      /\ planSebep' = {} => \A i \in cagri : i.tur \notin {"bagSil", "bagEkle", "terfi"}
  BY DEF PlanInv, DisKaydet, Not
<1>2. PlanlarMi(sunucuPlan) /\ PlanlarMi(niyet) /\ CekmeceTipi(cekmece) /\ \A i \in cagri : CagriTipi(i)
  BY <1>1 DEF PlanTip
<1>3. /\ PlanlarMi(sunucuPlan')
      /\ \A x \in GorevAlan : sunucuPlan'[p][x] = IF x = f THEN v ELSE sunucuPlan[p][x]
      /\ \A q \in Plan \ {p} : sunucuPlan'[q] = sunucuPlan[q]
  <2>2. PICK g : g = [sunucuPlan[p] EXCEPT ![f] = v]
    OBVIOUS
  <2>3. sunucuPlan' = [sunucuPlan EXCEPT ![p] = g]
    BY <1>1, <2>2
  <2>4. sunucuPlan[p] = [x \in GorevAlan |-> sunucuPlan[p][x]]
    BY <1>2 DEF PlanlarMi
  <2>5. g = [x \in GorevAlan |-> g[x]] /\ \A x \in GorevAlan : g[x] = IF x = f THEN v ELSE sunucuPlan[p][x]
    BY <2>2, <2>4
  <2>6. /\ PlanlarMi([sunucuPlan EXCEPT ![p] = g]) /\ [sunucuPlan EXCEPT ![p] = g][p] = g
        /\ \A q \in Plan \ {p} : [sunucuPlan EXCEPT ![p] = g][q] = sunucuPlan[q]
    BY <1>2, <2>5, PlanYaz
  <2> QED BY <2>3, <2>5, <2>6
<1>4. /\ PlanlarMi(niyet')
      /\ \A x \in GorevAlan : niyet'[p][x] = IF x = f THEN v ELSE niyet[p][x]
      /\ \A q \in Plan \ {p} : niyet'[q] = niyet[q]
  <2>2. PICK g : g = [niyet[p] EXCEPT ![f] = v]
    OBVIOUS
  <2>3. niyet' = [niyet EXCEPT ![p] = g]
    BY <1>1, <2>2
  <2>4. niyet[p] = [x \in GorevAlan |-> niyet[p][x]]
    BY <1>2 DEF PlanlarMi
  <2>5. g = [x \in GorevAlan |-> g[x]] /\ \A x \in GorevAlan : g[x] = IF x = f THEN v ELSE niyet[p][x]
    BY <2>2, <2>4
  <2>6. /\ PlanlarMi([niyet EXCEPT ![p] = g]) /\ [niyet EXCEPT ![p] = g][p] = g
        /\ \A q \in Plan \ {p} : [niyet EXCEPT ![p] = g][q] = niyet[q]
    BY <1>2, <2>5, PlanYaz
  <2> QED BY <2>3, <2>5, <2>6
\* The calls in flight: those that save this plan's form become old.
<1>5. \A k \in cagri' : CagriTipi(k)
        /\ \E i \in cagri : \/ k = i /\ (f \in FormAlan => ~(i.tur = "kaydet" /\ i.plan = p))
                            \/ i.tur = "kaydet" /\ k.tur = "kaydet" /\ k.plan = i.plan /\ k.eski = TRUE
  <2>1. CASE f \notin FormAlan
    BY <1>1, <1>2, <2>1
  <2>2. CASE f \in FormAlan
    <3> SUFFICES ASSUME NEW k \in cagri'
                 PROVE  CagriTipi(k)
                        /\ \E i \in cagri : \/ k = i /\ ~(i.tur = "kaydet" /\ i.plan = p)
                                            \/ i.tur = "kaydet" /\ k.tur = "kaydet" /\ k.plan = i.plan /\ k.eski = TRUE
      OBVIOUS
    <3>1. PICK i \in cagri : k = IF i.tur = "kaydet" /\ i.plan = p THEN [i EXCEPT !.eski = TRUE] ELSE i
      BY <1>1, <2>2 DEF EskitCagri
    <3>2. CASE i.tur = "kaydet" /\ i.plan = p
      <4>1. k = [i EXCEPT !.eski = TRUE] /\ CagriTipi(i)
        BY <1>2, <3>1, <3>2
      <4> QED BY <3>2, <4>1, EskitTip
    <3>3. CASE ~(i.tur = "kaydet" /\ i.plan = p)
      BY <1>2, <3>1, <3>3
    <3> QED BY <3>2, <3>3
  <2> QED BY <2>1, <2>2
<1>6. /\ CekmeceTipi(cekmece')
      /\ \/ cekmece' = cekmece /\ (f \in FormAlan /\ cekmece \notin {Kapali, PlanBekler} => cekmece.plan # p)
         \/ cekmece'.eski = TRUE
  BY <1>1, <1>2, CekmeceEskir
<1>7. PlanTip'
  BY <1>1, <1>3, <1>4, <1>5, <1>6 DEF PlanTip
<1>8. ASSUME planSebep' = {} PROVE PlanBagli'
  <2>1. /\ planSebep = {} /\ (\A i, j \in cagri : i = j) /\ (\A i \in cagri : CagriTamamlar(i)) /\ CekmeceGuncel
        /\ \A i \in cagri : i.tur \notin {"bagSil", "bagEkle", "terfi"}
        /\ cagri = {} => \A q \in Plan : \A x \in GorevAlan : niyet[q][x] = sunucuPlan[q][x]
        /\ \A q \in Plan : niyet[q].ad # BosMetin /\ niyet[q].baslangicDk # BosMetin
    BY <1>1, <1>8 DEF PlanInv, PlanBagli
  <2>2. \A q \in Plan : niyet'[q].ad # BosMetin /\ niyet'[q].baslangicDk # BosMetin
    <3>1. \A x \in {"ad", "baslangicDk"} : x \in GorevAlan
      BY DEF GorevAlan, FormAlan
    <3>2. \A x \in {"ad", "baslangicDk"} : niyet'[p][x] # BosMetin
      BY <1>4, <2>1, <3>1
    <3> QED BY <1>4, <2>1, <3>2
  <2>3. \A k, l \in cagri' : k = l
    <3>1. cagri' = cagri \/ cagri' = EskitCagri(cagri, p)
      BY <1>1
    <3>2. CASE cagri' = EskitCagri(cagri, p)
      <4> SUFFICES ASSUME NEW k \in EskitCagri(cagri, p), NEW l \in EskitCagri(cagri, p) PROVE k = l
        BY <3>2
      <4> DEFINE e(i) == IF i.tur = "kaydet" /\ i.plan = p THEN [i EXCEPT !.eski = TRUE] ELSE i
      <4>1. PICK i, j \in cagri : k = e(i) /\ l = e(j)
        BY DEF EskitCagri
      <4> HIDE DEF e
      <4> QED BY <2>1, <4>1
    <3> QED BY <2>1, <3>1, <3>2
  <2>4. cagri' = {} => \A q \in Plan : \A x \in GorevAlan : niyet'[q][x] = sunucuPlan'[q][x]
    <3>1. cagri' = {} => cagri = {}
      BY <1>1 DEF EskitCagri
    <3> QED BY <1>3, <1>4, <2>1, <3>1
  <2>5. ASSUME NEW k \in cagri' PROVE CagriTamamlar(k)'
    <3>1. PICK i \in cagri : \/ k = i /\ (f \in FormAlan => ~(i.tur = "kaydet" /\ i.plan = p))
                             \/ i.tur = "kaydet" /\ k.tur = "kaydet" /\ k.plan = i.plan /\ k.eski = TRUE
      BY <1>5
    <3>2. CagriTamamlar(i) /\ i.tur \notin {"bagSil", "bagEkle", "terfi"} /\ CagriTipi(i)
      BY <1>2, <2>1
    <3>3. CASE i.tur = "terfiOldu"
      <4>1. \A q \in Plan : \A x \in GorevAlan : niyet[q][x] = sunucuPlan[q][x]
        BY <3>2, <3>3 DEF CagriTamamlar, BagliCagri
      <4>2. \A q \in Plan : \A x \in GorevAlan : niyet'[q][x] = sunucuPlan'[q][x]
        BY <1>3, <1>4, <4>1
      <4> QED BY <3>1, <3>3, <4>2 DEF CagriTamamlar
    <3>4. CASE i.tur = "kaydet"
      <4>1. /\ \A q \in Plan \ {i.plan} : \A x \in GorevAlan : niyet[q][x] = sunucuPlan[q][x]
            /\ ~i.eski => \A x \in GorevAlan : niyet[i.plan][x] = Yamali(i, x)
            /\ i.plan \in Plan /\ DOMAIN i.yama \subseteq FormAlan
        BY <3>2, <3>4 DEF CagriTamamlar, CagriTipi, BagliCagri
      <4>2. \A q \in Plan \ {k.plan} : \A x \in GorevAlan : niyet'[q][x] = sunucuPlan'[q][x]
        BY <1>3, <1>4, <3>1, <4>1
      <4>3. ASSUME ~k.eski PROVE \A x \in GorevAlan : niyet'[k.plan][x] = Yamali(k, x)'
        <5>1. k = i /\ (f \in FormAlan => i.plan # p)
          BY <3>1, <3>4, <4>3
        <5>2. CASE i.plan = p
          BY <1>3, <1>4, <4>1, <4>3, <5>1, <5>2 DEF Yamali
        <5>3. CASE i.plan # p
          BY <1>3, <1>4, <4>1, <4>3, <5>1, <5>3 DEF Yamali
        <5> QED BY <5>2, <5>3
      <4> QED BY <3>1, <3>4, <4>2, <4>3 DEF CagriTamamlar
    <3> QED BY <3>2, <3>3, <3>4 DEF CagriTipi, BagliCagri
  <2>6. CekmeceGuncel'
    <3>1. \A x \in FormAlan : x \in GorevAlan /\ x \notin BagAlan
      BY DEF GorevAlan, FormAlan, BagAlan
    <3>2. \A i \in cagri : i.tur # "terfi"
      BY <2>1
    <3>3. CASE cekmece' = cekmece /\ (f \in FormAlan /\ cekmece \notin {Kapali, PlanBekler} => cekmece.plan # p)
      <4>1. ASSUME cekmece \notin {Kapali, PlanBekler}, ~cekmece.eski, NEW x \in FormAlan
            PROVE  cekmece.ilk[x] = niyet'[cekmece.plan][x]
        <5>1. cekmece.ilk[x] = niyet[cekmece.plan][x] /\ cekmece.plan \in Plan
          BY <1>2, <2>1, <3>2, <4>1 DEF CekmeceGuncel, CekmeceTipi
        <5>2. cekmece.plan # p \/ x # f
          BY <3>3, <4>1
        <5> QED BY <1>4, <3>1, <5>1, <5>2
      <4> QED BY <3>3, <4>1 DEF CekmeceGuncel
    <3>4. CASE cekmece'.eski = TRUE
      BY <3>4 DEF CekmeceGuncel
    <3> QED BY <1>6, <3>3, <3>4
  <2> QED BY <2>2, <2>3, <2>4, <2>5, <2>6 DEF PlanBagli
<1>9. planSebep' # {} => PlanBagli'
  BY DEF PlanBagli
<1> QED BY <1>7, <1>8, <1>9 DEF PlanInv

LEMMA PlanAdim == ASSUME PlanInv, [PlanNext]_planVars PROVE PlanInv'
<1>1. CASE UNCHANGED planVars
  <2>1. /\ UNCHANGED <<sunucuPlan, cagri, niyet, planId, planSebep, cekmece>>
        /\ PlanTip /\ (planSebep = {} => CekmeceGuncel)
    BY <1>1 DEF planVars, PlanInv, PlanBagli
  <2> QED BY <2>1, CekmeceDegisir DEF CekmeceGuncel, PlanTip
<1>2. ASSUME NEW v, BagimlilikDegistir("tur", v) \/ BagimlilikDegistir("gecikmeDk", v) PROVE PlanInv'
  <2>1. "tur" \in BagAlan /\ "gecikmeDk" \in BagAlan
    BY DEF BagAlan
  <2> QED BY <1>2, <2>1, BagimlilikInv
<1>3. ASSUME NEW i \in cagri,
             \/ KaydetIslenir(i) \/ BagSilIslenir(i) \/ BagEkleIslenir(i)
             \/ TerfiIslenir(i) \/ TerfiCevap(i) \/ CagriKopar(i)
      PROVE  PlanInv'
  BY <1>3, SonIslenir, BagSilInv, TerfiIslenirInv, TerfiCevapInv, KoparInv
<1>4. ASSUME NEW p \in Plan,
             \/ \E f \in FormAlan : \E v \in FormDeger[f] : DisKaydet(p, f, v)
             \/ \E v \in {"FS", "SS"} : DisKaydet(p, "tur", v)
             \/ \E v \in {"0", "5"} : DisKaydet(p, "gecikmeDk", v)
      PROVE  PlanInv'
  <2>1. "tur" \in GorevAlan /\ "gecikmeDk" \in GorevAlan /\ FormAlan \subseteq GorevAlan
    BY DEF GorevAlan, BagAlan
  <2>2. ASSUME NEW f \in FormAlan, NEW v \in FormDeger[f], DisKaydet(p, f, v) PROVE PlanInv'
    BY <2>1, <2>2, DisKaydetInv, PlanSayfaVarsayim
  <2>3. ASSUME NEW v, DisKaydet(p, "tur", v) \/ DisKaydet(p, "gecikmeDk", v) PROVE PlanInv'
    BY <2>1, <2>3, DisKaydetInv
  <2> QED BY <1>4, <2>2, <2>3
<1>5. CASE GorevKaydet \/ PlanTerfi
  BY <1>5, KaydetInv, TerfiInv
<1>6. CASE \/ GorevAc \/ GorevKapat \/ PlanTazele \/ KopyaUnut
           \/ \E f \in FormAlan : \E v \in FormDeger[f] \cup {BosMetin} : FormYaz(f, v)
           \/ \E p \in Plan : PlanSec(p)
  BY <1>6, PlanSade
<1> QED BY <1>1, <1>2, <1>3, <1>4, <1>5, <1>6 DEF PlanNext

LEMMA PlanSonuc == PlanInv => FormSebepli
<1> SUFFICES ASSUME PlanInv, planSebep = {}, cagri = {} PROVE sunucuPlan = niyet
  BY DEF FormSebepli
<1>1. PlanlarMi(sunucuPlan) /\ PlanlarMi(niyet)
      /\ \A p \in Plan : \A x \in GorevAlan : niyet[p][x] = sunucuPlan[p][x]
  BY DEF PlanInv, PlanTip, PlanBagli
<1>2. ASSUME NEW p \in Plan PROVE sunucuPlan[p] = niyet[p]
  <2>1. sunucuPlan[p] = [x \in GorevAlan |-> sunucuPlan[p][x]] /\ niyet[p] = [x \in GorevAlan |-> niyet[p][x]]
    BY <1>1 DEF PlanlarMi
  <2> QED BY <1>1, <2>1
<1>3. sunucuPlan = [p \in Plan |-> sunucuPlan[p]] /\ niyet = [p \in Plan |-> niyet[p]]
  BY <1>1 DEF PlanlarMi
<1> QED BY <1>2, <1>3

\* Once every call is answered, the server's plans are what everybody's edits
\* make them, field by field, unless one of the named causes happened: for
\* every form and every number of edits.
THEOREM FormOnlyByCause == PlanSpec => []FormSebepli
<1>1. PlanInit => PlanInv
  BY PlanIlk
<1>2. PlanInv /\ [PlanNext]_planVars => PlanInv'
  BY PlanAdim
<1>3. PlanInv => FormSebepli
  BY PlanSonuc
<1> QED BY <1>1, <1>2, <1>3, PTL DEF PlanSpec

-----------------------------------------------------------------------------
(***************************************************************************)
(* DocumentPages.                                                          *)
(***************************************************************************)
Belgeler == Tur \X Kimlik
Siralar == [sayfa : Nat, ornek : Nat, surum : Nat, yukleme : Nat, kayit : Nat]

YuklemeBicimi(y) ==
    y = [belge |-> y.belge, icerik |-> y.icerik, no |-> y.no, sayfa |-> y.sayfa, ornek |-> y.ornek,
         gotur |-> y.gotur]

BelgeTip ==
    /\ DOMAIN slice = Tur /\ DOMAIN son = Belgeler /\ DOMAIN sunucu = Belgeler
    /\ sayfa = [tur |-> sayfa.tur, id |-> sayfa.id, hata |-> sayfa.hata]
    /\ sayfa.tur \in Tur => sayfa.id \in Kimlik
    /\ sira \in Siralar
    /\ \A k \in kayit : k.belge \in Belgeler

\* A load knows what the server has, and was sent by a page visited before.
YuklemeTipi(y) ==
    /\ YuklemeBicimi(y)
    /\ y.belge \in Belgeler /\ y.gotur \in BOOLEAN
    /\ sunucu[y.belge] \in y.icerik
    /\ y.sayfa \in Nat /\ y.sayfa <= sira.sayfa

YuklemeTip == \A y \in yukleme : YuklemeTipi(y)

\* The page's own load.
Kendi(y) == ~y.gotur /\ y.sayfa = sira.sayfa

\* What the operator last made of d is saved, on its way, or deleted on purpose.
Sakli(d) ==
    \/ \E k \in kayit : k.belge = d /\ k.surum \in {son[d], Bulunmaz}
    \/ (\A k \in kayit : k.belge # d) /\ sunucu[d] \in {son[d], Bulunmaz}

BelgeBagli ==
    kayipNedeni = {} =>
        /\ \A t \in Tur : slice[t].present.id \in Kimlik =>
               slice[t].present.surum = son[<<t, slice[t].present.id>>]
        /\ \A t \in Tur : \A id \in Kimlik :
               id # slice[t].present.id /\ son[<<t, id>>] # Bulunmaz => Sakli(<<t, id>>)
        /\ \A k, l \in kayit : k.belge = l.belge => k = l
        /\ \A y \in yukleme : Kendi(y) =>
               y.belge = <<sayfa.tur, sayfa.id>> /\ ~StoreMatchesUrl(slice, sayfa)
        /\ \A y, z \in yukleme : Kendi(y) /\ Kendi(z) => y = z

BelgeInv == BelgeTip /\ YuklemeTip /\ BelgeBagli

LEMMA BelgeIlk == BelgeInit => BelgeInv
<1> SUFFICES ASSUME BelgeInit PROVE BelgeInv
  OBVIOUS
<1>1. BelgeTip
  BY BelgeVarsayim DEF BelgeInit, BelgeTip, Belgeler, Siralar, Ev
<1>2. YuklemeTip
  BY DEF BelgeInit, YuklemeTip
<1>3. BelgeBagli
  BY BelgeVarsayim DEF BelgeInit, BelgeBagli, BosBelge, Belgeler
<1> QED BY <1>1, <1>2, <1>3 DEF BelgeInv

\* One save of a document on its way: that is what will be saved of it.
LEMMA KaydedilenSakli ==
    ASSUME NEW d, \A k, l \in kayit : k.belge = l.belge => k = l, Kaydedilen(d) = son[d]
    PROVE  Sakli(d)
<1>1. CASE \E k \in kayit : k.belge = d
  <2>1. PICK k \in kayit : k.belge = d
    BY <1>1
  <2>2. (CHOOSE m \in kayit : m.belge = d) \in kayit /\ (CHOOSE m \in kayit : m.belge = d).belge = d
    BY <2>1
  <2>3. Kaydedilen(d) = k.surum
    BY <2>1, <2>2 DEF Kaydedilen
  <2> QED BY <2>1, <2>3 DEF Sakli
<1>2. CASE \A k \in kayit : k.belge # d
  BY <1>2 DEF Kaydedilen, Sakli
<1> QED BY <1>1, <1>2

\* The load a page sends when it does not show its document.
YeniYukleme(z, sl, p, no) ==
    /\ YuklemeBicimi(z)
    /\ z.belge = <<p.tur, p.id>> /\ z.icerik = {sunucu[z.belge]} /\ z.gotur = FALSE
    /\ z.sayfa = no.sayfa
    /\ p.tur \in Tur /\ ~StoreMatchesUrl(sl, p)
    /\ p.tur # sayfa.tur \/ p.id # sayfa.id \/ StoreMatchesUrl(slice, p)

\* The effects of a new page, or of new slices under the same page.
LEMMA RenderSon ==
    ASSUME NEW sl, NEW p, NEW no, NEW kalan, Render(sl, p, no, kalan),
           no \in Siralar,
           p = [tur |-> p.tur, id |-> p.id, hata |-> p.hata]
    PROVE  /\ slice' = sl
           /\ sayfa'.tur = p.tur /\ sayfa'.id = p.id
           /\ sayfa' = [tur |-> sayfa'.tur, id |-> sayfa'.id, hata |-> sayfa'.hata]
           /\ sira' \in Siralar
           /\ sira'.sayfa = no.sayfa
           /\ \/ yukleme' = kalan
              \/ \E z : YeniYukleme(z, sl, p, no) /\ yukleme' = kalan \cup {z}
<1> DEFINE yeniOrnek == p.tur # sayfa.tur
           degisti == yeniOrnek \/ p.id # sayfa.id \/ StoreMatchesUrl(sl, p) # StoreMatchesUrl(slice, p)
           yukler == degisti /\ Yuklenir(sl, p)
           no1 == IF yeniOrnek THEN [no EXCEPT !.ornek = @ + 1] ELSE no
           z == [belge |-> <<p.tur, p.id>>, icerik |-> {sunucu[<<p.tur, p.id>>]}, no |-> no.yukleme,
                 sayfa |-> no.sayfa, ornek |-> no1.ornek, gotur |-> FALSE]
<1>1. /\ slice' = sl
      /\ sayfa' = IF yukler THEN [p EXCEPT !.hata = FALSE] ELSE p
      /\ sira' = IF yukler THEN [no1 EXCEPT !.yukleme = @ + 1] ELSE no1
      /\ yukleme' = IF yukler THEN kalan \cup {z} ELSE kalan
  BY DEF Render
<1>2. yukler => /\ p.tur \in Tur /\ ~StoreMatchesUrl(sl, p)
                /\ p.tur # sayfa.tur \/ p.id # sayfa.id \/ StoreMatchesUrl(slice, p)
  BY DEF Yuklenir, StoreMatchesUrl
<1>3. no1 \in Siralar /\ no1.sayfa = no.sayfa
  BY DEF Siralar
<1> HIDE DEF no1, yukler
<1>4. /\ sira' \in Siralar
      /\ sira'.sayfa = no.sayfa
  BY <1>1, <1>3 DEF Siralar
<1>5. /\ sayfa'.tur = p.tur /\ sayfa'.id = p.id
      /\ sayfa' = [tur |-> sayfa'.tur, id |-> sayfa'.id, hata |-> sayfa'.hata]
  <2>1. CASE yukler
    <3>1. sayfa' = [tur |-> p.tur, id |-> p.id, hata |-> FALSE]
      BY <1>1, <2>1
    <3> QED BY <3>1
  <2>2. CASE ~yukler
    BY <1>1, <2>2
  <2> QED BY <2>1, <2>2
<1>6. /\ YuklemeBicimi(z)
      /\ z.belge = <<p.tur, p.id>> /\ z.icerik = {sunucu[z.belge]} /\ z.gotur = FALSE /\ z.sayfa = no.sayfa
  BY DEF YuklemeBicimi
<1> HIDE DEF z
<1>7. yukler => YeniYukleme(z, sl, p, no)
  BY <1>2, <1>6 DEF YeniYukleme
<1> QED BY <1>1, <1>4, <1>5, <1>7

\* A page, or the same page over new slices.
LEMMA RenderTip ==
    ASSUME BelgeTip, YuklemeTip, NEW sl, NEW p, NEW no, NEW kalan, Render(sl, p, no, kalan),
           no \in Siralar, sira.sayfa <= no.sayfa, kalan \subseteq yukleme,
           p = [tur |-> p.tur, id |-> p.id, hata |-> p.hata], p.tur \in Tur => p.id \in Kimlik,
           DOMAIN sl = Tur, DOMAIN son' = Belgeler, UNCHANGED <<kayit, sunucu>>
    PROVE  BelgeTip' /\ YuklemeTip'
<1>1. /\ slice' = sl
      /\ sayfa'.tur = p.tur /\ sayfa'.id = p.id
      /\ sayfa' = [tur |-> sayfa'.tur, id |-> sayfa'.id, hata |-> sayfa'.hata]
      /\ sira' \in Siralar /\ sira'.sayfa = no.sayfa
  BY RenderSon
<1>2. BelgeTip'
  BY <1>1 DEF BelgeTip
<1>3. sira'.sayfa \in Nat /\ sira.sayfa \in Nat /\ sira.sayfa <= sira'.sayfa
  BY <1>1 DEF BelgeTip, Siralar
<1>4. ASSUME NEW y \in kalan PROVE YuklemeTipi(y)'
  <2>1. YuklemeTipi(y)
    BY <1>4 DEF YuklemeTip
  <2> QED BY <2>1, <1>3 DEF YuklemeTipi, YuklemeBicimi
<1>5. CASE yukleme' = kalan
  BY <1>2, <1>4, <1>5 DEF YuklemeTip
<1>6. CASE yukleme' # kalan
  <2>1. PICK z : YeniYukleme(z, sl, p, no) /\ yukleme' = kalan \cup {z}
    BY <1>6, RenderSon
  <2>2. YuklemeTipi(z)'
    <3>1. z.belge \in Belgeler /\ z.gotur \in BOOLEAN
      BY <2>1 DEF YeniYukleme, Belgeler
    <3>2. sunucu'[z.belge] \in z.icerik
      BY <2>1 DEF YeniYukleme
    <3>3. z.sayfa \in Nat /\ z.sayfa <= sira'.sayfa
      BY <1>1, <1>3, <2>1 DEF YeniYukleme, Siralar
    <3> QED BY <2>1, <3>1, <3>2, <3>3 DEF YeniYukleme, YuklemeTipi, YuklemeBicimi
  <2>3. YuklemeTip'
    BY <1>4, <2>1, <2>2 DEF YuklemeTip
  <2> QED BY <1>2, <2>3
<1> QED BY <1>5, <1>6

\* When none of the loads left is the page's own, the only one can be the new one.
LEMMA RenderKendi ==
    ASSUME NEW sl, NEW p, NEW no, NEW kalan, Render(sl, p, no, kalan), no \in Siralar,
           p = [tur |-> p.tur, id |-> p.id, hata |-> p.hata],
           \A y \in kalan : ~(~y.gotur /\ y.sayfa = no.sayfa)
    PROVE  /\ slice' = sl /\ sayfa'.tur = p.tur /\ sayfa'.id = p.id
           /\ \A y \in yukleme' : Kendi(y)' =>
                  y.belge = <<sayfa'.tur, sayfa'.id>> /\ ~StoreMatchesUrl(slice', sayfa')
           /\ \A y, z \in yukleme' : Kendi(y)' /\ Kendi(z)' => y = z
<1>1. slice' = sl /\ sayfa'.tur = p.tur /\ sayfa'.id = p.id /\ sira'.sayfa = no.sayfa
  BY RenderSon
<1>2. \A y \in kalan : ~Kendi(y)'
  BY <1>1 DEF Kendi
<1>3. CASE yukleme' = kalan
  BY <1>1, <1>2, <1>3
<1>4. CASE yukleme' # kalan
  <2>1. PICK z : YeniYukleme(z, sl, p, no) /\ yukleme' = kalan \cup {z}
    BY <1>4, RenderSon
  <2>2. ~StoreMatchesUrl(slice', sayfa')
    BY <1>1, <2>1 DEF YeniYukleme, StoreMatchesUrl
  <2> QED BY <1>1, <1>2, <2>1, <2>2 DEF YeniYukleme
<1> QED BY <1>3, <1>4

\* The page goes on showing its document.
LEMMA BelgeSurer ==
    ASSUME BelgeInv, NEW sl, NEW no, Render(sl, sayfa, no, yukleme), Gosterir,
           no \in Siralar, no.sayfa = sira.sayfa, DOMAIN sl = Tur, DOMAIN son' = Belgeler,
           UNCHANGED <<kayit, sunucu>>,
           kayipNedeni' = {} =>
               /\ kayipNedeni = {}
               /\ sl[sayfa.tur].present.id = sayfa.id
               /\ \A u \in Tur \ {sayfa.tur} : sl[u].present = slice[u].present
               /\ son' = [son EXCEPT ![<<sayfa.tur, sayfa.id>>] = sl[sayfa.tur].present.surum]
    PROVE  BelgeInv'
<1> DEFINE t == sayfa.tur
           d == <<sayfa.tur, sayfa.id>>
<1>1. /\ BelgeTip /\ YuklemeTip /\ t \in Tur /\ sayfa.id \in Kimlik /\ slice[t].present.id = sayfa.id
      /\ sayfa = [tur |-> sayfa.tur, id |-> sayfa.id, hata |-> sayfa.hata] /\ DOMAIN son = Belgeler
      /\ sira.sayfa \in Nat /\ StoreMatchesUrl(slice, sayfa)
  BY DEF BelgeInv, BelgeTip, Gosterir, StoreMatchesUrl, Siralar
<1>2. BelgeTip' /\ YuklemeTip'
  BY <1>1, RenderTip
<1>3. ASSUME kayipNedeni' = {} PROVE BelgeBagli'
  <2>0. /\ kayipNedeni = {}
        /\ sl[sayfa.tur].present.id = sayfa.id
        /\ \A u \in Tur \ {sayfa.tur} : sl[u].present = slice[u].present
        /\ son' = [son EXCEPT ![<<sayfa.tur, sayfa.id>>] = sl[sayfa.tur].present.surum]
    BY <1>3
  <2>1. \A y \in yukleme : ~(~y.gotur /\ y.sayfa = no.sayfa)
    BY <1>1, <2>0 DEF BelgeInv, BelgeBagli, Kendi
  <2>2. /\ slice' = sl /\ sayfa'.tur = t /\ sayfa'.id = sayfa.id
        /\ \A y \in yukleme' : Kendi(y)' =>
               y.belge = <<sayfa'.tur, sayfa'.id>> /\ ~StoreMatchesUrl(slice', sayfa')
        /\ \A y, z \in yukleme' : Kendi(y)' /\ Kendi(z)' => y = z
    BY <1>1, <2>1, RenderKendi
  <2>3. ASSUME NEW u \in Tur, slice'[u].present.id \in Kimlik
        PROVE  slice'[u].present.surum = son'[<<u, slice'[u].present.id>>]
    BY <1>1, <2>0, <2>2, <2>3 DEF BelgeInv, BelgeBagli, Belgeler
  <2>4. ASSUME NEW u \in Tur, NEW id \in Kimlik, id # slice'[u].present.id, son'[<<u, id>>] # Bulunmaz
        PROVE  Sakli(<<u, id>>)'
    <3>1. <<u, id>> # d /\ id # slice[u].present.id /\ son'[<<u, id>>] = son[<<u, id>>]
      BY <1>1, <2>0, <2>2, <2>4 DEF Belgeler
    <3>2. Sakli(<<u, id>>)
      BY <2>0, <2>4, <3>1 DEF BelgeInv, BelgeBagli
    <3> QED BY <3>1, <3>2 DEF Sakli
  <2> QED BY <2>0, <2>2, <2>3, <2>4 DEF BelgeBagli, BelgeInv
<1>4. BelgeBagli'
  BY <1>3 DEF BelgeBagli
<1> QED BY <1>2, <1>4 DEF BelgeInv

\* Document <<t, id>>, with content c, takes the place of what its slice showed:
\* that was not abandoned unsaved.
LEMMA BelgeGelir ==
    ASSUME BelgeTip, BelgeBagli, kayipNedeni = {}, NEW t \in Tur, NEW id \in Kimlik, NEW c, NEW kalanlar,
           "yok" \in kalanlar, kalanlar \subseteq {"yok", id}, Terk(t, kalanlar) = {},
           slice'[t].present = [id |-> id, surum |-> c],
           \A u \in Tur \ {t} : slice'[u].present = slice[u].present,
           DOMAIN son' = Belgeler, son'[<<t, id>>] = c,
           \A d \in Belgeler \ {<<t, id>>} : son'[d] = son[d], UNCHANGED <<kayit, sunucu>>
    PROVE  /\ \A u \in Tur : slice'[u].present.id \in Kimlik =>
                  slice'[u].present.surum = son'[<<u, slice'[u].present.id>>]
           /\ \A u \in Tur : \A i \in Kimlik :
                  i # slice'[u].present.id /\ son'[<<u, i>>] # Bulunmaz => Sakli(<<u, i>>)'
           /\ \A k, l \in kayit' : k.belge = l.belge => k = l
<1>1. /\ \A u \in Tur : slice[u].present.id \in Kimlik =>
             slice[u].present.surum = son[<<u, slice[u].present.id>>]
      /\ \A u \in Tur : \A i \in Kimlik : i # slice[u].present.id /\ son[<<u, i>>] # Bulunmaz => Sakli(<<u, i>>)
      /\ \A k, l \in kayit : k.belge = l.belge => k = l
  BY DEF BelgeBagli
<1>2. ASSUME NEW u \in Tur, slice'[u].present.id \in Kimlik
      PROVE  slice'[u].present.surum = son'[<<u, slice'[u].present.id>>]
  <2>1. CASE u = t
    BY <2>1
  <2>2. CASE u # t
    BY <1>1, <1>2, <2>2 DEF Belgeler
  <2> QED BY <2>1, <2>2
<1>3. ASSUME NEW u \in Tur, NEW i \in Kimlik, i # slice'[u].present.id, son'[<<u, i>>] # Bulunmaz
      PROVE  Sakli(<<u, i>>)'
  <2>1. <<u, i>> \in Belgeler /\ <<u, i>> # <<t, id>> /\ son'[<<u, i>>] = son[<<u, i>>]
    BY <1>3 DEF Belgeler
  <2>2. Sakli(<<u, i>>)
    <3>1. CASE i # slice[u].present.id
      BY <1>1, <1>3, <2>1, <3>1
    <3>2. CASE i = slice[u].present.id
      <4>1. u = t
        BY <1>3, <3>2
      <4>2. i \notin kalanlar
        <5>1. i # id
          BY <1>3, <4>1
        <5> QED BY <5>1, BelgeVarsayim
      <4>3. Kaydedilen(<<u, i>>) = son[<<u, i>>]
        BY <3>2, <4>1, <4>2 DEF Terk
      <4> QED BY <1>1, <4>3, KaydedilenSakli
    <3> QED BY <3>1, <3>2
  <2> QED BY <2>1, <2>2 DEF Sakli
<1>4. \A k, l \in kayit' : k.belge = l.belge => k = l
  BY <1>1
<1> QED BY <1>2, <1>3, <1>4

LEMMA BelgeGit == BelgeInv /\ Git => BelgeInv'
<1> SUFFICES ASSUME BelgeInv, Git PROVE BelgeInv'
  OBVIOUS
<1>1. BelgeTip /\ YuklemeTip /\ sira \in Siralar /\ sira.sayfa \in Nat
  BY DEF BelgeInv, BelgeTip, Siralar
<1>2. PICK p \in {Adres(t, id) : t \in Tur, id \in Kimlik} \cup {Ev} : Render(slice, p, Ziyaret(sira), yukleme)
  BY DEF Git
<1>3. p = [tur |-> p.tur, id |-> p.id, hata |-> p.hata] /\ (p.tur \in Tur => p.id \in Kimlik)
  <2>1. CASE p = Ev
    BY <2>1, BelgeVarsayim DEF Ev
  <2>2. CASE p # Ev
    <3>1. PICK t \in Tur, id \in Kimlik : p = Adres(t, id)
      BY <2>2
    <3> QED BY <3>1 DEF Adres
  <2> QED BY <2>1, <2>2
<1>4. /\ Ziyaret(sira) \in Siralar /\ Ziyaret(sira).sayfa = sira.sayfa + 1 /\ sira.sayfa <= sira.sayfa + 1
  BY <1>1 DEF Ziyaret, Siralar
<1>5. UNCHANGED <<kayit, sunucu, son, kayipNedeni>>
  BY DEF Git
<1>6. BelgeTip' /\ YuklemeTip'
  <2>1. DOMAIN slice = Tur /\ DOMAIN son' = Belgeler
    BY <1>1, <1>5 DEF BelgeTip
  <2> QED BY <1>1, <1>2, <1>3, <1>4, <1>5, <2>1, RenderTip
<1>7. \A y \in yukleme : ~(~y.gotur /\ y.sayfa = Ziyaret(sira).sayfa)
  BY <1>1, <1>4 DEF YuklemeTip, YuklemeTipi
<1>8. /\ slice' = slice
      /\ \A y \in yukleme' : Kendi(y)' =>
             y.belge = <<sayfa'.tur, sayfa'.id>> /\ ~StoreMatchesUrl(slice', sayfa')
      /\ \A y, z \in yukleme' : Kendi(y)' /\ Kendi(z)' => y = z
  BY <1>2, <1>3, <1>4, <1>7, RenderKendi
<1>9. \A d : Sakli(d)' = Sakli(d)
  BY <1>5 DEF Sakli
<1>10. BelgeBagli'
  BY <1>5, <1>8, <1>9 DEF BelgeInv, BelgeBagli
<1> QED BY <1>6, <1>10 DEF BelgeInv

LEMMA BelgeOlusur ==
    ASSUME BelgeInv, NEW t \in Tur, NEW id \in Kimlik, NEW h, NEW surum \in Nat, Olusur(t, id, h, surum),
           h.present = [id |-> id, surum |-> surum]
    PROVE  BelgeInv'
<1> DEFINE d == <<t, id>>
           p == Adres(t, id)
           sl == [slice EXCEPT ![t] = h]
<1>1. /\ BelgeTip /\ YuklemeTip /\ sira \in Siralar /\ sira.sayfa \in Nat
      /\ DOMAIN slice = Tur /\ DOMAIN son = Belgeler /\ d \in Belgeler
  BY DEF BelgeInv, BelgeTip, Siralar, Belgeler
<1>2. PICK no : no = [Ziyaret(sira) EXCEPT !.surum = surum]
  OBVIOUS
<1>3. /\ kayipNedeni' = kayipNedeni \cup Terk(t, {"yok"})
      /\ Render(sl, p, no, yukleme)
      /\ son' = [son EXCEPT ![d] = surum]
      /\ UNCHANGED <<kayit, sunucu>>
  BY <1>2 DEF Olusur
<1>4. p = [tur |-> p.tur, id |-> p.id, hata |-> p.hata] /\ p.tur = t /\ p.id = id
  BY DEF Adres
<1>5. no \in Siralar /\ no.sayfa = sira.sayfa + 1 /\ sira.sayfa <= no.sayfa
  <2>1. PICK z : z = Ziyaret(sira)
    OBVIOUS
  <2>2. z \in Siralar /\ z.sayfa = sira.sayfa + 1
    BY <1>1, <2>1 DEF Ziyaret, Siralar
  <2>3. no = [z EXCEPT !.surum = surum]
    BY <1>2, <2>1
  <2> HIDE DEF d, p, sl
  <2> QED BY <1>1, <2>2, <2>3 DEF Siralar
<1>6. BelgeTip' /\ YuklemeTip'
  <2> HIDE DEF sl, p
  <2>1. DOMAIN sl = Tur /\ DOMAIN son' = Belgeler
    BY <1>1, <1>3 DEF sl
  <2> QED BY <1>1, <1>3, <1>4, <1>5, <2>1, RenderTip
<1>7. \A y \in yukleme : ~(~y.gotur /\ y.sayfa = no.sayfa)
  BY <1>1, <1>5 DEF YuklemeTip, YuklemeTipi
<1>8. /\ slice' = sl
      /\ \A y \in yukleme' : Kendi(y)' =>
             y.belge = <<sayfa'.tur, sayfa'.id>> /\ ~StoreMatchesUrl(slice', sayfa')
      /\ \A y, z \in yukleme' : Kendi(y)' /\ Kendi(z)' => y = z
  <2> HIDE DEF sl, p
  <2> QED BY <1>3, <1>4, <1>5, <1>7, RenderKendi
<1>9. ASSUME kayipNedeni' = {} PROVE BelgeBagli'
  <2>1. kayipNedeni = {} /\ Terk(t, {"yok"}) = {} /\ BelgeBagli
    BY <1>3, <1>9 DEF BelgeInv
  <2>2. /\ slice'[t].present = [id |-> id, surum |-> surum]
        /\ \A u \in Tur \ {t} : slice'[u].present = slice[u].present
        /\ DOMAIN son' = Belgeler /\ son'[<<t, id>>] = surum
        /\ \A e \in Belgeler \ {<<t, id>>} : son'[e] = son[e]
    BY <1>1, <1>3, <1>8
  <2> HIDE DEF d, p, sl
  <2>3. /\ \A u \in Tur : slice'[u].present.id \in Kimlik =>
               slice'[u].present.surum = son'[<<u, slice'[u].present.id>>]
        /\ \A u \in Tur : \A i \in Kimlik :
               i # slice'[u].present.id /\ son'[<<u, i>>] # Bulunmaz => Sakli(<<u, i>>)'
        /\ \A k, l \in kayit' : k.belge = l.belge => k = l
    <3>1. {"yok"} \subseteq {"yok", id} /\ "yok" \in {"yok"}
      OBVIOUS
    <3> QED BY <1>1, <1>3, <2>1, <2>2, <3>1, BelgeGelir
  <2> QED BY <1>8, <2>3 DEF BelgeBagli
<1>10. BelgeBagli'
  BY <1>9 DEF BelgeBagli
<1> QED BY <1>6, <1>10 DEF BelgeInv

LEMMA BelgeYeni ==
    ASSUME BelgeInv, NEW t \in Tur, NEW id \in Kimlik, Yeni(t, id) \/ VeridenBasla(t, id) PROVE BelgeInv'
<1>1. sira.surum \in Nat /\ sira.surum + 1 \in Nat /\ sira.surum + 2 \in Nat
  BY DEF BelgeInv, BelgeTip, Siralar
<1>2. CASE Yeni(t, id)
  <2>1. PICK h : h = Ekle(slice[t], id, sira.surum + 1)
    OBVIOUS
  <2>2. h.present = [id |-> id, surum |-> sira.surum + 1]
    BY <2>1 DEF Ekle, Insert
  <2>3. Olusur(t, id, h, sira.surum + 1)
    BY <1>2, <2>1 DEF Yeni
  <2> QED BY <1>1, <2>2, <2>3, BelgeOlusur
<1>3. CASE VeridenBasla(t, id)
  <2>1. PICK h : h = Ekle(Ekle(slice[t], id, sira.surum + 1), id, sira.surum + 2)
    OBVIOUS
  <2>2. h.present = [id |-> id, surum |-> sira.surum + 2]
    BY <2>1 DEF Ekle, Insert
  <2>3. Olusur(t, id, h, sira.surum + 2)
    BY <1>3, <2>1 DEF VeridenBasla
  <2> QED BY <1>1, <2>2, <2>3, BelgeOlusur
<1> QED BY <1>2, <1>3

LEMMA BelgeDuzenle == BelgeInv /\ Duzenle => BelgeInv'
<1> SUFFICES ASSUME BelgeInv, Duzenle PROVE BelgeInv'
  OBVIOUS
<1>1. PICK no : no = [sira EXCEPT !.surum = @ + 1]
  OBVIOUS
<1>2. PICK h : h = Insert(slice[sayfa.tur], [id |-> sayfa.id, surum |-> no.surum])
  OBVIOUS
<1>3. PICK sl : sl = [slice EXCEPT ![sayfa.tur] = h]
  OBVIOUS
<1>4. /\ Gosterir /\ Render(sl, sayfa, no, yukleme)
      /\ son' = [son EXCEPT ![<<sayfa.tur, sayfa.id>>] = no.surum]
      /\ UNCHANGED <<kayit, sunucu, kayipNedeni>>
  BY <1>1, <1>2, <1>3 DEF Duzenle
<1>5. no \in Siralar /\ no.sayfa = sira.sayfa
  BY <1>1 DEF BelgeInv, BelgeTip, Siralar
<1>6. h.present = [id |-> sayfa.id, surum |-> no.surum]
  BY <1>2 DEF Insert
<1>7. sayfa.tur \in Tur /\ DOMAIN slice = Tur /\ DOMAIN son = Belgeler
  BY <1>4 DEF BelgeInv, BelgeTip, Gosterir, StoreMatchesUrl
<1>8. /\ DOMAIN sl = Tur /\ DOMAIN son' = Belgeler
      /\ sl[sayfa.tur].present.id = sayfa.id /\ sl[sayfa.tur].present.surum = no.surum
      /\ \A u \in Tur \ {sayfa.tur} : sl[u].present = slice[u].present
  BY <1>3, <1>4, <1>6, <1>7
<1> QED BY <1>4, <1>5, <1>8, BelgeSurer

LEMMA BelgeZaman ==
    ASSUME BelgeInv, Gosterir, NEW sl, DOMAIN sl = Tur, Zaman(sl) PROVE BelgeInv'
<1>1. /\ Render(sl, sayfa, sira, yukleme)
      /\ son' = IF StoreMatchesUrl(sl, sayfa) THEN [son EXCEPT ![<<sayfa.tur, sayfa.id>>] = sl[sayfa.tur].present.surum] ELSE son
      /\ kayipNedeni' = kayipNedeni
             \cup (IF \E u \in Tur \ {sayfa.tur} : sl[u].present # slice[u].present THEN {"ortak"} ELSE {})
             \cup (IF StoreMatchesUrl(sl, sayfa) THEN {} ELSE {"ilk_hal"})
      /\ UNCHANGED <<kayit, sunucu>>
  BY DEF Zaman
<1>2. sira \in Siralar /\ DOMAIN son = Belgeler
  BY DEF BelgeInv, BelgeTip
<1>3. DOMAIN son' = Belgeler
  BY <1>1, <1>2
<1>4. ASSUME kayipNedeni' = {}
      PROVE  /\ kayipNedeni = {}
             /\ sl[sayfa.tur].present.id = sayfa.id
             /\ \A u \in Tur \ {sayfa.tur} : sl[u].present = slice[u].present
             /\ son' = [son EXCEPT ![<<sayfa.tur, sayfa.id>>] = sl[sayfa.tur].present.surum]
  <2>1. kayipNedeni = {} /\ StoreMatchesUrl(sl, sayfa)
    BY <1>1, <1>4
  <2>2. \A u \in Tur \ {sayfa.tur} : sl[u].present = slice[u].present
    BY <1>1, <1>4
  <2>3. sl[sayfa.tur].present.id = sayfa.id
    BY <2>1 DEF StoreMatchesUrl
  <2> QED BY <1>1, <2>1, <2>2, <2>3
<1> QED BY <1>1, <1>2, <1>3, <1>4, BelgeSurer

LEMMA BelgeGeri == BelgeInv /\ (BelgeGeriAl \/ BelgeYinele) => BelgeInv'
<1> SUFFICES ASSUME BelgeInv, BelgeGeriAl \/ BelgeYinele PROVE BelgeInv'
  OBVIOUS
<1>1. CASE BelgeGeriAl
  <2>1. PICK sl : sl = [t \in Tur |-> Undo(slice[t])]
    OBVIOUS
  <2>2. Gosterir /\ Zaman(sl) /\ DOMAIN sl = Tur
    BY <1>1, <2>1 DEF BelgeGeriAl
  <2> QED BY <2>2, BelgeZaman
<1>2. CASE BelgeYinele
  <2>1. PICK sl : sl = [t \in Tur |-> Redo(slice[t])]
    OBVIOUS
  <2>2. Gosterir /\ Zaman(sl) /\ DOMAIN sl = Tur
    BY <1>2, <2>1 DEF BelgeYinele
  <2> QED BY <2>2, BelgeZaman
<1> QED BY <1>1, <1>2

\* Saves, loads and errors change no slice: what is left is to follow the saves.
LEMMA BelgeDurur ==
    ASSUME BelgeInv, UNCHANGED <<slice, son>>, BelgeTip', YuklemeTip',
           kayipNedeni' = {} =>
               /\ kayipNedeni = {}
               /\ sayfa'.tur = sayfa.tur /\ sayfa'.id = sayfa.id
               /\ \A k, l \in kayit' : k.belge = l.belge => k = l
               /\ \A y, z \in yukleme' : Kendi(y)' /\ Kendi(z)' =>
                      \E v, w \in yukleme : /\ Kendi(v) /\ Kendi(w) /\ v.belge = y.belge
                                            /\ v = w => y = z
               /\ \A t \in Tur : \A id \in Kimlik :
                      id # slice[t].present.id /\ Sakli(<<t, id>>) => Sakli(<<t, id>>)'
    PROVE  BelgeInv'
<1>1. ASSUME kayipNedeni' = {} PROVE BelgeBagli'
  <2>1. BelgeBagli /\ kayipNedeni = {} /\ StoreMatchesUrl(slice', sayfa') = StoreMatchesUrl(slice, sayfa)
    BY <1>1 DEF BelgeInv, StoreMatchesUrl
  <2>2. ASSUME NEW y \in yukleme', Kendi(y)'
        PROVE  y.belge = <<sayfa'.tur, sayfa'.id>> /\ ~StoreMatchesUrl(slice', sayfa')
    <3>1. PICK v \in yukleme : Kendi(v) /\ v.belge = y.belge
      BY <1>1, <2>2
    <3> QED BY <1>1, <2>1, <3>1 DEF BelgeBagli
  <2>3. ASSUME NEW y \in yukleme', NEW z \in yukleme', Kendi(y)', Kendi(z)' PROVE y = z
    <3>1. PICK v, w \in yukleme : Kendi(v) /\ Kendi(w) /\ (v = w => y = z)
      BY <1>1, <2>3
    <3> QED BY <2>1, <3>1 DEF BelgeBagli
  <2>4. \A t \in Tur : slice'[t].present.id \in Kimlik =>
            slice'[t].present.surum = son'[<<t, slice'[t].present.id>>]
    BY <2>1 DEF BelgeBagli
  <2>5. \A t \in Tur : \A id \in Kimlik :
            id # slice'[t].present.id /\ son'[<<t, id>>] # Bulunmaz => Sakli(<<t, id>>)'
    BY <1>1, <2>1 DEF BelgeBagli
  <2> QED BY <1>1, <2>2, <2>3, <2>4, <2>5 DEF BelgeBagli
<1> QED BY <1>1 DEF BelgeInv, BelgeBagli

LEMMA BelgeAc == ASSUME BelgeInv, NEW d \in Belgeler, Ac(d) PROVE BelgeInv'
<1>1. BelgeTip /\ YuklemeTip /\ sira \in Siralar
  BY DEF BelgeInv, BelgeTip
<1>2. UNCHANGED <<slice, sayfa, kayit, sunucu, son, kayipNedeni>>
  BY DEF Ac
<1>3. PICK z : z = [belge |-> d, icerik |-> {sunucu[d]}, no |-> sira.yukleme, sayfa |-> sira.sayfa,
                    ornek |-> sira.ornek, gotur |-> TRUE]
  OBVIOUS
<1>4. yukleme' = yukleme \cup {z} /\ sira' = [sira EXCEPT !.yukleme = @ + 1]
  BY <1>3 DEF Ac
<1>5. sira' \in Siralar /\ sira'.sayfa = sira.sayfa /\ sira.sayfa \in Nat
  BY <1>1, <1>4 DEF Siralar
<1>6. BelgeTip'
  BY <1>1, <1>2, <1>5 DEF BelgeTip
<1>7. /\ YuklemeBicimi(z) /\ z.belge = d /\ sunucu[z.belge] \in z.icerik /\ z.gotur = TRUE
      /\ z.sayfa = sira.sayfa
  BY <1>3 DEF YuklemeBicimi
<1>8. YuklemeTipi(z)'
  <2>1. z.belge \in Belgeler /\ z.gotur \in BOOLEAN
    BY <1>7
  <2>2. sunucu'[z.belge] \in z.icerik
    BY <1>2, <1>7
  <2>3. z.sayfa \in Nat /\ z.sayfa <= sira'.sayfa
    BY <1>5, <1>7
  <2> QED BY <1>7, <2>1, <2>2, <2>3 DEF YuklemeTipi, YuklemeBicimi
<1>9. \A y \in yukleme : YuklemeTipi(y)'
  BY <1>1, <1>2, <1>5 DEF YuklemeTip, YuklemeTipi, YuklemeBicimi
<1>10. YuklemeTip'
  BY <1>4, <1>8, <1>9 DEF YuklemeTip
<1>11. \A y \in yukleme' : Kendi(y)' => y \in yukleme /\ Kendi(y)
  BY <1>4, <1>5, <1>7 DEF Kendi
<1>12. \A t \in Tur : \A id \in Kimlik : Sakli(<<t, id>>) => Sakli(<<t, id>>)'
  BY <1>2 DEF Sakli
<1>13. kayipNedeni' = {} => \A k, l \in kayit' : k.belge = l.belge => k = l
  BY <1>2 DEF BelgeInv, BelgeBagli
<1>14. \A y, z2 \in yukleme' : Kendi(y)' /\ Kendi(z2)' =>
           \E v, w \in yukleme : Kendi(v) /\ Kendi(w) /\ v.belge = y.belge /\ (v = w => y = z2)
  BY <1>11
<1> QED BY <1>2, <1>6, <1>10, <1>12, <1>13, <1>14, BelgeDurur

LEMMA BelgeKaydet == BelgeInv /\ Kaydet => BelgeInv'
<1> SUFFICES ASSUME BelgeInv, Kaydet PROVE BelgeInv'
  OBVIOUS
<1> DEFINE d == <<sayfa.tur, sayfa.id>>
<1>1. BelgeTip /\ YuklemeTip /\ sira \in Siralar /\ Gosterir
  BY DEF BelgeInv, BelgeTip, Kaydet
<1>2. UNCHANGED <<slice, sayfa, yukleme, sunucu, son>>
  BY DEF Kaydet
<1>3. PICK z : z = [belge |-> d, surum |-> slice[sayfa.tur].present.surum, no |-> sira.kayit]
  OBVIOUS
<1>4. /\ kayit' = kayit \cup {z} /\ sira' = [sira EXCEPT !.kayit = @ + 1]
      /\ kayipNedeni' = IF \E k \in kayit : k.belge = d THEN kayipNedeni \cup {"ust_uste"} ELSE kayipNedeni
  BY <1>3 DEF Kaydet
<1>5. sira' \in Siralar /\ sira'.sayfa = sira.sayfa /\ sira.sayfa \in Nat
  BY <1>1, <1>4 DEF Siralar
<1>6. z.belge = d /\ d \in Belgeler /\ slice[sayfa.tur].present.id = sayfa.id
  BY <1>1, <1>3 DEF BelgeTip, Gosterir, StoreMatchesUrl, Belgeler
<1>7. BelgeTip'
  BY <1>1, <1>2, <1>4, <1>5, <1>6 DEF BelgeTip
<1>8. YuklemeTip'
  <2>1. \A y \in yukleme : YuklemeTipi(y)'
    BY <1>1, <1>2, <1>5 DEF YuklemeTip, YuklemeTipi, YuklemeBicimi
  <2> QED BY <1>2, <2>1 DEF YuklemeTip
<1>9. \A y \in yukleme : Kendi(y)' = Kendi(y)
  BY <1>5 DEF Kendi
<1>10. \A y, z2 \in yukleme' : Kendi(y)' /\ Kendi(z2)' =>
           \E v, w \in yukleme : Kendi(v) /\ Kendi(w) /\ v.belge = y.belge /\ (v = w => y = z2)
  BY <1>2, <1>9
<1>11. ASSUME kayipNedeni' = {}
       PROVE  kayipNedeni = {} /\ \A k, l \in kayit' : k.belge = l.belge => k = l
  BY <1>4, <1>6, <1>11 DEF BelgeInv, BelgeBagli
<1>12. ASSUME NEW t \in Tur, NEW id \in Kimlik, id # slice[t].present.id, Sakli(<<t, id>>)
       PROVE  Sakli(<<t, id>>)'
  <2>1. <<t, id>> # d
    BY <1>6, <1>12
  <2> QED BY <1>2, <1>4, <1>6, <1>12, <2>1 DEF Sakli
<1> QED BY <1>2, <1>7, <1>8, <1>10, <1>11, <1>12, BelgeDurur

\* The loads of a document learn what the server holds of it now.
LEMMA BelgeOlur ==
    ASSUME BelgeTip, YuklemeTip, NEW d \in Belgeler, NEW c, Olur(d, c), UNCHANGED sira
    PROVE  /\ YuklemeTip' /\ DOMAIN sunucu' = Belgeler
           /\ sunucu'[d] = c /\ \A e \in Belgeler \ {d} : sunucu'[e] = sunucu[e]
           /\ \A y, z \in yukleme' : Kendi(y)' /\ Kendi(z)' =>
                  \E v, w \in yukleme : Kendi(v) /\ Kendi(w) /\ v.belge = y.belge /\ (v = w => y = z)
<1>1. PICK g : g = [y \in yukleme |-> IF y.belge = d THEN [y EXCEPT !.icerik = @ \cup {c}] ELSE y]
  OBVIOUS
<1>2. /\ sunucu' = [sunucu EXCEPT ![d] = c]
      /\ yukleme' = {g[y] : y \in yukleme} /\ DOMAIN sunucu = Belgeler
  BY <1>1 DEF Olur, BelgeTip
<1>3. ASSUME NEW y \in yukleme
      PROVE  /\ YuklemeTipi(g[y])' /\ g[y].belge = y.belge /\ (Kendi(g[y])' => Kendi(y))
  <2>1. YuklemeTipi(y) /\ YuklemeBicimi(y)
    BY <1>3 DEF YuklemeTip, YuklemeTipi
  <2>2. CASE y.belge = d
    <3>1. g[y] = [y EXCEPT !.icerik = @ \cup {c}]
      BY <1>1, <1>3, <2>2
    <3>2. g[y] = [belge |-> y.belge, icerik |-> y.icerik \cup {c}, no |-> y.no, sayfa |-> y.sayfa,
                  ornek |-> y.ornek, gotur |-> y.gotur]
      BY <2>1, <3>1 DEF YuklemeBicimi
    <3>3. /\ YuklemeBicimi(g[y]) /\ g[y].belge = y.belge /\ g[y].icerik = y.icerik \cup {c}
          /\ g[y].sayfa = y.sayfa /\ g[y].gotur = y.gotur
      BY <3>2 DEF YuklemeBicimi
    <3> QED BY <1>2, <2>1, <2>2, <3>3 DEF YuklemeTipi, YuklemeBicimi, Kendi
  <2>3. CASE y.belge # d
    <3>1. g[y] = y
      BY <1>1, <1>3, <2>3
    <3> QED BY <1>2, <2>1, <2>3, <3>1 DEF YuklemeTipi, YuklemeBicimi, Kendi
  <2> QED BY <2>2, <2>3
<1>4. YuklemeTip'
  BY <1>2, <1>3 DEF YuklemeTip
<1>5. ASSUME NEW y \in yukleme', NEW z \in yukleme', Kendi(y)', Kendi(z)'
      PROVE  \E v, w \in yukleme : Kendi(v) /\ Kendi(w) /\ v.belge = y.belge /\ (v = w => y = z)
  <2>1. PICK v \in yukleme : y = g[v]
    BY <1>2, <1>5
  <2>2. PICK w \in yukleme : z = g[w]
    BY <1>2, <1>5
  <2> QED BY <1>3, <1>5, <2>1, <2>2
<1> QED BY <1>2, <1>4, <1>5

LEMMA BelgeSil == ASSUME BelgeInv, NEW d \in Belgeler, Sil(d) PROVE BelgeInv'
<1>1. BelgeTip /\ YuklemeTip /\ Olur(d, Bulunmaz) /\ UNCHANGED <<slice, sayfa, sira, kayit, son, kayipNedeni>>
  BY DEF BelgeInv, Sil
<1>2. /\ YuklemeTip' /\ DOMAIN sunucu' = Belgeler
      /\ sunucu'[d] = Bulunmaz /\ \A e \in Belgeler \ {d} : sunucu'[e] = sunucu[e]
      /\ \A y, z \in yukleme' : Kendi(y)' /\ Kendi(z)' =>
             \E v, w \in yukleme : Kendi(v) /\ Kendi(w) /\ v.belge = y.belge /\ (v = w => y = z)
  BY <1>1, BelgeOlur
<1>3. BelgeTip'
  BY <1>1, <1>2 DEF BelgeTip
<1>4. ASSUME NEW t \in Tur, NEW id \in Kimlik, Sakli(<<t, id>>) PROVE Sakli(<<t, id>>)'
  <2>1. <<t, id>> \in Belgeler
    BY DEF Belgeler
  <2> QED BY <1>1, <1>2, <1>4, <2>1 DEF Sakli
<1>5. kayipNedeni' = {} => \A k, l \in kayit' : k.belge = l.belge => k = l
  BY <1>1 DEF BelgeInv, BelgeBagli
<1> QED BY <1>1, <1>2, <1>3, <1>4, <1>5, BelgeDurur

LEMMA BelgeKayitVarir == ASSUME BelgeInv, NEW k \in kayit, KayitVarir(k) PROVE BelgeInv'
<1>1. /\ BelgeTip /\ YuklemeTip /\ Olur(k.belge, k.surum) /\ kayit' = kayit \ {k}
      /\ UNCHANGED <<slice, sayfa, sira, son, kayipNedeni>> /\ k.belge \in Belgeler
  BY DEF BelgeInv, BelgeTip, KayitVarir
<1>2. /\ YuklemeTip' /\ DOMAIN sunucu' = Belgeler
      /\ sunucu'[k.belge] = k.surum /\ \A e \in Belgeler \ {k.belge} : sunucu'[e] = sunucu[e]
      /\ \A y, z \in yukleme' : Kendi(y)' /\ Kendi(z)' =>
             \E v, w \in yukleme : Kendi(v) /\ Kendi(w) /\ v.belge = y.belge /\ (v = w => y = z)
  BY <1>1, BelgeOlur
<1>3. BelgeTip'
  BY <1>1, <1>2 DEF BelgeTip
<1>4. ASSUME kayipNedeni = {} PROVE \A m, l \in kayit : m.belge = l.belge => m = l
  BY <1>4 DEF BelgeInv, BelgeBagli
<1>5. ASSUME kayipNedeni = {}, NEW t \in Tur, NEW id \in Kimlik, Sakli(<<t, id>>) PROVE Sakli(<<t, id>>)'
  <2>1. <<t, id>> \in Belgeler
    BY DEF Belgeler
  <2>2. CASE <<t, id>> = k.belge
    <3>1. \A m \in kayit' : m.belge # k.belge
      BY <1>1, <1>4, <1>5
    <3>2. k.surum \in {son[<<t, id>>], Bulunmaz}
      BY <1>4, <1>5, <2>2 DEF Sakli
    <3> QED BY <1>1, <1>2, <2>2, <3>1, <3>2 DEF Sakli
  <2>3. CASE <<t, id>> # k.belge
    BY <1>1, <1>2, <1>5, <2>1, <2>3 DEF Sakli
  <2> QED BY <2>2, <2>3
<1> QED BY <1>1, <1>2, <1>3, <1>4, <1>5, BelgeDurur

LEMMA BelgeKayitDuser == ASSUME BelgeInv, NEW k \in kayit, KayitDuser(k) PROVE BelgeInv'
<1>1. /\ BelgeTip /\ YuklemeTip /\ kayit' = kayit \ {k} /\ k.belge \in Belgeler
      /\ UNCHANGED <<slice, sayfa, sira, yukleme, sunucu, son>>
      /\ kayipNedeni' = IF slice[k.belge[1]].present = [id |-> k.belge[2], surum |-> son[k.belge]]
                        THEN kayipNedeni ELSE kayipNedeni \cup {"kayit_dustu"}
  BY DEF BelgeInv, BelgeTip, KayitDuser
<1>2. BelgeTip'
  BY <1>1 DEF BelgeTip
<1>3. YuklemeTip' /\ \A y \in yukleme : Kendi(y)' = Kendi(y)
  <2>1. \A y \in yukleme : YuklemeTipi(y)'
    BY <1>1 DEF YuklemeTip, YuklemeTipi, YuklemeBicimi
  <2> QED BY <1>1, <2>1 DEF YuklemeTip, Kendi
<1>4. ASSUME kayipNedeni' = {}
      PROVE  /\ kayipNedeni = {} /\ slice[k.belge[1]].present = [id |-> k.belge[2], surum |-> son[k.belge]]
             /\ \A m, l \in kayit' : m.belge = l.belge => m = l
  BY <1>1, <1>4 DEF BelgeInv, BelgeBagli
<1>5. ASSUME kayipNedeni' = {}, NEW t \in Tur, NEW id \in Kimlik, id # slice[t].present.id, Sakli(<<t, id>>)
      PROVE  Sakli(<<t, id>>)'
  <2>1. <<t, id>> # k.belge
    BY <1>4, <1>5
  <2> QED BY <1>1, <1>5, <2>1 DEF Sakli
<1>6. \A y, z \in yukleme' : Kendi(y)' /\ Kendi(z)' =>
          \E v, w \in yukleme : Kendi(v) /\ Kendi(w) /\ v.belge = y.belge /\ (v = w => y = z)
  BY <1>1, <1>3
<1> QED BY <1>1, <1>2, <1>3, <1>4, <1>5, <1>6, BelgeDurur

LEMMA BelgeYuklemeDuser == ASSUME BelgeInv, NEW y \in yukleme, YuklemeDuser(y) PROVE BelgeInv'
<1>1. /\ BelgeTip /\ YuklemeTip /\ yukleme' = yukleme \ {y}
      /\ sayfa' = IF ~y.gotur /\ y.ornek = sira.ornek THEN [sayfa EXCEPT !.hata = TRUE] ELSE sayfa
      /\ UNCHANGED <<slice, sira, kayit, sunucu, son, kayipNedeni>>
  BY DEF BelgeInv, YuklemeDuser
<1>2. /\ sayfa'.tur = sayfa.tur /\ sayfa'.id = sayfa.id
      /\ sayfa' = [tur |-> sayfa'.tur, id |-> sayfa'.id, hata |-> sayfa'.hata]
  <2>1. sayfa = [tur |-> sayfa.tur, id |-> sayfa.id, hata |-> sayfa.hata]
    BY <1>1 DEF BelgeTip
  <2>2. CASE sayfa' = sayfa
    BY <2>1, <2>2
  <2>3. CASE sayfa' # sayfa
    <3>1. sayfa' = [tur |-> sayfa.tur, id |-> sayfa.id, hata |-> TRUE]
      BY <1>1, <2>1, <2>3
    <3> QED BY <3>1
  <2> QED BY <2>2, <2>3
<1>3. BelgeTip'
  BY <1>1, <1>2 DEF BelgeTip
<1>4. YuklemeTip' /\ \A z \in yukleme : Kendi(z)' = Kendi(z)
  <2>1. \A z \in yukleme : YuklemeTipi(z)'
    BY <1>1 DEF YuklemeTip, YuklemeTipi, YuklemeBicimi
  <2> QED BY <1>1, <2>1 DEF YuklemeTip, Kendi
<1>5. \A z, x \in yukleme' : Kendi(z)' /\ Kendi(x)' =>
          \E v, w \in yukleme : Kendi(v) /\ Kendi(w) /\ v.belge = z.belge /\ (v = w => z = x)
  BY <1>1, <1>4
<1>6. \A t \in Tur : \A id \in Kimlik : Sakli(<<t, id>>) => Sakli(<<t, id>>)'
  BY <1>1 DEF Sakli
<1>7. kayipNedeni' = {} => \A k, l \in kayit' : k.belge = l.belge => k = l
  BY <1>1 DEF BelgeInv, BelgeBagli
<1> QED BY <1>1, <1>2, <1>3, <1>4, <1>5, <1>6, <1>7, BelgeDurur

LEMMA BelgeVarir == ASSUME BelgeInv, NEW y \in yukleme, NEW c \in y.icerik, YuklemeVarir(y, c) PROVE BelgeInv'
<1>1. PICK t : t = y.belge[1]
  OBVIOUS
<1>2. PICK id : id = y.belge[2]
  OBVIOUS
<1>3. PICK h : h = Insert(slice[t], [id |-> id, surum |-> c])
  OBVIOUS
<1>4. PICK sl : sl = [slice EXCEPT ![t] = h]
  OBVIOUS
<1>5. PICK p : p = IF y.gotur THEN Adres(t, id) ELSE sayfa
  OBVIOUS
<1>6. PICK no : no = IF y.gotur THEN Ziyaret(sira) ELSE sira
  OBVIOUS
<1>7. PICK kalanlar : kalanlar = IF y.gotur THEN {"yok"} ELSE {"yok", id}
  OBVIOUS
<1>8. /\ c # Bulunmaz /\ Render(sl, p, no, yukleme \ {y})
      /\ son' = IF son[y.belge] = Bulunmaz THEN [son EXCEPT ![y.belge] = c] ELSE son
      /\ UNCHANGED <<kayit, sunucu>>
  BY <1>1, <1>2, <1>3, <1>4, <1>5, <1>6 DEF YuklemeVarir
<1>9. kayipNedeni' = kayipNedeni \cup Terk(t, kalanlar)
          \cup (IF y.sayfa # sira.sayfa THEN {"gec"} ELSE {})
          \cup (IF y.icerik # {c} \/ \E k \in kayit : k.belge = y.belge THEN {"kayit_sirasinda"} ELSE {})
  BY <1>1, <1>2, <1>7 DEF YuklemeVarir
<1>10. /\ BelgeTip /\ YuklemeTip /\ YuklemeTipi(y) /\ sira \in Siralar /\ sira.sayfa \in Nat
       /\ DOMAIN slice = Tur /\ DOMAIN son = Belgeler
       /\ sayfa = [tur |-> sayfa.tur, id |-> sayfa.id, hata |-> sayfa.hata]
       /\ sayfa.tur \in Tur => sayfa.id \in Kimlik
  BY DEF BelgeInv, BelgeTip, YuklemeTip, Siralar
<1>11. t \in Tur /\ id \in Kimlik /\ y.belge = <<t, id>> /\ y.belge \in Belgeler
  BY <1>1, <1>2, <1>10 DEF YuklemeTipi, Belgeler
<1>12. /\ no \in Siralar /\ sira.sayfa <= no.sayfa
       /\ no.sayfa = IF y.gotur THEN sira.sayfa + 1 ELSE sira.sayfa
  BY <1>6, <1>10 DEF Ziyaret, Siralar
<1>13. /\ p = [tur |-> p.tur, id |-> p.id, hata |-> p.hata] /\ (p.tur \in Tur => p.id \in Kimlik)
       /\ y.gotur => p.tur = t /\ p.id = id
       /\ ~y.gotur => p.tur = sayfa.tur /\ p.id = sayfa.id
  BY <1>5, <1>10, <1>11 DEF Adres
<1>14. DOMAIN sl = Tur /\ DOMAIN son' = Belgeler
  BY <1>4, <1>8, <1>10
<1>15. BelgeTip' /\ YuklemeTip'
  BY <1>8, <1>10, <1>12, <1>13, <1>14, RenderTip
<1>16. ASSUME kayipNedeni' = {} PROVE BelgeBagli'
  <2>1. /\ kayipNedeni = {} /\ Terk(t, kalanlar) = {} /\ y.sayfa = sira.sayfa /\ y.icerik = {c}
        /\ \A k \in kayit : k.belge # y.belge
    BY <1>9, <1>16
  <2>2. BelgeBagli /\ sunucu[y.belge] = c
    BY <1>10, <2>1 DEF BelgeInv, YuklemeTipi
  <2>3. son[y.belge] # Bulunmaz => son[y.belge] = c
    <3>1. CASE slice[t].present.id # id
      <4>1. son[y.belge] # Bulunmaz => Sakli(<<t, id>>)
        BY <1>11, <2>1, <2>2, <3>1 DEF BelgeBagli
      <4> QED BY <1>8, <1>11, <2>1, <2>2, <4>1 DEF Sakli
    <3>2. CASE slice[t].present.id = id /\ y.gotur
      <4>1. id \notin kalanlar
        BY <1>7, <1>11, <3>2, BelgeVarsayim
      <4>2. son[<<t, id>>] = Kaydedilen(<<t, id>>)
        BY <2>1, <3>2, <4>1 DEF Terk
      <4>3. Kaydedilen(<<t, id>>) = sunucu[<<t, id>>]
        BY <1>11, <2>1 DEF Kaydedilen
      <4> QED BY <1>11, <2>2, <4>2, <4>3
    <3>3. CASE slice[t].present.id = id /\ ~y.gotur
      <4>1. Kendi(y)
        BY <2>1, <3>3 DEF Kendi
      <4>2. y.belge = <<sayfa.tur, sayfa.id>> /\ ~StoreMatchesUrl(slice, sayfa)
        BY <2>1, <2>2, <4>1 DEF BelgeBagli
      <4> QED BY <1>11, <3>3, <4>2 DEF StoreMatchesUrl
    <3> QED BY <1>10, <3>1, <3>2, <3>3 DEF YuklemeTipi
  <2>4. \A z \in yukleme \ {y} : ~(~z.gotur /\ z.sayfa = no.sayfa)
    <3> SUFFICES ASSUME NEW z \in yukleme \ {y}, ~z.gotur, z.sayfa = no.sayfa PROVE FALSE
      OBVIOUS
    <3>1. YuklemeTipi(z)
      BY <1>10 DEF YuklemeTip
    <3>2. ~y.gotur
      BY <1>10, <1>12, <3>1 DEF YuklemeTipi
    <3>3. Kendi(z) /\ Kendi(y)
      BY <1>12, <2>1, <3>2 DEF Kendi
    <3> QED BY <2>1, <2>2, <3>3 DEF BelgeBagli
  <2>5. /\ slice' = sl
        /\ \A z \in yukleme' : Kendi(z)' =>
               z.belge = <<sayfa'.tur, sayfa'.id>> /\ ~StoreMatchesUrl(slice', sayfa')
        /\ \A z, x \in yukleme' : Kendi(z)' /\ Kendi(x)' => z = x
    BY <1>8, <1>12, <1>13, <2>4, RenderKendi
  <2>6. h.present = [id |-> id, surum |-> c]
    BY <1>3 DEF Insert
  <2>7. /\ slice'[t].present = [id |-> id, surum |-> c]
        /\ \A u \in Tur \ {t} : slice'[u].present = slice[u].present
        /\ son'[<<t, id>>] = c
        /\ \A e \in Belgeler \ {<<t, id>>} : son'[e] = son[e]
    BY <1>4, <1>8, <1>10, <1>11, <2>3, <2>5, <2>6
  <2>8. "yok" \in kalanlar /\ kalanlar \subseteq {"yok", id}
    BY <1>7
  <2>9. /\ \A u \in Tur : slice'[u].present.id \in Kimlik =>
               slice'[u].present.surum = son'[<<u, slice'[u].present.id>>]
        /\ \A u \in Tur : \A i \in Kimlik :
               i # slice'[u].present.id /\ son'[<<u, i>>] # Bulunmaz => Sakli(<<u, i>>)'
        /\ \A k, l \in kayit' : k.belge = l.belge => k = l
    BY <1>8, <1>10, <1>11, <1>14, <2>1, <2>2, <2>7, <2>8, BelgeGelir
  <2> QED BY <2>5, <2>9 DEF BelgeBagli
<1>17. BelgeBagli'
  BY <1>16 DEF BelgeBagli
<1> QED BY <1>15, <1>17 DEF BelgeInv

LEMMA BelgeAdim == BelgeInv /\ [BelgeNext]_belgeVars => BelgeInv'
<1> SUFFICES ASSUME BelgeInv, [BelgeNext]_belgeVars PROVE BelgeInv'
  OBVIOUS
<1>1. CASE UNCHANGED belgeVars
  <2>1. UNCHANGED <<slice, sayfa, sira, yukleme, kayit, sunucu, son, kayipNedeni>>
    BY <1>1 DEF belgeVars
  <2>2. BelgeTip' /\ \A y : YuklemeTipi(y)' = YuklemeTipi(y) /\ Kendi(y)' = Kendi(y)
    BY <2>1 DEF BelgeInv, BelgeTip, YuklemeTipi, YuklemeBicimi, Kendi
  <2>3. \A d : Sakli(d)' = Sakli(d)
    BY <2>1 DEF Sakli
  <2> QED BY <2>1, <2>2, <2>3 DEF BelgeInv, YuklemeTip, BelgeBagli, StoreMatchesUrl
<1>2. CASE BelgeNext
  <2>1. CASE Git \/ Duzenle \/ BelgeGeriAl \/ BelgeYinele \/ Kaydet
    BY <2>1, BelgeGit, BelgeDuzenle, BelgeGeri, BelgeKaydet
  <2>2. CASE \E t \in Tur, id \in Kimlik : Yeni(t, id) \/ VeridenBasla(t, id) \/ Ac(<<t, id>>) \/ Sil(<<t, id>>)
    <3>1. PICK t \in Tur, id \in Kimlik : Yeni(t, id) \/ VeridenBasla(t, id) \/ Ac(<<t, id>>) \/ Sil(<<t, id>>)
      BY <2>2
    <3>2. PICK d \in Belgeler : d = <<t, id>>
      BY DEF Belgeler
    <3>3. CASE Yeni(t, id) \/ VeridenBasla(t, id)
      BY <3>3, BelgeYeni
    <3>4. CASE Ac(d)
      BY <3>4, BelgeAc
    <3>5. CASE Sil(d)
      BY <3>5, BelgeSil
    <3> QED BY <3>1, <3>2, <3>3, <3>4, <3>5
  <2>3. CASE \E y \in yukleme : YuklemeDuser(y) \/ \E c \in y.icerik : YuklemeVarir(y, c)
    BY <2>3, BelgeYuklemeDuser, BelgeVarir
  <2>4. CASE \E k \in kayit : KayitVarir(k) \/ KayitDuser(k)
    BY <2>4, BelgeKayitVarir, BelgeKayitDuser
  <2> QED BY <1>2, <2>1, <2>2, <2>3, <2>4 DEF BelgeNext
<1> QED BY <1>1, <1>2

\* A page that shows a document shows what the operator last made of it, as long
\* as none of the listed causes has happened: any number of documents, loads and
\* saves, in any order.
THEOREM EditsOnlyByCause == BelgeSpec => []DuzenlemeSebepli
<1>1. BelgeInv => DuzenlemeSebepli
  <2> SUFFICES ASSUME BelgeInv, kayipNedeni = {}, Gosterir
               PROVE  slice[sayfa.tur].present.surum = son[<<sayfa.tur, sayfa.id>>]
    BY DEF DuzenlemeSebepli
  <2>1. sayfa.tur \in Tur /\ slice[sayfa.tur].present.id = sayfa.id /\ sayfa.id \in Kimlik
    BY DEF BelgeInv, BelgeTip, Gosterir, StoreMatchesUrl
  <2> QED BY <2>1 DEF BelgeInv, BelgeBagli
<1> QED BY <1>1, BelgeIlk, BelgeAdim, PTL DEF BelgeSpec

-----------------------------------------------------------------------------
(***************************************************************************)
(* DashboardPage.                                                          *)
(***************************************************************************)
Gadgetlar == SUBSET (Nat \ {0})
GadgetYa == Gadgetlar \cup {PanoYok}

Ekranlar == [acik : BOOLEAN, aktif : TumPano, duzenleme : BOOLEAN, id : TumPano, gadgets : GadgetYa]
Sorgular == [veri : GadgetYa, bayat : BOOLEAN, hata : BOOLEAN, ucus : {"yok", "giden", "gelen"}, cevap : GadgetYa]
Yazmalar == [tur : {"kaydet", "sil", "yeni", "ekle"}, id : TumPano, gadgets : Gadgetlar,
             yer : {"giden", "okuyan", "olan", "olmayan"}]

PanoTip ==
    /\ sunucuPano \in [Pano -> GadgetYa] /\ soz \in [Pano -> Gadgetlar]
    /\ ekran \in Ekranlar
    /\ onbellek \in [TumPano -> Sorgular]
    /\ panoIstek \subseteq Yazmalar
    /\ sayac.gadget \in Nat /\ sayac = [gadget |-> sayac.gadget, hareket |-> sayac.hareket, hata |-> sayac.hata]
    /\ cikan = [simdi |-> cikan.simdi, hep |-> cikan.hep]

\* What was promised is there; what is being added is on the screen.
SozTutulur ==
    /\ \A id \in Pano : soz[id] # {} => soz[id] \subseteq sunucuPano[id]
    /\ emek # {} => ekran.duzenleme /\ emek \subseteq ekran.gadgets

\* A write on its way.
YazmaBagli(r) ==
    /\ (r.tur # "kaydet" => r.id \in Pano) /\ (r.yer = "okuyan" => r.tur = "ekle")
    /\ IF r.tur = "kaydet" THEN emek \subseteq r.gadgets ELSE emek = {}
    /\ r.tur # "sil" /\ r.id \in Pano /\ r.yer = "giden" => soz[r.id] \subseteq r.gadgets
    /\ r.yer = "olan" => r.id \in Pano /\ (r.tur # "sil" => r.gadgets \subseteq sunucuPano[r.id])
    /\ r.tur = "ekle" => ~ekran.acik
    /\ r.tur = "sil" => onbellek[r.id].veri # PanoYok
    /\ r.tur = "yeni" =>
           /\ cikan.simdi = {}
           /\ sunucuPano[r.id] = PanoYok \/ r.gadgets \subseteq sunucuPano[r.id]
           /\ onbellek[r.id].veri = PanoYok \/ r.gadgets \subseteq onbellek[r.id].veri
           /\ onbellek[r.id].ucus = "gelen" /\ onbellek[r.id].cevap # PanoYok => r.gadgets \subseteq onbellek[r.id].cevap
           /\ ekran.id = r.id /\ ekran.gadgets # PanoYok => r.gadgets \subseteq ekran.gadgets

\* What the library keeps of a dashboard of a user, or is about to get: s was
\* promised to be in it, another browser wrote it, the server has su.
SorguIyi(q, s, baskasi, su) ==
    /\ ~q.bayat /\ ~baskasi /\ q.veri # PanoYok => s \subseteq q.veri
    /\ q.ucus = "gelen" /\ ~baskasi /\ q.cevap # PanoYok => s \subseteq q.cevap
    /\ su = PanoYok /\ q.veri = PanoYok /\ q.ucus = "gelen" => q.cevap = PanoYok

SorguBagli(id) == SorguIyi(onbellek[id], soz[id], id \in yabanci, sunucuPano[id])

\* Only what is stale or missing is fetched.
Yerinde(q) == q.ucus # "yok" => q.bayat \/ q.veri = PanoYok

SorguYerinde == \A id \in TumPano : Yerinde(onbellek[id])

EkranBagli ==
    /\ ekran.acik /\ ~ekran.duzenleme /\ onbellek[ekran.aktif].veri # PanoYok =>
           ekran.id = ekran.aktif /\ ekran.gadgets = onbellek[ekran.aktif].veri
    /\ ekran.gadgets # PanoYok => onbellek[ekran.id].veri # PanoYok
    /\ ekran.acik /\ ekran.aktif # Sistem => ~onbellek[ekran.aktif].hata

DuzenlemeBagli ==
    /\ ekran.duzenleme => /\ ekran.acik /\ ekran.id = ekran.aktif /\ ekran.gadgets # PanoYok
                          /\ ekran.id \in Pano => soz[ekran.id] \subseteq ekran.gadgets \cup cikan.simdi
    /\ cikan.simdi # {} => ekran.duzenleme

PanoBagli ==
    /\ PanoTip /\ SozTutulur
    /\ \A r, s \in panoIstek : r = s
    /\ \A r \in panoIstek : YazmaBagli(r)
    /\ \A id \in Pano : SorguBagli(id)
    /\ SorguYerinde /\ EkranBagli /\ DuzenlemeBagli

PanoInv == panoSebep = {} => PanoBagli

LEMMA PanoIlk == PanoInit => PanoInv
<1> SUFFICES ASSUME PanoInit PROVE PanoBagli
  BY DEF PanoInv
<1>1. PICK id \in IlkPano \cup {Sistem} :
          /\ ekran = [acik |-> TRUE, aktif |-> id, duzenleme |-> FALSE, id |-> Sistem, gadgets |-> PanoYok]
          /\ onbellek = [p \in TumPano |-> [veri |-> PanoYok, bayat |-> FALSE, hata |-> FALSE,
                                            ucus |-> IF p = id THEN "giden" ELSE "yok", cevap |-> PanoYok]]
  BY DEF PanoInit
<1>2. /\ id \in TumPano /\ Sistem \in TumPano /\ Pano \subseteq TumPano /\ PanoYok \in GadgetYa
      /\ {1} \in Gadgetlar /\ {} \in Gadgetlar /\ Gadgetlar \subseteq GadgetYa
  BY PanoVarsayim DEF TumPano, GadgetYa, Gadgetlar
<1>3. /\ \A p \in TumPano : /\ onbellek[p].veri = PanoYok /\ onbellek[p].hata = FALSE
                            /\ onbellek[p].ucus # "gelen"
      /\ onbellek \in [TumPano -> Sorgular] /\ ekran \in Ekranlar
  BY <1>1, <1>2 DEF Sorgular, Ekranlar
<1>4. /\ panoIstek = {} /\ sayac = [gadget |-> 1, hareket |-> 0, hata |-> 0]
      /\ sunucuPano = [p \in Pano |-> IF p \in IlkPano THEN {1} ELSE PanoYok]
      /\ soz = [p \in Pano |-> IF p \in IlkPano THEN {1} ELSE {}]
      /\ emek = {} /\ cikan = [simdi |-> {}, hep |-> {}] /\ yabanci = {}
  BY DEF PanoInit
<1>5. PanoTip
  <2>1. soz \in [Pano -> Gadgetlar] /\ sunucuPano \in [Pano -> GadgetYa]
    BY <1>2, <1>4
  <2> QED BY <1>3, <1>4, <2>1 DEF PanoTip
<1>6. \A p \in Pano : soz[p] # {} => soz[p] \subseteq sunucuPano[p]
  BY <1>4
<1>7. SozTutulur
  BY <1>4, <1>6 DEF SozTutulur
<1>8. \A p \in Pano : SorguBagli(p)
  BY <1>2, <1>3 DEF SorguBagli, SorguIyi
<1>9. SorguYerinde
  BY <1>3 DEF SorguYerinde, Yerinde
<1>10. EkranBagli /\ DuzenlemeBagli
  BY <1>1, <1>2, <1>3, <1>4 DEF EkranBagli, DuzenlemeBagli
<1> QED BY <1>4, <1>5, <1>7, <1>8, <1>9, <1>10 DEF PanoBagli

-----------------------------------------------------------------------------
(* The query library. *)

\* A query that goes on: it may only have been sent.
SorguSurer(q, q2) ==
    /\ q2 \in Sorgular /\ q2.veri = q.veri /\ q2.bayat = q.bayat /\ q2.cevap = q.cevap
    /\ q2.ucus = "gelen" <=> q.ucus = "gelen"
    /\ q2.hata => q.hata
    /\ q2.ucus # "yok" => q.ucus # "yok" \/ q.bayat \/ q.veri = PanoYok

LEMMA SorguSurerKendi == ASSUME NEW q \in Sorgular PROVE SorguSurer(q, q)
BY DEF SorguSurer

LEMMA SorguSurerGecis ==
    ASSUME NEW q, NEW q2, NEW q3, SorguSurer(q, q2), SorguSurer(q2, q3) PROVE SorguSurer(q, q3)
BY DEF SorguSurer

LEMMA SorguSurerIyi ==
    ASSUME NEW q, NEW q2, SorguSurer(q, q2), NEW s, NEW baskasi, NEW su, SorguIyi(q, s, baskasi, su)
    PROVE  SorguIyi(q2, s, baskasi, su)
BY DEF SorguSurer, SorguIyi

LEMMA SorguSurerYerinde == ASSUME NEW q, NEW q2, SorguSurer(q, q2), Yerinde(q) PROVE Yerinde(q2)
BY DEF SorguSurer, Yerinde

LEMMA SorguBicim ==
    ASSUME NEW q \in Sorgular
    PROVE  /\ q = [veri |-> q.veri, bayat |-> q.bayat, hata |-> q.hata, ucus |-> q.ucus, cevap |-> q.cevap]
           /\ q.veri \in GadgetYa /\ q.bayat \in BOOLEAN /\ q.hata \in BOOLEAN /\ q.cevap \in GadgetYa
           /\ q.ucus \in {"yok", "giden", "gelen"}
BY DEF Sorgular

LEMMA SorguKur ==
    ASSUME NEW v \in GadgetYa, NEW b \in BOOLEAN, NEW h \in BOOLEAN, NEW u \in {"yok", "giden", "gelen"},
           NEW c \in GadgetYa
    PROVE  [veri |-> v, bayat |-> b, hata |-> h, ucus |-> u, cevap |-> c] \in Sorgular
BY DEF Sorgular

LEMMA BakilirSurer == ASSUME NEW q \in Sorgular PROVE SorguSurer(q, Bakilir(q))
<1>1. CASE q.ucus = "yok" /\ (q.bayat \/ q.veri = PanoYok)
  <2>1. PICK h \in BOOLEAN : h = (q.hata /\ q.veri # PanoYok)
    OBVIOUS
  <2>2. PICK u \in {"yok", "giden", "gelen"} : u = "giden"
    OBVIOUS
  <2>3. Bakilir(q) = [q EXCEPT !.ucus = u, !.hata = h]
    BY <1>1, <2>1, <2>2 DEF Bakilir
  <2>4. Bakilir(q) = [veri |-> q.veri, bayat |-> q.bayat, hata |-> h, ucus |-> u, cevap |-> q.cevap]
    BY <2>3, SorguBicim
  <2>5. Bakilir(q) \in Sorgular
    BY <2>4, SorguBicim, SorguKur
  <2>6. h => q.hata
    BY <2>1
  <2> QED BY <1>1, <2>2, <2>4, <2>5, <2>6 DEF SorguSurer
<1>2. CASE ~(q.ucus = "yok" /\ (q.bayat \/ q.veri = PanoYok))
  BY <1>2, SorguSurerKendi DEF Bakilir
<1> QED BY <1>1, <1>2

\* Every dashboard is stale after a write, and an answer that is kept is one to
\* the first fetch.
LEMMA TazeleTip ==
    ASSUME NEW o \in [TumPano -> Sorgular], NEW b
    PROVE  /\ Tazele(o, b) \in [TumPano -> Sorgular]
           /\ \A id \in TumPano : /\ Tazele(o, b)[id].veri = o[id].veri /\ Tazele(o, b)[id].cevap = o[id].cevap
                                  /\ Tazele(o, b)[id].bayat
                                  /\ Tazele(o, b)[id].ucus = "gelen" => o[id].ucus = "gelen"
                                  /\ Tazele(o, b)[id].hata => o[id].hata
<1>1. ASSUME NEW id \in TumPano
      PROVE  /\ Tazele(o, b)[id] \in Sorgular
             /\ Tazele(o, b)[id].veri = o[id].veri /\ Tazele(o, b)[id].cevap = o[id].cevap
             /\ Tazele(o, b)[id].bayat
             /\ Tazele(o, b)[id].ucus = "gelen" => o[id].ucus = "gelen"
             /\ Tazele(o, b)[id].hata => o[id].hata
  <2>1. PICK q \in Sorgular : q = o[id]
    BY <1>1
  <2>2. PICK d \in BOOLEAN : d = TRUE
    OBVIOUS
  <2>3. PICK s : s = [q EXCEPT !.bayat = d]
    OBVIOUS
  <2>4. s = [veri |-> q.veri, bayat |-> d, hata |-> q.hata, ucus |-> q.ucus, cevap |-> q.cevap]
    BY <2>3, SorguBicim
  <2>5. s \in Sorgular /\ s.veri = q.veri /\ s.cevap = q.cevap /\ s.bayat = d /\ s.ucus = q.ucus /\ s.hata = q.hata
    BY <2>4, SorguBicim, SorguKur
  <2>6. PICK h \in BOOLEAN : h = (s.hata /\ s.veri # PanoYok)
    OBVIOUS
  <2>7. PICK u \in {"yok", "giden", "gelen"} : u = "giden"
    OBVIOUS
  <2>8. Tazele(o, b)[id] = IF id \notin b \/ (s.veri = PanoYok /\ s.ucus # "yok") THEN s
                           ELSE [s EXCEPT !.ucus = u, !.hata = h]
    BY <1>1, <2>1, <2>2, <2>3, <2>6, <2>7 DEF Tazele
  <2>9. CASE Tazele(o, b)[id] = s
    BY <2>1, <2>2, <2>5, <2>9
  <2>10. CASE Tazele(o, b)[id] # s
    <3>1. Tazele(o, b)[id] = [veri |-> s.veri, bayat |-> s.bayat, hata |-> h, ucus |-> u, cevap |-> s.cevap]
      BY <2>5, <2>8, <2>10, SorguBicim
    <3>2. Tazele(o, b)[id] \in Sorgular
      BY <2>5, <3>1, SorguBicim, SorguKur
    <3>3. h => s.hata
      BY <2>6
    <3> QED BY <2>1, <2>2, <2>5, <2>7, <3>1, <3>2, <3>3
  <2> QED BY <2>9, <2>10
<1>2. Tazele(o, b) = [id \in TumPano |-> Tazele(o, b)[id]]
  BY DEF Tazele
<1> QED BY <1>1, <1>2

-----------------------------------------------------------------------------
(* The page. *)

EkranBicimi(e) ==
    e = [acik |-> e.acik, aktif |-> e.aktif, duzenleme |-> e.duzenleme, id |-> e.id, gadgets |-> e.gadgets]

LEMMA EkranKur ==
    ASSUME NEW a \in BOOLEAN, NEW p \in TumPano, NEW d \in BOOLEAN, NEW id \in TumPano, NEW g \in GadgetYa
    PROVE  [acik |-> a, aktif |-> p, duzenleme |-> d, id |-> id, gadgets |-> g] \in Ekranlar
BY DEF Ekranlar

LEMMA EkranBicim ==
    ASSUME NEW e \in Ekranlar
    PROVE  /\ EkranBicimi(e) /\ e.acik \in BOOLEAN /\ e.aktif \in TumPano /\ e.duzenleme \in BOOLEAN
           /\ e.id \in TumPano /\ e.gadgets \in GadgetYa
BY DEF Ekranlar, EkranBicimi

\* e2 shows what e did, or nothing.
Ayni(e, e2) == e2.gadgets = PanoYok \/ (e2.id = e.id /\ e2.gadgets = e.gadgets)

LEMMA GidilirTip ==
    ASSUME NEW e \in Ekranlar, NEW id \in TumPano
    PROVE  /\ Gidilir(e, id) \in Ekranlar /\ Gidilir(e, id).acik /\ Gidilir(e, id).aktif = id
           /\ Gidilir(e, id).duzenleme => Gidilir(e, id) = e
           /\ e.aktif # id => ~Gidilir(e, id).duzenleme
           /\ Ayni(e, Gidilir(e, id))
<1>1. CASE e.aktif = id /\ e.acik
  BY <1>1 DEF Gidilir, Ayni
<1>2. CASE ~(e.aktif = id /\ e.acik)
  <2>1. PICK d \in BOOLEAN : d = FALSE
    OBVIOUS
  <2>2. PICK a \in BOOLEAN : a = TRUE
    OBVIOUS
  <2>3. PICK i \in TumPano : i = IF e.acik THEN e.id ELSE Sistem
    BY EkranBicim DEF TumPano
  <2>4. PICK g \in GadgetYa : g = IF e.acik THEN e.gadgets ELSE PanoYok
    BY EkranBicim DEF GadgetYa
  <2>5. PICK r : r = [e EXCEPT !.aktif = id, !.duzenleme = d, !.acik = a, !.id = i, !.gadgets = g]
    OBVIOUS
  <2>6. Gidilir(e, id) = r
    BY <1>2, <2>1, <2>2, <2>3, <2>4, <2>5 DEF Gidilir
  <2>7. EkranBicimi(e)
    BY EkranBicim
  <2>8. r = [acik |-> a, aktif |-> id, duzenleme |-> d, id |-> i, gadgets |-> g]
    BY <2>5, <2>7 DEF EkranBicimi
  <2>9. r \in Ekranlar
    BY <2>8, EkranKur
  <2>10. r.acik = a /\ r.aktif = id /\ r.duzenleme = d /\ r.id = i /\ r.gadgets = g
    BY <2>8
  <2>11. Ayni(e, r)
    BY <2>3, <2>4, <2>10 DEF Ayni
  <2> QED BY <2>1, <2>2, <2>6, <2>9, <2>10, <2>11
<1> QED BY <1>1, <1>2

\* e and o are what a handler sets.
LEMMA YerlesirSon ==
    ASSUME NEW e \in Ekranlar, NEW o \in [TumPano -> Sorgular], Yerlesir(e, o)
    PROVE  /\ onbellek' \in [TumPano -> Sorgular] /\ \A id \in TumPano : SorguSurer(o[id], onbellek'[id])
           /\ ekran' \in Ekranlar /\ ekran'.acik = e.acik
           /\ ekran'.acik /\ ~ekran'.duzenleme /\ onbellek'[ekran'.aktif].veri # PanoYok =>
                  ekran'.id = ekran'.aktif /\ ekran'.gadgets = onbellek'[ekran'.aktif].veri
           /\ ekran'.acik /\ ekran'.aktif # Sistem => ~onbellek'[ekran'.aktif].hata
           /\ ekran'.duzenleme => ekran' = e
           /\ e.duzenleme /\ e.acik /\ (e.aktif = Sistem \/ ~o[e.aktif].hata) => ekran' = e
           /\ \/ Ayni(e, ekran')
              \/ o[ekran'.id].veri # PanoYok /\ ekran'.gadgets = o[ekran'.id].veri
<1> DEFINE acan(f, q) == IF f.acik /\ (f.aktif # ekran.aktif \/ ~ekran.acik)
                         THEN [q EXCEPT ![f.aktif] = Bakilir(@)] ELSE q
<1>1. PICK ilk : ilk = acan(e, o)
  OBVIOUS
<1>2. PICK e2 : e2 = Kalinir(e, ilk)
  OBVIOUS
<1>3. PICK o2 : o2 = IF e2.aktif = e.aktif THEN ilk ELSE acan(e2, ilk)
  OBVIOUS
<1>4. ekran' = Gosterilen(e2, o2) /\ onbellek' = o2
  BY <1>1, <1>2, <1>3 DEF Yerlesir
<1>5. ASSUME NEW f \in Ekranlar, NEW q \in [TumPano -> Sorgular]
      PROVE  acan(f, q) \in [TumPano -> Sorgular] /\ \A id \in TumPano : SorguSurer(q[id], acan(f, q)[id])
  <2>1. PICK b : b = Bakilir(q[f.aktif])
    OBVIOUS
  <2>2. f.aktif \in TumPano /\ q[f.aktif] \in Sorgular /\ SorguSurer(q[f.aktif], b) /\ b \in Sorgular
    BY <2>1, EkranBicim, BakilirSurer DEF SorguSurer
  <2>3. acan(f, q) = q \/ acan(f, q) = [q EXCEPT ![f.aktif] = b]
    BY <2>1
  <2> HIDE DEF acan
  <2>4. acan(f, q) \in [TumPano -> Sorgular]
    BY <2>2, <2>3
  <2>5. ASSUME NEW id \in TumPano PROVE SorguSurer(q[id], acan(f, q)[id])
    <3>1. acan(f, q)[id] = q[id] \/ (id = f.aktif /\ acan(f, q)[id] = b)
      BY <2>2, <2>3
    <3> QED BY <2>2, <3>1, SorguSurerKendi
  <2> QED BY <2>4, <2>5
<1> HIDE DEF acan
<1>6. ilk \in [TumPano -> Sorgular] /\ \A id \in TumPano : SorguSurer(o[id], ilk[id])
  BY <1>1, <1>5
<1>7. /\ e2 \in Ekranlar /\ e2.acik = e.acik /\ (e2.duzenleme => e2 = e) /\ Ayni(e, e2)
      /\ e2.acik /\ e2.aktif # Sistem => e2 = e /\ ~ilk[e.aktif].hata
      /\ ~(e.acik /\ e.aktif # Sistem /\ ilk[e.aktif].hata) => e2 = e
  <2>1. CASE e.acik /\ e.aktif # Sistem /\ ilk[e.aktif].hata
    <3>1. e2 = Gidilir(e, Sistem) /\ Sistem \in TumPano
      BY <1>2, <2>1 DEF Kalinir, TumPano
    <3> QED BY <2>1, <3>1, GidilirTip
  <2>2. CASE ~(e.acik /\ e.aktif # Sistem /\ ilk[e.aktif].hata)
    BY <1>2, <2>2 DEF Kalinir, Ayni
  <2> QED BY <2>1, <2>2
<1>8. o2 \in [TumPano -> Sorgular] /\ \A id \in TumPano : SorguSurer(ilk[id], o2[id])
  BY <1>3, <1>5, <1>6, <1>7, SorguSurerKendi
<1>9. \A id \in TumPano : SorguSurer(o[id], o2[id])
  BY <1>6, <1>8, SorguSurerGecis
<1>10. e.aktif \in TumPano /\ e2.aktif \in TumPano /\ EkranBicimi(e2) /\ e2.acik \in BOOLEAN /\ e2.duzenleme \in BOOLEAN
  BY <1>7, EkranBicim
<1>11. e2.acik /\ e2.aktif # Sistem => ~o2[e2.aktif].hata
  BY <1>7, <1>8, <1>10 DEF SorguSurer
<1>12. e.duzenleme /\ e.acik /\ (e.aktif = Sistem \/ ~o[e.aktif].hata) => e2 = e
  BY <1>6, <1>7, <1>10 DEF SorguSurer
<1>13. CASE e2.acik /\ ~e2.duzenleme /\ o2[e2.aktif].veri # PanoYok
  <2>1. PICK g : g = o2[e2.aktif].veri
    OBVIOUS
  <2>2. g \in GadgetYa /\ g # PanoYok /\ g = o[e2.aktif].veri
    BY <1>8, <1>9, <1>10, <1>13, <2>1, SorguBicim DEF SorguSurer
  <2>3. ekran' = [e2 EXCEPT !.id = e2.aktif, !.gadgets = g]
    BY <1>4, <1>13, <2>1 DEF Gosterilen
  <2>4. ekran' = [acik |-> e2.acik, aktif |-> e2.aktif, duzenleme |-> e2.duzenleme, id |-> e2.aktif, gadgets |-> g]
    BY <1>10, <2>3 DEF EkranBicimi
  <2>5. ekran' \in Ekranlar
    BY <1>10, <2>2, <2>4, EkranKur
  <2>6. ~(e.duzenleme /\ e.acik /\ (e.aktif = Sistem \/ ~o[e.aktif].hata))
    BY <1>12, <1>13
  <2>7. /\ ekran'.acik = e2.acik /\ ekran'.aktif = e2.aktif /\ ekran'.duzenleme = e2.duzenleme
        /\ ekran'.id = e2.aktif /\ ekran'.gadgets = g
    BY <2>4
  <2>8. onbellek'[e2.aktif].veri = g
    BY <1>4, <2>1
  <2>9. o[ekran'.id].veri # PanoYok /\ ekran'.gadgets = o[ekran'.id].veri
    BY <2>2, <2>7
  <2>10. ekran'.acik /\ ekran'.aktif # Sistem => ~onbellek'[ekran'.aktif].hata
    BY <1>4, <1>11, <2>7
  <2>11. ekran'.acik = e.acik /\ ~ekran'.duzenleme
    BY <1>7, <1>13, <2>7
  <2>12. onbellek' \in [TumPano -> Sorgular] /\ \A id \in TumPano : SorguSurer(o[id], onbellek'[id])
    BY <1>4, <1>8, <1>9
  <2> QED BY <2>5, <2>6, <2>7, <2>8, <2>9, <2>10, <2>11, <2>12
<1>14. CASE ~(e2.acik /\ ~e2.duzenleme /\ o2[e2.aktif].veri # PanoYok)
  <2>1. ekran' = e2
    BY <1>4, <1>14 DEF Gosterilen
  <2> QED BY <1>4, <1>7, <1>8, <1>9, <1>11, <1>12, <1>14, <2>1
<1> QED BY <1>13, <1>14

\* What a handler or an answer does once the effects have run: the edit goes on
\* as it was or ends with nothing in it, and the cache it leaves is good.
LEMMA YerlesirAdim ==
    ASSUME PanoBagli, NEW e \in Ekranlar, NEW o \in [TumPano -> Sorgular], Yerlesir(e, o),
           e.duzenleme => e = ekran, Ayni(ekran, e),
           \A id \in TumPano : Yerinde(o[id]) /\ (onbellek[id].veri # PanoYok => o[id].veri # PanoYok),
           \A id \in Pano : SorguIyi(o[id], soz'[id], id \in yabanci', sunucuPano'[id]),
           e.duzenleme => e.aktif = Sistem \/ ~o[e.aktif].hata,
           UNCHANGED sunucuPano, soz' \in [Pano -> Gadgetlar],
           \A id \in Pano : soz'[id] # {} => soz'[id] \subseteq sunucuPano[id],
           panoIstek' \subseteq panoIstek, panoIstek' # {} => soz' = soz,
           \A r \in panoIstek' :
               /\ r.tur = "ekle" => ~e.acik
               /\ r.tur = "yeni" =>
                      /\ o[r.id].veri = PanoYok \/ r.gadgets \subseteq o[r.id].veri
                      /\ o[r.id].ucus = "gelen" /\ o[r.id].cevap # PanoYok => r.gadgets \subseteq o[r.id].cevap,
           emek' \subseteq emek, cikan'.simdi \subseteq cikan.simdi,
           ~e.duzenleme => emek' = {} /\ cikan'.simdi = {},
           e.duzenleme /\ e.id \in Pano => soz'[e.id] \subseteq e.gadgets \cup cikan'.simdi,
           cikan' = [simdi |-> cikan'.simdi, hep |-> cikan'.hep],
           sayac'.gadget \in Nat,
           sayac' = [gadget |-> sayac'.gadget, hareket |-> sayac'.hareket, hata |-> sayac'.hata]
    PROVE  PanoBagli'
<1>1. /\ PanoTip /\ SozTutulur /\ SorguYerinde /\ EkranBagli /\ DuzenlemeBagli
      /\ (\A r, s \in panoIstek : r = s) /\ \A r \in panoIstek : YazmaBagli(r)
  BY DEF PanoBagli
<1>2. /\ onbellek' \in [TumPano -> Sorgular] /\ (\A id \in TumPano : SorguSurer(o[id], onbellek'[id]))
      /\ ekran' \in Ekranlar /\ ekran'.acik = e.acik
      /\ ekran'.acik /\ ~ekran'.duzenleme /\ onbellek'[ekran'.aktif].veri # PanoYok =>
             ekran'.id = ekran'.aktif /\ ekran'.gadgets = onbellek'[ekran'.aktif].veri
      /\ ekran'.acik /\ ekran'.aktif # Sistem => ~onbellek'[ekran'.aktif].hata
      /\ ekran'.duzenleme => ekran' = e
      /\ e.duzenleme /\ e.acik /\ (e.aktif = Sistem \/ ~o[e.aktif].hata) => ekran' = e
      /\ \/ Ayni(e, ekran')
         \/ o[ekran'.id].veri # PanoYok /\ ekran'.gadgets = o[ekran'.id].veri
  BY YerlesirSon
<1>3. PanoTip'
  BY <1>1, <1>2 DEF PanoTip
<1>4. e.duzenleme => ekran.duzenleme /\ ekran' = ekran /\ e = ekran
  BY <1>1, <1>2 DEF DuzenlemeBagli
<1>5. SozTutulur'
  BY <1>1, <1>4 DEF SozTutulur
<1>6. \A id \in TumPano : /\ onbellek'[id].veri = o[id].veri /\ onbellek'[id].cevap = o[id].cevap
                          /\ onbellek'[id].ucus = "gelen" <=> o[id].ucus = "gelen"
  BY <1>2 DEF SorguSurer
<1>7. \/ Ayni(ekran, ekran')
      \/ o[ekran'.id].veri # PanoYok /\ ekran'.gadgets = o[ekran'.id].veri
  BY <1>2 DEF Ayni
<1>8. ASSUME NEW r \in panoIstek' PROVE YazmaBagli(r)'
  <2>1. YazmaBagli(r) /\ r.id \in TumPano /\ soz' = soz
    BY <1>1, <1>8 DEF PanoTip, Yazmalar
  <2>2. (r.tur # "kaydet" => r.id \in Pano) /\ (r.yer = "okuyan" => r.tur = "ekle")
    BY <2>1 DEF YazmaBagli
  <2>3. IF r.tur = "kaydet" THEN emek' \subseteq r.gadgets ELSE emek' = {}
    BY <2>1 DEF YazmaBagli
  <2>4. /\ r.tur # "sil" /\ r.id \in Pano /\ r.yer = "giden" => soz'[r.id] \subseteq r.gadgets
        /\ r.yer = "olan" => r.id \in Pano /\ (r.tur # "sil" => r.gadgets \subseteq sunucuPano'[r.id])
    BY <2>1 DEF YazmaBagli
  <2>5. r.tur = "ekle" => ~ekran'.acik
    BY <1>2, <1>8
  <2>6. r.tur = "sil" => onbellek'[r.id].veri # PanoYok
    BY <1>6, <2>1 DEF YazmaBagli
  <2>7. ASSUME r.tur = "yeni"
        PROVE  /\ cikan'.simdi = {}
               /\ sunucuPano'[r.id] = PanoYok \/ r.gadgets \subseteq sunucuPano'[r.id]
               /\ onbellek'[r.id].veri = PanoYok \/ r.gadgets \subseteq onbellek'[r.id].veri
               /\ onbellek'[r.id].ucus = "gelen" /\ onbellek'[r.id].cevap # PanoYok =>
                      r.gadgets \subseteq onbellek'[r.id].cevap
               /\ ekran'.id = r.id /\ ekran'.gadgets # PanoYok => r.gadgets \subseteq ekran'.gadgets
    <3>1. cikan'.simdi = {} /\ (sunucuPano'[r.id] = PanoYok \/ r.gadgets \subseteq sunucuPano'[r.id])
      BY <2>1, <2>7 DEF YazmaBagli
    <3>2. /\ onbellek'[r.id].veri = PanoYok \/ r.gadgets \subseteq onbellek'[r.id].veri
          /\ onbellek'[r.id].ucus = "gelen" /\ onbellek'[r.id].cevap # PanoYok =>
                 r.gadgets \subseteq onbellek'[r.id].cevap
      BY <1>6, <1>8, <2>1, <2>7
    <3>3. ekran'.id = r.id /\ ekran'.gadgets # PanoYok => r.gadgets \subseteq ekran'.gadgets
      <4>1. CASE Ayni(ekran, ekran')
        BY <2>1, <2>7, <4>1 DEF YazmaBagli, Ayni
      <4>2. CASE o[ekran'.id].veri # PanoYok /\ ekran'.gadgets = o[ekran'.id].veri
        BY <1>8, <2>7, <4>2
      <4> QED BY <1>7, <4>1, <4>2
    <3> QED BY <3>1, <3>2, <3>3
  <2> QED BY <2>2, <2>3, <2>4, <2>5, <2>6, <2>7 DEF YazmaBagli
<1>9. \A id \in Pano : SorguBagli(id)'
  <2>1. Pano \subseteq TumPano
    BY DEF TumPano
  <2>2. ASSUME NEW id \in Pano PROVE SorguIyi(onbellek'[id], soz'[id], id \in yabanci', sunucuPano'[id])
    BY <1>2, <2>1, SorguSurerIyi
  <2> QED BY <2>2 DEF SorguBagli
<1>10. SorguYerinde'
  <2>1. \A id \in TumPano : Yerinde(onbellek'[id])
    BY <1>2, SorguSurerYerinde
  <2> QED BY <2>1 DEF SorguYerinde
<1>11. EkranBagli'
  <2>1. ekran'.gadgets # PanoYok => onbellek'[ekran'.id].veri # PanoYok
    <3>1. ekran'.id \in TumPano /\ ekran.id \in TumPano
      BY <1>1, <1>2, EkranBicim DEF PanoTip
    <3> QED BY <1>1, <1>6, <1>7, <3>1 DEF EkranBagli, Ayni
  <2> QED BY <1>2, <2>1 DEF EkranBagli
<1>12. DuzenlemeBagli'
  BY <1>1, <1>2, <1>4 DEF DuzenlemeBagli
<1>13. \A r, s \in panoIstek' : r = s
  BY <1>1
<1> QED BY <1>3, <1>5, <1>8, <1>9, <1>10, <1>11, <1>12, <1>13 DEF PanoBagli

-----------------------------------------------------------------------------
(* The operator. *)

SayacTip == sayac.gadget \in Nat /\ sayac = [gadget |-> sayac.gadget, hareket |-> sayac.hareket, hata |-> sayac.hata]

LEMMA SayacArtar ==
    ASSUME SayacTip,
           \/ Hareket \/ HareketGadget \/ UNCHANGED sayac \/ sayac' = [sayac EXCEPT !.hata = @ + 1]
    PROVE  SayacTip' /\ sayac.gadget + 1 \in Nat \ {0}
<1>1. CASE Hareket
  BY <1>1 DEF SayacTip, Hareket
<1>2. CASE HareketGadget
  <2>1. PICK h : h = sayac.hareket + 1
    OBVIOUS
  <2>2. PICK g \in Nat : g = sayac.gadget + 1
    BY DEF SayacTip
  <2>3. sayac' = [sayac EXCEPT !.hareket = h, !.gadget = g]
    BY <1>2, <2>1, <2>2 DEF HareketGadget
  <2>4. sayac' = [gadget |-> g, hareket |-> h, hata |-> sayac.hata]
    BY <2>3 DEF SayacTip
  <2> QED BY <2>2, <2>4 DEF SayacTip
<1>3. CASE UNCHANGED sayac
  BY <1>3 DEF SayacTip
<1>4. CASE sayac' = [sayac EXCEPT !.hata = @ + 1]
  BY <1>4 DEF SayacTip
<1> QED BY <1>1, <1>2, <1>3, <1>4

LEMMA DoluKume == ASSUME NEW g \in GadgetYa, g # PanoYok PROVE g \in Gadgetlar /\ 0 \notin g
BY DEF GadgetYa, Gadgetlar

LEMMA BosKume == ASSUME NEW g \in Gadgetlar PROVE g \in GadgetYa /\ g # PanoYok
BY DEF GadgetYa, Gadgetlar, PanoYok

\* The edit is given up: another dashboard, a cancel, a dialog that closes.
LEMMA PanoBiter ==
    ASSUME PanoBagli, NEW e \in Ekranlar, Yerlesir(e, onbellek), ~e.duzenleme, Ayni(ekran, e),
           panoIstek' \subseteq panoIstek, \A r \in panoIstek' : r.tur # "ekle",
           UNCHANGED <<sunucuPano, soz, yabanci>>, emek' = {}, cikan'.simdi = {},
           cikan' = [simdi |-> cikan'.simdi, hep |-> cikan'.hep], SayacTip'
    PROVE  PanoBagli'
<1>1. /\ PanoTip /\ SozTutulur /\ SorguYerinde /\ (\A id \in Pano : SorguBagli(id))
      /\ onbellek \in [TumPano -> Sorgular] /\ \A r \in panoIstek : YazmaBagli(r)
  BY DEF PanoBagli, PanoTip
<1>2. \A id \in TumPano : Yerinde(onbellek[id])
  BY <1>1 DEF SorguYerinde
<1>3. \A id \in Pano : SorguIyi(onbellek[id], soz'[id], id \in yabanci', sunucuPano'[id])
  BY <1>1 DEF SorguBagli
<1>4. soz' \in [Pano -> Gadgetlar] /\ \A id \in Pano : soz'[id] # {} => soz'[id] \subseteq sunucuPano[id]
  BY <1>1 DEF PanoTip, SozTutulur
<1>5. \A r \in panoIstek' :
          /\ r.tur = "ekle" => ~e.acik
          /\ r.tur = "yeni" =>
                 /\ onbellek[r.id].veri = PanoYok \/ r.gadgets \subseteq onbellek[r.id].veri
                 /\ onbellek[r.id].ucus = "gelen" /\ onbellek[r.id].cevap # PanoYok =>
                        r.gadgets \subseteq onbellek[r.id].cevap
  BY <1>1 DEF YazmaBagli
<1> QED BY <1>1, <1>2, <1>3, <1>4, <1>5, YerlesirAdim DEF SayacTip

LEMMA PanoSec ==
    ASSUME PanoBagli, panoSebep' = {}, (\E id \in TumPano : Sec(id)) \/ Iptal PROVE PanoBagli'
<1>1. PanoTip /\ ekran \in Ekranlar /\ SayacTip /\ ekran.acik
  BY DEF PanoBagli, PanoTip, SayacTip, Sec, Iptal
<1>2. \A r \in panoIstek : r.tur # "ekle"
  BY <1>1 DEF PanoBagli, YazmaBagli
<1>3. /\ UNCHANGED <<sunucuPano, panoIstek, soz, yabanci>> /\ emek' = {} /\ cikan' = [cikan EXCEPT !.simdi = {}]
      /\ Hareket
  BY DEF Sec, Iptal
<1>4. cikan'.simdi = {} /\ cikan' = [simdi |-> cikan'.simdi, hep |-> cikan'.hep]
  BY <1>1, <1>3 DEF PanoTip
<1>5. SayacTip'
  BY <1>1, <1>3, SayacArtar
<1>6. CASE \E id \in TumPano : Sec(id)
  <2>1. PICK id \in TumPano : Sec(id)
    BY <1>6
  <2>2. PICK e : e = Gidilir(ekran, id)
    OBVIOUS
  <2>3. id # ekran.aktif /\ Yerlesir(e, onbellek)
    BY <2>1, <2>2 DEF Sec
  <2>4. e \in Ekranlar /\ ~e.duzenleme /\ Ayni(ekran, e)
    BY <1>1, <2>2, <2>3, GidilirTip
  <2> QED BY <1>2, <1>3, <1>4, <1>5, <2>3, <2>4, PanoBiter
<1>7. CASE Iptal
  <2>1. PICK d \in BOOLEAN : d = FALSE
    OBVIOUS
  <2>2. PICK e : e = [ekran EXCEPT !.duzenleme = d]
    OBVIOUS
  <2>3. Yerlesir(e, onbellek)
    BY <1>7, <2>1, <2>2 DEF Iptal
  <2>4. e = [acik |-> ekran.acik, aktif |-> ekran.aktif, duzenleme |-> d, id |-> ekran.id, gadgets |-> ekran.gadgets]
    BY <1>1, <2>2 DEF Ekranlar
  <2>5. e \in Ekranlar /\ ~e.duzenleme /\ Ayni(ekran, e)
    <3>1. e \in Ekranlar
      BY <1>1, <2>4, EkranBicim, EkranKur
    <3> QED BY <2>1, <2>4, <3>1 DEF Ayni
  <2> QED BY <1>2, <1>3, <1>4, <1>5, <2>3, <2>5, PanoBiter
<1> QED BY <1>6, <1>7

LEMMA PanoDuzenleAdim == ASSUME PanoBagli, panoSebep' = {}, PanoDuzenle PROVE PanoBagli'
<1>1. /\ PanoTip /\ SozTutulur /\ SorguYerinde /\ EkranBagli /\ DuzenlemeBagli /\ SayacTip
      /\ (\A r \in panoIstek : YazmaBagli(r)) /\ (\A id \in Pano : SorguBagli(id)) /\ ekran \in Ekranlar
  BY DEF PanoBagli, PanoTip, SayacTip
<1>2. PICK d \in BOOLEAN : d = TRUE
  OBVIOUS
<1>3. /\ Hareket /\ ekran.acik /\ ekran.gadgets # PanoYok /\ ~ekran.duzenleme
      /\ ekran' = [ekran EXCEPT !.duzenleme = d]
      /\ UNCHANGED <<sunucuPano, onbellek, panoIstek, soz, emek, cikan, yabanci>>
  BY <1>2 DEF PanoDuzenle, Doc
<1>4. ~onbellek[ekran.id].bayat /\ ekran.id \notin yabanci /\ ekran.id = ekran.aktif
  BY DEF PanoDuzenle, PanoSebep, Eger
<1>5. ekran' = [acik |-> ekran.acik, aktif |-> ekran.aktif, duzenleme |-> d, id |-> ekran.id, gadgets |-> ekran.gadgets]
  BY <1>1, <1>3 DEF Ekranlar
<1>6. /\ ekran'.acik = ekran.acik /\ ekran'.aktif = ekran.aktif /\ ekran'.duzenleme
      /\ ekran'.id = ekran.id /\ ekran'.gadgets = ekran.gadgets
  BY <1>2, <1>5
<1>7. ekran' \in Ekranlar
  BY <1>1, <1>5, EkranBicim, EkranKur
<1>8. PanoTip'
  <2>1. SayacTip'
    BY <1>1, <1>3, SayacArtar
  <2> QED BY <1>1, <1>3, <1>7, <2>1 DEF PanoTip, SayacTip
<1>9. SozTutulur'
  BY <1>1, <1>3 DEF SozTutulur
<1>10. \A r \in panoIstek' : YazmaBagli(r)'
  BY <1>1, <1>3, <1>6 DEF YazmaBagli
<1>11. \A id \in Pano : SorguBagli(id)'
  BY <1>1, <1>3 DEF SorguBagli
<1>12. SorguYerinde' /\ EkranBagli'
  BY <1>1, <1>3, <1>6 DEF SorguYerinde, EkranBagli
<1>13. DuzenlemeBagli'
  <2>1. ekran.id \in Pano => soz[ekran.id] \subseteq ekran.gadgets
    BY <1>1, <1>3, <1>4 DEF EkranBagli, SorguBagli, SorguIyi
  <2> QED BY <1>1, <1>3, <1>4, <1>6, <2>1 DEF DuzenlemeBagli
<1> QED BY <1>3, <1>8, <1>9, <1>10, <1>11, <1>12, <1>13 DEF PanoBagli

\* A gadget added or removed while nothing is on its way.
LEMMA PanoGadget ==
    ASSUME PanoBagli, panoSebep' = {}, GadgetEkle \/ \E g \in 1 .. MaxGadget : GadgetKaldir(g)
    PROVE  PanoBagli'
<1>1. /\ PanoTip /\ SozTutulur /\ SorguYerinde /\ EkranBagli /\ DuzenlemeBagli /\ SayacTip
      /\ (\A id \in Pano : SorguBagli(id)) /\ ekran \in Ekranlar
  BY DEF PanoBagli, PanoTip, SayacTip
<1>2. /\ ekran.acik /\ ekran.gadgets # PanoYok /\ ekran.duzenleme /\ panoIstek = {}
      /\ Hareket \/ HareketGadget
      /\ UNCHANGED <<sunucuPano, onbellek, panoIstek, soz, yabanci>>
  BY DEF GadgetEkle, GadgetKaldir, Doc, PanoSebep, Eger, Bekler
<1>3. ekran.gadgets \in Gadgetlar
  BY <1>1, <1>2, EkranBicim, DoluKume
<1>4. PICK gs \in Gadgetlar :
          /\ ekran' = [ekran EXCEPT !.gadgets = gs]
          /\ emek' # {} => emek' \subseteq gs
          /\ cikan' = [simdi |-> cikan'.simdi, hep |-> cikan'.hep]
          /\ ekran.gadgets \cup cikan.simdi \subseteq gs \cup cikan'.simdi
  <2>1. CASE GadgetEkle
    <3>1. PICK gs : gs = ekran.gadgets \cup {sayac.gadget + 1}
      OBVIOUS
    <3>2. /\ ekran' = [ekran EXCEPT !.gadgets = gs] /\ emek' = emek \cup {sayac.gadget + 1} /\ UNCHANGED cikan
      BY <2>1, <3>1 DEF GadgetEkle
    <3>3. gs \in Gadgetlar
      BY <1>1, <1>2, <1>3, <3>1, SayacArtar DEF Gadgetlar
    <3> QED BY <1>1, <3>1, <3>2, <3>3 DEF SozTutulur, PanoTip
  <2>2. CASE \E g \in 1 .. MaxGadget : GadgetKaldir(g)
    <3>1. PICK g \in 1 .. MaxGadget : GadgetKaldir(g)
      BY <2>2
    <3>2. PICK gs : gs = ekran.gadgets \ {g}
      OBVIOUS
    <3>3. /\ ekran' = [ekran EXCEPT !.gadgets = gs] /\ emek' = emek \ {g}
          /\ cikan' = [cikan EXCEPT !.simdi = @ \cup {g}]
      BY <3>1, <3>2 DEF GadgetKaldir
    <3>4. gs \in Gadgetlar
      BY <1>3, <3>2 DEF Gadgetlar
    <3>5. cikan'.simdi = cikan.simdi \cup {g} /\ cikan' = [simdi |-> cikan'.simdi, hep |-> cikan'.hep]
      BY <1>1, <3>3 DEF PanoTip
    <3> QED BY <1>1, <3>2, <3>3, <3>4, <3>5 DEF SozTutulur
  <2> QED BY <2>1, <2>2
<1>5. ekran' = [acik |-> ekran.acik, aktif |-> ekran.aktif, duzenleme |-> ekran.duzenleme, id |-> ekran.id, gadgets |-> gs]
  BY <1>1, <1>4 DEF Ekranlar
<1>6. /\ ekran'.acik = ekran.acik /\ ekran'.aktif = ekran.aktif /\ ekran'.duzenleme
      /\ ekran'.id = ekran.id /\ ekran'.gadgets = gs /\ gs # PanoYok /\ gs \in GadgetYa
  BY <1>2, <1>5, BosKume
<1>7. ekran' \in Ekranlar
  BY <1>1, <1>5, <1>6, EkranBicim, EkranKur
<1>8. PanoTip'
  <2>1. SayacTip'
    BY <1>1, <1>2, SayacArtar
  <2> QED BY <1>1, <1>2, <1>4, <1>7, <2>1 DEF PanoTip, SayacTip
<1>9. SozTutulur'
  BY <1>1, <1>2, <1>4, <1>6 DEF SozTutulur
<1>10. \A id \in Pano : SorguBagli(id)'
  BY <1>1, <1>2 DEF SorguBagli
<1>11. SorguYerinde' /\ EkranBagli'
  BY <1>1, <1>2, <1>6 DEF SorguYerinde, EkranBagli
<1>12. DuzenlemeBagli'
  BY <1>1, <1>2, <1>4, <1>6 DEF DuzenlemeBagli
<1> QED BY <1>2, <1>8, <1>9, <1>10, <1>11, <1>12 DEF PanoBagli

\* Only writes, the server, promises and what is being added change: what is
\* left is to follow them.
LEMMA PanoSunucuYazar ==
    ASSUME PanoBagli, UNCHANGED <<ekran, onbellek, yabanci>>,
           sunucuPano' \in [Pano -> GadgetYa],
           \A id \in Pano : soz'[id] # {} => soz'[id] \subseteq sunucuPano'[id],
           \A id \in Pano : sunucuPano'[id] = PanoYok => sunucuPano[id] = PanoYok \/ onbellek[id].veri # PanoYok,
           soz' \in [Pano -> Gadgetlar], \A id \in Pano : soz'[id] \subseteq soz[id],
           panoIstek' \subseteq Yazmalar, \A r, s \in panoIstek' : r = s, \A r \in panoIstek' : YazmaBagli(r)',
           emek' \subseteq emek, cikan'.simdi = cikan.simdi \/ (cikan'.simdi = {} /\ ekran.duzenleme),
           ekran.duzenleme /\ ekran.id \in Pano => soz'[ekran.id] \subseteq ekran.gadgets \cup cikan'.simdi,
           cikan' = [simdi |-> cikan'.simdi, hep |-> cikan'.hep], SayacTip'
    PROVE  PanoBagli'
<1>1. /\ PanoTip /\ SozTutulur /\ SorguYerinde /\ EkranBagli /\ DuzenlemeBagli
      /\ (\A id \in Pano : SorguBagli(id))
  BY DEF PanoBagli
<1>2. PanoTip'
  BY <1>1 DEF PanoTip, SayacTip
<1>3. SozTutulur'
  BY <1>1 DEF SozTutulur
<1>4. \A id \in Pano : SorguBagli(id)'
  BY <1>1 DEF SorguBagli, SorguIyi
<1>5. SorguYerinde' /\ EkranBagli'
  BY <1>1 DEF SorguYerinde, EkranBagli
<1>6. DuzenlemeBagli'
  BY <1>1 DEF DuzenlemeBagli
<1> QED BY <1>2, <1>3, <1>4, <1>5, <1>6 DEF PanoBagli

LEMMA PanoYazar ==
    ASSUME PanoBagli, UNCHANGED <<sunucuPano, ekran, onbellek, yabanci>>,
           soz' \in [Pano -> Gadgetlar], \A id \in Pano : soz'[id] \subseteq soz[id],
           panoIstek' \subseteq Yazmalar, \A r, s \in panoIstek' : r = s, \A r \in panoIstek' : YazmaBagli(r)',
           emek' \subseteq emek, cikan'.simdi = cikan.simdi \/ (cikan'.simdi = {} /\ ekran.duzenleme),
           ekran.duzenleme /\ ekran.id \in Pano => soz'[ekran.id] \subseteq ekran.gadgets \cup cikan'.simdi,
           cikan' = [simdi |-> cikan'.simdi, hep |-> cikan'.hep], SayacTip'
    PROVE  PanoBagli'
<1>1. PanoTip /\ SozTutulur
  BY DEF PanoBagli
<1>2. /\ sunucuPano' \in [Pano -> GadgetYa]
      /\ \A id \in Pano : soz'[id] # {} => soz'[id] \subseteq sunucuPano'[id]
  BY <1>1 DEF PanoTip, SozTutulur
<1> QED BY <1>2, PanoSunucuYazar

LEMMA PanoKaydetAdim == ASSUME PanoBagli, panoSebep' = {}, PanoKaydet PROVE PanoBagli'
<1>1. /\ PanoTip /\ SozTutulur /\ DuzenlemeBagli /\ SayacTip /\ ekran \in Ekranlar
  BY DEF PanoBagli, PanoTip, SayacTip
<1>2. /\ Hareket /\ ekran.gadgets # PanoYok /\ ekran.duzenleme /\ panoIstek = {}
      /\ UNCHANGED <<sunucuPano, ekran, onbellek, emek, yabanci>>
      /\ cikan' = [simdi |-> {}, hep |-> cikan.hep \cup {<<ekran.id, g>> : g \in cikan.simdi}]
      /\ soz' = IF ekran.id = Sistem THEN soz ELSE [soz EXCEPT ![ekran.id] = @ \ cikan.simdi]
  BY DEF PanoKaydet, Doc, PanoSebep, Eger, Bekler
<1>3. PICK r : r = [tur |-> "kaydet", id |-> ekran.id, gadgets |-> ekran.gadgets, yer |-> "giden"]
  OBVIOUS
<1>4. panoIstek' = {r}
  BY <1>2, <1>3 DEF PanoKaydet, Yollanir
<1>5. ekran.id \in TumPano /\ ekran.gadgets \in Gadgetlar /\ soz \in [Pano -> Gadgetlar]
  BY <1>1, <1>2, EkranBicim, DoluKume DEF PanoTip
<1>6. r \in Yazmalar /\ r.tur = "kaydet" /\ r.id = ekran.id /\ r.gadgets = ekran.gadgets /\ r.yer = "giden"
  BY <1>3, <1>5 DEF Yazmalar
<1>7. ekran.id # Sistem => ekran.id \in Pano
  BY <1>5 DEF TumPano
<1>8. soz' \in [Pano -> Gadgetlar] /\ \A id \in Pano : soz'[id] \subseteq soz[id]
  BY <1>2, <1>5, <1>7 DEF Gadgetlar
<1>9. ekran.id \in Pano => soz'[ekran.id] \subseteq ekran.gadgets
  BY <1>1, <1>2, <1>5, PanoVarsayim DEF DuzenlemeBagli
<1>10. YazmaBagli(r)'
  BY <1>1, <1>2, <1>6, <1>9 DEF YazmaBagli, SozTutulur
<1>11. SayacTip'
  BY <1>1, <1>2, SayacArtar
<1>12. cikan'.simdi = {} /\ cikan' = [simdi |-> cikan'.simdi, hep |-> cikan'.hep]
  BY <1>2
<1> QED BY <1>2, <1>4, <1>6, <1>8, <1>9, <1>10, <1>11, <1>12, PanoYazar

LEMMA PanoSilAdim == ASSUME PanoBagli, panoSebep' = {}, PanoSil PROVE PanoBagli'
<1>1. /\ PanoTip /\ SozTutulur /\ EkranBagli /\ DuzenlemeBagli /\ SayacTip /\ ekran \in Ekranlar
  BY DEF PanoBagli, PanoTip, SayacTip
<1>2. /\ Hareket /\ ekran.gadgets # PanoYok /\ ekran.duzenleme /\ ekran.aktif # Sistem /\ panoIstek = {}
      /\ UNCHANGED <<sunucuPano, ekran, onbellek, soz, cikan, yabanci>> /\ emek' = {}
      /\ ekran.id = ekran.aktif
  BY DEF PanoSil, Doc, PanoSebep, Eger, Bekler
<1>3. PICK r : r = [tur |-> "sil", id |-> ekran.id, gadgets |-> {}, yer |-> "giden"]
  OBVIOUS
<1>4. panoIstek' = {r}
  BY <1>2, <1>3 DEF PanoSil, Yollanir
<1>5. ekran.id \in TumPano /\ ekran.id \in Pano /\ {} \in Gadgetlar
  BY <1>1, <1>2, EkranBicim DEF TumPano, Gadgetlar
<1>6. r \in Yazmalar /\ r.tur = "sil" /\ r.id = ekran.id /\ r.yer = "giden"
  BY <1>3, <1>5 DEF Yazmalar
<1>7. YazmaBagli(r)'
  BY <1>1, <1>2, <1>5, <1>6 DEF YazmaBagli, EkranBagli
<1>8. SayacTip'
  BY <1>1, <1>2, SayacArtar
<1>9. /\ soz' \in [Pano -> Gadgetlar] /\ cikan' = [simdi |-> cikan'.simdi, hep |-> cikan'.hep]
      /\ ekran.id \in Pano => soz'[ekran.id] \subseteq ekran.gadgets \cup cikan'.simdi
  BY <1>1, <1>2 DEF PanoTip, DuzenlemeBagli
<1> QED BY <1>2, <1>4, <1>6, <1>7, <1>8, <1>9, PanoYazar

LEMMA YeniPanoAdim == ASSUME PanoBagli, panoSebep' = {}, NEW kopya, YeniPano(kopya) PROVE PanoBagli'
<1>1. /\ PanoTip /\ SozTutulur /\ EkranBagli /\ DuzenlemeBagli /\ SayacTip /\ ekran \in Ekranlar
      /\ \A id \in Pano : SorguBagli(id)
  BY DEF PanoBagli, PanoTip, SayacTip
<1>2. /\ Hareket /\ ekran.acik /\ ~ekran.duzenleme /\ (kopya => ekran.gadgets # PanoYok) /\ panoIstek = {}
      /\ UNCHANGED <<sunucuPano, ekran, onbellek, soz, emek, cikan, yabanci>>
  BY DEF YeniPano, Doc, PanoSebep, Eger, Bekler
<1>3. PICK gs : gs = IF kopya THEN ekran.gadgets ELSE {}
  OBVIOUS
<1>4. PICK id \in Pano : sunucuPano[id] = PanoYok /\ onbellek[id].veri = PanoYok /\ Yollanir("yeni", id, gs)
  BY <1>3 DEF YeniPano
<1>5. PICK r : r = [tur |-> "yeni", id |-> id, gadgets |-> gs, yer |-> "giden"]
  OBVIOUS
<1>6. panoIstek' = {r}
  BY <1>2, <1>4, <1>5 DEF Yollanir
<1>7. gs \in Gadgetlar
  BY <1>1, <1>2, <1>3, EkranBicim, DoluKume DEF Gadgetlar
<1>8. r \in Yazmalar /\ r.tur = "yeni" /\ r.id = id /\ r.yer = "giden"
  BY <1>5, <1>7 DEF Yazmalar, TumPano
<1>9. YazmaBagli(r)'
  <2>1. soz[id] = {}
    <3>1. soz[id] \in Gadgetlar
      BY <1>1 DEF PanoTip
    <3> QED BY <1>1, <1>4, <3>1 DEF SozTutulur, PanoYok, Gadgetlar
  <2>2. onbellek[id].ucus = "gelen" => onbellek[id].cevap = PanoYok
    BY <1>1, <1>4 DEF SorguBagli, SorguIyi
  <2>3. ~(ekran.id = id /\ ekran.gadgets # PanoYok)
    BY <1>1, <1>4 DEF EkranBagli
  <2>4. emek = {} /\ cikan.simdi = {}
    BY <1>1, <1>2 DEF SozTutulur, DuzenlemeBagli
  <2> QED BY <1>2, <1>4, <1>8, <2>1, <2>2, <2>3, <2>4 DEF YazmaBagli
<1>10. SayacTip'
  BY <1>1, <1>2, SayacArtar
<1>11. /\ soz' \in [Pano -> Gadgetlar] /\ cikan' = [simdi |-> cikan'.simdi, hep |-> cikan'.hep]
  BY <1>1, <1>2 DEF PanoTip
<1> QED BY <1>2, <1>6, <1>8, <1>9, <1>10, <1>11, PanoYazar

LEMMA EkleOkurAdim == ASSUME PanoBagli, NEW r \in panoIstek, EkleOkur(r) PROVE PanoBagli'
<1>1. /\ PanoTip /\ SozTutulur /\ DuzenlemeBagli /\ SayacTip /\ (\A p, q \in panoIstek : p = q) /\ YazmaBagli(r)
      /\ r \in Yazmalar
  BY DEF PanoBagli, PanoTip, SayacTip
<1>2. /\ r.yer = "okuyan" /\ sunucuPano[r.id] # PanoYok
      /\ UNCHANGED <<sunucuPano, ekran, onbellek, sayac, soz, emek, cikan, yabanci>>
  BY DEF EkleOkur
<1>3. PICK gs : gs = r.gadgets \cup sunucuPano[r.id]
  OBVIOUS
<1>4. PICK y \in {"giden", "okuyan", "olan", "olmayan"} : y = "giden"
  OBVIOUS
<1>5. PICK s : s = [r EXCEPT !.gadgets = gs, !.yer = y]
  OBVIOUS
<1>6. panoIstek' = {s}
  <2>1. panoIstek' = (panoIstek \ {r}) \cup {s}
    BY <1>3, <1>4, <1>5 DEF EkleOkur
  <2> QED BY <1>1, <2>1
<1>7. s = [tur |-> r.tur, id |-> r.id, gadgets |-> gs, yer |-> y]
  BY <1>1, <1>5 DEF Yazmalar
<1>8. gs \in Gadgetlar \/ r.id \notin Pano
  <2> SUFFICES ASSUME r.id \in Pano PROVE gs \in Gadgetlar
    OBVIOUS
  <2>1. sunucuPano[r.id] \in Gadgetlar /\ r.gadgets \in Gadgetlar
    BY <1>1, <1>2, DoluKume DEF PanoTip, Yazmalar
  <2> QED BY <1>3, <2>1 DEF Gadgetlar
<1>9. r.tur = "ekle" /\ r.id \in Pano
  BY <1>1, <1>2 DEF YazmaBagli
<1>10. s.tur = "ekle" /\ s.id = r.id /\ s.gadgets = gs /\ s.yer = "giden"
  BY <1>4, <1>7, <1>9
<1>11. s \in Yazmalar
  <2> DEFINE t == r.tur
  <2>1. t \in {"kaydet", "sil", "yeni", "ekle"} /\ r.id \in TumPano
    BY <1>1 DEF Yazmalar
  <2> HIDE DEF t
  <2> QED BY <1>7, <1>8, <1>9, <2>1 DEF Yazmalar, t
<1>12. YazmaBagli(s)'
  <2>1. soz[r.id] \subseteq gs
    BY <1>1, <1>3, <1>9 DEF SozTutulur
  <2>2. ~ekran.acik /\ emek = {}
    BY <1>1, <1>9 DEF YazmaBagli
  <2> QED BY <1>2, <1>9, <1>10, <2>1, <2>2 DEF YazmaBagli
<1>13. /\ soz' \in [Pano -> Gadgetlar] /\ cikan' = [simdi |-> cikan'.simdi, hep |-> cikan'.hep] /\ SayacTip'
       /\ ekran.duzenleme /\ ekran.id \in Pano => soz'[ekran.id] \subseteq ekran.gadgets \cup cikan'.simdi
  BY <1>1, <1>2 DEF PanoTip, SayacTip, DuzenlemeBagli
<1> QED BY <1>2, <1>6, <1>11, <1>12, <1>13, PanoYazar

LEMMA PanoyaEkleAdim == ASSUME PanoBagli, NEW id \in Pano, PanoyaEkle(id) PROVE PanoBagli'
<1>1. /\ PanoTip /\ SozTutulur /\ SorguYerinde /\ EkranBagli /\ DuzenlemeBagli /\ SayacTip
      /\ (\A p \in Pano : SorguBagli(p)) /\ ekran \in Ekranlar /\ id \in TumPano
  BY DEF PanoBagli, PanoTip, SayacTip, TumPano
<1>2. PICK f \in BOOLEAN : f = FALSE
  OBVIOUS
<1>3. /\ HareketGadget /\ panoIstek = {} /\ ekran' = [ekran EXCEPT !.acik = f, !.duzenleme = f]
      /\ emek' = {} /\ cikan' = [cikan EXCEPT !.simdi = {}]
      /\ UNCHANGED <<sunucuPano, onbellek, soz, yabanci>>
  BY <1>2 DEF PanoyaEkle, Bekler
<1>4. PICK gs : gs = {sayac.gadget + 1}
  OBVIOUS
<1>5. gs \in Gadgetlar
  BY <1>1, <1>3, <1>4, SayacArtar DEF Gadgetlar
<1>6. PICK y \in {"giden", "okuyan"} :
          /\ panoIstek' = {[tur |-> "ekle", id |-> id, gadgets |-> gs, yer |-> y]}
          /\ y = "giden" => sunucuPano[id] = PanoYok
  BY <1>3, <1>4 DEF PanoyaEkle, Yollanir
<1>7. PICK r : r = [tur |-> "ekle", id |-> id, gadgets |-> gs, yer |-> y]
  OBVIOUS
<1>8. panoIstek' = {r} /\ r \in Yazmalar /\ r.tur = "ekle" /\ r.id = id /\ r.yer = y
  BY <1>1, <1>5, <1>6, <1>7 DEF Yazmalar
<1>9. PICK a \in GadgetYa : a = ekran.gadgets
  BY <1>1, EkranBicim
<1>10. ekran' = [acik |-> f, aktif |-> ekran.aktif, duzenleme |-> f, id |-> ekran.id, gadgets |-> a]
  BY <1>1, <1>3, <1>9 DEF Ekranlar
<1>11. ekran' \in Ekranlar
  BY <1>1, <1>10, EkranBicim, EkranKur
<1>12. ~ekran'.acik /\ ~ekran'.duzenleme /\ ekran'.id = ekran.id /\ ekran'.gadgets = ekran.gadgets
  BY <1>2, <1>9, <1>10
<1>13. cikan'.simdi = {} /\ cikan' = [simdi |-> cikan'.simdi, hep |-> cikan'.hep]
  BY <1>1, <1>3 DEF PanoTip
<1>14. PanoTip'
  <2>1. SayacTip'
    BY <1>1, <1>3, SayacArtar
  <2> QED BY <1>1, <1>3, <1>8, <1>11, <1>13, <2>1 DEF PanoTip, SayacTip
<1>15. YazmaBagli(r)'
  <2>1. y = "giden" => soz[id] = {}
    <3>1. soz[id] \in Gadgetlar
      BY <1>1 DEF PanoTip
    <3> QED BY <1>1, <1>6, <3>1 DEF SozTutulur, PanoYok, Gadgetlar
  <2> QED BY <1>3, <1>6, <1>8, <1>12, <2>1 DEF YazmaBagli
<1>16. SozTutulur' /\ DuzenlemeBagli'
  BY <1>1, <1>3, <1>12, <1>13 DEF SozTutulur, DuzenlemeBagli
<1>17. SorguYerinde' /\ EkranBagli' /\ \A p \in Pano : SorguBagli(p)'
  BY <1>1, <1>3, <1>12 DEF SorguYerinde, EkranBagli, SorguBagli
<1> QED BY <1>8, <1>14, <1>15, <1>16, <1>17 DEF PanoBagli

\* The server takes a write, or refuses it.
LEMMA PanoIsler == ASSUME PanoBagli, NEW r \in panoIstek, Isler(r) PROVE PanoBagli'
<1>1. /\ PanoTip /\ SozTutulur /\ EkranBagli /\ DuzenlemeBagli /\ SayacTip /\ (\A p, q \in panoIstek : p = q)
      /\ YazmaBagli(r) /\ r \in Yazmalar
  BY DEF PanoBagli, PanoTip, SayacTip
<1>2. /\ r.yer = "giden" /\ UNCHANGED <<ekran, onbellek, sayac, emek, cikan, yabanci>>
      /\ sunucuPano' = IF PanoKabul(r) THEN [sunucuPano EXCEPT ![r.id] = IF r.tur = "sil" THEN PanoYok ELSE r.gadgets]
                       ELSE sunucuPano
      /\ soz' = IF PanoKabul(r) /\ r.tur = "sil" THEN [soz EXCEPT ![r.id] = {}] ELSE soz
  BY DEF Isler
<1>3. PICK y \in {"giden", "okuyan", "olan", "olmayan"} : y = IF PanoKabul(r) THEN "olan" ELSE "olmayan"
  OBVIOUS
<1>4. PICK s : s = [r EXCEPT !.yer = y]
  OBVIOUS
<1>5. panoIstek' = {s}
  <2>1. panoIstek' = (panoIstek \ {r}) \cup {s}
    BY <1>3, <1>4 DEF Isler
  <2> QED BY <1>1, <2>1
<1>6. s = [tur |-> r.tur, id |-> r.id, gadgets |-> r.gadgets, yer |-> y]
  BY <1>1, <1>4 DEF Yazmalar
<1>7. s \in Yazmalar /\ s.tur = r.tur /\ s.id = r.id /\ s.gadgets = r.gadgets /\ s.yer = y /\ y # "giden" /\ y # "okuyan"
  BY <1>1, <1>3, <1>6 DEF Yazmalar
<1>8. PanoKabul(r) => r.id \in Pano
  BY <1>1 DEF PanoKabul, Yazmalar, TumPano
<1>9. /\ r.gadgets \in Gadgetlar /\ r.gadgets \in GadgetYa /\ r.gadgets # PanoYok /\ PanoYok \in GadgetYa
      /\ {} \in Gadgetlar
  BY <1>1, BosKume DEF Yazmalar, GadgetYa, Gadgetlar
<1>10. sunucuPano' \in [Pano -> GadgetYa] /\ soz' \in [Pano -> Gadgetlar]
  BY <1>1, <1>2, <1>8, <1>9 DEF PanoTip
<1>11. ASSUME NEW id \in Pano
       PROVE  /\ soz'[id] \subseteq soz[id]
              /\ soz'[id] # {} => soz'[id] \subseteq sunucuPano'[id]
              /\ sunucuPano'[id] = PanoYok => sunucuPano[id] = PanoYok \/ onbellek[id].veri # PanoYok
  <2>1. soz \in [Pano -> Gadgetlar] /\ sunucuPano \in [Pano -> GadgetYa]
    BY <1>1 DEF PanoTip
  <2>2. CASE PanoKabul(r) /\ id = r.id /\ r.tur = "sil"
    BY <1>1, <1>2, <2>1, <2>2 DEF YazmaBagli
  <2>3. CASE PanoKabul(r) /\ id = r.id /\ r.tur # "sil"
    BY <1>1, <1>2, <1>9, <2>1, <2>3 DEF YazmaBagli
  <2>4. CASE ~(PanoKabul(r) /\ id = r.id)
    <3>1. soz'[id] = soz[id] /\ sunucuPano'[id] = sunucuPano[id]
      BY <1>2, <2>1, <2>4
    <3> QED BY <1>1, <3>1 DEF SozTutulur
  <2> QED BY <2>2, <2>3, <2>4
<1>12. YazmaBagli(s)'
  <2>1. y = "olan" => r.id \in Pano /\ (r.tur # "sil" => r.gadgets \subseteq sunucuPano'[r.id])
    BY <1>1, <1>2, <1>3, <1>8 DEF PanoTip
  <2>2. r.tur = "yeni" => sunucuPano'[r.id] = PanoYok \/ r.gadgets \subseteq sunucuPano'[r.id]
    BY <1>1, <1>2, <1>8 DEF PanoTip, YazmaBagli
  <2> QED BY <1>1, <1>2, <1>7, <2>1, <2>2 DEF YazmaBagli
<1>13. /\ cikan' = [simdi |-> cikan'.simdi, hep |-> cikan'.hep] /\ SayacTip'
       /\ ekran.duzenleme /\ ekran.id \in Pano => soz'[ekran.id] \subseteq ekran.gadgets \cup cikan'.simdi
  <2>1. SayacTip' /\ cikan' = [simdi |-> cikan'.simdi, hep |-> cikan'.hep]
    BY <1>1, <1>2 DEF PanoTip, SayacTip
  <2>2. ekran.duzenleme /\ ekran.id \in Pano => soz[ekran.id] \subseteq ekran.gadgets \cup cikan.simdi
    BY <1>1 DEF DuzenlemeBagli
  <2> QED BY <1>2, <1>11, <2>1, <2>2
<1> QED BY <1>2, <1>5, <1>7, <1>10, <1>11, <1>12, <1>13, PanoSunucuYazar

LEMMA PanoBaskasi == ASSUME PanoBagli, panoSebep' = {}, NEW id \in Pano, BaskasiEkler(id) PROVE PanoBagli'
<1>1. /\ PanoTip /\ SozTutulur /\ SorguYerinde /\ EkranBagli /\ DuzenlemeBagli /\ SayacTip
      /\ (\A p \in Pano : SorguBagli(p)) /\ (\A r \in panoIstek : YazmaBagli(r)) /\ (\A r, s \in panoIstek : r = s)
      /\ sunucuPano \in [Pano -> GadgetYa] /\ soz \in [Pano -> Gadgetlar]
  BY DEF PanoBagli, PanoTip, SayacTip
<1>2. PICK g : g = sayac.gadget + 1
  OBVIOUS
<1>3. /\ HareketGadget /\ sunucuPano[id] # PanoYok
      /\ sunucuPano' = [sunucuPano EXCEPT ![id] = @ \cup {g}]
      /\ soz' = [soz EXCEPT ![id] = @ \cup {g}]
      /\ yabanci' = yabanci \cup {id}
      /\ ~(ekran.duzenleme /\ ekran.id = id) /\ \A r \in panoIstek : r.id # id
      /\ UNCHANGED <<ekran, onbellek, panoIstek, emek, cikan>>
  BY <1>2 DEF BaskasiEkler, PanoSebep, Eger
<1>4. g \in Nat \ {0} /\ sunucuPano[id] \in Gadgetlar
  BY <1>1, <1>2, <1>3, SayacArtar, DoluKume
<1>5. PICK v : v = sunucuPano[id] \cup {g}
  OBVIOUS
<1>6. v \in Gadgetlar /\ v \in GadgetYa /\ v # PanoYok
  BY <1>4, <1>5, BosKume DEF Gadgetlar
<1>7. sunucuPano' = [sunucuPano EXCEPT ![id] = v] /\ sunucuPano' \in [Pano -> GadgetYa] /\ soz' \in [Pano -> Gadgetlar]
  <2>1. soz[id] \cup {g} \in Gadgetlar
    BY <1>1, <1>4 DEF Gadgetlar
  <2>2. soz' \in [Pano -> Gadgetlar]
    BY <1>1, <1>3, <2>1
  <2> QED BY <1>1, <1>3, <1>5, <1>6, <2>2
<1>8. /\ sunucuPano'[id] = v /\ soz'[id] = soz[id] \cup {g}
      /\ \A p \in Pano \ {id} : sunucuPano'[p] = sunucuPano[p] /\ soz'[p] = soz[p]
  BY <1>1, <1>3, <1>7
<1>9. PanoTip'
  <2>1. SayacTip'
    BY <1>1, <1>3, SayacArtar
  <2> QED BY <1>1, <1>3, <1>7, <2>1 DEF PanoTip, SayacTip
<1>10. SozTutulur'
  BY <1>1, <1>3, <1>5, <1>8 DEF SozTutulur
<1>11. \A r \in panoIstek' : YazmaBagli(r)'
  BY <1>1, <1>3, <1>8 DEF YazmaBagli
<1>12. \A p \in Pano : SorguBagli(p)'
  BY <1>1, <1>3, <1>6, <1>8 DEF SorguBagli, SorguIyi
<1>13. SorguYerinde' /\ EkranBagli' /\ DuzenlemeBagli'
  BY <1>1, <1>3, <1>8 DEF SorguYerinde, EkranBagli, DuzenlemeBagli
<1> QED BY <1>1, <1>3, <1>9, <1>10, <1>11, <1>12, <1>13 DEF PanoBagli

-----------------------------------------------------------------------------
(* Answers. *)

LEMMA PanoDuser == ASSUME PanoBagli, NEW r \in panoIstek, Dusur(r) PROVE PanoBagli'
<1>1. /\ PanoTip /\ SozTutulur /\ EkranBagli /\ DuzenlemeBagli /\ SayacTip /\ (\A p, q \in panoIstek : p = q)
      /\ YazmaBagli(r) /\ ekran \in Ekranlar /\ ekran.aktif \in TumPano
  BY EkranBicim DEF PanoBagli, PanoTip, SayacTip
<1>2. /\ panoIstek' = panoIstek \ {r} /\ UNCHANGED <<sunucuPano, soz, emek, cikan, yabanci>>
      /\ UNCHANGED sayac \/ sayac' = [sayac EXCEPT !.hata = @ + 1]
      /\ IF r.tur = "ekle" THEN Yerlesir(Gidilir(ekran, ekran.aktif), onbellek) ELSE UNCHANGED <<ekran, onbellek>>
  BY DEF Dusur
<1>3. panoIstek' = {}
  BY <1>1, <1>2
<1>4. SayacTip'
  BY <1>1, <1>2, SayacArtar
<1>5. cikan' = [simdi |-> cikan'.simdi, hep |-> cikan'.hep]
  BY <1>1, <1>2 DEF PanoTip
<1>6. CASE r.tur = "ekle"
  <2>1. PICK e : e = Gidilir(ekran, ekran.aktif)
    OBVIOUS
  <2>2. ~ekran.acik /\ ~ekran.duzenleme /\ emek = {} /\ cikan.simdi = {}
    BY <1>1, <1>6 DEF YazmaBagli, DuzenlemeBagli
  <2>3. e \in Ekranlar /\ Ayni(ekran, e) /\ ~e.duzenleme
    BY <1>1, <2>1, <2>2, GidilirTip
  <2> QED BY <1>2, <1>3, <1>4, <1>5, <1>6, <2>1, <2>2, <2>3, PanoBiter
<1>7. CASE r.tur # "ekle"
  <2>1. /\ soz' \in [Pano -> Gadgetlar]
        /\ ekran.duzenleme /\ ekran.id \in Pano => soz'[ekran.id] \subseteq ekran.gadgets \cup cikan'.simdi
    BY <1>1, <1>2 DEF PanoTip, DuzenlemeBagli
  <2> QED BY <1>2, <1>3, <1>4, <1>5, <1>7, <2>1, PanoYazar
<1> QED BY <1>6, <1>7

LEMMA PanoOlurAdim == ASSUME PanoBagli, panoSebep' = {}, NEW r \in panoIstek, PanoOlur(r) PROVE PanoBagli'
<1>1. /\ PanoTip /\ SozTutulur /\ EkranBagli /\ DuzenlemeBagli /\ SayacTip /\ (\A p, q \in panoIstek : p = q)
      /\ YazmaBagli(r) /\ ekran \in Ekranlar /\ r \in Yazmalar /\ (\A id \in Pano : SorguBagli(id))
      /\ onbellek \in [TumPano -> Sorgular] /\ soz \in [Pano -> Gadgetlar]
  BY DEF PanoBagli, PanoTip, SayacTip
<1>2. PICK o : o = Tazele(onbellek, Bakilan)
  OBVIOUS
<1>3. PICK e : e = CASE r.tur = "kaydet" -> [ekran EXCEPT !.duzenleme = FALSE]
                     [] r.tur = "sil" -> Gidilir(ekran, Sistem)
                     [] OTHER -> Gidilir(ekran, r.id)
  OBVIOUS
<1>4. /\ r.yer = "olan" /\ panoIstek' = panoIstek \ {r} /\ Yerlesir(e, o) /\ o[r.id].ucus # "gelen"
      /\ soz' = [soz EXCEPT ![r.id] = IF r.tur = "sil" THEN @ ELSE @ \cup {g \in r.gadgets : <<r.id, g>> \notin cikan.hep}]
      /\ emek' = emek \ r.gadgets /\ cikan' = [cikan EXCEPT !.simdi = {}]
      /\ UNCHANGED <<sunucuPano, sayac, yabanci>>
  BY <1>2, <1>3 DEF PanoOlur, PanoSebep, Eger
<1>5. panoIstek' = {} /\ emek' = {}
  BY <1>1, <1>4 DEF YazmaBagli
<1>6. r.id \in Pano /\ r.id \in TumPano /\ Sistem \in TumPano
  BY <1>1, <1>4 DEF YazmaBagli, TumPano
<1>7. cikan'.simdi = {} /\ cikan' = [simdi |-> cikan'.simdi, hep |-> cikan'.hep]
  BY <1>1, <1>4 DEF PanoTip
<1>8. /\ o \in [TumPano -> Sorgular]
      /\ \A id \in TumPano : /\ o[id].veri = onbellek[id].veri /\ o[id].cevap = onbellek[id].cevap
                             /\ o[id].bayat
                             /\ o[id].ucus = "gelen" => onbellek[id].ucus = "gelen"
                             /\ o[id].hata => onbellek[id].hata
  BY <1>1, <1>2, TazeleTip
<1>9. PICK s : s = IF r.tur = "sil" THEN soz[r.id] ELSE soz[r.id] \cup {g \in r.gadgets : <<r.id, g>> \notin cikan.hep}
  OBVIOUS
<1>10. s \in Gadgetlar /\ (s # {} => s \subseteq sunucuPano[r.id])
  <2>1. r.gadgets \in Gadgetlar /\ soz[r.id] \in Gadgetlar
    BY <1>1, <1>6 DEF Yazmalar
  <2>2. s \in Gadgetlar
    BY <1>9, <2>1 DEF Gadgetlar
  <2>3. s # {} => s \subseteq sunucuPano[r.id]
    BY <1>1, <1>4, <1>6, <1>9 DEF YazmaBagli, SozTutulur
  <2> QED BY <2>2, <2>3
<1>11. soz' = [soz EXCEPT ![r.id] = s]
  BY <1>4, <1>9
<1>12. /\ soz' \in [Pano -> Gadgetlar] /\ soz'[r.id] = s /\ \A id \in Pano \ {r.id} : soz'[id] = soz[id]
  BY <1>1, <1>6, <1>10, <1>11
<1>13. \A id \in Pano : soz'[id] # {} => soz'[id] \subseteq sunucuPano[id]
  BY <1>1, <1>10, <1>12 DEF SozTutulur
<1>14. \A id \in Pano : SorguIyi(o[id], soz'[id], id \in yabanci', sunucuPano'[id])
  <2>1. Pano \subseteq TumPano
    BY DEF TumPano
  <2> QED BY <1>1, <1>4, <1>8, <1>12, <2>1 DEF SorguBagli, SorguIyi
<1>15. e \in Ekranlar /\ (e.duzenleme => e = ekran) /\ Ayni(ekran, e)
       /\ (e.duzenleme => r.tur # "kaydet" /\ ekran.aktif = IF r.tur = "sil" THEN Sistem ELSE r.id)
  <2>1. CASE r.tur = "kaydet"
    <3>1. PICK d \in BOOLEAN : d = FALSE
      OBVIOUS
    <3>2. e = [ekran EXCEPT !.duzenleme = d]
      BY <1>3, <2>1, <3>1
    <3>3. e = [acik |-> ekran.acik, aktif |-> ekran.aktif, duzenleme |-> d, id |-> ekran.id, gadgets |-> ekran.gadgets]
      BY <1>1, <3>2 DEF Ekranlar
    <3>4. e \in Ekranlar
      BY <1>1, <3>3, EkranBicim, EkranKur
    <3>5. ~e.duzenleme /\ Ayni(ekran, e)
      BY <3>1, <3>3 DEF Ayni
    <3> QED BY <3>4, <3>5
  <2>2. CASE r.tur = "sil"
    <3>1. e = Gidilir(ekran, Sistem)
      BY <1>3, <2>2
    <3> QED BY <1>1, <1>6, <2>2, <3>1, GidilirTip
  <2>3. CASE r.tur # "kaydet" /\ r.tur # "sil"
    <3>1. e = Gidilir(ekran, r.id)
      BY <1>3, <2>3
    <3> QED BY <1>1, <1>6, <2>3, <3>1, GidilirTip
  <2> QED BY <2>1, <2>2, <2>3
<1>16. e.duzenleme => e.aktif = Sistem \/ ~o[e.aktif].hata
  BY <1>1, <1>8, <1>15, EkranBicim DEF EkranBagli, DuzenlemeBagli
<1>17. ASSUME e.duzenleme, e.id \in Pano PROVE soz'[e.id] \subseteq e.gadgets
  <2>1. /\ e = ekran /\ ekran.acik /\ ekran.id = ekran.aktif /\ ekran.gadgets # PanoYok
        /\ soz[ekran.id] \subseteq ekran.gadgets \cup cikan.simdi
    BY <1>1, <1>15, <1>17 DEF DuzenlemeBagli
  <2>2. r.tur = "yeni" /\ ekran.id = r.id
    <3>1. r.tur # "sil"
      BY <1>15, <1>17, <2>1, PanoVarsayim
    <3>2. r.tur # "ekle"
      BY <1>1, <2>1 DEF YazmaBagli
    <3> QED BY <1>1, <1>15, <1>17, <2>1, <3>1, <3>2 DEF Yazmalar
  <2>3. cikan.simdi = {} /\ r.gadgets \subseteq ekran.gadgets
    BY <1>1, <2>1, <2>2 DEF YazmaBagli
  <2> QED BY <1>9, <1>12, <2>1, <2>2, <2>3
<1>18. /\ \A id \in TumPano : Yerinde(o[id]) /\ (onbellek[id].veri # PanoYok => o[id].veri # PanoYok)
       /\ SayacTip'
  BY <1>1, <1>4, <1>8 DEF Yerinde, SayacTip
<1>19. e.duzenleme /\ e.id \in Pano => soz'[e.id] \subseteq e.gadgets \cup cikan'.simdi
  BY <1>17
<1> QED BY <1>4, <1>5, <1>7, <1>8, <1>12, <1>13, <1>14, <1>15, <1>16, <1>18, <1>19, YerlesirAdim DEF SayacTip

\* A fetch ends with what it had, or without.
LEMMA SorguBiter ==
    ASSUME PanoBagli, NEW id \in TumPano, NEW q \in Sorgular, q.ucus = "yok",
           \/ q.bayat /\ q.veri = onbellek[id].veri
           \/ /\ q.veri = onbellek[id].cevap /\ q.veri # PanoYok /\ onbellek[id].ucus = "gelen",
           ekran.acik /\ ekran.duzenleme /\ id = ekran.aktif => id = Sistem \/ ~q.hata,
           Yerlesir(ekran, [onbellek EXCEPT ![id] = q]),
           UNCHANGED <<sunucuPano, panoIstek, soz, emek, cikan, yabanci>>, SayacTip'
    PROVE  PanoBagli'
<1>1. /\ PanoTip /\ SozTutulur /\ SorguYerinde /\ EkranBagli /\ DuzenlemeBagli
      /\ (\A r \in panoIstek : YazmaBagli(r)) /\ ekran \in Ekranlar /\ (\A p \in Pano : SorguBagli(p))
      /\ onbellek \in [TumPano -> Sorgular] /\ Pano \subseteq TumPano
  BY DEF PanoBagli, PanoTip, TumPano
<1>2. PICK o : o = [onbellek EXCEPT ![id] = q]
  OBVIOUS
<1>3. /\ o \in [TumPano -> Sorgular] /\ Yerlesir(ekran, o)
      /\ o[id] = q /\ \A p \in TumPano \ {id} : o[p] = onbellek[p]
  BY <1>1, <1>2
<1>4. \A p \in TumPano : Yerinde(o[p]) /\ (onbellek[p].veri # PanoYok => o[p].veri # PanoYok)
  BY <1>1, <1>3 DEF SorguYerinde, Yerinde
<1>5. ASSUME NEW p \in Pano PROVE SorguIyi(o[p], soz'[p], p \in yabanci', sunucuPano'[p])
  <2>1. SorguIyi(onbellek[p], soz[p], p \in yabanci, sunucuPano[p]) /\ p \in TumPano
    BY <1>1 DEF SorguBagli
  <2>2. CASE p = id
    BY <1>3, <2>1, <2>2 DEF SorguIyi
  <2>3. CASE p # id
    <3>1. o[p] = onbellek[p]
      BY <1>3, <2>1, <2>3
    <3> QED BY <2>1, <3>1
  <2> QED BY <2>2, <2>3
<1>6. ekran.duzenleme => ekran.aktif = Sistem \/ ~o[ekran.aktif].hata
  BY <1>1, <1>3, EkranBicim DEF EkranBagli, DuzenlemeBagli
<1>7. ASSUME NEW r \in panoIstek'
      PROVE  /\ r.tur = "ekle" => ~ekran.acik
             /\ r.tur = "yeni" =>
                    /\ o[r.id].veri = PanoYok \/ r.gadgets \subseteq o[r.id].veri
                    /\ o[r.id].ucus = "gelen" /\ o[r.id].cevap # PanoYok => r.gadgets \subseteq o[r.id].cevap
  <2>1. YazmaBagli(r) /\ r.id \in TumPano
    BY <1>1, <1>7 DEF PanoTip, Yazmalar
  <2>2. CASE r.id = id
    BY <1>3, <2>1, <2>2 DEF YazmaBagli
  <2>3. CASE r.id # id
    <3>1. o[r.id] = onbellek[r.id]
      BY <1>3, <2>1, <2>3
    <3> QED BY <2>1, <3>1 DEF YazmaBagli
  <2> QED BY <2>2, <2>3
<1>8. /\ soz' \in [Pano -> Gadgetlar] /\ \A p \in Pano : soz'[p] # {} => soz'[p] \subseteq sunucuPano[p]
      /\ cikan' = [simdi |-> cikan'.simdi, hep |-> cikan'.hep]
  BY <1>1 DEF PanoTip, SozTutulur
<1>9. /\ ~ekran.duzenleme => emek' = {} /\ cikan'.simdi = {}
      /\ ekran.duzenleme /\ ekran.id \in Pano => soz'[ekran.id] \subseteq ekran.gadgets \cup cikan'.simdi
      /\ Ayni(ekran, ekran)
  BY <1>1 DEF SozTutulur, DuzenlemeBagli, Ayni
<1> QED BY <1>1, <1>3, <1>4, <1>5, <1>6, <1>7, <1>8, <1>9, YerlesirAdim DEF SayacTip

LEMMA HataliTip ==
    ASSUME NEW q \in Sorgular
    PROVE  Hatali(q) \in Sorgular /\ Hatali(q).ucus = "yok" /\ Hatali(q).bayat /\ Hatali(q).veri = q.veri
<1>1. PICK u \in {"yok", "giden", "gelen"} : u = "yok"
  OBVIOUS
<1>2. PICK d \in BOOLEAN : d = TRUE
  OBVIOUS
<1>3. PICK c \in GadgetYa : c = PanoYok
  BY DEF GadgetYa
<1>4. PICK x : x = [q EXCEPT !.ucus = u, !.hata = d, !.bayat = d, !.cevap = c]
  OBVIOUS
<1>5. Hatali(q) = x
  BY <1>1, <1>2, <1>3, <1>4 DEF Hatali
<1>6. x = [veri |-> q.veri, bayat |-> d, hata |-> d, ucus |-> u, cevap |-> c]
  <2>1. q = [veri |-> q.veri, bayat |-> q.bayat, hata |-> q.hata, ucus |-> q.ucus, cevap |-> q.cevap]
    BY SorguBicim
  <2> QED BY <1>4, <2>1
<1>7. x \in Sorgular
  BY <1>6, SorguBicim, SorguKur
<1> QED BY <1>1, <1>2, <1>5, <1>6, <1>7

LEMMA PanoSorgu ==
    ASSUME PanoBagli, panoSebep' = {}, NEW id \in TumPano, SorguGelir(id) \/ SorguDuser(id) PROVE PanoBagli'
<1>1. /\ PanoTip /\ SayacTip /\ onbellek \in [TumPano -> Sorgular] /\ onbellek[id] \in Sorgular
  BY DEF PanoBagli, PanoTip, SayacTip
<1>2. PICK h : h = Hatali(onbellek[id])
  OBVIOUS
<1>3. h \in Sorgular /\ h.ucus = "yok" /\ h.bayat /\ h.veri = onbellek[id].veri
  BY <1>1, <1>2, HataliTip
<1>4. CASE SorguDuser(id)
  <2>1. /\ Yerlesir(ekran, [onbellek EXCEPT ![id] = h]) /\ sayac' = [sayac EXCEPT !.hata = @ + 1]
        /\ ~(ekran.acik /\ id = ekran.aktif /\ id # Sistem /\ ekran.duzenleme)
        /\ UNCHANGED <<sunucuPano, panoIstek, soz, emek, cikan, yabanci>>
    BY <1>2, <1>4 DEF SorguDuser, PanoSebep, Eger
  <2>2. SayacTip'
    BY <1>1, <2>1, SayacArtar
  <2> QED BY <1>3, <2>1, <2>2, SorguBiter
<1>5. CASE SorguGelir(id)
  <2>1. PICK c : c = onbellek[id].cevap
    OBVIOUS
  <2>2. PICK o : o = IF c = PanoYok THEN [onbellek EXCEPT ![id] = h]
                     ELSE [onbellek EXCEPT ![id] = [veri |-> c, bayat |-> FALSE, hata |-> FALSE, ucus |-> "yok", cevap |-> PanoYok]]
    OBVIOUS
  <2>3. /\ onbellek[id].ucus = "gelen" /\ Yerlesir(ekran, o)
        /\ ~(c = PanoYok /\ ekran.acik /\ id = ekran.aktif /\ ekran.duzenleme)
        /\ UNCHANGED <<sunucuPano, panoIstek, sayac, soz, emek, cikan, yabanci>>
    BY <1>2, <1>5, <2>1, <2>2 DEF SorguGelir, PanoSebep, Eger
  <2>4. SayacTip'
    BY <1>1, <2>3 DEF SayacTip
  <2>5. CASE c = PanoYok
    <3>1. Yerlesir(ekran, [onbellek EXCEPT ![id] = h])
      BY <2>2, <2>3, <2>5
    <3> QED BY <1>3, <2>3, <2>4, <2>5, <3>1, SorguBiter
  <2>6. CASE c # PanoYok
    <3>1. PICK q : q = [veri |-> c, bayat |-> FALSE, hata |-> FALSE, ucus |-> "yok", cevap |-> PanoYok]
      OBVIOUS
    <3>2. Yerlesir(ekran, [onbellek EXCEPT ![id] = q])
      BY <2>2, <2>3, <2>6, <3>1
    <3>3. q \in Sorgular
      <4>1. c \in GadgetYa /\ PanoYok \in GadgetYa
        BY <1>1, <2>1, SorguBicim DEF GadgetYa
      <4> QED BY <3>1, <4>1, SorguKur
    <3>4. q.ucus = "yok" /\ q.veri = c /\ ~q.hata
      BY <3>1
    <3> QED BY <2>1, <2>3, <2>4, <2>6, <3>2, <3>3, <3>4, SorguBiter
  <2> QED BY <2>5, <2>6
<1> QED BY <1>4, <1>5

\* The server answers a fetch: the answer has what was promised.
LEMMA PanoSorguOkur == ASSUME PanoBagli, NEW id \in TumPano, SorguOkur(id) PROVE PanoBagli'
<1>1. /\ PanoTip /\ SozTutulur /\ SorguYerinde /\ EkranBagli /\ DuzenlemeBagli /\ SayacTip
      /\ (\A p \in Pano : SorguBagli(p)) /\ (\A r \in panoIstek : YazmaBagli(r)) /\ (\A r, s \in panoIstek : r = s)
      /\ onbellek \in [TumPano -> Sorgular] /\ onbellek[id] \in Sorgular
  BY DEF PanoBagli, PanoTip, SayacTip
<1>2. PICK u \in {"yok", "giden", "gelen"} : u = "gelen"
  OBVIOUS
<1>3. PICK c : c = Oku(id)
  OBVIOUS
<1>4. c \in GadgetYa /\ (id \in Pano => c = sunucuPano[id])
  BY <1>1, <1>3, PanoVarsayim DEF Oku, PanoTip, TumPano, GadgetYa, Gadgetlar, SistemGadget
<1>5. PICK q : q = [onbellek[id] EXCEPT !.ucus = u, !.cevap = c]
  OBVIOUS
<1>6. /\ onbellek[id].ucus = "giden" /\ onbellek' = [onbellek EXCEPT ![id] = q] /\ yabanci' = yabanci \ {id}
      /\ UNCHANGED <<sunucuPano, ekran, panoIstek, sayac, soz, emek, cikan, panoSebep>>
  BY <1>2, <1>3, <1>5 DEF SorguOkur
<1>7. q = [veri |-> onbellek[id].veri, bayat |-> onbellek[id].bayat, hata |-> onbellek[id].hata, ucus |-> u, cevap |-> c]
  <2>1. PICK z : z = onbellek[id]
    OBVIOUS
  <2>2. z = [veri |-> z.veri, bayat |-> z.bayat, hata |-> z.hata, ucus |-> z.ucus, cevap |-> z.cevap]
    BY <1>1, <2>1, SorguBicim
  <2>3. q = [z EXCEPT !.ucus = u, !.cevap = c]
    BY <1>5, <2>1
  <2>4. q = [veri |-> z.veri, bayat |-> z.bayat, hata |-> z.hata, ucus |-> u, cevap |-> c]
    BY <2>2, <2>3
  <2> QED BY <2>1, <2>4
<1>8. /\ q \in Sorgular /\ q.veri = onbellek[id].veri /\ q.bayat = onbellek[id].bayat /\ q.hata = onbellek[id].hata
      /\ q.ucus = "gelen" /\ q.cevap = c
  BY <1>1, <1>2, <1>4, <1>7, SorguBicim, SorguKur
<1>9. /\ onbellek' \in [TumPano -> Sorgular] /\ onbellek'[id] = q
      /\ \A p \in TumPano \ {id} : onbellek'[p] = onbellek[p]
  BY <1>1, <1>6, <1>8
<1>10. \A p \in TumPano : /\ onbellek'[p].veri = onbellek[p].veri /\ onbellek'[p].bayat = onbellek[p].bayat
                          /\ onbellek'[p].hata = onbellek[p].hata
  BY <1>8, <1>9
<1>11. PanoTip'
  BY <1>1, <1>6, <1>9 DEF PanoTip
<1>12. SozTutulur' /\ DuzenlemeBagli'
  BY <1>1, <1>6 DEF SozTutulur, DuzenlemeBagli
<1>13. SorguYerinde' /\ EkranBagli'
  <2>1. SorguYerinde'
    BY <1>1, <1>6, <1>9, <1>10 DEF SorguYerinde, Yerinde
  <2>2. ekran.id \in TumPano /\ ekran.aktif \in TumPano
    BY <1>1, EkranBicim DEF PanoTip
  <2> QED BY <1>1, <1>6, <1>10, <2>1, <2>2 DEF EkranBagli
<1>14. ASSUME NEW p \in Pano PROVE SorguBagli(p)'
  <2>1. p \in TumPano
    BY DEF TumPano
  <2>2. CASE p = id
    <3>1. q.bayat \/ q.veri = PanoYok
      BY <1>1, <1>6, <1>8 DEF SorguYerinde, Yerinde
    <3>2. c # PanoYok => soz[p] \subseteq c
      BY <1>1, <1>4, <2>2 DEF SozTutulur
    <3> QED BY <1>4, <1>6, <1>8, <1>9, <2>2, <3>1, <3>2 DEF SorguBagli, SorguIyi
  <2>3. CASE p # id
    <3>1. onbellek'[p] = onbellek[p] /\ (p \in yabanci' <=> p \in yabanci)
      BY <1>6, <1>9, <2>1, <2>3
    <3> QED BY <1>1, <1>6, <3>1 DEF SorguBagli, SorguIyi
  <2> QED BY <2>2, <2>3
<1>15. ASSUME NEW r \in panoIstek' PROVE YazmaBagli(r)'
  <2>1. YazmaBagli(r) /\ r.id \in TumPano
    BY <1>1, <1>6 DEF PanoTip, Yazmalar
  <2>2. r.tur = "yeni" /\ onbellek'[r.id].ucus = "gelen" /\ onbellek'[r.id].cevap # PanoYok =>
            r.gadgets \subseteq onbellek'[r.id].cevap
    <3>1. CASE r.id = id
      BY <1>4, <1>8, <1>9, <2>1, <3>1 DEF YazmaBagli
    <3>2. CASE r.id # id
      <4>1. onbellek'[r.id] = onbellek[r.id]
        BY <1>9, <2>1, <3>2
      <4> QED BY <2>1, <4>1 DEF YazmaBagli
    <3> QED BY <3>1, <3>2
  <2> QED BY <1>6, <1>10, <2>1, <2>2 DEF YazmaBagli
<1> QED BY <1>1, <1>6, <1>11, <1>12, <1>13, <1>14, <1>15 DEF PanoBagli

-----------------------------------------------------------------------------
LEMMA PanoAdim == PanoInv /\ [PanoNext]_panoVars => PanoInv'
<1> SUFFICES ASSUME PanoInv, [PanoNext]_panoVars, panoSebep' = {} PROVE PanoBagli'
  BY DEF PanoInv
<1>1. CASE UNCHANGED panoVars
  <2>1. UNCHANGED <<sunucuPano, ekran, onbellek, panoIstek, sayac, soz, emek, cikan, yabanci, panoSebep>>
    BY <1>1 DEF panoVars
  <2>2. PanoBagli
    BY <2>1 DEF PanoInv
  <2>3. /\ soz' \in [Pano -> Gadgetlar] /\ cikan' = [simdi |-> cikan'.simdi, hep |-> cikan'.hep] /\ SayacTip'
        /\ ekran.duzenleme /\ ekran.id \in Pano => soz'[ekran.id] \subseteq ekran.gadgets \cup cikan'.simdi
        /\ panoIstek' \subseteq Yazmalar /\ \A r, s \in panoIstek' : r = s
    BY <2>1, <2>2 DEF PanoBagli, PanoTip, SayacTip, DuzenlemeBagli
  <2>4. \A r \in panoIstek' : YazmaBagli(r)'
    BY <2>1, <2>2 DEF PanoBagli, YazmaBagli
  <2> QED BY <2>1, <2>2, <2>3, <2>4, PanoYazar
<1>2. CASE PanoNext
  <2>1. CASE (\E id \in TumPano : Sec(id)) \/ Iptal
    <3>1. panoSebep = {}
      BY <2>1 DEF Sec, Iptal
    <3> QED BY <2>1, <3>1, PanoSec DEF PanoInv
  <2>2. CASE \E id \in TumPano : SorguOkur(id)
    <3>1. panoSebep = {}
      BY <2>2 DEF SorguOkur
    <3> QED BY <2>2, <3>1, PanoSorguOkur DEF PanoInv
  <2>3. CASE \E id \in TumPano : SorguGelir(id) \/ SorguDuser(id)
    <3>1. panoSebep = {}
      BY <2>3 DEF SorguGelir, SorguDuser, PanoSebep
    <3> QED BY <2>3, <3>1, PanoSorgu DEF PanoInv
  <2>4. CASE PanoDuzenle
    <3>1. panoSebep = {}
      BY <2>4 DEF PanoDuzenle, PanoSebep
    <3> QED BY <2>4, <3>1, PanoDuzenleAdim DEF PanoInv
  <2>5. CASE GadgetEkle \/ \E g \in 1 .. MaxGadget : GadgetKaldir(g)
    <3>1. panoSebep = {}
      BY <2>5 DEF GadgetEkle, GadgetKaldir, PanoSebep
    <3> QED BY <2>5, <3>1, PanoGadget DEF PanoInv
  <2>6. CASE PanoKaydet
    <3>1. panoSebep = {}
      BY <2>6 DEF PanoKaydet, PanoSebep
    <3> QED BY <2>6, <3>1, PanoKaydetAdim DEF PanoInv
  <2>7. CASE PanoSil
    <3>1. panoSebep = {}
      BY <2>7 DEF PanoSil, PanoSebep
    <3> QED BY <2>7, <3>1, PanoSilAdim DEF PanoInv
  <2>8. CASE \E kopya \in BOOLEAN : YeniPano(kopya)
    <3>1. panoSebep = {}
      BY <2>8 DEF YeniPano, PanoSebep
    <3> QED BY <2>8, <3>1, YeniPanoAdim DEF PanoInv
  <2>9. CASE \E id \in Pano : PanoyaEkle(id)
    <3>1. panoSebep = {}
      BY <2>9 DEF PanoyaEkle
    <3> QED BY <2>9, <3>1, PanoyaEkleAdim DEF PanoInv
  <2>10. CASE \E id \in Pano : BaskasiEkler(id)
    <3>1. panoSebep = {}
      BY <2>10 DEF BaskasiEkler, PanoSebep
    <3> QED BY <2>10, <3>1, PanoBaskasi DEF PanoInv
  <2>11. CASE \E r \in panoIstek : EkleOkur(r)
    <3>1. panoSebep = {}
      BY <2>11 DEF EkleOkur
    <3> QED BY <2>11, <3>1, EkleOkurAdim DEF PanoInv
  <2>12. CASE \E r \in panoIstek : Isler(r)
    <3>1. panoSebep = {}
      BY <2>12 DEF Isler
    <3> QED BY <2>12, <3>1, PanoIsler DEF PanoInv
  <2>13. CASE \E r \in panoIstek : PanoOlur(r)
    <3>1. panoSebep = {}
      BY <2>13 DEF PanoOlur, PanoSebep
    <3> QED BY <2>13, <3>1, PanoOlurAdim DEF PanoInv
  <2>14. CASE \E r \in panoIstek : Dusur(r)
    <3>1. panoSebep = {}
      BY <2>14 DEF Dusur
    <3> QED BY <2>14, <3>1, PanoDuser DEF PanoInv
  <2> QED BY <1>2, <2>1, <2>2, <2>3, <2>4, <2>5, <2>6, <2>7, <2>8, <2>9, <2>10, <2>11, <2>12, <2>13, <2>14
          DEF PanoNext
<1> QED BY <1>1, <1>2

\* What the operator was told is saved stays on the server, and what he adds
\* stays on the screen, as long as none of the listed causes has happened: any
\* dashboards, gestures and failures, answers in any order.
THEOREM GadgetsOnlyByCause == PanoSpec => []PanoKayipSebepli
<1>1. PanoInv => PanoKayipSebepli
  BY DEF PanoInv, PanoBagli, SozTutulur, PanoKayipSebepli
<1> QED BY <1>1, PanoIlk, PanoAdim, PTL DEF PanoSpec

=============================================================================
