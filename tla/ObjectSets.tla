------------------------------- MODULE ObjectSets -------------------------------
(***************************************************************************)
(* Mercek: object sets over the ontology.  A definition is a base type or  *)
(* a list of primary keys, narrowed by filters, widened by columns of a    *)
(* linked type and moved along links.  ObjectSetEngine walks it over rows  *)
(* in memory, SqlObjectSetEngine compiles it to a SELECT; both then load,  *)
(* aggregate or make a time series of it.                                  *)
(*                                                                         *)
(* A definition is nested linearly, so it is a source and a sequence of    *)
(* steps.  In memory a table is a sequence, in order of its primary key.   *)
(* In SQL it is a set, and what the query leaves open (which row DISTINCT  *)
(* ON keeps, which groups of equal total are cut) makes a set of results.  *)
(* A time is a number and a bucket is two of them.  The ontology's links   *)
(* join columns of one type, so that the casts compare equal values.       *)
(***************************************************************************)
EXTENDS Conditions, SequencesExt, FiniteSetsExt

CONSTANTS
    NesneTipi,   \* type -> [pk, kolonlar]
    Baglanti,    \* link -> [kimden, kime, anahtar, hedefAnahtar]
    Veri,        \* contents of the tables: type -> sequence of rows
    Kaynaklar,   \* [tur |-> "base", tip] or [tur |-> "fromPrimaryKeys", tip, anahtarlar]
    Adimlar,     \* filter, joinLinked and searchAround steps
    Olcu,        \* metrics, [fn, kolon]
    MaxAdim,     \* bound: steps of a definition
    KovaSayisi        \* limit of a load, and of the groups of an aggregate

VARIABLES
    kok,         \* the source of the definition
    adim,        \* its steps
    veri         \* the tables

nesneVars == <<kok, adim, veri>>

Gecersiz == [tamam |-> FALSE]
EkKolon(tip, kolon) == tip \o "__" \o kolon

-----------------------------------------------------------------------------
(* In memory: [tip, kolonlar, nesneler].                                   *)

Kume(tip, kolonlar, nesneler) ==
    [tamam |-> TRUE, tip |-> tip, kolonlar |-> kolonlar, nesneler |-> nesneler]

\* Keys are compared as String(key): null matches null.
Eslenik(deger, anahtar, satirlar) ==
    SelectSeq(satirlar, LAMBDA h : Yazi(Al(h, anahtar)) = Yazi(deger))

KokBellek(s) ==
    IF s.tip \notin DOMAIN NesneTipi THEN Gecersiz
    ELSE Kume(s.tip, NesneTipi[s.tip].kolonlar,
              IF s.tur = "base" THEN veri[s.tip]
              ELSE SelectSeq(veri[s.tip], LAMBDA r : Yazi(r[NesneTipi[s.tip].pk]) \in {Yazi(a) : a \in s.anahtarlar}))

\* A column or a parameter that is missing is met at the first row.
SuzBellek(a, k, params) ==
    IF /\ k.nesneler /= << >>
       /\ \E i \in DOMAIN a.kosullar : \/ a.kosullar[i].kolon \notin DOMAIN k.nesneler[1]
                                      \/ Eksik(a.kosullar[i], params)
    THEN Gecersiz
    ELSE [k EXCEPT !.nesneler = SelectSeq(@, LAMBDA r : Gecer(a.kosullar, a.hepsi, r, params))]

Bagli(a, k) == a.link \in DOMAIN Baglanti /\ Baglanti[a.link].kimden = k.tip

\* Mutant of BaglaBellek: a row without a linked one is dropped.
BaglaBellekIc(a, k) ==
    LET b == Baglanti[a.link]
        es(r) == Eslenik(Al(r, b.anahtar), b.hedefAnahtar, veri[b.kime])
        kalan == SelectSeq(k.nesneler, LAMBDA r : es(r) /= << >>)
    IN  IF ~Bagli(a, k) THEN Gecersiz
        ELSE Kume(k.tip, k.kolonlar \cup {EkKolon(b.kime, a.kolon)},
                  [i \in DOMAIN kalan |-> (EkKolon(b.kime, a.kolon) :> es(kalan[i])[1][a.kolon]) @@ kalan[i]])

BaglaBellek(a, k) ==
    LET b == Baglanti[a.link]
        es(r) == Eslenik(Al(r, b.anahtar), b.hedefAnahtar, veri[b.kime])
        kat(r) == (EkKolon(b.kime, a.kolon) :> IF es(r) = << >> THEN Bos ELSE es(r)[1][a.kolon]) @@ r
    IN  IF ~Bagli(a, k) THEN Gecersiz
        ELSE Kume(k.tip, k.kolonlar \cup {EkKolon(b.kime, a.kolon)},
                  [i \in DOMAIN k.nesneler |-> kat(k.nesneler[i])])

\* Rows of the target type that a row of the base points to, once per primary key.
AraBellek(a, k) ==
    LET b == Baglanti[a.link]
        pk == NesneTipi[b.kime].pk
        uyan == SelectSeq(veri[b.kime], LAMBDA h : \E i \in DOMAIN k.nesneler :
                    Yazi(Al(k.nesneler[i], b.anahtar)) = Yazi(h[b.hedefAnahtar]))
    IN  IF ~Bagli(a, k) THEN Gecersiz
        ELSE Kume(b.kime, NesneTipi[b.kime].kolonlar,
                  FoldLeft(LAMBDA s, h : IF \E i \in DOMAIN s : s[i][pk] = h[pk] THEN s ELSE Append(s, h),
                           << >>, uyan))

Cozumle(s, adimlar, params) ==
    FoldLeft(LAMBDA k, a : IF ~k.tamam THEN k
                           ELSE CASE a.tur = "filter"       -> SuzBellek(a, k, params)
                                  [] a.tur = "joinLinked"   -> BaglaBellek(a, k)
                                  [] a.tur = "searchAround" -> AraBellek(a, k),
             KokBellek(s), adimlar)

Cozum == Cozumle(kok, adim, << >>)

-----------------------------------------------------------------------------
(* In SQL: the set of results the statement may have.  cift: the columns   *)
(* that the SELECT has more than once.  It runs, and a row takes the last  *)
(* of them, but a name of two columns is ambiguous wherever it is used.    *)

SqlKume(tip, kolonlar, cift, nesneler) == Kume(tip, kolonlar, nesneler) @@ [cift |-> cift]

SqlAyni(x, y) == x /= Bos /\ y /= Bos /\ x = y

KokSql ==
    IF kok.tip \notin DOMAIN NesneTipi THEN {}
    ELSE {SqlKume(kok.tip, NesneTipi[kok.tip].kolonlar, {},
               IF kok.tur = "base" THEN ToSet(veri[kok.tip])
               ELSE {r \in ToSet(veri[kok.tip]) : \E a \in kok.anahtarlar : SqlAyni(r[NesneTipi[kok.tip].pk], a)})}

SuzSql(a, k) ==
    IF \E i \in DOMAIN a.kosullar : a.kosullar[i].kolon \notin k.kolonlar \ k.cift THEN {}
    ELSE {[k EXCEPT !.nesneler = {r \in @ : LET d == SqlGecer(a.kosullar, a.hepsi, r, << >>) IN
                                             a.kosullar = << >> \/ (d /= Bos /\ d)}]}

\* LEFT JOIN (SELECT DISTINCT ON (toKey) * FROM target): any row of each key.
BaglaSql(a, k) ==
    LET b == Baglanti[a.link]
        hedef == ToSet(veri[b.kime])
        anahtarlar == {h[b.hedefAnahtar] : h \in hedef}
        secimler == {s \in [anahtarlar -> hedef] : \A x \in anahtarlar : s[x][b.hedefAnahtar] = x}
        kat(r, s) == LET x == Al(r, b.anahtar) IN
                     (EkKolon(b.kime, a.kolon) :> IF x \in anahtarlar /\ x /= Bos THEN s[x][a.kolon] ELSE Bos) @@ r
    IN  IF ~Bagli(a, k) THEN {}
        ELSE {SqlKume(k.tip, k.kolonlar \cup {EkKolon(b.kime, a.kolon)},
                      k.cift \cup (k.kolonlar \cap {EkKolon(b.kime, a.kolon)}),
                      {kat(r, s) : r \in k.nesneler}) : s \in secimler}

AraSql(a, k) ==
    LET b == Baglanti[a.link] IN
    IF ~Bagli(a, k) THEN {}
    ELSE {SqlKume(b.kime, NesneTipi[b.kime].kolonlar, {},
               {h \in ToSet(veri[b.kime]) : \E r \in k.nesneler : SqlAyni(Al(r, b.anahtar), h[b.hedefAnahtar])})}

\* The empty set is the refusal, to compile or to run.
Derleme ==
    FoldLeft(LAMBDA K, a : UNION {CASE a.tur = "filter"       -> SuzSql(a, k)
                                    [] a.tur = "joinLinked"   -> BaglaSql(a, k)
                                    [] a.tur = "searchAround" -> AraSql(a, k) : k \in K},
             KokSql, adim)

-----------------------------------------------------------------------------
(* Metrics, aggregates and time series; a group of null is '(boş)'.        *)

ToplaKume(S, kolon) == FoldSet(LAMBDA r, t : t + (IF r[kolon] = Bos THEN 0 ELSE r[kolon][2]), 0, S)

\* reduceAggregate ?? 0, and metricSql: null cells are skipped, nothing is 0.
Olc(m, S) ==
    LET degerler1 == {r[m.kolon][2] : r \in {r \in S : r[m.kolon] /= Bos}}
    IN  CASE m.fn = "count"         -> Cardinality(S)
          [] m.fn = "countDistinct" -> Cardinality(degerler1)
          [] m.fn = "sum"           -> ToplaKume(S, m.kolon)
          [] m.fn = "min"           -> IF degerler1 = {} THEN 0 ELSE Min(degerler1)
          [] m.fn = "max"           -> IF degerler1 = {} THEN 0 ELSE Max(degerler1)

Bolumler(S, kolon) == {{r \in S : r[kolon] = v} : v \in {r[kolon] : r \in S}}

\* The groups a cut at n may keep; toplam gives the total of every group.
Tutulabilir(toplam, n) ==
    LET G == DOMAIN toplam
    IN  {K \in kSubset(IF Cardinality(G) < n THEN Cardinality(G) ELSE n, G) :
            \A g \in K, h \in G \ K : toplam[g] >= toplam[h]}

\* Rows [group, segment, value]: the cut in memory is by the metric of the whole
\* group, in SQL by the sum of the values of its segments.
Satirlari(K, m, seg) == UNION {{<<g, s, Olc(m, s)>> : s \in Bolumler(g, seg)} : g \in K}

AggregateBellek(S, m, grup, seg, n) ==
    {Satirlari(K, m, seg) : K \in Tutulabilir([g \in Bolumler(S, grup) |-> Olc(m, g)], n)}

AggregateSql(S, m, grup, seg, n) ==
    {Satirlari(K, m, seg) : K \in Tutulabilir([g \in Bolumler(S, grup) |->
        MapThenSumSet(LAMBDA s : Olc(m, s), Bolumler(g, seg))], n)}

Kova(v) == v[2] \div 2
TimeseriesBellek(s, kolon, m) ==
    LET dolu == SelectSeq(s, LAMBDA r : r[kolon] /= Bos)
    IN  [k \in {Kova(dolu[i][kolon]) : i \in DOMAIN dolu} |->
            Olc(m, ToSet(SelectSeq(dolu, LAMBDA r : Kova(r[kolon]) = k)))]
TimeseriesSql(S, kolon, m) ==
    LET dolu == {r \in S : r[kolon] /= Bos}
    IN  [k \in {Kova(r[kolon]) : r \in dolu} |-> Olc(m, {r \in dolu : Kova(r[kolon]) = k})]

\* load
YukBellek(k) ==
    [nesneler |-> ToSet(SubSeq(k.nesneler, 1, IF Len(k.nesneler) < KovaSayisi THEN Len(k.nesneler) ELSE KovaSayisi)),
     toplam   |-> Len(k.nesneler), kirpik |-> Len(k.nesneler) > KovaSayisi]

\* LIMIT without ORDER BY: any rows; without a count a full page may not be all.
YukSql(k, sayim) ==
    {[nesneler |-> N, toplam |-> IF sayim THEN Cardinality(k.nesneler) ELSE Cardinality(N),
      kirpik |-> IF sayim THEN Cardinality(k.nesneler) > KovaSayisi ELSE Cardinality(N) >= KovaSayisi] :
        N \in kSubset(IF Cardinality(k.nesneler) < KovaSayisi THEN Cardinality(k.nesneler) ELSE KovaSayisi, k.nesneler)}

-----------------------------------------------------------------------------
NesneInit == kok \in Kaynaklar /\ adim = << >> /\ veri \in Veri

AdimEkle(a) ==
    /\ Len(adim) < MaxAdim
    /\ adim' = Append(adim, a)
    /\ UNCHANGED <<kok, veri>>

AdimSil ==
    /\ adim /= << >>
    /\ adim' = Front(adim)
    /\ UNCHANGED <<kok, veri>>

NesneNext == AdimSil \/ \E a \in Adimlar : AdimEkle(a)

NesneSpec == NesneInit /\ [][NesneNext]_nesneVars

-----------------------------------------------------------------------------
(* Properties. *)

Ayni(k, s) == s.tip = k.tip /\ s.kolonlar = k.kolonlar /\ s.nesneler = ToSet(k.nesneler)

\* Two joins before a filter have added the column it names.
CiftAnilir ==
    \E m \in DOMAIN adim : \E i, j \in 1 .. m - 1 :
        /\ i < j /\ adim[i].tur = "joinLinked" /\ adim[j].tur = "joinLinked" /\ adim[m].tur = "filter"
        /\ \A n \in i .. m : adim[n].tur /= "searchAround"
        /\ LET ad(n) == EkKolon(Baglanti[adim[n].link].kime, adim[n].kolon) IN
           ad(i) = ad(j) /\ ad(i) \in {k.kolon : k \in ToSet(adim[m].kosullar)}

\* SqlObjectSetEngine's contract: whatever links and filters a definition
\* chains, what the engine in memory finds is a result the statement may have,
\* every object once; SQL refuses what memory refuses, and nothing with objects but
\* a filter on a column that was joined twice.  (Links have a
\* key that is never null on one side, and no condition has a null value or a
\* pattern that the empty text matches.)
KumelerAyni ==
    IF ~Cozum.tamam THEN Derleme = {}
    ELSE /\ Derleme /= {} => \E s \in Derleme : Ayni(Cozum, s)
         /\ Derleme = {} => Cozum.nesneler = << >> \/ CiftAnilir
         /\ Cardinality(ToSet(Cozum.nesneler)) = Len(Cozum.nesneler)

\* What is made of one object set agrees too: groups cut to the largest few,
\* segmented or not, for the metrics that add up over segments, a time series,
\* and a page, which without a count never passes for the whole set.
SonIslemAyni ==
    Cozum.tamam /\ Cozum.nesneler /= << >> =>
        LET S == ToSet(Cozum.nesneler)  pk == NesneTipi[Cozum.tip].pk IN
        /\ \A m \in Olcu, g \in NesneTipi[Cozum.tip].kolonlar, seg \in NesneTipi[Cozum.tip].kolonlar :
               m.fn \in {"count", "sum"} \/ seg = g =>
                   AggregateBellek(S, m, g, seg, KovaSayisi) = AggregateSql(S, m, g, seg, KovaSayisi)
        /\ \A m \in Olcu, c \in NesneTipi[Cozum.tip].kolonlar :
               TimeseriesBellek(Cozum.nesneler, c, m) = TimeseriesSql(S, c, m)
        /\ \A y \in YukSql([Cozum EXCEPT !.nesneler = S], TRUE) :
               y.toplam = YukBellek(Cozum).toplam /\ y.kirpik = YukBellek(Cozum).kirpik
        /\ \A y \in YukSql([Cozum EXCEPT !.nesneler = S], FALSE) : y.kirpik \/ y.nesneler = S

\* "The result is the same in both engines" (equivalence-check.ts), for every object
\* set steps can build: the set and whatever is computed from it.
IkiMotorAyni == KumelerAyni /\ SonIslemAyni

=============================================================================
