----------------------------- MODULE BoardPipeline -----------------------------
(***************************************************************************)
(* Harman: a path of boards over a dataset.  The user edits the path       *)
(* (analysisSlice), the server runs it up to a target board, in memory     *)
(* (InMemoryQueryEngine) or with the leading filters pushed into SQL       *)
(* (SqlPushdownQueryEngine), and stores a result as a dataset              *)
(* (MaterializeController); the client works out the columns before each   *)
(* board without asking (schemaPropagation) and the key under which an     *)
(* answer is cached (queryKey).                                            *)
(*                                                                         *)
(* Kart is a catalogue of configured boards.  An expression reads one      *)
(* column and gives a default for null; what other expressions do is in    *)
(* Expression.  Averages and deviations are left out.                      *)
(* A row is a function from column names; a table is in order of its       *)
(* primary key, as both providers return it.                               *)
(***************************************************************************)
EXTENDS Expression

CONSTANTS
    Kart,        \* boards the user may add
    Tablo,       \* contents of the source dataset, [kolonlar, satirlar]
    OtekiTablo,  \* contents of the dataset that enrich and setMath read
    Parametre,   \* values of the analysis parameters: name -> cell
    MaxKart,     \* bound: boards of the path
    TaramaTavani,   \* MIP_SCAN_LIMIT
    SatirTavani,    \* limit of a query
    PivotTavani     \* MAX_PIVOT_COLUMNS

VARIABLES
    kartlar,     \* path.boards
    kaynak,      \* the source table
    oteki,       \* the other table
    degerler,    \* parameters
    turevTam     \* whether every dataset materialised so far holds all its rows

boruVars == <<kartlar, kaynak, oteki, degerler, turevTam>>

\* The bounds a run works under, and none at all.
Tavanlar == [tarama |-> TaramaTavani, satir |-> SatirTavani, pivot |-> PivotTavani]
Tavansiz == [tarama |-> 1000, satir |-> 1000, pivot |-> 1000]

-----------------------------------------------------------------------------
(* Sequences of rows. *)

Kes(s, n)    == SubSeq(s, 1, IF Len(s) < n THEN Len(s) ELSE n)

\* Array.prototype.sort is stable.
KararliSirala(s, Once(_, _)) ==
    Haritala(SetToSortSeq(DOMAIN s, LAMBDA i, j : \/ Once(s[i], s[j])
                                                  \/ ~Once(s[j], s[i]) /\ i < j),
             LAMBDA i : s[i])

Kolon(ad, tip) == [ad |-> ad, tip |-> tip]
Adlar(kolonlar) == {kolonlar[i].ad : i \in DOMAIN kolonlar}
KolonBul(kolonlar, ad) == kolonlar[CHOOSE i \in DOMAIN kolonlar :
                             kolonlar[i].ad = ad /\ \A j \in 1 .. i - 1 : kolonlar[j].ad /= ad]
Tip(kolonlar, ad) == IF ad \in Adlar(kolonlar) THEN KolonBul(kolonlar, ad).tip ELSE "sayi"

\* A column is named after a value by a pivot.
AdOlur(v) == IF v \in {Bos, NullMetin} THEN "null" ELSE ToString(v[2])

\* { ...row, [ad]: deger }
Yaz1(satir, ad, deger) == (ad :> deger) @@ satir
Sil1(satir, ad) == [c \in DOMAIN satir \ {ad} |-> satir[c]]

-----------------------------------------------------------------------------
(* A frame: rows, columns, and whether rows may be missing.  Hata is the   *)
(* exception that becomes the answer.                                      *)

Hata == [tamam |-> FALSE]
Cerceve(satirlar, kolonlar, kirpik) ==
    [tamam |-> TRUE, satirlar |-> satirlar, kolonlar |-> kolonlar, kirpik |-> kirpik]

\* evaluate: null takes the default.
Ifade(e, satir) == CallScalar("coalesce", <<satir[e.kolon], e.yoksa>>)
Bilinir(kolon, satirlar) == \A i \in DOMAIN satirlar : kolon \in DOMAIN satirlar[i]

\* runAggregates, for one specification.
Topla(t, satirlar) ==
    Indirge(t.fn, Haritala(satirlar, LAMBDA r : IF t.fn = "count" THEN Sayi(1) ELSE Al(r, t.kolon)))
Toplam(t, satirlar) == t.ad :> Topla(t, satirlar)

ToplamTipi(t, kolonlar) ==
    IF t.fn \in {"count", "countDistinct"} THEN "sayi"
    ELSE IF t.fn \in {"min", "max"} THEN Tip(kolonlar, t.kolon) ELSE "sayi"

\* groupBy: a bucket per key, in order of first appearance.
Gruplar(satirlar, Anahtar(_)) ==
    Haritala(Ilkler(Haritala(satirlar, Anahtar)),
             LAMBDA k : SelectSeq(satirlar, LAMBDA r : Anahtar(r) = k))

-----------------------------------------------------------------------------
(* The boards. *)

ApplyFilter(b, f, p) ==
    LET gecen == SelectSeq(f.satirlar, LAMBDA r : Gecer(b.kosullar, b.hepsi, r, p) = b.kal)
        iz(r) == Haritala(f.kolonlar, LAMBDA c : Al(r, c.ad))
    IN  IF /\ f.satirlar /= << >>
           /\ \E i \in DOMAIN b.kosullar : \/ Eksik(b.kosullar[i], p)
                                           \/ ~Bilinir(b.kosullar[i].kolon, f.satirlar)
        THEN Hata
        ELSE [f EXCEPT !.satirlar =
                 IF b.tekil THEN Haritala(Gruplar(gecen, iz), Head) ELSE gecen]

ApplyExpression(b, f) ==
    IF ~Bilinir(b.ifade.kolon, f.satirlar) THEN Hata
    ELSE CASE b.kip = "addColumn" ->
                [f EXCEPT !.satirlar = Haritala(@, LAMBDA r : Yaz1(r, b.ad, Ifade(b.ifade, r))),
                          !.kolonlar = Append(@, Kolon(b.ad, b.sonuc))]
           [] b.kip = "replaceColumn" ->
                [f EXCEPT !.satirlar = Haritala(@, LAMBDA r : Yaz1(r, b.ad, Ifade(b.ifade, r))),
                          !.kolonlar = Haritala(@, LAMBDA c : IF c.ad = b.ad THEN Kolon(c.ad, b.sonuc) ELSE c)]
           [] b.kip = "filter" ->
                [f EXCEPT !.satirlar = SelectSeq(@, LAMBDA r : Ifade(b.ifade, r) = Sayi(1))]
           [] b.kip = "aggregate" ->
                [f EXCEPT !.satirlar =
                     Haritala(Gruplar(@, LAMBDA r : Ifade(b.ifade, r)),
                              LAMBDA g : Toplam(b.toplam, g) @@ (b.ad :> Ifade(b.ifade, g[1]))),
                          !.kolonlar = <<Kolon(b.ad, b.sonuc), Kolon(b.toplam.ad, "sayi")>>]

Secili(b, satirlar) ==
    IF b.secim = {} THEN satirlar
    ELSE SelectSeq(satirlar, LAMBDA r : Yazi(Al(r, b.kolon)) \in b.secim)

ApplyHistogram(b, f, hedef) ==
    IF b.kolon \notin Adlar(f.kolonlar) THEN Hata
    ELSE IF ~hedef /\ ~b.pivot THEN [f EXCEPT !.satirlar = Secili(b, @)]
    ELSE LET satir(g) == Toplam(b.toplam, g) @@ (b.kolon :> Yazi(Al(g[1], b.kolon)))
             once(x, y) == Kiyas("gt", x[b.toplam.ad], y[b.toplam.ad])
         IN  [f EXCEPT !.satirlar =
                  KararliSirala(Haritala(Gruplar(Secili(b, @), LAMBDA r : Yazi(Al(r, b.kolon))), satir), once),
                       !.kolonlar = <<KolonBul(@, b.kolon), Kolon(b.toplam.ad, ToplamTipi(b.toplam, @))>>]

ApplyPivot(b, f, hedef, tavan) ==
    LET boyut == Kes(Ilkler(Haritala(f.satirlar, LAMBDA r : Al(r, b.sutun))), tavan.pivot + 1)
        combo == Kes(boyut, tavan.pivot)
        sutunlu == b.sutun /= ""
        \* Two values may share a label; the later one is written last.
        sonuncu(ad) == CHOOSE i \in DOMAIN combo :
            AdOlur(combo[i]) = ad /\ \A j \in i + 1 .. Len(combo) : AdOlur(combo[j]) /= ad
        hucreler(g) ==
            IF ~sutunlu THEN Toplam(b.toplam, g)
            ELSE [ad \in {AdOlur(combo[i]) : i \in DOMAIN combo} |->
                     LET hucre == SelectSeq(g, LAMBDA r : Al(r, b.sutun) = combo[sonuncu(ad)])
                     IN  IF hucre = << >> THEN Bos ELSE Topla(b.toplam, hucre)]
    IN  IF ~hedef /\ ~b.pivot THEN f
        ELSE IF ~({b.satir} \cup (IF sutunlu THEN {b.sutun} ELSE {}) \subseteq Adlar(f.kolonlar)) THEN Hata
        ELSE Cerceve(
                Haritala(Gruplar(f.satirlar, LAMBDA r : Al(r, b.satir)),
                         LAMBDA g : hucreler(g) @@ (b.satir :> Al(g[1], b.satir))),
                <<KolonBul(f.kolonlar, b.satir)>> \o
                    (IF ~sutunlu THEN <<Kolon(b.toplam.ad, ToplamTipi(b.toplam, f.kolonlar))>>
                     ELSE Haritala(combo, LAMBDA v : Kolon(AdOlur(v), ToplamTipi(b.toplam, f.kolonlar)))),
                f.kirpik \/ (sutunlu /\ Len(boyut) > tavan.pivot))

\* What datasets.get returns of the other dataset, and whether rows are missing.
Getir(tablo, tavan) == Kes(tablo.satirlar, tavan.tarama)
Eksikli(tablo, tavan) == Len(Getir(tablo, tavan)) < Len(tablo.satirlar)

ApplyEnrich(b, f, tavan) ==
    LET sag == Getir(oteki, tavan)
        eslesen(r) == SelectSeq(sag, LAMBDA s : Al(s, b.sag) = Al(r, b.sol))
        kat(r) == Yaz1(r, b.al, IF eslesen(r) = << >> THEN Bos ELSE Al(eslesen(r)[1], b.al))
        kalan == IF b.katilim = "left" THEN f.satirlar
                 ELSE SelectSeq(f.satirlar, LAMBDA r : eslesen(r) /= << >>)
    IN  Cerceve(Haritala(kalan, kat), Append(f.kolonlar, Kolon(b.al, "sayi")),
                f.kirpik \/ Eksikli(oteki, tavan))

ApplySetMath(b, f, tavan) ==
    LET oteki1 == Getir(oteki, tavan)
        var(r) == \E i \in DOMAIN oteki1 : Al(oteki1[i], b.sag) = Al(r, b.sol)
        ekle   == Haritala(oteki1, LAMBDA s : [c \in Adlar(f.kolonlar) |-> Al(s, c)])
    IN  Cerceve(CASE b.islem = "keepOnly" -> SelectSeq(f.satirlar, var)
                  [] b.islem = "remove"   -> SelectSeq(f.satirlar, LAMBDA r : ~var(r))
                  [] b.islem = "add"      -> f.satirlar \o ekle,
                f.kolonlar, f.kirpik \/ Eksikli(oteki, tavan))

KolonIslemi(o, kolonlar) ==
    CASE o.op = "drop"    -> SelectSeq(kolonlar, LAMBDA c : c.ad /= o.kolon)
      [] o.op = "rename"  -> Haritala(kolonlar, LAMBDA c : IF c.ad = o.kolon THEN Kolon(o.yeni, c.tip) ELSE c)
      [] o.op = "cast"    -> Haritala(kolonlar, LAMBDA c : IF c.ad = o.kolon THEN Kolon(c.ad, o.tip) ELSE c)
      [] o.op = "reorder" -> SelectSeq(kolonlar, LAMBDA c : c.ad = o.kolon)
                             \o SelectSeq(kolonlar, LAMBDA c : c.ad /= o.kolon)

CastValue(v, tip) == IF v = Bos THEN Bos
                     ELSE IF tip = "metin" THEN Yazi(v)
                     ELSE IF NaN(v) THEN Bos ELSE Sayi(v[2])

SatirIslemi(o, satir) ==
    CASE o.op = "drop"    -> Sil1(satir, o.kolon)
      [] o.op = "rename"  -> Yaz1(Sil1(satir, o.kolon), o.yeni, Al(satir, o.kolon))
      [] o.op = "cast"    -> Yaz1(satir, o.kolon, CastValue(Al(satir, o.kolon), o.tip))
      [] o.op = "reorder" -> satir

ApplyEditColumns(b, f) ==
    FoldLeft(LAMBDA g, o : [g EXCEPT !.satirlar = Haritala(@, LAMBDA r : SatirIslemi(o, r)),
                                     !.kolonlar = KolonIslemi(o, @)], f, b.islemler)

ApplyBoard(b, f, p, hedef, tavan) ==
    CASE b.tur = "gorsel"      -> f    \* chart, table
      [] b.tur = "filter"      -> ApplyFilter(b, f, p)
      [] b.tur = "expression"  -> ApplyExpression(b, f)
      [] b.tur = "histogram"   -> ApplyHistogram(b, f, hedef)
      [] b.tur = "pivot"       -> ApplyPivot(b, f, hedef, tavan)
      [] b.tur = "enrich"      -> ApplyEnrich(b, f, tavan)
      [] b.tur = "setMath"     -> ApplySetMath(b, f, tavan)
      [] b.tur = "editColumns" -> ApplyEditColumns(b, f)

\* The frame in front of the board after the first n, from board `bas' on; the
\* last board is the target when the whole path is run.
Kosulan(bs, ilk, bas, n, p, tavan) ==
    FoldLeft(LAMBDA f, i : IF f.tamam THEN ApplyBoard(bs[i], f, p, i = Len(bs), tavan) ELSE f,
             ilk, [k \in 1 .. n - bas + 1 |-> bas + k - 1])

\* The answer: the first `satir' rows, and whether anything is missing.
Yanit(f, tavan) ==
    IF ~f.tamam THEN Hata
    ELSE [f EXCEPT !.satirlar = Kes(@, tavan.satir), !.kirpik = @ \/ Len(f.satirlar) > tavan.satir]

Okunan(tablo, tavan) == Cerceve(Getir(tablo, tavan), tablo.kolonlar, Eksikli(tablo, tavan))

\* InMemoryQueryEngine.execute
Bellekte(bs, tablo, p, tavan) ==
    Yanit(Kosulan(bs, Okunan(tablo, tavan), 1, Len(bs), p, tavan), tavan)

-----------------------------------------------------------------------------
(* Pushdown: the leading filters become one WHERE.                         *)

\* Mutant of Itilir: an expression is taken for a board that changes no row.
ItilirIfade(b) == b.tur \in {"gorsel", "filter"} \/ (b.tur = "expression" /\ b.kip /= "filter")

Itilir(b) == b.tur \in {"gorsel", "filter"}
Itilen(bs) == Cardinality({n \in 1 .. Len(bs) : \A i \in 1 .. n : Itilir(bs[i])})
Suzgecler(bs) == SelectSeq(SubSeq(bs, 1, Itilen(bs)), LAMBDA b : b.tur = "filter")

\* filterBoardSql, with the parentheses and NOT it writes
FilterBoardSql(b, satir, p) ==
    IF b.kosullar = << >> THEN TRUE
    ELSE LET ic == SqlGecer(b.kosullar, b.hepsi, satir, p)
         IN  IF b.kal THEN ic ELSE SqlDegil(ic)

Uyan(bs, satirlar, p) ==
    SelectSeq(satirlar, LAMBDA r : \A i \in DOMAIN Suzgecler(bs) :
                                       LET d == FilterBoardSql(Suzgecler(bs)[i], r, p) IN d /= Bos /\ d)

SqlHatasi(bs, tablo, p) ==
    \E i \in DOMAIN Suzgecler(bs) : \E j \in DOMAIN Suzgecler(bs)[i].kosullar :
        LET k == Suzgecler(bs)[i].kosullar[j]
        IN  Eksik(k, p) \/ k.kolon \notin Adlar(tablo.kolonlar)

\* SqlPushdownQueryEngine.execute
Itilmis(bs, tablo, p, tavan) ==
    IF Suzgecler(bs) = << >> THEN Bellekte(bs, tablo, p, tavan)
    ELSE IF SqlHatasi(bs, tablo, p) THEN Hata
    ELSE LET uyan == Uyan(bs, tablo.satirlar, p)
             ilk  == Cerceve(Kes(uyan, tavan.tarama), tablo.kolonlar, Len(uyan) > tavan.tarama)
         IN  Yanit(Kosulan(bs, ilk, Itilen(bs) + 1, Len(bs), p, tavan), tavan)

-----------------------------------------------------------------------------
(* The client: columns without a query, and the key of a query.            *)

\* Mutant of PropagateBoard: "switch to pivoted data" is not looked at.
PropagateBoardHam(b, kolonlar) ==
    CASE b.tur = "expression" /\ b.kip = "addColumn" -> Append(kolonlar, Kolon(b.ad, b.sonuc))
      [] b.tur = "enrich"      -> Append(kolonlar, Kolon(b.al, "sayi"))
      [] b.tur = "editColumns" -> FoldLeft(LAMBDA c, o : KolonIslemi(o, c), kolonlar, b.islemler)
      [] OTHER                 -> kolonlar

PropagateBoard(b, kolonlar) ==
    CASE b.tur \in {"filter", "gorsel", "setMath"} -> kolonlar
      [] b.tur = "expression" ->
           (CASE b.kip = "filter"        -> kolonlar
              [] b.kip = "addColumn"     -> Append(kolonlar, Kolon(b.ad, b.sonuc))
              [] b.kip = "replaceColumn" -> Haritala(kolonlar, LAMBDA c : IF c.ad = b.ad THEN Kolon(c.ad, b.sonuc) ELSE c)
              [] b.kip = "aggregate"     -> <<Kolon(b.ad, b.sonuc), Kolon(b.toplam.ad, "sayi")>>)
      [] b.tur = "histogram" ->
           IF ~b.pivot THEN kolonlar
           ELSE <<IF b.kolon \in Adlar(kolonlar) THEN KolonBul(kolonlar, b.kolon) ELSE Kolon(b.kolon, "metin"),
                  Kolon(b.toplam.ad, ToplamTipi(b.toplam, kolonlar))>>
      [] b.tur = "pivot" ->
           IF ~b.pivot THEN kolonlar
           ELSE (IF b.satir \in Adlar(kolonlar) THEN <<KolonBul(kolonlar, b.satir)>> ELSE << >>)
                \o <<Kolon(b.toplam.ad, ToplamTipi(b.toplam, kolonlar))>>
      [] b.tur = "enrich"      -> Append(kolonlar, Kolon(b.al, "sayi"))
      [] b.tur = "editColumns" -> FoldLeft(LAMBDA c, o : KolonIslemi(o, c), kolonlar, b.islemler)

PropagatePath(bs, kolonlar, n) ==
    FoldLeft(LAMBDA c, b : PropagateBoard(b, c), kolonlar, SubSeq(bs, 1, n))

\* Mutant of Gosterim: a selection does not make a histogram effective.
GosterimSecimsiz(b) == \/ b.tur = "gorsel"
                       \/ b.tur \in {"histogram", "pivot"} /\ ~b.pivot

Gosterim(b) == \/ b.tur = "gorsel"
               \/ b.tur = "histogram" /\ ~b.pivot /\ b.secim = {}
               \/ b.tur = "pivot" /\ ~b.pivot

\* The boards of the key: the display-only ones before the target are dropped.
EffectiveBoards(bs) ==
    IF bs = << >> THEN bs ELSE SelectSeq(Front(bs), LAMBDA b : ~Gosterim(b)) \o <<Last(bs)>>

\* The parameters of the key: those the boards of the key name.
Anilan(bs) ==
    UNION {UNION {{k.degerler[i].ad : i \in {i \in DOMAIN k.degerler : k.degerler[i].tur = "parametre"}} :
                     k \in ToSet(b.kosullar)} : b \in {b \in ToSet(bs) : b.tur = "filter"}}
IlgiliDegerler(bs, p) == [ad \in Anilan(EffectiveBoards(bs)) \cap DOMAIN p |-> p[ad]]

-----------------------------------------------------------------------------
BoruInit ==
    /\ kartlar = << >>
    /\ kaynak \in Tablo
    /\ oteki \in OtekiTablo
    /\ degerler \in Parametre
    /\ turevTam = TRUE

\* analysisSlice.addBoard: at the end or between two boards.
AddBoard(b, i) ==
    /\ Len(kartlar) < MaxKart
    /\ kartlar' = InsertAt(kartlar, i, b)
    /\ UNCHANGED <<kaynak, oteki, degerler, turevTam>>

\* updateBoard
UpdateBoard(b, i) ==
    /\ kartlar' = ReplaceAt(kartlar, i, b)
    /\ UNCHANGED <<kaynak, oteki, degerler, turevTam>>

\* removeBoard
RemoveBoard(i) ==
    /\ kartlar' = RemoveAt(kartlar, i)
    /\ UNCHANGED <<kaynak, oteki, degerler, turevTam>>

\* removeBoardsBelow
RemoveBoardsBelow(i) ==
    /\ kartlar' = SubSeq(kartlar, 1, i)
    /\ UNCHANGED <<kaynak, oteki, degerler, turevTam>>

Yanitlar(tavan) == {Bellekte(kartlar, kaynak, degerler, tavan), Itilmis(kartlar, kaynak, degerler, tavan)}
Sakla(yanit) ==
    turevTam' = (turevTam /\ \E tam \in Yanitlar(Tavansiz) : tam.tamam /\ tam.satirlar = yanit.satirlar)

\* Mutant of Materialize: the rows are stored without looking whether some are missing.
MaterializeKirpik ==
    /\ \E yanit \in Yanitlar(Tavanlar) : yanit.tamam /\ Sakla(yanit)
    /\ UNCHANGED <<kartlar, kaynak, oteki, degerler>>

\* Save as dataset, under either engine: refused when a row may be missing.
Materialize ==
    /\ \E yanit \in Yanitlar(Tavanlar) : yanit.tamam /\ ~yanit.kirpik /\ Sakla(yanit)
    /\ UNCHANGED <<kartlar, kaynak, oteki, degerler>>

BoruNext ==
    \/ \E b \in Kart, i \in 1 .. Len(kartlar) + 1 : AddBoard(b, i)
    \/ \E b \in Kart, i \in 1 .. Len(kartlar) : UpdateBoard(b, i)
    \/ \E i \in 1 .. Len(kartlar) : RemoveBoard(i)
    \/ \E i \in 0 .. Len(kartlar) - 1 : RemoveBoardsBelow(i)
    \/ Materialize

BoruSpec == BoruInit /\ [][BoruNext]_boruVars

-----------------------------------------------------------------------------
(* Properties. *)

BuYanit(tavan)  == Bellekte(kartlar, kaynak, degerler, tavan)
ItYanit(tavan)  == Itilmis(kartlar, kaynak, degerler, tavan)

\* The columns a configuration form offers are the columns the server has at
\* that board: what propagatePath says of every board is what the run of the
\* path gives, unless a pivot with column dimensions lies above.
SemaDogru ==
    \A n \in 0 .. Len(kartlar) - 1 :
        LET f == Kosulan(kartlar, Okunan(kaynak, Tavansiz), 1, n, degerler, Tavansiz)
        IN  \/ ~f.tamam
            \/ \E i \in 1 .. n : kartlar[i].tur = "pivot" /\ kartlar[i].pivot /\ kartlar[i].sutun /= ""
            \/ f.kolonlar = PropagatePath(kartlar, kaynak.kolonlar, n)

Durust(kesik, tam) == kesik.tamam /\ ~kesik.kirpik => kesik = tam

\* An answer that is not marked truncated is the whole answer: what the path
\* gives when no scan limit, row limit or pivot limit exists, for both engines.
\* A materialised dataset is always whole.
KirpikDurust ==
    /\ Durust(BuYanit(Tavanlar), BuYanit(Tavansiz))
    /\ Durust(ItYanit(Tavanlar), ItYanit(Tavansiz))
    /\ turevTam

\* PostgreSQL answers "unknown" and the engine in memory does not: a null cell
\* under a board that removes or under a pattern that the empty text matches, and
\* a condition on a null value.
BilinmezVar ==
    \E i \in DOMAIN Suzgecler(kartlar), r \in ToSet(kaynak.satirlar) :
        LET b == Suzgecler(kartlar)[i] IN
        \E k \in ToSet(b.kosullar) :
            \/ Eksik(k, degerler)
            \/ \E d \in ToSet(Cozulen(k, degerler)) : d = Bos \/ (d = BosDesen /\ Al(r, k.kolon) = Bos)
            \/ Al(r, k.kolon) = Bos /\ ~b.kal

\* A pushed board that removes, and has no condition yet: in memory every row
\* matches it and is removed, in SQL the board is TRUE and removes none, which is
\* also what its card says ("no condition: all rows pass", FilterBoardView.tsx:138).
KosulsuzCikarir ==
    \E i \in DOMAIN Suzgecler(kartlar) :
        Suzgecler(kartlar)[i].kosullar = << >> /\ ~Suzgecler(kartlar)[i].kal

Uyusur(m, s) == m.tamam /\ s.tamam /\ ~m.kirpik /\ ~s.kirpik => m = s

\* Pushing the leading filters into SQL does not change the answer, as long as
\* neither answer is an error or truncated, no condition is unknown to SQL and no
\* board removes without a condition.
ItmeAyni == BilinmezVar \/ KosulsuzCikarir \/ Uyusur(BuYanit(Tavanlar), ItYanit(Tavanlar))

\* What a query returns can be taken as it is.
YanitDurust == KirpikDurust /\ ItmeAyni

\* The comment of SqlPushdownQueryEngine (sql-query-engine.ts:24): the answer is
\* the same on both paths.  Here of boards that have conditions.
IkiYolAyni == KosulsuzCikarir \/ Uyusur(BuYanit(Tavanlar), ItYanit(Tavanlar))

\* Two paths with one cache key have one answer: boards and parameters that
\* are not in the key do not matter, unless a dropped board is an error.
AnahtarYeter ==
    LET m == BuYanit(Tavanlar)
        k == Bellekte(EffectiveBoards(kartlar), kaynak, IlgiliDegerler(kartlar, degerler), Tavanlar)
    IN  m.tamam => m = k

\* What the client decides without asking agrees with the server: the columns
\* it offers, and which answer it takes for the answer of the path shown.
IstemciUyumlu == SemaDogru /\ AnahtarYeter
===============================================================================
