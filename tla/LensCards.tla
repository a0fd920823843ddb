------------------------------- MODULE LensCards -------------------------------
(***************************************************************************)
(* Mercek's page: cards that refer to an input card, each compiled to an   *)
(* object set definition (ObjectSets), and the linter the server puts      *)
(* before definitions a language model wrote.  Cards and parameters are    *)
(* the document; every edit is undoable.                                   *)
(*                                                                         *)
(* A chart shows the answer to its question, kept by the query library     *)
(* per question; until a new question is answered it goes on showing the   *)
(* answer before (placeholderData).  An answer to a question no longer     *)
(* asked is left out: the question is put again when it comes back.        *)
(* The tables do not change.  Left out: cards that only show (metric, time *)
(* series), segments, with which a chart cannot be clicked, conditions on  *)
(* times, and the places of the cards.                                     *)
(***************************************************************************)
EXTENDS ObjectSets

CONSTANTS
    IlkBelge,    \* documents the page may have loaded, [kartlar, params]
    KosulFormu,  \* conditions the form of a filter card can hold: sequences
    ParamAdi,    \* names of parameters
    ParamDeger,  \* values they are given
    MaxMercek,   \* bound: cards ever made
    MaxJest      \* bound: gestures of the operator

VARIABLES
    belge,    \* the document: cards, parameters (name -> value)
    belgeGecmisi, \* undo history: [once, sonra]
    onbellek, \* questions the library has the answer to
    gorunen,  \* chart -> [soru: the question whose answer it shows, hata]
    inis,     \* the last gesture was a click: [kart, olcu, deger, sebep]
    sonNo,    \* cards made so far (nanoid: ids are never used again)
    jest      \* gestures so far

lensVars == <<belge, belgeGecmisi, onbellek, gorunen, inis, sonNo, jest>>

Hic == [yok |-> TRUE]

-----------------------------------------------------------------------------
(* Cards and definitions.                                                  *)

KartNo(b, no) == CHOOSE k \in ToSet(b.kartlar) : k.no = no
Kartlari(b) == {k.no : k \in ToSet(b.kartlar)}

NextChip(kartlar) == Min((1 .. Len(kartlar) + 1) \ {k.chip : k \in ToSet(kartlar)})

\* A condition without a column or a value does not reach the query.
Tam(kosul) == /\ kosul.kolon /= Bos
              /\ kosul.degerler /= << >> \/ kosul.op \in {"isNull", "isNotNull"}

\* The step a card adds to the definition of its input; charts add none.
Adimi(k) ==
    CASE k.tur = "filter"       -> <<[tur |-> "filter", hepsi |-> k.ic.hepsi, kosullar |-> SelectSeq(k.ic.kosullar, Tam)]>>
      [] k.tur = "searchAround" -> <<[tur |-> "searchAround", link |-> k.ic]>>
      [] k.tur = "joinLinked"   -> LET s == SetToSeq(k.ic.kolonlar) IN
                                   [i \in DOMAIN s |-> [tur |-> "joinLinked", link |-> k.ic.link, kolon |-> s[i]]]
      [] k.tur = "chart"        -> << >>

\* A card's input is older than the card.
Tanimlar(b) ==
    LET f[n \in Nat] ==
            IF n \notin Kartlari(b) THEN Hic
            ELSE LET k == KartNo(b, n) IN
                 IF k.tur = "objectSet" THEN [kok |-> [tur |-> "base", tip |-> k.ic], adim |-> << >>]
                 ELSE IF f[k.girdi] = Hic THEN Hic
                 ELSE [kok |-> f[k.girdi].kok, adim |-> f[k.girdi].adim \o Adimi(k)]
    IN  f
BuildDef(b, no) == Tanimlar(b)[no]

ResultObjectType(b, no) ==
    LET f[n \in Nat] ==
            IF n \notin Kartlari(b) THEN Bos
            ELSE LET k == KartNo(b, n) IN
                 CASE k.tur = "objectSet"    -> k.ic
                   [] k.tur = "searchAround" -> Baglanti[k.ic].kime
                   [] OTHER                  -> f[k.girdi]
    IN  f[no]

\* Mutant of WithDescendants: the cards made from the card stay.
WithDescendantsTek(b, no) == {no}

WithDescendants(b, no) ==
    LET f[n \in Nat] == n = no \/ (n \in Kartlari(b) /\ KartNo(b, n).girdi /= 0 /\ f[KartNo(b, n).girdi])
    IN  {n \in Kartlari(b) : f[n]}

-----------------------------------------------------------------------------
(* What a chart asks and shows.                                            *)

\* Mutant of Soru: a chart asks about the first card of its chain.
SoruKokten(b, no) ==
    LET k == KartNo(b, no)  d == BuildDef(b, k.girdi) IN
    IF d = Hic \/ k.ic.grup = Bos THEN Hic
    ELSE [tanim |-> [d EXCEPT !.adim = << >>], grup |-> k.ic.grup, olcu |-> k.ic.olcu, params |-> b.params]

\* Nothing is asked before a group is picked.
Soru(b, no) ==
    LET k == KartNo(b, no)  d == BuildDef(b, k.girdi) IN
    IF d = Hic \/ k.ic.grup = Bos THEN Hic
    ELSE [tanim |-> d, grup |-> k.ic.grup, olcu |-> k.ic.olcu, params |-> b.params]

Cevabi(soru) == Cozumle(soru.tanim.kok, soru.tanim.adim, soru.params)

\* The bars: [grup, deger], of the largest groups.
Cubuklar(soru) ==
    {[grup |-> (CHOOSE r \in x[1] : TRUE)[soru.grup], deger |-> x[3]] :
        x \in UNION AggregateBellek(ToSet(Cevabi(soru).nesneler), soru.olcu, soru.grup, soru.grup, KovaSayisi)}

\* String(obj[groupBy] ?? '(boş)'), a text that is no cell's.
Etiket(v) == IF v = Bos THEN Metin(-2) ELSE Yazi(v)

Grafikler(b) == {k.no : k \in {k \in ToSet(b.kartlar) : k.tur = "chart"}}

Goster(b, bilinen) ==
    [n \in Grafikler(b) |->
        LET s == Soru(b, n) IN
        IF s \in bilinen THEN [soru |-> s, hata |-> FALSE]
        ELSE IF n \notin DOMAIN gorunen THEN [soru |-> Hic, hata |-> FALSE]
        ELSE IF n \in Kartlari(belge) /\ Soru(belge, n) = s THEN gorunen[n]
        ELSE [gorunen[n] EXCEPT !.hata = FALSE]]

-----------------------------------------------------------------------------
(* Gestures.                                                               *)

Jest == jest < MaxJest /\ jest' = jest + 1

Geldi(b) == belge' = b /\ gorunen' = Goster(b, onbellek) /\ UNCHANGED onbellek

\* A reducer behind redux-undo.
Yaz(b) ==
    /\ belgeGecmisi' = [once |-> Append(belgeGecmisi.once, belge), sonra |-> << >>]
    /\ Geldi(b)

YeniKart(tur, girdi, ic) ==
    /\ sonNo < MaxMercek
    /\ sonNo' = sonNo + 1
    /\ Yaz([belge EXCEPT !.kartlar = Append(@,
            [no |-> sonNo + 1, chip |-> NextChip(@), tur |-> tur, girdi |-> girdi, ic |-> ic])])

\* addMercekCard: a type from the menu, or from the bar under the selected card.
NesneEkle == /\ Jest /\ inis' = Hic
             /\ \E tip \in DOMAIN NesneTipi : YeniKart("objectSet", 0, tip)

DevamEt ==
    /\ Jest /\ inis' = Hic
    /\ \E no \in Kartlari(belge) :
        LET tip == ResultObjectType(belge, no) IN
        \/ YeniKart("filter", no, [hepsi |-> TRUE, kosullar |-> << >>])
        \/ YeniKart("chart", no, [grup |-> Bos, olcu |-> [fn |-> "count", kolon |-> "x"]])
        \/ \E l \in DOMAIN Baglanti :
            /\ Baglanti[l].kimden = tip
            /\ \/ YeniKart("searchAround", no, l)
               \/ YeniKart("joinLinked", no, [link |-> l,
                    kolonlar |-> NesneTipi[Baglanti[l].kime].kolonlar \ {NesneTipi[Baglanti[l].kime].pk}])

\* updateMercekCard from the body of a card.
KartYaz(no, ic) ==
    /\ UNCHANGED sonNo
    /\ Yaz([belge EXCEPT !.kartlar = [i \in DOMAIN @ |-> IF @[i].no = no THEN [@[i] EXCEPT !.ic = ic] ELSE @[i]]])

Degistir ==
    /\ Jest /\ inis' = Hic
    /\ \E k \in ToSet(belge.kartlar) :
        LET tip == ResultObjectType(belge, k.girdi) IN
        \/ /\ k.tur = "filter"
           /\ \E f \in KosulFormu : /\ f /= k.ic.kosullar
                                    /\ \A i \in DOMAIN f : f[i].kolon \in {Bos} \cup NesneTipi[tip].kolonlar
                                    /\ KartYaz(k.no, [k.ic EXCEPT !.kosullar = f])
        \/ k.tur = "filter" /\ KartYaz(k.no, [k.ic EXCEPT !.hepsi = ~@])
        \/ /\ k.tur = "chart"
           /\ \E g \in NesneTipi[tip].kolonlar \ {k.ic.grup} : KartYaz(k.no, [k.ic EXCEPT !.grup = g])
        \/ /\ k.tur = "chart"
           /\ \E m \in Olcu \ {k.ic.olcu} : KartYaz(k.no, [k.ic EXCEPT !.olcu = m])
        \/ /\ k.tur = "joinLinked"
           /\ \E c \in SUBSET NesneTipi[Baglanti[k.ic.link].kime].kolonlar \ {{}, k.ic.kolonlar} :
                  KartYaz(k.no, [k.ic EXCEPT !.kolonlar = c])

\* removeMercekCard
KartSil ==
    /\ Jest /\ inis' = Hic /\ UNCHANGED sonNo
    /\ \E no \in Kartlari(belge) :
        LET giden == WithDescendants(belge, no)
        IN  Yaz([belge EXCEPT !.kartlar = SelectSeq(@, LAMBDA k : k.no \notin giden)])

\* A click on a bar: a filter card over the chart's input.
DrillDown ==
    /\ Jest
    /\ \E no \in DOMAIN gorunen :
        LET k == KartNo(belge, no)  g == gorunen[no] IN
        /\ g.soru /= Hic /\ ~g.hata
        /\ \E c \in Cubuklar(g.soru) :
            /\ YeniKart("filter", k.girdi, [hepsi |-> TRUE, kosullar |->
                    <<[kolon |-> k.ic.grup, op |-> "eq", degerler |-> <<[tur |-> "literal", deger |-> Etiket(c.grup)]>>]>>])
            /\ inis' = [kart |-> sonNo + 1, olcu |-> g.soru.olcu, deger |-> c.deger,
                        sebep |-> (IF c.grup = Bos THEN {"bos"} ELSE {})
                                  \cup (IF g.soru /= Soru(belge, no) THEN {"bekleyen"} ELSE {})]

\* ParamsPanel: a new parameter is '', which compares as the number 0.
ParamYazilir(p) == /\ Jest /\ inis' = Hic /\ UNCHANGED sonNo
                /\ Yaz([belge EXCEPT !.params = p])
ParametreEkle == \E ad \in ParamAdi \ DOMAIN belge.params : ParamYazilir((ad :> Metin(0)) @@ belge.params)
ParametreYaz  == \E ad \in DOMAIN belge.params, d \in ParamDeger : ParamYazilir([belge.params EXCEPT ![ad] = d])
ParametreSil  == \E ad \in DOMAIN belge.params : ParamYazilir([x \in DOMAIN belge.params \ {ad} |-> belge.params[x]])

Undo ==
    /\ Jest /\ inis' = Hic /\ UNCHANGED sonNo
    /\ belgeGecmisi.once /= << >>
    /\ belgeGecmisi' = [once |-> Front(belgeGecmisi.once), sonra |-> <<belge>> \o belgeGecmisi.sonra]
    /\ Geldi(Last(belgeGecmisi.once))

Redo ==
    /\ Jest /\ inis' = Hic /\ UNCHANGED sonNo
    /\ belgeGecmisi.sonra /= << >>
    /\ belgeGecmisi' = [once |-> Append(belgeGecmisi.once, belge), sonra |-> Tail(belgeGecmisi.sonra)]
    /\ Geldi(Head(belgeGecmisi.sonra))

-----------------------------------------------------------------------------
(* Answers: the engine's, its refusal, or none.                            *)

Cevaplanir(no) ==
    LET s == Soru(belge, no) IN
    /\ s /= Hic /\ s \notin onbellek /\ ~gorunen[no].hata
    /\ inis' = Hic
    /\ \/ /\ Cevabi(s).tamam
          /\ onbellek' = onbellek \cup {s}
          /\ gorunen' = Goster(belge, onbellek')
       \/ /\ gorunen' = [n \in DOMAIN gorunen |-> [gorunen[n] EXCEPT !.hata = @ \/ Soru(belge, n) = s]]
          /\ UNCHANGED onbellek
    /\ UNCHANGED <<belge, belgeGecmisi, sonNo, jest>>

LensInit ==
    /\ belge \in IlkBelge
    /\ belgeGecmisi = [once |-> << >>, sonra |-> << >>]
    /\ onbellek = {}
    /\ gorunen = [n \in Grafikler(belge) |-> [soru |-> Hic, hata |-> FALSE]]
    /\ inis = Hic
    /\ sonNo = Max({0} \cup Kartlari(belge))
    /\ jest = 0

LensNext ==
    \/ NesneEkle \/ DevamEt \/ Degistir \/ KartSil \/ DrillDown \/ Undo \/ Redo
    \/ ParametreEkle \/ ParametreYaz \/ ParametreSil
    \/ \E no \in DOMAIN gorunen : Cevaplanir(no)

LensSpec == LensInit /\ [][LensNext /\ UNCHANGED nesneVars]_<<lensVars, nesneVars>>

-----------------------------------------------------------------------------
(* def-lint.ts: [tip: the type of the result, Bos if unknown; sorun].      *)

\* Column names with two underscores.
EkKolonlar == {EkKolon(t, c) : t \in DOMAIN NesneTipi, c \in UNION {NesneTipi[t].kolonlar : t \in DOMAIN NesneTipi}}

\* Mutant of LintObjectSetDef: a join gives the type it joins.
LintObjectSetDefHedef(s, adimlar) ==
    FoldLeft(LAMBDA l, a :
        IF a.tur = "filter" THEN
            [l EXCEPT !.sorun = @ \/ (l.tip /= Bos /\ \E i \in DOMAIN a.kosullar :
                a.kosullar[i].kolon \notin NesneTipi[l.tip].kolonlar \cup EkKolonlar)]
        ELSE IF a.link \notin DOMAIN Baglanti THEN [tip |-> Bos, sorun |-> TRUE]
        ELSE [tip |-> Baglanti[a.link].kime, sorun |-> l.sorun \/ (l.tip /= Bos /\ Baglanti[a.link].kimden /= l.tip)],
        IF s.tip \in DOMAIN NesneTipi THEN [tip |-> s.tip, sorun |-> FALSE] ELSE [tip |-> Bos, sorun |-> TRUE],
        adimlar)

LintObjectSetDef(s, adimlar) ==
    FoldLeft(LAMBDA l, a :
        IF a.tur = "filter" THEN
            [l EXCEPT !.sorun = @ \/ (l.tip /= Bos /\ \E i \in DOMAIN a.kosullar :
                a.kosullar[i].kolon \notin NesneTipi[l.tip].kolonlar \cup EkKolonlar)]
        ELSE IF a.link \notin DOMAIN Baglanti THEN [tip |-> Bos, sorun |-> TRUE]
        ELSE [tip   |-> IF a.tur = "joinLinked" THEN l.tip ELSE Baglanti[a.link].kime,
              sorun |-> \/ l.sorun
                        \/ l.tip /= Bos /\ Baglanti[a.link].kimden /= l.tip
                        \/ a.tur = "joinLinked" /\ a.kolon \notin NesneTipi[Baglanti[a.link].kime].kolonlar],
        IF s.tip \in DOMAIN NesneTipi THEN [tip |-> s.tip, sorun |-> FALSE] ELSE [tip |-> Bos, sorun |-> TRUE],
        adimlar)

\* resultTypeOf, in the server and in the client.
ResultTypeOf(s, adimlar) ==
    FoldLeft(LAMBDA t, a : IF a.tur /= "searchAround" THEN t
                           ELSE IF a.link \in DOMAIN Baglanti THEN Baglanti[a.link].kime ELSE Bos,
             IF s.tip \in DOMAIN NesneTipi THEN s.tip ELSE Bos, adimlar)

\* useCaprazDef: the cross filter of a dashboard on a widget's definition.
\* Mutant of CaprazAdim: also where the type lacks the column.
CaprazAdimHep(s, adimlar, kolon, etiket) ==
    Append(adimlar, [tur |-> "filter", hepsi |-> TRUE, kosullar |->
        <<[kolon |-> kolon, op |-> "eq", degerler |-> <<[tur |-> "literal", deger |-> etiket]>>]>>])

CaprazAdim(s, adimlar, kolon, etiket) ==
    IF ResultTypeOf(s, adimlar) = Bos \/ kolon \notin NesneTipi[ResultTypeOf(s, adimlar)].kolonlar THEN adimlar
    ELSE Append(adimlar, [tur |-> "filter", hepsi |-> TRUE, kosullar |->
            <<[kolon |-> kolon, op |-> "eq", degerler |-> <<[tur |-> "literal", deger |-> etiket]>>]>>])

-----------------------------------------------------------------------------
(* Properties.                                                             *)

\* Columns that joins since the last change of type have added before step i.
Eklenmis(adimlar, i) ==
    {EkKolon(Baglanti[adimlar[j].link].kime, adimlar[j].kolon) :
        j \in {j \in 1 .. i - 1 : /\ adimlar[j].tur = "joinLinked"
                                  /\ \A m \in j .. i - 1 : adimlar[m].tur /= "searchAround"}}

\* "An empty list: the definition agrees with the ontology" (def-lint.ts:40).  What
\* the linter passes the engine takes, with the type every side computes, unless a
\* condition is on a joined column that no join has added; what it reports is
\* refused, by SQL at least (in memory no row may get there).
LintDurust ==
    LET l == LintObjectSetDef(kok, adim) IN
    /\ l.sorun => ~Cozum.tamam \/ Derleme = {}
    /\ ~l.sorun => /\ l.tip = ResultTypeOf(kok, adim)
                   /\ \/ Cozum.tamam /\ Cozum.tip = l.tip
                      \/ \E i \in DOMAIN adim : /\ adim[i].tur = "filter"
                                                /\ \E j \in DOMAIN adim[i].kosullar :
                                                    adim[i].kosullar[j].kolon \in EkKolonlar \ Eklenmis(adim, i)

\* A value clicked in a chart of a dashboard narrows another widget over the same
\* objects to those of that bar, and to none if the bar is that of null; a widget
\* whose type lacks the column stays as it is.
CaprazSuzer ==
    Cozum.tamam =>
        \A c \in Cozum.kolonlar :
            LET suzulen(g) == Cozumle(kok, CaprazAdim(kok, adim, c, Etiket(g)), << >>)
            IN  \A g \in {r[c] : r \in ToSet(Cozum.nesneler)} :
                    /\ suzulen(g).tamam
                    /\ suzulen(g).nesneler = IF c \notin NesneTipi[Cozum.tip].kolonlar THEN Cozum.nesneler
                                             ELSE SelectSeq(Cozum.nesneler, LAMBDA r : r[c] = g /\ g /= Bos)

\* Whatever is added, edited, removed, undone and redone: every card has its input
\* and a chip of its own, the page and the engine compute the same type for it, the
\* linter has nothing to say of its definition, and the engine refuses it only
\* where a condition names a parameter that was removed.
ZincirTam ==
    /\ Cardinality({k.chip : k \in ToSet(belge.kartlar)}) = Len(belge.kartlar)
    /\ \A k \in ToSet(belge.kartlar) :
        LET d == BuildDef(belge, k.no) IN
        /\ d /= Hic
        /\ LintObjectSetDef(d.kok, d.adim) = [tip |-> ResultObjectType(belge, k.no), sorun |-> FALSE]
        /\ LET c == Cozumle(d.kok, d.adim, belge.params) IN
           \/ c.tamam /\ c.tip = ResultObjectType(belge, k.no)
           \/ ~c.tamam /\ \E i \in DOMAIN d.adim : /\ d.adim[i].tur = "filter"
                                                   /\ \E j \in DOMAIN d.adim[i].kosullar :
                                                        Eksik(d.adim[i].kosullar[j], belge.params)

\* "Click a bar: down to the objects of that group" (ChartCardBody.tsx:239).  The
\* objects of the new card amount to what the bar showed, unless the bar was that of
\* null or the chart showed the answer to an earlier question.
InisSebepli ==
    inis /= Hic /\ inis.sebep = {} =>
        LET d == BuildDef(belge, inis.kart)  c == Cozumle(d.kok, d.adim, belge.params)
        IN  c.tamam /\ Olc(inis.olcu, ToSet(c.nesneler)) = inis.deger

\* Definitions made by hand, by clicks or by the language model mean what their maker
\* was shown.
TanimDurust == LintDurust /\ CaprazSuzer /\ ZincirTam /\ InisSebepli
=============================================================================
