----------------------------- MODULE DocumentPages -----------------------------
(***************************************************************************)
(* Analysis and lens documents in one browser: the two undoable slices of  *)
(* the store, the pages that show, edit, undo and save their document, and *)
(* the home pages that create, open and delete one.                        *)
(*                                                                         *)
(* The content of a document is a number, new with every edit.  Requests   *)
(* are answered in any order; the operator moves on without waiting.  A    *)
(* load knows the contents the server has held since it was sent: any of   *)
(* them may be the one it read.                                            *)
(***************************************************************************)
EXTENDS Sequences, Naturals

CONSTANTS
    Tur,        \* kinds of documents: one slice, one page and one home page each
    VeridenTur, \* kinds whose home page also starts a document from a dataset
    Kimlik,     \* ids of documents
    Kayitli,    \* <<kind, id>> of the documents stored at the start
    GecmisSiniri, \* limit of the undo history
    MaxSurum,   \* bound: contents
    MaxYukleme, \* bound: loads
    MaxKayit,   \* bound: saves
    MaxSayfa    \* bound: visits of pages

ASSUME BelgeVarsayim ==
    /\ "ev" \notin Tur /\ "yok" \notin Kimlik
    /\ VeridenTur \subseteq Tur /\ Kayitli \subseteq Tur \X Kimlik
    /\ GecmisSiniri \in Nat \ {0}

VARIABLES
    slice,      \* kind -> its undo history: past, present, future
    sayfa,      \* the page shown: kind and id of its document, its error flag
    sira,       \* visits, mounts, contents, loads and saves so far
    yukleme,    \* loads on their way
    kayit,      \* saves on their way
    sunucu,     \* <<kind, id>> -> the content stored, or Bulunmaz
    son,        \* history: <<kind, id>> -> the content the operator last gave it
    kayipNedeni  \* history: what may cost an edit

belgeVars == <<slice, sayfa, sira, yukleme, kayit, sunucu, son, kayipNedeni>>

Bulunmaz == 0
BosBelge == [id |-> "yok", surum |-> Bulunmaz]
Ev == [tur |-> "ev", id |-> "yok", hata |-> FALSE]

-----------------------------------------------------------------------------
(* The undo histories.                                                     *)

\* A reducer changed the document.
Insert(h, d) ==
    [past |-> Append(IF Len(h.past) + 1 >= GecmisSiniri THEN Tail(h.past) ELSE h.past, h.present),
     present |-> d, future |-> << >>]

Undo(h) ==
    IF h.past = << >> THEN h
    ELSE [past |-> SubSeq(h.past, 1, Len(h.past) - 1), present |-> h.past[Len(h.past)],
          future |-> <<h.present>> \o h.future]

Redo(h) ==
    IF h.future = << >> THEN h
    ELSE [past |-> Append(h.past, h.present), present |-> Head(h.future), future |-> Tail(h.future)]

-----------------------------------------------------------------------------
(* The page.                                                               *)

StoreMatchesUrl(sl, p) == p.tur \in Tur /\ sl[p.tur].present.id = p.id

\* Mutant of Yuklenir: the page loads whenever it opens.
YuklenirHer(sl, p) == p.tur \in Tur

\* What the load effect asks before it fetches.
Yuklenir(sl, p) == p.tur \in Tur /\ ~StoreMatchesUrl(sl, p)

Gosterir == StoreMatchesUrl(slice, sayfa) /\ ~sayfa.hata

\* What the server holds of a document once the saves on their way are done.
Kaydedilen(d) ==
    IF \E k \in kayit : k.belge = d THEN (CHOOSE k \in kayit : k.belge = d).surum ELSE sunucu[d]

\* The slice of kind t gives up an unsaved document for one that is created,
\* loaded for another id, or opened from the list, perhaps the same.
Terk(t, kalanlar) ==
    LET eski == slice[t].present.id
    IN  IF eski \notin kalanlar /\ son[<<t, eski>>] # Kaydedilen(<<t, eski>>) THEN {"terk"} ELSE {}

\* The page becomes p over the slices sl with the loads kalan on their way; its
\* effect runs when the page, its id or the match changed.
Render(sl, p, no, kalan) ==
    LET yeniOrnek == p.tur # sayfa.tur
        degisti == yeniOrnek \/ p.id # sayfa.id \/ StoreMatchesUrl(sl, p) # StoreMatchesUrl(slice, p)
        yukler == degisti /\ Yuklenir(sl, p)
        no1 == IF yeniOrnek THEN [no EXCEPT !.ornek = @ + 1] ELSE no
        y == [belge |-> <<p.tur, p.id>>, icerik |-> {sunucu[<<p.tur, p.id>>]}, no |-> no.yukleme,
              sayfa |-> no.sayfa, ornek |-> no1.ornek, gotur |-> FALSE]
    IN  /\ slice' = sl
        /\ yukler => no.yukleme < MaxYukleme
        /\ sayfa' = IF yukler THEN [p EXCEPT !.hata = FALSE] ELSE p
        /\ sira' = IF yukler THEN [no1 EXCEPT !.yukleme = @ + 1] ELSE no1
        /\ yukleme' = IF yukler THEN kalan \cup {y} ELSE kalan

\* The page reached by a link: the same component keeps its error flag.
Adres(t, id) == [tur |-> t, id |-> id, hata |-> t = sayfa.tur /\ sayfa.hata]

YeniSayfa == sira.sayfa < MaxSayfa
Ziyaret(no) == [no EXCEPT !.sayfa = @ + 1]

-----------------------------------------------------------------------------
(* The operator.                                                           *)

\* A link or an address: a document's page, or a home page.
Git ==
    /\ YeniSayfa
    /\ \E p \in {Adres(t, id) : t \in Tur, id \in Kimlik} \cup {Ev} :
          p # sayfa /\ Render(slice, p, Ziyaret(sira), yukleme)
    /\ UNCHANGED <<kayit, sunucu, son, kayipNedeni>>

\* The kind t shows, with history h, a document nobody has, up to its content surum.
Olusur(t, id, h, surum) ==
    LET d == <<t, id>>
        no == [Ziyaret(sira) EXCEPT !.surum = surum]
    IN  /\ sayfa = Ev /\ YeniSayfa /\ surum <= MaxSurum
        /\ son[d] = Bulunmaz /\ sunucu[d] = Bulunmaz
        /\ kayipNedeni' = kayipNedeni \cup Terk(t, {"yok"})
        /\ Render([slice EXCEPT ![t] = h], Adres(t, id), no, yukleme)
        /\ son' = [son EXCEPT ![d] = surum]
        /\ UNCHANGED <<kayit, sunucu>>

Ekle(h, id, surum) == Insert(h, [id |-> id, surum |-> surum])

\* createNew
Yeni(t, id) == Olusur(t, id, Ekle(slice[t], id, sira.surum + 1), sira.surum + 1)

\* startFromDataset: the empty document, then its first path.
VeridenBasla(t, id) ==
    /\ t \in VeridenTur
    /\ Olusur(t, id, Ekle(Ekle(slice[t], id, sira.surum + 1), id, sira.surum + 2), sira.surum + 2)

\* open, openAnalysis: the page follows when the answer is there.
Ac(d) ==
    /\ sayfa = Ev /\ sira.yukleme < MaxYukleme
    /\ sunucu[d] # Bulunmaz
    /\ yukleme' = yukleme \cup {[belge |-> d, icerik |-> {sunucu[d]}, no |-> sira.yukleme,
                                 sayfa |-> sira.sayfa, ornek |-> sira.ornek, gotur |-> TRUE]}
    /\ sira' = [sira EXCEPT !.yukleme = @ + 1]
    /\ UNCHANGED <<slice, sayfa, kayit, sunucu, son, kayipNedeni>>

\* Any reducer the page dispatches.
Duzenle ==
    LET no == [sira EXCEPT !.surum = @ + 1]
        d == [id |-> sayfa.id, surum |-> no.surum]
    IN  /\ Gosterir /\ sira.surum < MaxSurum
        /\ Render([slice EXCEPT ![sayfa.tur] = Insert(@, d)], sayfa, no, yukleme)
        /\ son' = [son EXCEPT ![<<sayfa.tur, sayfa.id>>] = no.surum]
        /\ UNCHANGED <<kayit, sunucu, kayipNedeni>>

\* The undo and redo actions carry no slice: both histories move.
Zaman(sl) ==
    LET t == sayfa.tur
    IN  /\ Render(sl, sayfa, sira, yukleme)
        /\ son' = IF StoreMatchesUrl(sl, sayfa) THEN [son EXCEPT ![<<t, sayfa.id>>] = sl[t].present.surum] ELSE son
        /\ kayipNedeni' = kayipNedeni
               \cup (IF \E u \in Tur \ {t} : sl[u].present # slice[u].present THEN {"ortak"} ELSE {})
               \cup (IF StoreMatchesUrl(sl, sayfa) THEN {} ELSE {"ilk_hal"})
        /\ UNCHANGED <<kayit, sunucu>>

BelgeGeriAl ==
    /\ Gosterir /\ slice[sayfa.tur].past # << >>
    /\ Zaman([t \in Tur |-> Undo(slice[t])])

BelgeYinele ==
    /\ Gosterir /\ slice[sayfa.tur].future # << >>
    /\ Zaman([t \in Tur |-> Redo(slice[t])])

\* handleSave, handleAddToPano: nothing keeps a second save from overlapping.
Kaydet ==
    LET d == <<sayfa.tur, sayfa.id>> IN
    /\ Gosterir /\ sira.kayit < MaxKayit
    /\ kayit' = kayit \cup {[belge |-> d, surum |-> slice[sayfa.tur].present.surum, no |-> sira.kayit]}
    /\ sira' = [sira EXCEPT !.kayit = @ + 1]
    /\ kayipNedeni' = IF \E k \in kayit : k.belge = d THEN kayipNedeni \cup {"ust_uste"} ELSE kayipNedeni
    /\ UNCHANGED <<slice, sayfa, yukleme, sunucu, son>>

\* The server holds c of document d from now on.
Olur(d, c) ==
    /\ sunucu' = [sunucu EXCEPT ![d] = c]
    /\ yukleme' = {IF y.belge = d THEN [y EXCEPT !.icerik = @ \cup {c}] ELSE y : y \in yukleme}

\* remove, removeAnalysis
Sil(d) ==
    /\ sayfa = Ev /\ sunucu[d] # Bulunmaz
    /\ Olur(d, Bulunmaz)
    /\ UNCHANGED <<slice, sayfa, sira, kayit, son, kayipNedeni>>

-----------------------------------------------------------------------------
(* Answers.                                                                *)

\* The document arrives: it becomes the present of its slice wherever the
\* operator is by now.
YuklemeVarir(y, c) ==
    LET t == y.belge[1]
        id == y.belge[2]
        sl == [slice EXCEPT ![t] = Insert(@, [id |-> id, surum |-> c])]
        kalan == yukleme \ {y}
        kayitli == y.icerik # {c} \/ \E k \in kayit : k.belge = y.belge
    IN  /\ c \in y.icerik \ {Bulunmaz}
        /\ IF y.gotur
           THEN YeniSayfa /\ Render(sl, Adres(t, id), Ziyaret(sira), kalan)
           ELSE Render(sl, sayfa, sira, kalan)
        /\ son' = IF son[y.belge] = Bulunmaz THEN [son EXCEPT ![y.belge] = c] ELSE son
        /\ kayipNedeni' = kayipNedeni
               \cup Terk(t, IF y.gotur THEN {"yok"} ELSE {"yok", id})
               \cup (IF y.sayfa # sira.sayfa THEN {"gec"} ELSE {})
               \cup (IF kayitli THEN {"kayit_sirasinda"} ELSE {})
        /\ UNCHANGED <<kayit, sunucu>>

\* It does not, or the document is gone.
YuklemeDuser(y) ==
    /\ yukleme' = yukleme \ {y}
    /\ sayfa' = IF ~y.gotur /\ y.ornek = sira.ornek THEN [sayfa EXCEPT !.hata = TRUE] ELSE sayfa
    /\ UNCHANGED <<slice, sira, kayit, sunucu, son, kayipNedeni>>

KayitVarir(k) ==
    /\ kayit' = kayit \ {k}
    /\ Olur(k.belge, k.surum)
    /\ UNCHANGED <<slice, sayfa, sira, son, kayipNedeni>>

KayitDuser(k) ==
    LET d == slice[k.belge[1]].present IN
    /\ kayit' = kayit \ {k}
    /\ kayipNedeni' = IF d = [id |-> k.belge[2], surum |-> son[k.belge]] THEN kayipNedeni ELSE kayipNedeni \cup {"kayit_dustu"}
    /\ UNCHANGED <<slice, sayfa, sira, yukleme, sunucu, son>>

-----------------------------------------------------------------------------
BelgeInit ==
    /\ slice = [t \in Tur |-> [past |-> << >>, present |-> BosBelge, future |-> << >>]]
    /\ sayfa = Ev
    /\ sira = [sayfa |-> 0, ornek |-> 0, surum |-> 1, yukleme |-> 0, kayit |-> 0]
    /\ yukleme = {} /\ kayit = {}
    /\ sunucu = [d \in Tur \X Kimlik |-> IF d \in Kayitli THEN 1 ELSE Bulunmaz]
    /\ son = [d \in Tur \X Kimlik |-> Bulunmaz]
    /\ kayipNedeni = {}

BelgeNext ==
    \/ Git \/ Duzenle \/ BelgeGeriAl \/ BelgeYinele \/ Kaydet
    \/ \E t \in Tur, id \in Kimlik : Yeni(t, id) \/ VeridenBasla(t, id) \/ Ac(<<t, id>>) \/ Sil(<<t, id>>)
    \/ \E y \in yukleme : YuklemeDuser(y) \/ \E c \in y.icerik : YuklemeVarir(y, c)
    \/ \E k \in kayit : KayitVarir(k) \/ KayitDuser(k)

BelgeSpec == BelgeInit /\ [][BelgeNext]_belgeVars

-----------------------------------------------------------------------------
(* The property.                                                           *)

\* A page that shows a document shows what the operator last made of it,
\* whatever was loaded, opened, saved or undone in between, unless: an unsaved
\* document gave way to another or was opened from the list again, an undo on the other kind's page moved it, an
\* undo went past the moment it was loaded, an answer came after the operator
\* had moved on, two saves overlapped, a save failed after he had left, or a document
\* was loaded while it was being saved.
DuzenlemeSebepli ==
    kayipNedeni = {} /\ Gosterir => slice[sayfa.tur].present.surum = son[<<sayfa.tur, sayfa.id>>]
=============================================================================
