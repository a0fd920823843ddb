----------------------------- MODULE DashboardPage -----------------------------
(***************************************************************************)
(* Dashboards as one operator edits them: PanoPage with its local copy,    *)
(* the dialog by which other pages add a gadget, the copies the query      *)
(* library keeps, and the server, where the system dashboard cannot be     *)
(* written and the last one to write has its way.                          *)
(*                                                                         *)
(* A gadget is a number; its place and settings, names and the list are    *)
(* left out.  Requests are answered in any order and may fail before or    *)
(* after they took effect.  React renders and runs its effects before the  *)
(* next event.                                                             *)
(***************************************************************************)
EXTENDS FiniteSets, Naturals

CONSTANTS
    Pano,        \* ids of dashboards of users
    IlkPano,     \* the dashboards stored at the start
    MaxGadget,   \* bound: gadgets
    MaxHareket,  \* bound: gestures
    MaxHata      \* bound: requests that fail though the server would have agreed

Sistem == "sistem"
PanoYok == {0}       \* no document: no set of gadgets holds 0
SistemGadget == {1}

ASSUME PanoVarsayim == Sistem \notin Pano /\ IlkPano \subseteq Pano

VARIABLES
    sunucuPano,  \* DashboardsStore: dashboard -> gadgets, or PanoYok
    ekran,       \* aktif (aktifId), duzenleme, id and gadgets of doc, acik (the page is shown)
    onbellek,    \* the query of each dashboard: veri, bayat (invalidated), hata, ucus
    panoIstek,   \* writes on their way: [tur, id, gadgets, yer]
    sayac,       \* gadgets, gestures and failures so far
    soz,         \* history: dashboard -> gadgets the operator was told are in it
    emek,        \* history: gadgets added in this edit and not yet saved
    cikan,       \* history: gadgets removed in this edit, and those of saved ones
    yabanci,     \* history: dashboards others wrote since they were last read here
    panoSebep    \* history: what may cost a gadget

panoVars == <<sunucuPano, ekran, onbellek, panoIstek, sayac, soz, emek, cikan, yabanci, panoSebep>>

TumPano == Pano \cup {Sistem}

-----------------------------------------------------------------------------
(* The server.                                                             *)

\* DashboardsController.get.
Oku(id) == IF id = Sistem THEN SistemGadget ELSE sunucuPano[id]

\* put and remove refuse the system dashboard, remove one that is not there.
PanoKabul(r) ==
    /\ r.id # Sistem
    /\ r.tur = "sil" => sunucuPano[r.id] # PanoYok

-----------------------------------------------------------------------------
(* The query library.                                                      *)

\* A component starts to look at a dashboard: what is not there or stale is
\* fetched, unless that is under way.
Bakilir(o) ==
    IF o.ucus = "yok" /\ (o.bayat \/ o.veri = PanoYok)
    THEN [o EXCEPT !.ucus = "giden", !.hata = @ /\ o.veri # PanoYok] ELSE o

\* Mutant of Tazele: only the list of dashboards is invalidated.
TazeleListe(o, b) == o

\* useInvalidateDashboards: all are stale, and the one looked at is fetched
\* again; a first fetch that is under way is not repeated.
Tazele(o, b) ==
    [id \in TumPano |->
        LET s == [o[id] EXCEPT !.bayat = TRUE]
        IN  IF id \notin b \/ (s.veri = PanoYok /\ s.ucus # "yok") THEN s
            ELSE [s EXCEPT !.ucus = "giden", !.hata = @ /\ s.veri # PanoYok]]

-----------------------------------------------------------------------------
(* The page: what a change leads to once the effects have run.             *)

Bakilan == IF ekran.acik THEN {ekran.aktif} ELSE {}

\* sec: another id ends an edit.
Gidilir(e, id) ==
    IF e.aktif = id /\ e.acik THEN e
    ELSE [e EXCEPT !.aktif = id, !.duzenleme = FALSE, !.acik = TRUE,
                   !.id = IF e.acik THEN @ ELSE Sistem,
                   !.gadgets = IF e.acik THEN @ ELSE PanoYok]

\* A dashboard in error is left for the system one.
Kalinir(e, o) ==
    IF e.acik /\ e.aktif # Sistem /\ o[e.aktif].hata THEN Gidilir(e, Sistem) ELSE e

\* Outside an edit the copy is what the query has, if it has something.
Gosterilen(e, o) ==
    IF e.acik /\ ~e.duzenleme /\ o[e.aktif].veri # PanoYok
    THEN [e EXCEPT !.id = e.aktif, !.gadgets = o[e.aktif].veri] ELSE e

\* e and o are what a handler sets; the page looks at what it then shows.
Yerlesir(e, o) ==
    LET acan(f, q) == IF f.acik /\ (f.aktif # ekran.aktif \/ ~ekran.acik)
                      THEN [q EXCEPT ![f.aktif] = Bakilir(@)] ELSE q
        ilk == acan(e, o)
        e2 == Kalinir(e, ilk)
        o2 == IF e2.aktif = e.aktif THEN ilk ELSE acan(e2, ilk)
    IN  /\ ekran' = Gosterilen(e2, o2)
        /\ onbellek' = o2

Doc == ekran.acik /\ ekran.gadgets # PanoYok

Bekler == panoIstek # {}

PanoSebep(k) == panoSebep' = panoSebep \cup k

\* Cause k, if c.
Eger(c, k) == IF c THEN {k} ELSE {}

Hareket == /\ sayac.hareket < MaxHareket
           /\ sayac' = [sayac EXCEPT !.hareket = @ + 1]

HareketGadget == /\ sayac.hareket < MaxHareket /\ sayac.gadget < MaxGadget
                 /\ sayac' = [sayac EXCEPT !.hareket = @ + 1, !.gadget = @ + 1]

\* The operator chooses a dashboard, or cancels: an edit under way is given up.
Sec(id) ==
    /\ Hareket /\ ekran.acik /\ id # ekran.aktif
    /\ {Oku(id), onbellek[id].veri} # {PanoYok}   \* the list may still have one removed
    /\ Yerlesir(Gidilir(ekran, id), onbellek)
    /\ emek' = {} /\ cikan' = [cikan EXCEPT !.simdi = {}]
    /\ UNCHANGED <<sunucuPano, panoIstek, soz, yabanci, panoSebep>>

Iptal ==
    /\ Hareket /\ ekran.acik /\ ekran.duzenleme
    /\ Yerlesir([ekran EXCEPT !.duzenleme = FALSE], onbellek)
    /\ emek' = {} /\ cikan' = [cikan EXCEPT !.simdi = {}]
    /\ UNCHANGED <<sunucuPano, panoIstek, soz, yabanci, panoSebep>>

\* The button, or the one an empty dashboard shows.
PanoDuzenle ==
    /\ Hareket /\ Doc /\ ~ekran.duzenleme
    /\ ekran.aktif # Sistem \/ ekran.gadgets = {}
    /\ ekran' = [ekran EXCEPT !.duzenleme = TRUE]
    /\ PanoSebep(Eger(onbellek[ekran.id].bayat, "erken") \cup Eger(ekran.id \in yabanci, "baskasi")
             \cup Eger(ekran.id # ekran.aktif, "oncekiPano"))
    /\ UNCHANGED <<sunucuPano, onbellek, panoIstek, soz, emek, cikan, yabanci>>

GadgetEkle ==
    /\ HareketGadget /\ Doc /\ ekran.duzenleme
    /\ LET g == sayac.gadget + 1 IN
       /\ ekran' = [ekran EXCEPT !.gadgets = @ \cup {g}]
       /\ emek' = emek \cup {g}
    /\ PanoSebep(Eger(Bekler, "beklerken"))
    /\ UNCHANGED <<sunucuPano, onbellek, panoIstek, soz, cikan, yabanci>>

GadgetKaldir(g) ==
    /\ Hareket /\ Doc /\ ekran.duzenleme /\ g \in ekran.gadgets
    /\ ekran' = [ekran EXCEPT !.gadgets = @ \ {g}]
    /\ emek' = emek \ {g} /\ cikan' = [cikan EXCEPT !.simdi = @ \cup {g}]
    /\ PanoSebep(Eger(Bekler, "beklerken"))
    /\ UNCHANGED <<sunucuPano, onbellek, panoIstek, soz, yabanci>>

Yollanir(tur, id, gadgets) ==
    panoIstek' = panoIstek \cup {[tur |-> tur, id |-> id, gadgets |-> gadgets, yer |-> "giden"]}

PanoKaydet ==
    /\ Hareket /\ Doc /\ ekran.duzenleme
    /\ Yollanir("kaydet", ekran.id, ekran.gadgets)
    /\ cikan' = [simdi |-> {}, hep |-> cikan.hep \cup {<<ekran.id, g>> : g \in cikan.simdi}]
    /\ soz' = IF ekran.id = Sistem THEN soz ELSE [soz EXCEPT ![ekran.id] = @ \ cikan.simdi]
    /\ PanoSebep(Eger(Bekler, "beklerken"))
    /\ UNCHANGED <<sunucuPano, ekran, onbellek, emek, yabanci>>

PanoSil ==
    /\ Hareket /\ Doc /\ ekran.duzenleme /\ ekran.aktif # Sistem
    /\ Yollanir("sil", ekran.id, {})
    /\ emek' = {}
    /\ PanoSebep(Eger(Bekler, "beklerken") \cup Eger(ekran.id # ekran.aktif, "oncekiPano"))
    /\ UNCHANGED <<sunucuPano, ekran, onbellek, soz, cikan, yabanci>>

\* yeniPano: an empty dashboard, or a copy of the one shown.
YeniPano(kopya) ==
    /\ Hareket /\ ekran.acik /\ ~ekran.duzenleme /\ (kopya => Doc)
    /\ \E id \in Pano :
          /\ sunucuPano[id] = PanoYok /\ onbellek[id].veri = PanoYok
          /\ \A r \in panoIstek : r.id # id
          /\ Yollanir("yeni", id, IF kopya THEN ekran.gadgets ELSE {})
    /\ PanoSebep(Eger(Bekler, "beklerken"))
    /\ UNCHANGED <<sunucuPano, ekran, onbellek, soz, emek, cikan, yabanci>>

\* The operator goes to a page that has a card to add, and adds it with the
\* dialog, which waits: to a dashboard that is there, or to a new one.
PanoyaEkle(id) ==
    /\ HareketGadget /\ ekran.acik /\ ~Bekler
    /\ ekran' = [ekran EXCEPT !.acik = FALSE, !.duzenleme = FALSE]
    /\ IF sunucuPano[id] = PanoYok
       THEN onbellek[id].veri = PanoYok /\ Yollanir("ekle", id, {sayac.gadget + 1})
       ELSE panoIstek' = {[tur |-> "ekle", id |-> id, gadgets |-> {sayac.gadget + 1}, yer |-> "okuyan"]}
    /\ emek' = {} /\ cikan' = [cikan EXCEPT !.simdi = {}]
    /\ UNCHANGED <<sunucuPano, onbellek, soz, yabanci, panoSebep>>

\* mevcudaEkle has the document: it is sent back with the gadget.
EkleOkur(r) ==
    /\ r \in panoIstek /\ r.yer = "okuyan"
    /\ sunucuPano[r.id] # PanoYok
    /\ panoIstek' = (panoIstek \ {r}) \cup
           {[r EXCEPT !.gadgets = @ \cup sunucuPano[r.id], !.yer = "giden"]}
    /\ UNCHANGED <<sunucuPano, ekran, onbellek, sayac, soz, emek, cikan, yabanci, panoSebep>>

\* Another browser adds a gadget.
BaskasiEkler(id) ==
    /\ HareketGadget /\ sunucuPano[id] # PanoYok
    /\ sunucuPano' = [sunucuPano EXCEPT ![id] = @ \cup {sayac.gadget + 1}]
    /\ soz' = [soz EXCEPT ![id] = @ \cup {sayac.gadget + 1}]
    /\ yabanci' = yabanci \cup {id}
    /\ PanoSebep(Eger((ekran.duzenleme /\ ekran.id = id) \/ \E r \in panoIstek : r.id = id, "baskasi"))
    /\ UNCHANGED <<ekran, onbellek, panoIstek, emek, cikan>>

\* The server takes a write.
Isler(r) ==
    /\ r \in panoIstek /\ r.yer = "giden"
    /\ panoIstek' = (panoIstek \ {r}) \cup {[r EXCEPT !.yer = IF PanoKabul(r) THEN "olan" ELSE "olmayan"]}
    /\ sunucuPano' = IF PanoKabul(r) THEN [sunucuPano EXCEPT ![r.id] = IF r.tur = "sil" THEN PanoYok ELSE r.gadgets]
                     ELSE sunucuPano
    /\ soz' = IF PanoKabul(r) /\ r.tur = "sil" THEN [soz EXCEPT ![r.id] = {}] ELSE soz
    /\ UNCHANGED <<ekran, onbellek, sayac, emek, cikan, yabanci, panoSebep>>

\* The answer, and what the handler does after its await.  A dashboard just made
\* is shown and not in an edit, whatever yeniPano sets.
PanoOlur(r) ==
    /\ r \in panoIstek /\ r.yer = "olan"
    /\ panoIstek' = panoIstek \ {r}
    /\ LET o == Tazele(onbellek, Bakilan)
       IN  Yerlesir(CASE r.tur = "kaydet" -> [ekran EXCEPT !.duzenleme = FALSE]
                      [] r.tur = "sil" -> Gidilir(ekran, Sistem)
                      [] OTHER -> Gidilir(ekran, r.id), o)
           /\ PanoSebep(Eger(o[r.id].ucus = "gelen", "eskiCevap"))
    /\ soz' = [soz EXCEPT ![r.id] = IF r.tur = "sil" THEN @ ELSE @ \cup {g \in r.gadgets : <<r.id, g>> \notin cikan.hep}]
    /\ emek' = emek \ r.gadgets /\ cikan' = [cikan EXCEPT !.simdi = {}]
    /\ UNCHANGED <<sunucuPano, sayac, yabanci>>

\* An answer that says no, or none: the page stays as it is, the dialog says so
\* and is closed.
Dusur(r) ==
    /\ r \in panoIstek
    /\ IF r.yer = "olmayan" \/ (r.yer = "okuyan" /\ sunucuPano[r.id] = PanoYok) THEN UNCHANGED sayac
       ELSE sayac.hata < MaxHata /\ sayac' = [sayac EXCEPT !.hata = @ + 1]
    /\ panoIstek' = panoIstek \ {r}
    /\ IF r.tur = "ekle" THEN Yerlesir(Gidilir(ekran, ekran.aktif), onbellek)
       ELSE UNCHANGED <<ekran, onbellek>>
    /\ UNCHANGED <<sunucuPano, soz, emek, cikan, yabanci, panoSebep>>

-----------------------------------------------------------------------------
(* Answers of the queries.                                                 *)

SorguOkur(id) ==
    /\ onbellek[id].ucus = "giden"
    /\ onbellek' = [onbellek EXCEPT ![id] = [@ EXCEPT !.ucus = "gelen", !.cevap = Oku(id)]]
    /\ yabanci' = yabanci \ {id}
    /\ UNCHANGED <<sunucuPano, ekran, panoIstek, sayac, soz, emek, cikan, panoSebep>>

\* A fetch that failed leaves what was there, and stale.
Hatali(q) == [q EXCEPT !.ucus = "yok", !.hata = TRUE, !.bayat = TRUE, !.cevap = PanoYok]

SorguGelir(id) ==
    /\ onbellek[id].ucus = "gelen"
    /\ LET c == onbellek[id].cevap
           o == IF c = PanoYok THEN [onbellek EXCEPT ![id] = Hatali(@)]
                ELSE [onbellek EXCEPT ![id] = [veri |-> c, bayat |-> FALSE, hata |-> FALSE, ucus |-> "yok", cevap |-> PanoYok]]
       IN  /\ Yerlesir(ekran, o)
           /\ PanoSebep(Eger(c = PanoYok /\ ekran.acik /\ id = ekran.aktif /\ ekran.duzenleme, "kovuldu"))
    /\ UNCHANGED <<sunucuPano, panoIstek, sayac, soz, emek, cikan, yabanci>>

\* The same for an answer that does not come.
SorguDuser(id) ==
    /\ onbellek[id].ucus # "yok" /\ sayac.hata < MaxHata
    /\ sayac' = [sayac EXCEPT !.hata = @ + 1]
    /\ Yerlesir(ekran, [onbellek EXCEPT ![id] = Hatali(@)])
    /\ PanoSebep(Eger(ekran.acik /\ id = ekran.aktif /\ id # Sistem /\ ekran.duzenleme, "kovuldu"))
    /\ UNCHANGED <<sunucuPano, panoIstek, soz, emek, cikan, yabanci>>

-----------------------------------------------------------------------------
PanoInit ==
    /\ sunucuPano = [id \in Pano |-> IF id \in IlkPano THEN {1} ELSE PanoYok]
    /\ \E id \in IlkPano \cup {Sistem} :
          /\ ekran = [acik |-> TRUE, aktif |-> id, duzenleme |-> FALSE, id |-> Sistem, gadgets |-> PanoYok]
          /\ onbellek = [p \in TumPano |-> [veri |-> PanoYok, bayat |-> FALSE, hata |-> FALSE,
                                            ucus |-> IF p = id THEN "giden" ELSE "yok", cevap |-> PanoYok]]
    /\ panoIstek = {} /\ sayac = [gadget |-> 1, hareket |-> 0, hata |-> 0]
    /\ soz = [id \in Pano |-> IF id \in IlkPano THEN {1} ELSE {}]
    /\ emek = {} /\ cikan = [simdi |-> {}, hep |-> {}] /\ yabanci = {} /\ panoSebep = {}

PanoNext ==
    \/ \E id \in TumPano : Sec(id) \/ SorguOkur(id) \/ SorguGelir(id) \/ SorguDuser(id)
    \/ Iptal \/ PanoDuzenle \/ GadgetEkle \/ PanoKaydet \/ PanoSil
    \/ \E g \in 1 .. MaxGadget : GadgetKaldir(g)
    \/ \E kopya \in BOOLEAN : YeniPano(kopya)
    \/ \E id \in Pano : PanoyaEkle(id) \/ BaskasiEkler(id)
    \/ \E r \in panoIstek : EkleOkur(r) \/ Isler(r) \/ PanoOlur(r) \/ Dusur(r)

PanoSpec == PanoInit /\ [][PanoNext]_panoVars

-----------------------------------------------------------------------------
(* Properties.                                                             *)

\* What the operator was told is saved stays on the server until he removes
\* it, and what he adds stays on the screen until he saves or gives it up,
\* unless there was a cause: an edit begun on a copy that is about to be
\* fetched, or while the page shows the dashboard before; one changed by
\* another browser; a gesture while a write is on its way; a write that the
\* answer of an earlier fetch does not have; or a failed fetch, for which the
\* page leaves the dashboard.
PanoKayipSebepli ==
    panoSebep = {} =>
        /\ \A id \in Pano : soz[id] # {} => soz[id] \subseteq sunucuPano[id]
        /\ emek # {} => ekran.duzenleme /\ emek \subseteq ekran.gadgets
=============================================================================
