--------------------------- MODULE OntologyAdmission ---------------------------
(***************************************************************************)
(* What the ontology is made of: a kernel that comes with the build and an *)
(* extension that passed the admission pipeline, merged on every read, and *)
(* written to and read from OWL/Turtle.                                    *)
(*                                                                         *)
(* AdmissionService checks a candidate against the kernel and the data     *)
(* sources of the moment.  Between stages 2 and 3, and for as long as the  *)
(* version is kept, the sources may change, and a new build may bring      *)
(* another kernel.  Stage 4 and the approval are those of module           *)
(* ExtensionGovernance, and so are bodies that leave a list out.           *)
(*                                                                         *)
(* Labels and icons are left out; a Turtle file is a set of statements     *)
(* <<subject, predicate, object>> whose subjects are local names.          *)
(***************************************************************************)
EXTENDS Integers, SequencesExt, FiniteSetsExt

CONSTANTS
    Cekirdekler,     \* kernels of the builds: [tipler, linkler], sequences
    Uzantilar,       \* bodies an administrator uploads, of the same shape
    Kataloglar,      \* data sources: dataset -> (column -> type)
    MaxAday          \* bound: versions kept in one run

VARIABLES
    mim,             \* DATA_BACKEND is mim
    bayrak,          \* ONTOLOGY_EXTENSIONS is on
    cekirdek,        \* the kernel of the running build
    katalog,         \* the data sources
    adaylar          \* versions: [uzanti, cekirdek, katalog, durum], the kernel and
                     \* the sources being those stage 2 saw

kabulVars == <<mim, bayrak, cekirdek, katalog, adaylar>>

-----------------------------------------------------------------------------
(* mergeExtension.                                                         *)

Adlar(s) == {s[i].ad : i \in DOMAIN s}
Tekrarsiz(s) == Cardinality(Adlar(s)) = Len(s)

TipEklenir(k, t) ==
    /\ t.ad \notin Adlar(k.tipler)
    /\ Tekrarsiz(t.ozellik)
    /\ t.pk \in Adlar(t.ozellik)

LinkEklenir(k, e, l) ==
    /\ l.ad \notin Adlar(k.linkler)
    /\ {l.kimden, l.kime} \subseteq Adlar(k.tipler) \cup Adlar(e.tipler)

Birlesir(k, e) ==
    /\ \A t \in Range(e.tipler) : TipEklenir(k, t)
    /\ \A l \in Range(e.linkler) : LinkEklenir(k, e, l)

Birlesim(k, e) == [tipler |-> k.tipler \o e.tipler, linkler |-> k.linkler \o e.linkler]

\* The kernels and the bodies have the shape of the contract; a kernel, which is
\* code, names nothing twice and ties no link to an unknown type.
OzellikTuru == [ad : STRING, tur : STRING]
TipTuru == [ad : STRING, veri : STRING, pk : STRING, ozellik : Seq(OzellikTuru)]
LinkTuru == [ad : STRING, kimden : STRING, kime : STRING, kimdenAnahtar : STRING,
             kimeAnahtar : STRING, sayi : STRING]
Ontoloji == [tipler : Seq(TipTuru), linkler : Seq(LinkTuru)]

TekAdli(o) == Tekrarsiz(o.tipler) /\ Tekrarsiz(o.linkler)

UclariVar(o) == \A l \in Range(o.linkler) : {l.kimden, l.kime} \subseteq Adlar(o.tipler)

ASSUME KabulVarsayim ==
    /\ Cekirdekler \subseteq Ontoloji /\ Uzantilar \subseteq Ontoloji
    /\ \A k \in Cekirdekler : TekAdli(k) /\ UclariVar(k)

-----------------------------------------------------------------------------
(* The stages.  Every Map of the code that is keyed by name keeps the last. *)

Sonuncu(s, ad) == s[Max({i \in DOMAIN s : s[i].ad = ad})]

\* Stage 1: no type without a property.
Kademe1(e) == \A t \in Range(e.tipler) : t.ozellik /= << >>

\* A type's source, and the columns it declares, as they are in katalog.
TipBagli(t) ==
    /\ t.veri \in DOMAIN katalog
    /\ \A p \in Range(t.ozellik) : p.ad \in DOMAIN katalog[t.veri] /\ katalog[t.veri][p.ad] = p.tur
    /\ t.pk \in DOMAIN katalog[t.veri]

\* The end of a link; that the source of a kernel type exists is not checked.
UcBagli(o, tip, anahtar) ==
    LET veri == Sonuncu(o.tipler, tip).veri
    IN  veri \in DOMAIN katalog => anahtar \in DOMAIN katalog[veri]

\* Mutant of Kademe2: the keys of the links are not looked up.
Kademe2Tipler(e) ==
    /\ Birlesir(cekirdek, e)
    /\ \A t \in Range(e.tipler) : TipBagli(t)

Kademe2(e) ==
    LET o == Birlesim(cekirdek, e) IN
    /\ Birlesir(cekirdek, e)
    /\ \A t \in Range(e.tipler) : TipBagli(t)
    /\ \A l \in Range(e.linkler) : UcBagli(o, l.kimden, l.kimdenAnahtar) /\ UcBagli(o, l.kime, l.kimeAnahtar)

\* What the object set engines need to load a type and to search around a link;
\* in SQL a key is a declared property and a column of the view.
Yuklenir(o, tip) == Sonuncu(o.tipler, tip).veri \in DOMAIN katalog

SqlAnahtar(o, tip, anahtar) ==
    LET t == Sonuncu(o.tipler, tip)
    IN  anahtar \in Adlar(t.ozellik) /\ anahtar \in DOMAIN katalog[t.veri]

Gezilir(o, l) ==
    LET g == Sonuncu(o.linkler, l.ad) IN
    /\ g.kimden = l.kimden
    /\ Yuklenir(o, g.kimden) /\ Yuklenir(o, g.kime)
    /\ mim => SqlAnahtar(o, g.kimden, g.kimdenAnahtar) /\ SqlAnahtar(o, g.kime, g.kimeAnahtar)

\* Stage 3: each new type and link is queried on an engine over the candidate.
Kademe3(k, e) ==
    LET o == Birlesim(k, e) IN
    /\ \A t \in Range(e.tipler) : Yuklenir(o, t.ad)
    /\ \A l \in Range(e.linkler) : Gezilir(o, l)

-----------------------------------------------------------------------------
(* CompositeOntologyProvider.getOntology.                                  *)

Etkinler == {a \in adaylar : a.durum = "etkin"}

\* Mutant of GetOntology: the merge is trusted to succeed.
GetOntologySaf ==
    IF ~bayrak \/ Etkinler = {} THEN cekirdek
    ELSE Birlesim(cekirdek, (CHOOSE a \in Etkinler : TRUE).uzanti)

GetOntology ==
    IF bayrak /\ \E a \in Etkinler : Birlesir(cekirdek, a.uzanti)
    THEN Birlesim(cekirdek, (CHOOSE a \in Etkinler : TRUE).uzanti)
    ELSE cekirdek

-----------------------------------------------------------------------------
Durumla(a, durum) == [a EXCEPT !.durum = durum]

\* A candidate that fails a stage is not kept (as a draft it is never activated).
Kademe2Gecer(e) ==
    /\ Cardinality(adaylar) < MaxAday
    /\ Kademe1(e) /\ Kademe2(e)
    /\ adaylar' = adaylar \cup {[uzanti |-> e, cekirdek |-> cekirdek, katalog |-> katalog, durum |-> "sinaniyor"]}
    /\ UNCHANGED <<mim, bayrak, cekirdek, katalog>>

Kademe3Biter(a) ==
    /\ a.durum = "sinaniyor"
    /\ adaylar' = (adaylar \ {a}) \cup
                  (IF Kademe3(a.cekirdek, a.uzanti) THEN {Durumla(a, "kabul")} ELSE {})
    /\ UNCHANGED <<mim, bayrak, cekirdek, katalog>>

Kapat == {IF b.durum = "etkin" THEN Durumla(b, "kabul") ELSE b : b \in adaylar}

\* Activation, and a rollback to an earlier version: nothing is checked again.
Etkinlesir(a) ==
    /\ a.durum = "kabul"
    /\ adaylar' = (Kapat \ {a}) \cup {Durumla(a, "etkin")}
    /\ UNCHANGED <<mim, bayrak, cekirdek, katalog>>

CekirdegeDoner ==
    /\ Etkinler /= {}
    /\ adaylar' = Kapat
    /\ UNCHANGED <<mim, bayrak, cekirdek, katalog>>

\* A live dataset is deleted or redefined, a view is changed.
KatalogDegisir ==
    /\ katalog' \in Kataloglar \ {katalog}
    /\ UNCHANGED <<mim, bayrak, cekirdek, adaylar>>

\* Another build is started: what is stored stays, candidates in stage 3 do not.
Dagitim ==
    /\ cekirdek' \in Cekirdekler
    /\ bayrak' \in BOOLEAN
    /\ <<cekirdek', bayrak'>> /= <<cekirdek, bayrak>>
    /\ adaylar' = {a \in adaylar : a.durum /= "sinaniyor"}
    /\ UNCHANGED <<mim, katalog>>

KabulInit ==
    /\ mim \in BOOLEAN /\ bayrak \in BOOLEAN
    /\ cekirdek \in Cekirdekler
    /\ katalog \in Kataloglar
    /\ adaylar = {}

KabulNext ==
    \/ \E e \in Uzantilar : Kademe2Gecer(e)
    \/ \E a \in adaylar : Kademe3Biter(a) \/ Etkinlesir(a)
    \/ CekirdegeDoner
    \/ KatalogDegisir
    \/ Dagitim

KabulSpec == KabulInit /\ [][KabulNext]_kabulVars

-----------------------------------------------------------------------------
(* OWL: ontologyToTurtle and turtleToExtension.                            *)

OzellikOzne(t, p) == t.ad \o "__" \o p.ad

TipUclu(t) ==
    {<<t.ad, "a", "Class">>, <<t.ad, "apiName", t.ad>>, <<t.ad, "datasetId", t.veri>>,
     <<t.ad, "primaryKey", t.pk>>}
    \cup UNION {LET s == OzellikOzne(t, p) IN
                {<<s, "a", "DatatypeProperty">>, <<s, "domain", t.ad>>, <<s, "range", p.tur>>,
                 <<s, "apiName", t.ad>>, <<s, "kolon", p.ad>>} : p \in Range(t.ozellik)}

\* Mutant of LinkUclu: domain and range are swapped.
LinkUcluTers(l) ==
    {<<l.ad, "a", "ObjectProperty">>, <<l.ad, "apiName", l.ad>>, <<l.ad, "domain", l.kime>>,
     <<l.ad, "range", l.kimden>>, <<l.ad, "cardinality", l.sayi>>,
     <<l.ad, "fromKey", l.kimdenAnahtar>>, <<l.ad, "toKey", l.kimeAnahtar>>}

LinkUclu(l) ==
    {<<l.ad, "a", "ObjectProperty">>, <<l.ad, "apiName", l.ad>>, <<l.ad, "domain", l.kimden>>,
     <<l.ad, "range", l.kime>>, <<l.ad, "cardinality", l.sayi>>,
     <<l.ad, "fromKey", l.kimdenAnahtar>>, <<l.ad, "toKey", l.kimeAnahtar>>}

Turtle(o) ==
    UNION {TipUclu(t) : t \in Range(o.tipler)} \cup UNION {LinkUclu(l) : l \in Range(o.linkler)}

Turden(u, tur) == {c[1] : c \in {d \in u : d[2] = "a" /\ d[3] = tur}}
Degerleri(u, s, y) == {c[3] : c \in {d \in u : d[1] = s /\ d[2] = y}}

\* tekDeger, or else: which of several values comes first is not said.
TekDeger(u, s, y, yoksa) ==
    IF Degerleri(u, s, y) = {} THEN yoksa ELSE CHOOSE v \in Degerleri(u, s, y) : TRUE

\* The statements without which a subject of each kind is refused.
Zorunlu == [Class |-> {"datasetId", "primaryKey"}, DatatypeProperty |-> {"apiName", "kolon"},
            ObjectProperty |-> {"fromKey", "toKey", "domain", "range"}]

ManifestEksik(u) ==
    \E tur \in DOMAIN Zorunlu : \E s \in Turden(u, tur), y \in Zorunlu[tur] : Degerleri(u, s, y) = {}

OkunanOzellik(u, tip) ==
    {[ad |-> TekDeger(u, s, "kolon", ""), tur |-> TekDeger(u, s, "range", "string")] :
        s \in {q \in Turden(u, "DatatypeProperty") : TekDeger(u, q, "apiName", "") = tip}}

Extension(u) ==
    [tipler |-> {LET ad == TekDeger(u, s, "apiName", s) IN
                 [ad |-> ad, veri |-> TekDeger(u, s, "datasetId", ""), pk |-> TekDeger(u, s, "primaryKey", ""),
                  ozellik |-> OkunanOzellik(u, ad)] : s \in Turden(u, "Class")},
     linkler |-> {[ad |-> TekDeger(u, s, "apiName", s), kimden |-> TekDeger(u, s, "domain", ""),
                   kime |-> TekDeger(u, s, "range", ""), kimdenAnahtar |-> TekDeger(u, s, "fromKey", ""),
                   kimeAnahtar |-> TekDeger(u, s, "toKey", ""), sayi |-> TekDeger(u, s, "cardinality", "many")] :
                  s \in Turden(u, "ObjectProperty")}]

-----------------------------------------------------------------------------
(* Properties.                                                             *)

Uclari(o, l) == {<<Sonuncu(o.tipler, l.kimden), l.kimdenAnahtar>>, <<Sonuncu(o.tipler, l.kime), l.kimeAnahtar>>}

Sorgulanir(o, e) ==
    /\ \A t \in Range(e.tipler) : \A p \in Range(t.ozellik) :
           t.veri \in DOMAIN katalog /\ p.ad \in DOMAIN katalog[t.veri] /\ katalog[t.veri][p.ad] = p.tur
    /\ \A l \in Range(e.linkler) : \A u \in Uclari(o, l) :
           u[1].veri \in DOMAIN katalog => u[2] \in DOMAIN katalog[u[1].veri]

\* The ontology that is served names nothing twice and ties no link to an unknown
\* type, through every build and rollback; as long as the build's kernel is the
\* one a version was admitted against, the version in service is really served;
\* and as long as the sources are as then, its types and links can be queried, in
\* SQL by declared keys.  Only an extension that repeats a name of its own, which
\* no stage looks for, is exempt.
ServisDurust ==
    LET o == GetOntology IN
    /\ UclariVar(o)
    /\ (\A a \in Etkinler : TekAdli(a.uzanti)) => TekAdli(o)
    /\ \A a \in Etkinler :
           bayrak /\ cekirdek = a.cekirdek /\ TekAdli(a.uzanti) =>
               /\ o = Birlesim(cekirdek, a.uzanti)
               /\ katalog = a.katalog => Sorgulanir(o, a.uzanti)
               /\ mim => \A l \in Range(a.uzanti.linkler) : \A u \in Uclari(o, l) : u[2] \in Adlar(u[1].ozellik)

Kumesi(o) ==
    [tipler |-> {[t EXCEPT !.ozellik = Range(@)] : t \in Range(o.tipler)}, linkler |-> Range(o.linkler)]

\* The subject of every type, property and link, each once.
Ozneler(o) ==
    [i \in DOMAIN o.tipler |-> o.tipler[i].ad] \o [i \in DOMAIN o.linkler |-> o.linkler[i].ad]
    \o FlattenSeq([i \in DOMAIN o.tipler |->
           [j \in DOMAIN o.tipler[i].ozellik |-> OzellikOzne(o.tipler[i], o.tipler[i].ozellik[j])]])

Bagi(t) == [ad |-> t.ad, veri |-> t.veri, pk |-> t.pk]

\* The Turtle export of what is served reads back as it was written, and with any
\* one statement lost it is refused, or every type and link still read is bound as
\* before; unless a type, a property or a link share a subject, for which the
\* export's promise to lose nothing does not hold.
OwlDurust ==
    LET o == GetOntology
        u == Turtle(o)
    IN  Cardinality(Range(Ozneler(o))) = Len(Ozneler(o)) =>
            /\ ~ManifestEksik(u) /\ Extension(u) = Kumesi(o)
            /\ \A c \in u :
                   LET kalan == u \ {c}
                       x == Extension(kalan)
                   IN  \/ ManifestEksik(kalan)
                       \/ /\ {Bagi(t) : t \in x.tipler} \subseteq {Bagi(t) : t \in Range(o.tipler)}
                          /\ {[l EXCEPT !.sayi = "many"] : l \in x.linkler}
                                 \subseteq {[l EXCEPT !.sayi = "many"] : l \in Range(o.linkler)}
=============================================================================
