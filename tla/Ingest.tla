--------------------------------- MODULE Ingest ---------------------------------
(***************************************************************************)
(* ingest-service.ts: the consumer that writes the messages of the         *)
(* observation and intelligence topics into the database.                  *)
(*                                                                         *)
(* A batch is handled by a sequence of queries without a transaction, and  *)
(* its offset counts as consumed only after the last one.  A failed query  *)
(* makes the broker client hand out the same messages again in the same    *)
(* process; a crash goes back to the committed offset and reloads the      *)
(* identity caches.  The database may come back from a backup in between.  *)
(*                                                                         *)
(* A message is a sequence of items (an XML report set holds several):     *)
(* observations, intelligence reports, broken ones, or the single item of  *)
(* a message that has no report to read.  The values that are written are  *)
(* one field; that PostgreSQL refuses some of them is a constant of its    *)
(* own.  An item is spoken of by its place in the partition,               *)
(* <<message, item>>.  Metrics and the age-based clean-up of reports are   *)
(* left out.                                                               *)
(***************************************************************************)
EXTENDS Naturals, SequencesExt

CONSTANTS
    Konu,        \* topic partitions
    IstKonu,     \* those that carry intelligence reports
    Kayit,       \* partition -> the messages published in it, in order
    Iz,          \* track codes
    Sensor,      \* sensor codes
    BilinenSensor, EskiSensor,  \* those registered; those in the backup
    Zaman, Deger,
    Rapor,       \* report codes
    Bozuk,       \* items that do not parse or do not pass normalisation
    Raporsuz,    \* no value, or a text in which the XML parser finds no report
    BaskaAd,     \* track codes that name a unit, platform or sensor in object_item
    Ret,         \* <<item, query>>: normalisation accepts it, the query's casts do not
    Yok,
    MaxId,       \* bound: ids the sequence may give
    MaxHata      \* bound: failed queries, crashes and restores in one run

Gozlem == [iz : Iz, sensor : Sensor, zaman : Zaman, deger : Deger]
Oge == Gozlem \cup Rapor \cup Bozuk \cup Raporsuz

ASSUME KonuVarsayim == IstKonu \subseteq Konu
ASSUME KayitVarsayim ==
    /\ \A k \in Konu \ IstKonu : Kayit[k] \in Seq(Seq(Gozlem \cup Bozuk \cup Raporsuz))
    /\ \A k \in IstKonu : Kayit[k] \in Seq(Seq(Rapor \cup Bozuk \cup Raporsuz))
ASSUME SensorVarsayim == EskiSensor \subseteq BilinenSensor /\ BilinenSensor \subseteq Sensor
ASSUME OgeVarsayim ==
    /\ Gozlem \cap (Rapor \cup Bozuk \cup Raporsuz) = {} /\ Rapor \cap Bozuk = {}
    /\ Raporsuz \cap (Rapor \cup Bozuk) = {}
ASSUME AdVarsayim == BaskaAd \subseteq Iz
ASSUME YokVarsayim == Yok \notin Iz \cup Gozlem
ASSUME SinirVarsayim == MaxId \in Nat /\ MaxHata \in Nat /\ Zaman \subseteq Nat

VARIABLES
    vt,       \* the database
    islenen,  \* partition -> messages this process has consumed
    kayitli,  \* partition -> the committed offset
    bellek,   \* the identity caches trackId and sensorId
    parti,    \* the batch in hand, or Yok
    hata,     \* failures so far
    sebep     \* history: what has happened that may cost messages

vars == <<vt, islenen, kayitli, bellek, parti, hata, sebep>>

No == 1 .. MaxId

\* object_item (tracks), the sequence's next value, the sensors, reporting_data,
\* the three tables with one row per track, intel_report, ingest_karantina.
Veritabani ==
    [nesne : [No -> Iz \cup {Yok}], sira : 1 .. MaxId + 1, sensor : SUBSET BilinenSensor,
     gecmis : SUBSET [no : No, g : Gozlem],
     konum : [No -> Gozlem \cup {Yok}], dusman : [No -> Gozlem \cup {Yok}],
     ozet : [No -> Gozlem \cup {Yok}],
     rapor : SUBSET Rapor, karantina : SUBSET Oge]

BosTablo == [n \in No |-> Yok]

BosVt(sensorler) ==
    [nesne |-> BosTablo, sira |-> 1, sensor |-> sensorler, gecmis |-> {},
     konum |-> BosTablo, dusman |-> BosTablo, ozet |-> BosTablo,
     rapor |-> {}, karantina |-> {}]

Adim == {"yarat", "ilk", "gecmis", "konum", "dusman", "ozet", "rapor", "karantina", "tazele"}

ASSUME RetVarsayim == Ret \subseteq (Oge \ Raporsuz) \X (Adim \ {"ilk", "tazele"})

\* A batch: the places of its items that passed, the items to quarantine, the next query, the
\* tracks it created whose first state is not written yet, and whether it is
\* the second attempt.
Parti == [konu : Konu, son : Nat, gecerli : SUBSET (Nat \X Nat), karantina : SUBSET Oge,
          adim : Adim, donen : SUBSET (Iz \X No), tekrar : BOOLEAN]

ASSUME PartiVarsayim == Yok \notin Parti

\* yarim_yaratma: a failure left a track in the database and not in the cache;
\* yarim_tazeleme: a refresh of the caches failed; eleme: the refresh lost a
\* sensor; yedek: the database came back from the backup.
Sebep == {"yarim_yaratma", "yarim_tazeleme", "eleme", "yedek"}

-----------------------------------------------------------------------------
(***************************************************************************)
(* Reading a batch.                                                        *)
(***************************************************************************)
\* warmCaches.
Isinmis(d) ==
    [iz |-> [i \in Iz |-> IF \E n \in No : d.nesne[n] = i
                          THEN CHOOSE n \in No : d.nesne[n] = i ELSE 0],
     sensor |-> d.sensor]

\* The places of the items in the messages after the m-th up to the n-th.
Yerler(k, m, n) == UNION {{i} \X DOMAIN Kayit[k][i] : i \in m + 1 .. n}

Ogesi(k, p) == Kayit[k][p[1]][p[2]]

Once(p, q) == p[1] < q[1] \/ (p[1] = q[1] /\ p[2] < q[2])

\* An item goes on to the writes; the others are quarantined, unless there is none.
Gecer(o) == o \in Rapor \/ (o \in Gozlem /\ o.sensor \in bellek.sensor)

\* eachBatch is called with the next messages of one partition.
Al(k, n) ==
    /\ parti = Yok
    /\ n > islenen[k]
    /\ LET yerler == Yerler(k, islenen[k], n)
       IN parti' = [konu |-> k, son |-> n,
                    gecerli |-> {p \in yerler : Gecer(Ogesi(k, p))},
                    karantina |-> {o \in {Ogesi(k, p) : p \in yerler} : ~Gecer(o)} \ Raporsuz,
                    adim |-> IF k \in IstKonu THEN "rapor" ELSE "yarat",
                    donen |-> {}, tekrar |-> FALSE]
    /\ UNCHANGED <<vt, islenen, kayitli, bellek, hata, sebep>>

-----------------------------------------------------------------------------
(***************************************************************************)
(* writeObservations, query by query.                                      *)
(***************************************************************************)
\* The item of the batch at a place.
Gozlenen(p) == Ogesi(parti.konu, p)

Bilinmeyen == {i \in {Gozlenen(p).iz : p \in parti.gecerli} : bellek.iz[i] = 0}

\* Mutant of Catisan: the insert has no ON CONFLICT clause.
CatisanYok == {}

\* The alternate identification text is unique over all categories.
Catisan == BaskaAd \cup {i \in Iz : \E n \in No : vt.nesne[n] = i}

Hazir == {p \in parti.gecerli : bellek.iz[Gozlenen(p).iz] # 0}

\* Mutant of Sonuncular: the first observation of a track wins.
SonuncularIlk ==
    {Gozlenen(p) : p \in {p \in Hazir :
        \A q \in Hazir : Once(q, p) => Gozlenen(q).iz # Gozlenen(p).iz}}

\* latest: one observation per track, the last of the batch.
Sonuncular ==
    {Gozlenen(p) : p \in {p \in Hazir :
        \A q \in Hazir : Once(p, q) => Gozlenen(q).iz # Gozlenen(p).iz}}

\* Mutant of Sonraki: the history is written after the tables it summarises.
SonrakiGecmisSonda(adim) ==
    CASE adim \in {"yarat", "ilk"} -> "konum" [] adim = "konum" -> "dusman"
      [] adim = "dusman" -> "ozet" [] adim = "ozet" -> "gecmis"
      [] OTHER -> "karantina"

Sonraki(adim) ==
    CASE adim \in {"yarat", "ilk"} -> "gecmis" [] adim = "gecmis" -> "konum"
      [] adim = "konum" -> "dusman" [] adim = "dusman" -> "ozet"
      [] OTHER -> "karantina"

Ilerle == parti' = [parti EXCEPT !.adim = Sonraki(@)]

Adimda(adim) == parti # Yok /\ parti.adim = adim

\* The items whose values the query of a step carries.
Tasinan(adim) ==
    CASE adim = "yarat" -> {o \in {Gozlenen(p) : p \in parti.gecerli} : bellek.iz[o.iz] = 0}
      [] adim = "gecmis" -> {Gozlenen(p) : p \in Hazir}
      [] adim \in {"konum", "dusman", "ozet"} -> Sonuncular
      [] adim = "rapor" -> {Gozlenen(p) : p \in parti.gecerli}
      [] adim = "karantina" -> parti.karantina
      [] OTHER -> {}

\* The casts of a query come before its rows and their foreign keys: int[] of
\* what is finite, timestamptz[] of what Date.parse reads, text without NUL.
VeriUygun == \A o \in Tasinan(parti.adim) : <<o, parti.adim>> \notin Ret

\* Every unknown track takes an id from the sequence; the rows that do not
\* conflict are inserted and returned.
Numaralar(sira) == Bijection(Bilinmeyen, vt.sira .. sira - 1)

NesneEkle(sira, no) ==
    /\ no \in Numaralar(sira)
    /\ vt' = [vt EXCEPT
          !.sira = sira,
          !.nesne = [n \in No |-> IF \E i \in Bilinmeyen \ Catisan : no[i] = n
                                  THEN CHOOSE i \in Bilinmeyen : no[i] = n ELSE @[n]]]

NesneYarat ==
    /\ Adimda("yarat")
    /\ Bilinmeyen # {} /\ VeriUygun
    /\ \E sira \in vt.sira .. MaxId + 1 : \E no \in Numaralar(sira) :
          /\ NesneEkle(sira, no)
          /\ LET donen == {<<i, no[i]>> : i \in Bilinmeyen \ Catisan}
             IN parti' = [parti EXCEPT !.donen = donen,
                                       !.adim = IF donen = {} THEN Sonraki(@) ELSE "ilk"]
    /\ UNCHANGED <<islenen, kayitli, bellek, hata, sebep>>

NesneGerekmez ==
    /\ Adimda("yarat")
    /\ Bilinmeyen = {}
    /\ Ilerle
    /\ UNCHANGED <<vt, islenen, kayitli, bellek, hata, sebep>>

\* The loop over the returned rows: into the cache, then the first state.
Onbellekle(d) == bellek' = [bellek EXCEPT !.iz[d[1]] = d[2]]

\* byNo: of one track the last observation of the batch.
IlkGozlem(i) ==
    LET yerler == {p \in parti.gecerli : Gozlenen(p).iz = i}
    IN Gozlenen(CHOOSE p \in yerler : \A q \in yerler : ~Once(p, q))

Bossa(eski, o) == IF eski = Yok THEN o ELSE eski

IlkDusman(d) == vt' = [vt EXCEPT !.dusman[d[2]] = Bossa(@, IlkGozlem(d[1]))]

\* The two inserts of the first state take the values the upserts take.
IlkUygun(d, adim) == <<IlkGozlem(d[1]), adim>> \notin Ret

IlkDurum(d) ==
    /\ Adimda("ilk")
    /\ d \in parti.donen
    /\ vt.nesne[d[2]] # Yok
    /\ IlkUygun(d, "dusman") /\ IlkUygun(d, "konum")
    /\ Onbellekle(d)
    /\ vt' = [vt EXCEPT !.dusman[d[2]] = Bossa(@, IlkGozlem(d[1])),
                        !.konum[d[2]] = Bossa(@, IlkGozlem(d[1]))]
    /\ parti' = [parti EXCEPT !.donen = @ \ {d},
                              !.adim = IF parti.donen = {d} THEN Sonraki(@) ELSE @]
    /\ UNCHANGED <<islenen, kayitli, hata, sebep>>

\* The foreign keys of the rows about to be written hold.
IzlerVar == \A p \in Hazir : vt.nesne[bellek.iz[Gozlenen(p).iz]] # Yok

SensorlerVar == \A p \in Hazir : Gozlenen(p).sensor \in vt.sensor

\* ON CONFLICT DO UPDATE refuses to touch one row twice (21000).
NumaralarAyri == \A o, h \in Sonuncular : bellek.iz[o.iz] = bellek.iz[h.iz] => o = h

HazirYok ==
    /\ Adimda("gecmis")
    /\ Hazir = {}
    /\ parti' = [parti EXCEPT !.adim = "karantina"]
    /\ UNCHANGED <<vt, islenen, kayitli, bellek, hata, sebep>>

\* The history row of an observation, and the unique index of the history.
Satir(p) == [no |-> bellek.iz[Gozlenen(p).iz], g |-> Gozlenen(p)]

Cakisir(r, s) == r.no = s.no /\ r.g.zaman = s.g.zaman /\ r.g.sensor = s.g.sensor

\* ON CONFLICT DO NOTHING: one row per track, time and sensor.
GecmisYaz ==
    /\ Adimda("gecmis")
    /\ Hazir # {}
    /\ VeriUygun /\ IzlerVar /\ SensorlerVar
    /\ LET yeni == {p \in Hazir :
              /\ \A q \in Hazir : Once(q, p) => ~Cakisir(Satir(q), Satir(p))
              /\ \A r \in vt.gecmis : ~Cakisir(r, Satir(p))}
       IN vt' = [vt EXCEPT !.gecmis = @ \cup {Satir(p) : p \in yeni}]
    /\ Ilerle
    /\ UNCHANGED <<islenen, kayitli, bellek, hata, sebep>>

\* The upsert of one of the tables with a row per track.
Yazilmis(tablo) ==
    [n \in No |-> IF \E o \in Sonuncular : bellek.iz[o.iz] = n
                  THEN CHOOSE o \in Sonuncular : bellek.iz[o.iz] = n ELSE tablo[n]]

SonDurumYaz ==
    /\ \/ Adimda("konum") /\ vt' = [vt EXCEPT !.konum = Yazilmis(@)]
       \/ Adimda("dusman") /\ vt' = [vt EXCEPT !.dusman = Yazilmis(@)]
       \/ Adimda("ozet") /\ vt' = [vt EXCEPT !.ozet = Yazilmis(@)]
    /\ VeriUygun /\ NumaralarAyri /\ IzlerVar
    /\ Ilerle
    /\ UNCHANGED <<islenen, kayitli, bellek, hata, sebep>>

\* Two tracks of the batch have one number in the cache: the upsert is refused.
IkiKezDokunur ==
    /\ parti # Yok /\ parti.adim \in {"konum", "dusman", "ozet"}
    /\ ~NumaralarAyri
    /\ parti' = Yok
    /\ UNCHANGED <<vt, islenen, kayitli, bellek, hata, sebep>>

\* writeIntel: ON CONFLICT (report_code) DO NOTHING.
RaporYaz ==
    /\ Adimda("rapor")
    /\ VeriUygun
    /\ vt' = [vt EXCEPT !.rapor = @ \cup {Gozlenen(p) : p \in parti.gecerli}]
    /\ Ilerle
    /\ UNCHANGED <<islenen, kayitli, bellek, hata, sebep>>

\* Mutant of KarantinaYaz: what did not pass is only counted.
KarantinaYazma ==
    /\ Adimda("karantina")
    /\ islenen' = [islenen EXCEPT ![parti.konu] = parti.son]
    /\ parti' = Yok
    /\ UNCHANGED <<vt, kayitli, bellek, hata, sebep>>

\* writeQuarantine, and the end of the batch.
KarantinaYaz ==
    /\ Adimda("karantina")
    /\ VeriUygun
    /\ vt' = [vt EXCEPT !.karantina = @ \cup parti.karantina]
    /\ islenen' = [islenen EXCEPT ![parti.konu] = parti.son]
    /\ parti' = Yok
    /\ UNCHANGED <<kayitli, bellek, hata, sebep>>

-----------------------------------------------------------------------------
(***************************************************************************)
(* Failures.  A foreign key error (23503) refreshes the caches and tries   *)
(* once more, a deadlock (40P01) tries once more, any other error and an   *)
(* error of the second attempt is thrown: the messages come again.         *)
(***************************************************************************)
Ariza == hata < MaxHata /\ hata' = hata + 1

YarimKalan(kalan) == IF kalan = {} THEN sebep ELSE sebep \cup {"yarim_yaratma"}

Yazimda == parti # Yok /\ parti.adim \in {"yarat", "ilk", "gecmis", "konum", "dusman", "ozet"}

YenidenDene == parti' = [parti EXCEPT !.adim = "yarat", !.donen = {}, !.tekrar = TRUE]

\* Thrown, or, for a deadlock at the first attempt, tried again.
DusVeyaDene == parti' = Yok \/ (Yazimda /\ ~parti.tekrar /\ YenidenDene)

SorguHata ==
    /\ Ariza
    /\ parti # Yok /\ parti.adim \notin {"ilk", "tazele"}
    /\ DusVeyaDene
    /\ UNCHANGED <<vt, islenen, kayitli, bellek, sebep>>

\* The insert of the tracks took effect and its answer was lost.
YaratYanitsiz ==
    /\ Ariza
    /\ Adimda("yarat")
    /\ Bilinmeyen # {} /\ VeriUygun
    /\ \E sira \in vt.sira .. MaxId + 1 : \E no \in Numaralar(sira) : NesneEkle(sira, no)
    /\ parti' = Yok
    /\ sebep' = YarimKalan(Bilinmeyen \ Catisan)
    /\ UNCHANGED <<islenen, kayitli, bellek>>

\* A query of the loop fails: the rows after this one do not reach the cache.
IlkDurumHata(d) ==
    /\ Ariza
    /\ Adimda("ilk")
    /\ d \in parti.donen
    /\ Onbellekle(d)
    /\ vt.nesne[d[2]] # Yok /\ IlkUygun(d, "dusman")
    /\ \/ UNCHANGED vt
       \/ IlkDusman(d)
    /\ DusVeyaDene
    /\ sebep' = YarimKalan(parti.donen \ {d})
    /\ UNCHANGED <<islenen, kayitli>>

\* PostgreSQL refuses the values of an item (22P02, 22003, 22007, 22021): neither
\* retry path is for it, and the same messages come again.
VeriReddi ==
    /\ parti # Yok /\ parti.adim \notin {"ilk", "tazele"}
    /\ ~VeriUygun
    /\ parti' = Yok
    /\ UNCHANGED <<vt, islenen, kayitli, bellek, hata, sebep>>

\* The first state of a new track is refused: by its first insert, or by the second.
IlkDurumReddi(d) ==
    /\ Adimda("ilk")
    /\ d \in parti.donen
    /\ Onbellekle(d)
    /\ \/ ~IlkUygun(d, "dusman") /\ UNCHANGED vt
       \/ /\ IlkUygun(d, "dusman") /\ ~IlkUygun(d, "konum")
          /\ vt.nesne[d[2]] # Yok
          /\ IlkDusman(d)
    /\ parti' = Yok
    /\ sebep' = YarimKalan(parti.donen \ {d})
    /\ UNCHANGED <<islenen, kayitli, hata>>

\* A foreign key of the query about to run does not hold; in the loop the row
\* is in the cache already.
AnahtarTutmaz ==
    \/ /\ \/ Adimda("gecmis") /\ ~(IzlerVar /\ SensorlerVar)
          \/ Yazimda /\ parti.adim \in {"konum", "dusman", "ozet"} /\ NumaralarAyri /\ ~IzlerVar
       /\ VeriUygun
       /\ UNCHANGED bellek
    \/ /\ Adimda("ilk")
       /\ \E d \in parti.donen :
             vt.nesne[d[2]] = Yok /\ IlkUygun(d, "dusman") /\ Onbellekle(d)

\* Mutant of YabanciAnahtar: the error is thrown at once.
YabanciAnahtarDus ==
    /\ AnahtarTutmaz
    /\ parti' = Yok
    /\ UNCHANGED <<vt, islenen, kayitli, hata, sebep>>

YabanciAnahtar ==
    /\ AnahtarTutmaz
    /\ parti' = IF parti.tekrar THEN Yok ELSE [parti EXCEPT !.adim = "tazele"]
    /\ UNCHANGED <<vt, islenen, kayitli, hata, sebep>>

\* warmCaches, and the second attempt without the sensors that are gone.
Tazele ==
    /\ Adimda("tazele")
    /\ bellek' = Isinmis(vt)
    /\ LET kalan == {p \in parti.gecerli : Gozlenen(p).sensor \in vt.sensor}
       IN /\ parti' = [parti EXCEPT !.gecerli = kalan, !.adim = "yarat", !.donen = {},
                                    !.tekrar = TRUE]
          /\ sebep' = IF kalan = parti.gecerli THEN sebep ELSE sebep \cup {"eleme"}
    /\ UNCHANGED <<vt, islenen, kayitli, hata>>

\* One of its queries fails: both caches were cleared before the first.
TazeleHata ==
    /\ Ariza
    /\ Adimda("tazele")
    /\ \E s \in {{}, vt.sensor} : bellek' = [iz |-> [i \in Iz |-> 0], sensor |-> s]
    /\ parti' = Yok
    /\ sebep' = sebep \cup {"yarim_tazeleme"}
    /\ UNCHANGED <<vt, islenen, kayitli>>

\* The process crashes and starts again.
Cok ==
    /\ Ariza
    /\ parti' = Yok
    /\ islenen' = kayitli
    /\ bellek' = Isinmis(vt)
    /\ UNCHANGED <<vt, kayitli, sebep>>

\* The broker client commits what was consumed.
OffsetKaydet(k) ==
    /\ kayitli[k] < islenen[k]
    /\ kayitli' = [kayitli EXCEPT ![k] = islenen[k]]
    /\ UNCHANGED <<vt, islenen, bellek, parti, hata, sebep>>

YedektenDon ==
    /\ Ariza
    /\ vt' = BosVt(EskiSensor)
    /\ sebep' = sebep \cup {"yedek"}
    /\ UNCHANGED <<islenen, kayitli, bellek, parti>>

-----------------------------------------------------------------------------
Init ==
    /\ vt = BosVt(BilinenSensor)
    /\ islenen = [k \in Konu |-> 0]
    /\ kayitli = [k \in Konu |-> 0]
    /\ bellek = Isinmis(vt)
    /\ parti = Yok
    /\ hata = 0
    /\ sebep = {}

Tuket ==
    \/ \E k \in Konu : \E n \in 1 .. Len(Kayit[k]) : Al(k, n)
    \/ NesneYarat \/ NesneGerekmez \/ HazirYok \/ GecmisYaz \/ SonDurumYaz
    \/ IkiKezDokunur \/ RaporYaz \/ KarantinaYaz \/ YabanciAnahtar \/ Tazele
    \/ VeriReddi
    \/ \E d \in Iz \X No : IlkDurum(d) \/ IlkDurumReddi(d)

Next ==
    \/ Tuket
    \/ SorguHata \/ YaratYanitsiz \/ TazeleHata \/ Cok \/ YedektenDon
    \/ \E d \in Iz \X No : IlkDurumHata(d)
    \/ \E k \in Konu : OffsetKaydet(k)

Spec == Init /\ [][Next]_vars

\* Queries return, and the broker client hands out the messages of every
\* partition again and again, whichever partition's batch was thrown before.
AdilSpec ==
    /\ Spec
    /\ WF_vars(Tuket)
    /\ \A k \in Konu : SF_vars(\E n \in 1 .. Len(Kayit[k]) : Al(k, n))

-----------------------------------------------------------------------------
(***************************************************************************)
(* Properties.                                                             *)
(***************************************************************************)
TypeOK ==
    /\ vt \in Veritabani
    /\ islenen \in [Konu -> Nat] /\ kayitli \in [Konu -> Nat]
    /\ \A k \in Konu : kayitli[k] <= islenen[k] /\ islenen[k] <= Len(Kayit[k])
    /\ bellek \in [iz : [Iz -> 0 .. MaxId], sensor : SUBSET BilinenSensor]
    /\ parti \in Parti \cup {Yok}
    /\ hata \in 0 .. MaxHata
    /\ sebep \subseteq Sebep

\* Every item of a consumed message is in the history (under its key), among
\* the reports or in quarantine.
Yazili(o) ==
    \/ o \in vt.karantina \cup vt.rapor
    \/ o \in Gozlem /\ \E r \in vt.gecmis :
          r.g.iz = o.iz /\ r.g.zaman = o.zaman /\ r.g.sensor = o.sensor

HerOgeYazili ==
    \A k \in Konu : \A p \in Yerler(k, 0, islenen[k]) : Yazili(Ogesi(k, p))

\* What the code drops without a record by the look of the item: a message in
\* which it finds no report, and an observation of a known sensor whose track
\* code names another object (never cached, so never ready).
Dusen(o) ==
    \/ o \in Raporsuz
    \/ o \in Gozlem /\ o.sensor \in BilinenSensor /\ o.iz \in BaskaAd

\* Failed queries, deadlocks, crashes, refused values and redelivery lose nothing
\* by themselves: any other item is lost only after one of the four causes.
HerOgeHesapli ==
    \A k \in Konu : \A p \in Yerler(k, 0, islenen[k]) :
        Yazili(Ogesi(k, p)) \/ Dusen(Ogesi(k, p))

KayipSebepli == sebep = {} => HerOgeHesapli

\* What the service promises ("asla sessiz kayıp", ingest-service.ts:126), for
\* as long as the database keeps what it was given.
SessizKayipYok == "yedek" \notin sebep => HerOgeYazili

\* Redelivery repairs what a failure between two queries left behind: once a
\* partition is consumed, the three tables agree on the last observation of a
\* track that reports in that partition only.
Gozlemler(k) ==
    {p \in Yerler(k, 0, Len(Kayit[k])) :
        /\ Ogesi(k, p) \in Gozlem
        /\ Ogesi(k, p).sensor \in BilinenSensor /\ Ogesi(k, p).iz \notin BaskaAd}

SonDurumDogru ==
    sebep = {} /\ parti = Yok =>
        \A k \in Konu : islenen[k] = Len(Kayit[k]) =>
            \A p \in Gozlemler(k) :
                LET o == Ogesi(k, p)
                IN \/ \E q \in Gozlemler(k) : Once(p, q) /\ Ogesi(k, q).iz = o.iz
                   \/ \E m \in Konu \ {k} : \E q \in Gozlemler(m) : Ogesi(m, q).iz = o.iz
                   \/ \E n \in No : /\ vt.nesne[n] = o.iz
                                   /\ vt.konum[n] = o /\ vt.dusman[n] = o /\ vt.ozet[n] = o

\* The summary of a track, which the views read instead of the history, always
\* has its observation in the history, whatever query failed.
OzetGecmiste ==
    \A n \in No : vt.ozet[n] # Yok =>
        \E r \in vt.gecmis : Cakisir(r, [no |-> n, g |-> vt.ozet[n]])

\* Unless the database came back from a backup, ids, cache and rows agree: one
\* row per track, and every observation under its own track.
KimlikDogru ==
    "yedek" \notin sebep =>
        /\ \A m, n \in No : vt.nesne[m] = vt.nesne[n] /\ m # n => vt.nesne[m] = Yok
        /\ \A i \in Iz : bellek.iz[i] # 0 => vt.nesne[bellek.iz[i]] = i
        /\ \A r \in vt.gecmis : vt.nesne[r.no] = r.g.iz

\* The tables, which queries without a transaction write one by one, agree.
TablolarTutarli == KimlikDogru /\ OzetGecmiste

Tukendi == \A k \in Konu : islenen[k] = Len(Kayit[k])

IkiIzTekNumara == \E i, j \in Iz : i # j /\ bellek.iz[i] # 0 /\ bellek.iz[i] = bellek.iz[j]

RetVar(k, p) == \E adim \in Adim : <<Ogesi(k, p), adim>> \in Ret

\* Once failures stop, every partition is consumed: no message makes the consumer
\* fail for ever, and no restored database either, unless the cache keeps one
\* number for two tracks.  Values that the database refuses hold up the
\* partition they wait in, and no other.
BolumTuketilir ==
    \A k \in Konu :
        \/ <>[](islenen[k] = Len(Kayit[k]))
        \/ <>[](\E p \in Yerler(k, islenen[k], Len(Kayit[k])) : RetVar(k, p))
        \/ <>[]IkiIzTekNumara

\* What the refreshed caches are for (ingest-service.ts:139-147): a database
\* that comes back older does not make the consumer fail for ever.
HepsiTuketilir == <>[]Tukendi

=============================================================================
