----------------------------- MODULE CourseOfAction -----------------------------
(***************************************************************************)
(* Courses of action and the synchronisation matrix: HeuristicCoaEngine    *)
(* (coa-engine.ts) ranks what may be done about one track under the rules  *)
(* of engagement, senkronizasyonKur (senk-matris.ts) lays the first choice *)
(* for the highest-scored tracks out by asset and time window, and         *)
(* ReasoningService feeds both from the track and platform objects.        *)
(*                                                                         *)
(* Positions lie on a line: a distance is a difference, a track approaches *)
(* an asset when it moves towards it, and then reaches it after as many    *)
(* minutes as the distance.  Success estimates are left out: three options *)
(* of three kinds are never compared by them.  An asset is known by its    *)
(* primary key, as the service always gives one.                           *)
(***************************************************************************)
EXTENDS Integers, Sequences, SequencesExt, FiniteSetsExt

CONSTANTS
    CoaIz,        \* tracks, numbers
    Platform,     \* platforms, numbers
    IzSatiri,     \* what a track row may hold: [konum, alan, sinif, skor, rota]
    PlatformSatiri,  \* [konum, alan, hazir]; konum NULL when there is no position
    Roe,          \* rules a caller may send: [dost, kimlikGerekli, guven, esik]
    Korumali,     \* protected places
    Menzil,       \* engagement range
    StandOff,     \* korumaliStandoffKm
    EnUst,        \* limit: tracks of the matrix
    SifirKonum    \* null

VARIABLES izler, platformlar
coaVars == <<izler, platformlar>>

VarsayilanRoe == [dost |-> {"Dost"}, kimlikGerekli |-> TRUE, guven |-> 60, esik |-> 55]

\* siniflandirmaGuveni is never set by the service: 0.5, and whether that is
\* enough is for the rules of the caller to say.  In percent.
KimlikGuveni == 50
KimlikYeter(roe) == KimlikGuveni >= roe.guven

Uzaklik(a, b) == IF a < b THEN b - a ELSE a - b
Yaklasir(iz, p) == (p.konum - iz.konum) * iz.rota > 0

-----------------------------------------------------------------------------
(* uret *)

Dost(iz, roe) == iz.sinif \in roe.dost
KorumaliYakin(iz) == \E k \in Korumali : Uzaklik(iz.konum, k) < StandOff

Ihlaller(iz, roe) ==
    {i \in {"dost", "kimlik", "esik", "korumali"} :
        \/ i = "dost"     /\ Dost(iz, roe)
        \/ i = "kimlik"   /\ roe.kimlikGerekli /\ ~KimlikYeter(roe)
        \/ i = "esik"     /\ iz.skor < roe.esik
        \/ i = "korumali" /\ KorumaliYakin(iz)}

RoeDurumu(iz, roe) == IF Dost(iz, roe) THEN "yasak"
                      ELSE IF Ihlaller(iz, roe) /= {} THEN "kisitli" ELSE "serbest"

\* Candidates fit the domain, nearest first; ground assets fit any.
Adaylar(iz, V) ==
    SetToSortSeq({p \in DOMAIN V : V[p].alan \in {iz.alan, "Kara"}},
                 LAMBDA p, q : LET d == Uzaklik(iz.konum, V[p].konum)
                                   e == Uzaklik(iz.konum, V[q].konum) IN d < e \/ (d = e /\ p < q))

Menzilde(iz, v) == Uzaklik(iz.konum, v.konum) <= Menzil

\* The nearest that is ready and in range, or else the nearest.
EnIyi(iz, V) ==
    LET a == Adaylar(iz, V)
        uygun == SelectSeq(a, LAMBDA p : Menzilde(iz, V[p]) /\ V[p].hazir)
    IN  IF uygun /= << >> THEN Head(uygun) ELSE IF a /= << >> THEN Head(a) ELSE 0

KesismeDk(iz, V, p) == IF p /= 0 /\ Yaklasir(iz, V[p]) THEN Uzaklik(iz.konum, V[p].konum) ELSE SifirKonum

Risk(iz, V, p) == IF KorumaliYakin(iz) \/ p = 0 \/ ~Menzilde(iz, V[p]) \/ ~V[p].hazir THEN "Yuksek" ELSE "Dusuk"

Secenek(tip, iz, V, p, uygun, risk) ==
    [tip |-> tip, varlik |-> p, roeUygun |-> uygun, risk |-> risk,
     kesisme |-> IF tip = "Izle-Takip" THEN SifirKonum ELSE KesismeDk(iz, V, p)]

Secenekler(iz, V, roe) ==
    LET p == EnIyi(iz, V)
        ilk == IF Adaylar(iz, V) = << >> THEN 0 ELSE Head(Adaylar(iz, V))
    IN  (IF ~Dost(iz, roe) /\ iz.skor >= roe.esik
         THEN {Secenek("Etkisiz Hale Getir", iz, V, p, Ihlaller(iz, roe) = {}, Risk(iz, V, p))} ELSE {})
        \cup (IF ~Dost(iz, roe) /\ p /= 0 THEN {Secenek("Onle/Durdur", iz, V, p, TRUE, Risk(iz, V, p))} ELSE {})
        \cup {Secenek("Izle-Takip", iz, V, ilk, TRUE, "Dusuk")}

\* The order of the options: what the rules allow first, then the most forceful
\* in engagement mode and the least forceful out of it.
TipAgirlik(tip) == CASE tip = "Etkisiz Hale Getir" -> 3 [] tip = "Onle/Durdur" -> 2 [] tip = "Izle-Takip" -> 0

\* Mutant of OnceGelir: what the rules allow does not come first.
OnceGelirRoesiz(a, b, mod) ==
    IF mod THEN TipAgirlik(a.tip) > TipAgirlik(b.tip) ELSE TipAgirlik(a.tip) < TipAgirlik(b.tip)

OnceGelir(a, b, mod) ==
    IF a.roeUygun /= b.roeUygun THEN a.roeUygun
    ELSE IF mod THEN TipAgirlik(a.tip) > TipAgirlik(b.tip) ELSE TipAgirlik(a.tip) < TipAgirlik(b.tip)

Oneri(iz, V, roe) ==
    LET mod == RoeDurumu(iz, roe) /= "yasak" /\ iz.skor >= roe.esik
    IN  CHOOSE s \in Secenekler(iz, V, roe) : \A t \in Secenekler(iz, V, roe) \ {s} : OnceGelir(s, t, mod)

-----------------------------------------------------------------------------
(* ReasoningService: the objects it reads.                                 *)

\* dostVarliklar: platforms with a position.
DostVarliklar == [p \in {p \in Platform : platformlar[p].konum /= SifirKonum} |-> platformlar[p]]

\* skorluIzler, the highest first, cut to the limit.
EnUstTehditler ==
    LET s == SetToSortSeq({i \in CoaIz : izler[i].skor /= SifirKonum},
                          LAMBDA i, j : izler[i].skor > izler[j].skor \/ (izler[i].skor = izler[j].skor /\ i < j))
    IN  SubSeq(s, 1, IF Len(s) < EnUst THEN Len(s) ELSE EnUst)

-----------------------------------------------------------------------------
(* senkronizasyonKur *)

Pencereler == <<5, 15, 30, 60>>
Izleme == 0   \* the window without an upper end

\* Mutant of PencereSec: beyond the last window is monitoring.
PencereSecUzak(kesisme, tip) ==
    LET uygun == {w \in DOMAIN Pencereler : kesisme <= Pencereler[w]}
    IN  IF tip = "Izle-Takip" \/ kesisme = SifirKonum \/ uygun = {} THEN Izleme ELSE Min(uygun)

PencereSec(kesisme, tip) ==
    LET uygun == {w \in DOMAIN Pencereler : kesisme <= Pencereler[w]}
    IN  IF tip = "Izle-Takip" \/ kesisme = SifirKonum THEN Izleme
        ELSE IF uygun = {} THEN Len(Pencereler) ELSE Min(uygun)

\* A row per threat: its first option under the default rules.
Gorevler ==
    LET s == EnUstTehditler
    IN  [k \in DOMAIN s |-> [iz |-> s[k], oneri |-> Oneri(izler[s[k]], DostVarliklar, VarsayilanRoe)]]

Atanan(g) == {k \in DOMAIN g : g[k].oneri.varlik /= 0}

\* g: the tasks; V: the assets.
Matris(g, V) ==
    LET satir(k)  == g[k].oneri.varlik
        sutun(k)  == PencereSec(g[k].oneri.kesisme, g[k].oneri.tip)
        satirlar  == {satir(k) : k \in Atanan(g)}
    IN  [satirlar |-> satirlar,
         hucreler |-> [h \in {<<satir(k), sutun(k)>> : k \in Atanan(g)} |->
                          {g[k].iz : k \in {k \in Atanan(g) : <<satir(k), sutun(k)>> = h}}],
         gorevli  |-> Cardinality(satirlar),
         bosta    |-> Cardinality({p \in DOMAIN V : V[p].hazir /\ p \notin satirlar}),
         kapsanan |-> Cardinality({g[k].iz : k \in DOMAIN g}),
         angajman |-> Cardinality({k \in DOMAIN g : g[k].oneri.tip /= "Izle-Takip"}),
         atanamayan |-> Len(g) - Cardinality(Atanan(g))]

-----------------------------------------------------------------------------
CoaInit == izler \in [CoaIz -> IzSatiri] /\ platformlar \in [Platform -> PlatformSatiri]

\* The objects change under the service: ingest, enricher, operators.
IzGuncellenir(i) == \E r \in IzSatiri : izler' = [izler EXCEPT ![i] = r] /\ UNCHANGED platformlar
PlatformDegisir(p) == \E r \in PlatformSatiri : platformlar' = [platformlar EXCEPT ![p] = r] /\ UNCHANGED izler

CoaNext == (\E i \in CoaIz : IzGuncellenir(i)) \/ (\E p \in Platform : PlatformDegisir(p))

CoaSpec == CoaInit /\ [][CoaNext]_coaVars

-----------------------------------------------------------------------------
(* Properties. *)

Skorlu == {i \in CoaIz : izler[i].skor /= SifirKonum}

\* The first recommendation, under any rules a caller sends, is safe: force is
\* proposed for no friend and for no track below the threshold, fire only when no
\* rule is violated; and no task the matrix shows, which stands under the default
\* rules, proposes fire.
OneriGuvenli ==
    /\ \A i \in Skorlu, r \in Roe :
           LET o == Oneri(izler[i], DostVarliklar, r) IN
           /\ o.tip /= "Izle-Takip" => ~Dost(izler[i], r) /\ izler[i].skor >= r.esik
           /\ o.tip = "Etkisiz Hale Getir" => Ihlaller(izler[i], r) = {}
    /\ \A t \in Range(Gorevler) : t.oneri.tip /= "Etkisiz Hale Getir"

TamGosterir(g, m) ==
    /\ \A k \in Atanan(g) : Cardinality({h \in DOMAIN m.hucreler : g[k].iz \in m.hucreler[h]}) = 1
    /\ MapThenSumSet(LAMBDA h : Cardinality(m.hucreler[h]), DOMAIN m.hucreler) + m.atanamayan = m.kapsanan
    /\ \A h \in DOMAIN m.hucreler, k \in DOMAIN g :
           g[k].iz \in m.hucreler[h] /\ h[2] = Izleme =>
               g[k].oneri.tip = "Izle-Takip" \/ g[k].oneri.kesisme = SifirKonum
    /\ m.gorevli + m.bosta <= Cardinality(DOMAIN DostVarliklar)
    /\ \A i \in Skorlu \ {g[k].iz : k \in DOMAIN g}, k \in DOMAIN g : izler[i].skor <= izler[g[k].iz].skor

\* The matrix loses nothing and shows nothing twice: a threat among the highest is
\* in exactly one cell or counted as unassigned, an engagement with a known
\* meeting time is never under monitoring, no asset is both tasked and idle, and no
\* threat left out has a higher score than one shown.
MatrisTam == TamGosterir(Gorevler, Matris(Gorevler, DostVarliklar))
===============================================================================
