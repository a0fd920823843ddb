------------------------------ MODULE MCHesaplar ------------------------------
(* What is computed from data somebody edits, and the plans that are edited, in *)
(* one run: konu, chosen at the start, says what the behaviour is about.        *)
EXTENDS MCBoardPipeline, ExpressionField, LensCards, CourseOfAction, SenkronPlan

CONSTANTS g1, g2, r1, s1

VARIABLE konu

-----------------------------------------------------------------------------
(* Expressions over rows with a number, null, a text that is one and one that  *)
(* is none; a column and a parameter that do not exist.                        *)
MCIlkYaprak == {Num(0), Null, Bool(TRUE), Str(Metin(1)), Col("yok"), Param("yok")}
MCEkYaprak == {Param("a"), Col("x"), Call("count", << >>)}
XSatiri(v) == [c \in {"x"} |-> v]
MCIfadeGrup == {<<XSatiri(Sayi(1)), XSatiri(Bos)>>, <<XSatiri(Metin(0)), XSatiri(NullMetin)>>}
MCIfadeParam == [ad \in {"a"} |-> Sayi(1)]

-----------------------------------------------------------------------------
(* Object sets: units and the tracks that refer to them, with null, dangling   *)
(* and shared keys.                                                            *)
MCNesneTipi == [iz |-> [pk |-> "no", kolonlar |-> {"no", "bno", "x"}],
                birlik |-> [pk |-> "bno", kolonlar |-> {"bno", "x"}]]
MCBaglanti ==
    [izBirlik |-> [kimden |-> "iz", kime |-> "birlik", anahtar |-> "bno", hedefAnahtar |-> "bno"],
     birlikIz |-> [kimden |-> "birlik", kime |-> "iz", anahtar |-> "bno", hedefAnahtar |-> "bno"]]
IzNesne(n, b, d) == [no |-> Sayi(n), bno |-> b, x |-> d]
BirlikNesne(n, d) == [bno |-> Sayi(n), x |-> d]
MCVeri ==
    {[iz |-> <<IzNesne(1, a, d), IzNesne(2, b, Sayi(1)), IzNesne(3, b, Sayi(4))>>,
      birlik |-> <<BirlikNesne(1, Sayi(2)), BirlikNesne(2, c)>>] :
        a \in {Bos, Sayi(1), Sayi(2)}, b \in {Sayi(1), Sayi(3)}, d \in {Bos, Sayi(1)},
        c \in {Bos, Sayi(2)}}
MCLensVeri == {v \in MCVeri : v.iz[1].x = Bos /\ v.iz[2].bno = Sayi(1) /\ v.birlik[2].x = Bos /\ v.iz[1].bno = Bos}
MCBilinmeyen == [tur |-> "base", tip |-> "izler"]
MCKaynaklar ==
    {[tur |-> "base", tip |-> "iz"], [tur |-> "base", tip |-> "birlik"],
     [tur |-> "fromPrimaryKeys", tip |-> "iz", anahtarlar |-> {Sayi(1), Sayi(2)}],
     MCBilinmeyen}
SuzAdim(hep, ks) == [tur |-> "filter", hepsi |-> hep, kosullar |-> ks]
MCAdimlar ==
    {SuzAdim(TRUE, <<Kosul("x", "neq", <<Lit(Sayi(1))>>)>>),
     SuzAdim(FALSE, <<Kosul("x", "between", <<Lit(Sayi(1)), Lit(Sayi(3))>>),
                      Kosul("bno", "isNull", <<>>)>>),
     SuzAdim(TRUE, <<Kosul("birlik__x", "in", <<Lit(Sayi(2))>>)>>)}
    \cup {[tur |-> "joinLinked", link |-> l, kolon |-> "x"] : l \in {"izBirlik", "birlikIz"}}
    \cup {[tur |-> "searchAround", link |-> l] : l \in {"izBirlik", "birlikIz", "izSahibi"}}
MCKosulFormu ==
    {<<Kosul("x", "neq", <<Par("esik")>>)>>, <<Kosul(Bos, "eq", << >>), Kosul("bno", "gt", <<Lit(Sayi(1))>>)>>}
MCKart0(no, chip, tur, girdi, ic) == [no |-> no, chip |-> chip, tur |-> tur, girdi |-> girdi, ic |-> ic]
MCGrafik(no, girdi, g, f) == MCKart0(no, no, "chart", girdi, [grup |-> g, olcu |-> [fn |-> f, kolon |-> "x"]])
MCBosBelge == [kartlar |-> << >>, params |-> << >>]
MCIlkBelge ==
    {MCBosBelge,
     [kartlar |-> <<MCKart0(1, 1, "objectSet", 0, "iz"), MCGrafik(2, 1, "bno", "count")>>, params |-> << >>],
     [kartlar |-> <<MCKart0(1, 1, "objectSet", 0, "iz"),
                    MCKart0(2, 2, "filter", 1, [hepsi |-> TRUE, kosullar |-> <<Kosul("x", "neq", <<Par("esik")>>)>>]),
                    MCGrafik(3, 2, "x", "sum")>>, params |-> "esik" :> Sayi(1)]}
MCParamDeger == {Sayi(4)}
MCOlcu == {[fn |-> f, kolon |-> "x"] : f \in {"count", "sum", "max", "countDistinct"}}

-----------------------------------------------------------------------------
(* Courses of action: tracks on, near and far from a protected place, friends  *)
(* and foes, approaching and not; platforms of three domains, one not ready,   *)
(* one without a position.                                                     *)
IzSat(k, s, sk, r) == [konum |-> k, alan |-> "Hava", sinif |-> s, skor |-> sk, rota |-> r]
MCIzSatiri == {IzSat(0, "Dusman", 80, 1), IzSat(0, "Dost", 80, 1), IzSat(70, "Dusman", 90, 1),
               IzSat(70, "Dusman", 80, -1), IzSat(0, "Dost", SifirKonum, 1)}
Plat(k, a, h) == [konum |-> k, alan |-> a, hazir |-> h]
MCPlatformSatiri == {Plat(10, "Hava", TRUE), Plat(10, "Kara", FALSE), Plat(90, "Hava", TRUE),
                     Plat(90, "Deniz", TRUE), Plat(SifirKonum, "Hava", TRUE)}
MCRoe == {[dost |-> d, kimlikGerekli |-> b, guven |-> g, esik |-> e] :
             d \in {{"Dost"}, {}}, b \in BOOLEAN, g \in {50, 60}, e \in {20, 55}}

-----------------------------------------------------------------------------
(* Plans: two tasks, one of them the engagement, and short histories.  The     *)
(* state in which an object of sensorToShooter was stored too late is checked  *)
(* and not explored.                                                           *)
MCGorev == {g1, g2}
MCEk == {0}
MCSenaryo == {s1}
MCBirOkuyucu == {r1}
Yarissiz == ~bayat

-----------------------------------------------------------------------------
Ilki(S) == CHOOSE e \in S : TRUE

MCInit ==
    /\ konu \in {"boru", "ifade", "nesne", "mercek", "coa", "plan"}
    /\ konu = "boru" \/ (kaynak = Ilki(Tablo) /\ oteki = Ilki(OtekiTablo) /\ degerler = Ilki(Parametre))
    /\ BoruInit
    /\ (kaynak = Ilki(Tablo)) = (oteki = Ilki(OtekiTablo))
    /\ konu = "ifade" \/ (agac = Ilki(IlkYaprak) /\ toplamli = FALSE /\ grup = Ilki(IfadeGrup))
    /\ IfadeInit
    /\ konu = "nesne" \/ kok = MCBilinmeyen
    /\ konu = "nesne" \/ (konu = "mercek" /\ veri \in MCLensVeri) \/ veri = Ilki(Veri)
    /\ NesneInit
    /\ konu = "mercek" \/ belge = MCBosBelge
    /\ LensInit
    \* Every other picture is reached from this one.
    /\ izler = [i \in CoaIz |-> IzSat(0, "Dost", SifirKonum, 1)]
    /\ platformlar = [p \in Platform |-> Plat(SifirKonum, "Hava", TRUE)]
    /\ CoaInit
    /\ Init

MCNext ==
    /\ UNCHANGED konu
    /\ \/ /\ konu = "boru"
          /\ BoruNext
          /\ UNCHANGED <<ifadeVars, nesneVars, lensVars, coaVars, vars>>
       \/ /\ konu = "ifade"
          /\ IfadeNext
          /\ UNCHANGED <<boruVars, nesneVars, lensVars, coaVars, vars>>
       \/ /\ konu = "nesne"
          /\ NesneNext
          /\ UNCHANGED <<boruVars, ifadeVars, lensVars, coaVars, vars>>
       \/ /\ konu = "mercek"
          /\ LensNext
          /\ UNCHANGED <<boruVars, ifadeVars, nesneVars, coaVars, vars>>
       \/ /\ konu = "coa"
          /\ CoaNext
          /\ UNCHANGED <<boruVars, ifadeVars, nesneVars, lensVars, vars>>
       \/ /\ konu = "plan"
          /\ Next
          /\ UNCHANGED <<boruVars, ifadeVars, nesneVars, lensVars, coaVars>>

MCSpec == MCInit /\ [][MCNext]_<<konu, boruVars, ifadeVars, nesneVars, lensVars, coaVars, vars>>
=============================================================================
