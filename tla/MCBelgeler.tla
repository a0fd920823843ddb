------------------------------ MODULE MCBelgeler ------------------------------
(* Documents and the browser's views of what the server has, one part at a     *)
(* time: konu, chosen at the start, says which moves, and the others keep one   *)
(* initial state.                                                               *)
(*   store   a store of the server: two processes, two documents, the legacy    *)
(*           file holds the first                                               *)
(*   sayfa   the pages of analysis and lens documents in a browser              *)
(*   sohbet  the conversation with the assistant, whose tools store documents   *)
(*   pano    the dashboards in a browser, in which another one writes too         *)
(*   gorev   the drawer in which one task of a plan is edited                    *)
(*   graf    the canvas of the link graph: a unit, two persons and a track, with *)
(*           a link to itself, a dangling key and an empty one                   *)
EXTENDS SnapshotStore, DocumentPages, Assistant, GraphCanvas, DashboardPage, PlanPage, TLC

CONSTANTS s1, s2, belge1, belge2, b1

MCSurec == {s1, s2}
MCId == {belge1, belge2}
MCBelge == {b1}
MCEski == [id \in Id |-> IF id = belge1 THEN b1 ELSE Yok]

MCKayitli == {<<"harman", "d1">>, <<"mercek", "d1">>}

MCGrafBag ==
    [uyeler  |-> [kimden |-> "birlik",   kime |-> "personel", anahtar |-> "id",     hedefAnahtar |-> "birlik"],
     birligi |-> [kimden |-> "personel", kime |-> "birlik",   anahtar |-> "birlik", hedefAnahtar |-> "id"],
     izleri  |-> [kimden |-> "birlik",   kime |-> "iz",       anahtar |-> "id",     hedefAnahtar |-> "birlik"],
     amiri   |-> [kimden |-> "personel", kime |-> "personel", anahtar |-> "amir",   hedefAnahtar |-> "id"]]
MCCekirdek == {"uyeler", "birligi", "izleri"}
Birlik == <<"birlik", 1>> :> [id |-> "b1"]
Personel(n, id, birlik, amir) == <<"personel", n>> :> [id |-> id, birlik |-> birlik, amir |-> amir]
MCGrafVeri ==
    {Birlik @@ Personel(2, "p2", "b1", "p2") @@ Personel(3, "p3", "b1", "yok") @@ <<"iz", 4>> :> [birlik |-> "b1"],
     Birlik @@ Personel(2, "p2", "", "p3") @@ Personel(3, "p3", "b1", "")}

MCFormDeger == [ad |-> {"a", "b"}, baslangicDk |-> {"0", "9"},
                varlikId |-> {"f16", BosMetin}, muhimmat |-> {"gbu", BosMetin}]
MCIlkGorev == [ad |-> "a", baslangicDk |-> "9", varlikId |-> "f16", muhimmat |-> "gbu",
               tur |-> "FS", gecikmeDk |-> "5"]

\* The states after an edit may be lost are checked and not explored; a
\* conversation goes on after the first thing that may cost it, and the canvas
\* goes on after a change of the ontology while nothing is in flight.
Sebepsiz ==
    /\ kayipNedeni = {} /\ panoSebep = {} /\ planSebep = {} /\ Cardinality(kusur) <= 1
    /\ agSebep = {} \/ (agSebep = {"ontoloji"} /\ Dingin /\ istek <= 1)

-----------------------------------------------------------------------------
VARIABLE konu

MCInit ==
    /\ konu \in {"store", "sayfa", "sohbet", "graf", "pano", "gorev"}
    /\ Init /\ BelgeInit /\ SohbetInit /\ TuvalInit /\ PanoInit /\ PlanInit
    /\ konu # "store" => kova /\ dosya = Yok
    /\ arka = "bellek" <=> etkin = Cekirdek
    /\ konu # "pano" => ekran.aktif = Sistem
    /\ konu # "graf" => arka = "neo" /\ Cardinality(Nesneler) = 3

MCNext ==
    /\ UNCHANGED konu
    /\ \/ /\ konu = "store"
          /\ Next
          /\ UNCHANGED <<belgeVars, sohbetVars, tuvalVars, panoVars, planVars>>
       \/ /\ konu = "sayfa"
          /\ BelgeNext
          /\ UNCHANGED <<vars, sohbetVars, tuvalVars, panoVars, planVars>>
       \/ /\ konu = "sohbet"
          /\ SohbetNext
          /\ UNCHANGED <<vars, belgeVars, tuvalVars, panoVars, planVars>>
       \/ /\ konu = "graf"
          /\ TuvalNext
          /\ UNCHANGED <<vars, belgeVars, sohbetVars, panoVars, planVars>>
       \/ /\ konu = "pano"
          /\ PanoNext
          /\ UNCHANGED <<vars, belgeVars, sohbetVars, tuvalVars, planVars>>
       \/ /\ konu = "gorev"
          /\ PlanNext
          /\ UNCHANGED <<vars, belgeVars, sohbetVars, tuvalVars, panoVars>>

MCSpec == MCInit /\ [][MCNext]_<<konu, vars, belgeVars, sohbetVars, tuvalVars, panoVars, planVars>>
=============================================================================
