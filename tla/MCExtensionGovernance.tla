----------------------- MODULE MCExtensionGovernance -----------------------
(* Values for model checking ExtensionGovernance (a full body, one without *)
(* the link, and one whose JSON leaves linkTypes out altogether) and       *)
(* OntologyAdmission; konu, chosen at the start, says which of them moves. *)
EXTENDS ExtensionGovernance, OntologyAdmission

CONSTANTS ali, veli, tam, dar, eksik, tesis, bag, pano

MCKisi == {ali, veli}
MCIcerik == {tam, dar, eksik}
MCAd == {tesis, bag}
MCOgeler == [c \in Icerik |->
    [tip |-> {tesis}, link |-> IF c = tam THEN {bag} ELSE {}, tam |-> c # eksik]]
MCBelge == {pano}
MCAtif == [b \in Belge |-> {bag}]

-----------------------------------------------------------------------------
(* Two builds, the second with a type an extension may have brought; one   *)
(* sound extension and its variations, each with one thing wrong, allowed  *)
(* or clashing; sources complete, without a dataset, and with a column gone.*)
Oz(ad, tur) == [ad |-> ad, tur |-> tur]
Tip(ad, veri, pk, ozellik) == [ad |-> ad, veri |-> veri, pk |-> pk, ozellik |-> ozellik]
Bag(ad, kimden, kime, ka, kb) ==
    [ad |-> ad, kimden |-> kimden, kime |-> kime, kimdenAnahtar |-> ka, kimeAnahtar |-> kb, sayi |-> "one"]
Onto(tipler, linkler) == [tipler |-> tipler, linkler |-> linkler]

Birlik == Tip("birlik", "birlikler", "no", <<Oz("no", "string")>>)
Ust == Bag("ust", "birlik", "birlik", "no", "no")
Tesis == Tip("tesis", "tesisler", "no", <<Oz("no", "string"), Oz("b", "string")>>)
Yer == Bag("yer", "tesis", "birlik", "b", "no")
MCCekirdekler == {Onto(<<Birlik>>, <<Ust>>), Onto(<<Birlik, Tesis>>, <<Ust>>)}

TipSecenek ==
    {<<Tesis>>, <<[Tesis EXCEPT !.veri = "yok"]>>, <<[Tesis EXCEPT !.pk = "x"]>>,
     <<[Tesis EXCEPT !.ozellik[2].tur = "double"]>>, <<[Tesis EXCEPT !.ozellik = << >>]>>,
     <<[Tesis EXCEPT !.ozellik = <<Oz("no", "string")>>]>>,
     <<Tesis, [Tesis EXCEPT !.veri = "birlikler", !.ozellik = <<Oz("no", "string")>>]>>}
LinkSecenek ==
    {<<Yer>>, <<[Yer EXCEPT !.ad = "ust"]>>, <<[Yer EXCEPT !.kimdenAnahtar = "x"]>>,
     <<[Yer EXCEPT !.kime = "hat"]>>, <<[Yer EXCEPT !.ad = "tesis__no"]>>,
     <<Yer, [Yer EXCEPT !.kime = "tesis"]>>}
MCUzantilar ==
    {Onto(t, <<Yer>>) : t \in TipSecenek} \cup {Onto(<<Tesis>>, l) : l \in LinkSecenek}
    \cup {Onto(<< >>, <<[Yer EXCEPT !.kimden = "birlik", !.kimdenAnahtar = "no"]>>)}

Kolonlar(k) == [c \in k |-> "string"]
MCKataloglar ==
    {[birlikler |-> Kolonlar({"no"}), tesisler |-> Kolonlar({"no", "b"})],
     [tesisler |-> Kolonlar({"no", "b"})],
     [birlikler |-> Kolonlar({"no"}), tesisler |-> Kolonlar({"no"})]}

-----------------------------------------------------------------------------
VARIABLE konu

MCInit ==
    /\ konu \in {"surum", "kabul"}
    /\ Init /\ KabulInit
    /\ konu = "kabul" \/ (~mim /\ ~bayrak /\ cekirdek = Onto(<<Birlik>>, <<Ust>>)
                            /\ DOMAIN katalog = {"tesisler"})

MCNext ==
    /\ UNCHANGED konu
    /\ \/ konu = "surum" /\ Next /\ UNCHANGED kabulVars
       \/ konu = "kabul" /\ KabulNext /\ UNCHANGED vars

MCSpec == MCInit /\ [][MCNext]_<<konu, vars, kabulVars>>
=============================================================================
