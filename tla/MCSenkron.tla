------------------------------ MODULE MCSenkron ------------------------------
(* Edits of a plan, and one operator's timeline over it: konu, chosen at the   *)
(* start, says which.                                                          *)
(* Three tasks of different length, one a milestone, one perhaps finished, on  *)
(* a short time axis, with every dependency in either direction.               *)
EXTENDS GanttTimeline

CONSTANTS hava, kara

MCVarlik == {"f16"}
MCGorev == 1 .. 3
MCAlan == {hava, kara}
MCBasMin == -1
MCIstenen == {-1, 2}
MCBagTur == {[tur |-> "FS", lag |-> -1], [tur |-> "SS", lag |-> 1]}
MCIlk ==
    {[gorev |-> [g \in Gorev |->
          [bas |-> 0, sure |-> <<2, 1, 0>>[g], alan |-> IF g = 1 THEN hava ELSE kara,
           varlik |-> IF g = 3 /\ birinci = "tamam" THEN Varliksiz ELSE "f16",
           durum |-> IF g = 1 THEN birinci ELSE IF g = 2 THEN "planli" ELSE "gecikme"]],
      bag |-> {}] : birinci \in {"icrada", "tamam"}}

\* On the screen: a chain through a domain that may be hidden, and a shortcut.
Bag(p, s, t, l) == [once |-> p, sonra |-> s, tur |-> t, lag |-> l]

MCGanttIlk ==
    {[gorev |-> [g \in Gorev |->
          [bas |-> <<0, 1, 1>>[g], sure |-> <<2, 1, 0>>[g], alan |-> IF g = 2 THEN hava ELSE kara,
           varlik |-> Varliksiz,
           durum |-> IF g = 3 THEN son ELSE "planli"]],
      bag |-> {Bag(1, 2, "FS", -1), Bag(2, 3, "FS", -1), Bag(1, 3, "SS", 1)}] :
        son \in {"icrada", "tamam"}}

\* The states after a cause is noted are checked and not explored.
Sebepsiz == neden = {}

-----------------------------------------------------------------------------
VARIABLE konu

ekranVars == <<kopya, gizli, surukle, istek, optBas, kalan, neden>>

MCInit ==
    \/ /\ konu = "senkron"
       /\ Init
       /\ kopya = plan /\ gizli = {} /\ surukle = <<>> /\ istek = {} /\ optBas = <<>>
       /\ kalan = [birak |-> 0, baska |-> 0] /\ neden = {}
    \/ /\ konu = "ekran"
       /\ GanttInit

MCNext ==
    /\ UNCHANGED konu
    /\ \/ /\ konu = "senkron"
          /\ Next
          /\ UNCHANGED ekranVars
       \/ /\ konu = "ekran"
          /\ GanttNext

MCSpec == MCInit /\ [][MCNext]_<<konu, ganttVars>>
=============================================================================
