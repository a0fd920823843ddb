------------------------------ MODULE PlanHistory ------------------------------
(***************************************************************************)
(* What undo and redo of an operation plan promise: one line of plan       *)
(* versions with a cursor.  A change goes on from the cursor and drops     *)
(* what lay ahead; undo and redo only move the cursor.  The service may    *)
(* forget versions at either end, never change or reorder them, and keeps  *)
(* no more than Azami besides the present one.                             *)
(***************************************************************************)
EXTENDS Sequences, Naturals

CONSTANTS Icerik, Yok, Azami

VARIABLES cizgi, imlec

vars == <<cizgi, imlec>>

Init == cizgi = <<Yok>> /\ imlec = 1

\* The plan is derived.
Kur ==
    /\ cizgi = <<Yok>>
    /\ \E k \in Icerik : cizgi' = <<k>>
    /\ UNCHANGED imlec

\* A change: a new version after the present one ends the line; the oldest may fall out.
Degistir ==
    /\ imlec' \in 2 .. Azami + 1
    /\ imlec' = Len(cizgi')
    /\ cizgi'[imlec'] \in Icerik
    /\ \E a \in 1 .. imlec : cizgi' = Append(SubSeq(cizgi, a, imlec), cizgi'[imlec'])

Geri == imlec > 1 /\ imlec' = imlec - 1 /\ UNCHANGED cizgi

Ileri == imlec < Len(cizgi) /\ imlec' = imlec + 1 /\ UNCHANGED cizgi

Unut ==
    \E a \in 1 .. imlec, b \in imlec .. Len(cizgi) :
        /\ cizgi' = SubSeq(cizgi, a, b)
        /\ imlec' = imlec - a + 1

Next == Kur \/ Degistir \/ Geri \/ Ileri \/ Unut

Spec == Init /\ [][Next]_vars
=============================================================================
