------------------------------- MODULE MCSunucu -------------------------------
(* The server's services that share no state, in one run: konu, chosen at the  *)
(* start, says which of them moves, and the others keep one initial state.     *)
EXTENDS LiveDefinitions, MCLiveResolution, Alerts, TtlMemo, ThreatEnricher, AuditLog

CONSTANTS u1, u2

VARIABLE konu   \* the service this behaviour is about

Konular == {"tanim", "cozum", "alarm", "memo", "tehdit", "defter"}

hepsi == <<vars, cozumVars, alarmVars, memoVars, enrVars, defterVars>>

\* One rule that both rule ids may hold.
MCKural == {[enabled |-> TRUE, operator |-> "gt", threshold |-> 0, cooldown |-> 1]}

MCUc == {u1, u2}

DurganAlarm == kurallar = [i \in KuralId |-> Hic] /\ sayi = 0

MCInit ==
    /\ konu \in Konular
    /\ Init /\ CozumInit /\ AlarmInit /\ MemoInit /\ EnrInit /\ DefterInit
    /\ konu = "alarm" \/ DurganAlarm
    /\ konu = "tehdit" \/ aktif = {}

MCNext ==
    /\ UNCHANGED konu
    /\ \/ /\ konu = "tanim"
          /\ Next
          /\ UNCHANGED <<cozumVars, alarmVars, memoVars, enrVars, defterVars>>
       \/ /\ konu = "cozum"
          /\ CozumNext
          /\ UNCHANGED <<vars, alarmVars, memoVars, enrVars, defterVars>>
       \/ /\ konu = "alarm"
          /\ AlarmNext
          /\ UNCHANGED <<vars, cozumVars, memoVars, enrVars, defterVars>>
       \/ /\ konu = "memo"
          /\ MemoNext
          /\ UNCHANGED <<vars, cozumVars, alarmVars, enrVars, defterVars>>
       \/ /\ konu = "tehdit"
          /\ EnrNext
          /\ UNCHANGED <<vars, cozumVars, alarmVars, memoVars, defterVars>>
       \/ /\ konu = "defter"
          /\ DefterNext
          /\ UNCHANGED <<vars, cozumVars, alarmVars, memoVars, enrVars>>

\* CozumAdil and AlarmFair, each where its service moves.
MCAdil ==
    /\ \A d \in Tanim, v \in 1 .. MaxVeri :
          WF_cozumVars(konu = "cozum" /\ \E k \in kosumlar : Anahtar(k) = <<d, v>> /\ KosumAdim(k))
    /\ WF_alarmVars(konu = "alarm" /\ \E c \in Cagri : Degerlendir(c))
    /\ WF_alarmVars(konu = "alarm" /\ ZilYoklar)

MCSpec == MCInit /\ [][MCNext]_<<konu, hepsi>> /\ MCAdil
=============================================================================
