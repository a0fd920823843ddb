-------------------------------- MODULE Alerts --------------------------------
(***************************************************************************)
(* AlertsService and the bell of the client.                               *)
(*                                                                         *)
(* A round (evaluateAll) is started by the timer or by POST                *)
(* /alerts/evaluate, works on the rule objects listRules returned, and     *)
(* waits for one count query at a time; rules are edited and removed       *)
(* meanwhile.  The bell polls the events, shows the newest ones and        *)
(* acknowledges what its user presses.  Rules survive a restart (module    *)
(* SnapshotStore), everything else is in memory.  The count query answers  *)
(* with whatever the data hold (sayi); windows, texts and the delivery     *)
(* over webhook and e-mail, which nothing waits for, are left out.         *)
(***************************************************************************)
EXTENDS Sequences, Naturals, SequencesExt

CONSTANTS
    KuralId,     \* rule ids
    Kural,       \* rules: [enabled, operator, threshold, cooldown]
    Deger,       \* what a count query may return
    Cagri,       \* callers of evaluateAll: the timer, a request
    OlayTavan,   \* events kept (500)
    ZilSinir,    \* events the bell asks for (30)
    MaxAlarmSaat,     \* bound: ticks of the clock
    MaxDegisim,  \* bound: edits of rules, removals, changes of the data, presses
    MaxAriza,    \* bound: failing queries and restarts
    Hic          \* no rule, no time, no answer

ASSUME OlayTavanVarsayim == OlayTavan \in Nat \ {0} /\ ZilSinir \in Nat \ {0}
ASSUME KuralVarsayim ==
    /\ Deger \subseteq Nat
    /\ Kural \subseteq [enabled : BOOLEAN, operator : {"gt", "gte", "lt", "lte"},
                        threshold : Nat, cooldown : Nat]
    /\ Hic \notin Kural

VARIABLES
    kurallar,        \* AlertRulesStore: rule id -> rule, or Hic
    sayi,            \* what a count query would return now
    evaluating,
    tur,             \* caller -> its round, or Hic
    lastFired,       \* rule id -> time, or Hic
    events,          \* newest first
    zil,             \* the bell: the events it shows, or Hic before the first answer
    istek,           \* the bell's poll, or Hic: cevap is Hic until the server has answered
    alarmSaat,
    degisim, ariza   \* the bounded counters

alarmVars == <<kurallar, sayi, evaluating, tur, lastFired, events, zil, istek, alarmSaat,
               degisim, ariza>>

\* AlertEvent.  once is history: what lastFired held when the event was made.
Olay == [ruleId : KuralId, firedAt : Nat, acknowledged : BOOLEAN,
         cooldown : Nat, once : Nat \cup {Hic}]

Asildi(k, v) ==
    \/ k.operator = "gt" /\ v > k.threshold
    \/ k.operator = "gte" /\ v >= k.threshold
    \/ k.operator = "lt" /\ v < k.threshold
    \/ k.operator = "lte" /\ v <= k.threshold

-----------------------------------------------------------------------------
(***************************************************************************)
(* The rounds.                                                             *)
(***************************************************************************)
SorguYok == [id |-> Hic, simdi |-> 0]

\* Mutant of EvaluateAll: a round does not look whether another one is at work.
EvaluateAllHerZaman(c) ==
    /\ tur[c] = Hic
    /\ evaluating' = TRUE
    /\ tur' = [tur EXCEPT ![c] =
          [kalan |-> [i \in {j \in KuralId : kurallar[j] # Hic /\ kurallar[j].enabled}
                         |-> kurallar[i]],
           sorgu |-> SorguYok]]
    /\ UNCHANGED <<kurallar, sayi, lastFired, events, zil, istek, alarmSaat, degisim, ariza>>

\* evaluateAll: the rules as they are now, the enabled ones; sorgu is the rule whose
\* query is in flight, with the time read before it.
EvaluateAll(c) ==
    /\ tur[c] = Hic /\ ~evaluating
    /\ evaluating' = TRUE
    /\ tur' = [tur EXCEPT ![c] =
          [kalan |-> [i \in {j \in KuralId : kurallar[j] # Hic /\ kurallar[j].enabled}
                         |-> kurallar[i]],
           sorgu |-> SorguYok]]
    /\ UNCHANGED <<kurallar, sayi, lastFired, events, zil, istek, alarmSaat, degisim, ariza>>

Sogudu(k, son, simdi) == son = Hic \/ simdi - son >= k.cooldown

\* The rule is no longer this round's business.
Gecilir(c, i) == [tur[c] EXCEPT !.kalan = [j \in DOMAIN @ \ {i} |-> @[j]], !.sorgu = SorguYok]

\* evaluateRule up to its await, or its early return during the cooldown.
KuralaBak(c) ==
    /\ tur[c] # Hic /\ tur[c].sorgu = SorguYok
    /\ \E i \in DOMAIN tur[c].kalan :
          tur' = [tur EXCEPT ![c] =
              IF Sogudu(tur[c].kalan[i], lastFired[i], alarmSaat)
              THEN [@ EXCEPT !.sorgu = [id |-> i, simdi |-> alarmSaat]]
              ELSE Gecilir(c, i)]
    /\ UNCHANGED <<kurallar, sayi, evaluating, lastFired, events, zil, istek, alarmSaat,
                   degisim, ariza>>

\* The query answers: the rest of evaluateRule.
Cevaplandi(c) ==
    /\ tur[c] # Hic /\ tur[c].sorgu # SorguYok
    /\ LET i == tur[c].sorgu.id
           k == tur[c].kalan[i]
           simdi == tur[c].sorgu.simdi
           olay == [ruleId |-> i, firedAt |-> simdi, acknowledged |-> FALSE,
                    cooldown |-> k.cooldown, once |-> lastFired[i]]
       IN /\ tur' = [tur EXCEPT ![c] = Gecilir(c, i)]
          /\ IF Asildi(k, sayi)
             THEN /\ lastFired' = [lastFired EXCEPT ![i] = simdi]
                  /\ events' = SubSeq(<<olay>> \o events, 1,
                                      IF Len(events) < OlayTavan THEN Len(events) + 1
                                                                 ELSE OlayTavan)
             ELSE UNCHANGED <<lastFired, events>>
    /\ UNCHANGED <<kurallar, sayi, evaluating, zil, istek, alarmSaat, degisim, ariza>>

\* The query throws: logged, the round goes on.
SorguPatladi(c) ==
    /\ tur[c] # Hic /\ tur[c].sorgu # SorguYok
    /\ ariza < MaxAriza /\ ariza' = ariza + 1
    /\ tur' = [tur EXCEPT ![c] = Gecilir(c, tur[c].sorgu.id)]
    /\ UNCHANGED <<kurallar, sayi, evaluating, lastFired, events, zil, istek, alarmSaat, degisim>>

\* Mutant of TurBitti: the flag is not taken back.
TurBittiBayrakli(c) ==
    /\ tur[c] # Hic /\ DOMAIN tur[c].kalan = {}
    /\ tur' = [tur EXCEPT ![c] = Hic]
    /\ UNCHANGED <<kurallar, sayi, evaluating, lastFired, events, zil, istek, alarmSaat,
                   degisim, ariza>>

TurBitti(c) ==
    /\ tur[c] # Hic /\ DOMAIN tur[c].kalan = {}
    /\ tur' = [tur EXCEPT ![c] = Hic]
    /\ evaluating' = FALSE
    /\ UNCHANGED <<kurallar, sayi, lastFired, events, zil, istek, alarmSaat, degisim, ariza>>

-----------------------------------------------------------------------------
(***************************************************************************)
(* Requests.                                                               *)
(***************************************************************************)
Degisir == degisim < MaxDegisim /\ degisim' = degisim + 1

UpsertRule(i) ==
    /\ Degisir
    /\ \E k \in Kural : kurallar[i] # k /\ kurallar' = [kurallar EXCEPT ![i] = k]
    /\ UNCHANGED <<sayi, evaluating, tur, lastFired, events, zil, istek, alarmSaat, ariza>>

DeleteRule(i) ==
    /\ Degisir
    /\ kurallar[i] # Hic
    /\ kurallar' = [kurallar EXCEPT ![i] = Hic]
    /\ lastFired' = [lastFired EXCEPT ![i] = Hic]
    /\ UNCHANGED <<sayi, evaluating, tur, events, zil, istek, alarmSaat, ariza>>

\* listEvents, as the bell asks for it; a new question replaces one on its way.
ListEvents == SubSeq(events, 1, IF Len(events) < ZilSinir THEN Len(events) ELSE ZilSinir)

Sorulan == [cevap |-> Hic]

ZilSorar ==
    /\ istek = Hic /\ istek' = Sorulan
    /\ UNCHANGED <<kurallar, sayi, evaluating, tur, lastFired, events, zil, alarmSaat, degisim,
                   ariza>>

ZilCevabi ==
    /\ istek = Sorulan /\ istek' = [cevap |-> ListEvents]
    /\ UNCHANGED <<kurallar, sayi, evaluating, tur, lastFired, events, zil, alarmSaat, degisim,
                   ariza>>

ZilGosterir ==
    /\ istek # Hic /\ istek.cevap # Hic
    /\ zil' = istek.cevap /\ istek' = Hic
    /\ UNCHANGED <<kurallar, sayi, evaluating, tur, lastFired, events, alarmSaat, degisim, ariza>>

\* acknowledge, acknowledgeAll; the bell asks again when the answer is there.  An
\* event is found by its id, which no other event has.
AyniOlay(a, b) == a.ruleId = b.ruleId /\ a.firedAt = b.firedAt

\* N: the events acknowledged.
Onaylanir(N) == [n \in DOMAIN events |->
    IF n \in N THEN [events[n] EXCEPT !.acknowledged = TRUE] ELSE events[n]]

Acknowledge ==
    /\ Degisir
    /\ zil # Hic
    /\ \E n \in DOMAIN zil :
          /\ ~zil[n].acknowledged
          /\ events' = Onaylanir({k \in DOMAIN events : AyniOlay(events[k], zil[n])})
    /\ istek' = Sorulan
    /\ UNCHANGED <<kurallar, sayi, evaluating, tur, lastFired, zil, alarmSaat, ariza>>

AcknowledgeAll ==
    /\ Degisir
    /\ zil # Hic /\ \E n \in DOMAIN zil : ~zil[n].acknowledged
    /\ events' = Onaylanir(DOMAIN events)
    /\ istek' = Sorulan
    /\ UNCHANGED <<kurallar, sayi, evaluating, tur, lastFired, zil, alarmSaat, ariza>>

-----------------------------------------------------------------------------
(***************************************************************************)
(* The world.                                                              *)
(***************************************************************************)
VeriDegisir ==
    /\ Degisir
    /\ sayi' \in Deger \ {sayi}
    /\ UNCHANGED <<kurallar, evaluating, tur, lastFired, events, zil, istek, alarmSaat, ariza>>

SaatIlerler ==
    /\ alarmSaat < MaxAlarmSaat /\ alarmSaat' = alarmSaat + 1
    /\ UNCHANGED <<kurallar, sayi, evaluating, tur, lastFired, events, zil, istek, degisim,
                   ariza>>

\* A restart takes time.
SunucuBaslar ==
    /\ ariza < MaxAriza /\ ariza' = ariza + 1
    /\ alarmSaat < MaxAlarmSaat /\ alarmSaat' = alarmSaat + 1
    /\ evaluating' = FALSE
    /\ tur' = [c \in Cagri |-> Hic]
    /\ lastFired' = [i \in KuralId |-> Hic]
    /\ events' = <<>>
    /\ istek' = IF istek = Sorulan THEN Hic ELSE istek
    /\ UNCHANGED <<kurallar, sayi, zil, degisim>>

AlarmInit ==
    /\ kurallar \in [KuralId -> Kural \cup {Hic}]
    /\ sayi \in Deger
    /\ evaluating = FALSE
    /\ tur = [c \in Cagri |-> Hic]
    /\ lastFired = [i \in KuralId |-> Hic]
    /\ events = <<>>
    /\ zil = Hic /\ istek = Hic
    /\ alarmSaat = 0 /\ degisim = 0 /\ ariza = 0

Degerlendir(c) == EvaluateAll(c) \/ KuralaBak(c) \/ Cevaplandi(c) \/ TurBitti(c)

ZilYoklar == ZilSorar \/ ZilCevabi \/ ZilGosterir

AlarmNext ==
    \/ \E c \in Cagri : Degerlendir(c) \/ SorguPatladi(c)
    \/ \E i \in KuralId : UpsertRule(i) \/ DeleteRule(i)
    \/ ZilYoklar \/ Acknowledge \/ AcknowledgeAll
    \/ VeriDegisir \/ SaatIlerler \/ SunucuBaslar

\* The interval timer keeps starting rounds, a count query returns or throws, the
\* bell keeps polling (a query that hangs for ever ends the rounds).  A request to
\* evaluate may stop coming; whoever holds the round goes on with it.
AlarmFair ==
    /\ WF_alarmVars(\E c \in Cagri : Degerlendir(c))
    /\ WF_alarmVars(ZilYoklar)

AlarmSpec == AlarmInit /\ [][AlarmNext]_alarmVars /\ AlarmFair

-----------------------------------------------------------------------------
\* A rule does not fire again before its cooldown is over, however its rounds, edits
\* and removals overlap (evaluateAll's flag and the time read before the query);
\* only a removal of the rule and a restart forget the last firing.
SogumaKorunur ==
    \A n \in DOMAIN events :
        events[n].once # Hic => events[n].firedAt - events[n].once >= events[n].cooldown

KuralHazir(i) ==
    /\ kurallar[i] # Hic /\ kurallar[i].enabled
    /\ Asildi(kurallar[i], sayi)
    /\ Sogudu(kurallar[i], lastFired[i], alarmSaat)

\* A rule that is breached and not cooling down fires, unless that changes first; and
\* an event among the newest comes to be shown by the bell, unless newer ones push it
\* out or the server forgets it.
AlarmUlasir ==
    /\ \A i \in KuralId : KuralHazir(i) ~> ~KuralHazir(i)
    /\ \A i \in KuralId, t \in 0 .. MaxAlarmSaat :
          LET Var(l) == \E n \in DOMAIN l : l[n].ruleId = i /\ l[n].firedAt = t
          IN Var(ListEvents) ~> (~Var(ListEvents) \/ (zil # Hic /\ Var(zil)))

=============================================================================
