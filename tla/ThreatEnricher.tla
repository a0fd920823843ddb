---------------------------- MODULE ThreatEnricher ----------------------------
(***************************************************************************)
(* reasoning-enricher: the process that scores the active tracks every few *)
(* seconds and writes the scores back into object_item_threat.             *)
(*                                                                         *)
(* A round reads (three queries in transactions of their own), prunes rows *)
(* not refreshed for a while, and upserts the scores in one statement.     *)
(* Any query may fail: the round is given up and the next one tries again. *)
(* A score is what its track's sources said when they were read; how the   *)
(* sources make a number is left out.                                      *)
(***************************************************************************)
EXTENDS Naturals

CONSTANTS
    Iz,        \* tracks
    Tolerans,  \* age at which a row is pruned (90 seconds)
    MaxAn,     \* bound: ticks of the clock
    MaxSurum,  \* bound: versions of what a track's sources say
    Yoktur     \* no row, no round

ASSUME ToleransVarsayim == Tolerans \in Nat

\* object_item_threat: a row of the table.
TehditSatiri == [skor : Nat, scored_at : Nat]

ASSUME YokturVarsayim == Yoktur \notin TehditSatiri

VARIABLES
    an,        \* the database's now()
    durum,     \* track -> version of what its sources say
    aktif,     \* the tracks with an observation in the window
    tehdit,    \* object_item_threat: track -> [skor, scored_at], or Yoktur
    dongu,     \* the round in hand: what it has read and whether it has pruned
    sonYazim,  \* history: when a round last wrote, and which tracks
    sonBudama  \* history: when a round last got past pruning

enrVars == <<an, durum, aktif, tehdit, dongu, sonYazim, sonBudama>>

-----------------------------------------------------------------------------
\* aktifIzler, dostVarliklar, istihbaratHaritasi.
Okur ==
    /\ dongu = Yoktur
    /\ dongu' = [izler |-> [i \in aktif |-> durum[i]], budandi |-> FALSE]
    /\ UNCHANGED <<an, durum, aktif, tehdit, sonYazim, sonBudama>>

Eskimis(i) == tehdit[i] # Yoktur /\ tehdit[i].scored_at + Tolerans < an

\* Mutant of Budanan: nothing is pruned when no track is active.
BudananBossaHic == IF DOMAIN dongu.izler = {} THEN {} ELSE {i \in Iz : Eskimis(i)}

Budanan == {i \in Iz : Eskimis(i)}

\* The DELETE, which also runs when there is nothing to score; then the round is over.
Budar ==
    /\ dongu # Yoktur /\ ~dongu.budandi
    /\ tehdit' = [i \in Iz |-> IF i \in Budanan THEN Yoktur ELSE tehdit[i]]
    /\ dongu' = IF DOMAIN dongu.izler = {} THEN Yoktur ELSE [dongu EXCEPT !.budandi = TRUE]
    /\ sonBudama' = an
    /\ UNCHANGED <<an, durum, aktif, sonYazim>>

\* INSERT ... ON CONFLICT DO UPDATE SET ..., scored_at = now()
Satir(i) == [skor |-> dongu.izler[i], scored_at |-> an]

Yazar ==
    /\ dongu # Yoktur /\ dongu.budandi
    /\ tehdit' = [i \in Iz |-> IF i \in DOMAIN dongu.izler THEN Satir(i) ELSE tehdit[i]]
    /\ dongu' = Yoktur
    /\ sonYazim' = [an |-> an, izler |-> dongu.izler]
    /\ UNCHANGED <<an, durum, aktif, sonBudama>>

\* A query of the round fails (and did not take effect), or the process stops.
DonguDuser ==
    /\ dongu # Yoktur
    /\ dongu' = Yoktur
    /\ UNCHANGED <<an, durum, aktif, tehdit, sonYazim, sonBudama>>

\* Ingest: a track comes into the window or leaves it, its sources say something new.
IzDegisir ==
    /\ \E i \in Iz :
          \/ aktif' = aktif \cup {i} /\ i \notin aktif /\ UNCHANGED durum
          \/ aktif' = aktif \ {i} /\ i \in aktif /\ UNCHANGED durum
          \/ /\ durum[i] < MaxSurum
             /\ durum' = [durum EXCEPT ![i] = @ + 1] /\ UNCHANGED aktif
    /\ UNCHANGED <<an, tehdit, dongu, sonYazim, sonBudama>>

AnIlerler ==
    /\ an < MaxAn /\ an' = an + 1
    /\ UNCHANGED <<durum, aktif, tehdit, dongu, sonYazim, sonBudama>>

EnrInit ==
    /\ an = 0
    /\ durum = [i \in Iz |-> 1]
    /\ aktif \in SUBSET Iz
    /\ tehdit = [i \in Iz |-> Yoktur]
    /\ dongu = Yoktur
    /\ sonYazim = [an |-> 0, izler |-> [i \in {} |-> 1]]
    /\ sonBudama = 0

EnrNext == Okur \/ Budar \/ Yazar \/ DonguDuser \/ IzDegisir \/ AnIlerler

EnrSpec == EnrInit /\ [][EnrNext]_enrVars

-----------------------------------------------------------------------------
\* The table is the live picture: what the last completed round scored is there for as
\* long as the tolerance, and nothing is there that was already too old at the last
\* pruning, whichever queries failed (the comment on pruning in every round).
ResimCanli ==
    /\ \A i \in DOMAIN sonYazim.izler :
          an <= sonYazim.an + Tolerans => tehdit[i] # Yoktur
    /\ \A i \in Iz :
          tehdit[i] # Yoktur => tehdit[i].scored_at + Tolerans >= sonBudama

=============================================================================
