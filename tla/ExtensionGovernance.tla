------------------------- MODULE ExtensionGovernance -------------------------
(***************************************************************************)
(* The life cycle of ontology extensions: GovernanceService over           *)
(* OntologyExtStore and OntologyAudit.                                     *)
(*                                                                         *)
(* A version moves taslak / dogrulandi -> onayli -> aktif -> arsiv.  Every *)
(* handler below the admission pipeline runs without an await, so each is  *)
(* one atomic step; yukle awaits stages 1-3 first, but reads the store     *)
(* only afterwards (stage 4 and ekle), so it is one step as well.          *)
(*                                                                         *)
(* The store is the local-file deployment: flush is a synchronous write of *)
(* the whole array, so memory and file agree between handlers and a        *)
(* restart reloads what was there.  The bucket deployment, where flush is  *)
(* not awaited, is the subject of module SnapshotStore.                    *)
(***************************************************************************)
EXTENDS Integers, Sequences, FiniteSets

CONSTANTS
    Kisi,       \* the users that call the administration endpoints
    Icerik,     \* candidate extension bodies
    Ad,         \* apiNames of extension types and links
    Ogeler,     \* body -> its type and link names, and whether both lists are there
    Belge,      \* saved Mercek / Harman / alarm / dashboard documents
    Atif,       \* document -> the extension names its JSON mentions
    Yok,        \* no approver yet
    MaxSurum,   \* bound: versions uploaded in one run
    MaxDenetim  \* bound: audit records written in one run

ASSUME KisiVarsayim == Yok \notin Kisi
ASSUME OgelerVarsayim ==
    Ogeler \in [Icerik -> [tip : SUBSET Ad, link : SUBSET Ad, tam : BOOLEAN]]
ASSUME AtifVarsayim == Atif \in [Belge -> SUBSET Ad]
ASSUME SinirVarsayim == MaxSurum \in Nat /\ MaxDenetim \in Nat

VARIABLES
    surumler,   \* the stored versions; version number i is position i
    belgeler,   \* the documents the four artefact stores hold
    denetim     \* the audit file, oldest record first

vars == <<surumler, belgeler, denetim>>

Durum == {"taslak", "dogrulandi", "onayli", "aktif", "arsiv"}

Surum == [icerik : Icerik, durum : Durum, yukleyen : Kisi,
          onaylayan : Kisi \cup {Yok}]

Kayit == [kim : Kisi, surum : Nat \ {0},
          eylem : {"yukle", "onayla", "reddet", "aktiflestir", "rollback", "cekirdek"}]

-----------------------------------------------------------------------------
(***************************************************************************)
(* The store's reads.                                                      *)
(***************************************************************************)
Aktifler == {s \in DOMAIN surumler : surumler[s].durum = "aktif"}

\* OntologyExtStore.aktif(): the number of the first active version, 0 if none.
AktifSurum ==
    IF Aktifler = {} THEN 0 ELSE CHOOSE s \in Aktifler : \A t \in Aktifler : s <= t

\* Mutant of Oncekiler: rollback may also move forward.
OncekilerHepsi == {s \in DOMAIN surumler : surumler[s].durum = "arsiv"}

\* The archived versions geriDon may fall back to.
Oncekiler == {s \in DOMAIN surumler : surumler[s].durum = "arsiv" /\ s < AktifSurum}

-----------------------------------------------------------------------------
(***************************************************************************)
(* Stage 4, the impact analysis, on the raw body (not on the parsed one):  *)
(* it throws on a body, or on an active body, that leaves a list out.      *)
(***************************************************************************)
Kismi(c) == ~Ogeler[c].tam

Silinen(aday, aktif) ==
    (Ogeler[aktif].tip \ Ogeler[aday].tip) \cup (Ogeler[aktif].link \ Ogeler[aday].link)

Etkilenen(adlar) == {b \in belgeler : Atif[b] \cap adlar # {}}

Kademe4Patlar(c) ==
    /\ AktifSurum # 0
    /\ Kismi(c) \/ Kismi(surumler[AktifSurum].icerik)

Kademe4Gecer(c) ==
    \/ AktifSurum = 0
    \/ Etkilenen(Silinen(c, surumler[AktifSurum].icerik)) = {}

-----------------------------------------------------------------------------
Denetle(kim, eylem, s) ==
    /\ Len(denetim) < MaxDenetim
    /\ denetim' = Append(denetim, [kim |-> kim, surum |-> s, eylem |-> eylem])

Ekle(c, kim, durum) ==
    surumler' = Append(surumler, [icerik |-> c, durum |-> durum, yukleyen |-> kim,
                                  onaylayan |-> Yok])

\* Mutant of TekAktifYap: the version in service is not archived.
ArsivlemedenYap(s) == surumler' = [surumler EXCEPT ![s].durum = "aktif"]

\* OntologyExtStore.aktiflestir: every active version is archived first.
TekAktifYap(s) ==
    surumler' = [t \in DOMAIN surumler |->
                    IF t = s THEN [surumler[t] EXCEPT !.durum = "aktif"]
                    ELSE IF surumler[t].durum = "aktif"
                         THEN [surumler[t] EXCEPT !.durum = "arsiv"]
                         ELSE surumler[t]]

(***************************************************************************)
(* yukle.  A body that fails stage 1 is not stored at all and changes      *)
(* nothing.  Stages 2 and 3 depend on the kernel and on the data sources,  *)
(* so their verdict is the environment's choice.                           *)
(***************************************************************************)
YukleTaslak(c, kim) ==
    /\ Len(surumler) < MaxSurum
    /\ Ekle(c, kim, "taslak")
    /\ Denetle(kim, "yukle", Len(surumler) + 1)
    /\ UNCHANGED belgeler

YukleDegerlendir(c, kim) ==
    /\ Len(surumler) < MaxSurum
    /\ ~Kademe4Patlar(c)
    /\ Ekle(c, kim, IF Kademe4Gecer(c) THEN "dogrulandi" ELSE "taslak")
    /\ Denetle(kim, "yukle", Len(surumler) + 1)
    /\ UNCHANGED belgeler

(***************************************************************************)
(* onayla: the four-eyes rule.  The uploader's own attempt leaves only an  *)
(* audit record.                                                           *)
(***************************************************************************)
\* Mutant of Onayla: the uploader is not compared with the approver.
OnaylaTekGoz(s, kim) ==
    /\ surumler[s].durum = "dogrulandi"
    /\ surumler' = [surumler EXCEPT ![s].durum = "onayli", ![s].onaylayan = kim]
    /\ Denetle(kim, "onayla", s)
    /\ UNCHANGED belgeler

Onayla(s, kim) ==
    /\ surumler[s].durum = "dogrulandi"
    /\ surumler[s].yukleyen # kim
    /\ surumler' = [surumler EXCEPT ![s].durum = "onayli", ![s].onaylayan = kim]
    /\ Denetle(kim, "onayla", s)
    /\ UNCHANGED belgeler

OnayReddet(s, kim) ==
    /\ surumler[s].durum = "dogrulandi"
    /\ surumler[s].yukleyen = kim
    /\ Denetle(kim, "reddet", s)
    /\ UNCHANGED <<surumler, belgeler>>

(***************************************************************************)
(* aktiflestir.  For a partial body the handler throws after these two     *)
(* writes, when it counts the new names: the state change stands.          *)
(***************************************************************************)
Aktiflestir(s, kim) ==
    /\ surumler[s].durum = "onayli"
    /\ TekAktifYap(s)
    /\ Denetle(kim, "aktiflestir", s)
    /\ UNCHANGED belgeler

\* Mutant of GeriDonSurume: the record names the version left, not the one
\* returned to.
GeriDonYanlisKayit(s, kim) ==
    /\ AktifSurum # 0
    /\ s \in Oncekiler
    /\ \A t \in Oncekiler : t <= s
    /\ TekAktifYap(s)
    /\ Denetle(kim, "rollback", AktifSurum)
    /\ UNCHANGED belgeler

\* geriDon with an archived version of a smaller number to fall back to:
\* tumSurumler() is sorted by descending number, so find() returns the largest.
GeriDonSurume(s, kim) ==
    /\ AktifSurum # 0
    /\ s \in Oncekiler
    /\ \A t \in Oncekiler : t <= s
    /\ TekAktifYap(s)
    /\ Denetle(kim, "rollback", s)
    /\ UNCHANGED belgeler

\* geriDon without one: the active version is archived, the kernel remains.
GeriDonCekirdege(kim) ==
    /\ AktifSurum # 0
    /\ Oncekiler = {}
    /\ surumler' = [surumler EXCEPT ![AktifSurum].durum = "arsiv"]
    /\ Denetle(kim, "cekirdek", AktifSurum)
    /\ UNCHANGED belgeler

(***************************************************************************)
(* The artefact stores, which governance only reads: a document is saved   *)
(* or deleted by its own controller at any time.                           *)
(***************************************************************************)
BelgeKaydet(b) ==
    /\ b \notin belgeler
    /\ belgeler' = belgeler \cup {b}
    /\ UNCHANGED <<surumler, denetim>>

BelgeSil(b) ==
    /\ b \in belgeler
    /\ belgeler' = belgeler \ {b}
    /\ UNCHANGED <<surumler, denetim>>

-----------------------------------------------------------------------------
Init ==
    /\ surumler = <<>>
    /\ belgeler = {}
    /\ denetim = <<>>

Next ==
    \/ \E kim \in Kisi, c \in Icerik : YukleTaslak(c, kim) \/ YukleDegerlendir(c, kim)
    \/ \E kim \in Kisi, s \in DOMAIN surumler :
          \/ Onayla(s, kim) \/ OnayReddet(s, kim)
          \/ Aktiflestir(s, kim) \/ GeriDonSurume(s, kim)
    \/ \E kim \in Kisi : GeriDonCekirdege(kim)
    \/ \E b \in Belge : BelgeKaydet(b) \/ BelgeSil(b)

Spec == Init /\ [][Next]_vars

-----------------------------------------------------------------------------
(***************************************************************************)
(* Properties.                                                             *)
(***************************************************************************)
TypeOK ==
    /\ surumler \in Seq(Surum)
    /\ belgeler \subseteq Belge
    /\ denetim \in Seq(Kayit)

\* aktiflestir and geriDon between them never leave two versions active: the
\* guarantee stated above OntologyExtStore.aktiflestir, on which aktif()'s
\* "first one found" depends.
TekAktif == \A s, t \in Aktifler : s = t

\* Four eyes: whatever route a version took, once it is approved, active or
\* archived its approver is recorded and is not its uploader.
DortGoz ==
    \A s \in DOMAIN surumler :
        surumler[s].durum \in {"onayli", "aktif", "arsiv"} =>
            /\ surumler[s].onaylayan \in Kisi
            /\ surumler[s].onaylayan # surumler[s].yukleyen

\* What is in service is there by right: one version, on two people's word,
\* whatever the order of uploads, approvals, activations and rollbacks.
ServisYetkili == TekAktif /\ DortGoz

\* Positions in the audit file of the records that change the active version.
Gecisler == {i \in DOMAIN denetim : denetim[i].eylem \in {"aktiflestir", "rollback", "cekirdek"}}

\* The active version a reader of the first n audit records would conclude.
DenetimdenAktif(n) ==
    LET once == {i \in Gecisler : i <= n}
        son == CHOOSE i \in once : \A j \in once : j <= i
    IN IF once = {} \/ denetim[son].eylem = "cekirdek" THEN 0 ELSE denetim[son].surum

\* The audit trail is complete: replaying it names exactly the version the
\* store has active, so no transition of aktif goes unrecorded.
DenetimAktifiBelirler == DenetimdenAktif(Len(denetim)) = AktifSurum

\* Every version the trail shows entering service (activation or rollback) was
\* approved earlier in the trail, by somebody other than the uploader it names.
DenetimZinciri ==
    \A i \in Gecisler : \E j, k \in DOMAIN denetim :
        /\ j < k /\ k < i
        /\ denetim[j].eylem = "yukle" /\ denetim[k].eylem = "onayla"
        /\ denetim[j].surum = denetim[i].surum /\ denetim[k].surum = denetim[i].surum
        /\ denetim[j].kim # denetim[k].kim

\* The audit trail tells the whole story of what is in service.
DenetimTam == DenetimAktifiBelirler /\ DenetimZinciri

\* Governance implements the abstract life cycle.
Soyut == INSTANCE OntologyLifecycle WITH
    yuklenen <- [s \in DOMAIN surumler |-> surumler[s].yukleyen],
    onay <- {<<s, surumler[s].onaylayan>> :
                s \in {t \in DOMAIN surumler : surumler[t].onaylayan # Yok}},
    kullanilan <- {s \in DOMAIN surumler : surumler[s].durum \in {"aktif", "arsiv"}},
    gecerli <- AktifSurum

\* The refinement as a temporal property: four-eyes before service, at most one
\* version in service, and a retired version back only by rollback.
SoyutuUygular == Soyut!Spec

\* Rollback undoes the activation it follows, as its comment says, when versions
\* went into service in the order of their numbers: the activated version is
\* newer than the one it replaced and no archived version lies between them.
\* (A version rolled back earlier may lie between: geriDon then picks that one.)
GeriDonSirali ==
    [][Len(denetim') > Len(denetim) /\ denetim'[Len(denetim')].eylem \in {"rollback", "cekirdek"} =>
          \A n \in Gecisler :
              LET once == DenetimdenAktif(n - 1)
              IN /\ denetim[n].eylem = "aktiflestir"
                 /\ \A m \in Gecisler : m <= n
                 /\ once < AktifSurum
                 /\ \A s \in once + 1 .. AktifSurum - 1 : surumler[s].durum # "arsiv"
                 => AktifSurum' = once]_vars

(***************************************************************************)
(* A statement of the repository's comments that the code does not meet.   *)
(***************************************************************************)

\* kademe2Baglama's comment: a version that passed has been shown to merge
\* cleanly with the kernel.  mergeExtension iterates both lists, so the stored
\* body of a version past taslak must have both.
DogrulanmisBirlesir ==
    \A s \in DOMAIN surumler : surumler[s].durum # "taslak" => ~Kismi(surumler[s].icerik)

=============================================================================
