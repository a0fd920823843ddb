---------------------------- MODULE LiveDefinitions ----------------------------
(***************************************************************************)
(* The definitions of live datasets: LiveDatasetsController.create and     *)
(* remove over LiveDatasetsStore.                                          *)
(*                                                                         *)
(* create awaits twice.  provider.list() takes the registered definitions  *)
(* before it awaits the kernel list, so the ids it reports as known may be *)
(* gone when it returns; resolveDef then runs the candidate, reading each  *)
(* referenced dataset at some moment of its own.  Only after that is the   *)
(* definition stored.  remove has no await.                                *)
(*                                                                         *)
(* References to kernel datasets are left out: they are never removed.     *)
(* References to derived_* snapshots are refused whether they are known    *)
(* or not.  How a definition is resolved is module LiveResolution.         *)
(***************************************************************************)
EXTENDS Integers

CONSTANTS
    Id,       \* the ids live datasets may be given; an id is used once
    MaxSaat   \* bound: ticks of the clock

ASSUME SaatVarsayim == MaxSaat \in Nat

VARIABLES
    asama,     \* id -> how far its creation or removal has come
    kaynak,    \* id -> the live datasets its recipe refers to
    bilinen,   \* id -> the ids provider.list() reported to its creation
    okunacak,  \* id -> the references its smoke run has not read yet
    belgeAtif, \* the live ids mentioned by saved documents
    olusma,    \* id -> createdAt
    kayit,     \* id -> when it was stored
    silinme,   \* id -> when it was removed
    saat

tanim == <<asama, kaynak, bilinen, okunacak>>
zaman == <<olusma, kayit, silinme, saat>>
vars == <<tanim, belgeAtif, zaman>>

Asama == {"bos", "listeleniyor", "cozuluyor", "kayitli", "silindi", "reddedildi"}

\* LiveDatasetsStore.defs(): what is registered now.
Kayitli == {d \in Id : asama[d] = "kayitli"}

Tik == saat < MaxSaat /\ saat' = saat + 1

-----------------------------------------------------------------------------
(***************************************************************************)
(* create.                                                                 *)
(***************************************************************************)

\* The request arrives with its recipe; provider.list() takes defs() and
\* awaits the kernel list.
OlusturListele(d, refs) ==
    /\ asama[d] = "bos"
    /\ asama' = [asama EXCEPT ![d] = "listeleniyor"]
    /\ kaynak' = [kaynak EXCEPT ![d] = refs]
    /\ bilinen' = [bilinen EXCEPT ![d] = Kayitli]
    /\ UNCHANGED <<okunacak, belgeAtif, zaman>>

\* Mutant of KaynaklarBilinir: the references are not looked up.
KaynaklarHerhangi(d) == d \in Id

\* The check of every reference against the list.
KaynaklarBilinir(d) == kaynak[d] \subseteq bilinen[d]

\* The list is back: check the references, stamp createdAt, start the smoke
\* resolution.
OlusturDenetle(d) ==
    /\ asama[d] = "listeleniyor"
    /\ KaynaklarBilinir(d)
    /\ Tik
    /\ asama' = [asama EXCEPT ![d] = "cozuluyor"]
    /\ okunacak' = [okunacak EXCEPT ![d] = kaynak[d]]
    /\ olusma' = [olusma EXCEPT ![d] = saat]
    /\ UNCHANGED <<kaynak, bilinen, belgeAtif, kayit, silinme>>

\* The engine reads one referenced dataset; a missing one fails the run.
OlusturOku(d, r) ==
    /\ asama[d] = "cozuluyor"
    /\ r \in okunacak[d]
    /\ r \in Kayitli
    /\ okunacak' = [okunacak EXCEPT ![d] = @ \ {r}]
    /\ UNCHANGED <<asama, kaynak, bilinen, belgeAtif, zaman>>

\* The run succeeded: upsert, with no look at what happened meanwhile.
OlusturKaydet(d) ==
    /\ asama[d] = "cozuluyor"
    /\ okunacak[d] = {}
    /\ Tik
    /\ asama' = [asama EXCEPT ![d] = "kayitli"]
    /\ kayit' = [kayit EXCEPT ![d] = saat]
    /\ UNCHANGED <<kaynak, bilinen, okunacak, belgeAtif, olusma, silinme>>

\* Unknown or derived reference, a failing board, truncation, a missing source:
\* the request ends with an error and nothing is stored.
OlusturReddet(d) ==
    /\ asama[d] \in {"listeleniyor", "cozuluyor"}
    /\ asama' = [asama EXCEPT ![d] = "reddedildi"]
    /\ UNCHANGED <<kaynak, bilinen, okunacak, belgeAtif, zaman>>

-----------------------------------------------------------------------------
(***************************************************************************)
(* remove: refused while another definition or a saved document refers to  *)
(* the id.                                                                 *)
(***************************************************************************)
Bagimlilar(d) == {e \in Kayitli \ {d} : d \in kaynak[e]}

\* Mutant of Sil: the definitions are not searched for references.
SilKorumasiz(d) ==
    /\ asama[d] = "kayitli"
    /\ d \notin belgeAtif
    /\ Tik
    /\ asama' = [asama EXCEPT ![d] = "silindi"]
    /\ silinme' = [silinme EXCEPT ![d] = saat]
    /\ UNCHANGED <<kaynak, bilinen, okunacak, belgeAtif, olusma, kayit>>

Sil(d) ==
    /\ asama[d] = "kayitli"
    /\ Bagimlilar(d) = {}
    /\ d \notin belgeAtif
    /\ Tik
    /\ asama' = [asama EXCEPT ![d] = "silindi"]
    /\ silinme' = [silinme EXCEPT ![d] = saat]
    /\ UNCHANGED <<kaynak, bilinen, okunacak, belgeAtif, olusma, kayit>>

\* A saved Harman or Mercek analysis, alarm rule or dashboard starts or stops
\* mentioning a registered live dataset.
BelgeAtifEkle(d) ==
    /\ d \in Kayitli \ belgeAtif
    /\ belgeAtif' = belgeAtif \cup {d}
    /\ UNCHANGED <<tanim, zaman>>

BelgeAtifCikar(d) ==
    /\ d \in belgeAtif
    /\ belgeAtif' = belgeAtif \ {d}
    /\ UNCHANGED <<tanim, zaman>>

-----------------------------------------------------------------------------
Init ==
    /\ asama = [d \in Id |-> "bos"]
    /\ kaynak = [d \in Id |-> {}]
    /\ bilinen = [d \in Id |-> {}]
    /\ okunacak = [d \in Id |-> {}]
    /\ belgeAtif = {}
    /\ olusma = [d \in Id |-> 0]
    /\ kayit = [d \in Id |-> 0]
    /\ silinme = [d \in Id |-> 0]
    /\ saat = 1

Next ==
    \E d \in Id :
        \/ \E refs \in SUBSET Id : OlusturListele(d, refs)
        \/ OlusturDenetle(d)
        \/ \E r \in Id : OlusturOku(d, r)
        \/ OlusturKaydet(d)
        \/ OlusturReddet(d)
        \/ Sil(d)
        \/ BelgeAtifEkle(d)
        \/ BelgeAtifCikar(d)

Spec == Init /\ [][Next]_vars

-----------------------------------------------------------------------------
(***************************************************************************)
(* Properties.                                                             *)
(***************************************************************************)
TypeOK ==
    /\ asama \in [Id -> Asama]
    /\ kaynak \in [Id -> SUBSET Id]
    /\ bilinen \in [Id -> SUBSET Id]
    /\ okunacak \in [Id -> SUBSET Id]
    /\ belgeAtif \subseteq Id
    /\ olusma \in [Id -> Nat]
    /\ kayit \in [Id -> Nat]
    /\ silinme \in [Id -> Nat]
    /\ saat \in Nat

\* Registered definitions, and those that were, never form a reference cycle,
\* whatever creations and removals overlap: in every non-empty set of them one
\* refers to none of the others.  (live-dataset-store.ts:15-19.)
Dongusuz ==
    \A S \in SUBSET {d \in Id : asama[d] \in {"cozuluyor", "kayitli", "silindi"}} :
        S # {} => \E d \in S : kaynak[d] \cap S = {}

\* A registered definition protects its sources from the moment it is stored:
\* a source it lacks was removed before that, while the definition was being
\* created, and was registered when the creation began.
SarkanYalnizYarista ==
    \A d \in Kayitli : \A r \in kaynak[d] \ Kayitli :
        /\ asama[r] = "silindi"
        /\ kayit[r] < olusma[d]
        /\ silinme[r] < kayit[d]

=============================================================================
