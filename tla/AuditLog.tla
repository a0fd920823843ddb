------------------------------- MODULE AuditLog -------------------------------
(***************************************************************************)
(* OntologyAudit in the bucket deployment: yaz starts gcsAppend and does   *)
(* not wait; gcsAppend downloads the whole log, adds one line and saves    *)
(* the result as a new object.  Records are numbered in the order yaz      *)
(* received them.  (The local deployment appends synchronously; module     *)
(* ExtensionGovernance has it.)                                            *)
(***************************************************************************)
EXTENDS Sequences, Naturals

CONSTANT MaxKayit   \* bound: records written

ASSUME MaxVarsayim == MaxKayit \in Nat

DefterKaydi == 1 .. MaxKayit

VARIABLES
    nesne,    \* the object: the records it holds
    defterAsama,    \* record -> how far its append has come
    okunan,   \* record -> what its append downloaded
    sebep     \* history: what has happened that may cost records

defterVars == <<nesne, defterAsama, okunan, sebep>>

DefterAsama == {"yok", "indiriliyor", "kaydediliyor", "bitti"}
Sebep == {"ortusme", "indirme", "kayit", "yarim"}

Ucan == {k \in DefterKaydi : defterAsama[k] \in {"indiriliyor", "kaydediliyor"}}

AsamaYaz(k, a) == defterAsama' = [defterAsama EXCEPT ![k] = a]

-----------------------------------------------------------------------------
\* yaz: records are passed in order; the append is not awaited.
Yaz(k) ==
    /\ defterAsama[k] = "yok"
    /\ \A j \in 1 .. k - 1 : defterAsama[j] # "yok"
    /\ AsamaYaz(k, "indiriliyor")
    /\ sebep' = sebep \cup (IF Ucan = {} THEN {} ELSE {"ortusme"})
    /\ UNCHANGED <<nesne, okunan>>

Indir(k) ==
    /\ defterAsama[k] = "indiriliyor"
    /\ AsamaYaz(k, "kaydediliyor")
    /\ okunan' = [okunan EXCEPT ![k] = nesne]
    /\ UNCHANGED <<nesne, sebep>>

\* Any download error is taken for the first record.
IndirHata(k) ==
    /\ defterAsama[k] = "indiriliyor"
    /\ AsamaYaz(k, "kaydediliyor")
    /\ okunan' = [okunan EXCEPT ![k] = <<>>]
    /\ sebep' = sebep \cup {"indirme"}
    /\ UNCHANGED nesne

\* Mutant of Kaydet: the line is saved without what was downloaded.
KaydetTek(k) ==
    /\ defterAsama[k] = "kaydediliyor"
    /\ AsamaYaz(k, "bitti")
    /\ nesne' = <<k>>
    /\ UNCHANGED <<okunan, sebep>>

Kaydet(k) ==
    /\ defterAsama[k] = "kaydediliyor"
    /\ AsamaYaz(k, "bitti")
    /\ nesne' = Append(okunan[k], k)
    /\ UNCHANGED <<okunan, sebep>>

\* The save fails: logged, the record is gone.
KaydetHata(k) ==
    /\ defterAsama[k] = "kaydediliyor"
    /\ AsamaYaz(k, "bitti")
    /\ sebep' = sebep \cup {"kayit"}
    /\ UNCHANGED <<nesne, okunan>>

\* The process stops: appends in flight are gone.
Dur ==
    /\ Ucan # {}
    /\ defterAsama' = [k \in DefterKaydi |-> IF k \in Ucan THEN "bitti" ELSE defterAsama[k]]
    /\ sebep' = sebep \cup {"yarim"}
    /\ UNCHANGED <<nesne, okunan>>

-----------------------------------------------------------------------------
DefterInit ==
    /\ nesne = <<>>
    /\ defterAsama = [k \in DefterKaydi |-> "yok"]
    /\ okunan = [k \in DefterKaydi |-> <<>>]
    /\ sebep = {}

DefterNext ==
    \/ \E k \in DefterKaydi :
          Yaz(k) \/ Indir(k) \/ IndirHata(k) \/ Kaydet(k) \/ KaydetHata(k)
    \/ Dur

DefterSpec == DefterInit /\ [][DefterNext]_defterVars

-----------------------------------------------------------------------------
DefterTypeOK ==
    /\ nesne \in Seq(DefterKaydi)
    /\ defterAsama \in [DefterKaydi -> DefterAsama]
    /\ okunan \in [DefterKaydi -> Seq(DefterKaydi)]
    /\ sebep \subseteq Sebep

\* Without overlap, failure or stop the log is exactly the records written, in
\* order.
DefterKayipSebepli ==
    sebep = {} => \E n \in 0 .. MaxKayit :
        /\ nesne = [i \in 1 .. n |-> i]
        /\ \A k \in DefterKaydi : k <= n <=> defterAsama[k] = "bitti"

=============================================================================
