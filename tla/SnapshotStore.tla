----------------------------- MODULE SnapshotStore -----------------------------
(***************************************************************************)
(* AnalysesStore, the persistence pattern of analyses, Mercek analyses,    *)
(* dashboards, alert rules, live datasets and operation plans: all         *)
(* documents in memory, every change rewriting one file as a whole.        *)
(*                                                                         *)
(* kova is the deployment, chosen once.  FALSE: a local file, written      *)
(* synchronously, so that a write may be cut short by a crash.  TRUE: an   *)
(* object in a bucket, saved in the background while the client already    *)
(* has its answer; saves that overlap complete in either order.            *)
(***************************************************************************)
EXTENDS Sequences, Naturals

CONSTANTS
    Surec,     \* server processes
    Id,        \* document ids
    Belge,     \* document contents
    Yok,       \* no document; also: no such file
    Bozuk,     \* a file that does not parse
    Eski,      \* the content of the file's legacy name, or Yok
    MaxUcan    \* bound: saves in flight per process

Icerik == [Id -> Belge \cup {Yok}]
Bos == [id \in Id |-> Yok]

ASSUME YokVarsayim == Yok \notin Belge /\ Yok \notin Icerik /\ Bozuk \notin Icerik
ASSUME EskiVarsayim == Eski \in Icerik \cup {Yok}
ASSUME UcanVarsayim == MaxUcan \in Nat

VARIABLES
    kova,      \* TRUE: GCS_BUCKET names a bucket, FALSE: local file
    acik,      \* the processes that run
    entries,   \* process -> the documents in its memory
    dosya,     \* the file or object: content, Bozuk or Yok
    ucan,      \* process -> the saves in flight, in the order they were issued
    onay,      \* history: the content the clients were told is stored
    sebep      \* history: what has happened that may cost documents

vars == <<kova, acik, entries, dosya, ucan, onay, sebep>>

\* es_surec: a second process ran;  ortusme: two saves overlapped;  kayit: a
\* save failed;  yarim: a process stopped with a save in flight;  kesik: a local
\* write failed or was cut;  yukleme: a stored file could not be read.
Sebep == {"es_surec", "ortusme", "kayit", "yarim", "kesik", "yukleme"}

-----------------------------------------------------------------------------
(***************************************************************************)
(* onModuleInit.                                                           *)
(***************************************************************************)

\* Mutant of Yuklenen: the loop goes on to the legacy name after a success.
YuklenenEskiden == IF Eski # Yok THEN Eski ELSE IF dosya \in Icerik THEN dosya ELSE Bos

EskiIcerik == IF Eski = Yok THEN Bos ELSE Eski

\* The first name whose content is read and parsed; neither: start empty.
Yuklenen == IF dosya \in Icerik THEN dosya ELSE EskiIcerik

Baslat(p, icerik) ==
    /\ p \notin acik
    /\ acik' = acik \cup {p}
    /\ entries' = [entries EXCEPT ![p] = icerik]
    /\ UNCHANGED <<kova, dosya, ucan, onay>>

BaslaOku(p) ==
    /\ Baslat(p, Yuklenen)
    /\ sebep' = sebep \cup (IF acik = {} THEN {} ELSE {"es_surec"})

\* Reading the file or the legacy file fails for another reason than its
\* absence: the same catch.
BaslaHata(p) ==
    /\ \/ dosya \in Icerik /\ (Baslat(p, EskiIcerik) \/ Baslat(p, Bos))
       \/ dosya \notin Icerik /\ Eski # Yok /\ Baslat(p, Bos)
    /\ sebep' = sebep \cup {"yukleme"} \cup (IF acik = {} THEN {} ELSE {"es_surec"})

-----------------------------------------------------------------------------
(***************************************************************************)
(* flush, after upsert or delete changed the memory of p to icerik, and    *)
(* the answer to the client.                                               *)
(***************************************************************************)
YerelYaz(icerik) ==
    /\ ~kova
    /\ dosya' = icerik
    /\ UNCHANGED <<ucan, sebep>>

KovaGonder(p, icerik) ==
    /\ kova
    /\ Len(ucan[p]) < MaxUcan
    /\ ucan' = [ucan EXCEPT ![p] = Append(@, icerik)]
    /\ sebep' = sebep \cup (IF ucan[p] = <<>> THEN {} ELSE {"ortusme"})
    /\ UNCHANGED dosya

Flush(p, icerik) == YerelYaz(icerik) \/ KovaGonder(p, icerik)

\* Document id of process p becomes b (Yok: it is deleted).
Degistir(p, id, b) ==
    /\ p \in acik
    /\ entries' = [entries EXCEPT ![p][id] = b]
    /\ onay' = [onay EXCEPT ![id] = b]
    /\ Flush(p, [entries[p] EXCEPT ![id] = b])
    /\ UNCHANGED <<kova, acik>>

Upsert(p, id, b) == b \in Belge /\ Degistir(p, id, b)

\* delete flushes only when the document existed.
Delete(p, id) == entries[p][id] # Yok /\ Degistir(p, id, Yok)

\* writeFileSync throws after the memory changed: the client gets an error, the
\* file is as it was or truncated.
YerelYazHata(p, id, b) ==
    /\ ~kova
    /\ p \in acik
    /\ entries[p][id] # Yok \/ b # Yok
    /\ entries' = [entries EXCEPT ![p][id] = b]
    /\ dosya' \in {dosya, Bozuk}
    /\ sebep' = sebep \cup {"kesik"}
    /\ UNCHANGED <<kova, acik, ucan, onay>>

\* The process dies inside writeFileSync.
YerelYazCok(p) ==
    /\ ~kova
    /\ p \in acik
    /\ acik' = acik \ {p}
    /\ dosya' = Bozuk
    /\ sebep' = sebep \cup {"kesik"}
    /\ UNCHANGED <<kova, entries, ucan, onay>>

-----------------------------------------------------------------------------
(***************************************************************************)
(* The bucket answers a save; a process stops or crashes.                  *)
(***************************************************************************)
Cikar(dizi, i) == SubSeq(dizi, 1, i - 1) \o SubSeq(dizi, i + 1, Len(dizi))

KovaBiter(p, i) ==
    /\ i \in DOMAIN ucan[p]
    /\ dosya' = ucan[p][i]
    /\ ucan' = [ucan EXCEPT ![p] = Cikar(@, i)]
    /\ UNCHANGED <<kova, acik, entries, onay, sebep>>

KovaHata(p, i) ==
    /\ i \in DOMAIN ucan[p]
    /\ ucan' = [ucan EXCEPT ![p] = Cikar(@, i)]
    /\ sebep' = sebep \cup {"kayit"}
    /\ UNCHANGED <<kova, acik, entries, dosya, onay>>

Dur(p) ==
    /\ p \in acik
    /\ acik' = acik \ {p}
    /\ ucan' = [ucan EXCEPT ![p] = <<>>]
    /\ sebep' = sebep \cup (IF ucan[p] = <<>> THEN {} ELSE {"yarim"})
    /\ UNCHANGED <<kova, entries, dosya, onay>>

-----------------------------------------------------------------------------
Init ==
    /\ kova \in BOOLEAN
    /\ acik = {}
    /\ entries = [p \in Surec |-> Bos]
    /\ dosya \in Icerik \cup {Yok}
    /\ ucan = [p \in Surec |-> <<>>]
    /\ onay = Yuklenen
    /\ sebep = {}

Next ==
    \E p \in Surec :
        \/ BaslaOku(p)
        \/ BaslaHata(p)
        \/ \E id \in Id : Delete(p, id) \/ (\E b \in Belge : Upsert(p, id, b))
        \/ \E id \in Id, b \in Belge \cup {Yok} : YerelYazHata(p, id, b)
        \/ YerelYazCok(p)
        \/ \E i \in 1 .. MaxUcan : KovaBiter(p, i) \/ KovaHata(p, i)
        \/ Dur(p)

Spec == Init /\ [][Next]_vars

-----------------------------------------------------------------------------
(***************************************************************************)
(* Properties.                                                             *)
(***************************************************************************)
TypeOK ==
    /\ kova \in BOOLEAN
    /\ acik \subseteq Surec
    /\ entries \in [Surec -> Icerik]
    /\ dosya \in Icerik \cup {Yok, Bozuk}
    /\ ucan \in [Surec -> Seq(Icerik)]
    /\ onay \in Icerik
    /\ sebep \subseteq Sebep

\* What the next start reads once the saves in flight have completed is what the
\* clients were told, and so is what a running process serves.
Saklanan ==
    /\ \A p \in acik : entries[p] = onay
    /\ \A p \in Surec : ucan[p] # <<>> => ucan[p][Len(ucan[p])] = onay
    /\ (\A p \in Surec : ucan[p] = <<>>) => Yuklenen = onay

\* Documents are lost, come back or differ only after one of the six causes: in
\* particular restarts, the legacy name and deletions cost nothing by themselves.
KayipSebepli == sebep = {} => Saklanan

=============================================================================
