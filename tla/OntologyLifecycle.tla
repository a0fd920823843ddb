-------------------------- MODULE OntologyLifecycle --------------------------
(***************************************************************************)
(* What extension governance promises, without statuses, documents or an   *)
(* audit trail: versions are numbered in upload order, a version is served *)
(* only once somebody other than its uploader has approved it, one version *)
(* at most is served, and a version that left service comes back only by   *)
(* rolling back to it from a later one.                                    *)
(***************************************************************************)
EXTENDS Integers, Sequences

CONSTANT Kisi

VARIABLES
    yuklenen,   \* version -> its uploader
    onay,       \* the approvals given, pairs <<version, approver>>
    kullanilan, \* the versions that are or have been in service
    gecerli     \* the version in service, 0 for the bare kernel

vars == <<yuklenen, onay, kullanilan, gecerli>>

Onayli(s) == \E kim \in Kisi : <<s, kim>> \in onay

Init ==
    /\ yuklenen = <<>>
    /\ onay = {}
    /\ kullanilan = {}
    /\ gecerli = 0

Yukle(kim) ==
    /\ yuklenen' = Append(yuklenen, kim)
    /\ UNCHANGED <<onay, kullanilan, gecerli>>

Onayla(s, kim) ==
    /\ yuklenen[s] # kim
    /\ ~Onayli(s)
    /\ onay' = onay \cup {<<s, kim>>}
    /\ UNCHANGED <<yuklenen, kullanilan, gecerli>>

Aktiflestir(s) ==
    /\ Onayli(s)
    /\ s \notin kullanilan
    /\ kullanilan' = kullanilan \cup {s}
    /\ gecerli' = s
    /\ UNCHANGED <<yuklenen, onay>>

GeriDon(s) ==
    /\ gecerli # 0
    /\ s < gecerli
    /\ gecerli' = s
    /\ UNCHANGED <<yuklenen, onay, kullanilan>>

Next ==
    \/ \E kim \in Kisi : Yukle(kim)
    \/ \E s \in DOMAIN yuklenen : Aktiflestir(s) \/ \E kim \in Kisi : Onayla(s, kim)
    \/ \E s \in kullanilan \cup {0} : GeriDon(s)

Spec == Init /\ [][Next]_vars

=============================================================================
