--------------------------- MODULE MCLiveResolution ---------------------------
(* A chain of two definitions over the kernel dataset, read by two readers.  *)
EXTENDS LiveResolution

CONSTANTS ust, alt, r1, r2

MCTanim == {ust, alt}
MCIstek == {r1, r2}
MCSatirlar == {1, 2}
MCKaynak == [d \in Tanim |-> IF d = ust THEN {alt, Cekirdek} ELSE {Cekirdek}]
=============================================================================
