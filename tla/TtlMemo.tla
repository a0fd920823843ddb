-------------------------------- MODULE TtlMemo --------------------------------
(***************************************************************************)
(* TtlMemo, under one of the keys ReasoningService uses it for: the scored *)
(* tracks, which three endpoints ask for at every tick of their pollers.   *)
(*                                                                         *)
(* A call takes the stored promise while it is younger than the time to    *)
(* live, whether it is settled or not, and starts the loader otherwise.    *)
(* A loader reads the database at some moment, answers later or fails, and *)
(* may take longer than the time to live.                                  *)
(***************************************************************************)
EXTENDS Naturals, FiniteSets

CONSTANTS
    Uc,         \* the endpoints
    Ttl,        \* MEMO_TTL_MS
    MaxZaman,   \* bound: ticks of the clock
    MaxYuk,     \* bound: runs of the loader
    Hicbiri     \* no entry, no call, not read

ASSUME TtlVarsayim == Ttl \in Nat \ {0}

Yuk == 1 .. MaxYuk

\* A run of the loader: when it began, when its query saw the database, how it stands.
YukKaydi == [at : Nat, okundu : Nat \cup {Hicbiri}, durum : {"ucuyor", "bitti", "dustu"}]

ASSUME HicbiriVarsayim == Hicbiri \notin YukKaydi

VARIABLES
    memoZaman,
    memoKaydi,    \* store.get(key): the run whose promise it is and when it began, or Hicbiri
    yukler,   \* the runs so far: when each began and read, and how it stands
    cagri,    \* endpoint -> its call: when it was made and the run it waits for
    cevap     \* endpoint -> its last rows: when it asked and when they were read

memoVars == <<memoZaman, memoKaydi, yukler, cagri, cevap>>

YeniYuk == [at |-> memoZaman, okundu |-> Hicbiri, durum |-> "ucuyor"]

Taze(k) == k # Hicbiri /\ memoZaman - k.at < Ttl

\* Mutant of Tut: the entry is dated when its promise is settled.
TutBitince(y, yuk) == [yuk |-> y, at |-> memoZaman]

Tut(y, yuk) == [yuk |-> y, at |-> yuk.at]

-----------------------------------------------------------------------------
\* get, the stored promise is young enough: a settled one answers at once.
GetBulur(u) ==
    /\ cagri[u] = Hicbiri
    /\ Taze(memoKaydi)
    /\ IF yukler[memoKaydi.yuk].durum = "bitti"
       THEN /\ cevap' = [cevap EXCEPT ![u] =
                    [soruldu |-> memoZaman, okundu |-> yukler[memoKaydi.yuk].okundu]]
            /\ UNCHANGED cagri
       ELSE /\ cagri' = [cagri EXCEPT ![u] = [soruldu |-> memoZaman, yuk |-> memoKaydi.yuk]]
            /\ UNCHANGED cevap
    /\ UNCHANGED <<memoZaman, memoKaydi, yukler>>

\* get, no entry or an old one: the loader is started.
GetYukler(u) ==
    /\ cagri[u] = Hicbiri
    /\ ~Taze(memoKaydi)
    /\ \E y \in Yuk :
          /\ y = Cardinality({z \in Yuk : yukler[z] # Hicbiri}) + 1
          /\ yukler' = [yukler EXCEPT ![y] = YeniYuk]
          /\ memoKaydi' = [yuk |-> y, at |-> memoZaman]
          /\ cagri' = [cagri EXCEPT ![u] = [soruldu |-> memoZaman, yuk |-> y]]
    /\ UNCHANGED <<memoZaman, cevap>>

\* The loader's query sees the database.
YukOkur(y) ==
    /\ yukler[y] # Hicbiri /\ yukler[y].durum = "ucuyor" /\ yukler[y].okundu = Hicbiri
    /\ yukler' = [yukler EXCEPT ![y].okundu = memoZaman]
    /\ UNCHANGED <<memoZaman, memoKaydi, cagri, cevap>>

\* The promise is fulfilled: everybody who holds it has the rows.
YukBiter(y) ==
    /\ yukler[y] # Hicbiri /\ yukler[y].durum = "ucuyor" /\ yukler[y].okundu # Hicbiri
    /\ yukler' = [yukler EXCEPT ![y].durum = "bitti"]
    /\ memoKaydi' = IF memoKaydi # Hicbiri /\ memoKaydi.yuk = y THEN Tut(y, yukler[y]) ELSE memoKaydi
    /\ cevap' = [u \in Uc |->
          IF cagri[u] # Hicbiri /\ cagri[u].yuk = y
          THEN [soruldu |-> cagri[u].soruldu, okundu |-> yukler[y].okundu] ELSE cevap[u]]
    /\ cagri' = [u \in Uc |->
          IF cagri[u] # Hicbiri /\ cagri[u].yuk = y THEN Hicbiri ELSE cagri[u]]
    /\ UNCHANGED memoZaman

\* The catch handler: only the run's own entry goes.
Unut(y) == IF memoKaydi # Hicbiri /\ memoKaydi.yuk = y THEN Hicbiri ELSE memoKaydi

\* The promise is rejected: its callers fail, the error is not kept.
YukDuser(y) ==
    /\ yukler[y] # Hicbiri /\ yukler[y].durum = "ucuyor"
    /\ yukler' = [yukler EXCEPT ![y].durum = "dustu"]
    /\ memoKaydi' = Unut(y)
    /\ cagri' = [u \in Uc |->
          IF cagri[u] # Hicbiri /\ cagri[u].yuk = y THEN Hicbiri ELSE cagri[u]]
    /\ UNCHANGED <<memoZaman, cevap>>

ZamanGecer ==
    /\ memoZaman < MaxZaman /\ memoZaman' = memoZaman + 1
    /\ UNCHANGED <<memoKaydi, yukler, cagri, cevap>>

MemoInit ==
    /\ memoZaman = 0
    /\ memoKaydi = Hicbiri
    /\ yukler = [y \in Yuk |-> Hicbiri]
    /\ cagri = [u \in Uc |-> Hicbiri]
    /\ cevap = [u \in Uc |-> Hicbiri]

MemoNext ==
    \/ \E u \in Uc : GetBulur(u) \/ GetYukler(u)
    \/ \E y \in Yuk : YukOkur(y) \/ YukBiter(y) \/ YukDuser(y)
    \/ ZamanGecer

MemoSpec == MemoInit /\ [][MemoNext]_memoVars

-----------------------------------------------------------------------------
\* Rows were read less than the time to live before they were asked for, however long
\* their loader took and whoever started it (the header: freshness as good as the
\* pollers' interval).
MemoTaze ==
    \A u \in Uc : cevap[u] # Hicbiri => cevap[u].okundu + Ttl > cevap[u].soruldu

=============================================================================
