------------------------------ MODULE Conditions ------------------------------
(***************************************************************************)
(* One filter condition, evaluated twice by the server: matchCondition     *)
(* over rows in memory, conditionSql as text that PostgreSQL evaluates.    *)
(* Boards (BoardPipeline) and object sets (ObjectSets) both use both.      *)
(*                                                                         *)
(* A cell is Bos (null), Sayi(k) (a number) or Metin(k) (the text of the   *)
(* number k); NullMetin is the text "null", what String(null) gives, and   *)
(* BosDesen a pattern that the empty text matches.                         *)
(* Texts are compared as wholes: a pattern is contained in the text equal  *)
(* to it, and the empty pattern (BosDesen, null) in every text, so         *)
(* contains, startsWith, endsWith and matchesRegex are one operator here.  *)
(***************************************************************************)
EXTENDS Integers, Sequences

CONSTANT Bos   \* null; in SQL also the third truth value

Sayi(k)   == <<"n", k>>
Metin(k)  == <<"m", k>>
NullMetin == Metin(-1)
BosDesen  == Metin(-2)

\* String(v)
Yazi(v) == IF v = Bos THEN NullMetin ELSE Metin(v[2])

\* row[column], where a missing column reads as undefined
Al(satir, kolon) == IF kolon \in DOMAIN satir THEN satir[kolon] ELSE Bos

Karsilastirma == {"eq", "neq", "lt", "lte", "gt", "gte", "between", "in"}

\* A value of a condition is a literal or the name of a parameter.
Eksik(kosul, params) ==
    \E i \in DOMAIN kosul.degerler :
        /\ kosul.degerler[i].tur = "parametre"
        /\ kosul.degerler[i].ad \notin DOMAIN params

Cozulen(kosul, params) ==
    [i \in DOMAIN kosul.degerler |->
        IF kosul.degerler[i].tur = "parametre" THEN params[kosul.degerler[i].ad]
        ELSE kosul.degerler[i].deger]

(***************************************************************************)
(* In memory.  Number(null) is 0, and a comparison with a text that is no  *)
(* number is false (NaN).                                                  *)
(***************************************************************************)
Number(v) == IF v \in {Bos, BosDesen} THEN 0 ELSE v[2]
NaN(v)    == v = NullMetin

Kiyas(op, a, b) ==
    LET x == Number(a)  y == Number(b) IN
    IF NaN(a) \/ NaN(b) THEN op = "neq"
    ELSE \/ op = "eq"  /\ x = y
         \/ op = "neq" /\ x /= y
         \/ op = "lt"  /\ x < y
         \/ op = "lte" /\ x <= y
         \/ op = "gt"  /\ x > y
         \/ op = "gte" /\ x >= y

Icerir(metin, desen) == desen \in {Bos, BosDesen} \/ (metin /= Bos /\ metin[2] = desen[2])

Eslesir(kosul, satir, params) ==
    LET hucre == satir[kosul.kolon]
        v     == Cozulen(kosul, params)
    IN  CASE kosul.op = "isNull"    -> hucre = Bos
          [] kosul.op = "isNotNull" -> hucre /= Bos
          [] kosul.op = "neq"       -> hucre = Bos \/ Kiyas("neq", hucre, v[1])
          [] kosul.op = "between"   -> /\ hucre /= Bos
                                       /\ Kiyas("gte", hucre, v[1])
                                       /\ Kiyas("lte", hucre, v[2])
          [] kosul.op = "in"        -> \E i \in DOMAIN v : hucre /= Bos /\ Kiyas("eq", hucre, v[i])
          [] kosul.op = "contains"  -> Icerir(hucre, v[1])
          [] OTHER                  -> hucre /= Bos /\ Kiyas(kosul.op, hucre, v[1])

Gecer(kosullar, hepsi, satir, params) ==
    \/ kosullar = << >>
    \/ hepsi  /\ \A i \in DOMAIN kosullar : Eslesir(kosullar[i], satir, params)
    \/ ~hepsi /\ \E i \in DOMAIN kosullar : Eslesir(kosullar[i], satir, params)

(***************************************************************************)
(* In SQL: three truth values, TRUE, FALSE and Bos.                        *)
(***************************************************************************)
SqlDegil(x)     == IF x = Bos THEN Bos ELSE ~x
SqlHepsi(f)     == IF \E i \in DOMAIN f : f[i] /= Bos /\ ~f[i] THEN FALSE
                   ELSE IF \E i \in DOMAIN f : f[i] = Bos THEN Bos ELSE TRUE
SqlBiri(f)      == SqlDegil(SqlHepsi([i \in DOMAIN f |-> SqlDegil(f[i])]))
SqlKiyas(op, a, b) == IF a = Bos \/ b = Bos THEN Bos ELSE Kiyas(op, a, b)

SqlEslesir(kosul, satir, params) ==
    LET hucre == satir[kosul.kolon]
        v     == Cozulen(kosul, params)
    IN  CASE kosul.op = "isNull"    -> hucre = Bos
          [] kosul.op = "isNotNull" -> hucre /= Bos
          [] kosul.op = "neq"       -> SqlBiri(<<hucre = Bos, SqlKiyas("neq", hucre, v[1])>>)
          [] kosul.op = "between"   -> SqlHepsi(<<SqlKiyas("gte", hucre, v[1]), SqlKiyas("lte", hucre, v[2])>>)
          [] kosul.op = "in"        -> SqlBiri([i \in DOMAIN v |-> SqlKiyas("eq", hucre, v[i])])
          [] kosul.op = "contains"  -> IF hucre = Bos THEN Bos ELSE Icerir(hucre, v[1])
          [] OTHER                  -> SqlKiyas(kosul.op, hucre, v[1])

SqlGecer(kosullar, hepsi, satir, params) ==
    LET f == [i \in DOMAIN kosullar |-> SqlEslesir(kosullar[i], satir, params)]
    IN  IF hepsi THEN SqlHepsi(f) ELSE SqlBiri(f)
===============================================================================
