------------------------------ MODULE Expression ------------------------------
(***************************************************************************)
(* The expression language of the boards: the parser, of which server and  *)
(* client have the same text, and the evaluator, per row or per group.     *)
(*                                                                         *)
(* Tokens are what tokenize returns.  Names are in lower case.  Left out:  *)
(* functions of texts and dates, averages, medians and deviations, and the *)
(* fraction of a quotient; two texts put together are one that is no       *)
(* number.                                                                 *)
(***************************************************************************)
EXTENDS Conditions, SequencesExt

-----------------------------------------------------------------------------
(* Sequences. *)

Haritala(s, F(_)) == [i \in DOMAIN s |-> F(s[i])]

\* The distinct values of a sequence in order of first appearance.
Ilkler(s) == FoldLeft(LAMBDA a, x : IF Contains(a, x) THEN a ELSE Append(a, x), << >>, s)

-----------------------------------------------------------------------------
(* ExprNode. *)

Num(v)       == [t |-> "num", v |-> v]
Null         == [t |-> "null"]
Bool(b)      == [t |-> "bool", dogru |-> b]
Str(v)       == [t |-> "str", metin |-> v]
Col(ad)      == [t |-> "col", name |-> ad]
Param(ad)    == [t |-> "param", name |-> ad]
Un(op, a)    == [t |-> "un", op |-> op, operand |-> a]
Bin(op, l, r) == [t |-> "bin", op |-> op, left |-> l, right |-> r]
Call(fn, a)  == [t |-> "call", fn |-> fn, args |-> a]

AGGREGATE_FNS == {"sum", "min", "max", "count"}
SCALAR_FNS    == {"abs", "coalesce", "if"}

Cocuklar(n) ==
    CASE n.t = "un"   -> <<n.operand>>
      [] n.t = "bin"  -> <<n.left, n.right>>
      [] n.t = "call" -> n.args
      [] OTHER        -> << >>

\* The node and everything under it.
RECURSIVE AltAgaclar(_)
AltAgaclar(n) == {n} \cup UNION {AltAgaclar(Cocuklar(n)[i]) : i \in DOMAIN Cocuklar(n)}

Toplama(n) == n.t = "call" /\ n.fn \in AGGREGATE_FNS
ContainsAggregate(n) == \E u \in AltAgaclar(n) : Toplama(u)

-----------------------------------------------------------------------------
(* parseExpression.  A reading is a tree and the position behind it.       *)

Ident(ad) == <<"ident", ad>>
Op(ad)    == <<"op", ad>>
Ac        == <<"lparen", "(">>
Kapa      == <<"rparen", ")">>
Virgul    == <<"comma", ",">>
Simge(s, p) == IF p \in DOMAIN s THEN s[p] ELSE <<"son", "">>

Okuma(a, p) == [agac |-> a, pos |-> p]
Okunmaz     == Okuma(Null, 0)
Okundu(r)   == r.pos > 0

\* The operators of each level that chains its operands from left to right.
Islecler ==
    [or |-> {Ident("or")}, and |-> {Ident("and")},
     additive |-> {Op("+"), Op("-")}, multiplicative |-> {Op("*"), Op("/"), Op("%")}]
Kiyaslar == {Op(k) : k \in {"=", "!=", "<", "<=", ">", ">="}}

TekliOku(op, r) == IF Okundu(r) THEN Okuma(Un(op, r.agac), r.pos) ELSE Okunmaz
IkiliOku(op, l, r) == IF Okundu(r) THEN Okuma(Bin(op, l.agac, r.agac), r.pos) ELSE Okunmaz

RECURSIVE ParseOr(_, _), ParseNot(_, _), ParseUnary(_, _), ParseArgs(_, _, _), Devam(_, _, _)

ParsePrimary(s, p) ==
    LET tur == Simge(s, p)[1]
        ad  == Simge(s, p)[2]
        ic  == ParseOr(s, p + 1)
        son == IF Simge(s, p + 2) = Kapa THEN Okuma(<< >>, p + 2) ELSE ParseArgs(s, p + 2, << >>)
    IN  CASE tur = "num"    -> Okuma(Num(ad), p + 1)
          [] tur = "str"    -> Okuma(Str(ad), p + 1)
          [] tur = "param"  -> Okuma(Param(ad), p + 1)
          [] tur = "lparen" -> IF Okundu(ic) /\ Simge(s, ic.pos) = Kapa
                               THEN Okuma(ic.agac, ic.pos + 1) ELSE Okunmaz
          [] tur = "ident"  ->
                IF ad \in {"true", "false"} THEN Okuma(Bool(ad = "true"), p + 1)
                ELSE IF ad = "null" THEN Okuma(Null, p + 1)
                ELSE IF Simge(s, p + 1) # Ac THEN Okuma(Col(ad), p + 1)
                ELSE IF /\ Okundu(son) /\ Simge(s, son.pos) = Kapa
                        /\ ad \in AGGREGATE_FNS \cup SCALAR_FNS
                     THEN Okuma(Call(ad, son.agac), son.pos + 1) ELSE Okunmaz
          [] OTHER          -> Okunmaz

\* The arguments from p on, after those of a.
ParseArgs(s, p, a) ==
    LET r == ParseOr(s, p) IN
    IF ~Okundu(r) THEN Okunmaz
    ELSE IF Simge(s, r.pos) = Virgul THEN ParseArgs(s, r.pos + 1, Append(a, r.agac))
    ELSE Okuma(Append(a, r.agac), r.pos)

ParseUnary(s, p) ==
    IF Simge(s, p) = Op("-") THEN TekliOku("-", ParseUnary(s, p + 1)) ELSE ParsePrimary(s, p)

ParseMultiplicative(s, p) == Devam("multiplicative", s, ParseUnary(s, p))

ParseAdditive(s, p) == Devam("additive", s, ParseMultiplicative(s, p))

ParseComparison(s, p) ==
    LET l == ParseAdditive(s, p)
        k == Simge(s, l.pos)
    IN  IF Okundu(l) /\ k \in Kiyaslar THEN IkiliOku(k[2], l, ParseAdditive(s, l.pos + 1)) ELSE l

ParseNot(s, p) ==
    IF Simge(s, p) = Ident("not") THEN TekliOku("not", ParseNot(s, p + 1)) ELSE ParseComparison(s, p)

ParseAnd(s, p) == Devam("and", s, ParseNot(s, p))

ParseOr(s, p) == Devam("or", s, ParseAnd(s, p))

\* Mutant of Islenen: an operand of + and - is read without its * and /.
IslenenDar(duzey, s, p) ==
    CASE duzey = "or" -> ParseAnd(s, p)
      [] duzey = "and" -> ParseNot(s, p)
      [] OTHER -> ParseUnary(s, p)

\* The operand behind an operator of a level.
Islenen(duzey, s, p) ==
    CASE duzey = "or" -> ParseAnd(s, p)
      [] duzey = "and" -> ParseNot(s, p)
      [] duzey = "additive" -> ParseMultiplicative(s, p)
      [] duzey = "multiplicative" -> ParseUnary(s, p)

\* The loop of a level: as long as an operator of it follows.
Devam(duzey, s, l) ==
    LET k == Simge(s, l.pos) IN
    IF Okundu(l) /\ k \in Islecler[duzey]
    THEN Devam(duzey, s, IkiliOku(k[2], l, Islenen(duzey, s, l.pos + 1)))
    ELSE l

ParseExpression(s) == LET r == ParseOr(s, 1) IN IF r.pos = Len(s) + 1 THEN r ELSE Okunmaz

-----------------------------------------------------------------------------
(* evaluate, over values: Bos, Sayi(k), Metin(k), NullMetin, truth values, *)
(* NaN and the exceptions.                                                 *)

Mantik(b)  == <<"b", b>>
NaNDeger   == <<"nan", 0>>
Istisna(n) == <<"istisna", n>>
Patladi(v) == v /= Bos /\ v[1] = "istisna"

\* asNumber: what is no number throws, null is NaN, and NaN itself throws.
AsNumber(v) ==
    IF v = Bos THEN NaNDeger
    ELSE IF v \in {NaNDeger, NullMetin} THEN Istisna("sayi degil")
    ELSE Sayi(IF v[1] # "b" THEN v[2] ELSE IF v[2] THEN 1 ELSE 0)

Truthy(v) == v \notin {Bos, Mantik(FALSE), Sayi(0)}

\* compare: as numbers if one is a number, as texts otherwise; >= is not among
\* the operators of texts.
SayiDeger(v) == CASE v \in {NaNDeger, NullMetin} -> NaNDeger
                  [] v[1] = "b" -> Sayi(IF v[2] THEN 1 ELSE 0)
                  [] OTHER      -> Sayi(v[2])
MetinSirasi(v) == CASE v = Mantik(FALSE) -> 100 [] v = NullMetin -> 101 [] v = Mantik(TRUE) -> 102 [] OTHER -> v[2]
IslecAdi == [x \in {"=", "!=", "<", "<=", ">", ">="} |->
    CASE x = "=" -> "eq" [] x = "!=" -> "neq" [] x = "<" -> "lt" [] x = "<=" -> "lte" [] x = ">" -> "gt" [] OTHER -> "gte"]
Compare(op, l, r) ==
    LET sayili == {l[1], r[1]} \cap {"n", "nan"} /= {}
    IN  IF l = Bos \/ r = Bos THEN Mantik(op = "!=" /\ l /= r)
        ELSE IF sayili
             THEN IF NaNDeger \in {SayiDeger(l), SayiDeger(r)} THEN Mantik(op = "!=")
                  ELSE Mantik(Kiyas(IslecAdi[op], SayiDeger(l), SayiDeger(r)))
             ELSE IF op = ">=" THEN Istisna("karsilastirma")
                  ELSE Mantik(Kiyas(IslecAdi[op], Sayi(MetinSirasi(l)), Sayi(MetinSirasi(r))))

\* The remainder has the sign of the dividend; of zero it is NaN.
Kalan(a, b) ==
    LET buyukluk(k) == IF k < 0 THEN -k ELSE k
        kalan == buyukluk(a) % buyukluk(b)
    IN  IF b = 0 THEN NaNDeger ELSE Sayi(IF a < 0 THEN -kalan ELSE kalan)

\* l op r, both evaluated.
Aritmetik(op, l, r) ==
    LET m == AsNumber(l)
        n == AsNumber(r)
    IN  IF op = "+" /\ \E v \in {l, r} \ {Bos} : v[1] = "m" THEN NullMetin
        ELSE IF op = "/"
             THEN IF Patladi(n) THEN n ELSE IF n = Sayi(0) THEN Bos
                  ELSE IF Patladi(m) THEN m ELSE IF NaNDeger \in {m, n} THEN NaNDeger
                  ELSE Sayi(m[2] \div n[2])
        ELSE IF Patladi(m) THEN m ELSE IF Patladi(n) THEN n
        ELSE IF NaNDeger \in {m, n} THEN NaNDeger
        ELSE CASE op = "+" -> Sayi(m[2] + n[2]) [] op = "-" -> Sayi(m[2] - n[2]) [] op = "*" -> Sayi(m[2] * n[2])
               [] op = "%" -> Kalan(m[2], n[2])

\* The first exception, in the order of evaluation.
IlkIstisna(vs) == vs[CHOOSE i \in DOMAIN vs : Patladi(vs[i]) /\ \A j \in 1 .. i - 1 : ~Patladi(vs[j])]
BiriPatladi(vs) == \E i \in DOMAIN vs : Patladi(vs[i])

CallScalar(fn, vs) ==
    LET arg(i) == IF i \in DOMAIN vs THEN vs[i] ELSE Bos
        dolu == SelectSeq(vs, LAMBDA v : v /= Bos)
        n == AsNumber(arg(1))
    IN  CASE fn = "abs"      -> IF Patladi(n) \/ n = NaNDeger THEN n ELSE Sayi(IF n[2] < 0 THEN -n[2] ELSE n[2])
          [] fn = "coalesce" -> IF dolu = << >> THEN Bos ELSE Head(dolu)
          [] fn = "if"       -> IF Truthy(arg(1)) THEN arg(2) ELSE arg(3)

RECURSIVE Evaluate(_, _, _)
Evaluate(n, satir, p) ==
    CASE n.t = "num"   -> Sayi(n.v)
      [] n.t = "str"   -> n.metin
      [] n.t = "bool"  -> Mantik(n.dogru)
      [] n.t = "null"  -> Bos
      [] n.t = "param" -> IF n.name \in DOMAIN p THEN p[n.name] ELSE Istisna("parametre")
      [] n.t = "col"   -> IF n.name \in DOMAIN satir THEN satir[n.name] ELSE Istisna("kolon")
      [] n.t = "un"    ->
            LET v == Evaluate(n.operand, satir, p)
                m == AsNumber(v)
            IN  IF Patladi(v) THEN v
                ELSE IF n.op = "not" THEN Mantik(~Truthy(v))
                ELSE IF Patladi(m) \/ m = NaNDeger THEN m ELSE Sayi(-m[2])
      [] n.t = "bin" /\ n.op \in {"and", "or"} ->
            LET l == Evaluate(n.left, satir, p)
                r == Evaluate(n.right, satir, p)
            IN  IF Patladi(l) THEN l
                ELSE IF Truthy(l) = (n.op = "or") THEN Mantik(n.op = "or")
                ELSE IF Patladi(r) THEN r ELSE Mantik(Truthy(r))
      [] n.t = "bin"   ->
            LET l == Evaluate(n.left, satir, p)
                r == Evaluate(n.right, satir, p)
            IN  IF BiriPatladi(<<l, r>>) THEN IlkIstisna(<<l, r>>)
                ELSE IF Op(n.op) \in Kiyaslar THEN Compare(n.op, l, r)
                ELSE Aritmetik(n.op, l, r)
      [] n.t = "call"  ->
            LET vs == Haritala(n.args, LAMBDA a : Evaluate(a, satir, p))
            IN  IF Toplama(n) THEN Istisna("toplama")
                ELSE IF BiriPatladi(vs) THEN IlkIstisna(vs) ELSE CallScalar(n.fn, vs)

-----------------------------------------------------------------------------
(* evaluateAggregate, over a group of rows. *)

\* reduceAggregate
Indirge(fn, v) ==
    LET dolu  == SelectSeq(v, LAMBDA x : x /= Bos)
        uc(k) == FoldLeft(LAMBDA m, x : IF Compare(k, x, m) = Mantik(TRUE) THEN x ELSE m, Head(dolu), Tail(dolu))
        topla(t, x) == IF NaNDeger \in {t, SayiDeger(x)} THEN NaNDeger ELSE Sayi(t[2] + SayiDeger(x)[2])
    IN  CASE fn = "count"         -> Sayi(Len(v))
          [] fn = "countDistinct" -> Sayi(Len(Ilkler(Haritala(dolu, Yazi))))
          [] fn = "sum"           -> FoldLeft(topla, Sayi(0), dolu)
          [] fn = "min"           -> IF dolu = << >> THEN Bos ELSE uc("<")
          [] fn = "max"           -> IF dolu = << >> THEN Bos ELSE uc(">")

\* What stands for a value in the tree of the scalar part.
Sabit(v) == CASE v = Bos -> Null [] v[1] = "n" -> Num(v[2]) [] v[1] = "b" -> Bool(v[2]) [] OTHER -> Str(v)

\* evaluate of an operator over values already reduced.
Uygula(n, vs, p) ==
    IF BiriPatladi(vs) THEN IlkIstisna(vs)
    ELSE IF n.t = "un" THEN Evaluate(Un(n.op, Sabit(vs[1])), << >>, p)
    ELSE Evaluate(Bin(n.op, Sabit(vs[1]), Sabit(vs[2])), << >>, p)

RECURSIVE EvaluateAggregate(_, _, _)
EvaluateAggregate(n, satirlar, p) ==
    IF n.t = "call" /\ Toplama(n)
    THEN LET vs == Haritala(satirlar, LAMBDA r : Evaluate(n.args[1], r, p))
         IN  IF n.args = << >> THEN IF n.fn = "count" THEN Sayi(Len(satirlar)) ELSE Istisna("arguman")
             ELSE IF BiriPatladi(vs) THEN IlkIstisna(vs) ELSE Indirge(n.fn, vs)
    ELSE LET vs == Haritala(Cocuklar(n), LAMBDA a : EvaluateAggregate(a, satirlar, p))
         IN  CASE n.t = "call" -> IF BiriPatladi(vs) THEN IlkIstisna(vs) ELSE CallScalar(n.fn, vs)
               [] n.t \in {"un", "bin"} -> Uygula(n, vs, p)
               [] OTHER -> Evaluate(n, satirlar[1], p)

===============================================================================
