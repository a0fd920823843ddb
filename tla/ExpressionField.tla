---------------------------- MODULE ExpressionField ----------------------------
(***************************************************************************)
(* An expression field of the client: the expression grows by operators    *)
(* and calls, validateExpression looks at it before the board is sent, and *)
(* the server evaluates it per row or, for an aggregate, per group.        *)
(***************************************************************************)
EXTENDS Expression

CONSTANTS
    IlkYaprak,   \* leaves an expression starts with
    EkYaprak,    \* leaves it grows by
    IfadeKolon,  \* columns of the schema
    IfadeParam,  \* values of the parameters: name -> value
    IfadeGrup,   \* groups of rows
    MaxIslem     \* bound: operators and calls

VARIABLES
    agac,        \* the expression, as a tree
    toplamli,    \* whether it is an aggregate's
    grup,        \* the rows it is evaluated over
    islem        \* operators and calls so far

ifadeVars == <<agac, toplamli, grup, islem>>

-----------------------------------------------------------------------------
(* validateExpression, over what the client has parsed. *)

\* The expression has no issue.
ValidateExpression(n) ==
    /\ \A u \in AltAgaclar(n) :
          /\ u.t = "col"   => u.name \in IfadeKolon
          /\ u.t = "param" => u.name \in DOMAIN IfadeParam
          /\ Toplama(u)    => toplamli
    /\ toplamli => ContainsAggregate(n)

-----------------------------------------------------------------------------
(* The expression grows in the field. *)

Buyur(yeni) ==
    /\ islem < MaxIslem
    /\ agac' = yeni
    /\ islem' = islem + 1
    /\ UNCHANGED <<toplamli, grup>>

IfadeInit ==
    /\ agac \in IlkYaprak /\ islem = 0
    /\ toplamli \in BOOLEAN
    /\ grup \in IfadeGrup

IfadeNext ==
    \/ \E op \in {"-", "not"} : Buyur(Un(op, agac))
    \/ \E op \in {"or", "and", "=", "!=", "<", "<=", ">", ">=", "+", "-", "*", "/", "%"}, y \in EkYaprak :
          Buyur(Bin(op, agac, y)) \/ Buyur(Bin(op, y, agac))
    \/ \E fn \in AGGREGATE_FNS \cup SCALAR_FNS :
          \/ Buyur(Call(fn, <<agac>>))
          \/ \E y \in EkYaprak : Buyur(Call(fn, <<y, agac>>))

-----------------------------------------------------------------------------
(* The reference: how a tree is written, with the brackets it needs. *)

Duzey(n) ==
    CASE n.t = "bin" -> (CASE n.op = "or" -> 1
                           [] n.op = "and" -> 2
                           [] Op(n.op) \in Kiyaslar -> 4
                           [] n.op \in {"+", "-"} -> 5
                           [] OTHER -> 6)
      [] n.t = "un" -> IF n.op = "not" THEN 3 ELSE 7
      [] OTHER -> 8

RECURSIVE Yazili(_, _)
Yazili(n, enAz) ==
    LET d == Duzey(n)
        op == IF n.t \in {"bin", "un"} THEN IF n.op \in {"or", "and", "not"} THEN Ident(n.op) ELSE Op(n.op) ELSE Ac
        soldan == IF d = 4 THEN 5 ELSE d
        metin ==
            CASE n.t = "num"   -> <<<<"num", n.v>>>>
              [] n.t = "str"   -> <<<<"str", n.metin>>>>
              [] n.t = "null"  -> <<Ident("null")>>
              [] n.t = "bool"  -> <<Ident(IF n.dogru THEN "true" ELSE "false")>>
              [] n.t = "col"   -> <<Ident(n.name)>>
              [] n.t = "param" -> <<<<"param", n.name>>>>
              [] n.t = "un"    -> <<op>> \o Yazili(n.operand, d)
              [] n.t = "bin"   -> Yazili(n.left, soldan) \o <<op>> \o Yazili(n.right, d + 1)
              [] n.t = "call"  ->
                    <<Ident(n.fn), Ac>>
                    \o FoldLeft(LAMBDA a, i : a \o (IF i = 1 THEN << >> ELSE <<Virgul>>) \o Yazili(n.args[i], 1),
                                << >>, [i \in DOMAIN n.args |-> i])
                    \o <<Kapa>>
    IN  IF d >= enAz THEN metin ELSE <<Ac>> \o metin \o <<Kapa>>

\* An aggregate inside another's argument, or without one: the evaluator throws,
\* and the client does not look.
IcIce(n) ==
    \E u \in AltAgaclar(n) :
        /\ Toplama(u)
        /\ \/ \E i \in DOMAIN u.args : ContainsAggregate(u.args[i])
           \/ u.args = << >> /\ u.fn /= "count"

\* What the expression gives in every row, or over the group.
Sonuclar == IF toplamli THEN {EvaluateAggregate(agac, grup, IfadeParam)}
            ELSE {Evaluate(agac, grup[i], IfadeParam) : i \in DOMAIN grup}

BuyukEsitli == \E u \in AltAgaclar(agac) : u.t = "bin" /\ u.op = ">="

\* What is written with the usual precedence is read as it was meant; and what
\* the client finds no issue with is evaluated, in every row or group, unless a
\* value is no number, aggregates are nested, or >= meets two texts.
IfadeDogru ==
    /\ ParseExpression(Yazili(agac, 1)) = Okuma(agac, Len(Yazili(agac, 1)) + 1)
    /\ ValidateExpression(agac) /\ ~IcIce(agac) =>
          \A v \in Sonuclar : Patladi(v) =>
              \/ v = Istisna("sayi degil")
              \/ v = Istisna("karsilastirma") /\ BuyukEsitli
=============================================================================
