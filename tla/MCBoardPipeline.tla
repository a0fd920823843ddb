---------------------------- MODULE MCBoardPipeline ----------------------------
(* Tables of three and four rows with nulls, and one board of every kind and   *)
(* mode; none to two conditions, parameters, a selection, pivots, both joins.  *)
EXTENDS BoardPipeline

Lit(v) == [tur |-> "literal", deger |-> v]
Par(a) == [tur |-> "parametre", ad |-> a]
Kosul(c, op, v) == [kolon |-> c, op |-> op, degerler |-> v]
Filtre(kal, hepsi, ks) == [tur |-> "filter", kal |-> kal, hepsi |-> hepsi, kosullar |-> ks, tekil |-> FALSE]
Sayim == [ad |-> "n", fn |-> "count", kolon |-> ""]
Tum(c) == [ad |-> "t", fn |-> "sum", kolon |-> c]
MCKart == {
  [tur |-> "gorsel"],
  Filtre(TRUE, TRUE, <<Kosul("x", "eq", <<Lit(Sayi(1))>>)>>),
  Filtre(FALSE, FALSE, <<Kosul("x", "lt", <<Par("a")>>), Kosul("n", "contains", <<Lit(Sayi(1))>>)>>),
  Filtre(FALSE, TRUE, <<Kosul("x", "in", <<Lit(Sayi(1)), Lit(Sayi(0))>>)>>),
  [Filtre(TRUE, TRUE, <<>>) EXCEPT !.tekil = TRUE],
  Filtre(FALSE, TRUE, <<>>),
  Filtre(TRUE, TRUE, <<Kosul("x", "contains", <<Lit(BosDesen)>>)>>),
  [tur |-> "expression", kip |-> "addColumn", ad |-> "y", sonuc |-> "sayi", ifade |-> [kolon |-> "x", yoksa |-> Sayi(0)]],
  [tur |-> "expression", kip |-> "replaceColumn", ad |-> "x", sonuc |-> "metin", ifade |-> [kolon |-> "x", yoksa |-> Sayi(1)]],
  [tur |-> "expression", kip |-> "filter", ifade |-> [kolon |-> "x", yoksa |-> Sayi(1)]],
  [tur |-> "expression", kip |-> "aggregate", ad |-> "x", sonuc |-> "sayi", ifade |-> [kolon |-> "x", yoksa |-> Sayi(0)], toplam |-> Sayim],
  [tur |-> "histogram", kolon |-> "x", toplam |-> Sayim, pivot |-> FALSE, secim |-> {}],
  [tur |-> "histogram", kolon |-> "x", toplam |-> Tum("pk"), pivot |-> FALSE, secim |-> {Metin(1), NullMetin}],
  [tur |-> "histogram", kolon |-> "x", toplam |-> Sayim, pivot |-> TRUE, secim |-> {}],
  [tur |-> "pivot", satir |-> "x", sutun |-> "", toplam |-> Sayim, pivot |-> TRUE],
  [tur |-> "pivot", satir |-> "pk", sutun |-> "x", toplam |-> [ad |-> "m", fn |-> "max", kolon |-> "pk"], pivot |-> TRUE],
  [tur |-> "enrich", katilim |-> "inner", sol |-> "x", sag |-> "k", al |-> "z"],
  [tur |-> "enrich", katilim |-> "left", sol |-> "x", sag |-> "k", al |-> "z"],
  [tur |-> "setMath", islem |-> "keepOnly", sol |-> "x", sag |-> "k"],
  [tur |-> "setMath", islem |-> "add", sol |-> "x", sag |-> "k"],
  [tur |-> "editColumns", islemler |-> <<[op |-> "rename", kolon |-> "x", yeni |-> "w"], [op |-> "reorder", kolon |-> "w"], [op |-> "cast", kolon |-> "pk", tip |-> "metin"]>>],
  [tur |-> "editColumns", islemler |-> <<[op |-> "drop", kolon |-> "x"]>>]
}
Satir(pk, x) == [c \in {"pk", "x"} |-> IF c = "pk" THEN Sayi(pk) ELSE x]
Kol == <<Kolon("pk", "sayi"), Kolon("x", "sayi")>>
MCTablo == {[kolonlar |-> Kol, satirlar |-> <<Satir(1, Bos), Satir(2, Sayi(1)), Satir(3, Sayi(0))>>],
            [kolonlar |-> Kol, satirlar |-> <<Satir(1, Sayi(1)), Satir(2, Sayi(0)), Satir(3, Sayi(1)), Satir(4, Bos)>>]}
MCOteki == {[kolonlar |-> <<Kolon("k", "sayi"), Kolon("z", "sayi")>>, satirlar |-> s] :
     s \in {<<[k |-> Sayi(1), z |-> Sayi(5)]>>, <<[k |-> Bos, z |-> Sayi(5)], [k |-> Sayi(1), z |-> Sayi(6)], [k |-> Sayi(1), z |-> Sayi(7)], [k |-> Sayi(0), z |-> Sayi(7)]>>}}
MCParametre == {[a |-> Sayi(1)]}
=============================================================================
