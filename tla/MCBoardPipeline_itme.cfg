SPECIFICATION BoruSpec
CONSTANTS
    Bos = Bos
    Kart <- MCKart
    Tablo <- MCTablo
    OtekiTablo <- MCOteki
    Parametre <- MCParametre
    MaxKart = 3
    TaramaTavani = 3
    SatirTavani = 3
    PivotTavani = 2
INVARIANT IkiYolAyni
CHECK_DEADLOCK FALSE
