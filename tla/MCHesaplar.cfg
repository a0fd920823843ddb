SPECIFICATION MCSpec
CONSTANTS
    Bos = Bos
    Kart <- MCKart
    Tablo <- MCTablo
    OtekiTablo <- MCOteki
    Parametre <- MCParametre
    MaxKart = 3
    TaramaTavani = 3
    SatirTavani = 3
    PivotTavani = 2
    IlkYaprak <- MCIlkYaprak
    EkYaprak <- MCEkYaprak
    IfadeKolon = {"x"}
    IfadeParam <- MCIfadeParam
    IfadeGrup <- MCIfadeGrup
    MaxIslem = 2
    NesneTipi <- MCNesneTipi
    Baglanti <- MCBaglanti
    Veri <- MCVeri
    Kaynaklar <- MCKaynaklar
    Adimlar <- MCAdimlar
    Olcu <- MCOlcu
    MaxAdim = 3
    KovaSayisi = 2
    IlkBelge <- MCIlkBelge
    KosulFormu <- MCKosulFormu
    ParamAdi = {"esik"}
    ParamDeger <- MCParamDeger
    MaxMercek = 6
    MaxJest = 3
    CoaIz = {1, 2, 3}
    Platform = {1, 2}
    IzSatiri <- MCIzSatiri
    PlatformSatiri <- MCPlatformSatiri
    Roe <- MCRoe
    Korumali = {73}
    Menzil = 20
    StandOff = 15
    EnUst = 2
    SifirKonum = SifirKonum
    g1 = g1
    g2 = g2
    r1 = r1
    s1 = s1
    Canli = Canli
    Yok = Yok
    Gorev <- MCGorev
    Angaj = g1
    MaxDeger = 1
    Ek <- MCEk
    Senaryo <- MCSenaryo
    Okuyucu <- MCBirOkuyucu
    SensorVar = TRUE
    Tavan = 1
INVARIANTS
    IstemciUyumlu
    YanitDurust
    IfadeDogru
    IkiMotorAyni
    OneriGuvenli
    MatrisTam
    TanimDurust
    BozukYalnizYarista
PROPERTY GecmisTekCizgi
CONSTRAINT Yarissiz
CHECK_DEADLOCK FALSE
