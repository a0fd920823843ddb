SPECIFICATION MCSpec
CONSTANTS
    Id = {d1, d2, d3}
    MaxSaat = 8
    ust = ust
    alt = alt
    r1 = r1
    r2 = r2
    Cekirdek = Cekirdek
    Tanim <- MCTanim
    Kaynak <- MCKaynak
    Istek <- MCIstek
    Satirlar <- MCSatirlar
    MaxSatir = 3
    MaxVeri = 2
    KuralId = {1, 2}
    Kural <- MCKural
    Deger = {0, 1}
    Cagri = {zamanlayici, uc}
    OlayTavan = 2
    ZilSinir = 1
    MaxAlarmSaat = 1
    MaxDegisim = 1
    MaxAriza = 1
    Hic = Hic
    u1 = u1
    u2 = u2
    Uc <- MCUc
    Ttl = 2
    MaxZaman = 4
    MaxYuk = 3
    Hicbiri = Hicbiri
    Iz = {1, 2}
    Tolerans = 1
    MaxAn = 3
    MaxSurum = 2
    Yoktur = Yoktur
    MaxKayit = 3
INVARIANTS
    Dongusuz
    SarkanYalnizYarista
    OnbellekDurust
    TekKosum
    SogumaKorunur
    MemoTaze
    ResimCanli
    DefterKayipSebepli
PROPERTIES
    HerIstekCevaplanir
    AlarmUlasir
CHECK_DEADLOCK FALSE
