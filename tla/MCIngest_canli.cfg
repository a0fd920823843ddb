SPECIFICATION AdilSpec
CONSTANTS
    gozlemler = gozlemler
    mip4ies = mip4ies
    istihbarat = istihbarat
    iz1 = iz1
    iz2 = iz2
    ad1 = ad1
    s1 = s1
    s2 = s2
    s3 = s3
    r1 = r1
    bozuk1 = bozuk1
    bozuk2 = bozuk2
    bos = bos
    Yok = Yok
    Konu <- MCKonu
    IstKonu <- MCIstKonu
    Kayit <- MCKayitRet
    Iz <- MCIz
    Sensor <- MCSensor
    BilinenSensor <- MCBilinen
    EskiSensor <- MCEski
    Zaman <- MCZaman
    Deger <- MCDeger
    Rapor <- MCRapor
    Bozuk <- MCBozuk
    Raporsuz <- MCRaporsuz
    BaskaAd <- MCBaskaAd
    Ret <- MCRetCanli
    MaxId = 8
    MaxHata = 2
PROPERTY BolumTuketilir
CHECK_DEADLOCK FALSE
