SPECIFICATION CozumAdil
CONSTANTS
    ust = ust
    alt = alt
    r1 = r1
    r2 = r2
    Cekirdek = Cekirdek
    Tanim <- MCTanim
    Kaynak <- MCKaynak
    Istek <- MCIstek
    Satirlar <- MCSatirlar
    MaxSatir = 3
    MaxVeri = 2
PROPERTY HataYenidenOdenmez
CHECK_DEADLOCK FALSE
