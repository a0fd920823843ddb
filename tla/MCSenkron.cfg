SPECIFICATION MCSpec
CONSTANTS
    hava = hava
    kara = kara
    Gorev <- MCGorev
    Alan <- MCAlan
    Varlik <- MCVarlik
    BasMin <- MCBasMin
    BasMax = 2
    BagTur <- MCBagTur
    Ilk <- MCIlk
    Istenen <- MCIstenen
    MaxBag = 3
    GanttIlk <- MCGanttIlk
    MaxBirak = 2
    MaxBaska = 1
INVARIANTS
    CpmDogru
    KaydirmaEnAz
    RaporDogru
    SapmaSebepli
CONSTRAINT Sebepsiz
CHECK_DEADLOCK FALSE
