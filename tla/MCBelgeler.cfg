SPECIFICATION MCSpec
CONSTANTS
    s1 = s1
    s2 = s2
    belge1 = belge1
    belge2 = belge2
    b1 = b1
    Yok = Yok
    Bozuk = Bozuk
    Id <- MCId
    Surec <- MCSurec
    Belge <- MCBelge
    Eski <- MCEski
    MaxUcan = 2
    Tur = {"harman", "mercek"}
    VeridenTur = {"harman"}
    Kimlik = {"d1", "d2"}
    Kayitli <- MCKayitli
    GecmisSiniri = 4
    MaxSurum = 3
    MaxYukleme = 2
    MaxKayit = 2
    MaxSayfa = 3
    SaatliTur = {"pano"}
    RastgeleTur = {"mercek"}
    MaxTurn = 2
    MaxIleti = 3
    MaxCagri = 1
    MaxSoru = 3
    MaxBelge = 2
    GrafBag <- MCGrafBag
    Cekirdek <- MCCekirdek
    Varlik = {"birlik", "personel"}
    GrafVeri <- MCGrafVeri
    GrafYok = GrafYok
    GrupEsik = 1
    GrupLimit = 2
    KenarTavani = 3
    MaxIstek = 3
    MaxDegisim = 1
    Pano = {"p", "q"}
    IlkPano = {"p"}
    MaxGadget = 3
    MaxHareket = 5
    MaxHata = 1
    FormDeger <- MCFormDeger
    IlkGorev <- MCIlkGorev
    Kapali = Kapali
    PlanBekler = PlanBekler
    KopyaYok = KopyaYok
    MaxIs = 5
    MaxDis = 1
    MaxKopus = 1
INVARIANTS
    KayipSebepli
    DuzenlemeSebepli
    SohbetDogru
    AgSebepli
    IkiGrafAyni
    PanoKayipSebepli
    FormSebepli
CONSTRAINT Sebepsiz
CHECK_DEADLOCK FALSE
