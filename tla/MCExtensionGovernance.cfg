SPECIFICATION MCSpec
CONSTANTS
    ali = ali
    veli = veli
    tam = tam
    dar = dar
    eksik = eksik
    tesis = tesis
    bag = bag
    pano = pano
    Yok = Yok
    Kisi <- MCKisi
    Ad <- MCAd
    Ogeler <- MCOgeler
    Belge <- MCBelge
    Atif <- MCAtif
    Icerik <- MCIcerik
    MaxSurum = 2
    MaxDenetim = 8
    Cekirdekler <- MCCekirdekler
    Uzantilar <- MCUzantilar
    Kataloglar <- MCKataloglar
    MaxAday = 2
INVARIANTS
    ServisYetkili
    DenetimTam
    ServisDurust
    OwlDurust
PROPERTIES
    SoyutuUygular
    GeriDonSirali
CHECK_DEADLOCK FALSE
