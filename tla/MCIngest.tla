-------------------------------- MODULE MCIngest --------------------------------
(* Two report sets about two tracks, one of which a sensor partition reports   *)
(* as well; a sensor the backup does not have, an unknown one, broken items.   *)
(* To this traffic the runs add a message without a report, a track code that  *)
(* a platform has already, and values that the database refuses.               *)
EXTENDS Ingest

CONSTANTS gozlemler, mip4ies, istihbarat, iz1, iz2, ad1, s1, s2, s3, r1, bozuk1, bozuk2, bos

MCKonu == {gozlemler, mip4ies, istihbarat}
MCIstKonu == {istihbarat}
MCIz == {iz1, iz2, ad1}
MCSensor == {s1, s2, s3}
MCBilinen == {s1, s2}
MCEski == {s1}
MCZaman == {1, 2}
MCDeger == {0}
MCRapor == {r1}
MCBozuk == {bozuk1, bozuk2}
MCRaporsuz == {bos}
MCBaskaAd == {ad1}

G(i, s, z) == [iz |-> i, sensor |-> s, zaman |-> z, deger |-> 0]

MCKayit == [k \in Konu |->
    CASE k = gozlemler -> << <<G(iz1, s2, 2)>> >>
      [] k = mip4ies -> << <<G(iz2, s2, 1), bozuk1>>,
                           <<G(iz1, s1, 1), G(iz1, s3, 2), G(iz2, s1, 2)>> >>
      [] OTHER -> << <<r1, bozuk2>> >>]

MCRetYok == {}

\* The same with all three kinds: a second message of the sensor partition with a
\* fractional altitude, after one without a value; a report set with a taken code.
Kesirli == G(iz1, s2, 1)

MCKayitSert == [k \in Konu |->
    CASE k = gozlemler -> << <<Kesirli>> >>
      [] k = mip4ies -> << <<G(iz2, s2, 1), bozuk1>>,
                           <<G(iz1, s1, 1), G(ad1, s1, 1), G(iz1, s3, 2), G(iz2, s1, 2)>> >>
      [] OTHER -> << <<r1, bozuk2>>, <<bos>> >>]

MCRetSert == {Kesirli} \X {"gecmis", "konum"}

\* Refused values in two partitions, the other is to be consumed all the same.
MCKayitRet == [k \in Konu |->
    CASE k = gozlemler -> << <<Kesirli>>, <<bos>> >>
      [] k = mip4ies -> MCKayit[k]
      [] OTHER -> << <<r1, bozuk2>> >>]

MCRetCanli == MCRetSert \cup {<<bozuk2, "karantina">>}
=============================================================================
