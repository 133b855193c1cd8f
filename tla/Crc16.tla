-------------------------------- MODULE Crc16 --------------------------------
(***************************************************************************)
(* The CRC of h5.cpp, bit by bit, for the runs.                             *)
(***************************************************************************)
EXTENDS Naturals, SequencesExt, Bitwise

calculate_crc16_checksum(bytes) ==
    LET swap(crc)   == (crc \div 256) + (crc % 256) * 256
        fold1(crc)  == crc ^^ ((crc % 256) \div 16)
        fold2(crc)  == crc ^^ ((crc * 4096) % 65536)
        fold3(crc)  == crc ^^ ((crc % 256) * 32)
        step(crc, data) == fold3(fold2(fold1(swap(crc) ^^ data)))
    IN  FoldLeft(step, 65535, bytes)
=============================================================================
