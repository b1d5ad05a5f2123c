------------------------------ MODULE CsdFields ------------------------------
(***************************************************************************)
(* The card specific data of an SD card, a register of 128 bits, as the    *)
(* two card drivers take it apart: unpack_csd of emmc.c by masks and       *)
(* shifts of the bytes of four response registers, print_csd of sd_card.c  *)
(* by __bitfield, which collects a field from the bytes it lies in.        *)
(*                                                                         *)
(* A register is the set of its bits that are one.  Every field is a       *)
(* bitwise or of register bits, so registers of few ones tell the decoders *)
(* apart.  The controller of emmc.c drops the eight check bits, the one of *)
(* sdhost.c keeps them.                                                    *)
(***************************************************************************)
EXTENDS Integers, FiniteSets, FiniteSetsExt, TLC

CONSTANT None

VARIABLES csd,     \* the register
          emmc,    \* the fields unpack_csd stored
          host     \* the fields sd_card.c reads

vars == <<csd, emmc, host>>

\* The value of the byte whose lowest bit is bit low of the register.
ByteAt(low) == SumSet({2 ^ i : i \in {j \in 0 .. 7 : low + j \in csd}})

-----------------------------------------------------------------------------
(* emmc.c.                                                                 *)

\* RESP0 to RESP3 hold bits 8 to 127, and go to buf from its end.
Buf(k) == LET low == 8 + 32 * (3 - k \div 4) + 8 * (k % 4)
          IN  IF low > 120 THEN 0 ELSE ByteAt(low)

\* (buf[k] & mask) >> from, where mask has the bits from .. to.
Part(k, from, to) == (Buf(k) \div 2 ^ from) % 2 ^ (to - from + 1)

Size2 == [c_size2 |-> Part(11, 0, 5) * 65536 + Buf(10) * 256 + Buf(9)]

Size1 == [c_size         |-> (Part(4, 0, 1) * 256 + Buf(11)) * 4 + Part(10, 6, 7),
          vdd_r_curr_min |-> Part(10, 3, 5), vdd_r_curr_max |-> Part(10, 0, 2),
          vdd_w_curr_min |-> Part(9, 5, 7), vdd_w_curr_max |-> Part(9, 2, 4),
          c_size_mult    |-> Part(9, 0, 1) * 2 + Part(8, 7, 7)]

\* In units of 1024 blocks for version 2, in read blocks for version 1.
CardCapacity(f) == IF f.csd_structure = 1 THEN f.c_size2
                   ELSE (f.c_size + 1) * 2 ^ (f.c_size_mult + 2)

\* The sizes of version 2 are unpacked for every card.
SizesAlways2 == Size2 @@ [f \in {"c_size", "c_size_mult"} |-> 0]

Sizes == IF Part(2, 6, 7) = 1 THEN Size2 ELSE Size1

unpack_csd ==
    LET f == [csd_structure |-> Part(2, 6, 7), taac |-> Buf(1), nsac |-> Buf(0), tran_speed |-> Buf(7),
              ccc |-> Buf(6) * 16 + Part(5, 4, 7), read_bl_len |-> Part(5, 0, 3),
              read_bl_partial |-> Part(4, 7, 7), write_blk_misalign |-> Part(4, 6, 6),
              read_blk_misalign |-> Part(4, 5, 5), dsr_imp |-> Part(4, 4, 4),
              erase_blk_en |-> Part(8, 6, 6), sector_size |-> Part(15, 7, 7) * 64 + Part(8, 0, 5),
              wp_grp_size |-> Part(15, 0, 6), wp_grp_enable |-> Part(14, 7, 7),
              r2w_factor |-> Part(14, 2, 4), write_bl_len |-> Part(14, 0, 1) * 4 + Part(13, 6, 7),
              write_bl_partial |-> Part(13, 5, 5), file_format_grp |-> Part(12, 7, 7),
              copy |-> Part(12, 6, 6), perm_write_protect |-> Part(12, 5, 5),
              tmp_write_protect |-> Part(12, 4, 4), file_format |-> Part(12, 2, 3)] @@ Sizes
    IN  f @@ [capacity |-> CardCapacity(f)]

-----------------------------------------------------------------------------
(* sd_card.c.                                                              *)

\* Where each field begins, and how many bits it has.
Start == [csd_structure |-> 126, taac |-> 112, nsac |-> 104, tran_speed |-> 96, ccc |-> 84,
          read_bl_len |-> 80, read_bl_partial |-> 79, write_blk_misalign |-> 78,
          read_blk_misalign |-> 77, dsr_imp |-> 76, c_size |-> 62, vdd_r_curr_min |-> 59,
          vdd_r_curr_max |-> 56, vdd_w_curr_min |-> 53, vdd_w_curr_max |-> 50, c_size2 |-> 48,
          c_size_mult |-> 47, erase_blk_en |-> 46, sector_size |-> 39, wp_grp_size |-> 32,
          wp_grp_enable |-> 31, r2w_factor |-> 26, write_bl_len |-> 22, write_bl_partial |-> 21,
          file_format_grp |-> 15, copy |-> 14, perm_write_protect |-> 13, tmp_write_protect |-> 12,
          file_format |-> 10]

Length(f) == CASE f \in {"taac", "nsac", "tran_speed"} -> 8 [] f \in {"ccc", "c_size"} -> 12
               [] f = "c_size2" -> 22 [] f \in {"sector_size", "wp_grp_size"} -> 7
               [] f \in {"read_bl_len", "write_bl_len"} -> 4
               [] f \in {"csd_structure", "file_format"} -> 2
               [] f \in {"vdd_r_curr_min", "vdd_r_curr_max", "vdd_w_curr_min", "vdd_w_curr_max",
                         "c_size_mult", "r2w_factor"} -> 3
               [] OTHER -> 1

\* The loop of __bitfield: from each byte the bits from start % 8 on, set
\* behind the ones there are; what is too much of the last byte stays.
Collected(start, len) ==
    LET rest[l \in 0 .. len] ==   \* the last l bits of the field
          LET at   == start + len - l
              from == at % 8
          IN  IF l = 0 THEN 0
              ELSE (ByteAt(at - from) \div 2 ^ from) * 2 ^ (len - l) + rest[l - Min({8 - from, l})]
    IN  rest[len]

\* The bits of the last byte behind the field are left in the result.
BitfieldUnmasked(start, len) == Collected(start, len)

bitfield(start, len) == Collected(start, len) % 2 ^ len

\* SD_CSD_CAPACITY and SD_CSD_V2_CAPACITY, in the units of CardCapacity.
HostCapacity(f) == IF f.csd_structure = 1 THEN f.c_size2 + 1
                   ELSE (f.c_size + 1) * 2 ^ (f.c_size_mult + 2)

print_csd == LET f == [x \in DOMAIN Start |-> bitfield(Start[x], Length(x))]
             IN  IF f.csd_structure \notin {0, 1} THEN f ELSE f @@ [capacity |-> HostCapacity(f)]

-----------------------------------------------------------------------------
\* Registers: up to two ones, for each version, the version's own bits aside.
Registers == {v \cup s : v \in {{}, {126}, {127}},
                         s \in {{}} \cup {{a} : a \in 8 .. 125} \cup {{a, a + 1} : a \in 8 .. 124}}

Init == csd \in Registers /\ emmc = None /\ host = None

UnpackCsd == emmc = None /\ emmc' = unpack_csd /\ UNCHANGED <<csd, host>>
PrintCsd  == host = None /\ host' = print_csd /\ UNCHANGED <<csd, emmc>>

Next == UnpackCsd \/ PrintCsd
Spec == Init /\ [][Next]_vars

-----------------------------------------------------------------------------
(* Properties.                                                             *)

\* What both drivers store of a card is the same, field by field, with two
\* exceptions in unpack_csd: the lowest bit of sector_size is set in front of
\* the others instead of behind them, and a card of version 2 is one unit of
\* 512 KB larger than CardCapacity says.
DecodersAgree ==
    emmc # None /\ host # None =>
      /\ \A f \in (DOMAIN emmc \cap DOMAIN host) \ {"sector_size", "capacity"} : emmc[f] = host[f]
      /\ host.sector_size = 2 * (emmc.sector_size % 64) + emmc.sector_size \div 64
      /\ "capacity" \in DOMAIN host =>
           host.capacity = emmc.capacity + (IF emmc.csd_structure = 1 THEN 1 ELSE 0)
=============================================================================
