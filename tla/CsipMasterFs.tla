----------------------------- MODULE CsipMasterFs -----------------------------
(***************************************************************************)
(* The filesystem of the application "csip_master":                         *)
(* include/app/csip_master/fs_config.h and fs_defaults.h.  It is held in    *)
(* RAM, so no file has a mirror.                                            *)
(***************************************************************************)
EXTENDS FsLayout

VL_WORD  == 2
NoMirror == TRUE

OVERHEAD_TOTAL_BYTES == 512

GFB_BLOCK_BYTES     == 32
GFB_NUM_STOCK_FILES == 2
GFB_MOD_standard    == Mod(RWX, RO)
GFB_START_VADDR     == OVERHEAD_TOTAL_BYTES
GFB_TOTAL_BYTES     == GFB_BLOCK_BYTES * GFB_NUM_STOCK_FILES

ISS_TOTAL_BYTES     == 0
ISS_START_VADDR     == GFB_START_VADDR + GFB_TOTAL_BYTES

(* 16 files of OTFS and 9 of CSIP, and application_extension behind them. *)
ISF_ID == [i \in 1 .. 26 |-> IF i <= 25 THEN i - 1 ELSE 255]

File == DOMAIN ISF_ID

ISF_NUM_STOCK_FILES == 16 + 9
ISF_NUM_EXT_FILES   == 1
ISF_START_VADDR     == ISS_START_VADDR + ISS_TOTAL_BYTES

ISF_ENMIRROR(i) == ~NoMirror /\ ISF_ID[i] \in {0, 1, 3, 7, 9, 11, 14, 15} \cup 16 .. 255

(* Without __DEBUG__. *)
ISF_MOD(i) ==
  CASE ISF_ID[i] \in {0, 18, 19} -> Mod(RW, RO)
    [] ISF_ID[i] \in {1, 7, 9, 11, 16, 17, 255} -> Mod(RO, RO)
    [] ISF_ID[i] \in {15, 20, 21, 22, 24} -> Mod(RW, No)
    [] ISF_ID[i] = 23 -> Mod(WO, No)
    [] OTHER -> Mod(No, No)

ISF_MAX == <<10, 48, 0, 12, 0, 0, 0, 24, 0, 8, 0, 48, 0, 0, 22, 22,
             50, 40, 96, 8, 176, 84, 24, 16, 4, 256>>

ISF_LEN == <<10, 48, 0, 12, 0, 0, 0, 10, 0, 2, 0, 0, 0, 0, 22, 22,
             50, 40, 96, 8, 176, 84, 24, 16, 4, 0>>

ISF_ALLOC == [i \in File |-> Rounded(ISF_MAX[i], VL_WORD)]

ISF_STOCK_BYTES == TotalOf(ISF_ALLOC)
ISF_TOTAL_BYTES == ISF_STOCK_BYTES

ISF_BASE == Bases(ISF_START_VADDR, ISF_ALLOC)

ISF_MIRROR ==
  LET size == [i \in File |-> IF ISF_ENMIRROR(i) THEN Rounded(ISF_MAX[i] + 2, VL_WORD) ELSE 0]
  IN [i \in File |-> IF ISF_ENMIRROR(i) THEN Bases(49152, size)[i] ELSE NULL_vaddr]

-----------------------------------------------------------------------------
(* overhead_files: the header of the filesystem and the table of headers.   *)
vlFSHEADER ==
  [ftab |-> OVERHEAD_TOTAL_BYTES,
   gfb  |-> vlBLOCKHEADER(GFB_TOTAL_BYTES, GFB_BLOCK_BYTES * GFB_NUM_STOCK_FILES,
                          GFB_NUM_STOCK_FILES),
   iss  |-> vlBLOCKHEADER(ISS_TOTAL_BYTES, 0, 0),
   isf  |-> vlBLOCKHEADER(ISF_TOTAL_BYTES, ISF_STOCK_BYTES, ISF_NUM_STOCK_FILES)]

gfb_headers ==
  [i \in 1 .. 2 |-> vl_header_t(0, GFB_BLOCK_BYTES, i - 1, GFB_MOD_standard,
                                GFB_START_VADDR + GFB_BLOCK_BYTES * (i - 1), NULL_vaddr)]

isf_header(i) ==
  vl_header_t(ISF_LEN[i], ISF_ALLOC[i], ISF_ID[i], ISF_MOD(i), ISF_BASE[i], ISF_MIRROR[i])

(* network_settings to ipv6_addresses, and sensor_list to the end. *)
isf_headers_low  == [i \in 1 .. 12 |-> isf_header(i)]
isf_headers_high == [i \in 1 .. 14 |-> isf_header(12 + i)]

(* isf_stock_files: how many bytes the array gives to each file: those of   *)
(* OTFS, the data and nameplates of the inverter, and the rest.             *)
isf_stock_otfs      == <<10, 48, 0, 12, 0, 0, 0, 24, 0, 8, 0, 48, 0, 0, 22, 22>>
isf_stock_nameplate == <<50, 40, 96, 8>>
isf_stock_csip      == <<176, 84, 24, 16, 4, 256>>

App ==
  [multifs |-> TRUE,
   header  |-> vlFSHEADER,
   table   |-> gfb_headers \o isf_headers_low \o isf_headers_high,
   start   |-> ISF_START_VADDR,
   stock   |-> isf_stock_otfs \o isf_stock_nameplate \o isf_stock_csip]
===============================================================================
