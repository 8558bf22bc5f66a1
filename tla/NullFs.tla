-------------------------------- MODULE NullFs --------------------------------
(***************************************************************************)
(* The filesystem of the application "null": include/app/null/fs_config.h   *)
(* and fs_defaults.h.  It is held in RAM, so no file has a mirror.          *)
(***************************************************************************)
EXTENDS FsLayout

VL_WORD    == 2
NoMirror   == TRUE

OVERHEAD_TOTAL_BYTES == 512

GFB_BLOCK_BYTES     == 128
GFB_NUM_STOCK_FILES == 2
GFB_MOD_standard    == Mod(RW, No)
GFB_START_VADDR     == OVERHEAD_TOTAL_BYTES
GFB_TOTAL_BYTES     == GFB_BLOCK_BYTES * GFB_NUM_STOCK_FILES

(* There are no series of files. *)
ISS_TOTAL_BYTES     == 0
ISS_START_VADDR     == GFB_START_VADDR + GFB_TOTAL_BYTES

(* Of the files behind the stock files only the last is counted. *)
ISF_TOTAL_BYTES     == 512
ISF_NUM_STOCK_FILES == 23
ISF_NUM_EXT_FILES   == 1
ISF_START_VADDR     == ISS_START_VADDR + ISS_TOTAL_BYTES

(* The IDs of the files: 0x00 to 0x16, user_data and application_extension. *)
ISF_ID == [i \in 1 .. 25 |-> IF i <= 23 THEN i - 1 ELSE 230 + i]

File == DOMAIN ISF_ID

ISF_ENMIRROR(i) == ~NoMirror /\ ISF_ID[i] \in {0, 1, 7, 9, 11, 14, 15, 17, 254, 255}

ISF_MOD(i) ==
  CASE ISF_ID[i] = 14 -> Mod(No, No)
    [] ISF_ID[i] = 15 -> Mod(RO, No)
    [] ISF_ID[i] \in {1, 7, 8, 10, 12, 13} \cup 18 .. 255 -> Mod(RO, RO)
    [] OTHER -> Mod(RW, RO)

ISF_LEN == <<10, 48, 0, 0, 0, 0, 0, 1, 0, 2, 0, 0, 0, 0, 22, 22,
             0, 0, 0, 0, 0, 0, 0, 0, 0>>

ISF_MAX == <<10, 48, 0, 0, 0, 0, 0, 24, 0, 8, 0, 48, 0, 0, 22, 22,
             0, 60, 0, 0, 0, 0, 0, 64, 64>>

ISF_ALLOC == [i \in File |-> Rounded(ISF_MAX[i], VL_WORD)]

ISF_BASE == Bases(ISF_START_VADDR, ISF_ALLOC)

(* Mirrors, where they are enabled, lie one behind the other too. *)
ISF_MIRROR ==
  LET size == [i \in File |-> IF ISF_ENMIRROR(i) THEN Rounded(ISF_MAX[i] + 2, VL_WORD) ELSE 0]
  IN [i \in File |-> IF ISF_ENMIRROR(i) THEN Bases(49152, size)[i] ELSE NULL_vaddr]

ISF_STOCK_BYTES == TotalOf(ISF_ALLOC)

-----------------------------------------------------------------------------
(* overhead_files: the header of the filesystem and the table of headers.   *)
vlFSHEADER ==
  [ftab |-> OVERHEAD_TOTAL_BYTES,
   gfb  |-> vlBLOCKHEADER(GFB_TOTAL_BYTES, GFB_BLOCK_BYTES * GFB_NUM_STOCK_FILES,
                          GFB_NUM_STOCK_FILES),
   iss  |-> vlBLOCKHEADER(ISS_TOTAL_BYTES, 0, 0),
   isf  |-> vlBLOCKHEADER(ISF_TOTAL_BYTES, ISF_STOCK_BYTES, ISF_NUM_STOCK_FILES)]

gfb_headers ==
  [i \in 1 .. 2 |-> vl_header_t(0, GFB_BLOCK_BYTES, i - 1, GFB_MOD_standard,
                                GFB_START_VADDR + GFB_BLOCK_BYTES * (i - 1), NULL_vaddr)]

isf_header(i) ==
  vl_header_t(ISF_LEN[i], ISF_ALLOC[i], ISF_ID[i], ISF_MOD(i), ISF_BASE[i], ISF_MIRROR[i])

(* network_settings to ipv6_addresses, and sensor_list to the end. *)
isf_headers_low  == [i \in 1 .. 12 |-> isf_header(i)]
isf_headers_high == [i \in 1 .. 13 |-> isf_header(12 + i)]

(* isf_stock_files: how many bytes the array gives to each file, from       *)
(* network_settings on and from sensor_list on.                             *)
isf_stock_low  == <<10, 48, 0, 0, 0, 0, 0, 24, 0, 8, 0, 48>>
isf_stock_high == <<0, 0, 22, 22, 0, 60, 0, 0, 0, 0, 0, 64, 64>>

App ==
  [multifs |-> TRUE,
   header  |-> vlFSHEADER,
   table   |-> gfb_headers \o isf_headers_low \o isf_headers_high,
   start   |-> ISF_START_VADDR,
   stock   |-> isf_stock_low \o isf_stock_high]
===============================================================================
