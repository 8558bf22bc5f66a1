------------------------------- MODULE FsLayout -------------------------------
(***************************************************************************)
(* What the fs_config.h and fs_defaults.h of all applications share: the    *)
(* macros that lay the files of a filesystem out one behind the other, and  *)
(* the rows of the table of headers in front of them.  A row is in the     *)
(* order of the table, from 1; an address is in bytes.                      *)
(***************************************************************************)
EXTENDS Integers, Sequences, SequencesExt

(* NULL_vaddr: no mirror, no file. *)
NULL_vaddr == 65535

(* The modes of files, read from a byte EXrwxrwx. *)
Mod(user, guest) == [user |-> user, guest |-> guest]
No   == {}
RO   == {"r"}
WO   == {"w"}
RW   == {"r", "w"}
RWX  == {"r", "w", "x"}

TotalOf(sizes) == FoldLeft(LAMBDA a, b : a + b, 0, sizes)

(* ISF_ALLOC: a size rounded up to a multiple of the unit of allocation. *)
Rounded(max, unit) == ((max + unit - 1) \div unit) * unit

(* The chain of ISF_BASE macros: each file begins where the one before ends. *)
Bases(start, sizes) == [i \in DOMAIN sizes |-> start + TotalOf(SubSeq(sizes, 1, i - 1))]

(* A row of the table of headers. *)
vl_header_t(len, alloc, id, mod, base, mirror) ==
  [len |-> len, alloc |-> alloc, id |-> id, mod |-> mod, base |-> base, mirror |-> mirror]

(* An entry of the header of the filesystem, one for each kind of file. *)
vlBLOCKHEADER(alloc, used, files) == [alloc |-> alloc, used |-> used, files |-> files]
===============================================================================
