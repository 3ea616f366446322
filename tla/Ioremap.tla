------------------------------ MODULE Ioremap -------------------------------
(***************************************************************************)
(* ioremap of ioremap/driver/ioreamp.c (MIPS, 32 bits): the arithmetic on  *)
(* physical addresses, in unsigned longs that wrap, and the call that uses *)
(* it.  get_vm_area, remap_area_pages and vunmap are the kernel's.         *)
(***************************************************************************)
EXTENDS Integers

CONSTANTS
  Word,        \* 2^32: addresses are 0 .. Word - 1
  PAGE_SIZE,
  Low512,      \* 0x20000000: what KSEG1 reaches
  KSEG1,       \* where KSEG1 begins, a multiple of Low512
  HighMemory,  \* virt_to_phys(high_memory): RAM is below
  VmStart      \* where the kernel places areas, page aligned

ASSUME IoremapAssumption ==
  /\ PAGE_SIZE \in Nat \ {0} /\ Word \in Nat \ {0} /\ Word % PAGE_SIZE = 0
  /\ Low512 \in 1..Word /\ KSEG1 \in Nat /\ KSEG1 % Low512 = 0
  /\ HighMemory \in 0..Word /\ HighMemory % PAGE_SIZE = 0
  /\ VmStart \in KSEG1 + Low512 .. Word /\ VmStart % PAGE_SIZE = 0

Address == 0..(Word - 1)

last_addr(phys_addr, size) == (phys_addr + size - 1) % Word

(* "Don't allow wraparound or zero size" *)
Wraps(phys_addr, size) == size = 0 \/ last_addr(phys_addr, size) < phys_addr

IS_LOW512(addr) == addr < Low512
CPHYSADDR(a)  == a % Low512
CKSEG1ADDR(a) == CPHYSADDR(a) + KSEG1

UseKseg1(phys_addr, size, uncached) ==
  uncached /\ IS_LOW512(phys_addr) /\ IS_LOW512(last_addr(phys_addr, size))

PFN_DOWN(x)  == x \div PAGE_SIZE
PageMask(x)  == x - (x % PAGE_SIZE)
PAGE_ALIGN(x) == PageMask((x + PAGE_SIZE - 1) % Word)

(* The page-aligned window around the request. *)
WindowSizeOfLength(phys_addr, size) == PAGE_ALIGN(size)
WindowSize(phys_addr, size) ==
  (PAGE_ALIGN((last_addr(phys_addr, size) + 1) % Word) - PageMask(phys_addr)) % Word

Pages    == 0..PFN_DOWN(Word - 1)
RamPages == {p \in Pages : p < PFN_DOWN(HighMemory)}

(* The pages whose PageReserved the loop tests, from the one of the first   *)
(* byte to the one of the last.  For pages behind RAM it reads past mem_map. *)
TestedPagesFirst(phys_addr, size) == {PFN_DOWN(phys_addr)}
TestedPages(phys_addr, size) == PFN_DOWN(phys_addr)..PFN_DOWN(last_addr(phys_addr, size))

(* __ioremap_mode repeats the first tests of __ioremap when the compiler    *)
(* knows its arguments, and then calls it.                                  *)
KnownKseg1(known, phys_addr, size, uncached) ==
  known /\ ~Wraps(phys_addr, size) /\ UseKseg1(phys_addr, size, uncached)
-----------------------------------------------------------------------------
VARIABLES
  reserved,  \* pages whose PageReserved reads true, behind RAM by accident
  iocall,    \* "idle", "map" (has an area) or "done"
  iophys, iosize,   \* the request
  ioaddr,    \* what ioremap returns, NULL, or the area's address on the way
  area       \* the area in use: its address, and the physical window it maps

ioremapVars == <<reserved, iocall, iophys, iosize, ioaddr, area>>

NULL == -1
NoArea == [addr |-> 0, phys |-> 0, size |-> 0]

IoremapInit ==
  /\ \E ram \in SUBSET RamPages, behind \in {{}, Pages \ RamPages} : reserved = ram \cup behind
  /\ iocall = "idle" /\ iophys = 0 /\ iosize = 0 /\ ioaddr = NULL /\ area = NoArea

Returns(addr) == iocall' = "done" /\ ioaddr' = addr /\ UNCHANGED area

(* get_vm_area: an area of that size, or NULL if there is no room. *)
get_vm_area(phys, size) ==
  \/ /\ size \in 1..(Word - VmStart)
     /\ area' = [addr |-> VmStart, phys |-> phys, size |-> size]
     /\ iocall' = "map" /\ UNCHANGED ioaddr
  \/ Returns(NULL)

ioremap(phys_addr, size, uncached, known) ==
  /\ iocall = "idle"
  /\ iophys' = phys_addr /\ iosize' = size
  /\ \/ KnownKseg1(known, phys_addr, size, uncached) /\ Returns(CKSEG1ADDR(phys_addr))
     \/ /\ ~KnownKseg1(known, phys_addr, size, uncached)
        /\ \/ Wraps(phys_addr, size) /\ Returns(NULL)
           \/ /\ ~Wraps(phys_addr, size) /\ UseKseg1(phys_addr, size, uncached)
              /\ Returns(CKSEG1ADDR(phys_addr))
           \/ /\ ~Wraps(phys_addr, size) /\ ~UseKseg1(phys_addr, size, uncached)
              /\ IF phys_addr < HighMemory /\ ~(TestedPages(phys_addr, size) \subseteq reserved)
                 THEN Returns(NULL)
                 ELSE get_vm_area(PageMask(phys_addr), WindowSize(phys_addr, size))
  /\ UNCHANGED reserved

(* remap_area_pages enters the window, or fails and the area is given back. *)
remap_area_pages ==
  /\ iocall = "map" /\ iocall' = "done"
  /\ \/ ioaddr' = area.addr + (iophys % PAGE_SIZE) /\ UNCHANGED area
     \/ ioaddr' = NULL /\ area' = NoArea
  /\ UNCHANGED <<reserved, iophys, iosize>>

(* The caller is done with the mapping and unmaps it. *)
IoDone ==
  /\ iocall = "done" /\ iocall' = "idle"
  /\ iophys' = 0 /\ iosize' = 0 /\ ioaddr' = NULL /\ area' = NoArea
  /\ UNCHANGED reserved

IoremapNext ==
  \/ \E phys_addr, size \in Address, uncached, known \in BOOLEAN :
       ioremap(phys_addr, size, uncached, known)
  \/ remap_area_pages \/ IoDone

IoremapSpec == IoremapInit /\ [][IoremapNext]_ioremapVars
-----------------------------------------------------------------------------
(* Properties *)

(* What the processor reaches at a virtual address: the area's pages, or    *)
(* KSEG1.                                                                   *)
Physical(virt) ==
  IF area.addr <= virt /\ virt < area.addr + area.size
  THEN area.phys + (virt - area.addr)
  ELSE IF KSEG1 <= virt /\ virt < KSEG1 + Low512 THEN virt - KSEG1 ELSE NULL

(* An address that ioremap returns reaches every byte asked for, at any     *)
(* alignment and up to the last byte of the address space, where the sums   *)
(* wrap; and when it returns NULL no area is left.                          *)
ReachesRequest ==
  iocall = "done" =>
    IF ioaddr = NULL THEN area = NoArea
    ELSE \A b \in 0..(iosize - 1) : Physical(ioaddr + b) = iophys + b

(* "Don't allow anybody to remap normal RAM that we're using..": page       *)
(* tables never map a RAM page that is not reserved.                        *)
RamNotRemapped ==
  area # NoArea =>
    \A p \in PFN_DOWN(area.phys)..PFN_DOWN(area.phys + area.size - 1) :
      p \in RamPages => p \in reserved
=============================================================================
