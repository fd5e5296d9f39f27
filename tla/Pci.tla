-------------------------------- MODULE Pci ---------------------------------
(***************************************************************************)
(* src/src/pci.rs: init_pci walks bus 0 through the configuration ports.   *)
(* Registers are sets of bits.  The machine is given by the functions that *)
(* answer configuration cycles; what ide_initialize finds behind an IDE    *)
(* controller is the subject of the module Ide.                            *)
(***************************************************************************)
EXTENDS Bits, Integers, Sequences

CONSTANTS Machine   \* functions from <<device, func>> to
                    \* [vendor, class, subclass, prog_if, header], numbers

VARIABLES machine, pci_pc, device, func,
          vec       \* of <<kind, device, func, class, subclass, prog_if, vendor>>

pciVars == <<machine, pci_pc, device, func, vec>>

\* the host bridge: the dword of a register, all ones when nobody answers
Config(address) ==
  LET Field(from, width) == ShiftRight(address, from) \cap 0 .. width - 1
      Dword(f) ==
        CASE Field(2, 6) = BitsOf(0) -> BitsOf(f.vendor)
          [] Field(2, 6) = BitsOf(2) -> ShiftLeft(BitsOf(f.class), 24) \cup
                                        ShiftLeft(BitsOf(f.subclass), 16) \cup
                                        ShiftLeft(BitsOf(f.prog_if), 8)
          [] Field(2, 6) = BitsOf(3) -> ShiftLeft(BitsOf(f.header), 16)
          [] OTHER -> {}
      selected == {w \in DOMAIN machine : /\ 31 \in address /\ Field(16, 8) = {}
                                          /\ Field(11, 5) = BitsOf(w[1])
                                          /\ Field(8, 3) = BitsOf(w[2])}
  IN  IF selected = {} THEN 0 .. 31 ELSE UNION {Dword(machine[w]) : w \in selected}

pci_config_read_word_LowWord(bus, dev, fn, offset) ==
  LET address == ShiftLeft(BitsOf(bus), 16) \cup ShiftLeft(BitsOf(dev), 11) \cup
                 ShiftLeft(BitsOf(fn), 8) \cup (BitsOf(offset) \ {0, 1}) \cup {31}
  IN  Config(address) \cap 0 .. 15

pci_config_read_word(bus, dev, fn, offset) ==
  LET address == ShiftLeft(BitsOf(bus), 16) \cup ShiftLeft(BitsOf(dev), 11) \cup
                 ShiftLeft(BitsOf(fn), 8) \cup (BitsOf(offset) \ {0, 1}) \cup {31}
  IN  ShiftRight(Config(address), IF 1 \in BitsOf(offset) THEN 16 ELSE 0) \cap 0 .. 15

NONE == 0 .. 15   \* vendor 0xFFFF

\* to_be_bytes
High(word) == ShiftRight(word, 8)
Low(word) == word \cap 0 .. 7

header_type(dev, fn) == Low(pci_config_read_word(0, dev, fn, 14))

\* the element that check_function appends; for an IDE controller, its drives
check_function(dev, fn, vendor_id) ==
  LET class == pci_config_read_word(0, dev, fn, 10)
      prog_if == High(pci_config_read_word(0, dev, fn, 8))
      ide == High(class) = {0} /\ Low(class) = {0}
  IN  <<IF ide THEN "drives" ELSE "generic", dev, fn, High(class), Low(class), prog_if, vendor_id>>

PciInit == machine \in Machine /\ pci_pc = "host" /\ device = 0 /\ func = 0 /\ vec = <<>>

\* the host controller itself has functions: unimplemented!()
Host ==
  /\ pci_pc = "host"
  /\ pci_pc' = IF 7 \in header_type(0, 0) THEN "unimplemented" ELSE "device"
  /\ UNCHANGED <<machine, device, func, vec>>

NextDevice == IF device < 31 THEN pci_pc' = "device" /\ device' = device + 1
                             ELSE pci_pc' = "done" /\ UNCHANGED device

\* check_device up to the loop over functions: an absent device, and the only
\* function of a device, are done with
CheckDevice ==
  LET vendor_id == pci_config_read_word(0, device, 0, 0) IN
  /\ pci_pc = "device"
  /\ IF vendor_id # NONE /\ 7 \in header_type(device, 0)
     THEN pci_pc' = "function" /\ func' = 1 /\ UNCHANGED <<device, vec>>
     ELSE /\ NextDevice
          /\ vec' = IF vendor_id = NONE THEN vec
                    ELSE Append(vec, check_function(device, 0, vendor_id))
          /\ UNCHANGED func
  /\ UNCHANGED machine

\* one of the functions 1..8 of a multifunction device
CheckFunction ==
  LET vendor_id == pci_config_read_word(0, device, func, 0) IN
  /\ pci_pc = "function"
  /\ vec' = IF vendor_id = NONE THEN vec
            ELSE Append(vec, check_function(device, func, vendor_id))
  /\ IF func = 7 THEN NextDevice /\ func' = 0
                 ELSE func' = func + 1 /\ UNCHANGED <<pci_pc, device>>
  /\ UNCHANGED machine

PciNext == Host \/ CheckDevice \/ CheckFunction

PciSpec == PciInit /\ [][PciNext]_pciVars

----------------------------------------------------------------------------
\* When init_pci returns, it has found every function that the bus has, once and in
\* order, with the class, interface and vendor that the function itself reports; of
\* a multifunction device, which check_device only logs, all but function 0.
BusIsListed ==
  LET Multi(d) == <<d, 0>> \in DOMAIN machine /\ machine[<<d, 0>>].header >= 128
      expected == {w \in DOMAIN machine :
                     <<w[1], 0>> \in DOMAIN machine /\ (Multi(w[1]) <=> w[2] # 0)}
      Ordered(v, w) == v[1] * 8 + v[2] < w[1] * 8 + w[2]
  IN
  pci_pc = "done" =>
    /\ {<<vec[i][2], vec[i][3]>> : i \in 1 .. Len(vec)} = expected
    /\ \A i, j \in 1 .. Len(vec) : i < j => Ordered(SubSeq(vec[i], 2, 3), SubSeq(vec[j], 2, 3))
    /\ \A i \in 1 .. Len(vec) :
         LET f == machine[<<vec[i][2], vec[i][3]>>] IN
         /\ SubSeq(vec[i], 4, 7) =
              <<BitsOf(f.class), BitsOf(f.subclass), BitsOf(f.prog_if), BitsOf(f.vendor)>>
         /\ vec[i][1] = "drives" <=> (f.class = 1 /\ f.subclass = 1)
============================================================================
