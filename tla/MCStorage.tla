----------------------------- MODULE MCStorage ------------------------------
(***************************************************************************)
(* The way to the partitions: init_pci finds the IDE controller,           *)
(* ide_initialize its drives, parse_gpt reads and checks the partition     *)
(* table, with the checksum of crc.rs.  Each is done before the next one   *)
(* begins and sees only what it returned, so they are explored one at a    *)
(* time: while one works, the others rest in an initial state.             *)
(*                                                                         *)
(* PCI: a host bridge, an optional second device at either end of the bus, *)
(* and a multifunction device, like the PIIX3 of QEMU, with some functions.*)
(*                                                                         *)
(* IDE: bytes of three values and two heads: addresses from 54 on need     *)
(* LBA48, and 81 sectors more than 32 bits count.  A large and a small     *)
(* drive share a channel; the other channel has an ATAPI device, a drive   *)
(* without LBA, one of 83 sectors, or nothing.                             *)
(*                                                                         *)
(* GPT: arrays of no entry, of one sector, of several, with an incomplete  *)
(* last sector, or with more sectors than a byte or an u32 can count; one  *)
(* that lies beyond the sectors an u32 can name.                           *)
(*                                                                         *)
(* CRC: every message of up to three bytes over a few bytes, and the two   *)
(* of simple_crc32_test.                                                   *)
(***************************************************************************)
EXTENDS Pci, Ide, Gpt, Crc, TLC

CONSTANT Parts       \* which of "pci", "ide", "gpt" and "crc" to explore
VARIABLE part

Fn(vendor, class, subclass, prog_if, header) ==
  [vendor |-> vendor, class |-> class, subclass |-> subclass, prog_if |-> prog_if, header |-> header]
Bridge == Fn(32902, 6, 0, 0, 0)
Vga == Fn(4660, 3, 0, 0, 0)
IsaMulti == Fn(32902, 6, 1, 0, 128)
Piix == {(1 :> Fn(32902, 1, 1, 128, 0)), (7 :> Fn(32902, 6, 128, 0, 0)),
         (1 :> Fn(32902, 1, 1, 138, 0)) @@ (3 :> Fn(32902, 6, 128, 5, 0))}
On(d, fns) == [w \in {<<d, f>> : f \in DOMAIN fns} |-> fns[w[2]]]
Host0 == On(0, 0 :> Bridge)
MCMachine ==
  {Host0, On(0, 0 :> [Bridge EXCEPT !.header = 128]), On(31, 0 :> Vga)} \cup
  {Host0 @@ On(d, 0 :> Vga) : d \in {1, 31}} \cup
  {Host0 @@ On(d, (0 :> IsaMulti) @@ fns) @@ On(2, 0 :> Vga) : d \in {1, 31}, fns \in Piix}

Drive(kind, size) == [kind |-> kind, size |-> size, lba |-> TRUE]
Attached(a, b, c, d) == [w \in {Place[k] : k \in DOMAIN Place} |->
  CASE w = Place[1] -> a [] w = Place[2] -> b [] w = Place[3] -> c [] OTHER -> d]
MCDrives == {Attached(Drive("ata", 58), Drive("ata", 4), Drive("atapi", 0), Drive("none", 0)),
             Attached(Drive("none", 0), Drive("none", 0), Drive("none", 0),
                      [Drive("ata", 5) EXCEPT !.lba = FALSE]),
             Attached(Drive("none", 0), Drive("none", 0), Drive("ata", 83), Drive("none", 0))}
MCLba == {0, 4, 27, 53, 54, 56, 80}
MCErrorBits == {{}, {2}, {0, 4}}

Table(bad, num, size, used) ==
  [bad |-> bad, start |-> 2, entries_num |-> num, entry_size |-> size, used |-> used, high |-> {}]
MCDisk ==
  {Table({}, 4, 128, {0, 3}), Table({}, 16, 128, {0, 1, 4, 15}), Table({}, 8, 256, {1, 2, 6}),
   Table({}, 4, 256, {3}), Table({}, 12, 128, {}), Table({}, 6, 256, 0 .. 5)} \cup
  {Table(b, 8, 128, {0, 7}) : b \in SUBSET {"mbr", "signature", "header_checksum", "my_lba", "array"}} \cup
  {Table({}, 6, 128, {5}), Table({}, 1, 128, {0}), Table({}, 512, 256, {3}), Table({}, 514, 256, {3}),
   Table({}, 2, 512, {1}), Table({}, 0, 128, {}), Table({}, 2056, 128, {3}),
   [Table({}, 8, 128, {5}) EXCEPT !.start = 262146]} \cup
  {[Table({}, 8, 128, {0, 3, 4}) EXCEPT !.high = {h}] : h \in {0, 3, 4}}

Digits == <<49, 50, 51, 52, 53, 54, 55, 56, 57>>
Letters == <<97, 98, 99, 100, 101, 102>>
MCInput == SeqOf({0, 1, 128, 255}, 3) \cup {Digits, Letters}

----------------------------------------------------------------------------
vars == <<part, pciVars, ideVars, gptVars, crcVars>>

Init ==
  /\ part \in Parts
  /\ PciInit /\ (part # "pci" => machine = Host0)
  /\ IdeInit /\ (part # "ide" => drives = CHOOSE d \in Drives : TRUE)
  /\ GptInit /\ (part # "gpt" => table = CHOOSE t \in Disk : TRUE)
  /\ CrcInit /\ (part # "crc" => input = Letters)

Next ==
  \/ part = "pci" /\ PciNext /\ UNCHANGED <<part, ideVars, gptVars, crcVars>>
  \/ part = "ide" /\ IdeNext /\ UNCHANGED <<part, pciVars, gptVars, crcVars>>
  \/ part = "gpt" /\ GptNext /\ UNCHANGED <<part, pciVars, ideVars, crcVars>>
  \/ part = "crc" /\ CrcNext /\ UNCHANGED <<part, pciVars, ideVars, gptVars>>

\* The driver goes on, and a busy drive ends being busy.
Spec ==
  /\ Init /\ [][Next]_vars
  /\ WF_ideVars(part = "ide" /\ Driver)
  /\ \A k \in DOMAIN Place : WF_ideVars(part = "ide" /\ Serve(Place[k]))

=============================================================================
