-------------------------------- MODULE Gpt ---------------------------------
(***************************************************************************)
(* parse_gpt, src/src/gpt.rs, over a block device that returns the sectors *)
(* asked for, or fails.  Of the disk only what is checked or listed is     *)
(* kept: what is wrong with it, the size of the entry array and the        *)
(* entries in use.  A checksum matches when it is taken over the bytes     *)
(* that the table's author took it over, and those are intact.             *)
(***************************************************************************)
EXTENDS Integers, FiniteSetsExt

CONSTANTS Disk,  \* some records [bad, start, entries_num, entry_size, used, high]: start is
                 \* starting_lba_of_array; high are the entries whose first byte, of the
                 \* type GUID, is not ASCII.  Names are ASCII in UTF-16LE, which is also UTF-8.
          U32_VALUES   \* the number of values of an u32

SECTOR == 512
NAME_OFFSET == 56     \* 0x38, of partition_name_and_tail
NAME_AND_TAIL == 456  \* its length in PartitionEntry

VARIABLES table,
          gpt_pc, outcome,
          sectors,      \* of the entry array that were read
          at,           \* sector of the loops
          slot,         \* entry in the sector
          bytes_remain,
          summed,       \* bytes of the array that entries_checksum covers
          listed        \* the entries that were logged

gptVars == <<table, gpt_pc, outcome, sectors, at, slot, bytes_remain, summed, listed>>

length == table.entries_num * table.entry_size   \* of the array on the disk
total == length % U32_VALUES                     \* as the release build computes it

GptInit ==
  /\ table \in Disk
  /\ gpt_pc = "mbr" /\ outcome = "none" /\ sectors = 0 /\ at = 0 /\ slot = 0
  /\ bytes_remain = 0 /\ summed = 0 /\ listed = {}

Finish(r) == gpt_pc' = "done" /\ outcome' = r

\* device.read(...).expect(...)
ReadFails ==
  /\ gpt_pc \in {"mbr", "header", "array"}
  /\ Finish("read_failed")
  /\ UNCHANGED <<table, sectors, at, slot, bytes_remain, summed, listed>>

\* LBA 0: the boot signature and the first partition of the protective MBR
CheckMbr ==
  /\ gpt_pc = "mbr"
  /\ \/ "mbr" \in table.bad /\ Finish("InvalidProtectiveMBR")
     \/ "mbr" \notin table.bad /\ gpt_pc' = "header" /\ UNCHANGED outcome
  /\ UNCHANGED <<table, sectors, at, slot, bytes_remain, summed, listed>>

\* LBA 1: the signature, the checksum and the address, in this order
CheckHeader ==
  /\ gpt_pc = "header"
  /\ \/ "signature" \in table.bad /\ Finish("InvalidPartitionTableHeader")
     \/ "signature" \notin table.bad /\ "header_checksum" \in table.bad
        /\ Finish("InvalidTableHeaderChecksum")
     \/ table.bad \cap {"signature", "header_checksum"} = {} /\ "my_lba" \in table.bad
        /\ Finish("InvalidMyLbaHeader")
     \/ table.bad \cap {"signature", "header_checksum", "my_lba"} = {}
        /\ gpt_pc' = "array" /\ UNCHANGED outcome
  /\ UNCHANGED <<table, sectors, at, slot, bytes_remain, summed, listed>>

ReadArray_FourPerSector ==
  /\ gpt_pc = "array"
  /\ sectors' = (table.entries_num \div 4) % 256
  /\ bytes_remain' = total
  /\ gpt_pc' = "checksum"
  /\ UNCHANGED <<table, outcome, at, slot, summed, listed>>

\* the sectors of the array, their number cut to a byte.  With fewer than 512
\* bytes, or 256 sectors, none is asked for.
ReadArray ==
  /\ gpt_pc = "array"
  /\ sectors' = (total \div SECTOR) % 256
  /\ bytes_remain' = total
  /\ gpt_pc' = "checksum"
  /\ UNCHANGED <<table, outcome, at, slot, summed, listed>>

\* one sector of the checksum
SumSector ==
  /\ gpt_pc = "checksum" /\ at < sectors
  /\ summed' = summed + Min({bytes_remain, SECTOR})
  /\ bytes_remain' = IF bytes_remain > SECTOR THEN bytes_remain - SECTOR ELSE bytes_remain
  /\ at' = at + 1
  /\ UNCHANGED <<table, gpt_pc, outcome, sectors, slot, listed>>

CheckArray_Ignored ==
  /\ gpt_pc = "checksum" /\ at = sectors
  /\ gpt_pc' = "entries" /\ at' = 0
  /\ UNCHANGED <<table, outcome, sectors, slot, bytes_remain, summed, listed>>

\* the sectors were read at `starting_lba_of_array as u32`
ArrayRead == "array" \notin table.bad /\ summed = length /\ (table.start < U32_VALUES \/ sectors = 0)

CheckArray ==
  /\ gpt_pc = "checksum" /\ at = sectors
  /\ \/ /\ ~ArrayRead
        /\ Finish("InvalidEntriesArrayChecksum") /\ UNCHANGED at
     \/ /\ ArrayRead
        /\ gpt_pc' = "entries" /\ at' = 0 /\ UNCHANGED outcome
  /\ UNCHANGED <<table, sectors, slot, bytes_remain, summed, listed>>

PerSector == SECTOR \div table.entry_size

\* entries whose name is followed by a byte that is no UTF-8; what follows the
\* array may be anything
Unreadable(last) == {e \in table.used : e + 1 \in table.high \/ (last /\ e + 1 = table.entries_num)}

\* one entry, at i * entry_size bytes of its sector; an unused one is skipped.
\* split_at panics when the name is longer than the field, from_utf8().unwrap()
\* when its last byte, the first one of the next entry, is no UTF-8.
ListEntry ==
  LET entry == (at * SECTOR + slot * table.entry_size) \div table.entry_size
      name == table.entry_size - NAME_OFFSET + 1
  IN
  /\ gpt_pc = "entries" /\ at < sectors /\ slot < PerSector
  /\ slot' = slot + 1
  /\ \/ entry \notin table.used /\ UNCHANGED <<gpt_pc, outcome, listed>>
     \/ entry \in table.used /\ name > NAME_AND_TAIL /\ Finish("name_too_long") /\ UNCHANGED listed
     \/ /\ entry \in table.used /\ name <= NAME_AND_TAIL
        /\ \E last \in BOOLEAN :
             IF entry \in Unreadable(last)
             THEN Finish("name_not_utf8") /\ UNCHANGED listed
             ELSE listed' = listed \cup {entry} /\ UNCHANGED <<gpt_pc, outcome>>
  /\ UNCHANGED <<table, sectors, at, bytes_remain, summed>>

NextEntrySector ==
  /\ gpt_pc = "entries"
  /\ \/ /\ at < sectors /\ slot = PerSector
        /\ at' = at + 1 /\ slot' = 0 /\ UNCHANGED <<gpt_pc, outcome>>
     \/ /\ at = sectors
        /\ Finish("ok") /\ UNCHANGED <<at, slot>>
  /\ UNCHANGED <<table, sectors, bytes_remain, summed, listed>>

GptNext ==
  \/ ReadFails \/ CheckMbr \/ CheckHeader \/ ReadArray
  \/ SumSector \/ CheckArray \/ ListEntry \/ NextEntrySector

GptSpec == GptInit /\ [][GptNext]_gptVars

----------------------------------------------------------------------------
\* A table is accepted only if nothing is wrong with it, and then every entry in
\* use was listed, and no other, wherever the array lies, however long it is and
\* however many entries, of at most a sector, share a sector ("it can be changed
\* in the header and his 'entry_size' field").
AcceptedIsListed ==
  outcome = "ok" => table.bad = {} /\ listed = table.used

\* A good table whose array fills its sectors, up to the 255 that one read can
\* ask for, below sector 2^32, with several entries in a sector and no name that
\* from_utf8 may refuse, is rejected only when the device fails.
GoodIsAccepted ==
  /\ gpt_pc = "done" /\ table.bad = {}
  /\ length % SECTOR = 0 /\ length \div SECTOR < 256 /\ table.start < U32_VALUES
  /\ PerSector > 1
  /\ Unreadable(TRUE) = {}
  => outcome \in {"ok", "read_failed"}
============================================================================
