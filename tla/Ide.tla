-------------------------------- MODULE Ide ---------------------------------
(***************************************************************************)
(* The IDE driver, src/src/ide.rs, over the drives of its two channels.    *)
(* ide_initialize looks for drives; then sectors are read and written by   *)
(* programmed I/O.  A byte has BYTE values and the head field HEAD, so an  *)
(* LBA28 address is below HEAD * BYTE^3 (2^28) and an u32 below BYTE^4.    *)
(* A sector is one value; its 256 words are transferred in one step.       *)
(*                                                                         *)
(* The drives are external: they take a command when the command register  *)
(* is written, are busy, and then offer or expect a sector, or fail.       *)
(***************************************************************************)
EXTENDS Integers, Sequences, FiniteSets, SequencesExt

CONSTANTS BYTE, HEAD,
          Drives,     \* some functions from Place to [kind, size, lba]; lba: not only CHS
          Lba,        \* the first sectors of requests
          ErrorBits,  \* some sets of bits of the error register
          REQUESTS    \* bound: requests in a behaviour

Place == <<<<"Primary", "Master">>, <<"Primary", "Slave">>,
           <<"Secondary", "Master">>, <<"Secondary", "Slave">>>>
Channel == {"Primary", "Secondary"}
LBA28 == HEAD * BYTE^3
U32 == BYTE^4

VARIABLES
  drives, disk,   \* what is attached, and the sectors of each drive
  regs,           \* for each channel: ports 2 to 5, each <<last, the one before>>
  hdd,            \* for each channel: the selected drive and the head field
  drv,            \* for each drive: the command under way, [op, busy, drq, err, df, lba, count, buffer]
  ide_pc, p, found,   \* ide_initialize, and the devices it found
  req, result,    \* the request under way, and what it has read
  failed,         \* (observed) the drives that reported an error since their last command
  abandoned,      \* (observed) the drives that were asked for 0 sectors
  before,         \* (observed) the disks when the request began
  left            \* requests still to come

drivers == <<drives, disk, regs, hdd, drv>>
ideVars == <<drives, disk, regs, hdd, drv, ide_pc, p, found, req, result, failed, abandoned, before, left>>

Idle == [op |-> "none", busy |-> FALSE, drq |-> FALSE, err |-> {}, df |-> FALSE,
         lba |-> 0, count |-> 0, buffer |-> <<>>]
NoRequest == [dev |-> Place[1], op |-> "none", lba |-> 0, num |-> 0, done |-> 0]

----------------------------------------------------------------------------
\* The drives

Selected(c) == <<c, hdd[c].drive>>

\* the address and the number of sectors that the registers of c spell
Address(c, ext) ==
  LET Byte(k, age) == regs[c][3 + k][age] * BYTE^k
      low == Byte(0, 1) + Byte(1, 1) + Byte(2, 1)
  IN  IF ext THEN low + (Byte(0, 2) + Byte(1, 2) + Byte(2, 2)) * BYTE^3
             ELSE low + hdd[c].head * BYTE^3
Count(c, ext) ==
  LET n == regs[c][2][1] + IF ext THEN BYTE * regs[c][2][2] ELSE 0
  IN  IF n > 0 THEN n ELSE IF ext THEN BYTE^2 ELSE BYTE

\* a write to the command register: without a drive nothing happens, and one
\* that is busy or in a transfer may ignore it
Command(c, op, ext) ==
  LET w == Selected(c) IN
  \/ /\ drives[w].kind # "none"
     /\ drv' = [drv EXCEPT ![w] = [Idle EXCEPT !.op = op, !.busy = TRUE,
                                              !.lba = Address(c, ext), !.count = Count(c, ext)]]
  \/ /\ drives[w].kind = "none" \/ drv[w].busy \/ drv[w].drq
     /\ UNCHANGED drv

\* the words of the identification that the driver looks at
IdentifyData(d) ==
  LET lba48 == d.size > LBA28 IN
  [lba |-> d.lba, lba48 |-> lba48, max_lba |-> IF lba48 THEN LBA28 ELSE d.size,
   max_lba_ext |-> IF lba48 THEN d.size ELSE 0]

\* drive w ends a busy period: it fails, or is ready for a sector, or is done;
\* only an ATA drive has an answer to IDENTIFY
Serve(w) ==
  LET d == drv[w]
      Ready(buffer) == /\ drv' = [drv EXCEPT ![w] = [d EXCEPT !.busy = FALSE, !.drq = TRUE, !.buffer = buffer]]
                       /\ UNCHANGED failed
      Fail(bits, fault) == /\ drv' = [drv EXCEPT ![w] = [Idle EXCEPT !.err = bits, !.df = fault]]
                           /\ failed' = failed \cup {w}
      inside == d.lba < drives[w].size
  IN
  /\ d.busy
  /\ \/ d.op = "identify" /\ drives[w].kind = "ata" /\ Ready(<<IdentifyData(drives[w])>>)
     \/ d.op = "identify" /\ Fail({2}, FALSE)
     \/ d.op = "read" /\ d.count > 0 /\ inside /\ Ready(<<disk[w][d.lba]>>)
     \/ d.op = "write" /\ d.count > 0 /\ inside /\ Ready(<<>>)
     \/ /\ d.op = "flush" \/ d.count = 0
        /\ drv' = [drv EXCEPT ![w] = Idle]
        /\ UNCHANGED failed
     \/ /\ d.op # "identify"
        /\ \E bits \in ErrorBits, fault \in BOOLEAN : (bits # {} \/ fault) /\ Fail(bits, fault)
  /\ UNCHANGED <<drives, disk, regs, hdd, ide_pc, p, found, req, result, abandoned, before, left>>

\* after a sector was transferred
NextSector(d) ==
  [d EXCEPT !.drq = FALSE, !.busy = d.count > 1 \/ d.op = "write", !.buffer = <<>>,
            !.lba = @ + 1, !.count = @ - 1, !.op = IF d.count > 1 \/ d.op = "write" THEN @ ELSE "none"]

----------------------------------------------------------------------------
\* ide_write and ide_read: the port, from io_base, of a command block register
PortOf(reg) == IF reg < 8 THEN reg ELSE reg - 6
SecCount0 == 2
Lba0 == 3
SecCount1 == 8
Lba3 == 9

\* a register remembers the value before the last one
Write(f, w) == [f EXCEPT ![PortOf(w[1])] = <<w[2], @[1]>>]

\* the sectors: those a drive has from the start, and those of a write request
Original(w, n) == <<w[1], w[2], 0, n>>
Data(k) == <<"written", "sector", left, k>>

IdeInit ==
  /\ drives \in Drives
  /\ disk = [w \in DOMAIN drives |-> [n \in 0 .. drives[w].size - 1 |-> Original(w, n)]]
  /\ regs = [c \in Channel |-> [port \in 2 .. 5 |-> <<0, 0>>]]
  /\ hdd = [c \in Channel |-> [drive |-> "Master", head |-> 0]]
  /\ drv = [w \in DOMAIN drives |-> Idle]
  /\ ide_pc = "select" /\ p = 1 /\ found = {}
  /\ req = NoRequest /\ result = <<>> /\ failed = {} /\ abandoned = {} /\ before = disk /\ left = REQUESTS

channel == Place[p][1]
NextPlace == IF p = Len(Place) THEN ide_pc' = "ready" /\ UNCHANGED p ELSE ide_pc' = "select" /\ p' = p + 1

\* ide_initialize: select the next drive; sleep_for(1)
SelectDrive ==
  /\ ide_pc = "select"
  /\ hdd' = [hdd EXCEPT ![channel] = [drive |-> Place[p][2], head |-> 0]]
  /\ ide_pc' = "identify"
  /\ UNCHANGED <<drives, disk, regs, drv, p, found, req, result, failed, abandoned, before, left>>

Identify ==
  /\ ide_pc = "identify"
  /\ Command(channel, "identify", FALSE)
  /\ ide_pc' = "status"
  /\ UNCHANGED <<drives, disk, regs, hdd, p, found, req, result, failed, abandoned, before, left>>

\* status 0: no device; otherwise the loop that waits for ERR or DRQ
CheckStatus ==
  /\ ide_pc = "status"
  /\ \/ drives[Place[p]].kind = "none" /\ NextPlace
     \/ drives[Place[p]].kind # "none" /\ ide_pc' = "wait" /\ UNCHANGED p
  /\ UNCHANGED <<drivers, found, req, result, failed, abandoned, before, left>>

\* what is kept of the identification: the size, from the low two words of
\* MaxLbaExt or from MaxLba by bit 26 of the command sets, and bit 9 of the
\* capabilities
Device(place, id) ==
  [place |-> place, size |-> IF id.lba48 THEN id.max_lba_ext % U32 ELSE id.max_lba, lba |-> id.lba]

WaitStatus_NoErrorCheck ==
  /\ ide_pc = "wait"
  /\ ~drv[Place[p]].busy
  /\ found' = found \cup {Device(Place[p], IdentifyData(drives[Place[p]]))}
  /\ drv' = [drv EXCEPT ![Place[p]] = Idle]
  /\ NextPlace
  /\ UNCHANGED <<drives, disk, regs, hdd, req, result, failed, abandoned, before, left>>

WaitStatus_Spins ==
  /\ ide_pc = "wait"
  /\ ~drv[Place[p]].busy /\ drv[Place[p]].drq
  /\ found' = found \cup {Device(Place[p], drv[Place[p]].buffer[1])}
  /\ drv' = [drv EXCEPT ![Place[p]] = Idle]
  /\ NextPlace
  /\ UNCHANGED <<drives, disk, regs, hdd, req, result, failed, abandoned, before, left>>

\* the loop ends with an error, of a device that is not ATA, or with the data
WaitStatus ==
  /\ ide_pc = "wait"
  /\ \/ /\ drv[Place[p]].err # {}
        /\ UNCHANGED <<drv, found>>
     \/ /\ ~drv[Place[p]].busy /\ drv[Place[p]].drq /\ drv[Place[p]].err = {}
        /\ found' = found \cup {Device(Place[p], drv[Place[p]].buffer[1])}
        /\ drv' = [drv EXCEPT ![Place[p]] = Idle]
  /\ NextPlace
  /\ UNCHANGED <<drives, disk, regs, hdd, req, result, failed, abandoned, before, left>>

----------------------------------------------------------------------------
\* read and write: a request out of range is refused at once, by a sum that
\* wraps in the release build; io_prepare does not implement CHS addresses
InRange(dev, lba, num) == (lba + num) % U32 <= dev.size

Request(dev, op, lba, num) ==
  /\ ide_pc = "ready" /\ left > 0
  /\ left' = left - 1
  /\ req' = [dev |-> dev.place, op |-> op, lba |-> lba, num |-> num, done |-> 0]
  /\ result' = <<>>
  /\ before' = disk
  /\ ide_pc' = IF ~InRange(dev, lba, num) THEN "out_of_range"
           ELSE IF lba >= LBA28 \/ dev.lba THEN "prepare"
           ELSE "unimplemented"
  /\ UNCHANGED <<drivers, p, found, failed, abandoned>>

IoRegisters_LowFirst(lba, num) ==
  LET Byte(k) == (lba \div BYTE^k) % BYTE
      low == <<<<SecCount0, num>>, <<Lba0, Byte(0)>>, <<Lba0 + 1, Byte(1)>>, <<Lba0 + 2, Byte(2)>>>>
      high == <<<<SecCount1, 0>>, <<Lba3, Byte(3)>>, <<Lba3 + 1, 0>>, <<Lba3 + 2, 0>>>>
  IN  IF lba >= LBA28 THEN low \o high ELSE low

\* the writes to the command block registers, in order
IoRegisters(lba, num) ==
  LET Byte(k) == (lba \div BYTE^k) % BYTE
      high == <<<<SecCount1, 0>>, <<Lba3, Byte(3)>>, <<Lba3 + 1, 0>>, <<Lba3 + 2, 0>>>>
      low == <<<<SecCount0, num>>, <<Lba0, Byte(0)>>, <<Lba0 + 1, Byte(1)>>, <<Lba0 + 2, Byte(2)>>>>
  IN  IF lba >= LBA28 THEN high \o low ELSE low

IoPrepare_NoSlaveBit ==
  LET c == req.dev[1] IN
  /\ ide_pc = "prepare" /\ ~drv[Selected(c)].busy
  /\ hdd' = [hdd EXCEPT ![c] = [drive |-> "Master",
       head |-> IF req.lba >= LBA28 THEN 0 ELSE req.lba \div BYTE^3]]
  /\ regs' = [regs EXCEPT ![c] = FoldLeft(Write, @, IoRegisters(req.lba, req.num % BYTE))]
  /\ ide_pc' = "command"
  /\ UNCHANGED <<drives, disk, drv, p, found, req, result, failed, abandoned, before, left>>

\* io_prepare: wait while the channel is busy, then the registers; the number of
\* sectors is cut to a byte
IoPrepare ==
  LET c == req.dev[1] IN
  /\ ide_pc = "prepare" /\ ~drv[Selected(c)].busy
  /\ hdd' = [hdd EXCEPT ![c] = [drive |-> req.dev[2],
       head |-> IF req.lba >= LBA28 THEN 0 ELSE req.lba \div BYTE^3]]
  /\ regs' = [regs EXCEPT ![c] = FoldLeft(Write, @, IoRegisters(req.lba, req.num % BYTE))]
  /\ ide_pc' = "command"
  /\ UNCHANGED <<drives, disk, drv, p, found, req, result, failed, abandoned, before, left>>

\* the end of io_prepare; a read of 0 sectors is over, but its drive takes 0 for
\* BYTE of them (BYTE^2 in LBA48) and has the transfer before it
IoCommand ==
  /\ ide_pc = "command"
  /\ Command(req.dev[1], req.op, req.lba >= LBA28)
  /\ failed' = failed \ {req.dev}
  /\ abandoned' = IF req.num = 0 THEN abandoned \cup {req.dev} ELSE abandoned
  /\ ide_pc' = IF req.num = 0 THEN "done" ELSE req.op
  /\ UNCHANGED <<drives, disk, regs, hdd, p, found, req, result, before, left>>

\* ide_polling with the advanced check: the error it returns
AtaError ==
  <<"NoAddressMarkFound", "NoMediaOrMediaError", "CommandAborted", "NoMediaOrMediaError",
    "IdMarkNotFound", "NoMediaOrMediaError", "UncorrectableDataError", "BadSectors">>
IdePolling(d) ==
  IF d.err # {} THEN AtaError[1 + CHOOSE b \in d.err : \A o \in d.err : b <= o]
  ELSE IF d.df THEN "DeviceFault" ELSE "NoError"

Done == req.done + 1 = req.num

\* read_impl: one sector, or the error
ReadSector ==
  LET d == drv[req.dev] IN
  /\ ide_pc = "read" /\ ~d.busy
  /\ \/ /\ IdePolling(d) # "NoError"
        /\ ide_pc' = "error"
        /\ UNCHANGED <<result, drv, req>>
     \/ /\ IdePolling(d) = "NoError"
        /\ result' = result \o d.buffer
        /\ drv' = [drv EXCEPT ![req.dev] = IF d.drq THEN NextSector(@) ELSE @]
        /\ req' = [req EXCEPT !.done = @ + 1]
        /\ ide_pc' = IF Done THEN "done" ELSE "read"
  /\ UNCHANGED <<drives, disk, regs, hdd, p, found, failed, abandoned, before, left>>

\* write_impl: one sector, whatever the drive says; one that expects none ignores it
WriteSector ==
  LET d == drv[req.dev]
      expected == d.drq /\ d.op = "write"
  IN
  /\ ide_pc = "write" /\ ~d.busy
  /\ disk' = IF expected THEN [disk EXCEPT ![req.dev][d.lba] = Data(req.done)] ELSE disk
  /\ drv' = [drv EXCEPT ![req.dev] = IF expected THEN NextSector(@) ELSE @]
  /\ req' = [req EXCEPT !.done = @ + 1]
  /\ ide_pc' = IF Done THEN "flush" ELSE "write"
  /\ UNCHANGED <<drives, regs, hdd, p, found, result, failed, abandoned, before, left>>

\* the flush command is written without a look at the status
Flush ==
  /\ ide_pc = "flush"
  /\ Command(req.dev[1], "flush", FALSE)
  /\ ide_pc' = "flushing"
  /\ UNCHANGED <<drives, disk, regs, hdd, p, found, req, result, failed, abandoned, before, left>>

Flushed ==
  /\ ide_pc = "flushing" /\ ~drv[req.dev].busy
  /\ ide_pc' = "done"
  /\ UNCHANGED <<drivers, p, found, req, result, failed, abandoned, before, left>>

\* the caller takes the result
Return ==
  /\ ide_pc \in {"done", "error", "out_of_range"}
  /\ ide_pc' = "ready"
  /\ req' = NoRequest /\ result' = <<>> /\ before' = disk
  /\ UNCHANGED <<drivers, p, found, failed, abandoned, left>>

IdeNext ==
  \/ \E w \in DOMAIN drives : Serve(w)
  \/ SelectDrive \/ Identify \/ CheckStatus \/ WaitStatus
  \/ \E dev \in found, lba \in Lba :
       \/ \E num \in 0 .. BYTE - 1 : Request(dev, "read", lba, num)
       \/ \E num \in 1 .. BYTE - 1 : Request(dev, "write", lba, num)
  \/ IoPrepare \/ IoCommand \/ ReadSector \/ WriteSector \/ Flush \/ Flushed \/ Return

IdeSpec == IdeInit /\ [][IdeNext]_ideVars

\* the CPU goes on, and a busy drive ends being busy
Driver == SelectDrive \/ Identify \/ CheckStatus \/ WaitStatus \/ IoPrepare \/ IoCommand
          \/ ReadSector \/ WriteSector \/ Flush \/ Flushed \/ Return
----------------------------------------------------------------------------
\* ide_initialize finds the ATA drives that answer IDENTIFY, and only those, with
\* their sizes: it passes over empty places and over devices that refuse the
\* command.  A size above 32 bits is cut, and then never too large.
FoundAreDrives ==
  ide_pc \notin {"select", "identify", "status", "wait"} =>
    /\ \A dev \in found :
         LET d == drives[dev.place] IN
         d.kind = "ata" /\ dev.size <= d.size /\ (d.size < U32 => dev.size = d.size)
    /\ \A w \in DOMAIN drives :
         drives[w].kind = "ata" => w \in failed \/ \E dev \in found : dev.place = w

\* A read that returns Ok returns the sectors that were asked for, of the drive
\* that was asked, however the address is split into registers, and only if
\* the drive did not fail.  A drive that was once asked for 0 sectors is
\* excepted: the driver leaves it in a transfer, in which it may ignore commands.
ReadReturnsSectors ==
  ide_pc = "done" /\ req.op = "read" /\ req.dev \notin abandoned =>
    /\ req.dev \notin failed
    /\ result = [k \in 1 .. req.num |-> disk[req.dev][req.lba + k - 1]]

\* A request changes no sector but those it writes, on no other drive, also
\* when the drive fails in the middle or is still in the transfer of an
\* earlier read of 0 sectors.
OnlyRequestedSectorsChange ==
  \A w \in DOMAIN disk : \A n \in DOMAIN disk[w] :
    disk[w][n] # before[w][n] =>
      req.op = "write" /\ w = req.dev /\ n \in req.lba .. req.lba + req.num - 1

\* A request of a drive that answers is over some day, and so is the search for
\* drives, although the driver spins on the status register.
RequestsEnd == ide_pc \in {"wait", "prepare"} ~> ide_pc \in {"ready", "select"}

\* A write that returns Ok has written all its sectors: write_impl ends with
\* "err @ _ => Err(err)" for the errors of the drive.
WriteOkIsWritten ==
  ide_pc = "done" /\ req.op = "write" =>
    \A k \in 0 .. req.num - 1 :
      req.lba + k \in DOMAIN disk[req.dev] /\ disk[req.dev][req.lba + k] = Data(k)
============================================================================
