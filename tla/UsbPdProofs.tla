---------------------------- MODULE UsbPdProofs ----------------------------
(***************************************************************************)
(* Theorems about UsbPd for any number of sectors and of faults.  A boot    *)
(* takes over the controller as an earlier one left it: with a request in  *)
(* execution, and the registers of any position of init.  The invariant    *)
(* says, for every position, what the registers hold, and how far reading, *)
(* erasing and writing have come; and that what is in execution does not   *)
(* harm a memory that is programmed, whoever asked for it.                 *)
(***************************************************************************)
EXTENDS UsbPd, TLAPS

\* What a request in execution may do to the memory, at every position: it
\* neither erases nor writes what NVM_DATA says.
Harmless ==
  ctrl0.request =>
    /\ ctrl1.op = "EraseSectors" => nvm # NvmData
    /\ ctrl1.op = "WriteSector" =>
         nvm[ctrl0.sector] = Blank /\ plr = ctrl0.sector

Early == {"id", "password", "quiet"}
Reading == {"read_op", "read_request", "read_poll", "read_fetch"}
Erasing == {"ser_op", "ser_request", "ser_poll",
            "erase_op", "erase_request", "erase_poll"}
Writing == {"buffer", "plr_op", "plr_request", "plr_poll",
            "write_op", "write_request", "write_poll"}
Locking == {"lock_ctrl0", "lock_ctrl1", "lock_password"}
Negotiating == {"pdo", "pdo_num", "pd_reset", "running"}
Polling == {"read_poll", "ser_poll", "erase_poll", "plr_poll", "write_poll"}

\* Only a boot that has not reached the first write of NVMCtrl0 finds a request
\* of another boot; later ones are init's own, and it waits for each.
OwnRequests == ctrl0.request => pc \in Early \cup Polling

\* The registers that init relies on.
Registers ==
  /\ pc \notin {"id", "password"} \cup Negotiating => unlocked
  /\ pc \in Negotiating => ~ unlocked
  /\ pc \in {"lock_ctrl1", "lock_password"} \cup Negotiating => ~ ctrl0.power
  /\ pc \in {"pdo_num", "pd_reset", "running"} => "value" \in pdo
  /\ pc \in {"pd_reset", "running"} => "number" \in pdo
  /\ pc = "running" => contract = {"value", "number"}

\* The operation a request is made for.
Operations ==
  /\ pc \in {"read_request", "read_poll"} => ctrl1.op = "ReadSector"
  /\ pc = "read_poll" /\ ctrl0.request => ctrl0.sector = sector
  /\ pc \in {"ser_request", "ser_poll"} => ctrl1 = Ctrl1("LoadSer", Sectors)
  /\ pc \in {"erase_request", "erase_poll"} => ctrl1.op = "EraseSectors"
  /\ pc \in {"plr_request", "plr_poll"} => ctrl1.op = "LoadPlr"
  /\ pc \in {"write_request", "write_poll"} => ctrl1.op = "WriteSector"
  /\ pc = "write_poll" /\ ctrl0.request => ctrl0.sector = sector

\* read_sectors: what was read so far is what the memory holds.
ReadSoFar ==
  /\ pc \in Reading => \A s \in Sectors : s < sector => data[s] = nvm[s]
  /\ pc = "read_poll" /\ ~ ctrl0.request => buffer = nvm[sector]
  /\ pc = "read_fetch" => buffer = nvm[sector]
  /\ pc = "compare" => data = nvm

\* write_sectors: nothing is erased that is right, and all is blank before the
\* first write.
ErasedSoFar ==
  /\ pc \in Erasing =>
       nvm # NvmData \/ (pc = "erase_poll" /\ ~ ctrl0.request)
  /\ pc = "ser_poll" /\ ~ ctrl0.request => ser = Sectors
  /\ pc \in {"erase_op", "erase_request", "erase_poll"} => ser = Sectors
  /\ pc = "erase_poll" /\ ~ ctrl0.request => \A s \in Sectors : nvm[s] = Blank

\* The sectors before the loop's index are written, those behind it blank.
WrittenSoFar ==
  /\ pc \in Writing =>
       \A s \in Sectors :
         /\ s < sector => nvm[s] = s
         /\ sector < s => nvm[s] = Blank
  /\ pc \in Writing =>
       nvm[sector] = IF pc = "write_poll" /\ ~ ctrl0.request
                       THEN sector ELSE Blank
  /\ pc \in {"plr_op", "plr_request", "plr_poll"} => buffer = sector
  /\ pc = "plr_poll" /\ ~ ctrl0.request => plr = sector
  /\ pc \in {"write_op", "write_request", "write_poll"} => plr = sector

Programmed == pc \in Locking \cup Negotiating => nvm = NvmData

\* Outside of its loops the index is 0.
LoopStarts == pc \notin Reading \cup Writing => sector = 0

IInv ==
  /\ TypeOK
  /\ Harmless /\ OwnRequests /\ Registers /\ Operations
  /\ ReadSoFar /\ ErasedSoFar /\ WrittenSoFar /\ Programmed /\ LoopStarts

USE UsbPdAssumption

\* A memory in which no request is at work is not touched by breaking it off.
LEMMA Untouched ==
  ASSUME TypeOK, ~ ctrl0.request, nvm' \in BrokenOff
  PROVE  nvm' = nvm
  BY DEF TypeOK, BrokenOff, Touched

\* Sectors are numbers, and what NVM_DATA has for them is not blank.
LEMMA Numbers ==
  /\ 0 \in Sectors
  /\ \A s \in Sectors : s \in Nat /\ s \in Contents /\ s # Blank
  /\ Blank \in Contents /\ Garbage \in Contents
  /\ NothingRead \in [Sectors -> Contents]
  BY DEF Sectors, Contents, Blank, Garbage, NothingRead

USE Numbers DEF Early, Reading, Erasing, Writing, Locking, Negotiating,
   Polling

\* The boot finds a request of an earlier one, or none, and changes nothing.
LEMMA NewStep ==
  ASSUME IInv, New
  PROVE  IInv'
<1> USE DEF IInv, Ctrl0, Ctrl1
<1>1. CASE Reads("id", "password") /\ Stays
  <2> USE <1>1 DEF Reads, Goes, Stays, registers, memory, profile
  <2>1. TypeOK'
    BY DEF TypeOK, OpCodes
  <2>2. Registers' /\ OwnRequests' /\ LoopStarts'
    BY DEF TypeOK, Registers, OwnRequests, LoopStarts
  <2>3. Harmless' /\ Operations' /\ Programmed'
    BY DEF TypeOK, Harmless, Operations, Programmed, OwnRequests
  <2>4. ReadSoFar' /\ ErasedSoFar' /\ WrittenSoFar'
    BY DEF TypeOK, ReadSoFar, ErasedSoFar, WrittenSoFar, OwnRequests,
       LoopStarts
  <2>5. QED BY <2>1, <2>2, <2>3, <2>4
<1>2. QED
  BY <1>1 DEF New

\* The first write of NVMCtrl0 breaks that request off; from then on all are
\* init's own, for the password is set before.
LEMMA UnlockNvmStep ==
  ASSUME IInv, UnlockNvm
  PROVE  IInv'
<1> USE DEF IInv, Ctrl0, Ctrl1
<1>1. CASE WritePassword("password", "quiet", TRUE) /\ Stays
  <2> USE <1>1 DEF WritePassword, Goes, Stays, memory, profile
  <2>1. TypeOK'
    BY DEF TypeOK, OpCodes
  <2>2. Registers' /\ OwnRequests' /\ LoopStarts'
    BY DEF TypeOK, Registers, OwnRequests, LoopStarts
  <2>3. Harmless' /\ Operations' /\ Programmed'
    BY DEF TypeOK, Harmless, Operations, Programmed, OwnRequests
  <2>4. ReadSoFar' /\ ErasedSoFar' /\ WrittenSoFar'
    BY DEF TypeOK, ReadSoFar, ErasedSoFar, WrittenSoFar, OwnRequests,
       LoopStarts
  <2>5. QED BY <2>1, <2>2, <2>3, <2>4
<1>2. CASE WriteCtrl0("quiet", "power", Ctrl0(0, FALSE, FALSE)) /\ Stays
  <2> USE <1>2 DEF WriteCtrl0, Goes, Stays, profile
  <2>0. nvm' \in [Sectors -> Contents] /\ ctrl0' = Ctrl0(0, FALSE, FALSE)
    BY DEF TypeOK, BrokenOff
  <2>1. TypeOK'
    BY <2>0 DEF TypeOK, OpCodes
  <2>2. Registers' /\ OwnRequests' /\ LoopStarts'
    BY <2>0 DEF TypeOK, Registers, OwnRequests, LoopStarts
  <2>3. Harmless' /\ Operations' /\ Programmed'
    BY <2>0 DEF TypeOK, Harmless, Operations, Programmed, OwnRequests
  <2>4. ReadSoFar' /\ ErasedSoFar' /\ WrittenSoFar'
    BY <2>0 DEF TypeOK, ReadSoFar, ErasedSoFar, WrittenSoFar, OwnRequests,
       LoopStarts
  <2>5. QED BY <2>1, <2>2, <2>3, <2>4
<1>3. CASE WriteCtrl0("power", "read_op", Ctrl0(0, TRUE, FALSE)) /\ Stays
  <2> USE <1>3 DEF WriteCtrl0, Goes, Stays, profile
  <2>0. nvm' = nvm /\ ctrl0' = Ctrl0(0, TRUE, FALSE)
    BY Untouched DEF TypeOK, OwnRequests, Registers
  <2>1. TypeOK'
    BY <2>0 DEF TypeOK, OpCodes
  <2>2. Registers' /\ OwnRequests' /\ LoopStarts'
    BY <2>0 DEF TypeOK, Registers, OwnRequests, LoopStarts
  <2>3. Harmless' /\ Operations' /\ Programmed'
    BY <2>0 DEF TypeOK, Harmless, Operations, Programmed, OwnRequests
  <2>4. ReadSoFar' /\ ErasedSoFar' /\ WrittenSoFar'
    BY <2>0 DEF TypeOK, ReadSoFar, ErasedSoFar, WrittenSoFar, OwnRequests,
       LoopStarts
  <2>5. QED BY <2>1, <2>2, <2>3, <2>4
<1>4. QED
  BY <1>1, <1>2, <1>3 DEF UnlockNvm

\* The request reads the sector at the index, whatever was in the registers.
LEMMA ReadSectorStep ==
  ASSUME IInv, ReadSector
  PROVE  IInv'
<1> USE DEF IInv, Ctrl0, Ctrl1
<1>1. CASE WriteCtrl1("read_op", "read_request", Ctrl1("ReadSector", {})) /\
      Stays
  <2> USE <1>1 DEF WriteCtrl1, Goes, Stays, memory, profile
  <2>1. TypeOK'
    BY DEF TypeOK, OpCodes
  <2>2. Registers' /\ OwnRequests' /\ LoopStarts'
    BY DEF TypeOK, Registers, OwnRequests, LoopStarts
  <2>3. Harmless' /\ Operations' /\ Programmed'
    BY DEF TypeOK, Harmless, Operations, Programmed, OwnRequests
  <2>4. ReadSoFar' /\ ErasedSoFar' /\ WrittenSoFar'
    BY DEF TypeOK, ReadSoFar, ErasedSoFar, WrittenSoFar, OwnRequests,
       LoopStarts
  <2>5. QED BY <2>1, <2>2, <2>3, <2>4
<1>2. CASE Request("read_request", "read_poll", sector) /\ Stays
  <2> USE <1>2 DEF Request, WriteCtrl0, Goes, Stays, profile
  <2>0. nvm' = nvm /\ ctrl0' = Ctrl0(sector, TRUE, TRUE)
    BY Untouched DEF TypeOK, OwnRequests, Registers
  <2>1. TypeOK'
    BY <2>0 DEF TypeOK, OpCodes
  <2>2. Registers' /\ OwnRequests' /\ LoopStarts'
    BY <2>0 DEF TypeOK, Registers, OwnRequests, LoopStarts
  <2>3. Harmless' /\ Operations' /\ Programmed'
    BY <2>0 DEF TypeOK, Harmless, Operations, Programmed, OwnRequests
  <2>4. ReadSoFar' /\ ErasedSoFar' /\ WrittenSoFar'
    BY <2>0 DEF TypeOK, ReadSoFar, ErasedSoFar, WrittenSoFar, OwnRequests,
       LoopStarts
  <2>5. QED BY <2>1, <2>2, <2>3, <2>4
<1>3. CASE Poll("read_poll", "read_fetch") /\ Stays
  <2> USE <1>3 DEF Poll, Reads, Goes, Stays, registers, memory, profile
  <2>1. TypeOK'
    BY DEF TypeOK, OpCodes
  <2>2. Registers' /\ OwnRequests' /\ LoopStarts'
    BY DEF TypeOK, Registers, OwnRequests, LoopStarts
  <2>3. Harmless' /\ Operations' /\ Programmed'
    BY DEF TypeOK, Harmless, Operations, Programmed, OwnRequests
  <2>4. ReadSoFar' /\ ErasedSoFar' /\ WrittenSoFar'
    BY DEF TypeOK, ReadSoFar, ErasedSoFar, WrittenSoFar, OwnRequests,
       LoopStarts
  <2>5. QED BY <2>1, <2>2, <2>3, <2>4
<1>4. QED
  BY <1>1, <1>2, <1>3 DEF ReadSector

\* All sectors are flagged before they are erased, and blank after.
LEMMA EraseSectorsStep ==
  ASSUME IInv, EraseSectors
  PROVE  IInv'
<1> USE DEF IInv, Ctrl0, Ctrl1
<1>1. CASE WriteCtrl1("ser_op", "ser_request", Ctrl1("LoadSer", Sectors)) /\
      Stays
  <2> USE <1>1 DEF WriteCtrl1, Goes, Stays, memory, profile
  <2>1. TypeOK'
    BY DEF TypeOK, OpCodes
  <2>2. Registers' /\ OwnRequests' /\ LoopStarts'
    BY DEF TypeOK, Registers, OwnRequests, LoopStarts
  <2>3. Harmless' /\ Operations' /\ Programmed'
    BY DEF TypeOK, Harmless, Operations, Programmed, OwnRequests
  <2>4. ReadSoFar' /\ ErasedSoFar' /\ WrittenSoFar'
    BY DEF TypeOK, ReadSoFar, ErasedSoFar, WrittenSoFar, OwnRequests,
       LoopStarts
  <2>5. QED BY <2>1, <2>2, <2>3, <2>4
<1>2. CASE Request("ser_request", "ser_poll", 0) /\ Stays
  <2> USE <1>2 DEF Request, WriteCtrl0, Goes, Stays, profile
  <2>0. nvm' = nvm /\ ctrl0' = Ctrl0(0, TRUE, TRUE)
    BY Untouched DEF TypeOK, OwnRequests, Registers
  <2>1. TypeOK'
    BY <2>0 DEF TypeOK, OpCodes
  <2>2. Registers' /\ OwnRequests' /\ LoopStarts'
    BY <2>0 DEF TypeOK, Registers, OwnRequests, LoopStarts
  <2>3. Harmless' /\ Operations' /\ Programmed'
    BY <2>0 DEF TypeOK, Harmless, Operations, Programmed, OwnRequests
  <2>4. ReadSoFar' /\ ErasedSoFar' /\ WrittenSoFar'
    BY <2>0 DEF TypeOK, ReadSoFar, ErasedSoFar, WrittenSoFar, OwnRequests,
       LoopStarts
  <2>5. QED BY <2>1, <2>2, <2>3, <2>4
<1>3. CASE Poll("ser_poll", "erase_op") /\ Stays
  <2> USE <1>3 DEF Poll, Reads, Goes, Stays, registers, memory, profile
  <2>1. TypeOK'
    BY DEF TypeOK, OpCodes
  <2>2. Registers' /\ OwnRequests' /\ LoopStarts'
    BY DEF TypeOK, Registers, OwnRequests, LoopStarts
  <2>3. Harmless' /\ Operations' /\ Programmed'
    BY DEF TypeOK, Harmless, Operations, Programmed, OwnRequests
  <2>4. ReadSoFar' /\ ErasedSoFar' /\ WrittenSoFar'
    BY DEF TypeOK, ReadSoFar, ErasedSoFar, WrittenSoFar, OwnRequests,
       LoopStarts
  <2>5. QED BY <2>1, <2>2, <2>3, <2>4
<1>4. CASE WriteCtrl1("erase_op", "erase_request", Ctrl1("EraseSectors", {}))
      /\ Stays
  <2> USE <1>4 DEF WriteCtrl1, Goes, Stays, memory, profile
  <2>1. TypeOK'
    BY DEF TypeOK, OpCodes
  <2>2. Registers' /\ OwnRequests' /\ LoopStarts'
    BY DEF TypeOK, Registers, OwnRequests, LoopStarts
  <2>3. Harmless' /\ Operations' /\ Programmed'
    BY DEF TypeOK, Harmless, Operations, Programmed, OwnRequests
  <2>4. ReadSoFar' /\ ErasedSoFar' /\ WrittenSoFar'
    BY DEF TypeOK, ReadSoFar, ErasedSoFar, WrittenSoFar, OwnRequests,
       LoopStarts
  <2>5. QED BY <2>1, <2>2, <2>3, <2>4
<1>5. CASE Request("erase_request", "erase_poll", 0) /\ Stays
  <2> USE <1>5 DEF Request, WriteCtrl0, Goes, Stays, profile
  <2>0. nvm' = nvm /\ ctrl0' = Ctrl0(0, TRUE, TRUE)
    BY Untouched DEF TypeOK, OwnRequests, Registers
  <2>1. TypeOK'
    BY <2>0 DEF TypeOK, OpCodes
  <2>2. Registers' /\ OwnRequests' /\ LoopStarts'
    BY <2>0 DEF TypeOK, Registers, OwnRequests, LoopStarts
  <2>3. Harmless' /\ Operations' /\ Programmed'
    BY <2>0 DEF TypeOK, Harmless, Operations, Programmed, OwnRequests,
       ErasedSoFar
  <2>4. ReadSoFar' /\ ErasedSoFar' /\ WrittenSoFar'
    BY <2>0 DEF TypeOK, ReadSoFar, ErasedSoFar, WrittenSoFar, OwnRequests,
       LoopStarts
  <2>5. QED BY <2>1, <2>2, <2>3, <2>4
<1>6. CASE Poll("erase_poll", "buffer") /\ Stays
  <2> USE <1>6 DEF Poll, Reads, Goes, Stays, registers, memory, profile
  <2>1. TypeOK'
    BY DEF TypeOK, OpCodes
  <2>2. Registers' /\ OwnRequests' /\ LoopStarts'
    BY DEF TypeOK, Registers, OwnRequests, LoopStarts
  <2>3. Harmless' /\ Operations' /\ Programmed'
    BY DEF TypeOK, Harmless, Operations, Programmed, OwnRequests
  <2>4. ReadSoFar' /\ ErasedSoFar' /\ WrittenSoFar'
    BY DEF TypeOK, ReadSoFar, ErasedSoFar, WrittenSoFar, OwnRequests,
       LoopStarts
  <2>5. QED BY <2>1, <2>2, <2>3, <2>4
<1>7. QED
  BY <1>1, <1>2, <1>3, <1>4, <1>5, <1>6 DEF EraseSectors

\* The sector at the index is still blank when the controller writes it.
LEMMA WriteSectorStep ==
  ASSUME IInv, WriteSector
  PROVE  IInv'
<1> USE DEF IInv, Ctrl0, Ctrl1
<1>1. CASE WriteBuffer("buffer", "plr_op", sector) /\ Stays
  <2> USE <1>1 DEF WriteBuffer, Goes, Stays, registers, profile
  <2>1. TypeOK'
    BY DEF TypeOK, OpCodes
  <2>2. Registers' /\ OwnRequests' /\ LoopStarts'
    BY DEF TypeOK, Registers, OwnRequests, LoopStarts
  <2>3. Harmless' /\ Operations' /\ Programmed'
    BY DEF TypeOK, Harmless, Operations, Programmed, OwnRequests
  <2>4. ReadSoFar' /\ ErasedSoFar' /\ WrittenSoFar'
    BY DEF TypeOK, ReadSoFar, ErasedSoFar, WrittenSoFar, OwnRequests,
       LoopStarts
  <2>5. QED BY <2>1, <2>2, <2>3, <2>4
<1>2. CASE WriteCtrl1("plr_op", "plr_request", Ctrl1("LoadPlr", {})) /\ Stays
  <2> USE <1>2 DEF WriteCtrl1, Goes, Stays, memory, profile
  <2>1. TypeOK'
    BY DEF TypeOK, OpCodes
  <2>2. Registers' /\ OwnRequests' /\ LoopStarts'
    BY DEF TypeOK, Registers, OwnRequests, LoopStarts
  <2>3. Harmless' /\ Operations' /\ Programmed'
    BY DEF TypeOK, Harmless, Operations, Programmed, OwnRequests
  <2>4. ReadSoFar' /\ ErasedSoFar' /\ WrittenSoFar'
    BY DEF TypeOK, ReadSoFar, ErasedSoFar, WrittenSoFar, OwnRequests,
       LoopStarts
  <2>5. QED BY <2>1, <2>2, <2>3, <2>4
<1>3. CASE Request("plr_request", "plr_poll", 0) /\ Stays
  <2> USE <1>3 DEF Request, WriteCtrl0, Goes, Stays, profile
  <2>0. nvm' = nvm /\ ctrl0' = Ctrl0(0, TRUE, TRUE)
    BY Untouched DEF TypeOK, OwnRequests, Registers
  <2>1. TypeOK'
    BY <2>0 DEF TypeOK, OpCodes
  <2>2. Registers' /\ OwnRequests' /\ LoopStarts'
    BY <2>0 DEF TypeOK, Registers, OwnRequests, LoopStarts
  <2>3. Harmless' /\ Operations' /\ Programmed'
    BY <2>0 DEF TypeOK, Harmless, Operations, Programmed, OwnRequests
  <2>4. ReadSoFar' /\ ErasedSoFar' /\ WrittenSoFar'
    BY <2>0 DEF TypeOK, ReadSoFar, ErasedSoFar, WrittenSoFar, OwnRequests,
       LoopStarts
  <2>5. QED BY <2>1, <2>2, <2>3, <2>4
<1>4. CASE Poll("plr_poll", "write_op") /\ Stays
  <2> USE <1>4 DEF Poll, Reads, Goes, Stays, registers, memory, profile
  <2>1. TypeOK'
    BY DEF TypeOK, OpCodes
  <2>2. Registers' /\ OwnRequests' /\ LoopStarts'
    BY DEF TypeOK, Registers, OwnRequests, LoopStarts
  <2>3. Harmless' /\ Operations' /\ Programmed'
    BY DEF TypeOK, Harmless, Operations, Programmed, OwnRequests
  <2>4. ReadSoFar' /\ ErasedSoFar' /\ WrittenSoFar'
    BY DEF TypeOK, ReadSoFar, ErasedSoFar, WrittenSoFar, OwnRequests,
       LoopStarts
  <2>5. QED BY <2>1, <2>2, <2>3, <2>4
<1>5. CASE WriteCtrl1("write_op", "write_request", Ctrl1("WriteSector", {}))
      /\ Stays
  <2> USE <1>5 DEF WriteCtrl1, Goes, Stays, memory, profile
  <2>1. TypeOK'
    BY DEF TypeOK, OpCodes
  <2>2. Registers' /\ OwnRequests' /\ LoopStarts'
    BY DEF TypeOK, Registers, OwnRequests, LoopStarts
  <2>3. Harmless' /\ Operations' /\ Programmed'
    BY DEF TypeOK, Harmless, Operations, Programmed, OwnRequests
  <2>4. ReadSoFar' /\ ErasedSoFar' /\ WrittenSoFar'
    BY DEF TypeOK, ReadSoFar, ErasedSoFar, WrittenSoFar, OwnRequests,
       LoopStarts
  <2>5. QED BY <2>1, <2>2, <2>3, <2>4
<1>6. CASE Request("write_request", "write_poll", sector) /\ Stays
  <2> USE <1>6 DEF Request, WriteCtrl0, Goes, Stays, profile
  <2>0. nvm' = nvm /\ ctrl0' = Ctrl0(sector, TRUE, TRUE)
    BY Untouched DEF TypeOK, OwnRequests, Registers
  <2>1. TypeOK'
    BY <2>0 DEF TypeOK, OpCodes
  <2>2. Registers' /\ OwnRequests' /\ LoopStarts'
    BY <2>0 DEF TypeOK, Registers, OwnRequests, LoopStarts
  <2>3. Harmless' /\ Operations' /\ Programmed'
    BY <2>0 DEF TypeOK, Harmless, Operations, Programmed, OwnRequests,
       WrittenSoFar
  <2>4. ReadSoFar' /\ ErasedSoFar' /\ WrittenSoFar'
    BY <2>0 DEF TypeOK, ReadSoFar, ErasedSoFar, WrittenSoFar, OwnRequests,
       LoopStarts
  <2>5. QED BY <2>1, <2>2, <2>3, <2>4
<1>7. QED
  BY <1>1, <1>2, <1>3, <1>4, <1>5, <1>6 DEF WriteSector

\* The memory is locked, and stays what it is.
LEMMA LockNvmStep ==
  ASSUME IInv, LockNvm
  PROVE  IInv'
<1> USE DEF IInv, Ctrl0, Ctrl1
<1>1. CASE WriteCtrl0("lock_ctrl0", "lock_ctrl1", Ctrl0(0, FALSE, FALSE)) /\
      Stays
  <2> USE <1>1 DEF WriteCtrl0, Goes, Stays, profile
  <2>0. nvm' = nvm /\ ctrl0' = Ctrl0(0, FALSE, FALSE)
    BY Untouched DEF TypeOK, OwnRequests, Registers
  <2>1. TypeOK'
    BY <2>0 DEF TypeOK, OpCodes
  <2>2. Registers' /\ OwnRequests' /\ LoopStarts'
    BY <2>0 DEF TypeOK, Registers, OwnRequests, LoopStarts
  <2>3. Harmless' /\ Operations' /\ Programmed'
    BY <2>0 DEF TypeOK, Harmless, Operations, Programmed, OwnRequests
  <2>4. ReadSoFar' /\ ErasedSoFar' /\ WrittenSoFar'
    BY <2>0 DEF TypeOK, ReadSoFar, ErasedSoFar, WrittenSoFar, OwnRequests,
       LoopStarts
  <2>5. QED BY <2>1, <2>2, <2>3, <2>4
<1>2. CASE WriteCtrl1("lock_ctrl1", "lock_password", Ctrl1("ReadSector", {}))
      /\ Stays
  <2> USE <1>2 DEF WriteCtrl1, Goes, Stays, memory, profile
  <2>1. TypeOK'
    BY DEF TypeOK, OpCodes
  <2>2. Registers' /\ OwnRequests' /\ LoopStarts'
    BY DEF TypeOK, Registers, OwnRequests, LoopStarts
  <2>3. Harmless' /\ Operations' /\ Programmed'
    BY DEF TypeOK, Harmless, Operations, Programmed, OwnRequests
  <2>4. ReadSoFar' /\ ErasedSoFar' /\ WrittenSoFar'
    BY DEF TypeOK, ReadSoFar, ErasedSoFar, WrittenSoFar, OwnRequests,
       LoopStarts
  <2>5. QED BY <2>1, <2>2, <2>3, <2>4
<1>3. CASE WritePassword("lock_password", "pdo", FALSE) /\ Stays
  <2> USE <1>3 DEF WritePassword, Goes, Stays, memory, profile
  <2>1. TypeOK'
    BY DEF TypeOK, OpCodes
  <2>2. Registers' /\ OwnRequests' /\ LoopStarts'
    BY DEF TypeOK, Registers, OwnRequests, LoopStarts
  <2>3. Harmless' /\ Operations' /\ Programmed'
    BY DEF TypeOK, Harmless, Operations, Programmed, OwnRequests
  <2>4. ReadSoFar' /\ ErasedSoFar' /\ WrittenSoFar'
    BY DEF TypeOK, ReadSoFar, ErasedSoFar, WrittenSoFar, OwnRequests,
       LoopStarts
  <2>5. QED BY <2>1, <2>2, <2>3, <2>4
<1>4. QED
  BY <1>1, <1>2, <1>3 DEF LockNvm

\* Both parts of the profile are in the registers before the reset.
LEMMA NegotiateStep ==
  ASSUME IInv, Negotiate
  PROVE  IInv'
<1> USE DEF IInv, Ctrl0, Ctrl1
<1>1. CASE WritePdo("pdo", "pdo_num", "value") /\ Stays
  <2> USE <1>1 DEF WritePdo, Goes, Stays, registers, memory
  <2>1. TypeOK'
    BY DEF TypeOK, OpCodes
  <2>2. Registers' /\ OwnRequests' /\ LoopStarts'
    BY DEF TypeOK, Registers, OwnRequests, LoopStarts
  <2>3. Harmless' /\ Operations' /\ Programmed'
    BY DEF TypeOK, Harmless, Operations, Programmed, OwnRequests
  <2>4. ReadSoFar' /\ ErasedSoFar' /\ WrittenSoFar'
    BY DEF TypeOK, ReadSoFar, ErasedSoFar, WrittenSoFar, OwnRequests,
       LoopStarts
  <2>5. QED BY <2>1, <2>2, <2>3, <2>4
<1>2. CASE WritePdo("pdo_num", "pd_reset", "number") /\ Stays
  <2> USE <1>2 DEF WritePdo, Goes, Stays, registers, memory
  <2>1. TypeOK'
    BY DEF TypeOK, OpCodes
  <2>2. Registers' /\ OwnRequests' /\ LoopStarts'
    BY DEF TypeOK, Registers, OwnRequests, LoopStarts
  <2>3. Harmless' /\ Operations' /\ Programmed'
    BY DEF TypeOK, Harmless, Operations, Programmed, OwnRequests
  <2>4. ReadSoFar' /\ ErasedSoFar' /\ WrittenSoFar'
    BY DEF TypeOK, ReadSoFar, ErasedSoFar, WrittenSoFar, OwnRequests,
       LoopStarts
  <2>5. QED BY <2>1, <2>2, <2>3, <2>4
<1>3. CASE SendPdReset("pd_reset", "running") /\ Stays
  <2> USE <1>3 DEF SendPdReset, Goes, Stays, registers, memory
  <2>0. pdo = {"value", "number"}
    BY DEF TypeOK, Registers
  <2>1. TypeOK'
    BY <2>0 DEF TypeOK, OpCodes
  <2>2. Registers' /\ OwnRequests' /\ LoopStarts'
    BY <2>0 DEF TypeOK, Registers, OwnRequests, LoopStarts
  <2>3. Harmless' /\ Operations' /\ Programmed'
    BY <2>0 DEF TypeOK, Harmless, Operations, Programmed, OwnRequests
  <2>4. ReadSoFar' /\ ErasedSoFar' /\ WrittenSoFar'
    BY <2>0 DEF TypeOK, ReadSoFar, ErasedSoFar, WrittenSoFar, OwnRequests,
       LoopStarts
  <2>5. QED BY <2>1, <2>2, <2>3, <2>4
<1>4. QED
  BY <1>1, <1>2, <1>3 DEF Negotiate

\* One more sector is read; after the last, data is the memory.
LEMMA ReadFetchStep ==
  ASSUME IInv, ReadFetch
  PROVE  IInv'
<1> USE DEF IInv, ReadFetch, Reads, Goes, registers, memory, profile
<1>1. sector \in Nat /\ \A s \in Sectors : s <= sector <=> s < sector \/ s =
      sector
  BY DEF TypeOK
<1>2. pc = "read_fetch" /\ buffer = nvm[sector] /\ data' = [data EXCEPT
      ![sector] = buffer]
  BY DEF ReadSoFar
<1>3. \A s \in Sectors : s <= sector => data'[s] = nvm[s]
  BY <1>1, <1>2 DEF TypeOK, ReadSoFar
<1>4. CASE sector + 1 < NumSectors
  <2> USE <1>4
  <2>1. sector' \in Sectors
    BY <1>1 DEF Sectors
  <2>2. TypeOK'
    BY <2>1 DEF TypeOK
  <2>3. Harmless' /\ OwnRequests' /\ Registers' /\ Operations' /\ LoopStarts'
        /\ Programmed'
    BY DEF TypeOK, Harmless, OwnRequests, Registers, Operations, LoopStarts,
       Programmed
  <2>4. ReadSoFar' /\ ErasedSoFar' /\ WrittenSoFar'
    BY <1>1, <1>3 DEF TypeOK, ReadSoFar, ErasedSoFar, WrittenSoFar
  <2>5. QED
    BY <2>2, <2>3, <2>4
<1>5. CASE ~ (sector + 1 < NumSectors)
  <2> USE <1>5
  <2>1. TypeOK'
    BY DEF TypeOK
  <2>2. Harmless' /\ OwnRequests' /\ Registers' /\ Operations' /\ LoopStarts'
        /\ Programmed'
    BY DEF TypeOK, Harmless, OwnRequests, Registers, Operations, LoopStarts,
       Programmed
  <2>3. \A s \in Sectors : data'[s] = nvm[s]
    BY <1>1, <1>3 DEF Sectors
  <2>4. data' = nvm
    BY <2>1, <2>3 DEF TypeOK
  <2>5. ReadSoFar' /\ ErasedSoFar' /\ WrittenSoFar'
    BY <2>4 DEF ReadSoFar, ErasedSoFar, WrittenSoFar
  <2>6. QED
    BY <2>1, <2>2, <2>5
<1>6. QED
  BY <1>4, <1>5

\* init erases only a memory that differs, and otherwise locks one that does not.
LEMMA CompareStep ==
  ASSUME IInv, Compare
  PROVE  IInv'
<1> USE DEF IInv, Compare, Reads, Goes, registers, memory, profile
<1>1. TypeOK'
  BY DEF TypeOK
<1>2. Harmless' /\ OwnRequests' /\ Registers' /\ Operations' /\ LoopStarts'
  BY DEF TypeOK, Harmless, OwnRequests, Registers, Operations, LoopStarts
<1>3. Programmed' /\ ReadSoFar' /\ ErasedSoFar' /\ WrittenSoFar'
  BY DEF TypeOK, Programmed, ReadSoFar, ErasedSoFar, WrittenSoFar
<1>4. QED
  BY <1>1, <1>2, <1>3

\* One more sector is written; after the last, the memory is NVM_DATA.
LEMMA WriteDoneStep ==
  ASSUME IInv, WriteDone
  PROVE  IInv'
<1> USE DEF IInv, WriteDone, Poll, Reads, Goes, registers, memory, profile
<1>1. sector \in Nat /\ \A s \in Sectors : s <= sector <=> s < sector \/ s =
      sector
  BY DEF TypeOK
<1>2. \A s \in Sectors : s <= sector => nvm[s] = s
  BY <1>1 DEF TypeOK, WrittenSoFar
<1>3. CASE sector + 1 < NumSectors
  <2> USE <1>3
  <2>1. sector' \in Sectors /\ sector < sector'
    BY <1>1 DEF Sectors
  <2>2. TypeOK'
    BY <2>1 DEF TypeOK
  <2>3. Harmless' /\ OwnRequests' /\ Registers' /\ Operations' /\ LoopStarts'
        /\ Programmed'
    BY DEF TypeOK, Harmless, OwnRequests, Registers, Operations, LoopStarts,
       Programmed
  <2>4. ReadSoFar' /\ ErasedSoFar'
    BY DEF ReadSoFar, ErasedSoFar
  <2>5. WrittenSoFar'
    BY <1>1, <1>2, <2>1 DEF TypeOK, WrittenSoFar
  <2>6. QED
    BY <2>2, <2>3, <2>4, <2>5
<1>4. CASE ~ (sector + 1 < NumSectors)
  <2> USE <1>4
  <2>1. TypeOK'
    BY DEF TypeOK
  <2>2. Harmless' /\ OwnRequests' /\ Registers' /\ Operations' /\ LoopStarts'
    BY DEF TypeOK, Harmless, OwnRequests, Registers, Operations, LoopStarts
  <2>3. \A s \in Sectors : nvm[s] = s
    BY <1>1, <1>2 DEF Sectors
  <2>4. Programmed'
    BY <2>3 DEF TypeOK, Programmed, NvmData
  <2>5. ReadSoFar' /\ ErasedSoFar' /\ WrittenSoFar'
    BY DEF ReadSoFar, ErasedSoFar, WrittenSoFar
  <2>6. QED
    BY <2>1, <2>2, <2>4, <2>5
<1>5. QED
  BY <1>3, <1>4

\* What the controller finishes is what the position of init asked for, or
\* an earlier boot.
LEMMA ExecuteStep ==
  ASSUME IInv, Execute
  PROVE  IInv'
<1> USE DEF IInv, Execute, processor, profile
<1>1. ctrl0' = Ctrl0(ctrl0.sector, ctrl0.power, FALSE)
  BY DEF TypeOK, Ctrl0
<1>2. pc \in Early \cup Polling
  BY DEF OwnRequests
<1>3. TypeOK'
  BY <1>1 DEF TypeOK, Ctrl0
<1>4. Harmless' /\ OwnRequests' /\ Registers' /\ Operations' /\ LoopStarts' /\
      Programmed'
  BY <1>1, <1>2 DEF TypeOK, Ctrl0, Harmless, OwnRequests, Registers,
     Operations, LoopStarts, Programmed
<1>5. CASE pc \in Early
  BY <1>3, <1>4, <1>5 DEF ReadSoFar, ErasedSoFar, WrittenSoFar
<1>6. CASE pc = "read_poll"
  <2>1. nvm' = nvm /\ buffer' = nvm[sector]
    BY <1>6 DEF TypeOK, Operations
  <2>2. QED
    BY <1>3, <1>4, <1>6, <2>1 DEF ReadSoFar, ErasedSoFar, WrittenSoFar
<1>7. CASE pc = "ser_poll"
  <2>1. nvm' = nvm /\ ser' = Sectors
    BY <1>7 DEF TypeOK, Operations, Ctrl1
  <2>2. QED
    BY <1>3, <1>4, <1>7, <2>1 DEF ReadSoFar, ErasedSoFar, WrittenSoFar
<1>8. CASE pc = "erase_poll"
  <2>1. nvm' = NothingRead
    BY <1>8 DEF TypeOK, Operations, ErasedSoFar, NothingRead
  <2>2. QED
    BY <1>1, <1>3, <1>4, <1>8, <2>1 DEF ReadSoFar, ErasedSoFar, WrittenSoFar,
       NothingRead, Operations, Ctrl0
<1>9. CASE pc = "plr_poll"
  <2>1. nvm' = nvm /\ buffer' = buffer /\ plr' = sector
    BY <1>9 DEF TypeOK, Operations, WrittenSoFar
  <2>2. QED
    BY <1>3, <1>4, <1>9, <2>1 DEF ReadSoFar, ErasedSoFar, WrittenSoFar
<1>10. CASE pc = "write_poll"
  <2>1. nvm' = [nvm EXCEPT ![sector] = sector]
    BY <1>10 DEF TypeOK, Operations, WrittenSoFar
  <2>2. QED
    BY <1>1, <1>3, <1>4, <1>10, <2>1 DEF TypeOK, Ctrl0, ReadSoFar,
       ErasedSoFar, WrittenSoFar, Operations
<1>11. QED
  BY <1>2, <1>3, <1>4, <1>5, <1>6, <1>7, <1>8, <1>9, <1>10

\* A boot may start over at every position.
LEMMA FaultStep ==
  ASSUME IInv, Stick \/ Restart \/ WatchdogReset \/ PowerCycle
  PROVE  IInv'
<1> USE DEF IInv
<1>1. CASE Stick
  <2> USE <1>1 DEF Stick, processor, registers, memory, profile
  <2>1. TypeOK'
    BY DEF TypeOK
  <2>2. QED
    BY <2>1 DEF Harmless, OwnRequests, Registers, Operations, LoopStarts,
       Programmed, ReadSoFar, ErasedSoFar, WrittenSoFar
<1>2. CASE Restart \/ WatchdogReset
  <2> USE <1>2 DEF Restart, WatchdogReset, Boot, registers, memory, profile
  <2>1. data' \in [Sectors -> Contents] /\ sector' \in Sectors
    OBVIOUS
  <2>2. faults' \in 0 .. MaxFaults
    BY DEF TypeOK
  <2>3. /\ unlocked' \in BOOLEAN /\ stuck' \in BOOLEAN
        /\ stuck' => ctrl0'.request
    BY DEF TypeOK
  <2>4. TypeOK'
    BY <2>1, <2>2, <2>3 DEF TypeOK
  <2>5. QED
    BY <2>4 DEF Harmless, OwnRequests, Registers, Operations, LoopStarts,
       Programmed, ReadSoFar, ErasedSoFar, WrittenSoFar
<1>3. CASE PowerCycle
  <2> USE <1>3 DEF PowerCycle, Boot
  <2>1. /\ data' \in [Sectors -> Contents] /\ sector' \in Sectors
        /\ nvm' \in [Sectors -> Contents]
    BY DEF BrokenOff
  <2>2. faults' \in 0 .. MaxFaults
    BY DEF TypeOK
  <2>3. /\ ctrl0' \in [sector : Sectors, power : BOOLEAN, request : BOOLEAN]
        /\ ctrl1' \in [op : OpCodes, erase : SUBSET Sectors]
    BY DEF Ctrl0, Ctrl1, OpCodes
  <2>4. TypeOK'
    BY <2>1, <2>2, <2>3 DEF TypeOK
  <2>5. QED
    BY <2>4 DEF Ctrl0, Harmless, OwnRequests, Registers, Operations,
       LoopStarts, Programmed, ReadSoFar, ErasedSoFar, WrittenSoFar
<1>4. QED
  BY <1>1, <1>2, <1>3

\* Every step of Next keeps the invariant.
LEMMA InvariantStep ==
  ASSUME IInv, [Next]_vars
  PROVE  IInv'
<1>1. CASE InitStep
  BY <1>1, NewStep, UnlockNvmStep, ReadSectorStep, ReadFetchStep, CompareStep,
     EraseSectorsStep, WriteSectorStep, WriteDoneStep, LockNvmStep,
     NegotiateStep DEF InitStep
<1>2. CASE UNCHANGED vars
  BY <1>2 DEF vars, processor, registers, memory, profile, IInv, TypeOK,
     Harmless,
     OwnRequests, Registers, Operations, ReadSoFar, ErasedSoFar, WrittenSoFar,
     Programmed, LoopStarts
<1>3. QED
  BY <1>1, <1>2, ExecuteStep, FaultStep DEF Next

\* The first boot meets it, whatever the memory holds.
LEMMA InvariantInit == Init => IInv
<1> SUFFICES ASSUME Init PROVE IInv
  OBVIOUS
<1> USE DEF Init, Ctrl0, Ctrl1
<1>1. /\ ctrl0 \in [sector : Sectors, power : BOOLEAN, request : BOOLEAN]
      /\ ctrl1 \in [op : OpCodes, erase : SUBSET Sectors]
  BY DEF OpCodes
<1>2. faults \in 0 .. MaxFaults
  OBVIOUS
<1>3. TypeOK
  BY <1>1, <1>2 DEF TypeOK
<1>4. QED
  BY <1>3 DEF IInv, Harmless, OwnRequests, Registers, Operations, LoopStarts,
     Programmed, ReadSoFar, ErasedSoFar, WrittenSoFar

\* The invariant holds in every boot (usb_pd.rs:26-62).
THEOREM Invariant == Spec => []IInv
  BY InvariantInit, InvariantStep, PTL DEF Spec

\* Every variable keeps its type, and the controller is only stuck in a request
\* it has (hl.rs:37-248).
THEOREM TypeCorrect == Spec => []TypeOK
  BY Invariant, PTL DEF IInv

\* Whatever earlier boots left in the memory and in the registers, a boot that
\* gets through init has programmed the memory, locked it and negotiated with
\* both parts of the profile, whatever the number of sectors (usb_pd.rs:26-62).
THEOREM ProgrammedInTheEnd == Spec => []ProgrammedWhenRunning
<1>1. IInv => ProgrammedWhenRunning
  BY DEF IInv, Registers, Programmed, ProgrammedWhenRunning
<1>2. QED
  BY <1>1, Invariant, PTL

\* A sector is only written when it is blank, and only with what NVM_DATA has
\* for it, also by the request of a boot that was cut short (hl.rs:200-223).
THEOREM WritesIntoBlank == Spec => []WritesBlank
<1>1. IInv => WritesBlank
  BY DEF IInv, Harmless, WritesBlank
<1>2. QED
  BY <1>1, Invariant, PTL

\* No step of any boot, reset or power cycle undoes a memory that is programmed:
\* no request to erase it is ever in execution (usb_pd.rs:37-43).
THEOREM StaysProgrammed == Spec => NeverUnprogrammed
<1>1. IInv /\ [Next]_vars => [nvm = NvmData => nvm' = NvmData]_vars
  <2> SUFFICES ASSUME IInv, [Next]_vars, nvm = NvmData
               PROVE  nvm' = NvmData
    OBVIOUS
  <2>1. ASSUME nvm' \in BrokenOff
        PROVE  nvm' = nvm
    BY <2>1 DEF IInv, TypeOK, Harmless, BrokenOff, Touched, NvmData, Blank,
       Sectors
  <2>2. CASE Execute
    BY <2>2 DEF Execute, IInv, TypeOK, Harmless, NvmData, Blank, Sectors
  <2>3. CASE InitStep
    BY <2>1, <2>3 DEF InitStep, New, UnlockNvm, ReadSector, ReadFetch,
       Compare, EraseSectors, WriteSector, WriteDone, LockNvm, Negotiate,
       WritePassword, WriteCtrl0, WriteCtrl1, WriteBuffer, WritePdo,
       SendPdReset, Reads, Request, Poll, memory
  <2>4. CASE Stick \/ Restart \/ WatchdogReset \/ PowerCycle \/ UNCHANGED vars
    BY <2>1, <2>4 DEF Stick, Restart, WatchdogReset, PowerCycle, memory, vars
  <2>5. QED
    BY <2>2, <2>3, <2>4 DEF Next
<1>2. QED
  BY <1>1, Invariant, PTL DEF Spec, NeverUnprogrammed
=============================================================================
