------------------------------- MODULE UsbPd --------------------------------
(***************************************************************************)
(* systems/usb_pd.rs and drivers/stusb4500: the boot sequence that compares *)
(* the non-volatile memory of the USB-PD controller with NVM_DATA, programs *)
(* it if it differs, and then negotiates.  Every step is one transfer on    *)
(* the bus; pc names the next one.  The processor may be reset before any   *)
(* of them; the controller then keeps its registers, and what it executes.  *)
(***************************************************************************)
EXTENDS Naturals

CONSTANTS
  NumSectors,   \* NUM_SECTORS
  MaxFaults     \* resets, power cycles and hangs in a behaviour (a bound)

ASSUME UsbPdAssumption == NumSectors \in Nat \ {0} /\ MaxFaults \in Nat

VARIABLES
  pc,           \* the next transfer of Usbpd::init
  sector,       \* index of the loop in read_sectors and write_sectors
  data,         \* what read_sectors has returned so far
  nvm,          \* sectors of the controller's memory
  unlocked,     \* its register NVMPassword holds the password
  ctrl0, ctrl1, \* its registers NVMCtrl0 and NVMCtrl1
  buffer, plr, ser,   \* RWBuffer, Program Load and Sector Erase Register
  stuck,        \* it does not finish its request
  pdo, contract,      \* sink profile in its registers, and as last advertised
  faults

processor == <<pc, sector, data>>
registers == <<unlocked, ctrl0, ctrl1>>
memory == <<nvm, buffer, plr, ser>>
profile == <<pdo, contract>>
vars == <<processor, registers, memory, stuck, profile, faults>>

Sectors == 0 .. NumSectors - 1

\* A sector's contents: what NVM_DATA has for sector s is s itself.
Blank == NumSectors
Garbage == NumSectors + 1
Contents == 0 .. NumSectors + 1

NvmData == [s \in Sectors |-> s]

NothingRead == [s \in Sectors |-> Blank]

Ctrl0(s, p, r) == [sector |-> s, power |-> p, request |-> r]
Ctrl1(o, e) == [op |-> o, erase |-> e]

-----------------------------------------------------------------------------
\* The memory after the request in execution was broken off: what it erases
\* or writes may hold anything.
Touched ==
  IF ~ ctrl0.request THEN {}
  ELSE IF ctrl1.op = "EraseSectors" THEN ser
  ELSE IF ctrl1.op = "WriteSector" THEN {ctrl0.sector}
  ELSE {}

BrokenOff ==
  {m \in [Sectors -> Contents] : \A s \in Sectors \ Touched : m[s] = nvm[s]}

Init ==
  /\ pc = "id" /\ sector = 0
  /\ data = NothingRead
  /\ nvm \in [Sectors -> Contents]
  /\ unlocked = FALSE
  /\ ctrl0 = Ctrl0(0, FALSE, FALSE)
  /\ ctrl1 = Ctrl1("ReadSector", {})
  /\ buffer = Blank /\ plr = Blank /\ ser = {}
  /\ stuck = FALSE
  /\ pdo = {} /\ contract = {}
  /\ faults = 0

-----------------------------------------------------------------------------
(* Transfers.                                                              *)

Goes(from, to) == pc = from /\ pc' = to

Stays == UNCHANGED <<sector, data>>

WritePassword(from, to, password) ==
  /\ Goes(from, to)
  /\ unlocked' = password
  /\ UNCHANGED <<ctrl0, ctrl1, memory, stuck, profile, faults>>

\* A write of NVMCtrl0 breaks off what an earlier boot requested.  Nothing is
\* executed while the memory is locked.
WriteCtrl0(from, to, value) ==
  /\ Goes(from, to)
  /\ nvm' \in BrokenOff
  /\ ctrl0' = [value EXCEPT !.request = @ /\ unlocked]
  /\ stuck' = FALSE
  /\ UNCHANGED <<unlocked, ctrl1, buffer, plr, ser, profile, faults>>

WriteCtrl1(from, to, value) ==
  /\ Goes(from, to)
  /\ ctrl1' = value
  /\ UNCHANGED <<unlocked, ctrl0, memory, stuck, profile, faults>>

WriteBuffer(from, to, value) ==
  /\ Goes(from, to)
  /\ buffer' = value
  /\ UNCHANGED <<registers, nvm, plr, ser, stuck, profile, faults>>

WritePdo(from, to, part) ==
  /\ Goes(from, to)
  /\ pdo' = pdo \cup {part}
  /\ UNCHANGED <<registers, memory, stuck, contract, faults>>

SendPdReset(from, to) ==
  /\ Goes(from, to)
  /\ contract' = pdo
  /\ UNCHANGED <<registers, memory, stuck, pdo, faults>>

\* A transfer that reads, or none.
Reads(from, to) ==
  Goes(from, to) /\ UNCHANGED <<registers, memory, stuck, profile, faults>>

\* issue_request_with_sector: the request, and the loop that waits for its end.
Request(from, to, s) == WriteCtrl0(from, to, Ctrl0(s, TRUE, TRUE))

Poll(from, to) == ~ ctrl0.request /\ Reads(from, to)

-----------------------------------------------------------------------------
(* hl.rs, and Usbpd::init that calls it.                                   *)

\* The controller answers with its identification; see Restart for other answers.
New == Reads("id", "password") /\ Stays

UnlockNvm ==
  /\ \/ WritePassword("password", "quiet", TRUE)
     \/ WriteCtrl0("quiet", "power", Ctrl0(0, FALSE, FALSE))
     \/ WriteCtrl0("power", "read_op", Ctrl0(0, TRUE, FALSE))
  /\ Stays

\* Slip: the operation is taken to be ReadSector, as lock_nvm leaves it.
ReadSectorStaleOp ==
  /\ \/ Reads("read_op", "read_request")
     \/ Request("read_request", "read_poll", sector)
     \/ Poll("read_poll", "read_fetch")
  /\ Stays

ReadSector ==
  /\ \/ WriteCtrl1("read_op", "read_request", Ctrl1("ReadSector", {}))
     \/ Request("read_request", "read_poll", sector)
     \/ Poll("read_poll", "read_fetch")
  /\ Stays

\* The end of read_sector, and of an iteration of read_sectors.
ReadFetch ==
  /\ IF sector + 1 < NumSectors
       THEN Reads("read_fetch", "read_op") /\ sector' = sector + 1
       ELSE Reads("read_fetch", "compare") /\ sector' = 0
  /\ data' = [data EXCEPT ![sector] = buffer]

\* if data != NVM_DATA { write_sectors }.  The copy is not used again.
Compare ==
  /\ Reads("compare", IF data # NvmData THEN "ser_op" ELSE "lock_ctrl0")
  /\ data' = NothingRead
  /\ UNCHANGED sector

\* Slip: the flag of the last sector is forgotten.
EraseSectorsButLast ==
  /\ \/ WriteCtrl1("ser_op", "ser_request",
                   Ctrl1("LoadSer", Sectors \ {NumSectors - 1}))
     \/ Request("ser_request", "ser_poll", 0)
     \/ Poll("ser_poll", "erase_op")
     \/ WriteCtrl1("erase_op", "erase_request", Ctrl1("EraseSectors", {}))
     \/ Request("erase_request", "erase_poll", 0)
     \/ Poll("erase_poll", "buffer")
  /\ Stays

EraseSectors ==
  /\ \/ WriteCtrl1("ser_op", "ser_request", Ctrl1("LoadSer", Sectors))
     \/ Request("ser_request", "ser_poll", 0)
     \/ Poll("ser_poll", "erase_op")
     \/ WriteCtrl1("erase_op", "erase_request", Ctrl1("EraseSectors", {}))
     \/ Request("erase_request", "erase_poll", 0)
     \/ Poll("erase_poll", "buffer")
  /\ Stays

WriteSector ==
  /\ \/ WriteBuffer("buffer", "plr_op", sector)
     \/ WriteCtrl1("plr_op", "plr_request", Ctrl1("LoadPlr", {}))
     \/ Request("plr_request", "plr_poll", 0)
     \/ Poll("plr_poll", "write_op")
     \/ WriteCtrl1("write_op", "write_request", Ctrl1("WriteSector", {}))
     \/ Request("write_request", "write_poll", sector)
  /\ Stays

\* The end of write_sector, and of an iteration of write_sectors.
WriteDone ==
  /\ IF sector + 1 < NumSectors
       THEN Poll("write_poll", "buffer") /\ sector' = sector + 1
       ELSE Poll("write_poll", "lock_ctrl0") /\ sector' = 0
  /\ UNCHANGED data

LockNvm ==
  /\ \/ WriteCtrl0("lock_ctrl0", "lock_ctrl1", Ctrl0(0, FALSE, FALSE))
     \/ WriteCtrl1("lock_ctrl1", "lock_password", Ctrl1("ReadSector", {}))
     \/ WritePassword("lock_password", "pdo", FALSE)
  /\ Stays

\* Slip: what has to be advertised is set after the negotiation was started.
NegotiateFirst ==
  /\ \/ SendPdReset("pdo", "pdo_num")
     \/ WritePdo("pdo_num", "pd_reset", "value")
     \/ WritePdo("pd_reset", "running", "number")
  /\ Stays

\* set_pdo, set_pdo_num and issue_pd_reset.
Negotiate ==
  /\ \/ WritePdo("pdo", "pdo_num", "value")
     \/ WritePdo("pdo_num", "pd_reset", "number")
     \/ SendPdReset("pd_reset", "running")
  /\ Stays

-----------------------------------------------------------------------------
\* The controller finishes its request.  Writing only sets bits, so that a
\* sector has to be erased before.
Execute ==
  /\ ctrl0.request /\ ~ stuck
  /\ ctrl0' = [ctrl0 EXCEPT !.request = FALSE]
  /\ buffer' = IF ctrl1.op = "ReadSector" THEN nvm[ctrl0.sector] ELSE buffer
  /\ plr' = IF ctrl1.op = "LoadPlr" THEN buffer ELSE plr
  /\ ser' = IF ctrl1.op = "LoadSer" THEN ctrl1.erase ELSE ser
  /\ nvm' = [s \in Sectors |->
       IF ctrl1.op = "EraseSectors" /\ s \in ser THEN Blank
       ELSE IF ctrl1.op = "WriteSector" /\ s = ctrl0.sector
              THEN IF nvm[s] \in {Blank, plr} THEN plr ELSE Garbage
       ELSE nvm[s]]
  /\ UNCHANGED <<processor, unlocked, ctrl1, stuck, profile, faults>>

Stick ==
  /\ ctrl0.request /\ ~ stuck /\ faults < MaxFaults
  /\ stuck' = TRUE
  /\ faults' = faults + 1
  /\ UNCHANGED <<processor, registers, memory, profile>>

Boot == pc' = "id" /\ sector' = 0 /\ data' = NothingRead

\* The processor alone is reset: a panic (a failed transfer, no or another
\* device identification, a state of the policy engine that the enumeration
\* does not have), or any other cause.
Restart ==
  /\ faults < MaxFaults
  /\ faults' = faults + 1
  /\ Boot
  /\ UNCHANGED <<registers, memory, stuck, profile>>

\* Slip: app takes its ticket of the watchdog after Usbpd::init.
WatchdogResetLate ==
  /\ pc = "running" /\ stuck
  /\ Boot
  /\ UNCHANGED <<registers, memory, stuck, profile, faults>>

\* Nobody feeds the ticket that app took before Usbpd::init.
WatchdogReset ==
  /\ pc \in {"read_poll", "ser_poll", "erase_poll", "plr_poll", "write_poll"}
  /\ stuck
  /\ Boot
  /\ UNCHANGED <<registers, memory, stuck, profile, faults>>

\* The supply is unplugged: the controller starts anew as well.
PowerCycle ==
  /\ faults < MaxFaults
  /\ faults' = faults + 1
  /\ Boot
  /\ nvm' \in BrokenOff
  /\ unlocked' = FALSE
  /\ ctrl0' = Ctrl0(0, FALSE, FALSE)
  /\ ctrl1' = Ctrl1("ReadSector", {})
  /\ buffer' = Blank /\ plr' = Blank /\ ser' = {}
  /\ stuck' = FALSE
  /\ pdo' = {} /\ contract' = {}

InitStep ==
  \/ New \/ UnlockNvm \/ ReadSector \/ ReadFetch \/ Compare
  \/ EraseSectors \/ WriteSector \/ WriteDone \/ LockNvm \/ Negotiate

Next ==
  \/ InitStep \/ Execute
  \/ Stick \/ Restart \/ WatchdogReset \/ PowerCycle

Spec == Init /\ [][Next]_vars

\* init is polled, a request that is not stuck is finished, the watchdog bites.
FairSpec ==
  Spec /\ WF_vars(InitStep) /\ WF_vars(Execute) /\ WF_vars(WatchdogReset)

-----------------------------------------------------------------------------
OpCodes == {"ReadSector", "LoadPlr", "LoadSer", "EraseSectors", "WriteSector"}

TypeOK ==
  /\ pc \in {"id", "password", "quiet", "power",
             "read_op", "read_request", "read_poll", "read_fetch", "compare",
             "ser_op", "ser_request", "ser_poll",
             "erase_op", "erase_request", "erase_poll",
             "buffer", "plr_op", "plr_request", "plr_poll",
             "write_op", "write_request", "write_poll",
             "lock_ctrl0", "lock_ctrl1", "lock_password",
             "pdo", "pdo_num", "pd_reset", "running"}
  /\ sector \in Sectors
  /\ data \in [Sectors -> Contents] /\ nvm \in [Sectors -> Contents]
  /\ unlocked \in BOOLEAN /\ stuck \in BOOLEAN
  /\ ctrl0 \in [sector : Sectors, power : BOOLEAN, request : BOOLEAN]
  /\ ctrl1 \in [op : OpCodes, erase : SUBSET Sectors]
  /\ buffer \in Contents /\ plr \in Contents /\ ser \in SUBSET Sectors
  /\ pdo \in SUBSET {"value", "number"} /\ contract \in SUBSET pdo
  /\ faults \in 0 .. MaxFaults
  /\ stuck => ctrl0.request

\* Whatever earlier boots left in the memory and in the controller's registers,
\* a boot that gets through has programmed it, locked it again, and negotiated
\* with both parts of the profile (usb_pd.rs:26-62).
ProgrammedWhenRunning ==
  pc = "running" =>
    nvm = NvmData /\ ~ unlocked /\ ~ ctrl0.power /\ contract = {"value", "number"}

\* The controller is only asked to write what was read from NVM_DATA, into a
\* sector that is blank: one written over would hold neither, also when the
\* request is still there from a boot that was cut short (hl.rs:200-223).
WritesBlank ==
  ctrl0.request /\ ctrl1.op = "WriteSector" =>
    nvm[ctrl0.sector] = Blank /\ plr = ctrl0.sector

\* What NVM_DATA says is never erased again: not by a further boot, whose
\* registers are those of a broken-off one (usb_pd.rs:37-43).
NeverUnprogrammed == [][nvm = NvmData => nvm' = NvmData]_vars

\* "TODO timeout" (hl.rs:142): the loop that waits for the controller has none,
\* but the watchdog gets the device out of it, and in the end it runs.
BootsInTheEnd == <>[](pc = "running")
=============================================================================
