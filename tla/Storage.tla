------------------------------ MODULE Storage -------------------------------
(***************************************************************************)
(* systems/storage.rs: ensure_initialized and the accesses of Config and   *)
(* Record, with a reset before any operation on flash.  A page is the set  *)
(* of items appended to it; pages that hold anything else make a fetch     *)
(* fail, or go unnoticed.  That stores and fetches of sequential_storage   *)
(* are atomic, and its reclaiming of pages, are left to that library.      *)
(***************************************************************************)
EXTENDS Integers

CONSTANTS
  NumPages,     \* pages of the partition, erased in this order
  Keys,         \* keys besides Marker: ConfigSettings and RecordData
  MaxVersion,   \* values stored under a key in a behaviour (a bound)
  MaxFaults     \* resets, upgrades and rotten pages in a behaviour (a bound)

ASSUME StorageAssumption ==
  /\ NumPages \in Nat \ {0}
  /\ "Marker" \notin Keys
  /\ MaxVersion \in Nat \ {0} /\ MaxFaults \in Nat

VARIABLES
  page,         \* page[p]: items <<key, version>> on it
  foreign,      \* pages with something on them that is no item
  rotten,       \* foreign pages that this firmware had formatted
  damaged,      \* one has become so since the partition was formatted
  changed,      \* keys whose stored value the firmware cannot deserialize
  pc,           \* position in Storage::init and the two inits after it
  at,           \* next page for erase_all
  faults

flash == <<page, foreign, rotten, damaged, changed>>
vars == <<flash, pc, at, faults>>

Pages == 1 .. NumPages
Versions == 1 .. MaxVersion
Items == (Keys \cup {"Marker"}) \X Versions

Written == UNION {page[p] : p \in Pages}
Has(k) == \E v \in Versions : <<k, v>> \in Written
Marked == Has("Marker")

\* What fetch_item may make of key k.
Fails(k) == foreign # {} \/ k \in changed
Succeeds(k) == k \notin changed

\* A partition that was never used holds anything.
Init ==
  /\ page = [p \in Pages |-> {}]
  /\ foreign \in SUBSET Pages
  /\ rotten = {} /\ damaged = FALSE /\ changed = {}
  /\ pc = "marker" /\ at = 1
  /\ faults = 0

-----------------------------------------------------------------------------
(* Inner::ensure_initialized.                                              *)

\* Ok(Some(Marker)).
MarkerDetected ==
  /\ pc = "marker"
  /\ Marked
  /\ pc' = "fetch"
  /\ UNCHANGED <<flash, at, faults>>

\* Slip: the marker is not looked at.
NoMarkerAlways ==
  /\ pc = "marker"
  /\ pc' = "erase"
  /\ at' = 1
  /\ UNCHANGED <<flash, faults>>

\* Slip: the marker is stored first.
NoMarkerStoreFirst ==
  /\ pc = "marker"
  /\ ~ Marked \/ Fails("Marker")
  /\ pc' = "store"
  /\ at' = 1
  /\ UNCHANGED <<flash, faults>>

\* Ok(None) or Err.
NoMarker ==
  /\ pc = "marker"
  /\ ~ Marked \/ Fails("Marker")
  /\ pc' = "erase"
  /\ at' = 1
  /\ UNCHANGED <<flash, faults>>

\* Slip: erase_all over one page less.
ErasePageButLast ==
  /\ pc = "erase"
  /\ page' = [page EXCEPT ![at] = {}]
  /\ foreign' = foreign \ {at}
  /\ rotten' = rotten \ {at}
  /\ IF at + 1 < NumPages THEN at' = at + 1 /\ UNCHANGED pc
                          ELSE pc' = "store" /\ UNCHANGED at
  /\ UNCHANGED <<damaged, changed, faults>>

\* erase_all, page by page.
ErasePage ==
  /\ pc = "erase"
  /\ page' = [page EXCEPT ![at] = {}]
  /\ foreign' = foreign \ {at}
  /\ rotten' = rotten \ {at}
  /\ IF at < NumPages THEN at' = at + 1 /\ UNCHANGED pc
                      ELSE pc' = "store" /\ UNCHANGED at
  /\ UNCHANGED <<damaged, changed, faults>>

\* store(Marker).  A page that rotted since it was erased stays damaged.
StoreMarker ==
  /\ pc = "store"
  /\ \E p \in Pages \ foreign : page' = [page EXCEPT ![p] = @ \cup {<<"Marker", 1>>}]
  /\ damaged' = (rotten # {})
  /\ changed' = {}
  /\ pc' = "fetch"
  /\ UNCHANGED <<foreign, rotten, at, faults>>

-----------------------------------------------------------------------------
\* Config::init and Record::init fetch their values; what is not there has a
\* default, an error panics.
FetchAll ==
  /\ pc = "fetch"
  /\ \A k \in Keys : Succeeds(k)
  /\ pc' = "ready"
  /\ UNCHANGED <<flash, at, faults>>

FetchFails ==
  /\ pc = "fetch"
  /\ \E k \in Keys : Fails(k)
  /\ pc' = "marker" /\ at' = 1
  /\ UNCHANGED <<flash, faults>>

\* Storage::store, to a page with room, by Config::update or sync_task.
Store(k) ==
  /\ pc = "ready"
  /\ \E p \in Pages \ foreign, v \in Versions :
       /\ \A w \in Versions : <<k, w>> \in Written => w < v
       /\ page' = [page EXCEPT ![p] = @ \cup {<<k, v>>}]
  /\ UNCHANGED <<foreign, rotten, damaged, changed, pc, at, faults>>

\* A store meets a page that it cannot use: an error, which panics.
StoreFails ==
  /\ pc \in {"store", "ready"} /\ foreign # {}
  /\ pc' = "marker" /\ at' = 1
  /\ UNCHANGED <<flash, faults>>

Restart ==
  /\ faults < MaxFaults
  /\ faults' = faults + 1
  /\ pc' = "marker" /\ at' = 1
  /\ UNCHANGED flash

\* A formatted page can no longer be read: it has rotted, with its items or only
\* in between, or other firmware left an item with a key unknown to this one.
Rot(p) ==
  /\ faults < MaxFaults
  /\ p \notin foreign
  /\ faults' = faults + 1
  /\ page' \in {page, [page EXCEPT ![p] = {}]}
  /\ foreign' = foreign \cup {p}
  /\ rotten' = rotten \cup {p}
  /\ damaged' = TRUE
  /\ UNCHANGED <<changed, pc, at>>

\* The device gets firmware in which the type stored under k is another.
Upgrade(k) ==
  /\ faults < MaxFaults /\ Has(k)
  /\ faults' = faults + 1
  /\ changed' = changed \cup {k}
  /\ pc' = "marker" /\ at' = 1
  /\ UNCHANGED <<page, foreign, rotten, damaged>>

Boot ==
  \/ MarkerDetected \/ NoMarker \/ ErasePage \/ StoreMarker
  \/ FetchAll \/ FetchFails

Next ==
  \/ Boot
  \/ \E k \in Keys : Store(k) \/ Upgrade(k)
  \/ StoreFails \/ Restart
  \/ \E p \in Pages : Rot(p)

Spec == Init /\ [][Next]_vars

FairSpec == Spec /\ WF_vars(Boot)

-----------------------------------------------------------------------------
TypeOK ==
  /\ page \in [Pages -> SUBSET Items]
  /\ rotten \in SUBSET foreign /\ foreign \in SUBSET Pages
  /\ damaged \in BOOLEAN /\ changed \in SUBSET Keys
  /\ pc \in {"marker", "erase", "store", "fetch", "ready"}
  /\ at \in Pages
  /\ faults \in 0 .. MaxFaults

\* The marker is only ever on a partition that holds nothing but items, unless
\* one has become unreadable: whatever was there before is erased completely first,
\* however often a boot is cut short (storage.rs:112-116).
MarkerMeansFormatted == Marked /\ ~ damaged => foreign = {}

\* Boots and resets in any number erase nothing that was stored; only after a
\* page has become unreadable is it formatted again (storage.rs:99-110).
NothingLost == [][~ damaged' => \A p \in Pages : page[p] \subseteq page'[p]]_vars

\* Whatever the partition holds at first, the device comes to run when resets
\* stop.  It panics over and over only if the marker is readable and a value is
\* not: with an unreadable page, or of another type (config.rs:67-71, record.rs:47).
BootsUnlessUnreadable == <>[](pc = "ready" \/ rotten # {} \/ changed # {})
=============================================================================
