--------------------------- MODULE StorageProofs ----------------------------
(***************************************************************************)
(* For any partition, keys and number of resets, upgrades and rotten pages. *)
(***************************************************************************)
EXTENDS Storage, TLAPS

\* What erase_all has passed is empty but for pages that rotted since.
Erased(p) == page[p] = {} /\ (p \in foreign => p \in rotten)

\* As long as no page has rotted, items are on the partition only beside the
\* marker, and nothing else is; and with the marker there, nothing is erased.
Formatted ==
  ~ damaged =>
    /\ Marked => foreign = {} /\ pc \notin {"erase", "store"}
    /\ ~ Marked => \A p \in Pages : page[p] = {}

IInv ==
  /\ TypeOK
  /\ Formatted
  /\ rotten # {} => damaged
  /\ pc = "erase" => \A p \in Pages : p < at => Erased(p)
  /\ pc = "store" => \A p \in Pages : Erased(p)
  /\ pc \in {"fetch", "ready"} => Marked \/ damaged

-----------------------------------------------------------------------------
\* A page that is given another set of items is the only one that changes.
LEMMA SetPage ==
  ASSUME TypeOK, NEW p \in Pages, NEW S, page' = [page EXCEPT ![p] = S]
  PROVE  /\ page'[p] = S
         /\ \A q \in Pages : q # p => page'[q] = page[q]
         /\ S \in SUBSET Items => page' \in [Pages -> SUBSET Items]
BY DEF TypeOK

\* The marker is seen on the page that has it.
LEMMA SeenOnPage ==
  ASSUME TypeOK
  PROVE  Marked <=> \E p \in Pages, v \in Versions : <<"Marker", v>> \in page[p]
BY DEF TypeOK, Marked, Has, Written

\* The same in the next state.
LEMMA SeenOnPageNext ==
  ASSUME TypeOK'
  PROVE  Marked' <=> \E p \in Pages, v \in Versions : <<"Marker", v>> \in page'[p]
BY DEF TypeOK, Marked, Has, Written

\* Steps that leave the partition alone leave what is seen of it alone.
LEMMA SameMarked == UNCHANGED page => (Marked' <=> Marked)
BY DEF Marked, Has, Written

\* Storage starts in the invariant.
LEMMA InitInv == Init => IInv
<1> SUFFICES ASSUME Init PROVE IInv OBVIOUS
<1>1. 1 \in Pages BY StorageAssumption DEF Pages
<1>2. TypeOK
  <2>1. damaged \in BOOLEAN BY DEF Init
  <2>2. page \in [Pages -> SUBSET Items] BY DEF Init
  <2> QED BY <1>1, <2>1, <2>2, StorageAssumption DEF Init, TypeOK
<1>3. ~ Marked /\ \A p \in Pages : page[p] = {}
  BY <1>2, SeenOnPage DEF Init
<1> QED BY <1>2, <1>3 DEF Init, IInv, Formatted

\* The steps of Storage::init keep the invariant.
LEMMA BootInv == IInv /\ Boot => IInv'
<1> SUFFICES ASSUME IInv, Boot PROVE IInv' OBVIOUS
<1> USE DEF flash
<1>t. TypeOK BY DEF IInv
<1>o. 1 \in Pages /\ Pages \subseteq Int
  BY StorageAssumption DEF Pages
<1>1. CASE MarkerDetected
  <2>1. TypeOK' BY <1>1, <1>t DEF MarkerDetected, TypeOK
  <2>2. Marked' <=> Marked BY <1>1, SameMarked DEF MarkerDetected
  <2> QED BY <1>1, <2>1, <2>2 DEF MarkerDetected, IInv, Formatted
<1>2. CASE NoMarker
  <2>1. TypeOK' BY <1>2, <1>t, <1>o DEF NoMarker, TypeOK
  <2>2. Marked' <=> Marked BY <1>2, SameMarked DEF NoMarker
  <2>3. Marked => damaged
    BY <1>2, <1>t, StorageAssumption DEF NoMarker, Fails, IInv, Formatted, TypeOK
  <2>4. \A p \in Pages : ~ (p < 1)
    BY StorageAssumption DEF Pages
  <2> QED BY <1>2, <2>1, <2>2, <2>3, <2>4 DEF NoMarker, IInv, Formatted
<1>3. CASE ErasePage
  <2>0. at \in Pages BY <1>t DEF TypeOK
  <2>1. /\ page'[at] = {}
        /\ \A q \in Pages : q # at => page'[q] = page[q]
        /\ page' \in [Pages -> SUBSET Items]
    BY <1>3, <1>t, <2>0, SetPage DEF ErasePage
  <2>2. at < NumPages => at + 1 \in Pages
    BY <2>0, StorageAssumption DEF Pages
  <2>3. TypeOK'
    <3>1. rotten' \in SUBSET foreign' /\ foreign' \in SUBSET Pages
      BY <1>3, <1>t DEF ErasePage, TypeOK
    <3> QED BY <1>3, <1>t, <2>1, <2>2, <3>1 DEF ErasePage, TypeOK
  <2>4. ~ damaged => \A p \in Pages : page[p] = {}
    BY <1>3 DEF ErasePage, IInv, Formatted
  <2>5. ~ damaged' => ~ Marked' /\ \A p \in Pages : page'[p] = {}
    BY <1>3, <2>1, <2>3, <2>4, SeenOnPageNext DEF ErasePage
  <2>6. \A p \in Pages : p < at \/ p = at => Erased(p)'
    BY <1>3, <2>1 DEF ErasePage, IInv, Erased
  <2>7. pc' = "erase" => \A p \in Pages : p < at' => Erased(p)'
    BY <1>3, <2>0, <2>6, <1>o DEF ErasePage, Pages
  <2>8. pc' = "store" => \A p \in Pages : Erased(p)'
    BY <1>3, <2>0, <2>6, StorageAssumption DEF ErasePage, Pages
  <2>9. rotten' # {} => damaged' BY <1>3 DEF ErasePage, IInv
  <2>10. pc' \notin {"fetch", "ready"} BY <1>3 DEF ErasePage
  <2> QED BY <2>3, <2>5, <2>7, <2>8, <2>9, <2>10 DEF IInv, Formatted
<1>4. CASE StoreMarker
  <2>1. PICK p \in Pages \ foreign :
            page' = [page EXCEPT ![p] = @ \cup {<<"Marker", 1>>}]
    BY <1>4 DEF StoreMarker
  <2>2. <<"Marker", 1>> \in Items /\ 1 \in Versions
    BY StorageAssumption DEF Items, Versions
  <2>3. page[p] \cup {<<"Marker", 1>>} \in SUBSET Items
    BY <1>t, <2>2 DEF TypeOK
  <2>4. /\ page'[p] = page[p] \cup {<<"Marker", 1>>}
        /\ page' \in [Pages -> SUBSET Items]
    BY <1>t, <2>1, <2>3, SetPage
  <2>5. TypeOK' BY <1>4, <1>t, <2>4 DEF StoreMarker, TypeOK
  <2>6. Marked' BY <2>2, <2>4, <2>5, SeenOnPageNext
  <2>7. rotten = {} => foreign = {}
    BY <1>4, <1>t DEF StoreMarker, IInv, Erased, TypeOK
  <2> QED BY <1>4, <2>5, <2>6, <2>7 DEF StoreMarker, IInv, Formatted
<1>5. CASE FetchAll
  <2>1. TypeOK' BY <1>5, <1>t DEF FetchAll, TypeOK
  <2>2. Marked' <=> Marked BY <1>5, SameMarked DEF FetchAll
  <2> QED BY <1>5, <2>1, <2>2 DEF FetchAll, IInv, Formatted
<1>6. CASE FetchFails
  <2>1. TypeOK' BY <1>6, <1>t, <1>o DEF FetchFails, TypeOK
  <2>2. Marked' <=> Marked BY <1>6, SameMarked DEF FetchFails
  <2> QED BY <1>6, <2>1, <2>2 DEF FetchFails, IInv, Formatted
<1> QED BY <1>1, <1>2, <1>3, <1>4, <1>5, <1>6 DEF Boot

\* The steps of Config and Record, and of the environment, keep it too.
LEMMA UseInv ==
  ASSUME IInv, \/ \E k \in Keys : Store(k) \/ Upgrade(k)
               \/ StoreFails \/ Restart
               \/ \E p \in Pages : Rot(p)
  PROVE  IInv'
<1> USE DEF flash
<1>t. TypeOK BY DEF IInv
<1>o. 1 \in Pages BY StorageAssumption DEF Pages
<1>1. ASSUME NEW k \in Keys, Store(k) PROVE IInv'
  <2>1. PICK p \in Pages \ foreign, v \in Versions :
            page' = [page EXCEPT ![p] = @ \cup {<<k, v>>}]
    BY <1>1 DEF Store
  <2>2. page[p] \cup {<<k, v>>} \in SUBSET Items
    BY <1>t, <2>1 DEF TypeOK, Items
  <2>3. /\ page'[p] = page[p] \cup {<<k, v>>}
        /\ \A q \in Pages : q # p => page'[q] = page[q]
        /\ page' \in [Pages -> SUBSET Items]
    BY <1>t, <2>1, <2>2, SetPage
  <2>4. TypeOK' BY <1>1, <1>t, <2>3 DEF Store, TypeOK
  <2>5. Marked => Marked'
    BY <1>t, <2>3, <2>4, SeenOnPage, SeenOnPageNext
  <2> QED BY <1>1, <2>4, <2>5 DEF Store, IInv, Formatted
<1>2. ASSUME NEW k \in Keys, Upgrade(k) PROVE IInv'
  <2>1. TypeOK' BY <1>2, <1>t, <1>o, StorageAssumption DEF Upgrade, TypeOK
  <2>2. Marked' <=> Marked BY <1>2, SameMarked DEF Upgrade
  <2> QED BY <1>2, <2>1, <2>2 DEF Upgrade, IInv, Formatted
<1>3. CASE StoreFails
  <2>1. TypeOK' BY <1>3, <1>t, <1>o DEF StoreFails, TypeOK
  <2>2. Marked' <=> Marked BY <1>3, SameMarked DEF StoreFails
  <2> QED BY <1>3, <2>1, <2>2 DEF StoreFails, IInv, Formatted
<1>4. CASE Restart
  <2>1. TypeOK' BY <1>4, <1>t, <1>o, StorageAssumption DEF Restart, TypeOK
  <2>2. Marked' <=> Marked BY <1>4, SameMarked DEF Restart
  <2> QED BY <1>4, <2>1, <2>2 DEF Restart, IInv, Formatted
<1>5. ASSUME NEW p \in Pages, Rot(p) PROVE IInv'
  <2>1. /\ page'[p] \in {page[p], {}}
        /\ \A q \in Pages : q # p => page'[q] = page[q]
        /\ page' \in [Pages -> SUBSET Items]
    <3>1. CASE page' = page BY <1>t, <3>1 DEF TypeOK
    <3>2. CASE page' = [page EXCEPT ![p] = {}] BY <1>t, <3>2, SetPage
    <3> QED BY <1>5, <3>1, <3>2 DEF Rot
  <2>2. TypeOK' BY <1>5, <1>t, <2>1, StorageAssumption DEF Rot, TypeOK
  <2>3. \A q \in Pages : Erased(q) => Erased(q)'
    BY <1>5, <2>1 DEF Rot, Erased
  <2> QED BY <1>5, <2>2, <2>3 DEF Rot, IInv, Formatted
<1> QED BY <1>1, <1>2, <1>3, <1>4, <1>5

LEMMA NextInv == IInv /\ [Next]_vars => IInv'
<1> SUFFICES ASSUME IInv, [Next]_vars PROVE IInv' OBVIOUS
<1>1. CASE UNCHANGED vars
  BY <1>1 DEF vars, flash, IInv, TypeOK, Formatted, Erased, Marked, Has, Written
<1>2. CASE Boot BY <1>2, BootInv
<1>3. CASE ~ Boot /\ Next BY <1>3, UseInv DEF Next
<1> QED BY <1>1, <1>2, <1>3 DEF Next

LEMMA Invariant == Spec => []IInv
BY InitInv, NextInv, PTL DEF Spec

\* Storage is well typed for any partition, keys and faults.
THEOREM TypeCorrect == Spec => []TypeOK
<1>1. IInv => TypeOK BY DEF IInv
<1> QED BY <1>1, Invariant, PTL

\* Without rot, the marker is never on a partition with anything but items,
\* whatever was there and wherever boots were cut short.
THEOREM MarkerIsLast == Spec => []MarkerMeansFormatted
<1>1. IInv => MarkerMeansFormatted BY DEF IInv, Formatted, MarkerMeansFormatted
<1> QED BY <1>1, Invariant, PTL

\* Without rot, no step takes an item off the partition.
THEOREM ItemsStay == Spec => NothingLost
<1>1. ASSUME IInv, [Next]_vars
      PROVE  [~ damaged' => \A p \in Pages : page[p] \subseteq page'[p]]_vars
  <2> SUFFICES ASSUME Next, ~ damaged', NEW p \in Pages
               PROVE  page[p] \subseteq page'[p]
    BY <1>1
  <2> USE DEF flash
  <2>t. TypeOK BY <1>1 DEF IInv
  <2>1. CASE MarkerDetected BY <2>1 DEF MarkerDetected
  <2>2. CASE NoMarker BY <2>2 DEF NoMarker
  <2>3. CASE ErasePage
    <3>1. page[p] = {} BY <1>1, <2>3 DEF ErasePage, IInv, Formatted
    <3> QED BY <3>1
  <2>4. CASE StoreMarker BY <2>t, <2>4, SetPage DEF StoreMarker, TypeOK
  <2>5. CASE FetchAll BY <2>5 DEF FetchAll
  <2>6. CASE FetchFails BY <2>6 DEF FetchFails
  <2>7. ASSUME NEW k \in Keys, Store(k) PROVE page[p] \subseteq page'[p]
    BY <2>t, <2>7 DEF Store, TypeOK
  <2>8. ASSUME NEW k \in Keys, Upgrade(k) PROVE page[p] \subseteq page'[p]
    BY <2>8 DEF Upgrade
  <2>9. CASE StoreFails BY <2>9 DEF StoreFails
  <2>10. CASE Restart BY <2>10 DEF Restart
  <2>11. ASSUME NEW q \in Pages, Rot(q) PROVE FALSE BY <2>11 DEF Rot
  <2> QED BY <2>1, <2>2, <2>3, <2>4, <2>5, <2>6, <2>7, <2>8, <2>9, <2>10, <2>11
          DEF Next, Boot
<1> QED BY <1>1, Invariant, PTL DEF Spec, NothingLost
=============================================================================
