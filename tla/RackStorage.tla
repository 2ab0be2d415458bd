----------------------------- MODULE RackStorage -----------------------------
(***************************************************************************)
(* TxtHighBayWarehouseStorage: what the rack controller knows of the       *)
(* workpieces in its slots, and the file it keeps that in.  The slots are  *)
(* numbered in the order in which the loops of the code visit them.  The   *)
(* storage times are abstracted to the order in which slots were filled.   *)
(* wpc and currentPos are written but never read; they are left out.       *)
(***************************************************************************)
EXTENDS TxtTypes

CONSTANTS NSlots   \* nine in the factory
Slots == 1 .. NSlots
NoSlot == 0

\* A slot without workpiece is a null pointer in the code.
Null == Wp(NoUid, "NONE", "NONE")
Shelf == [Slots -> Workpiece]

VARIABLES wp,            \* the workpiece in each slot, Null for an empty container
          filled,        \* the slots in the order they were filled
          nextFetchPos,  \* the slot of the last fetch, valid until the next one
          file           \* the storage file: contents, or torn by a write cut short
storage == <<wp, filled, nextFetchPos, file>>

EmptyShelf == [s \in Slots |-> Null]
Contents == [wp : Shelf, filled : Seq(Slots), torn : BOOLEAN]
StorageTypeOK ==
  /\ wp \in Shelf
  /\ filled \in Seq(Slots)
  /\ nextFetchPos \in Slots \cup {NoSlot}
  /\ file \in Contents

isValidPos(s) == s \in Slots
Free == {s \in Slots : wp[s] = Null}
First(S) == CHOOSE s \in S : \A t \in S : s <= t
\* Least storageTimeStamps among S.
Age(s) == CHOOSE i \in DOMAIN filled : filled[i] = s
OldestOf(S) == CHOOSE s \in S : \A t \in S : Age(s) <= Age(t)

NotAt(s) ==
  IF \A i \in DOMAIN filled : filled[i] # s THEN filled
  ELSE [i \in 1 .. Len(filled) - 1 |-> IF i < Age(s) THEN filled[i] ELSE filled[i + 1]]

\* store and storeContainer write to the slot of the last fetch.
store(w) ==
  /\ wp' = [wp EXCEPT ![nextFetchPos] = w]
  /\ filled' = Append(NotAt(nextFetchPos), nextFetchPos)
  /\ UNCHANGED <<nextFetchPos, file>>

storeContainer ==
  /\ wp' = [wp EXCEPT ![nextFetchPos] = Null]
  /\ UNCHANGED <<filled, nextFetchPos, file>>

\* The stamp of an empty slot is never read, so it goes with the workpiece.  A
\* slip would be to leave the record to the return of the container.
RecordLeft(s) == nextFetchPos' = s /\ UNCHANGED <<wp, filled, file>>
TakeFrom(s) ==
  /\ nextFetchPos' = s
  /\ wp' = [wp EXCEPT ![s] = Null]
  /\ filled' = NotAt(s)
  /\ UNCHANGED file
NothingFetched ==
  nextFetchPos' = NoSlot /\ UNCHANGED <<wp, filled, file>>

\* fetch and fetchByType: by tag when one is given, else the raw workpiece of
\* the colour that has been there longest.
ByUid(w) == {s \in Slots : wp[s] # Null /\ wp[s].uid = w.uid}
\* A slip would be to forget the colour.
AnyRaw(w) == {s \in Slots : wp[s] # Null /\ wp[s].state = "RAW"}
ByType(w) ==
  IF w.type = "NONE" THEN {}
  ELSE {s \in Slots : wp[s] # Null /\ wp[s].type = w.type /\ wp[s].state = "RAW"}
FetchSlot(w) ==
  IF w.uid # NoUid
    THEN IF ByUid(w) = {} THEN NoSlot ELSE First(ByUid(w))
    ELSE IF ByType(w) = {} THEN NoSlot ELSE OldestOf(ByType(w))
fetch(w) == IF isValidPos(FetchSlot(w)) THEN TakeFrom(FetchSlot(w)) ELSE NothingFetched

\* fetchContainer: the first slot with an empty container.
fetchContainer == IF Free # {} THEN TakeFrom(First(Free)) ELSE NothingFetched

\* saveStorageState truncates the file and writes it: a program that ends in
\* between leaves a file that does not parse.  A slip would be to write the
\* tree before it is filled.
EmptySaved == file' = [file EXCEPT !.torn = FALSE] /\ UNCHANGED <<wp, filled, nextFetchPos>>
saveBegin ==
  /\ file' = [wp |-> EmptyShelf, filled |-> <<>>, torn |-> TRUE]
  /\ UNCHANGED <<wp, filled, nextFetchPos>>
saveEnd ==
  /\ file' = [wp |-> wp, filled |-> filled, torn |-> FALSE]
  /\ UNCHANGED <<wp, filled, nextFetchPos>>

resetStorageState ==
  /\ wp' = EmptyShelf
  /\ file' = [wp |-> EmptyShelf, filled |-> <<>>, torn |-> FALSE]
  /\ filled' = <<>>
  /\ UNCHANGED nextFetchPos

\* The constructor: load the file, or start from an empty rack.
loadStorageState ==
  /\ wp' = file.wp /\ filled' = file.filled
  /\ file' = [file EXCEPT !.torn = FALSE]
  /\ nextFetchPos' = NoSlot

(***************************************************************************)
(* How the rack controller must use the storage: a workpiece is stored     *)
(* only in the empty slot of the last fetch, and only while no other slot  *)
(* has its tag.                                                            *)
(***************************************************************************)
Recorded(shelf) == {shelf[s].uid : s \in {t \in Slots : shelf[t] # Null}}
EmptySlotFetched == isValidPos(nextFetchPos) /\ wp[nextFetchPos] = Null

StorageInit ==
  /\ wp \in Shelf /\ filled \in Seq(Slots) /\ nextFetchPos = NoSlot
  /\ \A s, t \in Slots : wp[s] # Null /\ wp[t] # Null /\ wp[s].uid = wp[t].uid => s = t
  /\ file = [wp |-> wp, filled |-> filled, torn |-> FALSE]
StorageNext ==
  \/ \E w \in Workpiece :
       \/ EmptySlotFetched /\ w.uid \notin Recorded(wp) /\ w.uid # NoUid /\ store(w)
       \/ fetch(w)
  \/ EmptySlotFetched /\ storeContainer
  \/ fetchContainer \/ saveBegin \/ saveEnd \/ resetStorageState \/ loadStorageState
StorageSpec == StorageInit /\ [][StorageNext]_storage

\* No workpiece is recorded in two slots, neither in memory nor in the file
\* that the next start will load: store overwrites a slot without looking at
\* the others.
Distinct(shelf) ==
  \A s, t \in Slots :
    shelf[s] # Null /\ shelf[t] # Null /\ shelf[s].uid = shelf[t].uid => s = t
RecordedOnce == Distinct(wp) /\ Distinct(file.wp)
=============================================================================
