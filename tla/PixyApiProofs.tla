---------------------------- MODULE PixyApiProofs ----------------------------
(***************************************************************************)
(* Theorems about PixyApi, for every number of threads and handles and     *)
(* every list of devices: who owns the handles and what a function that    *)
(* was given a uid may rely on.                                            *)
(***************************************************************************)
EXTENDS PixyApi, FiniteSetTheorems, TLAPS

LEMMA Constants ==
  /\ None \notin Threads /\ None \notin Handles /\ None \notin Pixys
  /\ Len(DeviceList) \in Nat
  /\ \A d, e \in Pixys : Uid[d] = Uid[e] => d = e
  /\ \A d \in Pixys : Uid[d] \in Range(Uid)
<1>1. DeviceList \in Seq(Range(DeviceList)) /\ None \notin Range(DeviceList) /\ Pixys \subseteq Range(DeviceList)
  BY ApiAssumption
<1> QED BY <1>1, ApiAssumption DEF Pixys, IsInjective, Range

-----------------------------------------------------------------------------
(* The invariant.                                                          *)

\* Where a thread has opened a handle that is not in the map yet.
OpeningPlaces == {"configure", "claim0", "claim1", "reset", "identify",
                  "release_interface_1", "release_interface_0", "close_handle"}

\* What is claimed with that handle there.
ClaimedAt == [l \in OpeningPlaces |->
                CASE l \in {"claim1", "release_interface_0"} -> {0}
                  [] l \in {"reset", "identify", "release_interface_1"} -> {0, 1}
                  [] OTHER -> {}]

\* The mutex is held where pixy_enumerate and the functions with a uid are under it.
LockInv ==
  /\ \A t \in Threads : at[t] \in OpeningPlaces \cup {"list", "scan"} <=> exclusive = t
  /\ \A t \in Threads : at[t] = "call" <=> t \in shared
  /\ exclusive # None => shared = {}

HandleInv == \A t \in Threads : at[t] \in OpeningPlaces \cup {"call"} <=> handle[t] # None

\* The handle being opened: on a Pixy, not in the map, with what was claimed so far.
OpenedInv ==
  \A t \in Threads : at[t] \in OpeningPlaces =>
    /\ index[t] <= Len(DeviceList)
    /\ device[handle[t]] # None /\ claimed[handle[t]] = ClaimedAt[at[t]]
    /\ \A u \in DOMAIN interpreters : interpreters[u] # handle[t]

\* The map: under each uid a handle on the Pixy of that uid, with both interfaces.
MapInv ==
  \A u \in DOMAIN interpreters :
    /\ device[interpreters[u]] # None /\ Uid[device[interpreters[u]]] = u
    /\ claimed[interpreters[u]] = {0, 1}

\* No other handle is open, and what is closed claims nothing.
OwnedInv ==
  \A h \in Handles :
    \/ device[h] = None /\ claimed[h] = {}
    \/ \E u \in DOMAIN interpreters : interpreters[u] = h
    \/ \E t \in Threads : at[t] \in OpeningPlaces /\ handle[t] = h

\* No interface is claimed twice.
ApartInv ==
  \A g, h \in Handles :
    g # h /\ device[g] = device[h] /\ device[g] # None => claimed[g] \cap claimed[h] = {}

CallInv ==
  \A t \in Threads : at[t] = "call" => \E u \in DOMAIN interpreters : interpreters[u] = handle[t]

\* What an enumeration found is in the map until it returns.
FoundInv ==
  \A t \in Threads : at[t] \in OpeningPlaces \cup {"scan"} => Range(uids[t]) \subseteq DOMAIN interpreters

IInv ==
  /\ TypeOK /\ LockInv /\ HandleInv /\ OpenedInv
  /\ MapInv /\ OwnedInv /\ ApartInv /\ CallInv /\ FoundInv

LEMMA InitHolds == Init => IInv
<1> SUFFICES ASSUME Init PROVE IInv
  OBVIOUS
<1>1. TypeOK
  BY Constants DEF Init, TypeOK, Places, Range
<1>2. LockInv /\ HandleInv /\ OpenedInv
  BY Constants DEF Init, LockInv, HandleInv, OpenedInv, OpeningPlaces
<1>3. MapInv /\ OwnedInv /\ ApartInv /\ CallInv /\ FoundInv
  BY DEF Init, MapInv, OwnedInv, ApartInv, CallInv, FoundInv, OpeningPlaces
<1> QED BY <1>1, <1>2, <1>3 DEF IInv

\* What the invariant says of a thread that has opened a handle.
LEMMA OpeningKnown ==
  ASSUME IInv, NEW t \in Threads, at[t] \in OpeningPlaces
  PROVE  /\ handle[t] \in Handles /\ device[handle[t]] \in Pixys
         /\ claimed[handle[t]] = ClaimedAt[at[t]]
         /\ index[t] \in 1..Len(DeviceList)
         /\ \A s \in Threads : at[s] \in OpeningPlaces => s = t
         /\ exclusive = t /\ shared = {}
BY Constants DEF IInv, TypeOK, LockInv, HandleInv, OpenedInv

LEMMA ClaimedAtIs ==
  /\ ClaimedAt["configure"] = {} /\ ClaimedAt["claim0"] = {} /\ ClaimedAt["close_handle"] = {}
  /\ ClaimedAt["claim1"] = {0} /\ ClaimedAt["release_interface_0"] = {0}
  /\ ClaimedAt["reset"] = {0, 1} /\ ClaimedAt["identify"] = {0, 1}
  /\ ClaimedAt["release_interface_1"] = {0, 1}
BY DEF ClaimedAt, OpeningPlaces

\* A closed handle claims nothing and is nobody's.
LEMMA ClosedKnown ==
  ASSUME IInv, NEW h \in Handles, device[h] = None
  PROVE  /\ claimed[h] = {}
         /\ \A u \in DOMAIN interpreters : interpreters[u] # h
         /\ \A t \in Threads : at[t] \in OpeningPlaces => handle[t] # h
BY DEF IInv, OwnedInv, MapInv, OpenedInv

\* The map has no object yet for the Pixy that is identified: that would have its
\* interfaces.
LEMMA FreshUid ==
  ASSUME IInv, NEW t \in Threads, at[t] = "identify"
  PROVE  Uid[device[handle[t]]] \notin DOMAIN interpreters
<1> DEFINE uid == Uid[device[handle[t]]]
<1> SUFFICES ASSUME uid \in DOMAIN interpreters PROVE FALSE
  OBVIOUS
<1>1. /\ handle[t] \in Handles /\ device[handle[t]] \in Pixys /\ claimed[handle[t]] = {0, 1}
      /\ interpreters[uid] # handle[t]
  BY OpeningKnown, ClaimedAtIs DEF IInv, OpenedInv, OpeningPlaces
<1>2. /\ interpreters[uid] \in Handles /\ device[interpreters[uid]] \in Pixys
      /\ Uid[device[interpreters[uid]]] = uid /\ claimed[interpreters[uid]] = {0, 1}
  BY DEF IInv, TypeOK, MapInv, Range
<1>3. device[interpreters[uid]] = device[handle[t]]
  BY <1>1, <1>2, Constants
<1> QED BY <1>1, <1>2, <1>3, Constants DEF IInv, ApartInv

-----------------------------------------------------------------------------
(* One lemma per action, one step per conjunct.                            *)


LEMMA EnumerateLocksHolds == ASSUME IInv, NEW t \in Threads, EnumerateLocks(t) PROVE IInv'
<1> USE Constants DEF EnumerateLocks, Goto, Free, libusb
<1>1. TypeOK'
  BY DEF IInv, TypeOK, Places
<1>2. LockInv'
  BY DEF IInv, TypeOK, LockInv, OpeningPlaces
<1>3. HandleInv'
  BY DEF IInv, TypeOK, HandleInv, OpeningPlaces
<1>4. OpenedInv'
  BY DEF IInv, TypeOK, OpenedInv, LockInv, OpeningPlaces, ClaimedAt
<1>5. MapInv'
  BY DEF IInv, TypeOK, MapInv, OpenedInv, OpeningPlaces
<1>6. OwnedInv'
  BY DEF IInv, TypeOK, OwnedInv, OpeningPlaces
<1>7. ApartInv'
  BY DEF IInv, TypeOK, ApartInv, OpeningPlaces
<1>8. CallInv'
  BY DEF IInv, TypeOK, CallInv, LockInv, OpeningPlaces
<1>9. FoundInv'
  BY DEF IInv, TypeOK, FoundInv, LockInv, OpeningPlaces, Range
<1> QED BY <1>1, <1>2, <1>3, <1>4, <1>5, <1>6, <1>7, <1>8, <1>9 DEF IInv

LEMMA ListFailsHolds == ASSUME IInv, NEW t \in Threads, ListFails(t) PROVE IInv'
<1> USE Constants DEF ListFails, Goto, Unlock, libusb
<1>1. TypeOK'
  BY DEF IInv, TypeOK, Places
<1>2. LockInv'
  BY DEF IInv, TypeOK, LockInv, OpeningPlaces
<1>3. HandleInv'
  BY DEF IInv, TypeOK, HandleInv, OpeningPlaces
<1>4. OpenedInv'
  BY DEF IInv, TypeOK, OpenedInv, LockInv, OpeningPlaces, ClaimedAt
<1>5. MapInv'
  BY DEF IInv, TypeOK, MapInv, OpenedInv, OpeningPlaces
<1>6. OwnedInv'
  BY DEF IInv, TypeOK, OwnedInv, OpeningPlaces
<1>7. ApartInv'
  BY DEF IInv, TypeOK, ApartInv, OpeningPlaces
<1>8. CallInv'
  BY DEF IInv, TypeOK, CallInv, LockInv, OpeningPlaces
<1>9. FoundInv'
  BY DEF IInv, TypeOK, FoundInv, LockInv, OpeningPlaces, Range
<1> QED BY <1>1, <1>2, <1>3, <1>4, <1>5, <1>6, <1>7, <1>8, <1>9 DEF IInv

LEMMA ListHolds == ASSUME IInv, NEW t \in Threads, List(t) PROVE IInv'
<1> USE Constants DEF List, Goto, mutex, libusb
<1>1. TypeOK'
  BY DEF IInv, TypeOK, Places
<1>2. LockInv'
  BY DEF IInv, TypeOK, LockInv, OpeningPlaces
<1>3. HandleInv'
  BY DEF IInv, TypeOK, HandleInv, OpeningPlaces
<1>4. OpenedInv'
  BY DEF IInv, TypeOK, OpenedInv, LockInv, OpeningPlaces, ClaimedAt
<1>5. MapInv'
  BY DEF IInv, TypeOK, MapInv, OpenedInv, OpeningPlaces
<1>6. OwnedInv'
  BY DEF IInv, TypeOK, OwnedInv, OpeningPlaces
<1>7. ApartInv'
  BY DEF IInv, TypeOK, ApartInv, OpeningPlaces
<1>8. CallInv'
  BY DEF IInv, TypeOK, CallInv, LockInv, OpeningPlaces
<1>9. FoundInv'
  BY DEF IInv, TypeOK, FoundInv, LockInv, OpeningPlaces, Range
<1> QED BY <1>1, <1>2, <1>3, <1>4, <1>5, <1>6, <1>7, <1>8, <1>9 DEF IInv

LEMMA SkipHolds == ASSUME IInv, NEW t \in Threads, Skip(t) PROVE IInv'
<1> USE Constants DEF Skip, Goto, Continue, More, mutex, libusb
<1>1. TypeOK'
  BY DEF IInv, TypeOK, Places
<1>2. LockInv'
  BY DEF IInv, TypeOK, LockInv, OpeningPlaces
<1>3. HandleInv'
  BY DEF IInv, TypeOK, HandleInv, OpeningPlaces
<1>4. OpenedInv'
  BY DEF IInv, TypeOK, OpenedInv, LockInv, OpeningPlaces, ClaimedAt
<1>5. MapInv'
  BY DEF IInv, TypeOK, MapInv, OpenedInv, OpeningPlaces
<1>6. OwnedInv'
  BY DEF IInv, TypeOK, OwnedInv, OpeningPlaces
<1>7. ApartInv'
  BY DEF IInv, TypeOK, ApartInv, OpeningPlaces
<1>8. CallInv'
  BY DEF IInv, TypeOK, CallInv, LockInv, OpeningPlaces
<1>9. FoundInv'
  BY DEF IInv, TypeOK, FoundInv, LockInv, OpeningPlaces, Range
<1> QED BY <1>1, <1>2, <1>3, <1>4, <1>5, <1>6, <1>7, <1>8, <1>9 DEF IInv

LEMMA ConfigureHolds == ASSUME IInv, NEW t \in Threads, Configure(t) PROVE IInv'
<1> USE Constants DEF Configure, Goto, mutex, libusb
<1>1. TypeOK'
  BY OpeningKnown DEF IInv, TypeOK, OpeningPlaces, Places
<1>2. LockInv'
  BY DEF IInv, TypeOK, LockInv, OpeningPlaces
<1>3. HandleInv'
  BY DEF IInv, TypeOK, HandleInv, OpeningPlaces
<1>4. OpenedInv'
  BY DEF IInv, TypeOK, OpenedInv, LockInv, OpeningPlaces, ClaimedAt
<1>5. MapInv'
  BY DEF IInv, TypeOK, MapInv, OpenedInv, OpeningPlaces
<1>6. OwnedInv'
  BY DEF IInv, TypeOK, OwnedInv, OpeningPlaces
<1>7. ApartInv'
  BY DEF IInv, TypeOK, ApartInv, OpeningPlaces
<1>8. CallInv'
  BY DEF IInv, TypeOK, CallInv, LockInv, OpeningPlaces
<1>9. FoundInv'
  BY DEF IInv, TypeOK, FoundInv, LockInv, OpeningPlaces, Range
<1> QED BY <1>1, <1>2, <1>3, <1>4, <1>5, <1>6, <1>7, <1>8, <1>9 DEF IInv

LEMMA ResetHolds == ASSUME IInv, NEW t \in Threads, Reset(t) PROVE IInv'
<1> USE Constants DEF Reset, Goto, mutex, libusb
<1>1. TypeOK'
  BY OpeningKnown DEF IInv, TypeOK, OpeningPlaces, Places
<1>2. LockInv'
  BY DEF IInv, TypeOK, LockInv, OpeningPlaces
<1>3. HandleInv'
  BY DEF IInv, TypeOK, HandleInv, OpeningPlaces
<1>4. OpenedInv'
  BY DEF IInv, TypeOK, OpenedInv, LockInv, OpeningPlaces, ClaimedAt
<1>5. MapInv'
  BY DEF IInv, TypeOK, MapInv, OpenedInv, OpeningPlaces
<1>6. OwnedInv'
  BY DEF IInv, TypeOK, OwnedInv, OpeningPlaces
<1>7. ApartInv'
  BY DEF IInv, TypeOK, ApartInv, OpeningPlaces
<1>8. CallInv'
  BY DEF IInv, TypeOK, CallInv, LockInv, OpeningPlaces
<1>9. FoundInv'
  BY DEF IInv, TypeOK, FoundInv, LockInv, OpeningPlaces, Range
<1> QED BY <1>1, <1>2, <1>3, <1>4, <1>5, <1>6, <1>7, <1>8, <1>9 DEF IInv

LEMMA FailsHolds == ASSUME IInv, NEW t \in Threads, Fails(t) PROVE IInv'
<1> USE Constants DEF Fails, Goto, Cleanup, mutex, libusb
<1>1. TypeOK'
  BY OpeningKnown DEF IInv, TypeOK, OpeningPlaces, Places
<1>2. LockInv'
  BY DEF IInv, TypeOK, LockInv, OpeningPlaces
<1>3. HandleInv'
  BY DEF IInv, TypeOK, HandleInv, OpeningPlaces
<1>4. OpenedInv'
  BY DEF IInv, TypeOK, OpenedInv, LockInv, OpeningPlaces, ClaimedAt
<1>5. MapInv'
  BY DEF IInv, TypeOK, MapInv, OpenedInv, OpeningPlaces
<1>6. OwnedInv'
  BY DEF IInv, TypeOK, OwnedInv, OpeningPlaces
<1>7. ApartInv'
  BY DEF IInv, TypeOK, ApartInv, OpeningPlaces
<1>8. CallInv'
  BY DEF IInv, TypeOK, CallInv, LockInv, OpeningPlaces
<1>9. FoundInv'
  BY DEF IInv, TypeOK, FoundInv, LockInv, OpeningPlaces, Range
<1> QED BY <1>1, <1>2, <1>3, <1>4, <1>5, <1>6, <1>7, <1>8, <1>9 DEF IInv

LEMMA ReturnHolds == ASSUME IInv, NEW t \in Threads, Return(t) PROVE IInv'
<1> USE Constants DEF Return, Goto, Unlock, libusb
<1>1. TypeOK'
  BY DEF IInv, TypeOK, Places
<1>2. LockInv'
  BY DEF IInv, TypeOK, LockInv, OpeningPlaces
<1>3. HandleInv'
  BY DEF IInv, TypeOK, HandleInv, OpeningPlaces
<1>4. OpenedInv'
  BY DEF IInv, TypeOK, OpenedInv, LockInv, OpeningPlaces, ClaimedAt
<1>5. MapInv'
  BY DEF IInv, TypeOK, MapInv, OpenedInv, OpeningPlaces
<1>6. OwnedInv'
  BY DEF IInv, TypeOK, OwnedInv, OpeningPlaces
<1>7. ApartInv'
  BY DEF IInv, TypeOK, ApartInv, OpeningPlaces
<1>8. CallInv'
  BY DEF IInv, TypeOK, CallInv, LockInv, OpeningPlaces
<1>9. FoundInv'
  BY DEF IInv, TypeOK, FoundInv, LockInv, OpeningPlaces, Range
<1> QED BY <1>1, <1>2, <1>3, <1>4, <1>5, <1>6, <1>7, <1>8, <1>9 DEF IInv

LEMMA CloseHolds == ASSUME IInv, NEW t \in Threads, Close(t) PROVE IInv'
<1> USE Constants DEF Close, CloseAll, Free, mutex, locals
<1>1. TypeOK'
  BY DEF IInv, TypeOK, LockInv, HandleInv, OpenedInv, OpeningPlaces, Places, Range
<1>2. LockInv'
  BY DEF IInv, TypeOK, LockInv, OpeningPlaces
<1>3. HandleInv'
  BY DEF IInv, TypeOK, HandleInv, OpeningPlaces
<1>4. OpenedInv'
  BY DEF IInv, TypeOK, OpenedInv, LockInv, OpeningPlaces, ClaimedAt
<1>5. MapInv'
  BY DEF IInv, TypeOK, MapInv, OpenedInv, OpeningPlaces
<1>6. OwnedInv'
  BY DEF IInv, TypeOK, OwnedInv, OpeningPlaces, Range
<1>7. ApartInv'
  BY DEF IInv, TypeOK, ApartInv, OpeningPlaces
<1>8. CallInv'
  BY DEF IInv, TypeOK, CallInv, LockInv, OpeningPlaces
<1>9. FoundInv'
  BY DEF IInv, TypeOK, FoundInv, LockInv, OpeningPlaces, Range
<1> QED BY <1>1, <1>2, <1>3, <1>4, <1>5, <1>6, <1>7, <1>8, <1>9 DEF IInv

LEMMA EnumerateHolds == ASSUME IInv, NEW t \in Threads, Enumerate(t) PROVE IInv'
<1> USE Constants DEF Enumerate, CloseAll, Free, Goto, mutex
<1>1. TypeOK'
  BY DEF IInv, TypeOK, LockInv, HandleInv, OpenedInv, OpeningPlaces, Places, Range
<1>2. LockInv'
  BY DEF IInv, TypeOK, LockInv, OpeningPlaces
<1>3. HandleInv'
  BY DEF IInv, TypeOK, HandleInv, OpeningPlaces
<1>4. OpenedInv'
  BY DEF IInv, TypeOK, OpenedInv, LockInv, OpeningPlaces, ClaimedAt
<1>5. MapInv'
  BY DEF IInv, TypeOK, MapInv, OpenedInv, OpeningPlaces
<1>6. OwnedInv'
  <2>1. \A s \in Threads : at[s] \in OpeningPlaces => at'[s] \in OpeningPlaces /\ handle'[s] = handle[s]
    BY DEF IInv, TypeOK, OpeningPlaces
  <2>2. \A h \in Handles : \/ device'[h] = None /\ claimed'[h] = {}
                           \/ /\ device'[h] = device[h] /\ claimed'[h] = claimed[h]
                              /\ \A u \in DOMAIN interpreters : interpreters[u] # h
    BY DEF Range
  <2> QED BY <2>1, <2>2 DEF IInv, OwnedInv
<1>7. ApartInv'
  BY DEF IInv, TypeOK, ApartInv, OpeningPlaces
<1>8. CallInv'
  BY DEF IInv, TypeOK, CallInv, LockInv, OpeningPlaces
<1>9. FoundInv'
  BY DEF IInv, TypeOK, FoundInv, LockInv, OpeningPlaces, Range
<1> QED BY <1>1, <1>2, <1>3, <1>4, <1>5, <1>6, <1>7, <1>8, <1>9 DEF IInv

LEMMA OpenHolds == ASSUME IInv, NEW t \in Threads, Open(t) PROVE IInv'
<1> USE Constants DEF Open, Goto, More, mutex
<1>0. PICK h \in Handles : /\ device[h] = None
                           /\ device' = [device EXCEPT ![h] = DeviceList[index[t]]]
                           /\ handle' = [handle EXCEPT ![t] = h]
  OBVIOUS
<1>a. /\ claimed[h] = {} /\ \A u \in DOMAIN interpreters : interpreters[u] # h
      /\ \A s \in Threads : at[s] \in OpeningPlaces => handle[s] # h
  BY <1>0, ClosedKnown
<1>b. \A s \in Threads : at[s] \notin OpeningPlaces
  BY DEF IInv, LockInv, OpeningPlaces
<1>c. device'[h] # None /\ handle'[t] = h /\ \A g \in Handles \ {h} : device'[g] = device[g]
  BY <1>0 DEF IInv, TypeOK
<1>1. TypeOK'
  BY <1>0 DEF IInv, TypeOK, OpeningPlaces, Places
<1>2. LockInv'
  BY DEF IInv, TypeOK, LockInv, OpeningPlaces
<1>3. HandleInv'
  BY <1>0 DEF IInv, TypeOK, HandleInv, OpeningPlaces
<1>4. OpenedInv'
  <2>1. \A s \in Threads : at'[s] \in OpeningPlaces => s = t
    BY <1>b DEF IInv, TypeOK
  <2>2. at'[t] = "configure" /\ index'[t] <= Len(DeviceList)
    BY DEF IInv, TypeOK
  <2>3. claimed'[h] = ClaimedAt["configure"] /\ interpreters' = interpreters
    BY <1>a, ClaimedAtIs
  <2> HIDE DEF Open
  <2> QED BY <1>a, <1>c, <2>1, <2>2, <2>3 DEF OpenedInv
<1>5. MapInv'
  BY <1>0, <1>a DEF IInv, TypeOK, MapInv, Range
<1>6. OwnedInv'
  <2>1. at'[t] \in OpeningPlaces
    BY DEF IInv, TypeOK, OpeningPlaces
  <2> QED BY <1>b, <1>c, <2>1 DEF IInv, OwnedInv
<1>7. ApartInv'
  BY <1>a, <1>c DEF IInv, ApartInv
<1>8. CallInv'
  BY <1>0 DEF IInv, TypeOK, CallInv
<1>9. FoundInv'
  BY DEF IInv, TypeOK, FoundInv, OpeningPlaces
<1> QED BY <1>1, <1>2, <1>3, <1>4, <1>5, <1>6, <1>7, <1>8, <1>9 DEF IInv

LEMMA Claim0Holds == ASSUME IInv, NEW t \in Threads, Claim0(t) PROVE IInv'
<1> USE Constants DEF Claim0, ClaimInterface, Goto, mutex
<1>1. TypeOK'
  BY OpeningKnown DEF IInv, TypeOK, OpeningPlaces, Places
<1>2. LockInv'
  BY DEF IInv, TypeOK, LockInv, OpeningPlaces
<1>3. HandleInv'
  BY DEF IInv, TypeOK, HandleInv, OpeningPlaces
<1>4. OpenedInv'
  <2>1. at[t] \in OpeningPlaces /\ handle[t] \in Handles /\ claimed[handle[t]] = ClaimedAt["claim0"]
    BY OpeningKnown DEF OpeningPlaces
  <2>2. claimed'[handle[t]] = {0} /\ at'[t] = "claim1"
    BY <2>1, ClaimedAtIs DEF IInv, TypeOK
  <2>3. \A s \in Threads \ {t} : at'[s] \notin OpeningPlaces
    BY <2>1, OpeningKnown DEF IInv, TypeOK
  <2> QED BY <2>1, <2>2, <2>3, ClaimedAtIs DEF IInv, OpenedInv
<1>5. MapInv'
  BY DEF IInv, TypeOK, MapInv, OpenedInv, OpeningPlaces
<1>6. OwnedInv'
  BY DEF IInv, TypeOK, OwnedInv, OpeningPlaces
<1>7. ApartInv'
  BY OpeningKnown DEF IInv, TypeOK, ApartInv, OpeningPlaces, ClaimedOf
<1>8. CallInv'
  BY DEF IInv, TypeOK, CallInv, LockInv, OpeningPlaces
<1>9. FoundInv'
  BY DEF IInv, TypeOK, FoundInv, LockInv, OpeningPlaces, Range
<1> QED BY <1>1, <1>2, <1>3, <1>4, <1>5, <1>6, <1>7, <1>8, <1>9 DEF IInv

LEMMA Claim1Holds == ASSUME IInv, NEW t \in Threads, Claim1(t) PROVE IInv'
<1> USE Constants DEF Claim1, ClaimInterface, Goto, mutex
<1>1. TypeOK'
  BY OpeningKnown DEF IInv, TypeOK, OpeningPlaces, Places
<1>2. LockInv'
  BY DEF IInv, TypeOK, LockInv, OpeningPlaces
<1>3. HandleInv'
  BY DEF IInv, TypeOK, HandleInv, OpeningPlaces
<1>4. OpenedInv'
  <2>1. at[t] \in OpeningPlaces /\ handle[t] \in Handles /\ claimed[handle[t]] = ClaimedAt["claim1"]
    BY OpeningKnown DEF OpeningPlaces
  <2>2. claimed'[handle[t]] = {0, 1} /\ at'[t] = "reset"
    BY <2>1, ClaimedAtIs DEF IInv, TypeOK
  <2>3. \A s \in Threads \ {t} : at'[s] \notin OpeningPlaces
    BY <2>1, OpeningKnown DEF IInv, TypeOK
  <2> QED BY <2>1, <2>2, <2>3, ClaimedAtIs DEF IInv, OpenedInv
<1>5. MapInv'
  BY DEF IInv, TypeOK, MapInv, OpenedInv, OpeningPlaces
<1>6. OwnedInv'
  BY DEF IInv, TypeOK, OwnedInv, OpeningPlaces
<1>7. ApartInv'
  BY OpeningKnown DEF IInv, TypeOK, ApartInv, OpeningPlaces, ClaimedOf
<1>8. CallInv'
  BY DEF IInv, TypeOK, CallInv, LockInv, OpeningPlaces
<1>9. FoundInv'
  BY DEF IInv, TypeOK, FoundInv, LockInv, OpeningPlaces, Range
<1> QED BY <1>1, <1>2, <1>3, <1>4, <1>5, <1>6, <1>7, <1>8, <1>9 DEF IInv

LEMMA Release0Holds == ASSUME IInv, NEW t \in Threads, Release0(t) PROVE IInv'
<1> USE Constants DEF Release0, ReleaseInterface, Goto, mutex
<1>1. TypeOK'
  BY OpeningKnown DEF IInv, TypeOK, OpeningPlaces, Places
<1>2. LockInv'
  BY DEF IInv, TypeOK, LockInv, OpeningPlaces
<1>3. HandleInv'
  BY DEF IInv, TypeOK, HandleInv, OpeningPlaces
<1>4. OpenedInv'
  <2>1. at[t] \in OpeningPlaces /\ handle[t] \in Handles /\ claimed[handle[t]] = ClaimedAt["release_interface_0"]
    BY OpeningKnown DEF OpeningPlaces
  <2>2. claimed'[handle[t]] = {} /\ at'[t] = "close_handle"
    BY <2>1, ClaimedAtIs DEF IInv, TypeOK
  <2>3. \A s \in Threads \ {t} : at'[s] \notin OpeningPlaces
    BY <2>1, OpeningKnown DEF IInv, TypeOK
  <2> QED BY <2>1, <2>2, <2>3, ClaimedAtIs DEF IInv, OpenedInv
<1>5. MapInv'
  BY DEF IInv, TypeOK, MapInv, OpenedInv, OpeningPlaces
<1>6. OwnedInv'
  BY DEF IInv, TypeOK, OwnedInv, OpeningPlaces
<1>7. ApartInv'
  BY DEF IInv, TypeOK, ApartInv, OpeningPlaces
<1>8. CallInv'
  BY DEF IInv, TypeOK, CallInv, LockInv, OpeningPlaces
<1>9. FoundInv'
  BY DEF IInv, TypeOK, FoundInv, LockInv, OpeningPlaces, Range
<1> QED BY <1>1, <1>2, <1>3, <1>4, <1>5, <1>6, <1>7, <1>8, <1>9 DEF IInv

LEMMA Release1Holds == ASSUME IInv, NEW t \in Threads, Release1(t) PROVE IInv'
<1> USE Constants DEF Release1, ReleaseInterface, Goto, mutex
<1>1. TypeOK'
  BY OpeningKnown DEF IInv, TypeOK, OpeningPlaces, Places
<1>2. LockInv'
  BY DEF IInv, TypeOK, LockInv, OpeningPlaces
<1>3. HandleInv'
  BY DEF IInv, TypeOK, HandleInv, OpeningPlaces
<1>4. OpenedInv'
  <2>1. at[t] \in OpeningPlaces /\ handle[t] \in Handles /\ claimed[handle[t]] = ClaimedAt["release_interface_1"]
    BY OpeningKnown DEF OpeningPlaces
  <2>2. claimed'[handle[t]] = {0} /\ at'[t] = "release_interface_0"
    BY <2>1, ClaimedAtIs DEF IInv, TypeOK
  <2>3. \A s \in Threads \ {t} : at'[s] \notin OpeningPlaces
    BY <2>1, OpeningKnown DEF IInv, TypeOK
  <2> QED BY <2>1, <2>2, <2>3, ClaimedAtIs DEF IInv, OpenedInv
<1>5. MapInv'
  BY DEF IInv, TypeOK, MapInv, OpenedInv, OpeningPlaces
<1>6. OwnedInv'
  BY DEF IInv, TypeOK, OwnedInv, OpeningPlaces
<1>7. ApartInv'
  BY DEF IInv, TypeOK, ApartInv, OpeningPlaces
<1>8. CallInv'
  BY DEF IInv, TypeOK, CallInv, LockInv, OpeningPlaces
<1>9. FoundInv'
  BY DEF IInv, TypeOK, FoundInv, LockInv, OpeningPlaces, Range
<1> QED BY <1>1, <1>2, <1>3, <1>4, <1>5, <1>6, <1>7, <1>8, <1>9 DEF IInv

LEMMA CloseHandleHolds == ASSUME IInv, NEW t \in Threads, CloseHandle(t) PROVE IInv'
<1> USE Constants DEF CloseHandle, Continue, Goto, mutex
<1>1. TypeOK'
  BY OpeningKnown DEF IInv, TypeOK, OpeningPlaces, Places
<1>2. LockInv'
  BY DEF IInv, TypeOK, LockInv, OpeningPlaces
<1>3. HandleInv'
  BY DEF IInv, TypeOK, HandleInv, OpeningPlaces
<1>4. OpenedInv'
  BY DEF IInv, TypeOK, OpenedInv, LockInv, OpeningPlaces, ClaimedAt
<1>5. MapInv'
  BY DEF IInv, TypeOK, MapInv, OpenedInv, OpeningPlaces
<1>6. OwnedInv'
  BY DEF IInv, TypeOK, OwnedInv, OpeningPlaces
<1>7. ApartInv'
  BY DEF IInv, TypeOK, ApartInv, OpeningPlaces
<1>8. CallInv'
  BY DEF IInv, TypeOK, CallInv, LockInv, OpeningPlaces
<1>9. FoundInv'
  BY DEF IInv, TypeOK, FoundInv, LockInv, OpeningPlaces, Range
<1> QED BY <1>1, <1>2, <1>3, <1>4, <1>5, <1>6, <1>7, <1>8, <1>9 DEF IInv

LEMMA UnidentifiedHolds == ASSUME IInv, NEW t \in Threads, Unidentified(t) PROVE IInv'
<1> USE Constants DEF Unidentified, Continue, Goto, mutex
<1>1. TypeOK'
  BY OpeningKnown DEF IInv, TypeOK, OpeningPlaces, Places
<1>2. LockInv'
  BY DEF IInv, TypeOK, LockInv, OpeningPlaces
<1>3. HandleInv'
  BY DEF IInv, TypeOK, HandleInv, OpeningPlaces
<1>4. OpenedInv'
  BY DEF IInv, TypeOK, OpenedInv, LockInv, OpeningPlaces, ClaimedAt
<1>5. MapInv'
  BY DEF IInv, TypeOK, MapInv, OpenedInv, OpeningPlaces
<1>6. OwnedInv'
  BY DEF IInv, TypeOK, OwnedInv, OpeningPlaces
<1>7. ApartInv'
  BY DEF IInv, TypeOK, ApartInv, OpeningPlaces
<1>8. CallInv'
  BY DEF IInv, TypeOK, CallInv, LockInv, OpeningPlaces
<1>9. FoundInv'
  BY DEF IInv, TypeOK, FoundInv, LockInv, OpeningPlaces, Range
<1> QED BY <1>1, <1>2, <1>3, <1>4, <1>5, <1>6, <1>7, <1>8, <1>9 DEF IInv

LEMMA IdentifiedHolds == ASSUME IInv, NEW t \in Threads, Identified(t) PROVE IInv'
<1> USE Constants DEF Identified, Continue, Goto, mutex, libusb
<1>0. /\ handle[t] \in Handles /\ device[handle[t]] \in Pixys /\ claimed[handle[t]] = {0, 1}
      /\ Uid[device[handle[t]]] \notin DOMAIN interpreters
  BY FreshUid, OpeningKnown, ClaimedAtIs DEF OpeningPlaces
<1>a. /\ DOMAIN interpreters' = DOMAIN interpreters \cup {Uid[device[handle[t]]]}
      /\ interpreters'[Uid[device[handle[t]]]] = handle[t]
      /\ \A u \in DOMAIN interpreters : interpreters'[u] = interpreters[u]
  BY <1>0
<1>1. TypeOK'
  <2>1. DOMAIN interpreters' \subseteq Range(Uid) /\ Range(interpreters)' \subseteq Handles
    <3>1. Uid[device[handle[t]]] \in Range(Uid)
      BY <1>0, Constants
    <3>2. DOMAIN interpreters' \subseteq Range(Uid)
      BY <1>a, <3>1 DEF IInv, TypeOK
    <3>3. \A u \in DOMAIN interpreters : interpreters[u] \in Handles
      BY DEF IInv, TypeOK, Range
    <3>4. \A u \in DOMAIN interpreters' : interpreters'[u] \in Handles
      BY <1>0, <1>a, <3>3
    <3>5. Range(interpreters)' \subseteq Handles
      BY <3>4 DEF Range
    <3> QED BY <3>2, <3>5
  <2>2. uids' \in [Threads -> Seq(Range(Uid))]
    BY <1>0 DEF IInv, TypeOK
  <2>3. index' \in [Threads -> 1..Len(DeviceList) + 1]
    BY OpeningKnown DEF IInv, TypeOK, OpeningPlaces
  <2> QED BY <2>1, <2>2, <2>3 DEF IInv, TypeOK, Places
<1>2. LockInv'
  BY DEF IInv, TypeOK, LockInv, OpeningPlaces
<1>3. HandleInv'
  BY DEF IInv, TypeOK, HandleInv, OpeningPlaces
<1>4. OpenedInv'
  BY DEF IInv, TypeOK, OpenedInv, LockInv, OpeningPlaces, ClaimedAt
<1>5. MapInv'
  BY <1>0, <1>a DEF IInv, MapInv
<1>6. OwnedInv'
  <2>1. \A s \in Threads \ {t} : at'[s] = at[s] /\ handle'[s] = handle[s]
    BY DEF IInv, TypeOK
  <2> QED BY <1>0, <1>a, <2>1 DEF IInv, OwnedInv
<1>7. ApartInv'
  BY DEF IInv, TypeOK, ApartInv, OpeningPlaces
<1>8. CallInv'
  BY DEF IInv, TypeOK, CallInv, LockInv, OpeningPlaces
<1>9. FoundInv'
  BY DEF IInv, TypeOK, FoundInv, LockInv, OpeningPlaces, Range
<1> QED BY <1>1, <1>2, <1>3, <1>4, <1>5, <1>6, <1>7, <1>8, <1>9 DEF IInv

LEMMA CallReturnsHolds == ASSUME IInv, NEW t \in Threads, CallReturns(t) PROVE IInv'
<1> USE Constants DEF CallReturns, Goto, Unlock, libusb
<1>1. TypeOK'
  BY OpeningKnown DEF IInv, TypeOK, OpeningPlaces, Places
<1>2. LockInv'
  BY DEF IInv, TypeOK, LockInv, OpeningPlaces
<1>3. HandleInv'
  BY DEF IInv, TypeOK, HandleInv, OpeningPlaces
<1>4. OpenedInv'
  BY DEF IInv, TypeOK, OpenedInv, LockInv, OpeningPlaces, ClaimedAt
<1>5. MapInv'
  BY DEF IInv, TypeOK, MapInv, OpenedInv, OpeningPlaces
<1>6. OwnedInv'
  BY DEF IInv, TypeOK, OwnedInv, OpeningPlaces
<1>7. ApartInv'
  BY DEF IInv, TypeOK, ApartInv, OpeningPlaces
<1>8. CallInv'
  BY DEF IInv, TypeOK, CallInv, LockInv, OpeningPlaces
<1>9. FoundInv'
  BY DEF IInv, TypeOK, FoundInv, LockInv, OpeningPlaces, Range
<1> QED BY <1>1, <1>2, <1>3, <1>4, <1>5, <1>6, <1>7, <1>8, <1>9 DEF IInv

LEMMA CallHolds == ASSUME IInv, NEW t \in Threads, NEW uid \in Range(Uid), Call(t, uid) PROVE IInv'
<1> USE Constants DEF Call, Goto, libusb
<1>1. TypeOK'
  BY DEF IInv, TypeOK, Places, Range
<1>2. LockInv'
  BY DEF IInv, TypeOK, LockInv, OpeningPlaces
<1>3. HandleInv'
  BY DEF IInv, TypeOK, HandleInv, OpeningPlaces, Range
<1>4. OpenedInv'
  BY DEF IInv, TypeOK, OpenedInv, OpeningPlaces
<1>5. MapInv'
  BY DEF IInv, MapInv
<1>6. OwnedInv'
  <2>1. \A s \in Threads : at[s] \in OpeningPlaces => at'[s] = at[s] /\ handle'[s] = handle[s]
    BY DEF IInv, TypeOK, OpeningPlaces
  <2> QED BY <2>1 DEF IInv, OwnedInv
<1>7. ApartInv'
  BY DEF IInv, ApartInv
<1>8. CallInv'
  BY DEF IInv, TypeOK, CallInv
<1>9. FoundInv'
  BY DEF IInv, TypeOK, FoundInv, OpeningPlaces
<1> QED BY <1>1, <1>2, <1>3, <1>4, <1>5, <1>6, <1>7, <1>8, <1>9 DEF IInv

LEMMA StutterHolds == ASSUME IInv, UNCHANGED vars PROVE IInv'
<1> USE DEF vars, mutex, libusb, locals
<1>1. TypeOK' /\ LockInv' /\ HandleInv' /\ OpenedInv'
  BY DEF IInv, TypeOK, LockInv, HandleInv, OpenedInv
<1>2. MapInv' /\ OwnedInv' /\ ApartInv' /\ CallInv' /\ FoundInv'
  BY DEF IInv, MapInv, OwnedInv, ApartInv, CallInv, FoundInv
<1> QED BY <1>1, <1>2 DEF IInv

LEMMA NextHolds == IInv /\ [Next]_vars => IInv'
<1> SUFFICES ASSUME IInv, Next PROVE IInv'
  BY StutterHolds
<1> PICK t \in Threads : Thread(t)
  BY DEF Next
<1>1. CASE Close(t) \/ Enumerate(t) \/ EnumerateLocks(t) \/ ListFails(t) \/ List(t) \/ Return(t)
  BY <1>1, CloseHolds, EnumerateHolds, EnumerateLocksHolds, ListFailsHolds, ListHolds, ReturnHolds
<1>2. CASE Skip(t) \/ Open(t) \/ Configure(t) \/ Claim0(t) \/ Claim1(t) \/ Reset(t) \/ Fails(t)
  BY <1>2, SkipHolds, OpenHolds, ConfigureHolds, Claim0Holds, Claim1Holds, ResetHolds, FailsHolds
<1>3. CASE Release1(t) \/ Release0(t) \/ CloseHandle(t) \/ Identified(t) \/ Unidentified(t)
  BY <1>3, Release1Holds, Release0Holds, CloseHandleHolds, IdentifiedHolds, UnidentifiedHolds
<1>4. CASE (\E uid \in Range(Uid) : Call(t, uid)) \/ CallReturns(t)
  BY <1>4, CallHolds, CallReturnsHolds
<1> QED BY <1>1, <1>2, <1>3, <1>4 DEF Thread

LEMMA Invariant == Spec => []IInv
<1> QED BY InitHolds, NextHolds, PTL DEF Spec

-----------------------------------------------------------------------------
(* The theorems.                                                           *)

\* Every variable keeps its type: no step of pixy_enumerate or of a function that takes a
\* uid leaves the list of devices or works with a handle that libusb did not give.
THEOREM TypeCorrect == Spec => []TypeOK
<1>1. IInv => TypeOK
  BY DEF IInv
<1> QED BY <1>1, Invariant, PTL

LEMMA OwnedHolds == IInv => HandlesOwned
<1> SUFFICES ASSUME IInv PROVE HandlesOwned
  OBVIOUS
<1> DEFINE Opening == {t \in Threads : at[t] # "call" /\ handle[t] # None}
<1>1. Opening = {t \in Threads : at[t] \in OpeningPlaces}
  BY DEF IInv, HandleInv, OpeningPlaces
<1>2. {h \in Handles : device[h] # None} = Range(interpreters) \cup {handle[t] : t \in Opening}
  <2>1. ASSUME NEW h \in Handles, device[h] # None
        PROVE  h \in Range(interpreters) \cup {handle[t] : t \in Opening}
    BY <1>1, <2>1 DEF IInv, OwnedInv, Range
  <2>2. \A u \in DOMAIN interpreters : interpreters[u] \in Handles /\ device[interpreters[u]] # None
    BY DEF IInv, TypeOK, MapInv, Range
  <2>3. \A t \in Opening : handle[t] \in Handles /\ device[handle[t]] # None
    BY <1>1, OpeningKnown, Constants
  <2> HIDE DEF Opening
  <2> QED BY <2>1, <2>2, <2>3 DEF Range
<1>3. IsInjective(interpreters)
  BY DEF IInv, MapInv, IsInjective
<1>4. Cardinality(Opening) <= 1
  <2>1. CASE Opening = {}
    BY <2>1, FS_EmptySet
  <2>2. ASSUME NEW t \in Opening PROVE Opening = {t}
    BY <1>1, OpeningKnown
  <2>3. ASSUME NEW t \in Opening PROVE Cardinality(Opening) = 1
    BY <2>2, FS_Singleton
  <2> QED BY <2>1, <2>3
<1>5. \A t \in Opening : handle[t] \notin Range(interpreters)
  BY <1>1 DEF IInv, OpenedInv, Range
<1> QED BY <1>2, <1>3, <1>4, <1>5 DEF HandlesOwned

\* Every open handle has one owner, an object of the map or the thread that opens it,
\* whichever of libusb's calls fail and however many threads enumerate and close.
THEOREM Owned == Spec => []HandlesOwned
BY Invariant, OwnedHolds, PTL

LEMMA LinkHolds == IInv => CallHasLink
<1> SUFFICES ASSUME IInv, NEW t \in Threads, at[t] = "call"
             PROVE  /\ handle[t] \in Range(interpreters) /\ claimed[handle[t]] = {0, 1}
                    /\ \A h \in Handles \ {handle[t]} : device[h] = device[handle[t]] => claimed[h] = {}
  BY DEF CallHasLink
<1>1. PICK u \in DOMAIN interpreters : interpreters[u] = handle[t]
  BY DEF IInv, CallInv
<1>2. handle[t] \in Handles /\ claimed[handle[t]] = {0, 1} /\ device[handle[t]] # None
  BY <1>1 DEF IInv, TypeOK, MapInv, Range
<1>3. ASSUME NEW h \in Handles \ {handle[t]}, device[h] = device[handle[t]] PROVE claimed[h] = {}
  <2>1. claimed[h] \cap {0, 1} = {} /\ claimed[h] \subseteq {0, 1}
    BY <1>2, <1>3 DEF IInv, TypeOK, ApartInv
  <2> QED BY <2>1
<1> QED BY <1>1, <1>2, <1>3 DEF Range

\* A function that found the Pixy of its uid works on a link that is open and alone has
\* the Pixy's interfaces until it returns, whoever enumerates or closes meanwhile.
THEOREM LinkKept == Spec => []CallHasLink
BY Invariant, LinkHolds, PTL

\* No handle is closed with an interface claimed, whichever of the seven calls failed.
THEOREM Released == Spec => ReleasedFirst
<1>1. IInv /\ [Next]_vars => [\A t \in Threads : CloseHandle(t) => claimed[handle[t]] = {}]_vars
  BY OpeningKnown, ClaimedAtIs DEF CloseHandle, OpeningPlaces
<1> QED BY <1>1, Invariant, PTL DEF Spec, ReleasedFirst

\* What pixy_enumerate reports when it returns is in the map with an open link, however
\* many threads enumerate and close.
THEOREM Reported == Spec => ReportedUsable
<1>1. ASSUME IInv, NEW t \in Threads, Return(t), NEW uid \in Range(uids[t])
      PROVE  /\ uid \in DOMAIN interpreters /\ Uid[device[interpreters[uid]]] = uid
             /\ claimed[interpreters[uid]] = {0, 1}
  BY <1>1 DEF Return, IInv, FoundInv, MapInv
<1>2. IInv => [\A t \in Threads : Return(t) =>
                 \A uid \in Range(uids[t]) :
                   /\ uid \in DOMAIN interpreters /\ Uid[device[interpreters[uid]]] = uid
                   /\ claimed[interpreters[uid]] = {0, 1}]_vars
  BY <1>1
<1> QED BY <1>2, Invariant, PTL DEF Spec, ReportedUsable
=============================================================================
