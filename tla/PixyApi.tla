------------------------------- MODULE PixyApi -------------------------------
(***************************************************************************)
(* pixy.cpp: the map of the Pixys that were found, pixy_map_mutex, and who *)
(* owns which libusb handle.  Threads enumerate, close and call the        *)
(* functions that take a uid.  What such a function and the object behind  *)
(* it do is PixyInterpreter's.  libusb's calls fail as they like.          *)
(***************************************************************************)
EXTENDS Integers, Sequences, FiniteSets, Functions

CONSTANTS
  Threads,      \* threads of the application
  DeviceList,   \* the USB devices, in libusb's order
  Uid,          \* the uid of every device that is a Pixy
  MaxCount,     \* max_pixy_count
  Handles,      \* bound: libusb_device_handles
  None

Pixys == DOMAIN Uid

ASSUME ApiAssumption ==
  /\ None \notin Threads \cup Handles
  /\ DeviceList \in Seq(Range(DeviceList)) /\ IsInjective(DeviceList)
  /\ None \notin Range(DeviceList)
  /\ Pixys \subseteq Range(DeviceList) /\ IsInjective(Uid)
  /\ MaxCount \in Nat

VARIABLES
  exclusive,     \* who holds pixy_map_mutex exclusively
  shared,        \* who holds it shared
  interpreters,  \* uid -> the handle of its PixyInterpreter's link
  device,        \* libusb: the device a handle is open on, None when closed
  claimed,       \* libusb: the interfaces claimed with a handle
  at,            \* where a thread is
  index,         \* pixy_enumerate's i
  handle,        \* the handle a thread works with
  uids           \* what pixy_enumerate found so far

mutex == <<exclusive, shared>>
libusb == <<device, claimed>>
locals == <<at, index, handle, uids>>
vars == <<mutex, interpreters, libusb, locals>>

Init ==
  /\ exclusive = None /\ shared = {}
  /\ interpreters = <<>>
  /\ device = [h \in Handles |-> None] /\ claimed = [h \in Handles |-> {}]
  /\ at = [t \in Threads |-> "idle"] /\ index = [t \in Threads |-> 1]
  /\ handle = [t \in Threads |-> None] /\ uids = [t \in Threads |-> <<>>]

Free == exclusive = None /\ shared = {}

Goto(t, l) == at' = [at EXCEPT ![t] = l]

-----------------------------------------------------------------------------
(* pixy_close.                                                             *)

\* close() and delete of every object, under one exclusive lock: USBLink::close
\* releases the interfaces and closes the handle.
CloseAll ==
  /\ Free
  /\ device' = [h \in Handles |-> IF h \in Range(interpreters) THEN None ELSE device[h]]
  /\ claimed' = [h \in Handles |-> IF h \in Range(interpreters) THEN {} ELSE claimed[h]]
  /\ interpreters' = <<>>

Close(t) ==
  /\ at[t] = "idle" /\ CloseAll
  /\ UNCHANGED <<mutex, locals>>

-----------------------------------------------------------------------------
(* pixy_enumerate.                                                         *)

\* It closes what is open, and has no lock while it sleeps.
Enumerate(t) ==
  /\ at[t] = "idle" /\ CloseAll
  /\ Goto(t, "sleep")
  /\ UNCHANGED <<mutex, index, handle, uids>>

\* Mutant: it does not wait for readers, nor keep others out.
EnumerateLocks_Not(t) ==
  /\ at[t] = "sleep" /\ Goto(t, "list")
  /\ UNCHANGED <<mutex, interpreters, libusb, index, handle, uids>>

EnumerateLocks(t) ==
  /\ at[t] = "sleep" /\ Free /\ exclusive' = t
  /\ Goto(t, "list")
  /\ UNCHANGED <<shared, interpreters, libusb, index, handle, uids>>

Unlock(t) ==
  /\ exclusive' = IF exclusive = t THEN None ELSE exclusive
  /\ shared' = shared \ {t}

\* libusb_init or libusb_get_device_list fails.
ListFails(t) ==
  /\ at[t] = "list" /\ Goto(t, "idle") /\ Unlock(t)
  /\ UNCHANGED <<interpreters, libusb, index, handle, uids>>

List(t) ==
  /\ at[t] = "list" /\ Goto(t, "scan")
  /\ index' = [index EXCEPT ![t] = 1] /\ uids' = [uids EXCEPT ![t] = <<>>]
  /\ UNCHANGED <<mutex, interpreters, libusb, handle>>

More(t) == index[t] <= Len(DeviceList) /\ Len(uids[t]) < MaxCount

Continue(t) ==
  /\ Goto(t, "scan")
  /\ index' = [index EXCEPT ![t] = @ + 1] /\ handle' = [handle EXCEPT ![t] = None]

\* Not a Pixy, or libusb_open fails.
Skip(t) ==
  /\ at[t] = "scan" /\ More(t) /\ Continue(t)
  /\ UNCHANGED <<mutex, interpreters, libusb, uids>>

Open(t) ==
  /\ at[t] = "scan" /\ More(t) /\ DeviceList[index[t]] \in Pixys
  /\ \E h \in Handles :
       /\ device[h] = None
       /\ device' = [device EXCEPT ![h] = DeviceList[index[t]]]
       /\ handle' = [handle EXCEPT ![t] = h]
  /\ Goto(t, "configure")
  /\ UNCHANGED <<mutex, interpreters, claimed, index, uids>>

\* The interfaces of d that are claimed with any handle.
ClaimedOf(d) == UNION {claimed[h] : h \in {g \in Handles : device[g] = d}}

\* libusb_set_configuration: busy while an interface is claimed.
Configure(t) ==
  /\ at[t] = "configure" /\ ClaimedOf(device[handle[t]]) = {}
  /\ Goto(t, "claim0")
  /\ UNCHANGED <<mutex, interpreters, libusb, index, handle, uids>>

\* libusb_claim_interface: busy while another handle has it.
ClaimInterface(t, k) ==
  /\ k \notin ClaimedOf(device[handle[t]])
  /\ claimed' = [claimed EXCEPT ![handle[t]] = @ \cup {k}]
  /\ UNCHANGED <<mutex, interpreters, device, index, handle, uids>>

\* Mutant: off by one.
Claim1_Next(t) == at[t] = "claim1" /\ ClaimInterface(t, 2) /\ Goto(t, "reset")

Claim0(t) == at[t] = "claim0" /\ ClaimInterface(t, 0) /\ Goto(t, "claim1")
Claim1(t) == at[t] = "claim1" /\ ClaimInterface(t, 1) /\ Goto(t, "reset")

\* libusb_set_interface_alt_setting and libusb_reset_device succeed.
Reset(t) ==
  /\ at[t] = "reset" /\ Goto(t, "identify")
  /\ UNCHANGED <<mutex, interpreters, libusb, index, handle, uids>>

\* The label each failing call goes to.
Cleanup == [configure |-> "close_handle", claim0 |-> "close_handle",
            claim1 |-> "release_interface_0", reset |-> "release_interface_1"]

\* Mutant: one label too late.
Fails_NoRelease(t) ==
  /\ at[t] \in DOMAIN Cleanup /\ Goto(t, "close_handle")
  /\ UNCHANGED <<mutex, interpreters, libusb, index, handle, uids>>

Fails(t) ==
  /\ at[t] \in DOMAIN Cleanup /\ Goto(t, Cleanup[at[t]])
  /\ UNCHANGED <<mutex, interpreters, libusb, index, handle, uids>>

ReleaseInterface(t, k) ==
  /\ claimed' = [claimed EXCEPT ![handle[t]] = @ \ {k}]
  /\ UNCHANGED <<mutex, interpreters, device, index, handle, uids>>

Release1(t) ==
  /\ at[t] = "release_interface_1" /\ ReleaseInterface(t, 1) /\ Goto(t, "release_interface_0")
Release0(t) ==
  /\ at[t] = "release_interface_0" /\ ReleaseInterface(t, 0) /\ Goto(t, "close_handle")

\* Mutant: the handle stays open.
CloseHandle_Not(t) ==
  /\ at[t] = "close_handle" /\ Continue(t)
  /\ UNCHANGED <<mutex, interpreters, libusb, uids>>

CloseHandle(t) ==
  /\ at[t] = "close_handle" /\ Continue(t)
  /\ device' = [device EXCEPT ![handle[t]] = None]
  /\ claimed' = [claimed EXCEPT ![handle[t]] = {}]
  /\ UNCHANGED <<mutex, interpreters, uids>>

\* init and getUID succeed.
Identified(t) ==
  /\ at[t] = "identify" /\ Continue(t)
  /\ LET uid == Uid[device[handle[t]]]
     IN  /\ interpreters' = [u \in DOMAIN interpreters \cup {uid} |->
                               IF u = uid THEN handle[t] ELSE interpreters[u]]
         /\ uids' = [uids EXCEPT ![t] = Append(@, uid)]
  /\ UNCHANGED <<mutex, libusb>>

\* One of them fails: the object is closed, and its link with it.
Unidentified(t) ==
  /\ at[t] = "identify" /\ Continue(t)
  /\ device' = [device EXCEPT ![handle[t]] = None]
  /\ claimed' = [claimed EXCEPT ![handle[t]] = {}]
  /\ UNCHANGED <<mutex, interpreters, uids>>

Return(t) ==
  /\ at[t] = "scan" /\ ~More(t) /\ Goto(t, "idle") /\ Unlock(t)
  /\ UNCHANGED <<interpreters, libusb, index, handle, uids>>

-----------------------------------------------------------------------------
(* The functions that take a uid.                                          *)

\* Mutant: the lock is released when the object is found.
Call_Unlocked(t, uid) ==
  /\ at[t] = "idle" /\ exclusive = None /\ uid \in DOMAIN interpreters
  /\ handle' = [handle EXCEPT ![t] = interpreters[uid]]
  /\ Goto(t, "call")
  /\ UNCHANGED <<mutex, interpreters, libusb, index, uids>>

\* It holds the lock shared while it uses the object; an unknown uid is refused.
Call(t, uid) ==
  /\ at[t] = "idle" /\ exclusive = None /\ uid \in DOMAIN interpreters
  /\ shared' = shared \cup {t}
  /\ handle' = [handle EXCEPT ![t] = interpreters[uid]]
  /\ Goto(t, "call")
  /\ UNCHANGED <<exclusive, interpreters, libusb, index, uids>>

CallReturns(t) ==
  /\ at[t] = "call" /\ Goto(t, "idle") /\ Unlock(t)
  /\ handle' = [handle EXCEPT ![t] = None]
  /\ UNCHANGED <<interpreters, libusb, index, uids>>

-----------------------------------------------------------------------------
Thread(t) ==
  \/ Close(t) \/ Enumerate(t) \/ EnumerateLocks(t) \/ ListFails(t) \/ List(t)
  \/ Skip(t) \/ Open(t) \/ Configure(t) \/ Claim0(t) \/ Claim1(t) \/ Reset(t)
  \/ Fails(t) \/ Release1(t) \/ Release0(t) \/ CloseHandle(t)
  \/ Identified(t) \/ Unidentified(t) \/ Return(t)
  \/ (\E uid \in Range(Uid) : Call(t, uid)) \/ CallReturns(t)

Next == \E t \in Threads : Thread(t)

Spec == Init /\ [][Next]_vars

-----------------------------------------------------------------------------
(* Properties.                                                             *)

Places == {"idle", "sleep", "list", "scan", "configure", "claim0", "claim1", "reset", "identify",
           "release_interface_1", "release_interface_0", "close_handle", "call"}

\* Every variable has its type.
TypeOK ==
  /\ exclusive \in Threads \cup {None} /\ shared \subseteq Threads
  /\ DOMAIN interpreters \subseteq Range(Uid) /\ Range(interpreters) \subseteq Handles
  /\ device \in [Handles -> Pixys \cup {None}] /\ claimed \in [Handles -> SUBSET {0, 1}]
  /\ at \in [Threads -> Places] /\ index \in [Threads -> 1..Len(DeviceList) + 1]
  /\ handle \in [Threads -> Handles \cup {None}] /\ uids \in [Threads -> Seq(Range(Uid))]

\* Every open handle has exactly one owner, who will close it: an object of the map,
\* or the thread that is opening it.  So no cleanup path of pixy_enumerate, no failing
\* call and no second enumeration leaks a handle or closes one twice.
HandlesOwned ==
  LET Opening == {t \in Threads : at[t] # "call" /\ handle[t] # None}
  IN  /\ {h \in Handles : device[h] # None} =
           Range(interpreters) \cup {handle[t] : t \in Opening}
      /\ IsInjective(interpreters) /\ Cardinality(Opening) <= 1
      /\ \A t \in Opening : handle[t] \notin Range(interpreters)

\* A function that was given a uid works on a link that is open and that alone has both
\* interfaces of the Pixy of that uid, until it returns, whoever enumerates or closes.
CallHasLink ==
  \A t \in Threads : at[t] = "call" =>
    /\ handle[t] \in Range(interpreters) /\ claimed[handle[t]] = {0, 1}
    /\ \A h \in Handles \ {handle[t]} : device[h] = device[handle[t]] => claimed[h] = {}

\* A handle is closed with no interface claimed: the labels of pixy_enumerate undo
\* exactly what was done.
ReleasedFirst ==
  [][\A t \in Threads : CloseHandle(t) => claimed[handle[t]] = {}]_vars

\* When pixy_enumerate returns, every uid it reports is in the map, with an open link,
\* although another thread may enumerate or close at any time: what failed on the way is
\* not reported, and what was found is not taken away before the caller learns of it.
ReportedUsable ==
  [][\A t \in Threads : Return(t) =>
       \A uid \in Range(uids[t]) :
         /\ uid \in DOMAIN interpreters /\ Uid[device[interpreters[uid]]] = uid
         /\ claimed[interpreters[uid]] = {0, 1}]_vars
=============================================================================
