---------------------------- MODULE DeviceStore ----------------------------
(***************************************************************************)
(* The device store of internal/auth/store.go: the in-memory map of        *)
(* enrolled devices and the JSON file it is persisted to.                  *)
(*                                                                         *)
(* Every method takes Store.mu for its whole read-modify-write-persist     *)
(* cycle, so each is one action here.  What a device record holds besides  *)
(* its last-seen time is fixed when it is enrolled and is left out.        *)
(* persist renders the whole map to a temporary file and renames it over   *)
(* devices.json: a reader of the file sees the old map or the new one.     *)
(***************************************************************************)
EXTENDS Devices

CONSTANTS
    Stamp,      \* the values a last-seen time takes
    Absent      \* the map holds no record under this id

ASSUME AbsentAssumption == Absent \notin Stamp

VARIABLES
    devices,    \* Store.devices
    file,       \* the contents of devices.json
    issued      \* the ids AddDevice has minted so far

storeVars == <<devices, file, issued>>

StoreTypeOK ==
    /\ devices \in [Device -> Stamp \cup {Absent}]
    /\ file \in [Device -> Stamp \cup {Absent}]
    /\ issued \in SUBSET Device

\* OpenStore on a machine where the file does not exist yet.
StoreInit ==
    /\ devices = [d \in Device |-> Absent]
    /\ file = [d \in Device |-> Absent]
    /\ issued = {}

Enrolled(d) == devices[d] # Absent

\* Mistake: a failed persist leaves memory ahead of the file.
CommitWithoutRollback(next, persisted) ==
    /\ devices' = next
    /\ file' = IF persisted THEN next ELSE file

\* The tail of every mutation: memory already holds `next` when persist runs,
\* and the mutation is undone when persist fails.
Commit(next, persisted) ==
    /\ devices' = IF persisted THEN next ELSE devices
    /\ file' = IF persisted THEN next ELSE file

AddDevice(d, t, persisted) ==
    /\ d \notin issued
    /\ issued' = issued \cup {d}
    /\ Commit([devices EXCEPT ![d] = t], persisted)

\* Mistake: the record is written back whether or not the map still holds it.
TouchUpserts(d, t, persisted) ==
    /\ Commit([devices EXCEPT ![d] = t], persisted)
    /\ UNCHANGED issued

\* Touch of an id the map does not hold is ErrNoSuchDevice.
Touch(d, t, persisted) ==
    /\ IF Enrolled(d)
         THEN Commit([devices EXCEPT ![d] = t], persisted)
         ELSE UNCHANGED <<devices, file>>
    /\ UNCHANGED issued

\* Mistake: the device leaves memory and the file is not rewritten.
RevokeInMemory(d, persisted) ==
    /\ Enrolled(d)
    /\ devices' = IF persisted THEN [devices EXCEPT ![d] = Absent] ELSE devices
    /\ UNCHANGED <<file, issued>>

\* The case of Revoke that finds the device; the other answers ErrNoSuchDevice
\* and changes nothing.
Revoke(d, persisted) ==
    /\ Enrolled(d)
    /\ Commit([devices EXCEPT ![d] = Absent], persisted)
    /\ UNCHANGED issued

\* OpenStore in a new process.
OpenStore ==
    /\ devices' = file
    /\ UNCHANGED <<file, issued>>

=============================================================================
