-------------------------- MODULE RevocationProofs --------------------------
(***************************************************************************)
(* Proofs about Revocation, for every set of devices and of requests.      *)
(*                                                                         *)
(* The invariant proved is IInv.  NoSurvivor alone is not inductive: that  *)
(* a device's sockets are all doomed once its revocation was answered      *)
(* rests on the registry holding exactly the open sockets (RegistryExact), *)
(* so that a sweep finds every one of them, on the fence CloseDevice       *)
(* leaves behind for the ones still on their way (RevokedIsFenced), and on *)
(* the device not coming back to authenticate anew (StoreHistory).         *)
(*                                                                         *)
(* One lemma per conjunct of IInv, one step per action in each.            *)
(***************************************************************************)
EXTENDS Revocation, TLAPS

\* A daemon that has just started on a machine without a device file satisfies
\* the invariant.
LEMMA InitEstablishes == Init => IInv
<1> SUFFICES ASSUME Init PROVE IInv
  OBVIOUS
<1> USE DEF Init, StoreInit, RegistryInit
<1>1. TypeOK
  BY DEF TypeOK, StoreTypeOK, RegistryTypeOK, Places, Kinds, Answers
<1>2. StoreMatchesFile /\ StoreHistory
  BY DEF StoreMatchesFile, StoreHistory, Enrolled
<1>3. WellFormed /\ HandlesUnique /\ SweptIsDoomed /\ RevokedIsFenced
  BY DEF WellFormed, HandlesUnique, SweptIsDoomed, RevokedIsFenced, Registered, Standing, Active
<1>4. RegistryExact
  BY DEF RegistryExact
<1>5. QED
  BY <1>1, <1>2, <1>3, <1>4 DEF IInv

\* A sweep finds, and fires the closer of, every socket its device holds open.
LEMMA SweepFires ==
    ASSUME IInv, NEW r \in Request, Sweep(r)
    PROVE  /\ target[r] \in Device
           /\ fired' \subseteq Request
           /\ target[r] \notin revoked =>
                \A q \in Request : pc[q] = "serving" /\ dev[q] = target[r] => q \in fired'
<1>1. target[r] \in Device
  BY DEF IInv, TypeOK, WellFormed, Sweep, Active, Places, Kinds, Standing, Registered
<1>2. live[target[r]] \in SUBSET [id : Nat, closer : Request]
  BY <1>1 DEF IInv, TypeOK, RegistryTypeOK
<1>3. \A e \in live[target[r]] : e.closer \in Request
  BY <1>2
<1>4. fired' = fired \cup {e.closer : e \in live[target[r]]}
  BY DEF Sweep, CloseDevice
<1>5. fired' \subseteq Request
  BY <1>3, <1>4 DEF IInv, TypeOK, RegistryTypeOK
<1>6. ASSUME NEW q \in Request, pc[q] = "serving", dev[q] = target[r], target[r] \notin revoked
      PROVE  q \in fired'
  <2>1. Entry(q) \in live[target[r]]
    BY <1>1, <1>6 DEF IInv, RegistryExact
  <2>2. Entry(q).closer = q
    BY DEF Entry
  <2>3. QED
    BY <2>1, <2>2, <1>4
<1>7. QED
  BY <1>1, <1>5, <1>6

\* Every action keeps every variable in its type.
LEMMA TypeStep ==
    ASSUME IInv, [Next]_vars
    PROVE  TypeOK'
<1> USE AbsentAssumption DEF IInv, TypeOK, StoreTypeOK, RegistryTypeOK, Places,
   Active, Kinds, Answers, WellFormed, Standing, Registered, storeVars,
   registryVars, requestVars
<1>1. ASSUME NEW d \in Device, NEW t \in Stamp, NEW persisted \in BOOLEAN,
             Enroll(d, t, persisted)
      PROVE  TypeOK'
  BY <1>1 DEF Enroll, AddDevice, Commit
<1>2. ASSUME NEW r \in Request, NEW k \in {"socket", "revoke"}, NEW d \in
             Device, NEW x \in Device \cup {Absent}, Protect(r, k, d, x)
      PROVE  TypeOK'
  BY <1>2 DEF Protect, Goto, Finish
<1>3. ASSUME NEW r \in Request, NEW x \in Device, AdminDelete(r, x)
      PROVE  TypeOK'
  BY <1>3 DEF AdminDelete, Goto
<1>4. ASSUME NEW r \in Request, TouchThrottled(r)
      PROVE  TypeOK'
  BY <1>4 DEF TouchThrottled, Goto
<1>5. ASSUME NEW r \in Request, TouchMarks(r)
      PROVE  TypeOK'
  BY <1>5 DEF TouchMarks, Goto
<1>6. ASSUME NEW r \in Request, NEW t \in Stamp, NEW persisted \in BOOLEAN,
             TouchWrites(r, t, persisted)
      PROVE  TypeOK'
  BY <1>6 DEF TouchWrites, Touch, Commit, Goto
<1>7. ASSUME NEW r \in Request, TrackRefused(r)
      PROVE  TypeOK'
  BY <1>7 DEF TrackRefused, AddRefused, Goto, Finish
<1>8. ASSUME NEW r \in Request, TrackRegistered(r)
      PROVE  TypeOK'
  BY <1>8 DEF TrackRegistered, AddRegistered, Goto
<1>9. ASSUME NEW r \in Request, Severed(r)
      PROVE  TypeOK'
  BY <1>9 DEF Severed, Goto
<1>10. ASSUME NEW r \in Request, Untrack(r)
      PROVE  TypeOK'
  BY <1>10 DEF Untrack, Remove, Goto
<1>11. ASSUME NEW r \in Request, RevokeUnknown(r)
      PROVE  TypeOK'
  BY <1>11 DEF RevokeUnknown, Goto, Finish
<1>12. ASSUME NEW r \in Request, RevokeFails(r)
      PROVE  TypeOK'
  BY <1>12 DEF RevokeFails, Revoke, Commit, Goto, Finish
<1>13. ASSUME NEW r \in Request, RevokeStored(r)
      PROVE  TypeOK'
  BY <1>13 DEF RevokeStored, Revoke, Commit, Goto
<1>14. ASSUME NEW r \in Request, Sweep(r)
      PROVE  TypeOK'
  BY <1>14, SweepFires DEF Sweep, CloseDevice, Goto, Finish
<1>15. ASSUME NEW r \in Request, Hangup(r)
      PROVE  TypeOK'
  BY <1>15 DEF Hangup, Goto
<1>16. ASSUME NEW r \in Request, Closer(r)
      PROVE  TypeOK'
  BY <1>16 DEF Closer, RunCloser
<1>17. ASSUME NEW d \in Device, TouchExpires(d)
      PROVE  TypeOK'
  BY <1>17 DEF TouchExpires
<1>18. ASSUME Restart
      PROVE  TypeOK'
  BY <1>18 DEF Restart, OpenStore, NewRegistry
<1>19. CASE UNCHANGED vars
  BY <1>19 DEF vars
<1> HIDE DEF IInv, TypeOK, StoreTypeOK, RegistryTypeOK, WellFormed, Standing,
   Registered
<1>20. QED
  BY <1>1, <1>2, <1>3, <1>4, <1>5, <1>6, <1>7, <1>8, <1>9, <1>10, <1>11, <1>12,
     <1>13, <1>14, <1>15, <1>16, <1>17, <1>18, <1>19 DEF Next, Handle

\* A request that moves on keeps the ids it still needs.
LEMMA WellFormedStep ==
    ASSUME IInv, [Next]_vars
    PROVE  WellFormed'
<1> USE DEF IInv, TypeOK, StoreTypeOK, RegistryTypeOK, Places, Active, Kinds,
   Answers, WellFormed, Standing, Registered, storeVars, registryVars,
   requestVars
<1>1. ASSUME NEW d \in Device, NEW t \in Stamp, NEW persisted \in BOOLEAN,
             Enroll(d, t, persisted)
      PROVE  WellFormed'
  BY <1>1 DEF Enroll, AddDevice, Commit
<1>2. ASSUME NEW r \in Request, NEW k \in {"socket", "revoke"}, NEW d \in
             Device, NEW x \in Device \cup {Absent}, Protect(r, k, d, x)
      PROVE  WellFormed'
  BY <1>2 DEF Protect, Goto, Finish
<1>3. ASSUME NEW r \in Request, NEW x \in Device, AdminDelete(r, x)
      PROVE  WellFormed'
  BY <1>3 DEF AdminDelete, Goto
<1>4. ASSUME NEW r \in Request, TouchThrottled(r)
      PROVE  WellFormed'
  BY <1>4 DEF TouchThrottled, Goto
<1>5. ASSUME NEW r \in Request, TouchMarks(r)
      PROVE  WellFormed'
  BY <1>5 DEF TouchMarks, Goto
<1>6. ASSUME NEW r \in Request, NEW t \in Stamp, NEW persisted \in BOOLEAN,
             TouchWrites(r, t, persisted)
      PROVE  WellFormed'
  BY <1>6 DEF TouchWrites, Touch, Commit, Goto
<1>7. ASSUME NEW r \in Request, TrackRefused(r)
      PROVE  WellFormed'
  BY <1>7 DEF TrackRefused, AddRefused, Goto, Finish
<1>8. ASSUME NEW r \in Request, TrackRegistered(r)
      PROVE  WellFormed'
  BY <1>8 DEF TrackRegistered, AddRegistered, Goto
<1>9. ASSUME NEW r \in Request, Severed(r)
      PROVE  WellFormed'
  BY <1>9 DEF Severed, Goto
<1>10. ASSUME NEW r \in Request, Untrack(r)
      PROVE  WellFormed'
  BY <1>10 DEF Untrack, Remove, Goto
<1>11. ASSUME NEW r \in Request, RevokeUnknown(r)
      PROVE  WellFormed'
  BY <1>11 DEF RevokeUnknown, Goto, Finish
<1>12. ASSUME NEW r \in Request, RevokeFails(r)
      PROVE  WellFormed'
  BY <1>12 DEF RevokeFails, Revoke, Commit, Goto, Finish
<1>13. ASSUME NEW r \in Request, RevokeStored(r)
      PROVE  WellFormed'
  BY <1>13 DEF RevokeStored, Revoke, Commit, Goto
<1>14. ASSUME NEW r \in Request, Sweep(r)
      PROVE  WellFormed'
  BY <1>14 DEF Sweep, CloseDevice, Goto, Finish
<1>15. ASSUME NEW r \in Request, Hangup(r)
      PROVE  WellFormed'
  BY <1>15 DEF Hangup, Goto
<1>16. ASSUME NEW r \in Request, Closer(r)
      PROVE  WellFormed'
  BY <1>16 DEF Closer, RunCloser
<1>17. ASSUME NEW d \in Device, TouchExpires(d)
      PROVE  WellFormed'
  BY <1>17 DEF TouchExpires
<1>18. ASSUME Restart
      PROVE  WellFormed'
  BY <1>18 DEF Restart, OpenStore, NewRegistry
<1>19. CASE UNCHANGED vars
  BY <1>19 DEF vars
<1> HIDE DEF IInv, TypeOK, StoreTypeOK, RegistryTypeOK, WellFormed, Standing,
   Registered
<1>20. QED
  BY <1>1, <1>2, <1>3, <1>4, <1>5, <1>6, <1>7, <1>8, <1>9, <1>10, <1>11, <1>12,
     <1>13, <1>14, <1>15, <1>16, <1>17, <1>18, <1>19 DEF Next, Handle

\* Only four operations write the store, each through Commit, and OpenStore
\* reads the file into memory.
LEMMA StoreStep ==
    ASSUME StoreMatchesFile, [Next]_vars
    PROVE  StoreMatchesFile'
<1> USE DEF StoreMatchesFile, Commit
<1>1. ASSUME NEW d \in Device, NEW t \in Stamp, NEW persisted \in BOOLEAN, Enroll(d, t, persisted)
      PROVE  StoreMatchesFile'
  BY <1>1 DEF Enroll, AddDevice
<1>2. ASSUME NEW r \in Request, NEW t \in Stamp, NEW persisted \in BOOLEAN,
             TouchWrites(r, t, persisted)
      PROVE  StoreMatchesFile'
  BY <1>2 DEF TouchWrites, Touch
<1>3. ASSUME NEW r \in Request, RevokeFails(r) \/ RevokeStored(r)
      PROVE  StoreMatchesFile'
  BY <1>3 DEF RevokeFails, RevokeStored, Revoke
<1>4. CASE Restart
  BY <1>4 DEF Restart, OpenStore
<1>5. CASE UNCHANGED storeVars
  BY <1>5 DEF storeVars
<1>6. QED
  BY <1>1, <1>2, <1>3, <1>4, <1>5
     DEF Next, Handle, vars, Protect, AdminDelete, TouchThrottled, TouchMarks, TouchExpires,
         TrackRefused, TrackRegistered, Severed, Hangup, Untrack, RevokeUnknown, Sweep, Closer

\* No action enrols an id a second time, so what a revocation took out stays
\* out.
LEMMA HistoryStep ==
    ASSUME IInv, [Next]_vars
    PROVE  StoreHistory'
<1> USE AbsentAssumption DEF IInv, TypeOK, StoreTypeOK, RegistryTypeOK, Places,
   Active, Kinds, Answers, WellFormed, Standing, Registered, StoreHistory,
   StoreMatchesFile, Enrolled, storeVars, registryVars, requestVars
<1>1. ASSUME NEW d \in Device, NEW t \in Stamp, NEW persisted \in BOOLEAN,
             Enroll(d, t, persisted)
      PROVE  StoreHistory'
  BY <1>1 DEF Enroll, AddDevice, Commit
<1>2. ASSUME NEW r \in Request, NEW k \in {"socket", "revoke"}, NEW d \in
             Device, NEW x \in Device \cup {Absent}, Protect(r, k, d, x)
      PROVE  StoreHistory'
  BY <1>2 DEF Protect, Goto, Finish
<1>3. ASSUME NEW r \in Request, NEW x \in Device, AdminDelete(r, x)
      PROVE  StoreHistory'
  BY <1>3 DEF AdminDelete, Goto
<1>4. ASSUME NEW r \in Request, TouchThrottled(r)
      PROVE  StoreHistory'
  BY <1>4 DEF TouchThrottled, Goto
<1>5. ASSUME NEW r \in Request, TouchMarks(r)
      PROVE  StoreHistory'
  BY <1>5 DEF TouchMarks, Goto
<1>6. ASSUME NEW r \in Request, NEW t \in Stamp, NEW persisted \in BOOLEAN,
             TouchWrites(r, t, persisted)
      PROVE  StoreHistory'
  BY <1>6 DEF TouchWrites, Touch, Commit, Goto
<1>7. ASSUME NEW r \in Request, TrackRefused(r)
      PROVE  StoreHistory'
  BY <1>7 DEF TrackRefused, AddRefused, Goto, Finish
<1>8. ASSUME NEW r \in Request, TrackRegistered(r)
      PROVE  StoreHistory'
  BY <1>8 DEF TrackRegistered, AddRegistered, Goto
<1>9. ASSUME NEW r \in Request, Severed(r)
      PROVE  StoreHistory'
  BY <1>9 DEF Severed, Goto
<1>10. ASSUME NEW r \in Request, Untrack(r)
      PROVE  StoreHistory'
  BY <1>10 DEF Untrack, Remove, Goto
<1>11. ASSUME NEW r \in Request, RevokeUnknown(r)
      PROVE  StoreHistory'
  BY <1>11 DEF RevokeUnknown, Goto, Finish
<1>12. ASSUME NEW r \in Request, RevokeFails(r)
      PROVE  StoreHistory'
  BY <1>12 DEF RevokeFails, Revoke, Commit, Goto, Finish
<1>13. ASSUME NEW r \in Request, RevokeStored(r)
      PROVE  StoreHistory'
  BY <1>13 DEF RevokeStored, Revoke, Commit, Goto
<1>14. ASSUME NEW r \in Request, Sweep(r)
      PROVE  StoreHistory'
  BY <1>14 DEF Sweep, CloseDevice, Goto, Finish
<1>15. ASSUME NEW r \in Request, Hangup(r)
      PROVE  StoreHistory'
  BY <1>15 DEF Hangup, Goto
<1>16. ASSUME NEW r \in Request, Closer(r)
      PROVE  StoreHistory'
  BY <1>16 DEF Closer, RunCloser
<1>17. ASSUME NEW d \in Device, TouchExpires(d)
      PROVE  StoreHistory'
  BY <1>17 DEF TouchExpires
<1>18. ASSUME Restart
      PROVE  StoreHistory'
  BY <1>18 DEF Restart, OpenStore, NewRegistry
<1>19. CASE UNCHANGED vars
  BY <1>19 DEF vars
<1> HIDE DEF IInv, TypeOK, StoreTypeOK, RegistryTypeOK, WellFormed, Standing,
   Registered, StoreHistory
<1>20. QED
  BY <1>1, <1>2, <1>3, <1>4, <1>5, <1>6, <1>7, <1>8, <1>9, <1>10, <1>11, <1>12,
     <1>13, <1>14, <1>15, <1>16, <1>17, <1>18, <1>19 DEF Next, Handle

\* Handles are taken from a counter that only a new process resets.
LEMMA HandlesStep ==
    ASSUME IInv, [Next]_vars
    PROVE  HandlesUnique'
<1> USE DEF IInv, TypeOK, StoreTypeOK, RegistryTypeOK, Places, Active, Kinds,
   Answers, WellFormed, Registered, HandlesUnique, storeVars, registryVars,
   requestVars
<1>1. ASSUME NEW d \in Device, NEW t \in Stamp, NEW persisted \in BOOLEAN,
             Enroll(d, t, persisted)
      PROVE  HandlesUnique'
  BY <1>1 DEF Enroll, AddDevice, Commit
<1>2. ASSUME NEW r \in Request, NEW k \in {"socket", "revoke"}, NEW d \in
             Device, NEW x \in Device \cup {Absent}, Protect(r, k, d, x)
      PROVE  HandlesUnique'
  BY <1>2 DEF Protect, Goto, Finish
<1>3. ASSUME NEW r \in Request, NEW x \in Device, AdminDelete(r, x)
      PROVE  HandlesUnique'
  BY <1>3 DEF AdminDelete, Goto
<1>4. ASSUME NEW r \in Request, TouchThrottled(r)
      PROVE  HandlesUnique'
  BY <1>4 DEF TouchThrottled, Goto
<1>5. ASSUME NEW r \in Request, TouchMarks(r)
      PROVE  HandlesUnique'
  BY <1>5 DEF TouchMarks, Goto
<1>6. ASSUME NEW r \in Request, NEW t \in Stamp, NEW persisted \in BOOLEAN,
             TouchWrites(r, t, persisted)
      PROVE  HandlesUnique'
  BY <1>6 DEF TouchWrites, Touch, Commit, Goto
<1>7. ASSUME NEW r \in Request, TrackRefused(r)
      PROVE  HandlesUnique'
  BY <1>7 DEF TrackRefused, AddRefused, Goto, Finish
<1>8. ASSUME NEW r \in Request, TrackRegistered(r)
      PROVE  HandlesUnique'
  BY <1>8 DEF TrackRegistered, AddRegistered, Goto
<1>9. ASSUME NEW r \in Request, Severed(r)
      PROVE  HandlesUnique'
  BY <1>9 DEF Severed, Goto
<1>10. ASSUME NEW r \in Request, Untrack(r)
      PROVE  HandlesUnique'
  BY <1>10 DEF Untrack, Remove, Goto
<1>11. ASSUME NEW r \in Request, RevokeUnknown(r)
      PROVE  HandlesUnique'
  BY <1>11 DEF RevokeUnknown, Goto, Finish
<1>12. ASSUME NEW r \in Request, RevokeFails(r)
      PROVE  HandlesUnique'
  BY <1>12 DEF RevokeFails, Revoke, Commit, Goto, Finish
<1>13. ASSUME NEW r \in Request, RevokeStored(r)
      PROVE  HandlesUnique'
  BY <1>13 DEF RevokeStored, Revoke, Commit, Goto
<1>14. ASSUME NEW r \in Request, Sweep(r)
      PROVE  HandlesUnique'
  BY <1>14 DEF Sweep, CloseDevice, Goto, Finish
<1>15. ASSUME NEW r \in Request, Hangup(r)
      PROVE  HandlesUnique'
  BY <1>15 DEF Hangup, Goto
<1>16. ASSUME NEW r \in Request, Closer(r)
      PROVE  HandlesUnique'
  BY <1>16 DEF Closer, RunCloser
<1>17. ASSUME NEW d \in Device, TouchExpires(d)
      PROVE  HandlesUnique'
  BY <1>17 DEF TouchExpires
<1>18. ASSUME Restart
      PROVE  HandlesUnique'
  BY <1>18 DEF Restart, OpenStore, NewRegistry
<1>19. CASE UNCHANGED vars
  BY <1>19 DEF vars
<1> HIDE DEF IInv, TypeOK, StoreTypeOK, RegistryTypeOK, WellFormed, Registered,
   HandlesUnique
<1>20. QED
  BY <1>1, <1>2, <1>3, <1>4, <1>5, <1>6, <1>7, <1>8, <1>9, <1>10, <1>11, <1>12,
     <1>13, <1>14, <1>15, <1>16, <1>17, <1>18, <1>19 DEF Next, Handle

\* Add and remove bracket a socket; a handle that is unique removes nobody
\* else's entry.
LEMMA ExactStep ==
    ASSUME IInv, [Next]_vars
    PROVE  RegistryExact'
<1> USE DEF IInv, TypeOK, StoreTypeOK, RegistryTypeOK, Places, Active, Kinds,
   Answers, WellFormed, Standing, Registered, HandlesUnique, RegistryExact,
   Entry, storeVars, registryVars, requestVars
<1>1. ASSUME NEW d \in Device, NEW t \in Stamp, NEW persisted \in BOOLEAN,
             Enroll(d, t, persisted)
      PROVE  RegistryExact'
  BY <1>1 DEF Enroll, AddDevice, Commit
<1>2. ASSUME NEW r \in Request, NEW k \in {"socket", "revoke"}, NEW d \in
             Device, NEW x \in Device \cup {Absent}, Protect(r, k, d, x)
      PROVE  RegistryExact'
  BY <1>2 DEF Protect, Goto, Finish
<1>3. ASSUME NEW r \in Request, NEW x \in Device, AdminDelete(r, x)
      PROVE  RegistryExact'
  BY <1>3 DEF AdminDelete, Goto
<1>4. ASSUME NEW r \in Request, TouchThrottled(r)
      PROVE  RegistryExact'
  BY <1>4 DEF TouchThrottled, Goto
<1>5. ASSUME NEW r \in Request, TouchMarks(r)
      PROVE  RegistryExact'
  BY <1>5 DEF TouchMarks, Goto
<1>6. ASSUME NEW r \in Request, NEW t \in Stamp, NEW persisted \in BOOLEAN,
             TouchWrites(r, t, persisted)
      PROVE  RegistryExact'
  BY <1>6 DEF TouchWrites, Touch, Commit, Goto
<1>7. ASSUME NEW r \in Request, TrackRefused(r)
      PROVE  RegistryExact'
  BY <1>7 DEF TrackRefused, AddRefused, Goto, Finish
<1>8. ASSUME NEW r \in Request, TrackRegistered(r)
      PROVE  RegistryExact'
  BY <1>8 DEF TrackRegistered, AddRegistered, Goto
<1>9. ASSUME NEW r \in Request, Severed(r)
      PROVE  RegistryExact'
  BY <1>9 DEF Severed, Goto
<1>10. ASSUME NEW r \in Request, Untrack(r)
      PROVE  RegistryExact'
  BY <1>10 DEF Untrack, Remove, Goto
<1>11. ASSUME NEW r \in Request, RevokeUnknown(r)
      PROVE  RegistryExact'
  BY <1>11 DEF RevokeUnknown, Goto, Finish
<1>12. ASSUME NEW r \in Request, RevokeFails(r)
      PROVE  RegistryExact'
  BY <1>12 DEF RevokeFails, Revoke, Commit, Goto, Finish
<1>13. ASSUME NEW r \in Request, RevokeStored(r)
      PROVE  RegistryExact'
  BY <1>13 DEF RevokeStored, Revoke, Commit, Goto
<1>14. ASSUME NEW r \in Request, Sweep(r)
      PROVE  RegistryExact'
  BY <1>14 DEF Sweep, CloseDevice, Goto, Finish
<1>15. ASSUME NEW r \in Request, Hangup(r)
      PROVE  RegistryExact'
  BY <1>15 DEF Hangup, Goto
<1>16. ASSUME NEW r \in Request, Closer(r)
      PROVE  RegistryExact'
  BY <1>16 DEF Closer, RunCloser
<1>17. ASSUME NEW d \in Device, TouchExpires(d)
      PROVE  RegistryExact'
  BY <1>17 DEF TouchExpires
<1>18. ASSUME Restart
      PROVE  RegistryExact'
  BY <1>18 DEF Restart, OpenStore, NewRegistry
<1>19. CASE UNCHANGED vars
  BY <1>19 DEF vars
<1> HIDE DEF IInv, TypeOK, StoreTypeOK, RegistryTypeOK, WellFormed, Standing,
   Registered, HandlesUnique, RegistryExact, Entry
<1>20. QED
  BY <1>1, <1>2, <1>3, <1>4, <1>5, <1>6, <1>7, <1>8, <1>9, <1>10, <1>11, <1>12,
     <1>13, <1>14, <1>15, <1>16, <1>17, <1>18, <1>19 DEF Next, Handle

\* A sweep dooms every open socket of its device, and none opens after it.
LEMMA DoomedStep ==
    ASSUME IInv, [Next]_vars
    PROVE  SweptIsDoomed'
<1> USE DEF IInv, TypeOK, StoreTypeOK, RegistryTypeOK, Places, Active, Kinds,
   Answers, WellFormed, Standing, Registered, SweptIsDoomed, Doomed, storeVars,
   registryVars, requestVars
<1>1. ASSUME NEW d \in Device, NEW t \in Stamp, NEW persisted \in BOOLEAN,
             Enroll(d, t, persisted)
      PROVE  SweptIsDoomed'
  BY <1>1 DEF Enroll, AddDevice, Commit
<1>2. ASSUME NEW r \in Request, NEW k \in {"socket", "revoke"}, NEW d \in
             Device, NEW x \in Device \cup {Absent}, Protect(r, k, d, x)
      PROVE  SweptIsDoomed'
  BY <1>2 DEF Protect, Goto, Finish
<1>3. ASSUME NEW r \in Request, NEW x \in Device, AdminDelete(r, x)
      PROVE  SweptIsDoomed'
  BY <1>3 DEF AdminDelete, Goto
<1>4. ASSUME NEW r \in Request, TouchThrottled(r)
      PROVE  SweptIsDoomed'
  BY <1>4 DEF TouchThrottled, Goto
<1>5. ASSUME NEW r \in Request, TouchMarks(r)
      PROVE  SweptIsDoomed'
  BY <1>5 DEF TouchMarks, Goto
<1>6. ASSUME NEW r \in Request, NEW t \in Stamp, NEW persisted \in BOOLEAN,
             TouchWrites(r, t, persisted)
      PROVE  SweptIsDoomed'
  BY <1>6 DEF TouchWrites, Touch, Commit, Goto
<1>7. ASSUME NEW r \in Request, TrackRefused(r)
      PROVE  SweptIsDoomed'
  BY <1>7 DEF TrackRefused, AddRefused, Goto, Finish
<1>8. ASSUME NEW r \in Request, TrackRegistered(r)
      PROVE  SweptIsDoomed'
  BY <1>8 DEF TrackRegistered, AddRegistered, Goto
<1>9. ASSUME NEW r \in Request, Severed(r)
      PROVE  SweptIsDoomed'
  BY <1>9 DEF Severed, Goto
<1>10. ASSUME NEW r \in Request, Untrack(r)
      PROVE  SweptIsDoomed'
  BY <1>10 DEF Untrack, Remove, Goto
<1>11. ASSUME NEW r \in Request, RevokeUnknown(r)
      PROVE  SweptIsDoomed'
  BY <1>11 DEF RevokeUnknown, Goto, Finish
<1>12. ASSUME NEW r \in Request, RevokeFails(r)
      PROVE  SweptIsDoomed'
  BY <1>12 DEF RevokeFails, Revoke, Commit, Goto, Finish
<1>13. ASSUME NEW r \in Request, RevokeStored(r)
      PROVE  SweptIsDoomed'
  BY <1>13 DEF RevokeStored, Revoke, Commit, Goto
<1>14. ASSUME NEW r \in Request, Sweep(r)
      PROVE  SweptIsDoomed'
  BY <1>14, SweepFires DEF Sweep, CloseDevice, Goto, Finish
<1>15. ASSUME NEW r \in Request, Hangup(r)
      PROVE  SweptIsDoomed'
  BY <1>15 DEF Hangup, Goto
<1>16. ASSUME NEW r \in Request, Closer(r)
      PROVE  SweptIsDoomed'
  BY <1>16 DEF Closer, RunCloser
<1>17. ASSUME NEW d \in Device, TouchExpires(d)
      PROVE  SweptIsDoomed'
  BY <1>17 DEF TouchExpires
<1>18. ASSUME Restart
      PROVE  SweptIsDoomed'
  BY <1>18 DEF Restart, OpenStore, NewRegistry
<1>19. CASE UNCHANGED vars
  BY <1>19 DEF vars
<1> HIDE DEF IInv, TypeOK, StoreTypeOK, RegistryTypeOK, WellFormed, Standing,
   Registered, SweptIsDoomed, Doomed
<1>20. QED
  BY <1>1, <1>2, <1>3, <1>4, <1>5, <1>6, <1>7, <1>8, <1>9, <1>10, <1>11, <1>12,
     <1>13, <1>14, <1>15, <1>16, <1>17, <1>18, <1>19 DEF Next, Handle

\* The fence stays up as long as the process lives, and no socket outlives the
\* process.
LEMMA FencedStep ==
    ASSUME IInv, [Next]_vars
    PROVE  RevokedIsFenced'
<1> USE DEF IInv, TypeOK, StoreTypeOK, RegistryTypeOK, Places, Active, Kinds,
   Answers, WellFormed, StoreHistory, Standing, Registered, RevokedIsFenced,
   Enrolled, storeVars, registryVars, requestVars
<1>1. ASSUME NEW d \in Device, NEW t \in Stamp, NEW persisted \in BOOLEAN,
             Enroll(d, t, persisted)
      PROVE  RevokedIsFenced'
  BY <1>1 DEF Enroll, AddDevice, Commit
<1>2. ASSUME NEW r \in Request, NEW k \in {"socket", "revoke"}, NEW d \in
             Device, NEW x \in Device \cup {Absent}, Protect(r, k, d, x)
      PROVE  RevokedIsFenced'
  BY <1>2 DEF Protect, Goto, Finish
<1>3. ASSUME NEW r \in Request, NEW x \in Device, AdminDelete(r, x)
      PROVE  RevokedIsFenced'
  BY <1>3 DEF AdminDelete, Goto
<1>4. ASSUME NEW r \in Request, TouchThrottled(r)
      PROVE  RevokedIsFenced'
  BY <1>4 DEF TouchThrottled, Goto
<1>5. ASSUME NEW r \in Request, TouchMarks(r)
      PROVE  RevokedIsFenced'
  BY <1>5 DEF TouchMarks, Goto
<1>6. ASSUME NEW r \in Request, NEW t \in Stamp, NEW persisted \in BOOLEAN,
             TouchWrites(r, t, persisted)
      PROVE  RevokedIsFenced'
  BY <1>6 DEF TouchWrites, Touch, Commit, Goto
<1>7. ASSUME NEW r \in Request, TrackRefused(r)
      PROVE  RevokedIsFenced'
  BY <1>7 DEF TrackRefused, AddRefused, Goto, Finish
<1>8. ASSUME NEW r \in Request, TrackRegistered(r)
      PROVE  RevokedIsFenced'
  BY <1>8 DEF TrackRegistered, AddRegistered, Goto
<1>9. ASSUME NEW r \in Request, Severed(r)
      PROVE  RevokedIsFenced'
  BY <1>9 DEF Severed, Goto
<1>10. ASSUME NEW r \in Request, Untrack(r)
      PROVE  RevokedIsFenced'
  BY <1>10 DEF Untrack, Remove, Goto
<1>11. ASSUME NEW r \in Request, RevokeUnknown(r)
      PROVE  RevokedIsFenced'
  BY <1>11 DEF RevokeUnknown, Goto, Finish
<1>12. ASSUME NEW r \in Request, RevokeFails(r)
      PROVE  RevokedIsFenced'
  BY <1>12 DEF RevokeFails, Revoke, Commit, Goto, Finish
<1>13. ASSUME NEW r \in Request, RevokeStored(r)
      PROVE  RevokedIsFenced'
  BY <1>13 DEF RevokeStored, Revoke, Commit, Goto
<1>14. ASSUME NEW r \in Request, Sweep(r)
      PROVE  RevokedIsFenced'
  BY <1>14 DEF Sweep, CloseDevice, Goto, Finish
<1>15. ASSUME NEW r \in Request, Hangup(r)
      PROVE  RevokedIsFenced'
  BY <1>15 DEF Hangup, Goto
<1>16. ASSUME NEW r \in Request, Closer(r)
      PROVE  RevokedIsFenced'
  BY <1>16 DEF Closer, RunCloser
<1>17. ASSUME NEW d \in Device, TouchExpires(d)
      PROVE  RevokedIsFenced'
  BY <1>17 DEF TouchExpires
<1>18. ASSUME Restart
      PROVE  RevokedIsFenced'
  BY <1>18 DEF Restart, OpenStore, NewRegistry
<1>19. CASE UNCHANGED vars
  BY <1>19 DEF vars
<1> HIDE DEF IInv, TypeOK, StoreTypeOK, RegistryTypeOK, WellFormed,
   StoreHistory, Standing, Registered, RevokedIsFenced
<1>20. QED
  BY <1>1, <1>2, <1>3, <1>4, <1>5, <1>6, <1>7, <1>8, <1>9, <1>10, <1>11, <1>12,
     <1>13, <1>14, <1>15, <1>16, <1>17, <1>18, <1>19 DEF Next, Handle

-----------------------------------------------------------------------------

\* The inductive invariant holds in every reachable state.
THEOREM Invariance == Spec => []IInv
<1>1. Init => IInv
  BY InitEstablishes
<1>2. IInv /\ [Next]_vars => IInv'
  BY TypeStep, WellFormedStep, StoreStep, HistoryStep, HandlesStep, ExactStep, DoomedStep,
     FencedStep DEF IInv
<1>3. QED
  BY <1>1, <1>2, PTL DEF Spec

\* Every variable of the store, the registry and the requests keeps its type.
THEOREM TypeCorrect == Spec => []TypeOK
<1>1. IInv => TypeOK
  BY DEF IInv
<1>2. QED
  BY <1>1, Invariance, PTL

\* The store's memory and its file agree, whichever write failed.
THEOREM StoreAgrees == Spec => []StoreMatchesFile
<1>1. IInv => StoreMatchesFile
  BY DEF IInv
<1>2. QED
  BY <1>1, Invariance, PTL

\* The registry holds exactly the open sockets that were not swept.
THEOREM RegistryCorrect == Spec => []RegistryExact
<1>1. IInv => RegistryExact
  BY DEF IInv
<1>2. QED
  BY <1>1, Invariance, PTL

\* No terminal survives the answered revocation of its device unless it is
\* already being closed, for any number of requests racing it.
THEOREM RevocationSevers == Spec => []NoSurvivor
<1>1. ASSUME IInv, NEW q \in Request, NEW r \in Request,
             answer[q] = "204", pc[q] = "done", pc[r] = "serving", dev[r] = target[q]
      PROVE  Doomed(r)
  <2>1. Standing(r)
    BY <1>1 DEF IInv, WellFormed, Standing, Registered
  <2>2. target[q] \in revoked
    BY <1>1, <2>1 DEF IInv, RevokedIsFenced
  <2>3. QED
    BY <1>1, <2>2 DEF IInv, SweptIsDoomed
<1>2. IInv => NoSurvivor
  BY <1>1 DEF NoSurvivor
<1>3. QED
  BY <1>2, Invariance, PTL

\* A revocation answered 204 is on disk.
THEOREM RevocationStored == Spec => []RevocationIsStored
<1>1. IInv => RevocationIsStored
  BY DEF IInv, RevocationIsStored, StoreMatchesFile, StoreHistory, Enrolled
<1>2. QED
  BY <1>1, Invariance, PTL

\* No step puts a device that left the file back into it.
THEOREM NoResurrection == Spec => RevokedStaysRevoked
<1>1. ASSUME IInv, Next
      PROVE  StaysRevoked
  <2> USE <1>1 DEF IInv, TypeOK, StoreTypeOK, StoreMatchesFile, Commit, StaysRevoked
  <2>1. ASSUME NEW d \in Device, NEW t \in Stamp, NEW persisted \in BOOLEAN,
               Enroll(d, t, persisted)
        PROVE  StaysRevoked
    BY <2>1 DEF Enroll, AddDevice
  <2>2. ASSUME NEW r \in Request, NEW t \in Stamp, NEW persisted \in BOOLEAN,
               TouchWrites(r, t, persisted)
        PROVE  StaysRevoked
    <3>1. dev[r] \in Device
      BY <2>2 DEF TouchWrites, WellFormed
    <3>2. QED
      BY <2>2, <3>1 DEF TouchWrites, Touch, Enrolled
  <2>3. ASSUME NEW r \in Request, RevokeFails(r) \/ RevokeStored(r)
        PROVE  StaysRevoked
    BY <2>3 DEF RevokeFails, RevokeStored, Revoke
  <2>4. CASE UNCHANGED file
    BY <2>4
  <2>5. QED
    BY <2>1, <2>2, <2>3, <2>4
       DEF Next, Handle, storeVars, Protect, AdminDelete, TouchThrottled, TouchMarks,
           TouchExpires, TrackRefused, TrackRegistered, Severed, Hangup, Untrack,
           RevokeUnknown, Sweep, Closer, Restart, OpenStore
<1>2. IInv /\ [Next]_vars => [StaysRevoked]_vars
  BY <1>1
<1>3. QED
  BY <1>2, Invariance, PTL DEF Spec, RevokedStaysRevoked

=============================================================================
