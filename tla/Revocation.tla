----------------------------- MODULE Revocation -----------------------------
(***************************************************************************)
(* Revoking a device: the store stops it authenticating, the registry      *)
(* closes what it has open.  This module composes DeviceStore and Registry *)
(* with the goroutines that race over them:                                *)
(*                                                                         *)
(*   - every request of an enrolled browser passes Auth.protect (lookup,   *)
(*     then a throttled last-seen write) before its handler runs;          *)
(*   - a terminal socket (GET /ws) registers itself through trackDevice    *)
(*     and then serves until it is cancelled or hangs up;                  *)
(*   - a revocation, from a browser (DELETE /api/devices/{id}) or over the *)
(*     admin socket (SeverRevokedDevices), removes the device from the     *)
(*     store and then sweeps the registry, which are two separate steps;   *)
(*   - the process may die and be started again at any moment.             *)
(***************************************************************************)
EXTENDS DeviceStore, Registry

Kinds == {"socket", "revoke", "admin"}
Answers == {"none", "204", "401", "404", "500"}

\* Where a request is: "touch" and "mark" are inside Auth.touch, "handler" is
\* the entry of the route's own handler, "sweep" is between Store.Revoke and
\* Registry.CloseDevice, "leaving" is a socket whose terminal has returned.
Places == {"none", "touch", "mark", "handler", "serving", "leaving", "sweep", "done"}
Active == Places \ {"none", "done"}

VARIABLES
    pc,         \* request -> where its goroutine is
    kind,       \* request -> what it asks for
    dev,        \* request -> the device that authenticated it
    target,     \* request -> the device it revokes
    answer,     \* request -> the status it was answered
    touched     \* Auth.touched: devices written within TouchInterval

requestVars == <<pc, kind, dev, target, answer>>
vars == <<storeVars, registryVars, requestVars, touched>>

TypeOK ==
    /\ StoreTypeOK
    /\ RegistryTypeOK
    /\ pc \in [Request -> Places]
    /\ kind \in [Request -> Kinds]
    /\ dev \in [Request -> Device \cup {Absent}]
    /\ target \in [Request -> Device \cup {Absent}]
    /\ answer \in [Request -> Answers]
    /\ touched \in SUBSET Device

Init ==
    /\ StoreInit
    /\ RegistryInit
    /\ pc = [r \in Request |-> "none"]
    /\ kind = [r \in Request |-> "socket"]
    /\ dev = [r \in Request |-> Absent]
    /\ target = [r \in Request |-> Absent]
    /\ answer = [r \in Request |-> "none"]
    /\ touched = {}

Goto(r, place) == pc' = [pc EXCEPT ![r] = place]

Finish(r, status) ==
    /\ Goto(r, "done")
    /\ answer' = [answer EXCEPT ![r] = status]

-----------------------------------------------------------------------------
(* Enrolment, and a request's way through the cookie check.                *)

\* Redeem enrolled a browser; its link and limiter are not modelled here.
Enroll(d, t, persisted) ==
    /\ AddDevice(d, t, persisted)
    /\ UNCHANGED <<registryVars, requestVars, touched>>

\* protect: the cookie's token resolves to a device, or the answer is 401.  A
\* socket names no device to revoke.
Protect(r, k, d, x) ==
    /\ pc[r] = "none"
    /\ k = "socket" <=> x = Absent
    /\ kind' = [kind EXCEPT ![r] = k]
    /\ dev' = [dev EXCEPT ![r] = d]
    /\ target' = [target EXCEPT ![r] = x]
    /\ IF Enrolled(d)
         THEN Goto(r, "touch") /\ UNCHANGED answer
         ELSE Finish(r, "401")
    /\ UNCHANGED <<storeVars, registryVars, touched>>

\* A peer of the admin socket is authorised by its uid and is not a device.
AdminDelete(r, x) ==
    /\ pc[r] = "none"
    /\ kind' = [kind EXCEPT ![r] = "admin"]
    /\ target' = [target EXCEPT ![r] = x]
    /\ Goto(r, "handler")
    /\ UNCHANGED <<storeVars, registryVars, dev, answer, touched>>

\* touch, first half: the throttle, under Auth.mu.
TouchThrottled(r) ==
    /\ pc[r] = "touch"
    /\ dev[r] \in touched
    /\ Goto(r, "handler")
    /\ UNCHANGED <<storeVars, registryVars, kind, dev, target, answer, touched>>

TouchMarks(r) ==
    /\ pc[r] = "touch"
    /\ dev[r] \notin touched
    /\ touched' = touched \cup {dev[r]}
    /\ Goto(r, "mark")
    /\ UNCHANGED <<storeVars, registryVars, kind, dev, target, answer>>

\* touch, second half: the store write, outside Auth.mu.  A failure drops the
\* marker so that the next request tries again.
TouchWrites(r, t, persisted) ==
    /\ pc[r] = "mark"
    /\ Touch(dev[r], t, persisted)
    /\ touched' = IF Enrolled(dev[r]) /\ persisted THEN touched ELSE touched \ {dev[r]}
    /\ Goto(r, "handler")
    /\ UNCHANGED <<registryVars, kind, dev, target, answer>>

\* TouchInterval has passed since the marker was set.
TouchExpires(d) ==
    /\ d \in touched
    /\ touched' = touched \ {d}
    /\ UNCHANGED <<storeVars, registryVars, requestVars>>

-----------------------------------------------------------------------------
(* The terminal socket: trackDevice around TerminalHandler.ServeHTTP.      *)

TrackRefused(r) ==
    /\ pc[r] = "handler"
    /\ kind[r] = "socket"
    /\ AddRefused(dev[r], r)
    /\ Finish(r, "401")
    /\ UNCHANGED <<storeVars, kind, dev, target, touched>>

TrackRegistered(r) ==
    /\ pc[r] = "handler"
    /\ kind[r] = "socket"
    /\ AddRegistered(dev[r], r)
    /\ Goto(r, "serving")
    /\ UNCHANGED <<storeVars, kind, dev, target, answer, touched>>

\* ServeHTTP returns: its context was cancelled ...
Severed(r) ==
    /\ pc[r] = "serving"
    /\ r \in cancelled
    /\ Goto(r, "leaving")
    /\ UNCHANGED <<storeVars, registryVars, kind, dev, target, answer, touched>>

\* ... or the browser went away, or the tmux session ended.
Hangup(r) ==
    /\ pc[r] = "serving"
    /\ Goto(r, "leaving")
    /\ UNCHANGED <<storeVars, registryVars, kind, dev, target, answer, touched>>

\* trackDevice's deferred remove.
Untrack(r) ==
    /\ pc[r] = "leaving"
    /\ Remove(dev[r], r)
    /\ Goto(r, "done")
    /\ UNCHANGED <<storeVars, kind, dev, target, answer, touched>>

-----------------------------------------------------------------------------
(* Revocation, from a browser or from the command line.                    *)

RevokeUnknown(r) ==
    /\ pc[r] = "handler"
    /\ kind[r] # "socket"
    /\ ~ Enrolled(target[r])
    /\ Finish(r, "404")
    /\ UNCHANGED <<storeVars, registryVars, kind, dev, target, touched>>

RevokeFails(r) ==
    /\ pc[r] = "handler"
    /\ kind[r] # "socket"
    /\ Revoke(target[r], FALSE)
    /\ Finish(r, "500")
    /\ UNCHANGED <<registryVars, kind, dev, target, touched>>

\* The admin mux writes its 204 before SeverRevokedDevices sweeps; the
\* browser's route sweeps before it answers.
RevokeStored(r) ==
    /\ pc[r] = "handler"
    /\ kind[r] # "socket"
    /\ Revoke(target[r], TRUE)
    /\ Goto(r, "sweep")
    /\ answer' = [answer EXCEPT ![r] = IF kind[r] = "admin" THEN "204" ELSE @]
    /\ UNCHANGED <<registryVars, kind, dev, target, touched>>

Sweep(r) ==
    /\ pc[r] = "sweep"
    /\ CloseDevice(target[r])
    /\ Finish(r, "204")
    /\ UNCHANGED <<storeVars, kind, dev, target, touched>>

Closer(r) ==
    /\ RunCloser(r)
    /\ UNCHANGED <<storeVars, requestVars, touched>>

-----------------------------------------------------------------------------
(* The process dies and another one opens the store.                       *)

Restart ==
    /\ OpenStore
    /\ NewRegistry
    /\ pc' = [r \in Request |-> IF pc[r] \in Active THEN "done" ELSE pc[r]]
    /\ touched' = {}
    /\ UNCHANGED <<kind, dev, target, answer>>

Handle(r) ==
    \/ TouchThrottled(r)
    \/ TouchMarks(r)
    \/ \E t \in Stamp, persisted \in BOOLEAN : TouchWrites(r, t, persisted)
    \/ TrackRefused(r)
    \/ TrackRegistered(r)
    \/ Severed(r)
    \/ Untrack(r)
    \/ RevokeUnknown(r)
    \/ RevokeFails(r)
    \/ RevokeStored(r)
    \/ Sweep(r)

Next ==
    \/ \E d \in Device, t \in Stamp, persisted \in BOOLEAN : Enroll(d, t, persisted)
    \/ \E r \in Request, k \in {"socket", "revoke"}, d \in Device, x \in Device \cup {Absent} :
            Protect(r, k, d, x)
    \/ \E r \in Request, x \in Device : AdminDelete(r, x)
    \/ \E r \in Request : Handle(r) \/ Hangup(r) \/ Closer(r)
    \/ \E d \in Device : TouchExpires(d)
    \/ Restart

\* Goroutines that can run do run; nobody has to connect, hang up or crash.
Spec ==
    /\ Init /\ [][Next]_vars
    /\ \A r \in Request : WF_vars(Handle(r)) /\ WF_vars(Closer(r))

-----------------------------------------------------------------------------
(* Properties.                                                             *)

\* Memory and devices.json never disagree, whichever persist failed: the
\* rollbacks of AddDevice, Touch and Revoke ("memory and disk must not disagree").
StoreMatchesFile == devices = file

\* A revoked device does not come back: no last-seen write that was on its
\* way when the device was removed, and no restart, puts it in the file again.
StaysRevoked == \A d \in issued : file[d] = Absent => file'[d] = Absent
RevokedStaysRevoked == [][StaysRevoked]_vars

\* The registry holds exactly the sockets that are open and were not swept, so
\* Live() answers the poller honestly and no closed tab leaves a closer behind.
RegistryExact ==
    \A d \in Device :
        live[d] = {Entry(r) : r \in {q \in Request : /\ pc[q] \in {"serving", "leaving"}
                                                     /\ dev[q] = d
                                                     /\ d \notin revoked}}

Doomed(r) == r \in fired \cup cancelled

\* Once a revocation is over and was answered 204, every terminal the device
\* still holds is being closed, also one that had authenticated before the
\* store dropped the device and registered after the sweep.
NoSurvivor ==
    \A q, r \in Request :
        (/\ answer[q] = "204" /\ pc[q] = "done"
         /\ pc[r] = "serving" /\ dev[r] = target[q]) => Doomed(r)

\* A revocation answered 204 is on disk: no restart can undo it.
RevocationIsStored ==
    \A q \in Request : answer[q] = "204" => file[target[q]] = Absent

\* The shell will be closed: after a 204 the device ends up, for good, with no
\* terminal at all.
ShellIsClosed ==
    \A q \in Request :
        answer[q] = "204" ~>
            [](\A r \in Request : dev[r] = target[q] => pc[r] \notin {"serving", "leaving"})

-----------------------------------------------------------------------------
(* What makes the safety properties inductive.                             *)

Registered(r) == pc[r] \in {"serving", "leaving"}

\* A socket that is open, or past the cookie check and on its way to be.
Standing(r) == kind[r] = "socket" /\ pc[r] \in {"touch", "mark", "handler", "serving"}

\* A request knows the ids its remaining steps use, and a revocation answers last.
WellFormed ==
    \A r \in Request :
        /\ pc[r] \in {"touch", "mark"} \/ Standing(r) \/ Registered(r) => dev[r] \in Device
        /\ pc[r] \in Active /\ (kind[r] # "socket" \/ pc[r] = "sweep") => target[r] \in Device
        /\ Registered(r) => kind[r] = "socket"
        /\ answer[r] = "204" => pc[r] \in {"sweep", "done"}

\* Only an id that was minted is enrolled, and a revocation that is under way
\* or was answered has taken its device out of the store.
StoreHistory ==
    /\ \A d \in Device : Enrolled(d) => d \in issued
    /\ \A q \in Request : pc[q] = "sweep" \/ answer[q] = "204" =>
           target[q] \in issued /\ ~ Enrolled(target[q])

\* No two registered sockets share a handle, and no later one will.
HandlesUnique ==
    \A q, r \in Request :
        /\ Registered(r) => handle[r] < next
        /\ Registered(q) /\ Registered(r) /\ q # r => handle[q] # handle[r]

SweptIsDoomed ==
    \A r \in Request : pc[r] = "serving" /\ dev[r] \in revoked => Doomed(r)

\* A revocation that is over leaves the fence up, or nobody to be fenced off.
RevokedIsFenced ==
    \A q \in Request : answer[q] = "204" /\ pc[q] = "done" =>
        \/ target[q] \in revoked
        \/ \A r \in Request : Standing(r) => dev[r] # target[q]

IInv ==
    /\ TypeOK
    /\ StoreMatchesFile
    /\ WellFormed
    /\ StoreHistory
    /\ HandlesUnique
    /\ RegistryExact
    /\ SweptIsDoomed
    /\ RevokedIsFenced

=============================================================================
