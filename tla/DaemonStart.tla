---------------------------- MODULE DaemonStart ----------------------------
(***************************************************************************)
(* Daemons starting, stopping and dying around one admin socket, one port  *)
(* and one devices.json (front.Serve, auth.ListenAdmin).                   *)
(*                                                                         *)
(* A daemon reads devices.json into memory first, then takes the admin     *)
(* socket, then the port; from then on every write replaces the whole file *)
(* by what it has in memory.  The admin socket is the only thing that      *)
(* keeps two daemons apart: a start that finds somebody listening on it    *)
(* gives up, a start that finds a dead socket file removes it.             *)
(*                                                                         *)
(* Serial says how daemons are started: TRUE when no daemon stops, dies or *)
(* starts while another one is on its way up or down, as under one systemd *)
(* unit; a start while another daemon is up and serving remains possible.  *)
(***************************************************************************)
EXTENDS Devices

CONSTANTS
    Process,    \* the daemons
    Nobody,     \* no process
    Serial      \* whether starts and stops of daemons never overlap

ASSUME NobodyAssumption == Nobody \notin Process
ASSUME SerialAssumption == Serial \in BOOLEAN

\* "opened": the store is read; "probed": the socket file was found dead;
\* "cleared": no file is thought to be in the way; "bound", "accepting",
\* "listening": inside ListenAdmin after bind, after listen, after chmod;
\* "closing": before the deferred admin.Close.
Places == {"down", "opened", "probed", "cleared", "bound", "accepting",
           "listening", "serving", "closing"}
Accepting == {"accepting", "listening", "serving", "closing"}
Settled == {"down", "serving"}

VARIABLES
    pc,         \* process -> where its Serve is
    mem,        \* process -> the devices in its store
    file,       \* the devices in devices.json
    path,       \* the process whose socket file is at the admin path
    port,       \* the process that has the port
    enrolled,   \* the devices whose enrolment was ever answered
    revoked     \* the devices whose revocation was ever answered

daemonVars == <<pc, mem, file, path, port, enrolled, revoked>>

DaemonTypeOK ==
    /\ pc \in [Process -> Places]
    /\ mem \in [Process -> SUBSET Device]
    /\ file \in SUBSET Device
    /\ path \in Process \cup {Nobody}
    /\ port \in Process \cup {Nobody}
    /\ enrolled \in SUBSET Device
    /\ revoked \in SUBSET Device

DaemonInit ==
    /\ pc = [p \in Process |-> "down"]
    /\ mem = [p \in Process |-> {}]
    /\ file = {}
    /\ path = Nobody
    /\ port = Nobody
    /\ enrolled = {} /\ revoked = {}

Goto(p, place) == pc' = [pc EXCEPT ![p] = place]

\* Every other daemon is either down or serving, when that is asked for.
Undisturbed(p) == Serial => \A q \in Process \ {p} : pc[q] \in Settled

-----------------------------------------------------------------------------
(* Starting.                                                               *)

\* Mistake: a store that cannot be read is started empty.
OpenEmpty(p) ==
    /\ pc[p] = "down"
    /\ Undisturbed(p)
    /\ mem' = [mem EXCEPT ![p] = {}]
    /\ Goto(p, "opened")
    /\ UNCHANGED <<file, path, port, enrolled, revoked>>

\* newDaemon: OpenStore.
Open(p) ==
    /\ pc[p] = "down"
    /\ Undisturbed(p)
    /\ mem' = [mem EXCEPT ![p] = file]
    /\ Goto(p, "opened")
    /\ UNCHANGED <<file, path, port, enrolled, revoked>>

\* clearStaleSocket: Lstat and the dial, which finds no file, ...
InspectAbsent(p) ==
    /\ pc[p] = "opened"
    /\ path = Nobody
    /\ Goto(p, "cleared")
    /\ UNCHANGED <<mem, file, path, port, enrolled, revoked>>

\* Mistake: the socket file is removed on the way out of a failed start.
DialInUseAndUnlink(p) ==
    /\ pc[p] = "opened"
    /\ path # Nobody /\ pc[path] \in Accepting
    /\ path' = Nobody
    /\ Goto(p, "down")
    /\ UNCHANGED <<mem, file, port, enrolled, revoked>>

\* ... or a daemon that answers, which ends this one (ErrAdminSocketInUse), ...
DialInUse(p) ==
    /\ pc[p] = "opened"
    /\ path # Nobody /\ pc[path] \in Accepting
    /\ Goto(p, "down")
    /\ UNCHANGED <<mem, file, path, port, enrolled, revoked>>

\* Mistake: the socket is not probed before it is taken for dead.
DialSkipped(p) ==
    /\ pc[p] = "opened"
    /\ path # Nobody
    /\ Goto(p, "probed")
    /\ UNCHANGED <<mem, file, path, port, enrolled, revoked>>

\* ... or a refused connection: a file nobody listens behind, be it left by a
\* dead daemon or bound a moment ago by one that is not listening yet.
DialRefused(p) ==
    /\ pc[p] = "opened"
    /\ path # Nobody /\ pc[path] \notin Accepting
    /\ Goto(p, "probed")
    /\ UNCHANGED <<mem, file, path, port, enrolled, revoked>>

\* os.Remove takes away whatever is at the path by now.
RemoveStale(p) ==
    /\ pc[p] = "probed"
    /\ path' = Nobody
    /\ Goto(p, "cleared")
    /\ UNCHANGED <<mem, file, port, enrolled, revoked>>

\* net.Listen is bind, which makes the file or fails on one, and then listen.
Bind(p) ==
    /\ pc[p] = "cleared"
    /\ IF path = Nobody
         THEN path' = p /\ Goto(p, "bound")
         ELSE UNCHANGED path /\ Goto(p, "down")
    /\ UNCHANGED <<mem, file, port, enrolled, revoked>>

Listen(p) ==
    /\ pc[p] = "bound"
    /\ Goto(p, "accepting")
    /\ UNCHANGED <<mem, file, path, port, enrolled, revoked>>

\* The chmod needs a file at the path, anybody's.
Chmod(p) ==
    /\ pc[p] = "accepting"
    /\ path # Nobody
    /\ Goto(p, "listening")
    /\ UNCHANGED <<mem, file, path, port, enrolled, revoked>>

\* Without, or when it fails, listenAdmin closes its listener and gives up.
ChmodFails(p) ==
    /\ pc[p] = "accepting"
    /\ path' = Nobody
    /\ Goto(p, "down")
    /\ UNCHANGED <<mem, file, port, enrolled, revoked>>

BindPort(p) ==
    /\ pc[p] = "listening"
    /\ port = Nobody
    /\ port' = p
    /\ Goto(p, "serving")
    /\ UNCHANGED <<mem, file, path, enrolled, revoked>>

\* The port has another daemon, or another program, on it.
PortTaken(p) ==
    /\ pc[p] = "listening"
    /\ Goto(p, "closing")
    /\ UNCHANGED <<mem, file, path, port, enrolled, revoked>>

-----------------------------------------------------------------------------
(* Ending.                                                                 *)

\* SIGTERM: the HTTP server is shut down first, the admin socket last.
Stop(p) ==
    /\ pc[p] = "serving"
    /\ Undisturbed(p)
    /\ port' = Nobody
    /\ Goto(p, "closing")
    /\ UNCHANGED <<mem, file, path, enrolled, revoked>>

\* Closing a unix listener unlinks its path, whoever's file is there by now.
Close(p) ==
    /\ pc[p] = "closing"
    /\ path' = Nobody
    /\ Goto(p, "down")
    /\ UNCHANGED <<mem, file, port, enrolled, revoked>>

\* SIGKILL or the OOM killer: the socket file stays behind.
Kill(p) ==
    /\ pc[p] # "down"
    /\ Undisturbed(p)
    /\ port' = IF port = p THEN Nobody ELSE port
    /\ Goto(p, "down")
    /\ UNCHANGED <<mem, file, path, enrolled, revoked>>

-----------------------------------------------------------------------------
(* What a daemon does to the device file: every persist writes the whole   *)
(* of its own memory.  Failing writes are the subject of DeviceStore.      *)

Persist(p, devices) ==
    /\ mem' = [mem EXCEPT ![p] = devices]
    /\ file' = devices

Enroll(p, d) ==
    /\ pc[p] = "serving"
    /\ d \notin enrolled
    /\ Persist(p, mem[p] \cup {d})
    /\ enrolled' = enrolled \cup {d}
    /\ UNCHANGED <<pc, path, port, revoked>>

\* A browser revokes on the daemon that serves it, the command line on the one
\* whose socket it finds.
Revoke(p, d) ==
    /\ pc[p] = "serving" \/ (path = p /\ pc[p] \in {"listening", "closing"})
    /\ d \in mem[p]
    /\ Persist(p, mem[p] \ {d})
    /\ revoked' = revoked \cup {d}
    /\ UNCHANGED <<pc, path, port, enrolled>>

\* The last-seen write of a request.
Touch(p) ==
    /\ pc[p] = "serving"
    /\ mem[p] # {}
    /\ Persist(p, mem[p])
    /\ UNCHANGED <<pc, path, port, enrolled, revoked>>

Serve(p) ==
    \/ Open(p) \/ InspectAbsent(p) \/ DialInUse(p) \/ DialRefused(p) \/ RemoveStale(p)
    \/ Bind(p) \/ Listen(p) \/ Chmod(p) \/ ChmodFails(p)
    \/ BindPort(p) \/ PortTaken(p) \/ Stop(p) \/ Close(p) \/ Kill(p)
    \/ Touch(p)

DaemonNext ==
    \/ \E p \in Process : Serve(p)
    \/ \E p \in Process, d \in Device : Enroll(p, d) \/ Revoke(p, d)

DaemonSpec == DaemonInit /\ [][DaemonNext]_daemonVars

-----------------------------------------------------------------------------
(* Properties.                                                             *)

\* Never are two daemons up behind the admin socket ("unlinking it would leave
\* two daemons up, only one of them reachable").
OneDaemon ==
    \A p, q \in Process : pc[p] \in Accepting /\ pc[q] \in Accepting => p = q

\* The command line reaches the daemon that serves the browsers: its socket
\* file is the one at the path.
AdminReachable == \A p \in Process : pc[p] = "serving" => path = p

\* No device is lost and none comes back, over any number of starts, stops and
\* deaths: the file holds what was enrolled and not revoked.
FileIsTrue == file = enrolled \ revoked

-----------------------------------------------------------------------------
(* What makes them inductive when starts are serial.                       *)

\* At most one daemon is on its way up or down, and while another one serves it
\* has got no further than opening the store.
OneInTransit ==
    \A p, q \in Process : p # q /\ pc[p] \notin Settled =>
        /\ pc[q] \in Settled
        /\ pc[q] = "serving" => pc[p] = "opened"

\* Two daemons do not serve at once, and one that serves holds the path.
OneServes ==
    \A p \in Process : pc[p] = "serving" =>
        /\ path = p
        /\ \A q \in Process : pc[q] = "serving" => p = q

\* The path of a daemon that is listening is its own.
PathIsOwn ==
    \A p \in Process :
        /\ pc[p] \in {"bound", "accepting", "listening", "closing"} => path = p
        /\ pc[p] = "cleared" => path = Nobody

\* A daemon on its way up knows the file, unless another one serves.
MemoryIsFile ==
    \A p \in Process :
        pc[p] # "down" /\ (\A q \in Process \ {p} : pc[q] # "serving") => mem[p] = file

\* Only what was enrolled is revoked.
RevokedWasEnrolled == revoked \subseteq enrolled

DaemonInv ==
    /\ DaemonTypeOK
    /\ OneInTransit
    /\ OneServes
    /\ PathIsOwn
    /\ MemoryIsFile
    /\ FileIsTrue
    /\ RevokedWasEnrolled

=============================================================================
