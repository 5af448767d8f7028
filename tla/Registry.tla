------------------------------ MODULE Registry ------------------------------
(***************************************************************************)
(* The registry of live terminal sockets of internal/front/registry.go.    *)
(*                                                                         *)
(* Each method body is a critical section of Registry.mu and one action    *)
(* here.  A closer is the cancellation of the request it was registered    *)
(* for, so it is named by that request; fire hands a closer to a goroutine *)
(* of its own, and `fired' holds the ones that have not run yet.           *)
(***************************************************************************)
EXTENDS Devices, Naturals, FiniteSets

CONSTANT Request \* HTTP requests, one goroutine each

VARIABLES
    next,       \* Registry.next: the next handle
    live,       \* Registry.live: device -> its registered connections
    revoked,    \* Registry.revoked: devices CloseDevice was called for
    handle,     \* request -> the handle its remove closure captured
    fired,      \* closers whose goroutine has not run yet
    cancelled   \* requests whose context is cancelled

registryVars == <<next, live, revoked, handle, fired, cancelled>>

Entry(r) == [id |-> handle[r], closer |-> r]

RegistryTypeOK ==
    /\ next \in Nat
    /\ live \in [Device -> SUBSET [id : Nat, closer : Request]]
    /\ revoked \in SUBSET Device
    /\ handle \in [Request -> Nat]
    /\ fired \in SUBSET Request
    /\ cancelled \in SUBSET Request

RegistryInit ==
    /\ next = 0
    /\ live = [d \in Device |-> {}]
    /\ revoked = {}
    /\ handle = [r \in Request |-> 0]
    /\ fired = {}
    /\ cancelled = {}

\* Add for a device CloseDevice has been called for: the closer is run and
\* nothing is registered.
AddRefused(d, r) ==
    /\ d \in revoked
    /\ fired' = fired \cup {r}
    /\ UNCHANGED <<next, live, revoked, handle, cancelled>>

\* Mistake: a connection of a device that was swept is registered all the same.
AddUnfenced(d, r) ==
    /\ live' = [live EXCEPT ![d] = @ \cup {[id |-> next, closer |-> r]}]
    /\ handle' = [handle EXCEPT ![r] = next]
    /\ next' = next + 1
    /\ UNCHANGED <<revoked, fired, cancelled>>

\* Mistake: handles are counted per device and so are used again.
AddReusingHandles(d, r) ==
    /\ d \notin revoked
    /\ LET id == Cardinality(live[d])
       IN  /\ live' = [live EXCEPT ![d] = @ \cup {[id |-> id, closer |-> r]}]
           /\ handle' = [handle EXCEPT ![r] = id]
    /\ UNCHANGED <<next, revoked, fired, cancelled>>

AddRegistered(d, r) ==
    /\ d \notin revoked
    /\ live' = [live EXCEPT ![d] = @ \cup {[id |-> next, closer |-> r]}]
    /\ handle' = [handle EXCEPT ![r] = next]
    /\ next' = next + 1
    /\ UNCHANGED <<revoked, fired, cancelled>>

\* The deregistration Add returned, which names its connection by handle.
Remove(d, r) ==
    /\ live' = [live EXCEPT ![d] = {e \in @ : e.id # handle[r]}]
    /\ UNCHANGED <<next, revoked, handle, fired, cancelled>>

\* Mistake: the device is fenced and forgotten, and its closers are not run.
CloseWithoutFiring(d) ==
    /\ live' = [live EXCEPT ![d] = {}]
    /\ revoked' = revoked \cup {d}
    /\ UNCHANGED <<next, handle, fired, cancelled>>

CloseDevice(d) ==
    /\ live' = [live EXCEPT ![d] = {}]
    /\ revoked' = revoked \cup {d}
    /\ fired' = fired \cup {e.closer : e \in live[d]}
    /\ UNCHANGED <<next, handle, cancelled>>

\* The goroutine fire started: it runs the closer, which cancels the request.
RunCloser(r) ==
    /\ r \in fired
    /\ fired' = fired \ {r}
    /\ cancelled' = cancelled \cup {r}
    /\ UNCHANGED <<next, live, revoked, handle>>

\* A process that has just started: NewRegistry.
NewRegistry ==
    /\ next' = 0
    /\ live' = [d \in Device |-> {}]
    /\ revoked' = {}
    /\ fired' = {}
    /\ UNCHANGED <<handle, cancelled>>

=============================================================================
