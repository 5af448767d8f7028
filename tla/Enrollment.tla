----------------------------- MODULE Enrollment -----------------------------
(***************************************************************************)
(* Enrolment links (internal/auth/enroll.go): minted over the admin socket *)
(* or by an enrolled browser, redeemed once by a browser that is not.      *)
(*                                                                         *)
(* Every method of Enroller holds its mutex throughout, so each is one     *)
(* action.  Time is counted in ticks; the limiter's list of failures is    *)
(* kept as the code keeps it, oldest first, and beside it stands a log of  *)
(* the failures that really happened.                                      *)
(***************************************************************************)
EXTENDS Filter, FiniteSets

CONSTANTS
    Link,               \* enrolment tokens; a token is never minted twice
    Bogus,              \* a token that was never minted
    EnrollTTL,
    RedeemFailureWindow,
    MaxRedeemFailures,
    MaxTime,            \* bound on the clock
    MaxFlood            \* bound on the failures within one tick

ASSUME BogusAssumption == Bogus \notin Link
ASSUME LimitsAssumption ==
    /\ EnrollTTL \in Nat \ {0}
    /\ RedeemFailureWindow \in Nat \ {0}
    /\ MaxRedeemFailures \in Nat \ {0}
    /\ MaxTime \in Nat
    /\ MaxFlood \in Nat

Status == {"none", "device", "unsaved", "invalid", "expired", "busy"}
Time == 0 .. MaxTime

VARIABLES
    now,
    minted,     \* the links minted so far
    issued,     \* the links minted by this process
    expiresAt,  \* link -> when it expires
    pending,    \* Enroller.pending
    failures,   \* Enroller.failures
    log,        \* when this process answered each of its failed redemptions
    devices,    \* link -> how many devices were enrolled with it
    reply       \* what the last step was, if it was a redemption

enrollVars == <<now, minted, issued, expiresAt, pending, failures, log, devices, reply>>

NoReply == [token |-> Bogus, status |-> "none"]
Reply(token, status) == reply' = [token |-> token, status |-> status]

LinksTypeOK ==
    /\ now \in Time
    /\ minted \in SUBSET Link
    /\ issued \in SUBSET minted
    /\ expiresAt \in [Link -> Nat]
    /\ pending \in SUBSET issued
    /\ devices \in [Link -> Nat]

EnrollTypeOK ==
    /\ LinksTypeOK
    /\ failures \in Seq(Time) /\ Len(failures) <= MaxRedeemFailures
    /\ log \in Seq(Time)
    /\ reply \in [token : Link \cup {Bogus}, status : Status]

EnrollInit ==
    /\ now = 0
    /\ minted = {} /\ issued = {} /\ pending = {}
    /\ expiresAt = [l \in Link |-> 0]
    /\ failures = <<>>
    /\ log = <<>>
    /\ devices = [l \in Link |-> 0]
    /\ reply = NoReply

Expired(l) == now >= expiresAt[l]

\* Mistake: a link is dropped in the last moment of its life.
UnexpiredTooFew(links) == {l \in links : now + 1 < expiresAt[l]}

\* dropExpired.
Unexpired(links) == {l \in links : ~ Expired(l)}

Mint(l) ==
    /\ l \notin minted
    /\ minted' = minted \cup {l}
    /\ issued' = issued \cup {l}
    /\ expiresAt' = [expiresAt EXCEPT ![l] = now + EnrollTTL]
    /\ pending' = Unexpired(pending) \cup {l}
    /\ reply' = NoReply
    /\ UNCHANGED <<now, failures, log, devices>>

-----------------------------------------------------------------------------
(* Redeem.                                                                 *)

\* Mistake: a failure a whole window ago still counts.
RecentInclusive(times) == Those(times, {t \in Time : t >= now - RedeemFailureWindow})

\* The failures within the window before now.
Recent(times) == Those(times, {t \in Time : t > now - RedeemFailureWindow})

\* recordFailure: the answer to a failed redemption.
RecordFailure(token, status) ==
    LET kept == Append(Recent(failures), now)
        over == Len(kept) - MaxRedeemFailures
    IN  /\ Cardinality({i \in DOMAIN log : log[i] = now}) < MaxFlood
        /\ log' = Append(log, now)
        /\ failures' = IF over >= 0 THEN SubSeq(kept, over + 1, Len(kept)) ELSE kept
        /\ Reply(token, IF over >= 0 THEN "busy" ELSE status)

RedeemUnknown(token) ==
    /\ token \notin pending
    /\ RecordFailure(token, "invalid")
    /\ UNCHANGED <<now, minted, issued, expiresAt, pending, devices>>

RedeemExpired(l) ==
    /\ l \in pending
    /\ Expired(l)
    /\ pending' = pending \ {l}
    /\ RecordFailure(l, "expired")
    /\ UNCHANGED <<now, minted, issued, expiresAt, devices>>

\* The store could not persist the device: the link stays live.
RedeemUnsaved(l) ==
    /\ l \in pending
    /\ ~ Expired(l)
    /\ Reply(l, "unsaved")
    /\ UNCHANGED <<now, minted, issued, expiresAt, pending, failures, log, devices>>

\* Mistake: the limiter is asked before the token is compared.
RedeemAfterLimiter(l) ==
    /\ l \in pending
    /\ ~ Expired(l)
    /\ IF Len(Recent(failures)) >= MaxRedeemFailures
         THEN Reply(l, "busy") /\ UNCHANGED <<pending, devices>>
         ELSE /\ devices' = [devices EXCEPT ![l] = @ + 1]
              /\ pending' = pending \ {l}
              /\ Reply(l, "device")
    /\ UNCHANGED <<now, minted, issued, expiresAt, failures, log>>

\* Mistake: the link is not used up.
RedeemAgain(l) ==
    /\ l \in pending
    /\ ~ Expired(l)
    /\ devices' = [devices EXCEPT ![l] = @ + 1]
    /\ Reply(l, "device")
    /\ UNCHANGED <<now, minted, issued, expiresAt, pending, failures, log>>

RedeemSaved(l) ==
    /\ l \in pending
    /\ ~ Expired(l)
    /\ devices' = [devices EXCEPT ![l] = @ + 1]
    /\ pending' = pending \ {l}
    /\ Reply(l, "device")
    /\ UNCHANGED <<now, minted, issued, expiresAt, failures, log>>

-----------------------------------------------------------------------------

Tick ==
    /\ now < MaxTime
    /\ now' = now + 1
    /\ reply' = NoReply
    /\ UNCHANGED <<minted, issued, expiresAt, pending, failures, log, devices>>

\* A new process knows none of the links and none of the failures.
Restart ==
    /\ issued' = {}
    /\ pending' = {}
    /\ failures' = <<>>
    /\ log' = <<>>
    /\ reply' = NoReply
    /\ UNCHANGED <<now, minted, expiresAt, devices>>

EnrollNext ==
    \/ \E l \in Link :
            Mint(l) \/ RedeemExpired(l) \/ RedeemUnsaved(l) \/ RedeemSaved(l)
    \/ \E token \in Link \cup {Bogus} : RedeemUnknown(token)
    \/ Tick
    \/ Restart

EnrollSpec == EnrollInit /\ [][EnrollNext]_enrollVars

-----------------------------------------------------------------------------
(* Properties.                                                             *)

\* A link enrolls one device at most, over any number of redemptions, failed
\* persists and restarts.
SingleUse == \A l \in Link : devices[l] <= 1

\* A link that is still good is pending exactly until it has enrolled a device:
\* neither the housekeeping of other links nor a failed persist loses it, and a
\* used link is never found again.
GoodLinksArePending ==
    \A l \in issued : ~ Expired(l) => (l \in pending <=> devices[l] = 0)

\* "It never applies to a valid token": whoever is told that there were too many
\* attempts held no link that was good.
SparesGoodLinks ==
    reply'.status = "busy" => reply'.token \notin pending \/ Expired(reply'.token)
LimiterSparesGoodLinks == [][SparesGoodLinks]_enrollVars

\* The limiter answers by the failures of the last window, all of them and no
\* others, although it remembers MaxRedeemFailures at most.
LimiterCountsTheWindow ==
    LET recent == Cardinality({i \in DOMAIN log : now - RedeemFailureWindow < log[i]})
    IN  /\ reply.status = "busy" => recent >= MaxRedeemFailures
        /\ reply.status \in {"invalid", "expired"} => recent < MaxRedeemFailures

-----------------------------------------------------------------------------
(* What makes them inductive.                                              *)

\* A link that is pending, or was never minted, has enrolled nothing.
UnusedUntilRedeemed ==
    \A l \in Link : l \in pending \/ l \notin minted => devices[l] = 0

\* The log is in the order of time.
InOrderOfTime ==
    /\ \A i \in 1 .. Len(log) : log[i] <= now
    /\ \A i, j \in 1 .. Len(log) : i < j => log[i] <= log[j]

\* The limiter's list is the newest of the log, and is either full or has dropped
\* nothing that is still in the window.
ListIsNewest ==
    /\ Len(failures) <= Len(log)
    /\ \A i \in 1 .. Len(failures) : failures[i] = log[Len(log) - Len(failures) + i]
    /\ \/ Len(failures) = MaxRedeemFailures
       \/ \A i \in 1 .. Len(log) - Len(failures) : log[i] <= now - RedeemFailureWindow

EnrollInv ==
    /\ EnrollTypeOK /\ UnusedUntilRedeemed /\ SingleUse /\ GoodLinksArePending
    /\ InOrderOfTime /\ ListIsNewest /\ LimiterCountsTheWindow

=============================================================================
