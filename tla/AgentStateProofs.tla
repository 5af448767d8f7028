-------------------------- MODULE AgentStateProofs --------------------------
(***************************************************************************)
(* Proofs about AgentState, for any screens, windows, clocks and numbers   *)
(* of reports and disturbances.                                            *)
(*                                                                         *)
(* The invariant proved is IInv.  That a report stands only with evidence  *)
(* to spare (EvidenceOpen) bounds the windows; that the memory holds the   *)
(* newest report read (RowIsRemembered) orders them; that the classifier's *)
(* entry is the last capture of an unbroken watch, and counts as still     *)
(* only what the agent has rested through (EntryIsWatched), earns the      *)
(* finish and the badge.  The lemmas say what a poll can come out as, then *)
(* that it keeps IInv, conjunct by conjunct, then that all else does.      *)
(***************************************************************************)
EXTENDS AgentState, TLAPS

-----------------------------------------------------------------------------
(* The operators of the two authorities.                                   *)

\* What one observation makes of the classifier's memory.
LEMMA ObserveScreenFacts ==
    ASSUME NEW e \in Entry \cup {Unseen}, NEW p \in Picture, NEW t \in Nat,
           NEW blocked \in BOOLEAN, NEW n, n = ObserveScreen(e, p, t, blocked)
    PROVE  /\ n \in Entry
           /\ n.hash = p
           /\ e = Unseen => n.still = 0 /\ ~ n.everChanged /\ n.finishedAt = 0
           /\ e # Unseen /\ e.hash # p => n.still = 0 /\ n.everChanged
           /\ e # Unseen /\ e.hash = p =>
                  /\ n.still = IF e.still = Beyond THEN Beyond ELSE e.still + 1
                  /\ n.everChanged = e.everChanged
           /\ e # Unseen => \/ n.finishedAt = e.finishedAt
                            \/ n.still = SettleAfter /\ n.everChanged
  <1>1. CASE e = Unseen
    BY <1>1, SettleAssumption, UnseenAssumption
    DEF ObserveScreen, FirstSight, Entry, Picture, Beyond
  <1>2. CASE e # Unseen
    <2> DEFINE c == Compared(e, p)
    <2>1. /\ c \in Entry /\ c.hash = p /\ c.finishedAt = e.finishedAt
          /\ e.hash # p => c.still = 0 /\ c.everChanged
          /\ e.hash = p => /\ c.still = IF e.still = Beyond THEN Beyond ELSE e.still + 1
                           /\ c.everChanged = e.everChanged
      <3>1. e \in Entry
        BY <1>2
      <3>2. CASE e.hash # p
        <4>1. c = [e EXCEPT !.hash = p, !.still = 0, !.everChanged = TRUE]
          BY <3>2 DEF Compared
        <4>2. 0 \in 0 .. Beyond
          BY SettleAssumption DEF Beyond
        <4>3. c \in Entry
          BY <3>1, <4>1, <4>2 DEF Entry
        <4>4. c.hash = p /\ c.still = 0 /\ c.everChanged /\ c.finishedAt = e.finishedAt
          BY <3>1, <4>1 DEF Entry
        <4> QED BY <3>2, <4>3, <4>4
      <3>3. CASE e.hash = p
        <4>1. c = [e EXCEPT !.still = IF e.still = Beyond THEN Beyond ELSE e.still + 1]
          BY <3>3 DEF Compared
        <4>2. (IF e.still = Beyond THEN Beyond ELSE e.still + 1) \in 0 .. Beyond
          BY <3>1, SettleAssumption DEF Entry, Beyond
        <4> QED BY <3>1, <3>3, <4>1, <4>2 DEF Entry
      <3> QED BY <3>2, <3>3
    <2>2. n = IF EarnsFinish(c, t, blocked) THEN [c EXCEPT !.finishedAt = t] ELSE c
      BY <1>2 DEF ObserveScreen
    <2>3. /\ n \in Entry /\ n.hash = c.hash /\ n.still = c.still /\ n.everChanged = c.everChanged
          /\ n.finishedAt = c.finishedAt \/ EarnsFinish(c, t, blocked)
      BY <2>1, <2>2 DEF Entry
    <2> QED BY <1>2, <2>1, <2>3 DEF EarnsFinish
  <1> QED BY <1>1, <1>2

\* A memory that recalls a value is empty, or a new claim, or what it was.
LEMMA RecallFacts ==
    ASSUME NEW m \in Memory \cup {Forgotten}, NEW raw \in Report \cup {NoReport},
           NEW r, r = Recall(m, raw)
    PROVE  /\ r \in Memory \cup {Forgotten}
           /\ raw = NoReport <=> r = Forgotten
           /\ raw # NoReport =>
                \/ /\ r = NewClaim(raw) /\ r # Forgotten
                   /\ m = Forgotten \/ raw.ts > m.accepted.ts
                   /\ r.accepted = raw /\ Stands(r) /\ ~ r.verified
                   /\ r.windowPolls = 0 /\ r.settledPolls = 0
                \/ r = m /\ m # Forgotten /\ raw.ts <= m.accepted.ts
  <1>1. CASE raw = NoReport
    BY <1>1 DEF Recall
  <1>2. CASE raw # NoReport
    <2>1. /\ NewClaim(raw) \in Memory /\ NewClaim(raw) # Forgotten
          /\ NewClaim(raw).accepted = raw /\ Stands(NewClaim(raw)) /\ ~ NewClaim(raw).verified
          /\ NewClaim(raw).windowPolls = 0 /\ NewClaim(raw).settledPolls = 0
      <3>1. raw \in Report
        BY <1>2
      <3>2. NewClaim(raw) \in Memory
        BY <3>1, WindowAssumption DEF NewClaim, Memory
      <3>3. raw.ts # 0
        BY <3>1 DEF Report
      <3> QED BY <3>2, <3>3, ForgottenAssumption DEF NewClaim, Stands
    <2>2. CASE m = Forgotten
      BY <1>2, <2>1, <2>2 DEF Recall
    <2>3. CASE m # Forgotten /\ raw.ts > m.accepted.ts
      BY <1>2, <2>1, <2>3 DEF Recall
    <2>4. CASE m # Forgotten /\ ~ raw.ts > m.accepted.ts
      <3>1. m.accepted.ts \in Nat /\ raw.ts \in Nat
        BY <1>2, <2>4 DEF Memory, Report
      <3> QED BY <1>2, <2>4, <3>1 DEF Recall
    <2> QED BY <2>2, <2>3, <2>4
  <1> QED BY <1>1, <1>2

\* One capture's worth of evidence about a reported idle.
LEMMA CorroborateFacts ==
    ASSUME NEW m \in Memory, NEW idle \in BOOLEAN, Stands(m), m.windowPolls < NIdle,
           NEW n, n = Corroborate(m, idle)
    PROVE  /\ n \in Memory
           /\ n.accepted = m.accepted /\ n.settledPolls = m.settledPolls
           /\ idle => n.verified /\ Stands(n)
           /\ ~ idle => n.verified = m.verified
           /\ ~ idle /\ Stands(n) => n.windowPolls < NIdle
  <1> DEFINE k == [m EXCEPT !.windowPolls = m.windowPolls + 1, !.verified = idle \/ m.verified]
  <1>1. /\ k \in Memory
        /\ k.accepted = m.accepted /\ k.settledPolls = m.settledPolls
        /\ k.rejected = m.rejected
        /\ k.windowPolls = m.windowPolls + 1
        /\ k.verified = (idle \/ m.verified)
    <2>1. m.windowPolls + 1 \in 0 .. NIdle
      BY WindowAssumption DEF Memory
    <2>2. (idle \/ m.verified) \in BOOLEAN
      OBVIOUS
    <2>3. k \in Memory
      BY <2>1, <2>2 DEF Memory
    <2> QED BY <2>3 DEF Memory
  <1>2. CASE ~ idle /\ k.windowPolls >= NIdle
    <2>1. n = [k EXCEPT !.rejected = k.accepted.ts]
      BY <1>2 DEF Corroborate, Reject
    <2> QED BY <1>1, <1>2, <2>1 DEF Memory, Report, Stands
  <1>3. CASE ~ (~ idle /\ k.windowPolls >= NIdle)
    <2>1. n = k
      BY <1>3 DEF Corroborate
    <2> QED BY <1>1, <1>3, <2>1, WindowAssumption DEF Memory, Stands
  <1> QED BY <1>2, <1>3

\* One capture's worth of evidence about a reported blocked.
LEMMA CorroborateBlockedFacts ==
    ASSUME NEW m \in Memory, NEW changed \in BOOLEAN, NEW form \in BOOLEAN, Stands(m),
           m.settledPolls < NBlocked, NEW n, n = CorroborateBlocked(m, changed, form)
    PROVE  /\ n \in Memory
           /\ n.accepted = m.accepted /\ n.verified = m.verified /\ n.windowPolls = m.windowPolls
           /\ Stands(n) => n.settledPolls < NBlocked
           /\ Stands(n) /\ ~ form => n.settledPolls = m.settledPolls + 1
  <1> DEFINE k == [m EXCEPT !.settledPolls = IF form THEN 0 ELSE m.settledPolls + 1]
  <1>1. /\ k \in Memory
        /\ k.accepted = m.accepted /\ k.verified = m.verified /\ k.windowPolls = m.windowPolls
        /\ k.rejected = m.rejected
        /\ k.settledPolls = IF form THEN 0 ELSE m.settledPolls + 1
    BY WindowAssumption DEF Memory
  <1>2. CASE changed
    <2>1. n = [m EXCEPT !.rejected = m.accepted.ts]
      BY <1>2 DEF CorroborateBlocked, Reject
    <2> QED BY <1>2, <2>1 DEF Memory, Report, Stands
  <1>3. CASE ~ changed /\ k.settledPolls >= NBlocked
    <2>1. n = [k EXCEPT !.rejected = k.accepted.ts]
      BY <1>3 DEF CorroborateBlocked, Reject
    <2> QED BY <1>1, <1>3, <2>1 DEF Memory, Report, Stands
  <1>4. CASE ~ changed /\ ~ k.settledPolls >= NBlocked
    <2>1. n = k
      BY <1>4 DEF CorroborateBlocked
    <2> QED BY <1>1, <1>4, <2>1, WindowAssumption DEF Memory, Stands
  <1> QED BY <1>2, <1>3, <1>4

-----------------------------------------------------------------------------
(* One poll.                                                               *)

\* What a poll starts from: the report it recalls is a new claim or the one it
\* held, with evidence to spare if it stands, and so is the classifier's entry.
LEMMA PollFacts ==
    ASSUME IInv, NEW lost \in Losses, Poll(lost), NEW m, m = Recalled(lost)
    PROVE  /\ m \in Memory \cup {Forgotten}
           /\ Captured(lost, m) \in BOOLEAN
           /\ EntryKept(lost) \in Entry \cup {Unseen}
           /\ EntryKept(lost) # Unseen => EntryKept(lost) = entry /\ ~ Restarted(lost)
           /\ m # Forgotten =>
                /\ Raw(lost) \in Report
                /\ \/ /\ m.accepted = Raw(lost) /\ Stands(m) /\ ~ m.verified
                      /\ m.windowPolls = 0 /\ m.settledPolls = 0
                      /\ MemoryKept(lost) = Forgotten \/ Raw(lost).ts > MemoryKept(lost).accepted.ts
                   \/ /\ m = memory /\ MemoryKept(lost) = memory /\ ~ Restarted(lost)
                      /\ Raw(lost).ts <= m.accepted.ts
           /\ m # Forgotten /\ Stands(m) =>
                /\ ~ m.verified => m.windowPolls < NIdle
                /\ m.settledPolls < NBlocked
           /\ MemoryKept(lost) \in {memory, Forgotten}
  <1>1. /\ MemoryKept(lost) \in Memory \cup {Forgotten}
        /\ MemoryKept(lost) \in {memory, Forgotten}
        /\ MemoryKept(lost) # Forgotten => ~ Restarted(lost)
        /\ Raw(lost) \in Report \cup {NoReport}
    BY DEF IInv, TypeOK, MemoryKept, Raw
  <1>2. /\ EntryKept(lost) \in Entry \cup {Unseen}
        /\ EntryKept(lost) # Unseen => EntryKept(lost) = entry /\ ~ Restarted(lost)
    BY DEF IInv, TypeOK, EntryKept
  <1>3. Captured(lost, m) \in BOOLEAN
    BY DEF Captured
  <1>4. m = Recall(MemoryKept(lost), Raw(lost))
    BY DEF Recalled
  <1>5. /\ m \in Memory \cup {Forgotten}
        /\ Raw(lost) = NoReport <=> m = Forgotten
        /\ Raw(lost) # NoReport =>
             \/ /\ MemoryKept(lost) = Forgotten \/ Raw(lost).ts > MemoryKept(lost).accepted.ts
                /\ m.accepted = Raw(lost) /\ Stands(m) /\ ~ m.verified
                /\ m.windowPolls = 0 /\ m.settledPolls = 0
             \/ m = MemoryKept(lost) /\ MemoryKept(lost) # Forgotten /\ Raw(lost).ts <= MemoryKept(lost).accepted.ts
    BY <1>1, <1>4, RecallFacts
  <1>6. m # Forgotten =>
          /\ Raw(lost) \in Report
          /\ \/ /\ m.accepted = Raw(lost) /\ Stands(m) /\ ~ m.verified
                /\ m.windowPolls = 0 /\ m.settledPolls = 0
                /\ MemoryKept(lost) = Forgotten \/ Raw(lost).ts > MemoryKept(lost).accepted.ts
             \/ /\ m = memory /\ MemoryKept(lost) = memory /\ ~ Restarted(lost)
                /\ Raw(lost).ts <= m.accepted.ts
    BY <1>1, <1>5
  <1>7. m # Forgotten /\ Stands(m) =>
          /\ ~ m.verified => m.windowPolls < NIdle
          /\ m.settledPolls < NBlocked
    BY <1>6, WindowAssumption DEF IInv, EvidenceOpen
  <1> QED BY <1>1, <1>2, <1>3, <1>5, <1>6, <1>7

\* A report a poll shows is one that stands.
LEMMA ReportedFacts ==
    ASSUME NEW m \in Memory, TypeOK
    PROVE  /\ Reported(m) \in Row
           /\ Reported(m).source = "event" /\ Reported(m).state = m.accepted.state
           /\ Reported(m).ts = m.accepted.ts
           /\ m.accepted.state = "idle" /\ m.verified => Reported(m).finishedAt = m.accepted.ts
           /\ connected /\ Reported(m).finishedAt # 0 => m.accepted.state = "idle" /\ m.verified
  BY DEF Reported, Confirmed, Row, Memory, Report, States

\* A row the screen decides.
LEMMA ScreenedFacts ==
    ASSUME NEW e \in Entry, NEW form \in BOOLEAN
    PROVE  /\ Screened(e, form) \in Row
           /\ Screened(e, form).source = "screen"
           /\ form => Screened(e, form).state = "blocked"
  BY DEF Screened, Verdict, Row, Entry, States

\* What a poll leaves: the three ways it can come out.
LEMMA PollOutcome ==
    ASSUME IInv, NEW lost \in Losses, Poll(lost), NEW m, m = Recalled(lost)
    PROVE  /\ row' \in Row
           /\ memory' \in Memory \cup {Forgotten}
           /\ entry' \in Entry \cup {Unseen}
           /\ entry' # Unseen =>
                /\ Captured(lost, m)
                /\ \E blocked \in BOOLEAN : entry' = ObserveScreen(EntryKept(lost), pic, now, blocked)
           /\ agent = "none" => memory' = Forgotten
           /\ agent # "none" /\ m = Forgotten => memory' = Forgotten
           /\ agent # "none" /\ m # Forgotten => memory' # Forgotten /\ memory'.accepted = m.accepted
           /\ memory' # Forgotten /\ Stands(memory') => Stands(m)
           /\ memory' # Forgotten /\ ~ InForce(m, now) => memory' = m
           /\ row'.source = "event" <=> memory' # Forgotten /\ InForce(m, now) /\ Stands(memory')
           /\ row'.source = "event" => row' = Reported(memory')
           /\ memory' # Forgotten /\ memory' # m =>
                /\ Captured(lost, m) /\ InForce(m, now) /\ NeedsScreen(m) /\ entry' # Unseen
                /\ \/ /\ m.accepted.state = "idle"
                      /\ memory' = Corroborate(m, Verdict(entry') = "idle")
                   \/ /\ m.accepted.state = "blocked"
                      /\ memory' = CorroborateBlocked(m, Changed(EntryKept(lost), pic), pic.form)
           /\ Captured(lost, m) => entry' # Unseen
  <1>1. /\ m \in Memory \cup {Forgotten}
        /\ Captured(lost, m) \in BOOLEAN
        /\ EntryKept(lost) \in Entry \cup {Unseen}
        /\ m # Forgotten /\ Stands(m) =>
             /\ ~ m.verified => m.windowPolls < NIdle
             /\ m.settledPolls < NBlocked
    BY PollFacts
  <1>2. /\ pic \in Picture /\ pic.form \in BOOLEAN /\ now \in Nat
        /\ TypeOK
    BY DEF IInv, TypeOK, Picture, Time
  <1>3. InForce(m, now) => m \in Memory /\ m # Forgotten /\ Stands(m)
    BY <1>1 DEF InForce, Stands
  <1>4. Decide(lost, m)
    BY DEF Poll
  <1>5. CASE NoAgent
    BY <1>5, ForgottenAssumption DEF NoAgent, Blank, Row, Captured
  <1>6. CASE agent # "none" /\ Trusted(lost, m)
    <2>1. /\ row' = Reported(m) /\ entry' = Unseen /\ memory' = m
          /\ ~ Captured(lost, m) /\ InForce(m, now)
      BY <1>6 DEF Trusted
    <2>2. Reported(m) \in Row /\ Reported(m).source = "event"
      BY <1>2, <1>3, <2>1, ReportedFacts
    <2> QED BY <1>1, <1>3, <1>6, <2>1, <2>2
  <1>7. CASE agent # "none" /\ Checked(lost, m)
    <2> DEFINE asks == m.accepted.state = "blocked" /\ pic.form
               e == ObserveScreen(EntryKept(lost), pic, now, asks)
               judged == IF m.accepted.state = "blocked"
                           THEN CorroborateBlocked(m, Changed(EntryKept(lost), pic), pic.form)
                           ELSE Corroborate(m, Verdict(e) = "idle")
    <2>1. /\ row' = (IF Stands(judged) THEN Reported(judged) ELSE Screened(e, asks))
          /\ entry' = e /\ memory' = judged
          /\ Captured(lost, m) /\ InForce(m, now)
      BY <1>7 DEF Checked
    <2>2. asks \in BOOLEAN
      BY <1>2
    <2>3. e \in Entry /\ e # Unseen
      <3>1. \A blocked \in BOOLEAN : ObserveScreen(EntryKept(lost), pic, now, blocked) \in Entry
        BY <1>1, <1>2, ObserveScreenFacts
      <3> HIDE DEF asks
      <3> QED BY <2>2, <3>1, UnseenAssumption
    <2>4. /\ NeedsScreen(m)
          /\ m.accepted.state = "blocked" \/ (m.accepted.state = "idle" /\ ~ m.verified)
      BY <2>1 DEF Captured, NeedsScreen
    <2>5. /\ judged \in Memory /\ judged.accepted = m.accepted
      <3>1. CASE m.accepted.state = "blocked"
        <4>1. Changed(EntryKept(lost), pic) \in BOOLEAN
          BY DEF Changed
        <4>2. judged = CorroborateBlocked(m, Changed(EntryKept(lost), pic), pic.form)
          BY <3>1
        <4> QED BY <1>1, <1>2, <1>3, <2>1, <4>1, <4>2, CorroborateBlockedFacts
      <3>2. CASE m.accepted.state # "blocked"
        <4>1. judged = Corroborate(m, Verdict(e) = "idle")
          BY <3>2
        <4>2. (Verdict(e) = "idle") \in BOOLEAN
          OBVIOUS
        <4> QED BY <1>1, <1>3, <2>1, <2>4, <3>2, <4>1, <4>2, CorroborateFacts
      <3> QED BY <3>1, <3>2
    <2>6. judged # Forgotten
      BY <2>5, ForgottenAssumption
    <2>7. /\ Reported(judged) \in Row /\ Reported(judged).source = "event"
          /\ Screened(e, asks) \in Row /\ Screened(e, asks).source = "screen"
      BY <1>2, <2>2, <2>3, <2>5, ReportedFacts, ScreenedFacts
    <2>8. /\ row' \in Row
          /\ row'.source = "event" <=> Stands(judged)
          /\ row'.source = "event" => row' = Reported(judged)
      BY <2>1, <2>7
    <2>9. \/ m.accepted.state = "idle" /\ judged = Corroborate(m, Verdict(e) = "idle")
          \/ /\ m.accepted.state = "blocked"
             /\ judged = CorroborateBlocked(m, Changed(EntryKept(lost), pic), pic.form)
      BY <2>4
    <2> HIDE DEF asks, e, judged
    <2>10. \E blocked \in BOOLEAN : entry' = ObserveScreen(EntryKept(lost), pic, now, blocked)
      BY <2>1, <2>2 DEF e
    <2> QED BY <1>3, <1>7, <2>1, <2>3, <2>4, <2>5, <2>6, <2>8, <2>9, <2>10
  <1>8. CASE agent # "none" /\ Unknown(lost, m)
    BY <1>1, <1>8 DEF Unknown, Blank, Row
  <1>9. CASE agent # "none" /\ Classified(lost, m)
    <2> DEFINE e == ObserveScreen(EntryKept(lost), pic, now, pic.form)
    <2>1. /\ row' = Screened(e, pic.form) /\ entry' = e /\ memory' = m
          /\ Captured(lost, m) /\ ~ InForce(m, now)
      BY <1>9 DEF Classified
    <2>2. e \in Entry /\ e # Unseen
      BY <1>1, <1>2, ObserveScreenFacts, UnseenAssumption
    <2>3. Screened(e, pic.form) \in Row /\ Screened(e, pic.form).source = "screen"
      BY <1>2, <2>2, ScreenedFacts
    <2> HIDE DEF e
    <2>4. \E blocked \in BOOLEAN : entry' = ObserveScreen(EntryKept(lost), pic, now, blocked)
      BY <1>2, <2>1 DEF e
    <2> QED BY <1>1, <1>9, <2>1, <2>2, <2>3, <2>4
  <1> QED BY <1>4, <1>5, <1>6, <1>7, <1>8, <1>9 DEF Decide

\* A captured pane whose reported blocked is in force has the rules applied.
LEMMA PollChecksBlocked ==
    ASSUME NEW lost \in Losses, Poll(lost), NEW m, m = Recalled(lost),
           InForce(m, now), Captured(lost, m), agent # "none", m.accepted.state = "blocked"
    PROVE  memory' = CorroborateBlocked(m, Changed(EntryKept(lost), pic), pic.form)
  <1>1. Checked(lost, m)
    BY DEF Poll, Decide, NoAgent, Trusted, Unknown, Classified
  <1> QED BY <1>1 DEF Checked

-----------------------------------------------------------------------------
(* A poll keeps the inductive invariant, conjunct by conjunct.             *)

LEMMA PollKeepsType ==
    ASSUME IInv, NEW lost \in Losses, Poll(lost)
    PROVE  TypeOK'
  <1> DEFINE m == Recalled(lost)
  <1>1. /\ row' \in Row /\ memory' \in Memory \cup {Forgotten} /\ entry' \in Entry \cup {Unseen}
    BY PollOutcome
  <1>2. /\ m \in Memory \cup {Forgotten} /\ Captured(lost, m) \in BOOLEAN
        /\ m # Forgotten => Raw(lost) \in Report /\ Raw(lost).ts \in Nat
        /\ m # Forgotten => m.accepted.ts \in Nat
    BY PollFacts DEF Report, Memory
  <1>3. Witness(lost, m)
    BY DEF Poll
  <1>4. /\ calm \in 0 .. SettleAfter /\ newest \in Nat /\ condemned \in Nat /\ silent \in Nat
        /\ churned \in BOOLEAN /\ watched \in BOOLEAN /\ drawn \in BOOLEAN
        /\ birth \in Nat /\ start \in Nat
    BY DEF IInv, TypeOK
  <1> HIDE DEF m
  <1>5. /\ calm' \in 0 .. SettleAfter /\ paced' \in 0 .. SettleAfter
        /\ rested' \in BOOLEAN /\ drawn' \in BOOLEAN /\ watched' \in BOOLEAN
    <2>1. calm' = IF ~ rested THEN 0 ELSE IF calm = SettleAfter THEN calm ELSE calm + 1
      BY <1>3 DEF Witness
    <2>2. calm' \in 0 .. SettleAfter
      BY <1>4, <2>1, SettleAssumption
    <2>3. rested' = (agent # "busy") /\ drawn' = FALSE /\ watched' = Captured(lost, m)
      BY <1>3 DEF Witness
    <2>4. (agent # "busy") \in BOOLEAN
      OBVIOUS
    <2>5. paced' \in 0 .. SettleAfter
      <3>1. paced \in 0 .. SettleAfter
        BY DEF IInv, TypeOK
      <3>2. paced' = IF since # "whole" THEN 0 ELSE IF paced = SettleAfter THEN paced ELSE paced + 1
        BY <1>3 DEF Witness
      <3> QED BY <3>1, <3>2, SettleAssumption
    <2> QED BY <1>2, <2>2, <2>3, <2>4, <2>5
  <1>6. churned' \in BOOLEAN /\ fell' \in BOOLEAN
    BY <1>3 DEF Witness
  <1>7. newest' \in Nat /\ condemned' \in Nat
    BY <1>2, <1>3, <1>4 DEF Witness
  <1>8. silent' \in Nat
    BY <1>3, <1>4 DEF Witness
  <1>9. start' \in Nat
    BY <1>4 DEF Poll
  <1>10. /\ upsets' \in 0 .. MaxUpsets
         /\ since' \in Since
         /\ UNCHANGED <<now, agent, pic, option, unwritten, birth, births, connected, stamped, issued>>
    <2>1. upsets' = upsets + (IF lost = {} /\ since' = "tick" THEN 0 ELSE 1) /\ upsets' <= MaxUpsets
      BY DEF Poll, Upset
    <2>2. upsets \in Nat
      BY DEF IInv, TypeOK
    <2>3. upsets' \in 0 .. MaxUpsets
      BY <2>1, <2>2, ConstantsAssumption
    <2>4. since' \in Since
      BY DEF Poll, Since
    <2>5. UNCHANGED <<now, agent, pic, option, unwritten, birth, births, connected, stamped, issued>>
      BY DEF Poll
    <2> QED BY <2>3, <2>4, <2>5
  <1> QED BY <1>1, <1>5, <1>6, <1>7, <1>8, <1>9, <1>10 DEF IInv, TypeOK

LEMMA PollKeepsEvidence ==
    ASSUME IInv, NEW lost \in Losses, Poll(lost)
    PROVE  EvidenceOpen'
  <1> DEFINE m == Recalled(lost)
  <1> SUFFICES ASSUME memory' # Forgotten, Stands(memory')
               PROVE  /\ ~ memory'.verified => memory'.windowPolls < NIdle
                      /\ memory'.settledPolls < NBlocked
                      /\ memory'.verified => /\ memory'.accepted.state = "idle"
                                             /\ row'.source = "event"
                                             /\ row'.finishedAt = memory'.accepted.ts
    BY DEF EvidenceOpen, Stands
  <1>1. /\ m \in Memory /\ m # Forgotten /\ Stands(m) /\ memory'.accepted = m.accepted
        /\ memory' \in Memory /\ agent # "none"
    BY PollOutcome, PollFacts
  <1>2. /\ ~ m.verified => m.windowPolls < NIdle
        /\ m.settledPolls < NBlocked
    BY <1>1, PollFacts
  <1>3. m.verified => m.accepted.state = "idle"
    BY <1>1, PollFacts DEF IInv, EvidenceOpen
  <1>4. InForce(m, now) \/ memory' = m
    BY PollOutcome
  <1>5. InForce(m, now) => row'.source = "event" /\ row' = Reported(memory')
    BY PollOutcome
  <1>6. m.verified => InForce(m, now)
    BY <1>1, <1>3 DEF InForce, Stands
  <1>7. InForce(m, now) /\ memory'.verified /\ memory'.accepted.state = "idle" =>
            row'.finishedAt = memory'.accepted.ts
    <2>1. TypeOK
      BY DEF IInv
    <2> QED BY <1>1, <1>5, <2>1, ReportedFacts
  <1>8. CASE memory' = m
    BY <1>1, <1>2, <1>3, <1>5, <1>6, <1>7, <1>8
  <1>9. CASE memory' # m
    <2>1. /\ InForce(m, now) /\ NeedsScreen(m)
          /\ \/ /\ m.accepted.state = "idle"
                /\ memory' = Corroborate(m, Verdict(entry') = "idle")
             \/ /\ m.accepted.state = "blocked"
                /\ memory' = CorroborateBlocked(m, Changed(EntryKept(lost), pic), pic.form)
      BY <1>1, <1>9, PollOutcome
    <2>2. CASE m.accepted.state = "idle" /\ memory' = Corroborate(m, Verdict(entry') = "idle")
      <3>1. ~ m.verified
        BY <2>1, <2>2 DEF NeedsScreen
      <3>2. (Verdict(entry') = "idle") \in BOOLEAN
        OBVIOUS
      <3>3. /\ memory'.settledPolls = m.settledPolls
            /\ (Verdict(entry') = "idle") \/ memory'.windowPolls < NIdle
            /\ (Verdict(entry') = "idle") => memory'.verified
        BY <1>1, <1>2, <2>2, <3>1, <3>2, CorroborateFacts
      <3> QED BY <1>1, <1>2, <1>5, <1>7, <2>1, <2>2, <3>3
    <2>3. CASE /\ m.accepted.state = "blocked"
               /\ memory' = CorroborateBlocked(m, Changed(EntryKept(lost), pic), pic.form)
      <3>1. Changed(EntryKept(lost), pic) \in BOOLEAN /\ pic.form \in BOOLEAN
        BY DEF Changed, IInv, TypeOK, Picture
      <3>2. /\ memory'.verified = m.verified /\ memory'.windowPolls = m.windowPolls
            /\ memory'.settledPolls < NBlocked
        BY <1>1, <1>2, <2>3, <3>1, CorroborateBlockedFacts
      <3> QED BY <1>1, <1>2, <1>3, <2>3, <3>2
    <2> QED BY <2>1, <2>2, <2>3
  <1> QED BY <1>8, <1>9

LEMMA PollKeepsMemory ==
    ASSUME IInv, NEW lost \in Losses, Poll(lost)
    PROVE  RowIsRemembered'
  <1> DEFINE m == Recalled(lost)
  <1>1. Witness(lost, m)
    BY DEF Poll
  <1>2. /\ m \in Memory \cup {Forgotten}
        /\ m # Forgotten =>
             /\ Raw(lost) \in Report
             /\ \/ /\ m.accepted = Raw(lost) /\ Stands(m)
                   /\ MemoryKept(lost) = Forgotten \/ Raw(lost).ts > MemoryKept(lost).accepted.ts
                \/ /\ m = memory /\ MemoryKept(lost) = memory
                   /\ Raw(lost).ts <= m.accepted.ts
        /\ MemoryKept(lost) \in {memory, Forgotten}
    BY PollFacts
  <1>3. /\ memory' \in Memory \cup {Forgotten}
        /\ agent = "none" => memory' = Forgotten
        /\ agent # "none" /\ m = Forgotten => memory' = Forgotten
        /\ agent # "none" /\ m # Forgotten => memory' # Forgotten /\ memory'.accepted = m.accepted
        /\ memory' # Forgotten /\ Stands(memory') => Stands(m)
        /\ memory' # Forgotten /\ ~ InForce(m, now) => memory' = m
        /\ row'.source = "event" => memory' # Forgotten /\ Stands(memory') /\ row' = Reported(memory')
    BY PollOutcome
  <1>4. row'.source = "event" => row'.ts = memory'.accepted.ts
    <2>1. TypeOK
      BY DEF IInv
    <2> QED BY <1>3, <2>1, ReportedFacts
  <1> SUFFICES ASSUME memory' # Forgotten
               PROVE  /\ memory'.accepted.ts = newest'
                      /\ condemned' <= newest'
                      /\ Stands(memory') => condemned' < newest'
    BY <1>3, <1>4 DEF RowIsRemembered, Stands
  <1>5. /\ agent # "none" /\ m \in Memory /\ m # Forgotten /\ Raw(lost) \in Report
        /\ memory'.accepted = m.accepted
    BY <1>2, <1>3
  <1>6. /\ m.accepted.ts \in Nat \ {0} /\ Raw(lost).ts \in Nat \ {0}
        /\ newest \in Nat /\ condemned \in Nat
    BY <1>5 DEF Memory, Report, IInv, TypeOK
  <1>7. /\ newest' = IF MemoryKept(lost) = Forgotten \/ Raw(lost).ts > newest
                       THEN Raw(lost).ts ELSE newest
        /\ condemned' = IF InForce(m, now) /\ ~ Stands(memory') THEN m.accepted.ts
                         ELSE IF MemoryKept(lost) = Forgotten THEN 0 ELSE condemned
    <2>1. /\ fell' = (InForce(m, now) /\ ~ Stands(memory'))
          /\ condemned' = IF fell' THEN m.accepted.ts
                           ELSE IF MemoryKept(lost) = Forgotten THEN 0 ELSE condemned
          /\ newest' = IF MemoryKept(lost) = Forgotten \/ Raw(lost).ts > newest
                         THEN Raw(lost).ts ELSE newest
      BY <1>1, <1>5 DEF Witness
    <2> QED BY <2>1
  <1>8. MemoryKept(lost) # Forgotten =>
          /\ memory # Forgotten /\ MemoryKept(lost) = memory
          /\ memory.accepted.ts = newest /\ condemned <= newest
          /\ Stands(memory) => condemned < newest
    BY <1>2 DEF IInv, RowIsRemembered
  <1>9. m.accepted.ts = newest'
    BY <1>2, <1>5, <1>6, <1>7, <1>8
  <1>10. condemned' <= newest'
    BY <1>2, <1>5, <1>6, <1>7, <1>8, <1>9
  <1>11. Stands(memory') => condemned' < newest'
    <2>1. Stands(memory') => Stands(m)
      BY <1>3
    <2> QED BY <1>2, <1>5, <1>6, <1>7, <1>8, <1>9, <2>1
  <1> QED BY <1>5, <1>9, <1>10, <1>11

LEMMA PollKeepsSilence ==
    ASSUME IInv, NEW lost \in Losses, Poll(lost)
    PROVE  SilenceCounted'
  <1> DEFINE m == Recalled(lost)
  <1>1. Witness(lost, m)
    BY DEF Poll
  <1> SUFFICES ASSUME silent' # 0
               PROVE  /\ memory' # Forgotten /\ Stands(memory')
                      /\ silent' <= memory'.settledPolls
    BY DEF SilenceCounted, Stands
  <1>2. row'.source = "event" /\ row'.state = "blocked" /\ ~ (Captured(lost, m) /\ pic.form)
    BY <1>1 DEF Witness
  <1>3. /\ memory' # Forgotten /\ Stands(memory') /\ InForce(m, now)
        /\ memory' \in Memory \cup {Forgotten}
        /\ row' = Reported(memory')
        /\ agent # "none" /\ m # Forgotten
        /\ memory'.accepted = m.accepted
    BY <1>2, PollOutcome
  <1>4. m.accepted.state = "blocked"
    <2>1. TypeOK
      BY DEF IInv
    <2> QED BY <1>2, <1>3, <2>1, ReportedFacts
  <1>5. /\ m \in Memory /\ Stands(m)
        /\ m.settledPolls \in Nat /\ silent \in Nat
        /\ m.settledPolls < NBlocked
        /\ \/ /\ m.accepted = Raw(lost) /\ Raw(lost) \in Report
              /\ MemoryKept(lost) = Forgotten \/ Raw(lost).ts > MemoryKept(lost).accepted.ts
           \/ m = memory /\ MemoryKept(lost) = memory
    <2>1. Stands(m)
      BY <1>3, PollOutcome
    <2>2. m \in Memory
      BY <1>3, PollFacts
    <2>3. m.settledPolls \in Nat /\ silent \in Nat
      BY <2>2 DEF Memory, IInv, TypeOK
    <2> QED BY <1>3, <2>1, <2>2, <2>3, PollFacts
  <1> DEFINE same == MemoryKept(lost) # Forgotten /\ MemoryKept(lost).accepted = m.accepted
  <1>6. silent' = (IF same THEN silent ELSE 0) + (IF Captured(lost, m) THEN 1 ELSE 0)
    BY <1>1, <1>2 DEF Witness
  <1>7. (IF same THEN silent ELSE 0) <= m.settledPolls
    <2>1. CASE ~ same
      BY <1>5, <2>1
    <2>2. CASE same
      <3>1. m = memory
        <4>1. MemoryKept(lost) \in {memory, Forgotten}
          BY PollFacts
        <4>2. memory \in Memory
          BY <2>2, <4>1 DEF IInv, TypeOK
        <4> QED BY <1>5, <2>2, <4>1, <4>2 DEF Memory, Report
      <3>2. silent = 0 \/ silent <= memory.settledPolls
        BY DEF IInv, SilenceCounted
      <3> QED BY <1>5, <2>2, <3>1, <3>2
    <2> QED BY <2>1, <2>2
  <1>8. CASE ~ Captured(lost, m)
    <2>1. memory' = m
      BY <1>3, <1>8, PollOutcome
    <2> HIDE DEF same
    <2>2. silent' <= m.settledPolls
      BY <1>5, <1>6, <1>7, <1>8
    <2> QED BY <1>3, <2>1, <2>2
  <1>9. CASE Captured(lost, m)
    <2>1. /\ Changed(EntryKept(lost), pic) \in BOOLEAN /\ pic.form \in BOOLEAN
          /\ ~ pic.form
      BY <1>2, <1>9 DEF Changed, IInv, TypeOK, Picture
    <2>2. memory' = CorroborateBlocked(m, Changed(EntryKept(lost), pic), pic.form)
      BY <1>3, <1>4, <1>9, PollChecksBlocked
    <2>3. memory'.settledPolls = m.settledPolls + 1
      BY <1>3, <1>5, <2>1, <2>2, CorroborateBlockedFacts
    <2> HIDE DEF same
    <2>4. silent' <= m.settledPolls + 1
      BY <1>5, <1>6, <1>7, <1>9
    <2> QED BY <1>3, <2>3, <2>4
  <1> QED BY <1>8, <1>9

LEMMA PollKeepsEntry ==
    ASSUME IInv, NEW lost \in Losses, Poll(lost)
    PROVE  EntryIsWatched'
  <1> DEFINE m == Recalled(lost)
             e == EntryKept(lost)
  <1>1. Witness(lost, m) /\ pic' = pic
    BY DEF Poll
  <1> SUFFICES ASSUME entry' # Unseen
               PROVE  /\ watched'
                      /\ entry'.everChanged => churned'
                      /\ IF drawn' THEN entry'.hash.image # pic'.image ELSE entry'.hash = pic'
                      /\ entry'.still <= calm' \/ paced' <= calm'
    BY DEF EntryIsWatched
  <1>2. Captured(lost, m)
    BY PollOutcome
  <1>3. PICK blocked \in BOOLEAN : entry' = ObserveScreen(e, pic, now, blocked)
    BY PollOutcome
  <1>4. /\ e \in Entry \cup {Unseen}
        /\ e # Unseen => e = entry /\ ~ Restarted(lost)
        /\ pic \in Picture /\ now \in Nat /\ calm \in 0 .. SettleAfter /\ paced \in 0 .. SettleAfter
        /\ drawn \in BOOLEAN /\ rested \in BOOLEAN
    BY PollFacts DEF IInv, TypeOK, Time
  <1>5. /\ entry' \in Entry
        /\ entry'.hash = pic
        /\ e = Unseen => entry'.still = 0 /\ ~ entry'.everChanged
        /\ e # Unseen /\ e.hash # pic => entry'.still = 0 /\ entry'.everChanged
        /\ e # Unseen /\ e.hash = pic =>
               /\ entry'.still = IF e.still = Beyond THEN Beyond ELSE e.still + 1
               /\ entry'.everChanged = e.everChanged
    <2> DEFINE c == ObserveScreen(e, pic, now, blocked)
    <2>3. /\ e \in Entry \cup {Unseen} /\ pic \in Picture /\ now \in Nat /\ blocked \in BOOLEAN
      BY <1>4
    <2>4. c = ObserveScreen(e, pic, now, blocked)
      OBVIOUS
    <2> HIDE DEF e, c
    <2>1. /\ c \in Entry /\ c.hash = pic
          /\ e = Unseen => c.still = 0 /\ ~ c.everChanged
          /\ e # Unseen /\ e.hash # pic => c.still = 0 /\ c.everChanged
          /\ e # Unseen /\ e.hash = pic =>
                 /\ c.still = IF e.still = Beyond THEN Beyond ELSE e.still + 1
                 /\ c.everChanged = e.everChanged
      BY <2>3, <2>4, ObserveScreenFacts
    <2>2. entry' = c
      BY <1>3, <2>4
    <2> QED BY <2>1, <2>2
  <1> HIDE DEF e
  <1>6. /\ calm' = IF ~ rested THEN 0 ELSE IF calm = SettleAfter THEN calm ELSE calm + 1
        /\ paced' = IF since # "whole" THEN 0 ELSE IF paced = SettleAfter THEN paced ELSE paced + 1
        /\ ~ drawn'
        /\ watched'
        /\ watched /\ ~ Restarted(lost) /\ (churned \/ drawn) => churned'
    BY <1>1, <1>2 DEF Witness
  <1>7. e # Unseen =>
          /\ watched /\ ~ Restarted(lost)
          /\ e.everChanged => churned
          /\ IF drawn THEN e.hash # pic ELSE e.hash = pic
          /\ e.still <= calm \/ paced <= calm
    BY <1>4 DEF IInv, EntryIsWatched
  <1>8. calm' \in Nat /\ paced' \in Nat
    BY PollKeepsType DEF TypeOK
  <1>9. entry'.everChanged => churned'
    BY <1>5, <1>6, <1>7
  <1>10. entry'.still <= calm' \/ paced' <= calm'
    <2>1. CASE e = Unseen \/ e.hash # pic
      BY <1>5, <1>8, <2>1, SettleAssumption
    <2>2. CASE ~ rested /\ e # Unseen /\ e.hash = pic
      <3>1. ~ drawn /\ since # "whole"
        BY <1>4, <1>7, <2>2 DEF IInv, WorkIsDrawn
      <3> QED BY <1>6, <1>8, <3>1
    <2>3. CASE rested /\ e # Unseen /\ e.hash = pic
      <3>1. e.still \in 0 .. Beyond
        BY <1>4, <2>3 DEF Entry
      <3>2. entry'.still = IF e.still = Beyond THEN Beyond ELSE e.still + 1
        BY <1>5, <2>3
      <3>3. calm' = IF calm = SettleAfter THEN calm ELSE calm + 1
        BY <1>6, <2>3
      <3>4. paced' <= paced + 1 /\ paced' <= SettleAfter
        BY <1>4, <1>6, SettleAssumption
      <3>5. e.still <= calm \/ paced <= calm
        BY <1>7, <2>3
      <3> QED BY <1>4, <1>8, <3>1, <3>2, <3>3, <3>4, <3>5, SettleAssumption DEF Beyond
    <2> QED BY <2>1, <2>2, <2>3
  <1> QED BY <1>1, <1>5, <1>6, <1>9, <1>10

\* After a poll, whoever does not work has paused, and no interval has passed.
LEMMA PollKeepsWork ==
    ASSUME NEW lost \in Losses, Poll(lost)
    PROVE  WorkIsDrawn'
  <1>1. agent' = agent /\ rested' = (agent # "busy") /\ since' # "whole"
    BY DEF Poll, Witness
  <1> QED BY <1>1 DEF WorkIsDrawn

LEMMA PollKeepsDialog ==
    ASSUME IInv, NEW lost \in Losses, Poll(lost)
    PROVE  DialogIsShown'
  <1> DEFINE m == Recalled(lost)
  <1>1. Witness(lost, m) /\ pic' = pic
    BY DEF Poll
  <1> SUFFICES ASSUME watched', pic.form, row'.state # "blocked"
               PROVE  memory' # Forgotten /\ memory'.accepted.state = "idle" /\ (fell' \/ Stands(memory'))
    BY <1>1 DEF DialogIsShown, Stands
  <1>2. Captured(lost, m) /\ agent # "none"
    BY <1>1 DEF Witness, Captured
  <1>3. Checked(lost, m) \/ Classified(lost, m)
    BY <1>2 DEF Poll, Decide, NoAgent, Trusted, Unknown
  <1>4. pic.form \in BOOLEAN
    BY DEF IInv, TypeOK, Picture
  <1>5. ~ Classified(lost, m)
    <2> SUFFICES ASSUME Classified(lost, m) PROVE FALSE
      OBVIOUS
    <2>1. row' = Screened(entry', pic.form)
      BY DEF Classified
    <2> QED BY <2>1 DEF Screened
  <1>6. InForce(m, now) /\ NeedsScreen(m)
    BY <1>2, <1>3, <1>5 DEF Checked, Captured
  <1>7. /\ memory' # Forgotten /\ memory' \in Memory /\ memory'.accepted = m.accepted
        /\ m # Forgotten
        /\ row'.source = "event" <=> Stands(memory')
        /\ row'.source = "event" => row' = Reported(memory')
    <2>1. m # Forgotten
      BY <1>6 DEF InForce
    <2> QED BY <1>2, <1>6, <2>1, PollOutcome
  <1>8. m.accepted.state # "blocked"
    <2> SUFFICES ASSUME m.accepted.state = "blocked" PROVE FALSE
      OBVIOUS
    <2> DEFINE asks == m.accepted.state = "blocked" /\ pic.form
               e == ObserveScreen(EntryKept(lost), pic, now, asks)
               judged == IF m.accepted.state = "blocked"
                           THEN CorroborateBlocked(m, Changed(EntryKept(lost), pic), pic.form)
                           ELSE Corroborate(m, Verdict(e) = "idle")
    <2>1. /\ row' = (IF Stands(judged) THEN Reported(judged) ELSE Screened(e, asks))
          /\ memory' = judged
      BY <1>3, <1>5 DEF Checked
    <2>2. asks
      OBVIOUS
    <2> HIDE DEF asks, e, judged
    <2>3. CASE Stands(judged)
      BY <1>7, <2>1, <2>3 DEF Reported
    <2>4. CASE ~ Stands(judged)
      BY <2>1, <2>2, <2>4 DEF Screened
    <2> QED BY <2>3, <2>4
  <1>9. m.accepted.state = "idle"
    BY <1>6, <1>8 DEF NeedsScreen
  <1>10. fell' \/ Stands(memory')
    BY <1>1, <1>2, <1>6, <1>7 DEF Witness
  <1> QED BY <1>7, <1>9, <1>10

-----------------------------------------------------------------------------
(* The steps around the polls.                                             *)

LEMMA InitEstablishes ==
    ASSUME Init
    PROVE  IInv
  <1>1. pic \in Picture /\ pic.form = FALSE
    BY DEF Init, Picture
  <1>2. 1 \in Time /\ 0 \in 0 .. MaxReports /\ 0 \in 0 .. MaxUpsets /\ 0 \in 0 .. SettleAfter
    BY ConstantsAssumption, SettleAssumption DEF Time
  <1>3. Blank \in Row
    BY DEF Blank, Row
  <1>4. TypeOK
    BY <1>1, <1>2, <1>3 DEF Init, TypeOK, Since
  <1>5. EvidenceOpen /\ RowIsRemembered /\ SilenceCounted /\ EntryIsWatched /\ WorkIsDrawn /\ DialogIsShown
    BY DEF Init, EvidenceOpen, RowIsRemembered, SilenceCounted, EntryIsWatched, WorkIsDrawn, DialogIsShown,
           Blank
  <1> QED BY <1>4, <1>5 DEF IInv

\* A step that touches neither the poller nor the screen keeps all but types.
LEMMA FrameFacts ==
    ASSUME IInv, UNCHANGED <<pollVars, watchVars, pic, drawn>>
    PROVE  /\ EvidenceOpen' /\ RowIsRemembered' /\ SilenceCounted'
           /\ EntryIsWatched' /\ DialogIsShown'
  BY DEF IInv, EvidenceOpen, RowIsRemembered, SilenceCounted, EntryIsWatched, DialogIsShown,
         Stands, pollVars, watchVars

\* What an upset leaves of its bound.
LEMMA UpsetFacts ==
    ASSUME TypeOK, NEW n \in 0 .. 1, Upset(n)
    PROVE  upsets' \in 0 .. MaxUpsets
  BY ConstantsAssumption DEF TypeOK, Upset

\* What the ticker leaves of its bounds.
LEMMA TickFacts ==
    ASSUME TypeOK, Tick
    PROVE  /\ now' \in Time /\ upsets' \in 0 .. MaxUpsets
           /\ since' \in {"part", "whole"} /\ (since' = "whole" => since # "mid")
           /\ stamped' = FALSE
  <1>1. now' \in Time
    BY ConstantsAssumption DEF Tick, TypeOK, Time
  <1>2. (IF Due THEN 1 ELSE 0) \in 0 .. 1 /\ Upset(IF Due THEN 1 ELSE 0)
    BY DEF Tick
  <1>3. upsets' \in 0 .. MaxUpsets
    BY <1>2, UpsetFacts
  <1> QED BY <1>1, <1>3 DEF Tick

LEMMA RepaintKeeps ==
    ASSUME IInv, NEW image \in Image, NEW form \in BOOLEAN, Repaint(image, form)
    PROVE  IInv'
  <1>1. TypeOK /\ pic \in Picture /\ drawn \in BOOLEAN
    BY DEF IInv, TypeOK
  <1>2. pic' \in Picture /\ pic'.image = image /\ drawn' = TRUE /\ (drawn <=> image = pic.image)
    BY DEF Repaint, Picture
  <1>3. UNCHANGED <<now, agent, option, unwritten, birth, births, connected, since, stamped, issued, pollVars,
                    upsets, rested, watchVars>>
    BY DEF Repaint
  <1>4. TypeOK'
    BY <1>1, <1>2, <1>3 DEF TypeOK, pollVars, watchVars
  <1>5. EvidenceOpen' /\ RowIsRemembered' /\ SilenceCounted'
    BY <1>3 DEF IInv, EvidenceOpen, RowIsRemembered, SilenceCounted, Stands, pollVars, watchVars
  <1>6. EntryIsWatched'
    BY <1>1, <1>2, <1>3 DEF IInv, EntryIsWatched, pollVars, watchVars
  <1>7. WorkIsDrawn' /\ DialogIsShown'
    BY <1>2, <1>3 DEF IInv, WorkIsDrawn, DialogIsShown
  <1> QED BY <1>4, <1>5, <1>6, <1>7 DEF IInv

LEMMA IntervalKeeps ==
    ASSUME IInv, NEW what \in {"busy", "still"}, Interval(what)
    PROVE  IInv'
  <1>1. TypeOK
    BY DEF IInv
  <1>2. /\ now' \in Time /\ upsets' \in 0 .. MaxUpsets
        /\ since' \in {"part", "whole"} /\ (since' = "whole" => since # "mid")
        /\ stamped' = FALSE
    BY <1>1, TickFacts DEF Interval
  <1>3. /\ what = "busy" /\ since # "mid" => drawn
        /\ agent' = what /\ rested' = (rested \/ what = "still")
        /\ UNCHANGED <<pic, option, unwritten, birth, births, connected, issued, pollVars, drawn, watchVars>>
    BY DEF Interval
  <1>4. TypeOK'
    BY <1>1, <1>2, <1>3 DEF TypeOK, Since, pollVars, watchVars
  <1>5. WorkIsDrawn'
    BY <1>1, <1>2, <1>3 DEF WorkIsDrawn, TypeOK
  <1> QED BY <1>3, <1>4, <1>5, FrameFacts DEF IInv

\* Time over an empty pane, the agent coming and going, its option, the
\* browsers and the tmux server: nothing the poller remembers is touched.
LEMMA WorldKeeps ==
    ASSUME IInv,
           \/ Idle \/ Exit \/ Launch \/ Unset
           \/ \E state \in States : Stamp(state)
           \/ \E rep \in unwritten : Land(rep)
           \/ Connect \/ Disconnect \/ TmuxExits \/ TmuxStarts
    PROVE  IInv'
  <1>1. TypeOK
    BY DEF IInv
  <1>2. ASSUME UNCHANGED <<pollVars, watchVars, pic, drawn>>, TypeOK'
        PROVE  IInv'
    <2>1. rested \in BOOLEAN /\ drawn \in BOOLEAN /\ drawn' = drawn /\ rested' \in BOOLEAN
          /\ (agent # "busy" => rested) /\ (since = "whole" => rested \/ drawn)
      BY <1>1, <1>2 DEF IInv, TypeOK, WorkIsDrawn
    <2>2. \/ rested'
          \/ rested' = rested /\ agent' = agent /\ since' = since
      <3>1. CASE Idle
        BY <2>1, <3>1 DEF Idle
      <3>2. CASE Exit \/ Launch \/ Unset \/ Connect \/ Disconnect \/ TmuxExits \/ TmuxStarts
        BY <3>2 DEF Exit, Launch, Become, Unset, Channel, Connect, Disconnect, TmuxExits, TmuxStarts
      <3>3. ASSUME NEW state \in States, Stamp(state)
            PROVE  rested' = rested /\ agent' = agent /\ since' = since
        BY <3>3 DEF Stamp, Channel
      <3>4. ASSUME NEW rep \in unwritten, Land(rep)
            PROVE  rested' = rested /\ agent' = agent /\ since' = since
        BY <3>4 DEF Land, Channel
      <3> QED BY <3>1, <3>2, <3>3, <3>4
    <2>3. WorkIsDrawn'
      BY <2>1, <2>2 DEF WorkIsDrawn
    <2> QED BY <1>2, <2>3, FrameFacts DEF IInv
  <1>3. 0 \in 0 .. 1 /\ 1 \in 0 .. 1
    OBVIOUS
  <1>4. CASE Idle
    <2>1. now' \in Time /\ upsets' \in 0 .. MaxUpsets /\ since' \in Since /\ stamped' = FALSE
      BY <1>1, <1>4, TickFacts DEF Idle, Since
    <2>2. /\ agent = "none"
          /\ UNCHANGED <<agent, pic, option, unwritten, birth, births, connected, issued>>
          /\ UNCHANGED <<pollVars, drawn, rested, watchVars>>
      BY <1>4 DEF Idle
    <2> QED BY <1>1, <1>2, <2>1, <2>2 DEF TypeOK, pollVars, watchVars
  <1>5. CASE Exit
    <2>1. upsets' \in 0 .. MaxUpsets
      BY <1>1, <1>3, <1>5, UpsetFacts DEF Exit
    <2> QED BY <1>1, <1>2, <1>5, <2>1 DEF Exit, Become, TypeOK, pollVars, watchVars
  <1>6. CASE Launch
    BY <1>1, <1>2, <1>6 DEF Launch, Become, TypeOK, pollVars, watchVars
  <1>7. CASE Unset
    <2>1. upsets' \in 0 .. MaxUpsets
      BY <1>1, <1>3, <1>7, UpsetFacts DEF Unset
    <2> QED BY <1>1, <1>2, <1>7, <2>1 DEF Unset, Channel, TypeOK, pollVars, watchVars
  <1>8. ASSUME NEW state \in States, Stamp(state)
        PROVE  IInv'
    <2>1. issued' \in 0 .. MaxReports
      BY <1>1, <1>8, ConstantsAssumption DEF Stamp, TypeOK
    <2>2. unwritten' \in SUBSET Report
      <3>1. [state |-> state, ts |-> now] \in Report
        BY <1>1, <1>8 DEF TypeOK, Time, Report
      <3> QED BY <1>1, <1>8, <3>1 DEF Stamp, Channel, TypeOK
    <2> QED BY <1>1, <1>2, <1>8, <2>1, <2>2 DEF Stamp, Channel, TypeOK, pollVars, watchVars
  <1>9. ASSUME NEW rep \in unwritten, Land(rep)
        PROVE  IInv'
    <2>1. option' \in Report \cup {NoReport} /\ unwritten' \in SUBSET Report
      BY <1>1, <1>9 DEF Land, Channel, TypeOK
    <2> QED BY <1>1, <1>2, <1>9, <2>1 DEF Land, Channel, TypeOK, pollVars, watchVars
  <1>10. CASE Connect
    BY <1>1, <1>2, <1>10 DEF Connect, TypeOK, pollVars, watchVars
  <1>11. CASE Disconnect
    <2>1. upsets' \in 0 .. MaxUpsets
      BY <1>1, <1>3, <1>11, UpsetFacts DEF Disconnect
    <2>2. connected' \in BOOLEAN
      BY <1>11 DEF Disconnect
    <2>3. /\ UNCHANGED <<now, agent, pic, option, unwritten, birth, births, since, stamped, issued>>
          /\ UNCHANGED <<pollVars, drawn, rested, watchVars>>
      BY <1>11 DEF Disconnect
    <2>4. TypeOK'
      BY <1>1, <2>1, <2>2, <2>3 DEF TypeOK, pollVars, watchVars
    <2> QED BY <1>2, <2>3, <2>4
  <1>12. CASE TmuxExits
    <2>1. upsets' \in 0 .. MaxUpsets
      BY <1>1, <1>3, <1>12, UpsetFacts DEF TmuxExits
    <2> QED BY <1>1, <1>2, <1>12, <2>1 DEF TmuxExits, TypeOK, pollVars, watchVars
  <1>13. CASE TmuxStarts
    BY <1>1, <1>2, <1>13 DEF TmuxStarts, TypeOK, pollVars, watchVars
  <1> QED BY <1>4, <1>5, <1>6, <1>7, <1>8, <1>9, <1>10, <1>11, <1>12, <1>13

LEMMA RestartKeeps ==
    ASSUME IInv, DaemonRestarts
    PROVE  IInv'
  <1>1. upsets' \in 0 .. MaxUpsets
    BY UpsetFacts DEF DaemonRestarts, IInv
  <1>2. TypeOK'
    <2>1. /\ since' \in Since /\ paced' \in 0 .. SettleAfter
          /\ start' \in Nat /\ row' \in Row /\ newest' \in Nat /\ condemned' \in Nat /\ silent' \in Nat
      <3>1. Blank \in Row /\ 0 \in 0 .. SettleAfter
        BY SettleAssumption DEF Blank, Row
      <3>2. /\ since' = "part" /\ paced' = 0 /\ start' = 0 /\ row' = Blank
            /\ newest' = 0 /\ condemned' = 0 /\ silent' = 0
        BY DEF DaemonRestarts
      <3> QED BY <3>1, <3>2 DEF Since
    <2>2. /\ entry' = Unseen /\ memory' = Forgotten
          /\ watched' = FALSE /\ churned' = FALSE /\ fell' = FALSE
          /\ UNCHANGED <<now, agent, pic, option, unwritten, birth, births, connected, stamped, issued>>
          /\ UNCHANGED <<drawn, rested, calm>>
      BY DEF DaemonRestarts
    <2> QED BY <1>1, <2>1, <2>2 DEF IInv, TypeOK
  <1>3. EvidenceOpen' /\ RowIsRemembered' /\ SilenceCounted' /\ EntryIsWatched' /\ DialogIsShown'
    BY DEF DaemonRestarts, EvidenceOpen, RowIsRemembered, SilenceCounted, EntryIsWatched,
           DialogIsShown, Blank
  <1>4. WorkIsDrawn'
    BY DEF IInv, DaemonRestarts, WorkIsDrawn
  <1> QED BY <1>2, <1>3, <1>4 DEF IInv

LEMMA PollKeeps ==
    ASSUME IInv, NEW lost \in Losses, Poll(lost)
    PROVE  IInv'
  BY PollKeepsType, PollKeepsEvidence, PollKeepsMemory, PollKeepsSilence, PollKeepsEntry,
     PollKeepsWork, PollKeepsDialog DEF IInv

LEMMA NextKeeps ==
    ASSUME IInv, [Next]_vars
    PROVE  IInv'
  <1>1. CASE Next
    BY <1>1, RepaintKeeps, IntervalKeeps, WorldKeeps, RestartKeeps, PollKeeps DEF Next
  <1>2. CASE UNCHANGED vars
    <2>1. TypeOK'
      BY <1>2 DEF IInv, TypeOK, vars, worldVars, pollVars, watchVars
    <2>2. WorkIsDrawn'
      BY <1>2 DEF IInv, WorkIsDrawn, vars, worldVars
    <2> QED BY <1>2, <2>1, <2>2, FrameFacts DEF IInv, vars, worldVars
  <1> QED BY <1>1, <1>2

\* Only a poll or a restart of the daemon changes what the poller remembers.
LEMMA StepFacts ==
    ASSUME [Next]_vars
    PROVE  \/ \E lost \in Losses : Poll(lost)
           \/ row' = Blank /\ entry' = Unseen
           \/ row' = row /\ entry' = entry
  <1>1. CASE Next
    <2>1. ASSUME \/ \E image \in Image, form \in BOOLEAN : Repaint(image, form)
                 \/ \E what \in {"busy", "still"} : Interval(what)
          PROVE  row' = row /\ entry' = entry
      BY <2>1 DEF Repaint, Interval, pollVars
    <2>2. CASE Idle \/ Exit \/ Launch
      BY <2>2 DEF Idle, Exit, Launch, Become, pollVars
    <2>3. ASSUME NEW state \in States, Stamp(state)
          PROVE  row' = row /\ entry' = entry
      BY <2>3 DEF Stamp, Channel, pollVars
    <2>4. ASSUME NEW rep \in unwritten, Land(rep)
          PROVE  row' = row /\ entry' = entry
      BY <2>4 DEF Land, Channel, pollVars
    <2>5. CASE Unset \/ Connect \/ Disconnect \/ TmuxExits \/ TmuxStarts
      BY <2>5 DEF Unset, Channel, Connect, Disconnect, TmuxExits, TmuxStarts, pollVars
    <2>6. CASE DaemonRestarts
      BY <2>6 DEF DaemonRestarts
    <2> QED BY <1>1, <2>1, <2>2, <2>3, <2>4, <2>5, <2>6 DEF Next
  <1>2. CASE UNCHANGED vars
    BY <1>2 DEF vars, pollVars
  <1> QED BY <1>1, <1>2

-----------------------------------------------------------------------------
(* The theorems.                                                           *)

\* The inductive invariant holds in every state the poller and its world reach.
THEOREM Invariance == Spec => []IInv
  <1>1. Init => IInv
    BY InitEstablishes
  <1>2. IInv /\ [Next]_vars => IInv'
    BY NextKeeps
  <1> QED BY <1>1, <1>2, PTL DEF Spec

\* Type correctness: among others, the evidence counters stay in their windows.
THEOREM TypeCorrect == Spec => []TypeOK
  <1>1. IInv => TypeOK
    BY DEF IInv
  <1> QED BY <1>1, Invariance, PTL

\* A report that decides the row is the newest one read and newer than every one
\* the evidence has overturned (the ordering filter and the rejection memory of
\* Reports.Observe).
THEOREM NewestDecides == Spec => []EventsAreCurrent
  <1>1. IInv => EventsAreCurrent
    BY DEF IInv, RowIsRemembered, EventsAreCurrent
  <1> QED BY <1>1, Invariance, PTL

\* A reported blocked ends after NBlocked captures without a form, whatever
\* happens between them (rule 2 of Reports.CorroborateBlocked).
THEOREM BlockedEnds == Spec => []SilentBlockEnds
  <1>1. IInv => SilentBlockEnds
    <2> SUFFICES ASSUME IInv PROVE silent < NBlocked
      BY DEF SilentBlockEnds
    <2>1. CASE silent = 0
      BY <2>1, WindowAssumption
    <2>2. CASE silent # 0
      <3>1. memory \in Memory /\ silent \in Nat /\ silent <= memory.settledPolls
            /\ memory.settledPolls < NBlocked
        BY <2>2 DEF IInv, TypeOK, SilenceCounted, EvidenceOpen
      <3>2. memory.settledPolls \in Nat
        BY <3>1 DEF Memory
      <3> QED BY <3>1, <3>2, WindowAssumption
    <2> QED BY <2>1, <2>2
  <1> QED BY <1>1, Invariance, PTL

\* A dialog on a captured screen shows as blocked, but under a reported idle that
\* stands or falls on that capture (classify's use of the corroboration form).
THEOREM DialogsShow == Spec => []DialogIsShown
  <1>1. IInv => DialogIsShown
    BY DEF IInv
  <1> QED BY <1>1, Invariance, PTL

\* Classified stillness that reaches SettleAfter has been rested through, or one of
\* the polls since the last one without a rest came early.
LEMMA SettledNext ==
    ASSUME IInv', entry' # Unseen, entry'.still >= SettleAfter
    PROVE  paced' <= calm'
  <1>1. calm' \in 0 .. SettleAfter /\ paced' \in 0 .. SettleAfter /\ entry' \in Entry
    BY DEF IInv, TypeOK
  <1>2. entry'.still \in Nat /\ (entry'.still <= calm' \/ paced' <= calm')
    BY <1>1, SettleAssumption DEF IInv, EntryIsWatched, Entry, Beyond
  <1> QED BY <1>1, <1>2, SettleAssumption

\* A finish is stamped only at the end of a run seen to change, and for an agent that
\* has paused before each of the last SettleAfter polls, unless one of those since it
\* last worked through came less than an interval after the one before (the guards of
\* Classifier.Observe; settle in manage.go forces such polls).
THEOREM FinishEarned == Spec => FinishIsEarned
  <1>1. ASSUME IInv, IInv', [Next]_vars
        PROVE  EarnedFinish
    <2> SUFFICES ASSUME Stamps PROVE churned' /\ paced' <= calm'
      BY DEF EarnedFinish
    <2>1. PICK lost \in Losses : Poll(lost)
      BY <1>1, StepFacts DEF Stamps
    <2> DEFINE e == EntryKept(lost)
    <2>2. PICK blocked \in BOOLEAN : entry' = ObserveScreen(e, pic, now, blocked)
      BY <1>1, <2>1, PollOutcome DEF Stamps
    <2> DEFINE c == ObserveScreen(e, pic, now, blocked)
    <2>3. /\ e \in Entry \cup {Unseen}
          /\ e # Unseen => e = entry
          /\ pic \in Picture /\ now \in Nat
      BY <1>1, <2>1, PollFacts DEF IInv, TypeOK, Time
    <2> HIDE DEF e
    <2>4. /\ e = Unseen => c.finishedAt = 0
          /\ e # Unseen => \/ c.finishedAt = e.finishedAt
                           \/ c.still = SettleAfter /\ c.everChanged
      <3>1. c = ObserveScreen(e, pic, now, blocked) /\ blocked \in BOOLEAN
        OBVIOUS
      <3> HIDE DEF c
      <3> QED BY <2>3, <3>1, ObserveScreenFacts
    <2>5. entry' # Unseen /\ entry'.still = SettleAfter /\ entry'.everChanged
      BY <2>2, <2>3, <2>4 DEF Stamps
    <2>6. churned'
      BY <1>1, <2>5 DEF IInv, EntryIsWatched
    <2>7. entry'.still >= SettleAfter
      BY <2>5, SettleAssumption
    <2> QED BY <1>1, <2>5, <2>6, <2>7, SettledNext
  <1>2. [][EarnedFinish]_vars <=> FinishIsEarned
    BY DEF FinishIsEarned
  <1> QED BY <1>1, <1>2, Invariance, PTL DEF Spec

\* A report lights the done badge under a browser only for an agent that has paused
\* in the same way (rule 3 of Reports.Corroborate, with the classifier as its witness).
THEOREM BadgeEarned == Spec => BadgeIsEarned
  <1>1. ASSUME IInv, IInv', [Next]_vars
        PROVE  EarnedBadge
    <2> SUFFICES ASSUME connected, Lights PROVE paced' <= calm'
      BY DEF EarnedBadge
    <2>1. PICK lost \in Losses : Poll(lost)
      <3>1. row'.source = "event" /\ row'.finishedAt # row.finishedAt
        BY DEF Lights
      <3>2. Blank.source # "event"
        BY DEF Blank
      <3>3. row' # row /\ row' # Blank
        BY <3>1, <3>2, Zenon
      <3> QED BY <1>1, <3>3, StepFacts
    <2> DEFINE m == Recalled(lost)
    <2>2. /\ memory' \in Memory /\ row' = Reported(memory') /\ row'.finishedAt # 0
          /\ row'.finishedAt # row.finishedAt
      BY <1>1, <2>1, PollOutcome DEF Lights
    <2>3. connected' = connected
      BY <2>1 DEF Poll
    <2>4. memory'.accepted.state = "idle" /\ memory'.verified
      BY <1>1, <2>2, ReportedFacts DEF IInv
    <2>5. /\ m \in Memory \cup {Forgotten} /\ m # Forgotten /\ Stands(m)
          /\ m.accepted = memory'.accepted
          /\ memory' # m => /\ NeedsScreen(m) /\ entry' # Unseen
                            /\ memory' = Corroborate(m, Verdict(entry') = "idle")
      BY <1>1, <2>1, <2>2, <2>4, PollOutcome, PollFacts DEF Lights
    <2>6. CASE memory' = m
      <3>1. m = memory
        BY <1>1, <2>1, <2>4, <2>5, <2>6, PollFacts
      <3>2. row.finishedAt = memory.accepted.ts
        BY <1>1, <2>4, <2>5, <2>6, <3>1 DEF IInv, EvidenceOpen
      <3>3. row'.finishedAt = memory'.accepted.ts
        BY <1>1, <2>2, <2>4, ReportedFacts DEF IInv
      <3> QED BY <2>2, <2>6, <3>1, <3>2, <3>3
    <2>7. CASE memory' # m
      <3>1. ~ m.verified
        BY <2>4, <2>5, <2>7 DEF NeedsScreen
      <3>2. m.windowPolls < NIdle
        BY <1>1, <2>1, <2>5, <3>1, PollFacts
      <3>3. (Verdict(entry') = "idle") \in BOOLEAN
        OBVIOUS
      <3>4. Verdict(entry') = "idle"
        BY <2>4, <2>5, <2>7, <3>1, <3>2, <3>3, CorroborateFacts
      <3>5. ~ entry'.still < SettleAfter
        BY <3>4 DEF Verdict
      <3>6. entry' # Unseen /\ entry' \in Entry
        BY <1>1, <2>5, <2>7 DEF IInv, TypeOK
      <3>7. entry'.still >= SettleAfter
        BY <3>5, <3>6, SettleAssumption DEF Entry, Beyond
      <3> QED BY <1>1, <3>6, <3>7, SettledNext
    <2> QED BY <2>6, <2>7
  <1>2. [][EarnedBadge]_vars <=> BadgeIsEarned
    BY DEF BadgeIsEarned
  <1> QED BY <1>1, <1>2, Invariance, PTL DEF Spec

=============================================================================
