------------------------- MODULE ReportWriterProofs -------------------------
(***************************************************************************)
(* Proofs about ReportWriter, for any copies and schemas, events, deaths   *)
(* of reports and restarts of the daemon.                                  *)
(*                                                                         *)
(* OneReporter rests on the slot alone (ClaimStands).  NewestEventStands   *)
(* follows the newest event of a runtime from the queue through the one    *)
(* report at a time into the option (NewestIsAhead): reports of one queue  *)
(* stamp one after the other, so the daemon never holds a newer one than   *)
(* the option does (Newer, MemoryBehind).                                  *)
(*                                                                         *)
(* RestIsDatedOnce holds of hooks that race, too, and rests on the dates   *)
(* alone (Dated): a re-assertion is dated just after the state it found,   *)
(* which is of its own turn or an earlier one (ReadsInOrder), and so not   *)
(* after the edge that ended that turn.                                    *)
(***************************************************************************)
EXTENDS ReportWriter, TLAPS

USE CopyAssumption, WrittenAssumption DEF Queues

LEMMA InitEstablishes == Init => IInv
<1> SUFFICES ASSUME Init PROVE IInv
  OBVIOUS
<1> USE DEF Init
<1>1. TypeOK
  BY DEF TypeOK
<1>2. ClaimStands
  BY DEF ClaimStands
<1>3. OneReport /\ Newer /\ MemoryBehind /\ NewestIsAhead
  BY DEF OneReport, Newer, MemoryBehind, NewestIsAhead
<1>4. QED
  BY <1>1, <1>2, <1>3 DEF IInv

-----------------------------------------------------------------------------
(* The claim.                                                              *)

LEMMA LoadStep ==
    ASSUME IInv, NEW c \in Copy, Load(c)
    PROVE  IInv'
<1> USE DEF IInv, Load
<1>1. TypeOK'
  BY DEF TypeOK, agentVars, queueVars
<1>2. ClaimStands'
  <2>1. slot' = Claim(c) /\ loaded' = loaded \cup {c} /\ events = 0 /\ UNCHANGED events
    BY DEF agentVars
  <2>2. CASE Schema[c] >= slot.schema \/ slot.owner = Nobody
    <3>1. slot' = [schema |-> Schema[c], owner |-> c]
      BY <2>1, <2>2 DEF Claim
    <3>2. \A d \in loaded : Schema[d] <= Schema[c]
      BY <2>2 DEF ClaimStands
    <3>3. QED
      BY <2>1, <3>1, <3>2 DEF ClaimStands
  <2>3. CASE ~ (Schema[c] >= slot.schema \/ slot.owner = Nobody)
    BY <2>1, <2>3 DEF ClaimStands, Claim
  <2>4. QED
    BY <2>2, <2>3
<1>3. ASSUME Queues(agent') PROVE OneReport' /\ Newer' /\ MemoryBehind' /\ NewestIsAhead'
  <2>1. OneReport /\ Newer /\ MemoryBehind /\ reports = {} /\ events' = 0
    BY <1>3 DEF OneReport, agentVars
  <2>2. QED
    BY <2>1 DEF OneReport, Newer, MemoryBehind, NewestIsAhead, agentVars, queueVars
<1>4. QED
  BY <1>1, <1>2, <1>3

-----------------------------------------------------------------------------
(* Reports that start and end.                                             *)

\* An item that says something becomes a report that says the same, stamped after
\* everything before it.
LEMMA NewReportFacts ==
    ASSUME TypeOK, NEW item \in [mapping : Mapping \ {Ignored}, turn : Nat], NEW c \in Copy \cup {Nobody}
    PROVE  /\ NewReport(item, c) \in
                  [state : States, kind : {"edge", "reassertion", "first"}, turn : Nat, ms : Nat,
                   stamp : Nat, by : Copy \cup {Nobody}, at : {"read", "write"}]
           /\ NewReport(item, c).by = c /\ NewReport(item, c).state = item.mapping.state
           /\ NewReport(item, c).ms = now + 1 /\ NewReport(item, c).stamp = now + 1
           /\ item # NoItem
<1>1. item.mapping.state \in States /\ item.mapping.kind \in {"edge", "reassertion"} /\ item.mapping # Ignored
  BY DEF Mapping, Edge, Reassertion, Ignored
<1>2. now + 1 \in Nat
  BY DEF TypeOK
<1>3. item # NoItem
  BY <1>1 DEF NoItem
<1>4. QED
  BY <1>1, <1>2, <1>3 DEF NewReport

\* A report that is over leaves its queue to the item that waited, if there is one.
LEMMA SettleKeeps ==
    ASSUME TypeOK, ClaimStands, OneReport, NEW r \in reports, Settle(r), UNCHANGED <<slot, events, root>>
    PROVE  /\ OneReport'
           /\ queued[slot.owner] = NoItem => reports' = {} /\ now' = now /\ queued'[slot.owner] = NoItem
           /\ queued[slot.owner] # NoItem =>
                  /\ reports' = {NewReport(queued[slot.owner], slot.owner)} /\ now' = now + 1
                  /\ queued'[slot.owner] = NoItem
<1> DEFINE c == slot.owner
<1>1. r.by = c /\ c \in Copy /\ c # Nobody /\ reports = {r} /\ events # 0
  BY DEF OneReport
<1>2. CASE queued[c] = NoItem
  <2>1. reports' = {} /\ running' = [running EXCEPT ![c] = FALSE] /\ UNCHANGED <<now, queued>>
    BY <1>1, <1>2 DEF Settle
  <2>2. OneReport'
    BY <1>1, <1>2, <2>1 DEF OneReport
  <2>3. QED
    BY <1>2, <2>1, <2>2
<1>3. CASE queued[c] # NoItem
  <2> DEFINE new == NewReport(queued[c], c)
  <2>1. reports' = {new} /\ now' = now + 1 /\ queued' = [queued EXCEPT ![c] = NoItem] /\ UNCHANGED running
    BY <1>1, <1>3 DEF Settle
  <2>2. new.by = c
    BY <1>1 DEF NewReport
  <2>3. queued'[c] = NoItem
    BY <1>1, <2>1 DEF TypeOK
  <2>4. OneReport'
    <3> HIDE DEF new
    <3>1. \A d \in Copy : running'[d] <=> \E q \in reports' : q.by = d
      BY <1>1, <2>1, <2>2 DEF OneReport
    <3>2. \A d \in Copy : queued'[d] # NoItem => running'[d]
      BY <1>1, <2>1 DEF OneReport, TypeOK
    <3>3. QED
      BY <1>1, <2>1, <2>2, <3>1, <3>2 DEF OneReport
  <2>5. QED
    BY <1>3, <2>1, <2>3, <2>4
<1>4. QED
  BY <1>2, <1>3

LEMMA SettleTyped ==
    ASSUME TypeOK, NEW r \in reports, Settle(r), UNCHANGED <<agent, turn>>, option' \in Written \cup {NoReport}
    PROVE  TypeOK'
<1> DEFINE c == r.by
<1>1. CASE c = Nobody \/ queued[c] = NoItem
  BY <1>1 DEF TypeOK, Settle, queueVars
<1>2. CASE c # Nobody /\ queued[c] # NoItem
  <2>1. c \in Copy /\ queued[c] \in [mapping : Mapping \ {Ignored}, turn : Nat]
    BY <1>2 DEF TypeOK
  <2>2. /\ reports' = (reports \ {r}) \cup {NewReport(queued[c], c)} /\ now' = now + 1
        /\ queued' = [queued EXCEPT ![c] = NoItem]
    BY <1>2 DEF Settle
  <2>3. QED
    BY <2>1, <2>2, NewReportFacts DEF TypeOK
<1>3. QED
  BY <1>1, <1>2

-----------------------------------------------------------------------------
(* Events.                                                                 *)

\* What an event means, by the table.
LEMMA Meaning ==
    ASSUME TypeOK, NEW e \in DOMAIN Rules[agent], NEW m \in Rules[agent][e], m # Ignored
    PROVE  /\ m \in Mapping \ {Ignored} /\ m.state \in States /\ m.kind \in {"edge", "reassertion"}
           /\ m.kind = "reassertion" => m.state = "idle"
<1>1. m \in {Reassertion("idle")} \cup {Edge(s) : s \in States}
  BY RulesAssumption, AgentsAssumption DEF TypeOK
<1>2. QED
  BY <1>1 DEF Mapping, Edge, Reassertion, States

LEMMA EmitStep ==
    ASSUME IInv, NEW e \in DOMAIN Rules[agent], NEW m \in Rules[agent][e], Emit(m)
    PROVE  IInv'
<1> DEFINE item == [mapping |-> m, turn |-> turn']
<1>0. TypeOK /\ ClaimStands
  BY DEF IInv
<1>1. m \in Mapping \ {Ignored}
  BY <1>0, Meaning DEF Emit
<1>2. turn' \in Nat
  BY <1>0 DEF Emit, TypeOK
<1>3. item \in [mapping : Mapping \ {Ignored}, turn : Nat]
  BY <1>1, <1>2
<1>4. /\ root' = m.state /\ lost' = FALSE /\ events' = events + 1 /\ loaded = Copy
      /\ UNCHANGED <<agent, option, held, slot, loaded>>
  BY DEF Emit, claimVars
<1>5. ClaimStands'
  BY <1>0, <1>4 DEF ClaimStands
<1>6. CASE ~ Queues(agent)
  <2>1. reports' = reports \cup {NewReport(item, Nobody)} /\ now' = now + 1 /\ UNCHANGED queueVars
    BY <1>6 DEF Emit, Start
  <2>2. TypeOK'
    BY <1>0, <1>2, <1>3, <1>4, <2>1, NewReportFacts DEF TypeOK, queueVars
  <2>3. QED
    BY <1>4, <1>5, <1>6, <2>2 DEF IInv
<1>7. CASE Queues(agent)
  <2> DEFINE c == slot.owner
             new == NewReport(item, c)
  <2>1. c \in Copy /\ Push(c, item)
    BY <1>7 DEF Emit, Mine
  <2>2. OneReport /\ Newer /\ MemoryBehind /\ NewestIsAhead
    BY <1>7 DEF IInv
  <2>3. CASE running[c]
    <3>1. queued' = [queued EXCEPT ![c] = item] /\ UNCHANGED <<running, reports, now>>
      BY <2>1, <2>3 DEF Push
    <3>2. TypeOK'
      BY <1>0, <1>2, <1>3, <1>4, <2>1, <3>1 DEF TypeOK
    <3>3. OneReport'
      <4>1. reports # {} /\ events # 0
        BY <2>1, <2>2, <2>3 DEF OneReport
      <4>2. QED
        BY <1>0, <1>4, <2>1, <2>2, <2>3, <3>1, <4>1 DEF OneReport, ClaimStands, TypeOK
    <3>4. Newer' /\ MemoryBehind'
      BY <1>4, <2>2, <3>1 DEF Newer, MemoryBehind
    <3>5. NewestIsAhead'
      <4>1. queued'[slot'.owner] = item /\ item # NoItem
        BY <1>0, <1>3, <1>4, <2>1, <3>1, NewReportFacts DEF TypeOK
      <4>2. item.mapping.state = root'
        BY <1>4
      <4>3. QED
        BY <4>1, <4>2 DEF NewestIsAhead
    <3>6. QED
      BY <1>5, <3>2, <3>3, <3>4, <3>5 DEF IInv
  <2>4. CASE ~ running[c]
    <3>1. /\ running' = [running EXCEPT ![c] = TRUE] /\ UNCHANGED queued
          /\ reports' = reports \cup {new} /\ now' = now + 1
      BY <2>1, <2>4 DEF Push, Start
    <3>2. reports = {}
      BY <2>1, <2>2, <2>4 DEF OneReport
    <3>3. /\ new.by = c /\ new.state = m.state /\ new.ms = now + 1 /\ new.stamp = now + 1
      BY <1>0, <1>3, <2>1, NewReportFacts
    <3>4. TypeOK'
      BY <1>0, <1>2, <1>3, <1>4, <2>1, <3>1, NewReportFacts DEF TypeOK
    <3> HIDE DEF new
    <3>5. OneReport'
      BY <1>0, <1>4, <2>1, <2>2, <2>4, <3>1, <3>2, <3>3 DEF OneReport, ClaimStands
    <3>6. Newer' /\ MemoryBehind'
      <4>1. now \in Nat /\ (option # NoReport => option.ts \in Nat /\ option.ts <= now)
        BY <1>0, <2>2 DEF TypeOK, Newer, Written
      <4>2. QED
        BY <1>4, <2>2, <3>1, <3>2, <3>3, <4>1 DEF Newer, MemoryBehind
    <3>7. NewestIsAhead'
      <4>1. queued'[slot'.owner] = NoItem
        BY <1>4, <2>1, <2>2, <2>4, <3>1 DEF OneReport
      <4>2. QED
        BY <1>4, <3>1, <3>2, <3>3, <4>1 DEF NewestIsAhead
    <3>8. QED
      BY <1>5, <3>4, <3>5, <3>6, <3>7 DEF IInv
  <2>5. QED
    BY <2>3, <2>4
<1>8. QED
  BY <1>6, <1>7

-----------------------------------------------------------------------------
(* Report processes.                                                       *)

\* A re-assertion that finds the standing report enough is over without a word.
LEMMA SkipStep ==
    ASSUME IInv, NEW r \in reports, option # NoReport, Supersedes(option, r), Settle(r),
           UNCHANGED <<agentVars, option, held, failures, lost, claimVars>>
    PROVE  IInv'
<1>0. TypeOK /\ ClaimStands /\ UNCHANGED <<agent, root, turn, events, option, held, lost, slot, loaded>>
  BY DEF IInv, agentVars, claimVars
<1>1. TypeOK'
  BY <1>0, SettleTyped DEF TypeOK
<1>2. ClaimStands'
  BY <1>0 DEF ClaimStands
<1>3. ASSUME Queues(agent) PROVE OneReport' /\ Newer' /\ MemoryBehind' /\ NewestIsAhead'
  <2> DEFINE c == slot.owner
             new == NewReport(queued[c], c)
  <2>1. OneReport /\ Newer /\ MemoryBehind /\ NewestIsAhead
    BY <1>3 DEF IInv
  <2>2. reports = {r} /\ c \in Copy
    BY <2>1 DEF OneReport
  <2>3. MemoryBehind'
    BY <1>0, <2>1 DEF MemoryBehind
  <2>4. CASE queued[c] = NoItem
    <3>1. OneReport' /\ reports' = {} /\ now' = now /\ queued'[c] = NoItem
      BY <1>0, <2>1, <2>4, SettleKeeps
    <3>2. Newer'
      BY <1>0, <2>1, <3>1 DEF Newer
    <3>3. option.state = r.state
      BY <1>0, <2>1 DEF Newer, Supersedes, TypeOK, Written
    <3>4. NewestIsAhead'
      BY <1>0, <2>1, <2>2, <2>4, <3>1, <3>3 DEF NewestIsAhead
    <3>5. QED
      BY <2>3, <3>1, <3>2, <3>4
  <2>5. CASE queued[c] # NoItem
    <3>1. OneReport' /\ reports' = {new} /\ now' = now + 1 /\ queued'[c] = NoItem
      BY <1>0, <2>1, <2>5, SettleKeeps
    <3>2. queued[c] \in [mapping : Mapping \ {Ignored}, turn : Nat]
      BY <1>0, <2>2, <2>5 DEF TypeOK
    <3>3. new.state = queued[c].mapping.state /\ new.ms = now + 1 /\ new.stamp = now + 1
      BY <1>0, <2>2, <3>2, NewReportFacts
    <3> HIDE DEF new
    <3>4. Newer'
      <4>1. now \in Nat /\ option.ts \in Nat /\ option.ts <= now
        BY <1>0, <2>1 DEF TypeOK, Newer, Written
      <4>2. QED
        BY <1>0, <2>1, <3>1, <3>3, <4>1 DEF Newer
    <3>5. NewestIsAhead'
      BY <1>0, <2>1, <2>5, <3>1, <3>3 DEF NewestIsAhead
    <3>6. QED
      BY <2>3, <3>1, <3>4, <3>5
  <2>6. QED
    BY <2>4, <2>5
<1>4. QED
  BY <1>0, <1>1, <1>2, <1>3 DEF IInv

\* A re-assertion that has something to say is a write: dated just after what it
\* read, or now.
LEMMA ReadStep ==
    ASSUME IInv, NEW r \in reports, r.at = "read", NEW new,
           \/ option # NoReport /\ ~ Supersedes(option, r) /\ new = [r EXCEPT !.at = "write", !.stamp = Stamp(option, r)]
           \/ option = NoReport /\ new = [r EXCEPT !.at = "write", !.kind = "first"],
           reports' = (reports \ {r}) \cup {new},
           UNCHANGED <<now, queueVars, agentVars, option, held, failures, lost, claimVars>>
    PROVE  IInv'
<1>0. /\ TypeOK /\ ClaimStands
      /\ UNCHANGED <<agent, root, turn, events, now, running, queued, option, held, lost, slot, loaded>>
  BY DEF IInv, agentVars, queueVars, claimVars
<1>1. r \in [state : States, kind : {"edge", "reassertion", "first"}, turn : Nat, ms : Nat,
            stamp : Nat, by : Copy \cup {Nobody}, at : {"read", "write"}]
  BY <1>0 DEF TypeOK
<1>2. option # NoReport => option.ts \in Nat
  BY <1>0 DEF TypeOK, Written
<1>3. /\ new \in [state : States, kind : {"edge", "reassertion", "first"}, turn : Nat, ms : Nat,
                  stamp : Nat, by : Copy \cup {Nobody}, at : {"read", "write"}]
      /\ new.by = r.by /\ new.state = r.state /\ new.ms = r.ms
      /\ new.stamp = r.stamp \/ (option # NoReport /\ new.stamp = option.ts + 1 /\ option.ts < r.ms)
  <2>1. CASE option # NoReport /\ ~ Supersedes(option, r) /\ new = [r EXCEPT !.at = "write", !.stamp = Stamp(option, r)]
    <3>1. option.ts + 1 \in Nat /\ option.ts < r.ms
      BY <1>1, <1>2, <2>1 DEF Supersedes
    <3>2. QED
      BY <1>1, <2>1, <3>1 DEF Stamp
  <2>2. CASE option = NoReport /\ new = [r EXCEPT !.at = "write", !.kind = "first"]
    BY <1>1, <2>2
  <2>3. QED
    BY <2>1, <2>2
<1>4. TypeOK'
  BY <1>0, <1>3 DEF TypeOK
<1>5. ClaimStands'
  BY <1>0 DEF ClaimStands
<1>6. ASSUME Queues(agent) PROVE OneReport' /\ Newer' /\ MemoryBehind' /\ NewestIsAhead'
  <2>1. OneReport /\ Newer /\ MemoryBehind /\ NewestIsAhead
    BY <1>6 DEF IInv
  <2>2. reports = {r} /\ reports' = {new}
    BY <2>1 DEF OneReport
  <2>3. OneReport'
    BY <1>0, <1>3, <2>1, <2>2 DEF OneReport
  <2>4. Newer'
    BY <1>0, <1>1, <1>2, <1>3, <2>1, <2>2 DEF Newer
  <2>5. MemoryBehind' /\ NewestIsAhead'
    BY <1>0, <1>3, <2>1, <2>2 DEF MemoryBehind, NewestIsAhead
  <2>6. QED
    BY <2>3, <2>4, <2>5
<1>7. QED
  BY <1>0, <1>4, <1>5, <1>6 DEF IInv

LEMMA WriteStep ==
    ASSUME IInv, NEW r \in reports, Write(r)
    PROVE  IInv'
<1>0. /\ TypeOK /\ ClaimStands /\ Settle(r)
      /\ option' = [state |-> r.state, ts |-> r.stamp, turn |-> r.turn, kind |-> r.kind]
      /\ UNCHANGED <<agent, root, turn, events, held, lost, slot, loaded>>
  BY DEF IInv, Write, AsWritten, agentVars, claimVars
<1>1. option' \in Written /\ option' # NoReport /\ option'.ts = r.stamp /\ option'.state = r.state
  BY <1>0 DEF TypeOK, Written
<1>2. TypeOK'
  BY <1>0, <1>1, SettleTyped
<1>3. ClaimStands'
  BY <1>0 DEF ClaimStands
<1>4. ASSUME Queues(agent) PROVE OneReport' /\ Newer' /\ MemoryBehind' /\ NewestIsAhead'
  <2> DEFINE c == slot.owner
             new == NewReport(queued[c], c)
  <2>1. OneReport /\ Newer /\ MemoryBehind /\ NewestIsAhead
    BY <1>4 DEF IInv
  <2>2. reports = {r} /\ c \in Copy
    BY <2>1 DEF OneReport
  <2>3. now \in Nat /\ r.ms \in Nat /\ r.stamp \in Nat /\ r.stamp <= r.ms /\ r.ms <= now
        /\ (option # NoReport => option.ts \in Nat /\ option.ts < r.stamp)
    BY <1>0, <2>1 DEF TypeOK, Newer, Written
  <2>4. MemoryBehind'
    BY <1>0, <1>1, <2>1, <2>3 DEF MemoryBehind
  <2>5. CASE queued[c] = NoItem
    <3>1. OneReport' /\ reports' = {} /\ now' = now /\ queued'[c] = NoItem
      BY <1>0, <2>1, <2>5, SettleKeeps
    <3>2. Newer'
      BY <1>0, <1>1, <2>3, <3>1 DEF Newer
    <3>3. NewestIsAhead'
      BY <1>0, <1>1, <2>1, <2>2, <2>5, <3>1 DEF NewestIsAhead
    <3>4. QED
      BY <2>4, <3>1, <3>2, <3>3
  <2>6. CASE queued[c] # NoItem
    <3>1. OneReport' /\ reports' = {new} /\ now' = now + 1 /\ queued'[c] = NoItem
      BY <1>0, <2>1, <2>6, SettleKeeps
    <3>2. queued[c] \in [mapping : Mapping \ {Ignored}, turn : Nat]
      BY <1>0, <2>2, <2>6 DEF TypeOK
    <3>3. new.state = queued[c].mapping.state /\ new.ms = now + 1 /\ new.stamp = now + 1
      BY <1>0, <2>2, <3>2, NewReportFacts
    <3> HIDE DEF new
    <3>4. Newer'
      BY <1>1, <2>3, <3>1, <3>3 DEF Newer
    <3>5. NewestIsAhead'
      BY <1>0, <2>1, <2>6, <3>1, <3>3 DEF NewestIsAhead
    <3>6. QED
      BY <2>4, <3>1, <3>4, <3>5
  <2>7. QED
    BY <2>5, <2>6
<1>5. QED
  BY <1>0, <1>2, <1>3, <1>4 DEF IInv

LEMMA DieStep ==
    ASSUME IInv, NEW r \in reports, Die(r)
    PROVE  IInv'
<1>0. /\ TypeOK /\ ClaimStands /\ Settle(r) /\ lost' = (lost \/ Newest(r))
      /\ UNCHANGED <<agent, root, turn, events, option, held, slot, loaded>>
  BY DEF IInv, Die, agentVars, claimVars
<1>1. TypeOK'
  BY <1>0, SettleTyped DEF TypeOK
<1>2. ClaimStands'
  BY <1>0 DEF ClaimStands
<1>3. ASSUME Queues(agent) PROVE OneReport' /\ Newer' /\ MemoryBehind' /\ NewestIsAhead'
  <2> DEFINE c == slot.owner
             new == NewReport(queued[c], c)
  <2>1. OneReport /\ Newer /\ MemoryBehind /\ NewestIsAhead
    BY <1>3 DEF IInv
  <2>2. reports = {r} /\ c \in Copy /\ r.by = c
    BY <2>1 DEF OneReport
  <2>3. MemoryBehind'
    BY <1>0, <2>1 DEF MemoryBehind
  <2>4. CASE queued[c] = NoItem
    <3>1. OneReport' /\ reports' = {} /\ now' = now /\ queued'[c] = NoItem
      BY <1>0, <2>1, <2>4, SettleKeeps
    <3>2. Newer'
      BY <1>0, <2>1, <3>1 DEF Newer
    <3>3. lost'
      <4>1. r.ms <= r.ms
        BY <1>0 DEF TypeOK
      <4>2. Newest(r)
        BY <2>2, <2>4, <4>1 DEF Newest
      <4>3. QED
        BY <1>0, <4>2
    <3>4. NewestIsAhead'
      BY <1>0, <3>1, <3>3 DEF NewestIsAhead
    <3>5. QED
      BY <2>3, <3>1, <3>2, <3>4
  <2>5. CASE queued[c] # NoItem
    <3>1. OneReport' /\ reports' = {new} /\ now' = now + 1 /\ queued'[c] = NoItem
      BY <1>0, <2>1, <2>5, SettleKeeps
    <3>2. queued[c] \in [mapping : Mapping \ {Ignored}, turn : Nat]
      BY <1>0, <2>2, <2>5 DEF TypeOK
    <3>3. new.state = queued[c].mapping.state /\ new.ms = now + 1 /\ new.stamp = now + 1
      BY <1>0, <2>2, <3>2, NewReportFacts
    <3> HIDE DEF new
    <3>4. Newer'
      <4>1. now \in Nat /\ (option # NoReport => option.ts \in Nat /\ option.ts <= now)
        BY <1>0, <2>1 DEF TypeOK, Newer, Written
      <4>2. QED
        BY <1>0, <3>1, <3>3, <4>1 DEF Newer
    <3>5. NewestIsAhead'
      BY <1>0, <2>1, <2>5, <3>1, <3>3 DEF NewestIsAhead
    <3>6. QED
      BY <2>3, <3>1, <3>4, <3>5
  <2>6. QED
    BY <2>4, <2>5
<1>4. QED
  BY <1>0, <1>1, <1>2, <1>3 DEF IInv

-----------------------------------------------------------------------------
(* The daemon.                                                             *)

LEMMA DaemonStep ==
    ASSUME IInv, held' = Recall(held, option) \/ held' = Forgotten,
           UNCHANGED <<agentVars, now, option, reports, queueVars, failures, lost, claimVars>>
    PROVE  IInv'
<1>0. /\ TypeOK /\ ClaimStands
      /\ UNCHANGED <<agent, root, turn, events, now, running, queued, option, reports, lost, slot, loaded>>
  BY DEF IInv, agentVars, queueVars, claimVars
<1>1. TypeOK' /\ ClaimStands'
  BY <1>0 DEF TypeOK, ClaimStands
<1>2. ASSUME Queues(agent) PROVE OneReport' /\ Newer' /\ MemoryBehind' /\ NewestIsAhead'
  <2>1. OneReport /\ Newer /\ MemoryBehind /\ NewestIsAhead
    BY <1>2 DEF IInv
  <2>2. OneReport' /\ Newer' /\ NewestIsAhead'
    BY <1>0, <2>1 DEF OneReport, Newer, NewestIsAhead
  <2>3. MemoryBehind'
    <3>1. option # NoReport => option.ts \in Nat
      BY <1>0 DEF TypeOK, Written
    <3>2. QED
      BY <1>0, <2>1, <3>1 DEF MemoryBehind, Recall, NewClaim
  <2>4. QED
    BY <2>2, <2>3
<1>3. QED
  BY <1>0, <1>1, <1>2 DEF IInv

-----------------------------------------------------------------------------
(* The theorems.                                                           *)

LEMMA StepPreserves == IInv /\ [Next]_vars => IInv'
<1> SUFFICES ASSUME IInv, [Next]_vars PROVE IInv'
  OBVIOUS
<1>1. ASSUME NEW c \in Copy, Load(c) PROVE IInv'
  BY <1>1, LoadStep
<1>2. ASSUME NEW e \in DOMAIN Rules[agent], NEW m \in Rules[agent][e], Emit(m) PROVE IInv'
  BY <1>2, EmitStep
<1>3. ASSUME NEW r \in reports, ReadStanding(r) PROVE IInv'
  <2>1. r.at = "read" /\ UNCHANGED <<agentVars, option, held, failures, lost, claimVars>>
    BY <1>3 DEF ReadStanding
  <2>2. CASE option # NoReport /\ Supersedes(option, r) /\ Settle(r)
    BY <2>1, <2>2, SkipStep
  <2>3. CASE /\ option # NoReport /\ ~Supersedes(option, r)
             /\ reports' = (reports \ {r}) \cup {[r EXCEPT !.at = "write", !.stamp = Stamp(option, r)]}
             /\ UNCHANGED <<now, queueVars>>
    BY <2>1, <2>3, ReadStep
  <2>4. CASE /\ option = NoReport
             /\ reports' = (reports \ {r}) \cup {[r EXCEPT !.at = "write", !.kind = "first"]}
             /\ UNCHANGED <<now, queueVars>>
    BY <2>1, <2>4, ReadStep
  <2>5. QED
    BY <1>3, <2>2, <2>3, <2>4 DEF ReadStanding
<1>4. ASSUME NEW r \in reports, Write(r) PROVE IInv'
  BY <1>4, WriteStep
<1>5. ASSUME NEW r \in reports, Die(r) PROVE IInv'
  BY <1>5, DieStep
<1>6. ASSUME Poll \/ Restart PROVE IInv'
  BY <1>6, DaemonStep DEF Poll, Restart
<1>7. ASSUME UNCHANGED vars PROVE IInv'
  <2>1. UNCHANGED <<agentVars, now, option, reports, queueVars, failures, lost, claimVars>> /\ held' = held
    BY <1>7 DEF vars
  <2>2. QED
    BY <2>1 DEF IInv, TypeOK, ClaimStands, OneReport, Newer, MemoryBehind, NewestIsAhead, agentVars, queueVars, claimVars
<1>8. QED
  BY <1>1, <1>2, <1>3, <1>4, <1>5, <1>6, <1>7 DEF Next

\* Every reachable state satisfies the invariant, for any copies, schemas, events,
\* deaths of reports and restarts of the daemon.
THEOREM Invariance == Spec => []IInv
<1>1. Init => IInv
  BY InitEstablishes
<1>2. IInv /\ [Next]_vars => IInv'
  BY StepPreserves
<1>3. QED
  BY <1>1, <1>2, PTL DEF Spec

\* The state of a pane's report writer is well typed.
THEOREM TypeCorrect == Spec => []TypeOK
<1>1. IInv => TypeOK
  BY DEF IInv
<1>2. QED
  BY <1>1, Invariance, PTL

\* claimReporter: whatever order the copies of an integration loaded in, one of
\* those with the newest schema reports and no other does.
THEOREM ReporterIsOne == Spec => []OneReporter
<1>1. IInv => OneReporter
  <2> SUFFICES ASSUME ClaimStands, loaded = Copy
               PROVE  \E c \in Copy : /\ \A d \in Copy : Mine(d) <=> d = c
                                     /\ \A d \in Copy : Schema[d] <= Schema[c]
    BY DEF IInv, OneReporter
  <2>1. slot.owner \in Copy /\ \A d \in Copy : Schema[d] <= Schema[slot.owner]
    BY DEF ClaimStands
  <2>2. QED
    BY <2>1 DEF Mine
<1>2. QED
  BY <1>1, Invariance, PTL

\* Once the reports of a runtime are over and the newest did not die, the option
\* says what the newest event said, and the daemon believes it at its next look.
THEOREM NewestStands == Spec => []NewestEventStands
<1>1. IInv => NewestEventStands
  <2> SUFFICES ASSUME IInv, Queues(agent), events > 0, reports = {}, ~ lost
               PROVE  /\ option # NoReport /\ option.state = root
                      /\ Recall(held, option).accepted.state = root
    BY DEF NewestEventStands
  <2>1. TypeOK /\ ClaimStands /\ OneReport /\ MemoryBehind /\ NewestIsAhead
    BY DEF IInv
  <2>2. queued[slot.owner] = NoItem
    <3>1. slot.owner \in Copy
      BY <2>1 DEF ClaimStands
    <3>2. QED
      BY <2>1, <3>1 DEF OneReport
  <2>3. option # NoReport /\ option.state = root /\ option.ts \in Nat
    BY <2>1, <2>2 DEF NewestIsAhead, TypeOK, Written
  <2>4. CASE held = Forgotten \/ option.ts > held.accepted.ts
    BY <2>3, <2>4 DEF Recall, NewClaim
  <2>5. CASE held # Forgotten /\ ~ option.ts > held.accepted.ts
    <3>1. held.accepted.state = option.state
      BY <2>1, <2>3, <2>5 DEF MemoryBehind
    <3>2. QED
      BY <2>3, <2>5, <3>1 DEF Recall, NewClaim
  <2>6. QED
    BY <2>4, <2>5
<1>2. QED
  BY <1>1, Invariance, PTL

-----------------------------------------------------------------------------
(* The dates.                                                              *)

ReportType == [state : States, kind : {"edge", "reassertion", "first"}, turn : Nat, ms : Nat,
               stamp : Nat, by : Copy \cup {Nobody}, at : {"read", "write"}]

\* While a turn is under way, no edge that ended one belongs to it.
TurnOpen == root' # "idle" => \A x \in Claims : TurnEnd(x) => x.turn < turn'

\* What is in Claims is of the type that is written.
LEMMA ClaimTypes ==
    ASSUME Dated, NEW c \in Claims
    PROVE  /\ c.state \in States /\ c.ts \in Nat /\ c.turn \in Nat
           /\ c.kind \in {"edge", "reassertion", "first"}
  BY DEF Dated, Written

\* Nothing new is claimed but what a report that is under way adds.
LEMMA ClaimsOf ==
    ASSUME option' # NoReport => option' \in Claims,
           held' # Forgotten => held'.accepted \in Claims,
           NEW new, \A r \in reports' : r.at = "write" => r \in reports \/ r = new
    PROVE  Claims' \subseteq Claims \cup {AsWritten(new)}
<1>1. \A r \in reports : r.at = "write" => AsWritten(r) \in Claims
  BY DEF Claims
<1>2. QED
  BY <1>1 DEF Claims, AsWritten

LEMMA NoNewClaim ==
    ASSUME option' # NoReport => option' \in Claims,
           held' # Forgotten => held'.accepted \in Claims,
           \A r \in reports' : r.at = "write" => r \in reports
    PROVE  Claims' \subseteq Claims
<1>1. \A r \in reports : r.at = "write" => AsWritten(r) \in Claims
  BY DEF Claims
<1>2. QED
  BY <1>1 DEF Claims, AsWritten

\* Time passes, reports end, a turn begins.
LEMMA SameClaims ==
    ASSUME TypeOK, Dated, ReadsInOrder, TurnOpen, now' \in Nat, now <= now', turn' \in Nat, turn <= turn',
           Claims' \subseteq Claims, \A r \in reports' : r.at = "read" => r \in reports
    PROVE  Dated' /\ ReadsInOrder'
<1>0. now \in Nat /\ turn \in Nat /\ \A r \in reports : r.ms \in Nat /\ r.stamp \in Nat /\ r.turn \in Nat
  BY DEF TypeOK
<1>1. \A c \in Claims' : c \in Written /\ c.ts <= now' /\ c.turn <= turn'
  BY <1>0, ClaimTypes DEF Dated
<1>2. root' # "idle" => \A x \in Claims' : TurnEnd(x) => x.turn < turn'
  BY DEF TurnOpen
<1>3. Dated'
  BY <1>1, <1>2 DEF Dated, TurnEnd
<1>4. ReadsInOrder'
  BY <1>0 DEF ReadsInOrder
<1>5. QED
  BY <1>3, <1>4

\* An edge's report is dated after all there is, and belongs to the turn under way or
\* ends it.
LEMMA NewEdge ==
    ASSUME TypeOK, Dated, ReadsInOrder, TurnOpen, now' = now + 1, turn' \in Nat, turn <= turn',
           NEW n \in Written, n.ts = now + 1, n.turn = turn', n.state = root', n.kind = "edge",
           Claims' \subseteq Claims \cup {n}, \A r \in reports' : r.at = "read" => r \in reports
    PROVE  Dated' /\ ReadsInOrder'
<1>0. now \in Nat /\ turn \in Nat /\ \A r \in reports : r.ms \in Nat /\ r.stamp \in Nat /\ r.turn \in Nat
  BY DEF TypeOK
<1>1. \A c \in Claims : /\ c.ts \in Nat /\ c.turn \in Nat /\ c.ts <= now /\ c.ts < n.ts
                        /\ c.turn <= turn'
  BY <1>0, ClaimTypes DEF Dated
<1>2. \A c \in Claims' : c \in Written /\ c.ts <= now' /\ c.turn <= turn'
  BY <1>0, <1>1 DEF Dated
<1>3. ASSUME NEW c \in Claims', NEW x \in Claims', TurnEnd(x), c.turn <= x.turn
      PROVE  /\ c.kind = "reassertion" => c.ts <= x.ts
             /\ c.state # "idle" => c.ts < x.ts
  <2>1. CASE c \in Claims /\ x \in Claims
    BY <1>3, <2>1 DEF Dated
  <2>2. CASE c \in Claims /\ x = n
    BY <1>1, <2>2
  <2>3. CASE c = n /\ x = n
    BY <1>3, <2>3 DEF TurnEnd
  <2>4. CASE c = n /\ x \in Claims
    <3>1. n.state = "idle"
      BY <1>1, <1>3, <2>4 DEF TurnOpen
    <3>2. QED
      BY <2>4, <3>1
  <2>5. QED
    BY <2>1, <2>2, <2>3, <2>4
<1>4. root' # "idle" => \A x \in Claims' : TurnEnd(x) => x.turn < turn'
  BY DEF TurnOpen, TurnEnd
<1>5. Dated'
  BY <1>2, <1>3, <1>4 DEF Dated, TurnEnd
<1>6. ReadsInOrder'
  BY <1>0 DEF ReadsInOrder
<1>7. QED
  BY <1>5, <1>6

\* A re-assertion that is about to read is later than every turn so far.
LEMMA NewRead ==
    ASSUME TypeOK, Dated, ReadsInOrder, TurnOpen, now' = now + 1, turn' \in Nat, turn <= turn',
           NEW n, n.state = "idle", n.kind = "reassertion", n.ms = now + 1, n.stamp = now + 1,
           n.turn = turn',
           Claims' \subseteq Claims, \A r \in reports' : r.at = "read" => r \in reports \/ r = n
    PROVE  Dated' /\ ReadsInOrder'
<1>0. now \in Nat /\ turn \in Nat /\ \A r \in reports : r.ms \in Nat /\ r.stamp \in Nat /\ r.turn \in Nat
  BY DEF TypeOK
<1>1. \A c \in Claims' : c \in Written /\ c.ts <= now' /\ c.turn <= turn'
  BY <1>0, ClaimTypes DEF Dated
<1>2. root' # "idle" => \A x \in Claims' : TurnEnd(x) => x.turn < turn'
  BY DEF TurnOpen
<1>3. Dated'
  BY <1>1, <1>2 DEF Dated, TurnEnd
<1>4. ReadsInOrder'
  BY <1>0, <1>1 DEF ReadsInOrder
<1>5. QED
  BY <1>3, <1>4

\* A report that starts, whether its event comes now or has waited.
LEMMA StartDates ==
    ASSUME TypeOK, Dated, ReadsInOrder, TurnOpen, now' = now + 1, turn' \in Nat, turn <= turn',
           NEW item \in [mapping : Mapping \ {Ignored}, turn : Nat], NEW c \in Copy \cup {Nobody},
           item.turn = turn', item.mapping.state = root',
           item.mapping.kind = "reassertion" => root' = "idle",
           reports' \subseteq reports \cup {NewReport(item, c)},
           option' # NoReport => option' \in Claims,
           held' # Forgotten => held'.accepted \in Claims
    PROVE  Dated' /\ ReadsInOrder'
<1> DEFINE new == NewReport(item, c)
<1>1. /\ new \in ReportType /\ new.state = root' /\ new.turn = turn'
      /\ new.ms = now + 1 /\ new.stamp = now + 1 /\ new.kind = item.mapping.kind
      /\ new.at = IF new.kind = "edge" THEN "write" ELSE "read"
  BY NewReportFacts DEF NewReport, ReportType
<1>2. new.kind \in {"edge", "reassertion"}
  BY <1>1 DEF Mapping, Ignored, Edge, Reassertion
<1> HIDE DEF new
<1>3. reports' \subseteq reports \cup {new}
  BY DEF new
<1>4. CASE new.kind = "edge"
  <2>1. Claims' \subseteq Claims \cup {AsWritten(new)}
    BY <1>3, ClaimsOf
  <2>2. /\ AsWritten(new) \in Written /\ AsWritten(new).ts = now + 1 /\ AsWritten(new).turn = turn'
        /\ AsWritten(new).state = root' /\ AsWritten(new).kind = "edge"
    BY <1>1, <1>4 DEF AsWritten, Written, ReportType
  <2>3. \A r \in reports' : r.at = "read" => r \in reports
    BY <1>1, <1>3, <1>4
  <2>4. QED
    BY <2>1, <2>2, <2>3, NewEdge
<1>5. CASE new.kind = "reassertion"
  <2>1. Claims' \subseteq Claims
    BY <1>1, <1>3, <1>5, NoNewClaim
  <2>2. \A r \in reports' : r.at = "read" => r \in reports \/ r = new
    BY <1>3
  <2>3. new.state = "idle"
    BY <1>1, <1>5
  <2>4. QED
    BY <1>1, <1>5, <2>1, <2>2, <2>3, NewRead
<1>6. QED
  BY <1>2, <1>4, <1>5

\* A report that is over, and what its queue starts.
LEMMA SettleDates ==
    ASSUME TypeOK, Dated, ReadsInOrder, NewestWaits, NEW r \in reports, Settle(r),
           UNCHANGED <<agent, root, turn>>,
           option' # NoReport => option' \in Claims,
           held' # Forgotten => held'.accepted \in Claims
    PROVE  Dated' /\ ReadsInOrder' /\ NewestWaits'
<1>1. now \in Nat /\ turn \in Nat
  BY DEF TypeOK
<1>2. TurnOpen
  BY DEF Dated, TurnOpen
<1>3. CASE r.by = Nobody \/ queued[r.by] = NoItem
  <2>1. reports' = reports \ {r} /\ UNCHANGED <<now, queued>>
    BY <1>3 DEF Settle, queueVars
  <2>2. Claims' \subseteq Claims
    BY <2>1, NoNewClaim
  <2>3. Dated' /\ ReadsInOrder'
    BY <1>1, <1>2, <2>1, <2>2, SameClaims
  <2>4. NewestWaits'
    BY <2>1 DEF NewestWaits
  <2>5. QED
    BY <2>3, <2>4
<1>4. CASE r.by # Nobody /\ queued[r.by] # NoItem
  <2> DEFINE c == r.by
  <2>1. c \in Copy /\ queued[c] \in [mapping : Mapping \ {Ignored}, turn : Nat]
    BY <1>4 DEF TypeOK
  <2>2. /\ reports' = (reports \ {r}) \cup {NewReport(queued[c], c)} /\ now' = now + 1
        /\ queued' = [queued EXCEPT ![c] = NoItem]
    BY <1>4 DEF Settle
  <2>3. /\ queued[c].turn = turn /\ queued[c].mapping.state = root
        /\ queued[c].mapping.kind = "reassertion" => root = "idle"
    BY <1>4, <2>1 DEF NewestWaits
  <2>4. Dated' /\ ReadsInOrder'
    BY <1>1, <1>2, <2>1, <2>2, <2>3, StartDates
  <2>5. NewestWaits'
    BY <2>1, <2>2 DEF NewestWaits, TypeOK
  <2>6. QED
    BY <2>4, <2>5
<1>5. QED
  BY <1>3, <1>4

LEMMA EmitDates ==
    ASSUME DInv, NEW e \in DOMAIN Rules[agent], NEW m \in Rules[agent][e], Emit(m)
    PROVE  Dated' /\ ReadsInOrder' /\ NewestWaits'
<1> DEFINE item == [mapping |-> m, turn |-> turn']
<1>0. TypeOK /\ Dated /\ ReadsInOrder /\ NewestWaits /\ now \in Nat /\ turn \in Nat
  BY DEF DInv, IInv, TypeOK
<1>1. /\ m \in Mapping \ {Ignored} /\ m.state \in States
      /\ m.kind = "reassertion" => m.state = "idle"
  BY <1>0, Meaning DEF Emit
<1>2. /\ root' = m.state /\ turn' = IF root = "idle" /\ m.state # "idle" THEN turn + 1 ELSE turn
      /\ UNCHANGED <<agent, option, held, slot>>
  BY DEF Emit, claimVars
<1>3. /\ turn' \in Nat /\ turn <= turn' /\ item \in [mapping : Mapping \ {Ignored}, turn : Nat]
      /\ item.turn = turn' /\ item.mapping.state = root'
      /\ item.mapping.kind = "reassertion" => root' = "idle"
  BY <1>0, <1>1, <1>2
<1>4. TurnOpen
  <2>1. CASE root = "idle" /\ m.state # "idle"
    <3>1. \A x \in Claims : x.turn \in Nat /\ x.turn <= turn
      BY <1>0, ClaimTypes DEF Dated
    <3>2. QED
      BY <1>0, <1>2, <2>1, <3>1 DEF TurnOpen
  <2>2. CASE ~ (root = "idle" /\ m.state # "idle")
    BY <1>0, <1>2, <2>2 DEF TurnOpen, Dated
  <2>3. QED
    BY <2>1, <2>2
<1>5. /\ option' # NoReport => option' \in Claims
      /\ held' # Forgotten => held'.accepted \in Claims
  BY <1>2 DEF Claims
<1> HIDE DEF item
<1>6. ASSUME NEW c \in Copy \cup {Nobody}, reports' = reports \cup {NewReport(item, c)}, now' = now + 1
      PROVE  Dated' /\ ReadsInOrder'
  BY <1>0, <1>3, <1>4, <1>5, <1>6, StartDates
<1>7. CASE ~ Queues(agent)
  <2>1. reports' = reports \cup {NewReport(item, Nobody)} /\ now' = now + 1 /\ UNCHANGED queueVars
    BY <1>7 DEF Emit, Start, item
  <2>2. NewestWaits'
    BY <1>0, <1>7, <2>1 DEF NewestWaits, queueVars
  <2>3. QED
    BY <1>6, <2>1, <2>2
<1>8. CASE Queues(agent)
  <2> DEFINE c == slot.owner
  <2>1. c \in Copy /\ Push(c, item)
    BY <1>8 DEF Emit, Mine, item
  <2>2. \A d \in Copy : queued[d] # NoItem => running[d] /\ d = c
    BY <1>8 DEF DInv, IInv, OneReport
  <2>3. CASE running[c]
    <3>1. queued' = [queued EXCEPT ![c] = item] /\ UNCHANGED <<reports, now>>
      BY <2>1, <2>3 DEF Push
    <3>2. Claims' \subseteq Claims
      BY <1>5, <3>1, NoNewClaim
    <3>3. Dated' /\ ReadsInOrder'
      BY <1>0, <1>3, <1>4, <3>1, <3>2, SameClaims
    <3>4. NewestWaits'
      BY <1>0, <1>2, <1>3, <1>8, <2>1, <2>2, <3>1 DEF NewestWaits, TypeOK
    <3>5. QED
      BY <3>3, <3>4
  <2>4. CASE ~ running[c]
    <3>1. reports' = reports \cup {NewReport(item, c)} /\ now' = now + 1 /\ UNCHANGED queued
      BY <2>1, <2>4 DEF Push, Start
    <3>2. NewestWaits'
      BY <2>2, <2>4, <3>1 DEF NewestWaits
    <3>3. QED
      BY <1>6, <2>1, <3>1, <3>2
  <2>5. QED
    BY <2>3, <2>4
<1>9. QED
  BY <1>7, <1>8

\* A re-assertion that has read a state that is not rest is dated just after it,
\* and still before the edge that ended that turn, or a later one.
LEMMA StampDates ==
    ASSUME DInv, NEW r \in reports, r.at = "read", option # NoReport, ~ Supersedes(option, r), NEW new,
           new = [r EXCEPT !.at = "write", !.stamp = Stamp(option, r)],
           reports' = (reports \ {r}) \cup {new},
           UNCHANGED <<now, root, turn, option, held>>
    PROVE  Dated' /\ ReadsInOrder'
<1>0. TypeOK /\ Dated /\ ReadsInOrder /\ now \in Nat /\ turn \in Nat
  BY DEF DInv, IInv, TypeOK
<1>1. r \in ReportType
  BY <1>0 DEF TypeOK, ReportType
<1>2. option \in Claims /\ option.ts \in Nat /\ option.turn \in Nat /\ option.ts < r.ms /\ option.state # r.state
  <2>1. option \in Claims
    BY DEF Claims
  <2>2. option.ts \in Nat /\ option.turn \in Nat
    BY <1>0, <2>1, ClaimTypes
  <2>3. QED
    BY <1>1, <2>1, <2>2 DEF Supersedes, ReportType
<1>3. /\ r.state = "idle" /\ r.kind = "reassertion" /\ r.ms <= now /\ r.turn <= turn
      /\ option.turn <= r.turn
  BY <1>0, <1>2 DEF ReadsInOrder
<1> DEFINE n == AsWritten(new)
<1>4. /\ new.at = "write" /\ n \in Written /\ n.state = "idle" /\ n.kind = "reassertion"
      /\ n.turn = r.turn /\ n.ts = option.ts + 1
  BY <1>1, <1>2, <1>3 DEF AsWritten, Stamp, Written, ReportType
<1>5. Claims' \subseteq Claims \cup {n}
  <2>1. /\ option' # NoReport => option' \in Claims
        /\ held' # Forgotten => held'.accepted \in Claims
    BY DEF Claims
  <2>2. QED
    BY <2>1, ClaimsOf
<1> HIDE DEF n
<1>6. n.ts \in Nat /\ n.turn \in Nat /\ n.ts <= now /\ n.turn <= turn
  BY <1>0, <1>1, <1>2, <1>3, <1>4 DEF ReportType
<1>7. ASSUME NEW x \in Claims, TurnEnd(x), n.turn <= x.turn
      PROVE  n.ts <= x.ts
  <2>1. x.ts \in Nat /\ x.turn \in Nat
    BY <1>0, ClaimTypes
  <2>2. option.turn <= x.turn
    BY <1>2, <1>3, <1>4, <1>6, <1>7, <2>1
  <2>3. option.ts < x.ts
    BY <1>0, <1>2, <1>3, <1>7, <2>2 DEF Dated
  <2>4. QED
    BY <1>2, <1>4, <2>1, <2>3
<1>8. Dated'
  <2>1. \A c \in Claims' : c \in Written /\ c.ts <= now' /\ c.turn <= turn'
    BY <1>0, <1>4, <1>5, <1>6 DEF Dated
  <2>2. ~ TurnEnd(n)
    BY <1>4 DEF TurnEnd
  <2>3. \A c, x \in Claims' :
           TurnEnd(x) /\ c.turn <= x.turn =>
               /\ c.kind = "reassertion" => c.ts <= x.ts
               /\ c.state # "idle" => c.ts < x.ts
    BY <1>0, <1>4, <1>5, <1>7, <2>2 DEF Dated
  <2>4. root' # "idle" => \A x \in Claims' : TurnEnd(x) => x.turn < turn'
    BY <1>0, <1>5, <2>2 DEF Dated
  <2>5. QED
    BY <2>1, <2>3, <2>4 DEF Dated, TurnEnd
<1>9. ReadsInOrder'
  <2>1. \A q \in reports' : q.at = "read" => q \in reports
    BY <1>4
  <2>2. QED
    BY <1>0, <1>4, <1>5, <2>1 DEF ReadsInOrder
<1>10. QED
  BY <1>8, <1>9

\* A re-assertion that found nothing writes a claim of its own kind.
LEMMA FirstDates ==
    ASSUME DInv, NEW r \in reports, r.at = "read", NEW new,
           new = [r EXCEPT !.at = "write", !.kind = "first"],
           reports' = (reports \ {r}) \cup {new},
           UNCHANGED <<now, root, turn, option, held>>
    PROVE  Dated' /\ ReadsInOrder'
<1>0. TypeOK /\ Dated /\ ReadsInOrder /\ now \in Nat /\ turn \in Nat
  BY DEF DInv, IInv, TypeOK
<1>1. r \in ReportType
  BY <1>0 DEF TypeOK, ReportType
<1>2. r.state = "idle" /\ r.stamp <= now /\ r.turn <= turn
  BY <1>0 DEF ReadsInOrder
<1> DEFINE n == AsWritten(new)
<1>3. /\ new.at = "write" /\ n \in Written /\ n.state = "idle" /\ n.kind = "first"
      /\ n.turn <= turn /\ n.ts <= now
  BY <1>1, <1>2 DEF AsWritten, Written, ReportType
<1>4. Claims' \subseteq Claims \cup {n}
  <2>1. /\ option' # NoReport => option' \in Claims
        /\ held' # Forgotten => held'.accepted \in Claims
    BY DEF Claims
  <2>2. QED
    BY <2>1, ClaimsOf
<1> HIDE DEF n
<1>5. ~ TurnEnd(n)
  BY <1>3 DEF TurnEnd
<1>6. Dated'
  BY <1>0, <1>3, <1>4, <1>5 DEF Dated, TurnEnd
<1>7. ReadsInOrder'
  <2>1. \A q \in reports' : q.at = "read" => q \in reports
    BY <1>3
  <2>2. QED
    BY <1>0, <1>3, <1>4, <2>1 DEF ReadsInOrder
<1>8. QED
  BY <1>6, <1>7

LEMMA StepKeepsDates == DInv /\ [Next]_vars => Dated' /\ ReadsInOrder' /\ NewestWaits'
<1> SUFFICES ASSUME DInv, [Next]_vars PROVE Dated' /\ ReadsInOrder' /\ NewestWaits'
  OBVIOUS
<1>0. TypeOK /\ Dated /\ ReadsInOrder /\ NewestWaits /\ now \in Nat /\ turn \in Nat
  BY DEF DInv, IInv, TypeOK
<1>1. ASSUME UNCHANGED <<agent, root, turn, now, reports, queued>>,
             option' # NoReport => option' \in Claims,
             held' # Forgotten => held'.accepted \in Claims
      PROVE  Dated' /\ ReadsInOrder' /\ NewestWaits'
  <2>1. Claims' \subseteq Claims
    BY <1>1, NoNewClaim
  <2>2. TurnOpen
    BY <1>0, <1>1 DEF Dated, TurnOpen
  <2>3. Dated' /\ ReadsInOrder'
    BY <1>0, <1>1, <2>1, <2>2, SameClaims
  <2>4. QED
    BY <1>0, <1>1, <2>3 DEF NewestWaits
<1>2. /\ option # NoReport => option \in Claims
      /\ held # Forgotten => held.accepted \in Claims
  BY DEF Claims
<1>3. ASSUME NEW c \in Copy, Load(c) PROVE Dated' /\ ReadsInOrder' /\ NewestWaits'
  BY <1>1, <1>2, <1>3 DEF Load, agentVars, queueVars
<1>4. ASSUME NEW e \in DOMAIN Rules[agent], NEW m \in Rules[agent][e], Emit(m)
      PROVE  Dated' /\ ReadsInOrder' /\ NewestWaits'
  BY <1>4, EmitDates
<1>5. ASSUME NEW r \in reports, ReadStanding(r) PROVE Dated' /\ ReadsInOrder' /\ NewestWaits'
  <2>1. r.at = "read" /\ UNCHANGED <<agent, root, turn, option, held>>
    BY <1>5 DEF ReadStanding, agentVars
  <2>2. CASE Settle(r)
    BY <1>0, <1>2, <2>1, <2>2, SettleDates
  <2>3. CASE /\ option # NoReport /\ ~Supersedes(option, r)
             /\ reports' = (reports \ {r}) \cup {[r EXCEPT !.at = "write", !.stamp = Stamp(option, r)]}
             /\ UNCHANGED <<now, queueVars>>
    <3>1. Dated' /\ ReadsInOrder'
      BY <2>1, <2>3, StampDates
    <3>2. QED
      BY <1>0, <2>1, <2>3, <3>1 DEF NewestWaits, queueVars
  <2>4. CASE /\ option = NoReport
             /\ reports' = (reports \ {r}) \cup {[r EXCEPT !.at = "write", !.kind = "first"]}
             /\ UNCHANGED <<now, queueVars>>
    <3>1. Dated' /\ ReadsInOrder'
      BY <2>1, <2>4, FirstDates
    <3>2. QED
      BY <1>0, <2>1, <2>4, <3>1 DEF NewestWaits, queueVars
  <2>5. QED
    BY <1>5, <2>2, <2>3, <2>4 DEF ReadStanding
<1>6. ASSUME NEW r \in reports, Write(r) PROVE Dated' /\ ReadsInOrder' /\ NewestWaits'
  <2>1. r.at = "write" /\ option' = AsWritten(r) /\ Settle(r) /\ UNCHANGED <<agent, root, turn, held>>
    BY <1>6 DEF Write, agentVars
  <2>2. option' \in Claims
    BY <2>1 DEF Claims
  <2>3. QED
    BY <1>0, <1>2, <2>1, <2>2, SettleDates
<1>7. ASSUME NEW r \in reports, Die(r) PROVE Dated' /\ ReadsInOrder' /\ NewestWaits'
  <2>1. Settle(r) /\ UNCHANGED <<agent, root, turn, option, held>>
    BY <1>7 DEF Die, agentVars
  <2>2. QED
    BY <1>0, <1>2, <2>1, SettleDates
<1>8. ASSUME Poll \/ Restart PROVE Dated' /\ ReadsInOrder' /\ NewestWaits'
  <2>1. UNCHANGED <<agent, root, turn, now, reports, queued, option>>
    BY <1>8 DEF Poll, Restart, agentVars, queueVars
  <2>2. \/ held' = Forgotten \/ held' = held
        \/ option # NoReport /\ held' = NewClaim(option)
    BY <1>8 DEF Poll, Restart, Recall
  <2>3. held' # Forgotten => held'.accepted \in Claims
    BY <1>2, <2>2 DEF NewClaim
  <2>4. QED
    BY <1>1, <1>2, <2>1, <2>3
<1>9. ASSUME UNCHANGED vars PROVE Dated' /\ ReadsInOrder' /\ NewestWaits'
  BY <1>1, <1>2, <1>9 DEF vars, agentVars, queueVars
<1>10. QED
  BY <1>3, <1>4, <1>5, <1>6, <1>7, <1>8, <1>9 DEF Next

\* The dates of a pane's reports are in order in every reachable state, for any
\* copies, schemas, events, deaths of reports and restarts of the daemon.
THEOREM DatesInOrder == Spec => []DInv
<1>1. Init => DInv
  <2>1. Init => Dated /\ ReadsInOrder /\ NewestWaits
    BY DEF Init, Dated, ReadsInOrder, NewestWaits, Claims
  <2>2. QED
    BY <2>1, InitEstablishes DEF DInv
<1>2. DInv /\ [Next]_vars => DInv'
  BY StepPreserves, StepKeepsDates DEF DInv
<1>3. QED
  BY <1>1, <1>2, PTL DEF Spec

\* A finish the daemon has taken from the event that ended the turn is not dated
\* again by a re-assertion of that rest, also where the hooks of one pane race.
THEOREM RestsAreDatedOnce == Spec => RestIsDatedOnce
<1> DEFINE A == held # Forgotten /\ held' # Forgotten
                /\ held.accepted.state = "idle" /\ held.accepted.kind = "edge"
                /\ held'.accepted.state = "idle" /\ held'.accepted.kind = "reassertion"
                => held'.accepted.turn > held.accepted.turn
<1>1. DInv /\ [Next]_vars => [A]_vars
  <2> SUFFICES ASSUME DInv, Next, held # Forgotten, held' # Forgotten,
                      held.accepted.state = "idle", held.accepted.kind = "edge",
                      held'.accepted.state = "idle", held'.accepted.kind = "reassertion"
               PROVE  held'.accepted.turn > held.accepted.turn
    OBVIOUS
  <2>1. held' = Recall(held, option)
    BY DEF Next, Load, Emit, ReadStanding, Write, Die, Poll, Restart
  <2>2. option # NoReport /\ option.ts > held.accepted.ts /\ held'.accepted = option
    BY <2>1 DEF Recall, NewClaim
  <2>3. held.accepted \in Claims /\ option \in Claims /\ Dated
    BY <2>2 DEF Claims, DInv
  <2>4. /\ held.accepted.ts \in Nat /\ held.accepted.turn \in Nat
        /\ option.ts \in Nat /\ option.turn \in Nat
    BY <2>3, ClaimTypes
  <2>5. ~ (option.turn <= held.accepted.turn)
    BY <2>2, <2>3, <2>4 DEF Dated, TurnEnd
  <2>6. QED
    BY <2>2, <2>4, <2>5
<1>2. QED
  BY <1>1, DatesInOrder, PTL DEF Spec, RestIsDatedOnce

=============================================================================
