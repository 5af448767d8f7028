--------------------------- MODULE TerminalProofs ---------------------------
(***************************************************************************)
(* Proofs about Terminal, for any panes, capacities and amounts of input   *)
(* and output.                                                             *)
(*                                                                         *)
(* OutputIntact rests on an account of what was drawn (Accounted): what    *)
(* the browser has, what the write loop holds and what out holds follow    *)
(* each other without a gap, and make up what the pump has read unless it  *)
(* has overflowed.  WhereFindsThePane rests on the order of the two        *)
(* messages of an opening socket (Placed): while the question is being     *)
(* answered, the select before it has already been acted on.               *)
(***************************************************************************)
EXTENDS Terminal, TLAPS

-----------------------------------------------------------------------------
(* The inductive invariant *)

\* What the browser has, and what the write loop is handing to it.
Shown == Len(got) + (IF wr.at = "data" THEN 1 ELSE 0)

Accounted ==
    /\ \A i \in 1 .. Len(got) : got[i] = i
    /\ wr.at = "data" => wr.out = Len(got) + 1
    /\ wr.at # "done" => /\ \A i \in 1 .. Len(out) : out[i] = Shown + i
                         /\ Shown + Len(out) = pumped \/ closer = "pump"

\* A pump that closed the session reads no more, and a session is closed once.
PumpClosed == closer = "pump" => pump # "reading" /\ closing # "no"

\* A graceful end was reported by a write loop that had delivered everything, and
\* is what the browser is told.
Ended ==
    /\ exit = "graceful session ended" => /\ wr.at = "done" /\ pump = "done"
                                          /\ Len(got) = pumped \/ closer = "pump"
    /\ told = "graceful session ended" => exit = told

\* The tab is on the pane it remembers once its select has been acted on.
Placed ==
    \/ current = Remembered
    \/ rd.at = "reading" /\ sent # <<>> /\ sent[1] = "select"
    \/ rd.at = "asking" /\ rd.frame = "select"
    \/ rd.at = "done"

Right(m) == m.type = "pane" => m.pane = Remembered

Answered ==
    /\ answer # NoPane => answer = Remembered
    /\ \A i \in 1 .. Len(ctrl) : Right(ctrl[i])
    /\ \A i \in 1 .. Len(wr.ctrl) : Right(wr.ctrl[i])

InPlace == ~gaveUp /\ Remembered \in alive => Placed /\ Answered

Holding == wr.at = "control" => Len(wr.ctrl) = 1

IInv == TypeOK /\ Accounted /\ PumpClosed /\ Ended /\ Holding /\ InPlace

-----------------------------------------------------------------------------
(* Sequences *)

LEMMA HeadAndTail ==
    ASSUME NEW S, NEW s \in Seq(S), s # <<>>
    PROVE  /\ Len(s) \in Nat \ {0} /\ Head(s) \in S /\ Head(s) = s[1]
           /\ Tail(s) \in Seq(S) /\ Len(Tail(s)) = Len(s) - 1
           /\ \A i \in 1 .. Len(Tail(s)) : Tail(s)[i] = s[i + 1]
  OBVIOUS

LEMMA Appended ==
    ASSUME NEW S, NEW s \in Seq(S), NEW e \in S
    PROVE  /\ Append(s, e) \in Seq(S) /\ Len(Append(s, e)) = Len(s) + 1
           /\ \A i \in 1 .. Len(s) : Append(s, e)[i] = s[i]
           /\ Append(s, e)[Len(s) + 1] = e
  OBVIOUS

LEMMA Constants ==
    /\ OutCap \in Nat /\ CtrlCap \in Nat \ {0} /\ PtyCap \in Nat
    /\ MaxKeys \in Nat /\ MaxOutput \in Nat
  BY CapAssumption, BoundAssumption

LEMMA Offered ==
    ASSUME NEW m \in Message, Offer(m), ctrl \in Seq(Message), Len(ctrl) <= CtrlCap
    PROVE  /\ ctrl' \in Seq(Message) /\ Len(ctrl') <= CtrlCap
           /\ \A i \in 1 .. Len(ctrl') : ctrl'[i] = m \/ (i <= Len(ctrl) /\ ctrl'[i] = ctrl[i])
<1>1. CASE Len(ctrl) < CtrlCap
  BY <1>1, Appended, Constants DEF Offer
<1>2. CASE ~(Len(ctrl) < CtrlCap)
  BY <1>2 DEF Offer
<1>3. QED
  BY <1>1, <1>2

-----------------------------------------------------------------------------

USE PaneAssumption, Constants

LEMMA Undisturbed ==
    ASSUME IInv, TypeOK',
           UNCHANGED <<rd, wr, pump, out, ctrl, pumped, got, answer, told, gaveUp, exit, sent, current, alive, closer>>,
           closing' # closing => closing' # "no"
    PROVE  IInv'
<1> USE DEF IInv
<1>1. Accounted'
  BY DEF Accounted, Shown
<1>2. PumpClosed' /\ Ended' /\ Holding'
  BY DEF PumpClosed, Ended, Holding
<1>3. InPlace'
  BY DEF InPlace, Placed, Answered
<1>4. QED
  BY <1>1, <1>2, <1>3

-----------------------------------------------------------------------------
(* The read loop *)

LEMMA ReadFailsStep == ASSUME IInv, ReadFails PROVE IInv'
<1> USE DEF IInv, ReadFails, Report, tmuxVars, browserVars, loopVars, serveVars, closeVars, queueVars, heardVars
<1>1. TypeOK'
  <2>1. TmuxTypes'
    BY DEF TypeOK, TmuxTypes, BrowserTypes, LoopTypes
  <2>2. BrowserTypes'
    BY DEF TypeOK, TmuxTypes, BrowserTypes, LoopTypes, QueueTypes
  <2>3. LoopTypes'
    BY DEF TypeOK, TmuxTypes, BrowserTypes, LoopTypes, QueueTypes
  <2>4. QueueTypes'
    BY DEF TypeOK, TmuxTypes, LoopTypes, QueueTypes
  <2>5. ServeTypes'
    BY DEF TypeOK, ServeTypes
  <2>6. QED
    BY <2>1, <2>2, <2>3, <2>4, <2>5 DEF TypeOK
<1>2. Accounted'
  BY DEF TypeOK, BrowserTypes, LoopTypes, QueueTypes, TmuxTypes, Accounted, Shown
<1>3. PumpClosed'
  BY DEF PumpClosed
<1>4. Ended'
  BY DEF TypeOK, LoopTypes, PumpClosed, Ended, Accounted, Shown
<1>5. Holding'
  BY DEF TypeOK, LoopTypes, Holding
<1>6. InPlace'
  BY DEF TypeOK, LoopTypes, TmuxTypes, BrowserTypes, QueueTypes, InPlace, Placed, Answered, Right
<1>7. QED
  BY <1>1, <1>2, <1>3, <1>4, <1>5, <1>6

LEMMA ReadFrameStep == ASSUME IInv, ReadFrame PROVE IInv'
<1> USE DEF IInv, ReadFrame, Report, tmuxVars, browserVars, loopVars, serveVars, closeVars, queueVars, heardVars
<1>a. sent \in Seq(Frame) /\ got \in Seq(1 .. MaxOutput) /\ out \in Seq(1 .. MaxOutput) /\ ctrl \in Seq(Message)
  BY DEF TypeOK, BrowserTypes, QueueTypes
<1>b. /\ Len(sent) \in Nat \ {0} /\ Head(sent) \in Frame /\ Head(sent) = sent[1]
       /\ Tail(sent) \in Seq(Frame) /\ Len(Tail(sent)) = Len(sent) - 1
       /\ \A i \in 1 .. Len(Tail(sent)) : Tail(sent)[i] = sent[i + 1]
  BY <1>a, HeadAndTail
<1>1. TypeOK'
  <2>1. TmuxTypes'
    BY <1>b DEF TypeOK, TmuxTypes, BrowserTypes, LoopTypes
  <2>2. BrowserTypes'
    BY <1>b DEF TypeOK, TmuxTypes, BrowserTypes, LoopTypes, QueueTypes
  <2>3. LoopTypes'
    BY <1>b DEF TypeOK, TmuxTypes, BrowserTypes, LoopTypes, QueueTypes, Frame
  <2>4. QueueTypes'
    BY <1>b DEF TypeOK, TmuxTypes, LoopTypes, QueueTypes
  <2>5. ServeTypes'
    BY <1>b DEF TypeOK, ServeTypes
  <2>6. QED
    BY <2>1, <2>2, <2>3, <2>4, <2>5 DEF TypeOK
<1>2. Accounted'
  BY <1>b DEF TypeOK, BrowserTypes, LoopTypes, QueueTypes, TmuxTypes, Accounted, Shown
<1>3. PumpClosed'
  BY <1>b DEF PumpClosed
<1>4. Ended'
  BY <1>b DEF TypeOK, LoopTypes, PumpClosed, Ended, Accounted, Shown
<1>5. Holding'
  BY <1>b DEF TypeOK, LoopTypes, Holding
<1>6. InPlace'
  BY <1>b DEF TypeOK, LoopTypes, TmuxTypes, BrowserTypes, QueueTypes, InPlace, Placed, Answered, Right
<1>7. QED
  BY <1>1, <1>2, <1>3, <1>4, <1>5, <1>6

LEMMA WriteInputStep == ASSUME IInv, WriteInput PROVE IInv'
<1> USE DEF IInv, WriteInput, PtyOpen, tmuxVars, browserVars, loopVars, serveVars, closeVars, queueVars, heardVars
<1>m. [type |-> "ack", bytes |-> written + 1] \in Message
  BY DEF TypeOK, QueueTypes, Message, Ack
<1>b. /\ ctrl' \in Seq(Message) /\ Len(ctrl') <= CtrlCap
       /\ \A i \in 1 .. Len(ctrl') : Right(ctrl'[i]) \/ (i <= Len(ctrl) /\ ctrl'[i] = ctrl[i])
  BY <1>m, Offered DEF TypeOK, QueueTypes, Right
<1>1. TypeOK'
  <2>a. input' \in 0 .. PtyCap
    BY DEF TypeOK, TmuxTypes
  <2>1. TmuxTypes'
    BY <2>a, <1>b DEF TypeOK, TmuxTypes, BrowserTypes, LoopTypes
  <2>2. BrowserTypes'
    BY <1>b DEF TypeOK, TmuxTypes, BrowserTypes, LoopTypes, QueueTypes
  <2>3. LoopTypes'
    BY <1>b DEF TypeOK, TmuxTypes, BrowserTypes, LoopTypes, QueueTypes
  <2>4. QueueTypes'
    BY <1>b DEF TypeOK, TmuxTypes, LoopTypes, QueueTypes
  <2>5. ServeTypes'
    BY <1>b DEF TypeOK, ServeTypes
  <2>6. QED
    BY <2>1, <2>2, <2>3, <2>4, <2>5 DEF TypeOK
<1>2. Accounted'
  BY <1>b DEF TypeOK, BrowserTypes, LoopTypes, QueueTypes, TmuxTypes, Accounted, Shown
<1>3. PumpClosed'
  BY <1>b DEF PumpClosed
<1>4. Ended'
  BY <1>b DEF TypeOK, LoopTypes, PumpClosed, Ended, Accounted, Shown
<1>5. Holding'
  BY <1>b DEF TypeOK, LoopTypes, Holding
<1>6. InPlace'
  <2> SUFFICES ASSUME ~gaveUp', Remembered \in alive' PROVE Placed' /\ Answered'
    BY DEF InPlace
  <2>1. Placed /\ Answered
    BY DEF InPlace
  <2>2. Placed'
    BY <2>1 DEF Placed, TypeOK, LoopTypes, TmuxTypes, BrowserTypes
  <2>3. Answered'
    BY <1>b, <2>1 DEF Answered, Right, Placed, TypeOK, LoopTypes
  <2>4. QED
    BY <2>2, <2>3
<1>7. QED
  BY <1>1, <1>2, <1>3, <1>4, <1>5, <1>6

LEMMA WriteFailsStep == ASSUME IInv, WriteFails PROVE IInv'
<1> USE DEF IInv, WriteFails, Report, PtyOpen, tmuxVars, browserVars, loopVars, serveVars, closeVars, queueVars, heardVars
<1>1. TypeOK'
  <2>1. TmuxTypes'
    BY DEF TypeOK, TmuxTypes, BrowserTypes, LoopTypes
  <2>2. BrowserTypes'
    BY DEF TypeOK, TmuxTypes, BrowserTypes, LoopTypes, QueueTypes
  <2>3. LoopTypes'
    BY DEF TypeOK, TmuxTypes, BrowserTypes, LoopTypes, QueueTypes
  <2>4. QueueTypes'
    BY DEF TypeOK, TmuxTypes, LoopTypes, QueueTypes
  <2>5. ServeTypes'
    BY DEF TypeOK, ServeTypes
  <2>6. QED
    BY <2>1, <2>2, <2>3, <2>4, <2>5 DEF TypeOK
<1>2. Accounted'
  BY DEF TypeOK, BrowserTypes, LoopTypes, QueueTypes, TmuxTypes, Accounted, Shown
<1>3. PumpClosed'
  BY DEF PumpClosed
<1>4. Ended'
  BY DEF TypeOK, LoopTypes, PumpClosed, Ended, Accounted, Shown
<1>5. Holding'
  BY DEF TypeOK, LoopTypes, Holding
<1>6. InPlace'
  BY DEF TypeOK, LoopTypes, TmuxTypes, BrowserTypes, QueueTypes, InPlace, Placed, Answered, Right
<1>7. QED
  BY <1>1, <1>2, <1>3, <1>4, <1>5, <1>6

LEMMA AskStep == ASSUME IInv, Ask PROVE IInv'
<1> USE DEF IInv, Ask, tmuxVars, browserVars, loopVars, serveVars, closeVars, queueVars, heardVars
<1> DEFINE m == [type |-> "pane", pane |-> current]
<1>m. m \in Message
  BY DEF TypeOK, TmuxTypes, Message, PaneMessage
<1>a. ctrl \in Seq(Message) /\ Len(ctrl) <= CtrlCap
  BY DEF TypeOK, QueueTypes
<1>b. \/ rd.frame = "select" /\ ctrl' = ctrl
      \/ rd.frame # "select" /\ Offer(m) /\ current' = current
  OBVIOUS
<1>c. ctrl' \in Seq(Message) /\ Len(ctrl') <= CtrlCap
  <2> HIDE DEF IInv, Ask, m
  <2>1. QED
    BY <1>m, <1>a, <1>b, Offered
<1>1. TypeOK'
  <2>1. TmuxTypes'
    BY <1>c DEF TypeOK, TmuxTypes, BrowserTypes, LoopTypes
  <2>2. BrowserTypes'
    BY <1>c DEF TypeOK, TmuxTypes, BrowserTypes, LoopTypes, QueueTypes
  <2>3. LoopTypes'
    BY <1>c DEF TypeOK, TmuxTypes, BrowserTypes, LoopTypes, QueueTypes
  <2>4. QueueTypes'
    BY <1>c DEF TypeOK, TmuxTypes, LoopTypes, QueueTypes
  <2>5. ServeTypes'
    BY <1>c DEF TypeOK, ServeTypes
  <2>6. QED
    BY <2>1, <2>2, <2>3, <2>4, <2>5 DEF TypeOK
<1>2. Accounted'
  BY <1>c DEF TypeOK, BrowserTypes, LoopTypes, QueueTypes, TmuxTypes, Accounted, Shown
<1>3. PumpClosed'
  BY <1>c DEF PumpClosed
<1>4. Ended'
  BY <1>c DEF TypeOK, LoopTypes, PumpClosed, Ended, Accounted, Shown
<1>5. Holding'
  BY <1>c DEF TypeOK, LoopTypes, Holding
<1>6. InPlace'
  <2> SUFFICES ASSUME ~gaveUp', Remembered \in alive' PROVE Placed' /\ Answered'
    BY DEF InPlace
  <2>1. Placed /\ Answered
    BY DEF InPlace
  <2>2. Placed'
    BY <2>1 DEF Placed, TypeOK, LoopTypes, TmuxTypes, BrowserTypes
  <2>3. Answered'
    <3>1. wr' = wr /\ answer' = answer /\ rd.at = "asking"
      OBVIOUS
    <3>2. rd.frame # "select" => Right(m)
      BY <2>1, <3>1 DEF Placed, Right
    <3> HIDE DEF IInv, Ask, m
    <3>3. CASE ctrl' = ctrl
      BY <2>1, <3>1, <3>3 DEF Answered
    <3>4. CASE rd.frame # "select" /\ Offer(m)
      <4>1. \A i \in 1 .. Len(ctrl') : ctrl'[i] = m \/ (i <= Len(ctrl) /\ ctrl'[i] = ctrl[i])
        BY <1>m, <1>a, <3>4, Offered
      <4>2. \A i \in 1 .. Len(ctrl') : Right(ctrl'[i])
        BY <2>1, <3>2, <3>4, <4>1 DEF Answered
      <4>3. QED
        BY <2>1, <3>1, <4>2 DEF Answered
    <3>5. QED
      BY <1>b, <3>3, <3>4
  <2>4. QED
    BY <2>2, <2>3
<1>7. QED
  BY <1>1, <1>2, <1>3, <1>4, <1>5, <1>6

LEMMA GiveUpStep == ASSUME IInv, GiveUp PROVE IInv'
<1> USE DEF IInv, GiveUp, tmuxVars, browserVars, loopVars, serveVars, closeVars, queueVars, heardVars
<1>1. TypeOK'
  <2>1. TmuxTypes'
    BY DEF TypeOK, TmuxTypes, BrowserTypes, LoopTypes
  <2>2. BrowserTypes'
    BY DEF TypeOK, TmuxTypes, BrowserTypes, LoopTypes, QueueTypes
  <2>3. LoopTypes'
    BY DEF TypeOK, TmuxTypes, BrowserTypes, LoopTypes, QueueTypes
  <2>4. QueueTypes'
    BY DEF TypeOK, TmuxTypes, LoopTypes, QueueTypes
  <2>5. ServeTypes'
    BY DEF TypeOK, ServeTypes
  <2>6. QED
    BY <2>1, <2>2, <2>3, <2>4, <2>5 DEF TypeOK
<1>2. Accounted'
  BY DEF TypeOK, BrowserTypes, LoopTypes, QueueTypes, TmuxTypes, Accounted, Shown
<1>3. PumpClosed'
  BY DEF PumpClosed
<1>4. Ended'
  BY DEF TypeOK, LoopTypes, PumpClosed, Ended, Accounted, Shown
<1>5. Holding'
  BY DEF TypeOK, LoopTypes, Holding
<1>6. InPlace'
  BY DEF TypeOK, LoopTypes, TmuxTypes, BrowserTypes, QueueTypes, InPlace, Placed, Answered, Right
<1>7. QED
  BY <1>1, <1>2, <1>3, <1>4, <1>5, <1>6

-----------------------------------------------------------------------------
(* The write loop *)

LEMMA WriterStopsStep == ASSUME IInv, WriterStops PROVE IInv'
<1> USE DEF IInv, WriterStops, Report, tmuxVars, browserVars, loopVars, serveVars, closeVars, queueVars, heardVars
<1>1. TypeOK'
  <2>1. TmuxTypes'
    BY DEF TypeOK, TmuxTypes, BrowserTypes, LoopTypes
  <2>2. BrowserTypes'
    BY DEF TypeOK, TmuxTypes, BrowserTypes, LoopTypes, QueueTypes
  <2>3. LoopTypes'
    BY DEF TypeOK, TmuxTypes, BrowserTypes, LoopTypes, QueueTypes
  <2>4. QueueTypes'
    BY DEF TypeOK, TmuxTypes, LoopTypes, QueueTypes
  <2>5. ServeTypes'
    BY DEF TypeOK, ServeTypes
  <2>6. QED
    BY <2>1, <2>2, <2>3, <2>4, <2>5 DEF TypeOK
<1>2. Accounted'
  BY DEF TypeOK, BrowserTypes, LoopTypes, QueueTypes, TmuxTypes, Accounted, Shown
<1>3. PumpClosed'
  BY DEF PumpClosed
<1>4. Ended'
  BY DEF TypeOK, LoopTypes, PumpClosed, Ended, Accounted, Shown
<1>5. Holding'
  BY DEF TypeOK, LoopTypes, Holding
<1>6. InPlace'
  BY DEF TypeOK, LoopTypes, TmuxTypes, BrowserTypes, QueueTypes, InPlace, Placed, Answered, Right
<1>7. QED
  BY <1>1, <1>2, <1>3, <1>4, <1>5, <1>6

LEMMA TakeControlStep == ASSUME IInv, TakeControl PROVE IInv'
<1> USE DEF IInv, TakeControl, tmuxVars, browserVars, loopVars, serveVars, closeVars, queueVars, heardVars
<1>a. sent \in Seq(Frame) /\ got \in Seq(1 .. MaxOutput) /\ out \in Seq(1 .. MaxOutput) /\ ctrl \in Seq(Message)
  BY DEF TypeOK, BrowserTypes, QueueTypes
<1>b. /\ Len(ctrl) \in Nat \ {0} /\ Head(ctrl) \in Message /\ Head(ctrl) = ctrl[1]
       /\ Tail(ctrl) \in Seq(Message) /\ Len(Tail(ctrl)) = Len(ctrl) - 1
       /\ \A i \in 1 .. Len(Tail(ctrl)) : Tail(ctrl)[i] = ctrl[i + 1]
  BY <1>a, HeadAndTail
<1>c. /\ wr'.at = "control" /\ wr'.out = 0 /\ wr'.ctrl = <<Head(ctrl)>>
       /\ wr'.ctrl \in Seq(Message) /\ Len(wr'.ctrl) = 1 /\ wr'.ctrl[1] = ctrl[1]
       /\ wr' = [at |-> "control", out |-> 0, ctrl |-> wr'.ctrl]
  BY <1>b
<1>1. TypeOK'
  <2>1. TmuxTypes'
    BY <1>b, <1>c DEF TypeOK, TmuxTypes, BrowserTypes, LoopTypes
  <2>2. BrowserTypes'
    BY <1>b, <1>c DEF TypeOK, TmuxTypes, BrowserTypes, LoopTypes, QueueTypes
  <2>a. wr' \in [at : {"select", "control", "data", "done"}, out : 0 .. MaxOutput, ctrl : Seq(Message)]
    BY <1>c
  <2>3. LoopTypes'
    BY <2>a, <1>b, <1>c DEF TypeOK, TmuxTypes, BrowserTypes, LoopTypes, QueueTypes
  <2>4. QueueTypes'
    BY <1>b, <1>c DEF TypeOK, TmuxTypes, LoopTypes, QueueTypes
  <2>5. ServeTypes'
    BY <1>b, <1>c DEF TypeOK, ServeTypes
  <2>6. QED
    BY <2>1, <2>2, <2>3, <2>4, <2>5 DEF TypeOK
<1>2. Accounted'
  BY <1>b, <1>c DEF TypeOK, BrowserTypes, LoopTypes, QueueTypes, TmuxTypes, Accounted, Shown
<1>3. PumpClosed'
  BY <1>b, <1>c DEF PumpClosed
<1>4. Ended'
  BY <1>b, <1>c DEF TypeOK, LoopTypes, PumpClosed, Ended, Accounted, Shown
<1>5. Holding'
  BY <1>b, <1>c DEF TypeOK, LoopTypes, Holding
<1>6. InPlace'
  <2> SUFFICES ASSUME ~gaveUp', Remembered \in alive' PROVE Placed' /\ Answered'
    BY DEF InPlace
  <2>1. Placed /\ Answered
    BY DEF InPlace
  <2>2. Placed'
    BY <1>c, <2>1 DEF Placed, TypeOK, LoopTypes, TmuxTypes, BrowserTypes
  <2>3. Answered'
    BY <1>b, <1>c, <2>1 DEF Answered, Right, Placed, TypeOK, LoopTypes
  <2>4. QED
    BY <2>2, <2>3
<1>7. QED
  BY <1>1, <1>2, <1>3, <1>4, <1>5, <1>6

LEMMA TakeOutputStep == ASSUME IInv, TakeOutput PROVE IInv'
<1> USE DEF IInv, TakeOutput, tmuxVars, browserVars, loopVars, serveVars, closeVars, queueVars, heardVars
<1>a. sent \in Seq(Frame) /\ got \in Seq(1 .. MaxOutput) /\ out \in Seq(1 .. MaxOutput) /\ ctrl \in Seq(Message)
  BY DEF TypeOK, BrowserTypes, QueueTypes
<1>b. /\ Len(out) \in Nat \ {0} /\ Head(out) \in 1 .. MaxOutput /\ Head(out) = out[1]
       /\ Tail(out) \in Seq(1 .. MaxOutput) /\ Len(Tail(out)) = Len(out) - 1
       /\ \A i \in 1 .. Len(Tail(out)) : Tail(out)[i] = out[i + 1]
  BY <1>a, HeadAndTail
<1>c. /\ wr'.at = "data" /\ wr'.out = Head(out) /\ wr'.ctrl = <<>>
       /\ wr'.ctrl \in Seq(Message) /\ Len(wr'.ctrl) = 0
       /\ wr' = [at |-> "data", out |-> Head(out), ctrl |-> wr'.ctrl]
  BY <1>b
<1>1. TypeOK'
  <2>1. TmuxTypes'
    BY <1>b, <1>c DEF TypeOK, TmuxTypes, BrowserTypes, LoopTypes
  <2>2. BrowserTypes'
    BY <1>b, <1>c DEF TypeOK, TmuxTypes, BrowserTypes, LoopTypes, QueueTypes
  <2>a. wr' \in [at : {"select", "control", "data", "done"}, out : 0 .. MaxOutput, ctrl : Seq(Message)]
    BY <1>b, <1>c
  <2>3. LoopTypes'
    BY <2>a, <1>b, <1>c DEF TypeOK, TmuxTypes, BrowserTypes, LoopTypes, QueueTypes
  <2>4. QueueTypes'
    BY <1>b, <1>c DEF TypeOK, TmuxTypes, LoopTypes, QueueTypes
  <2>5. ServeTypes'
    BY <1>b, <1>c DEF TypeOK, ServeTypes
  <2>6. QED
    BY <2>1, <2>2, <2>3, <2>4, <2>5 DEF TypeOK
<1>2. Accounted'
  <2> DEFINE a == Len(got)
  <2>1. /\ a \in Nat /\ Len(out) \in Nat \ {0} /\ pumped \in Nat
        /\ wr.at = "select" /\ got' = got /\ pumped' = pumped /\ closer' = closer /\ out' = Tail(out)
    BY <1>a, <1>b DEF TypeOK, QueueTypes, TmuxTypes
  <2>2. /\ \A i \in 1 .. a : got[i] = i
        /\ \A i \in 1 .. Len(out) : out[i] = a + i
        /\ a + Len(out) = pumped \/ closer = "pump"
    BY <2>1 DEF Accounted, Shown
  <2>3. Shown' = a + 1
    BY <2>1, <1>c DEF Shown
  <2>4. wr'.out = a + 1
    BY <2>1, <2>2, <1>b, <1>c
  <2>5. \A i \in 1 .. Len(out') : out'[i] = a + 1 + i
    <3> HIDE DEF IInv, TakeOutput, a
    <3>1. ASSUME NEW i \in 1 .. Len(Tail(out)) PROVE Tail(out)[i] = a + 1 + i
      <4>1. i \in Nat /\ i + 1 \in 1 .. Len(out)
        BY <1>b, <2>1
      <4>2. Tail(out)[i] = out[i + 1] /\ out[i + 1] = a + (i + 1)
        BY <4>1, <2>2, <1>b
      <4>3. QED
        BY <4>1, <4>2, <2>1
    <3>2. QED
      BY <3>1, <2>1
  <2>6. a + 1 + Len(out') = pumped' \/ closer' = "pump"
    BY <2>1, <2>2, <1>b
  <2> HIDE DEF IInv, TakeOutput
  <2>7. QED
    BY <2>1, <2>2, <2>3, <2>4, <2>5, <2>6 DEF Accounted
<1>3. PumpClosed'
  BY <1>b, <1>c DEF PumpClosed
<1>4. Ended'
  BY <1>b, <1>c DEF TypeOK, LoopTypes, PumpClosed, Ended, Accounted, Shown
<1>5. Holding'
  BY <1>b, <1>c DEF TypeOK, LoopTypes, Holding
<1>6. InPlace'
  <2> SUFFICES ASSUME ~gaveUp', Remembered \in alive' PROVE Placed' /\ Answered'
    BY DEF InPlace
  <2>1. Placed /\ Answered
    BY DEF InPlace
  <2>2. Placed'
    BY <1>c, <2>1 DEF Placed, TypeOK, LoopTypes, TmuxTypes, BrowserTypes
  <2>3. Answered'
    BY <1>c, <2>1 DEF Answered, Right, Placed, TypeOK, LoopTypes
  <2>4. QED
    BY <2>2, <2>3
<1>7. QED
  BY <1>1, <1>2, <1>3, <1>4, <1>5, <1>6

LEMMA OutputEndsStep == ASSUME IInv, OutputEnds PROVE IInv'
<1> USE DEF IInv, OutputEnds, Report, tmuxVars, browserVars, loopVars, serveVars, closeVars, queueVars, heardVars
<1>1. TypeOK'
  <2>1. TmuxTypes'
    BY DEF TypeOK, TmuxTypes, BrowserTypes, LoopTypes
  <2>2. BrowserTypes'
    BY DEF TypeOK, TmuxTypes, BrowserTypes, LoopTypes, QueueTypes
  <2>3. LoopTypes'
    BY DEF TypeOK, TmuxTypes, BrowserTypes, LoopTypes, QueueTypes
  <2>4. QueueTypes'
    BY DEF TypeOK, TmuxTypes, LoopTypes, QueueTypes
  <2>5. ServeTypes'
    BY DEF TypeOK, ServeTypes
  <2>6. QED
    BY <2>1, <2>2, <2>3, <2>4, <2>5 DEF TypeOK
<1>2. Accounted'
  BY DEF TypeOK, BrowserTypes, LoopTypes, QueueTypes, TmuxTypes, Accounted, Shown
<1>3. PumpClosed'
  BY DEF PumpClosed
<1>4. Ended'
  <2>1. Len(got) = pumped \/ closer = "pump"
    <3>1. out = <<>> /\ wr.at = "select"
      OBVIOUS
    <3>2. got \in Seq(1 .. MaxOutput) /\ pumped \in 0 .. drawn /\ drawn \in 0 .. MaxOutput
      BY DEF TypeOK, BrowserTypes, TmuxTypes, QueueTypes
    <3>3. Accounted
      OBVIOUS
    <3> HIDE DEF IInv, OutputEnds
    <3>4. Len(got) \in Nat /\ pumped \in Nat /\ Len(out) = 0
      BY <3>1, <3>2
    <3>5. QED
      BY <3>1, <3>3, <3>4 DEF Accounted, Shown
  <2>2. QED
    BY <2>1 DEF TypeOK, LoopTypes, PumpClosed, Ended, Accounted, Shown
<1>5. Holding'
  BY DEF TypeOK, LoopTypes, Holding
<1>6. InPlace'
  BY DEF TypeOK, LoopTypes, TmuxTypes, BrowserTypes, QueueTypes, InPlace, Placed, Answered, Right
<1>7. QED
  BY <1>1, <1>2, <1>3, <1>4, <1>5, <1>6

LEMMA DeliverStep == ASSUME IInv, Deliver PROVE IInv'
<1> USE DEF IInv, Deliver, tmuxVars, browserVars, loopVars, serveVars, closeVars, queueVars, heardVars
<1>a. sent \in Seq(Frame) /\ got \in Seq(1 .. MaxOutput) /\ out \in Seq(1 .. MaxOutput) /\ ctrl \in Seq(Message)
  BY DEF TypeOK, BrowserTypes, QueueTypes
<1>b. wr.at = "data" => /\ Append(got, wr.out) \in Seq(1 .. MaxOutput)
                          /\ Len(Append(got, wr.out)) = Len(got) + 1
                          /\ \A i \in 1 .. Len(got) : Append(got, wr.out)[i] = got[i]
                          /\ Append(got, wr.out)[Len(got) + 1] = wr.out
  <2>1. wr.at = "data" => wr.out \in 1 .. MaxOutput
    BY <1>a DEF TypeOK, LoopTypes, Accounted
  <2>2. QED
    BY <1>a, <2>1, Appended
<1>c. /\ wr'.at = "select" /\ wr'.out = 0 /\ wr'.ctrl = <<>>
       /\ wr'.ctrl \in Seq(Message) /\ Len(wr'.ctrl) = 0
       /\ wr' = [at |-> "select", out |-> 0, ctrl |-> wr'.ctrl]
  BY <1>b
<1>d. wr.at = "control" /\ wr.ctrl[1].type = "pane" => wr.ctrl[1].pane \in Pane
  <2>1. wr.at = "control" => wr.ctrl[1] \in Message
    BY DEF TypeOK, LoopTypes, Holding
  <2>2. \A m \in Message : m.type = "pane" => m.pane \in Pane
    BY DEF Message, Ack, PaneMessage
  <2>3. QED
    BY <2>1, <2>2
<1>1. TypeOK'
  <2>1. TmuxTypes'
    BY <1>b, <1>c DEF TypeOK, TmuxTypes, BrowserTypes, LoopTypes
  <2>b. got' \in Seq(1 .. MaxOutput) /\ answer' \in Pane \cup {NoPane}
    BY <1>a, <1>b, <1>d DEF TypeOK, BrowserTypes
  <2>2. BrowserTypes'
    BY <2>b, <1>b, <1>c DEF TypeOK, TmuxTypes, BrowserTypes, LoopTypes, QueueTypes
  <2>a. wr' \in [at : {"select", "control", "data", "done"}, out : 0 .. MaxOutput, ctrl : Seq(Message)]
    BY <1>c
  <2>3. LoopTypes'
    BY <2>a, <1>b, <1>c DEF TypeOK, TmuxTypes, BrowserTypes, LoopTypes, QueueTypes
  <2>4. QueueTypes'
    BY <1>b, <1>c DEF TypeOK, TmuxTypes, LoopTypes, QueueTypes
  <2>5. ServeTypes'
    BY <1>b, <1>c DEF TypeOK, ServeTypes
  <2>6. QED
    BY <2>1, <2>2, <2>3, <2>4, <2>5 DEF TypeOK
<1>2. Accounted'
  <2> DEFINE a == Len(got)
  <2>1. /\ a \in Nat /\ out' = out /\ pumped' = pumped /\ closer' = closer
        /\ wr.at \in {"control", "data"} /\ wr'.at = "select"
        /\ got' = IF wr.at = "data" THEN Append(got, wr.out) ELSE got
    BY <1>a, <1>c
  <2>2. Len(got') = Shown /\ Shown' = Shown
    BY <2>1, <1>b DEF Shown
  <2>3. \A i \in 1 .. Len(got') : got'[i] = i
    <3>1. CASE wr.at = "data"
      BY <3>1, <2>1, <1>b DEF Accounted
    <3>2. CASE wr.at # "data"
      BY <3>2, <2>1 DEF Accounted
    <3>3. QED
      BY <3>1, <3>2
  <2>4. wr.at # "done" /\ Accounted
    BY <2>1
  <2> HIDE DEF IInv, Deliver
  <2>5. QED
    BY <2>1, <2>2, <2>3, <2>4 DEF Accounted
<1>3. PumpClosed'
  BY <1>b, <1>c DEF PumpClosed
<1>4. Ended'
  BY <1>b, <1>c DEF TypeOK, LoopTypes, PumpClosed, Ended, Accounted, Shown
<1>5. Holding'
  BY <1>b, <1>c DEF TypeOK, LoopTypes, Holding
<1>6. InPlace'
  <2> SUFFICES ASSUME ~gaveUp', Remembered \in alive' PROVE Placed' /\ Answered'
    BY DEF InPlace
  <2>1. Placed /\ Answered
    BY DEF InPlace
  <2>2. Placed'
    BY <1>c, <2>1 DEF Placed, TypeOK, LoopTypes, TmuxTypes, BrowserTypes
  <2>3. Answered'
    <3>1. answer' # NoPane => answer' = Remembered
      <4>1. CASE wr.at = "control" /\ wr.ctrl[1].type = "pane"
        <5>1. Len(wr.ctrl) = 1 /\ answer' = wr.ctrl[1].pane
          BY <4>1 DEF Holding
        <5>2. Right(wr.ctrl[1])
          BY <5>1, <2>1 DEF Answered
        <5>3. QED
          BY <4>1, <5>1, <5>2 DEF Right
      <4>2. CASE ~(wr.at = "control" /\ wr.ctrl[1].type = "pane")
        BY <4>2, <2>1 DEF Answered
      <4>3. QED
        BY <4>1, <4>2
    <3>2. ctrl' = ctrl /\ Len(wr'.ctrl) = 0
      BY <1>c
    <3> HIDE DEF IInv, Deliver
    <3>3. QED
      BY <3>1, <3>2, <2>1 DEF Answered
  <2>4. QED
    BY <2>2, <2>3
<1>7. QED
  BY <1>1, <1>2, <1>3, <1>4, <1>5, <1>6

LEMMA DeliverFailsStep == ASSUME IInv, DeliverFails PROVE IInv'
<1> USE DEF IInv, DeliverFails, Report, tmuxVars, browserVars, loopVars, serveVars, closeVars, queueVars, heardVars
<1>1. TypeOK'
  <2>1. TmuxTypes'
    BY DEF TypeOK, TmuxTypes, BrowserTypes, LoopTypes
  <2>2. BrowserTypes'
    BY DEF TypeOK, TmuxTypes, BrowserTypes, LoopTypes, QueueTypes
  <2>3. LoopTypes'
    BY DEF TypeOK, TmuxTypes, BrowserTypes, LoopTypes, QueueTypes
  <2>4. QueueTypes'
    BY DEF TypeOK, TmuxTypes, LoopTypes, QueueTypes
  <2>5. ServeTypes'
    BY DEF TypeOK, ServeTypes
  <2>6. QED
    BY <2>1, <2>2, <2>3, <2>4, <2>5 DEF TypeOK
<1>2. Accounted'
  BY DEF TypeOK, BrowserTypes, LoopTypes, QueueTypes, TmuxTypes, Accounted, Shown
<1>3. PumpClosed'
  BY DEF PumpClosed
<1>4. Ended'
  BY DEF TypeOK, LoopTypes, PumpClosed, Ended, Accounted, Shown
<1>5. Holding'
  BY DEF TypeOK, LoopTypes, Holding
<1>6. InPlace'
  BY DEF TypeOK, LoopTypes, TmuxTypes, BrowserTypes, QueueTypes, InPlace, Placed, Answered, Right
<1>7. QED
  BY <1>1, <1>2, <1>3, <1>4, <1>5, <1>6

-----------------------------------------------------------------------------
(* The ping loop *)

LEMMA PingStep == ASSUME IInv, Ping PROVE IInv'
<1> USE DEF IInv, Ping, tmuxVars, browserVars, loopVars, serveVars, closeVars, queueVars, heardVars
<1>1. TypeOK'
  <2>1. TmuxTypes'
    BY DEF TypeOK, TmuxTypes, BrowserTypes, LoopTypes
  <2>2. BrowserTypes'
    BY DEF TypeOK, TmuxTypes, BrowserTypes, LoopTypes, QueueTypes
  <2>3. LoopTypes'
    BY DEF TypeOK, TmuxTypes, BrowserTypes, LoopTypes, QueueTypes
  <2>4. QueueTypes'
    BY DEF TypeOK, TmuxTypes, LoopTypes, QueueTypes
  <2>5. ServeTypes'
    BY DEF TypeOK, ServeTypes
  <2>6. QED
    BY <2>1, <2>2, <2>3, <2>4, <2>5 DEF TypeOK
<1>2. QED
  BY <1>1, Undisturbed

LEMMA PongStep == ASSUME IInv, Pong PROVE IInv'
<1> USE DEF IInv, Pong, tmuxVars, browserVars, loopVars, serveVars, closeVars, queueVars, heardVars
<1>1. TypeOK'
  <2>1. TmuxTypes'
    BY DEF TypeOK, TmuxTypes, BrowserTypes, LoopTypes
  <2>2. BrowserTypes'
    BY DEF TypeOK, TmuxTypes, BrowserTypes, LoopTypes, QueueTypes
  <2>3. LoopTypes'
    BY DEF TypeOK, TmuxTypes, BrowserTypes, LoopTypes, QueueTypes
  <2>4. QueueTypes'
    BY DEF TypeOK, TmuxTypes, LoopTypes, QueueTypes
  <2>5. ServeTypes'
    BY DEF TypeOK, ServeTypes
  <2>6. QED
    BY <2>1, <2>2, <2>3, <2>4, <2>5 DEF TypeOK
<1>2. QED
  BY <1>1, Undisturbed

LEMMA PingEndsStep == ASSUME IInv, PingEnds PROVE IInv'
<1> USE DEF IInv, PingEnds, Report, tmuxVars, browserVars, loopVars, serveVars, closeVars, queueVars, heardVars
<1>1. TypeOK'
  <2>1. TmuxTypes'
    BY DEF TypeOK, TmuxTypes, BrowserTypes, LoopTypes
  <2>2. BrowserTypes'
    BY DEF TypeOK, TmuxTypes, BrowserTypes, LoopTypes, QueueTypes
  <2>3. LoopTypes'
    BY DEF TypeOK, TmuxTypes, BrowserTypes, LoopTypes, QueueTypes
  <2>4. QueueTypes'
    BY DEF TypeOK, TmuxTypes, LoopTypes, QueueTypes
  <2>5. ServeTypes'
    BY DEF TypeOK, ServeTypes
  <2>6. QED
    BY <2>1, <2>2, <2>3, <2>4, <2>5 DEF TypeOK
<1>2. Accounted'
  BY DEF TypeOK, BrowserTypes, LoopTypes, QueueTypes, TmuxTypes, Accounted, Shown
<1>3. PumpClosed'
  BY DEF PumpClosed
<1>4. Ended'
  BY DEF TypeOK, LoopTypes, PumpClosed, Ended, Accounted, Shown
<1>5. Holding'
  BY DEF TypeOK, LoopTypes, Holding
<1>6. InPlace'
  BY DEF TypeOK, LoopTypes, TmuxTypes, BrowserTypes, QueueTypes, InPlace, Placed, Answered, Right
<1>7. QED
  BY <1>1, <1>2, <1>3, <1>4, <1>5, <1>6

-----------------------------------------------------------------------------
(* The pump and Session.Close *)

LEMMA PumpStep == ASSUME IInv, Pump PROVE IInv'
<1> USE DEF IInv, Pump, Close, PtyOpen, tmuxVars, browserVars, loopVars, serveVars, closeVars, queueVars, heardVars
<1>a. pumped + 1 \in 1 .. MaxOutput /\ pumped' \in 0 .. drawn
  BY DEF TypeOK, TmuxTypes, QueueTypes
<1>b. /\ Append(out, pumped + 1) \in Seq(1 .. MaxOutput)
       /\ Len(Append(out, pumped + 1)) = Len(out) + 1 /\ Len(out) \in Nat
       /\ \A i \in 1 .. Len(out) : Append(out, pumped + 1)[i] = out[i]
       /\ Append(out, pumped + 1)[Len(out) + 1] = pumped + 1
  BY <1>a, Appended DEF TypeOK, QueueTypes
<1>c. out' \in Seq(1 .. MaxOutput) /\ Len(out') <= OutCap
  <2>1. out \in Seq(1 .. MaxOutput) /\ Len(out) <= OutCap
    BY DEF TypeOK, QueueTypes
  <2>2. CASE Len(out) < OutCap
    <3>1. out' = Append(out, pumped + 1)
      BY <2>2
    <3>2. QED
      BY <3>1, <2>2, <1>b
  <2>3. CASE ~(Len(out) < OutCap)
    <3>1. out' = out
      BY <2>3
    <3>2. QED
      BY <3>1, <2>1
  <2>4. QED
    BY <2>2, <2>3
<1>1. TypeOK'
  <2>1. TmuxTypes'
    BY <1>a, <1>b, <1>c DEF TypeOK, TmuxTypes, BrowserTypes, LoopTypes
  <2>2. BrowserTypes'
    BY <1>a, <1>b, <1>c DEF TypeOK, TmuxTypes, BrowserTypes, LoopTypes, QueueTypes
  <2>3. LoopTypes'
    BY <1>a, <1>b, <1>c DEF TypeOK, TmuxTypes, BrowserTypes, LoopTypes, QueueTypes
  <2>4. QueueTypes'
    BY <1>a, <1>b, <1>c DEF TypeOK, TmuxTypes, LoopTypes, QueueTypes
  <2>5. ServeTypes'
    BY <1>a, <1>b, <1>c DEF TypeOK, ServeTypes
  <2>6. QED
    BY <2>1, <2>2, <2>3, <2>4, <2>5 DEF TypeOK
<1>2. Accounted'
  <2> DEFINE a == Len(got)
  <2>1. /\ Shown \in Nat /\ Len(out) \in Nat /\ pumped \in Nat
        /\ pump = "reading" /\ got' = got /\ wr' = wr /\ pumped' = pumped + 1
    <3>1. got \in Seq(1 .. MaxOutput) /\ pumped \in 0 .. drawn /\ drawn \in 0 .. MaxOutput
      BY DEF TypeOK, BrowserTypes, TmuxTypes, QueueTypes
    <3>2. /\ pump = "reading" /\ got' = got /\ wr' = wr /\ pumped' = pumped + 1
      OBVIOUS
    <3> HIDE DEF IInv, Pump
    <3>3. Len(got) \in Nat /\ pumped \in Nat
      BY <3>1
    <3>4. Shown \in Nat
      BY <3>3 DEF Shown
    <3>5. QED
      BY <1>b, <3>2, <3>3, <3>4
  <2>0. Accounted
    OBVIOUS
  <2>2. Shown' = Shown
    BY <2>1 DEF Shown
  <2>3. closer # "pump"
    BY <2>1 DEF PumpClosed
  <2>4. \/ closer' = closer /\ out' = Append(out, pumped + 1)
        \/ closer' = "pump" /\ out' = out
    OBVIOUS
  <2> HIDE DEF IInv, Pump
  <2>5. wr.at # "done" => /\ \A i \in 1 .. Len(out') : out'[i] = Shown + i
                          /\ Shown + Len(out') = pumped' \/ closer' = "pump"
    <3> SUFFICES ASSUME wr.at # "done"
                 PROVE  /\ \A i \in 1 .. Len(out') : out'[i] = Shown + i
                        /\ Shown + Len(out') = pumped' \/ closer' = "pump"
      OBVIOUS
    <3>1. /\ \A i \in 1 .. Len(out) : out[i] = Shown + i
          /\ Shown + Len(out) = pumped
      BY <2>3, <2>0 DEF Accounted
    <3>2. CASE closer' = "pump" /\ out' = out
      BY <3>1, <3>2
    <3>3. CASE out' = Append(out, pumped + 1)
      <4>1. \A i \in 1 .. Len(out) + 1 : i \in 1 .. Len(out) \/ i = Len(out) + 1
        BY <2>1
      <4>2. pumped + 1 = Shown + (Len(out) + 1) /\ pumped' = Shown + (Len(out) + 1)
        BY <2>1, <3>1
      <4>3. QED
        BY <3>1, <3>3, <4>1, <4>2, <1>b
    <3>4. QED
      BY <2>4, <3>2, <3>3
  <2>6. QED
    BY <2>0, <2>1, <2>2, <2>5 DEF Accounted
<1>3. PumpClosed'
  BY <1>a, <1>b, <1>c DEF PumpClosed
<1>4. Ended'
  BY <1>a, <1>b, <1>c DEF TypeOK, LoopTypes, PumpClosed, Ended, Accounted, Shown
<1>5. Holding'
  BY <1>a, <1>b, <1>c DEF TypeOK, LoopTypes, Holding
<1>6. InPlace'
  BY <1>a, <1>b, <1>c DEF TypeOK, LoopTypes, TmuxTypes, BrowserTypes, QueueTypes, InPlace, Placed, Answered, Right
<1>7. QED
  BY <1>1, <1>2, <1>3, <1>4, <1>5, <1>6

LEMMA PumpEndsStep == ASSUME IInv, PumpEnds PROVE IInv'
<1> USE DEF IInv, PumpEnds, PtyOpen, tmuxVars, browserVars, loopVars, serveVars, closeVars, queueVars, heardVars
<1>1. TypeOK'
  <2>1. TmuxTypes'
    BY DEF TypeOK, TmuxTypes, BrowserTypes, LoopTypes
  <2>2. BrowserTypes'
    BY DEF TypeOK, TmuxTypes, BrowserTypes, LoopTypes, QueueTypes
  <2>3. LoopTypes'
    BY DEF TypeOK, TmuxTypes, BrowserTypes, LoopTypes, QueueTypes
  <2>4. QueueTypes'
    BY DEF TypeOK, TmuxTypes, LoopTypes, QueueTypes
  <2>5. ServeTypes'
    BY DEF TypeOK, ServeTypes
  <2>6. QED
    BY <2>1, <2>2, <2>3, <2>4, <2>5 DEF TypeOK
<1>2. Accounted'
  BY DEF TypeOK, BrowserTypes, LoopTypes, QueueTypes, TmuxTypes, Accounted, Shown
<1>3. PumpClosed'
  BY DEF PumpClosed
<1>4. Ended'
  BY DEF TypeOK, LoopTypes, PumpClosed, Ended, Accounted, Shown
<1>5. Holding'
  BY DEF TypeOK, LoopTypes, Holding
<1>6. InPlace'
  BY DEF TypeOK, LoopTypes, TmuxTypes, BrowserTypes, QueueTypes, InPlace, Placed, Answered, Right
<1>7. QED
  BY <1>1, <1>2, <1>3, <1>4, <1>5, <1>6

LEMMA CloseEndsStep == ASSUME IInv, CloseEnds PROVE IInv'
<1> USE DEF IInv, CloseEnds, tmuxVars, browserVars, loopVars, serveVars, closeVars, queueVars, heardVars
<1>1. TypeOK'
  <2>1. TmuxTypes'
    BY DEF TypeOK, TmuxTypes, BrowserTypes, LoopTypes
  <2>2. BrowserTypes'
    BY DEF TypeOK, TmuxTypes, BrowserTypes, LoopTypes, QueueTypes
  <2>3. LoopTypes'
    BY DEF TypeOK, TmuxTypes, BrowserTypes, LoopTypes, QueueTypes
  <2>4. QueueTypes'
    BY DEF TypeOK, TmuxTypes, LoopTypes, QueueTypes
  <2>5. ServeTypes'
    BY DEF TypeOK, ServeTypes
  <2>6. QED
    BY <2>1, <2>2, <2>3, <2>4, <2>5 DEF TypeOK
<1>2. QED
  BY <1>1, Undisturbed

-----------------------------------------------------------------------------
(* serve *)

LEMMA CancelStep == ASSUME IInv, Cancel PROVE IInv'
<1> USE DEF IInv, Cancel, tmuxVars, browserVars, loopVars, serveVars, closeVars, queueVars, heardVars
<1>1. TypeOK'
  <2>1. TmuxTypes'
    BY DEF TypeOK, TmuxTypes, BrowserTypes, LoopTypes
  <2>b. told' \in {"none", "graceful unsupported", "graceful session ended"}
    BY DEF TypeOK, BrowserTypes, ServeTypes
  <2>2. BrowserTypes'
    BY <2>b DEF TypeOK, TmuxTypes, BrowserTypes, LoopTypes, QueueTypes
  <2>3. LoopTypes'
    BY DEF TypeOK, TmuxTypes, BrowserTypes, LoopTypes, QueueTypes
  <2>4. QueueTypes'
    BY DEF TypeOK, TmuxTypes, LoopTypes, QueueTypes
  <2>5. ServeTypes'
    BY DEF TypeOK, ServeTypes
  <2>6. QED
    BY <2>1, <2>2, <2>3, <2>4, <2>5 DEF TypeOK
<1>2. Accounted'
  BY DEF TypeOK, BrowserTypes, LoopTypes, QueueTypes, TmuxTypes, Accounted, Shown
<1>3. PumpClosed'
  BY DEF PumpClosed
<1>4. Ended'
  BY DEF TypeOK, LoopTypes, PumpClosed, Ended, Accounted, Shown
<1>5. Holding'
  BY DEF TypeOK, LoopTypes, Holding
<1>6. InPlace'
  BY DEF TypeOK, LoopTypes, TmuxTypes, BrowserTypes, QueueTypes, InPlace, Placed, Answered, Right
<1>7. QED
  BY <1>1, <1>2, <1>3, <1>4, <1>5, <1>6

LEMMA CloseSessionStep == ASSUME IInv, CloseSession PROVE IInv'
<1> USE DEF IInv, CloseSession, Close, PtyOpen, LoopsDone, tmuxVars, browserVars, loopVars, serveVars, closeVars, queueVars, heardVars
<1>1. TypeOK'
  <2>1. TmuxTypes'
    BY DEF TypeOK, TmuxTypes, BrowserTypes, LoopTypes
  <2>2. BrowserTypes'
    BY DEF TypeOK, TmuxTypes, BrowserTypes, LoopTypes, QueueTypes
  <2>3. LoopTypes'
    BY DEF TypeOK, TmuxTypes, BrowserTypes, LoopTypes, QueueTypes
  <2>4. QueueTypes'
    BY DEF TypeOK, TmuxTypes, LoopTypes, QueueTypes
  <2>5. ServeTypes'
    BY DEF TypeOK, ServeTypes
  <2>6. QED
    BY <2>1, <2>2, <2>3, <2>4, <2>5 DEF TypeOK
<1>2. Accounted'
  BY DEF TypeOK, BrowserTypes, LoopTypes, QueueTypes, TmuxTypes, Accounted, Shown
<1>3. PumpClosed'
  BY DEF PumpClosed
<1>4. Ended'
  BY DEF TypeOK, LoopTypes, PumpClosed, Ended, Accounted, Shown
<1>5. Holding'
  BY DEF TypeOK, LoopTypes, Holding
<1>6. InPlace'
  BY DEF TypeOK, LoopTypes, TmuxTypes, BrowserTypes, QueueTypes, InPlace, Placed, Answered, Right
<1>7. QED
  BY <1>1, <1>2, <1>3, <1>4, <1>5, <1>6

LEMMA ServeEndsStep == ASSUME IInv, ServeEnds PROVE IInv'
<1> USE DEF IInv, ServeEnds, tmuxVars, browserVars, loopVars, serveVars, closeVars, queueVars, heardVars
<1>1. TypeOK'
  <2>1. TmuxTypes'
    BY DEF TypeOK, TmuxTypes, BrowserTypes, LoopTypes
  <2>2. BrowserTypes'
    BY DEF TypeOK, TmuxTypes, BrowserTypes, LoopTypes, QueueTypes
  <2>3. LoopTypes'
    BY DEF TypeOK, TmuxTypes, BrowserTypes, LoopTypes, QueueTypes
  <2>4. QueueTypes'
    BY DEF TypeOK, TmuxTypes, LoopTypes, QueueTypes
  <2>5. ServeTypes'
    BY DEF TypeOK, ServeTypes
  <2>6. QED
    BY <2>1, <2>2, <2>3, <2>4, <2>5 DEF TypeOK
<1>2. QED
  BY <1>1, Undisturbed

-----------------------------------------------------------------------------
(* tmux, the browser and the network *)

LEMMA AttachStep == ASSUME IInv, Attach PROVE IInv'
<1> USE DEF IInv, Attach, tmuxVars, browserVars, loopVars, serveVars, closeVars, queueVars, heardVars
<1>1. TypeOK'
  <2>1. TmuxTypes'
    BY DEF TypeOK, TmuxTypes, BrowserTypes, LoopTypes
  <2>2. BrowserTypes'
    BY DEF TypeOK, TmuxTypes, BrowserTypes, LoopTypes, QueueTypes
  <2>3. LoopTypes'
    BY DEF TypeOK, TmuxTypes, BrowserTypes, LoopTypes, QueueTypes
  <2>4. QueueTypes'
    BY DEF TypeOK, TmuxTypes, LoopTypes, QueueTypes
  <2>5. ServeTypes'
    BY DEF TypeOK, ServeTypes
  <2>6. QED
    BY <2>1, <2>2, <2>3, <2>4, <2>5 DEF TypeOK
<1>2. QED
  BY <1>1, Undisturbed

LEMMA ClientExitsStep == ASSUME IInv, ClientExits PROVE IInv'
<1> USE DEF IInv, ClientExits, tmuxVars, browserVars, loopVars, serveVars, closeVars, queueVars, heardVars
<1>1. TypeOK'
  <2>1. TmuxTypes'
    BY DEF TypeOK, TmuxTypes, BrowserTypes, LoopTypes
  <2>2. BrowserTypes'
    BY DEF TypeOK, TmuxTypes, BrowserTypes, LoopTypes, QueueTypes
  <2>3. LoopTypes'
    BY DEF TypeOK, TmuxTypes, BrowserTypes, LoopTypes, QueueTypes
  <2>4. QueueTypes'
    BY DEF TypeOK, TmuxTypes, LoopTypes, QueueTypes
  <2>5. ServeTypes'
    BY DEF TypeOK, ServeTypes
  <2>6. QED
    BY <2>1, <2>2, <2>3, <2>4, <2>5 DEF TypeOK
<1>2. QED
  BY <1>1, Undisturbed

LEMMA DrainStep == ASSUME IInv, Drain PROVE IInv'
<1> USE DEF IInv, Drain, tmuxVars, browserVars, loopVars, serveVars, closeVars, queueVars, heardVars
<1>1. TypeOK'
  <2>a. input' \in 0 .. PtyCap
    BY DEF TypeOK, TmuxTypes
  <2>1. TmuxTypes'
    BY <2>a DEF TypeOK, TmuxTypes, BrowserTypes, LoopTypes
  <2>2. BrowserTypes'
    BY DEF TypeOK, TmuxTypes, BrowserTypes, LoopTypes, QueueTypes
  <2>3. LoopTypes'
    BY DEF TypeOK, TmuxTypes, BrowserTypes, LoopTypes, QueueTypes
  <2>4. QueueTypes'
    BY DEF TypeOK, TmuxTypes, LoopTypes, QueueTypes
  <2>5. ServeTypes'
    BY DEF TypeOK, ServeTypes
  <2>6. QED
    BY <2>1, <2>2, <2>3, <2>4, <2>5 DEF TypeOK
<1>2. QED
  BY <1>1, Undisturbed

LEMMA DrawStep == ASSUME IInv, Draw PROVE IInv'
<1> USE DEF IInv, Draw, PtyOpen, tmuxVars, browserVars, loopVars, serveVars, closeVars, queueVars, heardVars
<1>1. TypeOK'
  <2>a. drawn' \in 0 .. MaxOutput
    BY DEF TypeOK, TmuxTypes
  <2>1. TmuxTypes'
    BY <2>a DEF TypeOK, TmuxTypes, BrowserTypes, LoopTypes
  <2>2. BrowserTypes'
    BY DEF TypeOK, TmuxTypes, BrowserTypes, LoopTypes, QueueTypes
  <2>3. LoopTypes'
    BY DEF TypeOK, TmuxTypes, BrowserTypes, LoopTypes, QueueTypes
  <2>4. QueueTypes'
    BY DEF TypeOK, TmuxTypes, LoopTypes, QueueTypes
  <2>5. ServeTypes'
    BY DEF TypeOK, ServeTypes
  <2>6. QED
    BY <2>1, <2>2, <2>3, <2>4, <2>5 DEF TypeOK
<1>2. QED
  BY <1>1, Undisturbed

LEMMA PaneDiesStep == ASSUME IInv, PaneDies PROVE IInv'
<1> USE DEF IInv, PaneDies, tmuxVars, browserVars, loopVars, serveVars, closeVars, queueVars, heardVars
<1>1. TypeOK'
  <2>1. TmuxTypes'
    BY DEF TypeOK, TmuxTypes, BrowserTypes, LoopTypes
  <2>2. BrowserTypes'
    BY DEF TypeOK, TmuxTypes, BrowserTypes, LoopTypes, QueueTypes
  <2>3. LoopTypes'
    BY DEF TypeOK, TmuxTypes, BrowserTypes, LoopTypes, QueueTypes
  <2>4. QueueTypes'
    BY DEF TypeOK, TmuxTypes, LoopTypes, QueueTypes
  <2>5. ServeTypes'
    BY DEF TypeOK, ServeTypes
  <2>6. QED
    BY <2>1, <2>2, <2>3, <2>4, <2>5 DEF TypeOK
<1>2. Accounted'
  BY DEF TypeOK, BrowserTypes, LoopTypes, QueueTypes, TmuxTypes, Accounted, Shown
<1>3. PumpClosed'
  BY DEF PumpClosed
<1>4. Ended'
  BY DEF TypeOK, LoopTypes, PumpClosed, Ended, Accounted, Shown
<1>5. Holding'
  BY DEF TypeOK, LoopTypes, Holding
<1>6. InPlace'
  <2> SUFFICES ASSUME ~gaveUp', Remembered \in alive' PROVE Placed' /\ Answered'
    BY DEF InPlace
  <2>1. Placed /\ Answered
    BY DEF InPlace
  <2>2. Placed'
    BY <2>1 DEF Placed, TypeOK, LoopTypes, TmuxTypes, BrowserTypes
  <2>3. Answered'
    BY <2>1 DEF Answered, Right, Placed, TypeOK, LoopTypes
  <2>4. QED
    BY <2>2, <2>3
<1>7. QED
  BY <1>1, <1>2, <1>3, <1>4, <1>5, <1>6

LEMMA TypeStep == ASSUME IInv, Type PROVE IInv'
<1> USE DEF IInv, Type, tmuxVars, browserVars, loopVars, serveVars, closeVars, queueVars, heardVars
<1>a. PICK f \in {"key", "bad"} : sent' = Append(sent, f)
  OBVIOUS
<1>b. sent' \in Seq(Frame) /\ sent' # <<>> /\ (sent # <<>> => sent'[1] = sent[1])
  <2>1. sent \in Seq(Frame) /\ f \in Frame
    BY DEF TypeOK, BrowserTypes, Frame
  <2>2. QED
    BY <1>a, <2>1, Appended
<1>1. TypeOK'
  <2>1. TmuxTypes'
    BY <1>b DEF TypeOK, TmuxTypes, BrowserTypes, LoopTypes
  <2>c. UNCHANGED <<browser, got, answer, told>>
    OBVIOUS
  <2>b. typed' \in 0 .. MaxKeys
    <3>1. typed \in 0 .. MaxKeys /\ typed < MaxKeys /\ typed' = typed + 1
      BY DEF TypeOK, BrowserTypes
    <3> HIDE DEF IInv, Type
    <3>2. QED
      BY <3>1
  <2>2. BrowserTypes'
    <3>1. BrowserTypes
      BY DEF TypeOK
    <3>2. sent' \in Seq(Frame)
      BY <1>b
    <3> HIDE DEF IInv, Type
    <3>3. QED
      BY <3>1, <3>2, <2>b, <2>c DEF BrowserTypes
  <2>3. LoopTypes'
    BY <1>b DEF TypeOK, TmuxTypes, BrowserTypes, LoopTypes, QueueTypes
  <2>4. QueueTypes'
    BY <1>b DEF TypeOK, TmuxTypes, LoopTypes, QueueTypes
  <2>5. ServeTypes'
    BY <1>b DEF TypeOK, ServeTypes
  <2>6. QED
    BY <2>1, <2>2, <2>3, <2>4, <2>5 DEF TypeOK
<1>2. Accounted'
  BY <1>b DEF TypeOK, BrowserTypes, LoopTypes, QueueTypes, TmuxTypes, Accounted, Shown
<1>3. PumpClosed'
  BY <1>b DEF PumpClosed
<1>4. Ended'
  BY <1>b DEF TypeOK, LoopTypes, PumpClosed, Ended, Accounted, Shown
<1>5. Holding'
  BY <1>b DEF TypeOK, LoopTypes, Holding
<1>6. InPlace'
  <2> SUFFICES ASSUME ~gaveUp', Remembered \in alive' PROVE Placed' /\ Answered'
    BY <1>b DEF InPlace
  <2>1. Placed /\ Answered
    BY <1>b DEF InPlace
  <2>2. Placed'
    <3>1. current' = current /\ rd' = rd
      OBVIOUS
    <3>2. sent' # <<>> /\ (sent # <<>> => sent'[1] = sent[1])
      BY <1>b
    <3>3. Placed
      BY <2>1
    <3> HIDE DEF IInv, Type
    <3>4. QED
      BY <3>1, <3>2, <3>3, Zenon DEF Placed
  <2>3. Answered'
    BY <2>1 DEF Answered, Right, Placed, TypeOK, LoopTypes
  <2>4. QED
    BY <2>2, <2>3
<1>7. QED
  BY <1>1, <1>2, <1>3, <1>4, <1>5, <1>6

LEMMA BrowserTurnsStep == ASSUME IInv, BrowserTurns PROVE IInv'
<1> USE DEF IInv, BrowserTurns, tmuxVars, browserVars, loopVars, serveVars, closeVars, queueVars, heardVars
<1>1. TypeOK'
  <2>1. TmuxTypes'
    BY DEF TypeOK, TmuxTypes, BrowserTypes, LoopTypes
  <2>2. BrowserTypes'
    BY DEF TypeOK, TmuxTypes, BrowserTypes, LoopTypes, QueueTypes
  <2>3. LoopTypes'
    BY DEF TypeOK, TmuxTypes, BrowserTypes, LoopTypes, QueueTypes
  <2>4. QueueTypes'
    BY DEF TypeOK, TmuxTypes, LoopTypes, QueueTypes
  <2>5. ServeTypes'
    BY DEF TypeOK, ServeTypes
  <2>6. QED
    BY <2>1, <2>2, <2>3, <2>4, <2>5 DEF TypeOK
<1>2. QED
  BY <1>1, Undisturbed

-----------------------------------------------------------------------------
(* The theorems *)

LEMMA InitEstablishes == Init => IInv
<1> SUFFICES ASSUME Init PROVE IInv
  OBVIOUS
<1> USE DEF Init
<1>1. TypeOK
  <2>1. <<"select", "where">> \in Seq(Frame)
    BY DEF Frame
  <2>2. TmuxTypes
    <3>1. input \in 0 .. PtyCap /\ drawn \in 0 .. MaxOutput /\ current \in Pane /\ alive \subseteq Pane
      OBVIOUS
    <3>2. QED
      BY <3>1 DEF TmuxTypes
  <2>3. BrowserTypes
    BY <2>1 DEF BrowserTypes
  <2>4. LoopTypes
    BY DEF LoopTypes, Frame
  <2>5. QueueTypes
    BY DEF QueueTypes
  <2>6. ServeTypes
    BY DEF ServeTypes
  <2>7. QED
    BY <2>2, <2>3, <2>4, <2>5, <2>6 DEF TypeOK
<1>2. Accounted /\ PumpClosed /\ Ended /\ Holding
  BY DEF Accounted, Shown, PumpClosed, Ended, Holding
<1>3. InPlace
  BY DEF InPlace, Placed, Answered
<1>4. QED
  BY <1>1, <1>2, <1>3 DEF IInv

LEMMA NextPreserves == IInv /\ [Next]_vars => IInv'
<1> SUFFICES ASSUME IInv, [Next]_vars PROVE IInv'
  OBVIOUS
<1>1. CASE ReadLoop
  BY <1>1, ReadFailsStep, ReadFrameStep, WriteInputStep, WriteFailsStep, AskStep, GiveUpStep DEF ReadLoop
<1>2. CASE WriteLoop
  BY <1>2, WriterStopsStep, TakeControlStep, TakeOutputStep, OutputEndsStep, DeliverStep, DeliverFailsStep DEF WriteLoop
<1>3. CASE PingLoop
  BY <1>3, PingStep, PongStep, PingEndsStep DEF PingLoop
<1>4. CASE Bridge
  BY <1>4, PumpStep, PumpEndsStep, CloseEndsStep DEF Bridge
<1>5. CASE Serve
  BY <1>5, CancelStep, CloseSessionStep, ServeEndsStep DEF Serve
<1>6. CASE Tmux
  BY <1>6, AttachStep, ClientExitsStep, DrainStep, DrawStep, PaneDiesStep DEF Tmux
<1>7. CASE Browser
  BY <1>7, TypeStep, BrowserTurnsStep DEF Browser
<1>8. CASE UNCHANGED vars
  <2> USE <1>8 DEF IInv, vars, tmuxVars, browserVars, loopVars, serveVars, closeVars, queueVars, heardVars
  <2>1. TypeOK'
    <3>1. TmuxTypes'
      BY DEF TypeOK, TmuxTypes
    <3>2. BrowserTypes' /\ LoopTypes'
      BY DEF TypeOK, BrowserTypes, LoopTypes
    <3>3. QueueTypes'
      BY DEF TypeOK, QueueTypes, TmuxTypes
    <3>4. ServeTypes'
      BY DEF TypeOK, ServeTypes
    <3>5. QED
      BY <3>1, <3>2, <3>3, <3>4 DEF TypeOK
  <2>2. QED
    BY <2>1, Undisturbed
<1>9. QED
  BY <1>1, <1>2, <1>3, <1>4, <1>5, <1>6, <1>7, <1>8 DEF Next

\* The inductive invariant holds in every reachable state.
THEOREM Invariance == Spec => []IInv
  BY InitEstablishes, NextPreserves, PTL DEF Spec

\* The state of a terminal socket is well typed; its queues stay in their bounds.
THEOREM TypeCorrect == Spec => []TypeOK
<1>1. IInv => TypeOK
  BY DEF IInv
<1>2. QED
  BY <1>1, Invariance, PTL

\* The browser shows what tmux drew from the beginning and without a gap, and a
\* browser told that the session ended has all of it unless the pump overflowed.
THEOREM OutputArrives == Spec => []OutputIntact
<1>1. IInv => OutputIntact
  <2> SUFFICES ASSUME IInv PROVE OutputIntact
    OBVIOUS
  <2>1. got \in Seq(1 .. MaxOutput)
    BY DEF IInv, TypeOK, BrowserTypes
  <2>2. got = [i \in 1 .. Len(got) |-> i]
    BY <2>1 DEF IInv, Accounted
  <2>3. told = "graceful session ended" => Len(got) = pumped \/ closer = "pump"
    BY DEF IInv, Ended
  <2>4. QED
    BY <2>2, <2>3 DEF OutputIntact
<1>2. QED
  BY <1>1, Invariance, PTL

\* A tab that is told where it is finds itself on the pane it asked for, however
\* long tmux took to make the session, unless that pane died or a call was given
\* up on.
THEOREM TabsLand == Spec => []WhereFindsThePane
<1>1. IInv => WhereFindsThePane
  BY DEF IInv, InPlace, Answered, WhereFindsThePane
<1>2. QED
  BY <1>1, Invariance, PTL

=============================================================================
