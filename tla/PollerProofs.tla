---------------------------- MODULE PollerProofs ----------------------------
(***************************************************************************)
(* Proofs about Poller, for every set of callers and any number of changes *)
(* of the tree.                                                            *)
(*                                                                         *)
(* The invariant proved is IInv.  That a settled caller finds a snapshot   *)
(* fresh enough (SettledIsFresh) rests on Answered: whoever is in a batch  *)
(* joined it before the poll that serves it read the tree.  A caller can   *)
(* only join the pending batch, and Handover says that the batch a poll    *)
(* serves is no longer the pending one.                                    *)
(*                                                                         *)
(* One lemma per conjunct of IInv, one step per action in each.            *)
(***************************************************************************)
EXTENDS Poller, TLAPS

\* The initial state satisfies the invariant.
LEMMA InitEstablishes == Init => IInv
<1> SUFFICES ASSUME Init PROVE IInv
  OBVIOUS
<1> USE CallerAssumption, WorldAssumption DEF Init, Batch, Version, Failed
<1>1. TypeOK
  <2>1. force \in Seq(Caller)
    OBVIOUS
  <2>2. /\ world \in Version /\ latest \in Version
        /\ got \in Version \cup {Failed}
        /\ held \in Batch /\ pending \in Batch
        /\ loop \in LoopPlaces
        /\ tick \in {"unbuilt", "empty", "due"}
    BY DEF LoopPlaces
  <2>3. /\ closed \in SUBSET Caller
        /\ err \in BOOLEAN /\ loopDone \in BOOLEAN /\ ctxDone \in BOOLEAN
    OBVIOUS
  <2>4. /\ pc \in [Caller -> CallerPlaces]
        /\ asked \in [Caller -> Version]
        /\ batch \in [Caller -> Batch]
        /\ done \in [Caller -> BOOLEAN]
    BY DEF CallerPlaces
  <2>5. QED
    BY <2>1, <2>2, <2>3, <2>4 DEF TypeOK
<1>2. Handover /\ Unbatched /\ Accounted
  BY DEF Handover, Unbatched, Accounted
<1>3. Ordered /\ Answered
  BY DEF Ordered, Answered, Served
<1>4. QED
  BY <1>1, <1>2, <1>3 DEF IInv

\* Every action keeps every variable in its type.
LEMMA TypeStep ==
    ASSUME IInv, [Next]_vars
    PROVE  TypeOK'
<1> USE CallerAssumption, WorldAssumption DEF IInv, TypeOK, Batch, Version, Failed,
   LoopPlaces, CallerPlaces, vars, pollVars, askVars
<1>1. CASE Start
  BY <1>1 DEF Start
<1>2. CASE ReadTree
  BY <1>2 DEF ReadTree
<1>3. CASE Publish
  BY <1>3 DEF Publish
<1>4. CASE CloseBatch
  BY <1>4 DEF CloseBatch, Handover
<1>5. CASE Stop
  BY <1>5 DEF Stop
<1>6. CASE TakeTick
  BY <1>6 DEF TakeTick
<1>7. CASE TakeBatch
  BY <1>7 DEF TakeBatch
<1>8. CASE ClearPending
  BY <1>8 DEF ClearPending
<1>9. CASE Tick
  BY <1>9 DEF Tick
<1>10. CASE Change
  BY <1>10 DEF Change
<1>11. CASE Cancel
  BY <1>11 DEF Cancel
<1>12. ASSUME NEW c \in Caller, Act(c) PROVE TypeOK'
  BY <1>12 DEF Act, Goto
<1>13. ASSUME NEW c \in Caller, Join(c) PROVE TypeOK'
  BY <1>13 DEF Join, Goto
<1>14. ASSUME NEW c \in Caller, OpenBatch(c) PROVE TypeOK'
  BY <1>14 DEF OpenBatch, Goto
<1>15. ASSUME NEW c \in Caller, Send(c) PROVE TypeOK'
  BY <1>15 DEF Send, Goto
<1>16. ASSUME NEW c \in Caller, Settle(c) PROVE TypeOK'
  BY <1>16 DEF Settle, Goto
<1>17. ASSUME NEW c \in Caller, Expire(c) PROVE TypeOK'
  BY <1>17 DEF Expire, Goto
<1>18. ASSUME NEW c \in Caller, FindStopped(c) PROVE TypeOK'
  BY <1>18 DEF FindStopped, Goto
<1>19. CASE UNCHANGED vars
  BY <1>19
<1>20. QED
  BY <1>1, <1>2, <1>3, <1>4, <1>5, <1>6, <1>7, <1>8, <1>9, <1>10, <1>11,
     <1>12, <1>13, <1>14, <1>15, <1>16, <1>17, <1>18, <1>19
     DEF Next, Poll, PollNow

\* The pending batch is in exactly one place.
LEMMA HandoverStep ==
    ASSUME IInv, [Next]_vars
    PROVE  Handover'
<1> USE CallerAssumption, WorldAssumption DEF IInv, TypeOK, Batch, Version, Failed,
   LoopPlaces, CallerPlaces, vars, pollVars, askVars, Handover, Unbatched
<1>1. CASE Start
  BY <1>1 DEF Start
<1>2. CASE ReadTree
  BY <1>2 DEF ReadTree
<1>3. CASE Publish
  BY <1>3 DEF Publish
<1>4. CASE CloseBatch
  BY <1>4 DEF CloseBatch
<1>5. CASE Stop
  BY <1>5 DEF Stop
<1>6. CASE TakeTick
  BY <1>6 DEF TakeTick
<1>7. CASE TakeBatch
  BY <1>7 DEF TakeBatch
<1>8. CASE ClearPending
  BY <1>8 DEF ClearPending
<1>9. CASE Tick
  BY <1>9 DEF Tick
<1>10. CASE Change
  BY <1>10 DEF Change
<1>11. CASE Cancel
  BY <1>11 DEF Cancel
<1>12. ASSUME NEW c \in Caller, Act(c) PROVE Handover'
  BY <1>12 DEF Act, Goto
<1>13. ASSUME NEW c \in Caller, Join(c) PROVE Handover'
  BY <1>13 DEF Join, Goto
<1>14. ASSUME NEW c \in Caller, OpenBatch(c) PROVE Handover'
  BY <1>14 DEF OpenBatch, Goto
<1>15. ASSUME NEW c \in Caller, Send(c) PROVE Handover'
  BY <1>15 DEF Send, Goto
<1>16. ASSUME NEW c \in Caller, Settle(c) PROVE Handover'
  BY <1>16 DEF Settle, Goto
<1>17. ASSUME NEW c \in Caller, Expire(c) PROVE Handover'
  BY <1>17 DEF Expire, Goto
<1>18. ASSUME NEW c \in Caller, FindStopped(c) PROVE Handover'
  BY <1>18 DEF FindStopped, Goto
<1>19. CASE UNCHANGED vars
  BY <1>19
<1>20. QED
  BY <1>1, <1>2, <1>3, <1>4, <1>5, <1>6, <1>7, <1>8, <1>9, <1>10, <1>11,
     <1>12, <1>13, <1>14, <1>15, <1>16, <1>17, <1>18, <1>19
     DEF Next, Poll, PollNow

\* Nobody joins, closes or serves a batch before it is opened.
LEMMA UnbatchedStep ==
    ASSUME IInv, [Next]_vars
    PROVE  Unbatched'
<1> USE CallerAssumption, WorldAssumption DEF IInv, TypeOK, Batch, Version, Failed,
   LoopPlaces, CallerPlaces, vars, pollVars, askVars, Handover, Unbatched
<1>1. CASE Start
  BY <1>1 DEF Start
<1>2. CASE ReadTree
  BY <1>2 DEF ReadTree
<1>3. CASE Publish
  BY <1>3 DEF Publish
<1>4. CASE CloseBatch
  BY <1>4 DEF CloseBatch
<1>5. CASE Stop
  BY <1>5 DEF Stop
<1>6. CASE TakeTick
  BY <1>6 DEF TakeTick
<1>7. CASE TakeBatch
  BY <1>7 DEF TakeBatch
<1>8. CASE ClearPending
  BY <1>8 DEF ClearPending
<1>9. CASE Tick
  BY <1>9 DEF Tick
<1>10. CASE Change
  BY <1>10 DEF Change
<1>11. CASE Cancel
  BY <1>11 DEF Cancel
<1>12. ASSUME NEW c \in Caller, Act(c) PROVE Unbatched'
  BY <1>12 DEF Act, Goto
<1>13. ASSUME NEW c \in Caller, Join(c) PROVE Unbatched'
  BY <1>13 DEF Join, Goto
<1>14. ASSUME NEW c \in Caller, OpenBatch(c) PROVE Unbatched'
  BY <1>14 DEF OpenBatch, Goto
<1>15. ASSUME NEW c \in Caller, Send(c) PROVE Unbatched'
  BY <1>15 DEF Send, Goto
<1>16. ASSUME NEW c \in Caller, Settle(c) PROVE Unbatched'
  BY <1>16 DEF Settle, Goto
<1>17. ASSUME NEW c \in Caller, Expire(c) PROVE Unbatched'
  BY <1>17 DEF Expire, Goto
<1>18. ASSUME NEW c \in Caller, FindStopped(c) PROVE Unbatched'
  BY <1>18 DEF FindStopped, Goto
<1>19. CASE UNCHANGED vars
  BY <1>19
<1>20. QED
  BY <1>1, <1>2, <1>3, <1>4, <1>5, <1>6, <1>7, <1>8, <1>9, <1>10, <1>11,
     <1>12, <1>13, <1>14, <1>15, <1>16, <1>17, <1>18, <1>19
     DEF Next, Poll, PollNow

\* No batch is lost between its opener and the loop.
LEMMA AccountedStep ==
    ASSUME IInv, [Next]_vars
    PROVE  Accounted'
<1> USE CallerAssumption, WorldAssumption DEF IInv, TypeOK, Batch, Version, Failed,
   LoopPlaces, CallerPlaces, vars, pollVars, askVars, Handover, Unbatched, Accounted
<1>1. CASE Start
  BY <1>1 DEF Start
<1>2. CASE ReadTree
  BY <1>2 DEF ReadTree
<1>3. CASE Publish
  BY <1>3 DEF Publish
<1>4. CASE CloseBatch
  BY <1>4 DEF CloseBatch
<1>5. CASE Stop
  BY <1>5 DEF Stop
<1>6. CASE TakeTick
  BY <1>6 DEF TakeTick
<1>7. CASE TakeBatch
  BY <1>7 DEF TakeBatch
<1>8. CASE ClearPending
  BY <1>8 DEF ClearPending
<1>9. CASE Tick
  BY <1>9 DEF Tick
<1>10. CASE Change
  BY <1>10 DEF Change
<1>11. CASE Cancel
  BY <1>11 DEF Cancel
<1>12. ASSUME NEW c \in Caller, Act(c) PROVE Accounted'
  BY <1>12 DEF Act, Goto
<1>13. ASSUME NEW c \in Caller, Join(c) PROVE Accounted'
  BY <1>13 DEF Join, Goto
<1>14. ASSUME NEW c \in Caller, OpenBatch(c) PROVE Accounted'
  BY <1>14 DEF OpenBatch, Goto
<1>15. ASSUME NEW c \in Caller, Send(c) PROVE Accounted'
  BY <1>15 DEF Send, Goto
<1>16. ASSUME NEW c \in Caller, Settle(c) PROVE Accounted'
  BY <1>16 DEF Settle, Goto
<1>17. ASSUME NEW c \in Caller, Expire(c) PROVE Accounted'
  BY <1>17 DEF Expire, Goto
<1>18. ASSUME NEW c \in Caller, FindStopped(c) PROVE Accounted'
  BY <1>18 DEF FindStopped, Goto
<1>19. CASE UNCHANGED vars
  BY <1>19
<1>20. QED
  BY <1>1, <1>2, <1>3, <1>4, <1>5, <1>6, <1>7, <1>8, <1>9, <1>10, <1>11,
     <1>12, <1>13, <1>14, <1>15, <1>16, <1>17, <1>18, <1>19
     DEF Next, Poll, PollNow

\* The snapshot trails the tree, and the poll in progress the snapshot.
LEMMA OrderedStep ==
    ASSUME IInv, [Next]_vars
    PROVE  Ordered'
<1> USE CallerAssumption, WorldAssumption DEF IInv, TypeOK, Batch, Version, Failed,
   LoopPlaces, CallerPlaces, vars, pollVars, askVars, Ordered
<1>1. CASE Start
  BY <1>1 DEF Start
<1>2. CASE ReadTree
  BY <1>2 DEF ReadTree
<1>3. CASE Publish
  BY <1>3 DEF Publish
<1>4. CASE CloseBatch
  BY <1>4 DEF CloseBatch
<1>5. CASE Stop
  BY <1>5 DEF Stop
<1>6. CASE TakeTick
  BY <1>6 DEF TakeTick
<1>7. CASE TakeBatch
  BY <1>7 DEF TakeBatch
<1>8. CASE ClearPending
  BY <1>8 DEF ClearPending
<1>9. CASE Tick
  BY <1>9 DEF Tick
<1>10. CASE Change
  BY <1>10 DEF Change
<1>11. CASE Cancel
  BY <1>11 DEF Cancel
<1>12. ASSUME NEW c \in Caller, Act(c) PROVE Ordered'
  BY <1>12 DEF Act, Goto
<1>13. ASSUME NEW c \in Caller, Join(c) PROVE Ordered'
  BY <1>13 DEF Join, Goto
<1>14. ASSUME NEW c \in Caller, OpenBatch(c) PROVE Ordered'
  BY <1>14 DEF OpenBatch, Goto
<1>15. ASSUME NEW c \in Caller, Send(c) PROVE Ordered'
  BY <1>15 DEF Send, Goto
<1>16. ASSUME NEW c \in Caller, Settle(c) PROVE Ordered'
  BY <1>16 DEF Settle, Goto
<1>17. ASSUME NEW c \in Caller, Expire(c) PROVE Ordered'
  BY <1>17 DEF Expire, Goto
<1>18. ASSUME NEW c \in Caller, FindStopped(c) PROVE Ordered'
  BY <1>18 DEF FindStopped, Goto
<1>19. CASE UNCHANGED vars
  BY <1>19
<1>20. QED
  BY <1>1, <1>2, <1>3, <1>4, <1>5, <1>6, <1>7, <1>8, <1>9, <1>10, <1>11,
     <1>12, <1>13, <1>14, <1>15, <1>16, <1>17, <1>18, <1>19
     DEF Next, Poll, PollNow

\* Whoever a poll serves asked before it read the tree.
LEMMA AnsweredStep ==
    ASSUME IInv, [Next]_vars
    PROVE  Answered'
<1> USE CallerAssumption, WorldAssumption DEF IInv, TypeOK, Batch, Version, Failed,
   LoopPlaces, CallerPlaces, vars, pollVars, askVars,
   Handover, Unbatched, Ordered, Answered, Served
<1>1. CASE Start
  BY <1>1 DEF Start
<1>2. CASE ReadTree
  BY <1>2 DEF ReadTree
<1>3. CASE Publish
  BY <1>3 DEF Publish
<1>4. CASE CloseBatch
  BY <1>4 DEF CloseBatch
<1>5. CASE Stop
  BY <1>5 DEF Stop
<1>6. CASE TakeTick
  BY <1>6 DEF TakeTick
<1>7. CASE TakeBatch
  BY <1>7 DEF TakeBatch
<1>8. CASE ClearPending
  BY <1>8 DEF ClearPending
<1>9. CASE Tick
  BY <1>9 DEF Tick
<1>10. CASE Change
  BY <1>10 DEF Change
<1>11. CASE Cancel
  BY <1>11 DEF Cancel
<1>12. ASSUME NEW c \in Caller, Act(c) PROVE Answered'
  BY <1>12 DEF Act, Goto
<1>13. ASSUME NEW c \in Caller, Join(c) PROVE Answered'
  BY <1>13 DEF Join, Goto
<1>14. ASSUME NEW c \in Caller, OpenBatch(c) PROVE Answered'
  BY <1>14 DEF OpenBatch, Goto
<1>15. ASSUME NEW c \in Caller, Send(c) PROVE Answered'
  BY <1>15 DEF Send, Goto
<1>16. ASSUME NEW c \in Caller, Settle(c) PROVE Answered'
  BY <1>16 DEF Settle, Goto
<1>17. ASSUME NEW c \in Caller, Expire(c) PROVE Answered'
  BY <1>17 DEF Expire, Goto
<1>18. ASSUME NEW c \in Caller, FindStopped(c) PROVE Answered'
  BY <1>18 DEF FindStopped, Goto
<1>19. CASE UNCHANGED vars
  BY <1>19
<1>20. QED
  BY <1>1, <1>2, <1>3, <1>4, <1>5, <1>6, <1>7, <1>8, <1>9, <1>10, <1>11,
     <1>12, <1>13, <1>14, <1>15, <1>16, <1>17, <1>18, <1>19
     DEF Next, Poll, PollNow

\* The invariant holds throughout.
THEOREM Invariance == Spec => []IInv
<1>1. IInv /\ [Next]_vars => IInv'
  BY TypeStep, HandoverStep, UnbatchedStep, AccountedStep, OrderedStep, AnsweredStep
     DEF IInv
<1>2. QED
  BY InitEstablishes, <1>1, PTL DEF Spec

\* Every variable keeps its type, the channel at most one caller's batch.
THEOREM TypeCorrect == Spec => []TypeOK
<1>1. IInv => TypeOK
  BY DEF IInv
<1>2. QED
  BY <1>1, Invariance, PTL

\* The send of a batch finds the channel empty, for any number of callers: the
\* buffer of one is enough forever.
THEOREM SendsFindRoom == Spec => []SendNeverBlocks
<1>1. IInv => SendNeverBlocks
  BY DEF IInv, Handover, SendNeverBlocks
<1>2. QED
  BY <1>1, Invariance, PTL

\* A caller whose poll has happened finds its own change in the snapshot, or a
\* poller that says its last poll failed.
THEOREM SettledCallersAreFresh == Spec => []SettledIsFresh
<1>1. IInv => SettledIsFresh
  BY DEF IInv, TypeOK, Answered, SettledIsFresh, Version
<1>2. QED
  BY <1>1, Invariance, PTL

\* However many callers ask at once, an unserved batch is being served or pending.
THEOREM BurstsAreCheap == Spec => []BurstsCoalesce
<1>1. IInv => BurstsCoalesce
  BY DEF IInv, Accounted, BurstsCoalesce, Unserved
<1>2. QED
  BY <1>1, Invariance, PTL

\* No step of the daemon takes the snapshot back to an older tree.
THEOREM SnapshotAdvances == Spec => SnapshotNeverRegresses
<1>1. ASSUME IInv, [Next]_vars
      PROVE  [LatestAdvances]_vars
  <2> USE <1>1 DEF IInv, TypeOK, Version, Failed, Ordered, LatestAdvances
  <2>1. CASE Publish
    BY <2>1 DEF Publish
  <2>2. CASE UNCHANGED latest
    BY <2>2
  <2>3. QED
    BY <2>1, <2>2 DEF Next, Poll, PollNow, vars, pollVars, Start, ReadTree, CloseBatch, Stop,
       TakeTick, TakeBatch, ClearPending, Tick, Change, Cancel, Act, Join, OpenBatch, Send,
       Settle, Expire, FindStopped
<1>2. QED
  BY <1>1, Invariance, PTL DEF Spec, SnapshotNeverRegresses

\* The poller implements the promise of ForcedPoll: its batches, its channel
\* and its loop are invisible to the callers.
THEOREM PromiseIsKept == Spec => PromiseKept
<1>1. Init => Promise!Init
  BY DEF Init, Promise!Init, Answer
<1>2. ASSUME IInv, [Next]_vars
      PROVE  [Promise!Next]_(Promise!vars)
  <2> USE <1>2 DEF IInv, TypeOK, Promise!Next, Promise!vars
  <2>1. CASE Publish
    <3>1. CASE got = Failed
      BY <2>1, <3>1 DEF Publish, Promise!Fail, Answer, askVars
    <3>2. CASE got # Failed
      <4>1. latest' \in latest .. world
        BY <2>1, <3>2 DEF Publish, Ordered, Version, Failed
      <4>2. QED
        BY <2>1, <3>2, <4>1 DEF Publish, Promise!Publish, Answer, askVars
    <3>3. QED
      BY <3>1, <3>2
  <2>2. CASE Change
    BY <2>2 DEF Change, Promise!Change, Answer, askVars, pollVars
  <2>3. ASSUME NEW c \in Caller, Act(c)
        PROVE  Promise!Ask(c)
    BY <2>3 DEF Act, Goto, Promise!Ask, Answer, pollVars
  <2>4. ASSUME NEW c \in Caller, Settle(c)
        PROVE  Promise!Settle(c)
    <3>1. latest >= asked[c] \/ err
      BY <2>4 DEF Settle, Answered, Version
    <3>2. QED
      BY <2>4, <3>1 DEF Settle, Goto, Promise!Settle, Answer, pollVars
  <2>5. ASSUME NEW c \in Caller, Expire(c) \/ FindStopped(c)
        PROVE  Promise!Refuse(c)
    BY <2>5 DEF Expire, FindStopped, Goto, Promise!Refuse, Answer, pollVars
  <2>6. ASSUME NEW c \in Caller, Join(c) \/ OpenBatch(c) \/ Send(c)
        PROVE  UNCHANGED Promise!vars
    BY <2>6 DEF Join, OpenBatch, Send, Goto, Answer, pollVars
  <2>7. CASE \/ Start \/ ReadTree \/ CloseBatch \/ Stop \/ TakeTick \/ TakeBatch
             \/ ClearPending \/ Tick \/ Cancel \/ UNCHANGED vars
    BY <2>7 DEF Start, ReadTree, CloseBatch, Stop, TakeTick, TakeBatch, ClearPending, Tick,
       Cancel, vars, pollVars, askVars, Answer
  <2>8. QED
    BY <2>1, <2>2, <2>3, <2>4, <2>5, <2>6, <2>7 DEF Next, Poll, PollNow
<1>3. QED
  BY <1>1, <1>2, Invariance, PTL DEF Spec, PromiseKept, Promise!Spec

=============================================================================
