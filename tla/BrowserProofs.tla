--------------------------- MODULE BrowserProofs ---------------------------
(***************************************************************************)
(* What is proved of the browser: of what is typed into a tab              *)
(* (TypedInput) and of the marks a tab keeps of what was seen (SeenMarks). *)
(* Each component has an inductive invariant; the two share no variable.   *)
(***************************************************************************)
EXTENDS TypedInput, SeenMarks, TLAPS

-----------------------------------------------------------------------------
(* What is typed *)

\* The elements of two sequences, one after the other.
LEMMA KeysOfConcat ==
    ASSUME NEW a \in Seq(Keys), NEW b \in Seq(Keys)
    PROVE  /\ a \o b \in Seq(Keys) /\ KeysOf(a \o b) = KeysOf(a) \cup KeysOf(b)
           /\ KeysOf(a) \subseteq Keys
<1>1. Len(a \o b) = Len(a) + Len(b) /\ a \o b \in Seq(Keys)
  OBVIOUS
<1>2. ASSUME NEW k \in KeysOf(a \o b) PROVE k \in KeysOf(a) \cup KeysOf(b)
  <2>1. PICK i \in 1 .. Len(a) + Len(b) : k = (a \o b)[i]
    BY <1>1, <1>2 DEF KeysOf
  <2>2. CASE i <= Len(a)
    BY <2>1, <2>2 DEF KeysOf
  <2>3. CASE i > Len(a)
    <3>1. i - Len(a) \in 1 .. Len(b) /\ k = b[i - Len(a)]
      BY <2>1, <2>3
    <3>2. QED
      BY <3>1 DEF KeysOf
  <2>4. QED
    BY <2>1, <2>2, <2>3
<1>3. KeysOf(a) \subseteq KeysOf(a \o b)
  BY <1>1 DEF KeysOf
<1>4. ASSUME NEW i \in 1 .. Len(b) PROVE b[i] \in KeysOf(a \o b)
  <2>1. Len(a) + i \in 1 .. Len(a \o b) /\ (a \o b)[Len(a) + i] = b[i]
    BY <1>1
  <2>2. QED
    BY <2>1 DEF KeysOf
<1>5. KeysOf(b) \subseteq KeysOf(a \o b)
  BY <1>4 DEF KeysOf
<1>6. KeysOf(a) \subseteq Keys
  BY DEF KeysOf
<1>7. QED
  BY <1>1, <1>2, <1>3, <1>5, <1>6

\* The newest elements of a sequence, by their indices.
LEMMA NewestFacts ==
    ASSUME NEW s \in Seq(Keys), NEW n \in 0 .. Len(s)
    PROVE  /\ Newest(s, n) \in Seq(Keys) /\ Len(Newest(s, n)) = n
           /\ \A i \in 1 .. n : Newest(s, n)[i] = s[Len(s) - n + i]
           /\ KeysOf(Newest(s, n)) = {s[i] : i \in Len(s) - n + 1 .. Len(s)}
<1>1. /\ Newest(s, n) \in Seq(Keys) /\ Len(Newest(s, n)) = n
      /\ \A i \in 1 .. n : Newest(s, n)[i] = s[Len(s) - n + i]
  BY DEF Newest
<1>2. ASSUME NEW i \in Len(s) - n + 1 .. Len(s) PROVE s[i] \in KeysOf(Newest(s, n))
  <2>1. i - (Len(s) - n) \in 1 .. n /\ s[i] = Newest(s, n)[i - (Len(s) - n)]
    BY <1>1
  <2>2. QED
    BY <1>1, <2>1 DEF KeysOf
<1>3. ASSUME NEW i \in 1 .. n PROVE Newest(s, n)[i] \in {s[j] : j \in Len(s) - n + 1 .. Len(s)}
  <2>1. Len(s) - n + i \in Len(s) - n + 1 .. Len(s)
    OBVIOUS
  <2>2. QED
    BY <1>1, <2>1
<1>4. QED
  BY <1>1, <1>2, <1>3 DEF KeysOf

\* Sending appends to the wire and to the journal, and cuts the oldest of the journal,
\* which are then neither the newest nor in the journal.
LEMMA SendFacts ==
    ASSUME TypedTypeOK, JournalIsNewest, NEW keys \in Seq(Keys), keys # <<>>, Send(keys), Increasing(wire \o keys)
    PROVE  /\ wire' = wire \o keys /\ wire' \in Seq(Keys) /\ up' \in Seq(Frame)
           /\ journal' \in Seq(Keys) /\ journal' # <<>> /\ Len(journal') <= JournalCap /\ JournalIsNewest'
           /\ truncated' \in BOOLEAN /\ cut' \subseteq Keys /\ cut \subseteq cut'
           /\ KeysOf(journal) \cup KeysOf(keys) \subseteq KeysOf(journal') \cup cut'
           /\ KeysOf(journal') \subseteq KeysOf(journal) \cup KeysOf(keys)
           /\ \A k \in cut' \ cut : /\ k \in KeysOf(wire') /\ k \notin KeysOf(journal')
                                    /\ k \in KeysOf(journal) \cup KeysOf(keys)
                                    /\ k < keys[Len(keys)]
           /\ truncated => truncated'
           /\ ~truncated' => Len(journal') = Len(journal) + Len(keys)
<1> DEFINE all == journal \o keys
           over == IF Len(all) > JournalCap THEN Len(all) - JournalCap ELSE 0
           gone == SubSeq(all, 1, over)
<1>1. /\ journal \in Seq(Keys) /\ wire \in Seq(Keys) /\ up \in Seq(Frame) /\ truncated \in BOOLEAN /\ cut \subseteq Keys
      /\ Len(journal) <= Len(wire) /\ JournalCap \in Nat \ {0}
  BY CapAssumption DEF TypedTypeOK, JournalIsNewest
<1>2. /\ all \in Seq(Keys) /\ Len(all) = Len(journal) + Len(keys) /\ Len(all) >= 1
      /\ KeysOf(all) = KeysOf(journal) \cup KeysOf(keys)
  <2>1. Len(keys) >= 1
    OBVIOUS
  <2>2. QED
    BY <1>1, <2>1, KeysOfConcat
<1>3. /\ over \in 0 .. Len(all) - 1 /\ Len(all) - over <= JournalCap
      /\ over = 0 \/ over > 0
  BY <1>1, <1>2
<1>4. /\ wire' = wire \o keys /\ journal' = Newest(all, Len(all) - over)
      /\ truncated' = (truncated \/ over > 0) /\ cut' = cut \cup KeysOf(gone)
      /\ up' = up \o [i \in 1 .. Len(keys) |-> Key(keys[i])]
  BY DEF Send
<1>5. wire' \in Seq(Keys) /\ Len(wire') = Len(wire) + Len(keys)
  BY <1>1, <1>4
<1>6. up' \in Seq(Frame)
  <2>1. [i \in 1 .. Len(keys) |-> Key(keys[i])] \in Seq(Frame)
    <3>1. \A i \in 1 .. Len(keys) : Key(keys[i]) \in Frame
      BY DEF Key, Frame
    <3>2. QED
      BY <3>1
  <2>2. QED
    BY <1>1, <1>4, <2>1
<1>7. \A i \in 1 .. Len(all) : all[i] = wire'[Len(wire') - Len(all) + i]
  <2> SUFFICES ASSUME NEW i \in 1 .. Len(all) PROVE all[i] = wire'[Len(wire') - Len(all) + i]
    OBVIOUS
  <2>1. CASE i <= Len(journal)
    <3>1. all[i] = journal[i] /\ journal[i] = wire[Len(wire) - Len(journal) + i]
      BY <1>1, <2>1 DEF JournalIsNewest
    <3>2. Len(wire') - Len(all) + i = Len(wire) - Len(journal) + i /\ Len(wire) - Len(journal) + i \in 1 .. Len(wire)
      BY <1>1, <1>2, <1>5, <2>1
    <3>3. QED
      BY <1>1, <1>4, <3>1, <3>2
  <2>2. CASE i > Len(journal)
    <3>1. all[i] = keys[i - Len(journal)]
      BY <1>1, <1>2, <2>2
    <3>2. Len(wire') - Len(all) + i = Len(wire) + (i - Len(journal)) /\ i - Len(journal) \in 1 .. Len(keys)
      BY <1>1, <1>2, <1>5, <2>2
    <3>3. (wire \o keys)[Len(wire) + (i - Len(journal))] = keys[i - Len(journal)]
      BY <1>1, <3>2
    <3>4. QED
      BY <1>4, <3>1, <3>2, <3>3
  <2>3. QED
    BY <1>1, <1>2, <2>1, <2>2
<1> HIDE DEF all, over
<1>8. /\ journal' \in Seq(Keys) /\ Len(journal') = Len(all) - over
      /\ \A i \in 1 .. Len(all) - over : journal'[i] = all[over + i]
      /\ KeysOf(journal') = {all[i] : i \in over + 1 .. Len(all)}
  <2> DEFINE n == Len(all) - over
  <2>1. n \in 0 .. Len(all) /\ Len(all) - n = over
    BY <1>2, <1>3
  <2>2. journal' = Newest(all, n)
    BY <1>4
  <2> HIDE DEF n
  <2>3. /\ Newest(all, n) \in Seq(Keys) /\ Len(Newest(all, n)) = n
        /\ \A i \in 1 .. n : Newest(all, n)[i] = all[Len(all) - n + i]
        /\ KeysOf(Newest(all, n)) = {all[i] : i \in Len(all) - n + 1 .. Len(all)}
    BY <1>2, <2>1, NewestFacts
  <2>4. /\ journal' \in Seq(Keys) /\ Len(journal') = n /\ \A i \in 1 .. n : journal'[i] = all[over + i]
        /\ KeysOf(journal') = {all[i] : i \in over + 1 .. Len(all)}
    BY <2>1, <2>2, <2>3
  <2>5. QED
    BY <2>4 DEF n
<1>9. KeysOf(gone) = {all[i] : i \in 1 .. over}
  <2>1. Len(gone) = over /\ \A i \in 1 .. over : gone[i] = all[i]
    BY <1>2, <1>3
  <2>2. QED
    BY <2>1 DEF KeysOf
<1>10. JournalIsNewest'
  <2>1. Len(journal') <= Len(wire')
    BY <1>1, <1>2, <1>3, <1>5, <1>8
  <2>2. ASSUME NEW i \in 1 .. Len(journal')
        PROVE  journal'[i] = wire'[Len(wire') - Len(journal') + i]
    <3>1. over + i \in 1 .. Len(all) /\ Len(wire') - Len(all) + (over + i) = Len(wire') - Len(journal') + i
      BY <1>2, <1>3, <1>5, <1>8
    <3>2. QED
      BY <1>7, <1>8, <3>1
  <2>3. QED
    BY <2>1, <2>2 DEF JournalIsNewest
<1>11. \A i, j \in 1 .. Len(all) : i < j => all[i] < all[j]
  <2> SUFFICES ASSUME NEW i \in 1 .. Len(all), NEW j \in 1 .. Len(all), i < j PROVE all[i] < all[j]
    OBVIOUS
  <2>1. /\ Len(wire') - Len(all) + i \in 1 .. Len(wire') /\ Len(wire') - Len(all) + j \in 1 .. Len(wire')
        /\ Len(wire') - Len(all) + i < Len(wire') - Len(all) + j
    BY <1>1, <1>2, <1>5
  <2>2. QED
    BY <1>4, <1>7, <2>1 DEF Increasing
<1>12. all[Len(all)] = keys[Len(keys)]
  <2>1. Len(keys) \in 1 .. Len(keys)
    OBVIOUS
  <2>2. QED
    BY <1>1, <1>2, <2>1 DEF all
<1>13. ASSUME NEW k \in KeysOf(gone)
       PROVE  /\ k \in KeysOf(wire') /\ k \notin KeysOf(journal') /\ k \in KeysOf(all)
              /\ k < keys[Len(keys)]
  <2>1. PICK i \in 1 .. over : k = all[i]
    BY <1>9
  <2>2. i \in 1 .. Len(all) /\ i < Len(all) /\ Len(wire') - Len(all) + i \in 1 .. Len(wire')
    BY <1>1, <1>2, <1>3, <1>5
  <2>3. k \in KeysOf(wire') /\ k \in KeysOf(all)
    BY <1>7, <2>1, <2>2 DEF KeysOf
  <2>4. k < keys[Len(keys)]
    BY <1>2, <1>11, <1>12, <2>1, <2>2
  <2>5. ASSUME NEW j \in over + 1 .. Len(all) PROVE k # all[j]
    <3>1. j \in 1 .. Len(all) /\ i < j /\ all[i] < all[j] /\ all[i] \in Int /\ all[j] \in Int
      <4>1. j \in 1 .. Len(all) /\ i \in 1 .. Len(all) /\ i < j
        BY <1>2, <1>3, <2>2
      <4>2. all[i] \in Keys /\ all[j] \in Keys
        BY <1>2, <4>1
      <4>3. QED
        BY <1>11, <4>1, <4>2, BoundAssumption DEF Keys
    <3>2. QED
      BY <2>1, <3>1
  <2>6. QED
    BY <1>8, <2>3, <2>4, <2>5
<1>14. KeysOf(all) \subseteq KeysOf(journal') \cup KeysOf(gone) /\ KeysOf(journal') \subseteq KeysOf(all)
  <2>1. ASSUME NEW i \in 1 .. Len(all) PROVE i \in 1 .. over \/ i \in over + 1 .. Len(all)
    BY <1>2, <1>3
  <2>2. over + 1 .. Len(all) \subseteq 1 .. Len(all)
    BY <1>2, <1>3
  <2>3. KeysOf(all) = {all[i] : i \in 1 .. Len(all)}
    BY DEF KeysOf
  <2>4. QED
    BY <1>8, <1>9, <2>1, <2>2, <2>3
<1>15. KeysOf(gone) \subseteq Keys
  BY <1>2, <1>3, <1>9
<1>16. journal' # <<>> /\ Len(journal') <= JournalCap
  BY <1>1, <1>2, <1>3, <1>8
<1>17. ~truncated' => Len(journal') = Len(journal) + Len(keys)
  <2>1. ~truncated' => over = 0
    BY <1>3, <1>4
  <2>2. Len(all) - 0 = Len(journal) + Len(keys)
    BY <1>1, <1>2
  <2>3. QED
    BY <1>8, <2>1, <2>2
<1>18. QED
  BY <1>1, <1>2, <1>4, <1>5, <1>6, <1>8, <1>10, <1>13, <1>14, <1>15, <1>16, <1>17

\* Where Send puts the keys.
LEMMA SentFacts ==
    ASSUME TypedTypeOK, NEW keys \in Seq(Keys), Send(keys)
    PROVE  /\ wire' \in Seq(Keys) /\ Len(wire') = Len(wire) + Len(keys)
           /\ \A i \in 1 .. Len(wire) : wire'[i] = wire[i]
           /\ \A i \in 1 .. Len(keys) : wire'[Len(wire) + i] = keys[i]
           /\ Len(up') = Len(up) + Len(keys)
           /\ \A i \in 1 .. Len(up) : up'[i] = up[i]
           /\ \A i \in 1 .. Len(keys) : up'[Len(up) + i].type = "key" /\ up'[Len(up) + i].key = keys[i]
           /\ KeysOf(wire') = KeysOf(wire) \cup KeysOf(keys)
<1>1. wire \in Seq(Keys) /\ up \in Seq(Frame)
  BY DEF TypedTypeOK
<1>2. wire' = wire \o keys /\ up' = up \o [i \in 1 .. Len(keys) |-> Key(keys[i])]
  BY DEF Send
<1>3. [i \in 1 .. Len(keys) |-> Key(keys[i])] \in Seq(Frame)
  <2>1. \A i \in 1 .. Len(keys) : Key(keys[i]) \in Frame
    BY DEF Key, Frame
  <2>2. QED
    BY <2>1
<1>4. \A i \in 1 .. Len(keys) : up'[Len(up) + i] = Key(keys[i])
  BY <1>1, <1>2, <1>3
<1>5. \A i \in 1 .. Len(keys) : up'[Len(up) + i].type = "key" /\ up'[Len(up) + i].key = keys[i]
  <2>1. \A k : Key(k).type = "key" /\ Key(k).key = k
    BY DEF Key
  <2>2. QED
    BY <1>4, <2>1
<1>6. Len(up') = Len(up) + Len(keys) /\ \A i \in 1 .. Len(up) : up'[i] = up[i]
  BY <1>1, <1>2, <1>3
<1>7. KeysOf(wire') = KeysOf(wire) \cup KeysOf(keys)
  BY <1>1, <1>2, KeysOfConcat
<1>8. QED
  BY <1>1, <1>2, <1>5, <1>6, <1>7

\* What goes out behind the rest of the wire, in order and after no gap, leaves the
\* journal, the mark and the frames under way as they should be.
LEMMA SendKeeps ==
    ASSUME TypedTypeOK, JournalIsNewest, RestIsUnderWay, MarkIsTrue, GapsAreMarked, phase = "ready",
           NEW keys \in Seq(Keys), keys # <<>>, Send(keys), Increasing(wire \o keys),
           KeysOf(keys) \cap Gaps = {}, UNCHANGED <<phase, written, reached>>,
           \A i \in 1 .. Len(down') : down'[i].type = "ack" => down'[i].bytes <= written
    PROVE  /\ RestIsUnderWay' /\ MarkIsTrue'
           /\ \A k \in KeysOf(wire') \cap Gaps' : k - 1 \in KeysOf(wire')
<1>1. /\ wire \in Seq(Keys) /\ up \in Seq(Frame) /\ written \in Nat /\ reached \subseteq Keys
      /\ journal \in Seq(Keys) /\ truncated \in BOOLEAN
  BY DEF TypedTypeOK
<1>2. /\ Len(wire) \in Nat /\ Len(up) \in Nat /\ Len(keys) \in Nat /\ Len(journal) \in Nat /\ written \in Nat
      /\ Len(wire') = Len(wire) + Len(keys) /\ Len(up') = Len(up) + Len(keys) /\ written <= Len(wire)
  BY <1>1, SentFacts DEF RestIsUnderWay
<1>3. /\ Len(wire') = Len(wire) + Len(keys)
      /\ \A i \in 1 .. Len(wire) : wire'[i] = wire[i]
      /\ \A i \in 1 .. Len(keys) : wire'[Len(wire) + i] = keys[i]
      /\ Len(up') = Len(up) + Len(keys)
      /\ \A i \in 1 .. Len(up) : up'[i] = up[i]
      /\ \A i \in 1 .. Len(keys) : up'[Len(up) + i].type = "key" /\ up'[Len(up) + i].key = keys[i]
      /\ KeysOf(wire') = KeysOf(wire) \cup KeysOf(keys)
  BY SentFacts
<1>4. Increasing(wire')
  BY DEF Send
<1>5. RestIsUnderWay'
  <2>1. /\ written <= Len(wire) /\ \A i \in 1 .. written : wire[i] \in reached
        /\ \A i \in 1 .. Len(up) : up[i].type = "key" => up[i].key \in {wire[n] : n \in written + 1 .. Len(wire)}
        /\ \A n \in written + 1 .. Len(wire) : \E i \in 1 .. Len(up) : up[i].type = "key" /\ up[i].key = wire[n]
        /\ \A i, j \in 1 .. Len(up) : i < j /\ up[i].type = "key" /\ up[j].type = "key" => up[i].key < up[j].key
    BY DEF RestIsUnderWay
  <2>2. \A i \in 1 .. written : wire'[i] \in reached
    <3>1. \A i \in 1 .. written : i \in 1 .. Len(wire)
      BY <1>2
    <3>2. QED
      BY <1>3, <2>1, <3>1
  <2>8. written <= Len(wire')
    BY <1>2
  <2> DEFINE Carries(i, n) == /\ up'[i].key = wire'[n]
                              /\ i <= Len(up) => n <= Len(wire)
                              /\ i > Len(up) => n = Len(wire) + (i - Len(up))
  <2>3. ASSUME NEW i \in 1 .. Len(up'), up'[i].type = "key"
        PROVE  \E n \in written + 1 .. Len(wire') : Carries(i, n)
    <3>1. CASE i <= Len(up)
      <4>1. i \in 1 .. Len(up)
        BY <1>2, <3>1
      <4>2. PICK n \in written + 1 .. Len(wire) : up[i].key = wire[n]
        BY <1>3, <2>1, <2>3, <4>1
      <4>3. n \in written + 1 .. Len(wire') /\ n \in 1 .. Len(wire) /\ n <= Len(wire) /\ ~(i > Len(up))
        BY <1>2, <3>1
      <4>4. wire'[n] = wire[n] /\ up'[i] = up[i]
        BY <1>3, <4>1, <4>3
      <4>5. QED
        BY <4>2, <4>3, <4>4
    <3>2. CASE i > Len(up)
      <4>1. i - Len(up) \in 1 .. Len(keys) /\ Len(up) + (i - Len(up)) = i
        BY <1>2, <3>2
      <4>2. up'[i].key = keys[i - Len(up)] /\ wire'[Len(wire) + (i - Len(up))] = keys[i - Len(up)]
        BY <1>3, <4>1
      <4>3. Len(wire) + (i - Len(up)) \in written + 1 .. Len(wire') /\ ~(i <= Len(up))
        BY <1>2, <3>2
      <4>4. QED
        BY <4>2, <4>3
    <3>3. QED
      BY <1>2, <3>1, <3>2
  <2>4. ASSUME NEW n \in written + 1 .. Len(wire')
        PROVE  \E i \in 1 .. Len(up') : up'[i].type = "key" /\ up'[i].key = wire'[n]
    <3>1. CASE n <= Len(wire)
      <4>1. n \in written + 1 .. Len(wire) /\ n \in 1 .. Len(wire)
        BY <1>2, <3>1
      <4>2. PICK i \in 1 .. Len(up) : up[i].type = "key" /\ up[i].key = wire[n]
        BY <2>1, <4>1
      <4>3. i \in 1 .. Len(up')
        BY <1>2
      <4>4. up'[i] = up[i] /\ wire'[n] = wire[n]
        BY <1>3, <4>1
      <4>5. QED
        BY <4>2, <4>3, <4>4
    <3>2. CASE n > Len(wire)
      <4>1. n - Len(wire) \in 1 .. Len(keys) /\ Len(wire) + (n - Len(wire)) = n
        BY <1>2, <3>2
      <4>2. Len(up) + (n - Len(wire)) \in 1 .. Len(up')
        BY <1>2, <4>1
      <4>3. wire'[Len(wire) + (n - Len(wire))] = keys[n - Len(wire)]
        BY <1>3, <4>1
      <4>4. QED
        BY <1>3, <4>1, <4>2, <4>3
    <3>3. QED
      BY <1>2, <3>1, <3>2
  <2>5. ASSUME NEW i \in 1 .. Len(up'), NEW j \in 1 .. Len(up'), i < j, up'[i].type = "key", up'[j].type = "key"
        PROVE  up'[i].key < up'[j].key
    <3>1. CASE j <= Len(up)
      <4>1. i \in 1 .. Len(up) /\ j \in 1 .. Len(up)
        BY <1>2, <2>5, <3>1
      <4>2. QED
        BY <1>3, <2>1, <2>5, <4>1
    <3>2. CASE j > Len(up)
      <4> HIDE DEF Carries
      <4>1. PICK n \in written + 1 .. Len(wire') : Carries(i, n)
        BY <2>3, <2>5
      <4>2. PICK m \in written + 1 .. Len(wire') : Carries(j, m)
        BY <2>3, <2>5
      <4>3. n < m /\ n \in 1 .. Len(wire') /\ m \in 1 .. Len(wire')
        BY <1>2, <2>5, <3>2, <4>1, <4>2 DEF Carries
      <4>4. QED
        BY <1>4, <4>1, <4>2, <4>3 DEF Increasing, Carries
    <3>3. QED
      BY <1>2, <3>1, <3>2
  <2>6. \A i \in 1 .. Len(up') : up'[i].type = "key" => up'[i].key \in {wire'[n] : n \in written + 1 .. Len(wire')}
    BY <2>3
  <2>7. QED
    BY <2>2, <2>4, <2>5, <2>6, <2>8 DEF RestIsUnderWay
<1>6. MarkIsTrue'
  <2>1. /\ truncated' \in BOOLEAN /\ journal' # <<>>
        /\ truncated => truncated'
        /\ ~truncated' => Len(journal') = Len(journal) + Len(keys)
    BY SendFacts
  <2>2. ASSUME ~truncated', NEW i \in 1 .. Len(wire') - Len(journal') PROVE wire'[i] \in reached
    <3>1. Len(journal') = Len(journal) + Len(keys)
      BY <2>1, <2>2
    <3>4. ~truncated
      BY <2>1, <2>2
    <3>2. i \in 1 .. Len(wire) - Len(journal) /\ i \in 1 .. Len(wire)
      BY <1>2, <3>1
    <3>3. QED
      BY <1>3, <3>2, <3>4 DEF MarkIsTrue
  <2>3. reached' = reached
    OBVIOUS
  <2>4. QED
    BY <2>1, <2>2, <2>3, Zenon DEF MarkIsTrue
<1>7. ASSUME NEW k \in KeysOf(wire') \cap Gaps' PROVE k - 1 \in KeysOf(wire')
  <2>1. PICK c \in cut' \ reached : k = c + 1
    BY <1>7 DEF Gaps
  <2>2. cut' \subseteq Keys /\ \A n \in cut' \ cut : n \in KeysOf(wire')
    BY SendFacts
  <2>3. k - 1 = c
    BY <2>1, <2>2, BoundAssumption DEF Keys
  <2>4. CASE c \in cut
    <3>1. k \in Gaps
      BY <2>1, <2>4 DEF Gaps
    <3>2. QED
      BY <1>3, <1>7, <3>1 DEF GapsAreMarked
  <2>5. QED
    BY <2>1, <2>2, <2>3, <2>4
<1>8. QED
  BY <1>5, <1>6, <1>7

\* A new socket carries nothing yet, and there was none before it to carry anything.
LEMMA OpenKeepsKeys ==
    ASSUME TypedInv, Open
    PROVE  TypedInv'
<1>1. /\ journal = <<>> /\ journal' = <<>> /\ wire = <<>> /\ wire' = <<>> /\ replayed' = {} /\ ~truncated'
      /\ down' = <<>> /\ up' = Locate /\ written' = 0 /\ phase' = "ready" /\ typed' = FALSE /\ truncated' = FALSE
      /\ UNCHANGED <<pane, orphan, reached, alive, typedAt, cut, back, dropped>>
  BY DEF Open, TypedInv, NothingBetween
<1>2. /\ TypedTypeOK /\ InOrder /\ CutIsGone /\ GapsAreMarked /\ NoKeyIsLost
  BY DEF TypedInv
<1>3. KeysOf(<<>>) = {} /\ Len(<<>>) = 0
  BY DEF KeysOf
<1>4. up' \in Seq(Frame) /\ \A i \in 1 .. Len(up') : up'[i].type # "key"
  <2>1. pane \in Pane \cup {NoPane}
    BY <1>2 DEF TypedTypeOK
  <2>2. CASE pane = NoPane
    <3>1. up' = <<Where>>
      BY <1>1, <2>2 DEF Locate
    <3>2. QED
      BY <3>1 DEF Where, Frame
  <2>3. CASE pane # NoPane
    <3>1. up' = <<Select(pane), Where>>
      BY <1>1, <2>3 DEF Locate
    <3>2. Select(pane) \in Frame /\ Where \in Frame /\ Select(pane).type # "key" /\ Where.type # "key"
      BY <2>1, <2>3 DEF Select, Where, Frame
    <3>3. QED
      BY <3>1, <3>2
  <2>4. QED
    BY <2>2, <2>3
<1>5. TypedTypeOK'
  <2>1. cur' \in Pane /\ sockets' \in 0 .. MaxSockets /\ asking' \in BOOLEAN
    BY <1>2, PaneAssumption, BoundAssumption DEF Open, TypedTypeOK
  <2>2. /\ journal' \in Seq(Keys) /\ wire' \in Seq(Keys) /\ down' \in Seq(Message)
        /\ Len(journal') <= JournalCap /\ written' \in Nat /\ replayed' \subseteq [key : Keys, pane : Pane]
    <3>1. JournalCap \in Nat /\ 0 <= JournalCap /\ <<>> \in Seq(Keys) /\ <<>> \in Seq(Message)
      BY CapAssumption
    <3>2. QED
      BY <1>1, <1>3, <3>1
  <2>3. /\ phase' = "ready" /\ typed' \in BOOLEAN /\ truncated' \in BOOLEAN /\ pane' \in Pane \cup {NoPane}
        /\ orphan' \in Orphan /\ alive' \subseteq Pane
        /\ typedAt' \in Seq(Pane \cup {NoPane}) /\ Len(typedAt') <= MaxKeys
        /\ reached' \subseteq Keys /\ cut' \subseteq Keys /\ back' \subseteq Keys /\ dropped' \subseteq Keys
    BY <1>1, <1>2 DEF TypedTypeOK
  <2>4. QED
    BY <1>4, <2>1, <2>2, <2>3 DEF TypedTypeOK
<1>6. NothingBetween' /\ JournalIsNewest' /\ MarkIsTrue'
  BY <1>1, <1>3 DEF NothingBetween, JournalIsNewest, MarkIsTrue
<1>7. InOrder'
  BY <1>1, <1>2, <1>3 DEF InOrder, Increasing
<1>8. RestIsUnderWay'
  BY <1>1, <1>3, <1>4 DEF RestIsUnderWay
<1>9. CutIsGone' /\ NoKeyIsLost'
  BY <1>1, <1>2 DEF CutIsGone, NoKeyIsLost
<1>10. GapsAreMarked'
  BY <1>1, <1>2, <1>3 DEF GapsAreMarked, Gaps
<1>11. QED
  BY <1>5, <1>6, <1>7, <1>8, <1>9, <1>10 DEF TypedInv

\* A frame that is no key leaves the keys under way as they were.
LEMMA OtherFrames ==
    ASSUME TypedInv, NEW more \in Seq(Frame), \A i \in 1 .. Len(more) : more[i].type # "key",
           up' = up \o more, phase = "ready",
           UNCHANGED <<wire, written, reached, down, phase>>
    PROVE  RestIsUnderWay' /\ up' \in Seq(Frame)
<1>1. up \in Seq(Frame) /\ RestIsUnderWay
  BY DEF TypedInv, TypedTypeOK
<1>2. /\ Len(up) \in Nat /\ Len(more) \in Nat /\ Len(up') = Len(up) + Len(more) /\ up' \in Seq(Frame)
      /\ \A i \in 1 .. Len(up) : up'[i] = up[i]
      /\ \A i \in 1 .. Len(more) : up'[Len(up) + i] = more[i]
  BY <1>1
<1>3. ASSUME NEW i \in 1 .. Len(up'), up'[i].type = "key" PROVE i \in 1 .. Len(up)
  <2>1. CASE i > Len(up)
    <3>1. i - Len(up) \in 1 .. Len(more) /\ Len(up) + (i - Len(up)) = i
      BY <1>2, <2>1
    <3>2. QED
      BY <1>2, <1>3, <3>1
  <2>2. QED
    BY <1>2, <2>1
<1>4. 1 .. Len(up) \subseteq 1 .. Len(up')
  BY <1>2
<1>5. ASSUME NEW n \in written + 1 .. Len(wire)
      PROVE  \E i \in 1 .. Len(up') : up'[i].type = "key" /\ up'[i].key = wire[n]
  <2>1. PICK i \in 1 .. Len(up) : up[i].type = "key" /\ up[i].key = wire[n]
    BY <1>1 DEF RestIsUnderWay
  <2>2. QED
    BY <1>2, <1>4, <2>1
<1>6. \A i \in 1 .. Len(up') : up'[i].type = "key" => up'[i].key \in {wire[n] : n \in written + 1 .. Len(wire)}
  BY <1>1, <1>2, <1>3 DEF RestIsUnderWay
<1>7. \A i, j \in 1 .. Len(up') : i < j /\ up'[i].type = "key" /\ up'[j].type = "key" => up'[i].key < up'[j].key
  BY <1>1, <1>2, <1>3 DEF RestIsUnderWay
<1>8. QED
  BY <1>1, <1>2, <1>5, <1>6, <1>7 DEF RestIsUnderWay

\* A click and a waking leave the keys alone.
LEMMA MovesKeepKeys ==
    ASSUME TypedInv, Wake \/ \E p \in Pane : Click(p)
    PROVE  TypedInv'
<1>1. /\ UNCHANGED <<phase, typed, orphan, journalVars, down, daemonVars, sockets, alive, typedAt, cut, back, dropped,
                     replayed>>
      /\ pane' \in Pane \cup {NoPane} /\ asking' \in BOOLEAN
  BY DEF Wake, Click, TypedInv, TypedTypeOK
<1>2. ASSUME phase # "ready" PROVE up' = up
  BY <1>2 DEF Wake, Click
<1>3. ASSUME phase = "ready" PROVE RestIsUnderWay' /\ up' \in Seq(Frame)
  <2>1. \E more \in Seq(Frame) : (\A i \in 1 .. Len(more) : more[i].type # "key") /\ up' = up \o more
    <3>1. CASE Wake
      <4>1. up = <<>> /\ up' = Locate /\ pane \in Pane \cup {NoPane}
        BY <3>1 DEF Wake, TypedInv, TypedTypeOK
      <4>2. Locate \in Seq(Frame) /\ (\A i \in 1 .. Len(Locate) : Locate[i].type # "key")
        <5>1. CASE pane = NoPane
          BY <5>1 DEF Locate, Where, Frame
        <5>2. CASE pane # NoPane
          <6>1. Locate = <<Select(pane), Where>>
            BY <5>2 DEF Locate
          <6>2. Select(pane) \in Frame /\ Where \in Frame /\ Select(pane).type # "key" /\ Where.type # "key"
            BY <4>1, <5>2 DEF Select, Where, Frame
          <6>3. QED
            BY <6>1, <6>2
        <5>3. QED
          BY <5>1, <5>2
      <4>3. <<>> \o Locate = Locate
        BY <4>2
      <4>4. QED
        BY <4>1, <4>2, <4>3
    <3>2. CASE \E p \in Pane : Click(p)
      <4>1. PICK p \in Pane : up' = Append(up, Select(p))
        BY <1>3, <3>2 DEF Click
      <4>2. up \in Seq(Frame) /\ Select(p) \in Frame /\ Select(p).type # "key"
        BY DEF TypedInv, TypedTypeOK, Select, Frame
      <4>3. <<Select(p)>> \in Seq(Frame) /\ up' = up \o <<Select(p)>>
        BY <4>1, <4>2
      <4>4. \A i \in 1 .. Len(<<Select(p)>>) : <<Select(p)>>[i].type # "key"
        BY <4>2
      <4>5. QED
        BY <4>3, <4>4
    <3>3. QED
      BY <3>1, <3>2
  <2>2. QED
    BY <1>1, <1>3, <2>1, OtherFrames DEF journalVars, daemonVars
<1>4. RestIsUnderWay' /\ up' \in Seq(Frame)
  BY <1>1, <1>2, <1>3 DEF RestIsUnderWay, TypedInv, TypedTypeOK
<1>5. TypedTypeOK'
  BY <1>1, <1>4 DEF TypedInv, TypedTypeOK, journalVars, daemonVars
<1>6. NothingBetween'
  BY <1>1, <1>2 DEF TypedInv, NothingBetween, journalVars
<1>7. InOrder' /\ JournalIsNewest' /\ MarkIsTrue' /\ CutIsGone' /\ NoKeyIsLost'
  BY <1>1 DEF TypedInv, InOrder, Increasing, JournalIsNewest, MarkIsTrue, CutIsGone, NoKeyIsLost, KeysOf,
              journalVars, daemonVars
<1>8. GapsAreMarked'
  BY <1>1 DEF TypedInv, GapsAreMarked, Gaps, KeysOf, journalVars, daemonVars
<1>9. QED
  BY <1>4, <1>5, <1>6, <1>7, <1>8 DEF TypedInv

\* Neither does the death of a pane or the end of the session.
LEMMA EndsKeepKeys ==
    ASSUME TypedInv, MarkGone \/ PaneDies \/ UNCHANGED typedVars
    PROVE  TypedInv'
<1>1. /\ UNCHANGED <<pane, asking, typed, orphan, journalVars, up, down, written, reached, sockets, typedAt, cut, back,
                     dropped, replayed>>
      /\ cur' \in Pane /\ alive' \subseteq Pane
      /\ phase' = phase \/ (phase' = "gone" /\ phase # "ready")
  <2>1. cur \in Pane /\ alive \subseteq Pane
    BY DEF TypedInv, TypedTypeOK
  <2>2. CASE MarkGone
    BY <2>1, <2>2 DEF MarkGone, daemonVars
  <2>3. CASE PaneDies
    BY <2>1, <2>3, PaneAssumption DEF PaneDies, tabVars, journalVars
  <2>4. CASE UNCHANGED typedVars
    BY <2>1, <2>4 DEF typedVars, tabVars, daemonVars, journalVars
  <2>5. QED
    BY <2>2, <2>3, <2>4
<1>2. TypedTypeOK' /\ NothingBetween' /\ RestIsUnderWay'
  BY <1>1 DEF TypedInv, TypedTypeOK, NothingBetween, RestIsUnderWay, journalVars
<1>3. InOrder' /\ JournalIsNewest' /\ MarkIsTrue' /\ CutIsGone' /\ NoKeyIsLost'
  BY <1>1 DEF TypedInv, InOrder, Increasing, JournalIsNewest, MarkIsTrue, CutIsGone, NoKeyIsLost, KeysOf, journalVars
<1>4. GapsAreMarked'
  BY <1>1 DEF TypedInv, GapsAreMarked, Gaps, KeysOf, journalVars
<1>5. QED
  BY <1>2, <1>3, <1>4 DEF TypedInv

\* What the journal holds is on the wire, and keys are numbers.
LEMMA JournalIsOnTheWire ==
    ASSUME TypedTypeOK, JournalIsNewest
    PROVE  /\ KeysOf(journal) \subseteq KeysOf(wire) /\ KeysOf(wire) \subseteq Keys /\ Keys \subseteq Nat
           /\ KeysOf(orphan.keys) \subseteq Keys /\ orphan.keys \in Seq(Keys)
           /\ journal \in Seq(Keys) /\ wire \in Seq(Keys)
<1>1. journal \in Seq(Keys) /\ wire \in Seq(Keys) /\ orphan.keys \in Seq(Keys)
  BY DEF TypedTypeOK, Orphan
<1>2. \A i \in 1 .. Len(journal) : Len(wire) - Len(journal) + i \in 1 .. Len(wire)
  BY <1>1 DEF JournalIsNewest
<1>3. KeysOf(journal) \subseteq KeysOf(wire)
  BY <1>2 DEF KeysOf, JournalIsNewest
<1>4. KeysOf(wire) \subseteq Keys /\ KeysOf(orphan.keys) \subseteq Keys
  BY <1>1 DEF KeysOf
<1>5. Keys \subseteq Nat
  BY BoundAssumption DEF Keys
<1>6. QED
  BY <1>1, <1>3, <1>4, <1>5

\* A key that is typed is the newest there is.
LEMMA TypeKeepsKeys ==
    ASSUME TypedInv, Type
    PROVE  TypedInv'
<1> DEFINE new == Len(typedAt) + 1
<1>1. /\ TypedTypeOK /\ InOrder /\ JournalIsNewest /\ RestIsUnderWay /\ MarkIsTrue /\ CutIsGone
      /\ GapsAreMarked /\ NoKeyIsLost
  BY DEF TypedInv
<1>2. /\ phase = "ready" /\ typedAt' = Append(typedAt, pane) /\ Send(<<new>>) /\ typed' = TRUE
      /\ UNCHANGED <<phase, pane, asking, orphan, down, cur, written, reached, sockets, alive, back, dropped, replayed>>
      /\ Len(typedAt) < MaxKeys
  BY DEF Type, daemonVars
<1>3. /\ Len(typedAt) \in Nat /\ new \in Keys /\ typedAt' \in Seq(Pane \cup {NoPane}) /\ Len(typedAt') = new
      /\ cut \subseteq Keys
  <2>1. typedAt \in Seq(Pane \cup {NoPane}) /\ pane \in Pane \cup {NoPane} /\ cut \subseteq Keys
    BY <1>1 DEF TypedTypeOK
  <2>2. new \in Keys
    BY <1>2, <2>1, BoundAssumption DEF Keys
  <2>3. QED
    BY <1>2, <2>1, <2>2
<1> HIDE DEF new
<1>4. /\ KeysOf(journal) \subseteq KeysOf(wire) /\ KeysOf(wire) \subseteq Keys /\ Keys \subseteq Nat
      /\ KeysOf(orphan.keys) \subseteq Keys /\ wire \in Seq(Keys)
  BY <1>1, JournalIsOnTheWire
<1>5. <<new>> \in Seq(Keys) /\ Len(<<new>>) = 1 /\ <<new>>[1] = new /\ KeysOf(<<new>>) = {new} /\ <<new>> # <<>>
  BY <1>3 DEF KeysOf
<1>6. \A k \in KeysOf(orphan.keys) \cup KeysOf(wire) : k < new
  <2> SUFFICES ASSUME NEW k \in KeysOf(orphan.keys) \cup KeysOf(wire) PROVE k < new
    OBVIOUS
  <2>1. k <= Len(typedAt)
    BY <1>1 DEF InOrder
  <2>2. k \in Nat
    BY <1>4
  <2>3. QED
    BY <1>3, <2>1, <2>2 DEF new
<1>7. Increasing(wire \o <<new>>)
  <2> SUFFICES ASSUME NEW i \in 1 .. Len(wire \o <<new>>), NEW j \in 1 .. Len(wire \o <<new>>), i < j
               PROVE  (wire \o <<new>>)[i] < (wire \o <<new>>)[j]
    BY DEF Increasing
  <2>1. Len(wire) \in Nat /\ Len(wire \o <<new>>) = Len(wire) + 1
    BY <1>4, <1>5
  <2>2. (wire \o <<new>>)[Len(wire) + 1] = new /\ \A n \in 1 .. Len(wire) : (wire \o <<new>>)[n] = wire[n]
    BY <1>4, <1>5
  <2>3. i \in 1 .. Len(wire) /\ (j \in 1 .. Len(wire) \/ j = Len(wire) + 1)
    BY <2>1
  <2>4. CASE j \in 1 .. Len(wire)
    BY <1>1, <2>2, <2>3, <2>4 DEF InOrder, Increasing
  <2>5. CASE j = Len(wire) + 1
    BY <1>6, <2>2, <2>3, <2>5 DEF KeysOf
  <2>6. QED
    BY <2>3, <2>4, <2>5
<1>8. KeysOf(<<new>>) \cap Gaps = {}
  <2>1. \A c \in cut : c + 1 # new
    BY <1>1, <1>3, <1>4 DEF CutIsGone, new
  <2>2. QED
    BY <1>5, <2>1 DEF Gaps
<1>9. \A i \in 1 .. Len(down') : down'[i].type = "ack" => down'[i].bytes <= written
  BY <1>1, <1>2 DEF RestIsUnderWay
<1>10. RestIsUnderWay' /\ MarkIsTrue' /\ \A k \in KeysOf(wire') \cap Gaps' : k - 1 \in KeysOf(wire')
  BY <1>1, <1>2, <1>5, <1>7, <1>8, <1>9, SendKeeps
<1>11. /\ wire' = wire \o <<new>> /\ wire' \in Seq(Keys) /\ up' \in Seq(Frame)
       /\ journal' \in Seq(Keys) /\ Len(journal') <= JournalCap /\ JournalIsNewest'
       /\ truncated' \in BOOLEAN /\ cut' \subseteq Keys /\ cut \subseteq cut'
       /\ KeysOf(journal) \cup {new} \subseteq KeysOf(journal') \cup cut'
       /\ KeysOf(journal') \subseteq KeysOf(journal) \cup {new}
       /\ \A k \in cut' \ cut : /\ k \in KeysOf(wire') /\ k \notin KeysOf(journal')
                                /\ k \in KeysOf(journal) \cup {new}
                                /\ k < new
  <2>1. <<new>>[Len(<<new>>)] = new
    BY <1>5
  <2>2. QED
    BY <1>1, <1>2, <1>5, <1>7, <2>1, SendFacts
<1>12. KeysOf(wire') = KeysOf(wire) \cup {new}
  BY <1>4, <1>5, <1>11, KeysOfConcat
<1>13. TypedTypeOK'
  <2>1. Len(typedAt') <= MaxKeys
    BY <1>2, <1>3, BoundAssumption DEF new
  <2>2. QED
    BY <1>1, <1>2, <1>3, <1>11, <2>1 DEF TypedTypeOK
<1>14. NothingBetween'
  BY <1>2 DEF NothingBetween
<1>15. InOrder'
  <2>1. Increasing(orphan'.keys) /\ Increasing(wire')
    BY <1>1, <1>2, <1>7, <1>11 DEF InOrder
  <2>2. \A h \in KeysOf(orphan'.keys), k \in KeysOf(wire') : h < k
    BY <1>1, <1>2, <1>6, <1>12 DEF InOrder
  <2>3. \A k \in KeysOf(orphan'.keys) \cup KeysOf(wire') : k <= Len(typedAt')
    BY <1>2, <1>3, <1>4, <1>6, <1>12 DEF Keys
  <2>4. QED
    BY <1>2, <2>1, <2>2, <2>3 DEF InOrder
<1>16. CutIsGone'
  <2>1. ASSUME NEW k \in cut' PROVE k < new
    BY <1>1, <1>3, <1>4, <1>11 DEF CutIsGone, new
  <2>2. ASSUME NEW k \in cut' PROVE k \notin KeysOf(journal')
    BY <1>1, <1>11, <2>1, <1>3, <1>4 DEF CutIsGone
  <2>3. ASSUME NEW k \in cut' PROVE k \notin KeysOf(orphan.keys)
    <3>1. CASE k \in cut
      BY <1>1, <3>1 DEF CutIsGone
    <3>2. CASE k \notin cut
      <4>1. k \in KeysOf(wire) \cup {new}
        BY <1>4, <1>11, <3>2
      <4>2. \A h \in KeysOf(orphan.keys) : h < k
        BY <1>1, <1>6, <4>1 DEF InOrder
      <4>3. k \in Nat
        BY <1>4, <1>11
      <4>4. QED
        BY <4>2, <4>3
    <3>3. QED
      BY <3>1, <3>2
  <2>4. QED
    BY <1>2, <1>3, <2>1, <2>2, <2>3 DEF CutIsGone
<1>17. GapsAreMarked'
  <2>1. ASSUME NEW k \in KeysOf(orphan.keys) \cap Gaps', ~orphan.truncated PROVE FALSE
    <3>1. PICK c \in cut' \ reached : k = c + 1
      BY <1>2, <2>1 DEF Gaps
    <3>2. CASE c \in cut
      BY <1>1, <2>1, <3>1, <3>2 DEF GapsAreMarked, Gaps
    <3>3. CASE c \notin cut
      <4>1. c \in KeysOf(wire) \cup {new} /\ c \in Nat
        BY <1>3, <1>4, <1>11, <3>1, <3>3
      <4>2. k < c
        BY <1>1, <1>6, <2>1, <4>1 DEF InOrder
      <4>3. QED
        BY <3>1, <4>1, <4>2
    <3>4. QED
      BY <3>2, <3>3
  <2>2. \A r \in replayed : r.key \in KeysOf(wire')
    BY <1>1, <1>12 DEF GapsAreMarked
  <2>3. QED
    BY <1>2, <1>10, <2>1, <2>2 DEF GapsAreMarked
<1>18. NoKeyIsLost'
  <2>1. \A k \in 1 .. Len(typedAt') : k \in 1 .. Len(typedAt) \/ k = new
    BY <1>3 DEF new
  <2>2. QED
    BY <1>1, <1>2, <1>11, <2>1 DEF NoKeyIsLost
<1>19. QED
  BY <1>10, <1>11, <1>13, <1>14, <1>15, <1>16, <1>17, <1>18 DEF TypedInv

\* What an acknowledgement frees is what the pty has; the rest is still the newest.
LEMMA AckFacts ==
    ASSUME TypedTypeOK, JournalIsNewest, NEW n \in Nat, n <= Len(wire), NoteAck(n)
    PROVE  /\ journal' \in Seq(Keys) /\ Len(journal') <= JournalCap /\ JournalIsNewest'
           /\ KeysOf(journal') \subseteq KeysOf(journal)
           /\ \A k \in KeysOf(journal) \ KeysOf(journal') : \E i \in 1 .. n : k = wire[i]
           /\ journal' = journal \/ Len(wire) - Len(journal') = n
           /\ wire' = wire /\ truncated' = (truncated /\ journal' # <<>>)
<1> DEFINE left == Len(wire) - n
<1>1. /\ journal \in Seq(Keys) /\ wire \in Seq(Keys) /\ Len(journal) \in Nat /\ Len(wire) \in Nat
      /\ Len(journal) <= Len(wire) /\ Len(journal) <= JournalCap /\ JournalCap \in Nat
  BY CapAssumption DEF TypedTypeOK, JournalIsNewest
<1>2. /\ wire' = wire /\ truncated' = (truncated /\ journal' # <<>>)
      /\ left < Len(journal) => journal' = Newest(journal, left)
      /\ ~(left < Len(journal)) => journal' = journal
  BY DEF NoteAck
<1>3. left \in Nat /\ Len(wire) - left = n
  BY <1>1
<1> HIDE DEF left
<1>4. CASE ~(left < Len(journal))
  BY <1>1, <1>2, <1>4 DEF JournalIsNewest
<1>5. CASE left < Len(journal)
  <2>1. left \in 0 .. Len(journal) /\ journal' = Newest(journal, left)
    BY <1>1, <1>2, <1>3, <1>5
  <2>2. /\ journal' \in Seq(Keys) /\ Len(journal') = left
        /\ \A i \in 1 .. left : journal'[i] = journal[Len(journal) - left + i]
        /\ KeysOf(journal') = {journal[i] : i \in Len(journal) - left + 1 .. Len(journal)}
    BY <1>1, <2>1, NewestFacts
  <2>3. ASSUME NEW i \in 1 .. left PROVE journal'[i] = wire[Len(wire) - left + i]
    <3>1. /\ Len(journal) - left + i \in 1 .. Len(journal)
          /\ Len(wire) - Len(journal) + (Len(journal) - left + i) = Len(wire) - left + i
      BY <1>1, <1>3, <1>5
    <3>2. journal[Len(journal) - left + i] = wire[Len(wire) - Len(journal) + (Len(journal) - left + i)]
      BY <3>1 DEF JournalIsNewest
    <3>3. QED
      BY <2>2, <3>1, <3>2
  <2>4. JournalIsNewest'
    BY <1>1, <1>2, <1>3, <1>5, <2>2, <2>3 DEF JournalIsNewest
  <2>5. KeysOf(journal') \subseteq KeysOf(journal)
    <3>1. Len(journal) - left + 1 .. Len(journal) \subseteq 1 .. Len(journal)
      BY <1>1, <1>3, <1>5
    <3>2. QED
      BY <2>2, <3>1 DEF KeysOf
  <2>6. ASSUME NEW k \in KeysOf(journal) \ KeysOf(journal') PROVE \E i \in 1 .. n : k = wire[i]
    <3>1. PICK j \in 1 .. Len(journal) : k = journal[j]
      BY <2>6 DEF KeysOf
    <3>2. j \notin Len(journal) - left + 1 .. Len(journal)
      BY <2>2, <2>6, <3>1
    <3>3. Len(wire) - Len(journal) + j \in 1 .. n
      BY <1>1, <1>3, <1>5, <3>2
    <3>4. k = wire[Len(wire) - Len(journal) + j]
      BY <3>1 DEF JournalIsNewest
    <3>5. QED
      BY <3>3, <3>4
  <2>7. Len(journal') <= JournalCap /\ Len(wire) - Len(journal') = n
    BY <1>1, <1>3, <1>5, <2>2
  <2>8. QED
    BY <1>2, <2>2, <2>4, <2>5, <2>6, <2>7
<1>6. QED
  BY <1>4, <1>5

\* Reading a message takes it off the wire.
LEMMA MessageRead ==
    ASSUME TypedTypeOK, RestIsUnderWay, phase = "ready", down # <<>>, down' = Tail(down)
    PROVE  /\ Head(down) \in Message /\ down' \in Seq(Message)
           /\ \A i \in 1 .. Len(down') : down'[i].type = "ack" => down'[i].bytes <= written
           /\ Head(down).type = "ack" => Head(down).bytes <= written
<1>1. down \in Seq(Message) /\ Len(down) \in Nat /\ Len(down) >= 1
  BY DEF TypedTypeOK
<1>2. Head(down) = down[1] /\ down[1] \in Message /\ 1 \in 1 .. Len(down)
  BY <1>1
<1>3. down' \in Seq(Message) /\ Len(down') = Len(down) - 1 /\ \A i \in 1 .. Len(down') : down'[i] = down[i + 1]
  BY <1>1
<1>4. \A i \in 1 .. Len(down') : i + 1 \in 1 .. Len(down)
  BY <1>1, <1>3
<1>5. QED
  BY <1>2, <1>3, <1>4 DEF RestIsUnderWay

LEMMA AckKeepsKeys ==
    ASSUME TypedInv, Receive, Head(down).type = "ack"
    PROVE  TypedInv'
<1>1. /\ TypedTypeOK /\ InOrder /\ JournalIsNewest /\ RestIsUnderWay /\ MarkIsTrue /\ CutIsGone
      /\ GapsAreMarked /\ NoKeyIsLost
  BY DEF TypedInv
<1> DEFINE n == Head(down).bytes
<1>2. /\ phase = "ready" /\ down # <<>> /\ down' = Tail(down) /\ NoteAck(n)
      /\ UNCHANGED <<phase, pane, asking, typed, orphan, up, cut, back, dropped, replayed, cur, written, reached, sockets,
                     alive, typedAt>>
  BY DEF Receive, daemonVars
<1>3. /\ Head(down) \in Message /\ down' \in Seq(Message) /\ n <= written
      /\ \A i \in 1 .. Len(down') : down'[i].type = "ack" => down'[i].bytes <= written
  BY <1>1, <1>2, MessageRead
<1>4. n \in Nat
  BY <1>3 DEF Message
<1>5. /\ written \in Nat /\ written <= Len(wire) /\ \A i \in 1 .. written : wire[i] \in reached
      /\ wire \in Seq(Keys) /\ Len(wire) \in Nat /\ journal \in Seq(Keys) /\ Len(journal) \in Nat
      /\ truncated \in BOOLEAN
  BY <1>1, <1>2 DEF RestIsUnderWay, TypedTypeOK
<1> HIDE DEF n
<1>6. \A i \in 1 .. n : i \in 1 .. written
  BY <1>3, <1>4, <1>5
<1>7. n <= Len(wire)
  BY <1>3, <1>4, <1>5
<1>8. /\ journal' \in Seq(Keys) /\ Len(journal') <= JournalCap /\ JournalIsNewest'
      /\ KeysOf(journal') \subseteq KeysOf(journal)
      /\ \A k \in KeysOf(journal) \ KeysOf(journal') : \E i \in 1 .. n : k = wire[i]
      /\ journal' = journal \/ Len(wire) - Len(journal') = n
      /\ wire' = wire /\ truncated' = (truncated /\ journal' # <<>>)
  BY <1>1, <1>2, <1>4, <1>7, AckFacts
<1>9. KeysOf(journal) \subseteq KeysOf(journal') \cup reached
  BY <1>5, <1>6, <1>8
<1>10. TypedTypeOK'
  BY <1>1, <1>2, <1>3, <1>8 DEF TypedTypeOK
<1>11. MarkIsTrue'
  <2>1. CASE journal' = journal
    <3>1. truncated' = truncated
      BY <1>1, <1>5, <1>8, <2>1 DEF MarkIsTrue
    <3>2. QED
      BY <1>1, <1>2, <1>8, <2>1, <3>1 DEF MarkIsTrue
  <2>2. CASE Len(wire) - Len(journal') = n
    <3>1. \A i \in 1 .. Len(wire) - Len(journal') : wire[i] \in reached
      BY <1>5, <1>6, <2>2
    <3>2. QED
      BY <1>2, <1>8, <3>1 DEF MarkIsTrue
  <2>3. QED
    BY <1>8, <2>1, <2>2
<1>12. NothingBetween' /\ RestIsUnderWay' /\ InOrder'
  <2>1. NothingBetween'
    BY <1>2 DEF NothingBetween
  <2>2. /\ UNCHANGED <<phase, written, wire, reached, up, orphan, typed, typedAt>>
        /\ \A i \in 1 .. Len(down') : down'[i].type = "ack" => down'[i].bytes <= written
    BY <1>2, <1>3, <1>8
  <2>3. RestIsUnderWay'
    BY <1>1, <2>2 DEF RestIsUnderWay
  <2>4. InOrder'
    BY <1>1, <2>2 DEF InOrder, Increasing, KeysOf
  <2>5. QED
    BY <2>1, <2>3, <2>4
<1>13. CutIsGone'
  BY <1>1, <1>2, <1>8 DEF CutIsGone
<1>14. GapsAreMarked'
  BY <1>1, <1>2, <1>8 DEF GapsAreMarked, Gaps
<1>15. NoKeyIsLost'
  BY <1>1, <1>2, <1>9 DEF NoKeyIsLost
<1>16. QED
  BY <1>8, <1>10, <1>11, <1>12, <1>13, <1>14, <1>15 DEF TypedInv

\* Text that is sent again is all the new socket carries.
LEMMA ReplayKeepsKeys ==
    ASSUME TypedInv, NEW p \in Pane, phase = "ready", orphan.keys # <<>>, Safe(p), Send(orphan.keys),
           orphan' = NoOrphan, pane' = p, asking' = FALSE, down # <<>>, down' = Tail(down),
           replayed' = replayed \cup {[key |-> k, pane |-> p] : k \in KeysOf(orphan.keys)},
           UNCHANGED <<phase, typed, back, dropped, cur, written, reached, sockets, alive, typedAt>>
    PROVE  TypedInv'
<1> DEFINE keys == orphan.keys
<1>1. /\ TypedTypeOK /\ InOrder /\ JournalIsNewest /\ RestIsUnderWay /\ MarkIsTrue /\ CutIsGone
      /\ GapsAreMarked /\ NoKeyIsLost
  BY DEF TypedInv
<1>2. ~typed /\ ~orphan.truncated
  BY DEF Safe
<1>3. /\ keys \in Seq(Keys) /\ KeysOf(keys) \subseteq Keys /\ Keys \subseteq Nat /\ Len(keys) \in Nat /\ Len(keys) >= 1
      /\ Len(typedAt) \in Nat
  BY <1>1, JournalIsOnTheWire DEF TypedTypeOK
<1>4. wire = <<>> /\ journal = <<>>
  <2>1. wire = <<>>
    BY <1>1, <1>2 DEF InOrder
  <2>2. journal \in Seq(Keys) /\ Len(journal) <= 0
    BY <1>1, <2>1 DEF JournalIsNewest, TypedTypeOK
  <2>3. QED
    BY <2>1, <2>2
<1>5. KeysOf(<<>>) = {} /\ wire \o keys = keys /\ Increasing(wire \o keys) /\ KeysOf(keys) \cap Gaps = {}
  BY <1>1, <1>2, <1>3, <1>4 DEF KeysOf, InOrder, GapsAreMarked
<1>6. /\ down' \in Seq(Message)
      /\ \A i \in 1 .. Len(down') : down'[i].type = "ack" => down'[i].bytes <= written
  BY <1>1, MessageRead
<1>7. RestIsUnderWay' /\ MarkIsTrue' /\ \A k \in KeysOf(wire') \cap Gaps' : k - 1 \in KeysOf(wire')
  BY <1>1, <1>3, <1>5, <1>6, SendKeeps
<1>8. /\ wire' = wire \o keys /\ wire' \in Seq(Keys) /\ up' \in Seq(Frame)
      /\ journal' \in Seq(Keys) /\ Len(journal') <= JournalCap /\ JournalIsNewest'
      /\ truncated' \in BOOLEAN /\ cut' \subseteq Keys /\ cut \subseteq cut'
      /\ KeysOf(journal) \cup KeysOf(keys) \subseteq KeysOf(journal') \cup cut'
      /\ KeysOf(journal') \subseteq KeysOf(journal) \cup KeysOf(keys)
      /\ \A k \in cut' \ cut : k \notin KeysOf(journal') /\ k < keys[Len(keys)]
  BY <1>1, <1>3, <1>5, SendFacts
<1>9. wire' = keys /\ keys[Len(keys)] \in KeysOf(keys)
  <2>1. Len(keys) \in 1 .. Len(keys)
    BY <1>3
  <2>2. QED
    BY <1>5, <1>8, <2>1 DEF KeysOf
<1>10. orphan' \in Orphan /\ orphan'.keys = <<>> /\ orphan'.truncated = FALSE
  BY DEF NoOrphan, Orphan
<1> HIDE DEF keys
<1>11. TypedTypeOK'
  <2>1. replayed' \subseteq [key : Keys, pane : Pane]
    BY <1>1, <1>3 DEF TypedTypeOK, keys
  <2>2. QED
    BY <1>1, <1>6, <1>8, <1>10, <2>1 DEF TypedTypeOK
<1>12. NothingBetween'
  BY DEF NothingBetween
<1>13. InOrder'
  <2>1. \A k \in KeysOf(keys) : k <= Len(typedAt)
    BY <1>1 DEF InOrder, keys
  <2>2. Increasing(<<>>)
    BY DEF Increasing
  <2>3. QED
    BY <1>5, <1>9, <1>10, <2>1, <2>2 DEF InOrder
<1>14. CutIsGone'
  <2>1. ASSUME NEW k \in cut' PROVE k < Len(typedAt)
    <3>1. keys[Len(keys)] <= Len(typedAt) /\ keys[Len(keys)] \in Nat /\ k \in Nat
      BY <1>1, <1>3, <1>8, <1>9 DEF InOrder, keys
    <3>2. QED
      BY <1>1, <1>3, <1>8, <3>1 DEF CutIsGone
  <2>2. \A k \in cut : k \notin KeysOf(keys)
    BY <1>1 DEF CutIsGone, keys
  <2>3. \A k \in cut' : k \notin KeysOf(journal')
    BY <1>4, <1>5, <1>8, <2>2
  <2>4. QED
    BY <1>5, <1>10, <2>1, <2>3 DEF CutIsGone
<1>15. GapsAreMarked'
  <2>1. \A r \in replayed' : r.key \in KeysOf(wire')
    BY <1>1, <1>4, <1>5, <1>9 DEF GapsAreMarked, keys
  <2>2. QED
    BY <1>5, <1>7, <1>10, <2>1 DEF GapsAreMarked
<1>16. NoKeyIsLost'
  BY <1>1, <1>8 DEF NoKeyIsLost, keys
<1>17. QED
  BY <1>7, <1>8, <1>11, <1>12, <1>13, <1>14, <1>15, <1>16 DEF TypedInv

LEMMA AnswerKeepsKeys ==
    ASSUME TypedInv, Receive, Head(down).type # "ack"
    PROVE  TypedInv'
<1> DEFINE p == Head(down).pane
<1>1. /\ TypedTypeOK /\ NothingBetween /\ InOrder /\ JournalIsNewest /\ RestIsUnderWay /\ MarkIsTrue /\ CutIsGone
      /\ GapsAreMarked /\ NoKeyIsLost
  BY DEF TypedInv
<1>2. /\ phase = "ready" /\ down # <<>> /\ down' = Tail(down)
      /\ UNCHANGED <<phase, typed, cur, written, reached, sockets, alive, typedAt, dropped>>
      /\ \/ asking' = FALSE /\ pane' = p /\ SettleOrphan(p)
         \/ UNCHANGED <<pane, asking, orphan, journalVars, up, cut, back, replayed>>
  BY DEF Receive, daemonVars
<1>3. /\ Head(down) \in Message /\ down' \in Seq(Message)
      /\ \A i \in 1 .. Len(down') : down'[i].type = "ack" => down'[i].bytes <= written
  BY <1>1, <1>2, MessageRead
<1>4. p \in Pane
  BY <1>3 DEF Message
<1> HIDE DEF p
<1>5. CASE asking' = FALSE /\ pane' = p /\ SettleOrphan(p) /\ orphan.keys # <<>> /\ Safe(p)
  BY <1>2, <1>4, <1>5, ReplayKeepsKeys DEF SettleOrphan
<1>6. CASE asking' = FALSE /\ pane' = p /\ SettleOrphan(p) /\ ~(orphan.keys # <<>> /\ Safe(p))
  <2>1. /\ orphan' = NoOrphan /\ back' = back \cup KeysOf(orphan.keys)
        /\ UNCHANGED <<journal, truncated, wire, up, cut, replayed>>
    BY <1>6 DEF SettleOrphan, journalVars
  <2>2. orphan' \in Orphan /\ orphan'.keys = <<>> /\ orphan'.truncated = FALSE
    BY <2>1 DEF NoOrphan, Orphan
  <2>3. KeysOf(<<>>) = {} /\ Increasing(<<>>)
    BY DEF KeysOf, Increasing
  <2>4. KeysOf(orphan.keys) \subseteq Keys
    BY <1>1, JournalIsOnTheWire
  <2>5. TypedTypeOK'
    BY <1>1, <1>2, <1>3, <1>4, <1>6, <2>1, <2>2, <2>4 DEF TypedTypeOK
  <2>6. NothingBetween' /\ RestIsUnderWay' /\ JournalIsNewest' /\ MarkIsTrue'
    BY <1>1, <1>2, <1>3, <2>1 DEF NothingBetween, RestIsUnderWay, JournalIsNewest, MarkIsTrue
  <2>7. InOrder' /\ CutIsGone'
    BY <1>1, <1>2, <2>1, <2>2, <2>3 DEF InOrder, CutIsGone
  <2>8. GapsAreMarked' /\ NoKeyIsLost'
    BY <1>1, <1>2, <2>1, <2>2, <2>3 DEF GapsAreMarked, Gaps, NoKeyIsLost
  <2>9. QED
    BY <2>5, <2>6, <2>7, <2>8 DEF TypedInv
<1>7. CASE UNCHANGED <<pane, asking, orphan, journalVars, up, cut, back, replayed>>
  <2>1. UNCHANGED <<pane, asking, orphan, journal, truncated, wire, up, cut, back, replayed>>
    BY <1>7 DEF journalVars
  <2>2. TypedTypeOK'
    BY <1>1, <1>2, <1>3, <2>1 DEF TypedTypeOK
  <2>3. NothingBetween' /\ RestIsUnderWay' /\ JournalIsNewest' /\ MarkIsTrue'
    BY <1>1, <1>2, <1>3, <2>1 DEF NothingBetween, RestIsUnderWay, JournalIsNewest, MarkIsTrue
  <2>4. InOrder' /\ CutIsGone' /\ GapsAreMarked' /\ NoKeyIsLost'
    BY <1>1, <1>2, <2>1 DEF InOrder, CutIsGone, GapsAreMarked, Gaps, NoKeyIsLost
  <2>5. QED
    BY <2>2, <2>3, <2>4 DEF TypedInv
<1>8. QED
  BY <1>2, <1>5, <1>6, <1>7

\* What a dead socket leaves behind is what was held and its journal.
LEMMA RescueFacts ==
    ASSUME TypedInv
    PROVE  /\ Rescue \in Orphan /\ KeysOf(Rescue.keys) = KeysOf(orphan.keys) \cup KeysOf(journal)
           /\ Increasing(Rescue.keys)
           /\ ~Rescue.truncated => ~orphan.truncated /\ ~truncated
<1>1. /\ TypedTypeOK /\ InOrder /\ JournalIsNewest /\ MarkIsTrue
  BY DEF TypedInv
<1>2. /\ journal \in Seq(Keys) /\ orphan.keys \in Seq(Keys) /\ orphan \in Orphan /\ wire \in Seq(Keys)
      /\ pane \in Pane \cup {NoPane} /\ truncated \in BOOLEAN /\ orphan.truncated \in BOOLEAN
      /\ KeysOf(journal) \subseteq KeysOf(wire) /\ Keys \subseteq Nat
  BY <1>1, JournalIsOnTheWire DEF TypedTypeOK, Orphan
<1>3. CASE journal = <<>>
  <2>1. Rescue = orphan /\ KeysOf(journal) = {}
    BY <1>3 DEF Rescue, KeysOf
  <2>2. QED
    BY <1>1, <1>2, <1>3, <2>1 DEF InOrder, MarkIsTrue
<1>4. CASE journal # <<>>
  <2> DEFINE both == orphan.keys \o journal
  <2>1. Rescue = [keys |-> both, pane |-> pane, truncated |-> orphan.truncated \/ truncated]
    BY <1>4 DEF Rescue
  <2>2. both \in Seq(Keys) /\ KeysOf(both) = KeysOf(orphan.keys) \cup KeysOf(journal)
    BY <1>2, KeysOfConcat
  <2>3. Rescue.keys = both /\ Rescue.truncated = (orphan.truncated \/ truncated) /\ Rescue \in Orphan
    BY <1>2, <2>1, <2>2 DEF Orphan
  <2>4. /\ Len(orphan.keys) \in Nat /\ Len(journal) \in Nat /\ Len(both) = Len(orphan.keys) + Len(journal)
        /\ \A i \in 1 .. Len(orphan.keys) : both[i] = orphan.keys[i]
        /\ \A i \in 1 .. Len(journal) : both[Len(orphan.keys) + i] = journal[i]
    BY <1>2
  <2> HIDE DEF both
  <2>5. \A i, j \in 1 .. Len(journal) : i < j => journal[i] < journal[j]
    <3> SUFFICES ASSUME NEW i \in 1 .. Len(journal), NEW j \in 1 .. Len(journal), i < j
                 PROVE  journal[i] < journal[j]
      OBVIOUS
    <3>1. /\ Len(wire) - Len(journal) + i \in 1 .. Len(wire) /\ Len(wire) - Len(journal) + j \in 1 .. Len(wire)
          /\ Len(wire) - Len(journal) + i < Len(wire) - Len(journal) + j
      BY <1>1, <1>2 DEF JournalIsNewest
    <3>2. wire[Len(wire) - Len(journal) + i] < wire[Len(wire) - Len(journal) + j]
      BY <1>1, <3>1 DEF InOrder, Increasing
    <3>3. QED
      BY <1>1, <3>2 DEF JournalIsNewest
  <2>6. Increasing(both)
    <3> SUFFICES ASSUME NEW i \in 1 .. Len(both), NEW j \in 1 .. Len(both), i < j
                 PROVE  both[i] < both[j]
      BY DEF Increasing
    <3>1. CASE j <= Len(orphan.keys)
      <4>1. i \in 1 .. Len(orphan.keys) /\ j \in 1 .. Len(orphan.keys)
        BY <2>4, <3>1
      <4>2. QED
        BY <1>1, <2>4, <4>1 DEF InOrder, Increasing
    <3>2. CASE i > Len(orphan.keys)
      <4>1. /\ i - Len(orphan.keys) \in 1 .. Len(journal) /\ j - Len(orphan.keys) \in 1 .. Len(journal)
            /\ i - Len(orphan.keys) < j - Len(orphan.keys)
            /\ Len(orphan.keys) + (i - Len(orphan.keys)) = i /\ Len(orphan.keys) + (j - Len(orphan.keys)) = j
        BY <2>4, <3>2
      <4>2. journal[i - Len(orphan.keys)] < journal[j - Len(orphan.keys)]
        BY <2>5, <4>1
      <4>3. both[i] = journal[i - Len(orphan.keys)] /\ both[j] = journal[j - Len(orphan.keys)]
        BY <2>4, <4>1
      <4>4. QED
        BY <4>2, <4>3
    <3>3. CASE i <= Len(orphan.keys) /\ j > Len(orphan.keys)
      <4>1. /\ i \in 1 .. Len(orphan.keys) /\ j - Len(orphan.keys) \in 1 .. Len(journal)
            /\ Len(orphan.keys) + (j - Len(orphan.keys)) = j
        BY <2>4, <3>3
      <4>2. both[i] \in KeysOf(orphan.keys) /\ both[j] \in KeysOf(journal)
        <5>1. both[i] = orphan.keys[i] /\ both[j] = journal[j - Len(orphan.keys)]
          BY <2>4, <4>1
        <5>2. QED
          BY <4>1, <5>1 DEF KeysOf
      <4>3. QED
        BY <1>1, <1>2, <4>2 DEF InOrder
    <3>4. QED
      BY <2>4, <3>1, <3>2, <3>3
  <2>7. QED
    BY <1>2, <2>2, <2>3, <2>6
<1>5. QED
  BY <1>3, <1>4

\* What is under way was typed.
LEMMA UnderWayFacts ==
    ASSUME TypedInv, NEW n \in 0 .. Len(up)
    PROVE  KeysUnderWay(n) \subseteq Keys
<1>1. up \in Seq(Frame) /\ \A i \in 1 .. n : i \in 1 .. Len(up)
  BY DEF TypedInv, TypedTypeOK
<1>2. \A i \in 1 .. Len(up) : up[i].type = "key" => up[i].key \in Keys
  BY <1>1 DEF Frame
<1>3. QED
  BY <1>1, <1>2 DEF KeysUnderWay

\* The death of a socket: what may not have arrived is held, whole or marked, or is
\* given back.
LEMMA DeathKeepsKeys ==
    ASSUME TypedInv, SocketDies
    PROVE  TypedInv'
<1>1. /\ TypedTypeOK /\ InOrder /\ JournalIsNewest /\ RestIsUnderWay /\ MarkIsTrue /\ CutIsGone
      /\ GapsAreMarked /\ NoKeyIsLost
  BY DEF TypedInv
<1>2. /\ phase' \in {"reconnecting", "ended"} /\ asking' = FALSE
      /\ journal' = <<>> /\ truncated' = FALSE /\ wire' = <<>> /\ replayed' = {} /\ up' = <<>> /\ down' = <<>>
      /\ UNCHANGED <<pane, typed, cur, written, sockets, alive, typedAt, cut, dropped>>
      /\ \/ orphan' = Rescue /\ back' = back
         \/ orphan' = NoOrphan /\ back' = back \cup KeysOf(Rescue.keys)
  BY DEF SocketDies
<1>3. /\ Rescue \in Orphan /\ KeysOf(Rescue.keys) = KeysOf(orphan.keys) \cup KeysOf(journal)
      /\ Increasing(Rescue.keys)
      /\ ~Rescue.truncated => ~orphan.truncated /\ ~truncated
  BY RescueFacts
<1>4. /\ KeysOf(journal) \subseteq KeysOf(wire) /\ KeysOf(wire) \subseteq Keys /\ Keys \subseteq Nat
      /\ KeysOf(orphan.keys) \subseteq Keys /\ cut \subseteq Keys
      /\ journal \in Seq(Keys) /\ wire \in Seq(Keys) /\ Len(journal) \in Nat /\ Len(wire) \in Nat
      /\ phase = "ready" /\ truncated \in BOOLEAN
  BY <1>1, JournalIsOnTheWire DEF TypedTypeOK, SocketDies
<1>5. reached \subseteq reached' /\ reached' \subseteq Keys
  BY <1>1, UnderWayFacts DEF SocketDies, TypedTypeOK
<1>6. NoOrphan \in Orphan /\ NoOrphan.keys = <<>> /\ NoOrphan.truncated = FALSE /\ KeysOf(<<>>) = {} /\ Increasing(<<>>)
  BY DEF NoOrphan, Orphan, KeysOf, Increasing
<1>7. /\ orphan' \in Orphan /\ Increasing(orphan'.keys) /\ KeysOf(orphan'.keys) \subseteq KeysOf(Rescue.keys)
      /\ orphan' = Rescue \/ orphan'.keys = <<>>
  BY <1>2, <1>3, <1>6
<1>8. TypedTypeOK'
  <2>1. /\ journal' \in Seq(Keys) /\ wire' \in Seq(Keys) /\ Len(journal') <= JournalCap
        /\ up' \in Seq(Frame) /\ down' \in Seq(Message)
    <3>1. Len(<<>>) = 0 /\ JournalCap \in Nat
      BY CapAssumption
    <3>2. QED
      BY <1>2, <3>1
  <2>2. back' \subseteq Keys
    BY <1>1, <1>2, <1>3, <1>4 DEF TypedTypeOK
  <2>3. QED
    BY <1>1, <1>2, <1>5, <1>7, <2>1, <2>2 DEF TypedTypeOK
<1>9. NothingBetween' /\ JournalIsNewest' /\ RestIsUnderWay' /\ MarkIsTrue'
  BY <1>2 DEF NothingBetween, JournalIsNewest, RestIsUnderWay, MarkIsTrue
<1>10. InOrder'
  BY <1>1, <1>2, <1>3, <1>4, <1>6, <1>7 DEF InOrder
<1>11. CutIsGone'
  BY <1>1, <1>2, <1>3, <1>6, <1>7 DEF CutIsGone
<1>12. GapsAreMarked'
  <2>1. ASSUME NEW k \in KeysOf(journal), NEW c \in cut \ reached', k = c + 1, ~truncated PROVE FALSE
    <3>1. k \in KeysOf(wire) \cap Gaps /\ k - 1 = c
      BY <1>4, <1>5, <2>1 DEF Gaps
    <3>2. c \in KeysOf(wire)
      BY <1>1, <3>1 DEF GapsAreMarked
    <3>3. PICK i \in 1 .. Len(wire) : c = wire[i]
      BY <3>2 DEF KeysOf
    <3>4. CASE i <= Len(wire) - Len(journal)
      <4>1. i \in 1 .. Len(wire) - Len(journal)
        BY <1>4, <3>4
      <4>2. c \in reached
        BY <1>1, <2>1, <3>3, <4>1 DEF MarkIsTrue
      <4>3. QED
        BY <1>5, <2>1, <4>2
    <3>5. CASE i > Len(wire) - Len(journal)
      <4>1. i - (Len(wire) - Len(journal)) \in 1 .. Len(journal)
        BY <1>1, <1>4, <3>5 DEF JournalIsNewest
      <4>2. Len(wire) - Len(journal) + (i - (Len(wire) - Len(journal))) = i
        BY <1>4
      <4>3. c = journal[i - (Len(wire) - Len(journal))]
        BY <1>1, <3>3, <4>1, <4>2 DEF JournalIsNewest
      <4>4. c \in KeysOf(journal)
        BY <4>1, <4>3 DEF KeysOf
      <4>5. QED
        BY <1>1, <2>1, <4>4 DEF CutIsGone
    <3>6. QED
      BY <1>4, <3>4, <3>5
  <2>2. ASSUME NEW k \in KeysOf(orphan.keys), NEW c \in cut \ reached', k = c + 1, ~orphan.truncated PROVE FALSE
    BY <1>1, <1>5, <2>2 DEF GapsAreMarked, Gaps
  <2>3. ASSUME ~orphan'.truncated, NEW k \in KeysOf(orphan'.keys) \cap Gaps' PROVE FALSE
    <3>1. orphan' = Rescue
      BY <1>6, <1>7, <2>3
    <3>2. PICK c \in cut \ reached' : k = c + 1
      BY <1>2, <2>3 DEF Gaps
    <3>3. k \in KeysOf(orphan.keys) \/ k \in KeysOf(journal)
      BY <1>3, <2>3, <3>1
    <3>4. ~orphan.truncated /\ ~truncated
      BY <1>3, <2>3, <3>1
    <3>5. QED
      BY <2>1, <2>2, <3>2, <3>3, <3>4
  <2>4. QED
    BY <1>2, <1>6, <2>3 DEF GapsAreMarked
<1>13. NoKeyIsLost'
  BY <1>1, <1>2, <1>3, <1>5, <1>6 DEF NoKeyIsLost
<1>14. QED
  BY <1>8, <1>9, <1>10, <1>11, <1>12, <1>13 DEF TypedInv

\* A session that is stopped leaves nothing that another could be wrong about.
LEMMA StopKeepsKeys ==
    ASSUME TypedInv, Stop
    PROVE  TypedInv'
<1>1. /\ TypedTypeOK /\ InOrder /\ CutIsGone /\ GapsAreMarked /\ NoKeyIsLost
  BY DEF TypedInv
<1>2. /\ phase' = "connecting" /\ pane' = NoPane /\ alive' = Pane /\ asking' = FALSE /\ typed' = FALSE
      /\ orphan' = NoOrphan /\ dropped' = dropped \cup KeysOf(orphan.keys) \cup KeysOf(journal)
      /\ journal' = <<>> /\ truncated' = FALSE /\ wire' = <<>> /\ replayed' = {} /\ up' = <<>> /\ down' = <<>>
      /\ UNCHANGED <<cur, written, sockets, typedAt, cut, back>>
  BY DEF Stop
<1>3. KeysOf(journal) \subseteq Keys /\ KeysOf(orphan.keys) \subseteq Keys
  BY <1>1, JournalIsOnTheWire DEF TypedInv
<1>4. reached \subseteq reached' /\ reached' \subseteq Keys
  BY <1>1, UnderWayFacts DEF Stop, TypedTypeOK
<1>5. NoOrphan \in Orphan /\ NoOrphan.keys = <<>> /\ NoOrphan.truncated = FALSE /\ KeysOf(<<>>) = {} /\ Increasing(<<>>)
  BY DEF NoOrphan, Orphan, KeysOf, Increasing
<1>6. TypedTypeOK'
  <2>1. /\ journal' \in Seq(Keys) /\ wire' \in Seq(Keys) /\ Len(journal') <= JournalCap
        /\ up' \in Seq(Frame) /\ down' \in Seq(Message)
    <3>1. Len(<<>>) = 0 /\ JournalCap \in Nat
      BY CapAssumption
    <3>2. QED
      BY <1>2, <3>1
  <2>2. dropped' \subseteq Keys
    BY <1>1, <1>2, <1>3 DEF TypedTypeOK
  <2>3. QED
    BY <1>1, <1>2, <1>4, <1>5, <2>1, <2>2 DEF TypedTypeOK
<1>7. NothingBetween' /\ JournalIsNewest' /\ RestIsUnderWay' /\ MarkIsTrue'
  BY <1>2 DEF NothingBetween, JournalIsNewest, RestIsUnderWay, MarkIsTrue
<1>8. InOrder' /\ CutIsGone' /\ GapsAreMarked'
  BY <1>1, <1>2, <1>5 DEF InOrder, CutIsGone, GapsAreMarked
<1>9. NoKeyIsLost'
  BY <1>1, <1>2, <1>4, <1>5 DEF NoKeyIsLost
<1>10. QED
  BY <1>6, <1>7, <1>8, <1>9 DEF TypedInv

\* The key at the head of what is under way is the next one the pty gets.
LEMMA HeadIsNext ==
    ASSUME TypedTypeOK, InOrder, RestIsUnderWay, phase = "ready", up # <<>>, Head(up).type = "key"
    PROVE  written + 1 \in 1 .. Len(wire) /\ Head(up).key = wire[written + 1]
<1>1. /\ up \in Seq(Frame) /\ Len(up) \in Nat /\ Len(up) >= 1 /\ Head(up) = up[1] /\ 1 \in 1 .. Len(up)
      /\ wire \in Seq(Keys) /\ Len(wire) \in Nat /\ written \in Nat /\ Keys \subseteq Nat
  BY BoundAssumption DEF TypedTypeOK, Keys
<1>2. PICK n \in written + 1 .. Len(wire) : up[1].key = wire[n]
  BY <1>1 DEF RestIsUnderWay
<1>3. /\ written + 1 \in written + 1 .. Len(wire) /\ written + 1 \in 1 .. Len(wire) /\ n \in 1 .. Len(wire)
      /\ n = written + 1 \/ written + 1 < n
  BY <1>1
<1>4. ASSUME written + 1 < n PROVE FALSE
  <2>1. PICK j \in 1 .. Len(up) : up[j].type = "key" /\ up[j].key = wire[written + 1]
    BY <1>3 DEF RestIsUnderWay
  <2>2. wire[written + 1] < wire[n] /\ wire[written + 1] \in Nat /\ wire[n] \in Nat
    <3>1. wire[written + 1] < wire[n]
      BY <1>3, <1>4 DEF InOrder, Increasing
    <3>2. wire[written + 1] \in Keys /\ wire[n] \in Keys
      BY <1>1, <1>3
    <3>3. QED
      BY <1>1, <3>1, <3>2
  <2>3. j # 1
    BY <1>2, <2>1, <2>2
  <2>4. 1 < j
    BY <1>1, <2>3
  <2>5. up[1].key < up[j].key
    BY <1>1, <2>1, <2>4 DEF RestIsUnderWay
  <2>6. QED
    BY <1>2, <2>1, <2>2, <2>5
<1>5. QED
  BY <1>1, <1>2, <1>3, <1>4

\* Reading a frame takes it off the wire.
LEMMA FrameRead ==
    ASSUME TypedTypeOK, up # <<>>, up' = Tail(up)
    PROVE  /\ Head(up) \in Frame /\ Head(up) = up[1] /\ up' \in Seq(Frame) /\ Len(up) \in Nat /\ Len(up) >= 1
           /\ Len(up') = Len(up) - 1
           /\ \A i \in 1 .. Len(up') : i + 1 \in 1 .. Len(up) /\ up'[i] = up[i + 1]
           /\ \A i \in 1 .. Len(up) : i # 1 => i - 1 \in 1 .. Len(up') /\ up[i] = up'[i - 1]
<1>1. up \in Seq(Frame) /\ Len(up) \in Nat /\ Len(up) >= 1 /\ Head(up) = up[1] /\ up[1] \in Frame
  BY DEF TypedTypeOK
<1>2. up' \in Seq(Frame) /\ Len(up') = Len(up) - 1 /\ \A i \in 1 .. Len(up') : up'[i] = up[i + 1]
  BY <1>1
<1>3. \A i \in 1 .. Len(up') : i + 1 \in 1 .. Len(up)
  BY <1>1, <1>2
<1>4. \A i \in 1 .. Len(up) : i # 1 => i - 1 \in 1 .. Len(up') /\ (i - 1) + 1 = i
  BY <1>1, <1>2
<1>5. QED
  BY <1>1, <1>2, <1>3, <1>4

\* What is offered to the browser is a message, and acknowledges no more than is there.
LEMMA OfferFacts ==
    ASSUME TypedTypeOK, RestIsUnderWay, phase = "ready", NEW m \in Message, Offer(m), NEW n \in Nat, written <= n,
           m.type = "ack" => m.bytes <= n
    PROVE  /\ down' \in Seq(Message)
           /\ \A i \in 1 .. Len(down') : down'[i].type = "ack" => down'[i].bytes <= n
<1>1. down \in Seq(Message) /\ Len(down) \in Nat /\ written \in Nat
  BY DEF TypedTypeOK
<1>2. \A i \in 1 .. Len(down) : down[i].type = "ack" => down[i].bytes <= n
  <2> SUFFICES ASSUME NEW i \in 1 .. Len(down), down[i].type = "ack" PROVE down[i].bytes <= n
    OBVIOUS
  <2>1. down[i] \in Message /\ down[i].bytes <= written
    BY <1>1 DEF RestIsUnderWay
  <2>2. down[i].bytes \in Nat
    BY <2>1 DEF Message
  <2>3. QED
    BY <1>1, <2>1, <2>2
<1>3. CASE down' = Append(down, m)
  <2>1. down' \in Seq(Message) /\ Len(down') = Len(down) + 1 /\ down'[Len(down) + 1] = m
        /\ \A i \in 1 .. Len(down) : down'[i] = down[i]
    BY <1>1, <1>3
  <2>2. \A i \in 1 .. Len(down') : i \in 1 .. Len(down) \/ i = Len(down) + 1
    BY <1>1, <2>1
  <2>3. QED
    BY <1>2, <2>1, <2>2
<1>4. CASE down' = down
  BY <1>1, <1>2, <1>4
<1>5. QED
  BY <1>3, <1>4 DEF Offer

\* The daemon hands the next key to the pty, and says so.
LEMMA KeyArrives ==
    ASSUME TypedInv, ReadFrame, Head(up).type = "key"
    PROVE  TypedInv'
<1>1. /\ TypedTypeOK /\ InOrder /\ JournalIsNewest /\ RestIsUnderWay /\ MarkIsTrue /\ CutIsGone
      /\ GapsAreMarked /\ NoKeyIsLost
  BY DEF TypedInv
<1> DEFINE k == Head(up).key
           ack == [type |-> "ack", bytes |-> written + 1]
<1>2. /\ phase = "ready" /\ up # <<>> /\ up' = Tail(up) /\ reached' = reached \cup {k} /\ written' = written + 1
      /\ Offer(ack)
      /\ UNCHANGED <<phase, pane, asking, typed, orphan, journal, truncated, wire, cur, sockets, alive, typedAt, cut, back,
                     dropped, replayed>>
  BY DEF ReadFrame, tabVars, journalVars
<1>3. written + 1 \in 1 .. Len(wire) /\ k = wire[written + 1]
  BY <1>1, <1>2, HeadIsNext
<1>4. /\ Head(up) \in Frame /\ Head(up) = up[1] /\ up' \in Seq(Frame) /\ Len(up) \in Nat /\ Len(up) >= 1
      /\ Len(up') = Len(up) - 1
      /\ \A i \in 1 .. Len(up') : i + 1 \in 1 .. Len(up) /\ up'[i] = up[i + 1]
      /\ \A i \in 1 .. Len(up) : i # 1 => i - 1 \in 1 .. Len(up') /\ up[i] = up'[i - 1]
  BY <1>1, <1>2, FrameRead
<1>5. /\ written \in Nat /\ wire \in Seq(Keys) /\ Len(wire) \in Nat /\ Keys \subseteq Nat /\ k \in Keys
      /\ reached' \subseteq Keys /\ ack \in Message
  <2>1. written \in Nat /\ wire \in Seq(Keys) /\ Len(wire) \in Nat /\ Keys \subseteq Nat /\ reached \subseteq Keys
    BY <1>1, BoundAssumption DEF TypedTypeOK, Keys
  <2>2. ack \in Message
    BY <2>1 DEF Message
  <2>3. k \in Keys
    BY <1>3, <2>1
  <2>4. QED
    BY <1>2, <2>1, <2>2, <2>3
<1>6. /\ down' \in Seq(Message)
      /\ \A i \in 1 .. Len(down') : down'[i].type = "ack" => down'[i].bytes <= written + 1
  <2>1. written + 1 \in Nat /\ written <= written + 1 /\ ack.bytes <= written + 1
    BY <1>5
  <2>2. QED
    BY <1>1, <1>2, <1>5, <2>1, OfferFacts
<1> HIDE DEF k, ack
<1>7. RestIsUnderWay'
  <2>1. written' <= Len(wire) /\ \A i \in 1 .. written' : wire[i] \in reached'
    <3>1. \A i \in 1 .. written + 1 : i \in 1 .. written \/ i = written + 1
      BY <1>5
    <3>2. QED
      BY <1>1, <1>2, <1>3, <1>5, <3>1 DEF RestIsUnderWay
  <2>2. \A i, j \in 1 .. Len(up) : i < j /\ up[i].type = "key" /\ up[j].type = "key" => up[i].key < up[j].key
    BY <1>1, <1>2 DEF RestIsUnderWay
  <2>3. ASSUME NEW i \in 1 .. Len(up'), up'[i].type = "key"
        PROVE  up'[i].key \in {wire[n] : n \in written' + 1 .. Len(wire)}
    <3>1. i + 1 \in 1 .. Len(up) /\ up'[i] = up[i + 1] /\ 1 \in 1 .. Len(up) /\ 1 < i + 1
      BY <1>4
    <3>2. PICK n \in written + 1 .. Len(wire) : up'[i].key = wire[n]
      <4>1. up[i + 1].key \in {wire[n] : n \in written + 1 .. Len(wire)}
        BY <1>1, <1>2, <2>3, <3>1 DEF RestIsUnderWay
      <4>2. QED
        BY <3>1, <4>1
    <3>3. k < wire[n]
      BY <1>4, <2>2, <2>3, <3>1, <3>2 DEF k
    <3>4. n # written + 1
      BY <1>3, <1>5, <3>3
    <3>5. n \in written' + 1 .. Len(wire)
      BY <1>2, <1>5, <3>4
    <3>6. QED
      BY <3>2, <3>5
  <2>4. ASSUME NEW n \in written' + 1 .. Len(wire)
        PROVE  \E i \in 1 .. Len(up') : up'[i].type = "key" /\ up'[i].key = wire[n]
    <3>1. n \in written + 1 .. Len(wire) /\ n \in 1 .. Len(wire) /\ written + 1 < n
      BY <1>2, <1>5
    <3>2. PICK j \in 1 .. Len(up) : up[j].type = "key" /\ up[j].key = wire[n]
      BY <1>1, <1>2, <3>1 DEF RestIsUnderWay
    <3>3. wire[written + 1] < wire[n] /\ wire[written + 1] \in Nat
      BY <1>1, <1>3, <1>5, <3>1 DEF InOrder, Increasing
    <3>4. j # 1
      BY <1>3, <1>4, <3>2, <3>3 DEF k
    <3>5. QED
      BY <1>4, <3>2, <3>4
  <2>5. \A i, j \in 1 .. Len(up') : i < j /\ up'[i].type = "key" /\ up'[j].type = "key" => up'[i].key < up'[j].key
    <3> SUFFICES ASSUME NEW i \in 1 .. Len(up'), NEW j \in 1 .. Len(up'), i < j, up'[i].type = "key", up'[j].type = "key"
                 PROVE  up'[i].key < up'[j].key
      OBVIOUS
    <3>1. i + 1 < j + 1
      BY <1>4
    <3>2. QED
      BY <1>4, <2>2, <3>1
  <2>6. QED
    BY <1>2, <1>6, <2>1, <2>3, <2>4, <2>5 DEF RestIsUnderWay
<1>8. TypedTypeOK'
  BY <1>1, <1>2, <1>4, <1>5, <1>6 DEF TypedTypeOK
<1>9. NothingBetween' /\ InOrder' /\ JournalIsNewest' /\ CutIsGone'
  BY <1>1, <1>2 DEF NothingBetween, InOrder, JournalIsNewest, CutIsGone
<1>10. MarkIsTrue' /\ NoKeyIsLost'
  BY <1>1, <1>2 DEF MarkIsTrue, NoKeyIsLost
<1>11. GapsAreMarked'
  <2>1. Gaps' \subseteq Gaps
    BY <1>2 DEF Gaps
  <2>2. QED
    BY <1>1, <1>2, <2>1 DEF GapsAreMarked
<1>12. QED
  BY <1>7, <1>8, <1>9, <1>10, <1>11 DEF TypedInv

\* A select and a question move no key.
LEMMA QuestionArrives ==
    ASSUME TypedInv, ReadFrame, Head(up).type # "key"
    PROVE  TypedInv'
<1>1. /\ TypedTypeOK /\ InOrder /\ JournalIsNewest /\ RestIsUnderWay /\ MarkIsTrue /\ CutIsGone
      /\ GapsAreMarked /\ NoKeyIsLost
  BY DEF TypedInv
<1>2. /\ phase = "ready" /\ up # <<>> /\ up' = Tail(up)
      /\ UNCHANGED <<phase, pane, asking, typed, orphan, journal, truncated, wire, reached, written, sockets, alive,
                     typedAt, cut, back, dropped, replayed>>
  BY DEF ReadFrame, tabVars, journalVars
<1>3. /\ Head(up) \in Frame /\ Head(up) = up[1] /\ up' \in Seq(Frame) /\ Len(up) \in Nat /\ Len(up) >= 1
      /\ Len(up') = Len(up) - 1
      /\ \A i \in 1 .. Len(up') : i + 1 \in 1 .. Len(up) /\ up'[i] = up[i + 1]
      /\ \A i \in 1 .. Len(up) : i # 1 => i - 1 \in 1 .. Len(up') /\ up[i] = up'[i - 1]
  BY <1>1, <1>2, FrameRead
<1>4. cur' \in Pane
  BY <1>1 DEF ReadFrame, TypedTypeOK
<1>5. /\ down' \in Seq(Message)
      /\ \A i \in 1 .. Len(down') : down'[i].type = "ack" => down'[i].bytes <= written
  <2>1. CASE Offer([type |-> "pane", pane |-> cur])
    <3>1. [type |-> "pane", pane |-> cur] \in Message
      BY <1>1 DEF Message, TypedTypeOK
    <3>2. written \in Nat /\ written <= written
      BY <1>1 DEF TypedTypeOK
    <3>3. [type |-> "pane", pane |-> cur].type # "ack"
      OBVIOUS
    <3>4. QED
      BY <1>1, <1>2, <2>1, <3>1, <3>2, <3>3, OfferFacts
  <2>2. CASE down' = down
    BY <1>1, <1>2, <2>2 DEF TypedTypeOK, RestIsUnderWay
  <2>3. QED
    BY <2>1, <2>2 DEF ReadFrame
<1>6. RestIsUnderWay'
  <2>1. /\ written <= Len(wire) /\ \A i \in 1 .. written : wire[i] \in reached
        /\ \A i \in 1 .. Len(up) : up[i].type = "key" => up[i].key \in {wire[n] : n \in written + 1 .. Len(wire)}
        /\ \A n \in written + 1 .. Len(wire) : \E i \in 1 .. Len(up) : up[i].type = "key" /\ up[i].key = wire[n]
        /\ \A i, j \in 1 .. Len(up) : i < j /\ up[i].type = "key" /\ up[j].type = "key" => up[i].key < up[j].key
    BY <1>1, <1>2 DEF RestIsUnderWay
  <2>2. ASSUME NEW n \in written + 1 .. Len(wire)
        PROVE  \E i \in 1 .. Len(up') : up'[i].type = "key" /\ up'[i].key = wire[n]
    <3>1. PICK j \in 1 .. Len(up) : up[j].type = "key" /\ up[j].key = wire[n]
      BY <2>1
    <3>2. j # 1
      BY <1>3, <3>1
    <3>3. QED
      BY <1>3, <3>1, <3>2
  <2>3. \A i, j \in 1 .. Len(up') : i < j /\ up'[i].type = "key" /\ up'[j].type = "key" => up'[i].key < up'[j].key
    <3> SUFFICES ASSUME NEW i \in 1 .. Len(up'), NEW j \in 1 .. Len(up'), i < j, up'[i].type = "key", up'[j].type = "key"
                 PROVE  up'[i].key < up'[j].key
      OBVIOUS
    <3>1. i + 1 < j + 1
      BY <1>3
    <3>2. QED
      BY <1>3, <2>1, <3>1
  <2>4. ASSUME NEW i \in 1 .. Len(up'), up'[i].type = "key"
        PROVE  up'[i].key \in {wire[n] : n \in written + 1 .. Len(wire)}
    <3>1. i + 1 \in 1 .. Len(up) /\ up'[i] = up[i + 1]
      BY <1>3
    <3>2. up[i + 1].key \in {wire[n] : n \in written + 1 .. Len(wire)}
      BY <2>1, <2>4, <3>1
    <3>3. QED
      BY <3>1, <3>2
  <2>5. QED
    BY <1>2, <1>5, <2>1, <2>2, <2>3, <2>4 DEF RestIsUnderWay
<1>7. TypedTypeOK'
  BY <1>1, <1>2, <1>3, <1>4, <1>5 DEF TypedTypeOK
<1>8. NothingBetween' /\ InOrder' /\ JournalIsNewest' /\ CutIsGone' /\ MarkIsTrue'
  BY <1>1, <1>2 DEF NothingBetween, InOrder, JournalIsNewest, CutIsGone, MarkIsTrue
<1>9. GapsAreMarked' /\ NoKeyIsLost'
  BY <1>1, <1>2 DEF GapsAreMarked, Gaps, NoKeyIsLost
<1>10. QED
  BY <1>6, <1>7, <1>8, <1>9 DEF TypedInv

\* The first state: a tab that has not been opened, and nothing typed.
LEMMA TypedStart == TypedInit => TypedInv
<1> SUFFICES ASSUME TypedInit PROVE TypedInv
  OBVIOUS
<1>1. KeysOf(<<>>) = {} /\ Len(<<>>) = 0 /\ NoOrphan \in Orphan /\ NoOrphan.keys = <<>> /\ JournalCap \in Nat
  BY CapAssumption DEF KeysOf, NoOrphan, Orphan
<1>2. TypedTypeOK
  <2>1. Len(<<>>) <= MaxKeys /\ 0 \in 0 .. MaxSockets /\ Len(<<>>) <= JournalCap
    BY <1>1, BoundAssumption
  <2>2. /\ <<>> \in Seq(Keys) /\ <<>> \in Seq(Frame) /\ <<>> \in Seq(Message) /\ <<>> \in Seq(Pane \cup {NoPane})
    OBVIOUS
  <2>3. QED
    BY <1>1, <2>1, <2>2, PaneAssumption DEF TypedInit, TypedTypeOK
<1>3. NothingBetween /\ JournalIsNewest /\ RestIsUnderWay /\ MarkIsTrue /\ NoKeyIsLost
  BY DEF TypedInit, NothingBetween, JournalIsNewest, RestIsUnderWay, MarkIsTrue, NoKeyIsLost
<1>4. InOrder /\ CutIsGone /\ GapsAreMarked
  BY <1>1 DEF TypedInit, InOrder, Increasing, CutIsGone, GapsAreMarked, Gaps
<1>5. QED
  BY <1>2, <1>3, <1>4 DEF TypedInv

\* Whatever the tab does, the journal, what is held and what is under way fit together
\* (transport.ts and Terminal.tsx across any number of sockets).
THEOREM TypedInvariance == TypedSpec => []TypedInv
<1>1. TypedInv /\ [TypedNext]_typedVars => TypedInv'
  <2> SUFFICES ASSUME TypedInv, [TypedNext]_typedVars PROVE TypedInv'
    OBVIOUS
  <2>1. CASE Open
    BY <2>1, OpenKeepsKeys
  <2>2. CASE Type
    BY <2>2, TypeKeepsKeys
  <2>3. CASE Wake \/ \E p \in Pane : Click(p)
    BY <2>3, MovesKeepKeys
  <2>4. CASE Receive
    BY <2>4, AckKeepsKeys, AnswerKeepsKeys
  <2>5. CASE SocketDies
    BY <2>5, DeathKeepsKeys
  <2>6. CASE ReadFrame
    BY <2>6, KeyArrives, QuestionArrives
  <2>7. CASE MarkGone \/ PaneDies \/ UNCHANGED typedVars
    BY <2>7, EndsKeepKeys
  <2>8. CASE Stop
    BY <2>8, StopKeepsKeys
  <2>9. QED
    BY <2>1, <2>2, <2>3, <2>4, <2>5, <2>6, <2>7, <2>8 DEF TypedNext
<1>2. QED
  BY <1>1, TypedStart, PTL DEF TypedSpec

\* A key typed into a ready tab has reached a pty, is held or was given back, unless it
\* fell out of the journal at its cap or the tab was pointed elsewhere with it.
THEOREM KeysAreNotLost == TypedSpec => []NoKeyIsLost
<1>1. TypedInv => NoKeyIsLost
  BY DEF TypedInv
<1>2. QED
  BY <1>1, TypedInvariance, PTL

\* What a new socket repeats is in the order of typing and does not begin behind a hole.
THEOREM ReplaysAreWhole == TypedSpec => []ReplayIsWhole
<1>1. TypedInv => ReplayIsWhole
  <2> SUFFICES ASSUME TypedInv PROVE ReplayIsWhole
    OBVIOUS
  <2>1. TypedTypeOK /\ InOrder /\ GapsAreMarked /\ wire \in Seq(Keys) /\ Len(wire) \in Nat /\ Keys \subseteq Nat
    BY BoundAssumption DEF TypedInv, TypedTypeOK, Keys
  <2>2. ASSUME NEW i \in 1 .. Len(wire) - 1 PROVE wire[i] < wire[i + 1]
    <3>1. i \in 1 .. Len(wire) /\ i + 1 \in 1 .. Len(wire) /\ i < i + 1
      BY <2>1
    <3>2. QED
      BY <2>1, <3>1 DEF InOrder, Increasing
  <2>3. ASSUME NEW r \in replayed, r.key - 1 \in cut PROVE r.key - 1 \in reached \cup KeysOf(wire)
    <3>1. r.key \in KeysOf(wire) /\ r.key \in Nat
      BY <2>1 DEF GapsAreMarked, TypedTypeOK
    <3>2. r.key = (r.key - 1) + 1
      BY <3>1
    <3>3. CASE r.key - 1 \notin reached
      <4>1. r.key \in Gaps
        BY <2>3, <3>2, <3>3 DEF Gaps
      <4>2. QED
        BY <2>1, <3>1, <4>1 DEF GapsAreMarked
    <3>4. QED
      BY <3>3
  <2>4. QED
    BY <2>2, <2>3 DEF ReplayIsWhole
<1>2. QED
  BY <1>1, TypedInvariance, PTL


-----------------------------------------------------------------------------
(* The seen marks *)

\* markSeen keeps the type of a map, and adds to it the one mark it is given.
LEMMA MarkSeenFacts ==
    ASSUME NEW seen \in SeenMap, NEW start \in Server \cup {NoServer}, NEW p \in PaneId, NEW finished \in Stamp
    PROVE  /\ MarkSeen(seen, start, p, finished) \in SeenMap
           /\ \A k \in Server \X PaneId :
                  MarkSeen(seen, start, p, finished)[k] \in
                      {seen[k], 0} \cup (IF k[2] = p THEN {finished} ELSE {})
<1> USE StampAssumption DEF SeenMap, Stamp, Server, NoServer
<1>1. CASE start = NoServer \/ finished <= seen[<<start, p>>]
  BY <1>1 DEF MarkSeen
<1>2. CASE ~ (start = NoServer \/ finished <= seen[<<start, p>>])
  BY <1>2 DEF MarkSeen
<1>3. QED
  BY <1>1, <1>2

\* What a look at a view changes: the marks of the tab gain at most the one finish
\* that is on screen with the pane, which is then among what was looked at.
LEMMA LookFacts ==
    ASSUME SeenTypeOK, NEW t \in Tab, NEW view \in Shown,
           NEW p \in PaneId \cup {NoView}, Look(t, view, p)
    PROVE  /\ shown' \in [Tab -> Shown]
           /\ active' \in [Tab -> PaneId \cup {NoView}]
           /\ stored' \in [Tab -> SeenMap] /\ storage' \in {storage, stored'[t]}
           /\ looked' \in [PaneId -> SUBSET Stamp] /\ \A q \in PaneId : looked[q] \subseteq looked'[q]
           /\ shown' = [shown EXCEPT ![t] = view]
           /\ \A u \in Tab \ {t} : stored'[u] = stored[u]
           /\ \A s \in Server, q \in PaneId :
                  \/ stored'[t][<<s, q>>] \in {stored[t][<<s, q>>], 0}
                  \/ stored'[t][<<s, q>>] = view.rows[q] /\ view.rows[q] \in looked'[q]
<1> DEFINE row == p # NoView /\ view.rows[p] # NoRow
           seen == IF row THEN MarkSeen(stored[t], view.start, p, view.rows[p]) ELSE stored[t]
<1>1. /\ stored \in [Tab -> SeenMap] /\ shown \in [Tab -> Shown] /\ active \in [Tab -> PaneId \cup {NoView}]
      /\ looked \in [PaneId -> SUBSET Stamp] /\ stored[t] \in SeenMap
      /\ view.start \in Server \cup {NoServer}
      /\ row => p \in PaneId /\ view.rows[p] \in Stamp
  BY DEF SeenTypeOK, Shown, Rows
<1>2. /\ seen \in SeenMap
      /\ \A k \in Server \X PaneId : 
             \/ seen[k] \in {stored[t][k], 0}
             \/ row /\ k[2] = p /\ seen[k] = view.rows[p]
  BY <1>1, MarkSeenFacts
<1>3. stored' = [stored EXCEPT ![t] = seen] /\ storage' = (IF seen = stored[t] THEN storage ELSE seen)
  BY DEF Look
<1>4. looked' = IF row THEN [looked EXCEPT ![p] = @ \cup {view.rows[p]}] ELSE looked
  BY DEF Look
<1>5. looked' \in [PaneId -> SUBSET Stamp] /\ \A q \in PaneId : looked[q] \subseteq looked'[q]
  BY <1>1, <1>4
<1>6. row => view.rows[p] \in looked'[p]
  BY <1>1, <1>4
<1> HIDE DEF seen
<1>7. stored' \in [Tab -> SeenMap] /\ storage' \in {storage, stored'[t]} /\ stored'[t] = seen
  BY <1>1, <1>2, <1>3
<1>8. ASSUME NEW s \in Server, NEW q \in PaneId
      PROVE  \/ stored'[t][<<s, q>>] \in {stored[t][<<s, q>>], 0}
             \/ stored'[t][<<s, q>>] = view.rows[q] /\ view.rows[q] \in looked'[q]
  <2>1. <<s, q>> \in Server \X PaneId /\ <<s, q>>[2] = q
    OBVIOUS
  <2>2. QED
    BY <2>1, <1>2, <1>6, <1>7
<1>9. shown' = [shown EXCEPT ![t] = view] /\ active' = [active EXCEPT ![t] = p]
  BY DEF Look
<1>10. shown' \in [Tab -> Shown] /\ active' \in [Tab -> PaneId \cup {NoView}]
  BY <1>1, <1>9
<1>11. \A u \in Tab \ {t} : stored'[u] = stored[u]
  BY <1>1, <1>3
<1>12. QED
  BY <1>5, <1>7, <1>8, <1>9, <1>10, <1>11

\* Every step keeps every variable in its type.
LEMMA SeenTypeStep ==
    ASSUME SeenTypeOK, [SeenNext]_seenVars
    PROVE  SeenTypeOK'
<1>a. ASSUME NEW t \in Tab, NEW view \in Shown, NEW p \in PaneId \cup {NoView}, Look(t, view, p)
      PROVE  /\ shown' \in [Tab -> Shown] /\ active' \in [Tab -> PaneId \cup {NoView}]
             /\ stored' \in [Tab -> SeenMap] /\ storage' \in SeenMap
             /\ looked' \in [PaneId -> SUBSET Stamp]
  <2>1. storage \in SeenMap
    BY DEF SeenTypeOK
  <2>2. QED
    BY <1>a, <2>1, LookFacts
<1>b. ASSUME NEW t \in Tab, Poll(t)
      PROVE  /\ timer' \in [Tab -> {"none", "now", "visible", "hidden"}]
             /\ request' \in [Tab -> [at : At, rows : Rows, start : Server \cup {NoServer}]]
             /\ owed' \subseteq Tab /\ UNCHANGED <<armedHidden, wakePending>>
  <2>1. Request("sent") \in [at : At, rows : Rows, start : Server \cup {NoServer}]
    BY DEF Request, At, Rows, NoRows
  <2>2. QED
    BY <1>b, <2>1 DEF Poll, SeenTypeOK
<1>c. ASSUME NEW p \in PaneId, NEW finished \in Stamp
      PROVE  MarkSeen(other, serverStart, p, finished) \in SeenMap
  <2>1. other \in SeenMap /\ serverStart \in Server \cup {NoServer}
    BY DEF SeenTypeOK
  <2>2. QED
    BY <2>1, MarkSeenFacts
<1> USE PaneIdAssumption, StampAssumption DEF SeenTypeOK, Shown, Rows, NoRows, NoRow, NoServer, At, Request, Nothing,
        tmuxVars, publishedVars, pollerVars, viewVars
<1>1. CASE StartServer
  BY <1>1 DEF StartServer, Server
<1>2. CASE PollNoServer
  BY <1>2 DEF PollNoServer, Stamp
<1>3. CASE Restart
  BY <1>3 DEF Restart, Stamp
<1>4. ASSUME NEW haveStart \in BOOLEAN, NEW finish \in SUBSET PaneId, PollReads(haveStart, finish) PROVE SeenTypeOK'
  BY <1>4 DEF PollReads, Stamp
<1>5. ASSUME NEW t \in Tab, ReadLatest(t) PROVE SeenTypeOK'
  BY <1>5 DEF ReadLatest
<1>6. ASSUME NEW t \in Tab, ReadStart(t) PROVE SeenTypeOK'
  BY <1>6 DEF ReadStart
<1>7. ASSUME NEW t \in Tab, Succeed(t) PROVE SeenTypeOK'
  <2> DEFINE view == [rows |-> request[t].rows, start |-> request[t].start]
  <2>1. view \in Shown /\ active[t] \in PaneId \cup {NoView}
    OBVIOUS
  <2>2. Look(t, view, active[t])
    BY <1>7 DEF Succeed
  <2> HIDE DEF view
  <2>3. /\ shown' \in [Tab -> Shown] /\ active' \in [Tab -> PaneId \cup {NoView}]
        /\ stored' \in [Tab -> SeenMap] /\ storage' \in SeenMap
        /\ looked' \in [PaneId -> SUBSET Stamp]
    BY <2>1, <2>2, <1>a
  <2>4. QED
    BY <1>7, <2>3 DEF Succeed, Schedule
<1>8. ASSUME NEW t \in Tab, Fail(t) PROVE SeenTypeOK'
  BY <1>8 DEF Fail, Schedule
<1>9. ASSUME NEW t \in Tab, Unauthorized(t) PROVE SeenTypeOK'
  BY <1>9 DEF Unauthorized
<1>10. ASSUME NEW t \in Tab, Fire(t) \/ Refresh(t) PROVE SeenTypeOK'
  BY <1>10, <1>b DEF Fire, Refresh
<1>11. ASSUME NEW t \in Tab, Hide(t) PROVE SeenTypeOK'
  BY <1>11 DEF Hide
<1>12. ASSUME NEW t \in Tab, Show(t) PROVE SeenTypeOK'
  <2>1. CASE InFlight(t) /\ UNCHANGED <<timer, armedHidden, request>>
    BY <1>12, <2>1 DEF Show, Poll, InFlight
  <2>2. CASE request[t].at = "none" /\ Poll(t)
    BY <1>12, <1>b, <2>2 DEF Show
  <2>3. CASE UNCHANGED pollerVars
    BY <1>12, <2>3 DEF Show
  <2>4. QED
    BY <1>12, <2>1, <2>2, <2>3 DEF Show
<1>13. ASSUME NEW t \in Tab, Reload(t) PROVE SeenTypeOK'
  BY <1>13 DEF Reload
<1>14. ASSUME NEW t \in Tab, NEW p \in PaneId \cup {NoView}, View(t, p) PROVE SeenTypeOK'
  <2>1. shown[t] \in Shown /\ Look(t, shown[t], p)
    BY <1>14 DEF View
  <2>2. /\ shown' \in [Tab -> Shown] /\ active' \in [Tab -> PaneId \cup {NoView}]
        /\ stored' \in [Tab -> SeenMap] /\ storage' \in SeenMap
        /\ looked' \in [PaneId -> SUBSET Stamp]
    BY <2>1, <1>a
  <2>3. QED
    BY <1>14, <2>2 DEF View
<1>15. CASE OtherLoads
  BY <1>15 DEF OtherLoads
<1>16. ASSUME NEW p \in PaneId, OtherLooks(p) PROVE SeenTypeOK'
  <2>1. latest[p] \in Stamp
    BY <1>16 DEF OtherLooks
  <2>2. other' \in SeenMap /\ storage' \in SeenMap
    BY <1>16, <2>1, <1>c DEF OtherLooks
  <2>3. looked' \in [PaneId -> SUBSET Stamp]
    BY <1>16, <2>1 DEF OtherLooks
  <2>4. QED
    BY <1>16, <2>2, <2>3 DEF OtherLooks
<1>17. CASE UNCHANGED seenVars
  BY <1>17 DEF seenVars
<1>18. QED
  BY <1>1, <1>2, <1>3, <1>4, <1>5, <1>6, <1>7, <1>8, <1>9, <1>10, <1>11,
     <1>12, <1>13, <1>14, <1>15, <1>16, <1>17 DEF SeenNext

\* The wake of a hidden tab is remembered by the timer or over the request.
LEMMA WakeStep ==
    ASSUME SeenInv, [SeenNext]_seenVars
    PROVE  OneOrTheOther' /\ WakeIsRemembered'
<1> USE DEF SeenInv, OneOrTheOther, WakeIsRemembered, InFlight, Request, tmuxVars, publishedVars, pollerVars, viewVars
<1>1. /\ request \in [Tab -> [at : At, rows : Rows, start : Server \cup {NoServer}]]
      /\ timer \in [Tab -> {"none", "now", "visible", "hidden"}] /\ wakePending \in [Tab -> BOOLEAN] /\ owed \subseteq Tab
  BY DEF SeenTypeOK
<1>2. CASE StartServer \/ PollNoServer \/ OtherLoads
  BY <1>1, <1>2 DEF StartServer, PollNoServer, OtherLoads
<1>3. CASE Restart
  BY <1>1, <1>3 DEF Restart
<1>4. ASSUME NEW haveStart \in BOOLEAN, NEW finish \in SUBSET PaneId, PollReads(haveStart, finish)
      PROVE  OneOrTheOther' /\ WakeIsRemembered'
  BY <1>1, <1>4 DEF PollReads
<1>5. ASSUME NEW t \in Tab, ReadLatest(t) \/ ReadStart(t)
      PROVE  OneOrTheOther' /\ WakeIsRemembered'
  BY <1>1, <1>5 DEF ReadLatest, ReadStart
<1>6. ASSUME NEW t \in Tab, Succeed(t) \/ Fail(t)
      PROVE  OneOrTheOther' /\ WakeIsRemembered'
  <2>1. /\ InFlight(t) /\ Schedule(t) /\ UNCHANGED owed
        /\ request' = [request EXCEPT ![t] = Request("none")]
    BY <1>6 DEF Succeed, Fail
  <2>2. QED
    BY <1>1, <2>1 DEF Schedule
<1>7. ASSUME NEW t \in Tab, Unauthorized(t)
      PROVE  OneOrTheOther' /\ WakeIsRemembered'
  BY <1>1, <1>7 DEF Unauthorized
<1>8. ASSUME NEW t \in Tab, Poll(t), timer[t] # "none" \/ request[t].at # "stopped"
      PROVE  OneOrTheOther' /\ WakeIsRemembered'
  <2>1. CASE request[t].at = "none"
    BY <1>1, <1>8, <2>1 DEF Poll
  <2>2. CASE request[t].at # "none"
    BY <1>1, <1>8, <2>2 DEF Poll
  <2>3. QED
    BY <2>1, <2>2
<1>9. ASSUME NEW t \in Tab, Fire(t) \/ Refresh(t)
      PROVE  OneOrTheOther' /\ WakeIsRemembered'
  BY <1>8, <1>9 DEF Fire, Refresh
<1>10. ASSUME NEW t \in Tab, Hide(t)
      PROVE  OneOrTheOther' /\ WakeIsRemembered'
  BY <1>1, <1>10 DEF Hide
<1>11. ASSUME NEW t \in Tab, Show(t)
      PROVE  OneOrTheOther' /\ WakeIsRemembered'
  <2>1. CASE /\ InFlight(t) /\ wakePending' = [wakePending EXCEPT ![t] = TRUE]
             /\ owed' = owed \cup {t} /\ UNCHANGED <<timer, armedHidden, request>>
    BY <1>1, <2>1
  <2>2. CASE request[t].at = "none" /\ Poll(t)
    BY <1>8, <2>2
  <2>3. CASE UNCHANGED pollerVars
    BY <1>1, <2>3
  <2>4. QED
    BY <1>11, <2>1, <2>2, <2>3 DEF Show
<1>12. ASSUME NEW t \in Tab, Reload(t)
      PROVE  OneOrTheOther' /\ WakeIsRemembered'
  BY <1>1, <1>12 DEF Reload
<1>13. ASSUME NEW t \in Tab, NEW p \in PaneId \cup {NoView}, View(t, p)
      PROVE  OneOrTheOther' /\ WakeIsRemembered'
  BY <1>1, <1>13 DEF View
<1>14. ASSUME NEW p \in PaneId, OtherLooks(p)
      PROVE  OneOrTheOther' /\ WakeIsRemembered'
  BY <1>1, <1>14 DEF OtherLooks
<1>15. CASE UNCHANGED seenVars
  BY <1>1, <1>15 DEF seenVars
<1>16. QED
  BY <1>2, <1>3, <1>4, <1>5, <1>6, <1>7, <1>9, <1>10, <1>11, <1>12, <1>13, <1>14, <1>15 DEF SeenNext

\* What is in order and honest stays so while no mark and no row changes, but for the
\* rows of requests that are begun or over.
LEMMA RowsUndisturbed ==
    ASSUME SeenInv, SeenTypeOK',
           UNCHANGED <<finishedAt, latest, stamped, shown, stored, storage, other, looked>>,
           \A t \in Tab, p \in PaneId : request'[t].rows[p] \in {request[t].rows[p], NoRow}
    PROVE  MemoryIsNewest' /\ TabIsInOrder' /\ MarksWereShown'
<1>1. MemoryIsNewest'
  <2> SUFFICES ASSUME NEW p \in PaneId
               PROVE  /\ finishedAt[p] <= stamped /\ latest[p] \in {NoRow, finishedAt[p]}
                      /\ NoneLater(p, stamped)'
                      /\ finishedAt[p] > 0 => NoneLater(p, finishedAt[p])'
    BY DEF MemoryIsNewest
  <2>1. finishedAt[p] \in Stamp /\ stamped \in Stamp
    BY DEF SeenInv, SeenTypeOK
  <2>2. \A f \in Stamp : NoneLater(p, f) => NoneLater(p, f)'
    BY StampAssumption DEF NoneLater, NoRow, Stamp
  <2>3. QED
    BY <2>1, <2>2 DEF SeenInv, MemoryIsNewest
<1>2. TabIsInOrder'
  BY StampAssumption DEF SeenInv, TabIsInOrder, NoRow
<1>3. MarksWereShown'
  BY DEF SeenInv, MarksWereShown, Honest
<1>4. QED
  BY <1>1, <1>2, <1>3

\* The daemon's polls keep the order: what is stamped is later than all there is.
LEMMA PollOrder ==
    ASSUME SeenInv, SeenTypeOK', NEW haveStart \in BOOLEAN, NEW finish \in SUBSET PaneId, PollReads(haveStart, finish)
    PROVE  MemoryIsNewest' /\ TabIsInOrder' /\ MarksWereShown'
<1>1. /\ UNCHANGED <<request, shown, stored, storage, other, looked>>
      /\ stamped \in Stamp /\ stamped' \in {stamped, stamped + 1} /\ finishedAt \in [PaneId -> Stamp]
      /\ \A p \in PaneId : \/ finishedAt'[p] = stamped + 1 /\ stamped' = stamped + 1
                           \/ finishedAt'[p] \in {finishedAt[p], 0}
      /\ \A p \in PaneId : latest'[p] \in {NoRow, finishedAt'[p]}
  BY DEF SeenInv, SeenTypeOK, PollReads, pollerVars, viewVars
<1>2. MemoryIsNewest'
  <2> SUFFICES ASSUME NEW p \in PaneId
               PROVE  /\ finishedAt'[p] <= stamped' /\ latest'[p] \in {NoRow, finishedAt'[p]}
                      /\ NoneLater(p, stamped)'
                      /\ finishedAt'[p] > 0 => NoneLater(p, finishedAt[p])'
    BY DEF MemoryIsNewest
  <2>1. \A f \in Nat, g \in Nat : NoneLater(p, f) /\ f <= g => NoneLater(p, g)
    <3>1. /\ \A s \in Server : storage[<<s, p>>] \in Int /\ other[<<s, p>>] \in Int
          /\ \A t \in Tab : shown[t].rows[p] \in Int /\ request[t].rows[p] \in Int
          /\ \A t \in Tab, s \in Server : stored[t][<<s, p>>] \in Int
      BY StampAssumption DEF SeenInv, SeenTypeOK, SeenMap, Shown, Rows, Stamp, NoRow
    <3>2. QED
      BY <3>1 DEF NoneLater
  <2>2. \A f \in Nat : NoneLater(p, f) => NoneLater(p, f)'
    BY <1>1 DEF NoneLater
  <2>3. stamped \in Nat /\ finishedAt[p] \in Nat
    BY <1>1, StampAssumption DEF Stamp
  <2>4. finishedAt[p] <= stamped /\ NoneLater(p, stamped) /\ (finishedAt[p] > 0 => NoneLater(p, finishedAt[p]))
    BY DEF SeenInv, MemoryIsNewest
  <2>5. NoneLater(p, stamped + 1)' /\ NoneLater(p, stamped)'
    BY <1>1, <2>1, <2>2, <2>3, <2>4
  <2>6. QED
    BY <1>1, <2>2, <2>3, <2>4, <2>5
<1>3. TabIsInOrder'
  BY <1>1 DEF SeenInv, TabIsInOrder
<1>4. MarksWereShown'
  BY <1>1 DEF SeenInv, MarksWereShown, Honest
<1>5. QED
  BY <1>2, <1>3, <1>4

\* A look keeps the order, at a view that is not older than the tab's marks and not
\* newer than the rows that are on their way to it.
LEMMA LookOrder ==
    ASSUME SeenInv, SeenTypeOK', UNCHANGED <<finishedAt, latest, stamped, other>>,
           NEW t \in Tab, NEW view \in Shown, NEW p \in PaneId \cup {NoView}, Look(t, view, p),
           \A u \in Tab, q \in PaneId : request'[u].rows[q] \in {request[u].rows[q], NoRow},
           \A q \in PaneId : NoneLater(q, stamped) => view.rows[q] <= stamped,
           \A q \in PaneId : NoneLater(q, finishedAt[q]) => view.rows[q] <= finishedAt[q],
           \A q \in PaneId : view.rows[q] > 0 => \A s \in Server : stored[t][<<s, q>>] <= view.rows[q],
           \A q \in PaneId : request'[t].rows[q] > 0 => view.rows[q] <= request'[t].rows[q]
    PROVE  MemoryIsNewest' /\ TabIsInOrder' /\ MarksWereShown'
<1>1. /\ storage' \in {storage, stored'[t]} /\ \A q \in PaneId : looked[q] \subseteq looked'[q]
      /\ shown' = [shown EXCEPT ![t] = view] /\ \A u \in Tab \ {t} : stored'[u] = stored[u]
      /\ \A s \in Server, q \in PaneId :
             \/ stored'[t][<<s, q>>] \in {stored[t][<<s, q>>], 0}
             \/ stored'[t][<<s, q>>] = view.rows[q] /\ view.rows[q] \in looked'[q]
  BY LookFacts DEF SeenInv
<1>2. /\ shown \in [Tab -> Shown] /\ finishedAt \in [PaneId -> Nat] /\ stamped \in Nat
      /\ \A u \in Tab, q \in PaneId, s \in Server : stored[u][<<s, q>>] \in Nat
      /\ \A u \in Tab, q \in PaneId : request[u].rows[q] \in Int /\ shown[u].rows[q] \in Int
      /\ \A q \in PaneId : view.rows[q] \in Int
  BY StampAssumption DEF SeenInv, SeenTypeOK, SeenMap, Shown, Rows, Stamp, NoRow
<1>3. \A u \in Tab : shown'[u] = IF u = t THEN view ELSE shown[u]
  BY <1>1, <1>2
<1>4. MemoryIsNewest'
  <2> SUFFICES ASSUME NEW q \in PaneId
               PROVE  /\ finishedAt[q] <= stamped /\ latest[q] \in {NoRow, finishedAt[q]}
                      /\ NoneLater(q, stamped)'
                      /\ finishedAt[q] > 0 => NoneLater(q, finishedAt[q])'
    BY DEF MemoryIsNewest
  <2>1. ASSUME NEW f \in Nat, NoneLater(q, f), view.rows[q] <= f
        PROVE  NoneLater(q, f)'
    <3>1. \A u \in Tab : shown'[u].rows[q] <= f /\ request'[u].rows[q] <= f
      BY <1>2, <1>3, <2>1 DEF NoneLater, NoRow
    <3>2. \A u \in Tab, s \in Server : stored'[u][<<s, q>>] <= f
      BY <1>1, <1>2, <2>1 DEF NoneLater
    <3>3. \A s \in Server : storage'[<<s, q>>] <= f /\ other'[<<s, q>>] <= f
      BY <1>1, <2>1, <3>2 DEF NoneLater
    <3>4. QED
      BY <3>1, <3>2, <3>3 DEF NoneLater
  <2>2. finishedAt[q] <= stamped /\ latest[q] \in {NoRow, finishedAt[q]} /\ NoneLater(q, stamped)
        /\ (finishedAt[q] > 0 => NoneLater(q, finishedAt[q]))
    BY DEF SeenInv, MemoryIsNewest
  <2>3. QED
    BY <1>2, <2>1, <2>2
<1>5. TabIsInOrder'
  <2> SUFFICES ASSUME NEW u \in Tab, NEW q \in PaneId
               PROVE  /\ shown'[u].rows[q] > 0 =>
                             \A s \in Server : stored'[u][<<s, q>>] <= shown'[u].rows[q]
                      /\ request'[u].rows[q] > 0 =>
                             /\ shown'[u].rows[q] <= request'[u].rows[q]
                             /\ \A s \in Server : stored'[u][<<s, q>>] <= request'[u].rows[q]
    BY DEF TabIsInOrder
  <2>1. /\ shown[u].rows[q] > 0 => \A s \in Server : stored[u][<<s, q>>] <= shown[u].rows[q]
        /\ request[u].rows[q] > 0 => /\ shown[u].rows[q] <= request[u].rows[q]
                                     /\ \A s \in Server : stored[u][<<s, q>>] <= request[u].rows[q]
    BY DEF SeenInv, TabIsInOrder
  <2>2. request'[u].rows[q] > 0 => request'[u].rows[q] = request[u].rows[q]
    BY DEF NoRow
  <2>3. CASE u # t
    BY <1>1, <1>3, <2>1, <2>2, <2>3
  <2>4. CASE u = t
    <3>1. shown'[t] = view
      BY <1>3
    <3>2. view.rows[q] > 0 => \A s \in Server : stored'[t][<<s, q>>] <= view.rows[q]
      BY <1>1, <1>2
    <3>3. request'[t].rows[q] > 0 => \A s \in Server : stored'[t][<<s, q>>] <= request'[t].rows[q]
      BY <1>1, <1>2, <2>1, <2>2, <2>4
    <3>4. QED
      BY <2>4, <3>1, <3>2, <3>3
  <2>5. QED
    BY <2>3, <2>4
<1>6. MarksWereShown'
  <2>1. Honest(storage) /\ Honest(other) /\ \A u \in Tab : Honest(stored[u])
    BY DEF SeenInv, MarksWereShown
  <2>2. \A u \in Tab : Honest(stored[u])'
    <3>1. ASSUME NEW u \in Tab, u # t PROVE Honest(stored[u])'
      BY <1>1, <2>1, <3>1 DEF Honest
    <3>2. Honest(stored[t])'
      BY <1>1, <2>1 DEF Honest
    <3>3. QED
      BY <3>1, <3>2
  <2>3. Honest(storage)' /\ Honest(other)'
    BY <1>1, <2>1, <2>2 DEF Honest
  <2>4. QED
    BY <2>2, <2>3 DEF MarksWereShown
<1>7. QED
  BY <1>4, <1>5, <1>6

\* A tab that is loaded anew takes over marks that are in order, and shows nothing.
LEMMA ReloadOrder ==
    ASSUME SeenInv, SeenTypeOK', NEW t \in Tab, Reload(t)
    PROVE  MemoryIsNewest' /\ TabIsInOrder' /\ MarksWereShown'
<1>1. /\ UNCHANGED <<finishedAt, latest, stamped, storage, other, looked>>
      /\ \A u \in Tab : u # t => UNCHANGED <<stored[u], shown[u].rows, request[u].rows>>
      /\ stored'[t] = storage
      /\ \A q \in PaneId : shown'[t].rows[q] = NoRow /\ request'[t].rows[q] = NoRow
  BY DEF SeenInv, SeenTypeOK, Reload, Nothing, Request, NoRows, publishedVars
<1>2. MemoryIsNewest'
  <2> SUFFICES ASSUME NEW q \in PaneId
               PROVE  /\ finishedAt[q] <= stamped /\ latest[q] \in {NoRow, finishedAt[q]}
                      /\ NoneLater(q, stamped)'
                      /\ finishedAt[q] > 0 => NoneLater(q, finishedAt[q])'
    BY <1>1 DEF MemoryIsNewest
  <2>1. \A f \in Nat : NoneLater(q, f) => NoneLater(q, f)'
    BY <1>1 DEF NoneLater, NoRow
  <2>2. finishedAt[q] \in Nat /\ stamped \in Nat
    BY StampAssumption DEF SeenInv, SeenTypeOK, Stamp
  <2>3. QED
    BY <1>1, <2>1, <2>2 DEF SeenInv, MemoryIsNewest
<1>3. TabIsInOrder'
  BY <1>1 DEF SeenInv, TabIsInOrder, NoRow
<1>4. MarksWereShown'
  BY <1>1 DEF SeenInv, MarksWereShown, Honest
<1>5. QED
  BY <1>2, <1>3, <1>4

\* Another tab marks what has just been published, of which there is nothing newer.
LEMMA OtherOrder ==
    ASSUME SeenInv, SeenTypeOK', NEW p \in PaneId, OtherLooks(p)
    PROVE  MemoryIsNewest' /\ TabIsInOrder' /\ MarksWereShown'
<1>1. /\ UNCHANGED <<finishedAt, latest, stamped, request, shown, stored>>
      /\ storage' \in {storage, other'} /\ latest[p] \in Stamp /\ latest[p] = finishedAt[p]
      /\ \A q \in PaneId : looked[q] \subseteq looked'[q]
      /\ latest[p] \in looked'[p]
  BY DEF SeenInv, SeenTypeOK, MemoryIsNewest, OtherLooks, publishedVars, pollerVars, Rows
<1>2. \A s \in Server, q \in PaneId :
          \/ other'[<<s, q>>] \in {other[<<s, q>>], 0}
          \/ q = p /\ other'[<<s, q>>] = latest[p]
  <2>1. other \in SeenMap /\ serverStart \in Server \cup {NoServer}
    BY DEF SeenInv, SeenTypeOK
  <2>2. \A k \in Server \X PaneId :
            other'[k] \in {other[k], 0} \cup (IF k[2] = p THEN {latest[p]} ELSE {})
    BY <1>1, <2>1, MarkSeenFacts DEF OtherLooks
  <2>3. ASSUME NEW s \in Server, NEW q \in PaneId
        PROVE  \/ other'[<<s, q>>] \in {other[<<s, q>>], 0}
               \/ q = p /\ other'[<<s, q>>] = latest[p]
    <3>1. <<s, q>> \in Server \X PaneId /\ <<s, q>>[2] = q
      OBVIOUS
    <3>2. QED
      BY <3>1, <2>2
  <2>4. QED
    BY <2>3
<1>3. MemoryIsNewest'
  <2> SUFFICES ASSUME NEW q \in PaneId
               PROVE  /\ finishedAt[q] <= stamped /\ latest[q] \in {NoRow, finishedAt[q]}
                      /\ NoneLater(q, stamped)'
                      /\ finishedAt[q] > 0 => NoneLater(q, finishedAt[q])'
    BY <1>1 DEF MemoryIsNewest
  <2>1. \A f \in Nat : NoneLater(q, f) /\ (q = p => finishedAt[p] <= f) => NoneLater(q, f)'
    BY <1>1, <1>2 DEF NoneLater
  <2>2. finishedAt[q] \in Nat /\ stamped \in Nat
    BY StampAssumption DEF SeenInv, SeenTypeOK, Stamp
  <2>3. QED
    BY <1>1, <2>1, <2>2 DEF SeenInv, MemoryIsNewest
<1>4. TabIsInOrder'
  BY <1>1 DEF SeenInv, TabIsInOrder
<1>5. MarksWereShown'
  <2>1. Honest(other)'
    BY <1>1, <1>2 DEF SeenInv, MarksWereShown, Honest
  <2>2. QED
    BY <1>1, <2>1 DEF SeenInv, MarksWereShown, Honest
<1>6. QED
  BY <1>3, <1>4, <1>5

\* Every step keeps the rows, the marks and the memory in order.
LEMMA OrderStep ==
    ASSUME SeenInv, SeenTypeOK', [SeenNext]_seenVars
    PROVE  MemoryIsNewest' /\ TabIsInOrder' /\ MarksWereShown'
<1> DEFINE Kept == MemoryIsNewest' /\ TabIsInOrder' /\ MarksWereShown'
<1> USE DEF tmuxVars, publishedVars, pollerVars, viewVars
<1>1. /\ request \in [Tab -> [at : At, rows : Rows, start : Server \cup {NoServer}]]
      /\ Request("none").rows = NoRows /\ Request("sent").rows = NoRows /\ Request("lost").rows = NoRows
      /\ Request("stopped").rows = NoRows /\ \A p \in PaneId : NoRows[p] = NoRow
  BY DEF SeenInv, SeenTypeOK, Request, NoRows
<1>2. ASSUME UNCHANGED <<finishedAt, latest, stamped, shown, stored, storage, other, looked>>,
             \A t \in Tab : request'[t].rows \in {request[t].rows, NoRows}
      PROVE  Kept
  <2>1. \A t \in Tab, p \in PaneId : request'[t].rows[p] \in {request[t].rows[p], NoRow}
    BY <1>1, <1>2
  <2>2. QED
    BY <1>2, <2>1, RowsUndisturbed
<1>3. CASE StartServer \/ UNCHANGED seenVars
  BY <1>2, <1>3 DEF StartServer, seenVars
<1>4. CASE PollNoServer \/ Restart
  <2>1. /\ UNCHANGED <<stamped, shown, stored, storage, other, looked>>
        /\ \A t \in Tab, p \in PaneId : request'[t].rows[p] \in {request[t].rows[p], NoRow}
        /\ \A p \in PaneId : finishedAt'[p] = 0 /\ latest'[p] = NoRow
    BY <1>1, <1>4 DEF PollNoServer, Restart, NoRows
  <2>2. MemoryIsNewest'
    <3>1. stamped \in Nat
      BY StampAssumption DEF SeenInv, SeenTypeOK, Stamp
    <3>2. \A p \in PaneId : NoneLater(p, stamped) => NoneLater(p, stamped)'
      BY <2>1, <3>1 DEF NoneLater, NoRow
    <3>3. QED
      BY <2>1, <3>1, <3>2, StampAssumption DEF SeenInv, SeenTypeOK, Stamp, MemoryIsNewest
  <2>3. TabIsInOrder' /\ MarksWereShown'
    BY <2>1 DEF SeenInv, TabIsInOrder, MarksWereShown, Honest, NoRow
  <2>4. QED
    BY <2>2, <2>3
<1>5. ASSUME NEW haveStart \in BOOLEAN, NEW finish \in SUBSET PaneId, PollReads(haveStart, finish) PROVE Kept
  BY <1>5, PollOrder
<1>6. ASSUME NEW t \in Tab, ReadLatest(t) PROVE Kept
  <2>1. /\ UNCHANGED <<finishedAt, latest, stamped, shown, stored, storage, other, looked>>
        /\ \A u \in Tab : u # t => request'[u].rows = request[u].rows
        /\ request'[t].rows = latest
    BY <1>1, <1>6 DEF ReadLatest
  <2>2. \A p \in PaneId : latest[p] \in {NoRow, finishedAt[p]} /\ finishedAt[p] \in Nat /\ stamped \in Nat
    BY StampAssumption DEF SeenInv, SeenTypeOK, MemoryIsNewest, Stamp
  <2>3. \A p \in PaneId : latest[p] > 0 => NoneLater(p, latest[p])
    BY <2>2 DEF SeenInv, MemoryIsNewest, NoRow
  <2>4. MemoryIsNewest'
    <3>1. \A p \in PaneId, f \in Nat : NoneLater(p, f) /\ finishedAt[p] <= f => NoneLater(p, f)'
      BY <2>1, <2>2 DEF NoneLater, NoRow
    <3>2. QED
      BY <2>1, <2>2, <3>1 DEF SeenInv, MemoryIsNewest
  <2>5. TabIsInOrder'
    BY <2>1, <2>3 DEF SeenInv, TabIsInOrder, NoneLater
  <2>6. MarksWereShown'
    BY <2>1 DEF SeenInv, MarksWereShown, Honest
  <2>7. QED
    BY <2>4, <2>5, <2>6
<1>7. ASSUME NEW t \in Tab, ReadStart(t) PROVE Kept
  BY <1>1, <1>2, <1>7 DEF ReadStart
<1>8. ASSUME NEW t \in Tab, Succeed(t) PROVE Kept
  <2> DEFINE view == [rows |-> request[t].rows, start |-> request[t].start]
  <2>1. view \in Shown /\ active[t] \in PaneId \cup {NoView} /\ Look(t, view, active[t])
    BY <1>1, <1>8 DEF SeenInv, SeenTypeOK, Shown, Succeed
  <2>2. /\ UNCHANGED <<finishedAt, latest, stamped, other>>
        /\ \A u \in Tab, q \in PaneId : request'[u].rows[q] \in {request[u].rows[q], NoRow}
        /\ \A q \in PaneId : request'[t].rows[q] = NoRow
    BY <1>1, <1>8 DEF Succeed
  <2>3. /\ \A q \in PaneId : NoneLater(q, stamped) => view.rows[q] <= stamped
        /\ \A q \in PaneId : NoneLater(q, finishedAt[q]) => view.rows[q] <= finishedAt[q]
        /\ \A q \in PaneId : view.rows[q] > 0 => \A s \in Server : stored[t][<<s, q>>] <= view.rows[q]
        /\ \A q \in PaneId : request'[t].rows[q] > 0 => view.rows[q] <= request'[t].rows[q]
    BY <2>2 DEF NoneLater, SeenInv, TabIsInOrder, NoRow
  <2> HIDE DEF view
  <2>4. QED
    BY <2>1, <2>2, <2>3, LookOrder
<1>9. ASSUME NEW t \in Tab, Fail(t) \/ Unauthorized(t) PROVE Kept
  BY <1>1, <1>2, <1>9 DEF Fail, Unauthorized
<1>10. ASSUME NEW t \in Tab, Poll(t), UNCHANGED <<publishedVars, viewVars>> PROVE Kept
  BY <1>1, <1>2, <1>10 DEF Poll
<1>11. ASSUME NEW t \in Tab, Fire(t) \/ Refresh(t) PROVE Kept
  BY <1>10, <1>11 DEF Fire, Refresh
<1>12. ASSUME NEW t \in Tab, Hide(t) PROVE Kept
  BY <1>2, <1>12 DEF Hide
<1>13. ASSUME NEW t \in Tab, Show(t) PROVE Kept
  BY <1>2, <1>10, <1>13 DEF Show
<1>14. ASSUME NEW t \in Tab, Reload(t) PROVE Kept
  BY <1>14, ReloadOrder
<1>15. ASSUME NEW t \in Tab, NEW p \in PaneId \cup {NoView}, View(t, p) PROVE Kept
  <2>1. shown[t] \in Shown /\ Look(t, shown[t], p)
    BY <1>15 DEF SeenInv, SeenTypeOK, View
  <2>2. UNCHANGED <<finishedAt, latest, stamped, other, request>>
    BY <1>15 DEF View
  <2>3. /\ \A q \in PaneId : NoneLater(q, stamped) => shown[t].rows[q] <= stamped
        /\ \A q \in PaneId : NoneLater(q, finishedAt[q]) => shown[t].rows[q] <= finishedAt[q]
        /\ \A q \in PaneId : shown[t].rows[q] > 0 => \A s \in Server : stored[t][<<s, q>>] <= shown[t].rows[q]
        /\ \A q \in PaneId : request'[t].rows[q] > 0 => shown[t].rows[q] <= request'[t].rows[q]
    BY <2>2 DEF NoneLater, SeenInv, TabIsInOrder
  <2>4. QED
    BY <2>1, <2>2, <2>3, LookOrder
<1>16. CASE OtherLoads
  <2>1. UNCHANGED <<finishedAt, latest, stamped, request, shown, stored, storage, looked>> /\ other' = storage
    BY <1>16 DEF OtherLoads
  <2>2. \A p \in PaneId, f \in Stamp : NoneLater(p, f) => NoneLater(p, f)'
    BY <2>1 DEF NoneLater
  <2>3. QED
    BY <2>1, <2>2 DEF SeenInv, SeenTypeOK, MemoryIsNewest, TabIsInOrder, MarksWereShown, Honest
<1>17. ASSUME NEW p \in PaneId, OtherLooks(p) PROVE Kept
  BY <1>17, OtherOrder
<1>18. QED
  BY <1>3, <1>4, <1>5, <1>6, <1>7, <1>8, <1>9, <1>11, <1>12, <1>13, <1>14, <1>15, <1>16, <1>17 DEF SeenNext

\* The inductive invariant of the seen marks holds throughout.
THEOREM SeenInvariance == SeenSpec => []SeenInv
<1>1. SeenInit => SeenInv
  <2> SUFFICES ASSUME SeenInit PROVE SeenInv
    OBVIOUS
  <2> USE StampAssumption DEF SeenInit, Nothing, Request, NoRows, NoRow, NoServer
  <2>0. storage \in SeenMap /\ \A p \in PaneId, s \in Server : storage[<<s, p>>] = 0
    BY DEF SeenMap, Stamp
  <2>1. SeenTypeOK
    <3>1. NoRows \in Rows /\ finishedAt \in [PaneId -> Stamp] /\ stamped \in Stamp
      BY DEF Rows, Stamp
    <3>2. Request("sent") \in [at : At, rows : Rows, start : Server \cup {NoServer}] /\ Nothing \in Shown
      BY <3>1 DEF At, Shown
    <3>3. QED
      BY <2>0, <3>1, <3>2 DEF SeenTypeOK
  <2>2. /\ \A p \in PaneId : finishedAt[p] = 0 /\ latest[p] = -1
        /\ \A p \in PaneId, t \in Tab : shown[t].rows[p] = -1 /\ request[t].rows[p] = -1
        /\ other = storage /\ stamped = 0 /\ \A t \in Tab : stored[t] = storage
    OBVIOUS
  <2>3. MemoryIsNewest /\ TabIsInOrder /\ MarksWereShown
    BY <2>0, <2>2 DEF MemoryIsNewest, NoneLater, TabIsInOrder, MarksWereShown, Honest
  <2>4. OneOrTheOther /\ WakeIsRemembered
    BY DEF OneOrTheOther, WakeIsRemembered
  <2>5. QED
    BY <2>1, <2>3, <2>4 DEF SeenInv
<1>2. SeenInv /\ [SeenNext]_seenVars => SeenInv'
  <2> SUFFICES ASSUME SeenInv, [SeenNext]_seenVars PROVE SeenInv'
    OBVIOUS
  <2>1. SeenTypeOK'
    BY SeenTypeStep DEF SeenInv
  <2>2. QED
    BY <2>1, WakeStep, OrderStep DEF SeenInv
<1>3. QED
  BY <1>1, <1>2, PTL DEF SeenSpec

\* A finish on screen that is not announced has been on screen with its pane before:
\* for any panes, tabs and tmux servers, and in any order of polls, answers, looks,
\* loads and restarts.
THEOREM NoFinishSwallowed == SeenSpec => []NoFinishIsSwallowed
<1>1. SeenInv => NoFinishIsSwallowed
  <2> SUFFICES ASSUME SeenInv, NEW t \in Tab, NEW p \in PaneId,
                      shown[t].start # NoServer, shown[t].rows[p] > 0, ~ IsDone(t, p)
               PROVE  shown[t].rows[p] \in looked[p]
    BY DEF NoFinishIsSwallowed
  <2>1. shown[t].start \in Server /\ shown[t].rows[p] \in Int /\ stored[t][<<shown[t].start, p>>] \in Int
    BY StampAssumption DEF SeenInv, SeenTypeOK, Shown, Rows, Stamp, NoRow, SeenMap
  <2>2. shown[t].rows[p] <= stored[t][<<shown[t].start, p>>]
    BY <2>1 DEF IsDone
  <2>3. stored[t][<<shown[t].start, p>>] <= shown[t].rows[p]
    BY <2>1 DEF SeenInv, TabIsInOrder
  <2>4. QED
    BY <2>1, <2>2, <2>3 DEF SeenInv, MarksWereShown, Honest
<1>2. QED
  BY <1>1, SeenInvariance, PTL

\* A tab that came back while a request was under way polls when that is over.
THEOREM WakesAreHonoured == SeenSpec => []WakeIsHonoured
<1>1. SeenInv => WakeIsHonoured
  BY DEF SeenInv, WakeIsRemembered, WakeIsHonoured
<1>2. QED
  BY <1>1, SeenInvariance, PTL

=============================================================================
