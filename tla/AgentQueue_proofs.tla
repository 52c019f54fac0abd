-------------------------- MODULE AgentQueue_proofs --------------------------
(***************************************************************************)
(* No heartbeat is lost but to the cap, to age or to a stop of the         *)
(* machine, and the queue is replayed in the order it was collected, for   *)
(* any capacity, number of heartbeats and number of stops.                 *)
(***************************************************************************)
EXTENDS AgentQueue, SequenceTheorems, WellFoundedInduction, TLAPS

-----------------------------------------------------------------------------
(* What the steps do to the entries of a queue.                            *)

\* What is in a sequence of a set's members.
LEMMA EntriesOf ==
  ASSUME NEW S, NEW s \in Seq(S)
  PROVE  /\ ToSet(s) \subseteq S
         /\ \A x : x \in ToSet(s) <=> \E j \in 1 .. Len(s) : s[j] = x
BY LenProperties, ElementOfSeq DEF ToSet

\* Appending adds one entry and loses none.
LEMMA AppendEntries ==
  ASSUME NEW S, NEW s \in Seq(S), NEW e \in S
  PROVE  /\ Append(s, e) \in Seq(S) /\ Len(Append(s, e)) = Len(s) + 1
         /\ ToSet(Append(s, e)) = ToSet(s) \cup {e}
<1>1. /\ Append(s, e) \in Seq(S) /\ Len(Append(s, e)) = Len(s) + 1 /\ Len(s) \in Nat
      /\ Append(s, e)[Len(s) + 1] = e
      /\ \A j \in 1 .. Len(s) : Append(s, e)[j] = s[j]
  BY AppendProperties, LenProperties
<1>2. ASSUME NEW x
      PROVE  x \in ToSet(Append(s, e)) <=> x \in ToSet(s) \cup {e}
  <2>1. x \in ToSet(Append(s, e)) <=> \E j \in 1 .. Len(s) + 1 : Append(s, e)[j] = x
    <3>1. x \in ToSet(Append(s, e)) <=> \E j \in 1 .. Len(Append(s, e)) : Append(s, e)[j] = x
      BY <1>1, EntriesOf
    <3>. QED
      BY <1>1, <3>1
  <2>2. x \in ToSet(s) <=> \E j \in 1 .. Len(s) : s[j] = x
    BY EntriesOf
  <2>. QED
    BY <1>1, <2>1, <2>2
<1>. QED
  BY <1>1, <1>2

\* Dropping the first entry loses at most that one.
LEMMA TailEntries ==
  ASSUME NEW S, NEW s \in Seq(S), s # <<>>
  PROVE  /\ Head(s) \in S /\ Tail(s) \in Seq(S) /\ Len(Tail(s)) = Len(s) - 1
         /\ ToSet(s) \subseteq ToSet(Tail(s)) \cup {Head(s)}
<1>1. /\ Head(s) \in S /\ Tail(s) \in Seq(S) /\ Len(Tail(s)) = Len(s) - 1
      /\ \A j \in 1 .. Len(Tail(s)) : Tail(s)[j] = s[j + 1]
      /\ Len(s) \in Nat /\ s[1] = Head(s)
  BY HeadTailProperties, LenProperties
<1>2. ASSUME NEW j \in 1 .. Len(s)
      PROVE  s[j] \in ToSet(Tail(s)) \cup {Head(s)}
  <2>1. CASE j > 1
    <3>1. j - 1 \in 1 .. Len(Tail(s)) /\ Tail(s)[j - 1] = s[j]
      BY <1>1, <2>1
    <3>. QED
      BY <1>1, <3>1, EntriesOf
  <2>. QED
    BY <1>1, <2>1
<1>. QED
  BY <1>1, <1>2, EntriesOf

\* A part of a sequence keeps the entries between its ends.
LEMMA PartTyped ==
  ASSUME NEW S, NEW s \in Seq(S), NEW m \in 1 .. Len(s) + 1, NEW n \in 0 .. Len(s), m <= n + 1
  PROVE  /\ SubSeq(s, m, n) \in Seq(S) /\ Len(SubSeq(s, m, n)) = n - m + 1
         /\ \A j \in m .. n : s[j] \in ToSet(SubSeq(s, m, n))
<1>1. Len(s) \in Nat /\ \A j \in m .. n : s[j] \in S
  BY LenProperties, ElementOfSeq
<1>2. /\ SubSeq(s, m, n) \in Seq(S)
      /\ Len(SubSeq(s, m, n)) = IF m <= n THEN n - m + 1 ELSE 0
      /\ \A j \in 1 .. n - m + 1 : SubSeq(s, m, n)[j] = s[m + j - 1]
  BY <1>1, SubSeqProperties
<1>3. Len(SubSeq(s, m, n)) = n - m + 1
  BY <1>1, <1>2
<1>4. ASSUME NEW j \in m .. n PROVE s[j] \in ToSet(SubSeq(s, m, n))
  <2>1. j - m + 1 \in 1 .. n - m + 1 /\ m + (j - m + 1) - 1 = j
    BY <1>1
  <2>2. SubSeq(s, m, n)[j - m + 1] = s[j]
    BY <1>2, <2>1
  <2>. QED
    BY <1>2, <1>3, <2>1, <2>2, EntriesOf
<1>. QED
  BY <1>2, <1>3, <1>4

\* The cap holds of whatever was trimmed to it.
LEMMA TrimmedTyped ==
  ASSUME NEW S, NEW s \in Seq(S)
  PROVE  Trimmed(s) \in Seq(S) /\ Len(Trimmed(s)) <= Cap
<1>1. Len(s) \in Nat
  BY LenProperties
<1>2. CASE Len(s) <= Cap
  BY <1>2 DEF Trimmed
<1>3. CASE ~(Len(s) <= Cap)
  <2>1. Len(s) - Cap + 1 \in 1 .. Len(s) + 1 /\ Len(s) \in 0 .. Len(s)
    BY <1>1, <1>3, CapAssumption
  <2>2. Trimmed(s) = SubSeq(s, Len(s) - Cap + 1, Len(s))
    BY <1>3 DEF Trimmed
  <2>3. Trimmed(s) \in Seq(S) /\ Len(Trimmed(s)) = Len(s) - (Len(s) - Cap + 1) + 1
    BY <1>1, <2>1, <2>2, PartTyped, CapAssumption
  <2>. QED
    BY <1>1, <2>3, CapAssumption
<1>. QED
  BY <1>2, <1>3

-----------------------------------------------------------------------------
(* While a flush is under way, whatever is in the file but not in hand was *)
(* received or is too old: the file is overwritten with what is in hand.   *)

Flushed ==
  pc \in {"sending", "save"} =>
    \A n \in ToSet(file) : n \in received \cup ToSet(rest) \/ n <= aged

\* What a flush keeps fits where it came from, and a heartbeat in hand has a
\* number.
InHandFits ==
  /\ Len(rest) <= Cap
  /\ pc \in {"live", "enqueue"} => collected > 0

Kept == TypeOK /\ InHandFits /\ Flushed /\ EvidenceKept

\* An empty queue has lost nothing.
LEMMA InitKept == Init => Kept
<1>. SUFFICES ASSUME Init PROVE Kept
  OBVIOUS
<1>1. TypeOK
  <2>1. file \in Seq(Beats) /\ rest \in Seq(Beats) /\ Len(file) <= Cap
    BY EmptySeq, CapAssumption DEF Init
  <2>2. /\ collected \in 0 .. MaxBeats /\ crashes \in 0 .. MaxCrashes
        /\ aged \in 0 .. collected /\ foreign \in 0 .. collected
    BY BoundsAssumption DEF Init
  <2>3. torn \in BOOLEAN /\ hubUp \in BOOLEAN /\ received \subseteq Beats /\ forgone \subseteq Beats
    BY DEF Init
  <2>. QED
    BY <2>1, <2>2, <2>3 DEF Init, TypeOK
<1>2. InHandFits /\ Flushed
  BY CapAssumption, EmptySeq DEF Init, InHandFits, Flushed
<1>3. EvidenceKept
  BY DEF Init, EvidenceKept
<1>. QED
  BY <1>1, <1>2, <1>3 DEF Kept

\* The facts about types that the steps below use.
LEMMA QueueTyped ==
  ASSUME TypeOK
  PROVE  /\ file \in Seq(Beats) /\ rest \in Seq(Beats)
         /\ Len(file) \in Nat /\ Len(rest) \in Nat
         /\ ToSet(file) \subseteq Beats /\ ToSet(rest) \subseteq Beats
         /\ Beats \subseteq Nat
         /\ collected \in Nat /\ aged \in Nat /\ foreign \in Nat
<1>1. file \in Seq(Beats) /\ rest \in Seq(Beats)
  BY DEF TypeOK
<1>. QED
  BY <1>1, EntriesOf, LenProperties, BoundsAssumption DEF TypeOK, Beats

\* What a flush leaves out was too old.
LEMMA StartFlushKeeps == ASSUME Kept, StartFlush PROVE Kept'
<1>1. PICK k \in 0 .. Len(file) :
        /\ \A j \in 1 .. Len(file) : Young(file[j]) <=> j > k
        /\ rest' = SubSeq(file, k + 1, Len(file))
  BY DEF StartFlush
<1>2. TypeOK
  BY DEF Kept
<1>3. /\ rest' \in Seq(Beats) /\ Len(rest') <= Cap
      /\ \A j \in k + 1 .. Len(file) : file[j] \in ToSet(rest')
  <2>1. k + 1 \in 1 .. Len(file) + 1 /\ Len(file) \in 0 .. Len(file) /\ k + 1 <= Len(file) + 1
    BY <1>2, QueueTyped
  <2>2. /\ rest' \in Seq(Beats) /\ Len(rest') = Len(file) - (k + 1) + 1
        /\ \A j \in k + 1 .. Len(file) : file[j] \in ToSet(rest')
    BY <1>1, <1>2, <2>1, QueueTyped, PartTyped
  <2>. QED
    BY <1>2, <2>2, QueueTyped, CapAssumption DEF TypeOK
<1>4. ASSUME NEW n \in ToSet(file) PROVE n \in ToSet(rest') \/ n <= aged
  <2>1. PICK j \in 1 .. Len(file) : file[j] = n
    BY <1>2, QueueTyped, EntriesOf
  <2>2. CASE j > k
    BY <1>2, <1>3, <2>1, <2>2, QueueTyped
  <2>3. CASE ~(j > k)
    BY <1>1, <1>2, <2>1, <2>3, QueueTyped DEF Young
  <2>. QED
    BY <2>2, <2>3
<1>5. TypeOK'
  BY <1>2, <1>3 DEF StartFlush, TypeOK, world, Beats
<1>6. InHandFits' /\ Flushed'
  BY <1>3, <1>4 DEF StartFlush, InHandFits, Flushed, world
<1>7. EvidenceKept'
  BY DEF Kept, StartFlush, EvidenceKept, InHand, world
<1>. QED
  BY <1>5, <1>6, <1>7 DEF Kept

\* What a flush sends was recorded.
LEMMA FlushSentKeeps == ASSUME Kept, FlushSent PROVE Kept'
<1>1. TypeOK /\ rest # <<>>
  BY DEF Kept, FlushSent
<1>2. /\ Head(rest) \in Beats /\ rest' \in Seq(Beats) /\ Len(rest') = Len(rest) - 1
      /\ ToSet(rest) \subseteq ToSet(rest') \cup {Head(rest)}
  BY <1>1, QueueTyped, TailEntries DEF FlushSent
<1>3. received' = received \cup {Head(rest)}
  BY DEF FlushSent, SendOk, Delivered
<1>4. TypeOK'
  BY <1>1, <1>2, <1>3 DEF FlushSent, TypeOK, world, Beats
<1>5. InHandFits'
  BY <1>1, <1>2, QueueTyped, CapAssumption DEF Kept, FlushSent, InHandFits
<1>6. Flushed'
  BY <1>2, <1>3 DEF Kept, FlushSent, Flushed, world
<1>7. EvidenceKept'
  BY <1>3 DEF Kept, FlushSent, EvidenceKept, InHand
<1>. QED
  BY <1>4, <1>5, <1>6, <1>7 DEF Kept

\* A failed send takes nothing away.
LEMMA SendFailsAdds ==
  ASSUME TypeOK, NEW n \in Beats, SendFails(n)
  PROVE  received \subseteq received' /\ received' \subseteq Beats
BY DEF SendFails, Delivered, TypeOK

\* What a flush stopped at is still in hand.
LEMMA FlushStopsKeeps == ASSUME Kept, FlushStops PROVE Kept'
<1>1. TypeOK /\ rest # <<>>
  BY DEF Kept, FlushStops
<1>2. received \subseteq received' /\ received' \subseteq Beats
  BY <1>1, QueueTyped, TailEntries, SendFailsAdds DEF FlushStops
<1>3. TypeOK'
  BY <1>1, <1>2 DEF FlushStops, TypeOK, world, Beats
<1>4. InHandFits' /\ Flushed' /\ EvidenceKept'
  BY <1>2 DEF Kept, FlushStops, InHandFits, Flushed, EvidenceKept, InHand, world
<1>. QED
  BY <1>3, <1>4 DEF Kept

\* The file is overwritten: what leaves it was received or is too old.
LEMMA SaveFlushKeeps == ASSUME Kept, SaveFlush PROVE Kept'
<1>1. TypeOK /\ ToSet(file) \subseteq Beats
  BY QueueTyped DEF Kept
<1>2. TypeOK'
  BY <1>1, EmptySeq DEF Kept, InHandFits, SaveFlush, TypeOK, world, Beats
<1>3. InHandFits' /\ Flushed'
  BY EmptySeq, CapAssumption DEF SaveFlush, InHandFits, Flushed
<1>4. EvidenceKept'
  <2>. SUFFICES ASSUME NEW n \in 1 .. collected
       PROVE  n \in received \cup ToSet(rest) \cup forgone'
    BY DEF SaveFlush, EvidenceKept
  <2>1. n \in received \cup ToSet(file) \cup forgone
    BY DEF Kept, EvidenceKept, InHand, SaveFlush
  <2>2. n \in ToSet(file) => n \in received \cup ToSet(rest) \/ n <= aged
    BY DEF Kept, Flushed, SaveFlush
  <2>. QED
    BY <2>1, <2>2 DEF SaveFlush
<1>. QED
  BY <1>2, <1>3, <1>4 DEF Kept

\* What is queued behind a full file drops the oldest, which the cap accounts for.
LEMMA EnqueueKeeps == ASSUME Kept, Enqueue PROVE Kept'
<1>1. TypeOK /\ collected \in Beats
  BY QueueTyped DEF Kept, Enqueue, InHandFits, TypeOK, Beats
<1>2. /\ Append(file, collected) \in Seq(Beats)
      /\ ToSet(Append(file, collected)) = ToSet(file) \cup {collected}
  BY <1>1, QueueTyped, AppendEntries
<1>3. file' \in Seq(Beats) /\ Len(file') <= Cap
  BY <1>2, TrimmedTyped DEF Enqueue
<1>4. TypeOK'
  BY <1>1, <1>2, <1>3, EntriesOf, QueueTyped DEF Enqueue, TypeOK, world, Beats
<1>5. InHandFits' /\ Flushed'
  BY DEF Kept, Enqueue, InHandFits, Flushed
<1>6. EvidenceKept'
  BY <1>2 DEF Kept, Enqueue, EvidenceKept, InHand
<1>. QED
  BY <1>4, <1>5, <1>6 DEF Kept

\* A heartbeat collected now is in hand until it is sent or queued.
LEMMA LiveKeeps ==
  ASSUME Kept, Collect \/ CollectUncounted \/ LiveSent \/ LiveFails
  PROVE  Kept'
<1>1. TypeOK
  BY DEF Kept
<1>2. CASE Collect
  <2>1. TypeOK' /\ InHandFits' /\ Flushed'
    BY <1>1, <1>2, QueueTyped, BoundsAssumption
       DEF Kept, Collect, TypeOK, InHandFits, Flushed, world, Beats
  <2>2. EvidenceKept'
    BY <1>1, <1>2, QueueTyped DEF Kept, Collect, EvidenceKept, InHand
  <2>. QED
    BY <2>1, <2>2 DEF Kept
<1>3. CASE CollectUncounted
  BY <1>3 DEF Kept, CollectUncounted, TypeOK, InHandFits, Flushed, EvidenceKept, InHand, world, Beats
<1>4. ASSUME LiveSent \/ LiveFails
      PROVE  /\ received \subseteq received' /\ received' \subseteq Beats
             /\ LiveSent => collected \in received'
  <2>1. collected \in Beats
    BY <1>1, <1>4, QueueTyped DEF Kept, LiveSent, LiveFails, InHandFits, TypeOK, Beats
  <2>. QED
    BY <1>1, <1>4, <2>1, SendFailsAdds DEF LiveSent, LiveFails, SendOk, Delivered, TypeOK
<1>5. CASE LiveSent
  <2>1. TypeOK' /\ InHandFits' /\ Flushed'
    BY <1>1, <1>4, <1>5 DEF Kept, LiveSent, TypeOK, InHandFits, Flushed, world, Beats
  <2>2. EvidenceKept'
    BY <1>4, <1>5 DEF Kept, LiveSent, EvidenceKept, InHand
  <2>. QED
    BY <2>1, <2>2 DEF Kept
<1>6. CASE LiveFails
  <2>1. TypeOK' /\ InHandFits' /\ Flushed'
    BY <1>1, <1>4, <1>6 DEF Kept, LiveFails, TypeOK, InHandFits, Flushed, world, Beats
  <2>2. EvidenceKept'
    BY <1>4, <1>6 DEF Kept, LiveFails, EvidenceKept, InHand
  <2>. QED
    BY <2>1, <2>2 DEF Kept
<1>. QED
  BY <1>2, <1>3, <1>5, <1>6

\* A stop forgoes what was in the file or in hand and is not in it any more.
LEMMA StopKeeps ==
  ASSUME Kept, NEW content \in Seq(Beats), Len(content) <= Cap, Stop(content), torn' \in BOOLEAN
  PROVE  Kept'
<1>1. TypeOK /\ ToSet(file) \subseteq Beats
  BY QueueTyped DEF Kept
<1>2. pc \in {"live", "enqueue"} => collected \in Beats
  BY <1>1, QueueTyped DEF Kept, InHandFits, TypeOK, Beats
<1>3. TypeOK'
  <2>1. rest' \in Seq(Beats) /\ file' \in Seq(Beats) /\ Len(file') <= Cap
    BY EmptySeq DEF Stop
  <2>2. forgone' \subseteq Beats
    BY <1>1, <1>2 DEF Stop, TypeOK
  <2>3. crashes' \in 0 .. MaxCrashes
    BY <1>1, BoundsAssumption DEF Stop, TypeOK
  <2>. QED
    BY <1>1, <2>1, <2>2, <2>3 DEF Stop, TypeOK, world
<1>4. InHandFits' /\ Flushed'
  BY EmptySeq, CapAssumption DEF Stop, InHandFits, Flushed
<1>5. EvidenceKept'
  <2>. SUFFICES ASSUME NEW n \in 1 .. collected
       PROVE  n \in received \cup ToSet(content) \cup forgone'
    BY DEF Stop, EvidenceKept
  <2>1. n \in received \cup ToSet(file) \cup InHand \cup forgone
    BY DEF Kept, EvidenceKept
  <2>. QED
    BY <2>1 DEF Stop, InHand
<1>. QED
  BY <1>3, <1>4, <1>5 DEF Kept

\* A crash loses what was in hand and, while the file is written, the file.
LEMMA CrashKeeps == ASSUME Kept, Crash PROVE Kept'
<1>1. TypeOK /\ file \in Seq(Beats)
  BY DEF Kept, TypeOK
<1>2. CASE Stop(file) /\ UNCHANGED torn
  BY <1>1, <1>2, StopKeeps DEF TypeOK
<1>. DEFINE written == IF pc = "save" THEN rest ELSE Trimmed(Append(file, collected))
<1>3. ASSUME pc \in {"save", "enqueue"}, NEW k \in 0 .. Len(written),
             Stop(SubSeq(written, 1, k)), torn' \in {FALSE, k < Len(written)}
      PROVE  Kept'
  <2>1. written \in Seq(Beats) /\ Len(written) <= Cap
    <3>1. CASE pc = "save"
      BY <1>1, <3>1 DEF Kept, InHandFits, TypeOK
    <3>2. CASE pc = "enqueue"
      <4>1. collected \in Beats
        BY <1>1, <3>2, QueueTyped DEF Kept, InHandFits, TypeOK, Beats
      <4>2. Append(file, collected) \in Seq(Beats)
        BY <1>1, <4>1, AppendEntries
      <4>. QED
        BY <3>2, <4>2, TrimmedTyped
    <3>. QED
      BY <1>3, <3>1, <3>2
  <2>. HIDE DEF written
  <2>2. Len(written) \in Nat
    BY <2>1, LenProperties
  <2>3. SubSeq(written, 1, k) \in Seq(Beats) /\ Len(SubSeq(written, 1, k)) = k - 1 + 1
    <3>1. 1 \in 1 .. Len(written) + 1 /\ k \in 0 .. Len(written) /\ 1 <= k + 1
      BY <1>3, <2>2
    <3>. QED
      BY <2>1, <3>1, PartTyped
  <2>4. Len(SubSeq(written, 1, k)) <= Cap
    BY <1>3, <2>1, <2>2, <2>3, CapAssumption
  <2>5. torn' \in BOOLEAN
    <3>1. (k < Len(written)) \in BOOLEAN
      OBVIOUS
    <3>. QED
      BY <1>3, <3>1, Zenon
  <2>. QED
    BY <1>3, <2>3, <2>4, <2>5, StopKeeps
<1>. QED
  BY <1>2, <1>3 DEF Crash

\* The hub and the clock change what may be lost, never what was.
LEMMA WorldKeeps ==
  ASSUME Kept, FailToLoad \/ FlushDone \/ StartService \/ HeartbeatsAge \/ ServerReplaced
                 \/ HubChanges
  PROVE  Kept'
<1>. USE DEF Kept, TypeOK, InHandFits, Flushed, EvidenceKept, InHand, world, Beats
<1>1. CASE FailToLoad
  BY <1>1 DEF FailToLoad
<1>2. CASE FlushDone
  BY <1>2 DEF FlushDone
<1>3. CASE StartService
  BY <1>3 DEF StartService
<1>4. CASE HeartbeatsAge
  <2>1. TypeOK' /\ aged \in Int /\ aged' \in Int /\ aged <= aged'
    BY <1>4, QueueTyped DEF HeartbeatsAge
  <2>2. ToSet(file) \subseteq Int
    BY QueueTyped
  <2>. QED
    BY <1>4, <2>1, <2>2 DEF HeartbeatsAge
<1>5. CASE ServerReplaced
  BY <1>5, QueueTyped DEF ServerReplaced
<1>6. CASE HubChanges
  BY <1>6 DEF HubChanges
<1>. QED
  BY <1>1, <1>2, <1>3, <1>4, <1>5, <1>6

\* Every step keeps the invariant.
LEMMA NextKept == Kept /\ [Next]_vars => Kept'
<1>1. Kept /\ UNCHANGED vars => Kept'
  BY DEF vars, Kept, TypeOK, InHandFits, Flushed, EvidenceKept, InHand
<1>. QED
  BY <1>1, StartFlushKeeps, FlushSentKeeps, FlushStopsKeeps, SaveFlushKeeps, EnqueueKeeps,
     LiveKeeps, CrashKeeps, WorldKeeps DEF Next, Loop

\* Every heartbeat was recorded, waits in the file, is in hand, or was given
\* up to the cap, to its age or to a stop of the machine: no failed or late
\* answer, flush cut short or replay loses one. (agent 37-41, 1165-1194,
\* 1290-1302)
THEOREM NoEvidenceLost == Spec => [](TypeOK /\ EvidenceKept)
<1>1. Init => Kept
  BY InitKept
<1>2. Kept /\ [Next]_vars => Kept'
  BY NextKept
<1>3. Kept => TypeOK /\ EvidenceKept
  BY DEF Kept
<1>. QED
  BY <1>1, <1>2, <1>3, PTL DEF Spec

-----------------------------------------------------------------------------
(* The queue is in the order its heartbeats were collected, so that a      *)
(* flush can always say where the ones too old end.                        *)

Increasing(s) == \A i, j \in 1 .. Len(s) : i < j => s[i] < s[j]

\* What waits is older than what the loop has collected to send now.
InOrder ==
  /\ Increasing(file) /\ Increasing(rest)
  /\ \A n \in ToSet(file) \cup ToSet(rest) :
       n <= collected /\ (pc \in {"live", "enqueue"} => n < collected)

\* Where a flush begins: behind the entries too old to be worth sending.
FlushStart(k) == \A j \in 1 .. Len(file) : Young(file[j]) <=> j > k

\* There is nothing in an empty queue.
LEMMA EmptyInOrder == Increasing(<<>>) /\ ToSet(<<>>) = {}
<1>1. <<>> \in Seq(Nat) /\ Len(<<>>) = 0
  BY EmptySeq
<1>2. ASSUME NEW x PROVE x \notin ToSet(<<>>)
  <2>1. x \in ToSet(<<>>) <=> \E j \in 1 .. Len(<<>>) : <<>>[j] = x
    BY <1>1, EntriesOf
  <2>2. 1 .. Len(<<>>) = {}
    BY <1>1
  <2>. QED
    BY <2>1, <2>2, Zenon
<1>. QED
  BY <1>1, <1>2 DEF Increasing

\* A part of an increasing queue is increasing, and has no other entries.
LEMMA PartInOrder ==
  ASSUME NEW s \in Seq(Beats), Increasing(s),
         NEW m \in 1 .. Len(s) + 1, NEW n \in 0 .. Len(s), m <= n + 1
  PROVE  /\ Increasing(SubSeq(s, m, n))
         /\ ToSet(SubSeq(s, m, n)) \subseteq ToSet(s)
<1>1. Len(s) \in Nat
  BY LenProperties
<1>2. /\ SubSeq(s, m, n) \in Seq(Beats) /\ Len(SubSeq(s, m, n)) = n - m + 1
      /\ \A j \in 1 .. n - m + 1 : SubSeq(s, m, n)[j] = s[m + j - 1]
  <2>1. \A j \in m .. n : s[j] \in Beats
    BY <1>1, ElementOfSeq
  <2>. QED
    BY <1>1, <2>1, PartTyped, SubSeqProperties
<1>3. Increasing(SubSeq(s, m, n))
  <2>. SUFFICES ASSUME NEW i \in 1 .. n - m + 1, NEW j \in 1 .. n - m + 1, i < j
       PROVE  SubSeq(s, m, n)[i] < SubSeq(s, m, n)[j]
    BY <1>2 DEF Increasing
  <2>1. /\ m + i - 1 \in 1 .. Len(s) /\ m + j - 1 \in 1 .. Len(s)
        /\ m + i - 1 < m + j - 1
    BY <1>1
  <2>2. s[m + i - 1] < s[m + j - 1]
    BY <2>1 DEF Increasing
  <2>. QED
    BY <1>2, <2>2
<1>4. ASSUME NEW x \in ToSet(SubSeq(s, m, n)) PROVE x \in ToSet(s)
  <2>1. PICK j \in 1 .. n - m + 1 : SubSeq(s, m, n)[j] = x
    BY <1>2, EntriesOf
  <2>2. m + j - 1 \in 1 .. Len(s) /\ s[m + j - 1] = x
    BY <1>1, <1>2, <2>1
  <2>. QED
    BY <2>2, EntriesOf
<1>. QED
  BY <1>3, <1>4

\* Dropping the first entry keeps the order.
LEMMA TailInOrder ==
  ASSUME NEW s \in Seq(Beats), s # <<>>, Increasing(s)
  PROVE  Increasing(Tail(s)) /\ ToSet(Tail(s)) \subseteq ToSet(s)
<1>1. /\ Len(s) \in Nat /\ Tail(s) \in Seq(Beats) /\ Len(Tail(s)) = Len(s) - 1
      /\ \A j \in 1 .. Len(s) - 1 : Tail(s)[j] = s[j + 1]
  BY HeadTailProperties, LenProperties
<1>2. Increasing(Tail(s))
  <2>. SUFFICES ASSUME NEW i \in 1 .. Len(s) - 1, NEW j \in 1 .. Len(s) - 1, i < j
       PROVE  Tail(s)[i] < Tail(s)[j]
    BY <1>1 DEF Increasing
  <2>1. i + 1 \in 1 .. Len(s) /\ j + 1 \in 1 .. Len(s) /\ i + 1 < j + 1
    BY <1>1
  <2>2. s[i + 1] < s[j + 1]
    BY <2>1 DEF Increasing
  <2>. QED
    BY <1>1, <2>2
<1>3. ASSUME NEW x \in ToSet(Tail(s)) PROVE x \in ToSet(s)
  <2>1. PICK j \in 1 .. Len(s) - 1 : Tail(s)[j] = x
    BY <1>1, EntriesOf
  <2>2. j + 1 \in 1 .. Len(s) /\ s[j + 1] = x
    BY <1>1, <2>1
  <2>. QED
    BY <2>2, EntriesOf
<1>. QED
  BY <1>2, <1>3

\* A newer heartbeat behind an increasing queue keeps the order.
LEMMA AppendInOrder ==
  ASSUME NEW s \in Seq(Beats), Increasing(s), NEW e \in Beats, \A n \in ToSet(s) : n < e
  PROVE  Increasing(Append(s, e))
<1>1. /\ Len(s) \in Nat /\ Append(s, e)[Len(s) + 1] = e /\ Len(Append(s, e)) = Len(s) + 1
      /\ \A j \in 1 .. Len(s) : Append(s, e)[j] = s[j] /\ s[j] < e
  BY AppendProperties, LenProperties, EntriesOf
<1>. SUFFICES ASSUME NEW i \in 1 .. Len(s) + 1, NEW j \in 1 .. Len(s) + 1, i < j
     PROVE  Append(s, e)[i] < Append(s, e)[j]
  BY <1>1 DEF Increasing
<1>2. i \in 1 .. Len(s)
  BY <1>1
<1>3. CASE j \in 1 .. Len(s)
  <2>1. s[i] < s[j]
    BY <1>2, <1>3 DEF Increasing
  <2>. QED
    BY <1>1, <1>2, <1>3, <2>1
<1>4. CASE j = Len(s) + 1
  BY <1>1, <1>2, <1>4
<1>. QED
  BY <1>1, <1>3, <1>4

\* Trimming keeps the newest, in order.
LEMMA TrimmedInOrder ==
  ASSUME NEW s \in Seq(Beats), Increasing(s)
  PROVE  Increasing(Trimmed(s)) /\ ToSet(Trimmed(s)) \subseteq ToSet(s)
<1>1. Len(s) \in Nat
  BY LenProperties
<1>2. CASE Len(s) <= Cap
  BY <1>2 DEF Trimmed
<1>3. CASE ~(Len(s) <= Cap)
  <2>1. Len(s) - Cap + 1 \in 1 .. Len(s) + 1 /\ Len(s) \in 0 .. Len(s)
        /\ Len(s) - Cap + 1 <= Len(s) + 1
    BY <1>1, <1>3, CapAssumption
  <2>2. Trimmed(s) = SubSeq(s, Len(s) - Cap + 1, Len(s))
    BY <1>3 DEF Trimmed
  <2>. QED
    BY <2>1, <2>2, PartInOrder
<1>. QED
  BY <1>2, <1>3

\* A set of numbers that is not empty has a least one.
LEMMA LeastOf ==
  ASSUME NEW T \in SUBSET Nat, T # {}
  PROVE  \E x \in T : \A y \in T : x <= y
<1>. DEFINE R == OpToRel(<, Nat)
<1>1. IsWellFoundedOn(R, Nat)
  BY NatLessThanWellFounded
<1>2. \A x, y \in Nat : y < x => <<y, x>> \in R
  BY DEF OpToRel
<1>. HIDE DEF R
<1>3. PICK x \in T : \A y \in T : ~(<<y, x>> \in R)
  BY <1>1, WFMin
<1>4. ASSUME NEW y \in T PROVE x <= y
  <2>1. x \in Nat /\ y \in Nat /\ ~(y < x)
    BY <1>2, <1>3
  <2>. QED
    BY <2>1
<1>. QED
  BY <1>4

\* In an increasing queue the entries too old to be sent are the first ones.
LEMMA OldOnesFirst ==
  ASSUME TypeOK, Increasing(file)
  PROVE  \E k \in 0 .. Len(file) : FlushStart(k)
<1>. DEFINE T == {j \in 1 .. Len(file) + 1 : j = Len(file) + 1 \/ Young(file[j])}
<1>1. /\ Len(file) \in Nat /\ aged \in Nat
      /\ \A j \in 1 .. Len(file) : file[j] \in Nat
  BY QueueTyped, ElementOfSeq
<1>2. T \in SUBSET Nat /\ Len(file) + 1 \in T
  BY <1>1
<1>3. PICK x \in T : \A y \in T : x <= y
  BY <1>2, LeastOf
<1>4. ASSUME NEW j \in 1 .. Len(file) PROVE Young(file[j]) <=> j > x - 1
  <2>1. x \in 1 .. Len(file) + 1 /\ (x = Len(file) + 1 \/ Young(file[x]))
    OBVIOUS
  <2>2. CASE Young(file[j])
    <3>1. j \in T
      BY <1>1, <2>2
    <3>. QED
      BY <1>1, <1>3, <2>1, <2>2, <3>1
  <2>3. CASE ~Young(file[j])
    <3>1. CASE j < x
      BY <1>1, <2>1, <2>3, <3>1
    <3>2. CASE j = x
      BY <1>1, <2>1, <2>3, <3>2
    <3>3. CASE j > x
      <4>1. x \in 1 .. Len(file) /\ Young(file[x])
        BY <1>1, <2>1, <3>3
      <4>2. file[x] < file[j]
        BY <3>3, <4>1 DEF Increasing
      <4>. QED
        BY <1>1, <2>3, <4>1, <4>2 DEF Young
    <3>. QED
      BY <1>1, <2>1, <3>1, <3>2, <3>3
  <2>. QED
    BY <2>2, <2>3
<1>5. x - 1 \in 0 .. Len(file)
  BY <1>1
<1>. QED
  BY <1>4, <1>5 DEF FlushStart

\* The flush takes the queue's end, gives up its beginning, and writes back
\* what it did not send.
LEMMA FlushOrdered ==
  ASSUME Kept, InOrder, StartFlush \/ FlushSent \/ FlushStops \/ FlushDone \/ SaveFlush
  PROVE  InOrder'
<1>1. /\ TypeOK /\ file \in Seq(Beats) /\ rest \in Seq(Beats) /\ Len(file) \in Nat
      /\ Increasing(file) /\ Increasing(rest)
  BY QueueTyped DEF Kept, InOrder
<1>2. CASE StartFlush
  <2>1. PICK k \in 0 .. Len(file) : rest' = SubSeq(file, k + 1, Len(file))
    BY <1>2 DEF StartFlush
  <2>2. k + 1 \in 1 .. Len(file) + 1 /\ Len(file) \in 0 .. Len(file) /\ k + 1 <= Len(file) + 1
    BY <1>1
  <2>3. Increasing(rest') /\ ToSet(rest') \subseteq ToSet(file)
    BY <1>1, <2>1, <2>2, PartInOrder
  <2>. QED
    BY <1>2, <2>3 DEF InOrder, StartFlush, Increasing
<1>3. CASE FlushSent
  <2>1. Increasing(rest') /\ ToSet(rest') \subseteq ToSet(rest)
    BY <1>1, <1>3, TailInOrder DEF FlushSent
  <2>. QED
    BY <1>3, <2>1 DEF InOrder, FlushSent, Increasing
<1>4. CASE FlushStops \/ FlushDone
  BY <1>4 DEF InOrder, FlushStops, FlushDone, Increasing
<1>5. CASE SaveFlush
  <2>1. Increasing(rest') /\ ToSet(rest') = {}
    BY <1>5, EmptyInOrder DEF SaveFlush, Increasing
  <2>. QED
    BY <1>5, <2>1 DEF InOrder, SaveFlush, Increasing
<1>. QED
  BY <1>2, <1>3, <1>4, <1>5

\* A heartbeat collected now is newer than all that waits.
LEMMA LiveOrdered ==
  ASSUME Kept, InOrder,
         Collect \/ CollectUncounted \/ LiveSent \/ LiveFails \/ Enqueue
  PROVE  InOrder'
<1>1. /\ TypeOK /\ file \in Seq(Beats) /\ collected \in Nat /\ Increasing(file)
      /\ ToSet(file) \subseteq Nat /\ ToSet(rest) \subseteq Nat
  BY QueueTyped DEF Kept, InOrder
<1>2. CASE Collect
  <2>1. \A n \in ToSet(file) \cup ToSet(rest) : n < collected'
    BY <1>1, <1>2 DEF InOrder, Collect
  <2>2. collected' \in Nat
    BY <1>1, <1>2 DEF Collect
  <2>. QED
    BY <1>1, <1>2, <2>1, <2>2 DEF InOrder, Collect, Increasing
<1>3. CASE CollectUncounted \/ LiveSent \/ LiveFails
  BY <1>3 DEF InOrder, CollectUncounted, LiveSent, LiveFails, Increasing
<1>4. CASE Enqueue
  <2>1. collected \in Beats /\ \A n \in ToSet(file) : n < collected
    BY <1>1, <1>4 DEF Kept, InHandFits, InOrder, Enqueue, TypeOK, Beats
  <2>2. /\ Append(file, collected) \in Seq(Beats) /\ Increasing(Append(file, collected))
        /\ ToSet(Append(file, collected)) = ToSet(file) \cup {collected}
    BY <1>1, <2>1, AppendEntries, AppendInOrder
  <2>3. Increasing(file') /\ ToSet(file') \subseteq ToSet(file) \cup {collected}
    BY <1>4, <2>2, TrimmedInOrder DEF Enqueue
  <2>4. \A n \in ToSet(file') \cup ToSet(rest') : n <= collected'
    BY <1>1, <1>4, <2>3 DEF InOrder, Enqueue
  <2>. QED
    BY <1>4, <2>3, <2>4 DEF InOrder, Enqueue, Increasing
<1>. QED
  BY <1>2, <1>3, <1>4

\* What a stop leaves of the file is a beginning of what was being written.
LEMMA CrashOrdered == ASSUME Kept, InOrder, Crash PROVE InOrder'
<1>1. /\ TypeOK /\ file \in Seq(Beats) /\ rest \in Seq(Beats) /\ collected \in Nat
      /\ Increasing(file) /\ Increasing(rest) /\ ToSet(file) \subseteq Nat
  BY QueueTyped DEF Kept, InOrder
<1>2. ASSUME NEW content, Stop(content), Increasing(content),
             \A n \in ToSet(content) : n <= collected
      PROVE  InOrder'
  <2>1. Increasing(rest') /\ ToSet(rest') = {}
    BY <1>2, EmptyInOrder DEF Stop, Increasing
  <2>. QED
    BY <1>2, <2>1 DEF InOrder, Stop, Increasing
<1>3. CASE Stop(file)
  BY <1>1, <1>2, <1>3 DEF InOrder
<1>. DEFINE written == IF pc = "save" THEN rest ELSE Trimmed(Append(file, collected))
<1>4. ASSUME pc \in {"save", "enqueue"}, NEW k \in 0 .. Len(written),
             Stop(SubSeq(written, 1, k))
      PROVE  InOrder'
  <2>1. /\ written \in Seq(Beats) /\ Increasing(written)
        /\ \A n \in ToSet(written) : n <= collected
    <3>1. CASE pc = "save"
      BY <1>1, <3>1 DEF InOrder
    <3>2. CASE pc = "enqueue"
      <4>1. collected \in Beats /\ \A n \in ToSet(file) : n < collected
        BY <1>1, <3>2 DEF Kept, InHandFits, InOrder, TypeOK, Beats
      <4>2. /\ Append(file, collected) \in Seq(Beats) /\ Increasing(Append(file, collected))
            /\ ToSet(Append(file, collected)) = ToSet(file) \cup {collected}
        BY <1>1, <4>1, AppendEntries, AppendInOrder
      <4>3. /\ Trimmed(Append(file, collected)) \in Seq(Beats)
            /\ Increasing(Trimmed(Append(file, collected)))
            /\ ToSet(Trimmed(Append(file, collected))) \subseteq ToSet(file) \cup {collected}
        BY <4>2, TrimmedTyped, TrimmedInOrder
      <4>. QED
        BY <1>1, <3>2, <4>1, <4>3
    <3>. QED
      BY <1>4, <3>1, <3>2
  <2>. HIDE DEF written
  <2>2. Len(written) \in Nat
    BY <2>1, LenProperties
  <2>3. 1 \in 1 .. Len(written) + 1 /\ k \in 0 .. Len(written) /\ 1 <= k + 1
    BY <1>4, <2>2
  <2>4. /\ Increasing(SubSeq(written, 1, k))
        /\ ToSet(SubSeq(written, 1, k)) \subseteq ToSet(written)
    BY <2>1, <2>3, PartInOrder
  <2>. QED
    BY <1>2, <1>4, <2>1, <2>4
<1>. QED
  BY <1>3, <1>4 DEF Crash

\* The queue is always replayed oldest first and before anything newer: no
\* crash, cut write, cap or replay ever puts an older heartbeat behind a newer
\* one. So the entries too old to be sent are its beginning, wherever the
\* clock stands, and a flush can always start. (agent 1149-1170, 1174-1194)
THEOREM ReplayedInOrder ==
  Spec => [](InOrder /\ \E k \in 0 .. Len(file) : FlushStart(k))
<1>1. Init => Kept /\ InOrder
  <2>1. Init => InOrder
    BY EmptyInOrder DEF Init, InOrder
  <2>. QED
    BY <2>1, InitKept
<1>2. Kept /\ InOrder /\ [Next]_vars => InOrder'
  <2>1. ASSUME InOrder, FailToLoad \/ StartService \/ HeartbeatsAge \/ ServerReplaced
                          \/ HubChanges \/ UNCHANGED vars
        PROVE  InOrder'
    BY <2>1 DEF InOrder, Increasing, FailToLoad, StartService, HeartbeatsAge,
       ServerReplaced, HubChanges, vars
  <2>. QED
    BY <2>1, FlushOrdered, LiveOrdered, CrashOrdered DEF Next, Loop
<1>3. Kept /\ [Next]_vars => Kept'
  BY NextKept
<1>4. Kept /\ InOrder => InOrder /\ \E k \in 0 .. Len(file) : FlushStart(k)
  BY OldOnesFirst DEF Kept, InOrder
<1>. QED
  BY <1>1, <1>2, <1>3, <1>4, PTL DEF Spec
=============================================================================
