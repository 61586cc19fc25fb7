-------------------------- MODULE NativePoolProofs --------------------------
(***************************************************************************)
(* Proofs about NativePool for every number of leases, clients, slots,     *)
(* lanes, generations and timeouts.  The admission half (semaphore, queue, *)
(* reservations) and the client half (map, retirement, closing) hardly     *)
(* touch each other and are proved by two inductive invariants.            *)
(***************************************************************************)
EXTENDS NativePool, FiniteInduction

-----------------------------------------------------------------------------
(* The admission half.                                                     *)

Queueing(q, g, p) ==
  \A i \in 1..Len(q) :
    /\ p[q[i]] = "waiting" /\ q[i] \notin g
    /\ \A j \in 1..Len(q) : q[j] = q[i] => j = i

AdmissionType ==
  /\ free \in Nat
  /\ queue \in Seq(Lease)
  /\ granted \subseteq Lease
  /\ reservedCount \in Nat
  /\ reserved \subseteq Lease
  /\ admitted \subseteq Lease
  /\ pc \in [Lease -> Stage]

AdmissionInv ==
  /\ AdmissionType
  /\ free + Cardinality(granted) + Cardinality(admitted) = MaxActive
  /\ reservedCount = Cardinality(reserved)
  /\ reservedCount <= MaxActive + MaxWaiters
  /\ \A l \in Lease :
       /\ l \in granted => pc[l] = "waiting"
       /\ l \in admitted => l \in reserved /\ pc[l] # "waiting"
       /\ pc[l] \in {"idle", "leased"} => l \notin reserved
       /\ pc[l] \in {"built", "waiting", "refreshing", "sending"} => l \in reserved
  /\ Queueing(queue, granted, pc)

(* Acquire and RefreshAndSend move only their own lease.                   *)
LEMMA AcquireStage ==
  ASSUME NEW l, NEW p, NEW next, Acquire(l, p, next)
  PROVE  Goto(l, next) \/ Goto(l, "failed")
BY DEF Acquire

LEMMA SendStage ==
  ASSUME NEW l, NEW p, RefreshAndSend(l, p)
  PROVE  \E s \in {"sending", "refreshing", "failed"} : Goto(l, s)
<1>1. CASE Goto(l, "sending")  BY <1>1
<1>2. CASE Goto(l, "refreshing")  BY <1>2
<1>3. CASE \E q : Acquire(l, q, "sending")
  BY <1>3, AcquireStage
<1>4. QED  BY <1>1, <1>2, <1>3 DEF RefreshAndSend

(* Adding to and taking from a set of leases counts.                       *)
LEMMA CountAdd ==
  ASSUME NEW S \in SUBSET Lease, NEW l \in Lease, l \notin S
  PROVE  Cardinality(S \cup {l}) = Cardinality(S) + 1 /\ Cardinality(S) \in Nat
BY ConstantsAssumption, FS_Subset, FS_AddElement, FS_CardinalityType

LEMMA CountRemove ==
  ASSUME NEW S \in SUBSET Lease, NEW l \in Lease, l \in S
  PROVE  /\ Cardinality(S \ {l}) = Cardinality(S) - 1
         /\ Cardinality(S) \in Nat \ {0}
<1>1. IsFiniteSet(S)  BY ConstantsAssumption, FS_Subset
<1>2. Cardinality(S \ {l}) = Cardinality(S) - 1  BY <1>1, FS_RemoveElement
<1>3. IsFiniteSet(S \ {l})  BY <1>1, FS_RemoveElement
<1>4. Cardinality(S) \in Nat /\ Cardinality(S \ {l}) \in Nat
  BY <1>1, <1>3, FS_CardinalityType
<1>5. QED  BY <1>2, <1>4

LEMMA CountNat ==
  ASSUME NEW S \in SUBSET Lease
  PROVE  Cardinality(S) \in Nat
BY ConstantsAssumption, FS_Subset, FS_CardinalityType

(* The queue after one waiter left it from the front or from the middle.   *)
LEMMA QueueTail ==
  ASSUME NEW q \in Seq(Lease), NEW g, NEW p, Queueing(q, g, p), q # <<>>
  PROVE  /\ Head(q) \in Lease /\ p[Head(q)] = "waiting" /\ Head(q) \notin g
         /\ Tail(q) \in Seq(Lease)
         /\ Queueing(Tail(q), g \cup {Head(q)}, p)
BY DEF Queueing

LEMMA QueueWithout ==
  ASSUME NEW q \in Seq(Lease), NEW g, NEW p, Queueing(q, g, p),
         NEW i \in 1..Len(q)
  PROVE  /\ Without(q, i) \in Seq(Lease)
         /\ Queueing(Without(q, i), g, p)
         /\ \A j \in 1..Len(Without(q, i)) : Without(q, i)[j] # q[i]
<1> DEFINE A == SubSeq(q, 1, i - 1)
           B == SubSeq(q, i + 1, Len(q))
<1>1. /\ A \in Seq(Lease) /\ Len(A) = i - 1
      /\ \A j \in 1..(i - 1) : A[j] = q[j]
  OBVIOUS
<1>2. /\ B \in Seq(Lease) /\ Len(B) = Len(q) - i
      /\ \A j \in 1..(Len(q) - i) : B[j] = q[i + j]
  OBVIOUS
<1> HIDE DEF A, B
<1>3. /\ A \o B \in Seq(Lease) /\ Len(A \o B) = Len(q) - 1
      /\ \A j \in 1..(Len(q) - 1) :
           (A \o B)[j] = IF j < i THEN q[j] ELSE q[j + 1]
  <2>1. A \o B \in Seq(Lease) /\ Len(A \o B) = Len(q) - 1
    <3>1. A \in Seq(Lease) /\ B \in Seq(Lease)
      BY <1>1, <1>2
    <3>2. A \o B \in Seq(Lease) /\ Len(A \o B) = Len(A) + Len(B)
      BY <3>1
    <3>3. Len(A) = i - 1 /\ Len(B) = Len(q) - i /\ Len(q) \in Nat
      BY <1>1, <1>2
    <3>4. QED
      BY <3>2, <3>3
  <2>2. ASSUME NEW j \in 1..(Len(q) - 1), j < i
        PROVE  (A \o B)[j] = q[j]
    <3>1. j \in 1..Len(A)
      BY <1>1, <2>2
    <3>2. (A \o B)[j] = A[j]
      BY <1>1, <1>2, <3>1
    <3>3. QED
      BY <1>1, <2>2, <3>2
  <2>3. ASSUME NEW j \in 1..(Len(q) - 1), ~(j < i)
        PROVE  (A \o B)[j] = q[j + 1]
    <3>1. j \in (Len(A) + 1)..(Len(A) + Len(B)) /\ j - Len(A) = j - (i - 1)
      BY <1>1, <1>2, <2>3
    <3>2. (A \o B)[j] = B[j - (i - 1)]
      BY <1>1, <1>2, <3>1, SMTT(60)
    <3>3. j - (i - 1) \in 1..(Len(q) - i) /\ i + (j - (i - 1)) = j + 1
      BY <2>3
    <3>4. QED
      BY <1>2, <3>2, <3>3
  <2>4. QED
    BY <2>1, <2>2, <2>3
<1>4. Without(q, i) = A \o B  BY DEF Without, A, B
<1> DEFINE at(j) == IF j < i THEN j ELSE j + 1
<1>5. /\ Without(q, i) \in Seq(Lease)
      /\ \A j \in 1..Len(Without(q, i)) :
           /\ at(j) \in 1..Len(q) /\ at(j) # i
           /\ Without(q, i)[j] = q[at(j)]
           /\ \A k \in 1..Len(Without(q, i)) : at(j) = at(k) => j = k
  BY <1>3, <1>4, SMTT(60)
<1> HIDE DEF at
<1>6. \A j \in 1..Len(Without(q, i)) :
        /\ p[Without(q, i)[j]] = "waiting" /\ Without(q, i)[j] \notin g
        /\ Without(q, i)[j] # q[i]
  BY <1>5 DEF Queueing
<1>7. \A j, k \in 1..Len(Without(q, i)) :
        Without(q, i)[j] = Without(q, i)[k] => j = k
  BY <1>5, SMTT(60) DEF Queueing
<1>8. QED  BY <1>5, <1>6, <1>7 DEF Queueing

LEMMA QueueingOthers ==
  ASSUME NEW q \in Seq(Lease), NEW g, NEW h, h \subseteq g, NEW p, NEW l, NEW s,
         p \in [Lease -> Stage], Queueing(q, g, p),
         \A i \in 1..Len(q) : q[i] # l
  PROVE  Queueing(q, h, [p EXCEPT ![l] = s])
<1>1. \A i \in 1..Len(q) : q[i] \in Lease  OBVIOUS
<1>2. QED  BY <1>1 DEF Queueing

(* A slot that comes back is counted once more, free or handed over.       *)
LEMMA SlotFreedCounts ==
  ASSUME NEW q \in Seq(Lease), NEW g \in SUBSET Lease, free \in Nat,
         Queueing(q, g, pc), SlotFreed(q, g)
  PROVE  /\ free' \in Nat /\ queue' \in Seq(Lease) /\ granted' \subseteq Lease
         /\ free' + Cardinality(granted') = free + Cardinality(g) + 1
         /\ Queueing(queue', granted', pc)
         /\ \A l \in granted' : l \in g \/ pc[l] = "waiting"
         /\ \A i \in 1..Len(queue') : \E j \in 1..Len(q) : queue'[i] = q[j]
<1>1. CASE q # <<>>
  <2>1. /\ queue' = Tail(q) /\ granted' = g \cup {Head(q)} /\ free' = free
    BY <1>1 DEF SlotFreed
  <2>2. /\ Head(q) \in Lease /\ pc[Head(q)] = "waiting" /\ Head(q) \notin g
        /\ Tail(q) \in Seq(Lease) /\ Queueing(Tail(q), g \cup {Head(q)}, pc)
    BY <1>1, QueueTail
  <2>3. /\ Cardinality(g \cup {Head(q)}) = Cardinality(g) + 1
        /\ Cardinality(g) \in Nat
    BY <2>2, CountAdd
  <2>4. \A i \in 1..Len(Tail(q)) : Tail(q)[i] = q[i + 1] /\ i + 1 \in 1..Len(q)
    BY <1>1
  <2>5. QED  BY <2>1, <2>2, <2>3, <2>4, SMTT(60)
<1>2. CASE q = <<>>
  <2>1. /\ queue' = q /\ granted' = g /\ free' = free + 1
    BY <1>2 DEF SlotFreed
  <2>2. Cardinality(g) \in Nat  BY CountNat
  <2>3. QED  BY <2>1, <2>2
<1>3. QED  BY <1>1, <1>2

Outside == {"idle", "leased"}
Inside == {"built", "waiting", "refreshing", "sending"}

LEMMA QuietStep ==
  ASSUME AdmissionInv, NEW l \in Lease, NEW s \in Stage, Goto(l, s),
         UNCHANGED <<semVars, resVars, admitted>>,
         pc[l] # "waiting", s # "waiting",
         s \in Outside => l \notin reserved,
         s \in Inside => l \in reserved
  PROVE  AdmissionInv'
<1> USE DEF AdmissionInv, AdmissionType
<1>1. \A i \in 1..Len(queue) : queue[i] # l  BY DEF Queueing
<1>2. Queueing(queue, granted, pc')
  BY <1>1, QueueingOthers DEF Goto
<1>3. /\ free' = free /\ queue' = queue /\ granted' = granted
      /\ reservedCount' = reservedCount /\ reserved' = reserved
      /\ admitted' = admitted
  BY DEF semVars, resVars
<1>4. pc' \in [Lease -> Stage] /\ \A m \in Lease : pc'[m] = IF m = l THEN s ELSE pc[m]
  BY DEF Goto
<1>5. QED  BY <1>2, <1>3, <1>4 DEF Outside, Inside

LEMMA BuildAdmission ==
  ASSUME AdmissionInv, NEW l \in Lease, Build(l)
  PROVE  AdmissionInv' /\ l \notin reserved
<1> USE DEF AdmissionInv, AdmissionType
<1>1. PICK s \in {"built", "failed"} : Goto(l, s)
  BY AcquireStage DEF Build
<1>2. pc' \in [Lease -> Stage] /\ \A m \in Lease : pc'[m] = IF m = l THEN s ELSE pc[m]
  BY <1>1 DEF Goto, Stage
<1>3. l \notin reserved /\ pc[l] = "leased"  BY DEF Build
<1>4. /\ reserved' = reserved \cup {l} /\ reservedCount' = reservedCount + 1
      /\ reservedCount < MaxActive + MaxWaiters
      /\ free' = free /\ queue' = queue /\ granted' = granted
      /\ admitted' = admitted
  BY ConstantsAssumption DEF Build, Full, AdmissionType, semVars
<1>5. Cardinality(reserved') = Cardinality(reserved) + 1
  BY <1>3, <1>4, CountAdd
<1>6. \A i \in 1..Len(queue) : queue[i] # l  BY <1>3 DEF Queueing
<1>7. Queueing(queue, granted, pc')
  BY <1>1, <1>6, QueueingOthers DEF Goto
<1>8. QED  BY <1>1, <1>2, <1>3, <1>4, <1>5, <1>7, ConstantsAssumption

LEMMA SendAdmission ==
  ASSUME AdmissionInv, NEW l \in Lease, Send(l)
  PROVE  /\ AdmissionInv'
         /\ l \in reserved
         /\ UNCHANGED <<reserved, reservedCount>>
         /\ \/ UNCHANGED admitted
            \/ /\ l \notin admitted /\ admitted' = admitted \cup {l}
               /\ Cardinality(admitted) < MaxActive
<1> USE DEF AdmissionInv, AdmissionType
<1>1. PICK s \in {"sending", "refreshing", "failed"} : Goto(l, s)
  BY SendStage DEF Send
<1>2. pc' \in [Lease -> Stage] /\ \A m \in Lease : pc'[m] = IF m = l THEN s ELSE pc[m]
  BY <1>1 DEF Goto, Stage
<1>3. /\ pc[l] = "built" /\ l \in reserved
      /\ UNCHANGED <<queue, granted, reserved, reservedCount>>
  BY DEF Send, resVars
<1>4. \A i \in 1..Len(queue) : queue[i] # l  BY <1>3 DEF Queueing
<1>5. Queueing(queue, granted, pc')
  BY <1>1, <1>4, QueueingOthers DEF Goto
<1>6. CASE l \in admitted /\ UNCHANGED <<free, admitted>>
  BY <1>2, <1>3, <1>5, <1>6
<1>7. CASE /\ l \notin admitted /\ ~Locked
           /\ free' = free - 1
           /\ admitted' = admitted \cup {l}
  <2>1. free # 0  BY <1>7 DEF Locked
  <2>2. /\ Cardinality(admitted') = Cardinality(admitted) + 1
        /\ Cardinality(admitted) \in Nat /\ Cardinality(granted) \in Nat
    BY <1>7, CountAdd, CountNat
  <2>3. free' \in Nat /\ Cardinality(admitted) < MaxActive
    BY <1>7, <2>1, <2>2, ConstantsAssumption
  <2>4. QED  BY <1>2, <1>3, <1>5, <1>7, <2>2, <2>3, SMTT(60)
<1>8. QED  BY <1>6, <1>7 DEF Send

LEMMA SendWaitsAdmission ==
  ASSUME AdmissionInv, NEW l \in Lease, SendWaits(l)
  PROVE  AdmissionInv' /\ UNCHANGED <<reserved, reservedCount, admitted>>
<1> USE DEF AdmissionInv, AdmissionType
<1>1. /\ pc[l] = "built" /\ l \in reserved /\ l \notin admitted /\ l \notin granted
      /\ queue' = Append(queue, l) /\ pc' = [pc EXCEPT ![l] = "waiting"]
      /\ UNCHANGED <<free, granted, reserved, reservedCount, admitted>>
  BY DEF SendWaits, resVars, Goto
<1>2. \A i \in 1..Len(queue) : queue[i] \in Lease /\ queue[i] # l
  BY <1>1 DEF Queueing
<1>3. queue' \in Seq(Lease) /\ Queueing(queue', granted, pc')
  BY <1>1, <1>2 DEF Queueing
<1>4. pc' \in [Lease -> Stage]  BY <1>1 DEF Stage
<1>5. QED  BY <1>1, <1>3, <1>4

LEMMA ResumeAdmission ==
  ASSUME AdmissionInv, NEW l \in Lease, Resume(l)
  PROVE  /\ AdmissionInv'
         /\ l \in reserved \ admitted
         /\ UNCHANGED <<reserved, reservedCount>>
         /\ admitted' = admitted \cup {l}
         /\ Cardinality(admitted) < MaxActive
<1> USE DEF AdmissionInv, AdmissionType
<1>1. PICK s \in {"sending", "refreshing", "failed"} : Goto(l, s)
  BY SendStage DEF Resume
<1>2. pc' \in [Lease -> Stage] /\ \A m \in Lease : pc'[m] = IF m = l THEN s ELSE pc[m]
  BY <1>1 DEF Goto, Stage
<1>3. /\ pc[l] = "waiting" /\ l \in granted /\ l \in reserved /\ l \notin admitted
      /\ admitted' = admitted \cup {l}
      /\ UNCHANGED <<reserved, reservedCount>>
  BY DEF Resume, resVars
<1>4. \A i \in 1..Len(queue) : queue[i] # l  BY <1>3 DEF Queueing
<1>5. /\ Cardinality(admitted') = Cardinality(admitted) + 1
      /\ Cardinality(admitted) \in Nat
  BY <1>3, CountAdd
<1>6. /\ Cardinality(granted \ {l}) = Cardinality(granted) - 1
      /\ Cardinality(granted) \in Nat \ {0}
  BY <1>3, CountRemove
<1>7. Cardinality(admitted) < MaxActive  BY <1>5, <1>6, ConstantsAssumption, SMTT(60)
<1>8. CASE free > 0 /\ queue # <<>>
  <2>1. /\ queue' = Tail(queue) /\ free' = free - 1
        /\ granted' = (granted \ {l}) \cup {Head(queue)}
    BY <1>8 DEF Resume
  <2>2. /\ Head(queue) \in Lease /\ pc[Head(queue)] = "waiting"
        /\ Head(queue) \notin granted
        /\ Tail(queue) \in Seq(Lease)
        /\ Queueing(Tail(queue), granted \cup {Head(queue)}, pc)
    BY <1>8, QueueTail
  <2>3. Cardinality(granted') = Cardinality(granted \ {l}) + 1
    BY <2>1, <2>2, CountAdd
  <2>4. Head(queue) # l  BY <1>3, <2>2
  <2>5. \A i \in 1..Len(Tail(queue)) : Tail(queue)[i] # l
    <3>1. \A i \in 1..Len(Tail(queue)) :
            Tail(queue)[i] = queue[i + 1] /\ i + 1 \in 1..Len(queue)
      BY <1>8
    <3>2. QED  BY <1>4, <3>1
  <2>6. Queueing(Tail(queue), granted', pc')
    BY <1>1, <2>1, <2>2, <2>5, QueueingOthers DEF Goto
  <2>7. free' \in Nat /\ granted' \subseteq Lease  BY <1>8, <2>1, <2>2
  <2>8. free' + Cardinality(granted') + Cardinality(admitted') = MaxActive
    <3>1. /\ Cardinality(granted') = Cardinality(granted)
          /\ Cardinality(granted) \in Nat
      BY <1>6, <2>3
    <3>2. QED  BY <1>5, <2>1, <3>1
  <2>9. \A m \in Lease :
          /\ m \in granted' => pc'[m] = "waiting"
          /\ m \in admitted' => m \in reserved /\ pc'[m] # "waiting"
          /\ pc'[m] \in {"idle", "leased"} => m \notin reserved
          /\ pc'[m] \in {"built", "waiting", "refreshing", "sending"} => m \in reserved
    BY <1>2, <1>3, <2>1, <2>2, <2>4
  <2>10. QED  BY <1>2, <1>3, <1>7, <2>1, <2>2, <2>6, <2>7, <2>8, <2>9
<1>9. CASE ~(free > 0 /\ queue # <<>>)
  <2>1. UNCHANGED <<queue, free>> /\ granted' = granted \ {l}
    BY <1>9 DEF Resume
  <2>2. Queueing(queue, granted', pc')
    BY <1>1, <1>4, <2>1, QueueingOthers DEF Goto
  <2>3. free' + Cardinality(granted') + Cardinality(admitted') = MaxActive
    BY <1>5, <1>6, <2>1
  <2>4. \A m \in Lease :
          /\ m \in granted' => pc'[m] = "waiting"
          /\ m \in admitted' => m \in reserved /\ pc'[m] # "waiting"
          /\ pc'[m] \in {"idle", "leased"} => m \notin reserved
          /\ pc'[m] \in {"built", "waiting", "refreshing", "sending"} => m \in reserved
    BY <1>2, <1>3, <2>1
  <2>5. QED  BY <1>2, <1>3, <1>7, <2>1, <2>2, <2>3, <2>4
<1>10. QED  BY <1>8, <1>9

LEMMA GiveUpAdmission ==
  ASSUME AdmissionInv, NEW l \in Lease, GiveUp(l)
  PROVE  AdmissionInv' /\ UNCHANGED <<reserved, reservedCount, admitted>>
<1> USE DEF AdmissionInv, AdmissionType
<1>1. /\ pc[l] = "waiting" /\ l \in reserved /\ l \notin admitted
      /\ Goto(l, "failed")
      /\ UNCHANGED <<reserved, reservedCount, admitted>>
  BY DEF GiveUp, resVars
<1>2. /\ pc' \in [Lease -> Stage]
      /\ \A m \in Lease : pc'[m] = IF m = l THEN "failed" ELSE pc[m]
  BY <1>1 DEF Goto, Stage
<1>3. CASE l \in granted /\ SlotFreed(queue, granted \ {l})
  <2>1. Queueing(queue, granted \ {l}, pc)  BY DEF Queueing
  <2>2. /\ free' \in Nat /\ queue' \in Seq(Lease) /\ granted' \subseteq Lease
        /\ free' + Cardinality(granted') = free + Cardinality(granted \ {l}) + 1
        /\ Queueing(queue', granted', pc)
        /\ \A m \in granted' : m \in granted \ {l} \/ pc[m] = "waiting"
        /\ \A i \in 1..Len(queue') : \E j \in 1..Len(queue) : queue'[i] = queue[j]
    BY <1>3, <2>1, SlotFreedCounts
  <2>3. /\ Cardinality(granted \ {l}) = Cardinality(granted) - 1
        /\ Cardinality(granted) \in Nat /\ Cardinality(admitted) \in Nat
        /\ Cardinality(granted') \in Nat
    BY <1>3, <2>2, CountRemove, CountNat
  <2>4. \A i \in 1..Len(queue') : queue'[i] # l
    BY <1>3, <2>2 DEF Queueing
  <2>5. l \notin granted'
    <3>1. CASE queue # <<>>
      <4>1. granted' = (granted \ {l}) \cup {Head(queue)}
        BY <1>3, <3>1 DEF SlotFreed
      <4>2. Head(queue) \notin granted
        BY <3>1, QueueTail
      <4>3. QED
        BY <1>3, <4>1, <4>2
    <3>2. CASE queue = <<>>  BY <1>3, <3>2 DEF SlotFreed
    <3>3. QED  BY <3>1, <3>2
  <2>6. Queueing(queue', granted', pc')
    BY <1>1, <2>2, <2>4, QueueingOthers DEF Goto
  <2>7. QED  BY <1>1, <1>2, <2>2, <2>3, <2>5, <2>6, SMTT(60)
<1>4. ASSUME NEW i \in 1..Len(queue), queue[i] = l,
             queue' = Without(queue, i), UNCHANGED <<free, granted>>
      PROVE  AdmissionInv'
  <2>1. /\ queue' \in Seq(Lease) /\ Queueing(queue', granted, pc)
        /\ \A j \in 1..Len(queue') : queue'[j] # l
    BY <1>4, QueueWithout
  <2>2. l \notin granted  BY <1>4 DEF Queueing
  <2>3. Queueing(queue', granted, pc')
    BY <1>1, <2>1, QueueingOthers DEF Goto
  <2>4. QED  BY <1>1, <1>2, <1>4, <2>1, <2>2, <2>3
<1>5. QED  BY <1>1, <1>3, <1>4 DEF GiveUp

(* The finally of aclose: what a lease had goes back at once.              *)
LEMMA GiveBackAdmission ==
  ASSUME AdmissionInv, NEW l \in Lease, GiveBack(l), pc[l] # "waiting"
  PROVE  /\ AdmissionInv'
         /\ reserved' = reserved \ {l} /\ admitted' = admitted \ {l}
<1> USE DEF AdmissionInv, AdmissionType
<1>1. /\ admitted' = admitted \ {l} /\ reserved' = reserved \ {l}
      /\ reservedCount' = reservedCount - (IF l \in reserved THEN 1 ELSE 0)
      /\ Goto(l, "idle")
  BY DEF GiveBack
<1>2. /\ pc' \in [Lease -> Stage]
      /\ \A m \in Lease : pc'[m] = IF m = l THEN "idle" ELSE pc[m]
  BY <1>1 DEF Goto, Stage
<1>3. /\ reservedCount' \in Nat /\ reservedCount' = Cardinality(reserved')
      /\ reservedCount' <= reservedCount
  <2>1. CASE l \in reserved
    BY <1>1, <2>1, CountRemove
  <2>2. CASE l \notin reserved
    <3>1. reserved' = reserved  BY <1>1, <2>2
    <3>2. reservedCount' = reservedCount  BY <1>1, <2>2
    <3>3. QED  BY <3>1, <3>2
  <2>3. QED  BY <2>1, <2>2
<1>4. \A i \in 1..Len(queue) : queue[i] # l  BY DEF Queueing
<1>5. /\ free' \in Nat /\ queue' \in Seq(Lease) /\ granted' \subseteq Lease
      /\ free' + Cardinality(granted') + Cardinality(admitted') = MaxActive
      /\ Queueing(queue', granted', pc)
      /\ \A m \in granted' : pc[m] = "waiting"
      /\ \A i \in 1..Len(queue') : queue'[i] # l
  <2>1. CASE l \in admitted
    <3>1. SlotFreed(queue, granted)  BY <2>1 DEF GiveBack
    <3>2. /\ free' \in Nat /\ queue' \in Seq(Lease) /\ granted' \subseteq Lease
          /\ free' + Cardinality(granted') = free + Cardinality(granted) + 1
          /\ Queueing(queue', granted', pc)
          /\ \A m \in granted' : m \in granted \/ pc[m] = "waiting"
          /\ \A i \in 1..Len(queue') : \E j \in 1..Len(queue) : queue'[i] = queue[j]
      BY <3>1, SlotFreedCounts
    <3>3. /\ Cardinality(admitted') = Cardinality(admitted) - 1
          /\ Cardinality(admitted) \in Nat /\ Cardinality(granted) \in Nat
          /\ Cardinality(granted') \in Nat
      BY <1>1, <2>1, <3>2, CountRemove, CountNat
    <3>4. free' + Cardinality(granted') + Cardinality(admitted') = MaxActive
      BY <3>2, <3>3, SMTT(60)
    <3>5. QED  BY <1>4, <3>2, <3>4, ZenonT(60)
  <2>2. CASE l \notin admitted
    <3>1. /\ UNCHANGED <<free, queue, granted>> /\ admitted' = admitted
      BY <1>1, <2>2 DEF GiveBack, semVars
    <3>2. QED  BY <1>4, <3>1
  <2>3. QED  BY <2>1, <2>2
<1>6. Queueing(queue', granted', pc')
  BY <1>1, <1>5, QueueingOthers DEF Goto
<1>7. l \notin granted'  BY <1>5
<1>8. \A m \in Lease :
        /\ m \in granted' => pc'[m] = "waiting"
        /\ m \in admitted' => m \in reserved' /\ pc'[m] # "waiting"
        /\ pc'[m] \in {"idle", "leased"} => m \notin reserved'
        /\ pc'[m] \in {"built", "waiting", "refreshing", "sending"} => m \in reserved'
  BY <1>1, <1>2, <1>5, <1>7
<1>9. QED
  BY <1>1, <1>2, <1>3, <1>5, <1>6, <1>8, ConstantsAssumption, SMTT(60)

-----------------------------------------------------------------------------
(* Every step keeps the admission invariant and is a step of bounded       *)
(* admission.                                                              *)

LEMMA QuietSteps ==
  ASSUME AdmissionInv, NEW l \in Lease,
         \/ \E r \in Request : Open(l, r)
         \/ BuildRefused(l) \/ Refreshed(l) \/ RefreshFails(l)
         \/ PoolTimeout(l) \/ ConnectFails(l) \/ Fails(l) \/ SendReturns(l)
         \/ AcloseClient(l)
  PROVE  AdmissionInv' /\ UNCHANGED <<semVars, resVars, admitted>>
<1>1. UNCHANGED <<semVars, resVars, admitted>>
  BY DEF Open, BuildRefused, Refreshed, RefreshFails, PoolTimeout,
         ConnectFails, Fails, SendReturns, AcloseClient
<1>2. ASSUME NEW s \in Stage, Goto(l, s), pc[l] # "waiting", s # "waiting",
             s \in Outside => pc[l] \in Outside,
             s \in Inside => pc[l] \in Inside
      PROVE  AdmissionInv'
  BY <1>1, <1>2, QuietStep DEF AdmissionInv, Outside, Inside
<1>3. CASE \E r \in Request : Open(l, r)
  BY <1>2, <1>3 DEF Open, Stage, Outside, Inside
<1>4. CASE BuildRefused(l)
  BY <1>2, <1>4 DEF BuildRefused, Stage, Outside, Inside
<1>5. CASE Refreshed(l)
  BY <1>2, <1>5, AcquireStage DEF Refreshed, Stage, Outside, Inside
<1>6. CASE RefreshFails(l)
  BY <1>2, <1>6 DEF RefreshFails, Stage, Outside, Inside
<1>7. CASE PoolTimeout(l)
  <2>1. \E s \in {"sending", "refreshing", "failed"} : Goto(l, s)
    BY <1>7, SendStage DEF PoolTimeout
  <2>2. QED  BY <1>2, <1>7, <2>1 DEF PoolTimeout, Stage, Outside, Inside
<1>8. CASE ConnectFails(l)
  BY <1>2, <1>8 DEF ConnectFails, Stage, Outside, Inside
<1>9. CASE Fails(l)
  BY <1>2, <1>9 DEF Fails, Stage, Outside, Inside
<1>10. CASE SendReturns(l)
  BY <1>2, <1>10 DEF SendReturns, Stage, Outside, Inside
<1>11. CASE AcloseClient(l)
  BY <1>2, <1>11 DEF AcloseClient, Stage, Outside, Inside
<1>12. QED
  BY <1>1, <1>3, <1>4, <1>5, <1>6, <1>7, <1>8, <1>9, <1>10, <1>11

LEMMA PoolSteps ==
  ASSUME AdmissionInv,
         \/ \E c \in Client : CleanupEnds(c)
         \/ PoolingOff \/ ShutDown \/ Gathered \/ UNCHANGED vars
  PROVE  AdmissionInv' /\ UNCHANGED <<reserved, admitted>>
<1>1. UNCHANGED <<free, queue, granted, reservedCount, reserved, admitted, pc>>
  BY DEF CleanupEnds, PoolingOff, ShutDown, Gathered, vars, semVars, resVars,
         leaseVars
<1>2. QED  BY <1>1 DEF AdmissionInv, AdmissionType, Queueing

LEMMA SameCardinality == \A S : Admission!Cardinality(S) = Cardinality(S)
BY Zenon DEF Admission!Cardinality, Cardinality

LEMMA AdmissionStep ==
  ASSUME AdmissionInv, [Next]_vars
  PROVE  AdmissionInv' /\ [Admission!Next]_<<reserved, admitted>>
<1> USE DEF Admission!Next, Admission!Enter, Admission!Work, Admission!Leave
<1>1. ASSUME NEW l \in Lease, Build(l)
      PROVE  AdmissionInv' /\ Admission!Enter(l)
  <2>1. /\ l \notin reserved /\ reserved' = reserved \cup {l}
        /\ ~Full /\ admitted' = admitted
    BY <1>1 DEF Build, AdmissionInv
  <2>2. Cardinality(reserved) < MaxActive + MaxWaiters
    BY <2>1, ConstantsAssumption DEF Full, AdmissionInv, AdmissionType
  <2>3. QED  BY <1>1, <2>1, <2>2, BuildAdmission, SameCardinality
<1>2. ASSUME NEW l \in Lease, Send(l) \/ Resume(l)
      PROVE  AdmissionInv' /\ (Admission!Work(l) \/ UNCHANGED <<reserved, admitted>>)
  BY <1>2, SendAdmission, ResumeAdmission, SameCardinality
<1>3. ASSUME NEW l \in Lease, SendWaits(l) \/ GiveUp(l)
      PROVE  AdmissionInv' /\ UNCHANGED <<reserved, admitted>>
  BY <1>3, SendWaitsAdmission, GiveUpAdmission
<1>4. ASSUME NEW l \in Lease, Aclose(l) \/ ClientClosed(l)
      PROVE  AdmissionInv' /\ (Admission!Leave(l) \/ UNCHANGED <<reserved, admitted>>)
  <2>1. GiveBack(l) /\ pc[l] # "waiting"  BY <1>4 DEF Aclose, ClientClosed
  <2>2. /\ AdmissionInv' /\ reserved' = reserved \ {l} /\ admitted' = admitted \ {l}
    BY <2>1, GiveBackAdmission
  <2>3. l \notin reserved => l \notin admitted  BY DEF AdmissionInv
  <2>4. QED  BY <2>2, <2>3
<1>5. ASSUME NEW l \in Lease,
             \/ \E r \in Request : Open(l, r)
             \/ BuildRefused(l) \/ Refreshed(l) \/ RefreshFails(l)
             \/ PoolTimeout(l) \/ ConnectFails(l) \/ Fails(l) \/ SendReturns(l)
             \/ AcloseClient(l)
      PROVE  AdmissionInv' /\ UNCHANGED <<reserved, admitted>>
  BY <1>5, QuietSteps DEF resVars
<1>6. QED  BY <1>1, <1>2, <1>3, <1>4, <1>5, PoolSteps DEF Next, OwnerStep

LEMMA AdmissionInit == Init => AdmissionInv
<1> SUFFICES ASSUME Init PROVE AdmissionInv  OBVIOUS
<1>1. Cardinality({}) = 0  BY FS_EmptySet
<1>2. Queueing(queue, granted, pc)  BY DEF Init, Queueing
<1>3. QED
  BY <1>1, <1>2, ConstantsAssumption DEF Init, AdmissionInv, AdmissionType, Stage

LEMMA AdmissionInvariant == Spec => []AdmissionInv
<1>1. AdmissionInv /\ [Next]_vars => AdmissionInv'  BY AdmissionStep
<1>2. QED  BY <1>1, AdmissionInit, PTL DEF Spec

(* No sequence of timeouts, cancellations, retries and closes loses or     *)
(* invents a slot or a reservation, however many leases and slots.         *)
THEOREM CapacityTheorem == Spec => []CapacityConserved
<1>1. AdmissionInv => CapacityConserved
  BY DEF AdmissionInv, CapacityConserved
<1>2. QED  BY <1>1, AdmissionInvariant, PTL

(* The pool implements bounded admission.                                  *)
THEOREM AdmissionRefinement == Spec => ImplementsAdmission
<1>1. Init => Admission!Init  BY DEF Init, Admission!Init
<1>2. AdmissionInv /\ [Next]_vars => [Admission!Next]_<<reserved, admitted>>
  BY AdmissionStep
<1>3. QED
  BY <1>1, <1>2, AdmissionInvariant, PTL DEF Spec, ImplementsAdmission, Admission!Spec

-----------------------------------------------------------------------------
(* The client half: what every method of the pool keeps, with h telling    *)
(* which client each lease holds.                                          *)

Holders(h, c) == {l \in Lease : h[l] = c}

HeldType(h) == h \in [Lease -> Client \cup {NoClient}]

Shape(p) ==
  /\ p \in PoolType
  /\ p.mapped \subseteq p.open \ p.retired
  /\ p.open \subseteq p.mapped \cup p.retired
  /\ p.open \cap p.closing = {}
  /\ p.tasks \subseteq p.closing
  /\ \A c \in p.open : p.key[c] \in Key
  /\ \A c \in p.mapped :
       /\ p.key[c].gen = p.gen
       /\ \A d \in p.mapped : p.key[d] = p.key[c] => d = c
  /\ \A c \in p.open \ p.mapped : p.active[c] # 0

Counted(p, h) == \A c \in Client : p.active[c] = Cardinality(Holders(h, c))

PoolInv(p, h) ==
  /\ HeldType(h) /\ Shape(p) /\ Counted(p, h)
  /\ \A l \in Lease : h[l] # NoClient => h[l] \in p.open

(* The lease-driven closes and the keys of open clients stay as they are.  *)
Keeps(p, q) ==
  /\ q.closing \ q.tasks = p.closing \ p.tasks
  /\ \A c \in p.open : q.key[c] = p.key[c]

LEMMA RetireShape ==
  ASSUME NEW p, Shape(p), NEW C \in SUBSET p.mapped
  PROVE  /\ Shape(Retire(p, C)) /\ Keeps(p, Retire(p, C))
         /\ Retire(p, C).mapped = p.mapped \ C
         /\ Retire(p, C).active = p.active
         /\ Retire(p, C).gen = p.gen
         /\ Retire(p, C).key = p.key
         /\ \A c \in p.open : p.active[c] # 0 => c \in Retire(p, C).open
         /\ C = {} => /\ Retire(p, C).tasks = p.tasks
                      /\ Retire(p, C).open = p.open
         /\ \A c \in p.mapped \ C : c \in Retire(p, C).open
         /\ \A c \in Unused(p) : c \in Unused(Retire(p, C))
<1> DEFINE q == Retire(p, C)
<1>1. /\ q.mapped = p.mapped \ C
      /\ q.before = {e \in p.before : e[1] \notin C /\ e[2] \notin C}
      /\ q.gen = p.gen /\ q.key = p.key /\ q.active = p.active
      /\ q.retired = p.retired \cup C
      /\ q.open = {c \in p.open : c \in C => p.active[c] # 0}
      /\ q.closing = p.closing \cup {c \in C : p.active[c] = 0}
      /\ q.tasks = p.tasks \cup {c \in C : p.active[c] = 0}
      /\ q \in PoolType
  BY DEF Retire, Shape, PoolType
<1> HIDE DEF q
<1>2. Shape(q)  BY <1>1 DEF Shape
<1>3. Keeps(p, q)  BY <1>1 DEF Shape, Keeps
<1>4. C = {} => q.tasks = p.tasks /\ q.open = p.open  BY <1>1
<1>5. /\ \A c \in p.open : p.active[c] # 0 => c \in q.open
      /\ \A c \in p.mapped \ C : c \in q.open
      /\ \A c \in Unused(p) : c \in Unused(q)
  BY <1>1 DEF Shape, Unused
<1>6. QED  BY <1>1, <1>2, <1>3, <1>4, <1>5 DEF q

LEMMA HolderCounts ==
  ASSUME NEW p, NEW h, PoolInv(p, h), NEW l \in Lease, h[l] # NoClient
  PROVE  /\ h[l] \in Client /\ h[l] \in p.open
         /\ p.active[h[l]] \in Nat \ {0}
         /\ h[l] \notin p.retired => h[l] \in p.mapped
<1>1. h[l] \in Client /\ h[l] \in p.open  BY DEF PoolInv, HeldType
<1>2. Holders(h, h[l]) \in SUBSET Lease /\ l \in Holders(h, h[l])
  BY DEF Holders
<1>3. Cardinality(Holders(h, h[l])) \in Nat \ {0}  BY <1>2, CountRemove
<1>4. QED  BY <1>1, <1>3 DEF PoolInv, Counted, Shape

LEMMA RetireInv ==
  ASSUME NEW p, NEW h, PoolInv(p, h), NEW C \in SUBSET p.mapped
  PROVE  PoolInv(Retire(p, C), h)
<1>1. \A l \in Lease : h[l] # NoClient => h[l] \in Retire(p, C).open
  BY HolderCounts, RetireShape DEF PoolInv
<1>2. QED  BY <1>1, RetireShape DEF PoolInv, Counted

LEMMA InvalidateInv ==
  ASSUME NEW p, NEW h, PoolInv(p, h), NEW l \in Lease, h[l] # NoClient
  PROVE  /\ PoolInv(Invalidate(p, h[l]), h)
         /\ Keeps(p, Invalidate(p, h[l]))
         /\ p.mapped = {} => Invalidate(p, h[l]) = p
         /\ h[l] \in Invalidate(p, h[l]).retired
<1>1. CASE h[l] \in p.retired
  BY <1>1 DEF Invalidate, Keeps
<1>2. CASE h[l] \notin p.retired
  <2>1. {h[l]} \in SUBSET p.mapped /\ Invalidate(p, h[l]) = Retire(p, {h[l]})
    BY <1>2, HolderCounts DEF Invalidate
  <2>2. h[l] \in Retire(p, {h[l]}).retired
    BY DEF Retire, PoolInv, Shape, PoolType
  <2>3. QED  BY <2>1, <2>2, RetireInv, RetireShape DEF PoolInv
<1>3. QED  BY <1>1, <1>2

LEMMA RotateInv ==
  ASSUME NEW p, NEW h, PoolInv(p, h), NEW g \in Gen
  PROVE  /\ PoolInv(Rotate(p, g), h) /\ Keeps(p, Rotate(p, g))
         /\ Rotate(p, g).gen = g /\ Rotate(p, g).key = p.key
         /\ \A c \in Unused(Rotate(p, g)) : c \notin p.open
<1>1. CASE g = p.gen
  BY <1>1 DEF Rotate, Keeps, Unused
<1>2. CASE g # p.gen
  <2> DEFINE q == Retire(p, p.mapped)
             t == [q EXCEPT !.gen = g]
  <2>1. PoolInv(q, h) /\ Keeps(p, q) /\ q.mapped = {} /\ q.key = p.key
    BY RetireInv, RetireShape DEF PoolInv
  <2> HIDE DEF q
  <2>2. /\ t \in PoolType /\ t.gen = g
        /\ t.mapped = q.mapped /\ t.key = q.key /\ t.active = q.active
        /\ t.retired = q.retired /\ t.open = q.open /\ t.closing = q.closing
        /\ t.tasks = q.tasks
    BY <2>1 DEF PoolInv, Shape, PoolType
  <2> HIDE DEF t
  <2>3. PoolInv(t, h) /\ Keeps(p, t)
    BY <2>1, <2>2 DEF PoolInv, Shape, Counted, Keeps
  <2>4. Rotate(p, g) = t  BY <1>2 DEF Rotate, RetireAll, q, t
  <2>5. \A c \in Unused(t) : c \notin p.open
    <3>1. \A c \in p.open : c \in t.open \/ c \in t.closing
      BY <2>2 DEF q, Retire, PoolInv, Shape, PoolType
    <3>2. QED  BY <3>1 DEF Unused
  <2>6. QED  BY <2>1, <2>2, <2>3, <2>4, <2>5
<1>3. QED  BY <1>1, <1>2

(* A lease takes up a client it finds open, or lets one go: the counter    *)
(* follows.                                                                *)
LEMMA HoldersTake ==
  ASSUME NEW h, HeldType(h), NEW l \in Lease, h[l] = NoClient, NEW c \in Client
  PROVE  LET t == [h EXCEPT ![l] = c] IN
         /\ HeldType(t)
         /\ Cardinality(Holders(t, c)) = Cardinality(Holders(h, c)) + 1
         /\ \A d \in Client : d # c => Holders(t, d) = Holders(h, d)
<1> DEFINE t == [h EXCEPT ![l] = c]
<1>1. l \notin Holders(h, c) /\ Holders(h, c) \in SUBSET Lease
  BY ConstantsAssumption DEF Holders
<1>2. Holders(t, c) = Holders(h, c) \cup {l}
  BY DEF Holders, HeldType
<1>3. \A d \in Client : d # c => Holders(t, d) = Holders(h, d)
  BY ConstantsAssumption DEF Holders, HeldType
<1>4. QED  BY <1>1, <1>2, <1>3, CountAdd DEF HeldType

LEMMA HoldersDrop ==
  ASSUME NEW h, HeldType(h), NEW l \in Lease, h[l] # NoClient
  PROVE  LET t == [h EXCEPT ![l] = NoClient] IN
         /\ HeldType(t)
         /\ Cardinality(Holders(t, h[l])) = Cardinality(Holders(h, h[l])) - 1
         /\ \A d \in Client : d # h[l] => Holders(t, d) = Holders(h, d)
         /\ Holders(t, h[l]) = {} => \A m \in Lease : t[m] # h[l]
<1> DEFINE t == [h EXCEPT ![l] = NoClient]
<1>1. l \in Holders(h, h[l]) /\ Holders(h, h[l]) \in SUBSET Lease
  BY DEF Holders
<1>2. Holders(t, h[l]) = Holders(h, h[l]) \ {l}
  BY ConstantsAssumption DEF Holders, HeldType
<1>3. \A d \in Client : d # h[l] => Holders(t, d) = Holders(h, d)
  BY ConstantsAssumption DEF Holders, HeldType
<1>4. QED  BY <1>1, <1>2, <1>3, CountRemove DEF HeldType, Holders

LEMMA OccupyInv ==
  ASSUME NEW p, NEW h, PoolInv(p, h), NEW l \in Lease, h[l] = NoClient,
         NEW c \in p.mapped
  PROVE  /\ PoolInv(Occupy(p, c), [h EXCEPT ![l] = c])
         /\ Keeps(p, Occupy(p, c))
         /\ Occupy(p, c).key = p.key /\ Occupy(p, c).open = p.open
         /\ Occupy(p, c).retired = p.retired
<1> DEFINE q == Occupy(p, c)
           t == [h EXCEPT ![l] = c]
<1>1. c \in Client /\ c \in p.open  BY DEF PoolInv, Shape, PoolType
<1>2. /\ q \in PoolType
      /\ q.mapped = p.mapped /\ q.gen = p.gen /\ q.key = p.key
      /\ q.retired = p.retired /\ q.open = p.open /\ q.closing = p.closing
      /\ q.tasks = p.tasks
      /\ q.active = [p.active EXCEPT ![c] = p.active[c] + 1]
  BY <1>1 DEF Occupy, PoolInv, Shape, PoolType
<1>3. p.active \in [Client -> Int]  BY DEF PoolInv, Shape, PoolType
<1> HIDE DEF q
<1>4. /\ HeldType(t)
      /\ Cardinality(Holders(t, c)) = Cardinality(Holders(h, c)) + 1
      /\ \A d \in Client : d # c => Holders(t, d) = Holders(h, d)
  BY <1>1, HoldersTake DEF PoolInv
<1>5. Counted(q, t)  BY <1>1, <1>2, <1>3, <1>4 DEF Counted, PoolInv
<1>6. Shape(q)
  <2>1. \A d \in q.open \ q.mapped : q.active[d] # 0
    BY <1>2, <1>3 DEF PoolInv, Shape, PoolType
  <2>2. QED  BY <1>2, <2>1 DEF PoolInv, Shape
<1>7. \A m \in Lease : t[m] # NoClient => t[m] \in q.open
  BY <1>1, <1>2 DEF PoolInv, HeldType
<1>8. QED  BY <1>2, <1>4, <1>5, <1>6, <1>7 DEF PoolInv, Keeps, q

LEMMA TouchInv ==
  ASSUME NEW p, NEW h, PoolInv(p, h), NEW c \in p.mapped
  PROVE  /\ PoolInv(Touch(p, c), h) /\ Keeps(p, Touch(p, c))
         /\ Touch(p, c).mapped = p.mapped /\ Touch(p, c).key = p.key
<1> DEFINE q == Touch(p, c)
<1>1. /\ p.before \in SUBSET (Client \X Client) /\ c \in Client
      /\ p.mapped \subseteq Client
  BY DEF PoolInv, Shape, PoolType
<1>2. Newest(p.before, p.mapped \ {c}, c) \in SUBSET (Client \X Client)
  BY <1>1 DEF Newest
<1>3. /\ q \in PoolType
      /\ q.mapped = p.mapped /\ q.gen = p.gen /\ q.key = p.key
      /\ q.retired = p.retired /\ q.open = p.open /\ q.closing = p.closing
      /\ q.tasks = p.tasks /\ q.active = p.active
  BY <1>2 DEF Touch, PoolInv, Shape, PoolType
<1> HIDE DEF q
<1>4. PoolInv(q, h)  BY <1>3 DEF PoolInv, Shape, Counted
<1>5. QED  BY <1>3, <1>4 DEF Keeps, q

(* A new client has a key of its own.                                      *)
LEMMA CreateInv ==
  ASSUME NEW p, NEW h, PoolInv(p, h), NEW r \in Request, p.gen = r.gen,
         NEW c \in Unused(p), NEW n \in FreeLanes(p, r)
  PROVE  LET q == Create(p, c, NewKey(r, n)) IN
         /\ PoolInv(q, h)
         /\ q.closing = p.closing /\ q.tasks = p.tasks
         /\ \A d \in Client : d # c => q.key[d] = p.key[d]
         /\ q.key[c] = NewKey(r, n) /\ q.key[c] \in Key
         /\ q.mapped = p.mapped \cup {c} /\ p.mapped \X {c} \subseteq q.before
<1> DEFINE k == NewKey(r, n)
           q == Create(p, c, k)
<1>1. /\ c \in Client /\ c \notin p.mapped /\ c \notin p.open
      /\ c \notin p.closing /\ p.active[c] = 0
  BY DEF Unused
<1>2. LaneCount(r.gen) \in 1..ProxyLanes
  BY ConstantsAssumption DEF LaneCount
<1>3. k \in Key /\ k.gen = r.gen /\ k.tmo = r.tmo /\ k.lane = n
  BY <1>2, ConstantsAssumption DEF NewKey, Key, Request, FreeLanes
<1>4. \A d \in p.mapped : p.key[d] # k
  BY <1>3 DEF FreeLanes, Serving
<1>5. /\ Newest(p.before, p.mapped, c) \in SUBSET (Client \X Client)
      /\ p.mapped \X {c} \subseteq Newest(p.before, p.mapped, c)
  BY <1>1 DEF Newest, PoolInv, Shape, PoolType
<1>6. /\ q \in PoolType
      /\ q.mapped = p.mapped \cup {c} /\ q.gen = p.gen
      /\ q.before = Newest(p.before, p.mapped, c)
      /\ q.key = [p.key EXCEPT ![c] = k]
      /\ q.active = [p.active EXCEPT ![c] = 0]
      /\ q.retired = p.retired \ {c} /\ q.open = p.open \cup {c}
      /\ q.closing = p.closing /\ q.tasks = p.tasks
  BY <1>1, <1>3, <1>5, ZenonT(60) DEF Create, PoolInv, Shape, PoolType
<1>7. /\ p.active \in [Client -> Int] /\ p.key \in [Client -> Key \cup {NoKey}]
      /\ p.mapped \subseteq Client /\ p.open \subseteq Client
  BY DEF PoolInv, Shape, PoolType
<1> HIDE DEF k, q
<1>8. q.active = p.active  BY <1>1, <1>6, <1>7
<1>9. /\ q.key[c] = k
      /\ \A d \in Client : d # c => q.key[d] = p.key[d]
  BY <1>1, <1>6, <1>7
<1>10. \A d \in q.open : q.key[d] \in Key
  BY <1>3, <1>6, <1>7, <1>9 DEF PoolInv, Shape
<1>11. \A d \in q.mapped :
         /\ q.key[d].gen = q.gen
         /\ \A e \in q.mapped : q.key[e] = q.key[d] => e = d
  BY <1>1, <1>3, <1>4, <1>6, <1>7, <1>9 DEF PoolInv, Shape
<1>12. Shape(q)
  BY <1>1, <1>6, <1>8, <1>10, <1>11 DEF PoolInv, Shape
<1>13. PoolInv(q, h)  BY <1>6, <1>8, <1>12 DEF PoolInv, Counted
<1>14. QED  BY <1>1, <1>3, <1>5, <1>6, <1>7, <1>9, <1>13 DEF q, k

(* Eviction spares the newest client.                                      *)
LEMMA EvictInv ==
  ASSUME NEW p, NEW h, PoolInv(p, h), NEW c \in p.mapped,
         (p.mapped \ {c}) \X {c} \subseteq p.before
  PROVE  /\ PoolInv(Evict(p), h) /\ Keeps(p, Evict(p))
         /\ c \in Evict(p).mapped /\ Evict(p).key = p.key
<1> DEFINE C == {d \in p.mapped : \A e \in p.mapped : <<e, d>> \notin p.before}
<1>1. CASE Cardinality(p.mapped) <= MaxEntries
  BY <1>1 DEF Evict, Keeps
<1>2. CASE ~(Cardinality(p.mapped) <= MaxEntries)
  <2>1. p.mapped # {c}
    <3>1. Cardinality({c}) = 1  BY FS_Singleton
    <3>2. 1 <= MaxEntries  BY ConstantsAssumption
    <3>3. QED  BY <1>2, <3>1, <3>2
  <2>2. PICK e \in p.mapped \ {c} : TRUE  BY <2>1
  <2>3. c \notin C  BY <2>2
  <2>4. Evict(p) = Retire(p, C)  BY <1>2 DEF Evict
  <2>5. QED  BY <2>3, <2>4, RetireInv, RetireShape DEF PoolInv
<1>3. QED  BY <1>1, <1>2

(* _acquire hands out an open client of the lease's own generation and     *)
(* timeout, and the pool stays sound.                                      *)
LEMMA AcquiredInv ==
  ASSUME NEW p, NEW h, PoolInv(p, h), NEW l \in Lease, h[l] = NoClient,
         NEW r \in Request, NEW a \in Acquired(p, r)
  PROVE  /\ PoolInv(a.pool, [h EXCEPT ![l] = a.client])
         /\ Keeps(p, a.pool)
         /\ a.client \in Client /\ a.client \notin a.pool.retired
         /\ a.pool.key[a.client].gen = r.gen /\ a.pool.key[a.client].tmo = r.tmo
<1> DEFINE p0 == Rotate(p, r.gen)
<1>1. /\ PoolInv(p0, h) /\ Keeps(p, p0) /\ p0.gen = r.gen /\ p0.key = p.key
      /\ \A c \in Unused(p0) : c \notin p.open
  BY RotateInv DEF Request
<1>2. p0.mapped \subseteq Client /\ p0.mapped \subseteq p0.open
  BY <1>1 DEF PoolInv, Shape, PoolType
<1> HIDE DEF p0
<1>4. CASE Reused(p0, r) # {}
  <2>1. PICK c \in Reused(p0, r) :
          a = [pool |-> Occupy(Touch(p0, c), c), client |-> c]
    BY <1>4 DEF Acquired, p0
  <2>2. c \in Serving(p0, r)
    BY <2>1 DEF Reused, Idle, LowestLane, LeastActive
  <2>3. c \in p0.mapped /\ p0.key[c].gen = r.gen /\ p0.key[c].tmo = r.tmo
    BY <2>2 DEF Serving
  <2>4. /\ PoolInv(Touch(p0, c), h) /\ Keeps(p0, Touch(p0, c))
        /\ Touch(p0, c).mapped = p0.mapped /\ Touch(p0, c).key = p0.key
    BY <1>1, <2>3, TouchInv
  <2>5. /\ PoolInv(a.pool, [h EXCEPT ![l] = c])
        /\ Keeps(Touch(p0, c), a.pool) /\ a.pool.key = p0.key
        /\ a.client = c /\ c \notin a.pool.retired
    BY <2>1, <2>3, <2>4, OccupyInv, SMTT(60) DEF PoolInv, Shape
  <2>6. Keeps(p, a.pool)  BY <1>1, <2>4, <2>5 DEF Keeps
  <2>7. QED  BY <1>2, <2>3, <2>5, <2>6
<1>5. CASE Reused(p0, r) = {}
  <2>1. PICK c \in Unused(p0), n \in FirstLane(p0, r) :
          a = [pool |-> Occupy(Evict(Create(p0, c, NewKey(r, n))), c),
               client |-> c]
    BY <1>5 DEF Acquired, p0
  <2> DEFINE p1 == Create(p0, c, NewKey(r, n))
             p2 == Evict(p1)
  <2>2. n \in FreeLanes(p0, r)  BY <2>1 DEF FirstLane
  <2>3. /\ PoolInv(p1, h)
        /\ p1.closing = p0.closing /\ p1.tasks = p0.tasks
        /\ \A d \in Client : d # c => p1.key[d] = p0.key[d]
        /\ p1.key[c] = NewKey(r, n) /\ p1.key[c] \in Key
        /\ p1.mapped = p0.mapped \cup {c} /\ p0.mapped \X {c} \subseteq p1.before
    BY <1>1, <2>1, <2>2, CreateInv
  <2>4. p1.key[c].gen = r.gen /\ p1.key[c].tmo = r.tmo
    BY <2>3 DEF NewKey
  <2> HIDE DEF p1
  <2>5. /\ PoolInv(p2, h) /\ Keeps(p1, p2) /\ c \in p2.mapped /\ p2.key = p1.key
    BY <2>3, EvictInv
  <2>6. a.pool = Occupy(p2, c) /\ a.client = c  BY <2>1 DEF p1
  <2> HIDE DEF p2
  <2>7. /\ PoolInv(a.pool, [h EXCEPT ![l] = c])
        /\ Keeps(p2, a.pool) /\ a.pool.key = p2.key
        /\ c \notin a.pool.retired
    BY <2>5, <2>6, OccupyInv, SMTT(60) DEF PoolInv, Shape
  <2>8. c \in Client /\ c \notin p.open  BY <1>1, <2>1 DEF Unused
  <2>9. \A d \in p.open : a.pool.key[d] = p.key[d]
    BY <1>1, <2>3, <2>5, <2>7, <2>8 DEF PoolInv, Shape, PoolType
  <2>10. a.pool.closing \ a.pool.tasks = p.closing \ p.tasks
    BY <1>1, <2>3, <2>5, <2>7 DEF Keeps
  <2>11. QED  BY <2>4, <2>5, <2>6, <2>7, <2>8, <2>9, <2>10 DEF Keeps
<1>6. QED  BY <1>4, <1>5

(* The first half of _release_entry.                                       *)
LEMMA ReleaseInv ==
  ASSUME NEW p, NEW h, PoolInv(p, h), NEW l \in Lease, h[l] # NoClient
  PROVE  LET q == Release(p, h[l]) IN
         /\ PoolInv(q, [h EXCEPT ![l] = NoClient])
         /\ q.key = p.key /\ q.mapped = p.mapped /\ q.tasks = p.tasks
         /\ q.closing = IF LastOfRetired(p, h[l]) THEN p.closing \cup {h[l]}
                                                  ELSE p.closing
<1> DEFINE c == h[l]
           q == Release(p, c)
           t == [h EXCEPT ![l] = NoClient]
<1>1. /\ c \in Client /\ c \in p.open /\ p.active[c] \in Nat \ {0}
      /\ c \notin p.retired => c \in p.mapped
  BY HolderCounts
<1>2. p.active \in [Client -> Int] /\ p.open \subseteq Client
  BY DEF PoolInv, Shape, PoolType
<1>3. /\ q \in PoolType
      /\ q.mapped = p.mapped /\ q.gen = p.gen /\ q.key = p.key
      /\ q.retired = p.retired /\ q.tasks = p.tasks
      /\ q.active = [p.active EXCEPT ![c] = p.active[c] - 1]
      /\ q.open = IF LastOfRetired(p, c) THEN p.open \ {c} ELSE p.open
      /\ q.closing = IF LastOfRetired(p, c) THEN p.closing \cup {c} ELSE p.closing
  <2> DEFINE act == [p.active EXCEPT ![c] = p.active[c] - 1]
             opn == IF LastOfRetired(p, c) THEN p.open \ {c} ELSE p.open
             cls == IF LastOfRetired(p, c) THEN p.closing \cup {c} ELSE p.closing
  <2>1. q = [p EXCEPT !.active = act, !.open = opn, !.closing = cls]
    BY DEF Release
  <2>2. p \in PoolType  BY DEF PoolInv, Shape
  <2>3. act \in [Client -> Int]  BY <1>1, <1>2
  <2>4. opn \in SUBSET Client /\ cls \in SUBSET Client
    BY <1>1, <1>2, <2>2 DEF PoolType
  <2> HIDE DEF q, c, act, opn, cls
  <2>5. /\ q \in PoolType
        /\ q.mapped = p.mapped /\ q.gen = p.gen /\ q.key = p.key
        /\ q.retired = p.retired /\ q.tasks = p.tasks
        /\ q.active = act /\ q.open = opn /\ q.closing = cls
    BY <2>1, <2>2, <2>3, <2>4 DEF PoolType
  <2>6. QED  BY <2>5 DEF act, opn, cls
<1>4. /\ HeldType(t)
      /\ Cardinality(Holders(t, c)) = Cardinality(Holders(h, c)) - 1
      /\ \A d \in Client : d # c => Holders(t, d) = Holders(h, d)
      /\ Holders(t, c) = {} => \A m \in Lease : t[m] # c
  BY HoldersDrop DEF PoolInv
<1> HIDE DEF c, q, t
<1>5. Counted(q, t)  BY <1>1, <1>2, <1>3, <1>4 DEF Counted, PoolInv, c
<1>6. LastOfRetired(p, c) => \A m \in Lease : t[m] # c
  <2>1. SUFFICES ASSUME LastOfRetired(p, c) PROVE Holders(t, c) = {}
    BY <1>4
  <2>2. q.active[c] = 0  BY <1>1, <1>2, <1>3, <2>1 DEF LastOfRetired
  <2>3. Holders(t, c) \in SUBSET Lease /\ Cardinality(Holders(t, c)) = 0
    BY <1>1, <1>5, <2>2 DEF Counted, Holders
  <2>4. IsFiniteSet(Holders(t, c))  BY <2>3, ConstantsAssumption, FS_Subset
  <2>5. QED  BY <2>3, <2>4, FS_EmptySet
<1>7. \A m \in Lease : t[m] # NoClient => t[m] = h[m] /\ h[m] \in p.open
  BY DEF PoolInv, HeldType, t
<1>8. \A m \in Lease : t[m] # NoClient => t[m] \in q.open
  BY <1>3, <1>6, <1>7
<1>9. Shape(q)
  <2>1. \A d \in q.open \ q.mapped : q.active[d] # 0
    BY <1>1, <1>2, <1>3 DEF PoolInv, Shape, LastOfRetired
  <2>2. LastOfRetired(p, c) => c \notin p.mapped
    BY DEF LastOfRetired, PoolInv, Shape
  <2>3. QED  BY <1>3, <2>1, <2>2 DEF PoolInv, Shape
<1>10. QED  BY <1>3, <1>4, <1>5, <1>8, <1>9 DEF PoolInv, c, q, t

(* aclose() of a client ends.                                              *)
LEMMA ClosedInv ==
  ASSUME NEW p, NEW h, PoolInv(p, h), NEW c \in p.closing
  PROVE  LET q == Closed(p, c) IN
         /\ PoolInv(q, h) /\ q.mapped = p.mapped
         /\ q.closing = p.closing \ {c} /\ q.tasks = p.tasks \ {c}
         /\ \A d \in p.open : q.key[d] = p.key[d]
<1> DEFINE q == Closed(p, c)
<1>1. c \in Client /\ c \notin p.open /\ c \notin p.mapped /\ p.open \subseteq Client
  BY DEF PoolInv, Shape, PoolType
<1>2. /\ q \in PoolType
      /\ q.mapped = p.mapped /\ q.gen = p.gen /\ q.active = p.active
      /\ q.retired = p.retired /\ q.open = p.open
      /\ q.closing = p.closing \ {c} /\ q.tasks = p.tasks \ {c}
      /\ \A d \in p.open : q.key[d] = p.key[d]
  BY <1>1 DEF Closed, PoolInv, Shape, PoolType
<1> HIDE DEF q
<1>3. Shape(q)  BY <1>1, <1>2 DEF PoolInv, Shape
<1>4. PoolInv(q, h)  BY <1>2, <1>3 DEF PoolInv, Counted
<1>5. QED  BY <1>2, <1>4 DEF q

-----------------------------------------------------------------------------
(* The client half of the state.                                           *)

CloserInv(p, d) ==
  /\ \A l \in Lease : d[l] # NoClient =>
       /\ d[l] \in p.closing \ p.tasks
       /\ \A m \in Lease : d[m] = d[l] => m = l
  /\ \A c \in p.closing \ p.tasks : \E l \in Lease : d[l] = c

(* What the stage of a lease says about the clients it holds and drops.    *)
StageAt(s, h, d) ==
  /\ s \in {"refreshing", "closing"} <=> d # NoClient
  /\ d # NoClient => h = NoClient
  /\ s \in {"built", "waiting", "sending", "streaming"} => h # NoClient
  /\ s \in {"idle", "leased"} => h = NoClient

Own(p, h, r) ==
  \A l \in Lease : h[l] # NoClient =>
    p.key[h[l]].gen = r[l].gen /\ p.key[h[l]].tmo = r[l].tmo

Drained ==
  /\ closed => pool.mapped = {}
  /\ closer = "gathering" => pool.tasks \subseteq awaited
  /\ closer = "done" => pool.tasks = {}

ClientType ==
  /\ pc \in [Lease -> Stage]
  /\ req \in [Lease -> Request]
  /\ HeldType(dropping)
  /\ replayed \in [Lease -> BOOLEAN]
  /\ connects \in [Lease -> Nat]
  /\ closer \in {"running", "gathering", "done", "raised"}
  /\ awaited \subseteq Client

ClientInv ==
  /\ ClientType
  /\ PoolInv(pool, held)
  /\ CloserInv(pool, dropping)
  /\ \A l \in Lease : StageAt(pc[l], held[l], dropping[l])
  /\ Own(pool, held, req)
  /\ Drained

LEMMA KeepsClosers ==
  ASSUME NEW p, NEW q, NEW d, CloserInv(p, d), Keeps(p, q)
  PROVE  CloserInv(q, d)
BY DEF CloserInv, Keeps

LEMMA KeepsOwn ==
  ASSUME NEW p, NEW q, NEW h, NEW r, PoolInv(p, h), Own(p, h, r),
         \A c \in p.open : q.key[c] = p.key[c]
  PROVE  Own(q, h, r)
BY DEF Own, PoolInv

(* One lease moved and the pool is as it should be: the invariant holds.   *)
LEMMA Assemble ==
  ASSUME ClientInv, NEW l \in Lease, NEW s \in Stage, NEW h, NEW d,
         Goto(l, s),
         held' = [held EXCEPT ![l] = h], dropping' = [dropping EXCEPT ![l] = d],
         h \in Client \cup {NoClient}, d \in Client \cup {NoClient},
         StageAt(s, h, d),
         PoolInv(pool', held'), CloserInv(pool', dropping'),
         req' \in [Lease -> Request], Own(pool', held', req'),
         replayed' \in [Lease -> BOOLEAN], connects' \in [Lease -> Nat],
         closed => pool'.mapped = {} /\ pool'.tasks \subseteq pool.tasks,
         UNCHANGED closeVars
  PROVE  ClientInv'
<1>1. pc' \in [Lease -> Stage] /\ \A m \in Lease : pc'[m] = IF m = l THEN s ELSE pc[m]
  BY DEF Goto, ClientInv, ClientType
<1>2. /\ HeldType(dropping')
      /\ \A m \in Lease : /\ held'[m] = IF m = l THEN h ELSE held[m]
                          /\ dropping'[m] = IF m = l THEN d ELSE dropping[m]
  BY DEF ClientInv, ClientType, PoolInv, HeldType
<1>3. \A m \in Lease : StageAt(pc'[m], held'[m], dropping'[m])
  BY <1>1, <1>2 DEF ClientInv
<1>4. closer' = closer /\ awaited' = awaited  BY DEF closeVars
<1>5. Drained'  BY <1>4 DEF Drained, closed, ClientInv
<1>6. ClientType'  BY <1>1, <1>2, <1>4 DEF ClientInv, ClientType
<1>7. QED  BY <1>3, <1>5, <1>6 DEF ClientInv

(* Acquire with the pool in an intermediate state p.                       *)
LEMMA AcquireStep ==
  ASSUME NEW l \in Lease, NEW p, NEW next, HeldType(held),
         PoolInv(p, [held EXCEPT ![l] = NoClient]),
         req \in [Lease -> Request], Acquire(l, p, next)
  PROVE  /\ PoolInv(pool', held') /\ Keeps(p, pool')
         /\ \E h \in Client \cup {NoClient} :
              /\ held' = [held EXCEPT ![l] = h]
              /\ h # NoClient => /\ Goto(l, next) /\ h \notin pool'.retired
                                 /\ pool'.key[h].gen = req[l].gen
                                 /\ pool'.key[h].tmo = req[l].tmo
              /\ h = NoClient => Goto(l, "failed")
         /\ closed => pool' = p
<1> DEFINE h0 == [held EXCEPT ![l] = NoClient]
           AcquireDone ==
             /\ PoolInv(pool', held') /\ Keeps(p, pool')
             /\ \E h \in Client \cup {NoClient} :
                  /\ held' = [held EXCEPT ![l] = h]
                  /\ h # NoClient => /\ Goto(l, next) /\ h \notin pool'.retired
                                     /\ pool'.key[h].gen = req[l].gen
                                     /\ pool'.key[h].tmo = req[l].tmo
                  /\ h = NoClient => Goto(l, "failed")
             /\ closed => pool' = p
<1>1. h0[l] = NoClient /\ req[l] \in Request /\ PoolInv(p, h0)  BY DEF HeldType
<1>2. \A x : [h0 EXCEPT ![l] = x] = [held EXCEPT ![l] = x]  BY DEF HeldType
<1> HIDE DEF h0
<1>3. ASSUME NEW a \in Acquired(p, req[l]), pool' = a.pool, ~closed,
             held' = [held EXCEPT ![l] = a.client], Goto(l, next)
      PROVE  AcquireDone
  <2>1. /\ PoolInv(a.pool, [h0 EXCEPT ![l] = a.client])
        /\ Keeps(p, a.pool)
        /\ a.client \in Client /\ a.client \notin a.pool.retired
        /\ a.pool.key[a.client].gen = req[l].gen
        /\ a.pool.key[a.client].tmo = req[l].tmo
    BY <1>1, AcquiredInv
  <2>2. QED  BY <1>2, <1>3, <2>1, ConstantsAssumption
<1>4. ASSUME pool' = Rotate(p, req[l].gen), ~closed,
             held' = [held EXCEPT ![l] = NoClient], Goto(l, "failed")
      PROVE  AcquireDone
  <2>1. PoolInv(Rotate(p, req[l].gen), h0) /\ Keeps(p, Rotate(p, req[l].gen))
    BY <1>1, RotateInv DEF Request
  <2>2. QED  BY <1>4, <2>1 DEF h0
<1>5. ASSUME pool' = p,
             held' = [held EXCEPT ![l] = NoClient], Goto(l, "failed")
      PROVE  AcquireDone
  BY <1>5 DEF Keeps, h0
<1>6. QED  BY <1>3, <1>4, <1>5 DEF Acquire

(* What every step of a lease does: it lands in a stage with a client h    *)
(* held and a client d being closed, the pool sound and, once closed,      *)
(* empty.                                                                  *)
Lands(l, S) ==
  /\ \E s \in S, h \in Client \cup {NoClient}, d \in Client \cup {NoClient} :
       /\ Goto(l, s)
       /\ held' = [held EXCEPT ![l] = h]
       /\ dropping' = [dropping EXCEPT ![l] = d]
       /\ StageAt(s, h, d)
  /\ PoolInv(pool', held')
  /\ CloserInv(pool', dropping')
  /\ Own(pool', held', req)
  /\ closed => pool'.mapped = {} /\ pool'.tasks \subseteq pool.tasks

LEMMA AcquireLands ==
  ASSUME ClientInv, NEW l \in Lease, NEW p, NEW next \in {"built", "sending", "failed"},
         PoolInv(p, [held EXCEPT ![l] = NoClient]),
         Own(p, [held EXCEPT ![l] = NoClient], req),
         dropping' = [dropping EXCEPT ![l] = NoClient],
         CloserInv(p, dropping'),
         closed => p.mapped = {} /\ p.tasks \subseteq pool.tasks,
         Acquire(l, p, next)
  PROVE  Lands(l, {"built", "sending", "failed"})
<1>1. HeldType(held) /\ req \in [Lease -> Request]
  BY DEF ClientInv, ClientType, PoolInv
<1>2. /\ PoolInv(pool', held') /\ Keeps(p, pool')
      /\ closed => pool' = p
  BY <1>1, AcquireStep
<1>3. PICK h \in Client \cup {NoClient} :
        /\ held' = [held EXCEPT ![l] = h]
        /\ h # NoClient => /\ Goto(l, next)
                           /\ pool'.key[h].gen = req[l].gen
                           /\ pool'.key[h].tmo = req[l].tmo
        /\ h = NoClient => Goto(l, "failed")
  BY <1>1, AcquireStep
<1>4. CloserInv(pool', dropping')  BY <1>2, KeepsClosers
<1>5. Own(pool', held', req)
  <2>1. \A m \in Lease : m # l => held'[m] = held[m]
    BY <1>1, <1>3 DEF HeldType
  <2>2. \A m \in Lease : m # l => [held EXCEPT ![l] = NoClient][m] = held[m]
    BY <1>1 DEF HeldType
  <2>3. \A m \in Lease : m # l /\ held[m] # NoClient =>
          /\ p.key[held[m]].gen = req[m].gen
          /\ p.key[held[m]].tmo = req[m].tmo
          /\ pool'.key[held[m]] = p.key[held[m]]
    BY <1>2, <2>2 DEF Own, PoolInv, Keeps
  <2>4. held'[l] = h  BY <1>1, <1>3 DEF HeldType
  <2>5. QED  BY <1>3, <2>1, <2>3, <2>4 DEF Own
<1>6. \E s \in {"built", "sending", "failed"} : Goto(l, s) /\ StageAt(s, h, NoClient)
  BY <1>3 DEF StageAt
<1>7. QED  BY <1>2, <1>3, <1>4, <1>5, <1>6 DEF Lands

(* A lease lets its client go; as the last lease of a retired one it now   *)
(* closes it.                                                              *)
LEMMA ReleaseClosers ==
  ASSUME NEW p, PoolInv(p, held), HeldType(dropping), CloserInv(p, dropping),
         NEW l \in Lease, held[l] # NoClient, dropping[l] = NoClient,
         NEW d, d = IF LastOfRetired(p, held[l]) THEN held[l] ELSE NoClient
  PROVE  CloserInv(Release(p, held[l]), [dropping EXCEPT ![l] = d])
<1> DEFINE q == Release(p, held[l])
           e == [dropping EXCEPT ![l] = d]
<1>1. /\ q.tasks = p.tasks
      /\ q.closing = IF LastOfRetired(p, held[l]) THEN p.closing \cup {held[l]}
                                                  ELSE p.closing
  BY ReleaseInv
<1>2. held[l] \notin p.closing /\ held[l] \notin p.tasks
  BY HolderCounts DEF PoolInv, Shape
<1>3. \A m \in Lease : e[m] = IF m = l THEN d ELSE dropping[m]
  BY DEF HeldType
<1> SUFFICES CloserInv(q, e)  OBVIOUS
<1> HIDE DEF q, e
<1>4. \A m \in Lease : dropping[m] # held[l]
  BY <1>2 DEF CloserInv
<1>5. CASE LastOfRetired(p, held[l])
  <2>1. d = held[l] /\ q.closing \ q.tasks = (p.closing \ p.tasks) \cup {held[l]}
    BY <1>1, <1>2, <1>5
  <2>2. \A m \in Lease : e[m] # NoClient =>
          /\ e[m] \in q.closing \ q.tasks
          /\ \A n \in Lease : e[n] = e[m] => n = m
    BY <1>3, <1>4, <2>1 DEF CloserInv
  <2>3. \A c \in p.closing \ p.tasks : \E m \in Lease : dropping[m] = c /\ m # l
    <3>1. NoClient \notin p.closing
      BY ConstantsAssumption DEF PoolInv, Shape, PoolType
    <3>2. QED  BY <3>1 DEF CloserInv
  <2>4. QED  BY <1>3, <2>1, <2>2, <2>3 DEF CloserInv
<1>6. CASE ~LastOfRetired(p, held[l])
  <2>1. /\ q.closing \ q.tasks = p.closing \ p.tasks
        /\ \A m \in Lease : e[m] = dropping[m]
    BY <1>1, <1>3, <1>6
  <2>2. QED  BY <2>1 DEF CloserInv
<1>7. QED  BY <1>5, <1>6

LEMMA ReleaseOwn ==
  ASSUME NEW p, PoolInv(p, held), NEW l \in Lease, held[l] # NoClient,
         Own(p, held, req)
  PROVE  Own(Release(p, held[l]), [held EXCEPT ![l] = NoClient], req)
<1>1. Release(p, held[l]).key = p.key  BY ReleaseInv
<1>2. \A m \in Lease : [held EXCEPT ![l] = NoClient][m] # NoClient =>
        [held EXCEPT ![l] = NoClient][m] = held[m]
  BY DEF PoolInv, HeldType
<1>3. QED  BY <1>1, <1>2 DEF Own

LEMMA RefreshLands ==
  ASSUME ClientInv, NEW l \in Lease, NEW p,
         held[l] # NoClient, dropping[l] = NoClient,
         PoolInv(p, held), CloserInv(p, dropping), Own(p, held, req),
         closed => p.mapped = {} /\ p.tasks \subseteq pool.tasks,
         RefreshAndSend(l, p)
  PROVE  Lands(l, {"sending", "refreshing", "built", "failed"})
<1> DEFINE c == held[l]
           q == Release(p, c)
           h0 == [held EXCEPT ![l] = NoClient]
<1>1. HeldType(held) /\ HeldType(dropping) /\ c \in Client
  BY DEF ClientInv, ClientType, PoolInv, HeldType
<1>2. /\ held = [held EXCEPT ![l] = c]
      /\ dropping = [dropping EXCEPT ![l] = NoClient]
  BY <1>1 DEF HeldType
<1>3. /\ PoolInv(q, h0) /\ q.mapped = p.mapped /\ q.tasks = p.tasks
  BY ReleaseInv, ZenonT(60)
<1>4. Own(q, h0, req)  BY ReleaseOwn
<1>5. /\ LastOfRetired(p, c) => CloserInv(q, [dropping EXCEPT ![l] = c])
      /\ ~LastOfRetired(p, c) => CloserInv(q, [dropping EXCEPT ![l] = NoClient])
  BY <1>1, ReleaseClosers
<1>6. CASE c \notin p.retired /\ pool' = p /\ Goto(l, "sending")
           /\ UNCHANGED <<held, dropping>>
  <2>1. StageAt("sending", c, NoClient)  BY <1>1, ConstantsAssumption DEF StageAt
  <2>2. QED  BY <1>1, <1>2, <1>6, <2>1 DEF Lands
<1>7. CASE LastOfRetired(p, c) /\ pool' = q /\ held' = h0
           /\ dropping' = [dropping EXCEPT ![l] = c] /\ Goto(l, "refreshing")
  <2>1. StageAt("refreshing", NoClient, c)  BY <1>1, ConstantsAssumption DEF StageAt
  <2>2. QED  BY <1>1, <1>3, <1>4, <1>5, <1>7, <2>1 DEF Lands
<1>8. CASE ~LastOfRetired(p, c) /\ Acquire(l, q, "sending") /\ UNCHANGED dropping
  <2>1. dropping' = [dropping EXCEPT ![l] = NoClient]  BY <1>2, <1>8
  <2>2. CloserInv(q, dropping')  BY <1>5, <1>8, <2>1
  <2>3. closed => q.mapped = {} /\ q.tasks \subseteq pool.tasks  BY <1>3
  <2>4. Lands(l, {"built", "sending", "failed"})
    BY <1>3, <1>4, <1>8, <2>1, <2>2, <2>3, AcquireLands
  <2>5. ASSUME NEW S, NEW T, S \subseteq T, Lands(l, S) PROVE Lands(l, T)
    BY <2>5 DEF Lands
  <2>6. {"built", "sending", "failed"} \subseteq {"sending", "refreshing", "built", "failed"}
    OBVIOUS
  <2> HIDE DEF q, c, h0
  <2>7. QED  BY <2>4, <2>5, <2>6
<1>9. QED  BY <1>6, <1>7, <1>8 DEF RefreshAndSend

LEMMA LandsInv ==
  ASSUME ClientInv, NEW l \in Lease, Lands(l, Stage),
         req' = req \/ held'[l] = NoClient,
         req' \in [Lease -> Request], \A m \in Lease : m # l => req'[m] = req[m],
         replayed' \in [Lease -> BOOLEAN], connects' \in [Lease -> Nat],
         UNCHANGED closeVars
  PROVE  ClientInv'
<1>1. Own(pool', held', req')  BY DEF Lands, Own
<1>2. PICK s \in Stage, h \in Client \cup {NoClient}, d \in Client \cup {NoClient} :
        /\ Goto(l, s)
        /\ held' = [held EXCEPT ![l] = h]
        /\ dropping' = [dropping EXCEPT ![l] = d]
        /\ StageAt(s, h, d)
  BY DEF Lands
<1>3. /\ PoolInv(pool', held') /\ CloserInv(pool', dropping')
      /\ closed => pool'.mapped = {} /\ pool'.tasks \subseteq pool.tasks
  BY DEF Lands
<1>4. QED  BY <1>1, <1>2, <1>3, Assemble

LEMMA LandsWider ==
  ASSUME NEW l \in Lease, NEW S, NEW T, S \subseteq T, Lands(l, S)
  PROVE  Lands(l, T)
BY DEF Lands

(* A step that only moves the lease on.                                    *)
LEMMA StageLands ==
  ASSUME ClientInv, NEW l \in Lease, NEW s \in Stage, Goto(l, s),
         StageAt(s, held[l], dropping[l]), UNCHANGED <<pool, held, dropping>>
  PROVE  Lands(l, Stage)
<1>1. /\ held' = [held EXCEPT ![l] = held[l]] /\ held[l] \in Client \cup {NoClient}
      /\ dropping' = [dropping EXCEPT ![l] = dropping[l]]
      /\ dropping[l] \in Client \cup {NoClient}
  BY DEF ClientInv, ClientType, PoolInv, HeldType
<1>2. QED  BY <1>1 DEF Lands, ClientInv, Drained

LEMMA InvalidateLands ==
  ASSUME ClientInv, NEW l \in Lease, NEW s \in Stage, Goto(l, s),
         held[l] # NoClient, StageAt(s, held[l], dropping[l]),
         pool' = Invalidate(pool, held[l]), UNCHANGED <<held, dropping>>
  PROVE  Lands(l, Stage)
<1>1. /\ held' = [held EXCEPT ![l] = held[l]] /\ held[l] \in Client \cup {NoClient}
      /\ dropping' = [dropping EXCEPT ![l] = dropping[l]]
      /\ dropping[l] \in Client \cup {NoClient}
  BY DEF ClientInv, ClientType, PoolInv, HeldType
<1>2. /\ PoolInv(pool', held') /\ Keeps(pool, pool')
      /\ pool.mapped = {} => pool' = pool
  BY InvalidateInv DEF ClientInv
<1>3. CloserInv(pool', dropping')  BY <1>2, KeepsClosers DEF ClientInv
<1>4. Own(pool', held', req)  BY <1>2, KeepsOwn DEF ClientInv, Keeps
<1>5. closed => pool'.mapped = {} /\ pool'.tasks \subseteq pool.tasks
  BY <1>2 DEF ClientInv, Drained
<1>6. QED  BY <1>1, <1>2, <1>3, <1>4, <1>5 DEF Lands

LEMMA ClosedClosers ==
  ASSUME ClientInv, NEW l \in Lease, dropping[l] # NoClient
  PROVE  LET q == Closed(pool, dropping[l]) IN
         /\ PoolInv(q, held) /\ Own(q, held, req)
         /\ CloserInv(q, [dropping EXCEPT ![l] = NoClient])
         /\ closed => q.mapped = {} /\ q.tasks \subseteq pool.tasks
<1> DEFINE c == dropping[l]
           q == Closed(pool, c)
           e == [dropping EXCEPT ![l] = NoClient]
<1>1. c \in pool.closing \ pool.tasks  BY DEF ClientInv, CloserInv
<1>2. /\ PoolInv(q, held) /\ q.mapped = pool.mapped
      /\ q.closing = pool.closing \ {c} /\ q.tasks = pool.tasks \ {c}
      /\ \A d \in pool.open : q.key[d] = pool.key[d]
  BY <1>1, ClosedInv DEF ClientInv
<1>3. Own(q, held, req)  BY <1>2, KeepsOwn DEF ClientInv
<1>4. \A m \in Lease : e[m] = IF m = l THEN NoClient ELSE dropping[m]
  BY DEF ClientInv, ClientType, HeldType
<1>5. \A m \in Lease : m # l => dropping[m] # c
  BY <1>1 DEF ClientInv, CloserInv
<1> SUFFICES /\ CloserInv(q, e)
             /\ closed => q.mapped = {} /\ q.tasks \subseteq pool.tasks
  BY <1>2, <1>3
<1>6. c = dropping[l]  OBVIOUS
<1> HIDE DEF q, e, c
<1>7. CloserInv(q, e)
  <2>1. \A m \in Lease : e[m] # NoClient =>
          /\ e[m] \in q.closing \ q.tasks
          /\ \A n \in Lease : e[n] = e[m] => n = m
    BY <1>2, <1>4, <1>5 DEF ClientInv, CloserInv
  <2>2. \A b \in q.closing \ q.tasks : \E m \in Lease : e[m] = b
    <3>1. \A b \in q.closing \ q.tasks : b # c /\ b \in pool.closing \ pool.tasks
      BY <1>1, <1>2
    <3>2. \A b \in q.closing \ q.tasks : \E m \in Lease : m # l /\ dropping[m] = b
      BY <3>1, <1>6 DEF ClientInv, CloserInv
    <3>3. QED  BY <3>2, <1>4
  <2>3. QED  BY <2>1, <2>2 DEF CloserInv
<1>8. QED  BY <1>2, <1>7 DEF ClientInv, Drained

-----------------------------------------------------------------------------
(* Every step keeps the client invariant, one lemma per kind of step.      *)

LEMMA MovesClient ==
  ASSUME ClientInv, NEW l \in Lease,
         \/ \E r \in Request : Open(l, r)
         \/ BuildRefused(l) \/ SendWaits(l) \/ GiveUp(l) \/ SendReturns(l)
  PROVE  ClientInv'
<1> USE DEF StageAt
<1>1. StageAt(pc[l], held[l], dropping[l])  BY DEF ClientInv
<1>2. /\ req \in [Lease -> Request] /\ replayed \in [Lease -> BOOLEAN]
      /\ connects \in [Lease -> Nat]
  BY DEF ClientInv, ClientType
<1>3. CASE \E r \in Request : Open(l, r)
  <2>1. PICK r \in Request : Open(l, r)  BY <1>3
  <2>2. Lands(l, Stage)  BY <1>1, <2>1, StageLands DEF Open, Stage
  <2>3. held'[l] = NoClient  BY <1>1, <2>1 DEF Open
  <2>4. /\ req' \in [Lease -> Request]
        /\ \A m \in Lease : m # l => req'[m] = req[m]
    BY <1>2, <2>1 DEF Open
  <2>5. QED
    BY <1>2, <2>1, <2>2, <2>3, <2>4, LandsInv DEF Open, sendVars
<1>4. CASE BuildRefused(l)
  <2>1. Lands(l, Stage)  BY <1>1, <1>4, StageLands DEF BuildRefused, Stage
  <2>2. QED  BY <1>2, <1>4, <2>1, LandsInv DEF BuildRefused, sendVars
<1>5. CASE SendWaits(l)
  <2>1. Lands(l, Stage)  BY <1>1, <1>5, StageLands DEF SendWaits, Stage
  <2>2. replayed' \in [Lease -> BOOLEAN] /\ connects' \in [Lease -> Nat]
    BY <1>2, <1>5 DEF SendWaits
  <2>3. QED  BY <1>2, <1>5, <2>1, <2>2, LandsInv DEF SendWaits
<1>6. CASE GiveUp(l)
  <2>1. Lands(l, Stage)  BY <1>1, <1>6, StageLands DEF GiveUp, Stage
  <2>2. QED  BY <1>2, <1>6, <2>1, LandsInv DEF GiveUp, sendVars
<1>7. CASE SendReturns(l)
  <2>1. Lands(l, Stage)  BY <1>1, <1>7, StageLands DEF SendReturns, Stage
  <2>2. QED  BY <1>2, <1>7, <2>1, LandsInv DEF SendReturns, sendVars
<1>8. QED  BY <1>3, <1>4, <1>5, <1>6, <1>7

LEMMA BuildClient ==
  ASSUME ClientInv, NEW l \in Lease, Build(l)
  PROVE  ClientInv'
<1>1. held[l] = NoClient /\ dropping[l] = NoClient
  BY DEF ClientInv, StageAt, Build
<1>2. /\ [held EXCEPT ![l] = NoClient] = held
      /\ dropping' = [dropping EXCEPT ![l] = NoClient] /\ dropping' = dropping
  BY <1>1 DEF ClientInv, ClientType, PoolInv, HeldType, Build
<1>3. PICK next \in {"built", "failed"} : Acquire(l, pool, next)  BY DEF Build
<1>4. Lands(l, {"built", "sending", "failed"})
  BY <1>2, <1>3, AcquireLands DEF ClientInv, Drained
<1>5. Lands(l, Stage)  BY <1>4, LandsWider DEF Stage
<1>6. QED
  BY <1>5, LandsInv DEF Build, ClientInv, ClientType, sendVars

LEMMA SendClient ==
  ASSUME ClientInv, NEW l \in Lease, Send(l) \/ Resume(l)
  PROVE  ClientInv'
<1>1. held[l] # NoClient /\ dropping[l] = NoClient
  BY DEF ClientInv, StageAt, Send, Resume
<1>2. RefreshAndSend(l, pool)  BY DEF Send, Resume
<1>3. Lands(l, {"sending", "refreshing", "built", "failed"})
  BY <1>1, <1>2, RefreshLands DEF ClientInv, Drained
<1>4. Lands(l, Stage)  BY <1>3, LandsWider DEF Stage
<1>5. /\ req' = req /\ UNCHANGED closeVars
      /\ \/ UNCHANGED sendVars
         \/ /\ replayed' = [replayed EXCEPT ![l] = FALSE]
            /\ connects' = [connects EXCEPT ![l] = @ + 1]
  BY DEF Send, Resume
<1>6. /\ replayed \in [Lease -> BOOLEAN] /\ connects \in [Lease -> Nat]
      /\ req \in [Lease -> Request]
  BY DEF ClientInv, ClientType
<1>7. replayed' \in [Lease -> BOOLEAN] /\ connects' \in [Lease -> Nat]
  <2>1. CASE UNCHANGED sendVars  BY <1>6, <2>1 DEF sendVars
  <2>2. CASE /\ replayed' = [replayed EXCEPT ![l] = FALSE]
             /\ connects' = [connects EXCEPT ![l] = @ + 1]
    <3>1. replayed' \in [Lease -> BOOLEAN]  BY Zenon, <1>6, <2>2
    <3>2. connects' \in [Lease -> Nat]  BY <1>6, <2>2
    <3>3. QED  BY <3>1, <3>2
  <2>3. QED  BY <1>5, <2>1, <2>2
<1>8. QED  BY <1>4, <1>5, <1>6, <1>7, LandsInv

LEMMA RefreshedClient ==
  ASSUME ClientInv, NEW l \in Lease, Refreshed(l) \/ RefreshFails(l)
  PROVE  ClientInv'
<1> DEFINE q == Closed(pool, dropping[l])
<1>1. pc[l] = "refreshing"  BY DEF Refreshed, RefreshFails
<1>2. held[l] = NoClient /\ dropping[l] # NoClient
  BY <1>1 DEF ClientInv, StageAt
<1>3. /\ [held EXCEPT ![l] = NoClient] = held
      /\ dropping' = [dropping EXCEPT ![l] = NoClient]
  BY <1>2 DEF ClientInv, PoolInv, HeldType, Refreshed, RefreshFails
<1>4. /\ PoolInv(q, held) /\ Own(q, held, req) /\ CloserInv(q, dropping')
      /\ closed => q.mapped = {} /\ q.tasks \subseteq pool.tasks
  BY <1>2, <1>3, ClosedClosers
<1>5. Lands(l, Stage)
  <2>1. CASE Refreshed(l)
    <3>1. Acquire(l, q, "sending")  BY <2>1 DEF Refreshed
    <3> HIDE DEF q
    <3>2. Lands(l, {"built", "sending", "failed"})
      BY <1>3, <1>4, <3>1, AcquireLands
    <3>3. QED  BY <3>2, LandsWider DEF Stage
  <2>2. CASE RefreshFails(l)
    <3>1. pool' = q /\ held' = held /\ Goto(l, "failed")
      BY <2>2 DEF RefreshFails
    <3>2. StageAt("failed", NoClient, NoClient)  BY DEF StageAt
    <3>3. held' = [held EXCEPT ![l] = NoClient]  BY <1>3, <3>1
    <3> HIDE DEF q
    <3>4. QED  BY <1>3, <1>4, <3>1, <3>2, <3>3 DEF Lands, Stage
  <2>3. QED  BY <2>1, <2>2
<1>6. QED
  BY <1>5, LandsInv DEF Refreshed, RefreshFails, ClientInv, ClientType, sendVars

LEMMA FailsClient ==
  ASSUME ClientInv, NEW l \in Lease, ConnectFails(l) \/ Fails(l)
  PROVE  ClientInv'
<1>1. held[l] # NoClient /\ dropping[l] = NoClient
  BY DEF ClientInv, StageAt, ConnectFails, Fails
<1>2. \A s \in {"built", "failed"} : s \in Stage /\ StageAt(s, held[l], dropping[l])
  BY <1>1 DEF Stage, StageAt
<1>3. PICK s \in {"built", "failed"} : Goto(l, s)
  BY DEF ConnectFails, Fails
<1>4. pool' = Invalidate(pool, held[l]) \/ pool' = pool
  BY DEF ConnectFails, Fails
<1>5. UNCHANGED <<held, dropping>>  BY DEF ConnectFails, Fails
<1>6. Lands(l, Stage)
  BY <1>1, <1>2, <1>3, <1>4, <1>5, InvalidateLands, StageLands
<1>7. QED
  BY <1>6, LandsInv DEF ConnectFails, Fails, ClientInv, ClientType, sendVars

LEMMA PoolTimeoutClient ==
  ASSUME ClientInv, NEW l \in Lease, PoolTimeout(l)
  PROVE  ClientInv'
<1> DEFINE q == Invalidate(pool, held[l])
<1>1. held[l] # NoClient /\ dropping[l] = NoClient
  BY DEF ClientInv, StageAt, PoolTimeout
<1>2. ASSUME pool' = q, Goto(l, "failed"), UNCHANGED <<held, dropping>>
      PROVE  Lands(l, Stage)
  <2>1. "failed" \in Stage /\ StageAt("failed", held[l], dropping[l])
    BY <1>1 DEF Stage, StageAt
  <2>2. QED  BY <1>1, <1>2, <2>1, InvalidateLands
<1>3. ASSUME RefreshAndSend(l, q) PROVE Lands(l, Stage)
  <2>1. /\ PoolInv(q, held) /\ Keeps(pool, q)
        /\ pool.mapped = {} => q = pool
    BY <1>1, InvalidateInv DEF ClientInv
  <2>2. CloserInv(q, dropping)  BY <2>1, KeepsClosers DEF ClientInv
  <2>3. Own(q, held, req)  BY <2>1, KeepsOwn DEF ClientInv, Keeps
  <2>4. closed => q.mapped = {} /\ q.tasks \subseteq pool.tasks
    BY <2>1 DEF ClientInv, Drained
  <2> HIDE DEF q
  <2>5. Lands(l, {"sending", "refreshing", "built", "failed"})
    BY <1>1, <1>3, <2>1, <2>2, <2>3, <2>4, RefreshLands
  <2>6. QED  BY <2>5, LandsWider DEF Stage
<1>4. Lands(l, Stage)  BY <1>2, <1>3 DEF PoolTimeout
<1>5. replayed' \in [Lease -> BOOLEAN]
  BY DEF PoolTimeout, ClientInv, ClientType
<1>6. QED
  BY <1>4, <1>5, LandsInv DEF PoolTimeout, ClientInv, ClientType

LEMMA AcloseClientStep ==
  ASSUME ClientInv, NEW l \in Lease,
         Aclose(l) \/ AcloseClient(l) \/ ClientClosed(l)
  PROVE  ClientInv'
<1>1. /\ HeldType(held) /\ HeldType(dropping) /\ PoolInv(pool, held)
      /\ Own(pool, held, req) /\ CloserInv(pool, dropping)
      /\ closed => pool.mapped = {}
  BY DEF ClientInv, ClientType, PoolInv, Drained
<1>2. StageAt(pc[l], held[l], dropping[l])  BY DEF ClientInv
<1>3. /\ replayed \in [Lease -> BOOLEAN] /\ connects \in [Lease -> Nat]
      /\ req \in [Lease -> Request] /\ AnyRequest \in Request
  BY ConstantsAssumption DEF ClientInv, ClientType, AnyRequest
<1>4. ASSUME held[l] # NoClient, dropping[l] = NoClient,
             pool' = Release(pool, held[l]), held' = [held EXCEPT ![l] = NoClient],
             NEW d, d = IF LastOfRetired(pool, held[l]) THEN held[l] ELSE NoClient,
             dropping' = [dropping EXCEPT ![l] = d],
             NEW s \in {"idle", "closing"}, Goto(l, s), s = "closing" <=> d # NoClient
      PROVE  Lands(l, Stage)
  <2>1. /\ PoolInv(pool', held') /\ pool'.mapped = pool.mapped
        /\ pool'.tasks = pool.tasks
    BY <1>1, <1>4, ReleaseInv
  <2>2. Own(pool', held', req)  BY <1>1, <1>4, ReleaseOwn
  <2>3. CloserInv(pool', dropping')  BY <1>1, <1>4, ReleaseClosers
  <2>4. d \in Client \cup {NoClient}  BY <1>1, <1>4 DEF HeldType
  <2>5. s \in Stage /\ StageAt(s, NoClient, d)  BY <1>4 DEF Stage, StageAt
  <2>6. QED  BY <1>1, <1>4, <2>1, <2>2, <2>3, <2>4, <2>5 DEF Lands
<1>5. ASSUME Aclose(l) PROVE Lands(l, Stage) /\ held'[l] = NoClient
  <2>1. dropping[l] = NoClient /\ Goto(l, "idle") /\ UNCHANGED dropping
    BY <1>2, <1>5 DEF StageAt, Aclose, GiveBack
  <2>2. held' = [held EXCEPT ![l] = NoClient] /\ held'[l] = NoClient
    BY <1>1, <1>5 DEF Aclose, HeldType
  <2>3. CASE held[l] = NoClient
    <3>1. UNCHANGED <<pool, held>>
      BY <1>1, <1>5, <2>2, <2>3 DEF Aclose, HeldType
    <3>2. "idle" \in Stage /\ StageAt("idle", held[l], dropping[l])
      BY <2>1, <2>3 DEF Stage, StageAt
    <3>3. QED  BY <2>1, <2>2, <3>1, <3>2, StageLands
  <2>4. CASE held[l] # NoClient
    <3>1. ~LastOfRetired(pool, held[l]) /\ pool' = Release(pool, held[l])
      BY <1>5, <2>4 DEF Aclose
    <3>2. dropping' = [dropping EXCEPT ![l] = NoClient]
      BY <1>1, <2>1 DEF HeldType
    <3>3. QED  BY <1>4, <2>1, <2>2, <2>4, <3>1, <3>2
  <2>5. QED  BY <2>3, <2>4
<1>6. ASSUME AcloseClient(l) PROVE Lands(l, Stage) /\ UNCHANGED <<req, sendVars>>
  <2>1. /\ held[l] # NoClient /\ LastOfRetired(pool, held[l])
        /\ pool' = Release(pool, held[l])
        /\ held' = [held EXCEPT ![l] = NoClient]
        /\ dropping' = [dropping EXCEPT ![l] = held[l]]
        /\ Goto(l, "closing") /\ UNCHANGED <<req, sendVars>>
    BY <1>6 DEF AcloseClient
  <2>2. dropping[l] = NoClient  BY <1>2, <1>6 DEF StageAt, AcloseClient
  <2>3. QED  BY <1>4, <2>1, <2>2
<1>7. ASSUME ClientClosed(l) PROVE Lands(l, Stage) /\ held'[l] = NoClient
  <2>1. /\ dropping[l] # NoClient /\ held[l] = NoClient /\ Goto(l, "idle")
        /\ dropping' = [dropping EXCEPT ![l] = NoClient]
        /\ pool' = Closed(pool, dropping[l]) /\ held' = held
    BY <1>2, <1>7 DEF StageAt, ClientClosed, GiveBack
  <2>2. /\ PoolInv(pool', held') /\ Own(pool', held', req)
        /\ CloserInv(pool', dropping')
        /\ closed => pool'.mapped = {} /\ pool'.tasks \subseteq pool.tasks
    BY <2>1, ClosedClosers
  <2>3. held' = [held EXCEPT ![l] = NoClient]  BY <1>1, <2>1 DEF HeldType
  <2>4. "idle" \in Stage /\ StageAt("idle", NoClient, NoClient)
    BY DEF Stage, StageAt
  <2>5. QED  BY <2>1, <2>2, <2>3, <2>4 DEF Lands
<1>8. CASE AcloseClient(l)
  BY <1>3, <1>6, <1>8, LandsInv DEF AcloseClient, sendVars
<1>9. CASE Aclose(l) \/ ClientClosed(l)
  <2>1. GiveBack(l) /\ UNCHANGED closeVars  BY <1>9 DEF Aclose, ClientClosed
  <2>2. /\ req' \in [Lease -> Request]
        /\ \A m \in Lease : m # l => req'[m] = req[m]
    BY <1>3, <2>1 DEF GiveBack
  <2>3. replayed' \in [Lease -> BOOLEAN] /\ connects' \in [Lease -> Nat]
    BY <1>3, <2>1 DEF GiveBack
  <2>4. QED  BY <1>5, <1>7, <1>9, <2>1, <2>2, <2>3, LandsInv
<1>10. QED  BY <1>8, <1>9

(* A step of the pool itself: no lease moves.                              *)
LEMMA PoolStepClient ==
  ASSUME ClientInv,
         UNCHANGED leaseVars, PoolInv(pool', held), Keeps(pool, pool'),
         closer' \in {"running", "gathering", "done", "raised"}, awaited' \subseteq Client,
         Drained'
  PROVE  ClientInv'
<1>1. UNCHANGED <<pc, req, held, dropping, replayed, connects>>
  BY DEF leaseVars
<1>2. CloserInv(pool', dropping)  BY KeepsClosers DEF ClientInv
<1>3. Own(pool', held, req)  BY KeepsOwn DEF ClientInv, Keeps
<1>4. ClientType'  BY <1>1 DEF ClientInv, ClientType
<1>5. QED  BY <1>1, <1>2, <1>3, <1>4 DEF ClientInv

LEMMA PoolStepsClient ==
  ASSUME ClientInv,
         \/ \E c \in Client : CleanupEnds(c)
         \/ PoolingOff \/ ShutDown \/ Gathered \/ UNCHANGED vars
  PROVE  ClientInv'
<1>1. /\ PoolInv(pool, held) /\ Drained /\ awaited \subseteq Client
      /\ closer \in {"running", "gathering", "done", "raised"} /\ pool.tasks \subseteq Client
  BY DEF ClientInv, ClientType, PoolInv, Shape, PoolType
<1>2. /\ PoolInv(RetireAll(pool), held) /\ Keeps(pool, RetireAll(pool))
      /\ RetireAll(pool).mapped = {}
      /\ pool.mapped = {} => RetireAll(pool).tasks = pool.tasks
  BY <1>1, RetireInv, RetireShape DEF RetireAll, PoolInv
<1>3. CASE \E c \in Client : CleanupEnds(c)
  <2>1. PICK c \in pool.tasks : CleanupEnds(c)  BY <1>3 DEF CleanupEnds
  <2>2. c \in pool.closing  BY <1>1 DEF PoolInv, Shape
  <2>3. /\ pool' = Closed(pool, c) /\ UNCHANGED <<leaseVars, awaited>>
        /\ closer' = closer \/ (closer = "gathering" /\ closer' = "raised")
    BY <2>1 DEF CleanupEnds
  <2>4. /\ PoolInv(pool', held) /\ pool'.mapped = pool.mapped
        /\ pool'.closing = pool.closing \ {c} /\ pool'.tasks = pool.tasks \ {c}
        /\ \A d \in pool.open : pool'.key[d] = pool.key[d]
    BY <1>1, <2>2, <2>3, ClosedInv
  <2>5. Keeps(pool, pool')  BY <2>1, <2>4 DEF Keeps
  <2>6. Drained'  BY <1>1, <2>3, <2>4 DEF Drained, closed
  <2>7. QED  BY <1>1, <2>3, <2>4, <2>5, <2>6, PoolStepClient
<1>4. CASE PoolingOff
  <2>1. pool' = RetireAll(pool) /\ UNCHANGED <<leaseVars, closeVars>>
    BY <1>4 DEF PoolingOff
  <2>2. Drained'
    BY <1>1, <1>2, <2>1 DEF Drained, closed, closeVars
  <2>3. QED  BY <1>1, <1>2, <2>1, <2>2, PoolStepClient DEF closeVars
<1>5. CASE ShutDown
  <2>1. /\ pool' = RetireAll(pool) /\ awaited' = pool'.tasks
        /\ closer' = IF awaited' = {} THEN "done" ELSE "gathering"
        /\ UNCHANGED leaseVars
    BY <1>5 DEF ShutDown
  <2>2. awaited' \subseteq Client
    BY <1>2, <2>1 DEF PoolInv, Shape, PoolType
  <2>3. Drained'  BY <1>2, <2>1 DEF Drained, closed
  <2>4. QED  BY <1>2, <2>1, <2>2, <2>3, PoolStepClient
<1>6. CASE Gathered
  <2>1. /\ closer = "gathering" /\ awaited \cap pool.tasks = {}
        /\ pool' = [pool EXCEPT !.tasks = {}]
        /\ closer' = "done" /\ awaited' = {} /\ UNCHANGED leaseVars
    BY <1>6 DEF Gathered
  <2>2. pool.tasks = {}  BY <1>1, <2>1 DEF Drained
  <2>3. pool' = pool  BY <1>1, <2>1, <2>2 DEF PoolInv, Shape, PoolType
  <2>4. Drained'  BY <1>1, <2>1, <2>2, <2>3 DEF Drained, closed
  <2>5. Keeps(pool, pool')  BY <2>3 DEF Keeps
  <2>6. QED  BY <1>1, <2>1, <2>3, <2>4, <2>5, PoolStepClient
<1>7. CASE UNCHANGED vars
  BY <1>7 DEF vars, ClientInv, ClientType, Drained, closed
<1>8. QED  BY <1>3, <1>4, <1>5, <1>6, <1>7

LEMMA ClientInit == Init => ClientInv
<1> SUFFICES ASSUME Init PROVE ClientInv  OBVIOUS
<1>1. ClientType
  BY ConstantsAssumption DEF Init, ClientType, Stage, HeldType, AnyRequest
<1>2. HeldType(held) /\ \A l \in Lease : held[l] = NoClient
  BY DEF Init, HeldType
<1>3. Shape(pool)  BY DEF Init, Shape, PoolType
<1>4. Counted(pool, held)
  <2>1. \A c \in Client : Holders(held, c) = {}
    BY <1>2, ConstantsAssumption DEF Holders
  <2>2. Cardinality({}) = 0  BY FS_EmptySet
  <2>3. QED  BY <2>1, <2>2 DEF Counted, Init
<1>5. PoolInv(pool, held)  BY <1>2, <1>3, <1>4 DEF PoolInv
<1>6. CloserInv(pool, dropping)  BY DEF Init, CloserInv
<1>7. \A l \in Lease : StageAt(pc[l], held[l], dropping[l])
  BY DEF Init, StageAt
<1>8. Own(pool, held, req)  BY <1>2 DEF Own
<1>9. Drained  BY DEF Init, Drained, closed
<1>10. QED  BY <1>1, <1>5, <1>6, <1>7, <1>8, <1>9 DEF ClientInv

LEMMA ClientStep ==
  ASSUME ClientInv, [Next]_vars
  PROVE  ClientInv'
BY MovesClient, BuildClient, SendClient, RefreshedClient, FailsClient,
   PoolTimeoutClient, AcloseClientStep, PoolStepsClient DEF Next, OwnerStep

LEMMA ClientInvariant == Spec => []ClientInv
<1>1. ClientInv /\ [Next]_vars => ClientInv'  BY ClientStep
<1>2. QED  BY <1>1, ClientInit, PTL DEF Spec

(* The state keeps the shape the code gives it, for every number of        *)
(* leases, clients, generations, timeouts, lanes and slots.                *)
THEOREM TypeTheorem == Spec => []TypeOK
<1>1. AdmissionInv /\ ClientInv => TypeOK
  BY DEF AdmissionInv, AdmissionType, ClientInv, ClientType, PoolInv, Shape,
         HeldType, TypeOK
<1>2. QED  BY <1>1, AdmissionInvariant, ClientInvariant, PTL

(* Whatever retires clients - a failed request, a new generation, the      *)
(* bound on the map, a settings change, close() - the client a lease holds *)
(* stays open.                                                             *)
THEOREM HeldClientTheorem == Spec => []HeldClientOpen
<1>1. ClientInv => HeldClientOpen
  BY DEF ClientInv, PoolInv, HeldClientOpen
<1>2. QED  BY <1>1, ClientInvariant, PTL

(* No open client is forgotten: it is mapped or some lease holds it.       *)
THEOREM NoOrphanTheorem == Spec => []NoOrphanClient
<1>1. ClientInv => NoOrphanClient
  <2>1. SUFFICES ASSUME ClientInv, NEW c \in pool.open, c \notin pool.mapped
                 PROVE  \E l \in Lease : held[l] = c
    BY DEF NoOrphanClient
  <2>2. c \in Client /\ pool.active[c] # 0
    BY <2>1 DEF ClientInv, PoolInv, Shape, PoolType
  <2>3. Cardinality(Holders(held, c)) # 0
    BY <2>1, <2>2 DEF ClientInv, PoolInv, Counted
  <2>4. Holders(held, c) # {}  BY <2>3, FS_EmptySet
  <2>5. QED  BY <2>4 DEF Holders
<1>2. QED  BY <1>1, ClientInvariant, PTL

(* Every close of a client has exactly one closer.                         *)
THEOREM OneCloserTheorem == Spec => []OneCloser
<1>1. ClientInv => OneCloser
  <2>1. SUFFICES ASSUME ClientInv, NEW c \in pool.closing
                 PROVE  /\ c \in pool.tasks \/ \E l \in Lease : dropping[l] = c
                        /\ \A l \in Lease : dropping[l] = c =>
                             c \notin pool.tasks /\ \A m \in Lease : dropping[m] = c => m = l
    BY DEF OneCloser
  <2>2. c # NoClient
    BY <2>1, ConstantsAssumption DEF ClientInv, PoolInv, Shape, PoolType
  <2>3. QED  BY <2>1, <2>2 DEF ClientInv, CloserInv
<1>2. QED  BY <1>1, ClientInvariant, PTL

(* A lease only ever uses a client made for its own origin, proxy, token   *)
(* and timeout.                                                            *)
THEOREM OwnIdentityTheorem == Spec => []OwnIdentity
<1>1. ClientInv => OwnIdentity
  <2>1. ClientInv => \A l \in Lease : held[l] # NoClient => pool.key[held[l]] # NoKey
    BY ConstantsAssumption DEF ClientInv, PoolInv, Shape
  <2>2. QED  BY <2>1 DEF ClientInv, Own, OwnIdentity
<1>2. QED  BY <1>1, ClientInvariant, PTL

(* A closed pool maps nothing, and once close() returned every client left *)
(* is one that a lease uses or closes.                                     *)
THEOREM DrainedTheorem == Spec => []ClosedPoolDrained
<1>1. ClientInv => ClosedPoolDrained
  <2>1. SUFFICES ASSUME ClientInv, closer = "done",
                        NEW c \in pool.open \cup pool.closing
                 PROVE  \E l \in Lease : held[l] = c \/ dropping[l] = c
    BY DEF ClosedPoolDrained, ClientInv, Drained, closed
  <2>2. pool.tasks = {} /\ pool.mapped = {}
    BY <2>1 DEF ClientInv, Drained, closed
  <2>3. CASE c \in pool.open
    <3>1. c \in Client /\ pool.active[c] # 0
      BY <2>1, <2>2, <2>3 DEF ClientInv, PoolInv, Shape, PoolType
    <3>2. Cardinality(Holders(held, c)) # 0
      BY <2>1, <3>1 DEF ClientInv, PoolInv, Counted
    <3>3. Holders(held, c) # {}  BY <3>2, FS_EmptySet
    <3>4. QED  BY <3>3 DEF Holders
  <2>4. CASE c \in pool.closing
    BY <2>1, <2>2, <2>4 DEF ClientInv, CloserInv
  <2>5. QED  BY <2>1, <2>3, <2>4
<1>2. QED  BY <1>1, ClientInvariant, PTL

(* A slot that is free while somebody waits is on its way to a waiter: no  *)
(* order of timeouts, cancellations and releases strands one.              *)
THEOREM WakeupTheorem == Spec => []NoLostWakeup
<1>1. Init => NoLostWakeup  BY DEF Init, NoLostWakeup
<1>2. ASSUME AdmissionInv, NoLostWakeup, [Next]_vars PROVE NoLostWakeup'
  <2> USE DEF NoLostWakeup
  <2>1. free \in Nat /\ queue \in Seq(Lease)
    BY <1>2 DEF AdmissionInv, AdmissionType
  <2>2. ASSUME NEW g, SlotFreed(queue, g) PROVE NoLostWakeup'
    BY <2>1, <2>2 DEF SlotFreed
  <2>3. ASSUME UNCHANGED semVars PROVE NoLostWakeup'
    BY <1>2, <2>3 DEF semVars
  <2>4. ASSUME NEW l \in Lease, OwnerStep(l) PROVE NoLostWakeup'
    <3>1. CASE Send(l)
      BY <1>2, <2>1, <3>1 DEF Send, Locked
    <3>2. CASE SendWaits(l)
      BY <1>2, <2>1, <3>2 DEF SendWaits, Locked
    <3>3. CASE Resume(l)
      BY <1>2, <2>1, <3>3 DEF Resume
    <3>4. CASE GiveUp(l)
      <4>1. ASSUME NEW i \in 1..Len(queue), queue' = Without(queue, i),
                   UNCHANGED <<free, granted>>
            PROVE  NoLostWakeup'
        BY <1>2, <2>1, <4>1
      <4>2. QED  BY <2>2, <3>4, <4>1 DEF GiveUp
    <3>5. CASE Aclose(l) \/ ClientClosed(l)
      BY <2>2, <2>3, <3>5 DEF Aclose, ClientClosed, GiveBack
    <3>6. CASE \/ BuildRefused(l) \/ Build(l) \/ Refreshed(l) \/ RefreshFails(l)
               \/ PoolTimeout(l) \/ ConnectFails(l) \/ Fails(l)
               \/ SendReturns(l) \/ AcloseClient(l)
      BY <2>3, <3>6 DEF BuildRefused, Build, Refreshed, RefreshFails,
         PoolTimeout, ConnectFails, Fails, SendReturns, AcloseClient
    <3>7. QED
      BY <2>4, <3>1, <3>2, <3>3, <3>4, <3>5, <3>6 DEF OwnerStep
  <2>5. CASE \/ \E c \in Client : CleanupEnds(c)
             \/ PoolingOff \/ ShutDown \/ Gathered \/ UNCHANGED vars
             \/ \E l \in Lease, r \in Request : Open(l, r)
    BY <2>3, <2>5 DEF CleanupEnds, PoolingOff, ShutDown, Gathered, vars,
       semVars, Open
  <2>6. QED  BY <1>2, <2>4, <2>5 DEF Next
<1>3. QED  BY <1>1, <1>2, AdmissionInvariant, PTL DEF Spec

(* The semaphore is fair: nobody gets a slot before a lease that waits.    *)
THEOREM FairnessTheorem == Spec => NoOvertaking
<1> DEFINE Ordered ==
      \A l \in Lease : l \in admitted' \ admitted =>
        l \in granted \/ (queue = <<>> /\ granted = {})
<1>1. ASSUME Next PROVE Ordered
  <2>1. ASSUME NEW l \in Lease, Send(l) \/ Resume(l) PROVE Ordered
    BY <2>1 DEF Send, Resume, Locked
  <2>2. ASSUME NEW l \in Lease, OwnerStep(l), ~(Send(l) \/ Resume(l))
        PROVE  admitted' \subseteq admitted
    BY <2>2 DEF OwnerStep, BuildRefused, Build, SendWaits, GiveUp, Refreshed,
       RefreshFails, PoolTimeout, ConnectFails, Fails, SendReturns, Aclose,
       GiveBack, AcloseClient, ClientClosed
  <2>3. CASE \/ \E c \in Client : CleanupEnds(c)
             \/ PoolingOff \/ ShutDown \/ Gathered
             \/ \E l \in Lease, r \in Request : Open(l, r)
    BY <2>3 DEF CleanupEnds, PoolingOff, ShutDown, Gathered, Open
  <2>4. QED  BY <1>1, <2>1, <2>2, <2>3 DEF Next
<1>2. [Next]_vars => [Ordered]_vars  BY <1>1
<1>3. QED  BY <1>2, PTL DEF Spec, NoOvertaking

-----------------------------------------------------------------------------
(* A request goes out only on a client that nobody has retired.            *)

Live(l) ==
  pc'[l] = "sending" /\ (pc[l] # "sending" \/ held'[l] # held[l])
    => held'[l] \notin pool'.retired

(* Other leases neither move nor change hands.                             *)
Alone(l) ==
  /\ \E s \in Stage : Goto(l, s)
  /\ \E h \in Client \cup {NoClient} : held' = [held EXCEPT ![l] = h]

LEMMA AloneLive ==
  ASSUME ClientInv, NEW l \in Lease, Alone(l), Live(l)
  PROVE  \A m \in Lease : Live(m)
<1>1. \A m \in Lease : m # l => pc'[m] = pc[m] /\ held'[m] = held[m]
  BY DEF Alone, Goto, ClientInv, ClientType, PoolInv, HeldType
<1>2. QED  BY <1>1 DEF Live

LEMMA StageLive ==
  ASSUME ClientInv, NEW l \in Lease, NEW s \in Stage, s # "sending",
         Goto(l, s), held' = held \/ held' = [held EXCEPT ![l] = NoClient]
  PROVE  Alone(l) /\ Live(l)
<1>1. held = [held EXCEPT ![l] = held[l]] /\ held[l] \in Client \cup {NoClient}
  BY DEF ClientInv, PoolInv, HeldType
<1>2. pc'[l] = s  BY DEF Goto, ClientInv, ClientType
<1>3. QED  BY <1>1, <1>2 DEF Alone, Live

LEMMA AcquireLive ==
  ASSUME ClientInv, NEW l \in Lease, NEW p, NEW next \in {"built", "sending", "failed"},
         PoolInv(p, [held EXCEPT ![l] = NoClient]), Acquire(l, p, next)
  PROVE  Alone(l) /\ Live(l)
<1>1. HeldType(held) /\ req \in [Lease -> Request] /\ pc \in [Lease -> Stage]
  BY DEF ClientInv, ClientType, PoolInv
<1>2. PICK h \in Client \cup {NoClient} :
        /\ held' = [held EXCEPT ![l] = h]
        /\ h # NoClient => Goto(l, next) /\ h \notin pool'.retired
        /\ h = NoClient => Goto(l, "failed")
  BY <1>1, AcquireStep
<1>3. held'[l] = h  BY <1>1, <1>2 DEF HeldType
<1>4. h = NoClient => pc'[l] = "failed"  BY <1>1, <1>2 DEF Goto
<1>5. Alone(l)  BY <1>2 DEF Alone, Stage
<1>6. Live(l)  BY <1>2, <1>3, <1>4 DEF Live
<1>7. QED  BY <1>5, <1>6

LEMMA RefreshLive ==
  ASSUME ClientInv, NEW l \in Lease, NEW p, held[l] # NoClient,
         PoolInv(p, held), RefreshAndSend(l, p)
  PROVE  Alone(l) /\ Live(l)
<1>1. CASE /\ held[l] \notin p.retired /\ pool' = p
           /\ Goto(l, "sending") /\ held' = held
  <2>1. held = [held EXCEPT ![l] = held[l]] /\ held[l] \in Client \cup {NoClient}
    BY DEF ClientInv, PoolInv, HeldType
  <2>2. QED  BY <1>1, <2>1 DEF Alone, Live, Stage
<1>2. CASE Goto(l, "refreshing") /\ held' = [held EXCEPT ![l] = NoClient]
  BY <1>2, StageLive DEF Stage
<1>3. CASE Acquire(l, Release(p, held[l]), "sending")
  <2>1. PoolInv(Release(p, held[l]), [held EXCEPT ![l] = NoClient])
    BY ReleaseInv
  <2>2. QED  BY <1>3, <2>1, AcquireLive
<1>4. QED  BY <1>1, <1>2, <1>3 DEF RefreshAndSend

LEMMA OwnerLive ==
  ASSUME ClientInv, NEW l \in Lease,
         OwnerStep(l) \/ \E r \in Request : Open(l, r)
  PROVE  Alone(l) /\ Live(l)
<1>1. StageAt(pc[l], held[l], dropping[l]) /\ PoolInv(pool, held)
  BY DEF ClientInv
<1>2. CASE \E r \in Request : Open(l, r)
  BY <1>2, StageLive DEF Open, Stage
<1>3. CASE \/ BuildRefused(l) \/ SendWaits(l) \/ GiveUp(l) \/ RefreshFails(l)
           \/ ConnectFails(l) \/ Fails(l) \/ SendReturns(l)
  <2>1. held' = held
    BY <1>3 DEF BuildRefused, SendWaits, GiveUp, RefreshFails, ConnectFails,
       Fails, SendReturns
  <2>2. \E s \in {"waiting", "failed", "built", "streaming"} : Goto(l, s)
    BY <1>3 DEF BuildRefused, SendWaits, GiveUp, RefreshFails, ConnectFails,
       Fails, SendReturns
  <2>3. QED  BY <2>1, <2>2, StageLive DEF Stage
<1>4. CASE Aclose(l) \/ AcloseClient(l) \/ ClientClosed(l)
  <2>1. held' = held \/ held' = [held EXCEPT ![l] = NoClient]
    BY <1>4 DEF Aclose, AcloseClient, ClientClosed
  <2>2. \E s \in {"idle", "closing"} : Goto(l, s)
    BY <1>4 DEF Aclose, AcloseClient, ClientClosed, GiveBack
  <2>3. QED  BY <2>1, <2>2, StageLive DEF Stage
<1>5. CASE Build(l)
  <2>1. held[l] = NoClient  BY <1>1, <1>5 DEF Build, StageAt
  <2>2. [held EXCEPT ![l] = NoClient] = held
    BY <1>1, <2>1 DEF PoolInv, HeldType
  <2>3. PICK next \in {"built", "failed"} : Acquire(l, pool, next)
    BY <1>5 DEF Build
  <2>4. QED  BY <1>1, <2>2, <2>3, AcquireLive
<1>6. CASE Send(l) \/ Resume(l)
  <2>1. held[l] # NoClient /\ RefreshAndSend(l, pool)
    BY <1>1, <1>6 DEF Send, Resume, StageAt
  <2>2. QED  BY <1>1, <2>1, RefreshLive
<1>7. CASE Refreshed(l)
  <2>1. pc[l] = "refreshing" /\ Acquire(l, Closed(pool, dropping[l]), "sending")
    BY <1>7 DEF Refreshed
  <2>2. dropping[l] # NoClient /\ held[l] = NoClient
    BY <1>1, <2>1 DEF StageAt
  <2>3. [held EXCEPT ![l] = NoClient] = held
    BY <1>1, <2>2 DEF PoolInv, HeldType
  <2>4. PoolInv(Closed(pool, dropping[l]), held)  BY <2>2, ClosedClosers
  <2>5. QED  BY <2>1, <2>3, <2>4, AcquireLive
<1>8. CASE PoolTimeout(l)
  <2>1. held[l] # NoClient  BY <1>1, <1>8 DEF PoolTimeout, StageAt
  <2>2. ASSUME Goto(l, "failed"), held' = held PROVE Alone(l) /\ Live(l)
    BY <2>2, StageLive DEF Stage
  <2>3. ASSUME RefreshAndSend(l, Invalidate(pool, held[l]))
        PROVE  Alone(l) /\ Live(l)
    <3>1. PoolInv(Invalidate(pool, held[l]), held)
      BY <1>1, <2>1, InvalidateInv
    <3>2. QED  BY <2>1, <2>3, <3>1, RefreshLive
  <2>4. QED  BY <1>8, <2>2, <2>3 DEF PoolTimeout
<1>9. QED
  BY <1>2, <1>3, <1>4, <1>5, <1>6, <1>7, <1>8 DEF OwnerStep

(* A request is only ever sent through a client that is not retired.       *)
THEOREM LiveClientTheorem == Spec => SendsOnLiveClient
<1> DEFINE AllLive ==
      \A l \in Lease :
        pc'[l] = "sending" /\ (pc[l] # "sending" \/ held'[l] # held[l])
          => held'[l] \notin pool'.retired
<1>1. ASSUME ClientInv, Next PROVE AllLive
  <2>1. ASSUME NEW l \in Lease, OwnerStep(l) \/ \E r \in Request : Open(l, r)
        PROVE  AllLive
    BY <1>1, <2>1, OwnerLive, AloneLive DEF Live
  <2>2. CASE \/ \E c \in Client : CleanupEnds(c)
             \/ PoolingOff \/ ShutDown \/ Gathered
    BY <2>2 DEF CleanupEnds, PoolingOff, ShutDown, Gathered, leaseVars
  <2>3. QED  BY <1>1, <2>1, <2>2 DEF Next
<1>2. ClientInv /\ [Next]_vars => [AllLive]_vars  BY <1>1
<1>3. QED  BY <1>2, ClientInvariant, PTL DEF Spec, SendsOnLiveClient

(* Reservations and slots balance, waiters are served from free slots, and *)
(* nothing is left in a closed pool: the four invariants of admission.       *)
THEOREM AdmissionTheorem == Spec => []SlotsAccounted
  BY TypeTheorem, CapacityTheorem, WakeupTheorem, DrainedTheorem,
     PTL DEF SlotsAccounted

(* A client stays open while it is held, is always someone's to close, and  *)
(* is never used for another configuration.                                 *)
THEOREM ClientLifeTheorem == Spec => []ClientLife
  BY HeldClientTheorem, NoOrphanTheorem, OneCloserTheorem, OwnIdentityTheorem,
     PTL DEF ClientLife

-----------------------------------------------------------------------------
(* The client map: its bound, and the order in which eviction goes.        *)

(* The order of the entries: no entry is older than itself, and older than *)
(* an older one is older.                                                  *)
Aged(p) ==
  /\ \A c \in p.mapped : <<c, c>> \notin p.before
  /\ \A c, d, e \in p.mapped :
       <<c, d>> \in p.before /\ <<d, e>> \in p.before => <<c, e>> \in p.before

Bounded(p) == IsFiniteSet(p.mapped) /\ Cardinality(p.mapped) <= MaxEntries

MapInv(p) == Aged(p) /\ Bounded(p)

(* q maps only clients that p maps, in the order they have there.          *)
Fewer(p, q) ==
  /\ q.mapped \subseteq p.mapped
  /\ \A c, d \in q.mapped : <<c, d>> \in q.before <=> <<c, d>> \in p.before

LEMMA FewerInv ==
  ASSUME NEW p, NEW q, Fewer(p, q)
  PROVE  /\ Aged(p) => Aged(q)
         /\ MapInv(p) => MapInv(q)
<1>1. Aged(p) => Aged(q)  BY DEF Fewer, Aged
<1>2. ASSUME Bounded(p) PROVE Bounded(q)
  <2>1. /\ IsFiniteSet(q.mapped) /\ Cardinality(q.mapped) <= Cardinality(p.mapped)
        /\ Cardinality(q.mapped) \in Nat /\ Cardinality(p.mapped) \in Nat
    BY <1>2, FS_Subset, FS_CardinalityType DEF Fewer, Bounded
  <2>2. QED  BY <1>2, <2>1, ConstantsAssumption DEF Bounded
<1>3. QED  BY <1>1, <1>2 DEF MapInv

LEMMA RetireFewer ==
  ASSUME NEW p \in PoolType, NEW C
  PROVE  /\ Fewer(p, Retire(p, C))
         /\ Retire(p, C).mapped = p.mapped \ C
BY DEF Retire, PoolType, Fewer

LEMMA RotateFewer ==
  ASSUME NEW p \in PoolType, NEW g
  PROVE  Fewer(p, Rotate(p, g))
<1>1. CASE g = p.gen  BY <1>1 DEF Rotate, Fewer
<1>2. CASE g # p.gen
  BY <1>2 DEF Rotate, RetireAll, Retire, PoolType, Fewer
<1>3. QED  BY <1>1, <1>2

LEMMA ReleaseFewer ==
  ASSUME NEW p \in PoolType, NEW c
  PROVE  /\ Fewer(p, Release(p, c)) /\ Fewer(p, Closed(p, c))
         /\ Fewer(p, Occupy(p, c)) /\ Fewer(p, Invalidate(p, c))
<1>1. Fewer(p, Release(p, c))  BY DEF Release, PoolType, Fewer
<1>2. Fewer(p, Closed(p, c))  BY DEF Closed, PoolType, Fewer
<1>3. Fewer(p, Occupy(p, c))  BY DEF Occupy, PoolType, Fewer
<1>4. Fewer(p, Invalidate(p, c))
  <2>1. Fewer(p, p)  BY DEF Fewer
  <2>2. QED  BY <2>1, RetireFewer DEF Invalidate
<1>5. QED  BY <1>1, <1>2, <1>3, <1>4

(* The client used last goes to the end of the order.                      *)
LEMMA NewestAged ==
  ASSUME NEW p, Aged(p), NEW c, NEW q,
         q.mapped = p.mapped \cup {c},
         q.before = Newest(p.before, p.mapped \ {c}, c)
  PROVE  Aged(q)
<1> DEFINE B == q.before
<1>1. \A d, e \in q.mapped :
        <<d, e>> \in B <=> /\ d # c
                           /\ e = c \/ <<d, e>> \in p.before
  BY DEF Newest
<1> HIDE DEF B
<1>2. \A d \in q.mapped : d # c => d \in p.mapped  OBVIOUS
<1>3. QED  BY <1>1, <1>2 DEF Aged, B

LEMMA EvictMap ==
  ASSUME NEW p \in PoolType, Aged(p), IsFiniteSet(p.mapped),
         Cardinality(p.mapped) <= MaxEntries + 1
  PROVE  MapInv(Evict(p))
<1> DEFINE C == {c \in p.mapped : \A d \in p.mapped : <<d, c>> \notin p.before}
<1>1. CASE Cardinality(p.mapped) <= MaxEntries
  BY <1>1 DEF Evict, MapInv, Bounded
<1>2. CASE ~(Cardinality(p.mapped) <= MaxEntries)
  <2>1. p.mapped # {}
    BY <1>2, FS_EmptySet, ConstantsAssumption
  <2>2. PICK c \in C : TRUE  BY <2>1, OldestExists DEF Aged
  <2>3. Evict(p) = Retire(p, C)  BY <1>2 DEF Evict
  <2>4. Evict(p).mapped = p.mapped \ C /\ Aged(Evict(p))
    BY <2>3, RetireFewer, FewerInv
  <2> HIDE DEF C
  <2>5. c \in p.mapped /\ p.mapped \ C \subseteq p.mapped \ {c}
    BY <2>2 DEF C
  <2>6. /\ IsFiniteSet(p.mapped \ {c})
        /\ Cardinality(p.mapped \ {c}) = Cardinality(p.mapped) - 1
        /\ Cardinality(p.mapped) \in Nat
    BY <2>5, FS_RemoveElement, FS_CardinalityType
  <2>7. /\ IsFiniteSet(p.mapped \ C)
        /\ Cardinality(p.mapped \ C) <= Cardinality(p.mapped \ {c})
        /\ Cardinality(p.mapped \ C) \in Nat
    BY <2>5, <2>6, FS_Subset, FS_CardinalityType
  <2>8. Cardinality(p.mapped \ C) <= MaxEntries
    BY <2>6, <2>7, ConstantsAssumption
  <2>9. QED  BY <2>4, <2>7, <2>8 DEF MapInv, Bounded
<1>3. QED  BY <1>1, <1>2

LEMMA AcquiredMap ==
  ASSUME NEW p, NEW h, PoolInv(p, h), MapInv(p), NEW r \in Request,
         NEW a \in Acquired(p, r)
  PROVE  MapInv(a.pool)
<1> DEFINE p0 == Rotate(p, r.gen)
<1>1. PoolInv(p0, h) /\ p0.gen = r.gen  BY RotateInv DEF Request
<1>2. p0 \in PoolType /\ p \in PoolType  BY <1>1 DEF PoolInv, Shape
<1>3. MapInv(p0)  BY <1>2, RotateFewer, FewerInv
<1> HIDE DEF p0
<1>4. CASE Reused(p0, r) # {}
  <2>1. PICK c \in Reused(p0, r) :
          a = [pool |-> Occupy(Touch(p0, c), c), client |-> c]
    BY <1>4 DEF Acquired, p0
  <2>2. c \in p0.mapped
    BY <2>1 DEF Reused, Idle, LowestLane, LeastActive, Serving
  <2> DEFINE t == Touch(p0, c)
  <2>3. /\ t \in PoolType  BY <1>1, <2>2, TouchInv DEF PoolInv, Shape
  <2>4. /\ t.mapped = p0.mapped \cup {c}
        /\ t.before = Newest(p0.before, p0.mapped \ {c}, c)
    BY <1>2, <2>2 DEF Touch, PoolType
  <2> HIDE DEF t
  <2>5. MapInv(t)
    BY <1>3, <2>2, <2>4, NewestAged DEF MapInv, Bounded
  <2>6. QED  BY <2>1, <2>3, <2>5, ReleaseFewer, FewerInv DEF t
<1>5. CASE Reused(p0, r) = {}
  <2>1. PICK c \in Unused(p0), n \in FirstLane(p0, r) :
          a = [pool |-> Occupy(Evict(Create(p0, c, NewKey(r, n))), c),
               client |-> c]
    BY <1>5 DEF Acquired, p0
  <2> DEFINE p1 == Create(p0, c, NewKey(r, n))
  <2>2. n \in FreeLanes(p0, r) /\ c \notin p0.mapped
    BY <2>1 DEF FirstLane, Unused
  <2>3. /\ PoolInv(p1, h) /\ p1 \in PoolType
        /\ (p1.mapped \ {c}) \X {c} \subseteq p1.before /\ c \in p1.mapped
    BY <1>1, <2>1, <2>2, CreateInv DEF PoolInv, Shape
  <2>4. /\ p1.mapped = p0.mapped \cup {c}
        /\ p1.before = Newest(p0.before, p0.mapped \ {c}, c)
    <3>1. p0.mapped \ {c} = p0.mapped  BY <2>2
    <3>2. QED  BY <1>2, <3>1 DEF Create, PoolType
  <2> HIDE DEF p1
  <2>5. Aged(p1)  BY <1>3, <2>4, NewestAged DEF MapInv
  <2>6. /\ IsFiniteSet(p1.mapped)
        /\ Cardinality(p1.mapped) = Cardinality(p0.mapped) + 1
        /\ Cardinality(p0.mapped) \in Nat
    BY <1>3, <2>2, <2>4, FS_AddElement, FS_CardinalityType DEF MapInv, Bounded
  <2>7. Cardinality(p1.mapped) <= MaxEntries + 1
    BY <1>3, <2>6, ConstantsAssumption DEF MapInv, Bounded
  <2>8. MapInv(Evict(p1))  BY <2>3, <2>5, <2>6, <2>7, EvictMap
  <2>9. Evict(p1) \in PoolType
    BY <2>3, EvictInv DEF PoolInv, Shape
  <2>10. QED  BY <2>1, <2>8, <2>9, ReleaseFewer, FewerInv DEF p1
<1>6. QED  BY <1>4, <1>5

LEMMA AcquireMap ==
  ASSUME NEW l \in Lease, NEW p, NEW h, NEW next, PoolInv(p, h), MapInv(p),
         req \in [Lease -> Request], Acquire(l, p, next)
  PROVE  MapInv(pool')
<1>1. req[l] \in Request /\ p \in PoolType  BY DEF PoolInv, Shape
<1>2. MapInv(Rotate(p, req[l].gen))  BY <1>1, RotateFewer, FewerInv
<1>3. \A a \in Acquired(p, req[l]) : MapInv(a.pool)  BY <1>1, AcquiredMap
<1>4. QED  BY <1>2, <1>3 DEF Acquire

LEMMA RefreshMap ==
  ASSUME NEW l \in Lease, NEW p, PoolInv(p, held), MapInv(p), held[l] # NoClient,
         req \in [Lease -> Request], RefreshAndSend(l, p)
  PROVE  MapInv(pool')
<1>1. MapInv(Release(p, held[l])) /\ PoolInv(Release(p, held[l]), [held EXCEPT ![l] = NoClient])
  <2>1. p \in PoolType  BY DEF PoolInv, Shape
  <2>2. MapInv(Release(p, held[l]))  BY <2>1, ReleaseFewer, FewerInv DEF PoolInv, Shape
  <2>3. PoolInv(Release(p, held[l]), [held EXCEPT ![l] = NoClient])  BY ReleaseInv
  <2>4. QED  BY ONLY <2>2, <2>3
<1>2. QED  BY <1>1, AcquireMap DEF RefreshAndSend

(* Every step leaves the map bounded and its order sound.                  *)
LEMMA OwnerMap ==
  ASSUME ClientInv, MapInv(pool), NEW l \in Lease, OwnerStep(l)
  PROVE  MapInv(pool')
<1>1. /\ PoolInv(pool, held) /\ pool \in PoolType /\ req \in [Lease -> Request]
      /\ StageAt(pc[l], held[l], dropping[l])
  BY DEF ClientInv, ClientType, PoolInv, Shape
<1>2. CASE Build(l)
  BY <1>1, <1>2, AcquireMap DEF Build
<1>3. CASE Send(l) \/ Resume(l)
  BY <1>1, <1>3, RefreshMap DEF Send, Resume, StageAt
<1>4. CASE Refreshed(l)
  <2>1. dropping[l] # NoClient  BY <1>1, <1>4 DEF Refreshed, StageAt
  <2>2. PoolInv(Closed(pool, dropping[l]), held)
    BY <2>1, ClosedClosers
  <2>3. MapInv(Closed(pool, dropping[l]))  BY <1>1, ReleaseFewer, FewerInv
  <2>4. QED  BY <1>1, <1>4, <2>2, <2>3, AcquireMap DEF Refreshed
<1>5. CASE PoolTimeout(l) \/ ConnectFails(l) \/ Fails(l)
  <2>1. held[l] # NoClient
    BY <1>1, <1>5 DEF PoolTimeout, ConnectFails, Fails, StageAt
  <2>2. PoolInv(Invalidate(pool, held[l]), held)  BY <1>1, <2>1, InvalidateInv
  <2>3. MapInv(Invalidate(pool, held[l]))  BY <1>1, ReleaseFewer, FewerInv
  <2>4. QED
    BY <1>1, <1>5, <2>1, <2>2, <2>3, RefreshMap DEF PoolTimeout, ConnectFails, Fails
<1>6. CASE \/ RefreshFails(l) \/ Aclose(l) \/ AcloseClient(l) \/ ClientClosed(l)
  BY <1>1, <1>6, ReleaseFewer, FewerInv
     DEF RefreshFails, Aclose, AcloseClient, ClientClosed
<1>7. CASE BuildRefused(l) \/ SendWaits(l) \/ GiveUp(l) \/ SendReturns(l)
  BY <1>7 DEF BuildRefused, SendWaits, GiveUp, SendReturns
<1>8. QED  BY <1>2, <1>3, <1>4, <1>5, <1>6, <1>7 DEF OwnerStep

LEMMA MapStep ==
  ASSUME ClientInv, MapInv(pool), [Next]_vars
  PROVE  MapInv(pool')
<1>1. pool \in PoolType  BY DEF ClientInv, PoolInv, Shape
<1>2. CASE \E l \in Lease : OwnerStep(l)  BY <1>2, OwnerMap
<1>3. CASE \E l \in Lease : \E r \in Request : Open(l, r)
  BY <1>3 DEF Open
<1>4. CASE \E c \in Client : CleanupEnds(c)
  BY <1>1, <1>4, ReleaseFewer, FewerInv DEF CleanupEnds
<1>5. CASE PoolingOff \/ ShutDown
  <2>1. pool' = Retire(pool, pool.mapped)
    BY <1>5 DEF PoolingOff, ShutDown, RetireAll
  <2>2. QED  BY <1>1, <2>1, RetireFewer, FewerInv
<1>6. CASE Gathered
  <2>1. pool' = [pool EXCEPT !.tasks = {}]  BY <1>6 DEF Gathered
  <2>2. Fewer(pool, pool')  BY <1>1, <2>1 DEF PoolType, Fewer
  <2>3. QED  BY <2>2, FewerInv
<1>7. CASE UNCHANGED vars  BY <1>7 DEF vars
<1>8. QED  BY <1>2, <1>3, <1>4, <1>5, <1>6, <1>7 DEF Next

(* The map never outgrows its bound, maps every lane of the current        *)
(* generation at most once, and maps nothing that is retired or closing,   *)
(* whatever acquisitions, evictions and rotations follow each other.       *)
THEOREM MapTheorem == Spec => []MapSound
<1>1. Init => MapInv(pool)
  BY FS_EmptySet, ConstantsAssumption DEF Init, MapInv, Aged, Bounded
<1>2. ClientInv /\ MapInv(pool) /\ [Next]_vars => MapInv(pool)'
  BY MapStep
<1>3. ClientInv /\ MapInv(pool) => MapSound
  BY DEF ClientInv, PoolInv, Shape, MapInv, Bounded, MapSound
<1>4. QED  BY <1>1, <1>2, <1>3, ClientInvariant, PTL DEF Spec

=============================================================================
