---------------------------- MODULE RecordsProofs ----------------------------
(* Theorems about what the bridge remembers of the turns it served: their    *)
(* contexts (ContextCache), their numbers (UsageStats) and the tool calls of *)
(* a conversation (ToolHistory), for any limits and items and any number of  *)
(* turns, requests, days and files.                                          *)
EXTENDS ContextCache, UsageStats, ToolHistory, FiniteInduction, SequenceTheorems

-----------------------------------------------------------------------------
(* The cache of contexts. *)

Stages == {"running", "completed", "ended"}
TurnType == [way : Ways, key : Keys, line : Seq(Nat), stage : Stages, input : Seq(Int)]
EntryType == [items : Seq(Int), born : Nat]

CacheKinds ==
    /\ turns \in Seq(TurnType) /\ clock \in Nat
    /\ contexts \in [Cached -> EntryType] /\ Cached \subseteq DOMAIN turns
    /\ IsFiniteSet(Cached)

(* The order of the cache: of two entries one was used before the other.     *)
InOrder(order, ids) ==
    /\ order \subseteq ids \X ids
    /\ \A i \in ids : <<i, i>> \notin order
    /\ \A i, j, k \in ids : <<i, j>> \in order /\ <<j, k>> \in order => <<i, k>> \in order
    /\ \A i, j \in ids : i = j \/ <<i, j>> \in order \/ <<j, i>> \in order

(* An entry is what its turn sent, and the turn.                             *)
EntriesOf ==
    \A id \in Cached : /\ contexts[id].items = Append(turns[id].input, id)
                       /\ owners[id].way = turns[id].way
                       /\ owners[id].key = turns[id].key

(* A sequence is the tail of another, place by place.                        *)
TailOf(s, t) ==
    /\ Len(s) <= Len(t)
    /\ \A i \in 1..Len(s) : s[i] = t[Len(t) - Len(s) + i]

(* What a turn recalls is the tail of its line, and its line are turns.      *)
RecallsLine(turn) ==
    /\ TailOf(Recalled(turn.input), turn.line)
    /\ \A i \in 1..Len(turn.line) : turn.line[i] \in DOMAIN turns

SameKey(turn) ==
    turn.key # "" => \A i \in 1..Len(Recalled(turn.input)) :
                        turns[Recalled(turn.input)[i]].key = turn.key

MarksGap(turn) ==
    (/\ turn.way = "chat"
     /\ \A i \in 1..Len(turn.line) : turns[turn.line[i]].way = "chat")
    => Contains(turn.input, Notice) \/ turn.input = turn.line

TurnsInv == \A id \in DOMAIN turns : /\ RecallsLine(turns[id])
                                     /\ SameKey(turns[id]) /\ MarksGap(turns[id])

CacheInv ==
    /\ CacheKinds /\ LimitsHold /\ EntriesOf /\ TurnsInv
    /\ InOrder(usedBefore, Cached)

-----------------------------------------------------------------------------
(* Sequences. *)

LEMMA SuffixByPlace ==
  ASSUME NEW s \in Seq(Int), NEW t \in Seq(Int), TailOf(s, t)
  PROVE  IsSuffix(s, t)
<1> DEFINE a == Reverse(s)
           b == Reverse(t)
<1>1. a \in Seq(Int) /\ b \in Seq(Int) /\ Len(a) = Len(s) /\ Len(b) = Len(t)
  BY DEF Reverse
<1>2. \A i \in 1..Len(s) : a[i] = s[Len(s) - i + 1] /\ b[i] = t[Len(t) - i + 1]
  BY DEF Reverse, TailOf
<1>3. \A i \in 1..Len(s) : a[i] = b[i]
  <2>1. TAKE i \in 1..Len(s)
  <2>2. PICK j \in 1..Len(s) : j = Len(s) - i + 1
    <3>1. Len(s) \in Nat /\ i \in Int /\ 1 <= i /\ i <= Len(s)  OBVIOUS
    <3>2. Len(s) - i + 1 \in 1..Len(s)  BY <3>1
    <3>3. QED  BY <3>2
  <2>3. s[j] = t[Len(t) - Len(s) + j]
    BY DEF TailOf
  <2>4. Len(t) - Len(s) + j = Len(t) - i + 1
    BY <2>2
  <2>5. QED
    BY <1>2, <2>2, <2>3, <2>4
<1> HIDE DEF a, b
<1>4. SubSeq(a, 1, Len(a)) = SubSeq(b, 1, Len(a))
  BY <1>1, <1>3 DEF TailOf
<1>5. IsPrefix(a, b)
  BY <1>1, <1>4 DEF IsPrefix, TailOf
<1>6. QED
  BY <1>5 DEF IsSuffix, a, b

LEMMA RecalledSeq ==
  ASSUME NEW s \in Seq(Int)
  PROVE  Recalled(s) \in Seq(Int)
BY DEF Recalled

LEMMA RecalledGrows ==
  ASSUME NEW s \in Seq(Int), NEW n \in Nat \ {0}
  PROVE  Recalled(Append(s, n)) = Append(Recalled(s), n)
<1>1. CASE s = <<>>
  BY <1>1 DEF Recalled, Notice
<1>2. CASE s # <<>>
  <2>1. Append(s, n) # <<>> /\ Head(Append(s, n)) = Head(s)
    BY <1>2
  <2>2. Tail(Append(s, n)) = Append(Tail(s), n)
    BY <1>2, SMTT(60)
  <2>3. QED
    BY <1>2, <2>1, <2>2 DEF Recalled
<1>3. QED
  BY <1>1, <1>2

LEMMA TailGrows ==
  ASSUME NEW s \in Seq(Int), NEW t \in Seq(Int), NEW n \in Int, TailOf(s, t)
  PROVE  TailOf(Append(s, n), Append(t, n))
<1> DEFINE a == Append(s, n)
           b == Append(t, n)
<1>1. /\ Len(a) = Len(s) + 1 /\ Len(b) = Len(t) + 1
      /\ a[Len(s) + 1] = n /\ b[Len(t) + 1] = n
  OBVIOUS
<1>2. (\A i \in 1..Len(s) : a[i] = s[i]) /\ (\A i \in 1..Len(t) : b[i] = t[i])
  OBVIOUS
<1>3. Len(s) \in Nat /\ Len(t) \in Nat /\ Len(s) <= Len(t)
  BY DEF TailOf
<1> HIDE DEF a, b
<1>4. ASSUME NEW i \in 1..Len(s) + 1
      PROVE  a[i] = b[Len(t) - Len(s) + i]
  <2>1. CASE i <= Len(s)
    <3>1. i \in 1..Len(s) /\ Len(t) - Len(s) + i \in 1..Len(t)
      BY <1>3, <2>1
    <3>2. s[i] = t[Len(t) - Len(s) + i]
      BY <3>1 DEF TailOf
    <3>3. QED
      BY <1>2, <3>1, <3>2
  <2>2. CASE i = Len(s) + 1
    <3>1. Len(t) - Len(s) + i = Len(t) + 1
      BY <1>3, <2>2
    <3>2. QED
      BY <1>1, <2>2, <3>1
  <2>3. QED
    BY <1>3, <2>1, <2>2
<1>5. Len(a) <= Len(b) /\ Len(b) - Len(a) = Len(t) - Len(s)
  BY <1>1, <1>3
<1>6. TailOf(a, b)
  BY <1>1, <1>4, <1>5 DEF TailOf
<1>7. QED
  BY <1>6 DEF a, b

-----------------------------------------------------------------------------
(* Sizes. *)

Lengths(f) == [id \in DOMAIN f |-> Len(f[id].items)]

LEMMA SizeIsPart ==
  ASSUME NEW S, NEW f \in [S -> EntryType], NEW W \in SUBSET S
  PROVE  SizeOf(f, W) = Part(Lengths(f), W) /\ Lengths(f) \in [S -> Nat]
<1>1. Lengths(f) \in [S -> Nat]
  BY DEF Lengths, EntryType
<1>2. [id \in W |-> Len(f[id].items)] = [id \in W |-> Lengths(f)[id]]
  BY DEF Lengths
<1>3. \A g : SumFunction(g) = Sum(g)
  BY DEF SumFunction, SumFunctionOnSet, Sum, FoldFunction, FoldFunctionOnSet, MapThenFoldSet
<1>4. QED
  BY <1>1, <1>2, <1>3 DEF SizeOf, Part

LEMMA SizeNat ==
  ASSUME NEW S, IsFiniteSet(S), NEW f \in [S -> EntryType], NEW W \in SUBSET S
  PROVE  SizeOf(f, W) \in Nat
BY SizeIsPart, PartNat

LEMMA SizeSplits ==
  ASSUME NEW S, IsFiniteSet(S), NEW f \in [S -> EntryType], NEW W \in SUBSET S,
         NEW V \in SUBSET W
  PROVE  SizeOf(f, W) = SizeOf(f, V) + SizeOf(f, W \ V)
<1>1. /\ SizeOf(f, W) = Part(Lengths(f), W) /\ SizeOf(f, V) = Part(Lengths(f), V)
      /\ SizeOf(f, W \ V) = Part(Lengths(f), W \ V) /\ Lengths(f) \in [S -> Nat]
  BY SizeIsPart
<1>2. QED
  BY <1>1, PartSplits

LEMMA SizeOne ==
  ASSUME NEW S, IsFiniteSet(S), NEW f \in [S -> EntryType], NEW id \in S
  PROVE  SizeOf(f, {id}) = Len(f[id].items)
<1>1. SizeOf(f, {id}) = Part(Lengths(f), {id}) /\ Lengths(f) \in [S -> Nat]
  BY SizeIsPart
<1>2. Part(Lengths(f), {id}) = Lengths(f)[id] + Part(Lengths(f), {id} \ {id})
  BY <1>1, PartGrows
<1>3. Part(Lengths(f), {id} \ {id}) = 0
  <2>1. {id} \ {id} = {}  OBVIOUS
  <2>2. QED  BY <2>1, PartEmpty
<1>4. Lengths(f)[id] = Len(f[id].items) /\ Len(f[id].items) \in Nat
  BY DEF Lengths, EntryType
<1>5. QED
  BY <1>1, <1>2, <1>3, <1>4

LEMMA SizeSame ==
  ASSUME NEW f, NEW g, NEW W, \A id \in W : f[id] = g[id]
  PROVE  SizeOf(f, W) = SizeOf(g, W)
<1>1. [id \in W |-> Len(f[id].items)] = [id \in W |-> Len(g[id].items)]
  OBVIOUS
<1>2. QED
  BY <1>1 DEF SizeOf

LEMMA SizeMonotone ==
  ASSUME NEW S, IsFiniteSet(S), NEW f \in [S -> EntryType], NEW W \in SUBSET S,
         NEW V \in SUBSET W
  PROVE  SizeOf(f, V) <= SizeOf(f, W)
<1>1. SizeOf(f, W) = SizeOf(f, V) + SizeOf(f, W \ V)
  BY SizeSplits
<1>2. SizeOf(f, V) \in Nat /\ SizeOf(f, W \ V) \in Nat
  BY SizeNat
<1>3. QED
  BY <1>1, <1>2

-----------------------------------------------------------------------------
(* The order. *)

(* Some entries always have an oldest one among them.                        *)
LEMMA Oldest ==
  ASSUME NEW S, IsFiniteSet(S), NEW order, InOrder(order, S), NEW W \in SUBSET S, W # {}
  PROVE  \E c \in W : \A x \in W : x = c \/ <<c, x>> \in order
<1>1. PICK c \in W : \A x \in W : <<x, c>> \notin order
  <2>1. /\ \A i \in W : <<i, i>> \notin order
        /\ \A i, j, k \in W : <<i, j>> \in order /\ <<j, k>> \in order => <<i, k>> \in order
    BY DEF InOrder
  <2>2. IsFiniteSet(W)
    BY FS_Subset
  <2>3. QED
    BY <2>1, <2>2, OldestExists
<1>2. QED
  BY <1>1 DEF InOrder

LEMMA OrderPart ==
  ASSUME NEW S, NEW order, InOrder(order, S), NEW W \in SUBSET S
  PROVE  InOrder(order \cap (W \X W), W)
BY DEF InOrder

(* What the loop of evictions leaves is within the limits.                   *)
LEMMA KeptFits ==
  ASSUME NEW S, IsFiniteSet(S), NEW f \in [S -> EntryType], NEW order, InOrder(order, S),
         Kept(f, order) # {}
  PROVE  Fits(f, Kept(f, order))
<1> DEFINE kept == Kept(f, order)
           From(id) == {x \in DOMAIN f : x = id \/ <<id, x>> \in order}
<1>1. kept \in SUBSET S
  BY DEF Kept
<1>2. PICK c \in kept : \A x \in kept : x = c \/ <<c, x>> \in order
  <2>1. kept # {}  OBVIOUS
  <2> HIDE DEF kept
  <2>2. QED  BY <1>1, <2>1, Oldest
<1>3. PICK W \in SUBSET S : W = From(c)
  OBVIOUS
<1>4. Fits(f, W)
  BY <1>2, <1>3 DEF Kept
<1>5. kept \in SUBSET W
  BY <1>1, <1>2, <1>3
<1> HIDE DEF kept
<1>6. SizeOf(f, kept) <= SizeOf(f, W)
  BY <1>5, SizeMonotone
<1>7. SizeOf(f, kept) \in Nat /\ SizeOf(f, W) \in Nat
  BY <1>1, SizeNat
<1>8. /\ Cardinality(kept) <= Cardinality(W)
      /\ Cardinality(kept) \in Nat /\ Cardinality(W) \in Nat
  BY <1>1, <1>5, FS_Subset, FS_CardinalityType
<1>9. QED
  BY <1>4, <1>6, <1>7, <1>8, CacheAssumption DEF Fits, kept

-----------------------------------------------------------------------------
(* What a put and a lookup leave. *)

CacheHalf ==
    /\ contexts \in [Cached -> EntryType] /\ IsFiniteSet(Cached)
    /\ LimitsHold /\ InOrder(usedBefore, Cached)

LEMMA NewestOrder ==
  ASSUME InOrder(usedBefore, Cached), NEW id
  PROVE  InOrder(MadeNewest(id), Cached \cup {id})
<1> DEFINE order == MadeNewest(id)
<1>1. \A i, j : <<i, j>> \in order <=> \/ <<i, j>> \in usedBefore /\ i # id /\ j # id
                                       \/ i \in Cached \ {id} /\ j = id
  BY DEF MadeNewest, Without, InOrder
<1>2. order \subseteq (Cached \cup {id}) \X (Cached \cup {id})
  BY DEF MadeNewest, Without, InOrder
<1> HIDE DEF order
<1>3. \A i, j : <<i, j>> \in usedBefore => i \in Cached /\ j \in Cached
  BY DEF InOrder
<1>4. \A i \in Cached \cup {id} : <<i, i>> \notin order
  BY <1>1 DEF InOrder
<1>5. \A i, j, k \in Cached \cup {id} :
        <<i, j>> \in order /\ <<j, k>> \in order => <<i, k>> \in order
  BY <1>1, <1>3 DEF InOrder
<1>6. \A i, j \in Cached \cup {id} : i = j \/ <<i, j>> \in order \/ <<j, i>> \in order
  BY <1>1 DEF InOrder
<1>7. QED
  BY <1>2, <1>4, <1>5, <1>6 DEF InOrder, order

(* An entry that is there after a put was there, or is the one put.          *)
PutEntries(id, items, way, key) ==
    \A x \in Cached' :
        \/ /\ x = id /\ contexts'[x].items = items
           /\ owners'[x].way = way /\ owners'[x].key = key
        \/ x \in Cached /\ contexts'[x] = contexts[x] /\ owners'[x] = owners[x]

LEMMA PutKeeps ==
  ASSUME CacheHalf, clock \in Nat, NEW id, NEW items \in Seq(Int), NEW way, NEW key,
         Put(id, items, way, key)
  PROVE  CacheHalf' /\ PutEntries(id, items, way, key) /\ Cached' \subseteq Cached \cup {id}
<1>1. CASE Len(items) > MaxBytes
  <2>1. UNCHANGED <<contexts, usedBefore, owners, cacheBytes>>
    BY <1>1 DEF Put
  <2>2. Cached' = Cached
    BY <2>1 DEF Cached
  <2>3. LimitsHold'
    BY <2>1, <2>2 DEF CacheHalf, LimitsHold
  <2>4. QED
    BY <2>1, <2>2, <2>3 DEF CacheHalf, PutEntries
<1>2. CASE ~(Len(items) > MaxBytes)
  <2>0. PICK value : value = [items |-> items, born |-> clock]
    OBVIOUS
  <2>1. PICK F : F = Cached \cup {id}
    OBVIOUS
  <2>2. PICK f : f = WithEntry(contexts, id, value)
    OBVIOUS
  <2>3. PICK order : order = MadeNewest(id)
    OBVIOUS
  <2>4. PICK kept : kept = Kept(f, order)
    OBVIOUS
  <2>5. /\ value \in EntryType /\ value.items = items
        /\ contexts \in [Cached -> EntryType] /\ IsFiniteSet(Cached)
    BY <2>0 DEF EntryType, CacheHalf
  <2>6. IsFiniteSet(F)
    BY <2>1, <2>5, FS_AddElement
  <2>7. f \in [F -> EntryType] /\ f[id] = value /\ \A x \in Cached \ {id} : f[x] = contexts[x]
    BY <2>1, <2>2, <2>5 DEF WithEntry
  <2>8. SizeOf(f, F) = SizeOf(contexts, Cached) - SizeOf(contexts, Cached \cap {id}) + Len(items)
    <3>1. PICK R : R = Cached \cap {id}
      OBVIOUS
    <3>2. PICK rest : rest = Cached \ R /\ rest = F \ {id}
      BY <2>1, <3>1
    <3>3. /\ rest \in SUBSET Cached /\ R \in SUBSET Cached /\ Cached \in SUBSET Cached
          /\ {id} \in SUBSET F /\ id \in F /\ F \in SUBSET F
      BY <2>1, <3>1, <3>2
    <3>4. SizeOf(f, F) = SizeOf(f, {id}) + SizeOf(f, rest)
      BY <2>6, <2>7, <3>2, <3>3, SizeSplits
    <3>5. SizeOf(f, {id}) = Len(items)
      BY <2>5, <2>6, <2>7, <3>3, SizeOne
    <3>6. SizeOf(f, rest) = SizeOf(contexts, rest)
      BY <2>7, <3>2, SizeSame
    <3>7. SizeOf(contexts, Cached) = SizeOf(contexts, R) + SizeOf(contexts, rest)
      BY <2>5, <3>2, <3>3, SizeSplits
    <3>8. /\ SizeOf(contexts, Cached) \in Nat /\ SizeOf(contexts, R) \in Nat
          /\ SizeOf(contexts, rest) \in Nat /\ Len(items) \in Nat
      BY <2>5, <3>3, SizeNat
    <3>9. SizeOf(f, F) = SizeOf(contexts, Cached) - SizeOf(contexts, R) + Len(items)
      BY <3>4, <3>5, <3>6, <3>7, <3>8
    <3>10. QED
      BY <3>1, <3>9
  <2>9. InOrder(order, F)
    BY <2>1, <2>3, NewestOrder DEF CacheHalf
  <2>10. DOMAIN f = F
    BY <2>7
  <2>11. kept \in SUBSET F
    BY <2>4, <2>10 DEF Kept
  <2>12. id \in kept
    <3>1. \A x \in F : <<id, x>> \notin order
      BY <2>3 DEF MadeNewest, Without
    <3>2. {x \in DOMAIN f : x = id \/ <<id, x>> \in order} = {id}
      BY <2>1, <2>10, <3>1
    <3>3. SizeOf(f, {id}) = Len(items)
      BY <2>1, <2>5, <2>6, <2>7, SizeOne, ZenonT(60)
    <3>4. Cardinality({id}) = 1
      BY FS_Singleton
    <3>5. Fits(f, {id})
      <4>1. Len(items) \in Nat /\ Len(items) <= MaxBytes /\ 1 <= MaxEntries
        BY <1>2, CacheAssumption
      <4>2. QED
        BY <3>3, <3>4, <4>1 DEF Fits
    <3>6. QED
      BY <2>1, <2>4, <2>10, <3>2, <3>5 DEF Kept
  <2>13. Fits(f, kept)
    BY <2>4, <2>6, <2>7, <2>9, <2>12, KeptFits
  <2>14. /\ contexts' = Restrict(f, kept)
         /\ usedBefore' = order \cap (kept \X kept)
         /\ owners' = Restrict(WithEntry(owners, id, [way |-> way, key |-> key]), kept)
         /\ cacheBytes' = cacheBytes - SizeOf(contexts, Cached \cap {id}) + Len(items)
                             - SizeOf(f, F \ kept)
    BY <1>2, <2>0, <2>2, <2>3, <2>4, <2>10 DEF Put
  <2>15. contexts' \in [kept -> EntryType] /\ \A x \in kept : contexts'[x] = f[x]
    <3>1. contexts' = [x \in kept |-> f[x]]
      BY <2>14 DEF Restrict
    <3>2. QED
      BY <2>7, <2>11, <3>1
  <2>16. Cached' = kept
    BY <2>15 DEF Cached
  <2>17. IsFiniteSet(kept)
    BY <2>6, <2>11, FS_Subset
  <2>18. InOrder(usedBefore', Cached')
    BY <2>9, <2>11, <2>14, <2>16, OrderPart
  <2>19. SizeOf(contexts, Cached)' = SizeOf(f, kept)
    <3>1. SizeOf(contexts', kept) = SizeOf(f, kept)
      BY <2>15, SizeSame
    <3>2. QED
      BY <2>16, <3>1
  <2>20. SizeOf(f, F) = SizeOf(f, kept) + SizeOf(f, F \ kept)
    BY <2>6, <2>7, <2>11, SizeSplits
  <2>21. /\ SizeOf(contexts, Cached) \in Nat /\ SizeOf(contexts, Cached \cap {id}) \in Nat
         /\ SizeOf(f, kept) \in Nat /\ SizeOf(f, F \ kept) \in Nat /\ SizeOf(f, F) \in Nat
         /\ Len(items) \in Nat
    <3>1. Cached \in SUBSET Cached /\ Cached \cap {id} \in SUBSET Cached
          /\ F \in SUBSET F /\ F \ kept \in SUBSET F
      OBVIOUS
    <3>2. QED
      BY <2>5, <2>6, <2>7, <2>11, <3>1, SizeNat
  <2>22. cacheBytes = SizeOf(contexts, Cached) /\ DOMAIN owners = Cached
    BY DEF CacheHalf, LimitsHold
  <2>23. cacheBytes' = SizeOf(f, kept)
    <3>1. cacheBytes' = SizeOf(contexts, Cached) - SizeOf(contexts, Cached \cap {id})
                          + Len(items) - SizeOf(f, F \ kept)
      BY <2>14, <2>22
    <3>2. cacheBytes' = SizeOf(f, F) - SizeOf(f, F \ kept)
      BY <2>8, <2>21, <3>1
    <3>3. QED
      BY <2>20, <2>21, <3>2
  <2>24. DOMAIN owners' = kept /\ \A x \in kept :
            owners'[x] = IF x = id THEN [way |-> way, key |-> key] ELSE owners[x]
    <3>1. owners' = [x \in kept |-> WithEntry(owners, id, [way |-> way, key |-> key])[x]]
      BY <2>14 DEF Restrict
    <3>2. QED
      BY <2>1, <2>11, <2>22, <3>1 DEF WithEntry
  <2>25. LimitsHold'
    BY <2>13, <2>16, <2>19, <2>23, <2>24 DEF LimitsHold, Fits
  <2>26. PutEntries(id, items, way, key)
    BY <2>1, <2>5, <2>7, <2>11, <2>15, <2>16, <2>24 DEF PutEntries
  <2>27. QED
    BY <2>1, <2>11, <2>15, <2>16, <2>17, <2>18, <2>25, <2>26 DEF CacheHalf
<1>3. QED
  BY <1>1, <1>2

LookedEntries ==
    \A x \in Cached' : x \in Cached /\ contexts'[x] = contexts[x] /\ owners'[x] = owners[x]

LEMMA LookedKeeps ==
  ASSUME CacheHalf, NEW prev, NEW read \in BOOLEAN, read => Known(prev), Looked(prev, read)
  PROVE  CacheHalf' /\ LookedEntries
<1>1. PICK left : left = Cached \ Stale(prev)
  OBVIOUS
<1>2. left \in SUBSET Cached /\ Stale(prev) \in SUBSET Cached
  BY <1>1 DEF Stale
<1>3. contexts \in [Cached -> EntryType] /\ IsFiniteSet(Cached)
  BY DEF CacheHalf
<1>4. contexts' = [x \in left |-> contexts[x]]
  BY <1>1 DEF Looked, Restrict
<1>5. contexts' \in [left -> EntryType] /\ \A x \in left : contexts'[x] = contexts[x]
  BY <1>2, <1>3, <1>4
<1>6. Cached' = left
  BY <1>5 DEF Cached
<1>7. IsFiniteSet(left)
  BY <1>2, <1>3, FS_Subset
<1>8. DOMAIN owners = Cached /\ cacheBytes = SizeOf(contexts, Cached)
      /\ cacheBytes <= MaxBytes /\ Cardinality(Cached) <= MaxEntries
  BY DEF CacheHalf, LimitsHold
<1>9. DOMAIN owners' = left /\ \A x \in left : owners'[x] = owners[x]
  <2>1. owners' = [x \in left |-> owners[x]]
    BY <1>1, <1>8 DEF Looked, Restrict
  <2>2. QED
    BY <2>1
<1>10. InOrder(usedBefore', left)
  <2>1. CASE read
    <3>1. usedBefore' = MadeNewest(prev)
      BY <2>1 DEF Looked
    <3>2. prev \in Cached /\ Stale(prev) = {}
      BY <2>1 DEF Known, Stale
    <3>3. left = Cached \cup {prev}
      BY <1>1, <3>2
    <3>4. InOrder(MadeNewest(prev), Cached \cup {prev})
      BY NewestOrder DEF CacheHalf
    <3>5. QED
      BY <3>1, <3>3, <3>4
  <2>2. CASE ~read
    <3>1. usedBefore' = usedBefore \cap (left \X left)
      BY <1>1, <2>2 DEF Looked
    <3>2. QED
      BY <1>2, <3>1, OrderPart DEF CacheHalf
  <2>3. QED
    BY <2>1, <2>2
<1>11. SizeOf(contexts, Cached)' = SizeOf(contexts, left)
  <2>1. SizeOf(contexts', left) = SizeOf(contexts, left)
    BY <1>5, SizeSame
  <2>2. QED
    BY <1>6, <2>1
<1>12. SizeOf(contexts, Cached) = SizeOf(contexts, Stale(prev)) + SizeOf(contexts, left)
  BY <1>1, <1>2, <1>3, SizeSplits
<1>13. /\ SizeOf(contexts, Cached) \in Nat /\ SizeOf(contexts, Stale(prev)) \in Nat
       /\ SizeOf(contexts, left) \in Nat
  <2>1. Cached \in SUBSET Cached  OBVIOUS
  <2>2. QED  BY <1>2, <1>3, <2>1, SizeNat
<1>14. cacheBytes' = SizeOf(contexts, left) /\ cacheBytes' <= MaxBytes
  <2>1. cacheBytes' = cacheBytes - SizeOf(contexts, Stale(prev))
    BY DEF Looked
  <2>2. cacheBytes' = SizeOf(contexts, left)
    BY <1>8, <1>12, <1>13, <2>1
  <2>3. QED
    BY <1>8, <1>12, <1>13, <2>2, CacheAssumption
<1>15. Cardinality(left) <= MaxEntries
  <2>1. /\ Cardinality(left) <= Cardinality(Cached)
        /\ Cardinality(left) \in Nat /\ Cardinality(Cached) \in Nat
    BY <1>2, <1>3, <1>7, FS_Subset, FS_CardinalityType
  <2>2. QED
    BY <1>8, <2>1, CacheAssumption
<1>16. LimitsHold'
  BY <1>6, <1>9, <1>11, <1>14, <1>15 DEF LimitsHold
<1>17. QED
  BY <1>2, <1>5, <1>6, <1>7, <1>9, <1>10, <1>16 DEF CacheHalf, LookedEntries

-----------------------------------------------------------------------------
(* The turns. *)

LEMMA TurnAt ==
  ASSUME turns \in Seq(TurnType), NEW id \in DOMAIN turns
  PROVE  /\ turns[id] \in TurnType /\ id \in Nat \ {0}
         /\ turns[id].line \in Seq(Nat) /\ turns[id].input \in Seq(Int)
<1>1. DOMAIN turns = 1..Len(turns) /\ Len(turns) \in Nat
  OBVIOUS
<1>2. id \in Nat \ {0}
  BY <1>1
<1>3. PICK t \in TurnType : t = turns[id]
  BY <1>1
<1>4. t.line \in Seq(Nat) /\ t.input \in Seq(Int)
  BY DEF TurnType
<1>5. QED
  BY <1>2, <1>3, <1>4

LEMMA NatsAreInts ==
  ASSUME NEW s \in Seq(Nat)
  PROVE  s \in Seq(Int)
OBVIOUS

(* One sequence is another and one more place.                               *)
Extends(t, s, n) ==
    /\ Len(s) \in Nat /\ Len(t) = Len(s) + 1 /\ t[Len(s) + 1] = n
    /\ \A i \in 1..Len(s) : t[i] = s[i]
    /\ \A i \in 1..Len(t) : i \in 1..Len(s) \/ i = Len(s) + 1

LEMMA AppendAt ==
  ASSUME NEW s \in Seq(Int), NEW n \in Int
  PROVE  Extends(Append(s, n), s, n)
BY DEF Extends

GoodTurn(turn) == RecallsLine(turn) /\ SameKey(turn) /\ MarksGap(turn)

(* What a turn recalls are turns of its line.                                *)
LEMMA RecalledTurns ==
  ASSUME NEW t \in TurnType, RecallsLine(t), NEW i \in 1..Len(Recalled(t.input))
  PROVE  Recalled(t.input)[i] \in DOMAIN turns
<1> DEFINE known == Recalled(t.input)
<1>1. known \in Seq(Int) /\ t.line \in Seq(Nat)
  BY RecalledSeq DEF TurnType
<1>2. /\ Len(known) <= Len(t.line) /\ known[i] = t.line[Len(t.line) - Len(known) + i]
      /\ \A j \in 1..Len(t.line) : t.line[j] \in DOMAIN turns
  BY DEF RecallsLine, TailOf
<1> HIDE DEF known
<1>3. Len(t.line) - Len(known) + i \in 1..Len(t.line)
  <2>1. Len(known) \in Nat /\ Len(t.line) \in Nat /\ i \in 1..Len(known)
    BY <1>1 DEF known
  <2>2. QED
    BY <1>2, <2>1
<1>4. QED
  BY <1>2, <1>3 DEF known

(* A turn stays good while the turns keep their ways and keys.               *)
LEMMA TurnStays ==
  ASSUME NEW t \in TurnType, GoodTurn(t), NEW u,
         u.way = t.way, u.key = t.key, u.line = t.line, u.input = t.input,
         \A id \in DOMAIN turns : /\ id \in DOMAIN turns'
                                  /\ turns'[id].way = turns[id].way
                                  /\ turns'[id].key = turns[id].key
  PROVE  GoodTurn(u)'
<1>1. RecallsLine(u)'
  BY DEF GoodTurn, RecallsLine
<1>2. SameKey(u)'
  <2>1. ASSUME u.key # "", NEW i \in 1..Len(Recalled(u.input))
        PROVE  turns'[Recalled(u.input)[i]].key = u.key
    <3>1. Recalled(t.input)[i] \in DOMAIN turns
      BY <2>1, RecalledTurns DEF GoodTurn
    <3>2. turns[Recalled(t.input)[i]].key = t.key
      BY <2>1 DEF GoodTurn, SameKey
    <3>3. QED
      BY <3>1, <3>2
  <2>2. QED
    BY <2>1 DEF SameKey
<1>3. MarksGap(u)'
  <2>1. \A i \in 1..Len(t.line) : turns'[t.line[i]].way = turns[t.line[i]].way
    BY DEF GoodTurn, RecallsLine
  <2>2. QED
    BY <2>1 DEF GoodTurn, MarksGap
<1>4. QED
  BY <1>1, <1>2, <1>3 DEF GoodTurn

LEMMA NoInput ==
  ASSUME NEW t, t.line \in Seq(Nat), t.input = <<>> \/ t.input = <<Notice>>,
         \A i \in 1..Len(t.line) : t.line[i] \in DOMAIN turns,
         t.way = "chat" => t.input = <<Notice>> \/ t.line = <<>>
  PROVE  GoodTurn(t)
<1>1. Recalled(t.input) = <<>>
  <2>1. <<Notice>> # <<>> /\ Head(<<Notice>>) = Notice /\ Tail(<<Notice>>) = <<>>
    OBVIOUS
  <2>2. QED
    BY <2>1 DEF Recalled
<1>2. RecallsLine(t) /\ SameKey(t)
  BY <1>1 DEF RecallsLine, TailOf, SameKey
<1>3. Contains(<<Notice>>, Notice)
  BY DEF Contains
<1>4. t.line = <<>> /\ t.input = <<>> => t.input = t.line
  OBVIOUS
<1>5. MarksGap(t)
  BY <1>3, <1>4 DEF MarksGap
<1>6. QED
  BY <1>2, <1>5 DEF GoodTurn

(* A turn that continues what it was given the items of.                     *)
Follows(t, prev) ==
    /\ t.line = Append(turns[prev].line, prev)
    /\ t.input = Append(turns[prev].input, prev)
    /\ t.key # "" => turns[prev].key = t.key

LEMMA Continues ==
  ASSUME turns \in Seq(TurnType), NEW prev, prev \in DOMAIN turns, GoodTurn(turns[prev]), NEW t,
         Follows(t, prev)
  PROVE  GoodTurn(t)
<1>1. PICK p \in TurnType : p = turns[prev] /\ GoodTurn(p)
  BY TurnAt
<1>2. p.line \in Seq(Nat) /\ p.input \in Seq(Int) /\ prev \in Nat \ {0}
  BY <1>1, TurnAt
<1>3. p.line \in Seq(Int) /\ prev \in Int
  <2>1. prev \in Int
    BY <1>2
  <2>2. PICK line \in Seq(Nat) : line = p.line
    BY <1>2
  <2>3. QED
    BY <2>1, <2>2, NatsAreInts
<1>4. PICK line \in Seq(Int) : line = p.line
  BY <1>3
<1>9. PICK known \in Seq(Int) : known = Recalled(p.input)
  BY <1>2, RecalledSeq
<1>10. t.line = Append(line, prev) /\ Recalled(t.input) = Append(known, prev)
  BY <1>1, <1>2, <1>4, <1>9, RecalledGrows, ZenonT(60) DEF Follows
<1>5. RecallsLine(t)
  <2>1. TailOf(known, line)
    BY <1>1, <1>4, <1>9 DEF GoodTurn, RecallsLine
  <2>2. TailOf(Append(known, prev), Append(line, prev))
    BY <1>3, <2>1, TailGrows
  <2>3. \A i \in 1..Len(line) : line[i] \in DOMAIN turns
    BY <1>1, <1>4 DEF GoodTurn, RecallsLine
  <2>4. PICK b : b = Append(line, prev) /\ Extends(b, line, prev)
    BY <1>3, AppendAt
  <2>7. Extends(b, line, prev)
    BY <2>4
  <2>5. \A i \in 1..Len(b) : b[i] \in DOMAIN turns
    BY <2>3, <2>7 DEF Extends
  <2>6. QED
    BY <1>10, <2>2, <2>4, <2>5 DEF RecallsLine
<1>6. SameKey(t)
  <2>1. PICK b : b = Append(known, prev) /\ Extends(b, known, prev)
    BY <1>3, AppendAt
  <2>7. Extends(b, known, prev)
    BY <2>1
  <2>2. SUFFICES ASSUME t.key # "", NEW i \in 1..Len(b) PROVE turns[b[i]].key = t.key
    BY <1>10, <2>1 DEF SameKey
  <2>3. p.key = t.key
    BY <1>1, <2>2 DEF Follows
  <2>4. CASE i = Len(known) + 1
    <3>1. b[i] = prev
      BY <2>4, <2>7 DEF Extends
    <3>2. QED
      BY <1>1, <2>3, <3>1
  <2>5. CASE i # Len(known) + 1
    <3>1. i \in 1..Len(known) /\ b[i] = known[i]
      BY <2>2, <2>5, <2>7 DEF Extends
    <3>2. turns[known[i]].key = p.key
      BY <1>1, <1>9, <2>2, <2>3, <3>1 DEF GoodTurn, SameKey
    <3>3. QED
      BY <2>3, <3>1, <3>2
  <2>6. QED
    BY <2>4, <2>5
<1>7. MarksGap(t)
  <2>1. SUFFICES ASSUME \A i \in 1..Len(t.line) : turns[t.line[i]].way = "chat"
                 PROVE  Contains(t.input, Notice) \/ t.input = t.line
    BY DEF MarksGap
  <2>2. PICK b : b = t.line /\ Extends(b, line, prev)
    BY <1>3, <1>10, AppendAt
  <2>3. /\ \A i \in 1..Len(line) : i \in 1..Len(b) /\ b[i] = line[i]
        /\ Len(line) + 1 \in 1..Len(b) /\ b[Len(line) + 1] = prev
    BY <2>2 DEF Extends
  <2>4. p.way = "chat" /\ \A i \in 1..Len(p.line) : turns[p.line[i]].way = "chat"
    BY <1>1, <1>4, <2>1, <2>2, <2>3
  <2>5. Contains(p.input, Notice) \/ p.input = p.line
    BY <1>1, <2>4 DEF GoodTurn, MarksGap
  <2>6. ASSUME Contains(p.input, Notice) PROVE Contains(t.input, Notice)
    <3>1. PICK i \in 1..Len(p.input) : p.input[i] = Notice
      BY <2>6 DEF Contains
    <3>2. PICK a \in Seq(Int) : a = p.input
      BY <1>2
    <3>3. PICK c : c = t.input /\ Extends(c, a, prev)
      BY <1>1, <1>3, <3>2, AppendAt DEF Follows
    <3>4. i \in 1..Len(c) /\ c[i] = a[i]
      BY <3>1, <3>2, <3>3 DEF Extends
    <3>5. QED
      BY <3>1, <3>2, <3>3, <3>4 DEF Contains
  <2>7. QED
    BY <1>1, <2>5, <2>6 DEF Follows
<1>8. QED
  BY <1>5, <1>6, <1>7 DEF GoodTurn

LEMMA NewTurn ==
  ASSUME CacheInv, NEW way \in Ways, NEW key \in Keys, NEW prev \in DOMAIN turns \cup {NoTurn},
         ~Refused(prev, key), NEW t, t = Turn(way, key, prev)
  PROVE  t \in TurnType /\ GoodTurn(t)
<1>1. turns \in Seq(TurnType)
      /\ \A id \in DOMAIN turns : id \in Nat \ {0} /\ turns[id] \in TurnType
  BY TurnAt DEF CacheInv, CacheKinds
<1>2. t.way = way /\ t.key = key /\ t.line = Line(prev) /\ t.input = Expanded(way, prev)
  BY DEF Turn
<1>3. ASSUME t.line \in Seq(Nat), t.input \in Seq(Int) PROVE t \in TurnType
  <2>1. PICK line \in Seq(Nat), input \in Seq(Int) :
           line = Line(prev) /\ input = Expanded(way, prev)
    BY <1>2, <1>3
  <2>2. t = [way |-> way, key |-> key, line |-> line, stage |-> "running", input |-> input]
    BY <2>1 DEF Turn
  <2>3. QED
    BY <2>2 DEF TurnType, Stages
<1>4. CASE prev = NoTurn
  <2>1. t.line = <<>> /\ t.input = <<>>
    BY <1>2, <1>4 DEF Line, Expanded
  <2>2. t.line \in Seq(Nat) /\ t.input \in Seq(Int)
    BY <2>1
  <2>3. \A i \in 1..Len(t.line) : t.line[i] \in DOMAIN turns
    BY <2>1
  <2>4. GoodTurn(t)
    BY <2>1, <2>2, <2>3, NoInput
  <2>5. QED
    BY <1>3, <2>2, <2>4
<1>5. CASE prev # NoTurn
  <2>1. prev \in DOMAIN turns
    BY <1>5
  <2>2. PICK p \in TurnType : p = turns[prev] /\ GoodTurn(p)
    BY <1>1, <2>1 DEF CacheInv, TurnsInv, GoodTurn
  <2>3. t.line = Append(p.line, prev) /\ t.line \in Seq(Nat)
    BY <1>1, <1>2, <1>5, <2>1, <2>2 DEF Line, TurnType
  <2>4. \A i \in 1..Len(t.line) : t.line[i] \in DOMAIN turns
    <3>1. \A i \in 1..Len(p.line) : p.line[i] \in DOMAIN turns
      BY <2>2 DEF GoodTurn, RecallsLine
    <3>2. p.line \in Seq(Nat) /\ prev \in Nat
      BY <1>1, <2>1 DEF TurnType
    <3>3. QED
      BY <2>1, <2>3, <3>1, <3>2
  <2>5. CASE Forwarded(way, prev)
    <3>1. t.input = <<>> /\ t.way # "chat"
      BY <1>2, <2>5 DEF Expanded, Forwarded
    <3>2. t.input \in Seq(Int)
      BY <3>1
    <3>3. QED
      BY <1>3, <2>3, <2>4, <3>1, <3>2, NoInput
  <2>6. CASE ~Forwarded(way, prev) /\ Known(prev)
    <3>1. prev \in Cached
      BY <2>6 DEF Known
    <3>2. contexts[prev].items = Append(p.input, prev) /\ owners[prev].key = p.key
      BY <2>2, <3>1 DEF CacheInv, EntriesOf
    <3>3. t.input = Append(p.input, prev)
      BY <1>2, <1>5, <2>6, <3>2 DEF Expanded
    <3>4. t.input \in Seq(Int)
      BY <1>1, <2>1, <3>3 DEF TurnType
    <3>5. t.key # "" => p.key = t.key
      BY <1>2, <1>5, <2>6, <3>2 DEF Refused
    <3>6. GoodTurn(t)
      BY <1>1, <2>1, <2>2, <2>3, <3>3, <3>5, Continues DEF Follows
    <3>7. QED
      BY <1>3, <2>3, <3>4, <3>6
  <2>7. CASE ~Forwarded(way, prev) /\ ~Known(prev)
    <3>1. t.input = IF way = "chat" THEN <<Notice>> ELSE <<>>
      BY <1>2, <1>5, <2>7 DEF Expanded
    <3>2. t.input \in Seq(Int) /\ (t.input = <<>> \/ t.input = <<Notice>>)
          /\ (t.way = "chat" => t.input = <<Notice>>)
      BY <1>2, <3>1 DEF Notice
    <3>3. QED
      BY <1>3, <2>3, <2>4, <3>2, NoInput
  <2>8. QED
    BY <2>5, <2>6, <2>7
<1>6. QED
  BY <1>4, <1>5

-----------------------------------------------------------------------------
(* The steps. *)

LEMMA Halves ==
  ASSUME CacheKinds
  PROVE  CacheHalf <=> (LimitsHold /\ InOrder(usedBefore, Cached))
BY DEF CacheHalf, CacheKinds

(* The turns after a step are those before, as far as the cache knows them.  *)
SameTurns ==
    \A id \in DOMAIN turns : /\ id \in DOMAIN turns'
                             /\ turns'[id].way = turns[id].way
                             /\ turns'[id].key = turns[id].key
                             /\ turns'[id].line = turns[id].line
                             /\ turns'[id].input = turns[id].input

LEMMA GoodTurns ==
  ASSUME turns \in Seq(TurnType), TurnsInv, SameTurns, NEW id \in DOMAIN turns
  PROVE  GoodTurn(turns[id])'
<1>1. PICK t \in TurnType : t = turns[id] /\ GoodTurn(t)
  BY TurnAt DEF TurnsInv, GoodTurn
<1>2. PICK u : u = turns'[id]
  OBVIOUS
<1>3. /\ u.way = t.way /\ u.key = t.key /\ u.line = t.line /\ u.input = t.input
      /\ \A i \in DOMAIN turns : /\ i \in DOMAIN turns'
                                 /\ turns'[i].way = turns[i].way
                                 /\ turns'[i].key = turns[i].key
  BY <1>1, <1>2 DEF SameTurns
<1>4. GoodTurn(u)'
  BY <1>1, <1>3, TurnStays
<1>5. QED
  BY <1>2, <1>4

(* An entry is that of its turn before the step or after it.                 *)
LEMMA StepKeeps ==
  ASSUME CacheInv, turns' \in Seq(TurnType), clock' \in Nat, CacheHalf', SameTurns, TurnsInv',
         \A x \in Cached' :
            \/ x \in Cached /\ contexts'[x] = contexts[x] /\ owners'[x] = owners[x]
            \/ /\ x \in DOMAIN turns /\ contexts'[x].items = Append(turns[x].input, x)
               /\ owners'[x].way = turns[x].way /\ owners'[x].key = turns[x].key
  PROVE  CacheInv'
<1>1. \A x \in Cached' : /\ x \in DOMAIN turns
                         /\ contexts'[x].items = Append(turns[x].input, x)
                         /\ owners'[x].way = turns[x].way /\ owners'[x].key = turns[x].key
  BY DEF CacheInv, CacheKinds, EntriesOf
<1>2. EntriesOf'
  BY <1>1 DEF EntriesOf, SameTurns
<1>3. CacheKinds'
  BY <1>1 DEF CacheKinds, CacheHalf, SameTurns
<1>4. QED
  BY <1>2, <1>3 DEF CacheInv, CacheHalf

LEMMA BeginKeeps ==
  ASSUME CacheInv, NEW way \in Ways, NEW key \in Keys, NEW prev \in Completed \cup {NoTurn},
         BeginTurn(way, key, prev)
  PROVE  CacheInv'
<1>1. PICK t : t = Turn(way, key, prev)
  OBVIOUS
<1>2. prev \in DOMAIN turns \cup {NoTurn} /\ ~Refused(prev, key)
  BY DEF Completed, BeginTurn
<1>3. t \in TurnType /\ GoodTurn(t)
  BY <1>1, <1>2, NewTurn
<1>4. turns' = Append(turns, t) /\ turns \in Seq(TurnType)
  BY <1>1 DEF BeginTurn, CacheInv, CacheKinds
<1>5. turns' \in Seq(TurnType)
  BY <1>3, <1>4
<1>6. DOMAIN turns = 1..Len(turns) /\ DOMAIN turns' = 1..(Len(turns) + 1) /\ Len(turns) \in Nat
  BY <1>4
<1>7. turns'[Len(turns) + 1] = t /\ \A id \in DOMAIN turns : turns'[id] = turns[id]
  BY <1>3, <1>4
<1>8. SameTurns
  BY <1>6, <1>7 DEF SameTurns
<1>9. TurnsInv'
  <2>1. ASSUME NEW id \in DOMAIN turns' PROVE GoodTurn(turns[id])'
    <3>1. CASE id = Len(turns) + 1
      <4>1. GoodTurn(t)'
        BY <1>3, <1>8, TurnStays DEF SameTurns
      <4>2. QED
        BY <1>7, <3>1, <4>1
    <3>2. CASE id # Len(turns) + 1
      <4>1. id \in DOMAIN turns
        BY <1>6, <3>2
      <4>2. QED
        BY <1>4, <1>8, <4>1, GoodTurns DEF CacheInv
    <3>3. QED
      BY <3>1, <3>2
  <2>2. QED
    BY <2>1 DEF TurnsInv, GoodTurn
<1>10. CacheHalf' /\ LookedEntries
  <2>1. PICK read \in BOOLEAN : read = (Known(prev) /\ ~Forwarded(way, prev))
    OBVIOUS
  <2>2. Looked(prev, read) /\ (read => Known(prev))
    BY <2>1 DEF BeginTurn
  <2>3. CacheHalf
    BY Halves DEF CacheInv
  <2>4. QED
    BY <2>2, <2>3, LookedKeeps
<1>11. QED
  BY <1>5, <1>8, <1>9, <1>10, StepKeeps DEF BeginTurn, LookedEntries, CacheInv, CacheKinds

(* A step that begins no turn.                                               *)
LEMMA TurnsKeep ==
  ASSUME CacheInv, SameTurns, DOMAIN turns' = DOMAIN turns
  PROVE  TurnsInv'
<1>1. \A id \in DOMAIN turns : GoodTurn(turns[id])'
  BY GoodTurns DEF CacheInv, CacheKinds
<1>2. QED
  BY <1>1 DEF TurnsInv, GoodTurn

LEMMA RefuseKeeps ==
  ASSUME CacheInv, NEW key, NEW prev, RefuseTurn(key, prev)
  PROVE  CacheInv'
<1>1. Looked(prev, FALSE) /\ UNCHANGED <<clock, turns>>
  BY DEF RefuseTurn
<1>2. CacheHalf' /\ LookedEntries
  <2>1. CacheHalf
    BY Halves DEF CacheInv
  <2>2. QED
    BY <1>1, <2>1, LookedKeeps
<1>3. SameTurns /\ DOMAIN turns' = DOMAIN turns
  BY <1>1 DEF SameTurns
<1>4. TurnsInv'
  BY <1>3, TurnsKeep
<1>5. QED
  BY <1>1, <1>2, <1>3, <1>4, StepKeeps DEF LookedEntries, CacheInv, CacheKinds

(* A turn that ended, one way or the other.                                  *)
LEMMA StageSet ==
  ASSUME CacheInv, NEW id \in DOMAIN turns, NEW stage \in Stages,
         turns' = [turns EXCEPT ![id].stage = stage]
  PROVE  turns' \in Seq(TurnType) /\ SameTurns /\ TurnsInv'
<1>1. turns \in Seq(TurnType)
  BY DEF CacheInv, CacheKinds
<1>2. PICK t \in TurnType : t = turns[id]
  BY <1>1, TurnAt
<1>3. PICK u : u = [t EXCEPT !.stage = stage]
  OBVIOUS
<1>4. /\ u \in TurnType /\ u.way = t.way /\ u.key = t.key
      /\ u.line = t.line /\ u.input = t.input
  BY <1>3 DEF TurnType
<1>5. turns' = [turns EXCEPT ![id] = u]
  BY <1>2, <1>3
<1>6. turns' \in Seq(TurnType) /\ DOMAIN turns' = DOMAIN turns
  BY <1>1, <1>4, <1>5, SMTT(60)
<1>7. SameTurns
  BY <1>2, <1>4, <1>5, <1>6 DEF SameTurns
<1>8. QED
  BY <1>6, <1>7, TurnsKeep

LEMMA CompleteKeeps ==
  ASSUME CacheInv, NEW id \in DOMAIN turns, CompleteTurn(id)
  PROVE  CacheInv'
<1>1. PICK t \in TurnType : t = turns[id]
  BY TurnAt DEF CacheInv, CacheKinds
<1>2. t.input \in Seq(Int) /\ id \in Int
  BY <1>1, TurnAt DEF CacheInv, CacheKinds
<1>3. PICK items \in Seq(Int) : items = t.input \o <<id>> /\ items = Append(t.input, id)
  <2>1. PICK s \in Seq(Int) : s = t.input
    BY <1>2
  <2>2. s \o <<id>> = Append(s, id) /\ Append(s, id) \in Seq(Int)
    BY <1>2
  <2>3. QED
    BY <2>1, <2>2
<1>4. /\ Put(id, items, t.way, t.key) /\ UNCHANGED clock
      /\ turns' = [turns EXCEPT ![id].stage = "completed"]
  BY <1>1, <1>3 DEF CompleteTurn
<1>5. turns' \in Seq(TurnType) /\ SameTurns /\ TurnsInv'
  <2>1. "completed" \in Stages
    BY DEF Stages
  <2>2. QED
    BY <1>4, <2>1, StageSet
<1>6. CacheHalf' /\ PutEntries(id, items, t.way, t.key)
  <2>1. CacheHalf /\ clock \in Nat
    BY Halves DEF CacheInv, CacheKinds
  <2>2. QED
    BY <1>4, <2>1, PutKeeps
<1>7. \A x \in Cached' :
         \/ x \in Cached /\ contexts'[x] = contexts[x] /\ owners'[x] = owners[x]
         \/ /\ x \in DOMAIN turns /\ contexts'[x].items = Append(turns[x].input, x)
            /\ owners'[x].way = turns[x].way /\ owners'[x].key = turns[x].key
  BY <1>1, <1>3, <1>6 DEF PutEntries
<1>8. clock' \in Nat
  BY <1>4 DEF CacheInv, CacheKinds
<1>9. QED
  BY <1>5, <1>6, <1>7, <1>8, StepKeeps

LEMMA SameCache ==
  ASSUME CacheInv, UNCHANGED <<contexts, usedBefore, owners, cacheBytes>>
  PROVE  CacheHalf' /\ LookedEntries
<1>1. CacheHalf
  BY Halves DEF CacheInv
<1>2. Cached' = Cached
  BY DEF Cached
<1>3. LimitsHold'
  BY <1>1, <1>2 DEF CacheHalf, LimitsHold
<1>4. QED
  BY <1>1, <1>2, <1>3 DEF CacheHalf, LookedEntries

LEMMA EndKeeps ==
  ASSUME CacheInv, NEW id \in DOMAIN turns, EndTurn(id)
  PROVE  CacheInv'
<1>1. turns' \in Seq(TurnType) /\ SameTurns /\ TurnsInv'
  <2>1. "ended" \in Stages
    BY DEF Stages
  <2>2. QED
    BY <2>1, StageSet DEF EndTurn
<1>2. CacheHalf' /\ LookedEntries
  BY SameCache DEF EndTurn
<1>3. clock' \in Nat
  BY DEF EndTurn, CacheInv, CacheKinds
<1>4. QED
  BY <1>1, <1>2, <1>3, StepKeeps DEF LookedEntries

LEMMA SameKeeps ==
  ASSUME CacheInv, UNCHANGED <<contexts, usedBefore, owners, cacheBytes, turns>>, clock' \in Nat
  PROVE  CacheInv'
<1>1. SameTurns /\ DOMAIN turns' = DOMAIN turns
  BY DEF SameTurns
<1>2. TurnsInv'
  BY <1>1, TurnsKeep
<1>3. CacheHalf' /\ LookedEntries
  BY SameCache
<1>4. QED
  BY <1>1, <1>2, <1>3, StepKeeps DEF LookedEntries, CacheInv, CacheKinds

LEMMA CacheStarts ==
  ASSUME CacheInit
  PROVE  CacheInv
<1>1. Cached = {} /\ IsFiniteSet({}) /\ Cardinality({}) = 0
  BY FS_EmptySet DEF CacheInit, Cached
<1>2. CacheKinds
  BY <1>1 DEF CacheInit, CacheKinds, EntryType
<1>3. SizeOf(contexts, Cached) = 0
  <2>1. PICK f \in [{} -> EntryType] : f = contexts
    BY <1>1, <1>2 DEF CacheKinds
  <2>2. SizeOf(f, {}) = Part(Lengths(f), {})
    BY SizeIsPart
  <2>3. QED
    BY <1>1, <2>1, <2>2, PartEmpty
<1>4. LimitsHold
  BY <1>1, <1>3, CacheAssumption DEF CacheInit, LimitsHold
<1>5. QED
  BY <1>1, <1>2, <1>4 DEF CacheInit, CacheInv, EntriesOf, TurnsInv, InOrder

LEMMA CacheStep ==
  ASSUME CacheInv, [CacheNext]_cacheVars
  PROVE  CacheInv'
<1>1. CASE \E key \in Keys, prev \in Completed \cup {NoTurn}, way \in Ways :
              BeginTurn(way, key, prev)
  BY <1>1, BeginKeeps
<1>2. CASE \E key \in Keys, prev \in Completed \cup {NoTurn} : RefuseTurn(key, prev)
  BY <1>2, RefuseKeeps
<1>3. CASE \E id \in DOMAIN turns : CompleteTurn(id)
  BY <1>3, CompleteKeeps
<1>4. CASE \E id \in DOMAIN turns : EndTurn(id)
  BY <1>4, EndKeeps
<1>5. CASE CacheTick
  BY <1>5, SameKeeps DEF CacheTick, CacheInv, CacheKinds
<1>6. CASE UNCHANGED cacheVars
  BY <1>6, SameKeeps DEF cacheVars, CacheInv, CacheKinds
<1>7. QED
  BY <1>1, <1>2, <1>3, <1>4, <1>5, <1>6 DEF CacheNext

LEMMA InvSound ==
  ASSUME CacheInv
  PROVE  CacheSound
<1>1. OwnHistory
  <2>1. SUFFICES ASSUME NEW id \in DOMAIN turns
                 PROVE  /\ IsSuffix(Recalled(turns[id].input), turns[id].line)
                        /\ SameKey(turns[id])
    BY DEF OwnHistory, SameKey
  <2>2. PICK s \in Seq(Int), t \in Seq(Int) :
           s = Recalled(turns[id].input) /\ t = turns[id].line
    BY TurnAt, NatsAreInts, RecalledSeq DEF CacheInv, CacheKinds
  <2>3. TailOf(s, t)
    BY <2>2 DEF CacheInv, TurnsInv, RecallsLine
  <2>4. IsSuffix(s, t)
    BY <2>3, SuffixByPlace
  <2>5. QED
    BY <2>2, <2>4 DEF CacheInv, TurnsInv
<1>2. GapIsMarked
  BY DEF CacheInv, TurnsInv, MarksGap, GapIsMarked
<1>3. QED
  BY <1>1, <1>2 DEF CacheInv, CacheSound

(* The cache of response contexts is sound: its limits, its byte count and   *)
(* its owners hold after every put, lookup, expiry and eviction, and a turn  *)
(* is given the end of its own line of turns, of its own key, with the notice *)
(* where a chat model misses some of it (_native_context_put,                *)
(* _native_context_get, prepare_chat_responses_payload).                     *)
THEOREM CacheTheorem == CacheSpec => []CacheSound
<1>1. CacheInit => CacheInv
  BY CacheStarts
<1>2. CacheInv /\ [CacheNext]_cacheVars => CacheInv'
  BY CacheStep
<1>3. CacheInv => CacheSound
  BY InvSound
<1>4. QED
  BY <1>1, <1>2, <1>3, PTL DEF CacheSpec

-----------------------------------------------------------------------------
(* The numbers and the logs. *)

(* A record that has begun its line, its day and its total still owes them.  *)
OwesLine == recorder.step \in {"unlink", "rotate", "append"}
OwesDay(d) == recorder.step = "day" /\ recorder.day = d
OwesTotal == recorder.step \in {"day", "total"}
Due(owes) == IF owes THEN 1 ELSE 0

UsageKinds ==
    /\ today \in Days /\ recorded \in 0..MaxRecords
    /\ accessLogs \in [Days -> [0..Backups -> SUBSET Nat]]
    /\ dayUsage \in [Days -> [Ips -> Nat]] /\ totalUsage \in [Ips -> Nat]
    /\ recorder \in [step : {"idle", "unlink", "rotate", "append", "day", "total", "cleanup"},
                     at : 0..Backups, day : Days, ip : Ips]
    /\ counted \in [requests : Nat, recent : 0..RecentLines]
    /\ cleanedDay \in 0..LastDay
    /\ appended \in [Days -> Nat]

(* What is counted was appended before, and what was appended was requested. *)
Backed ==
    /\ Sum(appended) + Due(OwesLine) <= recorded
    /\ \A d \in Days : Sum(dayUsage[d]) + Due(OwesDay(d)) <= appended[d]
    /\ Sum(totalUsage) + Due(OwesTotal) <= Sum(appended)
    /\ counted.requests <= recorded

(* Every file holds lines that were appended; a rotation that reached a file *)
(* has emptied the next one, and begins with a log that has lines.           *)
Rotating ==
    /\ \A d \in Days, i \in 0..Backups : accessLogs[d][i] \subseteq 1..appended[d]
    /\ recorder.step = "unlink" => accessLogs[recorder.day][0] # {}
    /\ recorder.step = "rotate" => /\ recorder.at < Backups
                                   /\ accessLogs[recorder.day][recorder.at + 1] = {}

UsageInv == UsageKinds /\ Backed /\ Rotating /\ LogUnbroken /\ recorder.day <= today

-----------------------------------------------------------------------------
(* The files of one day. *)

Held(log) == UNION {log[i] : i \in 0..Backups}

Ordered(log) == \A i, j \in 0..Backups : i < j => \A x \in log[i], y \in log[j] : y < x

Unbroken(log, last) ==
    /\ \E n \in 1..(last + 1) : Held(log) = n..last
    /\ last > 0 => last \in Held(log)
    /\ Ordered(log)

LogType == [0..Backups -> SUBSET Nat]

LEMMA LogUnbrokenByDay ==
  /\ LogUnbroken <=>
       \A d \in Days : d > today - Retention => Unbroken(accessLogs[d], appended[d])
  /\ LogUnbroken' <=>
       \A d \in Days : d > today' - Retention => Unbroken(accessLogs'[d], appended'[d])
BY DEF LogUnbroken, Unbroken, Held, Ordered, Lines

LEMMA FileNumbers ==
  /\ 0 \in 0..Backups /\ Backups \in 0..Backups /\ 0 < Backups
  /\ Backups - 1 \in 0..Backups /\ Backups - 1 < Backups /\ Backups - 1 + 1 = Backups
  /\ \A i \in 0..(Backups - 1) : i \in 0..Backups /\ i + 1 \in 0..Backups /\ i \in Nat
BY UsageAssumption

LEMMA WindowMoves ==
  ASSUME NEW d \in Days, NEW t \in Days, NEW u \in Days, t <= u, d > u - Retention
  PROVE  d > t - Retention
BY UsageAssumption DEF Days

LEMMA HeldIn ==
  \A log : \A x : x \in Held(log) <=> \E i \in 0..Backups : x \in log[i]
BY DEF Held

LEMMA NoFilesUnbroken == Unbroken([i \in 0..Backups |-> {}], 0)
<1>1. PICK log : log = [i \in 0..Backups |-> {}]
  OBVIOUS
<1>2. Held(log) = {} /\ Ordered(log)
  BY <1>1 DEF Held, Ordered
<1>3. 1 \in 1..(0 + 1) /\ {} = 1..0 /\ ~(0 > 0)
  OBVIOUS
<1>4. Unbroken(log, 0)
  BY <1>2, <1>3 DEF Unbroken
<1>5. QED
  BY <1>1, <1>4

LEMMA UnlinkKeepsRun ==
  ASSUME NEW log \in LogType, NEW last \in Nat, Unbroken(log, last), log[0] # {}
  PROVE  Unbroken([log EXCEPT ![Backups] = NoFile], last)
<1>0. 0 \in 0..Backups /\ Backups \in 0..Backups /\ 0 < Backups
  BY UsageAssumption
<1>1. PICK new \in LogType : new = [log EXCEPT ![Backups] = NoFile]
  BY DEF LogType, NoFile
<1>2. new[Backups] = {} /\ \A i \in 0..Backups : i # Backups => new[i] = log[i]
  BY <1>0, <1>1 DEF LogType, NoFile
<1>3. \A x : x \in Held(new) <=> x \in Held(log) /\ x \notin log[Backups]
  <2>1. ASSUME NEW x \in Held(new) PROVE x \in Held(log) /\ x \notin log[Backups]
    <3>1. PICK i \in 0..Backups : x \in new[i]
      BY <2>1, HeldIn
    <3>2. i # Backups /\ x \in log[i] /\ i < Backups
      BY <1>0, <1>2, <3>1, UsageAssumption
    <3>3. x \in Nat /\ \A y \in log[Backups] : y \in Nat /\ y < x
      BY <1>0, <3>1, <3>2 DEF Unbroken, Ordered, LogType
    <3>4. QED
      BY <3>2, <3>3, HeldIn
  <2>2. ASSUME NEW x \in Held(log), x \notin log[Backups] PROVE x \in Held(new)
    BY <1>2, <2>2, HeldIn
  <2>3. QED
    BY <2>1, <2>2
<1>4. PICK top \in log[0] : TRUE
  OBVIOUS
<1>5. top \in Nat /\ \A y \in log[Backups] : y \in Nat /\ y < top
  BY <1>0, <1>4 DEF Unbroken, Ordered, LogType
<1>6. top \in Held(log) /\ top \notin log[Backups]
  BY <1>0, <1>4, <1>5, HeldIn
<1>7. PICK n \in 1..(last + 1) : Held(log) = n..last
  BY DEF Unbroken
<1>8. PICK least \in Held(new) : \A x \in Held(new) : least <= x
  <2>1. Held(new) # {} /\ Held(new) \in SUBSET Nat
    BY <1>3, <1>6, <1>7
  <2>2. QED
    BY <2>1, LeastNatural
<1>9. Held(new) = least..last
  <2>1. least \in n..last /\ least \in Nat /\ last \in Nat /\ n \in Nat
    BY <1>3, <1>7, <1>8
  <2>2. ASSUME NEW x \in least..last PROVE x \in Held(new)
    <3>1. x \in Held(log)
      BY <1>7, <2>1, <2>2
    <3>2. PICK i \in 0..Backups : least \in log[i]
      BY <1>3, <1>8, HeldIn
    <3>3. i < Backups
      BY <1>3, <1>8, <3>2, UsageAssumption
    <3>4. \A y \in log[Backups] : y \in Nat /\ y < least
      BY <1>0, <3>2, <3>3 DEF Unbroken, Ordered, LogType
    <3>5. x \notin log[Backups]
      BY <2>1, <2>2, <3>4
    <3>6. QED
      BY <1>3, <3>1, <3>5
  <2>3. ASSUME NEW x \in Held(new) PROVE x \in least..last
    BY <1>3, <1>7, <1>8, <2>1, <2>3
  <2>4. QED
    BY <2>2, <2>3
<1>10. least \in 1..(last + 1) /\ last \in Held(new)
  <2>1. least \in n..last
    BY <1>3, <1>7, <1>8
  <2>2. QED
    BY <1>9, <2>1
<1>11. Ordered(new)
  <2>1. SUFFICES ASSUME NEW i \in 0..Backups, NEW j \in 0..Backups, i < j,
                        NEW x \in new[i], NEW y \in new[j]
                 PROVE  y < x
    BY DEF Ordered
  <2>2. x \in log[i] /\ y \in log[j]
    BY <1>2, <2>1
  <2>3. QED
    BY <2>1, <2>2 DEF Unbroken, Ordered
<1>12. Unbroken(new, last)
  BY <1>9, <1>10, <1>11 DEF Unbroken
<1>13. QED
  BY <1>1, <1>12

LEMMA MoveKeepsRun ==
  ASSUME NEW log \in LogType, NEW last \in Nat, NEW i \in 0..(Backups - 1), log[i + 1] = NoFile
  PROVE  /\ Moved(log, i) \in LogType
         /\ Held(Moved(log, i)) = Held(log)
         /\ Moved(log, i)[i] = NoFile
         /\ Unbroken(log, last) => Unbroken(Moved(log, i), last)
<1>0. i \in 0..Backups /\ i + 1 \in 0..Backups /\ i # i + 1 /\ i < i + 1
  BY UsageAssumption
<1>1. PICK new : new = Moved(log, i)
  OBVIOUS
<1>2. /\ new \in LogType
      /\ new[i + 1] = log[i] /\ new[i] = {}
      /\ \A j \in 0..Backups : j # i /\ j # i + 1 => new[j] = log[j]
  BY <1>0, <1>1 DEF Moved, LogType, NoFile
<1>3. Held(new) = Held(log)
  <2>1. ASSUME NEW x \in Held(new) PROVE x \in Held(log)
    <3>1. PICK j \in 0..Backups : x \in new[j]
      BY <2>1, HeldIn
    <3>2. QED
      BY <1>0, <1>2, <3>1, HeldIn
  <2>2. ASSUME NEW x \in Held(log) PROVE x \in Held(new)
    <3>1. PICK j \in 0..Backups : x \in log[j]
      BY <2>2, HeldIn
    <3>2. j # i + 1
      BY <3>1 DEF NoFile
    <3>3. QED
      BY <1>0, <1>2, <3>1, <3>2, HeldIn
  <2>3. QED
    BY <2>1, <2>2
<1>4. ASSUME Ordered(log) PROVE Ordered(new)
  <2>1. SUFFICES ASSUME NEW j \in 0..Backups, NEW k \in 0..Backups, j < k,
                        NEW x \in new[j], NEW y \in new[k]
                 PROVE  y < x
    BY DEF Ordered
  <2>2. PICK j0 \in 0..Backups : j0 = IF j = i + 1 THEN i ELSE j
    BY <1>0
  <2>3. PICK k0 \in 0..Backups : k0 = IF k = i + 1 THEN i ELSE k
    BY <1>0
  <2>4. x \in log[j0] /\ y \in log[k0] /\ j # i /\ k # i
    BY <1>2, <2>1, <2>2, <2>3
  <2>5. j0 < k0
    BY <1>0, <2>1, <2>2, <2>3, <2>4
  <2>6. QED
    BY <1>4, <2>4, <2>5 DEF Ordered
<1>5. QED
  BY <1>1, <1>2, <1>3, <1>4 DEF Unbroken, NoFile

LEMMA AppendKeepsRun ==
  ASSUME NEW log \in LogType, NEW last \in Nat, \A i \in 0..Backups : log[i] \subseteq 1..last
  PROVE  /\ [log EXCEPT ![0] = @ \cup {last + 1}] \in LogType
         /\ \A i \in 0..Backups :
              [log EXCEPT ![0] = @ \cup {last + 1}][i] \subseteq 1..(last + 1)
         /\ Unbroken(log, last) => Unbroken([log EXCEPT ![0] = @ \cup {last + 1}], last + 1)
<1>0. 0 \in 0..Backups
  BY UsageAssumption
<1>1. PICK new : new = [log EXCEPT ![0] = @ \cup {last + 1}]
  OBVIOUS
<1>2. /\ new \in LogType
      /\ new[0] = log[0] \cup {last + 1}
      /\ \A i \in 0..Backups : i # 0 => new[i] = log[i]
  BY <1>0, <1>1 DEF LogType
<1>3. Held(new) = Held(log) \cup {last + 1}
  <2>1. ASSUME NEW x \in Held(new) PROVE x \in Held(log) \cup {last + 1}
    BY <1>0, <1>2, <2>1, HeldIn
  <2>2. ASSUME NEW x \in Held(log) \cup {last + 1} PROVE x \in Held(new)
    BY <1>0, <1>2, <2>2, HeldIn
  <2>3. QED
    BY <2>1, <2>2
<1>4. \A i \in 0..Backups : new[i] \subseteq 1..(last + 1)
  BY <1>2
<1>5. ASSUME Unbroken(log, last) PROVE Unbroken(new, last + 1)
  <2>1. PICK n \in 1..(last + 1) : Held(log) = n..last
    BY <1>5 DEF Unbroken
  <2>2. Held(new) = n..(last + 1) /\ n \in 1..(last + 2)
    BY <1>3, <2>1
  <2>3. Ordered(new)
    <3>1. SUFFICES ASSUME NEW i \in 0..Backups, NEW j \in 0..Backups, i < j,
                          NEW x \in new[i], NEW y \in new[j]
                   PROVE  y < x
      BY DEF Ordered
    <3>2. y \in log[j] /\ y \in 1..last
      BY <1>2, <3>1
    <3>3. CASE x \in log[i]
      BY <1>5, <3>1, <3>2, <3>3 DEF Unbroken, Ordered
    <3>4. CASE x \notin log[i]
      BY <1>2, <3>1, <3>2, <3>4
    <3>5. QED
      BY <3>3, <3>4
  <2>4. QED
    BY <2>2, <2>3 DEF Unbroken
<1>6. QED
  BY <1>1, <1>2, <1>4, <1>5

-----------------------------------------------------------------------------
(* The steps. *)

LEMMA FiniteIndices == IsFiniteSet(Days) /\ IsFiniteSet(Ips)
BY FS_Interval, UsageAssumption DEF Days

RecorderType ==
    [step : {"idle", "unlink", "rotate", "append", "day", "total", "cleanup"},
     at : 0..Backups, day : Days, ip : Ips]

LEMMA RecorderForms ==
    /\ IdleRecorder \in RecorderType /\ IdleRecorder.step = "idle" /\ IdleRecorder.day = 1
    /\ \A r \in RecorderType :
         \A step \in {"idle", "unlink", "rotate", "append", "day", "total", "cleanup"} :
           [r EXCEPT !.step = step] \in RecorderType
    /\ \A r \in RecorderType : \A at \in 0..Backups :
         \A step \in {"idle", "unlink", "rotate", "append", "day", "total", "cleanup"} :
           [r EXCEPT !.step = step, !.at = at] \in RecorderType
<1>1. 1 \in Days /\ 0 \in 0..Backups /\ (CHOOSE i \in Ips : TRUE) \in Ips
  BY UsageAssumption DEF Days
<1>2. IdleRecorder \in RecorderType /\ IdleRecorder.step = "idle" /\ IdleRecorder.day = 1
  BY <1>1 DEF RecorderType, IdleRecorder
<1>3. ASSUME NEW r \in RecorderType, NEW at \in 0..Backups,
             NEW step \in {"idle", "unlink", "rotate", "append", "day", "total", "cleanup"}
      PROVE  /\ [r EXCEPT !.step = step] \in RecorderType
             /\ [r EXCEPT !.step = step, !.at = at] \in RecorderType
  BY DEF RecorderType
<1>4. QED
  BY <1>1, <1>2, <1>3

LEMMA UsageBegins == UsageInit => UsageInv
<1> SUFFICES ASSUME UsageInit PROVE UsageInv
  OBVIOUS
<1> USE DEF UsageInit
<1>1. UsageKinds
  <2>1. 1 \in Days /\ recorder \in RecorderType
    <3>1. recorder = IdleRecorder  OBVIOUS
    <3>2. 1 \in Days  BY UsageAssumption DEF Days
    <3> QED  BY <3>1, <3>2, RecorderForms
  <2>2. QED
    BY <2>1, UsageAssumption DEF UsageKinds, RecorderType, NoFile, Unused, NothingCounted
<1>2. Backed
  <2>1. Sum(appended) = 0
    <3>1. appended \in [Days -> Nat] /\ \A d \in Days : appended[d] = 0  OBVIOUS
    <3>2. QED  BY <3>1, FiniteIndices, SumOfNothing
  <2>2. Unused \in [Ips -> Nat] /\ \A i \in Ips : Unused[i] = 0
    BY DEF Unused
  <2>3. Sum(Unused) = 0
    BY <2>2, FiniteIndices, SumOfNothing
  <2>4. recorder.step = "idle"
    <3>1. recorder = IdleRecorder  OBVIOUS
    <3>2. QED  BY <3>1, RecorderForms
  <2>5. Due(OwesLine) = 0 /\ Due(OwesTotal) = 0 /\ \A d \in Days : Due(OwesDay(d)) = 0
    BY <2>4 DEF OwesLine, OwesDay, OwesTotal, Due
  <2>6. counted.requests = 0 /\ recorded = 0
    BY DEF NothingCounted
  <2>7. \A d \in Days : Sum(dayUsage[d]) = 0 /\ appended[d] = 0
    BY <2>3
  <2>8. Sum(totalUsage) = 0
    BY <2>3
  <2>9. QED
    BY <2>1, <2>5, <2>6, <2>7, <2>8 DEF Backed
<1>3. Rotating
  <2>1. recorder = IdleRecorder  OBVIOUS
  <2>2. recorder.step = "idle"  BY <2>1, RecorderForms
  <2>3. \A d \in Days, i \in 0..Backups : accessLogs[d][i] = {}  BY DEF NoFile
  <2>4. QED  BY <2>2, <2>3 DEF Rotating
<1>4. LogUnbroken
  <2>1. SUFFICES ASSUME NEW d \in Days PROVE Unbroken(accessLogs[d], appended[d])
    BY LogUnbrokenByDay
  <2>2. accessLogs[d] = [i \in 0..Backups |-> {}] /\ appended[d] = 0
    BY DEF NoFile
  <2>3. QED
    BY <2>2, NoFilesUnbroken
<1>5. recorder.day <= today
  <2>1. recorder = IdleRecorder /\ today = 1  OBVIOUS
  <2>2. IdleRecorder.day = 1  BY RecorderForms
  <2>3. recorder.day = 1  BY <2>1, <2>2
  <2>4. QED  BY <2>1, <2>3
<1>6. QED
  BY <1>1, <1>2, <1>3, <1>4, <1>5 DEF UsageInv

(* A step that leaves the files alone, and owes no more than before.         *)
LEMMA FilesStay ==
  ASSUME UsageInv, UNCHANGED <<usageFiles, appended>>,
         today' \in Days, today <= today', recorded' \in 0..MaxRecords,
         recorder' \in RecorderType, recorder'.day <= today',
         cleanedDay' \in 0..LastDay,
         counted' \in [requests : Nat, recent : 0..RecentLines],
         counted'.requests <= recorded',
         Due(OwesLine)' - Due(OwesLine) <= recorded' - recorded,
         OwesTotal' => OwesTotal /\ recorder'.day = recorder.day,
         recorder'.step = "day" => recorder.step = "day",
         recorder'.step = "unlink" => accessLogs[recorder'.day][0] # {},
         recorder'.step = "rotate" => recorder' = recorder
  PROVE  UsageInv'
<1> USE DEF UsageInv
<1>1. UsageKinds'
  BY DEF UsageKinds, RecorderType, usageFiles
<1>2. Backed'
  <2>1. Sum(appended) \in Nat /\ recorded \in Nat /\ recorded' \in Nat
    BY FiniteIndices, SumNat, SMTT(60) DEF UsageKinds
  <2>2. Sum(appended') + Due(OwesLine)' <= recorded'
    <3>1. Sum(appended) + Due(OwesLine) <= recorded /\ appended' = appended
      BY DEF Backed
    <3>2. Due(OwesLine) \in Nat /\ Due(OwesLine)' \in Nat
      BY DEF Due
    <3>3. QED
      BY <2>1, <3>1, <3>2
  <2>3. ASSUME NEW d \in Days PROVE Sum(dayUsage'[d]) + Due(OwesDay(d))' <= appended'[d]
    <3>1. dayUsage[d] \in [Ips -> Nat] /\ appended[d] \in Nat
      BY DEF UsageKinds
    <3>2. Sum(dayUsage[d]) \in Nat
      BY <3>1, FiniteIndices, SumNat
    <3>3. OwesDay(d)' => OwesDay(d)
      BY DEF OwesDay, OwesTotal
    <3>4. QED
      BY <3>1, <3>2, <3>3 DEF Backed, Due, usageFiles
  <2>4. Sum(totalUsage') + Due(OwesTotal)' <= Sum(appended')
    <3>1. Sum(totalUsage) \in Nat
      BY FiniteIndices, SumNat DEF UsageKinds
    <3>2. QED
      BY <2>1, <3>1 DEF Backed, Due, usageFiles
  <2>5. QED
    BY <2>2, <2>3, <2>4 DEF Backed
<1>3. Rotating'
  BY DEF Rotating, usageFiles
<1>4. LogUnbroken'
  <2>1. SUFFICES ASSUME NEW d \in Days, d > today' - Retention
                 PROVE  Unbroken(accessLogs[d], appended[d])
    BY LogUnbrokenByDay DEF usageFiles
  <2>2. d > today - Retention
    <3>1. today \in Days
      BY DEF UsageKinds
    <3>2. QED
      BY <2>1, <3>1, WindowMoves
  <2>3. QED
    BY <2>2, LogUnbrokenByDay
<1>5. QED
  BY <1>1, <1>2, <1>3, <1>4

(* The recorder is idle again, or leaves a day's files to begin a record.    *)
LEMMA RecordRequestSound ==
  ASSUME UsageInv, NEW d \in Days, NEW ip \in Ips, RecordRequest(d, ip)
  PROVE  UsageInv'
<1> USE DEF RecordRequest
<1>1. recorder' \in RecorderType /\ recorder'.day = d /\ recorder'.step \in {"append", "unlink"}
  BY UsageAssumption DEF RecorderType
<1>2. recorder'.step = "unlink" => accessLogs[d][0] # {}
  <2>1. SUFFICES ASSUME accessLogs[d][0] = {} PROVE recorder'.step = "append"
    BY <1>1
  <2>2. Cardinality(accessLogs[d][0]) < LogLines
    BY <2>1, FS_EmptySet, UsageAssumption
  <2>3. QED
    BY <2>2
<1>3. /\ today' = today /\ today \in Int /\ today' \in Days /\ d <= today
      /\ recorded' = recorded + 1 /\ recorded \in Nat /\ recorded' \in 0..MaxRecords
      /\ cleanedDay' \in 0..LastDay
  BY UsageAssumption DEF UsageInv, UsageKinds, Days
<1>4. /\ counted' \in [requests : Nat, recent : 0..RecentLines]
      /\ counted'.requests = counted.requests + 1
      /\ counted.requests \in Nat
  <2>1. counted \in [requests : Nat, recent : 0..RecentLines]
    BY DEF UsageInv, UsageKinds
  <2>2. counted.requests + 1 \in Nat /\ counted.requests \in Nat
    BY <2>1
  <2>3. PICK n \in 0..RecentLines : n = IF counted.recent < RecentLines THEN counted.recent + 1
                                        ELSE counted.recent
    BY <2>1, UsageAssumption
  <2>4. counted' = [requests |-> counted.requests + 1, recent |-> n]
    BY <2>3
  <2>5. QED
    BY <2>2, <2>4
<1>5. counted'.requests <= recorded'
  BY <1>3, <1>4 DEF UsageInv, Backed
<1>6. Due(OwesLine)' - Due(OwesLine) <= recorded' - recorded
  <2>1. Due(OwesLine)' \in {0, 1} /\ Due(OwesLine) \in {0, 1}
    BY DEF Due
  <2>2. QED
    BY <1>3, <2>1
<1>7. recorder'.step # "day" /\ recorder'.step # "rotate" /\ ~OwesTotal'
  BY <1>1 DEF OwesTotal
<1>8. UNCHANGED <<usageFiles, appended>>
  OBVIOUS
<1>9. QED
  BY <1>1, <1>2, <1>3, <1>4, <1>5, <1>6, <1>7, <1>8, FilesStay

(* Failures, the end of a process, and what the collector does on its own.   *)
LEMMA QuietSound ==
  ASSUME UsageInv, RecordFails \/ ClearLogs \/ NextDay \/ RestartStats
  PROVE  UsageInv'
<1>1. UNCHANGED <<usageFiles, appended, recorded>>
  BY DEF RecordFails, ClearLogs, NextDay, RestartStats
<1>2. recorder' = recorder \/ recorder' = IdleRecorder
  BY DEF RecordFails, ClearLogs, RestartStats, NextDay
<1>3. recorder \in RecorderType /\ recorder.day <= today
  BY DEF UsageInv, UsageKinds, RecorderType
<1>4. recorder' \in RecorderType /\ (recorder' = recorder \/ recorder'.step = "idle")
  BY <1>2, <1>3, RecorderForms
<1>5. today' \in Days /\ today \in Days /\ today <= today'
  <2>1. today \in Days /\ (today' = today \/ (today < LastDay /\ today' = today + 1))
    BY DEF UsageInv, UsageKinds, RecordFails, ClearLogs, NextDay, RestartStats
  <2>2. QED
    BY <2>1, UsageAssumption DEF Days
<1>6. cleanedDay' \in 0..LastDay
  BY UsageAssumption, SMTT(60)
     DEF UsageInv, UsageKinds, RecordFails, ClearLogs, NextDay, RestartStats
<1>7. /\ counted' \in [requests : Nat, recent : 0..RecentLines]
      /\ counted'.requests <= recorded
  <2>1. /\ counted \in [requests : Nat, recent : 0..RecentLines]
        /\ counted.requests <= recorded /\ recorded \in Nat
    BY DEF UsageInv, UsageKinds, Backed
  <2>2. counted' = counted \/ counted' = NothingCounted
    BY DEF RecordFails, ClearLogs, NextDay, RestartStats
  <2>3. NothingCounted \in [requests : Nat, recent : 0..RecentLines] /\ NothingCounted.requests = 0
    BY UsageAssumption DEF NothingCounted
  <2>4. QED
    BY <2>1, <2>2, <2>3
<1>8. recorder'.day <= today'
  <2>1. recorder.day \in Int /\ today \in Int /\ today' \in Int /\ 1 <= today'
    BY <1>3, <1>5, UsageAssumption DEF RecorderType, Days
  <2>2. recorder' = IdleRecorder => recorder'.day = 1
    BY RecorderForms
  <2>3. QED
    BY <1>2, <1>3, <1>5, <2>1, <2>2
<1>9. /\ OwesLine' => OwesLine
      /\ OwesTotal' => OwesTotal /\ recorder'.day = recorder.day
      /\ recorder'.step = "day" => recorder.step = "day"
      /\ recorder'.step = "rotate" => recorder' = recorder
      /\ recorder'.step = "unlink" => recorder' = recorder
  BY <1>4 DEF OwesLine, OwesTotal
<1>10. Due(OwesLine)' - Due(OwesLine) <= recorded' - recorded
  <2>1. Due(OwesLine)' <= Due(OwesLine) /\ Due(OwesLine)' \in Nat /\ Due(OwesLine) \in Nat
    BY <1>9 DEF Due
  <2>2. recorded' = recorded /\ recorded \in Nat
    BY <1>1 DEF UsageInv, UsageKinds
  <2>3. QED
    BY <2>1, <2>2
<1>11. recorder'.step = "unlink" => accessLogs[recorder'.day][0] # {}
  BY <1>9 DEF UsageInv, Rotating
<1>12. recorded' \in 0..MaxRecords /\ counted'.requests <= recorded'
  BY <1>1, <1>7 DEF UsageInv, UsageKinds
<1>13. QED
  BY <1>1, <1>4, <1>5, <1>6, <1>7, <1>8, <1>9, <1>10, <1>11, <1>12, FilesStay

(* One day's files become `new`, while its record still owes its line.       *)
Reshaped(new) ==
    LET day == recorder.day IN
    /\ accessLogs' = [accessLogs EXCEPT ![day] = new]
    /\ Held(new) \subseteq Held(accessLogs[day])
    /\ Unbroken(accessLogs[day], appended[day]) => Unbroken(new, appended[day])
    /\ recorder' \in RecorderType /\ recorder'.day = day
    /\ recorder.step \in {"unlink", "rotate"} /\ recorder'.step \in {"rotate", "append"}
    /\ recorder'.step = "rotate" => recorder'.at < Backups /\ new[recorder'.at + 1] = {}

AfterMove(r, i) ==
    IF i = 0 THEN [r EXCEPT !.step = "append", !.at = 0]
    ELSE [r EXCEPT !.step = "rotate", !.at = i - 1]

LEMMA MovedUp ==
  ASSUME NEW r \in RecorderType, NEW i \in 0..(Backups - 1), NEW s, s = AfterMove(r, i)
  PROVE  /\ s \in RecorderType /\ s.day = r.day /\ s.step \in {"rotate", "append"}
         /\ s.step = "rotate" => s.at < Backups /\ s.at + 1 = i
<1>1. CASE i = 0
  <2>1. [r EXCEPT !.step = "append", !.at = 0] \in RecorderType
    BY FileNumbers, RecorderForms
  <2>2. s \in RecorderType
    BY <1>1, <2>1 DEF AfterMove
  <2>3. s.day = r.day /\ s.step = "append"
    BY <1>1 DEF RecorderType, AfterMove
  <2>4. QED
    BY <2>2, <2>3
<1>2. CASE i # 0
  <2>1. i - 1 \in 0..Backups /\ i - 1 < Backups /\ i - 1 + 1 = i
    BY <1>2, UsageAssumption
  <2>2. [r EXCEPT !.step = "rotate", !.at = i - 1] \in RecorderType
    BY <2>1, RecorderForms
  <2>3. s \in RecorderType
    BY <1>2, <2>2 DEF AfterMove
  <2>4. s.day = r.day /\ s.step = "rotate" /\ s.at = i - 1
    BY <1>2 DEF RecorderType, AfterMove
  <2>5. QED
    BY <2>1, <2>3, <2>4
<1>3. QED
  BY <1>1, <1>2

LEMMA RotationReshapes ==
  ASSUME UsageInv, UnlinkOldest \/ \E i \in 0..(Backups - 1) : MoveUp(i)
  PROVE  \E new \in LogType : Reshaped(new)
<1>1. PICK day \in Days : day = recorder.day
  BY DEF UsageInv, UsageKinds
<1>2. PICK log \in LogType : log = accessLogs[day]
  BY DEF UsageInv, UsageKinds, LogType
<1>3. recorder \in RecorderType /\ accessLogs \in [Days -> LogType]
  BY DEF UsageInv, UsageKinds, LogType, RecorderType
<1>4. PICK last \in Nat : last = appended[day]
  BY DEF UsageInv, UsageKinds
<1>5. CASE UnlinkOldest
  <2> USE <1>5 DEF UnlinkOldest
  <2>1. Backups - 1 \in 0..Backups /\ Backups \in 0..Backups /\ Backups - 1 < Backups
        /\ Backups - 1 + 1 = Backups
    BY FileNumbers
  <2>2. PICK new \in LogType : new = [log EXCEPT ![Backups] = NoFile]
    BY <1>2 DEF LogType, NoFile
  <2>3. accessLogs' = [accessLogs EXCEPT ![day] = new]
    BY <1>1, <1>2, <1>3, <2>2
  <2>4. Held(new) \subseteq Held(log)
    <3>1. \A i \in 0..Backups : new[i] \subseteq log[i]
      BY <2>2 DEF LogType, NoFile
    <3>2. QED
      BY <3>1, HeldIn
  <2>5. Unbroken(log, last) => Unbroken(new, last)
    <3>1. log[0] # {}
      BY <1>1, <1>2 DEF UsageInv, Rotating
    <3>2. QED
      BY <2>2, <3>1, UnlinkKeepsRun
  <2>6. /\ recorder' \in RecorderType /\ recorder'.day = day
        /\ recorder'.step = "rotate" /\ recorder'.at = Backups - 1
    <3>1. recorder' \in RecorderType
      BY <1>3, <2>1, RecorderForms
    <3>2. QED
      BY <1>1, <1>3, <2>1, <3>1 DEF RecorderType
  <2>7. new[Backups] = {}
    BY <2>1, <2>2 DEF LogType, NoFile
  <2>8. recorder'.at < Backups /\ new[recorder'.at + 1] = {}
    BY <2>1, <2>6, <2>7
  <2>9. QED
    BY <1>1, <1>2, <1>4, <2>2, <2>3, <2>4, <2>5, <2>6, <2>8 DEF Reshaped
<1>6. ASSUME NEW i \in 0..(Backups - 1), MoveUp(i)
      PROVE  \E new \in LogType : Reshaped(new)
  <2> USE <1>6 DEF MoveUp
  <2>1. i \in 0..Backups /\ i + 1 \in 0..Backups /\ i \in Nat
    BY FileNumbers
  <2>2. log[i + 1] = NoFile
    BY <1>1, <1>2 DEF UsageInv, Rotating, NoFile
  <2>3. PICK new \in LogType : new = IF log[i] = NoFile THEN log ELSE Moved(log, i)
    BY <2>2, MoveKeepsRun
  <2>4. accessLogs' = [accessLogs EXCEPT ![day] = new]
    BY <1>1, <1>2, <1>3, <2>3
  <2>5. /\ Held(new) \subseteq Held(log)
        /\ Unbroken(log, last) => Unbroken(new, last)
        /\ new[i] = {}
    BY <2>2, <2>3, MoveKeepsRun DEF NoFile
  <2>6. /\ recorder' \in RecorderType /\ recorder'.day = recorder.day
        /\ recorder'.step \in {"rotate", "append"}
        /\ recorder'.step = "rotate" => recorder'.at < Backups /\ recorder'.at + 1 = i
    <3>1. recorder.step = "rotate"
      OBVIOUS
    <3>2. recorder' = [recorder EXCEPT !.step = IF i = 0 THEN "append" ELSE @,
                                       !.at = IF i = 0 THEN 0 ELSE i - 1]
      OBVIOUS
    <3>3. PICK r \in RecorderType : r = recorder
      BY <1>3
    <3>4. PICK s : s = recorder'
      OBVIOUS
    <3>5. s = AfterMove(r, i)
      BY <3>1, <3>2, <3>3, <3>4 DEF RecorderType, AfterMove
    <3> HIDE DEF MoveUp
    <3>6. /\ s \in RecorderType /\ s.day = r.day /\ s.step \in {"rotate", "append"}
          /\ s.step = "rotate" => s.at < Backups /\ s.at + 1 = i
      BY <3>3, <3>5, MovedUp
    <3>7. QED
      BY <3>3, <3>4, <3>6
  <2>7. QED
    BY <1>1, <1>2, <1>4, <2>4, <2>5, <2>6 DEF Reshaped
<1>7. QED
  BY <1>5, <1>6

LEMMA RotationSound ==
  ASSUME UsageInv, NEW new \in LogType, Reshaped(new),
         UNCHANGED <<today, dayUsage, totalUsage, counted, cleanedDay, appended, recorded>>
  PROVE  UsageInv'
<1>1. PICK day \in Days : day = recorder.day
  BY DEF UsageInv, UsageKinds
<1>2. accessLogs \in [Days -> LogType] /\ appended \in [Days -> Nat]
  BY DEF UsageInv, UsageKinds, LogType
<1>3. /\ accessLogs' \in [Days -> LogType]
      /\ accessLogs'[day] = new /\ \A d \in Days : d # day => accessLogs'[d] = accessLogs[d]
  BY <1>1, <1>2 DEF Reshaped
<1>4. UsageKinds'
  BY <1>3 DEF UsageInv, UsageKinds, Reshaped, RecorderType, LogType
<1>5. Backed'
  <2>1. /\ OwesLine /\ OwesLine' /\ ~OwesTotal /\ ~OwesTotal'
        /\ \A d \in Days : ~OwesDay(d) /\ ~OwesDay(d)'
    BY DEF Reshaped, OwesLine, OwesTotal, OwesDay
  <2>2. QED
    BY <2>1 DEF UsageInv, Backed, Due
<1>6. Rotating'
  <2>1. ASSUME NEW d \in Days, NEW i \in 0..Backups
        PROVE  accessLogs'[d][i] \subseteq 1..appended'[d]
    <3>1. \A j \in 0..Backups : accessLogs[d][j] \subseteq 1..appended[d]
      BY DEF UsageInv, Rotating
    <3>2. CASE d = day
      <4>1. Held(new) \subseteq Held(accessLogs[day])
        BY <1>1 DEF Reshaped
      <4>2. Held(accessLogs[day]) \subseteq 1..appended[day]
        BY <3>1, <3>2, HeldIn
      <4>3. new[i] \subseteq Held(new)
        BY HeldIn
      <4>4. QED
        BY <1>3, <3>2, <4>1, <4>2, <4>3
    <3>3. CASE d # day
      BY <1>3, <3>1, <3>3
    <3>4. QED
      BY <3>2, <3>3
  <2>2. /\ recorder'.step # "unlink" /\ recorder'.day = day
        /\ recorder'.step = "rotate" => recorder'.at < Backups /\ new[recorder'.at + 1] = {}
    BY <1>1 DEF Reshaped
  <2>3. QED
    BY <1>3, <2>1, <2>2 DEF Rotating
<1>7. LogUnbroken'
  <2>1. SUFFICES ASSUME NEW d \in Days, d > today - Retention
                 PROVE  Unbroken(accessLogs'[d], appended[d])
    BY LogUnbrokenByDay
  <2>2. Unbroken(accessLogs[d], appended[d])
    BY <2>1, LogUnbrokenByDay DEF UsageInv
  <2>3. QED
    BY <1>1, <1>3, <2>2 DEF Reshaped
<1>8. recorder'.day <= today'
  BY DEF Reshaped, UsageInv
<1>9. QED
  BY <1>4, <1>5, <1>6, <1>7, <1>8 DEF UsageInv

(* The line is appended: the record owes its day now.                        *)
LEMMA AppendLineSound ==
  ASSUME UsageInv, AppendLine
  PROVE  UsageInv'
<1> USE DEF AppendLine
<1>1. PICK day \in Days : day = recorder.day
  BY DEF UsageInv, UsageKinds
<1>2. PICK last \in Nat : last = appended[day]
  BY DEF UsageInv, UsageKinds
<1>3. PICK log \in LogType : log = accessLogs[day]
  BY DEF UsageInv, UsageKinds, LogType
<1>4. /\ accessLogs \in [Days -> LogType] /\ appended \in [Days -> Nat]
      /\ recorder \in RecorderType
      /\ Sum(appended) \in Nat /\ recorded \in Nat
  BY FiniteIndices, SumNat DEF UsageInv, UsageKinds, LogType, RecorderType
<1>5. \A i \in 0..Backups : log[i] \subseteq 1..last
  BY <1>1, <1>2, <1>3 DEF UsageInv, Rotating
<1>6. PICK new : new = [log EXCEPT ![0] = @ \cup {last + 1}]
  OBVIOUS
<1>7. /\ new \in LogType
      /\ \A i \in 0..Backups : new[i] \subseteq 1..(last + 1)
      /\ Unbroken(log, last) => Unbroken(new, last + 1)
  BY <1>5, <1>6, AppendKeepsRun
<1>8. /\ appended' \in [Days -> Nat]
      /\ appended'[day] = last + 1
      /\ \A d \in Days : d # day => appended'[d] = appended[d]
      /\ Sum(appended') = Sum(appended) + 1
  <2>1. PICK more : more = appended' /\ more = OneMore(appended, day)
    BY <1>1 DEF OneMore
  <2>2. more \in [Days -> Nat] /\ Sum(more) = Sum(appended) + 1
    <3> HIDE DEF AppendLine
    <3>1. day \in Days /\ appended \in [Days -> Nat]
      BY <1>1, <1>4
    <3>2. OneMore(appended, day) \in [Days -> Nat]
          /\ Sum(OneMore(appended, day)) = Sum(appended) + 1
      BY <3>1, FiniteIndices, SumCounts
    <3>3. QED
      BY <2>1, <3>2
  <2>3. QED
    BY <1>2, <1>4, <2>1, <2>2 DEF OneMore
<1>9. /\ accessLogs' \in [Days -> LogType]
      /\ accessLogs'[day] = new
      /\ \A d \in Days : d # day => accessLogs'[d] = accessLogs[d]
  <2>1. accessLogs' = [accessLogs EXCEPT ![day] = new]
    BY <1>1, <1>3, <1>4, <1>6, <1>8
  <2>2. QED
    BY <1>4, <1>7, <2>1
<1>10. recorder' \in RecorderType /\ recorder'.day = day /\ recorder'.step = "day"
  <2>1. recorder' = [recorder EXCEPT !.step = "day"]
    BY DEF Proceed
  <2>2. recorder' \in RecorderType
    BY <1>4, <2>1, RecorderForms
  <2>3. QED
    BY <1>1, <1>4, <2>1 DEF RecorderType
<1>11. UsageKinds'
  BY <1>8, <1>9, <1>10 DEF UsageInv, UsageKinds, RecorderType, LogType
<1>12. Backed'
  <2>1. Due(OwesLine) = 1 /\ Due(OwesLine)' = 0 /\ Due(OwesTotal) = 0 /\ Due(OwesTotal)' = 1
    BY <1>10 DEF OwesLine, OwesTotal, Due
  <2>2. Sum(appended') + Due(OwesLine)' <= recorded'
    BY <1>4, <1>8, <2>1 DEF UsageInv, Backed
  <2>3. ASSUME NEW d \in Days PROVE Sum(dayUsage'[d]) + Due(OwesDay(d))' <= appended'[d]
    <3>1. /\ Due(OwesDay(d)) = 0 /\ Due(OwesDay(d))' = IF d = day THEN 1 ELSE 0
      BY <1>10 DEF OwesDay, Due
    <3>2. Sum(dayUsage[d]) \in Nat /\ appended[d] \in Nat
      <4>1. dayUsage[d] \in [Ips -> Nat]
        BY DEF UsageInv, UsageKinds
      <4>2. QED
        BY <1>4, <4>1, FiniteIndices, SumNat
    <3>3. Sum(dayUsage[d]) <= appended[d]
      BY <3>1, <3>2 DEF UsageInv, Backed
    <3>4. appended'[d] = appended[d] + Due(OwesDay(d))'
      BY <1>2, <1>8, <3>1, <3>2
    <3>5. Due(OwesDay(d))' \in Nat
      BY <3>1
    <3>6. QED
      BY <3>2, <3>3, <3>4, <3>5
  <2>4. Sum(totalUsage') + Due(OwesTotal)' <= Sum(appended')
    <3>1. Sum(totalUsage) \in Nat
      BY FiniteIndices, SumNat DEF UsageInv, UsageKinds
    <3>2. QED
      BY <1>4, <1>8, <2>1, <3>1 DEF UsageInv, Backed
  <2>5. QED
    BY <2>2, <2>3, <2>4 DEF UsageInv, Backed
<1>13. Rotating'
  <2>1. ASSUME NEW d \in Days, NEW i \in 0..Backups
        PROVE  accessLogs'[d][i] \subseteq 1..appended'[d]
    BY <1>7, <1>8, <1>9 DEF UsageInv, Rotating
  <2>2. QED
    BY <1>10, <2>1 DEF Rotating
<1>14. LogUnbroken'
  <2>1. SUFFICES ASSUME NEW d \in Days, d > today - Retention
                 PROVE  Unbroken(accessLogs'[d], appended'[d])
    BY LogUnbrokenByDay
  <2>2. Unbroken(accessLogs[d], appended[d])
    BY <2>1, LogUnbrokenByDay DEF UsageInv
  <2>3. QED
    BY <1>2, <1>3, <1>7, <1>8, <1>9, <2>2
<1>15. recorder'.day <= today'
  BY <1>1, <1>10 DEF UsageInv
<1>16. QED
  BY <1>11, <1>12, <1>13, <1>14, <1>15 DEF UsageInv

(* What an increment leaves in a usage file: no more than what it counts.    *)
LEMMA IncrementBounded ==
  ASSUME NEW usage \in [Ips -> Nat], NEW ip \in Ips, NEW readable \in BOOLEAN,
         NEW new, new = [IF readable THEN usage ELSE Unused EXCEPT ![ip] = @ + 1]
  PROVE  new \in [Ips -> Nat] /\ Sum(new) <= Sum(usage) + 1
<1>1. PICK old \in [Ips -> Nat] : old = IF readable THEN usage ELSE Unused
  BY DEF Unused
<1>2. new = OneMore(old, ip)
  BY <1>1 DEF OneMore
<1>3. new \in [Ips -> Nat] /\ Sum(new) = Sum(old) + 1
  <2>1. old \in [Ips -> Nat] /\ ip \in Ips
    OBVIOUS
  <2>2. /\ OneMore(old, ip) \in [Ips -> Nat]
        /\ Sum(OneMore(old, ip)) = Sum(old) + 1
    BY ONLY <2>1, FiniteIndices, SumCounts
  <2>3. QED
    BY ONLY <1>2, <2>2
<1>4. Sum(usage) \in Nat
  BY FiniteIndices, SumNat
<1>5. Sum(old) <= Sum(usage)
  <2>1. CASE readable
    BY <1>1, <1>4, <2>1
  <2>2. CASE ~readable
    <3>1. \A i \in Ips : old[i] = 0
      BY <1>1, <2>2 DEF Unused
    <3>2. Sum(old) = 0
      BY <3>1, FiniteIndices, SumOfNothing
    <3>3. QED
      BY <1>4, <3>2
  <2>3. QED
    BY <2>1, <2>2
<1>6. Sum(old) \in Nat
  BY FiniteIndices, SumNat
<1>7. QED
  BY <1>3, <1>4, <1>5, <1>6

LEMMA TypedSums ==
  ASSUME UsageInv
  PROVE  /\ Sum(appended) \in Nat /\ Sum(totalUsage) \in Nat
         /\ appended \in [Days -> Nat] /\ recorded \in Nat
         /\ \A d \in Days : appended[d] \in Nat /\ Sum(dayUsage[d]) \in Nat
         /\ recorder \in RecorderType /\ recorder.day \in Days /\ recorder.ip \in Ips
<1>1. \A d \in Days : dayUsage[d] \in [Ips -> Nat]
  BY DEF UsageInv, UsageKinds
<1>2. \A d \in Days : Sum(dayUsage[d]) \in Nat
  BY <1>1, FiniteIndices, SumNat
<1>3. Sum(appended) \in Nat /\ Sum(totalUsage) \in Nat
  BY FiniteIndices, SumNat DEF UsageInv, UsageKinds
<1>4. QED
  BY <1>2, <1>3 DEF UsageInv, UsageKinds, RecorderType

(* The day is counted, from nothing if its file cannot be read.              *)
LEMMA CountDaySound ==
  ASSUME UsageInv, NEW readable \in BOOLEAN, CountDay(readable)
  PROVE  UsageInv'
<1>1. PICK day \in Days : day = recorder.day
  BY DEF UsageInv, UsageKinds
<1>2. PICK usage \in [Ips -> Nat] : usage = dayUsage[day]
  BY DEF UsageInv, UsageKinds
<1>3. PICK new \in [Ips -> Nat] :
         /\ new = [IF readable THEN usage ELSE Unused EXCEPT ![recorder.ip] = @ + 1]
         /\ Sum(new) <= Sum(usage) + 1
  BY TypedSums, IncrementBounded
<1>4. /\ dayUsage' \in [Days -> [Ips -> Nat]]
      /\ dayUsage'[day] = new
      /\ \A d \in Days : d # day => dayUsage'[d] = dayUsage[d]
  BY <1>1, <1>2, <1>3 DEF CountDay, Incremented, UsageInv, UsageKinds
<1>5. /\ recorder.step = "day" /\ recorder' = [recorder EXCEPT !.step = "total"]
      /\ UNCHANGED <<today, accessLogs, totalUsage, counted, cleanedDay, appended, recorded>>
  BY DEF CountDay, Proceed
<1>6. recorder' \in RecorderType /\ recorder'.day = day /\ recorder'.step = "total"
  <2>1. recorder' \in RecorderType
    BY <1>5, TypedSums, RecorderForms
  <2>2. QED
    BY <1>1, <1>5, <2>1, TypedSums DEF RecorderType
<1>7. UsageKinds'
  BY <1>4, <1>5, <1>6 DEF UsageInv, UsageKinds, RecorderType
<1>8. Backed'
  <2>1. /\ ~OwesLine /\ ~OwesLine' /\ OwesTotal /\ OwesTotal'
        /\ \A d \in Days : (OwesDay(d) <=> d = day) /\ ~OwesDay(d)'
    BY <1>1, <1>5, <1>6 DEF OwesLine, OwesTotal, OwesDay
  <2>2. ASSUME NEW d \in Days PROVE Sum(dayUsage'[d]) + Due(OwesDay(d))' <= appended'[d]
    <3>1. Sum(dayUsage[d]) + Due(OwesDay(d)) <= appended[d]
      BY DEF UsageInv, Backed
    <3>2. Sum(dayUsage[d]) \in Nat /\ appended[d] \in Nat /\ appended'[d] = appended[d]
      BY <1>5, TypedSums
    <3>3. Due(OwesDay(d))' = 0 /\ Due(OwesDay(d)) = IF d = day THEN 1 ELSE 0
      BY <2>1 DEF Due
    <3>4. CASE d = day
      <4>1. Sum(dayUsage'[d]) <= Sum(dayUsage[d]) + 1
        BY <1>2, <1>3, <1>4, <3>4
      <4>2. Sum(dayUsage'[d]) \in Nat
        BY <1>3, <1>4, <3>4, FiniteIndices, SumNat
      <4>3. QED
        BY <3>1, <3>2, <3>3, <3>4, <4>1, <4>2
    <3>5. CASE d # day
      BY <1>4, <3>1, <3>2, <3>3, <3>5
    <3>6. QED
      BY <3>4, <3>5
  <2>3. QED
    BY <1>5, <2>1, <2>2 DEF UsageInv, Backed, Due
<1>9. Rotating'
  BY <1>5, <1>6 DEF UsageInv, Rotating
<1>10. LogUnbroken'
  BY <1>5, LogUnbrokenByDay DEF UsageInv
<1>11. recorder'.day <= today'
  BY <1>1, <1>5, <1>6 DEF UsageInv
<1>12. QED
  BY <1>7, <1>8, <1>9, <1>10, <1>11 DEF UsageInv

(* All days are counted, in the same way.                                    *)
LEMMA CountTotalSound ==
  ASSUME UsageInv, NEW readable \in BOOLEAN, CountTotal(readable)
  PROVE  UsageInv'
<1>1. totalUsage \in [Ips -> Nat] /\ recorder.ip \in Ips
  BY DEF UsageInv, UsageKinds
<1>2. PICK new \in [Ips -> Nat] :
         /\ new = [IF readable THEN totalUsage ELSE Unused EXCEPT ![recorder.ip] = @ + 1]
         /\ Sum(new) <= Sum(totalUsage) + 1
  BY <1>1, IncrementBounded
<1>3. /\ totalUsage' = new
      /\ recorder.step = "total"
      /\ UNCHANGED <<today, accessLogs, dayUsage, counted, cleanedDay, appended, recorded>>
  BY <1>2 DEF CountTotal, Incremented
<1>4. /\ recorder' \in RecorderType /\ recorder'.step \in {"idle", "cleanup"}
      /\ recorder'.day \in {1, recorder.day}
  <2>1. recorder' = IdleRecorder \/ recorder' = [recorder EXCEPT !.step = "cleanup"]
    BY DEF CountTotal, Proceed
  <2>2. [recorder EXCEPT !.step = "cleanup"] \in RecorderType
    BY TypedSums, RecorderForms
  <2>3. /\ [recorder EXCEPT !.step = "cleanup"].step = "cleanup"
        /\ [recorder EXCEPT !.step = "cleanup"].day = recorder.day
    BY TypedSums DEF RecorderType
  <2>4. QED
    BY <2>1, <2>2, <2>3, RecorderForms
<1>5. UsageKinds'
  BY <1>3, <1>4 DEF UsageInv, UsageKinds, RecorderType
<1>6. Backed'
  <2>1. /\ ~OwesLine /\ ~OwesLine' /\ OwesTotal /\ ~OwesTotal'
        /\ \A d \in Days : ~OwesDay(d) /\ ~OwesDay(d)'
    BY <1>3, <1>4 DEF OwesLine, OwesTotal, OwesDay
  <2>2. Sum(new) \in Nat
    BY <1>2, FiniteIndices, SumNat
  <2>3. Sum(totalUsage') + Due(OwesTotal)' <= Sum(appended')
    BY <1>2, <1>3, <2>1, <2>2, TypedSums DEF UsageInv, Backed, Due
  <2>4. QED
    BY <1>3, <2>1, <2>3 DEF UsageInv, Backed, Due
<1>7. Rotating'
  BY <1>3, <1>4 DEF UsageInv, Rotating
<1>8. LogUnbroken'
  BY <1>3, LogUnbrokenByDay DEF UsageInv
<1>9. recorder'.day <= today'
  <2>1. today' = today /\ 1 <= today
    BY <1>3, UsageAssumption DEF UsageInv, UsageKinds, Days
  <2>2. QED
    BY <1>4, <2>1 DEF UsageInv
<1>10. QED
  BY <1>5, <1>6, <1>7, <1>8, <1>9 DEF UsageInv

(* The days that go are out of the window.                                   *)
LEMMA CleanUpSound ==
  ASSUME UsageInv, NEW kept \in SUBSET Days, CleanUp(kept)
  PROVE  UsageInv'
<1> DEFINE Gone(d) == Outdated(d) /\ d \notin kept
<1>1. /\ recorder.step = "cleanup" /\ recorder' = IdleRecorder /\ cleanedDay' = recorder.day
      /\ UNCHANGED <<today, totalUsage, counted, appended, recorded>>
  BY DEF CleanUp
<1>2. \A d \in Days :
        /\ accessLogs'[d] = IF Gone(d) THEN [i \in 0..Backups |-> {}] ELSE accessLogs[d]
        /\ dayUsage'[d] = IF Gone(d) THEN Unused ELSE dayUsage[d]
  BY DEF CleanUp, NoFile
<1>3. /\ recorder' \in RecorderType /\ recorder'.step = "idle" /\ recorder'.day = 1
  BY <1>1, RecorderForms
<1>4. UsageKinds'
  <2>1. accessLogs' \in [Days -> LogType]
    BY DEF CleanUp, NoFile, LogType, UsageInv, UsageKinds
  <2>2. dayUsage' \in [Days -> [Ips -> Nat]]
    BY DEF CleanUp, Unused, UsageInv, UsageKinds
  <2>3. cleanedDay' \in 0..LastDay
    BY <1>1 DEF UsageInv, UsageKinds, Days
  <2>4. QED
    BY <1>1, <1>3, <2>1, <2>2, <2>3 DEF UsageInv, UsageKinds, RecorderType, LogType
<1>5. Backed'
  <2>1. /\ ~OwesLine /\ ~OwesLine' /\ ~OwesTotal /\ ~OwesTotal'
        /\ \A d \in Days : ~OwesDay(d) /\ ~OwesDay(d)'
    BY <1>1, <1>3 DEF OwesLine, OwesTotal, OwesDay
  <2>2. Sum(Unused) = 0
    <3>1. Unused \in [Ips -> Nat] /\ \A i \in Ips : Unused[i] = 0
      BY DEF Unused
    <3>2. QED
      BY <3>1, FiniteIndices, SumOfNothing
  <2>3. ASSUME NEW d \in Days PROVE Sum(dayUsage'[d]) <= appended'[d]
    <3>1. Sum(dayUsage[d]) <= appended[d]
      BY <2>1, TypedSums DEF UsageInv, Backed, Due
    <3>2. QED
      BY <1>1, <1>2, <2>2, <3>1, TypedSums
  <2>4. \A d \in Days : Sum(dayUsage'[d]) \in Nat
    BY <1>2, <2>2, TypedSums
  <2>5. QED
    BY <1>1, <2>1, <2>3, <2>4 DEF UsageInv, Backed, Due
<1>6. Rotating'
  <2>1. ASSUME NEW d \in Days, NEW i \in 0..Backups
        PROVE  accessLogs'[d][i] \subseteq 1..appended'[d]
    BY <1>1, <1>2 DEF UsageInv, Rotating
  <2>2. QED
    BY <1>3, <2>1 DEF Rotating
<1>7. LogUnbroken'
  <2>1. SUFFICES ASSUME NEW d \in Days, d > today - Retention
                 PROVE  Unbroken(accessLogs'[d], appended[d])
    BY <1>1, LogUnbrokenByDay
  <2>2. ~Outdated(d)
    BY <2>1, UsageAssumption, SMTT(60) DEF Outdated, Days, UsageInv, UsageKinds
  <2>3. Unbroken(accessLogs[d], appended[d])
    BY <2>1, LogUnbrokenByDay DEF UsageInv
  <2>4. QED
    BY <1>2, <2>2, <2>3
<1>8. recorder'.day <= today'
  BY <1>1, <1>3, UsageAssumption DEF UsageInv, UsageKinds, Days
<1>9. QED
  BY <1>4, <1>5, <1>6, <1>7, <1>8 DEF UsageInv

LEMMA UsageStep == UsageInv /\ [UsageNext]_usageVars => UsageInv'
<1> SUFFICES ASSUME UsageInv, [UsageNext]_usageVars PROVE UsageInv'
  OBVIOUS
<1>1. ASSUME NEW d \in Days, NEW ip \in Ips, RecordRequest(d, ip) PROVE UsageInv'
  BY <1>1, RecordRequestSound
<1>2. CASE UnlinkOldest \/ \E i \in 0..(Backups - 1) : MoveUp(i)
  <2>1. PICK new \in LogType : Reshaped(new)
    BY <1>2, RotationReshapes
  <2>2. UNCHANGED <<today, dayUsage, totalUsage, counted, cleanedDay, appended, recorded>>
    BY <1>2 DEF UnlinkOldest, MoveUp
  <2>3. QED
    BY <2>1, <2>2, RotationSound
<1>3. CASE AppendLine
  BY <1>3, AppendLineSound
<1>4. ASSUME NEW readable \in BOOLEAN, CountDay(readable) PROVE UsageInv'
  BY <1>4, CountDaySound
<1>5. ASSUME NEW readable \in BOOLEAN, CountTotal(readable) PROVE UsageInv'
  BY <1>5, CountTotalSound
<1>6. ASSUME NEW kept \in SUBSET Days, CleanUp(kept) PROVE UsageInv'
  BY <1>6, CleanUpSound
<1>7. CASE RecordFails \/ ClearLogs \/ NextDay \/ RestartStats
  BY <1>7, QuietSound
<1>8. CASE UNCHANGED usageVars
  BY <1>8, LogUnbrokenByDay
     DEF UsageInv, UsageKinds, Backed, Rotating, OwesLine, OwesDay, OwesTotal,
         usageVars, usageFiles
<1>9. QED
  BY <1>1, <1>2, <1>3, <1>4, <1>5, <1>6, <1>7, <1>8 DEF UsageNext

LEMMA UsageAlways == UsageSpec => []UsageInv
BY UsageBegins, UsageStep, PTL DEF UsageSpec

(* The sums bound what they add, and with it what the model bounds.          *)
LEMMA UsageInvHonest == UsageInv => UsageHonest
<1> SUFFICES ASSUME UsageInv PROVE UsageHonest
  OBVIOUS
<1>1. \A d \in Days : appended[d] <= Sum(appended) /\ Sum(dayUsage[d]) <= appended[d]
  <2>1. \A d \in Days : appended[d] <= Sum(appended)
    BY TypedSums, FiniteIndices, SumBounds
  <2>2. \A d \in Days : Sum(dayUsage[d]) <= appended[d]
    BY TypedSums DEF UsageInv, Backed, Due
  <2>3. QED
    BY <2>1, <2>2
<1>2. Sum(appended) <= MaxRecords /\ Sum(totalUsage) <= Sum(appended)
  <2>1. Due(OwesLine) \in Nat /\ Due(OwesTotal) \in Nat
    BY DEF Due
  <2>2. /\ Sum(appended) + Due(OwesLine) <= recorded
        /\ Sum(totalUsage) + Due(OwesTotal) <= Sum(appended)
    BY DEF UsageInv, Backed
  <2>3. recorded <= MaxRecords /\ MaxRecords \in Nat
    BY UsageAssumption DEF UsageInv, UsageKinds
  <2>4. QED
    BY <2>1, <2>2, <2>3, TypedSums
<1>3. \A d \in Days : appended[d] \in 0..MaxRecords
  <2>1. MaxRecords \in Nat
    BY UsageAssumption
  <2>2. QED
    BY <1>1, <1>2, <2>1, TypedSums
<1>4. \A d \in Days, i \in Ips : dayUsage[d][i] \in 0..MaxRecords
  <2>1. SUFFICES ASSUME NEW d \in Days, NEW i \in Ips PROVE dayUsage[d][i] \in 0..MaxRecords
    OBVIOUS
  <2>2. PICK usage \in [Ips -> Nat] : usage = dayUsage[d]
    BY DEF UsageInv, UsageKinds
  <2>3. usage[i] <= Sum(usage) /\ Sum(usage) \in Nat
    BY FiniteIndices, SumBounds, SumNat
  <2>4. QED
    BY <1>1, <1>3, <2>2, <2>3, UsageAssumption
<1>5. \A i \in Ips : totalUsage[i] \in 0..MaxRecords
  <2>1. SUFFICES ASSUME NEW i \in Ips PROVE totalUsage[i] \in 0..MaxRecords
    OBVIOUS
  <2>2. totalUsage \in [Ips -> Nat]
    BY DEF UsageInv, UsageKinds
  <2>3. totalUsage[i] <= Sum(totalUsage) /\ totalUsage[i] \in Nat
    BY <2>2, FiniteIndices, SumBounds
  <2>4. QED
    BY <1>2, <2>3, TypedSums, UsageAssumption
<1>6. UsageTypeOK
  <2>1. accessLogs \in [Days -> [0..Backups -> SUBSET (1..MaxRecords)]]
    <3>1. ASSUME NEW d \in Days, NEW i \in 0..Backups
          PROVE  accessLogs[d][i] \in SUBSET (1..MaxRecords)
      <4>1. accessLogs[d][i] \subseteq 1..appended[d]
        BY DEF UsageInv, Rotating
      <4>2. 1..appended[d] \subseteq 1..MaxRecords
        BY <1>3, UsageAssumption
      <4>3. QED
        BY <4>1, <4>2
    <3>2. QED
      BY <3>1 DEF UsageInv, UsageKinds
  <2>2. dayUsage \in [Days -> [Ips -> 0..MaxRecords]]
    BY <1>4 DEF UsageInv, UsageKinds
  <2>3. totalUsage \in [Ips -> 0..MaxRecords]
    BY <1>5 DEF UsageInv, UsageKinds
  <2>4. counted \in [requests : 0..MaxRecords, recent : 0..RecentLines]
    BY UsageAssumption DEF UsageInv, UsageKinds, Backed
  <2>5. appended \in [Days -> 0..MaxRecords]
    BY <1>3 DEF UsageInv, UsageKinds
  <2>6. QED
    BY <2>1, <2>2, <2>3, <2>4, <2>5 DEF UsageTypeOK, UsageInv, UsageKinds
<1>7. CountsBacked
  BY <1>1, <1>2 DEF CountsBacked, Sum
<1>8. QED
  BY <1>6, <1>7 DEF UsageHonest, UsageInv

(* What the usage directory says, it can stand for: no count without its     *)
(* line, and within the retention an unbroken, ordered run of lines, however *)
(* many clients, days and backups there are, wherever a rotation or an       *)
(* increment failed or the process died (UsageStore.record).                 *)
THEOREM UsageTheorem == UsageSpec => []UsageHonest
BY UsageAlways, UsageInvHonest, PTL

-----------------------------------------------------------------------------
(* The history of tool calls: sequences put together from parts. *)

(* Where the parts of a flattened sequence are in it.                        *)
Placed(w, parts, start, m) ==
    /\ \A i \in 1 .. m : start[i] \in Nat /\ start[i] + Len(parts[i]) <= Len(w)
    /\ \A i \in 1 .. m : \A q \in 1 .. Len(parts[i]) : w[start[i] + q] = parts[i][q]
    /\ \A p \in 1 .. Len(w) : \E i \in 1 .. m : \E q \in 1 .. Len(parts[i]) : p = start[i] + q
    /\ \A i, j \in 1 .. m : i < j => start[i] + Len(parts[i]) <= start[j]

FlattenRun(f, parts, n) ==
    f = [i \in 1 .. n |-> IF i = 1 THEN parts[i] ELSE f[i - 1] \o parts[i]]

(* The running concatenation of FlattenSeq exists. *)
LEMMA FlattenRuns ==
  ASSUME NEW parts, Len(parts) \in Nat, Len(parts) # 0
  PROVE  \E f : /\ FlattenSeq(parts) = f[Len(parts)] /\ f[1] = parts[1]
                /\ \A i \in 2 .. Len(parts) : f[i] = f[i - 1] \o parts[i]
<1> DEFINE N == Len(parts)
           flat == CHOOSE f : FlattenRun(f, parts, N)
           T == {m \in Nat : \E f : FlattenRun(f, parts, m)}
<1>1. FlattenSeq(parts) = flat[N]
  BY DEF FlattenSeq, FlattenRun
<1>2. T = Nat
  <2>1. 0 \in T
    <3> DEFINE g == [i \in 1 .. 0 |-> parts[i]]
    <3>1. FlattenRun(g, parts, 0)  BY DEF FlattenRun
    <3>2. QED  BY <3>1
  <2>2. ASSUME NEW m \in T PROVE m + 1 \in T
    <3>1. m \in Nat  OBVIOUS
    <3>2. PICK g : FlattenRun(g, parts, m)  OBVIOUS
    <3> DEFINE y == IF m = 0 THEN parts[1] ELSE g[m] \o parts[m + 1]
               h == [i \in 1 .. (m + 1) |-> IF i = m + 1 THEN y ELSE g[i]]
               Then(k, i) == IF i = 1 THEN parts[i] ELSE k[i - 1] \o parts[i]
    <3>3. FlattenRun(h, parts, m + 1)
      <4> HIDE DEF y
      <4>1. \A i \in 1 .. m : h[i] = g[i]  BY <3>1
      <4>2. h[m + 1] = y  BY <3>1
      <4>3. \A i \in 1 .. (m + 1) : h[i] = Then(h, i)
        <5> TAKE i \in 1 .. (m + 1)
        <5>1. CASE i = m + 1
          <6>1. CASE m = 0
            <7>1. i = 1  BY <5>1, <6>1
            <7>2. QED  BY <7>1, <6>1, <4>2 DEF y
          <6>2. CASE m # 0
            <7>1. i - 1 = m /\ i # 1 /\ m \in 1 .. m  BY <5>1, <6>2, <3>1
            <7>2. h[i - 1] = g[m]  BY <7>1, <4>1
            <7>3. QED  BY <5>1, <6>2, <7>1, <7>2, <4>2 DEF y
          <6>3. QED  BY <6>1, <6>2
        <5>2. CASE i \in 1 .. m
          <6>1. i = 1 \/ i - 1 \in 1 .. m  BY <5>2, <3>1
          <6>2. g[i] = Then(g, i)
            BY <3>2, <5>2 DEF FlattenRun
          <6>3. QED  BY <5>2, <6>1, <6>2, <4>1
        <5>3. QED  BY <5>1, <5>2, <3>1
      <4>4. h = [i \in 1 .. (m + 1) |-> h[i]]  OBVIOUS
      <4> HIDE DEF h
      <4>5. QED  BY <4>3, <4>4 DEF FlattenRun
    <3>4. m + 1 \in Nat  BY <3>1
    <3>5. QED  BY <3>3, <3>4
  <2> HIDE DEF T
  <2>3. T \in SUBSET Nat  BY DEF T
  <2>4. QED  BY <2>1, <2>2, <2>3, NaturalsReached
<1>3. FlattenRun(flat, parts, N)
  <2>1. \E g : FlattenRun(g, parts, N)  BY <1>2
  <2>2. QED  BY <2>1
<1> HIDE DEF flat
<1>4. flat[1] = parts[1]
  <2>1. 1 \in 1 .. N  OBVIOUS
  <2>2. QED  BY <1>3, <2>1, Zenon DEF FlattenRun
<1>5. \A i \in 2 .. N : flat[i] = flat[i - 1] \o parts[i]
  <2>1. TAKE i \in 2 .. N
  <2>2. i \in 1 .. N /\ i # 1  OBVIOUS
  <2>3. QED  BY <1>3, <2>2, Zenon DEF FlattenRun
<1>6. QED  BY <1>1, <1>4, <1>5

(* One more part comes behind the others. *)
LEMMA PlacedGrows ==
  ASSUME NEW S, NEW w \in Seq(S), NEW z \in Seq(S), NEW parts \in Seq(Seq(S)), NEW m \in Nat,
         m + 1 <= Len(parts), parts[m + 1] = z, NEW start, Placed(w, parts, start, m)
  PROVE  Placed(w \o z, parts, [i \in 1 .. (m + 1) |-> IF i = m + 1 THEN Len(w) ELSE start[i]], m + 1)
<1> DEFINE b == [i \in 1 .. (m + 1) |-> IF i = m + 1 THEN Len(w) ELSE start[i]]
           v == w \o z
<1>0. PICK lw, lz \in Nat : lw = Len(w) /\ lz = Len(z)  OBVIOUS
<1>1. v \in Seq(S) /\ Len(v) = lw + lz
  BY <1>0
<1>2. /\ \A p \in 1 .. lw : v[p] = w[p]
      /\ \A q \in 1 .. lz : v[lw + q] = z[q]
  BY <1>0, <1>1
<1>3. b[m + 1] = lw /\ \A i \in 1 .. m : b[i] = start[i]
  BY <1>0
<1>4. \A i \in 1 .. m : Len(parts[i]) \in Nat /\ parts[i] \in Seq(S)
  <2>1. TAKE i \in 1 .. m
  <2>2. i \in 1 .. Len(parts)  OBVIOUS
  <2>3. parts[i] \in Seq(S)  BY <2>2, ElementOfSeq
  <2>4. QED  BY <2>3
<1> HIDE DEF b, v
<1>5. \A i \in 1 .. m : start[i] \in Nat /\ start[i] + Len(parts[i]) <= lw
  BY <1>0 DEF Placed
<1>6. /\ \A i \in 1 .. (m + 1) : i = m + 1 \/ i \in 1 .. m
      /\ \A i, j \in 1 .. (m + 1) : i < j => i \in 1 .. m
  BY ONLY m \in Nat
<1>7. \A i \in 1 .. (m + 1) : b[i] \in Nat /\ b[i] + Len(parts[i]) <= Len(v)
  <2>1. TAKE i \in 1 .. (m + 1)
  <2>2. CASE i = m + 1  BY <2>2, <1>3, <1>0, <1>1
  <2>3. CASE i \in 1 .. m  BY <2>3, <1>3, <1>5, <1>1, <1>4, SMTT(60)
  <2>4. QED  BY <1>6, <2>2, <2>3
<1>8. ASSUME NEW i \in 1 .. (m + 1), NEW q \in 1 .. Len(parts[i]) PROVE v[b[i] + q] = parts[i][q]
  <2>2. CASE i = m + 1  BY <2>2, <1>3, <1>0, <1>2
  <2>3. CASE i \in 1 .. m
    <3>1. w[start[i] + q] = parts[i][q]  BY <2>3 DEF Placed
    <3>2. start[i] + q \in 1 .. lw
      <4>1. PICK a, b2 \in Nat : a = start[i] /\ b2 = Len(parts[i])  BY <2>3, <1>5, <1>4
      <4>2. a + b2 <= lw /\ q \in 1 .. b2  BY <4>1, <2>3, <1>5
      <4>3. QED  BY <4>1, <4>2, SMTT(60)
    <3>3. QED  BY <3>1, <3>2, <1>2, <1>3, <2>3
  <2>4. QED  BY <1>6, <2>2, <2>3
<1>9. ASSUME NEW p \in 1 .. Len(v)
      PROVE  \E i \in 1 .. (m + 1) : \E q \in 1 .. Len(parts[i]) : p = b[i] + q
  <2>1. CASE p \in 1 .. lw
    <3>1. PICK i \in 1 .. m : \E q \in 1 .. Len(parts[i]) : p = start[i] + q
      BY <2>1, <1>0 DEF Placed
    <3>2. i \in 1 .. (m + 1)  OBVIOUS
    <3>3. QED  BY <3>1, <3>2, <1>3
  <2>2. CASE p > lw
    <3>1. PICK q \in 1 .. lz : p = lw + q
      <4>1. p - lw \in 1 .. lz /\ p = lw + (p - lw)  BY <2>2, <1>1
      <4>2. QED  BY <4>1
    <3>2. m + 1 \in 1 .. (m + 1)  OBVIOUS
    <3>3. QED  BY <3>1, <3>2, <1>3, <1>0
  <2>3. QED  BY <2>1, <2>2, <1>1
<1>10. ASSUME NEW i \in 1 .. (m + 1), NEW j \in 1 .. (m + 1), i < j
       PROVE  b[i] + Len(parts[i]) <= b[j]
  <2>1. i \in 1 .. m  BY <1>6, <1>10
  <2>2. CASE j = m + 1  BY <2>1, <2>2, <1>3, <1>5
  <2>3. CASE j \in 1 .. m
    <3>1. start[i] + Len(parts[i]) <= start[j]  BY <2>1, <2>3, <1>10 DEF Placed
    <3>2. QED  BY <3>1, <2>1, <2>3, <1>3
  <2>4. QED  BY <1>6, <2>2, <2>3
<1>11. QED  BY <1>7, <1>8, <1>9, <1>10 DEF Placed, b, v

(* FlattenSeq puts its parts one behind the other. *)
LEMMA FlattenPlaces ==
  ASSUME NEW S, NEW parts \in Seq(Seq(S))
  PROVE  /\ FlattenSeq(parts) \in Seq(S)
         /\ \E start : Placed(FlattenSeq(parts), parts, start, Len(parts))
<1>0. PICK n \in Nat : n = Len(parts)  OBVIOUS
<1>1. CASE n = 0
  <2>1. FlattenSeq(parts) = parts /\ parts = <<>>
    BY <1>1, <1>0 DEF FlattenSeq
  <2>2. <<>> \in Seq(S) /\ Len(<<>>) = 0  OBVIOUS
  <2>3. \A start : Placed(<<>>, <<>>, start, 0)
    BY DEF Placed
  <2>4. QED  BY <2>1, <2>2, <2>3
<1>2. CASE n # 0
  <2>1. PICK f : /\ FlattenSeq(parts) = f[n] /\ f[1] = parts[1]
                 /\ \A i \in 2 .. n : f[i] = f[i - 1] \o parts[i]
    BY <1>2, <1>0, FlattenRuns
  <2> DEFINE Good(m) == f[m] \in Seq(S) /\ \E start : Placed(f[m], parts, start, m)
             T == {m \in Nat : m \in 1 .. n => Good(m)}
  <2>2. T = Nat
    <3>1. 0 \in T  OBVIOUS
    <3>2. ASSUME NEW m \in T PROVE m + 1 \in T
      <4>1. m \in Nat /\ m + 1 \in Nat  OBVIOUS
      <4>2. SUFFICES ASSUME m + 1 \in 1 .. n PROVE Good(m + 1)
        BY <4>1
      <4>3. parts[m + 1] \in Seq(S)
        <5>1. m + 1 \in 1 .. Len(parts)  BY <4>2, <1>0
        <5>2. QED  BY <5>1, ElementOfSeq
      <4>4. CASE m = 0
        <5>1. f[m + 1] = <<>> \o parts[m + 1]
          <6>1. \A u \in Seq(S) : <<>> \o u = u  OBVIOUS
          <6>2. f[m + 1] = parts[m + 1]  BY <4>4, <2>1
          <6>3. QED  BY <6>1, <6>2, <4>3
        <5>2. <<>> \in Seq(S)  OBVIOUS
        <5>3. Placed(<<>>, parts, <<>>, m)
          BY <4>4 DEF Placed
        <5> DEFINE z == parts[m + 1]
        <5>4. m + 1 <= Len(parts) /\ z \in Seq(S)  BY <4>2, <1>0, <4>3
        <5> HIDE DEF z
        <5>5. \E start : Placed(<<>> \o z, parts, start, m + 1)
          BY <5>2, <5>3, <5>4, <4>1, PlacedGrows DEF z
        <5>6. <<>> \o z \in Seq(S)  BY <5>2, <5>4
        <5>7. QED  BY <5>1, <5>5, <5>6 DEF z
      <4>5. CASE m # 0
        <5>1. f[m + 1] = f[m] \o parts[m + 1]
          <6>1. m + 1 \in 2 .. n /\ (m + 1) - 1 = m  BY <4>1, <4>2, <4>5
          <6>2. QED  BY <6>1, <2>1
        <5>2. Good(m)
          <6>1. m \in 1 .. n  BY <4>1, <4>2, <4>5
          <6>2. QED  BY <6>1
        <5>3. PICK start : Placed(f[m], parts, start, m)  BY <5>2
        <5> DEFINE z == parts[m + 1]
                   w == f[m]
        <5>4. m + 1 <= Len(parts) /\ z \in Seq(S) /\ w \in Seq(S) /\ Placed(w, parts, start, m)
          BY <4>2, <1>0, <4>3, <5>2, <5>3
        <5> HIDE DEF z, w
        <5>5. \E b : Placed(w \o z, parts, b, m + 1)
          BY <5>4, <4>1, PlacedGrows DEF z
        <5>6. w \o z \in Seq(S)  BY <5>4
        <5>7. QED  BY <5>1, <5>5, <5>6 DEF z, w
      <4>6. QED  BY <4>4, <4>5
    <3> HIDE DEF T
    <3>3. T \in SUBSET Nat  BY DEF T
    <3>4. QED  BY <3>1, <3>2, <3>3, NaturalsReached
  <2>3. n \in T /\ n \in 1 .. n  BY <2>2, <1>2
  <2>4. Good(n)  BY <2>3
  <2>5. QED  BY <2>1, <2>4, <1>0
<1>3. QED  BY <1>1, <1>2

-----------------------------------------------------------------------------
(* Messages and what the repair makes of them.                               *)
Roles == {"assistant", "pictures", "tool", "user"}
Asks  == [call : Int, n : Int]
Msg   == [role : Roles, n : Int, call : Int, calls : Seq(Asks), why : Seq(Int)]

WellFormed(msgs) ==
    /\ msgs \in Seq(Msg)
    /\ \A i \in 1 .. Len(msgs) :
         /\ msgs[i].role = "tool" => msgs[i].calls = <<>> /\ msgs[i].n # -1
         /\ msgs[i].calls # <<>> => msgs[i].role = "assistant"

(* Made by the repair, or a tool message: nothing that was said.             *)
Made(msg) ==
    \/ msg.role = "tool" /\ msg.calls = <<>>
    \/ /\ msg.role = "assistant" /\ msg.n = 0 /\ msg.why = <<>>
       /\ \A k \in 1 .. Len(msg.calls) : msg.calls[k].n = -1

(* The same message, but for the ids of its calls.                           *)
Like(a, b) ==
    /\ a.role = b.role /\ a.n = b.n /\ a.why = b.why
    /\ Len(a.calls) = Len(b.calls)
    /\ \A k \in 1 .. Len(a.calls) : a.calls[k].n = b.calls[k].n

(* An unavailable call and the output that gave it its id.                   *)
Couple(w, p) ==
    /\ p \in 1 .. Len(w) /\ p + 1 \in 1 .. Len(w)
    /\ w[p].role = "assistant" /\ Made(w[p]) /\ Len(w[p].calls) = 1
    /\ w[p + 1].role = "tool" /\ w[p + 1].calls = <<>>
    /\ w[p + 1].call = w[p].calls[1].call

CouplesOnly(w) ==
    \A p \in 1 .. Len(w) : Couple(w, p) \/ (p - 1 \in 1 .. Len(w) /\ Couple(w, p - 1))

LEMMA MadeCallFields ==
  ASSUME NEW id \in Int
  PROVE  LET a == [Message("assistant", 0) EXCEPT !.calls = <<[call |-> id, n |-> -1]>>] IN
         /\ a \in Msg /\ a.role = "assistant" /\ Made(a)
         /\ Len(a.calls) = 1 /\ a.calls[1].call = id
<1> DEFINE c == [call |-> id, n |-> -1]
           a == [Message("assistant", 0) EXCEPT !.calls = <<c>>]
<1>1. c \in Asks /\ c.call = id /\ c.n = -1  BY DEF Asks
<1> HIDE DEF c
<1>2. a = [role |-> "assistant", n |-> 0, call |-> 0, calls |-> <<c>>, why |-> <<>>]
  BY DEF Message
<1>3. <<c>> \in Seq(Asks) /\ Len(<<c>>) = 1 /\ <<c>>[1] = c  BY <1>1
<1>4. a.role = "assistant" /\ a.n = 0 /\ a.calls = <<c>> /\ a.why = <<>>
  BY <1>2
<1> HIDE DEF a
<1>5. a \in Msg
  <2>1. "assistant" \in Roles  BY DEF Roles
  <2> DEFINE r == "assistant"
             e == <<>>
             s == <<c>>
  <2>2. a = [role |-> r, n |-> 0, call |-> 0, calls |-> s, why |-> e]  BY <1>2
  <2>3. r \in Roles /\ s \in Seq(Asks) /\ e \in Seq(Int)  BY <2>1, <1>3
  <2> HIDE DEF r, e, s
  <2>4. QED  BY <2>2, <2>3 DEF Msg
<1>6. Made(a)  BY <1>4, <1>3, <1>1 DEF Made
<1>7. QED  BY <1>1, <1>3, <1>4, <1>5, <1>6 DEF a, c

LEMMA DoubtFields ==
  ASSUME NEW id \in Int
  PROVE  LET d == [Message("tool", -1) EXCEPT !.call = id] IN
         /\ d \in Msg /\ d.role = "tool" /\ d.n = -1 /\ d.call = id /\ d.calls = <<>>
<1> DEFINE d == [Message("tool", -1) EXCEPT !.call = id]
<1>1. d = [role |-> "tool", n |-> -1, call |-> id, calls |-> <<>>, why |-> <<>>]
  BY DEF Message
<1>2. "tool" \in Roles  BY DEF Roles
<1> HIDE DEF d
<1>3. d.role = "tool" /\ d.n = -1 /\ d.call = id /\ d.calls = <<>>  BY <1>1
<1>4. d \in Msg
  <2> DEFINE r == "tool"
             e == <<>>
  <2>2. d = [role |-> r, n |-> -1, call |-> id, calls |-> e, why |-> e]  BY <1>1
  <2>3. r \in Roles /\ e \in Seq(Asks) /\ e \in Seq(Int)  BY <1>2
  <2> HIDE DEF r, e
  <2>4. QED  BY <2>2, <2>3 DEF Msg
<1>5. QED  BY <1>3, <1>4 DEF d

LEMMA MsgFields ==
  ASSUME NEW msg \in Msg
  PROVE  /\ msg.role \in Roles /\ msg.n \in Int /\ msg.call \in Int
         /\ msg.calls \in Seq(Asks) /\ msg.why \in Seq(Int)
BY DEF Msg

LEMMA CallFields ==
  ASSUME NEW msg \in Msg, NEW id \in Int
  PROVE  LET t == [msg EXCEPT !.call = id] IN
         /\ t \in Msg /\ t.role = msg.role /\ t.n = msg.n /\ t.call = id
         /\ t.calls = msg.calls /\ t.why = msg.why
BY DEF Msg

LEMMA CallsFields ==
  ASSUME NEW msg \in Msg, NEW c \in Seq(Asks)
  PROVE  LET h == [msg EXCEPT !.calls = c] IN
         /\ h \in Msg /\ h.role = msg.role /\ h.n = msg.n /\ h.calls = c /\ h.why = msg.why
BY DEF Msg

(* An orphan comes with its call. *)
LEMMA OrphanCoupled ==
  ASSUME NEW msg \in Msg, msg.role = "tool", msg.calls = <<>>, NEW id \in Int
  PROVE  LET w == WithOrphanCall(msg, id) IN
         /\ w \in Seq(Msg) /\ Len(w) = 2 /\ Couple(w, 1) /\ CouplesOnly(w)
         /\ w[2].role = "tool" /\ w[2].n = msg.n
<1> DEFINE a == [Message("assistant", 0) EXCEPT !.calls = <<[call |-> id, n |-> -1]>>]
           t == [msg EXCEPT !.call = id]
           w == <<a, t>>
<1>1. WithOrphanCall(msg, id) = w  BY DEF WithOrphanCall
<1>2. /\ a \in Msg /\ a.role = "assistant" /\ Made(a)
      /\ Len(a.calls) = 1 /\ a.calls[1].call = id
  BY MadeCallFields
<1>3. /\ t \in Msg /\ t.role = "tool" /\ t.n = msg.n /\ t.call = id /\ t.calls = <<>>
  BY CallFields
<1> HIDE DEF a, t
<1>4. w \in Seq(Msg) /\ Len(w) = 2 /\ w[1] = a /\ w[2] = t
  BY <1>2, <1>3
<1> HIDE DEF w
<1>5. Couple(w, 1)
  BY <1>2, <1>3, <1>4 DEF Couple
<1>6. CouplesOnly(w)
  <2>1. SUFFICES ASSUME NEW p \in 1 .. Len(w)
                 PROVE  Couple(w, p) \/ (p - 1 \in 1 .. Len(w) /\ Couple(w, p - 1))
    BY DEF CouplesOnly
  <2>2. p = 1 \/ p - 1 = 1  BY <1>4
  <2>3. CASE p = 1  BY <2>3, <1>5
  <2>4. CASE p - 1 = 1
    <3>1. 1 \in 1 .. Len(w)  BY <1>4
    <3>2. QED  BY <2>4, <3>1, <1>5, Zenon
  <2>5. QED  BY <2>2, <2>3, <2>4
<1>7. QED  BY <1>1, <1>3, <1>4, <1>5, <1>6

(* Couples answer their own calls. *)
LEMMA CouplesPaired ==
  ASSUME NEW w \in Seq(Msg), CouplesOnly(w)
  PROVE  /\ PairedForChat(w)
         /\ \A p \in 1 .. Len(w) : Made(w[p])
         /\ w # <<>> => w[1].role = "assistant"
<1>0. PICK n \in Nat : n = Len(w)  OBVIOUS
<1>1. DOMAIN w = 1 .. n  BY <1>0
<1>2. \A p \in 1 .. n : Couple(w, p) \/ (p - 1 \in 1 .. n /\ Couple(w, p - 1))
  BY <1>0 DEF CouplesOnly
<1>3. ASSUME NEW p \in 1 .. n, w[p].role = "tool"
      PROVE  \E a \in 1 .. p - 1 : /\ p \in Run(w, a)
                                   /\ \E k \in DOMAIN w[a].calls : w[a].calls[k].call = w[p].call
  <2>1. ~Couple(w, p)  BY <1>3 DEF Couple
  <2>2. p - 1 \in 1 .. n /\ Couple(w, p - 1)  BY <2>1, <1>2
  <2> DEFINE a == p - 1
  <2>3. a \in 1 .. p - 1 /\ a + 1 = p /\ a \in 1 .. n  BY <2>2
  <2>4. /\ Len(w[a].calls) = 1 /\ w[p].call = w[a].calls[1].call
    <3>1. Couple(w, a) /\ a + 1 = p  BY <2>2, <2>3
    <3> HIDE DEF a
    <3>2. QED  BY <3>1 DEF Couple
  <2>5. p \in Run(w, a)
    BY <2>3, <1>1, <1>3 DEF Run
  <2>6. 1 \in DOMAIN w[a].calls
    <3>1. w[a] \in Msg  BY <2>3, <1>0, ElementOfSeq
    <3>2. w[a].calls \in Seq(Asks)  BY <3>1, MsgFields
    <3>3. QED  BY <3>2, <2>4
  <2> HIDE DEF a
  <2>7. QED  BY <2>3, <2>4, <2>5, <2>6
<1>4. ASSUME NEW p \in 1 .. n, NEW k \in DOMAIN w[p].calls
      PROVE  \E j \in Run(w, p) : w[j].call = w[p].calls[k].call
  <2>1. Couple(w, p)
    <3>1. CASE Couple(w, p - 1) /\ p - 1 \in 1 .. n
      <4>1. w[(p - 1) + 1].calls = <<>>  BY <3>1 DEF Couple
      <4>2. (p - 1) + 1 = p  OBVIOUS
      <4>3. QED  BY <4>1, <4>2
    <3>2. QED  BY <3>1, <1>2
  <2>2. p + 1 \in 1 .. n /\ w[p + 1].role = "tool" /\ Len(w[p].calls) = 1
        /\ w[p + 1].call = w[p].calls[1].call
    BY <2>1, <1>0 DEF Couple
  <2>3. k = 1
    <3>1. w[p] \in Msg  BY <1>0, ElementOfSeq
    <3>2. w[p].calls \in Seq(Asks)  BY <3>1, MsgFields
    <3>3. DOMAIN w[p].calls = 1 .. 1  BY <3>2, <2>2
    <3>4. QED  BY <3>3
  <2>4. p + 1 \in Run(w, p)
    BY <2>2, <1>1 DEF Run
  <2>5. QED  BY <2>2, <2>3, <2>4
<1>5. PairedForChat(w)
  BY <1>1, <1>3, <1>4 DEF PairedForChat
<1>6. ASSUME NEW p \in 1 .. n PROVE Made(w[p])
  <2>1. CASE Couple(w, p)  BY <2>1 DEF Couple
  <2>2. CASE p - 1 \in 1 .. n /\ Couple(w, p - 1)
    <3>1. w[(p - 1) + 1].calls = <<>> /\ w[(p - 1) + 1].role = "tool"  BY <2>2 DEF Couple
    <3>2. (p - 1) + 1 = p  OBVIOUS
    <3>3. QED  BY <3>1, <3>2 DEF Made
  <2>3. QED  BY <2>1, <2>2, <1>2
<1>7. ASSUME w # <<>> PROVE w[1].role = "assistant"
  <2>1. 1 \in 1 .. n  BY <1>7, <1>0
  <2>2. 1 - 1 \notin 1 .. n  BY <1>0
  <2>3. Couple(w, 1)  BY <2>1, <2>2, <1>2
  <2>4. QED  BY <2>3 DEF Couple
<1>8. QED  BY <1>0, <1>5, <1>6, <1>7

(* A run of tool messages stays one. *)
LEMMA PlacedRun ==
  ASSUME NEW S, NEW w \in Seq(S), NEW parts \in Seq(Seq(S)), NEW start,
         Placed(w, parts, start, Len(parts)),
         NEW i \in 1 .. Len(parts), NEW a \in Nat, NEW j \in Run(parts[i], a)
  PROVE  /\ j \in 1 .. Len(parts[i]) /\ start[i] \in Nat
         /\ start[i] + j \in Run(w, start[i] + a) /\ w[start[i] + j] = parts[i][j]
<1>0. PICK n \in Nat : n = Len(w)  OBVIOUS
<1>1. parts[i] \in Seq(S)  BY ElementOfSeq
<1>2. PICK l \in Nat : l = Len(parts[i])  BY <1>1
<1>3. PICK s \in Nat : s = start[i] /\ s + l <= n
  BY <1>0, <1>2 DEF Placed
<1>4. \A q \in 1 .. l : w[s + q] = parts[i][q]
  BY <1>2, <1>3 DEF Placed
<1>5. DOMAIN w = 1 .. n /\ DOMAIN parts[i] = 1 .. l  BY <1>0, <1>1, <1>2
<1>6. j \in 1 .. l /\ j > a /\ \A k \in a + 1 .. j : parts[i][k].role = "tool"
  BY <1>5 DEF Run
<1>7. \A k \in (s + a) + 1 .. s + j : w[k].role = "tool"
  <2>1. TAKE k \in (s + a) + 1 .. s + j
  <2>2. PICK q \in Int : q = k - s  OBVIOUS
  <2>3. q \in a + 1 .. j /\ q \in 1 .. l /\ k = s + q  BY <2>2, <1>6
  <2>4. w[s + q] = parts[i][q] /\ parts[i][q].role = "tool"  BY <2>3, <1>4, <1>6
  <2>5. QED  BY <2>3, <2>4
<1>8. s + j \in 1 .. n /\ s + j > s + a  BY <1>3, <1>6, SMTT(60)
<1>9. s + j \in Run(w, s + a)  BY <1>5, <1>7, <1>8 DEF Run
<1>10. w[s + j] = parts[i][j]  BY <1>4, <1>6
<1>11. QED  BY <1>2, <1>3, <1>6, <1>9, <1>10

(* What is paired part by part is paired.                                    *)
LEMMA PlacedPaired ==
  ASSUME NEW w \in Seq(Msg), NEW parts \in Seq(Seq(Msg)), NEW start,
         Placed(w, parts, start, Len(parts)),
         \A i \in 1 .. Len(parts) : PairedForChat(parts[i])
  PROVE  PairedForChat(w)
<1>0. PICK n, m \in Nat : n = Len(w) /\ m = Len(parts)  OBVIOUS
<1>1. DOMAIN w = 1 .. n  BY <1>0
<1>2. \A i \in 1 .. m : parts[i] \in Seq(Msg)  BY <1>0, ElementOfSeq
<1>3. ASSUME NEW p \in 1 .. n
      PROVE  \E i \in 1 .. m : \E q \in 1 .. Len(parts[i]) :
                p = start[i] + q /\ w[p] = parts[i][q] /\ start[i] \in Nat
  <2>1. PICK i \in 1 .. m : \E q \in 1 .. Len(parts[i]) : p = start[i] + q
    BY <1>0 DEF Placed
  <2>2. PICK q \in 1 .. Len(parts[i]) : p = start[i] + q  BY <2>1
  <2>3. w[start[i] + q] = parts[i][q] /\ start[i] \in Nat  BY <1>0 DEF Placed
  <2>4. QED  BY <2>2, <2>3
<1>4. ASSUME NEW p \in 1 .. n, w[p].role = "tool"
      PROVE  \E a \in 1 .. p - 1 : /\ p \in Run(w, a)
                                   /\ \E k \in DOMAIN w[a].calls : w[a].calls[k].call = w[p].call
  <2>0. PICK i \in 1 .. m : \E q \in 1 .. Len(parts[i]) :
              p = start[i] + q /\ w[p] = parts[i][q] /\ start[i] \in Nat
    BY <1>3
  <2>1. PICK q \in 1 .. Len(parts[i]) :
              p = start[i] + q /\ w[p] = parts[i][q] /\ start[i] \in Nat
    BY <2>0
  <2> DEFINE v == parts[i]
  <2>2. v \in Seq(Msg) /\ PairedForChat(v)  BY <1>0, <1>2
  <2>3. q \in DOMAIN v /\ v[q].role = "tool"  BY <2>1, <2>2, <1>4
  <2>4. PICK b \in 1 .. q - 1 : /\ q \in Run(v, b)
                                /\ \E k \in DOMAIN v[b].calls : v[b].calls[k].call = v[q].call
    <3> HIDE DEF v
    <3>1. QED  BY <2>2, <2>3 DEF PairedForChat
  <2>5. b \in Nat /\ b \in 1 .. Len(v)
    <3>1. PICK l \in Nat : l = Len(v)  BY <2>2
    <3>2. q \in 1 .. l /\ b \in 1 .. q - 1  BY <3>1
    <3>3. QED  BY <3>1, <3>2
  <2>6. start[i] + q \in Run(w, start[i] + b)
    <3>1. i \in 1 .. Len(parts) /\ q \in Run(parts[i], b)  BY <1>0, <2>4
    <3>2. QED  BY <3>1, <2>5, PlacedRun
  <2>7. w[start[i] + b] = v[b]
    BY <2>5, <1>0 DEF Placed
  <2>8. start[i] + b \in 1 .. p - 1
    <3>1. PICK s \in Nat : s = start[i]  BY <2>1
    <3>2. p = s + q /\ q \in Int  BY <3>1, <2>1
    <3>3. QED  BY <3>1, <3>2, <2>5, SMTT(60)
  <2>9. w[p] = v[q]  BY <2>1
  <2> HIDE DEF v
  <2>10. QED  BY <2>1, <2>4, <2>6, <2>7, <2>8, <2>9
<1>5. ASSUME NEW p \in 1 .. n, NEW k \in DOMAIN w[p].calls
      PROVE  \E j \in Run(w, p) : w[j].call = w[p].calls[k].call
  <2>0. PICK i \in 1 .. m : \E q \in 1 .. Len(parts[i]) :
              p = start[i] + q /\ w[p] = parts[i][q] /\ start[i] \in Nat
    BY <1>3
  <2>1. PICK q \in 1 .. Len(parts[i]) :
              p = start[i] + q /\ w[p] = parts[i][q] /\ start[i] \in Nat
    BY <2>0
  <2> DEFINE v == parts[i]
  <2>2. v \in Seq(Msg) /\ PairedForChat(v)  BY <1>0, <1>2
  <2>3. q \in DOMAIN v /\ w[p] = v[q] /\ q \in Nat  BY <2>1, <2>2
  <2>4. PICK j \in Run(v, q) : v[j].call = v[q].calls[k].call
    <3> HIDE DEF v
    <3>1. k \in DOMAIN v[q].calls  BY <2>3
    <3>2. QED  BY <2>2, <2>3, <3>1 DEF PairedForChat
  <2>5. /\ start[i] + j \in Run(w, start[i] + q) /\ w[start[i] + j] = v[j]
    <3>1. i \in 1 .. Len(parts) /\ j \in Run(parts[i], q)  BY <1>0, <2>4
    <3>2. q \in Nat  BY <2>3
    <3> HIDE DEF v
    <3>3. /\ start[i] + j \in Run(w, start[i] + q) /\ w[start[i] + j] = parts[i][j]
      BY <3>1, <3>2, PlacedRun
    <3>4. QED  BY <3>3 DEF v
  <2> HIDE DEF v
  <2>6. QED  BY <2>1, <2>3, <2>4, <2>5
<1>6. QED  BY <1>1, <1>4, <1>5 DEF PairedForChat

(* Two sequences, one behind the other, as parts of their concatenation.     *)
LEMMA TwoPlaced ==
  ASSUME NEW S, NEW a \in Seq(S), NEW b \in Seq(S)
  PROVE  \E start : Placed(a \o b, <<a, b>>, start, 2)
<1> DEFINE parts == <<a, b>>
<1>1. /\ parts \in Seq(Seq(S)) /\ Len(parts) = 2 /\ parts[1] = a /\ parts[1 + 1] = b
  OBVIOUS
<1> HIDE DEF parts
<1>2. Placed(a, parts, [i \in 1 .. 1 |-> 0], 1)
  <2>0. PICK l \in Nat : l = Len(a)  OBVIOUS
  <2> DEFINE s == [i \in 1 .. 1 |-> 0]
  <2>1. s[1] = 0 /\ \A i \in 1 .. 1 : i = 1  OBVIOUS
  <2> HIDE DEF s
  <2>2. \A i \in 1 .. 1 : s[i] \in Nat /\ s[i] + Len(parts[i]) <= Len(a)
    BY <2>0, <2>1, <1>1
  <2>3. \A i \in 1 .. 1 : \A q \in 1 .. Len(parts[i]) : a[s[i] + q] = parts[i][q]
    BY <2>0, <2>1, <1>1
  <2>4. \A p \in 1 .. Len(a) : \E i \in 1 .. 1 : \E q \in 1 .. Len(parts[i]) : p = s[i] + q
    <3>1. TAKE p \in 1 .. Len(a)
    <3>2. p \in 1 .. Len(parts[1]) /\ p = s[1] + p  BY <2>1, <1>1
    <3>3. 1 \in 1 .. 1  OBVIOUS
    <3>4. QED  BY <3>2, <3>3
  <2>5. \A i, j \in 1 .. 1 : ~(i < j)  BY <2>1
  <2>6. QED  BY <2>2, <2>3, <2>4, <2>5 DEF Placed, s
<1>3. 1 \in Nat /\ 1 + 1 <= Len(parts)  BY <1>1
<1>4. \E start : Placed(a \o b, parts, start, 1 + 1)
  BY <1>1, <1>2, <1>3, PlacedGrows
<1>5. QED  BY <1>4 DEF parts

LEMMA BothPaired ==
  ASSUME NEW a \in Seq(Msg), NEW b \in Seq(Msg), PairedForChat(a), PairedForChat(b)
  PROVE  PairedForChat(a \o b)
<1> DEFINE parts == <<a, b>>
           w == a \o b
<1>1. parts \in Seq(Seq(Msg)) /\ Len(parts) = 2 /\ parts[1] = a /\ parts[2] = b
  OBVIOUS
<1>2. w \in Seq(Msg)  OBVIOUS
<1>3. PICK start : Placed(w, parts, start, 2)  BY TwoPlaced
<1> HIDE DEF parts, w
<1>4. \A i \in 1 .. Len(parts) : PairedForChat(parts[i])
  <2>1. TAKE i \in 1 .. Len(parts)
  <2>2. i = 1 \/ i = 2  BY <1>1
  <2>3. QED  BY <2>2, <1>1
<1>5. PairedForChat(w)
  BY <1>1, <1>2, <1>3, <1>4, PlacedPaired
<1>6. QED  BY <1>5 DEF w

(* A flattened sequence has what its parts have.                             *)
LEMMA FlattenHas ==
  ASSUME NEW S, NEW parts \in Seq(Seq(S))
  PROVE  LET w == FlattenSeq(parts) IN
         /\ w \in Seq(S)
         /\ \A p \in 1 .. Len(w) : \E i \in 1 .. Len(parts) : \E q \in 1 .. Len(parts[i]) : w[p] = parts[i][q]
         /\ \A i \in 1 .. Len(parts) : \A q \in 1 .. Len(parts[i]) : \E p \in 1 .. Len(w) : w[p] = parts[i][q]
<1> DEFINE w == FlattenSeq(parts)
<1>1. w \in Seq(S) /\ \E start : Placed(w, parts, start, Len(parts))
  BY FlattenPlaces
<1>2. PICK start : Placed(w, parts, start, Len(parts))  BY <1>1
<1> HIDE DEF w
<1>3. PICK n, m \in Nat : n = Len(w) /\ m = Len(parts)  BY <1>1
<1>4. ASSUME NEW p \in 1 .. n
      PROVE  \E i \in 1 .. m : \E q \in 1 .. Len(parts[i]) : w[p] = parts[i][q]
  <2>1. PICK i \in 1 .. m : \E q \in 1 .. Len(parts[i]) : p = start[i] + q
    BY <1>2, <1>3 DEF Placed
  <2>2. PICK q \in 1 .. Len(parts[i]) : p = start[i] + q  BY <2>1
  <2>3. w[start[i] + q] = parts[i][q]  BY <1>2, <1>3 DEF Placed
  <2>4. QED  BY <2>2, <2>3
<1>5. ASSUME NEW i \in 1 .. m, NEW q \in 1 .. Len(parts[i])
      PROVE  \E p \in 1 .. n : w[p] = parts[i][q]
  <2>1. parts[i] \in Seq(S)  BY <1>3, ElementOfSeq
  <2>2. PICK l \in Nat : l = Len(parts[i])  BY <2>1
  <2>3. PICK s \in Nat : s = start[i] /\ s + l <= n  BY <1>2, <1>3, <2>2 DEF Placed
  <2>4. w[start[i] + q] = parts[i][q]  BY <1>2, <1>3 DEF Placed
  <2>5. s + q \in 1 .. n  BY <2>2, <2>3, SMTT(60)
  <2>6. QED  BY <2>3, <2>4, <2>5
<1>6. QED  BY <1>1, <1>3, <1>4, <1>5 DEF w

LEMMA FlattenCouples ==
  ASSUME NEW parts \in Seq(Seq(Msg)), \A i \in 1 .. Len(parts) : CouplesOnly(parts[i])
  PROVE  FlattenSeq(parts) \in Seq(Msg) /\ CouplesOnly(FlattenSeq(parts))
<1> DEFINE w == FlattenSeq(parts)
<1>1. w \in Seq(Msg) /\ \E start : Placed(w, parts, start, Len(parts))
  BY FlattenPlaces
<1>2. PICK start : Placed(w, parts, start, Len(parts))  BY <1>1
<1> HIDE DEF w
<1>3. PICK n, m \in Nat : n = Len(w) /\ m = Len(parts)  BY <1>1
<1>4. ASSUME NEW i \in 1 .. m, NEW q, Couple(parts[i], q) PROVE Couple(w, start[i] + q)
  <2> DEFINE v == parts[i]
  <2>1. v \in Seq(Msg)  BY <1>3, ElementOfSeq
  <2>2. PICK l \in Nat : l = Len(v)  BY <2>1
  <2>3. PICK s \in Nat : s = start[i] /\ s + l <= n  BY <1>2, <1>3, <2>2 DEF Placed
  <2>4. \A r \in 1 .. l : w[s + r] = v[r]  BY <1>2, <1>3, <2>2, <2>3 DEF Placed
  <2> HIDE DEF v
  <2>5. Couple(v, q)  BY <1>4 DEF v
  <2>6. q \in 1 .. l /\ q + 1 \in 1 .. l  BY <2>5, <2>2 DEF Couple
  <2>7. w[s + q] = v[q] /\ w[s + (q + 1)] = v[q + 1] /\ s + (q + 1) = (s + q) + 1
    BY <2>4, <2>6
  <2>8. s + q \in 1 .. n /\ (s + q) + 1 \in 1 .. n  BY <2>3, <2>6, SMTT(60)
  <2> DEFINE x == s + q
             y == q + 1
  <2>9. w[x] = v[q] /\ w[x + 1] = v[y] /\ x \in 1 .. Len(w) /\ x + 1 \in 1 .. Len(w)
    BY <2>7, <2>8, <1>3
  <2>10. /\ v[q].role = "assistant" /\ Made(v[q]) /\ Len(v[q].calls) = 1
         /\ v[y].role = "tool" /\ v[y].calls = <<>>
         /\ v[y].call = v[q].calls[1].call
    BY <2>5 DEF Couple
  <2> HIDE DEF x, y
  <2>11. Couple(w, x)  BY <2>9, <2>10 DEF Couple
  <2>12. QED  BY <2>11, <2>3 DEF x
<1>5. ASSUME NEW p \in 1 .. n
      PROVE  Couple(w, p) \/ (p - 1 \in 1 .. n /\ Couple(w, p - 1))
  <2>1. PICK i \in 1 .. m : \E q \in 1 .. Len(parts[i]) : p = start[i] + q
    BY <1>2, <1>3 DEF Placed
  <2>2. PICK q \in 1 .. Len(parts[i]) : p = start[i] + q  BY <2>1
  <2>3. start[i] \in Nat  BY <1>2, <1>3 DEF Placed
  <2>4. CouplesOnly(parts[i])  BY <1>3
  <2>5. Couple(parts[i], q) \/ (q - 1 \in 1 .. Len(parts[i]) /\ Couple(parts[i], q - 1))
    BY <2>4, Zenon DEF CouplesOnly
  <2>6. CASE Couple(parts[i], q)  BY <2>6, <1>4, <2>2
  <2>7. CASE q - 1 \in 1 .. Len(parts[i]) /\ Couple(parts[i], q - 1)
    <3>1. Couple(w, start[i] + (q - 1))  BY <2>7, <1>4
    <3>2. start[i] + (q - 1) = p - 1 /\ p - 1 >= 1
      <4>1. PICK s, z \in Nat : s = start[i] /\ z = q - 1 /\ z >= 1  BY <2>3, <2>7
      <4>2. p = s + (z + 1)  BY <4>1, <2>2
      <4>3. QED  BY <4>1, <4>2
    <3>3. p - 1 \in 1 .. n  BY <3>2, <1>3
    <3>4. QED  BY <3>1, <3>2, <3>3
  <2>8. QED  BY <2>5, <2>6, <2>7
<1>6. CouplesOnly(w)  BY <1>3, <1>5 DEF CouplesOnly
<1>7. QED  BY <1>1, <1>6 DEF w

(* The messages at some places, and nothing else. *)
LEMMA ChosenHas ==
  ASSUME NEW msgs \in Seq(Msg), NEW F, F \subseteq DOMAIN msgs
  PROVE  LET r == FlattenSeq([j \in DOMAIN msgs |-> IF j \in F THEN <<msgs[j]>> ELSE <<>>]) IN
         /\ r \in Seq(Msg)
         /\ \A q \in 1 .. Len(r) : \E j \in F : r[q] = msgs[j]
         /\ \A j \in F : \E q \in 1 .. Len(r) : r[q] = msgs[j]
<1> DEFINE parts == [j \in DOMAIN msgs |-> IF j \in F THEN <<msgs[j]>> ELSE <<>>]
           r == FlattenSeq(parts)
<1>1. PICK n \in Nat : n = Len(msgs) /\ DOMAIN msgs = 1 .. n  OBVIOUS
<1>2. \A j \in 1 .. n : msgs[j] \in Msg  BY <1>1, ElementOfSeq
<1>3. \A j \in 1 .. n : parts[j] \in Seq(Msg)
  <2>1. TAKE j \in 1 .. n
  <2>2. msgs[j] \in Msg  BY <1>2
  <2>3. <<msgs[j]>> \in Seq(Msg) /\ <<>> \in Seq(Msg)  BY <2>2
  <2>4. QED  BY <2>3, <1>1
<1>4. parts \in Seq(Seq(Msg)) /\ Len(parts) = n
  <2>1. parts \in [1 .. n -> Seq(Msg)]  BY <1>1, <1>3
  <2> HIDE DEF parts
  <2>2. QED  BY <2>1
<1>5. /\ \A j \in F : parts[j] = <<msgs[j]>> /\ j \in 1 .. n
      /\ \A j \in 1 .. n : j \notin F => parts[j] = <<>>
  BY <1>1
<1> HIDE DEF parts
<1>6. /\ r \in Seq(Msg)
      /\ \A p \in 1 .. Len(r) : \E i \in 1 .. Len(parts) : \E q \in 1 .. Len(parts[i]) : r[p] = parts[i][q]
      /\ \A i \in 1 .. Len(parts) : \A q \in 1 .. Len(parts[i]) : \E p \in 1 .. Len(r) : r[p] = parts[i][q]
  BY <1>4, FlattenHas
<1> HIDE DEF r
<1>7. ASSUME NEW p \in 1 .. Len(r) PROVE \E j \in F : r[p] = msgs[j]
  <2>1. PICK i \in 1 .. n : \E q \in 1 .. Len(parts[i]) : r[p] = parts[i][q]  BY <1>6, <1>4
  <2>2. PICK q \in 1 .. Len(parts[i]) : r[p] = parts[i][q]  BY <2>1
  <2>3. CASE i \in F
    <3>1. parts[i] = <<msgs[i]>>  BY <2>3, <1>5
    <3>2. q = 1 /\ parts[i][q] = msgs[i]  BY <3>1
    <3>3. QED  BY <2>2, <2>3, <3>2
  <2>4. CASE i \notin F
    <3>1. parts[i] = <<>>  BY <2>4, <1>5
    <3>2. FALSE  BY <3>1
    <3>3. QED  BY <3>2
  <2>5. QED  BY <2>3, <2>4
<1>8. ASSUME NEW j \in F PROVE \E q \in 1 .. Len(r) : r[q] = msgs[j]
  <2>1. parts[j] = <<msgs[j]>> /\ j \in 1 .. Len(parts)  BY <1>5, <1>4
  <2>2. 1 \in 1 .. Len(parts[j]) /\ parts[j][1] = msgs[j]  BY <2>1
  <2>3. \A q \in 1 .. Len(parts[j]) : \E p \in 1 .. Len(r) : r[p] = parts[j][q]
    BY <2>1, <1>6
  <2>4. QED  BY <2>2, <2>3
<1>9. QED  BY <1>6, <1>7, <1>8 DEF r, parts

(* The results of one call: what its run holds, or that none is known.       *)
Results(r, msgs, i, id) ==
    /\ r \in Seq(Msg) /\ r # <<>>
    /\ \A q \in 1 .. Len(r) : /\ r[q].role = "tool" /\ r[q].calls = <<>> /\ r[q].call = id
                              /\ r[q].n = -1 => \A t \in Run(msgs, i) : msgs[t].call # id
    /\ \A t \in Run(msgs, i) : msgs[t].call = id => \E q \in 1 .. Len(r) : r[q] = msgs[t]

LEMMA ResultsHave ==
  ASSUME NEW msgs, WellFormed(msgs), NEW i \in Nat, NEW id \in Int
  PROVE  Results(ResultsOf(msgs, i, id), msgs, i, id)
<1> DEFINE found == {j \in Run(msgs, i) : msgs[j].call = id}
           d == [Message("tool", -1) EXCEPT !.call = id]
           r == ResultsOf(msgs, i, id)
           c == FlattenSeq([j \in DOMAIN msgs |-> IF j \in found THEN <<msgs[j]>> ELSE <<>>])
<1>1. r = IF found = {} THEN <<d>> ELSE c
  BY DEF ResultsOf
<1>2. d \in Msg /\ d.role = "tool" /\ d.n = -1 /\ d.call = id /\ d.calls = <<>>
  BY DoubtFields
<1>3. msgs \in Seq(Msg) /\ found \subseteq DOMAIN msgs
  BY DEF WellFormed, Run
<1>4. \A j \in found : msgs[j].role = "tool" /\ msgs[j].calls = <<>> /\ msgs[j].n # -1 /\ msgs[j].call = id
  <2>1. TAKE j \in found
  <2>2. j \in Run(msgs, i) /\ msgs[j].call = id  OBVIOUS
  <2>3. j \in 1 .. Len(msgs) /\ j \in i + 1 .. j  BY <2>2, <1>3 DEF Run
  <2>4. msgs[j].role = "tool"  BY <2>2, <2>3 DEF Run
  <2>5. QED  BY <2>2, <2>3, <2>4 DEF WellFormed
<1>5. \A t \in Run(msgs, i) : msgs[t].call = id => t \in found  OBVIOUS
<1> DEFINE Goal ==
             /\ r \in Seq(Msg) /\ r # <<>>
             /\ \A q \in 1 .. Len(r) : /\ r[q].role = "tool" /\ r[q].calls = <<>> /\ r[q].call = id
                                       /\ r[q].n = -1 => \A t \in Run(msgs, i) : msgs[t].call # id
             /\ \A t \in Run(msgs, i) : msgs[t].call = id => \E q \in 1 .. Len(r) : r[q] = msgs[t]
<1>6. ASSUME found = {} PROVE Goal
  <2>1. r = <<d>>  BY <1>1, <1>6
  <2>2. \A t \in Run(msgs, i) : msgs[t].call # id  BY <1>5, <1>6
  <2> HIDE DEF r, d
  <2>3. r \in Seq(Msg) /\ Len(r) = 1 /\ r[1] = d  BY <2>1, <1>2
  <2>4. \A q \in 1 .. Len(r) : r[q] = d  BY <2>3
  <2>5. r # <<>>  BY <2>3
  <2>6. \A q \in 1 .. Len(r) :
          /\ r[q].role = "tool" /\ r[q].calls = <<>> /\ r[q].call = id
          /\ r[q].n = -1 => \A t \in Run(msgs, i) : msgs[t].call # id
    BY <2>2, <2>4, <1>2
  <2>7. QED  BY <2>2, <2>3, <2>5, <2>6
<1>7. ASSUME found # {} PROVE Goal
  <2>1. r = c  BY <1>1, <1>7
  <2>2. /\ c \in Seq(Msg)
        /\ \A q \in 1 .. Len(c) : \E j \in found : c[q] = msgs[j]
        /\ \A j \in found : \E q \in 1 .. Len(c) : c[q] = msgs[j]
    <3> HIDE DEF found
    <3>1. QED  BY <1>3, ChosenHas
  <2> HIDE DEF r, c, found
  <2>3. \A q \in 1 .. Len(r) : r[q].role = "tool" /\ r[q].calls = <<>> /\ r[q].call = id /\ r[q].n # -1
    <3>1. TAKE q \in 1 .. Len(r)
    <3>2. PICK j \in found : r[q] = msgs[j]  BY <2>1, <2>2
    <3>3. QED  BY <3>2, <1>4
  <2>4. r # <<>>
    <3>1. PICK j : j \in found  BY <1>7
    <3>2. \E q \in 1 .. Len(r) : r[q] = msgs[j]  BY <3>1, <2>1, <2>2
    <3>3. QED  BY <3>2
  <2>5. \A t \in Run(msgs, i) : msgs[t].call = id => \E q \in 1 .. Len(r) : r[q] = msgs[t]
    BY <2>1, <2>2, <1>5
  <2>6. QED  BY <2>1, <2>2, <2>3, <2>4, <2>5
<1>8. Goal  BY <1>6, <1>7
<1>9. QED  BY <1>8 DEF Results

(* A message with calls and their results are paired. *)
LEMMA HeadPaired ==
  ASSUME NEW h \in Msg, h.role = "assistant", NEW R \in Seq(Msg),
         \A q \in 1 .. Len(R) : /\ R[q].role = "tool" /\ R[q].calls = <<>>
                                /\ \E k \in 1 .. Len(h.calls) : h.calls[k].call = R[q].call,
         \A k \in 1 .. Len(h.calls) : \E q \in 1 .. Len(R) : R[q].call = h.calls[k].call
  PROVE  /\ <<h>> \o R \in Seq(Msg) /\ Len(<<h>> \o R) = Len(R) + 1
         /\ (<<h>> \o R)[1] = h
         /\ \A q \in 1 .. Len(R) : (<<h>> \o R)[q + 1] = R[q]
         /\ PairedForChat(<<h>> \o R)
<1> DEFINE w == <<h>> \o R
<1>0. PICK n \in Nat : n = Len(R)  OBVIOUS
<1>1. w \in Seq(Msg) /\ Len(w) = n + 1 /\ w[1] = h /\ \A q \in 1 .. n : w[q + 1] = R[q]
  BY <1>0
<1> HIDE DEF w
<1>2. DOMAIN w = 1 .. n + 1  BY <1>1
<1>3. ASSUME NEW p \in 1 .. n + 1, p # 1
      PROVE  /\ p \in Run(w, 1)
             /\ \E q \in 1 .. n : p = q + 1 /\ w[p] = R[q]
  <2>1. \A x \in 2 .. n + 1 : \E q \in 1 .. n : x = q + 1 /\ w[x] = R[q]
    <3>1. TAKE x \in 2 .. n + 1
    <3>2. x - 1 \in 1 .. n /\ x = (x - 1) + 1  OBVIOUS
    <3>3. w[(x - 1) + 1] = R[x - 1]  BY <3>2, <1>1
    <3>4. QED  BY <3>2, <3>3
  <2>2. p \in 2 .. n + 1  BY <1>3
  <2>3. \A x \in 1 + 1 .. p : w[x].role = "tool"
    <3>1. TAKE x \in 1 + 1 .. p
    <3>2. x \in 2 .. n + 1  BY <2>2
    <3>3. PICK q \in 1 .. n : w[x] = R[q]  BY <3>2, <2>1
    <3>4. QED  BY <3>3, <1>0
  <2>4. p \in Run(w, 1)  BY <2>2, <2>3, <1>2 DEF Run
  <2>5. QED  BY <2>1, <2>2, <2>4
<1>4. DOMAIN h.calls = 1 .. Len(h.calls)
  <2>1. h.calls \in Seq(Asks)  BY MsgFields
  <2>2. QED  BY <2>1
<1>5. ASSUME NEW p \in 1 .. n + 1, w[p].role = "tool"
      PROVE  \E a \in 1 .. p - 1 : /\ p \in Run(w, a)
                                   /\ \E k \in DOMAIN w[a].calls : w[a].calls[k].call = w[p].call
  <2>1. p # 1  BY <1>5, <1>1
  <2>2. PICK q \in 1 .. n : w[p] = R[q]  BY <2>1, <1>3
  <2>3. \E k \in 1 .. Len(h.calls) : h.calls[k].call = w[p].call
    <3>1. \A x \in 1 .. Len(R) : \E k \in 1 .. Len(h.calls) : h.calls[k].call = R[x].call
      OBVIOUS
    <3>2. PICK k \in 1 .. Len(h.calls) : h.calls[k].call = R[q].call  BY <3>1, <2>2, <1>0
    <3>3. QED  BY <3>2, <2>2
  <2>4. 1 \in 1 .. p - 1 /\ p \in Run(w, 1)  BY <2>1, <1>3
  <2>5. QED  BY <2>3, <2>4, <1>1, <1>4, SMTT(60)
<1>6. ASSUME NEW p \in 1 .. n + 1, NEW k \in DOMAIN w[p].calls
      PROVE  \E j \in Run(w, p) : w[j].call = w[p].calls[k].call
  <2>1. CASE p = 1
    <3>1. k \in 1 .. Len(h.calls) /\ w[p] = h  BY <2>1, <1>1, <1>4
    <3>2. PICK q \in 1 .. n : R[q].call = h.calls[k].call  BY <3>1, <1>0
    <3>3. q + 1 \in 1 .. n + 1 /\ q + 1 # 1 /\ w[q + 1] = R[q]  BY <1>1
    <3>4. q + 1 \in Run(w, 1)  BY <3>3, <1>3
    <3>5. QED  BY <3>1, <3>2, <3>3, <3>4, <2>1
  <2>2. CASE p # 1
    <3>1. PICK q \in 1 .. n : w[p] = R[q]  BY <2>2, <1>3
    <3>2. w[p].calls = <<>>  BY <3>1, <1>0
    <3>3. k \in DOMAIN <<>>  BY <3>2
    <3>4. FALSE  BY <3>3
    <3>5. QED  BY <3>4
  <2>3. QED  BY <2>1, <2>2
<1>7. PairedForChat(w)
  BY <1>2, <1>5, <1>6 DEF PairedForChat
<1>8. QED  BY <1>0, <1>1, <1>7 DEF w

(* The results of all calls of a message. *)
LEMMA AllResults ==
  ASSUME NEW msgs, WellFormed(msgs), NEW i \in Nat, NEW c \in Seq(Asks)
  PROVE  LET R == FlattenSeq([k \in DOMAIN c |-> ResultsOf(msgs, i, c[k].call)]) IN
         /\ R \in Seq(Msg)
         /\ \A q \in 1 .. Len(R) : /\ R[q].role = "tool" /\ R[q].calls = <<>>
                                   /\ \E k \in 1 .. Len(c) : c[k].call = R[q].call
                                   /\ R[q].n = -1 => \A t \in Run(msgs, i) : msgs[t].call # R[q].call
         /\ \A k \in 1 .. Len(c) : \E q \in 1 .. Len(R) : R[q].call = c[k].call
         /\ \A t \in Run(msgs, i) : \A k \in 1 .. Len(c) :
              msgs[t].call = c[k].call => \E q \in 1 .. Len(R) : R[q] = msgs[t]
<1> DEFINE parts == [k \in DOMAIN c |-> ResultsOf(msgs, i, c[k].call)]
           R == FlattenSeq(parts)
<1>1. PICK n \in Nat : n = Len(c) /\ DOMAIN c = 1 .. n  OBVIOUS
<1>2. \A k \in 1 .. n : c[k].call \in Int
  <2>1. \A k \in 1 .. n : c[k] \in Asks  BY <1>1, ElementOfSeq
  <2>2. QED  BY <2>1 DEF Asks
<1>3. ASSUME NEW k \in 1 .. n
      PROVE  Results(parts[k], msgs, i, c[k].call)
  <2>1. parts[k] = ResultsOf(msgs, i, c[k].call)  BY <1>1
  <2>2. c[k].call \in Int  BY <1>2
  <2> HIDE DEF parts
  <2>3. QED  BY <2>1, <2>2, ResultsHave
<1>4. parts \in Seq(Seq(Msg)) /\ Len(parts) = n
  <2>1. parts \in [1 .. n -> Seq(Msg)]
    <3>1. DOMAIN parts = 1 .. n /\ parts = [k \in 1 .. n |-> parts[k]]  BY <1>1
    <3> HIDE DEF parts
    <3>2. QED  BY <3>1, <1>3 DEF Results
  <2> HIDE DEF parts
  <2>2. QED  BY <2>1
<1> HIDE DEF parts
<1>5. /\ R \in Seq(Msg)
      /\ \A p \in 1 .. Len(R) : \E k \in 1 .. n : \E q \in 1 .. Len(parts[k]) : R[p] = parts[k][q]
      /\ \A k \in 1 .. n : \A q \in 1 .. Len(parts[k]) : \E p \in 1 .. Len(R) : R[p] = parts[k][q]
  BY <1>4, FlattenHas, ZenonT(60)
<1> HIDE DEF R
<1>6. ASSUME NEW p \in 1 .. Len(R)
      PROVE  /\ R[p].role = "tool" /\ R[p].calls = <<>>
             /\ \E k \in 1 .. n : c[k].call = R[p].call
             /\ R[p].n = -1 => \A t \in Run(msgs, i) : msgs[t].call # R[p].call
  <2>1. PICK k \in 1 .. n : \E q \in 1 .. Len(parts[k]) : R[p] = parts[k][q]  BY <1>5
  <2>2. PICK q \in 1 .. Len(parts[k]) : R[p] = parts[k][q]  BY <2>1
  <2>3. /\ R[p].role = "tool" /\ R[p].calls = <<>> /\ R[p].call = c[k].call
        /\ R[p].n = -1 => \A t \in Run(msgs, i) : msgs[t].call # c[k].call
    BY <2>2, <1>3, SMTT(60) DEF Results
  <2>4. QED  BY <2>3
<1>7. ASSUME NEW k \in 1 .. n PROVE \E p \in 1 .. Len(R) : R[p].call = c[k].call
  <2>1. parts[k] \in Seq(Msg) /\ parts[k] # <<>>  BY <1>3 DEF Results
  <2>2. 1 \in 1 .. Len(parts[k])  BY <2>1
  <2>3. parts[k][1].call = c[k].call  BY <2>2, <1>3 DEF Results
  <2>4. \E p \in 1 .. Len(R) : R[p] = parts[k][1]  BY <2>2, <1>5
  <2>5. QED  BY <2>3, <2>4
<1>8. ASSUME NEW t \in Run(msgs, i), NEW k \in 1 .. n, msgs[t].call = c[k].call
      PROVE  \E p \in 1 .. Len(R) : R[p] = msgs[t]
  <2>1. PICK q \in 1 .. Len(parts[k]) : parts[k][q] = msgs[t]  BY <1>8, <1>3 DEF Results
  <2>2. \E p \in 1 .. Len(R) : R[p] = parts[k][q]  BY <1>5
  <2>3. QED  BY <2>1, <2>2
<1> DEFINE Goal ==
         /\ R \in Seq(Msg)
         /\ \A q \in 1 .. Len(R) : /\ R[q].role = "tool" /\ R[q].calls = <<>>
                                   /\ \E k \in 1 .. Len(c) : c[k].call = R[q].call
                                   /\ R[q].n = -1 => \A t \in Run(msgs, i) : msgs[t].call # R[q].call
         /\ \A k \in 1 .. Len(c) : \E q \in 1 .. Len(R) : R[q].call = c[k].call
         /\ \A t \in Run(msgs, i) : \A k \in 1 .. Len(c) :
              msgs[t].call = c[k].call => \E q \in 1 .. Len(R) : R[q] = msgs[t]
<1>9. Goal  BY <1>1, <1>5, <1>6, <1>7, <1>8
<1>10. QED  BY <1>9 DEF R, parts

(* What the repair makes of one message: with it the messages of its run.    *)
BlockSound(w, msgs, i) ==
    /\ w \in Seq(Msg) /\ PairedForChat(w)
    /\ msgs[i].role # "tool" => w # <<>> /\ Like(w[1], msgs[i])
    /\ \A p \in 1 .. Len(w) : (p = 1 /\ msgs[i].role # "tool") \/ Made(w[p])
    /\ w # <<>> => w[1].role # "tool"
    /\ HasCalls(msgs, i) =>
         /\ \A t \in Run(msgs, i) : \E p \in 1 .. Len(w) : w[p].role = "tool" /\ w[p].n = msgs[t].n
         /\ \A j \in Run(w, 1) : w[j].n = -1 => \A t \in Run(msgs, i) : msgs[t].call # w[j].call
    /\ msgs[i].role = "tool" /\ ~InRun(msgs, i) =>
         \E p \in 1 .. Len(w) : w[p].role = "tool" /\ w[p].n = msgs[i].n

(* The calls of a message keep their numbers; each has an id.                *)
LEMMA CallsNamed ==
  ASSUME NEW msg \in Msg, NEW i \in Nat
  PROVE  LET c == [k \in DOMAIN msg.calls |->
                     [msg.calls[k] EXCEPT !.call = IF @ = 0 THEN PlaceId(i, k) ELSE @]] IN
         /\ c \in Seq(Asks) /\ Len(c) = Len(msg.calls)
         /\ \A k \in 1 .. Len(c) : c[k].n = msg.calls[k].n
<1> DEFINE a == msg.calls
           new(k) == IF a[k].call = 0 THEN PlaceId(i, k) ELSE a[k].call
           c == [k \in DOMAIN a |-> [a[k] EXCEPT !.call = IF @ = 0 THEN PlaceId(i, k) ELSE @]]
<1>1. a \in Seq(Asks)  BY MsgFields
<1> HIDE DEF a
<1>2. PICK n \in Nat : n = Len(a) /\ DOMAIN a = 1 .. n  BY <1>1
<1>3. ASSUME NEW k \in 1 .. n PROVE c[k] \in Asks /\ c[k].n = a[k].n
  <2>1. a[k] \in Asks  BY <1>1, <1>2, ElementOfSeq
  <2>2. c[k] = [a[k] EXCEPT !.call = IF @ = 0 THEN PlaceId(i, k) ELSE @]  BY <1>2
  <2>3. PlaceId(i, k) \in Int  BY DEF PlaceId
  <2>4. QED  BY <2>1, <2>2, <2>3 DEF Asks
<1>4. c \in [1 .. n -> Asks]
  <2>1. c = [k \in 1 .. n |-> c[k]]  BY <1>2
  <2> HIDE DEF c
  <2>2. QED  BY <2>1, <1>3
<1> HIDE DEF c
<1>5. c \in Seq(Asks) /\ Len(c) = n  BY <1>4
<1>6. QED  BY <1>2, <1>3, <1>5 DEF c, a

LEMMA AnsweredSound ==
  ASSUME NEW msgs, WellFormed(msgs), NEW i \in 1 .. Len(msgs), HasCalls(msgs, i)
  PROVE  BlockSound(Answered(msgs, i), msgs, i)
<1> DEFINE m == msgs[i]
           c == [k \in DOMAIN m.calls |->
                   [m.calls[k] EXCEPT !.call = IF @ = 0 THEN PlaceId(i, k) ELSE @]]
           ids == {c[k].call : k \in DOMAIN c}
           rest == {j \in Run(msgs, i) : msgs[j].call \notin ids}
           id(j) == IF msgs[j].call = 0 THEN PlaceId(i, 50 + j) ELSE msgs[j].call
           h == [m EXCEPT !.calls = c]
           R == FlattenSeq([k \in DOMAIN c |-> ResultsOf(msgs, i, c[k].call)])
           parts == [j \in DOMAIN msgs |-> IF j \in rest THEN WithOrphanCall(msgs[j], id(j)) ELSE <<>>]
           O == FlattenSeq(parts)
           A == <<h>> \o R
           w == A \o O
<1>1. Answered(msgs, i) = w
  BY DEF Answered
<1>2. msgs \in Seq(Msg)  BY DEF WellFormed
<1>3. PICK N \in Nat : N = Len(msgs) /\ DOMAIN msgs = 1 .. N  BY <1>2
<1>4. m \in Msg /\ m.role = "assistant" /\ i \in Nat
  <2>1. m \in Msg  BY <1>2, ElementOfSeq
  <2>2. m.calls # <<>>  BY DEF HasCalls
  <2>3. m.role = "assistant"  BY <2>2 DEF WellFormed
  <2>4. QED  BY <2>1, <2>3
<1>5. c \in Seq(Asks) /\ Len(c) = Len(m.calls) /\ \A k \in 1 .. Len(c) : c[k].n = m.calls[k].n
  <2> HIDE DEF m
  <2>1. QED  BY <1>4, CallsNamed
<1> HIDE DEF c
<1>6. /\ h \in Msg /\ h.role = "assistant" /\ h.n = m.n /\ h.calls = c /\ h.why = m.why
  <2> HIDE DEF m
  <2>1. QED  BY <1>4, <1>5, CallsFields
<1>7. Like(h, m)
  <2> HIDE DEF h, m
  <2>1. QED  BY <1>4, <1>5, <1>6 DEF Like
<1> HIDE DEF h
<1>8. /\ R \in Seq(Msg)
      /\ \A q \in 1 .. Len(R) : /\ R[q].role = "tool" /\ R[q].calls = <<>>
                                /\ \E k \in 1 .. Len(c) : c[k].call = R[q].call
                                /\ R[q].n = -1 => \A t \in Run(msgs, i) : msgs[t].call # R[q].call
      /\ \A k \in 1 .. Len(c) : \E q \in 1 .. Len(R) : R[q].call = c[k].call
      /\ \A t \in Run(msgs, i) : \A k \in 1 .. Len(c) :
           msgs[t].call = c[k].call => \E q \in 1 .. Len(R) : R[q] = msgs[t]
  BY <1>4, <1>5, AllResults, ZenonT(60)
<1> HIDE DEF R
<1>9. /\ A \in Seq(Msg) /\ Len(A) = Len(R) + 1 /\ A[1] = h
      /\ \A q \in 1 .. Len(R) : A[q + 1] = R[q]
      /\ PairedForChat(A)
  <2>1. /\ \A q \in 1 .. Len(R) : /\ R[q].role = "tool" /\ R[q].calls = <<>>
                                  /\ \E k \in 1 .. Len(h.calls) : h.calls[k].call = R[q].call
        /\ \A k \in 1 .. Len(h.calls) : \E q \in 1 .. Len(R) : R[q].call = h.calls[k].call
    BY <1>6, <1>8
  <2>2. h \in Msg /\ h.role = "assistant" /\ R \in Seq(Msg)  BY <1>6, <1>8
  <2>3. QED  BY <2>1, <2>2, HeadPaired
<1> HIDE DEF A
<1>10. \A j \in Run(msgs, i) : /\ j \in 1 .. N /\ msgs[j] \in Msg /\ msgs[j].role = "tool"
                               /\ msgs[j].calls = <<>>
  <2>1. TAKE j \in Run(msgs, i)
  <2>2. j \in 1 .. N /\ j \in i + 1 .. j  BY <1>3 DEF Run
  <2>3. msgs[j].role = "tool"  BY <2>2 DEF Run
  <2>4. msgs[j] \in Msg  BY <2>2, <1>2, <1>3, ElementOfSeq
  <2>5. msgs[j].calls = <<>>  BY <2>2, <2>3, <1>3 DEF WellFormed
  <2>6. QED  BY <2>2, <2>3, <2>4, <2>5
<1>11. /\ \A j \in rest : /\ j \in 1 .. N /\ parts[j] \in Seq(Msg) /\ CouplesOnly(parts[j])
                          /\ Len(parts[j]) = 2 /\ parts[j][2].role = "tool" /\ parts[j][2].n = msgs[j].n
       /\ \A j \in 1 .. N : j \notin rest => parts[j] = <<>>
  <2>1. ASSUME NEW j \in rest
        PROVE  /\ j \in 1 .. N /\ parts[j] \in Seq(Msg) /\ CouplesOnly(parts[j])
               /\ Len(parts[j]) = 2 /\ parts[j][2].role = "tool" /\ parts[j][2].n = msgs[j].n
    <3>1. j \in Run(msgs, i)  OBVIOUS
    <3>2. j \in 1 .. N /\ msgs[j] \in Msg /\ msgs[j].role = "tool" /\ msgs[j].calls = <<>>
      BY <3>1, <1>10
    <3>3. id(j) \in Int
      <4>1. PlaceId(i, 50 + j) \in Int  BY <3>2, <1>4 DEF PlaceId
      <4>2. msgs[j].call \in Int  BY <3>2, MsgFields
      <4>3. QED  BY <4>1, <4>2
    <3> DEFINE x == id(j)
               v == WithOrphanCall(msgs[j], x)
    <3>4. parts[j] = v  BY <3>2, <1>3
    <3> HIDE DEF parts, rest, id
    <3>5. x \in Int  BY <3>3
    <3> HIDE DEF x
    <3>6. /\ v \in Seq(Msg) /\ Len(v) = 2 /\ Couple(v, 1) /\ CouplesOnly(v)
          /\ v[2].role = "tool" /\ v[2].n = msgs[j].n
      BY <3>2, <3>5, OrphanCoupled
    <3>7. QED  BY <3>2, <3>4, <3>6
  <2>2. \A j \in 1 .. N : j \notin rest => parts[j] = <<>>  BY <1>3
  <2>3. QED  BY <2>1, <2>2
<1>12. parts \in Seq(Seq(Msg)) /\ Len(parts) = N
  <2>1. parts = [j \in 1 .. N |-> parts[j]]  BY <1>3
  <2> HIDE DEF parts
  <2>2. \A j \in 1 .. N : parts[j] \in Seq(Msg)
    <3>1. <<>> \in Seq(Msg)  OBVIOUS
    <3>2. QED  BY <3>1, <1>11
  <2>3. parts \in [1 .. N -> Seq(Msg)]  BY <2>1, <2>2
  <2>4. QED  BY <2>3
<1>13. \A j \in 1 .. N : CouplesOnly(parts[j])
  <2>1. CouplesOnly(<<>>)  BY DEF CouplesOnly
  <2> HIDE DEF parts, rest
  <2>2. QED  BY <2>1, <1>11
<1> HIDE DEF parts
<1>14. O \in Seq(Msg) /\ CouplesOnly(O)
  BY <1>12, <1>13, FlattenCouples
<1>15. \A t \in rest : \E p \in 1 .. Len(O) : O[p].role = "tool" /\ O[p].n = msgs[t].n
  <2>1. TAKE t \in rest
  <2>2. /\ t \in 1 .. N /\ Len(parts[t]) = 2 /\ parts[t][2].role = "tool" /\ parts[t][2].n = msgs[t].n
    BY <1>11
  <2>3. \A a \in 1 .. Len(parts) : \A q \in 1 .. Len(parts[a]) : \E p \in 1 .. Len(O) : O[p] = parts[a][q]
    BY <1>12, FlattenHas, ZenonT(60)
  <2>4. 2 \in 1 .. Len(parts[t])  BY <2>2
  <2>5. \E p \in 1 .. Len(O) : O[p] = parts[t][2]  BY <2>2, <2>3, <2>4, <1>12
  <2>6. QED  BY <2>2, <2>5
<1> HIDE DEF O
<1>16. /\ PairedForChat(O) /\ \A p \in 1 .. Len(O) : Made(O[p])
       /\ O # <<>> => O[1].role = "assistant"
  BY <1>14, CouplesPaired
<1>17. w \in Seq(Msg) /\ PairedForChat(w)
  BY <1>9, <1>14, <1>16, BothPaired
<1>18. PICK a, b, e \in Nat : a = Len(A) /\ b = Len(O) /\ e = Len(R)  BY <1>8, <1>9, <1>14
<1>19. /\ Len(w) = a + b /\ a = e + 1
       /\ \A p \in 1 .. a : w[p] = A[p]
       /\ \A p \in 1 .. b : w[a + p] = O[p]
  BY <1>9, <1>14, <1>18, SMTT(60)
<1> HIDE DEF w
<1>20. w[1] = h /\ w # <<>> /\ \A q \in 1 .. e : w[q + 1] = R[q]
  <2>1. \A q \in 1 .. e : q + 1 \in 1 .. a  BY <1>19
  <2>2. \A q \in 1 .. e : w[q + 1] = R[q]  BY <2>1, <1>9, <1>18, <1>19
  <2>3. 1 \in 1 .. a  BY <1>19
  <2>4. w[1] = h  BY <2>3, <1>19, <1>9
  <2>5. w # <<>>  BY <1>19, <1>17, <2>3
  <2>6. QED  BY <2>2, <2>4, <2>5
<1>21. ASSUME NEW p \in 1 .. a + b, p # 1 PROVE Made(w[p])
  <2>1. CASE p \in 2 .. a
    <3>1. p - 1 \in 1 .. e /\ (p - 1) + 1 = p  BY <2>1, <1>19
    <3>2. w[p] = R[p - 1]  BY <3>1, <1>20
    <3>3. R[p - 1].role = "tool" /\ R[p - 1].calls = <<>>  BY <3>1, <1>8, <1>18
    <3>4. QED  BY <3>2, <3>3 DEF Made
  <2>2. CASE p > a
    <3>1. p - a \in 1 .. b /\ a + (p - a) = p  BY <2>2
    <3>2. w[p] = O[p - a]  BY <3>1, <1>19
    <3>3. QED  BY <3>1, <3>2, <1>16, <1>18
  <2>3. QED  BY <2>1, <2>2, <1>21
<1>22. ASSUME NEW t \in Run(msgs, i)
       PROVE  \E p \in 1 .. a + b : w[p].role = "tool" /\ w[p].n = msgs[t].n
  <2>1. CASE t \in rest
    <3>1. PICK p \in 1 .. b : O[p].role = "tool" /\ O[p].n = msgs[t].n  BY <2>1, <1>15, <1>18
    <3>2. a + p \in 1 .. a + b /\ w[a + p] = O[p]  BY <1>19
    <3>3. QED  BY <3>1, <3>2
  <2>2. CASE t \notin rest
    <3>1. msgs[t].call \in ids  BY <2>2
    <3>2. DOMAIN c = 1 .. Len(c)  BY <1>5
    <3>3. PICK k \in 1 .. Len(c) : msgs[t].call = c[k].call  BY <3>1, <3>2
    <3>4. PICK q \in 1 .. e : R[q] = msgs[t]  BY <3>3, <1>8, <1>18
    <3>5. q + 1 \in 1 .. a + b /\ w[q + 1] = R[q]  BY <1>19, <1>20
    <3>6. R[q].role = "tool"  BY <1>8, <1>18
    <3>7. QED  BY <3>4, <3>5, <3>6
  <2>3. QED  BY <2>1, <2>2
<1>23. ASSUME NEW j \in Run(w, 1), w[j].n = -1, NEW t \in Run(msgs, i)
       PROVE  msgs[t].call # w[j].call
  <2>1. DOMAIN w = 1 .. a + b  BY <1>17, <1>19
  <2>2. j \in 1 .. a + b /\ j > 1 /\ \A k \in 1 + 1 .. j : w[k].role = "tool"
    BY <2>1 DEF Run
  <2>3. j <= a
    <3>1. SUFFICES ASSUME j > a PROVE FALSE  BY <2>2
    <3>2. a + 1 \in 1 + 1 .. j /\ 1 \in 1 .. b  BY <3>1, <2>2, <1>19
    <3>3. w[a + 1] = O[1]  BY <3>2, <1>19
    <3>4. O # <<>>
      <4>1. Len(O) # 0  BY <3>2, <1>18
      <4>2. QED  BY <4>1
    <3>5. w[a + 1].role = "assistant" /\ w[a + 1].role = "tool"  BY <3>2, <3>3, <3>4, <1>16, <2>2
    <3>6. QED  BY <3>5
  <2>4. j - 1 \in 1 .. e /\ (j - 1) + 1 = j  BY <2>2, <2>3, <1>19
  <2>5. w[j] = R[j - 1]  BY <2>4, <1>20
  <2> DEFINE q == j - 1
  <2>6. q \in 1 .. Len(R) /\ w[j] = R[q]  BY <2>4, <2>5, <1>18
  <2> HIDE DEF q
  <2>7. R[q].n = -1  BY <2>6, <1>23
  <2>8. \A x \in Run(msgs, i) : msgs[x].call # R[q].call  BY <2>6, <2>7, <1>8
  <2>9. msgs[t].call # R[q].call  BY <2>8, <1>23
  <2>10. QED  BY <2>6, <2>9
<1>24. m.role # "tool"  BY <1>4
<1>25. w[1].role # "tool"  BY <1>20, <1>6
<1>26. BlockSound(w, msgs, i)
  <2>1. \A p \in 1 .. Len(w) : (p = 1 /\ m.role # "tool") \/ Made(w[p])
    BY <1>19, <1>21, <1>24
  <2>2. m = msgs[i]  OBVIOUS
  <2> HIDE DEF m
  <2>3. QED
    BY <2>1, <2>2, <1>7, <1>17, <1>19, <1>20, <1>22, <1>23, <1>24, <1>25 DEF BlockSound
<1>27. QED  BY <1>1, <1>26

LEMMA BlocksSound ==
  ASSUME NEW msgs, WellFormed(msgs), NEW i \in 1 .. Len(msgs)
  PROVE  BlockSound(Block(msgs, i), msgs, i)
<1>1. msgs \in Seq(Msg)  BY DEF WellFormed
<1>2. PICK N \in Nat : N = Len(msgs) /\ DOMAIN msgs = 1 .. N  BY <1>1
<1>3. msgs[i] \in Msg  BY <1>1, ElementOfSeq
<1>4. msgs[i].role = "tool" => ~HasCalls(msgs, i)
  BY DEF WellFormed, HasCalls
<1>5. InRun(msgs, i) => msgs[i].role = "tool"
  <2>1. SUFFICES ASSUME NEW a \in 1 .. i - 1, i \in Run(msgs, a) PROVE msgs[i].role = "tool"
    BY DEF InRun
  <2>2. i \in a + 1 .. i  BY <1>2
  <2>3. QED  BY <2>1, <2>2 DEF Run
<1>6. CASE HasCalls(msgs, i)
  <2>1. Block(msgs, i) = Answered(msgs, i)  BY <1>4, <1>5, <1>6 DEF Block
  <2>2. QED  BY <2>1, <1>6, AnsweredSound
<1>7. CASE InRun(msgs, i)
  <2>1. Block(msgs, i) = <<>>  BY <1>4, <1>5, <1>7 DEF Block
  <2>2. PairedForChat(<<>>)  BY DEF PairedForChat
  <2>3. <<>> \in Seq(Msg) /\ Len(<<>>) = 0  OBVIOUS
  <2>4. msgs[i].role = "tool" /\ ~HasCalls(msgs, i)  BY <1>4, <1>5, <1>7
  <2>5. BlockSound(<<>>, msgs, i)
    <3> DEFINE e == <<>>
    <3>1. PairedForChat(e) /\ e \in Seq(Msg) /\ Len(e) = 0 /\ e = <<>>  BY <2>2, <2>3
    <3> HIDE DEF e
    <3>2. BlockSound(e, msgs, i)  BY <3>1, <2>4, <1>7 DEF BlockSound
    <3>3. QED  BY <3>2 DEF e
  <2>6. QED  BY <2>1, <2>5
<1>8. CASE msgs[i].role = "tool" /\ ~InRun(msgs, i)
  <2> DEFINE id == IF msgs[i].call = 0 THEN PlaceId(i, 50) ELSE msgs[i].call
             w == WithOrphanCall(msgs[i], id)
  <2>1. Block(msgs, i) = w  BY <1>4, <1>8 DEF Block
  <2>2. id \in Int
    <3>1. PlaceId(i, 50) \in Int  BY <1>2 DEF PlaceId
    <3>2. QED  BY <3>1, <1>3, MsgFields
  <2> HIDE DEF id
  <2>3. msgs[i].calls = <<>>  BY <1>8 DEF WellFormed
  <2>4. /\ w \in Seq(Msg) /\ Len(w) = 2 /\ CouplesOnly(w)
        /\ w[2].role = "tool" /\ w[2].n = msgs[i].n
    BY <1>3, <1>8, <2>2, <2>3, OrphanCoupled
  <2> HIDE DEF w
  <2>5. /\ PairedForChat(w) /\ \A p \in 1 .. Len(w) : Made(w[p])
        /\ w # <<>> => w[1].role = "assistant"
    BY <2>4, CouplesPaired
  <2>6. ~HasCalls(msgs, i)  BY <1>4, <1>8
  <2>7. \E p \in 1 .. Len(w) : w[p].role = "tool" /\ w[p].n = msgs[i].n
    <3>1. 2 \in 1 .. Len(w)  BY <2>4
    <3>2. QED  BY <3>1, <2>4
  <2>8. w # <<>> => w[1].role # "tool"  BY <2>5
  <2>9. BlockSound(w, msgs, i)
    BY <1>8, <2>4, <2>5, <2>6, <2>7, <2>8 DEF BlockSound
  <2>10. QED  BY <2>1, <2>9
<1>9. CASE msgs[i].role # "tool" /\ ~HasCalls(msgs, i)
  <2> DEFINE x == msgs[i]
             w == <<x>>
  <2>1. Block(msgs, i) = w  BY <1>5, <1>9 DEF Block
  <2>2. x \in Msg /\ x.calls = <<>>  BY <1>3, <1>9, <1>2 DEF HasCalls
  <2>3. x = msgs[i] /\ x.role # "tool"  BY <1>9
  <2> HIDE DEF x
  <2>4. w \in Seq(Msg) /\ Len(w) = 1 /\ w[1] = x /\ DOMAIN w = 1 .. 1  BY <2>2
  <2> HIDE DEF w
  <2>5. \A p \in 1 .. 1 : p = 1 /\ w[p] = x  BY <2>4
  <2>6. PairedForChat(w)
    <3>1. \A p \in DOMAIN w : w[p].role # "tool" /\ DOMAIN w[p].calls = {}
      BY <2>2, <2>3, <2>4, <2>5
    <3>2. QED  BY <3>1 DEF PairedForChat
  <2>7. Like(w[1], x)  BY <2>2, <2>4 DEF Like
  <2>8. w # <<>>  BY <2>4
  <2>9. BlockSound(w, msgs, i)
    BY <1>9, <2>3, <2>4, <2>5, <2>6, <2>7, <2>8 DEF BlockSound
  <2>10. QED  BY <2>1, <2>9
<1>10. QED  BY <1>4, <1>6, <1>7, <1>8, <1>9

(* The repaired history: what was said is there at the places head, in       *)
(* order, and everything else was made by the repair.                        *)
Repairs(chat, msgs, head) ==
    /\ chat \in Seq(Msg) /\ PairedForChat(chat)
    /\ \A i \in 1 .. Len(msgs) : msgs[i].role # "tool" =>
         head[i] \in 1 .. Len(chat) /\ Like(chat[head[i]], msgs[i])
    /\ \A i, j \in 1 .. Len(msgs) :
         i < j /\ msgs[i].role # "tool" /\ msgs[j].role # "tool" => head[i] < head[j]
    /\ \A p \in 1 .. Len(chat) :
         \/ \E i \in 1 .. Len(msgs) : msgs[i].role # "tool" /\ p = head[i]
         \/ Made(chat[p])
    /\ \A i \in 1 .. Len(msgs) : msgs[i].role = "tool" =>
         \E p \in 1 .. Len(chat) : chat[p].role = "tool" /\ chat[p].n = msgs[i].n
    /\ \A i \in 1 .. Len(msgs) : HasCalls(msgs, i) =>
         \A j \in Run(chat, head[i]) : chat[j].n = -1 =>
           \A t \in Run(msgs, i) : msgs[t].call # chat[j].call

LEMMA SanitizedRepairs ==
  ASSUME NEW msgs, WellFormed(msgs)
  PROVE  \E head : Repairs(Sanitized(msgs), msgs, head)
<1> DEFINE blocks == [i \in DOMAIN msgs |-> Block(msgs, i)]
           chat == FlattenSeq(blocks)
<1>1. Sanitized(msgs) = chat  BY DEF Sanitized
<1>2. msgs \in Seq(Msg)  BY DEF WellFormed
<1>3. PICK N \in Nat : N = Len(msgs) /\ DOMAIN msgs = 1 .. N  BY <1>2
<1>4. \A i \in 1 .. N : blocks[i] = Block(msgs, i)  BY <1>3
<1>5. blocks = [i \in 1 .. N |-> blocks[i]]  BY <1>3
<1> HIDE DEF blocks
<1>6. \A i \in 1 .. N : BlockSound(blocks[i], msgs, i)
  BY <1>3, <1>4, BlocksSound
<1>7. \A i \in 1 .. N : blocks[i] \in Seq(Msg)  BY <1>6 DEF BlockSound
<1>8. blocks \in Seq(Seq(Msg)) /\ Len(blocks) = N
  <2>1. blocks \in [1 .. N -> Seq(Msg)]  BY <1>5, <1>7
  <2>2. QED  BY <2>1
<1>9. chat \in Seq(Msg) /\ \E start : Placed(chat, blocks, start, Len(blocks))
  BY <1>8, FlattenPlaces
<1>10. PICK start : Placed(chat, blocks, start, N)  BY <1>8, <1>9
<1> HIDE DEF chat
<1>11. PairedForChat(chat)
  <2>1. \A i \in 1 .. Len(blocks) : PairedForChat(blocks[i])  BY <1>6, <1>8 DEF BlockSound
  <2>2. QED  BY <2>1, <1>8, <1>9, <1>10, PlacedPaired
<1>12. PICK n \in Nat : n = Len(chat) /\ DOMAIN chat = 1 .. n  BY <1>9
<1> DEFINE len == [i \in 1 .. N |-> Len(blocks[i])]
           head == [i \in 1 .. N |-> start[i] + 1]
<1>13. /\ \A i \in 1 .. N : len[i] \in Nat /\ len[i] = Len(blocks[i]) /\ start[i] \in Nat
                            /\ start[i] + len[i] <= n /\ head[i] = start[i] + 1
  BY <1>7, <1>10, <1>12 DEF Placed
<1> HIDE DEF len, head
<1>14. \A i \in 1 .. N : \A q \in 1 .. len[i] : chat[start[i] + q] = blocks[i][q]
  BY <1>10, <1>13 DEF Placed
<1>15. \A p \in 1 .. n : \E i \in 1 .. N : \E q \in 1 .. len[i] : p = start[i] + q
  <2>1. TAKE p \in 1 .. n
  <2>2. PICK i \in 1 .. N : \E q \in 1 .. Len(blocks[i]) : p = start[i] + q
    BY <1>10, <1>12 DEF Placed
  <2>3. len[i] = Len(blocks[i])  BY <1>13
  <2>4. \E q \in 1 .. len[i] : p = start[i] + q  BY <2>2, <2>3
  <2>5. QED  BY <2>4
<1>16. \A i, j \in 1 .. N : i < j => start[i] + len[i] <= start[j]
  BY <1>10, <1>13 DEF Placed
<1>17. ASSUME NEW i \in 1 .. N, msgs[i].role # "tool"
       PROVE  len[i] >= 1 /\ head[i] \in 1 .. n /\ chat[head[i]] = blocks[i][1] /\ Like(chat[head[i]], msgs[i])
  <2>1. blocks[i] # <<>> /\ Like(blocks[i][1], msgs[i]) /\ blocks[i] \in Seq(Msg)
    BY <1>6, <1>17 DEF BlockSound
  <2>2. len[i] >= 1
    <3>1. Len(blocks[i]) # 0  BY <2>1
    <3>2. QED  BY <3>1, <1>13
  <2>3. head[i] \in 1 .. n /\ 1 \in 1 .. len[i]  BY <2>2, <1>13, SMTT(60)
  <2>4. chat[head[i]] = blocks[i][1]  BY <2>3, <1>13, <1>14
  <2>5. QED  BY <2>1, <2>2, <2>3, <2>4
<1>18. ASSUME NEW i \in 1 .. N, NEW j \in 1 .. N, i < j, msgs[i].role # "tool", msgs[j].role # "tool"
       PROVE  head[i] < head[j]
  <2>1. len[i] >= 1 /\ start[i] + len[i] <= start[j]  BY <1>16, <1>17, <1>18
  <2>2. QED  BY <2>1, <1>13
<1>19. ASSUME NEW p \in 1 .. n
       PROVE  \/ \E i \in 1 .. N : msgs[i].role # "tool" /\ p = head[i]
              \/ Made(chat[p])
  <2>1. PICK i \in 1 .. N : \E q \in 1 .. len[i] : p = start[i] + q  BY <1>15
  <2>2. PICK q \in 1 .. len[i] : p = start[i] + q  BY <2>1
  <2>3. chat[p] = blocks[i][q]  BY <2>2, <1>14
  <2>4. (q = 1 /\ msgs[i].role # "tool") \/ Made(blocks[i][q])
    BY <1>6, <1>13 DEF BlockSound
  <2>5. QED  BY <2>2, <2>3, <2>4, <1>13
<1>20. ASSUME NEW i \in 1 .. N, NEW x,
              \E p \in 1 .. len[i] : blocks[i][p].role = "tool" /\ blocks[i][p].n = x
       PROVE  \E p \in 1 .. n : chat[p].role = "tool" /\ chat[p].n = x
  <2>1. PICK q \in 1 .. len[i] : blocks[i][q].role = "tool" /\ blocks[i][q].n = x  BY <1>20
  <2>2. start[i] + q \in 1 .. n /\ chat[start[i] + q] = blocks[i][q]  BY <1>13, <1>14
  <2>3. QED  BY <2>1, <2>2
<1>21. ASSUME NEW i \in 1 .. N, msgs[i].role = "tool"
       PROVE  \E p \in 1 .. n : chat[p].role = "tool" /\ chat[p].n = msgs[i].n
  <2>1. CASE InRun(msgs, i)
    <3>1. PICK a \in 1 .. i - 1 : HasCalls(msgs, a) /\ i \in Run(msgs, a)
      BY <2>1 DEF InRun
    <3>2. a \in 1 .. N  OBVIOUS
    <3>3. \E p \in 1 .. len[a] : blocks[a][p].role = "tool" /\ blocks[a][p].n = msgs[i].n
      BY <3>1, <3>2, <1>6, <1>13 DEF BlockSound
    <3>4. QED  BY <3>2, <3>3, <1>20
  <2>2. CASE ~InRun(msgs, i)
    <3>1. \E p \in 1 .. len[i] : blocks[i][p].role = "tool" /\ blocks[i][p].n = msgs[i].n
      BY <2>2, <1>21, <1>6, <1>13 DEF BlockSound
    <3>2. QED  BY <3>1, <1>20
  <2>3. QED  BY <2>1, <2>2
<1>22. ASSUME NEW i \in 1 .. N, HasCalls(msgs, i), NEW j \in Run(chat, head[i]), chat[j].n = -1,
              NEW t \in Run(msgs, i)
       PROVE  msgs[t].call # chat[j].call
  <2>1. msgs[i].role # "tool"
    BY <1>22 DEF WellFormed, HasCalls
  <2>2. len[i] >= 1 /\ head[i] = start[i] + 1 /\ start[i] \in Nat /\ len[i] \in Nat
    BY <2>1, <1>17, <1>13
  <2>3. j \in 1 .. n /\ j > head[i] /\ \A k \in head[i] + 1 .. j : chat[k].role = "tool"
    BY <1>12 DEF Run
  <2>4. j <= start[i] + len[i]
    <3>1. SUFFICES ASSUME j > start[i] + len[i] PROVE FALSE  BY <2>2, <2>3
    <3> DEFINE p == (start[i] + len[i]) + 1
    <3>2. p \in 1 .. n /\ p \in head[i] + 1 .. j /\ p \in Nat  BY <3>1, <2>2, <2>3
    <3>3. PICK a \in 1 .. N : \E q \in 1 .. len[a] : p = start[a] + q  BY <3>2, <1>15
    <3>4. PICK q \in 1 .. len[a] : p = start[a] + q  BY <3>3
    <3>5. /\ start[a] \in Nat /\ len[a] \in Nat /\ (a < i => start[a] + len[a] <= start[i])
          /\ (i < a => start[i] + len[i] <= start[a])
      BY <1>13, <1>16
    <3>6. q = 1
      <4>1. CASE a < i  BY <4>1, <3>4, <3>5, <2>2
      <4>2. CASE a = i  BY <4>2, <3>4, <3>5, <2>2
      <4>3. CASE i < a
        <5>1. PICK s, u \in Nat : s = start[a] /\ u = start[i] + len[i]  BY <3>5, <2>2
        <5>2. u + 1 = s + q /\ u <= s  BY <5>1, <4>3, <3>4, <3>5
        <5>3. QED  BY <5>1, <5>2
      <4>4. QED  BY <4>1, <4>2, <4>3
    <3>7. chat[p] = blocks[a][1] /\ 1 \in 1 .. len[a]  BY <3>4, <3>6, <1>14
    <3>8. chat[p].role = "tool"  BY <3>2, <2>3
    <3>9. blocks[a] # <<>>
      <4>1. Len(blocks[a]) # 0  BY <3>7, <1>13
      <4>2. QED  BY <4>1
    <3>10. blocks[a][1].role # "tool"  BY <3>9, <1>6 DEF BlockSound
    <3>11. QED  BY <3>7, <3>8, <3>10
  <2>5. PICK q \in 1 .. len[i] : j = start[i] + q /\ q > 1
    <3>1. j - start[i] \in 1 .. len[i] /\ j = start[i] + (j - start[i]) /\ j - start[i] > 1
      BY <2>2, <2>3, <2>4
    <3>2. QED  BY <3>1
  <2>6. DOMAIN blocks[i] = 1 .. len[i]  BY <1>7, <1>13
  <2>7. \A k \in 1 + 1 .. q : blocks[i][k].role = "tool"
    <3>1. TAKE k \in 1 + 1 .. q
    <3>2. k \in 1 .. len[i] /\ start[i] + k \in head[i] + 1 .. j  BY <2>2, <2>5
    <3>3. chat[start[i] + k] = blocks[i][k] /\ chat[start[i] + k].role = "tool"
      BY <3>2, <1>14, <2>3
    <3>4. QED  BY <3>3
  <2>8. q \in Run(blocks[i], 1)  BY <2>5, <2>6, <2>7 DEF Run
  <2>9. chat[j] = blocks[i][q]  BY <2>5, <1>14
  <2>10. blocks[i][q].n = -1  BY <2>9, <1>22
  <2>11. \A x \in Run(msgs, i) : msgs[x].call # blocks[i][q].call
    BY <2>8, <2>10, <1>22, <1>6 DEF BlockSound
  <2>12. QED  BY <2>9, <2>11
<1>23. Repairs(chat, msgs, head)
  BY <1>3, <1>9, <1>11, <1>12, <1>17, <1>18, <1>19, <1>21, <1>22 DEF Repairs
<1>24. QED  BY <1>1, <1>23

-----------------------------------------------------------------------------
(* Numbers in rows 0 to L: what is pending is row 0, what message i has is   *)
(* row i.  A number that is in one place, or in none, remains so when the    *)
(* pending row is moved or poured into another.                              *)
At(g, L, i, c, n) == i \in 0 .. L /\ c \in 1 .. Len(g[i]) /\ g[i][c] = n

OnceIn(g, L, n) ==
    \E i \in 0 .. L : \E c \in 1 .. Len(g[i]) :
      At(g, L, i, c, n) /\ \A j, d : At(g, L, j, d, n) => j = i /\ d = c

NeverIn(g, L, n) == \A i, c : ~At(g, L, i, c, n)

RowsKept(g, L, h, M) ==
    \A n : /\ OnceIn(g, L, n) => OnceIn(h, M, n)
           /\ NeverIn(g, L, n) => NeverIn(h, M, n)

Rows(g, L) == \A i \in 0 .. L : g[i] \in Seq(Int)

LEMMA RowsMoved ==
  ASSUME NEW L \in Nat, NEW g, NEW h, Rows(g, L),
         h[0] = <<>>, h[L + 1] = g[0], \A i \in 1 .. L : h[i] = g[i]
  PROVE  Rows(h, L + 1) /\ RowsKept(g, L, h, L + 1)
<1> DEFINE to(i) == IF i = 0 THEN L + 1 ELSE i
<1>1. Rows(h, L + 1)
  <2>1. SUFFICES ASSUME NEW i \in 0 .. L + 1 PROVE h[i] \in Seq(Int)  BY DEF Rows
  <2>2. i = 0 \/ i = L + 1 \/ i \in 1 .. L  OBVIOUS
  <2>3. \A x \in 0 .. L : g[x] \in Seq(Int)  BY DEF Rows
  <2>4. CASE i = 0
    <3>1. h[i] = <<>>  BY <2>4
    <3>2. <<>> \in Seq(Int)  OBVIOUS
    <3>3. QED  BY <3>1, <3>2
  <2>5. CASE i = L + 1
    <3>1. 0 \in 0 .. L  OBVIOUS
    <3>2. QED  BY <2>5, <2>3, <3>1
  <2>6. CASE i \in 1 .. L
    <3>1. i \in 0 .. L /\ h[i] = g[i]  BY <2>6
    <3>2. g[i] \in Seq(Int)  BY <2>3, <3>1
    <3>3. QED  BY <3>1, <3>2
  <2>7. QED  BY <2>2, <2>4, <2>5, <2>6
<1>2. ASSUME NEW i, NEW c, NEW n, At(g, L, i, c, n)
      PROVE  At(h, L + 1, to(i), c, n)
  <2>1. i \in 0 .. L /\ c \in 1 .. Len(g[i]) /\ g[i][c] = n  BY <1>2 DEF At
  <2>2. h[to(i)] = g[i] /\ to(i) \in 0 .. L + 1
    <3>1. CASE i = 0  BY <3>1
    <3>2. CASE i # 0
      <4>1. i \in 1 .. L  BY <3>2, <2>1
      <4>2. QED  BY <4>1, <3>2
    <3>3. QED  BY <3>1, <3>2
  <2> HIDE DEF to
  <2>3. QED  BY <2>1, <2>2 DEF At
<1>3. ASSUME NEW j, NEW d, NEW n, At(h, L + 1, j, d, n)
      PROVE  \E i : At(g, L, i, d, n) /\ j = to(i)
  <2>1. j \in 0 .. L + 1 /\ d \in 1 .. Len(h[j]) /\ h[j][d] = n  BY <1>3 DEF At
  <2>2. j # 0  BY <2>1
  <2>3. CASE j = L + 1
    <3>1. h[j] = g[0] /\ 0 \in 0 .. L  BY <2>3
    <3>2. At(g, L, 0, d, n)  BY <2>1, <3>1 DEF At
    <3>3. QED  BY <3>2, <2>3
  <2>4. CASE j \in 1 .. L
    <3>1. h[j] = g[j] /\ j \in 0 .. L  BY <2>4
    <3>2. At(g, L, j, d, n)  BY <2>1, <3>1 DEF At
    <3>3. QED  BY <3>2, <2>2
  <2>5. QED  BY <2>1, <2>2, <2>3, <2>4
<1> HIDE DEF to
<1>4. ASSUME NEW n, NeverIn(g, L, n) PROVE NeverIn(h, L + 1, n)
  BY <1>3, <1>4 DEF NeverIn
<1>5. ASSUME NEW n, OnceIn(g, L, n) PROVE OnceIn(h, L + 1, n)
  <2>1. PICK i, c : At(g, L, i, c, n) /\ \A j, d : At(g, L, j, d, n) => j = i /\ d = c
    BY <1>5 DEF OnceIn
  <2>2. At(h, L + 1, to(i), c, n)  BY <2>1, <1>2
  <2>3. \A j, d : At(h, L + 1, j, d, n) => j = to(i) /\ d = c
    BY <2>1, <1>3
  <2>4. to(i) \in 0 .. L + 1 /\ c \in 1 .. Len(h[to(i)])  BY <2>2 DEF At
  <2>5. QED  BY <2>2, <2>3, <2>4 DEF OnceIn
<1>6. QED  BY <1>1, <1>4, <1>5 DEF RowsKept

LEMMA RowsStretched ==
  ASSUME NEW L \in Nat, NEW g, NEW h, Rows(g, L),
         h[L + 1] = <<>>, \A i \in 0 .. L : h[i] = g[i]
  PROVE  Rows(h, L + 1) /\ RowsKept(g, L, h, L + 1)
<1>1. \A i \in 0 .. L + 1 : i = L + 1 \/ i \in 0 .. L  OBVIOUS
<1>2. Rows(h, L + 1)
  <2>1. <<>> \in Seq(Int)  OBVIOUS
  <2>2. QED  BY <1>1, <2>1 DEF Rows
<1>3. ASSUME NEW i, NEW c, NEW n PROVE At(h, L + 1, i, c, n) <=> At(g, L, i, c, n)
  <2>1. ASSUME At(h, L + 1, i, c, n) PROVE At(g, L, i, c, n)
    <3>1. i \in 0 .. L + 1 /\ c \in 1 .. Len(h[i]) /\ h[i][c] = n  BY <2>1 DEF At
    <3>2. i # L + 1  BY <3>1
    <3>3. i \in 0 .. L  BY <3>1, <3>2
    <3>4. QED  BY <3>1, <3>3 DEF At
  <2>2. ASSUME At(g, L, i, c, n) PROVE At(h, L + 1, i, c, n)
    <3>1. i \in 0 .. L /\ c \in 1 .. Len(g[i]) /\ g[i][c] = n  BY <2>2 DEF At
    <3>2. i \in 0 .. L + 1  BY <3>1
    <3>3. QED  BY <3>1, <3>2 DEF At
  <2>3. QED  BY <2>1, <2>2
<1>4. ASSUME NEW n, OnceIn(g, L, n) PROVE OnceIn(h, L + 1, n)
  <2>1. PICK i, c : At(g, L, i, c, n) /\ \A j, d : At(g, L, j, d, n) => j = i /\ d = c
    BY <1>4 DEF OnceIn
  <2>2. At(h, L + 1, i, c, n) /\ \A j, d : At(h, L + 1, j, d, n) => j = i /\ d = c
    BY <2>1, <1>3
  <2>3. i \in 0 .. L + 1 /\ c \in 1 .. Len(h[i])  BY <2>2 DEF At
  <2>4. QED  BY <2>2, <2>3 DEF OnceIn
<1>5. ASSUME NEW n, NeverIn(g, L, n) PROVE NeverIn(h, L + 1, n)
  BY <1>3, <1>5 DEF NeverIn
<1>6. QED  BY <1>2, <1>4, <1>5 DEF RowsKept

(* One more number is pending: others stay where they are, and it is in one  *)
(* place if it was in none.                                                  *)
LEMMA RowsAdded ==
  ASSUME NEW L \in Nat, NEW g, NEW h, Rows(g, L), NEW x \in Int,
         h[0] = Append(g[0], x), \A i \in 1 .. L : h[i] = g[i]
  PROVE  /\ Rows(h, L)
         /\ \A n : n # x => /\ OnceIn(g, L, n) => OnceIn(h, L, n)
                            /\ NeverIn(g, L, n) => NeverIn(h, L, n)
         /\ NeverIn(g, L, x) => OnceIn(h, L, x)
<1>0. \A i \in 0 .. L : g[i] \in Seq(Int)  BY DEF Rows
<1>1. PICK l \in Nat : l = Len(g[0])
  <2>1. 0 \in 0 .. L  OBVIOUS
  <2>2. QED  BY <1>0, <2>1
<1>2. /\ h[0] \in Seq(Int) /\ Len(h[0]) = l + 1 /\ h[0][l + 1] = x
      /\ \A c \in 1 .. l : h[0][c] = g[0][c]
  <2>1. g[0] \in Seq(Int)
    <3>1. 0 \in 0 .. L  OBVIOUS
    <3>2. QED  BY <1>0, <3>1
  <2>2. QED  BY <2>1, <1>1
<1>3. \A i \in 0 .. L : i = 0 \/ i \in 1 .. L  OBVIOUS
<1>4. Rows(h, L)  BY <1>0, <1>2, <1>3 DEF Rows
<1>5. ASSUME NEW i, NEW c, NEW n, At(g, L, i, c, n) PROVE At(h, L, i, c, n)
  <2>1. i \in 0 .. L /\ c \in 1 .. Len(g[i]) /\ g[i][c] = n  BY <1>5 DEF At
  <2>2. c \in 1 .. Len(h[i]) /\ h[i][c] = n
    <3>1. CASE i = 0
      <4>1. c \in 1 .. l /\ g[0][c] = n  BY <3>1, <2>1, <1>1
      <4>2. c \in 1 .. Len(h[0]) /\ h[0][c] = n  BY <4>1, <1>2
      <4>3. QED  BY <4>2, <3>1
    <3>2. CASE i \in 1 .. L  BY <3>2, <2>1
    <3>3. QED  BY <3>1, <3>2, <2>1, <1>3
  <2>3. QED  BY <2>1, <2>2 DEF At
<1>6. ASSUME NEW i, NEW c, NEW n, At(h, L, i, c, n)
      PROVE  At(g, L, i, c, n) \/ (n = x /\ i = 0 /\ c = l + 1)
  <2>1. i \in 0 .. L /\ c \in 1 .. Len(h[i]) /\ h[i][c] = n  BY <1>6 DEF At
  <2>2. CASE i = 0
    <3>1. c \in 1 .. l + 1  BY <2>1, <2>2, <1>2
    <3>2. CASE c = l + 1  BY <3>2, <2>1, <2>2, <1>2
    <3>3. CASE c \in 1 .. l
      <4>1. c \in 1 .. Len(g[i]) /\ g[i][c] = n  BY <3>3, <2>1, <2>2, <1>1, <1>2
      <4>2. QED  BY <4>1, <2>1 DEF At
    <3>4. QED  BY <3>1, <3>2, <3>3
  <2>3. CASE i \in 1 .. L  BY <2>3, <2>1 DEF At
  <2>4. QED  BY <2>1, <2>2, <2>3, <1>3
<1>7. ASSUME NEW n, n # x, OnceIn(g, L, n) PROVE OnceIn(h, L, n)
  <2>1. PICK i, c : At(g, L, i, c, n) /\ \A j, d : At(g, L, j, d, n) => j = i /\ d = c
    BY <1>7 DEF OnceIn
  <2>2. At(h, L, i, c, n)  BY <2>1, <1>5
  <2>3. \A j, d : At(h, L, j, d, n) => j = i /\ d = c
    BY <2>1, <1>6, <1>7
  <2>4. i \in 0 .. L /\ c \in 1 .. Len(h[i])  BY <2>2 DEF At
  <2>5. QED  BY <2>2, <2>3, <2>4 DEF OnceIn
<1>8. ASSUME NEW n, n # x, NeverIn(g, L, n) PROVE NeverIn(h, L, n)
  BY <1>6, <1>8 DEF NeverIn
<1>9. ASSUME NeverIn(g, L, x) PROVE OnceIn(h, L, x)
  <2>1. 0 \in 0 .. L /\ l + 1 \in 1 .. Len(h[0])  BY <1>2
  <2>2. At(h, L, 0, l + 1, x)  BY <2>1, <1>2 DEF At
  <2>3. \A j, d : At(h, L, j, d, x) => j = 0 /\ d = l + 1
    BY <1>6, <1>9 DEF NeverIn
  <2>4. QED  BY <2>1, <2>2, <2>3 DEF OnceIn
<1>10. QED  BY <1>4, <1>7, <1>8, <1>9

(* The pending numbers are put behind those of row a.                        *)
LEMMA RowsPoured ==
  ASSUME NEW L \in Nat, NEW g, NEW h, Rows(g, L), NEW a \in 1 .. L,
         h[0] = <<>>, h[a] = g[a] \o g[0], \A i \in 1 .. L : i # a => h[i] = g[i]
  PROVE  Rows(h, L) /\ RowsKept(g, L, h, L)
<1>0. \A i \in 0 .. L : g[i] \in Seq(Int)  BY DEF Rows
<1>1. 0 \in 0 .. L /\ a \in 0 .. L /\ a # 0  OBVIOUS
<1>2. PICK la, lz \in Nat : la = Len(g[a]) /\ lz = Len(g[0])  BY <1>0, <1>1
<1> DEFINE w == h[a]
           u == g[a]
           v == g[0]
<1>3. /\ w \in Seq(Int) /\ Len(w) = la + lz
      /\ \A c \in 1 .. la : w[c] = u[c]
      /\ \A c \in 1 .. lz : w[la + c] = v[c]
  <2>1. u \in Seq(Int) /\ v \in Seq(Int) /\ w = u \o v /\ la = Len(u) /\ lz = Len(v)
    BY <1>0, <1>1, <1>2
  <2> HIDE DEF u, v, w
  <2>2. QED  BY <2>1
<1>4. h[a] = w /\ g[a] = u /\ g[0] = v  OBVIOUS
<1> HIDE DEF u, v, w
<1>5. \A i \in 0 .. L : i = 0 \/ i = a \/ (i \in 1 .. L /\ i # a)  OBVIOUS
<1>6. Rows(h, L)
  <2>1. SUFFICES ASSUME NEW i \in 0 .. L PROVE h[i] \in Seq(Int)  BY DEF Rows
  <2>2. CASE i = 0
    <3>1. h[i] = <<>>  BY <2>2
    <3>2. <<>> \in Seq(Int)  OBVIOUS
    <3>3. QED  BY <3>1, <3>2
  <2>3. CASE i = a  BY <2>3, <1>3, <1>4
  <2>4. CASE i \in 1 .. L /\ i # a
    <3>1. h[i] = g[i]  BY <2>4
    <3>2. g[i] \in Seq(Int)  BY <1>0
    <3>3. QED  BY <3>1, <3>2
  <2>5. QED  BY <1>5, <2>2, <2>3, <2>4
<1> DEFINE row(i) == IF i = 0 THEN a ELSE i
           col(i, c) == IF i = 0 THEN la + c ELSE c
<1>7. ASSUME NEW i, NEW c, NEW n, At(g, L, i, c, n)
      PROVE  At(h, L, row(i), col(i, c), n)
  <2>1. i \in 0 .. L /\ c \in 1 .. Len(g[i]) /\ g[i][c] = n  BY <1>7 DEF At
  <2>2. CASE i = 0
    <3>1. c \in 1 .. lz /\ v[c] = n  BY <2>1, <2>2, <1>2, <1>4
    <3>2. la + c \in 1 .. Len(w) /\ w[la + c] = n  BY <3>1, <1>3
    <3>3. At(h, L, a, la + c, n)  BY <3>2, <1>1, <1>4 DEF At
    <3>4. QED  BY <3>3, <2>2
  <2>3. CASE i = a
    <3>1. c \in 1 .. la /\ u[c] = n  BY <2>1, <2>3, <1>2, <1>4
    <3>2. c \in 1 .. Len(w) /\ w[c] = n  BY <3>1, <1>3
    <3>3. At(h, L, a, c, n)  BY <3>2, <1>1, <1>4 DEF At
    <3>4. QED  BY <3>3, <2>3, <1>1
  <2>4. CASE i \in 1 .. L /\ i # a
    <3>1. h[i] = g[i]  BY <2>4
    <3>2. At(h, L, i, c, n)  BY <2>1, <3>1 DEF At
    <3>3. QED  BY <3>2, <2>4
  <2>5. QED  BY <2>1, <1>5, <2>2, <2>3, <2>4
<1>8. ASSUME NEW j, NEW d, NEW n, At(h, L, j, d, n)
      PROVE  \E i, c : At(g, L, i, c, n) /\ j = row(i) /\ d = col(i, c)
  <2>1. j \in 0 .. L /\ d \in 1 .. Len(h[j]) /\ h[j][d] = n  BY <1>8 DEF At
  <2>2. j # 0  BY <2>1
  <2>3. CASE j = a
    <3>1. d \in 1 .. la + lz /\ w[d] = n  BY <2>1, <2>3, <1>3, <1>4
    <3>2. CASE d \in 1 .. la
      <4>1. At(g, L, a, d, n)  BY <3>1, <3>2, <1>1, <1>2, <1>3, <1>4 DEF At
      <4>2. QED  BY <4>1, <2>3, <1>1
    <3>3. CASE d > la
      <4>1. PICK c \in 1 .. lz : d = la + c
        <5>1. d - la \in 1 .. lz /\ d = la + (d - la)  BY <3>1, <3>3
        <5>2. QED  BY <5>1
      <4>2. v[c] = n  BY <3>1, <4>1, <1>3
      <4>3. At(g, L, 0, c, n)  BY <4>2, <1>1, <1>2, <1>4 DEF At
      <4>4. QED  BY <4>1, <4>3, <2>3
    <3>4. QED  BY <3>1, <3>2, <3>3
  <2>4. CASE j # a
    <3>1. j \in 1 .. L /\ h[j] = g[j]  BY <2>1, <2>2, <2>4
    <3>2. At(g, L, j, d, n)  BY <2>1, <3>1 DEF At
    <3>3. QED  BY <3>2, <2>2
  <2>5. QED  BY <2>3, <2>4
<1> HIDE DEF row, col
<1>9. ASSUME NEW n, NeverIn(g, L, n) PROVE NeverIn(h, L, n)
  BY <1>8, <1>9 DEF NeverIn
<1>10. ASSUME NEW n, OnceIn(g, L, n) PROVE OnceIn(h, L, n)
  <2>1. PICK i, c : At(g, L, i, c, n) /\ \A j, d : At(g, L, j, d, n) => j = i /\ d = c
    BY <1>10 DEF OnceIn
  <2> DEFINE y == row(i)
             z == col(i, c)
  <2>2. At(h, L, y, z, n)  BY <2>1, <1>7
  <2>3. \A j, d : At(h, L, j, d, n) => j = y /\ d = z
    BY <2>1, <1>8
  <2> HIDE DEF y, z
  <2>4. y \in 0 .. L /\ z \in 1 .. Len(h[y])  BY <2>2 DEF At
  <2>5. QED  BY <2>2, <2>3, <2>4 DEF OnceIn
<1>11. QED  BY <1>6, <1>9, <1>10 DEF RowsKept

-----------------------------------------------------------------------------
(* What the mapping has collected of the items so far.                       *)
It  == [type : ItemTypes, call : Int, id : Int, image : BOOLEAN, n : Int]
Acc == [out : Seq(Msg), calls : Seq(Asks), why : Seq(Int), images : Seq(Int)]

LEMMA AccFields ==
  ASSUME NEW m \in Acc
  PROVE  /\ m.out \in Seq(Msg) /\ m.calls \in Seq(Asks)
         /\ m.why \in Seq(Int) /\ m.images \in Seq(Int)
BY DEF Acc

LEMMA ItFields ==
  ASSUME NEW it \in It
  PROVE  it.type \in ItemTypes /\ it.call \in Int /\ it.id \in Int /\ it.n \in Int
BY DEF It

(* A message of a role and a number, with some reasoning. *)
Plain(a, role, n, why) ==
    /\ a \in Msg /\ a.role = role /\ a.n = n /\ a.calls = <<>> /\ a.why = why

LEMMA MessagePlain ==
  ASSUME NEW role \in Roles, NEW n \in Int
  PROVE  Plain(Message(role, n), role, n, <<>>)
<1> DEFINE e == <<>>
<1>1. Message(role, n) = [role |-> role, n |-> n, call |-> 0, calls |-> e, why |-> e]
  BY DEF Message
<1>2. e \in Seq(Asks) /\ e \in Seq(Int)  OBVIOUS
<1> HIDE DEF e
<1>3. QED  BY <1>1, <1>2 DEF Plain, Msg, e

LEMMA MessageWhy ==
  ASSUME NEW role \in Roles, NEW n \in Int, NEW why \in Seq(Int)
  PROVE  Plain([Message(role, n) EXCEPT !.why = why], role, n, why)
<1> DEFINE a == Message(role, n)
           b == [a EXCEPT !.why = why]
<1>1. Plain(a, role, n, <<>>)  BY MessagePlain
<1> HIDE DEF a
<1>2. b \in Msg /\ b.role = a.role /\ b.n = a.n /\ b.calls = a.calls /\ b.why = why
  BY <1>1 DEF Plain, Msg
<1> HIDE DEF b
<1>3. Plain(b, role, n, why)  BY <1>1, <1>2 DEF Plain
<1>4. QED  BY <1>3 DEF b, a

FlushedCalls(m, f) ==
    /\ f \in Acc /\ f.images = m.images /\ f.calls = <<>>
    /\ \/ m.calls = <<>> /\ f = m
       \/ /\ m.calls # <<>> /\ f.why = <<>>
          /\ \E a \in Msg : /\ f.out = Append(m.out, a)
                            /\ a.role = "assistant" /\ a.n = 0 /\ a.calls = m.calls /\ a.why = m.why

FlushedImages(m, f) ==
    /\ f \in Acc /\ f.images = <<>> /\ f.calls = m.calls /\ f.why = m.why
    /\ \/ m.images = <<>> /\ f = m
       \/ \E a : f.out = Append(m.out, a) /\ Plain(a, "pictures", 0, m.images)

LEMMA FlushCallsFields ==
  ASSUME NEW m \in Acc
  PROVE  FlushedCalls(m, FlushCalls(m))
<1>1. CASE m.calls = <<>>
  <2>1. FlushCalls(m) = m  BY <1>1 DEF FlushCalls
  <2>2. QED  BY <2>1, <1>1 DEF FlushedCalls
<1>2. CASE m.calls # <<>>
  <2> DEFINE b == Message("assistant", 0)
             a == [b EXCEPT !.calls = m.calls, !.why = m.why]
             e == <<>>
             f == [m EXCEPT !.out = Append(@, a), !.calls = e, !.why = e]
             o == Append(m.out, a)
  <2>1. FlushCalls(m) = f  BY <1>2 DEF FlushCalls
  <2>2. m.out \in Seq(Msg) /\ m.calls \in Seq(Asks) /\ m.why \in Seq(Int) /\ m.images \in Seq(Int)
    BY AccFields
  <2>3. Plain(b, "assistant", 0, <<>>)
    <3>1. "assistant" \in Roles  BY DEF Roles
    <3>2. QED  BY <3>1, MessagePlain
  <2> HIDE DEF b
  <2>4. a \in Msg /\ a.role = "assistant" /\ a.n = 0 /\ a.calls = m.calls /\ a.why = m.why
    <3> DEFINE z == [b EXCEPT !.calls = m.calls]
    <3>1. b \in Msg  BY <2>3 DEF Plain
    <3>2. z \in Msg /\ z.role = b.role /\ z.n = b.n /\ z.calls = m.calls
      BY <3>1, <2>2 DEF Msg
    <3>3. a = [z EXCEPT !.why = m.why]  BY <3>1 DEF Msg
    <3> HIDE DEF z
    <3>4. /\ [z EXCEPT !.why = m.why] \in Msg
          /\ [z EXCEPT !.why = m.why].role = z.role /\ [z EXCEPT !.why = m.why].n = z.n
          /\ [z EXCEPT !.why = m.why].calls = z.calls /\ [z EXCEPT !.why = m.why].why = m.why
      BY <3>2, <2>2 DEF Msg
    <3>5. QED  BY <3>2, <3>3, <3>4, <2>3 DEF Plain
  <2> HIDE DEF a
  <2>5. o \in Seq(Msg) /\ e \in Seq(Asks) /\ e \in Seq(Int)  BY <2>2, <2>4
  <2>6. f = [m EXCEPT !.out = o, !.calls = e, !.why = e]  OBVIOUS
  <2> HIDE DEF e, o, f
  <2>7. f = [out |-> o, calls |-> e, why |-> e, images |-> m.images]
    BY <2>6 DEF Acc
  <2>8. f.out = o /\ f.calls = e /\ f.why = e /\ f.images = m.images  BY <2>7
  <2>9. f \in Acc  BY <2>2, <2>5, <2>7 DEF Acc
  <2>10. FlushedCalls(m, f)
    <3>1. o = Append(m.out, a) /\ e = <<>>  BY DEF o, e
    <3> HIDE DEF o, e
    <3>2. QED  BY <3>1, <2>4, <2>8, <2>9, <1>2 DEF FlushedCalls
  <2>11. QED  BY <2>1, <2>10
<1>3. QED  BY <1>1, <1>2

LEMMA FlushImagesFields ==
  ASSUME NEW m \in Acc
  PROVE  FlushedImages(m, FlushImages(m))
<1>1. CASE m.images = <<>>
  <2>1. FlushImages(m) = m  BY <1>1 DEF FlushImages
  <2>2. QED  BY <2>1, <1>1 DEF FlushedImages
<1>2. CASE m.images # <<>>
  <2> DEFINE a == [Message("pictures", 0) EXCEPT !.why = m.images]
             e == <<>>
             o == Append(m.out, a)
             f == [m EXCEPT !.out = o, !.images = e]
  <2>1. FlushImages(m) = f  BY <1>2 DEF FlushImages
  <2>2. m.out \in Seq(Msg) /\ m.calls \in Seq(Asks) /\ m.why \in Seq(Int) /\ m.images \in Seq(Int)
    BY AccFields
  <2>3. Plain(a, "pictures", 0, m.images)
    <3>1. "pictures" \in Roles  BY DEF Roles
    <3>2. QED  BY <3>1, <2>2, MessageWhy
  <2> HIDE DEF a
  <2>4. o \in Seq(Msg) /\ e \in Seq(Int)  BY <2>2, <2>3 DEF Plain
  <2>5. o = Append(m.out, a) /\ e = <<>>  OBVIOUS
  <2>11. f = [m EXCEPT !.out = o, !.images = e]  OBVIOUS
  <2> HIDE DEF o, e, f
  <2>6. f = [out |-> o, calls |-> m.calls, why |-> m.why, images |-> e]
    BY <2>11 DEF Acc
  <2>7. f.out = o /\ f.calls = m.calls /\ f.why = m.why /\ f.images = e  BY <2>6
  <2>8. f \in Acc  BY <2>2, <2>4, <2>6 DEF Acc
  <2>9. FlushedImages(m, f)  BY <2>3, <2>5, <2>7, <2>8 DEF FlushedImages
  <2>10. QED  BY <2>1, <2>9
<1>3. QED  BY <1>1, <1>2

(* An item's message comes behind the others; why is what reasoning is left. *)
Said(b, f, a, why) ==
    /\ f \in Acc /\ a \in Msg /\ f.out = Append(b.out, a)
    /\ f.calls = b.calls /\ f.images = b.images /\ f.why = why

Reasoned(b, f, n) ==
    /\ f \in Acc /\ f.out = b.out /\ f.calls = b.calls /\ f.images = b.images
    /\ f.why = Append(b.why, n)

Called(b, f, it) ==
    /\ f \in Acc /\ f.out = b.out /\ f.why = b.why /\ f.images = b.images
    /\ \E c \in Asks : c.n = it.n /\ f.calls = Append(b.calls, c)

Returned(b, f, it) ==
    /\ f \in Acc /\ f.calls = b.calls /\ f.why = b.why
    /\ \E a \in Msg : /\ f.out = Append(b.out, a)
                      /\ a.role = "tool" /\ a.n = it.n /\ a.call = Given(it) /\ a.calls = <<>>
    /\ it.image => f.images = Append(b.images, it.n)
    /\ ~it.image => f.images = b.images

LEMMA SaidFields ==
  ASSUME NEW b \in Acc, NEW a \in Msg
  PROVE  Said(b, [b EXCEPT !.out = Append(@, a)], a, b.why)
<1> DEFINE o == Append(b.out, a)
           f == [b EXCEPT !.out = Append(@, a)]
<1>1. b.out \in Seq(Msg) /\ b.calls \in Seq(Asks) /\ b.why \in Seq(Int) /\ b.images \in Seq(Int)
  BY AccFields
<1>2. o \in Seq(Msg) /\ o = Append(b.out, a)  BY <1>1
<1>3. f = [b EXCEPT !.out = o]  OBVIOUS
<1> HIDE DEF o, f
<1>4. f = [out |-> o, calls |-> b.calls, why |-> b.why, images |-> b.images]
  BY <1>3 DEF Acc
<1>5. f \in Acc  BY <1>1, <1>2, <1>4 DEF Acc
<1>6. f.out = o /\ f.calls = b.calls /\ f.why = b.why /\ f.images = b.images  BY <1>4
<1>7. Said(b, f, a, b.why)  BY <1>2, <1>5, <1>6 DEF Said
<1>8. QED  BY <1>7 DEF f

LEMMA ReasonedFields ==
  ASSUME NEW m \in Acc, NEW it \in It
  PROVE  \E b : FlushedImages(m, b) /\ Reasoned(b, AddReasoning(m, it), it.n)
<1> DEFINE b == FlushImages(m)
           n == it.n
           o == Append(b.why, n)
           f == [b EXCEPT !.why = Append(@, n)]
<1>1. FlushedImages(m, b)  BY FlushImagesFields
<1>2. AddReasoning(m, it) = f  BY DEF AddReasoning
<1>3. b \in Acc /\ n \in Int  BY <1>1, ItFields DEF FlushedImages
<1> HIDE DEF b, n
<1>4. b.out \in Seq(Msg) /\ b.calls \in Seq(Asks) /\ b.why \in Seq(Int) /\ b.images \in Seq(Int)
  BY <1>3, AccFields
<1>5. o \in Seq(Int) /\ o = Append(b.why, n)  BY <1>3, <1>4
<1>6. f = [b EXCEPT !.why = o]  OBVIOUS
<1> HIDE DEF o, f
<1>7. f = [out |-> b.out, calls |-> b.calls, why |-> o, images |-> b.images]
  BY <1>3, <1>6 DEF Acc
<1>8. f \in Acc  BY <1>4, <1>5, <1>7 DEF Acc
<1>9. f.out = b.out /\ f.calls = b.calls /\ f.why = o /\ f.images = b.images  BY <1>7
<1>10. Reasoned(b, f, n)  BY <1>5, <1>8, <1>9 DEF Reasoned
<1>11. QED  BY <1>1, <1>2, <1>10 DEF n

LEMMA CalledFields ==
  ASSUME NEW m \in Acc, NEW it \in It
  PROVE  \E b : FlushedImages(m, b) /\ Called(b, AddCall(m, it), it)
<1> DEFINE b == FlushImages(m)
           c == [call |-> Given(it), n |-> it.n]
           o == Append(b.calls, c)
           f == [b EXCEPT !.calls = Append(@, c)]
<1>1. FlushedImages(m, b)  BY FlushImagesFields
<1>2. AddCall(m, it) = f  BY DEF AddCall
<1>3. b \in Acc  BY <1>1 DEF FlushedImages
<1>4. c \in Asks /\ c.n = it.n
  <2>1. it.n \in Int /\ it.call \in Int /\ it.id \in Int  BY ItFields
  <2>2. QED  BY <2>1 DEF Asks, Given
<1> HIDE DEF b, c
<1>5. b.out \in Seq(Msg) /\ b.calls \in Seq(Asks) /\ b.why \in Seq(Int) /\ b.images \in Seq(Int)
  BY <1>3, AccFields
<1>6. o \in Seq(Asks) /\ o = Append(b.calls, c)  BY <1>4, <1>5
<1>7. f = [b EXCEPT !.calls = o]  OBVIOUS
<1> HIDE DEF o, f
<1>8. f = [out |-> b.out, calls |-> o, why |-> b.why, images |-> b.images]
  BY <1>3, <1>7 DEF Acc
<1>9. f \in Acc  BY <1>5, <1>6, <1>8 DEF Acc
<1>10. f.out = b.out /\ f.calls = o /\ f.why = b.why /\ f.images = b.images  BY <1>8
<1>11. Called(b, f, it)  BY <1>4, <1>6, <1>9, <1>10 DEF Called
<1>12. QED  BY <1>1, <1>2, <1>11

LEMMA ReturnedFields ==
  ASSUME NEW m \in Acc, NEW it \in It
  PROVE  \E b : FlushedCalls(m, b) /\ Returned(b, AddOutput(m, it), it)
<1> DEFINE b == FlushCalls(m)
           n == it.n
           a == [Message("tool", n) EXCEPT !.call = Given(it)]
           o == Append(b.out, a)
           g == IF it.image THEN Append(b.images, n) ELSE b.images
           f == [b EXCEPT !.images = IF it.image THEN Append(@, n) ELSE @, !.out = Append(@, a)]
<1>1. FlushedCalls(m, b)  BY FlushCallsFields
<1>2. AddOutput(m, it) = f  BY DEF AddOutput
<1>3. b \in Acc /\ n \in Int /\ Given(it) \in Int
  <2>1. b \in Acc  BY <1>1 DEF FlushedCalls
  <2>2. it.n \in Int /\ it.call \in Int /\ it.id \in Int  BY ItFields
  <2>3. QED  BY <2>1, <2>2 DEF Given
<1>4. a \in Msg /\ a.role = "tool" /\ a.n = n /\ a.call = Given(it) /\ a.calls = <<>>
  <2> DEFINE z == Message("tool", n)
             y == Given(it)
  <2>1. Plain(z, "tool", n, <<>>)
    <3>1. "tool" \in Roles  BY DEF Roles
    <3> HIDE DEF n
    <3>2. QED  BY <3>1, <1>3, MessagePlain
  <2>2. z \in Msg /\ y \in Int  BY <2>1, <1>3 DEF Plain
  <2>3. a = [z EXCEPT !.call = y]  OBVIOUS
  <2> HIDE DEF z, y, a
  <2>4. a \in Msg /\ a.role = z.role /\ a.n = z.n /\ a.call = y /\ a.calls = z.calls
    BY <2>2, <2>3, CallFields
  <2>5. QED  BY <2>1, <2>4 DEF Plain, y
<1> HIDE DEF b, n, a
<1>5. b.out \in Seq(Msg) /\ b.calls \in Seq(Asks) /\ b.why \in Seq(Int) /\ b.images \in Seq(Int)
  BY <1>3, AccFields
<1>6. o \in Seq(Msg) /\ o = Append(b.out, a)  BY <1>4, <1>5
<1>7. /\ g \in Seq(Int)
      /\ it.image => g = Append(b.images, n)
      /\ ~it.image => g = b.images
  <2>1. CASE it.image
    <3>1. g = Append(b.images, n)  BY <2>1
    <3>2. Append(b.images, n) \in Seq(Int)  BY <1>3, <1>5
    <3> HIDE DEF g
    <3>3. QED  BY <2>1, <3>1, <3>2
  <2>2. CASE ~it.image
    <3>1. g = b.images  BY <2>2
    <3> HIDE DEF g
    <3>2. QED  BY <2>2, <3>1, <1>5
  <2>3. QED  BY <2>1, <2>2
<1>8. f = [b EXCEPT !.images = g, !.out = o]  OBVIOUS
<1> HIDE DEF o, f, g
<1>9. f = [out |-> o, calls |-> b.calls, why |-> b.why, images |-> g]
  BY <1>3, <1>8 DEF Acc
<1>10. f \in Acc  BY <1>5, <1>6, <1>7, <1>9 DEF Acc
<1>11. f.out = o /\ f.calls = b.calls /\ f.why = b.why /\ f.images = g  BY <1>9
<1>12. Returned(b, f, it)
  <2>1. it.image => f.images = Append(b.images, it.n)  BY <1>7, <1>11 DEF n
  <2>2. ~it.image => f.images = b.images  BY <1>7, <1>11
  <2>3. a.n = it.n  BY <1>4 DEF n
  <2>4. QED  BY <2>1, <2>2, <2>3, <1>4, <1>6, <1>10, <1>11 DEF Returned
<1>13. QED  BY <1>1, <1>2, <1>12

LEMMA ImageCallFields ==
  ASSUME NEW m \in Acc, NEW it \in It
  PROVE  \E b, c, a : /\ FlushedCalls(m, b) /\ FlushedImages(b, c)
                      /\ Plain(a, "assistant", it.n, <<>>) /\ Said(c, AddImageCall(m, it), a, c.why)
<1> DEFINE b == FlushCalls(m)
           c == FlushImages(b)
           n == it.n
           a == Message("assistant", n)
           f == [c EXCEPT !.out = Append(@, a)]
<1>1. FlushedCalls(m, b)  BY FlushCallsFields
<1>2. AddImageCall(m, it) = f  BY DEF AddImageCall
<1>3. b \in Acc /\ n \in Int  BY <1>1, ItFields DEF FlushedCalls
<1>4. FlushedImages(b, c)
  <2> HIDE DEF b
  <2>1. QED  BY <1>3, FlushImagesFields
<1> HIDE DEF b, c
<1>5. c \in Acc  BY <1>4 DEF FlushedImages
<1>6. Plain(a, "assistant", n, <<>>)
  <2>1. "assistant" \in Roles  BY DEF Roles
  <2> HIDE DEF n
  <2>2. QED  BY <2>1, <1>3, MessagePlain
<1> HIDE DEF a
<1>7. Said(c, f, a, c.why)
  <2>1. a \in Msg  BY <1>6 DEF Plain
  <2>2. QED  BY <2>1, <1>5, SaidFields
<1> HIDE DEF f
<1>8. Plain(a, "assistant", it.n, <<>>)  BY <1>6 DEF n
<1>9. QED  BY <1>1, <1>2, <1>4, <1>7, <1>8

LEMMA MessageFields ==
  ASSUME NEW m \in Acc, NEW it \in It
  PROVE  \E b, c, a : /\ FlushedImages(m, b) /\ FlushedCalls(b, c)
                      /\ it.type = "assistant" => /\ Plain(a, "assistant", it.n, c.why)
                                                  /\ Said(c, AddMessage(m, it), a, <<>>)
                      /\ it.type # "assistant" =>
                           /\ Plain(a, "user", IF it.type = "user" THEN it.n ELSE 0, <<>>)
                           /\ Said(c, AddMessage(m, it), a, c.why)
<1> DEFINE b == FlushImages(m)
           c == FlushCalls(b)
           n == it.n
<1>1. FlushedImages(m, b)  BY FlushImagesFields
<1>2. b \in Acc /\ n \in Int  BY <1>1, ItFields DEF FlushedImages
<1>3. FlushedCalls(b, c)
  <2> HIDE DEF b
  <2>1. QED  BY <1>2, FlushCallsFields
<1>4. c \in Acc  BY <1>3 DEF FlushedCalls
<1>5. "assistant" \in Roles /\ "user" \in Roles  BY DEF Roles
<1>6. CASE it.type = "assistant"
  <2> DEFINE a == [Message("assistant", n) EXCEPT !.why = c.why]
             e == <<>>
             f == [c EXCEPT !.why = e, !.out = Append(@, a)]
             g == [c EXCEPT !.out = Append(@, a)]
  <2>1. AddMessage(m, it) = f  BY <1>6 DEF AddMessage
  <2> HIDE DEF b, c, n
  <2>2. c.out \in Seq(Msg) /\ c.calls \in Seq(Asks) /\ c.why \in Seq(Int) /\ c.images \in Seq(Int)
    BY <1>4, AccFields
  <2>3. Plain(a, "assistant", n, c.why)  BY <1>2, <1>5, <2>2, MessageWhy
  <2> HIDE DEF a
  <2>4. a \in Msg  BY <2>3 DEF Plain
  <2>5. Said(c, g, a, c.why)  BY <1>4, <2>4, SaidFields
  <2>6. f = [g EXCEPT !.why = e]  BY <1>4 DEF Acc
  <2>7. e = <<>> /\ e \in Seq(Int)  OBVIOUS
  <2> HIDE DEF e, f, g
  <2>8. g \in Acc  BY <2>5 DEF Said
  <2>9. g.out \in Seq(Msg) /\ g.calls \in Seq(Asks) /\ g.images \in Seq(Int)
    BY <2>8, AccFields
  <2>10. f = [out |-> g.out, calls |-> g.calls, why |-> e, images |-> g.images]
    BY <2>6, <2>8 DEF Acc
  <2>11. f \in Acc  BY <2>7, <2>9, <2>10 DEF Acc
  <2>12. f.out = g.out /\ f.calls = g.calls /\ f.why = e /\ f.images = g.images  BY <2>10
  <2>13. Said(c, f, a, e)  BY <2>5, <2>11, <2>12 DEF Said
  <2>14. Said(c, AddMessage(m, it), a, <<>>)  BY <2>1, <2>7, <2>13
  <2>15. Plain(a, "assistant", it.n, c.why)  BY <2>3 DEF n
  <2>16. QED  BY <1>1, <1>3, <1>6, <2>14, <2>15
<1>7. CASE it.type # "assistant"
  <2> DEFINE x == IF it.type = "user" THEN n ELSE 0
             a == Message("user", x)
             f == [c EXCEPT !.out = Append(@, a)]
  <2>1. AddMessage(m, it) = f  BY <1>7 DEF AddMessage
  <2>2. x \in Int  BY <1>2
  <2> HIDE DEF b, c, x
  <2>3. Plain(a, "user", x, <<>>)  BY <1>5, <2>2, MessagePlain
  <2> HIDE DEF a
  <2>4. a \in Msg  BY <2>3 DEF Plain
  <2>5. Said(c, f, a, c.why)  BY <1>4, <2>4, SaidFields
  <2> HIDE DEF f
  <2>6. Plain(a, "user", IF it.type = "user" THEN it.n ELSE 0, <<>>)  BY <2>3 DEF x, n
  <2>7. QED  BY <1>1, <1>3, <1>7, <2>1, <2>5, <2>6
<1>8. QED  BY <1>6, <1>7

-----------------------------------------------------------------------------
(* The numbers of calls and of reasoning, pending and in messages.           *)
Nums(s) == [c \in 1 .. Len(s) |-> s[c].n]

CallRows(m) ==
    [i \in 0 .. Len(m.out) |-> IF i = 0 THEN Nums(m.calls) ELSE Nums(m.out[i].calls)]

WhyRows(m) ==
    [i \in 0 .. Len(m.out) |->
       IF i = 0 THEN m.why ELSE IF m.out[i].role = "assistant" THEN m.out[i].why ELSE <<>>]

Heard(msg) == msg.role \in {"user", "assistant"} /\ msg.n > 0

Shown(m, n) ==
    \/ \E c \in 1 .. Len(m.images) : m.images[c] = n
    \/ \E i \in 1 .. Len(m.out) :
         m.out[i].role = "pictures" /\ \E c \in 1 .. Len(m.out[i].why) : m.out[i].why[c] = n

Carries(m) == m.calls # <<>> \/ \E i \in 1 .. Len(m.out) : m.out[i].role = "assistant"

OutKept(m, f) ==
    Len(m.out) <= Len(f.out) /\ \A i \in 1 .. Len(m.out) : f.out[i] = m.out[i]

(* What flushing keeps. *)
Flushed(m, f) ==
    /\ f \in Acc
    /\ WellFormed(m.out) => WellFormed(f.out)
    /\ RowsKept(CallRows(m), Len(m.out), CallRows(f), Len(f.out))
    /\ RowsKept(WhyRows(m), Len(m.out), WhyRows(f), Len(f.out))
    /\ OutKept(m, f) /\ \A i \in Len(m.out) + 1 .. Len(f.out) : ~Heard(f.out[i])
    /\ \A n : Shown(m, n) => Shown(f, n)
    /\ Carries(m) => Carries(f)

LEMMA NumsAre ==
  ASSUME NEW s \in Seq(Asks)
  PROVE  /\ Nums(s) \in Seq(Int) /\ Len(Nums(s)) = Len(s)
         /\ \A c \in 1 .. Len(s) : Nums(s)[c] = s[c].n
         /\ Nums(<<>>) = <<>>
         /\ \A x \in Asks : Nums(Append(s, x)) = Append(Nums(s), x.n)
<1>0. PICK l \in Nat : l = Len(s)  OBVIOUS
<1>1. \A c \in 1 .. l : s[c].n \in Int
  <2>1. \A c \in 1 .. l : s[c] \in Asks  BY <1>0, ElementOfSeq
  <2>2. QED  BY <2>1 DEF Asks
<1>2. Nums(s) = [c \in 1 .. l |-> s[c].n]  BY <1>0 DEF Nums
<1>3. Nums(s) \in [1 .. l -> Int]  BY <1>1, <1>2
<1>4. Nums(s) \in Seq(Int) /\ Len(Nums(s)) = l  BY <1>3
<1>5. \A c \in 1 .. l : Nums(s)[c] = s[c].n  BY <1>2
<1>6. Nums(<<>>) = <<>>
  <2>1. Len(<<>>) = 0  OBVIOUS
  <2>2. Nums(<<>>) = [c \in 1 .. 0 |-> <<>>[c].n]  BY <2>1 DEF Nums
  <2>3. 1 .. 0 = {}  OBVIOUS
  <2>4. QED  BY <2>2, <2>3
<1>7. ASSUME NEW x \in Asks PROVE Nums(Append(s, x)) = Append(Nums(s), x.n)
  <2> DEFINE z == Append(s, x)
             u == Append(Nums(s), x.n)
  <2>1. Len(z) = l + 1 /\ z[l + 1] = x /\ \A c \in 1 .. l : z[c] = s[c]  BY <1>0
  <2>2. x.n \in Int  BY DEF Asks
  <2>3. u \in Seq(Int) /\ Len(u) = l + 1 /\ u[l + 1] = x.n /\ \A c \in 1 .. l : u[c] = Nums(s)[c]
    BY <1>4, <2>2
  <2> HIDE DEF z, u
  <2>4. Nums(z) = [c \in 1 .. l + 1 |-> z[c].n]  BY <2>1 DEF Nums
  <2>5. u = [c \in 1 .. l + 1 |-> u[c]]  BY <2>3
  <2>6. \A c \in 1 .. l + 1 : z[c].n = u[c]
    <3>1. TAKE c \in 1 .. l + 1
    <3>2. CASE c = l + 1  BY <3>2, <2>1, <2>3
    <3>3. CASE c \in 1 .. l  BY <3>3, <2>1, <2>3, <1>5
    <3>4. QED  BY <3>2, <3>3
  <2>7. Nums(z) = u  BY <2>4, <2>5, <2>6
  <2>8. QED  BY <2>7 DEF z, u
<1>8. QED  BY <1>0, <1>4, <1>5, <1>6, <1>7

LEMMA RowsAre ==
  ASSUME NEW m \in Acc
  PROVE  /\ Rows(CallRows(m), Len(m.out)) /\ Rows(WhyRows(m), Len(m.out))
         /\ CallRows(m)[0] = Nums(m.calls) /\ WhyRows(m)[0] = m.why
         /\ \A i \in 1 .. Len(m.out) :
              /\ CallRows(m)[i] = Nums(m.out[i].calls)
              /\ WhyRows(m)[i] = IF m.out[i].role = "assistant" THEN m.out[i].why ELSE <<>>
<1>0. m.out \in Seq(Msg) /\ m.calls \in Seq(Asks) /\ m.why \in Seq(Int)  BY AccFields
<1>1. PICK L \in Nat : L = Len(m.out)  BY <1>0
<1>2. 0 \in 0 .. L /\ \A i \in 1 .. L : i \in 0 .. L /\ i # 0  OBVIOUS
<1>3. CallRows(m)[0] = Nums(m.calls) /\ WhyRows(m)[0] = m.why
  BY <1>1, <1>2 DEF CallRows, WhyRows
<1>4. \A i \in 1 .. L : /\ CallRows(m)[i] = Nums(m.out[i].calls)
                        /\ WhyRows(m)[i] = IF m.out[i].role = "assistant" THEN m.out[i].why ELSE <<>>
  BY <1>1, <1>2 DEF CallRows, WhyRows
<1>5. \A i \in 1 .. L : m.out[i].calls \in Seq(Asks) /\ m.out[i].why \in Seq(Int)
  <2>1. TAKE i \in 1 .. L
  <2>2. m.out[i] \in Msg  BY <1>0, <1>1, ElementOfSeq
  <2>3. QED  BY <2>2, MsgFields
<1>6. \A i \in 0 .. L : i = 0 \/ i \in 1 .. L  OBVIOUS
<1>7. Rows(CallRows(m), L)
  <2>1. \A s \in Seq(Asks) : Nums(s) \in Seq(Int)  BY NumsAre
  <2>2. SUFFICES ASSUME NEW i \in 0 .. L PROVE CallRows(m)[i] \in Seq(Int)  BY DEF Rows
  <2>3. CASE i = 0  BY <2>1, <2>3, <1>0, <1>3
  <2>4. CASE i \in 1 .. L  BY <2>1, <2>4, <1>4, <1>5
  <2>5. QED  BY <2>3, <2>4, <1>6
<1>8. Rows(WhyRows(m), L)
  <2>1. <<>> \in Seq(Int)  OBVIOUS
  <2>2. SUFFICES ASSUME NEW i \in 0 .. L PROVE WhyRows(m)[i] \in Seq(Int)  BY DEF Rows
  <2>3. CASE i = 0  BY <2>3, <1>0, <1>3
  <2>4. CASE i \in 1 .. L  BY <2>1, <2>4, <1>4, <1>5
  <2>5. QED  BY <2>3, <2>4, <1>6
<1>9. QED  BY <1>1, <1>3, <1>4, <1>7, <1>8

LEMMA RowsSame ==
  ASSUME NEW g, NEW L
  PROVE  RowsKept(g, L, g, L)
BY DEF RowsKept

(* One message more. *)
LEMMA OutAppended ==
  ASSUME NEW m \in Acc, NEW f \in Acc, NEW a \in Msg, f.out = Append(m.out, a)
  PROVE  /\ Len(m.out) \in Nat /\ Len(f.out) = Len(m.out) + 1 /\ f.out[Len(m.out) + 1] = a
         /\ \A i \in 1 .. Len(m.out) : f.out[i] = m.out[i]
         /\ OutKept(m, f)
         /\ \A i \in 1 .. Len(f.out) : i = Len(m.out) + 1 \/ i \in 1 .. Len(m.out)
<1> DEFINE u == m.out
           v == f.out
<1>1. u \in Seq(Msg) /\ v = Append(u, a)  BY AccFields
<1>2. u = m.out /\ v = f.out  OBVIOUS
<1> HIDE DEF u, v
<1>3. PICK l \in Nat : l = Len(u)  BY <1>1
<1>4. Len(v) = l + 1 /\ v[l + 1] = a /\ \A i \in 1 .. l : v[i] = u[i]  BY <1>1, <1>3
<1>5. \A i \in 1 .. l + 1 : i = l + 1 \/ i \in 1 .. l  OBVIOUS
<1>6. QED  BY <1>2, <1>3, <1>4, <1>5 DEF OutKept

(* How the rows change by one message. *)
LEMMA RowsAppended ==
  ASSUME NEW m \in Acc, NEW f \in Acc, NEW a \in Msg, f.out = Append(m.out, a)
  PROVE  /\ a.calls = m.calls /\ f.calls = <<>>
              => RowsKept(CallRows(m), Len(m.out), CallRows(f), Len(f.out))
         /\ a.calls = <<>> /\ f.calls = m.calls
              => RowsKept(CallRows(m), Len(m.out), CallRows(f), Len(f.out))
         /\ a.role = "assistant" /\ a.why = m.why /\ f.why = <<>>
              => RowsKept(WhyRows(m), Len(m.out), WhyRows(f), Len(f.out))
         /\ (a.role # "assistant" \/ a.why = <<>>) /\ f.why = m.why
              => RowsKept(WhyRows(m), Len(m.out), WhyRows(f), Len(f.out))
<1>1. PICK L \in Nat : L = Len(m.out)
  <2>1. m.out \in Seq(Msg)  BY AccFields
  <2>2. QED  BY <2>1
<1>2. /\ Len(f.out) = L + 1 /\ f.out[L + 1] = a
      /\ \A i \in 1 .. L : f.out[i] = m.out[i]
  BY <1>1, OutAppended
<1> DEFINE g == CallRows(m)
           h == CallRows(f)
           u == WhyRows(m)
           v == WhyRows(f)
<1>3. /\ Rows(g, L) /\ Rows(u, L) /\ g[0] = Nums(m.calls) /\ u[0] = m.why
      /\ \A i \in 1 .. L : /\ g[i] = Nums(m.out[i].calls)
                           /\ u[i] = IF m.out[i].role = "assistant" THEN m.out[i].why ELSE <<>>
  BY <1>1, RowsAre
<1>4. /\ h[0] = Nums(f.calls) /\ v[0] = f.why
      /\ \A i \in 1 .. L + 1 : /\ h[i] = Nums(f.out[i].calls)
                               /\ v[i] = IF f.out[i].role = "assistant" THEN f.out[i].why ELSE <<>>
  BY <1>2, RowsAre
<1> HIDE DEF g, h, u, v
<1>5. /\ \A i \in 1 .. L : h[i] = g[i] /\ v[i] = u[i]
      /\ h[L + 1] = Nums(a.calls)
      /\ v[L + 1] = IF a.role = "assistant" THEN a.why ELSE <<>>
  <2>1. L + 1 \in 1 .. L + 1 /\ \A i \in 1 .. L : i \in 1 .. L + 1  OBVIOUS
  <2>2. QED  BY <2>1, <1>2, <1>3, <1>4, ZenonT(60)
<1>6. Nums(<<>>) = <<>>
  <2>1. <<>> \in Seq(Asks)  OBVIOUS
  <2>2. QED  BY <2>1, NumsAre
<1>7. \A i \in 0 .. L : i = 0 \/ i \in 1 .. L  OBVIOUS
<1>8. ASSUME a.calls = m.calls, f.calls = <<>> PROVE RowsKept(g, L, h, L + 1)
  <2>1. h[0] = <<>> /\ h[L + 1] = g[0]  BY <1>3, <1>4, <1>5, <1>6, <1>8
  <2>2. QED  BY <2>1, <1>3, <1>5, RowsMoved
<1>9. ASSUME a.calls = <<>>, f.calls = m.calls PROVE RowsKept(g, L, h, L + 1)
  <2>1. h[L + 1] = <<>> /\ h[0] = g[0]  BY <1>3, <1>4, <1>5, <1>6, <1>9
  <2>2. \A i \in 0 .. L : h[i] = g[i]  BY <2>1, <1>5, <1>7
  <2>3. QED  BY <2>1, <2>2, <1>3, RowsStretched
<1>10. ASSUME a.role = "assistant", a.why = m.why, f.why = <<>> PROVE RowsKept(u, L, v, L + 1)
  <2>1. v[0] = <<>> /\ v[L + 1] = u[0]  BY <1>3, <1>4, <1>5, <1>10
  <2>2. QED  BY <2>1, <1>3, <1>5, RowsMoved
<1>11. ASSUME a.role # "assistant" \/ a.why = <<>>, f.why = m.why PROVE RowsKept(u, L, v, L + 1)
  <2>1. v[L + 1] = <<>> /\ v[0] = u[0]  BY <1>3, <1>4, <1>5, <1>11
  <2>2. \A i \in 0 .. L : v[i] = u[i]  BY <2>1, <1>5, <1>7
  <2>3. QED  BY <2>1, <2>2, <1>3, RowsStretched
<1>12. QED  BY <1>1, <1>2, <1>8, <1>9, <1>10, <1>11 DEF g, h, u, v

LEMMA FormAppended ==
  ASSUME NEW u, WellFormed(u), NEW a \in Msg,
         a.role = "tool" => a.calls = <<>> /\ a.n # -1,
         a.calls # <<>> => a.role = "assistant"
  PROVE  WellFormed(Append(u, a))
<1> DEFINE v == Append(u, a)
<1>1. u \in Seq(Msg)  BY DEF WellFormed
<1>2. PICK l \in Nat : l = Len(u)  BY <1>1
<1>3. v \in Seq(Msg) /\ Len(v) = l + 1 /\ v[l + 1] = a /\ \A i \in 1 .. l : v[i] = u[i]
  BY <1>1, <1>2
<1> HIDE DEF v
<1>4. ASSUME NEW i \in 1 .. Len(v)
      PROVE  /\ v[i].role = "tool" => v[i].calls = <<>> /\ v[i].n # -1
             /\ v[i].calls # <<>> => v[i].role = "assistant"
  <2>1. i = l + 1 \/ i \in 1 .. l  BY <1>3
  <2>2. CASE i = l + 1
    <3>1. v[i] = a  BY <2>2, <1>3
    <3>2. QED  BY <3>1
  <2>3. CASE i \in 1 .. l
    <3>1. v[i] = u[i] /\ i \in 1 .. Len(u)  BY <2>3, <1>2, <1>3
    <3>2. QED  BY <3>1 DEF WellFormed
  <2>4. QED  BY <2>1, <2>2, <2>3
<1>5. WellFormed(v)  BY <1>3, <1>4 DEF WellFormed
<1>6. QED  BY <1>5 DEF v

(* Images that wait or are shown are so still. *)
LEMMA ShownKept ==
  ASSUME NEW m \in Acc, NEW f \in Acc, OutKept(m, f),
         f.images = m.images \/ \E x : f.images = Append(m.images, x)
  PROVE  \A n : Shown(m, n) => Shown(f, n)
<1>1. SUFFICES ASSUME NEW n, Shown(m, n) PROVE Shown(f, n)  OBVIOUS
<1>2. m.images \in Seq(Int) /\ f.images \in Seq(Int) /\ m.out \in Seq(Msg) /\ f.out \in Seq(Msg)
  BY AccFields
<1>3. CASE \E c \in 1 .. Len(m.images) : m.images[c] = n
  <2>1. PICK c \in 1 .. Len(m.images) : m.images[c] = n  BY <1>3
  <2>2. CASE f.images = m.images  BY <2>1, <2>2 DEF Shown
  <2>3. CASE \E x : f.images = Append(m.images, x)
    <3>1. PICK x : f.images = Append(m.images, x)  BY <2>3
    <3>2. c \in 1 .. Len(f.images) /\ f.images[c] = m.images[c]
      <4> DEFINE u == m.images
                 v == f.images
      <4>1. u \in Seq(Int) /\ v = Append(u, x) /\ c \in 1 .. Len(u)  BY <1>2, <2>1, <3>1
      <4> HIDE DEF u, v
      <4>2. c \in 1 .. Len(v) /\ v[c] = u[c]
        <5>1. PICK l \in Nat : l = Len(u)  BY <4>1
        <5>2. Len(v) = l + 1 /\ \A i \in 1 .. l : v[i] = u[i]  BY <4>1, <5>1
        <5>3. QED  BY <4>1, <5>1, <5>2
      <4>3. QED  BY <4>2 DEF u, v
    <3>3. QED  BY <2>1, <3>2 DEF Shown
  <2>4. QED  BY <2>2, <2>3
<1>4. CASE \E i \in 1 .. Len(m.out) :
             m.out[i].role = "pictures" /\ \E c \in 1 .. Len(m.out[i].why) : m.out[i].why[c] = n
  <2>1. PICK i \in 1 .. Len(m.out) :
          m.out[i].role = "pictures" /\ \E c \in 1 .. Len(m.out[i].why) : m.out[i].why[c] = n
    BY <1>4
  <2>2. PICK l, k \in Nat : l = Len(m.out) /\ k = Len(f.out)  BY <1>2
  <2>3. f.out[i] = m.out[i] /\ i \in 1 .. Len(f.out)  BY <2>1, <2>2 DEF OutKept
  <2>4. QED  BY <2>1, <2>3 DEF Shown
<1>5. QED  BY <1>1, <1>3, <1>4 DEF Shown

LEMMA CarriesKept ==
  ASSUME NEW m \in Acc, NEW f \in Acc, OutKept(m, f),
         \/ f.calls = m.calls
         \/ f.calls # <<>>
         \/ \E i \in 1 .. Len(f.out) : f.out[i].role = "assistant"
  PROVE  Carries(m) => Carries(f)
<1>1. CASE f.calls # <<>>  BY <1>1 DEF Carries
<1>2. CASE \E i \in 1 .. Len(f.out) : f.out[i].role = "assistant"  BY <1>2 DEF Carries
<1>3. CASE f.calls = m.calls
  <2>1. m.out \in Seq(Msg) /\ f.out \in Seq(Msg)  BY AccFields
  <2>2. PICK l, k \in Nat : l = Len(m.out) /\ k = Len(f.out)  BY <2>1
  <2>3. \A i \in 1 .. Len(m.out) : f.out[i] = m.out[i] /\ i \in 1 .. Len(f.out)
    BY <2>2 DEF OutKept
  <2>4. QED  BY <2>3, <1>3 DEF Carries
<1>4. QED  BY <1>1, <1>2, <1>3

LEMMA OutSame ==
  ASSUME NEW m \in Acc, NEW f \in Acc, f.out = m.out
  PROVE  OutKept(m, f)
<1>1. m.out \in Seq(Msg)  BY AccFields
<1>2. PICK l \in Nat : l = Len(m.out)  BY <1>1
<1>3. QED  BY <1>2 DEF OutKept

LEMMA OutKeptThrough ==
  ASSUME NEW m \in Acc, NEW b \in Acc, NEW f \in Acc, OutKept(m, b), OutKept(b, f)
  PROVE  OutKept(m, f)
<1>1. m.out \in Seq(Msg) /\ b.out \in Seq(Msg) /\ f.out \in Seq(Msg)  BY AccFields
<1>2. PICK l, k, j \in Nat : l = Len(m.out) /\ k = Len(b.out) /\ j = Len(f.out)  BY <1>1
<1>3. \A i \in 1 .. l : i \in 1 .. k  BY <1>2 DEF OutKept
<1>4. QED  BY <1>2, <1>3 DEF OutKept

LEMMA FlushedSelf ==
  ASSUME NEW m \in Acc
  PROVE  Flushed(m, m)
<1>1. m.out \in Seq(Msg)  BY AccFields
<1>2. PICK l \in Nat : l = Len(m.out)  BY <1>1
<1>3. OutKept(m, m)  BY OutSame
<1>4. \A i \in Len(m.out) + 1 .. Len(m.out) : ~Heard(m.out[i])  BY <1>2
<1>5. QED  BY <1>3, <1>4, RowsSame DEF Flushed

LEMMA FlushedOne ==
  ASSUME NEW m \in Acc, NEW f \in Acc, NEW a \in Msg, f.out = Append(m.out, a),
         a.role = "tool" => a.calls = <<>> /\ a.n # -1,
         a.calls # <<>> => a.role = "assistant",
         RowsKept(CallRows(m), Len(m.out), CallRows(f), Len(f.out)),
         RowsKept(WhyRows(m), Len(m.out), WhyRows(f), Len(f.out)),
         ~Heard(a),
         \A n : Shown(m, n) => Shown(f, n),
         Carries(m) => Carries(f)
  PROVE  Flushed(m, f)
<1>1. WellFormed(m.out) => WellFormed(f.out)  BY FormAppended
<1>2. OutKept(m, f) /\ Len(f.out) = Len(m.out) + 1 /\ f.out[Len(m.out) + 1] = a /\ Len(m.out) \in Nat
  BY OutAppended
<1>3. \A i \in Len(m.out) + 1 .. Len(f.out) : ~Heard(f.out[i])
  <2>1. PICK l \in Nat : l = Len(m.out)  BY <1>2
  <2>2. \A i \in l + 1 .. l + 1 : i = l + 1  OBVIOUS
  <2>3. QED  BY <1>2, <2>1, <2>2
<1>4. QED  BY <1>1, <1>2, <1>3 DEF Flushed

LEMMA CallsFlushed ==
  ASSUME NEW m \in Acc, NEW f, FlushedCalls(m, f)
  PROVE  Flushed(m, f)
<1>1. CASE f = m
  <2>1. QED  BY <1>1, FlushedSelf
<1>2. CASE f # m
  <2>1. f \in Acc /\ f.images = m.images /\ f.calls = <<>> /\ m.calls # <<>> /\ f.why = <<>>
    BY <1>2 DEF FlushedCalls
  <2>2. PICK a \in Msg : /\ f.out = Append(m.out, a)
                         /\ a.role = "assistant" /\ a.n = 0 /\ a.calls = m.calls /\ a.why = m.why
    BY <1>2 DEF FlushedCalls
  <2>3. /\ RowsKept(CallRows(m), Len(m.out), CallRows(f), Len(f.out))
        /\ RowsKept(WhyRows(m), Len(m.out), WhyRows(f), Len(f.out))
    BY <2>1, <2>2, RowsAppended
  <2>4. ~Heard(a)  BY <2>2 DEF Heard
  <2>5. OutKept(m, f) /\ f.out[Len(m.out) + 1] = a /\ Len(m.out) + 1 \in 1 .. Len(f.out)
    <3>1. /\ OutKept(m, f) /\ f.out[Len(m.out) + 1] = a
          /\ Len(f.out) = Len(m.out) + 1 /\ Len(m.out) \in Nat
      BY <2>1, <2>2, OutAppended
    <3>2. QED  BY <3>1
  <2>6. \A n : Shown(m, n) => Shown(f, n)  BY <2>1, <2>5, ShownKept
  <2>7. Carries(f)  BY <2>2, <2>5 DEF Carries
  <2>8. QED  BY <2>1, <2>2, <2>3, <2>4, <2>6, <2>7, FlushedOne
<1>3. QED  BY <1>1, <1>2

LEMMA ImagesFlushed ==
  ASSUME NEW m \in Acc, NEW f, FlushedImages(m, f)
  PROVE  Flushed(m, f)
<1>1. CASE f = m
  <2>1. QED  BY <1>1, FlushedSelf
<1>2. CASE f # m
  <2>1. f \in Acc /\ f.images = <<>> /\ f.calls = m.calls /\ f.why = m.why
    BY <1>2 DEF FlushedImages
  <2>2. PICK a : f.out = Append(m.out, a) /\ Plain(a, "pictures", 0, m.images)
    BY <1>2 DEF FlushedImages
  <2>3. a \in Msg /\ a.role = "pictures" /\ a.n = 0 /\ a.calls = <<>> /\ a.why = m.images
    BY <2>2 DEF Plain
  <2>4. /\ RowsKept(CallRows(m), Len(m.out), CallRows(f), Len(f.out))
        /\ RowsKept(WhyRows(m), Len(m.out), WhyRows(f), Len(f.out))
    BY <2>1, <2>2, <2>3, RowsAppended
  <2>5. ~Heard(a)  BY <2>3 DEF Heard
  <2>6. OutKept(m, f) /\ f.out[Len(m.out) + 1] = a /\ Len(m.out) + 1 \in 1 .. Len(f.out)
    <3>1. /\ OutKept(m, f) /\ f.out[Len(m.out) + 1] = a
          /\ Len(f.out) = Len(m.out) + 1 /\ Len(m.out) \in Nat
      BY <2>1, <2>2, <2>3, OutAppended
    <3>2. QED  BY <3>1
  <2>7. ASSUME NEW n, Shown(m, n) PROVE Shown(f, n)
    <3>1. CASE \E c \in 1 .. Len(m.images) : m.images[c] = n
      <4>1. \E c \in 1 .. Len(a.why) : a.why[c] = n  BY <3>1, <2>3
      <4>2. QED  BY <4>1, <2>3, <2>6 DEF Shown
    <3>2. CASE \E i \in 1 .. Len(m.out) :
                 m.out[i].role = "pictures" /\ \E c \in 1 .. Len(m.out[i].why) : m.out[i].why[c] = n
      <4>1. PICK i \in 1 .. Len(m.out) :
              m.out[i].role = "pictures" /\ \E c \in 1 .. Len(m.out[i].why) : m.out[i].why[c] = n
        BY <3>2
      <4>2. m.out \in Seq(Msg) /\ f.out \in Seq(Msg)  BY <2>1, AccFields
      <4>3. PICK l, k \in Nat : l = Len(m.out) /\ k = Len(f.out)  BY <4>2
      <4>4. f.out[i] = m.out[i] /\ i \in 1 .. Len(f.out)  BY <2>6, <4>1, <4>3 DEF OutKept
      <4>5. QED  BY <4>1, <4>4 DEF Shown
    <3>3. QED  BY <3>1, <3>2, <2>7 DEF Shown
  <2>8. Carries(m) => Carries(f)  BY <2>1, <2>6, CarriesKept
  <2>9. QED  BY <2>1, <2>2, <2>3, <2>4, <2>5, <2>7, <2>8, FlushedOne
<1>3. QED  BY <1>1, <1>2

LEMMA FlushedThrough ==
  ASSUME NEW m \in Acc, NEW b, NEW f, Flushed(m, b), Flushed(b, f)
  PROVE  Flushed(m, f)
<1>1. b \in Acc /\ f \in Acc /\ OutKept(m, b) /\ OutKept(b, f)  BY DEF Flushed
<1>2. OutKept(m, f)  BY <1>1, OutKeptThrough
<1>3. m.out \in Seq(Msg) /\ b.out \in Seq(Msg) /\ f.out \in Seq(Msg)  BY <1>1, AccFields
<1>4. PICK l, k, j \in Nat : l = Len(m.out) /\ k = Len(b.out) /\ j = Len(f.out)  BY <1>3
<1>5. ASSUME NEW i \in l + 1 .. j PROVE ~Heard(f.out[i])
  <2>1. CASE i > k
    <3>1. i \in Len(b.out) + 1 .. Len(f.out)  BY <2>1, <1>4
    <3>2. QED  BY <3>1 DEF Flushed
  <2>2. CASE i <= k
    <3>1. i \in Len(m.out) + 1 .. Len(b.out) /\ i \in 1 .. Len(b.out)  BY <2>2, <1>4
    <3>2. f.out[i] = b.out[i]  BY <3>1, <1>1 DEF OutKept
    <3>3. ~Heard(b.out[i])  BY <3>1 DEF Flushed
    <3>4. QED  BY <3>2, <3>3
  <2>3. QED  BY <2>1, <2>2, <1>4
<1>6. /\ RowsKept(CallRows(m), Len(m.out), CallRows(f), Len(f.out))
      /\ RowsKept(WhyRows(m), Len(m.out), WhyRows(f), Len(f.out))
  BY DEF Flushed, RowsKept
<1>7. /\ WellFormed(m.out) => WellFormed(f.out)
      /\ \A n : Shown(m, n) => Shown(f, n)
      /\ Carries(m) => Carries(f)
  BY DEF Flushed
<1>8. QED  BY <1>1, <1>2, <1>4, <1>5, <1>6, <1>7 DEF Flushed

(* Items as a conversation holds them: numbered as they came, but for the    *)
(* calls the repair made.                                                    *)
Told(items) ==
    /\ items \in Seq(It)
    /\ \A k \in 1 .. Len(items) : items[k].n > 0 \/ (items[k].n = -1 /\ items[k].type = "call")
    /\ \A j, k \in 1 .. Len(items) :
         j < k /\ items[j].n > 0 /\ items[k].n > 0 => items[j].n < items[k].n

(* Each number of a type, among the first k items, is in one place.          *)
Tally(g, L, items, k, type) ==
    \A n : n > 0 =>
      /\ (\E j \in 1 .. k : items[j].type = type /\ items[j].n = n) => OnceIn(g, L, n)
      /\ ~(\E j \in 1 .. k : items[j].type = type /\ items[j].n = n) => NeverIn(g, L, n)

Spoken(it) == it.type \in {"user", "assistant", "image_call"}
Carrier(it) == it.type \in {"call", "assistant", "image_call"}

ToolsIn(m, items, k) ==
    \A j \in 1 .. k : items[j].type = "output" =>
      \E i \in 1 .. Len(m.out) : m.out[i].role = "tool" /\ m.out[i].n = items[j].n

ImagesIn(m, items, k) ==
    \A j \in 1 .. k : items[j].type = "output" /\ items[j].image => Shown(m, items[j].n)

CarriersIn(m, items, k) == (\E j \in 1 .. k : Carrier(items[j])) => Carries(m)

HeardIn(m, items, k) ==
    /\ \A j \in 1 .. k : Spoken(items[j]) =>
         \E i \in 1 .. Len(m.out) : Heard(m.out[i]) /\ m.out[i].n = items[j].n
    /\ \A i \in 1 .. Len(m.out) : Heard(m.out[i]) =>
         \E j \in 1 .. k : Spoken(items[j]) /\ items[j].n = m.out[i].n
    /\ \A i, j \in 1 .. Len(m.out) :
         i < j /\ Heard(m.out[i]) /\ Heard(m.out[j]) => m.out[i].n < m.out[j].n

(* The first k items, as the mapping has collected them.                     *)
Mapping(m, items, k) ==
    /\ m \in Acc /\ WellFormed(m.out)
    /\ Tally(CallRows(m), Len(m.out), items, k, "call")
    /\ Tally(WhyRows(m), Len(m.out), items, k, "reasoning")
    /\ ToolsIn(m, items, k) /\ ImagesIn(m, items, k)
    /\ CarriersIn(m, items, k) /\ HeardIn(m, items, k)

LEMMA TallyKept ==
  ASSUME NEW g, NEW L, NEW h, NEW M, RowsKept(g, L, h, M), NEW items, NEW k, NEW type,
         Tally(g, L, items, k, type)
  PROVE  Tally(h, M, items, k, type)
BY DEF Tally, RowsKept

LEMMA TallyNext ==
  ASSUME NEW g, NEW L, NEW items, NEW k \in Nat, NEW type,
         Tally(g, L, items, k, type), items[k + 1].type # type
  PROVE  Tally(g, L, items, k + 1, type)
<1>1. ASSUME NEW n
      PROVE  (\E j \in 1 .. k + 1 : items[j].type = type /\ items[j].n = n)
               <=> (\E j \in 1 .. k : items[j].type = type /\ items[j].n = n)
  <2>1. \A j \in 1 .. k + 1 : j = k + 1 \/ j \in 1 .. k  OBVIOUS
  <2>2. \A j \in 1 .. k : j \in 1 .. k + 1  OBVIOUS
  <2>3. QED  BY <2>1, <2>2
<1>2. QED  BY <1>1 DEF Tally

LEMMA TallyAdded ==
  ASSUME NEW g, NEW L \in Nat, NEW h, Rows(g, L), NEW items, Told(items),
         NEW k \in Nat, k + 1 \in 1 .. Len(items), NEW type,
         Tally(g, L, items, k, type), items[k + 1].type = type,
         h[0] = Append(g[0], items[k + 1].n), \A i \in 1 .. L : h[i] = g[i]
  PROVE  Tally(h, L, items, k + 1, type)
<1> DEFINE x == items[k + 1].n
<1>0. Len(items) \in Nat /\ items[k + 1] \in It
  <2>1. items \in Seq(It)  BY DEF Told
  <2>2. QED  BY <2>1, ElementOfSeq
<1>1. x \in Int  BY <1>0, ItFields
<1>2. /\ \A n : n # x => /\ OnceIn(g, L, n) => OnceIn(h, L, n)
                         /\ NeverIn(g, L, n) => NeverIn(h, L, n)
      /\ NeverIn(g, L, x) => OnceIn(h, L, x)
  <2>1. h[0] = Append(g[0], x)  OBVIOUS
  <2> HIDE DEF x
  <2>2. QED  BY <1>1, <2>1, RowsAdded
<1>3. SUFFICES ASSUME NEW n, n > 0
      PROVE  /\ (\E j \in 1 .. k + 1 : items[j].type = type /\ items[j].n = n) => OnceIn(h, L, n)
             /\ ~(\E j \in 1 .. k + 1 : items[j].type = type /\ items[j].n = n) => NeverIn(h, L, n)
  BY DEF Tally
<1>4. \A j \in 1 .. k : j \in 1 .. k + 1  OBVIOUS
<1>5. \A j \in 1 .. k + 1 : j = k + 1 \/ j \in 1 .. k  OBVIOUS
<1>6. CASE n = x
  <2>1. \A j \in 1 .. k : ~(items[j].type = type /\ items[j].n = n)
    <3>1. SUFFICES ASSUME NEW j \in 1 .. k, items[j].n = n PROVE FALSE  OBVIOUS
    <3>2. j \in 1 .. Len(items) /\ j < k + 1  BY <1>0
    <3>3. items[j].n < items[k + 1].n  BY <3>1, <3>2, <1>3, <1>6 DEF Told
    <3>4. QED  BY <3>1, <3>3, <1>1, <1>6
  <2>2. NeverIn(g, L, n)  BY <2>1, <1>3 DEF Tally
  <2>3. OnceIn(h, L, n)  BY <2>2, <1>2, <1>6
  <2>4. k + 1 \in 1 .. k + 1 /\ items[k + 1].type = type /\ items[k + 1].n = n  BY <1>6
  <2>5. QED  BY <2>3, <2>4
<1>7. CASE n # x
  <2>1. (\E j \in 1 .. k + 1 : items[j].type = type /\ items[j].n = n)
          <=> (\E j \in 1 .. k : items[j].type = type /\ items[j].n = n)
    BY <1>4, <1>5, <1>7
  <2> HIDE DEF x
  <2>2. /\ (\E j \in 1 .. k : items[j].type = type /\ items[j].n = n) => OnceIn(g, L, n)
        /\ ~(\E j \in 1 .. k : items[j].type = type /\ items[j].n = n) => NeverIn(g, L, n)
    BY <1>3 DEF Tally
  <2>3. QED  BY <2>1, <2>2, <1>2, <1>7
<1>8. QED  BY <1>6, <1>7

LEMMA ToolsKept ==
  ASSUME NEW m \in Acc, NEW f \in Acc, OutKept(m, f), NEW items, NEW k \in Nat,
         ToolsIn(m, items, k)
  PROVE  /\ ToolsIn(f, items, k)
         /\ (items[k + 1].type = "output" =>
               \E i \in 1 .. Len(f.out) : f.out[i].role = "tool" /\ f.out[i].n = items[k + 1].n)
              => ToolsIn(f, items, k + 1)
<1>1. m.out \in Seq(Msg) /\ f.out \in Seq(Msg)  BY AccFields
<1>2. PICK l, j \in Nat : l = Len(m.out) /\ j = Len(f.out)  BY <1>1
<1>3. \A i \in 1 .. Len(m.out) : i \in 1 .. Len(f.out) /\ f.out[i] = m.out[i]
  BY <1>2 DEF OutKept
<1>4. ToolsIn(f, items, k)  BY <1>3, SMTT(60) DEF ToolsIn
<1>5. \A i \in 1 .. k + 1 : i = k + 1 \/ i \in 1 .. k  OBVIOUS
<1>6. QED  BY <1>4, <1>5 DEF ToolsIn

LEMMA ImagesKept ==
  ASSUME NEW m, NEW f, \A n : Shown(m, n) => Shown(f, n), NEW items, NEW k \in Nat,
         ImagesIn(m, items, k)
  PROVE  /\ ImagesIn(f, items, k)
         /\ (items[k + 1].type = "output" /\ items[k + 1].image => Shown(f, items[k + 1].n))
              => ImagesIn(f, items, k + 1)
<1>1. ImagesIn(f, items, k)  BY DEF ImagesIn
<1>2. \A i \in 1 .. k + 1 : i = k + 1 \/ i \in 1 .. k  OBVIOUS
<1>3. QED  BY <1>1, <1>2 DEF ImagesIn

LEMMA CarriersKept ==
  ASSUME NEW m, NEW f, Carries(m) => Carries(f), NEW items, NEW k \in Nat,
         CarriersIn(m, items, k)
  PROVE  /\ CarriersIn(f, items, k)
         /\ (Carrier(items[k + 1]) => Carries(f)) => CarriersIn(f, items, k + 1)
<1>1. CarriersIn(f, items, k)  BY DEF CarriersIn
<1>2. \A i \in 1 .. k + 1 : i = k + 1 \/ i \in 1 .. k  OBVIOUS
<1>3. QED  BY <1>1, <1>2 DEF CarriersIn

LEMMA HeardKept ==
  ASSUME NEW m \in Acc, NEW f \in Acc, OutKept(m, f), NEW items, NEW k \in Nat,
         HeardIn(m, items, k), \A i \in Len(m.out) + 1 .. Len(f.out) : ~Heard(f.out[i])
  PROVE  /\ HeardIn(f, items, k)
         /\ ~Spoken(items[k + 1]) => HeardIn(f, items, k + 1)
<1>1. m.out \in Seq(Msg) /\ f.out \in Seq(Msg)  BY AccFields
<1>2. PICK l, j \in Nat : l = Len(m.out) /\ j = Len(f.out)  BY <1>1
<1>3. \A i \in 1 .. l : i \in 1 .. j /\ f.out[i] = m.out[i]
  BY <1>2 DEF OutKept
<1>4. \A i \in 1 .. j : Heard(f.out[i]) => i \in 1 .. l
  <2>1. \A i \in 1 .. j : i \in 1 .. l \/ i \in l + 1 .. j  OBVIOUS
  <2>2. QED  BY <2>1, <1>2
<1>5. /\ \A x \in 1 .. k : Spoken(items[x]) =>
           \E i \in 1 .. l : Heard(m.out[i]) /\ m.out[i].n = items[x].n
      /\ \A i \in 1 .. l : Heard(m.out[i]) =>
           \E x \in 1 .. k : Spoken(items[x]) /\ items[x].n = m.out[i].n
      /\ \A i, x \in 1 .. l :
           i < x /\ Heard(m.out[i]) /\ Heard(m.out[x]) => m.out[i].n < m.out[x].n
  BY <1>2 DEF HeardIn
<1>6. \A x \in 1 .. k : Spoken(items[x]) =>
        \E i \in 1 .. j : Heard(f.out[i]) /\ f.out[i].n = items[x].n
  <2>1. ASSUME NEW x \in 1 .. k, Spoken(items[x])
        PROVE  \E i \in 1 .. j : Heard(f.out[i]) /\ f.out[i].n = items[x].n
    <3>1. PICK i \in 1 .. l : Heard(m.out[i]) /\ m.out[i].n = items[x].n  BY <2>1, <1>5
    <3>2. i \in 1 .. j /\ f.out[i] = m.out[i]  BY <1>3
    <3>3. QED  BY <3>1, <3>2
  <2>2. QED  BY <2>1
<1>7. \A i \in 1 .. j : Heard(f.out[i]) =>
        \E x \in 1 .. k : Spoken(items[x]) /\ items[x].n = f.out[i].n
  BY <1>3, <1>4, <1>5, ZenonT(60)
<1>8. \A i, x \in 1 .. j :
        i < x /\ Heard(f.out[i]) /\ Heard(f.out[x]) => f.out[i].n < f.out[x].n
  BY <1>3, <1>4, <1>5
<1>9. HeardIn(f, items, k)  BY <1>2, <1>6, <1>7, <1>8 DEF HeardIn
<1>10. ASSUME ~Spoken(items[k + 1]) PROVE HeardIn(f, items, k + 1)
  <2>1. \A i \in 1 .. k + 1 : i = k + 1 \/ i \in 1 .. k  OBVIOUS
  <2>2. \A i \in 1 .. k : i \in 1 .. k + 1  OBVIOUS
  <2>3. \A x \in 1 .. k + 1 : Spoken(items[x]) =>
          \E i \in 1 .. j : Heard(f.out[i]) /\ f.out[i].n = items[x].n
    BY <2>1, <1>6, <1>10
  <2>4. \A i \in 1 .. j : Heard(f.out[i]) =>
          \E x \in 1 .. k + 1 : Spoken(items[x]) /\ items[x].n = f.out[i].n
    BY <2>2, <1>7
  <2>5. QED  BY <1>2, <1>8, <2>3, <2>4 DEF HeardIn
<1>11. QED  BY <1>9, <1>10

(* The item is the message, and what it says is later than all before it.    *)
LEMMA HeardAdded ==
  ASSUME NEW m \in Acc, NEW f \in Acc, NEW a \in Msg, f.out = Append(m.out, a),
         NEW items, Told(items), NEW k \in Nat, k + 1 \in 1 .. Len(items),
         HeardIn(m, items, k), Spoken(items[k + 1]), Heard(a), a.n = items[k + 1].n
  PROVE  HeardIn(f, items, k + 1)
<1>1. PICK l \in Nat : l = Len(m.out)
  <2>1. m.out \in Seq(Msg)  BY AccFields
  <2>2. QED  BY <2>1
<1>2. /\ Len(f.out) = l + 1 /\ f.out[l + 1] = a
      /\ \A i \in 1 .. l : f.out[i] = m.out[i]
  BY <1>1, OutAppended
<1>3. \A i \in 1 .. l + 1 : i = l + 1 \/ i \in 1 .. l  OBVIOUS
<1>4. \A i \in 1 .. k + 1 : i = k + 1 \/ i \in 1 .. k  OBVIOUS
<1>5. k + 1 \in 1 .. k + 1 /\ l + 1 \in 1 .. l + 1
      /\ (\A i \in 1 .. k : i \in 1 .. k + 1) /\ (\A i \in 1 .. l : i \in 1 .. l + 1)
  OBVIOUS
<1>6. /\ \A x \in 1 .. k : Spoken(items[x]) =>
           \E i \in 1 .. l : Heard(m.out[i]) /\ m.out[i].n = items[x].n
      /\ \A i \in 1 .. l : Heard(m.out[i]) =>
           \E x \in 1 .. k : Spoken(items[x]) /\ items[x].n = m.out[i].n
      /\ \A i, x \in 1 .. l :
           i < x /\ Heard(m.out[i]) /\ Heard(m.out[x]) => m.out[i].n < m.out[x].n
  BY <1>1 DEF HeardIn
<1>7. \A x \in 1 .. k + 1 : Spoken(items[x]) =>
        \E i \in 1 .. l + 1 : Heard(f.out[i]) /\ f.out[i].n = items[x].n
  BY <1>2, <1>4, <1>5, <1>6, ZenonT(60)
<1>8. \A i \in 1 .. l + 1 : Heard(f.out[i]) =>
        \E x \in 1 .. k + 1 : Spoken(items[x]) /\ items[x].n = f.out[i].n
  BY <1>2, <1>3, <1>5, <1>6
<1>9. ASSUME NEW i \in 1 .. l, Heard(m.out[i]) PROVE m.out[i].n < a.n
  <2>1. PICK x \in 1 .. k : Spoken(items[x]) /\ items[x].n = m.out[i].n  BY <1>6, <1>9
  <2>2. m.out[i].n > 0 /\ a.n > 0  BY <1>9 DEF Heard
  <2>3. Len(items) \in Nat
    <3>1. items \in Seq(It)  BY DEF Told
    <3>2. QED  BY <3>1
  <2>4. x \in 1 .. Len(items) /\ x < k + 1  BY <2>3
  <2>5. items[x].n < items[k + 1].n  BY <2>1, <2>2, <2>4 DEF Told
  <2>6. QED  BY <2>1, <2>5
<1>10. \A i, x \in 1 .. l + 1 :
        i < x /\ Heard(f.out[i]) /\ Heard(f.out[x]) => f.out[i].n < f.out[x].n
  <2>1. SUFFICES ASSUME NEW i \in 1 .. l + 1, NEW x \in 1 .. l + 1, i < x,
                        Heard(f.out[i]), Heard(f.out[x])
                 PROVE  f.out[i].n < f.out[x].n
    OBVIOUS
  <2>2. i \in 1 .. l  BY <2>1
  <2>3. CASE x = l + 1
    <3>1. f.out[i] = m.out[i] /\ f.out[x] = a  BY <2>2, <2>3, <1>2
    <3>2. QED  BY <3>1, <2>1, <2>2, <1>9
  <2>4. CASE x \in 1 .. l  BY <2>1, <2>2, <2>4, <1>2, <1>6
  <2>5. QED  BY <2>3, <2>4, <1>3
<1>11. QED  BY <1>2, <1>7, <1>8, <1>10 DEF HeardIn

LEMMA MappingFlushed ==
  ASSUME NEW m, NEW items, NEW k \in Nat, Mapping(m, items, k), NEW f, Flushed(m, f)
  PROVE  Mapping(f, items, k)
<1>1. m \in Acc /\ f \in Acc /\ OutKept(m, f)  BY DEF Mapping, Flushed
<1>2. WellFormed(f.out)  BY DEF Mapping, Flushed
<1>3. Tally(CallRows(f), Len(f.out), items, k, "call")
  BY TallyKept DEF Mapping, Flushed
<1>4. Tally(WhyRows(f), Len(f.out), items, k, "reasoning")
  BY TallyKept DEF Mapping, Flushed
<1>5. ToolsIn(f, items, k)
  <2>1. ToolsIn(m, items, k)  BY DEF Mapping
  <2>2. QED  BY <2>1, <1>1, ToolsKept
<1>6. ImagesIn(f, items, k)
  <2>1. ImagesIn(m, items, k) /\ \A n : Shown(m, n) => Shown(f, n)  BY DEF Mapping, Flushed
  <2>2. QED  BY <2>1, ImagesKept
<1>7. CarriersIn(f, items, k)
  <2>1. CarriersIn(m, items, k) /\ (Carries(m) => Carries(f))  BY DEF Mapping, Flushed
  <2>2. QED  BY <2>1, CarriersKept
<1>8. HeardIn(f, items, k)
  <2>1. HeardIn(m, items, k) /\ \A i \in Len(m.out) + 1 .. Len(f.out) : ~Heard(f.out[i])
    BY DEF Mapping, Flushed
  <2>2. QED  BY <2>1, <1>1, HeardKept
<1>9. QED  BY <1>1, <1>2, <1>3, <1>4, <1>5, <1>6, <1>7, <1>8 DEF Mapping

LEMMA ToldItem ==
  ASSUME NEW items, Told(items), NEW k \in Nat, k + 1 \in 1 .. Len(items)
  PROVE  /\ items[k + 1] \in It /\ items[k + 1].type \in ItemTypes
         /\ items[k + 1].n \in Int /\ items[k + 1].call \in Int /\ items[k + 1].id \in Int
         /\ items[k + 1].type # "call" => items[k + 1].n > 0
<1>1. items[k + 1] \in It
  <2>1. items \in Seq(It)  BY DEF Told
  <2>2. QED  BY <2>1, ElementOfSeq
<1>2. items[k + 1].n > 0 \/ (items[k + 1].n = -1 /\ items[k + 1].type = "call")  BY DEF Told
<1>3. QED  BY <1>1, <1>2, ItFields

LEMMA MappingNext ==
  ASSUME NEW b, NEW items, NEW k \in Nat, Mapping(b, items, k), NEW f \in Acc,
         OutKept(b, f), WellFormed(f.out),
         Tally(CallRows(f), Len(f.out), items, k + 1, "call"),
         Tally(WhyRows(f), Len(f.out), items, k + 1, "reasoning"),
         \A n : Shown(b, n) => Shown(f, n), Carries(b) => Carries(f),
         items[k + 1].type = "output" =>
           \E i \in 1 .. Len(f.out) : f.out[i].role = "tool" /\ f.out[i].n = items[k + 1].n,
         items[k + 1].type = "output" /\ items[k + 1].image => Shown(f, items[k + 1].n),
         Carrier(items[k + 1]) => Carries(f),
         HeardIn(f, items, k + 1)
  PROVE  Mapping(f, items, k + 1)
<1>1. /\ b \in Acc /\ ToolsIn(b, items, k) /\ ImagesIn(b, items, k) /\ CarriersIn(b, items, k)
  BY DEF Mapping
<1>2. ToolsIn(f, items, k + 1)  BY <1>1, ToolsKept
<1>3. ImagesIn(f, items, k + 1)  BY <1>1, ImagesKept
<1>4. CarriersIn(f, items, k + 1)  BY <1>1, CarriersKept
<1>5. QED  BY <1>2, <1>3, <1>4 DEF Mapping

(* Nothing is collected of a search call.                                    *)
LEMMA MappingSkipped ==
  ASSUME NEW m, NEW items, NEW k \in Nat, Mapping(m, items, k),
         items[k + 1].type = "search_call"
  PROVE  Mapping(m, items, k + 1)
<1>1. m \in Acc /\ WellFormed(m.out) /\ OutKept(m, m)
  <2>1. m \in Acc /\ WellFormed(m.out)  BY DEF Mapping
  <2>2. QED  BY <2>1, OutSame
<1>2. ~Spoken(items[k + 1]) /\ ~Carrier(items[k + 1])  BY DEF Spoken, Carrier
<1>3. Tally(CallRows(m), Len(m.out), items, k + 1, "call")  BY TallyNext DEF Mapping
<1>4. Tally(WhyRows(m), Len(m.out), items, k + 1, "reasoning")  BY TallyNext DEF Mapping
<1>5. HeardIn(m, items, k + 1)
  <2>1. HeardIn(m, items, k)  BY DEF Mapping
  <2>2. PICK l \in Nat : l = Len(m.out)
    <3>1. m.out \in Seq(Msg)  BY <1>1, AccFields
    <3>2. QED  BY <3>1
  <2>3. \A i \in Len(m.out) + 1 .. Len(m.out) : ~Heard(m.out[i])  BY <2>2
  <2>4. QED  BY <1>1, <1>2, <2>1, <2>3, HeardKept
<1>6. QED  BY <1>1, <1>2, <1>3, <1>4, <1>5, MappingNext

LEMMA NoneSaid ==
  ASSUME NEW b, NEW items, NEW k \in Nat, Mapping(b, items, k), NEW f \in Acc,
         f.out = b.out, ~Spoken(items[k + 1])
  PROVE  /\ b \in Acc /\ OutKept(b, f) /\ WellFormed(f.out) /\ HeardIn(f, items, k + 1)
         /\ Len(b.out) \in Nat
<1>1. b \in Acc /\ WellFormed(b.out) /\ HeardIn(b, items, k)  BY DEF Mapping
<1>2. OutKept(b, f)  BY <1>1, OutSame
<1>3. PICK l \in Nat : l = Len(b.out)
  <2>1. b.out \in Seq(Msg)  BY <1>1, AccFields
  <2>2. QED  BY <2>1
<1>4. \A i \in Len(b.out) + 1 .. Len(f.out) : ~Heard(f.out[i])  BY <1>3
<1>5. HeardIn(f, items, k + 1)  BY <1>1, <1>2, <1>4, HeardKept
<1>6. QED  BY <1>1, <1>2, <1>3, <1>5

LEMMA MappingReasoned ==
  ASSUME NEW b, NEW items, NEW k \in Nat, Mapping(b, items, k),
         Told(items), k + 1 \in 1 .. Len(items),
         items[k + 1].type = "reasoning", NEW f, Reasoned(b, f, items[k + 1].n)
  PROVE  Mapping(f, items, k + 1)
<1>1. /\ f \in Acc /\ f.out = b.out /\ f.calls = b.calls /\ f.images = b.images
      /\ f.why = Append(b.why, items[k + 1].n)
  BY DEF Reasoned
<1>2. ~Spoken(items[k + 1]) /\ ~Carrier(items[k + 1])  BY DEF Spoken, Carrier
<1>3. /\ b \in Acc /\ OutKept(b, f) /\ WellFormed(f.out) /\ HeardIn(f, items, k + 1)
      /\ Len(b.out) \in Nat
  BY <1>1, <1>2, NoneSaid
<1>4. CallRows(f) = CallRows(b)  BY <1>1 DEF CallRows
<1>5. Tally(CallRows(f), Len(f.out), items, k + 1, "call")
  <2>1. Tally(CallRows(b), Len(b.out), items, k + 1, "call")  BY TallyNext DEF Mapping
  <2>2. QED  BY <2>1, <1>1, <1>4
<1>6. Tally(WhyRows(f), Len(f.out), items, k + 1, "reasoning")
  <2> DEFINE g == WhyRows(b)
             h == WhyRows(f)
             L == Len(b.out)
  <2>1. /\ Rows(g, L) /\ g[0] = b.why
        /\ \A i \in 1 .. L : g[i] = IF b.out[i].role = "assistant" THEN b.out[i].why ELSE <<>>
    BY <1>3, RowsAre
  <2>2. /\ h[0] = f.why
        /\ \A i \in 1 .. L : h[i] = IF b.out[i].role = "assistant" THEN b.out[i].why ELSE <<>>
    BY <1>1, RowsAre, SMTT(60)
  <2>3. Tally(g, L, items, k, "reasoning") /\ L \in Nat  BY <1>3 DEF Mapping
  <2>4. Len(f.out) = L  BY <1>1
  <2> HIDE DEF g, h, L
  <2>5. h[0] = Append(g[0], items[k + 1].n) /\ \A i \in 1 .. L : h[i] = g[i]
    BY <2>1, <2>2, <1>1
  <2>6. Tally(h, L, items, k + 1, "reasoning")  BY <2>1, <2>3, <2>5, TallyAdded
  <2>7. QED  BY <2>4, <2>6 DEF h
<1>7. \A n : Shown(b, n) => Shown(f, n)  BY <1>1, <1>3, ShownKept
<1>8. Carries(b) => Carries(f)  BY <1>1, <1>3, CarriesKept
<1>9. items[k + 1].type # "output"  OBVIOUS
<1>10. QED  BY <1>1, <1>2, <1>3, <1>5, <1>6, <1>7, <1>8, <1>9, MappingNext

LEMMA MappingCalled ==
  ASSUME NEW b, NEW items, NEW k \in Nat, Mapping(b, items, k),
         Told(items), k + 1 \in 1 .. Len(items),
         items[k + 1].type = "call", NEW f, Called(b, f, items[k + 1])
  PROVE  Mapping(f, items, k + 1)
<1>1. f \in Acc /\ f.out = b.out /\ f.why = b.why /\ f.images = b.images  BY DEF Called
<1>2. PICK c \in Asks : c.n = items[k + 1].n /\ f.calls = Append(b.calls, c)  BY DEF Called
<1>3. ~Spoken(items[k + 1])  BY DEF Spoken
<1>4. /\ b \in Acc /\ OutKept(b, f) /\ WellFormed(f.out) /\ HeardIn(f, items, k + 1)
      /\ Len(b.out) \in Nat
  BY <1>1, <1>3, NoneSaid
<1>5. b.calls \in Seq(Asks) /\ f.calls \in Seq(Asks)  BY <1>1, <1>4, AccFields
<1>6. WhyRows(f) = WhyRows(b)  BY <1>1 DEF WhyRows
<1>7. Tally(WhyRows(f), Len(f.out), items, k + 1, "reasoning")
  <2>1. Tally(WhyRows(b), Len(b.out), items, k + 1, "reasoning")  BY TallyNext DEF Mapping
  <2>2. QED  BY <2>1, <1>1, <1>6
<1>8. Tally(CallRows(f), Len(f.out), items, k + 1, "call")
  <2> DEFINE g == CallRows(b)
             h == CallRows(f)
             L == Len(b.out)
  <2>1. /\ Rows(g, L) /\ g[0] = Nums(b.calls)
        /\ \A i \in 1 .. L : g[i] = Nums(b.out[i].calls)
    BY <1>4, RowsAre
  <2>2. h[0] = Nums(f.calls) /\ \A i \in 1 .. L : h[i] = Nums(b.out[i].calls)
    BY <1>1, RowsAre
  <2>3. Tally(g, L, items, k, "call") /\ L \in Nat  BY <1>4 DEF Mapping
  <2>4. Len(f.out) = L  BY <1>1
  <2> HIDE DEF g, h, L
  <2>5. Nums(f.calls) = Append(Nums(b.calls), c.n)  BY <1>2, <1>5, NumsAre
  <2>6. h[0] = Append(g[0], items[k + 1].n) /\ \A i \in 1 .. L : h[i] = g[i]
    BY <2>1, <2>2, <2>5, <1>2
  <2>7. Tally(h, L, items, k + 1, "call")  BY <2>1, <2>3, <2>6, TallyAdded
  <2>8. QED  BY <2>4, <2>7 DEF h
<1>9. \A n : Shown(b, n) => Shown(f, n)  BY <1>1, <1>4, ShownKept
<1>10. Carries(f)
  <2>1. f.calls # <<>>
    <3> DEFINE u == b.calls
               v == f.calls
    <3>1. u \in Seq(Asks) /\ v = Append(u, c)  BY <1>2, <1>5
    <3> HIDE DEF u, v
    <3>2. v # <<>>
      <4>1. PICK l \in Nat : l = Len(u)  BY <3>1
      <4>2. Len(v) = l + 1  BY <3>1, <4>1
      <4>3. Len(<<>>) = 0  OBVIOUS
      <4>4. QED  BY <4>2, <4>3
    <3>3. QED  BY <3>2 DEF v
  <2>2. QED  BY <2>1 DEF Carries
<1>11. items[k + 1].type # "output"  OBVIOUS
<1>12. QED  BY <1>1, <1>4, <1>7, <1>8, <1>9, <1>10, <1>11, MappingNext

LEMMA MappingReturned ==
  ASSUME NEW b, NEW items, NEW k \in Nat, Mapping(b, items, k),
         Told(items), k + 1 \in 1 .. Len(items),
         items[k + 1].type = "output", NEW f, Returned(b, f, items[k + 1])
  PROVE  Mapping(f, items, k + 1)
<1>1. f \in Acc /\ f.calls = b.calls /\ f.why = b.why  BY DEF Returned
<1>2. PICK a \in Msg : /\ f.out = Append(b.out, a)
                       /\ a.role = "tool" /\ a.n = items[k + 1].n /\ a.calls = <<>>
  BY DEF Returned
<1>3. ~Spoken(items[k + 1]) /\ ~Carrier(items[k + 1])  BY DEF Spoken, Carrier
<1>4. b \in Acc /\ WellFormed(b.out) /\ HeardIn(b, items, k)  BY DEF Mapping
<1>5. PICK l \in Nat : l = Len(b.out)
  <2>1. b.out \in Seq(Msg)  BY <1>4, AccFields
  <2>2. QED  BY <2>1
<1>6. OutKept(b, f) /\ Len(f.out) = l + 1 /\ f.out[l + 1] = a
  BY <1>1, <1>2, <1>4, <1>5, OutAppended
<1>7. items[k + 1].n > 0 /\ items[k + 1].n \in Int  BY ToldItem
<1>8. WellFormed(f.out)
  <2>1. a.n # -1  BY <1>2, <1>7
  <2>2. QED  BY <2>1, <1>2, <1>4, FormAppended
<1>9. HeardIn(f, items, k + 1)
  <2>1. ~Heard(a)  BY <1>2 DEF Heard
  <2>2. \A i \in l + 1 .. l + 1 : i = l + 1  OBVIOUS
  <2>3. \A i \in Len(b.out) + 1 .. Len(f.out) : ~Heard(f.out[i])  BY <2>1, <2>2, <1>5, <1>6
  <2>4. QED  BY <2>3, <1>1, <1>3, <1>4, <1>6, HeardKept
<1>10. /\ RowsKept(CallRows(b), Len(b.out), CallRows(f), Len(f.out))
       /\ RowsKept(WhyRows(b), Len(b.out), WhyRows(f), Len(f.out))
  BY <1>1, <1>2, <1>4, RowsAppended
<1>11. Tally(CallRows(f), Len(f.out), items, k + 1, "call")
  <2>1. Tally(CallRows(b), Len(b.out), items, k + 1, "call")  BY TallyNext DEF Mapping
  <2>2. QED  BY <2>1, <1>10, TallyKept
<1>12. Tally(WhyRows(f), Len(f.out), items, k + 1, "reasoning")
  <2>1. Tally(WhyRows(b), Len(b.out), items, k + 1, "reasoning")  BY TallyNext DEF Mapping
  <2>2. QED  BY <2>1, <1>10, TallyKept
<1>13. /\ items[k + 1].image => f.images = Append(b.images, items[k + 1].n)
       /\ ~items[k + 1].image => f.images = b.images
  BY DEF Returned
<1>14. \A n : Shown(b, n) => Shown(f, n)
  <2>1. f.images = b.images \/ \E x : f.images = Append(b.images, x)  BY <1>13
  <2>2. QED  BY <2>1, <1>1, <1>4, <1>6, ShownKept
<1>15. Carries(b) => Carries(f)  BY <1>1, <1>4, <1>6, CarriesKept
<1>16. ASSUME items[k + 1].image PROVE Shown(f, items[k + 1].n)
  <2> DEFINE u == b.images
             v == f.images
             n == items[k + 1].n
  <2>1. u \in Seq(Int)  BY <1>4, AccFields
  <2>2. v = Append(u, n) /\ n \in Int  BY <1>13, <1>16, <1>7
  <2> HIDE DEF u, v, n
  <2>3. PICK c \in 1 .. Len(v) : v[c] = n
    <3>1. PICK j \in Nat : j = Len(u)  BY <2>1
    <3>2. Len(v) = j + 1 /\ v[j + 1] = n  BY <2>1, <2>2, <3>1
    <3>3. j + 1 \in 1 .. Len(v)  BY <3>2
    <3>4. QED  BY <3>2, <3>3
  <2>4. QED  BY <2>3 DEF Shown, v, n
<1>17. \E i \in 1 .. Len(f.out) : f.out[i].role = "tool" /\ f.out[i].n = items[k + 1].n
  <2>1. l + 1 \in 1 .. Len(f.out)  BY <1>6
  <2>2. QED  BY <2>1, <1>2, <1>6
<1>18. QED  BY <1>1, <1>3, <1>6, <1>8, <1>9, <1>11, <1>12, <1>14, <1>15, <1>16, <1>17, MappingNext

LEMMA MappingSaid ==
  ASSUME NEW b, NEW items, NEW k \in Nat, Mapping(b, items, k),
         Told(items), k + 1 \in 1 .. Len(items),
         items[k + 1].type \notin {"call", "reasoning", "output"},
         NEW f, NEW a, NEW role, NEW why, NEW n,
         Said(b, f, a, why), a.role = role, a.n = n, a.calls = <<>>,
         role \in {"assistant", "user"},
         Carrier(items[k + 1]) => role = "assistant",
         Spoken(items[k + 1]) => n = items[k + 1].n,
         ~Spoken(items[k + 1]) => n = 0,
         \/ why = b.why /\ (role = "user" \/ a.why = <<>>)
         \/ why = <<>> /\ a.why = b.why /\ role = "assistant"
  PROVE  Mapping(f, items, k + 1)
<1>1. f \in Acc /\ a \in Msg /\ f.out = Append(b.out, a) /\ f.calls = b.calls
      /\ f.images = b.images /\ f.why = why
  BY DEF Said
<1>2. a.role = role /\ a.n = n /\ a.calls = <<>>  OBVIOUS
<1>4. b \in Acc /\ WellFormed(b.out) /\ HeardIn(b, items, k)  BY DEF Mapping
<1>5. PICK l \in Nat : l = Len(b.out)
  <2>1. b.out \in Seq(Msg)  BY <1>4, AccFields
  <2>2. QED  BY <2>1
<1>6. OutKept(b, f) /\ Len(f.out) = l + 1 /\ f.out[l + 1] = a
  BY <1>1, <1>4, <1>5, OutAppended
<1>7. items[k + 1].n > 0 /\ items[k + 1].n \in Int  BY ToldItem
<1>8. WellFormed(f.out)
  <2>1. a.role # "tool"  BY <1>2
  <2>2. QED  BY <2>1, <1>1, <1>2, <1>4, FormAppended
<1>9. HeardIn(f, items, k + 1)
  <2>1. CASE Spoken(items[k + 1])
    <3>1. Heard(a) /\ a.n = items[k + 1].n  BY <2>1, <1>2, <1>7 DEF Heard
    <3>2. QED  BY <2>1, <3>1, <1>1, <1>4, HeardAdded
  <2>2. CASE ~Spoken(items[k + 1])
    <3>1. ~Heard(a)  BY <2>2, <1>2 DEF Heard
    <3>2. \A i \in l + 1 .. l + 1 : i = l + 1  OBVIOUS
    <3>3. \A i \in Len(b.out) + 1 .. Len(f.out) : ~Heard(f.out[i])  BY <3>1, <3>2, <1>5, <1>6
    <3>4. QED  BY <2>2, <3>3, <1>1, <1>4, <1>6, HeardKept
  <2>3. QED  BY <2>1, <2>2
<1>10. RowsKept(CallRows(b), Len(b.out), CallRows(f), Len(f.out))
  BY <1>1, <1>2, <1>4, RowsAppended
<1>11. RowsKept(WhyRows(b), Len(b.out), WhyRows(f), Len(f.out))
  <2>1. CASE why = b.why /\ (role = "user" \/ a.why = <<>>)
    <3>1. (a.role # "assistant" \/ a.why = <<>>) /\ f.why = b.why  BY <2>1, <1>1, <1>2
    <3>2. QED  BY <3>1, <1>1, <1>4, RowsAppended
  <2>2. CASE why = <<>> /\ a.why = b.why /\ role = "assistant"
    <3>1. a.role = "assistant" /\ a.why = b.why /\ f.why = <<>>  BY <2>2, <1>1, <1>2
    <3>2. QED  BY <3>1, <1>1, <1>4, RowsAppended
  <2>3. QED  BY <2>1, <2>2
<1>12. Tally(CallRows(f), Len(f.out), items, k + 1, "call")
  <2>1. Tally(CallRows(b), Len(b.out), items, k + 1, "call")  BY TallyNext DEF Mapping
  <2>2. QED  BY <2>1, <1>10, TallyKept
<1>13. Tally(WhyRows(f), Len(f.out), items, k + 1, "reasoning")
  <2>1. Tally(WhyRows(b), Len(b.out), items, k + 1, "reasoning")  BY TallyNext DEF Mapping
  <2>2. QED  BY <2>1, <1>11, TallyKept
<1>14. \A i : Shown(b, i) => Shown(f, i)  BY <1>1, <1>4, <1>6, ShownKept
<1>15. Carries(b) => Carries(f)  BY <1>1, <1>4, <1>6, CarriesKept
<1>16. ASSUME Carrier(items[k + 1]) PROVE Carries(f)
  <2>1. l + 1 \in 1 .. Len(f.out)  BY <1>6
  <2>2. QED  BY <2>1, <1>2, <1>6, <1>16 DEF Carries
<1>17. items[k + 1].type # "output"  OBVIOUS
<1>18. QED  BY <1>1, <1>6, <1>8, <1>9, <1>12, <1>13, <1>14, <1>15, <1>16, <1>17, MappingNext

LEMMA MappingAdded ==
  ASSUME NEW m, NEW items, NEW k \in Nat, Mapping(m, items, k),
         Told(items), k + 1 \in 1 .. Len(items)
  PROVE  Mapping(AddItem(m, items[k + 1]), items, k + 1)
<1> DEFINE it == items[k + 1]
           f == AddItem(m, it)
<1>0. m \in Acc /\ it \in It /\ it.type \in ItemTypes
  <2>1. m \in Acc  BY DEF Mapping
  <2>2. QED  BY <2>1, ToldItem
<1>1. CASE it.type = "reasoning"
  <2>1. f = AddReasoning(m, it)  BY <1>1 DEF AddItem
  <2> HIDE DEF it, f
  <2>2. PICK b : FlushedImages(m, b) /\ Reasoned(b, f, it.n)  BY <2>1, <1>0, ReasonedFields
  <2>3. Mapping(b, items, k)
    <3>1. Flushed(m, b)  BY <2>2, <1>0, ImagesFlushed
    <3>2. QED  BY <3>1, MappingFlushed
  <2>4. items[k + 1].type = "reasoning" /\ Reasoned(b, f, items[k + 1].n)  BY <2>2, <1>1 DEF it
  <2>5. Mapping(f, items, k + 1)  BY <2>3, <2>4, MappingReasoned
  <2>6. QED  BY <2>5 DEF f, it
<1>2. CASE it.type = "search_call"
  <2>1. f = m  BY <1>2 DEF AddItem
  <2>2. Mapping(m, items, k + 1)  BY <1>2, MappingSkipped
  <2>3. QED  BY <2>1, <2>2
<1>3. CASE it.type = "image_call"
  <2>1. f = AddImageCall(m, it)  BY <1>3 DEF AddItem
  <2> HIDE DEF it, f
  <2>2. PICK b, c, a : /\ FlushedCalls(m, b) /\ FlushedImages(b, c)
                       /\ Plain(a, "assistant", it.n, <<>>) /\ Said(c, f, a, c.why)
    BY <2>1, <1>0, ImageCallFields
  <2>3. Mapping(c, items, k)
    <3>1. Flushed(m, b)  BY <2>2, <1>0, CallsFlushed
    <3>2. b \in Acc  BY <2>2 DEF FlushedCalls
    <3>3. Flushed(b, c)  BY <2>2, <3>2, ImagesFlushed
    <3>4. Mapping(b, items, k)  BY <3>1, MappingFlushed
    <3>5. QED  BY <3>3, <3>4, MappingFlushed
  <2>4. a.role = "assistant" /\ a.n = it.n /\ a.calls = <<>> /\ a.why = <<>>  BY <2>2 DEF Plain
  <2>5. items[k + 1].type = "image_call" /\ it.n = items[k + 1].n  BY <1>3 DEF it
  <2>6. Spoken(items[k + 1])  BY <2>5 DEF Spoken
  <2>7. items[k + 1].type \notin {"call", "reasoning", "output"}  BY <2>5
  <2> DEFINE n == it.n
             why == c.why
  <2>8. /\ Said(c, f, a, why) /\ why = c.why /\ n = items[k + 1].n /\ a.n = n
    BY <2>2, <2>4, <2>5
  <2> HIDE DEF n, why
  <2>9. Mapping(f, items, k + 1)  BY <2>3, <2>4, <2>6, <2>7, <2>8, MappingSaid
  <2>10. QED  BY <2>9 DEF f, it
<1>4. CASE it.type = "output"
  <2>1. f = AddOutput(m, it)  BY <1>4 DEF AddItem
  <2> HIDE DEF it, f
  <2>2. PICK b : FlushedCalls(m, b) /\ Returned(b, f, it)  BY <2>1, <1>0, ReturnedFields
  <2>3. Mapping(b, items, k)
    <3>1. Flushed(m, b)  BY <2>2, <1>0, CallsFlushed
    <3>2. QED  BY <3>1, MappingFlushed
  <2>4. items[k + 1].type = "output" /\ Returned(b, f, items[k + 1])  BY <2>2, <1>4 DEF it
  <2>5. Mapping(f, items, k + 1)  BY <2>3, <2>4, MappingReturned
  <2>6. QED  BY <2>5 DEF f, it
<1>5. CASE it.type = "call"
  <2>1. f = AddCall(m, it)  BY <1>5 DEF AddItem
  <2> HIDE DEF it, f
  <2>2. PICK b : FlushedImages(m, b) /\ Called(b, f, it)  BY <2>1, <1>0, CalledFields
  <2>3. Mapping(b, items, k)
    <3>1. Flushed(m, b)  BY <2>2, <1>0, ImagesFlushed
    <3>2. QED  BY <3>1, MappingFlushed
  <2>4. items[k + 1].type = "call" /\ Called(b, f, items[k + 1])  BY <2>2, <1>5 DEF it
  <2>5. Mapping(f, items, k + 1)  BY <2>3, <2>4, MappingCalled
  <2>6. QED  BY <2>5 DEF f, it
<1>6. CASE it.type \notin {"reasoning", "search_call", "image_call", "output", "call"}
  <2>1. f = AddMessage(m, it)  BY <1>6 DEF AddItem
  <2> HIDE DEF it, f
  <2>2. PICK b, c, a : /\ FlushedImages(m, b) /\ FlushedCalls(b, c)
                       /\ it.type = "assistant" => /\ Plain(a, "assistant", it.n, c.why)
                                                   /\ Said(c, f, a, <<>>)
                       /\ it.type # "assistant" =>
                            /\ Plain(a, "user", IF it.type = "user" THEN it.n ELSE 0, <<>>)
                            /\ Said(c, f, a, c.why)
    BY <2>1, <1>0, MessageFields
  <2>3. Mapping(c, items, k)
    <3>1. Flushed(m, b)  BY <2>2, <1>0, ImagesFlushed
    <3>2. b \in Acc  BY <2>2 DEF FlushedImages
    <3>3. Flushed(b, c)  BY <2>2, <3>2, CallsFlushed
    <3>4. Mapping(b, items, k)  BY <3>1, MappingFlushed
    <3>5. QED  BY <3>3, <3>4, MappingFlushed
  <2>4. items[k + 1].type = it.type /\ it.n = items[k + 1].n  BY DEF it
  <2>5. items[k + 1].type \notin {"call", "reasoning", "output"}  BY <1>6, <2>4
  <2>6. CASE it.type = "assistant"
    <3> DEFINE n == it.n
               why == <<>>
    <3>1. Said(c, f, a, why) /\ a.role = "assistant" /\ a.n = n /\ a.calls = <<>>
          /\ a.why = c.why /\ why = <<>> /\ n = items[k + 1].n
      BY <2>2, <2>4, <2>6 DEF Plain
    <3>2. Spoken(items[k + 1])  BY <2>4, <2>6 DEF Spoken
    <3> HIDE DEF n, why
    <3>3. Mapping(f, items, k + 1)  BY <2>3, <2>5, <3>1, <3>2, MappingSaid
    <3>4. QED  BY <3>3 DEF f, it
  <2>7. CASE it.type # "assistant"
    <3> DEFINE n == IF it.type = "user" THEN it.n ELSE 0
               why == c.why
    <3>1. Said(c, f, a, why) /\ a.role = "user" /\ a.n = n /\ a.calls = <<>> /\ why = c.why
      BY <2>2, <2>7 DEF Plain
    <3>2. Spoken(items[k + 1]) => n = items[k + 1].n  BY <2>4, <2>7, <1>6 DEF Spoken
    <3>3. ~Spoken(items[k + 1]) => n = 0  BY <2>4 DEF Spoken
    <3>4. ~Carrier(items[k + 1])  BY <2>4, <2>7, <1>6 DEF Carrier
    <3> HIDE DEF n, why
    <3>5. Mapping(f, items, k + 1)  BY <2>3, <2>5, <3>1, <3>2, <3>3, <3>4, MappingSaid
    <3>6. QED  BY <3>5 DEF f, it
  <2>8. QED  BY <2>6, <2>7
<1>7. QED  BY <1>1, <1>2, <1>3, <1>4, <1>5, <1>6

(* Where the outputs of calls go: calls wait until something else than calls *)
(* and reasoning comes, and the outputs that then come follow their message. *)
Calm(it) == it.type \in {"call", "reasoning", "search_call"}
Back(it) == it.type \in {"output", "search_call"}
AskedBy(items, p) == items[p].type = "call" /\ items[p].n > 0

Succeeds(items, p, r, q) ==
    /\ p < r /\ r <= q /\ AskedBy(items, p)
    /\ \A j \in p .. r - 1 : Calm(items[j])
    /\ \A j \in r .. q : Back(items[j])

Asked(out, i, n) == i \in 1 .. Len(out) /\ \E c \in 1 .. Len(out[i].calls) : out[i].calls[c].n = n

Waiting(m, items, k) ==
    \A p \in 1 .. k : AskedBy(items, p) /\ (\A j \in p .. k : Calm(items[j])) =>
      \E c \in 1 .. Len(m.calls) : m.calls[c].n = items[p].n

Answering(m, items, k) ==
    \A p, r \in 1 .. k : Succeeds(items, p, r, k) /\ (\E j \in r .. k : items[j].type = "output") =>
      /\ m.calls = <<>>
      /\ \E i : Asked(m.out, i, items[p].n) /\ \A t \in i + 1 .. Len(m.out) : m.out[t].role = "tool"

AnsweredIn(out, items, k) ==
    \A q \in 1 .. k : \A p, r \in 1 .. q : Succeeds(items, p, r, q) /\ items[q].type = "output" =>
      \E i, j : Asked(out, i, items[p].n) /\ j \in Run(out, i) /\ out[j].call = Given(items[q])

Open(m, items, k) ==
    m \in Acc /\ Waiting(m, items, k) /\ Answering(m, items, k) /\ AnsweredIn(m.out, items, k)

LEMMA RunStays ==
  ASSUME NEW m \in Acc, NEW f \in Acc, OutKept(m, f), NEW i, NEW n, Asked(m.out, i, n)
  PROVE  /\ Asked(f.out, i, n) /\ f.out[i] = m.out[i]
         /\ \A j \in Run(m.out, i) : j \in Run(f.out, i) /\ f.out[j] = m.out[j]
<1>1. m.out \in Seq(Msg) /\ f.out \in Seq(Msg)  BY AccFields
<1>2. PICK l, k \in Nat : l = Len(m.out) /\ k = Len(f.out)  BY <1>1
<1>3. DOMAIN m.out = 1 .. l /\ DOMAIN f.out = 1 .. k  BY <1>1, <1>2
<1>4. l <= k /\ \A x \in 1 .. l : f.out[x] = m.out[x] /\ x \in 1 .. k  BY <1>2 DEF OutKept
<1>5. i \in 1 .. l  BY <1>2 DEF Asked
<1>6. f.out[i] = m.out[i] /\ i \in 1 .. k  BY <1>4, <1>5
<1>7. Asked(f.out, i, n)  BY <1>2, <1>6 DEF Asked
<1>8. ASSUME NEW j \in Run(m.out, i) PROVE j \in Run(f.out, i) /\ f.out[j] = m.out[j]
  <2>1. j \in 1 .. l /\ j > i /\ \A x \in i + 1 .. j : m.out[x].role = "tool"  BY <1>3 DEF Run
  <2>2. \A x \in i + 1 .. j : f.out[x].role = "tool"
    <3>1. \A x \in i + 1 .. j : x \in 1 .. l  BY <2>1, <1>5
    <3>2. QED  BY <3>1, <2>1, <1>4
  <2>3. j \in DOMAIN f.out /\ f.out[j] = m.out[j]  BY <2>1, <1>3, <1>4
  <2>4. QED  BY <2>1, <2>2, <2>3 DEF Run
<1>9. QED  BY <1>6, <1>7, <1>8

LEMMA AnsweredKept ==
  ASSUME NEW m \in Acc, NEW f \in Acc, OutKept(m, f), NEW items, NEW k \in Nat,
         AnsweredIn(m.out, items, k)
  PROVE  AnsweredIn(f.out, items, k)
<1>1. SUFFICES ASSUME NEW q \in 1 .. k, NEW p \in 1 .. q, NEW r \in 1 .. q,
                      Succeeds(items, p, r, q), items[q].type = "output"
               PROVE  \E i, j : /\ Asked(f.out, i, items[p].n) /\ j \in Run(f.out, i)
                                /\ f.out[j].call = Given(items[q])
  BY DEF AnsweredIn
<1>2. PICK i, j : Asked(m.out, i, items[p].n) /\ j \in Run(m.out, i) /\ m.out[j].call = Given(items[q])
  BY <1>1 DEF AnsweredIn
<1>3. Asked(f.out, i, items[p].n) /\ j \in Run(f.out, i) /\ f.out[j] = m.out[j]
  BY <1>2, RunStays
<1>4. QED  BY <1>2, <1>3

LEMMA AnsweredNext ==
  ASSUME NEW out, NEW items, NEW k \in Nat, AnsweredIn(out, items, k), items[k + 1].type # "output"
  PROVE  AnsweredIn(out, items, k + 1)
<1>1. \A q \in 1 .. k + 1 : q = k + 1 \/ q \in 1 .. k  OBVIOUS
<1>2. QED  BY <1>1 DEF AnsweredIn

(* Neither a call that waits nor an answer goes beyond other items. *)
LEMMA OpenClosed ==
  ASSUME NEW m, NEW f \in Acc, OutKept(m, f), NEW items, NEW k \in Nat, Open(m, items, k),
         ~Calm(items[k + 1]), ~Back(items[k + 1])
  PROVE  Open(f, items, k + 1)
<1>1. m \in Acc /\ AnsweredIn(m.out, items, k)  BY DEF Open
<1>2. AnsweredIn(f.out, items, k + 1)
  <2>1. items[k + 1].type # "output"  BY DEF Back
  <2>2. QED  BY <2>1, <1>1, AnsweredKept, AnsweredNext
<1>3. Waiting(f, items, k + 1)
  <2>1. \A p \in 1 .. k + 1 : k + 1 \in p .. k + 1  OBVIOUS
  <2>2. QED  BY <2>1 DEF Waiting
<1>4. Answering(f, items, k + 1)
  <2>1. \A r \in 1 .. k + 1 : k + 1 \in r .. k + 1  OBVIOUS
  <2>2. QED  BY <2>1 DEF Answering, Succeeds
<1>5. QED  BY <1>2, <1>3, <1>4 DEF Open

LEMMA OpenSkipped ==
  ASSUME NEW m, NEW items, NEW k \in Nat, Open(m, items, k), items[k + 1].type = "search_call"
  PROVE  Open(m, items, k + 1)
<1>1. m \in Acc /\ Waiting(m, items, k) /\ Answering(m, items, k) /\ AnsweredIn(m.out, items, k)
  BY DEF Open
<1>2. AnsweredIn(m.out, items, k + 1)  BY <1>1, AnsweredNext
<1>3. Waiting(m, items, k + 1)
  <2>1. SUFFICES ASSUME NEW p \in 1 .. k + 1, AskedBy(items, p), \A j \in p .. k + 1 : Calm(items[j])
                 PROVE  \E c \in 1 .. Len(m.calls) : m.calls[c].n = items[p].n
    BY DEF Waiting
  <2>2. p # k + 1  BY <2>1 DEF AskedBy
  <2>3. p \in 1 .. k /\ \A j \in p .. k : j \in p .. k + 1  BY <2>2
  <2>4. QED  BY <2>1, <2>3, <1>1 DEF Waiting
<1>4. Answering(m, items, k + 1)
  <2>1. SUFFICES ASSUME NEW p \in 1 .. k + 1, NEW r \in 1 .. k + 1, Succeeds(items, p, r, k + 1),
                        NEW o \in r .. k + 1, items[o].type = "output"
                 PROVE  /\ m.calls = <<>>
                        /\ \E i : /\ Asked(m.out, i, items[p].n)
                                  /\ \A t \in i + 1 .. Len(m.out) : m.out[t].role = "tool"
    BY DEF Answering
  <2>2. o # k + 1  BY <2>1
  <2>3. o \in r .. k /\ r \in 1 .. k /\ p \in 1 .. k  BY <2>1, <2>2 DEF Succeeds
  <2>4. Succeeds(items, p, r, k)
    <3>1. \A j \in r .. k : j \in r .. k + 1  BY <2>3
    <3>2. QED  BY <3>1, <2>1, <2>3 DEF Succeeds
  <2>5. QED  BY <2>1, <2>3, <2>4, <1>1 DEF Answering
<1>5. QED  BY <1>1, <1>2, <1>3, <1>4 DEF Open

LEMMA OpenCalm ==
  ASSUME NEW m, NEW f \in Acc, OutKept(m, f), NEW items, NEW k \in Nat, Open(m, items, k),
         items[k + 1].type \in {"reasoning", "call"},
         \A c \in 1 .. Len(m.calls) : \E d \in 1 .. Len(f.calls) : f.calls[d].n = m.calls[c].n,
         items[k + 1].type = "call" => \E d \in 1 .. Len(f.calls) : f.calls[d].n = items[k + 1].n
  PROVE  Open(f, items, k + 1)
<1>1. m \in Acc /\ Waiting(m, items, k) /\ AnsweredIn(m.out, items, k)  BY DEF Open
<1>2. AnsweredIn(f.out, items, k + 1)
  <2>1. items[k + 1].type # "output"  OBVIOUS
  <2>2. QED  BY <2>1, <1>1, AnsweredKept, AnsweredNext
<1>3. Waiting(f, items, k + 1)
  <2>1. SUFFICES ASSUME NEW p \in 1 .. k + 1, AskedBy(items, p), \A j \in p .. k + 1 : Calm(items[j])
                 PROVE  \E d \in 1 .. Len(f.calls) : f.calls[d].n = items[p].n
    BY DEF Waiting
  <2>2. CASE p = k + 1  BY <2>1, <2>2 DEF AskedBy
  <2>3. CASE p # k + 1
    <3>1. p \in 1 .. k /\ \A j \in p .. k : j \in p .. k + 1  BY <2>3
    <3>2. PICK c \in 1 .. Len(m.calls) : m.calls[c].n = items[p].n  BY <2>1, <3>1, <1>1 DEF Waiting
    <3>3. QED  BY <3>2
  <2>4. QED  BY <2>2, <2>3
<1>4. Answering(f, items, k + 1)
  <2>1. \A r \in 1 .. k + 1 : k + 1 \in r .. k + 1  OBVIOUS
  <2>2. ~Back(items[k + 1])  BY DEF Back
  <2>3. QED  BY <2>1, <2>2 DEF Answering, Succeeds
<1>5. QED  BY <1>2, <1>3, <1>4 DEF Open

(* An output follows the message of the calls before it. *)
LEMMA OpenReturned ==
  ASSUME NEW m, NEW b, NEW f, NEW items, NEW k \in Nat, Open(m, items, k), FlushedCalls(m, b),
         items[k + 1].type = "output", Returned(b, f, items[k + 1])
  PROVE  Open(f, items, k + 1)
<1> DEFINE L == Len(f.out)
<1>1. /\ m \in Acc /\ Waiting(m, items, k) /\ Answering(m, items, k) /\ AnsweredIn(m.out, items, k)
  BY DEF Open
<1>2. b \in Acc /\ b.calls = <<>> /\ f \in Acc /\ f.calls = <<>>  BY DEF FlushedCalls, Returned
<1>3. PICK a \in Msg : /\ f.out = Append(b.out, a)
                       /\ a.role = "tool" /\ a.call = Given(items[k + 1])
  BY DEF Returned
<1>4. PICK l \in Nat : l = Len(b.out)
  <2>1. b.out \in Seq(Msg)  BY <1>2, AccFields
  <2>2. QED  BY <2>1
<1>5. /\ OutKept(b, f) /\ L = l + 1 /\ f.out[l + 1] = a
      /\ \A i \in 1 .. l : f.out[i] = b.out[i]
      /\ DOMAIN f.out = 1 .. l + 1
  <2>1. f.out \in Seq(Msg)  BY <1>2, AccFields
  <2>2. QED  BY <2>1, <1>2, <1>3, <1>4, OutAppended
<1>6. OutKept(m, b)
  <2>1. Flushed(m, b)  BY <1>1, CallsFlushed
  <2>2. QED  BY <2>1 DEF Flushed
<1> HIDE DEF L
<1>7. ASSUME NEW p \in 1 .. k + 1, NEW r \in 1 .. k + 1, Succeeds(items, p, r, k + 1)
      PROVE  \E i \in 1 .. l : /\ Asked(f.out, i, items[p].n)
                               /\ \A t \in i + 1 .. l + 1 : f.out[t].role = "tool"
  <2>0. p < r /\ r <= k + 1 /\ AskedBy(items, p) /\ p \in 1 .. k
        /\ (\A j \in p .. r - 1 : Calm(items[j])) /\ \A j \in r .. k + 1 : Back(items[j])
    BY <1>7 DEF Succeeds
  <2>1. \E i : /\ Asked(b.out, i, items[p].n)
               /\ \A t \in i + 1 .. Len(b.out) : b.out[t].role = "tool"
    <3>1. CASE \E j \in r .. k : items[j].type = "output"
      <4>1. r \in 1 .. k /\ \A j \in r .. k : j \in r .. k + 1  BY <3>1
      <4>2. Succeeds(items, p, r, k)  BY <4>1, <2>0 DEF Succeeds
      <4>3. /\ m.calls = <<>>
            /\ \E i : /\ Asked(m.out, i, items[p].n)
                      /\ \A t \in i + 1 .. Len(m.out) : m.out[t].role = "tool"
        BY <4>1, <4>2, <3>1, <2>0, <1>1 DEF Answering
      <4>4. b = m  BY <4>3 DEF FlushedCalls
      <4>5. QED  BY <4>3, <4>4
    <3>2. CASE ~\E j \in r .. k : items[j].type = "output"
      <4>1. \A j \in p .. k : Calm(items[j])
        <5>1. SUFFICES ASSUME NEW j \in p .. k PROVE Calm(items[j])  OBVIOUS
        <5>2. CASE j <= r - 1
          <6>1. j \in p .. r - 1  BY <5>2, <2>0
          <6>2. QED  BY <6>1, <2>0
        <5>3. CASE j > r - 1
          <6>1. j \in r .. k /\ j \in r .. k + 1  BY <5>3, <2>0
          <6>2. Back(items[j]) /\ items[j].type # "output"  BY <6>1, <2>0, <3>2
          <6>3. QED  BY <6>2 DEF Back, Calm
        <5>4. r \in Int /\ j \in Int  OBVIOUS
        <5>5. QED  BY <5>2, <5>3, <5>4
      <4>2. PICK c \in 1 .. Len(m.calls) : m.calls[c].n = items[p].n
        BY <4>1, <2>0, <1>1 DEF Waiting
      <4>3. m.calls # <<>>
        <5>1. Len(<<>>) = 0  OBVIOUS
        <5>2. CASE m.calls = <<>>
          <6>1. c \in 1 .. 0  BY <5>1, <5>2, <4>2
          <6>2. QED  BY <6>1
        <5>3. QED  BY <5>2
      <4>4. PICK d \in Msg : b.out = Append(m.out, d) /\ d.calls = m.calls
        BY <4>3 DEF FlushedCalls
      <4>5. /\ Len(m.out) \in Nat /\ Len(b.out) = Len(m.out) + 1 /\ b.out[Len(m.out) + 1] = d
        BY <4>4, <1>1, <1>2, OutAppended
      <4>6. Asked(b.out, Len(m.out) + 1, items[p].n)
        <5>1. Len(m.out) + 1 \in 1 .. Len(b.out)  BY <4>5
        <5>2. QED  BY <5>1, <4>2, <4>4, <4>5 DEF Asked
      <4>7. \A t \in Len(m.out) + 2 .. Len(b.out) : FALSE  BY <4>5
      <4>8. (Len(m.out) + 1) + 1 = Len(m.out) + 2  BY <4>5
      <4>9. QED  BY <4>6, <4>7, <4>8
    <3>3. QED  BY <3>1, <3>2
  <2>2. PICK i : /\ Asked(b.out, i, items[p].n)
                 /\ \A t \in i + 1 .. Len(b.out) : b.out[t].role = "tool"
    BY <2>1
  <2>3. i \in 1 .. l  BY <2>2, <1>4 DEF Asked
  <2>4. Asked(f.out, i, items[p].n)  BY <2>2, <1>2, <1>5, RunStays
  <2>5. ASSUME NEW t \in i + 1 .. l + 1 PROVE f.out[t].role = "tool"
    <3>1. CASE t = l + 1  BY <3>1, <1>3, <1>5
    <3>2. CASE t # l + 1
      <4>1. t \in i + 1 .. Len(b.out) /\ t \in 1 .. l  BY <3>2, <2>3, <1>4
      <4>2. QED  BY <4>1, <2>2, <1>5
    <3>3. QED  BY <3>1, <3>2
  <2>6. QED  BY <2>3, <2>4, <2>5
<1>8. Answering(f, items, k + 1)
  <2>1. ASSUME NEW p \in 1 .. k + 1, NEW r \in 1 .. k + 1, Succeeds(items, p, r, k + 1)
        PROVE  /\ f.calls = <<>>
               /\ \E i : /\ Asked(f.out, i, items[p].n)
                         /\ \A t \in i + 1 .. Len(f.out) : f.out[t].role = "tool"
    <3>1. PICK i \in 1 .. l : /\ Asked(f.out, i, items[p].n)
                              /\ \A t \in i + 1 .. l + 1 : f.out[t].role = "tool"
      BY <2>1, <1>7
    <3>2. Len(f.out) = l + 1  BY <1>5 DEF L
    <3>3. QED  BY <3>1, <3>2, <1>2
  <2>2. QED  BY <2>1 DEF Answering
<1>9. Waiting(f, items, k + 1)
  <2>1. \A p \in 1 .. k + 1 : k + 1 \in p .. k + 1  OBVIOUS
  <2>2. ~Calm(items[k + 1])  BY DEF Calm
  <2>3. QED  BY <2>1, <2>2 DEF Waiting
<1>10. AnsweredIn(f.out, items, k + 1)
  <2>1. AnsweredIn(f.out, items, k)
    <3>1. OutKept(m, f)  BY <1>1, <1>2, <1>5, <1>6, OutKeptThrough
    <3>2. QED  BY <3>1, <1>1, <1>2, AnsweredKept
  <2>2. ASSUME NEW p \in 1 .. k + 1, NEW r \in 1 .. k + 1, Succeeds(items, p, r, k + 1)
        PROVE  \E i, j : /\ Asked(f.out, i, items[p].n) /\ j \in Run(f.out, i)
                         /\ f.out[j].call = Given(items[k + 1])
    <3>1. PICK i \in 1 .. l : /\ Asked(f.out, i, items[p].n)
                              /\ \A t \in i + 1 .. l + 1 : f.out[t].role = "tool"
      BY <2>2, <1>7
    <3>2. l + 1 \in Run(f.out, i)
      <4>1. l + 1 \in DOMAIN f.out /\ l + 1 > i  BY <1>5
      <4>2. QED  BY <4>1, <3>1 DEF Run
    <3>3. f.out[l + 1].call = Given(items[k + 1])  BY <1>3, <1>5
    <3>4. QED  BY <3>1, <3>2, <3>3
  <2>3. SUFFICES ASSUME NEW q \in 1 .. k + 1, NEW p \in 1 .. q, NEW r \in 1 .. q,
                        Succeeds(items, p, r, q), items[q].type = "output"
                 PROVE  \E i, j : /\ Asked(f.out, i, items[p].n) /\ j \in Run(f.out, i)
                                  /\ f.out[j].call = Given(items[q])
    BY DEF AnsweredIn
  <2>4. CASE q = k + 1  BY <2>2, <2>3, <2>4
  <2>5. CASE q \in 1 .. k  BY <2>1, <2>3, <2>5 DEF AnsweredIn
  <2>6. q = k + 1 \/ q \in 1 .. k  OBVIOUS
  <2>7. QED  BY <2>4, <2>5, <2>6
<1>11. QED  BY <1>2, <1>8, <1>9, <1>10 DEF Open

LEMMA OutFlushed ==
  ASSUME NEW m \in Acc, NEW f, Flushed(m, f)
  PROVE  f \in Acc /\ OutKept(m, f)
BY DEF Flushed

LEMMA OpenAdded ==
  ASSUME NEW m, NEW items, NEW k \in Nat, Open(m, items, k), items[k + 1] \in It
  PROVE  Open(AddItem(m, items[k + 1]), items, k + 1)
<1> DEFINE it == items[k + 1]
           f == AddItem(m, it)
<1>0. m \in Acc /\ it \in It  BY DEF Open
<1>1. CASE it.type = "reasoning"
  <2>1. f = AddReasoning(m, it)  BY <1>1 DEF AddItem
  <2> HIDE DEF it, f
  <2>2. PICK b : FlushedImages(m, b) /\ Reasoned(b, f, it.n)  BY <2>1, <1>0, ReasonedFields
  <2>3. b \in Acc /\ OutKept(m, b)
    <3>1. Flushed(m, b)  BY <2>2, <1>0, ImagesFlushed
    <3>2. QED  BY <3>1, <1>0, OutFlushed
  <2>4. f \in Acc /\ f.out = b.out /\ f.calls = m.calls  BY <2>2 DEF Reasoned, FlushedImages
  <2>5. OutKept(m, f)
    <3>1. OutKept(b, f)  BY <2>3, <2>4, OutSame
    <3>2. QED  BY <3>1, <2>3, <2>4, <1>0, OutKeptThrough
  <2>6. items[k + 1].type = "reasoning"  BY <1>1 DEF it
  <2>7. \A c \in 1 .. Len(m.calls) : \E d \in 1 .. Len(f.calls) : f.calls[d].n = m.calls[c].n
    BY <2>4
  <2>8. Open(f, items, k + 1)  BY <2>4, <2>5, <2>6, <2>7, OpenCalm
  <2>9. QED  BY <2>8 DEF f, it
<1>2. CASE it.type = "search_call"
  <2>1. f = m  BY <1>2 DEF AddItem
  <2>2. Open(m, items, k + 1)  BY <1>2, OpenSkipped
  <2>3. QED  BY <2>1, <2>2
<1>3. CASE it.type = "image_call"
  <2>1. f = AddImageCall(m, it)  BY <1>3 DEF AddItem
  <2> HIDE DEF it, f
  <2>2. PICK b, c, a : /\ FlushedCalls(m, b) /\ FlushedImages(b, c)
                       /\ Said(c, f, a, c.why)
    BY <2>1, <1>0, ImageCallFields
  <2>3. b \in Acc /\ OutKept(m, b)
    <3>1. Flushed(m, b)  BY <2>2, <1>0, CallsFlushed
    <3>2. QED  BY <3>1, <1>0, OutFlushed
  <2>4. c \in Acc /\ OutKept(b, c)
    <3>1. Flushed(b, c)  BY <2>2, <2>3, ImagesFlushed
    <3>2. QED  BY <3>1, <2>3, OutFlushed
  <2>5. f \in Acc /\ OutKept(c, f)
    <3>1. f \in Acc /\ a \in Msg /\ f.out = Append(c.out, a)  BY <2>2 DEF Said
    <3>2. QED  BY <3>1, <2>4, OutAppended
  <2>6. OutKept(m, f)
    <3>1. OutKept(m, c)  BY <2>3, <2>4, <1>0, OutKeptThrough
    <3>2. QED  BY <3>1, <2>4, <2>5, <1>0, OutKeptThrough
  <2>7. ~Calm(items[k + 1]) /\ ~Back(items[k + 1])  BY <1>3 DEF it, Calm, Back
  <2>8. Open(f, items, k + 1)  BY <2>5, <2>6, <2>7, OpenClosed
  <2>9. QED  BY <2>8 DEF f, it
<1>4. CASE it.type = "output"
  <2>1. f = AddOutput(m, it)  BY <1>4 DEF AddItem
  <2> HIDE DEF it, f
  <2>2. PICK b : FlushedCalls(m, b) /\ Returned(b, f, it)  BY <2>1, <1>0, ReturnedFields
  <2>3. items[k + 1].type = "output" /\ Returned(b, f, items[k + 1])  BY <2>2, <1>4 DEF it
  <2>4. Open(f, items, k + 1)  BY <2>2, <2>3, OpenReturned
  <2>5. QED  BY <2>4 DEF f, it
<1>5. CASE it.type = "call"
  <2>1. f = AddCall(m, it)  BY <1>5 DEF AddItem
  <2> HIDE DEF it, f
  <2>2. PICK b : FlushedImages(m, b) /\ Called(b, f, it)  BY <2>1, <1>0, CalledFields
  <2>3. b \in Acc /\ OutKept(m, b)
    <3>1. Flushed(m, b)  BY <2>2, <1>0, ImagesFlushed
    <3>2. QED  BY <3>1, <1>0, OutFlushed
  <2>4. f \in Acc /\ f.out = b.out /\ b.calls = m.calls  BY <2>2 DEF Called, FlushedImages
  <2>5. OutKept(m, f)
    <3>1. OutKept(b, f)  BY <2>3, <2>4, OutSame
    <3>2. QED  BY <3>1, <2>3, <2>4, <1>0, OutKeptThrough
  <2>6. items[k + 1].type = "call" /\ items[k + 1].n = it.n  BY <1>5 DEF it
  <2>7. PICK x \in Asks : x.n = it.n /\ f.calls = Append(b.calls, x)  BY <2>2 DEF Called
  <2> DEFINE u == m.calls
             v == f.calls
  <2>8. u \in Seq(Asks) /\ v = Append(u, x)
    <3>1. m.calls \in Seq(Asks)  BY <1>0, AccFields
    <3>2. QED  BY <3>1, <2>4, <2>7
  <2> HIDE DEF u, v
  <2>9. PICK l \in Nat : l = Len(u)  BY <2>8
  <2>10. Len(v) = l + 1 /\ v[l + 1] = x /\ \A c \in 1 .. l : v[c] = u[c] /\ c \in 1 .. l + 1
    BY <2>8, <2>9
  <2>11. \A c \in 1 .. Len(u) : \E d \in 1 .. Len(v) : v[d].n = u[c].n
    BY <2>9, <2>10
  <2>12. \E d \in 1 .. Len(v) : v[d].n = items[k + 1].n
    <3>1. l + 1 \in 1 .. Len(v)  BY <2>10
    <3>2. QED  BY <3>1, <2>6, <2>7, <2>10
  <2>13. /\ \A c \in 1 .. Len(m.calls) : \E d \in 1 .. Len(f.calls) : f.calls[d].n = m.calls[c].n
         /\ \E d \in 1 .. Len(f.calls) : f.calls[d].n = items[k + 1].n
    BY <2>11, <2>12 DEF u, v
  <2>14. Open(f, items, k + 1)  BY <2>4, <2>5, <2>6, <2>13, OpenCalm
  <2>15. QED  BY <2>14 DEF f, it
<1>6. CASE it.type \notin {"reasoning", "search_call", "image_call", "output", "call"}
  <2>1. f = AddMessage(m, it)  BY <1>6 DEF AddItem
  <2> HIDE DEF it, f
  <2>2. PICK b, c, a : /\ FlushedImages(m, b) /\ FlushedCalls(b, c)
                       /\ it.type = "assistant" => Said(c, f, a, <<>>)
                       /\ it.type # "assistant" => Said(c, f, a, c.why)
    BY <2>1, <1>0, MessageFields
  <2>3. b \in Acc /\ OutKept(m, b)
    <3>1. Flushed(m, b)  BY <2>2, <1>0, ImagesFlushed
    <3>2. QED  BY <3>1, <1>0, OutFlushed
  <2>4. c \in Acc /\ OutKept(b, c)
    <3>1. Flushed(b, c)  BY <2>2, <2>3, CallsFlushed
    <3>2. QED  BY <3>1, <2>3, OutFlushed
  <2>5. f \in Acc /\ OutKept(c, f)
    <3>1. f \in Acc /\ a \in Msg /\ f.out = Append(c.out, a)  BY <2>2 DEF Said
    <3>2. QED  BY <3>1, <2>4, OutAppended
  <2>6. OutKept(m, f)
    <3>1. OutKept(m, c)  BY <2>3, <2>4, <1>0, OutKeptThrough
    <3>2. QED  BY <3>1, <2>4, <2>5, <1>0, OutKeptThrough
  <2>7. ~Calm(items[k + 1]) /\ ~Back(items[k + 1])  BY <1>6 DEF it, Calm, Back
  <2>8. Open(f, items, k + 1)  BY <2>5, <2>6, <2>7, OpenClosed
  <2>9. QED  BY <2>8 DEF f, it
<1>7. QED  BY <1>1, <1>2, <1>3, <1>4, <1>5, <1>6

CollectRun(f, items, n) ==
    f = [k \in 0 .. n |-> IF k = 0 THEN Empty ELSE AddItem(f[k - 1], items[k])]

(* What is collected, item by item. *)
LEMMA CollectRuns ==
  ASSUME NEW items, Len(items) \in Nat
  PROVE  \E f : /\ Collected(items) = f[Len(items)] /\ f[0] = Empty
                /\ \A i \in 1 .. Len(items) : f[i] = AddItem(f[i - 1], items[i])
<1> DEFINE N == Len(items)
           all == CHOOSE f : CollectRun(f, items, N)
           T == {m \in Nat : \E f : CollectRun(f, items, m)}
<1>1. Collected(items) = all[N]
  BY DEF Collected, CollectRun
<1>2. T = Nat
  <2>1. 0 \in T
    <3> DEFINE g == [k \in 0 .. 0 |-> Empty]
    <3>1. \A k \in 0 .. 0 : k = 0  OBVIOUS
    <3>2. CollectRun(g, items, 0)  BY <3>1 DEF CollectRun
    <3>3. QED  BY <3>2
  <2>2. ASSUME NEW m \in T PROVE m + 1 \in T
    <3>1. m \in Nat  OBVIOUS
    <3>2. PICK g : CollectRun(g, items, m)  OBVIOUS
    <3> DEFINE y == AddItem(g[m], items[m + 1])
               h == [k \in 0 .. (m + 1) |-> IF k = m + 1 THEN y ELSE g[k]]
               Then(f, k) == IF k = 0 THEN Empty ELSE AddItem(f[k - 1], items[k])
    <3>3. CollectRun(h, items, m + 1)
      <4>0. y = AddItem(g[m], items[m + 1])  OBVIOUS
      <4> HIDE DEF y
      <4>1. \A i \in 0 .. m : h[i] = g[i]  BY <3>1
      <4>2. h[m + 1] = y  BY <3>1
      <4>3. \A i \in 0 .. (m + 1) : h[i] = Then(h, i)
        <5> TAKE i \in 0 .. (m + 1)
        <5>1. CASE i = m + 1
          <6>1. i - 1 = m /\ i # 0 /\ m \in 0 .. m  BY <5>1, <3>1
          <6>2. h[i - 1] = g[m]  BY <6>1, <4>1
          <6>3. QED  BY <5>1, <6>1, <6>2, <4>0, <4>2
        <5>2. CASE i \in 0 .. m
          <6>1. i = 0 \/ i - 1 \in 0 .. m  BY <5>2, <3>1
          <6>2. g[i] = Then(g, i)
            BY <3>2, <5>2 DEF CollectRun
          <6>3. QED  BY <5>2, <6>1, <6>2, <4>1
        <5>3. QED  BY <5>1, <5>2, <3>1
      <4>4. h = [i \in 0 .. (m + 1) |-> h[i]]  OBVIOUS
      <4> HIDE DEF h
      <4>5. QED  BY <4>3, <4>4 DEF CollectRun
    <3>4. m + 1 \in Nat  BY <3>1
    <3>5. QED  BY <3>3, <3>4
  <2> HIDE DEF T
  <2>3. T \in SUBSET Nat  BY DEF T
  <2>4. QED  BY <2>1, <2>2, <2>3, NaturalsReached
<1>3. CollectRun(all, items, N)
  <2>1. \E g : CollectRun(g, items, N)  BY <1>2
  <2>2. QED  BY <2>1
<1> HIDE DEF all
<1>4. all[0] = Empty
  <2>1. 0 \in 0 .. N  OBVIOUS
  <2>2. QED  BY <1>3, <2>1, Zenon DEF CollectRun
<1>5. \A i \in 1 .. N : all[i] = AddItem(all[i - 1], items[i])
  <2>1. TAKE i \in 1 .. N
  <2>2. i \in 0 .. N /\ i # 0  OBVIOUS
  <2>3. QED  BY <1>3, <2>2, Zenon DEF CollectRun
<1>6. QED  BY <1>1, <1>4, <1>5

LEMMA EmptyFields ==
  /\ Empty \in Acc /\ Empty.out = <<>> /\ Empty.calls = <<>> /\ Empty.why = <<>>
  /\ Empty.images = <<>> /\ Len(Empty.out) = 0
<1> DEFINE e == <<>>
<1>1. Empty = [out |-> e, calls |-> e, why |-> e, images |-> e]  BY DEF Empty
<1>2. e \in Seq(Msg) /\ e \in Seq(Asks) /\ e \in Seq(Int) /\ e = <<>> /\ Len(e) = 0  OBVIOUS
<1> HIDE DEF e
<1>3. QED  BY <1>1, <1>2 DEF Acc

LEMMA MappingEmpty ==
  ASSUME NEW items
  PROVE  Mapping(Empty, items, 0) /\ Open(Empty, items, 0)
<1>1. /\ Empty \in Acc /\ Empty.out = <<>> /\ Empty.calls = <<>> /\ Empty.why = <<>>
      /\ Empty.images = <<>> /\ Len(Empty.out) = 0
  BY EmptyFields
<1>2. \A i \in 1 .. 0 : FALSE  OBVIOUS
<1>3. WellFormed(Empty.out)
  <2>1. <<>> \in Seq(Msg)  OBVIOUS
  <2>2. QED  BY <2>1, <1>1, <1>2 DEF WellFormed
<1>4. \A i \in 0 .. 0 : i = 0  OBVIOUS
<1>5. Tally(CallRows(Empty), 0, items, 0, "call")
  <2>1. CallRows(Empty)[0] = <<>>
    <3>1. CallRows(Empty)[0] = Nums(Empty.calls)  BY <1>1, RowsAre
    <3>2. <<>> \in Seq(Asks)  OBVIOUS
    <3>3. QED  BY <3>1, <3>2, <1>1, NumsAre
  <2>2. Len(<<>>) = 0  OBVIOUS
  <2>3. \A n : NeverIn(CallRows(Empty), 0, n)  BY <2>1, <2>2, <1>2, <1>4 DEF NeverIn, At
  <2>4. QED  BY <2>3, <1>2 DEF Tally
<1>6. Tally(WhyRows(Empty), 0, items, 0, "reasoning")
  <2>1. WhyRows(Empty)[0] = <<>>  BY <1>1, RowsAre
  <2>2. Len(<<>>) = 0  OBVIOUS
  <2>3. \A n : NeverIn(WhyRows(Empty), 0, n)  BY <2>1, <2>2, <1>2, <1>4 DEF NeverIn, At
  <2>4. QED  BY <2>3, <1>2 DEF Tally
<1>7. ToolsIn(Empty, items, 0) /\ ImagesIn(Empty, items, 0) /\ CarriersIn(Empty, items, 0)
  BY <1>2 DEF ToolsIn, ImagesIn, CarriersIn
<1>8. HeardIn(Empty, items, 0)  BY <1>1, <1>2 DEF HeardIn
<1>9. Open(Empty, items, 0)  BY <1>1, <1>2 DEF Open, Waiting, Answering, AnsweredIn
<1>10. QED  BY <1>1, <1>3, <1>5, <1>6, <1>7, <1>8, <1>9 DEF Mapping

LEMMA MappingCollected ==
  ASSUME NEW items, Told(items)
  PROVE  Mapping(Collected(items), items, Len(items)) /\ Open(Collected(items), items, Len(items))
<1>1. PICK N \in Nat : N = Len(items)
  <2>1. items \in Seq(It)  BY DEF Told
  <2>2. QED  BY <2>1
<1>2. PICK f : /\ Collected(items) = f[N] /\ f[0] = Empty
               /\ \A i \in 1 .. N : f[i] = AddItem(f[i - 1], items[i])
  BY <1>1, CollectRuns
<1> DEFINE Good(k) == k <= N => Mapping(f[k], items, k) /\ Open(f[k], items, k)
           T == {k \in Nat : Good(k)}
<1>3. 0 \in T  BY <1>2, MappingEmpty
<1>4. ASSUME NEW k \in T PROVE k + 1 \in T
  <2>1. k \in Nat /\ Good(k)  OBVIOUS
  <2>2. ASSUME k + 1 <= N PROVE Mapping(f[k + 1], items, k + 1) /\ Open(f[k + 1], items, k + 1)
    <3>1. k <= N /\ k + 1 \in 1 .. N /\ (k + 1) - 1 = k  BY <2>1, <2>2
    <3>2. Mapping(f[k], items, k) /\ Open(f[k], items, k)  BY <2>1, <3>1
    <3>3. f[k + 1] = AddItem(f[k], items[k + 1])  BY <3>1, <1>2
    <3>4. items[k + 1] \in It  BY <2>1, <3>1, <1>1, ToldItem
    <3>5. Mapping(AddItem(f[k], items[k + 1]), items, k + 1)
      BY <2>1, <3>1, <3>2, <1>1, MappingAdded
    <3>6. Open(AddItem(f[k], items[k + 1]), items, k + 1)  BY <2>1, <3>2, <3>4, OpenAdded
    <3>7. QED  BY <3>3, <3>5, <3>6
  <2>3. k + 1 \in Nat  BY <2>1
  <2>4. QED  BY <2>2, <2>3
<1>5. T = Nat
  <2>1. T \in SUBSET Nat  OBVIOUS
  <2> HIDE DEF T
  <2>2. QED  BY <2>1, <1>3, <1>4, NaturalsReached
<1>6. N \in T  BY <1>5
<1>7. Mapping(f[N], items, N) /\ Open(f[N], items, N)  BY <1>6
<1>8. QED  BY <1>1, <1>2, <1>7

(* The reasoning that was left over has been put behind that of message a.   *)
Poured(m, f, a) ==
    /\ f \in Acc /\ f.calls = m.calls /\ f.images = m.images /\ f.why = <<>>
    /\ a \in 1 .. Len(m.out) /\ m.out[a].role = "assistant" /\ Len(f.out) = Len(m.out)
    /\ \A i \in 1 .. Len(m.out) : i # a => f.out[i] = m.out[i]
    /\ f.out[a].role = m.out[a].role /\ f.out[a].n = m.out[a].n
    /\ f.out[a].call = m.out[a].call /\ f.out[a].calls = m.out[a].calls
    /\ f.out[a].why = m.out[a].why \o m.why

LEMMA PouredSame ==
  ASSUME NEW m, NEW f, NEW a, Poured(m, f, a), NEW i \in 1 .. Len(m.out)
  PROVE  /\ f.out[i].role = m.out[i].role /\ f.out[i].n = m.out[i].n
         /\ f.out[i].call = m.out[i].call /\ f.out[i].calls = m.out[i].calls
         /\ f.out[i].role # "assistant" => f.out[i].why = m.out[i].why
<1>1. CASE i = a  BY <1>1 DEF Poured
<1>2. CASE i # a
  <2>1. f.out[i] = m.out[i]  BY <1>2 DEF Poured
  <2>2. QED  BY <2>1
<1>3. QED  BY <1>1, <1>2

LEMMA MappingPoured ==
  ASSUME NEW m, NEW items, NEW k \in Nat, Mapping(m, items, k), NEW f, NEW a, Poured(m, f, a)
  PROVE  Mapping(f, items, k)
<1>1. m \in Acc /\ f \in Acc /\ f.calls = m.calls /\ f.images = m.images /\ f.why = <<>>
      /\ a \in 1 .. Len(m.out) /\ m.out[a].role = "assistant" /\ Len(f.out) = Len(m.out)
  BY DEF Mapping, Poured
<1>2. m.out \in Seq(Msg) /\ f.out \in Seq(Msg)  BY <1>1, AccFields
<1>3. PICK l \in Nat : l = Len(m.out)  BY <1>2
<1>4. \A i \in 1 .. l :
        /\ f.out[i].role = m.out[i].role /\ f.out[i].n = m.out[i].n
        /\ f.out[i].call = m.out[i].call /\ f.out[i].calls = m.out[i].calls
        /\ f.out[i].role # "assistant" => f.out[i].why = m.out[i].why
  BY <1>3, PouredSame
<1>5. Len(f.out) = l  BY <1>1, <1>3
<1>6. WellFormed(f.out)
  <2>1. \A i \in 1 .. l : /\ m.out[i].role = "tool" => m.out[i].calls = <<>> /\ m.out[i].n # -1
                          /\ m.out[i].calls # <<>> => m.out[i].role = "assistant"
    BY <1>3 DEF Mapping, WellFormed
  <2>2. \A i \in 1 .. l : /\ f.out[i].role = "tool" => f.out[i].calls = <<>> /\ f.out[i].n # -1
                          /\ f.out[i].calls # <<>> => f.out[i].role = "assistant"
    BY <2>1, <1>4
  <2>3. QED  BY <2>2, <1>2, <1>5 DEF WellFormed
<1>7. Tally(CallRows(f), l, items, k, "call")
  <2> DEFINE g == CallRows(m)
             h == CallRows(f)
  <2>1. g = [i \in 0 .. l |-> IF i = 0 THEN Nums(m.calls) ELSE Nums(m.out[i].calls)]
    BY <1>3 DEF CallRows
  <2>2. h = [i \in 0 .. l |-> IF i = 0 THEN Nums(f.calls) ELSE Nums(f.out[i].calls)]
    BY <1>5 DEF CallRows
  <2>3. Tally(g, l, items, k, "call")  BY <1>3 DEF Mapping
  <2> HIDE DEF g, h
  <2>4. g = h
    <3>1. \A i \in 0 .. l : i = 0 \/ i \in 1 .. l  OBVIOUS
    <3>2. \A i \in 0 .. l : (IF i = 0 THEN Nums(m.calls) ELSE Nums(m.out[i].calls))
                              = (IF i = 0 THEN Nums(f.calls) ELSE Nums(f.out[i].calls))
      BY <3>1, <1>1, <1>4
    <3>3. QED  BY <2>1, <2>2, <3>2
  <2>5. QED  BY <2>3, <2>4 DEF h
<1>8. Tally(WhyRows(f), l, items, k, "reasoning")
  <2> DEFINE g == WhyRows(m)
             h == WhyRows(f)
  <2>1. /\ Rows(g, l) /\ g[0] = m.why
        /\ \A i \in 1 .. l : g[i] = IF m.out[i].role = "assistant" THEN m.out[i].why ELSE <<>>
    BY <1>1, <1>3, RowsAre
  <2>2. /\ h[0] = f.why
        /\ \A i \in 1 .. l : h[i] = IF f.out[i].role = "assistant" THEN f.out[i].why ELSE <<>>
    BY <1>1, <1>5, RowsAre
  <2>3. Tally(g, l, items, k, "reasoning")  BY <1>3 DEF Mapping
  <2> HIDE DEF g, h
  <2>4. a \in 1 .. l /\ h[0] = <<>>  BY <1>1, <1>3, <2>2
  <2>5. h[a] = g[a] \o g[0]
    <3>1. f.out[a].role = "assistant" /\ f.out[a].why = m.out[a].why \o m.why
      BY <1>1 DEF Poured
    <3>2. h[a] = f.out[a].why /\ g[a] = m.out[a].why  BY <3>1, <2>1, <2>2, <2>4, <1>1
    <3>3. QED  BY <3>1, <3>2, <2>1
  <2>6. \A i \in 1 .. l : i # a => h[i] = g[i]
    <3>1. TAKE i \in 1 .. l
    <3>2. ASSUME i # a PROVE f.out[i] = m.out[i]  BY <3>2, <1>3 DEF Poured
    <3>3. QED  BY <3>2, <2>1, <2>2
  <2>7. RowsKept(g, l, h, l)  BY <2>1, <2>4, <2>5, <2>6, RowsPoured
  <2>8. Tally(h, l, items, k, "reasoning")  BY <2>3, <2>7, TallyKept
  <2>9. QED  BY <2>8 DEF h
<1>9. ToolsIn(f, items, k)
  <2>1. ToolsIn(m, items, k)  BY DEF Mapping
  <2>2. QED  BY <2>1, <1>3, <1>4, <1>5 DEF ToolsIn
<1>10. ImagesIn(f, items, k)
  <2>1. ImagesIn(m, items, k)  BY DEF Mapping
  <2>2. ASSUME NEW n, Shown(m, n) PROVE Shown(f, n)
    <3>1. CASE \E c \in 1 .. Len(m.images) : m.images[c] = n  BY <3>1, <1>1 DEF Shown
    <3>2. CASE \E i \in 1 .. Len(m.out) :
                 m.out[i].role = "pictures" /\ \E c \in 1 .. Len(m.out[i].why) : m.out[i].why[c] = n
      <4>1. PICK i \in 1 .. Len(m.out) :
              m.out[i].role = "pictures" /\ \E c \in 1 .. Len(m.out[i].why) : m.out[i].why[c] = n
        BY <3>2
      <4>2. f.out[i].role = "pictures" /\ f.out[i].why = m.out[i].why /\ i \in 1 .. Len(f.out)
        <5>1. f.out[i].role = m.out[i].role /\ (f.out[i].role # "assistant" => f.out[i].why = m.out[i].why)
          BY <4>1, <1>3, <1>4
        <5>2. QED  BY <5>1, <4>1, <1>1
      <4>3. QED  BY <4>1, <4>2 DEF Shown
    <3>3. QED  BY <3>1, <3>2, <2>2 DEF Shown
  <2>3. QED  BY <2>1, <2>2 DEF ImagesIn
<1>11. CarriersIn(f, items, k)
  <2>1. f.out[a].role = "assistant" /\ a \in 1 .. Len(f.out)  BY <1>1 DEF Poured
  <2>2. Carries(f)  BY <2>1 DEF Carries
  <2>3. QED  BY <2>2 DEF CarriersIn
<1>12. HeardIn(f, items, k)
  <2>1. HeardIn(m, items, k)  BY DEF Mapping
  <2>2. \A i \in 1 .. l : Heard(f.out[i]) <=> Heard(m.out[i])  BY <1>4 DEF Heard
  <2>3. /\ \A x \in 1 .. k : Spoken(items[x]) =>
              \E i \in 1 .. l : Heard(m.out[i]) /\ m.out[i].n = items[x].n
        /\ \A i \in 1 .. l : Heard(m.out[i]) =>
              \E x \in 1 .. k : Spoken(items[x]) /\ items[x].n = m.out[i].n
        /\ \A i, x \in 1 .. l :
              i < x /\ Heard(m.out[i]) /\ Heard(m.out[x]) => m.out[i].n < m.out[x].n
    BY <2>1, <1>3 DEF HeardIn
  <2>4. \A i \in 1 .. l : f.out[i].n = m.out[i].n  BY <1>4
  <2>5. \A x \in 1 .. k : Spoken(items[x]) =>
          \E i \in 1 .. l : Heard(f.out[i]) /\ f.out[i].n = items[x].n
    BY <2>2, <2>3, <2>4
  <2>6. \A i \in 1 .. l : Heard(f.out[i]) =>
          \E x \in 1 .. k : Spoken(items[x]) /\ items[x].n = f.out[i].n
    BY <2>2, <2>3, <2>4
  <2>7. \A i, x \in 1 .. l :
          i < x /\ Heard(f.out[i]) /\ Heard(f.out[x]) => f.out[i].n < f.out[x].n
    BY <2>2, <2>3, <2>4
  <2>8. QED  BY <2>5, <2>6, <2>7, <1>5 DEF HeardIn
<1>13. QED  BY <1>1, <1>5, <1>6, <1>7, <1>8, <1>9, <1>10, <1>11, <1>12, SMTT(60) DEF Mapping

LEMMA AnsweredPoured ==
  ASSUME NEW m \in Acc, NEW items, NEW k \in Nat, AnsweredIn(m.out, items, k),
         NEW f, NEW a, Poured(m, f, a)
  PROVE  AnsweredIn(f.out, items, k)
<1>1. f \in Acc /\ Len(f.out) = Len(m.out)  BY DEF Poured
<1>2. m.out \in Seq(Msg) /\ f.out \in Seq(Msg)  BY <1>1, AccFields
<1>3. PICK l \in Nat : l = Len(m.out)  BY <1>2
<1>4. Len(f.out) = l /\ DOMAIN f.out = 1 .. l /\ DOMAIN m.out = 1 .. l  BY <1>1, <1>2, <1>3
<1>5. \A i \in 1 .. l :
        /\ f.out[i].role = m.out[i].role
        /\ f.out[i].call = m.out[i].call /\ f.out[i].calls = m.out[i].calls
  BY <1>3, PouredSame
<1>6. ASSUME NEW i, NEW n, Asked(m.out, i, n) PROVE Asked(f.out, i, n)
  BY <1>3, <1>4, <1>5, <1>6 DEF Asked
<1>7. ASSUME NEW i \in 1 .. l, NEW j \in Run(m.out, i)
      PROVE  j \in Run(f.out, i) /\ f.out[j].call = m.out[j].call
  <2>1. j \in 1 .. l /\ j > i /\ \A x \in i + 1 .. j : m.out[x].role = "tool"  BY <1>4 DEF Run
  <2>2. \A x \in i + 1 .. j : x \in 1 .. l  BY <2>1
  <2>3. \A x \in i + 1 .. j : f.out[x].role = "tool"  BY <2>1, <2>2, <1>5
  <2>4. QED  BY <2>1, <2>3, <1>4, <1>5 DEF Run
<1>8. SUFFICES ASSUME NEW q \in 1 .. k, NEW p \in 1 .. q, NEW r \in 1 .. q,
                      Succeeds(items, p, r, q), items[q].type = "output"
               PROVE  \E i, j : /\ Asked(f.out, i, items[p].n) /\ j \in Run(f.out, i)
                                /\ f.out[j].call = Given(items[q])
  BY DEF AnsweredIn
<1>9. PICK i, j : Asked(m.out, i, items[p].n) /\ j \in Run(m.out, i) /\ m.out[j].call = Given(items[q])
  BY <1>8 DEF AnsweredIn
<1>10. i \in 1 .. l  BY <1>9, <1>3 DEF Asked
<1>11. QED  BY <1>6, <1>7, <1>9, <1>10

(* The last of some places. *)
LEMMA LastPlace ==
  ASSUME NEW l \in Nat, NEW S \in SUBSET (1 .. l), S # {}
  PROVE  Max(S) \in S
<1> DEFINE T == {n \in Nat : l - n \in S}
<1>1. T \in SUBSET Nat /\ T # {}
  <2>1. PICK x \in S : x \in 1 .. l  OBVIOUS
  <2>2. l - x \in Nat /\ l - (l - x) = x  BY <2>1
  <2>3. l - x \in T  BY <2>1, <2>2
  <2>4. QED  BY <2>3
<1>2. PICK n \in T : \A k \in T : n <= k
  <2> HIDE DEF T
  <2>1. QED  BY <1>1, LeastNatural
<1>3. l - n \in S  BY <1>2
<1>4. \A y \in S : l - n >= y
  <2>1. TAKE y \in S
  <2>2. y \in 1 .. l  OBVIOUS
  <2>3. l - y \in Nat /\ l - (l - y) = y  BY <2>2
  <2>4. l - y \in T  BY <2>3
  <2>5. n <= l - y /\ n \in Nat  BY <2>4, <1>2
  <2>6. QED  BY <2>2, <2>5
<1>5. QED  BY <1>3, <1>4 DEF Max

LEMMA AttachFields ==
  ASSUME NEW m \in Acc
  PROVE  \/ /\ AttachReasoning(m) = m.out
            /\ m.why = <<>> \/ \A i \in 1 .. Len(m.out) : m.out[i].role # "assistant"
         \/ \E f, a : Poured(m, f, a) /\ AttachReasoning(m) = f.out
<1> DEFINE spoken == {k \in DOMAIN m.out : m.out[k].role = "assistant"}
<1>0. m.out \in Seq(Msg) /\ m.calls \in Seq(Asks) /\ m.why \in Seq(Int) /\ m.images \in Seq(Int)
  BY AccFields
<1>1. PICK l \in Nat : l = Len(m.out)  BY <1>0
<1>2. DOMAIN m.out = 1 .. l  BY <1>0, <1>1
<1>3. CASE m.why = <<>> \/ spoken = {}
  <2>1. AttachReasoning(m) = m.out  BY <1>3 DEF AttachReasoning
  <2>2. m.why = <<>> \/ \A i \in 1 .. Len(m.out) : m.out[i].role # "assistant"
    BY <1>1, <1>2, <1>3
  <2>3. QED  BY <2>1, <2>2, SMTT(60)
<1>4. CASE ~(m.why = <<>> \/ spoken = {})
  <2> DEFINE a == Max(spoken)
             e == <<>>
             w == [m.out EXCEPT ![a].why = @ \o m.why]
             f == [m EXCEPT !.out = w, !.why = e]
  <2>1. AttachReasoning(m) = w
    <3> DEFINE Goal == AttachReasoning(m) = w
    <3>1. Goal  BY <1>4 DEF AttachReasoning
    <3>2. QED  BY <3>1
  <2>2. a \in spoken
    <3>1. spoken \in SUBSET (1 .. l) /\ spoken # {}  BY <1>2, <1>4
    <3> HIDE DEF spoken
    <3>2. Max(spoken) \in spoken  BY <3>1, <1>1, LastPlace
    <3>3. QED  BY <3>2
  <2>3. a \in 1 .. l /\ m.out[a].role = "assistant"  BY <2>2, <1>2
  <2> HIDE DEF spoken, a
  <2> DEFINE x == m.out[a]
             y == x.why \o m.why
             z == [x EXCEPT !.why = y]
  <2>4. x \in Msg  BY <2>3, <1>0, <1>1, ElementOfSeq
  <2>5. z \in Msg /\ z.role = x.role /\ z.n = x.n /\ z.call = x.call /\ z.calls = x.calls /\ z.why = y
    <3> HIDE DEF x
    <3>1. x.why \in Seq(Int)  BY <2>4, MsgFields
    <3>2. y \in Seq(Int)  BY <3>1, <1>0
    <3> HIDE DEF y
    <3>3. QED  BY <2>4, <3>2 DEF Msg
  <2>6. w = [m.out EXCEPT ![a] = z]  OBVIOUS
  <2>7. z.role = m.out[a].role /\ z.n = m.out[a].n /\ z.call = m.out[a].call
        /\ z.calls = m.out[a].calls /\ z.why = m.out[a].why \o m.why
    BY <2>5
  <2>8. z \in Msg  BY <2>5
  <2> HIDE DEF x, y, z, w
  <2>9. /\ w \in Seq(Msg) /\ Len(w) = l /\ w[a] = z
        /\ \A i \in 1 .. l : i # a => w[i] = m.out[i]
    <3> DEFINE u == m.out
    <3>1. u \in Seq(Msg) /\ l = Len(u) /\ w = [u EXCEPT ![a] = z]  BY <1>0, <1>1, <2>6
    <3> HIDE DEF u
    <3>2. u \in [1 .. l -> Msg]  BY <3>1
    <3>3. w \in [1 .. l -> Msg] /\ w[a] = z /\ \A i \in 1 .. l : i # a => w[i] = u[i]
      BY <3>1, <3>2, <2>3, <2>8
    <3>4. w \in Seq(Msg) /\ Len(w) = l  BY <3>3
    <3>5. QED  BY <3>3, <3>4 DEF u
  <2>10. f = [m EXCEPT !.out = w, !.why = e]  OBVIOUS
  <2>11. e = <<>> /\ e \in Seq(Int)  OBVIOUS
  <2> HIDE DEF e, f
  <2>12. f = [out |-> w, calls |-> m.calls, why |-> e, images |-> m.images]
    BY <2>10 DEF Acc
  <2>13. f \in Acc  BY <1>0, <2>9, <2>11, <2>12 DEF Acc
  <2>14. f.out = w /\ f.calls = m.calls /\ f.why = e /\ f.images = m.images  BY <2>12
  <2>15. Poured(m, f, a)
    <3>1. \A i \in 1 .. Len(m.out) : i # a => f.out[i] = m.out[i]  BY <2>9, <2>14, <1>1
    <3>2. Len(f.out) = Len(m.out) /\ a \in 1 .. Len(m.out)  BY <2>3, <2>9, <2>14, <1>1
    <3>3. f.out[a] = z  BY <2>9, <2>14
    <3>4. QED  BY <3>1, <3>2, <3>3, <2>3, <2>7, <2>11, <2>13, <2>14 DEF Poured
  <2>16. QED  BY <2>1, <2>14, <2>15
<1>5. QED  BY <1>3, <1>4

(* The messages hold what the items are. *)
LEMMA MappedHolds ==
  ASSUME NEW items, Told(items)
  PROVE  \E f : /\ f.out = Mapped(items) /\ Mapping(f, items, Len(items))
                /\ AnsweredIn(f.out, items, Len(items))
                /\ f.calls = <<>> /\ f.images = <<>>
                /\ f.why = <<>> \/ \A i \in 1 .. Len(f.out) : f.out[i].role # "assistant"
<1>1. PICK N \in Nat : N = Len(items)
  <2>1. items \in Seq(It)  BY DEF Told
  <2>2. QED  BY <2>1
<1> DEFINE m == Collected(items)
           b == FlushCalls(m)
           c == FlushImages(b)
<1>2. Mapped(items) = AttachReasoning(c)  BY DEF Mapped
<1>3. Mapping(m, items, N) /\ Open(m, items, N)  BY <1>1, MappingCollected
<1> HIDE DEF m
<1>4. m \in Acc /\ AnsweredIn(m.out, items, N)  BY <1>3 DEF Open
<1>5. FlushedCalls(m, b)  BY <1>4, FlushCallsFields
<1> HIDE DEF b
<1>6. Flushed(m, b) /\ b \in Acc /\ b.calls = <<>>  BY <1>4, <1>5, CallsFlushed DEF FlushedCalls
<1>7. FlushedImages(b, c)  BY <1>6, FlushImagesFields
<1> HIDE DEF c
<1>8. Flushed(b, c) /\ c \in Acc /\ c.calls = <<>> /\ c.images = <<>>
  BY <1>6, <1>7, ImagesFlushed DEF FlushedImages
<1>9. Flushed(m, c)  BY <1>4, <1>6, <1>8, FlushedThrough
<1>10. Mapping(c, items, N)  BY <1>3, <1>9, MappingFlushed
<1>11. AnsweredIn(c.out, items, N)
  <2>1. OutKept(m, c)  BY <1>4, <1>9, OutFlushed
  <2>2. QED  BY <2>1, <1>4, <1>8, AnsweredKept
<1>12. CASE /\ AttachReasoning(c) = c.out
            /\ c.why = <<>> \/ \A i \in 1 .. Len(c.out) : c.out[i].role # "assistant"
  BY <1>1, <1>2, <1>8, <1>10, <1>11, <1>12
<1>13. CASE \E f, a : Poured(c, f, a) /\ AttachReasoning(c) = f.out
  <2>1. PICK f, a : Poured(c, f, a) /\ AttachReasoning(c) = f.out  BY <1>13
  <2>2. Mapping(f, items, N)  BY <2>1, <1>10, MappingPoured
  <2>3. AnsweredIn(f.out, items, N)  BY <2>1, <1>8, <1>11, AnsweredPoured
  <2>4. f.calls = <<>> /\ f.images = <<>> /\ f.why = <<>>  BY <2>1, <1>8 DEF Poured
  <2>5. QED  BY <2>1, <2>2, <2>3, <2>4, <1>1, <1>2
<1>14. QED  BY <1>8, <1>12, <1>13, AttachFields

LEMMA SaidPlaces ==
  ASSUME NEW chat, NEW msgs, NEW head, Repairs(chat, msgs, head),
         NEW p \in 1 .. Len(chat), ~Made(chat[p])
  PROVE  \E i \in 1 .. Len(msgs) : msgs[i].role # "tool" /\ p = head[i] /\ Like(chat[p], msgs[i])
<1>1. PICK i \in 1 .. Len(msgs) : msgs[i].role # "tool" /\ p = head[i]  BY DEF Repairs
<1>2. Like(chat[head[i]], msgs[i])  BY <1>1 DEF Repairs
<1>3. QED  BY <1>1, <1>2

(* A number is that of one call, or one thought of the assistant, only.      *)
AskedOnce(out, n) ==
    \E i \in 1 .. Len(out) : \E c \in 1 .. Len(out[i].calls) :
      /\ out[i].calls[c].n = n
      /\ \A j \in 1 .. Len(out) : \A d \in 1 .. Len(out[j].calls) :
           out[j].calls[d].n = n => j = i /\ d = c

ThoughtOnce(out, n) ==
    \E i \in 1 .. Len(out) : \E c \in 1 .. Len(out[i].why) :
      /\ out[i].role = "assistant" /\ out[i].why[c] = n
      /\ \A j \in 1 .. Len(out) : \A d \in 1 .. Len(out[j].why) :
           out[j].role = "assistant" /\ out[j].why[d] = n => j = i /\ d = c

(* A call that came is in one message, and there once.                       *)
LEMMA CallOnce ==
  ASSUME NEW f, NEW items, NEW k \in Nat, Mapping(f, items, k), f.calls = <<>>,
         NEW n, n > 0, \E j \in 1 .. k : items[j].type = "call" /\ items[j].n = n
  PROVE  AskedOnce(f.out, n)
<1> DEFINE g == CallRows(f)
<1>1. f \in Acc  BY DEF Mapping
<1>2. f.out \in Seq(Msg)  BY <1>1, AccFields
<1>3. PICK l \in Nat : l = Len(f.out)  BY <1>2
<1>4. OnceIn(g, l, n)  BY <1>3 DEF Mapping, Tally
<1>5. g[0] = Nums(f.calls) /\ \A i \in 1 .. l : g[i] = Nums(f.out[i].calls)
  BY <1>1, <1>3, RowsAre
<1>6. Len(g[0]) = 0
  <2>1. <<>> \in Seq(Asks) /\ Len(<<>>) = 0  OBVIOUS
  <2>2. Nums(<<>>) = <<>>  BY <2>1, NumsAre
  <2>3. QED  BY <2>1, <2>2, <1>5
<1> HIDE DEF g
<1>7. ASSUME NEW i \in 1 .. l
      PROVE  /\ Len(g[i]) = Len(f.out[i].calls)
             /\ \A c \in 1 .. Len(f.out[i].calls) : g[i][c] = f.out[i].calls[c].n
  <2>1. f.out[i].calls \in Seq(Asks)
    <3>1. f.out[i] \in Msg  BY <1>2, <1>3, ElementOfSeq
    <3>2. QED  BY <3>1, MsgFields
  <2>2. QED  BY <2>1, <1>5, NumsAre
<1>8. PICK i, c : At(g, l, i, c, n) /\ \A j, d : At(g, l, j, d, n) => j = i /\ d = c
  BY <1>4 DEF OnceIn
<1>9. i \in 1 .. l /\ c \in 1 .. Len(g[i]) /\ g[i][c] = n
  <2>1. i \in 0 .. l /\ c \in 1 .. Len(g[i]) /\ g[i][c] = n  BY <1>8 DEF At
  <2>2. i # 0  BY <2>1, <1>6
  <2>3. QED  BY <2>1, <2>2
<1>10. c \in 1 .. Len(f.out[i].calls) /\ f.out[i].calls[c].n = n  BY <1>7, <1>9
<1>11. ASSUME NEW j \in 1 .. l, NEW d \in 1 .. Len(f.out[j].calls), f.out[j].calls[d].n = n
       PROVE  j = i /\ d = c
  <2>1. j \in 0 .. l /\ d \in 1 .. Len(g[j]) /\ g[j][d] = n  BY <1>7, <1>11
  <2>2. At(g, l, j, d, n)  BY <2>1 DEF At
  <2>3. QED  BY <2>2, <1>8
<1>12. QED  BY <1>3, <1>9, <1>10, <1>11 DEF AskedOnce

LEMMA WhyOnce ==
  ASSUME NEW f, NEW items, NEW k \in Nat, Mapping(f, items, k), f.why = <<>>,
         NEW n, n > 0, \E j \in 1 .. k : items[j].type = "reasoning" /\ items[j].n = n
  PROVE  ThoughtOnce(f.out, n)
<1> DEFINE g == WhyRows(f)
<1>1. f \in Acc  BY DEF Mapping
<1>2. f.out \in Seq(Msg)  BY <1>1, AccFields
<1>3. PICK l \in Nat : l = Len(f.out)  BY <1>2
<1>4. OnceIn(g, l, n)  BY <1>3 DEF Mapping, Tally
<1>5. /\ g[0] = f.why
      /\ \A i \in 1 .. l : g[i] = IF f.out[i].role = "assistant" THEN f.out[i].why ELSE <<>>
  BY <1>1, <1>3, RowsAre
<1>6. Len(<<>>) = 0 /\ Len(g[0]) = 0
  <2>1. Len(<<>>) = 0  OBVIOUS
  <2>2. QED  BY <2>1, <1>5
<1> HIDE DEF g
<1>7. PICK i, c : At(g, l, i, c, n) /\ \A j, d : At(g, l, j, d, n) => j = i /\ d = c
  BY <1>4 DEF OnceIn
<1>8. i \in 1 .. l /\ c \in 1 .. Len(g[i]) /\ g[i][c] = n
  <2>1. i \in 0 .. l /\ c \in 1 .. Len(g[i]) /\ g[i][c] = n  BY <1>7 DEF At
  <2>2. i # 0  BY <2>1, <1>6
  <2>3. QED  BY <2>1, <2>2
<1>9. f.out[i].role = "assistant" /\ g[i] = f.out[i].why
  <2>1. CASE f.out[i].role # "assistant"
    <3>1. g[i] = <<>>  BY <2>1, <1>5, <1>8
    <3>2. c \in 1 .. 0  BY <3>1, <1>6, <1>8
    <3>3. QED  BY <3>2
  <2>2. QED  BY <2>1, <1>5, <1>8
<1>10. c \in 1 .. Len(f.out[i].why) /\ f.out[i].why[c] = n  BY <1>8, <1>9
<1>11. ASSUME NEW j \in 1 .. l, NEW d \in 1 .. Len(f.out[j].why),
              f.out[j].role = "assistant", f.out[j].why[d] = n
       PROVE  j = i /\ d = c
  <2>1. g[j] = f.out[j].why  BY <1>5, <1>11
  <2>2. j \in 0 .. l /\ d \in 1 .. Len(g[j]) /\ g[j][d] = n  BY <2>1, <1>11
  <2>3. At(g, l, j, d, n)  BY <2>2 DEF At
  <2>4. QED  BY <2>3, <1>7
<1>12. QED  BY <1>3, <1>8, <1>9, <1>10, <1>11 DEF ThoughtOnce

(* The repair leaves them where they are.                                    *)
LEMMA CallOnceRepaired ==
  ASSUME NEW chat, NEW msgs, WellFormed(msgs), NEW head, Repairs(chat, msgs, head), NEW n, n > 0,
         AskedOnce(msgs, n)
  PROVE  AskedOnce(chat, n)
<1>0. Len(<<>>) = 0  OBVIOUS
<1>1. PICK i \in 1 .. Len(msgs) : \E c \in 1 .. Len(msgs[i].calls) :
           /\ msgs[i].calls[c].n = n
           /\ \A j \in 1 .. Len(msgs) : \A d \in 1 .. Len(msgs[j].calls) :
                msgs[j].calls[d].n = n => j = i /\ d = c
  BY DEF AskedOnce
<1>2. PICK c \in 1 .. Len(msgs[i].calls) :
           /\ msgs[i].calls[c].n = n
           /\ \A j \in 1 .. Len(msgs) : \A d \in 1 .. Len(msgs[j].calls) :
                msgs[j].calls[d].n = n => j = i /\ d = c
  BY <1>1
<1>3. msgs[i].role # "tool"
  <2>1. CASE msgs[i].role = "tool"
    <3>1. msgs[i].calls = <<>>  BY <2>1 DEF WellFormed
    <3>2. c \in 1 .. 0  BY <3>1, <1>0, <1>2
    <3>3. QED  BY <3>2
  <2>2. QED  BY <2>1
<1>4. head[i] \in 1 .. Len(chat) /\ Like(chat[head[i]], msgs[i])  BY <1>3 DEF Repairs
<1>5. c \in 1 .. Len(chat[head[i]].calls) /\ chat[head[i]].calls[c].n = n
  BY <1>2, <1>4 DEF Like
<1>6. ASSUME NEW j \in 1 .. Len(chat), NEW d \in 1 .. Len(chat[j].calls), chat[j].calls[d].n = n
      PROVE  j = head[i] /\ d = c
  <2>1. ~Made(chat[j])
    <3>1. CASE chat[j].role = "tool" /\ chat[j].calls = <<>>
      <4>1. d \in 1 .. 0  BY <3>1, <1>0, <1>6
      <4>2. QED  BY <4>1
    <3>2. CASE \A x \in 1 .. Len(chat[j].calls) : chat[j].calls[x].n = -1
      <4>1. n = -1  BY <3>2, <1>6
      <4>2. QED  BY <4>1
    <3>3. QED  BY <3>1, <3>2 DEF Made
  <2>2. PICK x \in 1 .. Len(msgs) : j = head[x] /\ Like(chat[j], msgs[x])
    BY <2>1, SaidPlaces
  <2>3. d \in 1 .. Len(msgs[x].calls) /\ msgs[x].calls[d].n = n  BY <2>2, <1>6 DEF Like
  <2>4. QED  BY <2>2, <2>3, <1>2
<1>7. QED  BY <1>4, <1>5, <1>6 DEF AskedOnce

LEMMA WhyOnceRepaired ==
  ASSUME NEW chat, NEW msgs, NEW head, Repairs(chat, msgs, head), NEW n,
         ThoughtOnce(msgs, n)
  PROVE  ThoughtOnce(chat, n)
<1>0. Len(<<>>) = 0  OBVIOUS
<1>1. PICK i \in 1 .. Len(msgs) : \E c \in 1 .. Len(msgs[i].why) :
           /\ msgs[i].role = "assistant" /\ msgs[i].why[c] = n
           /\ \A j \in 1 .. Len(msgs) : \A d \in 1 .. Len(msgs[j].why) :
                msgs[j].role = "assistant" /\ msgs[j].why[d] = n => j = i /\ d = c
  BY DEF ThoughtOnce
<1>2. PICK c \in 1 .. Len(msgs[i].why) :
           /\ msgs[i].role = "assistant" /\ msgs[i].why[c] = n
           /\ \A j \in 1 .. Len(msgs) : \A d \in 1 .. Len(msgs[j].why) :
                msgs[j].role = "assistant" /\ msgs[j].why[d] = n => j = i /\ d = c
  BY <1>1
<1>3. head[i] \in 1 .. Len(chat) /\ Like(chat[head[i]], msgs[i])  BY <1>2 DEF Repairs
<1>4. c \in 1 .. Len(chat[head[i]].why) /\ chat[head[i]].why[c] = n /\ chat[head[i]].role = "assistant"
  BY <1>2, <1>3 DEF Like
<1>5. ASSUME NEW j \in 1 .. Len(chat), NEW d \in 1 .. Len(chat[j].why),
             chat[j].role = "assistant", chat[j].why[d] = n
      PROVE  j = head[i] /\ d = c
  <2>1. ~Made(chat[j])
    <3>1. CASE chat[j].why = <<>>
      <4>1. d \in 1 .. 0  BY <3>1, <1>0, <1>5
      <4>2. QED  BY <4>1
    <3>2. QED  BY <3>1, <1>5 DEF Made
  <2>2. PICK x \in 1 .. Len(msgs) : j = head[x] /\ Like(chat[j], msgs[x])
    BY <2>1, SaidPlaces
  <2>3. d \in 1 .. Len(msgs[x].why) /\ msgs[x].why[d] = n /\ msgs[x].role = "assistant"
    BY <2>2, <1>5 DEF Like
  <2>4. QED  BY <2>2, <2>3, <1>2
<1>6. QED  BY <1>3, <1>4, <1>5, SMTT(60) DEF ThoughtOnce

LEMMA DoubtsFounded ==
  ASSUME NEW items, Told(items), NEW chat, NEW head, NEW f, Repairs(chat, f.out, head),
         Mapping(f, items, Len(items)), AnsweredIn(f.out, items, Len(items)), f.calls = <<>>
  PROVE  DoubtFounded(chat, items)
<1> DEFINE msgs == f.out
<1>0. Len(<<>>) = 0  OBVIOUS
<1>1. PICK N \in Nat : N = Len(items) /\ DOMAIN items = 1 .. N
  <2>1. items \in Seq(It)  BY DEF Told
  <2>2. QED  BY <2>1
<1>2. msgs \in Seq(Msg) /\ chat \in Seq(Msg)
  <2>1. f \in Acc  BY DEF Mapping
  <2>2. QED  BY <2>1, AccFields DEF Repairs
<1>3. PICK l, L \in Nat : /\ l = Len(msgs) /\ DOMAIN msgs = 1 .. l
                          /\ L = Len(chat) /\ DOMAIN chat = 1 .. L
  BY <1>2
<1>4. ASSUME NEW i \in 1 .. L, NEW c \in 1 .. Len(chat[i].calls), chat[i].calls[c].n > 0,
             NEW j \in Run(chat, i), chat[j].n = -1, chat[j].call = chat[i].calls[c].call,
             NEW p \in 1 .. N, NEW q \in 1 .. N, NEW r \in 1 .. N,
             items[p].type = "call", items[p].n = chat[i].calls[c].n,
             p < r, r <= q, Given(items[q]) = chat[i].calls[c].call,
             \A k \in p .. r - 1 : items[k].type \in {"call", "reasoning", "search_call"},
             \A k \in r .. q : items[k].type \in {"output", "search_call"},
             items[q].type = "output"
      PROVE  FALSE
  <2> DEFINE n == items[p].n
  <2>1. ~Made(chat[i])
    <3>1. CASE chat[i].role = "tool" /\ chat[i].calls = <<>>
      <4>1. c \in 1 .. 0  BY <3>1, <1>0, <1>4
      <4>2. QED  BY <4>1
    <3>2. CASE \A x \in 1 .. Len(chat[i].calls) : chat[i].calls[x].n = -1
      <4>1. chat[i].calls[c].n = -1  BY <3>2, <1>4
      <4>2. QED  BY <4>1, <1>4
    <3>3. QED  BY <3>1, <3>2 DEF Made
  <2>2. PICK x \in 1 .. l : i = head[x] /\ Like(chat[i], msgs[x])
    <3>1. Repairs(chat, msgs, head) /\ i \in 1 .. Len(chat)  BY <1>3
    <3> HIDE DEF msgs
    <3>2. \E x \in 1 .. Len(msgs) : msgs[x].role # "tool" /\ i = head[x] /\ Like(chat[i], msgs[x])
      BY <2>1, <3>1, SaidPlaces
    <3>3. QED  BY <3>2, <1>3
  <2>3. c \in 1 .. Len(msgs[x].calls) /\ msgs[x].calls[c].n = n  BY <2>2, <1>4 DEF Like
  <2>4. HasCalls(msgs, x)
    <3>1. msgs[x].calls # <<>>
      <4>1. CASE msgs[x].calls = <<>>
        <5>1. c \in 1 .. 0  BY <4>1, <2>3, <1>0
        <5>2. QED  BY <5>1
      <4>2. QED  BY <4>1
    <3>2. QED  BY <3>1, <1>3 DEF HasCalls
  <2>5. Succeeds(items, p, r, q)
    <3>1. AskedBy(items, p)  BY <1>4 DEF AskedBy
    <3>2. QED  BY <3>1, <1>4 DEF Succeeds, Calm, Back
  <2>6. p \in 1 .. q /\ r \in 1 .. q  BY <1>4
  <2>7. PICK y, t : Asked(msgs, y, n) /\ t \in Run(msgs, y) /\ msgs[t].call = Given(items[q])
    BY <2>5, <2>6, <1>1, <1>4 DEF AnsweredIn
  <2>8. y = x
    <3>1. PICK i0 \in 1 .. l : \A j0 \in 1 .. l : \A d \in 1 .. Len(msgs[j0].calls) :
                               msgs[j0].calls[d].n = n => j0 = i0
      <4>1. \E k \in 1 .. N : items[k].type = "call" /\ items[k].n = n  BY <1>4
      <4>2. n > 0  BY <1>4
      <4> HIDE DEF n
      <4>3. AskedOnce(f.out, n)
        <5>1. Mapping(f, items, N) /\ f.calls = <<>>  BY <1>1
        <5>2. QED  BY <4>1, <4>2, <5>1, CallOnce
      <4>4. QED  BY <4>3, <1>3 DEF AskedOnce
    <3>2. x = i0  BY <3>1, <2>2, <2>3
    <3>3. PICK d \in 1 .. Len(msgs[y].calls) : msgs[y].calls[d].n = n  BY <2>7 DEF Asked
    <3>4. y = i0  BY <3>1, <3>3, <2>7, <1>3 DEF Asked
    <3>5. QED  BY <3>2, <3>4
  <2>9. msgs[t].call # chat[j].call
    <3>1. j \in Run(chat, head[x])  BY <2>2, <1>4
    <3>2. QED  BY <3>1, <2>4, <2>7, <2>8, <1>3, <1>4 DEF Repairs
  <2>10. QED  BY <2>7, <2>9, <1>4
<1>5. \A i \in 1 .. L : DOMAIN chat[i].calls = 1 .. Len(chat[i].calls)
  <2>1. TAKE i \in 1 .. L
  <2>2. chat[i] \in Msg  BY <1>2, <1>3, ElementOfSeq
  <2>3. chat[i].calls \in Seq(Asks)  BY <2>2, MsgFields
  <2>4. QED  BY <2>3
<1> HIDE DEF msgs
<1>6. SUFFICES ASSUME NEW i \in DOMAIN chat, NEW c \in DOMAIN chat[i].calls,
                      chat[i].calls[c].n > 0,
                      NEW j \in Run(chat, i), chat[j].n = -1, chat[j].call = chat[i].calls[c].call,
                      NEW p \in DOMAIN items, NEW q \in DOMAIN items, NEW r \in DOMAIN items,
                      items[p].type = "call", items[p].n = chat[i].calls[c].n,
                      p < r, r <= q, Given(items[q]) = chat[i].calls[c].call,
                      \A k \in p .. r - 1 : items[k].type \in {"call", "reasoning", "search_call"},
                      \A k \in r .. q : items[k].type \in {"output", "search_call"},
                      items[q].type = "output"
               PROVE  FALSE
  BY DEF DoubtFounded
<1>7. i \in 1 .. L /\ p \in 1 .. N /\ q \in 1 .. N /\ r \in 1 .. N  BY <1>1, <1>3, <1>6
<1>8. c \in 1 .. Len(chat[i].calls)  BY <1>5, <1>6, <1>7
<1>9. QED  BY <1>4, <1>6, <1>7, <1>8

(* The items are all that came, and calls the repair made.                   *)
HoldsAll(items) ==
    /\ came \in Seq(It)
    /\ \A n \in 1 .. Len(came) : came[n].n = n /\ \E k \in 1 .. Len(items) : items[k].n = n
    /\ \A k \in 1 .. Len(items) : items[k].n > 0 =>
         /\ items[k].n \in 1 .. Len(came)
         /\ items[k].type = came[items[k].n].type /\ items[k].image = came[items[k].n].image

CameOf(T) == {came[k].n : k \in {k \in DOMAIN came : came[k].type \in T}}

LEMMA CameItems ==
  ASSUME NEW items, Told(items), HoldsAll(items), NEW T, NEW n
  PROVE  /\ n \in CameOf(T) =>
              /\ n \in 1 .. Len(came) /\ n > 0 /\ came[n].n = n
              /\ \E k \in 1 .. Len(items) :
                   items[k].n = n /\ items[k].type \in T /\ items[k].image = came[n].image
         /\ (n > 0 /\ \E k \in 1 .. Len(items) : items[k].n = n /\ items[k].type \in T) => n \in CameOf(T)
<1>1. PICK N \in Nat : N = Len(came) /\ DOMAIN came = 1 .. N
  <2>1. came \in Seq(It)  BY DEF HoldsAll
  <2>2. QED  BY <2>1
<1>2. ASSUME n \in CameOf(T)
      PROVE  /\ n \in 1 .. Len(came) /\ n > 0 /\ came[n].n = n
             /\ \E k \in 1 .. Len(items) :
                  items[k].n = n /\ items[k].type \in T /\ items[k].image = came[n].image
  <2>1. PICK j \in 1 .. N : came[j].type \in T /\ n = came[j].n  BY <1>1, <1>2 DEF CameOf
  <2>2. n = j /\ n \in 1 .. Len(came) /\ n > 0 /\ came[n].n = n  BY <2>1, <1>1 DEF HoldsAll
  <2>3. PICK k \in 1 .. Len(items) : items[k].n = n  BY <2>2 DEF HoldsAll
  <2>4. items[k].type = came[n].type /\ items[k].image = came[n].image
    BY <2>2, <2>3 DEF HoldsAll
  <2>5. QED  BY <2>1, <2>2, <2>3, <2>4
<1>3. ASSUME n > 0, NEW k \in 1 .. Len(items), items[k].n = n, items[k].type \in T
      PROVE  n \in CameOf(T)
  <2>1. n \in 1 .. N /\ came[n].type \in T  BY <1>1, <1>3 DEF HoldsAll
  <2>2. came[n].n = n  BY <2>1, <1>1 DEF HoldsAll
  <2>3. QED  BY <2>1, <2>2, <1>1 DEF CameOf
<1>4. QED  BY <1>2, <1>3

(* What was said is heard after the repair, and in its order.                *)
LEMMA HeardRepaired ==
  ASSUME NEW chat, NEW msgs, NEW head, Repairs(chat, msgs, head)
  PROVE  /\ \A i \in 1 .. Len(msgs) : Heard(msgs[i]) =>
              head[i] \in 1 .. Len(chat) /\ Heard(chat[head[i]]) /\ chat[head[i]].n = msgs[i].n
         /\ \A p \in 1 .. Len(chat) : Heard(chat[p]) =>
              \E i \in 1 .. Len(msgs) : p = head[i] /\ Heard(msgs[i]) /\ chat[p].n = msgs[i].n
<1>1. ASSUME NEW i \in 1 .. Len(msgs), Heard(msgs[i])
      PROVE  head[i] \in 1 .. Len(chat) /\ Heard(chat[head[i]]) /\ chat[head[i]].n = msgs[i].n
  <2>1. msgs[i].role # "tool"  BY <1>1 DEF Heard
  <2>2. head[i] \in 1 .. Len(chat) /\ Like(chat[head[i]], msgs[i])  BY <2>1 DEF Repairs
  <2>3. QED  BY <2>2, <1>1 DEF Like, Heard
<1>2. ASSUME NEW p \in 1 .. Len(chat), Heard(chat[p])
      PROVE  \E i \in 1 .. Len(msgs) : p = head[i] /\ Heard(msgs[i]) /\ chat[p].n = msgs[i].n
  <2>1. ~Made(chat[p])  BY <1>2 DEF Made, Heard
  <2>2. PICK i \in 1 .. Len(msgs) : p = head[i] /\ Like(chat[p], msgs[i])  BY <2>1, SaidPlaces
  <2>3. QED  BY <2>2, <1>2 DEF Like, Heard
<1>3. QED  BY <1>1, <1>2

LEMMA NothingLost ==
  ASSUME NEW items, Told(items), HoldsAll(items), NEW chat, NEW head, NEW f,
         Repairs(chat, f.out, head), Mapping(f, items, Len(items)),
         f.calls = <<>>, f.images = <<>>,
         f.why = <<>> \/ \A i \in 1 .. Len(f.out) : f.out[i].role # "assistant"
  PROVE  NothingErased(chat)
<1>0. Len(<<>>) = 0  OBVIOUS
<1>1. PICK N \in Nat : N = Len(items)
  <2>1. items \in Seq(It)  BY DEF Told
  <2>2. QED  BY <2>1
<1>2. f \in Acc /\ f.out \in Seq(Msg) /\ chat \in Seq(Msg) /\ WellFormed(f.out)
  <2>1. f \in Acc /\ WellFormed(f.out)  BY DEF Mapping
  <2>2. QED  BY <2>1, AccFields DEF Repairs
<1>3. PICK l, L \in Nat : l = Len(f.out) /\ L = Len(chat) /\ DOMAIN chat = 1 .. L  BY <1>2
<1>4. \A i \in 1 .. L : /\ DOMAIN chat[i].calls = 1 .. Len(chat[i].calls)
                        /\ DOMAIN chat[i].why = 1 .. Len(chat[i].why)
  <2>1. TAKE i \in 1 .. L
  <2>2. chat[i] \in Msg  BY <1>2, <1>3, ElementOfSeq
  <2>3. chat[i].calls \in Seq(Asks) /\ chat[i].why \in Seq(Int)  BY <2>2, MsgFields
  <2>4. QED  BY <2>3
<1> DEFINE calls  == UNION {{i} \X DOMAIN chat[i].calls : i \in DOMAIN chat}
           whys   == UNION {{i} \X DOMAIN chat[i].why : i \in {i \in DOMAIN chat : chat[i].role = "assistant"}}
           heard  == {i \in DOMAIN chat : chat[i].role \in {"user", "assistant"} /\ chat[i].n > 0}
           images == {i \in DOMAIN chat : chat[i].role = "pictures"}
<1>5. ASSUME NEW n \in CameOf({"call"})
      PROVE  Cardinality({p \in calls : chat[p[1]].calls[p[2]].n = n}) = 1
  <2>1. n > 0 /\ \E k \in 1 .. N : items[k].type = "call" /\ items[k].n = n
    <3>1. n > 0 /\ \E k \in 1 .. N : items[k].type \in {"call"} /\ items[k].n = n
      BY <1>1, CameItems
    <3>2. QED  BY <3>1
  <2>2. AskedOnce(f.out, n)
    <3>1. Mapping(f, items, N)  BY <1>1
    <3>2. QED  BY <3>1, <2>1, CallOnce
  <2>3. AskedOnce(chat, n)  BY <2>1, <2>2, <1>2, CallOnceRepaired
  <2>4. PICK i \in 1 .. L : \E c \in 1 .. Len(chat[i].calls) :
            /\ chat[i].calls[c].n = n
            /\ \A j \in 1 .. L : \A d \in 1 .. Len(chat[j].calls) :
                 chat[j].calls[d].n = n => j = i /\ d = c
    BY <2>3, <1>3 DEF AskedOnce
  <2>5. PICK c \in 1 .. Len(chat[i].calls) :
            /\ chat[i].calls[c].n = n
            /\ \A j \in 1 .. L : \A d \in 1 .. Len(chat[j].calls) :
                 chat[j].calls[d].n = n => j = i /\ d = c
    BY <2>4
  <2>6. {p \in calls : chat[p[1]].calls[p[2]].n = n} = {<<i, c>>}
    <3>1. ASSUME NEW p \in calls, chat[p[1]].calls[p[2]].n = n PROVE p = <<i, c>>
      <4>1. PICK j \in 1 .. L : p \in {j} \X DOMAIN chat[j].calls  BY <1>3
      <4>2. p = <<p[1], p[2]>> /\ p[1] = j /\ p[2] \in 1 .. Len(chat[j].calls)  BY <4>1, <1>4
      <4>3. p[1] = i /\ p[2] = c  BY <4>2, <3>1, <2>5
      <4>4. QED  BY <4>2, <4>3
    <3>2. <<i, c>> \in calls
      <4>1. <<i, c>> \in {i} \X DOMAIN chat[i].calls  BY <1>4
      <4>2. QED  BY <4>1, <1>3
    <3> HIDE DEF calls
    <3>3. <<i, c>>[1] = i /\ <<i, c>>[2] = c  OBVIOUS
    <3>4. chat[<<i, c>>[1]].calls[<<i, c>>[2]].n = n  BY <3>3, <2>5
    <3>5. QED  BY <3>1, <3>2, <3>4
  <2>7. QED  BY <2>6, FS_Singleton
<1>6. CameOf({"output"}) \subseteq {chat[i].n : i \in {i \in DOMAIN chat : chat[i].role = "tool"}}
  <2>1. SUFFICES ASSUME NEW n \in CameOf({"output"})
                 PROVE  \E i \in 1 .. L : chat[i].role = "tool" /\ chat[i].n = n
    BY <1>3
  <2>2. PICK k \in 1 .. N : items[k].type = "output" /\ items[k].n = n
    <3>1. \E k \in 1 .. N : items[k].type \in {"output"} /\ items[k].n = n  BY <1>1, CameItems
    <3>2. QED  BY <3>1
  <2>3. PICK i \in 1 .. l : f.out[i].role = "tool" /\ f.out[i].n = n
    BY <2>2, <1>1, <1>3 DEF Mapping, ToolsIn
  <2>4. QED  BY <2>3, <1>3 DEF Repairs
<1>7. ASSUME NEW n \in CameOf({"output"}), came[n].image
      PROVE  \E i \in images : \E k \in DOMAIN chat[i].why : chat[i].why[k] = n
  <2>1. PICK k \in 1 .. N : items[k].type = "output" /\ items[k].n = n /\ items[k].image = came[n].image
    <3>1. \E k \in 1 .. N : items[k].n = n /\ items[k].type \in {"output"} /\ items[k].image = came[n].image
      BY <1>1, CameItems
    <3>2. QED  BY <3>1
  <2>2. Shown(f, n)
    <3>1. items[k].image  BY <2>1, <1>7
    <3>2. QED  BY <2>1, <3>1, <1>1 DEF Mapping, ImagesIn
  <2>3. \A c \in 1 .. Len(f.images) : FALSE
    <3>1. \A c \in 1 .. 0 : FALSE  OBVIOUS
    <3>2. QED  BY <3>1, <1>0
  <2>4. PICK i \in 1 .. l : f.out[i].role = "pictures" /\ \E c \in 1 .. Len(f.out[i].why) : f.out[i].why[c] = n
    BY <2>2, <2>3, <1>3 DEF Shown
  <2>5. head[i] \in 1 .. L /\ Like(chat[head[i]], f.out[i])
    <3>1. f.out[i].role # "tool"  BY <2>4
    <3>2. QED  BY <3>1, <1>3 DEF Repairs
  <2>6. chat[head[i]].role = "pictures" /\ \E c \in 1 .. Len(chat[head[i]].why) : chat[head[i]].why[c] = n
    BY <2>4, <2>5 DEF Like
  <2>7. QED  BY <2>5, <2>6, <1>3, <1>4
<1>8. \A i \in 1 .. L : i \in heard <=> Heard(chat[i])  BY <1>3 DEF Heard
<1>9. {chat[i].n : i \in heard} = CameOf({"user", "assistant", "image_call"})
  <2>1. ASSUME NEW i \in heard PROVE chat[i].n \in CameOf({"user", "assistant", "image_call"})
    <3>1. i \in 1 .. L /\ Heard(chat[i])  BY <1>3, <1>8
    <3>2. PICK j \in 1 .. l : Heard(f.out[j]) /\ chat[i].n = f.out[j].n
      BY <3>1, <1>3, HeardRepaired
    <3>3. PICK k \in 1 .. N : Spoken(items[k]) /\ items[k].n = f.out[j].n
      BY <3>2, <1>1, <1>3 DEF Mapping, HeardIn
    <3>4. items[k].type \in {"user", "assistant", "image_call"} /\ items[k].n > 0
      BY <3>2, <3>3 DEF Spoken, Heard
    <3>5. QED  BY <3>2, <3>3, <3>4, <1>1, CameItems
  <2>2. ASSUME NEW n \in CameOf({"user", "assistant", "image_call"}) PROVE \E i \in heard : chat[i].n = n
    <3>1. PICK k \in 1 .. N : items[k].n = n /\ items[k].type \in {"user", "assistant", "image_call"}
      BY <1>1, CameItems
    <3>2. PICK j \in 1 .. l : Heard(f.out[j]) /\ f.out[j].n = items[k].n
      <4>1. Spoken(items[k])  BY <3>1 DEF Spoken
      <4>2. QED  BY <4>1, <1>1, <1>3 DEF Mapping, HeardIn
    <3>3. head[j] \in 1 .. L /\ Heard(chat[head[j]]) /\ chat[head[j]].n = f.out[j].n
      BY <3>2, <1>3, HeardRepaired
    <3>4. QED  BY <3>1, <3>2, <3>3, <1>8
  <2> HIDE DEF heard
  <2>3. QED  BY <2>1, <2>2
<1>10. ASSUME NEW i \in heard, NEW j \in heard, i < j PROVE chat[i].n < chat[j].n
  <2>1. i \in 1 .. L /\ Heard(chat[i]) /\ j \in 1 .. L /\ Heard(chat[j])  BY <1>3, <1>8
  <2>0. \A p \in 1 .. L : Heard(chat[p]) =>
          \E a \in 1 .. l : p = head[a] /\ Heard(f.out[a]) /\ chat[p].n = f.out[a].n
    BY <1>3, HeardRepaired, SMTT(60)
  <2>2. PICK a \in 1 .. l : i = head[a] /\ Heard(f.out[a]) /\ chat[i].n = f.out[a].n
    BY <2>0, <2>1
  <2>3. PICK b \in 1 .. l : j = head[b] /\ Heard(f.out[b]) /\ chat[j].n = f.out[b].n
    BY <2>0, <2>1
  <2>4. f.out[a].role # "tool" /\ f.out[b].role # "tool"  BY <2>2, <2>3 DEF Heard
  <2>5. a # b
    <3>1. CASE a = b
      <4>1. i = j  BY <3>1, <2>2, <2>3
      <4>2. i \in Int  BY <2>1
      <4>3. QED  BY <4>1, <4>2, <1>10
    <3>2. QED  BY <3>1
  <2>6. ~(b < a)
    <3>1. ASSUME b < a PROVE FALSE
      <4>1. head[b] < head[a]  BY <3>1, <2>4, <1>3 DEF Repairs
      <4>2. j < i  BY <4>1, <2>2, <2>3
      <4>3. i \in Int /\ j \in Int  BY <2>1
      <4>4. QED  BY <4>2, <4>3, <1>10
    <3>2. QED  BY <3>1
  <2>7. a < b  BY <2>5, <2>6
  <2>8. f.out[a].n < f.out[b].n  BY <2>2, <2>3, <2>7, <1>3 DEF Mapping, HeardIn
  <2>9. QED  BY <2>2, <2>3, <2>8
<1>11. ASSUME NEW n \in CameOf({"reasoning"})
       PROVE  \/ Cardinality({p \in whys : chat[p[1]].why[p[2]] = n}) = 1
              \/ CameOf({"assistant", "image_call", "call"}) = {}
  <2>1. CASE f.why = <<>>
    <3>1. n > 0 /\ \E k \in 1 .. N : items[k].type = "reasoning" /\ items[k].n = n
      <4>1. n > 0 /\ \E k \in 1 .. N : items[k].type \in {"reasoning"} /\ items[k].n = n
        BY <1>1, CameItems
      <4>2. QED  BY <4>1
    <3>2. ThoughtOnce(f.out, n)
      <4>1. Mapping(f, items, N)  BY <1>1
      <4>2. QED  BY <4>1, <3>1, <2>1, WhyOnce
    <3>3. ThoughtOnce(chat, n)  BY <3>2, WhyOnceRepaired
    <3>4. PICK i \in 1 .. L : \E c \in 1 .. Len(chat[i].why) :
              /\ chat[i].role = "assistant" /\ chat[i].why[c] = n
              /\ \A j \in 1 .. L : \A d \in 1 .. Len(chat[j].why) :
                   chat[j].role = "assistant" /\ chat[j].why[d] = n => j = i /\ d = c
      BY <3>3, <1>3 DEF ThoughtOnce
    <3>5. PICK c \in 1 .. Len(chat[i].why) :
              /\ chat[i].role = "assistant" /\ chat[i].why[c] = n
              /\ \A j \in 1 .. L : \A d \in 1 .. Len(chat[j].why) :
                   chat[j].role = "assistant" /\ chat[j].why[d] = n => j = i /\ d = c
      BY <3>4
    <3>6. {p \in whys : chat[p[1]].why[p[2]] = n} = {<<i, c>>}
      <4>1. ASSUME NEW p \in whys, chat[p[1]].why[p[2]] = n PROVE p = <<i, c>>
        <5>1. PICK j \in 1 .. L : chat[j].role = "assistant" /\ p \in {j} \X DOMAIN chat[j].why
          BY <1>3
        <5>2. p = <<p[1], p[2]>> /\ p[1] = j /\ p[2] \in 1 .. Len(chat[j].why)  BY <5>1, <1>4
        <5>3. p[1] = i /\ p[2] = c  BY <5>1, <5>2, <4>1, <3>5
        <5>4. QED  BY <5>2, <5>3
      <4>2. <<i, c>> \in whys
        <5>1. <<i, c>> \in {i} \X DOMAIN chat[i].why  BY <1>4
        <5>2. QED  BY <5>1, <3>5, <1>3
      <4> HIDE DEF whys
      <4>3. <<i, c>>[1] = i /\ <<i, c>>[2] = c  OBVIOUS
      <4>4. chat[<<i, c>>[1]].why[<<i, c>>[2]] = n  BY <4>3, <3>5
      <4>5. QED  BY <4>1, <4>2, <4>4
    <3>7. QED  BY <3>6, FS_Singleton
  <2>2. CASE \A i \in 1 .. Len(f.out) : f.out[i].role # "assistant"
    <3>1. ~Carries(f)  BY <2>2 DEF Carries
    <3>2. \A k \in 1 .. N : ~Carrier(items[k])  BY <3>1, <1>1 DEF Mapping, CarriersIn
    <3>3. ASSUME NEW x \in CameOf({"assistant", "image_call", "call"}) PROVE FALSE
      <4>1. PICK k \in 1 .. N : items[k].type \in {"assistant", "image_call", "call"}
        BY <1>1, CameItems
      <4>2. Carrier(items[k])  BY <4>1 DEF Carrier
      <4>3. QED  BY <4>2, <3>2
    <3>4. QED  BY <3>3
  <2>3. QED  BY <2>1, <2>2
<1>12. QED
  <2>1. \A T : CameOf(T) = {came[k].n : k \in {k \in DOMAIN came : came[k].type \in T}}  BY DEF CameOf
  <2>2. QED  BY <1>5, <1>6, <1>7, <1>9, <1>10, <1>11 DEF NothingErased, CameOf

(* The messages made of all that came lose none of it.                       *)
LEMMA ChatKept ==
  ASSUME NEW items, Told(items), HoldsAll(items)
  PROVE  LET chat == Sanitized(Mapped(items)) IN
         PairedForChat(chat) /\ NothingErased(chat) /\ DoubtFounded(chat, items)
<1> DEFINE chat == Sanitized(Mapped(items))
<1>1. PICK f : /\ f.out = Mapped(items) /\ Mapping(f, items, Len(items))
               /\ AnsweredIn(f.out, items, Len(items))
               /\ f.calls = <<>> /\ f.images = <<>>
               /\ f.why = <<>> \/ \A i \in 1 .. Len(f.out) : f.out[i].role # "assistant"
  BY MappedHolds
<1>2. WellFormed(f.out)  BY <1>1 DEF Mapping
<1>3. PICK head : Repairs(Sanitized(f.out), f.out, head)  BY <1>2, SanitizedRepairs
<1>4. Repairs(chat, f.out, head)  BY <1>1, <1>3
<1> HIDE DEF chat
<1>5. PairedForChat(chat)  BY <1>4 DEF Repairs
<1>6. NothingErased(chat)  BY <1>1, <1>4, NothingLost
<1>7. DoubtFounded(chat, items)  BY <1>1, <1>4, DoubtsFounded
<1>8. QED  BY <1>5, <1>6, <1>7 DEF chat

-----------------------------------------------------------------------------
(* An orphan's call and what becomes of the orphan.                          *)
Mended(u, v, it) ==
    /\ u \in It /\ u.type = "call" /\ u.n = -1 /\ u.id = 0 /\ u.call # 0
    /\ v \in It /\ v.type = it.type /\ v.n = it.n /\ v.image = it.image /\ v.id = it.id
    /\ u.call \in Ids(v)
    /\ v.call = u.call \/ v.id \in 1 .. v.call - 1

LEMMA ItCall ==
  ASSUME NEW it \in It, NEW id \in Int
  PROVE  LET v == [it EXCEPT !.call = id] IN
         /\ v \in It /\ v.type = it.type /\ v.n = it.n /\ v.image = it.image /\ v.id = it.id
         /\ v.call = id
BY DEF It

LEMMA UnavailableFields ==
  ASSUME NEW id \in Int
  PROVE  LET u == Unavailable(id) IN
         u \in It /\ u.type = "call" /\ u.n = -1 /\ u.id = 0 /\ u.call = id
<1> DEFINE c == "call"
           u == Unavailable(id)
<1>1. c \in ItemTypes /\ c = "call"  BY DEF ItemTypes
<1>2. u = [type |-> c, call |-> id, id |-> 0, image |-> FALSE, n |-> -1]  BY DEF Unavailable
<1> HIDE DEF c, u
<1>3. u \in It /\ u.type = c /\ u.n = -1 /\ u.id = 0 /\ u.call = id  BY <1>1, <1>2 DEF It
<1>4. QED  BY <1>1, <1>3 DEF u

LEMMA SmallestId ==
  ASSUME NEW it \in It, it.id \in Nat, Ids(it) # {}
  PROVE  /\ Min(Ids(it)) \in Ids(it)
         /\ it.call = 0 => Min(Ids(it)) = it.id
         /\ it.call # 0 => Min(Ids(it)) = it.call \/ it.id \in 1 .. it.call - 1
<1> DEFINE S == Ids(it)
           x == Min(S)
<1>1. it.call \in Int /\ it.id \in Int  BY ItFields
<1>2. S = {it.call, it.id} \ {0}  BY DEF Ids
<1>3. \E y \in S : \A z \in S : y <= z
  <2>1. CASE it.call = 0
    <3>1. it.id \in S /\ \A z \in S : z = it.id  BY <2>1, <1>2
    <3>2. QED  BY <3>1, <1>1
  <2>2. CASE it.id = 0
    <3>1. it.call \in S /\ \A z \in S : z = it.call  BY <2>2, <1>2
    <3>2. QED  BY <3>1, <1>1
  <2>3. CASE it.call # 0 /\ it.id # 0
    <3>1. it.call \in S /\ it.id \in S /\ \A z \in S : z = it.call \/ z = it.id  BY <2>3, <1>2
    <3> HIDE DEF S
    <3>2. CASE it.call <= it.id  BY <3>1, <3>2, <1>1
    <3>3. CASE it.id <= it.call  BY <3>1, <3>3, <1>1
    <3>4. QED  BY <3>2, <3>3, <1>1
  <2>4. QED  BY <2>1, <2>2, <2>3
<1>4. x \in S /\ \A z \in S : x <= z
  <2>1. x = CHOOSE y \in S : \A z \in S : y <= z  BY DEF Min
  <2> HIDE DEF S, x
  <2>2. QED  BY <2>1, <1>3
<1>5. it.call = 0 => x = it.id  BY <1>2, <1>4
<1>6. ASSUME it.call # 0 PROVE x = it.call \/ it.id \in 1 .. it.call - 1
  <2>1. it.call \in S  BY <1>2, <1>6
  <2>2. x = it.call \/ (x = it.id /\ x # 0)  BY <1>2, <1>4
  <2>3. x <= it.call  BY <2>1, <1>4
  <2> HIDE DEF x
  <2>4. QED  BY <2>2, <2>3, <1>1
<1>7. QED  BY <1>4, <1>5, <1>6

LEMMA PairedItems ==
  ASSUME NEW items \in Seq(It), NEW k \in 1 .. Len(items), items[k].id \in Nat
  PROVE  /\ ~IsOrphan(items[k], items) => Paired(items, k) = <<items[k]>>
         /\ IsOrphan(items[k], items) => \E u, v : Paired(items, k) = <<u, v>> /\ Mended(u, v, items[k])
<1> DEFINE it == items[k]
           id == OrphanId(it, k - 1 + Cardinality({j \in 1 .. k - 1 : IsOrphan(items[j], items)}))
           v == IF it.call = 0 THEN [it EXCEPT !.call = id] ELSE it
<1>1. /\ ~IsOrphan(it, items) => Paired(items, k) = <<it>>
      /\ IsOrphan(it, items) => Paired(items, k) = <<Unavailable(id), v>>
  BY DEF Paired
<1>2. it \in It /\ k \in Nat /\ k >= 1
  <2>1. it \in It  BY ElementOfSeq
  <2>2. QED  BY <2>1
<1>3. it.call \in Int /\ it.id \in Nat  BY <1>2, ItFields
<1>4. id \in Int /\ id # 0
  <2> DEFINE S == {j \in 1 .. k - 1 : IsOrphan(items[j], items)}
             c == Cardinality(S)
  <2>1. c \in Nat
    <3>1. IsFiniteSet(1 .. k - 1)
      <4>1. k - 1 \in Int  BY <1>2
      <4>2. QED  BY <4>1, FS_Interval
    <3>2. S \in SUBSET (1 .. k - 1)  OBVIOUS
    <3> HIDE DEF S
    <3>3. IsFiniteSet(S)  BY <3>1, <3>2, FS_Subset
    <3>4. QED  BY <3>3, FS_CardinalityType
  <2> HIDE DEF c
  <2>2. id = IF Ids(it) = {} THEN -1 - (k - 1 + c) ELSE Min(Ids(it))  BY DEF OrphanId, c
  <2>3. CASE Ids(it) = {}  BY <2>1, <2>2, <2>3, <1>2
  <2>4. CASE Ids(it) # {}
    <3>1. Min(Ids(it)) \in Ids(it)  BY <2>4, <1>2, <1>3, SmallestId
    <3>2. id \in Ids(it)  BY <3>1, <2>2, <2>4
    <3>3. QED  BY <3>2, <1>3 DEF Ids
  <2>5. QED  BY <2>3, <2>4
<1>5. Ids(it) # {} => id = Min(Ids(it))  BY DEF OrphanId
<1>6. it = items[k]  OBVIOUS
<1> HIDE DEF id
<1>7. Mended(Unavailable(id), v, it)
  <2> DEFINE u == Unavailable(id)
  <2>1. u \in It /\ u.type = "call" /\ u.n = -1 /\ u.id = 0 /\ u.call = id
    BY <1>4, UnavailableFields
  <2> HIDE DEF u
  <2>2. CASE it.call = 0
    <3> DEFINE w == [it EXCEPT !.call = id]
    <3>1. w \in It /\ w.type = it.type /\ w.n = it.n /\ w.image = it.image /\ w.id = it.id /\ w.call = id
      <4> HIDE DEF it
      <4>1. QED  BY <1>2, <1>4, ItCall
    <3>2. v = w  BY <2>2
    <3> HIDE DEF w, v, it
    <3>3. u.call \in Ids(w)  BY <2>1, <3>1, <1>4 DEF Ids
    <3>4. QED  BY <2>1, <3>1, <3>2, <3>3, <1>4 DEF Mended, u
  <2>3. CASE it.call # 0
    <3>1. v = it  BY <2>3
    <3> HIDE DEF v, it
    <3>2. Ids(it) # {}  BY <2>3 DEF Ids
    <3>3. /\ id \in Ids(it)
          /\ id = it.call \/ it.id \in 1 .. it.call - 1
      BY <2>3, <3>2, <1>2, <1>3, <1>5, SmallestId
    <3>4. Mended(u, it, it)  BY <2>1, <3>3, <1>2, <1>4 DEF Mended
    <3>5. QED  BY <3>1, <3>4 DEF u
  <2>4. QED  BY <2>2, <2>3
<1> HIDE DEF v
<1>8. QED  BY <1>1, <1>6, <1>7

(* Parts of one each are where they were.                                    *)
Filled(parts, n) == \A i \in 1 .. n : Len(parts[i]) \in Nat \ {0}
Singles(parts, c) == \A k \in 1 .. c : Len(parts[k]) = 1
Counted(start, c) == \A k \in 1 .. c : start[k] = k - 1

LEMMA PlacedSingly ==
  ASSUME NEW w, Len(w) \in Nat, NEW parts, NEW n \in Nat, NEW start, Placed(w, parts, start, n),
         Filled(parts, n), NEW c \in Nat, c <= n, Singles(parts, c)
  PROVE  Counted(start, c)
<1>a. \A i \in 1 .. n : Len(parts[i]) \in Nat \ {0}  BY DEF Filled
<1>b. \A k \in 1 .. c : Len(parts[k]) = 1  BY DEF Singles
<1> DEFINE Good(k) == k <= c => \A j \in 1 .. k : start[j] = j - 1
           T == {k \in Nat : Good(k)}
<1>1. 0 \in T  OBVIOUS
<1>2. ASSUME NEW k \in T PROVE k + 1 \in T
  <2>1. k \in Nat /\ Good(k)  OBVIOUS
  <2>2. ASSUME k + 1 <= c PROVE start[k + 1] = k
    <3>1. \A j \in 1 .. k : start[j] = j - 1 /\ Len(parts[j]) = 1 /\ j \in 1 .. n
      BY <2>1, <2>2, <1>b
    <3>2. k + 1 \in 1 .. n /\ Len(parts[k + 1]) = 1  BY <2>1, <2>2, <1>b
    <3>3. start[k + 1] \in Nat /\ start[k + 1] + 1 <= Len(w)  BY <3>2 DEF Placed
    <3>4. start[k + 1] >= k
      <4>1. CASE k = 0  BY <4>1, <3>3
      <4>2. CASE k # 0
        <5>1. k \in 1 .. k /\ k < k + 1  BY <4>2, <2>1
        <5>2. start[k] + Len(parts[k]) <= start[k + 1]  BY <5>1, <3>1, <3>2 DEF Placed
        <5>3. start[k] = k - 1 /\ Len(parts[k]) = 1  BY <5>1, <3>1
        <5>4. k - 1 + 1 <= start[k + 1]  BY ONLY <5>2, <5>3
        <5>5. QED  BY <5>4, <3>3, <2>1
      <4>3. QED  BY <4>1, <4>2
    <3>5. PICK i \in 1 .. n : \E q \in 1 .. Len(parts[i]) : k + 1 = start[i] + q
      <4>1. k + 1 \in 1 .. Len(w)  BY <3>3, <3>4, <2>1
      <4>2. QED  BY <4>1 DEF Placed
    <3>6. PICK q \in 1 .. Len(parts[i]) : k + 1 = start[i] + q  BY <3>5
    <3>7. start[i] \in Nat /\ Len(parts[i]) \in Nat /\ q >= 1  BY <3>6, <1>a DEF Placed
    <3>8. ~(i <= k)
      <4>1. ASSUME i <= k PROVE FALSE
        <5>1. i \in 1 .. k  BY <4>1, <2>1
        <5>2. start[i] = i - 1 /\ q = 1
          <6>1. start[i] = i - 1 /\ Len(parts[i]) = 1  BY <5>1, <3>1
          <6>2. q \in 1 .. 1  BY <6>1, <3>6
          <6>3. QED  BY <6>1, <6>2
        <5>3. QED  BY <5>2, <4>1, <3>6, <2>1
      <4>2. QED  BY <4>1
    <3>9. ~(i > k + 1)
      <4>1. ASSUME i > k + 1 PROVE FALSE
        <5>1. start[k + 1] + Len(parts[k + 1]) <= start[i]  BY <4>1, <3>2 DEF Placed
        <5>2. start[i] >= k + 1  BY <5>1, <3>2, <3>3, <3>4, <3>7, <2>1
        <5>3. QED  BY <5>2, <3>6, <3>7, <2>1
      <4>2. QED  BY <4>1
    <3>10. i = k + 1  BY <3>8, <3>9, <2>1
    <3>11. q = 1  BY <3>10, <3>2
    <3>12. QED  BY <3>6, <3>7, <3>10, <3>11, <2>1
  <2>3. Good(k + 1)
    <3>1. ASSUME k + 1 <= c, NEW j \in 1 .. k + 1 PROVE start[j] = j - 1
      <4>1. CASE j = k + 1  BY <4>1, <3>1, <2>1, <2>2
      <4>2. CASE j # k + 1
        <5>1. j \in 1 .. k /\ k <= c  BY <4>2, <3>1, <2>1
        <5>2. QED  BY <5>1, <2>1
      <4>3. QED  BY <4>1, <4>2
    <3>2. QED  BY <3>1
  <2>4. k + 1 \in Nat  BY <2>1
  <2> HIDE DEF Good
  <2>5. QED  BY <2>3, <2>4
<1>3. T = Nat
  <2>1. T \in SUBSET Nat  OBVIOUS
  <2> HIDE DEF T
  <2>2. QED  BY <2>1, <1>1, <1>2, NaturalsReached
<1>4. c \in T  BY <1>3
<1>5. Good(c)  BY <1>4
<1>6. QED  BY <1>5 DEF Counted

(* The repaired items: each is at its place, and an orphan behind its call.  *)
Restored(new, items, at) ==
    /\ new \in Seq(It)
    /\ \A k \in 1 .. Len(items) :
         /\ at[k] \in 1 .. Len(new)
         /\ ~IsOrphan(items[k], items) => new[at[k]] = items[k]
         /\ IsOrphan(items[k], items) =>
              at[k] - 1 \in 1 .. Len(new) /\ Mended(new[at[k] - 1], new[at[k]], items[k])
    /\ \A i, j \in 1 .. Len(items) : i < j => at[i] < at[j]
    /\ \A p \in 1 .. Len(new) : \E k \in 1 .. Len(items) :
         p = at[k] \/ (IsOrphan(items[k], items) /\ p = at[k] - 1)
    /\ \A c \in 0 .. Len(items) :
         (\A k \in 1 .. c : ~IsOrphan(items[k], items)) => \A k \in 1 .. c : at[k] = k

LEMMA RepairedRestores ==
  ASSUME NEW items \in Seq(It), \A k \in 1 .. Len(items) : items[k].id \in Nat
  PROVE  \E at : Restored(Repaired(items), items, at)
<1> DEFINE parts == [k \in DOMAIN items |-> Paired(items, k)]
           new == FlattenSeq(parts)
<1>1. Repaired(items) = new  BY DEF Repaired
<1>2. PICK N \in Nat : N = Len(items) /\ DOMAIN items = 1 .. N  OBVIOUS
<1>3. \A k \in 1 .. N : parts[k] = Paired(items, k)  BY <1>2
<1>4. parts = [k \in 1 .. N |-> parts[k]]  BY <1>2
<1> HIDE DEF parts
<1>5. \A k \in 1 .. N :
        /\ ~IsOrphan(items[k], items) => parts[k] = <<items[k]>>
        /\ IsOrphan(items[k], items) => \E u, v : parts[k] = <<u, v>> /\ Mended(u, v, items[k])
  BY <1>2, <1>3, PairedItems
<1>6. ASSUME NEW k \in 1 .. N
      PROVE  /\ parts[k] \in Seq(It)
             /\ ~IsOrphan(items[k], items) => Len(parts[k]) = 1 /\ parts[k][1] = items[k]
             /\ IsOrphan(items[k], items) =>
                  Len(parts[k]) = 2 /\ Mended(parts[k][1], parts[k][2], items[k])
  <2>1. CASE ~IsOrphan(items[k], items)
    <3> DEFINE x == items[k]
    <3>1. parts[k] = <<x>> /\ x \in It
      <4>1. x \in It  BY <1>2, ElementOfSeq
      <4>2. QED  BY <4>1, <2>1, <1>5
    <3> HIDE DEF x
    <3>2. <<x>> \in Seq(It) /\ Len(<<x>>) = 1 /\ <<x>>[1] = x  BY <3>1
    <3>3. QED  BY <2>1, <3>1, <3>2 DEF x
  <2>2. CASE IsOrphan(items[k], items)
    <3>1. PICK u, v : parts[k] = <<u, v>> /\ Mended(u, v, items[k])  BY <2>2, <1>5
    <3>2. u \in It /\ v \in It  BY <3>1 DEF Mended
    <3>3. <<u, v>> \in Seq(It) /\ Len(<<u, v>>) = 2 /\ <<u, v>>[1] = u /\ <<u, v>>[2] = v  BY <3>2
    <3>4. QED  BY <2>2, <3>1, <3>3
  <2>3. QED  BY <2>1, <2>2
<1>7. parts \in Seq(Seq(It)) /\ Len(parts) = N
  <2>1. parts \in [1 .. N -> Seq(It)]  BY <1>4, <1>6
  <2>2. QED  BY <2>1
<1>8. new \in Seq(It) /\ \E start : Placed(new, parts, start, Len(parts))  BY <1>7, FlattenPlaces
<1>9. PICK start : Placed(new, parts, start, N)  BY <1>7, <1>8
<1> HIDE DEF new
<1>10. PICK M \in Nat : M = Len(new)  BY <1>8
<1> DEFINE len == [k \in 1 .. N |-> Len(parts[k])]
           at == [k \in 1 .. N |-> start[k] + len[k]]
<1>11. \A k \in 1 .. N : at[k] = start[k] + len[k] /\ len[k] = Len(parts[k])  OBVIOUS
<1> HIDE DEF len, at
<1>12. \A k \in 1 .. N : (len[k] = 1 \/ len[k] = 2) /\ start[k] \in Nat /\ start[k] + len[k] <= M
  <2>1. \A k \in 1 .. N : len[k] = 1 \/ len[k] = 2  BY <1>6, <1>11
  <2>2. \A k \in 1 .. N : start[k] \in Nat /\ start[k] + len[k] <= M
    BY <1>9, <1>10, <1>11 DEF Placed
  <2>3. QED  BY <2>1, <2>2
<1>13. ASSUME NEW k \in 1 .. N
       PROVE  /\ at[k] \in 1 .. M
              /\ ~IsOrphan(items[k], items) => new[at[k]] = items[k]
              /\ IsOrphan(items[k], items) =>
                   at[k] - 1 \in 1 .. M /\ Mended(new[at[k] - 1], new[at[k]], items[k])
  <2>1. at[k] \in 1 .. M  BY <1>11, <1>12, SMTT(60)
  <2>2. \A q \in 1 .. Len(parts[k]) : new[start[k] + q] = parts[k][q]  BY <1>9 DEF Placed
  <2>3. CASE ~IsOrphan(items[k], items)
    <3>1. Len(parts[k]) = 1 /\ parts[k][1] = items[k]  BY <2>3, <1>6
    <3>2. new[start[k] + 1] = items[k]  BY <2>2, <3>1
    <3>3. at[k] = start[k] + 1  BY <3>1, <1>11
    <3>4. QED  BY <2>1, <2>3, <3>2, <3>3
  <2>4. CASE IsOrphan(items[k], items)
    <3>1. Len(parts[k]) = 2 /\ Mended(parts[k][1], parts[k][2], items[k])  BY <2>4, <1>6
    <3>2. new[start[k] + 1] = parts[k][1] /\ new[start[k] + 2] = parts[k][2]  BY <2>2, <3>1
    <3>3. at[k] = start[k] + 2 /\ at[k] - 1 = start[k] + 1 /\ start[k] \in Nat
      <4>1. len[k] = 2 /\ start[k] \in Nat  BY <3>1, <1>11, <1>12
      <4>2. QED  BY <4>1, <1>11
    <3>4. at[k] - 1 \in 1 .. M  BY <3>3, <2>1
    <3>5. QED  BY <2>1, <2>4, <3>1, <3>2, <3>3, <3>4
  <2>5. QED  BY <2>3, <2>4
<1>14. ASSUME NEW i \in 1 .. N, NEW j \in 1 .. N, i < j PROVE at[i] < at[j]
  <2>1. start[i] + len[i] <= start[j]  BY <1>9, <1>11, <1>14 DEF Placed
  <2>2. at[i] = start[i] + len[i] /\ at[j] = start[j] + len[j]  BY <1>11
  <2>3. PICK a \in Nat, b \in Nat : a = start[i] /\ b = start[j]  BY <1>12
  <2>4. PICK d \in {1, 2}, e \in {1, 2} : d = len[i] /\ e = len[j]
    <3>1. len[i] \in {1, 2} /\ len[j] \in {1, 2}  BY <1>12
    <3>2. QED  BY <3>1
  <2>5. at[i] = a + d /\ at[j] = b + e /\ a + d <= b  BY ONLY <2>1, <2>2, <2>3, <2>4
  <2>6. QED  BY ONLY <2>5, a \in Nat, b \in Nat, e \in {1, 2}, d \in {1, 2}
<1>15. ASSUME NEW p \in 1 .. M
       PROVE  \E k \in 1 .. N : p = at[k] \/ (IsOrphan(items[k], items) /\ p = at[k] - 1)
  <2>1. PICK k \in 1 .. N : \E q \in 1 .. Len(parts[k]) : p = start[k] + q
    BY <1>9, <1>10 DEF Placed
  <2>2. PICK q \in 1 .. Len(parts[k]) : p = start[k] + q  BY <2>1
  <2>3. CASE len[k] = 1
    <3>1. q \in 1 .. 1  BY <2>2, <2>3, <1>11
    <3>2. p = at[k]  BY <3>1, <2>2, <2>3, <1>11
    <3>3. QED  BY <3>2
  <2>4. CASE len[k] = 2
    <3>1. IsOrphan(items[k], items)
      <4>1. ASSUME ~IsOrphan(items[k], items) PROVE FALSE
        <5>1. Len(parts[k]) = 1  BY <4>1, <1>6
        <5>2. len[k] = Len(parts[k])  BY <1>11
        <5>3. len[k] = 1  BY ONLY <5>1, <5>2
        <5>4. 2 = 1  BY ONLY <5>3, <2>4
        <5>5. QED  BY ONLY <5>4
      <4>2. QED  BY <4>1
    <3>2. q \in 1 .. 2  BY <2>2, <2>4, <1>11
    <3>3. p = at[k] \/ p = at[k] - 1
      <4>1. p = start[k] + q /\ at[k] = start[k] + 2 /\ start[k] \in Nat
        BY <2>2, <2>4, <1>11, <1>12
      <4>2. QED  BY <4>1, <3>2
    <3>4. QED  BY <3>1, <3>3
  <2>5. QED  BY <2>3, <2>4, <1>12
<1>16. ASSUME NEW c \in 0 .. N, \A k \in 1 .. c : ~IsOrphan(items[k], items), NEW k \in 1 .. c
       PROVE  at[k] = k
  <2>1. \A i \in 1 .. c : i \in 1 .. N  OBVIOUS
  <2>2. \A i \in 1 .. c : Len(parts[i]) = 1  BY <2>1, <1>6, <1>16
  <2>3. \A i \in 1 .. N : Len(parts[i]) \in Nat \ {0}
    <3>1. \A i \in 1 .. N : len[i] \in Nat \ {0}  BY <1>12
    <3>2. QED  BY <3>1, <1>11
  <2>4. c \in Nat /\ c <= N  OBVIOUS
  <2>5. \A i \in 1 .. c : start[i] = i - 1
    <3>1. Len(new) \in Nat  BY <1>10
    <3>2. c \in Nat /\ c <= N  BY <2>4
    <3>3. Filled(parts, N)  BY <2>3 DEF Filled
    <3>4. Singles(parts, c)  BY <2>2 DEF Singles
    <3>5. Counted(start, c)
      BY ONLY <3>1, <3>2, <3>3, <3>4, <1>9, N \in Nat, PlacedSingly
    <3>6. QED  BY <3>5 DEF Counted
  <2>6. start[k] = k - 1 /\ len[k] = 1 /\ k \in 1 .. N  BY <2>1, <2>2, <2>5, <1>11
  <2>7. QED  BY <2>6, <1>11
<1>17. Restored(new, items, at)
  BY <1>2, <1>8, <1>10, <1>13, <1>14, <1>15, <1>16 DEF Restored
<1>18. QED  BY <1>1, <1>17

(* The call `u` was made for the output `v`.                                 *)
Owes(u, v) ==
    /\ IsOutput(v) /\ v.n > 0 /\ u.call \in Ids(v)
    /\ v.call = u.call \/ v.id \in 1 .. v.call - 1

(* The calls the repair made have one id, and that of an output that came.   *)
Fakes(items) ==
    \A k \in 1 .. Len(items) : items[k].n = -1 =>
      /\ items[k].id = 0 /\ items[k].call # 0
      /\ items[k].call > 0 => \E x \in 1 .. Len(items) : Owes(items[k], items[x])

Numbered(items) == \A k \in 1 .. Len(items) : items[k].id \in Nat

NoOrphans(items) == \A k \in 1 .. Len(items) : ~IsOrphan(items[k], items)

HoldsOf(items, c) ==
    /\ c \in Seq(It)
    /\ \A n \in 1 .. Len(c) : c[n].n = n /\ \E k \in 1 .. Len(items) : items[k].n = n
    /\ \A k \in 1 .. Len(items) : items[k].n > 0 =>
         /\ items[k].n \in 1 .. Len(c)
         /\ items[k].type = c[items[k].n].type /\ items[k].image = c[items[k].n].image

LEMMA CallIdsHold ==
  ASSUME NEW items \in Seq(It), NEW x
  PROVE  x \in CallIds(items) <=> \E k \in 1 .. Len(items) : IsCall(items[k]) /\ x \in Ids(items[k])
<1>1. DOMAIN items = 1 .. Len(items)  OBVIOUS
<1>2. x \in CallIds(items) <=> \E k \in DOMAIN items : IsCall(items[k]) /\ x \in Ids(items[k])
  BY DEF CallIds
<1>3. QED  BY <1>1, <1>2

(* A call is none of the outputs.                                            *)
LEMMA CallNoOutput ==
  ASSUME NEW it
  PROVE  /\ IsCall(it) => ~IsOutput(it)
         /\ it.type = "call" <=> IsCall(it)
BY DEF IsCall, IsOutput

(* Where an item of the repaired ones is from.                               *)
LEMMA RestoredFrom ==
  ASSUME NEW items, Told(items), NEW new, NEW at, Restored(new, items, at), NEW p \in 1 .. Len(new)
  PROVE  \E k \in 1 .. Len(items) :
           \/ /\ p = at[k] /\ new[p].n = items[k].n /\ new[p].type = items[k].type
              /\ new[p].image = items[k].image /\ new[p].id = items[k].id
              /\ ~IsOrphan(items[k], items) => new[p] = items[k]
           \/ /\ p = at[k] - 1 /\ at[k] \in 1 .. Len(new) /\ IsOrphan(items[k], items)
              /\ Mended(new[p], new[at[k]], items[k])
<1>1. PICK k \in 1 .. Len(items) : p = at[k] \/ (IsOrphan(items[k], items) /\ p = at[k] - 1)
  BY DEF Restored
<1>2. /\ at[k] \in 1 .. Len(new)
      /\ ~IsOrphan(items[k], items) => new[at[k]] = items[k]
      /\ IsOrphan(items[k], items) => Mended(new[at[k] - 1], new[at[k]], items[k])
  BY DEF Restored
<1>3. CASE p = at[k] - 1 /\ IsOrphan(items[k], items)  BY <1>2, <1>3
<1>4. CASE p = at[k]
  <2>1. CASE IsOrphan(items[k], items)
    <3>1. /\ new[p].n = items[k].n /\ new[p].type = items[k].type
          /\ new[p].image = items[k].image /\ new[p].id = items[k].id
      BY <2>1, <1>2, <1>4 DEF Mended
    <3>2. QED  BY <2>1, <3>1, <1>4
  <2>2. CASE ~IsOrphan(items[k], items)
    <3>1. new[p] = items[k]  BY <2>2, <1>2, <1>4
    <3>2. QED  BY <3>1, <1>4
  <2>3. QED  BY <2>1, <2>2
<1>5. QED  BY <1>1, <1>3, <1>4

(* The places of the items that came keep their order.                       *)
LEMMA RestoredTold ==
  ASSUME NEW items, Told(items), NEW new, NEW at, Restored(new, items, at)
  PROVE  Told(new)
<1>1. new \in Seq(It)  BY DEF Restored
<1>2. ASSUME NEW p \in 1 .. Len(new)
      PROVE  new[p].n > 0 \/ (new[p].n = -1 /\ new[p].type = "call")
  <2>1. PICK k \in 1 .. Len(items) :
          \/ new[p].n = items[k].n /\ new[p].type = items[k].type
          \/ Mended(new[p], new[at[k]], items[k])
    BY RestoredFrom
  <2>2. CASE new[p].n = items[k].n /\ new[p].type = items[k].type  BY <2>2 DEF Told
  <2>3. CASE Mended(new[p], new[at[k]], items[k])  BY <2>3 DEF Mended
  <2>4. QED  BY <2>1, <2>2, <2>3
<1>3. ASSUME NEW p \in 1 .. Len(new), new[p].n > 0
      PROVE  \E k \in 1 .. Len(items) : p = at[k] /\ new[p].n = items[k].n
  <2>1. PICK k \in 1 .. Len(items) :
          \/ p = at[k] /\ new[p].n = items[k].n
          \/ Mended(new[p], new[at[k]], items[k])
    BY RestoredFrom
  <2>2. CASE Mended(new[p], new[at[k]], items[k])
    <3>1. new[p].n = -1  BY <2>2 DEF Mended
    <3>2. QED  BY <3>1, <1>3
  <2>3. QED  BY <2>1, <2>2
<1>4. ASSUME NEW i \in 1 .. Len(new), NEW j \in 1 .. Len(new), i < j, new[i].n > 0, new[j].n > 0
      PROVE  new[i].n < new[j].n
  <2>1. PICK k \in 1 .. Len(items) : i = at[k] /\ new[i].n = items[k].n  BY <1>3, <1>4
  <2>2. PICK l \in 1 .. Len(items) : j = at[l] /\ new[j].n = items[l].n  BY <1>3, <1>4
  <2>3. ~(l < k)
    <3>1. ASSUME l < k PROVE FALSE
      <4>1. at[l] < at[k]  BY <3>1 DEF Restored
      <4>2. j < i  BY <4>1, <2>1, <2>2
      <4>3. i \in Int /\ j \in Int  OBVIOUS
      <4>4. QED  BY ONLY <4>2, <4>3, <1>4
    <3>2. QED  BY <3>1
  <2>4. k # l
    <3>1. ASSUME k = l PROVE FALSE
      <4>1. i = j  BY <3>1, <2>1, <2>2
      <4>2. i \in Int  OBVIOUS
      <4>3. QED  BY ONLY <4>1, <4>2, <1>4
    <3>2. QED  BY <3>1
  <2>5. k < l
    <3>1. k \in Int /\ l \in Int  BY <2>1, <2>2
    <3>2. QED  BY ONLY <3>1, <2>3, <2>4
  <2>6. items[k].n > 0 /\ items[l].n > 0  BY <2>1, <2>2, <1>4
  <2>7. items[k].n < items[l].n  BY <2>5, <2>6 DEF Told
  <2>8. QED  BY <2>1, <2>2, <2>7
<1>5. QED  BY <1>1, <1>2, <1>4 DEF Told

LEMMA RestoredHolds ==
  ASSUME NEW items, Told(items), NEW c, HoldsOf(items, c), NEW new, NEW at, Restored(new, items, at)
  PROVE  HoldsOf(new, c)
<1>1. c \in Seq(It)  BY DEF HoldsOf
<1>2. ASSUME NEW n \in 1 .. Len(c)
      PROVE  c[n].n = n /\ \E k \in 1 .. Len(new) : new[k].n = n
  <2>1. c[n].n = n  BY DEF HoldsOf
  <2>2. PICK k \in 1 .. Len(items) : items[k].n = n  BY DEF HoldsOf
  <2>3. at[k] \in 1 .. Len(new)  BY DEF Restored
  <2>4. new[at[k]].n = items[k].n
    <3>1. CASE IsOrphan(items[k], items)
      <4>1. Mended(new[at[k] - 1], new[at[k]], items[k])  BY <3>1 DEF Restored
      <4>2. QED  BY <4>1 DEF Mended
    <3>2. CASE ~IsOrphan(items[k], items)
      <4>1. new[at[k]] = items[k]  BY <3>2 DEF Restored
      <4>2. QED  BY <4>1
    <3>3. QED  BY <3>1, <3>2
  <2>5. QED  BY <2>1, <2>2, <2>3, <2>4
<1>3. ASSUME NEW p \in 1 .. Len(new), new[p].n > 0
      PROVE  /\ new[p].n \in 1 .. Len(c)
             /\ new[p].type = c[new[p].n].type /\ new[p].image = c[new[p].n].image
  <2>1. PICK k \in 1 .. Len(items) :
          \/ new[p].n = items[k].n /\ new[p].type = items[k].type /\ new[p].image = items[k].image
          \/ Mended(new[p], new[at[k]], items[k])
    BY RestoredFrom
  <2>2. CASE Mended(new[p], new[at[k]], items[k])
    <3>1. new[p].n = -1  BY <2>2 DEF Mended
    <3>2. QED  BY <3>1, <1>3
  <2>3. CASE new[p].n = items[k].n /\ new[p].type = items[k].type /\ new[p].image = items[k].image
    <3>1. items[k].n > 0  BY <2>3, <1>3
    <3>2. /\ items[k].n \in 1 .. Len(c)
          /\ items[k].type = c[items[k].n].type /\ items[k].image = c[items[k].n].image
      BY <3>1 DEF HoldsOf
    <3>3. QED  BY <2>3, <3>2
  <2>4. QED  BY <2>1, <2>2, <2>3
<1>4. QED  BY <1>1, <1>2, <1>3 DEF HoldsOf

LEMMA RestoredNumbered ==
  ASSUME NEW items, Told(items), Numbered(items), NEW new, NEW at, Restored(new, items, at)
  PROVE  Numbered(new)
<1>1. ASSUME NEW p \in 1 .. Len(new) PROVE new[p].id \in Nat
  <2>1. PICK k \in 1 .. Len(items) :
          new[p].id = items[k].id \/ Mended(new[p], new[at[k]], items[k])
    BY RestoredFrom
  <2>2. CASE Mended(new[p], new[at[k]], items[k])
    <3>1. new[p].id = 0  BY <2>2 DEF Mended
    <3>2. QED  BY <3>1
  <2>3. CASE new[p].id = items[k].id
    <3>1. items[k].id \in Nat  BY DEF Numbered
    <3>2. QED  BY <2>3, <3>1
  <2>4. QED  BY <2>1, <2>2, <2>3
<1>2. QED  BY <1>1 DEF Numbered

(* Every output of the repaired items has its call.                          *)
LEMMA RestoredPaired ==
  ASSUME NEW items, Told(items), NEW new, NEW at, Restored(new, items, at)
  PROVE  NoOrphans(new)
<1>1. new \in Seq(It) /\ items \in Seq(It)  BY DEF Restored, Told
<1>2. ASSUME NEW x \in CallIds(items) PROVE x \in CallIds(new)
  <2>1. PICK k \in 1 .. Len(items) : IsCall(items[k]) /\ x \in Ids(items[k])
    BY <1>1, <1>2, CallIdsHold
  <2>2. ~IsOrphan(items[k], items)  BY <2>1, CallNoOutput DEF IsOrphan
  <2>3. at[k] \in 1 .. Len(new) /\ new[at[k]] = items[k]  BY <2>2 DEF Restored
  <2>4. QED  BY <2>1, <2>3, <1>1, CallIdsHold
<1>3. ASSUME NEW p \in 1 .. Len(new), IsOutput(new[p]), Ids(new[p]) \cap CallIds(new) = {}
      PROVE  FALSE
  <2>1. PICK k \in 1 .. Len(items) :
           \/ /\ p = at[k] /\ new[p].type = items[k].type
              /\ ~IsOrphan(items[k], items) => new[p] = items[k]
           \/ Mended(new[p], new[at[k]], items[k])
    BY RestoredFrom
  <2>2. ~Mended(new[p], new[at[k]], items[k])
    <3>1. ~IsCall(new[p])  BY <1>3, CallNoOutput
    <3>2. QED  BY <3>1 DEF Mended, IsCall
  <2>3. p = at[k] /\ (~IsOrphan(items[k], items) => new[p] = items[k])  BY <2>1, <2>2
  <2>4. CASE IsOrphan(items[k], items)
    <3>1. PICK q \in 1 .. Len(new) : Mended(new[q], new[p], items[k])
      <4>1. at[k] - 1 \in 1 .. Len(new) /\ Mended(new[at[k] - 1], new[at[k]], items[k])
        BY <2>4 DEF Restored
      <4>2. QED  BY <4>1, <2>3
    <3>2. IsCall(new[q]) /\ new[q].call \in Ids(new[q]) /\ new[q].call \in Ids(new[p])
      BY <3>1 DEF Mended, IsCall, Ids
    <3>3. new[q].call \in CallIds(new)  BY <3>2, <1>1, CallIdsHold
    <3>4. QED  BY <3>2, <3>3, <1>3
  <2>5. CASE ~IsOrphan(items[k], items)
    <3>1. new[p] = items[k]  BY <2>3, <2>5
    <3>2. IsOutput(items[k])  BY <3>1, <1>3
    <3>3. PICK x \in Ids(items[k]) : x \in CallIds(items)  BY <3>2, <2>5 DEF IsOrphan
    <3>4. x \in Ids(new[p]) /\ x \in CallIds(new)  BY <3>1, <3>3, <1>2
    <3>5. QED  BY <3>4, <1>3
  <2>6. QED  BY <2>4, <2>5
<1>4. QED  BY <1>3 DEF NoOrphans, IsOrphan

(* The repaired calls keep the outputs they were made for.                   *)
LEMMA RestoredFakes ==
  ASSUME NEW items, Told(items), Fakes(items), NEW new, NEW at, Restored(new, items, at)
  PROVE  Fakes(new)
<1>1. new \in Seq(It) /\ items \in Seq(It)  BY DEF Restored, Told
<1>2. ASSUME NEW p \in 1 .. Len(new), new[p].n = -1
      PROVE  /\ new[p].id = 0 /\ new[p].call # 0
             /\ new[p].call > 0 => \E x \in 1 .. Len(new) : Owes(new[p], new[x])
  <2>1. PICK k \in 1 .. Len(items) :
           \/ /\ p = at[k] /\ new[p].n = items[k].n
              /\ ~IsOrphan(items[k], items) => new[p] = items[k]
           \/ /\ at[k] \in 1 .. Len(new) /\ IsOrphan(items[k], items)
              /\ Mended(new[p], new[at[k]], items[k])
    BY RestoredFrom
  <2>2. CASE /\ p = at[k] /\ new[p].n = items[k].n
             /\ ~IsOrphan(items[k], items) => new[p] = items[k]
    <3>1. items[k].n = -1  BY <2>2, <1>2
    <3>2. items[k].type = "call"
      <4>1. ~(items[k].n > 0)  BY <3>1
      <4>2. QED  BY <4>1 DEF Told
    <3>3. IsCall(items[k]) /\ ~IsOrphan(items[k], items)  BY <3>2, CallNoOutput DEF IsOrphan
    <3>4. new[p] = items[k]  BY <2>2, <3>3
    <3>5. items[k].id = 0 /\ items[k].call # 0  BY <3>1 DEF Fakes
    <3>6. ASSUME items[k].call > 0 PROVE \E x \in 1 .. Len(new) : Owes(new[p], new[x])
      <4>1. PICK x \in 1 .. Len(items) : Owes(items[k], items[x])  BY <3>1, <3>6 DEF Fakes
      <4>2. items[k].call \in Ids(items[x]) /\ items[k].call \in Ids(items[k])
        <5>1. items[k].call \in Ids(items[x])  BY <4>1 DEF Owes
        <5>2. QED  BY <5>1, <3>5 DEF Ids
      <4>3. items[k].call \in CallIds(items)  BY <4>2, <3>3, <1>1, CallIdsHold
      <4>4. ~IsOrphan(items[x], items)  BY <4>2, <4>3 DEF IsOrphan
      <4>5. at[x] \in 1 .. Len(new) /\ new[at[x]] = items[x]  BY <4>4 DEF Restored
      <4>6. QED  BY <4>1, <4>5, <3>4
    <3>7. QED  BY <3>4, <3>5, <3>6
  <2>3. CASE /\ at[k] \in 1 .. Len(new) /\ IsOrphan(items[k], items)
             /\ Mended(new[p], new[at[k]], items[k])
    <3>1. new[p].id = 0 /\ new[p].call # 0  BY <2>3 DEF Mended
    <3>2. Owes(new[p], new[at[k]])
      <4>1. IsOutput(items[k])  BY <2>3 DEF IsOrphan
      <4>2. items[k].n > 0
        <5>1. ~(items[k].type = "call")  BY <4>1, CallNoOutput
        <5>2. QED  BY <5>1 DEF Told
      <4>3. new[at[k]].type = items[k].type /\ new[at[k]].n = items[k].n  BY <2>3 DEF Mended
      <4>4. IsOutput(new[at[k]]) /\ new[at[k]].n > 0  BY <4>1, <4>2, <4>3 DEF IsOutput
      <4>5. /\ new[p].call \in Ids(new[at[k]])
            /\ new[at[k]].call = new[p].call \/ new[at[k]].id \in 1 .. new[at[k]].call - 1
        BY <2>3 DEF Mended
      <4>6. QED  BY <4>4, <4>5 DEF Owes
    <3>3. QED  BY <2>3, <3>1, <3>2
  <2>4. QED  BY <2>1, <2>2, <2>3
<1>3. QED  BY <1>2 DEF Fakes

(* An output of repaired items is found by its call_id, or its other id is   *)
(* in the way.                                                               *)
LEMMA OutputsLinked ==
  ASSUME NEW items, Told(items), Fakes(items), Numbered(items), NoOrphans(items),
         NEW k \in 1 .. Len(items), IsOutput(items[k])
  PROVE  \/ items[k].id \in 1 .. items[k].call - 1
         \/ \E j \in 1 .. Len(items) : j # k /\ items[j].n > 0 /\ Crossed(items[j], items[k])
         \/ \E j \in 1 .. Len(items) : IsCall(items[j]) /\ items[j].call = items[k].call
<1>1. items \in Seq(It)  BY DEF Told
<1>2. ~IsOrphan(items[k], items)  BY DEF NoOrphans
<1>3. PICK x \in Ids(items[k]) : x \in CallIds(items)  BY <1>2 DEF IsOrphan
<1>4. PICK j \in 1 .. Len(items) : IsCall(items[j]) /\ x \in Ids(items[j])
  BY <1>1, <1>3, CallIdsHold
<1>5. j # k  BY <1>4, CallNoOutput
<1>6. CASE items[j].call = items[k].call  BY <1>4, <1>6
<1>7. CASE items[j].call # items[k].call /\ items[j].n > 0
  <2>1. Crossed(items[j], items[k])
    <3>1. x = items[j].call \/ x = items[j].id  BY <1>4 DEF Ids
    <3>2. x = items[k].call \/ x = items[k].id  BY <1>3 DEF Ids
    <3>3. CASE x = items[j].id  BY <3>3, <1>3 DEF Crossed
    <3>4. CASE x = items[k].id  BY <3>4, <1>4 DEF Crossed
    <3>5. QED  BY <3>1, <3>2, <3>3, <3>4, <1>7
  <2>2. QED  BY <2>1, <1>5, <1>7
<1>8. CASE items[j].call # items[k].call /\ items[j].n = -1
  <2>1. items[j].id = 0  BY <1>8 DEF Fakes
  <2>2. x = items[j].call  BY <2>1, <1>4 DEF Ids
  <2>3. x = items[k].id  BY <2>2, <1>3, <1>8 DEF Ids
  <2>4. items[j].call > 0
    <3>1. items[k].id \in Nat  BY DEF Numbered
    <3>2. x # 0  BY <1>3 DEF Ids
    <3>3. QED  BY <3>1, <3>2, <2>2, <2>3
  <2>5. PICK y \in 1 .. Len(items) : Owes(items[j], items[y])  BY <2>4, <1>8 DEF Fakes
  <2>6. CASE y = k  BY <2>5, <2>6, <1>4 DEF Owes
  <2>7. CASE y # k
    <3>1. items[y].n > 0 /\ items[k].id \in Ids(items[y])  BY <2>5, <2>2, <2>3 DEF Owes
    <3>2. Crossed(items[y], items[k])  BY <3>1 DEF Crossed
    <3>3. QED  BY <3>1, <3>2, <2>7
  <2>8. QED  BY <2>6, <2>7
<1>9. items[j].n > 0 \/ items[j].n = -1  BY DEF Told
<1>10. QED  BY <1>6, <1>7, <1>8, <1>9

(* What begins the items without an orphan begins the repaired items.        *)
LEMMA RestoredPrefix ==
  ASSUME NEW items, Told(items), NEW new, NEW at, Restored(new, items, at),
         NEW s \in Seq(It), Len(s) <= Len(items), \A k \in 1 .. Len(s) : items[k] = s[k],
         NoOrphans(s)
  PROVE  IsPrefix(s, new)
<1>1. new \in Seq(It) /\ items \in Seq(It)  BY DEF Restored, Told
<1>2. PICK c \in Nat : c = Len(s)  OBVIOUS
<1>3. PICK N \in Nat : N = Len(items)  BY <1>1
<1>4. ASSUME NEW x \in CallIds(s) PROVE x \in CallIds(items)
  <2>1. PICK k \in 1 .. Len(s) : IsCall(s[k]) /\ x \in Ids(s[k])  BY <1>4, CallIdsHold
  <2>2. k \in 1 .. Len(items) /\ items[k] = s[k]  BY <2>1, <1>2, <1>3
  <2>3. QED  BY <2>1, <2>2, <1>1, CallIdsHold
<1>5. \A k \in 1 .. c : ~IsOrphan(items[k], items)
  <2>1. ASSUME NEW k \in 1 .. c PROVE ~IsOrphan(items[k], items)
    <3>1. items[k] = s[k] /\ ~IsOrphan(s[k], s)  BY <1>2 DEF NoOrphans
    <3>2. QED  BY <3>1, <1>4 DEF IsOrphan
  <2>2. QED  BY <2>1
<1>6. c \in 0 .. N  BY <1>2, <1>3
<1>7. \A k \in 1 .. c : at[k] = k
  <2>1. \A e \in 0 .. Len(items) :
          (\A k \in 1 .. e : ~IsOrphan(items[k], items)) => \A k \in 1 .. e : at[k] = k
    BY DEF Restored
  <2>2. c \in 0 .. Len(items)  BY <1>6, <1>3
  <2>3. QED  BY <2>1, <2>2, <1>5
<1>8. ASSUME NEW k \in 1 .. c PROVE k \in 1 .. Len(new) /\ new[k] = s[k]
  <2>1. k \in 1 .. Len(items)  BY <1>6, <1>3
  <2>2. at[k] \in 1 .. Len(new) /\ (~IsOrphan(items[k], items) => new[at[k]] = items[k])
    BY <2>1 DEF Restored
  <2>3. at[k] = k /\ ~IsOrphan(items[k], items) /\ items[k] = s[k]  BY <1>5, <1>7, <1>2
  <2>4. QED  BY <2>2, <2>3
<1>9. Len(s) <= Len(new)
  <2>1. PICK M \in Nat : M = Len(new)  BY <1>1
  <2>2. CASE c = 0  BY <2>1, <2>2, <1>2
  <2>3. CASE c # 0
    <3>1. c \in 1 .. c  BY <2>3
    <3>2. c \in 1 .. M  BY <3>1, <1>8, <2>1
    <3>3. QED  BY <3>2, <2>1, <1>2
  <2>4. QED  BY <2>2, <2>3
<1>10. SubSeq(s, 1, Len(s)) = SubSeq(new, 1, Len(s))
  <2>1. SubSeq(s, 1, Len(s)) = [k \in 1 .. c |-> s[k]]
    <3>1. SubSeq(s, 1, Len(s)) = s  BY SubSeqFull
    <3>2. QED  BY <3>1, <1>2
  <2>2. SubSeq(new, 1, c) = [k \in 1 .. c |-> new[k]]  BY <1>1, <1>2, <1>8
  <2>3. QED  BY <2>1, <2>2, <1>2, <1>8
<1>11. QED  BY <1>9, <1>10 DEF IsPrefix

(* What holds of the items of a conversation in which `c` came.              *)
Conversation(items, c) == Told(items) /\ HoldsOf(items, c) /\ Fakes(items) /\ Numbered(items)

LEMMA ItemComes ==
  ASSUME NEW it \in Items, NEW n \in Nat
  PROVE  LET x == [it EXCEPT !.n = n] IN x \in It /\ x.n = n /\ x.id \in Nat /\ x.type = it.type
<1>1. it \in [type : ItemTypes, call : Nat, id : Nat, image : BOOLEAN, n : {0}]
  BY HistoryAssumption
<1> HIDE DEF ItemTypes
<1>2. QED  BY <1>1 DEF It

(* Another item comes.                                                       *)
LEMMA ConversationGrows ==
  ASSUME NEW items, NEW c, Conversation(items, c), NEW x \in It, x.n = Len(c) + 1, x.id \in Nat
  PROVE  Conversation(Append(items, x), Append(c, x))
<1> DEFINE new == Append(items, x)
           d == Append(c, x)
<1>1. items \in Seq(It) /\ c \in Seq(It)  BY DEF Conversation, Told, HoldsOf
<1>2. PICK N \in Nat : N = Len(items)  BY <1>1
<1>3. PICK m \in Nat : m = Len(c)  BY <1>1
<1>4. /\ new \in Seq(It) /\ Len(new) = N + 1 /\ new[N + 1] = x
      /\ \A k \in 1 .. N : new[k] = items[k]
  BY <1>1, <1>2
<1>5. d \in Seq(It) /\ Len(d) = m + 1 /\ d[m + 1] = x /\ \A k \in 1 .. m : d[k] = c[k]
  BY <1>1, <1>3
<1>6. \A k \in 1 .. Len(new) : k \in 1 .. N \/ k = N + 1  BY <1>4
<1>7. x.n = m + 1 /\ x.n > 0  BY <1>3
<1> HIDE DEF new, d
<1>8. Told(new)
  <2>1. ASSUME NEW k \in 1 .. Len(new) PROVE new[k].n > 0 \/ (new[k].n = -1 /\ new[k].type = "call")
    <3>1. CASE k = N + 1  BY <3>1, <1>4, <1>7
    <3>2. CASE k \in 1 .. N
      <4>1. items[k].n > 0 \/ (items[k].n = -1 /\ items[k].type = "call")
        BY <3>2, <1>2 DEF Conversation, Told
      <4>2. QED  BY <4>1, <3>2, <1>4
    <3>3. QED  BY <3>1, <3>2, <1>6
  <2>2. ASSUME NEW i \in 1 .. Len(new), NEW j \in 1 .. Len(new), i < j, new[i].n > 0, new[j].n > 0
        PROVE  new[i].n < new[j].n
    <3>1. i \in 1 .. N  BY <2>2, <1>4, <1>2
    <3>2. new[i] = items[i]  BY <3>1, <1>4
    <3>3. CASE j = N + 1
      <4>1. items[i].n \in 1 .. m  BY <3>1, <3>2, <2>2, <1>2, <1>3 DEF Conversation, HoldsOf
      <4>2. new[j].n = m + 1  BY <3>3, <1>4, <1>7
      <4>3. QED  BY <4>1, <4>2, <3>2
    <3>4. CASE j \in 1 .. N
      <4>1. new[j] = items[j]  BY <3>4, <1>4
      <4>2. items[i].n < items[j].n
        BY <3>1, <3>2, <3>4, <4>1, <2>2, <1>2 DEF Conversation, Told
      <4>3. QED  BY <3>2, <4>1, <4>2
    <3>5. QED  BY <3>3, <3>4, <1>6
  <2>3. QED  BY <2>1, <2>2, <1>4 DEF Told
<1>9. HoldsOf(new, d)
  <2>1. ASSUME NEW n \in 1 .. Len(d) PROVE d[n].n = n /\ \E k \in 1 .. Len(new) : new[k].n = n
    <3>1. CASE n = m + 1
      <4>1. N + 1 \in 1 .. Len(new) /\ new[N + 1].n = n  BY <3>1, <1>4, <1>7
      <4>2. d[n].n = n  BY <3>1, <1>5, <1>7
      <4>3. QED  BY <4>1, <4>2
    <3>2. CASE n \in 1 .. m
      <4>1. c[n].n = n /\ \E k \in 1 .. N : items[k].n = n
        BY <3>2, <1>2, <1>3 DEF Conversation, HoldsOf
      <4>2. PICK k \in 1 .. N : items[k].n = n  BY <4>1
      <4>3. k \in 1 .. Len(new) /\ new[k].n = n  BY <4>2, <1>4
      <4>4. d[n].n = n  BY <4>1, <3>2, <1>5
      <4>5. QED  BY <4>3, <4>4
    <3>3. QED  BY <3>1, <3>2, <1>5
  <2>2. ASSUME NEW k \in 1 .. Len(new), new[k].n > 0
        PROVE  new[k].n \in 1 .. Len(d) /\ new[k].type = d[new[k].n].type
                 /\ new[k].image = d[new[k].n].image
    <3>1. CASE k = N + 1
      <4>1. new[k] = x /\ d[new[k].n] = x /\ new[k].n = m + 1  BY <3>1, <1>4, <1>5, <1>7
      <4>2. QED  BY <4>1, <1>5
    <3>2. CASE k \in 1 .. N
      <4>1. new[k] = items[k]  BY <3>2, <1>4
      <4>2. /\ items[k].n \in 1 .. m
            /\ items[k].type = c[items[k].n].type /\ items[k].image = c[items[k].n].image
        BY <3>2, <4>1, <2>2, <1>2, <1>3 DEF Conversation, HoldsOf
      <4>3. d[items[k].n] = c[items[k].n]  BY <4>2, <1>5
      <4>4. items[k].n \in 1 .. Len(d)  BY <4>2, <1>5
      <4>5. QED  BY <4>1, <4>2, <4>3, <4>4
    <3>3. QED  BY <3>1, <3>2, <1>6
  <2>3. QED  BY <2>1, <2>2, <1>5 DEF HoldsOf
<1>10. Fakes(new)
  <2>1. ASSUME NEW k \in 1 .. Len(new), new[k].n = -1
        PROVE  /\ new[k].id = 0 /\ new[k].call # 0
               /\ new[k].call > 0 => \E y \in 1 .. Len(new) : Owes(new[k], new[y])
    <3>1. k \in 1 .. N /\ new[k] = items[k]
      <4>1. k # N + 1  BY <2>1, <1>4, <1>7
      <4>2. QED  BY <4>1, <1>6, <1>4
    <3>2. /\ items[k].id = 0 /\ items[k].call # 0
          /\ items[k].call > 0 => \E y \in 1 .. N : Owes(items[k], items[y])
      BY <3>1, <2>1, <1>2 DEF Conversation, Fakes
    <3>3. ASSUME new[k].call > 0 PROVE \E y \in 1 .. Len(new) : Owes(new[k], new[y])
      <4>1. PICK y \in 1 .. N : Owes(items[k], items[y])  BY <3>1, <3>2, <3>3
      <4>2. y \in 1 .. Len(new) /\ new[y] = items[y]  BY <1>4
      <4>3. QED  BY <4>1, <4>2, <3>1
    <3>4. QED  BY <3>1, <3>2, <3>3
  <2>2. QED  BY <2>1 DEF Fakes
<1>11. Numbered(new)
  <2>1. ASSUME NEW k \in 1 .. Len(new) PROVE new[k].id \in Nat
    <3>1. CASE k = N + 1  BY <3>1, <1>4
    <3>2. CASE k \in 1 .. N
      <4>1. items[k].id \in Nat  BY <3>2, <1>2 DEF Conversation, Numbered
      <4>2. QED  BY <4>1, <3>2, <1>4
    <3>3. QED  BY <3>1, <3>2, <1>6
  <2>2. QED  BY <2>1 DEF Numbered
<1>12. QED  BY <1>8, <1>9, <1>10, <1>11 DEF Conversation, new, d

(* The next item is no output: none is without its call.                     *)
LEMMA PairedGrows ==
  ASSUME NEW s \in Seq(It), NoOrphans(s), NEW x \in It, ~IsOutput(x)
  PROVE  NoOrphans(Append(s, x))
<1> DEFINE t == Append(s, x)
<1>1. PICK N \in Nat : N = Len(s)  OBVIOUS
<1>2. t \in Seq(It) /\ Len(t) = N + 1 /\ t[N + 1] = x /\ \A k \in 1 .. N : t[k] = s[k]  BY <1>1
<1> HIDE DEF t
<1>3. ASSUME NEW y \in CallIds(s) PROVE y \in CallIds(t)
  <2>1. PICK k \in 1 .. Len(s) : IsCall(s[k]) /\ y \in Ids(s[k])  BY <1>3, CallIdsHold
  <2>2. k \in 1 .. Len(t) /\ t[k] = s[k]  BY <2>1, <1>1, <1>2
  <2>3. QED  BY <2>1, <2>2, <1>2, CallIdsHold
<1>4. ASSUME NEW k \in 1 .. Len(t) PROVE ~IsOrphan(t[k], t)
  <2>1. CASE k = N + 1  BY <2>1, <1>2 DEF IsOrphan
  <2>2. CASE k \in 1 .. N
    <3>1. ~IsOrphan(s[k], s) /\ t[k] = s[k]  BY <2>2, <1>1, <1>2 DEF NoOrphans
    <3>2. QED  BY <3>1, <1>3 DEF IsOrphan
  <2>3. QED  BY <2>1, <2>2, <1>2
<1>5. QED  BY <1>4 DEF NoOrphans, t

LEMMA JoinedItems ==
  ASSUME NEW s \in Seq(It), NEW t \in Seq(It), NEW x \in It
  PROVE  /\ s \o Append(t, x) = Append(s \o t, x)
         /\ s \o <<>> = s
         /\ Len(s) <= Len(s \o t) /\ \A k \in 1 .. Len(s) : (s \o t)[k] = s[k]
OBVIOUS

(* What has come is there, in its order; what was cached has its calls; and  *)
(* each call the repair made is that of an output that came.  The last two   *)
(* are why a later repair leaves the cached items as they are.               *)
HistoryInvariant ==
    /\ context \in Seq(It) /\ delta \in Seq(It)
    /\ Conversation(context \o delta, came)
    /\ NoOrphans(context)

(* The repair of a conversation's items.                                     *)
LEMMA ConversationRepaired ==
  ASSUME HistoryInvariant
  PROVE  /\ Repaired(context \o delta) \in Seq(It)
         /\ Conversation(Repaired(context \o delta), came)
         /\ NoOrphans(Repaired(context \o delta))
         /\ IsPrefix(context, Repaired(context \o delta))
<1> DEFINE items == context \o delta
           new == Repaired(items)
<1>1. context \in Seq(It) /\ delta \in Seq(It) /\ NoOrphans(context)  BY DEF HistoryInvariant
<1>2. Told(items) /\ HoldsOf(items, came) /\ Fakes(items) /\ Numbered(items)
  BY DEF HistoryInvariant, Conversation
<1>3. Len(context) <= Len(items) /\ \A k \in 1 .. Len(context) : items[k] = context[k]
  BY <1>1, JoinedItems
<1>4. items \in Seq(It)  BY <1>2 DEF Told
<1> HIDE DEF items
<1>5. \A k \in 1 .. Len(items) : items[k].id \in Nat  BY <1>2 DEF Numbered
<1>6. PICK at : Restored(new, items, at)  BY <1>4, <1>5, RepairedRestores
<1> HIDE DEF new
<1>7. Told(new)  BY <1>2, <1>6, RestoredTold
<1>8. HoldsOf(new, came)  BY <1>2, <1>6, RestoredHolds
<1>9. Fakes(new)  BY <1>2, <1>6, RestoredFakes
<1>10. Numbered(new)  BY <1>2, <1>6, RestoredNumbered
<1>11. NoOrphans(new)  BY <1>2, <1>6, RestoredPaired
<1>12. IsPrefix(context, new)  BY <1>1, <1>2, <1>3, <1>6, RestoredPrefix
<1>13. new \in Seq(It)  BY <1>7 DEF Told
<1>14. QED
  BY <1>7, <1>8, <1>9, <1>10, <1>11, <1>12, <1>13 DEF Conversation, new, items

LEMMA HistoryBegins == HistoryInit => HistoryInvariant
<1> SUFFICES ASSUME HistoryInit PROVE HistoryInvariant  OBVIOUS
<1>1. context = <<>> /\ delta = <<>> /\ came = <<>>  BY DEF HistoryInit
<1>2. <<>> \in Seq(It) /\ <<>> \o <<>> = <<>> /\ Len(<<>>) = 0  OBVIOUS
<1>3. Told(<<>>)  BY <1>2 DEF Told
<1>4. HoldsOf(<<>>, <<>>)  BY <1>2 DEF HoldsOf
<1>5. Fakes(<<>>) /\ Numbered(<<>>) /\ NoOrphans(<<>>)  BY <1>2 DEF Fakes, Numbered, NoOrphans
<1>6. Conversation(<<>>, <<>>)  BY <1>3, <1>4, <1>5 DEF Conversation
<1>7. context \o delta = <<>>  BY <1>1, <1>2
<1>8. QED  BY <1>1, <1>2, <1>5, <1>6, <1>7 DEF HistoryInvariant

LEMMA HistoryGoesOn ==
  ASSUME HistoryInvariant, [HistoryNext]_contextVars
  PROVE  HistoryInvariant'
<1>1. /\ context \in Seq(It) /\ delta \in Seq(It)
      /\ Conversation(context \o delta, came) /\ NoOrphans(context)
  BY DEF HistoryInvariant
<1>2. Len(came) + 1 \in Nat
  <2>1. came \in Seq(It)  BY <1>1 DEF Conversation, HoldsOf
  <2>2. QED  BY <2>1
<1>3. ASSUME NEW it \in Items, Bring(it) PROVE HistoryInvariant'
  <2> DEFINE x == [it EXCEPT !.n = Len(came) + 1]
  <2>1. delta' = Append(delta, x) /\ came' = Append(came, x) /\ context' = context
    BY <1>3 DEF Bring
  <2>2. x \in It /\ x.n = Len(came) + 1 /\ x.id \in Nat  BY <1>2, ItemComes
  <2> HIDE DEF x
  <2>3. Conversation(Append(context \o delta, x), Append(came, x))
    BY <1>1, <2>2, ConversationGrows
  <2>4. context \o Append(delta, x) = Append(context \o delta, x)  BY <1>1, <2>2, JoinedItems, SMTT(60)
  <2>5. Append(delta, x) \in Seq(It)  BY <1>1, <2>2
  <2>6. Conversation(context' \o delta', came')  BY <2>1, <2>3, <2>4
  <2>7. context' \in Seq(It) /\ delta' \in Seq(It) /\ NoOrphans(context')  BY <1>1, <2>1, <2>5
  <2>8. QED  BY <2>6, <2>7 DEF HistoryInvariant
<1>4. ASSUME NEW it \in Items, Reply(it) PROVE HistoryInvariant'
  <2> DEFINE x == [it EXCEPT !.n = Len(came) + 1]
  <2>1. /\ delta = <<>> /\ delta' = delta
        /\ context' = Append(context, x) /\ came' = Append(came, x)
    BY <1>4 DEF Reply
  <2>2. x \in It /\ x.n = Len(came) + 1 /\ x.id \in Nat /\ x.type = it.type
    BY <1>2, ItemComes
  <2> HIDE DEF x
  <2>3. ~IsOutput(x)  BY <2>2, <1>4 DEF Reply, IsOutput
  <2>4. context \o <<>> = context  BY <1>1, ConcatEmptySeq
  <2>5. Conversation(Append(context, x), Append(came, x))
    <3>1. Conversation(context, came)  BY <1>1, <2>1, <2>4
    <3>2. QED  BY <3>1, <2>2, ConversationGrows
  <2>6. Append(context, x) \in Seq(It)  BY <1>1, <2>2
  <2>7. Append(context, x) \o <<>> = Append(context, x)  BY <2>6, ConcatEmptySeq
  <2>8. context' \o delta' = Append(context, x)  BY <2>1, <2>7
  <2>9. Conversation(context' \o delta', came')  BY <2>1, <2>5, <2>8
  <2>10. NoOrphans(Append(context, x))  BY <1>1, <2>2, <2>3, PairedGrows
  <2>11. context' \in Seq(It) /\ delta' \in Seq(It) /\ NoOrphans(context')
    BY <1>1, <2>1, <2>6, <2>10
  <2>12. QED  BY <2>9, <2>11 DEF HistoryInvariant
<1>5. ASSUME SendTurn PROVE HistoryInvariant'
  <2> DEFINE new == Repaired(context \o delta)
  <2>1. context' = new /\ delta' = <<>> /\ came' = came  BY <1>5 DEF SendTurn, Prepared
  <2>2. new \in Seq(It) /\ Conversation(new, came) /\ NoOrphans(new)  BY ConversationRepaired
  <2> HIDE DEF new
  <2>3. new \o <<>> = new /\ <<>> \in Seq(It)  BY <2>2, ConcatEmptySeq
  <2>4. context' \o delta' = new  BY <2>1, <2>3
  <2>5. Conversation(context' \o delta', came')  BY <2>1, <2>2, <2>4
  <2>6. context' \in Seq(It) /\ delta' \in Seq(It) /\ NoOrphans(context')  BY <2>1, <2>2, <2>3
  <2>7. QED  BY <2>5, <2>6 DEF HistoryInvariant
<1>6. ASSUME UNCHANGED contextVars PROVE HistoryInvariant'
  <2>1. context' = context /\ delta' = delta /\ came' = came  BY <1>6 DEF contextVars
  <2>2. QED  BY <1>1, <2>1 DEF HistoryInvariant
<1>7. QED  BY <1>3, <1>4, <1>5, <1>6 DEF HistoryNext

LEMMA HistoryHolds == HistoryInvariant => HistoryKept
<1> SUFFICES ASSUME HistoryInvariant PROVE HistoryKept  OBVIOUS
<1> DEFINE items == Repaired(context \o delta)
           chat == Sanitized(Mapped(items))
<1>1. items \in Seq(It) /\ Conversation(items, came) /\ NoOrphans(items) /\ IsPrefix(context, items)
  BY ConversationRepaired
<1> HIDE DEF items
<1>2. Told(items) /\ HoldsOf(items, came) /\ Fakes(items) /\ Numbered(items)
  BY <1>1 DEF Conversation
<1>3. HoldsAll(items)  BY <1>2 DEF HoldsOf, HoldsAll
<1>4. PairedForChat(chat) /\ NothingErased(chat) /\ DoubtFounded(chat, items)
  BY <1>2, <1>3, ChatKept
<1> HIDE DEF chat
<1>5. LinkedForNative(items)
  <2>1. DOMAIN items = 1 .. Len(items)  BY <1>1
  <2>2. ASSUME NEW k \in 1 .. Len(items), IsOutput(items[k])
        PROVE  /\ ~IsOrphan(items[k], items)
               /\ \/ items[k].id \in 1 .. items[k].call - 1
                  \/ \E j \in (1 .. Len(items)) \ {k} : items[j].n > 0 /\ Crossed(items[j], items[k])
                  \/ \E j \in 1 .. Len(items) : IsCall(items[j]) /\ items[j].call = items[k].call
    <3>1. ~IsOrphan(items[k], items)  BY <1>1 DEF NoOrphans
    <3>2. \/ items[k].id \in 1 .. items[k].call - 1
          \/ \E j \in 1 .. Len(items) : j # k /\ items[j].n > 0 /\ Crossed(items[j], items[k])
          \/ \E j \in 1 .. Len(items) : IsCall(items[j]) /\ items[j].call = items[k].call
      BY <1>1, <1>2, <2>2, OutputsLinked
    <3>3. QED  BY <3>1, <3>2
  <2>3. QED  BY <2>1, <2>2, <1>1 DEF LinkedForNative
<1>6. QED  BY <1>4, <1>5 DEF HistoryKept, Prepared, chat, items

(* A conversation's tool calls survive its repairs, whatever came and was    *)
(* sent in whatever turns: the messages made of it pair every call with its  *)
(* outputs and lose nothing, an outcome is called unknown only if it did not *)
(* come, and the items for the native upstream only grow and have a call for *)
(* every output.                                                             *)
THEOREM HistoryTheorem == HistorySpec => []HistoryKept
<1>1. HistoryInit => HistoryInvariant  BY HistoryBegins
<1>2. HistoryInvariant /\ [HistoryNext]_contextVars => HistoryInvariant'
  BY HistoryGoesOn
<1>3. HistoryInvariant => HistoryKept  BY HistoryHolds
<1>4. QED  BY <1>1, <1>2, <1>3, PTL DEF HistorySpec
=============================================================================
